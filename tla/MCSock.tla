-------------------------------- MODULE MCSock --------------------------------
\* One listener, two other sock_conns and a log over four descriptors.
EXTENDS Log, TLC

\* The two sock_conns that connect or are accepted may change places.
Interchangeable == Permutations(Client)
=============================================================================
