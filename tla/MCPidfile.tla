------------------------------- MODULE MCPidfile -------------------------------
(***************************************************************************)
(* Pidfile with two processes, which end and start again, and three        *)
(* segments one after the other, beside the foreign one.                   *)
(***************************************************************************)
EXTENDS Pidfile, TLC

\* Any process may play any part.
Interchangeable == Permutations(Proc)
=============================================================================
