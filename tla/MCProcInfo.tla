------------------------------ MODULE MCProcInfo ------------------------------
(***************************************************************************)
(* ProcInfo with two threads.  The clock is set back, which takes a        *)
(* counter below 0 and around; reports of two metrics overflow the buffers *)
(* of one and three bytes and not that of eight, and the size of ten does  *)
(* not fit into an int.                                                    *)
(***************************************************************************)
EXTENDS ProcInfo

\* Both threads update and reset; both count requests beside a reset and a report;
\* one updates while the other prints.
Mixes ==
  {[t \in Thread |-> {"info", "reset"}],
   [t \in Thread |-> {"requests"} \cup IF t = Owner THEN {"reset"} ELSE {"print"}],
   [t \in Thread |-> IF t = Owner THEN {"info"} ELSE {"print"}]}
=============================================================================
