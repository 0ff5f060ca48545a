-------------------------------- MODULE Stack ---------------------------------
(***************************************************************************)
(* What an array promises: the elements pushed and not yet popped, in      *)
(* order, the last pushed popped first; any of them may be overwritten,    *)
(* and all of them sorted.                                                 *)
(***************************************************************************)
EXTENDS Integers, SequencesExt

CONSTANTS Value, Capacity

VARIABLE stack

Init == stack = <<>>

Push(v) == Len(stack) < Capacity /\ stack' = Append(stack, v)

Pop == stack # <<>> /\ stack' = Front(stack)

Overwrite(k, v) == stack' = [stack EXCEPT ![k] = v]

Sort ==
  /\ stack' \in [1..Len(stack) -> Value]
  /\ \A v \in Value : Cardinality({k \in DOMAIN stack : stack[k] = v})
                        = Cardinality({k \in DOMAIN stack : stack'[k] = v})
  /\ \A j, k \in DOMAIN stack : j < k => stack'[j] <= stack'[k]

Clear == stack' = <<>>

Next ==
  \/ \E v \in Value : Push(v) \/ \E k \in DOMAIN stack : Overwrite(k, v)
  \/ Pop \/ Sort \/ Clear

Spec == Init /\ [][Next]_stack
=============================================================================
