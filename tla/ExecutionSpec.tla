---------------------------- MODULE ExecutionSpec ----------------------------
(***************************************************************************)
(* What the execution table of a session promises, whatever the flow does: *)
(* an execution begins in progress, settles, and only the last one of the  *)
(* session can be taken up again, and only when it is STOPPED.             *)
(***************************************************************************)
EXTENDS Naturals, Sequences

VARIABLE states   \* the states of the session's executions, oldest first

Settled == {"STOPPED", "FINISHED", "ERROR", "TERMINATED"}

Init == states = <<>>

Begin == states' = Append(states, "INPROGRESS")

Settle == \E i \in 1..Len(states), s \in Settled :
              /\ states[i] = "INPROGRESS"
              /\ states' = [states EXCEPT ![i] = s]

Resume == /\ states # <<>>
          /\ states[Len(states)] = "STOPPED"
          /\ states' = [states EXCEPT ![Len(states)] = "INPROGRESS"]

Next == Begin \/ Settle \/ Resume

Spec == Init /\ [][Next]_states
=============================================================================
