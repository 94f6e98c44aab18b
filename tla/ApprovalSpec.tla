---------------------------- MODULE ApprovalSpec ----------------------------
(***************************************************************************)
(* What the approval portal promises its callers, whatever its timers, its *)
(* queue and its web server do: requests are answered one at a time, in    *)
(* the order they were asked, and an answer is final.                      *)
(***************************************************************************)
EXTENDS Sequences

CONSTANTS Reqs,          \* the calls of requestApproval
          Responses,     \* the answers a call may get
          NotAsked,      \* the call has not been made
          Pending        \* the caller is paused on the promise

VARIABLES line,          \* the unanswered calls, oldest first
          outcome        \* call -> its answer, Pending or NotAsked

vars == <<line, outcome>>

Init == /\ line = <<>>
        /\ outcome = [r \in Reqs |-> NotAsked]

(* A caller asks and pauses. *)
Ask(r) == /\ outcome[r] = NotAsked
          /\ outcome' = [outcome EXCEPT ![r] = Pending]
          /\ line' = Append(line, r)

(* The oldest unanswered call gets its answer, from a human or the timeout. *)
Answer(resp) == /\ line # <<>>
                /\ outcome' = [outcome EXCEPT ![Head(line)] = resp]
                /\ line' = Tail(line)

Next == \/ \E r \in Reqs : Ask(r)
        \/ \E resp \in Responses : Answer(resp)

Spec == Init /\ [][Next]_vars
=============================================================================
