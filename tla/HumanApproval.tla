---------------------------- MODULE HumanApproval ----------------------------
(***************************************************************************)
(* The approval portal of packages/components/src/humanApproval.ts, in one *)
(* Node process: a module-level queue, one active request, a timer per     *)
(* request and the HTTP server an analyst answers through.                 *)
(*                                                                         *)
(* A handler runs to its end before the next one starts, so one action is  *)
(* one handler.  All timers have the same length, and Node fires timers of *)
(* one length in the order they were armed: ticket[r] is that order.       *)
(***************************************************************************)
EXTENDS Naturals, Sequences

CONSTANTS
    Reqs,        \* the calls of requestApproval
    Tabs,        \* the browser tabs of the analysts
    Edits,       \* the modifiedArgs an analyst may type that parse as JSON
    NoEdit,      \* null: the field is blank, or holds no valid JSON
    NoReq,       \* null, for activeApproval and for a tab without a form
    NotAsked,    \* a promise that does not exist yet
    Pending      \* a promise that has not been resolved

Responses == [approved : BOOLEAN, by : {"human"}, modifiedArgs : Edits \cup {NoEdit}]
             \cup [approved : {FALSE}, by : {"timeout"}, modifiedArgs : {NoEdit}]

ASSUME NullsAssumption ==
    /\ NoReq \notin Reqs
    /\ NotAsked \notin Responses
    /\ Pending \notin Responses
    /\ NotAsked # Pending

VARIABLES
    server,          \* "null", "starting", "listening", or "failed" (port taken)
    approvalQueue,   \* the waiting requests
    activeApproval,  \* the request the portal shows, or NoReq
    armed,           \* the requests whose timer is running
    calls,           \* how many calls were made
    ticket,          \* request -> its rank in the order of the calls, 0 before
    promise,         \* request -> NotAsked, Pending, or the response it got
    resolved,        \* request -> how many times its resolver ran
    tab              \* tab -> the request its form displays, or NoReq

queueVars == <<approvalQueue, activeApproval>>
callVars  == <<armed, calls, ticket, promise, resolved>>
portalVars == <<server, queueVars, callVars, tab>>

PortalInit ==
    /\ server = "null"
    /\ approvalQueue = <<>>
    /\ activeApproval = NoReq
    /\ armed = {}
    /\ calls = 0
    /\ ticket = [r \in Reqs |-> 0]
    /\ promise = [r \in Reqs |-> NotAsked]
    /\ resolved = [r \in Reqs |-> 0]
    /\ tab = [t \in Tabs |-> NoReq]

-----------------------------------------------------------------------------
(* Each definition named Bug... is the one after it with a plausible mistake; *)
(* PROJECT.json says which property tells the two apart.                     *)

(* approvalQueue.pop() for approvalQueue.shift(). *)
BugDequeuePop(active, queue) ==
    IF active # NoReq \/ queue = <<>>
    THEN activeApproval' = active /\ approvalQueue' = queue
    ELSE /\ activeApproval' = queue[Len(queue)]
         /\ approvalQueue' = SubSeq(queue, 1, Len(queue) - 1)

(* dequeueNext(): the first waiting request becomes active if none is.  It *)
(* is always called last, so it takes the two values it finds and sets     *)
(* both variables.                                                         *)
DequeueNext(active, queue) ==
    IF active # NoReq \/ queue = <<>>
    THEN activeApproval' = active /\ approvalQueue' = queue
    ELSE activeApproval' = Head(queue) /\ approvalQueue' = Tail(queue)

(* approvalQueue.splice(idx, 1) at the index of r, if it is there. *)
Splice(queue, r) ==
    IF \E i \in 1..Len(queue) : queue[i] = r
    THEN LET i == CHOOSE k \in 1..Len(queue) : queue[k] = r
         IN  SubSeq(queue, 1, i - 1) \o SubSeq(queue, i + 1, Len(queue))
    ELSE queue

(* No clearTimeout. *)
BugNoClearTimeout(r, resp) ==
    /\ promise' = [promise EXCEPT ![r] = IF @ = Pending THEN resp ELSE @]
    /\ resolved' = [resolved EXCEPT ![r] = @ + 1]
    /\ UNCHANGED <<armed, calls, ticket>>

(* resolveOnce(resp): clears the timer and resolves; a promise that is     *)
(* already resolved keeps its first value.                                 *)
ResolveOnce(r, resp) ==
    /\ armed' = armed \ {r}
    /\ promise' = [promise EXCEPT ![r] = IF @ = Pending THEN resp ELSE @]
    /\ resolved' = [resolved EXCEPT ![r] = @ + 1]
    /\ UNCHANGED <<calls, ticket>>

(* The timer is armed for the call that becomes active, not for one that *)
(* has to wait.                                                          *)
BugTimerOnlyWhenActive(r) ==
    /\ promise[r] = NotAsked
    /\ server' = IF server = "null" THEN "starting" ELSE server
    /\ armed' = IF activeApproval = NoReq THEN armed \cup {r} ELSE armed
    /\ calls' = calls + 1
    /\ ticket' = [ticket EXCEPT ![r] = calls + 1]
    /\ promise' = [promise EXCEPT ![r] = Pending]
    /\ DequeueNext(activeApproval, Append(approvalQueue, r))
    /\ UNCHANGED <<resolved, tab>>

(* requestApproval(): the first call creates the server; the call arms its *)
(* timer, joins the queue, and may become active at once.                  *)
RequestApproval(r) ==
    /\ promise[r] = NotAsked
    /\ server' = IF server = "null" THEN "starting" ELSE server
    /\ armed' = armed \cup {r}
    /\ calls' = calls + 1
    /\ ticket' = [ticket EXCEPT ![r] = calls + 1]
    /\ promise' = [promise EXCEPT ![r] = Pending]
    /\ DequeueNext(activeApproval, Append(approvalQueue, r))
    /\ UNCHANGED <<resolved, tab>>

(* server.listen(): binds the port, or fails for good: no 'error' handler  *)
(* exists, the process logs the exception and lives on, and the variable   *)
(* `server` keeps later calls from trying again.                           *)
Listen ==
    /\ server = "starting"
    /\ server' \in {"listening", "failed"}
    /\ UNCHANGED <<queueVars, callVars, tab>>

(* GET /approve: the tab gets the form of the active request, or a page    *)
(* without a form when there is none.                                      *)
GetApprove(t) ==
    /\ server = "listening"
    /\ tab' = [tab EXCEPT ![t] = activeApproval]
    /\ UNCHANGED <<server, queueVars, callVars>>

(* POST /approve: whatever form it was sent from, the decision resolves    *)
(* the request that is active when the body has arrived.  The form stays   *)
(* in the browser's history and can be sent again.  With nothing active    *)
(* the answer is a 400 and nothing changes, so that case is no step.       *)
PostApprove(t, approved, edit) ==
    /\ server = "listening"
    /\ tab[t] # NoReq
    /\ activeApproval # NoReq
    /\ ResolveOnce(activeApproval,
                   [approved |-> approved, by |-> "human", modifiedArgs |-> edit])
    /\ DequeueNext(NoReq, approvalQueue)
    /\ UNCHANGED <<server, tab>>

(* The timer frees the portal but does not pull the next request. *)
BugTimeoutNoDequeue(r) ==
    /\ r \in armed
    /\ \A s \in armed : ticket[r] <= ticket[s]
    /\ approvalQueue' = Splice(approvalQueue, r)
    /\ activeApproval' = IF activeApproval = r THEN NoReq ELSE activeApproval
    /\ ResolveOnce(r, [approved |-> FALSE, by |-> "timeout", modifiedArgs |-> NoEdit])
    /\ UNCHANGED <<server, tab>>

(* The timer of r fires: r leaves the queue if it waits there, or stops    *)
(* being active, and is rejected.                                          *)
Timeout(r) ==
    /\ r \in armed
    /\ \A s \in armed : ticket[r] <= ticket[s]
    /\ LET queue == Splice(approvalQueue, r)
       IN  IF activeApproval = r
           THEN DequeueNext(NoReq, queue)
           ELSE activeApproval' = activeApproval /\ approvalQueue' = queue
    /\ ResolveOnce(r, [approved |-> FALSE, by |-> "timeout", modifiedArgs |-> NoEdit])
    /\ UNCHANGED <<server, tab>>

Analyst == \/ \E t \in Tabs : GetApprove(t)
           \/ \E t \in Tabs, approved \in BOOLEAN, edit \in Edits \cup {NoEdit} :
                 PostApprove(t, approved, edit)

Expire == \E r \in Reqs : Timeout(r)

PortalNext == \/ \E r \in Reqs : RequestApproval(r)
        \/ Listen
        \/ Analyst
        \/ Expire

(* The event loop runs a timer that is due.  Nothing makes an analyst act, *)
(* nor a caller ask.                                                       *)
PortalSpec == PortalInit /\ [][PortalNext]_portalVars /\ WF_portalVars(Expire)

-----------------------------------------------------------------------------
PortalTypeOK ==
    /\ server \in {"null", "starting", "listening", "failed"}
    /\ approvalQueue \in Seq(Reqs)
    /\ activeApproval \in Reqs \cup {NoReq}
    /\ armed \subseteq Reqs
    /\ calls \in Nat
    /\ ticket \in [Reqs -> Nat]
    /\ promise \in [Reqs -> Responses \cup {NotAsked, Pending}]
    /\ resolved \in [Reqs -> Nat]
    /\ tab \in [Tabs -> Reqs \cup {NoReq}]

(* Requests that the portal holds: the active one and the waiting ones. *)
Held == {approvalQueue[i] : i \in 1..Len(approvalQueue)}
        \cup ({activeApproval} \ {NoReq})

(* No caller is forgotten and the portal never idles over a queue: a call  *)
(* is unresolved exactly when the portal holds it, once, with its timer    *)
(* running, and a request waits only behind an active one                  *)
(* (humanApproval.ts 31-36, 139-145, 199-212).                             *)
NoCallerForgotten ==
    /\ Held = {r \in Reqs : promise[r] = Pending}
    /\ armed = Held
    /\ \A i, j \in 1..Len(approvalQueue) :
          approvalQueue[i] = approvalQueue[j] => i = j
    /\ \A i \in 1..Len(approvalQueue) : approvalQueue[i] # activeApproval
    /\ activeApproval = NoReq => approvalQueue = <<>>

(* The timer and the form never both answer one request: its resolver runs *)
(* once, and exactly when the caller has its answer (humanApproval.ts      *)
(* 191-197; clearTimeout is what it rests on).                             *)
ResolvedOnce ==
    \A r \in Reqs : resolved[r] = IF promise[r] \in {NotAsked, Pending} THEN 0 ELSE 1

(* "Each waits its turn": only the active request is ever answered, by the *)
(* analyst or by its timer.  The timer of a waiting request never fires    *)
(* before that request has become active, although it runs from the call   *)
(* on; lines 201-202, which take a waiting request out of the queue, are   *)
(* never needed.                                                           *)
OnlyActiveAnswered ==
    [][\A r \in Reqs : promise[r] = Pending /\ promise'[r] # Pending
                          => r = activeApproval]_portalVars

(* The portal holds requests in the order of the calls, which is the order *)
(* their timers fire in.                                                   *)
HeldInOrder ==
    /\ \A r \in Reqs : ticket[r] <= calls
    /\ \A i, j \in 1..Len(approvalQueue) :
          i < j => ticket[approvalQueue[i]] < ticket[approvalQueue[j]]
    /\ \A i \in 1..Len(approvalQueue) :
          ticket[activeApproval] < ticket[approvalQueue[i]]

PortalInv == PortalTypeOK /\ NoCallerForgotten /\ ResolvedOnce /\ HeldInOrder

(* Every caller gets an answer, though no analyst ever opens the page, and *)
(* though the port could not be bound: the agent loop is never paused for  *)
(* ever (humanApproval.ts 199-209).                                        *)
EveryCallAnswered ==
    \A r \in Reqs : (promise[r] = Pending) ~> (promise[r] \in Responses)

(* The portal answers in the order of the calls, and an answer is final:   *)
(* it implements ApprovalSpec.                                             *)
Line == IF activeApproval = NoReq THEN <<>> ELSE <<activeApproval>> \o approvalQueue
Abstract == INSTANCE ApprovalSpec WITH line <- Line, outcome <- promise
AnsweredInOrder == Abstract!Spec

(* What the README tells the analyst: "Review request, optionally modify   *)
(* args, enter analyst ID, click Approve": a request that a human approved *)
(* is one the form it was sent from displayed.  The POST handler does not  *)
(* know which form it came from.                                           *)
ApprovedWasReviewed ==
    [][\A r \in Reqs : promise[r] = Pending /\ promise'[r] \in Responses
                          /\ promise'[r].by = "human" /\ promise'[r].approved
                       => \E t \in Tabs : tab[t] = r]_portalVars
=============================================================================
