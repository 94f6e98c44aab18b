------------------------- MODULE AgentExecutorProofs -------------------------
(***************************************************************************)
(* What the portal guarantees for every set of requests, tabs and edits,   *)
(* and what the governed loop that calls it guarantees for every set of    *)
(* runs, calls, tools, rules and edits, with or without a judge.           *)
(*                                                                         *)
(* The portal holds requests in the order of the calls, active one first   *)
(* (HeldInOrder), so the timer that may fire next, the oldest, is the      *)
(* active request's, and the portal has one way only to answer: answer the *)
(* active request and take the next (AnswerActive).  Each step of the loop *)
(* is a step of the portal or leaves it alone, so that its invariant comes *)
(* with it.  What the log tells rests on the loop's invariant.             *)
(***************************************************************************)
EXTENDS AgentExecutor, PolicyEngineProofs, SequenceTheorems

-----------------------------------------------------------------------------
(* The portal. *)

(* Answering the active request, which is all that POST and the timers do. *)
AnswerActive(resp) ==
    /\ activeApproval # NoReq
    /\ ResolveOnce(activeApproval, resp)
    /\ DequeueNext(NoReq, approvalQueue)
    /\ UNCHANGED <<server, tab>>

(* Only the active request's timer can be the next to fire. *)
LEMMA OldestIsActive ==
    ASSUME PortalInv, NEW r \in Reqs, Timeout(r)
    PROVE  r = activeApproval /\ activeApproval \in Reqs
<1>1. r \in Held
  BY DEF PortalInv, NoCallerForgotten, Timeout
<1>2. ASSUME NEW i \in 1..Len(approvalQueue), r = approvalQueue[i]
      PROVE  FALSE
  <2>1. approvalQueue # <<>>
    BY <1>2
  <2>2. activeApproval # NoReq
    BY <2>1 DEF PortalInv, NoCallerForgotten
  <2>3. activeApproval \in armed /\ activeApproval \in Reqs
    BY <2>2 DEF PortalInv, PortalTypeOK, NoCallerForgotten, Held
  <2>4. ticket[r] <= ticket[activeApproval]
    BY <2>3 DEF Timeout
  <2>5. ticket[activeApproval] < ticket[r]
    BY <1>2 DEF PortalInv, HeldInOrder
  <2> QED
    BY <2>3, <2>4, <2>5 DEF PortalInv, PortalTypeOK
<1> QED
  BY <1>1, <1>2 DEF Held

(* A timer that fires answers the active request: splice finds nothing.    *)
LEMMA TimeoutAnswersActive ==
    ASSUME PortalInv, NEW r \in Reqs, Timeout(r)
    PROVE  AnswerActive([approved |-> FALSE, by |-> "timeout", modifiedArgs |-> NoEdit])
<1>1. r = activeApproval /\ activeApproval \in Reqs
  BY OldestIsActive
<1>2. Splice(approvalQueue, r) = approvalQueue
  BY <1>1 DEF Splice, PortalInv, NoCallerForgotten
<1> QED
  BY <1>1, <1>2, NullsAssumption DEF Timeout, AnswerActive

LEMMA AnswerKeepsInv ==
    ASSUME PortalInv, NEW resp \in Responses, AnswerActive(resp)
    PROVE  PortalInv'
<1> USE NullsAssumption
<1> DEFINE q == approvalQueue
           a == activeApproval
<1>0. q \in Seq(Reqs) /\ a \in Reqs
  BY DEF PortalInv, PortalTypeOK, AnswerActive
<1>1. promise[a] = Pending /\ resolved[a] = 0
  BY <1>0 DEF PortalInv, NoCallerForgotten, ResolvedOnce, Held, AnswerActive
<1>2. /\ armed' = armed \ {a}
      /\ promise' = [promise EXCEPT ![a] = resp]
      /\ resolved' = [resolved EXCEPT ![a] = 1]
      /\ UNCHANGED <<calls, ticket, server, tab>>
  BY <1>0, <1>1 DEF AnswerActive, ResolveOnce, PortalInv, PortalTypeOK
<1>3. CASE q = <<>>
  <2>1. activeApproval' = NoReq /\ approvalQueue' = <<>>
    BY <1>3 DEF AnswerActive, DequeueNext
  <2>2. Held = {a} /\ Held' = {}
    BY <1>0, <1>3, <2>1 DEF Held
  <2>3. PortalTypeOK'
    BY <1>0, <1>2, <2>1 DEF PortalInv, PortalTypeOK
  <2>4. NoCallerForgotten'
    BY <1>0, <1>2, <2>1, <2>2 DEF PortalInv, NoCallerForgotten, PortalTypeOK
  <2>5. ResolvedOnce'
    BY <1>0, <1>1, <1>2 DEF PortalInv, ResolvedOnce, PortalTypeOK
  <2>6. HeldInOrder'
    BY <1>2, <2>1 DEF PortalInv, HeldInOrder
  <2> QED
    BY <2>3, <2>4, <2>5, <2>6 DEF PortalInv
<1>4. CASE q # <<>>
  <2>1. activeApproval' = q[1] /\ approvalQueue' = Tail(q)
    BY <1>0, <1>4 DEF AnswerActive, DequeueNext
  <2>2. /\ Len(q) \in Nat \ {0}
        /\ Tail(q) \in Seq(Reqs)
        /\ Len(Tail(q)) = Len(q) - 1
        /\ \A i \in 1..Len(Tail(q)) : i + 1 \in 1..Len(q) /\ Tail(q)[i] = q[i + 1]
        /\ \A i \in 1..Len(q) : q[i] \in Reqs
    BY <1>0, <1>4
  <2>3. \A j \in 2..Len(q) : j - 1 \in 1..Len(Tail(q)) /\ Tail(q)[j - 1] = q[j]
    BY <1>0, <2>2
  <2>4. Held' = Held \ {a}
    <3>1. \A i \in 1..Len(q) : q[i] # a
      BY DEF PortalInv, NoCallerForgotten
    <3>2. Held = {q[i] : i \in 1..Len(q)} \cup {a}
      BY <1>0 DEF Held
    <3>3. Held' = {Tail(q)[i] : i \in 1..Len(Tail(q))} \cup {q[1]}
      BY <2>1, <2>2 DEF Held
    <3>4. {Tail(q)[i] : i \in 1..Len(Tail(q))} \cup {q[1]} = {q[i] : i \in 1..Len(q)}
      BY <2>2, <2>3
    <3> QED
      BY <3>1, <3>2, <3>3, <3>4
  <2>5. PortalTypeOK'
    BY <1>0, <1>2, <2>1, <2>2 DEF PortalInv, PortalTypeOK
  <2>6. HeldInOrder'
    <3>1. \A i, j \in 1..Len(Tail(q)) : i < j => ticket[Tail(q)[i]] < ticket[Tail(q)[j]]
      BY <2>2 DEF PortalInv, HeldInOrder
    <3>2. \A i \in 1..Len(Tail(q)) : ticket[q[1]] < ticket[Tail(q)[i]]
      BY <2>2 DEF PortalInv, HeldInOrder
    <3> QED
      BY <1>2, <2>1, <3>1, <3>2 DEF PortalInv, HeldInOrder
  <2>7. NoCallerForgotten'
    <3>1. Held' = {r \in Reqs : promise'[r] = Pending}
      BY <1>0, <1>2, <2>4 DEF PortalInv, NoCallerForgotten, PortalTypeOK
    <3>2. armed' = Held'
      BY <1>2, <2>4 DEF PortalInv, NoCallerForgotten
    <3>3. \A i, j \in 1..Len(Tail(q)) : Tail(q)[i] = Tail(q)[j] => i = j
      BY <2>2 DEF PortalInv, NoCallerForgotten
    <3>4. \A i \in 1..Len(Tail(q)) : Tail(q)[i] # q[1]
      BY <2>2 DEF PortalInv, NoCallerForgotten
    <3> QED
      BY <2>1, <2>2, <3>1, <3>2, <3>3, <3>4 DEF NoCallerForgotten
  <2>8. ResolvedOnce'
    BY <1>0, <1>1, <1>2 DEF PortalInv, ResolvedOnce, PortalTypeOK
  <2> QED
    BY <2>5, <2>6, <2>7, <2>8 DEF PortalInv
<1> QED
  BY <1>3, <1>4

LEMMA RequestKeepsInv ==
    ASSUME PortalInv, NEW r \in Reqs, RequestApproval(r)
    PROVE  PortalInv'
<1> USE NullsAssumption
<1> DEFINE q == approvalQueue
           a == activeApproval
<1>0. q \in Seq(Reqs) /\ r # NoReq /\ resolved[r] = 0
  BY DEF PortalInv, PortalTypeOK, ResolvedOnce, RequestApproval
<1>1. r \notin Held
  BY DEF PortalInv, NoCallerForgotten, RequestApproval
<1>2. /\ armed' = armed \cup {r}
      /\ calls' = calls + 1
      /\ ticket' = [ticket EXCEPT ![r] = calls + 1]
      /\ promise' = [promise EXCEPT ![r] = Pending]
      /\ server' \in {"null", "starting", "listening", "failed"}
      /\ UNCHANGED <<resolved, tab>>
  BY DEF RequestApproval, PortalInv, PortalTypeOK
<1>3. ASSUME NEW s \in Held
      PROVE  s \in Reqs /\ ticket'[s] = ticket[s] /\ ticket'[s] < calls + 1
  BY <1>1, <1>2 DEF PortalInv, NoCallerForgotten, HeldInOrder, PortalTypeOK
<1>4. Held' = Held \cup {r} => Held' = {s \in Reqs : promise'[s] = Pending} /\ armed' = Held'
  BY <1>0, <1>1, <1>2 DEF PortalInv, NoCallerForgotten, PortalTypeOK
<1>5. ResolvedOnce'
  BY <1>0, <1>2 DEF PortalInv, ResolvedOnce, PortalTypeOK
<1>6. \A s \in Reqs : ticket'[s] <= calls'
  BY <1>2 DEF PortalInv, HeldInOrder, PortalTypeOK
<1>7. CASE a = NoReq
  <2>1. q = <<>>
    BY <1>7 DEF PortalInv, NoCallerForgotten
  <2>2. activeApproval' = r /\ approvalQueue' = <<>>
    BY <1>7, <2>1 DEF RequestApproval, DequeueNext
  <2>3. Held = {} /\ Held' = {r}
    BY <1>0, <1>7, <2>1, <2>2 DEF Held
  <2>4. PortalTypeOK'
    BY <1>0, <1>2, <2>2 DEF PortalInv, PortalTypeOK
  <2>5. NoCallerForgotten'
    BY <1>0, <1>4, <2>2, <2>3 DEF NoCallerForgotten
  <2>6. HeldInOrder'
    BY <1>6, <2>2 DEF HeldInOrder
  <2> QED
    BY <1>5, <2>4, <2>5, <2>6 DEF PortalInv
<1>8. CASE a # NoReq
  <2>1. activeApproval' = a /\ approvalQueue' = Append(q, r)
    BY <1>8 DEF RequestApproval, DequeueNext
  <2>2. /\ Len(q) \in Nat
        /\ Append(q, r) \in Seq(Reqs)
        /\ Len(Append(q, r)) = Len(q) + 1
        /\ \A i \in 1..Len(q) : Append(q, r)[i] = q[i] /\ q[i] \in Held
        /\ Append(q, r)[Len(q) + 1] = r
    BY <1>0 DEF Held
  <2>3. Held' = Held \cup {r}
    BY <1>0, <1>8, <2>1, <2>2 DEF Held
  <2>4. a \in Held
    BY <1>8 DEF Held
  <2>5. PortalTypeOK'
    BY <1>0, <1>2, <2>1, <2>2 DEF PortalInv, PortalTypeOK
  <2>6. HeldInOrder'
    <3>1. ticket'[r] = calls + 1 /\ calls \in Nat
      BY <1>2 DEF PortalInv, PortalTypeOK
    <3>2. ASSUME NEW i \in 1..Len(q) + 1, NEW j \in 1..Len(q) + 1, i < j
          PROVE  ticket'[Append(q, r)[i]] < ticket'[Append(q, r)[j]]
      <4>1. i \in 1..Len(q) /\ ticket'[q[i]] = ticket[q[i]] /\ ticket'[q[i]] < calls + 1
        BY <1>3, <2>2, <3>2
      <4>2. CASE j \in 1..Len(q)
        <5>1. ticket'[q[j]] = ticket[q[j]]
          BY <1>3, <2>2, <4>2
        <5> QED
          BY <2>2, <3>2, <4>1, <4>2, <5>1 DEF PortalInv, HeldInOrder
      <4>3. CASE j = Len(q) + 1
        BY <2>2, <3>1, <4>1, <4>3
      <4> QED
        BY <2>2, <4>2, <4>3
    <3>3. ASSUME NEW i \in 1..Len(q) + 1
          PROVE  ticket'[a] < ticket'[Append(q, r)[i]]
      <4>1. ticket'[a] = ticket[a] /\ ticket'[a] < calls + 1
        BY <1>3, <2>4
      <4>2. CASE i \in 1..Len(q)
        BY <1>3, <2>2, <4>1, <4>2 DEF PortalInv, HeldInOrder
      <4>3. CASE i = Len(q) + 1
        BY <2>2, <3>1, <4>1, <4>3
      <4> QED
        BY <2>2, <4>2, <4>3
    <3> QED
      BY <1>6, <2>1, <2>2, <3>2, <3>3 DEF HeldInOrder
  <2>7. NoCallerForgotten'
    <3>1. \A i \in 1..Len(q) + 1 : Append(q, r)[i] # a
      BY <1>1, <2>2, <2>4 DEF PortalInv, NoCallerForgotten
    <3>2. \A i, j \in 1..Len(q) + 1 : Append(q, r)[i] = Append(q, r)[j] => i = j
      BY <1>1, <2>2 DEF PortalInv, NoCallerForgotten
    <3> QED
      BY <1>4, <1>8, <2>1, <2>2, <2>3, <3>1, <3>2 DEF NoCallerForgotten
  <2> QED
    BY <1>5, <2>5, <2>6, <2>7 DEF PortalInv
<1> QED
  BY <1>7, <1>8

(* Steps that leave the calls and the queue alone keep the invariant. *)
LEMMA IdleKeepsInv ==
    ASSUME PortalInv, UNCHANGED <<queueVars, callVars>>,
           server' \in {"null", "starting", "listening", "failed"},
           tab' \in [Tabs -> Reqs \cup {NoReq}]
    PROVE  PortalInv'
BY DEF PortalInv, PortalTypeOK, NoCallerForgotten, ResolvedOnce, HeldInOrder, Held,
       queueVars, callVars

LEMMA InitInv == PortalInit => PortalInv
<1> SUFFICES ASSUME PortalInit PROVE PortalInv
  OBVIOUS
<1>1. Held = {}
  BY DEF PortalInit, Held
<1> QED
  BY <1>1, NullsAssumption
     DEF PortalInit, PortalInv, PortalTypeOK, NoCallerForgotten, ResolvedOnce, HeldInOrder

LEMMA PostAnswersActive ==
    ASSUME NEW t \in Tabs, NEW approved \in BOOLEAN, NEW edit \in Edits \cup {NoEdit},
           PostApprove(t, approved, edit)
    PROVE  AnswerActive([approved |-> approved, by |-> "human", modifiedArgs |-> edit])
BY DEF PostApprove, AnswerActive

LEMMA NextKeepsInv == PortalInv /\ [PortalNext]_portalVars => PortalInv'
<1> SUFFICES ASSUME PortalInv, [PortalNext]_portalVars PROVE PortalInv'
  OBVIOUS
<1>1. ASSUME NEW r \in Reqs, RequestApproval(r) PROVE PortalInv'
  BY <1>1, RequestKeepsInv
<1>2. CASE Listen
  BY <1>2, IdleKeepsInv DEF Listen, PortalInv, PortalTypeOK
<1>3. ASSUME NEW t \in Tabs, GetApprove(t) PROVE PortalInv'
  <2>1. tab' \in [Tabs -> Reqs \cup {NoReq}]
    BY <1>3 DEF GetApprove, PortalInv, PortalTypeOK
  <2> QED
    BY <1>3, <2>1, IdleKeepsInv DEF GetApprove, PortalInv, PortalTypeOK
<1>4. ASSUME NEW t \in Tabs, NEW approved \in BOOLEAN, NEW edit \in Edits \cup {NoEdit},
             PostApprove(t, approved, edit)
      PROVE  PortalInv'
  <2>1. [approved |-> approved, by |-> "human", modifiedArgs |-> edit] \in Responses
    BY DEF Responses
  <2> QED
    BY <1>4, <2>1, PostAnswersActive, AnswerKeepsInv
<1>5. ASSUME NEW r \in Reqs, Timeout(r) PROVE PortalInv'
  <2>1. [approved |-> FALSE, by |-> "timeout", modifiedArgs |-> NoEdit] \in Responses
    BY DEF Responses
  <2> QED
    BY <1>5, <2>1, TimeoutAnswersActive, AnswerKeepsInv
<1>6. CASE UNCHANGED portalVars
  BY <1>6, IdleKeepsInv DEF portalVars, PortalInv, PortalTypeOK
<1> QED
  BY <1>1, <1>2, <1>3, <1>4, <1>5, <1>6 DEF PortalNext, Analyst, Expire

-----------------------------------------------------------------------------
(* The inductive invariant holds: no caller is forgotten, every resolver   *)
(* runs once, the portal holds calls in their order (humanApproval.ts).    *)
THEOREM PortalSafe == PortalSpec => []PortalInv
BY InitInv, NextKeepsInv, PTL DEF PortalSpec

(* Type correctness of the portal's state. *)
THEOREM TypeCorrect == PortalSpec => []PortalTypeOK
<1>1. PortalInv => PortalTypeOK
  BY DEF PortalInv
<1> QED
  BY <1>1, PortalSafe, PTL

(* For every number of concurrent callers, none is forgotten and the       *)
(* portal never idles over a queue (humanApproval.ts 31-36, 185-214).      *)
THEOREM CallersKept == PortalSpec => []NoCallerForgotten
<1>1. PortalInv => NoCallerForgotten
  BY DEF PortalInv
<1> QED
  BY <1>1, PortalSafe, PTL

(* The form and the timer never both resolve a call (191-197). *)
THEOREM ResolverRunsOnce == PortalSpec => []ResolvedOnce
<1>1. PortalInv => ResolvedOnce
  BY DEF PortalInv
<1> QED
  BY <1>1, PortalSafe, PTL

(* Only the active call is ever answered: splicing a waiting call out of   *)
(* the queue (201-202) is never needed, whatever the load.                 *)
THEOREM TurnsKept == PortalSpec => OnlyActiveAnswered
<1> DEFINE A == \A r \in Reqs : promise[r] = Pending /\ promise'[r] # Pending
                                   => r = activeApproval
<1>1. ASSUME PortalInv, [PortalNext]_portalVars PROVE [A]_portalVars
  <2>1. ASSUME NEW resp, AnswerActive(resp) PROVE A
    BY <1>1, <2>1 DEF AnswerActive, ResolveOnce, PortalInv, PortalTypeOK
  <2>2. ASSUME NEW r \in Reqs, RequestApproval(r) PROVE A
    BY <1>1, <2>2 DEF RequestApproval, PortalInv, PortalTypeOK
  <2>3. ASSUME UNCHANGED callVars PROVE A
    BY <2>3 DEF callVars
  <2> QED
    BY <1>1, <2>1, <2>2, <2>3, TimeoutAnswersActive, PostAnswersActive
       DEF PortalNext, Listen, Analyst, GetApprove, Expire
<1> QED
  BY <1>1, PortalSafe, PTL DEF PortalSpec, OnlyActiveAnswered

-----------------------------------------------------------------------------
LEMMA RequestAsks ==
    ASSUME PortalInv, NEW r \in Reqs, RequestApproval(r)
    PROVE  Abstract!Ask(r)
<1>0. approvalQueue \in Seq(Reqs) /\ r # NoReq
  BY NullsAssumption DEF PortalInv, PortalTypeOK
<1>1. Line' = Append(Line, r)
  <2>1. CASE activeApproval = NoReq
    <3>1. approvalQueue = <<>>
      BY <2>1 DEF PortalInv, NoCallerForgotten
    <3>2. activeApproval' = r /\ approvalQueue' = <<>>
      BY <2>1, <3>1 DEF RequestApproval, DequeueNext
    <3> QED
      BY <1>0, <2>1, <3>2 DEF Line
  <2>2. CASE activeApproval # NoReq
    <3>1. activeApproval' = activeApproval /\ approvalQueue' = Append(approvalQueue, r)
      BY <2>2 DEF RequestApproval, DequeueNext
    <3>2. activeApproval \in Reqs
      BY <2>2 DEF PortalInv, PortalTypeOK
    <3>3. <<activeApproval>> \o Append(approvalQueue, r)
             = Append(<<activeApproval>> \o approvalQueue, r)
      BY <1>0, <3>2
    <3> QED
      BY <2>2, <3>1, <3>3 DEF Line
  <2> QED
    BY <2>1, <2>2
<1> QED
  BY <1>1 DEF Abstract!Ask, RequestApproval

LEMMA AnswerAnswers ==
    ASSUME PortalInv, NEW resp \in Responses, AnswerActive(resp)
    PROVE  Abstract!Answer(resp)
<1>0. approvalQueue \in Seq(Reqs) /\ activeApproval \in Reqs
  BY DEF PortalInv, PortalTypeOK, AnswerActive
<1>1. /\ Line # <<>>
      /\ Head(Line) = activeApproval
      /\ Tail(Line) = approvalQueue
  <2>1. Line = <<activeApproval>> \o approvalQueue
    BY DEF Line, AnswerActive
  <2> QED
    BY <1>0, <2>1
<1>2. Line' = approvalQueue
  <2>1. CASE approvalQueue = <<>>
    BY <2>1 DEF AnswerActive, DequeueNext, Line
  <2>2. CASE approvalQueue # <<>>
    <3>1. activeApproval' = Head(approvalQueue) /\ approvalQueue' = Tail(approvalQueue)
      BY <2>2 DEF AnswerActive, DequeueNext
    <3>2. Head(approvalQueue) # NoReq
      BY <1>0, <2>2, NullsAssumption
    <3>3. <<Head(approvalQueue)>> \o Tail(approvalQueue) = approvalQueue
      BY <1>0, <2>2
    <3> QED
      BY <3>1, <3>2, <3>3 DEF Line
  <2> QED
    BY <2>1, <2>2
<1>3. promise' = [promise EXCEPT ![activeApproval] = resp]
  <2>1. promise[activeApproval] = Pending
    BY <1>0 DEF PortalInv, NoCallerForgotten, Held, AnswerActive
  <2> QED
    BY <1>0, <2>1 DEF AnswerActive, ResolveOnce, PortalInv, PortalTypeOK
<1> QED
  BY <1>1, <1>2, <1>3 DEF Abstract!Answer

(* The portal implements ApprovalSpec for every set of calls: whatever the *)
(* timers and the analysts do, calls are answered in their order, once.    *)
THEOREM PortalImplementsSpec == PortalSpec => AnsweredInOrder
<1>1. PortalInit => Abstract!Init
  BY DEF PortalInit, Abstract!Init, Line
<1>2. ASSUME PortalInv, [PortalNext]_portalVars
      PROVE  [Abstract!Next]_Abstract!vars
  <2>1. ASSUME NEW r \in Reqs, RequestApproval(r) PROVE Abstract!Next
    BY <1>2, <2>1, RequestAsks DEF Abstract!Next
  <2>2. ASSUME NEW resp \in Responses, AnswerActive(resp) PROVE Abstract!Next
    BY <1>2, <2>2, AnswerAnswers DEF Abstract!Next
  <2>3. ASSUME NEW r \in Reqs, Timeout(r) PROVE Abstract!Next
    BY <1>2, <2>2, <2>3, TimeoutAnswersActive DEF Responses
  <2>4. ASSUME NEW t \in Tabs, NEW approved \in BOOLEAN, NEW edit \in Edits \cup {NoEdit},
               PostApprove(t, approved, edit)
        PROVE  Abstract!Next
    BY <2>2, <2>4, PostAnswersActive DEF Responses
  <2>5. ASSUME UNCHANGED <<queueVars, callVars>> PROVE UNCHANGED Abstract!vars
    BY <2>5 DEF queueVars, callVars, Abstract!vars, Line
  <2> QED
    BY <1>2, <2>1, <2>3, <2>4, <2>5
       DEF PortalNext, Listen, Analyst, GetApprove, Expire, portalVars
<1> QED
  BY <1>1, <1>2, PortalSafe, PTL DEF PortalSpec, AnsweredInOrder, Abstract!Spec

-----------------------------------------------------------------------------
(* The loop: every step of it is a step of the portal, or none. *)
LEMMA StepsOfPortal == [Next]_vars => [PortalNext]_portalVars
<1> SUFFICES ASSUME [Next]_vars PROVE [PortalNext]_portalVars
  OBVIOUS
<1>1. ASSUME NEW c \in Reqs, NEW judged, Govern(c, judged)
      PROVE  [PortalNext]_portalVars
  BY <1>1 DEF Govern, PortalNext
<1>2. ASSUME NEW run \in Runs, Drive(run) PROVE UNCHANGED portalVars
  BY <1>2 DEF Drive, Plan, PlanUnparsable, EndRun, Join, Propose
<1>3. ASSUME NEW c \in Reqs, Begin(c) PROVE [PortalNext]_portalVars
  BY <1>1, <1>3 DEF Begin
<1>4. ASSUME NEW c \in Reqs, JudgeInput(c) PROVE [PortalNext]_portalVars
  BY <1>1, <1>4 DEF JudgeInput
<1>5. ASSUME NEW c \in Reqs,
             Resume(c) \/ CallReturns(c) \/ CallThrows(c) \/ JudgeOutput(c)
      PROVE  UNCHANGED portalVars
  BY <1>5 DEF Resume, CallReturns, CallThrows, JudgeOutput
<1>6. CASE Portal
  BY <1>6 DEF Portal, PortalNext
<1>7. CASE Policy
  BY <1>7 DEF Policy
<1>8. CASE UNCHANGED vars
  BY <1>8 DEF vars
<1> QED
  BY <1>2, <1>3, <1>4, <1>5, <1>6, <1>7, <1>8 DEF Next, Advance

(* The portal keeps its promises under the load of the agents: the         *)
(* invariant of HumanApproval holds in every run of the governed loop.     *)
THEOREM PortalSafeUnderLoop == Spec => []PortalInv
<1>1. Init => PortalInv
  BY InitInv DEF Init
<1>2. PortalInv /\ [Next]_vars => PortalInv'
  BY StepsOfPortal, NextKeepsInv
<1> QED
  BY <1>1, <1>2, PTL DEF Spec
-----------------------------------------------------------------------------
(* The invariant, call by call: what is known of the call itself, and how  *)
(* it stands to its run.                                                   *)
HasFlow(c) ==
    /\ pc[c] \in {"idle", "proposed", "judgingInput"} =>
          promise[c] = NotAsked /\ ran[c] = NotRun /\ verdict[c] = "none"
    /\ pc[c] = "awaiting" =>
          promise[c] # NotAsked /\ ran[c] = NotRun /\ verdict[c] = "escalate"
    /\ pc[c] \in {"calling", "judgingOutput", "thrown"} => ran[c] # NotRun

Governed(c) == ran[c] # NotRun =>
    \/ verdict[c] = "allow" /\ ran[c] = Original
    \/ verdict[c] = "escalate" /\ HumanApproved(c)

Vouched(c) ==
    \E i \in 1..Len(audit[c]) :
        /\ audit[c][i].args = ran[c]
        /\ ~ audit[c][i].output
        /\ audit[c][i].by = IF verdict[c] = "allow" THEN "policy" ELSE promise[c].by
        /\ audit[c][i].decision \in {"allowed", "approved", "modified"}

CallPart(c) == /\ HasFlow(c)
               /\ Governed(c)
               /\ ~ LogMayFail /\ ran[c] # NotRun => Vouched(c)

RunPart(c) ==
    /\ \/ pc[c] \in {"idle", "done"}
       \/ runState[RunOf[c]] = "failed"
       \/ runState[RunOf[c]] = "acting" /\ StepOf[c] = iterations[RunOf[c]] + 1
    /\ runState[RunOf[c]] = "planning" /\ StepOf[c] > iterations[RunOf[c]] => pc[c] = "idle"
    /\ runState[RunOf[c]] = "acting" /\ StepOf[c] > iterations[RunOf[c]] + 1 => pc[c] = "idle"

LoopInv == /\ TypeOK
           /\ PortalInv
           /\ \A c \in Reqs : CallPart(c)
           /\ \A c \in Reqs : RunPart(c)

LEMMA LoopInvParts ==
    LoopInv => /\ TypeOK /\ CallsTracked /\ GovernedExecution
               /\ LoggedBeforeEffect /\ NoCallOutlivesItsStep
BY DEF LoopInv, CallPart, RunPart, HasFlow, Governed, Vouched, CallsTracked,
       GovernedExecution, LoggedBeforeEffect, NoCallOutlivesItsStep

(* What a portal step may do to the promises of the calls. *)
LEMMA PromisesMove ==
    ASSUME PortalInv, Listen \/ Analyst \/ Expire, NEW d \in Reqs
    PROVE  /\ promise[d] = NotAsked <=> promise'[d] = NotAsked
           /\ promise[d] \in Responses => promise'[d] = promise[d]
<1> USE NullsAssumption
<1>1. ASSUME NEW resp \in Responses, AnswerActive(resp)
      PROVE  /\ promise[d] = NotAsked <=> promise'[d] = NotAsked
             /\ promise[d] \in Responses => promise'[d] = promise[d]
  <2>1. activeApproval \in Reqs /\ promise[activeApproval] = Pending
    BY <1>1 DEF AnswerActive, PortalInv, PortalTypeOK, NoCallerForgotten, Held
  <2> QED
    BY <1>1, <2>1 DEF AnswerActive, ResolveOnce, PortalInv, PortalTypeOK
<1>2. ASSUME NEW r \in Reqs, Timeout(r)
      PROVE  AnswerActive([approved |-> FALSE, by |-> "timeout", modifiedArgs |-> NoEdit])
  BY <1>2, TimeoutAnswersActive
<1>3. [approved |-> FALSE, by |-> "timeout", modifiedArgs |-> NoEdit] \in Responses
  BY DEF Responses
<1>4. ASSUME NEW t \in Tabs, NEW approved \in BOOLEAN, NEW e \in Edits \cup {NoEdit},
             PostApprove(t, approved, e)
      PROVE  /\ promise[d] = NotAsked <=> promise'[d] = NotAsked
             /\ promise[d] \in Responses => promise'[d] = promise[d]
  <2>1. [approved |-> approved, by |-> "human", modifiedArgs |-> e] \in Responses
    BY DEF Responses
  <2> QED
    BY <1>1, <1>4, <2>1, PostAnswersActive
<1> QED
  BY <1>1, <1>2, <1>3, <1>4 DEF Listen, Analyst, GetApprove, Expire, callVars

(* What writing entries does to the log of the calls. *)
LEMMA LogGrows ==
    ASSUME audit \in [Reqs -> Seq(Entry)], NEW c \in Reqs,
           NEW entries \in Seq(Entry), Log(c, entries)
    PROVE  /\ audit' \in [Reqs -> Seq(Entry)]
           /\ \A d \in Reqs : \A i \in 1..Len(audit[d]) :
                 i \in 1..Len(audit'[d]) /\ audit'[d][i] = audit[d][i]
           /\ ~ LogMayFail => audit'[c] = audit[c] \o entries
<1>1. ASSUME NEW kept \in Written(entries)
      PROVE  kept \in Seq(Entry) /\ (~ LogMayFail => kept = entries)
  <2>1. CASE LogMayFail
    <3>1. \A i \in 1..Len(entries) : <<entries[i]>> \in Seq(Entry)
      OBVIOUS
    <3>2. \/ kept = entries \/ kept = <<>>
          \/ \E i \in 1..Len(entries) : kept = <<entries[i]>>
      BY <1>1, <2>1 DEF Written
    <3>3. <<>> \in Seq(Entry)
      OBVIOUS
    <3> QED
      BY <2>1, <3>1, <3>2, <3>3
  <2>2. CASE ~ LogMayFail
    BY <1>1, <2>2 DEF Written
  <2> QED
    BY <2>1, <2>2
<1>2. PICK kept \in Written(entries) : audit' = [audit EXCEPT ![c] = @ \o kept]
  BY DEF Log
<1>3. audit[c] \o kept \in Seq(Entry)
  BY <1>1, <1>2
<1>4. \A i \in 1..Len(audit[c]) : /\ i \in 1..Len(audit[c] \o kept)
                                  /\ (audit[c] \o kept)[i] = audit[c][i]
  BY <1>1
<1> QED
  BY <1>1, <1>2, <1>3, <1>4

(* A step that leaves a call where it is leaves what is known of it.       *)
LEMMA CallStays ==
    ASSUME NEW d \in Reqs, CallPart(d),
           pc'[d] = pc[d], ran'[d] = ran[d], verdict'[d] = verdict[d],
           promise[d] = NotAsked <=> promise'[d] = NotAsked,
           promise[d] \in Responses => promise'[d] = promise[d],
           \A i \in 1..Len(audit[d]) :
              i \in 1..Len(audit'[d]) /\ audit'[d][i] = audit[d][i]
    PROVE  CallPart(d)'
<1>1. HasFlow(d)'
  BY DEF CallPart, HasFlow
<1>2. Governed(d)'
  BY DEF CallPart, Governed, HumanApproved, FinalArgs
<1>3. ASSUME ~ LogMayFail, ran[d] # NotRun PROVE Vouched(d)'
  <2>1. verdict[d] = "allow" \/ promise'[d] = promise[d]
    BY <1>3 DEF CallPart, Governed, HumanApproved
  <2>2. Vouched(d)
    BY <1>3 DEF CallPart
  <2> QED
    BY <2>1, <2>2 DEF Vouched
<1> QED
  BY <1>1, <1>2, <1>3 DEF CallPart

(* A written entry that vouches for a call does so at once. *)
LEMMA VouchedByLast ==
    ASSUME NEW c \in Reqs, audit[c] \in Seq(Entry), NEW entries \in Seq(Entry),
           audit'[c] = audit[c] \o entries, entries # <<>>,
           LET e == entries[Len(entries)]
           IN  /\ e.args = ran'[c] /\ ~ e.output
               /\ e.by = IF verdict'[c] = "allow" THEN "policy" ELSE promise'[c].by
               /\ e.decision \in {"allowed", "approved", "modified"}
    PROVE  Vouched(c)'
<1>1. /\ Len(audit[c]) + Len(entries) \in 1..Len(audit'[c])
      /\ audit'[c][Len(audit[c]) + Len(entries)] = entries[Len(entries)]
  OBVIOUS
<1> QED
  BY <1>1 DEF Vouched

(* A step of one call, within its run, leaves every call in its step.      *)
LEMMA RunPartStays ==
    ASSUME LoopInv, NEW c \in Reqs, pc[c] \notin {"idle", "done"}, pc'[c] # "idle",
           UNCHANGED <<runState, iterations>>,
           NEW d \in Reqs, d # c => pc'[d] = pc[d]
    PROVE  RunPart(d)'
BY DEF LoopInv, RunPart

-----------------------------------------------------------------------------
(* Steps that concern one call only: what each must show of that call.     *)
LEMMA StepOfCall ==
    ASSUME LoopInv, NEW c \in Reqs, pc[c] \notin {"idle", "done"}, PortalInv',
           pc' = [pc EXCEPT ![c] = pc'[c]], pc'[c] # "idle",
           ran' = [ran EXCEPT ![c] = ran'[c]],
           verdict' = [verdict EXCEPT ![c] = verdict'[c]],
           UNCHANGED <<runState, iterations>>,
           \A d \in Reqs \ {c} : promise'[d] = promise[d],
           NEW entries \in Seq(Entry), Log(c, entries),
           CallPart(c)', TypeOK'
    PROVE  LoopInv'
<1>1. ASSUME NEW d \in Reqs \ {c} PROVE CallPart(d)'
  <2>1. CallPart(d) /\ audit \in [Reqs -> Seq(Entry)] /\ c # d
    BY DEF LoopInv, TypeOK
  <2>2. \A i \in 1..Len(audit[d]) :
           i \in 1..Len(audit'[d]) /\ audit'[d][i] = audit[d][i]
    BY <2>1, LogGrows
  <2>3. pc'[d] = pc[d] /\ ran'[d] = ran[d] /\ verdict'[d] = verdict[d]
    BY <2>1 DEF LoopInv, TypeOK
  <2> QED
    BY <2>1, <2>2, <2>3, CallStays
<1>2. ASSUME NEW d \in Reqs PROVE RunPart(d)'
  <2>1. d # c => pc'[d] = pc[d]
    BY DEF LoopInv, TypeOK
  <2> QED
    BY <2>1, RunPartStays
<1> QED
  BY <1>1, <1>2 DEF LoopInv
LEMMA PolicyTypeKept ==
    ASSUME PolicyTypeOK, LoadRules \/ UNCHANGED cachedRules, UNCHANGED policyFile
    PROVE  PolicyTypeOK'
BY DEF PolicyTypeOK, LoadRules

LEMMA PortalInvKept == LoopInv /\ [Next]_vars => PortalInv'
BY StepsOfPortal, NextKeepsInv DEF LoopInv

LEMMA AppendLast ==
    ASSUME NEW S, NEW s \in Seq(S), NEW e \in S
    PROVE  /\ Append(s, e) \in Seq(S) /\ Append(s, e) # <<>>
           /\ Append(s, e)[Len(Append(s, e))] = e
<1>1. Len(Append(s, e)) = Len(s) + 1 /\ Len(s) \in Nat
  OBVIOUS
<1> QED
  BY <1>1

(* The verdict of the policy and what it leads to at once. *)
LEMMA GovernKeeps ==
    ASSUME LoopInv, PortalInv', NEW c \in Reqs, NEW judged \in Seq(Entry),
           pc[c] \in {"proposed", "judgingInput"}, Govern(c, judged)
    PROVE  LoopInv'
<1> USE NullsAssumption, ExecutorAssumption
<1> DEFINE result == Verdict(LoadedRules, toolOf[c]).action
<1>r. result \in Actions
  BY VerdictType DEF LoopInv, TypeOK
<1>0. /\ promise[c] = NotAsked /\ ran[c] = NotRun
      /\ audit \in [Reqs -> Seq(Entry)] /\ pc \in [Reqs -> Places]
      /\ ran \in [Reqs -> Edits \cup {Original, NotRun}]
  BY DEF LoopInv, TypeOK, CallPart, HasFlow
<1>1. /\ verdict' = [verdict EXCEPT ![c] = result]
      /\ UNCHANGED <<runState, iterations, toolOf>>
      /\ PolicyTypeOK' /\ PortalTypeOK'
      /\ verdict'[c] = result
  BY PolicyTypeKept DEF Govern, LoopInv, TypeOK, PortalInv
<1>2. CASE result = "block"
  <2> DEFINE es == Append(judged, Note("blocked", "policy", Original))
  <2>1. /\ Log(c, es) /\ Settle(c, "blocked") /\ UNCHANGED <<portalVars, ran>>
    BY <1>2 DEF Govern
  <2>2. es \in Seq(Entry)
    BY DEF Note, Entry
  <2>3. audit' \in [Reqs -> Seq(Entry)]
    BY <1>0, <2>1, <2>2, LogGrows
  <2>4. TypeOK'
    BY <1>0, <1>r, <1>1, <2>1, <2>3 DEF LoopInv, TypeOK, Settle, Places, Outcomes
  <2>5. CallPart(c)'
    BY <1>0, <2>1 DEF CallPart, HasFlow, Governed, Settle, LoopInv, TypeOK
  <2> QED
    BY <1>0, <1>1, <2>1, <2>2, <2>4, <2>5, StepOfCall DEF Settle, portalVars, callVars
<1>3. CASE result = "escalate"
  <2>1. /\ Log(c, judged) /\ RequestApproval(c)
        /\ pc' = [pc EXCEPT ![c] = "awaiting"] /\ UNCHANGED <<ran, outcome>>
    BY <1>3 DEF Govern
  <2>2. audit' \in [Reqs -> Seq(Entry)]
    BY <1>0, <2>1, LogGrows
  <2>3. TypeOK'
    BY <1>0, <1>r, <1>1, <2>1, <2>2 DEF LoopInv, TypeOK, Places
  <2>4. promise' = [promise EXCEPT ![c] = Pending] /\ promise'[c] = Pending
    BY <2>1 DEF RequestApproval, LoopInv, PortalInv, PortalTypeOK
  <2>5. CallPart(c)'
    BY <1>0, <1>1, <1>3, <2>1, <2>4 DEF CallPart, HasFlow, Governed
  <2>6. pc'[c] = "awaiting" /\ ran' = [ran EXCEPT ![c] = ran'[c]]
    BY <1>0, <2>1
  <2>7. \A d \in Reqs \ {c} : promise'[d] = promise[d]
    BY <2>4 DEF LoopInv, PortalInv, PortalTypeOK
  <2> QED
    BY <1>0, <1>1, <2>1, <2>3, <2>5, <2>6, <2>7, StepOfCall
<1>4. CASE result = "allow"
  <2> DEFINE es == Append(judged, Note("allowed", "policy", Original))
  <2>1. /\ Log(c, es) /\ CallTool(c, Original) /\ UNCHANGED portalVars
    BY <1>4 DEF Govern
  <2>2. /\ es \in Seq(Entry) /\ es # <<>>
        /\ es[Len(es)] = Note("allowed", "policy", Original)
    <3>1. Note("allowed", "policy", Original) \in Entry
      BY DEF Note, Entry
    <3> QED
      BY <3>1, AppendLast
  <2>3. /\ audit' \in [Reqs -> Seq(Entry)]
        /\ ~ LogMayFail => audit'[c] = audit[c] \o es
    BY <1>0, <2>1, <2>2, LogGrows
  <2>4. TypeOK'
    BY <1>0, <1>r, <1>1, <2>1, <2>3 DEF LoopInv, TypeOK, CallTool, Places
  <2>5. pc'[c] = "calling" /\ ran'[c] = Original /\ verdict'[c] = "allow"
    BY <1>0, <1>1, <1>4, <2>1 DEF CallTool
  <2>6. ~ LogMayFail => Vouched(c)'
    <3>1. LET e == es[Len(es)]
          IN  /\ e.args = ran'[c] /\ ~ e.output
              /\ e.by = IF verdict'[c] = "allow" THEN "policy" ELSE promise'[c].by
              /\ e.decision \in {"allowed", "approved", "modified"}
      BY <2>2, <2>5 DEF Note
    <3>2. audit[c] \in Seq(Entry)
      BY <1>0
    <3> HIDE DEF es
    <3> QED
      BY <2>2, <2>3, <3>1, <3>2, VouchedByLast
  <2>7. CallPart(c)'
    BY <2>5, <2>6 DEF CallPart, HasFlow, Governed
  <2> QED
    BY <1>0, <1>1, <2>1, <2>2, <2>4, <2>5, <2>7, StepOfCall
       DEF CallTool, portalVars, callVars
<1> QED
  BY <1>r, <1>2, <1>3, <1>4 DEF Actions

(* A call ends, or goes on to another await, without any new decision.     *)
LEMMA QuietStepKeeps ==
    ASSUME LoopInv, PortalInv', NEW c \in Reqs, pc[c] \notin {"idle", "done"},
           UNCHANGED <<portalVars, policyVars, runState, iterations, toolOf, verdict, ran>>,
           NEW entries \in Seq(Entry), Log(c, entries),
           NEW to \in {"judgingInput", "judgingOutput", "done"},
           to = "judgingInput" => pc[c] = "proposed",
           to = "judgingOutput" => pc[c] = "calling",
           pc' = [pc EXCEPT ![c] = to],
           outcome' \in [Reqs -> Outcomes]
    PROVE  LoopInv'
<1>0. /\ audit \in [Reqs -> Seq(Entry)] /\ pc \in [Reqs -> Places]
      /\ ran \in [Reqs -> Edits \cup {Original, NotRun}]
      /\ verdict \in [Reqs -> Actions \cup {"none"}]
  BY DEF LoopInv, TypeOK
<1>1. /\ audit' \in [Reqs -> Seq(Entry)]
      /\ \A i \in 1..Len(audit[c]) :
            i \in 1..Len(audit'[c]) /\ audit'[c][i] = audit[c][i]
  BY <1>0, LogGrows
<1>2. UNCHANGED promise
  BY DEF portalVars, callVars
<1>3. pc'[c] = to /\ ran'[c] = ran[c] /\ verdict'[c] = verdict[c]
  BY <1>0
<1>4. HasFlow(c)'
  BY <1>2, <1>3 DEF LoopInv, CallPart, HasFlow
<1>5. Governed(c)'
  BY <1>2 DEF LoopInv, CallPart, Governed, HumanApproved, FinalArgs
<1>6. ~ LogMayFail /\ ran'[c] # NotRun => Vouched(c)'
  <2>1. ~ LogMayFail /\ ran[c] # NotRun => Vouched(c)
    BY DEF LoopInv, CallPart
  <2> QED
    BY <1>1, <1>2, <1>3, <2>1 DEF Vouched
<1>7. CallPart(c)'
  BY <1>4, <1>5, <1>6 DEF CallPart
<1>8. TypeOK'
  BY <1>1, PolicyTypeKept DEF LoopInv, TypeOK, PortalInv, policyVars, Places
<1> QED
  BY <1>0, <1>2, <1>3, <1>7, <1>8, StepOfCall
LEMMA BeginKeeps ==
    ASSUME LoopInv, PortalInv', NEW c \in Reqs, Begin(c)
    PROVE  LoopInv'
<1>0. /\ audit \in [Reqs -> Seq(Entry)] /\ <<>> \in Seq(Entry)
      /\ outcome \in [Reqs -> Outcomes]
      /\ pc[c] = "proposed"
  BY DEF LoopInv, TypeOK, Begin
<1>1. CASE toolOf[c] # UnknownTool /\ ~ JudgeModel
  BY <1>0, <1>1, GovernKeeps DEF Begin
<1>2. CASE toolOf[c] = UnknownTool \/ JudgeModel
  <2>1. UNCHANGED <<portalVars, policyVars, runState, iterations, toolOf, verdict, ran, audit>>
        /\ \E to \in {"judgingInput", "done"} : pc' = [pc EXCEPT ![c] = to]
        /\ outcome' \in [Reqs -> Outcomes]
    BY <1>0, <1>2 DEF Begin, Settle, Outcomes
  <2>2. Log(c, <<>>)
    <3>1. <<>> \in Written(<<>>)
      BY DEF Written
    <3>2. audit' = [audit EXCEPT ![c] = @ \o <<>>]
      BY <1>0, <2>1
    <3> QED
      BY <3>1, <3>2 DEF Log
  <2> QED
    BY <1>0, <2>1, <2>2, QuietStepKeeps
<1> QED
  BY <1>1, <1>2, ExecutorAssumption

LEMMA JudgeInputKeeps ==
    ASSUME LoopInv, PortalInv', NEW c \in Reqs, JudgeInput(c)
    PROVE  LoopInv'
<1>0. /\ \A d \in {"allowed", "blocked"} : <<Note(d, "judge", Original)>> \in Seq(Entry)
      /\ outcome \in [Reqs -> Outcomes] /\ pc[c] = "judgingInput"
  BY DEF Note, Entry, LoopInv, TypeOK, JudgeInput
<1>1. CASE Govern(c, <<Note("allowed", "judge", Original)>>)
  BY <1>0, <1>1, GovernKeeps
<1>2. CASE /\ Log(c, <<Note("blocked", "judge", Original)>>)
           /\ Settle(c, "inputRejected")
           /\ UNCHANGED <<portalVars, policyVars, runState, iterations, toolOf, verdict, ran>>
  BY <1>0, <1>2, QuietStepKeeps DEF Settle, Outcomes
<1> QED
  BY <1>1, <1>2 DEF JudgeInput

LEMMA CallReturnsKeeps ==
    ASSUME LoopInv, PortalInv', NEW c \in Reqs, CallReturns(c)
    PROVE  LoopInv'
<1> DEFINE e == [decision |-> IF verdict[c] = "escalate" THEN "approved" ELSE "allowed",
                 by       |-> IF verdict[c] = "escalate" THEN "human" ELSE "policy",
                 args     |-> ran[c],
                 output   |-> TRUE]
<1>0. /\ ran[c] \in Edits \cup {Original}
      /\ outcome \in [Reqs -> Outcomes] /\ pc[c] = "calling"
  BY DEF LoopInv, TypeOK, CallPart, HasFlow, CallReturns
<1>1. <<e>> \in Seq(Entry)
  BY <1>0 DEF Entry
<1>2. Log(c, <<e>>)
  BY DEF CallReturns
<1>3. \E to \in {"judgingOutput", "done"} : pc' = [pc EXCEPT ![c] = to]
  BY DEF CallReturns, Settle
<1>4. outcome' \in [Reqs -> Outcomes]
  BY <1>0 DEF CallReturns, Settle, Outcomes
<1>5. UNCHANGED <<portalVars, policyVars, runState, iterations, toolOf, verdict, ran>>
  BY DEF CallReturns
<1> HIDE DEF e
<1> QED
  BY <1>0, <1>1, <1>2, <1>3, <1>4, <1>5, QuietStepKeeps

LEMMA JudgeOutputKeeps ==
    ASSUME LoopInv, PortalInv', NEW c \in Reqs, JudgeOutput(c)
    PROVE  LoopInv'
<1> DEFINE e(valid) == [decision |-> IF valid THEN "allowed" ELSE "blocked",
                        by |-> "judge", args |-> Original, output |-> TRUE]
<1>0. outcome \in [Reqs -> Outcomes] /\ pc[c] = "judgingOutput"
  BY DEF LoopInv, TypeOK, JudgeOutput
<1>1. PICK valid \in BOOLEAN : Log(c, <<e(valid)>>) /\
                               Settle(c, IF valid THEN "output" ELSE "redacted")
  BY DEF JudgeOutput
<1>2. <<e(valid)>> \in Seq(Entry)
  BY DEF Entry
<1>3. pc' = [pc EXCEPT ![c] = "done"] /\ outcome' \in [Reqs -> Outcomes]
  BY <1>0, <1>1 DEF Settle, Outcomes
<1>5. UNCHANGED <<portalVars, policyVars, runState, iterations, toolOf, verdict, ran>>
  BY DEF JudgeOutput
<1> HIDE DEF e
<1> QED
  BY <1>0, <1>1, <1>2, <1>3, <1>5, QuietStepKeeps

(* The answer of the portal: the call runs as a human let it, or not.      *)
LEMMA ResumeKeeps ==
    ASSUME LoopInv, PortalInv', NEW c \in Reqs, Resume(c)
    PROVE  LoopInv'
<1> USE ExecutorAssumption
<1> DEFINE resp == promise[c]
           decision == IF resp.modifiedArgs \in Edits \ Falsy THEN "modified" ELSE "approved"
<1>0. /\ resp \in Responses
      /\ pc[c] = "awaiting" /\ ran[c] = NotRun /\ verdict[c] = "escalate"
      /\ audit \in [Reqs -> Seq(Entry)] /\ pc \in [Reqs -> Places]
      /\ ran \in [Reqs -> Edits \cup {Original, NotRun}]
      /\ verdict \in [Reqs -> Actions \cup {"none"}]
      /\ outcome \in [Reqs -> Outcomes]
  BY DEF LoopInv, TypeOK, PortalTypeOK, CallPart, HasFlow, Resume
<1>1. UNCHANGED <<portalVars, policyVars, runState, iterations, toolOf, verdict, promise>>
  BY DEF Resume, portalVars, callVars
<1>2. FinalArgs(resp) \in Edits \cup {Original} /\ resp.by \in {"human", "timeout"}
  BY <1>0 DEF FinalArgs, Responses
<1>3. CASE resp.approved
  <2> DEFINE e == Note(decision, resp.by, FinalArgs(resp))
  <2>1. Log(c, <<e>>) /\ CallTool(c, FinalArgs(resp))
    BY <1>3 DEF Resume
  <2>2. e \in Entry /\ <<e>> \in Seq(Entry)
    BY <1>2 DEF Note, Entry
  <2>3. /\ audit' \in [Reqs -> Seq(Entry)]
        /\ ~ LogMayFail => audit'[c] = audit[c] \o <<e>>
    BY <1>0, <2>1, <2>2, LogGrows
  <2>4. TypeOK'
    BY <1>0, <1>1, <1>2, <2>1, <2>3, PolicyTypeKept
       DEF LoopInv, TypeOK, PortalInv, CallTool, Places, policyVars
  <2>5. pc'[c] = "calling" /\ ran'[c] = FinalArgs(resp) /\ verdict'[c] = "escalate"
    BY <1>0, <1>1, <2>1 DEF CallTool
  <2>6. resp.by = "human"
    BY <1>0, <1>3 DEF Responses
  <2>7. ~ LogMayFail => Vouched(c)'
    <3>1. LET x == <<e>>[Len(<<e>>)]
          IN  /\ x.args = ran'[c] /\ ~ x.output
              /\ x.by = IF verdict'[c] = "allow" THEN "policy" ELSE promise'[c].by
              /\ x.decision \in {"allowed", "approved", "modified"}
      BY <1>1, <2>5 DEF Note
    <3>2. audit[c] \in Seq(Entry) /\ <<e>> # <<>>
      BY <1>0
    <3> HIDE DEF e
    <3> QED
      BY <2>2, <2>3, <3>1, <3>2, VouchedByLast
  <2>8. HumanApproved(c)'
    <3>1. promise'[c] = promise[c]
      BY <1>1
    <3> QED
      BY <1>0, <1>3, <2>5, <2>6, <3>1 DEF HumanApproved, FinalArgs
  <2>9. HasFlow(c)'
    BY <1>2, <2>5 DEF HasFlow
  <2>10. Governed(c)'
    BY <2>5, <2>8 DEF Governed
  <2>11. CallPart(c)'
    BY <2>7, <2>9, <2>10 DEF CallPart
  <2> HIDE DEF e
  <2> QED
    BY <1>0, <1>1, <2>1, <2>2, <2>4, <2>5, <2>11, StepOfCall DEF CallTool
<1>4. CASE ~ resp.approved
  <2> DEFINE e == Note("rejected", resp.by, Original)
  <2>1. Log(c, <<e>>) /\ Settle(c, "rejected") /\ UNCHANGED ran
    BY <1>4 DEF Resume
  <2>2. <<e>> \in Seq(Entry)
    BY <1>2 DEF Note, Entry
  <2>3. outcome' \in [Reqs -> Outcomes] /\ pc' = [pc EXCEPT ![c] = "done"]
    BY <1>0, <2>1 DEF Settle, Outcomes
  <2> HIDE DEF e
  <2> QED
    BY <1>0, <1>1, <2>1, <2>2, <2>3, QuietStepKeeps
<1> QED
  BY <1>3, <1>4

-----------------------------------------------------------------------------
(* The steps of the loop itself.  They leave the log, the arguments and    *)
(* the verdicts of every call alone.                                       *)
LEMMA LoopLeavesCalls ==
    ASSUME LoopInv, NEW d \in Reqs,
           UNCHANGED <<portalVars, verdict, ran, audit>>, pc'[d] = pc[d]
    PROVE  CallPart(d)'
<1>1. CallPart(d) /\ audit \in [Reqs -> Seq(Entry)] /\ UNCHANGED promise
  BY DEF LoopInv, TypeOK, portalVars, callVars
<1> QED
  BY <1>1, CallStays

LEMMA ProposeKeeps ==
    ASSUME LoopInv, PortalInv', NEW run \in Runs, Planning(run),
           NEW batch \in SUBSET Slots(run),
           NEW tools \in [batch -> Tools \cup {ExceptionTool, UnknownTool}],
           Propose(run, batch, tools)
    PROVE  LoopInv'
<1>0. /\ runState[run] = "planning" /\ batch \subseteq Reqs
      /\ pc \in [Reqs -> Places]
      /\ iterations \in [Runs -> Nat]
      /\ runState' = [runState EXCEPT ![run] = "acting"]
      /\ runState \in [Runs -> {"planning", "acting", "finished", "stopped", "failed"}]
      /\ pc' = [c \in Reqs |-> IF c \in batch THEN "proposed" ELSE pc[c]]
      /\ UNCHANGED <<portalVars, policyVars, iterations, verdict, ran, outcome, audit>>
  BY DEF LoopInv, TypeOK, Planning, Propose, Slots
<1>1. \A d \in batch : d \in Reqs /\ RunOf[d] = run /\ StepOf[d] = iterations[run] + 1
  BY DEF Slots
<1>2. \A d \in batch : pc[d] = "idle"
  BY <1>0, <1>1 DEF LoopInv, RunPart
<1>3. ASSUME NEW d \in Reqs PROVE CallPart(d)'
  <2>1. CASE d \in batch
    <3>1. pc'[d] = "proposed" /\ UNCHANGED <<promise, ran, verdict>>
      BY <1>0, <2>1 DEF portalVars, callVars
    <3>2. promise[d] = NotAsked /\ ran[d] = NotRun /\ verdict[d] = "none"
      BY <1>2, <2>1 DEF LoopInv, CallPart, HasFlow
    <3> QED
      BY <3>1, <3>2 DEF CallPart, HasFlow, Governed
  <2>2. CASE d \notin batch
    BY <1>0, <2>2, LoopLeavesCalls
  <2> QED
    BY <2>1, <2>2
<1>4. ASSUME NEW d \in Reqs PROVE RunPart(d)'
  <2>0. RunPart(d) /\ RunOf[d] \in Runs /\ StepOf[d] \in Nat
    BY ExecutorAssumption DEF LoopInv
  <2>1. CASE RunOf[d] # run
    <3>1. d \notin batch
      BY <1>1, <2>1
    <3> QED
      BY <1>0, <2>0, <2>1, <3>1 DEF RunPart
  <2>2. CASE RunOf[d] = run
    <3>1. runState'[RunOf[d]] = "acting" /\ iterations'[RunOf[d]] = iterations[run]
      BY <1>0, <2>2
    <3>2. CASE d \in batch
      BY <1>0, <1>1, <3>1, <3>2 DEF RunPart
    <3>3. CASE d \notin batch
      BY <1>0, <2>0, <2>2, <3>1, <3>3 DEF RunPart
    <3> QED
      BY <3>2, <3>3
  <2> QED
    BY <2>1, <2>2
<1>5. TypeOK'
  <2>1. toolOf' \in [Reqs -> Tools \cup {ExceptionTool, UnknownTool}]
    BY DEF Propose, LoopInv, TypeOK
  <2>2. pc' \in [Reqs -> Places]
    BY <1>0 DEF Places
  <2> QED
    BY <1>0, <2>1, <2>2, PolicyTypeKept DEF LoopInv, TypeOK, PortalInv, policyVars
<1> QED
  BY <1>3, <1>4, <1>5 DEF LoopInv

(* A run leaves a step only with all of its calls settled.                 *)
LEMMA EndRunKeeps ==
    ASSUME LoopInv, PortalInv', NEW run \in Runs, EndRun(run)
    PROVE  LoopInv'
<1>0. /\ runState[run] = "planning"
      /\ runState \in [Runs -> {"planning", "acting", "finished", "stopped", "failed"}]
      /\ \E end \in {"finished", "stopped", "failed"} :
            runState' = [runState EXCEPT ![run] = end]
      /\ UNCHANGED <<portalVars, policyVars, iterations, pc, toolOf, verdict, ran,
                     outcome, audit>>
  BY DEF LoopInv, TypeOK, EndRun, Planning
<1>1. \A d \in Reqs : CallPart(d)'
  BY <1>0, LoopLeavesCalls
<1>2. \A d \in Reqs : RunPart(d)'
  BY <1>0, ExecutorAssumption DEF LoopInv, RunPart
<1>3. TypeOK'
  BY <1>0, PolicyTypeKept DEF LoopInv, TypeOK, PortalInv, policyVars
<1> QED
  BY <1>1, <1>2, <1>3 DEF LoopInv

LEMMA JoinKeeps ==
    ASSUME LoopInv, PortalInv', NEW run \in Runs, Join(run)
    PROVE  LoopInv'
<1>0. /\ runState[run] = "acting"
      /\ iterations \in [Runs -> Nat]
      /\ runState \in [Runs -> {"planning", "acting", "finished", "stopped", "failed"}]
      /\ \A c \in Current(run) : pc[c] = "done"
      /\ UNCHANGED <<portalVars, policyVars, pc, toolOf, verdict, ran, outcome, audit>>
  BY DEF LoopInv, TypeOK, Join
<1>1. \/ /\ runState' = [runState EXCEPT ![run] = "finished"]
         /\ UNCHANGED iterations
      \/ /\ runState' = [runState EXCEPT ![run] = "planning"]
         /\ iterations' = [iterations EXCEPT ![run] = @ + 1]
  BY DEF Join
<1>2. \A d \in Reqs : CallPart(d)'
  BY <1>0, LoopLeavesCalls
<1>3. ASSUME NEW d \in Reqs PROVE RunPart(d)'
  <2>0. RunPart(d) /\ RunOf[d] \in Runs /\ StepOf[d] \in Nat
    BY ExecutorAssumption DEF LoopInv
  <2>1. CASE RunOf[d] # run
    BY <1>0, <1>1, <2>0, <2>1 DEF RunPart
  <2>2. CASE RunOf[d] = run
    <3>1. pc[d] \in {"idle", "done"}
      BY <1>0, <2>0, <2>2 DEF RunPart, Current, Slots
    <3>2. StepOf[d] > iterations[run] + 1 => pc[d] = "idle"
      BY <1>0, <2>0, <2>2 DEF RunPart
    <3> QED
      BY <1>0, <1>1, <2>0, <2>2, <3>1, <3>2 DEF RunPart
  <2> QED
    BY <2>1, <2>2
<1>4. TypeOK'
  <2>1. iterations' \in [Runs -> Nat]
    BY <1>0, <1>1
  <2>2. runState' \in [Runs -> {"planning", "acting", "finished", "stopped", "failed"}]
    BY <1>0, <1>1
  <2> QED
    BY <1>0, <2>1, <2>2, PolicyTypeKept DEF LoopInv, TypeOK, PortalInv, policyVars
<1> QED
  BY <1>2, <1>3, <1>4 DEF LoopInv

(* A tool that throws settles its call, or fails its run.                  *)
LEMMA CallThrowsKeeps ==
    ASSUME LoopInv, PortalInv', NEW c \in Reqs, CallThrows(c)
    PROVE  LoopInv'
<1>0. /\ audit \in [Reqs -> Seq(Entry)] /\ <<>> \in Seq(Entry)
      /\ outcome \in [Reqs -> Outcomes] /\ pc \in [Reqs -> Places]
      /\ pc[c] = "calling"
      /\ UNCHANGED <<portalVars, policyVars, iterations, toolOf, verdict, ran, audit>>
  BY DEF LoopInv, TypeOK, CallThrows
<1>1. CASE Settle(c, "error") /\ UNCHANGED runState
  <2>1. Log(c, <<>>)
    <3>1. <<>> \in Written(<<>>)
      BY DEF Written
    <3>2. audit' = [audit EXCEPT ![c] = @ \o <<>>]
      BY <1>0
    <3> QED
      BY <3>1, <3>2 DEF Log
  <2>2. pc' = [pc EXCEPT ![c] = "done"] /\ outcome' \in [Reqs -> Outcomes]
    BY <1>0, <1>1 DEF Settle, Outcomes
  <2> QED
    BY <1>0, <1>1, <2>1, <2>2, QuietStepKeeps
<1>2. CASE /\ pc' = [pc EXCEPT ![c] = "thrown"]
           /\ runState' = [runState EXCEPT ![RunOf[c]] = "failed"]
           /\ UNCHANGED outcome
  <2>1. ASSUME NEW d \in Reqs PROVE CallPart(d)'
    <3>1. CASE d = c
      <4>1. pc'[c] = "thrown" /\ UNCHANGED <<promise, ran, verdict, audit>>
        BY <1>0, <1>2 DEF portalVars, callVars
      <4>2. CallPart(c)
        BY DEF LoopInv
      <4>3. HasFlow(c)'
        BY <1>0, <4>1, <4>2 DEF CallPart, HasFlow
      <4>4. Governed(c)' /\ (~ LogMayFail /\ ran'[c] # NotRun => Vouched(c)')
        BY <4>1, <4>2 DEF CallPart, Governed, HumanApproved, FinalArgs, Vouched
      <4> QED
        BY <3>1, <4>3, <4>4 DEF CallPart
    <3>2. CASE d # c
      BY <1>0, <1>2, <3>2, LoopLeavesCalls
    <3> QED
      BY <3>1, <3>2
  <2>2. ASSUME NEW d \in Reqs PROVE RunPart(d)'
    <3>0. /\ RunPart(d) /\ RunOf[d] \in Runs /\ RunOf[c] \in Runs
          /\ runState \in [Runs -> {"planning", "acting", "finished", "stopped", "failed"}]
      BY ExecutorAssumption DEF LoopInv, TypeOK
    <3>1. CASE RunOf[d] = RunOf[c]
      BY <1>2, <3>0, <3>1 DEF RunPart
    <3>2. CASE RunOf[d] # RunOf[c]
      BY <1>0, <1>2, <3>0, <3>2 DEF RunPart
    <3> QED
      BY <3>1, <3>2
  <2>3. TypeOK'
    BY <1>0, <1>2, PolicyTypeKept DEF LoopInv, TypeOK, PortalInv, policyVars, Places
  <2> QED
    BY <2>1, <2>2, <2>3 DEF LoopInv
<1> QED
  BY <1>1, <1>2 DEF CallThrows

(* Analysts, timers and the listening server; edits of the policy.         *)
LEMMA AroundKeeps ==
    ASSUME LoopInv, PortalInv', Portal \/ Policy \/ UNCHANGED vars
    PROVE  LoopInv'
<1>0. UNCHANGED callerVars
  BY DEF Portal, Policy, vars
<1>1. ASSUME NEW d \in Reqs
      PROVE  /\ promise[d] = NotAsked <=> promise'[d] = NotAsked
             /\ promise[d] \in Responses => promise'[d] = promise[d]
  <2>1. CASE Portal
    BY <2>1, PromisesMove DEF Portal, LoopInv
  <2>2. CASE Policy \/ UNCHANGED vars
    BY <2>2 DEF Policy, vars, portalVars, callVars
  <2> QED
    BY <2>1, <2>2
<1>2. ASSUME NEW d \in Reqs PROVE CallPart(d)'
  <2>1. CallPart(d) /\ audit \in [Reqs -> Seq(Entry)]
    BY DEF LoopInv, TypeOK
  <2> QED
    BY <1>0, <1>1, <2>1, CallStays DEF callerVars
<1>3. \A d \in Reqs : RunPart(d)'
  BY <1>0 DEF LoopInv, RunPart, callerVars
<1>4. PolicyTypeOK'
  BY DEF LoopInv, TypeOK, PolicyTypeOK, Portal, Policy, EditFile, ClearCache, vars, policyVars
<1>5. TypeOK'
  BY <1>0, <1>4 DEF LoopInv, TypeOK, PortalInv, callerVars
<1> QED
  BY <1>2, <1>3, <1>5 DEF LoopInv

-----------------------------------------------------------------------------
LEMMA InitLoop == Init => LoopInv
<1> SUFFICES ASSUME Init PROVE LoopInv
  OBVIOUS
<1>1. PortalInv
  BY InitInv DEF Init
<1>2. TypeOK
  <2>1. PolicyTypeOK
    BY DEF Init, PolicyInit, PolicyTypeOK
  <2>2. <<>> \in Seq(Entry)
    OBVIOUS
  <2> QED
    BY <1>1, <2>1, <2>2 DEF Init, TypeOK, PortalInv, Places, Outcomes
<1>3. \A c \in Reqs : CallPart(c)
  BY DEF Init, PortalInit, CallPart, HasFlow, Governed
<1>4. \A c \in Reqs : RunPart(c)
  BY DEF Init, RunPart
<1> QED
  BY <1>1, <1>2, <1>3, <1>4 DEF LoopInv

LEMMA NextKeepsLoop == LoopInv /\ [Next]_vars => LoopInv'
<1> SUFFICES ASSUME LoopInv, [Next]_vars PROVE LoopInv'
  OBVIOUS
<1>0. PortalInv'
  BY PortalInvKept
<1>1. ASSUME NEW run \in Runs, Drive(run) PROVE LoopInv'
  <2>1. CASE Plan(run)
    <3>0. PICK batch \in SUBSET Slots(run) :
             \E tools \in [batch -> Tools \cup {UnknownTool}] : Propose(run, batch, tools)
      BY <2>1 DEF Plan
    <3>1. PICK tools \in [batch -> Tools \cup {UnknownTool}] : Propose(run, batch, tools)
      BY <3>0
    <3>2. tools \in [batch -> Tools \cup {ExceptionTool, UnknownTool}]
      OBVIOUS
    <3> QED
      BY <1>0, <2>1, <3>1, <3>2, ProposeKeeps DEF Plan
  <2>2. CASE PlanUnparsable(run)
    <3>1. PICK c \in Slots(run) : Propose(run, {c}, [d \in {c} |-> ExceptionTool])
      BY <2>2 DEF PlanUnparsable
    <3>2. /\ {c} \in SUBSET Slots(run)
          /\ [d \in {c} |-> ExceptionTool] \in [{c} -> Tools \cup {ExceptionTool, UnknownTool}]
      OBVIOUS
    <3> QED
      BY <1>0, <2>2, <3>1, <3>2, ProposeKeeps DEF PlanUnparsable
  <2> QED
    BY <1>0, <1>1, <2>1, <2>2, EndRunKeeps, JoinKeeps DEF Drive
<1>2. ASSUME NEW c \in Reqs, Advance(c) PROVE LoopInv'
  BY <1>0, <1>2, BeginKeeps, JudgeInputKeeps, ResumeKeeps, CallReturnsKeeps,
     CallThrowsKeeps, JudgeOutputKeeps DEF Advance
<1>3. CASE Portal \/ Policy \/ UNCHANGED vars
  BY <1>0, <1>3, AroundKeeps
<1> QED
  BY <1>1, <1>2, <1>3 DEF Next

(* The inductive invariant of the governed loop and its portal.             *)
THEOREM LoopSafe == Spec => []LoopInv
BY InitLoop, NextKeepsLoop, PTL DEF Spec

(* The types of the loop's state hold for every value of the constants.    *)
THEOREM LoopTypeCorrect == Spec => []TypeOK
BY LoopSafe, LoopInvParts, PTL

(* No tool runs but by the policy's allow or a human's approval, with the  *)
(* arguments they saw or set: for any number of concurrent runs and calls. *)
THEOREM ToolsAreGoverned == Spec => []GovernedExecution
BY LoopSafe, LoopInvParts, PTL

(* The audit log is ahead of every effect, when it can be written.         *)
THEOREM LogIsAhead == Spec => []LoggedBeforeEffect
BY LoopSafe, LoopInvParts, PTL

(* Planning waits for every call of the step before.                       *)
THEOREM StepsAreClosed == Spec => []NoCallOutlivesItsStep
BY LoopSafe, LoopInvParts, PTL

(* Where a call is and what is known of it agree.                          *)
THEOREM CallsAreTracked == Spec => []CallsTracked
BY LoopSafe, LoopInvParts, PTL

-----------------------------------------------------------------------------
(* A policy file that nobody touches: the cache holds it or nothing, and   *)
(* every verdict given so far is the file's.                               *)
Steady ==
    ~ PolicyChanges /\ policyFile # Unreadable =>
        /\ cachedRules \in {NoRules, policyFile}
        /\ \A c \in Reqs : verdict[c] \in {"none", Verdict(policyFile, toolOf[c]).action}

LEMMA SteadyObeys == LoopInv /\ Steady => PolicyObeyed
<1> SUFFICES ASSUME LoopInv, Steady, ~ PolicyChanges, policyFile # Unreadable,
                    NEW c \in Reqs, ran[c] # NotRun
             PROVE  LET action == Verdict(policyFile, toolOf[c]).action
                    IN  action # "block" /\ (action = "escalate" => HumanApproved(c))
  BY DEF PolicyObeyed
<1>1. Governed(c)
  BY DEF LoopInv, CallPart
<1>2. verdict[c] \in {"none", Verdict(policyFile, toolOf[c]).action}
  BY DEF Steady
<1> QED
  BY <1>1, <1>2 DEF Governed

LEMMA GovernKeepsSteady ==
    ASSUME LoopInv, Steady, NEW c \in Reqs, NEW judged, Govern(c, judged)
    PROVE  Steady'
<1> SUFFICES ASSUME ~ PolicyChanges, policyFile' # Unreadable
             PROVE  /\ cachedRules' \in {NoRules, policyFile'}
                    /\ \A d \in Reqs :
                          verdict'[d] \in {"none", Verdict(policyFile', toolOf'[d]).action}
  BY DEF Steady
<1>1. /\ LoadRules /\ UNCHANGED <<policyFile, toolOf>>
      /\ verdict' = [verdict EXCEPT ![c] = Verdict(LoadedRules, toolOf[c]).action]
      /\ verdict \in [Reqs -> Actions \cup {"none"}]
  BY DEF Govern, LoopInv, TypeOK
<1>2. /\ cachedRules \in {NoRules, policyFile}
      /\ \A d \in Reqs : verdict[d] \in {"none", Verdict(policyFile, toolOf[d]).action}
  BY <1>1 DEF Steady
<1>3. LoadedRules = policyFile
  BY <1>1, <1>2 DEF LoadedRules
<1>4. cachedRules' \in {NoRules, policyFile'}
  BY <1>1, <1>2 DEF LoadRules
<1>5. ASSUME NEW d \in Reqs
      PROVE  verdict'[d] \in {"none", Verdict(policyFile', toolOf'[d]).action}
  BY <1>1, <1>2, <1>3
<1> QED
  BY <1>4, <1>5

LEMMA ProposeKeepsSteady ==
    ASSUME LoopInv, Steady, NEW run \in Runs, Planning(run),
           NEW batch \in SUBSET Slots(run), NEW tools, Propose(run, batch, tools)
    PROVE  Steady'
<1>1. ASSUME NEW d \in batch PROVE verdict[d] = "none"
  <2>1. d \in Reqs /\ RunOf[d] = run /\ StepOf[d] = iterations[run] + 1
        /\ runState[run] = "planning" /\ iterations[run] \in Nat
    BY DEF Slots, Planning, LoopInv, TypeOK
  <2> QED
    BY <2>1 DEF LoopInv, RunPart, CallPart, HasFlow
<1>2. /\ UNCHANGED <<policyFile, cachedRules, verdict>>
      /\ toolOf' = [c \in Reqs |-> IF c \in batch THEN tools[c] ELSE toolOf[c]]
  BY DEF Propose, policyVars
<1> QED
  BY <1>1, <1>2 DEF Steady

LEMMA NextKeepsSteady == LoopInv /\ Steady /\ [Next]_vars => Steady'
<1> SUFFICES ASSUME LoopInv, Steady, [Next]_vars PROVE Steady'
  OBVIOUS
<1>0. ASSUME UNCHANGED <<policyVars, toolOf, verdict>> PROVE Steady'
  BY <1>0 DEF Steady, policyVars
<1>1. ASSUME NEW run \in Runs, Plan(run) \/ PlanUnparsable(run) PROVE Steady'
  <2>1. PICK batch \in SUBSET Slots(run) : \E tools : Propose(run, batch, tools)
    BY <1>1 DEF Plan, PlanUnparsable
  <2>2. Planning(run)
    BY <1>1 DEF Plan, PlanUnparsable
  <2> QED
    BY <2>1, <2>2, ProposeKeepsSteady
<1>2. ASSUME NEW run \in Runs, EndRun(run) \/ Join(run) PROVE Steady'
  BY <1>0, <1>2 DEF EndRun, Join
<1>3. ASSUME NEW c \in Reqs, Begin(c) PROVE Steady'
  BY <1>0, <1>3, GovernKeepsSteady DEF Begin
<1>4. ASSUME NEW c \in Reqs, JudgeInput(c) PROVE Steady'
  BY <1>0, <1>4, GovernKeepsSteady DEF JudgeInput
<1>5. ASSUME NEW c \in Reqs,
             Resume(c) \/ CallReturns(c) \/ CallThrows(c) \/ JudgeOutput(c)
      PROVE  Steady'
  BY <1>0, <1>5 DEF Resume, CallReturns, CallThrows, JudgeOutput
<1>6. CASE Portal \/ UNCHANGED vars
  BY <1>0, <1>6 DEF Portal, vars, callerVars
<1>7. CASE Policy
  BY <1>7 DEF Policy, Steady
<1> QED
  BY <1>1, <1>2, <1>3, <1>4, <1>5, <1>6, <1>7 DEF Next, Drive, Advance

(* A readable policy that stays as it is: what it blocks never runs, what  *)
(* it escalates runs only as a human let it, in every run at once.         *)
THEOREM PolicyIsObeyed == Spec => []PolicyObeyed
<1>1. Init => Steady
  BY DEF Init, PolicyInit, Steady
<1>2. LoopInv /\ Steady /\ [Next]_vars => Steady'
  BY NextKeepsSteady
<1> QED
  BY <1>1, <1>2, LoopSafe, SteadyObeys, PTL DEF Spec
-----------------------------------------------------------------------------
(* The audit log tells what the model was told, when it can be written.    *)

(* The last entry about a call. *)
Final(c) == audit[c][Len(audit[c])]

(* What the log says of a call at each await it can be at. *)
LogPart(c) ==
    /\ pc[c] \in {"idle", "proposed", "judgingInput"} => audit[c] = <<>>
    /\ pc[c] \in {"calling", "thrown"} =>
          /\ Final(c).decision \in {"allowed", "approved", "modified"}
          /\ Final(c).args = ran[c] /\ ~ Final(c).output
    /\ pc[c] = "judgingOutput" => Final(c).output
    /\ pc[c] = "done" => Told(c)
    /\ pc[c] = "done" /\ outcome[c] = "rejected" => promise[c] \in Responses

LogInv == ~ LogMayFail => \A c \in Reqs : LogPart(c)

-----------------------------------------------------------------------------
(* What is written about one call: the last entry becomes its last, and    *)
(* nothing is written about the others.                                    *)
LEMMA LastLogged ==
    ASSUME ~ LogMayFail, audit \in [Reqs -> Seq(Entry)], NEW c \in Reqs,
           NEW entries \in Seq(Entry), Log(c, entries)
    PROVE  /\ \A d \in Reqs \ {c} : audit'[d] = audit[d]
           /\ entries # <<>> => Final(c)' = entries[Len(entries)]
<1>1. audit' = [audit EXCEPT ![c] = @ \o entries]
  BY DEF Log, Written
<1>2. audit'[c] = audit[c] \o entries
  BY <1>1
<1>3. ASSUME entries # <<>>
      PROVE  Final(c)' = entries[Len(entries)]
  <2>1. Len(entries) \in Nat \ {0} /\ Len(audit[c]) \in Nat
    BY <1>3
  <2>2. /\ Len(audit[c] \o entries) = Len(audit[c]) + Len(entries)
        /\ (audit[c] \o entries)[Len(audit[c]) + Len(entries)] = entries[Len(entries)]
    BY <2>1
  <2> QED
    BY <1>2, <2>2 DEF Final
<1> QED
  BY <1>1, <1>3

(* A call that a step leaves alone. *)
LEMMA LogPartStays ==
    ASSUME NEW d \in Reqs, LogPart(d),
           pc'[d] = pc[d], ran'[d] = ran[d], outcome'[d] = outcome[d],
           audit'[d] = audit[d],
           promise[d] \in Responses => promise'[d] = promise[d]
    PROVE  LogPart(d)'
BY DEF LogPart, Told, Final, Note

(* A step of one call: what it must show of that call.                     *)
LEMMA LogStepOfCall ==
    ASSUME ~ LogMayFail, LogInv, LoopInv, NEW c \in Reqs,
           \A d \in Reqs \ {c} : /\ pc'[d] = pc[d] /\ ran'[d] = ran[d]
                                 /\ outcome'[d] = outcome[d]
                                 /\ promise'[d] = promise[d] /\ audit'[d] = audit[d],
           LogPart(c)'
    PROVE  LogInv'
BY LogPartStays DEF LogInv

LEMMA NoteType ==
    ASSUME NEW decision \in {"allowed", "blocked", "approved", "rejected", "modified"},
           NEW by \in {"judge", "policy", "human", "timeout"},
           NEW args \in Edits \cup {Original}
    PROVE  Note(decision, by, args) \in Entry
BY DEF Note, Entry

-----------------------------------------------------------------------------
LEMMA GovernTells ==
    ASSUME ~ LogMayFail, LogInv, LoopInv, NEW c \in Reqs, NEW judged \in Seq(Entry),
           Govern(c, judged)
    PROVE  LogInv'
<1> DEFINE result == Verdict(LoadedRules, toolOf[c]).action
           entry(decision) == Note(decision, "policy", Original)
<1>0. /\ audit \in [Reqs -> Seq(Entry)] /\ pc \in [Reqs -> Places]
      /\ ran \in [Reqs -> Edits \cup {Original, NotRun}]
      /\ outcome \in [Reqs -> Outcomes]
      /\ promise \in [Reqs -> Responses \cup {NotAsked, Pending}]
  BY DEF LoopInv, TypeOK, PortalTypeOK
<1>1. ASSUME NEW decision \in {"blocked", "allowed"}, Log(c, Append(judged, entry(decision)))
      PROVE  /\ Final(c)' = entry(decision)
             /\ \A d \in Reqs \ {c} : audit'[d] = audit[d]
  <2>1. entry(decision) \in Entry
    BY NoteType
  <2>2. /\ Append(judged, entry(decision)) \in Seq(Entry)
        /\ Append(judged, entry(decision)) # <<>>
        /\ Append(judged, entry(decision))[Len(Append(judged, entry(decision)))]
              = entry(decision)
    BY <2>1, AppendLast
  <2> HIDE DEF entry
  <2> QED
    BY <1>0, <1>1, <2>2, LastLogged
<1>2. CASE result = "block"
  <2>1. /\ Log(c, Append(judged, entry("blocked"))) /\ Settle(c, "blocked")
        /\ UNCHANGED <<portalVars, ran>>
    BY <1>2 DEF Govern
  <2>2. pc'[c] = "done" /\ outcome'[c] = "blocked"
    BY <1>0, <2>1 DEF Settle
  <2>3. Final(c)' = Note("blocked", "policy", Original)
    BY <1>1, <2>1
  <2>4. LogPart(c)'
    BY <2>2, <2>3 DEF LogPart, Told, Final
  <2> QED
    BY <1>0, <1>1, <2>1, <2>4, LogStepOfCall DEF Settle, portalVars, callVars
<1>3. CASE result = "escalate"
  <2>1. /\ Log(c, judged) /\ RequestApproval(c)
        /\ pc' = [pc EXCEPT ![c] = "awaiting"] /\ UNCHANGED <<ran, outcome>>
    BY <1>3 DEF Govern
  <2>2. promise' = [promise EXCEPT ![c] = Pending]
    BY <2>1 DEF RequestApproval
  <2>3. LogPart(c)'
    BY <1>0, <2>1 DEF LogPart
  <2>4. \A d \in Reqs \ {c} : audit'[d] = audit[d]
    BY <1>0, <2>1, LastLogged
  <2> QED
    BY <1>0, <2>1, <2>2, <2>3, <2>4, LogStepOfCall
<1>4. CASE result \notin {"block", "escalate"}
  <2>1. /\ Log(c, Append(judged, entry("allowed"))) /\ CallTool(c, Original)
        /\ UNCHANGED portalVars
    BY <1>4 DEF Govern
  <2>2. pc'[c] = "calling" /\ ran'[c] = Original
    BY <1>0, <2>1 DEF CallTool
  <2>3. Final(c)' = Note("allowed", "policy", Original)
    BY <1>1, <2>1
  <2>4. LogPart(c)'
    BY <2>2, <2>3 DEF LogPart, Note
  <2> QED
    BY <1>0, <1>1, <2>1, <2>4, LogStepOfCall DEF CallTool, portalVars, callVars
<1> QED
  BY <1>2, <1>3, <1>4

LEMMA BeginTells ==
    ASSUME ~ LogMayFail, LogInv, LoopInv, NEW c \in Reqs, Begin(c)
    PROVE  LogInv'
<1>0. /\ pc \in [Reqs -> Places] /\ outcome \in [Reqs -> Outcomes]
      /\ audit[c] = <<>> /\ <<>> \in Seq(Entry)
  BY DEF LoopInv, TypeOK, LogInv, LogPart, Begin
<1>1. CASE Govern(c, <<>>)
  BY <1>0, <1>1, GovernTells
<1>2. CASE Settle(c, "invalidTool") /\ UNCHANGED <<portalVars, ran, audit>>
  <2>1. pc'[c] = "done" /\ outcome'[c] = "invalidTool" /\ audit'[c] = <<>>
    BY <1>0, <1>2 DEF Settle
  <2>2. LogPart(c)'
    BY <2>1 DEF LogPart, Told
  <2> QED
    BY <1>0, <1>2, <2>2, LogStepOfCall DEF Settle, portalVars, callVars
<1>3. CASE /\ pc' = [pc EXCEPT ![c] = "judgingInput"]
           /\ UNCHANGED <<portalVars, ran, outcome, audit>>
  <2>1. LogPart(c)'
    BY <1>0, <1>3 DEF LogPart
  <2> QED
    BY <1>0, <1>3, <2>1, LogStepOfCall DEF portalVars, callVars
<1> QED
  BY <1>1, <1>2, <1>3 DEF Begin

LEMMA JudgeInputTells ==
    ASSUME ~ LogMayFail, LogInv, LoopInv, NEW c \in Reqs, JudgeInput(c)
    PROVE  LogInv'
<1> DEFINE entries(decision) == <<Note(decision, "judge", Original)>>
<1>0. /\ pc \in [Reqs -> Places] /\ outcome \in [Reqs -> Outcomes]
      /\ audit \in [Reqs -> Seq(Entry)]
  BY DEF LoopInv, TypeOK
<1>1. \A decision \in {"allowed", "blocked"} : entries(decision) \in Seq(Entry)
  BY NoteType
<1>2. CASE Govern(c, entries("allowed"))
  BY <1>1, <1>2, GovernTells
<1>3. CASE /\ Log(c, entries("blocked")) /\ Settle(c, "inputRejected")
           /\ UNCHANGED <<portalVars, ran>>
  <2>1. /\ \A d \in Reqs \ {c} : audit'[d] = audit[d]
        /\ Final(c)' = Note("blocked", "judge", Original)
    BY <1>0, <1>1, <1>3, LastLogged
  <2>2. pc'[c] = "done" /\ outcome'[c] = "inputRejected"
    BY <1>0, <1>3 DEF Settle
  <2>3. LogPart(c)'
    BY <2>1, <2>2 DEF LogPart, Told, Final
  <2> QED
    BY <1>0, <1>3, <2>1, <2>3, LogStepOfCall DEF Settle, portalVars, callVars
<1> QED
  BY <1>2, <1>3 DEF JudgeInput

LEMMA ResumeTells ==
    ASSUME ~ LogMayFail, LogInv, LoopInv, NEW c \in Reqs, Resume(c)
    PROVE  LogInv'
<1> USE ExecutorAssumption
<1> DEFINE resp == promise[c]
           decision == IF resp.modifiedArgs \in Edits \ Falsy THEN "modified" ELSE "approved"
<1>0. /\ pc \in [Reqs -> Places] /\ outcome \in [Reqs -> Outcomes]
      /\ audit \in [Reqs -> Seq(Entry)] /\ resp \in Responses
      /\ ran \in [Reqs -> Edits \cup {Original, NotRun}]
  BY DEF LoopInv, TypeOK, PortalTypeOK, Resume
<1>1. FinalArgs(resp) \in Edits \cup {Original} /\ resp.by \in {"human", "timeout"}
  BY <1>0 DEF FinalArgs, Responses
<1>2. UNCHANGED <<portalVars, promise>>
  BY DEF Resume, portalVars, callVars
<1>3. CASE resp.approved
  <2>1. Log(c, <<Note(decision, resp.by, FinalArgs(resp))>>) /\ CallTool(c, FinalArgs(resp))
    BY <1>3 DEF Resume
  <2>2. <<Note(decision, resp.by, FinalArgs(resp))>> \in Seq(Entry)
    BY <1>1, NoteType
  <2>3. /\ \A d \in Reqs \ {c} : audit'[d] = audit[d]
        /\ Final(c)' = Note(decision, resp.by, FinalArgs(resp))
    BY <1>0, <2>1, <2>2, LastLogged
  <2>4. pc'[c] = "calling" /\ ran'[c] = FinalArgs(resp)
    BY <1>0, <2>1 DEF CallTool
  <2>5. LogPart(c)'
    BY <2>3, <2>4 DEF LogPart, Note
  <2> QED
    BY <1>0, <1>2, <2>1, <2>3, <2>5, LogStepOfCall DEF CallTool
<1>4. CASE ~ resp.approved
  <2>1. /\ Log(c, <<Note("rejected", resp.by, Original)>>) /\ Settle(c, "rejected")
        /\ UNCHANGED ran
    BY <1>4 DEF Resume
  <2>2. <<Note("rejected", resp.by, Original)>> \in Seq(Entry)
    BY <1>1, NoteType
  <2>3. /\ \A d \in Reqs \ {c} : audit'[d] = audit[d]
        /\ Final(c)' = Note("rejected", resp.by, Original)
    BY <1>0, <2>1, <2>2, LastLogged
  <2>4. pc'[c] = "done" /\ outcome'[c] = "rejected" /\ promise'[c] = promise[c]
    BY <1>0, <1>2, <2>1 DEF Settle
  <2>5. LogPart(c)'
    BY <1>0, <2>3, <2>4 DEF LogPart, Told, Final, Note
  <2> QED
    BY <1>0, <1>2, <2>1, <2>3, <2>5, LogStepOfCall DEF Settle
<1> QED
  BY <1>3, <1>4

LEMMA CallReturnsTells ==
    ASSUME ~ LogMayFail, LogInv, LoopInv, NEW c \in Reqs, CallReturns(c)
    PROVE  LogInv'
<1> DEFINE e == [decision |-> IF verdict[c] = "escalate" THEN "approved" ELSE "allowed",
                 by       |-> IF verdict[c] = "escalate" THEN "human" ELSE "policy",
                 args     |-> ran[c],
                 output   |-> TRUE]
<1>0. /\ pc \in [Reqs -> Places] /\ outcome \in [Reqs -> Outcomes]
      /\ audit \in [Reqs -> Seq(Entry)] /\ ran[c] \in Edits \cup {Original}
  BY DEF LoopInv, TypeOK, CallPart, HasFlow, CallReturns
<1>1. <<e>> \in Seq(Entry) /\ e.output /\ e.decision # "blocked"
  BY <1>0 DEF Entry
<1>2. Log(c, <<e>>) /\ UNCHANGED <<portalVars, ran, promise>>
  BY DEF CallReturns, portalVars, callVars
<1>3. /\ \A d \in Reqs \ {c} : audit'[d] = audit[d]
      /\ Final(c)' = e
  <2> HIDE DEF e
  <2> QED
    BY <1>0, <1>1, <1>2, LastLogged
<1>4. CASE pc' = [pc EXCEPT ![c] = "judgingOutput"] /\ UNCHANGED outcome
  <2>1. LogPart(c)'
    BY <1>0, <1>1, <1>3, <1>4 DEF LogPart
  <2> QED
    BY <1>0, <1>2, <1>3, <1>4, <2>1, LogStepOfCall
<1>5. CASE Settle(c, "output")
  <2>1. pc'[c] = "done" /\ outcome'[c] = "output"
    BY <1>0, <1>5 DEF Settle
  <2>2. LogPart(c)'
    BY <1>1, <1>3, <2>1 DEF LogPart, Told, Final
  <2> QED
    BY <1>0, <1>2, <1>3, <1>5, <2>2, LogStepOfCall DEF Settle
<1> QED
  BY <1>4, <1>5 DEF CallReturns

LEMMA CallThrowsTells ==
    ASSUME ~ LogMayFail, LogInv, LoopInv, NEW c \in Reqs, CallThrows(c)
    PROVE  LogInv'
<1>0. /\ pc \in [Reqs -> Places] /\ outcome \in [Reqs -> Outcomes]
      /\ LogPart(c) /\ pc[c] = "calling"
      /\ UNCHANGED <<ran, audit, promise>>
  BY DEF LoopInv, TypeOK, LogInv, CallThrows, portalVars, callVars
<1>1. CASE Settle(c, "error")
  <2>1. pc'[c] = "done" /\ outcome'[c] = "error"
    BY <1>0, <1>1 DEF Settle
  <2>2. LogPart(c)'
    BY <1>0, <2>1 DEF LogPart, Told, Final
  <2> QED
    BY <1>0, <1>1, <2>2, LogStepOfCall DEF Settle
<1>2. CASE pc' = [pc EXCEPT ![c] = "thrown"] /\ UNCHANGED outcome
  <2>1. LogPart(c)'
    BY <1>0, <1>2 DEF LogPart, Final
  <2> QED
    BY <1>0, <1>2, <2>1, LogStepOfCall
<1> QED
  BY <1>1, <1>2 DEF CallThrows

LEMMA JudgeOutputTells ==
    ASSUME ~ LogMayFail, LogInv, LoopInv, NEW c \in Reqs, JudgeOutput(c)
    PROVE  LogInv'
<1> DEFINE e(valid) == [decision |-> IF valid THEN "allowed" ELSE "blocked",
                        by |-> "judge", args |-> Original, output |-> TRUE]
<1>0. /\ pc \in [Reqs -> Places] /\ outcome \in [Reqs -> Outcomes]
      /\ audit \in [Reqs -> Seq(Entry)] /\ UNCHANGED <<ran, promise>>
  BY DEF LoopInv, TypeOK, JudgeOutput, portalVars, callVars
<1>1. PICK valid \in BOOLEAN : Log(c, <<e(valid)>>) /\
                               Settle(c, IF valid THEN "output" ELSE "redacted")
  BY DEF JudgeOutput
<1>2. <<e(valid)>> \in Seq(Entry)
  BY DEF Entry
<1>3. /\ \A d \in Reqs \ {c} : audit'[d] = audit[d]
      /\ Final(c)' = e(valid)
  <2> HIDE DEF e
  <2> QED
    BY <1>0, <1>1, <1>2, LastLogged
<1>4. pc'[c] = "done" /\ outcome'[c] = IF valid THEN "output" ELSE "redacted"
  BY <1>0, <1>1 DEF Settle
<1>5. LogPart(c)'
  BY <1>3, <1>4 DEF LogPart, Told, Final
<1> QED
  BY <1>0, <1>1, <1>3, <1>5, LogStepOfCall DEF Settle

(* A plan starts calls whose log is empty; the rest of a run leaves the    *)
(* calls alone.                                                            *)
LEMMA DriveTells ==
    ASSUME ~ LogMayFail, LogInv, LoopInv, NEW run \in Runs, Drive(run)
    PROVE  LogInv'
<1>0. pc \in [Reqs -> Places]
  BY DEF LoopInv, TypeOK
<1>1. ASSUME NEW batch \in SUBSET Slots(run), NEW tools, Propose(run, batch, tools),
             runState[run] = "planning"
      PROVE  LogInv'
  <2>1. SUFFICES ASSUME NEW c \in Reqs PROVE LogPart(c)'
    BY DEF LogInv
  <2>2. UNCHANGED <<promise, ran, outcome, audit>>
    BY <1>1 DEF Propose, portalVars, callVars
  <2>3. CASE c \in batch
    <3>0. /\ RunOf[c] = run /\ StepOf[c] = iterations[run] + 1
          /\ iterations[run] \in Nat
      BY <2>3 DEF Slots, LoopInv, TypeOK
    <3>1. pc[c] = "idle"
      BY <1>1, <3>0 DEF LoopInv, RunPart
    <3>2. pc'[c] = "proposed" /\ audit'[c] = <<>>
      BY <1>1, <2>2, <2>3, <3>1 DEF Propose, LogInv, LogPart
    <3> QED
      BY <3>2 DEF LogPart
  <2>4. CASE c \notin batch
    <3>1. pc'[c] = pc[c]
      BY <1>1, <2>4 DEF Propose
    <3> QED
      BY <2>2, <3>1, LogPartStays DEF LogInv
  <2> QED
    BY <2>3, <2>4
<1>2. CASE Plan(run)
  BY <1>1, <1>2 DEF Plan, Planning
<1>3. CASE PlanUnparsable(run)
  <2>1. PICK c \in Slots(run) : Propose(run, {c}, [d \in {c} |-> ExceptionTool])
    BY <1>3 DEF PlanUnparsable
  <2> QED
    BY <1>1, <1>3, <2>1 DEF PlanUnparsable, Planning
<1>4. CASE EndRun(run) \/ Join(run)
  <2>1. UNCHANGED <<pc, promise, ran, outcome, audit>>
    BY <1>4 DEF EndRun, Join, portalVars, callVars
  <2> QED
    BY <2>1, LogPartStays DEF LogInv
<1> QED
  BY <1>2, <1>3, <1>4 DEF Drive

LEMMA AroundTells ==
    ASSUME ~ LogMayFail, LogInv, LoopInv, Portal \/ Policy \/ UNCHANGED vars
    PROVE  LogInv'
<1>1. UNCHANGED <<pc, ran, outcome, audit>>
  BY DEF Portal, Policy, vars, callerVars
<1>2. ASSUME NEW d \in Reqs PROVE promise[d] \in Responses => promise'[d] = promise[d]
  <2>1. CASE Portal
    BY <2>1, PromisesMove DEF Portal, LoopInv
  <2>2. CASE Policy \/ UNCHANGED vars
    BY <2>2 DEF Policy, vars, portalVars, callVars
  <2> QED
    BY <2>1, <2>2
<1> QED
  BY <1>1, <1>2, LogPartStays DEF LogInv

-----------------------------------------------------------------------------
(* The last entry of the log about a settled call is what became of it.    *)
THEOREM LogIsTrue == Spec => []LogTellsOutcome
<1>1. Init => LogInv
  BY DEF Init, LogInv, LogPart
<1>2. LoopInv /\ LogInv /\ [Next]_vars => LogInv'
  <2> SUFFICES ASSUME LoopInv, LogInv, [Next]_vars, ~ LogMayFail PROVE LogInv'
    BY DEF LogInv
  <2>1. ASSUME NEW c \in Reqs, Advance(c) PROVE LogInv'
    BY <2>1, BeginTells, JudgeInputTells, ResumeTells, CallReturnsTells,
       CallThrowsTells, JudgeOutputTells DEF Advance
  <2> QED
    BY <2>1, DriveTells, AroundTells DEF Next
<1>3. LogInv => LogTellsOutcome
  BY DEF LogInv, LogPart, LogTellsOutcome
<1> QED
  BY <1>1, <1>2, <1>3, LoopSafe, PTL DEF Spec
=============================================================================
