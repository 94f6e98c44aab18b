--------------------------- MODULE PredictionProofs ---------------------------
(***************************************************************************)
(* What the life of a prediction guarantees for any requests, chats,       *)
(* workers and crashes, in a server or with a queue: an abort finds the    *)
(* run it names, and what is streamed comes in order and stops at its end. *)
(***************************************************************************)
EXTENDS Prediction, FiniteSetTheorems, SequenceTheorems, TLAPS

Queued(r) == \E i \in 1..Len(jobs) : jobs[i] = r

(* What belongs to a queue is not used by a server, and the other way      *)
(* round.                                                                  *)
ModeInv ==
    /\ setup.mode = "server" =>
          /\ jobs = <<>>
          /\ \A r \in Requests : at[r] = None /\ results[r] = None
          /\ \A c \in Chats : channel[c] = <<>>
          /\ \A w \in Workers : signals[w] = {}
    /\ setup.mode = "queue" => \A c \in Chats : pool[c] = None

(* A job is queued once; while it is queued or at work, its request waits. *)
JobInv ==
    /\ IsFiniteSet({r \in Requests : phase[r] # "idle"})
    /\ \A i, j \in 1..Len(jobs) : jobs[i] = jobs[j] => i = j
    /\ \A r \in Requests :
          /\ Queued(r) => phase[r] = "running" /\ at[r] = None /\ results[r] = None
          /\ Queued(r) /\ r \notin rerun => emitted[r] = 0
          /\ at[r] # None => phase[r] = "running" /\ results[r] = None
          /\ phase[r] \in {"idle", "checking"} => emitted[r] = 0 /\ results[r] = None

(* Who shares its time with nobody is alone in its chat, and the response  *)
(* of a chat is that of an open request.                                   *)
ChatInv ==
    /\ \A r \in lone, s \in Requests :
          phase[r] \in Open /\ phase[s] \in Open /\ ChatOf[s] = ChatOf[r] => s = r
    /\ \A c \in Chats :
          /\ client[c] # None =>
                ChatOf[client[c]] = c /\ phase[client[c]] \in Open /\ client[c] \in streams
          /\ pool[c] # None => ChatOf[pool[c]] = c

(* A request that has not started is in no worker's pool, nor aborted. *)
FreshInv ==
    \A r \in Requests : phase[r] \in {"idle", "checking"} =>
        r \notin aborted /\ \A w \in Workers, c \in Chats : wpool[w][c] # r

(* The number of the last token. *)
EndsAt(r, events, n) ==
    \A i \in Own(r, events) : (\A k \in Own(r, events) : k <= i) => events[i].no = n

(* What a response has got, and what it may still get. *)
Stream(r) == response[r] \o channel[ChatOf[r]]

ChannelInv ==
    \A c \in Chats :
        /\ subscribed[c] # "yes" => channel[c] = <<>>
        /\ \A i \in 1..Len(channel[c]) :
              LET e == channel[c][i]
              IN  e.event = "token" /\ ChatOf[e.run] = c /\ phase[e.run] \notin {"idle", "checking"}

ResponseInv ==
    \A r \in Requests :
        /\ phase[r] = "idle" => response[r] = <<>>
        /\ \A i \in 1..Len(response[r]) : response[r][i].event = "token" =>
              /\ ChatOf[response[r][i].run] = ChatOf[r]
              /\ phase[response[r][i].run] \notin {"idle", "checking"}
              /\ setup.mode = "queue" => subscribed[ChatOf[r]] = "yes"
        /\ \A i \in 1..Len(response[r]) : response[r][i].event = "end" =>
              i = Len(response[r]) /\ client[ChatOf[r]] # r

(* The tokens of a run that are written or on their way, up to the last    *)
(* one it has sent.                                                        *)
OrderInv ==
    \A r \in Requests : r \notin rerun =>
        /\ Consecutive(r, response[r])
        /\ client[ChatOf[r]] = r =>
              Consecutive(r, Stream(r)) /\ EndsAt(r, Stream(r), emitted[r])

(* The response of a run that a server runs alone. *)
AloneInv ==
    setup.mode = "server" => \A r \in lone :
        /\ \A i \in 1..Len(response[r]) :
              response[r][i].event = "token" => response[r][i] = Token(r, i)
        /\ client[ChatOf[r]] = r => Len(response[r]) = emitted[r]

PredInv ==
    /\ PredTypeOK /\ ModeInv /\ JobInv /\ ChatInv /\ FreshInv /\ AbortFindsRun
    /\ ChannelInv /\ ResponseInv /\ OrderInv /\ AloneInv

-----------------------------------------------------------------------------
(* Sequences of events. *)

LEMMA Concat ==
    ASSUME NEW E, NEW s \in Seq(E), NEW t \in Seq(E)
    PROVE  /\ s \o t \in Seq(E) /\ Len(s \o t) = Len(s) + Len(t)
           /\ \A i \in 1..Len(s) : (s \o t)[i] = s[i]
           /\ \A i \in 1..Len(t) : (s \o t)[Len(s) + i] = t[i]
           /\ \A i \in 1..Len(s \o t) : i > Len(s) => i - Len(s) \in 1..Len(t)
                                                      /\ (s \o t)[i] = t[i - Len(s)]
OBVIOUS

(* What is not of the run changes nothing for it. *)
LEMMA OthersAppended ==
    ASSUME NEW E, NEW s \in Seq(E), NEW t \in Seq(E), NEW r, Own(r, t) = {}
    PROVE  /\ Own(r, s \o t) = Own(r, s)
           /\ Consecutive(r, s) => Consecutive(r, s \o t)
           /\ \A n \in Nat : EndsAt(r, s, n) => EndsAt(r, s \o t, n)
<1>1. Own(r, s \o t) = Own(r, s)
  <2>1. \A i \in 1..Len(s \o t) : i \in 1..Len(s) \/ i > Len(s)
    BY Concat
  <2>2. Own(r, s \o t) \subseteq Own(r, s)
    BY <2>1, Concat DEF Own
  <2>3. Own(r, s) \subseteq Own(r, s \o t)
    BY Concat DEF Own
  <2> QED BY <2>2, <2>3
<1>2. \A i \in Own(r, s) : (s \o t)[i] = s[i]
  BY Concat DEF Own
<1>3. Consecutive(r, s) => Consecutive(r, s \o t)
  BY <1>1, <1>2 DEF Consecutive
<1>4. \A n \in Nat : EndsAt(r, s, n) => EndsAt(r, s \o t, n)
  BY <1>1, <1>2 DEF EndsAt
<1> QED BY <1>1, <1>3, <1>4

(* The next token of the run. *)
LEMMA NextAppended ==
    ASSUME NEW E, NEW s \in Seq(E), NEW e \in E, NEW r, NEW n,
           e.event = "token", e.run = r, e.no = n + 1,
           Consecutive(r, s), EndsAt(r, s, n)
    PROVE  Consecutive(r, Append(s, e)) /\ EndsAt(r, Append(s, e), n + 1)
<1> DEFINE t == Append(s, e)
<1>1. Len(t) = Len(s) + 1 /\ t[Len(s) + 1] = e /\ \A i \in 1..Len(s) : t[i] = s[i]
  OBVIOUS
<1> HIDE DEF t
<1>2. Own(r, t) = Own(r, s) \cup {Len(s) + 1}
  BY <1>1 DEF Own
<1>3. \A i \in Own(r, s) : i \in 1..Len(s) /\ t[i] = s[i]
  BY <1>1 DEF Own
<1>4. \A i \in Own(r, t) : i \in 1..(Len(s) + 1)
  BY <1>1 DEF Own
<1>5. Consecutive(r, t)
  <2> SUFFICES ASSUME NEW i \in Own(r, t), NEW j \in Own(r, t), i < j,
                      \A k \in Own(r, t) : ~ (i < k /\ k < j)
               PROVE  t[j].no = t[i].no + 1
    BY DEF Consecutive
  <2>1. i \in Own(r, s)
    BY <1>2, <1>4
  <2>2. CASE j \in Own(r, s)
    BY <1>2, <1>3, <2>1, <2>2 DEF Consecutive
  <2>3. CASE j = Len(s) + 1
    <3>1. \A k \in Own(r, s) : k <= i
      BY <1>2, <1>3, <2>1, <2>3
    <3> QED BY <1>1, <1>3, <2>1, <2>3, <3>1 DEF EndsAt
  <2> QED BY <1>2, <2>2, <2>3
<1>6. EndsAt(r, t, n + 1)
  <2> SUFFICES ASSUME NEW i \in Own(r, t), \A k \in Own(r, t) : k <= i
               PROVE  t[i].no = n + 1
    BY DEF EndsAt
  <2>1. i = Len(s) + 1
    BY <1>2, <1>3, <1>4
  <2> QED BY <1>1, <2>1
<1> QED BY <1>5, <1>6 DEF t

(* A token of another run. *)
LEMMA OtherAppended ==
    ASSUME NEW E, NEW s \in Seq(E), NEW e \in E, NEW r, NEW n \in Nat, e.run # r,
           Consecutive(r, s), EndsAt(r, s, n)
    PROVE  Consecutive(r, Append(s, e)) /\ EndsAt(r, Append(s, e), n)
<1>1. Append(s, e) = s \o <<e>> /\ <<e>> \in Seq(E)
  BY AppendIsConcat
<1>2. Own(r, <<e>>) = {}
  BY DEF Own
<1>3. Consecutive(r, s \o <<e>>) /\ EndsAt(r, s \o <<e>>, n)
  BY <1>1, <1>2, OthersAppended
<1> QED BY <1>1, <1>3

LEMMA Begun ==
    ASSUME NEW E, NEW s \in Seq(E), NEW t \in Seq(E), NEW r, Consecutive(r, s \o t)
    PROVE  Consecutive(r, s)
<1>1. \A i \in Own(r, s) : i \in Own(r, s \o t) /\ (s \o t)[i] = s[i] /\ i \in 1..Len(s)
  BY Concat DEF Own
<1>2. \A k \in Own(r, s \o t) : k \in 1..Len(s) => k \in Own(r, s)
  BY Concat DEF Own
<1>3. \A k \in Own(r, s \o t) : k \in Nat /\ k > 0
  BY Concat DEF Own
<1> SUFFICES ASSUME NEW i \in Own(r, s), NEW j \in Own(r, s), i < j,
                    \A k \in Own(r, s) : ~ (i < k /\ k < j)
             PROVE  s[j].no = s[i].no + 1
  BY DEF Consecutive
<1>4. \A k \in Own(r, s \o t) : ~ (i < k /\ k < j)
  BY <1>1, <1>2, <1>3
<1> QED BY <1>1, <1>4 DEF Consecutive

LEMMA NoneOwn ==
    ASSUME NEW s, NEW r, Own(r, s) = {}
    PROVE  Consecutive(r, s) /\ \A n \in Nat : EndsAt(r, s, n)
BY DEF Consecutive, EndsAt

(* The first event moves from the channel to the response. *)
LEMMA HandedOver ==
    ASSUME NEW E, NEW s \in Seq(E), NEW t \in Seq(E), t # <<>>
    PROVE  /\ Head(t) \in E /\ Tail(t) \in Seq(E) /\ Head(t) = t[1] /\ Len(t) > 0
           /\ Len(Tail(t)) = Len(t) - 1
           /\ \A i \in 1..(Len(t) - 1) : Tail(t)[i] = t[i + 1]
           /\ (s \o <<Head(t)>>) \o Tail(t) = s \o t
<1>1. Head(t) \in E /\ Tail(t) \in Seq(E) /\ Head(t) = t[1] /\ Len(t) > 0
      /\ Len(Tail(t)) = Len(t) - 1 /\ \A i \in 1..(Len(t) - 1) : Tail(t)[i] = t[i + 1]
  OBVIOUS
<1> DEFINE u == (s \o <<Head(t)>>) \o Tail(t)
           v == s \o t
<1>2. u \in Seq(E) /\ v \in Seq(E) /\ Len(u) = Len(v)
  BY <1>1
<1>3. \A i \in 1..Len(v) : u[i] = v[i]
  BY <1>1
<1> HIDE DEF u, v
<1>4. u = v
  BY <1>2, <1>3, SeqEqual
<1> QED BY <1>1, <1>4 DEF u, v

LEMMA ConcatAppend ==
    ASSUME NEW E, NEW s \in Seq(E), NEW t \in Seq(E), NEW e \in E
    PROVE  s \o Append(t, e) = Append(s \o t, e)
OBVIOUS

(* What a set is listed as. *)
LEMMA Listing ==
    ASSUME NEW S, IsFiniteSet(S)
    PROVE  /\ SetToSeq(S) \in Seq(S)
           /\ \A i, j \in 1..Len(SetToSeq(S)) : SetToSeq(S)[i] = SetToSeq(S)[j] => i = j
<1>1. Cardinality(S) \in Nat /\ ExistsBijection(1..Cardinality(S), S)
  BY FS_CardinalityType
<1>2. \E f \in [1..Cardinality(S) -> S] : IsInjective(f)
  BY <1>1 DEF ExistsBijection, Bijection, Injection
<1>3. SetToSeq(S) \in [1..Cardinality(S) -> S] /\ IsInjective(SetToSeq(S))
  BY <1>2 DEF SetToSeq
<1>4. SetToSeq(S) \in Seq(S) /\ Len(SetToSeq(S)) = Cardinality(S)
  BY <1>1, <1>3
<1> QED BY <1>3, <1>4 DEF IsInjective

-----------------------------------------------------------------------------
(* Types. *)

LEMMA SetupType ==
    ASSUME PredTypeOK
    PROVE  /\ setup.mode \in {"server", "queue"} /\ setup.tokens \in Nat /\ setup.crashes \in Nat
           /\ setup.requests \subseteq Requests /\ setup.workers \subseteq Workers
BY PredictionAssumption DEF PredTypeOK, PredictionSetups

LEMMA NoneIsNobody ==
    ASSUME NEW r \in Requests PROVE r # None /\ ChatOf[r] \in Chats
BY PredictionAssumption DEF Chats

LEMMA EventType ==
    /\ \A r \in Requests, n \in 1..setup.tokens : Token(r, n) \in Events
    /\ \A name \in {"metadata", "error", "end"} : Event(name) \in Events
    /\ \A name \in {"metadata", "error"} : <<Event(name), Event("end")>> \in Seq(Events)
<1>1. \A r \in Requests, n \in 1..setup.tokens : Token(r, n) \in Events
  BY DEF Events
<1>2. \A name \in {"metadata", "error", "end"} : Event(name) \in Events
  BY DEF Events
<1>3. \A a \in Events, b \in Events : <<a, b>> \in Seq(Events)
  OBVIOUS
<1> QED BY <1>1, <1>2, <1>3

(* A token is of a request, other events are of none. *)
LEMMA EventKinds ==
    ASSUME NEW e \in Events
    PROVE  e.event = "token" => e.run \in Requests
BY DEF Events, Token, Event

(* What is written to a chat goes to one response. *)
LEMMA Written ==
    ASSUME PredTypeOK, NEW c \in Chats, NEW es \in Seq(Events), Write(c, es)
    PROVE  /\ response' \in [Requests -> Seq(Events)]
           /\ \A r \in Requests :
                 response'[r] = IF client[c] = r THEN response[r] \o es ELSE response[r]
<1>1. response \in [Requests -> Seq(Events)] /\ client[c] \in Requests \cup {None}
  BY DEF PredTypeOK
<1>2. CASE client[c] = None
  BY <1>1, <1>2, NoneIsNobody DEF Write
<1>3. CASE client[c] # None
  <2>1. response' = [response EXCEPT ![client[c]] = @ \o es]
    BY <1>3 DEF Write
  <2>2. response[client[c]] \o es \in Seq(Events)
    BY <1>1, <1>3
  <2> QED BY <1>1, <2>1, <2>2
<1> QED BY <1>2, <1>3

(* What the end of a request does to the responses. *)
LEMMA Responded ==
    ASSUME PredTypeOK, NEW r \in Requests, NEW name \in {"metadata", "error"}, Respond(r, name)
    PROVE  LET c == ChatOf[r]
           IN  /\ response' \in [Requests -> Seq(Events)]
               /\ client' \in [Chats -> Requests \cup {None}]
               /\ phase' = [phase EXCEPT ![r] = "done"]
               /\ \A s \in Requests :
                     response'[s] = IF r \in streams /\ client[c] = s
                                    THEN response[s] \o <<Event(name), Event("end")>>
                                    ELSE response[s]
               /\ client' = IF r \in streams THEN [client EXCEPT ![c] = None] ELSE client
<1> DEFINE c == ChatOf[r]
           es == <<Event(name), Event("end")>>
<1>1. es \in Seq(Events) /\ c \in Chats
  BY EventType, NoneIsNobody
<1>2. CASE r \in streams
  <2>1. Write(c, es) /\ client' = [client EXCEPT ![c] = None]
    BY <1>2 DEF Respond, RemoveClient, Drop
  <2> HIDE DEF c, es
  <2>2. /\ response' \in [Requests -> Seq(Events)]
        /\ \A s \in Requests :
              response'[s] = IF client[c] = s THEN response[s] \o es ELSE response[s]
    BY <1>1, <2>1, Written
  <2>3. client' \in [Chats -> Requests \cup {None}]
    BY <2>1 DEF PredTypeOK
  <2> QED BY <1>2, <2>1, <2>2, <2>3 DEF Respond, c, es
<1>3. CASE r \notin streams
  BY <1>3 DEF Respond, PredTypeOK
<1> QED BY <1>2, <1>3

(* The three ways a request ends. *)
RequestEnds(r) == Refuse(r) \/ RunEnds(r) \/ ResultArrives(r)

LEMMA Ending ==
    ASSUME PredTypeOK, NEW r \in Requests, RequestEnds(r)
    PROVE  /\ \E name \in {"metadata", "error"} : Respond(r, name)
           /\ pool' \in {pool, Drop(pool, ChatOf[r])}
           /\ phase[r] = "running" => pool' = Drop(pool, ChatOf[r])
           /\ phase[r] \in Open /\ phase' = [phase EXCEPT ![r] = "done"]
           /\ UNCHANGED <<setup, aborted, emitted, streams, lone, queueVars>>
BY DEF RequestEnds, Refuse, RunEnds, ResultArrives, Ends, Respond, PredTypeOK, Open

LEMMA InitType == PredInit => PredTypeOK
<1> SUFFICES ASSUME PredInit PROVE PredTypeOK
  OBVIOUS
<1>1. setup \in Setups
  BY DEF PredInit
<1>2. setup.tokens \in Nat /\ setup.crashes \in Nat
  BY <1>1, PredictionAssumption DEF PredictionSetups
<1>3. <<>> \in Seq(Events) /\ <<>> \in Seq(Requests)
  OBVIOUS
<1> QED BY <1>1, <1>2, <1>3 DEF PredInit, PredTypeOK

(* A run that may send a token has not sent all.                           *)
LEMMA OneMore ==
    ASSUME PredTypeOK, NEW r \in Requests, Streaming(r)
    PROVE  emitted[r] + 1 \in 1..setup.tokens
<1>1. emitted[r] \in 0..setup.tokens /\ setup.tokens \in Nat
  BY SetupType DEF PredTypeOK
<1>2. emitted[r] < setup.tokens
  BY DEF Streaming
<1> QED BY <1>1, <1>2

LEMMA TypeStep ==
    ASSUME PredTypeOK, JobInv, [PredNext]_predVars
    PROVE  PredTypeOK'
<1> USE SetupType, NoneIsNobody
<1>0. setup' = setup => Events' = Events
  BY DEF Events
<1>1. ASSUME NEW r \in Requests, NEW streaming \in BOOLEAN, Arrive(r, streaming)
      PROVE  PredTypeOK'
  <2>1. subscribed' \in [Chats -> {"no", "pending", "yes"}]
    BY <1>1 DEF Arrive, Subscribe, PredTypeOK
  <2>2. client' \in [Chats -> Requests \cup {None}]
    BY <1>1 DEF Arrive, PredTypeOK
  <2>3. /\ phase' \in [Requests -> Open \cup {"idle", "done"}]
        /\ streams' \subseteq Requests /\ lone' \subseteq Requests
    BY <1>1 DEF Arrive, PredTypeOK, Open
  <2> QED BY <1>0, <1>1, <2>1, <2>2, <2>3 DEF Arrive, PredTypeOK
<1>2. ASSUME NEW r \in Requests, NEW name \in {"metadata", "error"}, Respond(r, name),
             pool' \in {pool, Drop(pool, ChatOf[r])},
             UNCHANGED <<setup, aborted, emitted, streams, lone, queueVars>>
      PROVE  PredTypeOK'
  <2>1. /\ response' \in [Requests -> Seq(Events)]
        /\ client' \in [Chats -> Requests \cup {None}]
        /\ phase' = [phase EXCEPT ![r] = "done"]
    BY <1>2, Responded
  <2>2. pool' \in [Chats -> Requests \cup {None}]
    BY <1>2 DEF Drop, PredTypeOK
  <2> QED BY <1>0, <1>2, <2>1, <2>2 DEF PredTypeOK, queueVars
<1>3. ASSUME NEW r \in Requests, Start(r) PROVE PredTypeOK'
  <2>1. pool' \in [Chats -> Requests \cup {None}]
    BY <1>3 DEF Start, Register, PredTypeOK
  <2>2. jobs' \in Seq(Requests)
    <3>1. jobs' = Append(jobs, r) \/ jobs' = jobs
      BY <1>3 DEF Start
    <3>2. jobs \in Seq(Requests)
      BY DEF PredTypeOK
    <3>3. Append(jobs, r) \in Seq(Requests)
      BY ONLY <3>2, AppendProperties, r \in Requests
    <3> QED BY ONLY <3>1, <3>2, <3>3
  <2> QED BY <1>0, <1>3, <2>1, <2>2 DEF Start, PredTypeOK, Open
<1>4. ASSUME NEW r \in Requests, Emit(r) PROVE PredTypeOK'
  <2>1. emitted[r] + 1 \in 1..setup.tokens
    BY <1>4, OneMore DEF Emit
  <2>2. <<Token(r, emitted[r] + 1)>> \in Seq(Events)
    BY <2>1, EventType
  <2>3. response' \in [Requests -> Seq(Events)]
    BY <1>4, <2>2, Written DEF Emit
  <2>4. emitted' \in [Requests -> 0..setup.tokens]
    BY <1>4, <2>1 DEF Emit, PredTypeOK
  <2> QED BY <1>0, <1>4, <2>3, <2>4 DEF Emit, PredTypeOK, queueVars
<1>5. ASSUME NEW r \in Requests, Publish(r) PROVE PredTypeOK'
  <2>1. emitted[r] + 1 \in 1..setup.tokens
    BY <1>5, OneMore DEF Publish
  <2>2. Token(r, emitted[r] + 1) \in Events
    BY <2>1, EventType
  <2>3. channel' \in [Chats -> Seq(Events)]
    BY <1>5, <2>2 DEF Publish, PredTypeOK
  <2>4. emitted' \in [Requests -> 0..setup.tokens]
    BY <1>5, <2>1 DEF Publish, PredTypeOK
  <2> QED BY <1>0, <1>5, <2>3, <2>4 DEF Publish, PredTypeOK, serverVars
<1>6. ASSUME NEW r \in Requests, JobEnds(r) PROVE PredTypeOK'
  BY <1>0, <1>6 DEF JobEnds, Ends, PredTypeOK, serverVars
<1>7. ASSUME NEW w \in Workers, TakeJob(w) PROVE PredTypeOK'
  <2>1. Head(jobs) \in Requests /\ Tail(jobs) \in Seq(Requests)
    BY <1>7 DEF TakeJob, PredTypeOK
  <2>2. /\ at' \in [Requests -> Workers \cup {None}]
        /\ wpool' \in [Workers -> [Chats -> Requests \cup {None}]]
    BY <1>7, <2>1 DEF TakeJob, PredTypeOK
  <2>3. emitted' \in [Requests -> 0..setup.tokens] /\ aborted' \subseteq Requests
    <3>1. emitted' = [emitted EXCEPT ![Head(jobs)] = 0] /\ aborted' = aborted \ {Head(jobs)}
      BY <1>7 DEF TakeJob
    <3>2. 0 \in 0..setup.tokens
      OBVIOUS
    <3> QED BY <3>1, <3>2 DEF PredTypeOK
  <2> QED BY <1>0, <1>7, <2>1, <2>2, <2>3 DEF TakeJob, PredTypeOK, serverVars
<1>8. ASSUME NEW w \in Workers, Crash(w) PROVE PredTypeOK'
  <2> DEFINE mine == {r \in Requests : at[r] = w}
  <2>1. IsFiniteSet(mine)
    <3>1. w # None
      BY PredictionAssumption
    <3>2. mine \subseteq {r \in Requests : phase[r] # "idle"}
      BY <3>1 DEF JobInv
    <3> QED BY <3>2, FS_Subset DEF JobInv
  <2>2. SetToSeq(mine) \in Seq(mine) /\ mine \subseteq Requests
    BY <2>1, Listing
  <2> HIDE DEF mine
  <2>3. SetToSeq(mine) \in Seq(Requests)
    BY <2>2
  <2>4. jobs' = jobs \o SetToSeq(mine)
    BY <1>8 DEF Crash, mine
  <2>5. jobs' \in Seq(Requests)
    BY <2>3, <2>4 DEF PredTypeOK
  <2>6. at' \in [Requests -> Workers \cup {None}]
    BY <1>8 DEF Crash, PredTypeOK
  <2>7. /\ wpool' \in [Workers -> [Chats -> Requests \cup {None}]]
        /\ signals' \in [Workers -> SUBSET Chats]
    BY <1>8 DEF Crash, PredTypeOK
  <2>8. crashes' \in 0..setup.crashes /\ rerun' \subseteq Requests
    BY <1>8 DEF Crash, PredTypeOK
  <2> QED BY <1>0, <1>8, <2>5, <2>6, <2>7, <2>8 DEF Crash, PredTypeOK, serverVars
<1>9. ASSUME NEW w \in Workers, NEW c \in Chats, HandleAbort(w, c) PROVE PredTypeOK'
  <2>1. /\ signals' \in [Workers -> SUBSET Chats] /\ aborted' \subseteq Requests
        /\ wpool' \in [Workers -> [Chats -> Requests \cup {None}]]
    BY <1>9 DEF HandleAbort, Drop, PredTypeOK
  <2> QED BY <1>0, <1>9, <2>1 DEF HandleAbort, PredTypeOK, serverVars
<1>10. ASSUME NEW c \in Chats, Subscribed(c) PROVE PredTypeOK'
  BY <1>0, <1>10 DEF Subscribed, PredTypeOK, serverVars
<1>11. ASSUME NEW c \in Chats, Deliver(c) PROVE PredTypeOK'
  <2>1. Head(channel[c]) \in Events /\ Tail(channel[c]) \in Seq(Events)
    BY <1>11 DEF Deliver, PredTypeOK
  <2>2. <<Head(channel[c])>> \in Seq(Events)
    BY <2>1
  <2>3. response' \in [Requests -> Seq(Events)]
    BY <1>11, <2>2, Written DEF Deliver
  <2>4. channel' \in [Chats -> Seq(Events)]
    BY <1>11, <2>1 DEF Deliver, PredTypeOK
  <2> QED BY <1>0, <1>11, <2>3, <2>4 DEF Deliver, PredTypeOK
<1>12. ASSUME NEW c \in Chats, Abort(c) PROVE PredTypeOK'
  <2>1. signals' \in [Workers -> SUBSET Chats]
    <3>1. signals' = signals \/
          signals' = [w \in Workers |-> IF w \in setup.workers THEN signals[w] \cup {c} ELSE {}]
      BY <1>12 DEF Abort
    <3>2. signals \in [Workers -> SUBSET Chats]
      BY DEF PredTypeOK
    <3>3. [w \in Workers |-> IF w \in setup.workers THEN signals[w] \cup {c} ELSE {}]
            \in [Workers -> SUBSET Chats]
      BY <3>2
    <3> QED BY <3>1, <3>2, <3>3
  <2>2. aborted' \subseteq Requests
    BY <1>12 DEF Abort, PredTypeOK
  <2>3. pool' \in [Chats -> Requests \cup {None}]
    BY <1>12 DEF Abort, Drop, PredTypeOK
  <2> QED BY <1>0, <1>12, <2>1, <2>2, <2>3 DEF Abort, PredTypeOK
<1>13. ASSUME UNCHANGED predVars PROVE PredTypeOK'
  BY <1>0, <1>13 DEF PredTypeOK, predVars, serverVars, queueVars
<1>14. ASSUME NEW r \in Requests, RequestEnds(r) PROVE PredTypeOK'
  BY <1>2, <1>14, Ending
<1> QED
  BY <1>1, <1>3, <1>4, <1>5, <1>6, <1>7, <1>8, <1>9, <1>10, <1>11, <1>12, <1>13, <1>14
  DEF PredNext, RequestEnds

-----------------------------------------------------------------------------
(* Jobs. *)

LEMMA InitRest == PredInit => PredInv
<1> SUFFICES ASSUME PredInit PROVE PredInv
  OBVIOUS
<1>1. PredTypeOK
  BY InitType
<1>2. ModeInv
  BY DEF PredInit, ModeInv
<1>3. JobInv
  <2>1. {r \in Requests : phase[r] # "idle"} = {}
    BY DEF PredInit
  <2>2. IsFiniteSet({r \in Requests : phase[r] # "idle"})
    BY <2>1, FS_EmptySet
  <2>3. jobs = <<>> /\ \A r \in Requests : ~ Queued(r)
    BY DEF PredInit, Queued
  <2> QED BY <2>2, <2>3 DEF PredInit, JobInv
<1>4. ChatInv /\ FreshInv /\ AbortFindsRun /\ ChannelInv
  BY NoneIsNobody DEF PredInit, ChatInv, FreshInv, AbortFindsRun, ChannelInv, Open
<1>5. ResponseInv /\ AloneInv
  BY NoneIsNobody DEF PredInit, ResponseInv, AloneInv
<1>6. OrderInv
  <2>1. ASSUME NEW r \in Requests PROVE Consecutive(r, response[r]) /\ client[ChatOf[r]] # r
    BY NoneIsNobody DEF PredInit, Consecutive, Own
  <2> QED BY <2>1 DEF OrderInv
<1> QED BY <1>1, <1>2, <1>3, <1>4, <1>5, <1>6 DEF PredInv

LEMMA SomeStep ==
    ASSUME [PredNext]_predVars
    PROVE  \/ \E r \in Requests :
                 \/ \E streaming \in BOOLEAN : Arrive(r, streaming)
                 \/ RequestEnds(r) \/ Start(r) \/ Emit(r) \/ Publish(r) \/ JobEnds(r)
           \/ \E w \in Workers :
                 TakeJob(w) \/ Crash(w) \/ \E c \in Chats : HandleAbort(w, c)
           \/ \E c \in Chats : Subscribed(c) \/ Deliver(c) \/ Abort(c)
           \/ UNCHANGED predVars
BY DEF PredNext, RequestEnds

LEMMA JobStep ==
    ASSUME PredTypeOK, ModeInv, JobInv, [PredNext]_predVars
    PROVE  JobInv'
<1> USE NoneIsNobody DEF Queued
<1> DEFINE busy == {r \in Requests : phase[r] # "idle"}
<1>1. ASSUME UNCHANGED <<phase, jobs, at, results, emitted, rerun>> PROVE JobInv'
  BY <1>1 DEF JobInv
<1>2. ASSUME NEW r \in Requests, NEW streaming \in BOOLEAN, Arrive(r, streaming) PROVE JobInv'
  <2>1. phase' = [phase EXCEPT ![r] = "checking"] /\ phase[r] = "idle"
        /\ UNCHANGED <<jobs, at, results, emitted, rerun>>
    BY <1>2 DEF Arrive
  <2>2. IsFiniteSet(busy')
    <3>1. busy' = busy \cup {r}
      BY <2>1 DEF PredTypeOK
    <3>2. IsFiniteSet(busy)
      BY DEF JobInv
    <3> HIDE DEF busy
    <3> QED BY <3>1, <3>2, FS_AddElement
  <2> QED BY <2>1, <2>2 DEF JobInv, PredTypeOK
<1>3. ASSUME NEW r \in Requests, RequestEnds(r) PROVE JobInv'
  <2>1. phase' = [phase EXCEPT ![r] = "done"] /\ phase[r] \in Open
        /\ UNCHANGED <<jobs, at, results, emitted, rerun>>
    BY <1>3, Ending DEF queueVars
  <2>2. phase[r] = "running" => ~ Queued(r) /\ at[r] = None
    BY <1>3 DEF RequestEnds, Refuse, RunEnds, ResultArrives, ModeInv, JobInv
  <2>3. IsFiniteSet(busy')
    <3>1. busy' = busy
      BY <2>1 DEF PredTypeOK, Open
    <3> QED BY <3>1 DEF JobInv
  <2>4. ~ Queued(r) /\ at[r] = None
    BY <2>1, <2>2 DEF JobInv, Open
  <2> HIDE DEF Queued
  <2>5. \A s \in Requests : Queued(s)' <=> Queued(s)
    BY <2>1 DEF Queued
  <2> QED BY <2>1, <2>3, <2>4, <2>5 DEF JobInv, PredTypeOK
<1>4. ASSUME NEW r \in Requests, Start(r) PROVE JobInv'
  <2>1. /\ phase' = [phase EXCEPT ![r] = "running"] /\ phase[r] = "checking"
        /\ jobs' = Append(jobs, r) \/ jobs' = jobs
        /\ UNCHANGED <<at, results, emitted, rerun>>
    BY <1>4 DEF Start
  <2>2. IsFiniteSet(busy')
    <3>1. busy' = busy
      BY <2>1 DEF PredTypeOK
    <3> QED BY <3>1 DEF JobInv
  <2>3. ~ Queued(r) /\ at[r] = None /\ emitted[r] = 0 /\ results[r] = None
    BY <2>1 DEF JobInv
  <2>4. /\ \A s \in Requests : Queued(s)' => Queued(s) \/ s = r
        /\ \A i, j \in 1..Len(jobs') : jobs'[i] = jobs'[j] => i = j
    <3>1. CASE jobs' = jobs
      BY <3>1 DEF JobInv
    <3>2. CASE jobs' = Append(jobs, r)
      <4>1. /\ Len(jobs) \in Nat /\ Len(jobs') = Len(jobs) + 1
            /\ jobs'[Len(jobs) + 1] = r
            /\ \A i \in 1..Len(jobs) : jobs'[i] = jobs[i]
        BY <3>2, AppendProperties DEF PredTypeOK
      <4>2. \A i \in 1..Len(jobs') : i \in 1..Len(jobs) \/ i = Len(jobs) + 1
        BY <4>1
      <4>3. \A i \in 1..Len(jobs) : jobs'[i] # r
        BY <2>3, <4>1
      <4> QED BY <4>1, <4>2, <4>3 DEF JobInv
    <3> QED BY <2>1, <3>1, <3>2
  <2> HIDE DEF Queued
  <2> QED BY <2>1, <2>2, <2>3, <2>4 DEF JobInv, PredTypeOK
<1>5. ASSUME NEW r \in Requests, Emit(r) \/ Publish(r) PROVE JobInv'
  <2>1. /\ phase[r] = "running" /\ emitted' = [emitted EXCEPT ![r] = @ + 1]
        /\ UNCHANGED <<phase, jobs, at, results, rerun>>
    BY <1>5 DEF Emit, Publish, JobInv, serverVars, queueVars
  <2>2. ~ Queued(r)
    BY <1>5 DEF Emit, Publish, JobInv, ModeInv
  <2> HIDE DEF Queued
  <2>3. \A s \in Requests : Queued(s)' <=> Queued(s)
    BY <2>1 DEF Queued
  <2> QED BY <2>1, <2>2, <2>3 DEF JobInv, PredTypeOK
<1>6. ASSUME NEW r \in Requests, JobEnds(r) PROVE JobInv'
  <2>1. /\ at[r] # None /\ at' = [at EXCEPT ![r] = None]
        /\ \E event \in {"metadata", "error"} : results' = [results EXCEPT ![r] = event]
        /\ UNCHANGED <<phase, jobs, emitted, rerun>>
    BY <1>6 DEF JobEnds, Ends, serverVars
  <2>2. ~ Queued(r) /\ phase[r] = "running"
    BY <2>1 DEF JobInv
  <2> HIDE DEF Queued
  <2>3. \A s \in Requests : Queued(s)' <=> Queued(s)
    BY <2>1 DEF Queued
  <2> QED BY <2>1, <2>2, <2>3 DEF JobInv, PredTypeOK
<1>7. ASSUME NEW w \in Workers, TakeJob(w) PROVE JobInv'
  <2> DEFINE r == Head(jobs)
  <2>1. /\ jobs # <<>> /\ jobs \in Seq(Requests)
        /\ jobs' = Tail(jobs) /\ at' = [at EXCEPT ![r] = w]
        /\ emitted' = [emitted EXCEPT ![r] = 0]
        /\ UNCHANGED <<phase, results, rerun>>
    BY <1>7 DEF TakeJob, PredTypeOK, serverVars
  <2>2. /\ r \in Requests /\ r = jobs[1] /\ Len(jobs) > 0
        /\ Len(jobs') = Len(jobs) - 1
        /\ \A i \in 1..Len(jobs') : jobs'[i] = jobs[i + 1] /\ i + 1 \in 1..Len(jobs)
    BY <2>1
  <2> HIDE DEF r
  <2>3. \A s \in Requests : Queued(s)' => Queued(s) /\ s # r
    BY <2>2 DEF JobInv
  <2>4. \A i, j \in 1..Len(jobs') : jobs'[i] = jobs'[j] => i = j
    BY <2>2 DEF JobInv
  <2>5. Queued(r)
    BY <2>2
  <2> HIDE DEF Queued
  <2>6. phase[r] = "running" /\ results[r] = None
    BY <2>2, <2>5 DEF JobInv
  <2> QED BY <2>1, <2>2, <2>3, <2>4, <2>6 DEF JobInv, PredTypeOK
<1>8. ASSUME NEW w \in Workers, Crash(w) PROVE JobInv'
  <2> DEFINE mine == {r \in Requests : at[r] = w}
             q == SetToSeq(mine)
  <2>1. /\ jobs' = jobs \o q /\ rerun' = rerun \cup mine
        /\ at' = [r \in Requests |-> IF r \in mine THEN None ELSE at[r]]
        /\ UNCHANGED <<phase, results, emitted>>
    BY <1>8 DEF Crash, serverVars
  <2>2. w # None
    BY PredictionAssumption
  <2>3. \A r \in mine : ~ Queued(r) /\ phase[r] = "running" /\ results[r] = None
    BY <2>2 DEF JobInv
  <2>4. IsFiniteSet(mine)
    <3>1. mine \subseteq busy
      BY <2>3
    <3> QED BY <3>1, FS_Subset DEF JobInv
  <2> HIDE DEF mine
  <2>5. q \in Seq(mine) /\ \A i, j \in 1..Len(q) : q[i] = q[j] => i = j
    BY <2>4, Listing
  <2> HIDE DEF q
  <2>6. mine \subseteq Requests /\ jobs \in Seq(Requests) /\ q \in Seq(Requests)
    BY <2>5 DEF mine, PredTypeOK
  <2>7. /\ Len(jobs') = Len(jobs) + Len(q)
        /\ \A i \in 1..Len(jobs) : jobs'[i] = jobs[i]
        /\ \A i \in 1..Len(jobs') : i > Len(jobs) =>
              i - Len(jobs) \in 1..Len(q) /\ jobs'[i] = q[i - Len(jobs)]
    BY <2>1, <2>6, Concat
  <2>8. Len(jobs) \in Nat /\ Len(q) \in Nat /\ \A i \in 1..Len(q) : q[i] \in mine
    BY <2>5, <2>6
  <2>9. \A s \in Requests : Queued(s)' => Queued(s) \/ s \in mine
    BY <2>7, <2>8
  <2>10. \A i, j \in 1..Len(jobs') : jobs'[i] = jobs'[j] => i = j
    <3> SUFFICES ASSUME NEW i \in 1..Len(jobs'), NEW j \in 1..Len(jobs'), jobs'[i] = jobs'[j]
                 PROVE  i = j
      OBVIOUS
    <3>1. CASE i <= Len(jobs) /\ j <= Len(jobs)
      BY <2>7, <2>8, <3>1 DEF JobInv
    <3>2. CASE i > Len(jobs) /\ j > Len(jobs)
      <4> DEFINE a == i - Len(jobs)
                 b == j - Len(jobs)
      <4>1. a \in 1..Len(q) /\ b \in 1..Len(q) /\ q[a] = q[b]
        BY <2>7, <3>2
      <4>2. a = b
        BY <2>5, <4>1
      <4> QED BY <2>8, <4>2
    <3>3. CASE i <= Len(jobs) /\ j > Len(jobs)
      BY <2>3, <2>7, <2>8, <3>3
    <3>4. CASE i > Len(jobs) /\ j <= Len(jobs)
      BY <2>3, <2>7, <2>8, <3>4
    <3> QED BY <2>7, <2>8, <3>1, <3>2, <3>3, <3>4
  <2> HIDE DEF Queued
  <2> QED BY <2>1, <2>3, <2>9, <2>10, <2>6 DEF JobInv, PredTypeOK
<1>9. ASSUME NEW w \in Workers, NEW c \in Chats, HandleAbort(w, c) PROVE JobInv'
  BY <1>1, <1>9 DEF HandleAbort, serverVars
<1>10. ASSUME NEW c \in Chats, Subscribed(c) \/ Deliver(c) \/ Abort(c) PROVE JobInv'
  BY <1>1, <1>10 DEF Subscribed, Deliver, Abort, serverVars
<1>11. ASSUME UNCHANGED predVars PROVE JobInv'
  BY <1>1, <1>11 DEF predVars, serverVars, queueVars
<1> QED
  BY <1>2, <1>3, <1>4, <1>5, <1>6, <1>7, <1>8, <1>9, <1>10, <1>11, SomeStep

LEMMA ModeStep ==
    ASSUME PredTypeOK, ModeInv, [PredNext]_predVars
    PROVE  ModeInv'
<1> USE SetupType, NoneIsNobody DEF ModeInv
<1>1. ASSUME NEW r \in Requests, NEW streaming \in BOOLEAN, Arrive(r, streaming) PROVE ModeInv'
  BY <1>1 DEF Arrive
<1>2. ASSUME NEW r \in Requests, RequestEnds(r) PROVE ModeInv'
  <2>1. /\ pool' \in {pool, Drop(pool, ChatOf[r])}
        /\ UNCHANGED <<setup, jobs, at, results, channel, signals>>
    BY <1>2, Ending DEF queueVars
  <2>2. \A c \in Chats : pool[c] = None => pool'[c] = None
    BY <2>1 DEF Drop, PredTypeOK
  <2> QED BY <2>1, <2>2
<1>3. ASSUME NEW r \in Requests, Start(r) PROVE ModeInv'
  BY <1>3 DEF Start
<1>4. ASSUME NEW r \in Requests, Emit(r) PROVE ModeInv'
  BY <1>4 DEF Emit, queueVars
<1>5. ASSUME NEW r \in Requests, Publish(r) PROVE ModeInv'
  BY <1>5 DEF Publish, serverVars
<1>6. ASSUME NEW r \in Requests, JobEnds(r) PROVE ModeInv'
  BY <1>6 DEF JobEnds, serverVars
<1>7. ASSUME NEW w \in Workers, TakeJob(w) PROVE ModeInv'
  BY <1>7 DEF TakeJob, serverVars
<1>8. ASSUME NEW w \in Workers, Crash(w) PROVE ModeInv'
  <2> DEFINE mine == {r \in Requests : at[r] = w}
  <2>1. w # None
    BY PredictionAssumption
  <2>2. /\ UNCHANGED <<setup, results, channel, pool>>
        /\ jobs' = jobs \o SetToSeq(mine)
        /\ \A r \in Requests : at'[r] \in {None, at[r]}
        /\ signals' = [signals EXCEPT ![w] = {}]
    BY <1>8 DEF Crash, serverVars
  <2>3. CASE setup.mode = "server"
    <3>1. mine = {}
      BY <2>1, <2>3
    <3> HIDE DEF mine
    <3>2. SetToSeq(mine) \in Seq({})
      BY <3>1, FS_EmptySet, Listing
    <3>3. jobs' = <<>>
      <4>1. SetToSeq(mine) = <<>>
        BY <3>2
      <4> QED BY <2>2, <2>3, <4>1
    <3> QED BY <2>2, <2>3, <3>3 DEF PredTypeOK
  <2>4. CASE setup.mode = "queue"
    BY <2>2, <2>4
  <2> QED BY <2>3, <2>4
<1>9. ASSUME NEW w \in Workers, NEW c \in Chats, HandleAbort(w, c) PROVE ModeInv'
  BY <1>9 DEF HandleAbort, serverVars, PredTypeOK
<1>10. ASSUME NEW c \in Chats, Subscribed(c) PROVE ModeInv'
  BY <1>10 DEF Subscribed, serverVars
<1>11. ASSUME NEW c \in Chats, Deliver(c) PROVE ModeInv'
  BY <1>11 DEF Deliver
<1>12. ASSUME NEW c \in Chats, Abort(c) PROVE ModeInv'
  BY <1>12 DEF Abort, Drop, PredTypeOK
<1>13. ASSUME UNCHANGED predVars PROVE ModeInv'
  BY <1>13 DEF predVars, serverVars, queueVars
<1> QED
  BY <1>1, <1>2, <1>3, <1>4, <1>5, <1>6, <1>7, <1>8, <1>9, <1>10, <1>11, <1>12, <1>13, SomeStep

-----------------------------------------------------------------------------
(* Chats, controllers and aborts. *)

LEMMA ChatStep ==
    ASSUME PredTypeOK, ModeInv, ChatInv, [PredNext]_predVars
    PROVE  ChatInv'
<1> USE NoneIsNobody DEF ChatInv
<1>1. ASSUME UNCHANGED <<phase, lone, client, streams>>,
             pool' = pool \/ \E c \in Chats : pool' = Drop(pool, c)
      PROVE  ChatInv'
  BY <1>1 DEF Drop, PredTypeOK
<1>2. ASSUME NEW r \in Requests, NEW streaming \in BOOLEAN, Arrive(r, streaming) PROVE ChatInv'
  <2> DEFINE c == ChatOf[r]
             rivals == {s \in Requests : ChatOf[s] = c /\ phase[s] \in Open}
  <2>1. /\ phase' = [phase EXCEPT ![r] = "checking"] /\ phase[r] = "idle" /\ pool' = pool
        /\ client' = client \/ client' = [client EXCEPT ![c] = r]
        /\ streams \subseteq streams' /\ (client' # client => r \in streams')
        /\ lone' = IF rivals = {} THEN lone ELSE lone \ (rivals \cup {r})
    BY <1>2 DEF Arrive
  <2>2. \A s \in Requests : phase'[s] \in Open <=> phase[s] \in Open \/ s = r
    BY <2>1 DEF PredTypeOK, Open
  <2>3. ASSUME NEW s \in lone', NEW t \in Requests,
               phase'[s] \in Open, phase'[t] \in Open, ChatOf[t] = ChatOf[s]
        PROVE  t = s
    BY <2>1, <2>2, <2>3 DEF PredTypeOK
  <2>4. ASSUME NEW d \in Chats, client'[d] # None
        PROVE  ChatOf[client'[d]] = d /\ phase'[client'[d]] \in Open /\ client'[d] \in streams'
    BY <2>1, <2>2, <2>4 DEF PredTypeOK
  <2>5. \A d \in Chats : pool'[d] # None => ChatOf[pool'[d]] = d
    BY <2>1
  <2> HIDE DEF c, rivals
  <2> QED BY <2>3, <2>4, <2>5
<1>3. ASSUME NEW r \in Requests, RequestEnds(r) PROVE ChatInv'
  <2>1. /\ phase' = [phase EXCEPT ![r] = "done"] /\ lone' = lone
        /\ pool' \in {pool, Drop(pool, ChatOf[r])}
    BY <1>3, Ending
  <2>2. client' = IF r \in streams THEN [client EXCEPT ![ChatOf[r]] = None] ELSE client
    BY <1>3, Ending, Responded
  <2>3. \A c \in Chats : client[c] # None /\ client[c] # r => client'[c] \in {None, client[c]}
    BY <2>2 DEF PredTypeOK
  <2>4. \A c \in Chats : client[c] = None \/ client[c] = r => client'[c] = None
    BY <2>2 DEF PredTypeOK
  <2>5. \A s \in Requests : phase'[s] \in Open <=> phase[s] \in Open /\ s # r
    BY <2>1 DEF PredTypeOK, Open
  <2>6. \A c \in Chats : pool'[c] \in {None, pool[c]}
    BY <2>1 DEF Drop, PredTypeOK
  <2>7. streams' = streams
    BY <1>3, Ending
  <2>8. \A c \in Chats : client'[c] # None =>
            /\ ChatOf[client'[c]] = c /\ phase'[client'[c]] \in Open
            /\ client'[c] \in streams'
    BY <2>3, <2>4, <2>5, <2>7 DEF PredTypeOK
  <2>9. ASSUME NEW s \in lone', NEW t \in Requests,
               phase'[s] \in Open, phase'[t] \in Open, ChatOf[t] = ChatOf[s]
        PROVE  t = s
    BY <2>1, <2>5, <2>9 DEF PredTypeOK
  <2> QED BY <2>6, <2>8, <2>9
<1>4. ASSUME NEW r \in Requests, Start(r) PROVE ChatInv'
  <2>1. \A s \in Requests : phase'[s] \in Open <=> phase[s] \in Open
    BY <1>4 DEF Start, Open, PredTypeOK
  <2>2. UNCHANGED <<lone, client, streams>> /\ (pool' = pool \/ pool' = [pool EXCEPT ![ChatOf[r]] = r])
    BY <1>4 DEF Start, Register
  <2>3. \A c \in Chats : pool'[c] # None => ChatOf[pool'[c]] = c
    BY <2>2 DEF PredTypeOK
  <2>4. \A c \in Chats : client'[c] # None =>
            /\ ChatOf[client'[c]] = c /\ phase'[client'[c]] \in Open
            /\ client'[c] \in streams'
    BY <2>1, <2>2 DEF PredTypeOK
  <2>5. ASSUME NEW s \in lone', NEW t \in Requests,
               phase'[s] \in Open, phase'[t] \in Open, ChatOf[t] = ChatOf[s]
        PROVE  t = s
    BY <2>1, <2>2, <2>5 DEF PredTypeOK
  <2> QED BY <2>3, <2>4, <2>5
<1>5. ASSUME NEW r \in Requests, Emit(r) PROVE ChatInv'
  BY <1>1, <1>5 DEF Emit
<1>6. ASSUME NEW r \in Requests, Publish(r) \/ JobEnds(r) PROVE ChatInv'
  BY <1>1, <1>6 DEF Publish, JobEnds, serverVars
<1>7. ASSUME NEW w \in Workers, TakeJob(w) \/ Crash(w) PROVE ChatInv'
  BY <1>1, <1>7 DEF TakeJob, Crash, serverVars
<1>8. ASSUME NEW w \in Workers, NEW c \in Chats, HandleAbort(w, c) PROVE ChatInv'
  BY <1>1, <1>8 DEF HandleAbort, serverVars
<1>9. ASSUME NEW c \in Chats, Subscribed(c) \/ Deliver(c) \/ Abort(c) PROVE ChatInv'
  BY <1>1, <1>9 DEF Subscribed, Deliver, Abort, serverVars
<1>10. ASSUME UNCHANGED predVars PROVE ChatInv'
  BY <1>1, <1>10 DEF predVars, serverVars
<1> QED
  BY <1>2, <1>3, <1>4, <1>5, <1>6, <1>7, <1>8, <1>9, <1>10, SomeStep

LEMMA FreshStep ==
    ASSUME PredTypeOK, JobInv, FreshInv, AbortFindsRun, [PredNext]_predVars
    PROVE  FreshInv'
<1> USE NoneIsNobody DEF FreshInv
<1>1. ASSUME UNCHANGED <<phase, aborted, wpool>> PROVE FreshInv'
  BY <1>1
<1>2. ASSUME NEW r \in Requests,
             \/ /\ phase[r] = "idle" /\ phase' = [phase EXCEPT ![r] = "checking"]
             \/ \E place \in {"running", "done"} : phase' = [phase EXCEPT ![r] = place],
             UNCHANGED <<aborted, wpool>>
      PROVE  FreshInv'
  BY <1>2 DEF PredTypeOK
<1>3. ASSUME NEW r \in Requests, NEW streaming \in BOOLEAN, Arrive(r, streaming) PROVE FreshInv'
  BY <1>2, <1>3 DEF Arrive
<1>4. ASSUME NEW r \in Requests, RequestEnds(r) PROVE FreshInv'
  BY <1>2, <1>4, Ending DEF queueVars
<1>5. ASSUME NEW r \in Requests, Start(r) PROVE FreshInv'
  BY <1>2, <1>5 DEF Start
<1>6. ASSUME NEW r \in Requests, Emit(r) \/ Publish(r) \/ JobEnds(r) PROVE FreshInv'
  BY <1>1, <1>6 DEF Emit, Publish, JobEnds, serverVars, queueVars
<1>7. ASSUME NEW w \in Workers, TakeJob(w) PROVE FreshInv'
  <2> DEFINE r == Head(jobs)
  <2>1. /\ jobs # <<>> /\ phase' = phase /\ aborted' = aborted \ {r}
        /\ wpool' = [wpool EXCEPT ![w][ChatOf[r]] = r]
    BY <1>7 DEF TakeJob, serverVars
  <2>2. r \in Requests /\ Queued(r)
    BY <2>1 DEF PredTypeOK, Queued
  <2>3. phase[r] = "running"
    BY <2>2 DEF JobInv
  <2> HIDE DEF r
  <2> QED BY <2>1, <2>2, <2>3 DEF PredTypeOK
<1>8. ASSUME NEW w \in Workers, Crash(w) PROVE FreshInv'
  BY <1>8 DEF Crash, serverVars, PredTypeOK
<1>9. ASSUME NEW w \in Workers, NEW c \in Chats, HandleAbort(w, c) PROVE FreshInv'
  BY <1>9 DEF HandleAbort, Drop, serverVars, PredTypeOK
<1>10. ASSUME NEW c \in Chats, Subscribed(c) \/ Deliver(c) PROVE FreshInv'
  BY <1>1, <1>10 DEF Subscribed, Deliver, serverVars
<1>11. ASSUME NEW c \in Chats, Abort(c) PROVE FreshInv'
  <2>1. phase' = phase /\ wpool' = wpool
        /\ (aborted' = aborted \/ (pool[c] # None /\ aborted' = aborted \cup {pool[c]}))
    BY <1>11 DEF Abort
  <2> QED BY <2>1 DEF AbortFindsRun
<1>12. ASSUME UNCHANGED predVars PROVE FreshInv'
  BY <1>1, <1>12 DEF predVars, serverVars, queueVars
<1> QED
  BY <1>3, <1>4, <1>5, <1>6, <1>7, <1>8, <1>9, <1>10, <1>11, <1>12, SomeStep

(* A run that shares its time with nobody is the one in the pool. *)
LEMMA AbortStep ==
    ASSUME PredTypeOK, ModeInv, JobInv, ChatInv, FreshInv, AbortFindsRun, [PredNext]_predVars
    PROVE  AbortFindsRun'
<1> USE NoneIsNobody, SetupType
<1>0. \A r \in lone, s \in Requests :
          phase[r] \in Open /\ phase[s] \in Open /\ ChatOf[s] = ChatOf[r] => s = r
  BY DEF ChatInv
<1>1. ASSUME UNCHANGED <<setup, phase, lone, aborted, pool, at, wpool>> PROVE AbortFindsRun'
  BY <1>1 DEF AbortFindsRun
<1>2. ASSUME NEW r \in Requests, NEW streaming \in BOOLEAN, Arrive(r, streaming)
      PROVE  AbortFindsRun'
  <2>1. /\ phase' = [phase EXCEPT ![r] = "checking"] /\ phase[r] = "idle" /\ lone' \subseteq lone
        /\ UNCHANGED <<setup, aborted, pool, at, wpool>>
    BY <1>2 DEF Arrive
  <2> QED BY <2>1 DEF AbortFindsRun, PredTypeOK
<1>3. ASSUME NEW r \in Requests, RequestEnds(r) PROVE AbortFindsRun'
  <2>1. /\ phase' = [phase EXCEPT ![r] = "done"] /\ phase[r] \in Open
        /\ pool' \in {pool, Drop(pool, ChatOf[r])}
        /\ phase[r] = "running" => pool' = Drop(pool, ChatOf[r])
        /\ UNCHANGED <<setup, lone, aborted, at, wpool>>
    BY <1>3, Ending DEF queueVars
  <2>2. ASSUME NEW s \in lone, phase'[s] = "running", setup.mode = "server", s \notin aborted
        PROVE  pool'[ChatOf[s]] = s
    <3>1. s # r /\ phase[s] = "running" /\ pool[ChatOf[s]] = s
      BY <2>1, <2>2 DEF AbortFindsRun, PredTypeOK
    <3>2. ChatOf[s] # ChatOf[r]
      BY <1>0, <2>1, <3>1 DEF Open, PredTypeOK
    <3> QED BY <2>1, <3>1, <3>2 DEF Drop, PredTypeOK
  <2>3. ASSUME NEW c \in Chats, pool'[c] # None
        PROVE  phase'[pool'[c]] = "running" /\ pool'[c] \notin aborted
    <3>1. pool'[c] = pool[c] /\ phase[pool[c]] = "running" /\ pool[c] \notin aborted
          /\ pool[c] \in Requests
      BY <2>1, <2>3 DEF Drop, AbortFindsRun, PredTypeOK
    <3>2. pool[c] # r
      BY <2>1, <2>3, <3>1 DEF Drop, ChatInv, PredTypeOK
    <3> QED BY <2>1, <3>1, <3>2 DEF PredTypeOK
  <2> QED BY <2>1, <2>2, <2>3 DEF AbortFindsRun
<1>4. ASSUME NEW r \in Requests, Start(r) PROVE AbortFindsRun'
  <2>1. /\ phase' = [phase EXCEPT ![r] = "running"] /\ phase[r] = "checking"
        /\ UNCHANGED <<setup, lone, aborted, at, wpool>>
    BY <1>4 DEF Start
  <2>2. CASE setup.mode = "queue"
    <3>1. pool' = pool
      BY <1>4, <2>2 DEF Start
    <3> QED BY <2>1, <2>2, <3>1 DEF AbortFindsRun, ModeInv, PredTypeOK
  <2>3. CASE setup.mode = "server"
    <3>1. pool' = [pool EXCEPT ![ChatOf[r]] = r]
      BY <1>4, <2>3 DEF Start, Register
    <3>2. ASSUME NEW s \in lone, phase'[s] = "running", s \notin aborted
          PROVE  pool'[ChatOf[s]] = s
      <4>1. CASE s = r
        BY <3>1, <4>1 DEF PredTypeOK
      <4>2. CASE s # r
        <5>1. phase[s] = "running" /\ pool[ChatOf[s]] = s
          BY <2>1, <2>3, <3>2, <4>2 DEF AbortFindsRun, PredTypeOK
        <5>2. ChatOf[s] # ChatOf[r]
          BY <1>0, <2>1, <4>2, <5>1 DEF Open, PredTypeOK
        <5> QED BY <3>1, <5>1, <5>2 DEF PredTypeOK
      <4> QED BY <4>1, <4>2
    <3>3. ASSUME NEW c \in Chats, pool'[c] # None
          PROVE  phase'[pool'[c]] = "running" /\ pool'[c] \notin aborted
      <4>1. CASE c = ChatOf[r]
        BY <2>1, <3>1, <4>1 DEF FreshInv, PredTypeOK
      <4>2. CASE c # ChatOf[r]
        BY <2>1, <3>1, <3>3, <4>2 DEF AbortFindsRun, PredTypeOK
      <4> QED BY <4>1, <4>2
    <3>4. \A s \in lone : at[s] # None /\ s \notin aborted => wpool[at[s]][ChatOf[s]] = s
      BY DEF AbortFindsRun
    <3> QED BY <2>1, <2>3, <3>2, <3>3, <3>4 DEF AbortFindsRun
  <2> QED BY <2>2, <2>3, SetupType
<1>5. ASSUME NEW r \in Requests, Emit(r) \/ Publish(r) PROVE AbortFindsRun'
  BY <1>1, <1>5 DEF Emit, Publish, serverVars, queueVars
<1>6. ASSUME NEW r \in Requests, JobEnds(r) PROVE AbortFindsRun'
  <2>1. /\ at' = [at EXCEPT ![r] = None]
        /\ UNCHANGED <<setup, phase, lone, aborted, pool, wpool>>
    BY <1>6 DEF JobEnds, serverVars
  <2> QED BY <2>1 DEF AbortFindsRun, PredTypeOK
<1>7. ASSUME NEW w \in Workers, TakeJob(w) PROVE AbortFindsRun'
  <2> DEFINE r == Head(jobs)
  <2>1. /\ jobs # <<>> /\ at' = [at EXCEPT ![r] = w] /\ aborted' = aborted \ {r}
        /\ wpool' = [wpool EXCEPT ![w][ChatOf[r]] = r]
        /\ UNCHANGED <<setup, phase, lone, pool>>
    BY <1>7 DEF TakeJob, serverVars
  <2>2. r \in Requests /\ Queued(r)
    BY <2>1 DEF PredTypeOK, Queued
  <2>3. phase[r] = "running" /\ setup.mode = "queue"
    BY <2>1, <2>2 DEF JobInv, ModeInv
  <2> HIDE DEF r
  <2>4. ASSUME NEW s \in lone, at'[s] # None, s \notin aborted'
        PROVE  wpool'[at'[s]][ChatOf[s]] = s
    <3>1. CASE s = r
      BY <2>1, <2>2, <3>1 DEF PredTypeOK
    <3>2. CASE s # r
      <4>1. at'[s] = at[s] /\ at[s] \in Workers /\ s \in Requests
            /\ wpool[at[s]][ChatOf[s]] = s /\ phase[s] = "running"
        BY <2>1, <2>2, <2>4, <3>2 DEF AbortFindsRun, JobInv, PredTypeOK
      <4>2. ChatOf[s] # ChatOf[r]
        BY <1>0, <2>2, <2>3, <3>2, <4>1 DEF Open
      <4> QED BY <2>1, <4>1, <4>2 DEF PredTypeOK
    <3> QED BY <3>1, <3>2
  <2> QED BY <2>1, <2>3, <2>4 DEF AbortFindsRun, ModeInv
<1>8. ASSUME NEW w \in Workers, Crash(w) PROVE AbortFindsRun'
  <2>1. /\ \A r \in Requests : at'[r] = IF at[r] = w THEN None ELSE at[r]
        /\ wpool' = [wpool EXCEPT ![w] = [c \in Chats |-> None]]
        /\ UNCHANGED <<setup, phase, lone, aborted, pool>>
    BY <1>8 DEF Crash, serverVars
  <2>2. ASSUME NEW s \in lone, at'[s] # None, s \notin aborted
        PROVE  wpool'[at'[s]][ChatOf[s]] = s
    <3>1. s \in Requests /\ at'[s] = at[s] /\ at[s] # w /\ at[s] \in Workers
      BY <2>1, <2>2 DEF PredTypeOK
    <3>2. wpool'[at[s]] = wpool[at[s]] /\ wpool[at[s]][ChatOf[s]] = s
      BY <2>1, <2>2, <3>1 DEF AbortFindsRun, PredTypeOK
    <3> QED BY <3>1, <3>2
  <2> QED BY <2>1, <2>2 DEF AbortFindsRun
<1>9. ASSUME NEW w \in Workers, NEW c \in Chats, HandleAbort(w, c) PROVE AbortFindsRun'
  <2>1. /\ c \in signals[w] /\ aborted' = aborted \cup ({wpool[w][c]} \ {None})
        /\ wpool' = [wpool EXCEPT ![w] = Drop(@, c)]
        /\ UNCHANGED <<setup, phase, lone, pool, at>>
    BY <1>9 DEF HandleAbort, serverVars
  <2>2. setup.mode = "queue"
    BY <2>1 DEF ModeInv
  <2>3. ASSUME NEW s \in lone, at[s] # None, s \notin aborted'
        PROVE  wpool'[at[s]][ChatOf[s]] = s
    <3>1. s \in Requests /\ at[s] \in Workers /\ wpool[at[s]][ChatOf[s]] = s
      BY <2>1, <2>3 DEF AbortFindsRun, PredTypeOK
    <3>2. ~ (at[s] = w /\ ChatOf[s] = c)
      BY <2>1, <2>3, <3>1
    <3> QED BY <2>1, <3>1, <3>2 DEF Drop, PredTypeOK
  <2> QED BY <2>1, <2>2, <2>3 DEF AbortFindsRun, ModeInv
<1>10. ASSUME NEW c \in Chats, Subscribed(c) \/ Deliver(c) PROVE AbortFindsRun'
  BY <1>1, <1>10 DEF Subscribed, Deliver, serverVars
<1>11. ASSUME NEW c \in Chats, Abort(c) PROVE AbortFindsRun'
  <2>1. UNCHANGED <<setup, phase, lone, at, wpool>>
    BY <1>11 DEF Abort
  <2>2. CASE setup.mode = "queue"
    <3>1. UNCHANGED <<aborted, pool>>
      BY <1>11, <2>2 DEF Abort
    <3> QED BY <1>1, <2>1, <3>1
  <2>3. CASE setup.mode = "server"
    <3>1. pool[c] # None /\ aborted' = aborted \cup {pool[c]} /\ pool' = [pool EXCEPT ![c] = None]
      BY <1>11, <2>3 DEF Abort, Drop
    <3>2. ASSUME NEW s \in lone, phase[s] = "running", s \notin aborted'
          PROVE  pool'[ChatOf[s]] = s
      <4>1. pool[ChatOf[s]] = s /\ s # pool[c] /\ s \in Requests
        BY <2>3, <3>1, <3>2 DEF AbortFindsRun, PredTypeOK
      <4> QED BY <3>1, <4>1 DEF PredTypeOK
    <3>3. ASSUME NEW d \in Chats, pool'[d] # None
          PROVE  phase[pool'[d]] = "running" /\ pool'[d] \notin aborted'
      <4>1. d # c /\ pool'[d] = pool[d]
        BY <3>1, <3>3 DEF PredTypeOK
      <4>2. pool[d] # pool[c]
        BY <3>1, <3>3, <4>1 DEF ChatInv
      <4> QED BY <3>1, <3>3, <4>1, <4>2 DEF AbortFindsRun
    <3>4. \A s \in Requests : at[s] = None
      BY <2>3 DEF ModeInv
    <3> QED BY <2>1, <2>3, <3>2, <3>3, <3>4 DEF AbortFindsRun, PredTypeOK
  <2> QED BY <2>2, <2>3
<1>12. ASSUME UNCHANGED predVars PROVE AbortFindsRun'
  BY <1>1, <1>12 DEF predVars, serverVars, queueVars
<1> QED
  BY <1>2, <1>3, <1>4, <1>5, <1>6, <1>7, <1>8, <1>9, <1>10, <1>11, <1>12, SomeStep

-----------------------------------------------------------------------------
(* Tokens. *)

Started(r) == phase[r] \notin {"idle", "checking"}

LEMMA Onward ==
    ASSUME PredTypeOK, JobInv, [PredNext]_predVars
    PROVE  /\ setup' = setup /\ rerun \subseteq rerun' /\ lone' \subseteq lone
           /\ \A r \in Requests : (Started(r) => Started(r)') /\ (phase'[r] = "idle" => phase[r] = "idle")
           /\ \A c \in Chats : subscribed[c] = "yes" => subscribed'[c] = "yes"
<1> USE NoneIsNobody DEF Started
<1>1. ASSUME NEW r \in Requests, NEW streaming \in BOOLEAN, Arrive(r, streaming)
      PROVE  /\ UNCHANGED <<setup, rerun>> /\ lone' \subseteq lone
             /\ phase[r] = "idle" /\ phase' = [phase EXCEPT ![r] = "checking"]
             /\ \A c \in Chats : subscribed[c] = "yes" => subscribed'[c] = "yes"
  BY <1>1 DEF Arrive, Subscribe, PredTypeOK
<1>2. ASSUME NEW r \in Requests, RequestEnds(r)
      PROVE  /\ UNCHANGED <<setup, rerun, lone, subscribed>>
             /\ phase' = [phase EXCEPT ![r] = "done"]
  BY <1>2, Ending DEF queueVars
<1>3. ASSUME NEW r \in Requests, Start(r)
      PROVE  /\ UNCHANGED <<setup, rerun, lone, subscribed>>
             /\ phase' = [phase EXCEPT ![r] = "running"]
  BY <1>3 DEF Start
<1>4. ASSUME NEW r \in Requests, Emit(r) \/ Publish(r) \/ JobEnds(r)
      PROVE  UNCHANGED <<setup, rerun, lone, phase, subscribed>>
  BY <1>4 DEF Emit, Publish, JobEnds, serverVars, queueVars
<1>5. ASSUME NEW w \in Workers, TakeJob(w) \/ Crash(w)
      PROVE  UNCHANGED <<setup, lone, phase, subscribed>> /\ rerun \subseteq rerun'
  BY <1>5 DEF TakeJob, Crash, serverVars
<1>6. ASSUME NEW w \in Workers, NEW c \in Chats, HandleAbort(w, c)
      PROVE  UNCHANGED <<setup, rerun, lone, phase, subscribed>>
  BY <1>6 DEF HandleAbort, serverVars
<1>7. ASSUME NEW c \in Chats, Subscribed(c) \/ Deliver(c) \/ Abort(c)
      PROVE  /\ UNCHANGED <<setup, rerun, lone, phase>>
             /\ \A d \in Chats : subscribed[d] = "yes" => subscribed'[d] = "yes"
  BY <1>7 DEF Subscribed, Deliver, Abort, serverVars, PredTypeOK
<1>8. ASSUME UNCHANGED predVars
      PROVE  UNCHANGED <<setup, rerun, lone, phase, subscribed>>
  BY <1>8 DEF predVars, serverVars, queueVars
<1> QED
  BY <1>1, <1>2, <1>3, <1>4, <1>5, <1>6, <1>7, <1>8, SomeStep DEF PredTypeOK

(* A step by what it does to responses and channels. *)
LEMMA StreamSteps ==
    ASSUME PredTypeOK, ModeInv, [PredNext]_predVars
    PROVE  \/ UNCHANGED <<response, channel, emitted, client>>
              /\ \A c \in Chats : subscribed'[c] # "yes" => subscribed[c] # "yes"
           \/ \E r \in Requests, streaming \in BOOLEAN : Arrive(r, streaming)
           \/ \E r \in Requests : RequestEnds(r) \/ Emit(r) \/ Publish(r)
           \/ \E c \in Chats : Deliver(c)
           \/ \E r \in Requests : /\ Queued(r) /\ emitted' = [emitted EXCEPT ![r] = 0]
                                  /\ UNCHANGED <<response, channel, client, subscribed>>
<1>1. ASSUME NEW r \in Requests, Start(r) \/ JobEnds(r)
      PROVE  UNCHANGED <<response, channel, emitted, client, subscribed>>
  BY <1>1 DEF Start, JobEnds, serverVars
<1>2. ASSUME NEW w \in Workers, TakeJob(w)
      PROVE  \E r \in Requests : /\ Queued(r) /\ emitted' = [emitted EXCEPT ![r] = 0]
                                 /\ UNCHANGED <<response, channel, client, subscribed>>
  <2>1. jobs # <<>> /\ emitted' = [emitted EXCEPT ![Head(jobs)] = 0]
        /\ UNCHANGED <<response, channel, client, subscribed>>
    BY <1>2 DEF TakeJob, serverVars
  <2>2. Head(jobs) \in Requests /\ Queued(Head(jobs))
    BY <2>1 DEF PredTypeOK, Queued
  <2> QED BY <2>1, <2>2
<1>3. ASSUME NEW w \in Workers, Crash(w)
      PROVE  UNCHANGED <<response, channel, emitted, client, subscribed>>
  BY <1>3 DEF Crash, serverVars
<1>4. ASSUME NEW w \in Workers, NEW c \in Chats, HandleAbort(w, c)
      PROVE  UNCHANGED <<response, channel, emitted, client, subscribed>>
  BY <1>4 DEF HandleAbort, serverVars
<1>5. ASSUME NEW c \in Chats, Subscribed(c) \/ Abort(c)
      PROVE  UNCHANGED <<response, channel, emitted, client>>
             /\ \A d \in Chats : subscribed'[d] # "yes" => subscribed[d] # "yes"
  BY <1>5 DEF Subscribed, Abort, serverVars, PredTypeOK
<1>6. ASSUME UNCHANGED predVars
      PROVE  UNCHANGED <<response, channel, emitted, client, subscribed>>
  BY <1>6 DEF predVars, serverVars, queueVars
<1> QED
  BY <1>1, <1>2, <1>3, <1>4, <1>5, <1>6, SomeStep

LEMMA ChannelStep ==
    ASSUME PredTypeOK, ModeInv, JobInv, ChannelInv, [PredNext]_predVars
    PROVE  ChannelInv'
<1> USE NoneIsNobody DEF ChannelInv
<1>0. /\ \A r \in Requests : Started(r) => Started(r)'
      /\ \A c \in Chats : \A i \in 1..Len(channel[c]) :
            channel[c][i] \in Events /\ channel[c][i].run \in Requests
  <2>1. \A c \in Chats : \A i \in 1..Len(channel[c]) : channel[c][i] \in Events
    BY DEF PredTypeOK
  <2> QED BY <2>1, Onward, EventKinds
<1>1. ASSUME channel' = channel,
             \A c \in Chats : subscribed'[c] # "yes" => subscribed[c] # "yes"
      PROVE  ChannelInv'
  BY <1>0, <1>1 DEF Started
<1>2. ASSUME NEW r \in Requests, NEW streaming \in BOOLEAN, Arrive(r, streaming)
      PROVE  ChannelInv'
  BY <1>1, <1>2 DEF Arrive, Subscribe, PredTypeOK
<1>3. ASSUME NEW r \in Requests, RequestEnds(r) \/ Emit(r) PROVE ChannelInv'
  <2>1. UNCHANGED <<channel, subscribed>>
    BY <1>3, Ending DEF Emit, queueVars
  <2> QED BY <1>1, <2>1
<1>4. ASSUME NEW r \in Requests, Publish(r) PROVE ChannelInv'
  <2> DEFINE c == ChatOf[r]
             e == Token(r, emitted[r] + 1)
  <2>1. phase[r] = "running" /\ subscribed' = subscribed /\ phase' = phase
    BY <1>4 DEF Publish, JobInv, serverVars
  <2>2. CASE subscribed[c] = "yes"
    <3>1. channel' = [channel EXCEPT ![c] = Append(@, e)]
      BY <1>4, <2>2 DEF Publish
    <3>2. channel[c] \in Seq(Events) /\ c \in Chats
      BY DEF PredTypeOK
    <3>3. e.event = "token" /\ e.run = r
      BY DEF Token
    <3> HIDE DEF c, e
    <3>4. channel'[c] = Append(channel[c], e) /\ \A d \in Chats : d # c => channel'[d] = channel[d]
      BY <3>1, <3>2 DEF PredTypeOK
    <3>5. \A i \in 1..Len(channel'[c]) :
              channel'[c][i] = e \/ \E j \in 1..Len(channel[c]) : channel'[c][i] = channel[c][j]
      BY <3>2, <3>4
    <3>6. ChatOf[r] = c
      BY DEF c
    <3>7. ASSUME NEW d \in Chats, NEW i \in 1..Len(channel'[d])
          PROVE  LET x == channel'[d][i]
                 IN  x.event = "token" /\ ChatOf[x.run] = d /\ Started(x.run)
      <4>1. CASE d = c /\ channel'[d][i] = e
        BY <2>1, <3>3, <3>6, <4>1 DEF Started
      <4>2. CASE ~ (d = c /\ channel'[d][i] = e)
        <5>1. \E j \in 1..Len(channel[d]) : channel'[d][i] = channel[d][j]
          <6>1. CASE d = c
            BY <3>5, <4>2, <6>1
          <6>2. CASE d # c
            <7>1. channel'[d] = channel[d]
              BY <3>4, <6>2
            <7> QED BY <7>1
          <6> QED BY <6>1, <6>2
        <5> QED BY <5>1 DEF Started
      <4> QED BY <4>1, <4>2
    <3>8. \A d \in Chats : subscribed'[d] # "yes" => channel'[d] = <<>>
      BY <2>1, <2>2, <3>4
    <3> QED BY <2>1, <3>7, <3>8 DEF Started
  <2>3. CASE subscribed[c] # "yes"
    <3>1. channel' = channel
      BY <1>4, <2>3 DEF Publish
    <3> QED BY <1>1, <2>1, <3>1
  <2> QED BY <2>2, <2>3
<1>5. ASSUME NEW c \in Chats, Deliver(c) PROVE ChannelInv'
  <2>1. channel[c] # <<>> /\ channel' = [channel EXCEPT ![c] = Tail(@)]
        /\ UNCHANGED <<phase, subscribed>>
    BY <1>5 DEF Deliver
  <2>2. channel[c] \in Seq(Events)
    BY DEF PredTypeOK
  <2>3. /\ Len(Tail(channel[c])) = Len(channel[c]) - 1 /\ Len(channel[c]) \in Nat
        /\ \A i \in 1..(Len(channel[c]) - 1) : Tail(channel[c])[i] = channel[c][i + 1]
    BY <2>1, <2>2, HandedOver
  <2>4. channel'[c] = Tail(channel[c]) /\ \A d \in Chats : d # c => channel'[d] = channel[d]
    BY <2>1 DEF PredTypeOK
  <2>5. ASSUME NEW i \in 1..Len(channel'[c])
        PROVE  \E j \in 1..Len(channel[c]) : channel'[c][i] = channel[c][j]
    <3>1. i \in 1..(Len(channel[c]) - 1) /\ i + 1 \in 1..Len(channel[c])
      BY <2>3, <2>4
    <3>2. channel'[c][i] = channel[c][i + 1]
      BY <2>3, <2>4, <3>1
    <3> QED BY <3>1, <3>2
  <2> QED BY <1>0, <2>1, <2>4, <2>5
<1>6. ASSUME UNCHANGED <<channel, subscribed>> PROVE ChannelInv'
  BY <1>1, <1>6
<1> QED
  BY <1>1, <1>2, <1>3, <1>4, <1>5, <1>6, StreamSteps

(* Events of a chat are written to the response its clients map has. *)
LEMMA ResponseGrows ==
    ASSUME PredTypeOK, JobInv, ChatInv, ResponseInv, [PredNext]_predVars,
           NEW c \in Chats, NEW es \in Seq(Events), Write(c, es),
           \A d \in Chats : client'[d] \in {None, client[d]},
           \A i \in 1..Len(es) : es[i].event = "token" =>
               /\ ChatOf[es[i].run] = c /\ Started(es[i].run)
               /\ setup.mode = "queue" => subscribed[c] = "yes",
           \A i \in 1..Len(es) : es[i].event = "end" => i = Len(es) /\ client'[c] = None
    PROVE  ResponseInv'
<1> USE NoneIsNobody
<1>0. /\ setup' = setup
      /\ \A r \in Requests : (Started(r) => Started(r)') /\ (phase'[r] = "idle" => phase[r] = "idle")
      /\ \A d \in Chats : subscribed[d] = "yes" => subscribed'[d] = "yes"
  BY Onward
<1>1. \A r \in Requests : /\ response[r] \in Seq(Events)
                          /\ response'[r] = IF client[c] = r THEN response[r] \o es ELSE response[r]
  BY Written DEF PredTypeOK
<1>2. \A s \in Requests : ChatOf[s]' = ChatOf[s]
  OBVIOUS
<1> SUFFICES ASSUME NEW r \in Requests
             PROVE  /\ phase'[r] = "idle" => response'[r] = <<>>
                    /\ \A i \in 1..Len(response'[r]) : response'[r][i].event = "token" =>
                          /\ ChatOf[response'[r][i].run] = ChatOf[r]
                          /\ phase'[response'[r][i].run] \notin {"idle", "checking"}
                          /\ setup'.mode = "queue" => subscribed'[ChatOf[r]] = "yes"
                    /\ \A i \in 1..Len(response'[r]) : response'[r][i].event = "end" =>
                          i = Len(response'[r]) /\ client'[ChatOf[r]] # r
  BY DEF ResponseInv
<1>3. \A i \in 1..Len(response[r]) : response[r][i].event = "token" => response[r][i].run \in Requests
  BY <1>1, EventKinds
<1>4. CASE client[c] # r
  <2>1. response'[r] = response[r]
    BY <1>1, <1>4
  <2>2. client[ChatOf[r]] # r => client'[ChatOf[r]] # r
    OBVIOUS
  <2> QED BY <1>0, <1>3, <2>1, <2>2 DEF ResponseInv, Started
<1>5. CASE client[c] = r
  <2>1. c = ChatOf[r] /\ phase[r] \in Open
    BY <1>5 DEF ChatInv
  <2>2. response'[r] = response[r] \o es
    BY <1>1, <1>5
  <2>3. /\ Len(response'[r]) = Len(response[r]) + Len(es)
        /\ Len(response[r]) \in Nat /\ Len(es) \in Nat
        /\ \A i \in 1..Len(response[r]) : response'[r][i] = response[r][i]
        /\ \A i \in 1..Len(response'[r]) : i > Len(response[r]) =>
              i - Len(response[r]) \in 1..Len(es) /\ response'[r][i] = es[i - Len(response[r])]
    BY <1>1, <2>2, Concat
  <2>4. phase'[r] # "idle"
    BY <1>0, <2>1 DEF Open
  <2>5. \A i \in 1..Len(es) : es[i].event = "token" => es[i].run \in Requests
    BY EventKinds
  <2>6. ASSUME NEW i \in 1..Len(response'[r]), response'[r][i].event = "token"
        PROVE  /\ ChatOf[response'[r][i].run] = ChatOf[r]
               /\ phase'[response'[r][i].run] \notin {"idle", "checking"}
               /\ setup'.mode = "queue" => subscribed'[ChatOf[r]] = "yes"
    <3>1. CASE i <= Len(response[r])
      <4>1. i \in 1..Len(response[r]) /\ response'[r][i] = response[r][i]
        BY <2>3, <3>1
      <4> QED BY <1>0, <1>3, <2>6, <4>1 DEF ResponseInv, Started
    <3>2. CASE i > Len(response[r])
      <4>1. i - Len(response[r]) \in 1..Len(es) /\ response'[r][i] = es[i - Len(response[r])]
        BY <2>3, <3>2
      <4> QED BY <1>0, <2>1, <2>5, <2>6, <4>1 DEF Started
    <3> QED BY <2>3, <3>1, <3>2
  <2>7. ASSUME NEW i \in 1..Len(response'[r]), response'[r][i].event = "end"
        PROVE  i = Len(response'[r]) /\ client'[ChatOf[r]] # r
    <3>1. i > Len(response[r])
      <4> SUFFICES ASSUME i <= Len(response[r]) PROVE FALSE
        BY <2>3
      <4>1. i \in 1..Len(response[r]) /\ response'[r][i] = response[r][i]
        BY <2>3
      <4> QED BY <1>5, <2>1, <2>7, <4>1 DEF ResponseInv
    <3>2. i - Len(response[r]) \in 1..Len(es) /\ response'[r][i] = es[i - Len(response[r])]
      BY <2>3, <3>1
    <3>3. i - Len(response[r]) = Len(es) /\ client'[c] = None
      BY <2>7, <3>2
    <3> QED BY <2>1, <2>3, <3>3
  <2> QED BY <2>4, <2>6, <2>7
<1> QED BY <1>4, <1>5

LEMMA ResponseStep ==
    ASSUME PredTypeOK, ModeInv, JobInv, ChatInv, ChannelInv, ResponseInv, [PredNext]_predVars
    PROVE  ResponseInv'
<1> USE NoneIsNobody
<1>0. /\ setup' = setup
      /\ \A r \in Requests : (Started(r) => Started(r)') /\ (phase'[r] = "idle" => phase[r] = "idle")
      /\ \A d \in Chats : subscribed[d] = "yes" => subscribed'[d] = "yes"
  BY Onward
<1>1. ASSUME response' = response,
             \A r \in Requests : client'[ChatOf[r]] = r =>
                 client[ChatOf[r]] = r \/ phase[r] = "idle"
      PROVE  ResponseInv'
  <2>1. ASSUME NEW r \in Requests, NEW i \in 1..Len(response[r])
        PROVE  response[r][i].event = "token" => response[r][i].run \in Requests
    BY EventKinds DEF PredTypeOK
  <2> QED BY <1>0, <1>1, <2>1 DEF ResponseInv, Started
<1>2. ASSUME NEW r \in Requests, NEW streaming \in BOOLEAN, Arrive(r, streaming)
      PROVE  ResponseInv'
  <2>1. response' = response /\ phase[r] = "idle"
        /\ (client' = client \/ client' = [client EXCEPT ![ChatOf[r]] = r])
    BY <1>2 DEF Arrive
  <2> QED BY <1>1, <2>1 DEF PredTypeOK
<1>3. ASSUME NEW r \in Requests, RequestEnds(r) PROVE ResponseInv'
  <2>1. PICK name \in {"metadata", "error"} : Respond(r, name)
    BY <1>3, Ending
  <2>2. CASE r \in streams
    <3> DEFINE es == <<Event(name), Event("end")>>
    <3>1. Write(ChatOf[r], es) /\ client' = [client EXCEPT ![ChatOf[r]] = None]
      BY <2>1, <2>2 DEF Respond, RemoveClient, Drop
    <3>2. es \in Seq(Events) /\ Len(es) = 2 /\ es[1].event = name /\ es[2].event = "end"
      BY EventType DEF Event
    <3>3. \A d \in Chats : client'[d] \in {None, client[d]}
      BY <3>1 DEF PredTypeOK
    <3>4. client'[ChatOf[r]] = None
      BY <3>1 DEF PredTypeOK
    <3> HIDE DEF es
    <3>5. \A i \in 1..Len(es) : es[i].event # "token" /\ (es[i].event = "end" => i = 2)
      BY <3>2
    <3> QED BY <3>1, <3>2, <3>3, <3>4, <3>5, ResponseGrows
  <2>3. CASE r \notin streams
    BY <1>1, <2>1, <2>3 DEF Respond
  <2> QED BY <2>2, <2>3
<1>4. ASSUME NEW r \in Requests, Emit(r) PROVE ResponseInv'
  <2> DEFINE es == <<Token(r, emitted[r] + 1)>>
  <2>1. emitted[r] + 1 \in 1..setup.tokens
    BY <1>4, SetupType DEF Emit, Streaming, PredTypeOK
  <2>2. es \in Seq(Events) /\ Len(es) = 1 /\ es[1].event = "token" /\ es[1].run = r
    BY <2>1, EventType DEF Token
  <2>3. Write(ChatOf[r], es) /\ client' = client /\ setup.mode = "server" /\ Started(r)
    BY <1>4 DEF Emit, Started
  <2> HIDE DEF es
  <2> QED BY <2>2, <2>3, ResponseGrows
<1>5. ASSUME NEW r \in Requests, Publish(r) PROVE ResponseInv'
  BY <1>1, <1>5 DEF Publish, serverVars
<1>6. ASSUME NEW c \in Chats, Deliver(c) PROVE ResponseInv'
  <2> DEFINE es == <<Head(channel[c])>>
  <2>1. channel[c] # <<>> /\ Write(c, es) /\ client' = client
    BY <1>6 DEF Deliver
  <2>2. channel[c] \in Seq(Events)
    BY DEF PredTypeOK
  <2>3. es \in Seq(Events) /\ Len(es) = 1 /\ es[1] = channel[c][1] /\ 1 \in 1..Len(channel[c])
    BY <2>1, <2>2, HandedOver
  <2>4. /\ es[1].event = "token" /\ ChatOf[es[1].run] = c /\ Started(es[1].run)
        /\ subscribed[c] = "yes"
    BY <2>1, <2>3 DEF ChannelInv, Started
  <2> HIDE DEF es
  <2> QED BY <2>1, <2>3, <2>4, ResponseGrows
<1>7. ASSUME response' = response, client' = client PROVE ResponseInv'
  BY <1>1, <1>7
<1> QED
  BY <1>2, <1>3, <1>4, <1>5, <1>6, <1>7, StreamSteps

LEMMA OrderStep ==
    ASSUME PredTypeOK, ModeInv, JobInv, ChatInv, ChannelInv, ResponseInv, OrderInv,
           [PredNext]_predVars
    PROVE  OrderInv'
<1> USE NoneIsNobody
<1>0. rerun \subseteq rerun'
  BY Onward
<1>a. ASSUME NEW r \in Requests
      PROVE  /\ response[r] \in Seq(Events) /\ channel[ChatOf[r]] \in Seq(Events)
             /\ Stream(r) \in Seq(Events) /\ emitted[r] \in Nat
             /\ setup.mode = "server" => Stream(r) = response[r]
  <2>1. response[r] \in Seq(Events) /\ channel[ChatOf[r]] \in Seq(Events)
    BY DEF PredTypeOK
  <2>2. emitted[r] \in Nat
    BY SetupType DEF PredTypeOK
  <2>3. Stream(r) \in Seq(Events)
    BY <2>1, ConcatProperties DEF Stream
  <2>4. setup.mode = "server" => channel[ChatOf[r]] = <<>>
    BY DEF ModeInv
  <2>5. setup.mode = "server" => Stream(r) = response[r]
    BY <2>1, <2>4, ConcatEmptySeq DEF Stream
  <2> QED BY <2>1, <2>2, <2>3, <2>5
<1>1. ASSUME UNCHANGED <<response, channel, client>>,
             \A r \in Requests : r \notin rerun => emitted'[r] = emitted[r]
      PROVE  OrderInv'
  BY <1>0, <1>1 DEF OrderInv, Stream
<1>2. ASSUME NEW r \in Requests, NEW streaming \in BOOLEAN, Arrive(r, streaming) PROVE OrderInv'
  <2>1. UNCHANGED <<response, channel, emitted, rerun>> /\ phase[r] = "idle"
        /\ (client' = client \/ client' = [client EXCEPT ![ChatOf[r]] = r])
    BY <1>2 DEF Arrive
  <2>2. Consecutive(r, Stream(r)) /\ EndsAt(r, Stream(r), emitted[r])
    <3>1. response[r] = <<>>
      BY <2>1 DEF ResponseInv
    <3>2. Stream(r) = channel[ChatOf[r]]
      BY <1>a, <3>1, ConcatEmptySeq DEF Stream
    <3>3. Own(r, Stream(r)) = {}
      BY <2>1, <3>2 DEF ChannelInv, Own
    <3> QED BY <1>a, <3>3, NoneOwn
  <2>3. \A s \in Requests : client'[ChatOf[s]] = s => client[ChatOf[s]] = s \/ s = r
    BY <2>1 DEF PredTypeOK
  <2> QED BY <2>1, <2>2, <2>3 DEF OrderInv, Stream
<1>3. ASSUME NEW r \in Requests, RequestEnds(r) PROVE OrderInv'
  <2>1. PICK name \in {"metadata", "error"} : Respond(r, name)
    BY <1>3, Ending
  <2>2. UNCHANGED <<emitted, rerun, channel>>
    BY <1>3, Ending DEF queueVars
  <2> DEFINE es == <<Event(name), Event("end")>>
             c  == ChatOf[r]
  <2>3. /\ \A s \in Requests :
              response'[s] = IF r \in streams /\ client[c] = s
                             THEN response[s] \o es ELSE response[s]
        /\ client' = IF r \in streams THEN [client EXCEPT ![c] = None] ELSE client
    BY <2>1, Responded
  <2>4. es \in Seq(Events) /\ Len(es) = 2 /\ es[1].event = name /\ es[2].event = "end"
    BY EventType DEF Event
  <2> HIDE DEF es, c
  <2>5. \A s \in Requests : Own(s, es) = {}
    BY <2>4 DEF Own
  <2>6. ASSUME NEW s \in Requests, s \notin rerun PROVE Consecutive(s, response'[s])
    <3>1. Consecutive(s, response[s])
      BY <2>6 DEF OrderInv
    <3>2. Consecutive(s, response[s] \o es)
      BY <1>a, <2>4, <2>5, <3>1, OthersAppended
    <3> QED BY <2>3, <3>1, <3>2
  <2>7. ASSUME NEW s \in Requests, client'[ChatOf[s]] = s
        PROVE  client[ChatOf[s]] = s /\ response'[s] = response[s]
    <3>1. client[ChatOf[s]] = s /\ ~ (r \in streams /\ c = ChatOf[s])
      BY <2>3, <2>7 DEF PredTypeOK
    <3>2. client[c] = s => c = ChatOf[s]
      BY DEF ChatInv, c
    <3> QED BY <2>3, <3>1, <3>2
  <2> QED BY <2>2, <2>6, <2>7 DEF OrderInv, Stream
<1>4. ASSUME NEW r \in Requests, Emit(r) PROVE OrderInv'
  <2> DEFINE e == Token(r, emitted[r] + 1)
             c == ChatOf[r]
  <2>1. emitted[r] + 1 \in 1..setup.tokens
    BY <1>4, SetupType DEF Emit, Streaming, PredTypeOK
  <2>2. /\ setup.mode = "server" /\ emitted' = [emitted EXCEPT ![r] = @ + 1]
        /\ UNCHANGED <<client, channel, rerun, setup>> /\ Write(c, <<e>>)
    BY <1>4 DEF Emit, queueVars
  <2>3. e \in Events /\ e.event = "token" /\ e.run = r /\ e.no = emitted[r] + 1
    BY <2>1, EventType DEF Token
  <2> HIDE DEF e, c
  <2>4. \A s \in Requests :
            response'[s] = IF client[c] = s THEN response[s] \o <<e>> ELSE response[s]
    <3>1. <<e>> \in Seq(Events) /\ c \in Chats
      BY <2>3 DEF c
    <3> QED BY <2>2, <3>1, Written
  <2>5. \A s \in Requests : Stream(s)' = response'[s] \o <<>> /\ client'[ChatOf[s]] = client[ChatOf[s]]
    BY <2>2 DEF Stream, ModeInv
  <2>6. ASSUME NEW s \in Requests, s \notin rerun, client[c] # s
        PROVE  /\ Consecutive(s, response'[s])
               /\ client[ChatOf[s]] = s =>
                     Consecutive(s, Stream(s)') /\ EndsAt(s, Stream(s)', emitted'[s])
    <3>1. response'[s] = response[s] /\ Stream(s)' = Stream(s)
      BY <2>2, <2>4, <2>6 DEF Stream
    <3>2. client[ChatOf[s]] = s => s # r
      BY <2>6 DEF c
    <3> QED BY <2>2, <2>6, <3>1, <3>2 DEF OrderInv, PredTypeOK
  <2>7. ASSUME NEW s \in Requests, s \notin rerun, client[c] = s
        PROVE  /\ Consecutive(s, response'[s]) /\ Consecutive(s, Stream(s)')
               /\ EndsAt(s, Stream(s)', emitted'[s])
    <3>1. response'[s] = response[s] \o <<e>> /\ response[s] \in Seq(Events)
      BY <1>a, <2>4, <2>7
    <3>2. response'[s] = Append(response[s], e) /\ response'[s] \in Seq(Events)
      BY <2>3, <3>1, AppendIsConcat, AppendProperties
    <3>7. Stream(s)' = response'[s]
      BY <2>5, <3>2, ConcatEmptySeq
    <3>3. client[ChatOf[s]] = s
      BY <2>7 DEF ChatInv, c
    <3>4. Consecutive(s, response[s]) /\ EndsAt(s, response[s], emitted[s])
      BY <1>a, <2>2, <2>7, <3>3 DEF OrderInv
    <3>5. CASE s = r
      <4>1. emitted'[s] = emitted[s] + 1
        BY <2>2, <3>5 DEF PredTypeOK
      <4> QED BY <2>3, <3>1, <3>2, <3>4, <3>5, <3>7, <4>1, NextAppended
    <3>6. CASE s # r
      <4>1. emitted'[s] = emitted[s] /\ emitted[s] \in Nat
        BY <1>a, <2>2, <3>6 DEF PredTypeOK
      <4> QED BY <2>3, <3>1, <3>2, <3>4, <3>6, <3>7, <4>1, OtherAppended
    <3> QED BY <3>5, <3>6
  <2> QED BY <2>2, <2>5, <2>6, <2>7 DEF OrderInv
<1>5. ASSUME NEW r \in Requests, Publish(r) PROVE OrderInv'
  <2> DEFINE e == Token(r, emitted[r] + 1)
             c == ChatOf[r]
  <2>1. emitted[r] + 1 \in 1..setup.tokens
    BY <1>5, OneMore DEF Publish
  <2>2. /\ emitted' = [emitted EXCEPT ![r] = @ + 1] /\ setup.mode = "queue"
        /\ UNCHANGED <<response, client, rerun>>
        /\ channel' = IF subscribed[c] = "yes" THEN [channel EXCEPT ![c] = Append(@, e)] ELSE channel
    BY <1>5, SetupType DEF Publish, serverVars, ModeInv
  <2>3. e \in Events /\ e.event = "token" /\ e.run = r /\ e.no = emitted[r] + 1
    BY <2>1, EventType DEF Token
  <2> HIDE DEF e, c
  <2>4. c = ChatOf[r] /\ c \in Chats
    BY DEF c
  <2>5. ASSUME NEW s \in Requests, s \notin rerun, client[ChatOf[s]] = s
        PROVE  Consecutive(s, Stream(s)') /\ EndsAt(s, Stream(s)', emitted'[s])
    <3>1. Consecutive(s, Stream(s)) /\ EndsAt(s, Stream(s), emitted[s])
      BY <2>5 DEF OrderInv
    <3>2. s # r => emitted'[s] = emitted[s]
      BY <2>2 DEF PredTypeOK
    <3>3. emitted'[r] = emitted[r] + 1
      BY <2>2 DEF PredTypeOK
    <3>4. CASE ChatOf[s] # c
      <4>1. Stream(s)' = Stream(s)
        BY <2>2, <3>4 DEF Stream, PredTypeOK
      <4> QED BY <2>4, <3>1, <3>2, <3>4, <4>1
    <3>5. CASE ChatOf[s] = c /\ subscribed[c] # "yes"
      <4>1. Stream(s)' = Stream(s) /\ Stream(s) = response[s]
        <5>1. channel' = channel /\ channel[c] = <<>>
          BY <2>2, <2>4, <3>5 DEF ChannelInv
        <5> QED BY <1>a, <2>2, <3>5, <5>1, ConcatEmptySeq DEF Stream
      <4>2. Own(s, response[s]) = {}
        BY <2>2, <3>5 DEF ResponseInv, Own
      <4>3. emitted'[s] \in Nat
        BY <1>a, <3>2, <3>3
      <4> QED BY <4>1, <4>2, <4>3, NoneOwn
    <3>6. CASE ChatOf[s] = c /\ subscribed[c] = "yes"
      <4>1. Stream(s)' = response[s] \o Append(channel[c], e)
        BY <2>2, <2>4, <3>6 DEF Stream, PredTypeOK
      <4>2. Stream(s)' = Append(Stream(s), e)
        <5>1. response[s] \in Seq(Events) /\ channel[c] \in Seq(Events)
          BY <1>a, <3>6
        <5> DEFINE a == response[s]
                   b == channel[c]
        <5>2. a \in Seq(Events) /\ b \in Seq(Events) /\ e \in Events
          BY <2>3, <5>1
        <5> HIDE DEF a, b
        <5>3. a \o Append(b, e) = Append(a \o b, e)
          BY ONLY <5>2, ConcatAppend
        <5> QED BY <3>6, <4>1, <5>3 DEF Stream, a, b
      <4>3. CASE s = r
        BY <1>a, <2>3, <3>1, <3>3, <4>2, <4>3, NextAppended
      <4>4. CASE s # r
        <5>1. Stream(s) \in Seq(Events) /\ emitted[s] \in Nat
          BY <1>a
        <5> QED BY <2>3, <3>1, <3>2, <4>2, <4>4, <5>1, OtherAppended
      <4> QED BY <4>3, <4>4
    <3> QED BY <3>4, <3>5, <3>6
  <2> QED BY <2>2, <2>5 DEF OrderInv
<1>6. ASSUME NEW c \in Chats, Deliver(c) PROVE OrderInv'
  <2> DEFINE h == Head(channel[c])
  <2>1. /\ channel[c] # <<>> /\ channel' = [channel EXCEPT ![c] = Tail(@)]
        /\ Write(c, <<h>>) /\ UNCHANGED <<client, emitted, rerun>>
    BY <1>6 DEF Deliver
  <2>2. channel[c] \in Seq(Events)
    BY DEF PredTypeOK
  <2>3. h \in Events /\ <<h>> \in Seq(Events) /\ Tail(channel[c]) \in Seq(Events)
    BY <2>1, <2>2, HandedOver
  <2>4. \A s \in Requests :
            response'[s] = IF client[c] = s THEN response[s] \o <<h>> ELSE response[s]
    BY <2>1, <2>3, Written
  <2>5. ASSUME NEW s \in Requests, s \notin rerun, client[c] # s
        PROVE  /\ Consecutive(s, response'[s])
               /\ client[ChatOf[s]] = s =>
                     Consecutive(s, Stream(s)') /\ EndsAt(s, Stream(s)', emitted'[s])
    <3>1. response'[s] = response[s]
      BY <2>4, <2>5
    <3>2. client[ChatOf[s]] = s => Stream(s)' = Stream(s)
      BY <2>1, <2>5, <3>1 DEF Stream, PredTypeOK
    <3> QED BY <2>1, <2>5, <3>1, <3>2 DEF OrderInv
  <2>6. ASSUME NEW s \in Requests, s \notin rerun, client[c] = s
        PROVE  /\ Consecutive(s, response'[s]) /\ Consecutive(s, Stream(s)')
               /\ EndsAt(s, Stream(s)', emitted'[s])
    <3>1. ChatOf[s] = c
      BY <2>6 DEF ChatInv
    <3>2. response'[s] = response[s] \o <<h>> /\ response[s] \in Seq(Events)
          /\ channel'[c] = Tail(channel[c])
      BY <1>a, <2>1, <2>4, <2>6 DEF PredTypeOK
    <3>3. Stream(s)' = Stream(s)
      <4>1. (response[s] \o <<Head(channel[c])>>) \o Tail(channel[c]) = response[s] \o channel[c]
        <5>1. response[s] \in Seq(Events)
          BY <3>2
        <5> HIDE DEF h
        <5> QED BY ONLY <2>1, <2>2, <5>1, HandedOver
      <4> QED BY <3>1, <3>2, <4>1 DEF Stream
    <3>4. Consecutive(s, Stream(s)) /\ EndsAt(s, Stream(s), emitted[s])
      BY <2>6, <3>1 DEF OrderInv
    <3>5. Consecutive(s, response'[s])
      <4>1. Stream(s) = response'[s] \o Tail(channel[c])
        BY <3>1, <3>2, <3>3 DEF Stream
      <4>2. response'[s] \in Seq(Events)
        BY <2>3, <3>2
      <4> QED BY <2>3, <3>4, <4>1, <4>2, Begun
    <3> QED BY <2>1, <3>3, <3>4, <3>5
  <2> QED BY <2>1, <2>5, <2>6 DEF OrderInv
<1>7. ASSUME NEW r \in Requests, Queued(r), emitted' = [emitted EXCEPT ![r] = 0],
             UNCHANGED <<response, channel, client, subscribed>>
      PROVE  OrderInv'
  <2>1. \A s \in Requests : s \notin rerun => emitted'[s] = emitted[s]
    BY <1>7 DEF JobInv, PredTypeOK
  <2> QED BY <1>1, <1>7, <2>1
<1>8. ASSUME UNCHANGED <<response, channel, emitted, client>> PROVE OrderInv'
  BY <1>1, <1>8
<1> QED
  BY <1>2, <1>3, <1>4, <1>5, <1>6, <1>7, <1>8, StreamSteps

LEMMA AloneStep ==
    ASSUME PredTypeOK, ModeInv, JobInv, ChatInv, ResponseInv, AloneInv, [PredNext]_predVars
    PROVE  AloneInv'
<1> USE NoneIsNobody
<1>0. setup' = setup /\ lone' \subseteq lone /\ lone \subseteq Requests
  BY Onward DEF PredTypeOK
<1> SUFFICES ASSUME setup.mode = "server" PROVE AloneInv'
  BY <1>0 DEF AloneInv
<1>1. ASSUME UNCHANGED <<response, client, emitted>> PROVE AloneInv'
  BY <1>0, <1>1 DEF AloneInv
<1>2. ASSUME NEW r \in Requests, NEW streaming \in BOOLEAN, Arrive(r, streaming) PROVE AloneInv'
  <2>1. UNCHANGED <<response, emitted>> /\ phase[r] = "idle"
        /\ (client' = client \/ client' = [client EXCEPT ![ChatOf[r]] = r])
    BY <1>2 DEF Arrive
  <2>2. Len(response[r]) = emitted[r]
    BY <2>1 DEF ResponseInv, JobInv
  <2>3. \A s \in Requests : client'[ChatOf[s]] = s => client[ChatOf[s]] = s \/ s = r
    BY <2>1 DEF PredTypeOK
  <2> QED BY <1>0, <2>1, <2>2, <2>3 DEF AloneInv
<1>3. ASSUME NEW r \in Requests, RequestEnds(r) PROVE AloneInv'
  <2>1. PICK name \in {"metadata", "error"} : Respond(r, name)
    BY <1>3, Ending
  <2>2. emitted' = emitted
    BY <1>3, Ending
  <2> DEFINE es == <<Event(name), Event("end")>>
             c  == ChatOf[r]
  <2>3. /\ \A s \in Requests :
              response'[s] = IF r \in streams /\ client[c] = s
                             THEN response[s] \o es ELSE response[s]
        /\ client' = IF r \in streams THEN [client EXCEPT ![c] = None] ELSE client
    BY <2>1, Responded
  <2>4. es \in Seq(Events) /\ Len(es) = 2 /\ es[1].event = name /\ es[2].event = "end"
    BY EventType DEF Event
  <2> HIDE DEF es, c
  <2>5. ASSUME NEW s \in Requests, s \in lone, NEW i \in 1..Len(response'[s]),
               response'[s][i].event = "token"
        PROVE  response'[s][i] = Token(s, i)
    <3>1. CASE response'[s] = response[s]
      BY <2>5, <3>1 DEF AloneInv
    <3>2. CASE response'[s] = response[s] \o es
      <4>1. response[s] \in Seq(Events)
        BY DEF PredTypeOK
      <4>2. CASE i <= Len(response[s])
        <5>1. i \in 1..Len(response[s]) /\ response'[s][i] = response[s][i]
          BY <2>4, <3>2, <4>1, <4>2, Concat
        <5> QED BY <2>5, <5>1 DEF AloneInv
      <4>3. CASE i > Len(response[s])
        <5> DEFINE a == response[s]
        <5>1. a \in Seq(Events) /\ es \in Seq(Events) /\ i \in 1..Len(a \o es) /\ i > Len(a)
          BY <2>4, <3>2, <4>1, <4>3
        <5> HIDE DEF a
        <5>2. i - Len(a) \in 1..Len(es) /\ (a \o es)[i] = es[i - Len(a)]
          BY ONLY <5>1, Concat
        <5>3. \A k \in 1..Len(es) : es[k].event # "token"
          BY <2>4
        <5>4. response'[s][i] = es[i - Len(a)]
          BY <3>2, <5>2 DEF a
        <5> QED BY <2>5, <5>2, <5>3, <5>4
      <4> QED BY <4>1, <4>2, <4>3
    <3> QED BY <2>3, <3>1, <3>2
  <2>6. ASSUME NEW s \in Requests, client'[ChatOf[s]] = s
        PROVE  client[ChatOf[s]] = s /\ response'[s] = response[s]
    <3>1. client[ChatOf[s]] = s /\ ~ (r \in streams /\ c = ChatOf[s])
      BY <2>3, <2>6 DEF PredTypeOK
    <3>2. client[c] = s => c = ChatOf[s]
      BY DEF ChatInv, c
    <3> QED BY <2>3, <3>1, <3>2
  <2> QED BY <1>0, <2>2, <2>5, <2>6 DEF AloneInv
<1>4. ASSUME NEW r \in Requests, Emit(r) PROVE AloneInv'
  <2> DEFINE e == Token(r, emitted[r] + 1)
             c == ChatOf[r]
  <2>1. emitted[r] + 1 \in 1..setup.tokens /\ emitted[r] \in Nat
    BY <1>4, SetupType DEF Emit, Streaming, PredTypeOK
  <2>2. /\ emitted' = [emitted EXCEPT ![r] = @ + 1] /\ phase[r] = "running"
        /\ client' = client /\ Write(c, <<e>>)
    BY <1>4 DEF Emit
  <2>3. e \in Events /\ <<e>> \in Seq(Events) /\ c \in Chats
    BY <2>1, EventType
  <2> HIDE DEF e, c
  <2>4. \A s \in Requests :
            response'[s] = IF client[c] = s THEN response[s] \o <<e>> ELSE response[s]
    BY <2>2, <2>3, Written
  <2>5. ASSUME NEW s \in Requests, s \in lone, client[c] # s
        PROVE  /\ response'[s] = response[s]
               /\ client[ChatOf[s]] = s => emitted'[s] = emitted[s]
    <3>1. client[ChatOf[s]] = s => s # r
      BY <2>5 DEF c
    <3> QED BY <2>2, <2>4, <2>5, <3>1 DEF PredTypeOK
  <2>6. ASSUME NEW s \in Requests, s \in lone, client[c] = s
        PROVE  /\ \A i \in 1..Len(response'[s]) :
                      response'[s][i].event = "token" => response'[s][i] = Token(s, i)
               /\ Len(response'[s]) = emitted'[s]
    <3>1. ChatOf[s] = c /\ phase[s] \in Open /\ c = ChatOf[r]
      BY <2>6 DEF ChatInv, c
    <3>2. s = r
      BY <2>2, <2>6, <3>1 DEF ChatInv, Open
    <3>3. response'[s] = Append(response[s], e) /\ response[s] \in Seq(Events)
      <4>1. response[s] \in Seq(Events)
        BY DEF PredTypeOK
      <4> QED BY <2>3, <2>4, <2>6, <4>1, AppendIsConcat
    <3>4. Len(response[s]) = emitted[s]
      BY <2>6, <3>1 DEF AloneInv
    <3>5. /\ Len(response'[s]) = emitted[s] + 1
          /\ \A i \in 1..emitted[s] : response'[s][i] = response[s][i]
          /\ response'[s][emitted[s] + 1] = e
      BY <2>3, <3>3, <3>4, AppendProperties
    <3>6. emitted'[s] = emitted[s] + 1
      BY <2>2, <3>2 DEF PredTypeOK
    <3>7. \A i \in 1..Len(response'[s]) : i \in 1..emitted[s] \/ i = emitted[s] + 1
      BY <2>1, <3>2, <3>5
    <3>8. \A i \in 1..emitted[s] :
              response'[s][i].event = "token" => response'[s][i] = Token(s, i)
      BY <2>6, <3>4, <3>5 DEF AloneInv
    <3> QED BY <3>2, <3>5, <3>6, <3>7, <3>8 DEF e
  <2> QED BY <1>0, <2>2, <2>5, <2>6 DEF AloneInv
<1>5. ASSUME NEW r \in Requests, Publish(r) PROVE AloneInv'
  BY <1>5 DEF Publish, ModeInv
<1>6. ASSUME NEW c \in Chats, Deliver(c) PROVE AloneInv'
  BY <1>6 DEF Deliver, ModeInv
<1>7. ASSUME NEW r \in Requests, Queued(r) PROVE AloneInv'
  BY <1>7 DEF Queued, ModeInv
<1>8. ASSUME UNCHANGED <<response, channel, emitted, client>> PROVE AloneInv'
  BY <1>1, <1>8
<1> QED
  BY <1>2, <1>3, <1>4, <1>5, <1>6, <1>7, <1>8, StreamSteps

-----------------------------------------------------------------------------
LEMMA PredAlways == PredSpec => []PredInv
<1>1. PredInit => PredInv
  BY InitRest
<1>2. PredInv /\ [PredNext]_predVars => PredInv'
  BY TypeStep, ModeStep, JobStep, ChatStep, FreshStep, AbortStep, ChannelStep,
     ResponseStep, OrderStep, AloneStep DEF PredInv
<1> QED
  BY <1>1, <1>2, PTL DEF PredSpec

(* Every variable keeps its type, through crashes, late aborts and jobs    *)
(* that are run again.                                                     *)
THEOREM PredTypeCorrect == PredSpec => []PredTypeOK
<1>1. PredInv => PredTypeOK
  BY DEF PredInv
<1> QED BY <1>1, PredAlways, PTL

(* An abort finds the run it names: while a run shares its time with no    *)
(* other request of its chat, the pool of its process has its controller,  *)
(* whichever worker it is at and after any crash; and the server keeps no  *)
(* controller of a run that is over (AbortControllerPool.ts 12-43,         *)
(* PredictionQueue.ts 89-94).                                              *)
THEOREM AbortsFindTheirRun == PredSpec => []AbortFindsRun
<1>1. PredInv => AbortFindsRun
  BY DEF PredInv
<1> QED BY <1>1, PredAlways, PTL

(* What a response has got is in order and stops at its end, for any       *)
(* overlap of requests, lost and late tokens, and results that overtake    *)
(* them (SSEStreamer.ts 24-70, RedisEventSubscriber.ts 52-76).             *)
THEOREM TokensComeInOrder == PredSpec => []TokensInOrder
<1>1. PredInv => TokensInOrder
  <2> SUFFICES ASSUME PredInv PROVE TokensInOrder
    OBVIOUS
  <2>1. \A r \in Requests : response[r] \in Seq(Events)
    BY DEF PredInv, PredTypeOK
  <2>2. \A r \in Requests : \A i \in 1..(Len(response[r]) - 1) : response[r][i].event # "end"
    BY <2>1 DEF PredInv, ResponseInv
  <2>3. \A r \in Requests : r \notin rerun => Consecutive(r, response[r])
    BY DEF PredInv, OrderInv
  <2>4. \A r \in Requests : \A i \in 1..Len(response[r]) :
            response[r][i].event = "token" =>
                /\ ChatOf[response[r][i].run] = ChatOf[r]
                /\ setup.mode = "server" /\ r \in lone => response[r][i] = Token(r, i)
    BY DEF PredInv, ResponseInv, AloneInv
  <2> QED BY <2>2, <2>3, <2>4 DEF TokensInOrder
<1> QED BY <1>1, PredAlways, PTL
=============================================================================
