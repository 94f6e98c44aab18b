----------------------------- MODULE Prediction -----------------------------
(***************************************************************************)
(* The life of a prediction: the request, its run, its event stream and    *)
(* its abortion, in one server that runs flows itself or in a server with  *)
(* a prediction queue and workers (MODE=queue).                            *)
(*   controllers/predictions, controllers/internal-predictions,            *)
(*   utils/buildChatflow.ts utilBuildChatflow(), AbortControllerPool.ts,   *)
(*   utils/SSEStreamer.ts, queue/PredictionQueue.ts,                       *)
(*   queue/RedisEventSubscriber.ts, queue/RedisEventPublisher.ts,          *)
(*   services/chat-messages abortChatMessage(), commands/worker.ts.        *)
(*                                                                         *)
(* Abort controllers and event streams are kept by chat; one flow is       *)
(* modelled, so the key chatflow_chat is the chat.  Results of jobs and    *)
(* abort events travel in the event stream of BullMQ, tokens through       *)
(* Redis channels: two ways that are not ordered with each other.          *)
(***************************************************************************)
EXTENDS Integers, SequencesExt

CONSTANTS
    Requests,
    ChatOf,     \* the chat a request belongs to
    Workers,
    Setups,     \* the set-ups to look at
    None

Chats == {ChatOf[r] : r \in Requests}

PredictionSetups ==
    [mode      : {"server", "queue"},
     agentflow : BOOLEAN,           \* a run that streams anyhow and minds the signal
     requests  : SUBSET Requests,   \* the requests that may come
     workers   : SUBSET Workers,
     tokens    : Nat,               \* tokens of a run, at most
     crashes   : Nat]               \* crashes of workers, at most

ASSUME PredictionAssumption ==
    /\ DOMAIN ChatOf = Requests
    /\ Setups \subseteq PredictionSetups
    /\ None \notin Requests \cup Workers \cup {"metadata", "error"}

VARIABLES
    setup,
    phase,      \* where a request is
    streams,    \* the requests that asked for an event stream
    client,     \* SSEStreamer: chat -> the request whose response gets its events
    response,   \* request -> the events written to its response
    pool,       \* AbortControllerPool of the server: chat -> the run it would abort
    aborted,    \* the runs whose signal is set
    emitted,    \* run -> the tokens it has sent
    jobs,       \* the queue: jobs that no worker has taken
    at,         \* job -> the worker that runs it
    wpool,      \* worker -> its AbortControllerPool
    results,    \* job -> its result, on the way to the server
    channel,    \* chat -> its events in Redis, on the way to the server
    subscribed, \* chat -> what the server is to its channel
    signals,    \* worker -> the chats whose abort event is on the way to it
    crashes,
    lone,       \* requests that share no time with another of their chat (history)
    rerun       \* jobs that a crash has sent back to the queue (history)

serverVars == <<phase, streams, client, response, pool>>
queueVars  == <<jobs, at, wpool, results, channel, subscribed, signals, crashes, rerun>>
predVars   == <<setup, aborted, emitted, lone, serverVars, queueVars>>

Open == {"checking", "running"}

PredInit ==
    /\ setup \in Setups
    /\ phase = [r \in Requests |-> "idle"]
    /\ streams = {}
    /\ client = [c \in Chats |-> None]
    /\ response = [r \in Requests |-> <<>>]
    /\ pool = [c \in Chats |-> None]
    /\ aborted = {}
    /\ emitted = [r \in Requests |-> 0]
    /\ jobs = <<>>
    /\ at = [r \in Requests |-> None]
    /\ wpool = [w \in Workers |-> [c \in Chats |-> None]]
    /\ results = [r \in Requests |-> None]
    /\ channel = [c \in Chats |-> <<>>]
    /\ subscribed = [c \in Chats |-> "no"]
    /\ signals = [w \in Workers |-> {}]
    /\ crashes = 0
    /\ lone = Requests
    /\ rerun = {}

Token(r, n)  == [event |-> "token", run |-> r, no |-> n]
Event(name)  == [event |-> name, run |-> None, no |-> 0]

Drop(where, c) == [where EXCEPT ![c] = None]

-----------------------------------------------------------------------------
(* SSEStreamer *)

(* An event of a chat goes to the response its clients map has. *)
Write(c, events) ==
    response' = IF client[c] = None THEN response
                ELSE [response EXCEPT ![client[c]] = @ \o events]

RemoveClient(c) == client' = Drop(client, c)

(* The end of a request that streams: its last event, and removeClient()   *)
(* of its chat, whoever's response that is by now.                         *)
Respond(r, event) ==
    /\ phase' = [phase EXCEPT ![r] = "done"]
    /\ IF r \in streams
       THEN /\ Write(ChatOf[r], <<Event(event), Event("end")>>)
            /\ RemoveClient(ChatOf[r])
       ELSE UNCHANGED <<client, response>>

-----------------------------------------------------------------------------
(* The server. *)

(* Subscribing to a channel is not awaited, and happens once. *)
Subscribe(r, streaming) ==
    subscribed' =
        IF setup.mode = "queue" /\ streaming /\ subscribed[ChatOf[r]] = "no"
        THEN [subscribed EXCEPT ![ChatOf[r]] = "pending"] ELSE subscribed

Arrive(r, streaming) ==
    LET c      == ChatOf[r]
        rivals == {s \in Requests : ChatOf[s] = c /\ phase[s] \in Open}
    IN  /\ phase[r] = "idle" /\ r \in setup.requests
        /\ phase' = [phase EXCEPT ![r] = "checking"]
        /\ streams' = IF streaming THEN streams \cup {r} ELSE streams
        /\ client' = IF streaming THEN [client EXCEPT ![c] = r] ELSE client
        /\ Subscribe(r, streaming)
        /\ lone' = IF rivals = {} THEN lone ELSE lone \ (rivals \cup {r})
        /\ UNCHANGED <<setup, aborted, emitted, response, pool, jobs, at, wpool, results,
                       channel, signals, crashes, rerun>>

(* A request that is refused is left without an answer. *)
BugRefuse(r) ==
    /\ phase[r] = "checking"
    /\ phase' = [phase EXCEPT ![r] = "done"]
    /\ pool' \in {pool, Drop(pool, ChatOf[r])}
    /\ UNCHANGED <<setup, aborted, emitted, streams, lone, client, response, queueVars>>

(* The flow is gone, or the key is not valid: in the second case the       *)
(* controller of the chat is removed, though this request has none.        *)
Refuse(r) ==
    /\ phase[r] = "checking"
    /\ pool' \in {pool, Drop(pool, ChatOf[r])}
    /\ Respond(r, "error")
    /\ UNCHANGED <<setup, aborted, emitted, streams, lone, queueVars>>

(* The controller is registered only when the request streams. *)
BugRegister(r) == pool' = IF r \in streams THEN [pool EXCEPT ![ChatOf[r]] = r] ELSE pool

Register(r) == pool' = [pool EXCEPT ![ChatOf[r]] = r]

(* The run begins, or its job is added to the queue. *)
Start(r) ==
    /\ phase[r] = "checking"
    /\ phase' = [phase EXCEPT ![r] = "running"]
    /\ IF setup.mode = "server"
       THEN Register(r) /\ UNCHANGED jobs
       ELSE jobs' = Append(jobs, r) /\ UNCHANGED pool
    /\ UNCHANGED <<setup, aborted, emitted, lone, streams, client, response, at, wpool,
                   results, channel, subscribed, signals, crashes, rerun>>

(* An aborted run returns nothing, and nobody looks at that. *)
BugEnds(r) == IF r \in aborted /\ setup.agentflow THEN {None} ELSE {"metadata", "error"}

(* How a run may end.  An aborted one may still end well: a chatflow need  *)
(* not mind its signal, an agentflow does so only before a node.           *)
Ends(r) == {"metadata", "error"}

Streaming(r) == (r \in streams \/ setup.agentflow) /\ emitted[r] < setup.tokens

(* A run of the server sends a token, or is over. *)
Emit(r) ==
    /\ setup.mode = "server" /\ phase[r] = "running" /\ Streaming(r)
    /\ emitted' = [emitted EXCEPT ![r] = @ + 1]
    /\ Write(ChatOf[r], <<Token(r, emitted[r] + 1)>>)
    /\ UNCHANGED <<setup, aborted, lone, phase, streams, client, pool, queueVars>>

RunEnds(r) ==
    /\ setup.mode = "server" /\ phase[r] = "running"
    /\ \E event \in Ends(r) : Respond(r, event)
    /\ pool' = Drop(pool, ChatOf[r])
    /\ UNCHANGED <<setup, aborted, emitted, streams, lone, queueVars>>

(* The event about the job arrives: waitUntilFinished() returns. *)
ResultArrives(r) ==
    /\ phase[r] = "running" /\ results[r] # None
    /\ Respond(r, results[r])
    /\ pool' = Drop(pool, ChatOf[r])
    /\ UNCHANGED <<setup, aborted, emitted, streams, lone, queueVars>>

-----------------------------------------------------------------------------
(* Queue, workers and Redis. *)

(* processJob(): the worker makes a controller for the run.  Nothing       *)
(* removes it when the run is over.                                        *)
TakeJob(w) ==
    /\ jobs # <<>> /\ w \in setup.workers
    /\ LET r == Head(jobs)
       IN  /\ at' = [at EXCEPT ![r] = w]
           /\ wpool' = [wpool EXCEPT ![w][ChatOf[r]] = r]
           /\ aborted' = aborted \ {r}
           /\ emitted' = [emitted EXCEPT ![r] = 0]
    /\ jobs' = Tail(jobs)
    /\ UNCHANGED <<setup, lone, serverVars, results, channel, subscribed, signals, crashes,
                   rerun>>

(* What is published to a channel nobody has subscribed to is lost. *)
Publish(r) ==
    /\ at[r] # None /\ Streaming(r)
    /\ emitted' = [emitted EXCEPT ![r] = @ + 1]
    /\ channel' = IF subscribed[ChatOf[r]] = "yes"
                  THEN [channel EXCEPT ![ChatOf[r]] = Append(@, Token(r, emitted[r] + 1))]
                  ELSE channel
    /\ UNCHANGED <<setup, aborted, lone, serverVars, jobs, at, wpool, results, subscribed,
                   signals, crashes, rerun>>

JobEnds(r) ==
    /\ at[r] # None
    /\ \E event \in Ends(r) : results' = [results EXCEPT ![r] = event]
    /\ at' = [at EXCEPT ![r] = None]
    /\ UNCHANGED <<setup, aborted, emitted, lone, serverVars, jobs, wpool, channel,
                   subscribed, signals, crashes, rerun>>

Subscribed(c) ==
    /\ subscribed[c] = "pending"
    /\ subscribed' = [subscribed EXCEPT ![c] = "yes"]
    /\ UNCHANGED <<setup, aborted, emitted, lone, serverVars, jobs, at, wpool, results,
                   channel, signals, crashes, rerun>>

(* An event is handled in the middle of the others. *)
BugDeliver(c) ==
    /\ channel[c] # <<>>
    /\ Write(c, <<Last(channel[c])>>)
    /\ channel' = [channel EXCEPT ![c] = Front(@)]
    /\ UNCHANGED <<setup, aborted, emitted, lone, phase, streams, client, pool, jobs, at,
                   wpool, results, subscribed, signals, crashes, rerun>>

(* handleEvent() of the server. *)
Deliver(c) ==
    /\ channel[c] # <<>>
    /\ Write(c, <<Head(channel[c])>>)
    /\ channel' = [channel EXCEPT ![c] = Tail(@)]
    /\ UNCHANGED <<setup, aborted, emitted, lone, phase, streams, client, pool, jobs, at,
                   wpool, results, subscribed, signals, crashes, rerun>>

(* A worker crashes and is started again.  The queue hands its jobs out    *)
(* anew; abort events it has not handled are lost.                         *)
Crash(w) ==
    LET mine == {r \in Requests : at[r] = w}
    IN  /\ w \in setup.workers /\ crashes < setup.crashes
        /\ crashes' = crashes + 1
        /\ jobs' = jobs \o SetToSeq(mine)
        /\ at' = [r \in Requests |-> IF r \in mine THEN None ELSE at[r]]
        /\ wpool' = [wpool EXCEPT ![w] = [c \in Chats |-> None]]
        /\ signals' = [signals EXCEPT ![w] = {}]
        /\ rerun' = rerun \cup mine
        /\ UNCHANGED <<setup, aborted, emitted, lone, serverVars, results, channel, subscribed>>

-----------------------------------------------------------------------------
(* A user aborts the run of a chat: abortChatMessage(). *)
Abort(c) ==
    /\ IF setup.mode = "queue"
       THEN /\ signals' = [w \in Workers |->
                               IF w \in setup.workers THEN signals[w] \cup {c} ELSE {}]
            /\ UNCHANGED <<aborted, pool>>
       ELSE /\ pool[c] # None
            /\ aborted' = aborted \cup {pool[c]}
            /\ pool' = Drop(pool, c)
            /\ UNCHANGED signals
    /\ UNCHANGED <<setup, emitted, lone, phase, streams, client, response, jobs, at, wpool,
                   results, channel, subscribed, crashes, rerun>>

(* The abort event reaches a worker. *)
HandleAbort(w, c) ==
    /\ c \in signals[w]
    /\ signals' = [signals EXCEPT ![w] = @ \ {c}]
    /\ aborted' = aborted \cup ({wpool[w][c]} \ {None})
    /\ wpool' = [wpool EXCEPT ![w] = Drop(@, c)]
    /\ UNCHANGED <<setup, emitted, lone, serverVars, jobs, at, results, channel, subscribed,
                   crashes, rerun>>

-----------------------------------------------------------------------------
Advance(r) == Refuse(r) \/ Start(r) \/ RunEnds(r) \/ ResultArrives(r) \/ JobEnds(r)

PredNext ==
    \/ \E r \in Requests :
          \/ \E streaming \in BOOLEAN : Arrive(r, streaming)
          \/ Refuse(r) \/ Start(r) \/ Emit(r) \/ RunEnds(r)
          \/ ResultArrives(r) \/ Publish(r) \/ JobEnds(r)
    \/ \E w \in Workers :
          TakeJob(w) \/ Crash(w) \/ \E c \in Chats : HandleAbort(w, c)
    \/ \E c \in Chats : Subscribed(c) \/ Deliver(c) \/ Abort(c)

(* Runs come to an end, some worker takes jobs, and events arrive.  Nobody *)
(* need send a request, abort or crash.                                    *)
PredSpec ==
    /\ PredInit /\ [][PredNext]_predVars
    /\ \A r \in Requests : WF_predVars(Advance(r))
    /\ WF_predVars(\E w \in Workers : TakeJob(w))
    /\ \A c \in Chats : WF_predVars(Subscribed(c)) /\ WF_predVars(Deliver(c))

-----------------------------------------------------------------------------
Events == {Token(r, n) : r \in Requests, n \in 1..setup.tokens}
              \cup {Event(name) : name \in {"metadata", "error", "end"}}

PredTypeOK ==
    /\ setup \in Setups
    /\ phase \in [Requests -> Open \cup {"idle", "done"}]
    /\ streams \subseteq Requests
    /\ client \in [Chats -> Requests \cup {None}]
    /\ response \in [Requests -> Seq(Events)]
    /\ pool \in [Chats -> Requests \cup {None}]
    /\ aborted \subseteq Requests
    /\ emitted \in [Requests -> 0..setup.tokens]
    /\ jobs \in Seq(Requests)
    /\ at \in [Requests -> Workers \cup {None}]
    /\ wpool \in [Workers -> [Chats -> Requests \cup {None}]]
    /\ results \in [Requests -> {"metadata", "error", None}]
    /\ channel \in [Chats -> Seq(Events)]
    /\ subscribed \in [Chats -> {"no", "pending", "yes"}]
    /\ signals \in [Workers -> SUBSET Chats]
    /\ crashes \in 0..setup.crashes
    /\ lone \subseteq Requests
    /\ rerun \subseteq Requests

(* A run can be aborted: while it runs, and no other request of its chat   *)
(* interferes, the pool of its process has its controller, until it is     *)
(* aborted; and the pool of a server has no controller of a run that is    *)
(* over or aborted, so no abort is spent on one (AbortControllerPool.ts    *)
(* 12-43, buildChatflow.ts 894-904, PredictionQueue.ts 89-94).             *)
AbortFindsRun ==
    /\ \A r \in lone :
          /\ setup.mode = "server" /\ phase[r] = "running" /\ r \notin aborted
                => pool[ChatOf[r]] = r
          /\ at[r] # None /\ r \notin aborted => wpool[at[r]][ChatOf[r]] = r
    /\ \A c \in Chats : pool[c] # None =>
          phase[pool[c]] = "running" /\ pool[c] \notin aborted

(* Where the tokens of a run are in a sequence of events.                  *)
Own(r, events) == {i \in 1..Len(events) : events[i].event = "token" /\ events[i].run = r}

(* They come in order, none twice and none missing between two.            *)
Consecutive(r, events) ==
    \A i, j \in Own(r, events) :
        i < j /\ (\A k \in Own(r, events) : ~ (i < k /\ k < j)) =>
            events[j].no = events[i].no + 1

(* Nothing is written to a response after its end, whoever ended it.  The  *)
(* tokens of its own run come in order, none twice and none missing        *)
(* between two, unless a crash has its job run again; there are others     *)
(* only of its chat; in server mode, if no other request of the chat       *)
(* interferes, its tokens are the first events of the response and there   *)
(* are no others (SSEStreamer.ts 24-70, RedisEventSubscriber.ts 52-76).    *)
TokensInOrder ==
    \A r \in Requests :
        /\ \A i \in 1..(Len(response[r]) - 1) : response[r][i].event # "end"
        /\ r \notin rerun => Consecutive(r, response[r])
        /\ \A i \in 1..Len(response[r]) : response[r][i].event = "token" =>
              /\ ChatOf[response[r][i].run] = ChatOf[r]
              /\ setup.mode = "server" /\ r \in lone => response[r][i] = Token(r, i)

(* Every request is answered; the response of one that streams ends, if no *)
(* other request of its chat interferes - also when its flow is refused,   *)
(* its run fails or is aborted, its worker crashes, or it was answered     *)
(* before it was subscribed (controllers/predictions 65-86).               *)
EveryResponseEnds ==
    \A r \in Requests :
        phase[r] \in Open ~>
            /\ phase[r] = "done"
            /\ r \in streams \cap lone => response[r] # <<>> /\ Last(response[r]).event = "end"
=============================================================================
