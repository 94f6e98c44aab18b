----------------------------- MODULE AgentTurn -----------------------------
(***************************************************************************)
(* A turn of a session with a tool agent: ToolAgent_Agents.run() of        *)
(* components/nodes/agents/ToolAgent/ToolAgent.ts inside executeFlow() of  *)
(* server/src/utils/buildChatflow.ts.  The question is moderated and       *)
(* judged, the agent plans with the memory of the session, its output is   *)
(* judged, memory and chat messages are written.                           *)
(*                                                                         *)
(* The memory is one of two kinds.  The database memory (BufferMemory)     *)
(* reads the chat messages the server writes; an external one (here the    *)
(* Redis-backed) has a list of its own that the agent appends to, and that *)
(* Redis drops when a session TTL is set and it was not used for so long.  *)
(*                                                                         *)
(* A text is known by the turn it belongs to.  What AgentExecutor does     *)
(* inside a turn is in the module of that name; here it plans a number of  *)
(* times, and answers or throws.                                           *)
(***************************************************************************)
EXTENDS Integers, SequencesExt

CONSTANTS
    Turns,      \* the requests of the session
    Setups,     \* how the node may be configured
    MaxPlans    \* calls of the model in a turn

TurnSetups ==
    [memory    : {"database", "external"},
     moderated : BOOLEAN,
     judged    : SUBSET {"input", "output"},   \* which criteria are set
     expires   : BOOLEAN,                      \* a session TTL is set (external memory)
     logFails  : BOOLEAN,                      \* writes of the audit log may fail
     overlap   : Nat,                          \* other turns a turn may overlap with
     requests  : Nat]                          \* a bound on the requests

ASSUME SetupsAssumption == Setups \subseteq TurnSetups

VARIABLES
    setup,      \* how the node is configured
    clock,      \* the time
    rows,       \* the chat messages in the database
    list,       \* the messages of an external memory
    volatile,   \* its key has an expiry date
    log,        \* the agent's entries in the audit log
    turn,       \* request -> the locals of its turn
    sent        \* request -> the memories its plans sent to the model (history)

turnVars == <<setup, clock, rows, list, volatile, log, turn, sent>>

Live == {"moderation", "inputCheck", "planning", "outputCheck", "storing", "expiring",
         "storing2", "expiring2", "question", "answer"}

Results == {"none", "refused", "answer", "warned"}

Question(t)       == [role |-> "userMessage", turn |-> t, text |-> "question"]
Answer(t, result) == [role |-> "apiMessage", turn |-> t, text |-> result]
Dated(message, at) == [message |-> message, at |-> at]

TurnInit ==
    /\ setup \in Setups
    /\ clock = 0
    /\ rows = {}
    /\ list = <<>>
    /\ volatile = FALSE
    /\ log = <<>>
    /\ turn = [t \in Turns |-> [pc |-> "idle", at |-> 0, result |-> "none"]]
    /\ sent = [t \in Turns |-> <<>>]

Goto(t, place) == turn' = [turn EXCEPT ![t].pc = place]

(* A request arrives; its user message will bear this date. *)
Begin(t) ==
    /\ turn[t].pc = "idle"
    /\ Cardinality({s \in Turns : turn[s].pc \in Live}) <= setup.overlap
    /\ Cardinality({s \in Turns : turn[s].pc # "idle"}) < setup.requests
    /\ clock' = clock + 1
    /\ turn' = [turn EXCEPT ![t].pc = "moderation", ![t].at = clock + 1]
    /\ UNCHANGED <<setup, rows, list, volatile, log, sent>>

-----------------------------------------------------------------------------
(* The reason is the answer, but run() goes on. *)
BugRefuse(t) == turn' = [turn EXCEPT ![t].pc = "planning", ![t].result = "refused"]

(* run() returns without asking the agent: the reason is the answer. *)
Refuse(t) == turn' = [turn EXCEPT ![t].pc = "question", ![t].result = "refused"]

Moderate(t) ==
    /\ turn[t].pc = "moderation"
    /\ \/ Goto(t, "inputCheck")
       \/ setup.moderated /\ Refuse(t)
    /\ UNCHANGED <<setup, clock, rows, list, volatile, log, sent>>

(* The name the entries of tool calls use. *)
BugJudged(t, type, valid) ==
    log' = Append(log, [type |-> "tool_validation", turn |-> t, valid |-> valid])

(* appendAgentAuditEntry(); a write that fails is swallowed. *)
Judged(t, type, valid) ==
    \/ log' = Append(log, [type |-> type, turn |-> t, valid |-> valid])
    \/ setup.logFails /\ UNCHANGED log

(* The question passes, when nobody judges or the judge errs. *)
CheckInput(t) ==
    /\ turn[t].pc = "inputCheck"
    /\ IF "input" \in setup.judged
       THEN \E valid \in BOOLEAN :
                /\ Judged(t, "agent_input_validation", valid)
                /\ IF valid THEN Goto(t, "planning") ELSE Refuse(t)
       ELSE Goto(t, "planning") /\ UNCHANGED log
    /\ UNCHANGED <<setup, clock, rows, list, volatile, sent>>

-----------------------------------------------------------------------------
(* The row whose date is the i-th. *)
Nth(i) == CHOOSE row \in rows : Cardinality({r \in rows : r.at <= row.at}) = i

(* What a plan remembers: the chat messages of the session by their date,  *)
(* or the list.                                                            *)
Recall ==
    IF setup.memory = "database"
    THEN [i \in 1..Cardinality(rows) |-> Nth(i).message]
    ELSE list

(* Every call of the model is remembered. *)
BugPlan(t) ==
    /\ turn[t].pc = "planning"
    /\ Len(sent[t]) < MaxPlans
    /\ sent' = [sent EXCEPT ![t] = Append(@, Recall)]
    /\ list' = IF setup.memory = "external" THEN Append(list, Answer(t, "answer")) ELSE list
    /\ \/ Goto(t, "outputCheck")
       \/ Len(sent[t]) + 1 < MaxPlans /\ UNCHANGED turn
    /\ UNCHANGED <<setup, clock, rows, volatile, log>>

(* The model is asked, with the memory as it is now.  It answers, or calls *)
(* tools and is asked again.                                               *)
Plan(t) ==
    /\ turn[t].pc = "planning"
    /\ Len(sent[t]) < MaxPlans
    /\ sent' = [sent EXCEPT ![t] = Append(@, Recall)]
    /\ \/ Goto(t, "outputCheck")
       \/ Len(sent[t]) + 1 < MaxPlans /\ UNCHANGED turn
    /\ UNCHANGED <<setup, clock, rows, list, volatile, log>>

(* The output is judged; one that is not valid gets a warning. *)
CheckOutput(t) ==
    /\ turn[t].pc = "outputCheck"
    /\ \E valid \in BOOLEAN :
          /\ IF "output" \in setup.judged
             THEN Judged(t, "agent_output_validation", valid)
             ELSE valid /\ UNCHANGED log
          /\ turn' = [turn EXCEPT ![t].pc = "storing",
                                  ![t].result = IF valid THEN "answer" ELSE "warned"]
    /\ UNCHANGED <<setup, clock, rows, list, volatile, sent>>

(* What the model said is stored, not what the judge made of it. *)
BugStoredAnswer(t) == Answer(t, "answer")

StoredAnswer(t) == Answer(t, turn[t].result)

(* The place after a push: the expiry comes next, when there is a TTL. *)
Pushed(t, expiry, next) == Goto(t, IF setup.expires THEN expiry ELSE next)

(* Without a wait between them, the answer may be stored first. *)
BugStore(t) ==
    /\ turn[t].pc = "storing"
    /\ IF setup.memory = "external"
       THEN list' = list \o <<StoredAnswer(t), Question(t)>> ELSE UNCHANGED list
    /\ Goto(t, "question")
    /\ UNCHANGED <<setup, clock, rows, volatile, log, sent>>

(* addChatMessages(): an external memory takes the question and then the   *)
(* answer; the database memory leaves both to the server.                  *)
Store(t) ==
    /\ turn[t].pc = "storing"
    /\ IF setup.memory = "external"
       THEN list' = Append(list, Question(t)) /\ Pushed(t, "expiring", "storing2")
       ELSE UNCHANGED list /\ Goto(t, "question")
    /\ UNCHANGED <<setup, clock, rows, volatile, log, sent>>

StoreAnswer(t) ==
    /\ turn[t].pc = "storing2"
    /\ list' = Append(list, StoredAnswer(t))
    /\ Pushed(t, "expiring2", "question")
    /\ UNCHANGED <<setup, clock, rows, volatile, log, sent>>

(* client.expire(), after each push: it has no effect on a key that is not *)
(* there.                                                                  *)
Expire(t) ==
    /\ \/ turn[t].pc = "expiring" /\ Goto(t, "storing2")
       \/ turn[t].pc = "expiring2" /\ Goto(t, "question")
    /\ volatile' = (list # <<>>)
    /\ UNCHANGED <<setup, clock, rows, list, log, sent>>

(* The date has come: Redis drops the list.  A push makes a new one, which *)
(* has no date yet.                                                        *)
Lapse ==
    /\ volatile
    /\ volatile' = FALSE
    /\ list' = <<>>
    /\ UNCHANGED <<setup, clock, rows, log, turn, sent>>

-----------------------------------------------------------------------------
(* executeFlow() writes the messages of the turn, after run(); the         *)
(* question bears the date the request arrived.                            *)
SaveQuestion(t) ==
    /\ turn[t].pc = "question"
    /\ rows' = rows \cup {Dated(Question(t), turn[t].at)}
    /\ Goto(t, "answer")
    /\ UNCHANGED <<setup, clock, list, volatile, log, sent>>

SaveAnswer(t) ==
    /\ turn[t].pc = "answer"
    /\ clock' = clock + 1
    /\ rows' = rows \cup {Dated(Answer(t, turn[t].result), clock + 1)}
    /\ Goto(t, "done")
    /\ UNCHANGED <<setup, list, volatile, log, sent>>

(* A model, a tool, the memory or the database throws: the request fails.  *)
Fails(t) ==
    /\ turn[t].pc \in {"planning", "storing", "expiring", "storing2", "expiring2", "question",
                       "answer"}
    /\ Goto(t, "failed")
    /\ UNCHANGED <<setup, clock, rows, list, volatile, log, sent>>

TurnNext ==
    \/ \E t \in Turns :
          \/ Begin(t) \/ Moderate(t) \/ CheckInput(t) \/ Plan(t) \/ CheckOutput(t)
          \/ Store(t) \/ StoreAnswer(t) \/ Expire(t)
          \/ SaveQuestion(t) \/ SaveAnswer(t) \/ Fails(t)
    \/ Lapse

TurnSpec == TurnInit /\ [][TurnNext]_turnVars

-----------------------------------------------------------------------------
Messages ==
    {Question(t) : t \in Turns} \cup {Answer(t, result) : t \in Turns, result \in Results}

Entries == [type : {"agent_input_validation", "agent_output_validation"},
            turn : Turns, valid : BOOLEAN]

TurnTypeOK ==
    /\ setup \in Setups
    /\ clock \in Nat
    /\ rows \subseteq [message : Messages, at : Nat]
    /\ list \in Seq(Messages)
    /\ volatile \in BOOLEAN
    /\ log \in Seq(Entries)
    /\ turn \in [Turns -> [pc : Live \cup {"idle", "done", "failed"}, at : Nat, result : Results]]
    /\ sent \in [Turns -> Seq(Seq(Messages))]

Refused(t) == turn[t].result = "refused"

(* A question that moderation or the judge refused is not sent to the      *)
(* model, neither by its own turn nor, with an external memory, as the     *)
(* memory of another (ToolAgent.ts 196, 217).                              *)
RefusedStaysOut ==
    \A t \in Turns : Refused(t) =>
        /\ sent[t] = <<>>
        /\ setup.memory = "external" =>
              \A s \in Turns : \A i \in 1..Len(sent[s]) : ~ Contains(sent[s][i], Question(t))

(* Redis may drop the memory. *)
Forgetful == setup.memory = "external" /\ setup.expires

(* What the user is answered, what the session remembers and what the log  *)
(* says agree: the transcript of a finished turn has its question and its  *)
(* answer; an external memory has nothing of a turn that was refused, and  *)
(* the question of any other unless Redis may drop it; and a warning has   *)
(* its entry in the log unless writes fail, in which nothing else is ever  *)
(* called invalid (ToolAgent.ts 294-332, buildChatflow.ts 668-750,         *)
(* auditLog.ts 39-54).                                                     *)
AnswersOnRecord ==
    \A t \in Turns : turn[t].pc = "done" =>
        LET said     == Answer(t, turn[t].result)
            recorded == {row.message : row \in rows}
            warned   == [type |-> "agent_output_validation", turn |-> t, valid |-> FALSE]
        IN  /\ {Question(t), said} \subseteq recorded
            /\ \A m \in recorded \cup ToSet(list) : m.turn = t => m \in {Question(t), said}
            /\ Refused(t) => \A m \in ToSet(list) : m.turn # t
            /\ setup.memory = "external" /\ ~ Refused(t) =>
                  Forgetful \/ Question(t) \in ToSet(list)
            /\ Contains(log, warned) => turn[t].result = "warned"
            /\ turn[t].result = "warned" => setup.logFails \/ Contains(log, warned)

(* While turns do not overlap, what the session remembers is a             *)
(* conversation: each answer comes right after its question, and turns     *)
(* come in the order of their requests.  Only the first message may be an  *)
(* answer alone, whose question Redis dropped (RedisBackedChatMemory.ts    *)
(* 174-194, buildChatflow.ts 255, 676).                                    *)
Conversation ==
    setup.overlap = 0 =>
        \A i \in 1..Len(Recall) :
            /\ Recall[i].role = "apiMessage" =>
                  \/ i > 1 /\ Recall[i - 1] = Question(Recall[i].turn)
                  \/ i = 1 /\ Forgetful
            /\ \A j \in 1..(i - 1) : turn[Recall[j].turn].at <= turn[Recall[i].turn].at

(* Every plan of a turn reads the memory anew.  It finds all the plans     *)
(* before it did, and more when turns overlap, or nothing of it, when      *)
(* Redis dropped the list; without overlap, what the turns before it left, *)
(* or nothing (ToolAgent.ts 442, RedisBackedChatMemory.ts 184, 191).       *)
RecallGrows ==
    \A t \in Turns : \A i \in 2..Len(sent[t]) :
        LET before == sent[t][i - 1]
            now    == sent[t][i]
        IN  /\ \/ ToSet(before) \subseteq ToSet(now)
               \/ Forgetful /\ ToSet(before) \cap ToSet(now) = {}
            /\ setup.overlap = 0 => now = before \/ (Forgetful /\ now = <<>>)
=============================================================================
