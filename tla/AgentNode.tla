------------------------------ MODULE AgentNode ------------------------------
(***************************************************************************)
(* The agent node of an agentflow:                                         *)
(* components/nodes/agentflow/Agent/Agent.ts, with the lines of            *)
(* buildAgentflow.ts that stop the execution when it asks and resume it    *)
(* with the answer.  The node calls the tools its model asks for, round    *)
(* after round, and stops before a tool that requires a human; the         *)
(* messages so far are the checkpoint a later request resumes from.        *)
(*                                                                         *)
(* The flow is this node alone.  A message is what the loop tells apart of *)
(* it: its role and the answer of the model it belongs to.                 *)
(***************************************************************************)
EXTENDS Integers, SequencesExt

CONSTANTS
    Runs,       \* the requests of the session
    Names,      \* the names of tools a model may come up with
    Agents,     \* the configurations of the node
    MaxCalls,   \* tool calls in one answer of the model
    MaxRounds   \* answers with tool calls in an execution; the code sets no limit

AgentConfigs ==
    [tools       : SUBSET Names,   \* what the node has
     required    : SUBSET Names,   \* "Require Human Input" is set
     listed      : SUBSET Names,   \* come as a list of tools (MCP)
     direct      : SUBSET Names,   \* returnDirect
     inIteration : BOOLEAN,        \* the node is inside an iteration
     overlap     : BOOLEAN]        \* requests of the session may overlap

ASSUME AgentsAssumption ==
    /\ Agents \subseteq AgentConfigs
    /\ MaxCalls \in Nat /\ MaxRounds \in Nat

VARIABLES
    agent,      \* the configuration
    execution,  \* the row: its state and the messages of its checkpoint
    answers,    \* the tool calls of each answer of the model: their names
    run,        \* request -> the locals of its run
    ran,        \* the tool calls that were made, in order (history)
    shown,      \* the calls a human was asked about (history)
    decisions   \* the answers a human decided about, and how (history)

nodeVars == <<agent, execution, answers, run, ran, shown, decisions>>

Live    == {"claiming", "model", "calls", "ending"}
Endings == {"finished", "stopped", "failed", "refused"}
Modes   == {"fresh", "proceed", "reject"}

User         == [role |-> "user", round |-> 0, pos |-> 0]
Assistant(k) == [role |-> "assistant", round |-> k, pos |-> 0]
Tool(k, i)   == [role |-> "tool", round |-> k, pos |-> i]
Messages     == [role : {"user", "assistant", "tool"}, round : Nat, pos : Nat]

(* The flag is set on what init() of the tool returns: for a list of tools *)
(* it is set on the list and lost; inside an iteration it is not looked at.*)
Guarded(name) ==
    name \in agent.required \ agent.listed /\ ~ agent.inIteration

Locals(mode, messages) ==
    [pc       |-> "idle",
     mode     |-> mode,
     messages |-> messages,
     level    |-> 0,             \* nested calls of handleToolCalls()
     round    |-> 0,             \* the answer being processed
     resumed  |-> 0,             \* the answer that a human decided about
     next     |-> 1,             \* its next call
     tools    |-> agent.tools]   \* toolsInstance

NodeInit ==
    /\ agent \in Agents
    /\ execution = [state |-> "NONE", messages |-> <<>>]
    /\ answers = <<>>
    /\ run = [r \in Runs |-> Locals("fresh", <<>>)]
    /\ ran = <<>>
    /\ shown = {}
    /\ decisions = {}

-----------------------------------------------------------------------------
(* A request begins. *)

MayBegin(r) ==
    /\ run[r].pc = "idle"
    /\ agent.overlap \/ \A s \in Runs : run[s].pc \notin Live

(* A question: a new execution. *)
BeginNew(r) ==
    /\ MayBegin(r)
    /\ execution.state = "NONE"
    /\ execution' = [execution EXCEPT !.state = "INPROGRESS"]
    /\ run' = [run EXCEPT ![r] = [Locals("fresh", <<User>>) EXCEPT !.pc = "model"]]
    /\ UNCHANGED <<agent, answers, ran, shown, decisions>>

(* The answer to what the node asked: a request that finds the execution   *)
(* STOPPED takes its checkpoint.                                           *)
BeginResume(r, mode) ==
    /\ MayBegin(r)
    /\ IF execution.state = "STOPPED"
       THEN run' = [run EXCEPT ![r] =
                        [Locals(mode, execution.messages) EXCEPT !.pc = "claiming"]]
       ELSE run' = [run EXCEPT ![r].pc = "refused"]
    /\ UNCHANGED <<agent, execution, answers, ran, shown, decisions>>

(* Going on with the checkpoint as it is, the answer still at its end. *)
BugGoOnFrom(messages) == messages

(* The answer is taken off the checkpoint, to be put back by whoever       *)
(* handles its calls.                                                      *)
GoOnFrom(messages) == Front(messages)

(* Any last message is taken for the answer it belongs to. *)
BugClaim(r) ==
    /\ run[r].pc = "claiming"
    /\ execution' = [execution EXCEPT !.state = "INPROGRESS"]
    /\ LET last == Last(run[r].messages)
       IN  /\ decisions' = decisions \cup {<<last.round, run[r].mode>>}
           /\ run' = [run EXCEPT ![r].pc = "calls", ![r].round = last.round,
                                  ![r].resumed = last.round]
    /\ UNCHANGED <<agent, answers, ran, shown>>

(* The row is claimed and handleResumedToolCalls() starts: the last        *)
(* message of the checkpoint is taken for the answer to go on with.  When  *)
(* an earlier call of that answer has run, the last message is its result, *)
(* which has no tool calls, and the node ends with it.                     *)
Claim(r) ==
    /\ run[r].pc = "claiming"
    /\ execution' = [execution EXCEPT !.state = "INPROGRESS"]
    /\ LET last == Last(run[r].messages)
           rest == GoOnFrom(run[r].messages)
           k    == last.round
       IN  /\ decisions' = decisions \cup {<<k, run[r].mode>>}
           /\ IF last.role = "assistant"
              THEN run' = [run EXCEPT ![r].pc = "calls", ![r].round = k, ![r].resumed = k,
                                      ![r].messages = Append(rest, last)]
              ELSE run' = [run EXCEPT ![r].pc = "ending", ![r].resumed = k,
                                      ![r].messages = rest]
    /\ UNCHANGED <<agent, answers, ran, shown>>

-----------------------------------------------------------------------------
(* How a run ends: the node and then the execution. *)

End(r, state, place) ==
    /\ execution' = [execution EXCEPT !.state = state]
    /\ run' = [run EXCEPT ![r].pc = place]

(* The model answers without calling a tool, or there is nothing to resume. *)
NodeEnds(r) ==
    /\ run[r].pc \in {"model", "ending"}
    /\ End(r, "FINISHED", "finished")
    /\ UNCHANGED <<agent, answers, ran, shown, decisions>>

-----------------------------------------------------------------------------
(* The rounds. *)

(* The model answers with tool calls: handleToolCalls() is entered, or     *)
(* enters itself.                                                          *)
ModelCalls(r, names) ==
    /\ run[r].pc = "model"
    /\ Len(answers) < MaxRounds
    /\ answers' = Append(answers, names)
    /\ LET k == Len(answers) + 1
       IN  run' = [run EXCEPT ![r].pc = "calls", ![r].round = k, ![r].next = 1,
                              ![r].level = @ + 1,
                              ![r].messages = Append(@, Assistant(k))]
    /\ UNCHANGED <<agent, execution, ran, shown, decisions>>

(* The calls of a resumed answer are handled by handleResumedToolCalls(),  *)
(* all others by handleToolCalls().                                        *)
Resumed(r) == run[r].level = 0

Wanted(r) == answers[run[r].round][run[r].next]

AtCall(r) ==
    /\ run[r].pc = "calls"
    /\ run[r].next <= Len(answers[run[r].round])

(* The node has no such tool (any more): the call is passed over. *)
Unknown(r) ==
    /\ AtCall(r)
    /\ Wanted(r) \notin run[r].tools
    /\ run' = [run EXCEPT ![r].next = @ + 1]
    /\ UNCHANGED <<agent, execution, answers, ran, shown, decisions>>

(* The answer of the human covers the later rounds of the run too. *)
BugMayCallLater(r) ==
    /\ AtCall(r)
    /\ Wanted(r) \in run[r].tools
    /\ run[r].mode = "proceed" \/ (~ Resumed(r) /\ ~ Guarded(Wanted(r)))

(* A resumed answer is taken for an approved one. *)
BugMayCallResumed(r) ==
    /\ AtCall(r)
    /\ Wanted(r) \in run[r].tools
    /\ Resumed(r) \/ ~ Guarded(Wanted(r))

(* May the next call be made? *)
MayCall(r) ==
    /\ AtCall(r)
    /\ Wanted(r) \in run[r].tools
    /\ IF Resumed(r) THEN run[r].mode = "proceed" ELSE ~ Guarded(Wanted(r))

(* The tool is called and returns. *)
CallTool(r) ==
    /\ MayCall(r)
    /\ LET k == run[r].round
           i == run[r].next
       IN  /\ ran' = Append(ran, [round |-> k, pos |-> i, by |-> r])
           /\ run' = [run EXCEPT ![r].next = @ + 1,
                                 ![r].messages = Append(@, Tool(k, i))]
    /\ UNCHANGED <<agent, execution, answers, shown, decisions>>

(* The model, or the tool that is called, throws, or was aborted; or the   *)
(* answer of the human is neither "proceed" nor "reject", and the row goes *)
(* over INPROGRESS, which like ERROR refuses every request, to ERROR.      *)
Throws(r) ==
    /\ run[r].pc \in {"claiming", "model"} \/ MayCall(r)
    /\ \E state \in {"ERROR", "TERMINATED"} : End(r, state, "failed")
    /\ UNCHANGED <<agent, answers, ran, shown, decisions>>

(* The tool requires a human: the call is displayed and the loop is left.  *)
(* Only the outermost handleToolCalls() of a run is heard: the waiting of  *)
(* a nested one is dropped on the way out, and the node ends as if its     *)
(* model had answered with the question.                                   *)
AskHuman(r) ==
    /\ AtCall(r)
    /\ Wanted(r) \in run[r].tools
    /\ ~ Resumed(r) /\ Guarded(Wanted(r))
    /\ shown' = shown \cup {<<run[r].round, run[r].next>>}
    /\ IF run[r].level = 1
       THEN /\ execution' = [state |-> "STOPPED", messages |-> run[r].messages]
            /\ run' = [run EXCEPT ![r].pc = "stopped"]
       ELSE End(r, "FINISHED", "finished")
    /\ UNCHANGED <<agent, answers, ran, decisions>>

(* The tool stays with the node. *)
BugRejectCall(r) ==
    /\ AtCall(r)
    /\ Wanted(r) \in run[r].tools
    /\ Resumed(r) /\ run[r].mode = "reject"
    /\ run' = [run EXCEPT ![r].next = @ + 1, ![r].messages = Front(@)]
    /\ UNCHANGED <<agent, execution, answers, ran, shown, decisions>>

(* The rejected call is taken out of the conversation, and its tool from   *)
(* the node for the rest of the run.                                       *)
RejectCall(r) ==
    /\ AtCall(r)
    /\ Wanted(r) \in run[r].tools
    /\ Resumed(r) /\ run[r].mode = "reject"
    /\ run' = [run EXCEPT ![r].next = @ + 1,
                          ![r].messages = Front(@),
                          ![r].tools = @ \ {Wanted(r)}]
    /\ UNCHANGED <<agent, execution, answers, ran, shown, decisions>>

(* The last call is left out. *)
BugEndCalls(r) ==
    /\ run[r].pc = "calls"
    /\ run[r].next >= Len(answers[run[r].round])
    /\ run' = [run EXCEPT ![r].pc = "model"]
    /\ UNCHANGED <<agent, execution, answers, ran, shown, decisions>>

(* The calls of the answer are done: a single call of a tool that returns  *)
(* directly ends the node, otherwise the model is asked again.             *)
EndCalls(r) ==
    /\ run[r].pc = "calls"
    /\ LET names == answers[run[r].round]
       IN  /\ run[r].next > Len(names)
           /\ IF Len(names) = 1 /\ names[1] \in run[r].tools \cap agent.direct
              THEN End(r, "FINISHED", "finished")
              ELSE /\ run' = [run EXCEPT ![r].pc = "model"]
                   /\ UNCHANGED execution
    /\ UNCHANGED <<agent, answers, ran, shown, decisions>>

-----------------------------------------------------------------------------
Answers == UNION {[1..n -> Names] : n \in 1..MaxCalls}

Step(r) ==
    \/ Claim(r) \/ NodeEnds(r) \/ Throws(r) \/ Unknown(r) \/ CallTool(r)
    \/ AskHuman(r) \/ RejectCall(r) \/ EndCalls(r)
    \/ \E names \in Answers : ModelCalls(r, names)

NodeNext ==
    \E r \in Runs : \/ BeginNew(r)
                    \/ \E mode \in {"proceed", "reject"} : BeginResume(r, mode)
                    \/ Step(r)

NodeSpec == NodeInit /\ [][NodeNext]_nodeVars

-----------------------------------------------------------------------------
CallsOf(k) == {<<k, i>> : i \in 1..Len(answers[k])}
NameOf(call) == answers[call[1]][call[2]]

Made == {<<ran[j].round, ran[j].pos>> : j \in 1..Len(ran)}

NodeTypeOK ==
    /\ agent \in Agents
    /\ execution \in [state : {"NONE", "INPROGRESS", "STOPPED", "FINISHED", "ERROR",
                               "TERMINATED"}, messages : Seq(Messages)]
    /\ answers \in Seq(Seq(Names))
    /\ run \in [Runs -> [pc : {"idle"} \cup Live \cup Endings, mode : Modes,
                        messages : Seq(Messages), level : Nat, round : Nat,
                        resumed : Nat, next : Nat, tools : SUBSET Names]]
    /\ ran \in Seq([round : Nat, pos : Nat, by : Runs])
    /\ shown \subseteq Nat \X Nat
    /\ decisions \subseteq Nat \X {"proceed", "reject"}

(* A tool that requires a human is called only for an answer of the model  *)
(* that a human said "proceed" to, in whatever round it comes, through     *)
(* however many stops, and also when requests overlap (Agent.ts 1373-1389, *)
(* 1624-1631).                                                             *)
HumanFirst ==
    \A call \in Made : Guarded(NameOf(call)) => <<call[1], "proceed">> \in decisions

(* Stopping and resuming calls no tool twice for one call of the model, as *)
(* long as requests do not overlap (Agent.ts 1570-1588).                   *)
RanOnce ==
    ~ agent.overlap => \A i, j \in 1..Len(ran) :
        i # j => <<ran[i].round, ran[i].pos>> # <<ran[j].round, ran[j].pos>>

(* What a human rejected does not run, then or later, as long as requests  *)
(* do not overlap (Agent.ts 1624-1627).                                    *)
RejectedNeverRuns ==
    ~ agent.overlap => \A k \in 1..Len(answers) : <<k, "reject">> \in decisions =>
        \A call \in CallsOf(k) \cap Made : ~ Guarded(NameOf(call))

(* The run that was told "reject" calls none of the tools of the rejected  *)
(* answer any more, however often its model asks for them (Agent.ts 1626,  *)
(* 1370).                                                                  *)
RejectedToolsGone ==
    \A j \in 1..Len(ran) :
        LET r == ran[j].by
        IN  run[r].mode = "reject" =>
                \A call \in CallsOf(run[r].resumed) :
                    NameOf(call) # NameOf(<<ran[j].round, ran[j].pos>>)

(* A "proceed" is honoured: when the run it started has ended without an   *)
(* error, the call the human was shown has been made - unless a call of    *)
(* the same answer had run before the question, in which case the decision *)
(* is lost (Agent.ts 1577, 1586).                                          *)
ProceedHonoured ==
    \A r \in Runs :
        run[r].mode = "proceed" /\ run[r].pc \in {"finished", "stopped"} =>
            \A call \in CallsOf(run[r].resumed) \cap shown :
                \/ call \in Made
                \/ \E i \in 1..(call[2] - 1) : <<call[1], i>> \in Made

(* When the model is asked, every call of a tool the node had has its      *)
(* result in the conversation, right after the answer and in order, and    *)
(* every result its call - unless an answer with several calls has been    *)
(* rejected, which takes more out than the answer (Agent.ts 1352, 1417,    *)
(* 1586, 1625).                                                            *)
ToolsAt(r, k) == IF k > run[r].resumed THEN run[r].tools ELSE agent.tools

Due(r) == {call \in UNION {CallsOf(k) : k \in 1..Len(answers)} :
              NameOf(call) \in ToolsAt(r, call[1])}

HasResult(messages, i, n) ==
    \E p \in (i + 1)..Len(messages) :
        /\ messages[p] = Tool(messages[i].round, n)
        /\ \A q \in (i + 1)..p : messages[q].role = "tool"

FollowsItsCall(messages, i) ==
    /\ i > 1
    /\ messages[i - 1].role # "user" /\ messages[i - 1].round = messages[i].round
    /\ messages[i - 1].pos < messages[i].pos

Paired(messages, due) ==
    \A i \in 1..Len(messages) :
        LET m == messages[i]
        IN  /\ m.role = "user" => i = 1
            /\ m.role = "assistant" =>
                  \A call \in due : call[1] = m.round => HasResult(messages, i, call[2])
            /\ m.role = "tool" =>
                  <<m.round, m.pos>> \in due /\ FollowsItsCall(messages, i)

SeveralRejected == \E d \in decisions : d[2] = "reject" /\ Len(answers[d[1]]) > 1

ConversationPaired ==
    ~ SeveralRejected =>
        \A r \in Runs : run[r].pc = "model" => Paired(run[r].messages, Due(r))
=============================================================================
