---------------------------- MODULE AgentExecutor ----------------------------
(***************************************************************************)
(* AgentExecutor._call of packages/components/src/agents.ts: several runs  *)
(* of agents in one process, each planning, then executing the tool calls  *)
(* of its plan concurrently under the governance hook: judge, policy,      *)
(* approval, audit, call, audit, judge.  The portal and the policy engine  *)
(* are shared by all runs.                                                 *)
(*                                                                         *)
(* An action is the code between two awaits.  A tool call is a member of   *)
(* Reqs, so that it names its own approval request; RunOf and StepOf say   *)
(* which run may make it, and in which iteration.                          *)
(***************************************************************************)
EXTENDS HumanApproval, PolicyEngine

CONSTANTS
    Runs,                 \* invocations of an agent
    RunOf, StepOf,        \* call -> the run that may make it, the iteration
    MaxIterations,
    Tools,                \* the tools of the agent
    ReturnDirect,         \* those whose observation is the agent's answer
    ExceptionTool,        \* the tool that stands for an unparsable plan
    UnknownTool,          \* a name that is no tool of the agent
    JudgeModel,           \* is there a validation model?
    HandleParsingErrors,  \* is handleParsingErrors set?
    Falsy,                \* the edits that are falsy in JavaScript: 0, false, ""
    Original,             \* the arguments the model proposed
    NotRun,               \* no arguments: the tool has not been called
    LogMayFail,           \* can writing the audit log fail?
    PolicyChanges         \* may the policy file change during the runs?

ASSUME ExecutorAssumption ==
    /\ RunOf \in [Reqs -> Runs]
    /\ StepOf \in [Reqs -> Nat \ {0}]
    /\ MaxIterations \in Nat
    /\ Tools \cup {ExceptionTool} \subseteq ToolNames
    /\ UnknownTool \notin Tools \cup {ExceptionTool}
    /\ ReturnDirect \subseteq Tools
    /\ NotRun \notin Edits \cup {Original}
    /\ Falsy \subseteq Edits
    /\ {JudgeModel, HandleParsingErrors, LogMayFail, PolicyChanges} \subseteq BOOLEAN

VARIABLES
    runState,    \* run -> "planning", "acting", "finished", "stopped", "failed"
    iterations,  \* run -> the local of that name
    pc,          \* call -> the await it is at
    toolOf,      \* call -> the tool the model named
    verdict,     \* call -> the action of its policyResult
    ran,         \* call -> the arguments its tool was called with, or NotRun
    outcome,     \* call -> what its observation tells the model
    audit        \* call -> its entries in the audit log, in order

callerVars == <<runState, iterations, pc, toolOf, verdict, ran, outcome, audit>>
vars == <<portalVars, policyVars, callerVars>>

Places == {"idle", "proposed", "judgingInput", "awaiting", "calling",
           "judgingOutput", "done", "thrown"}

Outcomes == {"none", "invalidTool", "inputRejected", "blocked", "rejected",
             "output", "redacted", "error"}

Entry == [decision : {"allowed", "blocked", "approved", "rejected", "modified"},
          by       : {"judge", "policy", "human", "timeout"},
          args     : Edits \cup {Original},
          output   : BOOLEAN]

Init ==
    /\ PortalInit
    /\ PolicyInit
    /\ runState = [run \in Runs |-> "planning"]
    /\ iterations = [run \in Runs |-> 0]
    /\ pc = [c \in Reqs |-> "idle"]
    /\ toolOf = [c \in Reqs |-> UnknownTool]
    /\ verdict = [c \in Reqs |-> "none"]
    /\ ran = [c \in Reqs |-> NotRun]
    /\ outcome = [c \in Reqs |-> "none"]
    /\ audit = [c \in Reqs |-> <<>>]

-----------------------------------------------------------------------------
(* What of some entries reaches the file: a write that fails is swallowed. *)
Written(entries) ==
    IF LogMayFail
    THEN {entries, <<>>} \cup {<<entries[i]>> : i \in 1..Len(entries)}
    ELSE {entries}

(* appendAuditEntry() for each of the entries, in order. *)
Log(c, entries) ==
    \E kept \in Written(entries) : audit' = [audit EXCEPT ![c] = @ \o kept]

(* An entry about a call that has given no output yet. *)
Note(decision, by, args) ==
    [decision |-> decision, by |-> by, args |-> args, output |-> FALSE]

(* The map function of a call returns: an observation without a tool call. *)
Settle(c, how) ==
    /\ pc' = [pc EXCEPT ![c] = "done"]
    /\ outcome' = [outcome EXCEPT ![c] = how]

(* tool.call(args): the effect of the tool is out of the program's hands   *)
(* from here on.                                                           *)
CallTool(c, args) ==
    /\ pc' = [pc EXCEPT ![c] = "calling"]
    /\ ran' = [ran EXCEPT ![c] = args]
    /\ UNCHANGED outcome

-----------------------------------------------------------------------------
(* The loop of a run. *)

(* The calls the run may make in the current iteration, and has made. *)
Slots(run)   == {c \in Reqs : RunOf[c] = run /\ StepOf[c] = iterations[run] + 1}
Current(run) == {c \in Slots(run) : pc[c] # "idle"}

(* plan() returns tool calls: their map functions start, each up to the    *)
(* callback it awaits first.                                               *)
Propose(run, batch, tools) ==
    /\ runState' = [runState EXCEPT ![run] = "acting"]
    /\ pc' = [c \in Reqs |-> IF c \in batch THEN "proposed" ELSE pc[c]]
    /\ toolOf' = [c \in Reqs |-> IF c \in batch THEN tools[c] ELSE toolOf[c]]
    /\ UNCHANGED <<portalVars, policyVars, iterations, verdict, ran, outcome, audit>>

Planning(run) == runState[run] = "planning" /\ iterations[run] < MaxIterations

Plan(run) ==
    /\ Planning(run)
    /\ \E batch \in SUBSET Slots(run) \ {{}} :
       \E tools \in [batch -> Tools \cup {UnknownTool}] : Propose(run, batch, tools)

(* plan() cannot parse the model's reply: one _Exception action instead.   *)
PlanUnparsable(run) ==
    /\ Planning(run)
    /\ HandleParsingErrors
    /\ \E c \in Slots(run) : Propose(run, {c}, [d \in {c} |-> ExceptionTool])

(* The run ends: plan() gives the answer, or throws; or the loop runs out  *)
(* of iterations.                                                          *)
EndRun(run) ==
    /\ \/ /\ Planning(run)
          /\ runState' = [runState EXCEPT ![run] = "finished"]
       \/ /\ Planning(run)
          /\ runState' = [runState EXCEPT ![run] = "failed"]
       \/ /\ runState[run] = "planning" /\ iterations[run] >= MaxIterations
          /\ runState' = [runState EXCEPT ![run] = "stopped"]
    /\ UNCHANGED <<portalVars, policyVars, iterations, pc, toolOf, verdict, ran,
                   outcome, audit>>

(* Joining on the first call that is done. *)
BugJoinAny(run) ==
    /\ runState[run] = "acting"
    /\ \E c \in Current(run) : pc[c] = "done"
    /\ \E last \in Current(run) :
          IF toolOf[last] \in ReturnDirect
          THEN /\ runState' = [runState EXCEPT ![run] = "finished"]
               /\ UNCHANGED iterations
          ELSE /\ runState' = [runState EXCEPT ![run] = "planning"]
               /\ iterations' = [iterations EXCEPT ![run] = @ + 1]
    /\ UNCHANGED <<portalVars, policyVars, pc, toolOf, verdict, ran, outcome, audit>>

(* Promise.all() has every observation: the run plans again, unless the    *)
(* last call of the list (any of them may be) was of a tool that returns   *)
(* directly, whatever became of the call.                                  *)
Join(run) ==
    /\ runState[run] = "acting"
    /\ \A c \in Current(run) : pc[c] = "done"
    /\ \E last \in Current(run) :
          IF toolOf[last] \in ReturnDirect
          THEN /\ runState' = [runState EXCEPT ![run] = "finished"]
               /\ UNCHANGED iterations
          ELSE /\ runState' = [runState EXCEPT ![run] = "planning"]
               /\ iterations' = [iterations EXCEPT ![run] = @ + 1]
    /\ UNCHANGED <<portalVars, policyVars, pc, toolOf, verdict, ran, outcome, audit>>

-----------------------------------------------------------------------------
(* The governance hook of a call. *)

(* evaluate(), and what its verdict leads to before the next await;        *)
(* `judged` are the entries the same step wrote before.                    *)
Govern(c, judged) ==
    /\ LoadRules
    /\ LET result == Verdict(LoadedRules, toolOf[c]).action
       IN  /\ verdict' = [verdict EXCEPT ![c] = result]
           /\ \/ /\ result = "block"
                 /\ Log(c, Append(judged, Note("blocked", "policy", Original)))
                 /\ Settle(c, "blocked")
                 /\ UNCHANGED <<portalVars, ran>>
              \/ /\ result = "escalate"
                 /\ RequestApproval(c)
                 /\ Log(c, judged)
                 /\ pc' = [pc EXCEPT ![c] = "awaiting"]
                 /\ UNCHANGED <<ran, outcome>>
              \/ /\ result \notin {"block", "escalate"}
                 /\ Log(c, Append(judged, Note("allowed", "policy", Original)))
                 /\ CallTool(c, Original)
                 /\ UNCHANGED portalVars
    /\ UNCHANGED <<policyFile, runState, iterations, toolOf>>

(* The call looks its tool up; an unknown one is no tool call at all.      *)
Begin(c) ==
    /\ pc[c] = "proposed"
    /\ \/ /\ toolOf[c] = UnknownTool
          /\ Settle(c, "invalidTool")
          /\ UNCHANGED <<portalVars, policyVars, runState, iterations, toolOf, verdict,
                         ran, audit>>
       \/ /\ toolOf[c] # UnknownTool /\ JudgeModel
          /\ pc' = [pc EXCEPT ![c] = "judgingInput"]
          /\ UNCHANGED <<portalVars, policyVars, runState, iterations, toolOf, verdict,
                         ran, outcome, audit>>
       \/ /\ toolOf[c] # UnknownTool /\ ~ JudgeModel
          /\ Govern(c, <<>>)

(* The judge has an opinion on the arguments; an error of the judge is a   *)
(* valid.                                                                  *)
JudgeInput(c) ==
    /\ pc[c] = "judgingInput"
    /\ \/ Govern(c, <<Note("allowed", "judge", Original)>>)
       \/ /\ Log(c, <<Note("blocked", "judge", Original)>>)
          /\ Settle(c, "inputRejected")
          /\ UNCHANGED <<portalVars, policyVars, runState, iterations, toolOf, verdict,
                         ran>>

(* `??`: an edit of null leaves the arguments as they were. *)
FinalArgs(resp) == IF resp.modifiedArgs = NoEdit THEN Original ELSE resp.modifiedArgs

(* Taking any answer for an approval. *)
BugResumeApproved(c) ==
    /\ pc[c] = "awaiting"
    /\ promise[c] \notin {NotAsked, Pending}
    /\ LET resp == promise[c]
       IN  /\ Log(c, <<Note("approved", resp.by, FinalArgs(resp))>>)
           /\ CallTool(c, FinalArgs(resp))
    /\ UNCHANGED <<portalVars, policyVars, runState, iterations, toolOf, verdict>>

(* Logging the approval after the tool has returned only. *)
BugResumeUnlogged(c) ==
    /\ pc[c] = "awaiting"
    /\ promise[c] \notin {NotAsked, Pending}
    /\ LET resp == promise[c]
       IN  IF resp.approved
           THEN CallTool(c, FinalArgs(resp)) /\ UNCHANGED audit
           ELSE /\ Log(c, <<Note("rejected", resp.by, Original)>>)
                /\ Settle(c, "rejected")
                /\ UNCHANGED ran
    /\ UNCHANGED <<portalVars, policyVars, runState, iterations, toolOf, verdict>>

(* The promise of requestApproval() is resolved. *)
Resume(c) ==
    /\ pc[c] = "awaiting"
    /\ promise[c] \notin {NotAsked, Pending}
    /\ LET resp == promise[c]
       IN  IF resp.approved
           THEN /\ Log(c, <<Note(IF resp.modifiedArgs \in Edits \ Falsy
                                     THEN "modified" ELSE "approved",
                                     resp.by, FinalArgs(resp))>>)
                /\ CallTool(c, FinalArgs(resp))
           ELSE /\ Log(c, <<Note("rejected", resp.by, Original)>>)
                /\ Settle(c, "rejected")
                /\ UNCHANGED ran
    /\ UNCHANGED <<portalVars, policyVars, runState, iterations, toolOf, verdict>>

(* The tool returns: its output is logged, then judged if it is a          *)
(* non-empty string that does not look like a refusal of the hook.         *)
CallReturns(c) ==
    /\ pc[c] = "calling"
    /\ Log(c, <<[decision |-> IF verdict[c] = "escalate" THEN "approved" ELSE "allowed",
                     by       |-> IF verdict[c] = "escalate" THEN "human" ELSE "policy",
                     args     |-> ran[c],
                     output   |-> TRUE]>>)
    /\ \/ /\ JudgeModel
          /\ pc' = [pc EXCEPT ![c] = "judgingOutput"]
          /\ UNCHANGED outcome
       \/ Settle(c, "output")
    /\ UNCHANGED <<portalVars, policyVars, runState, iterations, toolOf, verdict, ran>>

(* The tool throws.  Its message is the observation, except that an error  *)
(* of parsing its input rejects Promise.all() when handleParsingErrors is  *)
(* not set: the run fails at once, and its other calls go on without it.   *)
CallThrows(c) ==
    /\ pc[c] = "calling"
    /\ toolOf[c] # ExceptionTool
    /\ \/ Settle(c, "error") /\ UNCHANGED runState
       \/ /\ ~ HandleParsingErrors
          /\ pc' = [pc EXCEPT ![c] = "thrown"]
          /\ runState' = [runState EXCEPT ![RunOf[c]] = "failed"]
          /\ UNCHANGED outcome
    /\ UNCHANGED <<portalVars, policyVars, iterations, toolOf, verdict, ran, audit>>

(* The opinion is logged, and the model gets the output all the same. *)
BugJudgeOutput(c) ==
    /\ pc[c] = "judgingOutput"
    /\ \E valid \in BOOLEAN :
          Log(c, <<[decision |-> IF valid THEN "allowed" ELSE "blocked",
                    by |-> "judge", args |-> Original, output |-> TRUE]>>)
    /\ Settle(c, "output")
    /\ UNCHANGED <<portalVars, policyVars, runState, iterations, toolOf, verdict, ran>>

(* The judge has an opinion on the output, which it may keep from the      *)
(* model; the log has it already.                                          *)
JudgeOutput(c) ==
    /\ pc[c] = "judgingOutput"
    /\ \E valid \in BOOLEAN :
          /\ Log(c, <<[decision |-> IF valid THEN "allowed" ELSE "blocked",
                           by |-> "judge", args |-> Original, output |-> TRUE]>>)
          /\ Settle(c, IF valid THEN "output" ELSE "redacted")
    /\ UNCHANGED <<portalVars, policyVars, runState, iterations, toolOf, verdict, ran>>

-----------------------------------------------------------------------------
Drive(run) == Plan(run) \/ PlanUnparsable(run) \/ EndRun(run) \/ Join(run)

Advance(c) == \/ Begin(c) \/ JudgeInput(c) \/ Resume(c)
              \/ CallReturns(c) \/ CallThrows(c) \/ JudgeOutput(c)

Portal == (Listen \/ Analyst \/ Expire) /\ UNCHANGED <<policyVars, callerVars>>

Policy == /\ PolicyChanges
          /\ EditFile \/ ClearCache
          /\ UNCHANGED <<portalVars, callerVars>>

Next == \/ \E run \in Runs : Drive(run)
        \/ \E c \in Reqs : Advance(c)
        \/ Portal
        \/ Policy

(* Models, judges and tools answer or fail (the code sets them no time     *)
(* limit), resolved promises run their continuations, due timers fire.     *)
Fairness == /\ \A run \in Runs : WF_vars(Drive(run))
            /\ \A c \in Reqs : WF_vars(Advance(c))
            /\ WF_vars(Expire /\ UNCHANGED <<policyVars, callerVars>>)

Spec == Init /\ [][Next]_vars /\ Fairness

-----------------------------------------------------------------------------
TypeOK ==
    /\ PortalTypeOK
    /\ PolicyTypeOK
    /\ runState \in [Runs -> {"planning", "acting", "finished", "stopped", "failed"}]
    /\ iterations \in [Runs -> Nat]
    /\ pc \in [Reqs -> Places]
    /\ toolOf \in [Reqs -> Tools \cup {ExceptionTool, UnknownTool}]
    /\ verdict \in [Reqs -> Actions \cup {"none"}]
    /\ ran \in [Reqs -> Edits \cup {Original, NotRun}]
    /\ outcome \in [Reqs -> Outcomes]
    /\ audit \in [Reqs -> Seq(Entry)]

HumanApproved(c) ==
    /\ promise[c] \in Responses
    /\ promise[c].by = "human"
    /\ promise[c].approved
    /\ ran[c] = FinalArgs(promise[c])

(* No tool runs ungoverned: a tool that was called was allowed by the      *)
(* policy, with the arguments the model proposed, or escalated and then    *)
(* approved by a human, with the arguments the human let pass; the timeout *)
(* of an approval never lets a tool run (agents.ts 469-583).               *)
GovernedExecution ==
    \A c \in Reqs : ran[c] # NotRun =>
        \/ verdict[c] = "allow" /\ ran[c] = Original
        \/ verdict[c] = "escalate" /\ HumanApproved(c)

(* While nobody touches a readable policy file, a tool it blocks is never  *)
(* called, and one it escalates is called only after a human's approval,   *)
(* whichever runs share the portal, the cache and the judge.               *)
PolicyObeyed ==
    (~ PolicyChanges /\ policyFile # Unreadable) =>
        \A c \in Reqs : ran[c] # NotRun =>
            LET action == Verdict(policyFile, toolOf[c]).action
            IN  action # "block" /\ (action = "escalate" => HumanApproved(c))

(* The log is ahead of the effect: before a tool is called, an entry with  *)
(* its arguments and with who decided is written (agents.ts 519-531,       *)
(* 550-561), when the log can be written at all.                           *)
LoggedBeforeEffect ==
    ~ LogMayFail =>
        \A c \in Reqs : ran[c] # NotRun =>
            \E i \in 1..Len(audit[c]) :
                /\ audit[c][i].args = ran[c]
                /\ ~ audit[c][i].output
                /\ audit[c][i].by = IF verdict[c] = "allow" THEN "policy" ELSE promise[c].by
                /\ audit[c][i].decision \in {"allowed", "approved", "modified"}

(* What became of a call, the arguments its tool was called with, and the  *)
(* last entry the log has of it, when the log can be written at all.       *)
Told(c) ==
    LET final   == audit[c][Len(audit[c])]
        granted == /\ final.decision \in {"allowed", "approved", "modified"}
                   /\ final.args = ran[c] /\ ~ final.output
    IN  /\ outcome[c] # "none"
        /\ outcome[c] = "invalidTool"   => audit[c] = <<>>
        /\ outcome[c] = "inputRejected" => final = Note("blocked", "judge", Original)
        /\ outcome[c] = "blocked"       => final = Note("blocked", "policy", Original)
        /\ outcome[c] = "rejected"      => final = Note("rejected", promise[c].by, Original)
        /\ outcome[c] = "output"        => final.output /\ final.decision # "blocked"
        /\ outcome[c] = "redacted"      =>
              final.output /\ final.by = "judge" /\ final.decision = "blocked"
        /\ outcome[c] = "error"         => granted

(* The log tells what the model was told: the last entry about a settled   *)
(* call says whether its tool was kept from running, by whom, whether it   *)
(* ran with an output the model got or one it did not, or ran and threw,   *)
(* of which no entry says more than that it was let run (agents.ts         *)
(* 441-617, 654-662).                                                      *)
LogTellsOutcome ==
    ~ LogMayFail => \A c \in Reqs : pc[c] = "done" => Told(c)

(* A run plans again only with an observation for every call of its        *)
(* earlier plans, so the model never reasons past an open approval or a    *)
(* running tool (agents.ts 433-688); only a failed run leaves calls open.  *)
NoCallOutlivesItsStep ==
    \A c \in Reqs :
        \/ pc[c] \in {"idle", "done"}
        \/ runState[RunOf[c]] = "failed"
        \/ runState[RunOf[c]] = "acting" /\ StepOf[c] = iterations[RunOf[c]] + 1

(* Where a call is and what is known of it agree: it asks the portal only  *)
(* once escalated, runs only after a verdict, and is made by one plan only *)
(* (agents.ts 433-686).                                                    *)
CallsTracked ==
    \A c \in Reqs :
        /\ pc[c] \in {"idle", "proposed", "judgingInput"} =>
              promise[c] = NotAsked /\ ran[c] = NotRun /\ verdict[c] = "none"
        /\ pc[c] = "awaiting" =>
              promise[c] # NotAsked /\ ran[c] = NotRun /\ verdict[c] = "escalate"
        /\ pc[c] \in {"calling", "judgingOutput", "thrown"} => ran[c] # NotRun
        /\ runState[RunOf[c]] = "planning" /\ StepOf[c] > iterations[RunOf[c]] =>
              pc[c] = "idle"
        /\ runState[RunOf[c]] = "acting" /\ StepOf[c] > iterations[RunOf[c]] + 1 =>
              pc[c] = "idle"

(* Every run ends, with no analyst about and with the others' approvals    *)
(* ahead of its own in the portal's queue.                                 *)
EveryRunEnds ==
    \A run \in Runs : <>(runState[run] \in {"finished", "stopped", "failed"})
=============================================================================
