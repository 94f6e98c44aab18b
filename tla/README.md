# A formal model of the governed SOC agent

This directory holds TLA+ models of the program in `src/`: a fork of Flowise (a
visual builder and server for LLM flows) to which a governance layer for the
tools of a SOC agent was added. The modules are checked on small instances with
TLC, and the theorems are proved for every instance with TLAPS. `PROJECT.json`
maps each definition to the lines it models, and lists runs, mutants, hazards,
findings and theorems; the "Next" section says what comes after.

Paths below are relative to `src/packages/`.

## The system

### Inventory

| Component | State it keeps | Operations | What makes it correct |
| --- | --- | --- | --- |
| Approval portal, `components/src/humanApproval.ts` | `server`, `approvalQueue`, `activeApproval`, a timer per request | `requestApproval`, `dequeueNext`, GET and POST `/approve`, the timer | nobody waits for ever, nobody is answered twice, answers come in the order of the calls |
| Policy engine, `components/src/policyEngine.ts`, `components/governance/policy.yaml` | `cachedRules` | `loadRules`, `evaluate`, `clearCache` | one version of the rules between two clears; allow-all only while the file cannot be read |
| Judge, `components/src/llmJudge.ts` | none | `validateWithLLM` | an error of the judge counts as valid and never blocks |
| Audit log, `components/src/auditLog.ts` | a JSONL file | `appendAuditEntry`, `appendAgentAuditEntry` | written before the effect it describes |
| Governed loop, `AgentExecutor._call` of `components/src/agents.ts` | `steps`, `iterations`, where each concurrent tool call is | plan, hook, call, join, stop | no tool runs ungoverned, no call outlives its step, every run ends |
| Step iterator, `AgentExecutorIterator` and `_takeNextStep` of `agents.ts` | `intermediateSteps`, `iterations`, `_finalOutputs` | `_callNext`, `_stop`, `_return` | the same governance as the loop; one final output |
| Tool agent node, `components/nodes/agents/ToolAgent/ToolAgent.ts`, with the memory node and the chat messages of `buildChatflow.ts` | the memory of the session, its chat messages | `run` | what is refused does not reach the model; answer, memory and log agree; the memory is a conversation |
| Agentflow engine, `server/src/utils/buildAgentflow.ts` | the queue of ready nodes, waiting nodes, loop counts, and one row per execution in the database | readiness, branching, loops, stop, resume | joins fire once and with their inputs, only taken branches run, a stopped execution resumes with what it has done, rows say what happened |
| Agent node of agentflows, `components/nodes/agentflow/Agent/Agent.ts` | the checkpoint in its execution's row; per run the messages and the tools | the loop over the model's calls, stop, proceed, reject | tools that require a human wait for one; a resumption does each call once, and what was decided |
| Prediction lifecycle, `server/src/utils/buildChatflow.ts`, `AbortControllerPool.ts`, `queue/PredictionQueue.ts`, `utils/SSEStreamer.ts`, `queue/Redis*` | abort controllers by chat, jobs, event-stream clients, subscriptions | predict, abort, stream | an abort reaches the run it names; streams have their tokens in order and end |
| Document stores, `server/src/services/documentstore/index.ts` | the row of a store with its loaders, the table of chunks | process, upsert, refresh, configure, delete | chunks have a loader; counts and states say what is there |
| Rate limiter, `server/src/utils/rateLimit.ts` | a limiter per chatflow, on each server | add, remove, the messages that keep servers alike | all servers limit alike |
| Caches and pools, `server/src/CachePool.ts`, `NodesPool.ts` | caches by chatflow, in memory or Redis | add, get | a cached model belongs to its chatflow |
| Sequential and multi agents, `server/src/utils/buildAgentGraph.ts` | a LangGraph graph | compile, stream | LangGraph's |
| Chatflow building, storage, handlers, nodes, server, UI | databases, files | CRUD, transformation, I/O | little control of their own |

### How they interact

A request reaches `buildChatflow`, directly or as a job of the prediction
queue. For a chatflow whose last node is a tool agent, `ToolAgent.run` moderates
and judges the question, then drives `AgentExecutor._call`. For an agentflow,
`executeAgentFlow` runs the nodes of the flow itself.

The loop asks the model for a plan and starts all its tool calls at once. Each
call passes the hook: the judge (when there is one) on its arguments, the
policy, for `escalate` the portal, the log, the tool, the log again, the judge
on the output. The portal and the policy cache are module variables: every run
of the process shares them. The portal pauses a call on a promise that either
the analyst's form or a timer resolves.

The agent node of agentflows has a loop of its own, without the governance hook:
it asks a human by stopping the execution. The engine takes nodes off a queue
until it is empty or a node stops to ask a human. Then the row of the execution is STOPPED, the request is answered, and a
later request of the session carries the answer and resumes from the row.

The responses that stream are in a map by chat. In queue mode a worker runs the
flow; its events reach the server through a Redis channel of the chat, its result
through the queue, and an abort goes to all workers by chat.

A request to a document store reads the row, loads and splits the document,
saves chunks without waiting for the saves, and then saves the row as it was read.

### What is hard here

- *Interleaving*: the calls of one plan, of several runs, and the analyst, all
  between the same awaits; two requests of one session on one execution row.
- *Order and timing*: a form against its timer, timers that run while a request
  is still queued, the log against the effect, inputs of a join in any order.
- *Partial failure*: one of several calls rejecting `Promise.all`, a tool that
  throws, a policy file that cannot be read, a port that is taken; a turn that
  fails between two of its writes; chunks that are changed and a row that is not.
- *Crash and restart*: nothing of a run survives but its row; the jobs of a dead
  worker are run again.
- *Shared keys and stale rows*: controllers, responses and channels are found by
  chat, rows are saved as they were read.
- *Lost and late messages*: tokens before the subscription, aborts before the run.
- *Long sequences*: stop, answer, loop back, ask again, abort, resume.

`PROJECT.json` lists each of them at its line, with the properties that guard it.

## Modules

| Module | Models | State and actions |
| --- | --- | --- |
| `ApprovalSpec` | what the portal promises | a line of unanswered calls; `Ask`, `Answer` in order |
| `HumanApproval` | `humanApproval.ts` | the module variables; one action per handler: `RequestApproval`, `Listen`, `GetApprove`, `PostApprove`, `Timeout`. `ticket` is the order the timers were armed in, `resolved` counts how often a resolver ran, `tab` is the form a browser displays |
| `PolicyEngine`, `PolicyUse` | `policyEngine.ts` | the file and the cache; `Verdict` is `evaluate()`. `PolicyUse` asks for verdicts in any order while the file changes |
| `AgentExecutor` | `AgentExecutor._call`; composes `HumanApproval` and `PolicyEngine` | `runState` and `iterations` of each run, and for each call the await it is at (`pc`), its verdict, the arguments its tool was called with (`ran`), its audit entries. One action per stretch of code between two awaits |
| `FlowGraph` | the questions `buildAgentflow.ts` asks of a flow's graph | operators on a flow: `Expected`, `ConditionalGroups`, `HasRequired`, `Ignored`; `IsFlow` is what every flow of the editor satisfies |
| `ExecutionSpec` | what the execution table promises | the states of the session's rows; `Begin`, `Settle`, `Resume` |
| `AgentflowEngine` | `executeAgentFlow` | the rows, and per request the await it is at and its locals; `BeginNew`, `BeginResume`, `Claim`, `Take`, `NodeReturns`, `NodeThrows`, `SaveFailure`, `SaveEnd`, `Abort`, `Crash` |
| `AgentNode` | `Agent.ts`, the loop over tool calls | `execution` is the row with its checkpoint, `answers` what the model answered, `run` each request at its place in the loop, `ran` the calls made, `shown` those put to a human; `Claim`, `ModelCalls`, `CallTool`, `Throws`, `AskHuman`, `RejectCall`, `EndCalls` are the branches of the two loops |
| `AgentTurn` | `ToolAgent.run`, the memory and the chat messages | `rows` is the table of chat messages, `list` an external memory, `log` the audit log, `sent` what each plan gave the model |
| `Prediction` | request, run or job, abort, stream | `client` and `pool` are the maps of the server, `jobs`, `at`, `wpool`, `results`, `channel`, `subscribed`, `signals` the queue, the workers and Redis |
| `DocumentStore` | processing, upserting and deleting | `store` is the row, `chunks` the table, `saving` the saves nobody waits for, `task` each request at its await, with the row it read |
| `MC...` | | constants for TLC |
| `PolicyEngineProofs`, `PolicyUseProofs`, `AgentExecutorProofs`, `AgentNodeProofs`, `AgentTurnProofs`, `DocumentStoreProofs`, `AgentflowEngineProofs`, `PredictionProofs` | | theorems; those on the portal are in `AgentExecutorProofs` |

Names are the code's where it has one. A definition called `Bug...` is the one
after it with a plausible mistake; `PROJECT.json` says which property tells the
two apart, so that each property is known to be able to fail.

### Abstractions

- A handler of the portal runs to its end before the next one starts (one Node
  thread), so it is one action. All timers have one length; Node fires such
  timers in the order they were armed.
- A tool call is a member of `Reqs`; `RunOf` and `StepOf` say which run may make
  it and in which iteration. Arguments are `Original`, or an edit an analyst
  typed; some edits are `Falsy`, because the code tests one with `?` and another
  with `??`.
- Models, judges and tools are choices: any plan, any verdict of a judge, a
  tool that returns or throws.
- Writing the log may fail, which the code swallows: `LogMayFail` for the entries
  of tool calls, `setup.logFails` for those about a turn.
- A flow is its nodes' kinds and its edges in stored order. What a node computes
  is left out but for the outcomes it fulfils and whether it asks. Rows hold the
  sequence of entries with their status.
- `updateExecution` reads, merges and saves a row; it is one write.
- `session`, `agent` and `setup` are constant variables: Init chooses the flow,
  the agent or the store, and whether requests wait for one another, so that one
  run checks many instances.
- `AgentNode` is a flow of this node alone: the engine around it is the row.
- `AgentTurn` leaves out what `AgentExecutor` has inside; the two meet in `Plan`
  (the loop plans) and `CheckOutput` (it returned). With a session TTL
  (`setup.expires`) each push to an external memory is followed by its `Expire`, and
  from then on Redis may drop the list at any time (`Lapse`), which is all that is
  kept of the time that passes; a list that is dropped and pushed to again has no
  expiry until the next `Expire`. The window of a memory is left out.
- In `AgentNode` a resumption whose answer is neither "proceed" nor "reject"
  (`Agent.ts` 813) ends in one step of `Throws`: that the row is INPROGRESS on the
  way to ERROR makes no difference to anybody, since both refuse a resumption.
- `Prediction` has one flow. Of BullMQ it assumes that a job is run by one worker,
  again if that one dies, and that its result reaches who waits; of Redis that a
  channel keeps its order and reaches who is subscribed.
- In `DocumentStore` an action is the code between two awaits on the database, so
  that the old chunks are deleted in one (`Clear`) and the saves of the new ones
  start in the next (`Refill`). The two calls of the browser that process a loader
  are one request; loading, splitting and embedding return or throw. The database
  may refuse what a request awaits (`Rejected`), at any place, or a chunk whose save
  nobody awaits (`SaveFails`), up to `setup.faults` times; a refused call has changed
  nothing. Of the three configurations of a store, and of those a request brings,
  one Boolean is kept each: whether there is any (`configured`, `names`). A request
  for a chunk may name the loader of another one where `setup.astray` says so. A
  refresh takes the loaders from the row; one with items of its own is left out.

## Runs

| Run | Instance | What it shows |
| --- | --- | --- |
| `human_approval` | 3 requests, 1 tab, 1 edit | `NoCallerForgotten`, `ResolvedOnce`: the queue, the timers and the promises agree after any interleaving; `AnsweredInOrder`: the portal implements `ApprovalSpec`; `EveryCallAnswered`: also with no analyst and no port |
| `policy_use` | 3 tools, 3 files, unreadable | `RuleStands`, `AllowAllOnlyWhileUnreadable` |
| `executor_two_runs` | 2 runs, 3 calls, tools blocked, escalated and free | `PolicyObeyed`, `NoCallOutlivesItsStep`, and `EveryRunEnds` |
| `executor_judged` | 1 run, 2 iterations, 3 calls, a judge, 2 edits, the policy changing | `GovernedExecution`, `LoggedBeforeEffect`; `LogTellsOutcome`: the last entry of a call says how it ended |
| `agentflow` | 5 flows, 3 requests, in a row (iteration limit 12) or overlapping (2) | `RowsTellTruth` whoever writes a row last; in a row also `HistoryKept` and `RowLifecycle`: the rows implement `ExecutionSpec` |
| `agentflow_flows` | 776 small flows and 2 with loops, 1 request | `UnconditionalOnce`, `InputsDecide`, `BranchTaken`, `EveryRequestEnds` |
| `agent_node` | 8 agents, answers of 2 calls, 3 rounds, 3 requests | `HumanFirst`, `RanOnce`, `RejectedNeverRuns`, `RejectedToolsGone`, `ProceedHonoured`, `ConversationPaired` |
| `agent_turn` | 3 turns in a row or 2 at once, 2 plans, either memory, moderated or judged; a session TTL; a log that may fail | `RefusedStaysOut`, `AnswersOnRecord`, `Conversation`, `RecallGrows` |
| `prediction` | 2 chats on a server; a queue with 1 or 2 workers, 2 tokens, 1 crash | `AbortFindsRun`, `TokensInOrder`, `EveryResponseEnds` |
| `document_store` | 2 loaders, 2 chunks; 2 operations in a row with a crash and a refused call, or 3 without; 2 or 3 at once; chunks under any loader | `NoOrphans`, `Counted`, `WholeVersion`, `NotStuckUpserting` |
| `approved_was_reviewed`, `agentflow_humans` | | counterexamples to what the code or its docs say, see below |

The type invariants of the portal, the policy, the loop and the agent node, and
the invariants that only strengthen others (`HeldInOrder`, `CallsTracked`), are
theorems and are not checked again in the runs. The other modules have their type
invariant in their run.

### Bounds

Three requests give the portal an active request, a waiting one and one behind
it, enough for every order of three handlers and for the queue to lose, swap or
repeat one. Three tool calls give a step with two concurrent calls beside
another run, or a second step. Three requests to a flow give a question, its
answer, and a second answer or a new question; two concurrent answers to one
question need no more. Three nodes beside the start are the smallest flows with
a join below a decision, a decision below a decision, and a join of routes of
different length; all their edge sets are tried, each stored in two orders,
because the code takes first edges. `MaxIterations` is 12 for flows, out of
reach of the loops when they count (so that `EveryRequestEnds` can tell), and 2
where the limit itself is the subject.

Two calls in an answer and three rounds let a call run before, at and after the
one a human is asked about, and a decision be followed by the same question again.
Three turns give a conversation with one before and one behind a refused or failed
turn. Two tokens are enough to lose one, to swap them and to repeat them. Two
chunks are a processing that can be half done; three requests let a store be
processed, changed and deleted, or three processings meet. One refused call and one
crash, in one history, fall between any two writes of either request.

`LogMayFail = TRUE` multiplies the states by eight and is not among the runs:
the theorems cover it. Symmetry is used for the requests of a session only where
no liveness is checked.

### Fairness

- A timer that is due fires (`Expire`): the event loop does that. No analyst
  ever has to act, and the port may never bind.
- Models, judges and tools return or fail, and continuations of resolved
  promises run (`Drive`, `Advance`). The code has no time limit on them, so
  `EveryRunEnds` says what the program contributes: no deadlock among calls,
  runs and portal.
- Nodes and the database answer (`Step`). Nothing makes a request arrive, a
  user abort, or a process crash.

- Runs, workers and Redis go on (`Advance`, `TakeJob`, `Subscribed`, `Deliver`). Nobody
  need abort, and an abort may never arrive at a worker.

All fairness is weak: each of these steps stays enabled until it is taken.

### Where code and words differ

Each of these runs ends in a counterexample:

- `approved_was_reviewed`: POST `/approve` decides the request that is active
  when it arrives, not the one its form displayed (`humanApproval.ts` 140).
- `agentflow_humans`: the answer to one human input passes the next human input
  down the route, on all its outcomes (`buildAgentflow.ts` 1072).

The models also show these, without a run of their own.

*Governance.*

- A run that failed on one call leaves its other calls, and their requests in the
  portal, behind; an approval then calls the tool for a loop that is over
  (`agents.ts` 643; the page, `humanApproval.ts` 156, says that the loop will
  resume): `CallThrows`.
- A pattern with `*` in `match_tool` matches no tool (`policyEngine.ts` 44;
  `policy.yaml` 3 says otherwise): `Matches` compares whole names.
- A tool that throws leaves no entry about its outcome and its message is not
  judged (`agents.ts` 654): `CallThrows`. An error of the judge counts as valid
  (`llmJudge.ts` 44): `JudgeInput`, `JudgeOutput`.
- A decision whose entry cannot be written takes effect (`auditLog.ts` 34): `Written`.
- An edit to a falsy value (`0`, `""`, `false`) is what the tool gets, but its entry
  says `approved` instead of `modified`, with the original as the proposed arguments
  and the edit beside them (`agents.ts` 515, 523-526): `Resume`.
- A rejected call of a `returnDirect` tool, when it is last in its step, is the
  answer of the run (`agents.ts` 693): `Join`.

*Tool agent.*

- A question that moderation refused is saved with the chat, and with the
  database memory the next turn sends it to the model (`buildChatflow.ts` 680,
  `ToolAgent.ts` 96): `RefusedStaysOut` is about external memories only.
- Tokens and `returnDirect` answers are shown before the output is judged
  (`ToolAgent.ts` 231-269; `src/README.md` 101 puts the judge before the user).
- With a session TTL the memory may vanish while a turn waits for an approval, and
  its next plan knows nothing of the session; or between the question and the
  answer of a turn, which leaves the answer alone (`RedisBackedChatMemory.ts` 184,
  191): `Lapse`. A new list whose `expire` fails has no date at all: `Fails`.
- A warning whose entry cannot be written is given without one (`auditLog.ts` 48):
  `Judged`.
- The Redis-backed memory with a window reads the oldest messages, not the last
  (`RedisBackedChatMemory.ts` 164 against 71).

*Agentflow engine.*

- When an agent stops to ask, what is queued on other routes is dropped for good
  (`buildAgentflow.ts` 1518; 1118 continues only from the asking node): `NodeReturns`.
- Two answers to one question may both resume (1319, 1347): `BeginResume`, `Claim`.
- Of several edges on one unfulfilled outcome only the first target is skipped,
  and a target shared by two outcomes is skipped though one is fulfilled (550):
  `Ignored`.
- Resuming removes also the finished entries of the asking node from earlier
  passes of a loop (881): `Remembered`. Two inputs of a join within one branch
  make it run twice (506): `HasRequired`.

*Agent node* (`Agent.ts`).

- A question asked by a round after a resumption, inside a resumed loop, is
  dropped: the caller of the inner loop looks at the answer only (1388, 1497).
- The flag that a tool requires a human is set on one tool and lost on a list of
  tools (498-509), and is ignored inside an iteration (1374).
- One "proceed" covers all calls of the answer (1628), and does nothing when
  another call of the answer ran before the question (1576-1587): the premise of
  `ProceedHonoured`.
- "reject" on an answer of several calls takes more messages out than the answer
  (1625), also for the runs that resume the conversation later, as the attempt to
  prove `ConversationPaired` showed: its premise; and it is forgotten at the next stop.
- Nothing limits the number of rounds (1497).

*Prediction.*

- A second request of a chat replaces the response and the controller of the
  first: the stream of the first never ends, an abort hits the second, and the end of one removes
  the controller of the other, also when its flow is refused
  (`SSEStreamer.ts` 16, `AbortControllerPool.ts` 12, `buildChatflow.ts` 904).
- Workers keep the controllers of the jobs they have done; an abort that comes
  before its job is lost, one that comes after may hit the chat's next run.
- Tokens sent before the server is subscribed are lost, late ones are dropped or
  given to the next response of the chat, and a job that is run again repeats them.

*Document store* (`documentstore/index.ts`).

- UPSERTING is overwritten at once by the second save of the configuration, which
  says SYNC whatever state the loaders are in (1057, 1141).
- An insert that comes when nothing is configured, neither in the request nor in the
  row, saves UPSERTING; the second save of the configuration leaves it there (1054),
  making the embeddings throws (1157), and the store stays UPSERTING: the exception
  in `NotStuckUpserting`.
- Deleting a chunk lowers the count of the loader the request names, whoever's the
  chunk is (324-331): `setup.astray`, the premise of `Counted`. When the row cannot
  be saved after the chunk was deleted, the count stays one too high (334).
- A chunk whose save is refused is missing, though the loader says SYNC and counts
  it: nobody awaits the save (884-895): `SaveFails`. A processing that is refused or
  dies between the deletion of the old chunks (875) and these saves leaves a loader
  without chunks, SYNCING.
- An upsert after processing may read the chunks before they are saved (881, 1169).
- A reprocessing that fails leaves the loader SYNCING, with its old chunks and a
  total of 0, which deleting a chunk makes -1 (330, 690).
- With overlapping requests a loader added meanwhile is lost, a store that was
  deleted comes back, and the chunks of both processings stay (899).

## Proofs

All theorems hold for any sets of requests, tabs, edits, runs, tools, rules,
agents, turns, loaders, flows, chats and workers that satisfy the named assumptions: `NullsAssumption`
(the null values are not requests or responses), `PolicyAssumption` (files are
sequences of rules), `ExecutorAssumption` (each call belongs to a run and a step;
`NotRun` is no argument), `AgentsAssumption` (what an agent's configuration
consists of), `SetupsAssumption` (what a session of turns consists of),
`StoreAssumption` (what a setup consists of; a store has finitely many loaders, so
that a refresh can list them), `PredictionAssumption` (what a set-up consists of;
`None` is nobody) and `EngineAssumption` (a flow has finitely many
nodes, edges between its nodes, and a start: the start node of the editor has no
input, `components/nodes/agentflow/Start/Start.ts` 27). TLC evaluates them in the runs, and has checked every inductive
invariant named below on the instances of the runs.

*Portal* (`AgentExecutorProofs`, first part). `PortalInv` is the conjunction of the type
invariant, `NoCallerForgotten`, `ResolvedOnce` and `HeldInOrder`, and is
inductive. The parts need each other: a timer never fires for a waiting request
only because timers fire in the order of the calls, the queue is in that order,
and the active request is ahead of it; and a resolver runs once only because an
unresolved call is exactly one with a running timer. From it follow
`OnlyActiveAnswered` and the refinement of `ApprovalSpec`: a step of the portal
is an `Ask`, an `Answer` to the head of the line, or a stutter.

*Policy* (`PolicyEngineProofs`, `PolicyUseProofs`). `FirstMatchDecides` says what
`evaluate()` returns for every list of rules. `UseInv` ties each verdict that a
rule gave to the cache it came from; the cache changes only from empty to the
file, or to empty by `clearCache()`, when the callers forget their verdicts. From
it follow `RuleStands` and `AllowAllOnlyWhileUnreadable` for every set of files.

*Loop* (`AgentExecutorProofs`). Every step of the loop leaves the portal alone or
is a step of the portal, so `PortalInv` carries over (`PortalSafeUnderLoop`).
`LoopInv` adds `TypeOK`, `CallsTracked`, `GovernedExecution`,
`LoggedBeforeEffect` and `NoCallOutlivesItsStep`. `CallsTracked` is the
strengthening: the others talk of calls that have run, and are preserved only
because a call that is about to run waits with verdict `escalate` and an unused
promise, and a call of a later step has not begun. A resolved promise is never
resolved again, so an approval that was used stays what it was. `PolicyObeyed`
needs one more invariant, that with an unchanging readable file the cache is
empty or that file, and that a verdict is the file's.

`LogIsTrue`: what the last entry of a call may be is tied to the await the call
is at (`LogInv`), which is inductive beside `LoopInv`; `LogTellsOutcome` is its
case for calls that are over.

*Agent node* (`AgentNodeProofs`). `NodeInv` is the type invariant, that every
assistant message of the checkpoint and of a run is of an answer that exists,
that a STOPPED execution has a checkpoint, that every call made is of an answer,
and, for each run, that its place in the loop agrees with the decision it carries
(`Bookkeeping`, `Proceeding`, `Rejecting`), with `HumanFirst` and
`RejectedToolsGone`. The second group is needed because a resumed run takes the
answer it decides on from the last message of the checkpoint: `HumanFirst` is
preserved by a call in a later round only because the tools that require a human
stop there, and by a call in the resumed round only because the decision recorded
is of that very round.

`RanOnce` and `RejectedNeverRuns` rest on `SequenceInv`: while requests do not
overlap, the calls made for an answer are an initial part of it in each of the
runs that deal with it, what a checkpoint says is still to be done has not been
done, and a decided answer is decided once. `ProceedHonoured` rests on `HonourInv`,
which needs no premise on overlapping: an answer that is shown is the last message
of the conversation that stopped, nobody else has that round, and a run that
proceeded is at a call of that answer, or has made the one that was shown, or has
failed. `OthersResume` is the heart of it: the row a run resumes from is never
that of an answer another run is still at.

`ConversationPaired` rests on `PairInv`: the conversation of a checkpoint is whole
blocks, an answer and the results of its due calls, and one open answer at the end,
the latest, with the results its run had when it stopped; a run that resumes it goes
on with that answer, and one that was told "reject" takes it out when it has a single
call. Which tools were at hand for an answer, and so which of its calls are due, is
settled when the answer is given (`Due`).

*Tool agent* (`AgentTurnProofs`). `RecordInv` says what each await of a turn
implies about the rows, the list, the log and what was sent (`Stage`, `Saved`,
`Listed`, `Logged`), and holds for overlapping turns; `RefusedStaysOut` and
`AnswersOnRecord` are read off it. `SentIsRemembered` gives `RecallGrows`: rows are
only added, and a plan recalls all of them, so that the lemmas about `Nth` (rows
in the order of their dates) are needed, not which row is where. `Conversation`
needs `SessionInv`: with one turn at a time (`Single`) the rows and the list pair
questions with their answers (`RowsPaired`, `ListPaired`), and the turn at work has
the latest dates (`Latest`). Redis may drop the list at any of these points, but drops all of
it: an answer without its question can only be the first message of the next list,
and since a message is pushed once, a plan after that finds nothing of what a plan
before it found (`RecallGrows`). The entry about a warning is claimed only of a log
that can be written.

*Document store* (`DocumentStoreProofs`). `BaseInv` ties each request's locals to
where it is: what is deleted by whom, where a request without a configuration can
be (`OpAtPlace`), which loaders a refresh has left, that a loader about to be split
has no chunks by this request (`Ahead`). `WholeVersion` is inductive beside it for
any overlap: the deletion of the old chunks makes its request the one that is about
to save (`Clear`), and its saves make its version whole (`Refill`); until then no
other request has to be. For requests that wait for one another, `SoloInv` says that the one at
work has read the row as it is (`AtIt`), so that saving it as a whole loses nothing;
that every chunk, saved or under way, has its loader on the row; and that the state
UPSERTING is seen only while whoever set it is about to save its configuration again
(`Retries`), unless an insert had none (`Nameless`). `NoOrphans` and
`NotStuckUpserting` are its parts, `NoOrphans` through refused calls and crashes.
`CountInv` compares the count of a loader with the chunks stored or under way
(`Pool`), one less between the deletion of a chunk and the save of the count
(`Expected`), and none that matter while what they belong to is leaving
(`Leaving`): at most as many as are counted, and exactly so while nothing was
refused or has crashed (`Tally`; `Settled` when nobody is at work). A loader that is
processed is SYNCING from before its chunks are deleted until the new ones are
counted, which is why `Counted` holds through failures.

*Agentflow engine* (`AgentflowEngineProofs`). `TruthInv` holds for any overlap: the
types, `RowsTellTruth`, and for each run a `Stage` that ties the await it is at to
its locals and its row (who settles a row has just put into its data what the new
state says, so that the last writer leaves state and data of one piece). For
requests that wait for one another `SingleInv` adds that one run is at work
(`OnlyRun`), that its row is in progress, or the last one and STOPPED until the run
claims it, and that the run has kept what the row says is finished (`OwnRow`);
`EngineInv` is both. `RowSteps` says what a step does to the
rows: nothing, a new one, the last one taken up, the own one saved. From it follow
`HistoryKept` and, case by case, the refinement of `ExecutionSpec`.

What a node passes on and what a resumption removes are computed by recursion over
the edges and over the data (`ReceiveAll`, `Only`). Their lemmas take a least
counterexample instead of an induction (`LeastOf`, from the well-foundedness of the
naturals): `Iterates` says that a recursion over the naturals has its function,
`ReceiveAllType` that queue and inputs keep their types, `OnlyAppend` and
`OnlyTwice` what is left of a sequence that grows or has been filtered before.

Which nodes run follows from what queue, waiting inputs and data hold, and a row of a
run is compared with it at every await (`RunWithin`, `InputsInv`, `OnceInv`).
`BranchesAreTaken`: take any set of nodes that has the starts in it and that only an
outcome of a condition leads out of; as long as the outcome is not fulfilled, nothing
done, queued or waiting lies outside (`BranchInv`). This holds for loops, resumptions,
crashes and overlapping requests. It is not so of a human's choice: an answer to a node
that has its answer replaces it (1319, 881), and what the first choice had led to has run.
Hence the property is about conditions only.
`InputsAreDecisive`: a node of a flow that neither loops nor asks is queued or done
exactly if the inputs it got from what is done suffice, and keeps waiting with just those
otherwise (`Fed`); `InputsInv` needs no order of the queue. `UnconditionalRunOnce` rests on
it: a node below no decision is at one place of the queue or the data at most, since its
last input can come once only (`OnceInv`), and, by following the sources of a node down to
the starts, at one at least. This needs that the flow has no cycle and no node that decides
nothing has two edges to the same node (`Drawn`): the editor sees to it
(`packages/ui/src/utils/genericHelper.js` 37-56 gives such a node one output,
`isValidConnectionAgentflowV2` and `wouldCreateCycle`, 378-433, refuse the edge that closes
a cycle), the server does not check it.

*Predictions* (`PredictionProofs`). `PredInv` is the type invariant and eight parts.
`ModeInv` keeps server and queue apart; by `JobInv` a job is queued once and has
emitted nothing before its first run; by `ChatInv` and `FreshInv` a controller or a
response is of an open request of its chat, and whoever is `lone` has no rival that
could take it. That is what `AbortFindsRun` needs. For `TokensInOrder`, `OrderInv`
looks at a response together with what is still in the channel (`Stream`): delivery
does not change it, and its last token is the last one emitted as long as the chat
has this response; `AloneInv` counts the tokens of a run that a server runs alone.
A response that was replaced is never the chat's again, since a request comes once.

*By TLC only*: liveness (`EveryCallAnswered`, `EveryRunEnds`, `EveryRequestEnds`,
`EveryResponseEnds`), which is outside what the prover handles. Every invariant and
every action property of the passing runs is a theorem.

## Not modelled, and why

- Iteration nodes (`buildAgentflow.ts` 931-1067, a recursive run of a sub-flow) and
  the runtime state of agentflows: they do not steer the main loop.
- The step iterator (`agents.ts` 773): nothing in the repository drives an executor
  through it. It calls tools without the governance hook.
- What is streamed inside a turn, post-processing, files and structured outputs.
- A policy file whose rules are malformed: `evaluate` throws inside the hook and
  the call ends in an error observation, without the tool.
- The rate limiters (`rateLimit.ts`): a map of limiters, each a library's. In queue
  mode the message that updates one drops its status, so switching a limit off
  adds it again on every server (147, 184).
- `CachePool`, `NodesPool`: maps without an order or a limit of their own.
- Document stores: editing a chunk, files, usage by chatflows, the vector store
  itself and its record manager.
- HTML, sanitising and the text of observations.
- LangGraph agents, chatflow building, storage, UI, the tools and model nodes:
  libraries, services, data transformation, input and output.

## Next

1. The rate limiters of several servers.
2. Iteration nodes in `AgentflowEngine`.
