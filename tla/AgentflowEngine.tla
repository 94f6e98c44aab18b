--------------------------- MODULE AgentflowEngine ---------------------------
(***************************************************************************)
(* executeAgentFlow() of packages/server/src/utils/buildAgentflow.ts: the  *)
(* requests of one session to one agentflow.  Each request runs the queue  *)
(* of nodes that are ready, until it is empty, a node stops to ask a human *)
(* (the execution is STOPPED and its row can be resumed), a node fails or  *)
(* the run is aborted.  All that survives a run is its row in the          *)
(* execution table.                                                        *)
(*                                                                         *)
(* An action is the code between two awaits; updateExecution(), which      *)
(* reads the row, merges and saves, is one write.  Iteration nodes, which  *)
(* run a flow of their own, are left out.                                  *)
(***************************************************************************)
EXTENDS FlowGraph

CONSTANTS
    Runs,      \* the requests
    Sessions,  \* the sessions to look at
    NoInput    \* no humanInput in the request

(* A session s has                                                         *)
(*   s.flow           its agentflow                                        *)
(*   s.overlap        may a request arrive while another one runs?         *)
(*   s.maxIterations  of the main loop; the code's default is 1000         *)

ASSUME EngineAssumption ==
    \A s \in Sessions :
        /\ DOMAIN s = {"flow", "overlap", "maxIterations"}
        /\ IsFlow(s.flow) /\ s.overlap \in BOOLEAN /\ s.maxIterations \in Nat

VARIABLES
    session,
    rows,     \* the executions of the session, oldest first
    pc,       \* run -> the await it is at, or how it ended
    row,      \* run -> the index of its execution, 0 for none
    aborted,  \* run -> has its abort controller been triggered?
    local     \* run -> the locals of executeAgentFlow()

flow == session.flow

engineVars == <<session, rows, pc, row, aborted, local>>

Live    == {"claiming", "looping", "executing", "closing", "failing"}
Endings == {"answered", "failed", "refused", "exhausted", "dead"}

(* The nodes that may stop and ask. *)
Asking == {n \in Nodes(flow) : flow.kind[n] \in {"human", "agent"}}

HumanInputs == [node : Asking, choice : {0, 1}]   \* 0 is proceed, 1 is reject

Settled == {"STOPPED", "FINISHED", "ERROR", "TERMINATED"}

Entries == [node : Nodes(flow), status : Settled, took : SUBSET Nat]

Entry(n, status, took) == [node |-> n, status |-> status, took |-> took]

Locals(queue, data, input) ==
    [nodeExecutionQueue    |-> queue,
     waitingNodes          |-> [n \in Nodes(flow) |-> {}],  \* the received inputs
     loopCounts            |-> [n \in Nodes(flow) |-> 0],
     agentFlowExecutedData |-> data,
     currentHumanInput     |-> input,
     iterations            |-> 0,
     currentNode           |-> NoNode]

EngineInit ==
    /\ session \in Sessions
    /\ rows = <<>>
    /\ pc = [r \in Runs |-> "idle"]
    /\ row = [r \in Runs |-> 0]
    /\ aborted = [r \in Runs |-> FALSE]
    /\ local = [r \in Runs |-> Locals(<<>>, <<>>, NoInput)]

-----------------------------------------------------------------------------
(* A request begins. *)

Goto(r, place) == pc' = [pc EXCEPT ![r] = place]

MayBegin(r) == pc[r] = "idle" /\ (session.overlap \/ \A s \in Runs : pc[s] \notin Live)

(* A question or a form: a new execution, from the start node. *)
BeginNew(r) ==
    /\ MayBegin(r)
    /\ IF Cardinality(Starts(flow)) > 1
       THEN /\ Goto(r, "refused")
            /\ UNCHANGED <<rows, row, local>>
       ELSE /\ rows' = Append(rows, [state |-> "INPROGRESS", data |-> <<>>])
            /\ row' = [row EXCEPT ![r] = Len(rows) + 1]
            /\ local' = [local EXCEPT ![r] = Locals(SetToSeq(Starts(flow)), <<>>, NoInput)]
            /\ Goto(r, "looping")
    /\ UNCHANGED <<session, aborted>>

(* Resuming whatever the state of the last execution is. *)
BugResumable(input) ==
    /\ rows # <<>>
    /\ \E i \in 1..Len(Last(rows).data) : Last(rows).data[i].node = input.node

(* The last execution is STOPPED, and has met the node. *)
Resumable(input) ==
    /\ rows # <<>>
    /\ Last(rows).state = "STOPPED"
    /\ \E i \in 1..Len(Last(rows).data) : Last(rows).data[i].node = input.node

(* Starting over from the asking node without what ran before it. *)
BugBeginResume(r) ==
    /\ MayBegin(r)
    /\ \E input \in HumanInputs :
          IF Resumable(input)
          THEN /\ local' = [local EXCEPT ![r] = Locals(<<input.node>>, <<>>, input)]
               /\ row' = [row EXCEPT ![r] = Len(rows)]
               /\ Goto(r, "claiming")
          ELSE /\ Goto(r, "refused")
               /\ UNCHANGED <<row, local>>
    /\ UNCHANGED <<session, rows, aborted>>

(* An answer to a node that asked: the session's last execution is found,  *)
(* and the run goes on from the node with what that execution has done.    *)
BeginResume(r) ==
    /\ MayBegin(r)
    /\ \E input \in HumanInputs :
          IF Resumable(input)
          THEN /\ local' = [local EXCEPT ![r] =
                                Locals(<<input.node>>, Last(rows).data, input)]
               /\ row' = [row EXCEPT ![r] = Len(rows)]
               /\ Goto(r, "claiming")
          ELSE /\ Goto(r, "refused")
               /\ UNCHANGED <<row, local>>
    /\ UNCHANGED <<session, rows, aborted>>

(* updateExecution(..., {state: 'INPROGRESS'}). *)
Claim(r) ==
    /\ pc[r] = "claiming"
    /\ rows' = [rows EXCEPT ![row[r]].state = "INPROGRESS"]
    /\ Goto(r, "looping")
    /\ UNCHANGED <<session, row, aborted, local>>

-----------------------------------------------------------------------------
(* The main loop. *)

(* The next node is taken off the queue and its run starts.  The iteration *)
(* limit throws out of the function and leaves the row as it is.           *)
Take(r) ==
    /\ pc[r] = "looping"
    /\ local[r].nodeExecutionQueue # <<>>
    /\ LET n == Head(local[r].nodeExecutionQueue)
           next == [local[r] EXCEPT !.iterations = @ + 1, !.currentNode = n,
                                    !.nodeExecutionQueue = Tail(@)]
       IN  \/ /\ local[r].iterations > session.maxIterations
              /\ Goto(r, "exhausted")
              /\ UNCHANGED local
           \/ /\ local[r].iterations <= session.maxIterations
              /\ aborted[r]
              /\ local' = [local EXCEPT ![r] = [next EXCEPT !.agentFlowExecutedData =
                               Append(@, Entry(n, "TERMINATED", {}))]]
              /\ Goto(r, "failing")
           \/ /\ local[r].iterations <= session.maxIterations
              /\ ~ aborted[r]
              /\ local' = [local EXCEPT ![r] = next]
              /\ Goto(r, "executing")
    /\ UNCHANGED <<session, rows, row, aborted>>

(* The elements of a sequence that are in a set, in their order. *)
Only(s, set) ==
    LET only[k \in 0..Len(s)] ==
            IF k = 0 THEN <<>>
            ELSE IF s[k] \in set THEN Append(only[k - 1], s[k]) ELSE only[k - 1]
    IN  only[Len(s)]

(* The answer in the request, if it is for node n. *)
Answered(l, n) == l.currentHumanInput # NoInput /\ l.currentHumanInput.node = n

(* The entries the run goes on with: when it has run the node it resumes   *)
(* from, without the earlier entries of that node.                         *)
Remembered(l) ==
    IF Answered(l, l.currentNode)
    THEN Only(l.agentFlowExecutedData, {e \in Entries : e.node # l.currentNode})
    ELSE l.agentFlowExecutedData

(* The outcomes that a run of a node may fulfil: one of a condition (its   *)
(* else counts); at most one of a condition agent, whose model may name    *)
(* none of them; the human's choice; or all, when no conditions come with  *)
(* the result.                                                             *)
ConditionResults(n)      == {{h} : h \in Handles(flow, n)}
ConditionAgentResults(n) == {{h} : h \in Handles(flow, n)} \cup {{}}

HumanResults(l, n) ==
    {IF Answered(l, n) THEN {l.currentHumanInput.choice} ELSE Handles(flow, n)}

Results(l, n) ==
    CASE flow.kind[n] = "condition"      -> ConditionResults(n)
      [] flow.kind[n] = "conditionAgent" -> ConditionAgentResults(n)
      [] flow.kind[n] = "human"          -> HumanResults(l, n)
      [] OTHER                           -> {Handles(flow, n)}

(* Forgetting the inputs that came before. *)
BugReceive(l, n, child) ==
    IF HasRequired(flow, child, {n})
    THEN [l EXCEPT !.waitingNodes[child] = {}, !.nodeExecutionQueue = Append(@, child)]
    ELSE [l EXCEPT !.waitingNodes[child] = {n}]

(* A child receives the result of node n, and is queued if it has all the  *)
(* inputs it needs.                                                        *)
Receive(l, n, child) ==
    LET received == l.waitingNodes[child] \cup {n}
    IN  IF HasRequired(flow, child, received)
        THEN [l EXCEPT !.waitingNodes[child] = {}, !.nodeExecutionQueue = Append(@, child)]
        ELSE [l EXCEPT !.waitingNodes[child] = received]

(* The children that are not ruled out receive it, in the order of their   *)
(* edges (graph[n] has a target per edge).                                 *)
ReceiveAll(l, n, ignored) ==
    LET child(k) == flow.edges[k].target
        after[k \in 0..Len(flow.edges)] ==
            IF k = 0 THEN l
            ELSE IF flow.edges[k].source = n /\ child(k) \notin ignored
                 THEN Receive(after[k - 1], n, child(k))
                 ELSE after[k - 1]
    IN  after[Len(flow.edges)]

(* Looping back without counting. *)
BugLoopBack(l, n) ==
    IF flow.kind[n] = "loop" /\ l.loopCounts[n] + 1 < flow.maxLoop[n]
    THEN [l EXCEPT !.nodeExecutionQueue = Append(@, flow.back[n]),
                   !.currentHumanInput = NoInput]
    ELSE l

(* A loop node queues the node it goes back to, unless it has done so too  *)
(* often, and the answer of the human is forgotten.                        *)
LoopBack(l, n) ==
    IF flow.kind[n] = "loop" /\ l.loopCounts[n] + 1 < flow.maxLoop[n]
    THEN [l EXCEPT !.loopCounts[n] = @ + 1,
                   !.nodeExecutionQueue = Append(@, flow.back[n]),
                   !.currentHumanInput = NoInput]
    ELSE l

(* A loop node queues its target although it has looped enough, and then  *)
(* has none.                                                               *)
BugLoopNowhere(l, n, took) ==
    LET after == LoopBack(ReceiveAll(l, n, Ignored(flow, n, took)), n)
    IN  IF after # l \/ flow.kind[n] # "loop" THEN after
        ELSE [l EXCEPT !.nodeExecutionQueue = Append(@, NoNode)]

(* processNodeOutputs(). *)
ProcessNodeOutputs(l, n, took) == LoopBack(ReceiveAll(l, n, Ignored(flow, n, took)), n)

(* A node may stop the run and ask: a human node asks unless the request   *)
(* came with an answer, whichever node that answer is for; an agent asks   *)
(* when a tool it wants needs an approval.                                 *)
AsksHuman(l, n) == flow.kind[n] = "human" /\ l.currentHumanInput = NoInput
MayAsk(l, n)    == AsksHuman(l, n) \/ flow.kind[n] = "agent"

(* The node returns: it asks and the run stops, or its outputs are         *)
(* processed.                                                              *)
NodeReturns(r) ==
    /\ pc[r] = "executing"
    /\ LET l == local[r]
           n == l.currentNode
       IN  \/ /\ MayAsk(l, n)
              /\ local' = [local EXCEPT ![r].agentFlowExecutedData =
                               Append(Remembered(l), Entry(n, "STOPPED", {}))]
              /\ Goto(r, "closing")
           \/ /\ ~ AsksHuman(l, n)
              /\ \E took \in Results(l, n) :
                    LET done == [l EXCEPT !.agentFlowExecutedData =
                                     Append(Remembered(l), Entry(n, "FINISHED", took))]
                    IN  local' = [local EXCEPT ![r] = ProcessNodeOutputs(done, n, took)]
              /\ Goto(r, "looping")
    /\ UNCHANGED <<session, rows, row, aborted>>

(* The node throws; an error that mentions "Aborted" counts as an abort.   *)
NodeThrows(r) ==
    /\ pc[r] = "executing"
    /\ \E status \in {"ERROR", "TERMINATED"} :
          local' = [local EXCEPT ![r].agentFlowExecutedData =
                        Append(@, Entry(local[r].currentNode, status, {}))]
    /\ Goto(r, "failing")
    /\ UNCHANGED <<session, rows, row, aborted>>

(* The row gets the status of the node that failed, and the request the    *)
(* error.                                                                  *)
SaveFailure(r) ==
    /\ pc[r] = "failing"
    /\ LET data == local[r].agentFlowExecutedData
       IN  rows' = [rows EXCEPT ![row[r]] = [state |-> Last(data).status, data |-> data]]
    /\ Goto(r, "failed")
    /\ UNCHANGED <<session, row, aborted, local>>

(* The status of the run, and not of all that the execution has done. *)
BugStatusOf(data) == Last(data).status

(* The status of an execution by what its entries say, the worst first.    *)
StatusOf(data) ==
    LET has(status) == \E i \in 1..Len(data) : data[i].status = status
    IN  CASE has("TERMINATED") -> "TERMINATED"
          [] ~ has("TERMINATED") /\ has("ERROR") -> "ERROR"
          [] ~ has("TERMINATED") /\ ~ has("ERROR") /\ has("STOPPED") -> "STOPPED"
          [] OTHER -> "FINISHED"

(* The loop has ended: the row is written and the request answered.        *)
SaveEnd(r) ==
    /\ \/ pc[r] = "closing"
       \/ pc[r] = "looping" /\ local[r].nodeExecutionQueue = <<>>
    /\ LET data == local[r].agentFlowExecutedData
       IN  rows' = [rows EXCEPT ![row[r]] = [state |-> StatusOf(data), data |-> data]]
    /\ Goto(r, "answered")
    /\ UNCHANGED <<session, row, aborted, local>>

(* The user aborts the run. *)
Abort(r) ==
    /\ pc[r] \in Live /\ ~ aborted[r]
    /\ aborted' = [aborted EXCEPT ![r] = TRUE]
    /\ UNCHANGED <<session, rows, pc, row, local>>

(* The process dies, and all runs with it. *)
Crash ==
    /\ \E r \in Runs : pc[r] \in Live
    /\ pc' = [r \in Runs |-> IF pc[r] \in Live THEN "dead" ELSE pc[r]]
    /\ UNCHANGED <<session, rows, row, aborted, local>>

-----------------------------------------------------------------------------
Step(r) == \/ Claim(r) \/ Take(r) \/ NodeReturns(r) \/ NodeThrows(r)
           \/ SaveFailure(r) \/ SaveEnd(r)

EngineNext ==
    \/ \E r \in Runs : BeginNew(r) \/ BeginResume(r) \/ Step(r) \/ Abort(r)
    \/ Crash

(* Nodes return or throw, and the database answers. *)
EngineSpec == EngineInit /\ [][EngineNext]_engineVars
                         /\ \A r \in Runs : WF_engineVars(Step(r))

-----------------------------------------------------------------------------
LocalsOK ==
    [nodeExecutionQueue    : Seq(Nodes(flow)),
     waitingNodes          : [Nodes(flow) -> SUBSET Nodes(flow)],
     loopCounts            : [Nodes(flow) -> Nat],
     agentFlowExecutedData : Seq(Entries),
     currentHumanInput     : HumanInputs \cup {NoInput},
     iterations            : Nat,
     currentNode           : Nodes(flow) \cup {NoNode}]

EngineTypeOK ==
    /\ session \in Sessions
    /\ rows \in Seq([state : Settled \cup {"INPROGRESS"}, data : Seq(Entries)])
    /\ pc \in [Runs -> {"idle"} \cup Live \cup Endings]
    /\ row \in [Runs -> 0..Len(rows)]
    /\ aborted \in [Runs -> BOOLEAN]
    /\ local \in [Runs -> LocalsOK]

Shown(i) == {rows[i].data[k].status : k \in 1..Len(rows[i].data)}

(* The state of an execution is what its data shows, also when requests    *)
(* overlap and a run goes on from the data of an earlier one; and it is    *)
(* INPROGRESS only for a run that is under way, or was cut off by a crash  *)
(* or by the iteration limit (buildAgentflow.ts 1344, 1599, 1628-1649).    *)
RowsTellTruth ==
    \A i \in 1..Len(rows) :
        /\ rows[i].state = "FINISHED" => Shown(i) = {"FINISHED"}
        /\ rows[i].state = "STOPPED" =>
              "STOPPED" \in Shown(i) /\ Shown(i) \subseteq {"STOPPED", "FINISHED"}
        /\ rows[i].state = "ERROR" => "ERROR" \in Shown(i) /\ "TERMINATED" \notin Shown(i)
        /\ rows[i].state = "TERMINATED" => "TERMINATED" \in Shown(i)
        /\ rows[i].state = "INPROGRESS" =>
              \E r \in Runs : row[r] = i /\ pc[r] \in Live \cup {"exhausted", "dead"}

(* The nodes that never ask and that have finished, in order.              *)
Done(data) ==
    Only(data, {e \in Entries : e.status = "FINISHED" /\ e.node \notin Asking})

(* Stopping and resuming forgets nothing: an execution keeps what it has   *)
(* done, across any number of answers, while requests do not overlap       *)
(* (buildAgentflow.ts 1336, 881).                                          *)
HistoryKept ==
    [][~ session.overlap =>
          \A i \in 1..Len(rows) : IsPrefix(Done(rows[i].data), Done(rows'[i].data))]_engineVars

(* While requests do not overlap, an execution begins once, is resumed     *)
(* only when it is the session's last and STOPPED, and is never touched    *)
(* again once it is FINISHED, ERROR or TERMINATED (buildAgentflow.ts       *)
(* 1311-1351).                                                             *)
Lifecycle == INSTANCE ExecutionSpec WITH
                 states <- IF session.overlap THEN <<>>
                           ELSE [i \in 1..Len(rows) |-> rows[i].state]
RowLifecycle == Lifecycle!Spec

Ran(i, n) == \E k \in 1..Len(rows[i].data) : rows[i].data[k].node = n

RunsOnce(i, n) ==
    \E k \in 1..Len(rows[i].data) : \A j \in 1..Len(rows[i].data) :
        rows[i].data[j].node = n <=> j = k

(* Where a run can go from a node: along an edge, and from a loop node     *)
(* back.                                                                   *)
Along(edges) == {<<e.source, e.target>> : e \in edges}
Loops        == {n \in Nodes(flow) : flow.kind[n] = "loop"}
Backwards    == {<<n, flow.back[n]>> : n \in Loops}

Closed(nodes, ways) == \A w \in ways : w[1] \in nodes => w[2] \in nodes

(* The nodes that can be reached from those nodes on those ways. *)
Reachable(from, ways) ==
    LET closed == {nodes \in SUBSET Nodes(flow) : from \subseteq nodes /\ Closed(nodes, ways)}
    IN  {n \in Nodes(flow) : \A nodes \in closed : n \in nodes}

(* Each outcome of d leads to one node at most. *)
Proper(d) ==
    \A e, g \in EdgeSet(flow) : e.source = d /\ g.source = d /\ e # g => e.handle # g.handle

(* The ways that do not use outcome h of d. *)
WaysRound(d, h) ==
    Along({e \in EdgeSet(flow) : e.source # d \/ e.handle # h}) \cup Backwards

Took(data, d, h) == \E k \in 1..Len(data) : data[k].node = d /\ h \in data[k].took

(* Only the branches that were taken run: a node that can be reached only  *)
(* by way of an outcome of a condition ran only if that outcome was        *)
(* fulfilled, whatever joins and loops lie between and however often the   *)
(* execution was stopped (buildAgentflow.ts 523-559).  It is not so of a   *)
(* human's choice, which a second answer replaces.                         *)
BranchTaken ==
    \A i \in 1..Len(rows), d \in Nodes(flow) :
        flow.kind[d] \in Deciders \ {"human"} /\ Proper(d) => \A h \in Handles(flow, d) :
            \/ Took(rows[i].data, d, h)
            \/ LET round == Reachable(Starts(flow), WaysRound(d, h))
               IN  \A n \in Nodes(flow) : Ran(i, n) => n \in round

(* The nodes that no decision lies above.                                  *)
Unconditional ==
    LET decided == {e.target : e \in {g \in EdgeSet(flow) : flow.kind[g.source] \in Deciders}}
    IN  Nodes(flow) \ Reachable(decided, Along(EdgeSet(flow)))

(* The editor lets nobody draw a cycle (wouldCreateCycle() of              *)
(* packages/ui/src/utils/genericHelper.js), nor an edge twice: a node that *)
(* decides nothing has one output, so its edges go to different nodes.     *)
Drawn ==
    /\ \A nodes \in SUBSET Nodes(flow) :
          nodes # {} => \E n \in nodes : Sources(flow, n) \cap nodes = {}
    /\ \A j, k \in 1..Len(flow.edges) :
          flow.edges[j].source = flow.edges[k].source /\ flow.edges[j].target = flow.edges[k].target
          /\ flow.kind[flow.edges[j].source] \notin Deciders => j = k

(* In a finished execution that no node stopped, every node that depends   *)
(* on no decision has run exactly once, in whatever order the queue got    *)
(* its inputs to it (buildAgentflow.ts 494-513, 593-626).                  *)
UnconditionalOnce ==
    Loops = {} /\ Asking = {} /\ Drawn => \A i \in 1..Len(rows) :
        rows[i].state = "FINISHED" => \A n \in Unconditional : RunsOnce(i, n)

(* The inputs a node got from the nodes that ran. *)
Arrived(i, n) ==
    {s \in Sources(flow, n) : \E k \in 1..Len(rows[i].data) :
        rows[i].data[k].node = s /\ n \notin Ignored(flow, s, rows[i].data[k].took)}

(* Whether a node runs is decided by which inputs it gets, and not by the  *)
(* order they come in: nobody keeps waiting with all inputs there, nobody  *)
(* starts without them (buildAgentflow.ts 604-626).                        *)
InputsDecide ==
    Loops = {} /\ Asking = {} => \A i \in 1..Len(rows) :
        rows[i].state = "FINISHED" => \A n \in Nodes(flow) \ Starts(flow) :
            Ran(i, n) <=> HasRequired(flow, n, Arrived(i, n))

(* Every request is answered or fails, loops and all: no flow whose loops  *)
(* are bounded runs into the iteration limit; only a crash ends a run      *)
(* without a word (buildAgentflow.ts 631-656, 1449-1458).                  *)
EveryRequestEnds ==
    \A r \in Runs : pc[r] \in Live ~> pc[r] \in {"answered", "failed", "dead"}

-----------------------------------------------------------------------------
(* What the code says of itself, and does not keep.                        *)

(* 1071: "Stop going through the current route if the node is a human      *)
(* task": a human node is passed only with its human's choice.             *)
StopsForHuman ==
    \A i \in 1..Len(rows) : \A k \in 1..Len(rows[i].data) :
        LET e == rows[i].data[k]
        IN  flow.kind[e.node] = "human" /\ e.status = "FINISHED" => Cardinality(e.took) = 1
=============================================================================
