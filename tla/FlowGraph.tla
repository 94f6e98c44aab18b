------------------------------ MODULE FlowGraph ------------------------------
(***************************************************************************)
(* What packages/server/src/utils/buildAgentflow.ts reads off the graph of *)
(* an agentflow: the children of a node, the inputs a node waits for, and  *)
(* the children that an unfulfilled condition rules out.                   *)
(*                                                                         *)
(* A flow f has                                                            *)
(*   f.kind      node -> "plain", "agent", "loop", or a kind of Deciders   *)
(*   f.outcomes  node -> how many output handles it has, counted from 0    *)
(*   f.edges     its edges [source, handle, target], in their stored order *)
(*   f.back      loop node -> the node it loops back to                    *)
(*   f.maxLoop   loop node -> its maxLoopCount                             *)
(* Several look-ups of the code take the first edge that fits, so the      *)
(* order of the edges matters.                                             *)
(***************************************************************************)
EXTENDS Naturals, Sequences, SequencesExt, FiniteSets

CONSTANT NoNode   \* null

Deciders == {"condition", "conditionAgent", "human"}

Nodes(f) == DOMAIN f.kind
EdgeSet(f) == ToSet(f.edges)

(* The places in f.edges of the edges into a node, and of those out of a   *)
(* handle; the code takes the first edge it finds.                         *)
Into(f, n)       == {k \in 1..Len(f.edges) : f.edges[k].target = n}
At(f, n, h)      == {k \in 1..Len(f.edges) : f.edges[k].source = n /\ f.edges[k].handle = h}
First(f, places) == f.edges[Min(places)]

Sources(f, n) == {e.source : e \in {d \in EdgeSet(f) : d.target = n}}

(* getStartingNode(): the nodes that no edge enters. *)
Starts(f) == {n \in Nodes(f) : Sources(f, n) = {}}

(* What the editor lets a user draw.  No edge can enter the start node,    *)
(* which has no input anchor.                                              *)
IsFlow(f) ==
    /\ IsFiniteSet(Nodes(f)) /\ NoNode \notin Nodes(f)
    /\ f.kind \in [Nodes(f) -> {"plain", "agent", "loop"} \cup Deciders]
    /\ f.outcomes \in [Nodes(f) -> Nat]
    /\ f.edges \in Seq([source : Nodes(f), handle : Nat, target : Nodes(f)])
    /\ \A n \in Nodes(f) : f.kind[n] = "loop" => f.back[n] \in Nodes(f)
    /\ Starts(f) # {}

(* findConditionParent(): up the first edge into each node, to the first   *)
(* decision node met, n itself included.  It stops after as many steps as  *)
(* there are nodes, for the `visited` set of the code.                     *)
ConditionParent(f, n) ==
    LET size == Cardinality(Nodes(f))
        up == [m \in Nodes(f) |-> IF f.kind[m] \in Deciders \/ Into(f, m) = {}
                                  THEN m ELSE First(f, Into(f, m)).source]
        climb[k \in 0..size] == IF k = 0 THEN n ELSE up[climb[k - 1]]
    IN  IF f.kind[climb[size]] \in Deciders THEN climb[size] ELSE NoNode

(* setupNodeDependencies(): the inputs a node needs all of, and the groups *)
(* of inputs, by their condition, it needs one each of.                    *)
Expected(f, n) == {s \in Sources(f, n) : ConditionParent(f, s) = NoNode}

ConditionalGroups(f, n) ==
    LET conditional == Sources(f, n) \ Expected(f, n)
    IN  {{s \in conditional : ConditionParent(f, s) = d} :
            d \in {ConditionParent(f, s) : s \in conditional}}

(* Needing one of the expected inputs only. *)
BugReadyAny(f, n, received) ==
    /\ Expected(f, n) = {} \/ Expected(f, n) \cap received # {}
    /\ \A group \in ConditionalGroups(f, n) : group \cap received # {}

(* hasReceivedRequiredInputs(). *)
HasRequired(f, n, received) ==
    /\ Expected(f, n) \subseteq received
    /\ \A group \in ConditionalGroups(f, n) : group \cap received # {}

(* A decision that was not made has every outcome. *)
Handles(f, n) == 0..(f.outcomes[n] - 1)

(* Off by one: the last outcome is never ruled out. *)
BugIgnoreLast(f, n, took) ==
    {First(f, At(f, n, h)).target :
        h \in {g \in Handles(f, n) \ (took \cup {f.outcomes[n] - 1}) : At(f, n, g) # {}}}

(* determineNodesToIgnore(): the target of the first edge of each outcome  *)
(* that is not fulfilled; `took` are the fulfilled ones.                   *)
Ignored(f, n, took) ==
    {First(f, At(f, n, h)).target : h \in {g \in Handles(f, n) \ took : At(f, n, g) # {}}}
=============================================================================
