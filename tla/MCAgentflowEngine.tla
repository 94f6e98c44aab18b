-------------------------- MODULE MCAgentflowEngine --------------------------
(* Small flows for TLC. *)
EXTENDS AgentflowEngine, TLC

CONSTANTS r1, r2, r3

\* The requests are alike.
MCSymmetry == Permutations(Runs)

E(s, h, t) == [source |-> s, handle |-> h, target |-> t]

OutcomesOf(kind) == [n \in DOMAIN kind |-> IF kind[n] \in Deciders THEN 2 ELSE 1]

Flow(kind, edges) ==
    [kind |-> kind, edges |-> edges, outcomes |-> OutcomesOf(kind),
     back |-> [n \in {} |-> n], maxLoop |-> [n \in {} |-> 0]]

LoopFlow(kind, edges, to, max) ==
    [Flow(kind, edges) EXCEPT !.back = [n \in {"loop"} |-> to],
                              !.maxLoop = [n \in {"loop"} |-> max]]

\* A human's approval between two nodes and an end for either answer.
Approval == Flow("start" :> "plain" @@ "ask" :> "human" @@ "do" :> "plain" @@ "drop" :> "plain",
                 <<E("start", 0, "ask"), E("ask", 0, "do"), E("ask", 1, "drop")>>)

\* An agent that may ask, then a condition.
AgentFirst == Flow("start" :> "plain" @@ "agent" :> "agent" @@ "cond" :> "condition"
                       @@ "yes" :> "plain",
                   <<E("start", 0, "agent"), E("agent", 0, "cond"), E("cond", 0, "yes")>>)

\* Two agents that may ask, one after the other.
TwoAgents == Flow("start" :> "plain" @@ "agent" :> "agent" @@ "second" :> "agent",
                  <<E("start", 0, "agent"), E("agent", 0, "second")>>)

\* A rejected human input loops back to the work before it.
Rework == LoopFlow("start" :> "plain" @@ "work" :> "plain" @@ "ask" :> "human" @@ "loop" :> "loop",
                   <<E("start", 0, "work"), E("work", 0, "ask"), E("ask", 1, "loop")>>,
                   "work", 3)

\* A condition agent in a loop.
Retry(max) == LoopFlow("start" :> "plain" @@ "work" :> "plain" @@ "cond" :> "conditionAgent"
                           @@ "loop" :> "loop" @@ "end" :> "plain",
                       <<E("start", 0, "work"), E("work", 0, "cond"),
                         E("cond", 0, "loop"), E("cond", 1, "end")>>,
                       "work", max)

\* Two starts: every request is refused.
TwoStarts == Flow("start" :> "plain" @@ "stray" :> "plain" @@ "end" :> "plain",
                  <<E("start", 0, "end"), E("stray", 0, "end")>>)

Session(f, overlaps, limit) == [flow |-> f, overlap |-> overlaps, maxIterations |-> limit]

\* Requests one after the other; requests that overlap, and an iteration
\* limit that is met.
MCSessions ==
    LET flows == {Approval, AgentFirst, TwoAgents, Rework, TwoStarts}
    IN  {Session(f, FALSE, 12) : f \in flows} \cup {Session(f, TRUE, 2) : f \in flows}

\* Every flow of a start and three nodes, of which two may decide, whose
\* edges are stored in one of two orders.
Slots == <<E("start", 0, "a"), E("start", 0, "b"), E("start", 0, "c"),
           E("a", 0, "b"), E("a", 1, "b"), E("a", 0, "c"), E("a", 1, "c"),
           E("b", 0, "c"), E("b", 1, "c")>>

MCSmall ==
    {f \in {Flow(kind, order) :
              kind \in {"start" :> "plain" @@ "a" :> ka @@ "b" :> kb @@ "c" :> "plain" :
                           ka \in {"plain", "condition"}, kb \in {"plain", "conditionAgent"}},
              order \in UNION {{SelectSeq(Slots, LAMBDA e : e \in S),
                                SelectSeq(Reverse(Slots), LAMBDA e : e \in S)} :
                                  S \in SUBSET ToSet(Slots)}} :
        /\ Starts(f) = {"start"}
        /\ \A e \in EdgeSet(f) : e.handle < f.outcomes[e.source]}

\* The small flows, and two with a loop.
MCFlows == {Session(f, FALSE, 12) : f \in MCSmall \cup {Retry(2), Retry(4)}}

\* Two human inputs one after the other.
MCTwoHumans ==
    {Session(Flow("start" :> "plain" @@ "first" :> "human" @@ "second" :> "human"
                      @@ "do" :> "plain" @@ "drop" :> "plain",
                  <<E("start", 0, "first"), E("first", 0, "second"),
                    E("second", 0, "do"), E("second", 1, "drop")>>),
             FALSE, 12)}
=============================================================================
