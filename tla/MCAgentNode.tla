----------------------------- MODULE MCAgentNode -----------------------------
(* Agents with two tools for TLC. *)
EXTENDS AgentNode, TLC

CONSTANTS r1, r2, r3, lookup, wipe, made_up

\* The requests are alike.
MCSymmetry == Permutations(Runs)

Agent(required, listed, direct, inIteration, overlap) ==
    [tools |-> {lookup, wipe}, required |-> required, listed |-> listed,
     direct |-> direct, inIteration |-> inIteration, overlap |-> overlap]

\* One or both tools require a human, come as a list or return directly,
\* inside an iteration or not, and requests overlap or do not.
MCAgents ==
    {Agent({wipe}, {}, {}, FALSE, overlap) : overlap \in BOOLEAN}
        \cup {Agent({lookup, wipe}, {}, direct, FALSE, overlap) :
                 direct \in {{}, {wipe}}, overlap \in BOOLEAN}
        \cup {Agent({lookup, wipe}, {lookup}, {}, FALSE, FALSE),
              Agent({wipe}, {}, {}, TRUE, FALSE)}
=============================================================================
