----------------------------- MODULE MCAgentTurn -----------------------------
(* Turns of a session for TLC. *)
EXTENDS AgentTurn, TLC

CONSTANTS t1, t2, t3

\* The requests are alike.
MCSymmetry == Permutations(Turns)

Setup(memory, moderated, judged, expires, logFails, overlap) ==
    [memory |-> memory, moderated |-> moderated, judged |-> judged,
     expires |-> expires, logFails |-> logFails,
     overlap |-> overlap, requests |-> 3 - overlap]

\* Either memory, moderation or a judge for the question, a judge for the
\* output or none, three turns one after the other or two that overlap; the
\* same with a list that may lapse, and with writes of the log that fail.
MCSetups ==
    UNION {{Setup(memory, FALSE, {"input", "output"}, FALSE, FALSE, overlap),
            Setup(memory, TRUE, {}, FALSE, FALSE, overlap)} :
               memory \in {"database", "external"}, overlap \in 0..1}
    \cup {Setup("external", TRUE, {"output"}, TRUE, FALSE, overlap) : overlap \in 0..1}
    \cup {Setup("database", FALSE, {"input", "output"}, FALSE, TRUE, 1)}
=============================================================================
