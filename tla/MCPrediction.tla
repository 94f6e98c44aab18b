---------------------------- MODULE MCPrediction ----------------------------
(* Chats, requests and workers for TLC. *)
EXTENDS Prediction, TLC

CONSTANTS r1, r2, r3, w1, w2

\* Two requests of one chat, and one of another.
MCChatOf == r1 :> "chat" @@ r2 :> "chat" @@ r3 :> "other"

Setup(mode, agentflow, requests, workers, tokens, failures) ==
    [mode |-> mode, agentflow |-> agentflow, requests |-> requests,
     workers |-> workers, tokens |-> tokens, crashes |-> failures]

\* A server with all of them; a queue with the two of one chat and one
\* worker; a queue with one request of two tokens and two workers, of
\* which one crashes.
MCSetups ==
    {Setup("server", TRUE, {r1, r2, r3}, {}, 1, 0),
     Setup("queue", FALSE, {r1, r2}, {w1}, 1, 0),
     Setup("queue", TRUE, {r1}, {w1, w2}, 2, 1)}
        \cup {Setup("server", agentflow, {r1, r2}, {}, 2, 0) : agentflow \in BOOLEAN}
=============================================================================
