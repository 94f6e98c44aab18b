--------------------------- MODULE MCAgentExecutor ---------------------------
(* Small instances of AgentExecutor for TLC. *)
EXTENDS AgentExecutor, TLC

CONSTANTS c1, c2, c3, A, B, t1, edit, zero,
          wipe, isolate, whois    \* tools, and their names in the rules

MCTools == {wipe, isolate, whois}
MCNames == MCTools \cup {ExceptionTool}
MCLower == [n \in MCNames |-> n]

R(tool, action) == [tool |-> tool, action |-> action]
MCFile  == <<R(wipe, "block"), R(isolate, "escalate")>>
MCLaxer == <<R(isolate, "allow"), R(wipe, "escalate")>>

\* Two calls of run A in one step, and one of run B.
MCRunOf  == c1 :> A @@ c2 :> A @@ c3 :> B
MCStepOf == c1 :> 1 @@ c2 :> 1 @@ c3 :> 1

\* One run, two calls in the first step and one in the second.
MCRunOfOne  == [c \in {c1, c2, c3} |-> A]
MCStepOfOne == c1 :> 1 @@ c2 :> 1 @@ c3 :> 2

MCFiles     == {MCFile}
MCFilesEdit == {MCFile, MCLaxer}
=============================================================================
