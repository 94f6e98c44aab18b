------------------------------ MODULE PolicyUse ------------------------------
(***************************************************************************)
(* The policy engine under its callers: verdicts are asked for at any      *)
(* time, while the file is edited and the cache cleared.                   *)
(***************************************************************************)
EXTENDS PolicyEngine

CONSTANTS
    Tools    \* the tools agents call

VARIABLE answered   \* tool -> the last verdict on it, and whether the file
                    \* could be read then; <<>> before the first

useVars == <<policyVars, answered>>

UseInit == PolicyInit /\ answered = [t \in Tools |-> <<>>]

Evaluate(t) ==
    /\ LoadRules
    /\ answered' = [answered EXCEPT ![t] =
                       <<Verdict(LoadedRules, t), policyFile # Unreadable>>]
    /\ UNCHANGED policyFile

(* The caller forgets its verdicts when it clears the cache. *)
Reload == /\ ClearCache
          /\ answered' = [t \in Tools |-> <<>>]

Edit == EditFile /\ UNCHANGED answered

UseNext == (\E t \in Tools : Evaluate(t)) \/ Reload \/ Edit

UseSpec == UseInit /\ [][UseNext]_useVars

Verdicts == [action : Actions, rule : Nat]

UseTypeOK ==
    /\ PolicyTypeOK
    /\ answered \in [Tools -> {<<>>} \cup (Verdicts \X BOOLEAN)]

(* A verdict that a rule gave stands until the cache is cleared, whatever  *)
(* happens to the file: two calls of one tool in one run of an agent are   *)
(* not judged by two versions of the rules (policyEngine.ts 23, 29).       *)
RuleStands ==
    [][\A t \in Tools :
         answered[t] # <<>> /\ answered'[t] # <<>> /\ answered[t][1].rule # 0
         => answered'[t][1] = answered[t][1]]_useVars

(* Allow-all is not sticky: a tool that every version of the file has a    *)
(* rule for is allowed by default only while the file cannot be read; the  *)
(* next verdict after the file is back follows a rule (policyEngine.ts     *)
(* 31-34: the failed read is not cached).                                  *)
RuledEverywhere == {t \in Tools : \A f \in Files : Matches(f, t) # {}}

AllowAllOnlyWhileUnreadable ==
    \A t \in RuledEverywhere :
        answered[t] # <<>> /\ answered[t][1].rule = 0 => ~ answered[t][2]
=============================================================================
