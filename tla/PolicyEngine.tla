----------------------------- MODULE PolicyEngine -----------------------------
(***************************************************************************)
(* packages/components/src/policyEngine.ts: the rules of policy.yaml, read *)
(* when they are first needed and then cached, and the verdict on a tool.  *)
(***************************************************************************)
EXTENDS Naturals, Sequences

CONSTANTS
    ToolNames,   \* the names of tools, as tools and rules spell them
    Lower,       \* name -> its lower-case form
    Files,       \* the contents policy.yaml may have: sequences of rules
    Unreadable,  \* no file, no YAML, or a file without a document
    NoRules      \* null: nothing is cached

Actions == {"allow", "block", "escalate"}
Rules   == [tool : ToolNames, action : Actions]

ASSUME PolicyAssumption ==
    /\ Files \subseteq Seq(Rules)
    /\ Unreadable \notin Seq(Rules)
    /\ NoRules \notin Seq(Rules)

VARIABLES
    policyFile,   \* what policy.yaml holds now
    cachedRules   \* the module's cache

policyVars == <<policyFile, cachedRules>>

PolicyInit == /\ policyFile \in Files \cup {Unreadable}
              /\ cachedRules = NoRules

PolicyTypeOK == /\ policyFile \in Files \cup {Unreadable}
                /\ cachedRules \in Files \cup {NoRules}

-----------------------------------------------------------------------------
(* Reading in the background: the first verdicts find no rules yet. *)
BugLoadedLate == IF cachedRules # NoRules THEN cachedRules ELSE <<>>

(* What loadRules() returns: the cache, else the file, else no rules.      *)
LoadedRules ==
    IF cachedRules # NoRules THEN cachedRules
    ELSE IF policyFile # Unreadable THEN policyFile ELSE <<>>

(* Caching the empty list after a failed read. *)
BugCacheFailure ==
    cachedRules' = IF cachedRules # NoRules THEN cachedRules
                   ELSE IF policyFile # Unreadable THEN policyFile ELSE <<>>

(* Reading the file for every verdict. *)
BugNoCache ==
    cachedRules' = IF policyFile # Unreadable THEN policyFile ELSE cachedRules

(* What loadRules() leaves in the cache: a failed read is not cached.      *)
LoadRules ==
    cachedRules' = IF cachedRules = NoRules /\ policyFile # Unreadable
                   THEN policyFile ELSE cachedRules

(* The rules that name the tool, by their place in the file. *)
Matches(rules, tool) == {i \in 1..Len(rules) : Lower[rules[i].tool] = Lower[tool]}

(* evaluate(): the first match decides; without one the tool is allowed,   *)
(* by rule 0.                                                              *)
Verdict(rules, tool) ==
    IF Matches(rules, tool) = {}
    THEN [action |-> "allow", rule |-> 0]
    ELSE LET i == CHOOSE i \in Matches(rules, tool) :
                     \A j \in Matches(rules, tool) : i <= j
         IN  [action |-> rules[i].action, rule |-> i]

(* clearCache(). *)
ClearCache == /\ cachedRules' = NoRules
              /\ UNCHANGED policyFile

(* Somebody edits, removes or breaks the file while the program runs.      *)
EditFile == /\ policyFile' \in Files \cup {Unreadable}
            /\ UNCHANGED cachedRules
=============================================================================
