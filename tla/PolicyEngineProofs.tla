-------------------------- MODULE PolicyEngineProofs --------------------------
(***************************************************************************)
(* What the policy engine guarantees for every policy file: how a verdict  *)
(* follows from the rules.                                                 *)
(***************************************************************************)
EXTENDS PolicyEngine, TLAPS, WellFoundedInduction

(* The first of some places in a list. *)
LEMMA LeastExists ==
    ASSUME NEW S, S \subseteq Nat, S # {}
    PROVE  \E i \in S : \A j \in S : i <= j
<1>1. PICK i \in S : \A j \in S : ~ (<<j, i>> \in OpToRel(<, Nat))
  BY NatLessThanWellFounded, WFMin, Zenon
<1>2. \A j \in S : ~ (j < i)
  <2>1. \A j \in S : <<j, i>> \in Nat \X Nat
    OBVIOUS
  <2>2. \A j \in S : j < i => <<j, i>> \in OpToRel(<, Nat)
    BY <2>1 DEF OpToRel
  <2> QED
    BY <1>1, <2>2
<1> QED
  BY <1>2

(* The first rule that names a tool decides about it, and rule 0 allows it *)
(* exactly when no rule does (policyEngine.ts 42-55).                      *)
THEOREM FirstMatchDecides ==
    ASSUME NEW rules \in Seq(Rules), NEW tool
    PROVE  /\ Verdict(rules, tool).rule \in Nat
           /\ Verdict(rules, tool).action \in Actions
           /\ Verdict(rules, tool).rule = 0 <=> Matches(rules, tool) = {}
           /\ Matches(rules, tool) = {} => Verdict(rules, tool).action = "allow"
           /\ \A i \in Matches(rules, tool) :
                /\ Verdict(rules, tool).rule \in Matches(rules, tool)
                /\ Verdict(rules, tool).rule <= i
                /\ Verdict(rules, tool).action = rules[Verdict(rules, tool).rule].action
<1> DEFINE S == Matches(rules, tool)
           v == Verdict(rules, tool)
<1>1. S \subseteq 1..Len(rules) /\ S \subseteq Nat /\ 0 \notin S
  BY DEF Matches
<1>2. CASE S = {}
  BY <1>2 DEF Verdict, Actions
<1>3. CASE S # {}
  <2> DEFINE i == CHOOSE k \in S : \A j \in S : k <= j
  <2>1. i \in S /\ \A j \in S : i <= j
    BY <1>1, <1>3, LeastExists
  <2>2. v = [action |-> rules[i].action, rule |-> i]
    BY <1>3 DEF Verdict
  <2>3. rules[i] \in Rules
    BY <1>1, <2>1
  <2> QED
    BY <1>1, <1>3, <2>1, <2>2, <2>3 DEF Rules
<1> QED
  BY <1>2, <1>3

(* The rules a verdict is taken from are a sequence of rules.              *)
LEMMA LoadedRulesType ==
    ASSUME PolicyTypeOK
    PROVE  LoadedRules \in Seq(Rules)
BY PolicyAssumption DEF LoadedRules, PolicyTypeOK

LEMMA VerdictType ==
    ASSUME PolicyTypeOK, NEW tool
    PROVE  Verdict(LoadedRules, tool).action \in Actions
BY LoadedRulesType, FirstMatchDecides
=============================================================================
