--------------------------- MODULE PolicyUseProofs ---------------------------
(***************************************************************************)
(* What the callers of the policy engine can rely on while the file is     *)
(* edited, broken and reloaded, for every set of tools and of files.       *)
(***************************************************************************)
EXTENDS PolicyUse, PolicyEngineProofs

(* A verdict that a rule gave is the verdict of the cached rules; and a    *)
(* tool with a rule in every file is under one, if the file was readable.  *)
Vouched(t) ==
    answered[t] # <<>> =>
        /\ answered[t][1].rule # 0 =>
              cachedRules # NoRules /\ answered[t][1] = Verdict(cachedRules, t)
        /\ t \in RuledEverywhere /\ answered[t][2] => answered[t][1].rule # 0

UseInv == UseTypeOK /\ \A t \in Tools : Vouched(t)

LEMMA InitUse == UseInit => UseInv
BY DEF UseInit, PolicyInit, UseInv, UseTypeOK, PolicyTypeOK, Vouched

(* A verdict is a verdict, and comes from the rules it leaves cached.      *)
LEMMA EvaluateTypes ==
    ASSUME UseInv, NEW t \in Tools, Evaluate(t)
    PROVE  UseTypeOK'
<1>1. Verdict(LoadedRules, t) \in Verdicts
  <2>1. LoadedRules \in Seq(Rules)
    BY LoadedRulesType DEF UseInv, UseTypeOK
  <2>2. /\ Verdict(LoadedRules, t).rule \in Nat
        /\ Verdict(LoadedRules, t).action \in Actions
    BY <2>1, FirstMatchDecides
  <2>3. Verdict(LoadedRules, t) = [action |-> Verdict(LoadedRules, t).action,
                                   rule   |-> Verdict(LoadedRules, t).rule]
    BY DEF Verdict
  <2> QED
    BY <2>2, <2>3 DEF Verdicts
<1>2. PolicyTypeOK'
  BY DEF UseInv, UseTypeOK, PolicyTypeOK, Evaluate, LoadRules
<1>3. <<Verdict(LoadedRules, t), policyFile # Unreadable>> \in Verdicts \X BOOLEAN
  BY <1>1
<1> QED
  BY <1>2, <1>3 DEF UseInv, UseTypeOK, Evaluate

LEMMA EvaluateVouches ==
    ASSUME UseInv, NEW t \in Tools, Evaluate(t), NEW s \in Tools
    PROVE  Vouched(s)'
<1> DEFINE v == Verdict(LoadedRules, t)
<1>1. LoadedRules \in Seq(Rules) /\ (LoadedRules # <<>> => cachedRules' = LoadedRules)
  BY LoadedRulesType DEF UseInv, UseTypeOK, Evaluate, LoadedRules, LoadRules
<1>2. cachedRules # NoRules => cachedRules' = cachedRules
  BY DEF Evaluate, LoadRules
<1>3. CASE s # t
  BY <1>2, <1>3 DEF UseInv, UseTypeOK, Vouched, Evaluate
<1>4. CASE s = t
  <2>1. answered'[s] = <<v, policyFile # Unreadable>>
    BY <1>4 DEF UseInv, UseTypeOK, Evaluate
  <2>2. v.rule # 0 => LoadedRules # <<>>
    BY <1>1, FirstMatchDecides DEF Matches
  <2>3. v.rule # 0 => cachedRules' # NoRules /\ v = Verdict(cachedRules', s)
    BY <1>1, <1>4, <2>2, PolicyAssumption
  <2>4. t \in RuledEverywhere /\ policyFile # Unreadable => v.rule # 0
    <3>1. policyFile # Unreadable => LoadedRules \in Files
      BY DEF UseInv, UseTypeOK, PolicyTypeOK, LoadedRules
    <3> QED
      BY <1>1, <3>1, FirstMatchDecides DEF RuledEverywhere
  <2>5. t \in RuledEverywhere' <=> t \in RuledEverywhere
    BY DEF RuledEverywhere, Matches
  <2>6. answered'[s][1] = v /\ answered'[s][2] = (policyFile # Unreadable)
    BY <2>1
  <2>7. v.rule # 0 => cachedRules' # NoRules /\ answered'[s][1] = Verdict(cachedRules', s)
    BY <2>3, <2>6
  <2>8. s \in RuledEverywhere' /\ answered'[s][2] => v.rule # 0
    BY <1>4, <2>4, <2>5, <2>6
  <2> HIDE DEF v
  <2> QED
    BY <2>6, <2>7, <2>8 DEF Vouched
<1> QED
  BY <1>3, <1>4

LEMMA NextUse == UseInv /\ [UseNext]_useVars => UseInv'
<1> SUFFICES ASSUME UseInv, [UseNext]_useVars PROVE UseInv'
  OBVIOUS
<1>1. ASSUME NEW t \in Tools, Evaluate(t) PROVE UseInv'
  BY <1>1, EvaluateTypes, EvaluateVouches DEF UseInv
<1>2. CASE Reload
  BY <1>2 DEF Reload, ClearCache, UseInv, UseTypeOK, PolicyTypeOK, Vouched
<1>3. CASE Edit
  BY <1>3 DEF Edit, EditFile, UseInv, UseTypeOK, PolicyTypeOK, Vouched, RuledEverywhere, Matches
<1>4. CASE UNCHANGED useVars
  BY <1>4 DEF useVars, policyVars, UseInv, UseTypeOK, PolicyTypeOK, Vouched, RuledEverywhere,
              Matches
<1> QED
  BY <1>1, <1>2, <1>3, <1>4 DEF UseNext

(* The inductive invariant of the engine under its callers.                *)
THEOREM UseSafe == UseSpec => []UseInv
<1> QED
  BY InitUse, NextUse, PTL DEF UseSpec

(* Every variable keeps its type.                                          *)
THEOREM UseTypeCorrect == UseSpec => []UseTypeOK
<1>1. UseInv => UseTypeOK
  BY DEF UseInv
<1> QED
  BY <1>1, UseSafe, PTL

(* Allow-all ends with the first verdict after the file is readable again, *)
(* however often it breaks (policyEngine.ts 31-34).                        *)
THEOREM AllowAllIsNotSticky == UseSpec => []AllowAllOnlyWhileUnreadable
<1>1. UseInv => AllowAllOnlyWhileUnreadable
  <2> SUFFICES ASSUME UseInv, NEW t \in RuledEverywhere, answered[t] # <<>>,
                      answered[t][1].rule = 0
               PROVE  ~ answered[t][2]
    BY DEF AllowAllOnlyWhileUnreadable
  <2> QED
    BY DEF UseInv, Vouched, RuledEverywhere
<1> QED
  BY <1>1, UseSafe, PTL

(* A verdict that a rule gave stands until the cache is cleared, whatever  *)
(* becomes of the file (policyEngine.ts 23, 29).                           *)
THEOREM RulesStand == UseSpec => RuleStands
<1> DEFINE Stands == \A t \in Tools :
              answered[t] # <<>> /\ answered'[t] # <<>> /\ answered[t][1].rule # 0
              => answered'[t][1] = answered[t][1]
<1>1. UseInv /\ [UseNext]_useVars => [Stands]_useVars
  <2> SUFFICES ASSUME UseInv, UseNext, NEW t \in Tools,
                      answered[t] # <<>>, answered'[t] # <<>>, answered[t][1].rule # 0
               PROVE  answered'[t][1] = answered[t][1]
    OBVIOUS
  <2>1. cachedRules # NoRules /\ answered[t][1] = Verdict(cachedRules, t)
    BY DEF UseInv, Vouched
  <2>2. ASSUME NEW s \in Tools, Evaluate(s) PROVE answered'[t][1] = answered[t][1]
    <3>1. LoadedRules = cachedRules
      BY <2>1 DEF LoadedRules
    <3> QED
      BY <2>1, <2>2, <3>1 DEF Evaluate, UseInv, UseTypeOK
  <2>3. CASE Reload
    BY <2>3 DEF Reload
  <2>4. CASE Edit
    BY <2>4 DEF Edit
  <2> QED
    BY <2>2, <2>3, <2>4 DEF UseNext
<1> QED
  BY <1>1, UseSafe, PTL DEF UseSpec, RuleStands
=============================================================================
