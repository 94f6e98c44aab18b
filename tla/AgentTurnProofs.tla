--------------------------- MODULE AgentTurnProofs ---------------------------
(***************************************************************************)
(* What holds of the turns of a session for any number of requests and of  *)
(* plans, with either memory, overlapping turns included: refused          *)
(* questions stay out of the model, answers, memory and log agree, what a  *)
(* plan recalls only grows until Redis drops it all, and turns that do not *)
(* overlap leave a conversation.                                           *)
(***************************************************************************)
EXTENDS AgentTurn, FiniteSetTheorems, FunctionTheorems, TLAPS

Started == {t \in Turns : turn[t].pc # "idle"}

(* No two rows have one date, nor have two requests; a question bears the  *)
(* date of its request, an answer a later one that no request bears.       *)
Dates ==
    /\ \A t \in Turns : turn[t].at <= clock /\ (turn[t].at = 0 <=> turn[t].pc = "idle")
    /\ \A s, t \in Started : turn[s].at = turn[t].at => s = t
    /\ \A row \in rows : row.at <= clock
    /\ \A a, b \in rows : a.at = b.at => a = b
    /\ \A row \in rows :
          IF row.message.role = "userMessage"
          THEN row.at = turn[row.message.turn].at
          ELSE /\ row.at > turn[row.message.turn].at
               /\ \A t \in Started : row.at # turn[t].at

(* How far a turn is, by its place. *)
Stage(t) ==
    /\ turn[t].pc \in {"idle", "moderation", "inputCheck"} => sent[t] = <<>>
    /\ turn[t].pc \in {"idle", "moderation", "inputCheck", "planning", "outputCheck"}
          => turn[t].result = "none"
    /\ turn[t].pc \in {"storing", "expiring", "storing2", "expiring2"}
          => turn[t].result \in {"answer", "warned"}
    /\ turn[t].pc \in {"question", "answer", "done"} => turn[t].result # "none"
    /\ turn[t].pc \in {"expiring", "storing2", "expiring2"} => setup.memory = "external"
    /\ turn[t].pc \in {"expiring", "expiring2"} => setup.expires
    /\ Refused(t) => sent[t] = <<>>

(* The chat messages of a turn. *)
Saved(t) ==
    /\ \A row \in rows : row.message.turn = t =>
          \/ turn[t].pc \in {"answer", "done", "failed"} /\ row.message = Question(t)
          \/ turn[t].pc = "done" /\ row.message = Answer(t, turn[t].result)
    /\ turn[t].pc \in {"answer", "done"} => Dated(Question(t), turn[t].at) \in rows
    /\ turn[t].pc = "done" => \E row \in rows : row.message = Answer(t, turn[t].result)

(* An external memory has been given this message by the turn; it is given *)
(* it once.                                                                *)
Kept(t, m) ==
    /\ setup.memory = "external"
    /\ turn[t].result \in {"answer", "warned"}
    /\ \/ /\ m = Question(t)
          /\ turn[t].pc \in {"expiring", "storing2", "expiring2", "question", "answer", "done",
                            "failed"}
       \/ /\ m = Answer(t, turn[t].result)
          /\ turn[t].pc \in {"expiring2", "question", "answer", "done", "failed"}

(* The messages of a turn in an external memory. *)
Listed(t) ==
    /\ \A i \in 1..Len(list) : list[i].turn = t => Kept(t, list[i])
    /\ /\ setup.memory = "external" /\ ~ setup.expires
       /\ turn[t].pc \in {"storing2", "question", "answer", "done"}
       /\ ~ Refused(t)
       => \E i \in 1..Len(list) : list[i] = Question(t)

Warning(t) == [type |-> "agent_output_validation", turn |-> t, valid |-> FALSE]

Logged(t) ==
    /\ Contains(log, Warning(t)) => turn[t].result = "warned"
    /\ turn[t].result = "warned" => setup.logFails \/ Contains(log, Warning(t))

TurnInv(t) == Stage(t) /\ Saved(t) /\ Listed(t) /\ Logged(t)

(* All that a plan may recall. *)
Memory ==
    IF setup.memory = "database"
    THEN {row.message : row \in rows} ELSE {list[i] : i \in 1..Len(list)}

Elements(s) == {s[i] : i \in 1..Len(s)}

(* What was sent is still remembered, or Redis dropped it; what is dropped *)
(* does not come back.                                                     *)
SentIsRemembered ==
    \A t \in Turns : \A i \in 1..Len(sent[t]) :
        /\ \/ Elements(sent[t][i]) \subseteq Memory
           \/ Forgetful /\ Elements(sent[t][i]) \cap Memory = {}
        /\ setup.memory = "external" =>
              \A m \in Elements(sent[t][i]) : m.turn \in Turns /\ Kept(m.turn, m)

RecordInv ==
    /\ TurnTypeOK
    /\ IsFiniteSet(rows)
    /\ Dates
    /\ volatile => Forgetful
    /\ \A t \in Turns : TurnInv(t)
    /\ SentIsRemembered

(* When turns do not overlap, one is live at most ... *)
Single == \A s, t \in Turns : turn[s].pc \in Live /\ turn[t].pc \in Live => s = t

(* ... and the latest; *)
Latest(t) ==
    turn[t].pc \in Live =>
        /\ \A s \in Turns : turn[s].at <= turn[t].at
        /\ \A row \in rows : row.at <= turn[t].at

(* its plans have recalled all there is, and its question was just stored, *)
(* unless Redis dropped all there was;                                     *)
Recalled(t) ==
    turn[t].pc = "planning" /\ sent[t] # <<>> =>
        sent[t][Len(sent[t])] = Recall \/ (Forgetful /\ Recall = <<>>)

Asked(t) ==
    turn[t].pc \in {"expiring", "storing2"} =>
        \/ list # <<>> /\ list[Len(list)] = Question(t)
        \/ list = <<>> /\ Forgetful

(* nothing is dated between a question and its answer, nor stored between  *)
(* them, and what is stored is in the order of the requests.               *)
RowsPaired ==
    \A b, c \in rows : b.message.role = "apiMessage" =>
        c.at <= turn[b.message.turn].at \/ c.at >= b.at

ListPaired ==
    \A i \in 1..Len(list) :
        /\ list[i].role = "apiMessage" =>
              \/ i > 1 /\ list[i - 1] = Question(list[i].turn)
              \/ i = 1 /\ Forgetful
        /\ \A j \in 1..(i - 1) : turn[list[j].turn].at <= turn[list[i].turn].at

AloneInv ==
    setup.overlap = 0 =>
        /\ Single
        /\ \A t \in Turns : Latest(t) /\ Recalled(t) /\ Asked(t)
        /\ RowsPaired
        /\ ListPaired

SessionInv ==
    /\ RecordInv
    /\ IsFiniteSet(Started)
    /\ AloneInv
    /\ RecallGrows

-----------------------------------------------------------------------------
(* The chat messages in the order of their dates.                          *)

Below(row) == {r \in rows : r.at <= row.at}

LEMMA Ranks ==
    ASSUME TurnTypeOK, IsFiniteSet(rows), \A a, b \in rows : a.at = b.at => a = b
    PROVE  /\ Cardinality(rows) \in Nat
           /\ \A a \in rows : Cardinality(Below(a)) \in 1..Cardinality(rows)
           /\ \A a, b \in rows : a.at < b.at => Cardinality(Below(a)) < Cardinality(Below(b))
           /\ \A i \in 1..Cardinality(rows) : \E a \in rows : Cardinality(Below(a)) = i
<1> DEFINE n    == Cardinality(rows)
           rank == [a \in rows |-> Cardinality(Below(a))]
<1>1. n \in Nat
  BY FS_CardinalityType
<1>2. \A a \in rows : a.at \in Nat
  BY DEF TurnTypeOK
<1>3. ASSUME NEW a \in rows
      PROVE  /\ IsFiniteSet(Below(a)) /\ Cardinality(Below(a)) \in Nat
             /\ Cardinality(Below(a)) <= n /\ Cardinality(Below(a)) # 0
  <2>1. Below(a) \in SUBSET rows /\ a \in Below(a)
    BY <1>2 DEF Below
  <2>2. IsFiniteSet(Below(a)) /\ Cardinality(Below(a)) <= n
    BY <2>1, FS_Subset
  <2> QED BY <2>1, <2>2, FS_CardinalityType, FS_EmptySet
<1>4. ASSUME NEW a \in rows, NEW b \in rows, a.at < b.at
      PROVE  Cardinality(Below(a)) < Cardinality(Below(b))
  <2>1. Below(a) \in SUBSET Below(b) /\ Below(a) # Below(b)
    <3>1. b \in Below(b) /\ b \notin Below(a)
      BY <1>2, <1>4 DEF Below
    <3>2. Below(a) \subseteq Below(b)
      BY <1>2, <1>4 DEF Below
    <3> QED BY <3>1, <3>2
  <2>2. Cardinality(Below(a)) <= Cardinality(Below(b))
        /\ Cardinality(Below(a)) # Cardinality(Below(b))
    BY <2>1, <1>3, FS_Subset
  <2> QED BY <2>2, <1>3
<1>5. rank \in Injection(rows, 1..n)
  <2>1. rank \in [rows -> 1..n]
    BY <1>1, <1>3
  <2>2. ASSUME NEW a \in rows, NEW b \in rows, rank[a] = rank[b]
        PROVE  a = b
    <3>1. ~ (a.at < b.at) /\ ~ (b.at < a.at)
      BY <2>2, <1>3, <1>4
    <3> QED BY <3>1, <1>2
  <2> QED BY <2>1, <2>2 DEF Injection, IsInjective
<1>6. rank \in Surjection(rows, 1..n)
  <2>1. IsFiniteSet(1..n) /\ Cardinality(1..n) = n
    BY <1>1, FS_Interval
  <2> QED BY <2>1, <1>5, FS_Injection
<1>7. \A i \in 1..n : \E a \in rows : Cardinality(Below(a)) = i
  BY <1>6 DEF Surjection
<1> QED BY <1>1, <1>3, <1>4, <1>7

(* Nth() counts the rows by date. *)
LEMMA Sorted ==
    ASSUME TurnTypeOK, IsFiniteSet(rows), \A a, b \in rows : a.at = b.at => a = b
    PROVE  /\ Cardinality(rows) \in Nat
           /\ \A i \in 1..Cardinality(rows) : Nth(i) \in rows
           /\ \A i, j \in 1..Cardinality(rows) : i < j => Nth(i).at < Nth(j).at
           /\ \A a \in rows : \E i \in 1..Cardinality(rows) : Nth(i) = a
<1>1. ASSUME NEW i \in 1..Cardinality(rows)
      PROVE  Nth(i) \in rows /\ Cardinality(Below(Nth(i))) = i
  BY Ranks DEF Nth, Below
<1>2. \A a \in rows : a.at \in Nat
  BY DEF TurnTypeOK
<1>3. ASSUME NEW i \in 1..Cardinality(rows), NEW j \in 1..Cardinality(rows), i < j
      PROVE  Nth(i).at < Nth(j).at
  <2>1. ~ (Nth(j).at < Nth(i).at)
    BY <1>1, <1>3, Ranks
  <2>2. Nth(i) # Nth(j)
    BY <1>1, <1>3
  <2> QED BY <2>1, <2>2, <1>1, <1>2
<1>4. ASSUME NEW a \in rows
      PROVE  \E i \in 1..Cardinality(rows) : Nth(i) = a
  <2> DEFINE i == Cardinality(Below(a))
  <2>1. i \in 1..Cardinality(rows)
    BY Ranks
  <2>2. Nth(i) \in rows /\ Cardinality(Below(Nth(i))) = Cardinality(Below(a))
    BY <2>1, <1>1
  <2>3. ~ (Nth(i).at < a.at) /\ ~ (a.at < Nth(i).at)
    BY <2>2, Ranks
  <2> QED BY <2>1, <2>2, <2>3, <1>2
<1> QED BY <1>1, <1>3, <1>4, Ranks

LEMMA RecallIsMemory ==
    ASSUME TurnTypeOK, IsFiniteSet(rows), \A a, b \in rows : a.at = b.at => a = b
    PROVE  Recall \in Seq(Messages) /\ Elements(Recall) = Memory
<1>1. CASE setup.memory = "database"
  <2>1. \A i \in 1..Cardinality(rows) : Nth(i).message \in Messages
    BY Sorted DEF TurnTypeOK
  <2>2. Recall \in Seq(Messages) /\ Len(Recall) = Cardinality(rows)
    BY <1>1, <2>1, Sorted DEF Recall
  <2>3. Elements(Recall) = {Nth(i).message : i \in 1..Cardinality(rows)}
    BY <1>1, <2>2 DEF Elements, Recall
  <2> QED BY <1>1, <2>2, <2>3, Sorted DEF Memory
<1>2. CASE setup.memory # "database"
  BY <1>2 DEF Recall, Elements, Memory, TurnTypeOK
<1> QED BY <1>1, <1>2

-----------------------------------------------------------------------------
(* Types. *)

LEMMA InitRecord ==
    ASSUME TurnInit
    PROVE  RecordInv
<1> USE DEF TurnInit
<1>1. TurnTypeOK
  <2>1. turn \in [Turns -> [pc : Live \cup {"idle", "done", "failed"}, at : Nat, result : Results]]
    BY DEF Results
  <2>2. list \in Seq(Messages) /\ log \in Seq(Entries) /\ sent \in [Turns -> Seq(Seq(Messages))]
    OBVIOUS
  <2>3. setup \in Setups /\ clock \in Nat /\ rows \subseteq [message : Messages, at : Nat]
    OBVIOUS
  <2>4. volatile \in BOOLEAN
    OBVIOUS
  <2> QED BY <2>1, <2>2, <2>3, <2>4, Zenon DEF TurnTypeOK
<1>2. IsFiniteSet(rows)
  BY FS_EmptySet
<1>3. Dates
  BY DEF Dates, Started
<1>4. ASSUME NEW t \in Turns
      PROVE  TurnInv(t)
  BY DEF TurnInv, Stage, Saved, Listed, Kept, Logged, Refused, Contains
<1>5. SentIsRemembered
  BY DEF SentIsRemembered
<1> QED BY <1>1, <1>2, <1>3, <1>4, <1>5 DEF RecordInv

LEMMA MessageParts ==
    /\ \A m \in Messages :
          /\ m.turn \in Turns
          /\ \/ m = Question(m.turn) /\ m.role = "userMessage"
             \/ \E result \in Results : m = Answer(m.turn, result) /\ m.role = "apiMessage"
    /\ \A t \in Turns : Question(t) \in Messages /\ Question(t).turn = t
                        /\ Question(t).role = "userMessage"
    /\ \A t \in Turns, result \in Results :
          Answer(t, result) \in Messages /\ Answer(t, result).turn = t
          /\ Answer(t, result).role = "apiMessage" /\ Answer(t, result).text = result
<1>1. ASSUME NEW m \in Messages
      PROVE  /\ m.turn \in Turns
             /\ \/ m = Question(m.turn) /\ m.role = "userMessage"
                \/ \E result \in Results : m = Answer(m.turn, result) /\ m.role = "apiMessage"
  <2>1. CASE \E t \in Turns : m = Question(t)
    BY <2>1 DEF Question
  <2>2. CASE \E t \in Turns, result \in Results : m = Answer(t, result)
    BY <2>2 DEF Answer
  <2> QED BY <2>1, <2>2 DEF Messages
<1>2. \A t \in Turns : /\ Question(t) \in Messages /\ Question(t).turn = t
                       /\ Question(t).role = "userMessage"
  BY DEF Messages, Question
<1>3. \A t \in Turns, result \in Results :
         /\ Answer(t, result) \in Messages /\ Answer(t, result).turn = t
         /\ Answer(t, result).role = "apiMessage" /\ Answer(t, result).text = result
  BY DEF Messages, Answer
<1> QED BY <1>1, <1>2, <1>3

LEMMA JudgedAdds ==
    \A t, type, valid :
        Judged(t, type, valid) =>
            \/ log' = Append(log, [type |-> type, turn |-> t, valid |-> valid])
            \/ setup.logFails /\ log' = log
BY DEF Judged

LEMMA PushedGoes ==
    \A t, expiry, next :
        Pushed(t, expiry, next) => (setup.expires /\ Goto(t, expiry)) \/ Goto(t, next)
BY DEF Pushed

(* What a step does to the locals of turns. *)
LEMMA Moves ==
    ASSUME TurnTypeOK, NEW t \in Turns
    PROVE  /\ \A place : Goto(t, place) =>
                 /\ turn'[t].pc = place /\ turn'[t].at = turn[t].at
                 /\ turn'[t].result = turn[t].result
                 /\ \A s \in Turns : s # t => turn'[s] = turn[s]
           /\ Refuse(t) =>
                 /\ turn'[t].pc = "question" /\ turn'[t].at = turn[t].at
                 /\ turn'[t].result = "refused"
                 /\ \A s \in Turns : s # t => turn'[s] = turn[s]
           /\ CheckOutput(t) =>
                 /\ turn'[t].pc = "storing" /\ turn'[t].at = turn[t].at
                 /\ turn'[t].result \in {"answer", "warned"}
                 /\ \A s \in Turns : s # t => turn'[s] = turn[s]
           /\ Begin(t) =>
                 /\ turn'[t].pc = "moderation" /\ turn'[t].at = clock + 1
                 /\ turn'[t].result = turn[t].result
                 /\ \A s \in Turns : s # t => turn'[s] = turn[s]
BY DEF TurnTypeOK, Goto, Refuse, CheckOutput, Begin

LEMMA Types ==
    ASSUME RecordInv, [TurnNext]_turnVars
    PROVE  TurnTypeOK'
<1> DEFINE Locals == [pc : Live \cup {"idle", "done", "failed"}, at : Nat, result : Results]
<1>. TurnTypeOK
  BY DEF RecordInv
<1>1. /\ setup \in Setups /\ clock \in Nat /\ rows \subseteq [message : Messages, at : Nat]
      /\ list \in Seq(Messages) /\ log \in Seq(Entries) /\ turn \in [Turns -> Locals]
      /\ sent \in [Turns -> Seq(Seq(Messages))] /\ volatile \in BOOLEAN
  BY DEF TurnTypeOK
<1>2. \A t \in Turns : \A place \in Live \cup {"done", "failed"} :
          Goto(t, place) => turn' \in [Turns -> Locals]
  BY <1>1 DEF Goto
<1>3. ASSUME NEW t \in Turns, Refuse(t)
      PROVE  turn' \in [Turns -> Locals]
  <2>1. turn' = [turn EXCEPT ![t] = [turn[t] EXCEPT !.pc = "question", !.result = "refused"]]
    BY <1>3 DEF Refuse
  <2>2. turn[t] \in Locals
    BY <1>1
  <2>3. [turn[t] EXCEPT !.pc = "question", !.result = "refused"] \in Locals
    BY <2>2 DEF Live, Results
  <2> HIDE DEF Locals
  <2> QED BY <1>1, <2>1, <2>3
<1>4. \A t \in Turns, valid \in BOOLEAN :
         \A type \in {"agent_input_validation", "agent_output_validation"} :
            Judged(t, type, valid) => log' \in Seq(Entries)
  <2> SUFFICES ASSUME NEW t \in Turns, NEW valid \in BOOLEAN,
                      NEW type \in {"agent_input_validation", "agent_output_validation"},
                      Judged(t, type, valid)
               PROVE  log' \in Seq(Entries)
    OBVIOUS
  <2> DEFINE e == [type |-> type, turn |-> t, valid |-> valid]
  <2>1. e \in Entries
    BY DEF Entries
  <2>2. log' = Append(log, e) \/ log' = log
    BY JudgedAdds
  <2>3. log \in Seq(Entries)
    BY <1>1
  <2> HIDE DEF e, Locals
  <2>4. Append(log, e) \in Seq(Entries)
    BY <2>1, <2>3
  <2> QED BY <2>2, <2>3, <2>4
<1>5. \A t \in Turns : /\ Question(t) \in Messages /\ Answer(t, turn[t].result) \in Messages
                       /\ turn[t].at \in Nat
  BY <1>1 DEF Messages
<1>6. \A t \in Turns : \A at \in Nat : Dated(Question(t), at) \in [message : Messages, at : Nat]
                       /\ Dated(Answer(t, turn[t].result), at) \in [message : Messages, at : Nat]
  BY <1>5 DEF Dated
<1>7. ASSUME NEW t \in Turns, Begin(t)
      PROVE  turn' \in [Turns -> Locals] /\ clock' \in Nat
  <2>1. turn' = [turn EXCEPT ![t] = [turn[t] EXCEPT !.pc = "moderation", !.at = clock + 1]]
    BY <1>7 DEF Begin
  <2>2. turn[t] \in Locals /\ clock + 1 \in Nat
    BY <1>1
  <2>3. [turn[t] EXCEPT !.pc = "moderation", !.at = clock + 1] \in Locals
    BY <2>2 DEF Live
  <2> HIDE DEF Locals
  <2> QED BY <1>1, <1>7, <2>1, <2>3 DEF Begin
<1>8. ASSUME NEW t \in Turns, CheckOutput(t)
      PROVE  turn' \in [Turns -> Locals] /\ log' \in Seq(Entries)
  <2>1. PICK valid \in BOOLEAN :
          /\ IF "output" \in setup.judged
             THEN Judged(t, "agent_output_validation", valid) ELSE valid /\ UNCHANGED log
          /\ turn' = [turn EXCEPT ![t] = [turn[t] EXCEPT !.pc = "storing",
                                      !.result = IF valid THEN "answer" ELSE "warned"]]
    BY <1>8 DEF CheckOutput
  <2>2. turn[t] \in Locals
    BY <1>1
  <2>3. [turn[t] EXCEPT !.pc = "storing",
                        !.result = IF valid THEN "answer" ELSE "warned"] \in Locals
    BY <2>2 DEF Live, Results
  <2> HIDE DEF Locals
  <2> QED BY <1>1, <1>4, <2>1, <2>3
<1>9. ASSUME NEW t \in Turns, Plan(t)
      PROVE  sent' \in [Turns -> Seq(Seq(Messages))]
  <2>1. Recall \in Seq(Messages)
    BY RecallIsMemory DEF RecordInv, Dates
  <2>2. sent' = [sent EXCEPT ![t] = Append(sent[t], Recall)]
    BY <1>9 DEF Plan
  <2> QED BY <1>1, <2>1, <2>2
<1> HIDE DEF Locals
<1>10. turn' \in [Turns -> Locals]
  BY <1>1, <1>2, <1>3, <1>7, <1>8, PushedGoes
  DEF TurnNext, turnVars, Moderate, CheckInput, Plan, Store, StoreAnswer, Expire, Lapse,
      SaveQuestion, SaveAnswer, Fails, Live
<1>11. log' \in Seq(Entries)
  BY <1>1, <1>4, <1>8
  DEF TurnNext, turnVars, Begin, Moderate, CheckInput, Plan, Store, StoreAnswer, Expire, Lapse,
      SaveQuestion, SaveAnswer, Fails
<1>12. sent' \in [Turns -> Seq(Seq(Messages))]
  BY <1>1, <1>9
  DEF TurnNext, turnVars, Begin, Moderate, CheckInput, CheckOutput, Store, StoreAnswer, Expire,
      Lapse,
      SaveQuestion, SaveAnswer, Fails
<1>13. list' \in Seq(Messages)
  <2>1. \/ list' = list \/ list' = <<>>
        \/ \E t \in Turns : \/ list' = Append(list, Question(t))
                            \/ list' = Append(list, Answer(t, turn[t].result))
    BY DEF TurnNext, turnVars, Begin, Moderate, CheckInput, Plan, CheckOutput, Store,
           StoreAnswer, Expire, Lapse, StoredAnswer, SaveQuestion, SaveAnswer, Fails
  <2>2. \A m \in Messages : Append(list, m) \in Seq(Messages)
    BY <1>1
  <2>3. <<>> \in Seq(Messages)
    OBVIOUS
  <2> QED BY <2>1, <2>2, <2>3, <1>1, <1>5
<1>14. rows' \subseteq [message : Messages, at : Nat]
  <2>1. \/ rows' = rows
        \/ \E t \in Turns : \/ rows' = rows \cup {Dated(Question(t), turn[t].at)}
                            \/ rows' = rows \cup {Dated(Answer(t, turn[t].result), clock + 1)}
    BY DEF TurnNext, turnVars, Begin, Moderate, CheckInput, Plan, CheckOutput, Store,
           StoreAnswer, Expire, Lapse, SaveQuestion, SaveAnswer, Fails
  <2>2. clock + 1 \in Nat
    BY <1>1
  <2>3. \A t \in Turns : turn[t].at \in Nat
    BY <1>5
  <2> DEFINE Rows == [message : Messages, at : Nat]
  <2>4. \A t \in Turns : /\ Dated(Question(t), turn[t].at) \in Rows
                         /\ Dated(Answer(t, turn[t].result), clock + 1) \in Rows
    BY <2>2, <2>3, <1>6
  <2>5. rows \subseteq Rows
    BY <1>1
  <2> HIDE DEF Rows
  <2>6. rows' \subseteq Rows
    BY <2>1, <2>4, <2>5
  <2> QED BY <2>6 DEF Rows
<1>15. clock' \in Nat /\ setup' = setup
  <2>1. setup' = setup /\ (clock' = clock \/ clock' = clock + 1)
    BY DEF TurnNext, turnVars, Begin, Moderate, CheckInput, Plan, CheckOutput, Store,
           StoreAnswer, Expire, Lapse, SaveQuestion, SaveAnswer, Fails
  <2> QED BY <2>1, <1>1
<1>16. volatile' \in BOOLEAN
  <2>1. volatile' = volatile \/ volatile' = FALSE \/ volatile' = (list # <<>>)
    BY DEF TurnNext, turnVars, Begin, Moderate, CheckInput, Plan, CheckOutput, Store,
           StoreAnswer, Expire, Lapse, SaveQuestion, SaveAnswer, Fails
  <2> QED BY <2>1, <1>1
<1> QED BY <1>1, <1>10, <1>11, <1>12, <1>13, <1>14, <1>15, <1>16 DEF TurnTypeOK, Locals

-----------------------------------------------------------------------------
(* Dates. *)

LEMMA FiniteRows ==
    ASSUME IsFiniteSet(rows), [TurnNext]_turnVars
    PROVE  IsFiniteSet(rows)'
<1>1. \/ rows' = rows
      \/ \E t \in Turns : \/ rows' = rows \cup {Dated(Question(t), turn[t].at)}
                          \/ rows' = rows \cup {Dated(Answer(t, turn[t].result), clock + 1)}
  BY DEF TurnNext, turnVars, Begin, Moderate, CheckInput, Plan, CheckOutput, Store,
         StoreAnswer, Expire, Lapse, SaveQuestion, SaveAnswer, Fails
<1> QED BY <1>1, FS_AddElement

(* Dates depend on no more than these. *)
LEMMA SameDates ==
    ASSUME TurnTypeOK, Dates, UNCHANGED <<clock, rows>>,
           \A t \in Turns : /\ turn'[t].at = turn[t].at
                            /\ turn'[t].pc = "idle" <=> turn[t].pc = "idle"
    PROVE  Dates'
<1>1. Started' = Started
  BY DEF Started
<1>2. \A row \in rows : row.message.turn \in Turns
  BY MessageParts DEF TurnTypeOK
<1>3. \A t \in Started : t \in Turns
  BY DEF Started
<1> QED BY <1>1, <1>2, <1>3 DEF Dates

(* A row with a date of its own. *)
LEMMA NewDate ==
    ASSUME TurnTypeOK, Dates, NEW new, rows' = rows \cup {new},
           new.message \in Messages, new.at \in Nat, new.at <= clock',
           clock' \in Nat, clock <= clock', \A row \in rows : row.at # new.at,
           \A t \in Turns : /\ turn'[t].at = turn[t].at
                            /\ turn'[t].pc = "idle" <=> turn[t].pc = "idle",
           IF new.message.role = "userMessage"
           THEN new.at = turn[new.message.turn].at
           ELSE /\ new.at > turn[new.message.turn].at
                /\ \A t \in Started : new.at # turn[t].at
    PROVE  Dates'
<1>1. Started' = Started
  BY DEF Started
<1>2. \A row \in rows' : row.message.turn \in Turns
  BY MessageParts DEF TurnTypeOK
<1>3. \A t \in Started : t \in Turns
  BY DEF Started
<1>4. \A row \in rows : row.at \in Nat
  BY DEF TurnTypeOK
<1>5. \A t \in Turns : turn[t].at \in Nat
  BY DEF TurnTypeOK
<1>6. clock \in Nat
  BY DEF TurnTypeOK
<1>7. \A t \in Turns : turn'[t].at <= clock' /\ (turn'[t].at = 0 <=> turn'[t].pc = "idle")
  BY <1>5, <1>6 DEF Dates
<1>8. \A row \in rows' : row.at <= clock'
  BY <1>4, <1>6 DEF Dates
<1>9. \A a, b \in rows' : a.at = b.at => a = b
  BY DEF Dates
<1>10. \A row \in rows' :
          IF row.message.role = "userMessage"
          THEN row.at = turn'[row.message.turn].at
          ELSE /\ row.at > turn'[row.message.turn].at
               /\ \A t \in Started : row.at # turn'[t].at
  BY <1>2, <1>3 DEF Dates
<1> QED BY <1>1, <1>3, <1>7, <1>8, <1>9, <1>10 DEF Dates

LEMMA DatesKept ==
    ASSUME RecordInv, [TurnNext]_turnVars
    PROVE  Dates'
<1>. TurnTypeOK /\ Dates /\ \A t \in Turns : Saved(t)
  BY DEF RecordInv, TurnInv
<1>1. ASSUME NEW t \in Turns, Begin(t)
      PROVE  Dates'
  BY <1>1, MessageParts DEF Begin, Dates, Started, TurnTypeOK, Live, Saved
<1>2. ASSUME NEW t \in Turns, Moderate(t) \/ CheckInput(t)
      PROVE  Dates'
  BY <1>2, SameDates, Moves DEF Moderate, CheckInput
<1>3. ASSUME NEW t \in Turns, Plan(t) \/ CheckOutput(t)
      PROVE  Dates'
  <2>1. UNCHANGED <<clock, rows>>
    BY <1>3 DEF Plan, CheckOutput
  <2>2. \A s \in Turns : /\ turn'[s].at = turn[s].at
                         /\ turn'[s].pc = "idle" <=> turn[s].pc = "idle"
    <3>1. CheckOutput(t) \/ Goto(t, "outputCheck") \/ turn' = turn
      BY <1>3 DEF Plan
    <3>2. turn[t].pc \in {"planning", "outputCheck"}
      BY <1>3 DEF Plan, CheckOutput
    <3> QED BY <3>1, <3>2, Moves
  <2> QED BY <2>1, <2>2, SameDates
<1>4. ASSUME NEW t \in Turns, Store(t) \/ StoreAnswer(t) \/ Expire(t) \/ Fails(t)
      PROVE  Dates'
  <2>1. UNCHANGED <<clock, rows>>
    BY <1>4 DEF Store, StoreAnswer, Expire, Fails
  <2>2. \A s \in Turns : /\ turn'[s].at = turn[s].at
                         /\ turn'[s].pc = "idle" <=> turn[s].pc = "idle"
    BY <1>4, Moves, PushedGoes DEF Store, StoreAnswer, Expire, Fails
  <2> QED BY <2>1, <2>2, SameDates
<1>5. ASSUME NEW t \in Turns, SaveQuestion(t)
      PROVE  Dates'
  <2> DEFINE new == Dated(Question(t), turn[t].at)
  <2>1. new.message = Question(t) /\ new.at = turn[t].at
    BY DEF Dated
  <2>2. turn[t].pc = "question" /\ t \in Started /\ turn[t].at \in Nat
    BY <1>5 DEF SaveQuestion, Started, TurnTypeOK
  <2>3. \A row \in rows : row.at # new.at
    <3> SUFFICES ASSUME NEW row \in rows, row.at = turn[t].at PROVE FALSE
      BY <2>1
    <3>1. row.message.role = "userMessage" /\ row.at = turn[row.message.turn].at
      BY <2>2 DEF Dates
    <3>2. row.message.turn \in Turns
      BY MessageParts DEF TurnTypeOK
    <3>3. turn[row.message.turn].pc # "idle"
      BY <3>1, <3>2, <2>2 DEF Dates
    <3>4. row.message.turn = t
      BY <3>1, <3>2, <3>3, <2>2 DEF Dates, Started
    <3> QED BY <3>4, <2>2 DEF Saved
  <2>4. \A s \in Turns : /\ turn'[s].at = turn[s].at
                         /\ turn'[s].pc = "idle" <=> turn[s].pc = "idle"
    BY <1>5, <2>2 DEF SaveQuestion, Goto, TurnTypeOK
  <2>5. rows' = rows \cup {new} /\ clock' = clock /\ clock \in Nat
    BY <1>5 DEF SaveQuestion, TurnTypeOK
  <2>6. new.at <= clock' /\ clock <= clock' /\ clock' \in Nat
    BY <2>1, <2>5 DEF Dates
  <2>7. new.message \in Messages /\ new.message.role = "userMessage" /\ new.message.turn = t
    BY <2>1, MessageParts
  <2> HIDE DEF new
  <2> QED BY <2>1, <2>2, <2>3, <2>4, <2>5, <2>6, <2>7, NewDate
<1>6. ASSUME NEW t \in Turns, SaveAnswer(t)
      PROVE  Dates'
  <2> DEFINE new == Dated(Answer(t, turn[t].result), clock + 1)
  <2>1. new.message = Answer(t, turn[t].result) /\ new.at = clock + 1
    BY DEF Dated
  <2>2. turn[t].result \in Results /\ clock \in Nat /\ turn[t].pc = "answer"
        /\ \A s \in Turns : turn[s].at \in Nat
    BY <1>6 DEF SaveAnswer, TurnTypeOK
  <2>3. \A row \in rows : row.at \in Nat /\ row.at <= clock
    BY DEF Dates, TurnTypeOK
  <2>4. \A s \in Turns : turn[s].at # new.at /\ new.at > turn[s].at
    BY <2>1, <2>2 DEF Dates
  <2>5. \A s \in Turns : /\ turn'[s].at = turn[s].at
                         /\ turn'[s].pc = "idle" <=> turn[s].pc = "idle"
    BY <1>6, <2>2 DEF SaveAnswer, Goto, TurnTypeOK
  <2>6. rows' = rows \cup {new} /\ clock' = clock + 1
    BY <1>6 DEF SaveAnswer
  <2>7. new.message \in Messages /\ new.message.turn = t /\ new.message.role = "apiMessage"
    BY <2>1, <2>2, MessageParts
  <2> HIDE DEF new
  <2>8. \A row \in rows : row.at # new.at
    BY <2>1, <2>2, <2>3
  <2>9. new.at \in Nat /\ new.at <= clock' /\ clock' \in Nat /\ clock <= clock'
    BY <2>1, <2>2, <2>6
  <2>10. \A s \in Started : new.at # turn[s].at
    BY <2>4 DEF Started
  <2> QED BY <2>4, <2>5, <2>6, <2>7, <2>8, <2>9, <2>10, NewDate
<1>7. CASE Lapse \/ UNCHANGED turnVars
  BY <1>7, SameDates DEF Lapse, turnVars
<1> QED BY <1>1, <1>2, <1>3, <1>4, <1>5, <1>6, <1>7 DEF TurnNext

-----------------------------------------------------------------------------
(* A step of a turn leaves the others as they are. *)

Step(t) ==
    \/ Begin(t) \/ Moderate(t) \/ CheckInput(t) \/ Plan(t) \/ CheckOutput(t)
    \/ Store(t) \/ StoreAnswer(t) \/ Expire(t) \/ SaveQuestion(t) \/ SaveAnswer(t) \/ Fails(t)

LEMMA Appended ==
    ASSUME NEW S, NEW s \in Seq(S), NEW e
    PROVE  /\ Len(Append(s, e)) = Len(s) + 1 /\ Len(s) \in Nat
           /\ Append(s, e)[Len(s) + 1] = e
           /\ \A i \in 1..Len(s) : Append(s, e)[i] = s[i]
           /\ \A x : Contains(Append(s, e), x) <=> Contains(s, x) \/ x = e
           /\ \A i \in 1..Len(Append(s, e)) : i = Len(s) + 1 \/ i \in 1..Len(s)
<1>1. Len(Append(s, e)) = Len(s) + 1 /\ Len(s) \in Nat
  OBVIOUS
<1>2. Append(s, e)[Len(s) + 1] = e /\ \A i \in 1..Len(s) : Append(s, e)[i] = s[i]
  OBVIOUS
<1>3. \A i \in 1..Len(Append(s, e)) : i = Len(s) + 1 \/ i \in 1..Len(s)
  BY <1>1
<1>4. ASSUME NEW x
      PROVE  Contains(Append(s, e), x) <=> Contains(s, x) \/ x = e
  <2> DEFINE a == Append(s, e)
  <2>1. Contains(s, x) <=> \E i \in 1..Len(s) : s[i] = x
    BY DEF Contains
  <2>2. Contains(a, x) <=> \E i \in 1..Len(a) : a[i] = x
    BY DEF Contains
  <2>3. (Len(s) + 1) \in 1..Len(a) /\ \A i \in 1..Len(s) : i \in 1..Len(a)
    BY <1>1
  <2> HIDE DEF a
  <2> QED BY <1>2, <1>3, <2>1, <2>2, <2>3 DEF a
<1> QED BY <1>1, <1>2, <1>3, <1>4

LEMMA Frame ==
    ASSUME TurnTypeOK, NEW t \in Turns, Step(t)
    PROVE  /\ setup' = setup
           /\ \A s \in Turns : s # t => turn'[s] = turn[s] /\ sent'[s] = sent[s]
           /\ \/ log' = log
              \/ \E e : log' = Append(log, e) /\ e.turn = t
           /\ \/ list' = list
              \/ list' = Append(list, Question(t))
              \/ list' = Append(list, Answer(t, turn[t].result))
           /\ \/ rows' = rows
              \/ rows' = rows \cup {Dated(Question(t), turn[t].at)}
              \/ rows' = rows \cup {Dated(Answer(t, turn[t].result), clock + 1)}
<1>1. setup' = setup
  BY DEF Step, Begin, Moderate, CheckInput, Plan, CheckOutput, Store, StoreAnswer, Expire,
         SaveQuestion, SaveAnswer, Fails
<1>2. ASSUME NEW s \in Turns, s # t
      PROVE  turn'[s] = turn[s]
  BY <1>2, Moves, PushedGoes
  DEF Step, Moderate, CheckInput, Plan, Store, StoreAnswer, Expire, SaveQuestion, SaveAnswer, Fails
<1>3. ASSUME NEW s \in Turns, s # t
      PROVE  sent'[s] = sent[s]
  <2>1. sent' = sent \/ sent' = [sent EXCEPT ![t] = Append(@, Recall)]
    BY DEF Step, Begin, Moderate, CheckInput, Plan, CheckOutput, Store, StoreAnswer, Expire,
           SaveQuestion, SaveAnswer, Fails
  <2> QED BY <1>3, <2>1 DEF TurnTypeOK
<1>4. log' = log \/ \E e : log' = Append(log, e) /\ e.turn = t
  <2>1. \A type, valid :
           Judged(t, type, valid) => log' = log \/ \E e : log' = Append(log, e) /\ e.turn = t
    <3> SUFFICES ASSUME NEW type, NEW valid, Judged(t, type, valid)
                 PROVE  log' = log \/ \E e : log' = Append(log, e) /\ e.turn = t
      OBVIOUS
    <3>1. [type |-> type, turn |-> t, valid |-> valid].turn = t
      OBVIOUS
    <3> QED BY <3>1, JudgedAdds
  <2> QED BY <2>1
      DEF Step, Begin, Moderate, CheckInput, Plan, CheckOutput, Store, StoreAnswer, Expire,
          SaveQuestion, SaveAnswer, Fails
<1>5. \/ list' = list \/ list' = Append(list, Question(t))
      \/ list' = Append(list, Answer(t, turn[t].result))
  BY DEF Step, Begin, Moderate, CheckInput, Plan, CheckOutput, Store, StoreAnswer, Expire,
         StoredAnswer, SaveQuestion, SaveAnswer, Fails
<1>6. \/ rows' = rows
      \/ rows' = rows \cup {Dated(Question(t), turn[t].at)}
      \/ rows' = rows \cup {Dated(Answer(t, turn[t].result), clock + 1)}
  BY DEF Step, Begin, Moderate, CheckInput, Plan, CheckOutput, Store, StoreAnswer, Expire,
         SaveQuestion, SaveAnswer, Fails
<1> QED BY <1>1, <1>2, <1>3, <1>4, <1>5, <1>6

LEMMA Others ==
    ASSUME TurnTypeOK, NEW t \in Turns, Step(t), NEW s \in Turns, s # t, TurnInv(s)
    PROVE  TurnInv(s)'
<1>1. turn'[s] = turn[s] /\ sent'[s] = sent[s] /\ setup' = setup
  BY Frame
<1>2. Stage(s)'
  BY <1>1 DEF TurnInv, Stage, Refused
<1>3. \A row : row.message.turn = s => (row \in rows' <=> row \in rows)
  <2>1. Dated(Question(t), turn[t].at).message.turn = t
        /\ Dated(Answer(t, turn[t].result), clock + 1).message.turn = t
    BY DEF Dated, Question, Answer
  <2> QED BY <2>1, Frame
<1>4. Saved(s)'
  <2>1. Question(s).turn = s /\ Answer(s, turn[s].result).turn = s
        /\ Dated(Question(s), turn[s].at).message = Question(s)
    BY DEF Question, Answer, Dated
  <2> QED BY <1>1, <1>3, <2>1 DEF TurnInv, Saved
<1>5. /\ \A i \in 1..Len(list') : list'[i].turn = s => i \in 1..Len(list) /\ list'[i] = list[i]
      /\ \A i \in 1..Len(list) : i \in 1..Len(list') /\ list'[i] = list[i]
  <2>1. Question(t).turn = t /\ Answer(t, turn[t].result).turn = t
    BY DEF Question, Answer
  <2>2. CASE list' = list
    BY <2>2
  <2>3. ASSUME NEW m, list' = Append(list, m), m.turn = t
        PROVE  <1>5!1 /\ <1>5!2
    <3>1. list \in Seq(Messages)
      BY DEF TurnTypeOK
    <3>2. /\ Len(list') = Len(list) + 1 /\ Len(list) \in Nat
          /\ list'[Len(list) + 1] = m
          /\ \A i \in 1..Len(list) : list'[i] = list[i]
      BY <2>3, <3>1, Appended
    <3> QED BY <2>3, <3>2
  <2> QED BY <2>1, <2>2, <2>3, Frame
<1>6. Listed(s)'
  BY <1>1, <1>5 DEF TurnInv, Listed, Kept, Refused
<1>7. Contains(log', Warning(s)) <=> Contains(log, Warning(s))
  <2>1. ASSUME NEW e, log' = Append(log, e), e.turn = t
        PROVE  <1>7!1 <=> <1>7!2
    <3>1. e # Warning(s)
      BY <2>1 DEF Warning
    <3>2. log \in Seq(Entries)
      BY DEF TurnTypeOK
    <3> QED BY <2>1, <3>1, <3>2, Appended
  <2> QED BY <2>1, Frame
<1>8. Logged(s)'
  BY <1>1, <1>7 DEF TurnInv, Logged, Warning
<1> QED BY <1>2, <1>4, <1>6, <1>8 DEF TurnInv

-----------------------------------------------------------------------------
(* What a step does to its own turn. *)

LEMMA OwnStage ==
    ASSUME TurnTypeOK, NEW t \in Turns, Step(t), TurnInv(t)
    PROVE  Stage(t)'
<1>. Stage(t)
  BY DEF TurnInv
<1>1. setup' = setup
  BY Frame
<1>2. CASE Begin(t)
  BY <1>1, <1>2, Moves DEF Begin, Stage, Refused
<1>3. CASE Moderate(t) \/ CheckInput(t)
  <2>1. sent' = sent /\ sent[t] = <<>> /\ turn[t].result = "none"
    BY <1>3 DEF Moderate, CheckInput, Stage
  <2>2. Goto(t, "inputCheck") \/ Goto(t, "planning") \/ Refuse(t)
    BY <1>3 DEF Moderate, CheckInput
  <2> QED BY <1>1, <2>1, <2>2, Moves DEF Stage, Refused
<1>4. CASE Plan(t)
  <2>1. turn[t].pc = "planning" /\ turn[t].result = "none"
    BY <1>4 DEF Plan, Stage
  <2>2. Goto(t, "outputCheck") \/ turn' = turn
    BY <1>4 DEF Plan
  <2>3. /\ turn'[t].pc \in {"planning", "outputCheck"} /\ turn'[t].result = "none"
    BY <2>1, <2>2, Moves
  <2> QED BY <1>1, <2>3 DEF Stage, Refused
<1>5. CASE CheckOutput(t)
  BY <1>1, <1>5, Moves DEF Stage, Refused
<1>6. CASE Store(t) \/ StoreAnswer(t) \/ Expire(t)
  <2>1. sent' = sent /\ turn[t].result \in {"answer", "warned"}
    BY <1>6 DEF Store, StoreAnswer, Expire, Stage
  <2>2. \/ /\ setup.memory = "external"
           /\ \/ Goto(t, "storing2")
              \/ setup.expires /\ (Goto(t, "expiring") \/ Goto(t, "expiring2"))
        \/ Goto(t, "question")
    BY <1>6, PushedGoes DEF Store, StoreAnswer, Expire, Stage
  <2> QED BY <1>1, <2>1, <2>2, Moves DEF Stage, Refused
<1>7. CASE SaveQuestion(t) \/ SaveAnswer(t)
  <2>1. sent' = sent /\ turn[t].result # "none"
    BY <1>7 DEF SaveQuestion, SaveAnswer, Stage
  <2>2. Goto(t, "answer") \/ Goto(t, "done")
    BY <1>7 DEF SaveQuestion, SaveAnswer
  <2> QED BY <1>1, <2>1, <2>2, Moves DEF Stage, Refused
<1>8. CASE Fails(t)
  <2>1. sent' = sent /\ Goto(t, "failed")
    BY <1>8 DEF Fails
  <2> QED BY <1>1, <2>1, Moves DEF Stage, Refused
<1> QED BY <1>2, <1>3, <1>4, <1>5, <1>6, <1>7, <1>8 DEF Step

LEMMA OwnSaved ==
    ASSUME TurnTypeOK, NEW t \in Turns, Step(t), TurnInv(t)
    PROVE  Saved(t)'
<1>. Saved(t) /\ Stage(t)
  BY DEF TurnInv
<1>1. CASE Begin(t) \/ Moderate(t) \/ CheckInput(t)
  <2>1. rows' = rows /\ turn[t].pc \in {"idle", "moderation", "inputCheck"}
    BY <1>1 DEF Begin, Moderate, CheckInput
  <2>2. turn'[t].pc \in {"moderation", "inputCheck", "planning", "question"}
    BY <1>1, Moves DEF Moderate, CheckInput
  <2> QED BY <2>1, <2>2 DEF Saved
<1>2. CASE Plan(t) \/ CheckOutput(t) \/ Store(t) \/ StoreAnswer(t) \/ Expire(t)
  <2> DEFINE places == {"planning", "outputCheck", "storing", "expiring", "storing2", "expiring2"}
  <2>1. rows' = rows /\ turn[t].pc \in places
    BY <1>2 DEF Plan, CheckOutput, Store, StoreAnswer, Expire
  <2>2. turn'[t].pc \in places \cup {"question"}
    BY <1>2, <2>1, Moves, PushedGoes DEF Plan, Store, StoreAnswer, Expire
  <2> QED BY <2>1, <2>2 DEF Saved
<1>3. CASE SaveQuestion(t)
  <2>1. /\ turn[t].pc = "question" /\ rows' = rows \cup {Dated(Question(t), turn[t].at)}
        /\ turn'[t].pc = "answer" /\ turn'[t].at = turn[t].at
    BY <1>3, Moves DEF SaveQuestion
  <2>2. Dated(Question(t), turn[t].at).message = Question(t)
    BY DEF Dated
  <2> QED BY <2>1, <2>2 DEF Saved
<1>4. CASE SaveAnswer(t)
  <2>1. /\ turn[t].pc = "answer"
        /\ rows' = rows \cup {Dated(Answer(t, turn[t].result), clock + 1)}
        /\ turn'[t].pc = "done" /\ turn'[t].at = turn[t].at
        /\ turn'[t].result = turn[t].result
    BY <1>4, Moves DEF SaveAnswer
  <2>2. Dated(Answer(t, turn[t].result), clock + 1).message = Answer(t, turn[t].result)
    BY DEF Dated
  <2> QED BY <2>1, <2>2 DEF Saved
<1>5. CASE Fails(t)
  <2>1. /\ turn[t].pc \in {"planning", "storing", "expiring", "storing2", "expiring2",
                            "question", "answer"}
        /\ rows' = rows /\ turn'[t].pc = "failed"
    BY <1>5, Moves DEF Fails
  <2> QED BY <2>1 DEF Saved
<1> QED BY <1>1, <1>2, <1>3, <1>4, <1>5 DEF Step

LEMMA OwnListed ==
    ASSUME TurnTypeOK, NEW t \in Turns, Step(t), TurnInv(t)
    PROVE  Listed(t)'
<1>. Listed(t) /\ Stage(t) /\ setup' = setup
  BY Frame DEF TurnInv
<1>0. Question(t).turn = t /\ Answer(t, turn[t].result).turn = t
  BY DEF Question, Answer
<1>1. CASE Begin(t) \/ Moderate(t) \/ CheckInput(t)
  <2>1. list' = list /\ turn[t].pc \in {"idle", "moderation", "inputCheck"}
        /\ turn[t].result = "none"
    BY <1>1 DEF Begin, Moderate, CheckInput, Stage
  <2>2. \/ turn'[t].pc \in {"moderation", "inputCheck", "planning"}
        \/ turn'[t].pc = "question" /\ turn'[t].result = "refused"
    <3>1. Begin(t) \/ Goto(t, "inputCheck") \/ Goto(t, "planning") \/ Refuse(t)
      BY <1>1 DEF Moderate, CheckInput
    <3>2. CASE Begin(t)
      BY <3>2, Moves
    <3>3. CASE Goto(t, "inputCheck") \/ Goto(t, "planning")
      BY <3>3, Moves
    <3>4. CASE Refuse(t)
      BY <3>4, Moves
    <3> QED BY <3>1, <3>2, <3>3, <3>4
  <2>3. \A i \in 1..Len(list) : list[i].turn # t
    BY <2>1 DEF Listed, Kept
  <2> QED BY <2>1, <2>2, <2>3 DEF Listed, Refused
<1>2. CASE Plan(t) \/ CheckOutput(t)
  <2>1. list' = list /\ turn[t].pc \in {"planning", "outputCheck"}
    BY <1>2 DEF Plan, CheckOutput
  <2>2. turn'[t].pc \in {"planning", "outputCheck", "storing"}
    <3>1. CheckOutput(t) \/ Goto(t, "outputCheck") \/ turn' = turn
      BY <1>2 DEF Plan
    <3> QED BY <2>1, <3>1, Moves
  <2>3. \A i \in 1..Len(list) : list[i].turn # t
    BY <2>1 DEF Listed, Kept
  <2> QED BY <2>1, <2>2, <2>3 DEF Listed
<1>3. CASE Store(t) /\ setup.memory = "external"
  <2>1. /\ turn[t].pc = "storing" /\ turn[t].result \in {"answer", "warned"}
        /\ list' = Append(list, Question(t))
        /\ turn'[t].pc \in {"expiring", "storing2"} /\ turn'[t].result = turn[t].result
    BY <1>3, Moves, PushedGoes DEF Store, Stage
  <2>2. list \in Seq(Messages)
    BY DEF TurnTypeOK
  <2>3. /\ \A i \in 1..Len(list') : i = Len(list) + 1 \/ i \in 1..Len(list)
        /\ list'[Len(list) + 1] = Question(t) /\ Len(list) + 1 \in 1..Len(list')
        /\ \A i \in 1..Len(list) : list'[i] = list[i]
    BY <2>1, <2>2, Appended
  <2>4. Kept(t, Question(t))' /\ \A m : Kept(t, m) => Kept(t, m)'
    BY <1>3, <2>1 DEF Kept
  <2> QED BY <2>1, <2>3, <2>4 DEF Listed, Refused
<1>4. CASE StoreAnswer(t)
  <2>1. /\ turn[t].pc = "storing2" /\ turn[t].result \in {"answer", "warned"}
        /\ setup.memory = "external"
        /\ list' = Append(list, Answer(t, turn[t].result))
        /\ turn'[t].pc \in {"expiring2", "question"} /\ turn'[t].result = turn[t].result
    BY <1>4, Moves, PushedGoes DEF StoreAnswer, StoredAnswer, Stage
  <2>2. list \in Seq(Messages)
    BY DEF TurnTypeOK
  <2>3. /\ \A i \in 1..Len(list') : i = Len(list) + 1 \/ i \in 1..Len(list)
        /\ list'[Len(list) + 1] = Answer(t, turn[t].result)
        /\ \A i \in 1..Len(list) : list'[i] = list[i] /\ i \in 1..Len(list')
    BY <2>1, <2>2, Appended
  <2>4. Kept(t, Answer(t, turn[t].result))' /\ \A m : Kept(t, m) => Kept(t, m)'
    BY <2>1 DEF Kept
  <2> QED BY <2>1, <2>3, <2>4 DEF Listed, Refused
<1>5. CASE Store(t) /\ setup.memory # "external"
  BY <1>5, Moves DEF Store, Listed, Kept
<1>6. CASE Expire(t) \/ SaveQuestion(t) \/ SaveAnswer(t) \/ Fails(t)
  <2>1. /\ list' = list /\ turn'[t].result = turn[t].result
        /\ \/ turn[t].pc = "expiring" /\ turn'[t].pc = "storing2"
           \/ turn[t].pc = "expiring2" /\ turn'[t].pc = "question"
           \/ turn'[t].pc \in {"answer", "done"} /\ turn[t].pc \in {"question", "answer"}
           \/ turn'[t].pc = "failed"
    BY <1>6, Moves DEF Expire, SaveQuestion, SaveAnswer, Fails
  <2>2. \A m : Kept(t, m) => Kept(t, m)'
    BY <2>1 DEF Kept
  <2>3. turn[t].pc \in {"expiring", "expiring2"} => setup.expires
    BY DEF Stage
  <2> QED BY <2>1, <2>2, <2>3 DEF Listed, Refused
<1> QED BY <1>1, <1>2, <1>3, <1>4, <1>5, <1>6 DEF Step

LEMMA OwnLogged ==
    ASSUME TurnTypeOK, NEW t \in Turns, Step(t), TurnInv(t)
    PROVE  Logged(t)'
<1>. Logged(t) /\ Stage(t) /\ log \in Seq(Entries)
  BY DEF TurnInv, TurnTypeOK
<1>0. setup' = setup
  BY Frame
<1>1. CASE CheckInput(t)
  <2>1. turn[t].result = "none" /\ turn'[t].result \in {"none", "refused"}
    BY <1>1, Moves DEF CheckInput, Stage
  <2>2. log' = log \/ \E valid : Judged(t, "agent_input_validation", valid)
    BY <1>1 DEF CheckInput
  <2>3. Contains(log', Warning(t)) <=> Contains(log, Warning(t))
    <3>1. ASSUME NEW valid, Judged(t, "agent_input_validation", valid)
          PROVE  <2>3
      <4> DEFINE e == [type |-> "agent_input_validation", turn |-> t, valid |-> valid]
      <4>1. e # Warning(t)
        BY DEF Warning
      <4>2. log' = Append(log, e) \/ log' = log
        BY <3>1, JudgedAdds
      <4> HIDE DEF e
      <4>3. Contains(Append(log, e), Warning(t)) <=> Contains(log, Warning(t)) \/ Warning(t) = e
        BY Appended
      <4> QED BY <4>1, <4>2, <4>3
    <3> QED BY <3>1, <2>2
  <2> QED BY <1>0, <2>1, <2>3 DEF Logged, Warning
<1>2. CASE CheckOutput(t)
  <2>1. turn[t].result = "none" /\ ~ Contains(log, Warning(t))
    BY <1>2 DEF CheckOutput, Stage, Logged
  <2>2. PICK valid \in BOOLEAN :
          /\ IF "output" \in setup.judged
             THEN Judged(t, "agent_output_validation", valid) ELSE valid /\ UNCHANGED log
          /\ turn'[t].result = IF valid THEN "answer" ELSE "warned"
    BY <1>2 DEF CheckOutput, TurnTypeOK
  <2> DEFINE e == [type |-> "agent_output_validation", turn |-> t, valid |-> valid]
  <2>3. CASE valid = TRUE
    <3>1. e.valid = TRUE /\ Warning(t).valid = FALSE
      BY <2>3 DEF Warning
    <3>2. e # Warning(t)
      BY <3>1
    <3>3. log' = log \/ log' = Append(log, e)
      BY <2>2 DEF Judged
    <3> HIDE DEF e
    <3>4. ~ Contains(log', Warning(t))
      <4>1. Contains(Append(log, e), Warning(t)) <=> Contains(log, Warning(t)) \/ Warning(t) = e
        BY Appended
      <4> QED BY <3>2, <3>3, <2>1, <4>1
    <3>5. turn'[t].result = "answer"
      BY <2>2, <2>3
    <3> QED BY <3>4, <3>5 DEF Logged, Warning
  <2>4. CASE valid = FALSE
    <3>1. e = Warning(t)
      BY <2>4 DEF Warning
    <3>2. log' = Append(log, e) \/ (setup.logFails /\ log' = log)
      BY <2>2, <2>4 DEF Judged
    <3> HIDE DEF e
    <3>3. setup.logFails \/ Contains(log', Warning(t))
      <4>1. Contains(Append(log, e), Warning(t)) <=> Contains(log, Warning(t)) \/ Warning(t) = e
        BY Appended
      <4> QED BY <3>1, <3>2, <4>1
    <3>4. turn'[t].result = "warned" /\ setup' = setup
      BY <2>2, <2>4, Frame
    <3> QED BY <3>3, <3>4 DEF Logged, Warning
  <2> QED BY <2>3, <2>4
<1>3. CASE ~ CheckInput(t) /\ ~ CheckOutput(t)
  <2>1. log' = log
    BY <1>3 DEF Step, Begin, Moderate, Plan, Store, StoreAnswer, Expire, SaveQuestion,
                SaveAnswer, Fails
  <2>2. turn'[t].result = "warned" <=> turn[t].result = "warned"
    <3>1. CASE Moderate(t)
      BY <3>1, Moves DEF Moderate, Stage
    <3>2. CASE ~ Moderate(t)
      <4>1. Begin(t) \/ turn' = turn \/ \E place : Goto(t, place)
        BY <1>3, <3>2, PushedGoes DEF Step, Plan, Store, StoreAnswer, Expire, SaveQuestion,
                                      SaveAnswer, Fails
      <4> QED BY <4>1, Moves
    <3> QED BY <3>1, <3>2
  <2> QED BY <1>0, <2>1, <2>2 DEF Logged, Warning
<1> QED BY <1>1, <1>2, <1>3

-----------------------------------------------------------------------------
(* What has been sent is still remembered. *)

LEMMA MemoryKept ==
    ASSUME TurnTypeOK, NEW t \in Turns, Step(t)
    PROVE  Memory \subseteq Memory'
<1>1. setup' = setup /\ rows \subseteq rows'
  BY Frame
<1>2. \A i \in 1..Len(list) : i \in 1..Len(list') /\ list'[i] = list[i]
  <2>1. ASSUME NEW m, list' = Append(list, m)
        PROVE  <1>2
    <3>1. list \in Seq(Messages)
      BY DEF TurnTypeOK
    <3> QED BY <2>1, <3>1, Appended
  <2> QED BY <2>1, Frame
<1>3. {row.message : row \in rows} \subseteq {row.message : row \in rows'}
  BY <1>1
<1>4. {list[i] : i \in 1..Len(list)} \subseteq {list'[i] : i \in 1..Len(list')}
  BY <1>2
<1> QED BY <1>1, <1>3, <1>4 DEF Memory

(* A plan sends what is remembered; nothing else is sent. *)
LEMMA Sends ==
    ASSUME RecordInv, NEW t \in Turns, Step(t)
    PROVE  \/ ~ Plan(t) /\ sent' = sent
           \/ /\ Plan(t)
              /\ Recall \in Seq(Messages) /\ Elements(Recall) = Memory
              /\ Len(sent'[t]) = Len(sent[t]) + 1 /\ Len(sent[t]) \in Nat
              /\ sent'[t][Len(sent[t]) + 1] = Recall
              /\ \A i \in 1..Len(sent[t]) : sent'[t][i] = sent[t][i]
              /\ \A i \in 1..Len(sent'[t]) : i = Len(sent[t]) + 1 \/ i \in 1..Len(sent[t])
<1>. TurnTypeOK
  BY DEF RecordInv
<1>1. CASE Plan(t)
  <2>1. Recall \in Seq(Messages) /\ Elements(Recall) = Memory
    BY RecallIsMemory DEF RecordInv, Dates
  <2>2. sent[t] \in Seq(Seq(Messages)) /\ sent'[t] = Append(sent[t], Recall)
    BY <1>1 DEF Plan, TurnTypeOK
  <2>3. /\ Len(sent'[t]) = Len(sent[t]) + 1 /\ Len(sent[t]) \in Nat
        /\ sent'[t][Len(sent[t]) + 1] = Recall
        /\ \A i \in 1..Len(sent[t]) : sent'[t][i] = sent[t][i]
        /\ \A i \in 1..Len(sent'[t]) : i = Len(sent[t]) + 1 \/ i \in 1..Len(sent[t])
    BY <2>2, Appended
  <2> QED BY <1>1, <2>1, <2>3
<1>2. CASE ~ Plan(t)
  BY <1>2 DEF Step, Begin, Moderate, CheckInput, CheckOutput, Store, StoreAnswer, Expire,
              SaveQuestion, SaveAnswer, Fails
<1> QED BY <1>1, <1>2

(* A message is given to an external memory once, and stays given. *)
LEMMA KeptStays ==
    ASSUME RecordInv, NEW t \in Turns, Step(t), NEW s \in Turns, NEW m, Kept(s, m)
    PROVE  Kept(s, m)'
<1>. TurnTypeOK /\ Stage(s) /\ setup' = setup
  BY Frame DEF RecordInv, TurnInv
<1>1. CASE s # t
  BY <1>1, Frame DEF Kept
<1>2. CASE s = t
  <2> DEFINE places == {"expiring", "storing2", "expiring2", "question", "answer", "done", "failed"}
  <2>1. turn[t].pc \in places
    BY <1>2 DEF Kept
  <2>2. /\ turn'[t].result = turn[t].result
        /\ \/ turn[t].pc = "expiring" /\ turn'[t].pc = "storing2"
           \/ turn'[t].pc \in {"expiring2", "question", "answer", "done", "failed"}
    BY <2>1, Moves, PushedGoes
    DEF Step, Begin, Moderate, CheckInput, Plan, CheckOutput, Store, StoreAnswer, Expire,
        SaveQuestion, SaveAnswer, Fails
  <2> QED BY <1>2, <2>2 DEF Kept
<1> QED BY <1>1, <1>2

(* What is added to an external memory was not given to it before. *)
LEMMA NewInMemory ==
    ASSUME RecordInv, NEW t \in Turns, Step(t), setup.memory = "external",
           NEW m \in Memory', m \notin Memory
    PROVE  m.turn = t /\ ~ Kept(t, m) /\ Kept(t, m)'
<1>. TurnTypeOK /\ Stage(t) /\ setup' = setup
  BY Frame DEF RecordInv, TurnInv
<1>1. PICK i \in 1..Len(list') : m = list'[i]
  BY DEF Memory
<1>2. list \in Seq(Messages)
  BY DEF TurnTypeOK
<1>3. \A k \in 1..Len(list) : list[k] # m
  BY DEF Memory
<1>4. list' # list
  BY <1>1, <1>3
<1>5. CASE Store(t) /\ list' = Append(list, Question(t))
  <2>1. m = Question(t)
    BY <1>1, <1>2, <1>3, <1>5, Appended
  <2>2. /\ turn[t].pc = "storing" /\ turn[t].result \in {"answer", "warned"}
        /\ turn'[t].pc \in {"expiring", "storing2"} /\ turn'[t].result = turn[t].result
    BY <1>4, <1>5, Moves, PushedGoes DEF Store, Stage
  <2> QED BY <2>1, <2>2 DEF Kept, Question
<1>6. CASE StoreAnswer(t) /\ list' = Append(list, Answer(t, turn[t].result))
  <2>1. m = Answer(t, turn[t].result)
    BY <1>1, <1>2, <1>3, <1>6, Appended
  <2>2. /\ turn[t].pc = "storing2" /\ turn[t].result \in {"answer", "warned"}
        /\ turn'[t].pc \in {"expiring2", "question"} /\ turn'[t].result = turn[t].result
    BY <1>6, Moves, PushedGoes DEF StoreAnswer, Stage
  <2>3. m.turn = t /\ m # Question(t)
    BY <2>1 DEF Question, Answer
  <2> QED BY <2>1, <2>2, <2>3 DEF Kept
<1> QED BY <1>4, <1>5, <1>6
    DEF Step, Begin, Moderate, CheckInput, Plan, CheckOutput, Store, StoreAnswer, Expire,
        StoredAnswer, SaveQuestion, SaveAnswer, Fails

(* What an external memory holds was given to it. *)
LEMMA MemoryWasKept ==
    ASSUME RecordInv, setup.memory = "external", NEW m \in Memory
    PROVE  m.turn \in Turns /\ Kept(m.turn, m)
<1>1. PICK i \in 1..Len(list) : m = list[i]
  BY DEF Memory
<1>2. m \in Messages
  BY <1>1 DEF RecordInv, TurnTypeOK
<1>3. m.turn \in Turns
  BY <1>2, MessageParts
<1> QED BY <1>1, <1>3 DEF RecordInv, TurnInv, Listed

LEMMA RememberedKept ==
    ASSUME RecordInv, NEW t \in Turns, Step(t)
    PROVE  SentIsRemembered'
<1>. TurnTypeOK /\ SentIsRemembered /\ setup' = setup
  BY Frame DEF RecordInv
<1> SUFFICES ASSUME NEW s \in Turns, NEW i \in 1..Len(sent'[s])
             PROVE  /\ \/ Elements(sent'[s][i]) \subseteq Memory'
                       \/ Forgetful /\ Elements(sent'[s][i]) \cap Memory' = {}
                    /\ setup.memory = "external" =>
                          \A m \in Elements(sent'[s][i]) : m.turn \in Turns /\ Kept(m.turn, m)'
  BY DEF SentIsRemembered, Elements, Forgetful, Kept
<1>1. Memory \subseteq Memory'
  BY MemoryKept
<1>2. CASE i \in 1..Len(sent[s]) /\ sent'[s][i] = sent[s][i]
  <2> DEFINE E == Elements(sent[s][i])
  <2>1. /\ E \subseteq Memory \/ (Forgetful /\ E \cap Memory = {})
        /\ setup.memory = "external" => \A m \in E : m.turn \in Turns /\ Kept(m.turn, m)
    BY <1>2 DEF SentIsRemembered
  <2> HIDE DEF E
  <2>2. setup.memory = "external" => \A m \in E : m.turn \in Turns /\ Kept(m.turn, m)'
    BY <2>1, KeptStays
  <2>3. CASE E \subseteq Memory
    BY <1>1, <1>2, <2>2, <2>3 DEF E
  <2>4. CASE Forgetful /\ E \cap Memory = {}
    <3>1. E \cap Memory' = {}
      BY <2>1, <2>4, NewInMemory DEF Forgetful
    <3> QED BY <1>2, <2>2, <2>4, <3>1 DEF E
  <2> QED BY <2>1, <2>3, <2>4
<1>3. CASE s = t /\ Plan(t)
  <2>1. (i \in 1..Len(sent[s]) /\ sent'[s][i] = sent[s][i]) \/ sent'[s][i] = Recall
    BY <1>3, Sends
  <2>2. CASE sent'[s][i] = Recall
    <3>1. Elements(Recall) = Memory
      BY <1>3, Sends
    <3>2. setup.memory = "external" => \A m \in Memory : m.turn \in Turns /\ Kept(m.turn, m)'
      BY MemoryWasKept, KeptStays
    <3> QED BY <1>1, <2>2, <3>1, <3>2
  <2> QED BY <1>2, <2>1, <2>2
<1>4. CASE s # t \/ ~ Plan(t)
  BY <1>2, <1>4, Sends, Frame
<1> QED BY <1>3, <1>4

LEMMA StepKeepsRecord ==
    ASSUME RecordInv, NEW t \in Turns, Step(t)
    PROVE  RecordInv'
<1>. TurnTypeOK /\ IsFiniteSet(rows) /\ \A s \in Turns : TurnInv(s)
  BY DEF RecordInv
<1>1. TurnNext
  BY DEF Step, TurnNext
<1>2. TurnTypeOK' /\ IsFiniteSet(rows)' /\ Dates'
  BY <1>1, Types, FiniteRows, DatesKept
<1>3. ASSUME NEW s \in Turns
      PROVE  TurnInv(s)'
  <2>1. CASE s = t
    BY <2>1, OwnStage, OwnSaved, OwnListed, OwnLogged DEF TurnInv
  <2>2. CASE s # t
    BY <2>2, Others
  <2> QED BY <2>1, <2>2
<1>4. volatile' => Forgetful'
  <2>1. CASE Expire(t)
    <3>1. Stage(t) /\ setup' = setup
      BY Frame DEF RecordInv, TurnInv
    <3> QED BY <2>1, <3>1 DEF Expire, Stage, Forgetful
  <2>2. CASE ~ Expire(t)
    <3>1. volatile' = volatile /\ setup' = setup
      BY <2>2 DEF Step, Begin, Moderate, CheckInput, Plan, CheckOutput, Store, StoreAnswer,
                  SaveQuestion, SaveAnswer, Fails
    <3> QED BY <3>1 DEF RecordInv, Forgetful
  <2> QED BY <2>1, <2>2
<1> QED BY <1>2, <1>3, <1>4, RememberedKept DEF RecordInv

(* The list that is dropped was all the memory. *)
LEMMA LapseKeepsRecord ==
    ASSUME RecordInv, Lapse
    PROVE  RecordInv'
<1>. /\ UNCHANGED <<setup, clock, rows, log, turn, sent>>
     /\ TurnTypeOK /\ SentIsRemembered /\ Forgetful /\ Forgetful'
  BY DEF Lapse, RecordInv, Forgetful
<1>1. TurnTypeOK' /\ IsFiniteSet(rows)' /\ Dates'
  <2>1. TurnNext
    BY DEF TurnNext
  <2> QED BY <2>1, Types, FiniteRows, DatesKept DEF RecordInv
<1>2. list' = <<>> /\ volatile' = FALSE
  BY DEF Lapse
<1>3. ASSUME NEW t \in Turns
      PROVE  TurnInv(t)'
  <2>. TurnInv(t)
    BY DEF RecordInv
  <2>1. Stage(t)' /\ Logged(t)'
    BY DEF TurnInv, Stage, Refused, Logged, Warning
  <2>2. Saved(t)'
    BY DEF TurnInv, Saved
  <2>3. Listed(t)'
    BY <1>2 DEF Listed, Forgetful
  <2> QED BY <2>1, <2>2, <2>3 DEF TurnInv
<1>4. SentIsRemembered'
  <2>1. Memory' = {}
    BY <1>2 DEF Memory, Forgetful
  <2>2. \A t \in Turns : \A m : Kept(t, m) <=> Kept(t, m)'
    BY DEF Kept
  <2> QED BY <2>1, <2>2 DEF SentIsRemembered
<1> QED BY <1>1, <1>2, <1>3, <1>4 DEF RecordInv

LEMMA StuttersKeepRecord ==
    ASSUME RecordInv, UNCHANGED turnVars
    PROVE  RecordInv'
<1>. UNCHANGED <<setup, clock, rows, list, volatile, log, turn, sent>>
  BY DEF turnVars
<1>1. TurnTypeOK' /\ IsFiniteSet(rows)'
  BY DEF RecordInv, TurnTypeOK
<1>2. Dates'
  BY DEF RecordInv, Dates, Started
<1>3. ASSUME NEW t \in Turns
      PROVE  TurnInv(t)'
  <2>. TurnInv(t)
    BY DEF RecordInv
  <2>1. Stage(t)' /\ Logged(t)'
    BY DEF TurnInv, Stage, Refused, Logged, Warning
  <2>2. Saved(t)'
    BY DEF TurnInv, Saved
  <2>3. Listed(t)'
    BY DEF TurnInv, Listed, Kept, Refused
  <2> QED BY <2>1, <2>2, <2>3 DEF TurnInv
<1>4. SentIsRemembered'
  <2>1. \A t \in Turns : \A m : Kept(t, m) <=> Kept(t, m)'
    BY DEF Kept
  <2>2. Memory' = Memory /\ (Forgetful' <=> Forgetful)
    BY DEF Memory, Forgetful
  <2> QED BY <2>1, <2>2 DEF RecordInv, SentIsRemembered
<1> QED BY <1>1, <1>2, <1>3, <1>4 DEF RecordInv, Forgetful

LEMMA RecordInvariant ==
    TurnSpec => []RecordInv
<1>1. RecordInv /\ [TurnNext]_turnVars => RecordInv'
  BY StepKeepsRecord, LapseKeepsRecord, StuttersKeepRecord DEF TurnNext, Step
<1> QED BY <1>1, InitRecord, PTL DEF TurnSpec

-----------------------------------------------------------------------------
(* What the record says. *)

(* What a turn, the memories, the log and the chat messages hold has its   *)
(* type throughout (ToolAgent.ts 165-335), for any number of turns and     *)
(* plans.                                                                  *)
THEOREM TurnTypeCorrect ==
    TurnSpec => []TurnTypeOK
<1>1. RecordInv => TurnTypeOK
  BY DEF RecordInv
<1> QED BY <1>1, RecordInvariant, PTL

(* A question that moderation or the judge refused is not sent to the      *)
(* model, by its own turn or, with an external memory, by another          *)
(* (ToolAgent.ts 196-217).                                                 *)
THEOREM RefusedStayOut ==
    TurnSpec => []RefusedStaysOut
<1>1. ASSUME RecordInv, NEW t \in Turns, Refused(t)
      PROVE  /\ sent[t] = <<>>
             /\ setup.memory = "external" =>
                   \A s \in Turns : \A i \in 1..Len(sent[s]) : ~ Contains(sent[s][i], Question(t))
  <2>1. sent[t] = <<>>
    BY <1>1 DEF RecordInv, TurnInv, Stage
  <2>2. ASSUME setup.memory = "external", NEW s \in Turns, NEW i \in 1..Len(sent[s]),
               Contains(sent[s][i], Question(t))
        PROVE  FALSE
    <3>1. Question(t) \in Elements(sent[s][i])
      BY <2>2 DEF Contains, Elements
    <3>2. Question(t).turn = t
      BY DEF Question
    <3>3. Kept(t, Question(t))
      BY <1>1, <2>2, <3>1, <3>2 DEF RecordInv, SentIsRemembered
    <3> QED BY <1>1, <3>3 DEF Kept, Refused
  <2> QED BY <2>1, <2>2
<1>2. RecordInv => RefusedStaysOut
  BY <1>1 DEF RefusedStaysOut
<1> QED BY <1>2, RecordInvariant, PTL

(* The transcript, an external memory and the log of a finished turn agree *)
(* with what the user was answered, also when turns overlap or fail, but   *)
(* for what Redis dropped and the entries whose write failed               *)
(* (ToolAgent.ts 294-332, buildChatflow.ts 668-750, auditLog.ts 39-54).    *)
THEOREM RecordsAgree ==
    TurnSpec => []AnswersOnRecord
<1>1. ASSUME RecordInv, NEW t \in Turns, turn[t].pc = "done"
      PROVE  LET said     == Answer(t, turn[t].result)
                 recorded == {row.message : row \in rows}
                 warned   == [type |-> "agent_output_validation", turn |-> t, valid |-> FALSE]
             IN  /\ {Question(t), said} \subseteq recorded
                 /\ \A m \in recorded \cup ToSet(list) : m.turn = t => m \in {Question(t), said}
                 /\ Refused(t) => \A m \in ToSet(list) : m.turn # t
                 /\ setup.memory = "external" /\ ~ Refused(t) =>
                       Forgetful \/ Question(t) \in ToSet(list)
                 /\ Contains(log, warned) => turn[t].result = "warned"
                 /\ turn[t].result = "warned" => setup.logFails \/ Contains(log, warned)
  <2> DEFINE said     == Answer(t, turn[t].result)
             recorded == {row.message : row \in rows}
             warned   == [type |-> "agent_output_validation", turn |-> t, valid |-> FALSE]
  <2>. TurnTypeOK /\ Saved(t) /\ Listed(t) /\ Logged(t)
    BY <1>1 DEF RecordInv, TurnInv
  <2>1. ToSet(list) = {list[i] : i \in 1..Len(list)}
    BY DEF ToSet, TurnTypeOK
  <2>2. Question(t) \in recorded /\ said \in recorded
    BY <1>1 DEF Saved, Dated
  <2>3. \A m \in recorded : m.turn = t => m \in {Question(t), said}
    BY <1>1 DEF Saved
  <2>4. \A m \in ToSet(list) : m.turn = t => m \in {Question(t), said} /\ ~ Refused(t)
    BY <2>1 DEF Listed, Kept, Refused
  <2>5. setup.memory = "external" /\ ~ Refused(t) => Forgetful \/ Question(t) \in ToSet(list)
    BY <1>1, <2>1 DEF Listed, Forgetful
  <2>6. /\ Contains(log, warned) => turn[t].result = "warned"
        /\ turn[t].result = "warned" => setup.logFails \/ Contains(log, warned)
    BY DEF Logged, Warning
  <2> QED BY <2>2, <2>3, <2>4, <2>5, <2>6
<1>2. RecordInv => AnswersOnRecord
  BY <1>1 DEF AnswersOnRecord
<1> QED BY <1>2, RecordInvariant, PTL

-----------------------------------------------------------------------------
(* Turns that do not overlap. *)

LEMMA FiniteStarted ==
    ASSUME TurnTypeOK, IsFiniteSet(Started), NEW t \in Turns, Step(t)
    PROVE  IsFiniteSet(Started)'
<1>1. Started' \subseteq Started \cup {t}
  BY Frame DEF Started
<1>2. IsFiniteSet(Started \cup {t})
  BY FS_AddElement
<1> QED BY <1>1, <1>2, FS_Subset

(* A turn begins when no other is live; else the live one is at work. *)
LEMMA WhoSteps ==
    ASSUME TurnTypeOK, IsFiniteSet(Started), AloneInv, setup.overlap = 0,
           NEW t \in Turns, Step(t)
    PROVE  /\ \A s \in Turns : turn[s].pc \in Live => s = t
           /\ Begin(t) \/ turn[t].pc \in Live
<1>1. ASSUME Begin(t), NEW s \in Turns, turn[s].pc \in Live
      PROVE  FALSE
  <2> DEFINE live == {r \in Turns : turn[r].pc \in Live}
  <2>1. live \in SUBSET Started
    BY DEF Started, Live
  <2>2. IsFiniteSet(live)
    BY <2>1, FS_Subset
  <2>3. Cardinality(live) \in Nat /\ Cardinality(live) <= 0
    BY <1>1, <2>2, FS_CardinalityType DEF Begin
  <2>4. live = {}
    BY <2>2, <2>3, FS_EmptySet
  <2> QED BY <1>1, <2>4
<1>2. ~ Begin(t) => turn[t].pc \in Live
  BY DEF Step, Moderate, CheckInput, Plan, CheckOutput, Store, StoreAnswer, Expire, SaveQuestion,
         SaveAnswer, Fails, Live
<1> QED BY <1>1, <1>2 DEF AloneInv, Single

LEMMA SameRecall ==
    ASSUME UNCHANGED <<setup, rows, list>>
    PROVE  Recall' = Recall
BY DEF Recall, Nth

LEMMA StepKeepsLatest ==
    ASSUME RecordInv, RecordInv', IsFiniteSet(Started), AloneInv, setup.overlap = 0,
           NEW t \in Turns, Step(t)
    PROVE  Single' /\ \A s \in Turns : Latest(s)'
<1>. TurnTypeOK /\ Dates /\ TurnTypeOK' /\ Dates'
  BY DEF RecordInv
<1>1. \A s \in Turns : turn[s].pc \in Live => s = t
  BY WhoSteps
<1>2. \A s \in Turns : s # t => turn'[s] = turn[s]
  BY Frame
<1>3. \A s \in Turns : turn'[s].pc \in Live => s = t
  BY <1>1, <1>2
<1>4. ASSUME turn'[t].pc \in Live
      PROVE  /\ \A s \in Turns : turn'[s].at <= turn'[t].at
             /\ \A row \in rows' : row.at <= turn'[t].at
  <2>1. CASE Begin(t)
    <3>1. rows' = rows /\ clock \in Nat /\ turn'[t].at = clock + 1
      BY <2>1, Moves DEF Begin, TurnTypeOK
    <3>2. \A s \in Turns : turn[s].at <= clock /\ turn[s].at \in Nat
      BY DEF Dates, TurnTypeOK
    <3>3. \A row \in rows : row.at <= clock /\ row.at \in Nat
      BY DEF Dates, TurnTypeOK
    <3> QED BY <3>1, <3>2, <3>3, <1>2
  <2>2. CASE turn[t].pc \in Live /\ ~ Begin(t)
    <3>1. /\ \A s \in Turns : turn[s].at <= turn[t].at
          /\ \A row \in rows : row.at <= turn[t].at
      BY <2>2 DEF AloneInv, Latest
    <3>2. turn'[t].at = turn[t].at
      <4>1. CheckOutput(t) \/ Refuse(t) \/ turn' = turn \/ \E place : Goto(t, place)
        BY <2>2, PushedGoes DEF Step, Moderate, CheckInput, Plan, Store, StoreAnswer, Expire,
                                SaveQuestion,
                    SaveAnswer, Fails
      <4> QED BY <4>1, Moves
    <3>3. rows' = rows \/ rows' = rows \cup {Dated(Question(t), turn[t].at)}
      <4>1. ~ SaveAnswer(t)
        BY <1>4, Moves DEF SaveAnswer, Live
      <4> QED BY <4>1 DEF Step, Begin, Moderate, CheckInput, Plan, CheckOutput, Store,
                          StoreAnswer, Expire, SaveQuestion, Fails
    <3>4. Dated(Question(t), turn[t].at).at = turn[t].at /\ turn[t].at \in Nat
      BY DEF Dated, TurnTypeOK
    <3> QED BY <1>2, <3>1, <3>2, <3>3, <3>4
  <2> QED BY <2>1, <2>2, WhoSteps
<1> QED BY <1>3, <1>4 DEF Single, Latest, Live

LEMMA StepKeepsRecalled ==
    ASSUME RecordInv, RecordInv', IsFiniteSet(Started), AloneInv, setup.overlap = 0,
           NEW t \in Turns, Step(t)
    PROVE  \A s \in Turns : Recalled(s)' /\ Asked(s)'
<1>. TurnTypeOK
  BY DEF RecordInv
<1>1. \A s \in Turns : turn[s].pc \in Live => s = t
  BY WhoSteps
<1>2. \A s \in Turns : s # t => turn'[s] = turn[s]
  BY Frame
<1>3. ASSUME NEW s \in Turns, s # t
      PROVE  Recalled(s)' /\ Asked(s)'
  BY <1>1, <1>2, <1>3 DEF Recalled, Asked, Live
<1>4. Recalled(t)'
  <2>1. CASE Plan(t)
    <3>1. UNCHANGED <<setup, rows, list>>
      BY <2>1 DEF Plan
    <3>2. Recall' = Recall
      BY <3>1, SameRecall
    <3>3. sent'[t][Len(sent'[t])] = Recall
      BY <2>1, Sends
    <3> QED BY <3>2, <3>3 DEF Recalled
  <2>2. CASE ~ Plan(t) /\ turn'[t].pc = "planning"
    <3>1. CheckInput(t)
      BY <2>2, Moves, PushedGoes DEF Step, Moderate, Store, StoreAnswer, Expire, SaveQuestion,
                                     SaveAnswer, Fails
    <3>2. sent'[t] = <<>>
      BY <3>1 DEF CheckInput, RecordInv, TurnInv, Stage
    <3> QED BY <3>2 DEF Recalled
  <2> QED BY <2>1, <2>2 DEF Recalled
<1>5. Asked(t)'
  <2>1. CASE turn'[t].pc \in {"expiring", "storing2"} /\ Store(t)
    <3>1. list' = Append(list, Question(t))
      <4>1. ~ Goto(t, "question")
        BY <2>1, Moves
      <4> QED BY <2>1, <4>1 DEF Store
    <3>2. list \in Seq(Messages)
      BY DEF TurnTypeOK
    <3>3. Len(list') = Len(list) + 1 /\ Len(list) \in Nat /\ list'[Len(list) + 1] = Question(t)
      BY <3>1, <3>2, Appended
    <3>4. list' # <<>>
      BY <3>3
    <3> QED BY <3>3, <3>4 DEF Asked
  <2>2. CASE turn'[t].pc \in {"expiring", "storing2"} /\ ~ Store(t)
    <3>1. turn[t].pc = "expiring" /\ list' = list
      BY <2>2, Moves, PushedGoes DEF Step, Moderate, CheckInput, Plan, StoreAnswer, Expire,
                                     SaveQuestion, SaveAnswer, Fails
    <3>2. setup' = setup
      BY Frame
    <3> QED BY <3>1, <3>2 DEF AloneInv, Asked, Forgetful
  <2> QED BY <2>1, <2>2 DEF Asked
<1> QED BY <1>3, <1>4, <1>5

LEMMA StepKeepsRows ==
    ASSUME RecordInv, RecordInv', IsFiniteSet(Started), AloneInv, setup.overlap = 0,
           NEW t \in Turns, Step(t)
    PROVE  RowsPaired'
<1>. TurnTypeOK /\ Dates /\ RowsPaired /\ \A s \in Turns : Saved(s)
  BY DEF RecordInv, TurnInv, AloneInv
<1>1. \A row \in rows : row.message.turn \in Turns /\ row.at \in Nat /\ row.at <= clock
  BY MessageParts DEF TurnTypeOK, Dates
<1>2. \A s \in Turns : turn[s].at \in Nat
  BY DEF TurnTypeOK
<1>3. \A b \in rows : turn'[b.message.turn].at = turn[b.message.turn].at
  <2>1. CASE Begin(t)
    <3>1. turn[t].pc = "idle"
      BY <2>1 DEF Begin
    <3>2. \A b \in rows : b.message.turn # t
      BY <3>1 DEF Saved
    <3> QED BY <1>1, <3>2, Frame
  <2>2. CASE ~ Begin(t)
    <3>1. CheckOutput(t) \/ Refuse(t) \/ turn' = turn \/ \E place : Goto(t, place)
      BY <2>2, PushedGoes DEF Step, Moderate, CheckInput, Plan, Store, StoreAnswer, Expire,
                              SaveQuestion,
                  SaveAnswer, Fails
    <3>2. turn'[t].at = turn[t].at
      BY <3>1, Moves
    <3> QED BY <1>1, <3>2, Frame
  <2> QED BY <2>1, <2>2
<1>4. CASE rows' = rows
  BY <1>3, <1>4 DEF RowsPaired
<1>5. CASE SaveQuestion(t)
  <2> DEFINE new == Dated(Question(t), turn[t].at)
  <2>1. rows' = rows \cup {new} /\ turn[t].pc \in Live
    BY <1>5 DEF SaveQuestion, Live
  <2>2. new.at = turn[t].at /\ new.message.role = "userMessage"
    BY DEF Dated, Question
  <2>3. \A b \in rows : b.at <= new.at
    BY <2>1, <2>2 DEF AloneInv, Latest
  <2> HIDE DEF new
  <2> QED BY <1>1, <1>2, <1>3, <2>1, <2>2, <2>3 DEF RowsPaired
<1>6. CASE SaveAnswer(t)
  <2> DEFINE new == Dated(Answer(t, turn[t].result), clock + 1)
  <2>1. rows' = rows \cup {new} /\ turn[t].pc \in Live
    BY <1>6 DEF SaveAnswer, Live
  <2>2. new.at = clock + 1 /\ new.message.turn = t /\ clock \in Nat
    BY DEF Dated, Answer, TurnTypeOK
  <2>3. \A b \in rows : b.at <= turn[t].at /\ b.at <= new.at
    BY <1>1, <2>1, <2>2 DEF AloneInv, Latest
  <2>4. turn'[t].at = turn[t].at
    BY <1>6, Moves DEF SaveAnswer
  <2>5. new.at >= new.at
    BY <2>2
  <2> HIDE DEF new
  <2> QED BY <1>1, <1>2, <1>3, <2>1, <2>2, <2>3, <2>4, <2>5 DEF RowsPaired
<1>7. rows' = rows \/ SaveQuestion(t) \/ SaveAnswer(t)
  BY DEF Step, Begin, Moderate, CheckInput, Plan, CheckOutput, Store, StoreAnswer, Expire, Fails
<1> QED BY <1>4, <1>5, <1>6, <1>7

LEMMA StepKeepsList ==
    ASSUME RecordInv, RecordInv', IsFiniteSet(Started), AloneInv, setup.overlap = 0,
           NEW t \in Turns, Step(t)
    PROVE  ListPaired'
<1>. TurnTypeOK /\ ListPaired /\ \A s \in Turns : Listed(s)
  BY DEF RecordInv, TurnInv, AloneInv
<1>0. Forgetful' <=> Forgetful
  BY Frame DEF Forgetful
<1>1. list \in Seq(Messages) /\ Len(list) \in Nat
      /\ \A i \in 1..Len(list) : list[i].turn \in Turns
  BY MessageParts DEF TurnTypeOK
<1>2. \A s \in Turns : turn[s].at \in Nat
  BY DEF TurnTypeOK
<1>3. \A i \in 1..Len(list) : turn'[list[i].turn].at = turn[list[i].turn].at
  <2>1. CASE Begin(t)
    <3>1. turn[t].pc = "idle"
      BY <2>1 DEF Begin
    <3>2. \A i \in 1..Len(list) : list[i].turn # t
      BY <3>1 DEF Listed, Kept
    <3> QED BY <1>1, <3>2, Frame
  <2>2. CASE ~ Begin(t)
    <3>1. CheckOutput(t) \/ Refuse(t) \/ turn' = turn \/ \E place : Goto(t, place)
      BY <2>2, PushedGoes DEF Step, Moderate, CheckInput, Plan, Store, StoreAnswer, Expire,
                              SaveQuestion,
                  SaveAnswer, Fails
    <3>2. turn'[t].at = turn[t].at
      BY <3>1, Moves
    <3> QED BY <1>1, <3>2, Frame
  <2> QED BY <2>1, <2>2
<1>4. CASE list' = list
  BY <1>0, <1>1, <1>3, <1>4 DEF ListPaired
<1>5. ASSUME NEW m, list' = Append(list, m), m.turn = t, turn[t].pc \in Live,
             turn'[t].at = turn[t].at,
             m.role = "apiMessage" =>
                \/ list # <<>> /\ list[Len(list)] = Question(t)
                \/ list = <<>> /\ Forgetful
      PROVE  ListPaired'
  <2>1. /\ Len(list') = Len(list) + 1 /\ list'[Len(list) + 1] = m
        /\ \A i \in 1..Len(list) : list'[i] = list[i]
        /\ \A i \in 1..Len(list') : i = Len(list) + 1 \/ i \in 1..Len(list)
    BY <1>1, <1>5, Appended
  <2>2. \A j \in 1..Len(list) : turn[list[j].turn].at <= turn[t].at
    BY <1>1, <1>5 DEF AloneInv, Latest
  <2>3. ASSUME NEW i \in 1..Len(list)
        PROVE  /\ list'[i].role = "apiMessage" =>
                     \/ i > 1 /\ list'[i - 1] = Question(list'[i].turn)
                     \/ i = 1 /\ Forgetful
               /\ \A j \in 1..(i - 1) : turn'[list'[j].turn].at <= turn'[list'[i].turn].at
    <3>1. list'[i] = list[i] /\ \A j \in 1..(i - 1) : list'[j] = list[j] /\ j \in 1..Len(list)
      BY <1>1, <2>1
    <3>2. i > 1 => list'[i - 1] = list[i - 1]
      BY <1>1, <3>1
    <3> QED BY <1>1, <1>3, <3>1, <3>2 DEF ListPaired
  <2>4. m.role = "apiMessage" =>
           \/ Len(list) + 1 > 1 /\ list'[(Len(list) + 1) - 1] = Question(m.turn)
           \/ Len(list) + 1 = 1 /\ Forgetful
    <3>1. CASE m.role = "apiMessage" /\ list # <<>>
      <4>1. Len(list) >= 1 /\ (Len(list) + 1) - 1 = Len(list)
        BY <1>1, <3>1
      <4> QED BY <1>1, <1>5, <2>1, <3>1, <4>1
    <3>2. CASE m.role = "apiMessage" /\ list = <<>>
      BY <1>5, <3>2
    <3> QED BY <3>1, <3>2
  <2>5. \A j \in 1..((Len(list) + 1) - 1) : turn'[list'[j].turn].at <= turn'[m.turn].at
    BY <1>1, <1>3, <1>5, <2>1, <2>2
  <2> QED BY <1>1, <1>0, <2>1, <2>3, <2>4, <2>5 DEF ListPaired
<1>6. CASE Store(t) /\ list' # list
  <2>1. list' = Append(list, Question(t)) /\ turn[t].pc \in Live /\ turn'[t].at = turn[t].at
    BY <1>6, Moves, PushedGoes DEF Store, Live
  <2>2. Question(t).turn = t /\ Question(t).role # "apiMessage"
    BY DEF Question
  <2> QED BY <1>5, <2>1, <2>2
<1>7. CASE StoreAnswer(t)
  <2>1. list' = Append(list, Answer(t, turn[t].result)) /\ turn[t].pc \in Live
        /\ turn'[t].at = turn[t].at /\ turn[t].pc = "storing2"
    BY <1>7, Moves, PushedGoes DEF StoreAnswer, StoredAnswer, Live
  <2>2. Answer(t, turn[t].result).turn = t
    BY DEF Answer
  <2>3. \/ list # <<>> /\ list[Len(list)] = Question(t)
        \/ list = <<>> /\ Forgetful
    BY <2>1 DEF AloneInv, Asked
  <2> QED BY <1>5, <2>1, <2>2, <2>3
<1>8. list' = list \/ Store(t) \/ StoreAnswer(t)
  BY DEF Step, Begin, Moderate, CheckInput, Plan, CheckOutput, Expire, SaveQuestion, SaveAnswer,
         Fails
<1> QED BY <1>4, <1>6, <1>7, <1>8

LEMMA StepKeepsGrowth ==
    ASSUME SessionInv, NEW t \in Turns, Step(t)
    PROVE  RecallGrows'
<1>. TurnTypeOK /\ RecallGrows /\ RecordInv /\ AloneInv
  BY DEF SessionInv, RecordInv
<1>1. \A s \in Turns : \A i \in 2..Len(sent[s]) :
          i \in 1..Len(sent[s]) /\ i - 1 \in 1..Len(sent[s])
  BY DEF TurnTypeOK
<1>2. setup' = setup /\ \A s \in Turns : s # t => sent'[s] = sent[s]
  BY Frame
<1> DEFINE Grown(before, now) ==
              /\ \/ ToSet(before) \subseteq ToSet(now)
                 \/ Forgetful /\ ToSet(before) \cap ToSet(now) = {}
              /\ setup.overlap = 0 => now = before \/ (Forgetful /\ now = <<>>)
<1> SUFFICES ASSUME NEW s \in Turns, NEW i \in 2..Len(sent'[s])
             PROVE  Grown(sent'[s][i - 1], sent'[s][i])
  BY <1>2 DEF RecallGrows, Forgetful
<1>3. ASSUME NEW k \in 2..Len(sent[s])
      PROVE  Grown(sent[s][k - 1], sent[s][k])
  BY DEF RecallGrows
<1> HIDE DEF Grown
<1>4. CASE s # t \/ ~ Plan(t)
  <2>1. sent'[s] = sent[s]
    BY <1>2, <1>4, Sends
  <2> QED BY <1>3, <2>1
<1>5. CASE s = t /\ Plan(t)
  <2>1. /\ Recall \in Seq(Messages) /\ Elements(Recall) = Memory
        /\ Len(sent'[t]) = Len(sent[t]) + 1 /\ Len(sent[t]) \in Nat
        /\ sent'[t][Len(sent[t]) + 1] = Recall
        /\ \A k \in 1..Len(sent[t]) : sent'[t][k] = sent[t][k]
    BY <1>5, Sends
  <2>2. CASE i \in 2..Len(sent[t])
    <3>1. sent'[t][i] = sent[t][i] /\ sent'[t][i - 1] = sent[t][i - 1]
      BY <1>1, <2>1, <2>2
    <3> QED BY <1>3, <1>5, <2>2, <3>1
  <2>3. CASE i = Len(sent[t]) + 1
    <3> DEFINE before == sent[t][Len(sent[t])]
    <3>1. i - 1 = Len(sent[t]) /\ Len(sent[t]) \in 1..Len(sent[t]) /\ sent[t] # <<>>
      BY <2>1, <2>3
    <3>2. sent'[t][i] = Recall /\ sent'[t][i - 1] = before
      BY <2>1, <2>3, <3>1
    <3>3. before \in Seq(Messages) /\ \A m \in Seq(Messages) : ToSet(m) = Elements(m)
      BY <3>1 DEF TurnTypeOK, ToSet, Elements
    <3>4. \/ Elements(before) \subseteq Memory
          \/ Forgetful /\ Elements(before) \cap Memory = {}
      BY <3>1 DEF RecordInv, SentIsRemembered
    <3>5. setup.overlap = 0 => before = Recall \/ (Forgetful /\ Recall = <<>>)
      BY <1>5, <3>1 DEF AloneInv, Recalled, Plan
    <3> HIDE DEF before
    <3>6. ToSet(before) = Elements(before) /\ ToSet(Recall) = Memory
      BY <2>1, <3>3
    <3> QED BY <1>5, <3>2, <3>4, <3>5, <3>6 DEF Grown
  <2>4. i \in 2..Len(sent[t]) \/ i = Len(sent[t]) + 1
    BY <1>5, <2>1
  <2> QED BY <2>2, <2>3, <2>4
<1> QED BY <1>4, <1>5

LEMMA InitSession ==
    ASSUME TurnInit
    PROVE  SessionInv
<1>1. RecordInv
  BY InitRecord
<1>2. Started = {}
  BY DEF TurnInit, Started
<1>3. AloneInv
  BY DEF TurnInit, AloneInv, Single, Latest, Recalled, Asked, RowsPaired, ListPaired, Live
<1>4. RecallGrows
  BY DEF TurnInit, RecallGrows
<1> QED BY <1>1, <1>2, <1>3, <1>4, FS_EmptySet DEF SessionInv

LEMMA StepKeepsSession ==
    ASSUME SessionInv, NEW t \in Turns, Step(t)
    PROVE  SessionInv'
<1>. RecordInv /\ AloneInv /\ IsFiniteSet(Started) /\ TurnTypeOK
  BY DEF SessionInv, RecordInv
<1>1. RecordInv'
  BY StepKeepsRecord
<1>2. IsFiniteSet(Started)'
  BY FiniteStarted
<1>3. setup' = setup
  BY Frame
<1>4. AloneInv'
  BY <1>1, <1>3, StepKeepsLatest, StepKeepsRecalled, StepKeepsRows, StepKeepsList DEF AloneInv
<1> QED BY <1>1, <1>2, <1>4, StepKeepsGrowth DEF SessionInv

LEMMA LapseKeepsSession ==
    ASSUME SessionInv, Lapse
    PROVE  SessionInv'
<1>. /\ UNCHANGED <<setup, clock, rows, log, turn, sent>> /\ list' = <<>>
     /\ RecordInv /\ AloneInv /\ Forgetful /\ Forgetful'
  BY DEF Lapse, SessionInv, RecordInv, Forgetful
<1>1. RecordInv'
  BY LapseKeepsRecord
<1>2. IsFiniteSet(Started)' /\ RecallGrows'
  BY DEF SessionInv, Started, RecallGrows, Forgetful
<1>3. AloneInv'
  <2>1. Single' /\ RowsPaired' <=> Single /\ RowsPaired
    BY DEF Single, RowsPaired
  <2>2. \A t \in Turns : Latest(t)' <=> Latest(t)
    BY DEF Latest
  <2>3. Recall' = <<>>
    BY DEF Recall, Forgetful
  <2>4. ListPaired' /\ \A t \in Turns : Recalled(t)' /\ Asked(t)'
    BY <2>3 DEF ListPaired, Recalled, Asked
  <2> QED BY <2>1, <2>2, <2>4 DEF AloneInv
<1> QED BY <1>1, <1>2, <1>3 DEF SessionInv

LEMMA StuttersKeepSession ==
    ASSUME SessionInv, UNCHANGED turnVars
    PROVE  SessionInv'
<1>. UNCHANGED <<setup, clock, rows, list, volatile, log, turn, sent>>
  BY DEF turnVars
<1>1. RecordInv'
  BY StuttersKeepRecord DEF SessionInv
<1>2. IsFiniteSet(Started)' /\ RecallGrows'
  BY DEF SessionInv, Started, RecallGrows, Forgetful
<1>3. Single' /\ RowsPaired' /\ ListPaired' <=> Single /\ RowsPaired /\ ListPaired
  BY DEF Single, RowsPaired, ListPaired, Forgetful
<1>4. \A t \in Turns : Latest(t)' /\ Recalled(t)' /\ Asked(t)'
                          <=> Latest(t) /\ Recalled(t) /\ Asked(t)
  BY SameRecall DEF Latest, Recalled, Asked, Forgetful
<1>5. AloneInv'
  BY <1>3, <1>4 DEF SessionInv, AloneInv
<1> QED BY <1>1, <1>2, <1>5 DEF SessionInv

LEMMA SessionInvariant ==
    TurnSpec => []SessionInv
<1>1. SessionInv /\ [TurnNext]_turnVars => SessionInv'
  BY StepKeepsSession, LapseKeepsSession, StuttersKeepSession DEF TurnNext, Step
<1> QED BY <1>1, InitSession, PTL DEF TurnSpec

-----------------------------------------------------------------------------
(* What plans remember. *)

(* A plan recalls all that the plans of its turn before it did, and no     *)
(* more when turns do not overlap; or nothing of it, when Redis dropped    *)
(* the list: what is dropped does not come back (ToolAgent.ts 442,         *)
(* BufferMemory.ts 97-132, RedisBackedChatMemory.ts 184, 191).             *)
THEOREM MemoryGrows ==
    TurnSpec => []RecallGrows
<1>1. SessionInv => RecallGrows
  BY DEF SessionInv
<1> QED BY <1>1, SessionInvariant, PTL

(* The chat messages, by their dates, are a conversation. *)
LEMMA RowsConverse ==
    ASSUME SessionInv, setup.overlap = 0, NEW i \in 1..Cardinality(rows)
    PROVE  LET b == Nth(i)
           IN  /\ b.message.role = "apiMessage" =>
                     i > 1 /\ Nth(i - 1).message = Question(b.message.turn)
               /\ \A j \in 1..(i - 1) : turn[Nth(j).message.turn].at <= turn[b.message.turn].at
<1> DEFINE n == Cardinality(rows)
           b == Nth(i)
<1>. TurnTypeOK /\ Dates /\ RowsPaired /\ \A s \in Turns : Saved(s)
  BY DEF SessionInv, RecordInv, TurnInv, AloneInv
<1>1. /\ n \in Nat
      /\ \A k \in 1..n : Nth(k) \in rows
      /\ \A j, k \in 1..n : j < k => Nth(j).at < Nth(k).at
      /\ \A a \in rows : \E k \in 1..n : Nth(k) = a
  BY Sorted DEF SessionInv, RecordInv, Dates
<1>2. \A row \in rows : /\ row.at \in Nat /\ row.message.turn \in Turns
                        /\ turn[row.message.turn].at \in Nat
                        /\ row.message.role \in {"userMessage", "apiMessage"}
                        /\ row.message.role = "userMessage" => row.at = turn[row.message.turn].at
                        /\ row.message.role = "apiMessage" => row.at > turn[row.message.turn].at
  BY MessageParts DEF TurnTypeOK, Dates
<1>3. b \in rows
  BY <1>1
<1> HIDE DEF b, n
<1>4. ASSUME b.message.role = "apiMessage"
      PROVE  i > 1 /\ Nth(i - 1).message = Question(b.message.turn)
  <2> DEFINE t == b.message.turn
             q == Dated(Question(t), turn[t].at)
  <2>1. q \in rows /\ t \in Turns
    <3>1. b.message # Question(t)
      BY <1>4 DEF Question
    <3> QED BY <1>2, <1>3, <3>1 DEF Saved
  <2>2. q.at = turn[t].at /\ q.message = Question(t)
    BY DEF Dated
  <2> HIDE DEF q
  <2>3. PICK k \in 1..n : Nth(k) = q
    BY <1>1, <2>1
  <2>4. q.at < b.at
    BY <1>2, <1>3, <1>4, <2>2
  <2>5. k < i
    <3>1. ~ (i < k) /\ i # k
      BY <1>1, <1>2, <1>3, <2>1, <2>3, <2>4 DEF b, n
    <3> QED BY <1>1, <3>1 DEF n
  <2>6. i - 1 \in 1..n /\ i > 1
    BY <1>1, <2>5 DEF n
  <2>7. ~ (k < i - 1)
    <3> SUFFICES ASSUME k < i - 1 PROVE FALSE
      OBVIOUS
    <3>1. q.at < Nth(i - 1).at /\ Nth(i - 1).at < b.at /\ Nth(i - 1) \in rows
      BY <1>1, <2>3, <2>6 DEF b, n
    <3>2. Nth(i - 1).at <= turn[t].at \/ Nth(i - 1).at >= b.at
      BY <1>3, <1>4, <3>1 DEF RowsPaired
    <3> QED BY <1>2, <1>3, <2>1, <2>2, <3>1, <3>2
  <2>8. k = i - 1
    BY <1>1, <2>5, <2>6, <2>7 DEF n
  <2> QED BY <2>2, <2>3, <2>6, <2>8
<1>5. ASSUME NEW j \in 1..(i - 1)
      PROVE  turn[Nth(j).message.turn].at <= turn[b.message.turn].at
  <2> DEFINE a == Nth(j)
  <2>1. j \in 1..n /\ j < i
    BY <1>1 DEF n
  <2>2. a \in rows /\ a.at < b.at
    BY <1>1, <2>1 DEF b, n
  <2> HIDE DEF a
  <2>3. turn[a.message.turn].at <= a.at
    BY <1>2, <2>2
  <2>4. CASE b.message.role = "userMessage"
    BY <1>2, <1>3, <2>2, <2>3, <2>4 DEF a
  <2>5. CASE b.message.role = "apiMessage"
    <3>1. a.at <= turn[b.message.turn].at \/ a.at >= b.at
      BY <1>3, <2>2, <2>5 DEF RowsPaired
    <3> QED BY <1>2, <1>3, <2>2, <2>3, <3>1 DEF a
  <2> QED BY <1>2, <1>3, <2>4, <2>5
<1> QED BY <1>4, <1>5 DEF b

(* While turns do not overlap, what the session remembers is a             *)
(* conversation, with either memory; only its first message may be an      *)
(* answer alone, whose question Redis dropped (RedisBackedChatMemory.ts    *)
(* 174-194, buildChatflow.ts 255, 676).                                    *)
THEOREM SessionIsConversation ==
    TurnSpec => []Conversation
<1>1. ASSUME SessionInv, setup.overlap = 0, NEW i \in 1..Len(Recall)
      PROVE  /\ Recall[i].role = "apiMessage" =>
                   \/ i > 1 /\ Recall[i - 1] = Question(Recall[i].turn)
                   \/ i = 1 /\ Forgetful
             /\ \A j \in 1..(i - 1) : turn[Recall[j].turn].at <= turn[Recall[i].turn].at
  <2>1. CASE setup.memory = "database"
    <3>1. Cardinality(rows) \in Nat
      BY <1>1, Sorted DEF SessionInv, RecordInv, Dates
    <3>2. /\ Len(Recall) = Cardinality(rows)
          /\ \A k \in 1..Cardinality(rows) : Recall[k] = Nth(k).message
      BY <2>1, <3>1 DEF Recall
    <3>3. i \in 1..Cardinality(rows) /\ \A j \in 1..(i - 1) : j \in 1..Cardinality(rows)
      BY <1>1, <3>1, <3>2
    <3>4. i > 1 => i - 1 \in 1..Cardinality(rows)
      BY <3>1, <3>3
    <3> QED BY <1>1, <3>2, <3>3, <3>4, RowsConverse
  <2>2. CASE setup.memory # "database"
    <3>1. Recall = list
      BY <2>2 DEF Recall
    <3> QED BY <1>1, <3>1 DEF SessionInv, AloneInv, ListPaired
  <2> QED BY <2>1, <2>2
<1>2. SessionInv => Conversation
  BY <1>1 DEF Conversation
<1> QED BY <1>2, SessionInvariant, PTL
=============================================================================
