--------------------------- MODULE AgentNodeProofs ---------------------------
(***************************************************************************)
(* What the agent node guarantees for any number of requests, tools, calls *)
(* in an answer and rounds, overlapping requests included: no tool that    *)
(* requires a human is called before a human has said "proceed", a run     *)
(* that was told "reject" calls none of the rejected tools, and a          *)
(* "proceed" is honoured.  For requests that do not overlap: every call of *)
(* the model is made once at most, and what was rejected never.  And the   *)
(* conversation a model is asked with is well formed.                      *)
(***************************************************************************)
EXTENDS AgentNode, SequenceTheorems, TLAPS

(* The answers in a conversation are answers the model gave. *)
Sound(messages) ==
    \A i \in 1..Len(messages) :
        messages[i].role = "assistant" => messages[i].round \in 1..Len(answers)

Idle(r) == \A j \in 1..Len(ran) : ran[j].by # r   \* it has made no call

(* None of the first n calls of answer k is of a tool in that set. *)
Without(k, n, tools) ==
    \A i \in 1..Len(answers[k]) : i <= n => answers[k][i] \notin tools

Bookkeeping(r) ==
    /\ Sound(run[r].messages)
    /\ run[r].pc = "idle" => run[r].level = 0
    /\ run[r].pc = "claiming" =>
          /\ run[r].messages # <<>> /\ run[r].level = 0
          /\ run[r].next = 1 /\ run[r].mode # "fresh"
    /\ run[r].pc \in {"idle", "claiming"} => Idle(r)
    /\ run[r].pc = "calls" => run[r].round \in 1..Len(answers) /\ run[r].next # 0
    /\ run[r].pc = "calls" /\ run[r].level # 0 => run[r].messages # <<>>

(* A run that resumed with "proceed" handles the answer it is about. *)
Proceeding(r) ==
    run[r].mode = "proceed" /\ run[r].pc = "calls" /\ run[r].level = 0 =>
        <<run[r].round, "proceed">> \in decisions

(* A run that resumed with "reject" takes the tools of the rejected answer *)
(* away, call by call, and has called nothing until it has done so.        *)
Rejecting(r) ==
    run[r].mode = "reject" =>
        /\ run[r].level = 0 => Idle(r)
        /\ run[r].level = 0 /\ run[r].pc = "calls" =>
              /\ run[r].round = run[r].resumed
              /\ Without(run[r].resumed, run[r].next - 1, run[r].tools)
        /\ run[r].level # 0 \/ run[r].pc = "model" =>
              /\ run[r].resumed \in 1..Len(answers)
              /\ Without(run[r].resumed, Len(answers[run[r].resumed]), run[r].tools)

RunInv(r) == Bookkeeping(r) /\ Proceeding(r) /\ Rejecting(r)

(* The calls that were made are calls the model asked for. *)
CallsExist ==
    \A j \in 1..Len(ran) : /\ ran[j].round \in 1..Len(answers)
                           /\ ran[j].pos \in 1..Len(answers[ran[j].round])

NodeInv ==
    /\ NodeTypeOK
    /\ Sound(execution.messages)
    /\ execution.state = "STOPPED" => execution.messages # <<>>
    /\ CallsExist
    /\ \A r \in Runs : RunInv(r)
    /\ HumanFirst
    /\ RejectedToolsGone

-----------------------------------------------------------------------------
(* What every step but the begin of time does to the history. *)
Grows ==
    /\ UNCHANGED agent
    /\ decisions \subseteq decisions'
    /\ answers' \in Seq(Seq(Names)) /\ Len(answers) <= Len(answers')
    /\ \A k \in 1..Len(answers) : answers'[k] = answers[k]

LEMMA Still ==
    ASSUME NodeTypeOK, UNCHANGED <<agent, answers>>, decisions \subseteq decisions'
    PROVE  Grows
BY DEF NodeTypeOK, Grows

LEMMA Elements ==
    ASSUME NEW S, NEW s \in Seq(S), NEW j \in 1..Len(s)
    PROVE  s[j] \in S
OBVIOUS

(* All but the last message.                                              *)
LEMMA FrontParts ==
    ASSUME NEW messages \in Seq(Messages)
    PROVE  messages # <<>> =>
              /\ Front(messages) \in Seq(Messages)
              /\ Len(messages) \in Nat \ {0} /\ Len(Front(messages)) = Len(messages) - 1
              /\ \A i \in 1..(Len(messages) - 1) : Front(messages)[i] = messages[i]
              /\ Last(messages) = messages[Len(messages)]
<1>1. ASSUME NEW n \in Nat, n <= Len(messages)
      PROVE  /\ SubSeq(messages, 1, n) \in Seq(Messages)
             /\ Len(SubSeq(messages, 1, n)) = n
             /\ \A i \in 1..n : SubSeq(messages, 1, n)[i] = messages[i]
  BY <1>1
<1>2. messages # <<>> => Len(messages) \in Nat \ {0}
  OBVIOUS
<1>3. messages # <<>> => Len(messages) - 1 \in Nat /\ Len(messages) - 1 <= Len(messages)
  BY <1>2
<1> QED BY <1>1, <1>2, <1>3 DEF Front, Last

(* The parts of a conversation that is sound are sound. *)
LEMMA SoundParts ==
    ASSUME NodeTypeOK, NEW messages \in Seq(Messages), Sound(messages)
    PROVE  /\ Sound(Front(messages)) /\ Front(messages) \in Seq(Messages)
           /\ \A m \in Messages :
                 (m.role = "assistant" => m.round \in 1..Len(answers)) =>
                    /\ Sound(Append(messages, m)) /\ Append(messages, m) \in Seq(Messages)
                    /\ Append(messages, m) # <<>>
<1>1. Sound(Front(messages)) /\ Front(messages) \in Seq(Messages)
  <2>1. CASE messages = <<>>
    <3>1. Front(messages) = <<>>
      BY <2>1 DEF Front
    <3> QED
      BY <2>1, <3>1 DEF Sound
  <2>2. CASE messages # <<>>
    <3>1. /\ Front(messages) \in Seq(Messages) /\ Len(messages) \in Nat \ {0}
          /\ Len(Front(messages)) = Len(messages) - 1
          /\ \A i \in 1..(Len(messages) - 1) : Front(messages)[i] = messages[i]
      BY <2>2, FrontParts
    <3> QED
      BY <3>1 DEF Sound
  <2> QED
    BY <2>1, <2>2
<1>2. ASSUME NEW m \in Messages, m.role = "assistant" => m.round \in 1..Len(answers)
      PROVE  /\ Sound(Append(messages, m)) /\ Append(messages, m) \in Seq(Messages)
             /\ Append(messages, m) # <<>>
  BY <1>2 DEF Sound
<1> QED
  BY <1>1, <1>2

LEMMA SoundStays ==
    ASSUME NodeTypeOK, Grows, NEW messages \in Seq(Messages), Sound(messages)
    PROVE  \A i \in 1..Len(messages) :
              messages[i].role = "assistant" => messages[i].round \in 1..Len(answers')
<1>1. Len(answers) \in Nat /\ Len(answers') \in Nat /\ Len(answers) <= Len(answers')
  BY DEF Grows, NodeTypeOK
<1>2. 1..Len(answers) \subseteq 1..Len(answers')
  BY <1>1
<1> QED
  BY <1>2 DEF Sound

(* A run that a step leaves alone. *)
LEMMA RunInvStays ==
    ASSUME NodeTypeOK, Grows, NEW d \in Runs, RunInv(d), run'[d] = run[d],
           Idle(d) => Idle(d)'
    PROVE  RunInv(d)'
<1>1. /\ run[d].messages \in Seq(Messages)
      /\ Len(answers) \in Nat /\ Len(answers') \in Nat /\ Len(answers) <= Len(answers')
      /\ 1..Len(answers) \subseteq 1..Len(answers')
  BY DEF NodeTypeOK, Grows
<1>2. Sound(run[d].messages)'
  <2>1. \A i \in 1..Len(run[d].messages) : run[d].messages[i].role = "assistant" =>
            run[d].messages[i].round \in 1..Len(answers')
    BY <1>1, SoundStays DEF RunInv, Bookkeeping
  <2> QED
    BY <2>1 DEF Sound
<1>3. Bookkeeping(d)'
  BY <1>1, <1>2 DEF RunInv, Bookkeeping
<1>4. Proceeding(d)'
  BY DEF RunInv, Proceeding, Grows
<1>5. Rejecting(d)'
  <2>1. ASSUME run[d].mode = "reject", run[d].level = 0, run[d].pc = "calls"
        PROVE  Without(run[d].resumed, run[d].next - 1, run[d].tools)'
    <3>1. run[d].resumed \in 1..Len(answers)
      BY <2>1 DEF RunInv, Bookkeeping, Rejecting
    <3> QED
      BY <2>1, <3>1 DEF RunInv, Rejecting, Without, Grows
  <2>2. ASSUME run[d].mode = "reject", run[d].level # 0 \/ run[d].pc = "model"
        PROVE  /\ run[d].resumed \in 1..Len(answers')
               /\ Without(run[d].resumed, Len(answers[run[d].resumed]), run[d].tools)'
    <3>1. run[d].resumed \in 1..Len(answers)
      BY <2>2 DEF RunInv, Rejecting
    <3> QED
      BY <1>1, <2>2, <3>1 DEF RunInv, Rejecting, Without, Grows
  <2> QED
    BY <2>1, <2>2 DEF RunInv, Rejecting
<1> QED
  BY <1>3, <1>4, <1>5 DEF RunInv

(* What was called, asked and decided stays so. *)
LEMMA CallsStay ==
    ASSUME NodeTypeOK, CallsExist, Grows, UNCHANGED ran
    PROVE  /\ CallsExist'
           /\ HumanFirst => HumanFirst'
<1>1. \A j \in 1..Len(ran) : /\ ran[j].round \in 1..Len(answers)
                             /\ ran[j].round \in 1..Len(answers')
                             /\ answers'[ran[j].round] = answers[ran[j].round]
  <2>1. Len(answers) \in Nat /\ Len(answers') \in Nat /\ Len(answers) <= Len(answers')
    BY DEF NodeTypeOK, Grows
  <2> QED
    BY <2>1 DEF CallsExist, Grows
<1>2. CallsExist'
  BY <1>1 DEF CallsExist
<1>3. ASSUME HumanFirst PROVE HumanFirst'
  <2>1. SUFFICES ASSUME NEW call \in Made, Guarded(NameOf(call))'
                 PROVE  <<call[1], "proceed">> \in decisions'
    BY DEF HumanFirst, Made
  <2>2. PICK j \in 1..Len(ran) : call = <<ran[j].round, ran[j].pos>>
    BY DEF Made
  <2>3. NameOf(call)' = NameOf(call)
    BY <1>1, <2>2 DEF NameOf
  <2>4. Guarded(NameOf(call))
    BY <2>1, <2>3 DEF Guarded, Grows
  <2> QED
    BY <1>3, <2>4 DEF HumanFirst, Grows
<1> QED
  BY <1>2, <1>3

(* A rejection that has been kept stays kept, unless the run begins.       *)
LEMMA RejectionStays ==
    ASSUME NodeInv, Grows, UNCHANGED ran,
           \A d \in Runs : \/ Idle(d)
                           \/ run'[d].mode = run[d].mode /\ run'[d].resumed = run[d].resumed
    PROVE  RejectedToolsGone'
<1>1. SUFFICES ASSUME NEW j \in 1..Len(ran), run'[ran[j].by].mode = "reject",
                      NEW call \in CallsOf(run[ran[j].by].resumed)'
               PROVE  NameOf(call)' # NameOf(<<ran[j].round, ran[j].pos>>)'
  BY DEF RejectedToolsGone
<1> DEFINE r == ran[j].by
<1>2. r \in Runs /\ ~ Idle(r)
  <2>1. ran \in Seq([round : Nat, pos : Nat, by : Runs])
    BY DEF NodeInv, NodeTypeOK
  <2>2. ran[j] \in [round : Nat, pos : Nat, by : Runs]
    BY <2>1, Elements
  <2>3. ran[j].by \in Runs
    BY <2>2
  <2>4. ~ Idle(r)
    BY DEF Idle
  <2> QED
    BY <2>3, <2>4
<1>3. run[r].mode = "reject" /\ run'[r].resumed = run[r].resumed
  BY <1>1, <1>2
<1>4. run[r].resumed \in 1..Len(answers)
  BY <1>2, <1>3 DEF NodeInv, RunInv, Rejecting
<1>5. /\ answers'[run[r].resumed] = answers[run[r].resumed]
      /\ answers'[ran[j].round] = answers[ran[j].round]
  BY <1>4 DEF NodeInv, CallsExist, Grows
<1>6. call \in CallsOf(run[r].resumed) /\ call[1] = run[r].resumed
  BY <1>3, <1>5 DEF CallsOf
<1>7. NameOf(call) # NameOf(<<ran[j].round, ran[j].pos>>)
  BY <1>3, <1>6 DEF NodeInv, RejectedToolsGone
<1> QED
  BY <1>5, <1>6, <1>7 DEF NameOf

(* A step of one run that calls no tool: what it must show.                *)
LEMMA StepOfRun ==
    ASSUME NodeInv, Grows, NodeTypeOK', UNCHANGED ran, NEW r \in Runs,
           \A d \in Runs \ {r} : run'[d] = run[d],
           RunInv(r)', Sound(execution.messages)',
           execution'.state = "STOPPED" => execution'.messages # <<>>,
           \/ Idle(r)
           \/ run'[r].mode = run[r].mode /\ run'[r].resumed = run[r].resumed
    PROVE  NodeInv'
<1>1. \A d \in Runs \ {r} : RunInv(d)'
  BY RunInvStays DEF NodeInv, Idle
<1>2. CallsExist' /\ HumanFirst'
  BY CallsStay DEF NodeInv
<1>3. RejectedToolsGone'
  BY RejectionStays DEF NodeInv
<1> QED
  BY <1>1, <1>2, <1>3 DEF NodeInv

-----------------------------------------------------------------------------
(* The steps, one by one. *)

Record == [pc : {"idle"} \cup Live \cup Endings, mode : Modes,
           messages : Seq(Messages), level : Nat, round : Nat,
           resumed : Nat, next : Nat, tools : SUBSET Names]

(* A step of one run, its new locals given: types. *)
LEMMA TypesStay ==
    ASSUME NodeTypeOK, Grows, NEW r \in Runs,
           UNCHANGED ran \/ ran' \in Seq([round : Nat, pos : Nat, by : Runs]),
           UNCHANGED shown \/ shown' \subseteq Nat \X Nat,
           NEW l \in Record, run' = [run EXCEPT ![r] = l],
           decisions' \subseteq Nat \X {"proceed", "reject"},
           execution'.messages \in Seq(Messages),
           execution' = [state |-> execution'.state, messages |-> execution'.messages],
           execution'.state \in {"NONE", "INPROGRESS", "STOPPED", "FINISHED", "ERROR",
                                 "TERMINATED"}
    PROVE  /\ NodeTypeOK'
           /\ run'[r] = l
           /\ \A d \in Runs \ {r} : run'[d] = run[d]
BY DEF NodeTypeOK, Grows, Record

LEMMA InitHolds == NodeInit => NodeInv
<1> SUFFICES ASSUME NodeInit PROVE NodeInv
  OBVIOUS
<1> USE DEF NodeInit
<1>1. \A r \in Runs : /\ run[r] = Locals("fresh", <<>>)
                      /\ run[r].pc = "idle" /\ run[r].mode = "fresh"
                      /\ run[r].messages = <<>> /\ run[r].level = 0
  BY DEF Locals
<1>2. agent.tools \subseteq Names
  BY AgentsAssumption DEF AgentConfigs
<1>3. Locals("fresh", <<>>) \in Record
  BY <1>2 DEF Locals, Record, Modes, Live, Endings
<1>4. NodeTypeOK
  BY <1>3 DEF NodeTypeOK, Record
<1>5. \A r \in Runs : RunInv(r)
  BY <1>1 DEF RunInv, Bookkeeping, Sound, Idle, Proceeding, Rejecting
<1>6. Sound(execution.messages) /\ execution.state = "NONE"
  BY DEF Sound
<1>7. CallsExist /\ HumanFirst /\ RejectedToolsGone
  BY DEF CallsExist, HumanFirst, Made, RejectedToolsGone
<1> QED
  BY <1>4, <1>5, <1>6, <1>7 DEF NodeInv

LEMMA BeginNewKeeps ==
    ASSUME NodeInv, NEW r \in Runs, BeginNew(r)
    PROVE  NodeInv'
<1> DEFINE l == [Locals("fresh", <<User>>) EXCEPT !.pc = "model"]
<1>1. /\ run' = [run EXCEPT ![r] = l] /\ execution' = [execution EXCEPT !.state = "INPROGRESS"]
      /\ UNCHANGED <<agent, answers, ran, shown, decisions>>
      /\ run[r].pc = "idle"
  BY DEF BeginNew, MayBegin
<1>2. agent.tools \subseteq Names /\ NodeTypeOK /\ Grows
  BY <1>1, AgentsAssumption, Still DEF AgentConfigs, NodeInv, NodeTypeOK
<1>3. /\ l \in Record /\ l.pc = "model" /\ l.mode = "fresh" /\ l.level = 0
      /\ l.messages = <<User>>
  <2>1. <<User>> \in Seq(Messages)
    BY DEF User, Messages
  <2>2. Locals("fresh", <<User>>) \in Record
    BY <1>2, <2>1 DEF Locals, Record, Modes
  <2>3. l \in Record
    BY <2>2 DEF Record, Live
  <2> QED
    BY <2>3 DEF Locals
<1>4. /\ execution' = [state |-> "INPROGRESS", messages |-> execution.messages]
      /\ execution.messages \in Seq(Messages)
  BY <1>1, <1>2 DEF NodeTypeOK
<1> HIDE DEF l
<1>5. NodeTypeOK' /\ run'[r] = l /\ \A d \in Runs \ {r} : run'[d] = run[d]
  BY <1>1, <1>2, <1>3, <1>4, TypesStay DEF NodeTypeOK
<1>6. RunInv(r)'
  BY <1>3, <1>5 DEF RunInv, Bookkeeping, Proceeding, Rejecting, Sound, User
<1>7. Idle(r) /\ Sound(execution.messages)'
  BY <1>1, <1>4 DEF NodeInv, RunInv, Bookkeeping, Sound
<1> QED
  BY <1>1, <1>2, <1>4, <1>5, <1>6, <1>7, StepOfRun

LEMMA BeginResumeKeeps ==
    ASSUME NodeInv, NEW r \in Runs, NEW mode \in {"proceed", "reject"}, BeginResume(r, mode)
    PROVE  NodeInv'
<1>1. /\ UNCHANGED <<agent, execution, answers, ran, shown, decisions>>
      /\ run[r].pc = "idle" /\ run[r] \in Record
  BY DEF BeginResume, MayBegin, NodeInv, NodeTypeOK, Record
<1>2. agent.tools \subseteq Names /\ NodeTypeOK /\ Grows
  BY <1>1, AgentsAssumption, Still DEF AgentConfigs, NodeInv, NodeTypeOK
<1>3. /\ execution = [state |-> execution.state, messages |-> execution.messages]
      /\ execution.messages \in Seq(Messages)
      /\ execution.state \in {"NONE", "INPROGRESS", "STOPPED", "FINISHED", "ERROR",
                              "TERMINATED"}
      /\ decisions \subseteq Nat \X {"proceed", "reject"}
  BY <1>2 DEF NodeTypeOK
<1>4. Idle(r) /\ run[r].level = 0
  BY <1>1 DEF NodeInv, RunInv, Bookkeeping
<1>5. CASE execution.state = "STOPPED"
  <2> DEFINE l == [Locals(mode, execution.messages) EXCEPT !.pc = "claiming"]
  <2>1. run' = [run EXCEPT ![r] = l]
    BY <1>5 DEF BeginResume
  <2>2. /\ l \in Record /\ l.pc = "claiming" /\ l.mode = mode /\ l.level = 0
        /\ l.messages = execution.messages /\ l.next = 1
    BY <1>2, <1>3 DEF Locals, Record, Modes, Live, Endings
  <2> HIDE DEF l
  <2>3. NodeTypeOK' /\ run'[r] = l /\ \A d \in Runs \ {r} : run'[d] = run[d]
    BY <1>1, <1>2, <1>3, <2>1, <2>2, TypesStay
  <2>4. Sound(execution.messages) /\ execution.messages # <<>>
    BY <1>5 DEF NodeInv
  <2>5. RunInv(r)'
    BY <1>1, <1>4, <2>2, <2>3, <2>4
       DEF RunInv, Bookkeeping, Proceeding, Rejecting, Sound, Idle
  <2> QED
    BY <1>1, <1>2, <1>4, <2>3, <2>4, <2>5, StepOfRun DEF Sound
<1>6. CASE execution.state # "STOPPED"
  <2> DEFINE l == [run[r] EXCEPT !.pc = "refused"]
  <2>1. run' = [run EXCEPT ![r] = l]
    BY <1>6 DEF BeginResume
  <2>2. /\ l \in Record /\ l.pc = "refused" /\ l.mode = run[r].mode /\ l.level = 0
        /\ l.messages = run[r].messages /\ l.resumed = run[r].resumed
    BY <1>1, <1>4 DEF Record, Endings
  <2> HIDE DEF l
  <2>3. NodeTypeOK' /\ run'[r] = l /\ \A d \in Runs \ {r} : run'[d] = run[d]
    BY <1>1, <1>2, <1>3, <2>1, <2>2, TypesStay
  <2>4. Sound(run[r].messages) /\ Sound(execution.messages)
    BY DEF NodeInv, RunInv, Bookkeeping
  <2>5. RunInv(r)'
    BY <1>1, <1>4, <2>2, <2>3, <2>4
       DEF RunInv, Bookkeeping, Proceeding, Rejecting, Sound, Idle
  <2> QED
    BY <1>1, <1>2, <1>4, <1>6, <2>3, <2>4, <2>5, StepOfRun DEF Sound
<1> QED
  BY <1>5, <1>6

(* The node and the execution end, not by stopping for a human. *)
LEMMA EndKeeps ==
    ASSUME NodeInv, NEW r \in Runs, NEW place \in Endings,
           NEW state \in {"FINISHED", "ERROR", "TERMINATED"}, End(r, state, place),
           UNCHANGED <<agent, answers, ran, decisions>>,
           UNCHANGED shown \/ shown' \subseteq Nat \X Nat
    PROVE  NodeInv'
<1> DEFINE l == [run[r] EXCEPT !.pc = place]
<1>1. /\ run' = [run EXCEPT ![r] = l] /\ execution' = [execution EXCEPT !.state = state]
      /\ run[r] \in Record
  BY DEF End, NodeInv, NodeTypeOK, Record
<1>2. /\ l.pc = place /\ l.mode = run[r].mode /\ l.level = run[r].level
      /\ l.messages = run[r].messages /\ l.resumed = run[r].resumed
      /\ l.tools = run[r].tools /\ l \in Record
  BY <1>1 DEF Record
<1> HIDE DEF l
<1>4. /\ execution' = [state |-> state, messages |-> execution.messages]
      /\ execution.messages \in Seq(Messages)
  BY <1>1 DEF NodeInv, NodeTypeOK
<1>5. place \notin {"idle", "claiming", "calls", "model"}
  BY DEF Endings
<1>6. Grows /\ NodeTypeOK /\ decisions' \subseteq Nat \X {"proceed", "reject"}
  BY Still DEF NodeInv, NodeTypeOK
<1>3. NodeTypeOK' /\ run'[r] = l /\ \A d \in Runs \ {r} : run'[d] = run[d]
  BY <1>1, <1>2, <1>4, <1>6, TypesStay
<1>7. RunInv(r)'
  BY <1>2, <1>3, <1>5
     DEF NodeInv, RunInv, Bookkeeping, Proceeding, Rejecting, Sound, Idle, Without
<1>8. Sound(execution.messages)'
  BY <1>4 DEF NodeInv, Sound
<1> QED
  BY <1>2, <1>3, <1>4, <1>6, <1>7, <1>8, StepOfRun

(* A step of a run that goes on, the row as it is. *)
LEMMA GoesOn ==
    ASSUME NodeInv, Grows, NEW r \in Runs, NEW l \in Record,
           run' = [run EXCEPT ![r] = l], UNCHANGED <<execution, ran, shown, decisions>>,
           l.mode = run[r].mode, l.resumed = run[r].resumed,
           NodeTypeOK' /\ run'[r] = l => RunInv(r)'
    PROVE  NodeInv'
<1>1. /\ NodeTypeOK /\ Sound(execution.messages)
      /\ execution = [state |-> execution.state, messages |-> execution.messages]
      /\ execution.messages \in Seq(Messages)
      /\ execution.state \in {"NONE", "INPROGRESS", "STOPPED", "FINISHED", "ERROR",
                              "TERMINATED"}
      /\ decisions \subseteq Nat \X {"proceed", "reject"}
      /\ execution.state = "STOPPED" => execution.messages # <<>>
  BY DEF NodeInv, NodeTypeOK
<1>2. NodeTypeOK' /\ run'[r] = l /\ \A d \in Runs \ {r} : run'[d] = run[d]
  BY <1>1, TypesStay
<1>3. Sound(execution.messages)'
  BY <1>1, SoundStays DEF Sound
<1> QED
  BY <1>1, <1>2, <1>3, StepOfRun

LEMMA ClaimKeeps ==
    ASSUME NodeInv, NEW r \in Runs, Claim(r)
    PROVE  NodeInv'
<1> DEFINE messages == run[r].messages
           last     == messages[Len(messages)]
           rest     == Front(messages)
           k        == last.round
<1>1. /\ run[r].pc = "claiming" /\ run[r] \in Record /\ messages # <<>>
      /\ messages \in Seq(Messages) /\ Sound(messages)
      /\ run[r].level = 0 /\ run[r].next = 1 /\ Idle(r) /\ NodeTypeOK
  BY DEF Claim, NodeInv, NodeTypeOK, Record, RunInv, Bookkeeping
<1>2. last \in Messages /\ Last(messages) = last /\ k \in Nat
  <2>1. Len(messages) \in 1..Len(messages)
    BY <1>1
  <2>2. last \in Messages
    BY <1>1, <2>1, Elements
  <2> QED
    BY <2>2 DEF Last, Messages
<1>3. last.role = "assistant" => k \in 1..Len(answers)
  BY <1>1 DEF Sound
<1>4. /\ Sound(rest) /\ rest \in Seq(Messages)
      /\ last.role = "assistant" => /\ Sound(Append(rest, last))
                                    /\ Append(rest, last) \in Seq(Messages)
  BY <1>1, <1>2, <1>3, SoundParts
<1>5. run[r].mode \in {"proceed", "reject"}
  BY <1>1 DEF NodeInv, RunInv, Bookkeeping, Record, Modes
<1>6. /\ UNCHANGED <<agent, answers, ran, shown>>
      /\ decisions' = decisions \cup {<<k, run[r].mode>>}
      /\ execution' = [state |-> "INPROGRESS", messages |-> execution.messages]
      /\ execution.messages \in Seq(Messages) /\ Sound(execution.messages)
  BY <1>2 DEF Claim, NodeInv, NodeTypeOK
<1>7. Grows /\ decisions' \subseteq Nat \X {"proceed", "reject"}
  <2>1. decisions \subseteq Nat \X {"proceed", "reject"} /\ decisions \subseteq decisions'
    BY <1>1, <1>6 DEF NodeTypeOK
  <2>2. <<k, run[r].mode>> \in Nat \X {"proceed", "reject"}
    BY <1>2, <1>5
  <2>3. Grows
    BY <1>1, <1>6, <2>1, Still
  <2> QED
    BY <1>6, <2>1, <2>2, <2>3
<1>8. CASE last.role = "assistant"
  <2> DEFINE l == [run[r] EXCEPT !.pc = "calls", !.round = k, !.resumed = k,
                                 !.messages = Append(rest, last)]
  <2>1. run' = [run EXCEPT ![r] = l]
    BY <1>1, <1>2, <1>8 DEF Claim, GoOnFrom
  <2>2. /\ l \in Record /\ l.pc = "calls" /\ l.mode = run[r].mode /\ l.level = 0
        /\ l.messages = Append(rest, last) /\ l.round = k /\ l.resumed = k /\ l.next = 1
    BY <1>1, <1>2, <1>4, <1>8 DEF Record, Live
  <2> HIDE DEF l, messages, last, rest, k
  <2>3. NodeTypeOK' /\ run'[r] = l /\ \A d \in Runs \ {r} : run'[d] = run[d]
    BY <1>1, <1>6, <1>7, <2>1, <2>2, TypesStay
  <2>4. RunInv(r)'
    <3>1. Bookkeeping(r)'
      <4>1. Sound(run[r].messages)'
        BY <1>4, <1>6, <1>8, <2>2, <2>3 DEF Sound
      <4> QED
        BY <1>3, <1>6, <1>8, <2>2, <2>3, <4>1 DEF Bookkeeping
    <3>2. Proceeding(r)'
      BY <1>6, <2>2, <2>3 DEF Proceeding
    <3>3. Rejecting(r)'
      BY <1>1, <1>3, <1>6, <1>8, <2>2, <2>3 DEF Rejecting, Without, Idle
    <3> QED
      BY <3>1, <3>2, <3>3 DEF RunInv
  <2> QED
    BY <1>1, <1>6, <1>7, <2>3, <2>4, StepOfRun DEF Sound
<1>9. CASE last.role # "assistant"
  <2> DEFINE l == [run[r] EXCEPT !.pc = "ending", !.resumed = k, !.messages = rest]
  <2>1. run' = [run EXCEPT ![r] = l]
    BY <1>1, <1>2, <1>9 DEF Claim, GoOnFrom
  <2>2. /\ l \in Record /\ l.pc = "ending" /\ l.mode = run[r].mode /\ l.level = 0
        /\ l.messages = rest
    BY <1>1, <1>2, <1>4, <1>9 DEF Record, Live
  <2> HIDE DEF l, messages, last, rest, k
  <2>3. NodeTypeOK' /\ run'[r] = l /\ \A d \in Runs \ {r} : run'[d] = run[d]
    BY <1>1, <1>6, <1>7, <2>1, <2>2, TypesStay
  <2>4. RunInv(r)'
    BY <1>1, <1>4, <1>6, <2>2, <2>3
       DEF RunInv, Bookkeeping, Proceeding, Rejecting, Sound, Idle
  <2> QED
    BY <1>1, <1>6, <1>7, <2>3, <2>4, StepOfRun DEF Sound
<1> QED
  BY <1>8, <1>9

LEMMA ModelCallsKeeps ==
    ASSUME NodeInv, NEW r \in Runs, NEW names \in Answers, ModelCalls(r, names)
    PROVE  NodeInv'
<1> DEFINE k == Len(answers) + 1
           l == [run[r] EXCEPT !.pc = "calls", !.round = k, !.next = 1,
                               !.level = run[r].level + 1,
                               !.messages = Append(run[r].messages, Assistant(k))]
<1>1. /\ run[r].pc = "model" /\ run[r] \in Record /\ run' = [run EXCEPT ![r] = l]
      /\ answers' = Append(answers, names) /\ answers \in Seq(Seq(Names)) /\ NodeTypeOK
      /\ UNCHANGED <<agent, execution, ran, shown, decisions>>
  BY DEF ModelCalls, NodeInv, NodeTypeOK, Record
<1>2. names \in Seq(Names)
  BY AgentsAssumption DEF Answers
<1>3. /\ Grows /\ Len(answers') = k /\ k \in Nat
      /\ \A i \in 1..Len(answers) : i \in 1..Len(answers') /\ answers'[i] = answers[i]
  BY <1>1, <1>2 DEF Grows
<1>4. /\ Assistant(k) \in Messages /\ Sound(run[r].messages)
      /\ run[r].messages \in Seq(Messages)
  BY <1>1, <1>3 DEF Messages, Assistant, NodeInv, RunInv, Bookkeeping, Record
<1>5. /\ l \in Record /\ l.pc = "calls" /\ l.mode = run[r].mode
      /\ l.level = run[r].level + 1 /\ l.messages = Append(run[r].messages, Assistant(k))
      /\ l.round = k /\ l.next = 1 /\ l.resumed = run[r].resumed /\ l.tools = run[r].tools
  <2>1. Append(run[r].messages, Assistant(k)) \in Seq(Messages)
    BY <1>4
  <2>2. run[r].level + 1 \in Nat
    BY <1>1 DEF Record
  <2>3. l \in Record
    BY <1>1, <1>3, <2>1, <2>2 DEF Record, Live
  <2> QED
    BY <1>1, <2>3 DEF Record
<1>6. run[r].level \in Nat /\ l.level # 0
  BY <1>1, <1>5 DEF Record
<1> HIDE DEF l
<1>7. ASSUME NodeTypeOK', run'[r] = l PROVE RunInv(r)'
  <2>1. \A i \in 1..Len(run[r].messages) : run[r].messages[i].role = "assistant" =>
            run[r].messages[i].round \in 1..Len(answers')
    BY <1>1, <1>3, <1>4, SoundStays
  <2>2. Sound(run[r].messages)'
    <3>1. Len(answers') \in Nat /\ k \in 1..Len(answers')
      BY <1>1, <1>3
    <3>2. \A i \in 1..Len(l.messages) : l.messages[i].role = "assistant" =>
              l.messages[i].round \in 1..Len(answers')
      BY <1>4, <1>5, <2>1, <3>1 DEF Assistant
    <3> QED
      BY <1>7, <3>2 DEF Sound
  <2>3. Bookkeeping(r)'
    BY <1>1, <1>3, <1>4, <1>5, <1>6, <1>7, <2>2 DEF Bookkeeping
  <2>4. Proceeding(r)'
    BY <1>5, <1>6, <1>7 DEF Proceeding
  <2>5. Rejecting(r)'
    <3>1. SUFFICES ASSUME run[r].mode = "reject"
                   PROVE  /\ run[r].resumed \in 1..Len(answers')
                          /\ Without(run[r].resumed, Len(answers[run[r].resumed]), run[r].tools)'
      BY <1>5, <1>6, <1>7 DEF Rejecting, Without
    <3>2. /\ run[r].resumed \in 1..Len(answers)
          /\ Without(run[r].resumed, Len(answers[run[r].resumed]), run[r].tools)
      BY <1>1, <3>1 DEF NodeInv, RunInv, Rejecting
    <3>3. /\ run[r].resumed \in 1..Len(answers')
          /\ answers'[run[r].resumed] = answers[run[r].resumed]
      BY <1>3, <3>2
    <3> QED
      BY <1>5, <1>7, <3>2, <3>3 DEF Without
  <2> QED
    BY <2>3, <2>4, <2>5 DEF RunInv
<1> QED
  BY <1>1, <1>3, <1>5, <1>7, GoesOn

LEMMA UnknownKeeps ==
    ASSUME NodeInv, NEW r \in Runs, Unknown(r)
    PROVE  NodeInv'
<1> DEFINE l == [run[r] EXCEPT !.next = run[r].next + 1]
<1>1. /\ run' = [run EXCEPT ![r] = l] /\ run[r] \in Record /\ NodeTypeOK
      /\ UNCHANGED <<agent, execution, answers, ran, shown, decisions>>
      /\ run[r].pc = "calls" /\ answers[run[r].round][run[r].next] \notin run[r].tools
  BY DEF Unknown, AtCall, Wanted, NodeInv, NodeTypeOK, Record
<1>2. /\ l \in Record /\ l.pc = "calls" /\ l.mode = run[r].mode /\ l.level = run[r].level
      /\ l.messages = run[r].messages /\ l.round = run[r].round
      /\ l.next = run[r].next + 1 /\ l.resumed = run[r].resumed /\ l.tools = run[r].tools
      /\ run[r].next \in Nat /\ run[r].level \in Nat
  BY <1>1 DEF Record
<1>3. Grows
  BY <1>1, Still
<1> HIDE DEF l
<1>4. ASSUME NodeTypeOK', run'[r] = l PROVE RunInv(r)'
  <2>1. Bookkeeping(r)'
    BY <1>1, <1>2, <1>4 DEF NodeInv, RunInv, Bookkeeping, Sound
  <2>2. Proceeding(r)'
    <3>1. Proceeding(r)
      BY DEF NodeInv, RunInv
    <3> QED
      BY <1>1, <1>2, <1>4, <3>1 DEF Proceeding
  <2>3. Rejecting(r)'
    <3>1. Rejecting(r)
      BY DEF NodeInv, RunInv
    <3>2. ASSUME run[r].mode = "reject", run[r].level = 0
          PROVE  /\ run[r].round = run[r].resumed
                 /\ Without(run[r].resumed, run[r].next - 1, run[r].tools)'
      <4>1. /\ run[r].round = run[r].resumed
            /\ Without(run[r].resumed, run[r].next - 1, run[r].tools)
        BY <1>1, <3>1, <3>2 DEF Rejecting
      <4>2. Without(run[r].resumed, run[r].next, run[r].tools)
        BY <1>1, <1>2, <4>1 DEF Without
      <4>3. (run[r].next + 1) - 1 = run[r].next
        BY <1>2
      <4> QED
        BY <1>1, <1>2, <1>4, <4>1, <4>2, <4>3 DEF Without
    <3>3. ASSUME run[r].mode = "reject", run[r].level # 0
          PROVE  /\ run[r].resumed \in 1..Len(answers')
                 /\ Without(run[r].resumed, Len(answers[run[r].resumed]), run[r].tools)'
      BY <1>1, <1>2, <1>4, <3>1, <3>3 DEF Rejecting, Without
    <3> QED
      BY <1>1, <1>2, <1>4, <3>1, <3>2, <3>3 DEF Rejecting, Idle
  <2> QED
    BY <2>1, <2>2, <2>3 DEF RunInv
<1> QED
  BY <1>1, <1>2, <1>3, <1>4, GoesOn

LEMMA RejectCallKeeps ==
    ASSUME NodeInv, NEW r \in Runs, RejectCall(r)
    PROVE  NodeInv'
<1> DEFINE name == answers[run[r].round][run[r].next]
           l == [run[r] EXCEPT !.next = run[r].next + 1,
                               !.messages = Front(run[r].messages),
                               !.tools = run[r].tools \ {name}]
<1>1. /\ run' = [run EXCEPT ![r] = l] /\ run[r] \in Record /\ NodeTypeOK
      /\ UNCHANGED <<agent, execution, answers, ran, shown, decisions>>
      /\ run[r].pc = "calls" /\ run[r].level = 0 /\ run[r].mode = "reject"
  BY DEF RejectCall, AtCall, Wanted, Resumed, NodeInv, NodeTypeOK, Record
<1>2. Sound(Front(run[r].messages)) /\ Front(run[r].messages) \in Seq(Messages)
  BY <1>1, SoundParts DEF NodeInv, RunInv, Bookkeeping, Record
<1>3. /\ l \in Record /\ l.pc = "calls" /\ l.mode = "reject" /\ l.level = 0
      /\ l.messages = Front(run[r].messages) /\ l.round = run[r].round
      /\ l.next = run[r].next + 1 /\ l.resumed = run[r].resumed
      /\ l.tools = run[r].tools \ {name} /\ run[r].next \in Nat
  <2>1. run[r].next + 1 \in Nat /\ run[r].tools \ {name} \in SUBSET Names
    BY <1>1 DEF Record
  <2> HIDE DEF name
  <2>2. l \in Record
    BY <1>1, <1>2, <2>1 DEF Record
  <2> QED
    BY <1>1, <2>2 DEF Record
<1>4. Grows
  BY <1>1, Still
<1> HIDE DEF l
<1>5. ASSUME NodeTypeOK', run'[r] = l PROVE RunInv(r)'
  <2>1. Bookkeeping(r)'
    <3>1. Sound(run[r].messages)'
      BY <1>1, <1>2, <1>3, <1>5 DEF Sound
    <3>2. run[r].round \in 1..Len(answers) /\ run[r].next + 1 # 0
      BY <1>1, <1>3 DEF NodeInv, RunInv, Bookkeeping
    <3> QED
      BY <1>1, <1>3, <1>5, <3>1, <3>2 DEF Bookkeeping
  <2>2. Proceeding(r)'
    BY <1>3, <1>5 DEF Proceeding
  <2>3. Rejecting(r)'
    <3>1. /\ run[r].round = run[r].resumed /\ Idle(r)
          /\ Without(run[r].resumed, run[r].next - 1, run[r].tools)
      BY <1>1 DEF NodeInv, RunInv, Rejecting
    <3>2. Without(run[r].resumed, run[r].next, l.tools)
      BY <1>1, <1>3, <3>1 DEF Without
    <3>3. (run[r].next + 1) - 1 = run[r].next
      BY <1>3
    <3>4. Without(run[r].resumed, run[r].next - 1, run[r].tools)'
      BY <1>1, <1>3, <1>5, <3>2, <3>3 DEF Without
    <3> QED
      BY <1>1, <1>3, <1>5, <3>1, <3>4 DEF Rejecting, Idle
  <2> QED
    BY <2>1, <2>2, <2>3 DEF RunInv
<1> QED
  BY <1>1, <1>3, <1>4, <1>5, GoesOn

LEMMA EndCallsKeeps ==
    ASSUME NodeInv, NEW r \in Runs, EndCalls(r)
    PROVE  NodeInv'
<1>1. CASE End(r, "FINISHED", "finished")
  BY <1>1, EndKeeps DEF EndCalls, Endings
<1>2. CASE run' = [run EXCEPT ![r].pc = "model"] /\ UNCHANGED execution
  <2> DEFINE l == [run[r] EXCEPT !.pc = "model"]
  <2>1. /\ run' = [run EXCEPT ![r] = l] /\ run[r] \in Record /\ NodeTypeOK
        /\ UNCHANGED <<agent, execution, answers, ran, shown, decisions>>
        /\ run[r].pc = "calls" /\ run[r].next > Len(answers[run[r].round])
    <3>1. run[r] \in Record /\ NodeTypeOK
      BY DEF NodeInv, NodeTypeOK, Record
    <3>2. /\ UNCHANGED <<agent, answers, ran, shown, decisions>>
          /\ run[r].pc = "calls" /\ run[r].next > Len(answers[run[r].round])
      BY DEF EndCalls
    <3> QED
      BY <1>2, <3>1, <3>2
  <2>2. /\ l \in Record /\ l.pc = "model" /\ l.mode = run[r].mode /\ l.level = run[r].level
        /\ l.messages = run[r].messages /\ l.resumed = run[r].resumed
        /\ l.tools = run[r].tools /\ run[r].next \in Nat
    BY <2>1 DEF Record, Live
  <2>3. Grows
    BY <2>1, Still
  <2> HIDE DEF l
  <2>4. ASSUME NodeTypeOK', run'[r] = l PROVE RunInv(r)'
    <3>1. Bookkeeping(r)'
      <4>1. Sound(run[r].messages)
        BY DEF NodeInv, RunInv, Bookkeeping
      <4>2. Sound(run[r].messages)'
        BY <2>1, <2>2, <2>4, <4>1 DEF Sound
      <4> QED
        BY <2>2, <2>4, <4>2 DEF Bookkeeping
    <3>2. Proceeding(r)'
      BY <2>2, <2>4 DEF Proceeding
    <3>3. ASSUME run[r].mode = "reject"
          PROVE  /\ run[r].resumed \in 1..Len(answers)
                 /\ Without(run[r].resumed, Len(answers[run[r].resumed]), run[r].tools)
      <4>1. CASE run[r].level = 0
        <5>1. /\ run[r].round = run[r].resumed /\ run[r].round \in 1..Len(answers)
              /\ Without(run[r].resumed, run[r].next - 1, run[r].tools)
          BY <2>1, <3>3, <4>1 DEF NodeInv, RunInv, Bookkeeping, Rejecting
        <5>2. Len(answers[run[r].resumed]) \in Nat
          BY <2>1, <5>1 DEF NodeTypeOK
        <5> QED
          BY <2>1, <2>2, <5>1, <5>2 DEF Without
      <4>2. CASE run[r].level # 0
        BY <3>3, <4>2 DEF NodeInv, RunInv, Rejecting
      <4> QED
        BY <4>1, <4>2
    <3>4. Rejecting(r)'
      <4>1. run[r].mode = "reject" /\ run[r].level = 0 => Idle(r)
        BY DEF NodeInv, RunInv, Rejecting
      <4>2. Idle(r)' <=> Idle(r)
        BY <2>1 DEF Idle
      <4>3. /\ run'[r].pc = "model" /\ run'[r].mode = run[r].mode
            /\ run'[r].level = run[r].level /\ run'[r].resumed = run[r].resumed
            /\ run'[r].tools = run[r].tools
        BY <2>2, <2>4
      <4> QED
        BY <2>1, <3>3, <4>1, <4>2, <4>3 DEF Rejecting, Without
    <3> QED
      BY <3>1, <3>2, <3>4 DEF RunInv
  <2> QED
    BY <2>1, <2>2, <2>3, <2>4, GoesOn
<1> QED
  BY <1>1, <1>2 DEF EndCalls

LEMMA AskHumanKeeps ==
    ASSUME NodeInv, NEW r \in Runs, AskHuman(r)
    PROVE  NodeInv'
<1>1. /\ UNCHANGED <<agent, answers, ran, decisions>> /\ run[r] \in Record /\ NodeTypeOK
      /\ run[r].pc = "calls" /\ run[r].level # 0
      /\ shown' = shown \cup {<<run[r].round, run[r].next>>}
  BY DEF AskHuman, AtCall, Resumed, NodeInv, NodeTypeOK, Record
<1>2. shown' \subseteq Nat \X Nat
  <2>1. <<run[r].round, run[r].next>> \in Nat \X Nat
    BY <1>1 DEF Record
  <2> QED
    BY <1>1, <2>1 DEF NodeTypeOK
<1>3. CASE End(r, "FINISHED", "finished")
  BY <1>1, <1>2, <1>3, EndKeeps DEF Endings
<1>4. CASE /\ execution' = [state |-> "STOPPED", messages |-> run[r].messages]
           /\ run' = [run EXCEPT ![r].pc = "stopped"]
  <2> DEFINE l == [run[r] EXCEPT !.pc = "stopped"]
  <2>1. run' = [run EXCEPT ![r] = l]
    BY <1>4
  <2>2. /\ l \in Record /\ l.pc = "stopped" /\ l.mode = run[r].mode
        /\ l.level = run[r].level /\ l.messages = run[r].messages
        /\ l.resumed = run[r].resumed /\ l.tools = run[r].tools
    BY <1>1 DEF Record, Endings
  <2>3. Grows /\ decisions \subseteq Nat \X {"proceed", "reject"}
    BY <1>1, Still DEF NodeTypeOK
  <2>4. /\ run[r].messages \in Seq(Messages) /\ run[r].messages # <<>>
        /\ Sound(run[r].messages)
    BY <1>1 DEF Record, NodeInv, RunInv, Bookkeeping
  <2> HIDE DEF l
  <2>5. NodeTypeOK' /\ run'[r] = l /\ \A d \in Runs \ {r} : run'[d] = run[d]
    BY <1>1, <1>2, <1>4, <2>1, <2>2, <2>3, <2>4, TypesStay
  <2>6. RunInv(r)'
    <3>1. Bookkeeping(r)'
      BY <1>1, <2>2, <2>4, <2>5 DEF Bookkeeping, Sound
    <3>2. Proceeding(r)'
      BY <2>2, <2>5 DEF Proceeding
    <3>3. Rejecting(r)'
      BY <1>1, <2>2, <2>5 DEF NodeInv, RunInv, Rejecting, Without
    <3> QED
      BY <3>1, <3>2, <3>3 DEF RunInv
  <2>7. Sound(execution.messages)'
    BY <1>1, <1>4, <2>4 DEF Sound
  <2> QED
    BY <1>1, <1>4, <2>2, <2>3, <2>4, <2>5, <2>6, <2>7, StepOfRun
<1> QED
  BY <1>3, <1>4 DEF AskHuman

(* The one step that calls a tool: this is where a human comes first and   *)
(* where a rejected tool is gone.                                          *)
LEMMA CallToolKeeps ==
    ASSUME NodeInv, NEW r \in Runs, CallTool(r)
    PROVE  NodeInv'
<1> DEFINE k == run[r].round
           i == run[r].next
           c == [round |-> k, pos |-> i, by |-> r]
           l == [run[r] EXCEPT !.next = i + 1, !.messages = Append(run[r].messages, Tool(k, i))]
<1>1. /\ run' = [run EXCEPT ![r] = l] /\ ran' = Append(ran, c)
      /\ UNCHANGED <<agent, execution, answers, shown, decisions>>
      /\ run[r].pc = "calls" /\ i <= Len(answers[k]) /\ answers[k][i] \in run[r].tools
      /\ IF run[r].level = 0 THEN run[r].mode = "proceed" ELSE ~ Guarded(answers[k][i])
  BY DEF CallTool, MayCall, AtCall, Wanted, Resumed
<1>2. run[r] \in Record /\ NodeTypeOK
  BY DEF NodeInv, NodeTypeOK, Record
<1>3. /\ k \in 1..Len(answers) /\ i \in 1..Len(answers[k]) /\ k \in Nat /\ i \in Nat
      /\ Sound(run[r].messages)
  <2>1. k \in 1..Len(answers) /\ i # 0 /\ Sound(run[r].messages)
    BY <1>1 DEF NodeInv, RunInv, Bookkeeping
  <2>2. i \in Nat /\ Len(answers[k]) \in Nat
    BY <1>2, <2>1 DEF Record, NodeTypeOK
  <2> QED
    BY <1>1, <2>1, <2>2
<1>4. /\ Tool(k, i) \in Messages
      /\ Append(run[r].messages, Tool(k, i)) \in Seq(Messages)
      /\ Append(run[r].messages, Tool(k, i)) # <<>>
      /\ Sound(Append(run[r].messages, Tool(k, i)))
  <2>1. Tool(k, i) \in Messages /\ Tool(k, i).role # "assistant"
    BY <1>3 DEF Tool, Messages
  <2>2. run[r].messages \in Seq(Messages)
    BY <1>2 DEF Record
  <2> QED
    BY <1>2, <1>3, <2>1, <2>2, SoundParts
<1>5. /\ l \in Record /\ l.pc = "calls" /\ l.mode = run[r].mode /\ l.level = run[r].level
      /\ l.messages = Append(run[r].messages, Tool(k, i)) /\ l.round = k /\ l.next = i + 1
      /\ l.resumed = run[r].resumed /\ l.tools = run[r].tools
  <2>0. i + 1 \in Nat
    BY <1>3
  <2>1. l \in Record
    BY <1>2, <1>4, <2>0 DEF Record
  <2> QED
    BY <1>1, <1>2, <2>1 DEF Record
<1>6. /\ ran \in Seq([round : Nat, pos : Nat, by : Runs]) /\ ran' # <<>>
      /\ ran' \in Seq([round : Nat, pos : Nat, by : Runs])
      /\ Len(ran') = Len(ran) + 1 /\ Len(ran) \in Nat /\ ran'[Len(ran) + 1] = c
      /\ \A j \in 1..Len(ran) : ran'[j] = ran[j]
  <2>1. c \in [round : Nat, pos : Nat, by : Runs]
    BY <1>3
  <2>2. ran \in Seq([round : Nat, pos : Nat, by : Runs])
    BY <1>2 DEF NodeTypeOK
  <2> DEFINE S == [round : Nat, pos : Nat, by : Runs]
  <2>3. c \in S /\ ran \in Seq(S) /\ ran' = Append(ran, c)
    BY <1>1, <2>1, <2>2
  <2> HIDE DEF c, S
  <2>4. /\ ran' \in Seq(S) /\ Len(ran') = Len(ran) + 1 /\ Len(ran) \in Nat
        /\ ran'[Len(ran) + 1] = c /\ \A j \in 1..Len(ran) : ran'[j] = ran[j]
    BY <2>3
  <2>5. ran' # <<>>
    BY <2>4
  <2> QED
    BY <2>2, <2>4, <2>5 DEF S
<1>7. Grows
  BY <1>1, <1>2, Still
<1> HIDE DEF l
<1>8. NodeTypeOK' /\ run'[r] = l /\ \A d \in Runs \ {r} : run'[d] = run[d]
  <2>1. /\ execution = [state |-> execution.state, messages |-> execution.messages]
        /\ execution.messages \in Seq(Messages)
        /\ execution.state \in {"NONE", "INPROGRESS", "STOPPED", "FINISHED", "ERROR",
                                "TERMINATED"}
        /\ decisions \subseteq Nat \X {"proceed", "reject"}
    BY <1>2 DEF NodeTypeOK
  <2> QED
    BY <1>1, <1>2, <1>5, <1>6, <1>7, <2>1, TypesStay
<1>9. \A d \in Runs \ {r} : RunInv(d)'
  <2>1. ASSUME NEW d \in Runs \ {r}, Idle(d) PROVE Idle(d)'
    <3>1. ASSUME NEW j \in 1..Len(ran') PROVE ran'[j].by # d
      <4>1. j \in 1..Len(ran) \/ j = Len(ran) + 1
        BY <1>6, <3>1
      <4>2. c.by # d
        BY <2>1
      <4> QED
        BY <1>6, <2>1, <4>1, <4>2 DEF Idle
    <3> QED
      BY <3>1 DEF Idle
  <2> QED
    BY <1>2, <1>7, <1>8, <2>1, RunInvStays DEF NodeInv
<1>10. run[r].mode = "reject" =>
          /\ run[r].level # 0 /\ run[r].resumed \in 1..Len(answers)
          /\ Without(run[r].resumed, Len(answers[run[r].resumed]), run[r].tools)
  BY <1>1 DEF NodeInv, RunInv, Rejecting
<1>11. RunInv(r)'
  <2>1. Bookkeeping(r)'
    <3>1. Sound(run[r].messages)'
      BY <1>1, <1>4, <1>5, <1>8 DEF Sound
    <3>2. i + 1 # 0
      BY <1>3
    <3> QED
      BY <1>1, <1>3, <1>4, <1>5, <1>8, <3>1, <3>2 DEF Bookkeeping
  <2>2. Proceeding(r)'
    <3>1. Proceeding(r)
      BY DEF NodeInv, RunInv
    <3>2. /\ run'[r].mode = run[r].mode /\ run'[r].level = run[r].level
          /\ run'[r].round = run[r].round /\ run[r].pc = "calls" /\ decisions' = decisions
      BY <1>1, <1>5, <1>8
    <3> QED
      BY <3>1, <3>2 DEF Proceeding
  <2>3. Rejecting(r)'
    BY <1>1, <1>5, <1>8, <1>10 DEF Rejecting, Without
  <2> QED
    BY <2>1, <2>2, <2>3 DEF RunInv
<1>12. CallsExist'
  <2>1. ASSUME NEW j \in 1..Len(ran')
        PROVE  ran'[j].round \in 1..Len(answers) /\ ran'[j].pos \in 1..Len(answers[ran'[j].round])
    <3>1. CASE j \in 1..Len(ran)
      BY <1>6, <3>1 DEF NodeInv, CallsExist
    <3>2. CASE j = Len(ran) + 1
      BY <1>3, <1>6, <3>2
    <3> QED
      BY <1>6, <2>1, <3>1, <3>2
  <2> QED
    BY <1>1, <2>1 DEF CallsExist
<1>13. HumanFirst'
  <2>1. SUFFICES ASSUME NEW j \in 1..Len(ran'), Guarded(answers[ran'[j].round][ran'[j].pos])
                 PROVE  <<ran'[j].round, "proceed">> \in decisions
    BY <1>1 DEF HumanFirst, Made, NameOf, Guarded
  <2>2. CASE j \in 1..Len(ran)
    <3>1. <<ran[j].round, ran[j].pos>> \in Made
      BY <2>2 DEF Made
    <3>2. Guarded(NameOf(<<ran[j].round, ran[j].pos>>))
      BY <1>6, <2>1, <2>2 DEF NameOf
    <3> QED
      BY <1>6, <2>2, <3>1, <3>2 DEF NodeInv, HumanFirst
  <2>3. CASE j = Len(ran) + 1
    <3>1. Guarded(answers[k][i]) /\ ran'[j].round = k
      BY <1>6, <2>1, <2>3
    <3>2. <<k, "proceed">> \in decisions
      BY <1>1, <3>1 DEF NodeInv, RunInv, Proceeding
    <3> QED
      BY <3>1, <3>2
  <2> QED
    BY <1>6, <2>1, <2>2, <2>3
<1>14. RejectedToolsGone'
  <2>1. SUFFICES ASSUME NEW j \in 1..Len(ran'), NEW call,
                        run'[ran'[j].by].mode = "reject",
                        call \in CallsOf(run'[ran'[j].by].resumed)
                 PROVE  NameOf(call) # NameOf(<<ran'[j].round, ran'[j].pos>>)
    <3>1. /\ \A call : NameOf(call)' = NameOf(call)
          /\ \A a : CallsOf(a)' = CallsOf(a)
      BY <1>1 DEF NameOf, CallsOf
    <3> QED
      BY <3>1 DEF RejectedToolsGone
  <2>2. ran'[j].by \in Runs
    <3>1. ran'[j] \in [round : Nat, pos : Nat, by : Runs]
      BY <1>6, <2>1, Elements
    <3> QED
      BY <3>1
  <2>3. /\ run'[ran'[j].by].mode = run[ran'[j].by].mode
        /\ run'[ran'[j].by].resumed = run[ran'[j].by].resumed
    BY <1>5, <1>8, <2>2
  <2>4. CASE j \in 1..Len(ran)
    BY <1>6, <2>1, <2>3, <2>4 DEF NodeInv, RejectedToolsGone
  <2>5. CASE j = Len(ran) + 1
    <3>1. ran'[j].by = r /\ ran'[j].round = k /\ ran'[j].pos = i
      BY <1>6, <2>5
    <3>2. /\ run[r].resumed \in 1..Len(answers)
          /\ Without(run[r].resumed, Len(answers[run[r].resumed]), run[r].tools)
      BY <1>10, <2>1, <2>3, <3>1
    <3>3. NameOf(call) \notin run[r].tools
      BY <1>2, <2>1, <2>3, <3>1, <3>2 DEF CallsOf, NameOf, Without, NodeTypeOK
    <3> QED
      BY <1>1, <3>1, <3>3 DEF NameOf
  <2> QED
    BY <1>6, <2>1, <2>4, <2>5
<1> QED
  BY <1>1, <1>8, <1>9, <1>11, <1>12, <1>13, <1>14 DEF NodeInv, Sound

LEMMA NodeStepKeeps ==
    ASSUME NodeInv, NodeNext
    PROVE  NodeInv'
<1>1. PICK r \in Runs : \/ BeginNew(r)
                        \/ \E mode \in {"proceed", "reject"} : BeginResume(r, mode)
                        \/ Step(r)
  BY DEF NodeNext
<1>2. CASE BeginNew(r)
  BY <1>2, BeginNewKeeps
<1>3. CASE \E mode \in {"proceed", "reject"} : BeginResume(r, mode)
  BY <1>3, BeginResumeKeeps
<1>4. CASE Claim(r)
  BY <1>4, ClaimKeeps
<1>5. CASE NodeEnds(r)
  BY <1>5, EndKeeps DEF NodeEnds, Endings
<1>6. CASE Throws(r)
  BY <1>6, EndKeeps DEF Throws, Endings
<1>7. CASE Unknown(r)
  BY <1>7, UnknownKeeps
<1>8. CASE CallTool(r)
  BY <1>8, CallToolKeeps
<1>9. CASE AskHuman(r)
  BY <1>9, AskHumanKeeps
<1>10. CASE RejectCall(r)
  BY <1>10, RejectCallKeeps
<1>11. CASE EndCalls(r)
  BY <1>11, EndCallsKeeps
<1>12. CASE \E names \in Answers : ModelCalls(r, names)
  BY <1>12, ModelCallsKeeps
<1> QED
  BY <1>1, <1>2, <1>3, <1>4, <1>5, <1>6, <1>7, <1>8, <1>9, <1>10, <1>11, <1>12 DEF Step

LEMMA NodeStutterKeeps ==
    ASSUME NodeInv, UNCHANGED nodeVars
    PROVE  NodeInv'
<1>1. NodeTypeOK' /\ HumanFirst' /\ RejectedToolsGone' /\ CallsExist'
  BY DEF NodeInv, nodeVars, NodeTypeOK, HumanFirst, RejectedToolsGone, CallsExist,
         Made, CallsOf, NameOf, Guarded
<1>2. Sound(execution.messages)' /\ (execution'.state = "STOPPED" => execution'.messages # <<>>)
  BY DEF NodeInv, nodeVars, Sound
<1>3. Grows /\ NodeTypeOK
  BY Still DEF NodeInv, nodeVars
<1>4. \A d \in Runs : RunInv(d)'
  BY <1>3, RunInvStays DEF NodeInv, nodeVars, Idle
<1> QED
  BY <1>1, <1>2, <1>4 DEF NodeInv

LEMMA NodeInvHolds == NodeSpec => []NodeInv
<1>1. NodeInv /\ [NodeNext]_nodeVars => NodeInv'
  BY NodeStepKeeps, NodeStutterKeeps
<1> QED
  BY <1>1, InitHolds, PTL DEF NodeSpec

(* What the node keeps has its type throughout (Agent.ts 1306-1777).       *)
THEOREM NodeTypeCorrect == NodeSpec => []NodeTypeOK
<1>1. NodeInv => NodeTypeOK
  BY DEF NodeInv
<1> QED
  BY <1>1, NodeInvHolds, PTL

(* No tool that requires a human is called before a human said "proceed"   *)
(* to the answer that calls it, however many requests overlap, rounds and  *)
(* stops there are (Agent.ts 1373-1389, 1624-1631).                        *)
THEOREM HumansComeFirst == NodeSpec => []HumanFirst
<1>1. NodeInv => HumanFirst
  BY DEF NodeInv
<1> QED
  BY <1>1, NodeInvHolds, PTL

(* A run that was told "reject" calls none of the tools of the rejected    *)
(* answer, in whatever later round (Agent.ts 1626, 1370).                  *)
THEOREM RejectedStayGone == NodeSpec => []RejectedToolsGone
<1>1. NodeInv => RejectedToolsGone
  BY DEF NodeInv
<1> QED
  BY <1>1, NodeInvHolds, PTL

-----------------------------------------------------------------------------
(* Requests that do not overlap. *)

Untouched(k) == \A j \in 1..Len(ran) : ran[j].round # k

(* A conversation that ends in the latest answer of the model, which       *)
(* nobody has decided about; no call of it was made, unless it shows.      *)
Pending(messages) ==
    /\ messages # <<>>
    /\ Last(messages).round = Len(answers)
    /\ \A d \in decisions : d[1] # Len(answers)
    /\ Last(messages).role = "assistant" => Untouched(Len(answers))

Alone == \A r, s \in Runs : run[r].pc \in Live /\ run[s].pc \in Live => r = s

(* The run at work has the row, and has the checkpoint while it has not    *)
(* claimed it.                                                             *)
HasRow(r) ==
    run[r].pc \in Live =>
        IF run[r].pc = "claiming"
        THEN execution.state = "STOPPED" /\ run[r].messages = execution.messages
        ELSE execution.state # "STOPPED"

AtWork(r) ==
    run[r].pc = "calls" =>
        /\ run[r].level # 0 => run[r].round = Len(answers) /\ Pending(run[r].messages)
        /\ \A j \in 1..Len(ran) : ran[j].round = run[r].round => ran[j].pos < run[r].next

DecidedOnce ==
    \A d \in decisions : /\ d[1] <= Len(answers)
                         /\ <<d[1], "proceed">> \notin decisions \/ <<d[1], "reject">> \notin decisions

MadeOnce ==
    \A i, j \in 1..Len(ran) :
        ran[i].round = ran[j].round /\ ran[i].pos = ran[j].pos => i = j

SequenceInv ==
    ~ agent.overlap =>
        /\ Alone
        /\ execution.state = "STOPPED" => Pending(execution.messages)
        /\ \A r \in Runs : HasRow(r) /\ AtWork(r)
        /\ DecidedOnce
        /\ MadeOnce

(* What a step does to the locals of its run; of all others nothing. *)
LEMMA Effects ==
    ASSUME NodeTypeOK, NEW r \in Runs
    PROVE  /\ BeginNew(r) =>
                /\ run'[r].pc = "model" /\ run'[r].mode = "fresh" /\ run'[r].level = 0
                /\ run'[r].messages = <<User>> /\ run'[r].resumed = 0
                /\ run'[r].tools = agent.tools
           /\ \A mode : BeginResume(r, mode) =>
                IF execution.state = "STOPPED"
                THEN /\ run'[r].pc = "claiming" /\ run'[r].mode = mode /\ run'[r].level = 0
                     /\ run'[r].messages = execution.messages /\ run'[r].resumed = 0
                     /\ run'[r].next = 1 /\ run'[r].tools = agent.tools
                ELSE /\ run'[r].pc = "refused" /\ run'[r].mode = run[r].mode
                     /\ run'[r].messages = run[r].messages
           /\ Claim(r) =>
                /\ run'[r].mode = run[r].mode /\ run'[r].level = run[r].level
                /\ run'[r].next = run[r].next /\ run'[r].tools = run[r].tools
                /\ run'[r].resumed = Last(run[r].messages).round
                /\ IF Last(run[r].messages).role = "assistant"
                   THEN /\ run'[r].pc = "calls" /\ run'[r].round = Last(run[r].messages).round
                        /\ run'[r].messages =
                              Append(Front(run[r].messages), Last(run[r].messages))
                   ELSE run'[r].pc = "ending"
           /\ \A state, place : End(r, state, place) =>
                /\ run'[r].pc = place /\ run'[r].mode = run[r].mode
                /\ run'[r].resumed = run[r].resumed
           /\ \A names : ModelCalls(r, names) =>
                /\ run'[r].pc = "calls" /\ run'[r].mode = run[r].mode
                /\ run'[r].level = run[r].level + 1 /\ run'[r].round = Len(answers) + 1
                /\ run'[r].next = 1 /\ run'[r].tools = run[r].tools
                /\ run'[r].resumed = run[r].resumed
                /\ run'[r].messages = Append(run[r].messages, Assistant(Len(answers) + 1))
           /\ Unknown(r) \/ CallTool(r) \/ RejectCall(r) =>
                /\ run'[r].pc = "calls" /\ run'[r].mode = run[r].mode
                /\ run'[r].level = run[r].level /\ run'[r].round = run[r].round
                /\ run'[r].next = run[r].next + 1 /\ run'[r].resumed = run[r].resumed
           /\ Unknown(r) \/ CallTool(r) => run'[r].tools = run[r].tools
           /\ Unknown(r) => run'[r].messages = run[r].messages
           /\ CallTool(r) =>
                run'[r].messages = Append(run[r].messages, Tool(run[r].round, run[r].next))
           /\ RejectCall(r) =>
                /\ run'[r].messages = Front(run[r].messages)
                /\ run'[r].tools = run[r].tools \ {answers[run[r].round][run[r].next]}
           /\ AskHuman(r) => /\ run'[r].pc \in {"stopped", "finished"}
                             /\ run'[r].mode = run[r].mode /\ run'[r].resumed = run[r].resumed
           /\ EndCalls(r) => /\ run'[r].pc \in {"model", "finished"}
                             /\ run'[r].mode = run[r].mode /\ run'[r].resumed = run[r].resumed
                             /\ run'[r].pc = "model" =>
                                   /\ run'[r].level = run[r].level
                                   /\ run'[r].tools = run[r].tools
                                   /\ run'[r].messages = run[r].messages
<1>. run \in [Runs -> Record] /\ run[r] \in Record
  BY DEF NodeTypeOK, Record
<1>. \A l : run' = [run EXCEPT ![r] = l] => run'[r] = l
  OBVIOUS
<1>1. ASSUME BeginNew(r)
      PROVE  run'[r] = [Locals("fresh", <<User>>) EXCEPT !.pc = "model"]
  BY <1>1 DEF BeginNew
<1>2. ASSUME NEW mode, BeginResume(r, mode)
      PROVE  run'[r] = IF execution.state = "STOPPED"
                       THEN [Locals(mode, execution.messages) EXCEPT !.pc = "claiming"]
                       ELSE [run[r] EXCEPT !.pc = "refused"]
  BY <1>2 DEF BeginResume
<1>3. ASSUME Claim(r)
      PROVE  LET last == Last(run[r].messages)
                 rest == Front(run[r].messages)
             IN  run'[r] = IF last.role = "assistant"
                           THEN [run[r] EXCEPT !.pc = "calls", !.round = last.round,
                                    !.resumed = last.round, !.messages = Append(rest, last)]
                           ELSE [run[r] EXCEPT !.pc = "ending", !.resumed = last.round,
                                    !.messages = rest]
  BY <1>3 DEF Claim, GoOnFrom
<1>4. ASSUME NEW state, NEW place, End(r, state, place)
      PROVE  run'[r] = [run[r] EXCEPT !.pc = place]
  BY <1>4 DEF End
<1>5. ASSUME NEW names, ModelCalls(r, names)
      PROVE  run'[r] = [run[r] EXCEPT !.pc = "calls", !.round = Len(answers) + 1, !.next = 1,
                           !.level = @ + 1,
                           !.messages = Append(@, Assistant(Len(answers) + 1))]
  BY <1>5 DEF ModelCalls
<1>6. ASSUME Unknown(r)
      PROVE  run'[r] = [run[r] EXCEPT !.next = @ + 1] /\ run[r].pc = "calls"
  BY <1>6 DEF Unknown, AtCall
<1>7. ASSUME CallTool(r)
      PROVE  /\ run'[r] = [run[r] EXCEPT !.next = @ + 1,
                              !.messages = Append(@, Tool(run[r].round, run[r].next))]
             /\ run[r].pc = "calls"
  BY <1>7 DEF CallTool, MayCall, AtCall
<1>8. ASSUME RejectCall(r)
      PROVE  /\ run'[r] = [run[r] EXCEPT !.next = @ + 1, !.messages = Front(@),
                              !.tools = @ \ {answers[run[r].round][run[r].next]}]
             /\ run[r].pc = "calls"
  BY <1>8 DEF RejectCall, AtCall, Wanted
<1>9. ASSUME AskHuman(r)
      PROVE  run'[r] = [run[r] EXCEPT !.pc = "stopped"] \/ run'[r] = [run[r] EXCEPT !.pc = "finished"]
  BY <1>9 DEF AskHuman, End
<1>10. ASSUME EndCalls(r)
       PROVE  run'[r] = [run[r] EXCEPT !.pc = "model"] \/ run'[r] = [run[r] EXCEPT !.pc = "finished"]
  BY <1>10 DEF EndCalls, End
<1> USE DEF Locals, Record
<1>11. BeginNew(r) =>
                /\ run'[r].pc = "model" /\ run'[r].mode = "fresh" /\ run'[r].level = 0
                /\ run'[r].messages = <<User>> /\ run'[r].resumed = 0
                /\ run'[r].tools = agent.tools
  BY <1>1
<1>12. ASSUME NEW mode, BeginResume(r, mode)
       PROVE  IF execution.state = "STOPPED"
              THEN /\ run'[r].pc = "claiming" /\ run'[r].mode = mode /\ run'[r].level = 0
                   /\ run'[r].messages = execution.messages /\ run'[r].resumed = 0
                   /\ run'[r].next = 1 /\ run'[r].tools = agent.tools
              ELSE /\ run'[r].pc = "refused" /\ run'[r].mode = run[r].mode
                   /\ run'[r].messages = run[r].messages
  <2>1. CASE execution.state = "STOPPED"
    <3>1. run'[r] = [Locals(mode, execution.messages) EXCEPT !.pc = "claiming"]
      BY <1>2, <1>12, <2>1
    <3> QED BY <2>1, <3>1
  <2>2. CASE execution.state # "STOPPED"
    <3>1. run'[r] = [run[r] EXCEPT !.pc = "refused"]
      BY <1>2, <1>12, <2>2
    <3> QED BY <2>2, <3>1
  <2> QED BY <2>1, <2>2
<1>13. Claim(r) =>
          /\ run'[r].mode = run[r].mode /\ run'[r].level = run[r].level
          /\ run'[r].next = run[r].next /\ run'[r].tools = run[r].tools
          /\ run'[r].resumed = Last(run[r].messages).round
          /\ IF Last(run[r].messages).role = "assistant"
             THEN /\ run'[r].pc = "calls" /\ run'[r].round = Last(run[r].messages).round
                  /\ run'[r].messages =
                        Append(Front(run[r].messages), Last(run[r].messages))
             ELSE run'[r].pc = "ending"
  BY <1>3
<1>14. ASSUME NEW state, NEW place, End(r, state, place)
       PROVE  /\ run'[r].pc = place /\ run'[r].mode = run[r].mode
              /\ run'[r].resumed = run[r].resumed
  <2>1. run'[r] = [run[r] EXCEPT !.pc = place]
    BY <1>4, <1>14
  <2> QED BY <2>1
<1>15. \A names : ModelCalls(r, names) =>
          /\ run'[r].pc = "calls" /\ run'[r].mode = run[r].mode
          /\ run'[r].level = run[r].level + 1 /\ run'[r].round = Len(answers) + 1
          /\ run'[r].next = 1 /\ run'[r].tools = run[r].tools
          /\ run'[r].resumed = run[r].resumed
          /\ run'[r].messages = Append(run[r].messages, Assistant(Len(answers) + 1))
  BY <1>5
<1>16. Unknown(r) \/ CallTool(r) \/ RejectCall(r) =>
          /\ run'[r].pc = "calls" /\ run'[r].mode = run[r].mode
          /\ run'[r].level = run[r].level /\ run'[r].round = run[r].round
          /\ run'[r].next = run[r].next + 1 /\ run'[r].resumed = run[r].resumed
  BY <1>6, <1>7, <1>8
<1>17. /\ Unknown(r) \/ CallTool(r) => run'[r].tools = run[r].tools
       /\ Unknown(r) => run'[r].messages = run[r].messages
       /\ CallTool(r) =>
             run'[r].messages = Append(run[r].messages, Tool(run[r].round, run[r].next))
       /\ RejectCall(r) =>
             /\ run'[r].messages = Front(run[r].messages)
             /\ run'[r].tools = run[r].tools \ {answers[run[r].round][run[r].next]}
  BY <1>6, <1>7, <1>8
<1>18. /\ AskHuman(r) => /\ run'[r].pc \in {"stopped", "finished"}
                         /\ run'[r].mode = run[r].mode /\ run'[r].resumed = run[r].resumed
       /\ EndCalls(r) => /\ run'[r].pc \in {"model", "finished"}
                         /\ run'[r].mode = run[r].mode /\ run'[r].resumed = run[r].resumed
                         /\ run'[r].pc = "model" =>
                               /\ run'[r].level = run[r].level
                               /\ run'[r].tools = run[r].tools
                               /\ run'[r].messages = run[r].messages
  BY <1>9, <1>10
<1> QED BY <1>11, <1>12, <1>13, <1>14, <1>15, <1>16, <1>17, <1>18

Acts(r) ==
    \/ BeginNew(r)
    \/ \E mode \in {"proceed", "reject"} : BeginResume(r, mode)
    \/ Step(r)

LEMMA NodeFrame ==
    ASSUME NodeTypeOK, NEW r \in Runs, Acts(r)
    PROVE  /\ agent' = agent
           /\ \A d \in Runs : d # r => run'[d] = run[d]
           /\ Claim(r) \/ decisions' = decisions
           /\ CallTool(r) \/ ran' = ran
           /\ AskHuman(r) \/ shown' = shown
           /\ (\E names \in Answers : ModelCalls(r, names)) \/ answers' = answers
<1>1. /\ agent' = agent
      /\ Claim(r) \/ decisions' = decisions
      /\ CallTool(r) \/ ran' = ran
      /\ AskHuman(r) \/ shown' = shown
      /\ (\E names \in Answers : ModelCalls(r, names)) \/ answers' = answers
  BY DEF Acts, Step, BeginNew, BeginResume, Claim, NodeEnds, Throws, Unknown, CallTool, AskHuman,
         RejectCall, EndCalls, ModelCalls
<1>2. ASSUME NEW d \in Runs, d # r
      PROVE  run'[d] = run[d]
  <2>1. run' = run \/ \E l : run' = [run EXCEPT ![r] = l]
    BY DEF Acts, Step, BeginNew, BeginResume, Claim, NodeEnds, Throws, Unknown, CallTool,
           AskHuman, RejectCall, EndCalls, ModelCalls, End
  <2> QED BY <1>2, <2>1 DEF NodeTypeOK
<1> QED BY <1>1, <1>2

LEMMA CallTypes ==
    ASSUME NodeTypeOK
    PROVE  \A j \in 1..Len(ran) : ran[j] \in [round : Nat, pos : Nat, by : Runs]
                                  /\ ran[j].round \in Nat /\ ran[j].pos \in Nat
<1>1. ran \in Seq([round : Nat, pos : Nat, by : Runs])
  BY DEF NodeTypeOK
<1>2. \A j \in 1..Len(ran) : ran[j] \in [round : Nat, pos : Nat, by : Runs]
  BY <1>1, Elements
<1> QED BY <1>2

LEMMA LastAppended ==
    ASSUME NEW S, NEW s \in Seq(S), NEW e
    PROVE  Append(s, e) # <<>> /\ Last(Append(s, e)) = e
<1>1. Len(Append(s, e)) = Len(s) + 1 /\ Append(s, e)[Len(s) + 1] = e /\ Len(s) \in Nat
  OBVIOUS
<1>2. Append(s, e) # <<>>
  BY <1>1
<1> QED BY <1>1, <1>2 DEF Last

(* What a step must show when requests do not overlap. *)
LEMMA SequenceStep ==
    ASSUME NodeInv, SequenceInv, ~ agent.overlap, NEW r \in Runs, Acts(r),
           \A s \in Runs : run[s].pc \in Live => s = r,
           execution'.state = "STOPPED" => Pending(execution.messages)',
           HasRow(r)', AtWork(r)', DecidedOnce', MadeOnce'
    PROVE  SequenceInv'
<1>1. NodeTypeOK
  BY DEF NodeInv
<1>2. \A d \in Runs : d # r => run'[d] = run[d] /\ run[d].pc \notin Live
  BY <1>1, NodeFrame
<1>3. \A d \in Runs : run'[d].pc \in Live => d = r
  BY <1>2
<1>4. ASSUME NEW d \in Runs
      PROVE  HasRow(d)' /\ AtWork(d)'
  <2>1. CASE d = r
    BY <2>1
  <2>2. CASE d # r
    BY <1>3, <2>2 DEF HasRow, AtWork, Live
  <2> QED BY <2>1, <2>2
<1>5. Alone'
  BY <1>3 DEF Alone, Live
<1> QED BY <1>4, <1>5 DEF SequenceInv

LEMMA BeginKeepsSequence ==
    ASSUME NodeInv, SequenceInv, ~ agent.overlap, NEW r \in Runs,
           BeginNew(r) \/ \E mode \in {"proceed", "reject"} : BeginResume(r, mode)
    PROVE  SequenceInv'
<1>. NodeTypeOK /\ Acts(r) /\ DecidedOnce /\ MadeOnce
  BY DEF NodeInv, SequenceInv, Acts
<1>1. UNCHANGED <<agent, answers, ran, decisions>> /\ \A s \in Runs : run[s].pc \notin Live
  BY DEF BeginNew, BeginResume, MayBegin
<1>2. DecidedOnce' /\ MadeOnce'
  BY <1>1 DEF DecidedOnce, MadeOnce
<1>3. CASE BeginNew(r)
  <2>1. run'[r].pc = "model" /\ execution'.state = "INPROGRESS"
    BY <1>3, Effects DEF BeginNew, NodeTypeOK
  <2>2. HasRow(r)' /\ AtWork(r)'
    BY <2>1 DEF HasRow, AtWork
  <2> QED BY <1>1, <1>2, <2>1, <2>2, SequenceStep
<1>4. CASE \E mode \in {"proceed", "reject"} : BeginResume(r, mode)
  <2>1. execution' = execution
    BY <1>4 DEF BeginResume
  <2>2. \/ run'[r].pc = "refused"
        \/ /\ run'[r].pc = "claiming" /\ execution.state = "STOPPED"
           /\ run'[r].messages = execution.messages
    BY <1>4, Effects
  <2>3. HasRow(r)' /\ AtWork(r)'
    BY <2>1, <2>2 DEF HasRow, AtWork, Live
  <2>4. execution'.state = "STOPPED" => Pending(execution.messages)'
    BY <1>1, <2>1 DEF SequenceInv, Pending, Untouched
  <2> QED BY <1>1, <1>2, <2>3, <2>4, SequenceStep
<1> QED BY <1>3, <1>4

LEMMA LiveAlone ==
    ASSUME SequenceInv, ~ agent.overlap, NEW r \in Runs, Step(r)
    PROVE  run[r].pc \in Live /\ \A s \in Runs : run[s].pc \in Live => s = r
<1>1. run[r].pc \in Live
  BY DEF Step, Claim, NodeEnds, Throws, Unknown, CallTool, AskHuman, RejectCall, EndCalls,
         ModelCalls, MayCall, AtCall, Live
<1> QED BY <1>1 DEF SequenceInv, Alone

LEMMA ClaimKeepsSequence ==
    ASSUME NodeInv, SequenceInv, ~ agent.overlap, NEW r \in Runs, Claim(r)
    PROVE  SequenceInv'
<1>. NodeTypeOK /\ Acts(r) /\ Step(r) /\ DecidedOnce /\ MadeOnce /\ HasRow(r)
  BY DEF NodeInv, SequenceInv, Acts, Step
<1> DEFINE k == Last(run[r].messages).round
<1>1. /\ UNCHANGED <<agent, answers, ran>> /\ execution'.state = "INPROGRESS"
      /\ decisions' = decisions \cup {<<k, run[r].mode>>} /\ run[r].pc = "claiming"
  BY DEF Claim, NodeTypeOK
<1>2. Pending(run[r].messages) /\ k = Len(answers) /\ Len(answers) \in Nat
  BY <1>1 DEF HasRow, SequenceInv, Pending, Live, NodeTypeOK
<1>3. run[r].next = 1 /\ run[r].level = 0
  BY <1>1 DEF NodeInv, RunInv, Bookkeeping
<1>4. \/ run'[r].pc = "ending"
      \/ /\ run'[r].pc = "calls" /\ run'[r].round = k /\ run'[r].level = 0
         /\ run'[r].next = 1 /\ Untouched(k)
  BY <1>2, <1>3, Effects DEF Pending
<1>5. HasRow(r)' /\ AtWork(r)'
  BY <1>1, <1>4 DEF HasRow, AtWork, Untouched
<1>6. DecidedOnce'
  <2>1. /\ \A d \in decisions : d[1] # k /\ d[1] <= Len(answers)
        /\ k <= Len(answers)
    <3>1. \A d \in decisions : d[1] # Len(answers)
      BY <1>2 DEF Pending
    <3>2. \A d \in decisions : d[1] <= Len(answers)
      BY DEF DecidedOnce
    <3>3. k = Len(answers) /\ Len(answers) \in Nat
      BY <1>2
    <3> HIDE DEF k
    <3> QED BY <3>1, <3>2, <3>3
  <2> HIDE DEF k
  <2>2. ASSUME NEW d \in decisions'
        PROVE  /\ d[1] <= Len(answers')
               /\ <<d[1], "proceed">> \notin decisions' \/ <<d[1], "reject">> \notin decisions'
    <3>1. CASE d \in decisions
      BY <1>1, <2>1, <3>1 DEF DecidedOnce
    <3>2. CASE d = <<k, run[r].mode>>
      <4>1. <<k, "proceed">> \notin decisions /\ <<k, "reject">> \notin decisions
        BY <2>1
      <4> QED BY <1>1, <2>1, <3>2, <4>1
    <3> QED BY <1>1, <2>2, <3>1, <3>2
  <2> QED BY <2>2 DEF DecidedOnce
<1>7. MadeOnce'
  BY <1>1 DEF MadeOnce
<1> QED BY <1>1, <1>5, <1>6, <1>7, LiveAlone, SequenceStep

(* The run ends, not by stopping for a human, or goes on to ask the model. *)
LEMMA LeavingKeepsSequence ==
    ASSUME NodeInv, SequenceInv, ~ agent.overlap, NEW r \in Runs, Step(r),
           UNCHANGED <<agent, answers, ran, decisions>>,
           \/ \E state \in {"FINISHED", "ERROR", "TERMINATED"}, place \in Endings :
                 End(r, state, place)
           \/ run'[r].pc = "model" /\ execution' = execution /\ run[r].pc # "claiming"
    PROVE  SequenceInv'
<1>. NodeTypeOK /\ Acts(r) /\ DecidedOnce /\ MadeOnce /\ HasRow(r)
  BY DEF NodeInv, SequenceInv, Acts
<1>1. DecidedOnce' /\ MadeOnce'
  BY DEF DecidedOnce, MadeOnce
<1>2. /\ execution'.state # "STOPPED"
      /\ run'[r].pc = "model" \/ run'[r].pc \in Endings
  <2>1. CASE \E state \in {"FINISHED", "ERROR", "TERMINATED"}, place \in Endings :
                 End(r, state, place)
    BY <2>1, Effects DEF End, NodeTypeOK
  <2>2. CASE run'[r].pc = "model" /\ execution' = execution /\ run[r].pc # "claiming"
    BY <2>2, LiveAlone DEF HasRow
  <2> QED BY <2>1, <2>2
<1>3. HasRow(r)' /\ AtWork(r)'
  BY <1>2 DEF HasRow, AtWork, Live, Endings
<1> QED BY <1>1, <1>2, <1>3, LiveAlone, SequenceStep

LEMMA SkipKeepsSequence ==
    ASSUME NodeInv, SequenceInv, ~ agent.overlap, NEW r \in Runs, Unknown(r) \/ RejectCall(r)
    PROVE  SequenceInv'
<1>. NodeTypeOK /\ Acts(r) /\ Step(r) /\ DecidedOnce /\ MadeOnce /\ HasRow(r) /\ AtWork(r)
  BY DEF NodeInv, SequenceInv, Acts, Step
<1>1. UNCHANGED <<agent, execution, answers, ran, decisions>> /\ run[r].pc = "calls"
  BY DEF Unknown, RejectCall, AtCall
<1>2. DecidedOnce' /\ MadeOnce'
  BY <1>1 DEF DecidedOnce, MadeOnce
<1>3. /\ run'[r].pc = "calls" /\ run'[r].level = run[r].level /\ run'[r].round = run[r].round
      /\ run'[r].next = run[r].next + 1 /\ run[r].next \in Nat
      /\ run[r].level = 0 \/ run'[r].messages = run[r].messages
  BY Effects DEF RejectCall, Resumed, NodeTypeOK
<1>4. execution.state # "STOPPED"
  BY <1>1 DEF HasRow, Live
<1>5. \A j \in 1..Len(ran) : ran[j].pos \in Nat
  BY CallTypes
<1>6. HasRow(r)' /\ AtWork(r)'
  BY <1>1, <1>3, <1>4, <1>5 DEF HasRow, AtWork, Pending, Untouched
<1> QED BY <1>1, <1>2, <1>4, <1>6, LiveAlone, SequenceStep

LEMMA AskHumanKeepsSequence ==
    ASSUME NodeInv, SequenceInv, ~ agent.overlap, NEW r \in Runs, AskHuman(r)
    PROVE  SequenceInv'
<1>. NodeTypeOK /\ Acts(r) /\ Step(r) /\ DecidedOnce /\ MadeOnce /\ HasRow(r) /\ AtWork(r)
  BY DEF NodeInv, SequenceInv, Acts, Step
<1>1. UNCHANGED <<agent, answers, ran, decisions>> /\ run[r].pc = "calls" /\ run[r].level # 0
  BY DEF AskHuman, AtCall, Resumed
<1>2. CASE run[r].level = 1
  <2>1. execution' = [state |-> "STOPPED", messages |-> run[r].messages]
    BY <1>2 DEF AskHuman
  <2>2. Pending(run[r].messages)
    BY <1>1 DEF AtWork
  <2>3. Pending(execution.messages)'
    BY <1>1, <2>1, <2>2 DEF Pending, Untouched
  <2>4. run'[r].pc \in {"stopped", "finished"}
    BY Effects
  <2>5. HasRow(r)' /\ AtWork(r)'
    BY <2>4 DEF HasRow, AtWork, Live
  <2>6. DecidedOnce' /\ MadeOnce'
    BY <1>1 DEF DecidedOnce, MadeOnce
  <2> QED BY <2>3, <2>5, <2>6, LiveAlone, SequenceStep
<1>3. CASE run[r].level # 1
  <2>1. End(r, "FINISHED", "finished")
    BY <1>3 DEF AskHuman
  <2> QED BY <1>1, <2>1, LeavingKeepsSequence DEF Endings
<1> QED BY <1>2, <1>3

LEMMA ModelCallsKeepsSequence ==
    ASSUME NodeInv, SequenceInv, ~ agent.overlap, NEW r \in Runs, NEW names \in Answers,
           ModelCalls(r, names)
    PROVE  SequenceInv'
<1>. NodeTypeOK /\ Acts(r) /\ Step(r) /\ DecidedOnce /\ MadeOnce /\ HasRow(r)
  BY DEF NodeInv, SequenceInv, Acts, Step
<1> DEFINE k == Len(answers) + 1
<1>1. /\ UNCHANGED <<agent, execution, ran, decisions>> /\ run[r].pc = "model"
      /\ answers' = Append(answers, names)
  BY DEF ModelCalls
<1>2. /\ Len(answers') = k /\ Len(answers) \in Nat
      /\ \A d \in decisions : d[1] \in Nat
      /\ \A j \in 1..Len(ran) : ran[j].round \in Nat /\ ran[j].round <= Len(answers)
  <2>1. Len(answers') = k /\ Len(answers) \in Nat
    BY <1>1 DEF NodeTypeOK
  <2>2. \A d \in decisions : d[1] \in Nat
    BY DEF NodeTypeOK
  <2>3. \A j \in 1..Len(ran) : ran[j].round \in Nat /\ ran[j].round <= Len(answers)
    BY <2>1, CallTypes DEF NodeInv, CallsExist
  <2> QED BY <2>1, <2>2, <2>3
<1>3. /\ run'[r].pc = "calls" /\ run'[r].round = k /\ run'[r].next = 1
      /\ run'[r].messages = Append(run[r].messages, Assistant(k))
  BY Effects
<1>4. /\ run'[r].messages # <<>> /\ Last(run'[r].messages) = Assistant(k)
      /\ Assistant(k).round = k
  <2>1. run[r].messages \in Seq(Messages)
    BY DEF NodeTypeOK
  <2> QED BY <1>3, <2>1, LastAppended DEF Assistant
<1>5. \A d \in decisions : d[1] # k /\ d[1] <= k
  <2>1. \A d \in decisions : d[1] <= Len(answers)
    BY DEF DecidedOnce
  <2> QED BY <1>2, <2>1
<1>6. \A j \in 1..Len(ran) : ran[j].round # k
  BY <1>2
<1>7. DecidedOnce' /\ MadeOnce'
  BY <1>1, <1>2, <1>5 DEF DecidedOnce, MadeOnce
<1>8. execution.state # "STOPPED"
  BY <1>1 DEF HasRow, Live
<1> HIDE DEF k
<1>9. AtWork(r)'
  BY <1>1, <1>2, <1>3, <1>4, <1>5, <1>6 DEF AtWork, Pending, Untouched
<1>10. HasRow(r)'
  BY <1>1, <1>3, <1>8 DEF HasRow
<1> QED BY <1>1, <1>7, <1>8, <1>9, <1>10, LiveAlone, SequenceStep

LEMMA CallToolKeepsSequence ==
    ASSUME NodeInv, SequenceInv, ~ agent.overlap, NEW r \in Runs, CallTool(r)
    PROVE  SequenceInv'
<1>. NodeTypeOK /\ Acts(r) /\ Step(r) /\ DecidedOnce /\ MadeOnce /\ HasRow(r) /\ AtWork(r)
  BY DEF NodeInv, SequenceInv, Acts, Step
<1> DEFINE c == [round |-> run[r].round, pos |-> run[r].next, by |-> r]
<1>1. /\ UNCHANGED <<agent, execution, answers, decisions>> /\ run[r].pc = "calls"
      /\ ran' = Append(ran, c)
  BY DEF CallTool, MayCall, AtCall
<1>2. /\ Len(ran') = Len(ran) + 1 /\ Len(ran) \in Nat
      /\ ran'[Len(ran) + 1] = c
      /\ \A j \in 1..Len(ran) : ran'[j] = ran[j] /\ ran[j].pos \in Nat
      /\ \A j \in 1..Len(ran') : j = Len(ran) + 1 \/ j \in 1..Len(ran)
  <2> DEFINE S == [round : Nat, pos : Nat, by : Runs]
  <2>1. ran \in Seq(S)
    BY DEF NodeTypeOK
  <2>2. \A j \in 1..Len(ran) : ran[j].pos \in Nat
    BY CallTypes
  <2> HIDE DEF c, S
  <2> QED BY <1>1, <2>1, <2>2
<1>3. c.round = run[r].round /\ c.pos = run[r].next /\ run[r].next \in Nat
  BY DEF NodeTypeOK
<1> HIDE DEF c
<1>4. /\ run'[r].pc = "calls" /\ run'[r].level = run[r].level /\ run'[r].round = run[r].round
      /\ run'[r].next = run[r].next + 1
      /\ run'[r].messages = Append(run[r].messages, Tool(run[r].round, run[r].next))
  BY Effects
<1>5. /\ run'[r].messages # <<>>
      /\ Last(run'[r].messages) = Tool(run[r].round, run[r].next)
      /\ Tool(run[r].round, run[r].next).round = run[r].round
      /\ Tool(run[r].round, run[r].next).role = "tool"
  <2>1. run[r].messages \in Seq(Messages)
    BY DEF NodeTypeOK
  <2> QED BY <1>4, <2>1, LastAppended DEF Tool
<1>6. execution.state # "STOPPED"
  BY <1>1 DEF HasRow, Live
<1>7. HasRow(r)'
  BY <1>1, <1>4, <1>6 DEF HasRow
<1>8. AtWork(r)'
  <2>2. run'[r].level # 0 => run'[r].round = Len(answers') /\ Pending(run[r].messages)'
    BY <1>1, <1>4, <1>5 DEF AtWork, Pending
  <2>3. \A j \in 1..Len(ran') : ran'[j].round = run'[r].round => ran'[j].pos < run'[r].next
    BY <1>1, <1>2, <1>3, <1>4 DEF AtWork
  <2> QED BY <2>2, <2>3 DEF AtWork, Pending, Untouched
<1>9. MadeOnce'
  <2>1. \A j \in 1..Len(ran) : ran[j].round = c.round => ran[j].pos # c.pos
    BY <1>1, <1>2, <1>3 DEF AtWork
  <2> QED BY <1>2, <2>1 DEF MadeOnce
<1>10. DecidedOnce'
  BY <1>1 DEF DecidedOnce
<1> QED BY <1>1, <1>6, <1>7, <1>8, <1>9, <1>10, LiveAlone, SequenceStep

LEMMA SequenceStepKeeps ==
    ASSUME NodeInv, SequenceInv, NodeNext
    PROVE  SequenceInv'
<1>1. PICK r \in Runs : \/ BeginNew(r)
                        \/ \E mode \in {"proceed", "reject"} : BeginResume(r, mode)
                        \/ Step(r)
  BY DEF NodeNext
<1>2. CASE agent.overlap
  BY <1>1, <1>2, NodeFrame DEF SequenceInv, Acts, NodeInv
<1>3. CASE ~ agent.overlap
  <2>1. CASE BeginNew(r) \/ \E mode \in {"proceed", "reject"} : BeginResume(r, mode)
    BY <1>3, <2>1, BeginKeepsSequence
  <2>2. CASE Claim(r)
    BY <1>3, <2>2, ClaimKeepsSequence
  <2>3. CASE NodeEnds(r) \/ Throws(r)
    <3>1. /\ UNCHANGED <<agent, answers, ran, decisions>> /\ Step(r)
          /\ \E state \in {"FINISHED", "ERROR", "TERMINATED"}, place \in Endings : End(r, state, place)
      BY <2>3 DEF NodeEnds, Throws, Step, Endings
    <3> QED BY <1>3, <3>1, LeavingKeepsSequence
  <2>4. CASE Unknown(r) \/ RejectCall(r)
    BY <1>3, <2>4, SkipKeepsSequence
  <2>5. CASE CallTool(r)
    BY <1>3, <2>5, CallToolKeepsSequence
  <2>6. CASE AskHuman(r)
    BY <1>3, <2>6, AskHumanKeepsSequence
  <2>7. CASE EndCalls(r)
    <3>1. /\ UNCHANGED <<agent, answers, ran, decisions>> /\ Step(r) /\ run[r].pc # "claiming"
          /\ \/ End(r, "FINISHED", "finished")
             \/ run' = [run EXCEPT ![r].pc = "model"] /\ execution' = execution
      BY <2>7 DEF EndCalls, Step
    <3>2. run' = [run EXCEPT ![r].pc = "model"] => run'[r].pc = "model"
      BY DEF NodeInv, NodeTypeOK
    <3> QED BY <1>3, <3>1, <3>2, LeavingKeepsSequence DEF Endings
  <2>8. CASE \E names \in Answers : ModelCalls(r, names)
    BY <1>3, <2>8, ModelCallsKeepsSequence
  <2> QED BY <1>1, <2>1, <2>2, <2>3, <2>4, <2>5, <2>6, <2>7, <2>8 DEF Step
<1> QED BY <1>2, <1>3

LEMMA SequenceStutterKeeps ==
    ASSUME SequenceInv, UNCHANGED nodeVars
    PROVE  SequenceInv'
<1>. UNCHANGED <<agent, execution, answers, run, ran, shown, decisions>>
  BY DEF nodeVars
<1>1. (Alone /\ DecidedOnce /\ MadeOnce) <=> (Alone' /\ DecidedOnce' /\ MadeOnce')
  BY DEF Alone, DecidedOnce, MadeOnce
<1>2. \A r \in Runs : (HasRow(r) /\ AtWork(r)) <=> (HasRow(r)' /\ AtWork(r)')
  BY DEF HasRow, AtWork, Pending, Untouched
<1>3. Pending(execution.messages)' <=> Pending(execution.messages)
  BY DEF Pending, Untouched
<1> QED BY <1>1, <1>2, <1>3 DEF SequenceInv

LEMMA SequenceInvHolds == NodeSpec => []SequenceInv
<1>1. NodeInit => SequenceInv
  <2> SUFFICES ASSUME NodeInit PROVE SequenceInv
    OBVIOUS
  <2> USE DEF NodeInit
  <2>1. execution.state = "NONE" /\ \A r \in Runs : run[r].pc = "idle"
    BY DEF Locals
  <2>2. Alone /\ \A r \in Runs : HasRow(r) /\ AtWork(r)
    BY <2>1 DEF Alone, HasRow, AtWork, Live
  <2>3. DecidedOnce /\ MadeOnce
    BY DEF DecidedOnce, MadeOnce
  <2> QED BY <2>1, <2>2, <2>3 DEF SequenceInv
<1>2. NodeInv /\ SequenceInv /\ [NodeNext]_nodeVars => SequenceInv'
  BY SequenceStepKeeps, SequenceStutterKeeps
<1> QED
  BY <1>1, <1>2, NodeInvHolds, PTL DEF NodeSpec

(* Stopping and resuming calls no tool twice for one call of the model, as *)
(* long as requests do not overlap (Agent.ts 1570-1588).                   *)
THEOREM CallsRunOnce == NodeSpec => []RanOnce
<1>1. NodeInv /\ SequenceInv => RanOnce
  <2> SUFFICES ASSUME NodeInv, SequenceInv, ~ agent.overlap,
                      NEW i \in 1..Len(ran), NEW j \in 1..Len(ran), i # j,
                      <<ran[i].round, ran[i].pos>> = <<ran[j].round, ran[j].pos>>
               PROVE  FALSE
    BY DEF RanOnce
  <2>1. ran[i].round = ran[j].round /\ ran[i].pos = ran[j].pos
    OBVIOUS
  <2> QED BY <2>1 DEF SequenceInv, MadeOnce
<1> QED
  BY <1>1, NodeInvHolds, SequenceInvHolds, PTL

(* What a human rejected does not run, then or later, as long as requests  *)
(* do not overlap: a tool that requires a human runs after a "proceed"     *)
(* only, and an answer is decided about once (Agent.ts 1624-1627).         *)
THEOREM RejectedStaysOut == NodeSpec => []RejectedNeverRuns
<1>1. NodeInv /\ SequenceInv => RejectedNeverRuns
  <2> SUFFICES ASSUME NodeInv, SequenceInv, ~ agent.overlap, NEW k \in 1..Len(answers),
                      <<k, "reject">> \in decisions,
                      NEW call \in CallsOf(k) \cap Made, Guarded(NameOf(call))
               PROVE  FALSE
    BY DEF RejectedNeverRuns
  <2>1. call[1] = k
    BY DEF CallsOf
  <2>2. <<k, "proceed">> \in decisions
    BY <2>1 DEF NodeInv, HumanFirst
  <2>3. \A d \in decisions : <<d[1], "proceed">> \notin decisions \/ <<d[1], "reject">> \notin decisions
    BY DEF SequenceInv, DecidedOnce
  <2>4. <<k, "proceed">>[1] = k
    OBVIOUS
  <2> HIDE DEF CallsOf
  <2> QED BY <2>2, <2>3, <2>4
<1> QED
  BY <1>1, NodeInvHolds, SequenceInvHolds, PTL

-----------------------------------------------------------------------------
(* What a "proceed" leads to, overlapping requests included. *)

(* Messages belong to answers, results to calls that were made. *)
Numbered(messages) ==
    \A i \in 1..Len(messages) :
        /\ messages[i].round <= Len(answers)
        /\ messages[i].role = "tool" => <<messages[i].round, messages[i].pos>> \in Made

(* It ends in an answer or in the result of one of its calls; a human was  *)
(* shown no call before that one.                                          *)
Stoppable(messages) ==
    /\ messages # <<>>
    /\ Last(messages).role # "user"
    /\ Last(messages).role = "tool" =>
          \A call \in shown : call[1] = Last(messages).round => Last(messages).pos < call[2]

(* An answer of its own model is the run's alone until it stops. *)
OwnAnswer(r) ==
    run[r].pc = "calls" /\ run[r].level # 0 =>
        /\ run[r].messages # <<>>
        /\ Last(run[r].messages).role # "user" /\ Last(run[r].messages).round = run[r].round
        /\ Last(run[r].messages).role = "tool" => Last(run[r].messages).pos < run[r].next
        /\ \A call \in shown : call[1] # run[r].round
        /\ execution.state = "STOPPED" => Last(execution.messages).round # run[r].round
        /\ \A s \in Runs :
              /\ run[s].resumed # run[r].round
              /\ run[s].pc = "claiming" => Last(run[s].messages).round # run[r].round
              /\ s # r /\ run[s].pc = "calls" /\ run[s].level # 0 => run[s].round # run[r].round

ShownExist ==
    \A call \in shown : /\ call[1] \in 1..Len(answers)
                        /\ call[2] \in 1..Len(answers[call[1]])
                        /\ NameOf(call) \in agent.tools

Answered(call) == call \in Made \/ \E i \in 1..(call[2] - 1) : <<call[1], i>> \in Made

(* The run makes what was shown of the answer it resumed, call by call. *)
Honouring(r) ==
    run[r].mode = "proceed" =>
        /\ run[r].pc = "calls" /\ run[r].level = 0 =>
              /\ run[r].round = run[r].resumed
              /\ \A call \in shown : call[1] = run[r].resumed /\ call[2] < run[r].next => call \in Made
        /\ \/ run[r].pc = "calls" /\ run[r].level # 0
           \/ run[r].pc \in {"ending", "model", "finished", "stopped"}
           => \A call \in shown : call[1] = run[r].resumed => Answered(call)

Resuming(r) ==
    /\ Numbered(run[r].messages)
    /\ run[r].resumed <= Len(answers)
    /\ run[r].tools \subseteq agent.tools
    /\ run[r].mode # "reject" => run[r].tools = agent.tools
    /\ run[r].pc = "claiming" => Stoppable(run[r].messages)
    /\ OwnAnswer(r)
    /\ Honouring(r)

HonourInv ==
    /\ ShownExist
    /\ Numbered(execution.messages)
    /\ execution.state = "STOPPED" => Stoppable(execution.messages)
    /\ \A r \in Runs : Resuming(r)

LEMMA HistoryGrows ==
    ASSUME NodeTypeOK, NodeTypeOK', NEW r \in Runs, Acts(r)
    PROVE  /\ Grows /\ Len(answers) \in Nat /\ Len(answers') \in Nat
           /\ Made \subseteq Made'
           /\ CallTool(r) => <<run[r].round, run[r].next>> \in Made'
<1>1. /\ agent' = agent /\ decisions \subseteq decisions'
      /\ answers' = answers \/ \E names : answers' = Append(answers, names)
      /\ ran' = ran \/ CallTool(r)
  BY NodeFrame DEF Claim, ModelCalls
<1>2. Grows /\ Len(answers) \in Nat /\ Len(answers') \in Nat
  <2>1. answers \in Seq(Seq(Names)) /\ answers' \in Seq(Seq(Names))
    BY DEF NodeTypeOK
  <2>2. Len(answers) <= Len(answers') /\ \A k \in 1..Len(answers) : answers'[k] = answers[k]
    <3>1. CASE answers' = answers
      BY <2>1, <3>1
    <3>2. ASSUME NEW names, answers' = Append(answers, names)
          PROVE  Len(answers') = Len(answers) + 1 /\ \A k \in 1..Len(answers) : answers'[k] = answers[k]
      BY <2>1, <3>2
    <3> QED BY <1>1, <2>1, <3>1, <3>2
  <2> QED BY <1>1, <2>1, <2>2 DEF Grows
<1>3. ASSUME CallTool(r)
      PROVE  Made \subseteq Made' /\ <<run[r].round, run[r].next>> \in Made'
  <2> DEFINE c == [round |-> run[r].round, pos |-> run[r].next, by |-> r]
             S == [round : Nat, pos : Nat, by : Runs]
  <2>1. ran' = Append(ran, c) /\ ran \in Seq(S)
    BY <1>3 DEF CallTool, NodeTypeOK
  <2>2. c.round = run[r].round /\ c.pos = run[r].next
    OBVIOUS
  <2> HIDE DEF c, S
  <2>3. /\ Len(ran') = Len(ran) + 1 /\ Len(ran) \in Nat
        /\ ran'[Len(ran) + 1] = c
        /\ \A j \in 1..Len(ran) : ran'[j] = ran[j]
    BY <2>1
  <2>4. \A j \in 1..Len(ran) : j \in 1..Len(ran') /\ ran'[j] = ran[j]
    BY <2>3
  <2>5. Len(ran) + 1 \in 1..Len(ran')
    BY <2>3
  <2> QED BY <2>2, <2>3, <2>4, <2>5 DEF Made
<1>4. ran' = ran => Made' = Made
  BY DEF Made
<1> QED BY <1>1, <1>2, <1>3, <1>4

(* What the other runs see of a step. *)
LEMMA Seen ==
    ASSUME NodeInv, NEW r \in Runs, Acts(r)
    PROVE  /\ \/ shown' = shown
              \/ /\ run[r].pc = "calls" /\ run[r].level # 0
                 /\ shown' = shown \cup {<<run[r].round, run[r].next>>}
           /\ execution'.messages = execution.messages \/ execution'.messages = run[r].messages
           /\ execution'.state = "STOPPED" =>
                 \/ execution' = execution
                 \/ /\ run[r].pc = "calls" /\ run[r].level # 0
                    /\ execution'.messages = run[r].messages
           /\ \/ run'[r].resumed \in {run[r].resumed, 0}
              \/ run[r].pc = "claiming" /\ run'[r].resumed = Last(run[r].messages).round
           /\ run'[r].pc = "claiming" =>
                 execution.state = "STOPPED" /\ run'[r].messages = execution.messages
           /\ run'[r].pc = "calls" /\ run'[r].level # 0 =>
                 \/ run'[r].round = Len(answers) + 1
                 \/ /\ run[r].pc = "calls" /\ run[r].level # 0
                    /\ run'[r].round = run[r].round
<1>. NodeTypeOK
  BY DEF NodeInv
<1>a. execution = [state |-> execution.state, messages |-> execution.messages]
  BY DEF NodeTypeOK
<1>1. /\ \/ shown' = shown
         \/ /\ run[r].pc = "calls" /\ run[r].level # 0
            /\ shown' = shown \cup {<<run[r].round, run[r].next>>}
      /\ execution'.messages = execution.messages \/ execution'.messages = run[r].messages
      /\ execution'.state = "STOPPED" =>
            \/ execution' = execution
            \/ /\ run[r].pc = "calls" /\ run[r].level # 0
               /\ execution'.messages = run[r].messages
  <2>1. CASE AskHuman(r)
    <3>1. /\ run[r].pc = "calls" /\ run[r].level # 0
          /\ shown' = shown \cup {<<run[r].round, run[r].next>>}
          /\ \/ execution' = [state |-> "STOPPED", messages |-> run[r].messages]
             \/ execution' = [execution EXCEPT !.state = "FINISHED"]
      BY <2>1 DEF AskHuman, AtCall, Resumed, End
    <3> QED BY <1>a, <3>1
  <2>2. CASE ~ AskHuman(r)
    <3>1. shown' = shown
      BY <2>2, NodeFrame
    <3>2. \/ execution' = execution
          \/ \E state \in {"INPROGRESS", "FINISHED", "ERROR", "TERMINATED"} :
                execution' = [execution EXCEPT !.state = state]
      BY <2>2 DEF Acts, Step, BeginNew, BeginResume, Claim, NodeEnds, Throws, Unknown, CallTool,
                  RejectCall, EndCalls, ModelCalls, End
    <3>3. \/ execution' = execution
          \/ execution'.state # "STOPPED" /\ execution'.messages = execution.messages
      BY <1>a, <3>2
    <3> QED BY <3>1, <3>3
  <2> QED BY <2>1, <2>2
<1> DEFINE Locally ==
       /\ \/ run'[r].resumed \in {run[r].resumed, 0}
          \/ run[r].pc = "claiming" /\ run'[r].resumed = Last(run[r].messages).round
       /\ run'[r].pc = "claiming" =>
             execution.state = "STOPPED" /\ run'[r].messages = execution.messages
       /\ run'[r].pc = "calls" /\ run'[r].level # 0 =>
             \/ run'[r].round = Len(answers) + 1
             \/ /\ run[r].pc = "calls" /\ run[r].level # 0
                /\ run'[r].round = run[r].round
<1>2. CASE BeginNew(r)
  <2>1. run'[r].resumed = 0 /\ run'[r].pc = "model"
    BY <1>2, Effects
  <2> QED BY <1>1, <2>1
<1>3. ASSUME NEW mode, BeginResume(r, mode)
      PROVE  Locally
  <2>1. CASE execution.state = "STOPPED"
    <3>1. /\ run'[r].pc = "claiming" /\ run'[r].resumed = 0
          /\ run'[r].messages = execution.messages
      BY <1>3, <2>1, Effects
    <3> QED BY <2>1, <3>1
  <2>2. CASE execution.state # "STOPPED"
    <3>1. run' = [run EXCEPT ![r].pc = "refused"]
      BY <1>3, <2>2 DEF BeginResume
    <3>2. run'[r].resumed = run[r].resumed /\ run'[r].pc = "refused"
      BY <3>1 DEF NodeTypeOK
    <3> QED BY <3>2
  <2> QED BY <2>1, <2>2
<1>4. CASE Claim(r)
  <2>1. run[r].pc = "claiming" /\ run[r].level = 0
    BY <1>4 DEF Claim, NodeInv, RunInv, Bookkeeping
  <2>2. run'[r].resumed = Last(run[r].messages).round /\ run'[r].level = run[r].level
    BY <1>4, Effects
  <2>3. run'[r].pc = "calls" \/ run'[r].pc = "ending"
    BY <1>4, Effects
  <2> QED BY <1>1, <2>1, <2>2, <2>3
<1>5. ASSUME NEW state, NEW place, End(r, state, place), place \in Endings
      PROVE  Locally
  <2>1. run'[r].resumed = run[r].resumed /\ run'[r].pc = place
    BY <1>5, Effects
  <2> QED BY <1>5, <2>1 DEF Endings
<1>6. CASE NodeEnds(r) \/ Throws(r)
  <2>1. \E state, place : End(r, state, place) /\ place \in Endings
    BY <1>6 DEF NodeEnds, Throws, Endings
  <2> HIDE DEF Locally
  <2>2. Locally
    BY <1>5, <2>1
  <2> USE DEF Locally
  <2> QED BY <1>1, <2>2
<1>7. CASE \E names \in Answers : ModelCalls(r, names)
  <2>1. run'[r].resumed = run[r].resumed /\ run'[r].pc = "calls" /\ run'[r].round = Len(answers) + 1
    BY <1>7, Effects
  <2> QED BY <1>1, <2>1
<1>8. CASE Unknown(r) \/ CallTool(r) \/ RejectCall(r)
  <2>1. run[r].pc = "calls"
    BY <1>8 DEF Unknown, CallTool, MayCall, RejectCall, AtCall
  <2>2. /\ run'[r].resumed = run[r].resumed /\ run'[r].pc = "calls"
        /\ run'[r].level = run[r].level /\ run'[r].round = run[r].round
    BY <1>8, Effects
  <2> QED BY <1>1, <2>1, <2>2
<1>9. CASE AskHuman(r) \/ EndCalls(r)
  <2>1. run'[r].resumed = run[r].resumed /\ run'[r].pc \in {"stopped", "finished", "model"}
    BY <1>9, Effects
  <2> QED BY <1>1, <2>1
<1> QED BY <1>1, <1>2, <1>3, <1>4, <1>6, <1>7, <1>8, <1>9 DEF Acts, Step

(* Messages that are numbered stay so, whatever is added to the history. *)
LEMMA NumberedStays ==
    ASSUME Len(answers) \in Nat, Len(answers') \in Nat, Len(answers) <= Len(answers'),
           Made \subseteq Made', NEW messages \in Seq(Messages), Numbered(messages)
    PROVE  \A i \in 1..Len(messages) :
              /\ messages[i].round <= Len(answers')
              /\ messages[i].role = "tool" => <<messages[i].round, messages[i].pos>> \in Made'
<1>1. \A i \in 1..Len(messages) : messages[i] \in Messages
  BY Elements
<1>2. \A i \in 1..Len(messages) : messages[i].round \in Nat
  BY <1>1 DEF Messages
<1> QED BY <1>2 DEF Numbered

(* The messages of a stop, as they are in every state that has them. *)
LEMMA StoppableParts ==
    ASSUME NEW messages \in Seq(Messages), Stoppable(messages)
    PROVE  /\ Len(messages) \in Nat \ {0} /\ Last(messages) = messages[Len(messages)]
           /\ Last(messages) \in Messages /\ Last(messages).role \in {"assistant", "tool"}
           /\ Last(messages).round \in Nat /\ Last(messages).pos \in Nat
<1>1. Len(messages) \in Nat \ {0}
  BY DEF Stoppable
<1>2. Last(messages) = messages[Len(messages)]
  BY DEF Last
<1>3. messages[Len(messages)] \in Messages
  BY <1>1
<1> QED BY <1>1, <1>2, <1>3 DEF Messages, Stoppable

(* What was shown, before or by this step. *)
LEMMA ShownThen ==
    ASSUME NodeInv, HonourInv, NEW r \in Runs, Acts(r)
    PROVE  \A call \in shown' :
              \/ call \in shown
              \/ /\ run[r].pc = "calls" /\ run[r].level # 0
                 /\ call[1] = run[r].round /\ call[2] = run[r].next
                 /\ \A c \in shown : c[1] # call[1]
                 /\ execution.state = "STOPPED" => Last(execution.messages).round # call[1]
                 /\ \A s \in Runs : /\ run[s].resumed # call[1]
                                    /\ run[s].pc = "claiming" =>
                                          Last(run[s].messages).round # call[1]
<1>1. OwnAnswer(r)
  BY DEF HonourInv, Resuming
<1>2. SUFFICES ASSUME NEW call \in shown', call \notin shown
               PROVE  /\ run[r].pc = "calls" /\ run[r].level # 0
                      /\ call[1] = run[r].round /\ call[2] = run[r].next
  BY <1>1, <1>2 DEF OwnAnswer
<1>3. \/ shown' = shown
      \/ /\ run[r].pc = "calls" /\ run[r].level # 0
         /\ shown' = shown \cup {<<run[r].round, run[r].next>>}
  BY Seen
<1> QED BY <1>2, <1>3

LEMMA OthersResume ==
    ASSUME NodeInv, NodeTypeOK', HonourInv, NEW r \in Runs, Acts(r), NEW d \in Runs, d # r
    PROVE  Resuming(d)'
<1>. NodeTypeOK /\ Resuming(d) /\ OwnAnswer(d) /\ OwnAnswer(r)
  BY DEF NodeInv, HonourInv, Resuming
<1>1. run'[d] = run[d] /\ agent' = agent
  BY NodeFrame
<1>2. /\ Grows /\ Len(answers) \in Nat /\ Len(answers') \in Nat
      /\ Len(answers) <= Len(answers') /\ Made \subseteq Made'
  BY HistoryGrows DEF Grows
<1>3. run[d].messages \in Seq(Messages) /\ run[d].resumed \in Nat /\ run[d].round \in Nat
  BY DEF NodeTypeOK
<1>4. Numbered(run[d].messages)'
  <2>1. Numbered(run[d].messages)
    BY DEF Resuming
  <2> QED BY <1>1, <1>2, <1>3, <2>1, NumberedStays DEF Numbered
<1>5. (run[d].pc = "claiming" => Stoppable(run[d].messages))'
  <2>1. SUFFICES ASSUME run[d].pc = "claiming", Last(run[d].messages).role = "tool",
                        NEW call \in shown', call[1] = Last(run[d].messages).round
                 PROVE  Last(run[d].messages).pos < call[2]
    BY <1>1 DEF Resuming, Stoppable
  <2>2. call \in shown
    BY <2>1, ShownThen
  <2> QED BY <2>1, <2>2 DEF Resuming, Stoppable
<1>6. OwnAnswer(d)'
  <2> SUFFICES ASSUME run[d].pc = "calls", run[d].level # 0
               PROVE  /\ \A call \in shown' : call[1] # run[d].round
                      /\ execution'.state = "STOPPED" => Last(execution'.messages).round # run[d].round
                      /\ \A s \in Runs :
                            /\ run'[s].resumed # run[d].round
                            /\ run'[s].pc = "claiming" => Last(run'[s].messages).round # run[d].round
                            /\ s # d /\ run'[s].pc = "calls" /\ run'[s].level # 0 =>
                                  run'[s].round # run[d].round
    BY <1>1 DEF OwnAnswer
  <2>1. run[d].round \in 1..Len(answers)
    BY DEF NodeInv, RunInv, Bookkeeping
  <2>2. run[r].pc = "calls" /\ run[r].level # 0 =>
           run[r].round # run[d].round /\ Last(run[r].messages).round = run[r].round
    BY DEF OwnAnswer
  <2>3. \A call \in shown' : call[1] # run[d].round
    BY <2>2, ShownThen DEF OwnAnswer
  <2>4. execution'.state = "STOPPED" => Last(execution'.messages).round # run[d].round
    BY <2>2, Seen DEF OwnAnswer
  <2>5. ASSUME NEW s \in Runs
        PROVE  /\ run'[s].resumed # run[d].round
               /\ run'[s].pc = "claiming" => Last(run'[s].messages).round # run[d].round
               /\ s # d /\ run'[s].pc = "calls" /\ run'[s].level # 0 => run'[s].round # run[d].round
    <3>1. CASE s # r
      <4>1. run'[s] = run[s]
        BY <3>1, NodeFrame
      <4> QED BY <4>1 DEF OwnAnswer
    <3>2. CASE s = r
      <4>1. run'[r].resumed # run[d].round
        BY <2>1, Seen DEF OwnAnswer
      <4>2. run'[r].pc = "claiming" => Last(run'[r].messages).round # run[d].round
        BY Seen DEF OwnAnswer
      <4>3. run'[r].pc = "calls" /\ run'[r].level # 0 => run'[r].round # run[d].round
        BY <1>2, <2>1, <2>2, Seen
      <4> QED BY <3>2, <4>1, <4>2, <4>3
    <3> QED BY <3>1, <3>2
  <2> QED BY <2>3, <2>4, <2>5
<1>7. Honouring(d)'
  <2>1. \A call \in shown' : call[1] = run[d].resumed => call \in shown
    BY ShownThen
  <2>2. ASSUME NEW call, Answered(call)
        PROVE  Answered(call)'
    BY <1>2, <2>2 DEF Answered
  <2> QED BY <1>1, <1>2, <2>1, <2>2 DEF Resuming, Honouring
<1> QED BY <1>1, <1>2, <1>3, <1>4, <1>5, <1>6, <1>7 DEF Resuming

(* The same for the run that steps: what is left to show of it.            *)
LEMMA RunResumes ==
    ASSUME NodeInv, NodeTypeOK', HonourInv, NEW r \in Runs, Acts(r),
           Numbered(run[r].messages)',
           run'[r].resumed <= Len(answers'),
           run'[r].tools \subseteq agent.tools,
           run'[r].mode # "reject" => run'[r].tools = agent.tools,
           run'[r].pc # "claiming",
           ~ (run'[r].pc = "calls" /\ run'[r].level # 0),
           Honouring(r)'
    PROVE  Resuming(r)'
<1>1. agent' = agent
  BY NodeFrame DEF NodeInv
<1>2. OwnAnswer(r)'
  BY DEF OwnAnswer
<1> QED BY <1>1, <1>2 DEF Resuming

(* What is shown of the answer a run resumed is answered, and stays so.    *)
LEMMA StaysAnswered ==
    ASSUME NodeInv, NodeTypeOK', HonourInv, NEW r \in Runs, Acts(r),
           \A call \in shown : call[1] = run[r].resumed => Answered(call)
    PROVE  \A call \in shown' : call[1] = run[r].resumed => Answered(call)'
<1>1. \A call \in shown' : call[1] = run[r].resumed => call \in shown
  BY ShownThen
<1>2. Made \subseteq Made'
  BY HistoryGrows DEF NodeInv
<1> QED BY <1>1, <1>2 DEF Answered

LEMMA BeginResumes ==
    ASSUME NodeInv, NodeTypeOK', HonourInv, NEW r \in Runs, Acts(r),
           BeginNew(r) \/ \E mode \in {"proceed", "reject"} : BeginResume(r, mode)
    PROVE  Resuming(r)'
<1>. NodeTypeOK /\ Resuming(r)
  BY DEF NodeInv, HonourInv
<1>1. UNCHANGED <<agent, answers, shown, ran>> /\ Made' = Made /\ Len(answers) \in Nat
  <2>1. UNCHANGED <<agent, answers, shown, ran>>
    BY DEF BeginNew, BeginResume
  <2> QED BY <2>1, HistoryGrows DEF Made
<1>2. CASE BeginNew(r)
  <2>1. /\ run'[r].pc = "model" /\ run'[r].mode = "fresh" /\ run'[r].resumed = 0
        /\ run'[r].messages = <<User>> /\ run'[r].tools = agent.tools
    BY <1>2, Effects
  <2>2. Numbered(run[r].messages)'
    BY <1>1, <2>1 DEF Numbered, User
  <2>3. Honouring(r)'
    BY <2>1 DEF Honouring
  <2> QED BY <1>1, <2>1, <2>2, <2>3, RunResumes
<1>3. ASSUME NEW mode, BeginResume(r, mode)
      PROVE  Resuming(r)'
  <2>1. CASE execution.state = "STOPPED"
    <3>1. /\ run'[r].pc = "claiming" /\ run'[r].resumed = 0
          /\ run'[r].messages = execution.messages /\ run'[r].tools = agent.tools
      BY <1>3, <2>1, Effects
    <3>2. Numbered(run[r].messages)' /\ Stoppable(run[r].messages)'
      BY <1>1, <2>1, <3>1 DEF HonourInv, Numbered, Stoppable
    <3>3. Honouring(r)' /\ OwnAnswer(r)'
      BY <3>1 DEF Honouring, OwnAnswer
    <3> QED BY <1>1, <3>1, <3>2, <3>3 DEF Resuming
  <2>2. CASE execution.state # "STOPPED"
    <3>1. run' = [run EXCEPT ![r].pc = "refused"]
      BY <1>3, <2>2 DEF BeginResume
    <3>2. /\ run'[r].pc = "refused" /\ run'[r].resumed = run[r].resumed
          /\ run'[r].messages = run[r].messages /\ run'[r].tools = run[r].tools
          /\ run'[r].mode = run[r].mode
      BY <3>1 DEF NodeTypeOK
    <3>3. Numbered(run[r].messages)' /\ Honouring(r)'
      BY <1>1, <3>2 DEF Resuming, Numbered, Honouring
    <3> QED BY <1>1, <3>2, <3>3, RunResumes DEF Resuming
  <2> QED BY <2>1, <2>2
<1> QED BY <1>2, <1>3

(* The parts of messages that are numbered. *)
LEMMA NumberedParts ==
    ASSUME NodeTypeOK, NEW messages \in Seq(Messages), Numbered(messages)
    PROVE  /\ Numbered(Front(messages)) /\ Front(messages) \in Seq(Messages)
           /\ messages # <<>> => /\ Last(messages) \in Messages
                                 /\ Last(messages).round <= Len(answers)
                                 /\ Numbered(Append(Front(messages), Last(messages)))
                                 /\ Append(Front(messages), Last(messages)) \in Seq(Messages)
                                 /\ Last(messages).role = "tool" =>
                                       <<Last(messages).round, Last(messages).pos>> \in Made
<1>1. CASE messages = <<>>
  <2>1. Front(messages) = <<>>
    BY <1>1 DEF Front
  <2> QED BY <1>1, <2>1 DEF Numbered
<1>2. CASE messages # <<>>
  <2>0. Len(messages) \in Nat \ {0}
    BY <1>2
  <2>1. /\ Front(messages) \in Seq(Messages)
        /\ Len(Front(messages)) = Len(messages) - 1
        /\ \A i \in 1..(Len(messages) - 1) : Front(messages)[i] = messages[i]
    BY <1>2, FrontParts
  <2>2. Last(messages) = messages[Len(messages)] /\ messages[Len(messages)] \in Messages
    BY <2>0, Elements DEF Last
  <2>3. Numbered(Front(messages))
    BY <2>0, <2>1 DEF Numbered
  <2>4. /\ Len(Append(Front(messages), Last(messages))) = Len(messages)
        /\ \A i \in 1..Len(messages) : Append(Front(messages), Last(messages))[i] = messages[i]
        /\ Append(Front(messages), Last(messages)) \in Seq(Messages)
    BY <2>0, <2>1, <2>2
  <2>5. Numbered(Append(Front(messages), Last(messages)))
    BY <2>4 DEF Numbered
  <2> QED BY <2>0, <2>1, <2>2, <2>3, <2>4, <2>5 DEF Numbered
<1> QED BY <1>1, <1>2

(* The answer is claimed: its calls are to be made from the first one on,  *)
(* or one of them was made before the one that was shown.                  *)
LEMMA ClaimResumes ==
    ASSUME NodeInv, NodeTypeOK', HonourInv, NEW r \in Runs, Claim(r)
    PROVE  Resuming(r)'
<1>. NodeTypeOK /\ Resuming(r) /\ Acts(r)
  BY DEF NodeInv, HonourInv, Acts, Step
<1> DEFINE messages == run[r].messages
<1>1. UNCHANGED <<agent, answers, shown, ran>> /\ Made' = Made
  BY DEF Claim, Made
<1>2. /\ run[r].pc = "claiming" /\ run[r].level = 0 /\ run[r].next = 1
      /\ messages \in Seq(Messages) /\ messages # <<>>
  BY DEF Claim, NodeInv, RunInv, Bookkeeping, NodeTypeOK
<1>3. /\ run'[r].mode = run[r].mode /\ run'[r].level = 0
      /\ run'[r].next = 1 /\ run'[r].tools = run[r].tools
      /\ run'[r].resumed = Last(messages).round
      /\ IF Last(messages).role = "assistant"
         THEN /\ run'[r].pc = "calls" /\ run'[r].round = Last(messages).round
              /\ run'[r].messages = Append(Front(messages), Last(messages))
         ELSE run'[r].pc = "ending"
  BY <1>2, Effects
<1>4. Last(messages).role # "assistant" => run'[r].messages = Front(messages)
  <2>1. Last(messages).role # "assistant" =>
           run' = [run EXCEPT ![r].pc = "ending", ![r].resumed = Last(messages).round,
                              ![r].messages = Front(messages)]
    BY DEF Claim, GoOnFrom
  <2> HIDE DEF messages
  <2> QED BY <2>1 DEF NodeTypeOK
<1>5. Stoppable(messages) /\ Numbered(messages)
  BY <1>2 DEF Resuming
<1> HIDE DEF messages
<1>6. /\ Numbered(Front(messages)) /\ Last(messages) \in Messages
      /\ Last(messages).round <= Len(answers)
      /\ Numbered(Append(Front(messages), Last(messages)))
      /\ Last(messages).role = "tool" => <<Last(messages).round, Last(messages).pos>> \in Made
  BY <1>2, <1>5, NumberedParts
<1>7. Numbered(run[r].messages)'
  BY <1>1, <1>3, <1>4, <1>6 DEF Numbered
<1>8. Honouring(r)'
  <2>1. CASE Last(messages).role = "assistant"
    <3>1. \A call \in shown : ~ (call[2] < 1)
      <4>1. \A call \in shown : call[2] \in 1..Len(answers[call[1]])
        BY DEF HonourInv, ShownExist
      <4> QED BY <4>1
    <3> QED BY <1>1, <1>3, <2>1, <3>1 DEF Honouring
  <2>2. CASE Last(messages).role # "assistant"
    <3>1. Last(messages).role = "tool"
      BY <1>2, <1>5, <2>2, StoppableParts
    <3>2. Last(messages).pos \in Nat \ {0}
      <4>1. PICK j \in 1..Len(ran) : <<ran[j].round, ran[j].pos>> = <<Last(messages).round, Last(messages).pos>>
        BY <1>6, <3>1 DEF Made
      <4>2. ran[j].pos \in 1..Len(answers[ran[j].round])
        BY DEF NodeInv, CallsExist
      <4>3. ran[j].pos \in Nat
        BY CallTypes
      <4> QED BY <4>1, <4>2, <4>3
    <3>3. ASSUME NEW call \in shown, call[1] = Last(messages).round
          PROVE  Answered(call)'
      <4>1. Last(messages).pos < call[2] /\ call[2] \in Nat
        BY <1>5, <3>1, <3>3 DEF Stoppable, NodeTypeOK
      <4>2. Last(messages).pos \in 1..(call[2] - 1)
        BY <3>2, <4>1
      <4>3. <<call[1], Last(messages).pos>> \in Made
        BY <1>6, <3>1, <3>3
      <4> QED BY <1>1, <4>2, <4>3 DEF Answered
    <3> QED BY <1>1, <1>3, <2>2, <3>3 DEF Honouring
  <2> QED BY <2>1, <2>2
<1>9. run'[r].resumed <= Len(answers')
  BY <1>1, <1>3, <1>6
<1> QED BY <1>1, <1>3, <1>7, <1>8, <1>9, RunResumes DEF Resuming

(* Leaving, or going back to the model. *)
LEMMA LeavingResumes ==
    ASSUME NodeInv, NodeTypeOK', HonourInv, NEW r \in Runs,
           NodeEnds(r) \/ Throws(r) \/ AskHuman(r) \/ EndCalls(r)
    PROVE  Resuming(r)'
<1>. NodeTypeOK /\ Resuming(r) /\ Acts(r)
  BY DEF NodeInv, HonourInv, Acts, Step
<1>1. /\ UNCHANGED <<agent, answers, ran>> /\ Made' = Made
      /\ \E pc \in Endings \cup {"model"} : run' = [run EXCEPT ![r].pc = pc]
      /\ run'[r].pc \in {"finished", "stopped", "model"} =>
            \/ run[r].pc \in {"model", "ending"}
            \/ run[r].pc = "calls" /\ run[r].level # 0
            \/ run[r].pc = "calls" /\ run[r].next > Len(answers[run[r].round])
  <2>1. UNCHANGED <<agent, answers, ran>>
    BY DEF NodeEnds, Throws, AskHuman, EndCalls
  <2>2. \E pc \in Endings \cup {"model"} : run' = [run EXCEPT ![r].pc = pc]
    BY DEF NodeEnds, Throws, AskHuman, EndCalls, End, Endings
  <2>3. Throws(r) => run'[r].pc = "failed"
    BY Effects DEF Throws
  <2>4. ~ Throws(r) =>
            \/ run[r].pc \in {"model", "ending"}
            \/ run[r].pc = "calls" /\ run[r].level # 0
            \/ run[r].pc = "calls" /\ run[r].next > Len(answers[run[r].round])
    BY DEF NodeEnds, AskHuman, AtCall, Resumed, EndCalls
  <2> QED BY <2>1, <2>2, <2>3, <2>4 DEF Made
<1>2. /\ run'[r].pc \in Endings \cup {"model"} /\ run'[r].resumed = run[r].resumed
      /\ run'[r].messages = run[r].messages /\ run'[r].tools = run[r].tools
      /\ run'[r].mode = run[r].mode
  BY <1>1 DEF NodeTypeOK
<1>3. Numbered(run[r].messages)'
  BY <1>1, <1>2 DEF Resuming, Numbered
<1>4. Honouring(r)'
  <2> SUFFICES ASSUME run[r].mode = "proceed", run'[r].pc \in {"finished", "stopped", "model"}
               PROVE  \A call \in shown' : call[1] = run[r].resumed => Answered(call)'
    BY <1>2 DEF Honouring, Endings
  <2>1. CASE run[r].pc = "calls" /\ run[r].level = 0
    <3>1. /\ run[r].round = run[r].resumed /\ run[r].next > Len(answers[run[r].round])
          /\ \A call \in shown : call[1] = run[r].resumed /\ call[2] < run[r].next => call \in Made
      BY <1>1, <2>1 DEF Resuming, Honouring
    <3>2. ASSUME NEW call \in shown, call[1] = run[r].resumed
          PROVE  Answered(call)
      <4>1. /\ call[2] \in 1..Len(answers[run[r].round]) /\ run[r].next \in Nat
            /\ Len(answers[run[r].round]) \in Nat
        <5>1. call[1] \in 1..Len(answers) /\ call[2] \in 1..Len(answers[call[1]])
          BY DEF HonourInv, ShownExist
        <5>2. answers[call[1]] \in Seq(Names) /\ run[r].next \in Nat
          BY <5>1, Elements DEF NodeTypeOK
        <5> QED BY <3>1, <3>2, <5>1, <5>2
      <4>2. call[2] < run[r].next
        BY <3>1, <4>1
      <4> QED BY <3>1, <3>2, <4>2 DEF Answered
    <3> QED BY <3>2, StaysAnswered
  <2>2. CASE ~ (run[r].pc = "calls" /\ run[r].level = 0)
    BY <1>1, <2>2, StaysAnswered DEF Resuming, Honouring
  <2> QED BY <2>1, <2>2
<1> QED BY <1>1, <1>2, <1>3, <1>4, RunResumes DEF Resuming, Endings

(* One call further. *)
LEMMA CallsResume ==
    ASSUME NodeInv, NodeTypeOK', HonourInv, NEW r \in Runs,
           Unknown(r) \/ CallTool(r) \/ RejectCall(r)
    PROVE  Resuming(r)'
<1>. NodeTypeOK /\ Resuming(r) /\ OwnAnswer(r) /\ Acts(r)
  BY DEF NodeInv, HonourInv, Resuming, Acts, Step
<1>1. /\ UNCHANGED <<agent, answers, shown, execution>>
      /\ run[r].pc = "calls" /\ run[r].next <= Len(answers[run[r].round])
      /\ RejectCall(r) => run[r].level = 0 /\ run[r].mode = "reject"
  BY DEF Unknown, CallTool, MayCall, RejectCall, AtCall, Resumed
<1>2. /\ run'[r].pc = "calls" /\ run'[r].mode = run[r].mode
      /\ run'[r].level = run[r].level /\ run'[r].round = run[r].round
      /\ run'[r].next = run[r].next + 1 /\ run'[r].resumed = run[r].resumed
      /\ \/ run'[r].tools = run[r].tools
         \/ RejectCall(r) /\ run'[r].tools \subseteq run[r].tools
  BY Effects
<1>3. /\ run[r].round \in 1..Len(answers) /\ run[r].next \in Nat \ {0}
      /\ Len(answers[run[r].round]) \in Nat /\ run[r].messages \in Seq(Messages)
      /\ run[r].level # 0 => run[r].messages # <<>>
  <2>1. /\ run[r].round \in 1..Len(answers) /\ run[r].next # 0
        /\ run[r].level # 0 => run[r].messages # <<>>
    BY <1>1 DEF NodeInv, RunInv, Bookkeeping
  <2>2. run[r].next \in Nat /\ run[r].messages \in Seq(Messages) /\ Len(answers) \in Nat
    BY DEF NodeTypeOK
  <2>3. answers[run[r].round] \in Seq(Names)
    <3>1. answers \in Seq(Seq(Names))
      BY DEF NodeTypeOK
    <3> QED
      BY <2>1, <3>1, Elements
  <2> QED
    BY <2>1, <2>2, <2>3
<1>4. \/ Unknown(r) /\ run'[r].messages = run[r].messages
      \/ /\ CallTool(r)
         /\ run'[r].messages = Append(run[r].messages, Tool(run[r].round, run[r].next))
      \/ RejectCall(r) /\ run'[r].messages = Front(run[r].messages)
  BY Effects
<1>5. /\ Made \subseteq Made' /\ Len(answers) \in Nat
      /\ CallTool(r) => <<run[r].round, run[r].next>> \in Made'
  BY HistoryGrows
<1> DEFINE m == Tool(run[r].round, run[r].next)
<1>6. /\ m \in Messages /\ m.role = "tool" /\ m.round = run[r].round /\ m.pos = run[r].next
  BY <1>3 DEF Tool, Messages
<1> HIDE DEF m
<1>7. Numbered(run[r].messages)'
  <2>0. Numbered(run[r].messages)
    BY DEF Resuming
  <2>1. CASE run'[r].messages = run[r].messages
    BY <1>1, <1>5, <2>0, <2>1 DEF Numbered
  <2>2. CASE run'[r].messages = Append(run[r].messages, m) /\ CallTool(r)
    <3>1. /\ Len(run'[r].messages) = Len(run[r].messages) + 1 /\ Len(run[r].messages) \in Nat
          /\ \A i \in 1..Len(run[r].messages) : run'[r].messages[i] = run[r].messages[i]
          /\ run'[r].messages[Len(run[r].messages) + 1] = m
      BY <1>3, <1>6, <2>2
    <3>2. \A i \in 1..Len(run'[r].messages) : i \in 1..Len(run[r].messages) \/ i = Len(run[r].messages) + 1
      BY <3>1
    <3>3. m.round <= Len(answers) /\ <<m.round, m.pos>> \in Made'
      BY <1>3, <1>5, <1>6, <2>2
    <3> QED BY <1>1, <1>5, <1>6, <2>0, <3>1, <3>2, <3>3 DEF Numbered
  <2>3. CASE run'[r].messages = Front(run[r].messages)
    BY <1>1, <1>3, <1>5, <2>0, <2>3, NumberedParts DEF Numbered
  <2> QED BY <1>4, <2>1, <2>2, <2>3 DEF m
<1>8. OwnAnswer(r)'
  <2> SUFFICES ASSUME run[r].level # 0
               PROVE  OwnAnswer(r)'
    BY <1>2 DEF OwnAnswer
  <2>1. \A s \in Runs : s # r => run'[s] = run[s]
    BY NodeFrame
  <2>2. /\ run'[r].messages # <<>>
        /\ Last(run'[r].messages).role # "user" /\ Last(run'[r].messages).round = run[r].round
        /\ Last(run'[r].messages).role = "tool" => Last(run'[r].messages).pos < run'[r].next
    <3>1. CASE run'[r].messages = run[r].messages
      <4>1. Last(run[r].messages) \in Messages
        BY <1>3, NumberedParts DEF Resuming
      <4>2. Last(run[r].messages).pos \in Nat
        BY <4>1 DEF Messages
      <4> QED BY <1>1, <1>2, <1>3, <3>1, <4>2 DEF OwnAnswer
    <3>2. CASE run'[r].messages = Append(run[r].messages, m)
      <4>1. run'[r].messages # <<>> /\ Last(run'[r].messages) = m
        BY <1>3, <3>2, LastAppended
      <4> QED BY <1>2, <1>3, <1>6, <4>1
    <3> QED BY <1>1, <1>4, <3>1, <3>2 DEF m
  <2> QED BY <1>1, <1>2, <2>1, <2>2 DEF OwnAnswer
<1>9. Honouring(r)'
  <2>1. run[r].level # 0 => Honouring(r)'
    BY <1>1, <1>2, <1>5, StaysAnswered DEF Resuming, Honouring
  <2>2. ASSUME run[r].level = 0, run[r].mode = "proceed"
        PROVE  Honouring(r)'
    <3>1. ASSUME NEW call \in shown, call[1] = run[r].resumed, call[2] < run[r].next + 1
          PROVE  call \in Made'
      <4>1. call[2] \in Nat /\ call = <<call[1], call[2]>>
        <5>1. shown \subseteq Nat \X Nat
          BY DEF NodeTypeOK
        <5> QED BY <5>1
      <4>2. CASE call[2] < run[r].next
        BY <1>1, <1>5, <2>2, <3>1, <4>2 DEF Resuming, Honouring
      <4>3. CASE call[2] = run[r].next
        <5>1. call[1] = run[r].round
          BY <1>1, <2>2, <3>1 DEF Resuming, Honouring
        <5>2. NameOf(call) \in run[r].tools
          BY <2>2 DEF HonourInv, ShownExist, Resuming
        <5>3. ~ Unknown(r)
          BY <4>3, <5>1, <5>2 DEF Unknown, Wanted, NameOf
        <5>4. CallTool(r)
          BY <1>1, <2>2, <5>3
        <5> QED BY <1>5, <4>1, <4>3, <5>1, <5>4
      <4> QED BY <1>3, <3>1, <4>1, <4>2, <4>3
    <3> QED BY <1>1, <1>2, <2>2, <3>1 DEF Resuming, Honouring
  <2>3. run[r].mode # "proceed" => Honouring(r)'
    BY <1>2 DEF Honouring
  <2> QED BY <2>1, <2>2, <2>3
<1>10. run'[r].resumed <= Len(answers') /\ run'[r].tools \subseteq agent.tools
       /\ (run'[r].mode # "reject" => run'[r].tools = agent.tools)
  BY <1>1, <1>2 DEF Resuming
<1> QED BY <1>1, <1>2, <1>7, <1>8, <1>9, <1>10 DEF Resuming

(* An answer nobody has seen before. *)
LEMMA ModelCallsResume ==
    ASSUME NodeInv, NodeTypeOK', HonourInv, NEW r \in Runs, NEW names \in Answers,
           ModelCalls(r, names)
    PROVE  Resuming(r)'
<1>. NodeTypeOK /\ Resuming(r) /\ Acts(r)
  BY DEF NodeInv, HonourInv, Acts, Step
<1> DEFINE k == Len(answers) + 1
           m == Assistant(k)
<1>1. /\ UNCHANGED <<agent, shown, execution, ran>> /\ Made' = Made
      /\ answers' = Append(answers, names) /\ run[r].pc = "model"
  BY DEF ModelCalls, Made
<1>2. /\ run'[r].pc = "calls" /\ run'[r].mode = run[r].mode
      /\ run'[r].level = run[r].level + 1 /\ run'[r].round = k
      /\ run'[r].next = 1 /\ run'[r].tools = run[r].tools
      /\ run'[r].resumed = run[r].resumed
      /\ run'[r].messages = Append(run[r].messages, m)
  BY Effects
<1>3. Len(answers) \in Nat /\ Len(answers') = k /\ run[r].messages \in Seq(Messages)
      /\ run[r].level \in Nat /\ run[r].resumed \in Nat
  BY <1>1 DEF NodeTypeOK
<1>4. /\ m \in Messages /\ m.role = "assistant" /\ m.round = k
  BY <1>3 DEF Assistant, Messages
<1> HIDE DEF m
<1>5. Numbered(run[r].messages)'
  <2>1. \A i \in 1..Len(run[r].messages) :
           /\ run[r].messages[i].round <= k
           /\ run[r].messages[i].role = "tool" =>
                 <<run[r].messages[i].round, run[r].messages[i].pos>> \in Made'
    BY <1>1, <1>3, NumberedStays DEF Resuming
  <2>2. /\ Len(run'[r].messages) = Len(run[r].messages) + 1 /\ Len(run[r].messages) \in Nat
        /\ \A i \in 1..Len(run[r].messages) : run'[r].messages[i] = run[r].messages[i]
        /\ run'[r].messages[Len(run[r].messages) + 1] = m
    BY <1>2, <1>3, <1>4
  <2>3. \A i \in 1..Len(run'[r].messages) : i \in 1..Len(run[r].messages) \/ i = Len(run[r].messages) + 1
    BY <2>2
  <2>4. m.round <= k /\ m.role # "tool"
    BY <1>3, <1>4
  <2> HIDE DEF k
  <2> QED BY <1>3, <2>1, <2>2, <2>3, <2>4 DEF Numbered
<1>6. OwnAnswer(r)'
  <2>1. Last(run'[r].messages) = m /\ run'[r].messages # <<>>
    BY <1>2, <1>3, LastAppended
  <2>2. \A s \in Runs : s # r => run'[s] = run[s]
    BY NodeFrame
  <2>3. \A call \in shown : call[1] # k
    BY <1>3 DEF HonourInv, ShownExist
  <2>4. execution.state = "STOPPED" => Last(execution.messages).round # k
    <3>1. execution.messages \in Seq(Messages)
      BY DEF NodeTypeOK
    <3>2. ASSUME execution.state = "STOPPED"
          PROVE  /\ Last(execution.messages).round \in Nat
                 /\ Last(execution.messages).round <= Len(answers)
      BY <3>1, <3>2, StoppableParts, NumberedParts DEF HonourInv, Stoppable
    <3> QED BY <1>3, <3>2
  <2>5. ASSUME NEW s \in Runs
        PROVE  /\ run'[s].resumed # k
               /\ run'[s].pc = "claiming" => Last(run'[s].messages).round # k
               /\ s # r /\ run'[s].pc = "calls" /\ run'[s].level # 0 => run'[s].round # k
    <3>1. Resuming(s) /\ run[s].messages \in Seq(Messages) /\ run[s].resumed \in Nat
      BY DEF HonourInv, NodeTypeOK
    <3>2. CASE s = r
      BY <1>2, <1>3, <3>1, <3>2 DEF Resuming
    <3>3. CASE s # r
      <4>1. run'[s] = run[s]
        BY <2>2, <3>3
      <4>2. run[s].resumed # k
        BY <1>3, <3>1 DEF Resuming
      <4>3. ASSUME run[s].pc = "claiming"
            PROVE  Last(run[s].messages).round # k
        <5>1. /\ Last(run[s].messages).round \in Nat
              /\ Last(run[s].messages).round <= Len(answers)
          BY <3>1, <4>3, StoppableParts, NumberedParts DEF Resuming, Stoppable
        <5> QED BY <1>3, <5>1
      <4>4. run[s].pc = "calls" => run[s].round # k
        BY <1>3 DEF NodeInv, RunInv, Bookkeeping
      <4> QED BY <4>1, <4>2, <4>3, <4>4
    <3> QED BY <3>2, <3>3
  <2> QED BY <1>1, <1>2, <1>4, <2>1, <2>3, <2>4, <2>5 DEF OwnAnswer
<1>7. Honouring(r)'
  <2>1. run'[r].level # 0
    BY <1>2, <1>3
  <2>2. run[r].mode = "proceed" => \A call \in shown : call[1] = run[r].resumed => Answered(call)
    BY <1>1 DEF Resuming, Honouring
  <2>3. run[r].mode = "proceed" => \A call \in shown' : call[1] = run[r].resumed => Answered(call)'
    BY <2>2, StaysAnswered
  <2> QED BY <1>2, <2>1, <2>3 DEF Honouring
<1>8. run'[r].resumed <= Len(answers')
  BY <1>2, <1>3 DEF Resuming
<1> QED BY <1>1, <1>2, <1>5, <1>6, <1>7, <1>8 DEF Resuming

LEMMA HonourStepKeeps ==
    ASSUME NodeInv, NodeTypeOK', HonourInv, NEW r \in Runs, Acts(r)
    PROVE  HonourInv'
<1>. NodeTypeOK /\ Resuming(r) /\ OwnAnswer(r)
  BY DEF NodeInv, HonourInv, Resuming
<1>1. Resuming(r)'
  BY BeginResumes, ClaimResumes, LeavingResumes, CallsResume, ModelCallsResume DEF Acts, Step
<1>2. \A d \in Runs : Resuming(d)'
  BY <1>1, OthersResume
<1>3. /\ Grows /\ Len(answers) \in Nat /\ Len(answers') \in Nat
      /\ Len(answers) <= Len(answers') /\ Made \subseteq Made' /\ agent' = agent
  BY HistoryGrows DEF Grows
<1>4. ShownExist'
  <2> SUFFICES ASSUME NEW call \in shown'
               PROVE  /\ call[1] \in 1..Len(answers) /\ call[2] \in 1..Len(answers[call[1]])
                      /\ NameOf(call) \in agent.tools
    <3>1. \A k \in 1..Len(answers) : k \in 1..Len(answers') /\ answers'[k] = answers[k]
      BY <1>3 DEF Grows
    <3> QED BY <1>3, <3>1 DEF ShownExist, NameOf
  <2>1. CASE call \in shown
    BY <2>1 DEF HonourInv, ShownExist
  <2>2. CASE call \notin shown
    <3>1. AskHuman(r) /\ call = <<run[r].round, run[r].next>>
      BY <2>2, NodeFrame DEF AskHuman
    <3>2. /\ run[r].round \in 1..Len(answers) /\ run[r].next \in Nat \ {0}
          /\ run[r].next <= Len(answers[run[r].round])
          /\ answers[run[r].round][run[r].next] \in run[r].tools
      BY <3>1 DEF AskHuman, AtCall, Wanted, NodeInv, RunInv, Bookkeeping, NodeTypeOK
    <3>3. Len(answers[run[r].round]) \in Nat
      <4>1. answers[run[r].round] \in Seq(Names)
        BY <3>2, Elements DEF NodeTypeOK
      <4> QED BY <4>1
    <3> QED BY <3>1, <3>2, <3>3 DEF NameOf, Resuming
  <2> QED BY <2>1, <2>2
<1>5. Numbered(execution.messages)'
  <2>1. CASE execution'.messages = execution.messages
    <3>1. Numbered(execution.messages) /\ execution.messages \in Seq(Messages)
      BY DEF HonourInv, NodeTypeOK
    <3> QED BY <1>3, <2>1, <3>1, NumberedStays DEF Numbered
  <2>2. CASE execution'.messages = run[r].messages
    <3>1. Numbered(run[r].messages) /\ run[r].messages \in Seq(Messages)
      BY DEF Resuming, NodeTypeOK
    <3> QED BY <1>3, <2>2, <3>1, NumberedStays DEF Numbered
  <2> QED BY <2>1, <2>2, Seen
<1>6. ASSUME execution'.state = "STOPPED"
      PROVE  Stoppable(execution.messages)'
  <2>1. CASE execution' = execution
    <3>1. Stoppable(execution.messages)
      BY <1>6, <2>1 DEF HonourInv
    <3>2. \A call \in shown' : call[1] = Last(execution.messages).round => call \in shown
      BY <1>6, <2>1, ShownThen
    <3> QED BY <2>1, <3>1, <3>2 DEF Stoppable
  <2>2. CASE execution' # execution
    <3>1. /\ run[r].pc = "calls" /\ run[r].level # 0
          /\ execution'.messages = run[r].messages
      BY <1>6, <2>2, Seen
    <3>2. \A call \in shown' : call[1] = run[r].round => call[2] = run[r].next
      BY <3>1, ShownThen DEF OwnAnswer
    <3> QED BY <3>1, <3>2 DEF OwnAnswer, Stoppable
  <2> QED BY <2>1, <2>2
<1> QED BY <1>2, <1>4, <1>5, <1>6 DEF HonourInv

LEMMA HonourInvHolds == NodeSpec => []HonourInv
<1>1. NodeInit => HonourInv
  BY DEF NodeInit, Locals, HonourInv, ShownExist, Numbered, Resuming, OwnAnswer, Honouring
<1>2. NodeInv /\ NodeInv' /\ HonourInv /\ [NodeNext]_nodeVars => HonourInv'
  <2> SUFFICES ASSUME NodeInv, NodeInv', HonourInv, [NodeNext]_nodeVars
               PROVE  HonourInv'
    OBVIOUS
  <2>1. CASE NodeNext
    <3>1. \E r \in Runs : Acts(r)
      BY <2>1 DEF NodeNext, Acts
    <3> QED BY <3>1, HonourStepKeeps DEF NodeInv
  <2>2. CASE UNCHANGED nodeVars
    BY <2>2 DEF nodeVars, HonourInv, ShownExist, NameOf, Made, Answered, Numbered, Stoppable,
                Resuming, OwnAnswer, Honouring
  <2> QED BY <2>1, <2>2
<1> QED
  BY <1>1, <1>2, NodeInvHolds, PTL DEF NodeSpec

(* A "proceed" is honoured: when the run that it started has ended without *)
(* an error, what the human was shown has been called, or an earlier call  *)
(* of the same answer had been made before the question.  It holds for     *)
(* overlapping requests too, because nobody else decides about an answer   *)
(* before the run that asked has stopped, and whoever resumes it goes      *)
(* through all its calls (Agent.ts 1570-1588, 1624-1660).                  *)
THEOREM ProceedsAreHonoured == NodeSpec => []ProceedHonoured
<1>1. HonourInv => ProceedHonoured
  <2> SUFFICES ASSUME HonourInv, NEW r \in Runs, run[r].mode = "proceed",
                      run[r].pc \in {"finished", "stopped"},
                      NEW call \in CallsOf(run[r].resumed) \cap shown
               PROVE  \/ call \in Made
                      \/ \E i \in 1..(call[2] - 1) : <<call[1], i>> \in Made
    BY DEF ProceedHonoured
  <2>1. call[1] = run[r].resumed
    BY DEF CallsOf
  <2>2. Answered(call)
    BY <2>1 DEF HonourInv, Resuming, Honouring
  <2> QED BY <2>2 DEF Answered
<1> QED
  BY <1>1, HonourInvHolds, PTL

-----------------------------------------------------------------------------
(* The conversation a model is asked with. *)

(* No other answer was begun after this one. *)
Latest(messages, i) == \A q \in (i + 1)..Len(messages) : messages[q].role = "tool"

(* Every due call of an answer has its result, but for the open calls of   *)
(* the latest answer.                                                      *)
PairedBut(messages, due, open) ==
    \A i \in 1..Len(messages) :
        /\ messages[i].role = "user" => i = 1
        /\ messages[i].role = "assistant" =>
              \A call \in due : call[1] = messages[i].round =>
                  \/ HasResult(messages, i, call[2])
                  \/ call \in open /\ Latest(messages, i)
        /\ messages[i].role = "tool" =>
              <<messages[i].round, messages[i].pos>> \in due /\ FollowsItsCall(messages, i)

AllCalls == UNION {CallsOf(k) : k \in 1..Len(answers)}

DueAtStop == {call \in AllCalls : NameOf(call) \in agent.tools}

CallsFrom(k, n) == {call \in AllCalls : call[1] = k /\ call[2] >= n}

UpTo(messages, k) ==
    \A i \in 1..Len(messages) :
        messages[i].round <= k /\ (messages[i].role = "assistant" => messages[i].pos = 0)

Checkpoint(messages) ==
    /\ UpTo(messages, Last(messages).round)
    /\ PairedBut(messages, DueAtStop, CallsFrom(Last(messages).round, 1))

(* The single call of the rejected answer was taken out, with the answer.  *)
Taken(r) == run[r].level = 0 /\ run[r].mode = "reject" /\ run[r].next > 1

(* Before the first answer of a new round the tools have been the node's.  *)
InCalls(r) ==
    LET messages == run[r].messages
        k        == run[r].round
    IN  /\ UpTo(messages, k)
        /\ IF run[r].level = 0 THEN k = run[r].resumed ELSE k > run[r].resumed
        /\ run[r].level = 0 /\ run[r].mode = "reject" => <<k, "reject">> \in decisions
        /\ run[r].level = 1 =>
              \A i \in 1..Len(messages) :
                  \/ messages[i].round <= run[r].resumed
                  \/ messages[i].round = k /\ Latest(messages, i)
        /\ IF Taken(r)
           THEN run[r].next > Len(answers[k]) /\ PairedBut(messages, Due(r), {})
           ELSE /\ messages # <<>>
                /\ Last(messages).role # "user" /\ Last(messages).round = k
                /\ Last(messages).pos < run[r].next
                /\ run[r].level = 0 => run[r].tools = agent.tools
                /\ PairedBut(messages, Due(r), CallsFrom(k, run[r].next))

Conversing(r) ==
    /\ run[r].pc = "claiming" =>
          Checkpoint(run[r].messages) /\ run[r].tools = agent.tools /\ run[r].resumed = 0
    /\ run[r].pc = "calls" => InCalls(r)
    /\ run[r].pc = "model" =>
          /\ UpTo(run[r].messages, IF run[r].level = 0 THEN run[r].resumed ELSE Len(answers))
          /\ PairedBut(run[r].messages, Due(r), {})

DecisionsExist == \A d \in decisions : d[1] \in 1..Len(answers)

PairInv ==
    /\ DecisionsExist
    /\ ~ SeveralRejected =>
          /\ execution.state = "STOPPED" => Checkpoint(execution.messages)
          /\ \A r \in Runs : Conversing(r)

(* What the positions of a conversation hold. *)
LEMMA MessageFields ==
    ASSUME NEW messages \in Seq(Messages)
    PROVE  /\ Len(messages) \in Nat
           /\ \A i \in 1..Len(messages) :
                 /\ messages[i] \in Messages
                 /\ messages[i].round \in Nat /\ messages[i].pos \in Nat
                 /\ messages[i].role \in {"user", "assistant", "tool"}
<1>1. \A i \in 1..Len(messages) : messages[i] \in Messages
  BY Elements
<1> QED BY <1>1 DEF Messages

LEMMA Appended ==
    ASSUME NEW messages \in Seq(Messages), NEW m \in Messages
    PROVE  /\ Append(messages, m) \in Seq(Messages)
           /\ Len(Append(messages, m)) = Len(messages) + 1 /\ Len(messages) \in Nat
           /\ \A i \in 1..Len(messages) : Append(messages, m)[i] = messages[i]
           /\ Append(messages, m)[Len(messages) + 1] = m
OBVIOUS

(* Results stay where they are when a message is added. *)
LEMMA ResultsStay ==
    ASSUME NEW messages \in Seq(Messages), NEW m \in Messages, NEW i \in 1..Len(messages),
           NEW n, HasResult(messages, i, n)
    PROVE  HasResult(Append(messages, m), i, n)
<1>1. PICK p \in (i + 1)..Len(messages) :
         /\ messages[p] = Tool(messages[i].round, n)
         /\ \A q \in (i + 1)..p : messages[q].role = "tool"
  BY DEF HasResult
<1>2. p \in (i + 1)..Len(Append(messages, m)) /\ p \in 1..Len(messages)
  BY Appended
<1>3. \A q \in (i + 1)..p : q \in 1..Len(messages)
  BY <1>2
<1>4. /\ Append(messages, m)[p] = Tool(Append(messages, m)[i].round, n)
      /\ \A q \in (i + 1)..p : Append(messages, m)[q].role = "tool"
  BY <1>1, <1>2, <1>3, Appended
<1> QED BY <1>2, <1>4 DEF HasResult

LEMMA FollowingStays ==
    ASSUME NEW messages \in Seq(Messages), NEW m \in Messages, NEW i \in 1..Len(messages),
           FollowsItsCall(messages, i)
    PROVE  FollowsItsCall(Append(messages, m), i)
<1>1. i - 1 \in 1..Len(messages)
  BY DEF FollowsItsCall
<1> QED BY <1>1, Appended DEF FollowsItsCall

(* The result of the next call is added. *)
LEMMA ResultAdded ==
    ASSUME NEW messages \in Seq(Messages), messages # <<>>,
           NEW k \in Nat, NEW n \in Nat,
           Last(messages).role # "user", Last(messages).round = k, Last(messages).pos < n,
           NEW due, NEW open, PairedBut(messages, due, open), <<k, n>> \in due,
           NEW rest, \A call \in open : call # <<k, n>> => call \in rest,
           \A call \in open : call = <<call[1], call[2]>>
    PROVE  PairedBut(Append(messages, Tool(k, n)), due, rest)
<1> DEFINE m == Tool(k, n)
           longer == Append(messages, m)
           L == Len(messages)
<1>1. m \in Messages /\ m.role = "tool" /\ m.round = k /\ m.pos = n
  BY DEF Tool, Messages
<1>2. /\ longer \in Seq(Messages) /\ Len(longer) = L + 1 /\ L \in Nat
      /\ \A i \in 1..L : longer[i] = messages[i]
      /\ longer[L + 1] = m
  BY <1>1, Appended
<1>3. L >= 1 /\ Last(messages) = messages[L]
  BY DEF Last
<1>4. ASSUME NEW i \in 1..L
      PROVE  /\ longer[i].role = "user" => i = 1
             /\ longer[i].role = "assistant" =>
                   \A call \in due : call[1] = longer[i].round =>
                       HasResult(longer, i, call[2]) \/ (call \in rest /\ Latest(longer, i))
             /\ longer[i].role = "tool" =>
                   <<longer[i].round, longer[i].pos>> \in due /\ FollowsItsCall(longer, i)
  <2>1. longer[i] = messages[i]
    BY <1>2
  <2>2. ASSUME longer[i].role = "assistant", NEW call \in due, call[1] = longer[i].round
        PROVE  HasResult(longer, i, call[2]) \/ (call \in rest /\ Latest(longer, i))
    <3>1. CASE HasResult(messages, i, call[2])
      BY <1>1, <3>1, ResultsStay
    <3>2. CASE call \in open /\ Latest(messages, i)
      <4>1. \A q \in (i + 1)..(L + 1) : longer[q].role = "tool"
        <5>1. \A q \in (i + 1)..(L + 1) : q \in (i + 1)..L \/ q = L + 1
          BY <1>2
        <5>2. \A q \in (i + 1)..L : q \in 1..L
          OBVIOUS
        <5> QED BY <1>1, <1>2, <3>2, <5>1, <5>2 DEF Latest
      <4>2. Latest(longer, i)
        BY <1>2, <4>1 DEF Latest
      <4>3. CASE call = <<k, n>>
        <5>1. longer[i].round = k /\ call[2] = n
          BY <2>2, <4>3
        <5>2. L + 1 \in (i + 1)..Len(longer) /\ longer[L + 1] = Tool(longer[i].round, call[2])
          BY <1>2, <5>1
        <5> QED BY <4>1, <5>2 DEF HasResult
      <4>4. CASE call # <<k, n>>
        BY <3>2, <4>2, <4>4
      <4> QED BY <4>3, <4>4
    <3> QED BY <2>1, <2>2, <3>1, <3>2 DEF PairedBut
  <2>3. longer[i].role = "tool" =>
           <<longer[i].round, longer[i].pos>> \in due /\ FollowsItsCall(longer, i)
    BY <1>1, <2>1, FollowingStays DEF PairedBut
  <2> QED BY <2>1, <2>2, <2>3 DEF PairedBut
<1>5. /\ longer[L + 1].role = "tool"
      /\ <<longer[L + 1].round, longer[L + 1].pos>> \in due /\ FollowsItsCall(longer, L + 1)
  <2>1. (L + 1) - 1 = L /\ L \in 1..L /\ L + 1 > 1
    BY <1>2, <1>3
  <2>2. longer[(L + 1) - 1] = Last(messages)
    BY <1>2, <1>3, <2>1
  <2> QED BY <1>1, <1>2, <2>1, <2>2 DEF FollowsItsCall
<1>6. \A i \in 1..Len(longer) : i \in 1..L \/ i = L + 1
  BY <1>2
<1> HIDE DEF longer, m, L
<1>7. PairedBut(longer, due, rest)
  BY <1>4, <1>5, <1>6 DEF PairedBut
<1> QED BY <1>7 DEF longer, m

(* A new answer is added, none of its calls made yet. *)
LEMMA AnswerAdded ==
    ASSUME NEW messages \in Seq(Messages), NEW k \in Nat,
           NEW due, PairedBut(messages, due, {}),
           NEW more, NEW open,
           \A i \in 1..Len(messages) : messages[i].round < k,
           \A call \in more : call[1] < k => call \in due,
           \A call \in due : call[1] < k => call \in more,
           \A call \in more : call[1] = k => call \in open
    PROVE  PairedBut(Append(messages, Assistant(k)), more, open)
<1> DEFINE m == Assistant(k)
           longer == Append(messages, m)
           L == Len(messages)
<1>1. m \in Messages /\ m.role = "assistant" /\ m.round = k
  BY DEF Assistant, Messages
<1>2. /\ longer \in Seq(Messages) /\ Len(longer) = L + 1 /\ L \in Nat
      /\ \A i \in 1..L : longer[i] = messages[i]
      /\ longer[L + 1] = m
  BY <1>1, Appended
<1>4. ASSUME NEW i \in 1..L
      PROVE  /\ longer[i].role = "user" => i = 1
             /\ longer[i].role = "assistant" =>
                   \A call \in more : call[1] = longer[i].round =>
                       HasResult(longer, i, call[2]) \/ (call \in open /\ Latest(longer, i))
             /\ longer[i].role = "tool" =>
                   <<longer[i].round, longer[i].pos>> \in more /\ FollowsItsCall(longer, i)
  <2>1. longer[i] = messages[i] /\ messages[i].round < k
    BY <1>2
  <2>2. ASSUME longer[i].role = "assistant", NEW call \in more, call[1] = longer[i].round
        PROVE  HasResult(longer, i, call[2])
    <3>1. call \in due
      BY <2>1, <2>2
    <3>2. HasResult(messages, i, call[2])
      BY <2>1, <2>2, <3>1 DEF PairedBut
    <3> QED BY <1>1, <3>2, ResultsStay
  <2>3. ASSUME longer[i].role = "tool"
        PROVE  <<longer[i].round, longer[i].pos>> \in more /\ FollowsItsCall(longer, i)
    <3>1. <<messages[i].round, messages[i].pos>> \in due /\ FollowsItsCall(messages, i)
      BY <2>1, <2>3 DEF PairedBut
    <3>2. <<messages[i].round, messages[i].pos>> \in more
      BY <2>1, <3>1
    <3> QED BY <1>1, <2>1, <3>1, <3>2, FollowingStays
  <2> QED BY <2>1, <2>2, <2>3 DEF PairedBut
<1>5. /\ longer[L + 1].role = "assistant" /\ longer[L + 1].round = k /\ Latest(longer, L + 1)
  BY <1>1, <1>2 DEF Latest
<1>6. \A i \in 1..Len(longer) : i \in 1..L \/ i = L + 1
  BY <1>2
<1> HIDE DEF longer, m, L
<1>7. PairedBut(longer, more, open)
  BY <1>4, <1>5, <1>6 DEF PairedBut
<1> QED BY <1>7 DEF longer, m

(* The latest answer is taken away again. *)
LEMMA AnswerTaken ==
    ASSUME NEW messages \in Seq(Messages), messages # <<>>, Last(messages).role # "tool",
           NEW due, NEW open, PairedBut(messages, due, open)
    PROVE  PairedBut(Front(messages), due, {})
<1> DEFINE L == Len(messages)
           front == Front(messages)
<1>1. L \in Nat \ {0} /\ Last(messages) = messages[L]
  BY FrontParts
<1>2. /\ front \in Seq(Messages) /\ Len(front) = L - 1
      /\ \A i \in 1..(L - 1) : front[i] = messages[i]
  BY FrontParts
<1> HIDE DEF front
<1>3. SUFFICES ASSUME NEW i \in 1..(L - 1)
               PROVE  /\ messages[i].role = "user" => i = 1
                      /\ messages[i].role = "assistant" =>
                            \A call \in due : call[1] = messages[i].round =>
                                HasResult(front, i, call[2])
                      /\ messages[i].role = "tool" =>
                            /\ <<messages[i].round, messages[i].pos>> \in due
                            /\ FollowsItsCall(front, i)
  BY <1>2 DEF PairedBut, front
<1>4. i \in 1..L /\ L \in (i + 1)..L
  BY <1>1
<1>5. ASSUME messages[i].role = "assistant", NEW call \in due, call[1] = messages[i].round
      PROVE  HasResult(front, i, call[2])
  <2>1. ~ Latest(messages, i)
    BY <1>1, <1>4 DEF Latest
  <2>2. HasResult(messages, i, call[2])
    BY <1>4, <1>5, <2>1 DEF PairedBut
  <2>3. PICK p \in (i + 1)..L : /\ messages[p] = Tool(messages[i].round, call[2])
                                /\ \A q \in (i + 1)..p : messages[q].role = "tool"
    BY <2>2 DEF HasResult
  <2>4. p # L
    BY <1>1, <1>4, <2>3
  <2>5. p \in (i + 1)..(L - 1) /\ p \in 1..(L - 1)
    BY <1>1, <2>3, <2>4
  <2>6. \A q \in (i + 1)..p : q \in 1..(L - 1)
    BY <2>5
  <2>7. /\ front[p] = Tool(front[i].round, call[2])
        /\ \A q \in (i + 1)..p : front[q].role = "tool"
    BY <1>2, <2>3, <2>5, <2>6
  <2> QED BY <1>2, <2>5, <2>7 DEF HasResult
<1>6. ASSUME messages[i].role = "tool"
      PROVE  <<messages[i].round, messages[i].pos>> \in due /\ FollowsItsCall(front, i)
  <2>1. <<messages[i].round, messages[i].pos>> \in due /\ FollowsItsCall(messages, i)
    BY <1>4, <1>6 DEF PairedBut
  <2>2. i - 1 \in 1..(L - 1)
    BY <1>4, <2>1 DEF FollowsItsCall
  <2> QED BY <1>2, <2>1, <2>2 DEF FollowsItsCall
<1> QED BY <1>4, <1>5, <1>6 DEF PairedBut

(* The same conversation, other calls due or open. *)
LEMMA PairedOtherwise ==
    ASSUME NEW messages, NEW due, NEW open, PairedBut(messages, due, open),
           NEW others, NEW rest,
           \A i \in 1..Len(messages) : \A call :
              call[1] = messages[i].round =>
                  /\ call \in due => call \in others
                  /\ call \in others /\ messages[i].role = "assistant" =>
                        \/ call \in due /\ (call \in open => call \in rest)
                        \/ call \in rest /\ Latest(messages, i)
    PROVE  PairedBut(messages, others, rest)
<1>1. ASSUME NEW i \in 1..Len(messages), messages[i].role = "tool"
      PROVE  <<messages[i].round, messages[i].pos>> \in others
  <2>1. <<messages[i].round, messages[i].pos>>[1] = messages[i].round
    OBVIOUS
  <2> QED BY <1>1, <2>1 DEF PairedBut
<1> QED BY <1>1 DEF PairedBut

LEMMA FrontThenLast ==
    ASSUME NEW messages \in Seq(Messages), messages # <<>>
    PROVE  Append(Front(messages), Last(messages)) = messages
<1> DEFINE again == Append(Front(messages), Last(messages))
<1>1. /\ Front(messages) \in Seq(Messages)
      /\ Len(messages) \in Nat \ {0} /\ Len(Front(messages)) = Len(messages) - 1
      /\ \A i \in 1..(Len(messages) - 1) : Front(messages)[i] = messages[i]
      /\ Last(messages) = messages[Len(messages)]
  BY FrontParts
<1>2. Last(messages) \in Messages
  BY <1>1, Elements
<1>3. /\ again \in Seq(Messages) /\ Len(again) = Len(messages)
      /\ \A i \in 1..(Len(messages) - 1) : again[i] = Front(messages)[i]
      /\ again[Len(messages)] = Last(messages)
  BY <1>1, <1>2, Appended
<1> HIDE DEF again
<1>4. \A i \in 1..Len(again) : again[i] = messages[i]
  <2>1. \A i \in 1..Len(again) : i \in 1..(Len(messages) - 1) \/ i = Len(messages)
    BY <1>1, <1>3
  <2> QED BY <1>1, <1>3, <2>1
<1>5. again = messages
  BY <1>3, <1>4, SeqEqual
<1> QED BY <1>5 DEF again

(* The calls there are. *)
LEMMA CallFields ==
    ASSUME NodeTypeOK
    PROVE  /\ Len(answers) \in Nat
           /\ \A k \in 1..Len(answers) : Len(answers[k]) \in Nat
           /\ \A call \in AllCalls :
                 /\ call = <<call[1], call[2]>> /\ call[1] \in 1..Len(answers)
                 /\ call[2] \in 1..Len(answers[call[1]])
           /\ \A k \in 1..Len(answers) : \A n \in 1..Len(answers[k]) : <<k, n>> \in AllCalls
<1>1. \A k \in 1..Len(answers) : answers[k] \in Seq(Names)
  BY Elements DEF NodeTypeOK
<1>2. Len(answers) \in Nat
  BY DEF NodeTypeOK
<1> QED BY <1>1, <1>2 DEF AllCalls, CallsOf

(* For the answers there are, a step changes nothing about what is due to  *)
(* a run that keeps its tools. *)
LEMMA DueStays ==
    ASSUME NodeTypeOK, NodeTypeOK', Grows
    PROVE  /\ Len(answers) \in Nat /\ Len(answers') \in Nat /\ Len(answers) <= Len(answers')
           /\ \A call : call[1] \in Nat /\ call[1] <= Len(answers) =>
                 /\ call \in AllCalls' <=> call \in AllCalls
                 /\ call \in AllCalls => NameOf(call)' = NameOf(call)
                 /\ call \in DueAtStop' <=> call \in DueAtStop
                 /\ \A d \in Runs :
                       run'[d].tools = run[d].tools /\ run'[d].resumed = run[d].resumed =>
                           (call \in Due(d)' <=> call \in Due(d))
           /\ \A k, n : CallsFrom(k, n) \subseteq CallsFrom(k, n)'
<1>1. /\ Len(answers) \in Nat /\ Len(answers') \in Nat /\ Len(answers) <= Len(answers')
      /\ \A k \in 1..Len(answers) : answers'[k] = answers[k]
      /\ agent' = agent
  BY DEF NodeTypeOK, Grows
<1>2. ASSUME NEW call, call[1] \in Nat, call[1] <= Len(answers)
      PROVE  call \in AllCalls' <=> call \in AllCalls
  <2>1. ASSUME call \in AllCalls' PROVE call \in AllCalls
    <3>1. PICK k \in 1..Len(answers') : call \in {<<k, i>> : i \in 1..Len(answers'[k])}
      BY <2>1 DEF AllCalls, CallsOf
    <3>2. k = call[1]
      BY <3>1
    <3>3. k \in 1..Len(answers) /\ answers'[k] = answers[k]
      BY <1>1, <1>2, <3>1, <3>2
    <3> QED BY <3>1, <3>3 DEF AllCalls, CallsOf
  <2>2. ASSUME call \in AllCalls PROVE call \in AllCalls'
    <3>1. PICK k \in 1..Len(answers) : call \in {<<k, i>> : i \in 1..Len(answers[k])}
      BY <2>2 DEF AllCalls, CallsOf
    <3>2. k \in 1..Len(answers') /\ answers'[k] = answers[k]
      BY <1>1, <3>1
    <3> QED BY <3>1, <3>2 DEF AllCalls, CallsOf
  <2> QED BY <2>1, <2>2
<1>3. ASSUME NEW call \in AllCalls
      PROVE  NameOf(call)' = NameOf(call) /\ call[1] \in Nat /\ call[1] <= Len(answers)
  <2>1. call[1] \in 1..Len(answers)
    BY CallFields
  <2> QED BY <1>1, <2>1 DEF NameOf
<1>4. ASSUME NEW call, call[1] \in Nat, call[1] <= Len(answers)
      PROVE  call \in DueAtStop' <=> call \in DueAtStop
  BY <1>1, <1>2, <1>3, <1>4 DEF DueAtStop
<1>5. ASSUME NEW call, call[1] \in Nat, call[1] <= Len(answers), NEW d \in Runs,
             run'[d].tools = run[d].tools, run'[d].resumed = run[d].resumed
      PROVE  call \in Due(d)' <=> call \in Due(d)
  <2>1. ToolsAt(d, call[1])' = ToolsAt(d, call[1])
    BY <1>1, <1>5 DEF ToolsAt
  <2> QED BY <1>2, <1>3, <1>5, <2>1 DEF Due, AllCalls
<1>6. ASSUME NEW k, NEW n
      PROVE  CallsFrom(k, n) \subseteq CallsFrom(k, n)'
  BY <1>2, <1>3 DEF CallsFrom
<1> QED BY <1>1, <1>2, <1>3, <1>4, <1>5, <1>6

LEMMA CheckpointStays ==
    ASSUME NodeTypeOK, NodeTypeOK', Grows, NEW messages \in Seq(Messages),
           \A i \in 1..Len(messages) : messages[i].round <= Len(answers),
           Checkpoint(messages)
    PROVE  Checkpoint(messages)'
<1>1. \A i \in 1..Len(messages) : messages[i].round \in Nat
  BY MessageFields
<1>2. PairedBut(messages, DueAtStop', CallsFrom(Last(messages).round, 1)')
  BY <1>1, DueStays, PairedOtherwise DEF Checkpoint
<1> QED BY <1>2 DEF Checkpoint, UpTo, PairedBut, HasResult, Tool, Latest, FollowsItsCall

(* Several rejected calls stay so. *)
LEMMA SeveralStay ==
    ASSUME NodeTypeOK, NodeTypeOK', Grows, DecisionsExist, SeveralRejected
    PROVE  SeveralRejected'
<1>1. PICK d \in decisions : d[2] = "reject" /\ Len(answers[d[1]]) > 1
  BY DEF SeveralRejected
<1>2. d \in decisions' /\ answers'[d[1]] = answers[d[1]]
  BY DEF DecisionsExist, Grows
<1> QED BY <1>1, <1>2 DEF SeveralRejected

LEMMA Rounds ==
    ASSUME NodeTypeOK, HonourInv, NEW r \in Runs
    PROVE  /\ run[r].messages \in Seq(Messages)
           /\ \A i \in 1..Len(run[r].messages) :
                 /\ run[r].messages[i].round \in Nat
                 /\ run[r].messages[i].round <= Len(answers)
<1>1. run[r].messages \in Seq(Messages) /\ Numbered(run[r].messages)
  BY DEF NodeTypeOK, HonourInv, Resuming
<1> QED BY <1>1, MessageFields DEF Numbered

(* A run that a step leaves alone. *)
LEMMA OthersConverse ==
    ASSUME NodeInv, NodeTypeOK', HonourInv, NEW r \in Runs, Acts(r), NEW d \in Runs, d # r,
           Conversing(d)
    PROVE  Conversing(d)'
<1>. NodeTypeOK
  BY DEF NodeInv
<1>1. run'[d] = run[d] /\ agent' = agent /\ Grows
  BY NodeFrame, HistoryGrows
<1> DEFINE messages == run[d].messages
<1>2. /\ messages \in Seq(Messages)
      /\ \A i \in 1..Len(messages) :
            messages[i].round \in Nat /\ messages[i].round <= Len(answers)
  BY Rounds
<1>3. ASSUME run[d].pc = "claiming"
      PROVE  Checkpoint(run[d].messages)'
  <2>1. Checkpoint(messages)
    BY <1>3 DEF Conversing
  <2>2. Checkpoint(messages)'
    BY <1>1, <1>2, <2>1, CheckpointStays
  <2> QED BY <1>1, <2>2 DEF Checkpoint, UpTo, PairedBut, HasResult, Tool, Latest, FollowsItsCall
<1>4. ASSUME NEW open, NEW rest, open \subseteq rest, PairedBut(messages, Due(d), open)
      PROVE  PairedBut(messages, Due(d)', rest)
  BY <1>1, <1>2, <1>4, DueStays, PairedOtherwise
<1>5. ASSUME run[d].pc = "calls"
      PROVE  InCalls(d)'
  <2>1. run[d].round \in 1..Len(answers) /\ answers'[run[d].round] = answers[run[d].round]
    BY <1>1, <1>5 DEF NodeInv, RunInv, Bookkeeping, Grows
  <2>2. InCalls(d) /\ decisions \subseteq decisions'
    BY <1>1, <1>5 DEF Conversing, Grows
  <2>3. /\ PairedBut(messages, Due(d), {}) => PairedBut(messages, Due(d)', {})
        /\ PairedBut(messages, Due(d), CallsFrom(run[d].round, run[d].next)) =>
              PairedBut(messages, Due(d)', CallsFrom(run[d].round, run[d].next)')
    BY <1>1, <1>4, DueStays
  <2> QED BY <1>1, <2>1, <2>2, <2>3 DEF InCalls, Taken, UpTo, Latest
<1>6. ASSUME run[d].pc = "model"
      PROVE  /\ UpTo(messages, IF run[d].level = 0 THEN run[d].resumed ELSE Len(answers'))
             /\ PairedBut(messages, Due(d)', {})
  <2>1. PairedBut(messages, Due(d)', {})
    BY <1>4, <1>6 DEF Conversing
  <2>2. Len(answers) \in Nat /\ Len(answers') \in Nat /\ Len(answers) <= Len(answers')
    BY <1>1, DueStays
  <2> QED BY <1>2, <1>6, <2>1, <2>2 DEF Conversing, UpTo
<1> QED BY <1>1, <1>3, <1>5, <1>6 DEF Conversing

(* When the answers, the agent and what the run has of tools stay, so does *)
(* what is due. *)
LEMMA SameDue ==
    ASSUME NodeTypeOK, UNCHANGED <<agent, answers>>, NEW r \in Runs
    PROVE  /\ AllCalls' = AllCalls /\ DueAtStop' = DueAtStop
           /\ \A k, n : CallsFrom(k, n)' = CallsFrom(k, n)
           /\ \A call : NameOf(call)' = NameOf(call)
           /\ run'[r].tools = run[r].tools /\ run'[r].resumed = run[r].resumed =>
                 Due(r)' = Due(r)
<1>1. /\ AllCalls' = AllCalls
      /\ \A call : NameOf(call)' = NameOf(call)
  BY DEF AllCalls, CallsOf, NameOf
<1>2. DueAtStop' = DueAtStop /\ \A k, n : CallsFrom(k, n)' = CallsFrom(k, n)
  BY <1>1 DEF DueAtStop, CallsFrom
<1>3. ASSUME run'[r].tools = run[r].tools, run'[r].resumed = run[r].resumed
      PROVE  Due(r)' = Due(r)
  <2>1. \A k : ToolsAt(r, k)' = ToolsAt(r, k)
    BY <1>3 DEF ToolsAt
  <2> QED BY <1>1, <2>1 DEF Due, AllCalls
<1> QED BY <1>1, <1>2, <1>3

LEMMA FullTools ==
    ASSUME NEW r \in Runs, run[r].tools = agent.tools
    PROVE  Due(r) = DueAtStop
BY DEF Due, DueAtStop, AllCalls, ToolsAt

LEMMA BeginConverses ==
    ASSUME NodeInv, NodeTypeOK', HonourInv, NEW r \in Runs,
           BeginNew(r) \/ \E mode \in {"proceed", "reject"} : BeginResume(r, mode),
           execution.state = "STOPPED" => Checkpoint(execution.messages)
    PROVE  Conversing(r)'
<1>. NodeTypeOK
  BY DEF NodeInv
<1>1. UNCHANGED <<agent, answers>>
  BY DEF BeginNew, BeginResume
<1>2. CASE BeginNew(r)
  <2>1. /\ run'[r].pc = "model" /\ run'[r].level = 0 /\ run'[r].resumed = 0
        /\ run'[r].messages = <<User>>
    BY <1>2, Effects
  <2>2. UpTo(<<User>>, 0)
    BY DEF UpTo, User
  <2>3. PairedBut(<<User>>, Due(r)', {})
    BY DEF PairedBut, User
  <2> QED BY <2>1, <2>2, <2>3 DEF Conversing
<1>3. ASSUME NEW mode, BeginResume(r, mode)
      PROVE  Conversing(r)'
  <2>1. CASE execution.state = "STOPPED"
    <3>1. /\ run'[r].pc = "claiming" /\ run'[r].resumed = 0
          /\ run'[r].messages = execution.messages /\ run'[r].tools = agent.tools
      BY <1>3, <2>1, Effects
    <3>2. Checkpoint(run[r].messages)'
      BY <1>1, <2>1, <3>1, SameDue DEF Checkpoint
    <3> QED BY <1>1, <3>1, <3>2 DEF Conversing
  <2>2. CASE execution.state # "STOPPED"
    <3>1. run'[r].pc = "refused"
      BY <1>3, <2>2, Effects
    <3> QED BY <3>1 DEF Conversing
  <2> QED BY <2>1, <2>2
<1> QED BY <1>2, <1>3

LEMMA ClaimConverses ==
    ASSUME NodeInv, NodeTypeOK', HonourInv, NEW r \in Runs, Claim(r), Conversing(r)
    PROVE  Conversing(r)'
<1>. NodeTypeOK
  BY DEF NodeInv
<1> DEFINE messages == run[r].messages
<1>1. UNCHANGED <<agent, answers>> /\ run[r].pc = "claiming"
      /\ decisions' = decisions \cup {<<Last(messages).round, run[r].mode>>}
  BY DEF Claim
<1>2. /\ run[r].level = 0 /\ run[r].next = 1 /\ messages \in Seq(Messages) /\ messages # <<>>
  BY <1>1 DEF NodeInv, RunInv, Bookkeeping, NodeTypeOK
<1>3. /\ Checkpoint(messages) /\ run[r].tools = agent.tools
  BY <1>1 DEF Conversing
<1>4. /\ run'[r].mode = run[r].mode /\ run'[r].level = 0 /\ run'[r].next = 1
      /\ run'[r].tools = run[r].tools /\ run'[r].resumed = Last(messages).round
      /\ run'[r].pc = "ending" \/ Last(messages).role = "assistant"
      /\ Last(messages).role = "assistant" =>
            /\ run'[r].pc = "calls" /\ run'[r].round = Last(messages).round
            /\ run'[r].messages = Append(Front(messages), Last(messages))
  BY <1>2, Effects
<1>5. CASE Last(messages).role = "assistant"
  <2>1. run'[r].messages = messages
    BY <1>2, <1>4, <1>5, FrontThenLast
  <2>2. Len(messages) \in 1..Len(messages) /\ Last(messages) = messages[Len(messages)]
    BY <1>2, FrontParts
  <2>3. Last(messages).pos = 0
    BY <1>3, <1>5, <2>2 DEF Checkpoint, UpTo
  <2>4. Due(r)' = DueAtStop
    <3>1. run'[r].tools = agent'.tools
      BY <1>1, <1>3, <1>4
    <3>2. Due(r)' = DueAtStop'
      BY <3>1 DEF Due, DueAtStop, AllCalls, ToolsAt
    <3> QED BY <1>1, <3>2, SameDue
  <2>5. PairedBut(messages, Due(r)', CallsFrom(Last(messages).round, 1)')
    <3> DEFINE k == Last(messages).round
    <3>1. Last(run'[r].messages).round = k
      BY <2>1
    <3>2. CallsFrom(k, 1)' = CallsFrom(Last(run[r].messages).round, 1)
      BY <1>1, <3>1, SameDue DEF CallsFrom
    <3> QED BY <1>3, <2>4, <3>2 DEF Checkpoint
  <2>6. UpTo(messages, Last(messages).round)
    BY <1>3 DEF Checkpoint
  <2>7. InCalls(r)'
    BY <1>1, <1>2, <1>3, <1>4, <1>5, <2>1, <2>3, <2>5, <2>6 DEF InCalls, Taken
  <2> QED BY <1>4, <1>5, <2>7 DEF Conversing
<1>6. CASE Last(messages).role # "assistant"
  BY <1>4, <1>6 DEF Conversing
<1> QED BY <1>5, <1>6

(* At a call that is still to be handled. *)
LEMMA NextCall ==
    ASSUME NodeInv, NEW r \in Runs, AtCall(r), InCalls(r), ~ SeveralRejected
    PROVE  /\ run[r].round \in 1..Len(answers) /\ Len(answers) \in Nat
           /\ run[r].next \in Nat \ {0} /\ run[r].next <= Len(answers[run[r].round])
           /\ Len(answers[run[r].round]) \in Nat
           /\ ~ Taken(r) /\ ToolsAt(r, run[r].round) = run[r].tools
           /\ <<run[r].round, run[r].next>> \in AllCalls
           /\ <<run[r].round, run[r].next>> \in Due(r) <=> Wanted(r) \in run[r].tools
           /\ run[r].level = 0 /\ run[r].mode = "reject" =>
                 run[r].next = 1 /\ Len(answers[run[r].round]) = 1
<1>. NodeTypeOK
  BY DEF NodeInv
<1> DEFINE k == run[r].round
           n == run[r].next
<1>1. /\ k \in 1..Len(answers) /\ Len(answers) \in Nat /\ n \in Nat \ {0}
      /\ n <= Len(answers[k]) /\ Len(answers[k]) \in Nat /\ run[r].resumed \in Nat
  <2>1. k \in 1..Len(answers) /\ n # 0 /\ n <= Len(answers[k])
    BY DEF AtCall, NodeInv, RunInv, Bookkeeping
  <2>2. n \in Nat /\ run[r].resumed \in Nat
    BY DEF NodeTypeOK
  <2> QED BY <2>1, <2>2, CallFields
<1>2. ~ Taken(r)
  BY <1>1 DEF InCalls
<1>3. ToolsAt(r, k) = run[r].tools
  BY <1>1, <1>2 DEF InCalls, ToolsAt
<1>4. <<k, n>> \in AllCalls
  BY <1>1, CallFields
<1>5. NameOf(<<k, n>>) = Wanted(r)
  BY DEF NameOf, Wanted
<1>6. <<k, n>> \in Due(r) <=> Wanted(r) \in run[r].tools
  BY <1>3, <1>4, <1>5 DEF Due, AllCalls
<1>7. ASSUME run[r].level = 0, run[r].mode = "reject"
      PROVE  n = 1 /\ Len(answers[k]) = 1
  <2>1. <<k, "reject">> \in decisions
    BY <1>7 DEF InCalls
  <2>2. ~ (<<k, "reject">>[2] = "reject" /\ Len(answers[<<k, "reject">>[1]]) > 1)
    BY <2>1 DEF SeveralRejected
  <2>3. ~ (Len(answers[k]) > 1)
    BY <2>2
  <2>4. \A a, b \in Nat : a # 0 /\ a <= b /\ ~ (b > 1) => a = 1 /\ b = 1
    OBVIOUS
  <2> HIDE DEF k, n
  <2>5. n \in Nat /\ n # 0 /\ n <= Len(answers[k]) /\ Len(answers[k]) \in Nat
    BY <1>1
  <2> QED BY <2>3, <2>4, <2>5
<1> QED BY <1>1, <1>2, <1>3, <1>4, <1>6, <1>7

LEMMA UnknownConverses ==
    ASSUME NodeInv, NodeTypeOK', HonourInv, NEW r \in Runs, Unknown(r), Conversing(r),
           ~ SeveralRejected
    PROVE  Conversing(r)'
<1>. NodeTypeOK
  BY DEF NodeInv
<1> DEFINE messages == run[r].messages
           k == run[r].round
           n == run[r].next
<1>1. UNCHANGED <<agent, answers, decisions>> /\ AtCall(r) /\ Wanted(r) \notin run[r].tools
  BY DEF Unknown
<1>2. InCalls(r) /\ run[r].pc = "calls"
  BY <1>1 DEF Conversing, AtCall
<1>3. /\ run'[r].pc = "calls" /\ run'[r].mode = run[r].mode
      /\ run'[r].level = run[r].level /\ run'[r].round = k
      /\ run'[r].next = n + 1 /\ run'[r].resumed = run[r].resumed
      /\ run'[r].tools = run[r].tools /\ run'[r].messages = messages
  BY Effects
<1>4. /\ k \in 1..Len(answers) /\ n \in Nat \ {0} /\ n <= Len(answers[k])
      /\ Len(answers[k]) \in Nat /\ ~ Taken(r)
      /\ <<k, n>> \notin Due(r)
      /\ run[r].level = 0 /\ run[r].mode = "reject" => n = 1 /\ Len(answers[k]) = 1
  BY <1>1, <1>2, NextCall
<1>5. Due(r)' = Due(r) /\ \A a, b : {c \in AllCalls' : c[1] = a /\ c[2] >= b} = CallsFrom(a, b)
  BY <1>1, <1>3, SameDue DEF CallsFrom
<1>6. /\ messages \in Seq(Messages)
      /\ \A i \in 1..Len(messages) :
            messages[i].round \in Nat /\ messages[i].round <= Len(answers)
  BY Rounds
<1>7. \A call \in AllCalls : call = <<call[1], call[2]>> /\ call[1] \in Nat /\ call[2] \in Nat
                             /\ call[2] \in 1..Len(answers[call[1]])
  BY CallFields
<1>8. PairedBut(messages, Due(r), CallsFrom(k, n))
  BY <1>2, <1>4 DEF InCalls
<1>9. ASSUME NEW rest, \A call \in CallsFrom(k, n + 1) : call \in rest
      PROVE  PairedBut(messages, Due(r), rest)
  <2>1. ASSUME NEW call \in CallsFrom(k, n), call \in Due(r)
        PROVE  call \in rest
    <3>1. call \in AllCalls /\ call[1] = k /\ call[2] >= n
      BY <2>1 DEF CallsFrom
    <3>2. call[2] # n
      BY <1>4, <1>7, <2>1, <3>1
    <3>3. call \in CallsFrom(k, n + 1)
      BY <1>4, <1>7, <3>1, <3>2 DEF CallsFrom
    <3> QED BY <1>9, <3>3
  <2> QED BY <1>8, <2>1, PairedOtherwise
<1>10. InCalls(r)'
  <2>1. CASE run[r].level = 0 /\ run[r].mode = "reject"
    <3>0. n = 1 /\ Len(answers[k]) = 1
      BY <1>4, <2>1
    <3>1. CallsFrom(k, n + 1) = {}
      <4>1. ASSUME NEW call \in CallsFrom(k, n + 1)
            PROVE  FALSE
        <5>1. call \in AllCalls /\ call[1] = k /\ call[2] >= 2
          BY <3>0, <4>1 DEF CallsFrom
        <5>2. call[2] \in 1..1
          BY <1>7, <3>0, <5>1
        <5> QED BY <5>1, <5>2
      <4> QED BY <4>1
    <3>2. PairedBut(messages, Due(r), {})
      BY <1>9, <3>1
    <3>3. Taken(r)' /\ n + 1 > Len(answers[k]) /\ run[r].level # 1
      <4>1. run'[r].next = 2 /\ n + 1 = 2
        BY <1>3, <3>0
      <4> QED BY <1>3, <2>1, <3>0, <4>1 DEF Taken
    <3> QED BY <1>1, <1>2, <1>3, <1>5, <2>1, <3>2, <3>3 DEF InCalls
  <2>2. CASE ~ (run[r].level = 0 /\ run[r].mode = "reject")
    <3>1. PairedBut(messages, Due(r)', CallsFrom(run[r].round, run[r].next)')
      <4>1. CallsFrom(run[r].round, run[r].next)' = CallsFrom(k, n + 1)
        BY <1>3, <1>5 DEF CallsFrom
      <4> QED BY <1>5, <1>9, <4>1
    <3>2. ~ Taken(r)'
      BY <1>3, <2>2 DEF Taken
    <3>3. Last(messages).pos < n + 1
      <4>1. Last(messages).pos < n /\ messages # <<>>
        BY <1>2, <1>4 DEF InCalls
      <4>2. Last(messages).pos \in Nat
        BY <1>6, <4>1, FrontParts, MessageFields
      <4> QED BY <1>4, <4>1, <4>2
    <3> QED BY <1>1, <1>2, <1>3, <1>4, <2>2, <3>1, <3>2, <3>3 DEF InCalls
  <2> QED BY <2>1, <2>2
<1> QED BY <1>3, <1>10 DEF Conversing

LEMMA CallToolConverses ==
    ASSUME NodeInv, NodeTypeOK', HonourInv, NEW r \in Runs, CallTool(r), Conversing(r),
           ~ SeveralRejected
    PROVE  Conversing(r)'
<1>. NodeTypeOK
  BY DEF NodeInv
<1> DEFINE messages == run[r].messages
           k == run[r].round
           n == run[r].next
           m == Tool(k, n)
<1>1. /\ UNCHANGED <<agent, answers, decisions>> /\ AtCall(r) /\ Wanted(r) \in run[r].tools
      /\ run[r].level = 0 => run[r].mode = "proceed"
  BY DEF CallTool, MayCall, Resumed
<1>2. InCalls(r) /\ run[r].pc = "calls"
  BY <1>1 DEF Conversing, AtCall
<1>3. /\ run'[r].pc = "calls" /\ run'[r].mode = run[r].mode
      /\ run'[r].level = run[r].level /\ run'[r].round = k
      /\ run'[r].next = n + 1 /\ run'[r].resumed = run[r].resumed
      /\ run'[r].tools = run[r].tools /\ run'[r].messages = Append(messages, m)
  BY Effects
<1>4. /\ k \in 1..Len(answers) /\ n \in Nat \ {0} /\ n <= Len(answers[k])
      /\ Len(answers[k]) \in Nat /\ ~ Taken(r) /\ <<k, n>> \in Due(r) /\ k \in Nat
  BY <1>1, <1>2, NextCall
<1>5. Due(r)' = Due(r) /\ CallsFrom(run[r].round, run[r].next)' = CallsFrom(k, n + 1)
  BY <1>1, <1>3, SameDue DEF CallsFrom
<1>6. messages \in Seq(Messages)
  BY Rounds
<1>7. \A call \in AllCalls : call = <<call[1], call[2]>> /\ call[1] \in Nat /\ call[2] \in Nat
  BY CallFields
<1>8. /\ PairedBut(messages, Due(r), CallsFrom(k, n)) /\ messages # <<>>
      /\ Last(messages).role # "user" /\ Last(messages).round = k /\ Last(messages).pos < n
  BY <1>2, <1>4 DEF InCalls
<1>9. PairedBut(Append(messages, m), Due(r), CallsFrom(k, n + 1))
  <2>1. ASSUME NEW call \in CallsFrom(k, n)
        PROVE  /\ call = <<call[1], call[2]>>
               /\ call # <<k, n>> => call \in CallsFrom(k, n + 1)
    <3>1. call \in AllCalls /\ call[1] = k /\ call[2] >= n
      BY DEF CallsFrom
    <3>2. call # <<k, n>> => call[2] >= n + 1
      BY <1>4, <1>7, <3>1
    <3> QED BY <1>7, <3>1, <3>2 DEF CallsFrom
  <2> QED BY <1>4, <1>6, <1>8, <2>1, ResultAdded
<1>10. /\ m \in Messages /\ m.role = "tool" /\ m.round = k /\ m.pos = n
  BY <1>4 DEF Tool, Messages
<1> HIDE DEF m
<1>11. /\ Len(Append(messages, m)) = Len(messages) + 1 /\ Len(messages) \in Nat
       /\ \A i \in 1..Len(messages) : Append(messages, m)[i] = messages[i]
       /\ Append(messages, m)[Len(messages) + 1] = m
       /\ \A i \in 1..Len(Append(messages, m)) : i \in 1..Len(messages) \/ i = Len(messages) + 1
       /\ Append(messages, m) # <<>> /\ Last(Append(messages, m)) = m
  <2>1. Append(messages, m) # <<>> /\ Last(Append(messages, m)) = m
    BY <1>6, LastAppended
  <2> QED BY <1>6, <1>10, <2>1, Appended
<1>12. UpTo(messages, k) /\ k <= k
  BY <1>2, <1>4 DEF InCalls
<1>13. UpTo(Append(messages, m), k)
  BY <1>10, <1>11, <1>12 DEF UpTo
<1>14. ASSUME run[r].level = 1, NEW i \in 1..Len(Append(messages, m))
       PROVE  \/ Append(messages, m)[i].round <= run[r].resumed
              \/ Append(messages, m)[i].round = k /\ Latest(Append(messages, m), i)
  <2>1. CASE i = Len(messages) + 1
    BY <1>10, <1>11, <2>1 DEF Latest
  <2>2. CASE i \in 1..Len(messages)
    <3>1. \/ messages[i].round <= run[r].resumed
          \/ messages[i].round = k /\ Latest(messages, i)
      BY <1>2, <1>14, <2>2 DEF InCalls
    <3>2. ASSUME Latest(messages, i) PROVE Latest(Append(messages, m), i)
      <4>1. \A q \in (i + 1)..(Len(messages) + 1) :
               q \in (i + 1)..Len(messages) \/ q = Len(messages) + 1
        BY <1>11
      <4>2. \A q \in (i + 1)..Len(messages) : q \in 1..Len(messages)
        BY <2>2
      <4> QED BY <1>10, <1>11, <3>2, <4>1, <4>2 DEF Latest
    <3> QED BY <1>11, <2>2, <3>1, <3>2
  <2> QED BY <1>11, <2>1, <2>2
<1>15. InCalls(r)'
  <2>1. ~ Taken(r)'
    BY <1>1, <1>3 DEF Taken
  <2>2. m.pos < n + 1 /\ m.role # "user"
    BY <1>4, <1>10
  <2> QED BY <1>1, <1>2, <1>3, <1>4, <1>5, <1>9, <1>10, <1>11, <1>13, <1>14, <2>1, <2>2 DEF InCalls
<1> QED BY <1>3, <1>15 DEF Conversing

LEMMA RejectCallConverses ==
    ASSUME NodeInv, NodeTypeOK', HonourInv, NEW r \in Runs, RejectCall(r), Conversing(r),
           ~ SeveralRejected
    PROVE  Conversing(r)'
<1>. NodeTypeOK
  BY DEF NodeInv
<1> DEFINE messages == run[r].messages
           k == run[r].round
           n == run[r].next
           L == Len(messages)
<1>1. /\ UNCHANGED <<agent, answers, decisions>> /\ AtCall(r)
      /\ run[r].level = 0 /\ run[r].mode = "reject"
  BY DEF RejectCall, Resumed
<1>2. InCalls(r) /\ run[r].pc = "calls"
  BY <1>1 DEF Conversing, AtCall
<1>3. /\ run'[r].pc = "calls" /\ run'[r].mode = "reject"
      /\ run'[r].level = 0 /\ run'[r].round = k
      /\ run'[r].next = n + 1 /\ run'[r].resumed = run[r].resumed
      /\ run'[r].messages = Front(messages)
  BY <1>1, Effects
<1>4. /\ k \in 1..Len(answers) /\ n = 1 /\ Len(answers[k]) = 1 /\ ~ Taken(r) /\ k \in Nat
  <2>1. run[r].round \in 1..Len(answers) /\ Len(answers) \in Nat
        /\ run[r].next = 1 /\ Len(answers[run[r].round]) = 1 /\ ~ Taken(r)
    BY <1>1, <1>2, NextCall
  <2> QED BY <2>1
<1>5. messages \in Seq(Messages)
  BY Rounds
<1>6. /\ PairedBut(messages, Due(r), CallsFrom(k, n)) /\ messages # <<>>
      /\ Last(messages).pos < 1 /\ UpTo(messages, k) /\ k = run[r].resumed
  BY <1>1, <1>2, <1>4 DEF InCalls
<1>7. /\ Front(messages) \in Seq(Messages) /\ L \in Nat \ {0} /\ Len(Front(messages)) = L - 1
      /\ \A i \in 1..(L - 1) : Front(messages)[i] = messages[i]
      /\ Last(messages) = messages[L]
  BY <1>5, <1>6, FrontParts
<1> HIDE DEF messages, L
<1>8. Last(messages).role # "tool"
  <2> SUFFICES ASSUME Last(messages).role = "tool" PROVE FALSE
    OBVIOUS
  <2>1. L \in 1..L
    BY <1>7
  <2>2. FollowsItsCall(messages, L)
    BY <1>6, <1>7, <2>1 DEF PairedBut, L
  <2>3. L - 1 \in 1..L /\ messages[L - 1].pos < messages[L].pos
    BY <1>7, <2>2 DEF FollowsItsCall
  <2>4. messages[L - 1].pos \in Nat /\ messages[L].pos \in Nat
    BY <1>5, <2>1, <2>3, MessageFields DEF L
  <2> QED BY <1>6, <1>7, <2>3, <2>4
<1>9. PairedBut(Front(messages), Due(r), {})
  BY <1>5, <1>6, <1>8, AnswerTaken
<1>10. UpTo(Front(messages), k)
  BY <1>6, <1>7 DEF UpTo, L
<1>11. PairedBut(Front(messages), Due(r)', {})
  <2>1. \A call : call[1] \in Nat /\ call[1] <= k => (call \in Due(r)' <=> call \in Due(r))
    <3>1. /\ AllCalls' = AllCalls /\ \A call : NameOf(call)' = NameOf(call)
      BY <1>1, SameDue
    <3>2. \A j \in Nat : j <= k => ToolsAt(r, j) = agent.tools
      BY <1>4, <1>6 DEF ToolsAt
    <3>3. \A j \in Nat : j <= k => ToolsAt(r, j)' = agent.tools
      BY <1>1, <1>3, <1>4, <1>6 DEF ToolsAt
    <3> QED BY <3>1, <3>2, <3>3 DEF Due, AllCalls
  <2>2. \A i \in 1..Len(Front(messages)) :
           Front(messages)[i].round \in Nat /\ Front(messages)[i].round <= k
    BY <1>7, <1>10, MessageFields DEF UpTo
  <2> QED BY <1>9, <2>1, <2>2, PairedOtherwise
<1>12. InCalls(r)'
  <2>1. run'[r].next = 2 /\ 2 > 1
    BY <1>3, <1>4
  <2>2. Taken(r)'
    BY <1>3, <2>1 DEF Taken
  <2>3. <<k, "reject">> \in decisions
    BY <1>1, <1>2 DEF InCalls
  <2> QED BY <1>1, <1>3, <1>4, <1>6, <1>10, <1>11, <2>1, <2>2, <2>3 DEF InCalls
<1> QED BY <1>3, <1>12 DEF Conversing

(* What a run leaves to be resumed is a checkpoint. *)
LEMMA StopsAtCheckpoint ==
    ASSUME NodeInv, HonourInv, NEW r \in Runs, AskHuman(r), Conversing(r), ~ SeveralRejected,
           execution'.state = "STOPPED"
    PROVE  Checkpoint(run[r].messages) /\ execution'.messages = run[r].messages
<1>. NodeTypeOK
  BY DEF NodeInv
<1> DEFINE messages == run[r].messages
           k == run[r].round
           n == run[r].next
<1>1. execution'.messages = messages /\ run[r].level = 1 /\ AtCall(r)
  <2>1. execution \in [state : {"NONE", "INPROGRESS", "STOPPED", "FINISHED", "ERROR",
                                "TERMINATED"}, messages : Seq(Messages)]
    BY DEF NodeTypeOK
  <2>2. AtCall(r)
    BY DEF AskHuman
  <2>3. CASE run[r].level = 1
    <3>1. execution' = [state |-> "STOPPED", messages |-> run[r].messages]
      BY <2>3 DEF AskHuman
    <3> QED BY <2>2, <2>3, <3>1
  <2>4. CASE run[r].level # 1
    <3>1. execution' = [execution EXCEPT !.state = "FINISHED"]
      BY <2>4 DEF AskHuman, End
    <3> QED BY <2>1, <3>1
  <2> QED BY <2>3, <2>4
<1>2. InCalls(r)
  BY <1>1 DEF Conversing, AtCall
<1>3. /\ k \in Nat /\ n \in Nat /\ n >= 1 /\ ~ Taken(r) /\ run[r].tools \subseteq agent.tools
      /\ run[r].resumed \in Nat
  <2>1. /\ run[r].round \in 1..Len(answers) /\ Len(answers) \in Nat
        /\ run[r].next \in Nat \ {0} /\ ~ Taken(r)
    BY <1>1, <1>2, NextCall
  <2>2. run[r].tools \subseteq agent.tools
    BY DEF HonourInv, Resuming
  <2>3. run[r].resumed \in Nat
    BY DEF NodeTypeOK
  <2> QED BY <2>1, <2>2, <2>3
<1>4. /\ UpTo(messages, k) /\ Last(messages).round = k
      /\ PairedBut(messages, Due(r), CallsFrom(k, n))
  BY <1>2, <1>3 DEF InCalls
<1>5. /\ messages \in Seq(Messages)
      /\ \A i \in 1..Len(messages) : messages[i].round \in Nat
  BY Rounds
<1>6. \A call \in AllCalls : call[1] \in Nat /\ call[2] \in Nat /\ call[2] >= 1
  BY CallFields
<1>7. ASSUME NEW i \in 1..Len(messages), NEW call, call[1] = messages[i].round
      PROVE  /\ call \in Due(r) => call \in DueAtStop
             /\ call \in DueAtStop =>
                   \/ call \in Due(r) /\ (call \in CallsFrom(k, n) => call \in CallsFrom(k, 1))
                   \/ call \in CallsFrom(k, 1) /\ Latest(messages, i)
  <2>1. call \in Due(r) => call \in DueAtStop
    BY <1>3 DEF Due, DueAtStop, AllCalls, ToolsAt
  <2>2. call \in CallsFrom(k, n) => call \in CallsFrom(k, 1)
    BY <1>6 DEF CallsFrom
  <2>3. CASE messages[i].round <= run[r].resumed
    <3>1. ToolsAt(r, call[1]) = agent.tools
      BY <1>3, <1>5, <1>7, <2>3 DEF ToolsAt
    <3>2. call \in DueAtStop => call \in Due(r)
      BY <3>1 DEF Due, DueAtStop, AllCalls
    <3> QED BY <2>1, <2>2, <3>2
  <2>4. CASE messages[i].round = k /\ Latest(messages, i)
    <3>1. call \in DueAtStop => call \in CallsFrom(k, 1)
      BY <1>6, <1>7, <2>4 DEF DueAtStop, CallsFrom
    <3> QED BY <2>1, <2>4, <3>1
  <2> QED BY <1>1, <1>2, <2>3, <2>4 DEF InCalls
<1>8. PairedBut(messages, DueAtStop, CallsFrom(k, 1))
  BY <1>4, <1>7, PairedOtherwise
<1> QED BY <1>1, <1>4, <1>8 DEF Checkpoint

LEMMA EndCallsConverses ==
    ASSUME NodeInv, NodeTypeOK', HonourInv, NEW r \in Runs, EndCalls(r), Conversing(r)
    PROVE  Conversing(r)'
<1>. NodeTypeOK
  BY DEF NodeInv
<1> DEFINE messages == run[r].messages
           k == run[r].round
           n == run[r].next
<1>1. /\ UNCHANGED <<agent, answers, decisions>> /\ run[r].pc = "calls" /\ n > Len(answers[k])
  BY DEF EndCalls
<1>2. /\ run'[r].pc \in {"model", "finished"} /\ run'[r].resumed = run[r].resumed
      /\ run'[r].pc = "model" => /\ run'[r].level = run[r].level
                                 /\ run'[r].tools = run[r].tools
                                 /\ run'[r].messages = messages
  BY Effects
<1>3. CASE run'[r].pc = "model"
  <2>1. Due(r)' = Due(r)
    BY <1>1, <1>2, <1>3, SameDue
  <2>2. InCalls(r) /\ k \in 1..Len(answers) /\ Len(answers) \in Nat /\ n \in Nat
    BY <1>1 DEF Conversing, NodeInv, RunInv, Bookkeeping, NodeTypeOK
  <2>3. CallsFrom(k, n) = {}
    <3>1. ASSUME NEW call \in CallsFrom(k, n)
          PROVE  FALSE
      <4>1. call \in AllCalls /\ call[1] = k /\ call[2] >= n
        BY <3>1 DEF CallsFrom
      <4>2. call[2] \in 1..Len(answers[call[1]])
        BY <4>1, CallFields
      <4>3. Len(answers[k]) \in Nat /\ call[2] \in 1..Len(answers[k])
        BY <2>2, <4>1, <4>2, CallFields
      <4>4. call[2] >= n /\ n > Len(answers[k])
        BY <1>1, <4>1
      <4> HIDE DEF k, n
      <4>5. \A a, b, c \in Nat : ~ (c >= b /\ b > a /\ c <= a)
        OBVIOUS
      <4>6. n \in Nat /\ call[2] \in Nat /\ call[2] <= Len(answers[k])
        BY <2>2, <4>3 DEF n
      <4> QED BY <4>3, <4>4, <4>5, <4>6
    <3> QED BY <3>1
  <2>4. PairedBut(messages, Due(r), {})
    BY <2>2, <2>3 DEF InCalls
  <2>5. UpTo(messages, IF run[r].level = 0 THEN run[r].resumed ELSE Len(answers))
    <3>1. UpTo(messages, k) /\ (run[r].level = 0 => k = run[r].resumed)
      BY <2>2 DEF InCalls
    <3>2. \A i \in 1..Len(messages) : messages[i].round <= Len(answers)
      BY Rounds
    <3> QED BY <3>1, <3>2 DEF UpTo
  <2> QED BY <1>1, <1>2, <1>3, <2>1, <2>4, <2>5 DEF Conversing
<1>4. CASE run'[r].pc = "finished"
  BY <1>4 DEF Conversing
<1> QED BY <1>2, <1>3, <1>4

LEMMA ModelCallsConverses ==
    ASSUME NodeInv, NodeTypeOK', HonourInv, NEW r \in Runs, NEW names \in Answers,
           ModelCalls(r, names), Conversing(r)
    PROVE  Conversing(r)'
<1>. NodeTypeOK /\ Acts(r)
  BY DEF NodeInv, Acts, Step
<1> DEFINE messages == run[r].messages
           k == Len(answers) + 1
           m == Assistant(k)
           longer == Append(messages, m)
<1>1. /\ UNCHANGED <<agent, decisions>> /\ run[r].pc = "model"
      /\ answers' = Append(answers, names)
  BY DEF ModelCalls
<1>2. /\ run'[r].pc = "calls" /\ run'[r].mode = run[r].mode
      /\ run'[r].level = run[r].level + 1 /\ run'[r].round = k
      /\ run'[r].next = 1 /\ run'[r].tools = run[r].tools
      /\ run'[r].resumed = run[r].resumed /\ run'[r].messages = longer
  BY Effects
<1>3. /\ Len(answers) \in Nat /\ k \in Nat /\ run[r].level \in Nat /\ run[r].resumed \in Nat
      /\ run[r].resumed < k /\ Grows /\ Len(answers') = k
  <2>1. run[r].resumed <= Len(answers)
    BY DEF HonourInv, Resuming
  <2>2. Len(answers) \in Nat /\ run[r].level \in Nat /\ run[r].resumed \in Nat
    BY DEF NodeTypeOK
  <2>3. Len(Append(answers, names)) = Len(answers) + 1
    BY DEF NodeTypeOK
  <2>4. Grows
    BY HistoryGrows
  <2>5. Len(answers') = Len(answers) + 1
    BY <1>1, <2>3
  <2> QED BY <2>1, <2>2, <2>4, <2>5
<1>4. /\ messages \in Seq(Messages)
      /\ \A i \in 1..Len(messages) :
            messages[i].round \in Nat /\ messages[i].round <= Len(answers)
  BY Rounds
<1>5. /\ UpTo(messages, IF run[r].level = 0 THEN run[r].resumed ELSE Len(answers))
      /\ PairedBut(messages, Due(r), {})
  BY <1>1 DEF Conversing
<1>6. \A call \in AllCalls : call[1] \in Nat
  BY CallFields
<1>7. \A call \in AllCalls' : call[1] \in Nat /\ call[2] \in Nat /\ call[2] >= 1
  <2>1. \A j \in 1..Len(answers') : Len(answers'[j]) \in Nat
    <3>1. answers' \in Seq(Seq(Names))
      BY DEF NodeTypeOK
    <3>2. \A j \in 1..Len(answers') : answers'[j] \in Seq(Names)
      BY <3>1, Elements
    <3> QED BY <3>2
  <2>2. \A call \in AllCalls' : \E j \in 1..Len(answers') :
           call \in {<<j, i>> : i \in 1..Len(answers'[j])}
    BY DEF AllCalls, CallsOf
  <2> QED BY <1>3, <2>1, <2>2
<1>8. PairedBut(longer, Due(r)', {c \in AllCalls' : c[1] = k /\ c[2] >= 1})
  <2>1. \A call : call[1] \in Nat /\ call[1] <= Len(answers) =>
           (call \in Due(r)' <=> call \in Due(r))
    BY <1>2, <1>3, DueStays
  <2>2. \A call \in Due(r)' : /\ call[1] \in Nat /\ call[2] >= 1 /\ call \in AllCalls'
                              /\ call[1] < k => call \in Due(r)
    BY <1>3, <1>7, <2>1 DEF Due, AllCalls
  <2>3. \A call \in Due(r) : call[1] < k => call \in Due(r)'
    BY <1>3, <1>6, <2>1 DEF Due, AllCalls
  <2>4. \A call \in Due(r)' : call[1] = k => call \in {c \in AllCalls' : c[1] = k /\ c[2] >= 1}
    BY <2>2
  <2>5. \A i \in 1..Len(messages) : messages[i].round < k
    <3>1. \A a, b \in Nat : a <= b => a < b + 1
      OBVIOUS
    <3> QED BY <1>3, <1>4, <3>1
  <2> QED BY <1>3, <1>4, <1>5, <2>2, <2>3, <2>4, <2>5, AnswerAdded
<1>9. /\ m \in Messages /\ m.role = "assistant" /\ m.round = k /\ m.pos = 0
  BY <1>3 DEF Assistant, Messages
<1> HIDE DEF m
<1>10. /\ Len(longer) = Len(messages) + 1 /\ Len(messages) \in Nat
       /\ \A i \in 1..Len(messages) : longer[i] = messages[i]
       /\ longer[Len(messages) + 1] = m
       /\ \A i \in 1..Len(longer) : i \in 1..Len(messages) \/ i = Len(messages) + 1
       /\ longer # <<>> /\ Last(longer) = m
  <2>1. longer # <<>> /\ Last(longer) = m
    BY <1>4, LastAppended
  <2> QED BY <1>4, <1>9, <2>1, Appended
<1> HIDE DEF longer
<1>11. UpTo(longer, k)
  <2>1. \A i \in 1..Len(messages) :
           messages[i].round <= k /\ (messages[i].role = "assistant" => messages[i].pos = 0)
    <3>1. \A a, b \in Nat : a <= b => a <= b + 1
      OBVIOUS
    <3> QED BY <1>3, <1>4, <1>5, <3>1 DEF UpTo
  <2>2. k \in Nat /\ m.round <= k
    BY <1>3, <1>9
  <2> HIDE DEF k
  <2> QED BY <1>9, <1>10, <2>1, <2>2 DEF UpTo
<1>12. ASSUME run[r].level + 1 = 1, NEW i \in 1..Len(longer)
       PROVE  \/ longer[i].round <= run[r].resumed
              \/ longer[i].round = k /\ Latest(longer, i)
  <2>1. CASE i \in 1..Len(messages)
    <3>0. \A a \in Nat : a + 1 = 1 => a = 0
      OBVIOUS
    <3>1. run[r].level = 0
      BY <1>3, <1>12, <3>0
    <3> QED BY <1>5, <1>10, <2>1, <3>1 DEF UpTo
  <2>2. CASE i = Len(messages) + 1
    BY <1>9, <1>10, <2>2 DEF Latest
  <2> QED BY <1>10, <2>1, <2>2
<1>13. /\ run'[r].level # 0 /\ ~ Taken(r)' /\ k > run[r].resumed
  BY <1>2, <1>3 DEF Taken
<1>14. CallsFrom(run[r].round, run[r].next)' = {c \in AllCalls' : c[1] = k /\ c[2] >= 1}
  BY <1>2 DEF CallsFrom
<1>15. InCalls(r)'
  <2>1. m.pos < 1 /\ m.role # "user"
    BY <1>9
  <2> HIDE DEF k
  <2> QED BY <1>2, <1>8, <1>9, <1>10, <1>11, <1>12, <1>13, <1>14, <2>1 DEF InCalls
<1> QED BY <1>2, <1>15 DEF Conversing

(* A run that ends, or is about to, has nothing to keep. *)
LEMMA LeavingConverses ==
    ASSUME NodeInv, NEW r \in Runs, NodeEnds(r) \/ Throws(r) \/ AskHuman(r)
    PROVE  Conversing(r)'
<1>. NodeTypeOK
  BY DEF NodeInv
<1>1. CASE NodeEnds(r) \/ Throws(r)
  <2>1. \E state : \E place \in {"finished", "failed"} : End(r, state, place)
    BY <1>1 DEF NodeEnds, Throws
  <2>2. run'[r].pc \in {"finished", "failed"}
    BY <2>1, Effects
  <2> QED BY <2>2 DEF Conversing
<1>2. CASE AskHuman(r)
  <2>1. run'[r].pc \in {"stopped", "finished"}
    BY <1>2, Effects
  <2> QED BY <2>1 DEF Conversing
<1> QED BY <1>1, <1>2

LEMMA PairStepKeeps ==
    ASSUME NodeInv, NodeInv', HonourInv, PairInv, NEW r \in Runs, Acts(r)
    PROVE  PairInv'
<1>. NodeTypeOK /\ NodeTypeOK'
  BY DEF NodeInv
<1>1. /\ Grows /\ Len(answers) \in Nat /\ Len(answers') \in Nat /\ Len(answers) <= Len(answers')
  BY HistoryGrows DEF Grows
<1>2. DecisionsExist'
  <2>1. ASSUME Claim(r)
        PROVE  Last(run[r].messages).round \in 1..Len(answers)
    <3>1. /\ run[r].pc = "claiming" /\ run[r].messages \in Seq(Messages)
          /\ run[r].messages # <<>> /\ Sound(run[r].messages)
      BY <2>1 DEF Claim, NodeInv, RunInv, Bookkeeping, NodeTypeOK
    <3>2. Stoppable(run[r].messages) /\ Numbered(run[r].messages)
      BY <3>1 DEF HonourInv, Resuming
    <3> DEFINE last == Last(run[r].messages)
    <3>3. /\ Len(run[r].messages) \in 1..Len(run[r].messages)
          /\ last = run[r].messages[Len(run[r].messages)]
          /\ last.role \in {"assistant", "tool"}
      BY <3>1, <3>2, StoppableParts
    <3>4. last.role = "assistant" => last.round \in 1..Len(answers)
      BY <3>1, <3>3 DEF Sound
    <3>5. ASSUME last.role = "tool"
          PROVE  last.round \in 1..Len(answers)
      <4>1. <<last.round, last.pos>> \in Made
        BY <3>2, <3>3, <3>5 DEF Numbered
      <4>2. PICK j \in 1..Len(ran) : <<last.round, last.pos>> = <<ran[j].round, ran[j].pos>>
        BY <4>1 DEF Made
      <4>3. last.round = ran[j].round
        BY <4>2
      <4> QED BY <4>3 DEF NodeInv, CallsExist
    <3> QED BY <3>3, <3>4, <3>5
  <2>2. \A d \in decisions' : d \in decisions \/ (d[1] = Last(run[r].messages).round /\ Claim(r))
    <3>1. Claim(r) => decisions' = decisions \cup {<<Last(run[r].messages).round, run[r].mode>>}
      BY DEF Claim
    <3>2. Claim(r) \/ decisions' = decisions
      BY NodeFrame
    <3> QED BY <3>1, <3>2
  <2> QED BY <1>1, <2>1, <2>2 DEF PairInv, DecisionsExist
<1>3. ASSUME ~ SeveralRejected'
      PROVE  /\ ~ SeveralRejected
             /\ execution.state = "STOPPED" => Checkpoint(execution.messages)
             /\ \A d \in Runs : Conversing(d)
  BY <1>1, <1>3, SeveralStay DEF PairInv
<1>4. ASSUME ~ SeveralRejected', NEW d \in Runs
      PROVE  Conversing(d)'
  <2>1. CASE d = r
    <3>1. Conversing(r)'
      BY <1>3, <1>4, BeginConverses, ClaimConverses, UnknownConverses, CallToolConverses,
         RejectCallConverses, EndCallsConverses, ModelCallsConverses, LeavingConverses
         DEF Acts, Step
    <3> QED BY <2>1, <3>1
  <2>2. CASE d # r
    BY <1>3, <1>4, <2>2, OthersConverse
  <2> QED BY <2>1, <2>2
<1>5. ASSUME ~ SeveralRejected', execution'.state = "STOPPED"
      PROVE  Checkpoint(execution.messages)'
  <2>1. ASSUME NEW messages \in Seq(Messages), Checkpoint(messages), Numbered(messages),
               execution'.messages = messages
        PROVE  Checkpoint(execution.messages)'
    <3>1. Checkpoint(messages)'
      BY <1>1, <2>1, CheckpointStays DEF Numbered
    <3> QED BY <2>1, <3>1 DEF Checkpoint, UpTo, PairedBut, HasResult, Tool, Latest, FollowsItsCall
  <2>2. CASE AskHuman(r)
    <3>1. Checkpoint(run[r].messages) /\ execution'.messages = run[r].messages
      BY <1>3, <1>5, <2>2, StopsAtCheckpoint
    <3>2. run[r].messages \in Seq(Messages) /\ Numbered(run[r].messages)
      BY DEF NodeTypeOK, HonourInv, Resuming
    <3> QED BY <2>1, <3>1, <3>2
  <2>3. CASE ~ AskHuman(r)
    <3>1. \/ execution' = execution
          \/ \E state \in {"INPROGRESS", "FINISHED", "ERROR", "TERMINATED"} :
                execution' = [execution EXCEPT !.state = state]
      BY <2>3 DEF Acts, Step, BeginNew, BeginResume, Claim, NodeEnds, Throws, Unknown, CallTool,
                  RejectCall, EndCalls, ModelCalls, End
    <3>2. execution' = execution
      BY <1>5, <3>1 DEF NodeTypeOK
    <3>3. /\ Checkpoint(execution.messages) /\ execution.messages \in Seq(Messages)
          /\ Numbered(execution.messages)
      BY <1>3, <1>5, <3>2 DEF NodeTypeOK, HonourInv
    <3> QED BY <2>1, <3>2, <3>3
  <2> QED BY <2>2, <2>3
<1> QED BY <1>2, <1>4, <1>5 DEF PairInv

LEMMA PairInvHolds == NodeSpec => []PairInv
<1>1. NodeInit => PairInv
  BY DEF NodeInit, Locals, PairInv, DecisionsExist, Conversing
<1>2. NodeInv /\ NodeInv' /\ HonourInv /\ PairInv /\ [NodeNext]_nodeVars => PairInv'
  <2> SUFFICES ASSUME NodeInv, NodeInv', HonourInv, PairInv, [NodeNext]_nodeVars
               PROVE  PairInv'
    OBVIOUS
  <2>1. CASE NodeNext
    <3>1. \E r \in Runs : Acts(r)
      BY <2>1 DEF NodeNext, Acts
    <3> QED BY <3>1, PairStepKeeps
  <2>2. CASE UNCHANGED nodeVars
    <3>1. /\ SeveralRejected' = SeveralRejected /\ DecisionsExist' = DecisionsExist
          /\ Checkpoint(execution.messages)' = Checkpoint(execution.messages)
      BY <2>2 DEF nodeVars, SeveralRejected, DecisionsExist, Checkpoint, UpTo, PairedBut, HasResult,
                  Tool, Latest, FollowsItsCall, DueAtStop, AllCalls, CallsOf, NameOf, CallsFrom
    <3>2. \A r \in Runs : Conversing(r)' = Conversing(r)
      BY <2>2 DEF nodeVars, Conversing, InCalls, Taken, Checkpoint, UpTo, PairedBut, HasResult,
                  Tool, Latest, FollowsItsCall, Due, DueAtStop, ToolsAt, AllCalls, CallsOf,
                  NameOf, CallsFrom
    <3> QED BY <2>2, <3>1, <3>2 DEF PairInv, nodeVars
  <2> QED BY <2>1, <2>2
<1> QED
  BY <1>1, <1>2, NodeInvHolds, HonourInvHolds, PTL DEF NodeSpec

(* The conversation a model is asked with is well formed: behind every     *)
(* answer are the results of its calls, in order, and nothing else, also   *)
(* after a stop and when requests overlap - as long as no answer with      *)
(* several calls has been rejected (Agent.ts 1352, 1417, 1586, 1625).      *)
THEOREM ConversationsPair == NodeSpec => []ConversationPaired
<1>1. PairInv => ConversationPaired
  <2> SUFFICES ASSUME PairInv, ~ SeveralRejected, NEW r \in Runs, run[r].pc = "model"
               PROVE  Paired(run[r].messages, Due(r))
    BY DEF ConversationPaired
  <2>1. PairedBut(run[r].messages, Due(r), {})
    BY DEF PairInv, Conversing
  <2> QED BY <2>1 DEF Paired, PairedBut
<1> QED
  BY <1>1, PairInvHolds, PTL
=============================================================================
