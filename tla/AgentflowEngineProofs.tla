------------------------ MODULE AgentflowEngineProofs ------------------------
(***************************************************************************)
(* What the agentflow engine guarantees for every flow, any number of      *)
(* requests and any iteration limit: what the rows of the executions tell, *)
(* that nothing is forgotten, how an execution lives, and which nodes run. *)
(***************************************************************************)
EXTENDS AgentflowEngine, FiniteSetTheorems, WellFoundedInduction, TLAPS

-----------------------------------------------------------------------------
(* Only(): what it returns for every sequence.  An argument by induction   *)
(* is one about the least number for which the claim fails.                *)

LEMMA LeastOf ==
    ASSUME NEW S, S \subseteq Nat, S # {}
    PROVE  \E i \in S : \A j \in S : i <= j
<1>1. PICK i \in S : \A j \in S : ~ (<<j, i>> \in OpToRel(<, Nat))
  BY NatLessThanWellFounded, WFMin, Zenon
<1>2. \A j \in S : ~ (j < i)
  <2>1. \A j \in S : <<j, i>> \in Nat \X Nat
    OBVIOUS
  <2>2. \A j \in S : j < i => <<j, i>> \in OpToRel(<, Nat)
    BY <2>1 DEF OpToRel
  <2> QED
    BY <1>1, <2>2, Zenon
<1> QED
  BY <1>2

LEMMA StepByStep ==
    ASSUME NEW N \in Nat, NEW good, 0 \in good, \A k \in 1..N : k - 1 \in good => k \in good
    PROVE  N \in good
<1> DEFINE Bad == (0..N) \ good
<1>1. SUFFICES ASSUME Bad # {} PROVE FALSE
  OBVIOUS
<1>2. PICK k \in Bad : \A m \in Bad : k <= m
  <2>1. Bad \subseteq Nat
    OBVIOUS
  <2> QED
    BY <1>1, <2>1, LeastOf
<1>3. k # 0 /\ k \in 1..N /\ k - 1 \in 0..N /\ ~ (k <= k - 1)
  BY <1>2
<1>4. k - 1 \notin Bad
  BY <1>2, <1>3
<1> QED
  BY <1>2, <1>3, <1>4

(* f is the function defined by that recursion up to N.                    *)
Iterated(f, T, N, x, g) ==
    /\ f \in [0..N -> T] /\ f[0] = x
    /\ \A k \in 1..N : f[k] = g[<<f[k - 1], k>>]

(* It exists.                                                              *)
LEMMA Iterates ==
    ASSUME NEW T, NEW N \in Nat, NEW x \in T, NEW g \in [T \X (1..N) -> T]
    PROVE  \E f : Iterated(f, T, N, x, g)
<1> USE DEF Iterated
<1> DEFINE Upto(f, n) == Iterated(f, T, n, x, g)
           Bad == {n \in 0..N : ~ \E f : Upto(f, n)}
<1>1. Bad \subseteq Nat
  OBVIOUS
<1> HIDE DEF Bad
<1>2. Bad = {}
  <2>1. SUFFICES ASSUME Bad # {} PROVE FALSE
    OBVIOUS
  <2>2. PICK n \in Bad : \A m \in Bad : n <= m
    BY <2>1, <1>1, LeastOf
  <2>3. n \in 0..N /\ ~ \E f : Upto(f, n)
    BY <2>2 DEF Bad
  <2>4. n # 0
    <3>1. Upto([k \in 0..0 |-> x], 0)
      OBVIOUS
    <3> QED
      BY <3>1, <2>3
  <2>5. n - 1 \in 0..N /\ n - 1 \in Nat /\ n \in 1..N /\ n - 1 \in 0..(n - 1)
    BY <2>3, <2>4
  <2>6. n - 1 \notin Bad
    BY <2>2, <2>5
  <2>7. PICK f : Upto(f, n - 1)
    BY <2>5, <2>6 DEF Bad
  <2> DEFINE y == g[<<f[n - 1], n>>]
             h == [k \in 0..n |-> IF k = n THEN y ELSE f[k]]
  <2>8. y \in T
    <3>1. f[n - 1] \in T
      BY <2>5, <2>7
    <3> QED
      BY <3>1, <2>5
  <2> HIDE DEF y
  <2>9. h \in [0..n -> T] /\ h[0] = x
    BY <2>4, <2>5, <2>7, <2>8
  <2>10. \A k \in 1..n : h[k] = g[<<h[k - 1], k>>]
    <3> SUFFICES ASSUME NEW k \in 1..n PROVE h[k] = g[<<h[k - 1], k>>]
      OBVIOUS
    <3>1. h[k - 1] = f[k - 1]
      BY <2>5
    <3>4. h[n] = y
      BY <2>5
    <3> HIDE DEF h
    <3>2. CASE k = n
      BY <3>1, <3>2, <3>4 DEF y
    <3>3. CASE k # n
      <4>1. k \in 1..(n - 1) /\ h[k] = f[k]
        BY <3>3, <2>5 DEF h
      <4> QED
        BY <4>1, <3>1, <2>7
    <3> QED
      BY <3>2, <3>3
  <2> QED
    BY <2>3, <2>9, <2>10
<1>3. N \in 0..N
  OBVIOUS
<1> QED
  BY <1>2, <1>3 DEF Bad

(* The steps of Only(): after k elements it has those of them in the set.  *)
Steps(f, s, set) ==
    f = [k \in 0..Len(s) |->
            IF k = 0 THEN <<>>
            ELSE IF s[k] \in set THEN Append(f[k - 1], s[k]) ELSE f[k - 1]]

LEMMA StepsExist ==
    ASSUME NEW R, NEW s \in Seq(R), NEW set
    PROVE  \E f \in [0..Len(s) -> Seq(R \cap set)] : Steps(f, s, set)
<1> DEFINE T == Seq(R \cap set)
           N == Len(s)
           step(y, k) == IF s[k] \in set THEN Append(y, s[k]) ELSE y
           g == [a \in T \X (1..N) |-> step(a[1], a[2])]
<1>1. <<>> \in T /\ N \in Nat
  OBVIOUS
<1>2. ASSUME NEW y \in T, NEW k \in 1..N PROVE step(y, k) \in T
  <2>1. s[k] \in R
    OBVIOUS
  <2> QED
    BY <2>1
<1> HIDE DEF T
<1>3. \A y \in T, k \in 1..N : g[<<y, k>>] = step(y, k)
  OBVIOUS
<1> HIDE DEF step
<1>8. g \in [T \X (1..N) -> T]
  BY <1>2 DEF g
<1> HIDE DEF g
<1>4. PICK f : Iterated(f, T, N, <<>>, g)
  BY <1>1, <1>8, Iterates
<1>5. \A k \in 0..N : f[k] = IF k = 0 THEN <<>>
                             ELSE IF s[k] \in set THEN Append(f[k - 1], s[k]) ELSE f[k - 1]
  <2> SUFFICES ASSUME NEW k \in 0..N, k # 0
               PROVE  f[k] = IF s[k] \in set THEN Append(f[k - 1], s[k]) ELSE f[k - 1]
    BY <1>4 DEF Iterated
  <2>1. k \in 1..N /\ f[k - 1] \in T
    BY <1>4 DEF Iterated
  <2> QED
    BY <2>1, <1>3, <1>4 DEF step, Iterated
<1>6. f = [k \in 0..N |-> f[k]] /\ f \in [0..N -> T]
  BY <1>4 DEF Iterated
<1>7. Steps(f, s, set)
  BY <1>5, <1>6, Zenon DEF Steps
<1> QED
  BY <1>6, <1>7 DEF T

LEMMA StepsAgree ==
    ASSUME NEW R, NEW s \in Seq(R), NEW t \in Seq(R), NEW set, NEW f, NEW g,
           Len(s) <= Len(t), \A k \in 1..Len(s) : s[k] = t[k],
           Steps(f, s, set), Steps(g, t, set)
    PROVE  \A k \in 0..Len(s) : f[k] = g[k]
<1> DEFINE Bad == {k \in 0..Len(s) : f[k] # g[k]}
<1>1. Bad \subseteq Nat
  OBVIOUS
<1>2. SUFFICES ASSUME Bad # {} PROVE FALSE
  OBVIOUS
<1>3. PICK n \in Bad : \A m \in Bad : n <= m
  BY <1>1, <1>2, LeastOf
<1>4. n \in 0..Len(s) /\ n \in 0..Len(t) /\ f[n] # g[n]
  BY <1>3
<1>5. f[n] = IF n = 0 THEN <<>> ELSE IF s[n] \in set THEN Append(f[n - 1], s[n]) ELSE f[n - 1]
  BY <1>4, Zenon DEF Steps
<1>6. g[n] = IF n = 0 THEN <<>> ELSE IF t[n] \in set THEN Append(g[n - 1], t[n]) ELSE g[n - 1]
  BY <1>4, Zenon DEF Steps
<1>7. n # 0
  BY <1>4, <1>5, <1>6
<1>8. n - 1 \in 0..Len(s) /\ n \in 1..Len(s) /\ ~ (n <= n - 1)
  BY <1>4, <1>7
<1>9. f[n - 1] = g[n - 1]
  BY <1>3, <1>8
<1>10. s[n] = t[n]
  BY <1>8
<1> QED
  BY <1>4, <1>5, <1>6, <1>7, <1>9, <1>10

(* What Only() returns is the last step.                                   *)
LEMMA OnlyIsLastStep ==
    ASSUME NEW R, NEW s \in Seq(R), NEW set
    PROVE  \E f \in [0..Len(s) -> Seq(R \cap set)] :
              Steps(f, s, set) /\ Only(s, set) = f[Len(s)]
<1>1. PICK f \in [0..Len(s) -> Seq(R \cap set)] : Steps(f, s, set)
  BY StepsExist
<1> DEFINE g == CHOOSE only : Steps(only, s, set)
<1>2. Steps(g, s, set)
  BY <1>1, Zenon
<1>3. Only(s, set) = g[Len(s)]
  BY Zenon DEF Only, Steps
<1> HIDE DEF g
<1>4. \A k \in 0..Len(s) : g[k] = f[k]
  BY <1>1, <1>2, StepsAgree
<1>5. Only(s, set) = f[Len(s)]
  BY <1>3, <1>4
<1> QED
  BY <1>1, <1>5

LEMMA OnlyType ==
    ASSUME NEW R, NEW s \in Seq(R), NEW set
    PROVE  Only(s, set) \in Seq(R \cap set)
<1>1. Len(s) \in 0..Len(s)
  OBVIOUS
<1> QED
  BY <1>1, OnlyIsLastStep

LEMMA OnlyEmpty ==
    ASSUME NEW set
    PROVE  Only(<<>>, set) = <<>>
<1>1. <<>> \in Seq({}) /\ Len(<<>>) = 0 /\ 0 \in 0..0
  OBVIOUS
<1>2. PICK f : Steps(f, <<>>, set) /\ Only(<<>>, set) = f[0]
  BY <1>1, OnlyIsLastStep
<1> QED
  BY <1>1, <1>2 DEF Steps

LEMMA OnlyAppend ==
    ASSUME NEW R, NEW s \in Seq(R), NEW e \in R, NEW set
    PROVE  Only(Append(s, e), set) = IF e \in set THEN Append(Only(s, set), e) ELSE Only(s, set)
<1> DEFINE t == Append(s, e)
           n == Len(s)
<1>1. t \in Seq(R) /\ Len(t) = n + 1 /\ t[n + 1] = e /\ \A k \in 1..n : s[k] = t[k]
  OBVIOUS
<1>2. n \in Nat /\ n \in 0..n /\ n + 1 \in 0..(n + 1) /\ n + 1 # 0 /\ (n + 1) - 1 = n /\ n <= n + 1
  OBVIOUS
<1>3. PICK f : Steps(f, s, set) /\ Only(s, set) = f[n]
  BY OnlyIsLastStep
<1> HIDE DEF t
<1>4. PICK g : Steps(g, t, set) /\ Only(t, set) = g[Len(t)]
  BY <1>1, OnlyIsLastStep
<1>5. f[n] = g[n]
  <2>1. \A k \in 0..n : f[k] = g[k]
    BY <1>1, <1>2, <1>3, <1>4, StepsAgree
  <2> QED
    BY <2>1, <1>2
<1>6. n + 1 \in 0..Len(t)
  BY <1>1, <1>2
<1>7. g[n + 1] = IF n + 1 = 0 THEN <<>>
                 ELSE IF t[n + 1] \in set THEN Append(g[(n + 1) - 1], t[n + 1]) ELSE g[(n + 1) - 1]
  BY <1>4, <1>6, Zenon DEF Steps
<1>8. Only(t, set) = IF e \in set THEN Append(Only(s, set), e) ELSE Only(s, set)
  BY <1>1, <1>2, <1>3, <1>4, <1>5, <1>7
<1> QED
  BY <1>8 DEF t

(* What one set leaves, a smaller one finds.                               *)
LEMMA OnlyTwice ==
    ASSUME NEW R, NEW s \in Seq(R), NEW small, NEW large, small \subseteq large
    PROVE  Only(Only(s, large), small) = Only(s, small)
<1>1. PICK f \in [0..Len(s) -> Seq(R \cap large)] :
          Steps(f, s, large) /\ Only(s, large) = f[Len(s)]
  BY OnlyIsLastStep
<1>2. PICK g \in [0..Len(s) -> Seq(R \cap small)] :
          Steps(g, s, small) /\ Only(s, small) = g[Len(s)]
  BY OnlyIsLastStep
<1> DEFINE Bad == {k \in 0..Len(s) : Only(f[k], small) # g[k]}
<1>3. Bad \subseteq Nat
  OBVIOUS
<1>4. Bad = {}
  <2>1. SUFFICES ASSUME Bad # {} PROVE FALSE
    OBVIOUS
  <2>2. PICK n \in Bad : \A m \in Bad : n <= m
    BY <2>1, <1>3, LeastOf
  <2>3. n \in 0..Len(s) /\ Only(f[n], small) # g[n]
    BY <2>2
  <2>4. f[n] = IF n = 0 THEN <<>>
               ELSE IF s[n] \in large THEN Append(f[n - 1], s[n]) ELSE f[n - 1]
    BY <1>1, <2>3, Zenon DEF Steps
  <2>5. g[n] = IF n = 0 THEN <<>>
               ELSE IF s[n] \in small THEN Append(g[n - 1], s[n]) ELSE g[n - 1]
    BY <1>2, <2>3, Zenon DEF Steps
  <2>6. n # 0
    BY <2>3, <2>4, <2>5, OnlyEmpty
  <2>7. n - 1 \in 0..Len(s) /\ n \in 1..Len(s) /\ ~ (n <= n - 1)
    BY <2>3, <2>6
  <2>8. Only(f[n - 1], small) = g[n - 1]
    BY <2>2, <2>7
  <2>9. f[n - 1] \in Seq(R) /\ s[n] \in R
    <3>1. f[n - 1] \in Seq(R \cap large)
      BY <2>7
    <3> QED
      BY <3>1, <2>7
  <2>10. Only(Append(f[n - 1], s[n]), small) =
             IF s[n] \in small THEN Append(g[n - 1], s[n]) ELSE g[n - 1]
    <3> DEFINE p == f[n - 1]
               e == s[n]
    <3>1. p \in Seq(R) /\ e \in R
      BY <2>9
    <3> HIDE DEF p, e
    <3>2. Only(Append(p, e), small) =
              IF e \in small THEN Append(Only(p, small), e) ELSE Only(p, small)
      BY <3>1, OnlyAppend
    <3> QED
      BY <3>2, <2>8 DEF p, e
  <2>11. CASE s[n] \in large
    BY <2>11, <2>3, <2>4, <2>5, <2>6, <2>10
  <2>12. CASE s[n] \notin large
    <3>1. s[n] \notin small
      BY <2>12
    <3> QED
      BY <3>1, <2>12, <2>3, <2>4, <2>5, <2>6, <2>8
  <2> QED
    BY <2>11, <2>12
<1>5. Len(s) \in 0..Len(s)
  OBVIOUS
<1>6. Only(f[Len(s)], small) = g[Len(s)]
  BY <1>4, <1>5
<1> QED
  BY <1>1, <1>2, <1>6

-----------------------------------------------------------------------------
(* Executed data: the statuses it has, and what is kept of it.             *)

Statuses(data) == {data[k].status : k \in 1..Len(data)}

LEMMA StatusesAppend ==
    ASSUME NEW R, NEW s \in Seq(R), NEW e
    PROVE  Statuses(Append(s, e)) = Statuses(s) \cup {e.status}
<1>1. \A k \in 1..Len(s) : Append(s, e)[k] = s[k] /\ k \in 1..(Len(s) + 1)
  OBVIOUS
<1>2. Append(s, e)[Len(s) + 1] = e /\ Len(Append(s, e)) = Len(s) + 1 /\ Len(s) + 1 \in 1..(Len(s) + 1)
  OBVIOUS
<1>3. \A k \in 1..(Len(s) + 1) : k \in 1..Len(s) \/ k = Len(s) + 1
  OBVIOUS
<1> QED
  BY <1>1, <1>2, <1>3 DEF Statuses

LEMMA StatusesOnly ==
    ASSUME NEW R, NEW s \in Seq(R), NEW set
    PROVE  Statuses(Only(s, set)) \subseteq Statuses(s)
<1> DEFINE Q == {s[k] : k \in 1..Len(s)}
           t == Only(s, set)
<1>1. s \in Seq(Q)
  OBVIOUS
<1>2. t \in Seq(Q \cap set)
  BY <1>1, OnlyType
<1> HIDE DEF t
<1>3. \A k \in 1..Len(t) : t[k] \in Q
  BY <1>2
<1> QED
  BY <1>3 DEF Statuses, t

LEMMA PrefixOf ==
    ASSUME NEW R, NEW s \in Seq(R), NEW t \in Seq(R)
    PROVE  IsPrefix(s, t) <=> Len(s) <= Len(t) /\ \A k \in 1..Len(s) : s[k] = t[k]
<1>1. Len(s) <= Len(t) => /\ SubSeq(s, 1, Len(s)) = s
                          /\ SubSeq(t, 1, Len(s)) = [k \in 1..Len(s) |-> t[k]]
  OBVIOUS
<1>2. s = [k \in 1..Len(s) |-> s[k]]
  OBVIOUS
<1> QED
  BY <1>1, <1>2 DEF IsPrefix

LEMMA PrefixSelf ==
    ASSUME NEW R, NEW s \in Seq(R)
    PROVE  IsPrefix(s, s)
BY PrefixOf

LEMMA PrefixAppend ==
    ASSUME NEW R, NEW s \in Seq(R), NEW t \in Seq(R), NEW e \in R, IsPrefix(s, t)
    PROVE  IsPrefix(s, Append(t, e))
<1>1. Len(s) <= Len(t) /\ \A k \in 1..Len(s) : s[k] = t[k]
  BY PrefixOf
<1>2. Append(t, e) \in Seq(R) /\ Len(s) <= Len(Append(t, e))
  BY <1>1
<1>3. \A k \in 1..Len(s) : s[k] = Append(t, e)[k]
  BY <1>1
<1> QED
  BY <1>2, <1>3, PrefixOf

(* What was done before is still there, whatever entry is added, also when *)
(* the earlier entries of a node that may ask are dropped.                 *)
Finished == {e \in Entries : e.status = "FINISHED" /\ e.node \notin Asking}

LEMMA DoneGrows ==
    ASSUME NEW data \in Seq(Entries), NEW e \in Entries
    PROVE  /\ Done(data) \in Seq(Entries)
           /\ IsPrefix(Done(data), Done(Append(data, e)))
<1>1. Done(data) = Only(data, Finished) /\ Done(Append(data, e)) = Only(Append(data, e), Finished)
  BY DEF Done, Finished
<1>2. Done(data) \in Seq(Entries)
  <2>1. Only(data, Finished) \in Seq(Entries \cap Finished)
    BY OnlyType
  <2> QED
    BY <1>1, <2>1
<1>3. Done(Append(data, e)) = IF e \in Finished THEN Append(Done(data), e) ELSE Done(data)
  BY <1>1, OnlyAppend
<1> QED
  BY <1>2, <1>3, PrefixSelf, PrefixAppend

LEMMA DoneOthers ==
    ASSUME NEW data \in Seq(Entries), NEW n \in Asking
    PROVE  Done(Only(data, {e \in Entries : e.node # n})) = Done(data)
<1> DEFINE others == {e \in Entries : e.node # n}
<1>1. Finished \subseteq others
  BY DEF Finished
<1>2. Only(Only(data, others), Finished) = Only(data, Finished)
  BY <1>1, OnlyTwice
<1> QED
  BY <1>2, Zenon DEF Done, Finished

-----------------------------------------------------------------------------
(* The flow and the outputs of a node.                                     *)

LEMMA FlowFacts ==
    ASSUME session \in Sessions
    PROVE  /\ IsFlow(flow)
           /\ session.overlap \in BOOLEAN /\ session.maxIterations \in Nat
           /\ IsFiniteSet(Nodes(flow)) /\ NoNode \notin Nodes(flow)
           /\ Asking \subseteq Nodes(flow)
BY EngineAssumption DEF flow, IsFlow, Asking

(* A flow with one start node begins with it.                              *)
LEMMA Starting ==
    ASSUME session \in Sessions, ~ Cardinality(Starts(flow)) > 1
    PROVE  \E x \in Nodes(flow) : Starts(flow) = {x} /\ SetToSeq(Starts(flow)) = <<x>>
<1> DEFINE S == Starts(flow)
<1>1. S \subseteq Nodes(flow) /\ S # {} /\ IsFiniteSet(S)
  BY FlowFacts, FS_Subset DEF IsFlow, Starts
<1>2. Cardinality(S) \in Nat /\ Cardinality(S) # 0
  BY <1>1, FS_CardinalityType, FS_EmptySet
<1>3. Cardinality(S) = 1
  BY <1>2
<1>4. PICK x : S = {x}
  BY <1>1, <1>3, FS_Singleton
<1>5. \E f \in [1..1 -> S] : IsInjective(f)
  <2>1. [i \in 1..1 |-> x] \in [1..1 -> S]
    BY <1>4
  <2>2. IsInjective([i \in 1..1 |-> x])
    BY DEF IsInjective
  <2> QED
    BY <2>1, <2>2
<1>6. SetToSeq(S) \in [1..1 -> S]
  BY <1>3, <1>5 DEF SetToSeq
<1> HIDE DEF S
<1> DEFINE q == SetToSeq(S)
<1> HIDE DEF q
<1>7. q \in [1..1 -> {x}]
  BY <1>4, <1>6 DEF q
<1>8. q = <<x>>
  BY <1>7
<1> QED
  BY <1>1, <1>4, <1>8 DEF q, S

LEMMA StartQueued ==
    ASSUME session \in Sessions, ~ Cardinality(Starts(flow)) > 1
    PROVE  SetToSeq(Starts(flow)) \in Seq(Nodes(flow)) /\ SetToSeq(Starts(flow)) # <<>>
<1>1. PICK x \in Nodes(flow) : SetToSeq(Starts(flow)) = <<x>>
  BY Starting
<1>2. <<x>> \in Seq(Nodes(flow)) /\ <<x>> # <<>>
  OBVIOUS
<1> QED
  BY <1>1, <1>2

(* A run that goes on keeps the executed data of l.                        *)
Onward(l) == {m \in LocalsOK : m.agentFlowExecutedData = l.agentFlowExecutedData}

LEMMA ReceiveType ==
    ASSUME session \in Sessions, NEW l \in LocalsOK, NEW n \in Nodes(flow), NEW child \in Nodes(flow)
    PROVE  Receive(l, n, child) \in Onward(l)
<1> DEFINE received == l.waitingNodes[child] \cup {n}
           ready == [l EXCEPT !.waitingNodes[child] = {}, !.nodeExecutionQueue = Append(@, child)]
           waits == [l EXCEPT !.waitingNodes[child] = received]
<1>1. received \in SUBSET Nodes(flow)
  BY DEF LocalsOK
<1> HIDE DEF received
<1>2. ready \in Onward(l)
  <2> DEFINE m == [l EXCEPT !.waitingNodes[child] = {}]
             queue == Append(l.nodeExecutionQueue, child)
  <2>1. m \in Onward(l) /\ m.nodeExecutionQueue = l.nodeExecutionQueue
    BY DEF LocalsOK, Onward
  <2>2. queue \in Seq(Nodes(flow))
    BY DEF LocalsOK
  <2>3. ready = [m EXCEPT !.nodeExecutionQueue = queue]
    BY <2>1
  <2> HIDE DEF m, queue
  <2>4. [m EXCEPT !.nodeExecutionQueue = queue] \in Onward(l)
    BY <2>1, <2>2 DEF LocalsOK, Onward
  <2> QED
    BY <2>3, <2>4
<1>3. waits \in Onward(l)
  BY <1>1 DEF LocalsOK, Onward
<1>4. Receive(l, n, child) \in {ready, waits}
  BY DEF Receive, received
<1> QED
  BY <1>2, <1>3, <1>4, Zenon

(* Passing a result on to the children, as the steps of a recursion.       *)
Passing(f, l, n, ignored) ==
    f = [k \in 0..Len(flow.edges) |->
            IF k = 0 THEN l
            ELSE IF flow.edges[k].source = n /\ flow.edges[k].target \notin ignored
                 THEN Receive(f[k - 1], n, flow.edges[k].target)
                 ELSE f[k - 1]]

LEMMA EdgeTypes ==
    ASSUME session \in Sessions
    PROVE  /\ Len(flow.edges) \in Nat
           /\ \A k \in 1..Len(flow.edges) :
                 /\ flow.edges[k] \in [source : Nodes(flow), handle : Nat, target : Nodes(flow)]
                 /\ flow.edges[k].source \in Nodes(flow)
                 /\ flow.edges[k].target \in Nodes(flow)
<1> DEFINE X == [source : Nodes(flow), handle : Nat, target : Nodes(flow)]
           es == flow.edges
<1>1. es \in Seq(X)
  BY FlowFacts DEF IsFlow
<1>2. \A x \in X : x.source \in Nodes(flow) /\ x.target \in Nodes(flow)
  OBVIOUS
<1> HIDE DEF X, es
<1>3. Len(es) \in Nat /\ \A k \in 1..Len(es) : es[k] \in X
  BY <1>1
<1> QED
  BY <1>2, <1>3 DEF es, X

LEMMA ReceiveAllSteps ==
    ASSUME session \in Sessions, NEW l \in LocalsOK, NEW n \in Nodes(flow), NEW ignored
    PROVE  \E after : /\ Passing(after, l, n, ignored)
                      /\ ReceiveAll(l, n, ignored) = after[Len(flow.edges)]
                      /\ \A k \in 0..Len(flow.edges) : after[k] \in Onward(l)
<1> DEFINE N == Len(flow.edges)
           T == Onward(l)
           goes(k) == flow.edges[k].source = n /\ flow.edges[k].target \notin ignored
           step(m, k) == IF goes(k) THEN Receive(m, n, flow.edges[k].target) ELSE m
           g == [a \in T \X (1..N) |-> step(a[1], a[2])]
<1>1. N \in Nat /\ \A k \in 1..N : flow.edges[k].target \in Nodes(flow)
  BY EdgeTypes
<1>2. l \in T
  BY DEF Onward
<1>3. ASSUME NEW m \in T, NEW k \in 1..N PROVE step(m, k) \in T
  <2>1. m \in LocalsOK /\ m.agentFlowExecutedData = l.agentFlowExecutedData
    BY DEF Onward
  <2>2. Receive(m, n, flow.edges[k].target) \in Onward(m)
    BY <1>1, <2>1, ReceiveType
  <2>3. Onward(m) = Onward(l)
    BY <2>1 DEF Onward
  <2> QED
    BY <2>2, <2>3
<1> HIDE DEF T, N, step
<1>4. g \in [T \X (1..N) -> T]
  BY <1>3
<1>5. \A m \in T, k \in 1..N : g[<<m, k>>] = step(m, k)
  OBVIOUS
<1> HIDE DEF g
<1>6. PICK f : Iterated(f, T, N, l, g)
  BY <1>1, <1>2, <1>4, Iterates
<1>7. \A k \in 0..N : f[k] = IF k = 0 THEN l ELSE step(f[k - 1], k)
  <2> SUFFICES ASSUME NEW k \in 0..N, k # 0 PROVE f[k] = step(f[k - 1], k)
    BY <1>6 DEF Iterated
  <2>1. k \in 1..N /\ k - 1 \in 0..N
    BY <1>1
  <2>2. f[k - 1] \in T /\ f[k] = g[<<f[k - 1], k>>]
    BY <2>1, <1>6 DEF Iterated
  <2> QED
    BY <2>1, <2>2, <1>5
<1>8. f = [k \in 0..N |-> f[k]] /\ f \in [0..N -> T]
  BY <1>6 DEF Iterated
<1>9. Passing(f, l, n, ignored)
  BY <1>7, <1>8, Zenon DEF Passing, N, step
<1> DEFINE after == CHOOSE a : Passing(a, l, n, ignored)
<1>10. Passing(after, l, n, ignored)
  BY <1>9, Zenon
<1>11. ReceiveAll(l, n, ignored) = after[N]
  BY Zenon DEF ReceiveAll, Passing, N
<1> HIDE DEF after
<1>12. \A k \in 0..N : after[k] = IF k = 0 THEN l ELSE step(after[k - 1], k)
  BY <1>10, Zenon DEF Passing, N, step
<1>13. ASSUME NEW i \in 0..N
       PROVE  after[i] \in T
  <2> DEFINE Good == {k \in 0..N : after[k] \in T}
  <2>1. 0 \in Good
    BY <1>1, <1>2, <1>12
  <2>2. ASSUME NEW k \in 1..i, k - 1 \in Good
        PROVE  k \in Good
    <3>1. after[k - 1] \in T /\ k \in 1..N /\ k \in 0..N /\ k # 0
      BY <2>2, <1>1
    <3>2. after[k] = step(after[k - 1], k)
      BY <3>1, <1>12
    <3> QED
      BY <3>1, <3>2, <1>3
  <2> HIDE DEF Good
  <2>3. i \in Good
    BY <1>1, <2>1, <2>2, StepByStep
  <2> QED
    BY <2>3 DEF Good
<1> QED
  BY <1>10, <1>11, <1>13 DEF T, N

LEMMA ReceiveAllType ==
    ASSUME session \in Sessions, NEW l \in LocalsOK, NEW n \in Nodes(flow), NEW ignored
    PROVE  ReceiveAll(l, n, ignored) \in Onward(l)
<1>1. Len(flow.edges) \in 0..Len(flow.edges)
  BY EdgeTypes
<1> QED
  BY <1>1, ReceiveAllSteps

LEMMA LoopBackType ==
    ASSUME session \in Sessions, NEW l \in LocalsOK, NEW n \in Nodes(flow)
    PROVE  LoopBack(l, n) \in Onward(l)
<1>1. CASE ~ (flow.kind[n] = "loop" /\ l.loopCounts[n] + 1 < flow.maxLoop[n])
  BY <1>1 DEF LoopBack, Onward
<1>2. CASE flow.kind[n] = "loop" /\ l.loopCounts[n] + 1 < flow.maxLoop[n]
  <2> DEFINE counts == [l.loopCounts EXCEPT ![n] = @ + 1]
             queue == Append(l.nodeExecutionQueue, flow.back[n])
  <2>1. counts \in [Nodes(flow) -> Nat]
    BY DEF LocalsOK
  <2>2. queue \in Seq(Nodes(flow))
    <3>1. flow.back[n] \in Nodes(flow)
      BY <1>2, FlowFacts DEF IsFlow
    <3> QED
      BY <3>1 DEF LocalsOK
  <2>3. LoopBack(l, n) = [l EXCEPT !.loopCounts = counts, !.nodeExecutionQueue = queue,
                                   !.currentHumanInput = NoInput]
    BY <1>2 DEF LoopBack, LocalsOK
  <2> HIDE DEF counts, queue
  <2>4. [l EXCEPT !.loopCounts = counts, !.nodeExecutionQueue = queue,
                  !.currentHumanInput = NoInput] \in Onward(l)
    BY <2>1, <2>2 DEF LocalsOK, Onward
  <2> QED
    BY <2>3, <2>4
<1> QED
  BY <1>1, <1>2

(* processNodeOutputs() leaves the executed data alone.                    *)
LEMMA OutputsType ==
    ASSUME session \in Sessions, NEW l \in LocalsOK, NEW n \in Nodes(flow), NEW took
    PROVE  ProcessNodeOutputs(l, n, took) \in Onward(l)
<1> DEFINE m == ReceiveAll(l, n, Ignored(flow, n, took))
<1>1. m \in Onward(l)
  BY ReceiveAllType
<1> HIDE DEF m
<1>2. m \in LocalsOK /\ m.agentFlowExecutedData = l.agentFlowExecutedData
  BY <1>1 DEF Onward
<1>3. LoopBack(m, n) \in Onward(m)
  BY <1>2, LoopBackType
<1>4. Onward(m) = Onward(l)
  BY <1>2 DEF Onward
<1> QED
  BY <1>3, <1>4 DEF ProcessNodeOutputs, m

LEMMA RememberedType ==
    ASSUME session \in Sessions, NEW l \in LocalsOK
    PROVE  /\ Remembered(l) \in Seq(Entries)
           /\ Statuses(Remembered(l)) \subseteq Statuses(l.agentFlowExecutedData)
           /\ Done(Remembered(l)) = Done(l.agentFlowExecutedData)
<1> DEFINE data == l.agentFlowExecutedData
           others == {e \in Entries : e.node # l.currentNode}
<1>1. data \in Seq(Entries)
  BY DEF LocalsOK
<1>2. CASE Answered(l, l.currentNode)
  <2>1. l.currentNode \in Asking
    <3>1. l.currentHumanInput \in HumanInputs
      BY <1>2 DEF Answered, LocalsOK
    <3> QED
      BY <3>1, <1>2 DEF Answered, HumanInputs
  <2>2. Remembered(l) = Only(data, others)
    BY <1>2 DEF Remembered
  <2> HIDE DEF data
  <2>3. Only(data, others) \in Seq(Entries \cap others)
    BY <1>1, OnlyType
  <2> HIDE DEF others
  <2>4. Only(data, others) \in Seq(Entries)
    BY <2>3
  <2>5. Statuses(Only(data, others)) \subseteq Statuses(data)
    BY <1>1, StatusesOnly
  <2>6. Done(Only(data, others)) = Done(data)
    BY <1>1, <2>1, DoneOthers DEF others
  <2> QED
    BY <2>2, <2>4, <2>5, <2>6 DEF data
<1>3. CASE ~ Answered(l, l.currentNode)
  BY <1>1, <1>3 DEF Remembered
<1> QED
  BY <1>2, <1>3

-----------------------------------------------------------------------------
(* The inductive invariant.  What the executed data of a run shows is tied *)
(* to the await the run is at: nothing has failed until it is about to     *)
(* save a failure, and a run whose queue is empty has done something.      *)

Running == {"claiming", "looping", "executing", "closing"}

StageOf(place, l) ==
    /\ place \in Running => Statuses(l.agentFlowExecutedData) \subseteq {"STOPPED", "FINISHED"}
    /\ place \in {"claiming", "looping"} =>
          l.nodeExecutionQueue # <<>> \/ l.agentFlowExecutedData # <<>>
    /\ place = "executing" => l.currentNode # NoNode
    /\ place = "closing" => "STOPPED" \in Statuses(l.agentFlowExecutedData)
    /\ place = "failing" =>
          /\ l.agentFlowExecutedData # <<>>
          /\ Last(l.agentFlowExecutedData).status \in {"ERROR", "TERMINATED"}
          /\ Statuses(l.agentFlowExecutedData) \subseteq
                {"STOPPED", "FINISHED", Last(l.agentFlowExecutedData).status}

Stage(r) == (pc[r] \in Live => row[r] # 0) /\ StageOf(pc[r], local[r])

TruthInv == EngineTypeOK /\ RowsTellTruth /\ \A r \in Runs : Stage(r)

(* What RowsTellTruth says of a row alone, and of those who work on it.    *)
Tells(x) ==
    /\ x.state = "FINISHED" => Statuses(x.data) = {"FINISHED"}
    /\ x.state = "STOPPED" =>
          "STOPPED" \in Statuses(x.data) /\ Statuses(x.data) \subseteq {"STOPPED", "FINISHED"}
    /\ x.state = "ERROR" => "ERROR" \in Statuses(x.data) /\ "TERMINATED" \notin Statuses(x.data)
    /\ x.state = "TERMINATED" => "TERMINATED" \in Statuses(x.data)

Worked(i) == \E r \in Runs : row[r] = i /\ pc[r] \in Live \cup {"exhausted", "dead"}

RowsOK == [state : Settled \cup {"INPROGRESS"}, data : Seq(Entries)]

LEMMA TruthByRow ==
    RowsTellTruth <=> \A i \in 1..Len(rows) :
                          Tells(rows[i]) /\ (rows[i].state = "INPROGRESS" => Worked(i))
BY DEF RowsTellTruth, Tells, Worked, Shown, Statuses

LEMMA TruthAfter ==
    ASSUME \A i \in 1..Len(rows') :
               Tells(rows'[i]) /\ (rows'[i].state = "INPROGRESS" => Worked(i)')
    PROVE  RowsTellTruth'
BY DEF RowsTellTruth, Tells, Worked, Shown, Statuses

LEMMA FlowStays ==
    ASSUME session' = session
    PROVE  /\ flow' = flow /\ Entries' = Entries /\ Asking' = Asking /\ LocalsOK' = LocalsOK
           /\ RowsOK' = RowsOK
<1>1. flow' = flow
  BY DEF flow
<1>2. Entries' = Entries /\ Asking' = Asking
  BY <1>1 DEF Entries, Asking
<1>3. HumanInputs' = HumanInputs
  BY <1>2 DEF HumanInputs
<1> QED
  BY <1>1, <1>2, <1>3 DEF LocalsOK, RowsOK

LEMMA InitialTruth ==
    ASSUME EngineInit
    PROVE  TruthInv
<1>1. session \in Sessions
  BY DEF EngineInit
<1>2. Locals(<<>>, <<>>, NoInput) \in LocalsOK
  BY DEF Locals, LocalsOK
<1>3. EngineTypeOK
  BY <1>1, <1>2 DEF EngineInit, EngineTypeOK
<1>4. RowsTellTruth
  BY DEF EngineInit, RowsTellTruth
<1>5. \A r \in Runs : Stage(r)
  BY DEF EngineInit, Stage, StageOf, Live, Running
<1> QED
  BY <1>3, <1>4, <1>5 DEF TruthInv

(* A run goes on, and its row is as before.                                *)
LEMMA MovesOn ==
    ASSUME TruthInv, NEW r \in Runs, pc[r] \in Live, NEW place \in Live \cup {"exhausted"},
           NEW l \in LocalsOK, StageOf(place, l),
           session' = session, rows' = rows, row' = row, aborted' = aborted,
           pc' = [pc EXCEPT ![r] = place], local' = [local EXCEPT ![r] = l]
    PROVE  TruthInv'
<1>1. EngineTypeOK'
  BY FlowStays DEF TruthInv, EngineTypeOK, Endings, RowsOK
<1>2. \A s \in Runs : pc'[s] = (IF s = r THEN place ELSE pc[s])
                   /\ local'[s] = (IF s = r THEN l ELSE local[s])
  BY DEF TruthInv, EngineTypeOK
<1>3. RowsTellTruth'
  <2> SUFFICES ASSUME NEW i \in 1..Len(rows)
               PROVE  Tells(rows[i]) /\ (rows[i].state = "INPROGRESS" => Worked(i)')
    BY TruthAfter
  <2> QED
    BY <1>2, TruthByRow DEF TruthInv, Worked
<1>4. \A s \in Runs : Stage(s)'
  BY <1>2, FlowStays DEF TruthInv, Stage, StageOf
<1> QED
  BY <1>1, <1>3, <1>4 DEF TruthInv

(* The end of a run: its row gets its state and what the run has done.     *)
LEMMA SavesRow ==
    ASSUME TruthInv, NEW r \in Runs, pc[r] \in Live, NEW place \in Endings,
           NEW state \in Settled, Tells([state |-> state, data |-> local[r].agentFlowExecutedData]),
           session' = session, row' = row, aborted' = aborted, local' = local,
           pc' = [pc EXCEPT ![r] = place],
           rows' = [rows EXCEPT ![row[r]] =
                        [state |-> state, data |-> local[r].agentFlowExecutedData]]
    PROVE  TruthInv'
<1> DEFINE x == [state |-> state, data |-> local[r].agentFlowExecutedData]
<1>1. row[r] \in 1..Len(rows)
  BY DEF TruthInv, EngineTypeOK, Stage
<1>2. x \in RowsOK /\ x.state # "INPROGRESS"
  BY DEF TruthInv, EngineTypeOK, LocalsOK, RowsOK, Settled
<1>3. rows' \in Seq(RowsOK) /\ Len(rows') = Len(rows)
  BY <1>1, <1>2 DEF TruthInv, EngineTypeOK, RowsOK
<1>4. \A i \in 1..Len(rows) : rows'[i] = IF i = row[r] THEN x ELSE rows[i]
  BY <1>1 DEF TruthInv, EngineTypeOK
<1>5. Tells(x)
  OBVIOUS
<1> HIDE DEF x
<1>6. EngineTypeOK'
  BY <1>3, FlowStays DEF TruthInv, EngineTypeOK, RowsOK, Endings
<1>7. \A s \in Runs : pc'[s] = IF s = r THEN place ELSE pc[s]
  BY DEF TruthInv, EngineTypeOK
<1>8. RowsTellTruth'
  <2> SUFFICES ASSUME NEW i \in 1..Len(rows)
               PROVE  Tells(rows'[i]) /\ (rows'[i].state = "INPROGRESS" => Worked(i)')
    BY <1>3, TruthAfter
  <2>1. CASE i = row[r]
    BY <2>1, <1>2, <1>4, <1>5
  <2>2. CASE i # row[r]
    <3>1. rows'[i] = rows[i] /\ Tells(rows[i]) /\ (rows[i].state = "INPROGRESS" => Worked(i))
      BY <2>2, <1>4, TruthByRow DEF TruthInv
    <3>2. Worked(i) => Worked(i)'
      BY <2>2, <1>7 DEF Worked
    <3> QED
      BY <3>1, <3>2
  <2> QED
    BY <2>1, <2>2
<1>9. \A s \in Runs : Stage(s)'
  <2> SUFFICES ASSUME NEW s \in Runs PROVE Stage(s)'
    OBVIOUS
  <2>1. CASE s = r
    BY <2>1, <1>7 DEF Stage, StageOf, Live, Running, Endings
  <2>2. CASE s # r
    <3>1. pc'[s] = pc[s] /\ local'[s] = local[s] /\ row'[s] = row[s] /\ Stage(s)
      BY <2>2, <1>7 DEF TruthInv
    <3> QED
      BY <3>1 DEF Stage, StageOf
  <2> QED
    BY <2>1, <2>2
<1> QED
  BY <1>6, <1>8, <1>9 DEF TruthInv

LEMMA BeginNewTruth ==
    ASSUME TruthInv, NEW r \in Runs, BeginNew(r)
    PROVE  TruthInv'
<1> USE DEF Goto
<1>1. pc[r] = "idle" /\ session' = session /\ aborted' = aborted
  BY DEF BeginNew, MayBegin
<1>2. \A i : Worked(i) => \E s \in Runs : s # r /\ row[s] = i /\ pc[s] \in Live \cup {"exhausted", "dead"}
  BY <1>1 DEF Worked, Live
<1>3. CASE Cardinality(Starts(flow)) > 1
  <2>1. pc' = [pc EXCEPT ![r] = "refused"] /\ rows' = rows /\ row' = row /\ local' = local
    BY <1>3 DEF BeginNew
  <2>2. EngineTypeOK'
    BY <1>1, <2>1, FlowStays DEF TruthInv, EngineTypeOK, Endings
  <2>3. \A s \in Runs : pc'[s] = IF s = r THEN "refused" ELSE pc[s]
    BY <2>1 DEF TruthInv, EngineTypeOK
  <2>4. RowsTellTruth'
    <3> SUFFICES ASSUME NEW i \in 1..Len(rows)
                 PROVE  Tells(rows[i]) /\ (rows[i].state = "INPROGRESS" => Worked(i)')
      BY <2>1, TruthAfter
    <3> QED
      BY <1>2, <2>1, <2>3, TruthByRow DEF TruthInv, Worked
  <2>5. \A s \in Runs : Stage(s)'
    BY <2>1, <2>3 DEF TruthInv, Stage, StageOf, Live, Running
  <2> QED
    BY <2>2, <2>4, <2>5 DEF TruthInv
<1>4. CASE ~ Cardinality(Starts(flow)) > 1
  <2> DEFINE x == [state |-> "INPROGRESS", data |-> <<>>]
             q == SetToSeq(Starts(flow))
             l == Locals(q, <<>>, NoInput)
  <2>1. /\ rows' = Append(rows, x) /\ row' = [row EXCEPT ![r] = Len(rows) + 1]
        /\ local' = [local EXCEPT ![r] = l] /\ pc' = [pc EXCEPT ![r] = "looping"]
    BY <1>4 DEF BeginNew
  <2>2. q \in Seq(Nodes(flow)) /\ q # <<>>
    BY <1>4, StartQueued DEF TruthInv, EngineTypeOK
  <2>3. x \in RowsOK /\ x.state = "INPROGRESS" /\ Tells(x)
    BY DEF RowsOK, Tells
  <2> HIDE DEF x, q
  <2>4. l \in LocalsOK /\ l.nodeExecutionQueue = q /\ l.agentFlowExecutedData = <<>>
    BY <2>2 DEF Locals, LocalsOK
  <2> HIDE DEF l
  <2>5. rows' \in Seq(RowsOK) /\ Len(rows') = Len(rows) + 1 /\ Len(rows) \in Nat
    BY <2>1, <2>3 DEF TruthInv, EngineTypeOK, RowsOK
  <2>6. \A i \in 1..Len(rows') : /\ i = Len(rows) + 1 => rows'[i] = x
                                 /\ i # Len(rows) + 1 => i \in 1..Len(rows) /\ rows'[i] = rows[i]
    BY <2>1, <2>5 DEF TruthInv, EngineTypeOK
  <2>7. EngineTypeOK'
    <3>1. row' \in [Runs -> 0..Len(rows')]
      BY <2>1, <2>5 DEF TruthInv, EngineTypeOK
    <3>2. pc' \in [Runs -> {"idle"} \cup Live \cup Endings] /\ local' \in [Runs -> LocalsOK]
      BY <2>1, <2>4 DEF TruthInv, EngineTypeOK, Live
    <3> QED
      BY <3>1, <3>2, <1>1, <2>5, FlowStays DEF TruthInv, EngineTypeOK, RowsOK
  <2>8. \A s \in Runs : /\ pc'[s] = IF s = r THEN "looping" ELSE pc[s]
                        /\ row'[s] = IF s = r THEN Len(rows) + 1 ELSE row[s]
                        /\ local'[s] = IF s = r THEN l ELSE local[s]
    BY <2>1 DEF TruthInv, EngineTypeOK
  <2>9. RowsTellTruth'
    <3> SUFFICES ASSUME NEW i \in 1..Len(rows')
                 PROVE  Tells(rows'[i]) /\ (rows'[i].state = "INPROGRESS" => Worked(i)')
      BY TruthAfter
    <3>1. CASE i = Len(rows) + 1
      <4>1. Worked(i)'
        BY <3>1, <2>8 DEF Worked, Live
      <4> QED
        BY <4>1, <3>1, <2>3, <2>6
    <3>2. CASE i # Len(rows) + 1
      <4>1. rows'[i] = rows[i] /\ Tells(rows[i]) /\ (rows[i].state = "INPROGRESS" => Worked(i))
        BY <3>2, <2>6, TruthByRow DEF TruthInv
      <4>2. Worked(i) => Worked(i)'
        BY <1>2, <2>8 DEF Worked
      <4> QED
        BY <4>1, <4>2
    <3> QED
      BY <3>1, <3>2
  <2>10. StageOf("looping", l)
    BY <2>2, <2>4 DEF StageOf, Statuses, Running
  <2>11. \A s \in Runs : Stage(s)'
    <3> SUFFICES ASSUME NEW s \in Runs PROVE Stage(s)'
      OBVIOUS
    <3>1. CASE s = r
      <4>1. pc'[s] = "looping" /\ local'[s] = l /\ row'[s] # 0
        BY <3>1, <2>5, <2>8
      <4> QED
        BY <4>1, <2>10 DEF Stage, StageOf
    <3>2. CASE s # r
      <4>1. pc'[s] = pc[s] /\ local'[s] = local[s] /\ row'[s] = row[s] /\ Stage(s)
        BY <3>2, <2>8 DEF TruthInv
      <4> QED
        BY <4>1 DEF Stage, StageOf
    <3> QED
      BY <3>1, <3>2
  <2> QED
    BY <2>7, <2>9, <2>11 DEF TruthInv
<1> QED
  BY <1>3, <1>4

LEMMA BeginResumeTruth ==
    ASSUME TruthInv, NEW r \in Runs, BeginResume(r)
    PROVE  TruthInv'
<1> USE DEF Goto
<1>1. pc[r] = "idle" /\ session' = session /\ aborted' = aborted /\ rows' = rows
  BY DEF BeginResume, MayBegin
<1>2. \A i : Worked(i) => \E s \in Runs : s # r /\ row[s] = i /\ pc[s] \in Live \cup {"exhausted", "dead"}
  BY <1>1 DEF Worked, Live
<1>3. PICK input \in HumanInputs :
          IF Resumable(input)
          THEN /\ local' = [local EXCEPT ![r] = Locals(<<input.node>>, Last(rows).data, input)]
               /\ row' = [row EXCEPT ![r] = Len(rows)]
               /\ pc' = [pc EXCEPT ![r] = "claiming"]
          ELSE /\ pc' = [pc EXCEPT ![r] = "refused"]
               /\ UNCHANGED <<row, local>>
  BY DEF BeginResume
<1>4. \E place \in {"claiming", "refused"}, i \in 0..Len(rows), l \in LocalsOK :
          /\ pc' = [pc EXCEPT ![r] = place] /\ row' = [row EXCEPT ![r] = i]
          /\ local' = [local EXCEPT ![r] = l]
          /\ place = "claiming" => i # 0 /\ StageOf(place, l)
  <2>1. CASE ~ Resumable(input)
    <3>1. row' = [row EXCEPT ![r] = row[r]] /\ local' = [local EXCEPT ![r] = local[r]]
      BY <2>1, <1>3 DEF TruthInv, EngineTypeOK
    <3>2. row[r] \in 0..Len(rows) /\ local[r] \in LocalsOK
      BY DEF TruthInv, EngineTypeOK
    <3>3. pc' = [pc EXCEPT ![r] = "refused"]
      BY <2>1, <1>3
    <3> DEFINE place == "refused"
    <3>4. place \in {"claiming", "refused"} /\ place # "claiming"
      OBVIOUS
    <3> QED
      BY <3>1, <3>2, <3>3, <3>4
  <2>2. CASE Resumable(input)
    <3> DEFINE data == Last(rows).data
               l == Locals(<<input.node>>, data, input)
    <3>1. rows \in Seq(RowsOK) /\ rows # <<>> /\ Last(rows) = rows[Len(rows)]
          /\ Len(rows) \in 1..Len(rows) /\ Last(rows).state = "STOPPED"
      BY <2>2 DEF Resumable, Last, TruthInv, EngineTypeOK, RowsOK
    <3>2. data \in Seq(Entries) /\ Statuses(data) \subseteq {"STOPPED", "FINISHED"}
      <4>1. rows[Len(rows)] \in RowsOK /\ Tells(rows[Len(rows)])
        BY <3>1, TruthByRow DEF TruthInv
      <4> QED
        BY <4>1, <3>1 DEF Tells, RowsOK
    <3>3. input.node \in Nodes(flow)
      BY FlowFacts DEF HumanInputs, TruthInv, EngineTypeOK
    <3> HIDE DEF data
    <3>4. l \in LocalsOK /\ l.nodeExecutionQueue # <<>> /\ l.agentFlowExecutedData = data
      BY <3>2, <3>3 DEF Locals, LocalsOK
    <3>5. /\ local' = [local EXCEPT ![r] = l] /\ row' = [row EXCEPT ![r] = Len(rows)]
          /\ pc' = [pc EXCEPT ![r] = "claiming"]
      BY <2>2, <1>3 DEF data
    <3> HIDE DEF l
    <3>6. StageOf("claiming", l)
      BY <3>2, <3>4 DEF StageOf
    <3>7. Len(rows) \in 0..Len(rows) /\ Len(rows) # 0
      BY <3>1
    <3> QED
      BY <3>4, <3>5, <3>6, <3>7
  <2> QED
    BY <2>1, <2>2
<1>5. PICK place \in {"claiming", "refused"}, i \in 0..Len(rows), l \in LocalsOK :
          /\ pc' = [pc EXCEPT ![r] = place] /\ row' = [row EXCEPT ![r] = i]
          /\ local' = [local EXCEPT ![r] = l]
          /\ place = "claiming" => i # 0 /\ StageOf(place, l)
  BY <1>4
<1>6. EngineTypeOK'
  <2>1. pc' \in [Runs -> {"idle"} \cup Live \cup Endings]
    BY <1>5 DEF TruthInv, EngineTypeOK, Live, Endings
  <2>2. row' \in [Runs -> 0..Len(rows)] /\ local' \in [Runs -> LocalsOK]
    BY <1>5 DEF TruthInv, EngineTypeOK
  <2> QED
    BY <1>1, <2>1, <2>2, FlowStays DEF TruthInv, EngineTypeOK, RowsOK
<1>7. \A s \in Runs : /\ pc'[s] = IF s = r THEN place ELSE pc[s]
                      /\ row'[s] = IF s = r THEN i ELSE row[s]
                      /\ local'[s] = IF s = r THEN l ELSE local[s]
  BY <1>5 DEF TruthInv, EngineTypeOK
<1>8. RowsTellTruth'
  <2> SUFFICES ASSUME NEW j \in 1..Len(rows)
               PROVE  Tells(rows[j]) /\ (rows[j].state = "INPROGRESS" => Worked(j)')
    BY <1>1, TruthAfter
  <2>1. Tells(rows[j]) /\ (rows[j].state = "INPROGRESS" => Worked(j))
    BY TruthByRow DEF TruthInv
  <2>2. ASSUME Worked(j) PROVE Worked(j)'
    <3>1. PICK s \in Runs : s # r /\ row[s] = j /\ pc[s] \in Live \cup {"exhausted", "dead"}
      BY <1>2, <2>2
    <3>2. row'[s] = j /\ pc'[s] = pc[s]
      BY <1>7, <3>1
    <3> QED
      BY <3>1, <3>2 DEF Worked
  <2> QED
    BY <2>1, <2>2
<1>9. \A s \in Runs : Stage(s)'
  <2> SUFFICES ASSUME NEW s \in Runs PROVE Stage(s)'
    OBVIOUS
  <2>1. CASE s = r
    <3>1. pc'[s] = place /\ row'[s] = i /\ local'[s] = l
      BY <2>1, <1>7
    <3>2. CASE place = "claiming"
      BY <3>1, <3>2, <1>5 DEF Stage, StageOf
    <3>3. CASE place = "refused"
      BY <3>1, <3>3 DEF Stage, StageOf, Live, Running
    <3> QED
      BY <3>2, <3>3
  <2>2. CASE s # r
    <3>1. pc'[s] = pc[s] /\ local'[s] = local[s] /\ row'[s] = row[s] /\ Stage(s)
      BY <2>2, <1>7 DEF TruthInv
    <3> QED
      BY <3>1 DEF Stage, StageOf
  <2> QED
    BY <2>1, <2>2
<1> QED
  BY <1>6, <1>8, <1>9 DEF TruthInv

LEMMA ClaimTruth ==
    ASSUME TruthInv, NEW r \in Runs, Claim(r)
    PROVE  TruthInv'
<1>1. /\ pc[r] = "claiming" /\ pc' = [pc EXCEPT ![r] = "looping"]
      /\ session' = session /\ row' = row /\ aborted' = aborted /\ local' = local
      /\ rows' = [rows EXCEPT ![row[r]].state = "INPROGRESS"]
  BY DEF Claim, Goto
<1>2. row[r] \in 1..Len(rows) /\ rows \in Seq(RowsOK)
  BY <1>1 DEF TruthInv, EngineTypeOK, Stage, Live, RowsOK
<1> DEFINE x == [rows[row[r]] EXCEPT !.state = "INPROGRESS"]
<1>3. rows' = [rows EXCEPT ![row[r]] = x]
  BY <1>1, <1>2
<1>4. x \in RowsOK /\ x.state = "INPROGRESS" /\ Tells(x)
  <2>1. rows[row[r]] \in RowsOK
    BY <1>2
  <2>2. x \in RowsOK /\ x.state = "INPROGRESS"
    BY <2>1 DEF RowsOK
  <2> QED
    BY <2>2 DEF Tells
<1> HIDE DEF x
<1>5. rows' \in Seq(RowsOK) /\ Len(rows') = Len(rows)
  BY <1>2, <1>3, <1>4
<1>6. \A i \in 1..Len(rows) : rows'[i] = IF i = row[r] THEN x ELSE rows[i]
  BY <1>2, <1>3
<1>7. EngineTypeOK'
  BY <1>1, <1>5, FlowStays DEF TruthInv, EngineTypeOK, RowsOK, Live
<1>8. \A s \in Runs : pc'[s] = IF s = r THEN "looping" ELSE pc[s]
  BY <1>1 DEF TruthInv, EngineTypeOK
<1>9. RowsTellTruth'
  <2> SUFFICES ASSUME NEW i \in 1..Len(rows)
               PROVE  Tells(rows'[i]) /\ (rows'[i].state = "INPROGRESS" => Worked(i)')
    BY <1>5, TruthAfter
  <2>1. CASE i = row[r]
    <3>1. Worked(i)'
      BY <2>1, <1>1, <1>8 DEF Worked, Live
    <3> QED
      BY <2>1, <3>1, <1>4, <1>6
  <2>2. CASE i # row[r]
    <3>1. rows'[i] = rows[i] /\ Tells(rows[i]) /\ (rows[i].state = "INPROGRESS" => Worked(i))
      BY <2>2, <1>6, TruthByRow DEF TruthInv
    <3>2. Worked(i) => Worked(i)'
      BY <2>2, <1>1, <1>8 DEF Worked
    <3> QED
      BY <3>1, <3>2
  <2> QED
    BY <2>1, <2>2
<1>10. \A s \in Runs : Stage(s)'
  <2> SUFFICES ASSUME NEW s \in Runs PROVE Stage(s)'
    OBVIOUS
  <2>1. Stage(s) /\ local'[s] = local[s] /\ row'[s] = row[s]
    BY <1>1 DEF TruthInv
  <2>2. CASE s = r
    <3>1. pc'[s] = "looping" /\ pc[s] = "claiming"
      BY <2>2, <1>1, <1>8
    <3> QED
      BY <2>1, <3>1 DEF Stage, StageOf, Live, Running
  <2>3. CASE s # r
    <3>1. pc'[s] = pc[s]
      BY <2>3, <1>8
    <3> QED
      BY <2>1, <3>1 DEF Stage, StageOf
  <2> QED
    BY <2>2, <2>3
<1> QED
  BY <1>7, <1>9, <1>10 DEF TruthInv

(* A run that fails: its last entry says why.                              *)
LEMMA FailingStage ==
    ASSUME NEW l \in LocalsOK, NEW e \in Entries, e.status \in {"ERROR", "TERMINATED"},
           Statuses(l.agentFlowExecutedData) \subseteq {"STOPPED", "FINISHED"}
    PROVE  LET m == [l EXCEPT !.agentFlowExecutedData = Append(@, e)]
           IN  m \in LocalsOK /\ StageOf("failing", m)
<1> DEFINE data == Append(l.agentFlowExecutedData, e)
           m == [l EXCEPT !.agentFlowExecutedData = data]
<1>1. l.agentFlowExecutedData \in Seq(Entries)
  BY DEF LocalsOK
<1>2. data \in Seq(Entries) /\ data # <<>> /\ Last(data) = e
  BY <1>1 DEF Last
<1>3. Statuses(data) \subseteq {"STOPPED", "FINISHED", e.status}
  BY <1>1, StatusesAppend
<1>4. [l EXCEPT !.agentFlowExecutedData = Append(@, e)] = m
  BY DEF LocalsOK
<1> HIDE DEF data
<1>5. m \in LocalsOK /\ m.agentFlowExecutedData = data
  BY <1>2 DEF LocalsOK
<1> HIDE DEF m
<1>6. StageOf("failing", m)
  BY <1>2, <1>3, <1>5 DEF StageOf, Running
<1> QED
  BY <1>4, <1>5, <1>6

LEMMA TakeTruth ==
    ASSUME TruthInv, NEW r \in Runs, Take(r)
    PROVE  TruthInv'
<1> DEFINE q == local[r].nodeExecutionQueue
           n == Head(q)
           next == [local[r] EXCEPT !.iterations = @ + 1, !.currentNode = n,
                                    !.nodeExecutionQueue = Tail(@)]
           ended == [next EXCEPT !.agentFlowExecutedData =
                                     Append(@, Entry(n, "TERMINATED", {}))]
<1>1. /\ pc[r] = "looping" /\ q # <<>> /\ session' = session /\ rows' = rows /\ row' = row
      /\ aborted' = aborted
  BY DEF Take
<1>2. \/ pc' = [pc EXCEPT ![r] = "exhausted"] /\ local' = local
      \/ pc' = [pc EXCEPT ![r] = "failing"] /\ local' = [local EXCEPT ![r] = ended]
      \/ pc' = [pc EXCEPT ![r] = "executing"] /\ local' = [local EXCEPT ![r] = next]
  BY DEF Take, Goto
<1>3. pc[r] \in Live /\ local[r] \in LocalsOK /\ session \in Sessions
  BY <1>1 DEF Live, TruthInv, EngineTypeOK
<1>4. Statuses(local[r].agentFlowExecutedData) \subseteq {"STOPPED", "FINISHED"}
  BY <1>1 DEF TruthInv, Stage, StageOf, Running
<1>5. n \in Nodes(flow) /\ n # NoNode /\ Tail(q) \in Seq(Nodes(flow))
  <2>1. q \in Seq(Nodes(flow))
    BY <1>3 DEF LocalsOK
  <2> HIDE DEF q
  <2>2. n \in Nodes(flow) /\ Tail(q) \in Seq(Nodes(flow))
    BY <1>1, <2>1
  <2> QED
    BY <2>2, <1>3, FlowFacts
<1>6. /\ next \in LocalsOK /\ next.currentNode = n
      /\ next.agentFlowExecutedData = local[r].agentFlowExecutedData
  <2> DEFINE l == local[r]
             count == l.iterations + 1
             rest == Tail(q)
             after == [l EXCEPT !.iterations = count, !.currentNode = n,
                                !.nodeExecutionQueue = rest]
  <2>1. next = after
    BY <1>3 DEF LocalsOK
  <2>2. l \in LocalsOK /\ count \in Nat /\ rest \in Seq(Nodes(flow))
    BY <1>3, <1>5 DEF LocalsOK
  <2> HIDE DEF n, q, count, rest
  <2> HIDE DEF l
  <2>3. /\ after \in LocalsOK /\ after.currentNode = n
        /\ after.agentFlowExecutedData = l.agentFlowExecutedData
    BY <1>5, <2>2 DEF LocalsOK
  <2> HIDE DEF after
  <2>4. next = after
    BY <2>1 DEF l, n, q, count, rest
  <2> QED
    BY <2>3, <2>4 DEF l
<1> HIDE DEF next
<1>7. CASE pc' = [pc EXCEPT ![r] = "exhausted"] /\ local' = local
  <2>1. local' = [local EXCEPT ![r] = local[r]]
    BY <1>7 DEF TruthInv, EngineTypeOK
  <2>2. StageOf("exhausted", local[r])
    BY DEF StageOf, Running
  <2> QED
    BY <1>1, <1>3, <1>7, <2>1, <2>2, MovesOn
<1>8. CASE pc' = [pc EXCEPT ![r] = "failing"] /\ local' = [local EXCEPT ![r] = ended]
  <2>1. Entry(n, "TERMINATED", {}) \in Entries /\ Entry(n, "TERMINATED", {}).status = "TERMINATED"
    BY <1>5 DEF Entry, Entries, Settled
  <2> DEFINE e == Entry(n, "TERMINATED", {})
  <2> HIDE DEF e
  <2>2. e \in Entries /\ e.status \in {"ERROR", "TERMINATED"}
    BY <2>1 DEF e
  <2>3. Statuses(next.agentFlowExecutedData) \subseteq {"STOPPED", "FINISHED"}
    BY <1>4, <1>6
  <2>4. /\ [next EXCEPT !.agentFlowExecutedData = Append(@, e)] \in LocalsOK
        /\ StageOf("failing", [next EXCEPT !.agentFlowExecutedData = Append(@, e)])
    BY <1>6, <2>2, <2>3, FailingStage
  <2>5. ended \in LocalsOK /\ StageOf("failing", ended)
    BY <2>4 DEF e
  <2>6. "failing" \in Live \cup {"exhausted"}
    BY DEF Live
  <2> HIDE DEF ended
  <2> QED
    BY <1>1, <1>3, <1>8, <2>5, <2>6, MovesOn
<1>9. CASE pc' = [pc EXCEPT ![r] = "executing"] /\ local' = [local EXCEPT ![r] = next]
  <2>1. StageOf("executing", next)
    BY <1>4, <1>5, <1>6 DEF StageOf, Running
  <2>2. "executing" \in Live \cup {"exhausted"}
    BY DEF Live
  <2> QED
    BY <1>1, <1>3, <1>6, <1>9, <2>1, <2>2, MovesOn
<1> QED
  BY <1>2, <1>7, <1>8, <1>9

LEMMA NodeThrowsTruth ==
    ASSUME TruthInv, NEW r \in Runs, NodeThrows(r)
    PROVE  TruthInv'
<1> DEFINE l == local[r]
<1>1. /\ pc[r] = "executing" /\ session' = session /\ rows' = rows /\ row' = row
      /\ aborted' = aborted /\ pc' = [pc EXCEPT ![r] = "failing"]
  BY DEF NodeThrows, Goto
<1>2. pc[r] \in Live /\ l \in LocalsOK /\ l.currentNode \in Nodes(flow)
  <2>1. l \in LocalsOK /\ l.currentNode # NoNode
    BY <1>1 DEF TruthInv, EngineTypeOK, Stage, StageOf
  <2> QED
    BY <1>1, <2>1 DEF LocalsOK, Live
<1>3. PICK status \in {"ERROR", "TERMINATED"} :
          local' = [local EXCEPT ![r].agentFlowExecutedData =
                        Append(@, Entry(l.currentNode, status, {}))]
  BY DEF NodeThrows
<1> DEFINE e == Entry(l.currentNode, status, {})
           m == [l EXCEPT !.agentFlowExecutedData = Append(@, e)]
<1>4. local' = [local EXCEPT ![r] = m]
  BY <1>3 DEF TruthInv, EngineTypeOK
<1>5. e \in Entries /\ e.status \in {"ERROR", "TERMINATED"}
  BY <1>2 DEF Entry, Entries, Settled
<1>6. Statuses(l.agentFlowExecutedData) \subseteq {"STOPPED", "FINISHED"}
  BY <1>1 DEF TruthInv, Stage, StageOf, Running
<1> HIDE DEF e, l
<1>7. m \in LocalsOK /\ StageOf("failing", m)
  BY <1>2, <1>5, <1>6, FailingStage
<1>8. "failing" \in Live \cup {"exhausted"}
  BY DEF Live
<1> HIDE DEF m
<1> QED
  BY <1>1, <1>2, <1>4, <1>7, <1>8, MovesOn

LEMMA ResultsType ==
    ASSUME session \in Sessions, NEW l \in LocalsOK, NEW n \in Nodes(flow), NEW took \in Results(l, n)
    PROVE  took \in SUBSET Nat
<1>1. Handles(flow, n) \in SUBSET Nat
  <2>1. flow.outcomes[n] \in Nat
    BY FlowFacts DEF IsFlow
  <2> QED
    BY <2>1 DEF Handles
<1>2. Answered(l, n) => l.currentHumanInput.choice \in {0, 1}
  BY DEF Answered, LocalsOK, HumanInputs
<1> QED
  BY <1>1, <1>2 DEF Results, ConditionResults, ConditionAgentResults, HumanResults

LEMMA NodeReturnsTruth ==
    ASSUME TruthInv, NEW r \in Runs, NodeReturns(r)
    PROVE  TruthInv'
<1> DEFINE l == local[r]
           n == l.currentNode
<1>1. /\ pc[r] = "executing" /\ session' = session /\ rows' = rows /\ row' = row
      /\ aborted' = aborted
  BY DEF NodeReturns
<1>2. pc[r] \in Live /\ session \in Sessions /\ l \in LocalsOK /\ n \in Nodes(flow)
  <2>1. l \in LocalsOK /\ n # NoNode /\ session \in Sessions
    BY <1>1 DEF TruthInv, EngineTypeOK, Stage, StageOf
  <2> QED
    BY <1>1, <2>1 DEF LocalsOK, Live
<1>3. Statuses(l.agentFlowExecutedData) \subseteq {"STOPPED", "FINISHED"}
  BY <1>1 DEF TruthInv, Stage, StageOf, Running
<1> DEFINE data == Remembered(l)
           With(e) == [l EXCEPT !.agentFlowExecutedData = Append(data, e)]
<1>4. data \in Seq(Entries) /\ Statuses(data) \subseteq {"STOPPED", "FINISHED"}
  BY <1>2, <1>3, RememberedType
<1>5. \/ /\ local' = [local EXCEPT ![r].agentFlowExecutedData = Append(data, Entry(n, "STOPPED", {}))]
         /\ pc' = [pc EXCEPT ![r] = "closing"]
      \/ /\ \E took \in Results(l, n) :
               local' = [local EXCEPT ![r] =
                             ProcessNodeOutputs(With(Entry(n, "FINISHED", took)), n, took)]
         /\ pc' = [pc EXCEPT ![r] = "looping"]
  BY DEF NodeReturns, Goto
<1> HIDE DEF data
<1>6. ASSUME NEW e \in Entries, e.status \in {"STOPPED", "FINISHED"}
      PROVE  /\ With(e) \in LocalsOK /\ With(e).agentFlowExecutedData = Append(data, e)
             /\ Append(data, e) # <<>>
             /\ Statuses(Append(data, e)) \subseteq {"STOPPED", "FINISHED"}
             /\ e.status \in Statuses(Append(data, e))
  <2> DEFINE d == Append(data, e)
  <2>1. d \in Seq(Entries) /\ d # <<>>
    BY <1>4
  <2>2. Statuses(d) = Statuses(data) \cup {e.status}
    BY <1>4, StatusesAppend
  <2> HIDE DEF d
  <2>3. [l EXCEPT !.agentFlowExecutedData = d] \in LocalsOK
    BY <1>2, <2>1 DEF LocalsOK
  <2>4. [l EXCEPT !.agentFlowExecutedData = d].agentFlowExecutedData = d
    BY <1>2 DEF LocalsOK
  <2>5. With(e) = [l EXCEPT !.agentFlowExecutedData = d]
    BY DEF d
  <2> HIDE DEF With
  <2>6. e.status \in Statuses(d) /\ Statuses(d) \subseteq {"STOPPED", "FINISHED"}
    BY <1>4, <1>6, <2>2
  <2>7. With(e) \in LocalsOK /\ With(e).agentFlowExecutedData = d
    BY <2>3, <2>4, <2>5
  <2> QED
    BY <2>1, <2>6, <2>7 DEF d
<1> HIDE DEF With
<1>7. CASE /\ local' = [local EXCEPT ![r].agentFlowExecutedData = Append(data, Entry(n, "STOPPED", {}))]
           /\ pc' = [pc EXCEPT ![r] = "closing"]
  <2> DEFINE e == Entry(n, "STOPPED", {})
  <2>1. e \in Entries /\ e.status = "STOPPED"
    BY <1>2 DEF Entry, Entries, Settled
  <2>2. local' = [local EXCEPT ![r] = With(e)]
    BY <1>7 DEF With, TruthInv, EngineTypeOK
  <2> HIDE DEF e
  <2>3. With(e) \in LocalsOK /\ StageOf("closing", With(e))
    BY <2>1, <1>6 DEF StageOf
  <2>4. "closing" \in Live \cup {"exhausted"}
    BY DEF Live
  <2> QED
    BY <1>1, <1>2, <1>7, <2>2, <2>3, <2>4, MovesOn
<1>8. CASE /\ \E took \in Results(l, n) :
                 local' = [local EXCEPT ![r] =
                               ProcessNodeOutputs(With(Entry(n, "FINISHED", took)), n, took)]
           /\ pc' = [pc EXCEPT ![r] = "looping"]
  <2>1. PICK took \in Results(l, n) :
            local' = [local EXCEPT ![r] =
                          ProcessNodeOutputs(With(Entry(n, "FINISHED", took)), n, took)]
    BY <1>8
  <2> DEFINE e == Entry(n, "FINISHED", took)
             m == ProcessNodeOutputs(With(e), n, took)
  <2>2. e \in Entries /\ e.status = "FINISHED"
    <3>1. took \in SUBSET Nat
      BY <1>2, ResultsType
    <3> QED
      BY <1>2, <3>1 DEF Entry, Entries, Settled
  <2> HIDE DEF e
  <2>3. m \in Onward(With(e))
    BY <1>2, <1>6, <2>2, OutputsType
  <2> HIDE DEF m
  <2>4. m \in LocalsOK /\ m.agentFlowExecutedData = Append(data, e)
    BY <1>6, <2>2, <2>3 DEF Onward
  <2>5. StageOf("looping", m)
    BY <1>6, <2>2, <2>4 DEF StageOf
  <2>6. "looping" \in Live \cup {"exhausted"}
    BY DEF Live
  <2>7. local' = [local EXCEPT ![r] = m] /\ pc' = [pc EXCEPT ![r] = "looping"]
    BY <1>8, <2>1 DEF m, e
  <2> QED
    BY <1>1, <1>2, <2>4, <2>5, <2>6, <2>7, MovesOn
<1> QED
  BY <1>5, <1>7, <1>8

LEMMA SaveFailureTruth ==
    ASSUME TruthInv, NEW r \in Runs, SaveFailure(r)
    PROVE  TruthInv'
<1> DEFINE data == local[r].agentFlowExecutedData
           state == Last(data).status
<1>1. /\ pc[r] = "failing" /\ session' = session /\ row' = row
      /\ aborted' = aborted /\ local' = local /\ pc' = [pc EXCEPT ![r] = "failed"]
      /\ rows' = [rows EXCEPT ![row[r]] = [state |-> state, data |-> data]]
  BY DEF SaveFailure, Goto
<1>2. /\ data # <<>> /\ state \in {"ERROR", "TERMINATED"}
      /\ Statuses(data) \subseteq {"STOPPED", "FINISHED", state}
  BY <1>1 DEF TruthInv, Stage, StageOf
<1>3. state \in Statuses(data)
  <2>1. data \in Seq(Entries)
    BY DEF TruthInv, EngineTypeOK, LocalsOK
  <2>2. Len(data) \in 1..Len(data)
    BY <1>2, <2>1
  <2> QED
    BY <2>2 DEF Statuses, Last
<1> HIDE DEF data, state
<1>4. Tells([state |-> state, data |-> data]) /\ state \in Settled
  BY <1>2, <1>3 DEF Tells, Settled
<1>5. pc[r] \in Live /\ "failed" \in Endings
  BY <1>1 DEF Live, Endings
<1> QED
  BY <1>1, <1>4, <1>5, SavesRow DEF data

LEMMA SaveEndTruth ==
    ASSUME TruthInv, NEW r \in Runs, SaveEnd(r)
    PROVE  TruthInv'
<1> DEFINE data == local[r].agentFlowExecutedData
           state == StatusOf(data)
<1>1. /\ pc[r] = "closing" \/ (pc[r] = "looping" /\ local[r].nodeExecutionQueue = <<>>)
      /\ session' = session /\ row' = row
      /\ aborted' = aborted /\ local' = local /\ pc' = [pc EXCEPT ![r] = "answered"]
      /\ rows' = [rows EXCEPT ![row[r]] = [state |-> state, data |-> data]]
  BY DEF SaveEnd, Goto
<1>2. Statuses(data) \subseteq {"STOPPED", "FINISHED"}
  BY <1>1 DEF TruthInv, Stage, StageOf, Running
<1>3. Statuses(data) # {}
  <2>1. data \in Seq(Entries)
    BY DEF TruthInv, EngineTypeOK, LocalsOK
  <2>2. CASE pc[r] = "closing"
    BY <2>2 DEF TruthInv, Stage, StageOf
  <2>3. CASE pc[r] = "looping" /\ local[r].nodeExecutionQueue = <<>>
    <3>1. data # <<>>
      BY <2>3 DEF TruthInv, Stage, StageOf
    <3>2. 1 \in 1..Len(data)
      BY <2>1, <3>1
    <3> QED
      BY <3>2 DEF Statuses
  <2> QED
    BY <1>1, <2>2, <2>3
<1>4. state = IF "STOPPED" \in Statuses(data) THEN "STOPPED" ELSE "FINISHED"
  BY <1>2 DEF StatusOf, Statuses
<1> HIDE DEF data, state
<1>5. Tells([state |-> state, data |-> data]) /\ state \in Settled
  BY <1>2, <1>3, <1>4 DEF Tells, Settled
<1>6. pc[r] \in Live /\ "answered" \in Endings
  BY <1>1 DEF Live, Endings
<1> QED
  BY <1>1, <1>5, <1>6, SavesRow DEF data

LEMMA AbortTruth ==
    ASSUME TruthInv, NEW r \in Runs, Abort(r)
    PROVE  TruthInv'
<1>1. /\ aborted' = [aborted EXCEPT ![r] = TRUE]
      /\ session' = session /\ rows' = rows /\ pc' = pc /\ row' = row /\ local' = local
  BY DEF Abort
<1>2. EngineTypeOK'
  BY <1>1, FlowStays DEF TruthInv, EngineTypeOK, RowsOK
<1>3. RowsTellTruth'
  <2>1. \A i : Worked(i)' <=> Worked(i)
    BY <1>1 DEF Worked
  <2> QED
    BY <1>1, <2>1, TruthByRow, TruthAfter DEF TruthInv
<1>4. \A s \in Runs : Stage(s)'
  BY <1>1 DEF TruthInv, Stage, StageOf
<1> QED
  BY <1>2, <1>3, <1>4 DEF TruthInv

LEMMA CrashTruth ==
    ASSUME TruthInv, Crash
    PROVE  TruthInv'
<1>1. /\ pc' = [r \in Runs |-> IF pc[r] \in Live THEN "dead" ELSE pc[r]]
      /\ session' = session /\ rows' = rows /\ row' = row /\ aborted' = aborted /\ local' = local
  BY DEF Crash
<1>2. \A s \in Runs : pc'[s] = IF pc[s] \in Live THEN "dead" ELSE pc[s]
  BY <1>1
<1>3. EngineTypeOK'
  BY <1>1, FlowStays DEF TruthInv, EngineTypeOK, RowsOK, Endings
<1>4. RowsTellTruth'
  <2> SUFFICES ASSUME NEW i \in 1..Len(rows)
               PROVE  Tells(rows[i]) /\ (rows[i].state = "INPROGRESS" => Worked(i)')
    BY <1>1, TruthAfter
  <2>1. Worked(i) => Worked(i)'
    BY <1>1, <1>2 DEF Worked
  <2> QED
    BY <2>1, TruthByRow DEF TruthInv
<1>5. \A s \in Runs : Stage(s)'
  BY <1>1, <1>2 DEF TruthInv, Stage, StageOf, Live, Running
<1> QED
  BY <1>3, <1>4, <1>5 DEF TruthInv

LEMMA TruthStep ==
    ASSUME TruthInv, [EngineNext]_engineVars
    PROVE  TruthInv'
<1>1. CASE UNCHANGED engineVars
  <2>1. /\ session' = session /\ rows' = rows /\ pc' = pc /\ row' = row
        /\ aborted' = aborted /\ local' = local
    BY <1>1 DEF engineVars
  <2>2. EngineTypeOK'
    BY <2>1, FlowStays DEF TruthInv, EngineTypeOK, RowsOK
  <2>3. \A i : Worked(i)' <=> Worked(i)
    BY <2>1 DEF Worked
  <2>4. RowsTellTruth'
    BY <2>1, <2>3, TruthByRow, TruthAfter DEF TruthInv
  <2>5. \A s \in Runs : Stage(s)'
    BY <2>1 DEF TruthInv, Stage, StageOf
  <2> QED
    BY <2>2, <2>4, <2>5 DEF TruthInv
<1>2. CASE Crash
  BY <1>2, CrashTruth
<1>3. ASSUME NEW r \in Runs, BeginNew(r) \/ BeginResume(r) \/ Step(r) \/ Abort(r)
      PROVE  TruthInv'
  BY <1>3, BeginNewTruth, BeginResumeTruth, ClaimTruth, TakeTruth, NodeReturnsTruth,
     NodeThrowsTruth, SaveFailureTruth, SaveEndTruth, AbortTruth DEF Step
<1> QED
  BY <1>1, <1>2, <1>3 DEF EngineNext

LEMMA TruthAlways == EngineSpec => []TruthInv
<1>1. EngineInit => TruthInv
  BY InitialTruth
<1>2. TruthInv /\ [EngineNext]_engineVars => TruthInv'
  BY TruthStep
<1> QED
  BY <1>1, <1>2, PTL DEF EngineSpec

(* Every variable keeps its type: the queue of a run holds nodes of the    *)
(* flow, whatever the loops do, and a run works on an execution that       *)
(* exists (buildAgentflow.ts 564-659, 1263-1290).                          *)
THEOREM EngineTypeCorrect == EngineSpec => []EngineTypeOK
<1>1. TruthInv => EngineTypeOK
  BY DEF TruthInv
<1> QED
  BY <1>1, TruthAlways, PTL

(* The state of an execution is what its data shows, for every flow and    *)
(* any overlap of requests, aborts and crashes (buildAgentflow.ts 1344,    *)
(* 1599, 1628-1649).                                                       *)
THEOREM RowsAreTrue == EngineSpec => []RowsTellTruth
<1>1. TruthInv => RowsTellTruth
  BY DEF TruthInv
<1> QED
  BY <1>1, TruthAlways, PTL

-----------------------------------------------------------------------------
(* Requests that do not overlap.                                           *)

(* One run at a time is under way.  It resumes from the last row, which is *)
(* STOPPED, or works on a row that is INPROGRESS; and it has done what its *)
(* row shows.                                                              *)
OnlyRun == \A r, s \in Runs : pc[r] \in Live /\ pc[s] \in Live => r = s

OwnRow(r) ==
    /\ pc[r] = "claiming" => row[r] = Len(rows) /\ rows[row[r]].state = "STOPPED"
    /\ pc[r] \in Live \ {"claiming"} => rows[row[r]].state = "INPROGRESS"
    /\ pc[r] \in Live =>
          IsPrefix(Only(rows[row[r]].data, Finished),
                   Only(local[r].agentFlowExecutedData, Finished))

SingleInv == ~ session.overlap => OnlyRun /\ \A r \in Runs : OwnRow(r)

EngineInv == TruthInv /\ SingleInv

LEMMA PrefixChain ==
    ASSUME NEW R, NEW s \in Seq(R), NEW t \in Seq(R), NEW u \in Seq(R),
           IsPrefix(s, t), IsPrefix(t, u)
    PROVE  IsPrefix(s, u)
<1>1. Len(s) <= Len(t) /\ \A k \in 1..Len(s) : s[k] = t[k]
  BY PrefixOf
<1>2. Len(t) <= Len(u) /\ \A k \in 1..Len(t) : t[k] = u[k]
  BY PrefixOf
<1>3. Len(s) <= Len(u) /\ \A k \in 1..Len(s) : s[k] = u[k]
  BY <1>1, <1>2
<1> QED
  BY <1>3, PrefixOf

LEMMA DoneIs == \A data : Done(data) = Only(data, Finished)
BY DEF Done, Finished

LEMMA DoneType ==
    ASSUME NEW data \in Seq(Entries)
    PROVE  Done(data) \in Seq(Entries)
<1>1. Only(data, Finished) \in Seq(Entries \cap Finished)
  BY OnlyType
<1> DEFINE d == Only(data, Finished)
<1> HIDE DEF d
<1>2. d \in Seq(Entries)
  BY <1>1 DEF d
<1> QED
  BY <1>2, DoneIs DEF d

LEMMA FinishedStays ==
    ASSUME session' = session
    PROVE  Finished' = Finished
BY FlowStays DEF Finished

(* A node is taken or run: the run has done what it had done, or more.     *)
LEMMA WorkGrows ==
    ASSUME TruthInv, NEW r \in Runs, Take(r) \/ NodeReturns(r) \/ NodeThrows(r)
    PROVE  /\ pc[r] \in {"looping", "executing"}
           /\ session' = session /\ rows' = rows /\ row' = row
           /\ \E place \in (Live \ {"claiming"}) \cup {"exhausted"} : pc' = [pc EXCEPT ![r] = place]
           /\ \A s \in Runs : s # r => local'[s] = local[s]
           /\ IsPrefix(Done(local[r].agentFlowExecutedData), Done(local'[r].agentFlowExecutedData))
<1> DEFINE l == local[r]
           data == l.agentFlowExecutedData
<1>1. session \in Sessions /\ local \in [Runs -> LocalsOK] /\ l \in LocalsOK /\ data \in Seq(Entries)
  BY DEF TruthInv, EngineTypeOK, LocalsOK
<1>2. local' \in [Runs -> LocalsOK]
  <2>1. TruthInv'
    BY TakeTruth, NodeReturnsTruth, NodeThrowsTruth
  <2>2. session' = session
    BY DEF Take, NodeReturns, NodeThrows
  <2> QED
    BY <2>1, <2>2, FlowStays DEF TruthInv, EngineTypeOK
<1>3. CASE Take(r)
  <2> DEFINE n == Head(l.nodeExecutionQueue)
             next == [l EXCEPT !.iterations = @ + 1, !.currentNode = n,
                               !.nodeExecutionQueue = Tail(@)]
             e == Entry(n, "TERMINATED", {})
             ended == [next EXCEPT !.agentFlowExecutedData = Append(@, e)]
  <2>1. /\ pc[r] = "looping" /\ session' = session /\ rows' = rows /\ row' = row
        /\ l.nodeExecutionQueue # <<>>
    BY <1>3 DEF Take
  <2>2. \/ pc' = [pc EXCEPT ![r] = "exhausted"] /\ local' = local
        \/ pc' = [pc EXCEPT ![r] = "failing"] /\ local' = [local EXCEPT ![r] = ended]
        \/ pc' = [pc EXCEPT ![r] = "executing"] /\ local' = [local EXCEPT ![r] = next]
    BY <1>3 DEF Take, Goto
  <2>3. next.agentFlowExecutedData = data /\ ended.agentFlowExecutedData = Append(data, e)
    BY <1>1 DEF LocalsOK
  <2>4. e \in Entries
    <3>1. l.nodeExecutionQueue \in Seq(Nodes(flow))
      BY <1>1 DEF LocalsOK
    <3>2. n \in Nodes(flow)
      BY <2>1, <3>1
    <3> QED
      BY <3>2 DEF Entry, Entries, Settled
  <2> HIDE DEF next, ended, e
  <2>5. local'[r].agentFlowExecutedData \in {data, Append(data, e)}
    BY <1>1, <2>2, <2>3
  <2>6. IsPrefix(Done(data), Done(data)) /\ IsPrefix(Done(data), Done(Append(data, e)))
    BY <1>1, <2>4, DoneGrows, PrefixSelf
  <2>7. \E place \in (Live \ {"claiming"}) \cup {"exhausted"} : pc' = [pc EXCEPT ![r] = place]
    BY <2>2 DEF Live
  <2>8. \A s \in Runs : s # r => local'[s] = local[s]
    BY <1>1, <2>2
  <2> QED
    BY <2>1, <2>5, <2>6, <2>7, <2>8
<1>4. CASE NodeThrows(r)
  <2>1. /\ pc[r] = "executing" /\ session' = session /\ rows' = rows /\ row' = row
        /\ pc' = [pc EXCEPT ![r] = "failing"] /\ "failing" \in Live \ {"claiming"}
    BY <1>4 DEF NodeThrows, Goto, Live
  <2>2. l.currentNode \in Nodes(flow)
    BY <1>1, <2>1 DEF TruthInv, Stage, StageOf, LocalsOK
  <2>3. PICK status \in {"ERROR", "TERMINATED"} :
            local' = [local EXCEPT ![r].agentFlowExecutedData =
                          Append(@, Entry(l.currentNode, status, {}))]
    BY <1>4 DEF NodeThrows
  <2> DEFINE e == Entry(l.currentNode, status, {})
  <2>4. e \in Entries
    BY <2>2 DEF Entry, Entries, Settled
  <2>5. local'[r].agentFlowExecutedData = Append(data, e)
    BY <1>1, <2>3 DEF LocalsOK
  <2>6. \A s \in Runs : s # r => local'[s] = local[s]
    BY <1>1, <2>3
  <2> HIDE DEF e
  <2>7. IsPrefix(Done(data), Done(Append(data, e)))
    BY <1>1, <2>4, DoneGrows
  <2> QED
    BY <2>1, <2>5, <2>6, <2>7
<1>5. CASE NodeReturns(r)
  <2> DEFINE n == l.currentNode
             kept == Remembered(l)
             With(e) == [l EXCEPT !.agentFlowExecutedData = Append(kept, e)]
  <2>1. pc[r] = "executing" /\ session' = session /\ rows' = rows /\ row' = row
    BY <1>5 DEF NodeReturns
  <2>2. n \in Nodes(flow)
    BY <1>1, <2>1 DEF TruthInv, Stage, StageOf, LocalsOK
  <2>3. kept \in Seq(Entries) /\ Done(kept) = Done(data)
    BY <1>1, RememberedType
  <2>4. \/ /\ local' = [local EXCEPT ![r].agentFlowExecutedData = Append(kept, Entry(n, "STOPPED", {}))]
           /\ pc' = [pc EXCEPT ![r] = "closing"]
        \/ /\ \E took \in Results(l, n) :
                 local' = [local EXCEPT ![r] =
                               ProcessNodeOutputs(With(Entry(n, "FINISHED", took)), n, took)]
           /\ pc' = [pc EXCEPT ![r] = "looping"]
    BY <1>5 DEF NodeReturns, Goto
  <2>5. \E place \in (Live \ {"claiming"}) \cup {"exhausted"} : pc' = [pc EXCEPT ![r] = place]
    BY <2>4 DEF Live
  <2>6. \A s \in Runs : s # r => local'[s] = local[s]
    BY <1>1, <2>4
  <2> HIDE DEF kept
  <2>7. \E e \in Entries : local'[r].agentFlowExecutedData = Append(kept, e)
    <3>1. CASE local' = [local EXCEPT ![r].agentFlowExecutedData = Append(kept, Entry(n, "STOPPED", {}))]
      <4>1. Entry(n, "STOPPED", {}) \in Entries
        BY <2>2 DEF Entry, Entries, Settled
      <4>2. local'[r].agentFlowExecutedData = Append(kept, Entry(n, "STOPPED", {}))
        BY <1>1, <3>1 DEF LocalsOK
      <4> QED
        BY <4>1, <4>2
    <3>2. CASE \E took \in Results(l, n) :
                   local' = [local EXCEPT ![r] =
                                 ProcessNodeOutputs(With(Entry(n, "FINISHED", took)), n, took)]
      <4>1. PICK took \in Results(l, n) :
                local' = [local EXCEPT ![r] =
                              ProcessNodeOutputs(With(Entry(n, "FINISHED", took)), n, took)]
        BY <3>2
      <4> DEFINE e == Entry(n, "FINISHED", took)
                 m == ProcessNodeOutputs(With(e), n, took)
      <4>2. e \in Entries
        <5>1. took \in SUBSET Nat
          BY <1>1, <2>2, ResultsType
        <5> QED
          BY <2>2, <5>1 DEF Entry, Entries, Settled
      <4> HIDE DEF e
      <4>3. With(e) \in LocalsOK /\ With(e).agentFlowExecutedData = Append(kept, e)
        <5> DEFINE d == Append(kept, e)
        <5>1. d \in Seq(Entries)
          BY <2>3, <4>2
        <5>2. With(e) = [l EXCEPT !.agentFlowExecutedData = d]
          OBVIOUS
        <5> HIDE DEF d
        <5>3. /\ [l EXCEPT !.agentFlowExecutedData = d] \in LocalsOK
              /\ [l EXCEPT !.agentFlowExecutedData = d].agentFlowExecutedData = d
          BY <1>1, <5>1 DEF LocalsOK
        <5> HIDE DEF With
        <5> QED
          BY <5>2, <5>3 DEF d
      <4> HIDE DEF With
      <4>4. m \in Onward(With(e))
        BY <1>1, <2>2, <4>3, OutputsType
      <4>5. local'[r] = m
        BY <1>1, <4>1 DEF e
      <4> HIDE DEF m
      <4>6. local'[r].agentFlowExecutedData = Append(kept, e)
        BY <4>3, <4>4, <4>5 DEF Onward
      <4> QED
        BY <4>2, <4>6
    <3> QED
      BY <2>4, <3>1, <3>2
  <2>8. IsPrefix(Done(data), Done(local'[r].agentFlowExecutedData))
    BY <2>3, <2>7, DoneGrows
  <2> QED
    BY <2>1, <2>5, <2>6, <2>8
<1> QED
  BY <1>3, <1>4, <1>5

(* What a step makes of the rows.                                          *)
NewRow == rows' = Append(rows, [state |-> "INPROGRESS", data |-> <<>>])

Reopened ==
    /\ rows # <<>> /\ rows[Len(rows)].state = "STOPPED"
    /\ rows' = [rows EXCEPT ![Len(rows)] = [@ EXCEPT !.state = "INPROGRESS"]]

Saved == \E i \in 1..Len(rows), x \in RowsOK :
    /\ rows[i].state = "INPROGRESS" /\ x.state \in Settled
    /\ IsPrefix(Done(rows[i].data), Done(x.data))
    /\ rows' = [rows EXCEPT ![i] = x]

LEMMA SavedByEnd ==
    ASSUME EngineInv, ~ session.overlap, NEW r \in Runs, SaveFailure(r) \/ SaveEnd(r)
    PROVE  Saved
<1> DEFINE data == local[r].agentFlowExecutedData
           i == row[r]
<1>1. pc[r] \in Live \ {"claiming"}
  BY DEF SaveFailure, SaveEnd, Live
<1>2. data \in Seq(Entries) /\ i \in 1..Len(rows)
  BY <1>1 DEF EngineInv, TruthInv, EngineTypeOK, LocalsOK, Stage
<1>3. rows[i].state = "INPROGRESS" /\ IsPrefix(Done(rows[i].data), Done(data))
  BY <1>1, DoneIs DEF EngineInv, SingleInv, OwnRow
<1>4. \E state \in Settled : rows' = [rows EXCEPT ![i] = [state |-> state, data |-> data]]
  <2>1. CASE SaveEnd(r)
    <3>1. StatusOf(data) \in Settled
      BY DEF StatusOf, Settled
    <3> QED
      BY <2>1, <3>1 DEF SaveEnd
  <2>2. CASE SaveFailure(r)
    <3>1. Last(data).status \in Settled
      BY <2>2 DEF SaveFailure, EngineInv, TruthInv, Stage, StageOf, Settled
    <3> QED
      BY <2>2, <3>1 DEF SaveFailure
  <2> QED
    BY <2>1, <2>2
<1>5. PICK state \in Settled : rows' = [rows EXCEPT ![i] = [state |-> state, data |-> data]]
  BY <1>4
<1> DEFINE x == [state |-> state, data |-> data]
<1>6. x \in RowsOK /\ x.state = state /\ x.data = data
  BY <1>2 DEF RowsOK
<1> HIDE DEF data, i
<1> QED
  BY <1>2, <1>3, <1>5, <1>6 DEF Saved

LEMMA RowSteps ==
    ASSUME EngineInv, ~ session.overlap, [EngineNext]_engineVars
    PROVE  rows' = rows \/ NewRow \/ Reopened \/ Saved
<1>1. CASE UNCHANGED engineVars \/ Crash
  BY <1>1 DEF engineVars, Crash
<1>2. ASSUME NEW r \in Runs, BeginNew(r) \/ BeginResume(r) \/ Step(r) \/ Abort(r)
      PROVE  rows' = rows \/ NewRow \/ Reopened \/ Saved
  <2>1. CASE BeginNew(r)
    BY <2>1 DEF BeginNew, NewRow
  <2>2. CASE BeginResume(r) \/ Abort(r) \/ Take(r) \/ NodeReturns(r) \/ NodeThrows(r)
    BY <2>2 DEF BeginResume, Abort, Take, NodeReturns, NodeThrows
  <2>3. CASE Claim(r)
    <3>1. pc[r] = "claiming" /\ rows' = [rows EXCEPT ![row[r]].state = "INPROGRESS"]
      BY <2>3 DEF Claim
    <3>2. row[r] = Len(rows) /\ rows[Len(rows)].state = "STOPPED" /\ row[r] # 0
      BY <3>1 DEF EngineInv, SingleInv, OwnRow, TruthInv, Stage, Live
    <3>3. rows # <<>>
      BY <3>2
    <3> QED
      BY <3>1, <3>2, <3>3 DEF Reopened
  <2>4. CASE SaveFailure(r) \/ SaveEnd(r)
    BY <2>4, SavedByEnd
  <2> QED
    BY <1>2, <2>1, <2>2, <2>3, <2>4 DEF Step
<1> QED
  BY <1>1, <1>2 DEF EngineNext

LEMMA SingleLocal ==
    ASSUME EngineInv, TruthInv', ~ session.overlap, NEW r \in Runs,
           Take(r) \/ NodeReturns(r) \/ NodeThrows(r)
    PROVE  SingleInv'
<1>1. /\ pc[r] \in {"looping", "executing"}
      /\ session' = session /\ rows' = rows /\ row' = row
      /\ \A s \in Runs : s # r => local'[s] = local[s]
      /\ IsPrefix(Only(local[r].agentFlowExecutedData, Finished),
                  Only(local'[r].agentFlowExecutedData, Finished))
  BY WorkGrows, DoneIs DEF EngineInv
<1>2. PICK place \in (Live \ {"claiming"}) \cup {"exhausted"} : pc' = [pc EXCEPT ![r] = place]
  BY WorkGrows DEF EngineInv
<1>3. \A s \in Runs : pc'[s] = IF s = r THEN place ELSE pc[s]
  BY <1>2 DEF EngineInv, TruthInv, EngineTypeOK
<1>4. OnlyRun'
  BY <1>1, <1>3 DEF OnlyRun, EngineInv, SingleInv, Live
<1>5. Finished' = Finished /\ Entries' = Entries /\ LocalsOK' = LocalsOK
  BY <1>1, FinishedStays, FlowStays
<1>6. ASSUME NEW s \in Runs PROVE OwnRow(s)'
  <2>1. OwnRow(s)
    BY DEF EngineInv, SingleInv
  <2>2. CASE s # r
    <3>1. pc'[s] = pc[s] /\ local'[s] = local[s]
      BY <2>2, <1>1, <1>3
    <3> QED
      BY <2>1, <3>1, <1>1, <1>5 DEF OwnRow
  <2>3. CASE s = r
    <3> DEFINE old == rows[row[r]].data
               now == local[r].agentFlowExecutedData
               new == local'[r].agentFlowExecutedData
    <3>1. pc[r] \in Live \ {"claiming"} /\ pc'[r] # "claiming"
      BY <1>1, <1>3 DEF Live
    <3>2. rows[row[r]].state = "INPROGRESS"
      BY <2>1, <2>3, <3>1 DEF OwnRow
    <3>3. old \in Seq(Entries) /\ now \in Seq(Entries) /\ new \in Seq(Entries)
      <4>1. row[r] \in 1..Len(rows) /\ rows \in Seq(RowsOK)
        BY <3>1 DEF EngineInv, TruthInv, EngineTypeOK, Stage, RowsOK
      <4>2. rows[row[r]] \in RowsOK
        BY <4>1
      <4>3. local[r] \in LocalsOK /\ local'[r] \in LocalsOK
        BY <1>5 DEF EngineInv, TruthInv, EngineTypeOK
      <4> QED
        BY <4>2, <4>3 DEF RowsOK, LocalsOK
    <3>4. IsPrefix(Only(old, Finished), Only(now, Finished))
      BY <2>1, <2>3, <3>1 DEF OwnRow
    <3> HIDE DEF old, now, new
    <3>5. /\ Only(old, Finished) \in Seq(Entries) /\ Only(now, Finished) \in Seq(Entries)
          /\ Only(new, Finished) \in Seq(Entries)
      BY <3>3, DoneType, DoneIs
    <3>6. IsPrefix(Only(now, Finished), Only(new, Finished))
      BY <1>1 DEF now, new
    <3>7. IsPrefix(Only(old, Finished), Only(new, Finished))
      BY <3>4, <3>5, <3>6, PrefixChain
    <3> QED
      BY <2>3, <3>1, <3>2, <3>7, <1>1, <1>5 DEF OwnRow, old, new
  <2> QED
    BY <2>2, <2>3
<1> QED
  BY <1>4, <1>6 DEF SingleInv

LEMMA NoneLive ==
    ASSUME ~ session.overlap, NEW r \in Runs, MayBegin(r)
    PROVE  pc[r] = "idle" /\ \A s \in Runs : pc[s] \notin Live
BY DEF MayBegin

LEMMA SingleBegins ==
    ASSUME EngineInv, TruthInv', ~ session.overlap, NEW r \in Runs, BeginNew(r) \/ BeginResume(r)
    PROVE  SingleInv'
<1>1. session' = session /\ \A s \in Runs : pc[s] \notin Live
  BY NoneLive DEF BeginNew, BeginResume
<1>2. Finished' = Finished
  BY <1>1, FinishedStays
<1>3. \A s \in Runs : s # r => pc'[s] = pc[s]
  BY DEF BeginNew, BeginResume, Goto, EngineInv, TruthInv, EngineTypeOK
<1>4. OnlyRun'
  BY <1>1, <1>3 DEF OnlyRun, Live
<1>5. ASSUME NEW s \in Runs, s # r PROVE OwnRow(s)'
  BY <1>1, <1>3, <1>5 DEF OwnRow, Live
<1>6. OwnRow(r)'
  <2>1. CASE BeginNew(r)
    <3>1. CASE Cardinality(Starts(flow)) > 1
      <4>1. pc'[r] = "refused"
        BY <2>1, <3>1 DEF BeginNew, Goto, EngineInv, TruthInv, EngineTypeOK
      <4> QED
        BY <4>1 DEF OwnRow, Live
    <3>2. CASE ~ Cardinality(Starts(flow)) > 1
      <4> DEFINE x == [state |-> "INPROGRESS", data |-> <<>>]
                 l == Locals(SetToSeq(Starts(flow)), <<>>, NoInput)
      <4>1. /\ pc'[r] = "looping" /\ row'[r] = Len(rows) + 1 /\ local'[r] = l
            /\ rows' = Append(rows, x)
        BY <2>1, <3>2 DEF BeginNew, Goto, EngineInv, TruthInv, EngineTypeOK
      <4>2. rows'[Len(rows) + 1] = x
        BY <4>1 DEF EngineInv, TruthInv, EngineTypeOK
      <4>3. x.state = "INPROGRESS" /\ x.data = <<>> /\ l.agentFlowExecutedData = <<>>
        BY DEF Locals
      <4>4. IsPrefix(Only(<<>>, Finished), Only(<<>>, Finished))
        <5>1. <<>> \in Seq(Entries)
          OBVIOUS
        <5> QED
          BY <5>1, OnlyEmpty, PrefixSelf
      <4> HIDE DEF x, l
      <4> QED
        BY <1>2, <4>1, <4>2, <4>3, <4>4 DEF OwnRow
    <3> QED
      BY <3>1, <3>2
  <2>2. CASE BeginResume(r)
    <3>1. PICK input \in HumanInputs :
              IF Resumable(input)
              THEN /\ local' = [local EXCEPT ![r] = Locals(<<input.node>>, Last(rows).data, input)]
                   /\ row' = [row EXCEPT ![r] = Len(rows)]
                   /\ pc' = [pc EXCEPT ![r] = "claiming"]
              ELSE /\ pc' = [pc EXCEPT ![r] = "refused"]
                   /\ UNCHANGED <<row, local>>
      BY <2>2 DEF BeginResume, Goto
    <3>2. rows' = rows
      BY <2>2 DEF BeginResume
    <3>3. CASE ~ Resumable(input)
      <4>1. pc'[r] = "refused"
        BY <3>1, <3>3 DEF EngineInv, TruthInv, EngineTypeOK
      <4> QED
        BY <4>1 DEF OwnRow, Live
    <3>4. CASE Resumable(input)
      <4> DEFINE data == Last(rows).data
      <4>1. /\ pc'[r] = "claiming" /\ row'[r] = Len(rows)
            /\ local'[r] = Locals(<<input.node>>, data, input)
        BY <3>1, <3>4 DEF EngineInv, TruthInv, EngineTypeOK
      <4>2. local'[r].agentFlowExecutedData = data
        BY <4>1 DEF Locals
      <4>3. /\ rows[Len(rows)].state = "STOPPED" /\ data = rows[Len(rows)].data
            /\ rows[Len(rows)] \in RowsOK
        <5>1. rows \in Seq(RowsOK)
          BY DEF EngineInv, TruthInv, EngineTypeOK, RowsOK
        <5>2. rows # <<>> /\ rows[Len(rows)].state = "STOPPED" /\ data = rows[Len(rows)].data
          BY <3>4 DEF Resumable, Last
        <5>3. rows[Len(rows)] \in RowsOK
          BY <5>1, <5>2
        <5> QED
          BY <5>2, <5>3
      <4>4. data \in Seq(Entries)
        BY <4>3 DEF RowsOK
      <4> HIDE DEF data
      <4>5. Only(data, Finished) \in Seq(Entries)
        BY <4>4, DoneType, DoneIs
      <4>6. IsPrefix(Only(data, Finished), Only(data, Finished))
        BY <4>5, PrefixSelf
      <4> QED
        BY <1>2, <3>2, <4>1, <4>2, <4>3, <4>6 DEF OwnRow
    <3> QED
      BY <3>3, <3>4
  <2> QED
    BY <2>1, <2>2
<1> QED
  BY <1>4, <1>5, <1>6 DEF SingleInv

LEMMA SingleClaim ==
    ASSUME EngineInv, ~ session.overlap, NEW r \in Runs, Claim(r)
    PROVE  SingleInv'
<1>1. /\ pc[r] = "claiming" /\ pc' = [pc EXCEPT ![r] = "looping"]
      /\ session' = session /\ row' = row /\ local' = local
      /\ rows' = [rows EXCEPT ![row[r]].state = "INPROGRESS"]
  BY DEF Claim, Goto
<1>2. row[r] \in 1..Len(rows) /\ rows \in Seq(RowsOK) /\ rows[row[r]] \in RowsOK
  <2>1. row[r] \in 1..Len(rows) /\ rows \in Seq(RowsOK)
    BY <1>1 DEF EngineInv, TruthInv, EngineTypeOK, Stage, Live, RowsOK
  <2> QED
    BY <2>1
<1>3. rows'[row[r]].state = "INPROGRESS" /\ rows'[row[r]].data = rows[row[r]].data
  <2>1. rows'[row[r]] = [rows[row[r]] EXCEPT !.state = "INPROGRESS"]
    BY <1>1, <1>2
  <2> QED
    BY <1>2, <2>1 DEF RowsOK
<1>4. \A s \in Runs : pc'[s] = IF s = r THEN "looping" ELSE pc[s]
  BY <1>1 DEF EngineInv, TruthInv, EngineTypeOK
<1>5. pc[r] \in Live /\ \A s \in Runs : s # r => pc[s] \notin Live
  BY <1>1 DEF EngineInv, SingleInv, OnlyRun, Live
<1>6. OnlyRun'
  BY <1>4, <1>5 DEF OnlyRun
<1>7. ASSUME NEW s \in Runs PROVE OwnRow(s)'
  <2>1. CASE s # r
    BY <2>1, <1>4, <1>5 DEF OwnRow, Live
  <2>2. CASE s = r
    <3>1. IsPrefix(Only(rows[row[r]].data, Finished), Only(local[r].agentFlowExecutedData, Finished))
      BY <1>5 DEF EngineInv, SingleInv, OwnRow
    <3>2. Finished' = Finished
      BY <1>1, FinishedStays
    <3> QED
      BY <2>2, <3>1, <3>2, <1>1, <1>3, <1>4 DEF OwnRow
  <2> QED
    BY <2>1, <2>2
<1> QED
  BY <1>6, <1>7 DEF SingleInv

LEMMA SingleEnds ==
    ASSUME EngineInv, ~ session.overlap, NEW r \in Runs, SaveFailure(r) \/ SaveEnd(r)
    PROVE  SingleInv'
<1>1. pc[r] \in Live
  BY DEF SaveFailure, SaveEnd, Live
<1>2. \E place \in {"failed", "answered"} : pc' = [pc EXCEPT ![r] = place]
  BY DEF SaveFailure, SaveEnd, Goto
<1>3. \A s \in Runs : pc'[s] \notin Live
  BY <1>1, <1>2 DEF EngineInv, TruthInv, EngineTypeOK, SingleInv, OnlyRun, Live
<1> QED
  BY <1>3 DEF SingleInv, OnlyRun, OwnRow, Live

LEMMA SessionStays ==
    ASSUME [EngineNext]_engineVars
    PROVE  session' = session
<1>1. ASSUME NEW r \in Runs, BeginNew(r) \/ BeginResume(r) \/ Step(r) \/ Abort(r)
      PROVE  session' = session
  <2>1. CASE Step(r)
    BY <2>1 DEF Step, Claim, Take, NodeReturns, NodeThrows, SaveFailure, SaveEnd
  <2> QED
    BY <1>1, <2>1 DEF BeginNew, BeginResume, Abort
<1> QED
  BY <1>1 DEF EngineNext, engineVars, Crash

LEMMA SingleStep ==
    ASSUME EngineInv, [EngineNext]_engineVars
    PROVE  SingleInv'
<1>1. TruthInv'
  BY TruthStep DEF EngineInv
<1>2. session' = session
  BY SessionStays
<1>3. SUFFICES ASSUME ~ session.overlap PROVE SingleInv'
  BY <1>2 DEF SingleInv
<1>4. CASE Crash
  <2>1. \A s \in Runs : pc'[s] \notin Live
    BY <1>4 DEF Crash, Live
  <2> QED
    BY <2>1 DEF SingleInv, OnlyRun, OwnRow, Live
<1>5. ASSUME rows' = rows, pc' = pc, row' = row, local' = local PROVE SingleInv'
  <2>1. Finished' = Finished
    BY <1>2, FinishedStays
  <2> QED
    BY <1>2, <1>5, <2>1 DEF EngineInv, SingleInv, OnlyRun, OwnRow
<1>6. CASE UNCHANGED engineVars
  BY <1>5, <1>6 DEF engineVars
<1>7. ASSUME NEW r \in Runs, BeginNew(r) \/ BeginResume(r) \/ Step(r) \/ Abort(r)
      PROVE  SingleInv'
  <2>1. CASE Abort(r)
    BY <2>1, <1>5 DEF Abort
  <2> QED
    BY <1>1, <1>3, <1>7, <2>1, SingleBegins, SingleClaim, SingleEnds, SingleLocal DEF Step
<1> QED
  BY <1>4, <1>6, <1>7 DEF EngineNext

LEMMA InitialSingle ==
    ASSUME EngineInit
    PROVE  SingleInv
BY DEF EngineInit, SingleInv, OnlyRun, OwnRow, Live

LEMMA EngineAlways == EngineSpec => []EngineInv
<1>1. EngineInit => EngineInv
  BY InitialTruth, InitialSingle DEF EngineInv
<1>2. EngineInv /\ [EngineNext]_engineVars => EngineInv'
  BY TruthStep, SingleStep DEF EngineInv
<1> QED
  BY <1>1, <1>2, PTL DEF EngineSpec

(* Stopping and resuming forgets nothing: while requests do not overlap,   *)
(* an execution keeps what it has done, across any number of answers and   *)
(* in any flow (buildAgentflow.ts 1336, 881).                              *)
THEOREM HistoryIsKept == EngineSpec => HistoryKept
<1>1. ASSUME EngineInv, [EngineNext]_engineVars
      PROVE  ~ session.overlap =>
                 \A i \in 1..Len(rows) : IsPrefix(Done(rows[i].data), Done(rows'[i].data))
  <2> SUFFICES ASSUME ~ session.overlap, NEW i \in 1..Len(rows)
               PROVE  IsPrefix(Done(rows[i].data), Done(rows'[i].data))
    OBVIOUS
  <2>1. rows \in Seq(RowsOK) /\ rows[i] \in RowsOK
    <3>1. rows \in Seq(RowsOK)
      BY <1>1 DEF EngineInv, TruthInv, EngineTypeOK, RowsOK
    <3> QED
      BY <3>1
  <2>2. rows[i].data \in Seq(Entries)
    BY <2>1 DEF RowsOK
  <2>3. IsPrefix(Done(rows[i].data), Done(rows[i].data))
    <3>1. Done(rows[i].data) \in Seq(Entries)
      BY <2>2, DoneType
    <3> QED
      BY <3>1, PrefixSelf
  <2>4. CASE rows' = rows
    BY <2>3, <2>4
  <2>5. CASE NewRow
    <3>1. rows'[i] = rows[i]
      BY <2>1, <2>5 DEF NewRow
    <3> QED
      BY <2>3, <3>1
  <2>6. CASE Reopened
    <3>1. rows'[i].data = rows[i].data
      BY <2>1, <2>6 DEF Reopened, RowsOK
    <3> QED
      BY <2>3, <3>1
  <2>7. CASE Saved
    <3>1. PICK j \in 1..Len(rows), x \in RowsOK :
              IsPrefix(Done(rows[j].data), Done(x.data)) /\ rows' = [rows EXCEPT ![j] = x]
      BY <2>7 DEF Saved
    <3>2. rows'[i] = IF i = j THEN x ELSE rows[i]
      BY <2>1, <3>1
    <3> QED
      BY <2>3, <3>1, <3>2
  <2> QED
    BY <1>1, <2>4, <2>5, <2>6, <2>7, RowSteps
<1> QED
  BY <1>1, EngineAlways, PTL DEF EngineSpec, HistoryKept

(* The states of the executions, as ExecutionSpec knows them.              *)
States == IF session.overlap THEN <<>> ELSE [i \in 1..Len(rows) |-> rows[i].state]

LEMMA LifecycleStep ==
    ASSUME EngineInv, [EngineNext]_engineVars, session' = session
    PROVE  [Lifecycle!Next]_States
<1>1. CASE session.overlap
  BY <1>1 DEF States
<1>2. CASE ~ session.overlap
  <2> DEFINE st == [i \in 1..Len(rows) |-> rows[i].state]
             new == [i \in 1..Len(rows') |-> rows'[i].state]
  <2>1. States = st /\ States' = new
    BY <1>2 DEF States
  <2>2. rows \in Seq(RowsOK) /\ rows' \in Seq(RowsOK)
    BY TruthStep, FlowStays DEF EngineInv, TruthInv, EngineTypeOK, RowsOK
  <2>3. st \in Seq(Settled \cup {"INPROGRESS"}) /\ Len(st) = Len(rows)
        /\ \A i \in 1..Len(rows) : st[i] = rows[i].state
    <3>1. \A i \in 1..Len(rows) : rows[i] \in RowsOK
      BY <2>2
    <3> QED
      BY <2>2, <3>1 DEF RowsOK
  <2>5. CASE rows' = rows
    BY <2>1, <2>5
  <2>6. CASE NewRow
    <3>1. Len(rows') = Len(rows) + 1
          /\ \A i \in 1..Len(rows') : rows'[i].state = IF i = Len(rows) + 1 THEN "INPROGRESS"
                                                       ELSE rows[i].state
      BY <2>2, <2>6 DEF NewRow
    <3>2. new = Append(st, "INPROGRESS")
      BY <2>2, <2>3, <3>1
    <3> QED
      BY <1>2, <2>1, <3>2 DEF States, Lifecycle!Next, Lifecycle!Begin
  <2>7. CASE Reopened
    <3>1. rows # <<>> /\ rows[Len(rows)].state = "STOPPED" /\ Len(rows') = Len(rows)
      BY <2>2, <2>7 DEF Reopened
    <3>2. \A i \in 1..Len(rows) : rows'[i].state = IF i = Len(rows) THEN "INPROGRESS"
                                                   ELSE rows[i].state
      BY <2>2, <2>7 DEF Reopened, RowsOK
    <3>3. new = [st EXCEPT ![Len(st)] = "INPROGRESS"]
      BY <2>2, <2>3, <3>1, <3>2
    <3>4. st # <<>> /\ st[Len(st)] = "STOPPED"
      BY <2>2, <2>3, <3>1
    <3> HIDE DEF st, new
    <3>5. States # <<>> /\ States[Len(States)] = "STOPPED"
          /\ States' = [States EXCEPT ![Len(States)] = "INPROGRESS"]
      BY <2>1, <3>3, <3>4
    <3> QED
      BY <3>5 DEF States, Lifecycle!Next, Lifecycle!Resume
  <2>8. CASE Saved
    <3>1. PICK i \in 1..Len(rows), x \in RowsOK :
              rows[i].state = "INPROGRESS" /\ x.state \in Settled /\ rows' = [rows EXCEPT ![i] = x]
      BY <2>8 DEF Saved
    <3>2. Len(rows') = Len(rows)
          /\ \A j \in 1..Len(rows) : rows'[j].state = IF j = i THEN x.state ELSE rows[j].state
      BY <2>2, <3>1
    <3>3. new = [st EXCEPT ![i] = x.state]
      BY <2>2, <2>3, <3>1, <3>2
    <3>4. i \in 1..Len(st) /\ st[i] = "INPROGRESS"
      BY <2>3, <3>1
    <3> HIDE DEF st, new
    <3>5. i \in 1..Len(States) /\ States[i] = "INPROGRESS" /\ x.state \in Settled
          /\ States' = [States EXCEPT ![i] = x.state]
      BY <2>1, <3>1, <3>3, <3>4
    <3> QED
      BY <3>5 DEF States, Settled, Lifecycle!Next, Lifecycle!Settle, Lifecycle!Settled
  <2> QED
    BY <1>2, <2>5, <2>6, <2>7, <2>8, RowSteps
<1> QED
  BY <1>1, <1>2

(* The execution table implements ExecutionSpec for every flow: while      *)
(* requests do not overlap, only the session's last execution is taken up  *)
(* again, only when it is STOPPED, and what is settled otherwise stays     *)
(* (buildAgentflow.ts 1311-1351).                                          *)
THEOREM RowsHaveALifecycle == EngineSpec => RowLifecycle
<1>1. EngineInit => Lifecycle!Init
  BY DEF EngineInit, Lifecycle!Init
<1>2. EngineInv /\ [EngineNext]_engineVars => [Lifecycle!Next]_States
  BY LifecycleStep, SessionStays
<1> QED
  BY <1>1, <1>2, EngineAlways, PTL DEF EngineSpec, RowLifecycle, Lifecycle!Spec, States

-----------------------------------------------------------------------------
(* Which nodes run.                                                        *)

Visited(data) == {data[k].node : k \in 1..Len(data)}
Queued(l)     == {l.nodeExecutionQueue[k] : k \in 1..Len(l.nodeExecutionQueue)}

(* The nodes a run has been at, is at or will be at.                       *)
Met(place, l) ==
    Visited(l.agentFlowExecutedData) \cup Queued(l)
        \cup (IF place = "executing" THEN {l.currentNode} ELSE {})

(* Outcome h of d is the only way out of a set that holds the starts.      *)
Encloses(nodes, d, h) ==
    /\ nodes \in SUBSET Nodes(flow) /\ Starts(flow) \subseteq nodes
    /\ Closed(nodes, WaysRound(d, h))

Decides(d, h) ==
    flow.kind[d] \in Deciders \ {"human"} /\ Proper(d) /\ h \in Handles(flow, d)

DataWithin(data, nodes, d, h) == Took(data, d, h) \/ Visited(data) \subseteq nodes

RunWithin(place, l, nodes, d, h) ==
    Took(l.agentFlowExecutedData, d, h) \/ Met(place, l) \subseteq nodes

(* Nothing that a run has done, does or is about to do lies outside, until *)
(* the outcome was fulfilled.                                              *)
BranchInv ==
    \A nodes \in SUBSET Nodes(flow), d \in Nodes(flow) : \A h \in Handles(flow, d) :
        Decides(d, h) /\ Encloses(nodes, d, h) =>
            /\ \A i \in 1..Len(rows) : DataWithin(rows[i].data, nodes, d, h)
            /\ \A r \in Runs : RunWithin(pc[r], local[r], nodes, d, h)

(* The inputs that node n got from what was done.                          *)
Got(data, n) ==
    {s \in Sources(flow, n) : \E k \in 1..Len(data) :
        data[k].node = s /\ n \notin Ignored(flow, s, data[k].took)}

(* A node is met when the inputs it got suffice; until then it keeps them. *)
FedWith(l, met, n, got) ==
    /\ l.waitingNodes[n] \subseteq got
    /\ n \in met => HasRequired(flow, n, got)
    /\ n \notin met => l.waitingNodes[n] = got /\ ~ HasRequired(flow, n, got)

Fed(place, l) ==
    \A n \in Nodes(flow) \ Starts(flow) :
        FedWith(l, Met(place, l), n, Got(l.agentFlowExecutedData, n))

DataFed(data) ==
    \A n \in Nodes(flow) \ Starts(flow) :
        n \in Visited(data) <=> HasRequired(flow, n, Got(data, n))

Straight == Loops = {} /\ Asking = {}

InputsInv ==
    Straight =>
        /\ \A r \in Runs : pc[r] # "claiming"
        /\ \A r \in Runs : pc[r] \in {"looping", "executing"} => Fed(pc[r], local[r])
        /\ \A i \in 1..Len(rows) : rows[i].state = "FINISHED" => DataFed(rows[i].data)

(* An unconditional node is at one place of the data or the queue at most, *)
(* and the start at one.                                                   *)
OnceIn(s, n) == \A j, k \in 1..Len(s) : s[j] = n /\ s[k] = n => j = k

OnceInData(data, n) ==
    \A j, k \in 1..Len(data) : data[j].node = n /\ data[k].node = n => j = k

OnceAt(place, l, n) ==
    /\ OnceInData(l.agentFlowExecutedData, n) /\ OnceIn(l.nodeExecutionQueue, n)
    /\ n \in Queued(l) => n \notin Visited(l.agentFlowExecutedData)
    /\ place = "executing" /\ n = l.currentNode =>
          n \notin Visited(l.agentFlowExecutedData) \cup Queued(l)

Once(place, l) ==
    /\ Starts(flow) \subseteq Met(place, l)
    /\ \A n \in Unconditional : OnceAt(place, l, n)

(* A node that decides nothing fulfils all its outcomes.                   *)
Plain(data) ==
    \A k \in 1..Len(data) :
        data[k].status = "FINISHED" /\ flow.kind[data[k].node] \notin Deciders =>
            data[k].took = Handles(flow, data[k].node)

(* Once in the data of a run that has come to its end.                     *)
RanOnce(data, n) == n \in Visited(data) /\ OnceInData(data, n)

OnceInv ==
    Straight /\ Drawn =>
        /\ \A r \in Runs : Plain(local[r].agentFlowExecutedData)
        /\ \A r \in Runs : pc[r] \in {"looping", "executing"} => Once(pc[r], local[r])
        /\ \A i \in 1..Len(rows) : rows[i].state = "FINISHED" =>
              \A n \in Unconditional : RanOnce(rows[i].data, n)

-----------------------------------------------------------------------------
(* Sequences as sets.                                                      *)

Elems(s) == {s[k] : k \in 1..Len(s)}

LEMMA ElemsAppend ==
    ASSUME NEW R, NEW s \in Seq(R), NEW e \in R
    PROVE  Elems(Append(s, e)) = Elems(s) \cup {e}
<1>1. \A k \in 1..Len(s) : Append(s, e)[k] = s[k] /\ k \in 1..(Len(s) + 1)
  OBVIOUS
<1>2. Append(s, e)[Len(s) + 1] = e /\ Len(Append(s, e)) = Len(s) + 1 /\ Len(s) + 1 \in 1..(Len(s) + 1)
  OBVIOUS
<1>3. \A k \in 1..(Len(s) + 1) : k \in 1..Len(s) \/ k = Len(s) + 1
  OBVIOUS
<1> QED
  BY <1>1, <1>2, <1>3 DEF Elems

LEMMA ElemsIn ==
    ASSUME NEW R, NEW s \in Seq(R)
    PROVE  Elems(s) \subseteq R
BY DEF Elems

(* Only() keeps what is in the set.                                        *)
LEMMA OnlyElems ==
    ASSUME NEW R, NEW s \in Seq(R), NEW set
    PROVE  Elems(Only(s, set)) = Elems(s) \cap set
<1>1. PICK f \in [0..Len(s) -> Seq(R \cap set)] : Steps(f, s, set) /\ Only(s, set) = f[Len(s)]
  BY OnlyIsLastStep
<1> DEFINE Before(k) == {s[j] : j \in 1..k} \cap set
           good == {k \in 0..Len(s) : Elems(f[k]) = Before(k)}
<1>2. 0 \in good
  <2>1. 0 \in 0..Len(s)
    OBVIOUS
  <2>2. f[0] = <<>>
    BY <1>1, <2>1, Zenon DEF Steps
  <2>3. Elems(f[0]) = {}
    BY <2>2 DEF Elems
  <2> QED
    BY <2>1, <2>3
<1>3. ASSUME NEW k \in 1..Len(s), k - 1 \in good
      PROVE  k \in good
  <2>1. k \in 0..Len(s) /\ k # 0 /\ k - 1 \in 0..Len(s) /\ s[k] \in R
    OBVIOUS
  <2>2. f[k] = IF s[k] \in set THEN Append(f[k - 1], s[k]) ELSE f[k - 1]
    BY <1>1, <2>1, Zenon DEF Steps
  <2>3. f[k - 1] \in Seq(R \cap set) /\ Elems(f[k - 1]) = Before(k - 1)
    BY <1>3, <2>1
  <2>4. Before(k) = Before(k - 1) \cup ({s[k]} \cap set)
    <3>1. \A j : j \in 1..k <=> j \in 1..(k - 1) \/ j = k
      BY <2>1
    <3> QED
      BY <3>1
  <2> HIDE DEF Before
  <2>5. CASE s[k] \in set
    <3>1. Elems(Append(f[k - 1], s[k])) = Elems(f[k - 1]) \cup {s[k]}
      BY <2>1, <2>3, <2>5, ElemsAppend
    <3> QED
      BY <3>1, <2>1, <2>2, <2>3, <2>4, <2>5
  <2>6. CASE s[k] \notin set
    BY <2>1, <2>2, <2>3, <2>4, <2>6
  <2> QED
    BY <2>5, <2>6
<1> HIDE DEF good
<1>4. Len(s) \in good
  BY <1>2, <1>3, StepByStep
<1> QED
  BY <1>1, <1>4 DEF good, Elems

LEMMA VisitedIs ==
    ASSUME NEW data
    PROVE  /\ Visited(data) = {e.node : e \in Elems(data)}
           /\ \A d, h : Took(data, d, h) <=> \E e \in Elems(data) : e.node = d /\ h \in e.took
BY DEF Visited, Took, Elems

LEMMA DataAppend ==
    ASSUME NEW data \in Seq(Entries), NEW e \in Entries
    PROVE  /\ Visited(Append(data, e)) = Visited(data) \cup {e.node}
           /\ \A d, h : Took(Append(data, e), d, h) <=>
                            Took(data, d, h) \/ (e.node = d /\ h \in e.took)
<1>1. Elems(Append(data, e)) = Elems(data) \cup {e}
  BY ElemsAppend
<1>2. Visited(Append(data, e)) = {x.node : x \in Elems(data) \cup {e}}
  BY <1>1, VisitedIs
<1>3. Visited(data) = {x.node : x \in Elems(data)}
  BY VisitedIs
<1>4. Visited(Append(data, e)) = Visited(data) \cup {e.node}
  BY <1>2, <1>3
<1>5. ASSUME NEW d, NEW h
      PROVE  Took(Append(data, e), d, h) <=> Took(data, d, h) \/ (e.node = d /\ h \in e.took)
  <2>1. Took(Append(data, e), d, h) <=> \E x \in Elems(data) \cup {e} : x.node = d /\ h \in x.took
    BY <1>1, VisitedIs
  <2>2. Took(data, d, h) <=> \E x \in Elems(data) : x.node = d /\ h \in x.took
    BY VisitedIs
  <2> QED
    BY <2>1, <2>2
<1> QED
  BY <1>4, <1>5

(* What a run remembers of the nodes that never ask.                       *)
LEMMA RememberedData ==
    ASSUME session \in Sessions, NEW l \in LocalsOK, NEW d \in Nodes(flow) \ Asking, NEW h
    PROVE  /\ Visited(Remembered(l)) \subseteq Visited(l.agentFlowExecutedData)
           /\ Took(l.agentFlowExecutedData, d, h) => Took(Remembered(l), d, h)
<1> DEFINE data == l.agentFlowExecutedData
           others == {e \in Entries : e.node # l.currentNode}
<1>1. data \in Seq(Entries)
  BY DEF LocalsOK
<1>2. CASE Answered(l, l.currentNode)
  <2>1. l.currentNode \in Asking
    <3>1. l.currentHumanInput \in HumanInputs
      BY <1>2 DEF Answered, LocalsOK
    <3> QED
      BY <3>1, <1>2 DEF Answered, HumanInputs
  <2>2. Remembered(l) = Only(data, others)
    BY <1>2 DEF Remembered
  <2> HIDE DEF data
  <2>3. Elems(Remembered(l)) = Elems(data) \cap others
    BY <1>1, <2>2, OnlyElems
  <2>4. Elems(data) \subseteq Entries
    BY <1>1, ElemsIn
  <2>5. \A e \in Elems(data) : e.node = d => e \in others
    BY <2>1, <2>4
  <2> HIDE DEF others
  <2>6. Visited(Remembered(l)) \subseteq Visited(data)
    <3>1. Visited(Remembered(l)) = {e.node : e \in Elems(Remembered(l))}
          /\ Visited(data) = {e.node : e \in Elems(data)}
      BY VisitedIs
    <3> QED
      BY <3>1, <2>3
  <2>7. Took(data, d, h) => Took(Remembered(l), d, h)
    <3>1. /\ Took(Remembered(l), d, h) <=>
                \E e \in Elems(Remembered(l)) : e.node = d /\ h \in e.took
          /\ Took(data, d, h) <=> \E e \in Elems(data) : e.node = d /\ h \in e.took
      BY VisitedIs
    <3> QED
      BY <3>1, <2>3, <2>5
  <2> QED
    BY <2>6, <2>7 DEF data
<1>3. CASE ~ Answered(l, l.currentNode)
  BY <1>3 DEF Remembered
<1> QED
  BY <1>2, <1>3

-----------------------------------------------------------------------------
(* The outputs of a node and the queue.                                    *)

LEMMA QueuedIs ==
    ASSUME NEW l
    PROVE  Queued(l) = Elems(l.nodeExecutionQueue)
BY DEF Queued, Elems

LEMMA LocalFields ==
    ASSUME NEW l \in LocalsOK
    PROVE  /\ l.nodeExecutionQueue \in Seq(Nodes(flow))
           /\ l.agentFlowExecutedData \in Seq(Entries)
           /\ l.waitingNodes \in [Nodes(flow) -> SUBSET Nodes(flow)]
           /\ l.currentNode \in Nodes(flow) \cup {NoNode}
BY DEF LocalsOK

(* The cases of Receive(): the child is queued and its inputs are cleared, *)
(* or it keeps them.                                                       *)
Queues(l, m, child) ==
    /\ m.nodeExecutionQueue = Append(l.nodeExecutionQueue, child)
    /\ m.waitingNodes = [l.waitingNodes EXCEPT ![child] = {}]

Waits(l, m, x, child) ==
    /\ m.nodeExecutionQueue = l.nodeExecutionQueue
    /\ m.waitingNodes = [l.waitingNodes EXCEPT ![child] = l.waitingNodes[child] \cup {x}]

Suffice(l, x, child) == HasRequired(flow, child, l.waitingNodes[child] \cup {x})

LEMMA ReceiveCases ==
    ASSUME session \in Sessions, NEW l \in LocalsOK, NEW x \in Nodes(flow), NEW child \in Nodes(flow)
    PROVE  \/ Suffice(l, x, child) /\ Queues(l, Receive(l, x, child), child)
           \/ ~ Suffice(l, x, child) /\ Waits(l, Receive(l, x, child), x, child)
<1> DEFINE received == l.waitingNodes[child] \cup {x}
           m == Receive(l, x, child)
<1>1. CASE HasRequired(flow, child, received)
  <2>1. m = [l EXCEPT !.waitingNodes[child] = {}, !.nodeExecutionQueue = Append(@, child)]
    BY <1>1 DEF Receive
  <2> HIDE DEF m
  <2>2. Queues(l, m, child)
    BY <2>1 DEF LocalsOK, Queues
  <2> QED
    BY <1>1, <2>2 DEF m, Suffice
<1>2. CASE ~ HasRequired(flow, child, received)
  <2>1. m = [l EXCEPT !.waitingNodes[child] = received]
    BY <1>2 DEF Receive
  <2> HIDE DEF m
  <2>2. Waits(l, m, x, child)
    BY <2>1 DEF LocalsOK, Waits
  <2> QED
    BY <1>2, <2>2 DEF m, Suffice
<1> QED
  BY <1>1, <1>2

LEMMA ReceiveQueues ==
    ASSUME session \in Sessions, NEW l \in LocalsOK, NEW n \in Nodes(flow), NEW child \in Nodes(flow)
    PROVE  Queued(Receive(l, n, child)) \subseteq Queued(l) \cup {child}
<1> DEFINE m == Receive(l, n, child)
<1>1. Queues(l, m, child) \/ Waits(l, m, n, child)
  BY ReceiveCases
<1>2. Elems(Append(l.nodeExecutionQueue, child)) = Elems(l.nodeExecutionQueue) \cup {child}
  BY LocalFields, ElemsAppend
<1> HIDE DEF m
<1>3. \/ m.nodeExecutionQueue = Append(l.nodeExecutionQueue, child)
      \/ m.nodeExecutionQueue = l.nodeExecutionQueue
  BY <1>1 DEF Queues, Waits
<1>4. Queued(m) \subseteq Queued(l) \cup {child}
  BY <1>2, <1>3, QueuedIs
<1> QED
  BY <1>4 DEF m

(* One step of Passing().                                                  *)
Goes(k, n, ignored) == flow.edges[k].source = n /\ flow.edges[k].target \notin ignored

LEMMA PassingStep ==
    ASSUME session \in Sessions, NEW l, NEW n, NEW ignored, NEW after, Passing(after, l, n, ignored),
           NEW k \in 1..Len(flow.edges)
    PROVE  /\ after[0] = l
           /\ Goes(k, n, ignored) => after[k] = Receive(after[k - 1], n, flow.edges[k].target)
           /\ ~ Goes(k, n, ignored) => after[k] = after[k - 1]
<1>1. k \in 0..Len(flow.edges) /\ 0 \in 0..Len(flow.edges) /\ k # 0 /\ k - 1 \in 0..Len(flow.edges)
  BY EdgeTypes
<1>2. \A i \in 0..Len(flow.edges) :
         after[i] = IF i = 0 THEN l
                    ELSE IF Goes(i, n, ignored)
                         THEN Receive(after[i - 1], n, flow.edges[i].target)
                         ELSE after[i - 1]
  BY Zenon DEF Passing, Goes
<1> QED
  BY <1>1, <1>2

LEMMA PassingStart ==
    ASSUME session \in Sessions, NEW l, NEW n, NEW ignored, NEW after, Passing(after, l, n, ignored)
    PROVE  after[0] = l
<1>1. 0 \in 0..Len(flow.edges)
  BY EdgeTypes
<1> QED
  BY <1>1, Zenon DEF Passing

(* What is queued after the outputs were processed was queued before, or   *)
(* is a child that is not ruled out.                                       *)
LEMMA QueuedAfter ==
    ASSUME session \in Sessions, NEW l \in LocalsOK, NEW n \in Nodes(flow), NEW ignored, NEW nodes,
           Queued(l) \subseteq nodes,
           \A k \in 1..Len(flow.edges) : Goes(k, n, ignored) => flow.edges[k].target \in nodes
    PROVE  Queued(ReceiveAll(l, n, ignored)) \subseteq nodes
<1> DEFINE N == Len(flow.edges)
<1>1. N \in Nat
  BY EdgeTypes
<1>2. PICK after : /\ Passing(after, l, n, ignored) /\ ReceiveAll(l, n, ignored) = after[N]
                   /\ \A k \in 0..N : after[k] \in Onward(l)
  BY ReceiveAllSteps
<1> DEFINE good == {k \in 0..N : Queued(after[k]) \subseteq nodes}
<1>3. 0 \in good
  BY <1>1, <1>2, PassingStart
<1>4. ASSUME NEW k \in 1..N, k - 1 \in good
      PROVE  k \in good
  <2>1. k \in 0..N /\ k - 1 \in 0..N /\ Queued(after[k - 1]) \subseteq nodes
    BY <1>4
  <2>2. CASE ~ Goes(k, n, ignored)
    BY <2>1, <2>2, <1>2, PassingStep
  <2>3. CASE Goes(k, n, ignored)
    <3> DEFINE child == flow.edges[k].target
               before == after[k - 1]
    <3>1. before \in LocalsOK /\ child \in Nodes(flow) /\ child \in nodes
      BY <2>1, <2>3, <1>2, EdgeTypes DEF Onward
    <3>2. after[k] = Receive(before, n, child)
      BY <2>3, <1>2, PassingStep
    <3>3. Queued(before) \subseteq nodes
      BY <2>1
    <3> HIDE DEF child, before
    <3>4. Queued(Receive(before, n, child)) \subseteq Queued(before) \cup {child}
      BY <3>1, ReceiveQueues
    <3> QED
      BY <2>1, <3>1, <3>2, <3>3, <3>4
  <2> QED
    BY <2>2, <2>3
<1> HIDE DEF good
<1>5. N \in good
  BY <1>1, <1>3, <1>4, StepByStep
<1> QED
  BY <1>2, <1>5 DEF good

-----------------------------------------------------------------------------
(* Only the branches that were taken run.                                  *)

LEMMA MinIn ==
    ASSUME NEW S, S \subseteq Nat, S # {}
    PROVE  Min(S) \in S
<1>1. \E x \in S : \A y \in S : x <= y
  BY LeastOf
<1> QED
  BY <1>1 DEF Min

LEMMA EdgeIn ==
    ASSUME session \in Sessions, NEW k \in 1..Len(flow.edges)
    PROVE  flow.edges[k] \in EdgeSet(flow)
<1> DEFINE X == [source : Nodes(flow), handle : Nat, target : Nodes(flow)]
           es == flow.edges
<1>1. es \in Seq(X)
  BY FlowFacts DEF IsFlow
<1> HIDE DEF X, es
<1>2. DOMAIN es = 1..Len(es)
  BY <1>1
<1> QED
  BY <1>2 DEF EdgeSet, ToSet, es

LEMMA EdgeAt ==
    ASSUME session \in Sessions, NEW e \in EdgeSet(flow)
    PROVE  \E k \in 1..Len(flow.edges) : flow.edges[k] = e
<1> DEFINE X == [source : Nodes(flow), handle : Nat, target : Nodes(flow)]
           es == flow.edges
<1>1. es \in Seq(X)
  BY FlowFacts DEF IsFlow
<1> HIDE DEF X, es
<1>2. DOMAIN es = 1..Len(es)
  BY <1>1
<1> QED
  BY <1>2 DEF EdgeSet, ToSet, es

(* The edge of an outcome that is not fulfilled is ruled out.              *)
LEMMA RuledOut ==
    ASSUME session \in Sessions, NEW d \in Nodes(flow), Proper(d), NEW took,
           NEW h \in Handles(flow, d) \ took, NEW k \in 1..Len(flow.edges),
           flow.edges[k].source = d, flow.edges[k].handle = h
    PROVE  flow.edges[k].target \in Ignored(flow, d, took)
<1> DEFINE places == At(flow, d, h)
           j == Min(places)
<1>1. k \in places /\ places \subseteq 1..Len(flow.edges)
  BY DEF At
<1>2. places \subseteq Nat
  BY <1>1
<1>3. j \in places
  BY <1>1, <1>2, MinIn
<1>4. j \in 1..Len(flow.edges) /\ flow.edges[j].source = d /\ flow.edges[j].handle = h
  BY <1>3 DEF At
<1>5. flow.edges[j] = flow.edges[k]
  <2> HIDE DEF j
  <2>1. flow.edges[j] \in EdgeSet(flow) /\ flow.edges[k] \in EdgeSet(flow)
    BY <1>4, EdgeIn
  <2> QED
    BY <2>1, <1>4 DEF Proper
<1>6. First(flow, places).target = flow.edges[k].target
  BY <1>5 DEF First
<1> QED
  BY <1>1, <1>6 DEF Ignored

(* Taking a node moves it from the queue to the place where it runs.       *)
NextOf(l) == [l EXCEPT !.iterations = @ + 1, !.currentNode = Head(l.nodeExecutionQueue),
                       !.nodeExecutionQueue = Tail(@)]

LEMMA TakeMet ==
    ASSUME session \in Sessions, NEW l \in LocalsOK, l.nodeExecutionQueue # <<>>
    PROVE  /\ NextOf(l) \in LocalsOK
           /\ NextOf(l).agentFlowExecutedData = l.agentFlowExecutedData
           /\ NextOf(l).waitingNodes = l.waitingNodes
           /\ NextOf(l).currentNode = Head(l.nodeExecutionQueue)
           /\ NextOf(l).nodeExecutionQueue = Tail(l.nodeExecutionQueue)
           /\ Head(l.nodeExecutionQueue) \in Nodes(flow)
           /\ Queued(l) = {Head(l.nodeExecutionQueue)} \cup Queued(NextOf(l))
<1> DEFINE q == l.nodeExecutionQueue
           n == Head(q)
           next == NextOf(l)
<1>1. q \in Seq(Nodes(flow)) /\ q # <<>>
  BY LocalFields
<1>2. n \in Nodes(flow) /\ Tail(q) \in Seq(Nodes(flow))
  <2> HIDE DEF q
  <2> QED
    BY <1>1
<1>5. /\ next \in LocalsOK
      /\ next.agentFlowExecutedData = l.agentFlowExecutedData
      /\ next.waitingNodes = l.waitingNodes /\ next.currentNode = n
      /\ next.nodeExecutionQueue = Tail(q)
  <2> DEFINE count == l.iterations + 1
             rest == Tail(q)
             after == [l EXCEPT !.iterations = count, !.currentNode = n,
                                !.nodeExecutionQueue = rest]
  <2>1. next = after
    BY DEF LocalsOK, NextOf
  <2>2. count \in Nat /\ rest \in Seq(Nodes(flow))
    BY <1>2 DEF LocalsOK
  <2> HIDE DEF next, count, rest, n
  <2>3. /\ after \in LocalsOK
        /\ after.agentFlowExecutedData = l.agentFlowExecutedData
        /\ after.waitingNodes = l.waitingNodes /\ after.currentNode = n
        /\ after.nodeExecutionQueue = rest
    BY <1>2, <2>2 DEF LocalsOK, n
  <2> QED
    BY <2>1, <2>3 DEF rest
<1> HIDE DEF q
<1>3. n = q[1] /\ Len(q) \in Nat /\ Len(q) >= 1
      /\ Len(Tail(q)) = Len(q) - 1 /\ \A k \in 1..(Len(q) - 1) : Tail(q)[k] = q[k + 1]
  BY <1>1 DEF q
<1>4. Elems(q) = {n} \cup Elems(Tail(q))
  <2>1. ASSUME NEW k \in 1..Len(q)
        PROVE  q[k] \in {n} \cup Elems(Tail(q))
    <3>1. CASE k = 1
      BY <3>1, <1>3
    <3>2. CASE k # 1
      <4>1. k - 1 \in 1..(Len(q) - 1) /\ (k - 1) + 1 = k
        BY <3>2, <1>3
      <4> QED
        BY <4>1, <1>3 DEF Elems
    <3> QED
      BY <3>1, <3>2
  <2>2. n \in Elems(q)
    <3>1. 1 \in 1..Len(q)
      BY <1>3
    <3> QED
      BY <3>1, <1>3 DEF Elems
  <2>3. \A k \in 1..(Len(q) - 1) : k + 1 \in 1..Len(q)
    BY <1>3
  <2>4. Elems(Tail(q)) \subseteq Elems(q)
    BY <1>3, <2>3 DEF Elems
  <2> QED
    BY <2>1, <2>2, <2>4 DEF Elems
<1> QED
  BY <1>2, <1>4, <1>5, QueuedIs DEF q

(* The outputs of a node lead out of an enclosure by its outcome only.     *)
LEMMA OutputsWithin ==
    ASSUME session \in Sessions, NEW l \in LocalsOK, NEW n \in Nodes(flow), NEW took,
           NEW d \in Nodes(flow), NEW h, NEW nodes,
           Decides(d, h), Encloses(nodes, d, h),
           n \in nodes, Queued(l) \subseteq nodes, n = d => h \notin took
    PROVE  Queued(ProcessNodeOutputs(l, n, took)) \subseteq nodes
<1> DEFINE ignored == Ignored(flow, n, took)
           m == ReceiveAll(l, n, ignored)
<1>1. ASSUME NEW k \in 1..Len(flow.edges), Goes(k, n, ignored)
      PROVE  flow.edges[k].target \in nodes
  <2>1. flow.edges[k].source = n /\ flow.edges[k].target \notin ignored
    BY <1>1 DEF Goes
  <2>2. ~ (n = d /\ flow.edges[k].handle = h)
    BY <2>1, RuledOut DEF Decides
  <2>3. flow.edges[k] \in {e \in EdgeSet(flow) : e.source # d \/ e.handle # h}
    BY <2>1, <2>2, EdgeIn
  <2>4. <<n, flow.edges[k].target>> \in WaysRound(d, h)
    BY <2>1, <2>3 DEF WaysRound, Along
  <2> QED
    BY <2>4 DEF Encloses, Closed
<1> HIDE DEF ignored
<1>2. Queued(m) \subseteq nodes
  BY <1>1, QueuedAfter
<1>3. m \in LocalsOK
  BY ReceiveAllType DEF Onward
<1> HIDE DEF m
<1>4. Queued(LoopBack(m, n)) \subseteq nodes
  <2>1. CASE ~ (flow.kind[n] = "loop" /\ m.loopCounts[n] + 1 < flow.maxLoop[n])
    BY <2>1, <1>2 DEF LoopBack
  <2>2. CASE flow.kind[n] = "loop" /\ m.loopCounts[n] + 1 < flow.maxLoop[n]
    <3>1. LoopBack(m, n).nodeExecutionQueue = Append(m.nodeExecutionQueue, flow.back[n])
      BY <2>2, <1>3 DEF LoopBack, LocalsOK
    <3>2. flow.back[n] \in Nodes(flow)
      BY <2>2, FlowFacts DEF IsFlow
    <3>3. flow.back[n] \in nodes
      <4>1. <<n, flow.back[n]>> \in WaysRound(d, h)
        BY <2>2 DEF WaysRound, Backwards, Loops
      <4> QED
        BY <4>1 DEF Encloses, Closed
    <3>4. Elems(Append(m.nodeExecutionQueue, flow.back[n])) =
              Elems(m.nodeExecutionQueue) \cup {flow.back[n]}
      BY <3>2, <1>3, LocalFields, ElemsAppend
    <3>5. Queued(LoopBack(m, n)) = Elems(LoopBack(m, n).nodeExecutionQueue)
      BY QueuedIs
    <3>6. Queued(m) = Elems(m.nodeExecutionQueue)
      BY QueuedIs
    <3> QED
      BY <3>1, <3>3, <3>4, <3>5, <3>6, <1>2
  <2> QED
    BY <2>1, <2>2
<1> QED
  BY <1>4 DEF ProcessNodeOutputs, m, ignored

(* A run whose node returns.                                               *)
LEMMA ReturnsWithin ==
    ASSUME session \in Sessions, NEW l \in LocalsOK, NEW n \in Nodes(flow), n = l.currentNode,
           NEW took \in SUBSET Nat, NEW done,
           done = [l EXCEPT !.agentFlowExecutedData =
                                Append(Remembered(l), Entry(n, "FINISHED", took))],
           NEW d \in Nodes(flow), NEW h, NEW nodes,
           Decides(d, h), Encloses(nodes, d, h), RunWithin("executing", l, nodes, d, h)
    PROVE  RunWithin("looping", ProcessNodeOutputs(done, n, took), nodes, d, h)
<1> DEFINE e == Entry(n, "FINISHED", took)
           data == Append(Remembered(l), e)
           m == ProcessNodeOutputs(done, n, took)
<1>1. e \in Entries /\ e.node = n /\ e.took = took
  BY DEF Entry, Entries, Settled
<1> HIDE DEF e
<1>2. Remembered(l) \in Seq(Entries)
  BY RememberedType
<1>3. data \in Seq(Entries) /\ Visited(data) = Visited(Remembered(l)) \cup {n}
      /\ (Took(data, d, h) <=> Took(Remembered(l), d, h) \/ (n = d /\ h \in took))
  BY <1>1, <1>2, DataAppend
<1>4. d \in Nodes(flow) \ Asking
  BY DEF Decides, Deciders, Asking
<1>5. /\ Visited(Remembered(l)) \subseteq Visited(l.agentFlowExecutedData)
      /\ Took(l.agentFlowExecutedData, d, h) => Took(Remembered(l), d, h)
  BY <1>4, RememberedData
<1>6. done = [l EXCEPT !.agentFlowExecutedData = data]
  BY DEF e
<1> HIDE DEF data
<1>7. done \in LocalsOK /\ done.agentFlowExecutedData = data
      /\ done.nodeExecutionQueue = l.nodeExecutionQueue
  BY <1>3, <1>6 DEF LocalsOK
<1>8. m.agentFlowExecutedData = data
  <2>1. m \in Onward(done)
    BY <1>7, OutputsType
  <2> QED
    BY <2>1, <1>7 DEF Onward
<1>9. CASE Took(data, d, h)
  BY <1>8, <1>9 DEF RunWithin
<1>10. CASE ~ Took(data, d, h)
  <2>1. Met("executing", l) \subseteq nodes
    BY <1>3, <1>5, <1>10 DEF RunWithin
  <2>2. /\ Visited(l.agentFlowExecutedData) \subseteq nodes /\ n \in nodes
        /\ Queued(l) \subseteq nodes
    BY <2>1 DEF Met
  <2>3. Queued(done) \subseteq nodes
    BY <2>2, <1>7 DEF Queued
  <2>4. Queued(m) \subseteq nodes
    BY <2>2, <2>3, <1>3, <1>7, <1>10, OutputsWithin
  <2>5. Visited(data) \subseteq nodes
    BY <2>2, <1>3, <1>5
  <2> HIDE DEF m
  <2>6. RunWithin("looping", m, nodes, d, h)
    BY <2>4, <2>5, <1>8 DEF RunWithin, Met
  <2> QED
    BY <2>6 DEF m
<1> QED
  BY <1>9, <1>10

(* What a step does to the locals of a run and where it leaves it.         *)
Began(r) ==
    /\ ~ Cardinality(Starts(flow)) > 1
    /\ pc'[r] = "looping" /\ local'[r] = Locals(SetToSeq(Starts(flow)), <<>>, NoInput)

Resumed(r) ==
    /\ pc'[r] = "claiming"
    /\ \E input \in HumanInputs :
          Resumable(input) /\ local'[r] = Locals(<<input.node>>, Last(rows).data, input)

Taken(r) ==
    /\ pc[r] = "looping" /\ local[r].nodeExecutionQueue # <<>>
    /\ \/ pc'[r] = "executing" /\ local'[r] = NextOf(local[r])
       \/ /\ pc'[r] = "failing"
          /\ local'[r] = [NextOf(local[r]) EXCEPT !.agentFlowExecutedData =
                 Append(@, Entry(Head(local[r].nodeExecutionQueue), "TERMINATED", {}))]

Ended(r) ==
    /\ pc[r] = "executing"
    /\ \/ /\ pc'[r] = "closing" /\ MayAsk(local[r], local[r].currentNode)
          /\ local'[r] = [local[r] EXCEPT !.agentFlowExecutedData =
                 Append(Remembered(local[r]), Entry(local[r].currentNode, "STOPPED", {}))]
       \/ /\ pc'[r] = "failing"
          /\ \E status \in {"ERROR", "TERMINATED"} :
                local'[r] = [local[r] EXCEPT !.agentFlowExecutedData =
                    Append(@, Entry(local[r].currentNode, status, {}))]

Returned(r) ==
    /\ pc[r] = "executing" /\ pc'[r] = "looping"
    /\ \E took \in Results(local[r], local[r].currentNode) :
          local'[r] = ProcessNodeOutputs(
              [local[r] EXCEPT !.agentFlowExecutedData =
                  Append(Remembered(local[r]), Entry(local[r].currentNode, "FINISHED", took))],
              local[r].currentNode, took)

Stays(r) ==
    /\ local'[r] = local[r]
    /\ \/ pc'[r] = pc[r]
       \/ pc[r] = "claiming" /\ pc'[r] = "looping"
       \/ pc'[r] \notin {"looping", "executing", "claiming"}

LEMMA LocalSteps ==
    ASSUME TruthInv, [EngineNext]_engineVars, NEW r \in Runs
    PROVE  Stays(r) \/ Began(r) \/ Resumed(r) \/ Taken(r) \/ Ended(r) \/ Returned(r)
<1> USE DEF Goto, TruthInv, EngineTypeOK
<1>1. CASE UNCHANGED engineVars
  BY <1>1 DEF engineVars, Stays
<1>2. CASE Crash
  BY <1>2 DEF Crash, Stays, Live
<1>3. ASSUME NEW s \in Runs, BeginNew(s) \/ BeginResume(s) \/ Step(s) \/ Abort(s)
      PROVE  Stays(r) \/ Began(r) \/ Resumed(r) \/ Taken(r) \/ Ended(r) \/ Returned(r)
  <2>1. CASE BeginNew(s)
    BY <2>1 DEF BeginNew, Stays, Began
  <2>2. CASE BeginResume(s)
    BY <2>2 DEF BeginResume, Stays, Resumed
  <2>3. CASE Claim(s) \/ SaveFailure(s) \/ SaveEnd(s) \/ Abort(s)
    BY <2>3 DEF Claim, SaveFailure, SaveEnd, Abort, Stays
  <2>4. CASE Take(s)
    <3>1. CASE s # r
      <4>1. pc'[r] = pc[r] /\ local'[r] = local[r]
        BY <2>4, <3>1 DEF Take
      <4> QED
        BY <4>1 DEF Stays
    <3>2. CASE s = r
      <4>1. /\ pc[r] = "looping" /\ local[r].nodeExecutionQueue # <<>>
            /\ \/ pc' = [pc EXCEPT ![r] = "exhausted"] /\ local' = local
               \/ pc' = [pc EXCEPT ![r] = "executing"]
                  /\ local' = [local EXCEPT ![r] = NextOf(local[r])]
               \/ /\ pc' = [pc EXCEPT ![r] = "failing"]
                  /\ local' = [local EXCEPT ![r] = [NextOf(local[r]) EXCEPT !.agentFlowExecutedData =
                        Append(@, Entry(Head(local[r].nodeExecutionQueue), "TERMINATED", {}))]]
        BY <2>4, <3>2 DEF Take, NextOf
      <4>2. CASE pc' = [pc EXCEPT ![r] = "exhausted"] /\ local' = local
        BY <4>2 DEF Stays
      <4>3. CASE pc' # [pc EXCEPT ![r] = "exhausted"] \/ local' # local
        BY <4>1, <4>3 DEF Taken
      <4> QED
        BY <4>2, <4>3
    <3> QED
      BY <3>1, <3>2
  <2>5. CASE NodeThrows(s)
    <3>1. CASE s # r
      BY <2>5, <3>1 DEF NodeThrows, Stays
    <3>2. CASE s = r
      <4>1. pc[r] = "executing" /\ pc' = [pc EXCEPT ![r] = "failing"]
        BY <2>5, <3>2 DEF NodeThrows
      <4>2. \E status \in {"ERROR", "TERMINATED"} :
               local' = [local EXCEPT ![r].agentFlowExecutedData =
                             Append(@, Entry(local[r].currentNode, status, {}))]
        BY <2>5, <3>2 DEF NodeThrows
      <4> QED
        BY <4>1, <4>2 DEF Ended
    <3> QED
      BY <3>1, <3>2
  <2>6. CASE NodeReturns(s)
    <3>1. CASE s # r
      BY <2>6, <3>1 DEF NodeReturns, Stays
    <3>2. CASE s = r
      <4>1. pc[r] = "executing"
        BY <2>6, <3>2 DEF NodeReturns
      <4>2. \/ /\ MayAsk(local[r], local[r].currentNode) /\ pc' = [pc EXCEPT ![r] = "closing"]
               /\ local' = [local EXCEPT ![r].agentFlowExecutedData =
                      Append(Remembered(local[r]), Entry(local[r].currentNode, "STOPPED", {}))]
            \/ /\ pc' = [pc EXCEPT ![r] = "looping"]
               /\ \E took \in Results(local[r], local[r].currentNode) :
                     local' = [local EXCEPT ![r] = ProcessNodeOutputs(
                         [local[r] EXCEPT !.agentFlowExecutedData =
                             Append(Remembered(local[r]), Entry(local[r].currentNode, "FINISHED", took))],
                         local[r].currentNode, took)]
        BY <2>6, <3>2 DEF NodeReturns
      <4>3. CASE /\ MayAsk(local[r], local[r].currentNode) /\ pc' = [pc EXCEPT ![r] = "closing"]
                 /\ local' = [local EXCEPT ![r].agentFlowExecutedData =
                        Append(Remembered(local[r]), Entry(local[r].currentNode, "STOPPED", {}))]
        BY <4>1, <4>3 DEF Ended
      <4>4. CASE /\ pc' = [pc EXCEPT ![r] = "looping"]
                 /\ \E took \in Results(local[r], local[r].currentNode) :
                       local' = [local EXCEPT ![r] = ProcessNodeOutputs(
                           [local[r] EXCEPT !.agentFlowExecutedData =
                               Append(Remembered(local[r]), Entry(local[r].currentNode, "FINISHED", took))],
                           local[r].currentNode, took)]
        BY <4>1, <4>4 DEF Returned
      <4> QED
        BY <4>2, <4>3, <4>4
    <3> QED
      BY <3>1, <3>2
  <2> QED
    BY <1>3, <2>1, <2>2, <2>3, <2>4, <2>5, <2>6 DEF Step
<1> QED
  BY <1>1, <1>2, <1>3 DEF EngineNext

(* The rows show what rows showed before, or what a run has done.          *)
DataFrom(data) ==
    \/ data = <<>>
    \/ \E j \in 1..Len(rows) : data = rows[j].data
    \/ \E r \in Runs : data = local[r].agentFlowExecutedData

LEMMA RowData ==
    ASSUME TruthInv, [EngineNext]_engineVars, NEW i \in 1..Len(rows')
    PROVE  DataFrom(rows'[i].data)
<1> USE DEF TruthInv, EngineTypeOK
<1>1. CASE UNCHANGED engineVars \/ Crash
  BY <1>1 DEF engineVars, Crash, DataFrom
<1>2. ASSUME NEW s \in Runs, BeginNew(s) \/ BeginResume(s) \/ Step(s) \/ Abort(s)
      PROVE  DataFrom(rows'[i].data)
  <2>1. CASE BeginNew(s)
    <3>1. \/ rows' = rows
          \/ rows' = Append(rows, [state |-> "INPROGRESS", data |-> <<>>])
      BY <2>1 DEF BeginNew
    <3>2. CASE rows' = rows
      BY <3>2 DEF DataFrom
    <3>3. CASE rows' = Append(rows, [state |-> "INPROGRESS", data |-> <<>>])
      <4>1. i \in 1..Len(rows) \/ i = Len(rows) + 1
        BY <3>3
      <4>2. i \in 1..Len(rows) => rows'[i] = rows[i]
        BY <3>3
      <4>3. i = Len(rows) + 1 => rows'[i].data = <<>>
        BY <3>3
      <4> QED
        BY <4>1, <4>2, <4>3 DEF DataFrom
    <3> QED
      BY <3>1, <3>2, <3>3
  <2>2. CASE BeginResume(s) \/ Take(s) \/ NodeReturns(s) \/ NodeThrows(s) \/ Abort(s)
    <3>1. rows' = rows
      BY <2>2 DEF BeginResume, Take, NodeReturns, NodeThrows, Abort
    <3> QED
      BY <3>1 DEF DataFrom
  <2>3. CASE Claim(s)
    <3>1. rows' = [rows EXCEPT ![row[s]].state = "INPROGRESS"]
      BY <2>3 DEF Claim
    <3>2. i \in 1..Len(rows) /\ rows'[i].data = rows[i].data
      BY <3>1
    <3> QED
      BY <3>2 DEF DataFrom
  <2>4. CASE SaveFailure(s) \/ SaveEnd(s)
    <3>1. \E x : x.data = local[s].agentFlowExecutedData /\ rows' = [rows EXCEPT ![row[s]] = x]
      BY <2>4 DEF SaveFailure, SaveEnd
    <3>2. i \in 1..Len(rows) /\ (rows'[i].data = rows[i].data
                                 \/ rows'[i].data = local[s].agentFlowExecutedData)
      BY <3>1
    <3> QED
      BY <3>2 DEF DataFrom
  <2> QED
    BY <1>2, <2>1, <2>2, <2>3, <2>4 DEF Step
<1> QED
  BY <1>1, <1>2 DEF EngineNext

LEMMA LastRow ==
    ASSUME TruthInv, rows # <<>>
    PROVE  Len(rows) \in 1..Len(rows) /\ Last(rows) = rows[Len(rows)] /\ Last(rows).data \in Seq(Entries)
<1>1. rows \in Seq(RowsOK) /\ Len(rows) \in 1..Len(rows) /\ Last(rows) = rows[Len(rows)]
  BY DEF TruthInv, EngineTypeOK, RowsOK, Last
<1>2. rows[Len(rows)] \in RowsOK
  BY <1>1
<1> QED
  BY <1>1, <1>2 DEF RowsOK

LEMMA LocalsFields ==
    ASSUME NEW q, NEW data, NEW input
    PROVE  /\ Locals(q, data, input).nodeExecutionQueue = q
           /\ Locals(q, data, input).agentFlowExecutedData = data
           /\ Locals(q, data, input).waitingNodes = [n \in Nodes(flow) |-> {}]
           /\ Locals(q, data, input).currentNode = NoNode
BY DEF Locals

LEMMA RunStaysWithin ==
    ASSUME TruthInv, [EngineNext]_engineVars, NEW r \in Runs,
           NEW d \in Nodes(flow), NEW h, NEW nodes, Decides(d, h), Encloses(nodes, d, h),
           \A i \in 1..Len(rows) : DataWithin(rows[i].data, nodes, d, h),
           RunWithin(pc[r], local[r], nodes, d, h)
    PROVE  RunWithin(pc'[r], local'[r], nodes, d, h)
<1> DEFINE l == local[r]
           data == l.agentFlowExecutedData
           n == l.currentNode
<1>1. session \in Sessions /\ l \in LocalsOK /\ data \in Seq(Entries)
  BY LocalFields DEF TruthInv, EngineTypeOK
<1>2. pc[r] = "executing" => n \in Nodes(flow)
  BY <1>1, LocalFields DEF TruthInv, Stage, StageOf
<1>3. CASE Stays(r)
  <2>1. Met(pc'[r], l) \subseteq Met(pc[r], l)
    BY <1>3 DEF Stays, Met
  <2> QED
    BY <2>1, <1>3 DEF Stays, RunWithin
<1>4. CASE Began(r)
  <2>1. PICK x \in Nodes(flow) : Starts(flow) = {x} /\ SetToSeq(Starts(flow)) = <<x>>
    BY <1>1, <1>4, Starting DEF Began
  <2>2. local'[r] = Locals(<<x>>, <<>>, NoInput) /\ pc'[r] = "looping"
    BY <1>4, <2>1 DEF Began
  <2>3. Met(pc'[r], local'[r]) = {x}
    <3>1. Visited(<<>>) = {} /\ Elems(<<x>>) = {x}
      BY DEF Visited, Elems
    <3> QED
      BY <2>2, <3>1, LocalsFields, QueuedIs DEF Met
  <2> QED
    BY <2>1, <2>3 DEF Encloses, RunWithin
<1>5. CASE Resumed(r)
  <2>1. PICK input \in HumanInputs :
            Resumable(input) /\ local'[r] = Locals(<<input.node>>, Last(rows).data, input)
    BY <1>5 DEF Resumed
  <2>2. rows # <<>> /\ input.node \in Visited(Last(rows).data)
    BY <2>1 DEF Resumable, Visited
  <2>3. DataWithin(Last(rows).data, nodes, d, h)
    BY <2>2, LastRow
  <2>4. Met(pc'[r], local'[r]) = Visited(Last(rows).data)
    <3>1. Elems(<<input.node>>) = {input.node} /\ pc'[r] # "executing"
      BY <1>5 DEF Elems, Resumed
    <3> QED
      BY <2>1, <2>2, <3>1, LocalsFields, QueuedIs DEF Met
  <2>5. local'[r].agentFlowExecutedData = Last(rows).data
    BY <2>1, LocalsFields
  <2> QED
    BY <2>3, <2>4, <2>5 DEF DataWithin, RunWithin
<1>6. CASE Taken(r)
  <2> DEFINE x == Head(l.nodeExecutionQueue)
             e == Entry(x, "TERMINATED", {})
             next == NextOf(l)
  <2>1. /\ next.agentFlowExecutedData = data /\ next.currentNode = x
        /\ x \in Nodes(flow) /\ Queued(l) = {x} \cup Queued(next)
    BY <1>1, <1>6, TakeMet DEF Taken
  <2>2. e \in Entries /\ e.node = x /\ e.took = {}
    BY <2>1 DEF Entry, Entries, Settled
  <2>3. next \in LocalsOK
    BY <1>1, <1>6, TakeMet DEF Taken
  <2>4. CASE pc'[r] = "executing" /\ local'[r] = next
    <3> HIDE DEF next, x
    <3>1. Met(pc'[r], next) = Met(pc[r], l)
      BY <1>6, <2>1, <2>4 DEF Met, Taken
    <3> QED
      BY <2>1, <2>4, <3>1 DEF RunWithin
  <2>5. CASE /\ pc'[r] = "failing"
             /\ local'[r] = [next EXCEPT !.agentFlowExecutedData = Append(@, e)]
    <3> HIDE DEF next, x, e
    <3>1. local'[r].agentFlowExecutedData = Append(data, e) /\ Queued(local'[r]) = Queued(next)
      BY <2>1, <2>3, <2>5 DEF LocalsOK, Queued
    <3>2. /\ Visited(Append(data, e)) = Visited(data) \cup {x}
          /\ Took(Append(data, e), d, h) <=> Took(data, d, h)
      BY <1>1, <2>2, DataAppend
    <3>3. Met(pc'[r], local'[r]) \subseteq Met(pc[r], l)
      BY <2>1, <2>5, <3>1, <3>2 DEF Met
    <3> QED
      BY <3>1, <3>2, <3>3 DEF RunWithin
  <2> QED
    BY <1>6, <2>4, <2>5 DEF Taken
<1>7. CASE Ended(r)
  <2>1. n \in Nodes(flow) /\ d \in Nodes(flow) \ Asking
    BY <1>2, <1>7 DEF Ended, Decides, Deciders, Asking
  <2>2. PICK status \in {"STOPPED", "ERROR", "TERMINATED"}, before \in {Remembered(l), data} :
            /\ pc'[r] # "executing"
            /\ local'[r] = [l EXCEPT !.agentFlowExecutedData =
                                Append(before, Entry(n, status, {}))]
    <3>1. CASE /\ pc'[r] = "closing"
               /\ local'[r] = [l EXCEPT !.agentFlowExecutedData =
                      Append(Remembered(l), Entry(n, "STOPPED", {}))]
      BY <3>1
    <3>2. CASE /\ pc'[r] = "failing"
               /\ \E status \in {"ERROR", "TERMINATED"} :
                     local'[r] = [l EXCEPT !.agentFlowExecutedData =
                                      Append(@, Entry(n, status, {}))]
      BY <3>2
    <3> QED
      BY <1>7, <3>1, <3>2 DEF Ended
  <2> DEFINE e == Entry(n, status, {})
  <2>3. e \in Entries /\ e.node = n /\ e.took = {}
    BY <2>1 DEF Entry, Entries, Settled
  <2>4. before \in Seq(Entries) /\ Visited(before) \subseteq Visited(data)
        /\ (Took(data, d, h) => Took(before, d, h))
    BY <1>1, <2>1, RememberedType, RememberedData
  <2> HIDE DEF e
  <2>5. /\ Visited(Append(before, e)) = Visited(before) \cup {n}
        /\ Took(Append(before, e), d, h) <=> Took(before, d, h)
    BY <2>3, <2>4, DataAppend
  <2>6. local'[r].agentFlowExecutedData = Append(before, e) /\ Queued(local'[r]) = Queued(l)
    BY <1>1, <2>2 DEF LocalsOK, Queued, e
  <2>7. Met(pc'[r], local'[r]) \subseteq Met(pc[r], l)
    BY <1>7, <2>2, <2>4, <2>5, <2>6 DEF Met, Ended
  <2> QED
    BY <2>4, <2>5, <2>6, <2>7 DEF RunWithin
<1>8. CASE Returned(r)
  <2>1. PICK took \in Results(l, n) :
            local'[r] = ProcessNodeOutputs(
                [l EXCEPT !.agentFlowExecutedData = Append(Remembered(l), Entry(n, "FINISHED", took))],
                n, took)
    BY <1>8 DEF Returned
  <2>2. n \in Nodes(flow) /\ pc[r] = "executing" /\ pc'[r] = "looping"
    BY <1>2, <1>8 DEF Returned
  <2>3. took \in SUBSET Nat
    BY <1>1, <2>1, <2>2, ResultsType
  <2> QED
    BY <1>1, <2>1, <2>2, <2>3, ReturnsWithin
<1> QED
  BY <1>3, <1>4, <1>5, <1>6, <1>7, <1>8, LocalSteps

LEMMA InitialBranch ==
    ASSUME EngineInit
    PROVE  BranchInv
<1>1. rows = <<>> /\ \A r \in Runs : pc[r] = "idle" /\ local[r] = Locals(<<>>, <<>>, NoInput)
  BY DEF EngineInit
<1>2. \A r \in Runs : Met(pc[r], local[r]) = {}
  BY <1>1, LocalsFields DEF Met, Visited, Queued
<1> QED
  BY <1>1, <1>2 DEF BranchInv, DataWithin, RunWithin

LEMMA SameFlow ==
    ASSUME session' = session
    PROVE  /\ flow' = flow
           /\ \A nodes, d, h : Encloses(nodes, d, h)' <=> Encloses(nodes, d, h)
           /\ \A d, h : Decides(d, h)' <=> Decides(d, h)
<1>1. flow' = flow
  BY DEF flow
<1>2. \A d, h : WaysRound(d, h)' = WaysRound(d, h)
  BY <1>1 DEF WaysRound, Backwards, Loops
<1>3. \A d : Proper(d)' <=> Proper(d)
  BY <1>1 DEF Proper
<1> QED
  BY <1>1, <1>2, <1>3 DEF Encloses, Decides

LEMMA BranchStep ==
    ASSUME TruthInv, BranchInv, [EngineNext]_engineVars
    PROVE  BranchInv'
<1>1. session' = session
  BY SessionStays
<1>2. flow' = flow
  BY <1>1, SameFlow
<1> SUFFICES ASSUME NEW nodes \in SUBSET Nodes(flow), NEW d \in Nodes(flow),
                    NEW h \in Handles(flow, d), Decides(d, h), Encloses(nodes, d, h)
             PROVE  /\ \A i \in 1..Len(rows') : DataWithin(rows'[i].data, nodes, d, h)
                    /\ \A r \in Runs : RunWithin(pc'[r], local'[r], nodes, d, h)
  BY <1>1, <1>2, SameFlow DEF BranchInv
<1>3. /\ \A i \in 1..Len(rows) : DataWithin(rows[i].data, nodes, d, h)
      /\ \A r \in Runs : RunWithin(pc[r], local[r], nodes, d, h)
  BY DEF BranchInv
<1>4. ASSUME NEW i \in 1..Len(rows')
      PROVE  DataWithin(rows'[i].data, nodes, d, h)
  <2>1. DataFrom(rows'[i].data)
    BY RowData
  <2>2. DataWithin(<<>>, nodes, d, h)
    BY DEF DataWithin, Visited
  <2>3. \A r \in Runs : DataWithin(local[r].agentFlowExecutedData, nodes, d, h)
    BY <1>3 DEF DataWithin, RunWithin, Met
  <2> QED
    BY <1>3, <2>1, <2>2, <2>3 DEF DataFrom
<1>5. \A r \in Runs : RunWithin(pc'[r], local'[r], nodes, d, h)
  BY <1>3, RunStaysWithin
<1> QED
  BY <1>4, <1>5

(* Only the branches that were taken run, in every flow, whatever joins    *)
(* and loops lie between, and however requests overlap, stop, resume, fail *)
(* and crash (buildAgentflow.ts 523-559).                                  *)
THEOREM BranchesAreTaken == EngineSpec => []BranchTaken
<1>1. EngineInit => BranchInv
  BY InitialBranch
<1>2. TruthInv /\ BranchInv /\ [EngineNext]_engineVars => BranchInv'
  BY BranchStep
<1>3. BranchInv => BranchTaken
  <2> SUFFICES ASSUME BranchInv, NEW i \in 1..Len(rows), NEW d \in Nodes(flow),
                      flow.kind[d] \in Deciders \ {"human"}, Proper(d),
                      NEW h \in Handles(flow, d), ~ Took(rows[i].data, d, h),
                      NEW n \in Nodes(flow), Ran(i, n)
               PROVE  n \in Reachable(Starts(flow), WaysRound(d, h))
    BY DEF BranchTaken
  <2>1. n \in Visited(rows[i].data)
    BY DEF Ran, Visited
  <2>2. ASSUME NEW nodes \in SUBSET Nodes(flow), Starts(flow) \subseteq nodes,
               Closed(nodes, WaysRound(d, h))
        PROVE  n \in nodes
    <3>1. Decides(d, h) /\ Encloses(nodes, d, h)
      BY <2>2 DEF Decides, Encloses
    <3> QED
      BY <2>1, <3>1 DEF BranchInv, DataWithin
  <2> QED
    BY <2>2 DEF Reachable
<1> QED
  BY <1>1, <1>2, <1>3, TruthAlways, PTL DEF EngineSpec

-----------------------------------------------------------------------------
(* Whether a node runs is decided by the inputs it gets.                   *)

LEMMA MoreSuffices ==
    ASSUME NEW n, NEW less, NEW more, less \subseteq more, HasRequired(flow, n, less)
    PROVE  HasRequired(flow, n, more)
BY DEF HasRequired

LEMMA NothingSuffices ==
    ASSUME session \in Sessions, NEW n \in Nodes(flow) \ Starts(flow)
    PROVE  ~ HasRequired(flow, n, {})
<1>1. PICK s : s \in Sources(flow, n)
  BY DEF Starts
<1>2. CASE s \in Expected(flow, n)
  BY <1>2 DEF HasRequired
<1>3. CASE s \notin Expected(flow, n)
  <2> DEFINE conditional == Sources(flow, n) \ Expected(flow, n)
             group == {t \in conditional : ConditionParent(flow, t) = ConditionParent(flow, s)}
  <2>1. ConditionParent(flow, s) \in {ConditionParent(flow, t) : t \in conditional}
    BY <1>1, <1>3
  <2>2. group \in ConditionalGroups(flow, n)
    BY <2>1 DEF ConditionalGroups
  <2> HIDE DEF group
  <2> QED
    BY <2>2 DEF HasRequired
<1> QED
  BY <1>2, <1>3

(* The inputs a node gets from one more entry.                             *)
From(x, n, ignored) == IF x \in Sources(flow, n) /\ n \notin ignored THEN {x} ELSE {}

LEMMA GotAppend ==
    ASSUME NEW data \in Seq(Entries), NEW e \in Entries, NEW n
    PROVE  Got(Append(data, e), n) = Got(data, n) \cup From(e.node, n, Ignored(flow, e.node, e.took))
<1>1. \A d : Got(d, n) = {s \in Sources(flow, n) : \E x \in Elems(d) :
                            x.node = s /\ n \notin Ignored(flow, s, x.took)}
  BY DEF Got, Elems
<1>2. Elems(Append(data, e)) = Elems(data) \cup {e}
  BY ElemsAppend
<1>3. \A s \in Sources(flow, n) :
         (\E x \in Elems(data) \cup {e} : x.node = s /\ n \notin Ignored(flow, s, x.took))
         <=> \/ \E x \in Elems(data) : x.node = s /\ n \notin Ignored(flow, s, x.took)
             \/ s = e.node /\ n \notin Ignored(flow, e.node, e.took)
  OBVIOUS
<1> QED
  BY <1>1, <1>2, <1>3 DEF From

LEMMA GotNothing == \A n : Got(<<>>, n) = {}
BY DEF Got

Delivered(l, m, x, child) ==
    /\ \A n \in Nodes(flow) : n # child => m.waitingNodes[n] = l.waitingNodes[n]
    /\ \/ /\ Suffice(l, x, child) /\ Queued(m) = Queued(l) \cup {child}
          /\ m.waitingNodes[child] = {}
       \/ /\ ~ Suffice(l, x, child) /\ Queued(m) = Queued(l)
          /\ m.waitingNodes[child] = l.waitingNodes[child] \cup {x}

LEMMA ReceiveDelivers ==
    ASSUME session \in Sessions, NEW l \in LocalsOK, NEW x \in Nodes(flow), NEW child \in Nodes(flow)
    PROVE  Delivered(l, Receive(l, x, child), x, child)
<1> DEFINE m == Receive(l, x, child)
<1>1. \/ Suffice(l, x, child) /\ Queues(l, m, child)
      \/ ~ Suffice(l, x, child) /\ Waits(l, m, x, child)
  BY ReceiveCases
<1>2. Elems(Append(l.nodeExecutionQueue, child)) = Elems(l.nodeExecutionQueue) \cup {child}
  BY LocalFields, ElemsAppend
<1>3. l.waitingNodes \in [Nodes(flow) -> SUBSET Nodes(flow)]
  BY LocalFields
<1>4. Queued(m) = Elems(m.nodeExecutionQueue) /\ Queued(l) = Elems(l.nodeExecutionQueue)
  BY QueuedIs
<1> HIDE DEF m
<1>5. Delivered(l, m, x, child)
  BY <1>1, <1>2, <1>3, <1>4 DEF Queues, Waits, Delivered
<1> QED
  BY <1>5 DEF m

LEMMA ReceiveFeeds ==
    ASSUME session \in Sessions, NEW l \in LocalsOK, NEW x \in Nodes(flow), NEW child \in Nodes(flow),
           NEW met, NEW n \in Nodes(flow), NEW got, FedWith(l, met \cup Queued(l), n, got)
    PROVE  FedWith(Receive(l, x, child), met \cup Queued(Receive(l, x, child)), n,
                   IF n = child THEN got \cup {x} ELSE got)
<1> DEFINE m == Receive(l, x, child)
           received == l.waitingNodes[child] \cup {x}
<1>0. Delivered(l, m, x, child)
  BY ReceiveDelivers
<1> HIDE DEF m
<1>1. /\ n # child => m.waitingNodes[n] = l.waitingNodes[n]
      /\ \/ /\ HasRequired(flow, child, received) /\ Queued(m) = Queued(l) \cup {child}
            /\ m.waitingNodes[child] = {}
         \/ /\ ~ HasRequired(flow, child, received) /\ Queued(m) = Queued(l)
            /\ m.waitingNodes[child] = received
  BY <1>0 DEF Delivered, Suffice
<1>2. CASE n = child
  <2>1. received \subseteq got \cup {x} /\ got \subseteq got \cup {x}
    BY <1>2 DEF FedWith
  <2>2. HasRequired(flow, n, received) => HasRequired(flow, n, got \cup {x})
    BY <2>1, MoreSuffices
  <2>3. HasRequired(flow, n, got) => HasRequired(flow, n, got \cup {x})
    BY <2>1, MoreSuffices
  <2>4. n \notin met \cup Queued(l) => received = got \cup {x}
    BY <1>2 DEF FedWith
  <2> HIDE DEF received
  <2>5. FedWith(m, met \cup Queued(m), n, got \cup {x})
    BY <1>1, <1>2, <2>1, <2>2, <2>3, <2>4 DEF FedWith
  <2> QED
    BY <1>2, <2>5 DEF m
<1>3. CASE n # child
  <2>1. m.waitingNodes[n] = l.waitingNodes[n] /\ (n \in Queued(m) <=> n \in Queued(l))
    BY <1>1, <1>3
  <2>2. FedWith(m, met \cup Queued(m), n, got)
    BY <2>1 DEF FedWith
  <2> QED
    BY <1>3, <2>2 DEF m
<1> QED
  BY <1>2, <1>3

(* What a node passes on reaches each child once or more, or not at all.   *)
LEMMA OutputsFeed ==
    ASSUME session \in Sessions, NEW l \in LocalsOK, NEW x \in Nodes(flow), NEW ignored, NEW met,
           NEW n \in Nodes(flow), NEW got, FedWith(l, met \cup Queued(l), n, got)
    PROVE  FedWith(ReceiveAll(l, x, ignored), met \cup Queued(ReceiveAll(l, x, ignored)), n,
                   got \cup From(x, n, ignored))
<1> DEFINE N == Len(flow.edges)
           Upto(k) == IF \E j \in 1..k : Goes(j, x, ignored) /\ flow.edges[j].target = n
                      THEN {x} ELSE {}
<1>1. N \in Nat
  BY EdgeTypes
<1>2. PICK after : /\ Passing(after, l, x, ignored) /\ ReceiveAll(l, x, ignored) = after[N]
                   /\ \A k \in 0..N : after[k] \in Onward(l)
  BY ReceiveAllSteps
<1> DEFINE good == {k \in 0..N : FedWith(after[k], met \cup Queued(after[k]), n, got \cup Upto(k))}
<1>3. 0 \in good
  <2>1. after[0] = l /\ got \cup Upto(0) = got
    BY <1>2, PassingStart
  <2> HIDE DEF Upto
  <2>2. FedWith(after[0], met \cup Queued(after[0]), n, got \cup Upto(0))
    BY <2>1
  <2> QED
    BY <1>1, <2>2
<1>4. ASSUME NEW k \in 1..N, k - 1 \in good
      PROVE  k \in good
  <2>1. /\ k \in 0..N /\ k - 1 \in 0..N
        /\ FedWith(after[k - 1], met \cup Queued(after[k - 1]), n, got \cup Upto(k - 1))
    BY <1>4
  <2>2. \A j : j \in 1..k <=> j \in 1..(k - 1) \/ j = k
    BY <2>1
  <2>3. CASE ~ Goes(k, x, ignored)
    <3>1. Upto(k) = Upto(k - 1)
      BY <2>2, <2>3
    <3>2. after[k] = after[k - 1]
      BY <2>3, <1>2, PassingStep
    <3> HIDE DEF Upto
    <3> QED
      BY <2>1, <3>1, <3>2
  <2>4. CASE Goes(k, x, ignored)
    <3> DEFINE child == flow.edges[k].target
               before == after[k - 1]
               had == got \cup Upto(k - 1)
    <3>1. before \in LocalsOK /\ child \in Nodes(flow)
      BY <2>1, <1>2, EdgeTypes DEF Onward
    <3>2. after[k] = Receive(before, x, child)
      BY <2>4, <1>2, PassingStep
    <3>3. Upto(k) = Upto(k - 1) \cup (IF n = child THEN {x} ELSE {})
      BY <2>2, <2>4
    <3>4. got \cup Upto(k) = IF n = child THEN had \cup {x} ELSE had
      <4> HIDE DEF Upto
      <4> QED
        BY <3>3
    <3>5. FedWith(before, met \cup Queued(before), n, had)
      BY <2>1
    <3> HIDE DEF child, before, had, Upto
    <3>6. FedWith(Receive(before, x, child), met \cup Queued(Receive(before, x, child)), n,
                  IF n = child THEN had \cup {x} ELSE had)
      BY <3>1, <3>5, ReceiveFeeds
    <3> QED
      BY <2>1, <3>2, <3>4, <3>6
  <2> QED
    BY <2>3, <2>4
<1>5. N \in good
  <2> HIDE DEF good
  <2> QED
    BY <1>1, <1>3, <1>4, StepByStep
<1>6. Upto(N) = From(x, n, ignored)
  <2>1. (\E j \in 1..N : Goes(j, x, ignored) /\ flow.edges[j].target = n)
        <=> x \in Sources(flow, n) /\ n \notin ignored
    <3>1. ASSUME NEW j \in 1..N, Goes(j, x, ignored), flow.edges[j].target = n
          PROVE  x \in Sources(flow, n) /\ n \notin ignored
      BY <3>1, EdgeIn DEF Sources, Goes
    <3>2. ASSUME x \in Sources(flow, n), n \notin ignored
          PROVE  \E j \in 1..N : Goes(j, x, ignored) /\ flow.edges[j].target = n
      <4>1. PICK e \in EdgeSet(flow) : e.source = x /\ e.target = n
        BY <3>2 DEF Sources
      <4>2. PICK j \in 1..N : flow.edges[j] = e
        BY EdgeAt
      <4> QED
        BY <3>2, <4>1, <4>2 DEF Goes
    <3> QED
      BY <3>1, <3>2
  <2> QED
    BY <2>1 DEF From
<1> QED
  BY <1>2, <1>5, <1>6

(* A node of a straight flow returns: its children have what they need, or *)
(* wait.                                                                   *)
LEMMA StraightRun ==
    ASSUME session \in Sessions, Straight, NEW l \in LocalsOK
    PROVE  /\ Remembered(l) = l.agentFlowExecutedData
           /\ \A n \in Nodes(flow) : ~ MayAsk(l, n)
           /\ \A n \in Nodes(flow) : \A took :
                 ProcessNodeOutputs(l, n, took) = ReceiveAll(l, n, Ignored(flow, n, took))
<1>1. HumanInputs = {}
  BY DEF Straight, HumanInputs
<1>2. l.currentHumanInput = NoInput
  BY <1>1 DEF LocalsOK
<1>3. Remembered(l) = l.agentFlowExecutedData
  BY <1>2 DEF Remembered, Answered
<1>4. \A n \in Nodes(flow) : ~ MayAsk(l, n)
  BY DEF MayAsk, AsksHuman, Straight, Asking
<1>5. ASSUME NEW n \in Nodes(flow), NEW took
      PROVE  ProcessNodeOutputs(l, n, took) = ReceiveAll(l, n, Ignored(flow, n, took))
  <2>1. flow.kind[n] # "loop"
    BY DEF Straight, Loops
  <2> QED
    BY <2>1 DEF ProcessNodeOutputs, LoopBack
<1> QED
  BY <1>3, <1>4, <1>5

LEMMA ReturnsFed ==
    ASSUME session \in Sessions, Straight, NEW l \in LocalsOK, NEW x \in Nodes(flow), x = l.currentNode,
           NEW took \in SUBSET Nat, NEW done,
           done = [l EXCEPT !.agentFlowExecutedData =
                                Append(Remembered(l), Entry(x, "FINISHED", took))],
           Fed("executing", l)
    PROVE  Fed("looping", ProcessNodeOutputs(done, x, took))
<1> DEFINE e == Entry(x, "FINISHED", took)
           data == Append(l.agentFlowExecutedData, e)
           ignored == Ignored(flow, x, took)
           m == ReceiveAll(done, x, ignored)
           met == Visited(data)
<1>1. e \in Entries /\ e.node = x /\ e.took = took
  BY DEF Entry, Entries, Settled
<1>2. l.agentFlowExecutedData \in Seq(Entries)
  BY LocalFields
<1>3. data \in Seq(Entries) /\ met = Visited(l.agentFlowExecutedData) \cup {x}
  <2> HIDE DEF e
  <2> QED
    BY <1>1, <1>2, DataAppend
<1>4. done = [l EXCEPT !.agentFlowExecutedData = data]
  BY StraightRun
<1>5. \A n : Got(data, n) = Got(l.agentFlowExecutedData, n) \cup From(x, n, ignored)
  <2> HIDE DEF e
  <2> QED
    BY <1>1, <1>2, GotAppend
<1> HIDE DEF data
<1>6. done \in LocalsOK /\ done.agentFlowExecutedData = data
      /\ done.nodeExecutionQueue = l.nodeExecutionQueue /\ done.waitingNodes = l.waitingNodes
  BY <1>3, <1>4 DEF LocalsOK
<1>7. ProcessNodeOutputs(done, x, took) = m
  BY <1>6, StraightRun
<1>8. m.agentFlowExecutedData = data
  <2>1. m \in Onward(done)
    BY <1>6, ReceiveAllType
  <2> QED
    BY <2>1, <1>6 DEF Onward
<1> HIDE DEF ignored
<1>9. ASSUME NEW n \in Nodes(flow) \ Starts(flow)
      PROVE  FedWith(m, met \cup Queued(m), n, Got(data, n))
  <2> DEFINE got == Got(l.agentFlowExecutedData, n)
  <2>1. Met("executing", l) = met \cup Queued(done)
    BY <1>3, <1>6 DEF Met, Queued
  <2>2. FedWith(l, met \cup Queued(done), n, got)
    BY <2>1 DEF Fed
  <2>3. FedWith(done, met \cup Queued(done), n, got)
    BY <2>2, <1>6 DEF FedWith
  <2> HIDE DEF got, met
  <2>4. FedWith(m, met \cup Queued(m), n, got \cup From(x, n, ignored))
    BY <2>3, <1>6, OutputsFeed
  <2> QED
    BY <2>4, <1>5 DEF got
<1>10. Met("looping", m) = met \cup Queued(m)
  BY <1>8 DEF Met
<1> HIDE DEF m, met
<1>11. Fed("looping", m)
  BY <1>8, <1>9, <1>10 DEF Fed
<1> QED
  BY <1>7, <1>11

LEMMA RunStaysFed ==
    ASSUME TruthInv, Straight, [EngineNext]_engineVars, NEW r \in Runs, pc[r] # "claiming",
           pc[r] \in {"looping", "executing"} => Fed(pc[r], local[r])
    PROVE  /\ pc'[r] # "claiming"
           /\ pc'[r] \in {"looping", "executing"} => Fed(pc'[r], local'[r])
<1> DEFINE l == local[r]
<1>1. session \in Sessions /\ l \in LocalsOK
  BY DEF TruthInv, EngineTypeOK
<1>2. CASE Stays(r)
  BY <1>2 DEF Stays
<1>3. CASE Began(r)
  <2>1. PICK x \in Nodes(flow) : Starts(flow) = {x} /\ SetToSeq(Starts(flow)) = <<x>>
    BY <1>1, <1>3, Starting DEF Began
  <2> DEFINE m == Locals(<<x>>, <<>>, NoInput)
  <2>2. local'[r] = m /\ pc'[r] = "looping"
    BY <1>3, <2>1 DEF Began
  <2>3. Met("looping", m) = {x}
    <3>1. Visited(<<>>) = {} /\ Elems(<<x>>) = {x}
      BY DEF Visited, Elems
    <3> QED
      BY <3>1, LocalsFields, QueuedIs DEF Met
  <2>4. m.waitingNodes = [n \in Nodes(flow) |-> {}] /\ m.agentFlowExecutedData = <<>>
    BY DEF Locals
  <2> HIDE DEF m
  <2>5. ASSUME NEW n \in Nodes(flow) \ Starts(flow)
        PROVE  FedWith(m, Met("looping", m), n, Got(m.agentFlowExecutedData, n))
    <3>1. ~ HasRequired(flow, n, {}) /\ Got(<<>>, n) = {} /\ n \notin Met("looping", m)
      BY <1>1, <2>1, <2>3, NothingSuffices, GotNothing
    <3> QED
      BY <3>1, <2>4 DEF FedWith
  <2> QED
    BY <2>2, <2>5 DEF Fed
<1>4. CASE Resumed(r)
  BY <1>4 DEF Resumed, HumanInputs, Straight
<1>5. CASE Taken(r)
  <2> DEFINE next == NextOf(l)
  <2>1. /\ next.agentFlowExecutedData = l.agentFlowExecutedData
        /\ next.waitingNodes = l.waitingNodes
        /\ Queued(l) = {next.currentNode} \cup Queued(next)
    BY <1>1, <1>5, TakeMet DEF Taken
  <2> HIDE DEF next
  <2>2. Met("executing", next) = Met("looping", l)
    BY <2>1 DEF Met
  <2>3. Fed("executing", next)
    BY <2>1, <2>2, <1>5 DEF Fed, FedWith, Taken
  <2> QED
    BY <1>5, <2>3 DEF Taken, next
<1>6. CASE Ended(r)
  BY <1>6 DEF Ended
<1>7. CASE Returned(r)
  <2>1. l.currentNode \in Nodes(flow)
    BY <1>1, <1>7, LocalFields DEF Returned, TruthInv, Stage, StageOf
  <2>2. PICK took \in Results(l, l.currentNode) :
            local'[r] = ProcessNodeOutputs(
                [l EXCEPT !.agentFlowExecutedData =
                     Append(Remembered(l), Entry(l.currentNode, "FINISHED", took))],
                l.currentNode, took)
    BY <1>7 DEF Returned
  <2>3. took \in SUBSET Nat
    BY <1>1, <2>1, <2>2, ResultsType
  <2>4. Fed("executing", l)
    BY <1>7 DEF Returned
  <2>5. Fed("looping", local'[r])
    BY <1>1, <2>1, <2>2, <2>3, <2>4, ReturnsFed
  <2> QED
    BY <1>7, <2>5 DEF Returned
<1> QED
  BY <1>2, <1>3, <1>4, <1>5, <1>6, <1>7, LocalSteps

(* A row that is FINISHED was, or shows what a run did whose queue is      *)
(* empty.                                                                  *)
LEMMA RowFinished ==
    ASSUME TruthInv, [EngineNext]_engineVars, NEW i \in 1..Len(rows'), rows'[i].state = "FINISHED"
    PROVE  \/ i \in 1..Len(rows) /\ rows'[i] = rows[i]
           \/ \E r \in Runs : /\ pc[r] = "looping" /\ local[r].nodeExecutionQueue = <<>>
                              /\ rows'[i].data = local[r].agentFlowExecutedData
<1> USE DEF TruthInv, EngineTypeOK
<1>1. CASE UNCHANGED engineVars \/ Crash
  BY <1>1 DEF engineVars, Crash
<1>2. ASSUME NEW s \in Runs, BeginNew(s) \/ BeginResume(s) \/ Step(s) \/ Abort(s)
      PROVE  \/ i \in 1..Len(rows) /\ rows'[i] = rows[i]
             \/ \E r \in Runs : /\ pc[r] = "looping" /\ local[r].nodeExecutionQueue = <<>>
                                /\ rows'[i].data = local[r].agentFlowExecutedData
  <2>1. CASE BeginNew(s)
    <3>1. \/ rows' = rows
          \/ rows' = Append(rows, [state |-> "INPROGRESS", data |-> <<>>])
      BY <2>1 DEF BeginNew
    <3>2. CASE rows' = Append(rows, [state |-> "INPROGRESS", data |-> <<>>])
      <4>1. i \in 1..Len(rows) \/ i = Len(rows) + 1
        BY <3>2
      <4>2. i \in 1..Len(rows) => rows'[i] = rows[i]
        BY <3>2
      <4>3. i = Len(rows) + 1 => rows'[i].state = "INPROGRESS"
        BY <3>2
      <4> QED
        BY <4>1, <4>2, <4>3
    <3> QED
      BY <3>1, <3>2
  <2>2. CASE BeginResume(s) \/ Take(s) \/ NodeReturns(s) \/ NodeThrows(s) \/ Abort(s)
    <3>1. rows' = rows
      BY <2>2 DEF BeginResume, Take, NodeReturns, NodeThrows, Abort
    <3> QED
      BY <3>1
  <2>3. CASE Claim(s)
    <3>1. rows' = [rows EXCEPT ![row[s]].state = "INPROGRESS"]
      BY <2>3 DEF Claim
    <3>2. i \in 1..Len(rows) /\ (rows'[i] = rows[i] \/ rows'[i].state = "INPROGRESS")
      BY <3>1
    <3> QED
      BY <3>2
  <2>4. CASE SaveFailure(s)
    <3> DEFINE data == local[s].agentFlowExecutedData
    <3>1. rows' = [rows EXCEPT ![row[s]] = [state |-> Last(data).status, data |-> data]]
      BY <2>4 DEF SaveFailure
    <3>2. Last(data).status \in {"ERROR", "TERMINATED"}
      BY <2>4 DEF SaveFailure, Stage, StageOf
    <3> HIDE DEF data
    <3>3. i \in 1..Len(rows) /\ (rows'[i] = rows[i] \/ rows'[i].state = Last(data).status)
      BY <3>1
    <3> QED
      BY <3>2, <3>3
  <2>5. CASE SaveEnd(s)
    <3> DEFINE data == local[s].agentFlowExecutedData
    <3>1. rows' = [rows EXCEPT ![row[s]] = [state |-> StatusOf(data), data |-> data]]
      BY <2>5 DEF SaveEnd
    <3>2. \/ pc[s] = "closing"
          \/ pc[s] = "looping" /\ local[s].nodeExecutionQueue = <<>>
      BY <2>5 DEF SaveEnd
    <3>3. pc[s] = "closing" => StatusOf(data) # "FINISHED"
      <4>1. pc[s] = "closing" => "STOPPED" \in Statuses(data)
        BY DEF Stage, StageOf
      <4> QED
        BY <4>1 DEF Statuses, StatusOf
    <3>4. \/ rows'[i] = rows[i]
          \/ rows'[i].state = StatusOf(data) /\ rows'[i].data = data
      <4> HIDE DEF data
      <4> QED
        BY <3>1
    <3>5. i \in 1..Len(rows)
      BY <3>1
    <3> QED
      BY <3>2, <3>3, <3>4, <3>5
  <2> QED
    BY <1>2, <2>1, <2>2, <2>3, <2>4, <2>5 DEF Step
<1> QED
  BY <1>1, <1>2 DEF EngineNext

LEMMA SameInputs ==
    ASSUME session' = session
    PROVE  /\ flow' = flow /\ (Straight' <=> Straight)
           /\ \A place, l : Fed(place, l)' <=> Fed(place, l)
           /\ \A data : DataFed(data)' <=> DataFed(data)
<1>1. flow' = flow
  BY DEF flow
<1>2. Loops' = Loops /\ Asking' = Asking
  BY <1>1 DEF Loops, Asking
<1>3. \A data, n : Got(data, n)' = Got(data, n)
  BY <1>1 DEF Got
<1>4. \A l, met, n, got : FedWith(l, met, n, got)' <=> FedWith(l, met, n, got)
  BY <1>1 DEF FedWith
<1>5. \A place, l : Met(place, l)' = Met(place, l)
  BY DEF Met, Visited, Queued
<1>6. \A data : Visited(data)' = Visited(data)
  BY DEF Visited
<1> QED
  BY <1>1, <1>2, <1>3, <1>4, <1>5, <1>6 DEF Straight, Fed, DataFed

LEMMA InitialInputs ==
    ASSUME EngineInit
    PROVE  InputsInv
BY DEF EngineInit, InputsInv

(* A run whose queue is empty has done all it met.                         *)
LEMMA QueueEmpty ==
    ASSUME NEW l, l.nodeExecutionQueue = <<>>
    PROVE  Met("looping", l) = Visited(l.agentFlowExecutedData)
<1>1. Queued(l) = {}
  BY DEF Queued
<1> QED
  BY <1>1 DEF Met

LEMMA InputsStep ==
    ASSUME TruthInv, InputsInv, [EngineNext]_engineVars
    PROVE  InputsInv'
<1>1. session' = session
  BY SessionStays
<1> SUFFICES ASSUME Straight
             PROVE  /\ \A r \in Runs : pc'[r] # "claiming"
                    /\ \A r \in Runs : pc'[r] \in {"looping", "executing"} => Fed(pc'[r], local'[r])
                    /\ \A i \in 1..Len(rows') :
                          rows'[i].state = "FINISHED" => DataFed(rows'[i].data)
  BY <1>1, SameInputs DEF InputsInv
<1>2. /\ \A r \in Runs : pc[r] # "claiming"
      /\ \A r \in Runs : pc[r] \in {"looping", "executing"} => Fed(pc[r], local[r])
      /\ \A i \in 1..Len(rows) : rows[i].state = "FINISHED" => DataFed(rows[i].data)
  BY DEF InputsInv
<1>3. ASSUME NEW r \in Runs
      PROVE  /\ pc'[r] # "claiming"
             /\ pc'[r] \in {"looping", "executing"} => Fed(pc'[r], local'[r])
  BY <1>2, RunStaysFed
<1>4. ASSUME NEW i \in 1..Len(rows'), rows'[i].state = "FINISHED"
      PROVE  DataFed(rows'[i].data)
  <2>1. CASE i \in 1..Len(rows) /\ rows'[i] = rows[i]
    BY <1>2, <1>4, <2>1
  <2>2. ASSUME NEW r \in Runs, pc[r] = "looping", local[r].nodeExecutionQueue = <<>>,
               rows'[i].data = local[r].agentFlowExecutedData
        PROVE  DataFed(rows'[i].data)
    <3> DEFINE l == local[r]
    <3>1. Fed("looping", l) /\ Met("looping", l) = Visited(l.agentFlowExecutedData)
      BY <1>2, <2>2, QueueEmpty
    <3> HIDE DEF l
    <3>2. DataFed(l.agentFlowExecutedData)
      BY <3>1 DEF Fed, FedWith, DataFed
    <3> QED
      BY <2>2, <3>2 DEF l
  <2> QED
    BY <1>4, <2>1, <2>2, RowFinished
<1> QED
  BY <1>3, <1>4

LEMMA InputsAlways == EngineSpec => [](TruthInv /\ InputsInv)
<1>1. EngineInit => InputsInv
  BY InitialInputs
<1>2. TruthInv /\ InputsInv /\ [EngineNext]_engineVars => InputsInv'
  BY InputsStep
<1> QED
  BY <1>1, <1>2, TruthAlways, PTL DEF EngineSpec

(* In a flow without loops that asks nobody, a node of a finished          *)
(* execution ran exactly when the inputs it got suffice, in every flow and *)
(* whatever order the queue brought them in (buildAgentflow.ts 604-626).   *)
THEOREM InputsAreDecisive == EngineSpec => []InputsDecide
<1>1. InputsInv => InputsDecide
  <2> SUFFICES ASSUME InputsInv, Straight, NEW i \in 1..Len(rows), rows[i].state = "FINISHED",
                      NEW n \in Nodes(flow) \ Starts(flow)
               PROVE  Ran(i, n) <=> HasRequired(flow, n, Arrived(i, n))
    BY DEF InputsDecide, Straight
  <2>1. DataFed(rows[i].data)
    BY DEF InputsInv
  <2>2. Arrived(i, n) = Got(rows[i].data, n)
    BY DEF Arrived, Got
  <2>3. Ran(i, n) <=> n \in Visited(rows[i].data)
    BY DEF Ran, Visited
  <2> QED
    BY <2>1, <2>2, <2>3 DEF DataFed
<1> QED
  BY <1>1, InputsAlways, PTL

-----------------------------------------------------------------------------
(* What depends on no decision runs once.                                  *)

(* No decision lies above the inputs of an unconditional node.             *)
LEMMA SourcesBefore ==
    ASSUME session \in Sessions, NEW n \in Unconditional, NEW s \in Sources(flow, n)
    PROVE  s \in Unconditional /\ flow.kind[s] \notin Deciders
<1> DEFINE decided == {e.target : e \in {g \in EdgeSet(flow) : flow.kind[g.source] \in Deciders}}
           ways == Along(EdgeSet(flow))
           closed == {nodes \in SUBSET Nodes(flow) : decided \subseteq nodes /\ Closed(nodes, ways)}
<1>1. PICK e \in EdgeSet(flow) : e.source = s /\ e.target = n
  BY DEF Sources
<1>2. s \in Nodes(flow)
  <2>1. PICK k \in 1..Len(flow.edges) : flow.edges[k] = e
    BY EdgeAt
  <2> QED
    BY <1>1, <2>1, EdgeTypes
<1>3. Reachable(decided, ways) = {m \in Nodes(flow) : \A nodes \in closed : m \in nodes}
  BY Zenon DEF Reachable
<1>4. n \in Nodes(flow) /\ n \notin Reachable(decided, ways)
  BY DEF Unconditional
<1>5. PICK nodes \in closed : n \notin nodes
  BY <1>3, <1>4
<1>6. decided \subseteq nodes /\ Closed(nodes, ways)
  BY <1>5
<1>7. flow.kind[s] \notin Deciders
  BY <1>1, <1>5, <1>6
<1>8. s \notin nodes
  <2>1. <<s, n>> \in ways
    BY <1>1 DEF Along
  <2> HIDE DEF ways
  <2> QED
    BY <1>5, <1>6, <2>1 DEF Closed
<1>9. s \notin Reachable(decided, ways)
  BY <1>3, <1>5, <1>8
<1> QED
  BY <1>2, <1>7, <1>9 DEF Unconditional

(* findConditionParent() finds none above it.                              *)
Climbing(f, up, n) ==
    f = [k \in 0..Cardinality(Nodes(flow)) |-> IF k = 0 THEN n ELSE up[f[k - 1]]]

LEMMA ClimbsWithin ==
    ASSUME session \in Sessions, NEW T, NEW n \in T, NEW up, \A m \in T : up[m] \in T
    PROVE  (CHOOSE f : Climbing(f, up, n))[Cardinality(Nodes(flow))] \in T
<1> DEFINE N == Cardinality(Nodes(flow))
           g == [a \in T \X (1..N) |-> up[a[1]]]
<1>1. N \in Nat
  BY FlowFacts, FS_CardinalityType
<1>2. g \in [T \X (1..N) -> T] /\ \A m \in T, k \in 1..N : g[<<m, k>>] = up[m]
  OBVIOUS
<1> HIDE DEF g, N
<1>3. PICK f : Iterated(f, T, N, n, g)
  BY <1>1, <1>2, Iterates
<1>4. \A k \in 0..N : f[k] = IF k = 0 THEN n ELSE up[f[k - 1]]
  <2> SUFFICES ASSUME NEW k \in 0..N, k # 0 PROVE f[k] = up[f[k - 1]]
    BY <1>3 DEF Iterated
  <2>1. k \in 1..N /\ k - 1 \in 0..N
    BY <1>1
  <2>2. f[k - 1] \in T /\ f[k] = g[<<f[k - 1], k>>]
    BY <1>3, <2>1 DEF Iterated
  <2> QED
    BY <1>2, <2>1, <2>2
<1>5. f = [k \in 0..N |-> f[k]]
  BY <1>3 DEF Iterated
<1>6. Climbing(f, up, n)
  BY <1>4, <1>5, Zenon DEF Climbing, N
<1> DEFINE climb == CHOOSE a : Climbing(a, up, n)
<1>7. Climbing(climb, up, n)
  BY <1>6, Zenon
<1> HIDE DEF climb
<1>8. \A k \in 0..N : climb[k] = IF k = 0 THEN n ELSE up[climb[k - 1]]
  BY <1>7, Zenon DEF Climbing, N
<1> DEFINE good == {k \in 0..N : climb[k] \in T}
<1>9. 0 \in good
  BY <1>1, <1>8
<1>10. ASSUME NEW k \in 1..N, k - 1 \in good
       PROVE  k \in good
  <2>1. k \in 0..N /\ k # 0 /\ climb[k - 1] \in T
    BY <1>1, <1>10
  <2> QED
    BY <1>8, <2>1
<1> HIDE DEF good
<1>11. N \in good
  BY <1>1, <1>9, <1>10, StepByStep
<1> QED
  BY <1>11 DEF good, climb, N

LEMMA NoParent ==
    ASSUME session \in Sessions, NEW n \in Unconditional, flow.kind[n] \notin Deciders
    PROVE  ConditionParent(flow, n) = NoNode
<1> DEFINE T == {m \in Unconditional : flow.kind[m] \notin Deciders}
           size == Cardinality(Nodes(flow))
           up == [m \in Nodes(flow) |-> IF flow.kind[m] \in Deciders \/ Into(flow, m) = {}
                                        THEN m ELSE First(flow, Into(flow, m)).source]
           climb == CHOOSE f : Climbing(f, up, n)
<1>1. ASSUME NEW m \in T
      PROVE  up[m] \in T
  <2>1. m \in Nodes(flow) /\ m \in Unconditional
    BY DEF Unconditional
  <2>2. CASE Into(flow, m) = {}
    BY <2>1, <2>2
  <2>3. CASE Into(flow, m) # {}
    <3> DEFINE k == Min(Into(flow, m))
    <3>1. Into(flow, m) \subseteq 1..Len(flow.edges) /\ Into(flow, m) \subseteq Nat
      BY DEF Into
    <3>2. k \in Into(flow, m)
      BY <2>3, <3>1, MinIn
    <3> HIDE DEF k
    <3>3. k \in 1..Len(flow.edges) /\ flow.edges[k].target = m /\ flow.edges[k] \in EdgeSet(flow)
      BY <3>2, EdgeIn DEF Into
    <3>4. flow.edges[k].source \in Sources(flow, m)
      BY <3>3 DEF Sources
    <3>5. flow.edges[k].source \in T
      BY <2>1, <3>4, SourcesBefore
    <3>6. up[m] = flow.edges[k].source
      BY <2>1, <2>3 DEF First, k
    <3> QED
      BY <3>5, <3>6
  <2> QED
    BY <2>2, <2>3
<1>2. n \in T
  OBVIOUS
<1> HIDE DEF T, up
<1>3. climb[size] \in T
  BY <1>1, <1>2, ClimbsWithin
<1>4. ConditionParent(flow, n) = IF flow.kind[climb[size]] \in Deciders THEN climb[size] ELSE NoNode
  BY Zenon DEF ConditionParent, Climbing, up
<1> HIDE DEF climb, size
<1> QED
  BY <1>3, <1>4 DEF T

(* It waits for all its inputs.                                            *)
LEMMA NeedsAll ==
    ASSUME session \in Sessions, NEW n \in Unconditional, NEW got
    PROVE  HasRequired(flow, n, got) <=> Sources(flow, n) \subseteq got
<1>1. \A s \in Sources(flow, n) : ConditionParent(flow, s) = NoNode
  BY SourcesBefore, NoParent
<1>2. Expected(flow, n) = Sources(flow, n)
  BY <1>1 DEF Expected
<1>3. ConditionalGroups(flow, n) = {}
  BY <1>2 DEF ConditionalGroups
<1> QED
  BY <1>2, <1>3 DEF HasRequired

(* The queue with one more node.                                           *)
LEMMA OnceAppend ==
    ASSUME NEW R, NEW s \in Seq(R), NEW e \in R, NEW n, OnceIn(s, n), e = n => n \notin Elems(s)
    PROVE  OnceIn(Append(s, e), n)
<1> DEFINE t == Append(s, e)
<1>1. Len(t) = Len(s) + 1 /\ t[Len(s) + 1] = e /\ \A k \in 1..Len(s) : t[k] = s[k]
  OBVIOUS
<1>2. \A k \in 1..(Len(s) + 1) : k \in 1..Len(s) \/ k = Len(s) + 1
  OBVIOUS
<1>3. Len(s) \in Nat
  OBVIOUS
<1> HIDE DEF t
<1>4. ASSUME NEW j \in 1..Len(t), NEW k \in 1..Len(t), t[j] = n, t[k] = n
      PROVE  j = k
  <2>1. CASE j \in 1..Len(s) /\ k \in 1..Len(s)
    BY <1>1, <1>4, <2>1 DEF OnceIn
  <2>2. CASE j \notin 1..Len(s) \/ k \notin 1..Len(s)
    BY <1>1, <1>2, <1>4, <2>2 DEF Elems
  <2> QED
    BY <2>1, <2>2
<1> QED
  BY <1>4 DEF OnceIn, t

LEMMA OnceTail ==
    ASSUME NEW R, NEW s \in Seq(R), s # <<>>, NEW n, OnceIn(s, n)
    PROVE  OnceIn(Tail(s), n) /\ (Head(s) = n => n \notin Elems(Tail(s)))
<1> DEFINE t == Tail(s)
<1>1. Len(t) = Len(s) - 1 /\ Len(s) \in Nat /\ \A k \in 1..Len(t) : t[k] = s[k + 1]
  OBVIOUS
<1>2. Head(s) = s[1]
  OBVIOUS
<1> HIDE DEF t
<1>3. \A k \in 1..Len(t) : k + 1 \in 1..Len(s) /\ 1 \in 1..Len(s) /\ k + 1 # 1
  BY <1>1
<1>4. ASSUME NEW j \in 1..Len(t), NEW k \in 1..Len(t), t[j] = n, t[k] = n
      PROVE  j = k
  <2>1. j + 1 = k + 1
    BY <1>1, <1>3, <1>4 DEF OnceIn
  <2> QED
    BY <2>1
<1>5. OnceIn(t, n)
  BY <1>4 DEF OnceIn
<1>6. ASSUME Head(s) = n, NEW k \in 1..Len(t), t[k] = n
      PROVE  FALSE
  BY <1>1, <1>2, <1>3, <1>6 DEF OnceIn
<1> QED
  BY <1>5, <1>6 DEF Elems, t

LEMMA OnceData ==
    ASSUME NEW data \in Seq(Entries), NEW e \in Entries, NEW n, OnceInData(data, n),
           e.node = n => n \notin Visited(data)
    PROVE  OnceInData(Append(data, e), n)
<1> DEFINE t == Append(data, e)
<1>1. /\ Len(t) = Len(data) + 1 /\ t[Len(data) + 1] = e
      /\ \A k \in 1..Len(data) : t[k] = data[k]
  OBVIOUS
<1>2. \A k \in 1..(Len(data) + 1) : k \in 1..Len(data) \/ k = Len(data) + 1
  OBVIOUS
<1>3. Len(data) \in Nat
  OBVIOUS
<1> HIDE DEF t
<1>4. ASSUME NEW j \in 1..Len(t), NEW k \in 1..Len(t), t[j].node = n, t[k].node = n
      PROVE  j = k
  <2>1. CASE j \in 1..Len(data) /\ k \in 1..Len(data)
    BY <1>1, <1>4, <2>1 DEF OnceInData
  <2>2. CASE j \notin 1..Len(data) \/ k \notin 1..Len(data)
    BY <1>1, <1>2, <1>4, <2>2 DEF Visited
  <2> QED
    BY <2>1, <2>2
<1> QED
  BY <1>4 DEF OnceInData, t

(* The outputs of x queue n at most once, and only n with x above it.      *)
QueuedOnce(l, m, x, n, k) ==
    /\ Queued(l) \subseteq Queued(m)
    /\ OnceIn(m.nodeExecutionQueue, n)
    /\ n \in Queued(m) => n \in Queued(l) \/ \E j \in 1..k : flow.edges[j].source = x
                                                              /\ flow.edges[j].target = n

LEMMA OutputsOnce ==
    ASSUME session \in Sessions, Drawn, NEW l \in LocalsOK, NEW x \in Nodes(flow), NEW ignored,
           NEW n \in Unconditional, OnceIn(l.nodeExecutionQueue, n),
           x \in Sources(flow, n) => n \notin Queued(l)
    PROVE  LET m == ReceiveAll(l, x, ignored)
           IN  /\ Queued(l) \subseteq Queued(m)
               /\ OnceIn(m.nodeExecutionQueue, n)
               /\ n \in Queued(m) => n \in Queued(l) \/ x \in Sources(flow, n)
<1> DEFINE N == Len(flow.edges)
<1>1. N \in Nat
  BY EdgeTypes
<1>2. PICK after : /\ Passing(after, l, x, ignored) /\ ReceiveAll(l, x, ignored) = after[N]
                   /\ \A k \in 0..N : after[k] \in Onward(l)
  BY ReceiveAllSteps
<1> DEFINE good == {k \in 0..N : QueuedOnce(l, after[k], x, n, k)}
<1>3. 0 \in good
  <2>1. after[0] = l
    BY <1>2, PassingStart
  <2> QED
    BY <1>1, <2>1 DEF QueuedOnce
<1>4. ASSUME NEW k \in 1..N, k - 1 \in good
      PROVE  k \in good
  <2> DEFINE child == flow.edges[k].target
             b == after[k - 1]
  <2>1. k \in 0..N /\ k - 1 \in 0..N /\ 1..(k - 1) \subseteq 1..k /\ k \in 1..k /\ k \notin 1..(k - 1)
        /\ 1..k \subseteq 1..N
    BY <1>1
  <2>2. QueuedOnce(l, b, x, n, k - 1)
    BY <1>4
  <2>3. b \in LocalsOK /\ child \in Nodes(flow)
    BY <1>2, <2>1, EdgeTypes DEF Onward
  <2>4. CASE after[k] = b
    <3> HIDE DEF b
    <3>1. QueuedOnce(l, b, x, n, k)
      BY <2>1, <2>2 DEF QueuedOnce
    <3> QED
      BY <2>1, <2>4, <3>1
  <2>5. CASE Goes(k, x, ignored) /\ after[k] # b
    <3> DEFINE m == Receive(b, x, child)
    <3>1. after[k] = m
      BY <2>5, <1>2, PassingStep
    <3>2. \/ m.nodeExecutionQueue = b.nodeExecutionQueue
          \/ m.nodeExecutionQueue = Append(b.nodeExecutionQueue, child)
      <4> HIDE DEF child, b
      <4>1. \/ Suffice(b, x, child) /\ Queues(b, m, child)
            \/ ~ Suffice(b, x, child) /\ Waits(b, m, x, child)
        BY <2>3, ReceiveCases
      <4> HIDE DEF m
      <4> QED
        BY <4>1 DEF Queues, Waits
    <3> HIDE DEF m, b
    <3>3. CASE m.nodeExecutionQueue = b.nodeExecutionQueue
      <4>1. QueuedOnce(l, m, x, n, k)
        BY <2>1, <2>2, <3>3 DEF QueuedOnce, Queued
      <4> QED
        BY <2>1, <3>1, <4>1
    <3>4. CASE m.nodeExecutionQueue = Append(b.nodeExecutionQueue, child)
      <4>1. b.nodeExecutionQueue \in Seq(Nodes(flow))
        BY <2>3, LocalFields
      <4>2. Elems(Append(b.nodeExecutionQueue, child)) = Elems(b.nodeExecutionQueue) \cup {child}
        BY <2>3, <4>1, ElemsAppend
      <4>3. Queued(m) = Queued(b) \cup {child}
        BY <3>4, <4>2, QueuedIs
      <4>4. child = n => n \notin Queued(b)
        <5> SUFFICES ASSUME child = n, n \in Queued(b) PROVE FALSE
          OBVIOUS
        <5>1. x \in Sources(flow, n)
          BY <2>5, EdgeIn DEF Goes, Sources
        <5>2. flow.kind[x] \notin Deciders
          BY <5>1, SourcesBefore
        <5>3. PICK j \in 1..(k - 1) : flow.edges[j].source = x /\ flow.edges[j].target = n
          BY <2>2, <5>1 DEF QueuedOnce
        <5>4. j = k
          BY <2>1, <2>5, <5>2, <5>3 DEF Drawn, Goes
        <5> QED
          BY <2>1, <5>3, <5>4
      <4>5. OnceIn(m.nodeExecutionQueue, n)
        BY <2>2, <2>3, <3>4, <4>1, <4>4, OnceAppend, QueuedIs DEF QueuedOnce
      <4>6. QueuedOnce(l, m, x, n, k)
        BY <2>1, <2>2, <2>5, <4>3, <4>5 DEF QueuedOnce, Goes
      <4> QED
        BY <2>1, <3>1, <4>6
    <3> QED
      BY <3>2, <3>3, <3>4
  <2>6. ~ Goes(k, x, ignored) => after[k] = b
    BY <1>2, PassingStep
  <2> QED
    BY <2>4, <2>5, <2>6
<1> HIDE DEF good
<1>5. N \in good
  BY <1>1, <1>3, <1>4, StepByStep
<1>6. QueuedOnce(l, after[N], x, n, N)
  BY <1>5 DEF good
<1>7. (\E j \in 1..N : flow.edges[j].source = x /\ flow.edges[j].target = n) => x \in Sources(flow, n)
  BY EdgeIn DEF Sources
<1> QED
  BY <1>2, <1>6, <1>7 DEF QueuedOnce

(* The start depends on no decision.                                       *)
LEMMA StartUnconditional ==
    ASSUME session \in Sessions, NEW s \in Starts(flow)
    PROVE  s \in Unconditional
<1> DEFINE decided == {e.target : e \in {g \in EdgeSet(flow) : flow.kind[g.source] \in Deciders}}
           ways == Along(EdgeSet(flow))
           nodes == Nodes(flow) \ {s}
<1>1. s \in Nodes(flow) /\ \A e \in EdgeSet(flow) : e.target # s
  BY DEF Starts, Sources
<1>2. \A e \in EdgeSet(flow) : e.target \in Nodes(flow)
  <2> SUFFICES ASSUME NEW e \in EdgeSet(flow) PROVE e.target \in Nodes(flow)
    OBVIOUS
  <2>1. PICK k \in 1..Len(flow.edges) : flow.edges[k] = e
    BY EdgeAt
  <2> QED
    BY <2>1, EdgeTypes
<1>3. decided \subseteq nodes
  BY <1>1, <1>2
<1>4. Closed(nodes, ways)
  <2>1. ASSUME NEW w \in ways
        PROVE  w[2] \in nodes
    <3>1. PICK e \in EdgeSet(flow) : w = <<e.source, e.target>>
      BY DEF Along
    <3>2. w[2] = e.target
      BY <3>1
    <3> QED
      BY <1>1, <1>2, <3>2
  <2> HIDE DEF ways, nodes
  <2> QED
    BY <2>1 DEF Closed
<1>5. s \notin Reachable(decided, ways)
  <2>1. nodes \in SUBSET Nodes(flow) /\ s \notin nodes
    OBVIOUS
  <2> HIDE DEF decided, ways, nodes
  <2> QED
    BY <1>3, <1>4, <2>1 DEF Reachable
<1> QED
  BY <1>1, <1>5 DEF Unconditional

(* A child of the node that runs was not met before: it waits for it.      *)
LEMMA ChildNotMet ==
    ASSUME session \in Sessions, NEW l, Fed("executing", l), Once("executing", l),
           NEW n \in Unconditional, l.currentNode \in Sources(flow, n)
    PROVE  n \notin Met("executing", l)
<1> DEFINE x == l.currentNode
           data == l.agentFlowExecutedData
<1>1. x \in Unconditional
  BY SourcesBefore
<1>2. x \notin Visited(data)
  BY <1>1 DEF Once, OnceAt
<1>3. x \notin Got(data, n)
  BY <1>2 DEF Got, Visited
<1>4. n \in Nodes(flow) \ Starts(flow)
  BY DEF Starts, Unconditional
<1>5. ~ HasRequired(flow, n, Got(data, n))
  BY <1>3, NeedsAll
<1> QED
  BY <1>4, <1>5 DEF Fed, FedWith

LEMMA ReturnsOnce ==
    ASSUME session \in Sessions, Straight, Drawn, NEW l \in LocalsOK, NEW x \in Nodes(flow),
           x = l.currentNode, NEW took \in SUBSET Nat, NEW done,
           done = [l EXCEPT !.agentFlowExecutedData =
                                Append(Remembered(l), Entry(x, "FINISHED", took))],
           Fed("executing", l), Once("executing", l)
    PROVE  Once("looping", ProcessNodeOutputs(done, x, took))
<1> DEFINE e == Entry(x, "FINISHED", took)
           old == l.agentFlowExecutedData
           data == Append(old, e)
           ignored == Ignored(flow, x, took)
           m == ReceiveAll(done, x, ignored)
<1>1. e \in Entries /\ e.node = x
  BY DEF Entry, Entries, Settled
<1>2. old \in Seq(Entries)
  BY LocalFields
<1>3. data \in Seq(Entries) /\ Visited(data) = Visited(old) \cup {x}
  <2> HIDE DEF e
  <2> QED
    BY <1>1, <1>2, DataAppend
<1>4. \A n : OnceInData(old, n) /\ (x = n => n \notin Visited(old)) => OnceInData(data, n)
  <2> HIDE DEF e
  <2> QED
    BY <1>1, <1>2, OnceData
<1>5. done = [l EXCEPT !.agentFlowExecutedData = data]
  BY StraightRun
<1> HIDE DEF data
<1>6. done \in LocalsOK /\ done.agentFlowExecutedData = data
      /\ done.nodeExecutionQueue = l.nodeExecutionQueue
  BY <1>3, <1>5 DEF LocalsOK
<1>7. ProcessNodeOutputs(done, x, took) = m
  BY <1>6, StraightRun
<1>8. m.agentFlowExecutedData = data
  <2>1. m \in Onward(done)
    BY <1>6, ReceiveAllType
  <2> QED
    BY <2>1, <1>6 DEF Onward
<1> HIDE DEF ignored
<1>9. Queued(done) = Queued(l) /\ Met("executing", l) = Visited(data) \cup Queued(l)
  BY <1>3, <1>6 DEF Met, Queued
<1>10. ASSUME NEW n \in Unconditional
       PROVE  Queued(l) \subseteq Queued(m) /\ OnceAt("looping", m, n)
  <2>1. OnceAt("executing", l, n)
    BY DEF Once
  <2>2. x \in Sources(flow, n) => n \notin Met("executing", l)
    BY ChildNotMet
  <2>3. OnceIn(done.nodeExecutionQueue, n) /\ (x \in Sources(flow, n) => n \notin Queued(done))
    BY <1>6, <1>9, <2>1, <2>2 DEF OnceAt
  <2>4. /\ Queued(done) \subseteq Queued(m) /\ OnceIn(m.nodeExecutionQueue, n)
        /\ n \in Queued(m) => n \in Queued(done) \/ x \in Sources(flow, n)
    BY <1>6, <2>3, OutputsOnce
  <2> HIDE DEF m
  <2>5. OnceInData(data, n)
    BY <1>4, <2>1 DEF OnceAt
  <2>6. n \in Queued(m) => n \notin Visited(data)
    BY <1>3, <1>9, <2>1, <2>2, <2>4 DEF OnceAt
  <2> QED
    BY <1>8, <1>9, <2>4, <2>5, <2>6 DEF OnceAt
<1>11. Queued(l) \subseteq Queued(m)
  <2>1. PICK s : s \in Starts(flow)
    BY FlowFacts DEF IsFlow
  <2>2. s \in Unconditional
    BY <2>1, StartUnconditional
  <2> QED
    BY <1>10, <2>2
<1>12. Starts(flow) \subseteq Met("looping", m)
  <2> HIDE DEF m
  <2>1. Met("looping", m) = Visited(data) \cup Queued(m)
    BY <1>8 DEF Met
  <2> QED
    BY <1>9, <1>11, <2>1 DEF Once
<1> HIDE DEF m
<1> QED
  BY <1>7, <1>10, <1>12 DEF Once

LEMMA RunStaysOnce ==
    ASSUME TruthInv, Straight, Drawn, [EngineNext]_engineVars, NEW r \in Runs, pc[r] # "claiming",
           pc[r] \in {"looping", "executing"} => Fed(pc[r], local[r]) /\ Once(pc[r], local[r]),
           pc'[r] \in {"looping", "executing"}
    PROVE  Once(pc'[r], local'[r])
<1> DEFINE l == local[r]
<1>1. session \in Sessions /\ l \in LocalsOK
  BY DEF TruthInv, EngineTypeOK
<1>2. CASE Stays(r)
  BY <1>2 DEF Stays
<1>3. CASE Began(r)
  <2>1. PICK x \in Nodes(flow) : Starts(flow) = {x} /\ SetToSeq(Starts(flow)) = <<x>>
    BY <1>1, <1>3, Starting DEF Began
  <2> DEFINE m == Locals(<<x>>, <<>>, NoInput)
  <2>2. local'[r] = m /\ pc'[r] = "looping"
    BY <1>3, <2>1 DEF Began
  <2>3. m.nodeExecutionQueue = <<x>> /\ m.agentFlowExecutedData = <<>>
    BY DEF Locals
  <2> HIDE DEF m
  <2>4. Queued(m) = {x} /\ Visited(<<>>) = {}
    BY <2>3 DEF Queued, Visited
  <2>5. Starts(flow) \subseteq Met("looping", m)
    BY <2>1, <2>4 DEF Met
  <2>6. \A n : OnceAt("looping", m, n)
    BY <2>3, <2>4 DEF OnceAt, OnceIn, OnceInData
  <2> QED
    BY <2>2, <2>5, <2>6 DEF Once
<1>4. CASE Resumed(r)
  BY <1>4 DEF Resumed, HumanInputs, Straight
<1>5. CASE Taken(r)
  <2> DEFINE next == NextOf(l)
             x == Head(l.nodeExecutionQueue)
  <2>1. /\ next.agentFlowExecutedData = l.agentFlowExecutedData
        /\ next.currentNode = x /\ next.nodeExecutionQueue = Tail(l.nodeExecutionQueue)
        /\ Queued(l) = {x} \cup Queued(next)
    BY <1>1, <1>5, TakeMet DEF Taken
  <2>2. l.nodeExecutionQueue \in Seq(Nodes(flow)) /\ l.nodeExecutionQueue # <<>>
    BY <1>1, <1>5, LocalFields DEF Taken
  <2>3. pc[r] = "looping" /\ pc'[r] = "executing" /\ local'[r] = next /\ Once("looping", l)
    BY <1>5 DEF Taken
  <2> HIDE DEF next, x
  <2>4. Met("executing", next) = Met("looping", l)
    BY <2>1 DEF Met
  <2>5. ASSUME NEW n \in Unconditional
        PROVE  OnceAt("executing", next, n)
    <3>1. OnceAt("looping", l, n)
      BY <2>3 DEF Once
    <3>2. OnceIn(next.nodeExecutionQueue, n) /\ (x = n => n \notin Queued(next))
      BY <2>1, <2>2, <3>1, OnceTail, QueuedIs DEF OnceAt, x
    <3> QED
      BY <2>1, <3>1, <3>2 DEF OnceAt
  <2> QED
    BY <2>3, <2>4, <2>5 DEF Once
<1>6. CASE Ended(r)
  BY <1>6 DEF Ended
<1>7. CASE Returned(r)
  <2>1. l.currentNode \in Nodes(flow)
    BY <1>1, <1>7, LocalFields DEF Returned, TruthInv, Stage, StageOf
  <2>2. PICK took \in Results(l, l.currentNode) :
            local'[r] = ProcessNodeOutputs(
                [l EXCEPT !.agentFlowExecutedData =
                     Append(Remembered(l), Entry(l.currentNode, "FINISHED", took))],
                l.currentNode, took)
    BY <1>7 DEF Returned
  <2>3. took \in SUBSET Nat
    BY <1>1, <2>1, <2>2, ResultsType
  <2>4. Fed("executing", l) /\ Once("executing", l)
    BY <1>7 DEF Returned
  <2>5. Once("looping", local'[r])
    BY <1>1, <2>1, <2>2, <2>3, <2>4, ReturnsOnce
  <2> QED
    BY <1>7, <2>5 DEF Returned
<1> QED
  BY <1>2, <1>3, <1>4, <1>5, <1>6, <1>7, LocalSteps

PlainEntry(e) ==
    e.status = "FINISHED" /\ flow.kind[e.node] \notin Deciders => e.took = Handles(flow, e.node)

LEMMA PlainAppend ==
    ASSUME NEW data \in Seq(Entries), NEW e \in Entries, Plain(data), PlainEntry(e)
    PROVE  Plain(Append(data, e))
<1>1. Elems(Append(data, e)) = Elems(data) \cup {e}
  BY ElemsAppend
<1>2. \A d : Plain(d) <=> \A x \in Elems(d) : PlainEntry(x)
  BY DEF Plain, PlainEntry, Elems
<1> QED
  BY <1>1, <1>2

LEMMA RunStaysPlain ==
    ASSUME TruthInv, Straight, [EngineNext]_engineVars, NEW r \in Runs,
           Plain(local[r].agentFlowExecutedData)
    PROVE  Plain(local'[r].agentFlowExecutedData)
<1> DEFINE l == local[r]
           data == l.agentFlowExecutedData
<1>1. session \in Sessions /\ l \in LocalsOK /\ data \in Seq(Entries)
  BY LocalFields DEF TruthInv, EngineTypeOK
<1>2. CASE Stays(r)
  BY <1>2 DEF Stays
<1>3. CASE Began(r)
  <2>1. local'[r].agentFlowExecutedData = <<>>
    BY <1>3 DEF Began, Locals
  <2> QED
    BY <2>1 DEF Plain
<1>4. CASE Resumed(r)
  BY <1>4 DEF Resumed, HumanInputs, Straight
<1>5. CASE Taken(r)
  <2> DEFINE next == NextOf(l)
             e == Entry(Head(l.nodeExecutionQueue), "TERMINATED", {})
  <2>1. next \in LocalsOK /\ next.agentFlowExecutedData = data
        /\ Head(l.nodeExecutionQueue) \in Nodes(flow)
    BY <1>1, <1>5, TakeMet DEF Taken
  <2>2. \/ local'[r] = next
        \/ local'[r] = [next EXCEPT !.agentFlowExecutedData = Append(@, e)]
    BY <1>5 DEF Taken
  <2>3. e \in Entries /\ PlainEntry(e)
    BY <2>1 DEF Entry, Entries, Settled, PlainEntry
  <2> HIDE DEF next, e, data
  <2>4. local'[r].agentFlowExecutedData \in {data, Append(data, e)}
    BY <2>1, <2>2 DEF LocalsOK
  <2> QED
    BY <1>1, <2>3, <2>4, PlainAppend DEF data
<1>6. ASSUME pc[r] = "executing", Ended(r) \/ Returned(r)
      PROVE  Plain(local'[r].agentFlowExecutedData)
  <2> DEFINE x == l.currentNode
  <2>1. x \in Nodes(flow)
    BY <1>1, <1>6, LocalFields DEF TruthInv, Stage, StageOf
  <2>2. Remembered(l) = data
    BY <1>1, StraightRun
  <2>3. CASE Ended(r)
    <3>1. PICK status \in {"STOPPED", "ERROR", "TERMINATED"} :
              local'[r] = [l EXCEPT !.agentFlowExecutedData = Append(data, Entry(x, status, {}))]
      BY <2>2, <2>3 DEF Ended
    <3> DEFINE e == Entry(x, status, {})
    <3>2. e \in Entries /\ PlainEntry(e)
      BY <2>1 DEF Entry, Entries, Settled, PlainEntry
    <3>3. local'[r].agentFlowExecutedData = Append(data, e)
      BY <1>1, <3>1 DEF LocalsOK
    <3> HIDE DEF e
    <3> QED
      BY <1>1, <3>2, <3>3, PlainAppend
  <2>4. CASE Returned(r)
    <3>1. PICK took \in Results(l, x) :
              local'[r] = ProcessNodeOutputs(
                  [l EXCEPT !.agentFlowExecutedData = Append(data, Entry(x, "FINISHED", took))], x, took)
      BY <2>2, <2>4 DEF Returned
    <3> DEFINE e == Entry(x, "FINISHED", took)
               done == [l EXCEPT !.agentFlowExecutedData = Append(data, e)]
    <3>2. took \in SUBSET Nat
      BY <1>1, <2>1, <3>1, ResultsType
    <3>3. e \in Entries
      BY <2>1, <3>2 DEF Entry, Entries, Settled
    <3>4. PlainEntry(e)
      <4>1. flow.kind[x] \notin Deciders => took = Handles(flow, x)
        BY <3>1 DEF Results, Deciders
      <4> QED
        BY <4>1 DEF PlainEntry, Entry
    <3> HIDE DEF e
    <3>5. done \in LocalsOK /\ done.agentFlowExecutedData = Append(data, e)
      <4> DEFINE more == Append(data, e)
      <4>1. more \in Seq(Entries)
        BY <1>1, <3>3
      <4> HIDE DEF more
      <4>2. [l EXCEPT !.agentFlowExecutedData = more] \in LocalsOK
            /\ [l EXCEPT !.agentFlowExecutedData = more].agentFlowExecutedData = more
        BY <1>1, <4>1 DEF LocalsOK
      <4> QED
        BY <4>2 DEF more
    <3> HIDE DEF done, x
    <3>6. ProcessNodeOutputs(done, x, took) \in Onward(done)
      BY <1>1, <2>1, <3>2, <3>5, OutputsType
    <3>7. local'[r].agentFlowExecutedData = Append(data, e)
      BY <3>1, <3>5, <3>6 DEF Onward, done, e, x
    <3> QED
      BY <1>1, <3>3, <3>4, <3>7, PlainAppend
  <2> QED
    BY <1>6, <2>3, <2>4
<1> QED
  BY <1>2, <1>3, <1>4, <1>5, <1>6, LocalSteps DEF Ended, Returned

(* Nobody is left out: the first of those who did not run would have had   *)
(* all its inputs.                                                         *)
LEMMA AllRan ==
    ASSUME session \in Sessions, Drawn, NEW l, l.nodeExecutionQueue = <<>>,
           Fed("looping", l), Once("looping", l), Plain(l.agentFlowExecutedData),
           \A k \in 1..Len(l.agentFlowExecutedData) :
               l.agentFlowExecutedData[k].status = "FINISHED"
    PROVE  \A n \in Unconditional : RanOnce(l.agentFlowExecutedData, n)
<1> DEFINE data == l.agentFlowExecutedData
           late == {n \in Unconditional : n \notin Visited(data)}
<1>1. Met("looping", l) = Visited(data)
  BY QueueEmpty
<1>2. late = {}
  <2> SUFFICES ASSUME late # {} PROVE FALSE
    OBVIOUS
  <2>1. late \in SUBSET Nodes(flow)
    BY DEF Unconditional
  <2>2. PICK n \in late : Sources(flow, n) \cap late = {}
    <3> HIDE DEF late
    <3> QED
      BY <2>1 DEF Drawn
  <2>3. n \in Unconditional /\ n \in Nodes(flow) /\ n \notin Met("looping", l)
    BY <1>1, <2>1, <2>2
  <2>4. n \notin Starts(flow)
    BY <2>3 DEF Once
  <2>5. ~ HasRequired(flow, n, Got(data, n))
    BY <2>3, <2>4 DEF Fed, FedWith
  <2>6. PICK s \in Sources(flow, n) : s \notin Got(data, n)
    BY <2>3, <2>5, NeedsAll
  <2>7. s \in Unconditional /\ flow.kind[s] \notin Deciders
    BY <2>3, SourcesBefore
  <2>8. s \in Visited(data)
    BY <2>2, <2>6, <2>7
  <2>9. PICK k \in 1..Len(data) : data[k].node = s
    BY <2>8 DEF Visited
  <2>10. data[k].took = Handles(flow, s)
    BY <2>7, <2>9 DEF Plain
  <2>11. Ignored(flow, s, data[k].took) = {}
    BY <2>10 DEF Ignored
  <2> QED
    BY <2>6, <2>9, <2>11 DEF Got
<1> QED
  BY <1>2 DEF Once, OnceAt, RanOnce

LEMMA SameOnce ==
    ASSUME session' = session
    PROVE  /\ Drawn' <=> Drawn
           /\ Unconditional' = Unconditional
           /\ \A place, l : Once(place, l)' <=> Once(place, l)
           /\ \A data : Plain(data)' <=> Plain(data)
           /\ \A data, n : RanOnce(data, n)' <=> RanOnce(data, n)
<1>1. flow' = flow
  BY DEF flow
<1>2. \A from, ways : Reachable(from, ways)' = Reachable(from, ways)
  BY <1>1 DEF Reachable, Closed
<1>3. Unconditional' = Unconditional
  BY <1>1, <1>2 DEF Unconditional
<1>4. Drawn' <=> Drawn
  BY <1>1 DEF Drawn
<1>5. \A place, l, n : OnceAt(place, l, n)' <=> OnceAt(place, l, n)
  BY DEF OnceAt, OnceInData, OnceIn, Queued, Visited
<1>6. \A place, l : Met(place, l)' = Met(place, l)
  BY DEF Met, Visited, Queued
<1>7. \A data : Plain(data)' <=> Plain(data)
  BY <1>1 DEF Plain
<1>8. \A data, n : RanOnce(data, n)' <=> RanOnce(data, n)
  BY DEF RanOnce, OnceInData, Visited
<1>9. \A place, l : Once(place, l)' <=> Once(place, l)
  BY <1>1, <1>3, <1>5, <1>6 DEF Once
<1> QED
  BY <1>3, <1>4, <1>7, <1>8, <1>9

LEMMA InitialOnce ==
    ASSUME EngineInit
    PROVE  OnceInv
<1>1. rows = <<>> /\ \A r \in Runs : pc[r] = "idle" /\ local[r] = Locals(<<>>, <<>>, NoInput)
  BY DEF EngineInit
<1>2. \A r \in Runs : Plain(local[r].agentFlowExecutedData)
  BY <1>1 DEF Plain, Locals
<1> QED
  BY <1>1, <1>2 DEF OnceInv

LEMMA OnceStep ==
    ASSUME TruthInv, InputsInv, OnceInv, [EngineNext]_engineVars
    PROVE  OnceInv'
<1>1. session' = session
  BY SessionStays
<1>2. TruthInv'
  BY TruthStep
<1> SUFFICES ASSUME Straight, Drawn
             PROVE  /\ \A r \in Runs : Plain(local'[r].agentFlowExecutedData)
                    /\ \A r \in Runs : pc'[r] \in {"looping", "executing"} => Once(pc'[r], local'[r])
                    /\ \A i \in 1..Len(rows') : rows'[i].state = "FINISHED" =>
                          \A n \in Unconditional : RanOnce(rows'[i].data, n)
  BY <1>1, SameInputs, SameOnce DEF OnceInv
<1>3. /\ \A r \in Runs : Plain(local[r].agentFlowExecutedData)
      /\ \A r \in Runs : pc[r] \in {"looping", "executing"} => Once(pc[r], local[r])
      /\ \A i \in 1..Len(rows) : rows[i].state = "FINISHED" =>
            \A n \in Unconditional : RanOnce(rows[i].data, n)
  BY DEF OnceInv
<1>4. /\ \A r \in Runs : pc[r] # "claiming"
      /\ \A r \in Runs : pc[r] \in {"looping", "executing"} => Fed(pc[r], local[r])
  BY DEF InputsInv
<1>5. \A r \in Runs : Plain(local'[r].agentFlowExecutedData)
  BY <1>3, RunStaysPlain
<1>6. \A r \in Runs : pc'[r] \in {"looping", "executing"} => Once(pc'[r], local'[r])
  BY <1>3, <1>4, RunStaysOnce
<1>7. ASSUME NEW i \in 1..Len(rows'), rows'[i].state = "FINISHED"
      PROVE  \A n \in Unconditional : RanOnce(rows'[i].data, n)
  <2>1. CASE i \in 1..Len(rows) /\ rows'[i] = rows[i]
    BY <1>3, <1>7, <2>1
  <2>2. ASSUME NEW r \in Runs, pc[r] = "looping", local[r].nodeExecutionQueue = <<>>,
               rows'[i].data = local[r].agentFlowExecutedData
        PROVE  \A n \in Unconditional : RanOnce(rows'[i].data, n)
    <3> DEFINE l == local[r]
    <3>1. session \in Sessions
      BY DEF TruthInv, EngineTypeOK
    <3>2. Fed("looping", l) /\ Once("looping", l) /\ Plain(l.agentFlowExecutedData)
      BY <1>3, <1>4, <2>2
    <3>3. {rows'[i].data[k].status : k \in 1..Len(rows'[i].data)} = {"FINISHED"}
      BY <1>2, <1>7 DEF TruthInv, RowsTellTruth, Shown
    <3>4. \A k \in 1..Len(l.agentFlowExecutedData) : l.agentFlowExecutedData[k].status = "FINISHED"
      BY <2>2, <3>3
    <3>5. l.nodeExecutionQueue = <<>>
      BY <2>2
    <3> HIDE DEF l
    <3>6. \A n \in Unconditional : RanOnce(l.agentFlowExecutedData, n)
      BY <3>1, <3>2, <3>4, <3>5, AllRan
    <3> QED
      BY <2>2, <3>6 DEF l
  <2> QED
    BY <1>7, <2>1, <2>2, RowFinished
<1> QED
  BY <1>5, <1>6, <1>7

(* In every flow that the editor can draw without loops and without asking *)
(* anybody, a finished execution has run each node that depends on no      *)
(* decision exactly once (buildAgentflow.ts 494-513, 593-626).             *)
THEOREM UnconditionalRunOnce == EngineSpec => []UnconditionalOnce
<1>1. EngineInit => OnceInv
  BY InitialOnce
<1>2. TruthInv /\ InputsInv /\ OnceInv /\ [EngineNext]_engineVars => OnceInv'
  BY OnceStep
<1>3. OnceInv => UnconditionalOnce
  <2> SUFFICES ASSUME OnceInv, Straight, Drawn, NEW i \in 1..Len(rows),
                      rows[i].state = "FINISHED", NEW n \in Unconditional
               PROVE  RunsOnce(i, n)
    BY DEF UnconditionalOnce, Straight
  <2>1. RanOnce(rows[i].data, n)
    BY DEF OnceInv
  <2>2. PICK k \in 1..Len(rows[i].data) : rows[i].data[k].node = n
    BY <2>1 DEF RanOnce, Visited
  <2>3. \A j \in 1..Len(rows[i].data) : rows[i].data[j].node = n <=> j = k
    BY <2>1, <2>2 DEF RanOnce, OnceInData
  <2> QED
    BY <2>2, <2>3 DEF RunsOnce
<1> QED
  BY <1>1, <1>2, <1>3, InputsAlways, PTL DEF EngineSpec
=============================================================================
