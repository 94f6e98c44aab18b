------------------------- MODULE DocumentStoreProofs -------------------------
(***************************************************************************)
(* What a document store guarantees for any number of requests, loaders    *)
(* and chunks.  While requests wait for one another: no chunk is left      *)
(* without its loader, counts are right, and no upsert that fails leaves   *)
(* the store UPSERTING, but for an insert when nothing is configured.  With*)
(* any overlap: of the requests that process a loader at a time, the chunks*)
(* of one survive whole, or another is about to save its own.              *)
(***************************************************************************)
EXTENDS DocumentStore, FiniteSetTheorems, TLAPS

Deletions == {"deleteLoader", "deleteStore", "deleteChunk"}

DeletingPlaces == {"remove", "dropping", "unlisting", "empty", "destroy", "destroying",
                   "pick", "picking", "removing", "counting"}

Processing == {"mark", "marking", "open", "splitting", "replacing", "refilling", "closing"}

Inserting == {"configure", "configuring", "upserting", "embedding", "upserted"}

(* Where a loader is about to be processed. *)
Early == {"find", "mark", "marking", "open", "splitting"}

(* A loader that is not there has no chunks. *)
Sensible(row) == \A l \in Loaders : row.loaders[l].status = "NONE" => row.loaders[l] = Absent

(* The loaders that are left to a refresh are different ones, and it has   *)
(* made no chunks of them.                                                 *)
Ahead(t) ==
    /\ t.pc \in {"idle", "list"} => t.todo = <<>> /\ \A l \in Loaders : t.made[l] = -1
    /\ \A i \in 1..Len(t.todo) : t.made[t.todo[i]] = -1 /\ t.todo[i] # t.loader
    /\ \A i, j \in 1..Len(t.todo) : t.todo[i] = t.todo[j] => i = j
    /\ t.pc \in Early => t.made[t.loader] = -1

(* Only an insert sets UPSERTING without a configuration. *)
OpAtPlace(t) ==
    /\ t.pc \in DeletingPlaces => t.op \in Deletions
    /\ t.pc = "idle" => t.op = "none"
    /\ t.pc = "list" \/ t.todo # <<>> => t.op = "refresh"
    /\ t.pc = "find" => t.op \in {"upsert", "refresh"}
    /\ t.pc \in Processing /\ ~ t.names => t.op = "process"
    /\ t.pc \in Inserting /\ ~ t.names => t.op \in {"insert", "config"}
    /\ t.pc \in {"upserting", "embedding", "upserted"} => t.op # "config"

TaskOK(t) ==
    /\ OpAtPlace(t)
    /\ Sensible(t.entity)
    /\ t.pc \in {"picking", "removing", "counting"} => t.loader \in Listed(t.entity)
    /\ t.pc \in {"replacing", "refilling", "closing"} => t.made[t.loader] >= 0
    /\ Ahead(t)

BaseInv ==
    /\ StoreTypeOK
    /\ Sensible(store)
    /\ \A r \in Requests : TaskOK(task[r])

-----------------------------------------------------------------------------
(* Requests that wait for one another. *)

(* Where the row that was read is going to be written back. *)
Using == {"marking", "splitting", "replacing", "refilling", "closing", "configuring",
          "upserting", "embedding", "upserted", "dropping", "unlisting", "destroying",
          "picking", "removing", "counting"}

Placed == {"open", "splitting", "replacing", "refilling", "closing"}

(* The only request at work has the row as it is. *)
AtIt(r) ==
    LET t == task[r]
    IN  /\ t.pc \in Using => t.entity = store /\ store.exists
        /\ t.pc \in Placed => store.exists /\ store.loaders[t.loader].status = "SYNCING"
        /\ t.pc = "upserting" => t.again
        /\ t.pc \in DeletingPlaces => saving = {}
        /\ t.pc \in {"unlisting", "refilling"} => ChunksOf(t.loader) = {}
        /\ t.pc \in {"destroy", "destroying"} => chunks = {}
        /\ \A c \in saving : /\ t.made[c.loader] # -1
                             /\ t.pc \in {"replacing", "refilling"} => t.loader # c.loader

Owned(c) == store.exists /\ c.loader \in Listed(store)

(* Whoever has set UPSERTING is about to save its configuration again, ... *)
Retries(r) ==
    task[r].pc \in {"configure", "configuring"} /\ task[r].again /\ task[r].names /\ store.exists

(* ... but for an insert without one. *)
Nameless == \E r \in Requests : task[r].op = "insert" /\ ~ task[r].names

SoloInv ==
    ~ setup.overlap =>
        /\ \A r, s \in Requests : Busy(r) /\ Busy(s) => r = s
        /\ \A c \in chunks \cup saving : Owned(c)
        /\ \A r \in Requests : Busy(r) => AtIt(r)
        /\ Faultless /\ store.status = "UPSERTING" => Nameless \/ \E r \in Requests : Retries(r)

(* The chunks of a loader, those under way included. *)
Pool(l) == {c \in chunks \cup saving : c.loader = l}

(* How many there should be while request r is at work: it has deleted one *)
(* that it is about to take from the count.                                *)
Expected(r, l) ==
    IF task[r].pc = "counting" /\ task[r].loader = l
    THEN store.loaders[l].total - 1 ELSE store.loaders[l].total

(* The chunks are gone, and what they belong to goes next. *)
Leaving(r, l) ==
    \/ task[r].pc = "unlisting" /\ task[r].loader = l
    \/ task[r].pc \in {"destroy", "destroying"}

Tally(r, l) ==
    store.loaders[l].status = "SYNC" =>
        /\ Cardinality(Pool(l)) <= Expected(r, l)
        /\ Faultless /\ ~ Leaving(r, l) => Cardinality(Pool(l)) = Expected(r, l)

(* With nobody at work the counts are plain. *)
Settled(l) ==
    store.loaders[l].status = "SYNC" =>
        /\ Cardinality(Pool(l)) <= store.loaders[l].total
        /\ Faultless => Cardinality(Pool(l)) = store.loaders[l].total

CountInv ==
    ~ setup.overlap /\ ~ setup.astray =>
        /\ IsFiniteSet(chunks) /\ IsFiniteSet(saving)
        /\ ~ store.exists => \A l \in Loaders : store.loaders[l] = Absent
        /\ \A r \in Requests : Busy(r) => \A l \in Loaders : Tally(r, l)
        /\ (\A r \in Requests : ~ Busy(r)) => \A l \in Loaders : Settled(l)
        /\ \A r \in Requests : task[r].pc = "closing" =>
              /\ Pool(task[r].loader) \subseteq NewChunks(r, task[r].loader)
              /\ Faultless => Pool(task[r].loader) = NewChunks(r, task[r].loader)
        /\ \A r \in Requests : task[r].pc = "removing" =>
              \E c \in ChunksOf(task[r].loader) : task[r].picked = {c}

-----------------------------------------------------------------------------
Record == [pc : Places, op : Operations \cup {"none"}, loader : Loaders, todo : Seq(Loaders),
           entity : Rows, again : BOOLEAN, names : BOOLEAN, picked : SUBSET AllChunks,
           made : [Loaders -> Int]]

(* What a request that only goes somewhere keeps. *)
Keeps(r) ==
    /\ task'[r].op = task[r].op /\ task'[r].loader = task[r].loader
    /\ task'[r].todo = task[r].todo /\ task'[r].made = task[r].made
    /\ task'[r].names = task[r].names

Others(r) == \A d \in Requests : d # r => task'[d] = task[d]

LEMMA PlaceNames ==
    /\ "failed" \in Places /\ "done" \in Places /\ "mark" \in Places
    /\ "marking" \in Places /\ "open" \in Places /\ "splitting" \in Places
    /\ "replacing" \in Places /\ "closing" \in Places /\ "find" \in Places
    /\ "list" \in Places /\ "idle" \in Places /\ "dead" \in Places
    /\ "configure" \in Places /\ "configuring" \in Places /\ "upserting" \in Places
    /\ "embedding" \in Places /\ "upserted" \in Places /\ "remove" \in Places
    /\ "dropping" \in Places /\ "unlisting" \in Places /\ "empty" \in Places
    /\ "destroy" \in Places /\ "destroying" \in Places /\ "pick" \in Places
    /\ "picking" \in Places /\ "counting" \in Places
    /\ "refilling" \in Places /\ "removing" \in Places
BY DEF Places, Ended

LEMMA NewRowIsRow ==
    NewRow \in Rows /\ Sensible(NewRow) /\ Absent = [status |-> "NONE", total |-> 0]
BY DEF NewRow, Rows, Statuses, Absent, Sensible

LEMMA Goes ==
    ASSUME StoreTypeOK, NEW r \in Requests, NEW place \in Places, Goto(r, place)
    PROVE  /\ task' \in [Requests -> Record]
           /\ Keeps(r) /\ Others(r) /\ task'[r].pc = place /\ task'[r].again = task[r].again
           /\ task'[r].entity = IF place \in Ended THEN NewRow ELSE task[r].entity
<1> DEFINE l == [task[r] EXCEPT !.pc = place,
                               !.entity = IF place \in Ended THEN NewRow ELSE @,
                               !.picked = IF place \in Ended THEN {} ELSE @]
<1>1. task \in [Requests -> Record] /\ task[r] \in Record
  BY DEF StoreTypeOK, Record
<1>2. task' = [task EXCEPT ![r] = l]
  BY DEF Goto
<1>3. /\ l \in Record /\ l.pc = place /\ l.again = task[r].again
      /\ l.op = task[r].op /\ l.loader = task[r].loader
      /\ l.todo = task[r].todo /\ l.made = task[r].made /\ l.names = task[r].names
      /\ l.entity = IF place \in Ended THEN NewRow ELSE task[r].entity
  BY <1>1, NewRowIsRow DEF Record
<1> HIDE DEF l
<1> QED BY <1>1, <1>2, <1>3 DEF Keeps, Others

(* The loaders of the row, as a list. *)
LEMMA LoadersInRow ==
    ASSUME NEW S, S \subseteq Loaders
    PROVE  /\ SetToSeq(S) \in Seq(Loaders)
           /\ \A i, j \in 1..Len(SetToSeq(S)) : SetToSeq(S)[i] = SetToSeq(S)[j] => i = j
<1>1. IsFiniteSet(S)
  BY StoreAssumption, FS_Subset
<1>2. Cardinality(S) \in Nat /\ ExistsBijection(1..Cardinality(S), S)
  BY <1>1, FS_CardinalityType
<1>3. \E f \in [1..Cardinality(S) -> S] : IsInjective(f)
  BY <1>2 DEF ExistsBijection, Bijection, Injection
<1>4. SetToSeq(S) \in [1..Cardinality(S) -> S] /\ IsInjective(SetToSeq(S))
  BY <1>3 DEF SetToSeq
<1>5. SetToSeq(S) \in Seq(Loaders) /\ Len(SetToSeq(S)) = Cardinality(S)
  BY <1>2, <1>4
<1> QED BY <1>4, <1>5 DEF IsInjective

(* The steps by what they do to the locals: those that go on in the next   *)
(* place, with their table, ...                                            *)
Leads(from, to) ==
    \/ from \notin {"idle"} \cup Ended /\ to = "failed"
    \/ from \in {"list", "closing", "configuring", "upserted", "unlisting", "destroying",
                 "counting"} /\ to = "done"
    \/ from = "marking" /\ to = "open"
    \/ from = "replacing" /\ to = "refilling"
    \/ from = "refilling" /\ to = "closing"
    \/ from = "upserting" /\ to = "configure"
    \/ from = "embedding" /\ to = "upserted"
    \/ from = "dropping" /\ to = "unlisting"
    \/ from = "empty" /\ to = "destroy"

GoesOn(r) ==
    \/ Goto(r, "failed") /\ Leads(task[r].pc, "failed")
    \/ Goto(r, "done") /\ Leads(task[r].pc, "done")
    \/ Goto(r, "open") /\ Leads(task[r].pc, "open")
    \/ Goto(r, "refilling") /\ Leads(task[r].pc, "refilling")
    \/ Goto(r, "closing") /\ Leads(task[r].pc, "closing")
    \/ Goto(r, "configure") /\ Leads(task[r].pc, "configure")
    \/ Goto(r, "upserted") /\ Leads(task[r].pc, "upserted")
    \/ Goto(r, "unlisting") /\ Leads(task[r].pc, "unlisting")
    \/ Goto(r, "destroy") /\ Leads(task[r].pc, "destroy")

(* ... and the others. *)
Begins(r, op, l, names) ==
    /\ names => op \in {"upsert", "insert", "config"}
    /\ task' = [task EXCEPT ![r].pc = First[op], ![r].op = op, ![r].loader = l,
                            ![r].names = names]
Reads(r) == task' = [task EXCEPT ![r].pc = ReadThen[@], ![r].entity = store]
Lists(r) ==
    LET todo == SetToSeq(Listed(store))
    IN  /\ todo # <<>>
        /\ task' = [task EXCEPT ![r].pc = "find", ![r].loader = Head(todo), ![r].todo = Tail(todo)]
Finds(r) == task' = [task EXCEPT ![r].pc = "mark", ![r].names = TRUE]
Splits(r, n) == task' = [task EXCEPT ![r].pc = "replacing", ![r].made[task[r].loader] = n]
ClosesUpsert(r) == task[r].op # "process" /\ Goto(r, "configure")
Configures(r) ==
    /\ task[r].op # "config"
    /\ task' = [task EXCEPT ![r].entity = Configured(r), ![r].names = Named(r),
                            ![r].again = ~ @,
                            ![r].pc = IF task[r].again THEN "embedding" ELSE "upserting"]
TakesNext(r) ==
    /\ task[r].todo # <<>>
    /\ task' = [task EXCEPT ![r].pc = "find", ![r].loader = Head(task[r].todo),
                            ![r].todo = Tail(@)]
Picks(r, c) == task' = [task EXCEPT ![r].pc = "removing", ![r].picked = {c}]
Removes(r) == task' = [task EXCEPT ![r].pc = "counting", ![r].picked = {}]

Begun(r) == \E op \in DOMAIN First, l \in Loaders, names \in BOOLEAN : Begin(r, op, l, names)

Acts(r) ==
    \/ Begun(r)
    \/ Rejected(r)
    \/ Read(r) \/ List(r) \/ Find(r)
    \/ Mark(r) \/ Split(r) \/ Clear(r) \/ Refill(r) \/ Close(r)
    \/ Configure(r) \/ Upserting(r) \/ Embed(r) \/ Upserted(r)
    \/ DropChunks(r) \/ Unlist(r) \/ Empty(r) \/ Destroy(r)
    \/ FindChunk(r) \/ RemoveChunk(r) \/ CountDown(r)

ReadPlaces == {"mark", "open", "configure", "remove", "destroy", "pick"}

LEMMA ReadTable ==
    /\ DOMAIN ReadThen = ReadPlaces
    /\ ReadThen["mark"] = "marking" /\ ReadThen["open"] = "splitting"
    /\ ReadThen["configure"] = "configuring" /\ ReadThen["remove"] = "dropping"
    /\ ReadThen["destroy"] = "destroying" /\ ReadThen["pick"] = "picking"
BY DEF ReadThen, ReadPlaces

LEMMA FirstTable ==
    /\ DOMAIN First = Operations
    /\ First["process"] = "mark" /\ First["upsert"] = "find" /\ First["refresh"] = "list"
    /\ First["insert"] = "configure" /\ First["config"] = "configure"
    /\ First["deleteLoader"] = "remove" /\ First["deleteStore"] = "empty"
    /\ First["deleteChunk"] = "pick"
BY DEF First, Operations

LEMMA Moves ==
    ASSUME NEW r \in Requests, Acts(r)
    PROVE  \/ GoesOn(r) /\ task[r].pc # "idle"
           \/ \E op \in DOMAIN First, l \in Loaders, names \in BOOLEAN :
                 task[r].pc = "idle" /\ Begins(r, op, l, names)
           \/ /\ task[r].pc \in ReadPlaces /\ Reads(r) /\ store.exists
              /\ task[r].pc \in {"remove", "pick"} => task[r].loader \in Listed(store)
              /\ UNCHANGED store
           \/ task[r].pc = "list" /\ Lists(r)
           \/ task[r].pc = "find" /\ Finds(r)
           \/ \E n \in 0..setup.split : task[r].pc = "splitting" /\ Splits(r, n)
           \/ task[r].pc = "closing" /\ ClosesUpsert(r)
           \/ task[r].pc = "configuring" /\ Configures(r)
           \/ task[r].pc = "upserted" /\ TakesNext(r)
           \/ \E c \in chunks : task[r].pc = "picking" /\ Picks(r, c)
           \/ task[r].pc = "removing" /\ Removes(r)
<1>1. CASE Begun(r)
  BY <1>1 DEF Begun, Begin, Begins
<1>2. CASE Rejected(r)
  BY <1>2 DEF Rejected, GoesOn, Leads, Busy
<1>3. CASE Read(r)
  <2>1. task[r].pc \in ReadPlaces
    BY <1>3, ReadTable DEF Read
  <2>2. CASE store.exists /\ (task[r].pc \in {"remove", "pick"} => task[r].loader \in Listed(store))
    BY <1>3, <2>1, <2>2 DEF Read, Reads
  <2>3. CASE ~ (store.exists
                /\ (task[r].pc \in {"remove", "pick"} => task[r].loader \in Listed(store)))
    <3>1. Goto(r, "failed")
      BY <1>3, <2>3 DEF Read
    <3>2. Leads(task[r].pc, "failed") /\ task[r].pc # "idle"
      BY <2>1 DEF ReadPlaces, Leads, Ended
    <3> QED BY <3>1, <3>2 DEF GoesOn
  <2> QED BY <2>2, <2>3
<1>4. CASE List(r)
  <2>1. task[r].pc = "list" /\ (Goto(r, "failed") \/ Goto(r, "done") \/ Lists(r))
    BY <1>4 DEF List, Lists
  <2> QED BY <2>1 DEF GoesOn, Leads, Ended
<1>5. CASE Find(r)
  <2>1. task[r].pc = "find" /\ (Goto(r, "failed") \/ Finds(r))
    BY <1>5 DEF Find, Finds
  <2> QED BY <2>1 DEF GoesOn, Leads, Ended
<1>6. CASE Split(r)
  <2>1. /\ task[r].pc = "splitting"
        /\ Goto(r, "failed") \/ \E n \in 0..setup.split : Splits(r, n)
    BY <1>6 DEF Split, Splits
  <2> QED BY <2>1 DEF GoesOn, Leads, Ended
<1>7. CASE Mark(r) \/ Clear(r) \/ Refill(r) \/ Close(r)
  <2>1. \/ task[r].pc = "marking" /\ Goto(r, "open")
        \/ task[r].pc = "replacing" /\ Goto(r, "refilling")
        \/ task[r].pc = "refilling" /\ (Goto(r, "closing") \/ Goto(r, "failed"))
        \/ task[r].pc = "closing" /\ (Goto(r, "done") \/ ClosesUpsert(r))
    BY <1>7 DEF Mark, Clear, Refill, Close, ClosesUpsert
  <2> QED BY <2>1 DEF GoesOn, Leads, Ended
<1>8. CASE Configure(r)
  <2>1. task[r].pc = "configuring" /\ (Goto(r, "done") \/ Configures(r))
    BY <1>8 DEF Configure, Configures
  <2> QED BY <2>1 DEF GoesOn, Leads
<1>9. CASE Upserting(r) \/ Embed(r)
  <2>1. \/ task[r].pc = "upserting" /\ Goto(r, "configure")
        \/ task[r].pc = "embedding" /\ (Goto(r, "failed") \/ Goto(r, "upserted"))
    BY <1>9 DEF Upserting, Embed
  <2> QED BY <2>1 DEF GoesOn, Leads, Ended
<1>10. CASE Upserted(r)
  <2>1. task[r].pc = "upserted" /\ (Goto(r, "done") \/ TakesNext(r))
    BY <1>10 DEF Upserted, TakesNext
  <2> QED BY <2>1 DEF GoesOn, Leads
<1>11. CASE DropChunks(r) \/ Unlist(r) \/ Empty(r) \/ Destroy(r) \/ CountDown(r)
  <2>1. \/ task[r].pc = "dropping" /\ Goto(r, "unlisting")
        \/ task[r].pc = "unlisting" /\ Goto(r, "done")
        \/ task[r].pc = "empty" /\ Goto(r, "destroy")
        \/ task[r].pc = "destroying" /\ Goto(r, "done")
        \/ task[r].pc = "counting" /\ Goto(r, "done")
    BY <1>11 DEF DropChunks, Unlist, Empty, Destroy, CountDown
  <2> QED BY <2>1 DEF GoesOn, Leads
<1>12. CASE FindChunk(r)
  <2>1. task[r].pc = "picking" /\ (Goto(r, "failed") \/ \E c \in chunks : Picks(r, c))
    BY <1>12 DEF FindChunk, Picks
  <2> QED BY <2>1 DEF GoesOn, Leads, Ended
<1>13. CASE RemoveChunk(r)
  BY <1>13 DEF RemoveChunk, Removes
<1> QED BY <1>1, <1>2, <1>3, <1>4, <1>5, <1>6, <1>7, <1>8, <1>9, <1>10, <1>11, <1>12, <1>13 DEF Acts

(* Putting it together: the locals of r become l. *)
LEMMA Becomes ==
    ASSUME StoreTypeOK, NEW r \in Requests, NEW l \in Record, task' = [task EXCEPT ![r] = l]
    PROVE  task' \in [Requests -> Record] /\ Others(r) /\ task'[r] = l
BY DEF StoreTypeOK, Record, Others

LEMMA TaskIsRecord ==
    ASSUME StoreTypeOK, NEW r \in Requests
    PROVE  /\ task[r] \in Record
           /\ task[r].loader \in Loaders /\ task[r].todo \in Seq(Loaders)
           /\ task[r].entity \in Rows /\ task[r].made \in [Loaders -> Int]
           /\ task[r].pc \in Places /\ task[r].again \in BOOLEAN /\ task[r].names \in BOOLEAN
BY DEF StoreTypeOK, Record

LEMMA HeadAndTail ==
    ASSUME NEW S, NEW s \in Seq(S), s # <<>>,
           \A i, j \in 1..Len(s) : s[i] = s[j] => i = j
    PROVE  /\ Head(s) \in S /\ Tail(s) \in Seq(S) /\ Head(s) = s[1] /\ 1 \in 1..Len(s)
           /\ \A i \in 1..Len(Tail(s)) : /\ i + 1 \in 1..Len(s) /\ Tail(s)[i] = s[i + 1]
                                         /\ Tail(s)[i] # Head(s)
           /\ \A i, j \in 1..Len(Tail(s)) : Tail(s)[i] = Tail(s)[j] => i = j
<1>1. /\ Head(s) \in S /\ Tail(s) \in Seq(S) /\ Head(s) = s[1]
      /\ Len(s) \in Nat /\ Len(s) >= 1 /\ Len(Tail(s)) = Len(s) - 1
      /\ \A i \in 1..Len(Tail(s)) : Tail(s)[i] = s[i + 1]
  OBVIOUS
<1>2. 1 \in 1..Len(s) /\ \A i \in 1..Len(Tail(s)) : i + 1 \in 1..Len(s) /\ i + 1 # 1
  BY <1>1
<1> QED BY <1>1, <1>2

(* Every step of a request keeps its locals in order. *)
LEMMA OpStays ==
    ASSUME NEW t, NEW t2, OpAtPlace(t),
           t2.op = t.op, t2.names = t.names, t2.todo = t.todo,
           t2.pc \notin {"idle", "list", "find"},
           t2.pc \in DeletingPlaces => t.pc \in DeletingPlaces,
           t2.pc \in Processing => t.pc \in Processing,
           t2.pc \in Inserting => t.pc \in Inserting,
           t2.pc \in {"upserting", "embedding", "upserted"} =>
              t.pc \in {"upserting", "embedding", "upserted"}
    PROVE  OpAtPlace(t2)
BY DEF OpAtPlace

LEMMA GoesOnKeeps ==
    ASSUME BaseInv, NEW r \in Requests, GoesOn(r), task[r].pc # "idle"
    PROVE  task' \in [Requests -> Record] /\ Others(r) /\ TaskOK(task'[r])
<1>. StoreTypeOK /\ TaskOK(task[r]) /\ task[r] \in Record
  BY TaskIsRecord DEF BaseInv
<1>1. /\ task' \in [Requests -> Record] /\ Keeps(r) /\ Others(r)
      /\ Leads(task[r].pc, task'[r].pc)
      /\ \/ task'[r].entity = task[r].entity
         \/ task'[r].entity = NewRow /\ task'[r].pc \in Ended
  BY Goes, PlaceNames DEF GoesOn, Ended
<1>2. Sensible(task'[r].entity)
  BY <1>1, NewRowIsRow DEF TaskOK
<1>3. Ahead(task'[r])
  <2>1. task'[r].pc \notin {"idle", "list"} /\ (task'[r].pc \in Early => task[r].pc \in Early)
    BY <1>1 DEF Leads, Early
  <2> QED BY <1>1, <2>1 DEF TaskOK, Ahead, Keeps
<1>4. OpAtPlace(task'[r])
  <2>1. /\ task'[r].pc \notin {"idle", "list", "find"}
        /\ task'[r].pc \in DeletingPlaces => task[r].pc \in DeletingPlaces
        /\ task'[r].pc \in Processing => task[r].pc \in Processing
        /\ task'[r].pc \in Inserting => task[r].pc \in Inserting
        /\ task'[r].pc \in {"upserting", "embedding", "upserted"} =>
              task[r].pc \in {"upserting", "embedding", "upserted"}
    BY <1>1 DEF Leads, DeletingPlaces, Processing, Inserting
  <2> QED BY <1>1, <2>1, OpStays DEF TaskOK, Keeps
<1>5. task'[r].pc \notin {"picking", "removing", "counting"}
  BY <1>1 DEF Leads
<1>6. task'[r].pc \in {"replacing", "refilling", "closing"} => task'[r].made[task'[r].loader] >= 0
  <2>1. task'[r].pc \in {"replacing", "refilling", "closing"} =>
           task[r].pc \in {"replacing", "refilling"}
    BY <1>1 DEF Leads
  <2> QED BY <1>1, <2>1 DEF TaskOK, Keeps
<1> QED BY <1>1, <1>2, <1>3, <1>4, <1>5, <1>6 DEF TaskOK

LEMMA ActsKeep ==
    ASSUME BaseInv, NEW r \in Requests, Acts(r)
    PROVE  task' \in [Requests -> Record] /\ Others(r) /\ TaskOK(task'[r])
<1>. StoreTypeOK /\ TaskOK(task[r]) /\ task[r] \in Record /\ store \in Rows /\ Sensible(store)
  BY TaskIsRecord DEF BaseInv, StoreTypeOK
<1>1. CASE GoesOn(r) /\ task[r].pc # "idle"
  BY <1>1, GoesOnKeeps
<1>2. ASSUME NEW op \in DOMAIN First, NEW a \in Loaders, NEW names \in BOOLEAN,
             task[r].pc = "idle", Begins(r, op, a, names)
      PROVE  task' \in [Requests -> Record] /\ Others(r) /\ TaskOK(task'[r])
  <2> DEFINE l == [task[r] EXCEPT !.pc = First[op], !.op = op, !.loader = a, !.names = names]
  <2>1. /\ l \in Record /\ l.pc = First[op] /\ l.op = op /\ l.loader = a /\ l.names = names
        /\ l.todo = task[r].todo /\ l.entity = task[r].entity /\ l.made = task[r].made
    <3>1. First[op] \in Places /\ op \in Operations
      BY FirstTable, PlaceNames DEF Operations
    <3> QED BY <3>1 DEF Record
  <2>2. task' = [task EXCEPT ![r] = l]
    BY <1>2 DEF Begins
  <2> HIDE DEF l
  <2>3. task' \in [Requests -> Record] /\ Others(r) /\ task'[r] = l
    BY <2>1, <2>2, Becomes
  <2>4. /\ l.pc \in DeletingPlaces => op \in Deletions
        /\ l.pc \in {"mark", "list", "find", "configure", "remove", "empty", "pick"}
    BY <2>1, FirstTable DEF DeletingPlaces, Deletions, Operations
  <2>5. l.todo = <<>> /\ \A k \in Loaders : l.made[k] = -1
    BY <1>2, <2>1 DEF TaskOK, Ahead
  <2>6. Ahead(l)
    BY <2>1, <2>5 DEF Ahead
  <2>7. OpAtPlace(l)
    BY <2>1, <2>4, <2>5, FirstTable DEF OpAtPlace, Operations, Processing, Inserting
  <2> QED BY <2>1, <2>3, <2>4, <2>6, <2>7 DEF TaskOK
<1>3. ASSUME task[r].pc \in ReadPlaces, Reads(r),
             task[r].pc \in {"remove", "pick"} => task[r].loader \in Listed(store)
      PROVE  task' \in [Requests -> Record] /\ Others(r) /\ TaskOK(task'[r])
  <2> DEFINE l == [task[r] EXCEPT !.pc = ReadThen[@], !.entity = store]
  <2>1. /\ l \in Record /\ l.pc = ReadThen[task[r].pc] /\ l.op = task[r].op
        /\ l.loader = task[r].loader /\ l.todo = task[r].todo /\ l.entity = store
        /\ l.made = task[r].made /\ l.names = task[r].names
    BY <1>3, ReadTable, PlaceNames, TaskIsRecord DEF Record, ReadPlaces
  <2>2. task' = [task EXCEPT ![r] = l]
    BY <1>3 DEF Reads
  <2> HIDE DEF l
  <2>3. task' \in [Requests -> Record] /\ Others(r) /\ task'[r] = l
    BY <2>1, <2>2, Becomes
  <2>4. /\ l.pc \in DeletingPlaces => task[r].pc \in DeletingPlaces
        /\ l.pc \in Early => task[r].pc \in Early
        /\ l.pc \in Processing => task[r].pc \in Processing
        /\ l.pc \in Inserting => task[r].pc \in Inserting
        /\ l.pc \in {"picking", "removing", "counting"} => task[r].pc = "pick"
        /\ l.pc \notin {"idle", "list", "find", "replacing", "refilling", "closing"}
        /\ l.pc \notin {"upserting", "embedding", "upserted"}
    BY <1>3, <2>1, ReadTable DEF ReadPlaces, DeletingPlaces, Early, Processing, Inserting
  <2>5. Ahead(l)
    BY <2>1, <2>4 DEF TaskOK, Ahead
  <2>6. OpAtPlace(l)
    BY <2>1, <2>4, OpStays DEF TaskOK
  <2> QED BY <1>3, <2>1, <2>3, <2>4, <2>5, <2>6 DEF TaskOK
<1>4. ASSUME task[r].pc = "list", Lists(r)
      PROVE  task' \in [Requests -> Record] /\ Others(r) /\ TaskOK(task'[r])
  <2> DEFINE todo == SetToSeq(Listed(store))
             l == [task[r] EXCEPT !.pc = "find", !.loader = Head(todo), !.todo = Tail(todo)]
  <2>1. todo # <<>> /\ task' = [task EXCEPT ![r] = l]
    BY <1>4 DEF Lists
  <2>2. todo \in Seq(Loaders) /\ \A i, j \in 1..Len(todo) : todo[i] = todo[j] => i = j
    BY LoadersInRow DEF Listed
  <2> HIDE DEF todo
  <2>3. /\ Head(todo) \in Loaders /\ Tail(todo) \in Seq(Loaders)
        /\ \A i \in 1..Len(Tail(todo)) : Tail(todo)[i] # Head(todo)
        /\ \A i, j \in 1..Len(Tail(todo)) : Tail(todo)[i] = Tail(todo)[j] => i = j
    BY <2>1, <2>2, HeadAndTail
  <2>4. /\ l \in Record /\ l.pc = "find" /\ l.op = task[r].op /\ l.loader = Head(todo)
        /\ l.todo = Tail(todo) /\ l.entity = task[r].entity /\ l.made = task[r].made
    BY <2>3, PlaceNames, TaskIsRecord DEF Record
  <2> HIDE DEF l
  <2>5. task' \in [Requests -> Record] /\ Others(r) /\ task'[r] = l
    BY <2>1, <2>4, Becomes
  <2>6. \A k \in Loaders : l.made[k] = -1
    BY <1>4, <2>4 DEF TaskOK, Ahead
  <2>7. \A i \in 1..Len(Tail(todo)) : Tail(todo)[i] \in Loaders
    BY <2>3
  <2>8. Ahead(l)
    BY <2>3, <2>4, <2>6, <2>7 DEF Ahead
  <2>9. OpAtPlace(l)
    BY <1>4, <2>4 DEF TaskOK, OpAtPlace, DeletingPlaces, Processing, Inserting
  <2> QED BY <2>4, <2>5, <2>8, <2>9 DEF TaskOK
<1>5. ASSUME NEW n \in 0..setup.split, task[r].pc = "splitting", Splits(r, n)
      PROVE  task' \in [Requests -> Record] /\ Others(r) /\ TaskOK(task'[r])
  <2> DEFINE made == [task[r].made EXCEPT ![task[r].loader] = n]
             l == [task[r] EXCEPT !.pc = "replacing", !.made = made]
  <2>0. /\ made \in [Loaders -> Int]
        /\ \A k \in Loaders : made[k] = IF k = task[r].loader THEN n ELSE task[r].made[k]
    BY TaskIsRecord
  <2>a. task' = [task EXCEPT ![r] = l]
    BY <1>5 DEF Splits
  <2> HIDE DEF made
  <2>1. /\ l \in Record /\ l.pc = "replacing" /\ l.op = task[r].op
        /\ l.loader = task[r].loader /\ l.todo = task[r].todo /\ l.entity = task[r].entity
        /\ l.names = task[r].names
        /\ \A k \in Loaders : l.made[k] = IF k = task[r].loader THEN n ELSE task[r].made[k]
    BY <2>0, PlaceNames, TaskIsRecord DEF Record
  <2>2. task' = [task EXCEPT ![r] = l]
    BY <2>a
  <2> HIDE DEF l
  <2>3. task' \in [Requests -> Record] /\ Others(r) /\ task'[r] = l
    BY <2>1, <2>2, Becomes
  <2>4. task[r].loader \in Loaders /\ \A i \in 1..Len(task[r].todo) : task[r].todo[i] \in Loaders
    BY TaskIsRecord
  <2>5. Ahead(l)
    BY <2>1, <2>4 DEF TaskOK, Ahead, Early
  <2>6. l.made[l.loader] >= 0
    BY <2>1, <2>4
  <2>7. OpAtPlace(l)
    BY <1>5, <2>1, OpStays DEF TaskOK, DeletingPlaces, Processing, Inserting
  <2> QED BY <2>1, <2>3, <2>5, <2>6, <2>7 DEF TaskOK
<1>6. ASSUME task[r].pc = "configuring", Configures(r)
      PROVE  task' \in [Requests -> Record] /\ Others(r) /\ TaskOK(task'[r])
  <2> DEFINE l == [task[r] EXCEPT !.entity = Configured(r), !.names = Named(r), !.again = ~ @,
                               !.pc = IF task[r].again THEN "embedding" ELSE "upserting"]
  <2>1. /\ Configured(r) \in Rows /\ Sensible(Configured(r))
        /\ Named(r) \in BOOLEAN /\ (task[r].names => Named(r))
    BY TaskIsRecord DEF Configured, Named, Rows, Statuses, TaskOK, Sensible
  <2> HIDE DEF Configured, Named
  <2>2. /\ l \in Record /\ l.pc \in {"embedding", "upserting"} /\ l.op = task[r].op
        /\ l.loader = task[r].loader /\ l.todo = task[r].todo
        /\ l.entity = Configured(r) /\ l.made = task[r].made /\ l.names = Named(r)
    BY <2>1, PlaceNames, TaskIsRecord DEF Record
  <2>3. task' = [task EXCEPT ![r] = l]
    BY <1>6 DEF Configures
  <2> HIDE DEF l
  <2>4. task' \in [Requests -> Record] /\ Others(r) /\ task'[r] = l
    BY <2>2, <2>3, Becomes
  <2>5. Ahead(l)
    BY <2>2 DEF TaskOK, Ahead, Early
  <2>6. OpAtPlace(l)
    BY <1>6, <2>1, <2>2 DEF TaskOK, OpAtPlace, DeletingPlaces, Processing, Inserting, Configures
  <2> QED BY <2>1, <2>2, <2>4, <2>5, <2>6 DEF TaskOK
<1>7. ASSUME task[r].pc = "upserted", TakesNext(r)
      PROVE  task' \in [Requests -> Record] /\ Others(r) /\ TaskOK(task'[r])
  <2> DEFINE todo == task[r].todo
             l == [task[r] EXCEPT !.pc = "find", !.loader = Head(todo), !.todo = Tail(todo)]
  <2>1. todo # <<>> /\ task' = [task EXCEPT ![r] = l]
    BY <1>7 DEF TakesNext
  <2>2. /\ todo \in Seq(Loaders) /\ \A i, j \in 1..Len(todo) : todo[i] = todo[j] => i = j
        /\ \A i \in 1..Len(todo) : task[r].made[todo[i]] = -1
    BY TaskIsRecord DEF TaskOK, Ahead
  <2> HIDE DEF todo
  <2>3. /\ Head(todo) \in Loaders /\ Tail(todo) \in Seq(Loaders) /\ task[r].made[Head(todo)] = -1
        /\ \A i \in 1..Len(Tail(todo)) : /\ Tail(todo)[i] # Head(todo)
                                         /\ task[r].made[Tail(todo)[i]] = -1
        /\ \A i, j \in 1..Len(Tail(todo)) : Tail(todo)[i] = Tail(todo)[j] => i = j
    BY <2>1, <2>2, HeadAndTail
  <2>4. /\ l \in Record /\ l.pc = "find" /\ l.op = task[r].op /\ l.loader = Head(todo)
        /\ l.todo = Tail(todo) /\ l.entity = task[r].entity /\ l.made = task[r].made
    BY <2>3, PlaceNames, TaskIsRecord DEF Record
  <2> HIDE DEF l
  <2>5. task' \in [Requests -> Record] /\ Others(r) /\ task'[r] = l
    BY <2>1, <2>4, Becomes
  <2>6. Ahead(l)
    BY <2>3, <2>4 DEF Ahead
  <2>7. OpAtPlace(l)
    BY <1>7, <2>4 DEF TaskOK, OpAtPlace, DeletingPlaces, Processing, Inserting, TakesNext
  <2> QED BY <2>4, <2>5, <2>6, <2>7 DEF TaskOK
<1>8. ASSUME task[r].pc = "find", Finds(r)
      PROVE  task' \in [Requests -> Record] /\ Others(r) /\ TaskOK(task'[r])
  <2> DEFINE l == [task[r] EXCEPT !.pc = "mark", !.names = TRUE]
  <2>1. /\ l \in Record /\ l.pc = "mark" /\ l.op = task[r].op /\ l.loader = task[r].loader
        /\ l.todo = task[r].todo /\ l.entity = task[r].entity /\ l.made = task[r].made /\ l.names
    BY PlaceNames, TaskIsRecord DEF Record
  <2>2. task' = [task EXCEPT ![r] = l]
    BY <1>8 DEF Finds
  <2> HIDE DEF l
  <2>3. task' \in [Requests -> Record] /\ Others(r) /\ task'[r] = l
    BY <2>1, <2>2, Becomes
  <2>4. Ahead(l)
    BY <1>8, <2>1 DEF TaskOK, Ahead, Early
  <2>5. OpAtPlace(l)
    BY <2>1 DEF TaskOK, OpAtPlace, DeletingPlaces, Inserting
  <2> QED BY <2>1, <2>3, <2>4, <2>5 DEF TaskOK
<1>9. ASSUME task[r].pc = "closing", ClosesUpsert(r)
      PROVE  task' \in [Requests -> Record] /\ Others(r) /\ TaskOK(task'[r])
  <2>1. /\ task' \in [Requests -> Record] /\ Keeps(r) /\ Others(r) /\ task'[r].pc = "configure"
        /\ task'[r].entity = task[r].entity
    BY <1>9, Goes, PlaceNames DEF ClosesUpsert, Ended
  <2>2. Ahead(task'[r])
    BY <2>1 DEF TaskOK, Ahead, Early, Keeps
  <2>3. OpAtPlace(task'[r])
    BY <1>9, <2>1 DEF TaskOK, OpAtPlace, Keeps, DeletingPlaces, Processing, ClosesUpsert
  <2> QED BY <2>1, <2>2, <2>3 DEF TaskOK
<1>10. ASSUME NEW c \in chunks, task[r].pc = "picking" /\ Picks(r, c)
       PROVE  task' \in [Requests -> Record] /\ Others(r) /\ TaskOK(task'[r])
  <2> DEFINE l == [task[r] EXCEPT !.pc = "removing", !.picked = {c}]
  <2>1. /\ l \in Record /\ l.pc = "removing" /\ l.op = task[r].op /\ l.loader = task[r].loader
        /\ l.todo = task[r].todo /\ l.entity = task[r].entity /\ l.made = task[r].made
        /\ l.names = task[r].names
    <3>1. {c} \in SUBSET AllChunks
      BY DEF StoreTypeOK
    <3> QED BY <3>1, PlaceNames DEF Record
  <2>2. task' = [task EXCEPT ![r] = l]
    BY <1>10 DEF Picks
  <2> HIDE DEF l
  <2>3. task' \in [Requests -> Record] /\ Others(r) /\ task'[r] = l
    BY <2>1, <2>2, Becomes
  <2>4. Ahead(l)
    BY <2>1 DEF TaskOK, Ahead, Early
  <2>5. OpAtPlace(l)
    BY <1>10, <2>1, OpStays DEF TaskOK, DeletingPlaces, Processing, Inserting
  <2> QED BY <1>10, <2>1, <2>3, <2>4, <2>5 DEF TaskOK
<1>11. ASSUME task[r].pc = "removing", Removes(r)
       PROVE  task' \in [Requests -> Record] /\ Others(r) /\ TaskOK(task'[r])
  <2> DEFINE l == [task[r] EXCEPT !.pc = "counting", !.picked = {}]
  <2>1. /\ l \in Record /\ l.pc = "counting" /\ l.op = task[r].op /\ l.loader = task[r].loader
        /\ l.todo = task[r].todo /\ l.entity = task[r].entity /\ l.made = task[r].made
        /\ l.names = task[r].names
    BY PlaceNames, TaskIsRecord DEF Record
  <2>2. task' = [task EXCEPT ![r] = l]
    BY <1>11 DEF Removes
  <2> HIDE DEF l
  <2>3. task' \in [Requests -> Record] /\ Others(r) /\ task'[r] = l
    BY <2>1, <2>2, Becomes
  <2>4. Ahead(l)
    BY <2>1 DEF TaskOK, Ahead, Early
  <2>5. OpAtPlace(l)
    BY <1>11, <2>1, OpStays DEF TaskOK, DeletingPlaces, Processing, Inserting
  <2> QED BY <1>11, <2>1, <2>3, <2>4, <2>5 DEF TaskOK
<1> QED BY Moves, <1>1, <1>2, <1>3, <1>4, <1>5, <1>6, <1>7, <1>8, <1>9, <1>10, <1>11

-----------------------------------------------------------------------------
(* What is made of a row. *)

Entries == [status : {"NONE", "SYNCING", "SYNC"}, total : Int]

(* row2 is row with another entry for loader l. *)
Edited(row, row2, l, e) ==
    /\ row2 \in Rows /\ Sensible(row2)
    /\ \A k \in Loaders : row2.loaders[k] = IF k = l THEN e ELSE row.loaders[k]

LEMMA EntryEdited ==
    ASSUME NEW row \in Rows, Sensible(row), NEW l \in Loaders, NEW e \in Entries,
           e.status = "NONE" => e = Absent, NEW exists \in BOOLEAN, NEW status \in Statuses
    PROVE  Edited(row, [exists |-> exists, status |-> status, configured |-> row.configured,
                        loaders |-> [row.loaders EXCEPT ![l] = e]], l, e)
<1>1. row.loaders \in [Loaders -> Entries]
  BY DEF Rows, Entries
<1> QED BY <1>1 DEF Edited, Rows, Entries, Sensible

LEMMA RowParts ==
    ASSUME NEW row \in Rows
    PROVE  /\ row = [exists |-> row.exists, status |-> row.status, configured |-> row.configured,
                     loaders |-> row.loaders]
           /\ row.exists \in BOOLEAN /\ row.status \in Statuses
           /\ \A l \in Loaders : row.loaders[l] \in Entries
BY DEF Rows, Entries

LEMMA MarkedRow ==
    ASSUME NEW row \in Rows, Sensible(row), NEW l \in Loaders
    PROVE  /\ Edited(row, Marked(row, l), l, [status |-> "SYNCING", total |-> 0])
           /\ Marked(row, l).exists /\ Marked(row, l).status = row.status
<1> DEFINE e == [status |-> "SYNCING", total |-> 0]
<1>1. Marked(row, l) = [exists |-> TRUE, status |-> row.status, configured |-> row.configured,
                        loaders |-> [row.loaders EXCEPT ![l] = e]]
  <2> DEFINE loaders == [row.loaders EXCEPT ![l] = e]
  <2>1. Marked(row, l) = [row EXCEPT !.exists = TRUE, !.loaders = loaders]
    BY DEF Marked, Rows
  <2> HIDE DEF loaders
  <2>2. Marked(row, l) = [exists |-> TRUE, status |-> row.status,
                          configured |-> row.configured, loaders |-> loaders]
    BY <2>1 DEF Rows
  <2> QED BY <2>2 DEF loaders
<1>2. e \in Entries /\ e.status # "NONE"
  BY DEF Entries
<1> HIDE DEF e
<1>3. Edited(row, [exists |-> TRUE, status |-> row.status, configured |-> row.configured,
                   loaders |-> [row.loaders EXCEPT ![l] = e]], l, e)
  BY <1>2, RowParts, EntryEdited
<1> QED BY <1>1, <1>3 DEF e

LEMMA SyncedRow ==
    ASSUME NEW row \in Rows, Sensible(row), NEW l \in Loaders, NEW n \in Int
    PROVE  /\ Edited(row, Synced(row, l, n), l, [status |-> "SYNC", total |-> n])
           /\ Synced(row, l, n).exists /\ Synced(row, l, n).status # "UPSERTING"
<1> DEFINE e == [status |-> "SYNC", total |-> n]
<1>1. PICK status \in {"SYNC", "STALE"} :
         Synced(row, l, n) = [exists |-> TRUE, status |-> status, configured |-> row.configured,
                              loaders |-> [row.loaders EXCEPT ![l] = e]]
  <2> DEFINE loaders == [row.loaders EXCEPT ![l] = e]
             all == \A k \in Listed(row) \cup {l} : loaders[k].status = "SYNC"
  <2>1. Synced(row, l, n) = [row EXCEPT !.exists = TRUE, !.loaders = loaders,
                                        !.status = IF all THEN "SYNC" ELSE "STALE"]
    BY DEF Synced, Rows
  <2> HIDE DEF loaders, all
  <2>2. Synced(row, l, n) = [exists |-> TRUE, status |-> IF all THEN "SYNC" ELSE "STALE",
                             configured |-> row.configured, loaders |-> loaders]
    BY <2>1 DEF Rows
  <2> QED BY <2>2 DEF loaders
<1>2. e \in Entries /\ e.status # "NONE" /\ status \in Statuses
  BY DEF Entries, Statuses
<1> HIDE DEF e
<1>3. Edited(row, [exists |-> TRUE, status |-> status, configured |-> row.configured,
                   loaders |-> [row.loaders EXCEPT ![l] = e]], l, e)
  BY <1>2, EntryEdited
<1> QED BY <1>1, <1>3 DEF e

LEMMA CountedRow ==
    ASSUME NEW row \in Rows, Sensible(row), NEW l \in Loaders, l \in Listed(row),
           NEW row2, row2 = [row EXCEPT !.loaders[l].total = @ - 1]
    PROVE  /\ Edited(row, row2, l, [status |-> row.loaders[l].status,
                                    total  |-> row.loaders[l].total - 1])
           /\ row2.exists = row.exists /\ row2.status = row.status
<1> DEFINE e == [status |-> row.loaders[l].status, total |-> row.loaders[l].total - 1]
<1>1. row.loaders[l] \in Entries /\ row.loaders[l].status # "NONE"
  BY RowParts DEF Listed, Sensible
<1>2. e \in Entries /\ e.status # "NONE"
  BY <1>1 DEF Entries
<1>3. [row.loaders[l] EXCEPT !.total = @ - 1] = e
  BY <1>1 DEF Entries
<1>4. row2 = [exists |-> row.exists, status |-> row.status, configured |-> row.configured,
              loaders |-> [row.loaders EXCEPT ![l] = [row.loaders[l] EXCEPT !.total = @ - 1]]]
  BY RowParts
<1> HIDE DEF e
<1>5. Edited(row, [exists |-> row.exists, status |-> row.status, configured |-> row.configured,
                   loaders |-> [row.loaders EXCEPT ![l] = e]], l, e)
  BY <1>2, RowParts, EntryEdited
<1> QED BY <1>3, <1>4, <1>5 DEF e

LEMMA UnlistedRow ==
    ASSUME NEW row \in Rows, Sensible(row), NEW l \in Loaders,
           NEW row2, row2 = [row EXCEPT !.loaders[l] = Absent]
    PROVE  /\ Edited(row, row2, l, Absent)
           /\ row2.exists = row.exists /\ row2.status = row.status
<1>1. row2 = [exists |-> row.exists, status |-> row.status, configured |-> row.configured,
              loaders |-> [row.loaders EXCEPT ![l] = Absent]]
  BY RowParts
<1>2. Absent \in Entries
  BY DEF Absent, Entries
<1>3. Edited(row, [exists |-> row.exists, status |-> row.status, configured |-> row.configured,
                   loaders |-> [row.loaders EXCEPT ![l] = Absent]], l, Absent)
  BY <1>2, RowParts, EntryEdited
<1> QED BY <1>1, <1>3

LEMMA ConfiguredRow ==
    ASSUME NEW r \in Requests, StoreTypeOK, Sensible(task[r].entity)
    PROVE  /\ Configured(r) \in Rows /\ Sensible(Configured(r))
           /\ Configured(r).exists /\ Configured(r).loaders = task[r].entity.loaders
           /\ Configured(r).status = "UPSERTING" =>
                 ~ Named(r) /\ task[r].entity.status = "UPSERTING"
BY TaskIsRecord DEF Configured, Rows, Statuses, Sensible

LEMMA RowWithStatus ==
    ASSUME NEW row \in Rows, Sensible(row), NEW status \in Statuses,
           NEW row2, row2 = [row EXCEPT !.status = status]
    PROVE  /\ row2 \in Rows /\ Sensible(row2)
           /\ row2.exists = row.exists /\ row2.loaders = row.loaders /\ row2.status = status
BY DEF Rows, Sensible

LEMMA EmptiedRow ==
    ASSUME NEW row \in Rows, NEW loaders \in [Loaders -> Entries],
           \A l \in Loaders : loaders[l] = Absent,
           NEW row2, row2 = [row EXCEPT !.exists = FALSE, !.loaders = loaders]
    PROVE  row2 \in Rows /\ Sensible(row2) /\ row2.status = row.status
BY DEF Rows, Entries, Sensible

(* The part of a step that is not locals: types. *)
LEMMA StoreStays ==
    ASSUME BaseInv, NEW r \in Requests, Acts(r)
    PROVE  /\ UNCHANGED <<setup, crashes>> /\ faults' \in Nat /\ (Faultless' => Faultless)
           /\ store' \in Rows /\ Sensible(store')
           /\ chunks' \subseteq chunks
           /\ saving' = saving \/ (Refill(r) /\ saving' = saving \cup NewChunks(r, task[r].loader))
<1>. /\ StoreTypeOK /\ TaskOK(task[r]) /\ store \in Rows /\ Sensible(store)
     /\ task[r].loader \in Loaders /\ task[r].entity \in Rows /\ Sensible(task[r].entity)
     /\ task[r].made[task[r].loader] \in Int
  BY TaskIsRecord DEF BaseInv, StoreTypeOK, TaskOK
<1>1. /\ UNCHANGED <<setup, crashes>> /\ faults' \in Nat /\ (Faultless' => Faultless)
      /\ chunks' \subseteq chunks
      /\ saving' = saving \/ (Refill(r) /\ saving' = saving \cup NewChunks(r, task[r].loader))
  <2>1. UNCHANGED <<setup, crashes>>
    BY DEF Acts, Begun, Begin, Rejected, Read, List, Find, Mark, Split, Clear, Refill, Close,
           Configure, Upserting, Embed, Upserted, DropChunks, Unlist, Empty, Destroy,
           FindChunk, RemoveChunk, CountDown
  <2>2. chunks' \subseteq chunks
    BY DEF Acts, Begun, Begin, Rejected, Read, List, Find, Mark, Split, Clear, Refill, Close,
           Configure, Upserting, Embed, Upserted, DropChunks, Unlist, Empty, Destroy,
           FindChunk, RemoveChunk, CountDown
  <2>3. saving' = saving \/ (Refill(r) /\ saving' = saving \cup NewChunks(r, task[r].loader))
    BY DEF Acts, Begun, Begin, Rejected, Read, List, Find, Mark, Split, Clear, Refill, Close,
           Configure, Upserting, Embed, Upserted, DropChunks, Unlist, Empty, Destroy,
           FindChunk, RemoveChunk, CountDown
  <2>4. faults' = faults \/ (faults < setup.faults /\ faults' = faults + 1)
    BY DEF Acts, Begun, Begin, Rejected, Read, List, Find, Mark, Split, Clear, Refill, Close,
           Configure, Upserting, Embed, Upserted, DropChunks, Unlist, Empty, Destroy,
           FindChunk, RemoveChunk, CountDown
  <2>5. faults' \in Nat /\ (faults' = 0 => faults = 0)
    <3>1. faults \in Nat
      BY DEF StoreTypeOK
    <3> QED BY <2>4, <3>1
  <2>6. Faultless' => Faultless
    BY <2>1, <2>5 DEF Faultless
  <2> QED BY <2>1, <2>2, <2>3, <2>5, <2>6
<1>2. store' \in Rows /\ Sensible(store')
  <2>1. CASE store' = store
    BY <2>1 DEF Sensible
  <2>2. CASE Mark(r)
    BY <2>2, MarkedRow DEF Mark, Edited
  <2>3. CASE Close(r)
    <3>1. store' = Synced(task[r].entity, task[r].loader, task[r].made[task[r].loader])
      BY <2>3 DEF Close
    <3>2. Edited(task[r].entity,
                 Synced(task[r].entity, task[r].loader, task[r].made[task[r].loader]),
                 task[r].loader, [status |-> "SYNC", total |-> task[r].made[task[r].loader]])
      BY SyncedRow
    <3> QED BY <3>1, <3>2 DEF Edited
  <2>4. CASE Configure(r)
    BY <2>4, ConfiguredRow DEF Configure
  <2>5. CASE Upserting(r) \/ Upserted(r)
    BY <2>5, RowWithStatus DEF Upserting, Upserted, Statuses
  <2>6. CASE Unlist(r)
    BY <2>6, UnlistedRow DEF Unlist, Edited
  <2>7. CASE Destroy(r)
    <3> DEFINE loaders == [l \in Loaders |-> Absent]
    <3>1. store' = [store EXCEPT !.exists = FALSE, !.loaders = loaders]
      BY <2>7 DEF Destroy
    <3>2. loaders \in [Loaders -> Entries] /\ \A l \in Loaders : loaders[l] = Absent
      BY DEF Absent, Entries
    <3> HIDE DEF loaders
    <3> QED BY <3>1, <3>2, EmptiedRow
  <2>8. CASE CountDown(r)
    <3> DEFINE entity == task[r].entity
               l == task[r].loader
    <3>1. /\ l \in Listed(entity) /\ Sensible(entity)
          /\ store' = [entity EXCEPT !.loaders[l].total = @ - 1]
      BY <2>8 DEF CountDown, TaskOK
    <3> HIDE DEF entity, l
    <3>2. entity \in Rows /\ l \in Loaders
      BY <3>1 DEF Listed, entity
    <3> QED BY <3>1, <3>2, CountedRow DEF Edited
  <2>9. \/ store' = store \/ Mark(r) \/ Close(r) \/ Configure(r) \/ Upserting(r) \/ Upserted(r)
        \/ Unlist(r) \/ Destroy(r) \/ CountDown(r)
    BY DEF Acts, Begun, Begin, Rejected, Read, List, Find, Split, Clear, Refill, Embed,
           DropChunks, Empty, FindChunk, RemoveChunk
  <2> QED BY <2>1, <2>2, <2>3, <2>4, <2>5, <2>6, <2>7, <2>8, <2>9
<1> QED BY <1>1, <1>2

LEMMA ActsKeepBase ==
    ASSUME BaseInv, NEW r \in Requests, Acts(r)
    PROVE  BaseInv'
<1>1. /\ task' \in [Requests -> Record] /\ Others(r) /\ TaskOK(task'[r])
      /\ UNCHANGED <<setup, crashes>> /\ faults' \in Nat /\ store' \in Rows /\ Sensible(store')
  BY ActsKeep, StoreStays
<1>2. \A d \in Requests : TaskOK(task'[d])
  BY <1>1 DEF BaseInv, Others
<1>3. chunks' \subseteq AllChunks /\ saving' \subseteq AllChunks
  <2>1. NewChunks(r, task[r].loader) \subseteq AllChunks
    BY TaskIsRecord DEF BaseInv, NewChunks, Chunk, AllChunks
  <2> QED BY <2>1, StoreStays DEF BaseInv, StoreTypeOK
<1>4. StoreTypeOK'
  BY <1>1, <1>3 DEF BaseInv, StoreTypeOK, Record
<1> QED BY <1>1, <1>2, <1>4 DEF BaseInv, TaskOK, OpAtPlace, Sensible, Ahead, Listed

LEMMA BaseInvHolds == StoreSpec => []BaseInv
<1>1. StoreInit => BaseInv
  <2> SUFFICES ASSUME StoreInit PROVE BaseInv
    OBVIOUS
  <2> DEFINE t == [pc |-> "idle", op |-> "none", loader |-> CHOOSE l \in Loaders : TRUE,
                   todo |-> <<>>, entity |-> NewRow, again |-> FALSE,
                   names |-> FALSE, picked |-> {}, made |-> [l \in Loaders |-> -1]]
  <2>1. task = [r \in Requests |-> t] /\ store = NewRow /\ chunks = {} /\ saving = {}
        /\ setup \in Setups /\ crashes = 0 /\ faults = 0
    BY DEF StoreInit
  <2>2. (CHOOSE l \in Loaders : TRUE) \in Loaders
    BY StoreAssumption
  <2>3. t \in Record /\ TaskOK(t)
    BY <2>2, NewRowIsRow, PlaceNames
    DEF Record, TaskOK, OpAtPlace, Ahead, DeletingPlaces, Processing, Inserting, Early
  <2> HIDE DEF t
  <2>4. StoreTypeOK
    BY <2>1, <2>3, NewRowIsRow DEF StoreTypeOK, Record
  <2> QED BY <2>1, <2>3, <2>4, NewRowIsRow DEF BaseInv
<1>2. BaseInv /\ [StoreNext]_storeVars => BaseInv'
  <2> SUFFICES ASSUME BaseInv, [StoreNext]_storeVars
               PROVE  BaseInv'
    OBVIOUS
  <2>1. ASSUME NEW r \in Requests, Acts(r)
        PROVE  BaseInv'
    BY <2>1, ActsKeepBase
  <2>2. ASSUME NEW c \in saving, SaveLands(c) \/ SaveFails(c)
        PROVE  BaseInv'
    BY <2>2 DEF SaveLands, SaveFails, BaseInv, StoreTypeOK, TaskOK, OpAtPlace, Sensible, Ahead,
                Listed
  <2>3. CASE Crash
    <3> DEFINE dead(r) == [task[r] EXCEPT !.pc = "dead", !.entity = NewRow, !.picked = {}]
               l(r) == IF Busy(r) THEN dead(r) ELSE task[r]
    <3>1. /\ task' = [r \in Requests |-> l(r)] /\ saving' = {} /\ crashes' = crashes + 1
          /\ UNCHANGED <<setup, store, chunks, faults>>
      BY <2>3 DEF Crash
    <3>2. ASSUME NEW r \in Requests
          PROVE  l(r) \in Record /\ TaskOK(l(r))
      <4>1. task[r] \in Record /\ TaskOK(task[r])
        BY TaskIsRecord DEF BaseInv
      <4>2. dead(r) \in Record
        BY <4>1, NewRowIsRow, PlaceNames DEF Record
      <4>3. /\ dead(r).pc = "dead" /\ dead(r).entity = NewRow /\ dead(r).op = task[r].op
            /\ dead(r).todo = task[r].todo /\ dead(r).made = task[r].made
            /\ dead(r).loader = task[r].loader
        BY <4>1 DEF Record
      <4>4. TaskOK(dead(r))
        <5> HIDE DEF dead
        <5> QED BY <4>1, <4>3, NewRowIsRow
            DEF TaskOK, OpAtPlace, Ahead, DeletingPlaces, Processing, Inserting, Early
      <4> QED BY <4>1, <4>2, <4>4
    <3> HIDE DEF l
    <3>3. StoreTypeOK'
      BY <3>1, <3>2 DEF BaseInv, StoreTypeOK, Record
    <3>4. \A r \in Requests : TaskOK(task'[r])
      BY <3>1, <3>2
    <3> QED BY <3>1, <3>3, <3>4 DEF BaseInv, TaskOK, OpAtPlace, Sensible, Ahead, Listed
  <2>4. CASE UNCHANGED storeVars
    BY <2>4 DEF storeVars, BaseInv, StoreTypeOK, TaskOK, OpAtPlace, Sensible, Ahead, Listed
  <2> QED BY <2>1, <2>2, <2>3, <2>4 DEF StoreNext, Acts, Begun
<1> QED
  BY <1>1, <1>2, PTL DEF StoreSpec

(* The row, the chunks and the locals of every request keep their types,   *)
(* through every overlap, refusal and crash (documentstore/index.ts).      *)
THEOREM StoreTypeCorrect == StoreSpec => []StoreTypeOK
<1>1. BaseInv => StoreTypeOK
  BY DEF BaseInv
<1> QED
  BY <1>1, BaseInvHolds, PTL

-----------------------------------------------------------------------------
(* What the other proofs need to know of a step. *)

Does(r) ==   \* as Moves has it, in terms of the locals before and after
    \/ /\ GoesOn(r) /\ Keeps(r) /\ task[r].pc # "idle" /\ Leads(task[r].pc, task'[r].pc)
       /\ task'[r].again = task[r].again
       /\ task'[r].pc \notin Ended => task'[r].entity = task[r].entity
    \/ /\ task[r].pc = "idle" /\ task'[r].made = task[r].made /\ Begun(r)
       /\ \E op \in Operations : task'[r].op = op /\ task'[r].pc = First[op]
    \/ /\ task[r].pc \in ReadPlaces /\ task'[r].pc = ReadThen[task[r].pc]
       /\ Keeps(r) /\ task'[r].again = task[r].again
       /\ task'[r].entity = store /\ store.exists
       /\ task[r].pc \in {"remove", "pick"} => task[r].loader \in Listed(store)
       /\ UNCHANGED store
    \/ /\ task[r].pc \in {"list", "upserted"} /\ task'[r].pc = "find"
       /\ task'[r].op = task[r].op /\ task'[r].made = task[r].made
       /\ task'[r].names = task[r].names
    \/ /\ task[r].pc = "find" /\ task'[r].pc = "mark"
       /\ task'[r].op = task[r].op /\ task'[r].made = task[r].made
    \/ /\ task[r].pc = "splitting" /\ task'[r].pc = "replacing"
       /\ task'[r].op = task[r].op /\ task'[r].names = task[r].names
       /\ task'[r].loader = task[r].loader /\ task'[r].entity = task[r].entity
       /\ \A l \in Loaders : l # task[r].loader => task'[r].made[l] = task[r].made[l]
    \/ /\ task[r].pc = "closing" /\ task'[r].pc = "configure"
       /\ Keeps(r) /\ task'[r].entity = task[r].entity
    \/ /\ task[r].pc = "configuring" /\ task'[r].entity = Configured(r)
       /\ task'[r].op = task[r].op /\ task'[r].loader = task[r].loader
       /\ task'[r].made = task[r].made /\ task'[r].names = Named(r)
       /\ IF task[r].again THEN task'[r].pc = "embedding"
          ELSE task'[r].pc = "upserting" /\ task'[r].again
    \/ /\ task[r].pc = "picking" /\ task'[r].pc = "removing"
       /\ Keeps(r) /\ task'[r].entity = task[r].entity
    \/ /\ task[r].pc = "removing" /\ task'[r].pc = "counting"
       /\ Keeps(r) /\ task'[r].entity = task[r].entity

LEMMA Effects ==
    ASSUME BaseInv, NEW r \in Requests, Acts(r)
    PROVE  Does(r) /\ Others(r)
<1>. StoreTypeOK /\ TaskOK(task[r]) /\ task[r] \in Record
  BY TaskIsRecord DEF BaseInv
<1>0. Others(r)
  BY ActsKeep
<1>. task \in [Requests -> Record]
  BY DEF StoreTypeOK, Record
<1>1. CASE GoesOn(r) /\ task[r].pc # "idle"
  BY <1>0, <1>1, Goes, PlaceNames DEF GoesOn, Does
<1>2. CASE Begun(r)
  <2>1. PICK op \in DOMAIN First, a \in Loaders, names \in BOOLEAN : Begin(r, op, a, names)
    BY <1>2 DEF Begun
  <2>2. /\ task[r].pc = "idle" /\ op \in Operations
        /\ task'[r] = [task[r] EXCEPT !.pc = First[op], !.op = op, !.loader = a, !.names = names]
    BY <2>1, FirstTable DEF Begin
  <2>3. task'[r].made = task[r].made /\ task'[r].op = op /\ task'[r].pc = First[op]
    BY <2>2 DEF Record
  <2> QED BY <1>0, <1>2, <2>2, <2>3 DEF Does
<1>3. CASE /\ task[r].pc \in ReadPlaces /\ Reads(r) /\ store.exists
           /\ task[r].pc \in {"remove", "pick"} => task[r].loader \in Listed(store)
           /\ UNCHANGED store
  <2>1. task'[r] = [task[r] EXCEPT !.pc = ReadThen[@], !.entity = store]
    BY <1>3 DEF Reads
  <2>2. /\ task'[r].pc = ReadThen[task[r].pc] /\ Keeps(r)
        /\ task'[r].again = task[r].again /\ task'[r].entity = store
    BY <2>1 DEF Record, Keeps
  <2> QED BY <1>0, <1>3, <2>2 DEF Does
<1>4. CASE (task[r].pc = "list" /\ Lists(r)) \/ (task[r].pc = "upserted" /\ TakesNext(r))
  <2>1. \E a, b : task'[r] = [task[r] EXCEPT !.pc = "find", !.loader = a, !.todo = b]
    <3>1. CASE Lists(r)
      BY <3>1 DEF Lists
    <3>2. CASE TakesNext(r)
      BY <3>2 DEF TakesNext
    <3> QED BY <1>4, <3>1, <3>2
  <2>2. /\ task'[r].pc = "find" /\ task'[r].op = task[r].op /\ task'[r].made = task[r].made
        /\ task'[r].names = task[r].names
    BY <2>1 DEF Record
  <2> QED BY <1>0, <1>4, <2>2 DEF Does
<1>5. CASE task[r].pc = "find" /\ Finds(r)
  <2>1. task'[r] = [task[r] EXCEPT !.pc = "mark", !.names = TRUE]
    BY <1>5 DEF Finds
  <2>2. task'[r].pc = "mark" /\ task'[r].op = task[r].op /\ task'[r].made = task[r].made
    BY <2>1 DEF Record
  <2> QED BY <1>0, <1>5, <2>2 DEF Does
<1>6. ASSUME NEW n \in 0..setup.split, task[r].pc = "splitting", Splits(r, n)
      PROVE  Does(r)
  <2>1. task'[r] = [task[r] EXCEPT !.pc = "replacing",
                                   !.made = [task[r].made EXCEPT ![task[r].loader] = n]]
    BY <1>6 DEF Splits
  <2>2. /\ task'[r].pc = "replacing"
        /\ task'[r].op = task[r].op /\ task'[r].names = task[r].names
        /\ task'[r].loader = task[r].loader /\ task'[r].entity = task[r].entity
        /\ \A l \in Loaders : l # task[r].loader => task'[r].made[l] = task[r].made[l]
    BY <2>1 DEF Record
  <2> QED BY <1>6, <2>2 DEF Does
<1>7. CASE task[r].pc = "closing" /\ ClosesUpsert(r)
  <2>1. Keeps(r) /\ task'[r].pc = "configure" /\ task'[r].entity = task[r].entity
    BY <1>7, Goes, PlaceNames DEF ClosesUpsert, Ended
  <2> QED BY <1>0, <1>7, <2>1 DEF Does
<1>8. CASE task[r].pc = "configuring" /\ Configures(r)
  <2>1. task'[r] = [task[r] EXCEPT !.entity = Configured(r), !.names = Named(r), !.again = ~ @,
                                   !.pc = IF task[r].again THEN "embedding" ELSE "upserting"]
    BY <1>8 DEF Configures
  <2> HIDE DEF Configured, Named
  <2>2. /\ task'[r].entity = Configured(r) /\ task'[r].names = Named(r)
        /\ task'[r].op = task[r].op /\ task'[r].loader = task[r].loader
        /\ task'[r].made = task[r].made /\ task'[r].again = ~ task[r].again
        /\ task'[r].pc = IF task[r].again THEN "embedding" ELSE "upserting"
    BY <2>1 DEF Record
  <2>3. CASE task[r].again = TRUE
    BY <1>0, <1>8, <2>2, <2>3 DEF Does
  <2>4. CASE task[r].again = FALSE
    BY <1>0, <1>8, <2>2, <2>4 DEF Does
  <2> QED BY <2>3, <2>4, TaskIsRecord
<1>9. ASSUME NEW c \in chunks, task[r].pc = "picking" /\ Picks(r, c)
      PROVE  Does(r)
  <2>1. task'[r] = [task[r] EXCEPT !.pc = "removing", !.picked = {c}]
    BY <1>9 DEF Picks
  <2>2. task'[r].pc = "removing" /\ Keeps(r) /\ task'[r].entity = task[r].entity
    BY <2>1 DEF Record, Keeps
  <2> QED BY <1>9, <2>2 DEF Does
<1>10. CASE task[r].pc = "removing" /\ Removes(r)
  <2>1. task'[r] = [task[r] EXCEPT !.pc = "counting", !.picked = {}]
    BY <1>10 DEF Removes
  <2>2. task'[r].pc = "counting" /\ Keeps(r) /\ task'[r].entity = task[r].entity
    BY <2>1 DEF Record, Keeps
  <2> QED BY <1>0, <1>10, <2>2 DEF Does
<1>11. task[r].pc = "idle" => Begun(r)
  BY DEF Acts, Rejected, Busy, Read, ReadThen, List, Find, Mark, Split, Clear, Refill, Close,
         Configure, Upserting, Embed, Upserted, DropChunks, Unlist, Empty, Destroy, FindChunk,
         RemoveChunk, CountDown
<1>12. CASE task[r].pc # "idle"
  BY <1>0, <1>1, <1>3, <1>4, <1>5, <1>6, <1>7, <1>8, <1>9, <1>10, <1>12, Moves
<1> QED BY <1>0, <1>2, <1>11, <1>12

-----------------------------------------------------------------------------
(* Requests that process a loader at a time. *)

At(r, place, l) == task[r].pc = place /\ task[r].loader = l

Replaced(r, l) ==
    task[r].made[l] # -1 /\ ~ At(r, "replacing", l) /\ ~ At(r, "refilling", l)

(* What is there of a loader on account of request r. *)
Provides(r, l) ==
    \/ Replaced(r, l) /\ NewChunks(r, l) \subseteq chunks \cup saving
    \/ At(r, "refilling", l)

Whole(l) == (\E r \in Requests : Replaced(r, l)) => \E r \in Requests : Provides(r, l)

Plain == Faultless /\ ~ \E r \in Requests : task[r].op \in Deletions

LEMMA WholeVersionParts == WholeVersion <=> (Plain => \A l \in Loaders : Whole(l))
BY DEF WholeVersion, Plain, Deletions, Whole, Provides, Replaced, At

(* A step that is not about the chunks of loader l. *)
LEMMA WholeStays ==
    ASSUME NEW r \in Requests, Others(r), NEW l \in Loaders, Whole(l),
           Replaced(r, l)' <=> Replaced(r, l),
           Replaced(r, l) => task'[r].made[l] = task[r].made[l],
           At(r, "refilling", l) => At(r, "refilling", l)',
           \A c \in chunks \cup saving : c.loader = l => c \in chunks' \cup saving'
    PROVE  Whole(l)'
<1>1. \A d \in Requests : Replaced(d, l)' <=> Replaced(d, l)
  <2>1. \A d \in Requests : d # r => (Replaced(d, l)' <=> Replaced(d, l))
    BY DEF Replaced, At, Others
  <2> QED BY <2>1
<1>2. ASSUME NEW d \in Requests, Provides(d, l)
      PROVE  Provides(d, l)'
  <2>1. CASE At(d, "refilling", l)
    <3>1. At(d, "refilling", l)'
      BY <2>1 DEF At, Others
    <3> QED BY <3>1 DEF Provides
  <2>2. CASE Replaced(d, l) /\ NewChunks(d, l) \subseteq chunks \cup saving
    <3>1. task'[d].made[l] = task[d].made[l]
      BY <2>2 DEF Others
    <3>2. NewChunks(d, l)' = NewChunks(d, l)
      BY <3>1 DEF NewChunks
    <3>3. \A c \in NewChunks(d, l) : c.loader = l
      BY DEF NewChunks, Chunk
    <3> QED BY <1>1, <2>2, <3>2, <3>3 DEF Provides
  <2> QED BY <1>2, <2>1, <2>2 DEF Provides
<1> QED BY <1>1, <1>2 DEF Whole

LEMMA NewChunksOfLoader ==
    ASSUME NEW r, NEW l
    PROVE  \A c \in NewChunks(r, l) : c.loader = l
BY DEF NewChunks, Chunk

(* Whoever has deleted the chunks saves its own. *)
LEMMA ReplacingKeepsWhole ==
    ASSUME BaseInv, \A l \in Loaders : Whole(l), NEW r \in Requests, Clear(r) \/ Refill(r)
    PROVE  \A l \in Loaders : Whole(l)'
<1> DEFINE k == task[r].loader
<1>1. /\ task[r].pc \in {"replacing", "refilling"} /\ k \in Loaders /\ task[r].made[k] # -1
      /\ chunks \ ChunksOf(k) \subseteq chunks' /\ saving \subseteq saving'
  <2>1. task[r].pc \in {"replacing", "refilling"} /\ k \in Loaders
    BY TaskIsRecord DEF Clear, Refill, BaseInv
  <2>2. task[r].made[k] >= 0
    BY <2>1 DEF BaseInv, TaskOK
  <2> QED BY <2>1, <2>2 DEF Clear, Refill
<1>2. /\ task'[r].pc \in {"refilling", "closing", "failed"} /\ Keeps(r) /\ Others(r)
      /\ Clear(r) => task'[r].pc = "refilling"
      /\ Refill(r) => task'[r].pc # "refilling"
  <2>1. StoreTypeOK
    BY DEF BaseInv
  <2>2. CASE Clear(r)
    <3>1. Goto(r, "refilling") /\ task[r].pc = "replacing"
      BY <2>2 DEF Clear
    <3> QED BY <2>1, <3>1, Goes, PlaceNames DEF Refill
  <2>3. CASE Refill(r)
    <3>1. (Goto(r, "closing") \/ Goto(r, "failed")) /\ task[r].pc = "refilling"
      BY <2>3 DEF Refill
    <3> QED BY <2>1, <3>1, Goes, PlaceNames DEF Clear
  <2> QED BY <2>2, <2>3
<1>3. ASSUME NEW l \in Loaders, l = k
      PROVE  Whole(l)'
  <2>1. CASE Clear(r)
    <3>1. At(r, "refilling", l)'
      BY <1>2, <1>3, <2>1 DEF At, Keeps
    <3> QED BY <3>1 DEF Whole, Provides
  <2>2. CASE Refill(r)
    <3>1. Replaced(r, l)'
      BY <1>1, <1>2, <1>3, <2>2 DEF Replaced, At, Keeps
    <3>2. saving' = saving \cup NewChunks(r, l)
      BY <1>3, <2>2 DEF Refill
    <3>3. NewChunks(r, l)' = NewChunks(r, l)
      BY <1>2 DEF NewChunks, Keeps
    <3> QED BY <3>1, <3>2, <3>3 DEF Whole, Provides
  <2> QED BY <2>1, <2>2
<1>4. ASSUME NEW l \in Loaders, l # k
      PROVE  Whole(l)'
  <2>1. /\ ~ At(r, "replacing", l) /\ ~ At(r, "refilling", l)
        /\ ~ At(r, "replacing", l)' /\ ~ At(r, "refilling", l)'
    BY <1>2, <1>4 DEF At, Keeps
  <2>2. task'[r].made = task[r].made
    BY <1>2 DEF Keeps
  <2>3. \A c \in chunks \cup saving : c.loader = l => c \in chunks' \cup saving'
    BY <1>1, <1>4 DEF ChunksOf
  <2>4. Others(r) /\ Whole(l) /\ (Replaced(r, l)' <=> Replaced(r, l))
    BY <1>2, <2>1, <2>2 DEF Replaced
  <2> HIDE DEF k
  <2> QED BY <2>1, <2>2, <2>3, <2>4, WholeStays
<1> QED BY <1>3, <1>4

LEMMA ActsKeepWhole ==
    ASSUME BaseInv, BaseInv', WholeVersion, NEW r \in Requests, Acts(r)
    PROVE  WholeVersion'
<1> SUFFICES ASSUME Plain' PROVE \A l \in Loaders : Whole(l)'
  BY WholeVersionParts, Zenon
  DEF WholeVersion, Plain, Deletions, Whole, Provides, Replaced, At, Faultless, NewChunks, Chunk
<1>. TaskOK(task[r])
  BY DEF BaseInv
<1>1. Does(r) /\ Others(r) /\ (Faultless' => Faultless)
  BY Effects, StoreStays
<1>2. task[r].op \in Deletions => task'[r].op = task[r].op
  BY <1>1 DEF Does, Keeps, TaskOK, OpAtPlace, Deletions
<1>3. Plain
  BY <1>1, <1>2 DEF Plain, Others
<1>4. \A l \in Loaders : Whole(l)
  BY <1>3, WholeVersionParts
<1>5. ~ Rejected(r)
  <2>1. faults' # faults + 1
    BY <1>3 DEF Plain, Faultless
  <2> QED BY <2>1 DEF Rejected
<1>6. CASE task[r].pc \in {"replacing", "refilling"}
  <2>1. Clear(r) \/ Refill(r)
    BY <1>5, <1>6 DEF Acts, Begun, Begin, Read, ReadThen, List, Find, Mark, Split, Close, Configure,
           Upserting, Embed, Upserted, DropChunks, Unlist, Empty, Destroy, FindChunk,
           RemoveChunk, CountDown
  <2> QED BY <1>4, <2>1, ReplacingKeepsWhole
<1>7. CASE task[r].pc \notin {"replacing", "refilling"}
  <2>1. task[r].pc \notin DeletingPlaces
    BY <1>3 DEF Plain, TaskOK, OpAtPlace
  <2>2. chunks' = chunks /\ saving' = saving
    BY <1>7, <2>1 DEF Acts, Begun, Begin, Rejected, Read, ReadThen, List, Find, Mark, Split, Clear,
           Refill, Close, Configure, Upserting, Embed, Upserted, DropChunks, Unlist, Empty,
           Destroy, FindChunk, RemoveChunk, CountDown, DeletingPlaces
  <2>3. ASSUME NEW l \in Loaders
        PROVE  Whole(l)'
    <3>1. /\ ~ At(r, "replacing", l) /\ ~ At(r, "refilling", l)
          /\ task'[r].pc # "refilling"
      BY <1>1, <1>7, ReadTable, FirstTable DEF At, Does, Leads, ReadPlaces, Operations
    <3>2. CASE task'[r].pc = "replacing"
      <4>1. /\ task[r].pc = "splitting" /\ task'[r].loader = task[r].loader
            /\ task[r].made[task[r].loader] = -1
            /\ l # task[r].loader => task'[r].made[l] = task[r].made[l]
        BY <1>1, <3>2, ReadTable, FirstTable
        DEF Does, Leads, ReadPlaces, Operations, TaskOK, Ahead, Early
      <4>2. Replaced(r, l)' <=> Replaced(r, l)
        BY <3>1, <3>2, <4>1 DEF Replaced, At
      <4>3. Replaced(r, l) => task'[r].made[l] = task[r].made[l]
        BY <4>1 DEF Replaced
      <4> QED BY <1>1, <1>4, <2>2, <3>1, <4>2, <4>3, WholeStays
    <3>3. CASE task'[r].pc # "replacing"
      <4>1. task'[r].made = task[r].made
        BY <1>1, <3>3 DEF Does, Keeps
      <4>2. Replaced(r, l)' <=> Replaced(r, l)
        BY <3>1, <3>3, <4>1 DEF Replaced, At
      <4> QED BY <1>1, <1>4, <2>2, <3>1, <4>1, <4>2, WholeStays
    <3> QED BY <3>2, <3>3
  <2> QED BY <2>3
<1> QED BY <1>6, <1>7

(* However many requests process a loader at a time, and whatever fails    *)
(* half way, the chunks that one of them made of it are all there or on    *)
(* their way, unless one of them has deleted them and saves its own next;  *)
(* as long as nothing is refused it does not fail between the two          *)
(* (index.ts 874-895).                                                     *)
THEOREM OneVersionIsWhole == StoreSpec => []WholeVersion
<1>1. StoreInit => WholeVersion
  BY DEF StoreInit, WholeVersion
<1>2. BaseInv /\ BaseInv' /\ WholeVersion /\ [StoreNext]_storeVars => WholeVersion'
  <2> SUFFICES ASSUME BaseInv, BaseInv', WholeVersion, [StoreNext]_storeVars
               PROVE  WholeVersion'
    OBVIOUS
  <2>1. ASSUME NEW r \in Requests, Acts(r)
        PROVE  WholeVersion'
    BY <2>1, ActsKeepWhole
  <2>2. ASSUME NEW c \in saving, SaveLands(c)
        PROVE  WholeVersion'
    <3>1. /\ task' = task /\ crashes' = crashes /\ faults' = faults
          /\ saving' = saving \ {c} /\ chunks' = chunks \cup {c}
      BY <2>2 DEF SaveLands
    <3>2. chunks' \cup saving' = chunks \cup saving
      BY <2>2, <3>1
    <3> QED BY <3>1, <3>2 DEF WholeVersion, Faultless, NewChunks
  <2>3. CASE Crash \/ \E c \in saving : SaveFails(c)
    <3>1. \/ crashes' = crashes + 1 /\ crashes \in Nat
          \/ faults' = faults + 1 /\ faults \in Nat
      BY <2>3 DEF Crash, SaveFails, BaseInv, StoreTypeOK
    <3>2. ~ Faultless'
      BY <3>1 DEF Faultless
    <3> QED BY <3>2 DEF WholeVersion
  <2>4. CASE UNCHANGED storeVars
    BY <2>4 DEF storeVars, WholeVersion, Faultless, NewChunks
  <2> QED BY <2>1, <2>2, <2>3, <2>4 DEF StoreNext, Acts, Begun
<1> QED
  BY <1>1, <1>2, BaseInvHolds, PTL DEF StoreSpec

-----------------------------------------------------------------------------
(* Requests that wait for one another: rows and chunks. *)

LEMMA WhoActs ==
    ASSUME BaseInv, SoloInv, ~ setup.overlap, NEW r \in Requests, Acts(r)
    PROVE  /\ \A s \in Requests : Busy(s) => s = r
           /\ \A c \in chunks \cup saving : Owned(c)
           /\ task[r].pc # "idle" => Busy(r) /\ AtIt(r)
           /\ task[r].pc = "idle" => saving = {} /\ \A s \in Requests : ~ Busy(s)
           /\ Faultless /\ store.status = "UPSERTING" => Nameless \/ Retries(r)
<1>1. /\ \A s, t \in Requests : Busy(s) /\ Busy(t) => s = t
      /\ \A c \in chunks \cup saving : Owned(c)
      /\ \A s \in Requests : Busy(s) => AtIt(s)
      /\ Faultless /\ store.status = "UPSERTING" => Nameless \/ \E s \in Requests : Retries(s)
  BY DEF SoloInv
<1>2. task[r].pc = "idle" => saving = {} /\ \A s \in Requests : ~ Busy(s)
  <2> SUFFICES ASSUME task[r].pc = "idle" PROVE Begun(r)
    BY DEF Begun, Begin
  <2> QED BY DEF Acts, Rejected, Busy, Read, ReadThen, List, Find, Mark, Split, Clear, Refill,
         Close, Configure, Upserting, Embed, Upserted, DropChunks, Unlist, Empty, Destroy,
         FindChunk, RemoveChunk, CountDown
<1>3. task[r].pc # "idle" => Busy(r)
  BY DEF Acts, Begun, Begin, Rejected, Read, ReadThen, List, Find, Mark, Split, Clear, Refill,
         Close, Configure, Upserting, Embed, Upserted, DropChunks, Unlist, Empty, Destroy,
         FindChunk, RemoveChunk, CountDown, Busy, Ended
<1>4. \A s \in Requests : Busy(s) => s = r
  BY <1>1, <1>2, <1>3
<1>5. \A s \in Requests : Retries(s) => s = r
  BY <1>4 DEF Retries, Busy, Ended
<1> QED BY <1>1, <1>2, <1>3, <1>4, <1>5

(* The insert that had no configuration does not get one later. *)
LEMMA NamelessStays ==
    ASSUME BaseInv, NEW r \in Requests, Acts(r), Nameless, task[r].pc # "configuring"
    PROVE  Nameless'
<1>1. PICK s \in Requests : task[s].op = "insert" /\ ~ task[s].names
  BY DEF Nameless
<1>2. Does(r) /\ Others(r) /\ OpAtPlace(task[r])
  BY Effects DEF BaseInv, TaskOK
<1>3. s = r => task'[r].op = "insert" /\ ~ task'[r].names
  BY <1>1, <1>2 DEF Does, OpAtPlace, Keeps
<1>4. task'[s].op = "insert" /\ ~ task'[s].names
  BY <1>1, <1>2, <1>3 DEF Others
<1> QED BY <1>4 DEF Nameless

(* What a step must show. *)
LEMMA SoloStep ==
    ASSUME BaseInv, SoloInv, ~ setup.overlap, NEW r \in Requests, Acts(r),
           \A c \in chunks' \cup saving' : store'.exists /\ c.loader \in Listed(store'),
           Busy(r)' => AtIt(r)',
           Faultless' /\ store'.status = "UPSERTING" => Nameless' \/ Retries(r)'
    PROVE  SoloInv'
<1>1. Others(r) /\ setup' = setup
  BY Effects, StoreStays
<1>2. \A s \in Requests : s # r => ~ Busy(s)'
  BY <1>1, WhoActs DEF Others, Busy
<1>3. \A s, t \in Requests : Busy(s)' /\ Busy(t)' => s = t
  BY <1>2
<1>4. \A s \in Requests : Busy(s)' => AtIt(s)'
  <2> SUFFICES ASSUME NEW s \in Requests, Busy(s)' PROVE AtIt(s)'
    OBVIOUS
  <2>1. s = r
    BY <1>2
  <2> QED BY <2>1
<1>5. \A c \in (chunks \cup saving)' : Owned(c)'
  BY DEF Owned, Listed
<1> QED BY <1>1, <1>3, <1>4, <1>5 DEF SoloInv

(* A step that does not set UPSERTING, of a request that does not retry. *)
LEMMA LetsGo ==
    ASSUME BaseInv, SoloInv, ~ setup.overlap, NEW r \in Requests, Acts(r),
           store'.status = store.status \/ store'.status # "UPSERTING",
           task[r].pc \notin {"configure", "configuring"}
    PROVE  Faultless' /\ store'.status = "UPSERTING" => Nameless' \/ Retries(r)'
<1> SUFFICES ASSUME Faultless', store'.status = "UPSERTING" PROVE Nameless'
  OBVIOUS
<1>1. Faultless /\ store.status = "UPSERTING"
  BY StoreStays
<1>2. Nameless
  BY <1>1, WhoActs DEF Retries
<1> QED BY <1>2, NamelessStays

(* Rows that list what the row before listed. *)
LEMMA OwnedStay ==
    ASSUME BaseInv, SoloInv, ~ setup.overlap, NEW r \in Requests, Acts(r),
           store.exists => store'.exists,
           \A l \in Loaders : store.loaders[l] # Absent => store'.loaders[l] # Absent,
           saving' \subseteq saving
    PROVE  \A c \in chunks' \cup saving' : store'.exists /\ c.loader \in Listed(store')
<1>1. chunks' \subseteq chunks
  BY StoreStays
<1>2. \A c \in chunks \cup saving : store.exists /\ c.loader \in Listed(store)
  BY WhoActs DEF Owned
<1> QED BY <1>1, <1>2 DEF Listed

LEMMA BeginSolo ==
    ASSUME BaseInv, SoloInv, ~ setup.overlap, NEW r \in Requests, Begun(r)
    PROVE  SoloInv'
<1>. Acts(r)
  BY DEF Acts
<1>1. /\ task[r].pc = "idle"
      /\ store' = store /\ chunks' = chunks /\ saving' = saving
  BY DEF Begun, Begin
<1>2. saving = {}
  BY <1>1, WhoActs
<1>3. task'[r].pc \in {"mark", "list", "find", "configure", "remove", "empty", "pick"}
  <2>1. \E op \in Operations : task'[r].pc = First[op]
    BY <1>1, Effects DEF Does, Leads, ReadPlaces
  <2> QED BY <2>1, FirstTable DEF Operations
<1>4. AtIt(r)'
  BY <1>1, <1>2, <1>3 DEF AtIt, Using, Placed
<1>5. Faultless' /\ store'.status = "UPSERTING" => Nameless' \/ Retries(r)'
  BY <1>1, LetsGo
<1> QED BY <1>1, <1>4, <1>5, OwnedStay, SoloStep

(* A request that fails leaves the row and the chunks as they are. *)
LEMMA FailSolo ==
    ASSUME BaseInv, SoloInv, ~ setup.overlap, NEW r \in Requests, Acts(r), Goto(r, "failed"),
           store' = store, chunks' = chunks, saving' = saving,
           Retries(r) => ~ Faultless', task[r].pc # "configuring" \/ ~ Faultless'
    PROVE  SoloInv'
<1>1. ~ Busy(r)'
  BY Goes, PlaceNames DEF Busy, Ended, BaseInv
<1>2. Faultless' /\ store'.status = "UPSERTING" => Nameless'
  BY WhoActs, StoreStays, NamelessStays
<1> QED BY <1>1, <1>2, OwnedStay, SoloStep

LEMMA RejectedSolo ==
    ASSUME BaseInv, SoloInv, ~ setup.overlap, NEW r \in Requests, Rejected(r)
    PROVE  SoloInv'
<1>1. ~ Faultless'
  <2>1. faults' = faults + 1 /\ faults \in Nat
    BY DEF Rejected, BaseInv, StoreTypeOK
  <2> QED BY <2>1 DEF Faultless
<1>2. /\ Acts(r) /\ Goto(r, "failed") /\ store' = store /\ chunks' = chunks
      /\ saving' = saving
  BY DEF Rejected, Acts
<1> QED BY <1>1, <1>2, FailSolo

LEMMA ReadSolo ==
    ASSUME BaseInv, SoloInv, ~ setup.overlap, NEW r \in Requests, Read(r)
    PROVE  SoloInv'
<1>. Acts(r)
  BY DEF Acts
<1>1. /\ store' = store /\ chunks' = chunks /\ saving' = saving
      /\ task[r].pc \in ReadPlaces
  BY ReadTable DEF Read
<1>2. AtIt(r) /\ Busy(r)
  BY <1>1, WhoActs DEF ReadPlaces
<1>3. CASE store.exists /\ (task[r].pc \in {"remove", "pick"} => task[r].loader \in Listed(store))
  <2>1. /\ task'[r].pc = ReadThen[task[r].pc] /\ Keeps(r) /\ task'[r].again = task[r].again
        /\ task'[r].entity = store
    <3>1. Reads(r)
      BY <1>1, <1>3 DEF Read, Reads
    <3>2. task'[r] = [task[r] EXCEPT !.pc = ReadThen[@], !.entity = store]
      BY <3>1 DEF Reads, BaseInv, StoreTypeOK
    <3> QED BY <3>2, TaskIsRecord DEF Record, Keeps, BaseInv
  <2>2. AtIt(r)'
    BY <1>1, <1>2, <1>3, <2>1, ReadTable
    DEF AtIt, Using, Placed, DeletingPlaces, ReadPlaces, Keeps, ChunksOf
  <2>3. Retries(r) => Retries(r)'
    BY <1>1, <2>1, ReadTable DEF Retries, ReadPlaces, Keeps
  <2>4. Nameless => Nameless'
    BY <1>1, NamelessStays DEF ReadPlaces
  <2>5. Faultless' /\ store'.status = "UPSERTING" => Nameless' \/ Retries(r)'
    BY <1>1, <2>3, <2>4, WhoActs, StoreStays
  <2> QED BY <1>1, <2>2, <2>5, OwnedStay, SoloStep
<1>4. CASE ~ (store.exists
              /\ (task[r].pc \in {"remove", "pick"} => task[r].loader \in Listed(store)))
  <2>1. Goto(r, "failed")
    BY <1>4 DEF Read
  <2>2. ~ Retries(r) /\ task[r].pc # "configuring"
    BY <1>1, <1>4 DEF Retries, ReadPlaces
  <2> QED BY <1>1, <2>1, <2>2, FailSolo
<1> QED BY <1>3, <1>4

(* Steps that leave the row and the chunks as they are. *)
LEMMA AsideSolo ==
    ASSUME BaseInv, SoloInv, ~ setup.overlap, NEW r \in Requests,
           List(r) \/ Find(r) \/ Split(r) \/ Embed(r) \/ FindChunk(r)
    PROVE  SoloInv'
<1>. Acts(r)
  BY DEF Acts
<1>1. /\ store' = store /\ chunks' = chunks /\ saving' = saving
      /\ task[r].pc \in {"list", "find", "splitting", "embedding", "picking"}
  BY DEF List, Find, Split, Embed, FindChunk
<1>2. AtIt(r)
  BY <1>1, WhoActs
<1>3. Does(r) /\ TaskOK(task[r]) /\ saving \subseteq AllChunks
  BY Effects DEF BaseInv, StoreTypeOK
<1>4. /\ task'[r].pc \in {"failed", "done", "find", "mark", "replacing", "upserted", "removing"}
      /\ task'[r].pc = "replacing" =>
            /\ task[r].pc = "splitting" /\ task'[r].loader = task[r].loader
            /\ task'[r].entity = task[r].entity
            /\ \A l \in Loaders : l # task[r].loader => task'[r].made[l] = task[r].made[l]
      /\ task'[r].pc = "upserted" =>
            task[r].pc = "embedding" /\ task'[r].entity = task[r].entity
      /\ task'[r].pc = "removing" =>
            task[r].pc = "picking" /\ task'[r].entity = task[r].entity
      /\ task'[r].pc # "replacing" => task'[r].made = task[r].made
  BY <1>1, <1>3, ReadTable DEF Does, Leads, ReadPlaces, Keeps, Ended
<1>5. \A c \in saving : /\ task'[r].made[c.loader] # -1
                        /\ task'[r].pc \in {"replacing", "refilling"} => task'[r].loader # c.loader
  <2> SUFFICES ASSUME NEW c \in saving
               PROVE  /\ task'[r].made[c.loader] # -1
                      /\ task'[r].pc \in {"replacing", "refilling"} => task'[r].loader # c.loader
    OBVIOUS
  <2>1. c.loader \in Loaders /\ task[r].made[c.loader] # -1
    BY <1>2, <1>3 DEF AtIt, AllChunks
  <2>2. task[r].pc = "splitting" => task[r].made[task[r].loader] = -1
    BY <1>3 DEF TaskOK, Ahead, Early
  <2> QED BY <1>4, <2>1, <2>2
<1>6. AtIt(r)'
  BY <1>1, <1>2, <1>4, <1>5 DEF AtIt, Using, Placed, DeletingPlaces
<1>7. Faultless' /\ store'.status = "UPSERTING" => Nameless' \/ Retries(r)'
  BY <1>1, LetsGo
<1> QED BY <1>1, <1>6, <1>7, OwnedStay, SoloStep

LEMMA MarkSolo ==
    ASSUME BaseInv, SoloInv, ~ setup.overlap, NEW r \in Requests, Mark(r)
    PROVE  SoloInv'
<1>. Acts(r)
  BY DEF Acts
<1> DEFINE k == task[r].loader
<1>1. /\ task[r].pc = "marking" /\ store' = Marked(task[r].entity, k)
      /\ chunks' = chunks /\ saving' = saving /\ Goto(r, "open")
  BY DEF Mark
<1>2. AtIt(r) /\ task[r].entity = store
  BY <1>1, WhoActs DEF AtIt, Using
<1>3. k \in Loaders /\ store \in Rows /\ Sensible(store)
  BY TaskIsRecord DEF BaseInv, StoreTypeOK
<1>4. /\ store'.exists /\ store'.status = store.status
      /\ \A l \in Loaders : store'.loaders[l] =
            IF l = k THEN [status |-> "SYNCING", total |-> 0] ELSE store.loaders[l]
  BY <1>1, <1>2, <1>3, MarkedRow DEF Edited
<1>5. task'[r].pc = "open" /\ Keeps(r)
  BY <1>1, Goes, PlaceNames DEF BaseInv
<1>6. AtIt(r)'
  BY <1>1, <1>2, <1>3, <1>4, <1>5 DEF AtIt, Using, Placed, DeletingPlaces, Keeps
<1>7. \A l \in Loaders : store.loaders[l] # Absent => store'.loaders[l] # Absent
  BY <1>4 DEF Absent
<1>8. Faultless' /\ store'.status = "UPSERTING" => Nameless' \/ Retries(r)'
  BY <1>1, <1>4, LetsGo
<1> QED BY <1>1, <1>4, <1>6, <1>7, <1>8, OwnedStay, SoloStep

LEMMA ClearSolo ==
    ASSUME BaseInv, SoloInv, ~ setup.overlap, NEW r \in Requests, Clear(r)
    PROVE  SoloInv'
<1>. Acts(r)
  BY DEF Acts
<1>1. /\ task[r].pc = "replacing" /\ store' = store /\ Goto(r, "refilling")
      /\ chunks' = chunks \ ChunksOf(task[r].loader) /\ saving' = saving
  BY DEF Clear
<1>2. AtIt(r)
  BY <1>1, WhoActs
<1>3. Keeps(r) /\ task'[r].pc = "refilling" /\ task'[r].entity = task[r].entity
  BY <1>1, Goes, PlaceNames DEF BaseInv, Ended
<1>4. {c \in chunks' : c.loader = task'[r].loader} = {}
  BY <1>1, <1>3 DEF ChunksOf, Keeps
<1>5. AtIt(r)'
  BY <1>1, <1>2, <1>3, <1>4 DEF AtIt, Using, Placed, DeletingPlaces, Keeps, ChunksOf
<1>6. Faultless' /\ store'.status = "UPSERTING" => Nameless' \/ Retries(r)'
  BY <1>1, LetsGo
<1> QED BY <1>1, <1>5, <1>6, OwnedStay, SoloStep

LEMMA RefillSolo ==
    ASSUME BaseInv, SoloInv, ~ setup.overlap, NEW r \in Requests, Refill(r)
    PROVE  SoloInv'
<1>. Acts(r)
  BY DEF Acts
<1> DEFINE k == task[r].loader
<1>1. /\ task[r].pc = "refilling" /\ store' = store /\ chunks' = chunks
      /\ saving' = saving \cup NewChunks(r, k)
      /\ (Goto(r, "closing") \/ Goto(r, "failed"))
  BY DEF Refill
<1>2. AtIt(r) /\ \A c \in chunks \cup saving : store.exists /\ c.loader \in Listed(store)
  BY <1>1, WhoActs DEF Owned
<1>3. k \in Loaders /\ task[r].made[k] >= 0
  BY <1>1, TaskIsRecord DEF BaseInv, TaskOK
<1>4. store.exists /\ k \in Listed(store) /\ store.loaders[k].status = "SYNCING"
  BY <1>1, <1>2, <1>3 DEF AtIt, Placed, Listed, Absent
<1>5. /\ task'[r].pc \in {"closing", "failed"} /\ Keeps(r)
      /\ task'[r].pc = "closing" => task'[r].entity = task[r].entity
  BY <1>1, Goes, PlaceNames DEF BaseInv, Ended
<1>6. \A c \in NewChunks(r, k) : c.loader = k
  BY NewChunksOfLoader
<1>7. \A c \in saving' : task'[r].made[c.loader] # -1
  <2> SUFFICES ASSUME NEW c \in saving' PROVE task[r].made[c.loader] # -1
    BY <1>5 DEF Keeps
  <2>1. CASE c \in saving
    BY <1>2, <2>1 DEF AtIt
  <2>2. CASE c \in NewChunks(r, k)
    BY <1>3, <1>6, <2>2
  <2> QED BY <1>1, <2>1, <2>2
<1>8. AtIt(r)'
  BY <1>1, <1>2, <1>4, <1>5, <1>7 DEF AtIt, Using, Placed, DeletingPlaces, Keeps
<1>9. \A c \in chunks' \cup saving' : store'.exists /\ c.loader \in Listed(store')
  BY <1>1, <1>2, <1>4, <1>6
<1>10. Faultless' /\ store'.status = "UPSERTING" => Nameless' \/ Retries(r)'
  BY <1>1, LetsGo
<1> QED BY <1>8, <1>9, <1>10, SoloStep

LEMMA CloseSolo ==
    ASSUME BaseInv, SoloInv, ~ setup.overlap, NEW r \in Requests, Close(r)
    PROVE  SoloInv'
<1>. Acts(r)
  BY DEF Acts
<1> DEFINE k == task[r].loader
           n == task[r].made[k]
<1>1. /\ task[r].pc = "closing" /\ store' = Synced(task[r].entity, k, n)
      /\ chunks' = chunks /\ saving' = saving
      /\ (Goto(r, "configure") \/ Goto(r, "done"))
  BY DEF Close
<1>2. AtIt(r) /\ task[r].entity = store
  BY <1>1, WhoActs DEF AtIt, Using
<1>3. k \in Loaders /\ n \in Int /\ store \in Rows /\ Sensible(store)
  BY TaskIsRecord DEF BaseInv, StoreTypeOK
<1>4. /\ store'.exists /\ store'.status # "UPSERTING"
      /\ \A l \in Loaders : store'.loaders[l] =
            IF l = k THEN [status |-> "SYNC", total |-> n] ELSE store.loaders[l]
  BY <1>1, <1>2, <1>3, SyncedRow DEF Edited
<1>5. task'[r].pc \in {"configure", "done"} /\ Keeps(r)
  BY <1>1, Goes, PlaceNames DEF BaseInv
<1>6. AtIt(r)'
  BY <1>1, <1>2, <1>5 DEF AtIt, Using, Placed, DeletingPlaces, Keeps
<1>7. \A l \in Loaders : store.loaders[l] # Absent => store'.loaders[l] # Absent
  BY <1>4 DEF Absent
<1>8. Faultless' /\ store'.status = "UPSERTING" => Nameless' \/ Retries(r)'
  BY <1>1, <1>4, LetsGo
<1> QED BY <1>1, <1>4, <1>6, <1>7, <1>8, OwnedStay, SoloStep

(* With a configuration it ends UPSERTING; without one it must have been   *)
(* an insert without one.                                                  *)
LEMMA ConfigureSolo ==
    ASSUME BaseInv, SoloInv, ~ setup.overlap, NEW r \in Requests, Configure(r)
    PROVE  SoloInv'
<1>. Acts(r)
  BY DEF Acts
<1>1. /\ task[r].pc = "configuring" /\ store' = Configured(r)
      /\ chunks' = chunks /\ saving' = saving /\ faults' = faults
  BY DEF Configure
<1>2. AtIt(r) /\ task[r].entity = store /\ store \in Rows /\ Sensible(store)
  BY <1>1, WhoActs DEF AtIt, Using, BaseInv, StoreTypeOK
<1>3. /\ store'.exists /\ store'.loaders = store.loaders
      /\ store'.status = "UPSERTING" => ~ Named(r) /\ store.status = "UPSERTING"
  BY <1>1, <1>2, ConfiguredRow DEF BaseInv
<1>4. /\ task'[r].op = task[r].op /\ task'[r].made = task[r].made
      /\ task'[r].names = task[r].names \/ task'[r].names = Named(r)
      /\ task'[r].pc \in {"done", "failed", "embedding", "upserting"}
      /\ task'[r].pc = "upserting" => task'[r].again
      /\ task'[r].pc \in {"embedding", "upserting"} => task'[r].entity = Configured(r)
  <2>1. Does(r)
    BY Effects
  <2> HIDE DEF Configured, Named
  <2> QED BY <1>1, <2>1, ReadTable DEF Does, Leads, ReadPlaces, Ended, Keeps
<1>5. AtIt(r)'
  <2> HIDE DEF Configured, Named
  <2> QED BY <1>1, <1>2, <1>3, <1>4 DEF AtIt, Using, Placed, DeletingPlaces
<1>6. ASSUME Faultless', store'.status = "UPSERTING"
      PROVE  Nameless'
  <2>1. Faultless /\ store.status = "UPSERTING" /\ ~ Named(r)
    BY <1>3, <1>6, StoreStays
  <2>2. ~ task[r].names
    BY <2>1 DEF Named
  <2>3. PICK s \in Requests : task[s].op = "insert" /\ ~ task[s].names
    BY <2>1, <2>2, WhoActs DEF Retries, Nameless
  <2>4. task'[s].op = "insert" /\ ~ task'[s].names
    <3>1. CASE s = r
      BY <1>4, <2>1, <2>2, <2>3, <3>1
    <3>2. CASE s # r
      BY <2>3, <3>2, Effects DEF Others
    <3> QED BY <3>1, <3>2
  <2> QED BY <2>4 DEF Nameless
<1> QED BY <1>1, <1>3, <1>5, <1>6, OwnedStay, SoloStep

LEMMA UpsertingSolo ==
    ASSUME BaseInv, SoloInv, ~ setup.overlap, NEW r \in Requests, Upserting(r)
    PROVE  SoloInv'
<1>. Acts(r)
  BY DEF Acts
<1>1. /\ task[r].pc = "upserting" /\ Goto(r, "configure")
      /\ store' = [task[r].entity EXCEPT !.status = "UPSERTING"]
      /\ chunks' = chunks /\ saving' = saving
  BY DEF Upserting
<1>2. /\ AtIt(r) /\ task[r].entity = store /\ store.exists /\ task[r].again
      /\ store \in Rows /\ Sensible(store)
  BY <1>1, WhoActs DEF AtIt, Using, BaseInv, StoreTypeOK
<1>3. store'.exists /\ store'.loaders = store.loaders
  BY <1>1, <1>2, RowWithStatus DEF Rows
<1>4. Keeps(r) /\ task'[r].pc = "configure" /\ task'[r].again
  BY <1>1, <1>2, Goes, PlaceNames DEF BaseInv
<1>5. AtIt(r)'
  BY <1>1, <1>2, <1>4 DEF AtIt, Using, Placed, DeletingPlaces, Keeps
<1>6. Nameless' \/ Retries(r)'
  <2>1. CASE task[r].names
    BY <1>3, <1>4, <2>1 DEF Retries, Keeps
  <2>2. CASE ~ task[r].names
    <3>1. task[r].op = "insert"
      BY <1>1, <2>2 DEF BaseInv, TaskOK, OpAtPlace, Inserting
    <3> QED BY <1>4, <2>2, <3>1 DEF Nameless, Keeps
  <2> QED BY <2>1, <2>2
<1> QED BY <1>1, <1>3, <1>5, <1>6, OwnedStay, SoloStep

LEMMA UpsertedSolo ==
    ASSUME BaseInv, SoloInv, ~ setup.overlap, NEW r \in Requests, Upserted(r)
    PROVE  SoloInv'
<1>. Acts(r)
  BY DEF Acts
<1>1. /\ task[r].pc = "upserted" /\ store' = [task[r].entity EXCEPT !.status = "UPSERTED"]
      /\ chunks' = chunks /\ saving' = saving
  BY DEF Upserted
<1>2. AtIt(r) /\ task[r].entity = store /\ store.exists /\ store \in Rows /\ Sensible(store)
  BY <1>1, WhoActs DEF AtIt, Using, BaseInv, StoreTypeOK
<1>3. store'.exists /\ store'.loaders = store.loaders /\ store'.status # "UPSERTING"
  BY <1>1, <1>2 DEF Rows
<1>4. task'[r].pc \in {"done", "find", "failed"} /\ task'[r].made = task[r].made
  BY <1>1, Effects, ReadTable DEF Does, Leads, ReadPlaces, Keeps
<1>5. AtIt(r)'
  BY <1>1, <1>2, <1>4 DEF AtIt, Using, Placed, DeletingPlaces
<1>6. Faultless' /\ store'.status = "UPSERTING" => Nameless' \/ Retries(r)'
  BY <1>1, <1>3, LetsGo
<1> QED BY <1>1, <1>3, <1>5, <1>6, OwnedStay, SoloStep

(* Deletions: nothing is being saved, and the chunks go first. *)
LEMMA DropChunksSolo ==
    ASSUME BaseInv, SoloInv, ~ setup.overlap, NEW r \in Requests, DropChunks(r)
    PROVE  SoloInv'
<1>. Acts(r)
  BY DEF Acts
<1>1. /\ task[r].pc = "dropping" /\ store' = store /\ Goto(r, "unlisting")
      /\ chunks' = chunks \ ChunksOf(task[r].loader) /\ saving' = saving
  BY DEF DropChunks
<1>2. AtIt(r)
  BY <1>1, WhoActs
<1>3. Keeps(r) /\ task'[r].pc = "unlisting" /\ task'[r].entity = task[r].entity
  BY <1>1, Goes, PlaceNames DEF BaseInv, Ended
<1>4. {c \in chunks' : c.loader = task'[r].loader} = {}
  BY <1>1, <1>3 DEF ChunksOf, Keeps
<1>5. AtIt(r)'
  BY <1>1, <1>2, <1>3, <1>4 DEF AtIt, Using, Placed, DeletingPlaces, Keeps, ChunksOf
<1>6. Faultless' /\ store'.status = "UPSERTING" => Nameless' \/ Retries(r)'
  BY <1>1, LetsGo
<1> QED BY <1>1, <1>5, <1>6, OwnedStay, SoloStep

LEMMA UnlistSolo ==
    ASSUME BaseInv, SoloInv, ~ setup.overlap, NEW r \in Requests, Unlist(r)
    PROVE  SoloInv'
<1>. Acts(r)
  BY DEF Acts
<1> DEFINE k == task[r].loader
<1>1. /\ task[r].pc = "unlisting" /\ Goto(r, "done") /\ chunks' = chunks /\ saving' = saving
      /\ store' = [task[r].entity EXCEPT !.loaders[k] = Absent]
  BY DEF Unlist
<1>2. /\ AtIt(r) /\ task[r].entity = store /\ store.exists /\ saving = {} /\ ChunksOf(k) = {}
      /\ store \in Rows /\ Sensible(store) /\ k \in Loaders
  BY <1>1, WhoActs, TaskIsRecord DEF AtIt, Using, DeletingPlaces, BaseInv, StoreTypeOK
<1>3. /\ store'.exists = store.exists /\ store'.status = store.status
      /\ \A l \in Loaders : store'.loaders[l] = IF l = k THEN Absent ELSE store.loaders[l]
  <2> HIDE DEF k
  <2>1. store' = [store EXCEPT !.loaders[k] = Absent]
    BY <1>1, <1>2
  <2>2. /\ Edited(store, store', k, Absent) /\ store'.exists = store.exists
        /\ store'.status = store.status
    <3>1. store \in Rows /\ Sensible(store) /\ k \in Loaders
      BY <1>2
    <3> QED BY <2>1, <3>1, UnlistedRow
  <2> QED BY <2>2 DEF Edited
<1>4. ~ Busy(r)'
  BY <1>1, Goes, PlaceNames DEF Busy, Ended, BaseInv
<1>5. \A c \in chunks' \cup saving' : store'.exists /\ c.loader \in Listed(store')
  <2> SUFFICES ASSUME NEW c \in chunks PROVE c.loader \in Listed(store')
    BY <1>1, <1>2, <1>3
  <2>1. c.loader \in Listed(store) /\ c.loader # k
    BY <1>2, WhoActs DEF Owned, ChunksOf
  <2> QED BY <1>3, <2>1 DEF Listed
<1>6. Faultless' /\ store'.status = "UPSERTING" => Nameless' \/ Retries(r)'
  BY <1>1, <1>3, LetsGo
<1> QED BY <1>4, <1>5, <1>6, SoloStep

LEMMA DestroySolo ==
    ASSUME BaseInv, SoloInv, ~ setup.overlap, NEW r \in Requests, Empty(r) \/ Destroy(r)
    PROVE  SoloInv'
<1>. Acts(r)
  BY DEF Acts
<1>1. CASE Empty(r)
  <2>1. /\ task[r].pc = "empty" /\ store' = store /\ Goto(r, "destroy")
        /\ chunks' = {} /\ saving' = saving
    BY <1>1 DEF Empty
  <2>2. AtIt(r) /\ saving = {}
    BY <2>1, WhoActs DEF AtIt, DeletingPlaces
  <2>3. task'[r].pc = "destroy"
    BY <2>1, Goes, PlaceNames DEF BaseInv
  <2>4. AtIt(r)'
    BY <2>1, <2>2, <2>3 DEF AtIt, Using, Placed
  <2>5. Faultless' /\ store'.status = "UPSERTING" => Nameless' \/ Retries(r)'
    BY <2>1, LetsGo
  <2> QED BY <2>1, <2>4, <2>5, OwnedStay, SoloStep
<1>2. CASE Destroy(r)
  <2>1. /\ task[r].pc = "destroying" /\ Goto(r, "done") /\ chunks' = chunks /\ saving' = saving
        /\ store' = [store EXCEPT !.exists = FALSE, !.loaders = [l \in Loaders |-> Absent]]
    BY <1>2 DEF Destroy
  <2>2. chunks' \cup saving' = {} /\ store \in Rows
    BY <2>1, WhoActs DEF AtIt, DeletingPlaces, BaseInv, StoreTypeOK
  <2>3. ~ Busy(r)'
    BY <2>1, Goes, PlaceNames DEF Busy, Ended, BaseInv
  <2>4. store'.status = store.status
    BY <2>1, <2>2 DEF Rows
  <2>5. Faultless' /\ store'.status = "UPSERTING" => Nameless' \/ Retries(r)'
    BY <2>1, <2>4, LetsGo
  <2> QED BY <2>2, <2>3, <2>5, SoloStep
<1> QED BY <1>1, <1>2

LEMMA ChunkSolo ==
    ASSUME BaseInv, SoloInv, ~ setup.overlap, NEW r \in Requests, RemoveChunk(r) \/ CountDown(r)
    PROVE  SoloInv'
<1>. Acts(r)
  BY DEF Acts
<1>1. CASE RemoveChunk(r)
  <2>1. /\ task[r].pc = "removing" /\ store' = store /\ saving' = saving
    BY <1>1 DEF RemoveChunk
  <2>2. AtIt(r)
    BY <2>1, WhoActs
  <2>3. /\ task'[r].pc \in {"failed", "counting"} /\ Keeps(r)
        /\ task'[r].pc = "counting" => task'[r].entity = task[r].entity
    BY <2>1, Effects, ReadTable DEF Does, Leads, ReadPlaces
  <2>4. AtIt(r)'
    BY <2>1, <2>2, <2>3 DEF AtIt, Using, Placed, DeletingPlaces, Keeps
  <2>5. Faultless' /\ store'.status = "UPSERTING" => Nameless' \/ Retries(r)'
    BY <2>1, LetsGo
  <2> QED BY <2>1, <2>4, <2>5, OwnedStay, SoloStep
<1>2. CASE CountDown(r)
  <2> DEFINE k == task[r].loader
  <2>1. /\ task[r].pc = "counting" /\ Goto(r, "done") /\ chunks' = chunks /\ saving' = saving
        /\ store' = [task[r].entity EXCEPT !.loaders[k].total = @ - 1]
    BY <1>2 DEF CountDown
  <2>2. task[r].entity = store /\ store \in Rows /\ Sensible(store) /\ k \in Listed(store)
    BY <2>1, WhoActs DEF AtIt, Using, BaseInv, StoreTypeOK, TaskOK
  <2>3. k \in Loaders /\ store' = [task[r].entity EXCEPT !.loaders[k].total = @ - 1]
    BY <2>1, TaskIsRecord DEF BaseInv
  <2> HIDE DEF k
  <2>4. /\ store'.exists = store.exists /\ store'.status = store.status
        /\ \A l \in Loaders : store'.loaders[l] =
              IF l = k THEN [status |-> store.loaders[k].status,
                             total |-> store.loaders[k].total - 1]
              ELSE store.loaders[l]
    <3>1. store' = [store EXCEPT !.loaders[k].total = @ - 1]
      BY <2>2, <2>3
    <3>2. /\ Edited(store, store', k, [status |-> store.loaders[k].status,
                                      total  |-> store.loaders[k].total - 1])
          /\ store'.exists = store.exists /\ store'.status = store.status
      BY <2>2, <2>3, <3>1, CountedRow
    <3> QED BY <3>2 DEF Edited
  <2>5. store.loaders[k].status # "NONE"
    BY <2>2, <2>3 DEF Sensible, Listed
  <2>6. \A l \in Loaders : store.loaders[l] # Absent => store'.loaders[l] # Absent
    BY <2>4, <2>5 DEF Absent
  <2>7. ~ Busy(r)'
    BY <2>1, Goes, PlaceNames DEF Busy, Ended, BaseInv
  <2>8. Faultless' /\ store'.status = "UPSERTING" => Nameless' \/ Retries(r)'
    BY <2>1, <2>4, LetsGo
  <2> QED BY <2>1, <2>4, <2>6, <2>7, <2>8, OwnedStay, SoloStep
<1> QED BY <1>1, <1>2

LEMMA SaveSolo ==
    ASSUME BaseInv, SoloInv, ~ setup.overlap, NEW c \in saving, SaveLands(c) \/ SaveFails(c)
    PROVE  SoloInv'
<1>1. /\ setup' = setup /\ store' = store /\ task' = task
      /\ saving' = saving \ {c} /\ chunks' \subseteq chunks \cup {c}
      /\ Faultless' => Faultless
  <2>1. faults' = faults \/ (faults' = faults + 1 /\ faults \in Nat)
    BY DEF SaveLands, SaveFails, BaseInv, StoreTypeOK
  <2> QED BY <2>1 DEF SaveLands, SaveFails, Faultless
<1>2. chunks' \cup saving' \subseteq chunks \cup saving /\ saving' \subseteq saving
  BY <1>1
<1>3. ASSUME NEW r \in Requests, AtIt(r)
      PROVE  AtIt(r)'
  <2>1. saving # {}
    OBVIOUS
  <2>2. task[r].pc \notin DeletingPlaces
    BY <1>3, <2>1 DEF AtIt
  <2>3. task[r].pc = "refilling" => c.loader # task[r].loader
    BY <1>3 DEF AtIt
  <2>4. task'[r].pc \in {"unlisting", "refilling"} => ChunksOf(task[r].loader)' = {}
    BY <1>1, <1>3, <2>2, <2>3 DEF AtIt, ChunksOf, DeletingPlaces
  <2> QED BY <1>1, <1>2, <1>3, <2>2, <2>4 DEF AtIt, DeletingPlaces, ChunksOf
<1>4. \A r \in Requests : Busy(r)' <=> Busy(r)
  BY <1>1 DEF Busy
<1>5. (Nameless \/ \E r \in Requests : Retries(r)) =>
         Nameless' \/ \E r \in Requests : Retries(r)'
  BY <1>1 DEF Retries, Nameless
<1>6. \A d \in (chunks \cup saving)' : Owned(d)'
  <2>1. \A d \in chunks \cup saving : Owned(d)
    BY DEF SoloInv
  <2> QED BY <1>1, <1>2, <2>1 DEF Owned, Listed
<1> QED BY <1>1, <1>3, <1>4, <1>5, <1>6 DEF SoloInv

LEMMA CrashSolo ==
    ASSUME BaseInv, SoloInv, ~ setup.overlap, Crash
    PROVE  SoloInv'
<1>1. /\ setup' = setup /\ store' = store /\ chunks' = chunks /\ saving' = {}
      /\ crashes' = crashes + 1 /\ crashes \in Nat
  BY Zenon DEF Crash, BaseInv, StoreTypeOK
<1>2. crashes' # 0
  BY <1>1
<1>3. ASSUME NEW r \in Requests
      PROVE  ~ Busy(r)'
  <2>1. task'[r] = IF Busy(r) THEN [task[r] EXCEPT !.pc = "dead", !.entity = NewRow, !.picked = {}]
                   ELSE task[r]
    BY Zenon DEF Crash
  <2>2. CASE Busy(r)
    <3>1. task'[r].pc = "dead"
      BY <2>1, <2>2, TaskIsRecord DEF BaseInv, Record
    <3> QED BY <3>1 DEF Busy, Ended
  <2>3. CASE ~ Busy(r)
    BY <2>1, <2>3 DEF Busy
  <2> QED BY <2>2, <2>3
<1>4. \A d \in (chunks \cup saving)' : Owned(d)'
  <2>1. \A d \in chunks \cup saving : Owned(d)
    BY DEF SoloInv
  <2> QED BY <1>1, <2>1 DEF Owned, Listed
<1> QED BY <1>1, <1>2, <1>3, <1>4 DEF SoloInv, Faultless

LEMMA SoloInvHolds == StoreSpec => []SoloInv
<1>1. StoreInit => SoloInv
  <2> SUFFICES ASSUME StoreInit PROVE SoloInv
    OBVIOUS
  <2>1. chunks = {} /\ saving = {} /\ store.status # "UPSERTING"
    BY DEF StoreInit, NewRow
  <2>2. \A r \in Requests : task[r].pc = "idle"
    BY DEF StoreInit
  <2> QED BY <2>1, <2>2 DEF SoloInv, Busy
<1>2. BaseInv /\ SoloInv /\ [StoreNext]_storeVars => SoloInv'
  <2> SUFFICES ASSUME BaseInv, SoloInv, [StoreNext]_storeVars PROVE SoloInv'
    OBVIOUS
  <2>1. CASE UNCHANGED storeVars
    BY <2>1 DEF storeVars, SoloInv, Busy, Owned, Listed, AtIt, ChunksOf, Retries, Nameless,
                Faultless
  <2>2. CASE StoreNext /\ setup.overlap
    <3>1. setup' = setup
      <4>1. ASSUME NEW r \in Requests, Acts(r)
            PROVE  setup' = setup
        BY <4>1, StoreStays
      <4>2. (\E c \in saving : SaveLands(c) \/ SaveFails(c)) => setup' = setup
        BY DEF SaveLands, SaveFails
      <4>3. Crash => setup' = setup
        BY Zenon DEF Crash
      <4> QED BY <2>2, <4>1, <4>2, <4>3 DEF StoreNext, Acts, Begun
    <3> QED BY <2>2, <3>1 DEF SoloInv
  <2>3. CASE StoreNext /\ ~ setup.overlap
    <3>1. ASSUME NEW r \in Requests, Acts(r)
          PROVE  SoloInv'
      <4>1. CASE Begun(r) \/ Rejected(r)
        BY <2>3, <4>1, BeginSolo, RejectedSolo
      <4>2. CASE Read(r)
        BY <2>3, <4>2, ReadSolo
      <4>3. CASE List(r) \/ Find(r) \/ Split(r) \/ Embed(r) \/ FindChunk(r)
        BY <2>3, <4>3, AsideSolo
      <4>4. CASE Mark(r) \/ Clear(r) \/ Refill(r) \/ Close(r)
        BY <2>3, <4>4, MarkSolo, ClearSolo, RefillSolo, CloseSolo
      <4>5. CASE Configure(r) \/ Upserting(r) \/ Upserted(r)
        BY <2>3, <4>5, ConfigureSolo, UpsertingSolo, UpsertedSolo
      <4>6. CASE DropChunks(r) \/ Unlist(r)
        BY <2>3, <4>6, DropChunksSolo, UnlistSolo
      <4>7. CASE Empty(r) \/ Destroy(r)
        BY <2>3, <4>7, DestroySolo
      <4>8. CASE RemoveChunk(r) \/ CountDown(r)
        BY <2>3, <4>8, ChunkSolo
      <4> QED BY <3>1, <4>1, <4>2, <4>3, <4>4, <4>5, <4>6, <4>7, <4>8 DEF Acts
    <3>2. ASSUME NEW c \in saving, SaveLands(c) \/ SaveFails(c)
          PROVE  SoloInv'
      BY <2>3, <3>2, SaveSolo
    <3>3. CASE Crash
      BY <2>3, <3>3, CrashSolo
    <3> QED BY <2>3, <3>1, <3>2, <3>3 DEF StoreNext, Acts, Begun
  <2> QED BY <2>1, <2>2, <2>3
<1> QED BY <1>1, <1>2, BaseInvHolds, PTL DEF StoreSpec

(* While requests wait for one another, no chunk is left without its       *)
(* loader, whatever fails, is refused or crashes half way: a loader is on  *)
(* the row before its chunks are saved, and they are deleted before it     *)
(* leaves the row (index.ts 124-131, 278-298, 713, 875-894).               *)
THEOREM NoChunkOrphaned == StoreSpec => []NoOrphans
<1>1. SoloInv => NoOrphans
  BY DEF SoloInv, NoOrphans, Owned
<1> QED BY <1>1, SoloInvHolds, PTL

(* While requests wait for one another and nothing is refused or crashes,  *)
(* an upsert that fails does not leave the store UPSERTING, unless an      *)
(* insert came when nothing was configured: whoever else has set it goes   *)
(* on to save a configuration again, and cannot fail before that           *)
(* (index.ts 1054-1058, 1077-1079, 1203).                                  *)
THEOREM UpsertsLetGo == StoreSpec => []NotStuckUpserting
<1>1. SoloInv => NotStuckUpserting
  BY DEF SoloInv, NotStuckUpserting, Quiet, Retries, Nameless, Busy, Ended
<1> QED BY <1>1, SoloInvHolds, PTL

-----------------------------------------------------------------------------
(* Requests that wait for one another: counts. *)

Orderly == ~ setup.overlap /\ ~ setup.astray

LEMMA NewChunksCount ==
    ASSUME NEW r \in Requests, NEW l \in Loaders, task[r].made[l] \in Nat
    PROVE  /\ IsFiniteSet(NewChunks(r, l))
           /\ Cardinality(NewChunks(r, l)) = task[r].made[l]
<1> DEFINE n == task[r].made[l]
           f == [i \in 1..n |-> Chunk(l, r, i)]
<1>1. IsFiniteSet(1..n) /\ Cardinality(1..n) = n
  <2> HIDE DEF n
  <2>1. n \in Nat
    BY DEF n
  <2>2. IsFiniteSet(1..n) /\ Cardinality(1..n) = IF 1 > n THEN 0 ELSE n - 1 + 1
    <3>1. 1 \in Int /\ n \in Int
      BY <2>1
    <3> QED BY <3>1, FS_Interval, Zenon
  <2> QED BY <2>1, <2>2
<1>2. NewChunks(r, l) = {Chunk(l, r, i) : i \in 1..n}
  BY DEF NewChunks
<1>3. f \in Bijection(1..n, NewChunks(r, l))
  <2>1. f \in [1..n -> NewChunks(r, l)] /\ \A c \in NewChunks(r, l) : \E i \in 1..n : f[i] = c
    BY <1>2
  <2>2. \A i, j \in 1..n : f[i] = f[j] => i = j
    BY DEF Chunk
  <2> HIDE DEF f
  <2> QED BY <2>1, <2>2 DEF Bijection, Injection, Surjection, IsInjective
<1>4. ExistsBijection(1..n, NewChunks(r, l))
  BY <1>3 DEF ExistsBijection
<1> HIDE DEF n
<1> QED BY <1>1, <1>4, FS_Bijection DEF n

LEMMA PoolFinite ==
    ASSUME IsFiniteSet(chunks), IsFiniteSet(saving), NEW l
    PROVE  IsFiniteSet(Pool(l)) /\ Cardinality(Pool(l)) \in Nat
<1>1. IsFiniteSet(chunks \cup saving) /\ Pool(l) \subseteq chunks \cup saving
  BY FS_Union DEF Pool
<1> QED BY <1>1, FS_Subset, FS_CardinalityType

(* The counts before a step of request r, and what is known of it, ... *)
LEMMA CountsGiven ==
    ASSUME BaseInv, SoloInv, CountInv, Orderly, NEW r \in Requests, Acts(r)
    PROVE  /\ IsFiniteSet(chunks) /\ IsFiniteSet(saving)
           /\ ~ store.exists => \A l \in Loaders : store.loaders[l] = Absent
           /\ \A l \in Loaders : Tally(r, l)
           /\ \A s \in Requests : Busy(s) => s = r
           /\ task[r].pc # "idle" => AtIt(r)
<1>. ~ setup.overlap /\ ~ setup.astray
  BY DEF Orderly
<1>1. CASE task[r].pc = "idle"
  <2>1. \A l \in Loaders : Settled(l)
    BY <1>1, WhoActs DEF CountInv
  <2> QED BY <1>1, <2>1, WhoActs DEF CountInv, Settled, Tally, Expected
<1>2. CASE task[r].pc # "idle"
  BY <1>2, WhoActs DEF CountInv
<1> QED BY <1>1, <1>2

(* ... and what the step must show. *)
LEMMA CountStep ==
    ASSUME BaseInv, SoloInv, CountInv, Orderly, NEW r \in Requests, Acts(r),
           ~ store'.exists => \A l \in Loaders : store'.loaders[l] = Absent,
           \A l \in Loaders : Tally(r, l)',
           task'[r].pc # "closing" \/ Refill(r), task'[r].pc # "removing" \/ FindChunk(r)
    PROVE  CountInv'
<1>1. Others(r) /\ setup' = setup
  BY Effects, StoreStays
<1>2. \A s \in Requests : s # r => ~ Busy(s) /\ ~ Busy(s)'
  BY <1>1, CountsGiven DEF Others, Busy
<1>3. IsFiniteSet(chunks') /\ IsFiniteSet(saving')
  <2>1. IsFiniteSet(chunks')
    <3>1. IsFiniteSet(chunks) /\ chunks' \in SUBSET chunks
      BY CountsGiven, StoreStays
    <3> QED BY <3>1, FS_Subset
  <2>2. CASE saving' = saving
    BY <2>1, <2>2, CountsGiven
  <2>3. CASE Refill(r) /\ saving' = saving \cup NewChunks(r, task[r].loader)
    <3>1. task[r].loader \in Loaders /\ task[r].made[task[r].loader] \in Nat
      BY <2>3, TaskIsRecord DEF BaseInv, TaskOK, Refill
    <3>2. IsFiniteSet(NewChunks(r, task[r].loader)) /\ IsFiniteSet(saving)
      BY <3>1, NewChunksCount, CountsGiven
    <3> QED BY <2>1, <2>3, <3>2, FS_Union
  <2> QED BY <2>1, <2>2, <2>3, StoreStays
<1>4. \A s \in Requests : Busy(s)' => \A l \in Loaders : Tally(s, l)'
  <2> SUFFICES ASSUME NEW s \in Requests, Busy(s)', NEW l \in Loaders PROVE Tally(s, l)'
    OBVIOUS
  <2>1. s = r
    BY <1>2
  <2> QED BY <2>1
<1>5. (\A s \in Requests : ~ Busy(s)') => \A l \in Loaders : Settled(l)'
  <2> SUFFICES ASSUME ~ Busy(r)', NEW l \in Loaders PROVE Settled(l)'
    OBVIOUS
  <2>1. task'[r].pc \notin {"counting", "unlisting", "destroy", "destroying"}
    BY DEF Busy, Ended
  <2> QED BY <2>1 DEF Tally, Settled, Expected, Leaving
<1>6. ASSUME NEW s \in Requests, task'[s].pc = "closing"
      PROVE  Pool(task[s].loader)' = NewChunks(s, task[s].loader)'
  <2>1. s = r
    BY <1>2, <1>6 DEF Busy, Ended
  <2>2. Refill(r)
    BY <1>6, <2>1
  <2> DEFINE k == task[r].loader
  <2>3. /\ chunks' = chunks /\ saving' = saving \cup NewChunks(r, k)
        /\ task[r].pc = "refilling"
    BY <2>2 DEF Refill
  <2>4. task'[r].loader = k /\ task'[r].made = task[r].made
    BY <2>2, Goes, PlaceNames DEF Refill, BaseInv, Keeps
  <2>5. /\ \A c \in saving : c.loader # k
        /\ \A c \in chunks : c.loader # k
    BY <2>3, CountsGiven DEF AtIt, ChunksOf
  <2>6. \A c \in NewChunks(r, k) : c.loader = k
    BY NewChunksOfLoader
  <2> HIDE DEF k
  <2>7. {c \in chunks' \cup saving' : c.loader = k} = NewChunks(r, k)
    BY <2>3, <2>5, <2>6
  <2>8. {Chunk(k, r, i) : i \in 1..task'[r].made[k]} = NewChunks(r, k)
    BY <2>4 DEF NewChunks
  <2> QED BY <2>1, <2>4, <2>7, <2>8 DEF Pool, NewChunks
<1>7. ASSUME NEW s \in Requests, task'[s].pc = "removing"
      PROVE  \E c \in ChunksOf(task[s].loader)' : task'[s].picked = {c}
  <2>1. s = r /\ FindChunk(r)
    BY <1>2, <1>7 DEF Busy, Ended
  <2>2. task[r] \in Record
    BY TaskIsRecord DEF BaseInv
  <2>3. ~ Goto(r, "failed")
    BY <1>7, <2>1, Goes, PlaceNames DEF BaseInv
  <2>4. PICK c \in chunks :
           /\ c.loader = task[r].loader /\ chunks' = chunks
           /\ task'[r] = [task[r] EXCEPT !.pc = "removing", !.picked = {c}]
    BY <2>1, <2>3 DEF FindChunk, Orderly, BaseInv, StoreTypeOK
  <2>5. task'[r].picked = {c} /\ task'[r].loader = task[r].loader
    BY <2>2, <2>4 DEF Record
  <2>6. c \in ChunksOf(task[r].loader)'
    BY <2>4, <2>5 DEF ChunksOf
  <2> QED BY <2>1, <2>5, <2>6
<1> QED BY <1>1, <1>3, <1>4, <1>5, <1>6, <1>7 DEF CountInv

(* A loader that a step does not touch. *)
LEMMA TallyStays ==
    ASSUME NEW r \in Requests, NEW l \in Loaders, Tally(r, l), Faultless' => Faultless,
           Pool(l)' = Pool(l), store'.loaders[l] = store.loaders[l],
           Expected(r, l)' = Expected(r, l), Leaving(r, l) => Leaving(r, l)'
    PROVE  Tally(r, l)'
BY DEF Tally

(* Steps that leave the chunks and the loaders of the row as they are. *)
LEMMA AsideCounts ==
    ASSUME BaseInv, SoloInv, CountInv, Orderly, NEW r \in Requests, Acts(r),
           chunks' = chunks, saving' = saving, store'.loaders = store.loaders,
           store.exists => store'.exists,
           task[r].pc \notin {"counting", "unlisting", "destroying"},
           task[r].pc = "destroy" => task'[r].pc = "destroying" \/ ~ store.exists,
           task'[r].pc \notin {"counting", "closing"}, task'[r].pc # "removing" \/ FindChunk(r)
    PROVE  CountInv'
<1>1. /\ \A l \in Loaders : Tally(r, l)
      /\ ~ store.exists => \A l \in Loaders : store.loaders[l] = Absent
  BY CountsGiven
<1>2. Faultless' => Faultless
  BY StoreStays
<1>3. ~ store'.exists => \A l \in Loaders : store'.loaders[l] = Absent
  BY <1>1
<1>4. ASSUME NEW l \in Loaders
      PROVE  Tally(r, l)'
  <2>1. CASE ~ store.exists
    <3>1. store'.loaders[l].status = "NONE"
      BY <1>1, <2>1 DEF Absent
    <3> QED BY <3>1 DEF Tally
  <2>2. CASE store.exists
    <3>1. Pool(l)' = Pool(l)
      BY DEF Pool
    <3>2. Expected(r, l)' = Expected(r, l)
      BY DEF Expected
    <3>3. Leaving(r, l) => Leaving(r, l)'
      BY <2>2 DEF Leaving
    <3> QED BY <1>1, <1>2, <3>1, <3>2, <3>3, TallyStays
  <2> QED BY <2>1, <2>2
<1> QED BY <1>3, <1>4, CountStep

(* A request that the database refuses to serve takes nothing with it. *)
LEMMA RejectedCounts ==
    ASSUME BaseInv, SoloInv, CountInv, Orderly, NEW r \in Requests, Rejected(r)
    PROVE  CountInv'
<1>. Acts(r)
  BY DEF Acts
<1>1. /\ store' = store /\ chunks' = chunks /\ saving' = saving /\ Goto(r, "failed")
      /\ faults' = faults + 1 /\ faults \in Nat
  BY DEF Rejected, BaseInv, StoreTypeOK
<1>2. ~ Faultless'
  BY <1>1 DEF Faultless
<1>3. task'[r].pc = "failed"
  BY <1>1, Goes, PlaceNames DEF BaseInv
<1>4. ASSUME NEW l \in Loaders
      PROVE  Tally(r, l)'
  <2> SUFFICES ASSUME store.loaders[l].status = "SYNC"
               PROVE  Cardinality(Pool(l)') <= Expected(r, l)'
    BY <1>1, <1>2 DEF Tally
  <2>1. Pool(l)' = Pool(l) /\ Expected(r, l)' = store.loaders[l].total
    BY <1>1, <1>3 DEF Pool, Expected
  <2>2. Cardinality(Pool(l)) <= Expected(r, l) /\ Cardinality(Pool(l)) \in Nat
    BY CountsGiven, PoolFinite DEF Tally
  <2>3. store.loaders[l].total \in Int
    BY RowParts DEF BaseInv, StoreTypeOK, Entries
  <2> QED BY <2>1, <2>2, <2>3 DEF Expected
<1> QED BY <1>1, <1>3, <1>4, CountsGiven, CountStep

(* The store is emptied: chunks, then the row. *)
LEMMA DestroyCounts ==
    ASSUME BaseInv, SoloInv, CountInv, Orderly, NEW r \in Requests,
           Empty(r) \/ Destroy(r)
    PROVE  CountInv'
<1>. Acts(r)
  BY DEF Acts
<1>1. CASE Empty(r)
  <2>1. /\ task[r].pc = "empty" /\ store' = store /\ Goto(r, "destroy")
        /\ chunks' = {} /\ saving' = saving
    BY <1>1 DEF Empty
  <2>2. saving = {} /\ task'[r].pc = "destroy"
    BY <2>1, CountsGiven, Goes, PlaceNames DEF AtIt, DeletingPlaces, BaseInv
  <2>3. \A l \in Loaders : Tally(r, l)'
    <3> SUFFICES ASSUME NEW l \in Loaders, store.loaders[l].status = "SYNC"
                 PROVE  Cardinality(Pool(l)') <= Expected(r, l)' /\ Leaving(r, l)'
      BY <2>1 DEF Tally
    <3>1. Pool(l)' = {} /\ Leaving(r, l)' /\ Expected(r, l)' = store.loaders[l].total
      BY <2>1, <2>2 DEF Pool, Leaving, Expected
    <3>2. Cardinality(Pool(l)) <= store.loaders[l].total /\ Cardinality(Pool(l)) \in Nat
      BY <2>1, CountsGiven, PoolFinite DEF Tally, Expected
    <3>3. store.loaders[l].total \in Int
      BY RowParts DEF BaseInv, StoreTypeOK, Entries
    <3> QED BY <3>1, <3>2, <3>3, FS_EmptySet
  <2> QED BY <2>1, <2>2, <2>3, CountsGiven, CountStep
<1>2. CASE Destroy(r)
  <2>1. /\ task[r].pc = "destroying" /\ Goto(r, "done")
        /\ store' = [store EXCEPT !.exists = FALSE, !.loaders = [l \in Loaders |-> Absent]]
    BY <1>2 DEF Destroy
  <2>2. \A l \in Loaders : store'.loaders[l] = Absent
    BY <2>1 DEF BaseInv, StoreTypeOK, Rows
  <2>3. \A l \in Loaders : Tally(r, l)'
    BY <2>2 DEF Tally, Absent
  <2>4. task'[r].pc = "done"
    BY <2>1, Goes, PlaceNames DEF BaseInv
  <2> QED BY <2>2, <2>3, <2>4, CountStep
<1> QED BY <1>1, <1>2

(* The steps of processing: the loader is SYNCING, until its count is the  *)
(* number of chunks that were made.                                        *)
LEMMA MarkCounts ==
    ASSUME BaseInv, SoloInv, CountInv, Orderly, NEW r \in Requests, Mark(r)
    PROVE  CountInv'
<1>. Acts(r)
  BY DEF Acts
<1> DEFINE k == task[r].loader
<1>1. /\ task[r].pc = "marking" /\ store' = Marked(task[r].entity, k)
      /\ chunks' = chunks /\ saving' = saving /\ Goto(r, "open")
  BY DEF Mark
<1>2. task[r].entity = store /\ k \in Loaders /\ store \in Rows /\ Sensible(store)
  BY <1>1, CountsGiven, TaskIsRecord DEF AtIt, Using, BaseInv, StoreTypeOK
<1>3. task'[r].pc = "open" /\ (Faultless' => Faultless)
  BY <1>1, Goes, PlaceNames, StoreStays DEF BaseInv
<1> HIDE DEF k
<1>4. /\ store'.exists
      /\ \A l \in Loaders : store'.loaders[l] =
            IF l = k THEN [status |-> "SYNCING", total |-> 0] ELSE store.loaders[l]
  BY <1>1, <1>2, MarkedRow DEF Edited
<1>5. ASSUME NEW l \in Loaders
      PROVE  Tally(r, l)'
  <2>1. CASE l = k
    BY <1>4, <2>1 DEF Tally
  <2>2. CASE l # k
    <3>1. Pool(l)' = Pool(l) /\ store'.loaders[l] = store.loaders[l]
      BY <1>1, <1>4, <2>2 DEF Pool
    <3>2. Expected(r, l)' = Expected(r, l) /\ ~ Leaving(r, l)
      BY <1>1, <1>3, <3>1 DEF Expected, Leaving
    <3> QED BY <1>3, <3>1, <3>2, CountsGiven, TallyStays
  <2> QED BY <2>1, <2>2
<1> QED BY <1>3, <1>4, <1>5, CountStep

LEMMA ReplacingCounts ==
    ASSUME BaseInv, SoloInv, CountInv, Orderly, NEW r \in Requests, Clear(r) \/ Refill(r)
    PROVE  CountInv'
<1>. Acts(r)
  BY DEF Acts
<1> DEFINE k == task[r].loader
<1>1. /\ task[r].pc \in {"replacing", "refilling"} /\ store' = store
      /\ \/ chunks' = chunks \ ChunksOf(k) /\ saving' = saving
         \/ chunks' = chunks /\ saving' = saving \cup NewChunks(r, k)
      /\ \/ Goto(r, "refilling")
         \/ Refill(r) /\ (Goto(r, "closing") \/ Goto(r, "failed"))
  <2>1. CASE Clear(r)
    BY <2>1 DEF Clear
  <2>2. CASE Refill(r)
    BY <2>2 DEF Refill
  <2> QED BY <2>1, <2>2
<1>2. store.loaders[k].status = "SYNCING"
  BY <1>1, CountsGiven DEF AtIt, Placed
<1>3. /\ task'[r].pc \in {"refilling", "closing", "failed"} /\ (Faultless' => Faultless)
      /\ task'[r].pc = "closing" => Refill(r)
  BY <1>1, Goes, PlaceNames, StoreStays DEF BaseInv
<1>4. \A c \in NewChunks(r, k) : c.loader = k
  BY NewChunksOfLoader
<1> HIDE DEF k
<1>5. ASSUME NEW l \in Loaders
      PROVE  Tally(r, l)'
  <2>1. CASE l = k
    BY <1>1, <1>2, <2>1 DEF Tally
  <2>2. CASE l # k
    <3>1. Pool(l)' = Pool(l)
      BY <1>1, <1>4, <2>2 DEF Pool, ChunksOf
    <3>2. Expected(r, l)' = Expected(r, l) /\ ~ Leaving(r, l)
      BY <1>1, <1>3 DEF Expected, Leaving
    <3> QED BY <1>1, <1>3, <3>1, <3>2, CountsGiven, TallyStays
  <2> QED BY <2>1, <2>2
<1> QED BY <1>1, <1>3, <1>5, CountsGiven, CountStep

LEMMA CloseCounts ==
    ASSUME BaseInv, SoloInv, CountInv, Orderly, NEW r \in Requests, Close(r)
    PROVE  CountInv'
<1>. Acts(r)
  BY DEF Acts
<1> DEFINE k == task[r].loader
           n == task[r].made[k]
<1>1. /\ task[r].pc = "closing" /\ store' = Synced(task[r].entity, k, n)
      /\ chunks' = chunks /\ saving' = saving
      /\ (Goto(r, "configure") \/ Goto(r, "done"))
  BY DEF Close
<1>2. task[r].entity = store /\ k \in Loaders /\ store \in Rows /\ Sensible(store)
  BY <1>1, CountsGiven, TaskIsRecord DEF AtIt, Using, BaseInv, StoreTypeOK
<1>3. task'[r].pc \in {"configure", "done"} /\ (Faultless' => Faultless)
  BY <1>1, Goes, PlaceNames, StoreStays DEF BaseInv
<1>4. /\ n \in Nat /\ Pool(k) \in SUBSET NewChunks(r, k)
      /\ Faultless => Pool(k) = NewChunks(r, k)
  BY <1>1, TaskIsRecord DEF BaseInv, TaskOK, CountInv, Orderly
<1>5. Cardinality(Pool(k)) <= n /\ (Faultless => Cardinality(Pool(k)) = n)
  <2>1. IsFiniteSet(NewChunks(r, k)) /\ Cardinality(NewChunks(r, k)) = n
    BY <1>2, <1>4, NewChunksCount
  <2> HIDE DEF n
  <2> QED BY <1>4, <2>1, FS_Subset
<1> HIDE DEF k, n
<1>6. /\ store'.exists
      /\ \A l \in Loaders : store'.loaders[l] =
            IF l = k THEN [status |-> "SYNC", total |-> n] ELSE store.loaders[l]
  BY <1>1, <1>2, <1>4, SyncedRow DEF Edited
<1>7. ASSUME NEW l \in Loaders
      PROVE  Tally(r, l)'
  <2>1. Pool(l)' = Pool(l)
    BY <1>1 DEF Pool
  <2>2. CASE l = k
    <3>1. Expected(r, l)' = n
      BY <1>3, <1>6, <2>2 DEF Expected
    <3> QED BY <1>3, <1>5, <2>1, <2>2, <3>1 DEF Tally
  <2>3. CASE l # k
    <3>1. store'.loaders[l] = store.loaders[l]
      BY <1>6, <2>3
    <3>2. Expected(r, l)' = Expected(r, l) /\ ~ Leaving(r, l)
      BY <1>1, <1>3, <3>1 DEF Expected, Leaving
    <3> QED BY <1>3, <2>1, <3>1, <3>2, CountsGiven, TallyStays
  <2> QED BY <2>2, <2>3
<1> QED BY <1>3, <1>6, <1>7, CountStep

(* A loader leaves: its chunks, then its entry. *)
LEMMA RemoveCounts ==
    ASSUME BaseInv, SoloInv, CountInv, Orderly, NEW r \in Requests,
           DropChunks(r) \/ Unlist(r)
    PROVE  CountInv'
<1>. Acts(r)
  BY DEF Acts
<1> DEFINE k == task[r].loader
<1>0. /\ (Faultless' => Faultless) /\ k \in Loaders
      /\ \A l \in Loaders : Tally(r, l)
      /\ ~ store.exists => \A l \in Loaders : store.loaders[l] = Absent
  BY StoreStays, TaskIsRecord, CountsGiven DEF BaseInv
<1>1. CASE DropChunks(r)
  <2>1. /\ task[r].pc = "dropping" /\ store' = store /\ Goto(r, "unlisting")
        /\ chunks' = chunks \ ChunksOf(k) /\ saving' = saving
    BY <1>1 DEF DropChunks
  <2>2. saving = {} /\ task'[r].pc = "unlisting" /\ task'[r].loader = k
    BY <2>1, CountsGiven, Goes, PlaceNames DEF AtIt, DeletingPlaces, BaseInv, Keeps
  <2> HIDE DEF k
  <2>3. ASSUME NEW l \in Loaders
        PROVE  Tally(r, l)'
    <3>1. CASE l = k
      <4> SUFFICES ASSUME store.loaders[l].status = "SYNC"
                   PROVE  Cardinality(Pool(l)') <= Expected(r, l)' /\ Leaving(r, l)'
        BY <2>1 DEF Tally
      <4>1. Pool(l)' = {} /\ Leaving(r, l)' /\ Expected(r, l)' = store.loaders[l].total
        BY <2>1, <2>2, <3>1 DEF Pool, Leaving, Expected, ChunksOf
      <4>2. Cardinality(Pool(l)) <= store.loaders[l].total /\ Cardinality(Pool(l)) \in Nat
        BY <2>1, CountsGiven, PoolFinite DEF Tally, Expected
      <4>3. store.loaders[l].total \in Int
        BY RowParts DEF BaseInv, StoreTypeOK, Entries
      <4> QED BY <4>1, <4>2, <4>3, FS_EmptySet
    <3>2. CASE l # k
      <4>1. Pool(l)' = Pool(l)
        BY <2>1, <3>2 DEF Pool, ChunksOf
      <4>2. Expected(r, l)' = Expected(r, l) /\ ~ Leaving(r, l)
        BY <2>1, <2>2 DEF Expected, Leaving
      <4> QED BY <1>0, <2>1, <4>1, <4>2, TallyStays
    <3> QED BY <3>1, <3>2
  <2> QED BY <1>0, <2>1, <2>2, <2>3, CountStep
<1>2. CASE Unlist(r)
  <2>1. /\ task[r].pc = "unlisting" /\ Goto(r, "done") /\ chunks' = chunks /\ saving' = saving
        /\ store' = [task[r].entity EXCEPT !.loaders[k] = Absent]
    BY <1>2 DEF Unlist
  <2>2. task[r].entity = store
    BY <2>1, CountsGiven DEF AtIt, Using
  <2>3. store \in Rows /\ Sensible(store)
    BY DEF BaseInv, StoreTypeOK
  <2>4. task'[r].pc = "done"
    BY <2>1, Goes, PlaceNames DEF BaseInv
  <2> HIDE DEF k
  <2>5. store' = [store EXCEPT !.loaders[k] = Absent]
    BY <2>1, <2>2
  <2>6. Edited(store, store', k, Absent) /\ store'.exists = store.exists
    BY <1>0, <2>3, <2>5, UnlistedRow
  <2>7. \A l \in Loaders : store'.loaders[l] = IF l = k THEN Absent ELSE store.loaders[l]
    BY <2>6 DEF Edited
  <2>8. ASSUME NEW l \in Loaders
        PROVE  Tally(r, l)'
    <3>1. CASE l = k
      BY <2>7, <3>1 DEF Tally, Absent
    <3>2. CASE l # k
      <4>1. Pool(l)' = Pool(l) /\ store'.loaders[l] = store.loaders[l]
        BY <2>1, <2>7, <3>2 DEF Pool
      <4>2. Expected(r, l)' = Expected(r, l) /\ ~ Leaving(r, l)
        BY <2>1, <2>4, <3>2, <4>1 DEF Expected, Leaving, k
      <4> QED BY <1>0, <4>1, <4>2, TallyStays
    <3> QED BY <3>1, <3>2
  <2> QED BY <1>0, <2>4, <2>6, <2>7, <2>8, CountStep
<1> QED BY <1>1, <1>2

(* A chunk goes, and the count with it. *)
LEMMA RemoveChunkCounts ==
    ASSUME BaseInv, SoloInv, CountInv, Orderly, NEW r \in Requests, RemoveChunk(r)
    PROVE  CountInv'
<1>. Acts(r)
  BY DEF Acts
<1> DEFINE k == task[r].loader
<1>1. /\ task[r].pc = "removing" /\ store' = store /\ saving' = saving
      /\ chunks' = chunks \ task[r].picked
      /\ task'[r] = [task[r] EXCEPT !.pc = "counting", !.picked = {}]
  BY DEF RemoveChunk, BaseInv, StoreTypeOK
<1>2. /\ (Faultless' => Faultless) /\ \A l \in Loaders : Tally(r, l)
      /\ ~ store.exists => \A l \in Loaders : store.loaders[l] = Absent
      /\ saving = {}
  BY <1>1, StoreStays, CountsGiven DEF AtIt, DeletingPlaces
<1>3. task'[r].pc = "counting" /\ task'[r].loader = k
  BY <1>1, TaskIsRecord DEF BaseInv, Record
<1>4. PICK c \in ChunksOf(k) : task[r].picked = {c}
  BY <1>1 DEF CountInv, Orderly
<1> HIDE DEF k
<1>5. ASSUME NEW l \in Loaders
      PROVE  Tally(r, l)'
  <2>1. CASE l = k
    <3>1. Pool(l)' = Pool(l) \ {c} /\ c \in Pool(l)
      BY <1>1, <1>2, <1>4, <2>1 DEF Pool, ChunksOf
    <3>2. IsFiniteSet(Pool(l)) /\ Cardinality(Pool(l)) \in Nat
      BY CountsGiven, PoolFinite
    <3>3. Cardinality(Pool(l)') = Cardinality(Pool(l)) - 1
      BY <3>1, <3>2, FS_RemoveElement
    <3>4. /\ Expected(r, l)' = store.loaders[l].total - 1
          /\ Expected(r, l) = store.loaders[l].total /\ ~ Leaving(r, l)
      BY <1>1, <1>3, <2>1 DEF Expected, Leaving
    <3>5. store.loaders[l].total \in Int
      BY RowParts DEF BaseInv, StoreTypeOK, Entries
    <3> QED BY <1>1, <1>2, <3>2, <3>3, <3>4, <3>5 DEF Tally
  <2>2. CASE l # k
    <3>1. Pool(l)' = Pool(l)
      BY <1>1, <1>4, <2>2 DEF Pool, ChunksOf
    <3>2. Expected(r, l)' = Expected(r, l) /\ ~ Leaving(r, l)
      BY <1>1, <1>3, <2>2 DEF Expected, Leaving
    <3> QED BY <1>1, <1>2, <3>1, <3>2, TallyStays
  <2> QED BY <2>1, <2>2
<1> QED BY <1>1, <1>2, <1>3, <1>5, CountStep

LEMMA CountDownCounts ==
    ASSUME BaseInv, SoloInv, CountInv, Orderly, NEW r \in Requests, CountDown(r)
    PROVE  CountInv'
<1>. Acts(r)
  BY DEF Acts
<1> DEFINE k == task[r].loader
<1>1. /\ task[r].pc = "counting" /\ Goto(r, "done") /\ chunks' = chunks /\ saving' = saving
      /\ store' = [task[r].entity EXCEPT !.loaders[k].total = @ - 1]
  BY DEF CountDown
<1>2. /\ task[r].entity = store /\ store.exists /\ store \in Rows /\ Sensible(store)
      /\ k \in Listed(store)
  BY <1>1, CountsGiven DEF AtIt, Using, BaseInv, StoreTypeOK, TaskOK
<1>3. /\ (Faultless' => Faultless) /\ k \in Loaders
      /\ \A l \in Loaders : Tally(r, l)
  BY StoreStays, TaskIsRecord, CountsGiven DEF BaseInv
<1>4. task'[r].pc = "done"
  BY <1>1, Goes, PlaceNames DEF BaseInv
<1>5. \A l \in Loaders : Expected(r, l) = IF l = k THEN store.loaders[l].total - 1
                                                   ELSE store.loaders[l].total
  BY <1>1 DEF Expected
<1>6. store' = [task[r].entity EXCEPT !.loaders[k].total = @ - 1]
  BY <1>1
<1> HIDE DEF k
<1>7. store' = [store EXCEPT !.loaders[k].total = @ - 1]
  BY <1>2, <1>6
<1>8. /\ Edited(store, store', k, [status |-> store.loaders[k].status,
                                  total  |-> store.loaders[k].total - 1])
      /\ store'.exists = store.exists
  BY <1>2, <1>3, <1>7, CountedRow
<1>9. ASSUME NEW l \in Loaders
      PROVE  Tally(r, l)'
  <2>1. Pool(l)' = Pool(l) /\ ~ Leaving(r, l)
    BY <1>1 DEF Pool, Leaving
  <2>2. /\ store'.loaders[l].status = store.loaders[l].status
        /\ store'.loaders[l].total = IF l = k THEN store.loaders[l].total - 1
                                              ELSE store.loaders[l].total
    <3>1. store'.loaders[l] = IF l = k THEN [status |-> store.loaders[k].status,
                                             total  |-> store.loaders[k].total - 1]
                              ELSE store.loaders[l]
      BY <1>8 DEF Edited
    <3>2. CASE l = k
      BY <3>1, <3>2
    <3>3. CASE l # k
      BY <3>1, <3>3
    <3> QED BY <3>2, <3>3
  <2>3. Expected(r, l)' = Expected(r, l)
    BY <1>4, <1>5, <2>2 DEF Expected
  <2> QED BY <1>3, <2>1, <2>2, <2>3 DEF Tally
<1> QED BY <1>2, <1>4, <1>8, <1>9, CountStep

(* The save of a chunk lands, or it fails, or the process dies. *)
LEMMA SaveCounts ==
    ASSUME BaseInv, CountInv, Orderly, NEW c \in saving, SaveLands(c)
    PROVE  CountInv'
<1>1. /\ setup' = setup /\ store' = store /\ task' = task /\ UNCHANGED <<crashes, faults>>
      /\ saving' = saving \ {c} /\ chunks' = chunks \cup {c}
  BY DEF SaveLands
<1>2. IsFiniteSet(chunks') /\ IsFiniteSet(saving')
  <2>1. IsFiniteSet(chunks) /\ IsFiniteSet(saving)
    BY DEF CountInv, Orderly
  <2>2. IsFiniteSet(saving \ {c})
    BY <2>1, FS_RemoveElement
  <2>3. IsFiniteSet(chunks \cup {c})
    BY <2>1, FS_AddElement
  <2> QED BY <1>1, <2>2, <2>3
<1>3. \A l : Pool(l)' = Pool(l)
  BY <1>1 DEF Pool
<1>4. \A r \in Requests, l \in Loaders : Tally(r, l)' <=> Tally(r, l)
  BY <1>1, <1>3 DEF Tally, Expected, Leaving, Faultless
<1>5. \A l \in Loaders : Settled(l)' <=> Settled(l)
  BY <1>1, <1>3 DEF Settled, Faultless
<1>6. \A r \in Requests : Pool(task[r].loader)' = Pool(task[r].loader)
  BY <1>1 DEF Pool
<1>7. \A l : ChunksOf(l) \subseteq ChunksOf(l)'
  BY <1>1 DEF ChunksOf
<1>8. ASSUME NEW r \in Requests, task[r].pc = "removing"
      PROVE  \E d \in ChunksOf(task[r].loader)' : task[r].picked = {d}
  <2>1. PICK d \in ChunksOf(task[r].loader) : task[r].picked = {d}
    BY <1>8 DEF CountInv, Orderly
  <2>2. d \in chunks' /\ d.loader = task[r].loader /\ task'[r] = task[r]
    BY <1>1, <2>1 DEF ChunksOf
  <2>3. d \in ChunksOf(task[r].loader)'
    BY <2>2 DEF ChunksOf
  <2> QED BY <2>1, <2>3
<1> QED BY <1>1, <1>2, <1>4, <1>5, <1>6, <1>8 DEF CountInv, Busy, NewChunks, Orderly, Faultless

(* The chunks that are there and under way become fewer: the counts cover  *)
(* them as before.                                                         *)
LEMMA FewerCounts ==
    ASSUME BaseInv, CountInv, Orderly, store' = store, NEW l \in Loaders,
           store.loaders[l].status = "SYNC", Pool(l)' \in SUBSET Pool(l)
    PROVE  /\ Cardinality(Pool(l)') \in Nat /\ Cardinality(Pool(l)') <= Cardinality(Pool(l))
           /\ Cardinality(Pool(l)) \in Nat /\ store.loaders[l].total \in Int
           /\ Cardinality(Pool(l)) <= store.loaders[l].total
<1>1. IsFiniteSet(Pool(l)) /\ Cardinality(Pool(l)) \in Nat
  BY PoolFinite DEF CountInv, Orderly
<1>2. Cardinality(Pool(l)') <= Cardinality(Pool(l)) /\ Cardinality(Pool(l)') \in Nat
  BY <1>1, FS_Subset, FS_CardinalityType
<1>3. store.loaders[l].total \in Int
  BY RowParts DEF BaseInv, StoreTypeOK, Entries
<1>4. Cardinality(Pool(l)) <= store.loaders[l].total
  <2>1. CASE \E r \in Requests : Busy(r)
    <3>1. PICK r \in Requests : Tally(r, l)
      BY <2>1 DEF CountInv, Orderly
    <3> QED BY <1>1, <1>3, <3>1 DEF Tally, Expected
  <2>2. CASE \A r \in Requests : ~ Busy(r)
    BY <2>2 DEF CountInv, Settled, Orderly
  <2> QED BY <2>1, <2>2
<1> QED BY <1>1, <1>2, <1>3, <1>4

LEMMA SaveFailsCounts ==
    ASSUME BaseInv, CountInv, Orderly, NEW c \in saving, SaveFails(c)
    PROVE  CountInv'
<1>1. /\ setup' = setup /\ store' = store /\ task' = task /\ chunks' = chunks
      /\ saving' = saving \ {c} /\ faults' = faults + 1 /\ faults \in Nat
  BY DEF SaveFails, BaseInv, StoreTypeOK
<1>2. ~ Faultless'
  BY <1>1 DEF Faultless
<1>3. IsFiniteSet(chunks') /\ IsFiniteSet(saving')
  BY <1>1, FS_RemoveElement DEF CountInv, Orderly
<1>4. \A l : Pool(l)' \in SUBSET Pool(l)
  BY <1>1 DEF Pool
<1>5. ASSUME NEW r \in Requests, Busy(r)', NEW l \in Loaders
      PROVE  Tally(r, l)'
  <2> SUFFICES ASSUME store.loaders[l].status = "SYNC"
               PROVE  Cardinality(Pool(l)') <= Expected(r, l)'
    BY <1>1, <1>2 DEF Tally
  <2>1. Tally(r, l)
    BY <1>1, <1>5 DEF CountInv, Orderly, Busy
  <2>2. Cardinality(Pool(l)) <= Expected(r, l) /\ Expected(r, l)' = Expected(r, l)
    BY <1>1, <2>1 DEF Tally, Expected
  <2>3. Expected(r, l) \in Int
    BY <1>1, <1>4, FewerCounts DEF Expected
  <2> QED BY <1>1, <1>4, <2>2, <2>3, FewerCounts
<1>6. ASSUME NEW l \in Loaders
      PROVE  Settled(l)'
  BY <1>1, <1>2, <1>4, FewerCounts DEF Settled
<1>7. ASSUME NEW r \in Requests, task[r].pc = "closing"
      PROVE  Pool(task[r].loader)' \subseteq NewChunks(r, task[r].loader)'
  <2>1. Pool(task[r].loader) \subseteq NewChunks(r, task[r].loader)
    BY <1>7 DEF CountInv, Orderly
  <2> QED BY <1>1, <2>1 DEF Pool, NewChunks
<1>8. \A r \in Requests : ChunksOf(task[r].loader)' = ChunksOf(task[r].loader)
  BY <1>1 DEF ChunksOf
<1> QED BY <1>1, <1>2, <1>3, <1>5, <1>6, <1>7, <1>8 DEF CountInv, Orderly

LEMMA CrashCounts ==
    ASSUME BaseInv, CountInv, Orderly, Crash
    PROVE  CountInv'
<1>1. /\ setup' = setup /\ store' = store /\ chunks' = chunks /\ saving' = {}
      /\ crashes' = crashes + 1 /\ crashes \in Nat /\ \E r \in Requests : Busy(r)
  BY Zenon DEF Crash, BaseInv, StoreTypeOK
<1>2. crashes' # 0
  BY <1>1
<1>3. ASSUME NEW r \in Requests
      PROVE  ~ Busy(r)' /\ task'[r].pc \notin {"closing", "removing"}
  <2>1. task'[r] = IF Busy(r) THEN [task[r] EXCEPT !.pc = "dead", !.entity = NewRow, !.picked = {}]
                   ELSE task[r]
    BY Zenon DEF Crash
  <2>2. CASE Busy(r)
    <3>1. task'[r].pc = "dead"
      BY <2>1, <2>2, TaskIsRecord DEF BaseInv, Record
    <3> QED BY <3>1 DEF Busy, Ended
  <2>3. CASE ~ Busy(r)
    BY <2>1, <2>3 DEF Busy, Ended
  <2> QED BY <2>2, <2>3
<1>4. ASSUME NEW l \in Loaders
      PROVE  Settled(l)'
  <2>1. Pool(l)' \in SUBSET Pool(l)
    BY <1>1 DEF Pool
  <2> QED BY <1>1, <1>2, <2>1, FewerCounts DEF Settled, Faultless
<1>5. IsFiniteSet(chunks') /\ IsFiniteSet(saving')
  BY <1>1, FS_EmptySet DEF CountInv, Orderly
<1>6. ~ store'.exists => \A l \in Loaders : store'.loaders[l] = Absent
  BY <1>1 DEF CountInv, Orderly
<1> QED BY <1>3, <1>4, <1>5, <1>6 DEF CountInv

LEMMA CountInvHolds == StoreSpec => []CountInv
<1>1. StoreInit => CountInv
  <2> SUFFICES ASSUME StoreInit PROVE CountInv
    OBVIOUS
  <2>1. /\ chunks = {} /\ saving = {} /\ store.exists
        /\ \A l \in Loaders : store.loaders[l] = Absent
    BY DEF StoreInit, NewRow
  <2>2. \A r \in Requests : task[r].pc = "idle"
    BY DEF StoreInit
  <2>3. IsFiniteSet({})
    BY FS_EmptySet
  <2> QED BY <2>1, <2>2, <2>3 DEF CountInv, Settled, Busy, Absent
<1>2. BaseInv /\ SoloInv /\ CountInv /\ [StoreNext]_storeVars => CountInv'
  <2> SUFFICES ASSUME BaseInv, SoloInv, CountInv, [StoreNext]_storeVars PROVE CountInv'
    OBVIOUS
  <2>1. CASE UNCHANGED storeVars
    BY <2>1 DEF storeVars, CountInv, Busy, Tally, Settled, Pool, Expected, Leaving, NewChunks,
                ChunksOf, Faultless
  <2>2. CASE StoreNext /\ ~ Orderly
    <3>1. setup' = setup
      <4>1. ASSUME NEW r \in Requests, Acts(r)
            PROVE  setup' = setup
        BY <4>1, StoreStays
      <4>2. (\E c \in saving : SaveLands(c) \/ SaveFails(c)) => setup' = setup
        BY DEF SaveLands, SaveFails
      <4>3. Crash => setup' = setup
        BY Zenon DEF Crash
      <4> QED BY <2>2, <4>1, <4>2, <4>3 DEF StoreNext, Acts, Begun
    <3> QED BY <2>2, <3>1 DEF CountInv, Orderly
  <2>3. CASE StoreNext /\ Orderly
    <3>1. ASSUME NEW r \in Requests, Acts(r)
          PROVE  CountInv'
      <4>0. /\ task[r].entity \in Rows /\ Sensible(task[r].entity)
            /\ task[r].pc \in Using => task[r].entity = store
        <5>1. task[r].pc \in Using => AtIt(r)
          BY <2>3, <3>1, CountsGiven DEF Using
        <5> QED BY <5>1, TaskIsRecord DEF AtIt, BaseInv, TaskOK
      <4>7. CASE Rejected(r)
        BY <2>3, <4>7, RejectedCounts
      <4>1. CASE \/ Begun(r) \/ Read(r) \/ List(r) \/ Find(r) \/ Split(r) \/ Embed(r)
                 \/ FindChunk(r)
        <5>1. /\ store' = store /\ chunks' = chunks /\ saving' = saving
              /\ \/ task[r].pc \in {"idle", "list", "find", "splitting", "embedding"}
                 \/ task[r].pc = "picking" /\ FindChunk(r)
                 \/ task[r].pc \in ReadPlaces /\ Read(r)
          <6>1. CASE Begun(r)
            BY <6>1 DEF Begun, Begin
          <6>2. CASE Read(r)
            BY <6>2, ReadTable DEF Read
          <6>3. CASE List(r) \/ Find(r) \/ Split(r) \/ Embed(r) \/ FindChunk(r)
            BY <6>3 DEF List, Find, Split, Embed, FindChunk
          <6> QED BY <4>1, <6>1, <6>2, <6>3
        <5>2. task[r].pc \notin {"counting", "unlisting", "destroying", "removing", "refilling"}
          BY <5>1 DEF ReadPlaces
        <5>3. task[r].pc = "destroy" => task'[r].pc = "destroying" \/ ~ store.exists
          <6> SUFFICES ASSUME task[r].pc = "destroy", store.exists
                       PROVE  task'[r].pc = "destroying"
            OBVIOUS
          <6>1. Read(r)
            BY <5>1
          <6>2. task' = [task EXCEPT ![r].pc = ReadThen[@], ![r].entity = store]
            BY <6>1 DEF Read
          <6>3. task'[r] = [task[r] EXCEPT !.pc = ReadThen[@], !.entity = store]
            BY <6>2 DEF BaseInv, StoreTypeOK
          <6> QED BY <6>3, ReadTable, TaskIsRecord DEF BaseInv, Record
        <5>4. /\ task'[r].pc \notin {"counting", "closing"}
              /\ task'[r].pc # "removing" \/ FindChunk(r)
          <6>1. Does(r)
            BY <3>1, Effects
          <6> QED BY <5>1, <5>2, <6>1, ReadTable, FirstTable DEF Does, Leads, ReadPlaces, Operations
        <5> QED BY <2>3, <3>1, <5>1, <5>2, <5>3, <5>4, AsideCounts
      <4>2. CASE Configure(r) \/ Upserting(r) \/ Upserted(r)
        <5>1. /\ chunks' = chunks /\ saving' = saving
              /\ task[r].pc \in {"configuring", "upserting", "upserted"}
          BY <4>2 DEF Configure, Upserting, Upserted
        <5>2. store'.loaders = task[r].entity.loaders /\ (task[r].entity.exists => store'.exists)
          <6>1. CASE Configure(r)
            <7>1. store' = Configured(r)
              BY <6>1 DEF Configure
            <7> QED BY <4>0, <7>1, ConfiguredRow DEF BaseInv
          <6>2. CASE Upserting(r) \/ Upserted(r)
            <7>1. \/ store' = [task[r].entity EXCEPT !.status = "UPSERTING"]
                  \/ store' = [task[r].entity EXCEPT !.status = "UPSERTED"]
              BY <6>2 DEF Upserting, Upserted
            <7> QED BY <4>0, <7>1 DEF Rows
          <6> QED BY <4>2, <6>1, <6>2
        <5>3. task[r].entity = store
          BY <4>0, <5>1 DEF Using
        <5>4. task'[r].pc \notin {"counting", "closing", "removing"}
          BY <3>1, <5>1, Effects, ReadTable DEF Does, Leads, ReadPlaces
        <5> QED BY <2>3, <3>1, <5>1, <5>2, <5>3, <5>4, AsideCounts
      <4>3. CASE Mark(r) \/ Clear(r) \/ Refill(r) \/ Close(r)
        BY <2>3, <4>3, MarkCounts, ReplacingCounts, CloseCounts
      <4>4. CASE DropChunks(r) \/ Unlist(r)
        BY <2>3, <4>4, RemoveCounts
      <4>5. CASE Empty(r) \/ Destroy(r)
        BY <2>3, <4>5, DestroyCounts
      <4>6. CASE RemoveChunk(r) \/ CountDown(r)
        BY <2>3, <4>6, RemoveChunkCounts, CountDownCounts
      <4> QED BY <3>1, <4>7, <4>1, <4>2, <4>3, <4>4, <4>5, <4>6 DEF Acts
    <3>2. ASSUME NEW c \in saving, SaveLands(c) \/ SaveFails(c)
          PROVE  CountInv'
      BY <2>3, <3>2, SaveCounts, SaveFailsCounts
    <3>3. CASE Crash
      BY <2>3, <3>3, CrashCounts
    <3> QED BY <2>3, <3>1, <3>2, <3>3 DEF StoreNext, Acts, Begun
  <2> QED BY <2>1, <2>2, <2>3
<1> QED BY <1>1, <1>2, BaseInvHolds, SoloInvHolds, PTL DEF StoreSpec

(* While requests wait for one another, and a request for a chunk names    *)
(* its own loader, the count of a loader that is SYNC covers its chunks    *)
(* throughout, and is exact when all is quiet and nothing was refused or   *)
(* crashed: the count is saved when the number of chunks is known, and a   *)
(* chunk that is deleted is taken from it next; a save that fails, or a    *)
(* row that is not saved, only leaves it too high (index.ts 309-334,       *)
(* 690-713, 875-907).                                                      *)
THEOREM CountsAreRight == StoreSpec => []Counted
<1>1. BaseInv /\ CountInv => Counted
  <2> SUFFICES ASSUME BaseInv, CountInv, Orderly,
                      NEW l \in Loaders, store.loaders[l].status = "SYNC"
               PROVE  /\ Cardinality(ChunksOf(l)) <= store.loaders[l].total
                      /\ Quiet /\ Faultless => Cardinality(ChunksOf(l)) = store.loaders[l].total
    BY DEF Counted, Orderly
  <2>1. IsFiniteSet(Pool(l)) /\ Cardinality(Pool(l)) \in Nat
    BY PoolFinite DEF CountInv, Orderly
  <2>2. ChunksOf(l) \in SUBSET Pool(l) /\ (saving = {} => ChunksOf(l) = Pool(l))
    BY DEF ChunksOf, Pool
  <2>3. Cardinality(ChunksOf(l)) <= Cardinality(Pool(l)) /\ Cardinality(ChunksOf(l)) \in Nat
    BY <2>1, <2>2, FS_Subset, FS_CardinalityType
  <2>4. store.loaders[l].total \in Int
    BY RowParts DEF BaseInv, StoreTypeOK, Entries
  <2>5. Cardinality(Pool(l)) <= store.loaders[l].total
    <3>1. CASE \E r \in Requests : Busy(r)
      <4>1. PICK r \in Requests : Tally(r, l)
        BY <3>1 DEF CountInv, Orderly
      <4> QED BY <2>1, <2>4, <4>1 DEF Tally, Expected
    <3>2. CASE \A r \in Requests : ~ Busy(r)
      BY <3>2 DEF CountInv, Settled, Orderly
    <3> QED BY <3>1, <3>2
  <2>6. Quiet /\ Faultless => Cardinality(Pool(l)) = store.loaders[l].total
    BY DEF Quiet, CountInv, Settled, Orderly
  <2> QED BY <2>1, <2>2, <2>3, <2>4, <2>5, <2>6 DEF Quiet
<1> QED BY <1>1, BaseInvHolds, CountInvHolds, PTL
=============================================================================
