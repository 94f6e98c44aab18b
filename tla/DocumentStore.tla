---------------------------- MODULE DocumentStore ----------------------------
(***************************************************************************)
(* A document store: packages/server/src/services/documentstore/index.ts.  *)
(* Its row lists loaders, each with a status and a count of chunks; the    *)
(* chunks are rows of a table of their own.  A request reads the row, works*)
(* for a while and saves what it read with its changes, as a whole; new    *)
(* chunks are saved without anybody waiting for it, or for its failure.    *)
(*                                                                         *)
(* An action is the code between two awaits.  Files, metadata and the      *)
(* vector store itself are left out: embedding returns or throws.  Of the  *)
(* three configurations (embedding, vector store, record manager) only     *)
(* whether there is any is kept.                                           *)
(***************************************************************************)
EXTENDS Integers, FiniteSets, SequencesExt

CONSTANTS
    Requests,
    Loaders,    \* the ids of loaders
    Setups      \* what happens to the store

(* A setup s has                                                           *)
(*   s.ops      the operations that may be asked for                       *)
(*   s.requests the most requests that arrive                              *)
(*   s.overlap  may a request arrive while others, or their chunks, are    *)
(*              under way?                                                 *)
(*   s.split    the most chunks a document is split into                   *)
(*   s.crashes  how often the process dies                                 *)
(*   s.faults   how often the database refuses a call                      *)
(*   s.astray   may a request for a chunk name the loader of another?      *)

VARIABLES
    setup,
    store,      \* the row
    chunks,     \* the stored chunks
    saving,     \* the chunks whose save is under way
    task,       \* request -> the locals of its handlers
    crashes,
    faults      \* how often the database has refused

storeVars == <<setup, store, chunks, saving, task, crashes, faults>>

Operations == {"process", "upsert", "refresh", "insert", "config", "deleteLoader",
               "deleteStore", "deleteChunk"}

StoreSetups ==
    [ops : SUBSET Operations, overlap : BOOLEAN, requests : Nat, split : Nat,
     crashes : Nat, faults : Nat, astray : BOOLEAN]

ASSUME StoreAssumption ==
    /\ Setups \subseteq StoreSetups
    /\ IsFiniteSet(Loaders) /\ Loaders # {}

Ended    == {"done", "failed", "dead"}
Statuses == {"EMPTY", "SYNC", "STALE", "UPSERTING", "UPSERTED"}

(* Where each operation begins. *)
First ==
    [process |-> "mark", upsert |-> "find", refresh |-> "list", insert |-> "configure",
     config |-> "configure", deleteLoader |-> "remove", deleteStore |-> "empty",
     deleteChunk |-> "pick"]

Absent == [status |-> "NONE", total |-> 0]   \* the row does not list the loader

Listed(row) == {l \in Loaders : row.loaders[l] # Absent}

Chunk(l, r, i) == [loader |-> l, by |-> r, no |-> i]
ChunksOf(l) == {c \in chunks : c.loader = l}

NewRow == [exists |-> TRUE, status |-> "EMPTY", configured |-> FALSE,
           loaders |-> [l \in Loaders |-> Absent]]

StoreInit ==
    /\ setup \in Setups
    /\ store = NewRow
    /\ chunks = {}
    /\ saving = {}
    /\ task = [r \in Requests |->
                 [pc |-> "idle", op |-> "none",
                  loader |-> CHOOSE l \in Loaders : TRUE,
                  todo   |-> <<>>,              \* the loaders that are left to upsert
                  entity |-> NewRow,            \* the row as it was read
                  again  |-> FALSE,             \* insertIntoVectorStore() reads it twice
                  names  |-> FALSE,             \* it has a configuration (names a component)
                  picked |-> {},                \* the chunk it has found
                  made   |-> [l \in Loaders |-> -1]]]   \* how many chunks it made of each
    /\ crashes = 0
    /\ faults = 0

Busy(r) == task[r].pc \notin {"idle"} \cup Ended

(* A request that ends forgets what it has read. *)
Goto(r, place) ==
    task' = [task EXCEPT ![r].pc = place,
                         ![r].entity = IF place \in Ended THEN NewRow ELSE @,
                         ![r].picked = IF place \in Ended THEN {} ELSE @]

(* A request arrives; one that inserts into the vector store, or is about  *)
(* its configuration, may bring one.                                       *)
Begin(r, op, l, names) ==
    /\ task[r].pc = "idle"
    /\ op \in setup.ops
    /\ names => op \in {"upsert", "insert", "config"}
    /\ Cardinality({s \in Requests : task[s].pc # "idle"}) < setup.requests
    /\ setup.overlap \/ (saving = {} /\ \A s \in Requests : ~ Busy(s))
    /\ task' = [task EXCEPT ![r].pc = First[op], ![r].op = op, ![r].loader = l,
                            ![r].names = names]
    /\ UNCHANGED <<setup, store, chunks, saving, crashes, faults>>

(* The database refuses what the request awaits, and has not done it. *)
Rejected(r) ==
    /\ Busy(r)
    /\ faults < setup.faults
    /\ faults' = faults + 1
    /\ Goto(r, "failed")
    /\ UNCHANGED <<setup, store, chunks, saving, crashes>>

-----------------------------------------------------------------------------
(* The row is read: findOneBy().  A request that does not find the store,  *)
(* or the loader it is about, fails.                                       *)
ReadThen ==
    [mark |-> "marking", open |-> "splitting", configure |-> "configuring",
     remove |-> "dropping", destroy |-> "destroying", pick |-> "picking"]

Read(r) ==
    /\ task[r].pc \in DOMAIN ReadThen
    /\ IF /\ store.exists
          /\ task[r].pc \in {"remove", "pick"} => task[r].loader \in Listed(store)
       THEN task' = [task EXCEPT ![r].pc = ReadThen[@], ![r].entity = store]
       ELSE Goto(r, "failed")
    /\ UNCHANGED <<setup, store, chunks, saving, crashes, faults>>

(* A refresh takes the loaders from the row, to upsert one after another.  *)
List(r) ==
    /\ task[r].pc = "list"
    /\ IF ~ store.exists
       THEN Goto(r, "failed")
       ELSE LET todo == SetToSeq(Listed(store))
            IN  IF todo = <<>>
                THEN Goto(r, "done")
                ELSE task' = [task EXCEPT ![r].pc = "find", ![r].loader = Head(todo),
                                      ![r].todo = Tail(todo)]
    /\ UNCHANGED <<setup, store, chunks, saving, crashes, faults>>

(* upsertDocStore() puts its request together: what it does not bring, it  *)
(* takes from the row of the loader it names.  It fails when that is not   *)
(* there, or when something is not configured; a refresh names the loader, *)
(* an upsert any one whose settings the new one shall have.                *)
Find(r) ==
    /\ task[r].pc = "find"
    /\ \/ Goto(r, "failed")
       \/ /\ \/ task[r].op = "upsert" /\ task[r].names
             \/ /\ store.exists /\ store.configured
                /\ IF task[r].op = "refresh" THEN task[r].loader \in Listed(store)
                                              ELSE Listed(store) # {}
          /\ task' = [task EXCEPT ![r].pc = "mark", ![r].names = TRUE]
    /\ UNCHANGED <<setup, store, chunks, saving, crashes, faults>>

-----------------------------------------------------------------------------
(* Processing a loader: saveProcessingLoader(), then _saveChunksToStorage()*)

(* The loader comes onto the row with its chunks, not before. *)
BugMarked(row, l) ==
    [row EXCEPT !.loaders[l].status = IF @ = "NONE" THEN @ ELSE "SYNCING"]

(* The loader is put on the row, or is emptied there. *)
Marked(row, l) ==
    [row EXCEPT !.exists = TRUE, !.loaders[l] = [status |-> "SYNCING", total |-> 0]]

Mark(r) ==
    /\ task[r].pc = "marking"
    /\ store' = Marked(task[r].entity, task[r].loader)
    /\ Goto(r, "open")
    /\ UNCHANGED <<setup, chunks, saving, crashes, faults>>

(* The document is loaded and split, or that fails. *)
Split(r) ==
    /\ task[r].pc = "splitting"
    /\ \/ Goto(r, "failed")
       \/ \E n \in 0..setup.split :
             task' = [task EXCEPT ![r].pc = "replacing", ![r].made[task[r].loader] = n]
    /\ UNCHANGED <<setup, store, chunks, saving, crashes, faults>>

NewChunks(r, l) == {Chunk(l, r, i) : i \in 1..task[r].made[l]}

(* The chunks from before stay. *)
BugClear(r) ==
    /\ task[r].pc = "replacing"
    /\ Goto(r, "refilling")
    /\ UNCHANGED <<setup, store, chunks, saving, crashes, faults>>

(* The chunks from before are deleted ... *)
Clear(r) ==
    /\ task[r].pc = "replacing"
    /\ chunks' = chunks \ ChunksOf(task[r].loader)
    /\ Goto(r, "refilling")
    /\ UNCHANGED <<setup, store, saving, crashes, faults>>

(* ... and the saves of the new ones start.  A loader that the row did not *)
(* list any more when it was read makes the request fail only then.        *)
Refill(r) ==
    /\ task[r].pc = "refilling"
    /\ saving' = saving \cup NewChunks(r, task[r].loader)
    /\ Goto(r, IF task[r].loader \in Listed(task[r].entity) THEN "closing" ELSE "failed")
    /\ UNCHANGED <<setup, store, chunks, crashes, faults>>

SaveLands(c) ==
    /\ c \in saving
    /\ saving' = saving \ {c}
    /\ chunks' = chunks \cup {c}
    /\ UNCHANGED <<setup, store, task, crashes, faults>>

(* A save that is refused is missed by nobody. *)
SaveFails(c) ==
    /\ c \in saving
    /\ faults < setup.faults
    /\ faults' = faults + 1
    /\ saving' = saving \ {c}
    /\ UNCHANGED <<setup, store, chunks, task, crashes>>

(* The status of the store given to the loader. *)
BugSynced(row, l, total) ==
    LET loaders == [row.loaders EXCEPT ![l] = [status |-> "SYNC", total |-> total]]
        all     == \A k \in Listed(row) \cup {l} : loaders[k].status = "SYNC"
    IN  [row EXCEPT !.exists = TRUE, !.status = "SYNC",
                    !.loaders = [loaders EXCEPT ![l].status = IF all THEN "SYNC" ELSE "STALE"]]

(* The row, as it was read before the document was split, says that the    *)
(* loader is done.                                                         *)
Synced(row, l, total) ==
    LET loaders == [row.loaders EXCEPT ![l] = [status |-> "SYNC", total |-> total]]
        all     == \A k \in Listed(row) \cup {l} : loaders[k].status = "SYNC"
    IN  [row EXCEPT !.exists = TRUE, !.status = IF all THEN "SYNC" ELSE "STALE",
                    !.loaders = loaders]

(* The chunks from before are deleted last. *)
BugClose(r) ==
    /\ task[r].pc = "closing"
    /\ store' = Synced(task[r].entity, task[r].loader, task[r].made[task[r].loader])
    /\ Goto(r, IF task[r].op = "process" THEN "done" ELSE "configure")
    /\ chunks' = chunks \ ChunksOf(task[r].loader)
    /\ UNCHANGED <<setup, saving, crashes, faults>>

Close(r) ==
    /\ task[r].pc = "closing"
    /\ store' = Synced(task[r].entity, task[r].loader, task[r].made[task[r].loader])
    /\ Goto(r, IF task[r].op = "process" THEN "done" ELSE "configure")
    /\ UNCHANGED <<setup, chunks, saving, crashes, faults>>

-----------------------------------------------------------------------------
(* Inserting into the vector store: insertIntoVectorStore().               *)

(* Has the request a configuration, of its own or the row's? *)
Named(r) == task[r].names \/ task[r].entity.configured

(* Whoever is at it goes on with it. *)
BugConfigured(r) ==
    [task[r].entity EXCEPT
        !.exists = TRUE,
        !.configured = task[r].names \/ (@ /\ task[r].op \in {"upsert", "refresh"}),
        !.status = IF @ \in {"UPSERTED", "UPSERTING"} \/ ~ Named(r) THEN @ ELSE "SYNC"]

(* saveVectorStoreConfig(): the row gets the configuration of the request; *)
(* a request without one takes the row's, and off the row too, if strict.  *)
Configured(r) ==
    [task[r].entity EXCEPT
        !.exists = TRUE,
        !.configured = task[r].names \/ (@ /\ task[r].op \in {"upsert", "refresh"}),
        !.status = IF @ = "UPSERTED" \/ ~ Named(r) THEN @ ELSE "SYNC"]

(* The configuration is saved; the status UPSERTING is saved after that,   *)
(* and overwritten when the configuration is saved a second time, if there *)
(* is one.                                                                 *)
Configure(r) ==
    /\ task[r].pc = "configuring"
    /\ store' = Configured(r)
    /\ IF task[r].op = "config"
       THEN Goto(r, "done")
       ELSE task' = [task EXCEPT ![r].entity = Configured(r), ![r].names = Named(r),
                                 ![r].again = ~ @,
                                 ![r].pc = IF task[r].again THEN "embedding" ELSE "upserting"]
    /\ UNCHANGED <<setup, chunks, saving, crashes, faults>>

Upserting(r) ==
    /\ task[r].pc = "upserting"
    /\ store' = [task[r].entity EXCEPT !.status = "UPSERTING"]
    /\ Goto(r, "configure")
    /\ UNCHANGED <<setup, chunks, saving, crashes, faults>>

(* The chunks go to the vector store, or that fails, as it does when       *)
(* nothing is configured.                                                  *)
Embed(r) ==
    /\ task[r].pc = "embedding"
    /\ Goto(r, "failed") \/ (task[r].names /\ Goto(r, "upserted"))
    /\ UNCHANGED <<setup, store, chunks, saving, crashes, faults>>

Upserted(r) ==
    /\ task[r].pc = "upserted"
    /\ store' = [task[r].entity EXCEPT !.status = "UPSERTED"]
    /\ IF task[r].todo = <<>>
       THEN Goto(r, "done")
       ELSE task' = [task EXCEPT ![r].pc = "find", ![r].loader = Head(task[r].todo),
                                 ![r].todo = Tail(@)]
    /\ UNCHANGED <<setup, chunks, saving, crashes, faults>>

-----------------------------------------------------------------------------
(* Deleting. *)

(* deleteLoaderFromDocumentStore(): the chunks, then the row. *)
DropChunks(r) ==
    /\ task[r].pc = "dropping"
    /\ chunks' = chunks \ ChunksOf(task[r].loader)
    /\ Goto(r, "unlisting")
    /\ UNCHANGED <<setup, store, saving, crashes, faults>>

Unlist(r) ==
    /\ task[r].pc = "unlisting"
    /\ store' = [task[r].entity EXCEPT !.loaders[task[r].loader] = Absent]
    /\ Goto(r, "done")
    /\ UNCHANGED <<setup, chunks, saving, crashes, faults>>

(* deleteDocumentStore(): the chunks, then the row. *)
Empty(r) ==
    /\ task[r].pc = "empty"
    /\ chunks' = {}
    /\ Goto(r, "destroy")
    /\ UNCHANGED <<setup, store, saving, crashes, faults>>

Destroy(r) ==
    /\ task[r].pc = "destroying"
    /\ store' = [store EXCEPT !.exists = FALSE, !.loaders = [l \in Loaders |-> Absent]]
    /\ Goto(r, "done")
    /\ UNCHANGED <<setup, chunks, saving, crashes, faults>>

(* deleteDocumentStoreFileChunk(): the chunk is found by its id, deleted,  *)
(* and the count of the loader that the request names is lowered in the    *)
(* row as it was read.                                                     *)
FindChunk(r) ==
    /\ task[r].pc = "picking"
    /\ \/ Goto(r, "failed")
       \/ \E c \in chunks :
             /\ setup.astray \/ c.loader = task[r].loader
             /\ task' = [task EXCEPT ![r].pc = "removing", ![r].picked = {c}]
    /\ UNCHANGED <<setup, store, chunks, saving, crashes, faults>>

RemoveChunk(r) ==
    /\ task[r].pc = "removing"
    /\ chunks' = chunks \ task[r].picked
    /\ task' = [task EXCEPT ![r].pc = "counting", ![r].picked = {}]
    /\ UNCHANGED <<setup, store, saving, crashes, faults>>

CountDown(r) ==
    /\ task[r].pc = "counting"
    /\ store' = [task[r].entity EXCEPT !.loaders[task[r].loader].total = @ - 1]
    /\ Goto(r, "done")
    /\ UNCHANGED <<setup, chunks, saving, crashes, faults>>

(* The process dies, and with it the saves that have not landed. *)
Crash ==
    /\ crashes < setup.crashes
    /\ \E r \in Requests : Busy(r)
    /\ task' = [r \in Requests |->
                IF Busy(r) THEN [task[r] EXCEPT !.pc = "dead", !.entity = NewRow, !.picked = {}]
                           ELSE task[r]]
    /\ saving' = {}
    /\ crashes' = crashes + 1
    /\ UNCHANGED <<setup, store, chunks, faults>>

-----------------------------------------------------------------------------
StoreNext ==
    \/ \E r \in Requests :
          \/ \E op \in DOMAIN First, l \in Loaders, names \in BOOLEAN : Begin(r, op, l, names)
          \/ Rejected(r)
          \/ Read(r) \/ List(r) \/ Find(r)
          \/ Mark(r) \/ Split(r) \/ Clear(r) \/ Refill(r) \/ Close(r)
          \/ Configure(r) \/ Upserting(r) \/ Embed(r) \/ Upserted(r)
          \/ DropChunks(r) \/ Unlist(r) \/ Empty(r) \/ Destroy(r)
          \/ FindChunk(r) \/ RemoveChunk(r) \/ CountDown(r)
    \/ \E c \in saving : SaveLands(c) \/ SaveFails(c)
    \/ Crash

StoreSpec == StoreInit /\ [][StoreNext]_storeVars

-----------------------------------------------------------------------------
Rows == [exists : BOOLEAN, status : Statuses, configured : BOOLEAN,
         loaders : [Loaders -> [status : {"NONE", "SYNCING", "SYNC"}, total : Int]]]

Places ==
    {"idle", "list", "find"} \cup Ended
        \cup {"mark", "marking", "open", "splitting", "replacing", "refilling", "closing"}
        \cup {"configure", "configuring", "upserting", "embedding", "upserted"}
        \cup {"remove", "dropping", "unlisting", "empty", "destroy", "destroying"}
        \cup {"pick", "picking", "removing", "counting"}

AllChunks == [loader : Loaders, by : Requests, no : Nat]

StoreTypeOK ==
    /\ setup \in Setups
    /\ store \in Rows
    /\ chunks \subseteq AllChunks /\ saving \subseteq AllChunks
    /\ task \in [Requests -> [pc : Places, op : Operations \cup {"none"}, loader : Loaders,
                              todo : Seq(Loaders), entity : Rows, again : BOOLEAN,
                              names : BOOLEAN, picked : SUBSET AllChunks,
                              made : [Loaders -> Int]]]
    /\ crashes \in Nat /\ faults \in Nat

Quiet == saving = {} /\ \A r \in Requests : ~ Busy(r)

(* Nothing went wrong but what the code itself makes fail. *)
Faultless == crashes = 0 /\ faults = 0

(* While requests wait for one another, no chunk is left without its       *)
(* loader, whatever fails, is refused or crashes half way (index.ts        *)
(* 124-131, 278-298, 713, 875-894).                                        *)
NoOrphans ==
    ~ setup.overlap => \A c \in chunks : store.exists /\ c.loader \in Listed(store)

(* While requests wait for one another, and a request for a chunk names    *)
(* its own loader, the count of a loader that is SYNC covers its chunks    *)
(* throughout, also when the row could not be saved after a chunk was      *)
(* deleted or the save of a chunk was refused, and is exact when all is    *)
(* quiet and nothing of that happened (index.ts 309-334, 690-713,          *)
(* 875-907).                                                               *)
Counted ==
    ~ setup.overlap /\ ~ setup.astray =>
        \A l \in Loaders : store.loaders[l].status = "SYNC" =>
            /\ Cardinality(ChunksOf(l)) <= store.loaders[l].total
            /\ Quiet /\ Faultless => Cardinality(ChunksOf(l)) = store.loaders[l].total

(* However many requests process a loader at a time, the chunks that one   *)
(* of them made are all there or on their way, unless one of them has just *)
(* deleted them and is about to save its own; as long as nothing else is   *)
(* deleted, refused or crashes (index.ts 874-895).                         *)
WholeVersion ==
    LET at(r, place, l) == task[r].pc = place /\ task[r].loader = l
        replaced(r, l)  == /\ task[r].made[l] # -1
                           /\ ~ at(r, "replacing", l) /\ ~ at(r, "refilling", l)
        deleting(r)     == task[r].op \in {"deleteLoader", "deleteStore", "deleteChunk"}
    IN  Faultless /\ ~ (\E r \in Requests : deleting(r)) => \A l \in Loaders :
            (\E r \in Requests : replaced(r, l)) =>
                \E r \in Requests :
                    \/ replaced(r, l) /\ NewChunks(r, l) \subseteq chunks \cup saving
                    \/ at(r, "refilling", l)

(* An upsert that fails does not leave the store UPSERTING, while requests *)
(* wait for one another and nothing is refused or crashes, unless an       *)
(* insert came when nothing was configured (index.ts 1054-1058, 1077-1079, *)
(* 1203).                                                                  *)
NotStuckUpserting ==
    ~ setup.overlap /\ Quiet /\ Faultless /\ store.status = "UPSERTING" =>
        \E r \in Requests : task[r].op = "insert" /\ ~ task[r].names
=============================================================================
