------------------------------ MODULE TaskHistory ------------------------------
(***************************************************************************)
(* The task history (TaskHistoryStore.ts over the file backend of          *)
(* taskMetadataStore.ts): one record per task in a file of its own, a      *)
(* cache of all records in every process, and an index file from which a   *)
(* process fills its cache when it starts. Processes (windows, or replicas *)
(* that mount one volume) share the files.                                 *)
(*                                                                         *)
(* One step is the code between two awaits; operations that go through     *)
(* withLock run one after the other, the others in between.                *)
(***************************************************************************)
EXTENDS Naturals, Sequences, FiniteSets

CONSTANTS
    Procs,       \* processes that share the store
    Tasks,
    Fields,      \* the fields of a history item the callers update separately
    Values,
    Unset,       \* a field that is not there
    NoLoad,      \* no getOrLoad of a task under way
    RacingLoads, \* a getOrLoad may overlap other operations on the task
    Faults,      \* what may go wrong: "write", "crash", "torn"
    MaxQueue     \* operations waiting for a process' lock

ASSUME HistoryAssumption ==
    /\ Unset \notin Values
    /\ NoLoad \notin [Fields -> Values \cup {Unset}]
    /\ RacingLoads \in BOOLEAN
    /\ Faults \subseteq {"write", "crash", "torn"}
    /\ MaxQueue \in Nat

VARIABLES
    files,    \* tasks/<id>/history_item.json
    dirs,     \* the directories tasks/<id>
    index,    \* tasks/_index.json
    up,       \* processes that run
    cache,    \* the cache of each process
    queue,    \* operations that hold or wait for a process' lock, the holder first
    running,  \* how far the holder is
    loads,    \* what a getOrLoad under way has read
    dirty,    \* processes whose timer will write the index
    missed    \* processes whose last write of the index failed (of interest to the properties only)

vars == <<files, dirs, index, up, cache, queue, running, loads, dirty, missed>>

Items == [Fields -> Values \cup {Unset}]
None  == [f \in Fields |-> Unset]
(* { ...existing, ...item } *)
Merge(existing, item) == [f \in Fields |-> IF item[f] = Unset THEN existing[f] ELSE item[f]]

Updates == Items \ {None}
Ops ==      [kind : {"upsert"}, tasks : {{t} : t \in Tasks}, item : Updates]
       \cup [kind : {"delete"}, tasks : SUBSET Tasks \ {{}}, item : {None}]
       \cup [kind : {"reconcile"}, tasks : {{}}, item : {None}]
Reconcile == [kind |-> "reconcile", tasks |-> {}, item |-> None]

(* `todo` holds the tasks still to be worked on, `gone` those reconcile drops at its end. *)
Steps == [pc : {"idle", "writing", "written", "deleting", "unlinking", "adding"},
          todo : SUBSET Tasks, gone : SUBSET Tasks, item : Items, changed : BOOLEAN]
Step(pc, todo, gone, item, changed) ==
    [pc |-> pc, todo |-> todo, gone |-> gone, item |-> item, changed |-> changed]
Idle == Step("idle", {}, {}, None, FALSE)

Cached(p) == {t \in Tasks : cache[p][t] # None}
Settled(p, t) == \A i \in 1..Len(queue[p]) : t \notin queue[p][i].tasks

(* A clean start: the index agrees with the files. *)
Init ==
    /\ files \in [Tasks -> Items]
    /\ dirs = {t \in Tasks : files[t] # None}
    /\ index = files
    /\ up = {}
    /\ cache = [p \in Procs |-> [t \in Tasks |-> None]]
    /\ queue = [p \in Procs |-> <<>>]
    /\ running = [p \in Procs |-> Idle]
    /\ loads = [p \in Procs |-> [t \in Tasks |-> NoLoad]]
    /\ dirty = {} /\ missed = {}

-----------------------------------------------------------------------------
(* initialize: the cache is filled from the index, then reconciled. *)
Initialize(p) ==
    /\ p \notin up
    /\ up' = up \cup {p}
    /\ cache' = [cache EXCEPT ![p] = index]
    /\ queue' = [queue EXCEPT ![p] = <<Reconcile>>]
    /\ UNCHANGED <<files, dirs, index, running, loads, dirty, missed>>

Submit(p, op) ==
    /\ p \in up
    /\ Len(queue[p]) < MaxQueue
    /\ RacingLoads \/ \A t \in op.tasks : loads[p][t] = NoLoad
    /\ queue' = [queue EXCEPT ![p] = Append(@, op)]
    /\ UNCHANGED <<files, dirs, index, up, cache, running, loads, dirty, missed>>

(* The operation at the head leaves the lock. *)
Leave(p) ==
    /\ queue' = [queue EXCEPT ![p] = Tail(@)]
    /\ running' = [running EXCEPT ![p] = Idle]

(* upsert: the update is merged into the cached record ... *)
UpsertBeginCached(p) ==
    /\ queue[p] # <<>> /\ Head(queue[p]).kind = "upsert"
    /\ running[p] = Idle
    /\ \E t \in Head(queue[p]).tasks :
          /\ running' = [running EXCEPT ![p] =
                           Step("writing", {t}, {}, Merge(cache[p][t], Head(queue[p]).item), FALSE)]
          /\ cache' = [cache EXCEPT ![p][t] = running'[p].item]
    /\ UNCHANGED <<files, dirs, index, up, queue, loads, dirty, missed>>
UpsertBegin(p) ==
    /\ queue[p] # <<>> /\ Head(queue[p]).kind = "upsert"
    /\ running[p] = Idle
    /\ \E t \in Head(queue[p]).tasks :
          running' = [running EXCEPT ![p] =
                        Step("writing", {t}, {}, Merge(cache[p][t], Head(queue[p]).item), FALSE)]
    /\ UNCHANGED <<files, dirs, index, up, cache, queue, loads, dirty, missed>>

(* ... written ... *)
UpsertWrite(p) ==
    /\ running[p].pc = "writing"
    /\ files' = [t \in Tasks |-> IF t \in running[p].todo THEN running[p].item ELSE files[t]]
    /\ dirs' = dirs \cup running[p].todo
    /\ running' = [running EXCEPT ![p] = Step("written", running[p].todo, {}, running[p].item, FALSE)]
    /\ UNCHANGED <<index, up, cache, queue, loads, dirty, missed>>

UpsertFails(p) ==
    /\ "write" \in Faults
    /\ running[p].pc = "writing"
    /\ Leave(p)
    /\ UNCHANGED <<files, dirs, index, up, cache, loads, dirty, missed>>

(* ... and cached. *)
UpsertDoneUnmerged(p) ==
    /\ running[p].pc = "written"
    /\ cache' = [cache EXCEPT ![p] = [t \in Tasks |-> IF t \in running[p].todo
                                                      THEN Head(queue[p]).item ELSE cache[p][t]]]
    /\ dirty' = dirty \cup {p}
    /\ Leave(p)
    /\ UNCHANGED <<files, dirs, index, up, loads, missed>>
UpsertDone(p) ==
    /\ running[p].pc = "written"
    /\ cache' = [cache EXCEPT ![p] = [t \in Tasks |-> IF t \in running[p].todo
                                                      THEN running[p].item ELSE cache[p][t]]]
    /\ dirty' = dirty \cup {p}
    /\ Leave(p)
    /\ UNCHANGED <<files, dirs, index, up, loads, missed>>

(* delete and deleteMany: for each task the cache entry, then the file. *)
DeleteBegin(p) ==
    /\ queue[p] # <<>> /\ Head(queue[p]).kind = "delete"
    /\ running[p] = Idle
    /\ running' = [running EXCEPT ![p] = Step("deleting", Head(queue[p]).tasks, {}, None, FALSE)]
    /\ UNCHANGED <<files, dirs, index, up, cache, queue, loads, dirty, missed>>

DeleteEntry(p, t) ==
    /\ running[p].pc = "deleting"
    /\ t \in running[p].todo
    /\ cache' = [cache EXCEPT ![p] = [u \in Tasks |-> IF u = t THEN None ELSE cache[p][u]]]
    /\ running' = [running EXCEPT ![p] = Step("unlinking", running[p].todo \ {t}, {t}, None, FALSE)]
    /\ UNCHANGED <<files, dirs, index, up, queue, loads, dirty, missed>>

DeleteFile(p) ==
    /\ running[p].pc = "unlinking"
    /\ files' = [t \in Tasks |-> IF t \in running[p].gone THEN None ELSE files[t]]
    /\ running' = [running EXCEPT ![p] = Step("deleting", running[p].todo, {}, None, FALSE)]
    /\ UNCHANGED <<dirs, index, up, cache, queue, loads, dirty, missed>>

DeleteDoneUnscheduled(p) ==
    /\ running[p].pc = "deleting" /\ running[p].todo = {}
    /\ Leave(p)
    /\ UNCHANGED <<files, dirs, index, up, cache, loads, dirty, missed>>
DeleteDone(p) ==
    /\ running[p].pc = "deleting" /\ running[p].todo = {}
    /\ dirty' = dirty \cup {p}
    /\ Leave(p)
    /\ UNCHANGED <<files, dirs, index, up, cache, loads, missed>>

(* deleteTaskWithId removes the directory afterwards; no late write brings the task back meanwhile. *)
RemoveDirectory(p, t) ==
    /\ p \in up
    /\ t \in dirs
    /\ cache[p][t] = None /\ files[t] = None /\ Settled(p, t)
    /\ dirs' = dirs \ {t}
    /\ files' = [files EXCEPT ![t] = None]
    /\ UNCHANGED <<index, up, cache, queue, running, loads, dirty, missed>>

-----------------------------------------------------------------------------
(* What a read of t's file by p may give: nothing, too, while another write replaces the file. *)
Reads(t) == {files[t]} \cup {None : p \in {q \in Procs : running[q].pc = "writing" /\ t \in running[q].todo}}

(* reconcile: the directories are listed, uncached ones read, vanished ones dropped. *)
ReconcileListUncached(p) ==
    /\ queue[p] # <<>> /\ Head(queue[p]).kind = "reconcile"
    /\ running[p] = Idle
    /\ running' = [running EXCEPT ![p] = Step("adding", dirs \ Cached(p), {}, None, FALSE)]
    /\ UNCHANGED <<files, dirs, index, up, cache, queue, loads, dirty, missed>>
ReconcileList(p) ==
    /\ queue[p] # <<>> /\ Head(queue[p]).kind = "reconcile"
    /\ running[p] = Idle
    /\ running' = [running EXCEPT ![p] = Step("adding", dirs \ Cached(p), Cached(p) \ dirs, None, FALSE)]
    /\ UNCHANGED <<files, dirs, index, up, cache, queue, loads, dirty, missed>>

ReconcileRead(p, t) ==
    /\ running[p].pc = "adding"
    /\ t \in running[p].todo
    /\ \E item \in Reads(t) :
          /\ cache' = [cache EXCEPT ![p] = [u \in Tasks |-> IF u = t /\ item # None
                                                            THEN item ELSE cache[p][u]]]
          /\ running' = [running EXCEPT ![p] = Step("adding", running[p].todo \ {t}, running[p].gone, None,
                                                    running[p].changed \/ item # None)]
    /\ UNCHANGED <<files, dirs, index, up, queue, loads, dirty, missed>>

ReconcileDone(p) ==
    /\ running[p].pc = "adding" /\ running[p].todo = {}
    /\ cache' = [cache EXCEPT ![p] = [t \in Tasks |-> IF t \in running[p].gone
                                                      THEN None ELSE cache[p][t]]]
    /\ dirty' = IF running[p].changed \/ running[p].gone # {} THEN dirty \cup {p} ELSE dirty
    /\ Leave(p)
    /\ UNCHANGED <<files, dirs, index, up, loads, missed>>

(* getOrLoad outside the lock: a miss reads the file (invalidate) ... *)
LoadRead(p, t) ==
    /\ p \in up
    /\ loads[p][t] = NoLoad
    /\ cache[p][t] = None
    /\ RacingLoads \/ Settled(p, t)
    /\ \E item \in Reads(t) :
          loads' = [loads EXCEPT ![p] = [u \in Tasks |-> IF u = t THEN item ELSE loads[p][u]]]
    /\ UNCHANGED <<files, dirs, index, up, cache, queue, running, dirty, missed>>

(* ... and what was read replaces the entry. *)
LoadDone(p, t) ==
    /\ loads[p][t] # NoLoad
    /\ cache' = [cache EXCEPT ![p] = [u \in Tasks |-> IF u = t THEN loads[p][t] ELSE cache[p][u]]]
    /\ loads' = [loads EXCEPT ![p] = [u \in Tasks |-> IF u = t THEN NoLoad ELSE loads[p][u]]]
    /\ UNCHANGED <<files, dirs, index, up, queue, running, dirty, missed>>

(* The debounced write of the index. A write that fails is logged; no other is scheduled. *)
WriteIndex(p) ==
    /\ p \in dirty
    /\ dirty' = dirty \ {p}
    /\ \/ index' = cache[p] /\ missed' = missed \ {p}
       \/ "write" \in Faults /\ missed' = missed \cup {p} /\ UNCHANGED index
    /\ UNCHANGED <<files, dirs, up, cache, queue, running, loads>>

(* The process ends, after dispose has written the index or before. A write cut off between the
   two renames of safeWriteJson (torn) leaves no file; without an index the cache starts empty. *)
Stop(p) ==
    /\ "crash" \in Faults
    /\ p \in up
    /\ up' = up \ {p}
    /\ \/ index' \in {index, cache[p]}
       \/ "torn" \in Faults /\ index' = [t \in Tasks |-> None]
    /\ cache' = [cache EXCEPT ![p] = [t \in Tasks |-> None]]
    /\ queue' = [queue EXCEPT ![p] = <<>>]
    /\ running' = [running EXCEPT ![p] = Idle]
    /\ loads' = [loads EXCEPT ![p] = [t \in Tasks |-> NoLoad]]
    /\ dirty' = dirty \ {p} /\ missed' = missed \ {p}
    /\ \/ UNCHANGED files
       \/ /\ "torn" \in Faults
          /\ running[p].pc = "writing"
          /\ files' = [t \in Tasks |-> IF t \in running[p].todo THEN None ELSE files[t]]
    /\ UNCHANGED dirs

Lock(p) == \/ UpsertBegin(p) \/ UpsertWrite(p) \/ UpsertFails(p) \/ UpsertDone(p)
           \/ DeleteBegin(p) \/ DeleteFile(p) \/ DeleteDone(p)
           \/ ReconcileList(p) \/ ReconcileDone(p)
           \/ \E t \in Tasks : DeleteEntry(p, t) \/ ReconcileRead(p, t)
Load(p) == \E t \in Tasks : LoadRead(p, t) \/ LoadDone(p, t)

Next == \E p \in Procs :
           \/ Initialize(p) \/ Stop(p)
           \/ \E op \in Ops : Submit(p, op)
           \/ Lock(p) \/ Load(p) \/ WriteIndex(p)
           \/ \E t \in Tasks : RemoveDirectory(p, t)

Spec == Init /\ [][Next]_vars

(* What has been started is finished, and a timer that is not set again fires. *)
FairSpec == Spec /\ \A p \in Procs : /\ WF_vars(Lock(p)) /\ WF_vars(WriteIndex(p))
                                    /\ \A t \in Tasks : WF_vars(LoadDone(p, t))
-----------------------------------------------------------------------------
(* Type invariant of the history. *)
TypeOK ==
    /\ files \in [Tasks -> Items] /\ index \in [Tasks -> Items]
    /\ dirs \subseteq Tasks
    /\ up \subseteq Procs /\ dirty \subseteq Procs /\ missed \subseteq Procs
    /\ cache \in [Procs -> [Tasks -> Items]]
    /\ queue \in [Procs -> Seq(Ops)]
    /\ running \in [Procs -> Steps]
    /\ loads \in [Procs -> [Tasks -> Items \cup {NoLoad}]]

(* A record changes only by being deleted or by the update of the operation that writes it, merged
   into what the record holds at that moment: upsert's read-modify-write loses no other update. *)
WritesMerge ==
    [][\A t \in Tasks : files'[t] # files[t] =>
          \/ files'[t] = None
          \/ \E p \in Procs : /\ running[p].pc = "writing" /\ t \in running[p].todo
                              /\ files'[t] = Merge(files[t], Head(queue[p]).item)]_vars

(* Between the operations on a task every process' cache holds what the task's file holds. *)
CacheAgrees == \A p \in up, t \in Tasks :
    (t \notin running[p].todo \cup running[p].gone) => cache[p][t] = files[t]

(* The list a process shows is complete when it has reconciled: it has every task with a record. *)
ListComplete ==
    [][\A p \in Procs : ReconcileDone(p) => \A t \in Tasks :
          /\ files[t] # None => cache'[p][t] # None
          /\ t \notin dirs => cache'[p][t] = None]_vars

(* Once no operation runs any more the index catches up with the cache, unless the last write of
   the index has failed: the timer is set again by the next change only. *)
IndexCatchesUp == \A p \in Procs :
    <>[](p \in up /\ queue[p] = <<>>) => <>[](index = cache[p] \/ p \in missed)
=============================================================================
