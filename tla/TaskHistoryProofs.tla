--------------------------- MODULE TaskHistoryProofs ---------------------------
(***************************************************************************)
(* Proofs about TaskHistory: its type invariant, and that in one process   *)
(* that does not crash, and whose getOrLoad does not overlap other         *)
(* operations on the task, the cache agrees with the files and an upsert   *)
(* merges into what the file holds. When it may crash, its list is at      *)
(* least complete once it has reconciled.                                  *)
(***************************************************************************)
EXTENDS TaskHistory, SequenceTheorems, TLAPS

LEMMA NoneType == None \in Items
BY DEF None, Items

LEMMA MergeType ==
    ASSUME NEW a \in Items, NEW b \in Items PROVE Merge(a, b) \in Items
BY DEF Merge, Items

LEMMA OpType ==
    ASSUME NEW op \in Ops
    PROVE  /\ op.tasks \subseteq Tasks
           /\ op.item \in Items
           /\ op.kind = "upsert" => \E t \in Tasks : op.tasks = {t}
<1>1. CASE op \in [kind : {"upsert"}, tasks : {{t} : t \in Tasks}, item : Updates]
  BY <1>1 DEF Updates
<1>2. CASE op \in [kind : {"delete"}, tasks : SUBSET Tasks \ {{}}, item : {None}]
  BY <1>2, NoneType
<1>3. CASE op \in [kind : {"reconcile"}, tasks : {{}}, item : {None}]
  BY <1>3, NoneType
<1> QED BY <1>1, <1>2, <1>3 DEF Ops

LEMMA ReconcileType == Reconcile \in Ops
BY DEF Reconcile, Ops

LEMMA StepType ==
    ASSUME NEW pc \in {"idle", "writing", "written", "deleting", "unlinking", "adding"},
           NEW todo \in SUBSET Tasks, NEW gone \in SUBSET Tasks, NEW item \in Items,
           NEW changed \in BOOLEAN
    PROVE  Step(pc, todo, gone, item, changed) \in Steps
BY DEF Step, Steps

LEMMA IdleType == Idle \in Steps
BY NoneType, StepType DEF Idle

LEMMA ReadsType ==
    ASSUME TypeOK, NEW t \in Tasks, NEW item \in Reads(t) PROVE item \in Items
BY NoneType DEF Reads, TypeOK

(* The head of a process' queue is an operation, and so is the rest. *)
LEMMA HeadType ==
    ASSUME TypeOK, NEW p \in Procs, queue[p] # <<>>
    PROVE  Head(queue[p]) \in Ops /\ Tail(queue[p]) \in Seq(Ops)
<1>1. queue[p] \in Seq(Ops)
  BY DEF TypeOK
<1> QED BY <1>1, HeadTailProperties

LEMMA RunningType ==
    ASSUME TypeOK, NEW p \in Procs
    PROVE  /\ running[p].todo \in SUBSET Tasks /\ running[p].gone \in SUBSET Tasks
           /\ running[p].item \in Items /\ running[p].changed \in BOOLEAN
           /\ running[p].pc \in {"idle", "writing", "written", "deleting", "unlinking", "adding"}
<1>1. running[p] \in Steps
  BY DEF TypeOK
<1> QED BY <1>1 DEF Steps

(* Setting one process' entry keeps the types. *)
LEMMA EntryType ==
    ASSUME NEW S, NEW F \in [Procs -> S], NEW p \in Procs, NEW v \in S
    PROVE  [F EXCEPT ![p] = v] \in [Procs -> S]
OBVIOUS

LEMMA LeaveType ==
    ASSUME TypeOK, NEW p \in Procs, queue[p] # <<>>, Leave(p)
    PROVE  queue' \in [Procs -> Seq(Ops)] /\ running' \in [Procs -> Steps]
<1>1. Tail(queue[p]) \in Seq(Ops)
  BY HeadType
<1>2. queue' \in [Procs -> Seq(Ops)]
  BY <1>1, EntryType DEF Leave, TypeOK
<1>3. running' \in [Procs -> Steps]
  BY IdleType, EntryType DEF Leave, TypeOK
<1> QED BY <1>2, <1>3

(* An operation that runs is at the head of the queue. *)
Busy == \A p \in Procs : running[p].pc # "idle" => queue[p] # <<>>

TInv == TypeOK /\ Busy

-----------------------------------------------------------------------------
LEMMA TypeInit == Init => TInv
<1> SUFFICES ASSUME Init PROVE TInv
  OBVIOUS
<1>1. cache \in [Procs -> [Tasks -> Items]] /\ loads \in [Procs -> [Tasks -> Items \cup {NoLoad}]]
  BY NoneType DEF Init
<1>2. queue \in [Procs -> Seq(Ops)] /\ running \in [Procs -> Steps]
  BY IdleType DEF Init
<1>3. Busy
  BY DEF Init, Busy, Idle, Step
<1> QED BY <1>1, <1>2, <1>3 DEF Init, TInv, TypeOK

LEMMA UpsertKeepsType ==
    ASSUME TInv, NEW p \in Procs,
           UpsertBegin(p) \/ UpsertWrite(p) \/ UpsertFails(p) \/ UpsertDone(p)
    PROVE  TInv'
<1> USE DEF TInv
<1>r. /\ running[p].todo \in SUBSET Tasks /\ running[p].gone \in SUBSET Tasks
      /\ running[p].item \in Items /\ running[p].changed \in BOOLEAN
  BY RunningType
<1>1. CASE UpsertBegin(p)
  <2>1. PICK t \in Head(queue[p]).tasks :
           running' = [running EXCEPT ![p] =
                         Step("writing", {t}, {}, Merge(cache[p][t], Head(queue[p]).item), FALSE)]
    BY <1>1 DEF UpsertBegin
  <2>2. Head(queue[p]) \in Ops
    BY <1>1, HeadType DEF UpsertBegin
  <2>3. t \in Tasks /\ Head(queue[p]).item \in Items
    BY <2>2, OpType
  <2>4. Merge(cache[p][t], Head(queue[p]).item) \in Items
    BY <2>3, MergeType DEF TypeOK
  <2>s. Step("writing", {t}, {}, Merge(cache[p][t], Head(queue[p]).item), FALSE) \in Steps
    BY <2>3, <2>4, StepType
  <2>5. running' \in [Procs -> Steps]
    BY <2>1, <2>s, EntryType DEF TypeOK
  <2>6. Busy'
    BY <1>1, <2>1 DEF UpsertBegin, Busy, TypeOK
  <2> QED BY <1>1, <2>5, <2>6 DEF UpsertBegin, TypeOK
<1>2. CASE UpsertWrite(p)
  <2>1. running' \in [Procs -> Steps]
    BY <1>2, <1>r, StepType, EntryType DEF UpsertWrite, TypeOK
  <2>2. files' \in [Tasks -> Items]
    BY <1>2, <1>r DEF UpsertWrite, TypeOK
  <2>3. Busy'
    BY <1>2 DEF UpsertWrite, Busy, TypeOK
  <2> QED BY <1>2, <1>r, <2>1, <2>2, <2>3 DEF UpsertWrite, TypeOK
<1>3. CASE UpsertFails(p)
  <2>1. queue' \in [Procs -> Seq(Ops)] /\ running' \in [Procs -> Steps]
    BY <1>3, LeaveType DEF UpsertFails, Busy
  <2>2. Busy'
    BY <1>3 DEF UpsertFails, Leave, Busy, TypeOK, Idle, Step
  <2> QED BY <1>3, <2>1, <2>2 DEF UpsertFails, TypeOK
<1>4. CASE UpsertDone(p)
  <2>1. queue' \in [Procs -> Seq(Ops)] /\ running' \in [Procs -> Steps]
    BY <1>4, LeaveType DEF UpsertDone, Busy
  <2>2. Busy'
    BY <1>4 DEF UpsertDone, Leave, Busy, TypeOK, Idle, Step
  <2>3. [t \in Tasks |-> IF t \in running[p].todo THEN running[p].item ELSE cache[p][t]] \in [Tasks -> Items]
    BY <1>r DEF TypeOK
  <2>4. cache' \in [Procs -> [Tasks -> Items]]
    BY <1>4, <2>3, EntryType DEF UpsertDone, TypeOK
  <2> QED BY <1>4, <2>1, <2>2, <2>4 DEF UpsertDone, TypeOK
<1> QED BY <1>1, <1>2, <1>3, <1>4

LEMMA DeleteKeepsType ==
    ASSUME TInv, NEW p \in Procs,
           \/ DeleteBegin(p) \/ DeleteFile(p) \/ DeleteDone(p)
           \/ \E t \in Tasks : DeleteEntry(p, t)
    PROVE  TInv'
<1> USE DEF TInv
<1>r. /\ running[p].todo \in SUBSET Tasks /\ running[p].gone \in SUBSET Tasks
  BY RunningType
<1>1. CASE DeleteBegin(p)
  <2>1. Head(queue[p]).tasks \in SUBSET Tasks
    BY <1>1, HeadType, OpType DEF DeleteBegin
  <2>2. running' \in [Procs -> Steps]
    BY <1>1, <2>1, NoneType, StepType, EntryType DEF DeleteBegin, TypeOK
  <2>3. Busy'
    BY <1>1 DEF DeleteBegin, Busy, TypeOK
  <2> QED BY <1>1, <2>2, <2>3 DEF DeleteBegin, TypeOK
<1>2. CASE DeleteFile(p)
  <2>1. running' \in [Procs -> Steps]
    BY <1>2, <1>r, NoneType, StepType, EntryType DEF DeleteFile, TypeOK
  <2>2. files' \in [Tasks -> Items]
    BY <1>2, NoneType DEF DeleteFile, TypeOK
  <2>3. Busy'
    BY <1>2 DEF DeleteFile, Busy, TypeOK
  <2> QED BY <1>2, <2>1, <2>2, <2>3 DEF DeleteFile, TypeOK
<1>3. CASE DeleteDone(p)
  <2>1. queue' \in [Procs -> Seq(Ops)] /\ running' \in [Procs -> Steps]
    BY <1>3, LeaveType DEF DeleteDone, Busy
  <2>2. Busy'
    BY <1>3 DEF DeleteDone, Leave, Busy, TypeOK, Idle, Step
  <2> QED BY <1>3, <2>1, <2>2 DEF DeleteDone, TypeOK
<1>4. ASSUME NEW t \in Tasks, DeleteEntry(p, t) PROVE TInv'
  <2>1. running' \in [Procs -> Steps]
    <3>1. Step("unlinking", running[p].todo \ {t}, {t}, None, FALSE) \in Steps
      BY <1>r, NoneType, StepType
    <3> QED BY <1>4, <3>1, EntryType DEF DeleteEntry, TypeOK
  <2>2. [u \in Tasks |-> IF u = t THEN None ELSE cache[p][u]] \in [Tasks -> Items]
    BY NoneType DEF TypeOK
  <2>3. cache' \in [Procs -> [Tasks -> Items]]
    BY <1>4, <2>2, EntryType DEF DeleteEntry, TypeOK
  <2>4. Busy'
    BY <1>4 DEF DeleteEntry, Busy, TypeOK
  <2> QED BY <1>4, <2>1, <2>3, <2>4 DEF DeleteEntry, TypeOK
<1> QED BY <1>1, <1>2, <1>3, <1>4

LEMMA ReconcileKeepsType ==
    ASSUME TInv, NEW p \in Procs,
           ReconcileList(p) \/ ReconcileDone(p) \/ \E t \in Tasks : ReconcileRead(p, t)
    PROVE  TInv'
<1> USE DEF TInv
<1>r. /\ running[p].todo \in SUBSET Tasks /\ running[p].gone \in SUBSET Tasks
      /\ running[p].changed \in BOOLEAN
  BY RunningType
<1>1. CASE ReconcileList(p)
  <2>1. dirs \ Cached(p) \in SUBSET Tasks /\ Cached(p) \ dirs \in SUBSET Tasks
    BY DEF Cached, TypeOK
  <2>2. running' \in [Procs -> Steps]
    BY <1>1, <2>1, NoneType, StepType, EntryType DEF ReconcileList, TypeOK
  <2>3. Busy'
    BY <1>1 DEF ReconcileList, Busy, TypeOK
  <2> QED BY <1>1, <2>2, <2>3 DEF ReconcileList, TypeOK
<1>2. CASE ReconcileDone(p)
  <2>1. queue' \in [Procs -> Seq(Ops)] /\ running' \in [Procs -> Steps]
    BY <1>2, LeaveType DEF ReconcileDone, Busy
  <2>2. Busy'
    BY <1>2 DEF ReconcileDone, Leave, Busy, TypeOK, Idle, Step
  <2>3. [t \in Tasks |-> IF t \in running[p].gone THEN None ELSE cache[p][t]] \in [Tasks -> Items]
    BY NoneType DEF TypeOK
  <2>4. cache' \in [Procs -> [Tasks -> Items]]
    BY <1>2, <2>3, EntryType DEF ReconcileDone, TypeOK
  <2>5. dirty' \subseteq Procs /\ missed' \subseteq Procs
    BY <1>2 DEF ReconcileDone, TypeOK
  <2> QED BY <1>2, <2>1, <2>2, <2>4, <2>5 DEF ReconcileDone, TypeOK
<1>3. ASSUME NEW t \in Tasks, ReconcileRead(p, t) PROVE TInv'
  <2>1. PICK item \in Reads(t) :
          /\ cache' = [cache EXCEPT ![p] = [u \in Tasks |-> IF u = t /\ item # None
                                                            THEN item ELSE cache[p][u]]]
          /\ running' = [running EXCEPT ![p] = Step("adding", running[p].todo \ {t}, running[p].gone, None,
                                                    running[p].changed \/ item # None)]
    BY <1>3 DEF ReconcileRead
  <2>2. item \in Items
    BY ReadsType
  <2>3. [u \in Tasks |-> IF u = t /\ item # None THEN item ELSE cache[p][u]] \in [Tasks -> Items]
    BY <2>2 DEF TypeOK
  <2>4. cache' \in [Procs -> [Tasks -> Items]]
    BY <2>1, <2>3, EntryType DEF TypeOK
  <2>c. (running[p].changed \/ item # None) \in BOOLEAN
    BY Zenon
  <2>5. running' \in [Procs -> Steps]
    BY <2>1, <2>c, <1>r, NoneType, StepType, EntryType DEF TypeOK
  <2>6. Busy'
    BY <1>3, <2>1 DEF ReconcileRead, Busy, TypeOK
  <2> QED BY <1>3, <2>4, <2>5, <2>6 DEF ReconcileRead, TypeOK
<1> QED BY <1>1, <1>2, <1>3

LEMMA OthersKeepType ==
    ASSUME TInv, NEW p \in Procs,
           \/ Initialize(p) \/ Stop(p) \/ (\E op \in Ops : Submit(p, op))
           \/ Load(p) \/ WriteIndex(p) \/ (\E t \in Tasks : RemoveDirectory(p, t))
    PROVE  TInv'
<1> USE DEF TInv
<1>n. [t \in Tasks |-> None] \in [Tasks -> Items] /\ [t \in Tasks |-> NoLoad] \in [Tasks -> Items \cup {NoLoad}]
  BY NoneType
<1>1. CASE Initialize(p)
  <2>0. <<Reconcile>> \in Seq(Ops)
    BY ReconcileType
  <2>1. queue' \in [Procs -> Seq(Ops)]
    BY <1>1, <2>0, EntryType DEF Initialize, TypeOK
  <2>2. cache' \in [Procs -> [Tasks -> Items]]
    BY <1>1, EntryType DEF Initialize, TypeOK
  <2>3. Busy'
    BY <1>1 DEF Initialize, Busy, TypeOK
  <2> QED BY <1>1, <2>1, <2>2, <2>3 DEF Initialize, TypeOK
<1>2. CASE Stop(p)
  <2>1. queue' \in [Procs -> Seq(Ops)]
    BY <1>2, EntryType DEF Stop, TypeOK
  <2>2. running' \in [Procs -> Steps]
    BY <1>2, IdleType, EntryType DEF Stop, TypeOK
  <2>3. cache' \in [Procs -> [Tasks -> Items]] /\ loads' \in [Procs -> [Tasks -> Items \cup {NoLoad}]]
    BY <1>2, <1>n, EntryType DEF Stop, TypeOK
  <2>4. files' \in [Tasks -> Items]
    BY <1>2, NoneType DEF Stop, TypeOK
  <2>5. index' \in [Tasks -> Items]
    BY <1>2, <1>n DEF Stop, TypeOK
  <2>6. Busy'
    BY <1>2 DEF Stop, Busy, TypeOK, Idle, Step
  <2>7. up' \subseteq Procs /\ dirty' \subseteq Procs /\ missed' \subseteq Procs /\ dirs' \subseteq Tasks
    BY <1>2 DEF Stop, TypeOK
  <2> QED BY <2>1, <2>2, <2>3, <2>4, <2>5, <2>6, <2>7 DEF TypeOK
<1>3. ASSUME NEW op \in Ops, Submit(p, op) PROVE TInv'
  <2>0. Append(queue[p], op) \in Seq(Ops)
    BY AppendProperties DEF TypeOK
  <2>1. queue' \in [Procs -> Seq(Ops)]
    BY <1>3, <2>0, EntryType DEF Submit, TypeOK
  <2>2. Append(queue[p], op) # <<>>
    BY AppendProperties DEF TypeOK
  <2>3. Busy'
    BY <1>3, <2>2 DEF Submit, Busy, TypeOK
  <2> QED BY <1>3, <2>1, <2>3 DEF Submit, TypeOK
<1>4. ASSUME NEW t \in Tasks, LoadRead(p, t) PROVE TInv'
  <2>1. PICK item \in Reads(t) :
           loads' = [loads EXCEPT ![p] = [u \in Tasks |-> IF u = t THEN item ELSE loads[p][u]]]
    BY <1>4 DEF LoadRead
  <2>2. [u \in Tasks |-> IF u = t THEN item ELSE loads[p][u]] \in [Tasks -> Items \cup {NoLoad}]
    BY ReadsType DEF TypeOK
  <2>3. loads' \in [Procs -> [Tasks -> Items \cup {NoLoad}]]
    BY <2>1, <2>2, EntryType DEF TypeOK
  <2> QED BY <1>4, <2>3 DEF LoadRead, TypeOK, Busy
<1>5. ASSUME NEW t \in Tasks, LoadDone(p, t) PROVE TInv'
  <2>0. loads[p][t] \in Items
    BY <1>5 DEF LoadDone, TypeOK
  <2>1. [u \in Tasks |-> IF u = t THEN loads[p][t] ELSE cache[p][u]] \in [Tasks -> Items]
    BY <2>0 DEF TypeOK
  <2>2. cache' \in [Procs -> [Tasks -> Items]]
    BY <1>5, <2>1, EntryType DEF LoadDone, TypeOK
  <2>3. [u \in Tasks |-> IF u = t THEN NoLoad ELSE loads[p][u]] \in [Tasks -> Items \cup {NoLoad}]
    BY DEF TypeOK
  <2>4. loads' \in [Procs -> [Tasks -> Items \cup {NoLoad}]]
    BY <1>5, <2>3, EntryType DEF LoadDone, TypeOK
  <2> QED BY <1>5, <2>2, <2>4 DEF LoadDone, TypeOK, Busy
<1>6. CASE WriteIndex(p)
  BY <1>6 DEF WriteIndex, TypeOK, Busy
<1>7. ASSUME NEW t \in Tasks, RemoveDirectory(p, t) PROVE TInv'
  BY <1>7, NoneType DEF RemoveDirectory, TypeOK, Busy
<1> QED BY <1>1, <1>2, <1>3, <1>4, <1>5, <1>6, <1>7 DEF Load

LEMMA TypeStep == TInv /\ [Next]_vars => TInv'
<1> SUFFICES ASSUME TInv, [Next]_vars PROVE TInv'
  OBVIOUS
<1>1. CASE UNCHANGED vars
  BY <1>1 DEF vars, TInv, TypeOK, Busy
<1>2. CASE Next
  <2>1. PICK p \in Procs : \/ Initialize(p) \/ Stop(p)
                           \/ \E op \in Ops : Submit(p, op)
                           \/ Lock(p) \/ Load(p) \/ WriteIndex(p)
                           \/ \E t \in Tasks : RemoveDirectory(p, t)
    BY <1>2 DEF Next
  <2>2. CASE Lock(p)
    BY <2>2, UpsertKeepsType, DeleteKeepsType, ReconcileKeepsType DEF Lock
  <2>3. CASE ~Lock(p)
    BY <2>1, <2>3, OthersKeepType
  <2> QED BY <2>2, <2>3
<1> QED BY <1>1, <1>2

(* Every reachable state of the history has the types of its definition. *)
THEOREM TypeCorrect == Spec => []TypeOK
<1>1. TInv => TypeOK
  BY DEF TInv
<1> QED BY <1>1, TypeInit, TypeStep, PTL DEF Spec

-----------------------------------------------------------------------------
(* One process, no crash, no overlapping getOrLoad. *)
Calm == /\ \A p, q \in Procs : p = q
        /\ "crash" \notin Faults
        /\ ~RacingLoads

(* Where the file is ahead of the cache, or the cache of the file. *)
Apart(p) == IF running[p].pc = "written" THEN running[p].todo
            ELSE IF running[p].pc = "unlinking" THEN running[p].gone ELSE {}

HasDirectory == \A t \in Tasks : files[t] # None => t \in dirs
Down(p) == p \notin up => /\ index = files
                          /\ queue[p] = <<>>
                          /\ p \notin dirty
                          /\ \A t \in Tasks : loads[p][t] = NoLoad
Agree(p) == p \in up => \A t \in Tasks : t \notin Apart(p) => cache[p][t] = files[t]
(* The holder of the lock works on the tasks of its operation, and from what the file holds. *)
Holder(p) ==
    /\ running[p].pc \in {"writing", "written", "deleting", "unlinking"} =>
          running[p].todo \cup running[p].gone \subseteq Head(queue[p]).tasks
    /\ running[p].pc = "writing" =>
          \A t \in running[p].todo : running[p].item = Merge(files[t], Head(queue[p]).item)
    /\ running[p].pc = "written" => \A t \in running[p].todo : running[p].item = files[t]
    /\ running[p].pc = "unlinking" => \A t \in running[p].gone : cache[p][t] = None
    /\ running[p].pc \notin {"unlinking"} => running[p].gone = {}
Loading(p) == \A t \in Tasks : loads[p][t] # NoLoad => loads[p][t] = files[t] /\ Settled(p, t)

PInv(p) == Down(p) /\ Agree(p) /\ Holder(p) /\ Loading(p)
HInv == TInv /\ HasDirectory /\ \A p \in Procs : PInv(p)

LEMMA OnlyProcess ==
    ASSUME Calm, TInv', HasDirectory', NEW p \in Procs, PInv(p)' PROVE HInv'
BY DEF Calm, HInv

LEMMA SettledHead ==
    ASSUME TypeOK, NEW p \in Procs, NEW t \in Tasks, Settled(p, t), queue[p] # <<>>
    PROVE  t \notin Head(queue[p]).tasks
<1>1. queue[p] \in Seq(Ops)
  BY DEF TypeOK
<1>2. Len(queue[p]) >= 1 /\ Head(queue[p]) = queue[p][1]
  BY <1>1, EmptySeq, LenProperties
<1> QED BY <1>1, <1>2, LenProperties DEF Settled

LEMMA SettledTail ==
    ASSUME TypeOK, NEW p \in Procs, NEW t \in Tasks, Settled(p, t), queue[p] # <<>>,
           queue'[p] = Tail(queue[p])
    PROVE  Settled(p, t)'
<1>1. queue[p] \in Seq(Ops)
  BY DEF TypeOK
<1>2. /\ Len(queue'[p]) = Len(queue[p]) - 1
      /\ \A i \in 1..Len(queue'[p]) : queue'[p][i] = queue[p][i+1]
  BY <1>1, HeadTailProperties
<1>3. Len(queue[p]) \in Nat
  BY <1>1, LenProperties
<1> QED BY <1>2, <1>3 DEF Settled

LEMMA SettledAppend ==
    ASSUME TypeOK, NEW p \in Procs, NEW t \in Tasks, NEW op \in Ops, Settled(p, t),
           queue'[p] = Append(queue[p], op), t \notin op.tasks
    PROVE  Settled(p, t)'
<1>1. queue[p] \in Seq(Ops)
  BY DEF TypeOK
<1>2. /\ Len(queue'[p]) = Len(queue[p]) + 1
      /\ \A i \in 1..Len(queue[p]) : queue'[p][i] = queue[p][i]
      /\ queue'[p][Len(queue[p]) + 1] = op
  BY <1>1, AppendProperties
<1>3. Len(queue[p]) \in Nat
  BY <1>1, LenProperties
<1> QED BY <1>2, <1>3 DEF Settled

(* What leaving the lock does to the process. *)
LEMMA LeaveEffect ==
    ASSUME TypeOK, NEW p \in Procs, queue[p] # <<>>, Leave(p), Loading(p), UNCHANGED <<files, loads>>
    PROVE  /\ queue'[p] = Tail(queue[p]) /\ running'[p] = Idle
           /\ Loading(p)'
           /\ Apart(p)' = {} /\ Holder(p)'
<1>1. queue'[p] = Tail(queue[p]) /\ running'[p] = Idle
  BY DEF Leave, TypeOK
<1>2. \A t \in Tasks : Settled(p, t) => Settled(p, t)'
  BY <1>1, SettledTail
<1>3. Loading(p)'
  BY <1>2 DEF Loading
<1>4. Apart(p)' = {} /\ Holder(p)'
  BY <1>1 DEF Apart, Holder, Idle, Step
<1> QED BY <1>1, <1>3, <1>4

LEMMA HistoryInit == Init => HInv
<1> SUFFICES ASSUME Init PROVE HInv
  OBVIOUS
<1>1. TInv
  BY TypeInit
<1>2. HasDirectory
  BY DEF Init, HasDirectory
<1>3. ASSUME NEW p \in Procs PROVE PInv(p)
  BY DEF Init, PInv, Down, Agree, Holder, Loading, Idle, Step
<1> QED BY <1>1, <1>2, <1>3 DEF HInv

(* The steps of an upsert. *)
LEMMA UpsertKeeps ==
    ASSUME Calm, HInv, NEW p \in Procs,
           UpsertBegin(p) \/ UpsertWrite(p) \/ UpsertFails(p) \/ UpsertDone(p)
    PROVE  HInv'
<1>i. TInv /\ TypeOK /\ HasDirectory /\ Down(p) /\ Agree(p) /\ Holder(p) /\ Loading(p)
  BY DEF HInv, PInv, TInv
<1>t. TInv'
  BY <1>i, UpsertKeepsType
<1>q. queue[p] # <<>>
  BY <1>i DEF UpsertBegin, UpsertWrite, UpsertFails, UpsertDone, TInv, Busy
<1>u. p \in up
  BY <1>i, <1>q DEF Down
<1>r. running[p].todo \in SUBSET Tasks /\ running[p].gone \in SUBSET Tasks
  BY <1>i, RunningType
<1>1. CASE UpsertBegin(p)
  <2>1. PICK t \in Head(queue[p]).tasks :
           running' = [running EXCEPT ![p] =
                         Step("writing", {t}, {}, Merge(cache[p][t], Head(queue[p]).item), FALSE)]
    BY <1>1 DEF UpsertBegin
  <2>2. running'[p] = Step("writing", {t}, {}, Merge(cache[p][t], Head(queue[p]).item), FALSE)
    BY <1>i, <2>1 DEF TypeOK
  <2>3. t \in Tasks /\ cache[p][t] = files[t]
    <3>1. t \in Tasks
      BY <1>i, <1>q, HeadType, OpType
    <3>2. Apart(p) = {}
      BY <1>1 DEF UpsertBegin, Apart, Idle, Step
    <3> QED BY <1>i, <1>u, <3>1, <3>2 DEF Agree
  <2>4. UNCHANGED <<files, dirs, index, up, cache, queue, loads, dirty, missed>>
    BY <1>1 DEF UpsertBegin
  <2>5. Holder(p)'
    BY <2>2, <2>3, <2>4 DEF Holder, Step
  <2>6. Agree(p)'
    BY <1>1, <1>i, <2>2, <2>4 DEF Agree, Apart, UpsertBegin, Idle, Step
  <2>7. Down(p)' /\ Loading(p)' /\ HasDirectory'
    BY <1>i, <2>4 DEF Down, Loading, HasDirectory, Settled
  <2> QED BY <1>t, <2>5, <2>6, <2>7, OnlyProcess DEF PInv
<1>2. CASE UpsertWrite(p)
  <2>1. running'[p] = Step("written", running[p].todo, {}, running[p].item, FALSE)
    BY <1>2, <1>i DEF UpsertWrite, TypeOK
  <2>2. UNCHANGED <<index, up, cache, queue, loads, dirty, missed>>
    BY <1>2 DEF UpsertWrite
  <2>3. running[p].todo \subseteq Head(queue[p]).tasks
    BY <1>2, <1>i DEF UpsertWrite, Holder
  <2>4. \A t \in Tasks : files'[t] = IF t \in running[p].todo THEN running[p].item ELSE files[t]
    BY <1>2 DEF UpsertWrite
  <2>5. Holder(p)'
    BY <1>r, <2>1, <2>2, <2>3, <2>4 DEF Holder, Step
  <2>6. Agree(p)'
    BY <1>2, <1>i, <2>1, <2>2, <2>4 DEF Agree, Apart, UpsertWrite, Step
  <2>7. HasDirectory'
    BY <1>2, <1>i, <2>4 DEF HasDirectory, UpsertWrite
  <2>8. Loading(p)'
    <3> SUFFICES ASSUME NEW t \in Tasks, loads'[p][t] # NoLoad
                 PROVE  loads'[p][t] = files'[t] /\ Settled(p, t)'
      BY DEF Loading
    <3>1. loads[p][t] = files[t] /\ Settled(p, t)
      BY <1>i, <2>2 DEF Loading
    <3>2. t \notin running[p].todo
      BY <1>i, <1>q, <2>3, <3>1, SettledHead
    <3> QED BY <2>2, <2>4, <3>1, <3>2 DEF Settled
  <2>9. Down(p)'
    BY <1>u, <2>2 DEF Down
  <2> QED BY <1>t, <2>5, <2>6, <2>7, <2>8, <2>9, OnlyProcess DEF PInv
<1>3. CASE UpsertFails(p)
  <2>1. UNCHANGED <<files, dirs, index, up, cache, loads, dirty, missed>> /\ Leave(p)
    BY <1>3 DEF UpsertFails
  <2>2. Loading(p)' /\ Apart(p)' = {} /\ Holder(p)'
    BY <1>i, <1>q, <2>1, LeaveEffect
  <2>3. Agree(p)'
    BY <1>3, <1>i, <2>1, <2>2 DEF Agree, Apart, UpsertFails
  <2>4. Down(p)' /\ HasDirectory'
    BY <1>i, <1>u, <2>1 DEF Down, HasDirectory
  <2> QED BY <1>t, <2>2, <2>3, <2>4, OnlyProcess DEF PInv
<1>4. CASE UpsertDone(p)
  <2>1. UNCHANGED <<files, dirs, index, up, loads>> /\ Leave(p)
    BY <1>4 DEF UpsertDone
  <2>2. Loading(p)' /\ Apart(p)' = {} /\ Holder(p)'
    BY <1>i, <1>q, <2>1, LeaveEffect
  <2>3. \A t \in Tasks : cache'[p][t] = IF t \in running[p].todo THEN running[p].item ELSE cache[p][t]
    BY <1>4, <1>i DEF UpsertDone, TypeOK
  <2>4. \A t \in running[p].todo : running[p].item = files[t]
    BY <1>4, <1>i DEF UpsertDone, Holder
  <2>5. Agree(p)'
    BY <1>4, <1>i, <1>u, <2>1, <2>2, <2>3, <2>4 DEF Agree, Apart, UpsertDone
  <2>6. Down(p)' /\ HasDirectory'
    BY <1>i, <1>u, <2>1 DEF Down, HasDirectory
  <2> QED BY <1>t, <2>2, <2>5, <2>6, OnlyProcess DEF PInv
<1> QED BY <1>1, <1>2, <1>3, <1>4

(* The steps of a deletion. *)
LEMMA DeleteKeeps ==
    ASSUME Calm, HInv, NEW p \in Procs,
           \/ DeleteBegin(p) \/ DeleteFile(p) \/ DeleteDone(p)
           \/ \E t \in Tasks : DeleteEntry(p, t)
    PROVE  HInv'
<1>i. TInv /\ TypeOK /\ HasDirectory /\ Down(p) /\ Agree(p) /\ Holder(p) /\ Loading(p)
  BY DEF HInv, PInv, TInv
<1>t. TInv'
  BY <1>i, DeleteKeepsType
<1>q. queue[p] # <<>>
  BY <1>i DEF DeleteBegin, DeleteFile, DeleteDone, DeleteEntry, TInv, Busy
<1>u. p \in up
  BY <1>i, <1>q DEF Down
<1>r. running[p].todo \in SUBSET Tasks /\ running[p].gone \in SUBSET Tasks
  BY <1>i, RunningType
<1>1. CASE DeleteBegin(p)
  <2>1. running'[p] = Step("deleting", Head(queue[p]).tasks, {}, None, FALSE)
    BY <1>1, <1>i DEF DeleteBegin, TypeOK
  <2>2. UNCHANGED <<files, dirs, index, up, cache, queue, loads, dirty, missed>>
    BY <1>1 DEF DeleteBegin
  <2>3. Holder(p)'
    BY <2>1, <2>2 DEF Holder, Step
  <2>4. Agree(p)'
    BY <1>1, <1>i, <2>1, <2>2 DEF Agree, Apart, DeleteBegin, Idle, Step
  <2>5. Down(p)' /\ Loading(p)' /\ HasDirectory'
    BY <1>i, <2>2 DEF Down, Loading, HasDirectory, Settled
  <2> QED BY <1>t, <2>3, <2>4, <2>5, OnlyProcess DEF PInv
<1>2. CASE DeleteFile(p)
  <2>1. running'[p] = Step("deleting", running[p].todo, {}, None, FALSE)
    BY <1>2, <1>i DEF DeleteFile, TypeOK
  <2>2. UNCHANGED <<dirs, index, up, cache, queue, loads, dirty, missed>>
    BY <1>2 DEF DeleteFile
  <2>3. /\ running[p].todo \cup running[p].gone \subseteq Head(queue[p]).tasks
        /\ \A t \in running[p].gone : cache[p][t] = None
    BY <1>2, <1>i DEF DeleteFile, Holder
  <2>4. \A t \in Tasks : files'[t] = IF t \in running[p].gone THEN None ELSE files[t]
    BY <1>2 DEF DeleteFile
  <2>5. Holder(p)'
    BY <2>1, <2>2, <2>3 DEF Holder, Step
  <2>6. Agree(p)'
    BY <1>2, <1>i, <2>1, <2>2, <2>3, <2>4 DEF Agree, Apart, DeleteFile, Step
  <2>7. HasDirectory'
    BY <1>i, <2>2, <2>4 DEF HasDirectory
  <2>8. Loading(p)'
    <3> SUFFICES ASSUME NEW t \in Tasks, loads'[p][t] # NoLoad
                 PROVE  loads'[p][t] = files'[t] /\ Settled(p, t)'
      BY DEF Loading
    <3>1. loads[p][t] = files[t] /\ Settled(p, t)
      BY <1>i, <2>2 DEF Loading
    <3>2. t \notin running[p].gone
      BY <1>i, <1>q, <2>3, <3>1, SettledHead
    <3> QED BY <2>2, <2>4, <3>1, <3>2 DEF Settled
  <2>9. Down(p)'
    BY <1>u, <2>2 DEF Down
  <2> QED BY <1>t, <2>5, <2>6, <2>7, <2>8, <2>9, OnlyProcess DEF PInv
<1>3. CASE DeleteDone(p)
  <2>1. UNCHANGED <<files, dirs, index, up, cache, loads>> /\ Leave(p)
    BY <1>3 DEF DeleteDone
  <2>2. Loading(p)' /\ Apart(p)' = {} /\ Holder(p)'
    BY <1>i, <1>q, <2>1, LeaveEffect
  <2>3. Agree(p)'
    BY <1>3, <1>i, <2>1, <2>2 DEF Agree, Apart, DeleteDone
  <2>4. Down(p)' /\ HasDirectory'
    BY <1>i, <1>u, <2>1 DEF Down, HasDirectory
  <2> QED BY <1>t, <2>2, <2>3, <2>4, OnlyProcess DEF PInv
<1>4. ASSUME NEW t \in Tasks, DeleteEntry(p, t) PROVE HInv'
  <2>1. running'[p] = Step("unlinking", running[p].todo \ {t}, {t}, None, FALSE)
    BY <1>4, <1>i DEF DeleteEntry, TypeOK
  <2>2. UNCHANGED <<files, dirs, index, up, queue, loads, dirty, missed>>
    BY <1>4 DEF DeleteEntry
  <2>3. \A u \in Tasks : cache'[p][u] = IF u = t THEN None ELSE cache[p][u]
    BY <1>4, <1>i DEF DeleteEntry, TypeOK
  <2>4. running[p].todo \subseteq Head(queue[p]).tasks /\ t \in running[p].todo
    BY <1>4, <1>i DEF DeleteEntry, Holder
  <2>5. Holder(p)'
    BY <2>1, <2>2, <2>3, <2>4 DEF Holder, Step
  <2>6. Agree(p)'
    BY <1>4, <1>i, <2>1, <2>2, <2>3 DEF Agree, Apart, DeleteEntry, Step
  <2>7. Down(p)' /\ Loading(p)' /\ HasDirectory'
    BY <1>i, <1>u, <2>2 DEF Down, Loading, HasDirectory, Settled
  <2> QED BY <1>t, <2>5, <2>6, <2>7, OnlyProcess DEF PInv
<1> QED BY <1>1, <1>2, <1>3, <1>4

(* The steps of reconcile: with a cache that agrees there is nothing to drop. *)
LEMMA ReconcileKeeps ==
    ASSUME Calm, HInv, NEW p \in Procs,
           ReconcileList(p) \/ ReconcileDone(p) \/ \E t \in Tasks : ReconcileRead(p, t)
    PROVE  HInv'
<1>i. TInv /\ TypeOK /\ HasDirectory /\ Down(p) /\ Agree(p) /\ Holder(p) /\ Loading(p)
  BY DEF HInv, PInv, TInv
<1>t. TInv'
  BY <1>i, ReconcileKeepsType
<1>q. queue[p] # <<>>
  BY <1>i DEF ReconcileList, ReconcileDone, ReconcileRead, TInv, Busy
<1>u. p \in up
  BY <1>i, <1>q DEF Down
<1>1. CASE ReconcileList(p)
  <2>1. running'[p] = Step("adding", dirs \ Cached(p), Cached(p) \ dirs, None, FALSE)
    BY <1>1, <1>i DEF ReconcileList, TypeOK
  <2>2. UNCHANGED <<files, dirs, index, up, cache, queue, loads, dirty, missed>>
    BY <1>1 DEF ReconcileList
  <2>3. \A t \in Tasks : cache[p][t] = files[t]
    BY <1>1, <1>i, <1>u DEF Agree, Apart, ReconcileList, Idle, Step
  <2>4. Cached(p) \ dirs = {}
    BY <1>i, <2>3 DEF Cached, HasDirectory
  <2>5. Holder(p)'
    BY <2>1, <2>4 DEF Holder, Step
  <2>6. Agree(p)'
    BY <2>2, <2>3 DEF Agree
  <2>7. Down(p)' /\ Loading(p)' /\ HasDirectory'
    BY <1>i, <2>2 DEF Down, Loading, HasDirectory, Settled
  <2> QED BY <1>t, <2>5, <2>6, <2>7, OnlyProcess DEF PInv
<1>2. CASE ReconcileDone(p)
  <2>1. UNCHANGED <<files, dirs, index, up, loads>> /\ Leave(p)
    BY <1>2 DEF ReconcileDone
  <2>2. Loading(p)' /\ Apart(p)' = {} /\ Holder(p)'
    BY <1>i, <1>q, <2>1, LeaveEffect
  <2>3. running[p].gone = {}
    BY <1>2, <1>i DEF ReconcileDone, Holder
  <2>4. \A t \in Tasks : cache'[p][t] = cache[p][t]
    BY <1>2, <1>i, <2>3 DEF ReconcileDone, TypeOK
  <2>5. Agree(p)'
    BY <1>2, <1>i, <2>1, <2>2, <2>4 DEF Agree, Apart, ReconcileDone
  <2>6. Down(p)' /\ HasDirectory'
    BY <1>i, <1>u, <2>1 DEF Down, HasDirectory
  <2> QED BY <1>t, <2>2, <2>5, <2>6, OnlyProcess DEF PInv
<1>3. ASSUME NEW t \in Tasks, ReconcileRead(p, t) PROVE HInv'
  <2>1. PICK item \in Reads(t) :
          /\ cache' = [cache EXCEPT ![p] = [u \in Tasks |-> IF u = t /\ item # None
                                                            THEN item ELSE cache[p][u]]]
          /\ running' = [running EXCEPT ![p] = Step("adding", running[p].todo \ {t}, running[p].gone, None,
                                                    running[p].changed \/ item # None)]
    BY <1>3 DEF ReconcileRead
  <2>2. UNCHANGED <<files, dirs, index, up, queue, loads, dirty, missed>>
    BY <1>3 DEF ReconcileRead
  <2>3. running[p].pc = "adding" /\ running[p].gone = {}
    BY <1>3, <1>i DEF ReconcileRead, Holder
  <2>4. running'[p].pc = "adding" /\ running'[p].gone = {}
    BY <1>i, <2>1, <2>3 DEF TypeOK, Step
  <2>5. item = files[t] \/ item = None
    BY DEF Reads
  <2>6. \A u \in Tasks : cache[p][u] = files[u]
    BY <1>i, <1>u, <2>3 DEF Agree, Apart
  <2>7. \A u \in Tasks : cache'[p][u] = files[u]
    BY <1>i, <2>1, <2>5, <2>6 DEF TypeOK
  <2>8. Holder(p)'
    BY <2>4 DEF Holder
  <2>9. Agree(p)'
    BY <2>2, <2>7 DEF Agree
  <2>10. Down(p)' /\ Loading(p)' /\ HasDirectory'
    BY <1>i, <1>u, <2>2 DEF Down, Loading, HasDirectory, Settled
  <2> QED BY <1>t, <2>8, <2>9, <2>10, OnlyProcess DEF PInv
<1> QED BY <1>1, <1>2, <1>3

(* Where cache and file differ, the operation at the head works. *)
LEMMA ApartAtHead ==
    ASSUME TypeOK, Busy, NEW p \in Procs, NEW t \in Tasks, Holder(p), Settled(p, t)
    PROVE  t \notin Apart(p)
<1> SUFFICES ASSUME t \in Apart(p) PROVE FALSE
  OBVIOUS
<1>1. running[p].pc \in {"written", "unlinking"} /\ t \in running[p].todo \cup running[p].gone
  BY DEF Apart
<1>2. queue[p] # <<>> /\ t \in Head(queue[p]).tasks
  BY <1>1 DEF Busy, Holder
<1> QED BY <1>2, SettledHead

(* Starting, submitting, loading, the index and the directory. *)
LEMMA OthersKeep ==
    ASSUME Calm, HInv, NEW p \in Procs,
           \/ Initialize(p) \/ Stop(p) \/ (\E op \in Ops : Submit(p, op))
           \/ Load(p) \/ WriteIndex(p) \/ (\E t \in Tasks : RemoveDirectory(p, t))
    PROVE  HInv'
<1>i. TInv /\ TypeOK /\ Busy /\ HasDirectory /\ Down(p) /\ Agree(p) /\ Holder(p) /\ Loading(p)
  BY DEF HInv, PInv, TInv
<1>t. TInv'
  BY <1>i, OthersKeepType
<1>1. CASE Initialize(p)
  <2>1. UNCHANGED <<files, dirs, index, running, loads, dirty, missed>> /\ p \notin up
    BY <1>1 DEF Initialize
  <2>2. index = files /\ queue[p] = <<>> /\ \A t \in Tasks : loads[p][t] = NoLoad
    BY <1>i, <2>1 DEF Down
  <2>3. running[p].pc = "idle"
    BY <1>i, <2>2 DEF Busy
  <2>4. cache'[p] = index /\ p \in up'
    BY <1>1, <1>i DEF Initialize, TypeOK
  <2>5. Down(p)' /\ Agree(p)' /\ HasDirectory'
    BY <1>i, <2>1, <2>2, <2>4 DEF Down, Agree, HasDirectory
  <2>6. Holder(p)' /\ Loading(p)'
    BY <1>i, <2>1, <2>2, <2>3 DEF Holder, Loading
  <2> QED BY <1>t, <2>5, <2>6, OnlyProcess DEF PInv
<1>2. CASE Stop(p)
  BY <1>2 DEF Stop, Calm
<1>3. ASSUME NEW op \in Ops, Submit(p, op) PROVE HInv'
  <2>1. UNCHANGED <<files, dirs, index, up, cache, running, loads, dirty, missed>> /\ p \in up
    BY <1>3 DEF Submit
  <2>2. queue'[p] = Append(queue[p], op)
    BY <1>3, <1>i DEF Submit, TypeOK
  <2>3. \A t \in op.tasks : loads[p][t] = NoLoad
    BY <1>3 DEF Submit, Calm
  <2>4. queue[p] # <<>> => Head(queue'[p]) = Head(queue[p])
    <3>1. queue[p] \in Seq(Ops)
      BY <1>i DEF TypeOK
    <3> QED BY <2>2, <3>1, AppendProperties, EmptySeq, LenProperties
  <2>5. Holder(p)'
    <3>1. CASE queue[p] = <<>>
      <4>1. running[p].pc = "idle"
        BY <1>i, <3>1 DEF Busy
      <4> QED BY <1>i, <2>1, <4>1 DEF Holder
    <3>2. CASE queue[p] # <<>>
      BY <1>i, <2>1, <2>4, <3>2, RunningType DEF Holder
    <3> QED BY <3>1, <3>2
  <2>6. Loading(p)'
    <3> SUFFICES ASSUME NEW t \in Tasks, loads'[p][t] # NoLoad
                 PROVE  loads'[p][t] = files'[t] /\ Settled(p, t)'
      BY DEF Loading
    <3>1. loads[p][t] = files[t] /\ Settled(p, t) /\ t \notin op.tasks
      BY <1>i, <2>1, <2>3 DEF Loading
    <3>2. Settled(p, t)'
      BY <1>i, <2>2, <3>1, SettledAppend
    <3> QED BY <2>1, <3>1, <3>2
  <2>7. Down(p)' /\ Agree(p)' /\ HasDirectory'
    BY <1>i, <2>1 DEF Down, Agree, HasDirectory, Apart
  <2> QED BY <1>t, <2>5, <2>6, <2>7, OnlyProcess DEF PInv
<1>4. ASSUME NEW t \in Tasks, LoadRead(p, t) PROVE HInv'
  <2>1. PICK item \in Reads(t) :
           loads' = [loads EXCEPT ![p] = [u \in Tasks |-> IF u = t THEN item ELSE loads[p][u]]]
    BY <1>4 DEF LoadRead
  <2>2. /\ UNCHANGED <<files, dirs, index, up, cache, queue, running, dirty, missed>>
        /\ p \in up /\ Settled(p, t)
    BY <1>4 DEF LoadRead, Calm
  <2>3. item = files[t]
    <3>1. ASSUME NEW q \in Procs, running[q].pc = "writing", t \in running[q].todo PROVE FALSE
      <4>1. q = p
        BY DEF Calm
      <4>2. queue[p] # <<>> /\ t \in Head(queue[p]).tasks
        BY <1>i, <3>1, <4>1 DEF Busy, Holder
      <4> QED BY <1>i, <2>2, <4>2, SettledHead
    <3> QED BY <3>1 DEF Reads
  <2>4. \A u \in Tasks : loads'[p][u] = IF u = t THEN files[t] ELSE loads[p][u]
    BY <1>i, <2>1, <2>3 DEF TypeOK
  <2>5. Loading(p)'
    BY <1>i, <2>2, <2>4 DEF Loading, Settled
  <2>6. Down(p)' /\ Agree(p)' /\ Holder(p)' /\ HasDirectory'
    BY <1>i, <2>2 DEF Down, Agree, Holder, HasDirectory, Apart
  <2> QED BY <1>t, <2>5, <2>6, OnlyProcess DEF PInv
<1>5. ASSUME NEW t \in Tasks, LoadDone(p, t) PROVE HInv'
  <2>1. UNCHANGED <<files, dirs, index, up, queue, running, dirty, missed>> /\ loads[p][t] # NoLoad
    BY <1>5 DEF LoadDone
  <2>2. loads[p][t] = files[t] /\ Settled(p, t)
    BY <1>i, <2>1 DEF Loading
  <2>3. p \in up
    BY <1>i, <2>1 DEF Down
  <2>4. \A u \in Tasks : cache'[p][u] = IF u = t THEN files[t] ELSE cache[p][u]
    BY <1>5, <1>i, <2>2 DEF LoadDone, TypeOK
  <2>5. \A u \in Tasks : loads'[p][u] = IF u = t THEN NoLoad ELSE loads[p][u]
    BY <1>5, <1>i DEF LoadDone, TypeOK
  <2>6. Agree(p)'
    BY <1>i, <2>1, <2>3, <2>4 DEF Agree, Apart
  <2>7. Holder(p)'
    <3>1. running[p].pc = "unlinking" => t \notin running[p].gone
      BY <1>i, <2>2, ApartAtHead DEF Apart
    <3>2. running[p].gone \in SUBSET Tasks
      BY <1>i, RunningType
    <3> QED BY <1>i, <2>1, <2>4, <3>1, <3>2 DEF Holder
  <2>8. Down(p)' /\ Loading(p)' /\ HasDirectory'
    BY <1>i, <2>1, <2>3, <2>5 DEF Down, Loading, HasDirectory, Settled
  <2> QED BY <1>t, <2>6, <2>7, <2>8, OnlyProcess DEF PInv
<1>6. CASE WriteIndex(p)
  <2>1. UNCHANGED <<files, dirs, up, cache, queue, running, loads>> /\ p \in up
    BY <1>6, <1>i DEF WriteIndex, Down
  <2>2. Down(p)' /\ Agree(p)' /\ Holder(p)' /\ HasDirectory' /\ Loading(p)'
    BY <1>i, <2>1 DEF Down, Agree, Holder, HasDirectory, Loading, Apart, Settled
  <2> QED BY <1>t, <2>2, OnlyProcess DEF PInv
<1>7. ASSUME NEW t \in Tasks, RemoveDirectory(p, t) PROVE HInv'
  <2>1. /\ UNCHANGED <<index, up, cache, queue, running, loads, dirty, missed>>
        /\ p \in up /\ files[t] = None /\ dirs' = dirs \ {t}
    BY <1>7 DEF RemoveDirectory
  <2>2. files' = files
    BY <1>7, <1>i DEF RemoveDirectory, TypeOK
  <2>3. HasDirectory'
    BY <1>i, <2>1, <2>2 DEF HasDirectory
  <2>4. Down(p)' /\ Agree(p)' /\ Holder(p)' /\ Loading(p)'
    BY <1>i, <2>1, <2>2 DEF Down, Agree, Holder, Loading, Apart, Settled
  <2> QED BY <1>t, <2>3, <2>4, OnlyProcess DEF PInv
<1> QED BY <1>1, <1>2, <1>3, <1>4, <1>5, <1>6, <1>7 DEF Load

LEMMA HistoryStep == ASSUME Calm PROVE HInv /\ [Next]_vars => HInv'
<1> SUFFICES ASSUME HInv, [Next]_vars PROVE HInv'
  OBVIOUS
<1>1. CASE UNCHANGED vars
  <2>1. TInv' /\ HasDirectory'
    BY <1>1, TypeStep DEF HInv, vars, HasDirectory
  <2>2. ASSUME NEW p \in Procs PROVE PInv(p)'
    BY <1>1 DEF HInv, vars, PInv, Down, Agree, Holder, Loading, Apart, Settled
  <2> QED BY <2>1, <2>2 DEF HInv
<1>2. CASE Next
  <2>1. PICK p \in Procs : \/ Initialize(p) \/ Stop(p)
                           \/ \E op \in Ops : Submit(p, op)
                           \/ Lock(p) \/ Load(p) \/ WriteIndex(p)
                           \/ \E t \in Tasks : RemoveDirectory(p, t)
    BY <1>2 DEF Next
  <2>2. CASE Lock(p)
    BY <2>2, UpsertKeeps, DeleteKeeps, ReconcileKeeps DEF Lock
  <2>3. CASE ~Lock(p)
    BY <2>1, <2>3, OthersKeep
  <2> QED BY <2>2, <2>3
<1> QED BY <1>1, <1>2

(* In a process of its own that runs on and loads no task it is changing, what the task list shows
   between operations is what the files hold. *)
THEOREM CacheFollowsFiles == ASSUME Calm PROVE Spec => []CacheAgrees
<1>1. HInv => CacheAgrees
  <2> SUFFICES ASSUME HInv, NEW p \in up, NEW t \in Tasks,
                      t \notin running[p].todo \cup running[p].gone
               PROVE  cache[p][t] = files[t]
    BY DEF CacheAgrees
  <2>1. p \in Procs
    BY DEF HInv, TInv, TypeOK
  <2>2. Agree(p) /\ t \notin Apart(p)
    BY <2>1 DEF HInv, PInv, Apart
  <2> QED BY <2>2 DEF Agree
<1>2. HInv /\ [Next]_vars => HInv'
  BY HistoryStep
<1> QED BY <1>1, <1>2, HistoryInit, PTL DEF Spec

(* What a step makes of the files. *)
LEMMA StepMerges ==
    ASSUME Calm, HInv, Next, NEW t \in Tasks, files'[t] # files[t]
    PROVE  \/ files'[t] = None
           \/ \E p \in Procs : /\ running[p].pc = "writing" /\ t \in running[p].todo
                               /\ files'[t] = Merge(files[t], Head(queue[p]).item)
<1>1. PICK p \in Procs : \/ Initialize(p) \/ Stop(p)
                         \/ \E op \in Ops : Submit(p, op)
                         \/ Lock(p) \/ Load(p) \/ WriteIndex(p)
                         \/ \E u \in Tasks : RemoveDirectory(p, u)
  BY DEF Next
<1>i. Holder(p) /\ TypeOK
  BY DEF HInv, PInv, TInv
<1>2. CASE UpsertWrite(p)
  <2>1. t \in running[p].todo /\ files'[t] = running[p].item /\ running[p].pc = "writing"
    BY <1>2 DEF UpsertWrite
  <2>2. running[p].item = Merge(files[t], Head(queue[p]).item)
    BY <1>i, <2>1 DEF Holder
  <2> QED BY <2>1, <2>2
<1>3. CASE DeleteFile(p)
  BY <1>3 DEF DeleteFile
<1>4. CASE Stop(p)
  BY <1>4 DEF Stop, Calm
<1>5. CASE \E u \in Tasks : RemoveDirectory(p, u)
  BY <1>5, <1>i DEF RemoveDirectory, TypeOK
<1>6. CASE Lock(p) /\ ~UpsertWrite(p) /\ ~DeleteFile(p)
  BY <1>6 DEF Lock, UpsertBegin, UpsertFails, UpsertDone, DeleteBegin, DeleteDone, DeleteEntry,
              ReconcileList, ReconcileDone, ReconcileRead
<1>7. CASE Initialize(p) \/ (\E op \in Ops : Submit(p, op)) \/ Load(p) \/ WriteIndex(p)
  BY <1>7 DEF Initialize, Submit, Load, LoadRead, LoadDone, WriteIndex
<1> QED BY <1>1, <1>2, <1>3, <1>4, <1>5, <1>6, <1>7

(* In such a process a task's record changes by deletion or by one caller's update merged into the
   record as it then is, so concurrent upserts lose nothing. *)
THEOREM UpsertMerges == ASSUME Calm PROVE Spec => WritesMerge
<1>1. HInv /\ [Next]_vars => HInv'
  BY HistoryStep
<1>2. HInv /\ [Next]_vars =>
        [\A t \in Tasks : files'[t] # files[t] =>
          \/ files'[t] = None
          \/ \E p \in Procs : /\ running[p].pc = "writing" /\ t \in running[p].todo
                              /\ files'[t] = Merge(files[t], Head(queue[p]).item)]_vars
  BY StepMerges
<1> QED BY <1>1, <1>2, HistoryInit, PTL DEF Spec, WritesMerge
-----------------------------------------------------------------------------
(* One process, which may crash and be started again, and no overlapping    *)
(* getOrLoad: its cache may be behind the files, but not what it lists.     *)
Alone == (\A p, q \in Procs : p = q) /\ ~RacingLoads

Rests(p) == p \notin up => queue[p] = <<>> /\ \A t \in Tasks : loads[p][t] = NoLoad
Works(p) ==
    running[p].pc \in {"writing", "written", "deleting", "unlinking"} =>
        running[p].todo \cup running[p].gone \subseteq Head(queue[p]).tasks
(* While it is reconciled, a task with a record is listed or will be read,   *)
(* and one without a directory is not listed or will be dropped.             *)
Listed(p) ==
    running[p].pc = "adding" =>
        \A t \in Tasks :
            /\ files[t] # None => (cache[p][t] # None \/ t \in running[p].todo) /\ t \notin running[p].gone
            /\ t \notin dirs => cache[p][t] = None \/ t \in running[p].gone

LInv == TInv /\ HasDirectory /\ \A p \in Procs : Rests(p) /\ Works(p) /\ Loading(p) /\ Listed(p)

LEMMA AloneInit == Init => LInv
<1> SUFFICES ASSUME Init PROVE LInv
  OBVIOUS
<1>1. TInv
  BY TypeInit
<1>2. HasDirectory
  BY DEF Init, HasDirectory
<1>3. ASSUME NEW p \in Procs PROVE Rests(p) /\ Works(p) /\ Loading(p) /\ Listed(p)
  BY DEF Init, Rests, Works, Loading, Listed, Idle, Step
<1> QED BY <1>1, <1>2, <1>3 DEF LInv

LEMMA AloneAgain ==
    ASSUME Alone, TInv', HasDirectory', NEW p \in Procs, Rests(p)', Works(p)', Loading(p)', Listed(p)'
    PROVE  LInv'
BY DEF Alone, LInv

(* What has been read outside the lock stays true when the file of a task at *)
(* the head of the queue changes.                                            *)
LEMMA LoadedElsewhere ==
    ASSUME TypeOK, NEW p \in Procs, queue[p] # <<>>, Loading(p), UNCHANGED <<queue, loads>>,
           \A t \in Tasks : t \notin Head(queue[p]).tasks => files'[t] = files[t]
    PROVE  Loading(p)'
<1> SUFFICES ASSUME NEW t \in Tasks, loads'[p][t] # NoLoad
             PROVE  loads'[p][t] = files'[t] /\ Settled(p, t)'
  BY DEF Loading
<1>1. loads[p][t] = files[t] /\ Settled(p, t)
  BY DEF Loading
<1>2. t \notin Head(queue[p]).tasks
  BY <1>1, SettledHead
<1> QED BY <1>1, <1>2 DEF Settled

(* The holder of the lock leaves it. *)
LEMMA LeaveAlone ==
    ASSUME LInv, Alone, NEW p \in Procs, TInv', queue[p] # <<>>, Leave(p), UNCHANGED <<files, dirs, up, loads>>
    PROVE  LInv'
<1>i. TypeOK /\ HasDirectory /\ Rests(p) /\ Loading(p)
  BY DEF LInv, TInv
<1>1. queue'[p] = Tail(queue[p]) /\ running'[p] = Idle
  BY <1>i DEF Leave, TypeOK
<1>2. \A t \in Tasks : Settled(p, t) => Settled(p, t)'
  BY <1>i, <1>1, SettledTail
<1>3. Loading(p)'
  BY <1>i, <1>2 DEF Loading
<1>4. Works(p)' /\ Listed(p)'
  BY <1>1 DEF Works, Listed, Idle, Step
<1>5. Rests(p)' /\ HasDirectory'
  BY <1>i DEF Rests, HasDirectory
<1> QED BY <1>3, <1>4, <1>5, AloneAgain

(* The steps of upserts and deletions. *)
LEMMA WriterKeeps ==
    ASSUME Alone, LInv, NEW p \in Procs,
           \/ UpsertBegin(p) \/ UpsertWrite(p) \/ UpsertFails(p) \/ UpsertDone(p)
           \/ DeleteBegin(p) \/ DeleteFile(p) \/ DeleteDone(p)
           \/ \E t \in Tasks : DeleteEntry(p, t)
    PROVE  LInv'
<1>i. TInv /\ TypeOK /\ HasDirectory /\ Rests(p) /\ Works(p) /\ Loading(p)
  BY DEF LInv, TInv
<1>t. TInv'
  BY <1>i, UpsertKeepsType, DeleteKeepsType
<1>q. queue[p] # <<>>
  BY <1>i DEF UpsertBegin, UpsertWrite, UpsertFails, UpsertDone, DeleteBegin, DeleteFile, DeleteDone,
              DeleteEntry, TInv, Busy
<1>u. p \in up
  BY <1>i, <1>q DEF Rests
<1>r. running[p].todo \in SUBSET Tasks /\ running[p].gone \in SUBSET Tasks
  BY <1>i, RunningType
<1>1. CASE UpsertBegin(p)
  <2>1. PICK t \in Head(queue[p]).tasks :
           running' = [running EXCEPT ![p] =
                         Step("writing", {t}, {}, Merge(cache[p][t], Head(queue[p]).item), FALSE)]
    BY <1>1 DEF UpsertBegin
  <2>2. running'[p] = Step("writing", {t}, {}, Merge(cache[p][t], Head(queue[p]).item), FALSE)
    BY <1>i, <2>1 DEF TypeOK
  <2>3. UNCHANGED <<files, dirs, up, queue, loads>>
    BY <1>1 DEF UpsertBegin
  <2>4. Works(p)' /\ Listed(p)'
    BY <2>2, <2>3 DEF Works, Listed, Step
  <2>5. Rests(p)' /\ Loading(p)' /\ HasDirectory'
    BY <1>i, <2>3 DEF Rests, Loading, HasDirectory, Settled
  <2> QED BY <1>t, <2>4, <2>5, AloneAgain
<1>2. CASE UpsertWrite(p)
  <2>1. running'[p] = Step("written", running[p].todo, {}, running[p].item, FALSE)
    BY <1>2, <1>i DEF UpsertWrite, TypeOK
  <2>2. UNCHANGED <<up, queue, loads>> /\ dirs' = dirs \cup running[p].todo
    BY <1>2 DEF UpsertWrite
  <2>3. running[p].todo \subseteq Head(queue[p]).tasks
    BY <1>2, <1>i DEF UpsertWrite, Works
  <2>4. \A t \in Tasks : files'[t] = IF t \in running[p].todo THEN running[p].item ELSE files[t]
    BY <1>2 DEF UpsertWrite
  <2>5. Works(p)' /\ Listed(p)'
    BY <2>1, <2>2, <2>3 DEF Works, Listed, Step
  <2>6. Loading(p)'
    BY <1>i, <1>q, <2>2, <2>3, <2>4, LoadedElsewhere
  <2>7. Rests(p)' /\ HasDirectory'
    BY <1>i, <1>u, <2>2, <2>4 DEF Rests, HasDirectory
  <2> QED BY <1>t, <2>5, <2>6, <2>7, AloneAgain
<1>3. CASE UpsertFails(p) \/ UpsertDone(p) \/ DeleteDone(p)
  BY <1>3, <1>t, <1>q, LeaveAlone DEF UpsertFails, UpsertDone, DeleteDone
<1>4. CASE DeleteBegin(p)
  <2>1. running'[p] = Step("deleting", Head(queue[p]).tasks, {}, None, FALSE)
    BY <1>4, <1>i DEF DeleteBegin, TypeOK
  <2>2. UNCHANGED <<files, dirs, up, queue, loads>>
    BY <1>4 DEF DeleteBegin
  <2>3. Works(p)' /\ Listed(p)'
    BY <2>1, <2>2 DEF Works, Listed, Step
  <2>4. Rests(p)' /\ Loading(p)' /\ HasDirectory'
    BY <1>i, <2>2 DEF Rests, Loading, HasDirectory, Settled
  <2> QED BY <1>t, <2>3, <2>4, AloneAgain
<1>5. CASE DeleteFile(p)
  <2>1. running'[p] = Step("deleting", running[p].todo, {}, None, FALSE)
    BY <1>5, <1>i DEF DeleteFile, TypeOK
  <2>2. UNCHANGED <<dirs, up, queue, loads>>
    BY <1>5 DEF DeleteFile
  <2>3. running[p].todo \cup running[p].gone \subseteq Head(queue[p]).tasks
    BY <1>5, <1>i DEF DeleteFile, Works
  <2>4. \A t \in Tasks : files'[t] = IF t \in running[p].gone THEN None ELSE files[t]
    BY <1>5 DEF DeleteFile
  <2>5. Works(p)' /\ Listed(p)'
    BY <2>1, <2>2, <2>3 DEF Works, Listed, Step
  <2>6. Loading(p)'
    BY <1>i, <1>q, <2>2, <2>3, <2>4, LoadedElsewhere
  <2>7. Rests(p)' /\ HasDirectory'
    BY <1>i, <1>u, <2>2, <2>4 DEF Rests, HasDirectory
  <2> QED BY <1>t, <2>5, <2>6, <2>7, AloneAgain
<1>6. ASSUME NEW t \in Tasks, DeleteEntry(p, t) PROVE LInv'
  <2>1. running'[p] = Step("unlinking", running[p].todo \ {t}, {t}, None, FALSE)
    BY <1>6, <1>i DEF DeleteEntry, TypeOK
  <2>2. UNCHANGED <<files, dirs, up, queue, loads>>
    BY <1>6 DEF DeleteEntry
  <2>3. running[p].todo \subseteq Head(queue[p]).tasks /\ t \in running[p].todo
    BY <1>6, <1>i DEF DeleteEntry, Works
  <2>4. Works(p)' /\ Listed(p)'
    BY <2>1, <2>2, <2>3 DEF Works, Listed, Step
  <2>5. Rests(p)' /\ Loading(p)' /\ HasDirectory'
    BY <1>i, <2>2 DEF Rests, Loading, HasDirectory, Settled
  <2> QED BY <1>t, <2>4, <2>5, AloneAgain
<1> QED BY <1>1, <1>2, <1>3, <1>4, <1>5, <1>6

(* The steps of reconcile. *)
LEMMA ReconcileLists ==
    ASSUME Alone, LInv, NEW p \in Procs,
           ReconcileList(p) \/ ReconcileDone(p) \/ \E t \in Tasks : ReconcileRead(p, t)
    PROVE  LInv'
<1>i. TInv /\ TypeOK /\ HasDirectory /\ Rests(p) /\ Works(p) /\ Loading(p) /\ Listed(p)
  BY DEF LInv, TInv
<1>t. TInv'
  BY <1>i, ReconcileKeepsType
<1>q. queue[p] # <<>>
  BY <1>i DEF ReconcileList, ReconcileDone, ReconcileRead, TInv, Busy
<1>1. CASE ReconcileList(p)
  <2>1. running'[p] = Step("adding", dirs \ Cached(p), Cached(p) \ dirs, None, FALSE)
    BY <1>1, <1>i DEF ReconcileList, TypeOK
  <2>2. UNCHANGED <<files, dirs, up, cache, queue, loads>>
    BY <1>1 DEF ReconcileList
  <2>3. Listed(p)'
    BY <1>i, <2>1, <2>2 DEF Listed, HasDirectory, Cached, Step
  <2>4. Works(p)'
    BY <2>1 DEF Works, Step
  <2>5. Rests(p)' /\ Loading(p)' /\ HasDirectory'
    BY <1>i, <2>2 DEF Rests, Loading, HasDirectory, Settled
  <2> QED BY <1>t, <2>3, <2>4, <2>5, AloneAgain
<1>2. CASE ReconcileDone(p)
  BY <1>2, <1>t, <1>q, LeaveAlone DEF ReconcileDone
<1>3. ASSUME NEW t \in Tasks, ReconcileRead(p, t) PROVE LInv'
  <2>1. PICK item \in Reads(t) :
          /\ cache' = [cache EXCEPT ![p] = [u \in Tasks |-> IF u = t /\ item # None
                                                            THEN item ELSE cache[p][u]]]
          /\ running' = [running EXCEPT ![p] = Step("adding", running[p].todo \ {t}, running[p].gone, None,
                                                    running[p].changed \/ item # None)]
    BY <1>3 DEF ReconcileRead
  <2>2. UNCHANGED <<files, dirs, up, queue, loads>> /\ running[p].pc = "adding"
    BY <1>3 DEF ReconcileRead
  <2>3. item = files[t]
    BY <2>2 DEF Reads, Alone
  <2>4. \A u \in Tasks : cache'[p][u] = IF u = t /\ files[t] # None THEN files[t] ELSE cache[p][u]
    BY <1>i, <2>1, <2>3 DEF TypeOK
  <2>5. running'[p].pc = "adding" /\ running'[p].todo = running[p].todo \ {t} /\ running'[p].gone = running[p].gone
    BY <1>i, <2>1 DEF TypeOK, Step
  <2>6. Listed(p)'
    BY <1>i, <2>2, <2>4, <2>5 DEF Listed, HasDirectory
  <2>7. Works(p)'
    BY <2>5 DEF Works
  <2>8. Rests(p)' /\ Loading(p)' /\ HasDirectory'
    BY <1>i, <2>2 DEF Rests, Loading, HasDirectory, Settled
  <2> QED BY <1>t, <2>6, <2>7, <2>8, AloneAgain
<1> QED BY <1>1, <1>2, <1>3

(* Starting, crashing, submitting, loading, the index and the directory. *)
LEMMA OthersList ==
    ASSUME Alone, LInv, NEW p \in Procs,
           \/ Initialize(p) \/ Stop(p) \/ (\E op \in Ops : Submit(p, op))
           \/ Load(p) \/ WriteIndex(p) \/ (\E t \in Tasks : RemoveDirectory(p, t))
    PROVE  LInv'
<1>i. TInv /\ TypeOK /\ Busy /\ HasDirectory /\ Rests(p) /\ Works(p) /\ Loading(p) /\ Listed(p)
  BY DEF LInv, TInv
<1>t. TInv'
  BY <1>i, OthersKeepType
<1>1. CASE Initialize(p)
  <2>1. UNCHANGED <<files, dirs, running, loads>> /\ p \notin up /\ up' = up \cup {p}
    BY <1>1 DEF Initialize
  <2>2. queue[p] = <<>> /\ \A t \in Tasks : loads[p][t] = NoLoad
    BY <1>i, <2>1 DEF Rests
  <2>3. running[p].pc = "idle"
    BY <1>i, <2>2 DEF Busy
  <2>4. Rests(p)' /\ Works(p)' /\ Loading(p)' /\ Listed(p)' /\ HasDirectory'
    BY <1>i, <2>1, <2>2, <2>3 DEF Rests, Works, Loading, Listed, HasDirectory
  <2> QED BY <1>t, <2>4, AloneAgain
<1>2. CASE Stop(p)
  <2>1. queue'[p] = <<>> /\ running'[p] = Idle /\ (\A t \in Tasks : loads'[p][t] = NoLoad) /\ dirs' = dirs
    BY <1>2, <1>i DEF Stop, TypeOK
  <2>2. \A t \in Tasks : files'[t] \in {files[t], None}
    BY <1>2 DEF Stop
  <2>3. Rests(p)' /\ Works(p)' /\ Loading(p)' /\ Listed(p)'
    BY <2>1 DEF Rests, Works, Loading, Listed, Idle, Step
  <2>4. HasDirectory'
    BY <1>i, <2>1, <2>2 DEF HasDirectory
  <2> QED BY <1>t, <2>3, <2>4, AloneAgain
<1>3. ASSUME NEW op \in Ops, Submit(p, op) PROVE LInv'
  <2>1. UNCHANGED <<files, dirs, up, cache, running, loads>> /\ p \in up
    BY <1>3 DEF Submit
  <2>2. queue'[p] = Append(queue[p], op)
    BY <1>3, <1>i DEF Submit, TypeOK
  <2>3. \A t \in op.tasks : loads[p][t] = NoLoad
    BY <1>3 DEF Submit, Alone
  <2>4. queue[p] # <<>> => Head(queue'[p]) = Head(queue[p])
    <3>1. queue[p] \in Seq(Ops)
      BY <1>i DEF TypeOK
    <3> QED BY <2>2, <3>1, AppendProperties, EmptySeq, LenProperties
  <2>5. Works(p)'
    <3>1. CASE queue[p] = <<>>
      <4>1. running[p].pc = "idle"
        BY <1>i, <3>1 DEF Busy
      <4> QED BY <2>1, <4>1 DEF Works
    <3>2. CASE queue[p] # <<>>
      BY <1>i, <2>1, <2>4, <3>2 DEF Works
    <3> QED BY <3>1, <3>2
  <2>6. Loading(p)'
    <3> SUFFICES ASSUME NEW t \in Tasks, loads'[p][t] # NoLoad
                 PROVE  loads'[p][t] = files'[t] /\ Settled(p, t)'
      BY DEF Loading
    <3>1. loads[p][t] = files[t] /\ Settled(p, t) /\ t \notin op.tasks
      BY <1>i, <2>1, <2>3 DEF Loading
    <3>2. Settled(p, t)'
      BY <1>i, <2>2, <3>1, SettledAppend
    <3> QED BY <2>1, <3>1, <3>2
  <2>7. Rests(p)' /\ Listed(p)' /\ HasDirectory'
    BY <1>i, <2>1 DEF Rests, Listed, HasDirectory
  <2> QED BY <1>t, <2>5, <2>6, <2>7, AloneAgain
<1>4. ASSUME NEW t \in Tasks, LoadRead(p, t) PROVE LInv'
  <2>1. PICK item \in Reads(t) :
           loads' = [loads EXCEPT ![p] = [u \in Tasks |-> IF u = t THEN item ELSE loads[p][u]]]
    BY <1>4 DEF LoadRead
  <2>2. /\ UNCHANGED <<files, dirs, up, cache, queue, running>>
        /\ p \in up /\ Settled(p, t)
    BY <1>4 DEF LoadRead, Alone
  <2>3. item = files[t]
    <3>1. ASSUME NEW q \in Procs, running[q].pc = "writing", t \in running[q].todo PROVE FALSE
      <4>1. q = p
        BY DEF Alone
      <4>2. queue[p] # <<>> /\ t \in Head(queue[p]).tasks
        BY <1>i, <3>1, <4>1 DEF Busy, Works
      <4> QED BY <1>i, <2>2, <4>2, SettledHead
    <3> QED BY <3>1 DEF Reads
  <2>4. \A u \in Tasks : loads'[p][u] = IF u = t THEN files[t] ELSE loads[p][u]
    BY <1>i, <2>1, <2>3 DEF TypeOK
  <2>5. Loading(p)'
    BY <1>i, <2>2, <2>4 DEF Loading, Settled
  <2>6. Rests(p)' /\ Works(p)' /\ Listed(p)' /\ HasDirectory'
    BY <1>i, <2>2 DEF Rests, Works, Listed, HasDirectory
  <2> QED BY <1>t, <2>5, <2>6, AloneAgain
<1>5. ASSUME NEW t \in Tasks, LoadDone(p, t) PROVE LInv'
  <2>1. UNCHANGED <<files, dirs, up, queue, running>> /\ loads[p][t] # NoLoad
    BY <1>5 DEF LoadDone
  <2>2. loads[p][t] = files[t] /\ p \in up
    BY <1>i, <2>1 DEF Loading, Rests
  <2>3. \A u \in Tasks : cache'[p][u] = IF u = t THEN files[t] ELSE cache[p][u]
    BY <1>5, <1>i, <2>2 DEF LoadDone, TypeOK
  <2>4. \A u \in Tasks : loads'[p][u] = IF u = t THEN NoLoad ELSE loads[p][u]
    BY <1>5, <1>i DEF LoadDone, TypeOK
  <2>5. Listed(p)'
    BY <1>i, <2>1, <2>3 DEF Listed, HasDirectory
  <2>6. Rests(p)' /\ Works(p)' /\ Loading(p)' /\ HasDirectory'
    BY <1>i, <2>1, <2>2, <2>4 DEF Rests, Works, Loading, HasDirectory, Settled
  <2> QED BY <1>t, <2>5, <2>6, AloneAgain
<1>6. CASE WriteIndex(p)
  <2>1. UNCHANGED <<files, dirs, up, cache, queue, running, loads>>
    BY <1>6 DEF WriteIndex
  <2>2. Rests(p)' /\ Works(p)' /\ Loading(p)' /\ Listed(p)' /\ HasDirectory'
    BY <1>i, <2>1 DEF Rests, Works, Loading, Listed, HasDirectory, Settled
  <2> QED BY <1>t, <2>2, AloneAgain
<1>7. ASSUME NEW t \in Tasks, RemoveDirectory(p, t) PROVE LInv'
  <2>1. /\ UNCHANGED <<up, cache, queue, running, loads>>
        /\ cache[p][t] = None /\ files[t] = None /\ dirs' = dirs \ {t}
    BY <1>7 DEF RemoveDirectory
  <2>2. files' = files
    BY <1>7, <1>i DEF RemoveDirectory, TypeOK
  <2>3. Rests(p)' /\ Works(p)' /\ Loading(p)' /\ Listed(p)' /\ HasDirectory'
    BY <1>i, <2>1, <2>2 DEF Rests, Works, Loading, Listed, HasDirectory, Settled
  <2> QED BY <1>t, <2>3, AloneAgain
<1> QED BY <1>1, <1>2, <1>3, <1>4, <1>5, <1>6, <1>7 DEF Load

LEMMA AloneStep == ASSUME Alone PROVE LInv /\ [Next]_vars => LInv'
<1> SUFFICES ASSUME LInv, [Next]_vars PROVE LInv'
  OBVIOUS
<1>1. CASE UNCHANGED vars
  <2>1. TInv' /\ HasDirectory'
    BY <1>1, TypeStep DEF LInv, vars, HasDirectory
  <2>2. ASSUME NEW p \in Procs PROVE Rests(p)' /\ Works(p)' /\ Loading(p)' /\ Listed(p)'
    BY <1>1 DEF LInv, vars, Rests, Works, Loading, Listed, Settled
  <2> QED BY <2>1, <2>2 DEF LInv
<1>2. CASE Next
  <2>1. PICK p \in Procs : \/ Initialize(p) \/ Stop(p)
                           \/ \E op \in Ops : Submit(p, op)
                           \/ Lock(p) \/ Load(p) \/ WriteIndex(p)
                           \/ \E t \in Tasks : RemoveDirectory(p, t)
    BY <1>2 DEF Next
  <2>2. CASE Lock(p)
    BY <2>2, WriterKeeps, ReconcileLists DEF Lock
  <2>3. CASE ~Lock(p)
    BY <2>1, <2>3, OthersList
  <2> QED BY <2>2, <2>3
<1> QED BY <1>1, <1>2

(* However the process was crashed, with a write cut off or an index that is behind, its reconcile
   leaves a list with every task that has a record, and with none whose directory is gone. *)
THEOREM ReconcileListsAll == ASSUME Alone PROVE Spec => ListComplete
<1>1. LInv /\ [Next]_vars => LInv'
  BY AloneStep
<1>2. LInv /\ [Next]_vars =>
        [\A p \in Procs : ReconcileDone(p) => \A t \in Tasks :
          /\ files[t] # None => cache'[p][t] # None
          /\ t \notin dirs => cache'[p][t] = None]_vars
  <2> SUFFICES ASSUME LInv, NEW p \in Procs, ReconcileDone(p), NEW t \in Tasks
               PROVE  /\ files[t] # None => cache'[p][t] # None
                      /\ t \notin dirs => cache'[p][t] = None
    OBVIOUS
  <2>1. TypeOK /\ Listed(p)
    BY DEF LInv, TInv
  <2>2. cache'[p][t] = IF t \in running[p].gone THEN None ELSE cache[p][t]
    BY <2>1 DEF ReconcileDone, TypeOK
  <2>3. running[p].pc = "adding" /\ running[p].todo = {}
    BY DEF ReconcileDone
  <2> QED BY <2>1, <2>2, <2>3 DEF Listed
<1> QED BY <1>1, <1>2, AloneInit, PTL DEF Spec, ListComplete
=============================================================================
