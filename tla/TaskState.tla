------------------------------ MODULE TaskState ------------------------------
(***************************************************************************)
(* The lifecycle state of one task: the TaskManager's in-memory state, the *)
(* versioned chain of its writes, and the taskState field of the task's    *)
(* record in the TaskHistoryStore.  The manager's maps are keyed by task   *)
(* id, so one task stands for all.                                         *)
(*                                                                         *)
(* The store runs its read-modify-write operations one at a time, in the   *)
(* order they were called (withLock): the variable lock is that queue, and *)
(* a patch is merged into the record when its turn comes.                  *)
(***************************************************************************)
EXTENDS Naturals, Sequences

CONSTANTS
    MaxVersion,  \* bound on the setState calls of one process
    MaxLock,     \* bound on the store operations in flight
    Reported,    \* the states that events and tools report
    Clients,     \* which other parts act: see below
    Faults       \* {"write"} if a write of the store may fail

Transient == {"running", "waiting_input", "waiting"}
Completed == {"completed", "completed:poor", "completed:well", "completed:excellent"}
Terminal == Completed \cup {"error", "paused"}
State == Transient \cup Terminal \cup {"idle"}

(* "metadata"  saves that leave taskState out, and the record a new task   *)
(*             gets with its first state;                                  *)
(* "snapshot"  writers that spread a history item they read earlier;       *)
(* "delete"    deletion of the task;                                       *)
(* "early"     registration before the history was restored.               *)
ASSUME TaskStateAssumption ==
    /\ MaxVersion \in Nat
    /\ MaxLock \in Nat
    /\ Reported \subseteq State
    /\ Clients \subseteq {"metadata", "snapshot", "delete", "early"}
    /\ Faults \subseteq {"write"}

VARIABLES
    seeded,    \* restoreManagedTasks has run
    state,     \* ManagedTask.state, "none" when the task is not managed
    version,   \* persistVersions
    chain,     \* persistChains: the persists that have not settled
    lock,      \* the operations queued on the store
    record,    \* HistoryItem.taskState: "none" no record, "unset" no field
    snapshot,  \* taskState of a history item a snapshot writer has read
    log,       \* history: the states set in this process
    flushed,   \* history: version of the latest state that reached the record
    lost       \* history: the record need not show the latest state

vars == <<seeded, state, version, chain, lock, record, snapshot,
          log, flushed, lost>>
-----------------------------------------------------------------------------
Persists == [state : State, version : 1 .. MaxVersion]

\* An operation on the store: a patch with a taskState, one without ("keep"),
\* or the deletion of the record.  The manager's chain awaits its own patches.
Ops == [state : State \cup {"keep", "delete"}, by : {"manager", "other"}]

Op(s) == [state |-> s, by |-> "other"]
Own(op) == op.by = "manager"

\* The head of the chain awaits its patch.
Writing == \E k \in 1 .. Len(lock) : Own(lock[k])

\* TaskHistoryStore.upsert merges the patch into the record, delete removes it.
Applied(r, op) ==
    CASE op.state = "delete" -> "none"
      [] op.state = "keep" -> IF r = "none" THEN "unset" ELSE r
      [] OTHER -> op.state

\* TaskManager.sanitizeRestoredState
Sanitize(s) == IF s \in Transient \cup {"unset"} THEN "idle" ELSE s
-----------------------------------------------------------------------------
Init ==
    /\ seeded = FALSE
    /\ state = "none"
    /\ version = 0
    /\ chain = <<>>
    /\ lock = <<>>
    /\ record = "none"
    /\ snapshot = "none"
    /\ log = <<>> /\ flushed = 0 /\ lost = FALSE

\* restoreManagedTasks: seeds the state unless the task is managed already.
Restore ==
    /\ ~seeded
    /\ seeded' = TRUE
    /\ state' = IF state = "none" /\ record # "none" THEN Sanitize(record) ELSE state
    /\ UNCHANGED <<version, chain, lock, record, snapshot, log, flushed, lost>>

\* registerBackgroundTask of a task the manager does not know; the state is
\* not persisted.
Register ==
    /\ seeded \/ "early" \in Clients
    /\ state = "none"
    /\ state' \in {"running", "idle"}
    /\ lost' = (record # "none")
    /\ UNCHANGED <<seeded, version, chain, lock, record, snapshot, log, flushed>>

\* createManagedTask, and the provider's first record for the new task (which
\* may have a record already: its own first metadata save).
Create ==
    /\ seeded
    /\ "metadata" \in Clients
    /\ state = "none" /\ version = 0
    /\ record \in {"none", "unset"}
    /\ \A k \in 1 .. Len(lock) : lock[k].state = "keep"
    /\ Len(lock) < MaxLock
    /\ state' = "running"
    /\ lock' = Append(lock, Op("running"))
    /\ UNCHANGED <<seeded, version, chain, record, snapshot, log, flushed, lost>>

\* deleteManagedTask; a pending chain and the version stay behind.
Unmanage ==
    /\ "delete" \in Clients
    /\ state # "none"
    /\ state' = "none"
    /\ UNCHANGED <<seeded, version, chain, lock, record, snapshot, log, flushed, lost>>
-----------------------------------------------------------------------------
\* Mutant: the comparison with the record is made when the state is set.
SetComparedEarly(s) ==
    /\ state # "none" /\ s # state
    /\ version < MaxVersion
    /\ state' = s
    /\ version' = version + 1
    /\ log' = Append(log, s)
    /\ chain' = IF record = s THEN chain
                ELSE Append(chain, [state |-> s, version |-> version + 1])
    /\ UNCHANGED <<seeded, lock, record, snapshot, flushed, lost>>

\* TaskManager.setState, with enqueuePersist.
Set(s) ==
    /\ state # "none" /\ s # state
    /\ version < MaxVersion
    /\ state' = s
    /\ version' = version + 1
    /\ log' = Append(log, s)
    /\ chain' = Append(chain, [state |-> s, version |-> version + 1])
    /\ UNCHANGED <<seeded, lock, record, snapshot, flushed, lost>>

\* A task event, a waiting tool, or the manager's start, pause and stop.
Report == \E s \in Reported : Set(s)

\* The TaskAborted event of a user stop or an abandoned task.
Aborted == state \notin Terminal /\ Set("paused")

\* The head of the chain is older than the registration of the task: the task
\* was unmanaged and registered again, with a state that was never set.
Orphaned == Head(chain).version = version /\ Head(chain).state # state

\* The head of the chain settles without a write.
Settle(isLost) ==
    /\ chain # <<>> /\ ~Writing
    /\ chain' = Tail(chain)
    /\ lost' = isLost
    /\ UNCHANGED <<seeded, state, version, lock, record, snapshot, log>>

\* persistState: a newer setState came in the meantime.
PersistStale ==
    /\ chain # <<>> /\ Head(chain).version # version
    /\ Settle(lost)
    /\ UNCHANGED flushed

\* Mutant: the persist waits for the record to appear.
PersistNoRecordWaits == FALSE

\* persistState: the task has no record.
PersistNoRecord ==
    /\ chain # <<>> /\ Head(chain).version = version
    /\ record = "none"
    /\ Settle(TRUE)
    /\ UNCHANGED flushed

\* persistState: the record shows the state already.
PersistEqual ==
    /\ chain # <<>> /\ Head(chain).version = version
    /\ record = Head(chain).state
    /\ Settle(Orphaned)
    /\ flushed' = Head(chain).version

\* persistState: the patch joins the operations of the store.
PersistWrite ==
    /\ chain # <<>> /\ ~Writing
    /\ Head(chain).version = version
    /\ record # "none" /\ record # Head(chain).state
    /\ lock' = Append(lock, [state |-> Head(chain).state, by |-> "manager"])
    /\ UNCHANGED <<seeded, state, version, chain, record, snapshot, log, flushed, lost>>

Persist == PersistStale \/ PersistNoRecord \/ PersistEqual \/ PersistWrite
-----------------------------------------------------------------------------
(* Other operations on the record.                                         *)

Enqueue(op) ==
    /\ Len(lock) < MaxLock
    /\ lock' = Append(lock, op)
    /\ UNCHANGED <<seeded, state, version, chain, record, log, flushed, lost>>

\* taskMetadata and the tools' partial patches leave taskState out.
SaveMetadata ==
    /\ "metadata" \in Clients
    /\ Enqueue(Op("keep"))
    /\ UNCHANGED snapshot

\* getTaskWithId: the history item is captured, then more is read from disk.
TakeSnapshot ==
    /\ "snapshot" \in Clients
    /\ snapshot = "none" /\ record # "none"
    /\ snapshot' = record
    /\ UNCHANGED <<seeded, state, version, chain, lock, record, log, flushed, lost>>

\* updateTaskHistory({ ...historyItem, field }): the old taskState goes along.
WriteSnapshot ==
    /\ snapshot # "none"
    /\ Enqueue(Op(IF snapshot = "unset" THEN "keep" ELSE snapshot))
    /\ snapshot' = "none"

DeleteRecord ==
    /\ "delete" \in Clients
    /\ record # "none"
    /\ Enqueue(Op("delete"))
    /\ UNCHANGED snapshot

\* Mutant: the store runs its operations in any order.
UpsertUnordered ==
    \E k \in 1 .. Len(lock) :
        /\ record' = Applied(record, lock[k])
        /\ lock' = [j \in 1 .. Len(lock) - 1 |-> IF j < k THEN lock[j] ELSE lock[j + 1]]
        /\ chain' = IF Own(lock[k]) THEN Tail(chain) ELSE chain
        /\ flushed' = IF Own(lock[k]) THEN Head(chain).version ELSE flushed
        /\ lost' = IF Own(lock[k]) THEN Orphaned ELSE lost \/ lock[k].state = "delete"
        /\ UNCHANGED <<seeded, state, version, snapshot, log>>

\* The operation at the head of the store's queue is done; if it is the
\* manager's, the head of the chain settles.
StoreDone ==
    /\ lock # <<>>
    /\ record' = Applied(record, Head(lock))
    /\ lock' = Tail(lock)
    /\ chain' = IF Own(Head(lock)) THEN Tail(chain) ELSE chain
    /\ flushed' = IF Own(Head(lock)) THEN Head(chain).version ELSE flushed
    /\ lost' = IF Own(Head(lock)) THEN Orphaned ELSE lost \/ Head(lock).state = "delete"
    /\ UNCHANGED <<seeded, state, version, snapshot, log>>

\* It fails: persistState logs the error and the chain goes on.
StoreFails ==
    /\ "write" \in Faults
    /\ lock # <<>>
    /\ lock' = Tail(lock)
    /\ chain' = IF Own(Head(lock)) THEN Tail(chain) ELSE chain
    /\ lost' = (lost \/ Own(Head(lock)))
    /\ UNCHANGED <<seeded, state, version, record, snapshot, log, flushed>>

\* The process restarts; the record is all that is left.
Restart ==
    /\ seeded
    /\ seeded' = FALSE
    /\ state' = "none"
    /\ version' = 0
    /\ chain' = <<>> /\ lock' = <<>>
    /\ snapshot' = "none"
    /\ log' = <<>> /\ flushed' = 0 /\ lost' = FALSE
    /\ UNCHANGED record

Next ==
    \/ Restore \/ Register \/ Create \/ Unmanage
    \/ Report \/ Aborted
    \/ Persist
    \/ SaveMetadata \/ TakeSnapshot \/ WriteSnapshot \/ DeleteRecord
    \/ StoreDone \/ StoreFails
    \/ Restart

Spec == Init /\ [][Next]_vars

(***************************************************************************)
(* The event loop runs a persist whose predecessor settled, and the store  *)
(* runs the operation at the head of its queue.                            *)
(***************************************************************************)
FairSpec == Spec /\ WF_vars(Persist) /\ WF_vars(StoreDone \/ StoreFails)
-----------------------------------------------------------------------------
(* Properties.                                                             *)

\* Every variable has its type.
TypeOK ==
    /\ seeded \in BOOLEAN
    /\ state \in State \cup {"none"}
    /\ version \in 0 .. MaxVersion
    /\ chain \in Seq(Persists)
    /\ lock \in Seq(Ops)
    /\ record \in State \cup {"none", "unset"}
    /\ snapshot \in State \cup {"none", "unset"}
    /\ log \in Seq(State)
    /\ flushed \in 0 .. MaxVersion
    /\ lost \in BOOLEAN

\* No persist is pending and no operation on the store would change the state.
Settled ==
    /\ state # "none"
    /\ chain = <<>>
    /\ \A k \in 1 .. Len(lock) : lock[k].state = "keep"

(* Latest wins: once the chain of writes has settled, a restart would show *)
(* the state the manager shows now, however the sets, the slow writes and  *)
(* the metadata saves were interleaved - unless a write failed, the record *)
(* was missing or deleted, or the task was registered before the restore.  *)
(* With snapshot writers, the code paths docs/task_states.md says do not   *)
(* exist ("No other code path ever writes taskState"), it does not hold.   *)
SettledAgrees ==
    Settled /\ record # "none" /\ ~lost => Sanitize(record) = Sanitize(state)

\* Every setState is eventually done with: waitForPendingPersist returns.
PersistsSettle == (chain # <<>>) ~> (chain = <<>>)

(* The durable state only moves forward through the states that were set:  *)
(* no slow write ever puts an older state over a newer one.                *)
Durable == INSTANCE StateRegister WITH First <- "running", durable <- record
DurableMovesForward == Durable!Spec
=============================================================================
