---------------------------- MODULE SafeWriteJson ----------------------------
(***************************************************************************)
(* safeWriteJson on one path: the writes of a process wait for each other  *)
(* in a queue of promises, processes exclude each other by a lock file,    *)
(* and the file is replaced by two renames, of the old file to a backup    *)
(* and of the new one to the file, undone if something fails.              *)
(*                                                                         *)
(* One step is one operation on the file system, which may fail.  A        *)
(* process that runs keeps its lock (it is never suspended for the 31      *)
(* seconds after which others may break the lock), and nobody else removes *)
(* the file while a write is under way.                                    *)
(***************************************************************************)
EXTENDS Naturals, Sequences

CONSTANTS
    Procs,     \* processes that write the file
    Contents,  \* what is written
    Absent,    \* no such file
    Free,      \* nobody holds the lock
    Faults,    \* operations that may fail, and "crash"
    MaxQueue   \* writes of a process that have not settled

Steps == {"lock", "stream", "access", "backup", "commit", "rollback", "unlink", "release"}

ASSUME WriteAssumption ==
    /\ Absent \notin Contents
    /\ Free \notin Procs
    /\ Faults \subseteq Steps \cup {"crash"}
    /\ MaxQueue \in Nat

VARIABLES
    target,   \* the file
    backup,   \* the backup file of the write of each process
    orphan,   \* the backup that holds the contents although its write is over
    lock,     \* the process whose lock file is there
    queue,    \* writeQueues: the writes of each process that have not settled
    pc,       \* how far the first of them is
    marked,   \* actualTempBackupFilePath is set
    failed,   \* an error has been caught
    outcome   \* how the last write of a process settled

vars == <<target, backup, orphan, lock, queue, pc, marked, failed, outcome>>
write == <<backup, marked, failed>>

(* Where the first write of a process waits for the file system. *)
Inside == {"streaming", "checking", "moving", "committing", "tidying",
           "undoing", "discarding", "dropping", "releasing"}
States == {"idle"} \cup Inside

File == Contents \cup {Absent}

At(p, state) == pc[p] = state /\ queue[p] # <<>>
Goto(p, state) == pc' = [pc EXCEPT ![p] = state]

Init ==
    /\ target \in File
    /\ backup = [p \in Procs |-> Absent]
    /\ orphan = Absent
    /\ lock = Free
    /\ queue = [p \in Procs |-> <<>>]
    /\ pc = [p \in Procs |-> "idle"]
    /\ marked = [p \in Procs |-> FALSE]
    /\ failed = [p \in Procs |-> FALSE]
    /\ outcome = [p \in Procs |-> "none"]

(* safeWriteJson is called: the write waits for the one before. *)
Call(p, v) ==
    /\ Len(queue[p]) < MaxQueue
    /\ queue' = [queue EXCEPT ![p] = Append(@, v)]
    /\ UNCHANGED <<target, orphan, lock, pc, outcome, write>>

(* The promise of the first write settles and the next may start. *)
Settle(p, how) ==
    /\ queue' = [queue EXCEPT ![p] = Tail(@)]
    /\ pc' = [pc EXCEPT ![p] = "idle"]
    /\ outcome' = [outcome EXCEPT ![p] = how]

(* A lock whose process has ended grows stale and is taken over. *)
Lock(p) ==
    /\ At(p, "idle")
    /\ lock \in {Free} \cup {q \in Procs : pc[q] = "idle"}
    /\ lock' = p
    /\ Goto(p, "streaming")
    /\ UNCHANGED <<target, orphan, queue, outcome, write>>

(* Mutant: the promise of the queue is not resolved when the write throws. *)
RefusedUnresolved(p) ==
    /\ At(p, "idle")
    /\ "lock" \in Faults \/ lock # Free
    /\ outcome' = [outcome EXCEPT ![p] = "failed"]
    /\ UNCHANGED <<target, orphan, lock, queue, pc, write>>

(* No directory, or the retries for the lock are used up: the write fails. *)
Refused(p) ==
    /\ At(p, "idle")
    /\ "lock" \in Faults \/ lock # Free
    /\ Settle(p, "failed")
    /\ UNCHANGED <<target, orphan, lock, write>>

-----------------------------------------------------------------------------
(* An operation `op` throws: the rollback begins. *)
Throw(p, op) ==
    /\ op \in Faults
    /\ Goto(p, "undoing")
    /\ failed' = [failed EXCEPT ![p] = TRUE]
    /\ UNCHANGED <<target, backup, orphan, lock, queue, outcome>>

(* The contents go to a temporary file. *)
Stream(p) ==
    /\ At(p, "streaming")
    /\ \/ /\ Goto(p, "checking")
          /\ UNCHANGED <<target, orphan, lock, queue, outcome, write>>
       \/ Throw(p, "stream") /\ UNCHANGED marked

(* Is there a file to back up? *)
Access(p) ==
    /\ At(p, "checking")
    /\ \/ /\ Goto(p, IF target = Absent THEN "committing" ELSE "moving")
          /\ marked' = [marked EXCEPT ![p] = target # Absent]
          /\ UNCHANGED <<target, orphan, lock, queue, outcome, backup, failed>>
       \/ Throw(p, "access") /\ UNCHANGED marked

(* The file becomes the backup. *)
BackUp(p) ==
    /\ At(p, "moving")
    /\ \/ /\ backup' = [backup EXCEPT ![p] = target]
          /\ target' = Absent
          /\ Goto(p, "committing")
          /\ UNCHANGED <<orphan, lock, queue, outcome, marked, failed>>
       \/ Throw(p, "backup") /\ UNCHANGED marked

(* The temporary file becomes the file. *)
Commit(p) ==
    /\ At(p, "committing")
    /\ \/ /\ target' = Head(queue[p])
          /\ orphan' = Absent
          /\ Goto(p, IF marked[p] THEN "tidying" ELSE "releasing")
          /\ UNCHANGED <<lock, queue, outcome, write>>
       \/ Throw(p, "commit") /\ UNCHANGED marked

(* The backup is deleted; if that fails it stays, and the write has succeeded all the same. *)
Tidy(p) ==
    /\ At(p, "tidying")
    /\ Goto(p, "releasing")
    /\ \/ backup' = [backup EXCEPT ![p] = Absent]
       \/ "unlink" \in Faults /\ UNCHANGED backup
    /\ UNCHANGED <<target, orphan, lock, queue, outcome, marked, failed>>

-----------------------------------------------------------------------------
(* Mutant: the backup is not put back. *)
RollbackForgotten(p) ==
    /\ At(p, "undoing")
    /\ Goto(p, "discarding")
    /\ UNCHANGED <<target, orphan, lock, queue, outcome, write>>

(* The catch block: the backup is put back, if one was meant to be made ... *)
Rollback(p) ==
    /\ At(p, "undoing")
    /\ Goto(p, "discarding")
    /\ \/ /\ marked[p] /\ backup[p] # Absent
          /\ target' = backup[p]
          /\ backup' = [backup EXCEPT ![p] = Absent]
          /\ marked' = [marked EXCEPT ![p] = FALSE]
       \/ /\ marked[p] => backup[p] = Absent \/ "rollback" \in Faults
          /\ UNCHANGED <<target, backup, marked>>
    /\ UNCHANGED <<orphan, lock, queue, outcome, failed>>

(* ... the temporary file is deleted, or left ... *)
Discard(p) ==
    /\ At(p, "discarding")
    /\ Goto(p, IF marked[p] THEN "dropping" ELSE "releasing")
    /\ UNCHANGED <<target, orphan, lock, queue, outcome, write>>

(* ... and so is a backup that could not be put back. *)
Drop(p) ==
    /\ At(p, "dropping")
    /\ Goto(p, "releasing")
    /\ \/ backup' = [backup EXCEPT ![p] = Absent]
       \/ "unlink" \in Faults /\ UNCHANGED backup
    /\ UNCHANGED <<target, orphan, lock, queue, outcome, marked, failed>>

(* The temporary files of a write that is over stay where they are. *)
Leave(p) ==
    /\ orphan' = IF target = Absent /\ backup[p] # Absent THEN backup[p] ELSE orphan
    /\ backup' = [backup EXCEPT ![p] = Absent]
    /\ marked' = [marked EXCEPT ![p] = FALSE]
    /\ failed' = [failed EXCEPT ![p] = FALSE]

(* Mutant: the catch block does not throw the error again. *)
ReleaseSwallows(p) ==
    /\ At(p, "releasing")
    /\ lock' = Free \/ ("release" \in Faults /\ UNCHANGED lock)
    /\ Settle(p, "written")
    /\ Leave(p)
    /\ UNCHANGED target

(* The lock is released, or is left to grow stale; the promise settles. *)
Release(p) ==
    /\ At(p, "releasing")
    /\ lock' = Free \/ ("release" \in Faults /\ UNCHANGED lock)
    /\ Settle(p, IF failed[p] THEN "failed" ELSE "written")
    /\ Leave(p)
    /\ UNCHANGED target

(* The process ends; its lock file stays. *)
Crash(p) ==
    /\ "crash" \in Faults
    /\ Leave(p)
    /\ queue' = [queue EXCEPT ![p] = <<>>]
    /\ pc' = [pc EXCEPT ![p] = "idle"]
    /\ outcome' = [outcome EXCEPT ![p] = "none"]
    /\ UNCHANGED <<target, lock>>

Run(p) ==
    \/ Lock(p) \/ Refused(p)
    \/ Stream(p) \/ Access(p) \/ BackUp(p) \/ Commit(p) \/ Tidy(p)
    \/ Rollback(p) \/ Discard(p) \/ Drop(p) \/ Release(p)

Next == \E p \in Procs : (\E v \in Contents : Call(p, v)) \/ Run(p) \/ Crash(p)

Spec == Init /\ [][Next]_vars

(* An operation on the file system ends, and the retries for a lock do. *)
FairSpec == Spec /\ \A p \in Procs : WF_vars(Run(p))
-----------------------------------------------------------------------------
(* Every variable has its type, and only a write in the queue is under way. *)
TypeOK ==
    /\ target \in File /\ orphan \in File
    /\ backup \in [Procs -> File]
    /\ lock \in Procs \cup {Free}
    /\ queue \in [Procs -> Seq(Contents)]
    /\ pc \in [Procs -> States]
    /\ \A p \in Procs : pc[p] # "idle" => queue[p] # <<>>
    /\ marked \in [Procs -> BOOLEAN] /\ failed \in [Procs -> BOOLEAN]
    /\ outcome \in [Procs -> {"none", "written", "failed"}]

(* What can be recovered: the file, or else the backup that holds what it held. *)
Recoverable ==
    IF target # Absent THEN target
    ELSE IF \E p \in Procs : backup[p] # Absent
         THEN backup[CHOOSE p \in Procs : backup[p] # Absent]
         ELSE orphan

Committed == [p \in Procs |-> pc[p] \in {"tidying", "releasing"} /\ ~failed[p]]

(* safeWriteJson is an atomic write of what can be recovered, through failures of any one operation
   and crashes: never half old, half new, never neither, and a write that is reported failed has
   changed nothing, while one that is reported written has taken effect at one moment. *)
Register == INSTANCE AtomicFile WITH value <- Recoverable, done <- Committed
WritesAreAtomic == Register!Spec

(* Readers, who take no lock, find the file again: what has been written is absent for the time of
   a write only, unless a process ends between the renames. *)
FileReturns == Recoverable # Absent ~> target # Absent \/ orphan # Absent

(* Once a process makes no more calls all its writes settle: none waits for ever for the one before
   it, for the lock of a process that has ended, or for the errors of its own clean-up. *)
EveryWriteSettles ==
    \A p \in Procs :
        <>[][Len(queue'[p]) <= Len(queue[p])]_vars => <>[](queue[p] = <<>>)
=============================================================================
