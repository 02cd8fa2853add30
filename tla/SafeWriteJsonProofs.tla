------------------------- MODULE SafeWriteJsonProofs -------------------------
(* Theorems about SafeWriteJson, for any processes, contents and bound; the *)
(* atomicity of writes is for any failures but those of the rollback.       *)
EXTENDS SafeWriteJson, SequenceTheorems, TLAPS

LEMMA QueueFacts ==
    ASSUME NEW q \in Seq(Contents)
    PROVE  /\ \A v \in Contents : Append(q, v) \in Seq(Contents) /\ Append(q, v) # <<>>
           /\ q # <<>> => Head(q) \in Contents /\ Tail(q) \in Seq(Contents)
BY HeadTailProperties, AppendProperties

(* What the steps of one process have in common. *)
LEMMA QueueUpdate ==
    ASSUME TypeOK, NEW p \in Procs, NEW q \in Seq(Contents),
           queue' = [queue EXCEPT ![p] = q]
    PROVE  queue' \in [Procs -> Seq(Contents)]
BY DEF TypeOK

LEMMA LeaveType ==
    ASSUME TypeOK, NEW p \in Procs, Leave(p)
    PROVE  /\ orphan' \in File /\ backup' \in [Procs -> File]
           /\ marked' \in [Procs -> BOOLEAN] /\ failed' \in [Procs -> BOOLEAN]
BY DEF TypeOK, Leave, File

LEMMA SettleType ==
    ASSUME TypeOK, NEW p \in Procs, queue[p] # <<>>,
           NEW how \in {"written", "failed"}, Settle(p, how)
    PROVE  /\ queue' \in [Procs -> Seq(Contents)] /\ pc' \in [Procs -> States]
           /\ \A q \in Procs : pc'[q] # "idle" => queue'[q] # <<>>
           /\ outcome' \in [Procs -> {"none", "written", "failed"}]
<1>1. queue[p] \in Seq(Contents)
  BY DEF TypeOK
<1>2. queue' \in [Procs -> Seq(Contents)]
  BY <1>1, QueueFacts, QueueUpdate DEF Settle
<1>3. pc' \in [Procs -> States] /\ pc'[p] = "idle"
  BY DEF TypeOK, Settle, States
<1>4. \A q \in Procs : q # p => pc'[q] = pc[q] /\ queue'[q] = queue[q]
  BY DEF TypeOK, Settle
<1>5. outcome' \in [Procs -> {"none", "written", "failed"}]
  BY DEF TypeOK, Settle
<1> QED BY <1>2, <1>3, <1>4, <1>5 DEF TypeOK

LEMMA GotoType ==
    ASSUME TypeOK, NEW p \in Procs, queue[p] # <<>>, UNCHANGED queue,
           NEW state \in States, Goto(p, state)
    PROVE  /\ pc' \in [Procs -> States]
           /\ \A q \in Procs : pc'[q] # "idle" => queue'[q] # <<>>
BY DEF TypeOK, Goto

LEMMA StateNames == \A state \in Inside : state \in States /\ state # "idle"
BY DEF Inside, States

-----------------------------------------------------------------------------
LEMMA InitType == Init => TypeOK
<1> SUFFICES ASSUME Init PROVE TypeOK
  OBVIOUS
<1>1. <<>> \in Seq(Contents)
  OBVIOUS
<1> QED BY <1>1 DEF Init, TypeOK, File, States

LEMMA StepType == TypeOK /\ [Next]_vars => TypeOK'
<1> SUFFICES ASSUME TypeOK, [Next]_vars PROVE TypeOK'
  OBVIOUS
<1>u. CASE UNCHANGED vars
  BY <1>u DEF vars, TypeOK
<1>1. ASSUME NEW p \in Procs, NEW v \in Contents, Call(p, v) PROVE TypeOK'
  <2>1. queue[p] \in Seq(Contents)
    BY DEF TypeOK
  <2>2. queue' = [queue EXCEPT ![p] = Append(queue[p], v)]
    BY <1>1 DEF Call
  <2>3. queue' \in [Procs -> Seq(Contents)]
    BY <2>1, <2>2, QueueFacts, QueueUpdate
  <2>4. \A q \in Procs : queue[q] # <<>> => queue'[q] # <<>>
    BY <2>1, <2>2, QueueFacts DEF TypeOK
  <2> QED BY <1>1, <2>3, <2>4 DEF TypeOK, Call, write
<1>2. ASSUME NEW p \in Procs, Lock(p) PROVE TypeOK'
  <2>1. /\ pc' \in [Procs -> States]
        /\ \A q \in Procs : pc'[q] # "idle" => queue'[q] # <<>>
    BY <1>2, GotoType, StateNames DEF Lock, At, Inside
  <2> QED BY <1>2, <2>1 DEF TypeOK, Lock, write
<1>3. ASSUME NEW p \in Procs, Refused(p) PROVE TypeOK'
  BY <1>3, SettleType DEF TypeOK, Refused, At, write
<1>t. ASSUME NEW p \in Procs, NEW op, queue[p] # <<>>, Throw(p, op), UNCHANGED marked PROVE TypeOK'
  <2>1. /\ pc' \in [Procs -> States]
        /\ \A q \in Procs : pc'[q] # "idle" => queue'[q] # <<>>
    BY <1>t, GotoType, StateNames DEF Throw, Inside
  <2> QED BY <1>t, <2>1 DEF TypeOK, Throw
<1>g. ASSUME NEW p \in Procs, queue[p] # <<>>, NEW state \in Inside, Goto(p, state),
             UNCHANGED <<lock, queue, outcome, failed>>,
             target' \in File, orphan' \in File, backup' \in [Procs -> File],
             marked' \in [Procs -> BOOLEAN]
      PROVE  TypeOK'
  <2>1. /\ pc' \in [Procs -> States]
        /\ \A q \in Procs : pc'[q] # "idle" => queue'[q] # <<>>
    BY <1>g, GotoType, StateNames
  <2> QED BY <1>g, <2>1 DEF TypeOK
<1>4. ASSUME NEW p \in Procs, Stream(p) PROVE TypeOK'
  BY <1>4, <1>t, <1>g DEF Stream, At, Inside, write, TypeOK
<1>5. ASSUME NEW p \in Procs, Access(p) PROVE TypeOK'
  BY <1>5, <1>t, <1>g DEF Access, At, Inside, TypeOK
<1>6. ASSUME NEW p \in Procs, BackUp(p) PROVE TypeOK'
  <2>1. CASE Throw(p, "backup") /\ UNCHANGED marked
    BY <1>6, <2>1, <1>t DEF BackUp, At
  <2>2. CASE /\ backup' = [backup EXCEPT ![p] = target]
             /\ target' = Absent
             /\ Goto(p, "committing")
             /\ UNCHANGED <<orphan, lock, queue, outcome, marked, failed>>
    BY <1>6, <2>2, <1>g DEF BackUp, At, Inside, TypeOK, File
  <2> QED BY <1>6, <2>1, <2>2 DEF BackUp
<1>7. ASSUME NEW p \in Procs, Commit(p) PROVE TypeOK'
  <2>1. CASE Throw(p, "commit") /\ UNCHANGED marked
    BY <1>7, <2>1, <1>t DEF Commit, At
  <2>2. CASE /\ target' = Head(queue[p])
             /\ orphan' = Absent
             /\ Goto(p, IF marked[p] THEN "tidying" ELSE "releasing")
             /\ UNCHANGED <<lock, queue, outcome, write>>
    <3>1. queue[p] # <<>> /\ Head(queue[p]) \in Contents
      BY <1>7, QueueFacts DEF Commit, At, TypeOK
    <3> QED BY <2>2, <3>1, <1>g DEF Inside, TypeOK, File, write
  <2> QED BY <1>7, <2>1, <2>2 DEF Commit
<1>8. ASSUME NEW p \in Procs, Tidy(p) PROVE TypeOK'
  BY <1>8, <1>g DEF Tidy, At, Inside, TypeOK, File
<1>9. ASSUME NEW p \in Procs, Rollback(p) PROVE TypeOK'
  <2>1. /\ target' \in File /\ backup' \in [Procs -> File]
        /\ marked' \in [Procs -> BOOLEAN]
    BY <1>9 DEF Rollback, TypeOK, File
  <2>2. /\ Goto(p, "discarding") /\ queue[p] # <<>>
        /\ UNCHANGED <<orphan, lock, queue, outcome, failed>>
    BY <1>9 DEF Rollback, At
  <2> QED BY <2>1, <2>2, <1>g DEF Inside, TypeOK
<1>10. ASSUME NEW p \in Procs, Discard(p) PROVE TypeOK'
  BY <1>10, <1>g DEF Discard, At, Inside, TypeOK, write
<1>11. ASSUME NEW p \in Procs, Drop(p) PROVE TypeOK'
  BY <1>11, <1>g DEF Drop, At, Inside, TypeOK, File
<1>12. ASSUME NEW p \in Procs, Release(p) PROVE TypeOK'
  <2>1. PICK how \in {"written", "failed"} : Settle(p, how)
    BY <1>12 DEF Release
  <2>2. queue[p] # <<>> /\ Leave(p) /\ target' = target /\ lock' \in Procs \cup {Free}
    BY <1>12 DEF Release, At, TypeOK
  <2> QED BY <2>1, <2>2, SettleType, LeaveType DEF TypeOK
<1>13. ASSUME NEW p \in Procs, Crash(p) PROVE TypeOK'
  <2>0. <<>> \in Seq(Contents) /\ queue' = [queue EXCEPT ![p] = <<>>]
    BY <1>13 DEF Crash
  <2>1. queue' \in [Procs -> Seq(Contents)]
    BY <2>0, QueueUpdate
  <2>2. pc' \in [Procs -> States] /\ outcome' \in [Procs -> {"none", "written", "failed"}]
    BY <1>13 DEF Crash, TypeOK, States
  <2>3. \A q \in Procs : pc'[q] # "idle" => queue'[q] # <<>>
    BY <1>13 DEF Crash, TypeOK
  <2>4. Leave(p) /\ UNCHANGED <<target, lock>>
    BY <1>13 DEF Crash
  <2> QED BY <2>1, <2>2, <2>3, <2>4, LeaveType DEF TypeOK
<1> QED BY <1>u, <1>1, <1>2, <1>3, <1>4, <1>5, <1>6, <1>7, <1>8, <1>9, <1>10, <1>11, <1>12, <1>13
        DEF Next, Run

(* Every reachable state is well-typed, whatever fails, and only a write in a process' queue is
   under way (safeWriteJson awaits it before it lets the next one start). *)
THEOREM TypeCorrect == Spec => []TypeOK
BY InitType, StepType, PTL DEF Spec
-----------------------------------------------------------------------------
(***************************************************************************)
(* The inductive invariant.  The lock lets one process at a time past      *)
(* "idle", so there is at most one backup that counts; it holds the        *)
(* contents of the file as long as the file is not there, and an orphan    *)
(* does so when there is no such backup.                                   *)
(***************************************************************************)
Exclusive == \A p \in Procs : pc[p] # "idle" => lock = p

Stage(p) ==
    /\ pc[p] \in {"idle", "streaming", "checking"} => ~failed[p]
    /\ pc[p] = "moving" => target # Absent /\ marked[p] /\ ~failed[p]
    /\ pc[p] = "committing" => target = Absent /\ ~failed[p]
    /\ pc[p] = "tidying" => target # Absent /\ ~failed[p]
    /\ pc[p] \in {"undoing", "discarding", "dropping"} => failed[p]
    /\ pc[p] = "undoing" /\ backup[p] # Absent => target = Absent
    /\ pc[p] = "releasing" /\ backup[p] # Absent => target # Absent
    /\ backup[p] # Absent =>
          /\ pc[p] \in {"committing", "tidying", "undoing", "releasing"}
          /\ marked[p]
          /\ orphan = Absent

OrphanNeeded == target # Absent => orphan = Absent

Inv == TypeOK /\ Exclusive /\ OrphanNeeded /\ \A p \in Procs : Stage(p)

LEMMA InitInv == Init => Inv
<1> SUFFICES ASSUME Init PROVE Inv
  OBVIOUS
<1>1. TypeOK
  BY InitType
<1>2. Exclusive /\ OrphanNeeded /\ \A p \in Procs : Stage(p)
  BY DEF Init, Exclusive, OrphanNeeded, Stage
<1> QED BY <1>1, <1>2 DEF Inv

(* While one process is past "idle" the others have nothing under way. *)
LEMMA OthersIdle ==
    ASSUME Inv, NEW p \in Procs, pc[p] # "idle", NEW q \in Procs, q # p
    PROVE  pc[q] = "idle" /\ backup[q] = Absent /\ ~failed[q]
BY DEF Inv, Exclusive, Stage

(* A step of the process that holds the lock concerns its own stage only. *)
LEMMA StageStep ==
    ASSUME Inv, TypeOK', NEW p \in Procs, pc[p] # "idle",
           pc' = [pc EXCEPT ![p] = pc'[p]],
           backup' = [backup EXCEPT ![p] = backup'[p]],
           failed' = [failed EXCEPT ![p] = failed'[p]],
           pc'[p] # "idle" => UNCHANGED lock,
           OrphanNeeded', Stage(p)'
    PROVE  Inv'
<1>1. \A q \in Procs : q # p => /\ pc'[q] = "idle" /\ backup'[q] = Absent /\ ~failed'[q]
  BY OthersIdle DEF Inv, TypeOK
<1>2. Exclusive'
  BY <1>1 DEF Exclusive, Inv
<1>3. \A q \in Procs : q # p => Stage(q)'
  BY <1>1 DEF Stage
<1> QED BY <1>2, <1>3 DEF Inv

LEMMA StepInv ==
    ASSUME "rollback" \notin Faults, Inv, [Next]_vars
    PROVE  Inv'
<1>t. TypeOK /\ TypeOK' /\ Exclusive /\ OrphanNeeded /\ Absent \notin Contents
  BY StepType, WriteAssumption DEF Inv
<1>s. \A p \in Procs : Stage(p)
  BY DEF Inv
<1>u. CASE UNCHANGED vars
  BY <1>u, <1>t, <1>s DEF vars, Inv, Exclusive, OrphanNeeded, Stage
<1>1. ASSUME NEW p \in Procs, NEW v \in Contents, Call(p, v) PROVE Inv'
  BY <1>1, <1>t, <1>s DEF Call, write, Inv, Exclusive, OrphanNeeded, Stage
<1>2. ASSUME NEW p \in Procs, Lock(p) PROVE Inv'
  <2>1. \A q \in Procs : pc[q] = "idle"
    BY <1>2, <1>t, WriteAssumption DEF Lock, At, Exclusive
  <2>2. /\ lock' = p /\ pc' = [pc EXCEPT ![p] = "streaming"]
        /\ UNCHANGED <<target, orphan, backup, marked, failed>>
    BY <1>2 DEF Lock, Goto, write
  <2>3. Exclusive' /\ OrphanNeeded'
    BY <2>1, <2>2, <1>t DEF TypeOK, Exclusive, OrphanNeeded
  <2>4. \A q \in Procs : Stage(q)'
    BY <2>1, <2>2, <1>t, <1>s DEF TypeOK, Stage
  <2> QED BY <2>3, <2>4, <1>t DEF Inv
<1>3. ASSUME NEW p \in Procs, Refused(p) PROVE Inv'
  <2>1. UNCHANGED <<pc, lock, target, orphan, backup, marked, failed>>
    BY <1>3, <1>t DEF Refused, At, Settle, write, TypeOK
  <2> QED BY <2>1, <1>t, <1>s DEF Inv, Exclusive, OrphanNeeded, Stage
<1>4. ASSUME NEW p \in Procs, Throw(p, "stream") \/ Throw(p, "access") \/ Throw(p, "backup") \/ Throw(p, "commit"),
             UNCHANGED marked, pc[p] \in {"streaming", "checking", "moving", "committing"}
      PROVE Inv'
  <2>1. /\ pc' = [pc EXCEPT ![p] = "undoing"]
        /\ failed' = [failed EXCEPT ![p] = TRUE]
        /\ UNCHANGED <<target, backup, orphan, lock>>
    BY <1>4 DEF Throw, Goto
  <2>2. Stage(p)' /\ OrphanNeeded'
    BY <2>1, <1>4, <1>t, <1>s DEF TypeOK, Stage, OrphanNeeded
  <2> QED BY <2>1, <2>2, <1>4, <1>t, StageStep DEF TypeOK
<1>5. ASSUME NEW p \in Procs, Stream(p) PROVE Inv'
  <2>1. CASE Throw(p, "stream") /\ UNCHANGED marked
    BY <2>1, <1>4, <1>5 DEF Stream, At
  <2>2. CASE Goto(p, "checking") /\ UNCHANGED <<target, orphan, lock, queue, outcome, write>>
    <3>1. Stage(p)' /\ OrphanNeeded'
      BY <2>2, <1>5, <1>t, <1>s DEF TypeOK, Stage, OrphanNeeded, Goto, write, Stream, At
    <3> QED BY <2>2, <3>1, <1>5, <1>t, StageStep DEF TypeOK, Goto, write, Stream, At
  <2> QED BY <1>5, <2>1, <2>2 DEF Stream
<1>6. ASSUME NEW p \in Procs, Access(p) PROVE Inv'
  <2>1. CASE Throw(p, "access") /\ UNCHANGED marked
    BY <2>1, <1>4, <1>6 DEF Access, At
  <2>2. CASE /\ Goto(p, IF target = Absent THEN "committing" ELSE "moving")
             /\ marked' = [marked EXCEPT ![p] = target # Absent]
             /\ UNCHANGED <<target, orphan, lock, queue, outcome, backup, failed>>
    <3>1. Stage(p)' /\ OrphanNeeded'
      BY <2>2, <1>6, <1>t, <1>s DEF TypeOK, Stage, OrphanNeeded, Goto, Access, At
    <3> QED BY <2>2, <3>1, <1>6, <1>t, StageStep DEF TypeOK, Goto, Access, At
  <2> QED BY <1>6, <2>1, <2>2 DEF Access
<1>7. ASSUME NEW p \in Procs, BackUp(p) PROVE Inv'
  <2>1. CASE Throw(p, "backup") /\ UNCHANGED marked
    BY <2>1, <1>4, <1>7 DEF BackUp, At
  <2>2. CASE /\ backup' = [backup EXCEPT ![p] = target]
             /\ target' = Absent
             /\ Goto(p, "committing")
             /\ UNCHANGED <<orphan, lock, queue, outcome, marked, failed>>
    <3>1. Stage(p)' /\ OrphanNeeded'
      BY <2>2, <1>7, <1>t, <1>s DEF TypeOK, Stage, OrphanNeeded, Goto, BackUp, At
    <3> QED BY <2>2, <3>1, <1>7, <1>t, StageStep DEF TypeOK, Goto, BackUp, At
  <2> QED BY <1>7, <2>1, <2>2 DEF BackUp
<1>8. ASSUME NEW p \in Procs, Commit(p) PROVE Inv'
  <2>1. CASE Throw(p, "commit") /\ UNCHANGED marked
    BY <2>1, <1>4, <1>8 DEF Commit, At
  <2>2. CASE /\ target' = Head(queue[p])
             /\ orphan' = Absent
             /\ Goto(p, IF marked[p] THEN "tidying" ELSE "releasing")
             /\ UNCHANGED <<lock, queue, outcome, write>>
    <3>0. target' # Absent
      BY <2>2, <1>8, <1>t, QueueFacts DEF Commit, At, TypeOK
    <3>1. Stage(p)' /\ OrphanNeeded'
      BY <2>2, <3>0, <1>8, <1>t, <1>s DEF TypeOK, Stage, OrphanNeeded, Goto, write, Commit, At
    <3> QED BY <2>2, <3>1, <1>8, <1>t, StageStep DEF TypeOK, Goto, write, Commit, At
  <2> QED BY <1>8, <2>1, <2>2 DEF Commit
<1>9. ASSUME NEW p \in Procs, Tidy(p) PROVE Inv'
  <2>1. Stage(p)' /\ OrphanNeeded'
    BY <1>9, <1>t, <1>s DEF TypeOK, Stage, OrphanNeeded, Goto, Tidy, At
  <2> QED BY <2>1, <1>9, <1>t, StageStep DEF TypeOK, Goto, Tidy, At
<1>10. ASSUME NEW p \in Procs, Rollback(p) PROVE Inv'
  <2>1. Stage(p)' /\ OrphanNeeded'
    BY <1>10, <1>t, <1>s DEF TypeOK, Stage, OrphanNeeded, Goto, Rollback, At
  <2> QED BY <2>1, <1>10, <1>t, StageStep DEF TypeOK, Goto, Rollback, At
<1>11. ASSUME NEW p \in Procs, Discard(p) PROVE Inv'
  <2>1. Stage(p)' /\ OrphanNeeded'
    BY <1>11, <1>t, <1>s DEF TypeOK, Stage, OrphanNeeded, Goto, write, Discard, At
  <2> QED BY <2>1, <1>11, <1>t, StageStep DEF TypeOK, Goto, write, Discard, At
<1>12. ASSUME NEW p \in Procs, Drop(p) PROVE Inv'
  <2>1. Stage(p)' /\ OrphanNeeded'
    BY <1>12, <1>t, <1>s DEF TypeOK, Stage, OrphanNeeded, Goto, Drop, At
  <2> QED BY <2>1, <1>12, <1>t, StageStep DEF TypeOK, Goto, Drop, At
<1>13. ASSUME NEW p \in Procs, Release(p) PROVE Inv'
  <2>1. /\ pc[p] = "releasing" /\ pc' = [pc EXCEPT ![p] = "idle"] /\ UNCHANGED target
        /\ orphan' = IF target = Absent /\ backup[p] # Absent THEN backup[p] ELSE orphan
        /\ backup' = [backup EXCEPT ![p] = Absent] /\ failed' = [failed EXCEPT ![p] = FALSE]
    BY <1>13 DEF Release, At, Settle, Leave
  <2>2. Stage(p)' /\ OrphanNeeded'
    BY <2>1, <1>t DEF TypeOK, Stage, OrphanNeeded
  <2> QED BY <2>1, <2>2, <1>t, StageStep DEF TypeOK
<1>14. ASSUME NEW p \in Procs, Crash(p) PROVE Inv'
  <2>1. /\ pc' = [pc EXCEPT ![p] = "idle"] /\ UNCHANGED <<target, lock>>
        /\ orphan' = IF target = Absent /\ backup[p] # Absent THEN backup[p] ELSE orphan
        /\ backup' = [backup EXCEPT ![p] = Absent] /\ failed' = [failed EXCEPT ![p] = FALSE]
        /\ marked' = [marked EXCEPT ![p] = FALSE]
    BY <1>14 DEF Crash, Leave
  <2>2. Stage(p)' /\ OrphanNeeded'
    BY <2>1, <1>t DEF TypeOK, Stage, OrphanNeeded
  <2>3. CASE pc[p] # "idle"
    BY <2>1, <2>2, <2>3, <1>t, StageStep DEF TypeOK
  <2>4. CASE pc[p] = "idle"
    <3>0. backup[p] = Absent /\ failed[p] = FALSE
      BY <2>4, <1>t, <1>s DEF TypeOK, Stage
    <3>a. pc' = pc
      BY <2>1, <2>4, <1>t DEF TypeOK
    <3>b. backup' = backup
      BY <2>1, <3>0, <1>t DEF TypeOK
    <3>c. failed' = failed
      BY <2>1, <3>0, <1>t DEF TypeOK
    <3>d. orphan' = orphan /\ UNCHANGED <<lock, target>>
      BY <2>1, <3>0
    <3>1. UNCHANGED <<pc, lock, target, orphan, backup, failed>>
      BY <3>a, <3>b, <3>c, <3>d
    <3>2. \A q \in Procs : q # p => marked'[q] = marked[q]
      BY <2>1, <1>t DEF TypeOK
    <3>3. \A q \in Procs : q # p => Stage(q)'
      BY <3>1, <3>2, <1>s DEF Stage
    <3> QED BY <3>1, <3>3, <2>2, <1>t DEF Inv, Exclusive
  <2> QED BY <2>3, <2>4
<1> QED BY <1>u, <1>1, <1>2, <1>3, <1>5, <1>6, <1>7, <1>8, <1>9, <1>10, <1>11, <1>12, <1>13, <1>14
        DEF Next, Run
-----------------------------------------------------------------------------
(* The backup of the one process that has one is what CHOOSE finds. *)
LEMMA RecoverableIs ==
    ASSUME Inv, NEW p \in Procs, \A q \in Procs : q # p => backup[q] = Absent
    PROVE  Recoverable = IF target # Absent THEN target
                         ELSE IF backup[p] # Absent THEN backup[p] ELSE orphan
<1>1. CASE backup[p] = Absent
  BY <1>1 DEF Recoverable
<1>2. CASE backup[p] # Absent
  <2>1. (CHOOSE q \in Procs : backup[q] # Absent) = p
    BY <1>2
  <2> QED BY <1>2, <2>1 DEF Recoverable
<1> QED BY <1>1, <1>2

(* The others have no backup while p is past "idle". *)
LEMMA HolderRecovers ==
    ASSUME Inv, NEW p \in Procs, pc[p] # "idle"
    PROVE  Recoverable = IF target # Absent THEN target
                         ELSE IF backup[p] # Absent THEN backup[p] ELSE orphan
BY OthersIdle, RecoverableIs

LEMMA InitAtomic == Init => Register!Init
<1> SUFFICES ASSUME Init PROVE Register!Init
  OBVIOUS
<1>1. \A p \in Procs : backup[p] = Absent /\ pc[p] = "idle"
  BY DEF Init
<1>2. Recoverable \in Contents \cup {Absent}
  BY <1>1 DEF Init, Recoverable, File
<1>3. Committed = [p \in Procs |-> FALSE]
  BY <1>1 DEF Committed
<1> QED BY <1>2, <1>3 DEF Init, Register!Init
(* The same after a step of p that leaves the backups of the others alone. *)
LEMMA HolderWillRecover ==
    ASSUME Inv, NEW p \in Procs, pc[p] # "idle",
           backup' = [backup EXCEPT ![p] = backup'[p]]
    PROVE  Recoverable' = IF target' # Absent THEN target'
                          ELSE IF backup'[p] # Absent THEN backup'[p] ELSE orphan'
<1>0. \A q \in Procs : q # p => backup'[q] = Absent
  BY OthersIdle DEF Inv, TypeOK
<1>1. CASE backup'[p] = Absent
  BY <1>0, <1>1 DEF Recoverable
<1>2. CASE backup'[p] # Absent
  <2>1. (CHOOSE q \in Procs : backup'[q] # Absent) = p
    BY <1>0, <1>2
  <2> QED BY <1>2, <2>1 DEF Recoverable
<1> QED BY <1>1, <1>2

(* Whether a process' write has taken effect depends on its own step only. *)
LEMMA CommittedStep ==
    ASSUME Inv, NEW p \in Procs,
           pc' = [pc EXCEPT ![p] = pc'[p]],
           failed' = [failed EXCEPT ![p] = failed'[p]]
    PROVE  Committed' = [Committed EXCEPT ![p] = pc'[p] \in {"tidying", "releasing"} /\ ~failed'[p]]
<1>1. \A q \in Procs : q # p => pc'[q] = pc[q] /\ failed'[q] = failed[q]
  BY DEF Inv, TypeOK
<1> QED BY <1>1 DEF Committed

(* A step that moves no contents and commits nothing is none of the register's. *)
LEMMA Stutter ==
    ASSUME Inv, NEW p \in Procs, pc[p] # "idle",
           pc' = [pc EXCEPT ![p] = pc'[p]],
           backup' = [backup EXCEPT ![p] = backup'[p]],
           failed' = [failed EXCEPT ![p] = failed'[p]],
           UNCHANGED <<queue, outcome>>,
           (IF target' # Absent THEN target'
            ELSE IF backup'[p] # Absent THEN backup'[p] ELSE orphan') = Recoverable,
           (pc'[p] \in {"tidying", "releasing"} /\ ~failed'[p])
               <=> (pc[p] \in {"tidying", "releasing"} /\ ~failed[p])
    PROVE  UNCHANGED Register!vars
<1>1. Recoverable' = Recoverable
  BY HolderWillRecover
<1>2. \A q \in Procs : Committed'[q] = Committed[q]
  BY DEF Committed, Inv, TypeOK
<1>3. Committed' = Committed
  BY <1>2 DEF Committed
<1> QED BY <1>1, <1>3 DEF Register!vars

LEMMA StepAtomic ==
    ASSUME "rollback" \notin Faults, Inv, [Next]_vars
    PROVE  [Register!Next]_(Register!vars)
<1> USE DEF Register!Next, Register!vars
<1>t. TypeOK /\ (\A p \in Procs : Stage(p)) /\ Absent \notin Contents
  BY WriteAssumption DEF Inv
<1>u. CASE UNCHANGED vars
  BY <1>u DEF vars, Recoverable, Committed
<1>1. ASSUME NEW p \in Procs, NEW v \in Contents, Call(p, v) PROVE Register!Call(p, v)
  BY <1>1 DEF Call, write, Register!Call, Recoverable, Committed
<1>2. ASSUME NEW p \in Procs, Lock(p) PROVE UNCHANGED Register!vars
  <2>1. /\ pc[p] = "idle" /\ pc' = [pc EXCEPT ![p] = "streaming"]
        /\ UNCHANGED <<target, orphan, queue, outcome, backup, failed>>
    BY <1>2 DEF Lock, At, Goto, write
  <2>2. Recoverable' = Recoverable
    BY <2>1 DEF Recoverable
  <2>3. \A q \in Procs : Committed'[q] = Committed[q]
    BY <2>1, <1>t DEF Committed, TypeOK
  <2>4. Committed' = Committed
    BY <2>3 DEF Committed
  <2> QED BY <2>1, <2>2, <2>4
<1>3. ASSUME NEW p \in Procs, Refused(p) PROVE Register!Settle(p)
  <2>1. /\ pc[p] = "idle" /\ queue[p] # <<>>
        /\ queue' = [queue EXCEPT ![p] = Tail(@)]
        /\ pc' = [pc EXCEPT ![p] = "idle"]
        /\ outcome' = [outcome EXCEPT ![p] = "failed"]
        /\ UNCHANGED <<target, orphan, backup, failed>>
    BY <1>3 DEF Refused, At, Settle, write
  <2>2. Recoverable' = Recoverable
    BY <2>1 DEF Recoverable
  <2>3. Committed[p] = FALSE /\ Committed' = [Committed EXCEPT ![p] = FALSE]
    BY <2>1, <1>t DEF Committed, TypeOK
  <2> QED BY <2>1, <2>2, <2>3 DEF Register!Settle
<1>4. ASSUME NEW p \in Procs, NEW op, Throw(p, op),
             pc[p] \in {"streaming", "checking", "moving", "committing"}
      PROVE  UNCHANGED Register!vars
  <2>1. /\ pc' = [pc EXCEPT ![p] = "undoing"] /\ failed' = [failed EXCEPT ![p] = TRUE]
        /\ UNCHANGED <<target, backup, orphan, queue, outcome>>
    BY <1>4 DEF Throw, Goto
  <2> QED BY <2>1, <1>4, <1>t, HolderRecovers, Stutter DEF TypeOK
<1>5. ASSUME NEW p \in Procs, Stream(p) PROVE UNCHANGED Register!vars
  <2>1. CASE Throw(p, "stream")
    BY <2>1, <1>4, <1>5 DEF Stream, At
  <2>2. CASE Goto(p, "checking") /\ UNCHANGED <<target, orphan, lock, queue, outcome, write>>
    BY <2>2, <1>5, <1>t, HolderRecovers, Stutter DEF TypeOK, Goto, write, Stream, At
  <2> QED BY <1>5, <2>1, <2>2 DEF Stream
<1>6. ASSUME NEW p \in Procs, Access(p) PROVE UNCHANGED Register!vars
  <2>1. CASE Throw(p, "access")
    BY <2>1, <1>4, <1>6 DEF Access, At
  <2>2. CASE /\ Goto(p, IF target = Absent THEN "committing" ELSE "moving")
             /\ UNCHANGED <<target, orphan, lock, queue, outcome, backup, failed>>
    BY <2>2, <1>6, <1>t, HolderRecovers, Stutter DEF TypeOK, Goto, Access, At
  <2> QED BY <1>6, <2>1, <2>2 DEF Access
<1>7. ASSUME NEW p \in Procs, BackUp(p) PROVE UNCHANGED Register!vars
  <2>1. CASE Throw(p, "backup")
    BY <2>1, <1>4, <1>7 DEF BackUp, At
  <2>2. CASE /\ backup' = [backup EXCEPT ![p] = target]
             /\ target' = Absent
             /\ Goto(p, "committing")
             /\ UNCHANGED <<orphan, lock, queue, outcome, marked, failed>>
    <3>1. pc[p] = "moving" /\ target # Absent
      BY <1>7, <1>t DEF BackUp, At, Stage
    <3> QED BY <2>2, <3>1, <1>t, HolderRecovers, Stutter DEF TypeOK, Goto
  <2> QED BY <1>7, <2>1, <2>2 DEF BackUp
<1>8. ASSUME NEW p \in Procs, Commit(p) PROVE UNCHANGED Register!vars \/ Register!Write(p)
  <2>1. CASE Throw(p, "commit")
    BY <2>1, <1>4, <1>8 DEF Commit, At
  <2>2. CASE /\ target' = Head(queue[p])
             /\ orphan' = Absent
             /\ Goto(p, IF marked[p] THEN "tidying" ELSE "releasing")
             /\ UNCHANGED <<lock, queue, outcome, write>>
    <3>1. pc[p] = "committing" /\ queue[p] # <<>> /\ Head(queue[p]) # Absent /\ failed[p] = FALSE
      BY <1>8, <1>t, QueueFacts DEF Commit, At, TypeOK, Stage
    <3>2. pc' = [pc EXCEPT ![p] = pc'[p]] /\ pc'[p] \in {"tidying", "releasing"}
      BY <2>2, <1>t DEF Goto, TypeOK
    <3>3. backup' = backup /\ failed' = failed
      BY <2>2 DEF write
    <3>4. Recoverable' = Head(queue[p])
      BY <2>2, <3>1 DEF Recoverable
    <3>5. Committed[p] = FALSE
      BY <3>1 DEF Committed
    <3>6. Committed' = [Committed EXCEPT ![p] = TRUE]
      BY <3>1, <3>2, <3>3, <1>t, CommittedStep DEF TypeOK
    <3> QED BY <2>2, <3>1, <3>4, <3>5, <3>6 DEF Register!Write
  <2> QED BY <1>8, <2>1, <2>2 DEF Commit
<1>9. ASSUME NEW p \in Procs, Tidy(p) PROVE UNCHANGED Register!vars
  <2>1. pc[p] = "tidying" /\ target # Absent
    BY <1>9, <1>t DEF Tidy, At, Stage
  <2> QED BY <2>1, <1>9, <1>t, HolderRecovers, Stutter DEF TypeOK, Goto, Tidy
<1>10. ASSUME NEW p \in Procs, Rollback(p) PROVE UNCHANGED Register!vars
  <2>1. pc[p] = "undoing" /\ failed[p] = TRUE /\ (backup[p] # Absent => target = Absent)
    BY <1>10, <1>t DEF Rollback, At, Stage, TypeOK
  <2> QED BY <2>1, <1>10, <1>t, HolderRecovers, Stutter DEF TypeOK, Goto, Rollback
<1>11. ASSUME NEW p \in Procs, Discard(p) PROVE UNCHANGED Register!vars
  <2>1. pc[p] = "discarding" /\ failed[p] = TRUE
    BY <1>11, <1>t DEF Discard, At, Stage, TypeOK
  <2> QED BY <2>1, <1>11, <1>t, HolderRecovers, Stutter DEF TypeOK, Goto, write, Discard
<1>12. ASSUME NEW p \in Procs, Drop(p) PROVE UNCHANGED Register!vars
  <2>1. pc[p] = "dropping" /\ failed[p] = TRUE /\ backup[p] = Absent
    BY <1>12, <1>t DEF Drop, At, Stage, TypeOK
  <2> QED BY <2>1, <1>12, <1>t, HolderRecovers, Stutter DEF TypeOK, Goto, Drop
<1>13. ASSUME NEW p \in Procs, Release(p) PROVE Register!Settle(p)
  <2>1. /\ pc[p] = "releasing" /\ queue[p] # <<>>
        /\ queue' = [queue EXCEPT ![p] = Tail(@)]
        /\ pc' = [pc EXCEPT ![p] = "idle"]
        /\ outcome' = [outcome EXCEPT ![p] = IF failed[p] THEN "failed" ELSE "written"]
        /\ orphan' = IF target = Absent /\ backup[p] # Absent THEN backup[p] ELSE orphan
        /\ backup' = [backup EXCEPT ![p] = Absent] /\ failed' = [failed EXCEPT ![p] = FALSE]
        /\ UNCHANGED target
    BY <1>13 DEF Release, At, Settle, Leave
  <2>2. backup[p] # Absent => target # Absent
    BY <2>1, <1>t DEF Stage
  <2>3. Recoverable' = Recoverable
    BY <2>1, <2>2, <1>t, HolderRecovers, HolderWillRecover DEF TypeOK
  <2>4. Committed[p] = ~failed[p]
    BY <2>1 DEF Committed
  <2>5. Committed' = [Committed EXCEPT ![p] = FALSE]
    BY <2>1, <1>t, CommittedStep DEF TypeOK
  <2>6. outcome' = [outcome EXCEPT ![p] = IF Committed[p] THEN "written" ELSE "failed"]
    BY <2>1, <2>4, <1>t DEF TypeOK
  <2> QED BY <2>1, <2>3, <2>5, <2>6 DEF Register!Settle
<1>14. ASSUME NEW p \in Procs, Crash(p) PROVE Register!Crash(p)
  <2>1. /\ queue' = [queue EXCEPT ![p] = <<>>]
        /\ pc' = [pc EXCEPT ![p] = "idle"]
        /\ outcome' = [outcome EXCEPT ![p] = "none"]
        /\ orphan' = IF target = Absent /\ backup[p] # Absent THEN backup[p] ELSE orphan
        /\ backup' = [backup EXCEPT ![p] = Absent] /\ failed' = [failed EXCEPT ![p] = FALSE]
        /\ UNCHANGED target
    BY <1>14 DEF Crash, Leave
  <2>2. CASE pc[p] # "idle"
    <3>0. backup'[p] = Absent /\ backup' = [backup EXCEPT ![p] = backup'[p]]
      BY <2>1, <1>t DEF TypeOK
    <3>a. Recoverable' = IF target' # Absent THEN target' ELSE orphan'
      BY <2>2, <3>0, HolderWillRecover
    <3>b. Recoverable = IF target # Absent THEN target
                        ELSE IF backup[p] # Absent THEN backup[p] ELSE orphan
      BY <2>2, HolderRecovers
    <3>1. Recoverable' = Recoverable
      BY <2>1, <3>a, <3>b
    <3> QED BY <2>1, <2>2, <3>1, <1>t, CommittedStep DEF TypeOK, Register!Crash
  <2>3. CASE pc[p] = "idle"
    <3>1. backup[p] = Absent
      BY <2>3, <1>t DEF Stage
    <3>2. backup' = backup /\ orphan' = orphan
      BY <2>1, <3>1, <1>t DEF TypeOK
    <3>3. Recoverable' = Recoverable
      BY <2>1, <3>2 DEF Recoverable
    <3> QED BY <2>1, <3>3, <1>t, CommittedStep DEF TypeOK, Register!Crash
  <2> QED BY <2>2, <2>3
<1> QED BY <1>u, <1>1, <1>2, <1>3, <1>5, <1>6, <1>7, <1>8, <1>9, <1>10, <1>11, <1>12, <1>13, <1>14
        DEF Next, Run

(* Whatever fails but a rollback, and whenever a process ends, safeWriteJson is an atomic write of
   what can be recovered: the file or the backup always holds one whole version, it changes in the
   commit rename only, and a write settles as written exactly if it has made that rename. *)
THEOREM AtomicWrites ==
    ASSUME "rollback" \notin Faults
    PROVE  Spec => WritesAreAtomic
<1>1. Init => Inv /\ Register!Init
  BY InitInv, InitAtomic
<1>2. Inv /\ [Next]_vars => Inv' /\ [Register!Next]_(Register!vars)
  BY StepInv, StepAtomic
<1> QED BY <1>1, <1>2, PTL DEF Spec, WritesAreAtomic, Register!Spec
=============================================================================
