--------------------------- MODULE TaskLoopProofs ---------------------------
(***************************************************************************)
(* Proofs about TaskLoop: its type invariant, and that with calls of       *)
(* cancelAndProcessQueuedMessages that do not overlap two agent loops of   *)
(* one task never run at once, and a user's message is dropped only with   *)
(* the work that carried it.                                               *)
(***************************************************************************)
EXTENDS TaskLoop, SequenceTheorems, TLAPS

(* A call under way carries a turn. *)
Carries == \A c \in Calls : calls[c].pc # "idle" => calls[c].message \in Turns

TInv == TypeOK /\ Carries

USE DEF LoopStates, CallStates

(* The records of the two kinds are what their fields say. *)
LEMMA LoopRecord ==
    ASSUME NEW pc \in LoopStates, NEW content \in SUBSET Turns, NEW add \in BOOLEAN
    PROVE  Loop(pc, content, add) \in LoopRecords
BY DEF Loop, LoopRecords

LEMMA LoopUpdate ==
    ASSUME loops \in [Loops -> LoopRecords], NEW l \in Loops, NEW r \in LoopRecords
    PROVE  [loops EXCEPT ![l] = r] \in [Loops -> LoopRecords]
OBVIOUS

LEMMA GotoType ==
    ASSUME loops \in [Loops -> LoopRecords], NEW l \in Loops, NEW pc \in LoopStates, Goto(l, pc)
    PROVE  loops' \in [Loops -> LoopRecords]
BY DEF Goto, LoopRecords

LEMMA EndedRecord == Ended \in LoopRecords
BY DEF Ended, LoopRecords

(* Ending a loop keeps the types, and every call's message. *)
LEMMA EndType ==
    ASSUME loops \in [Loops -> LoopRecords], current \in Loops \cup {NoLoop},
           calls \in [Calls -> CallRecords], Carries, NEW l \in Loops, End(l)
    PROVE  /\ loops' \in [Loops -> LoopRecords]
           /\ current' \in Loops \cup {NoLoop}
           /\ calls' \in [Calls -> CallRecords]
           /\ Carries'
<1>1. loops' \in [Loops -> LoopRecords]
  BY EndedRecord, LoopUpdate DEF End
<1>2. current' \in Loops \cup {NoLoop}
  BY DEF End
<1>3. ASSUME NEW c \in Calls
      PROVE  /\ calls'[c] \in CallRecords
             /\ calls'[c].pc # "idle" => calls'[c].message \in Turns
  <2>1. CASE calls[c].pc = "waiting" /\ current = l
    BY <2>1 DEF End, CallRecords, Carries
  <2>2. CASE ~(calls[c].pc = "waiting" /\ current = l)
    BY <2>2 DEF End, CallRecords, Carries
  <2> QED BY <2>1, <2>2
<1>4. calls' = [c \in Calls |-> calls'[c]]
  BY DEF End
<1> QED BY <1>1, <1>2, <1>3, <1>4 DEF Carries

(* A call takes the head of a queue of turns. *)
LEMMA InterruptType ==
    ASSUME calls \in [Calls -> CallRecords], Carries,
           NEW c \in Calls, NEW q \in Seq(Turns), Interrupt(c, q)
    PROVE  /\ abort' \in BOOLEAN /\ softCancel' \in BOOLEAN
           /\ queue' \in Seq(Turns)
           /\ calls' \in [Calls -> CallRecords]
           /\ Carries'
<1>1. Head(q) \in Turns /\ Tail(q) \in Seq(Turns)
  BY HeadTailProperties DEF Interrupt
<1>2. ASSUME NEW d \in Calls
      PROVE  /\ calls'[d] \in CallRecords
             /\ calls'[d].pc # "idle" => calls'[d].message \in Turns
  <2>1. CASE d = c
    BY <1>1, <2>1 DEF Interrupt, CallRecords
  <2>2. CASE d # c
    BY <2>2 DEF Interrupt, Carries
  <2> QED BY <2>1, <2>2
<1>3. calls' \in [Calls -> CallRecords]
  BY <1>2 DEF Interrupt
<1> QED BY <1>1, <1>2, <1>3 DEF Interrupt, Carries

-----------------------------------------------------------------------------
LEMMA TypeInit == Init => TInv
<1> SUFFICES ASSUME Init PROVE TInv
  OBVIOUS
<1>1. calls \in [Calls -> CallRecords] /\ Carries
  BY DEF Init, Idle, CallRecords, Carries
<1>3. Loop("starting", {}, TRUE) \in LoopRecords
  BY LoopRecord
<1>4. loops \in [Loops -> LoopRecords] /\ current \in Loops \cup {NoLoop} /\ resume \in {"none", "asked", "late"}
  BY <1>3, EndedRecord DEF Init
<1>5. queue \in Seq(Turns)
  BY DEF Init
<1>6. child \in BOOLEAN
  BY LoopAssumption DEF Init
<1> QED BY <1>1, <1>4, <1>5, <1>6 DEF Init, TInv, TypeOK

(* What is said of one call after its step. *)
LEMMA CallType ==
    ASSUME TInv, NEW c \in Calls, CallStep(c) PROVE TInv'
<1>1. CASE Persisted(c)
  <2>1. calls' \in [Calls -> CallRecords] /\ Carries'
    BY <1>1 DEF Persisted, TInv, TypeOK, CallRecords, Carries
  <2> QED BY <1>1, <2>1 DEF Persisted, TInv, TypeOK, mail, task
<1>2. CASE Restart(c)
  <2>1. calls' \in [Calls -> CallRecords] /\ Carries'
    BY <1>2 DEF Restart, TInv, TypeOK, CallRecords, Carries, Idle
  <2>2. PICK l \in Loops : /\ loops' = [loops EXCEPT ![l] = Loop("starting", {calls[c].message}, TRUE)]
                           /\ current' = l
    BY <1>2 DEF Restart
  <2>3. calls[c].message \in Turns
    BY <1>2 DEF Restart, TInv, Carries
  <2>4. Loop("starting", {calls[c].message}, TRUE) \in LoopRecords
    BY <2>3, LoopRecord
  <2>5. loops' \in [Loops -> LoopRecords]
    BY <2>2, <2>4, LoopUpdate DEF TInv, TypeOK
  <2> QED BY <1>2, <2>1, <2>2, <2>5 DEF Restart, TInv, TypeOK, flags, mail, task
<1> QED BY <1>1, <1>2 DEF CallStep

LEMMA UserType ==
    ASSUME TInv, User PROVE TInv'
<1>1. CASE SendNow
  <2>1. PICK c \in Calls : Interrupt(c, queue)
    BY <1>1 DEF SendNow
  <2>2. /\ abort' \in BOOLEAN /\ softCancel' \in BOOLEAN /\ queue' \in Seq(Turns)
        /\ calls' \in [Calls -> CallRecords] /\ Carries'
    BY <2>1, InterruptType DEF TInv, TypeOK
  <2> QED BY <1>1, <2>2 DEF SendNow, TInv, TypeOK, mail, task
<1>2. ASSUME NEW m \in Messages, QueueMessage(m) PROVE TInv'
  <2>1. Append(queue, m) \in Seq(Turns)
    BY AppendProperties DEF TInv, TypeOK, Turns
  <2>2. /\ abort' \in BOOLEAN /\ softCancel' \in BOOLEAN /\ queue' \in Seq(Turns)
        /\ calls' \in [Calls -> CallRecords] /\ Carries'
    <3>1. CASE ~abort
      BY <1>2, <2>1, <3>1 DEF QueueMessage, TInv, TypeOK, Carries
    <3>2. CASE abort
      <4>1. PICK c \in Calls : Interrupt(c, Append(queue, m))
        BY <1>2, <3>2 DEF QueueMessage
      <4> QED BY <2>1, <4>1, InterruptType DEF TInv, TypeOK
    <3> QED BY <3>1, <3>2
  <2> QED BY <1>2, <2>2 DEF QueueMessage, TInv, TypeOK, mail, task
<1>3. CASE Cancel
  <2>0. queue' = queue \/ queue' = <<>>
    BY <1>3, Zenon DEF Cancel, AbortTask
  <2>q. queue \in Seq(Turns) /\ <<>> \in Seq(Turns)
    BY DEF TInv, TypeOK
  <2>1. queue' \in Seq(Turns)
    BY <2>0, <2>q, Zenon
  <2>2. abort' \in BOOLEAN /\ abandoned' \in BOOLEAN /\ disposed' \in BOOLEAN
    BY <1>3, Zenon DEF Cancel, AbortTask, TInv, TypeOK
  <2>3. cancelling' \in {"no", "asked", "marked", "aborted", "replaced"}
    BY <1>3 DEF Cancel
  <2>4. UNCHANGED <<softCancel, loops, current, calls, heard, mail, sent, child, resume>>
    BY <1>3 DEF Cancel
  <2> QED BY <2>1, <2>2, <2>3, <2>4 DEF TInv, TypeOK, Carries, mail
<1>4. CASE Killed
  <2>1. queue' \in Seq(Turns)
    BY <1>4 DEF Killed, AbortTask, TInv, TypeOK
  <2> QED BY <1>4, <2>1 DEF Killed, AbortTask, TInv, TypeOK, Carries, mail
<1> QED BY <1>1, <1>2, <1>3, <1>4 DEF User

LEMMA DeliverType ==
    ASSUME TInv, WakeTurn \in Turns, NEW w \in Wakes, Deliver(w) PROVE TInv'
<1>1. CASE DeliverStore(w)
  BY <1>1 DEF DeliverStore, TInv, TypeOK, Carries, flags, task
<1>2. CASE DeliverWake(w)
  <2>1. Append(queue, WakeTurn) \in Seq(Turns)
    BY AppendProperties DEF TInv, TypeOK
  <2>2. /\ abort' \in BOOLEAN /\ softCancel' \in BOOLEAN /\ abandoned' \in BOOLEAN
        /\ queue' \in Seq(Turns)
        /\ calls' \in [Calls -> CallRecords] /\ Carries'
    <3>1. CASE UNCHANGED <<flags, queue, calls>>
      BY <3>1 DEF flags, TInv, TypeOK, Carries
    <3>2. CASE \E c \in Calls : Interrupt(c, Append(queue, WakeTurn)) /\ UNCHANGED abandoned
      <4>1. PICK c \in Calls : Interrupt(c, Append(queue, WakeTurn)) /\ UNCHANGED abandoned
        BY <3>2
      <4> QED BY <2>1, <4>1, InterruptType DEF TInv, TypeOK
    <3> QED BY <1>2, <3>1, <3>2 DEF DeliverWake
  <2> QED BY <1>2, <2>2 DEF DeliverWake, TInv, TypeOK, task
<1> QED BY <1>1, <1>2 DEF Deliver

(* A loop's step, in the part that is neither a flag nor the mail. *)
LEMMA LoopType ==
    ASSUME TInv, NEW l \in Loops, LoopStep(l)
    PROVE  /\ loops' \in [Loops -> LoopRecords]
           /\ current' \in Loops \cup {NoLoop}
           /\ calls' \in [Calls -> CallRecords] /\ Carries'
           /\ queue' \in Seq(Turns)
           /\ heard' \subseteq Turns
<1> DEFINE Same == UNCHANGED <<current, calls>>
<1>t. /\ loops \in [Loops -> LoopRecords] /\ current \in Loops \cup {NoLoop}
      /\ calls \in [Calls -> CallRecords] /\ Carries
      /\ queue \in Seq(Turns) /\ heard \subseteq Turns
  BY DEF TInv, TypeOK
<1>c. loops[l].content \subseteq Turns /\ loops[l] \in LoopRecords
  BY <1>t DEF LoopRecords
<1>q. ASSUME queue # <<>> PROVE Head(queue) \in Turns /\ Tail(queue) \in Seq(Turns)
  BY <1>t, <1>q, HeadTailProperties
<1>e. ASSUME End(l)
      PROVE  /\ loops' \in [Loops -> LoopRecords]
             /\ current' \in Loops \cup {NoLoop}
             /\ calls' \in [Calls -> CallRecords] /\ Carries'
  BY <1>t, <1>e, EndType
<1>s. ASSUME Same PROVE current' \in Loops \cup {NoLoop} /\ calls' \in [Calls -> CallRecords] /\ Carries'
  BY <1>t, <1>s DEF Carries
<1>g. ASSUME NEW pc \in LoopStates, Goto(l, pc) PROVE loops' \in [Loops -> LoopRecords]
  BY <1>t, <1>g, GotoType
<1>z. <<>> \in Seq(Turns)
  OBVIOUS
<1> HIDE DEF Same
<1>1. CASE Enter(l)
  BY <1>1, <1>t, <1>e, <1>s, <1>g DEF Enter, Same
<1>2. CASE Prepare(l)
  BY <1>2, <1>t, <1>c, <1>e, <1>s, <1>g DEF Prepare, Same
<1>3. CASE Streamed(l)
  <2>1. loops' \in [Loops -> LoopRecords]
    BY <1>3, <1>t, LoopRecord, LoopUpdate DEF Streamed
  <2> QED BY <1>3, <1>t, <1>s, <2>1 DEF Streamed, Same
<1>4. CASE StreamAborted(l)
  BY <1>4, <1>t, <1>e, <1>z DEF StreamAborted, AbortTask
<1>5. CASE StreamRetried(l)
  <2>a. PICK pc \in LoopStates : loops' = [loops EXCEPT ![l].pc = pc, ![l].add = FALSE]
    <3>1. PICK auto \in AutoApproval :
             loops' = [loops EXCEPT ![l].pc = IF auto THEN "backingoff" ELSE "preparing",
                                    ![l].add = FALSE]
      BY <1>5 DEF StreamRetried
    <3> QED BY <3>1
  <2>1. loops' \in [Loops -> LoopRecords]
    BY <2>a, <1>t DEF LoopRecords
  <2> QED BY <1>5, <1>t, <1>s, <2>1 DEF StreamRetried, Same
<1>6. CASE StreamFailed(l)
  BY <1>6, <1>t, <1>e, <1>z DEF StreamFailed, AbortTask
<1>7. CASE StreamEmpty(l)
  <2>a. PICK pc \in LoopStates : loops' = [loops EXCEPT ![l].pc = pc, ![l].add = TRUE]
    <3>1. PICK auto \in AutoApproval :
             loops' = [loops EXCEPT ![l].pc = IF auto THEN "preparing" ELSE "retrying",
                                    ![l].add = TRUE]
      BY <1>7 DEF StreamEmpty
    <3> QED BY <3>1
  <2>1. loops' \in [Loops -> LoopRecords]
    BY <2>a, <1>t DEF LoopRecords
  <2> QED BY <1>7, <1>t, <1>s, <2>1 DEF StreamEmpty, Same
<1>8. CASE RetryAnswered(l)
  <2>1. CASE loops' = [loops EXCEPT ![l].pc = "preparing", ![l].add = FALSE] /\ UNCHANGED <<queue, heard>>
    <3>1. loops' \in [Loops -> LoopRecords]
      BY <2>1, <1>t DEF LoopRecords
    <3> QED BY <1>8, <1>t, <1>s, <2>1, <3>1 DEF RetryAnswered, Same
  <2>2. CASE /\ heard' = heard \cup loops[l].content
             /\ loops' = [loops EXCEPT ![l] = Loop("preparing", {}, TRUE)]
             /\ UNCHANGED queue \/ (queue # <<>> /\ queue' = Tail(queue))
    <3>1. loops' \in [Loops -> LoopRecords]
      BY <2>2, <1>t, LoopRecord, LoopUpdate
    <3>2. queue' \in Seq(Turns)
      BY <2>2, <1>t, <1>q
    <3>3. current' \in Loops \cup {NoLoop} /\ calls' \in [Calls -> CallRecords] /\ Carries'
      BY <1>8, <1>s DEF RetryAnswered, Same
    <3> QED BY <1>t, <1>c, <2>2, <3>1, <3>2, <3>3
  <2> QED BY <1>8, <2>1, <2>2 DEF RetryAnswered
<1>9. CASE RetryAborted(l)
  BY <1>9, <1>t, <1>e DEF RetryAborted
<1>10. CASE Continue(l)
  BY <1>10, <1>t, <1>s, <1>g DEF Continue, Same
<1>11. CASE ReadMail(l)
  BY <1>11, <1>t, <1>s DEF ReadMail, Same
<1>12. CASE Ask(l)
  BY <1>12, <1>t, <1>s, <1>g DEF Ask, Same
<1>13. CASE AskAnswered(l) \/ AskAborted(l)
  BY <1>13, <1>t, <1>s, <1>g DEF AskAnswered, AskAborted, Same
<1>14. CASE AskDrains(l)
  <2>1. Head(queue) \in Turns /\ queue' \in Seq(Turns)
    BY <1>14, <1>q DEF AskDrains
  <2>2. loops' \in [Loops -> LoopRecords]
    BY <1>14, <1>t, <2>1 DEF AskDrains, LoopRecords
  <2> QED BY <1>14, <1>t, <1>s, <2>1, <2>2 DEF AskDrains, Same
<1>15. CASE Complete(l)
  <2>1. CASE queue # <<>> /\ queue' = Tail(queue)
             /\ loops' = [loops EXCEPT ![l].pc = "preparing", ![l].content = @ \cup {Head(queue)}]
    <3>1. Head(queue) \in Turns /\ queue' \in Seq(Turns)
      BY <2>1, <1>q
    <3>2. loops' \in [Loops -> LoopRecords]
      BY <2>1, <1>t, <3>1 DEF LoopRecords
    <3> QED BY <1>15, <1>t, <1>s, <3>1, <3>2 DEF Complete, Same
  <2>2. CASE Goto(l, "finishing") /\ UNCHANGED queue
    BY <1>15, <1>t, <1>s, <1>g, <2>2 DEF Complete, Same
  <2> QED BY <1>15, <2>1, <2>2 DEF Complete
<1>16. CASE Finish(l)
  BY <1>16, <1>t, <1>s, <1>g DEF Finish, Same
<1>17. CASE BackoffEnds(l)
  <2>1. CASE Goto(l, "preparing") /\ UNCHANGED <<queue, current, calls>>
    BY <1>17, <1>t, <1>s, <1>g, <2>1 DEF BackoffEnds, Same
  <2>2. CASE End(l) /\ AbortTask
    BY <1>17, <1>t, <1>e, <1>z, <2>2 DEF BackoffEnds, AbortTask
  <2> QED BY <1>17, <2>1, <2>2 DEF BackoffEnds
<1>18. CASE FirstChunkFailed(l) \/ FailureAborted(l)
  BY <1>18, <1>t, <1>s, <1>g DEF FirstChunkFailed, FailureAborted, Same
<1>19. CASE FailureAnswered(l)
  <2>1. queue' \in Seq(Turns) /\ heard' = heard /\ Same
    BY <1>19, <1>t, <1>q DEF FailureAnswered, Same
  <2>2. loops' \in [Loops -> LoopRecords]
    <3>1. CASE Goto(l, "streaming")
      BY <3>1, <1>g
    <3>2. CASE \E auto \in AutoApproval :
                 loops' = [loops EXCEPT ![l].pc = IF auto THEN "backingoff" ELSE "preparing",
                                        ![l].add = FALSE]
      <4>1. PICK pc \in {"backingoff", "preparing"} : loops' = [loops EXCEPT ![l].pc = pc, ![l].add = FALSE]
        <5>1. PICK auto \in AutoApproval :
                 loops' = [loops EXCEPT ![l].pc = IF auto THEN "backingoff" ELSE "preparing",
                                        ![l].add = FALSE]
          BY <3>2
        <5> QED BY <5>1
      <4> QED BY <1>t, <4>1 DEF LoopRecords
    <3> QED BY <1>19, <3>1, <3>2 DEF FailureAnswered
  <2> QED BY <1>t, <1>s, <2>1, <2>2
<1>20. CASE Raised(l)
  <2>1. queue' \in Seq(Turns) /\ heard' = heard /\ Same
    BY <1>20, <1>t, <1>q DEF Raised, Same
  <2>2. loops' \in [Loops -> LoopRecords]
    <3>1. CASE \E pc \in {"acting", "questioning", "approving"} : Goto(l, pc)
      BY <3>1, <1>g
    <3>2. CASE queue # <<>> /\ loops' = [loops EXCEPT ![l].pc = "acting", ![l].content = @ \cup {Head(queue)}]
      BY <3>2, <1>t, <1>q DEF LoopRecords
    <3> QED BY <1>20, <3>1, <3>2 DEF Raised
  <2> QED BY <1>t, <1>s, <2>1, <2>2
<1> QED BY <1>1, <1>2, <1>3, <1>4, <1>5, <1>6, <1>7, <1>8, <1>9, <1>10, <1>11, <1>12, <1>13,
           <1>14, <1>15, <1>16, <1>17, <1>18, <1>19, <1>20 DEF LoopStep, Runs

(* The flags, the mail and the cancel after a loop's step. *)
LEMMA LoopFlags ==
    ASSUME TInv, NEW l \in Loops, LoopStep(l)
    PROVE  /\ abort' \in BOOLEAN /\ abandoned' \in BOOLEAN /\ softCancel' \in BOOLEAN
           /\ disposed' \in BOOLEAN
           /\ unread' \subseteq unread
           /\ UNCHANGED <<delivering, woken, sent, child, cancelling>>
           /\ resume' = resume \/ (resume = "asked" /\ resume' = "none")
<1>1. /\ abort \in BOOLEAN /\ abandoned \in BOOLEAN /\ softCancel \in BOOLEAN
      /\ disposed \in BOOLEAN
  BY DEF TInv, TypeOK
<1>2. (abort' = abort \/ abort' = TRUE) /\ (disposed' = disposed \/ disposed' = TRUE)
  BY Zenon DEF LoopStep, Runs, Enter, Prepare, Streamed, StreamAborted, StreamRetried, BackoffEnds, StreamFailed,
     StreamEmpty, RetryAnswered, RetryAborted, Continue, ReadMail, Ask, Raised, AskAnswered, AskAborted,
     AskDrains, Complete, Finish, FirstChunkFailed, FailureAnswered, FailureAborted, AbortTask, flags, task
<1>3. abandoned' = abandoned /\ softCancel' = softCancel
  BY Zenon DEF LoopStep, Runs, Enter, Prepare, Streamed, StreamAborted, StreamRetried, BackoffEnds, StreamFailed,
     StreamEmpty, RetryAnswered, RetryAborted, Continue, ReadMail, Ask, Raised, AskAnswered, AskAborted,
     AskDrains, Complete, Finish, FirstChunkFailed, FailureAnswered, FailureAborted, flags
<1>4. /\ unread' = unread \/ unread' = {}
      /\ UNCHANGED <<delivering, woken, sent, child, cancelling>>
  BY Zenon DEF LoopStep, Runs, Enter, Prepare, Streamed, StreamAborted, StreamRetried, BackoffEnds, StreamFailed,
     StreamEmpty, RetryAnswered, RetryAborted, Continue, ReadMail, Ask, Raised, AskAnswered, AskAborted,
     AskDrains, Complete, Finish, FirstChunkFailed, FailureAnswered, FailureAborted, mail, task
<1>5. abort' \in BOOLEAN /\ disposed' \in BOOLEAN
  BY <1>1, <1>2, Zenon
<1>6. abandoned' \in BOOLEAN /\ softCancel' \in BOOLEAN
  BY <1>1, <1>3, Zenon
<1>7. resume' = resume \/ (resume = "asked" /\ resume' = "none")
  BY Zenon DEF LoopStep, Runs, Enter, Prepare, Streamed, StreamAborted, StreamRetried, BackoffEnds, StreamFailed,
     StreamEmpty, RetryAnswered, RetryAborted, Continue, ReadMail, Ask, Raised, AskAnswered, AskAborted,
     AskDrains, Complete, Finish, FirstChunkFailed, FailureAnswered, FailureAborted, task, Supersedes
<1> QED BY <1>4, <1>5, <1>6, <1>7

LEMMA ResumeType ==
    ASSUME TInv, NEW l \in Loops, Resume(l) PROVE TInv'
<1>1. ASSUME queue # <<>> PROVE Head(queue) \in Turns /\ Tail(queue) \in Seq(Turns)
  BY <1>1, HeadTailProperties DEF TInv, TypeOK
<1>2. queue' \in Seq(Turns)
  BY <1>1 DEF Resume, TInv, TypeOK
<1>3. loops' \in [Loops -> LoopRecords]
  <2>1. PICK r \in LoopRecords : loops' = [loops EXCEPT ![l] = r]
    BY <1>1, LoopRecord DEF Resume
  <2> QED BY <2>1 DEF TInv, TypeOK
<1>4. resume' \in {"none", "late"}
  BY DEF Resume
<1> QED BY <1>2, <1>3, <1>4 DEF Resume, TInv, TypeOK, Carries, flags, mail


LEMMA TypeStep == TInv /\ [Next]_vars => TInv'
<1> SUFFICES ASSUME TInv, [Next]_vars PROVE TInv'
  OBVIOUS
<1>1. CASE User
  BY <1>1, UserType
<1>2. ASSUME NEW c \in Calls, CallStep(c) PROVE TInv'
  BY <1>2, CallType
<1>3. ASSUME NEW w \in Wakes, Deliver(w) PROVE TInv'
  BY <1>3, DeliverType DEF Turns
<1>4. ASSUME NEW l \in Loops, LoopStep(l) PROVE TInv'
  <2>1. /\ loops' \in [Loops -> LoopRecords] /\ current' \in Loops \cup {NoLoop}
        /\ calls' \in [Calls -> CallRecords] /\ Carries'
        /\ queue' \in Seq(Turns) /\ heard' \subseteq Turns
    BY <1>4, LoopType
  <2>2. /\ abort' \in BOOLEAN /\ abandoned' \in BOOLEAN /\ softCancel' \in BOOLEAN
        /\ disposed' \in BOOLEAN
        /\ unread' \subseteq unread
        /\ UNCHANGED <<delivering, woken, sent, child, cancelling>>
        /\ resume' \in {"none", "asked", "late"}
    BY <1>4, LoopFlags DEF TInv, TypeOK
  <2> QED BY <2>1, <2>2 DEF TInv, TypeOK
<1>5. CASE UNCHANGED vars
  BY <1>5 DEF vars, TInv, TypeOK, Carries
<1>6. ASSUME NEW l \in Loops, Resume(l) PROVE TInv'
  BY <1>6, ResumeType
<1>7. CASE ResumeAborted
  BY <1>7 DEF ResumeAborted, TInv, TypeOK, Carries, flags, mail
<1> QED BY <1>1, <1>2, <1>3, <1>4, <1>5, <1>6, <1>7 DEF Next, Rest

(* The flags, the queue, the loops, the calls and the mailbox keep their types, for any messages,
   deliveries, faults and number of overlapping calls of cancelAndProcessQueuedMessages. *)
THEOREM TypeCorrect == Spec => []TypeOK
<1>1. Init => TInv
  BY TypeInit
<1>2. TInv /\ [Next]_vars => TInv'
  BY TypeStep
<1>3. TInv => TypeOK
  BY DEF TInv
<1> QED BY <1>1, <1>2, <1>3, PTL DEF Spec

-----------------------------------------------------------------------------
(***************************************************************************)
(* One loop. The task holds the promise of every loop that is alive, and a *)
(* call that is past its wait holds the way free for the loop it starts:   *)
(* that is what the wait in cancelAndProcessQueuedMessages is for. It      *)
(* holds while no late resumption has begun.                               *)
(***************************************************************************)
Past(c) == calls[c].pc \in {"persisting", "saying"}

LoopInv ==
    /\ \A l \in Loops : Alive(l) => current = l
    /\ current \in Loops => Alive(current)
    /\ \A c \in Calls : Past(c) => current = NoLoop

(* A step that starts and ends no loop, and takes no call past its wait. *)
LEMMA Undisturbed ==
    ASSUME LoopInv, current' = current,
           \A l \in Loops : Alive(l)' <=> Alive(l),
           \A c \in Calls : Past(c)' => Past(c)
    PROVE  LoopInv'
BY Zenon DEF LoopInv

(* The end of the loop that is alive leaves none. *)
LEMMA EndOfLoop ==
    ASSUME TInv, LoopInv, NEW l \in Loops, Alive(l), End(l)
    PROVE  LoopInv'
<1>1. current = l /\ current' = NoLoop
  BY DEF LoopInv, End
<1>2. ASSUME NEW k \in Loops PROVE ~Alive(k)'
  <2>1. k # l => ~Alive(k)
    BY <1>1 DEF LoopInv
  <2>2. loops'[k] = IF k = l THEN Ended ELSE loops[k]
    BY DEF End, TInv, TypeOK
  <2> QED BY <2>1, <2>2 DEF Alive, Ended
<1> QED BY <1>1, <1>2, LoopAssumption DEF LoopInv

(* A loop that goes to another state of its life disturbs nothing. *)
LEMMA Moves ==
    ASSUME TInv, LoopInv, NEW l \in Loops, Alive(l), loops'[l].pc # "ended",
           \A k \in Loops : k # l => loops'[k] = loops[k],
           UNCHANGED <<current, calls>>
    PROVE  LoopInv'
<1>1. ASSUME NEW k \in Loops PROVE Alive(k)' <=> Alive(k)
  BY DEF Alive
<1> QED BY <1>1, Undisturbed DEF Past

LEMMA GotoMoves ==
    ASSUME TInv, LoopInv, NEW l \in Loops, Alive(l), NEW pc \in LoopStates, pc # "ended",
           Goto(l, pc), UNCHANGED <<current, calls>>
    PROVE  LoopInv'
<1>1. loops'[l].pc = pc /\ \A k \in Loops : k # l => loops'[k] = loops[k]
  BY DEF Goto, TInv, TypeOK, LoopRecords
<1> QED BY <1>1, Moves

(* A call that starts while a loop is alive waits for it. *)
LEMMA InterruptWaits ==
    ASSUME TInv, LoopInv, NEW c \in Calls, NEW q, Interrupt(c, q), UNCHANGED <<loops, current>>
    PROVE  LoopInv'
<1>1. ASSUME NEW d \in Calls, Past(d)' PROVE current = NoLoop
  <2>1. CASE d = c
    <3>1. calls'[c].pc = IF current = NoLoop THEN "persisting" ELSE "waiting"
      BY DEF Interrupt, TInv, TypeOK
    <3> QED BY <1>1, <2>1, <3>1 DEF Past
  <2>2. CASE d # c
    <3>1. calls'[d] = calls[d]
      BY <2>2 DEF Interrupt, TInv, TypeOK
    <3> QED BY <1>1, <3>1 DEF Past, LoopInv
  <2> QED BY <2>1, <2>2
<1> QED BY <1>1 DEF LoopInv, Alive

LEMMA LoopInvCall ==
    ASSUME \A c, d \in Calls : c = d, TInv, LoopInv, NEW c \in Calls, CallStep(c)
    PROVE  LoopInv'
<1>1. CASE Persisted(c)
  <2>1. ASSUME NEW d \in Calls, Past(d)' PROVE Past(d)
    BY <1>1, <2>1 DEF Persisted, Past, TInv, TypeOK, CallRecords
  <2> QED BY <1>1, <2>1, Undisturbed DEF Persisted, Alive
<1>2. CASE Restart(c)
  <2>1. current = NoLoop
    BY <1>2 DEF Restart, LoopInv, Past
  <2>2. PICK l \in Loops : /\ loops' = [loops EXCEPT ![l] = Loop("starting", {calls[c].message}, TRUE)]
                           /\ current' = l
    BY <1>2 DEF Restart
  <2>3. ASSUME NEW k \in Loops PROVE Alive(k)' <=> k = l
    <3>1. ~Alive(k)
      BY <2>1, LoopAssumption DEF LoopInv
    <3> QED BY <2>2, <3>1 DEF Alive, Loop, TInv, TypeOK
  <2>4. ASSUME NEW d \in Calls PROVE ~Past(d)'
    <3>1. d = c
      OBVIOUS
    <3> QED BY <1>2, <3>1 DEF Restart, Past, Idle, TInv, TypeOK
  <2> QED BY <2>2, <2>3, <2>4 DEF LoopInv
<1> QED BY <1>1, <1>2 DEF CallStep

LEMMA LoopInvUser ==
    ASSUME TInv, LoopInv, User PROVE LoopInv'
<1>1. ASSUME UNCHANGED <<loops, current, calls>> PROVE LoopInv'
  BY <1>1, Undisturbed DEF Alive, Past
<1>2. CASE SendNow
  BY <1>2, InterruptWaits DEF SendNow
<1>3. ASSUME NEW m \in Messages, QueueMessage(m) PROVE LoopInv'
  BY <1>1, <1>3, InterruptWaits DEF QueueMessage
<1>4. CASE Cancel \/ Killed
  BY <1>1, <1>4 DEF Cancel, Killed
<1> QED BY <1>2, <1>3, <1>4 DEF User

LEMMA LoopInvDeliver ==
    ASSUME TInv, LoopInv, NEW w \in Wakes, Deliver(w) PROVE LoopInv'
<1>1. ASSUME UNCHANGED <<loops, current, calls>> PROVE LoopInv'
  BY <1>1, Undisturbed DEF Alive, Past
<1>2. CASE DeliverStore(w)
  BY <1>1, <1>2 DEF DeliverStore
<1>3. CASE DeliverWake(w)
  BY <1>1, <1>3, InterruptWaits DEF DeliverWake
<1> QED BY <1>2, <1>3 DEF Deliver

LEMMA LoopInvLoop ==
    ASSUME TInv, LoopInv, NEW l \in Loops, LoopStep(l) PROVE LoopInv'
<1>t. loops \in [Loops -> LoopRecords]
  BY DEF TInv, TypeOK
<1>e. Alive(l) /\ End(l) => LoopInv'
  BY EndOfLoop
<1>g. ASSUME Alive(l), NEW pc \in LoopStates, pc # "ended", Goto(l, pc), UNCHANGED <<current, calls>>
      PROVE  LoopInv'
  BY <1>g, GotoMoves
<1>m. ASSUME Alive(l), loops'[l].pc # "ended", \A k \in Loops : k # l => loops'[k] = loops[k],
             UNCHANGED <<current, calls>>
      PROVE  LoopInv'
  BY <1>m, Moves
<1>1. CASE Enter(l)
  BY <1>1, <1>e, <1>g DEF Enter, Alive
<1>2. CASE Prepare(l)
  BY <1>2, <1>e, <1>g DEF Prepare, Alive
<1>3. CASE Streamed(l)
  BY <1>3, <1>t, <1>m DEF Streamed, Alive, Loop
<1>4. CASE StreamAborted(l)
  BY <1>4, <1>e DEF StreamAborted, Alive
<1>5. CASE StreamRetried(l)
  <2>1. PICK pc \in {"backingoff", "preparing"} : loops' = [loops EXCEPT ![l].pc = pc, ![l].add = FALSE]
    <3>1. PICK auto \in AutoApproval :
             loops' = [loops EXCEPT ![l].pc = IF auto THEN "backingoff" ELSE "preparing",
                                    ![l].add = FALSE]
      BY <1>5 DEF StreamRetried
    <3> QED BY <3>1
  <2> QED BY <1>5, <1>t, <1>m, <2>1 DEF StreamRetried, Alive, LoopRecords
<1>6. CASE StreamFailed(l)
  BY <1>6, <1>e DEF StreamFailed, Alive
<1>7. CASE StreamEmpty(l)
  <2>1. PICK pc \in {"preparing", "retrying"} : loops' = [loops EXCEPT ![l].pc = pc, ![l].add = TRUE]
    <3>1. PICK auto \in AutoApproval :
             loops' = [loops EXCEPT ![l].pc = IF auto THEN "preparing" ELSE "retrying",
                                    ![l].add = TRUE]
      BY <1>7 DEF StreamEmpty
    <3> QED BY <3>1
  <2> QED BY <1>7, <1>t, <1>m, <2>1 DEF StreamEmpty, Alive, LoopRecords
<1>8. CASE RetryAnswered(l)
  <2>1. CASE loops' = [loops EXCEPT ![l].pc = "preparing", ![l].add = FALSE]
    BY <1>8, <1>t, <1>m, <2>1 DEF RetryAnswered, Alive, LoopRecords
  <2>2. CASE loops' = [loops EXCEPT ![l] = Loop("preparing", {}, TRUE)]
    BY <1>8, <1>t, <1>m, <2>2 DEF RetryAnswered, Alive, Loop
  <2> QED BY <1>8, <2>1, <2>2 DEF RetryAnswered
<1>9. CASE RetryAborted(l)
  BY <1>9, <1>e DEF RetryAborted, Alive
<1>10. CASE Continue(l)
  BY <1>10, <1>g DEF Continue, Alive
<1>11. CASE ReadMail(l)
  BY <1>11, Undisturbed DEF ReadMail, Alive, Past
<1>12. CASE Ask(l)
  BY <1>12, <1>g DEF Ask, Alive
<1>13. CASE AskAnswered(l) \/ AskAborted(l)
  BY <1>13, <1>g DEF AskAnswered, AskAborted, Asked, Alive
<1>14. CASE AskDrains(l)
  BY <1>14, <1>t, <1>m DEF AskDrains, Alive, LoopRecords
<1>15. CASE Complete(l)
  <2>1. CASE loops' = [loops EXCEPT ![l].pc = "preparing", ![l].content = @ \cup {Head(queue)}]
    BY <1>15, <1>t, <1>m, <2>1 DEF Complete, Alive, LoopRecords
  <2>2. CASE Goto(l, "finishing")
    BY <1>15, <1>g, <2>2 DEF Complete, Alive
  <2> QED BY <1>15, <2>1, <2>2 DEF Complete
<1>16. CASE Finish(l)
  BY <1>16, <1>g DEF Finish, Alive
<1>17. CASE BackoffEnds(l)
  BY <1>17, <1>e, <1>g DEF BackoffEnds, Alive
<1>18. CASE FirstChunkFailed(l)
  BY <1>18, <1>g DEF FirstChunkFailed, Alive
<1>19. CASE FailureAborted(l)
  BY <1>19, <1>g DEF FailureAborted, Alive
<1>20. CASE FailureAnswered(l)
  <2>1. CASE Goto(l, "streaming")
    BY <1>20, <1>g, <2>1 DEF FailureAnswered, Alive
  <2>2. CASE \E auto \in AutoApproval :
               loops' = [loops EXCEPT ![l].pc = IF auto THEN "backingoff" ELSE "preparing",
                                      ![l].add = FALSE]
    <3>1. loops'[l].pc # "ended" /\ \A k \in Loops : k # l => loops'[k] = loops[k]
      BY <1>t, <2>2 DEF LoopRecords
    <3> QED BY <1>20, <1>m, <3>1 DEF FailureAnswered, Alive
  <2> QED BY <1>20, <2>1, <2>2 DEF FailureAnswered
<1>21. CASE Raised(l)
  <2>1. CASE \E pc \in {"acting", "questioning", "approving"} : Goto(l, pc)
    BY <1>21, <1>g, <2>1 DEF Raised, Alive
  <2>2. CASE loops' = [loops EXCEPT ![l].pc = "acting", ![l].content = @ \cup {Head(queue)}]
    BY <1>21, <1>t, <1>m, <2>2 DEF Raised, Alive, LoopRecords
  <2> QED BY <1>21, <2>1, <2>2 DEF Raised
<1> QED BY <1>1, <1>2, <1>3, <1>4, <1>5, <1>6, <1>7, <1>8, <1>9, <1>10, <1>11, <1>12, <1>13,
           <1>14, <1>15, <1>16, <1>17, <1>18, <1>19, <1>20, <1>21 DEF LoopStep, Runs

(* A resumption that meets nothing else starts the only loop. *)
LEMMA LoopInvResume ==
    ASSUME TInv, LoopInv, NEW l \in Loops, Resume(l), Timely'
    PROVE  current = NoLoop /\ (\A c \in Calls : calls[c] = Idle) /\ LoopInv'
<1>1. current = NoLoop /\ (\A c \in Calls : calls[c] = Idle) /\ current' = l /\ UNCHANGED calls
  BY DEF Resume, Timely
<1>2. PICK r \in {Loop("starting", {}, TRUE), Loop("starting", {Head(queue)}, TRUE)} :
         loops' = [loops EXCEPT ![l] = r]
  BY DEF Resume
<1>3. ASSUME NEW k \in Loops PROVE Alive(k)' <=> k = l
  <2>1. ~Alive(k)
    BY <1>1, LoopAssumption DEF LoopInv
  <2> QED BY <1>2, <2>1 DEF Alive, Loop, TInv, TypeOK
<1>4. ASSUME NEW d \in Calls PROVE ~Past(d)'
  BY <1>1 DEF Past, Idle
<1> QED BY <1>1, <1>3, <1>4 DEF LoopInv

(* Once a resumption is late it stays so. *)
LEMMA StaysLate == TInv /\ [Next]_vars /\ Timely' => Timely
<1> SUFFICES ASSUME TInv, [Next]_vars, resume = "late" PROVE resume' = "late"
  BY DEF Timely
<1>1. CASE User
  BY <1>1 DEF User, SendNow, QueueMessage, Cancel, Killed, task
<1>2. ASSUME NEW c \in Calls, CallStep(c) PROVE resume' = "late"
  BY <1>2 DEF CallStep, Persisted, Restart, task
<1>3. ASSUME NEW w \in Wakes, Deliver(w) PROVE resume' = "late"
  BY <1>3 DEF Deliver, DeliverStore, DeliverWake, task
<1>4. ASSUME NEW l \in Loops, LoopStep(l) PROVE resume' = "late"
  BY <1>4, LoopFlags
<1>5. ASSUME NEW l \in Loops, Resume(l) PROVE FALSE
  BY <1>5 DEF Resume
<1>6. CASE ResumeAborted
  BY <1>6 DEF ResumeAborted
<1>7. CASE UNCHANGED vars
  BY <1>7 DEF vars
<1> QED BY <1>1, <1>2, <1>3, <1>4, <1>5, <1>6, <1>7 DEF Next, Rest

LEMMA OneLoopInit == Init => TInv /\ LoopInv
<1> SUFFICES ASSUME Init PROVE LoopInv
  BY TypeInit
<1>1. ASSUME NEW c \in Calls PROVE ~Past(c)
  BY DEF Init, Past, Idle
<1>2. CASE resume = "asked"
  <2>1. current = NoLoop /\ \A k \in Loops : ~Alive(k)
    BY <1>2 DEF Init, Alive, Ended
  <2> QED BY <1>1, <2>1, LoopAssumption DEF LoopInv
<1>3. CASE resume # "asked"
  <2>1. PICK l \in Loops : /\ loops = [k \in Loops |-> IF k = l THEN Loop("starting", {}, TRUE) ELSE Ended]
                           /\ current = l
    BY <1>3 DEF Init
  <2>2. ASSUME NEW k \in Loops PROVE Alive(k) <=> k = l
    BY <2>1 DEF Alive, Loop, Ended
  <2> QED BY <1>1, <2>1, <2>2 DEF LoopInv
<1> QED BY <1>2, <1>3

LEMMA OneLoopStep ==
    ASSUME \A c, d \in Calls : c = d
    PROVE  TInv /\ (Timely => LoopInv) /\ [Next]_vars => TInv' /\ (Timely' => LoopInv')
<1> SUFFICES ASSUME TInv, Timely => LoopInv, [Next]_vars, Timely' PROVE LoopInv'
  BY TypeStep
<1>0. LoopInv
  BY StaysLate
<1>1. CASE User
  BY <1>0, <1>1, LoopInvUser
<1>2. ASSUME NEW c \in Calls, CallStep(c) PROVE LoopInv'
  BY <1>0, <1>2, LoopInvCall
<1>3. ASSUME NEW w \in Wakes, Deliver(w) PROVE LoopInv'
  BY <1>0, <1>3, LoopInvDeliver
<1>4. ASSUME NEW l \in Loops, LoopStep(l) PROVE LoopInv'
  BY <1>0, <1>4, LoopInvLoop
<1>5. CASE UNCHANGED vars
  BY <1>0, <1>5, Undisturbed DEF vars, Alive, Past
<1>6. ASSUME NEW l \in Loops, Resume(l) PROVE LoopInv'
  BY <1>0, <1>6, LoopInvResume
<1>7. CASE ResumeAborted
  BY <1>0, <1>7, Undisturbed DEF ResumeAborted, Alive, Past
<1> QED BY <1>1, <1>2, <1>3, <1>4, <1>5, <1>6, <1>7 DEF Next, Rest

(* With calls of cancelAndProcessQueuedMessages that never overlap (Calls has at most one element),
   two loops of the task are never alive at once, whatever the user, the deliveries, the provider and
   the faults do, until a resume ask is answered beside a Send Now or a running loop: the wait of
   Step 3 and the check of the flag at the head of the loop suffice. *)
THEOREM SingleLoop ==
    ASSUME \A c, d \in Calls : c = d
    PROVE  Spec => []OneLoop
<1>1. (Timely => LoopInv) => OneLoop
  BY DEF LoopInv, OneLoop, Timely
<1>2. Init => TInv /\ (Timely => LoopInv)
  BY OneLoopInit
<1>3. TInv /\ (Timely => LoopInv) /\ [Next]_vars => TInv' /\ (Timely => LoopInv)'
  BY OneLoopStep
<1> QED BY <1>1, <1>2, <1>3, PTL DEF Spec
-----------------------------------------------------------------------------
(***************************************************************************)
(* What becomes of a message. A loop drops nothing it has not recorded,    *)
(* unless it is aborted, and then (with calls that never overlap) either   *)
(* the task is disposed of, or a call is stopping the loop, or the loop    *)
(* was stopped by its own completion and is back at its head.              *)
(***************************************************************************)
Stopping(c) == calls[c].pc \in {"waiting", "persisting"}

\* The next request of a loop that holds r records what it carries, or h has it already.
Recorded(r, h) ==
    /\ r.pc = "ended" => r = Ended
    /\ r.pc \in {"starting", "acting", "raising", "approving", "questioning", "finishing", "retrying"} => r.add
    /\ r.pc \in {"streaming", "failing"} /\ r.add => r.content \subseteq h
    /\ r.pc = "backingoff" => ~r.add

CarryInv == \A l \in Loops : Recorded(loops[l], heard)

AbortInv ==
    abort => \/ disposed
             \/ \E c \in Calls : Stopping(c)
             \/ /\ \A l \in Loops : loops[l].pc \in {"ended", "preparing"}
                /\ \A c \in Calls : calls[c].pc # "saying"

MessageInv == TInv /\ LoopInv /\ CarryInv /\ AbortInv

(* What is in a queue after a message joins its end or its head leaves. *)
LEMMA RangeAppend ==
    ASSUME NEW q \in Seq(Turns), NEW m \in Turns
    PROVE  Range(Append(q, m)) = Range(q) \cup {m}
<1>1. Append(q, m) \in Seq(Turns) /\ Len(Append(q, m)) = Len(q) + 1 /\ Len(q) \in Nat
      /\ (\A i \in 1 .. Len(q) : Append(q, m)[i] = q[i]) /\ Append(q, m)[Len(q) + 1] = m
  BY AppendProperties
<1>2. DOMAIN q = 1 .. Len(q) /\ DOMAIN Append(q, m) = 1 .. Len(q) + 1
  BY <1>1
<1>3. Range(Append(q, m)) \subseteq Range(q) \cup {m}
  BY <1>1, <1>2 DEF Range
<1>4. Range(q) \subseteq Range(Append(q, m))
  BY <1>1, <1>2 DEF Range
<1>5. m \in Range(Append(q, m))
  BY <1>1, <1>2 DEF Range
<1> QED BY <1>3, <1>4, <1>5

LEMMA RangeTail ==
    ASSUME NEW q \in Seq(Turns), q # <<>>
    PROVE  Range(q) \subseteq {Head(q)} \cup Range(Tail(q))
<1>1. /\ Len(q) \in Nat /\ Len(q) # 0 /\ DOMAIN q = 1 .. Len(q)
      /\ Tail(q) \in Seq(Turns) /\ Len(Tail(q)) = Len(q) - 1
      /\ Head(q) = q[1] /\ \A i \in 1 .. Len(q) - 1 : Tail(q)[i] = q[i + 1]
  BY HeadTailProperties, EmptySeq
<1>2. ASSUME NEW i \in 1 .. Len(q), i # 1 PROVE q[i] \in Range(Tail(q))
  <2>1. i - 1 \in 1 .. Len(q) - 1 /\ Tail(q)[i - 1] = q[i]
    BY <1>1, <1>2
  <2>2. i - 1 \in DOMAIN Tail(q)
    BY <1>1, <2>1
  <2> QED BY <2>1, <2>2 DEF Range
<1> QED BY <1>1, <1>2 DEF Range

(* Where a held message is. *)
Queued(x) == x \in Range(queue)
InCall(x) == \E c \in Calls : calls[c].message = x
Carried(x) == \E l \in Loops : loops[l].add /\ x \in loops[l].content

LEMMA HeldIs == \A x : x \in Held <=> x \in heard \/ Queued(x) \/ InCall(x) \/ Carried(x)
BY DEF Held, Queued, InCall, Carried

LEMMA HeldNext == \A x : x \in Held' <=> x \in heard' \/ Queued(x)' \/ InCall(x)' \/ Carried(x)'
BY DEF Held, Queued, InCall, Carried

(* The work of one loop at a time, and what it carries. *)
LEMMA OneRecorded ==
    ASSUME CarryInv, NEW l \in Loops,
           \A k \in Loops : k # l => loops'[k] = loops[k],
           Recorded(loops'[l], heard'),
           heard \subseteq heard' \/ \A k \in Loops : k # l => ~Alive(k)
    PROVE  CarryInv'
<1>1. ASSUME NEW k \in Loops, k # l PROVE Recorded(loops'[k], heard')
  <2>1. Recorded(loops[k], heard) /\ loops'[k] = loops[k]
    BY <1>1 DEF CarryInv
  <2> QED BY <1>1, <2>1 DEF Recorded, Alive
<1> QED BY <1>1 DEF CarryInv

LEMMA OneHeld ==
    ASSUME NEW l \in Loops,
           heard \subseteq heard', Range(queue) \subseteq Range(queue'),
           \A c \in Calls : calls'[c].message = calls[c].message,
           \A k \in Loops : k # l => loops'[k] = loops[k],
           loops[l].add => \/ loops[l].content \subseteq heard'
                           \/ loops'[l].add /\ loops[l].content \subseteq loops'[l].content
    PROVE  Held \subseteq Held'
<1> SUFFICES ASSUME NEW x \in Held PROVE x \in Held'
  OBVIOUS
<1>1. CASE x \in heard \/ Queued(x)
  BY <1>1, HeldNext DEF Queued
<1>2. CASE InCall(x)
  BY <1>2, HeldNext DEF InCall
<1>3. CASE Carried(x)
  <2>1. PICK k \in Loops : loops[k].add /\ x \in loops[k].content
    BY <1>3 DEF Carried
  <2>2. CASE k = l
    BY <2>1, <2>2, HeldNext DEF Carried
  <2>3. CASE k # l
    BY <2>1, <2>3, HeldNext DEF Carried
  <2> QED BY <2>2, <2>3
<1> QED BY <1>1, <1>2, <1>3, HeldIs

(* Nothing stops, or what stopped the task still does. *)
LEMMA StillStopped ==
    ASSUME AbortInv, abort' => abort, disposed => disposed',
           \A c \in Calls : Stopping(c) => Stopping(c)',
           \A c \in Calls : calls'[c].pc = "saying" => calls[c].pc = "saying",
           (\A l \in Loops : loops[l].pc \in {"ended", "preparing"})
               => (\A l \in Loops : loops'[l].pc \in {"ended", "preparing"})
    PROVE  AbortInv'
BY DEF AbortInv

LEMMA EndFacts ==
    ASSUME TInv, NEW l \in Loops, End(l)
    PROVE  /\ loops'[l] = Ended /\ \A k \in Loops : k # l => loops'[k] = loops[k]
           /\ \A c \in Calls : /\ calls'[c].message = calls[c].message
                               /\ Stopping(c) => Stopping(c)'
                               /\ calls'[c].pc = "saying" => calls[c].pc = "saying"
<1>1. ASSUME NEW c \in Calls
      PROVE  /\ calls'[c].message = calls[c].message
             /\ Stopping(c) => Stopping(c)'
             /\ calls'[c].pc = "saying" => calls[c].pc = "saying"
  <2>1. CASE calls[c].pc = "waiting" /\ current = l
    BY <2>1 DEF End, Stopping
  <2>2. CASE ~(calls[c].pc = "waiting" /\ current = l)
    <3>1. calls'[c] = calls[c]
      BY <2>2 DEF End
    <3> QED BY <3>1 DEF Stopping
  <2> QED BY <2>1, <2>2
<1>2. loops'[l] = Ended /\ \A k \in Loops : k # l => loops'[k] = loops[k]
  BY DEF End, TInv, TypeOK
<1> QED BY <1>1, <1>2

(* The call that takes the head of q leaves the rest of it queued. *)
LEMMA InterruptHolds ==
    ASSUME TInv, NEW c \in Calls, NEW q \in Seq(Turns), Interrupt(c, q), UNCHANGED <<loops, heard>>
    PROVE  /\ \A x \in Messages : x \in Range(q) \/ x \in Held \ Range(queue) => x \in Held'
           /\ AbortInv'
<1>1. /\ calls[c] = Idle /\ q # <<>> /\ queue' = Tail(q)
      /\ calls'[c].message = Head(q) /\ Stopping(c)'
      /\ \A d \in Calls : d # c => calls'[d] = calls[d]
  BY DEF Interrupt, TInv, TypeOK, Stopping
<1>2. ASSUME NEW x \in Messages, x \in Range(q) PROVE x \in Held'
  <2>1. x = Head(q) \/ x \in Range(queue')
    BY <1>1, <1>2, RangeTail
  <2> QED BY <1>1, <2>1, HeldNext DEF Queued, InCall
<1>3. ASSUME NEW x \in Messages, x \in Held, x \notin Range(queue) PROVE x \in Held'
  <2>1. CASE x \in heard
    BY <2>1, HeldNext
  <2>2. CASE InCall(x)
    <3>1. PICK d \in Calls : calls[d].message = x
      BY <2>2 DEF InCall
    <3>2. d # c
      BY <1>1, <3>1, LoopAssumption DEF Idle
    <3> QED BY <1>1, <3>1, <3>2, HeldNext DEF InCall
  <2>3. CASE Carried(x)
    BY <2>3, HeldNext DEF Carried
  <2> QED BY <1>3, <2>1, <2>2, <2>3, HeldIs DEF Queued
<1>4. AbortInv'
  BY <1>1 DEF AbortInv
<1> QED BY <1>2, <1>3, <1>4

LEMMA MessageCall ==
    ASSUME \A c, d \in Calls : c = d, MessageInv, NEW c \in Calls, CallStep(c)
    PROVE  CarryInv' /\ AbortInv' /\ Held \subseteq Held'
<1> USE DEF MessageInv
<1>1. CASE Persisted(c)
  <2>1. UNCHANGED <<loops, heard, queue>> /\ abort' = FALSE
        /\ \A d \in Calls : calls'[d].message = calls[d].message
    BY <1>1 DEF Persisted, TInv, TypeOK, CallRecords
  <2>2. CarryInv' /\ AbortInv'
    BY <2>1 DEF CarryInv, AbortInv
  <2>3. Held \subseteq Held'
    BY <2>1 DEF Held
  <2> QED BY <2>2, <2>3
<1>2. CASE Restart(c)
  <2>1. PICK l \in Loops : /\ ~Alive(l)
                           /\ loops' = [loops EXCEPT ![l] = Loop("starting", {calls[c].message}, TRUE)]
    BY <1>2 DEF Restart
  <2>2. /\ calls[c].pc = "saying" /\ calls' = [calls EXCEPT ![c] = Idle]
        /\ UNCHANGED <<abort, disposed, queue, heard>>
    BY <1>2 DEF Restart, flags, task
  <2>3. loops'[l] = Loop("starting", {calls[c].message}, TRUE)
        /\ \A k \in Loops : k # l => loops'[k] = loops[k]
    BY <2>1 DEF TInv, TypeOK
  <2>4. CarryInv'
    BY <2>2, <2>3, OneRecorded DEF Recorded, Loop
  <2>5. AbortInv'
    BY <2>2 DEF AbortInv, Stopping
  <2>6. ASSUME NEW x \in Held PROVE x \in Held'
    <3>1. CASE x \in heard \/ Queued(x)
      BY <2>2, <3>1, HeldNext DEF Queued
    <3>2. CASE InCall(x)
      <4>1. x = calls[c].message
        BY <3>2 DEF InCall
      <4>2. loops'[l].add /\ x \in loops'[l].content
        BY <2>3, <4>1 DEF Loop
      <4> QED BY <4>2, HeldNext DEF Carried
    <3>3. CASE Carried(x)
      <4>1. PICK k \in Loops : loops[k].add /\ x \in loops[k].content
        BY <3>3 DEF Carried
      <4>2. k # l
        BY <2>1, <4>1 DEF Alive, CarryInv, Recorded, Ended
      <4> QED BY <2>3, <4>1, <4>2, HeldNext DEF Carried
    <3> QED BY <3>1, <3>2, <3>3, HeldIs
  <2> QED BY <2>4, <2>5, <2>6
<1> QED BY <1>1, <1>2 DEF CallStep

LEMMA MessageUser ==
    ASSUME MessageInv, User
    PROVE  CarryInv' /\ AbortInv' /\ (Lost' \subseteq Lost \/ disposed')
<1> USE DEF MessageInv
<1>q. queue \in Seq(Turns) /\ sent \subseteq Messages
  BY DEF TInv, TypeOK
<1>c. UNCHANGED <<loops, heard>>
  BY DEF User, SendNow, QueueMessage, Cancel, Killed
<1>1. CarryInv'
  BY <1>c DEF CarryInv
<1>2. CASE SendNow
  <2>1. PICK c \in Calls : Interrupt(c, queue)
    BY <1>2 DEF SendNow
  <2>2. \A x \in Messages : x \in Range(queue) \/ x \in Held \ Range(queue) => x \in Held'
    BY <1>c, <1>q, <2>1, InterruptHolds
  <2>3. AbortInv' /\ sent' = sent
    BY <1>2, <1>c, <1>q, <2>1, InterruptHolds DEF SendNow
  <2> QED BY <1>1, <1>q, <2>2, <2>3 DEF Lost
<1>3. ASSUME NEW m \in Messages, QueueMessage(m)
      PROVE  AbortInv' /\ Lost' \subseteq Lost
  <2>1. m \in Turns /\ sent' = sent \cup {m} /\ UNCHANGED disposed
    BY <1>3 DEF QueueMessage, Turns, task
  <2>2. Append(queue, m) \in Seq(Turns) /\ Range(Append(queue, m)) = Range(queue) \cup {m}
    BY <1>q, <2>1, RangeAppend, AppendProperties
  <2>3. CASE ~abort /\ queue' = Append(queue, m) /\ UNCHANGED <<abort, softCancel, calls>>
    <3>1. AbortInv'
      BY <2>3 DEF AbortInv
    <3>2. Held' = Held \cup {m}
      BY <1>c, <2>2, <2>3, HeldIs, HeldNext DEF Queued, InCall, Carried
    <3> QED BY <2>1, <3>1, <3>2 DEF Lost
  <2>4. CASE abort /\ \E c \in Calls : Interrupt(c, Append(queue, m))
    <3>1. PICK c \in Calls : Interrupt(c, Append(queue, m))
      BY <2>4
    <3>2. AbortInv' /\ \A x \in Messages : x \in Range(queue) \cup {m} \/ x \in Held \ Range(queue) => x \in Held'
      BY <1>c, <2>2, <3>1, InterruptHolds
    <3> QED BY <1>q, <2>1, <3>2 DEF Lost
  <2> QED BY <1>3, <2>3, <2>4 DEF QueueMessage
<1>4. CASE Cancel
  <2>1. CASE AbortTask
    BY <1>1, <2>1 DEF AbortTask, AbortInv
  <2>2. CASE UNCHANGED <<abort, disposed, queue>>
    <3>1. UNCHANGED <<calls, sent>>
      BY <1>4 DEF Cancel
    <3>2. AbortInv'
      BY <1>c, <2>2, <3>1 DEF AbortInv, Stopping
    <3>3. Lost' = Lost
      BY <1>c, <2>2, <3>1 DEF Lost, Held
    <3> QED BY <1>1, <3>2, <3>3
  <2> QED BY <1>4, <2>1, <2>2 DEF Cancel
<1>5. CASE Killed
  BY <1>1, <1>5 DEF Killed, AbortTask, AbortInv
<1> QED BY <1>1, <1>2, <1>3, <1>4, <1>5 DEF User

LEMMA MessageDeliver ==
    ASSUME MessageInv, NEW w \in Wakes, Deliver(w)
    PROVE  CarryInv' /\ AbortInv' /\ Lost' \subseteq Lost
<1> USE DEF MessageInv
<1>q. queue \in Seq(Turns) /\ sent \subseteq Messages /\ WakeTurn \in Turns
  BY DEF TInv, TypeOK, Turns
<1>c. UNCHANGED <<loops, heard, sent, disposed>>
  BY DEF Deliver, DeliverStore, DeliverWake, task
<1>1. CarryInv'
  BY <1>c DEF CarryInv
<1>2. CASE UNCHANGED <<flags, queue, calls>>
  <2>1. AbortInv'
    BY <1>2, <1>c DEF AbortInv, Stopping, flags
  <2>2. Lost' = Lost
    BY <1>2, <1>c DEF Lost, Held
  <2> QED BY <1>1, <2>1, <2>2
<1>3. CASE \E c \in Calls : Interrupt(c, Append(queue, WakeTurn))
  <2>1. PICK c \in Calls : Interrupt(c, Append(queue, WakeTurn))
    BY <1>3
  <2>2. Append(queue, WakeTurn) \in Seq(Turns)
        /\ Range(Append(queue, WakeTurn)) = Range(queue) \cup {WakeTurn}
    BY <1>q, RangeAppend, AppendProperties
  <2>3. AbortInv' /\ \A x \in Messages : x \in Range(queue) \/ x \in Held \ Range(queue) => x \in Held'
    BY <1>c, <2>1, <2>2, InterruptHolds
  <2> QED BY <1>1, <1>c, <1>q, <2>3 DEF Lost
<1> QED BY <1>2, <1>3 DEF Deliver, DeliverStore, DeliverWake

(* A loop that is aborted where only a disposal or a call can have aborted it. *)
LEMMA AbortedByOthers ==
    ASSUME AbortInv, abort, NEW l \in Loops, loops[l].pc \notin {"ended", "preparing"}
    PROVE  disposed \/ \E c \in Calls : Stopping(c)
BY DEF AbortInv

(* A loop ends; what it carries is recorded, or lost with what stopped it. *)
LEMMA MessageEnd ==
    ASSUME MessageInv, NEW l \in Loops, Alive(l), End(l), abort' => abort \/ disposed',
           disposed => disposed', heard' = heard
    PROVE  /\ CarryInv' /\ AbortInv'
           /\ UNCHANGED queue /\ (loops[l].add => loops[l].content \subseteq heard) => Held \subseteq Held'
<1> USE DEF MessageInv
<1>1. CarryInv'
  BY EndFacts, OneRecorded DEF Recorded, Ended
<1>2. AbortInv'
  <2>1. CASE disposed'
    BY <2>1 DEF AbortInv
  <2>2. CASE ~disposed'
    <3>1. \A k \in Loops : loops'[k].pc = "ended" \/ loops'[k] = loops[k]
      BY EndFacts DEF Ended
    <3> QED BY <2>2, <3>1, EndFacts, StillStopped
  <2> QED BY <2>1, <2>2
<1>3. ASSUME UNCHANGED queue, loops[l].add => loops[l].content \subseteq heard PROVE Held \subseteq Held'
  BY <1>3, EndFacts, OneHeld
<1> QED BY <1>1, <1>2, <1>3

(* A loop goes on in a task that is not aborted. *)
LEMMA MessageGoesOn ==
    ASSUME MessageInv, NEW l \in Loops, ~abort', UNCHANGED calls,
           \A k \in Loops : k # l => loops'[k] = loops[k],
           Recorded(loops'[l], heard'),
           heard \subseteq heard' \/ Alive(l)
    PROVE  CarryInv' /\ AbortInv'
<1>1. CarryInv'
  BY OneRecorded DEF MessageInv, LoopInv
<1>2. AbortInv'
  BY DEF AbortInv
<1> QED BY <1>1, <1>2

(* A step of a loop drops no message, but for what stops it, a retry the user decides, an approval   *)
(* that is offered one, or the end of an aborted loop at its head.                                   *)
LEMMA MessageLoop ==
    ASSUME MessageInv, NEW l \in Loops, LoopStep(l)
    PROVE  /\ CarryInv' /\ AbortInv'
           /\ \/ Held \subseteq Held' \/ Interrupted \/ AtHead \/ Decided
              \/ Offered /\ Held \subseteq Held' \cup {Head(queue)}
<1> DEFINE Good == /\ CarryInv' /\ AbortInv'
                   /\ Held \subseteq Held' \/ Interrupted \/ AtHead \/ Decided
           Others == \A k \in Loops : k # l => loops'[k] = loops[k]
<1>t. /\ loops \in [Loops -> LoopRecords] /\ queue \in Seq(Turns) /\ abort \in BOOLEAN
      /\ Recorded(loops[l], heard) /\ loops[l].content \subseteq Turns
  BY DEF MessageInv, TInv, TypeOK, CarryInv, LoopRecords
<1>i. ASSUME disposed \/ \E c \in Calls : Stopping(c), disposed => disposed' PROVE Interrupted
  BY <1>i DEF Interrupted, Stopping
<1>g. ASSUME NEW pc \in LoopStates, Goto(l, pc)
      PROVE  /\ loops'[l].pc = pc /\ loops'[l].content = loops[l].content /\ loops'[l].add = loops[l].add
             /\ Others
  BY <1>t, <1>g DEF Goto, LoopRecords
\* A loop that only goes to another state.
<1>m. ASSUME ~abort', UNCHANGED <<calls, heard, queue>>, NEW pc \in LoopStates, Goto(l, pc), pc # "ended",
             pc \in {"acting", "raising", "approving", "questioning", "finishing"} => loops[l].add,
             pc \notin {"starting", "streaming", "failing", "backingoff", "retrying"}
      PROVE  Good
  <2>1. Recorded(loops'[l], heard')
    BY <1>g, <1>m DEF Recorded
  <2>2. CarryInv' /\ AbortInv'
    BY <1>g, <1>m, <2>1, MessageGoesOn
  <2>3. Held \subseteq Held'
    BY <1>g, <1>m, OneHeld
  <2> QED BY <2>2, <2>3
<1>1. CASE Enter(l)
  <2>1. CASE abort /\ End(l)
    <3>1. Alive(l) /\ UNCHANGED <<abort, disposed, heard, queue>>
      BY <1>1 DEF Enter, Alive, flags, task
    <3>2. Interrupted
      BY <1>1, <1>i, <2>1, <3>1, AbortedByOthers DEF Enter, MessageInv
    <3> QED BY <2>1, <3>1, <3>2, MessageEnd
  <2>2. CASE ~abort /\ Goto(l, "preparing") /\ UNCHANGED <<current, calls>>
    BY <1>1, <1>m, <2>2 DEF Enter, flags
  <2> QED BY <1>1, <2>1, <2>2 DEF Enter
<1>2. CASE Prepare(l)
  <2>1. CASE abort /\ End(l) /\ UNCHANGED <<heard, unread>>
    <3>1. Alive(l) /\ UNCHANGED <<abort, disposed, heard>>
      BY <1>2, <2>1 DEF Prepare, Alive, flags, task
    <3>2. AtHead
      BY <1>2, <1>t, <2>1 DEF Prepare, AtHead, End
    <3> QED BY <2>1, <3>1, <3>2, MessageEnd
  <2>2. CASE /\ ~abort /\ Goto(l, "streaming")
             /\ heard' = IF loops[l].add THEN heard \cup loops[l].content ELSE heard
             /\ UNCHANGED calls
    <3>1. UNCHANGED <<abort, queue>>
      BY <1>2 DEF Prepare, flags
    <3>2. Recorded(loops'[l], heard')
      BY <1>g, <2>2 DEF Recorded
    <3>3. CarryInv' /\ AbortInv'
      BY <1>g, <2>2, <3>1, <3>2, MessageGoesOn
    <3>4. Held \subseteq Held'
      BY <1>g, <2>2, <3>1, OneHeld
    <3> QED BY <3>3, <3>4
  <2> QED BY <1>2, <2>1, <2>2 DEF Prepare
<1>3. CASE Streamed(l)
  <2>1. ~abort /\ UNCHANGED <<abort, calls, heard, queue>> /\ loops[l].pc = "streaming"
    BY <1>3 DEF Streamed, flags
  <2>2. loops'[l] = Loop("acting", {}, TRUE) /\ Others
    BY <1>3, <1>t DEF Streamed
  <2>3. CarryInv' /\ AbortInv'
    BY <2>1, <2>2, MessageGoesOn DEF Recorded, Loop
  <2>4. Held \subseteq Held'
    BY <1>t, <2>1, <2>2, OneHeld DEF Recorded
  <2> QED BY <2>3, <2>4
<1>4. CASE StreamAborted(l)
  <2>1. End(l) /\ Alive(l) /\ heard' = heard /\ loops[l].pc = "streaming"
    BY <1>4 DEF StreamAborted, Alive
  <2>2. CASE UNCHANGED <<abort, disposed, queue>>
    BY <1>t, <2>1, <2>2, MessageEnd DEF Recorded
  <2>3. CASE AbortTask
    BY <2>1, <2>3, MessageEnd DEF AbortTask, Interrupted
  <2> QED BY <1>4, <2>2, <2>3 DEF StreamAborted
<1>5. CASE StreamRetried(l)
  <2>1. ~abort /\ UNCHANGED <<abort, calls, heard, queue>> /\ loops[l].pc = "streaming"
    BY <1>5 DEF StreamRetried, flags
  <2>2. PICK pc \in {"backingoff", "preparing"} : loops' = [loops EXCEPT ![l].pc = pc, ![l].add = FALSE]
    <3>1. PICK auto \in AutoApproval :
             loops' = [loops EXCEPT ![l].pc = IF auto THEN "backingoff" ELSE "preparing",
                                    ![l].add = FALSE]
      BY <1>5 DEF StreamRetried
    <3> QED BY <3>1
  <2>3. loops'[l].pc = pc /\ loops'[l].add = FALSE /\ Others
    BY <1>t, <2>2 DEF LoopRecords
  <2>4. CarryInv' /\ AbortInv'
    BY <2>1, <2>3, MessageGoesOn DEF Recorded
  <2>5. Held \subseteq Held'
    BY <1>t, <2>1, <2>3, OneHeld DEF Recorded
  <2> QED BY <2>4, <2>5
<1>6. CASE StreamFailed(l)
  BY <1>6, MessageEnd DEF StreamFailed, AbortTask, Alive, Interrupted
<1>7. CASE StreamEmpty(l)
  <2>1. /\ ~abort /\ UNCHANGED <<abort, calls, queue>> /\ heard' = heard \ loops[l].content
        /\ Alive(l)
    BY <1>7 DEF StreamEmpty, flags, Alive
  <2>2. PICK pc \in {"preparing", "retrying"} : loops' = [loops EXCEPT ![l].pc = pc, ![l].add = TRUE]
    <3>1. PICK auto \in AutoApproval :
             loops' = [loops EXCEPT ![l].pc = IF auto THEN "preparing" ELSE "retrying",
                                    ![l].add = TRUE]
      BY <1>7 DEF StreamEmpty
    <3> QED BY <3>1
  <2>3. loops'[l].pc = pc /\ loops'[l].add = TRUE /\ loops'[l].content = loops[l].content /\ Others
    BY <1>t, <2>2 DEF LoopRecords
  <2>4. CarryInv' /\ AbortInv'
    BY <2>1, <2>3, MessageGoesOn DEF Recorded
  <2>5. Held \subseteq Held'
    <3>1. ASSUME NEW x \in Held PROVE x \in Held'
      <4>1. CASE x \in loops[l].content
        BY <2>3, <4>1, HeldNext DEF Carried
      <4>2. CASE x \in heard /\ x \notin loops[l].content
        BY <2>1, <4>2, HeldNext
      <4>3. CASE Queued(x) \/ InCall(x)
        BY <2>1, <4>3, HeldNext DEF Queued, InCall
      <4>4. CASE Carried(x) /\ x \notin loops[l].content
        BY <2>3, <4>4, HeldNext DEF Carried
      <4> QED BY <4>1, <4>2, <4>3, <4>4, HeldIs
    <3> QED BY <3>1
  <2> QED BY <2>4, <2>5
<1>8. CASE RetryAnswered(l)
  <2>1. ~abort /\ UNCHANGED <<abort, calls>> /\ heard \subseteq heard' /\ Decided
    BY <1>8 DEF RetryAnswered, flags, Decided
  <2>2. loops'[l].pc = "preparing" /\ Others
    BY <1>8, <1>t DEF RetryAnswered, Loop, LoopRecords
  <2>3. CarryInv' /\ AbortInv'
    BY <2>1, <2>2, MessageGoesOn DEF Recorded
  <2> QED BY <2>1, <2>3
<1>9. CASE RetryAborted(l)
  <2>1. End(l) /\ Alive(l) /\ abort /\ UNCHANGED <<abort, disposed, heard>> /\ loops[l].pc = "retrying"
    BY <1>9 DEF RetryAborted, Alive, flags, task
  <2>2. Interrupted
    BY <1>i, <2>1, AbortedByOthers DEF MessageInv
  <2> QED BY <2>1, <2>2, MessageEnd
<1>10. CASE Continue(l)
  <2>1. UNCHANGED <<abort, disposed, calls, heard, queue>> /\ Goto(l, "preparing")
    BY <1>10 DEF Continue, flags, task
  <2>2. CarryInv'
    BY <1>g, <2>1, OneRecorded DEF MessageInv, Recorded
  <2>3. AbortInv'
    <3>1. \A k \in Loops : loops'[k].pc = "preparing" \/ loops'[k] = loops[k]
      BY <1>g, <2>1
    <3> QED BY <2>1, <3>1, StillStopped DEF MessageInv, Stopping
  <2>4. Held \subseteq Held'
    BY <1>g, <2>1, OneHeld
  <2> QED BY <2>2, <2>3, <2>4
<1>11. CASE ReadMail(l)
  <2>1. UNCHANGED <<abort, disposed, loops, calls, heard, queue>>
    BY <1>11 DEF ReadMail, flags, task
  <2> QED BY <2>1 DEF MessageInv, CarryInv, AbortInv, Stopping, Held
<1>12. CASE Ask(l)
  BY <1>12, <1>m, <1>t DEF Ask, flags, Recorded
<1>13. CASE AskAnswered(l)
  BY <1>13, <1>m, <1>t DEF AskAnswered, Asked, flags, Recorded
<1>14. CASE AskAborted(l)
  <2>1. UNCHANGED <<abort, disposed, calls, heard, queue>> /\ Goto(l, "acting") /\ abort /\ Asked(l)
    BY <1>14 DEF AskAborted, flags, task
  <2>2. CarryInv'
    BY <1>g, <1>t, <2>1, OneRecorded DEF MessageInv, Recorded, Asked
  <2>3. AbortInv'
    BY <2>1, AbortedByOthers DEF MessageInv, Asked, AbortInv, Stopping
  <2>4. Held \subseteq Held'
    BY <1>g, <2>1, OneHeld
  <2> QED BY <2>2, <2>3, <2>4
<1>15. CASE AskDrains(l) \/ (Complete(l) /\ queue # <<>> /\ ~child /\ queue' = Tail(queue))
  <2>1. /\ ~abort /\ UNCHANGED <<abort, calls, heard>> /\ queue # <<>> /\ queue' = Tail(queue)
        /\ loops[l].pc \in {"approving", "acting"}
    BY <1>15 DEF AskDrains, Complete, flags
  <2>2. PICK pc \in {"acting", "preparing"} :
           loops' = [loops EXCEPT ![l].pc = pc, ![l].content = @ \cup {Head(queue)}]
    BY <1>15 DEF AskDrains, Complete
  <2>3. /\ loops'[l].pc = pc /\ loops'[l].add = loops[l].add /\ Others
        /\ loops'[l].content = loops[l].content \cup {Head(queue)}
    BY <1>t, <2>2 DEF LoopRecords
  <2>4. loops[l].add
    BY <1>t, <2>1 DEF Recorded
  <2>5. CarryInv' /\ AbortInv'
    BY <2>1, <2>3, <2>4, MessageGoesOn DEF Recorded
  <2>6. ASSUME NEW x \in Held PROVE x \in Held'
    <3>1. CASE x \in heard \/ InCall(x)
      BY <2>1, <3>1, HeldNext DEF InCall
    <3>2. CASE Queued(x)
      <4>1. x = Head(queue) \/ Queued(x)'
        BY <1>t, <2>1, <3>2, RangeTail DEF Queued
      <4> QED BY <2>3, <2>4, <4>1, HeldNext DEF Carried
    <3>3. CASE Carried(x)
      BY <2>3, <3>3, HeldNext DEF Carried
    <3> QED BY <3>1, <3>2, <3>3, HeldIs
  <2> QED BY <2>5, <2>6
<1>16. CASE Complete(l) /\ Goto(l, "finishing") /\ UNCHANGED queue
  BY <1>16, <1>m, <1>t DEF Complete, flags, Recorded
<1>17. CASE Finish(l)
  <2>1. UNCHANGED <<disposed, calls, heard, queue>> /\ Goto(l, "preparing") /\ Alive(l)
    BY <1>17 DEF Finish, task, Alive
  <2>2. CarryInv'
    BY <1>g, <2>1, OneRecorded DEF MessageInv, Recorded
  <2>3. \A k \in Loops : k # l => loops[k].pc = "ended"
    BY <2>1 DEF MessageInv, LoopInv, Alive
  <2>4. \A c \in Calls : calls[c].pc # "saying"
    BY <2>1, LoopAssumption DEF MessageInv, LoopInv, Past
  <2>5. AbortInv'
    BY <1>g, <2>1, <2>3, <2>4 DEF AbortInv
  <2>6. Held \subseteq Held'
    BY <1>g, <2>1, OneHeld
  <2> QED BY <2>2, <2>5, <2>6
<1>18. CASE BackoffEnds(l)
  <2>1. loops[l].pc = "backingoff" /\ Alive(l) /\ heard' = heard
    BY <1>18 DEF BackoffEnds, Alive
  <2>2. CASE ~abort /\ Goto(l, "preparing") /\ UNCHANGED <<abort, disposed, queue, current, calls>>
    BY <1>m, <2>1, <2>2
  <2>3. CASE AbortTask /\ End(l)
    BY <2>1, <2>3, MessageEnd DEF AbortTask, Interrupted
  <2> QED BY <1>18, <2>2, <2>3 DEF BackoffEnds
<1>19. CASE FirstChunkFailed(l)
  <2>1. ~abort /\ UNCHANGED <<abort, calls, heard, queue>> /\ loops[l].pc = "streaming" /\ Goto(l, "failing")
    BY <1>19 DEF FirstChunkFailed, flags
  <2>2. CarryInv' /\ AbortInv'
    BY <1>g, <1>t, <2>1, MessageGoesOn DEF Recorded
  <2>3. Held \subseteq Held'
    BY <1>g, <2>1, OneHeld
  <2> QED BY <2>2, <2>3
<1>20. CASE FailureAborted(l)
  <2>1. /\ UNCHANGED <<abort, disposed, calls, heard, queue>> /\ Goto(l, "streaming")
        /\ abort /\ loops[l].pc = "failing"
    BY <1>20 DEF FailureAborted, flags, task
  <2>2. CarryInv'
    BY <1>g, <1>t, <2>1, OneRecorded DEF MessageInv, Recorded
  <2>3. AbortInv'
    BY <2>1, AbortedByOthers DEF MessageInv, AbortInv, Stopping
  <2>4. Held \subseteq Held'
    BY <1>g, <2>1, OneHeld
  <2> QED BY <2>2, <2>3, <2>4
<1>21. CASE FailureAnswered(l)
  <2>1. ~abort /\ UNCHANGED <<abort, calls, heard>> /\ loops[l].pc = "failing" /\ Decided
    BY <1>21 DEF FailureAnswered, flags, Decided
  <2>2. Recorded(loops'[l], heard') /\ Others
    <3>1. CASE Goto(l, "streaming")
      BY <1>g, <1>t, <2>1, <3>1 DEF Recorded
    <3>2. CASE \E auto \in AutoApproval :
                 loops' = [loops EXCEPT ![l].pc = IF auto THEN "backingoff" ELSE "preparing",
                                        ![l].add = FALSE]
      <4>1. PICK pc \in {"backingoff", "preparing"} : loops' = [loops EXCEPT ![l].pc = pc, ![l].add = FALSE]
        <5>1. PICK auto \in AutoApproval :
                 loops' = [loops EXCEPT ![l].pc = IF auto THEN "backingoff" ELSE "preparing",
                                        ![l].add = FALSE]
          BY <3>2
        <5> QED BY <5>1
      <4>2. loops'[l].pc = pc /\ loops'[l].add = FALSE /\ Others
        BY <1>t, <4>1 DEF LoopRecords
      <4> QED BY <4>2 DEF Recorded
    <3> QED BY <1>21, <3>1, <3>2 DEF FailureAnswered
  <2>3. CarryInv' /\ AbortInv'
    BY <2>1, <2>2, MessageGoesOn
  <2> QED BY <2>1, <2>3
<1>22. CASE Raised(l)
  <2>1. /\ UNCHANGED <<abort, disposed, calls, heard>> /\ loops[l].pc = "raising" /\ loops[l].add
    BY <1>22, <1>t DEF Raised, Recorded, flags, task
  <2>2. AbortInv'
    BY <2>1, AbortedByOthers DEF MessageInv, AbortInv, Stopping
  <2>3. CASE UNCHANGED queue /\ \E pc \in {"acting", "questioning", "approving"} : Goto(l, pc)
    <3>1. PICK pc \in {"acting", "questioning", "approving"} : Goto(l, pc)
      BY <2>3
    <3>2. CarryInv'
      BY <1>g, <2>1, <3>1, OneRecorded DEF MessageInv, Recorded
    <3>3. Held \subseteq Held'
      BY <1>g, <2>1, <2>3, <3>1, OneHeld
    <3> QED BY <2>2, <3>2, <3>3
  <2>4. CASE /\ queue # <<>> /\ queue' = Tail(queue)
             /\ loops' = [loops EXCEPT ![l].pc = "acting", ![l].content = @ \cup {Head(queue)}]
    <3>1. /\ loops'[l].pc = "acting" /\ loops'[l].add /\ Others
          /\ loops'[l].content = loops[l].content \cup {Head(queue)}
      BY <1>t, <2>1, <2>4 DEF LoopRecords
    <3>2. CarryInv'
      BY <2>1, <3>1, OneRecorded DEF MessageInv, Recorded
    <3>3. ASSUME NEW x \in Held PROVE x \in Held'
      <4>1. CASE x \in heard \/ InCall(x)
        BY <2>1, <4>1, HeldNext DEF InCall
      <4>2. CASE Queued(x)
        <5>1. x = Head(queue) \/ Queued(x)'
          BY <1>t, <2>4, <4>2, RangeTail DEF Queued
        <5> QED BY <3>1, <5>1, HeldNext DEF Carried
      <4>3. CASE Carried(x)
        BY <3>1, <4>3, HeldNext DEF Carried
      <4> QED BY <4>1, <4>2, <4>3, HeldIs
    <3> QED BY <2>2, <3>2, <3>3
  <2>5. CASE queue # <<>> /\ queue' = Tail(queue) /\ Goto(l, "approving")
    <3>1. Offered /\ CarryInv'
      BY <1>g, <2>1, <2>5, OneRecorded DEF MessageInv, Recorded, Offered
    <3>2. ASSUME NEW x \in Held, x # Head(queue) PROVE x \in Held'
      <4>1. CASE x \in heard \/ InCall(x)
        BY <2>1, <4>1, HeldNext DEF InCall
      <4>2. CASE Queued(x)
        BY <1>t, <2>5, <3>2, <4>2, RangeTail, HeldNext DEF Queued
      <4>3. CASE Carried(x)
        BY <1>g, <2>5, <4>3, HeldNext DEF Carried
      <4> QED BY <4>1, <4>2, <4>3, HeldIs
    <3> QED BY <2>2, <3>1, <3>2
  <2> QED BY <1>22, <2>3, <2>4, <2>5 DEF Raised
<1> QED BY <1>1, <1>2, <1>3, <1>4, <1>5, <1>6, <1>7, <1>8, <1>9, <1>10, <1>11, <1>12, <1>13,
           <1>14, <1>15, <1>16, <1>17, <1>18, <1>19, <1>20, <1>21, <1>22 DEF LoopStep, Runs, Complete

(* A resumption, late or not, carries the message that answers it. *)
LEMMA MessageResume ==
    ASSUME MessageInv, NEW l \in Loops, Resume(l)
    PROVE  CarryInv' /\ AbortInv' /\ Held \subseteq Held'
<1>1. /\ ~abort /\ UNCHANGED <<abort, disposed, calls, heard>> /\ ~Alive(l) /\ queue \in Seq(Turns)
      /\ loops[l] = Ended
  BY DEF Resume, flags, MessageInv, TInv, TypeOK, CarryInv, Recorded, Alive
<1>2. PICK content \in SUBSET Turns :
         /\ loops' = [loops EXCEPT ![l] = Loop("starting", content, TRUE)]
         /\ \/ queue' = queue
            \/ queue # <<>> /\ queue' = Tail(queue) /\ content = {Head(queue)}
  <2>1. {} \in SUBSET Turns
    OBVIOUS
  <2>2. CASE loops' = [loops EXCEPT ![l] = Loop("starting", {}, TRUE)] /\ UNCHANGED queue
    BY <2>1, <2>2
  <2>3. CASE /\ queue # <<>> /\ queue' = Tail(queue)
             /\ loops' = [loops EXCEPT ![l] = Loop("starting", {Head(queue)}, TRUE)]
    <3>1. {Head(queue)} \in SUBSET Turns
      BY <1>1, <2>3, HeadTailProperties
    <3> QED BY <2>3, <3>1
  <2> QED BY <2>2, <2>3 DEF Resume
<1>3. loops'[l] = Loop("starting", content, TRUE) /\ \A k \in Loops : k # l => loops'[k] = loops[k]
  BY <1>2 DEF MessageInv, TInv, TypeOK
<1>4. CarryInv' /\ AbortInv'
  BY <1>1, <1>3, MessageGoesOn DEF Recorded, Loop
<1>5. ASSUME NEW x \in Held PROVE x \in Held'
  <2>1. CASE x \in heard \/ InCall(x)
    BY <1>1, <2>1, HeldNext DEF InCall
  <2>2. CASE Queued(x)
    <3>1. Queued(x)' \/ x \in content
      BY <1>1, <1>2, <2>2, RangeTail DEF Queued
    <3> QED BY <1>3, <3>1, HeldNext DEF Carried, Loop
  <2>3. CASE Carried(x)
    <3>1. PICK k \in Loops : loops[k].add /\ x \in loops[k].content
      BY <2>3 DEF Carried
    <3>2. k # l
      BY <1>1, <3>1 DEF Ended
    <3> QED BY <1>3, <3>1, <3>2, HeldNext DEF Carried
  <2> QED BY <2>1, <2>2, <2>3, HeldIs
<1> QED BY <1>4, <1>5

(* With calls of cancelAndProcessQueuedMessages that never overlap, a message *)
(* the user sent stays where a request will find it, whatever answers, errors *)
(* and retries the loop meets. What drops one is named by the property: an    *)
(* interruption, the end of an aborted loop at its head, the user's answer to *)
(* a failed request, an approval that is offered the message before it waits, *)
(* or a late resumption.                                                      *)
THEOREM MessagesAreCarried ==
    ASSUME \A c, d \in Calls : c = d
    PROVE  Spec => LostOnlyByStop
<1> DEFINE Safe == TInv /\ (Timely => LoopInv /\ CarryInv /\ AbortInv)
           Body == \/ Lost' \subseteq Lost
                   \/ Offered /\ Lost' \subseteq Lost \cup {Head(queue)}
                   \/ Interrupted \/ AtHead \/ Decided
                   \/ resume = "late"
<1>1. Init => Safe
  <2> SUFFICES ASSUME Init PROVE CarryInv /\ AbortInv
    BY OneLoopInit
  <2>1. \A l \in Loops : loops[l] = Ended \/ loops[l] = Loop("starting", {}, TRUE)
    BY DEF Init
  <2>2. CarryInv
    BY <2>1 DEF CarryInv, Recorded, Loop, Ended
  <2>3. AbortInv
    BY DEF Init, AbortInv
  <2> QED BY <2>2, <2>3
<1>2. Safe /\ [Next]_vars => Safe' /\ [Body]_vars
  <2>0. SUFFICES ASSUME Safe, [Next]_vars PROVE Safe' /\ (Body \/ UNCHANGED vars)
    OBVIOUS
  <2>1. TInv /\ (Timely => LoopInv) /\ TInv' /\ (Timely' => LoopInv')
    BY <2>0, OneLoopStep
  <2>2. CASE ~Timely
    <3>1. ~Timely'
      BY <2>0, <2>1, <2>2, StaysLate
    <3> QED BY <2>1, <2>2, <3>1 DEF Timely
  <2>3. ASSUME Timely PROVE (Timely' => CarryInv' /\ AbortInv') /\ (Body \/ UNCHANGED vars)
    <3>m. MessageInv
      BY <2>0, <2>3 DEF MessageInv
    <3>1. CASE User
      BY <3>m, <3>1, MessageUser DEF Interrupted
    <3>2. ASSUME NEW c \in Calls, CallStep(c) PROVE CarryInv' /\ AbortInv' /\ Lost' \subseteq Lost
      <4>1. sent' = sent
        BY <3>2 DEF CallStep, Persisted, Restart
      <4> QED BY <3>m, <3>2, <4>1, MessageCall DEF Lost
    <3>3. ASSUME NEW w \in Wakes, Deliver(w) PROVE CarryInv' /\ AbortInv' /\ Lost' \subseteq Lost
      BY <3>m, <3>3, MessageDeliver
    <3>4. ASSUME NEW l \in Loops, LoopStep(l) PROVE CarryInv' /\ AbortInv' /\ Body
      <4>1. sent' = sent
        BY <3>m, <3>4, LoopFlags DEF MessageInv
      <4> QED BY <3>m, <3>4, <4>1, MessageLoop DEF Lost
    <3>5. CASE UNCHANGED vars
      BY <3>m, <3>5 DEF vars, MessageInv, CarryInv, AbortInv, Stopping
    <3>6. ASSUME NEW l \in Loops, Resume(l) PROVE CarryInv' /\ AbortInv' /\ Lost' \subseteq Lost
      <4>1. sent' = sent
        BY <3>6 DEF Resume
      <4> QED BY <3>m, <3>6, <4>1, MessageResume DEF Lost
    <3>7. CASE ResumeAborted
      <4>1. UNCHANGED <<abort, disposed, queue, loops, calls, heard, sent>>
        BY <3>7 DEF ResumeAborted, flags
      <4> QED BY <3>m, <4>1 DEF MessageInv, CarryInv, AbortInv, Stopping, Lost, Held
    <3> QED BY <2>0, <3>1, <3>2, <3>3, <3>4, <3>5, <3>6, <3>7 DEF Next, Rest
  <2> QED BY <2>1, <2>2, <2>3
<1> QED BY <1>1, <1>2, PTL DEF Spec, LostOnlyByStop
=============================================================================
