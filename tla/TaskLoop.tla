------------------------------ MODULE TaskLoop ------------------------------
(***************************************************************************)
(* The agent loop of one task instance (Task.ts) and everything that stops *)
(* and restarts it: the queue of user messages, "Send Now"                 *)
(* (cancelAndProcessQueuedMessages), wake deliveries to the mailbox,       *)
(* completion (AttemptCompletionTool) and cancellation (ShoferProvider).   *)
(*                                                                         *)
(* One step is the code between two awaits. A loop holds in `content` what *)
(* its next request carries; the request puts it in the conversation       *)
(* (`heard`), which is what the model sees and what is saved.              *)
(***************************************************************************)
EXTENDS FiniteSets, Functions, Sequences

CONSTANTS
    Messages,      \* what the user types, each sent once
    Wakes,         \* envelopes delivered with wake set, each once
    Calls,         \* cancelAndProcessQueuedMessages invocations in flight at a time
    Loops,         \* agent loops that can be alive at a time
    AutoApproval,  \* values of the autoApprovalEnabled setting while the task runs
    Child,         \* whether the task has a parent: then its completion skips the queue
    Faults,        \* what may go wrong: "cancel", "kill", "failure", "empty"
    WakeTurn,      \* the fixed text of a wake turn (MAILBOX_WAKE_TURN_TEXT)
    NoMessage, NoLoop

ASSUME LoopAssumption ==
    /\ WakeTurn \notin Messages
    /\ NoMessage \notin Messages \cup {WakeTurn}
    /\ NoLoop \notin Loops
    /\ AutoApproval \subseteq BOOLEAN /\ AutoApproval # {}
    /\ Child \subseteq BOOLEAN /\ Child # {}
    /\ Faults \subseteq {"cancel", "kill", "failure", "empty"}

VARIABLES
    abort, abandoned, softCancel,   \* the flags of the task
    queue,        \* MessageQueueService
    loops,        \* the agent loops
    current,      \* the loop whose promise the task holds
    calls,        \* the cancelAndProcessQueuedMessages invocations
    heard,        \* turns that are in the API conversation
    unread,       \* wake envelopes no request or read has shown the agent
    delivering,   \* deliveries between storing the envelope and looking at the flags
    sent, woken,  \* messages and wakes used up
    child,        \* the task has a parent
    cancelling,   \* progress of the user's cancel
    resume,       \* the ask of a task taken from the history: open, or answered beside other work
    disposed      \* abortTask has run

vars == <<abort, abandoned, softCancel, queue, loops, current, calls, heard,
          unread, delivering, sent, woken, child, cancelling, resume, disposed>>
flags == <<abort, abandoned, softCancel>>
mail  == <<unread, delivering, woken>>
task  == <<child, cancelling, resume, disposed>>

Turns == Messages \cup {WakeTurn}

(***************************************************************************)
(* A loop starts, prepares a request, streams the answer and acts on it;   *)
(* acting may wait for an approval, for an answer to a question or, after  *)
(* an empty answer, for a decision to retry; a request of which nothing    *)
(* came back may wait for one, too. `add` says whether the next request    *)
(* will put `content` in the conversation.                                 *)
(***************************************************************************)
LoopStates == {"ended", "starting", "preparing", "streaming", "backingoff", "failing",
               "acting", "raising", "approving", "questioning", "retrying", "finishing"}
LoopRecords == [pc : LoopStates, content : SUBSET Turns, add : BOOLEAN]
Ended == [pc |-> "ended", content |-> {}, add |-> FALSE]
Alive(l) == loops[l].pc # "ended"

CallStates == {"idle", "waiting", "persisting", "saying"}
CallRecords == [pc : CallStates, message : Turns \cup {NoMessage}]
Idle == [pc |-> "idle", message |-> NoMessage]

Loop(pc, content, add) == [pc |-> pc, content |-> content, add |-> add]

Goto(l, pc) == loops' = [loops EXCEPT ![l].pc = pc]

(* The promise of a loop settles: every call awaiting it runs on to the wait for the persist. *)
End(l) ==
    /\ loops' = [loops EXCEPT ![l] = Ended]
    /\ current' = IF current = l THEN NoLoop ELSE current
    /\ calls' = [c \in Calls |->
                    IF calls[c].pc = "waiting" /\ current = l
                    THEN [pc |-> "persisting", message |-> calls[c].message] ELSE calls[c]]

Init ==
    /\ abort = FALSE /\ abandoned = FALSE /\ softCancel = FALSE
    /\ queue = <<>>
    /\ \/ /\ resume = "none"
          /\ \E l \in Loops :
                /\ loops = [k \in Loops |-> IF k = l THEN Loop("starting", {}, TRUE) ELSE Ended]
                /\ current = l
       \/ /\ resume = "asked"
          /\ loops = [k \in Loops |-> Ended]
          /\ current = NoLoop
    /\ calls = [c \in Calls |-> Idle]
    /\ heard = {}
    /\ unread = {} /\ delivering = {} /\ woken = {}
    /\ sent = {}
    /\ child \in Child
    /\ cancelling = "no" /\ disposed = FALSE

-----------------------------------------------------------------------------
(* cancelAndProcessQueuedMessages: the head of the queue `q` is taken at the call. *)
InterruptUnawaited(c, q) ==
    /\ calls[c] = Idle
    /\ q # <<>>
    /\ queue' = Tail(q)
    /\ softCancel' = TRUE
    /\ abort' = TRUE
    /\ calls' = [calls EXCEPT ![c] = [pc |-> "persisting", message |-> Head(q)]]
Interrupt(c, q) ==
    /\ calls[c] = Idle
    /\ q # <<>>
    /\ queue' = Tail(q)
    /\ softCancel' = TRUE
    /\ abort' = TRUE
    /\ calls' = [calls EXCEPT ![c] = [pc |-> IF current = NoLoop THEN "persisting" ELSE "waiting",
                                      message |-> Head(q)]]

PersistedStillAborted(c) ==
    /\ calls[c].pc = "persisting"
    /\ softCancel' = FALSE
    /\ calls' = [calls EXCEPT ![c].pc = "saying"]
    /\ UNCHANGED <<abort, abandoned, queue, loops, current, heard, mail, sent, task>>
Persisted(c) ==
    /\ calls[c].pc = "persisting"
    /\ softCancel' = FALSE
    /\ abort' = FALSE
    /\ calls' = [calls EXCEPT ![c].pc = "saying"]
    /\ UNCHANGED <<abandoned, queue, loops, current, heard, mail, sent, task>>

Restart(c) ==
    /\ calls[c].pc = "saying"
    /\ calls' = [calls EXCEPT ![c] = Idle]
    /\ \E l \in Loops :
          /\ ~Alive(l)
          /\ loops' = [loops EXCEPT ![l] = Loop("starting", {calls[c].message}, TRUE)]
          /\ current' = l
    /\ UNCHANGED <<flags, queue, heard, mail, sent, task>>

(* The user types a message; a stopped loop is restarted at once. *)
QueueMessage(m) ==
    /\ m \notin sent
    /\ cancelling # "replaced"
    /\ sent' = sent \cup {m}
    /\ \/ /\ ~abort
          /\ queue' = Append(queue, m)
          /\ UNCHANGED <<abort, softCancel, calls>>
       \/ /\ abort
          /\ \E c \in Calls : Interrupt(c, Append(queue, m))
    /\ UNCHANGED <<abandoned, loops, current, heard, mail, task>>

(* The user presses Send Now. *)
SendNow ==
    /\ cancelling # "replaced"
    /\ \E c \in Calls : Interrupt(c, queue)
    /\ UNCHANGED <<abandoned, loops, current, heard, mail, sent, task>>

(* Task.deliver, up to the envelope being in the mailbox. *)
DeliverStore(w) ==
    /\ w \notin woken
    /\ cancelling # "replaced"
    /\ woken' = woken \cup {w}
    /\ unread' = unread \cup {w}
    /\ delivering' = delivering \cup {w}
    /\ UNCHANGED <<flags, queue, loops, current, calls, heard, sent, task>>

(* Task.deliver, after it: only a stopped loop is woken, and by one turn. *)
DeliverWake(w) ==
    /\ w \in delivering
    /\ delivering' = delivering \ {w}
    /\ \/ /\ ~abort /\ ~abandoned
          /\ UNCHANGED <<flags, queue, calls>>
       \/ /\ abort \/ abandoned
          /\ WakeTurn \in Range(queue)
          /\ UNCHANGED <<flags, queue, calls>>
       \/ /\ abort \/ abandoned
          /\ WakeTurn \notin Range(queue)
          /\ \E c \in Calls : Interrupt(c, Append(queue, WakeTurn))
          /\ UNCHANGED abandoned
    /\ UNCHANGED <<loops, current, heard, unread, woken, sent, task>>

-----------------------------------------------------------------------------
(* resumeTaskFromHistory: the user or a queued message answers the resume ask, which starts a loop.
   A Send Now that came meanwhile has found no loop to wait for: the resumption is late. *)
Resume(l) ==
    /\ resume = "asked" /\ ~abort
    /\ ~Alive(l)
    /\ \/ /\ loops' = [loops EXCEPT ![l] = Loop("starting", {}, TRUE)]
          /\ UNCHANGED queue
       \/ /\ queue # <<>>
          /\ loops' = [loops EXCEPT ![l] = Loop("starting", {Head(queue)}, TRUE)]
          /\ queue' = Tail(queue)
    /\ current' = l
    /\ resume' = IF current = NoLoop /\ \A c \in Calls : calls[c] = Idle THEN "none" ELSE "late"
    /\ UNCHANGED <<flags, calls, heard, mail, sent, child, cancelling, disposed>>

(* Its poll finds the task aborted. *)
ResumeAborted ==
    /\ resume = "asked" /\ abort
    /\ resume' = "none"
    /\ UNCHANGED <<flags, queue, loops, current, calls, heard, mail, sent, child, cancelling, disposed>>

(* An ask takes the place of the one that is open. *)
Supersedes == resume' = IF resume = "asked" THEN "none" ELSE resume

(* The check of `while (!this.abort)`, once the task's lease is claimed. *)
Enter(l) ==
    /\ loops[l].pc = "starting"
    /\ \/ abort /\ End(l)
       \/ ~abort /\ Goto(l, "preparing") /\ UNCHANGED <<current, calls>>
    /\ UNCHANGED <<flags, queue, heard, mail, sent, task>>

(* The request is announced (say throws once aborted), given the digest of the mailbox and recorded. *)
Prepare(l) ==
    /\ loops[l].pc = "preparing"
    /\ \/ /\ abort
          /\ End(l)
          /\ UNCHANGED <<heard, unread>>
       \/ /\ ~abort
          /\ Goto(l, "streaming")
          /\ heard' = IF loops[l].add THEN heard \cup loops[l].content ELSE heard
          /\ unread' = {}
          /\ UNCHANGED <<current, calls>>
    /\ UNCHANGED <<flags, queue, delivering, woken, sent, task>>

Streamed(l) ==
    /\ loops[l].pc = "streaming"
    /\ ~abort /\ ~abandoned
    /\ loops' = [loops EXCEPT ![l] = Loop("acting", {}, TRUE)]
    /\ UNCHANGED <<flags, queue, current, calls, heard, mail, sent, task>>

(* abortTask: the flags, and dispose() wipes the queue. *)
AbortTask ==
    /\ abort' = TRUE
    /\ disposed' = TRUE
    /\ queue' = <<>>

(* An aborted stream unwinds; without the soft-cancel mark it disposes of the task. *)
StreamAborted(l) ==
    /\ loops[l].pc = "streaming"
    /\ abort \/ abandoned
    /\ End(l)
    /\ \/ /\ softCancel \/ abandoned
          /\ UNCHANGED <<abort, disposed, queue>>
       \/ /\ ~softCancel /\ ~abandoned
          /\ AbortTask
    /\ UNCHANGED <<abandoned, softCancel, heard, mail, sent, child, cancelling, resume>>

(* A failed stream is retried, under auto-approval after a pause; what it carried is recorded already. *)
StreamRetried(l) ==
    /\ loops[l].pc = "streaming"
    /\ ~abort /\ ~abandoned
    /\ \E auto \in AutoApproval :
          loops' = [loops EXCEPT ![l].pc = IF auto THEN "backingoff" ELSE "preparing",
                                 ![l].add = FALSE]
    /\ UNCHANGED <<flags, queue, current, calls, heard, mail, sent, task>>

(* Without auto-approval the failure of the first chunk is put to the user, ... *)
FirstChunkFailed(l) ==
    /\ loops[l].pc = "streaming"
    /\ ~abort /\ ~abandoned
    /\ FALSE \in AutoApproval
    /\ Goto(l, "failing")
    /\ Supersedes
    /\ UNCHANGED <<flags, queue, current, calls, heard, mail, sent, child, cancelling, disposed>>

(* ... who has it tried again; a no, which a queued message counts as, is a failed stream. *)
FailureAnswered(l) ==
    /\ loops[l].pc = "failing" /\ ~abort
    /\ \/ Goto(l, "streaming") /\ UNCHANGED queue
       \/ /\ \E auto \in AutoApproval :
                loops' = [loops EXCEPT ![l].pc = IF auto THEN "backingoff" ELSE "preparing",
                                       ![l].add = FALSE]
          /\ \/ UNCHANGED queue
             \/ queue # <<>> /\ queue' = Tail(queue)
    /\ UNCHANGED <<flags, current, calls, heard, mail, sent, task>>
FailureAborted(l) ==
    /\ loops[l].pc = "failing" /\ abort
    /\ Goto(l, "streaming")
    /\ UNCHANGED <<flags, queue, current, calls, heard, mail, sent, task>>

(* An abort during the pause disposes of the task, a soft cancel's too. *)
BackoffEnds(l) ==
    /\ loops[l].pc = "backingoff"
    /\ \/ /\ ~abort
          /\ Goto(l, "preparing")
          /\ UNCHANGED <<abort, disposed, queue, current, calls>>
       \/ /\ abort
          /\ AbortTask
          /\ End(l)
    /\ UNCHANGED <<abandoned, softCancel, heard, mail, sent, child, cancelling, resume>>

(* A failure no retry can cure, or the end of the retry budget. *)
StreamFailed(l) ==
    /\ "failure" \in Faults
    /\ loops[l].pc = "streaming"
    /\ ~abort /\ ~abandoned
    /\ AbortTask
    /\ End(l)
    /\ UNCHANGED <<abandoned, softCancel, heard, mail, sent, child, cancelling, resume>>

(* An empty answer: the turn is taken out of the conversation and retried. *)
StreamEmptyNotReadded(l) ==
    /\ "empty" \in Faults
    /\ loops[l].pc = "streaming"
    /\ ~abort /\ ~abandoned
    /\ heard' = heard \ loops[l].content
    /\ loops' = [loops EXCEPT ![l].pc = "preparing", ![l].add = FALSE]
    /\ UNCHANGED <<flags, queue, current, calls, mail, sent, task>>
StreamEmpty(l) ==
    /\ "empty" \in Faults
    /\ loops[l].pc = "streaming"
    /\ ~abort /\ ~abandoned
    /\ heard' = heard \ loops[l].content
    /\ \E auto \in AutoApproval :
          loops' = [loops EXCEPT ![l].pc = IF auto THEN "preparing" ELSE "retrying",
                                 ![l].add = TRUE]
    /\ Supersedes
    /\ UNCHANGED <<flags, queue, current, calls, mail, sent, child, cancelling, disposed>>

(* The api_req_failed ask is answered yes, or no; a queued message counts as no. *)
RetryAnswered(l) ==
    /\ loops[l].pc = "retrying"
    /\ ~abort
    /\ \/ /\ loops' = [loops EXCEPT ![l].pc = "preparing", ![l].add = FALSE]
          /\ UNCHANGED <<queue, heard>>
       \/ /\ heard' = heard \cup loops[l].content
          /\ loops' = [loops EXCEPT ![l] = Loop("preparing", {}, TRUE)]
          /\ \/ UNCHANGED queue
             \/ queue # <<>> /\ queue' = Tail(queue)
    /\ UNCHANGED <<flags, current, calls, mail, sent, task>>
RetryAborted(l) ==
    /\ loops[l].pc = "retrying"
    /\ abort
    /\ End(l)
    /\ UNCHANGED <<flags, queue, heard, mail, sent, task>>

-----------------------------------------------------------------------------
(* The tools have run, or the model is told to use one: the next request. *)
Continue(l) ==
    /\ loops[l].pc = "acting"
    /\ Goto(l, "preparing")
    /\ UNCHANGED <<flags, queue, current, calls, heard, mail, sent, task>>

(* The wait tool hands the agent its mail. *)
ReadMail(l) ==
    /\ loops[l].pc = "acting"
    /\ ~abort
    /\ unread # {}
    /\ unread' = {}
    /\ UNCHANGED <<flags, queue, loops, current, calls, heard, delivering, woken, sent, task>>

(* A tool asks for an approval or puts a question: the ask is recorded and decided on ... *)
Ask(l) ==
    /\ loops[l].pc = "acting"
    /\ ~abort
    /\ Goto(l, "raising")
    /\ Supersedes
    /\ UNCHANGED <<flags, queue, current, calls, heard, mail, sent, child, cancelling, disposed>>

(* ... and approved without being put, or waits. A message that is already queued is offered to an
   approval before it waits: it answers for a task being stopped, otherwise it is dropped. *)
Raised(l) ==
    /\ loops[l].pc = "raising"
    /\ \/ /\ \E pc \in {"acting", "questioning"} : Goto(l, pc)
          /\ UNCHANGED queue
       \/ /\ queue = <<>>
          /\ Goto(l, "approving")
          /\ UNCHANGED queue
       \/ /\ queue # <<>>
          /\ queue' = Tail(queue)
          /\ \/ /\ abort \/ abandoned
                /\ loops' = [loops EXCEPT ![l].pc = "acting", ![l].content = @ \cup {Head(queue)}]
             \/ /\ ~abort /\ ~abandoned
                /\ Goto(l, "approving")
    /\ UNCHANGED <<flags, current, calls, heard, mail, sent, task>>

(* The ask is answered in the chat, or unwinds because the task is aborted. *)
Asked(l) == loops[l].pc \in {"approving", "questioning"}
AskAnswered(l) ==
    /\ Asked(l) /\ ~abort
    /\ Goto(l, "acting")
    /\ UNCHANGED <<flags, queue, current, calls, heard, mail, sent, task>>
AskAbortedAsksAgain(l) ==
    /\ Asked(l) /\ abort
    /\ Goto(l, IF loops[l].pc = "approving" THEN "acting" ELSE "questioning")
    /\ UNCHANGED <<flags, queue, current, calls, heard, mail, sent, task>>
AskAborted(l) ==
    /\ Asked(l) /\ abort
    /\ Goto(l, "acting")
    /\ UNCHANGED <<flags, queue, current, calls, heard, mail, sent, task>>

(* An approval that waits takes the head of the queue as its answer. *)
AskDrains(l) ==
    /\ loops[l].pc = "approving"
    /\ ~abort
    /\ queue # <<>>
    /\ queue' = Tail(queue)
    /\ loops' = [loops EXCEPT ![l].pc = "acting", ![l].content = @ \cup {Head(queue)}]
    /\ UNCHANGED <<flags, current, calls, heard, mail, sent, task>>

(* attempt_completion: a queued message continues the turn, otherwise the task finishes. *)
Complete(l) ==
    /\ loops[l].pc = "acting"
    /\ ~abort
    /\ \/ /\ ~child /\ queue # <<>>
          /\ queue' = Tail(queue)
          /\ loops' = [loops EXCEPT ![l].pc = "preparing", ![l].content = @ \cup {Head(queue)}]
       \/ /\ child \/ queue = <<>>
          /\ Goto(l, "finishing")
          /\ UNCHANGED queue
    /\ UNCHANGED <<flags, current, calls, heard, mail, sent, task>>

(* Completion is announced once its artefacts are saved; the loop meets the abort flag at its head. *)
Finish(l) ==
    /\ loops[l].pc = "finishing"
    /\ abort' = TRUE
    /\ Goto(l, "preparing")
    /\ UNCHANGED <<abandoned, softCancel, queue, current, calls, heard, mail, sent, task>>

-----------------------------------------------------------------------------
(* ShoferProvider.cancelTask: a terminal task is left alone; then abandon, abort, replace. *)
Cancel ==
    /\ "cancel" \in Faults
    /\ \/ /\ cancelling = "no" /\ ~abort /\ ~abandoned
          /\ cancelling' = "asked"
          /\ UNCHANGED <<abandoned, abort, disposed, queue>>
       \/ /\ cancelling = "asked"
          /\ cancelling' = "marked"
          /\ abandoned' = TRUE
          /\ UNCHANGED <<abort, disposed, queue>>
       \/ /\ cancelling \in {"marked", "aborted"}
          /\ cancelling' = IF cancelling = "marked" THEN "aborted" ELSE "replaced"
          /\ AbortTask
          /\ UNCHANGED abandoned
    /\ UNCHANGED <<softCancel, loops, current, calls, heard, mail, sent, child, resume>>

(* abortTask from elsewhere: the store lease is lost, a parent ends or cancels the task. *)
Killed ==
    /\ "kill" \in Faults
    /\ ~disposed
    /\ AbortTask
    /\ UNCHANGED <<abandoned, softCancel, loops, current, calls, heard, mail, sent, child, cancelling, resume>>

User == SendNow \/ (\E m \in Messages : QueueMessage(m)) \/ Cancel \/ Killed
CallStep(c) == Persisted(c) \/ Restart(c)
Deliver(w) == DeliverStore(w) \/ DeliverWake(w)
(* Steps a loop takes by itself, without the user's answer. *)
Runs(l) == \/ Enter(l) \/ Prepare(l) \/ Streamed(l) \/ StreamAborted(l)
           \/ BackoffEnds(l) \/ Continue(l) \/ AskAborted(l) \/ Complete(l) \/ Finish(l)
           \/ RetryAborted(l) \/ FailureAborted(l) \/ Raised(l)
LoopStep(l) == \/ Runs(l) \/ StreamRetried(l) \/ StreamFailed(l) \/ StreamEmpty(l)
               \/ ReadMail(l) \/ Ask(l) \/ AskAnswered(l) \/ AskDrains(l)
               \/ RetryAnswered(l) \/ FirstChunkFailed(l) \/ FailureAnswered(l)

(* A stopped task may stay stopped. *)
Resting == (\A l \in Loops : ~Alive(l)) /\ (\A c \in Calls : calls[c] = Idle) /\ delivering = {}
Rest == Resting /\ UNCHANGED vars

Next == \/ User
        \/ \E c \in Calls : CallStep(c)
        \/ \E w \in Wakes : Deliver(w)
        \/ \E l \in Loops : LoopStep(l) \/ Resume(l)
        \/ ResumeAborted
        \/ Rest

Spec == Init /\ [][Next]_vars

(* The event loop runs what is ready; a stream ends and a persist settles. The user owes nothing. *)
FairSpec == /\ Spec
            /\ \A c \in Calls : WF_vars(CallStep(c))
            /\ \A w \in Wakes : WF_vars(DeliverWake(w))
            /\ \A l \in Loops : WF_vars(Runs(l))
(* The runs end where a late resumption begins, of which the properties claim nothing. *)
Timely == resume # "late"
-----------------------------------------------------------------------------
(* Type invariant of the task. *)
TypeOK ==
    /\ abort \in BOOLEAN /\ abandoned \in BOOLEAN /\ softCancel \in BOOLEAN
    /\ queue \in Seq(Turns)
    /\ loops \in [Loops -> LoopRecords]
    /\ current \in Loops \cup {NoLoop}
    /\ calls \in [Calls -> CallRecords]
    /\ heard \subseteq Turns
    /\ unread \subseteq Wakes /\ delivering \subseteq Wakes /\ woken \subseteq Wakes
    /\ sent \subseteq Messages
    /\ child \in BOOLEAN
    /\ resume \in {"none", "asked", "late"}
    /\ cancelling \in {"no", "asked", "marked", "aborted", "replaced"} /\ disposed \in BOOLEAN

(* Two loops of one task never run at once: Step 3 of cancelAndProcessQueuedMessages
   waits for the old loop, whose retries would otherwise write the same conversation. What it does
   not wait for is the resume ask of a task taken from the history, which may be answered late. *)
OneLoop == resume # "late" => \A l, k \in Loops : Alive(l) /\ Alive(k) => l = k

(* Where a sent message still is: queued, in a call's hands, carried to the next request, or heard. *)
Held == heard \cup Range(queue)
              \cup {calls[c].message : c \in Calls}
              \cup UNION {loops[l].content : l \in {k \in Loops : loops[k].add}}
Lost == sent \ Held

(* A message is lost only with the work that carried it, when that is stopped: while a Send Now
   waits for the loop, by abortTask, or when a loop comes back to its head and finds the task
   aborted. Two asks drop one besides: an approval the message it finds queued before it waits,
   and the decision on a failed request, which a message makes without being heard. No other ask,
   no restart and no retry the loop makes by itself loses one. *)
Interrupted == disposed' \/ abandoned \/ \E c \in Calls : calls[c].pc \in {"waiting", "persisting"}
AtHead == \E l \in Loops : loops[l].pc = "preparing" /\ abort /\ loops'[l] = Ended
Decided == \E l \in Loops : RetryAnswered(l) \/ FailureAnswered(l)
Offered == \E l \in Loops : loops[l].pc = "raising" /\ loops'[l].pc = "approving"
LostOnlyByStop ==
    [][\/ Lost' \subseteq Lost
       \/ Offered /\ Lost' \subseteq Lost \cup {Head(queue)}
       \/ Interrupted \/ AtHead \/ Decided
       \/ resume = "late"]_vars

(* A Send Now never hangs on the loop it stops, whatever the loop waits for. *)
SendNowReturns == \A c \in Calls : calls[c].pc # "idle" ~> calls[c].pc = "idle"

(* What a Send Now took from the queue is heard, unless another turn is sent now, the task is given up
   or a late resumption runs beside its loop. *)
SendNowHeard == \A m \in Messages :
    (\E c \in Calls : calls[c].message = m) ~>
        \/ m \in heard \/ abandoned \/ disposed \/ resume = "late"
        \/ \E c \in Calls : calls[c].message \notin {m, NoMessage}

=============================================================================
