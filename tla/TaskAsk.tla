------------------------------- MODULE TaskAsk -------------------------------
(***************************************************************************)
(* How one task asks and is answered: Task.ask, handleWebviewAskResponse,  *)
(* the queue of user messages an ask may drain, processQueuedMessages, the *)
(* delayed auto-approval and Send Now.                                     *)
(*                                                                         *)
(* All asks of a task share one answer slot, one `current` ask and one     *)
(* flag that says an ask is waiting. An ask does not see its answer when   *)
(* it is given but at its next poll, up to 100 ms later; whatever happens  *)
(* in between finds the slot full.                                         *)
(***************************************************************************)
EXTENDS Naturals, Sequences, FiniteSets

CONSTANTS
    MaxAsk,      \* asks of the task
    MaxMessage,  \* messages of the user
    Kinds,       \* kinds of ask: "approval", "followup", "other"
    Overlap,     \* an ask may be raised while another is outstanding
    None         \* no ask, no message

Ask == 1 .. MaxAsk

VARIABLES
    pc,         \* of each ask: "new", "deciding", "waiting" and how it ended
    kind,       \* of each ask
    result,     \* the answer each ask returned
    current,    \* _currentAskId
    slot,       \* askResponse and its text
    awaiting,   \* isAwaitingAskResponse
    timers,     \* the asks whose auto-approval timer will fire
    timerRef,   \* autoApprovalTimeoutRef: the ask whose timer it is
    queue,      \* messageQueueService
    submitting, \* messages processQueuedMessages took, before they are submitted
    abort,      \* Task.abort, set by Send Now until the loop is restarted
    carried,    \* the message Send Now took
    sent,       \* messages the user has sent, numbered in the order of sending
    queued,     \* history: the messages that were sent to the queue
    restarted,  \* history: the messages Send Now gave to a new loop
    overtaken,  \* history: messages whose answer was overwritten or came too late
    unclaimed   \* history: messages that went with an approval no ask awaited

asks == <<pc, kind, result, current>>
timing == <<timers, timerRef>>
sending == <<carried, sent, queued, restarted>>
losing == <<overtaken, unclaimed>>
vars == <<asks, slot, awaiting, timing, queue, submitting, abort, sending, losing>>

(* A message of the user, or the suggestion a timer gives as the answer to an ask. *)
User(n) == [by |-> "user", n |-> n]
Suggestion(a) == [by |-> "timer", n |-> a]
Messages == {User(n) : n \in 1 .. MaxMessage} \cup {Suggestion(a) : a \in Ask}

(* `to` is the askId the view echoes; submitted messages and timers have none. *)
Answers == [say : {"button", "message"}, text : Messages \cup {None}, to : Ask \cup {None}]

ASSUME AskAssumption ==
    /\ MaxAsk \in Nat /\ MaxMessage \in Nat
    /\ Kinds \subseteq {"approval", "followup", "other"}
    /\ Overlap \in BOOLEAN
    /\ None \notin Nat \cup Messages \cup Answers

Button(a) == [say |-> "button", text |-> None, to |-> a]
Text(m, a) == [say |-> "message", text |-> m, to |-> a]
Approve(m) == [say |-> "button", text |-> m, to |-> None]

(* command_output, which is approved before it waits, is the other ask that drains nothing. *)
Drains(a) == kind[a] # "followup"
(* A queued message approves a tool and goes along with the approval. *)
Drained(a, m) == IF kind[a] = "approval" THEN Approve(m) ELSE Text(m, None)

Outstanding(a) == pc[a] \in {"deciding", "waiting"}
Sequential == \A a \in Ask : ~Outstanding(a)

Init ==
    /\ pc = [a \in Ask |-> "new"]
    /\ kind \in [Ask -> Kinds]
    /\ result = [a \in Ask |-> None]
    /\ current = None
    /\ slot = None
    /\ awaiting = FALSE
    /\ timers = {} /\ timerRef = None
    /\ queue = <<>> /\ submitting = <<>>
    /\ abort = FALSE /\ carried = None
    /\ sent = 0 /\ queued = {} /\ restarted = {}
    /\ overtaken = {} /\ unclaimed = {}
-----------------------------------------------------------------------------
(* Messages among answers that nobody will read any more. *)
TextOf(s) == IF s = None THEN {} ELSE {s.text} \ {None}

(* handleWebviewAskResponse, on a queue q: an answer nobody awaits, or that  *)
(* names another ask, goes to the front of the queue if it is a message and  *)
(* nowhere if it is a button; any other takes the slot, whatever is there.   *)
Refused(ans) ==
    \/ ~awaiting /\ ~abort
    \/ ans.to # None /\ current # None /\ ans.to # current

(* Mutant: behind the messages queued in the meantime. *)
PutBackLast(ans, q) ==
    /\ queue' = IF ans.say = "message" THEN Append(q, ans.text) ELSE q
    /\ unclaimed' = unclaimed \cup (IF ans.say = "message" THEN {} ELSE TextOf(ans))
    /\ UNCHANGED <<slot, timing, overtaken>>

(* Mutant: nowhere. *)
PutBackNothing(ans, q) ==
    /\ queue' = q
    /\ UNCHANGED <<slot, timing, losing>>

PutBack(ans, q) ==
    /\ queue' = IF ans.say = "message" THEN <<ans.text>> \o q ELSE q
    /\ unclaimed' = unclaimed \cup (IF ans.say = "message" THEN {} ELSE TextOf(ans))
    /\ UNCHANGED <<slot, timing, overtaken>>

TakeSlot(ans, q) ==
    /\ queue' = q
    /\ slot' = ans
    /\ overtaken' = overtaken \cup TextOf(slot) \cup (IF awaiting THEN {} ELSE TextOf(ans))
    /\ timers' = timers \ {timerRef}
    /\ timerRef' = None
    /\ UNCHANGED unclaimed

Handle(ans, q) == IF Refused(ans) THEN PutBack(ans, q) ELSE TakeSlot(ans, q)
-----------------------------------------------------------------------------
(* Task.ask.                                                               *)

(* Mutant: an answer nobody took stays in the slot. *)
BeginFullSlot(a) ==
    /\ pc[a] = "new" /\ ~abort
    /\ \A b \in Ask : b < a => pc[b] # "new"
    /\ Overlap \/ Sequential
    /\ pc' = [pc EXCEPT ![a] = "deciding"]
    /\ current' = a
    /\ UNCHANGED <<kind, result, slot, awaiting, timing, queue, submitting, abort,
                   sending, losing>>

(* A complete ask becomes the current one and empties the slot, then awaits  *)
(* the auto-approval decision and the save of its message.                   *)
Begin(a) ==
    /\ pc[a] = "new" /\ ~abort
    /\ \A b \in Ask : b < a => pc[b] # "new"
    /\ Overlap \/ Sequential
    /\ pc' = [pc EXCEPT ![a] = "deciding"]
    /\ current' = a
    /\ slot' = None
    /\ overtaken' = overtaken \cup TextOf(slot)
    /\ UNCHANGED <<kind, result, awaiting, timing, queue, submitting, abort, sending,
                   unclaimed>>

(* resolveAutoApproved: the posture, or a plugin, decides and nobody is asked. *)
AutoApproved(a) ==
    /\ pc[a] = "deciding"
    /\ pc' = [pc EXCEPT ![a] = "auto"]
    /\ current' = None
    /\ UNCHANGED <<kind, result, slot, awaiting, timing, queue, submitting, abort,
                   sending, losing>>

(* Mutant: the flag is forgotten. *)
ParkUnflagged(a) ==
    /\ pc[a] = "deciding"
    /\ pc' = [pc EXCEPT ![a] = "waiting"]
    /\ IF queue # <<>> /\ Drains(a)
       THEN Handle(Drained(a, Head(queue)), Tail(queue))
       ELSE /\ \/ UNCHANGED timing
               \/ /\ kind[a] = "followup"
                  /\ timers' = timers \cup {a} /\ timerRef' = a
            /\ UNCHANGED <<queue, slot, losing>>
    /\ UNCHANGED <<awaiting, kind, result, current, submitting, abort, sending>>

(* The synchronous part before the wait: a followup may arm a timer; a queued *)
(* message is offered as the answer before the flag says that an ask waits.   *)
Park(a) ==
    /\ pc[a] = "deciding"
    /\ pc' = [pc EXCEPT ![a] = "waiting"]
    /\ awaiting' = TRUE
    /\ IF queue # <<>> /\ Drains(a)
       THEN Handle(Drained(a, Head(queue)), Tail(queue))
       ELSE /\ \/ UNCHANGED timing
               \/ /\ kind[a] = "followup"
                  /\ timers' = timers \cup {a} /\ timerRef' = a
            /\ UNCHANGED <<queue, slot, losing>>
    /\ UNCHANGED <<kind, result, current, submitting, abort, sending>>

(* Mutant: an ask that waits does not look at the queue. *)
PollDrainsNothing(a) == FALSE

(* A poll of pWaitFor that finds a queued message gives it as the answer. *)
PollDrains(a) ==
    /\ pc[a] = "waiting" /\ ~abort
    /\ current = a /\ slot = None
    /\ Drains(a) /\ queue # <<>>
    /\ Handle(Drained(a, Head(queue)), Tail(queue))
    /\ UNCHANGED <<asks, awaiting, submitting, abort, sending>>

(* A poll that finds the answer. *)
Answered(a) ==
    /\ pc[a] = "waiting"
    /\ current = a /\ slot # None
    /\ pc' = [pc EXCEPT ![a] = "answered"]
    /\ result' = [result EXCEPT ![a] = slot]
    /\ current' = None
    /\ slot' = None
    /\ awaiting' = FALSE
    /\ timers' = timers \ {a}
    /\ UNCHANGED <<kind, timerRef, queue, submitting, abort, sending, losing>>

(* A poll that finds the task stopped or another ask current: AskIgnored.    *)
(* The timer stays armed.                                                    *)
Ignored(a) ==
    /\ pc[a] = "waiting"
    /\ current # a \/ (abort /\ slot = None)
    /\ pc' = [pc EXCEPT ![a] = "ignored"]
    /\ awaiting' = FALSE
    /\ UNCHANGED <<kind, result, current, slot, timing, queue, submitting, abort,
                   sending, losing>>

Poll(a) == PollDrains(a) \/ Answered(a) \/ Ignored(a)

(* The delayed auto-approval: the first suggestion, as an answer to any ask. *)
TimerFires(a) ==
    /\ a \in timers
    /\ LET ans == Text(Suggestion(a), None)
           left == timers \ {a}
       IN IF Refused(ans)
          THEN /\ queue' = <<ans.text>> \o queue
               /\ timers' = left
               /\ UNCHANGED <<slot, overtaken>>
          ELSE /\ slot' = ans
               /\ overtaken' = overtaken \cup TextOf(slot) \cup (IF awaiting THEN {} ELSE TextOf(ans))
               /\ timers' = left \ {timerRef}
               /\ UNCHANGED queue
    /\ timerRef' = None
    /\ UNCHANGED <<asks, awaiting, submitting, abort, sending, unclaimed>>
-----------------------------------------------------------------------------
(* The user, and what else sends messages.                                 *)

New == User(sent + 1)
Sends(q) ==
    /\ sent < MaxMessage
    /\ sent' = sent + 1
    /\ queued' = queued \cup q
    /\ UNCHANGED <<carried, restarted>>

(* A button of an ask the view shows, possibly one that is over. *)
Click(a) ==
    /\ pc[a] # "new"
    /\ Handle(Button(a), queue)
    /\ UNCHANGED <<asks, awaiting, submitting, abort, sending>>

(* A message the view gives as the answer to an ask. *)
Reply(a) ==
    /\ Sends({})
    /\ pc[a] # "new"
    /\ Handle(Text(New, a), queue)
    /\ UNCHANGED <<asks, awaiting, submitting, abort>>

(* A message without an ask: submitUserMessage from the API. *)
Submit ==
    /\ Sends({})
    /\ Handle(Text(New, None), queue)
    /\ UNCHANGED <<asks, awaiting, submitting, abort>>

(* The view queues a message while the task is busy. *)
Enqueue ==
    /\ Sends({New})
    /\ queue' = Append(queue, New)
    /\ UNCHANGED <<asks, slot, awaiting, timing, submitting, abort, losing>>

(* The user types: cancelAutoApprovalTimeout. *)
CancelTimer ==
    /\ timerRef # None
    /\ timers' = timers \ {timerRef}
    /\ timerRef' = None
    /\ UNCHANGED <<asks, slot, awaiting, queue, submitting, abort, sending, losing>>

(* processQueuedMessages, at the end of a tool or a condensation; the       *)
(* submission is a timer of its own, which fires before the next tool ends. *)
ProcessQueued ==
    /\ Sequential /\ ~abort
    /\ queue # <<>> /\ submitting = <<>>
    /\ submitting' = <<Head(queue)>>
    /\ queue' = Tail(queue)
    /\ UNCHANGED <<asks, slot, awaiting, timing, abort, sending, losing>>

Submitted ==
    /\ submitting # <<>>
    /\ Handle(Text(Head(submitting), None), queue)
    /\ submitting' = Tail(submitting)
    /\ UNCHANGED <<asks, awaiting, abort, sending>>

(* cancelAndProcessQueuedMessages takes the first message and stops the loop ... *)
SendNow ==
    /\ queue # <<>> /\ ~abort
    /\ carried' = Head(queue)
    /\ queue' = Tail(queue)
    /\ abort' = TRUE
    /\ UNCHANGED <<asks, slot, awaiting, timing, submitting, sent, queued, restarted, losing>>

(* ... and, once its asks have unwound, restarts it with that message. *)
Restart ==
    /\ abort /\ Sequential
    /\ abort' = FALSE
    /\ restarted' = restarted \cup {carried}
    /\ carried' = None
    /\ UNCHANGED <<asks, slot, awaiting, timing, queue, submitting, sent, queued, losing>>

Next ==
    \/ \E a \in Ask : \/ Begin(a) \/ AutoApproved(a) \/ Park(a)
                      \/ Poll(a) \/ TimerFires(a)
                      \/ Click(a) \/ Reply(a)
    \/ Submit \/ Enqueue \/ CancelTimer
    \/ ProcessQueued \/ Submitted
    \/ SendNow \/ Restart

Spec == Init /\ [][Next]_vars

(* The event loop polls, and goes on after the decision and the save. Nobody *)
(* is obliged to answer or to write.                                         *)
FairSpec ==
    /\ Spec
    /\ \A a \in Ask : WF_vars(Poll(a)) /\ WF_vars(AutoApproved(a) \/ Park(a))
    /\ WF_vars(Submitted) /\ WF_vars(Restart)
-----------------------------------------------------------------------------
(* Properties.                                                             *)

(* Every variable has its type. *)
TypeOK ==
    /\ pc \in [Ask -> {"new", "deciding", "waiting", "answered", "ignored", "auto"}]
    /\ kind \in [Ask -> Kinds]
    /\ result \in [Ask -> Answers \cup {None}]
    /\ current \in Ask \cup {None}
    /\ slot \in Answers \cup {None}
    /\ awaiting \in BOOLEAN
    /\ timers \subseteq Ask /\ timerRef \in Ask \cup {None}
    /\ queue \in Seq(Messages) /\ submitting \in Seq(Messages)
    /\ abort \in BOOLEAN /\ carried \in Messages \cup {None}
    /\ sent \in 0 .. MaxMessage
    /\ queued \subseteq Messages /\ restarted \subseteq Messages
    /\ overtaken \subseteq Messages /\ unclaimed \subseteq Messages

(* An answer given to one ask never decides another: a click on a question   *)
(* that is over, superseded or stopped does not approve the tool that is     *)
(* asked about now, whatever it met in the slot.                             *)
AnswersMatch ==
    \A a \in Ask : result[a] # None /\ result[a].to # None => result[a].to = a

(* Where a message of the user can be. *)
Within(s) == {s[i] : i \in 1 .. Len(s)}
Heard == restarted \cup UNION {TextOf(result[a]) : a \in Ask}
Held == Within(queue) \cup Within(submitting) \cup TextOf(slot) \cup ({carried} \ {None})

(* No message of the user vanishes between the queue, the submission, the    *)
(* slot and the asks, and none is delivered twice. It is held or was heard,  *)
(* unless another answer came within the same poll, it was given while the   *)
(* task was being stopped, or it went with an approval before the ask        *)
(* waited; and what was heard is neither in the queue nor on its way to it.  *)
MessagesKept ==
    /\ \A n \in 1 .. sent : User(n) \in Held \cup Heard \cup overtaken \cup unclaimed
    /\ \A i, j \in 1 .. Len(queue) : i # j => queue[i] # queue[j]
    /\ Within(queue) \cap Within(submitting) = {}
    /\ (Within(queue) \cup Within(submitting)) \cap Heard = {}

(* First in, first out: messages sent to the queue stay in the order they    *)
(* were sent, also when some were taken and had to be put back.              *)
OrderKept ==
    \A i, j \in 1 .. Len(queue) :
        i < j /\ {queue[i], queue[j]} \subseteq queued => queue[i].n < queue[j].n

(* The flag without which every answer is refused is set while the current   *)
(* ask waits, unless an earlier ask that it superseded ended after it began  *)
(* to wait and cleared the flag: asks share it.                              *)
WaitingIsKnown ==
    \A a \in Ask : pc[a] = "waiting" /\ current = a /\ ~awaiting =>
        Overlap /\ \E b \in Ask : b < a /\ pc[b] = "ignored"

(* An ask that may take a queued message does not leave the task parked      *)
(* while one is there, unless its flag was cleared (see WaitingIsKnown).     *)
QueueIsDrained ==
    \A a \in Ask : (pc[a] = "waiting" /\ Drains(a) /\ queue # <<>>) ~> (pc[a] # "waiting" \/ ~awaiting)
=============================================================================
