---------------------------- MODULE ChildQuestion ----------------------------
(***************************************************************************)
(* A child's question: ask_followup_question delivers it to the parent's   *)
(* mailbox as a request and raises it as an ask in the child's own chat;   *)
(* the parent's reply, the user, or a timer answers it.                    *)
(*                                                                         *)
(* The two channels meet in `forwarded`, the record of which request the   *)
(* child is parked on. It is set after the request was delivered and       *)
(* before the ask waits, and cleared some time after the ask was answered. *)
(*                                                                         *)
(* The parent's instance may be stopped and replaced meanwhile. Tools hold *)
(* on to the instance they began with, and to its Mailbox, which writes    *)
(* its whole box over the file that the next instance starts with.         *)
(***************************************************************************)
EXTENDS Naturals, FiniteSets

CONSTANTS
    MaxQuestion, \* questions of the child
    MaxParent,   \* instances of its parent over all
    Nothing

Question == 1 .. MaxQuestion

Parent == 0 .. MaxParent   \* 0: none so far

ASSUME QuestionAssumption ==
    MaxQuestion \in Nat /\ MaxParent \in Nat \ {0} /\ Nothing \notin Nat

VARIABLES
    asked,      \* the child's questions so far; the last one is the current one
    step,       \* of the child: "working", "delivering", "deciding", "waiting", "closing"
    forwarded,  \* _forwardedQuestion
    timer,      \* the question whose expiry timer is armed
    slot,       \* askResponse: the answer the ask has not seen yet
    result,     \* of each question: the answer the model got
    putBack,    \* answers that found no ask waiting, now messages in the child's queue
    abort,      \* the child was aborted
    captured,   \* of each question: the parent's instance when it was asked, 0 for none
    before,     \* the status that the handle had before the current question
    handle,     \* status of the child in its parent's backgroundChildren
    instance,   \* the latest instance of the parent
    parentLive, \* it is in the TaskManager's map
    requests,   \* of each instance: the child's requests in its box
    parentFile, \* those in the parent's mailbox.json
    arrived,    \* history: requests that ever were
    buried,     \* history: requests in the file when an older instance wrote its box over it
    lapsed,     \* questions whose deadline has passed
    replying,   \* of the parent: the question it replies to
    replier,    \* the instance that replies
    progress,   \* how far the reply is: "idle", "delivering", "resolving", "unparking"
    replied     \* questions whose reply is in the child's mailbox

child == <<asked, step, forwarded, timer, slot, result, putBack, abort, captured, before>>
mailbox == <<requests, parentFile, buried>>
reply == <<replying, replier, progress, replied>>
parent == <<instance, parentLive, mailbox, arrived, reply>>
questionVars == <<child, handle, parent, lapsed>>

Answers == [by : {"parent", "user", "timer"}, to : Question]
Answer(by, q) == [by |-> by, to |-> q]

QuestionInit ==
    /\ asked = 0 /\ step = "working"
    /\ forwarded = Nothing /\ timer = Nothing /\ slot = Nothing
    /\ result = [q \in Question |-> Nothing]
    /\ putBack = {}
    /\ abort = FALSE
    /\ captured = [q \in Question |-> 0] /\ before = "none"
    /\ parentLive \in BOOLEAN
    /\ instance = (IF parentLive THEN 1 ELSE 0)
    /\ handle = (IF parentLive THEN "running" ELSE "none")
    /\ requests = [i \in Parent |-> {}] /\ parentFile = {}
    /\ arrived = {} /\ buried = {} /\ lapsed = {}
    /\ replying = Nothing /\ replier = 0 /\ progress = "idle"
    /\ replied = {}

(* Whoever asks for the parent's box: its instance, or its file. *)
Held == IF parentLive THEN requests[instance] ELSE parentFile

(* Mailbox.resolveRequest, on the box of the instance that the caller holds. *)
Discharge(i, q) ==
    IF q \in requests[i]
    THEN /\ requests' = [requests EXCEPT ![i] = @ \ {q}]
         /\ parentFile' = requests[i] \ {q}
         /\ buried' = buried \cup (parentFile \ requests[i])
    ELSE UNCHANGED mailbox
-----------------------------------------------------------------------------
(* The child.                                                              *)

(* The question is put, and the parent's handle says whom the child waits for. *)
Ask ==
    /\ step = "working" /\ ~abort /\ asked < MaxQuestion
    /\ asked' = asked + 1
    /\ step' = "delivering"
    /\ captured' = [captured EXCEPT ![asked + 1] = IF parentLive THEN instance ELSE 0]
    /\ before' = handle
    /\ handle' = IF parentLive /\ handle # "none" THEN "waiting_for_parent" ELSE handle
    /\ UNCHANGED <<forwarded, timer, slot, result, putBack, abort, parent, lapsed>>

(* A new instance of the parent starts with its file, and with a handle for  *)
(* every child in the history.                                               *)
Instantiate(box) ==
    /\ instance < MaxParent
    /\ instance' = instance + 1 /\ parentLive' = TRUE
    /\ requests' = [requests EXCEPT ![instance + 1] = box]
    /\ parentFile' = box
    /\ handle' = "running"

(* deliverToTask: the request is in the box before the child hears of it; a  *)
(* parent without an instance gets one.                                      *)
Arrive ==
    /\ step = "delivering" /\ asked \notin arrived
    /\ IF parentLive
       THEN /\ requests' = [requests EXCEPT ![instance] = @ \cup {asked}]
            /\ parentFile' = requests[instance] \cup {asked}
            /\ UNCHANGED <<instance, parentLive, handle>>
       ELSE Instantiate(parentFile \cup {asked})
    /\ arrived' = arrived \cup {asked}
    /\ UNCHANGED <<child, buried, reply, lapsed>>

(* The parent is stopped and leaves the map; its own stop aborts the child,  *)
(* which unwinds on its own time, and clears the handles.                    *)
ParentStops ==
    /\ parentLive
    /\ parentLive' = FALSE
    /\ handle' = "none"
    /\ UNCHANGED <<child, instance, mailbox, arrived, reply, lapsed>>

ParentReturns ==
    /\ ~parentLive
    /\ Instantiate(parentFile)
    /\ UNCHANGED <<child, buried, arrived, reply, lapsed>>

(* Delivered or refused, the question is recorded, the timer armed, and the *)
(* ask begins, which a child that was aborted meanwhile cannot.             *)
Forward ==
    /\ step = "delivering"
    /\ forwarded' = asked
    /\ timer' = asked
    /\ slot' = IF abort THEN slot ELSE Nothing
    /\ step' = IF abort THEN "closing" ELSE "deciding"
    /\ UNCHANGED <<asked, result, putBack, abort, captured, before, handle, parent, lapsed>>

(* Task.ask, between its beginning and the poll, awaits the auto-approval. *)
Park ==
    /\ step = "deciding"
    /\ step' = "waiting"
    /\ UNCHANGED <<asked, forwarded, timer, slot, result, putBack, abort, captured, before,
                   handle, parent, lapsed>>

(* The answer is saved to the chat before the tool goes on. *)
Answered ==
    /\ step = "waiting" /\ slot # Nothing
    /\ result' = [result EXCEPT ![asked] = slot]
    /\ slot' = Nothing
    /\ step' = "closing"
    /\ UNCHANGED <<asked, forwarded, timer, putBack, abort, captured, before, handle, parent,
                   lapsed>>

Ignored ==
    /\ step = "waiting" /\ slot = Nothing /\ abort
    /\ step' = "closing"
    /\ UNCHANGED <<asked, forwarded, timer, slot, result, putBack, abort, captured, before,
                   handle, parent, lapsed>>

(* The handle that the tool has held since the question, if it is still the map's. *)
Restored ==
    IF captured[asked] = instance /\ handle = "waiting_for_parent" THEN before ELSE handle

(* Mutant: the request is not withdrawn. *)
CloseUnwithdrawn ==
    /\ step = "closing"
    /\ step' = "working"
    /\ timer' = Nothing /\ forwarded' = Nothing
    /\ handle' = Restored
    /\ UNCHANGED <<asked, slot, result, putBack, abort, captured, before, parent, lapsed>>

(* The finally block: the timer, the record, the handle, and the request in *)
(* the box of the parent's instance of then, if it had one.                 *)
Close ==
    /\ step = "closing"
    /\ step' = "working"
    /\ timer' = Nothing /\ forwarded' = Nothing
    /\ handle' = Restored
    /\ IF captured[asked] # 0 THEN Discharge(captured[asked], asked) ELSE UNCHANGED mailbox
    /\ UNCHANGED <<asked, slot, result, putBack, abort, captured, before, instance, parentLive,
                   arrived, reply, lapsed>>

(* abortTask: by the user, or by cancel_tasks, which then marks the handle. *)
Abort ==
    /\ ~abort
    /\ abort' = TRUE
    /\ forwarded' = Nothing
    /\ UNCHANGED <<asked, step, timer, slot, result, putBack, captured, before, handle, parent,
                   lapsed>>

MarkCancelled ==
    /\ abort /\ handle # "none"
    /\ handle' = "cancelled"
    /\ UNCHANGED <<child, parent, lapsed>>

(* Mail that says wake restarts the aborted child. *)
WakeChild ==
    /\ abort /\ step = "working"
    /\ abort' = FALSE
    /\ UNCHANGED <<asked, step, forwarded, timer, slot, result, putBack, captured, before, handle,
                   parent, lapsed>>
-----------------------------------------------------------------------------
(* Answers.                                                                *)

(* Mutant: whatever question the child is parked on. *)
AnswerAnyForwarded(ans) ==
    IF forwarded = Nothing
    THEN UNCHANGED <<slot, putBack>>
    ELSE IF step = "waiting" \/ abort
         THEN slot' = ans /\ UNCHANGED putBack
         ELSE putBack' = putBack \cup {ans} /\ UNCHANGED slot

(* answerForwardedQuestion: an answer to a question that is not the recorded *)
(* one changes nothing; one the ask does not await becomes a message.        *)
AnswerForwarded(ans) ==
    IF forwarded # ans.to
    THEN UNCHANGED <<slot, putBack>>
    ELSE IF step = "waiting" \/ abort
         THEN slot' = ans /\ UNCHANGED putBack
         ELSE putBack' = putBack \cup {ans} /\ UNCHANGED slot

(* The user answers the ask that the child's chat shows. *)
UserAnswers ==
    /\ step = "waiting"
    /\ slot' = Answer("user", asked)
    /\ UNCHANGED <<asked, step, forwarded, timer, result, putBack, abort, captured, before,
                   handle, parent, lapsed>>

(* The deadline of a request, which is also that of the timer. *)
Lapse ==
    /\ step # "working" /\ asked \notin lapsed
    /\ lapsed' = lapsed \cup {asked}
    /\ UNCHANGED <<child, handle, parent>>

(* Mutant: the expiry is not told to the child. *)
ExpireSilently ==
    /\ timer # Nothing /\ timer \in lapsed
    /\ timer' = Nothing
    /\ UNCHANGED <<asked, step, forwarded, slot, result, putBack, abort, captured, before, handle,
                   parent, lapsed>>

Expire ==
    /\ timer # Nothing /\ timer \in lapsed
    /\ AnswerForwarded(Answer("timer", timer))
    /\ timer' = Nothing
    /\ UNCHANGED <<asked, step, forwarded, result, abort, captured, before, handle, parent,
                   lapsed>>
-----------------------------------------------------------------------------
(* The parent's reply tool.                                                *)

(* Mutant: the request is taken from the box at once. *)
LookUpConsumes(q) ==
    /\ parentLive /\ progress = "idle"
    /\ q \in requests[instance] \ lapsed
    /\ replying' = q /\ replier' = instance /\ progress' = "delivering"
    /\ Discharge(instance, q)
    /\ UNCHANGED <<child, handle, instance, parentLive, arrived, replied, lapsed>>

(* The request is looked up without being consumed ... *)
LookUp(q) ==
    /\ parentLive /\ progress = "idle"
    /\ q \in requests[instance] \ lapsed
    /\ replying' = q /\ replier' = instance /\ progress' = "delivering"
    /\ UNCHANGED <<child, handle, instance, parentLive, mailbox, arrived, replied, lapsed>>

(* ... the reply is delivered to the child's mailbox, or refused ... *)
ReplyArrives ==
    /\ progress = "delivering"
    /\ replied' = replied \cup {replying}
    /\ progress' = "resolving"
    /\ UNCHANGED <<child, handle, instance, parentLive, mailbox, arrived, replying, replier,
                   lapsed>>

Finished == replying' = Nothing /\ progress' = "idle"

ReplyFails ==
    /\ progress = "delivering"
    /\ Finished
    /\ UNCHANGED <<child, handle, instance, parentLive, mailbox, arrived, replier, replied, lapsed>>

(* ... then the request is discharged; if it lapsed or was withdrawn         *)
(* meanwhile the parent is told so, and the child's ask is left alone ...    *)
Resolve ==
    /\ progress = "resolving"
    /\ IF replying \in requests[replier] \ lapsed
       THEN progress' = "unparking" /\ UNCHANGED replying
       ELSE Finished
    /\ Discharge(replier, replying)
    /\ UNCHANGED <<child, handle, instance, parentLive, arrived, replier, replied, lapsed>>

(* ... and only then the child's ask is answered. *)
Unpark ==
    /\ progress = "unparking"
    /\ AnswerForwarded(Answer("parent", replying))
    /\ Finished
    /\ UNCHANGED <<asked, step, forwarded, timer, result, abort, captured, before, handle,
                   instance, parentLive, mailbox, arrived, replier, replied, lapsed>>

QuestionNext ==
    \/ Ask \/ Arrive \/ Forward \/ Park \/ Answered \/ Ignored \/ Close
    \/ Abort \/ MarkCancelled \/ WakeChild \/ ParentStops \/ ParentReturns
    \/ UserAnswers \/ Lapse \/ Expire
    \/ (\E q \in Question : LookUp(q)) \/ ReplyArrives \/ ReplyFails \/ Resolve \/ Unpark

QuestionSpec == QuestionInit /\ [][QuestionNext]_questionVars

(* The event loop goes on after an await, the poll looks again, time passes *)
(* and timers fire. Neither the user nor the parent is obliged to answer.   *)
QuestionFairSpec ==
    /\ QuestionSpec
    /\ WF_questionVars(Forward) /\ WF_questionVars(Park)
    /\ WF_questionVars(Answered \/ Ignored) /\ WF_questionVars(Close)
    /\ WF_questionVars(Lapse) /\ WF_questionVars(Expire)
-----------------------------------------------------------------------------
(* Properties.                                                             *)

(* Every variable has its type, and a reply under way is to a question. *)
QuestionTypeOK ==
    /\ asked \in 0 .. MaxQuestion
    /\ step \in {"working", "delivering", "deciding", "waiting", "closing"}
    /\ forwarded \in Question \cup {Nothing} /\ timer \in Question \cup {Nothing}
    /\ slot \in Answers \cup {Nothing}
    /\ result \in [Question -> Answers \cup {Nothing}]
    /\ putBack \subseteq Answers
    /\ abort \in BOOLEAN /\ parentLive \in BOOLEAN
    /\ captured \in [Question -> Parent] /\ instance \in Parent /\ replier \in Parent
    /\ {before, handle} \subseteq {"none", "running", "waiting_for_parent", "cancelled"}
    /\ requests \in [Parent -> SUBSET Question]
    /\ {parentFile, arrived, buried} \subseteq SUBSET Question
    /\ lapsed \subseteq Question /\ replied \subseteq Question
    /\ replying \in Question \cup {Nothing}
    /\ progress \in {"idle", "delivering", "resolving", "unparking"}
    /\ (progress = "idle") <=> (replying = Nothing)

(* A question is answered by an answer to that question: neither a reply    *)
(* that was slow nor the expiry of an earlier question answers a later one. *)
AnswersMatch ==
    \A q \in Question : result[q] # Nothing => result[q].to = q

(* The parent's request is discharged once the child has been answered, or *)
(* when it is moot: a reply that could not be delivered leaves it there. A *)
(* request may also be lost from the file to an earlier instance of the    *)
(* parent that writes its box late.                                        *)
RequestKept ==
    \A q \in arrived : q \in Held \cup replied \cup buried \/ q < asked \/ step = "working"

(* A question that is over leaves nothing behind: no record that would let  *)
(* a late answer in, no timer, no handle that says the child waits for its  *)
(* parent, and no request, neither in the box nor in the file the parent    *)
(* starts from. The request stays if the parent has another instance than   *)
(* when the question was put: the child withdraws it from the old one.      *)
NothingLeftBehind ==
    /\ step = "working" =>
        forwarded = Nothing /\ timer = Nothing /\ handle # "waiting_for_parent"
    /\ \A q \in Question :
        q < asked \/ (q = asked /\ step = "working") =>
            (captured[q] = instance => q \notin Held)

(* A child parked on a question goes on, although neither the user nor its *)
(* parent answers, unless its timer fired before it was parked.            *)
ChildGoesOn == (step = "waiting" /\ timer = asked) ~> (step # "waiting")
=============================================================================
