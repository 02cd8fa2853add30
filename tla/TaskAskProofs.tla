---------------------------- MODULE TaskAskProofs ----------------------------
(***************************************************************************)
(* Proofs about TaskAsk: its type invariant, that an answer decides only   *)
(* the ask it was given to, when an ask that waits may lack its flag, and  *)
(* that messages neither vanish nor change their order in the queue.       *)
(***************************************************************************)
EXTENDS TaskAsk, SequenceTheorems, TLAPS

(* The types, by what changes together. *)
AskTypes ==
    /\ pc \in [Ask -> {"new", "deciding", "waiting", "answered", "ignored", "auto"}]
    /\ kind \in [Ask -> Kinds]
    /\ result \in [Ask -> Answers \cup {None}]
    /\ current \in Ask \cup {None}

AnswerTypes ==
    /\ slot \in Answers \cup {None}
    /\ timers \subseteq Ask /\ timerRef \in Ask \cup {None}
    /\ queue \in Seq(Messages)
    /\ overtaken \subseteq Messages /\ unclaimed \subseteq Messages

SendTypes ==
    /\ submitting \in Seq(Messages)
    /\ sent \in 0 .. MaxMessage
    /\ queued \subseteq Messages

(* What Send Now took is a message until it is given to the new loop. *)
CarriedTypes ==
    /\ carried \in Messages \cup {None}
    /\ restarted \subseteq Messages
    /\ abort => carried \in Messages

Flags == awaiting \in BOOLEAN /\ abort \in BOOLEAN

TInv == AskTypes /\ AnswerTypes /\ SendTypes /\ CarriedTypes /\ Flags

(* What is in the slot names the current ask, if it names any. *)
SlotMatches == slot # None /\ slot.to # None /\ current # None => slot.to = current

(* Asks begin one after the other, the current one is the latest, and two    *)
(* are outstanding only if asks may overlap.                                 *)
InOrder ==
    /\ \A a, b \in Ask : b < a /\ pc[a] # "new" => pc[b] # "new"
    /\ current # None => \A b \in Ask : pc[b] # "new" => b <= current
    /\ Overlap \/ \A a, b \in Ask : Outstanding(a) /\ Outstanding(b) => a = b

Inv == TInv /\ SlotMatches /\ InOrder /\ AnswersMatch /\ WaitingIsKnown
-----------------------------------------------------------------------------
(* Messages and answers.                                                   *)

LEMMA UserIsMessage == ASSUME NEW n \in 1 .. MaxMessage PROVE User(n) \in Messages
BY DEF Messages

LEMMA SuggestionIsMessage == ASSUME NEW a \in Ask PROVE Suggestion(a) \in Messages
BY DEF Messages

LEMMA ButtonIsAnswer == ASSUME NEW a \in Ask PROVE Button(a) \in Answers /\ Button(a).say = "button"
BY DEF Button, Answers

LEMMA TextIsAnswer ==
    ASSUME NEW m \in Messages, NEW a \in Ask \cup {None}
    PROVE  Text(m, a) \in Answers /\ Text(m, a).text = m /\ Text(m, a).to = a
BY DEF Text, Answers

LEMMA ApproveIsAnswer ==
    ASSUME NEW m \in Messages
    PROVE  Approve(m) \in Answers /\ Approve(m).say = "button"
BY DEF Approve, Answers

LEMMA TextOfType == ASSUME NEW s \in Answers \cup {None} PROVE TextOf(s) \subseteq Messages
BY DEF TextOf, Answers

(* A drained message is an answer, whatever it is drained into. *)
LEMMA DrainedIsAnswer ==
    ASSUME NEW a \in Ask, NEW m \in Messages
    PROVE  Drained(a, m) \in Answers /\ (Drained(a, m).say = "message" => Drained(a, m).text \in Messages)
<1>1. CASE kind[a] = "approval"
  BY <1>1, ApproveIsAnswer DEF Drained
<1>2. CASE kind[a] # "approval"
  BY <1>2, TextIsAnswer DEF Drained
<1> QED BY <1>1, <1>2

(* handleWebviewAskResponse, on a queue of messages: types, and an answer that *)
(* takes the slot names the current ask or none.                               *)
LEMMA HandleType ==
    ASSUME AnswerTypes, SlotMatches, NEW q \in Seq(Messages), NEW ans \in Answers,
           ans.say = "message" => ans.text \in Messages,
           Handle(ans, q), current' = current
    PROVE  AnswerTypes' /\ SlotMatches'
<1>1. CASE Refused(ans)
  <2>1. PutBack(ans, q)
    BY <1>1 DEF Handle
  <2>2. queue' \in Seq(Messages)
    <3>1. CASE ans.say = "message"
      <4>1. <<ans.text>> \in Seq(Messages)
        BY <3>1
      <4> QED BY <2>1, <3>1, <4>1 DEF PutBack
    <3>2. CASE ans.say # "message"
      BY <2>1, <3>2 DEF PutBack
    <3> QED BY <3>1, <3>2
  <2>3. unclaimed' \subseteq Messages
    BY <2>1, TextOfType DEF PutBack, AnswerTypes
  <2>4. UNCHANGED <<slot, timers, timerRef, overtaken>>
    BY <2>1 DEF PutBack, timing
  <2>5. AnswerTypes'
    BY <2>2, <2>3, <2>4 DEF AnswerTypes
  <2>6. SlotMatches'
    BY <2>4 DEF SlotMatches
  <2> QED BY <2>5, <2>6
<1>2. CASE ~Refused(ans)
  <2>1. TakeSlot(ans, q)
    BY <1>2 DEF Handle
  <2>2. overtaken' \subseteq Messages
    BY <2>1, TextOfType DEF TakeSlot, AnswerTypes
  <2>3. AnswerTypes'
    BY <2>1, <2>2 DEF TakeSlot, AnswerTypes
  <2>4. SlotMatches'
    BY <1>2, <2>1 DEF TakeSlot, SlotMatches, Refused
  <2> QED BY <2>3, <2>4
<1> QED BY <1>1, <1>2
-----------------------------------------------------------------------------
(* Steps that leave the asks and the flag alone.                           *)

LEMMA AsksStay ==
    ASSUME Inv, UNCHANGED <<asks, awaiting>>
    PROVE  AskTypes' /\ InOrder' /\ AnswersMatch' /\ WaitingIsKnown'
<1>1. AskTypes'
  BY DEF Inv, TInv, AskTypes, asks
<1>2. InOrder'
  BY DEF Inv, InOrder, asks, Outstanding
<1>3. AnswersMatch' /\ WaitingIsKnown'
  BY DEF Inv, AnswersMatch, WaitingIsKnown, asks
<1> QED BY <1>1, <1>2, <1>3

LEMMA FlagsStay == ASSUME Flags, UNCHANGED <<awaiting, abort>> PROVE Flags'
BY DEF Flags

LEMMA CarriedStays == ASSUME CarriedTypes, UNCHANGED <<carried, restarted, abort>> PROVE CarriedTypes'
BY DEF CarriedTypes

LEMMA SendingStays ==
    ASSUME SendTypes, UNCHANGED <<submitting, sent, queued>> PROVE SendTypes'
BY DEF SendTypes

(* A message that is sent has a number that no other has had. *)
LEMMA NewIsSent ==
    ASSUME SendTypes, NEW q \in SUBSET {New}, Sends(q), UNCHANGED submitting
    PROVE  New \in Messages /\ SendTypes'
<1>1. sent + 1 \in 1 .. MaxMessage
  BY AskAssumption DEF SendTypes, Sends
<1>2. New \in Messages
  BY <1>1, UserIsMessage DEF New
<1>3. SendTypes'
  BY <1>1, <1>2, AskAssumption DEF SendTypes, Sends
<1> QED BY <1>2, <1>3

LEMMA HeadOfMessages ==
    ASSUME NEW q \in Seq(Messages), q # <<>>
    PROVE  Head(q) \in Messages /\ Tail(q) \in Seq(Messages)
BY HeadTailProperties

LEMMA UserStep ==
    ASSUME Inv, \/ \E a \in Ask : Click(a) \/ Reply(a)
                \/ Submit \/ Enqueue \/ CancelTimer
    PROVE  Inv'
<1> USE DEF Inv, TInv
<1>1. ASSUME NEW a \in Ask, Click(a) PROVE Inv'
  <2>1. AnswerTypes' /\ SlotMatches'
    BY <1>1, ButtonIsAnswer, HandleType DEF Click, asks, AnswerTypes
  <2> QED BY <1>1, <2>1, AsksStay, FlagsStay, CarriedStays, SendingStays DEF Click, sending
<1>2. ASSUME NEW a \in Ask, Reply(a) PROVE Inv'
  <2>1. New \in Messages /\ SendTypes'
    BY <1>2, NewIsSent DEF Reply
  <2>2. AnswerTypes' /\ SlotMatches'
    BY <1>2, <2>1, TextIsAnswer, HandleType DEF Reply, asks, AnswerTypes
  <2>3. UNCHANGED <<carried, restarted>>
    BY <1>2 DEF Reply, Sends
  <2> QED BY <1>2, <2>1, <2>2, <2>3, AsksStay, FlagsStay, CarriedStays DEF Reply
<1>3. CASE Submit
  <2>1. New \in Messages /\ SendTypes'
    BY <1>3, NewIsSent DEF Submit
  <2>2. AnswerTypes' /\ SlotMatches'
    BY <1>3, <2>1, TextIsAnswer, HandleType DEF Submit, asks, AnswerTypes
  <2>3. UNCHANGED <<carried, restarted>>
    BY <1>3 DEF Submit, Sends
  <2> QED BY <1>3, <2>1, <2>2, <2>3, AsksStay, FlagsStay, CarriedStays DEF Submit
<1>4. CASE Enqueue
  <2>1. New \in Messages /\ SendTypes'
    BY <1>4, NewIsSent DEF Enqueue
  <2>2. queue' \in Seq(Messages)
    BY <1>4, <2>1 DEF Enqueue, AnswerTypes
  <2>3. UNCHANGED <<slot, timers, timerRef, overtaken, unclaimed, current, carried, restarted>>
    BY <1>4 DEF Enqueue, Sends, asks, timing, losing
  <2>4. AnswerTypes' /\ SlotMatches'
    BY <2>2, <2>3 DEF AnswerTypes, SlotMatches
  <2> QED BY <1>4, <2>1, <2>3, <2>4, AsksStay, FlagsStay, CarriedStays DEF Enqueue
<1>5. CASE CancelTimer
  <2>1. AnswerTypes' /\ SlotMatches'
    BY <1>5 DEF CancelTimer, AnswerTypes, SlotMatches, asks, losing
  <2> QED BY <1>5, <2>1, AsksStay, FlagsStay, CarriedStays, SendingStays DEF CancelTimer, sending
<1> QED BY <1>1, <1>2, <1>3, <1>4, <1>5

LEMMA TimerStep == ASSUME Inv, NEW a \in Ask, TimerFires(a) PROVE Inv'
<1> USE DEF Inv, TInv
<1> DEFINE ans == Text(Suggestion(a), None)
<1>1. ans \in Answers /\ ans.text \in Messages /\ ans.to = None
  BY SuggestionIsMessage, TextIsAnswer
<1>2. UNCHANGED <<asks, awaiting, submitting, abort, sending, unclaimed>> /\ timerRef' = None
  BY DEF TimerFires
<1>3. AnswerTypes' /\ SlotMatches'
  <2>1. CASE Refused(ans)
    <3>1. queue' = <<ans.text>> \o queue /\ timers' = timers \ {a} /\ UNCHANGED <<slot, overtaken>>
      BY <2>1 DEF TimerFires
    <3>2. <<ans.text>> \in Seq(Messages)
      BY <1>1
    <3>3. queue' \in Seq(Messages)
      BY <3>1, <3>2 DEF AnswerTypes
    <3> QED BY <1>2, <3>1, <3>3 DEF AnswerTypes, SlotMatches, asks
  <2>2. CASE ~Refused(ans)
    <3>1. /\ slot' = ans /\ timers' \subseteq timers /\ UNCHANGED queue
          /\ overtaken' = overtaken \cup TextOf(slot) \cup (IF awaiting THEN {} ELSE TextOf(ans))
      BY <2>2 DEF TimerFires
    <3>2. overtaken' \subseteq Messages
      BY <1>1, <3>1, TextOfType DEF AnswerTypes
    <3> QED BY <1>1, <1>2, <3>1, <3>2 DEF AnswerTypes, SlotMatches
  <2> QED BY <2>1, <2>2
<1> QED BY <1>2, <1>3, AsksStay, FlagsStay, CarriedStays, SendingStays DEF sending

LEMMA TaskStep ==
    ASSUME Inv, ProcessQueued \/ Submitted \/ SendNow \/ Restart
    PROVE  Inv'
<1> USE DEF Inv, TInv
<1>1. CASE ProcessQueued
  <2>1. Head(queue) \in Messages /\ Tail(queue) \in Seq(Messages)
    BY <1>1, HeadOfMessages DEF ProcessQueued, AnswerTypes
  <2>2. AnswerTypes' /\ SlotMatches'
    BY <1>1, <2>1 DEF ProcessQueued, AnswerTypes, SlotMatches, asks, timing, losing
  <2>3. SendTypes'
    BY <1>1, <2>1 DEF ProcessQueued, SendTypes, sending
  <2> QED BY <1>1, <2>2, <2>3, AsksStay, FlagsStay, CarriedStays DEF ProcessQueued, sending
<1>2. CASE Submitted
  <2>1. Head(submitting) \in Messages /\ Tail(submitting) \in Seq(Messages)
    BY <1>2, HeadOfMessages DEF Submitted, SendTypes
  <2>2. AnswerTypes' /\ SlotMatches'
    BY <1>2, <2>1, TextIsAnswer, HandleType DEF Submitted, asks, AnswerTypes
  <2>3. SendTypes'
    BY <1>2, <2>1 DEF Submitted, SendTypes, sending
  <2> QED BY <1>2, <2>2, <2>3, AsksStay, FlagsStay, CarriedStays DEF Submitted, sending
<1>3. CASE SendNow
  <2>1. Head(queue) \in Messages /\ Tail(queue) \in Seq(Messages)
    BY <1>3, HeadOfMessages DEF SendNow, AnswerTypes
  <2>2. AnswerTypes' /\ SlotMatches'
    BY <1>3, <2>1 DEF SendNow, AnswerTypes, SlotMatches, asks, timing, losing
  <2>3. CarriedTypes'
    BY <1>3, <2>1 DEF SendNow, CarriedTypes
  <2>4. Flags'
    BY <1>3 DEF SendNow, Flags
  <2> QED BY <1>3, <2>2, <2>3, <2>4, AsksStay, SendingStays DEF SendNow
<1>4. CASE Restart
  <2>1. AnswerTypes' /\ SlotMatches'
    BY <1>4 DEF Restart, AnswerTypes, SlotMatches, asks, timing, losing
  <2>2. CarriedTypes'
    BY <1>4 DEF Restart, CarriedTypes
  <2>3. Flags'
    BY <1>4 DEF Restart, Flags
  <2> QED BY <1>4, <2>1, <2>2, <2>3, AsksStay, SendingStays DEF Restart
<1> QED BY <1>1, <1>2, <1>3, <1>4
-----------------------------------------------------------------------------
(* Steps of an ask.                                                        *)

LEMMA BeginStep == ASSUME Inv, NEW a \in Ask, Begin(a) PROVE Inv'
<1> USE AskAssumption DEF Inv, TInv
<1>1. AskTypes'
  BY DEF Begin, AskTypes
<1>2. AnswerTypes'
  <2>1. overtaken' \subseteq Messages
    BY TextOfType DEF Begin, AnswerTypes
  <2> QED BY <2>1 DEF Begin, AnswerTypes, timing
<1>3. SlotMatches'
  BY DEF Begin, SlotMatches
<1>4. InOrder'
  <2>1. \A b \in Ask : pc[b] # "new" => b < a
    BY DEF InOrder, Begin, Ask
  <2>2. \A b, c \in Ask : b < c /\ pc'[c] # "new" => pc'[b] # "new"
    BY DEF Begin, InOrder, AskTypes
  <2>3. \A b \in Ask : pc'[b] # "new" => b <= current'
    BY <2>1 DEF Begin, AskTypes, Ask
  <2>4. Overlap \/ \A b, c \in Ask : Outstanding(b)' /\ Outstanding(c)' => b = c
    BY DEF Begin, AskTypes, Sequential, Outstanding
  <2> QED BY <2>2, <2>3, <2>4 DEF InOrder
<1>5. AnswersMatch'
  BY DEF Begin, AnswersMatch
<1>6. WaitingIsKnown'
  BY DEF Begin, WaitingIsKnown, AskTypes
<1>7. SendTypes' /\ CarriedTypes' /\ Flags'
  BY FlagsStay, CarriedStays, SendingStays DEF Begin, sending
<1> QED BY <1>1, <1>2, <1>3, <1>4, <1>5, <1>6, <1>7

(* An ask that goes from one phase to a later one keeps the order. *)
LEMMA OrderStays ==
    ASSUME AskTypes, InOrder, NEW a \in Ask, NEW p \in {"waiting", "answered", "ignored", "auto"}, Outstanding(a),
           pc' = [pc EXCEPT ![a] = p], current' = current \/ current' = None
    PROVE  InOrder'
<1>1. \A b \in Ask : pc'[b] = "new" <=> pc[b] = "new"
  BY DEF AskTypes, Outstanding
<1>2. \A b \in Ask : Outstanding(b)' => Outstanding(b)
  BY DEF AskTypes, Outstanding
<1> QED BY <1>1, <1>2 DEF InOrder

LEMMA AutoStep == ASSUME Inv, NEW a \in Ask, AutoApproved(a) PROVE Inv'
<1> USE DEF Inv, TInv
<1>1. AskTypes'
  BY DEF AutoApproved, AskTypes
<1>2. AnswerTypes' /\ SlotMatches'
  BY DEF AutoApproved, AnswerTypes, SlotMatches, timing, losing
<1>3. InOrder'
  <2>1. Outstanding(a)
    BY DEF AutoApproved, Outstanding
  <2> QED BY <2>1, OrderStays DEF AutoApproved
<1>4. AnswersMatch' /\ WaitingIsKnown'
  BY AskAssumption DEF AutoApproved, AnswersMatch, WaitingIsKnown, Ask
<1>5. SendTypes' /\ CarriedTypes' /\ Flags'
  BY FlagsStay, CarriedStays, SendingStays DEF AutoApproved, sending
<1> QED BY <1>1, <1>2, <1>3, <1>4, <1>5

LEMMA ParkStep == ASSUME Inv, NEW a \in Ask, Park(a) PROVE Inv'
<1> USE DEF Inv, TInv
<1>1. AskTypes'
  BY DEF Park, AskTypes
<1>2. AnswerTypes' /\ SlotMatches'
  <2>1. CASE queue # <<>> /\ Drains(a)
    <3>1. Head(queue) \in Messages /\ Tail(queue) \in Seq(Messages)
      BY <2>1, HeadOfMessages DEF AnswerTypes
    <3>2. Handle(Drained(a, Head(queue)), Tail(queue)) /\ current' = current
      BY <2>1 DEF Park
    <3> QED BY <3>1, <3>2, DrainedIsAnswer, HandleType
  <2>2. CASE ~(queue # <<>> /\ Drains(a))
    <3>1. /\ timers' \subseteq timers \cup {a} /\ timerRef' \in {timerRef, a}
          /\ UNCHANGED <<queue, slot, overtaken, unclaimed, current>>
      BY <2>2 DEF Park, timing, losing
    <3> QED BY <3>1 DEF AnswerTypes, SlotMatches
  <2> QED BY <2>1, <2>2
<1>3. InOrder'
  <2>1. Outstanding(a)
    BY DEF Park, Outstanding
  <2> QED BY <2>1, OrderStays DEF Park
<1>4. AnswersMatch'
  BY DEF Park, AnswersMatch
<1>5. WaitingIsKnown'
  BY DEF Park, WaitingIsKnown
<1>6. SendTypes' /\ CarriedTypes'
  BY CarriedStays, SendingStays DEF Park, sending
<1>7. Flags'
  BY DEF Park, Flags
<1> QED BY <1>1, <1>2, <1>3, <1>4, <1>5, <1>6, <1>7

LEMMA PollStep == ASSUME Inv, NEW a \in Ask, Poll(a) PROVE Inv'
<1> USE DEF Inv, TInv
<1>1. CASE PollDrains(a)
  <2>1. Head(queue) \in Messages /\ Tail(queue) \in Seq(Messages)
    BY <1>1, HeadOfMessages DEF PollDrains, AnswerTypes
  <2>2. AnswerTypes' /\ SlotMatches'
    BY <1>1, <2>1, DrainedIsAnswer, HandleType DEF PollDrains, asks
  <2> QED BY <1>1, <2>2, AsksStay, FlagsStay, CarriedStays, SendingStays DEF PollDrains, sending
<1>2. CASE Answered(a)
  <2>1. AskTypes'
    BY <1>2 DEF Answered, AskTypes, AnswerTypes
  <2>2. AnswerTypes' /\ SlotMatches'
    BY <1>2 DEF Answered, AnswerTypes, SlotMatches, losing
  <2>3. InOrder'
    <3>1. Outstanding(a)
      BY <1>2 DEF Answered, Outstanding
    <3> QED BY <1>2, <3>1, OrderStays DEF Answered
  <2>4. AnswersMatch'
    <3>1. slot # None /\ slot.to # None => slot.to = a
      BY <1>2, AskAssumption DEF Answered, SlotMatches, Ask
    <3> QED BY <1>2, <3>1 DEF Answered, AnswersMatch, AskTypes
  <2>5. WaitingIsKnown'
    BY <1>2, AskAssumption DEF Answered, WaitingIsKnown, Ask
  <2>6. SendTypes' /\ CarriedTypes'
    BY <1>2, CarriedStays, SendingStays DEF Answered, sending
  <2>7. Flags'
    BY <1>2 DEF Answered, Flags
  <2> QED BY <2>1, <2>2, <2>3, <2>4, <2>5, <2>6, <2>7
<1>3. CASE Ignored(a)
  <2>1. AskTypes'
    BY <1>3 DEF Ignored, AskTypes
  <2>2. AnswerTypes' /\ SlotMatches'
    BY <1>3 DEF Ignored, AnswerTypes, SlotMatches, timing, losing
  <2>3. InOrder'
    <3>1. Outstanding(a)
      BY <1>3 DEF Ignored, Outstanding
    <3> QED BY <1>3, <3>1, OrderStays DEF Ignored
  <2>4. AnswersMatch'
    BY <1>3 DEF Ignored, AnswersMatch
  <2>5. WaitingIsKnown'
    <3>1. SUFFICES ASSUME NEW b \in Ask, pc'[b] = "waiting", current' = b
                   PROVE  Overlap /\ \E c \in Ask : c < b /\ pc'[c] = "ignored"
      BY DEF WaitingIsKnown
    <3>2. b # a /\ pc[b] = "waiting" /\ current = b /\ pc'[a] = "ignored"
      BY <1>3, <3>1 DEF Ignored, AskTypes
    <3>3. a <= b /\ Overlap
      BY <1>3, <3>2, AskAssumption DEF Ignored, InOrder, Outstanding, Ask
    <3> QED BY <3>2, <3>3 DEF Ask
  <2>6. SendTypes' /\ CarriedTypes'
    BY <1>3, CarriedStays, SendingStays DEF Ignored, sending
  <2>7. Flags'
    BY <1>3 DEF Ignored, Flags
  <2> QED BY <2>1, <2>2, <2>3, <2>4, <2>5, <2>6, <2>7
<1> QED BY <1>1, <1>2, <1>3 DEF Poll
-----------------------------------------------------------------------------
(* Messages: no two of one line are the same, and those sent to the queue are *)
(* in the order of sending.                                                   *)
Precedes(x, y, q) == x # y /\ ({x, y} \subseteq q => x.n < y.n)
Ordered(s, q) == \A i, j \in 1 .. Len(s) : i < j => Precedes(s[i], s[j], q)

(* Who still waits to be offered, who was taken, and who was ever given. *)
Line == Within(queue) \cup Within(submitting)
Taken == TextOf(slot) \cup ({carried} \ {None}) \cup Heard
Parked(a) == pc[a] \notin {"new", "deciding"}
Given ==
    {User(n) : n \in 1 .. sent} \cup {Suggestion(a) : a \in {b \in Ask : Parked(b) /\ b \notin timers}}

(* An ask returns once, Send Now carries one message and a submission has one; *)
(* a timer is armed when its ask waits.                                        *)
OneByOne ==
    /\ \A a \in Ask : result[a] # None => pc[a] = "answered"
    /\ carried # None => abort
    /\ Len(submitting) <= 1
    /\ \A a \in timers : Parked(a)

(* What was taken out of the queue to be submitted was before what is in it. *)
InLine ==
    /\ queued \subseteq {User(n) : n \in 1 .. sent}
    /\ Ordered(queue, queued)
    /\ \A x \in Within(submitting) : \A y \in Within(queue) : Precedes(x, y, queued)

(* A message has been given and is in line or was taken, not both. *)
Placed == Line \cup Taken \subseteq Given /\ Line \cap Taken = {}

(* No message of the user is gone, but for those the histories name. *)
Kept == \A n \in 1 .. sent : User(n) \in Line \cup Taken \cup overtaken \cup unclaimed

MInv == OneByOne /\ InLine /\ Placed /\ Kept
(* Lines: what taking the first, putting it back and adding a last one do.  *)
LEMMA TailLine ==
    ASSUME NEW s \in Seq(Messages), s # <<>>, NEW q, Ordered(s, q)
    PROVE  /\ Head(s) \in Messages /\ Tail(s) \in Seq(Messages)
           /\ Within(s) = {Head(s)} \cup Within(Tail(s))
           /\ Ordered(Tail(s), q)
           /\ \A y \in Within(Tail(s)) : Precedes(Head(s), y, q)
<1>1. /\ Head(s) \in Messages /\ Tail(s) \in Seq(Messages) /\ Len(s) \in Nat \ {0}
      /\ Len(Tail(s)) = Len(s) - 1 /\ \A i \in 1 .. Len(Tail(s)) : Tail(s)[i] = s[i + 1]
      /\ Head(s) = s[1]
  BY HeadTailProperties, EmptySeq
<1> DEFINE t == Tail(s)
<1>2. /\ Len(t) = Len(s) - 1 /\ Len(s) \in Nat \ {0} /\ \A i \in 1 .. Len(t) : t[i] = s[i + 1]
  BY <1>1
<1> HIDE DEF t
<1>3. \A i \in 1 .. Len(s) : i = 1 \/ \E j \in 1 .. Len(t) : i = j + 1
  <2> SUFFICES ASSUME NEW i \in 1 .. Len(s), i # 1 PROVE i - 1 \in 1 .. Len(t) /\ i = (i - 1) + 1
    OBVIOUS
  <2> QED BY <1>2
<1>4. \A i \in 1 .. Len(t) : i + 1 \in 1 .. Len(s) /\ i + 1 > 1
  BY <1>2
<1>5. Within(s) = {s[1]} \cup Within(t)
  <2>1. ASSUME NEW i \in 1 .. Len(s) PROVE s[i] = s[1] \/ \E j \in 1 .. Len(t) : s[i] = t[j]
    BY <1>2, <1>3
  <2>2. ASSUME NEW j \in 1 .. Len(t) PROVE t[j] \in Within(s)
    BY <1>2, <1>4 DEF Within
  <2>3. s[1] \in Within(s)
    BY <1>2 DEF Within
  <2>4. Within(s) \subseteq {s[1]} \cup Within(t)
    <3> SUFFICES ASSUME NEW i \in 1 .. Len(s) PROVE s[i] \in {s[1]} \cup Within(t)
      BY DEF Within
    <3> QED BY <2>1 DEF Within
  <2>5. Within(t) \subseteq Within(s)
    <3> SUFFICES ASSUME NEW j \in 1 .. Len(t) PROVE t[j] \in Within(s)
      BY Zenon DEF Within
    <3> QED BY <2>2
  <2> QED BY <2>3, <2>4, <2>5
<1>6. Ordered(t, q)
  <2> SUFFICES ASSUME NEW i \in 1 .. Len(t), NEW j \in 1 .. Len(t), i < j PROVE Precedes(t[i], t[j], q)
    BY DEF Ordered
  <2>1. Precedes(s[i + 1], s[j + 1], q)
    BY <1>4 DEF Ordered
  <2> QED BY <1>2, <2>1
<1>7. \A y \in Within(t) : Precedes(s[1], y, q)
  <2> SUFFICES ASSUME NEW i \in 1 .. Len(t) PROVE Precedes(s[1], t[i], q)
    BY DEF Within
  <2>1. Precedes(s[1], s[i + 1], q)
    BY <1>2, <1>4 DEF Ordered
  <2> QED BY <1>2, <2>1
<1> QED BY <1>1, <1>5, <1>6, <1>7 DEF t

LEMMA FrontLine ==
    ASSUME NEW s \in Seq(Messages), NEW m \in Messages, NEW q, Ordered(s, q),
           \A y \in Within(s) : Precedes(m, y, q)
    PROVE  Within(<<m>> \o s) = {m} \cup Within(s) /\ Ordered(<<m>> \o s, q)
<1> DEFINE t == <<m>> \o s
<1>1. <<m>> \in Seq(Messages) /\ Len(<<m>>) = 1 /\ <<m>>[1] = m
  OBVIOUS
<1>2. /\ Len(s) \in Nat /\ Len(t) = Len(s) + 1 /\ t[1] = m
      /\ \A i \in 2 .. Len(t) : t[i] = s[i - 1]
  BY <1>1, ConcatProperties, LenProperties
<1> HIDE DEF t
<1>3. \A i \in 2 .. Len(t) : i - 1 \in 1 .. Len(s)
  BY <1>2
<1>4. \A i \in 1 .. Len(s) : i + 1 \in 2 .. Len(t) /\ t[i + 1] = s[i]
  BY <1>2
<1>5. \A i \in 1 .. Len(t) : i = 1 \/ i \in 2 .. Len(t)
  BY <1>2
<1>6. \A i \in 2 .. Len(t) : i \in 1 .. Len(t)
  OBVIOUS
<1>7. 1 \in 1 .. Len(t)
  BY <1>2
<1>8. Within(t) = {m} \cup Within(s)
  BY <1>2, <1>3, <1>4, <1>5, <1>6, <1>7 DEF Within
<1>9. Ordered(t, q)
  <2> SUFFICES ASSUME NEW i \in 1 .. Len(t), NEW j \in 1 .. Len(t), i < j PROVE Precedes(t[i], t[j], q)
    BY DEF Ordered
  <2>1. j \in 2 .. Len(t)
    BY <1>2
  <2>2. t[j] = s[j - 1] /\ s[j - 1] \in Within(s)
    BY <1>2, <1>3, <2>1 DEF Within
  <2>3. CASE i = 1
    BY <1>2, <2>2, <2>3
  <2>4. CASE i # 1
    <3>1. i \in 2 .. Len(t) /\ i - 1 < j - 1
      BY <1>2, <2>4
    <3>2. Precedes(s[i - 1], s[j - 1], q)
      BY <1>3, <2>1, <3>1 DEF Ordered
    <3> QED BY <1>2, <2>2, <3>1, <3>2
  <2> QED BY <2>3, <2>4
<1> QED BY <1>8, <1>9 DEF t

LEMMA BackLine ==
    ASSUME NEW s \in Seq(Messages), NEW m \in Messages, NEW q, Ordered(s, q),
           \A y \in Within(s) : Precedes(y, m, q)
    PROVE  Within(Append(s, m)) = {m} \cup Within(s) /\ Ordered(Append(s, m), q)
<1> DEFINE t == Append(s, m)
<1>1. /\ Len(s) \in Nat /\ Len(t) = Len(s) + 1 /\ t[Len(t)] = m
      /\ \A i \in 1 .. Len(s) : t[i] = s[i]
  BY AppendProperties, LenProperties
<1> HIDE DEF t
<1>2. \A i \in 1 .. Len(t) : i = Len(t) \/ i \in 1 .. Len(s)
  BY <1>1
<1>3. Len(t) \in 1 .. Len(t) /\ \A i \in 1 .. Len(s) : i \in 1 .. Len(t)
  BY <1>1
<1>4. Within(t) = {m} \cup Within(s)
  BY <1>1, <1>2, <1>3 DEF Within
<1>5. Ordered(t, q)
  <2> SUFFICES ASSUME NEW i \in 1 .. Len(t), NEW j \in 1 .. Len(t), i < j PROVE Precedes(t[i], t[j], q)
    BY DEF Ordered
  <2>1. i \in 1 .. Len(s) /\ t[i] = s[i] /\ s[i] \in Within(s)
    BY <1>1 DEF Within
  <2>2. CASE j = Len(t)
    BY <1>1, <2>1, <2>2
  <2>3. CASE j \in 1 .. Len(s)
    BY <1>1, <2>1, <2>3 DEF Ordered
  <2> QED BY <1>2, <2>2, <2>3
<1> QED BY <1>4, <1>5 DEF t

LEMMA EmptyLine == Within(<<>>) = {} /\ \A q : Ordered(<<>>, q)
<1>1. Len(<<>>) = 0 /\ 1 .. 0 = {}
  OBVIOUS
<1>2. Within(<<>>) = {}
  BY <1>1 DEF Within
<1>3. \A q : Ordered(<<>>, q)
  BY <1>1 DEF Ordered
<1> QED BY <1>2, <1>3

(* A message that was not sent to the queue may stand before and behind any. *)
LEMMA OutsidePrecedes ==
    ASSUME NEW x, NEW y, NEW q, x # y, x \notin q \/ y \notin q
    PROVE  Precedes(x, y, q)
BY DEF Precedes
-----------------------------------------------------------------------------
(* What one step does to the places of the messages.                        *)

LEMMA HeardStays == ASSUME UNCHANGED <<result, restarted>> PROVE Heard' = Heard
BY DEF Heard

LEMMA GivenGrows ==
    ASSUME SendTypes, sent' \in Nat, sent <= sent',
           \A a \in Ask : Parked(a) => Parked(a)',
           \A a \in timers' : a \in timers \/ ~Parked(a)
    PROVE  Given \subseteq Given'
<1>1. {User(n) : n \in 1 .. sent} \subseteq {User(n) : n \in 1 .. sent'}
  BY AskAssumption DEF SendTypes
<1>2. {Suggestion(a) : a \in {b \in Ask : Parked(b) /\ b \notin timers}} \subseteq
          {Suggestion(a) : a \in {b \in Ask : Parked(b)' /\ b \notin timers'}}
  OBVIOUS
<1> QED BY <1>1, <1>2 DEF Given

(* Messages change places, and new ones come from outside. *)
LEMMA PlacesMove ==
    ASSUME Placed, Kept, NEW new, Given \cup new \subseteq Given',
           Line' \cup Taken' \subseteq Line \cup Taken \cup new, Line' \cap Taken' = {},
           Line \cup Taken \cup new \subseteq Line' \cup Taken' \cup overtaken' \cup unclaimed',
           overtaken \subseteq overtaken', unclaimed \subseteq unclaimed',
           \A n \in 1 .. sent' : n \in 1 .. sent \/ User(n) \in new
    PROVE  Placed' /\ Kept'
BY DEF Placed, Kept

(* An answer with a message m is offered on a queue s: it takes the slot, goes *)
(* back to the front, or is an approval that nobody awaits.                    *)
Offered(ans, s) ==
    \/ queue' = s /\ slot' = ans /\ unclaimed' = unclaimed /\ TextOf(slot) \cup overtaken \subseteq overtaken'
    \/ queue' = <<ans.text>> \o s /\ UNCHANGED <<slot, overtaken, unclaimed>>
    \/ queue' = s /\ UNCHANGED <<slot, overtaken>> /\ unclaimed' = unclaimed \cup {ans.text}

LEMMA HandleOffers ==
    ASSUME NEW s, NEW ans \in Answers, ans.text \in Messages, Handle(ans, s)
    PROVE  Offered(ans, s) /\ timers' \subseteq timers
<1>1. TextOf(ans) = {ans.text}
  BY AskAssumption DEF TextOf
<1>2. CASE Refused(ans)
  BY <1>1, <1>2 DEF Handle, PutBack, Offered, timing
<1>3. CASE ~Refused(ans)
  BY <1>3 DEF Handle, TakeSlot, Offered
<1> QED BY <1>2, <1>3

LEMMA OfferStep ==
    ASSUME MInv, NEW s \in Seq(Messages), NEW ans \in Answers, ans.text \in Messages, Offered(ans, s),
           UNCHANGED <<carried, result, restarted, queued>>,
           Given \cup {ans.text} \subseteq Given',
           \A n \in 1 .. sent' : n \in 1 .. sent \/ User(n) = ans.text,
           ans.text \notin Taken \cup Within(s) \cup Within(submitting'),
           {ans.text} \cup Line = {ans.text} \cup Within(s) \cup Within(submitting'),
           Ordered(s, queued), \A y \in Within(s) : Precedes(ans.text, y, queued),
           \A x \in Within(submitting') : \A y \in {ans.text} \cup Within(s) : Precedes(x, y, queued)
    PROVE  /\ Ordered(queue', queued')
           /\ \A x \in Within(submitting') : \A y \in Within(queue') : Precedes(x, y, queued')
           /\ Placed' /\ Kept'
<1> DEFINE m == ans.text
<1>1. Heard' = Heard /\ ans # None /\ m # None
  BY HeardStays, AskAssumption
<1>2. Line \cap Taken = {}
  BY DEF MInv, Placed
<1>3. CASE queue' = s /\ slot' = ans /\ unclaimed' = unclaimed /\ TextOf(slot) \cup overtaken \subseteq overtaken'
  <2>1. TextOf(slot') = {m}
    BY <1>1, <1>3 DEF TextOf
  <2>2. Line' = Within(s) \cup Within(submitting')
    BY <1>3 DEF Line
  <2>3. Taken' = {m} \cup ({carried} \ {None}) \cup Heard
    BY <1>1, <2>1 DEF Taken
  <2>4. Line \cup Taken \cup {m} \subseteq Line' \cup Taken' \cup overtaken' \cup unclaimed'
    BY <1>3, <2>2, <2>3 DEF Taken
  <2>5. Line' \cup Taken' \subseteq Line \cup Taken \cup {m} /\ Line' \cap Taken' = {}
    BY <1>2, <2>2, <2>3 DEF Taken
  <2>6. Placed' /\ Kept'
    BY <1>3, <2>4, <2>5, PlacesMove DEF MInv
  <2> QED BY <1>3, <2>6
<1>4. CASE queue' = <<m>> \o s /\ UNCHANGED <<slot, overtaken, unclaimed>>
  <2>1. Within(queue') = {m} \cup Within(s) /\ Ordered(queue', queued)
    BY <1>4, FrontLine
  <2>2. Line' = {m} \cup Within(s) \cup Within(submitting')
    BY <2>1 DEF Line
  <2>3. Taken' = Taken
    BY <1>1, <1>4 DEF Taken
  <2>4. Line \cup Taken \cup {m} \subseteq Line' \cup Taken'
    BY <2>2, <2>3
  <2>5. Line' \cup Taken' \subseteq Line \cup Taken \cup {m} /\ Line' \cap Taken' = {}
    BY <1>2, <2>2, <2>3
  <2>6. Placed' /\ Kept'
    BY <1>4, <2>4, <2>5, PlacesMove DEF MInv
  <2> QED BY <2>1, <2>6
<1>5. CASE queue' = s /\ UNCHANGED <<slot, overtaken>> /\ unclaimed' = unclaimed \cup {m}
  <2>1. Line' = Within(s) \cup Within(submitting')
    BY <1>5 DEF Line
  <2>2. Taken' = Taken
    BY <1>1, <1>5 DEF Taken
  <2>3. Line \cup Taken \cup {m} \subseteq Line' \cup Taken' \cup unclaimed'
    BY <1>5, <2>1, <2>2
  <2>4. Line' \cup Taken' \subseteq Line \cup Taken \cup {m} /\ Line' \cap Taken' = {}
    BY <1>2, <2>1, <2>2
  <2>5. Placed' /\ Kept'
    BY <1>5, <2>3, <2>4, PlacesMove DEF MInv
  <2> QED BY <1>5, <2>5
<1> QED BY <1>3, <1>4, <1>5 DEF Offered
-----------------------------------------------------------------------------
(* Steps, for the messages.                                                 *)

(* Steps that add no message to the line and arm no timer. *)
LEMMA LineStays ==
    ASSUME MInv, UNCHANGED <<queue, submitting, queued, sent>>
    PROVE  InLine' /\ Line' = Line
<1>1. Within(queue)' = Within(queue) /\ Within(submitting)' = Within(submitting)
  BY DEF Within
<1> QED BY <1>1 DEF MInv, InLine, Line

(* A message given as an answer from outside the queue. *)
LEMMA GiveStep ==
    ASSUME TInv, MInv, NEW ans \in Answers, ans.text \in Messages, Offered(ans, queue),
           UNCHANGED <<carried, result, restarted, queued, submitting>>,
           Given \cup {ans.text} \subseteq Given',
           \A n \in 1 .. sent' : n \in 1 .. sent \/ User(n) = ans.text,
           sent' \in Nat, sent <= sent',
           ans.text \notin Line \cup Taken \cup queued
    PROVE  InLine' /\ Placed' /\ Kept'
<1> DEFINE m == ans.text
<1>1. Within(submitting') = Within(submitting)
  OBVIOUS
<1>2. m \notin Within(queue) /\ m \notin Within(submitting) /\ m \notin Taken /\ m \notin queued
  BY DEF Line
<1>3. \A y \in Within(queue) : Precedes(m, y, queued)
  BY <1>2, OutsidePrecedes
<1>4. \A x \in Within(submitting) : \A y \in {m} \cup Within(queue) : Precedes(x, y, queued)
  BY <1>2, OutsidePrecedes DEF MInv, InLine
<1>5. {m} \cup Line = {m} \cup Within(queue) \cup Within(submitting)
  BY DEF Line
<1>6. queue \in Seq(Messages) /\ Ordered(queue, queued)
  BY DEF TInv, AnswerTypes, MInv, InLine
<1>7. /\ Ordered(queue', queued')
      /\ \A x \in Within(submitting') : \A y \in Within(queue') : Precedes(x, y, queued')
      /\ Placed' /\ Kept'
  <2> HIDE DEF m
  <2>1. m = ans.text
    BY DEF m
  <2> QED BY <1>1, <1>2, <1>3, <1>4, <1>5, <1>6, <2>1, OfferStep
<1>8. {User(n) : n \in 1 .. sent} \subseteq {User(n) : n \in 1 .. sent'}
  BY DEF TInv, SendTypes
<1> QED BY <1>7, <1>8 DEF MInv, InLine

(* A new message of the user was in no place before, and has the last number. *)
LEMMA NewIsNew ==
    ASSUME TInv, MInv, NEW q, Sends(q)
    PROVE  /\ New \in Messages /\ New \notin Line \cup Taken \cup queued /\ New = User(sent')
           /\ sent' = sent + 1 /\ sent \in Nat
           /\ \A x \in queued : x.n < New.n
<1>1. New = User(sent + 1) /\ sent \in Nat /\ sent' = sent + 1 /\ sent + 1 \in 1 .. MaxMessage
  BY AskAssumption DEF TInv, SendTypes, Sends, New
<1>2. \A n \in 1 .. sent : User(n) # User(sent + 1) /\ User(n).n < User(sent + 1).n
  BY <1>1 DEF User
<1>3. \A b : Suggestion(b) # User(sent + 1)
  BY DEF User, Suggestion
<1>4. New \notin Given /\ New \notin {User(n) : n \in 1 .. sent}
  BY <1>1, <1>2, <1>3 DEF Given
<1>5. New \in Messages
  BY <1>1, UserIsMessage
<1> QED BY <1>1, <1>2, <1>4, <1>5 DEF MInv, Placed, InLine

LEMMA GiveNewStep ==
    ASSUME TInv, MInv, NEW a \in Ask \cup {None}, Sends({}), Handle(Text(New, a), queue),
           UNCHANGED <<asks, awaiting, submitting, abort>>
    PROVE  MInv'
<1> DEFINE ans == Text(New, a)
<1>1. timers' \subseteq timers /\ UNCHANGED <<pc, result>>
  BY DEF Handle, PutBack, TakeSlot, timing, asks
<1>2. UNCHANGED <<carried, restarted, queued>>
  BY DEF Sends
<1>3. New \in Messages /\ New \notin Line \cup Taken \cup queued /\ New = User(sent') /\ sent' = sent + 1 /\ sent \in Nat
  BY NewIsNew
<1>4. ans \in Answers /\ ans.text = New
  BY <1>3, TextIsAnswer
<1>5. Offered(ans, queue)
  BY <1>3, <1>4, HandleOffers
<1>6. Given \cup {New} \subseteq Given'
  <2>1. Given \subseteq Given'
    BY <1>1, <1>3, GivenGrows DEF TInv, Parked
  <2>2. New \in Given'
    BY <1>3 DEF Given
  <2> QED BY <2>1, <2>2
<1>7. \A n \in 1 .. sent' : n \in 1 .. sent \/ User(n) = New
  BY <1>3
<1>8. InLine' /\ Placed' /\ Kept'
  <2> HIDE DEF ans
  <2> QED BY <1>1, <1>2, <1>3, <1>4, <1>5, <1>6, <1>7, GiveStep
<1>9. OneByOne'
  BY <1>1, <1>2 DEF MInv, OneByOne, Parked
<1> QED BY <1>8, <1>9 DEF MInv

LEMMA ClickMessages == ASSUME TInv, MInv, NEW a \in Ask, Click(a) PROVE MInv'
<1> DEFINE ans == Button(a)
<1>1. ans.text = None /\ ans.say = "button" /\ TextOf(ans) = {}
  BY DEF Button, TextOf
<1>2. /\ queue' = queue /\ unclaimed' = unclaimed /\ timers' \subseteq timers
      /\ \/ UNCHANGED <<slot, overtaken>>
         \/ slot' = ans /\ TextOf(slot) \cup overtaken \subseteq overtaken'
  <2> HIDE DEF ans
  <2>1. Handle(ans, queue)
    BY DEF Click, ans
  <2>2. CASE Refused(ans)
    BY <1>1, <2>1, <2>2 DEF Handle, PutBack, timing
  <2>3. CASE ~Refused(ans)
    BY <2>1, <2>3 DEF Handle, TakeSlot
  <2> QED BY <2>2, <2>3
<1>3. UNCHANGED <<pc, result, carried, restarted, submitting, sent, queued, abort>>
  BY DEF Click, asks, sending
<1>4. InLine' /\ Line' = Line
  BY <1>2, <1>3, LineStays
<1>5. Given \subseteq Given'
  BY <1>2, <1>3, GivenGrows DEF TInv, SendTypes, Parked
<1>6. Heard' = Heard
  BY <1>3, HeardStays
<1>7. Taken' \subseteq Taken /\ Taken \subseteq Taken' \cup overtaken' /\ overtaken \subseteq overtaken'
  BY <1>1, <1>2, <1>3, <1>6 DEF Taken
<1>8. Placed' /\ Kept'
  <2>1. Line' \cap Taken' = {}
    BY <1>4, <1>7 DEF MInv, Placed
  <2> QED BY <1>2, <1>3, <1>4, <1>5, <1>7, <2>1, PlacesMove DEF MInv
<1>9. OneByOne'
  BY <1>2, <1>3 DEF MInv, OneByOne, Parked
<1> QED BY <1>4, <1>8, <1>9 DEF MInv

LEMMA EnqueueMessages == ASSUME TInv, MInv, Enqueue PROVE MInv'
<1>1. /\ New \in Messages /\ New \notin Line \cup Taken \cup queued /\ New = User(sent')
      /\ sent' = sent + 1 /\ sent \in Nat /\ \A x \in queued : x.n < New.n
  BY NewIsNew DEF Enqueue
<1>2. /\ queue' = Append(queue, New) /\ queued' = queued \cup {New}
      /\ UNCHANGED <<pc, result, slot, carried, restarted, submitting, abort, timers, overtaken, unclaimed>>
  BY DEF Enqueue, Sends, asks, timing, losing
<1> DEFINE m == New
<1>3. /\ m \in Messages /\ m \notin Line /\ m \notin Taken /\ m = User(sent') /\ m \notin queued
      /\ queue' = Append(queue, m) /\ queued' = queued \cup {m} /\ \A x \in queued : x.n < m.n
  BY <1>1, <1>2
<1> HIDE DEF m
<1>4. queue \in Seq(Messages) /\ Ordered(queue, queued)
  BY DEF TInv, AnswerTypes, MInv, InLine
<1>5. \A y \in Line : y # m /\ Precedes(y, m, queued')
  BY <1>3 DEF Precedes
<1>6. \A x, y \in Line : Precedes(x, y, queued) => Precedes(x, y, queued')
  BY <1>3 DEF Precedes
<1>7. Ordered(queue, queued')
  <2> SUFFICES ASSUME NEW i \in 1 .. Len(queue), NEW j \in 1 .. Len(queue), i < j
               PROVE  Precedes(queue[i], queue[j], queued')
    BY DEF Ordered
  <2>1. queue[i] \in Line /\ queue[j] \in Line
    BY DEF Line, Within
  <2>2. Precedes(queue[i], queue[j], queued)
    BY <1>4 DEF Ordered
  <2> QED BY <1>6, <2>1, <2>2
<1>8. Within(queue') = {m} \cup Within(queue) /\ Ordered(queue', queued')
  <2>1. \A y \in Within(queue) : Precedes(y, m, queued')
    BY <1>5 DEF Line
  <2> QED BY <1>3, <1>4, <1>7, <2>1, BackLine
<1>9. Within(submitting') = Within(submitting)
  BY <1>2
<1>10. InLine'
  <2>1. queued' \subseteq {User(n) : n \in 1 .. sent'}
    BY <1>1, <1>3 DEF MInv, InLine
  <2>2. \A x \in Within(submitting) : \A y \in {m} \cup Within(queue) : Precedes(x, y, queued')
    BY <1>5, <1>6 DEF Line, MInv, InLine
  <2> QED BY <1>8, <1>9, <2>1, <2>2 DEF InLine
<1>11. Placed' /\ Kept'
  <2>1. Given \cup {m} \subseteq Given'
    <3>1. Given \subseteq Given'
      BY <1>1, <1>2, GivenGrows DEF TInv, Parked
    <3> QED BY <1>1, <1>3, <3>1 DEF Given
  <2>2. Line' = Line \cup {m}
    BY <1>8, <1>9 DEF Line
  <2>3. Taken' = Taken
    BY <1>2, HeardStays DEF Taken
  <2>4. Line' \cap Taken' = {}
    BY <1>3, <2>2, <2>3 DEF MInv, Placed
  <2>5. \A n \in 1 .. sent' : n \in 1 .. sent \/ User(n) \in {m}
    BY <1>1, <1>3
  <2> QED BY <1>2, <2>1, <2>2, <2>3, <2>4, <2>5, PlacesMove DEF MInv
<1>12. OneByOne'
  BY <1>2 DEF MInv, OneByOne, Parked
<1> QED BY <1>10, <1>11, <1>12 DEF MInv

LEMMA TimerMessages == ASSUME TInv, MInv, NEW a \in Ask, TimerFires(a) PROVE MInv'
<1> DEFINE ans == Text(Suggestion(a), None)
<1>1. ans \in Answers /\ ans.text = Suggestion(a) /\ ans.text \in Messages /\ TextOf(ans) = {ans.text}
  BY SuggestionIsMessage, TextIsAnswer, AskAssumption DEF TextOf
<1>2. UNCHANGED <<pc, result, carried, restarted, sent, queued, submitting, abort, unclaimed>>
  BY DEF TimerFires, asks, sending
<1>3. Offered(ans, queue) /\ timers' \subseteq timers \ {a}
  <2>1. CASE Refused(ans)
    BY <1>2, <2>1 DEF TimerFires, Offered
  <2>2. CASE ~Refused(ans)
    BY <1>2, <2>2 DEF TimerFires, Offered
  <2> QED BY <2>1, <2>2
<1>4. a \in timers /\ Parked(a)
  BY DEF TimerFires, MInv, OneByOne
<1>5. \A n : User(n) # Suggestion(a)
  BY DEF User, Suggestion
<1>6. \A b \in Ask : Suggestion(b) = Suggestion(a) => b = a
  BY DEF Suggestion
<1>7. Suggestion(a) \notin Given
  BY <1>4, <1>5, <1>6 DEF Given
<1>8. Suggestion(a) \notin Line \cup Taken \cup queued
  BY <1>5, <1>7 DEF MInv, Placed, InLine
<1>9. Given \cup {Suggestion(a)} \subseteq Given'
  <2>1. Given \subseteq Given'
    BY <1>2, <1>3, GivenGrows DEF TInv, SendTypes, Parked
  <2>2. Parked(a)' /\ a \notin timers'
    BY <1>2, <1>3, <1>4 DEF Parked
  <2> QED BY <2>1, <2>2 DEF Given
<1>10. InLine' /\ Placed' /\ Kept'
  <2> HIDE DEF ans
  <2>1. sent' \in Nat /\ sent <= sent' /\ \A n \in 1 .. sent' : n \in 1 .. sent
    BY <1>2 DEF TInv, SendTypes
  <2> QED BY <1>1, <1>2, <1>3, <1>8, <1>9, <2>1, GiveStep
<1>11. OneByOne'
  BY <1>2, <1>3 DEF MInv, OneByOne, Parked
<1> QED BY <1>10, <1>11 DEF MInv

LEMMA ProcessMessages == ASSUME TInv, MInv, ProcessQueued PROVE MInv'
<1> DEFINE h == Head(queue) t == Tail(queue)
<1>1. queue \in Seq(Messages) /\ queue # <<>> /\ Ordered(queue, queued)
  BY DEF ProcessQueued, TInv, AnswerTypes, MInv, InLine
<1>2. /\ h \in Messages /\ t \in Seq(Messages) /\ Within(queue) = {h} \cup Within(t)
      /\ Ordered(t, queued) /\ \A y \in Within(t) : Precedes(h, y, queued)
  BY <1>1, TailLine
<1>3. /\ queue' = t /\ submitting = <<>> /\ submitting' = <<h>>
      /\ UNCHANGED <<pc, result, slot, carried, restarted, sent, queued, abort, timers, overtaken, unclaimed>>
  BY DEF ProcessQueued, asks, timing, sending, losing
<1> HIDE DEF h, t
<1>4. Len(<<h>>) = 1 /\ <<h>>[1] = h
  OBVIOUS
<1>5. Within(submitting') = {h}
  BY <1>3, <1>4 DEF Within
<1>6. Line' = Line
  BY <1>2, <1>3, <1>5, EmptyLine DEF Line
<1>7. InLine'
  BY <1>2, <1>3, <1>5 DEF MInv, InLine
<1>8. Taken' = Taken /\ Given' = Given
  BY <1>3, HeardStays DEF Taken, Given, Parked
<1>9. Placed' /\ Kept'
  BY <1>3, <1>6, <1>8 DEF MInv, Placed, Kept
<1>10. OneByOne'
  BY <1>3, <1>4 DEF MInv, OneByOne, Parked
<1> QED BY <1>7, <1>9, <1>10 DEF MInv

LEMMA SubmittedMessages == ASSUME TInv, MInv, Submitted PROVE MInv'
<1> DEFINE h == Head(submitting) ans == Text(h, None)
<1>1. submitting \in Seq(Messages) /\ submitting # <<>> /\ Len(submitting) <= 1
  BY DEF Submitted, TInv, SendTypes, MInv, OneByOne
<1>2. /\ h \in Messages /\ Tail(submitting) \in Seq(Messages) /\ Len(Tail(submitting)) = Len(submitting) - 1
      /\ Len(submitting) \in Nat \ {0} /\ h = submitting[1]
  BY <1>1, HeadTailProperties, EmptySeq
<1>3. Len(submitting) = 1
  BY <1>1, <1>2
<1>4. Within(submitting) = {h} /\ Within(submitting') = {}
  <2>1. submitting' = Tail(submitting)
    BY DEF Submitted
  <2>2. Len(submitting') = 0
    BY <1>2, <1>3, <2>1
  <2> QED BY <1>2, <1>3, <2>2 DEF Within
<1>5. ans \in Answers /\ ans.text = h /\ Handle(ans, queue)
  BY <1>2, TextIsAnswer DEF Submitted
<1>6. /\ UNCHANGED <<pc, result, carried, restarted, sent, queued, abort>>
      /\ Len(submitting') = 0
  BY <1>2, <1>3 DEF Submitted, asks, sending
<1> HIDE DEF ans, h
<1>7. Offered(ans, queue) /\ timers' \subseteq timers
  BY <1>2, <1>5, HandleOffers
<1>8. h \in Line /\ h \notin Taken /\ \A y \in Within(queue) : Precedes(h, y, queued)
  BY <1>4 DEF Line, MInv, Placed, InLine
<1>9. h \notin Within(queue)
  BY <1>8 DEF Precedes
<1>10. Given \cup {h} \subseteq Given'
  <2>1. Given \subseteq Given'
    BY <1>6, <1>7, GivenGrows DEF TInv, SendTypes, Parked
  <2> QED BY <1>8, <2>1 DEF MInv, Placed
<1>11. {h} \cup Line = {h} \cup Within(queue) \cup Within(submitting')
  BY <1>4 DEF Line
<1>12. queue \in Seq(Messages) /\ Ordered(queue, queued)
  BY DEF TInv, AnswerTypes, MInv, InLine
<1>13. Ordered(queue', queued') /\ Placed' /\ Kept'
  BY <1>2, <1>4, <1>5, <1>6, <1>7, <1>8, <1>9, <1>10, <1>11, <1>12, OfferStep
<1>14. InLine'
  BY <1>4, <1>6, <1>13 DEF MInv, InLine
<1>15. OneByOne'
  BY <1>6, <1>7 DEF MInv, OneByOne, Parked
<1> QED BY <1>13, <1>14, <1>15 DEF MInv

LEMMA SendNowMessages == ASSUME TInv, MInv, SendNow PROVE MInv'
<1> DEFINE h == Head(queue) t == Tail(queue)
<1>1. queue \in Seq(Messages) /\ queue # <<>> /\ Ordered(queue, queued)
  BY DEF SendNow, TInv, AnswerTypes, MInv, InLine
<1>2. /\ h \in Messages /\ t \in Seq(Messages) /\ Within(queue) = {h} \cup Within(t)
      /\ Ordered(t, queued) /\ \A y \in Within(t) : Precedes(h, y, queued)
  BY <1>1, TailLine
<1>3. /\ queue' = t /\ carried' = h /\ carried = None /\ abort'
      /\ UNCHANGED <<pc, result, slot, restarted, sent, queued, submitting, timers, overtaken, unclaimed>>
  BY DEF SendNow, asks, timing, losing, MInv, OneByOne, TInv, Flags
<1> HIDE DEF h, t
<1>4. h \notin Within(t) /\ h # None
  BY <1>2, AskAssumption DEF Precedes
<1>5. h \notin Within(submitting)
  BY <1>2 DEF MInv, InLine, Precedes
<1>6. Line' = Within(t) \cup Within(submitting) /\ Line = {h} \cup Line' /\ h \notin Line'
  BY <1>2, <1>3, <1>4, <1>5 DEF Line
<1>7. Taken' = Taken \cup {h}
  BY <1>3, <1>4, HeardStays DEF Taken
<1>8. Given' = Given
  BY <1>3 DEF Given, Parked
<1>9. Placed' /\ Kept'
  BY <1>3, <1>6, <1>7, <1>8 DEF MInv, Placed, Kept
<1>10. InLine'
  BY <1>2, <1>3 DEF MInv, InLine
<1>11. OneByOne'
  BY <1>3 DEF MInv, OneByOne, Parked
<1> QED BY <1>9, <1>10, <1>11 DEF MInv

LEMMA RestartMessages == ASSUME TInv, MInv, Restart PROVE MInv'
<1>1. /\ restarted' = restarted \cup {carried} /\ carried' = None /\ carried \in Messages /\ carried # None
      /\ UNCHANGED <<pc, result, slot, queue, submitting, sent, queued, timers, overtaken, unclaimed>>
  <2>1. carried \in Messages
    BY DEF Restart, TInv, CarriedTypes
  <2> QED BY <2>1, AskAssumption DEF Restart, asks, timing, losing
<1>2. Heard' = Heard \cup {carried}
  BY <1>1 DEF Heard
<1>3. Taken' = Taken
  BY <1>1, <1>2 DEF Taken
<1>4. InLine' /\ Line' = Line
  BY <1>1, LineStays
<1>5. Given' = Given
  BY <1>1 DEF Given, Parked
<1>6. Placed' /\ Kept'
  BY <1>1, <1>3, <1>4, <1>5 DEF MInv, Placed, Kept
<1>7. OneByOne'
  BY <1>1 DEF MInv, OneByOne, Parked
<1> QED BY <1>4, <1>6, <1>7 DEF MInv

(* What every step of an ask does to the messages when none is offered: they *)
(* stay in their places, but what was in the slot may go to a result.        *)
LEMMA AskMessages ==
    ASSUME TInv, MInv, NEW a \in Ask, NEW p \in {"deciding", "waiting", "answered", "ignored", "auto"},
           Parked(a) => Parked(a)', Parked(a)' \/ a \notin timers,
           pc' = [pc EXCEPT ![a] = p], pc[a] # "answered",
           UNCHANGED <<queue, submitting, sent, queued, abort, carried, restarted, unclaimed>>,
           timers' \subseteq timers \cup {a}, a \in timers' => a \in timers \/ ~Parked(a),
           \A b \in timers' : Parked(b)',
           overtaken \subseteq overtaken',
           \/ UNCHANGED <<result, slot>>
           \/ result' = result /\ TextOf(slot') = {} /\ TextOf(slot) \subseteq overtaken'
           \/ TextOf(slot') = {} /\ p = "answered" /\ result' = [result EXCEPT ![a] = slot]
    PROVE  MInv'
<1>1. InLine' /\ Line' = Line
  BY LineStays
<1>2. Given \subseteq Given'
  <2>1. \A b \in Ask : Parked(b) => Parked(b)'
    BY DEF Parked, TInv, AskTypes
  <2> QED BY <2>1, GivenGrows DEF TInv, SendTypes
<1>3. Taken' \subseteq Taken /\ Taken \subseteq Taken' \cup overtaken'
  <2>1. CASE UNCHANGED <<result, slot>>
    BY <2>1, HeardStays DEF Taken
  <2>2. CASE result' = result /\ TextOf(slot') = {} /\ TextOf(slot) \subseteq overtaken'
    BY <2>2, HeardStays DEF Taken
  <2>3. CASE TextOf(slot') = {} /\ p = "answered" /\ result' = [result EXCEPT ![a] = slot]
    <3>1. result[a] = None /\ TextOf(None) = {}
      BY DEF MInv, OneByOne, TextOf
    <3>2. \A b \in Ask : TextOf(result'[b]) = IF b = a THEN TextOf(slot) ELSE TextOf(result[b])
      BY <2>3 DEF TInv, AskTypes
    <3>3. Heard' = Heard \cup TextOf(slot)
      BY <3>1, <3>2 DEF Heard
    <3> QED BY <2>3, <3>3 DEF Taken
  <2> QED BY <2>1, <2>2, <2>3
<1>4. Line' \cap Taken' = {}
  BY <1>1, <1>3 DEF MInv, Placed
<1>5. Placed' /\ Kept'
  BY <1>1, <1>2, <1>3, <1>4, PlacesMove DEF MInv
<1>6. OneByOne'
  BY DEF MInv, OneByOne, TInv, AskTypes
<1> QED BY <1>1, <1>5, <1>6 DEF MInv

(* An ask offers the first message of the queue as its own answer. *)
LEMMA DrainMessages ==
    ASSUME TInv, MInv, NEW a \in Ask, queue # <<>>, Handle(Drained(a, Head(queue)), Tail(queue)),
           UNCHANGED <<result, submitting, abort, sending>>,
           \A b \in Ask : Parked(b) => Parked(b)'
    PROVE  InLine' /\ Placed' /\ Kept' /\ timers' \subseteq timers
<1> DEFINE h == Head(queue) t == Tail(queue) ans == Drained(a, h)
<1>1. queue \in Seq(Messages) /\ Ordered(queue, queued)
  BY DEF TInv, AnswerTypes, MInv, InLine
<1>2. /\ h \in Messages /\ t \in Seq(Messages) /\ Within(queue) = {h} \cup Within(t)
      /\ Ordered(t, queued) /\ \A y \in Within(t) : Precedes(h, y, queued)
  BY <1>1, TailLine
<1>3. ans \in Answers /\ ans.text = h
  BY <1>2, DrainedIsAnswer DEF Drained, Text, Approve
<1>4. Offered(ans, t) /\ timers' \subseteq timers
  BY <1>2, <1>3, HandleOffers
<1> HIDE DEF ans, h, t
<1>5. UNCHANGED <<carried, sent, queued, restarted>> /\ Within(submitting') = Within(submitting)
  BY DEF sending
<1>6. h \notin Within(t)
  BY <1>2 DEF Precedes
<1>7. h \notin Within(submitting)
  BY <1>2 DEF MInv, InLine, Precedes
<1>8. h \in Line /\ h \notin Taken
  BY <1>2 DEF Line, MInv, Placed
<1>9. {h} \cup Line = {h} \cup Within(t) \cup Within(submitting')
  BY <1>2, <1>5 DEF Line
<1>10. Given \cup {h} \subseteq Given'
  <2>1. Given \subseteq Given'
    BY <1>4, <1>5, GivenGrows DEF TInv, SendTypes
  <2> QED BY <1>8, <2>1 DEF MInv, Placed
<1>11. \A x \in Within(submitting') : \A y \in {h} \cup Within(t) : Precedes(x, y, queued)
  BY <1>2, <1>5 DEF MInv, InLine
<1>12. /\ Ordered(queue', queued') /\ Placed' /\ Kept'
       /\ \A x \in Within(submitting') : \A y \in Within(queue') : Precedes(x, y, queued')
  <2>1. \A n \in 1 .. sent' : n \in 1 .. sent
    BY <1>5
  <2>2. UNCHANGED <<carried, result, restarted, queued>>
    BY <1>5
  <2> QED BY <1>2, <1>3, <1>4, <1>5, <1>6, <1>7, <1>8, <1>9, <1>10, <1>11, <2>1, <2>2, OfferStep
<1>13. InLine'
  BY <1>5, <1>12 DEF MInv, InLine
<1> QED BY <1>4, <1>12, <1>13

LEMMA BeginMessages == ASSUME TInv, MInv, NEW a \in Ask, Begin(a) PROVE MInv'
<1>1. /\ pc[a] = "new" /\ pc' = [pc EXCEPT ![a] = "deciding"] /\ slot' = None
      /\ overtaken' = overtaken \cup TextOf(slot)
      /\ UNCHANGED <<result, timers, queue, submitting, sent, queued, abort, carried, restarted, unclaimed>>
  BY DEF Begin, timing, sending
<1>2. TextOf(slot') = {} /\ ~Parked(a)
  BY <1>1 DEF TextOf, Parked
<1>3. \A b \in timers' : Parked(b)'
  BY <1>1, <1>2 DEF MInv, OneByOne, Parked, TInv, AskTypes
<1> QED BY <1>1, <1>2, <1>3, AskMessages DEF MInv, OneByOne

LEMMA AutoMessages == ASSUME TInv, MInv, NEW a \in Ask, AutoApproved(a) PROVE MInv'
<1>1. /\ pc[a] = "deciding" /\ pc' = [pc EXCEPT ![a] = "auto"]
      /\ UNCHANGED <<result, slot, timers, queue, submitting, sent, queued, abort, carried, restarted, unclaimed, overtaken>>
  BY DEF AutoApproved, timing, sending, losing
<1>2. \A b \in timers' : Parked(b)'
  BY <1>1 DEF MInv, OneByOne, Parked, TInv, AskTypes
<1>3. Parked(a)'
  BY <1>1 DEF Parked, TInv, AskTypes
<1> QED BY <1>1, <1>2, <1>3, AskMessages

LEMMA ParkMessages == ASSUME TInv, MInv, NEW a \in Ask, Park(a) PROVE MInv'
<1>1. /\ pc[a] = "deciding" /\ pc' = [pc EXCEPT ![a] = "waiting"]
      /\ UNCHANGED <<result, submitting, abort, sending>>
  BY DEF Park
<1>2. Parked(a)' /\ ~Parked(a) /\ \A b \in Ask : Parked(b) => Parked(b)'
  BY <1>1 DEF Parked, TInv, AskTypes
<1>3. CASE queue # <<>> /\ Drains(a)
  <2>0. Handle(Drained(a, Head(queue)), Tail(queue))
    BY <1>3 DEF Park
  <2>1. InLine' /\ Placed' /\ Kept' /\ timers' \subseteq timers
    BY <1>1, <1>2, <1>3, <2>0, DrainMessages
  <2>2. OneByOne'
    <3>1. \A b \in Ask : result'[b] # None => pc'[b] = "answered"
      BY <1>1 DEF MInv, OneByOne, TInv, AskTypes
    <3>2. UNCHANGED <<carried, abort, submitting>>
      BY <1>1 DEF sending
    <3>3. \A b \in timers' : Parked(b)'
      BY <1>2, <2>1 DEF MInv, OneByOne, TInv, AnswerTypes
    <3> QED BY <3>1, <3>2, <3>3 DEF MInv, OneByOne
  <2> QED BY <2>1, <2>2 DEF MInv
<1>4. CASE ~(queue # <<>> /\ Drains(a))
  <2>1. timers' \subseteq timers \cup {a} /\ UNCHANGED <<queue, slot, overtaken, unclaimed>>
    BY <1>4 DEF Park, timing, losing
  <2>2. UNCHANGED <<sent, queued, carried, restarted>>
    BY <1>1 DEF sending
  <2>3. \A b \in timers' : Parked(b)'
    BY <1>2, <2>1 DEF MInv, OneByOne, TInv, AnswerTypes
  <2> QED BY <1>1, <1>2, <2>1, <2>2, <2>3, AskMessages
<1> QED BY <1>3, <1>4

LEMMA PollMessages == ASSUME TInv, MInv, NEW a \in Ask, Poll(a) PROVE MInv'
<1>1. CASE PollDrains(a)
  <2>1. UNCHANGED <<pc, result, submitting, abort, sending>>
    BY <1>1 DEF PollDrains, asks
  <2>2. InLine' /\ Placed' /\ Kept' /\ timers' \subseteq timers
    BY <1>1, <2>1, DrainMessages DEF PollDrains, Parked
  <2>3. OneByOne'
    BY <2>1, <2>2 DEF MInv, OneByOne, Parked, sending
  <2> QED BY <2>2, <2>3 DEF MInv
<1>2. CASE Answered(a)
  <2>1. /\ pc[a] = "waiting" /\ pc' = [pc EXCEPT ![a] = "answered"] /\ slot' = None
        /\ result' = [result EXCEPT ![a] = slot] /\ timers' = timers \ {a}
        /\ UNCHANGED <<queue, submitting, sent, queued, abort, carried, restarted, unclaimed, overtaken>>
    BY <1>2 DEF Answered, sending, losing
  <2>2. TextOf(slot') = {}
    BY <2>1 DEF TextOf
  <2>3. Parked(a)' /\ \A b \in timers' : Parked(b)'
    BY <2>1 DEF MInv, OneByOne, Parked, TInv, AskTypes
  <2> QED BY <2>1, <2>2, <2>3, AskMessages
<1>3. CASE Ignored(a)
  <2>1. /\ pc[a] = "waiting" /\ pc' = [pc EXCEPT ![a] = "ignored"]
        /\ UNCHANGED <<result, slot, timers, queue, submitting, sent, queued, abort, carried, restarted, unclaimed, overtaken>>
    BY <1>3 DEF Ignored, timing, sending, losing
  <2>2. Parked(a)' /\ \A b \in timers' : Parked(b)'
    BY <2>1 DEF MInv, OneByOne, Parked, TInv, AskTypes
  <2> QED BY <2>1, <2>2, AskMessages
<1> QED BY <1>1, <1>2, <1>3 DEF Poll

LEMMA NextMessages == ASSUME TInv, MInv, Next PROVE MInv'
<1>1. ASSUME NEW a \in Ask, Reply(a) PROVE MInv'
  BY <1>1, GiveNewStep DEF Reply
<1>2. CASE Submit
  BY <1>2, GiveNewStep DEF Submit
<1>3. CASE CancelTimer
  <2>1. /\ timers' \subseteq timers
        /\ UNCHANGED <<pc, result, slot, queue, submitting, abort, carried, sent, queued, restarted, overtaken, unclaimed>>
    BY <1>3 DEF CancelTimer, asks, sending, losing
  <2>2. InLine' /\ Line' = Line
    BY <2>1, LineStays
  <2>3. Taken' = Taken
    BY <2>1, HeardStays DEF Taken
  <2>4. Given \subseteq Given'
    BY <2>1, GivenGrows DEF TInv, SendTypes, Parked
  <2>5. Placed' /\ Kept'
    BY <2>1, <2>2, <2>3, <2>4 DEF MInv, Placed, Kept
  <2>6. OneByOne'
    BY <2>1 DEF MInv, OneByOne, Parked
  <2> QED BY <2>2, <2>5, <2>6 DEF MInv
<1> QED BY <1>1, <1>2, <1>3, BeginMessages, AutoMessages, ParkMessages, PollMessages, TimerMessages, ClickMessages,
           EnqueueMessages, ProcessMessages, SubmittedMessages, SendNowMessages, RestartMessages DEF Next
-----------------------------------------------------------------------------
LEMMA InitInv == Init => Inv
<1> SUFFICES ASSUME Init PROVE Inv
  OBVIOUS
<1>1. AskTypes /\ InOrder /\ AnswersMatch /\ WaitingIsKnown
  BY DEF Init, AskTypes, InOrder, Outstanding, AnswersMatch, WaitingIsKnown
<1>2. <<>> \in Seq(Messages)
  OBVIOUS
<1>3. AnswerTypes /\ SlotMatches /\ CarriedTypes
  BY <1>2 DEF Init, AnswerTypes, SlotMatches, CarriedTypes
<1>4. SendTypes
  BY <1>2, AskAssumption DEF Init, SendTypes
<1>5. Flags
  BY DEF Init, Flags
<1> QED BY <1>1, <1>3, <1>4, <1>5 DEF Inv, TInv

LEMMA StutterStep == Inv /\ UNCHANGED vars => Inv'
<1> SUFFICES ASSUME Inv, UNCHANGED vars PROVE Inv'
  OBVIOUS
<1> USE DEF Inv, TInv, vars
<1>1. AnswerTypes' /\ SlotMatches'
  BY DEF AnswerTypes, SlotMatches, asks, timing, losing
<1> QED BY <1>1, AsksStay, FlagsStay, CarriedStays, SendingStays DEF sending

LEMMA Invariance == Spec => []Inv
<1>1. Inv /\ [Next]_vars => Inv'
  BY BeginStep, AutoStep, ParkStep, PollStep, TimerStep, UserStep, TaskStep, StutterStep DEF Next
<1> QED BY InitInv, <1>1, PTL DEF Spec

(* The asks, the slot, the queue and the messages under way keep their types *)
(* (Task.ask, handleWebviewAskResponse), for any number of asks and messages. *)
THEOREM TypeCorrect == Spec => []TypeOK
<1>1. Inv => TypeOK
  BY DEF Inv, TInv, AskTypes, AnswerTypes, SendTypes, CarriedTypes, Flags, TypeOK
<1> QED BY Invariance, <1>1, PTL

(* The askId the view echoes, compared with the current ask, and the slot    *)
(* emptied at the beginning of an ask are enough: for any number of asks     *)
(* that overlap, clicks, messages and timers, no ask is decided by an answer *)
(* to another (handleWebviewAskResponse, the staleness check).               *)
THEOREM AnswersDecideTheirAsk == Spec => []AnswersMatch
<1>1. Inv => AnswersMatch
  BY DEF Inv
<1> QED BY Invariance, <1>1, PTL

(* The flag isAwaitingAskResponse is set while the current ask waits, except *)
(* after an ask that it superseded was ignored; if asks do not overlap it    *)
(* always is, and the answer to the current ask is never refused.            *)
THEOREM FlagIsSet == Spec => []WaitingIsKnown
<1>1. Inv => WaitingIsKnown
  BY DEF Inv
<1> QED BY Invariance, <1>1, PTL

LEMMA MessagesInvariance == Spec => []MInv
<1>1. ASSUME Init PROVE MInv
  <2> USE <1>1, EmptyLine DEF Init
  <2>1. OneByOne
    BY DEF OneByOne
  <2>2. InLine
    BY DEF InLine
  <2>3. Line = {} /\ Taken = {}
    BY DEF Line, Taken, TextOf, Heard
  <2>4. Placed /\ Kept
    BY <2>3 DEF Placed, Kept
  <2> QED BY <2>1, <2>2, <2>4 DEF MInv
<1>2. ASSUME Inv, MInv, Next PROVE MInv'
  BY <1>2, NextMessages DEF Inv
<1>3. ASSUME Inv, MInv, UNCHANGED vars PROVE MInv'
  <2>1. UNCHANGED <<queue, submitting, queued, sent, pc, result, slot, carried, restarted, abort, timers, overtaken,
                    unclaimed>>
    BY <1>3 DEF vars, asks, timing, sending, losing
  <2>2. InLine' /\ Line' = Line
    BY <1>3, <2>1, LineStays
  <2>3. Taken' = Taken /\ Given' = Given
    BY <2>1, HeardStays DEF Taken, Given, Parked
  <2>4. Placed' /\ Kept'
    BY <1>3, <2>1, <2>2, <2>3 DEF MInv, Placed, Kept
  <2>5. OneByOne'
    BY <1>3, <2>1 DEF MInv, OneByOne, Parked
  <2> QED BY <2>2, <2>4, <2>5 DEF MInv
<1> QED BY Invariance, <1>1, <1>2, <1>3, PTL DEF Spec

(* For any number of asks and messages, any order of polls, drains, timers,  *)
(* submissions and Send Now: a message of the user is in the queue, under    *)
(* way, in the slot, or was heard, unless it is one of those the histories   *)
(* name, and none is offered again (Task.ask, handleWebviewAskResponse,      *)
(* processQueuedMessages, cancelAndProcessQueuedMessages).                   *)
THEOREM NoMessageVanishes == Spec => []MessagesKept
<1>1. MInv => MessagesKept
  <2> SUFFICES ASSUME MInv PROVE MessagesKept
    OBVIOUS
  <2>1. \A n \in 1 .. sent : User(n) \in Held \cup Heard \cup overtaken \cup unclaimed
    BY DEF MInv, Kept, Line, Taken, Held
  <2>2. \A i, j \in 1 .. Len(queue) : i # j => queue[i] # queue[j]
    <3>1. \A i, j \in 1 .. Len(queue) : i < j => queue[i] # queue[j]
      BY DEF MInv, InLine, Ordered, Precedes
    <3>2. \A i, j \in 1 .. Len(queue) : i # j => i < j \/ j < i
      OBVIOUS
    <3> QED BY <3>1, <3>2
  <2>3. Within(queue) \cap Within(submitting) = {}
    BY DEF MInv, InLine, Precedes
  <2>4. (Within(queue) \cup Within(submitting)) \cap Heard = {}
    BY DEF MInv, Placed, Line, Taken
  <2> QED BY <2>1, <2>2, <2>3, <2>4 DEF MessagesKept
<1> QED BY MessagesInvariance, <1>1, PTL

(* Messages sent to the queue leave it in the order of sending: one that was *)
(* taken and refused goes back to the front, and nothing that was sent later *)
(* has gone there meanwhile (handleWebviewAskResponse, MessageQueueService). *)
THEOREM QueueIsInOrder == Spec => []OrderKept
<1>1. MInv => OrderKept
  BY DEF MInv, InLine, Ordered, Precedes, OrderKept
<1> QED BY MessagesInvariance, <1>1, PTL
=============================================================================
