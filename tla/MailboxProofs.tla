---------------------------- MODULE MailboxProofs ----------------------------
(* Theorems about Mailbox, for every set of envelopes, capacity and clock.  *)
EXTENDS Mailbox, FiniteSetTheorems, TLAPS

(* The array a box replaces keeps what it held: the queue stays a sequence  *)
(* of writes of the same length, each of which has the same contents.       *)
LEMMA DetachedQueue ==
    ASSUME TypeOK, NEW b \in Box
    PROVE  /\ Detached(b) \in Seq(Writes)
           /\ Len(Detached(b)) = Len(queue)
<1>1. \A k \in DOMAIN queue : queue[k] \in Writes
  BY DEF TypeOK
<1>2. \A k \in DOMAIN queue : Written(queue[k]) \in Contents
  BY <1>1 DEF TypeOK, Written, Writes
<1>3. \A k \in DOMAIN queue :
          [queue[k] EXCEPT !.aliased = FALSE, !.mail = Written(queue[k])] \in Writes
  BY <1>1, <1>2 DEF Writes
<1>4. DOMAIN queue = 1 .. Len(queue) /\ Len(queue) \in Nat
  BY DEF TypeOK
<1>5. \A k \in 1 .. Len(queue) : Detached(b)[k] \in Writes
  BY <1>1, <1>3, <1>4 DEF Detached
<1>6. Detached(b) \in [1 .. Len(queue) -> Writes]
  BY <1>4, <1>5 DEF Detached
<1>7. QED
  BY <1>4, <1>6

LEMMA SweptQueueType ==
    ASSUME TypeOK, NEW b \in Box, NEW t
    PROVE  SweptQueue(b, t) \in Seq(Writes)
BY DetachedQueue DEF SweptQueue, TypeOK

LEMMA ContentsFacts ==
    /\ Empty \in Contents
    /\ \A m \in Contents, t \in Nat : Sweep(m, t) \in Contents
    /\ \A m \in Contents : AfterRead(m) \in Contents
    /\ \A m \in Contents, i \in Id :
          /\ [m EXCEPT ![i] = "unread"] \in Contents
          /\ [m EXCEPT ![i] = "absent"] \in Contents
BY DEF Contents, Empty, Sweep, AfterRead

LEMMA PersistType ==
    ASSUME NEW q \in Seq(Writes), NEW b \in Box, NEW c \in Calls
    PROVE  Persist(q, b, c) \in Seq(Writes)
<1>1. [box |-> b, aliased |-> TRUE, mail |-> Empty, call |-> c] \in Writes
  BY ContentsFacts DEF Writes
<1>2. QED
  BY <1>1 DEF Persist

LEMMA InitType == Init => TypeOK
BY MailboxAssumption, ContentsFacts DEF Init, TypeOK, Phases

LEMMA RunType ==
    ASSUME TypeOK, NEW b \in Box, NEW c \in waiting[b], Run(b, c)
    PROVE  TypeOK'
<1> USE MailboxAssumption
<1>1. c \in Calls /\ c.at \in Nat
  BY DEF TypeOK, Calls
<1>2. mem[b] \in Contents
  BY DEF TypeOK
<1>3. Sweep(mem[b], c.at) \in Contents
  BY <1>1, <1>2, ContentsFacts
<1>4. /\ Detached(b) \in Seq(Writes)
      /\ SweptQueue(b, c.at) \in Seq(Writes)
      /\ Persist(Detached(b), b, c) \in Seq(Writes)
      /\ Persist(SweptQueue(b, c.at), b, c) \in Seq(Writes)
  BY <1>1, DetachedQueue, SweptQueueType, PersistType
<1>5. c.op \in {"deliver", "resolve"} => c.id \in Id
  BY <1>1 DEF Calls
<1>6. CASE DeliverDuplicate(b, c) \/ DeliverFull(b, c) \/ DrainEmpty(b, c)
  BY <1>3, <1>4, <1>6
     DEF DeliverDuplicate, DeliverFull, DrainEmpty, Resumes, TypeOK, history
<1>7. CASE DeliverAccepted(b, c)
  <2>1. [Sweep(mem[b], c.at) EXCEPT ![c.id] = "unread"] \in Contents
    BY <1>3, <1>5, <1>7, ContentsFacts DEF DeliverAccepted
  <2>2. QED
    BY <1>4, <1>7, <2>1 DEF DeliverAccepted, Resumes, TypeOK
<1>8. CASE DrainMail(b, c)
  <2>1. AfterRead(Sweep(mem[b], c.at)) \in Contents
    BY <1>3, ContentsFacts
  <2>2. Held(Sweep(mem[b], c.at)) \subseteq Id
    BY DEF Held
  <2>3. QED
    BY <1>4, <1>8, <2>1, <2>2 DEF DrainMail, Resumes, TypeOK
<1>9. CASE ResolveUnknown(b, c) \/ ResolveExpired(b, c)
  BY <1>3, <1>4, <1>9 DEF ResolveUnknown, ResolveExpired, Resumes, TypeOK, history
<1>10. CASE ResolveAnswered(b, c)
  <2>1. [mem[b] EXCEPT ![c.id] = "absent"] \in Contents
    BY <1>2, <1>5, <1>10, ContentsFacts DEF ResolveAnswered
  <2>2. mem' = [mem EXCEPT ![b] = [mem[b] EXCEPT ![c.id] = "absent"]]
    BY <1>10 DEF ResolveAnswered
  <2>3. QED
    BY <1>4, <1>5, <1>10, <2>1, <2>2 DEF ResolveAnswered, Resumes, TypeOK
<1>11. QED
  BY <1>6, <1>7, <1>8, <1>9, <1>10 DEF Run

LEMMA CallType ==
    ASSUME TypeOK, NEW b \in Box, NEW c \in Calls, Call(b, c)
    PROVE  TypeOK'
BY DEF Call, TypeOK, history

LEMMA StepType == TypeOK /\ [Next]_vars => TypeOK'
<1> USE MailboxAssumption
<1> SUFFICES ASSUME TypeOK, [Next]_vars PROVE TypeOK'
  OBVIOUS
<1>1. CASE Tick
  BY <1>1 DEF Tick, TypeOK, history
<1>2. ASSUME NEW b \in Box, Open(b) \/ OpenUnreadable(b)
      PROVE  TypeOK'
  BY <1>2, ContentsFacts DEF Open, OpenUnreadable, TypeOK, Phases, history
<1>3. ASSUME NEW b \in Box, Hydrate(b) \/ Glance(b)
      PROVE  TypeOK'
  <2>1. Sweep(loaded[b], now) \in Contents /\ Sweep(mem[b], now) \in Contents
    BY ContentsFacts DEF TypeOK
  <2>2. Detached(b) \in Seq(Writes)
    BY DetachedQueue
  <2>3. CASE Hydrate(b)
    BY <2>1, <2>2, <2>3, ContentsFacts DEF Hydrate, TypeOK, Phases, history
  <2>4. CASE Glance(b)
    BY <2>1, <2>2, <2>4 DEF Glance, TypeOK, history
  <2>5. QED
    BY <1>3, <2>3, <2>4
<1>4. ASSUME NEW b \in Box, CallDrain(b)
      PROVE  TypeOK'
  <2>1. [op |-> "drain", at |-> now] \in Calls
    BY DEF TypeOK, Calls
  <2>2. QED
    BY <1>4, <2>1, CallType DEF CallDrain
<1>5. ASSUME NEW b \in Box, NEW i \in Id, CallDeliver(b, i) \/ CallResolve(b, i)
      PROVE  TypeOK'
  <2>1. /\ [op |-> "deliver", id |-> i, at |-> now] \in Calls
        /\ [op |-> "resolve", id |-> i, at |-> now] \in Calls
    BY DEF TypeOK, Calls
  <2>2. QED
    BY <1>5, <2>1, CallType DEF CallDeliver, CallResolve
<1>6. ASSUME NEW b \in Box, NEW c \in waiting[b], Run(b, c)
      PROVE  TypeOK'
  BY <1>6, RunType
<1>7. CASE Commit \/ CommitFails
  <2>1. queue # <<>>
    BY <1>7 DEF Commit, CommitFails
  <2>2. Head(queue) \in Writes /\ Tail(queue) \in Seq(Writes)
    BY <2>1 DEF TypeOK
  <2>3. Written(Head(queue)) \in Contents
    BY <2>2 DEF TypeOK, Written, Writes
  <2>4. QED
    BY <1>7, <2>2, <2>3 DEF Commit, CommitFails, TypeOK
<1>8. CASE Crash
  BY <1>8, ContentsFacts DEF Crash, TypeOK, Phases
<1>9. CASE UNCHANGED vars
  BY <1>9 DEF vars, TypeOK
<1>10. QED
  BY <1>1, <1>2, <1>3, <1>4, <1>5, <1>6, <1>7, <1>8, <1>9 DEF Next

(* Every variable keeps its type, for all values of the constants. *)
THEOREM TypeCorrect == Spec => []TypeOK
BY InitType, StepType, PTL DEF Spec
-----------------------------------------------------------------------------
(* What a step does to the queue, seen through what its writes contain.     *)

View(k) == Written(queue[k])

\* No write joins or leaves the queue, and none changes its contents.
SameWrites ==
    /\ Len(queue') = Len(queue)
    /\ \A k \in 1 .. Len(queue) :
          View(k)' = View(k) /\ queue'[k].call = queue[k].call

\* A write of m on behalf of c joins the queue.  If the envelope was appended
\* in place, earlier writes that share the array contain m as well.
NewWrite(m, c) ==
    /\ Len(queue') = Len(queue) + 1
    /\ View(Len(queue))' = m
    /\ queue'[Len(queue) + 1].call = c
    /\ \A k \in 1 .. Len(queue) :
          View(k)' \in {View(k), m} /\ queue'[k].call = queue[k].call

LEMMA DetachedSame ==
    ASSUME TypeOK, NEW b \in Box, NEW m,
           mem' = [mem EXCEPT ![b] = m], queue' = Detached(b)
    PROVE  SameWrites
<1>1. Len(queue') = Len(queue) /\ Len(queue) \in Nat
  BY DetachedQueue DEF TypeOK
<1>2. SUFFICES ASSUME NEW k \in 1 .. Len(queue)
               PROVE  View(k)' = View(k) /\ queue'[k].call = queue[k].call
  BY <1>1 DEF SameWrites
<1>3. queue[k] \in Writes /\ k \in DOMAIN queue
  BY <1>1 DEF TypeOK
<1>4. CASE queue[k].box = b
  <2>1. queue'[k] = [queue[k] EXCEPT !.aliased = FALSE, !.mail = Written(queue[k])]
    BY <1>3, <1>4 DEF Detached
  <2>2. queue'[k].aliased = FALSE /\ queue'[k].mail = Written(queue[k])
        /\ queue'[k].call = queue[k].call
    BY <1>3, <2>1 DEF Writes
  <2>3. QED
    BY <2>2 DEF View, Written
<1>5. CASE queue[k].box # b
  <2>1. queue'[k] = queue[k]
    BY <1>3, <1>5 DEF Detached
  <2>2. mem'[queue[k].box] = mem[queue[k].box]
    BY <1>3, <1>5 DEF TypeOK, Writes
  <2>3. QED
    BY <2>1, <2>2 DEF View, Written
<1>6. QED
  BY <1>4, <1>5

LEMMA SweptSame ==
    ASSUME TypeOK, NEW b \in Box, NEW t,
           mem' = [mem EXCEPT ![b] = Sweep(@, t)], queue' = SweptQueue(b, t)
    PROVE  SameWrites
<1>1. CASE Sweep(mem[b], t) = mem[b]
  <2>1. mem' = mem /\ queue' = queue
    BY <1>1 DEF SweptQueue, TypeOK
  <2>2. QED
    BY <2>1 DEF SameWrites, View, Written
<1>2. CASE Sweep(mem[b], t) # mem[b]
  BY <1>2, DetachedSame DEF SweptQueue
<1>3. QED
  BY <1>1, <1>2

LEMMA PersistDetached ==
    ASSUME TypeOK, NEW b \in Box, NEW m \in Contents, NEW c \in Calls,
           mem' = [mem EXCEPT ![b] = m], queue' = Persist(Detached(b), b, c)
    PROVE  NewWrite(m, c)
<1> DEFINE q == Detached(b)
           w == [box |-> b, aliased |-> TRUE, mail |-> Empty, call |-> c]
<1>1. q \in Seq(Writes) /\ Len(q) = Len(queue) /\ Len(queue) \in Nat
  BY DetachedQueue DEF TypeOK
<1>2. w \in Writes
  BY ContentsFacts DEF Writes
<1>3. queue' = Append(q, w)
  BY DEF Persist
<1>4. /\ Len(queue') = Len(queue) + 1
      /\ queue'[Len(queue) + 1] = w
      /\ \A k \in 1 .. Len(queue) : queue'[k] = q[k]
  <2> HIDE DEF q, w
  <2> QED
    BY <1>1, <1>2, <1>3
<1>5. View(Len(queue))' = m
  <2>1. w.aliased = TRUE /\ w.box = b
    OBVIOUS
  <2>2. mem'[b] = m
    BY DEF TypeOK
  <2>3. QED
    BY <1>4, <2>1, <2>2 DEF View, Written
<1>6. ASSUME NEW k \in 1 .. Len(queue)
      PROVE  View(k)' = View(k) /\ queue'[k].call = queue[k].call
  <2>1. queue'[k] = q[k] /\ queue[k] \in Writes /\ k \in DOMAIN queue
    BY <1>1, <1>4, <1>6 DEF TypeOK
  <2>2. CASE queue[k].box = b
    <3>1. q[k] = [queue[k] EXCEPT !.aliased = FALSE, !.mail = Written(queue[k])]
      BY <2>1, <2>2 DEF Detached
    <3>2. q[k].aliased = FALSE /\ q[k].mail = Written(queue[k])
          /\ q[k].call = queue[k].call
      BY <2>1, <3>1 DEF Writes
    <3>3. QED
      BY <2>1, <3>2 DEF View, Written
  <2>3. CASE queue[k].box # b
    <3>1. q[k] = queue[k]
      BY <2>1, <2>3 DEF Detached
    <3>2. mem'[queue[k].box] = mem[queue[k].box]
      BY <2>1, <2>3 DEF TypeOK, Writes
    <3>3. QED
      BY <2>1, <3>1, <3>2 DEF View, Written
  <2>4. QED
    BY <2>2, <2>3
<1>7. QED
  BY <1>4, <1>5, <1>6 DEF NewWrite

LEMMA AcceptedWrite ==
    ASSUME TypeOK, NEW b \in Box, NEW c \in Calls, DeliverAccepted(b, c)
    PROVE  NewWrite(mem'[b], c)
<1> DEFINE q == SweptQueue(b, c.at)
           w == [box |-> b, aliased |-> TRUE, mail |-> Empty, call |-> c]
<1>1. CASE Sweep(mem[b], c.at) # mem[b]
  <2>1. queue' = Persist(Detached(b), b, c)
    BY <1>1 DEF DeliverAccepted, SweptQueue
  <2>2. mem' = [mem EXCEPT ![b] = mem'[b]]
    BY DEF DeliverAccepted, TypeOK
  <2>3. c.at \in Nat /\ c.id \in Id
    BY MailboxAssumption DEF Calls, DeliverAccepted
  <2>4. Sweep(mem[b], c.at) \in Contents
    BY <2>3, ContentsFacts DEF TypeOK
  <2>5. mem'[b] = [Sweep(mem[b], c.at) EXCEPT ![c.id] = "unread"]
    BY DEF DeliverAccepted, TypeOK
  <2>6. mem'[b] \in Contents
    BY <2>3, <2>4, <2>5, ContentsFacts
  <2>7. QED
    BY <2>1, <2>2, <2>6, PersistDetached
<1>2. CASE Sweep(mem[b], c.at) = mem[b]
  <2>1. queue' = Append(queue, w) /\ queue \in Seq(Writes)
    BY <1>2 DEF DeliverAccepted, SweptQueue, Persist, TypeOK
  <2>2. w \in Writes
    BY ContentsFacts DEF Writes
  <2>3. /\ Len(queue') = Len(queue) + 1 /\ Len(queue) \in Nat
        /\ queue'[Len(queue) + 1] = w
        /\ \A k \in 1 .. Len(queue) : queue'[k] = queue[k] /\ queue[k] \in Writes
    <3> HIDE DEF w
    <3> QED
      BY <2>1, <2>2
  <2>4. View(Len(queue))' = mem'[b] /\ queue'[Len(queue) + 1].call = c
    <3>1. w.aliased = TRUE /\ w.box = b /\ w.call = c
      OBVIOUS
    <3>2. QED
      BY <2>3, <3>1 DEF View, Written
  <2>5. ASSUME NEW k \in 1 .. Len(queue)
        PROVE  View(k)' \in {View(k), mem'[b]} /\ queue'[k].call = queue[k].call
    <3>1. \A x \in Box : x # b => mem'[x] = mem[x]
      BY DEF DeliverAccepted, TypeOK
    <3>2. queue[k].box \in Box
      BY <2>3 DEF Writes
    <3>3. QED
      BY <2>3, <3>1, <3>2 DEF View, Written
  <2>6. QED
    BY <2>3, <2>4, <2>5 DEF NewWrite
<1>3. QED
  BY <1>1, <1>2

(* The contents of the box after call c ran on b, and what that did to the  *)
(* queue of writes.                                                         *)
LEMMA RunEffect ==
    ASSUME TypeOK, NEW b \in Box, NEW c \in waiting[b], Run(b, c)
    PROVE  /\ SameWrites \/ NewWrite(mem'[b], c)
           /\ \A x \in Box \ {b} : mem'[x] = mem[x]
           /\ phase[b] = "ready" /\ phase' = phase
           /\ UNCHANGED <<now, loaded, disk>>
<1>1. c \in Calls /\ c.at \in Nat
  BY MailboxAssumption DEF TypeOK, Calls
<1>2. mem[b] \in Contents /\ Sweep(mem[b], c.at) \in Contents
  BY <1>1, ContentsFacts DEF TypeOK
<1>3. CASE DeliverDuplicate(b, c) \/ DeliverFull(b, c) \/ DrainEmpty(b, c)
  BY <1>3, SweptSame
     DEF DeliverDuplicate, DeliverFull, DrainEmpty, Resumes, TypeOK
<1>4. CASE DeliverAccepted(b, c)
  BY <1>1, <1>4, AcceptedWrite DEF DeliverAccepted, Resumes, TypeOK
<1>5. CASE DrainMail(b, c)
  <2> DEFINE m == AfterRead(Sweep(mem[b], c.at))
  <2>1. m \in Contents
    BY <1>2, ContentsFacts
  <2>2. mem' = [mem EXCEPT ![b] = m] /\ queue' = Persist(Detached(b), b, c)
    BY <1>5 DEF DrainMail
  <2>3. NewWrite(m, c)
    BY <1>1, <2>1, <2>2, PersistDetached
  <2>4. mem'[b] = m /\ \A x \in Box \ {b} : mem'[x] = mem[x]
    BY <2>2 DEF TypeOK
  <2>5. QED
    BY <1>5, <2>3, <2>4 DEF DrainMail, Resumes
<1>6. CASE ResolveUnknown(b, c)
  BY <1>6 DEF ResolveUnknown, Resumes, SameWrites, View, Written
<1>7. CASE ResolveExpired(b, c)
  <2> DEFINE m == Sweep(mem[b], c.at)
  <2>1. mem' = [mem EXCEPT ![b] = m] /\ queue' = Persist(Detached(b), b, c)
    BY <1>7 DEF ResolveExpired
  <2>2. NewWrite(m, c)
    BY <1>1, <1>2, <2>1, PersistDetached
  <2>3. mem'[b] = m /\ \A x \in Box \ {b} : mem'[x] = mem[x]
    BY <2>1 DEF TypeOK
  <2>4. QED
    BY <1>7, <2>2, <2>3 DEF ResolveExpired, Resumes
<1>8. CASE ResolveAnswered(b, c)
  <2> DEFINE m == [mem[b] EXCEPT ![c.id] = "absent"]
  <2>1. m \in Contents
    BY <1>1, <1>2, <1>8, ContentsFacts DEF ResolveAnswered, Calls
  <2>2. mem' = [mem EXCEPT ![b] = m] /\ queue' = Persist(Detached(b), b, c)
    BY <1>8 DEF ResolveAnswered
  <2>3. NewWrite(m, c)
    BY <1>1, <2>1, <2>2, PersistDetached
  <2>4. mem'[b] = m /\ \A x \in Box \ {b} : mem'[x] = mem[x]
    BY <2>2 DEF TypeOK
  <2>5. QED
    BY <1>8, <2>3, <2>4 DEF ResolveAnswered, Resumes
<1>9. QED
  BY <1>3, <1>4, <1>5, <1>6, <1>7, <1>8 DEF Run
-----------------------------------------------------------------------------
(* The write at the head of the queue leaves it. *)
HeadLeaves ==
    /\ Len(queue') = Len(queue) - 1
    /\ \A k \in 1 .. Len(queue) - 1 :
          /\ View(k)' = View(k + 1)
          /\ queue'[k].call = queue[k + 1].call

LEMMA CommitEffect ==
    ASSUME TypeOK, Commit \/ CommitFails
    PROVE  /\ HeadLeaves
           /\ Len(queue) \in Nat /\ Len(queue) > 0
           /\ Written(Head(queue)) = View(1)
           /\ UNCHANGED <<now, phase, loaded, mem, waiting, taken>>
<1>1. queue # <<>> /\ queue' = Tail(queue) /\ queue \in Seq(Writes) /\ mem' = mem
  BY DEF Commit, CommitFails, TypeOK
<1>2. /\ Len(queue) \in Nat /\ Len(queue) > 0 /\ Head(queue) = queue[1]
      /\ Len(queue') = Len(queue) - 1
      /\ \A k \in 1 .. Len(queue) - 1 : queue'[k] = queue[k + 1]
  BY <1>1
<1>3. QED
  BY <1>1, <1>2 DEF HeadLeaves, View, Written, Commit, CommitFails

(* Sweeping and reading only remove envelopes; both keep a box finite.      *)
LEMMA HeldFacts ==
    /\ Held(Empty) = {}
    /\ \A m \in Contents : Held(m) \subseteq Id /\ IsFiniteSet(Held(m))
    /\ \A m, n \in Contents :
          Held(m) \subseteq Held(n) => Cardinality(Held(m)) <= Cardinality(Held(n))
    /\ \A m \in Contents : Cardinality(Held(m)) \in Nat
<1>1. \A m \in Contents : Held(m) \subseteq Id /\ IsFiniteSet(Held(m))
  BY MailboxAssumption, FS_Subset DEF Held
<1>2. \A m, n \in Contents :
          Held(m) \subseteq Held(n) => Cardinality(Held(m)) <= Cardinality(Held(n))
  BY <1>1, FS_Subset
<1>3. \A m \in Contents : Cardinality(Held(m)) \in Nat
  BY <1>1, FS_CardinalityType
<1>4. QED
  BY <1>1, <1>2, <1>3 DEF Held, Empty

LEMMA RunCapacity ==
    ASSUME TypeOK, WithinCapacity, NEW b \in Box, NEW c \in waiting[b], Run(b, c)
    PROVE  Cardinality(Held(mem'[b])) <= Capacity
<1> DEFINE s == Sweep(mem[b], c.at)
<1>1. c \in Calls /\ c.at \in Nat /\ Capacity \in Nat
  BY MailboxAssumption DEF TypeOK, Calls
<1>2. mem[b] \in Contents /\ s \in Contents /\ AfterRead(s) \in Contents
  BY <1>1, ContentsFacts DEF TypeOK
<1>3. Held(s) \subseteq Held(mem[b]) /\ Held(AfterRead(s)) \subseteq Held(mem[b])
  BY <1>2 DEF Held, Sweep, AfterRead, Contents
<1>4. /\ Cardinality(Held(mem[b])) <= Capacity
      /\ Cardinality(Held(s)) <= Capacity
      /\ Cardinality(Held(AfterRead(s))) <= Capacity
  BY <1>1, <1>2, <1>3, HeldFacts DEF WithinCapacity
<1>5. CASE DeliverAccepted(b, c)
  <2>1. c.id \in Id
    BY <1>1, <1>5 DEF DeliverAccepted, Calls
  <2>2. mem'[b] = [s EXCEPT ![c.id] = "unread"]
    BY <1>5 DEF DeliverAccepted, TypeOK
  <2>3. Held(mem'[b]) = Held(s) \cup {c.id} /\ c.id \notin Held(s)
    BY <1>2, <1>5, <2>1, <2>2 DEF Held, Contents, DeliverAccepted
  <2>4. Cardinality(Held(s) \cup {c.id}) = Cardinality(Held(s)) + 1
    BY <1>2, <2>3, HeldFacts, FS_AddElement
  <2>5. Cardinality(Held(s)) < Capacity
    BY <1>5 DEF DeliverAccepted
  <2>6. QED
    BY <1>1, <1>2, <2>3, <2>4, <2>5, HeldFacts
<1>6. CASE ResolveAnswered(b, c)
  <2>1. [mem[b] EXCEPT ![c.id] = "absent"] \in Contents
    BY <1>1, <1>2, <1>6, ContentsFacts DEF ResolveAnswered, Calls
  <2>2. mem'[b] = [mem[b] EXCEPT ![c.id] = "absent"]
    BY <1>6 DEF ResolveAnswered, TypeOK
  <2>3. Held(mem'[b]) \subseteq Held(mem[b])
    BY <1>2, <2>2 DEF Held, Contents
  <2>4. QED
    BY <1>1, <1>2, <1>4, <2>1, <2>2, <2>3, HeldFacts
<1>7. CASE DeliverDuplicate(b, c) \/ DeliverFull(b, c) \/ DrainEmpty(b, c)
  BY <1>4, <1>7 DEF DeliverDuplicate, DeliverFull, DrainEmpty, TypeOK
<1>8. CASE DrainMail(b, c)
  BY <1>4, <1>8 DEF DrainMail, TypeOK
<1>9. CASE ResolveUnknown(b, c) \/ ResolveExpired(b, c)
  BY <1>4, <1>9 DEF ResolveUnknown, ResolveExpired, TypeOK
<1>10. QED
  BY <1>5, <1>6, <1>7, <1>8, <1>9 DEF Run

\* A step that keeps every box, file and queued write within the capacity.
LEMMA CapacityKept ==
    ASSUME TypeOK, WithinCapacity, SameWrites,
           \A x \in Box : /\ Cardinality(Held(mem'[x])) <= Capacity
                         /\ Cardinality(Held(loaded'[x])) <= Capacity,
           disk' = disk
    PROVE  WithinCapacity'
<1>1. \A k \in 1 .. Len(queue) : Cardinality(Held(View(k)')) <= Capacity
  BY DEF SameWrites, WithinCapacity, View
<1>2. QED
  BY <1>1 DEF SameWrites, WithinCapacity, View

LEMMA StepCapacity == TypeOK /\ WithinCapacity /\ [Next]_vars => WithinCapacity'
<1> SUFFICES ASSUME TypeOK, WithinCapacity, [Next]_vars PROVE WithinCapacity'
  OBVIOUS
<1>1. Capacity \in Nat
  BY MailboxAssumption
<1>2. \A b \in Box : Cardinality(Held(Sweep(mem[b], now))) <= Capacity
                    /\ Cardinality(Held(Sweep(loaded[b], now))) <= Capacity
                    /\ Cardinality(Held(Empty)) <= Capacity
  <2>1. \A m \in Contents : /\ Sweep(m, now) \in Contents
                            /\ Held(Sweep(m, now)) \subseteq Held(m)
    BY ContentsFacts, MailboxAssumption DEF TypeOK, Held, Sweep, Contents
  <2>2. \A b \in Box : mem[b] \in Contents /\ loaded[b] \in Contents
    BY DEF TypeOK
  <2>3. Cardinality({}) = 0
    BY FS_EmptySet
  <2>4. QED
    BY <1>1, <2>1, <2>2, <2>3, HeldFacts DEF WithinCapacity
<1>3. ASSUME UNCHANGED <<mem, queue, disk>>,
             \A b \in Box : Cardinality(Held(loaded'[b])) <= Capacity
      PROVE  WithinCapacity'
  BY <1>3 DEF WithinCapacity, Written
<1>4. CASE Tick \/ UNCHANGED vars
  BY <1>3, <1>4 DEF Tick, vars, WithinCapacity
<1>5. ASSUME NEW b \in Box, Open(b) \/ OpenUnreadable(b)
      PROVE  WithinCapacity'
  BY <1>2, <1>3, <1>5 DEF Open, OpenUnreadable, WithinCapacity, TypeOK
<1>6. ASSUME NEW b \in Box, Hydrate(b)
      PROVE  WithinCapacity'
  <2>1. SameWrites
    BY <1>6, DetachedSame DEF Hydrate
  <2>2. QED
    BY <1>2, <1>6, <2>1, CapacityKept DEF Hydrate, TypeOK, WithinCapacity
<1>7. ASSUME NEW b \in Box, Glance(b)
      PROVE  WithinCapacity'
  <2>1. SameWrites
    BY <1>7, DetachedSame DEF Glance
  <2>2. QED
    BY <1>2, <1>7, <2>1, CapacityKept DEF Glance, TypeOK, WithinCapacity
<1>8. ASSUME NEW b \in Box, NEW c, Call(b, c)
      PROVE  WithinCapacity'
  BY <1>3, <1>8 DEF Call, WithinCapacity
<1>9. ASSUME NEW b \in Box, NEW c \in waiting[b], Run(b, c)
      PROVE  WithinCapacity'
  <2>1. Cardinality(Held(mem'[b])) <= Capacity
    BY <1>9, RunCapacity
  <2>2. /\ SameWrites \/ NewWrite(mem'[b], c)
        /\ \A x \in Box \ {b} : mem'[x] = mem[x]
        /\ UNCHANGED <<loaded, disk>>
    BY <1>9, RunEffect
  <2>3. \A x \in Box : /\ Cardinality(Held(mem'[x])) <= Capacity
                       /\ Cardinality(Held(loaded'[x])) <= Capacity
    BY <2>1, <2>2 DEF WithinCapacity
  <2>4. CASE SameWrites
    BY <2>2, <2>3, <2>4, CapacityKept
  <2>5. CASE NewWrite(mem'[b], c)
    <3>1. Len(queue) \in Nat /\ Len(queue') = Len(queue) + 1
      BY <2>5 DEF NewWrite, TypeOK
    <3>2. ASSUME NEW k \in 1 .. Len(queue')
          PROVE  Cardinality(Held(View(k)')) <= Capacity
      <4>1. CASE k = Len(queue')
        BY <2>1, <2>5, <4>1 DEF NewWrite, View
      <4>2. CASE k # Len(queue')
        <5>1. k \in 1 .. Len(queue)
          BY <3>1, <4>2
        <5>2. View(k)' = View(k) \/ View(k)' = mem'[b]
          BY <2>5, <5>1 DEF NewWrite
        <5>3. QED
          BY <2>1, <5>1, <5>2 DEF WithinCapacity, View
      <4>3. QED
        BY <4>1, <4>2
    <3>3. QED
      BY <2>2, <2>3, <3>2 DEF WithinCapacity, View
  <2>6. QED
    BY <2>2, <2>4, <2>5
<1>10. CASE Commit \/ CommitFails
  <2>1. /\ HeadLeaves /\ Len(queue) \in Nat /\ Len(queue) > 0
        /\ Written(Head(queue)) = View(1)
        /\ mem' = mem /\ loaded' = loaded
    BY <1>10, CommitEffect
  <2>2. Cardinality(Held(disk')) <= Capacity
    BY <1>10, <2>1 DEF Commit, CommitFails, WithinCapacity, View
  <2>3. ASSUME NEW k \in 1 .. Len(queue')
        PROVE  Cardinality(Held(View(k)')) <= Capacity
    <3>1. k \in 1 .. Len(queue) - 1 /\ k + 1 \in 1 .. Len(queue)
      BY <2>1 DEF HeadLeaves
    <3>2. View(k)' = View(k + 1)
      BY <2>1, <3>1 DEF HeadLeaves
    <3>3. QED
      BY <3>1, <3>2 DEF WithinCapacity, View
  <2>4. QED
    BY <2>1, <2>2, <2>3 DEF WithinCapacity, View
<1>11. CASE Crash
  <2>1. \A x \in Box : /\ Cardinality(Held(mem'[x])) <= Capacity
                       /\ Cardinality(Held(loaded'[x])) <= Capacity
    BY <1>2, <1>11 DEF Crash
  <2>2. Len(queue') = 0 /\ disk' = disk
    BY <1>11 DEF Crash
  <2>3. QED
    BY <2>1, <2>2 DEF WithinCapacity
<1>12. QED
  BY <1>4, <1>5, <1>6, <1>7, <1>8, <1>9, <1>10, <1>11
     DEF Next, CallDrain, CallDeliver, CallResolve

LEMMA InitCapacity == Init => WithinCapacity
<1>1. Cardinality(Held(Empty)) = 0 /\ Capacity \in Nat
  BY HeldFacts, FS_EmptySet, MailboxAssumption
<1>2. SUFFICES ASSUME Init PROVE WithinCapacity
  OBVIOUS
<1>3. \A b \in Box : mem[b] = Empty /\ loaded[b] = Empty
  BY <1>2 DEF Init
<1>4. disk = Empty /\ Len(queue) = 0
  BY <1>2 DEF Init
<1>5. QED
  BY <1>1, <1>3, <1>4 DEF WithinCapacity

(* However many mailbox objects share the file, no box, no queued write and *)
(* no file ever holds more than the capacity.                               *)
THEOREM CapacityRespected == Spec => []WithinCapacity
BY TypeCorrect, InitCapacity, StepCapacity, PTL DEF Spec
-----------------------------------------------------------------------------
(***************************************************************************)
(* Durability, for a process that has one mailbox object over the file and *)
(* whose file can be read back.  The invariant follows an envelope whose   *)
(* delivery completed through every place a later write can come from: the *)
(* file, what a hydration read, the box, and each write in the queue.      *)
(***************************************************************************)
Present(i, b) == mem[b][i] # "absent"

\* The writes from the k-th on contain i.
InWritesFrom(k, i) == \A j \in 1 .. Len(queue) : j >= k => View(j)[i] # "absent"

\* i was saved, and neither read, answered nor expired since.
Kept(i) == i \in saved /\ i \notin taken /\ Live(i, now)

KeptEverywhere(b) ==
    \A i \in Id : Kept(i) =>
        /\ disk[i] # "absent"
        /\ phase[b] = "reading" => loaded[b][i] # "absent"
        /\ phase[b] = "ready" => Present(i, b)
        /\ InWritesFrom(1, i)

\* An envelope whose delivery is about to be saved is in the box and in every
\* later write.
PendingEverywhere(b) ==
    \A i \in Id, k \in 1 .. Len(queue) :
        IsLastDelivery(k, i) /\ i \notin taken /\ Live(i, now) =>
            Present(i, b) /\ InWritesFrom(k, i)

\* The last write in flight, or the file if there is none, agrees with the box.
LastWriteAgrees(b) ==
    /\ phase[b] = "reading" /\ synced =>
          \A i \in Id : Live(i, now) => loaded[b][i] = disk[i]
    /\ phase[b] = "ready" /\ Len(queue) > 0 =>
          \A i \in Id : Live(i, now) => View(Len(queue))[i] = mem[b][i]
    /\ phase[b] = "ready" /\ Len(queue) = 0 /\ synced =>
          \A i \in Id : Live(i, now) => disk[i] = mem[b][i]

Housekeeping(b) ==
    /\ phase[b] # "ready" => Len(queue) = 0
    /\ \A c \in waiting[b] : c.at <= now

SingleInv(b) ==
    /\ Housekeeping(b)
    /\ KeptEverywhere(b)
    /\ PendingEverywhere(b)
    /\ LastWriteAgrees(b)

LEMMA LiveEarlier ==
    ASSUME NEW i \in Id, NEW s \in Nat, NEW t \in Nat, s <= t, Live(i, t)
    PROVE  Live(i, s)
BY MailboxAssumption DEF Live

(* What running call c does to an envelope that is still live.              *)
LEMMA RunLive ==
    ASSUME TypeOK, NEW b \in Box, NEW c \in waiting[b], c.at <= now, Run(b, c),
           NEW i \in Id, Live(i, now)
    PROVE  /\ SameWrites => mem'[b][i] = mem[b][i]
           /\ Present(i, b) => Present(i, b)' \/ i \in taken'
           /\ saved' \subseteq saved
           /\ i \in taken \ taken' => i \notin saved'
           /\ i \in taken \ taken' => c.op = "deliver" /\ c.id = i /\ NewWrite(mem'[b], c)
           /\ NewWrite(mem'[b], c) /\ c.op = "deliver" /\ c.id = i => Present(i, b)'
           /\ synced' = synced
<1>1. c \in Calls /\ c.at \in Nat /\ now \in Nat /\ Len(queue) \in Nat
  BY MailboxAssumption DEF TypeOK, Calls
<1>2. Live(i, c.at)
  BY <1>1, LiveEarlier
<1>3. mem[b] \in Contents /\ Sweep(mem[b], c.at)[i] = mem[b][i]
  BY <1>2 DEF TypeOK, Sweep
<1>4. ~(SameWrites /\ NewWrite(mem'[b], c))
  BY <1>1 DEF SameWrites, NewWrite
<1>5. SameWrites \/ NewWrite(mem'[b], c)
  BY RunEffect
<1>6. CASE DeliverDuplicate(b, c) \/ DeliverFull(b, c)
  <2>1. mem'[b][i] = mem[b][i] /\ UNCHANGED <<saved, taken, synced>>
    BY <1>3, <1>6 DEF DeliverDuplicate, DeliverFull, TypeOK, history
  <2>2. SameWrites
    BY <1>6, SweptSame DEF DeliverDuplicate, DeliverFull
  <2>3. QED
    BY <1>4, <2>1, <2>2 DEF Present
<1>7. CASE DrainEmpty(b, c)
  <2>1. mem'[b][i] = mem[b][i] /\ UNCHANGED <<saved, taken, synced>>
    BY <1>3, <1>7 DEF DrainEmpty, TypeOK, history
  <2>2. c.op # "deliver"
    BY <1>7 DEF DrainEmpty
  <2>3. QED
    BY <2>1, <2>2 DEF Present
<1>8. CASE DeliverAccepted(b, c)
  <2>1. NewWrite(mem'[b], c)
    BY <1>1, <1>8, AcceptedWrite
  <2>2. c.id \in Id /\ c.op = "deliver"
    BY <1>1, <1>8 DEF DeliverAccepted, Calls
  <2>3. mem'[b] = [Sweep(mem[b], c.at) EXCEPT ![c.id] = "unread"]
    BY <1>8 DEF DeliverAccepted, TypeOK
  <2>4. Sweep(mem[b], c.at) \in Contents
    BY <1>1, <1>3, ContentsFacts
  <2>5. mem'[b][i] = IF i = c.id THEN "unread" ELSE mem[b][i]
    BY <1>3, <2>2, <2>3, <2>4 DEF Contents
  <2>6. saved' = saved \ {c.id} /\ taken' = taken \ {c.id} /\ synced' = synced
    BY <1>8 DEF DeliverAccepted
  <2>7. QED
    BY <1>4, <2>1, <2>2, <2>5, <2>6 DEF Present
<1>9. CASE DrainMail(b, c)
  <2>1. mem'[b] = AfterRead(Sweep(mem[b], c.at))
    BY <1>9 DEF DrainMail, TypeOK
  <2>2. NewWrite(mem'[b], c)
    <3>1. AfterRead(Sweep(mem[b], c.at)) \in Contents
      BY <1>1, <1>3, ContentsFacts
    <3>2. QED
      BY <1>1, <1>9, <2>1, <3>1, PersistDetached DEF DrainMail
  <2>3. Present(i, b) => Present(i, b)' \/ i \in taken'
    BY <1>3, <1>9, <2>1 DEF DrainMail, Present, AfterRead, Held
  <2>4. saved' = saved /\ taken \subseteq taken' /\ synced' = synced /\ c.op # "deliver"
    BY <1>9 DEF DrainMail
  <2>5. QED
    BY <1>4, <2>2, <2>3, <2>4
<1>10. CASE ResolveUnknown(b, c)
  <2>1. UNCHANGED <<mem, saved, taken, synced>> /\ c.op # "deliver"
    BY <1>10 DEF ResolveUnknown, history
  <2>2. QED
    BY <2>1 DEF Present
<1>11. CASE ResolveExpired(b, c)
  <2>1. mem'[b][i] = mem[b][i] /\ UNCHANGED <<saved, taken, synced>> /\ c.op # "deliver"
    BY <1>3, <1>11 DEF ResolveExpired, TypeOK, history
  <2>2. QED
    BY <2>1 DEF Present
<1>12. CASE ResolveAnswered(b, c)
  <2>1. c.id \in Id /\ c.op # "deliver"
    BY <1>1, <1>12 DEF ResolveAnswered, Calls
  <2>2. mem' = [mem EXCEPT ![b] = [mem[b] EXCEPT ![c.id] = "absent"]]
        /\ queue' = Persist(Detached(b), b, c)
    BY <1>12 DEF ResolveAnswered
  <2>3. [mem[b] EXCEPT ![c.id] = "absent"] \in Contents
    BY <1>3, <2>1, ContentsFacts
  <2>4. mem'[b] = [mem[b] EXCEPT ![c.id] = "absent"]
    BY <2>2 DEF TypeOK
  <2>5. NewWrite(mem'[b], c)
    BY <1>1, <2>2, <2>3, <2>4, PersistDetached
  <2>6. saved' = saved /\ taken' = taken \cup {c.id} /\ synced' = synced
    BY <1>12 DEF ResolveAnswered
  <2>7. Present(i, b) => Present(i, b)' \/ i \in taken'
    BY <1>3, <2>1, <2>4, <2>6 DEF Present, Contents
  <2>8. QED
    BY <1>4, <2>1, <2>5, <2>6, <2>7
<1>13. QED
  BY <1>6, <1>7, <1>8, <1>9, <1>10, <1>11, <1>12 DEF Run

(* A step that leaves the file, the queue and the live contents of the box  *)
(* alone keeps the invariant, however far the clock advances.               *)
LEMMA QuietStep ==
    ASSUME TypeOK, TypeOK', NEW b \in Box, SingleInv(b), SameWrites,
           now <= now', phase'[b] = phase[b], loaded'[b] = loaded[b],
           disk' = disk, synced' = synced,
           \A c \in waiting'[b] : c.at <= now',
           \A i \in Id : Live(i, now') =>
               /\ mem'[b][i] = mem[b][i]
               /\ i \in saved' /\ i \notin taken' => Kept(i)
               /\ i \in taken => i \in taken'
    PROVE  SingleInv(b)'
<1>1. Len(queue') = Len(queue) /\ Len(queue) \in Nat /\ now \in Nat /\ now' \in Nat
  BY DEF TypeOK, SameWrites
<1>2. \A i \in Id : Live(i, now') => Live(i, now)
  BY <1>1, LiveEarlier
<1>3. \A i \in Id : Kept(i)' => Kept(i)
  BY DEF Kept, Live
<1>4. \A k \in 1 .. Len(queue) : View(k)' = View(k) /\ queue'[k].call = queue[k].call
  BY DEF SameWrites
<1>5. Housekeeping(b)'
  BY <1>1 DEF SingleInv, Housekeeping
<1>6. KeptEverywhere(b)'
  <2> SUFFICES ASSUME NEW i \in Id, Kept(i)'
               PROVE  /\ disk'[i] # "absent"
                      /\ phase'[b] = "reading" => loaded'[b][i] # "absent"
                      /\ phase'[b] = "ready" => mem'[b][i] # "absent"
                      /\ InWritesFrom(1, i)'
    BY DEF KeptEverywhere, Present
  <2>1. Kept(i) /\ Live(i, now')
    BY <1>3 DEF Kept, Live
  <2>2. mem'[b][i] = mem[b][i]
    BY <2>1
  <2>3. InWritesFrom(1, i)'
    BY <1>1, <1>4, <2>1 DEF SingleInv, KeptEverywhere, InWritesFrom
  <2>4. QED
    BY <2>1, <2>2, <2>3 DEF SingleInv, KeptEverywhere, Present
<1>7. PendingEverywhere(b)'
  <2> SUFFICES ASSUME NEW i \in Id, NEW k \in 1 .. Len(queue)',
                      IsLastDelivery(k, i)', i \notin taken', Live(i, now')
               PROVE  mem'[b][i] # "absent" /\ InWritesFrom(k, i)'
    BY DEF PendingEverywhere, Present, Live
  <2>1. k \in 1 .. Len(queue)
    BY <1>1
  <2>2. IsLastDelivery(k, i)
    BY <1>1, <1>4, <2>1 DEF IsLastDelivery
  <2>3. Live(i, now) /\ i \notin taken /\ mem'[b][i] = mem[b][i]
    BY <1>2
  <2>4. Present(i, b) /\ InWritesFrom(k, i)
    BY <2>1, <2>2, <2>3 DEF SingleInv, PendingEverywhere
  <2>5. InWritesFrom(k, i)'
    BY <1>1, <1>4, <2>1, <2>4 DEF InWritesFrom
  <2>6. QED
    BY <2>3, <2>4, <2>5 DEF Present
<1>8. LastWriteAgrees(b)'
  <2>1. \A i \in Id : Live(i, now') => mem'[b][i] = mem[b][i] /\ Live(i, now)
    BY <1>2
  <2>2. Len(queue) > 0 => View(Len(queue))' = View(Len(queue))
    BY <1>1, <1>4
  <2>3. QED
    BY <1>1, <2>1, <2>2 DEF SingleInv, LastWriteAgrees, Live
<1>9. QED
  BY <1>5, <1>6, <1>7, <1>8 DEF SingleInv

(* A call that persists the box keeps the invariant.                        *)
LEMMA WriteStep ==
    ASSUME TypeOK, TypeOK', NEW b \in Box, Box = {b}, SingleInv(b),
           NEW c \in waiting[b], Run(b, c), NewWrite(mem'[b], c)
    PROVE  SingleInv(b)'
<1>1. Len(queue') = Len(queue) + 1 /\ Len(queue) \in Nat /\ now \in Nat
  BY DEF TypeOK, NewWrite
<1>2. c.at <= now
  BY DEF SingleInv, Housekeeping
<1>3. phase[b] = "ready" /\ phase' = phase /\ UNCHANGED <<now, loaded, disk>>
  BY RunEffect
<1>4. waiting'[b] \subseteq waiting[b]
  BY DEF Run, DeliverDuplicate, DeliverFull, DeliverAccepted, DrainEmpty, DrainMail,
         ResolveUnknown, ResolveExpired, ResolveAnswered, Resumes, TypeOK
<1>5. \A i \in Id : Live(i, now) =>
           /\ Present(i, b) => Present(i, b)' \/ i \in taken'
           /\ saved' \subseteq saved
           /\ i \in taken \ taken' => i \notin saved' /\ c.op = "deliver" /\ c.id = i
           /\ c.op = "deliver" /\ c.id = i => Present(i, b)'
  BY <1>2, RunLive
<1>6. View(Len(queue))' = mem'[b] /\ queue'[Len(queue) + 1].call = c
  BY DEF NewWrite
<1>7. \A k \in 1 .. Len(queue) :
          View(k)' \in {View(k), mem'[b]} /\ queue'[k].call = queue[k].call
  BY DEF NewWrite
<1>8. Housekeeping(b)'
  BY <1>3, <1>4 DEF SingleInv, Housekeeping
<1>9. ASSUME NEW i \in Id, NEW k \in 1 .. Len(queue) + 1, Live(i, now),
             Present(i, b)', k <= Len(queue) => InWritesFrom(k, i)
      PROVE  InWritesFrom(k, i)'
  <2> SUFFICES ASSUME NEW j \in 1 .. Len(queue'), j >= k
               PROVE  View(j)'[i] # "absent"
    BY DEF InWritesFrom
  <2>1. CASE j = Len(queue')
    BY <1>6, <1>9, <2>1 DEF Present
  <2>2. CASE j # Len(queue')
    <3>1. j \in 1 .. Len(queue) /\ k <= Len(queue)
      BY <1>1, <2>2
    <3>2. View(j)[i] # "absent"
      BY <1>9, <3>1 DEF InWritesFrom
    <3>3. QED
      BY <1>7, <1>9, <3>1, <3>2 DEF Present
  <2>3. QED
    BY <2>1, <2>2
<1>10. KeptEverywhere(b)'
  <2> SUFFICES ASSUME NEW i \in Id, Kept(i)'
               PROVE  disk'[i] # "absent" /\ Present(i, b)' /\ InWritesFrom(1, i)'
    BY <1>3 DEF KeptEverywhere
  <2>1. i \in saved' /\ i \notin taken' /\ Live(i, now)
    BY <1>3 DEF Kept, Live
  <2>2. i \in saved /\ i \notin taken
    BY <1>5, <2>1
  <2>3. disk[i] # "absent" /\ Present(i, b) /\ InWritesFrom(1, i)
    BY <1>3, <2>1, <2>2 DEF SingleInv, KeptEverywhere, Kept
  <2>4. Present(i, b)'
    BY <1>5, <2>1, <2>3
  <2>5. QED
    BY <1>1, <1>3, <1>9, <2>1, <2>3, <2>4
<1>11. PendingEverywhere(b)'
  <2> SUFFICES ASSUME NEW i \in Id, NEW k \in 1 .. Len(queue'),
                      IsLastDelivery(k, i)', i \notin taken', Live(i, now)'
               PROVE  Present(i, b)' /\ InWritesFrom(k, i)'
    BY DEF PendingEverywhere
  <2>1. Live(i, now)
    BY <1>3 DEF Live
  <2>2. CASE k = Len(queue')
    <3>1. c.op = "deliver" /\ c.id = i
      BY <1>1, <1>6, <2>2 DEF IsLastDelivery
    <3>2. Present(i, b)'
      BY <1>5, <2>1, <3>1
    <3>3. QED
      BY <1>1, <1>9, <2>1, <2>2, <3>2
  <2>3. CASE k # Len(queue')
    <3>1. k \in 1 .. Len(queue)
      BY <1>1, <2>3
    <3>2. ~(c.op = "deliver" /\ c.id = i)
      BY <1>1, <1>6, <3>1 DEF IsLastDelivery
    <3>3. IsLastDelivery(k, i)
      BY <1>1, <1>7, <3>1 DEF IsLastDelivery
    <3>4. i \notin taken
      BY <1>5, <2>1, <3>2
    <3>5. Present(i, b) /\ InWritesFrom(k, i)
      BY <2>1, <3>1, <3>3, <3>4 DEF SingleInv, PendingEverywhere
    <3>6. Present(i, b)'
      BY <1>5, <2>1, <3>5
    <3>7. QED
      BY <1>1, <1>9, <2>1, <3>1, <3>5, <3>6
  <2>4. QED
    BY <2>2, <2>3
<1>12. LastWriteAgrees(b)'
  BY <1>1, <1>3, <1>6 DEF LastWriteAgrees
<1>13. QED
  BY <1>8, <1>10, <1>11, <1>12 DEF SingleInv

(* A write that leaves the head of the queue, done or failed, keeps the     *)
(* invariant: what it leaves in the file, later writes and the box hold too.*)
LEMMA CommitStep ==
    ASSUME TypeOK, TypeOK', NEW b \in Box, Box = {b}, SingleInv(b), Commit \/ CommitFails
    PROVE  SingleInv(b)'
<1>1. /\ HeadLeaves
      /\ Len(queue) \in Nat /\ Len(queue) > 0 /\ Len(queue') = Len(queue) - 1
      /\ Written(Head(queue)) = View(1)
      /\ UNCHANGED <<now, phase, loaded, mem, waiting, taken>>
  BY CommitEffect DEF HeadLeaves
<1>2. phase[b] = "ready"
  BY <1>1 DEF SingleInv, Housekeeping
<1>3. \A k \in 1 .. Len(queue) - 1 :
          View(k)' = View(k + 1) /\ queue'[k].call = queue[k + 1].call
  BY <1>1 DEF HeadLeaves
<1>4. \A i \in Id : Live(i, now)' <=> Live(i, now)
  BY <1>1 DEF Live
<1>5. ASSUME NEW i \in Id, NEW k \in 1 .. Len(queue), InWritesFrom(k, i)
      PROVE  /\ k = 1 => InWritesFrom(1, i)'
             /\ k > 1 => InWritesFrom(k - 1, i)'
  <2>1. ASSUME NEW j \in 1 .. Len(queue'), j + 1 >= k
        PROVE  View(j)'[i] # "absent"
    BY <1>1, <1>3, <1>5, <2>1 DEF InWritesFrom
  <2>2. QED
    BY <1>1, <2>1 DEF InWritesFrom
<1>6. ASSUME NEW i \in Id, i \in saved', i \notin taken, Live(i, now)
      PROVE  disk'[i] # "absent" /\ Present(i, b) /\ InWritesFrom(1, i)
  <2>1. CASE i \in saved
    <3>1. disk[i] # "absent" /\ Present(i, b) /\ InWritesFrom(1, i)
      BY <1>2, <1>6, <2>1 DEF SingleInv, KeptEverywhere, Kept
    <3>2. View(1)[i] # "absent"
      BY <1>1, <3>1 DEF InWritesFrom
    <3>3. QED
      BY <1>1, <3>1, <3>2 DEF Commit, CommitFails
  <2>2. CASE i \notin saved
    <3>1. Commit /\ IsLastDelivery(1, i)
      BY <1>6, <2>2 DEF Commit, CommitFails
    <3>2. Present(i, b) /\ InWritesFrom(1, i)
      BY <1>1, <1>6, <3>1 DEF SingleInv, PendingEverywhere
    <3>3. View(1)[i] # "absent"
      BY <1>1, <3>2 DEF InWritesFrom
    <3>4. QED
      BY <1>1, <3>1, <3>2, <3>3 DEF Commit
  <2>3. QED
    BY <2>1, <2>2
<1>7. Housekeeping(b)'
  BY <1>1, <1>2 DEF SingleInv, Housekeeping
<1>8. KeptEverywhere(b)'
  BY <1>1, <1>2, <1>4, <1>5, <1>6 DEF KeptEverywhere, Kept, Present
<1>9. PendingEverywhere(b)'
  <2> SUFFICES ASSUME NEW i \in Id, NEW k \in 1 .. Len(queue'),
                      IsLastDelivery(k, i)', i \notin taken', Live(i, now)'
               PROVE  Present(i, b)' /\ InWritesFrom(k, i)'
    BY DEF PendingEverywhere
  <2>1. k + 1 \in 1 .. Len(queue) /\ k \in 1 .. Len(queue) - 1
    BY <1>1
  <2>2. IsLastDelivery(k + 1, i)
    <3>1. ASSUME NEW j \in (k + 1) + 1 .. Len(queue)
          PROVE  ~(queue[j].call.op = "deliver" /\ queue[j].call.id = i)
      <4>1. /\ j - 1 \in (k + 1) .. Len(queue') /\ j - 1 \in 1 .. Len(queue) - 1
            /\ (j - 1) + 1 = j
        BY <1>1, <2>1
      <4>2. QED
        BY <1>3, <4>1 DEF IsLastDelivery
    <3>2. QED
      BY <1>3, <2>1, <3>1 DEF IsLastDelivery
  <2>3. Present(i, b) /\ InWritesFrom(k + 1, i)
    BY <1>1, <1>4, <2>1, <2>2 DEF SingleInv, PendingEverywhere
  <2>4. InWritesFrom((k + 1) - 1, i)'
    BY <1>1, <1>5, <2>1, <2>3
  <2>5. (k + 1) - 1 = k
    BY <2>1
  <2>6. QED
    BY <1>1, <2>3, <2>4, <2>5 DEF Present
<1>10. LastWriteAgrees(b)'
  <2>1. \A i \in Id : Live(i, now) => View(Len(queue))[i] = mem[b][i]
    BY <1>1, <1>2 DEF SingleInv, LastWriteAgrees
  <2>2. CASE Len(queue') > 0
    <3>1. View(Len(queue))' = View(Len(queue))
      BY <1>1, <1>3, <2>2
    <3>2. QED
      BY <1>1, <1>2, <1>4, <2>1, <2>2, <3>1 DEF LastWriteAgrees
  <2>3. CASE Len(queue') = 0
    <3>1. Len(queue) = 1
      BY <1>1, <2>3
    <3>2. synced' => disk' = View(1)
      BY <1>1 DEF Commit, CommitFails
    <3>3. QED
      BY <1>1, <1>2, <1>4, <2>1, <2>3, <3>1, <3>2 DEF LastWriteAgrees
  <2>4. QED
    BY <1>1, <2>2, <2>3
<1>11. QED
  BY <1>7, <1>8, <1>9, <1>10 DEF SingleInv

(* With nothing in flight and nothing half-delivered, what the file holds   *)
(* is all there is to keep.                                                 *)
LEMMA IdleQueue ==
    ASSUME NEW b \in Box, Len(queue') = 0
    PROVE  PendingEverywhere(b)' /\ \A i \in Id : InWritesFrom(1, i)'
<1>1. 1 .. Len(queue') = {}
  OBVIOUS
<1>2. QED
  BY <1>1 DEF PendingEverywhere, InWritesFrom

LEMMA SingleStep ==
    ASSUME NEW b, Box = {b}
    PROVE  TypeOK /\ TypeOK' /\ SingleInv(b) /\ [Next]_vars => SingleInv(b)'
<1> SUFFICES ASSUME TypeOK, TypeOK', SingleInv(b), [Next]_vars PROVE SingleInv(b)'
  OBVIOUS
<1>1. b \in Box /\ now \in Nat /\ now <= now
  BY DEF TypeOK
<1>2. \A c \in waiting[b] : c \in Calls /\ c.at \in Nat /\ c.at <= now
  BY <1>1 DEF SingleInv, Housekeeping, TypeOK, Calls
<1>3. ASSUME UNCHANGED <<queue, mem>> PROVE SameWrites
  BY <1>3 DEF SameWrites, View, Written
<1>4. CASE UNCHANGED vars
  BY <1>1, <1>2, <1>3, <1>4, QuietStep DEF vars, Kept
<1>5. CASE Tick
  <2>1. now <= now' /\ (\A c \in waiting[b] : c.at <= now')
    BY <1>1, <1>2, <1>5 DEF Tick
  <2>2. \A i \in Id : Live(i, now') => Live(i, now)
    BY <1>1, <2>1, LiveEarlier DEF TypeOK
  <2>3. UNCHANGED <<phase, loaded, mem, waiting, queue, disk, saved, taken, synced>>
    BY <1>5 DEF Tick, history
  <2>4. QED
    BY <1>1, <1>3, <2>1, <2>2, <2>3, QuietStep DEF Kept
<1>6. ASSUME NEW c, Call(b, c) PROVE SingleInv(b)'
  <2>1. \A x \in waiting'[b] : x.at <= now
    BY <1>1, <1>2, <1>6 DEF Call, TypeOK
  <2>2. UNCHANGED <<now, phase, loaded, mem, queue, disk, saved, taken, synced>>
    BY <1>6 DEF Call, history
  <2>3. QED
    BY <1>1, <1>3, <2>1, <2>2, QuietStep DEF Kept
<1>7. CASE Glance(b)
  <2>1. SameWrites
    BY <1>1, <1>7, DetachedSame DEF Glance
  <2>2. \A i \in Id : Live(i, now) => mem'[b][i] = mem[b][i]
    BY <1>1, <1>7 DEF Glance, Sweep, TypeOK
  <2>3. UNCHANGED <<now, phase, loaded, waiting, disk, saved, taken, synced>>
    BY <1>7 DEF Glance, history
  <2>4. QED
    BY <1>1, <1>2, <2>1, <2>2, <2>3, QuietStep DEF Kept
<1>8. ASSUME NEW c \in waiting[b], Run(b, c) PROVE SingleInv(b)'
  <2>1. CASE NewWrite(mem'[b], c)
    BY <1>1, <1>8, <2>1, WriteStep
  <2>2. CASE SameWrites
    <3>1. ~NewWrite(mem'[b], c)
      BY <2>2 DEF SameWrites, NewWrite, TypeOK
    <3>2. phase' = phase /\ UNCHANGED <<now, loaded, disk>>
      BY <1>1, <1>8, RunEffect
    <3>3. waiting'[b] \subseteq waiting[b]
      BY <1>1, <1>8 DEF Run, DeliverDuplicate, DeliverFull, DeliverAccepted, DrainEmpty,
         DrainMail, ResolveUnknown, ResolveExpired, ResolveAnswered, Resumes, TypeOK
    <3>4. synced' = synced
      BY <1>8 DEF Run, DeliverDuplicate, DeliverFull, DeliverAccepted, DrainEmpty,
         DrainMail, ResolveUnknown, ResolveExpired, ResolveAnswered, history
    <3>5. \A i \in Id : Live(i, now) =>
              /\ mem'[b][i] = mem[b][i]
              /\ saved' \subseteq saved
              /\ i \in taken => i \in taken'
      BY <1>1, <1>2, <1>8, <2>2, <3>1, RunLive
    <3>6. \A i \in Id : Live(i, now') =>
              /\ mem'[b][i] = mem[b][i]
              /\ i \in saved' /\ i \notin taken' => Kept(i)
              /\ i \in taken => i \in taken'
      BY <3>2, <3>5 DEF Kept
    <3>7. QED
      BY <1>1, <1>2, <2>2, <3>2, <3>3, <3>4, <3>6, QuietStep
  <2>3. QED
    BY <1>1, <1>8, <2>1, <2>2, RunEffect
<1>9. CASE Open(b)
  <2>1. /\ phase'[b] = "reading" /\ loaded'[b] = disk
        /\ UNCHANGED <<now, mem, waiting, queue, disk, saved, taken, synced>>
    BY <1>1, <1>9 DEF Open, TypeOK, history
  <2>2. Len(queue') = 0
    BY <1>9, <2>1 DEF Open, SingleInv, Housekeeping
  <2>3. QED
    BY <1>1, <2>1, <2>2, IdleQueue
       DEF SingleInv, Housekeeping, KeptEverywhere, LastWriteAgrees, Kept, Live
<1>10. CASE Hydrate(b)
  <2>1. /\ phase[b] = "reading" /\ phase'[b] = "ready"
        /\ mem'[b] = Sweep(loaded[b], now) /\ queue' = Detached(b)
        /\ UNCHANGED <<now, waiting, disk, saved, taken, synced>>
    BY <1>1, <1>10 DEF Hydrate, TypeOK, history
  <2>2. Len(queue') = 0
    BY <1>1, <2>1, DetachedQueue DEF SingleInv, Housekeeping
  <2>3. \A i \in Id : Live(i, now) => /\ mem'[b][i] = loaded[b][i]
                                      /\ synced => loaded[b][i] = disk[i]
    BY <1>1, <2>1 DEF Sweep, SingleInv, LastWriteAgrees
  <2>4. \A i \in Id : Kept(i)' => Kept(i) /\ Live(i, now)
    BY <2>1 DEF Kept, Live
  <2>5. KeptEverywhere(b)'
    BY <1>1, <2>1, <2>2, <2>3, <2>4, IdleQueue DEF SingleInv, KeptEverywhere, Present
  <2>6. LastWriteAgrees(b)'
    BY <2>1, <2>2, <2>3 DEF LastWriteAgrees, Live
  <2>7. QED
    BY <1>1, <2>1, <2>2, <2>5, <2>6, IdleQueue DEF SingleInv, Housekeeping
<1>11. CASE Commit \/ CommitFails
  BY <1>1, <1>11, CommitStep
<1>12. CASE Crash
  <2>1. /\ phase'[b] = "unborn" /\ Len(queue') = 0 /\ waiting'[b] = {}
        /\ UNCHANGED <<now, disk, saved>>
        /\ taken' = {i \in taken : disk[i] = "absent"}
    BY <1>1, <1>12 DEF Crash
  <2>2. ASSUME NEW i \in Id, Kept(i)' PROVE disk'[i] # "absent"
    <3>1. i \in saved /\ Live(i, now) /\ (i \notin taken \/ disk[i] # "absent")
      BY <2>1, <2>2 DEF Kept, Live
    <3>2. QED
      BY <2>1, <3>1 DEF SingleInv, KeptEverywhere, Kept
  <2>3. QED
    BY <1>1, <2>1, <2>2, IdleQueue
       DEF SingleInv, Housekeeping, KeptEverywhere, LastWriteAgrees
<1>13. CASE OpenUnreadable(b)
  <2>1. /\ phase'[b] = "reading" /\ saved' = {} /\ synced' = FALSE
        /\ UNCHANGED <<now, waiting, queue>>
    BY <1>1, <1>13 DEF OpenUnreadable, TypeOK
  <2>2. Len(queue') = 0
    BY <1>13, <2>1 DEF OpenUnreadable, SingleInv, Housekeeping
  <2>3. KeptEverywhere(b)' /\ LastWriteAgrees(b)'
    BY <2>1 DEF KeptEverywhere, LastWriteAgrees, Kept
  <2>4. QED
    BY <2>1, <2>2, <2>3, IdleQueue DEF SingleInv, Housekeeping
<1>14. QED
  BY <1>4, <1>5, <1>6, <1>7, <1>8, <1>9, <1>10, <1>11, <1>12, <1>13
     DEF Next, CallDrain, CallDeliver, CallResolve

LEMMA SingleInit ==
    ASSUME NEW b, Box = {b}
    PROVE  Init => SingleInv(b)
<1> SUFFICES ASSUME Init PROVE SingleInv(b)
  OBVIOUS
<1>1. b \in Box /\ phase[b] = "unborn" /\ waiting[b] = {} /\ Len(queue) = 0 /\ saved = {}
  BY DEF Init
<1>2. 1 .. Len(queue) = {}
  BY <1>1
<1>3. QED
  BY <1>1, <1>2 DEF SingleInv, Housekeeping, KeptEverywhere, PendingEverywhere,
     LastWriteAgrees, Kept

LEMMA SingleInvariant ==
    ASSUME NEW b, Box = {b}
    PROVE  Spec => []SingleInv(b)
BY TypeCorrect, SingleInit, SingleStep, PTL DEF Spec

(* Mail whose write completed stays in the file until it is read, answered  *)
(* or expired, through failed writes, crashes and re-hydrations, when one   *)
(* mailbox object owns the file and until the file is found unreadable.     *)
THEOREM MailIsDurable ==
    ASSUME NEW b, Box = {b}
    PROVE  Spec => []NoLostMail
<1>1. TypeOK /\ SingleInv(b) => NoLostMail
  BY DEF SingleInv, KeptEverywhere, Kept, NoLostMail, TypeOK
<1>2. QED
  BY <1>1, TypeCorrect, SingleInvariant, PTL

(* With no write in flight and the last one successful, the file that one   *)
(* mailbox object owns agrees with the box on every live envelope, although *)
(* sweeps are never written.                                                *)
THEOREM FileAgrees ==
    ASSUME NEW b, Box = {b}
    PROVE  Spec => []FileCatchesUp
<1>1. TypeOK /\ SingleInv(b) => FileCatchesUp
  BY DEF SingleInv, LastWriteAgrees, FileCatchesUp, TypeOK
<1>2. QED
  BY <1>1, TypeCorrect, SingleInvariant, PTL
-----------------------------------------------------------------------------
(***************************************************************************)
(* Requests, for any number of mailbox objects over the file.              *)
(***************************************************************************)

\* A box is empty until it is hydrated, and no call is of the future.
BoxesWait ==
    \A b \in Box :
        /\ phase[b] # "ready" => mem[b] = Empty
        /\ \A c \in waiting[b] : c.at <= now

\* Live request i leaves box b in this step.
RequestLeaves(b, i) ==
    /\ Kind[i] = "request"
    /\ mem[b][i] # "absent"
    /\ mem'[b][i] = "absent"
    /\ phase'[b] = "ready"
    /\ Live(i, now)

LEMMA InitWait == Init => BoxesWait
BY DEF Init, BoxesWait

\* What running a call changes, besides the contents of its box.
LEMMA RunKeeps ==
    ASSUME TypeOK, NEW b \in Box, NEW c \in waiting[b], Run(b, c)
    PROVE  /\ phase[b] = "ready" /\ phase' = phase /\ now' = now
           /\ waiting' = [waiting EXCEPT ![b] = @ \ {c}]
           /\ \A x \in Box : x # b => mem'[x] = mem[x]
<1>1. Resumes(b, c)
  BY DEF Run, DeliverDuplicate, DeliverFull, DeliverAccepted, DrainEmpty, DrainMail,
     ResolveUnknown, ResolveExpired, ResolveAnswered
<1>2. \/ \E m : mem' = [mem EXCEPT ![b] = m]
      \/ mem' = mem
  BY DEF Run, DeliverDuplicate, DeliverFull, DeliverAccepted, DrainEmpty, DrainMail,
     ResolveUnknown, ResolveExpired, ResolveAnswered
<1> QED BY <1>1, <1>2 DEF Resumes, TypeOK

LEMMA StepWait == TypeOK /\ BoxesWait /\ [Next]_vars => BoxesWait'
<1> SUFFICES ASSUME TypeOK, BoxesWait, [Next]_vars PROVE BoxesWait'
  OBVIOUS
<1>1. now \in Nat /\ \A b \in Box : \A c \in waiting[b] : c.at \in Nat
  BY DEF TypeOK, Calls
<1>2. CASE Tick
  BY <1>1, <1>2 DEF Tick, BoxesWait
<1>3. ASSUME NEW b \in Box, Open(b) \/ OpenUnreadable(b) PROVE BoxesWait'
  BY <1>3 DEF Open, OpenUnreadable, BoxesWait, TypeOK
<1>4. ASSUME NEW b \in Box, Hydrate(b) PROVE BoxesWait'
  BY <1>4 DEF Hydrate, BoxesWait, TypeOK
<1>5. ASSUME NEW b \in Box, Glance(b) PROVE BoxesWait'
  <2>1. Sweep(Empty, now) = Empty
    BY DEF Sweep, Empty
  <2> QED BY <1>5, <2>1 DEF Glance, BoxesWait, TypeOK
<1>6. ASSUME NEW b \in Box, NEW c, c.at = now, Call(b, c) PROVE BoxesWait'
  BY <1>1, <1>6 DEF Call, BoxesWait, TypeOK
<1>7. ASSUME NEW b \in Box, NEW c \in waiting[b], Run(b, c) PROVE BoxesWait'
  <2>1. \A x \in Box : x # b => mem'[x] = mem[x]
    BY <1>7, RunKeeps DEF TypeOK
  <2>2. \A x \in Box : waiting'[x] \subseteq waiting[x]
    BY <1>7, RunKeeps DEF TypeOK
  <2> QED BY <1>7, <2>1, <2>2, RunKeeps DEF BoxesWait
<1>8. CASE Commit \/ CommitFails \/ UNCHANGED vars
  BY <1>8 DEF Commit, CommitFails, vars, BoxesWait
<1>9. CASE Crash
  BY <1>9 DEF Crash, BoxesWait
<1> QED BY <1>2, <1>3, <1>4, <1>5, <1>6, <1>7, <1>8, <1>9
     DEF Next, CallDrain, CallDeliver, CallResolve, Call

LEMMA RunAnswers ==
    ASSUME TypeOK, NEW b \in Box, NEW c \in waiting[b], c.at <= now, Run(b, c),
           NEW i \in Id, RequestLeaves(b, i)
    PROVE  c.op = "resolve" /\ c.id = i
<1>1. c \in Calls /\ c.at \in Nat /\ now \in Nat /\ mem[b] \in Contents
  BY MailboxAssumption DEF TypeOK, Calls
<1>2. Sweep(mem[b], c.at) \in Contents /\ Sweep(mem[b], c.at)[i] = mem[b][i]
  BY <1>1, LiveEarlier, ContentsFacts DEF RequestLeaves, Sweep
<1>3. CASE DeliverDuplicate(b, c) \/ DeliverFull(b, c) \/ DrainEmpty(b, c) \/ ResolveExpired(b, c)
  BY <1>2, <1>3 DEF DeliverDuplicate, DeliverFull, DrainEmpty, ResolveExpired, RequestLeaves, TypeOK
<1>4. CASE DeliverAccepted(b, c)
  <2>1. mem'[b] = [Sweep(mem[b], c.at) EXCEPT ![c.id] = "unread"]
    BY <1>4 DEF DeliverAccepted, TypeOK
  <2> QED BY <1>2, <2>1 DEF RequestLeaves, Contents
<1>5. CASE DrainMail(b, c)
  <2>1. mem'[b] = AfterRead(Sweep(mem[b], c.at))
    BY <1>5 DEF DrainMail, TypeOK
  <2> QED BY <1>2, <2>1 DEF RequestLeaves, AfterRead
<1>6. CASE ResolveUnknown(b, c)
  BY <1>6 DEF ResolveUnknown, RequestLeaves
<1>7. CASE ResolveAnswered(b, c)
  <2>1. c.op = "resolve" /\ mem' = [mem EXCEPT ![b] = [mem[b] EXCEPT ![c.id] = "absent"]]
    BY <1>7 DEF ResolveAnswered
  <2>2. mem'[b] = [mem[b] EXCEPT ![c.id] = "absent"]
    BY <2>1 DEF TypeOK
  <2> QED BY <1>1, <2>1, <2>2 DEF RequestLeaves, Contents
<1> QED BY <1>3, <1>4, <1>5, <1>6, <1>7 DEF Run

\* A request that leaves was resolved by a call that ran in that step.
LEMMA LeavesAnswered ==
    ASSUME TypeOK, BoxesWait, [Next]_vars, NEW b \in Box, NEW i \in Id, RequestLeaves(b, i)
    PROVE  \E c \in waiting[b] \ waiting'[b] : c.op = "resolve" /\ c.id = i
<1>1. Empty[i] = "absent" /\ mem \in [Box -> Contents]
  BY DEF Empty, TypeOK
<1>2. phase[b] = "ready"
  BY <1>1 DEF BoxesWait, RequestLeaves
<1>3. mem'[b] # mem[b] /\ mem'[b][i] # mem[b][i]
  BY DEF RequestLeaves
<1>4. ASSUME NEW x \in Box, NEW c \in waiting[x], Run(x, c)
      PROVE  \E d \in waiting[b] \ waiting'[b] : d.op = "resolve" /\ d.id = i
  <2>1. x = b
    BY <1>3, <1>4, RunKeeps DEF TypeOK
  <2>2. c.op = "resolve" /\ c.id = i
    BY <1>4, <2>1, RunAnswers DEF BoxesWait
  <2>3. c \in waiting[b] \ waiting'[b]
    BY <1>4, <2>1, RunKeeps DEF TypeOK
  <2> QED BY <2>2, <2>3
<1>5. ASSUME NEW x \in Box, Hydrate(x) \/ Glance(x) PROVE FALSE
  <2>1. CASE Hydrate(x)
    BY <1>2, <1>3, <2>1 DEF Hydrate, TypeOK
  <2>2. CASE Glance(x)
    BY <1>1, <1>3, <2>2 DEF Glance, Sweep, RequestLeaves
  <2> QED BY <1>5, <2>1, <2>2
<1>6. CASE Crash
  BY <1>6 DEF Crash, RequestLeaves
<1>7. ASSUME UNCHANGED mem PROVE FALSE
  BY <1>3, <1>7
<1> QED BY <1>4, <1>5, <1>6, <1>7
     DEF Next, Tick, Open, OpenUnreadable, CallDrain, CallDeliver, CallResolve, Call, Commit,
         CommitFails, vars

(* Mailbox.drain stamps the requests it returns and Mailbox.sweep drops only *)
(* what has expired: while the process lives, a live request leaves a box    *)
(* in the step of a call that resolves it, whatever calls wait on the box.   *)
THEOREM RequestsAreAnswered == Spec => RequestOutlivesReading
<1>1. TypeOK /\ BoxesWait /\ [Next]_vars =>
          [\A b \in Box, i \in Id :
              /\ Kind[i] = "request"
              /\ mem[b][i] # "absent"
              /\ mem'[b][i] = "absent"
              /\ phase'[b] = "ready"
              /\ Live(i, now)
              => \E c \in waiting[b] \ waiting'[b] : c.op = "resolve" /\ c.id = i]_vars
  BY LeavesAnswered DEF RequestLeaves
<1> QED BY <1>1, TypeCorrect, InitWait, StepWait, PTL DEF Spec, RequestOutlivesReading
=============================================================================
