------------------------------- MODULE Mailbox -------------------------------
(***************************************************************************)
(* The mailbox of one task (packages/core/src/mailbox/Mailbox.ts): the     *)
(* envelopes a live Mailbox object holds, the mailbox.json file beside the *)
(* task's history, and the queue of writes on their way to that file.      *)
(*                                                                         *)
(* Box is the set of Mailbox objects one process may create over the SAME  *)
(* file: the one a Task constructs, and the transient ones Mailbox.load    *)
(* makes for a dormant task.  Every public operation is asynchronous and   *)
(* is modelled by the segments between its awaits:                         *)
(*                                                                         *)
(*   Call...   the caller's synchronous part: the time is captured here,   *)
(*             the operation then awaits the hydration of the box;         *)
(*   Run...    the synchronous part after hydration, up to the persist;    *)
(*   Commit    the write at the head of the file's queue, and the part of  *)
(*             the operation after its await (the acknowledgement).        *)
(*                                                                         *)
(* An envelope is its id: Kind and Deadline are fields the sender chose.   *)
(* Envelopes that do not parse or that name another task are refused       *)
(* before they touch the box, so Id holds only the others.                 *)
(***************************************************************************)
EXTENDS Naturals, Sequences, FiniteSets

CONSTANTS
    Id,           \* the envelopes that senders address to this task
    Kind,         \* [Id -> Kinds]
    Deadline,     \* [Id -> Nat], absolute
    Box,          \* the Mailbox objects a process may create over the file
    Capacity,     \* MAILBOX_CAPACITY
    MaxTime,      \* bound on the clock
    MaxInFlight,  \* bound on the calls and writes in flight
    Faults        \* which file operations may fail: "read", "write"

Kinds == {"notification", "request", "reply"}

ASSUME MailboxAssumption ==
    /\ IsFiniteSet(Id)
    /\ Kind \in [Id -> Kinds]
    /\ Deadline \in [Id -> Nat]
    /\ Capacity \in Nat \ {0}
    /\ MaxTime \in Nat
    /\ MaxInFlight \in Nat
    /\ Faults \subseteq {"read", "write"}

VARIABLES
    now,      \* Date.now()
    phase,    \* how far each box has come: see Phases
    loaded,   \* what the hydration of a box read from the file
    mem,      \* the envelopes array of each box
    waiting,  \* the calls on each box that have not run yet
    queue,    \* safeWriteJson's per-file queue of writes, oldest first
    disk,     \* the contents of mailbox.json (Empty when there is no file)
    saved,    \* history: ids whose latest delivery's write completed, since the
              \* file was last found unreadable
    taken,    \* history: ids consumed (read or answered) since their delivery
    synced    \* history: the file was readable, and the last write succeeded

vars == <<now, phase, loaded, mem, waiting, queue, disk,
          saved, taken, synced>>
history == <<saved, taken, synced>>
-----------------------------------------------------------------------------
(* The contents of a box or of the file: each id is absent, held and not   *)
(* yet returned to the agent, or held with its read_at stamp.              *)
Contents == [Id -> {"absent", "unread", "read"}]
Empty == [i \in Id |-> "absent"]
Held(m) == {i \in Id : m[i] # "absent"}

Live(i, t) == Deadline[i] > t

\* Mailbox.sweep: drop what has expired.
Sweep(m, t) == [i \in Id |-> IF Live(i, t) THEN m[i] ELSE "absent"]

Phases == {"unborn", "reading", "ready"}

Calls == [op : {"deliver", "resolve"}, id : Id, at : 0 .. MaxTime]
             \cup [op : {"drain"}, at : 0 .. MaxTime]

(* A queued write refers to the envelopes ARRAY of its box, which is       *)
(* serialised only when its turn comes.  While the box still uses that     *)
(* array (aliased) the write will contain whatever the box holds then; once*)
(* the box has replaced the array by a filtered copy, the write contains   *)
(* what the old array held at that moment (mail).                          *)
Writes == [box : Box, aliased : BOOLEAN, mail : Contents, call : Calls]

Written(w) == IF w.aliased THEN mem[w.box] ELSE w.mail

\* The queue once box b has replaced its array.
Detached(b) ==
    [k \in DOMAIN queue |->
        IF queue[k].box = b
        THEN [queue[k] EXCEPT !.aliased = FALSE, !.mail = Written(queue[k])]
        ELSE queue[k]]

\* The queue after a sweep of b at time t, which replaces the array only if
\* something expired.
SweptQueue(b, t) == IF Sweep(mem[b], t) = mem[b] THEN queue ELSE Detached(b)

\* Mailbox.persist, called by c: the write joins the queue of the file.
Persist(q, b, c) ==
    Append(q, [box |-> b, aliased |-> TRUE, mail |-> Empty, call |-> c])
-----------------------------------------------------------------------------
Init ==
    /\ now = 0
    /\ phase = [b \in Box |-> "unborn"]
    /\ loaded = [b \in Box |-> Empty]
    /\ mem = [b \in Box |-> Empty]
    /\ waiting = [b \in Box |-> {}]
    /\ queue = <<>>
    /\ disk = Empty
    /\ saved = {} /\ taken = {} /\ synced = TRUE

Tick ==
    /\ now < MaxTime
    /\ now' = now + 1
    /\ UNCHANGED <<phase, loaded, mem, waiting, queue, disk, history>>

\* The constructor starts a load(); hydrate() reads the file.
Open(b) ==
    /\ phase[b] = "unborn"
    /\ phase' = [phase EXCEPT ![b] = "reading"]
    /\ loaded' = [loaded EXCEPT ![b] = disk]
    /\ UNCHANGED <<now, mem, waiting, queue, disk, history>>

\* The same, with a file that cannot be read or parsed: hydrate() fails closed,
\* and what the file holds is given up to the next write.
OpenUnreadable(b) ==
    /\ "read" \in Faults
    /\ phase[b] = "unborn"
    /\ phase' = [phase EXCEPT ![b] = "reading"]
    /\ loaded' = [loaded EXCEPT ![b] = Empty]
    /\ saved' = {} /\ synced' = FALSE
    /\ UNCHANGED <<now, mem, waiting, queue, disk, taken>>

\* Mutant: a file that is missing or unreadable leaves the load pending.
HydrateOnlyFromFile(b) ==
    /\ phase[b] = "reading"
    /\ loaded[b] # Empty
    /\ phase' = [phase EXCEPT ![b] = "ready"]
    /\ mem' = [mem EXCEPT ![b] = Sweep(loaded[b], now)]
    /\ loaded' = [loaded EXCEPT ![b] = Empty]
    /\ queue' = Detached(b)
    /\ UNCHANGED <<now, waiting, disk, history>>

\* The rest of hydrate(): the envelopes are REPLACED by the file's, then swept.
Hydrate(b) ==
    /\ phase[b] = "reading"
    /\ phase' = [phase EXCEPT ![b] = "ready"]
    /\ mem' = [mem EXCEPT ![b] = Sweep(loaded[b], now)]
    /\ loaded' = [loaded EXCEPT ![b] = Empty]
    /\ queue' = Detached(b)
    /\ UNCHANGED <<now, waiting, disk, history>>

\* An operation is called; its `now` defaults to the time of the call.
Call(b, c) ==
    /\ phase[b] # "unborn"
    /\ c.at = now
    /\ c \notin waiting[b]
    /\ Cardinality(waiting[b]) + Len(queue) < MaxInFlight
    /\ waiting' = [waiting EXCEPT ![b] = @ \cup {c}]
    /\ UNCHANGED <<now, phase, loaded, mem, queue, disk, history>>

CallDeliver(b, i) == Call(b, [op |-> "deliver", id |-> i, at |-> now])
CallResolve(b, i) == Call(b, [op |-> "resolve", id |-> i, at |-> now])
CallDrain(b) == Call(b, [op |-> "drain", at |-> now])

\* Mutant: the operation does not await the hydration.
ResumesUnhydrated(b, c) ==
    /\ c \in waiting[b]
    /\ waiting' = [waiting EXCEPT ![b] = @ \ {c}]
    /\ UNCHANGED <<now, phase, loaded, disk>>

\* Call c goes on once the hydration it awaits is over.
Resumes(b, c) ==
    /\ phase[b] = "ready"
    /\ c \in waiting[b]
    /\ waiting' = [waiting EXCEPT ![b] = @ \ {c}]
    /\ UNCHANGED <<now, phase, loaded, disk>>
-----------------------------------------------------------------------------
(* Mailbox.deliver                                                         *)

\* The id is held already: acknowledged at once, nothing is written.
DeliverDuplicate(b, c) ==
    /\ c.op = "deliver"
    /\ Resumes(b, c)
    /\ Sweep(mem[b], c.at)[c.id] # "absent"
    /\ mem' = [mem EXCEPT ![b] = Sweep(@, c.at)]
    /\ queue' = SweptQueue(b, c.at)
    /\ UNCHANGED history

\* The box is full of live mail: the NEW envelope is refused.
DeliverFull(b, c) ==
    /\ c.op = "deliver"
    /\ Resumes(b, c)
    /\ Sweep(mem[b], c.at)[c.id] = "absent"
    /\ Cardinality(Held(Sweep(mem[b], c.at))) >= Capacity
    /\ mem' = [mem EXCEPT ![b] = Sweep(@, c.at)]
    /\ queue' = SweptQueue(b, c.at)
    /\ UNCHANGED history

\* Mutant: one envelope more than the capacity is let in.
DeliverAcceptedAtCapacity(b, c) ==
    /\ c.op = "deliver"
    /\ Resumes(b, c)
    /\ Sweep(mem[b], c.at)[c.id] = "absent"
    /\ Cardinality(Held(Sweep(mem[b], c.at))) <= Capacity
    /\ mem' = [mem EXCEPT ![b] = [Sweep(@, c.at) EXCEPT ![c.id] = "unread"]]
    /\ queue' = Persist(SweptQueue(b, c.at), b, c)
    /\ taken' = taken \ {c.id}
    /\ saved' = saved \ {c.id}
    /\ UNCHANGED synced

\* The envelope is appended in place and the box persisted.
DeliverAccepted(b, c) ==
    /\ c.op = "deliver"
    /\ Resumes(b, c)
    /\ Sweep(mem[b], c.at)[c.id] = "absent"
    /\ Cardinality(Held(Sweep(mem[b], c.at))) < Capacity
    /\ mem' = [mem EXCEPT ![b] = [Sweep(@, c.at) EXCEPT ![c.id] = "unread"]]
    /\ queue' = Persist(SweptQueue(b, c.at), b, c)
    /\ taken' = taken \ {c.id}
    /\ saved' = saved \ {c.id}
    /\ UNCHANGED synced
-----------------------------------------------------------------------------
(* Mailbox.drain                                                           *)

DrainEmpty(b, c) ==
    /\ c.op = "drain"
    /\ Resumes(b, c)
    /\ Held(Sweep(mem[b], c.at)) = {}
    /\ mem' = [mem EXCEPT ![b] = Sweep(@, c.at)]
    /\ queue' = SweptQueue(b, c.at)
    /\ UNCHANGED history

\* Mutant: reading consumes requests too.
AfterReadAll(m) == Empty

\* What stays in a box holding m that the agent reads: its requests, stamped.
AfterRead(m) ==
    [i \in Id |-> IF m[i] # "absent" /\ Kind[i] = "request"
                  THEN "read" ELSE "absent"]

\* Everything live is returned; notifications and replies leave the box.
DrainMail(b, c) ==
    /\ c.op = "drain"
    /\ Resumes(b, c)
    /\ Held(Sweep(mem[b], c.at)) # {}
    /\ mem' = [mem EXCEPT ![b] = AfterRead(Sweep(@, c.at))]
    /\ queue' = Persist(Detached(b), b, c)
    /\ taken' = taken \cup {i \in Held(Sweep(mem[b], c.at)) : Kind[i] # "request"}
    /\ UNCHANGED <<saved, synced>>
-----------------------------------------------------------------------------
(* Mailbox.resolveRequest: the request is looked up BEFORE the sweep.      *)

IsHeldRequest(b, i) == mem[b][i] # "absent" /\ Kind[i] = "request"

ResolveUnknown(b, c) ==
    /\ c.op = "resolve"
    /\ Resumes(b, c)
    /\ ~IsHeldRequest(b, c.id)
    /\ UNCHANGED <<mem, queue, history>>

ResolveExpired(b, c) ==
    /\ c.op = "resolve"
    /\ Resumes(b, c)
    /\ IsHeldRequest(b, c.id)
    /\ ~Live(c.id, c.at)
    /\ mem' = [mem EXCEPT ![b] = Sweep(@, c.at)]
    /\ queue' = Persist(Detached(b), b, c)
    /\ UNCHANGED history

\* Mutant: the answered request leaves the box but the box is not persisted.
ResolveUnpersisted(b, c) ==
    /\ c.op = "resolve"
    /\ Resumes(b, c)
    /\ IsHeldRequest(b, c.id)
    /\ Live(c.id, c.at)
    /\ mem' = [mem EXCEPT ![b][c.id] = "absent"]
    /\ queue' = Detached(b)
    /\ taken' = taken \cup {c.id}
    /\ UNCHANGED <<saved, synced>>

ResolveAnswered(b, c) ==
    /\ c.op = "resolve"
    /\ Resumes(b, c)
    /\ IsHeldRequest(b, c.id)
    /\ Live(c.id, c.at)
    /\ mem' = [mem EXCEPT ![b][c.id] = "absent"]
    /\ queue' = Persist(Detached(b), b, c)
    /\ taken' = taken \cup {c.id}
    /\ UNCHANGED <<saved, synced>>
-----------------------------------------------------------------------------
\* digest, pending, size and byKind sweep first; the sweep is not written and
\* does not await the hydration.
Glance(b) ==
    /\ phase[b] # "unborn"
    /\ Sweep(mem[b], now) # mem[b]
    /\ mem' = [mem EXCEPT ![b] = Sweep(@, now)]
    /\ queue' = Detached(b)
    /\ UNCHANGED <<now, phase, loaded, waiting, disk, history>>

\* Write k of the queue is the one the latest delivery of i awaits.
IsLastDelivery(k, i) ==
    /\ queue[k].call.op = "deliver"
    /\ queue[k].call.id = i
    /\ \A j \in (k + 1) .. Len(queue) :
          ~(queue[j].call.op = "deliver" /\ queue[j].call.id = i)

\* The write at the head of the queue reaches the file, and its caller goes
\* on: a deliver returns its envelope, which acknowledges it to the sender.
Commit ==
    /\ queue # <<>>
    /\ disk' = Written(Head(queue))
    /\ saved' = saved \cup {i \in Id : IsLastDelivery(1, i)}
    /\ synced' = TRUE
    /\ queue' = Tail(queue)
    /\ UNCHANGED <<now, phase, loaded, mem, waiting, taken>>

\* It fails: persist() logs the error and its caller goes on all the same.
CommitFails ==
    /\ "write" \in Faults
    /\ queue # <<>>
    /\ synced' = FALSE
    /\ queue' = Tail(queue)
    /\ UNCHANGED <<now, phase, loaded, mem, waiting, disk, saved, taken>>

\* The process dies: only the file is left.  What was consumed but is still in
\* the file counts as not consumed.
Crash ==
    /\ \E b \in Box : phase[b] # "unborn"
    /\ phase' = [b \in Box |-> "unborn"]
    /\ loaded' = [b \in Box |-> Empty]
    /\ mem' = [b \in Box |-> Empty]
    /\ waiting' = [b \in Box |-> {}]
    /\ queue' = <<>>
    /\ taken' = {i \in taken : disk[i] = "absent"}
    /\ synced' = TRUE
    /\ UNCHANGED <<now, disk, saved>>

Run(b, c) ==
    \/ DeliverDuplicate(b, c) \/ DeliverFull(b, c) \/ DeliverAccepted(b, c)
    \/ DrainEmpty(b, c) \/ DrainMail(b, c)
    \/ ResolveUnknown(b, c) \/ ResolveExpired(b, c) \/ ResolveAnswered(b, c)

Next ==
    \/ Tick
    \/ \E b \in Box :
        \/ Open(b) \/ OpenUnreadable(b) \/ Hydrate(b) \/ Glance(b)
        \/ CallDrain(b)
        \/ \E i \in Id : CallDeliver(b, i) \/ CallResolve(b, i)
        \/ \E c \in waiting[b] : Run(b, c)
    \/ Commit
    \/ CommitFails
    \/ Crash

Spec == Init /\ [][Next]_vars

(***************************************************************************)
(* The event loop runs every continuation that is ready: a finished read,  *)
(* a call whose hydration is over, the next queued write.  Nothing obliges *)
(* a caller to call, the clock to advance or the process to crash.         *)
(***************************************************************************)
Fairness ==
    /\ \A b \in Box : WF_vars(Hydrate(b))
    /\ \A b \in Box : WF_vars(\E c \in waiting[b] : Run(b, c))
    /\ WF_vars(Commit \/ CommitFails)

FairSpec == Spec /\ Fairness
-----------------------------------------------------------------------------
(* Properties.                                                             *)

\* Every variable has its type.
TypeOK ==
    /\ now \in 0 .. MaxTime
    /\ phase \in [Box -> Phases]
    /\ loaded \in [Box -> Contents]
    /\ mem \in [Box -> Contents]
    /\ waiting \in [Box -> SUBSET Calls]
    /\ queue \in Seq(Writes)
    /\ disk \in Contents
    /\ saved \subseteq Id /\ taken \subseteq Id
    /\ synced \in BOOLEAN

(* Neither a box, nor any write on its way to the file, nor the file ever  *)
(* holds more than MAILBOX_CAPACITY envelopes, however many deliveries     *)
(* await the same hydration and whatever a crash left to be read back.     *)
WithinCapacity ==
    /\ \A b \in Box : Cardinality(Held(mem[b])) <= Capacity
    /\ \A b \in Box : Cardinality(Held(loaded[b])) <= Capacity
    /\ \A k \in 1 .. Len(queue) : Cardinality(Held(Written(queue[k]))) <= Capacity
    /\ Cardinality(Held(disk)) <= Capacity

(* Mail is durable: once the write of a delivery has completed, the        *)
(* envelope stays in the file until it is read (a notification or reply),  *)
(* answered (a request) or expires - through later writes, failed writes,  *)
(* crashes and the hydration of the next process.                          *)
NoLostMail ==
    \A i \in saved : Live(i, now) /\ i \notin taken => disk[i] # "absent"

(* Mailbox.persist is enough: with no write in flight, and the last one    *)
(* successful, the file says of every live envelope exactly what the box   *)
(* says - present or not, read or not - although sweeps are never written. *)
FileCatchesUp ==
    \A b \in Box :
        phase[b] = "ready" /\ queue = <<>> /\ synced =>
            \A i \in Id : Live(i, now) => disk[i] = mem[b][i]

(* Reading a request does not consume it (Mailbox.drain): a live request   *)
(* leaves its box only by being answered, unless the process dies.         *)
RequestOutlivesReading ==
    [][\A b \in Box, i \in Id :
        /\ Kind[i] = "request"
        /\ mem[b][i] # "absent"
        /\ mem'[b][i] = "absent"
        /\ phase'[b] = "ready"
        /\ Live(i, now)
        => \E c \in waiting[b] \ waiting'[b] : c.op = "resolve" /\ c.id = i]_vars

(* Every call on a box is eventually run once no more calls come: an       *)
(* unreadable file cannot leave the callers of a box waiting for its        *)
(* hydration for ever.                                                     *)
EveryCallRuns ==
    \A b \in Box :
        <>[][waiting'[b] \subseteq waiting[b]]_vars => <>[](waiting[b] = {})
=============================================================================
