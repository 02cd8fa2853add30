--------------------------- MODULE DormantDelivery ---------------------------
(***************************************************************************)
(* deliverToTask: mail for one task, which may be running, stopped,        *)
(* abandoned or not loaded at all, and the ways in which a host rehydrates *)
(* that task: a delivery that wakes it, its user, a cancellation, and a    *)
(* follow-up message of the extension API. Nothing keeps rehydrations of   *)
(* one task apart; they overlap here as they do in the code.               *)
(*                                                                         *)
(* The task is known in four places: its mailbox file, the box of every    *)
(* instance of it (each writes the whole file), the top of the stack and   *)
(* the TaskManager's map. Whoever looks for the instance asks the map      *)
(* first and the stack only when the map has none.                         *)
(*                                                                         *)
(* What goes wrong with files is logged and no caller hears of it: a file  *)
(* that cannot be read is an empty box, a write that fails is forgotten,   *)
(* and a host that exits between the two renames of a write leaves no file.*)
(***************************************************************************)
EXTENDS Naturals, FiniteSets

CONSTANTS
    MaxMail,          \* envelopes, each delivered once, in any order but this
    Silent,           \* mail whose sender may leave out wake
    Instance,         \* instances of the task that one host builds
    MaxEvent,         \* what the user and the API do, what fails, exits of the host
    User, Stop, Api,  \* who else rehydrates a task: focusTask, cancelTask, sendMessage
    None

Mail == 1 .. MaxMail
Hosts == Mail \cup {User, Stop, Api}
Boxes == Mail \cup Instance  \* a delivery to a task that is not loaded has a box of its own

ASSUME DormantAssumption ==
    /\ MaxMail \in Nat /\ Silent \subseteq Nat /\ MaxEvent \in Nat
    /\ IsFiniteSet(Instance) /\ Instance \cap Nat = {}
    /\ {User, Stop, Api, None} \cap (Instance \cup Nat) = {} /\ Cardinality({User, Stop, Api, None}) = 4

VARIABLES
    file,     \* mailbox.json
    box,      \* of each Mailbox: its envelopes
    hydrated, \* instances whose Mailbox has read the file
    dirty,    \* instances whose Mailbox has yet to write
    state,    \* of each instance
    turn,     \* instances whose message queue holds the wake turn
    waking,   \* instances that Task.deliver is restarting
    stack,    \* the instance that is the current task
    managed,  \* TaskManager.activeTasks
    known,    \* the task is in TaskManager.managedTasks
    at,       \* of each delivery: how far it is
    on,       \* of each delivery: the instance it was handed to, or has woken
    wakes,    \* deliveries whose envelope says wake
    host,     \* the rehydration of each requester: how far, which instance
    events,   \* those that MaxEvent bounds
    read,     \* history: mail its agent has read
    missed,   \* history: of each box, mail of the file that it does not know of
    lost      \* history: mail that a step took out of the file, or never got into it

boxes == <<file, box, hydrated, dirty, missed, lost>>
loops == <<state, turn, waking>>
places == <<stack, managed, known>>
deliveries == <<at, on, wakes>>
vars == <<boxes, loops, places, deliveries, host, events, read>>

NoHost == [step |-> "idle", inPlace |-> FALSE, task |-> None]

Stopped == {"ended", "abandoned"}                  \* abort, and abandoned too
Live == {"dormant", "asking", "running", "ending"} \* neither
Unused == {i \in Instance : state[i] = "none"}

(* getManagedTaskInstance(taskId) ?? the current task *)
Found == IF managed # None THEN managed ELSE stack

InFlight == {d \in Mail : at[d] \in {"storing", "saving", "loading", "writing", "rehydrating"}}
Acked == {d \in Mail : at[d] \in {"rehydrating", "acked"}}

(* The bound on what the user and the API do and on what goes wrong. *)
Event == events < MaxEvent /\ events' = events + 1

(* The bound on instances: nobody begins what could not be built. *)
Building ==
    {c \in Hosts : host[c].step \in {"starting", "building"}}
        \cup {d \in wakes : at[d] \in {"loading", "writing"}}
Room == Cardinality(Building) < Cardinality(Unused)

Init ==
    /\ file = {} /\ box = [b \in Boxes |-> {}] /\ hydrated = {} /\ dirty = {}
    /\ missed = [b \in Boxes |-> {}] /\ lost = {}
    /\ state = [i \in Instance |-> "none"] /\ turn = {} /\ waking = {}
    /\ stack = None /\ managed = None /\ known \in BOOLEAN
    /\ at = [d \in Mail |-> "unsent"] /\ on = [d \in Mail |-> None] /\ wakes = {}
    /\ host = [c \in Hosts |-> NoHost]
    /\ events = 0 /\ read = {}
-----------------------------------------------------------------------------
(* The mailbox file.                                                       *)

(* Mailbox.hydrate: what cannot be read is an empty box. *)
Load(b) ==
    /\ \/ /\ box' = [box EXCEPT ![b] = file]
          /\ missed' = [missed EXCEPT ![b] = {}]
          /\ UNCHANGED events
       \/ /\ Event
          /\ box' = [box EXCEPT ![b] = {}]
          /\ missed' = [missed EXCEPT ![b] = file]
    /\ UNCHANGED <<file, lost>>

(* Mailbox.persist of a box with these contents; a failure is logged. *)
Persist(b, contents) ==
    \/ /\ file' = contents
       /\ missed' = [c \in Boxes |-> IF c = b THEN missed[c] ELSE missed[c] \cup (contents \ file)]
       /\ lost' = (lost \cup (file \cap missed[b])) \ contents
       /\ UNCHANGED events
    \/ /\ Event
       /\ lost' = lost \cup (contents \ file)
       /\ UNCHANGED <<file, missed>>
-----------------------------------------------------------------------------
(* A delivery.                                                             *)

(* An instance that is not abandoned, ended or not, is handed the envelope. *)
Send(d) ==
    /\ at[d] = "unsent" /\ \A e \in 1 .. d - 1 : at[e] # "unsent"
    /\ wakes' = wakes \cup {d} \/ (d \in Silent /\ UNCHANGED wakes)
    /\ IF Found # None /\ state[Found] # "abandoned"
       THEN at' = [at EXCEPT ![d] = "storing"] /\ on' = [on EXCEPT ![d] = Found]
       ELSE /\ d \in wakes' => Room
            /\ at' = [at EXCEPT ![d] = "loading"] /\ UNCHANGED on
    /\ UNCHANGED <<boxes, loops, places, host, events, read>>

(* Mutant: the box is not waited for, and its hydration replaces it. *)
StoreUnhydrated(d) ==
    /\ at[d] = "storing"
    /\ box' = [box EXCEPT ![on[d]] = @ \cup {d}]
    /\ dirty' = dirty \cup {on[d]}
    /\ at' = [at EXCEPT ![d] = "saving"]
    /\ UNCHANGED <<file, hydrated, missed, lost, loops, places, on, wakes, host, events, read>>

Store(d) ==
    /\ at[d] = "storing" /\ on[d] \in hydrated
    /\ box' = [box EXCEPT ![on[d]] = @ \cup {d}]
    /\ dirty' = dirty \cup {on[d]}
    /\ at' = [at EXCEPT ![d] = "saving"]
    /\ UNCHANGED <<file, hydrated, missed, lost, loops, places, on, wakes, host, events, read>>

(* Task.deliver, after the write: a loop that runs is left to see the box by *)
(* itself, one that has stopped is restarted, unless a wake turn is queued.  *)
Saved(d) ==
    /\ at[d] = "saving" /\ on[d] \notin dirty
    /\ at' = [at EXCEPT ![d] = "acked"]
    /\ waking' = IF d \in wakes /\ state[on[d]] \in Stopped /\ on[d] \notin turn
                 THEN waking \cup {on[d]} ELSE waking
    /\ UNCHANGED <<boxes, state, turn, places, on, wakes, host, events, read>>

(* No history, an errored task, one that is live elsewhere. *)
Refused(d) ==
    /\ at[d] = "loading"
    /\ at' = [at EXCEPT ![d] = "refused"]
    /\ UNCHANGED <<boxes, loops, places, on, wakes, host, events, read>>

(* Step 1: a Mailbox of its own is loaded, and written with the envelope. *)
LoadFile(d) ==
    /\ at[d] = "loading"
    /\ Load(d)
    /\ at' = [at EXCEPT ![d] = "writing"]
    /\ UNCHANGED <<hydrated, dirty, loops, places, on, wakes, host, read>>

-----------------------------------------------------------------------------
(* createTaskWithHistoryItem, for any requester.                           *)

Goes(c, step, inPlace, task) ==
    host' = [host EXCEPT ![c] = [step |-> step, inPlace |-> inPlace, task |-> task]]

(* What it finds when it begins decides whether the new instance replaces  *)
(* the current one. A live instance in the map is returned as it is.       *)
Begin(c) ==
    IF stack = None /\ managed # None /\ state[managed] \in Live
    THEN Goes(c, "joining", FALSE, managed) /\ stack' = managed
    ELSE Goes(c, "building", stack # None, None) /\ UNCHANGED stack

(* Mutant: the file is written with the new envelope alone. *)
WriteFileAlone(d) ==
    /\ at[d] = "writing"
    /\ Persist(d, {d})
    /\ box' = [box EXCEPT ![d] = {}]
    /\ IF d \in wakes
       THEN at' = [at EXCEPT ![d] = "rehydrating"] /\ Begin(d)
       ELSE at' = [at EXCEPT ![d] = "acked"] /\ UNCHANGED <<host, stack>>
    /\ UNCHANGED <<hydrated, dirty, loops, managed, known, on, wakes, read>>

(* The delivery without wake is over, the other goes on with steps 2 to 5. *)
WriteFile(d) ==
    /\ at[d] = "writing"
    /\ Persist(d, box[d] \cup {d})
    /\ box' = [box EXCEPT ![d] = {}]
    /\ IF d \in wakes
       THEN at' = [at EXCEPT ![d] = "rehydrating"] /\ Begin(d)
       ELSE at' = [at EXCEPT ![d] = "acked"] /\ UNCHANGED <<host, stack>>
    /\ UNCHANGED <<hydrated, dirty, loops, managed, known, on, wakes, read>>

(* The user focuses the task. An instance in the map that is not live is     *)
(* dropped from it, and the history read, before the task is rehydrated.     *)
Open ==
    /\ Event
    /\ stack = None /\ host[User] = NoHost
    /\ IF managed # None /\ state[managed] \in Live
       THEN stack' = managed /\ UNCHANGED <<host, managed>>
       ELSE /\ Room
            /\ managed' = None
            /\ Goes(User, "starting", FALSE, None)
            /\ UNCHANGED stack
    /\ UNCHANGED <<boxes, loops, known, deliveries, read>>

(* The user stops the current task: its instance is abandoned, and rehydrated *)
(* when the abort is over. _cancelling turns a second click away.             *)
Cancel ==
    /\ Event
    /\ stack # None /\ state[stack] \in Live
    /\ host[Stop] = NoHost /\ Room
    /\ state' = [state EXCEPT ![stack] = "abandoned"]
    /\ turn' = turn \ {stack}
    /\ Goes(Stop, "starting", FALSE, stack)
    /\ UNCHANGED <<boxes, waking, places, deliveries, read>>

(* sendMessage of the API, to a task whose instance is not live. *)
FollowUp ==
    /\ Event
    /\ host[Api] = NoHost /\ Room
    /\ Found # None => state[Found] \in Stopped
    /\ Goes(Api, "starting", FALSE, None)
    /\ UNCHANGED <<boxes, loops, places, deliveries, read>>

(* A cancellation gives up when another instance has become the current one. *)
Start(c) ==
    /\ host[c].step = "starting"
    /\ IF c = Stop /\ stack \notin {None, host[c].task}
       THEN host' = [host EXCEPT ![c] = NoHost] /\ UNCHANGED stack
       ELSE Begin(c)
    /\ UNCHANGED <<boxes, loops, managed, known, deliveries, events, read>>

(* new Task: its Mailbox begins to load. *)
Build(c) ==
    /\ host[c].step = "building"
    /\ \E i \in Unused :
        /\ i = CHOOSE j \in Unused : TRUE
        /\ state' = [state EXCEPT ![i] = "dormant"]
        /\ Goes(c, "publishing", host[c].inPlace, i)
    /\ UNCHANGED <<boxes, turn, waking, places, deliveries, events, read>>

Hydrate(i) ==
    /\ state[i] # "none" /\ i \notin hydrated
    /\ Load(i)
    /\ hydrated' = hydrated \cup {i}
    /\ UNCHANGED <<dirty, loops, places, deliveries, host, read>>

(* To be put in place of the current instance of that moment, which is aborted. *)
Replace(c) ==
    /\ host[c].step = "publishing" /\ host[c].inPlace
    /\ state' = IF stack = None THEN state ELSE [state EXCEPT ![stack] = "abandoned"]
    /\ turn' = turn \ {stack}
    /\ Goes(c, "swapping", TRUE, host[c].task)
    /\ UNCHANGED <<boxes, waking, places, deliveries, events, read>>

(* updateTaskInstance does nothing for a task that is not in managedTasks; a *)
(* push onto the stack tells the map nothing.                                *)
Publish(c) ==
    /\ \/ /\ host[c].step = "swapping"
          /\ managed' = IF known THEN host[c].task ELSE managed
       \/ /\ host[c].step = "publishing" /\ ~host[c].inPlace
          /\ UNCHANGED managed
    /\ stack' = host[c].task
    /\ Goes(c, "booting", FALSE, host[c].task)
    /\ UNCHANGED <<boxes, loops, known, deliveries, events, read>>

(* startFromHistory, which an instance heeds once. *)
Started(i, s) == state' = [state EXCEPT ![i] = IF @ = "dormant" THEN s ELSE @]

(* Mutant: the instance is registered and not started. *)
BootDeliveryUnstarted(d) ==
    /\ host[d].task \in hydrated
    /\ at' = [at EXCEPT ![d] = "acked"] /\ on' = [on EXCEPT ![d] = host[d].task]
    /\ turn' = turn \cup {host[d].task}
    /\ managed' = host[d].task /\ known' = TRUE
    /\ UNCHANGED state

(* The wake turn is queued once the box is there; a loop that starts takes it *)
(* instead of asking its user whether to resume. The instance is registered   *)
(* whatever has become of it.                                                 *)
BootDelivery(d) ==
    /\ host[d].task \in hydrated
    /\ at' = [at EXCEPT ![d] = "acked"] /\ on' = [on EXCEPT ![d] = host[d].task]
    /\ turn' = IF state[host[d].task] = "dormant" THEN turn ELSE turn \cup {host[d].task}
    /\ Started(host[d].task, "running")
    /\ managed' = host[d].task /\ known' = TRUE

(* For its user: what it has joined is not started, and whatever instance is *)
(* the current task when it was he who focused it is registered.             *)
BootUser(c) ==
    /\ IF host[c].step = "booting" THEN Started(host[c].task, "asking") ELSE UNCHANGED state
    /\ IF c = User /\ stack # None
       THEN managed' = stack /\ known' = TRUE
       ELSE UNCHANGED <<managed, known>>
    /\ UNCHANGED <<at, on, turn>>

(* For the API, which registers nothing. *)
BootApi ==
    /\ Started(host[Api].task, "running")
    /\ UNCHANGED <<at, on, turn, managed, known>>

(* Mutant: a rehydration that is over is not forgotten. *)
BootRemembered(c) ==
    /\ host[c].step \in {"booting", "joining"}
    /\ \/ c \in Mail /\ BootDelivery(c)
       \/ c \in {User, Stop} /\ BootUser(c)
       \/ c = Api /\ BootApi
    /\ Goes(c, "idle", FALSE, host[c].task)
    /\ UNCHANGED <<boxes, waking, stack, wakes, events, read>>

Boot(c) ==
    /\ host[c].step \in {"booting", "joining"}
    /\ \/ c \in Mail /\ BootDelivery(c)
       \/ c \in {User, Stop} /\ BootUser(c)
       \/ c = Api /\ BootApi
    /\ host' = [host EXCEPT ![c] = NoHost]
    /\ UNCHANGED <<boxes, waking, stack, wakes, events, read>>

(* A profile that cannot be activated, a history that cannot be read, a stack  *)
(* that has become empty: the instance stays where it is, and is not started.  *)
Fail(c) ==
    /\ Event
    /\ host[c].step \notin {"idle", "swapping"}
    /\ host' = [host EXCEPT ![c] = NoHost]
    /\ at' = [d \in Mail |-> IF d = c THEN "failed" ELSE at[d]]
    /\ UNCHANGED <<boxes, loops, places, on, wakes, read>>
-----------------------------------------------------------------------------
(* The instances, the user and the host.                                   *)

Become(i, s) == state' = [state EXCEPT ![i] = s]

(* wait reads the whole box and leaves it to be written. *)
Drain(i) ==
    /\ state[i] = "running" /\ i \in hydrated /\ box[i] # {}
    /\ read' = read \cup box[i]
    /\ box' = [box EXCEPT ![i] = {}]
    /\ dirty' = dirty \cup {i}
    /\ UNCHANGED <<file, hydrated, missed, lost, loops, places, deliveries, host, events>>

Flush(i) ==
    /\ i \in dirty
    /\ Persist(i, box[i])
    /\ dirty' = dirty \ {i}
    /\ UNCHANGED <<box, hydrated, loops, places, deliveries, host, read>>

(* A loop completes: past its last look at the box and the queue it still *)
(* counts as running, until it sets abort.                                *)
End(i) ==
    /\ \/ state[i] = "running" /\ Become(i, "ending")
       \/ state[i] = "ending" /\ Become(i, "ended")
    /\ UNCHANGED <<boxes, turn, waking, places, deliveries, host, events, read>>

(* The API cancels the task while another is the current one. *)
CancelBackground ==
    /\ Event
    /\ stack = None /\ managed # None /\ state[managed] \in Live \ {"dormant"}
    /\ Become(managed, "ended")
    /\ turn' = turn \ {managed}
    /\ UNCHANGED <<boxes, waking, places, deliveries, host, read>>

(* The user answers the resume question, or a queued turn does; a loop that *)
(* runs takes such a turn, too.                                             *)
Resume(i) ==
    /\ state[i] = "asking" \/ (state[i] = "running" /\ i \in turn)
    /\ Become(i, "running")
    /\ turn' = turn \ {i}
    /\ UNCHANGED <<boxes, waking, places, deliveries, host, events, read>>

(* cancelAndProcessQueuedMessages restarts the loop with the turn it took. *)
Wake(i) ==
    /\ i \in waking
    /\ Become(i, IF state[i] = "abandoned" THEN "abandoned" ELSE "running")
    /\ waking' = waking \ {i}
    /\ UNCHANGED <<boxes, turn, places, deliveries, host, events, read>>

(* Another task is created or rehydrated: this one moves to the background. *)
Leave ==
    /\ Event
    /\ stack # None
    /\ managed' = stack /\ known' = TRUE
    /\ stack' = None
    /\ UNCHANGED <<boxes, loops, deliveries, host, read>>

(* A live task is focused: it takes the place of this one, which is lost if *)
(* the map does not have it.                                                *)
FocusOther ==
    /\ Event
    /\ stack # None
    /\ stack' = None
    /\ UNCHANGED <<boxes, loops, managed, known, deliveries, host, read>>

(* removeShoferFromStack *)
Clear ==
    /\ Event
    /\ stack # None
    /\ Become(stack, "abandoned")
    /\ turn' = turn \ {stack}
    /\ stack' = None
    /\ UNCHANGED <<boxes, waking, managed, known, deliveries, host, read>>

(* The host exits, with its instances; what it was delivering has failed. A *)
(* write it was at may leave no file.                                       *)
Restart ==
    /\ Event
    /\ \/ UNCHANGED <<file, lost>>
       \/ /\ dirty # {} \/ \E d \in Mail : at[d] = "writing"
          /\ file' = {} /\ lost' = lost \cup file
    /\ state' = [i \in Instance |-> "none"]
    /\ box' = [b \in Boxes |-> {}] /\ missed' = [b \in Boxes |-> {}]
    /\ hydrated' = {} /\ dirty' = {} /\ turn' = {} /\ waking' = {}
    /\ stack' = None /\ managed' = None
    /\ at' = [d \in Mail |-> IF d \in InFlight THEN "failed" ELSE at[d]]
    /\ on' = [d \in Mail |-> None]
    /\ host' = [c \in Hosts |-> NoHost]
    /\ UNCHANGED <<known, wakes, read>>

Next ==
    \/ \E d \in Mail :
         \/ Send(d) \/ Store(d) \/ Saved(d)
         \/ Refused(d) \/ LoadFile(d) \/ WriteFile(d)
    \/ Open \/ Cancel \/ FollowUp
    \/ \E c \in Hosts :
         Start(c) \/ Build(c) \/ Replace(c) \/ Publish(c) \/ Boot(c) \/ Fail(c)
    \/ \E i \in Instance :
         Hydrate(i) \/ Drain(i) \/ Flush(i) \/ End(i) \/ Resume(i) \/ Wake(i)
    \/ CancelBackground \/ Leave \/ FocusOther \/ Clear \/ Restart

Spec == Init /\ [][Next]_vars

(* The awaits of a delivery, one after the other. *)
Deliver(d) ==
    \/ Store(d) \/ Saved(d) \/ LoadFile(d) \/ WriteFile(d)
    \/ Build(d) \/ Replace(d) \/ Publish(d) \/ Boot(d)

(* Awaited file operations end, and what follows an await runs. *)
FairSpec ==
    /\ Spec
    /\ \A d \in Mail : WF_vars(Deliver(d))
    /\ \A i \in Instance : WF_vars(Hydrate(i)) /\ WF_vars(Flush(i)) /\ WF_vars(Wake(i))
-----------------------------------------------------------------------------
(* Properties.                                                             *)

(* Every variable has its type, and a rehydration that is over is forgotten. *)
TypeOK ==
    /\ {file, read, wakes, lost} \subseteq SUBSET Mail
    /\ box \in [Boxes -> SUBSET Mail] /\ missed \in [Boxes -> SUBSET Mail]
    /\ state \in [Instance -> {"none"} \cup Live \cup Stopped]
    /\ {hydrated, dirty, turn, waking} \subseteq SUBSET {i \in Instance : state[i] # "none"}
    /\ {stack, managed} \subseteq Instance \cup {None} /\ known \in BOOLEAN
    /\ at \in [Mail -> {"unsent", "storing", "saving", "loading", "writing", "rehydrating",
                        "acked", "refused", "failed"}]
    /\ on \in [Mail -> Instance \cup {None}]
    /\ host \in [Hosts -> [step : {"idle", "starting", "building", "publishing", "swapping",
                                   "booting", "joining"},
                           inPlace : BOOLEAN, task : Instance \cup {None}]]
    /\ \A c \in Hosts : host[c].step = "idle" => host[c] = NoHost
    /\ \A d \in Mail : at[d] = "rehydrating" <=> host[d] # NoHost
    /\ events \in 0 .. MaxEvent

(* "The message is durable before anything is started": mail that a delivery *)
(* has stored leaves the file unread in three ways only. A box writes that    *)
(* does not know of it, because another put it there after the box was read   *)
(* or because the file could not be read; its own write fails unheard; or the *)
(* host exits between two renames.                                            *)
AckMeansKept == Acked \subseteq file \cup read \cup lost

(* "Awaiting that load here guarantees the envelope is in memory": what an    *)
(* agent that is running or asking cannot see of the mail that was stored is  *)
(* lost, or is in the file and was put there after its box was read, or could *)
(* not be read.                                                               *)
LiveSeesMail ==
    \A i \in hydrated :
        state[i] \in {"asking", "running"} =>
            Acked \subseteq box[i] \cup read \cup lost \cup missed[i]

(* "At any time there is AT MOST ONE live Task instance per taskId". *)
OneLive == Cardinality({i \in Instance : state[i] \in {"asking", "running"}}) <= 1

(* At most one rehydration at a time. *)
OneAtATime == Cardinality({c \in Hosts : host[c] # NoHost}) <= 1

(* The instance runs, or asks its user; or it was abandoned; or it had stopped *)
(* with a wake turn in its queue that nobody takes.                            *)
Heard(i) ==
    \/ state[i] \in {"asking", "running", "abandoned"}
    \/ state[i] \in {"ending", "ended"} /\ i \in turn

(* Mail that says wake and is stored for a task that is not loaded, or by an  *)
(* instance that has ended, has that task heard of it, unless its delivery    *)
(* fails or the host exits: a turn is not in the file.                        *)
WakeIsHeard ==
    \A d \in Mail :
        /\ d \in wakes
        /\ \/ at[d] = "rehydrating"
           \/ at[d] = "saving" /\ state[on[d]] = "ended" /\ on[d] \notin turn
        ~> \/ at[d] = "failed" \/ (at[d] = "acked" /\ on[d] = None)
           \/ on[d] # None /\ Heard(on[d])
=============================================================================
