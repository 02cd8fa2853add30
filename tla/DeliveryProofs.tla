---------------------------- MODULE DeliveryProofs ----------------------------
(***************************************************************************)
(* Proofs about what crosses between tasks: the mail that deliverToTask    *)
(* hands to a task that may not be loaded (DormantDelivery), and the       *)
(* questions that a child forwards to its parent (ChildQuestion). Nothing  *)
(* is assumed of how deliveries, rehydrations, failures and exits overlap. *)
(***************************************************************************)
EXTENDS DormantDelivery, ChildQuestion, FiniteSetTheorems, TLAPS

Steps == {"idle", "starting", "building", "publishing", "swapping", "booting", "joining"}

(* What a delivery is handed to is an instance. *)
Types ==
    /\ TypeOK
    /\ \A d \in Mail : at[d] \in {"storing", "saving"} => on[d] \in Instance

(* A box that was read, and not yet put away. *)
Read(b) == b \in hydrated \/ (b \in Mail /\ at[b] = "writing")

(* It has what is in the file, unless that was read by an agent or is missed. *)
BoxesKnow == \A b \in Boxes : Read(b) => file \subseteq box[b] \cup read \cup missed[b]

(* Only a box that was read is written. *)
DirtyRead == dirty \subseteq hydrated

(* What a delivery has put into a box stays there until it is read. *)
SavingHeld ==
    \A d \in Mail : at[d] = "saving" => on[d] \in hydrated /\ d \in box[on[d]] \cup read

(* Mail whose write is over, whether the delivery has noticed or not. *)
Stored == Acked \cup {d \in Mail : at[d] = "saving" /\ on[d] \notin dirty}
StoredKept == Stored \subseteq file \cup read \cup lost

DInv == Types /\ DirtyRead /\ BoxesKnow /\ SavingHeld /\ StoredKept
-----------------------------------------------------------------------------
(* The other requesters are different and none is an envelope or an instance. *)
LEMMA Distinct ==
    /\ User # Stop /\ User # Api /\ Stop # Api /\ {User, Stop, Api} \cap Mail = {}
    /\ None \notin Instance /\ Mail \cap Instance = {}
<1>1. \A x, y, z : Cardinality({x, y, z}) <= 3 /\ IsFiniteSet({x, y, z})
  <2> TAKE x, y, z
  <2>1. IsFiniteSet({x}) /\ Cardinality({x}) = 1
    BY FS_Singleton
  <2>2. IsFiniteSet({x, y}) /\ Cardinality({x, y}) <= 2
    BY <2>1, FS_AddElement, {x} \cup {y} = {x, y}
  <2>3. Cardinality({x, y}) \in Nat
    BY <2>2, FS_CardinalityType
  <2> QED BY <2>2, <2>3, FS_AddElement, {x, y} \cup {z} = {x, y, z}
<1>2. User # Stop
  <2>1. User = Stop => {User, Stop, Api, None} = {Stop, Api, None}
    OBVIOUS
  <2>2. Cardinality({Stop, Api, None}) <= 3
    BY <1>1
  <2> QED BY <2>1, <2>2, DormantAssumption
<1>3. User # Api
  <2>1. User = Api => {User, Stop, Api, None} = {Stop, Api, None}
    OBVIOUS
  <2>2. Cardinality({Stop, Api, None}) <= 3
    BY <1>1
  <2> QED BY <2>1, <2>2, DormantAssumption
<1>4. Stop # Api
  <2>1. Stop = Api => {User, Stop, Api, None} = {User, Api, None}
    OBVIOUS
  <2>2. Cardinality({User, Api, None}) <= 3
    BY <1>1
  <2> QED BY <2>1, <2>2, DormantAssumption
<1> QED BY <1>2, <1>3, <1>4, DormantAssumption DEF Mail
-----------------------------------------------------------------------------
(* Types. *)

(* A rehydration goes to another step, and stays one. *)
LEMMA GoesTypes ==
    ASSUME Types, NEW c \in Hosts, NEW s \in Steps, NEW p \in BOOLEAN, NEW t \in Instance \cup {None},
           Goes(c, s, p, t), s # "idle"
    PROVE  /\ host' \in [Hosts -> [step : Steps, inPlace : BOOLEAN, task : Instance \cup {None}]]
           /\ \A b \in Hosts : host'[b].step = "idle" => host'[b] = NoHost
           /\ host'[c] # NoHost /\ \A b \in Hosts \ {c} : host'[b] = host[b]
<1> DEFINE r == [step |-> s, inPlace |-> p, task |-> t]
<1>1. r \in [step : Steps, inPlace : BOOLEAN, task : Instance \cup {None}] /\ r.step = s
  OBVIOUS
<1>2. NoHost.step = "idle"
  BY DEF NoHost
<1>3. host \in [Hosts -> [step : Steps, inPlace : BOOLEAN, task : Instance \cup {None}]]
  BY DEF Types, TypeOK, Steps
<1>4. \A b \in Hosts : host[b].step = "idle" => host[b] = NoHost
  BY DEF Types, TypeOK
<1>5. host' = [host EXCEPT ![c] = r]
  BY DEF Goes
<1>6. r # NoHost /\ r.step # "idle"
  BY <1>1, <1>2
<1> HIDE DEF r
<1> QED BY <1>1, <1>3, <1>4, <1>5, <1>6

(* A rehydration is over. *)
LEMMA OverTypes ==
    ASSUME Types, NEW c \in Hosts, host' = [host EXCEPT ![c] = NoHost]
    PROVE  /\ host' \in [Hosts -> [step : Steps, inPlace : BOOLEAN, task : Instance \cup {None}]]
           /\ \A b \in Hosts : host'[b].step = "idle" => host'[b] = NoHost
           /\ host'[c] = NoHost /\ \A b \in Hosts \ {c} : host'[b] = host[b]
<1>1. NoHost \in [step : Steps, inPlace : BOOLEAN, task : Instance \cup {None}]
  BY DEF NoHost, Steps
<1>2. host \in [Hosts -> [step : Steps, inPlace : BOOLEAN, task : Instance \cup {None}]]
  BY DEF Types, TypeOK, Steps
<1>3. \A b \in Hosts : host[b].step = "idle" => host[b] = NoHost
  BY DEF Types, TypeOK
<1> QED BY <1>1, <1>2, <1>3

(* TypeOK in parts, so that a step names only those that it disturbs. *)
FileTypes ==
    /\ {file, read, wakes, lost} \subseteq SUBSET Mail
    /\ box \in [Boxes -> SUBSET Mail] /\ missed \in [Boxes -> SUBSET Mail]
    /\ events \in 0 .. MaxEvent

Built == {i \in Instance : state[i] # "none"}

LoopTypes ==
    /\ state \in [Instance -> {"none"} \cup Live \cup Stopped]
    /\ hydrated \subseteq Built /\ dirty \subseteq Built /\ turn \subseteq Built /\ waking \subseteq Built

PlaceTypes == stack \in Instance \cup {None} /\ managed \in Instance \cup {None}

KnownType == known \in BOOLEAN

MailTypes ==
    /\ at \in [Mail -> {"unsent", "storing", "saving", "loading", "writing", "rehydrating",
                        "acked", "refused", "failed"}]
    /\ on \in [Mail -> Instance \cup {None}]
    /\ \A d \in Mail : at[d] \in {"storing", "saving"} => on[d] \in Instance

HostTypes ==
    /\ host \in [Hosts -> [step : Steps, inPlace : BOOLEAN, task : Instance \cup {None}]]
    /\ \A c \in Hosts : host[c].step = "idle" => host[c] = NoHost

HostMail == \A d \in Mail : at[d] = "rehydrating" <=> host[d] # NoHost

LEMMA TypeParts ==
    /\ Types <=> FileTypes /\ LoopTypes /\ PlaceTypes /\ KnownType /\ MailTypes /\ HostTypes /\ HostMail
    /\ (Types <=> FileTypes /\ LoopTypes /\ PlaceTypes /\ KnownType /\ MailTypes /\ HostTypes /\ HostMail)'
BY DEF Types, TypeOK, FileTypes, LoopTypes, PlaceTypes, KnownType, MailTypes, HostTypes, HostMail,
       Steps, Built

(* The parts of the types that a step does not touch. *)
LEMMA Untouched ==
    ASSUME Types
    PROVE  /\ UNCHANGED <<file, read, wakes, lost, box, missed, events>> => FileTypes'
           /\ UNCHANGED <<state, hydrated, dirty, turn, waking>> => LoopTypes'
           /\ UNCHANGED <<stack, managed>> => PlaceTypes'
           /\ UNCHANGED known => KnownType'
           /\ UNCHANGED <<at, on>> => MailTypes'
           /\ UNCHANGED host => HostTypes'
           /\ UNCHANGED <<at, host>> => HostMail'
<1>1. FileTypes /\ LoopTypes /\ PlaceTypes /\ KnownType /\ MailTypes /\ HostTypes /\ HostMail
  BY TypeParts
<1>2. UNCHANGED <<file, read, wakes, lost, box, missed, events>> => FileTypes'
  BY <1>1 DEF FileTypes
<1>3. UNCHANGED <<state, hydrated, dirty, turn, waking>> => LoopTypes'
  BY <1>1 DEF LoopTypes, Built
<1>4. UNCHANGED <<stack, managed>> => PlaceTypes'
  BY <1>1 DEF PlaceTypes
<1>5. UNCHANGED known => KnownType'
  BY <1>1 DEF KnownType
<1>6. UNCHANGED <<at, on>> => MailTypes'
  BY <1>1 DEF MailTypes
<1>7. UNCHANGED host => HostTypes'
  BY <1>1 DEF HostTypes
<1>8. UNCHANGED <<at, host>> => HostMail'
  BY <1>1 DEF HostMail
<1> QED BY <1>2, <1>3, <1>4, <1>5, <1>6, <1>7, <1>8

(* A delivery goes to a stage other than rehydrating. *)
LEMMA AtTypes ==
    ASSUME Types, NEW d \in Mail, NEW s \in {"storing", "saving", "loading", "writing", "acked", "refused"},
           at[d] # "rehydrating", at' = [at EXCEPT ![d] = s], UNCHANGED host
    PROVE  /\ UNCHANGED on /\ (s \in {"storing", "saving"} => on[d] \in Instance) => MailTypes'
           /\ HostMail'
<1>1. MailTypes /\ HostMail
  BY TypeParts
<1>2. UNCHANGED on /\ (s \in {"storing", "saving"} => on[d] \in Instance) => MailTypes'
  BY <1>1 DEF MailTypes
<1>3. HostMail'
  BY <1>1 DEF HostMail, MailTypes
<1> QED BY <1>2, <1>3

(* What a box reads and writes is mail. *)
LEMMA LoadTypes ==
    ASSUME Types, NEW b \in Boxes, Load(b), UNCHANGED <<read, wakes>> PROVE FileTypes'
<1>1. FileTypes
  BY TypeParts
<1>2. UNCHANGED <<file, lost>>
  BY DEF Load
<1>3. CASE box' = [box EXCEPT ![b] = file] /\ missed' = [missed EXCEPT ![b] = {}] /\ UNCHANGED events
  BY <1>1, <1>2, <1>3 DEF FileTypes
<1>4. CASE Event /\ box' = [box EXCEPT ![b] = {}] /\ missed' = [missed EXCEPT ![b] = file]
  BY <1>1, <1>2, <1>4, DormantAssumption DEF FileTypes, Event
<1> QED BY <1>3, <1>4 DEF Load

LEMMA PersistTypes ==
    ASSUME Types, NEW b \in Boxes, NEW contents \in SUBSET Mail, Persist(b, contents),
           UNCHANGED <<read, wakes>>, box' \in [Boxes -> SUBSET Mail]
    PROVE  FileTypes'
<1>1. FileTypes
  BY TypeParts
<1>2. CASE /\ file' = contents
           /\ missed' = [c \in Boxes |-> IF c = b THEN missed[c] ELSE missed[c] \cup (contents \ file)]
           /\ lost' = (lost \cup (file \cap missed[b])) \ contents
           /\ UNCHANGED events
  <2>1. missed' \in [Boxes -> SUBSET Mail]
    BY <1>1, <1>2 DEF FileTypes
  <2> QED BY <1>1, <1>2, <2>1 DEF FileTypes
<1>3. CASE Event /\ lost' = lost \cup (contents \ file) /\ UNCHANGED <<file, missed>>
  BY <1>1, <1>3, DormantAssumption DEF FileTypes, Event
<1> QED BY <1>2, <1>3 DEF Persist

LEMMA EventTypes ==
    ASSUME Types, Event, UNCHANGED <<file, read, wakes, lost, box, missed>> PROVE FileTypes'
<1>1. FileTypes
  BY TypeParts
<1> QED BY <1>1, DormantAssumption DEF FileTypes, Event

(* What a rehydration finds when it begins is an instance, if any. *)
LEMMA BeginTypes ==
    ASSUME Types, NEW c \in Hosts, Begin(c)
    PROVE  /\ HostTypes' /\ (UNCHANGED managed => PlaceTypes')
           /\ host'[c] # NoHost /\ \A b \in Hosts \ {c} : host'[b] = host[b]
<1>1. PlaceTypes
  BY TypeParts
<1>2. CASE Goes(c, "joining", FALSE, managed) /\ stack' = managed
  <2>1. HostTypes' /\ host'[c] # NoHost /\ \A b \in Hosts \ {c} : host'[b] = host[b]
    BY <1>1, <1>2, GoesTypes DEF PlaceTypes, HostTypes, Steps
  <2> QED BY <1>1, <1>2, <2>1 DEF PlaceTypes
<1>3. CASE Goes(c, "building", stack # None, None) /\ UNCHANGED stack
  <2>1. HostTypes' /\ host'[c] # NoHost /\ \A b \in Hosts \ {c} : host'[b] = host[b]
    BY <1>3, GoesTypes DEF HostTypes, Steps
  <2> QED BY <1>1, <1>3, <2>1 DEF PlaceTypes
<1> QED BY <1>2, <1>3 DEF Begin

(* Every instance that was built stays built. *)
LEMMA BecomeTypes ==
    ASSUME Types, NEW i \in Instance, NEW s \in Live \cup Stopped, state' = [state EXCEPT ![i] = s],
           UNCHANGED <<hydrated, dirty>>, turn' \subseteq turn, waking' \subseteq waking
    PROVE  LoopTypes'
<1>1. LoopTypes
  BY TypeParts
<1>2. s # "none" /\ state' \in [Instance -> {"none"} \cup Live \cup Stopped]
  BY <1>1 DEF LoopTypes, Live, Stopped
<1>3. Built \subseteq Built'
  BY <1>1, <1>2 DEF LoopTypes, Built
<1> QED BY <1>1, <1>2, <1>3 DEF LoopTypes
-----------------------------------------------------------------------------
LEMMA SendTypes == ASSUME Types, NEW d \in Mail, Send(d) PROVE Types'
<1>0. UNCHANGED <<file, box, hydrated, dirty, missed, lost, state, turn, waking, stack, managed, known,
                  host, events, read>>
  BY DEF Send, boxes, loops, places
<1>1. LoopTypes' /\ PlaceTypes' /\ KnownType' /\ HostTypes'
  BY <1>0, Untouched
<1>2. wakes' \subseteq Mail /\ FileTypes
  BY TypeParts DEF Send, FileTypes
<1>3. FileTypes'
  BY <1>0, <1>2 DEF FileTypes
<1>4. MailTypes' /\ HostMail'
  <2>1. CASE Found # None /\ at' = [at EXCEPT ![d] = "storing"] /\ on' = [on EXCEPT ![d] = Found]
    <3>1. Found \in Instance
      BY <2>1, TypeParts DEF PlaceTypes, Found
    <3>2. HostMail'
      BY <2>1, <1>0, AtTypes DEF Send
    <3> QED BY <2>1, <3>1, <3>2, TypeParts DEF MailTypes
  <2>2. CASE at' = [at EXCEPT ![d] = "loading"] /\ UNCHANGED on
    BY <2>2, <1>0, AtTypes DEF Send
  <2> QED BY <2>1, <2>2 DEF Send
<1> QED BY <1>1, <1>3, <1>4, TypeParts

LEMMA StoreTypes == ASSUME Types, NEW d \in Mail, Store(d) PROVE Types'
<1>0. UNCHANGED <<file, hydrated, missed, lost, state, turn, waking, stack, managed, known, on, wakes,
                  host, events, read>>
  BY DEF Store, loops, places
<1>1. PlaceTypes' /\ KnownType' /\ HostTypes'
  BY <1>0, Untouched
<1>2. FileTypes /\ LoopTypes /\ on[d] \in hydrated
  BY TypeParts DEF Store
<1>3. FileTypes'
  BY <1>0, <1>2 DEF FileTypes, Store
<1>4. LoopTypes'
  BY <1>0, <1>2 DEF LoopTypes, Built, Store
<1>5. MailTypes' /\ HostMail'
  BY <1>0, <1>2, AtTypes DEF Store, LoopTypes, Built
<1> QED BY <1>1, <1>3, <1>4, <1>5, TypeParts

LEMMA SavedTypes == ASSUME Types, NEW d \in Mail, Saved(d) PROVE Types'
<1>0. UNCHANGED <<file, box, hydrated, dirty, missed, lost, state, turn, stack, managed, known, on,
                  wakes, host, events, read>>
  BY DEF Saved, boxes, places
<1>1. FileTypes' /\ PlaceTypes' /\ KnownType' /\ HostTypes'
  BY <1>0, Untouched
<1>2. LoopTypes /\ MailTypes /\ on[d] \in Instance
  BY TypeParts DEF Saved, MailTypes
<1>3. waking' = waking \/ (waking' = waking \cup {on[d]} /\ state[on[d]] \in Stopped)
  BY DEF Saved
<1>4. LoopTypes'
  BY <1>0, <1>2, <1>3 DEF LoopTypes, Built, Stopped
<1>5. MailTypes' /\ HostMail'
  BY <1>0, AtTypes DEF Saved
<1> QED BY <1>1, <1>4, <1>5, TypeParts

LEMMA RefusedTypes == ASSUME Types, NEW d \in Mail, Refused(d) PROVE Types'
<1>0. UNCHANGED <<file, box, hydrated, dirty, missed, lost, state, turn, waking, stack, managed, known,
                  on, wakes, host, events, read>>
  BY DEF Refused, boxes, loops, places
<1>1. FileTypes' /\ LoopTypes' /\ PlaceTypes' /\ KnownType' /\ HostTypes'
  BY <1>0, Untouched
<1>2. MailTypes' /\ HostMail'
  BY <1>0, AtTypes DEF Refused
<1> QED BY <1>1, <1>2, TypeParts

LEMMA LoadFileTypes == ASSUME Types, NEW d \in Mail, LoadFile(d) PROVE Types'
<1>0. UNCHANGED <<hydrated, dirty, state, turn, waking, stack, managed, known, on, wakes, host, read>>
  BY DEF LoadFile, loops, places
<1>1. LoopTypes' /\ PlaceTypes' /\ KnownType' /\ HostTypes'
  BY <1>0, Untouched
<1>2. FileTypes'
  BY <1>0, LoadTypes DEF LoadFile, Boxes
<1>3. MailTypes' /\ HostMail'
  BY <1>0, AtTypes DEF LoadFile
<1> QED BY <1>1, <1>2, <1>3, TypeParts

LEMMA WriteFileTypes == ASSUME Types, NEW d \in Mail, WriteFile(d) PROVE Types'
<1>0. UNCHANGED <<hydrated, dirty, state, turn, waking, managed, known, on, wakes, read>>
  BY DEF WriteFile, loops
<1>1. LoopTypes' /\ KnownType'
  BY <1>0, Untouched
<1>2. FileTypes'
  <2>1. box' \in [Boxes -> SUBSET Mail] /\ box[d] \cup {d} \in SUBSET Mail
    BY TypeParts DEF WriteFile, FileTypes, Boxes
  <2> QED BY <1>0, <2>1, PersistTypes DEF WriteFile, Boxes
<1>3. PlaceTypes' /\ MailTypes' /\ HostTypes' /\ HostMail'
  <2>1. CASE at' = [at EXCEPT ![d] = "rehydrating"] /\ Begin(d)
    <3>1. PlaceTypes' /\ HostTypes' /\ host'[d] # NoHost /\ \A b \in Hosts \ {d} : host'[b] = host[b]
      BY <1>0, <2>1, BeginTypes DEF Hosts
    <3>2. HostMail'
      BY <2>1, <3>1, TypeParts DEF HostMail, MailTypes, Hosts
    <3>3. MailTypes'
      BY <1>0, <2>1, TypeParts DEF MailTypes
    <3> QED BY <3>1, <3>2, <3>3
  <2>2. CASE at' = [at EXCEPT ![d] = "acked"] /\ UNCHANGED <<host, stack>>
    <3>1. PlaceTypes' /\ HostTypes'
      BY <1>0, <2>2, Untouched
    <3> QED BY <1>0, <2>2, <3>1, AtTypes DEF WriteFile
  <2> QED BY <2>1, <2>2 DEF WriteFile
<1> QED BY <1>1, <1>2, <1>3, TypeParts

(* A requester that is no delivery leaves the deliveries as they are. *)
LEMMA OtherHost ==
    ASSUME Types, NEW c \in Hosts, UNCHANGED at, \A b \in Hosts \ {c} : host'[b] = host[b],
           c \in Mail => (host[c] # NoHost /\ host'[c] # NoHost)
    PROVE  HostMail'
BY TypeParts DEF HostMail, Hosts

LEMMA OpenTypes == ASSUME Types, Open PROVE Types'
<1>0. UNCHANGED <<file, box, hydrated, dirty, missed, lost, state, turn, waking, known, at, on, wakes, read>>
  BY DEF Open, boxes, loops, deliveries
<1>1. LoopTypes' /\ KnownType' /\ MailTypes'
  BY <1>0, Untouched
<1>2. FileTypes'
  BY <1>0, EventTypes DEF Open
<1>3. PlaceTypes' /\ HostTypes' /\ HostMail'
  <2>1. CASE stack' = managed /\ UNCHANGED <<host, managed>>
    <3>1. PlaceTypes'
      BY <2>1, TypeParts DEF PlaceTypes
    <3> QED BY <1>0, <2>1, <3>1, Untouched
  <2>2. CASE managed' = None /\ Goes(User, "starting", FALSE, None) /\ UNCHANGED stack
    <3>1. PlaceTypes'
      BY <2>2, TypeParts DEF PlaceTypes
    <3>2. HostTypes' /\ \A b \in Hosts \ {User} : host'[b] = host[b]
      BY <2>2, GoesTypes DEF HostTypes, Steps, Hosts
    <3> QED BY <1>0, <3>1, <3>2, OtherHost, Distinct DEF Hosts
  <2> QED BY <2>1, <2>2 DEF Open
<1> QED BY <1>1, <1>2, <1>3, TypeParts

LEMMA CancelTypes == ASSUME Types, Cancel PROVE Types'
<1>0. UNCHANGED <<file, box, hydrated, dirty, missed, lost, waking, stack, managed, known, at, on, wakes, read>>
  BY DEF Cancel, boxes, places, deliveries
<1>1. PlaceTypes' /\ KnownType' /\ MailTypes'
  BY <1>0, Untouched
<1>2. FileTypes'
  BY <1>0, EventTypes DEF Cancel
<1>3. stack \in Instance
  BY TypeParts DEF PlaceTypes, Cancel
<1>4. LoopTypes'
  BY <1>0, <1>3, BecomeTypes DEF Cancel, Stopped
<1>5. HostTypes' /\ \A b \in Hosts \ {Stop} : host'[b] = host[b]
  BY <1>3, GoesTypes DEF Cancel, HostTypes, Steps, Hosts
<1>6. HostMail'
  BY <1>0, <1>5, OtherHost, Distinct DEF Hosts
<1> QED BY <1>1, <1>2, <1>4, <1>5, <1>6, TypeParts

LEMMA FollowUpTypes == ASSUME Types, FollowUp PROVE Types'
<1>0. UNCHANGED <<file, box, hydrated, dirty, missed, lost, state, turn, waking, stack, managed, known,
                  at, on, wakes, read>>
  BY DEF FollowUp, boxes, loops, places, deliveries
<1>1. LoopTypes' /\ PlaceTypes' /\ KnownType' /\ MailTypes'
  BY <1>0, Untouched
<1>2. FileTypes'
  BY <1>0, EventTypes DEF FollowUp
<1>3. HostTypes' /\ \A b \in Hosts \ {Api} : host'[b] = host[b]
  BY GoesTypes DEF FollowUp, HostTypes, Steps, Hosts
<1>4. HostMail'
  BY <1>0, <1>3, OtherHost, Distinct DEF Hosts
<1> QED BY <1>1, <1>2, <1>3, <1>4, TypeParts

LEMMA StartTypes == ASSUME Types, NEW c \in Hosts, Start(c) PROVE Types'
<1>0. UNCHANGED <<file, box, hydrated, dirty, missed, lost, state, turn, waking, managed, known,
                  at, on, wakes, events, read>>
  BY DEF Start, boxes, loops, deliveries
<1>1. FileTypes' /\ LoopTypes' /\ KnownType' /\ MailTypes'
  BY <1>0, Untouched
<1>2. host[c] # NoHost
  BY DEF Start, NoHost
<1>3. PlaceTypes' /\ HostTypes' /\ HostMail'
  <2>1. CASE c = Stop /\ host' = [host EXCEPT ![c] = NoHost] /\ UNCHANGED stack
    <3>1. PlaceTypes'
      BY <1>0, <2>1, Untouched
    <3>2. HostTypes' /\ \A b \in Hosts \ {c} : host'[b] = host[b]
      BY <2>1, OverTypes DEF HostTypes
    <3> QED BY <1>0, <2>1, <3>1, <3>2, OtherHost, Distinct
  <2>2. CASE Begin(c)
    <3>1. PlaceTypes' /\ HostTypes' /\ host'[c] # NoHost /\ \A b \in Hosts \ {c} : host'[b] = host[b]
      BY <1>0, <2>2, BeginTypes
    <3> QED BY <1>0, <1>2, <3>1, OtherHost
  <2> QED BY <2>1, <2>2 DEF Start
<1> QED BY <1>1, <1>3, TypeParts

LEMMA BuildTypes == ASSUME Types, NEW c \in Hosts, Build(c) PROVE Types'
<1>0. UNCHANGED <<file, box, hydrated, dirty, missed, lost, turn, waking, stack, managed, known,
                  at, on, wakes, events, read>>
  BY DEF Build, boxes, places, deliveries
<1>1. FileTypes' /\ PlaceTypes' /\ KnownType' /\ MailTypes'
  BY <1>0, Untouched
<1>2. PICK i \in Instance :
        state' = [state EXCEPT ![i] = "dormant"] /\ Goes(c, "publishing", host[c].inPlace, i)
  BY DEF Build, Unused
<1>3. LoopTypes'
  BY <1>0, <1>2, BecomeTypes DEF Live
<1>4. host[c] # NoHost /\ host[c].inPlace \in BOOLEAN
  BY TypeParts DEF Build, NoHost, HostTypes
<1>5. HostTypes' /\ host'[c] # NoHost /\ \A b \in Hosts \ {c} : host'[b] = host[b]
  BY <1>2, <1>4, GoesTypes DEF HostTypes, Steps
<1>6. HostMail'
  BY <1>0, <1>4, <1>5, OtherHost
<1> QED BY <1>1, <1>3, <1>5, <1>6, TypeParts

LEMMA ReplaceTypes == ASSUME Types, NEW c \in Hosts, Replace(c) PROVE Types'
<1>0. UNCHANGED <<file, box, hydrated, dirty, missed, lost, waking, stack, managed, known,
                  at, on, wakes, events, read>>
  BY DEF Replace, boxes, places, deliveries
<1>1. FileTypes' /\ PlaceTypes' /\ KnownType' /\ MailTypes'
  BY <1>0, Untouched
<1>2. LoopTypes'
  <2>1. CASE stack = None
    BY <1>0, <2>1, TypeParts DEF Replace, LoopTypes, Built
  <2>2. CASE stack # None
    <3>1. stack \in Instance /\ state' = [state EXCEPT ![stack] = "abandoned"] /\ turn' \subseteq turn
      BY <2>2, TypeParts DEF Replace, PlaceTypes
    <3> QED BY <1>0, <3>1, BecomeTypes DEF Stopped
  <2> QED BY <2>1, <2>2
<1>3. host[c] # NoHost /\ host[c].task \in Instance \cup {None}
  BY TypeParts DEF Replace, NoHost, HostTypes
<1>4. HostTypes' /\ host'[c] # NoHost /\ \A b \in Hosts \ {c} : host'[b] = host[b]
  BY <1>3, GoesTypes DEF Replace, HostTypes, Steps
<1>5. HostMail'
  BY <1>0, <1>3, <1>4, OtherHost
<1> QED BY <1>1, <1>2, <1>4, <1>5, TypeParts

LEMMA PublishTypes == ASSUME Types, NEW c \in Hosts, Publish(c) PROVE Types'
<1>0. UNCHANGED <<file, box, hydrated, dirty, missed, lost, state, turn, waking, known,
                  at, on, wakes, events, read>>
  BY DEF Publish, boxes, loops, deliveries
<1>1. FileTypes' /\ LoopTypes' /\ KnownType' /\ MailTypes'
  BY <1>0, Untouched
<1>2. host[c] # NoHost /\ host[c].task \in Instance \cup {None}
  BY TypeParts DEF Publish, NoHost, HostTypes
<1>3. PlaceTypes'
  BY <1>2, TypeParts DEF Publish, PlaceTypes
<1>4. HostTypes' /\ host'[c] # NoHost /\ \A b \in Hosts \ {c} : host'[b] = host[b]
  BY <1>2, GoesTypes DEF Publish, HostTypes, Steps
<1>5. HostMail'
  BY <1>0, <1>2, <1>4, OtherHost
<1> QED BY <1>1, <1>3, <1>4, <1>5, TypeParts

(* startFromHistory builds nothing and unbuilds nothing. *)
LEMMA StartedTypes ==
    ASSUME Types, NEW i, NEW s \in {"running", "asking"}, Started(i, s) \/ UNCHANGED state,
           UNCHANGED <<hydrated, dirty, waking>>, turn' \subseteq turn \cup hydrated
    PROVE  LoopTypes'
<1>1. LoopTypes
  BY TypeParts
<1>2. state' \in [Instance -> {"none"} \cup Live \cup Stopped] /\ Built \subseteq Built'
  <2>1. CASE UNCHANGED state
    BY <1>1, <2>1 DEF LoopTypes, Built
  <2>2. CASE Started(i, s)
    <3>1. state' = [state EXCEPT ![i] = IF state[i] = "dormant" THEN s ELSE state[i]]
      BY <2>2 DEF Started
    <3>2. state' \in [Instance -> {"none"} \cup Live \cup Stopped]
      BY <1>1, <3>1 DEF LoopTypes, Live
    <3>3. \A j \in Instance : state[j] # "none" => state'[j] # "none"
      BY <1>1, <3>1 DEF LoopTypes
    <3> QED BY <3>2, <3>3 DEF Built
  <2> QED BY <2>1, <2>2
<1>3. turn' \subseteq Built'
  BY <1>1, <1>2 DEF LoopTypes
<1> QED BY <1>1, <1>2, <1>3 DEF LoopTypes

LEMMA BootTypes == ASSUME Types, NEW c \in Hosts, Boot(c) PROVE Types'
<1>0. UNCHANGED <<file, box, hydrated, dirty, missed, lost, waking, stack, wakes, events, read>>
  BY DEF Boot, boxes
<1>1. FileTypes'
  BY <1>0, Untouched
<1>2. HostTypes' /\ host'[c] = NoHost /\ \A b \in Hosts \ {c} : host'[b] = host[b]
  BY OverTypes DEF Boot, HostTypes
<1>3. host[c].task \in Instance \cup {None} /\ host[c] # NoHost
  BY TypeParts DEF Boot, NoHost, HostTypes
<1>4. PlaceTypes /\ KnownType /\ LoopTypes /\ MailTypes /\ HostMail
  BY TypeParts
<1>5. CASE c \in Mail /\ BootDelivery(c)
  <2>1. turn' \subseteq turn \cup hydrated /\ Started(host[c].task, "running")
    BY <1>5 DEF BootDelivery
  <2>2. LoopTypes'
    BY <1>0, <2>1, StartedTypes
  <2>3. PlaceTypes' /\ KnownType'
    BY <1>0, <1>3, <1>4, <1>5 DEF BootDelivery, PlaceTypes, KnownType
  <2>4. MailTypes'
    BY <1>3, <1>4, <1>5 DEF BootDelivery, MailTypes
  <2>5. HostMail'
    BY <1>2, <1>4, <1>5 DEF BootDelivery, HostMail, MailTypes, Hosts
  <2> QED BY <1>1, <1>2, <2>2, <2>3, <2>4, <2>5, TypeParts
<1>6. CASE c \in {User, Stop} /\ BootUser(c)
  <2>1. UNCHANGED <<at, on, turn>> /\ (Started(host[c].task, "asking") \/ UNCHANGED state)
    BY <1>6 DEF BootUser
  <2>2. LoopTypes' /\ MailTypes'
    BY <1>0, <2>1, StartedTypes, Untouched
  <2>3. PlaceTypes' /\ KnownType'
    BY <1>0, <1>4, <1>6 DEF BootUser, PlaceTypes, KnownType
  <2>4. HostMail'
    BY <1>2, <1>6, <2>1, OtherHost, Distinct
  <2> QED BY <1>1, <1>2, <2>2, <2>3, <2>4, TypeParts
<1>7. CASE c = Api /\ BootApi
  <2>1. UNCHANGED <<at, on, turn, managed, known>> /\ Started(host[c].task, "running")
    BY <1>7 DEF BootApi
  <2>2. LoopTypes' /\ MailTypes' /\ PlaceTypes' /\ KnownType'
    BY <1>0, <2>1, StartedTypes, Untouched
  <2>3. HostMail'
    BY <1>2, <1>7, <2>1, OtherHost, Distinct
  <2> QED BY <1>1, <1>2, <2>2, <2>3, TypeParts
<1> QED BY <1>5, <1>6, <1>7 DEF Boot

LEMMA FailTypes == ASSUME Types, NEW c \in Hosts, Fail(c) PROVE Types'
<1>0. UNCHANGED <<file, box, hydrated, dirty, missed, lost, state, turn, waking, stack, managed, known,
                  on, wakes, read>>
  BY DEF Fail, boxes, loops, places
<1>1. LoopTypes' /\ PlaceTypes' /\ KnownType'
  BY <1>0, Untouched
<1>2. FileTypes'
  BY <1>0, EventTypes DEF Fail
<1>3. HostTypes' /\ host'[c] = NoHost /\ \A b \in Hosts \ {c} : host'[b] = host[b]
  BY OverTypes DEF Fail, HostTypes
<1>4. at' = [d \in Mail |-> IF d = c THEN "failed" ELSE at[d]]
  BY DEF Fail
<1>5. MailTypes'
  BY <1>0, <1>4, TypeParts DEF MailTypes
<1>6. HostMail'
  BY <1>3, <1>4, TypeParts DEF HostMail, MailTypes, Hosts
<1> QED BY <1>1, <1>2, <1>3, <1>5, <1>6, TypeParts

LEMMA HydrateTypes == ASSUME Types, NEW i \in Instance, Hydrate(i) PROVE Types'
<1>0. UNCHANGED <<dirty, state, turn, waking, stack, managed, known, at, on, wakes, host, read>>
  BY DEF Hydrate, loops, places, deliveries
<1>1. PlaceTypes' /\ KnownType' /\ MailTypes' /\ HostTypes' /\ HostMail'
  BY <1>0, Untouched
<1>2. FileTypes'
  BY <1>0, LoadTypes DEF Hydrate, Boxes
<1>3. LoopTypes'
  BY <1>0, TypeParts DEF Hydrate, LoopTypes, Built
<1> QED BY <1>1, <1>2, <1>3, TypeParts

LEMMA DrainTypes == ASSUME Types, NEW i \in Instance, Drain(i) PROVE Types'
<1>0. UNCHANGED <<file, hydrated, missed, lost, state, turn, waking, stack, managed, known, at, on,
                  wakes, host, events>>
  BY DEF Drain, loops, places, deliveries
<1>1. PlaceTypes' /\ KnownType' /\ MailTypes' /\ HostTypes' /\ HostMail'
  BY <1>0, Untouched
<1>2. FileTypes'
  BY <1>0, TypeParts DEF Drain, FileTypes, Boxes
<1>3. LoopTypes'
  BY <1>0, TypeParts DEF Drain, LoopTypes, Built
<1> QED BY <1>1, <1>2, <1>3, TypeParts

LEMMA FlushTypes == ASSUME Types, NEW i \in Instance, Flush(i) PROVE Types'
<1>0. UNCHANGED <<box, hydrated, state, turn, waking, stack, managed, known, at, on, wakes, host, read>>
  BY DEF Flush, loops, places, deliveries
<1>1. PlaceTypes' /\ KnownType' /\ MailTypes' /\ HostTypes' /\ HostMail'
  BY <1>0, Untouched
<1>2. FileTypes'
  <2>1. box[i] \in SUBSET Mail /\ box' \in [Boxes -> SUBSET Mail]
    BY <1>0, TypeParts DEF FileTypes, Boxes
  <2> QED BY <1>0, <2>1, PersistTypes DEF Flush, Boxes
<1>3. LoopTypes'
  BY <1>0, TypeParts DEF Flush, LoopTypes, Built
<1> QED BY <1>1, <1>2, <1>3, TypeParts

(* What only changes the state of a loop. *)
LEMMA LoopStepTypes ==
    ASSUME Types, NEW i \in Instance,
           End(i) \/ Resume(i) \/ Wake(i) \/ (CancelBackground /\ i = managed) \/ (Clear /\ i = stack)
    PROVE  Types'
<1>0. UNCHANGED <<file, box, hydrated, dirty, missed, lost, managed, known, at, on, wakes, host, read>>
  BY DEF End, Resume, Wake, CancelBackground, Clear, boxes, places, deliveries
<1>1. KnownType' /\ MailTypes' /\ HostTypes' /\ HostMail'
  BY <1>0, Untouched
<1>2. FileTypes'
  <2>1. UNCHANGED events \/ Event
    BY DEF End, Resume, Wake, CancelBackground, Clear
  <2> QED BY <1>0, <2>1, EventTypes, Untouched
<1>3. PlaceTypes'
  <2>1. stack' \in {stack, None}
    BY DEF End, Resume, Wake, CancelBackground, Clear, places
  <2> QED BY <1>0, <2>1, TypeParts DEF PlaceTypes
<1>4. LoopTypes'
  <2>1. PICK s \in Live \cup Stopped : state' = [state EXCEPT ![i] = s]
    <3>1. CASE End(i)
      BY <3>1 DEF End, Become, Live, Stopped
    <3>2. CASE Resume(i)
      BY <3>2 DEF Resume, Become, Live
    <3>3. CASE Wake(i)
      BY <3>3 DEF Wake, Become, Live, Stopped
    <3>4. CASE CancelBackground /\ i = managed
      BY <3>4 DEF CancelBackground, Become, Stopped
    <3>5. CASE Clear /\ i = stack
      BY <3>5 DEF Clear, Become, Stopped
    <3> QED BY <3>1, <3>2, <3>3, <3>4, <3>5
  <2>2. turn' \subseteq turn
    BY DEF End, Resume, Wake, CancelBackground, Clear
  <2>3. waking' \subseteq waking
    BY DEF End, Resume, Wake, CancelBackground, Clear
  <2> QED BY <1>0, <2>1, <2>2, <2>3, BecomeTypes
<1> QED BY <1>1, <1>2, <1>3, <1>4, TypeParts

LEMMA LeaveTypes == ASSUME Types, Leave \/ FocusOther PROVE Types'
<1>0. UNCHANGED <<file, box, hydrated, dirty, missed, lost, state, turn, waking, at, on, wakes, host, read>>
  BY DEF Leave, FocusOther, boxes, loops, deliveries
<1>1. LoopTypes' /\ MailTypes' /\ HostTypes' /\ HostMail'
  BY <1>0, Untouched
<1>2. FileTypes'
  BY <1>0, EventTypes DEF Leave, FocusOther
<1>3. PlaceTypes' /\ KnownType'
  BY TypeParts DEF Leave, FocusOther, PlaceTypes, KnownType
<1> QED BY <1>1, <1>2, <1>3, TypeParts

LEMMA RestartTypes == ASSUME Types, Restart PROVE Types'
<1>1. FileTypes'
  <2>1. FileTypes /\ UNCHANGED <<wakes, read>> /\ box' \in [Boxes -> SUBSET Mail] /\ missed' \in [Boxes -> SUBSET Mail]
    BY TypeParts DEF Restart, FileTypes
  <2>2. events' \in 0 .. MaxEvent
    BY <2>1, DormantAssumption DEF FileTypes, Restart, Event
  <2>3. UNCHANGED <<file, lost>> \/ (file' = {} /\ lost' = lost \cup file)
    BY DEF Restart
  <2> QED BY <2>1, <2>2, <2>3 DEF FileTypes
<1>2. LoopTypes'
  BY DEF Restart, LoopTypes, Built
<1>3. PlaceTypes' /\ KnownType'
  BY TypeParts DEF Restart, PlaceTypes, KnownType
<1>4. MailTypes'
  BY TypeParts DEF Restart, MailTypes, InFlight
<1>5. HostTypes'
  <2>1. NoHost \in [step : Steps, inPlace : BOOLEAN, task : Instance \cup {None}]
    BY DEF NoHost, Steps
  <2> QED BY <2>1 DEF Restart, HostTypes
<1>6. HostMail'
  BY TypeParts DEF Restart, HostMail, MailTypes, InFlight, Hosts
<1> QED BY <1>1, <1>2, <1>3, <1>4, <1>5, <1>6, TypeParts

(* The steps of Next by the part of the system that takes them. *)
LEMMA Cases ==
    ASSUME Next
    PROVE  \/ \E d \in Mail : Send(d) \/ Store(d) \/ Saved(d) \/ Refused(d) \/ LoadFile(d) \/ WriteFile(d)
           \/ Open \/ Cancel \/ FollowUp
           \/ \E c \in Hosts : Start(c) \/ Build(c) \/ Replace(c) \/ Publish(c) \/ Boot(c) \/ Fail(c)
           \/ \E i \in Instance : Hydrate(i) \/ Drain(i) \/ Flush(i)
           \/ \E i \in Instance : End(i) \/ Resume(i) \/ Wake(i)
           \/ CancelBackground \/ Leave \/ FocusOther \/ Clear \/ Restart
BY DEF Next

LEMMA InitTypes == Init => Types
<1> SUFFICES ASSUME Init PROVE Types
  OBVIOUS
<1>1. NoHost \in [step : Steps, inPlace : BOOLEAN, task : Instance \cup {None}]
  BY DEF NoHost, Steps
<1>2. FileTypes /\ LoopTypes /\ PlaceTypes
  BY DormantAssumption DEF Init, FileTypes, LoopTypes, PlaceTypes, Built
<1>3. KnownType
  BY DEF Init, KnownType
<1>4. MailTypes
  BY DEF Init, MailTypes
<1>5. HostTypes /\ HostMail
  BY <1>1 DEF Init, HostTypes, HostMail, Hosts
<1> QED BY <1>2, <1>3, <1>4, <1>5, TypeParts

LEMMA StepTypes == Types /\ [Next]_vars => Types'
<1> SUFFICES ASSUME Types, [Next]_vars PROVE Types'
  OBVIOUS
<1>1. CASE UNCHANGED vars
  <2>1. UNCHANGED <<file, box, hydrated, dirty, missed, lost, state, turn, waking, stack, managed, known,
                    at, on, wakes, host, events, read>>
    BY <1>1 DEF vars, boxes, loops, places, deliveries
  <2> QED BY <2>1, Untouched, TypeParts
<1>2. CASE Next
  <2>1. CASE \E d \in Mail : Send(d) \/ Store(d) \/ Saved(d) \/ Refused(d) \/ LoadFile(d) \/ WriteFile(d)
    BY <2>1, SendTypes, StoreTypes, SavedTypes, RefusedTypes, LoadFileTypes, WriteFileTypes
  <2>2. CASE Open \/ Cancel \/ FollowUp
    BY <2>2, OpenTypes, CancelTypes, FollowUpTypes
  <2>3. CASE \E c \in Hosts : Start(c) \/ Build(c) \/ Replace(c) \/ Publish(c) \/ Boot(c) \/ Fail(c)
    BY <2>3, StartTypes, BuildTypes, ReplaceTypes, PublishTypes, BootTypes, FailTypes
  <2>4. CASE \E i \in Instance : Hydrate(i) \/ Drain(i) \/ Flush(i)
    BY <2>4, HydrateTypes, DrainTypes, FlushTypes
  <2>5. CASE \E i \in Instance : End(i) \/ Resume(i) \/ Wake(i)
    BY <2>5, LoopStepTypes
  <2>6. CASE CancelBackground
    <3>1. managed \in Instance
      BY <2>6, TypeParts DEF CancelBackground, PlaceTypes
    <3> QED BY <2>6, <3>1, LoopStepTypes
  <2>7. CASE Clear
    <3>1. stack \in Instance
      BY <2>7, TypeParts DEF Clear, PlaceTypes
    <3> QED BY <2>7, <3>1, LoopStepTypes
  <2>8. CASE Leave \/ FocusOther
    BY <2>8, LeaveTypes
  <2>9. CASE Restart
    BY <2>9, RestartTypes
  <2> QED BY <1>2, <2>1, <2>2, <2>3, <2>4, <2>5, <2>6, <2>7, <2>8, <2>9, Cases
<1> QED BY <1>1, <1>2

(* Every variable has its type: boxes hold mail, whatever has read, may write, *)
(* has a turn or is restarted was built, the map and the stack name instances, *)
(* and a delivery rehydrates exactly while it is a requester.                  *)
THEOREM DeliveryTypeCorrect == Spec => []TypeOK
<1>1. Types => TypeOK
  BY DEF Types
<1> QED BY <1>1, InitTypes, StepTypes, PTL DEF Spec
-----------------------------------------------------------------------------
(* Mail. *)

(* A box that is read knows of the whole file, and the other boxes of what *)
(* they knew.                                                              *)
LEMMA LoadKnows ==
    ASSUME Types, NEW b \in Boxes, Load(b)
    PROVE  /\ UNCHANGED <<file, lost>> /\ file \subseteq box'[b] \cup missed'[b]
           /\ \A c \in Boxes \ {b} : box'[c] = box[c] /\ missed'[c] = missed[c]
<1>1. FileTypes
  BY TypeParts
<1>2. UNCHANGED <<file, lost>>
  BY DEF Load
<1>3. CASE box' = [box EXCEPT ![b] = file] /\ missed' = [missed EXCEPT ![b] = {}]
  BY <1>1, <1>2, <1>3 DEF FileTypes
<1>4. CASE box' = [box EXCEPT ![b] = {}] /\ missed' = [missed EXCEPT ![b] = file]
  BY <1>1, <1>2, <1>4 DEF FileTypes
<1> QED BY <1>2, <1>3, <1>4 DEF Load

(* A box that knows of the whole file writes over it: what was kept is kept, *)
(* what it writes is kept, and every other box knows of what it put there.   *)
LEMMA PersistKeeps ==
    ASSUME Types, NEW b \in Boxes, NEW contents \in SUBSET Mail, Persist(b, contents),
           file \subseteq box[b] \cup read \cup missed[b], box[b] \subseteq contents
    PROVE  /\ file \cup read \cup lost \subseteq file' \cup read \cup lost'
           /\ contents \subseteq file' \cup lost'
           /\ file' \subseteq contents \cup read \cup missed'[b]
           /\ \A c \in Boxes \ {b} :
                file \subseteq box[c] \cup read \cup missed[c] => file' \subseteq box[c] \cup read \cup missed'[c]
<1>1. FileTypes
  BY TypeParts
<1>2. CASE /\ file' = contents
           /\ missed' = [c \in Boxes |-> IF c = b THEN missed[c] ELSE missed[c] \cup (contents \ file)]
           /\ lost' = (lost \cup (file \cap missed[b])) \ contents
  <2>1. \A c \in Boxes \ {b} : missed'[c] = missed[c] \cup (contents \ file)
    BY <1>2
  <2>2. \A c \in Boxes \ {b} :
          file \subseteq box[c] \cup read \cup missed[c] => file' \subseteq box[c] \cup read \cup missed'[c]
    BY <1>2, <2>1
  <2> QED BY <1>2, <2>2
<1>3. CASE lost' = lost \cup (contents \ file) /\ UNCHANGED <<file, missed>>
  BY <1>3
<1> QED BY <1>2, <1>3 DEF Persist

(* What a step does not touch. *)
LEMMA SameMail ==
    ASSUME DInv, UNCHANGED <<file, box, missed, lost, hydrated, dirty, at, on, read>>
    PROVE  BoxesKnow' /\ SavingHeld' /\ StoredKept'
BY DEF DInv, BoxesKnow, SavingHeld, StoredKept, Stored, Acked, Read

(* A delivery that is neither stored nor at its box. *)
LEMMA OtherStage ==
    ASSUME DInv, UNCHANGED <<file, box, missed, lost, hydrated, dirty, read>>,
           NEW d \in Mail, \A e \in Mail \ {d} : at'[e] = at[e] /\ on'[e] = on[e],
           at'[d] \notin {"saving", "writing"},
           at'[d] \in {"acked", "rehydrating"} => d \in Stored
    PROVE  BoxesKnow' /\ SavingHeld' /\ StoredKept'
<1>1. BoxesKnow'
  <2>1. \A b \in Boxes : Read(b)' => Read(b)
    BY Distinct DEF Read, Types, TypeOK
  <2> QED BY <2>1 DEF DInv, BoxesKnow
<1>2. SavingHeld'
  BY DEF DInv, SavingHeld
<1>3. StoredKept'
  <2>1. Stored' \subseteq Stored
    BY DEF Stored, Acked
  <2> QED BY <2>1 DEF DInv, StoredKept
<1> QED BY <1>1, <1>2, <1>3

LEMMA SendKeeps == ASSUME DInv, NEW d \in Mail, Send(d) PROVE BoxesKnow' /\ SavingHeld' /\ StoredKept'
<1>1. UNCHANGED <<file, box, missed, lost, hydrated, dirty, read>>
  BY DEF Send, boxes
<1>2. at'[d] \in {"storing", "loading"} /\ \A e \in Mail \ {d} : at'[e] = at[e] /\ on'[e] = on[e]
  BY TypeParts DEF Send, DInv, MailTypes
<1> QED BY <1>1, <1>2, OtherStage

LEMMA StoreKeeps == ASSUME DInv, NEW d \in Mail, Store(d) PROVE BoxesKnow' /\ SavingHeld' /\ StoredKept'
<1>0. /\ UNCHANGED <<file, missed, lost, hydrated, on, read>> /\ on[d] \in hydrated
      /\ box' = [box EXCEPT ![on[d]] = box[on[d]] \cup {d}] /\ dirty' = dirty \cup {on[d]}
      /\ at' = [at EXCEPT ![d] = "saving"] /\ at[d] = "storing"
  BY DEF Store
<1>1. FileTypes /\ LoopTypes /\ MailTypes /\ on[d] \in Boxes
  BY <1>0, TypeParts DEF DInv, LoopTypes, Built, Boxes
<1>2. \A b \in Boxes : box[b] \subseteq box'[b]
  BY <1>0, <1>1 DEF FileTypes
<1>3. BoxesKnow'
  <2>1. \A b \in Boxes : Read(b)' => Read(b)
    BY <1>0, <1>1 DEF Read, MailTypes
  <2> QED BY <1>0, <1>2, <2>1 DEF DInv, BoxesKnow
<1>4. SavingHeld'
  <2> SUFFICES ASSUME NEW e \in Mail, at'[e] = "saving"
               PROVE  on'[e] \in hydrated' /\ e \in box'[on'[e]] \cup read'
    BY DEF SavingHeld
  <2>1. CASE e = d
    BY <1>0, <1>1, <2>1 DEF FileTypes
  <2>2. CASE e # d
    <3>1. at[e] = "saving"
      BY <1>0, <1>1, <2>2 DEF MailTypes
    <3>2. on[e] \in hydrated /\ e \in box[on[e]] \cup read
      BY <3>1 DEF DInv, SavingHeld
    <3>3. on[e] \in Boxes
      BY <1>1, <3>2 DEF LoopTypes, Built, Boxes
    <3> QED BY <1>0, <1>2, <3>2, <3>3
  <2> QED BY <2>1, <2>2
<1>5. StoredKept'
  <2>1. Stored' \subseteq Stored
    BY <1>0, <1>1 DEF Stored, Acked, MailTypes
  <2> QED BY <1>0, <2>1 DEF DInv, StoredKept
<1> QED BY <1>3, <1>4, <1>5

LEMMA SavedKeeps == ASSUME DInv, NEW d \in Mail, Saved(d) PROVE BoxesKnow' /\ SavingHeld' /\ StoredKept'
<1>1. UNCHANGED <<file, box, missed, lost, hydrated, dirty, on, read>>
  BY DEF Saved, boxes
<1>2. at'[d] = "acked" /\ \A e \in Mail \ {d} : at'[e] = at[e]
  BY TypeParts DEF Saved, DInv, MailTypes
<1>3. d \in Stored
  BY DEF Saved, Stored
<1> QED BY <1>1, <1>2, <1>3, OtherStage

LEMMA RefusedKeeps == ASSUME DInv, NEW d \in Mail, Refused(d) PROVE BoxesKnow' /\ SavingHeld' /\ StoredKept'
<1>1. UNCHANGED <<file, box, missed, lost, hydrated, dirty, on, read>>
  BY DEF Refused, boxes
<1>2. at'[d] = "refused" /\ \A e \in Mail \ {d} : at'[e] = at[e]
  BY TypeParts DEF Refused, DInv, MailTypes
<1> QED BY <1>1, <1>2, OtherStage

LEMMA LoadFileKeeps ==
    ASSUME DInv, NEW d \in Mail, LoadFile(d) PROVE BoxesKnow' /\ SavingHeld' /\ StoredKept'
<1>0. UNCHANGED <<hydrated, dirty, on, read>> /\ at' = [at EXCEPT ![d] = "writing"] /\ at[d] = "loading"
  BY DEF LoadFile
<1>1. /\ UNCHANGED <<file, lost>> /\ file \subseteq box'[d] \cup missed'[d]
      /\ \A c \in Boxes \ {d} : box'[c] = box[c] /\ missed'[c] = missed[c]
  BY LoadKnows DEF LoadFile, DInv, Boxes
<1>2. MailTypes /\ LoopTypes
  BY TypeParts DEF DInv
<1>3. BoxesKnow'
  <2>1. \A b \in Boxes \ {d} : Read(b)' => Read(b)
    BY <1>0, <1>2 DEF Read, MailTypes
  <2>2. \A b \in Boxes \ {d} : Read(b)' => file' \subseteq box'[b] \cup read' \cup missed'[b]
    BY <1>0, <1>1, <2>1 DEF DInv, BoxesKnow
  <2> QED BY <1>1, <2>2 DEF BoxesKnow
<1>4. SavingHeld'
  <2> SUFFICES ASSUME NEW e \in Mail, at'[e] = "saving"
               PROVE  on'[e] \in hydrated' /\ e \in box'[on'[e]] \cup read'
    BY DEF SavingHeld
  <2>1. at[e] = "saving" /\ on[e] \in hydrated /\ e \in box[on[e]] \cup read
    BY <1>0, <1>2 DEF DInv, SavingHeld, MailTypes
  <2>2. on[e] \in Boxes \ {d}
    BY <1>2, <2>1, Distinct DEF LoopTypes, Built, Boxes
  <2> QED BY <1>0, <1>1, <2>1, <2>2
<1>5. StoredKept'
  <2>1. Stored' \subseteq Stored
    BY <1>0, <1>2 DEF Stored, Acked, MailTypes
  <2> QED BY <1>0, <1>1, <2>1 DEF DInv, StoredKept
<1> QED BY <1>3, <1>4, <1>5

LEMMA WriteFileKeeps ==
    ASSUME DInv, NEW d \in Mail, WriteFile(d) PROVE BoxesKnow' /\ SavingHeld' /\ StoredKept'
<1>0. /\ UNCHANGED <<hydrated, dirty, on, read>> /\ at[d] = "writing"
      /\ box' = [box EXCEPT ![d] = {}] /\ Persist(d, box[d] \cup {d})
  BY DEF WriteFile
<1>1. FileTypes /\ MailTypes /\ LoopTypes /\ d \in Boxes
  BY TypeParts DEF DInv, Boxes
<1>2. at'[d] \in {"rehydrating", "acked"} /\ \A e \in Mail \ {d} : at'[e] = at[e]
  BY <1>1 DEF WriteFile, MailTypes
<1>3. file \subseteq box[d] \cup read \cup missed[d]
  BY <1>0, <1>1 DEF DInv, BoxesKnow, Read
<1>4. box[d] \cup {d} \in SUBSET Mail
  BY <1>1 DEF FileTypes
<1>5. /\ file \cup read \cup lost \subseteq file' \cup read \cup lost'
      /\ d \in file' \cup lost'
      /\ \A c \in Boxes \ {d} :
           file \subseteq box[c] \cup read \cup missed[c] => file' \subseteq box[c] \cup read \cup missed'[c]
  BY <1>0, <1>1, <1>3, <1>4, PersistKeeps DEF DInv
<1>6. \A c \in Boxes \ {d} : box'[c] = box[c]
  BY <1>0, <1>1 DEF FileTypes
<1>7. BoxesKnow'
  <2>1. ~Read(d)'
    BY <1>0, <1>1, <1>2, Distinct DEF Read, LoopTypes, Built
  <2>2. \A b \in Boxes \ {d} : Read(b)' => Read(b)
    BY <1>0, <1>2 DEF Read
  <2>3. \A b \in Boxes \ {d} : Read(b)' => file' \subseteq box'[b] \cup read' \cup missed'[b]
    BY <1>0, <1>5, <1>6, <2>2 DEF DInv, BoxesKnow
  <2> QED BY <2>1, <2>3 DEF BoxesKnow
<1>8. SavingHeld'
  <2> SUFFICES ASSUME NEW e \in Mail, at'[e] = "saving"
               PROVE  on'[e] \in hydrated' /\ e \in box'[on'[e]] \cup read'
    BY DEF SavingHeld
  <2>1. at[e] = "saving" /\ on[e] \in hydrated /\ e \in box[on[e]] \cup read
    BY <1>2 DEF DInv, SavingHeld
  <2>2. on[e] \in Boxes \ {d}
    BY <1>1, <2>1, Distinct DEF LoopTypes, Built, Boxes
  <2> QED BY <1>0, <1>6, <2>1, <2>2
<1>9. StoredKept'
  <2>1. Stored' \subseteq Stored \cup {d}
    BY <1>0, <1>2 DEF Stored, Acked
  <2> QED BY <1>0, <1>5, <2>1 DEF DInv, StoredKept
<1> QED BY <1>7, <1>8, <1>9

LEMMA BootKeeps == ASSUME DInv, NEW c \in Hosts, Boot(c) PROVE BoxesKnow' /\ SavingHeld' /\ StoredKept'
<1>1. UNCHANGED <<file, box, missed, lost, hydrated, dirty, read>>
  BY DEF Boot, boxes
<1>2. CASE c \in Mail /\ BootDelivery(c)
  <2>1. at'[c] = "acked" /\ \A e \in Mail \ {c} : at'[e] = at[e] /\ on'[e] = on[e]
    BY <1>2, TypeParts DEF BootDelivery, DInv, MailTypes
  <2>2. c \in Stored
    BY <1>2, TypeParts DEF Boot, DInv, HostMail, NoHost, Stored, Acked
  <2> QED BY <1>1, <1>2, <2>1, <2>2, OtherStage
<1>3. CASE UNCHANGED <<at, on>>
  BY <1>1, <1>3, SameMail
<1> QED BY <1>2, <1>3 DEF Boot, BootUser, BootApi

LEMMA FailKeeps == ASSUME DInv, NEW c \in Hosts, Fail(c) PROVE BoxesKnow' /\ SavingHeld' /\ StoredKept'
<1>1. UNCHANGED <<file, box, missed, lost, hydrated, dirty, on, read>>
  BY DEF Fail, boxes
<1>2. at' = [d \in Mail |-> IF d = c THEN "failed" ELSE at[d]]
  BY DEF Fail
<1>3. CASE c \in Mail
  <2>1. at'[c] = "failed" /\ \A e \in Mail \ {c} : at'[e] = at[e]
    BY <1>2, <1>3
  <2> QED BY <1>1, <1>3, <2>1, OtherStage
<1>4. CASE c \notin Mail
  <2>1. at' = at
    BY <1>2, <1>4, TypeParts DEF DInv, MailTypes
  <2> QED BY <1>1, <2>1, SameMail
<1> QED BY <1>3, <1>4

LEMMA HydrateKeeps ==
    ASSUME DInv, NEW i \in Instance, Hydrate(i) PROVE BoxesKnow' /\ SavingHeld' /\ StoredKept'
<1>0. UNCHANGED <<dirty, at, on, read>> /\ hydrated' = hydrated \cup {i} /\ i \notin hydrated
  BY DEF Hydrate, deliveries
<1>1. /\ UNCHANGED <<file, lost>> /\ file \subseteq box'[i] \cup missed'[i]
      /\ \A c \in Boxes \ {i} : box'[c] = box[c] /\ missed'[c] = missed[c]
  BY LoadKnows DEF Hydrate, DInv, Boxes
<1>2. BoxesKnow'
  <2>1. \A b \in Boxes \ {i} : Read(b)' => Read(b)
    BY <1>0 DEF Read
  <2>2. \A b \in Boxes \ {i} : Read(b)' => file' \subseteq box'[b] \cup read' \cup missed'[b]
    BY <1>0, <1>1, <2>1 DEF DInv, BoxesKnow
  <2> QED BY <1>1, <2>2 DEF BoxesKnow
<1>3. SavingHeld'
  <2> SUFFICES ASSUME NEW e \in Mail, at[e] = "saving"
               PROVE  on[e] \in hydrated' /\ e \in box'[on[e]] \cup read
    BY <1>0 DEF SavingHeld
  <2>1. on[e] \in hydrated /\ e \in box[on[e]] \cup read
    BY DEF DInv, SavingHeld
  <2>2. on[e] \in Boxes \ {i}
    BY <1>0, <2>1, TypeParts DEF DInv, LoopTypes, Built, Boxes
  <2> QED BY <1>0, <1>1, <2>1, <2>2
<1>4. StoredKept'
  BY <1>0, <1>1 DEF DInv, StoredKept, Stored, Acked
<1> QED BY <1>2, <1>3, <1>4

LEMMA DrainKeeps ==
    ASSUME DInv, NEW i \in Instance, Drain(i) PROVE BoxesKnow' /\ SavingHeld' /\ StoredKept'
<1>0. /\ UNCHANGED <<file, missed, lost, hydrated, at, on>> /\ dirty' = dirty \cup {i}
      /\ box' = [box EXCEPT ![i] = {}] /\ read' = read \cup box[i]
  BY DEF Drain, deliveries
<1>1. \A b \in Boxes : box[b] \cup read \subseteq box'[b] \cup read'
  BY <1>0, TypeParts DEF DInv, FileTypes, Boxes
<1>2. BoxesKnow'
  <2>1. \A b \in Boxes : Read(b)' => Read(b)
    BY <1>0 DEF Read
  <2> QED BY <1>0, <1>1, <2>1 DEF DInv, BoxesKnow
<1>3. SavingHeld'
  <2> SUFFICES ASSUME NEW e \in Mail, at[e] = "saving"
               PROVE  on[e] \in hydrated /\ e \in box'[on[e]] \cup read'
    BY <1>0 DEF SavingHeld
  <2>1. on[e] \in hydrated /\ e \in box[on[e]] \cup read
    BY DEF DInv, SavingHeld
  <2>2. on[e] \in Boxes
    BY <2>1, TypeParts DEF DInv, LoopTypes, Built, Boxes
  <2> QED BY <1>1, <2>1, <2>2
<1>4. StoredKept'
  <2>1. Stored' \subseteq Stored
    BY <1>0 DEF Stored, Acked
  <2> QED BY <1>0, <2>1 DEF DInv, StoredKept
<1> QED BY <1>2, <1>3, <1>4

LEMMA FlushKeeps ==
    ASSUME DInv, NEW i \in Instance, Flush(i) PROVE BoxesKnow' /\ SavingHeld' /\ StoredKept'
<1>0. UNCHANGED <<box, hydrated, at, on, read>> /\ dirty' = dirty \ {i} /\ Persist(i, box[i]) /\ i \in dirty
  BY DEF Flush, deliveries
<1>1. FileTypes /\ i \in Boxes /\ box[i] \in SUBSET Mail
  BY TypeParts DEF DInv, FileTypes, Boxes
<1>2. file \subseteq box[i] \cup read \cup missed[i]
  BY <1>0, <1>1 DEF DInv, DirtyRead, BoxesKnow, Read
<1>3. /\ file \cup read \cup lost \subseteq file' \cup read \cup lost'
      /\ box[i] \subseteq file' \cup lost'
      /\ file' \subseteq box[i] \cup read \cup missed'[i]
      /\ \A c \in Boxes \ {i} :
           file \subseteq box[c] \cup read \cup missed[c] => file' \subseteq box[c] \cup read \cup missed'[c]
  BY <1>0, <1>1, <1>2, PersistKeeps DEF DInv
<1>4. BoxesKnow'
  BY <1>0, <1>3 DEF DInv, BoxesKnow, Read
<1>5. SavingHeld'
  BY <1>0 DEF DInv, SavingHeld
<1>6. StoredKept'
  <2> SUFFICES ASSUME NEW d \in Stored' PROVE d \in file' \cup read \cup lost'
    BY <1>0 DEF StoredKept
  <2>1. CASE d \in Stored
    BY <1>3, <2>1 DEF DInv, StoredKept
  <2>2. CASE d \notin Stored
    <3>1. at[d] = "saving" /\ on[d] = i /\ d \in Mail
      BY <1>0, <2>2 DEF Stored, Acked
    <3>2. d \in box[i] \cup read
      BY <3>1 DEF DInv, SavingHeld
    <3> QED BY <1>3, <3>2
  <2> QED BY <2>1, <2>2
<1> QED BY <1>4, <1>5, <1>6

LEMMA RestartKeeps == ASSUME DInv, Restart PROVE BoxesKnow' /\ SavingHeld' /\ StoredKept'
<1>1. /\ hydrated' = {} /\ at' = [d \in Mail |-> IF d \in InFlight THEN "failed" ELSE at[d]]
      /\ UNCHANGED read /\ file \cup lost \subseteq file' \cup lost'
  BY DEF Restart
<1>2. \A d \in Mail : at'[d] \notin {"saving", "writing", "rehydrating"}
  BY <1>1 DEF InFlight
<1>3. \A d \in Mail : at'[d] = "acked" => at[d] = "acked"
  BY <1>1
<1>4. BoxesKnow' /\ SavingHeld'
  BY <1>1, <1>2 DEF BoxesKnow, SavingHeld, Read
<1>5. StoredKept'
  <2>1. Stored' \subseteq Stored
    BY <1>2, <1>3 DEF Stored, Acked
  <2> QED BY <1>1, <2>1 DEF DInv, StoredKept
<1> QED BY <1>4, <1>5

(* The steps of a rehydration, its user and the loops leave the mail alone. *)
LEMMA OthersKeep ==
    ASSUME DInv,
           \/ Open \/ Cancel \/ FollowUp \/ CancelBackground \/ Leave \/ FocusOther \/ Clear
           \/ \E c \in Hosts : Start(c) \/ Build(c) \/ Replace(c) \/ Publish(c)
           \/ \E i \in Instance : End(i) \/ Resume(i) \/ Wake(i)
    PROVE  UNCHANGED <<file, box, missed, lost, hydrated, dirty, at, on, read>>
BY DEF Open, Cancel, FollowUp, CancelBackground, Leave, FocusOther, Clear, Start, Build, Replace,
       Publish, End, Resume, Wake, boxes, deliveries

LEMMA DirtyStep == DInv /\ [Next]_vars => DirtyRead'
<1> SUFFICES ASSUME DInv, [Next]_vars PROVE DirtyRead'
  OBVIOUS
<1>1. dirty \subseteq hydrated
  BY DEF DInv, DirtyRead
<1>2. CASE UNCHANGED <<hydrated, dirty>>
  BY <1>1, <1>2 DEF DirtyRead
<1>3. CASE \E d \in Mail : Store(d)
  BY <1>1, <1>3 DEF Store, DirtyRead
<1>4. CASE \E i \in Instance : Hydrate(i)
  BY <1>1, <1>4 DEF Hydrate, DirtyRead
<1>5. CASE \E i \in Instance : Drain(i)
  BY <1>1, <1>5 DEF Drain, DirtyRead
<1>6. CASE \E i \in Instance : Flush(i)
  BY <1>1, <1>6 DEF Flush, DirtyRead
<1>7. CASE Restart
  BY <1>7 DEF Restart, DirtyRead
<1>8. CASE UNCHANGED vars
  BY <1>2, <1>8 DEF vars, boxes
<1>9. CASE \E d \in Mail : Send(d) \/ Saved(d) \/ Refused(d) \/ LoadFile(d) \/ WriteFile(d)
  BY <1>2, <1>9 DEF Send, Saved, Refused, LoadFile, WriteFile, boxes
<1>10. CASE \E c \in Hosts : Boot(c) \/ Fail(c)
  BY <1>2, <1>10 DEF Boot, Fail, boxes
<1>11. CASE \/ Open \/ Cancel \/ FollowUp \/ CancelBackground \/ Leave \/ FocusOther \/ Clear
            \/ \E c \in Hosts : Start(c) \/ Build(c) \/ Replace(c) \/ Publish(c)
            \/ \E i \in Instance : End(i) \/ Resume(i) \/ Wake(i)
  BY <1>2, <1>11, OthersKeep
<1> QED BY <1>3, <1>4, <1>5, <1>6, <1>7, <1>8, <1>9, <1>10, <1>11, Cases

LEMMA MailStep == DInv /\ [Next]_vars => BoxesKnow' /\ SavingHeld' /\ StoredKept'
<1> SUFFICES ASSUME DInv, [Next]_vars PROVE BoxesKnow' /\ SavingHeld' /\ StoredKept'
  OBVIOUS
<1>1. CASE UNCHANGED vars
  BY <1>1, SameMail DEF vars, boxes, deliveries
<1>2. CASE \E d \in Mail : Send(d) \/ Store(d) \/ Saved(d) \/ Refused(d) \/ LoadFile(d) \/ WriteFile(d)
  BY <1>2, SendKeeps, StoreKeeps, SavedKeeps, RefusedKeeps, LoadFileKeeps, WriteFileKeeps
<1>3. CASE \E c \in Hosts : Boot(c) \/ Fail(c)
  BY <1>3, BootKeeps, FailKeeps
<1>4. CASE \E i \in Instance : Hydrate(i) \/ Drain(i) \/ Flush(i)
  BY <1>4, HydrateKeeps, DrainKeeps, FlushKeeps
<1>5. CASE Restart
  BY <1>5, RestartKeeps
<1>6. CASE \/ Open \/ Cancel \/ FollowUp \/ CancelBackground \/ Leave \/ FocusOther \/ Clear
           \/ \E c \in Hosts : Start(c) \/ Build(c) \/ Replace(c) \/ Publish(c)
           \/ \E i \in Instance : End(i) \/ Resume(i) \/ Wake(i)
  BY <1>6, OthersKeep, SameMail
<1> QED BY <1>1, <1>2, <1>3, <1>4, <1>5, <1>6, Cases

LEMMA DeliveryInvariance == Spec => []DInv
<1>1. Init => DInv
  <2> SUFFICES ASSUME Init PROVE DInv
    OBVIOUS
  <2>1. Types
    BY InitTypes
  <2> QED BY <2>1 DEF Init, DInv, DirtyRead, BoxesKnow, SavingHeld, StoredKept, Stored, Acked, Read
<1>2. DInv /\ [Next]_vars => DInv'
  BY StepTypes, DirtyStep, MailStep DEF DInv
<1> QED BY <1>1, <1>2, PTL DEF Spec

(* "The message is durable before anything is started": whatever instances of *)
(* the task are built, replaced, cleared or restarted side by side, mail that  *)
(* was stored is in the file or was read, or one of the three losses took it:  *)
(* a box that could not know of it was written over it, its own write failed,  *)
(* or the host exited between two renames.                                     *)
THEOREM AckedMailIsKept == Spec => []AckMeansKept
<1>1. DInv => AckMeansKept
  BY DEF DInv, StoredKept, Stored, AckMeansKept
<1> QED BY DeliveryInvariance, <1>1, PTL

(* What an agent that is running or asking cannot see of the stored mail is   *)
(* lost, or was put into the file after its box was read, or its box could not *)
(* read the file.                                                              *)
THEOREM LiveTaskSeesItsMail == Spec => []LiveSeesMail
<1>1. DInv => LiveSeesMail
  <2> SUFFICES ASSUME DInv, NEW i \in hydrated PROVE Acked \subseteq box[i] \cup read \cup lost \cup missed[i]
    BY DEF LiveSeesMail
  <2>1. Acked \subseteq file \cup read \cup lost
    BY DEF DInv, StoredKept, Stored
  <2>2. i \in Boxes
    BY TypeParts DEF DInv, LoopTypes, Built, Boxes
  <2>3. file \subseteq box[i] \cup read \cup missed[i]
    BY <2>2 DEF DInv, BoxesKnow, Read
  <2> QED BY <2>1, <2>3
<1> QED BY DeliveryInvariance, <1>1, PTL
-----------------------------------------------------------------------------
(* Questions of a child. *)

(* A child that has put a question has a current one. *)
QuestionTypes ==
    /\ QuestionTypeOK
    /\ step # "working" => asked \in Question

Parked == {"deciding", "waiting", "closing"}

(* The record of the forwarded question and the timer are about the current  *)
(* question and last no longer than it.                                      *)
RecordIsCurrent ==
    /\ forwarded # Nothing => forwarded = asked /\ step \in Parked
    /\ timer # Nothing => timer = asked /\ step \in Parked

(* What the ask is about to read was said about the current question. *)
SlotIsCurrent == step \in {"deciding", "waiting"} /\ slot # Nothing => slot.to = asked

(* The handle says that the child waits only while it does, and only if it   *)
(* is the one that the tool holds, so that the end of the question resets it. *)
HandleIsCurrent ==
    /\ handle = "waiting_for_parent" => captured[asked] = instance /\ step # "working"
    /\ before # "waiting_for_parent"

(* A request is in a box no older than the instance that was captured, and  *)
(* the file is what some box was when it was written.                       *)
BoxesOrdered ==
    /\ parentLive => instance # 0
    /\ replier <= instance
    /\ \A q \in Question : captured[q] <= instance
    /\ requests[0] = {}
    /\ \A i \in Parent : \A q \in requests[i] : captured[q] <= i /\ i <= instance /\ q \in arrived
    /\ \E i \in Parent : parentFile = requests[i]

(* Requests are about questions that were put; one that is being discharged *)
(* was replied to.                                                          *)
RequestsAreAsked ==
    /\ \A q \in arrived : q <= asked
    /\ progress \in {"resolving", "unparking"} => replying \in replied

IsOver(q) == q < asked \/ (q = asked /\ step = "working")

(* The request of a question that is over is out of the box it was to be in. *)
BoxIsCleared ==
    \A q \in Question : IsOver(q) /\ captured[q] # 0 => q \notin requests[captured[q]]

(* The request of the current question is in the file, and in the box of the *)
(* parent if it is live.                                                     *)
RequestWaits ==
    asked \in arrived /\ step # "working" /\ asked \notin replied \cup buried =>
        asked \in parentFile /\ (parentLive => asked \in requests[instance])

QuestionInv ==
    /\ QuestionTypes
    /\ RecordIsCurrent /\ SlotIsCurrent /\ HandleIsCurrent
    /\ BoxesOrdered /\ RequestsAreAsked /\ BoxIsCleared /\ RequestWaits
    /\ AnswersMatch

LEMMA QuestionInitially == QuestionInit => QuestionInv
<1> SUFFICES ASSUME QuestionInit PROVE QuestionInv
  OBVIOUS
<1> USE QuestionAssumption
<1>1. QuestionTypes
  <2>1. /\ asked \in 0 .. MaxQuestion /\ step = "working"
        /\ forwarded \in Question \cup {Nothing} /\ timer \in Question \cup {Nothing}
        /\ slot \in Answers \cup {Nothing}
        /\ result \in [Question -> Answers \cup {Nothing}]
        /\ putBack \subseteq Answers
    BY DEF QuestionInit
  <2>2. abort \in BOOLEAN /\ parentLive \in BOOLEAN
    BY Zenon DEF QuestionInit
  <2>3. /\ captured \in [Question -> Parent] /\ instance \in Parent /\ replier \in Parent
        /\ {before, handle} \subseteq {"none", "running", "waiting_for_parent", "cancelled"}
    BY DEF QuestionInit, Parent
  <2>4. /\ requests \in [Parent -> SUBSET Question]
        /\ {parentFile, arrived, buried} \subseteq SUBSET Question
        /\ lapsed \subseteq Question /\ replied \subseteq Question
        /\ replying = Nothing /\ progress = "idle"
    BY DEF QuestionInit
  <2> QED BY <2>1, <2>2, <2>3, <2>4 DEF QuestionTypes, QuestionTypeOK
<1>2. RecordIsCurrent /\ SlotIsCurrent /\ HandleIsCurrent /\ RequestsAreAsked
  BY DEF QuestionInit, Parked, RecordIsCurrent, SlotIsCurrent, HandleIsCurrent, RequestsAreAsked
<1>3. BoxesOrdered
  <2>1. 0 \in Parent /\ \A i \in Parent : requests[i] = {}
    BY DEF QuestionInit, Parent
  <2>2. \A q \in Question : captured[q] = 0
    BY DEF QuestionInit
  <2>3. replier <= instance /\ (parentLive => instance # 0) /\ parentFile = {} /\ instance \in Nat
    BY DEF QuestionInit
  <2> QED BY <2>1, <2>2, <2>3 DEF BoxesOrdered
<1>4. BoxIsCleared /\ RequestWaits
  BY DEF QuestionInit, BoxIsCleared, RequestWaits
<1>5. AnswersMatch
  BY DEF QuestionInit, AnswersMatch
<1> QED BY <1>1, <1>2, <1>3, <1>4, <1>5 DEF QuestionInv

(* An answer of either kind is one. *)
LEMMA AnswerType ==
    ASSUME NEW by \in {"parent", "user", "timer"}, NEW q \in Question
    PROVE  Answer(by, q) \in Answers /\ Answer(by, q).to = q
BY DEF Answer, Answers

(* What an answer to the recorded question changes. *)
LEMMA AnswerForwardedKeeps ==
    ASSUME QuestionInv, NEW ans \in Answers, AnswerForwarded(ans)
    PROVE  /\ slot' \in Answers \cup {Nothing}
           /\ putBack' \subseteq Answers
           /\ step \in {"deciding", "waiting"} /\ slot' # Nothing => slot'.to = asked
<1>1. CASE forwarded # ans.to
  BY <1>1 DEF AnswerForwarded, QuestionInv, QuestionTypes, QuestionTypeOK, SlotIsCurrent
<1>2. CASE forwarded = ans.to
  <2>1. ans.to # Nothing
    BY QuestionAssumption DEF Answers, Question
  <2>2. ans.to = asked
    BY <1>2, <2>1 DEF QuestionInv, RecordIsCurrent
  <2>3. CASE step = "waiting" \/ abort
    BY <1>2, <2>2, <2>3 DEF AnswerForwarded, QuestionInv, QuestionTypes, QuestionTypeOK
  <2>4. CASE ~(step = "waiting" \/ abort)
    BY <1>2, <2>4 DEF AnswerForwarded, QuestionInv, QuestionTypes, QuestionTypeOK, SlotIsCurrent
  <2> QED BY <2>3, <2>4
<1> QED BY <1>1, <1>2

(* What resolveRequest changes: it takes the request from one box, and what  *)
(* the file loses beyond it is buried.                                       *)
LEMMA DischargeKeeps ==
    ASSUME QuestionInv, NEW i \in Parent, NEW q \in Question, Discharge(i, q)
    PROVE  /\ requests' \in [Parent -> SUBSET Question]
           /\ {parentFile', buried'} \subseteq SUBSET Question
           /\ \A j \in Parent : requests'[j] = IF j = i THEN requests[j] \ {q} ELSE requests[j]
           /\ \E j \in Parent : parentFile' = requests'[j]
           /\ buried \subseteq buried'
           /\ \A r \in parentFile : r \in parentFile' \cup buried' \/ r = q
<1> USE DEF QuestionInv, QuestionTypes, QuestionTypeOK
<1>1. CASE q \in requests[i]
  <2>1. /\ requests' = [requests EXCEPT ![i] = @ \ {q}]
        /\ parentFile' = requests[i] \ {q}
        /\ buried' = buried \cup (parentFile \ requests[i])
    BY <1>1 DEF Discharge
  <2>2. /\ requests' \in [Parent -> SUBSET Question]
        /\ \A j \in Parent : requests'[j] = IF j = i THEN requests[j] \ {q} ELSE requests[j]
    BY <2>1
  <2>3. parentFile' = requests'[i]
    BY <2>1, <2>2
  <2> QED BY <2>1, <2>2, <2>3
<1>2. CASE q \notin requests[i]
  BY <1>2 DEF Discharge, mailbox, BoxesOrdered
<1> QED BY <1>1, <1>2

(* The boxes and the current question after a discharge. *)
LEMMA AfterDischarge ==
    ASSUME QuestionInv, NEW i \in Parent, NEW q \in Question, Discharge(i, q),
           UNCHANGED <<asked, captured, instance, parentLive, arrived>>,
           step' = "working" \/ (step' = step /\ q \in replied),
           replied' = replied, replier' = replier,
           step' = step \/ (q = asked /\ i = captured[asked])
                        \/ (q = asked /\ captured[asked] = 0)
    PROVE  BoxesOrdered' /\ BoxIsCleared' /\ RequestWaits'
<1>0. /\ \A j \in Parent : requests'[j] = IF j = i THEN requests[j] \ {q} ELSE requests[j]
      /\ \E j \in Parent : parentFile' = requests'[j]
      /\ buried \subseteq buried'
      /\ \A r \in parentFile : r \in parentFile' \cup buried' \/ r = q
  BY DischargeKeeps
<1> USE QuestionAssumption DEF QuestionInv, QuestionTypes, QuestionTypeOK
<1>1. \A j \in Parent : requests'[j] \subseteq requests[j]
  BY <1>0
<1>2. BoxesOrdered'
  <2>1. 0 \in Parent
    BY DEF Parent
  <2>2. requests'[0] = {}
    BY <1>1, <2>1 DEF BoxesOrdered
  <2> QED BY <1>0, <1>1, <2>2 DEF BoxesOrdered
<1>3. BoxIsCleared'
  <2> SUFFICES ASSUME NEW r \in Question, IsOver(r)', captured[r] # 0
               PROVE  r \notin requests'[captured[r]]
    BY DEF BoxIsCleared
  <2>1. captured[r] \in Parent
    OBVIOUS
  <2>2. CASE IsOver(r)
    BY <1>1, <2>1, <2>2 DEF BoxIsCleared
  <2>3. CASE ~IsOver(r)
    <3>1. r = asked /\ step' # step
      BY <2>3 DEF IsOver
    <3> QED BY <1>0, <2>1, <3>1
  <2> QED BY <2>2, <2>3
<1>4. RequestWaits'
  <2> SUFFICES ASSUME asked \in arrived, step' # "working", asked \notin replied \cup buried'
               PROVE  asked \in parentFile' /\ (parentLive => asked \in requests'[instance])
    BY DEF RequestWaits
  <2>1. step' = step /\ q \in replied /\ q # asked
    OBVIOUS
  <2>2. asked \in parentFile /\ (parentLive => asked \in requests[instance])
    BY <1>0, <2>1 DEF RequestWaits
  <2> QED BY <1>0, <2>1, <2>2
<1> QED BY <1>2, <1>3, <1>4

(* A new instance of the parent: its box is the file, perhaps with the current *)
(* request, which no instance that a question captured has as its own.         *)
LEMMA AfterInstantiate ==
    ASSUME QuestionInv, NEW new \in SUBSET {asked}, Instantiate(parentFile \cup new),
           new # {} => step # "working",
           arrived' = arrived \cup new,
           UNCHANGED <<asked, step, captured, before, replier, replied, buried>>
    PROVE  /\ requests' \in [Parent -> SUBSET Question] /\ parentFile' \in SUBSET Question
           /\ instance' \in Parent /\ arrived' \in SUBSET Question
           /\ HandleIsCurrent' /\ BoxesOrdered' /\ BoxIsCleared' /\ RequestWaits'
<1> USE QuestionAssumption DEF QuestionInv, QuestionTypes, QuestionTypeOK
<1>0. new \subseteq Question
  OBVIOUS
<1>1. instance + 1 \in Parent /\ instance \in Nat /\ 0 \in Parent
  BY DEF Instantiate, Parent
<1>2. /\ requests' \in [Parent -> SUBSET Question] /\ parentFile' \in SUBSET Question
      /\ instance' \in Parent /\ arrived' \in SUBSET Question
  BY <1>0, <1>1 DEF Instantiate
<1>3. /\ requests'[instance + 1] = parentFile \cup new
      /\ \A j \in Parent : j # instance + 1 => requests'[j] = requests[j]
      /\ parentFile' = parentFile \cup new /\ instance' = instance + 1 /\ parentLive'
  BY <1>1 DEF Instantiate
<1>4. HandleIsCurrent'
  BY DEF Instantiate, HandleIsCurrent
<1>5. \A q \in Question : captured[q] \in Nat /\ captured[q] <= instance
  BY DEF Parent, BoxesOrdered
<1>6. parentFile \subseteq arrived
  BY DEF BoxesOrdered
<1>7. BoxesOrdered'
  <2>1. replier \in Nat /\ replier <= instance'
    BY <1>1, <1>3 DEF Parent, BoxesOrdered
  <2>2. \A q \in Question : captured[q] <= instance'
    BY <1>1, <1>3, <1>5
  <2>3. requests'[0] = {}
    BY <1>1, <1>3 DEF BoxesOrdered
  <2>4. ASSUME NEW j \in Parent, NEW q \in requests'[j]
        PROVE  captured[q] <= j /\ j <= instance' /\ q \in arrived'
    <3>0. j \in Nat
      BY DEF Parent
    <3>1. CASE j = instance + 1
      <4>1. q \in parentFile \cup new /\ q \in Question
        BY <1>0, <1>3, <2>4, <3>1
      <4>2. q \in arrived'
        BY <1>6, <4>1
      <4>3. captured[q] \in Nat /\ captured[q] <= instance
        BY <1>5, <4>1
      <4> QED BY <1>1, <1>3, <3>1, <4>2, <4>3
    <3>2. CASE j # instance + 1
      BY <1>1, <1>3, <3>0, <3>2 DEF BoxesOrdered
    <3> QED BY <3>1, <3>2
  <2>5. \E j \in Parent : parentFile' = requests'[j]
    BY <1>1, <1>3
  <2>6. instance' # 0
    BY <1>1, <1>3
  <2> QED BY <2>1, <2>2, <2>3, <2>4, <2>5, <2>6 DEF BoxesOrdered
<1>8. BoxIsCleared'
  BY <1>1, <1>3, <1>5 DEF BoxIsCleared, IsOver
<1>9. RequestWaits'
  BY <1>3 DEF RequestWaits
<1> QED BY <1>2, <1>4, <1>7, <1>8, <1>9

(* The child's own steps, but for the end of a question. *)
LEMMA ChildStep ==
    ASSUME QuestionInv, Ask \/ Forward \/ Park \/ Answered \/ Ignored \/ Abort \/ MarkCancelled \/ WakeChild
    PROVE  QuestionInv'
<1> USE QuestionAssumption DEF QuestionInv, Parked, child, parent, mailbox, reply
<1>1. CASE Ask
  <2>0. /\ asked \in Nat /\ asked + 1 \in Question /\ asked' = asked + 1 /\ instance \in Nat
        /\ 0 \in Parent
    BY <1>1 DEF Ask, QuestionTypes, QuestionTypeOK, Question, Parent
  <2>1. /\ captured' \in [Question -> Parent]
        /\ captured'[asked + 1] = IF parentLive THEN instance ELSE 0
        /\ \A q \in Question : q # asked + 1 => captured'[q] = captured[q]
    BY <1>1, <2>0 DEF Ask, QuestionTypes, QuestionTypeOK
  <2>2. QuestionTypes'
    <3>1. {before', handle'} \subseteq {"none", "running", "waiting_for_parent", "cancelled"}
      BY <1>1 DEF Ask, QuestionTypes, QuestionTypeOK
    <3>2. /\ asked' \in 0 .. MaxQuestion /\ step' = "delivering"
          /\ UNCHANGED <<forwarded, timer, slot, result, putBack, abort, parent, lapsed>>
      BY <1>1, <2>0 DEF Ask, Question
    <3> QED BY <2>0, <2>1, <3>1, <3>2 DEF QuestionTypes, QuestionTypeOK
  <2>3. RecordIsCurrent' /\ SlotIsCurrent'
    BY <1>1 DEF Ask, RecordIsCurrent, SlotIsCurrent
  <2>4. HandleIsCurrent'
    BY <1>1, <2>0, <2>1 DEF Ask, HandleIsCurrent
  <2>5. \A i \in Parent : asked + 1 \notin requests[i]
    BY <2>0 DEF BoxesOrdered, RequestsAreAsked
  <2>6. BoxesOrdered'
    <3>1. \A q \in Question : captured'[q] <= instance
      BY <2>0, <2>1 DEF BoxesOrdered
    <3>2. \A i \in Parent : \A q \in requests[i] : captured'[q] = captured[q]
      BY <2>0, <2>1, <2>5 DEF QuestionTypes, QuestionTypeOK
    <3> QED BY <1>1, <3>1, <3>2 DEF Ask, BoxesOrdered
  <2>7. RequestsAreAsked'
    BY <1>1, <2>0 DEF Ask, RequestsAreAsked, QuestionTypes, QuestionTypeOK, Question
  <2>8. BoxIsCleared'
    <3>1. ASSUME NEW q \in Question, IsOver(q)' PROVE q <= asked /\ q # asked + 1 /\ IsOver(q)
      BY <1>1, <2>0, <3>1 DEF Ask, IsOver, Question
    <3> QED BY <1>1, <2>1, <3>1 DEF Ask, BoxIsCleared
  <2>9. RequestWaits' /\ AnswersMatch'
    BY <1>1, <2>0 DEF Ask, RequestWaits, RequestsAreAsked, AnswersMatch
  <2> QED BY <2>2, <2>3, <2>4, <2>6, <2>7, <2>8, <2>9
<1>2. CASE Forward
  <2>1. QuestionTypes'
    BY <1>2 DEF Forward, QuestionTypes, QuestionTypeOK, Question
  <2>2. RecordIsCurrent' /\ SlotIsCurrent' /\ HandleIsCurrent'
    BY <1>2 DEF Forward, RecordIsCurrent, SlotIsCurrent, HandleIsCurrent
  <2>3. BoxesOrdered' /\ RequestsAreAsked'
    BY <1>2 DEF Forward, BoxesOrdered, RequestsAreAsked
  <2>4. BoxIsCleared' /\ RequestWaits'
    BY <1>2 DEF Forward, BoxIsCleared, IsOver, RequestWaits
  <2>5. AnswersMatch'
    BY <1>2 DEF Forward, AnswersMatch
  <2> QED BY <2>1, <2>2, <2>3, <2>4, <2>5
<1>3. CASE Park
  <2>1. QuestionTypes'
    BY <1>3 DEF Park, QuestionTypes, QuestionTypeOK
  <2>2. RecordIsCurrent' /\ SlotIsCurrent' /\ HandleIsCurrent'
    BY <1>3 DEF Park, RecordIsCurrent, SlotIsCurrent, HandleIsCurrent
  <2>3. BoxesOrdered' /\ RequestsAreAsked'
    BY <1>3 DEF Park, BoxesOrdered, RequestsAreAsked
  <2>4. BoxIsCleared' /\ RequestWaits'
    BY <1>3 DEF Park, BoxIsCleared, IsOver, RequestWaits
  <2>5. AnswersMatch'
    BY <1>3 DEF Park, AnswersMatch
  <2> QED BY <2>1, <2>2, <2>3, <2>4, <2>5
<1>4. CASE Answered
  <2>1. QuestionTypes'
    BY <1>4 DEF Answered, QuestionTypes, QuestionTypeOK
  <2>2. RecordIsCurrent' /\ SlotIsCurrent' /\ HandleIsCurrent'
    BY <1>4 DEF Answered, RecordIsCurrent, SlotIsCurrent, HandleIsCurrent
  <2>3. BoxesOrdered' /\ RequestsAreAsked'
    BY <1>4 DEF Answered, BoxesOrdered, RequestsAreAsked
  <2>4. BoxIsCleared' /\ RequestWaits'
    BY <1>4 DEF Answered, BoxIsCleared, IsOver, RequestWaits
  <2>5. AnswersMatch'
    BY <1>4 DEF Answered, QuestionTypes, QuestionTypeOK, SlotIsCurrent, AnswersMatch
  <2> QED BY <2>1, <2>2, <2>3, <2>4, <2>5
<1>5. CASE Ignored
  <2>1. QuestionTypes'
    BY <1>5 DEF Ignored, QuestionTypes, QuestionTypeOK
  <2>2. RecordIsCurrent' /\ SlotIsCurrent' /\ HandleIsCurrent'
    BY <1>5 DEF Ignored, RecordIsCurrent, SlotIsCurrent, HandleIsCurrent
  <2>3. BoxesOrdered' /\ RequestsAreAsked'
    BY <1>5 DEF Ignored, BoxesOrdered, RequestsAreAsked
  <2>4. BoxIsCleared' /\ RequestWaits'
    BY <1>5 DEF Ignored, BoxIsCleared, IsOver, RequestWaits
  <2>5. AnswersMatch'
    BY <1>5 DEF Ignored, AnswersMatch
  <2> QED BY <2>1, <2>2, <2>3, <2>4, <2>5
<1>6. CASE Abort
  <2>1. QuestionTypes'
    BY <1>6 DEF Abort, QuestionTypes, QuestionTypeOK
  <2>2. RecordIsCurrent' /\ SlotIsCurrent' /\ HandleIsCurrent'
    BY <1>6 DEF Abort, RecordIsCurrent, SlotIsCurrent, HandleIsCurrent
  <2>3. BoxesOrdered' /\ RequestsAreAsked'
    BY <1>6 DEF Abort, BoxesOrdered, RequestsAreAsked
  <2>4. BoxIsCleared' /\ RequestWaits'
    BY <1>6 DEF Abort, BoxIsCleared, IsOver, RequestWaits
  <2>5. AnswersMatch'
    BY <1>6 DEF Abort, AnswersMatch
  <2> QED BY <2>1, <2>2, <2>3, <2>4, <2>5
<1>7. CASE MarkCancelled
  <2>1. QuestionTypes'
    BY <1>7 DEF MarkCancelled, QuestionTypes, QuestionTypeOK
  <2>2. RecordIsCurrent' /\ SlotIsCurrent' /\ HandleIsCurrent'
    BY <1>7 DEF MarkCancelled, RecordIsCurrent, SlotIsCurrent, HandleIsCurrent
  <2>3. BoxesOrdered' /\ RequestsAreAsked'
    BY <1>7 DEF MarkCancelled, BoxesOrdered, RequestsAreAsked
  <2>4. BoxIsCleared' /\ RequestWaits'
    BY <1>7 DEF MarkCancelled, BoxIsCleared, IsOver, RequestWaits
  <2>5. AnswersMatch'
    BY <1>7 DEF MarkCancelled, AnswersMatch
  <2> QED BY <2>1, <2>2, <2>3, <2>4, <2>5
<1>8. CASE WakeChild
  <2>1. QuestionTypes'
    BY <1>8 DEF WakeChild, QuestionTypes, QuestionTypeOK
  <2>2. RecordIsCurrent' /\ SlotIsCurrent' /\ HandleIsCurrent'
    BY <1>8 DEF WakeChild, RecordIsCurrent, SlotIsCurrent, HandleIsCurrent
  <2>3. BoxesOrdered' /\ RequestsAreAsked'
    BY <1>8 DEF WakeChild, BoxesOrdered, RequestsAreAsked
  <2>4. BoxIsCleared' /\ RequestWaits'
    BY <1>8 DEF WakeChild, BoxIsCleared, IsOver, RequestWaits
  <2>5. AnswersMatch'
    BY <1>8 DEF WakeChild, AnswersMatch
  <2> QED BY <2>1, <2>2, <2>3, <2>4, <2>5
<1> QED BY <1>1, <1>2, <1>3, <1>4, <1>5, <1>6, <1>7, <1>8

(* The end of a question. *)
LEMMA CloseStep ==
    ASSUME QuestionInv, Close
    PROVE  QuestionInv'
<1> USE QuestionAssumption DEF QuestionInv, Parked, child, parent, mailbox, reply
<1>1. asked \in Question /\ captured[asked] \in Parent /\ step' = "working" /\ step = "closing"
  BY DEF Close, QuestionTypes, QuestionTypeOK
<1>2. handle' \in {"none", "running", "cancelled"}
  BY <1>1 DEF Close, Restored, QuestionTypes, QuestionTypeOK, HandleIsCurrent
<1>3. requests' \in [Parent -> SUBSET Question] /\ {parentFile', buried'} \subseteq SUBSET Question
  <2>1. CASE captured[asked] = 0
    BY <2>1 DEF Close, QuestionTypes, QuestionTypeOK
  <2>2. CASE captured[asked] # 0
    BY <1>1, <2>2, DischargeKeeps DEF Close
  <2> QED BY <2>1, <2>2
<1>4. BoxesOrdered' /\ BoxIsCleared' /\ RequestWaits'
  <2>1. CASE captured[asked] = 0
    BY <1>1, <2>1 DEF Close, BoxesOrdered, BoxIsCleared, IsOver, RequestWaits
  <2>2. CASE captured[asked] # 0
    BY <1>1, <2>2, AfterDischarge DEF Close
  <2> QED BY <2>1, <2>2
<1>5. QuestionTypes'
  BY <1>1, <1>2, <1>3 DEF Close, QuestionTypes, QuestionTypeOK
<1>6. RecordIsCurrent' /\ SlotIsCurrent' /\ HandleIsCurrent'
  BY <1>1, <1>2 DEF Close, RecordIsCurrent, SlotIsCurrent, HandleIsCurrent
<1>7. RequestsAreAsked' /\ AnswersMatch'
  BY DEF Close, RequestsAreAsked, AnswersMatch
<1> QED BY <1>4, <1>5, <1>6, <1>7

(* The user and the timer. *)
LEMMA AnswerStep ==
    ASSUME QuestionInv, UserAnswers \/ Lapse \/ Expire
    PROVE  QuestionInv'
<1> USE QuestionAssumption DEF QuestionInv, Parked, child, parent, mailbox, reply
<1>1. CASE UserAnswers
  <2>0. Answer("user", asked) \in Answers /\ Answer("user", asked).to = asked
    BY <1>1, AnswerType DEF UserAnswers, QuestionTypes
  <2>1. QuestionTypes'
    BY <1>1, <2>0 DEF UserAnswers, QuestionTypes, QuestionTypeOK
  <2>2. RecordIsCurrent' /\ SlotIsCurrent' /\ HandleIsCurrent'
    BY <1>1, <2>0 DEF UserAnswers, RecordIsCurrent, SlotIsCurrent, HandleIsCurrent
  <2>3. BoxesOrdered' /\ RequestsAreAsked'
    BY <1>1 DEF UserAnswers, BoxesOrdered, RequestsAreAsked
  <2>4. BoxIsCleared' /\ RequestWaits'
    BY <1>1 DEF UserAnswers, BoxIsCleared, IsOver, RequestWaits
  <2>5. AnswersMatch'
    BY <1>1 DEF UserAnswers, AnswersMatch
  <2> QED BY <2>1, <2>2, <2>3, <2>4, <2>5
<1>2. CASE Lapse
  <2>1. QuestionTypes'
    BY <1>2 DEF Lapse, QuestionTypes, QuestionTypeOK
  <2>2. RecordIsCurrent' /\ SlotIsCurrent' /\ HandleIsCurrent'
    BY <1>2 DEF Lapse, RecordIsCurrent, SlotIsCurrent, HandleIsCurrent
  <2>3. BoxesOrdered' /\ RequestsAreAsked'
    BY <1>2 DEF Lapse, BoxesOrdered, RequestsAreAsked
  <2>4. BoxIsCleared' /\ RequestWaits'
    BY <1>2 DEF Lapse, BoxIsCleared, IsOver, RequestWaits
  <2>5. AnswersMatch'
    BY <1>2 DEF Lapse, AnswersMatch
  <2> QED BY <2>1, <2>2, <2>3, <2>4, <2>5
<1>3. CASE Expire
  <2>a. Answer("timer", timer) \in Answers
    BY <1>3, AnswerType DEF Expire, QuestionTypes, QuestionTypeOK
  <2>0. /\ slot' \in Answers \cup {Nothing}
        /\ putBack' \subseteq Answers
        /\ step \in {"deciding", "waiting"} /\ slot' # Nothing => slot'.to = asked
    BY <1>3, <2>a, AnswerForwardedKeeps DEF Expire
  <2>1. QuestionTypes'
    BY <1>3, <2>0 DEF Expire, QuestionTypes, QuestionTypeOK
  <2>2. RecordIsCurrent' /\ SlotIsCurrent' /\ HandleIsCurrent'
    BY <1>3, <2>0 DEF Expire, RecordIsCurrent, SlotIsCurrent, HandleIsCurrent
  <2>3. BoxesOrdered' /\ RequestsAreAsked'
    BY <1>3 DEF Expire, BoxesOrdered, RequestsAreAsked
  <2>4. BoxIsCleared' /\ RequestWaits'
    BY <1>3 DEF Expire, BoxIsCleared, IsOver, RequestWaits
  <2>5. AnswersMatch'
    BY <1>3 DEF Expire, AnswersMatch
  <2> QED BY <2>1, <2>2, <2>3, <2>4, <2>5
<1> QED BY <1>1, <1>2, <1>3

(* The parent's instances. *)
LEMMA ParentStep ==
    ASSUME QuestionInv, Arrive \/ ParentStops \/ ParentReturns
    PROVE  QuestionInv'
<1> USE QuestionAssumption DEF QuestionInv, Parked, child, parent, mailbox, reply
<1>1. CASE Arrive /\ parentLive
  <2>1. /\ asked \in Question /\ instance \in Parent /\ step = "delivering"
        /\ requests' = [requests EXCEPT ![instance] = @ \cup {asked}]
        /\ parentFile' = requests[instance] \cup {asked} /\ arrived' = arrived \cup {asked}
        /\ UNCHANGED <<child, handle, instance, parentLive, buried, reply, lapsed>>
    BY <1>1 DEF Arrive, QuestionTypes, QuestionTypeOK
  <2>2. /\ requests'[instance] = requests[instance] \cup {asked}
        /\ \A j \in Parent : j # instance => requests'[j] = requests[j]
        /\ requests' \in [Parent -> SUBSET Question]
    BY <2>1 DEF QuestionTypes, QuestionTypeOK
  <2>3. QuestionTypes'
    BY <2>1, <2>2 DEF QuestionTypes, QuestionTypeOK
  <2>4. RecordIsCurrent' /\ SlotIsCurrent' /\ HandleIsCurrent'
    BY <2>1 DEF RecordIsCurrent, SlotIsCurrent, HandleIsCurrent
  <2>5. BoxesOrdered'
    <3>1. instance \in Nat /\ instance # 0 /\ captured[asked] <= instance /\ 0 \in Parent
      BY <1>1, <2>1 DEF BoxesOrdered, Parent
    <3>2. requests'[0] = {} /\ parentFile' = requests'[instance]
      BY <2>1, <2>2, <3>1 DEF BoxesOrdered
    <3>3. ASSUME NEW j \in Parent, NEW q \in requests'[j]
          PROVE  captured[q] <= j /\ j <= instance /\ q \in arrived'
      BY <2>1, <2>2, <3>1, <3>3 DEF BoxesOrdered
    <3> QED BY <2>1, <3>1, <3>2, <3>3 DEF BoxesOrdered
  <2>6. RequestsAreAsked' /\ AnswersMatch'
    BY <2>1 DEF RequestsAreAsked, AnswersMatch, Question
  <2>7. BoxIsCleared'
    BY <2>1, <2>2 DEF BoxIsCleared, IsOver, QuestionTypes, QuestionTypeOK, Question
  <2>8. RequestWaits'
    BY <2>1, <2>2 DEF RequestWaits
  <2> QED BY <2>3, <2>4, <2>5, <2>6, <2>7, <2>8
<1>2. ASSUME NEW new \in SUBSET {asked}, Instantiate(parentFile \cup new), new # {} => step # "working",
             arrived' = arrived \cup new, UNCHANGED <<child, buried, reply, lapsed>>
      PROVE  QuestionInv'
  <2>1. /\ requests' \in [Parent -> SUBSET Question] /\ parentFile' \in SUBSET Question
        /\ instance' \in Parent /\ arrived' \in SUBSET Question
        /\ HandleIsCurrent' /\ BoxesOrdered' /\ BoxIsCleared' /\ RequestWaits'
    BY <1>2, AfterInstantiate
  <2>2. parentLive' = TRUE /\ handle' = "running"
    BY <1>2 DEF Instantiate
  <2>3. QuestionTypes'
    BY <1>2, <2>1, <2>2 DEF QuestionTypes, QuestionTypeOK
  <2>4. RecordIsCurrent' /\ SlotIsCurrent' /\ AnswersMatch'
    BY <1>2 DEF RecordIsCurrent, SlotIsCurrent, AnswersMatch
  <2>5. RequestsAreAsked'
    <3>1. asked \in Nat
      BY DEF QuestionTypes, QuestionTypeOK
    <3>2. \A q \in arrived' : q <= asked'
      <4> SUFFICES ASSUME NEW q \in arrived' PROVE q <= asked'
        BY <1>2
      <4>1. asked' = asked /\ arrived' = arrived \cup new /\ new \subseteq {asked}
        BY <1>2
      <4>2. CASE q \in arrived
        BY <4>1, <4>2 DEF RequestsAreAsked
      <4>3. CASE q \in new
        BY <3>1, <4>1, <4>3
      <4> QED BY <4>1, <4>2, <4>3
    <3> QED BY <1>2, <3>2 DEF RequestsAreAsked
  <2> QED BY <2>1, <2>3, <2>4, <2>5
<1>3. CASE Arrive /\ ~parentLive
  BY <1>2, <1>3 DEF Arrive
<1>4. CASE ParentReturns
  <2>1. Instantiate(parentFile \cup {})
    BY <1>4 DEF ParentReturns
  <2> QED BY <1>2, <1>4, <2>1 DEF ParentReturns
<1>5. CASE ParentStops
  <2>1. parentLive' = FALSE
    BY <1>5 DEF ParentStops
  <2>2. QuestionTypes'
    BY <1>5, <2>1 DEF ParentStops, QuestionTypes, QuestionTypeOK
  <2>3. RecordIsCurrent' /\ SlotIsCurrent' /\ HandleIsCurrent'
    BY <1>5 DEF ParentStops, RecordIsCurrent, SlotIsCurrent, HandleIsCurrent
  <2>4. BoxesOrdered' /\ RequestsAreAsked' /\ BoxIsCleared' /\ RequestWaits' /\ AnswersMatch'
    BY <1>5 DEF ParentStops, BoxesOrdered, RequestsAreAsked, BoxIsCleared, IsOver, RequestWaits,
                AnswersMatch
  <2> QED BY <2>2, <2>3, <2>4
<1> QED BY <1>1, <1>3, <1>4, <1>5

(* The parent's reply. *)
LEMMA ReplyStep ==
    ASSUME QuestionInv, (\E q \in Question : LookUp(q)) \/ ReplyArrives \/ ReplyFails
                       \/ Resolve \/ Unpark
    PROVE  QuestionInv'
<1> USE QuestionAssumption DEF QuestionInv, Parked, child, parent, mailbox, reply
<1>1. ASSUME NEW q \in Question, LookUp(q) PROVE QuestionInv'
  <2>1. QuestionTypes'
    BY <1>1 DEF LookUp, QuestionTypes, QuestionTypeOK, Question
  <2>2. RecordIsCurrent' /\ SlotIsCurrent' /\ HandleIsCurrent'
    BY <1>1 DEF LookUp, RecordIsCurrent, SlotIsCurrent, HandleIsCurrent
  <2>3. BoxesOrdered' /\ RequestsAreAsked'
    BY <1>1 DEF LookUp, BoxesOrdered, RequestsAreAsked, QuestionTypes, QuestionTypeOK, Parent
  <2>4. BoxIsCleared' /\ RequestWaits'
    BY <1>1 DEF LookUp, BoxIsCleared, IsOver, RequestWaits
  <2>5. AnswersMatch'
    BY <1>1 DEF LookUp, AnswersMatch
  <2> QED BY <2>1, <2>2, <2>3, <2>4, <2>5
<1>2. CASE ReplyArrives
  <2>1. QuestionTypes'
    BY <1>2 DEF ReplyArrives, QuestionTypes, QuestionTypeOK
  <2>2. RecordIsCurrent' /\ SlotIsCurrent' /\ HandleIsCurrent'
    BY <1>2 DEF ReplyArrives, RecordIsCurrent, SlotIsCurrent, HandleIsCurrent
  <2>3. BoxesOrdered' /\ RequestsAreAsked'
    BY <1>2 DEF ReplyArrives, BoxesOrdered, RequestsAreAsked
  <2>4. BoxIsCleared' /\ RequestWaits'
    BY <1>2 DEF ReplyArrives, BoxIsCleared, IsOver, RequestWaits
  <2>5. AnswersMatch'
    BY <1>2 DEF ReplyArrives, AnswersMatch
  <2> QED BY <2>1, <2>2, <2>3, <2>4, <2>5
<1>3. CASE ReplyFails
  <2>1. QuestionTypes'
    BY <1>3 DEF ReplyFails, QuestionTypes, QuestionTypeOK, Finished
  <2>2. RecordIsCurrent' /\ SlotIsCurrent' /\ HandleIsCurrent'
    BY <1>3 DEF ReplyFails, RecordIsCurrent, SlotIsCurrent, HandleIsCurrent
  <2>3. BoxesOrdered' /\ RequestsAreAsked'
    BY <1>3 DEF ReplyFails, Finished, BoxesOrdered, RequestsAreAsked
  <2>4. BoxIsCleared' /\ RequestWaits'
    BY <1>3 DEF ReplyFails, BoxIsCleared, IsOver, RequestWaits
  <2>5. AnswersMatch'
    BY <1>3 DEF ReplyFails, AnswersMatch
  <2> QED BY <2>1, <2>2, <2>3, <2>4, <2>5
<1>4. CASE Resolve
  <2>1. replying \in Question /\ replier \in Parent /\ replying \in replied
    BY <1>4 DEF Resolve, QuestionTypes, QuestionTypeOK, RequestsAreAsked
  <2>2. /\ requests' \in [Parent -> SUBSET Question] /\ {parentFile', buried'} \subseteq SUBSET Question
    BY <1>4, <2>1, DischargeKeeps DEF Resolve
  <2>3. BoxesOrdered' /\ BoxIsCleared' /\ RequestWaits'
    BY <1>4, <2>1, AfterDischarge DEF Resolve
  <2>4. \/ progress' = "unparking" /\ replying' = replying
        \/ replying' = Nothing /\ progress' = "idle"
    BY <1>4 DEF Resolve, Finished
  <2>5. /\ UNCHANGED <<child, handle, instance, parentLive, arrived, replier, replied, lapsed>>
    BY <1>4 DEF Resolve
  <2>6. QuestionTypes'
    BY <2>1, <2>2, <2>4, <2>5 DEF QuestionTypes, QuestionTypeOK, Question
  <2>7. RecordIsCurrent' /\ SlotIsCurrent' /\ HandleIsCurrent'
    BY <2>5 DEF RecordIsCurrent, SlotIsCurrent, HandleIsCurrent
  <2>8. RequestsAreAsked' /\ AnswersMatch'
    BY <2>1, <2>4, <2>5 DEF RequestsAreAsked, AnswersMatch
  <2> QED BY <2>3, <2>6, <2>7, <2>8
<1>5. CASE Unpark
  <2>a. Answer("parent", replying) \in Answers
    BY <1>5, AnswerType DEF Unpark, QuestionTypes, QuestionTypeOK
  <2>0. /\ slot' \in Answers \cup {Nothing}
        /\ putBack' \subseteq Answers
        /\ step \in {"deciding", "waiting"} /\ slot' # Nothing => slot'.to = asked
    BY <1>5, <2>a, AnswerForwardedKeeps DEF Unpark
  <2>1. QuestionTypes'
    BY <1>5, <2>0 DEF Unpark, QuestionTypes, QuestionTypeOK, Finished
  <2>2. RecordIsCurrent' /\ SlotIsCurrent' /\ HandleIsCurrent'
    BY <1>5, <2>0 DEF Unpark, RecordIsCurrent, SlotIsCurrent, HandleIsCurrent
  <2>3. BoxesOrdered' /\ RequestsAreAsked'
    BY <1>5 DEF Unpark, Finished, BoxesOrdered, RequestsAreAsked
  <2>4. BoxIsCleared' /\ RequestWaits'
    BY <1>5 DEF Unpark, BoxIsCleared, IsOver, RequestWaits
  <2>5. AnswersMatch'
    BY <1>5 DEF Unpark, AnswersMatch
  <2> QED BY <2>1, <2>2, <2>3, <2>4, <2>5
<1> QED BY <1>1, <1>2, <1>3, <1>4, <1>5

LEMMA QuestionStutters == QuestionInv /\ UNCHANGED questionVars => QuestionInv'
<1> SUFFICES ASSUME QuestionInv, UNCHANGED questionVars PROVE QuestionInv'
  OBVIOUS
<1> USE DEF questionVars, child, parent, mailbox, reply, QuestionInv
<1>1. QuestionTypes' /\ RecordIsCurrent' /\ SlotIsCurrent' /\ HandleIsCurrent'
  BY DEF QuestionTypes, QuestionTypeOK, RecordIsCurrent, SlotIsCurrent, HandleIsCurrent
<1>2. BoxesOrdered' /\ RequestsAreAsked' /\ BoxIsCleared' /\ RequestWaits' /\ AnswersMatch'
  BY DEF BoxesOrdered, RequestsAreAsked, BoxIsCleared, IsOver, RequestWaits, AnswersMatch
<1> QED BY <1>1, <1>2

LEMMA QuestionInvariance == QuestionSpec => []QuestionInv
<1>1. QuestionInv /\ [QuestionNext]_questionVars => QuestionInv'
  BY ChildStep, CloseStep, AnswerStep, ParentStep, ReplyStep, QuestionStutters DEF QuestionNext
<1> QED BY QuestionInitially, <1>1, PTL DEF QuestionSpec

(* The child, its parent, the answers under way and the requests keep their *)
(* types (askForwarded, ReplyTool.execute), for any number of questions.    *)
THEOREM QuestionTypeCorrect == QuestionSpec => []QuestionTypeOK
<1>1. QuestionInv => QuestionTypeOK
  BY DEF QuestionInv, QuestionTypes
<1> QED BY QuestionInvariance, <1>1, PTL

(* answerForwardedQuestion compares the answer with the record, and the     *)
(* record with the ask is enough: for any number of questions, replies,     *)
(* timers and aborts, a question gets an answer to that question.           *)
THEOREM AnswersAreToQuestions == QuestionSpec => []AnswersMatch
<1>1. QuestionInv => AnswersMatch
  BY DEF QuestionInv
<1> QED BY QuestionInvariance, <1>1, PTL

(* The reply tool looks a request up before the delivery and discharges it  *)
(* after: while its child waits, a request nobody replied to is in the box, *)
(* unless an earlier instance of the parent wrote its own box over the file. *)
THEOREM RequestsSurvive == QuestionSpec => []RequestKept
<1>1. QuestionInv => RequestKept
  <2> SUFFICES ASSUME QuestionInv, NEW q \in arrived, q \notin replied \cup buried, ~(q < asked),
                      step # "working"
               PROVE  q \in Held
    BY DEF RequestKept
  <2>1. q = asked
    BY QuestionAssumption DEF QuestionInv, RequestsAreAsked, QuestionTypes, QuestionTypeOK, Question
  <2> QED BY <2>1 DEF QuestionInv, RequestWaits, Held
<1> QED BY QuestionInvariance, <1>1, PTL

(* The finally block of askForwarded cleans up after every way a question   *)
(* can end: the record, the timer, the handle, and the request, unless the  *)
(* parent has another instance by then than when the question was put.      *)
THEOREM QuestionsEnd == QuestionSpec => []NothingLeftBehind
<1>1. QuestionInv => NothingLeftBehind
  <2> SUFFICES ASSUME QuestionInv PROVE NothingLeftBehind
    OBVIOUS
  <2> USE QuestionAssumption DEF QuestionInv
  <2>1. step = "working" => forwarded = Nothing /\ timer = Nothing /\ handle # "waiting_for_parent"
    BY DEF RecordIsCurrent, HandleIsCurrent, Parked
  <2>2. ASSUME NEW q \in Question, IsOver(q), captured[q] = instance PROVE q \notin Held
    <3>0. instance \in Parent /\ instance \in Nat
      BY DEF QuestionTypes, QuestionTypeOK, Parent
    <3>1. \A i \in Parent : q \notin requests[i]
      <4> SUFFICES ASSUME NEW i \in Parent, q \in requests[i] PROVE FALSE
        OBVIOUS
      <4>1. i = instance
        BY <2>2, <3>0 DEF BoxesOrdered, Parent
      <4> QED BY <2>2, <3>0, <4>1 DEF BoxesOrdered, BoxIsCleared
    <3> QED BY <3>0, <3>1 DEF Held, BoxesOrdered
  <2> QED BY <2>1, <2>2 DEF NothingLeftBehind, IsOver
<1> QED BY QuestionInvariance, <1>1, PTL
=============================================================================
