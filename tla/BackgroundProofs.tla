--------------------------- MODULE BackgroundProofs ---------------------------
(***************************************************************************)
(* Proofs about BackgroundWork: its types, that handles tell the truth,    *)
(* that a stop leaves nothing running, that the outcome of an MCP call is  *)
(* told once and kept until then, and that the limit on parallel tasks     *)
(* holds, for any number of tasks, children and calls.                     *)
(***************************************************************************)
EXTENDS BackgroundWork, FiniteSetTheorems, TLAPS

Child == S!Child
Call == M!Call
ChildrenOf(p) == S!ChildrenOf(p)
Planning == {"cancelAsk", "cancelling", "cancelled"}
Special == {"recording", "cancelled", "checking", "ending", "over"}
Alive == S!Runs \cup {"asking"}

(* Types, by who changes what. *)
SharedTypes ==
    /\ tool \in [Parents -> ToolPhases]
    /\ stop \in [Parents -> {"no", "aborting", "stopped", "interrupted"}]

ChildTypes ==
    /\ life \in [Child -> {"none", "asking", "completing"} \cup S!Runs \cup S!Reported \cup S!Ended]
    /\ owner \in [Child -> Parents]
    /\ handle \in [Child -> {"none", "starting", "running", "completed", "cancelled"}]
    /\ plan \in [Parents -> SUBSET Child] /\ todo \in [Parents -> SUBSET Child]
    /\ unseen \subseteq Child /\ missed \subseteq Child /\ raced \subseteq Child /\ woken \subseteq Child

CallTypes ==
    /\ caller \in [Call -> Callers]
    /\ promise \in [Call -> Outcomes \cup {"none", "pending"}]
    /\ status \in [Call -> {"none", "running", "completed", "error", "cancelled"}]
    /\ held \subseteq Call /\ lost \subseteq Call
    /\ awaited \in [Callers -> SUBSET Call]
    /\ told \in [Call -> {"nothing", "completed", "error"}]

(* What a tool plans is about children of its task, one when it records one, *)
(* and a stop has children to abort only while it goes on.                   *)
Plans ==
    \A p \in Parents :
        /\ plan[p] \subseteq ChildrenOf(p)
        /\ tool[p] = "recording" => \E c \in Child : plan[p] = {c}
        /\ tool[p] \in {"cancelled", "checking"} => plan[p] # {}
        /\ stop[p] # "aborting" => todo[p] = {}

(* A child that runs or waits is where whoever ends its parent looks for it: *)
(* it has a handle, or is in the list of the stop or of the completion that  *)
(* goes on, unless it is being recorded, or was recorded or woken where that *)
(* list misses it.                                                           *)
Loose(p, c) == c \in unseen \/ (tool[p] = "recording" /\ c \in plan[p])
Reached(p, c) ==
    /\ stop[p] \in {"no", "interrupted"} => handle[c] # "none" \/ Loose(p, c)
    /\ stop[p] = "aborting" => c \in todo[p] \/ Loose(p, c)
    /\ stop[p] = "stopped" => Loose(p, c)
    /\ tool[p] = "ending" => c \in plan[p] \cup todo[p] \cup unseen
    /\ tool[p] = "over" => c \in todo[p] \cup unseen
Reach == \A p \in Parents : \A c \in Child : owner[c] = p /\ life[c] \in Alive => Reached(p, c)

(* A child that is to be cancelled has not ended, or it is known that it     *)
(* ended meanwhile or that its handle missed it; when it is to be marked it  *)
(* does not run, or was woken since.                                         *)
Cancels ==
    \A p \in Parents :
        /\ tool[p] \in Planning =>
               \A c \in plan[p] :
                   /\ handle[c] # "none" /\ life[c] \in S!Reported => c \in missed \cup raced
                   /\ handle[c] = "completed" => c \in raced
        /\ tool[p] = "cancelled" /\ handle[S!NextOf(plan[p])] # "none" =>
               life[S!NextOf(plan[p])] \notin Alive \/ S!NextOf(plan[p]) \in woken

ChildInv == ChildTypes /\ Plans /\ Reach /\ Cancels /\ HandlesTellTheTruth

(* A call in the map runs, or has settled and its status says how. *)
HeldAgree ==
    \A k \in held :
        \/ promise[k] = "pending" /\ status[k] = "running"
        \/ promise[k] \in Outcomes /\ status[k] = M!StatusOf(promise[k])

(* The map of a stopped task has only what was started after the stop. *)
HeldLost == \A p \in Callers : stop[p] = "stopped" => \A k \in held : caller[k] = p => k \in lost

CallInv == CallTypes /\ HeldAgree /\ HeldLost /\ ToldOnce /\ KeptUntilTold

Inv == SharedTypes /\ ChildInv /\ CallInv
-----------------------------------------------------------------------------
(* Steps that change only which tool a task executes, and to none that      *)
(* records, marks or ends: every step of McpCalls is one for the children.  *)
LEMMA ToolStep ==
    ASSUME SharedTypes, ChildInv, NEW p \in Parents, NEW x \in ToolPhases,
           tool' = [tool EXCEPT ![p] = x], tool[p] # "recording", x \notin Special,
           x \in Planning => tool[p] \in Planning,
           UNCHANGED <<stop, subtasks>>
    PROVE  SharedTypes' /\ ChildInv'
<1> USE DEF ChildInv, subtasks, Special, Planning
<1>1. SharedTypes'
  BY DEF SharedTypes
<1>2. ChildTypes'
  BY DEF ChildTypes
<1>3. Plans'
  BY DEF Plans, SharedTypes, ChildrenOf, S!ChildrenOf
<1>4. Reach'
  BY DEF Reach, Reached, Loose, SharedTypes
<1>5. Cancels'
  BY DEF Cancels, SharedTypes, S!NextOf
<1>6. HandlesTellTheTruth'
  BY DEF HandlesTellTheTruth, S!HandlesTellTheTruth
<1> QED BY <1>1, <1>2, <1>3, <1>4, <1>5, <1>6
-----------------------------------------------------------------------------
(* Steps of new_task, of a child, of cancel_tasks, and of what ends a parent. *)
LEMMA NextOfIsOne == ASSUME NEW cs, cs # {} PROVE S!NextOf(cs) \in cs
BY DEF S!NextOf

LEMMA CreateStep ==
    ASSUME SharedTypes, ChildInv, NEW p \in Parents, S!Create(p)
    PROVE  SharedTypes' /\ ChildInv'
<1> USE DEF ChildInv, S!Runs, S!Reported, S!Ended, Alive, S!Create, S!Goes, S!histories, S!Fresh, Child, S!Child
<1>1. SharedTypes'
  BY DEF SharedTypes, ToolPhases, S!Phases
<1>2. ChildTypes'
  BY DEF ChildTypes, SharedTypes
<1>3. Plans'
  BY DEF Plans, ChildTypes, SharedTypes, ChildrenOf, S!ChildrenOf
<1>4. Reach'
  BY DEF Reach, Reached, Loose, Plans, ChildTypes, SharedTypes, ChildrenOf, S!ChildrenOf
<1>5. Cancels'
  BY NextOfIsOne DEF Cancels, Planning, Plans, ChildTypes, SharedTypes, ChildrenOf, S!ChildrenOf
<1>6. HandlesTellTheTruth'
  BY DEF HandlesTellTheTruth, S!HandlesTellTheTruth, Plans, ChildTypes, ChildrenOf, S!ChildrenOf
<1> QED BY <1>1, <1>2, <1>3, <1>4, <1>5, <1>6

LEMMA RecordStep ==
    ASSUME SharedTypes, ChildInv, NEW p \in Parents, S!Record(p)
    PROVE  SharedTypes' /\ ChildInv'
<1> USE DEF ChildInv, S!Runs, S!Reported, S!Ended, Alive, S!Record, S!Goes, S!histories, Child, S!Child
<1>1. SharedTypes'
  BY DEF SharedTypes, ToolPhases, S!Phases
<1>2. ChildTypes'
  BY DEF ChildTypes, SharedTypes
<1>3. Plans'
  BY DEF Plans, ChildTypes, SharedTypes, ChildrenOf, S!ChildrenOf
<1>4. Reach'
  BY DEF Reach, Reached, Loose, Plans, ChildTypes, SharedTypes, ChildrenOf, S!ChildrenOf
<1>5. Cancels'
  BY NextOfIsOne DEF Cancels, Planning, Plans, ChildTypes, SharedTypes, ChildrenOf, S!ChildrenOf
<1>6. HandlesTellTheTruth'
  BY DEF HandlesTellTheTruth, S!HandlesTellTheTruth, Plans, ChildTypes, ChildrenOf, S!ChildrenOf
<1> QED BY <1>1, <1>2, <1>3, <1>4, <1>5, <1>6

LEMMA FinishStep ==
    ASSUME SharedTypes, ChildInv, NEW c \in Child, S!Finish(c)
    PROVE  SharedTypes' /\ ChildInv'
<1> USE DEF ChildInv, S!Runs, S!Reported, S!Ended, Alive, S!Finish, S!Goes, S!histories, Child, S!Child
<1>1. SharedTypes'
  BY DEF SharedTypes, ToolPhases, S!Phases
<1>2. ChildTypes'
  BY DEF ChildTypes, SharedTypes
<1>3. Plans'
  BY DEF Plans, ChildTypes, SharedTypes, ChildrenOf, S!ChildrenOf
<1>4. Reach'
  BY DEF Reach, Reached, Loose, Plans, ChildTypes, SharedTypes, ChildrenOf, S!ChildrenOf
<1>5. Cancels'
  BY NextOfIsOne DEF Cancels, Planning, Plans, ChildTypes, SharedTypes, ChildrenOf, S!ChildrenOf
<1>6. HandlesTellTheTruth'
  BY DEF HandlesTellTheTruth, S!HandlesTellTheTruth, Plans, ChildTypes, ChildrenOf, S!ChildrenOf
<1> QED BY <1>1, <1>2, <1>3, <1>4, <1>5, <1>6

LEMMA ReportStep ==
    ASSUME SharedTypes, ChildInv, NEW c \in Child, S!Report(c)
    PROVE  SharedTypes' /\ ChildInv'
<1> USE DEF ChildInv, S!Runs, S!Reported, S!Ended, Alive, S!Report, S!Goes, S!histories, Child, S!Child
<1>1. SharedTypes'
  BY DEF SharedTypes, ToolPhases, S!Phases
<1>2. ChildTypes'
  BY DEF ChildTypes, SharedTypes
<1>3. Plans'
  BY DEF Plans, ChildTypes, SharedTypes, ChildrenOf, S!ChildrenOf
<1>4. Reach'
  BY DEF Reach, Reached, Loose, Plans, ChildTypes, SharedTypes, ChildrenOf, S!ChildrenOf
<1>5. Cancels'
  BY NextOfIsOne DEF Cancels, Planning, Plans, ChildTypes, SharedTypes, ChildrenOf, S!ChildrenOf
<1>6. HandlesTellTheTruth'
  BY DEF HandlesTellTheTruth, S!HandlesTellTheTruth, Plans, ChildTypes, ChildrenOf, S!ChildrenOf
<1> QED BY <1>1, <1>2, <1>3, <1>4, <1>5, <1>6

LEMMA EndStep ==
    ASSUME SharedTypes, ChildInv, NEW c \in Child, S!End(c)
    PROVE  SharedTypes' /\ ChildInv'
<1> USE DEF ChildInv, S!Runs, S!Reported, S!Ended, Alive, S!End, S!Goes, S!histories, Child, S!Child
<1>1. SharedTypes'
  BY DEF SharedTypes, ToolPhases, S!Phases
<1>2. ChildTypes'
  BY DEF ChildTypes, SharedTypes
<1>3. Plans'
  BY DEF Plans, ChildTypes, SharedTypes, ChildrenOf, S!ChildrenOf
<1>4. Reach'
  BY DEF Reach, Reached, Loose, Plans, ChildTypes, SharedTypes, ChildrenOf, S!ChildrenOf
<1>5. Cancels'
  BY NextOfIsOne DEF Cancels, Planning, Plans, ChildTypes, SharedTypes, ChildrenOf, S!ChildrenOf
<1>6. HandlesTellTheTruth'
  BY DEF HandlesTellTheTruth, S!HandlesTellTheTruth, Plans, ChildTypes, ChildrenOf, S!ChildrenOf
<1> QED BY <1>1, <1>2, <1>3, <1>4, <1>5, <1>6

LEMMA AskChildStep ==
    ASSUME SharedTypes, ChildInv, NEW c \in Child, S!AskChild(c)
    PROVE  SharedTypes' /\ ChildInv'
<1> USE DEF ChildInv, S!Runs, S!Reported, S!Ended, Alive, S!AskChild, S!Goes, S!histories, Child, S!Child
<1>1. SharedTypes'
  BY DEF SharedTypes, ToolPhases, S!Phases
<1>2. ChildTypes'
  BY DEF ChildTypes, SharedTypes, S!ChildrenOf
<1>3. Plans'
  BY DEF Plans, ChildTypes, SharedTypes, ChildrenOf, S!ChildrenOf
<1>4. Reach'
  BY DEF Reach, Reached, Loose, Plans, ChildTypes, SharedTypes, ChildrenOf, S!ChildrenOf
<1>5. Cancels'
  BY NextOfIsOne DEF Cancels, Planning, Plans, ChildTypes, SharedTypes, ChildrenOf, S!ChildrenOf
<1>6. HandlesTellTheTruth'
  BY DEF HandlesTellTheTruth, S!HandlesTellTheTruth, Plans, ChildTypes, ChildrenOf, S!ChildrenOf
<1> QED BY <1>1, <1>2, <1>3, <1>4, <1>5, <1>6

LEMMA AnsweredStep ==
    ASSUME SharedTypes, ChildInv, NEW c \in Child, S!Answered(c)
    PROVE  SharedTypes' /\ ChildInv'
<1> USE DEF ChildInv, S!Runs, S!Reported, S!Ended, Alive, S!Answered, S!Goes, S!histories, Child, S!Child
<1>1. SharedTypes'
  BY DEF SharedTypes, ToolPhases, S!Phases
<1>2. ChildTypes'
  BY DEF ChildTypes, SharedTypes, S!ChildrenOf
<1>3. Plans'
  BY DEF Plans, ChildTypes, SharedTypes, ChildrenOf, S!ChildrenOf
<1>4. Reach'
  BY DEF Reach, Reached, Loose, Plans, ChildTypes, SharedTypes, ChildrenOf, S!ChildrenOf
<1>5. Cancels'
  BY NextOfIsOne DEF Cancels, Planning, Plans, ChildTypes, SharedTypes, ChildrenOf, S!ChildrenOf
<1>6. HandlesTellTheTruth'
  BY DEF HandlesTellTheTruth, S!HandlesTellTheTruth, Plans, ChildTypes, ChildrenOf, S!ChildrenOf
<1> QED BY <1>1, <1>2, <1>3, <1>4, <1>5, <1>6

LEMMA WakeChildStep ==
    ASSUME SharedTypes, ChildInv, NEW c \in Child, S!WakeChild(c)
    PROVE  SharedTypes' /\ ChildInv'
<1> USE DEF ChildInv, S!Runs, S!Reported, S!Ended, Alive, S!WakeChild, S!Goes, S!histories, Child, S!Child
<1>1. SharedTypes'
  BY DEF SharedTypes, ToolPhases, S!Phases
<1>2. ChildTypes'
  BY DEF ChildTypes, SharedTypes, S!ChildrenOf
<1>3. Plans'
  BY DEF Plans, ChildTypes, SharedTypes, ChildrenOf, S!ChildrenOf
<1>4. Reach'
  BY DEF Reach, Reached, Loose, Plans, ChildTypes, SharedTypes, ChildrenOf, S!ChildrenOf
<1>5. Cancels'
  BY NextOfIsOne DEF Cancels, Planning, Plans, ChildTypes, SharedTypes, ChildrenOf, S!ChildrenOf
<1>6. HandlesTellTheTruth'
  BY DEF HandlesTellTheTruth, S!HandlesTellTheTruth, Plans, ChildTypes, ChildrenOf, S!ChildrenOf
<1> QED BY <1>1, <1>2, <1>3, <1>4, <1>5, <1>6

LEMMA StopChildStep ==
    ASSUME SharedTypes, ChildInv, NEW c \in Child, S!StopChild(c)
    PROVE  SharedTypes' /\ ChildInv'
<1> USE DEF ChildInv, S!Runs, S!Reported, S!Ended, Alive, S!StopChild, S!Goes, S!histories, Child, S!Child, S!AbortedLife
<1>1. SharedTypes'
  BY DEF SharedTypes, ToolPhases, S!Phases
<1>2. ChildTypes'
  BY DEF ChildTypes, SharedTypes
<1>3. Plans'
  BY DEF Plans, ChildTypes, SharedTypes, ChildrenOf, S!ChildrenOf
<1>4. Reach'
  BY DEF Reach, Reached, Loose, Plans, ChildTypes, SharedTypes, ChildrenOf, S!ChildrenOf
<1>5. Cancels'
  BY NextOfIsOne DEF Cancels, Planning, Plans, ChildTypes, SharedTypes, ChildrenOf, S!ChildrenOf
<1>6. HandlesTellTheTruth'
  BY DEF HandlesTellTheTruth, S!HandlesTellTheTruth, Plans, ChildTypes, ChildrenOf, S!ChildrenOf
<1> QED BY <1>1, <1>2, <1>3, <1>4, <1>5, <1>6

LEMMA AbortPlannedStep ==
    ASSUME SharedTypes, ChildInv, NEW p \in Parents, S!AbortPlanned(p)
    PROVE  SharedTypes' /\ ChildInv'
<1> USE DEF ChildInv, S!Runs, S!Reported, S!Ended, Alive, S!Goes, S!histories, Child, S!Child
<1> DEFINE d == S!NextOf(plan[p])
<1>1. d \in plan[p] /\ d \in Child /\ tool[p] = "cancelling"
  BY NextOfIsOne DEF S!AbortPlanned, ChildTypes
<1>2. UNCHANGED <<stop, owner, handle, todo, unseen, missed, raced>>
  BY DEF S!AbortPlanned
<1>3. CASE handle[d] = "none"
  <2>1. plan' = [plan EXCEPT ![p] = @ \ {d}] /\ UNCHANGED <<tool, life, woken>>
    BY <1>3 DEF S!AbortPlanned
  <2> HIDE DEF d
  <2>2. SharedTypes' /\ ChildTypes'
    BY <1>2, <2>1 DEF SharedTypes, ChildTypes
  <2>3. Plans'
    BY <1>1, <1>2, <2>1 DEF Plans, ChildTypes, ChildrenOf, S!ChildrenOf
  <2>4. Reach'
    BY <1>1, <1>2, <2>1 DEF Reach, Reached, Loose, ChildTypes
  <2>5. Cancels'
    BY <1>1, <1>2, <2>1 DEF Cancels, Planning, ChildTypes
  <2>6. HandlesTellTheTruth'
    BY <1>2, <2>1 DEF HandlesTellTheTruth, S!HandlesTellTheTruth
  <2> QED BY <2>2, <2>3, <2>4, <2>5, <2>6
<1>4. CASE handle[d] # "none"
  <2>1. /\ life' = [life EXCEPT ![d] = IF @ \in Alive THEN "aborted" ELSE @]
        /\ woken' = IF life[d] \in Alive \cup {"aborted"} THEN woken \ {d} ELSE woken
        /\ tool' = [tool EXCEPT ![p] = "cancelled"] /\ plan' = plan
    BY <1>4 DEF S!AbortPlanned, S!AbortedLife
  <2>2. SharedTypes' /\ ChildTypes'
    BY <1>1, <1>2, <2>1 DEF SharedTypes, ToolPhases, S!Phases, ChildTypes
  <2>3. Plans'
    BY <1>1, <1>2, <2>1 DEF Plans, SharedTypes, ChildTypes, ChildrenOf, S!ChildrenOf
  <2>4. Reach'
    BY <1>1, <1>2, <2>1 DEF Reach, Reached, Loose, SharedTypes, ChildTypes
  <2>5. Cancels'
    BY <1>1, <1>2, <2>1 DEF Cancels, Planning, SharedTypes, ChildTypes
  <2>6. HandlesTellTheTruth'
    BY <1>1, <1>2, <2>1 DEF HandlesTellTheTruth, S!HandlesTellTheTruth, Cancels, Planning, ChildTypes
  <2> QED BY <2>2, <2>3, <2>4, <2>5, <2>6
<1> QED BY <1>3, <1>4

LEMMA PlanCancelStep ==
    ASSUME SharedTypes, ChildInv, NEW p \in Parents, S!PlanCancel(p)
    PROVE  SharedTypes' /\ ChildInv'
<1> USE DEF ChildInv, S!Runs, S!Reported, S!Ended, Alive, S!PlanCancel, S!Goes, S!histories, Child, S!Child, S!Handles, S!Over, S!Ready
<1>1. SharedTypes'
  BY DEF SharedTypes, ToolPhases, S!Phases
<1>2. ChildTypes'
  <2>1. PICK cs \in SUBSET Child : plan' = [plan EXCEPT ![p] = {c \in cs : handle[c] \notin S!Over}]
    BY DEF S!ChildrenOf
  <2>2. plan' \in [Parents -> SUBSET Child]
    BY <2>1 DEF ChildTypes
  <2> QED BY <2>2 DEF ChildTypes
<1>3. Plans'
  <2>1. PICK cs \in SUBSET Child :
            /\ cs \subseteq ChildrenOf(p)
            /\ plan' = [plan EXCEPT ![p] = {c \in cs : handle[c] \notin S!Over}]
    BY DEF ChildrenOf, S!ChildrenOf
  <2>2. plan'[p] \subseteq ChildrenOf(p) /\ \A q \in Parents : q # p => plan'[q] = plan[q]
    <3> HIDE DEF S!PlanCancel, S!Over, Child, S!Child
    <3>1. plan \in [Parents -> SUBSET Child]
      BY DEF ChildTypes
    <3>2. plan'[p] = {c \in cs : handle[c] \notin S!Over} /\ \A q \in Parents : q # p => plan'[q] = plan[q]
      BY <2>1, <3>1
    <3> QED BY <2>1, <3>2
  <2>3. tool'[p] = "cancelAsk" /\ \A q \in Parents : q # p => tool'[q] = tool[q]
    BY DEF SharedTypes
  <2>4. todo' = todo /\ stop' = stop /\ \A q \in Parents : ChildrenOf(q)' = ChildrenOf(q)
    BY DEF ChildrenOf, S!ChildrenOf
  <2> QED
    <3> SUFFICES ASSUME NEW q \in Parents
                 PROVE  /\ plan'[q] \subseteq ChildrenOf(q)'
                        /\ tool'[q] = "recording" => \E c \in Child : plan'[q] = {c}
                        /\ tool'[q] \in {"cancelled", "checking"} => plan'[q] # {}
                        /\ stop'[q] # "aborting" => todo'[q] = {}
      BY DEF Plans, ChildrenOf
    <3> QED BY <2>2, <2>3, <2>4 DEF Plans
<1>4. Reach'
  BY DEF Reach, Reached, Loose, Plans, ChildTypes, SharedTypes, ChildrenOf, S!ChildrenOf
<1>5. Cancels'
  BY NextOfIsOne DEF Cancels, Planning, Plans, HandlesTellTheTruth, S!HandlesTellTheTruth,  ChildTypes, SharedTypes, ChildrenOf, S!ChildrenOf
<1>6. HandlesTellTheTruth'
  BY DEF HandlesTellTheTruth, S!HandlesTellTheTruth, Plans, ChildTypes, ChildrenOf, S!ChildrenOf
<1> QED BY <1>1, <1>2, <1>3, <1>4, <1>5, <1>6

LEMMA CancelRefusedStep ==
    ASSUME SharedTypes, ChildInv, NEW p \in Parents, S!CancelRefused(p)
    PROVE  SharedTypes' /\ ChildInv'
<1> USE DEF ChildInv, S!Runs, S!Reported, S!Ended, Alive, S!CancelRefused, S!Goes, S!histories, Child, S!Child
<1>1. SharedTypes'
  BY DEF SharedTypes, ToolPhases, S!Phases
<1>2. ChildTypes'
  BY DEF ChildTypes, SharedTypes
<1>3. Plans'
  BY DEF Plans, ChildTypes, SharedTypes, ChildrenOf, S!ChildrenOf
<1>4. Reach'
  BY DEF Reach, Reached, Loose, Plans, ChildTypes, SharedTypes, ChildrenOf, S!ChildrenOf
<1>5. Cancels'
  BY NextOfIsOne DEF Cancels, Planning, Plans, ChildTypes, SharedTypes, ChildrenOf, S!ChildrenOf
<1>6. HandlesTellTheTruth'
  BY DEF HandlesTellTheTruth, S!HandlesTellTheTruth, Plans, ChildTypes, ChildrenOf, S!ChildrenOf
<1> QED BY <1>1, <1>2, <1>3, <1>4, <1>5, <1>6

LEMMA MarkCancelledStep ==
    ASSUME SharedTypes, ChildInv, NEW p \in Parents, S!MarkCancelled(p)
    PROVE  SharedTypes' /\ ChildInv'
<1> USE DEF ChildInv, S!Runs, S!Reported, S!Ended, Alive, S!MarkCancelled, S!Goes, S!histories, Child, S!Child
<1>1. SharedTypes'
  BY DEF SharedTypes, ToolPhases, S!Phases
<1>2. ChildTypes'
  BY DEF ChildTypes, SharedTypes
<1>3. Plans'
  BY DEF Plans, ChildTypes, SharedTypes, ChildrenOf, S!ChildrenOf
<1>4. Reach'
  BY DEF Reach, Reached, Loose, Plans, ChildTypes, SharedTypes, ChildrenOf, S!ChildrenOf
<1>5. Cancels'
  BY NextOfIsOne DEF Cancels, Planning, Plans, ChildTypes, SharedTypes, ChildrenOf, S!ChildrenOf
<1>6. HandlesTellTheTruth'
  BY NextOfIsOne DEF Cancels, Planning, SharedTypes, HandlesTellTheTruth, S!HandlesTellTheTruth, Plans, ChildTypes, ChildrenOf, S!ChildrenOf
<1> QED BY <1>1, <1>2, <1>3, <1>4, <1>5, <1>6

LEMMA CheckStep ==
    ASSUME SharedTypes, ChildInv, NEW p \in Parents, S!Check(p)
    PROVE  SharedTypes' /\ ChildInv'
<1> USE DEF ChildInv, S!Runs, S!Reported, S!Ended, Alive, Child, S!Child
<1>1. PICK c \in S!Handles(p) :
          /\ handle[c] \notin S!Over
          /\ IF life[c] = "completed"
             THEN /\ handle' = [handle EXCEPT ![c] = "completed"]
                  /\ missed' = missed \ {c}
                  /\ UNCHANGED <<tool, plan>>
             ELSE /\ plan' = [plan EXCEPT ![p] = {c}]
                  /\ tool' = [tool EXCEPT ![p] = "checking"]
                  /\ UNCHANGED <<handle, missed>>
  BY DEF S!Check, S!Goes
<1>2. /\ c \in ChildrenOf(p) /\ handle[c] # "none" /\ tool[p] = "idle"
      /\ UNCHANGED <<stop, life, owner, todo, unseen, raced, woken>>
  BY DEF S!Check, S!Ready, S!Handles, ChildrenOf
<1>3. c \in Child /\ owner[c] = p /\ ChildrenOf(p) \subseteq Child
  BY <1>2 DEF ChildrenOf, S!ChildrenOf
<1>4. CASE life[c] = "completed"
  <2>1. handle' = [handle EXCEPT ![c] = "completed"] /\ missed' = missed \ {c} /\ UNCHANGED <<tool, plan>>
    BY <1>1, <1>4
  <2>2. SharedTypes' /\ ChildTypes'
    BY <1>2, <1>3, <2>1 DEF SharedTypes, ChildTypes
  <2>3. Plans'
    BY <1>2, <1>3, <2>1 DEF Plans, ChildTypes, ChildrenOf, S!ChildrenOf
  <2>4. Reach'
    BY <1>2, <1>3, <2>1 DEF Reach, Reached, Loose, ChildTypes
  <2>5. Cancels'
    BY <1>2, <1>3, <2>1 DEF Cancels, Planning, Plans, ChildTypes, SharedTypes, ChildrenOf, S!ChildrenOf, S!NextOf
  <2>6. HandlesTellTheTruth'
    BY <1>2, <1>3, <1>4, <2>1 DEF HandlesTellTheTruth, S!HandlesTellTheTruth, ChildTypes
  <2> QED BY <2>2, <2>3, <2>4, <2>5, <2>6
<1>5. CASE life[c] # "completed"
  <2>1. /\ plan' = [plan EXCEPT ![p] = {c}] /\ tool' = [tool EXCEPT ![p] = "checking"]
        /\ UNCHANGED <<handle, missed>>
    BY <1>1, <1>5
  <2>2. SharedTypes' /\ ChildTypes'
    BY <1>2, <1>3, <2>1 DEF SharedTypes, ChildTypes, ToolPhases, S!Phases
  <2>3. Plans'
    BY <1>2, <1>3, <2>1 DEF Plans, ChildTypes, SharedTypes, ChildrenOf, S!ChildrenOf
  <2>4. Reach'
    BY <1>2, <1>3, <2>1 DEF Reach, Reached, Loose, ChildTypes, SharedTypes
  <2>5. Cancels'
    BY <1>2, <1>3, <2>1 DEF Cancels, Planning, ChildTypes, SharedTypes, S!NextOf
  <2>6. HandlesTellTheTruth'
    BY <1>2, <2>1 DEF HandlesTellTheTruth, S!HandlesTellTheTruth
  <2> QED BY <2>2, <2>3, <2>4, <2>5, <2>6
<1> QED BY <1>4, <1>5

LEMMA CheckEndsStep ==
    ASSUME SharedTypes, ChildInv, NEW p \in Parents, S!CheckEnds(p)
    PROVE  SharedTypes' /\ ChildInv'
<1> USE DEF ChildInv, S!Runs, S!Reported, S!Ended, Alive, S!CheckEnds, S!Goes, S!histories, Child, S!Child
<1>1. SharedTypes'
  BY DEF SharedTypes, ToolPhases, S!Phases
<1>2. ChildTypes'
  BY DEF ChildTypes, SharedTypes, S!ChildrenOf
<1>3. Plans'
  BY DEF Plans, ChildTypes, SharedTypes, ChildrenOf, S!ChildrenOf
<1>4. Reach'
  BY DEF Reach, Reached, Loose, Plans, ChildTypes, SharedTypes, ChildrenOf, S!ChildrenOf
<1>5. Cancels'
  BY NextOfIsOne DEF Cancels, Planning, Plans, ChildTypes, SharedTypes, ChildrenOf, S!ChildrenOf
<1>6. HandlesTellTheTruth'
  BY DEF HandlesTellTheTruth, S!HandlesTellTheTruth, Plans, ChildTypes, ChildrenOf, S!ChildrenOf
<1> QED BY <1>1, <1>2, <1>3, <1>4, <1>5, <1>6

LEMMA CompleteStep ==
    ASSUME SharedTypes, ChildInv, NEW p \in Parents, S!Complete(p)
    PROVE  SharedTypes' /\ ChildInv'
<1> USE DEF ChildInv, S!Runs, S!Reported, S!Ended, Alive, S!Complete, S!Goes, S!histories, Child, S!Child, S!Handles, S!Ready, S!Aborted
<1>1. SharedTypes'
  BY DEF SharedTypes, ToolPhases, S!Phases
<1>2. ChildTypes'
  BY DEF ChildTypes, SharedTypes, S!ChildrenOf
<1>3. Plans'
  BY DEF Plans, ChildTypes, SharedTypes, ChildrenOf, S!ChildrenOf
<1>4. Reach'
  BY DEF Reach, Reached, Loose, Plans, ChildTypes, SharedTypes, ChildrenOf, S!ChildrenOf
<1>5. Cancels'
  BY NextOfIsOne DEF Cancels, Planning, Plans, ChildTypes, SharedTypes, ChildrenOf, S!ChildrenOf
<1>6. HandlesTellTheTruth'
  BY DEF HandlesTellTheTruth, S!HandlesTellTheTruth, Plans, ChildTypes, ChildrenOf, S!ChildrenOf
<1> QED BY <1>1, <1>2, <1>3, <1>4, <1>5, <1>6

LEMMA AbortOwnStep ==
    ASSUME SharedTypes, ChildInv, NEW p \in Parents, S!AbortOwn(p)
    PROVE  SharedTypes' /\ ChildInv'
<1> USE DEF ChildInv, S!Runs, S!Reported, S!Ended, Alive, S!AbortOwn, S!Goes, S!histories, Child, S!Child, S!AbortedLife
<1>1. SharedTypes'
  BY DEF SharedTypes, ToolPhases, S!Phases
<1>2. ChildTypes'
  BY DEF ChildTypes, SharedTypes
<1>3. Plans'
  BY DEF Plans, ChildTypes, SharedTypes, ChildrenOf, S!ChildrenOf
<1>4. Reach'
  BY DEF Reach, Reached, Loose, Plans, ChildTypes, SharedTypes, ChildrenOf, S!ChildrenOf
<1>5. Cancels'
  BY NextOfIsOne DEF Cancels, Planning, Plans, ChildTypes, SharedTypes, ChildrenOf, S!ChildrenOf
<1>6. HandlesTellTheTruth'
  BY DEF HandlesTellTheTruth, S!HandlesTellTheTruth, Plans, ChildTypes, ChildrenOf, S!ChildrenOf
<1> QED BY <1>1, <1>2, <1>3, <1>4, <1>5, <1>6

LEMMA CompletedStep ==
    ASSUME SharedTypes, ChildInv, NEW p \in Parents, S!Completed(p)
    PROVE  SharedTypes' /\ ChildInv'
<1> USE DEF ChildInv, S!Runs, S!Reported, S!Ended, Alive, S!Completed, S!Goes, S!histories, Child, S!Child, S!Cleared, S!Forgotten
<1>1. SharedTypes'
  BY DEF SharedTypes, ToolPhases, S!Phases
<1>2. ChildTypes'
  BY DEF ChildTypes, SharedTypes
<1>3. Plans'
  BY DEF Plans, ChildTypes, SharedTypes, ChildrenOf, S!ChildrenOf
<1>4. Reach'
  BY DEF Reach, Reached, Loose, Plans, ChildTypes, SharedTypes, ChildrenOf, S!ChildrenOf
<1>5. Cancels'
  BY NextOfIsOne DEF Cancels, Planning, Plans, ChildTypes, SharedTypes, ChildrenOf, S!ChildrenOf
<1>6. HandlesTellTheTruth'
  BY DEF HandlesTellTheTruth, S!HandlesTellTheTruth, Plans, ChildTypes, ChildrenOf, S!ChildrenOf
<1> QED BY <1>1, <1>2, <1>3, <1>4, <1>5, <1>6

LEMMA StopStep ==
    ASSUME SharedTypes, ChildInv, NEW p \in Parents, S!Stop(p)
    PROVE  SharedTypes' /\ ChildInv'
<1> USE DEF ChildInv, S!Runs, S!Reported, S!Ended, Alive, S!Stop, S!Goes, S!histories, Child, S!Child, S!Handles
<1>1. SharedTypes'
  BY DEF SharedTypes, ToolPhases, S!Phases
<1>2. ChildTypes'
  BY DEF ChildTypes, SharedTypes, S!ChildrenOf
<1>3. Plans'
  BY DEF Plans, ChildTypes, SharedTypes, ChildrenOf, S!ChildrenOf
<1>4. Reach'
  BY DEF Reach, Reached, Loose, Plans, ChildTypes, SharedTypes, ChildrenOf, S!ChildrenOf
<1>5. Cancels'
  BY NextOfIsOne DEF Cancels, Planning, Plans, ChildTypes, SharedTypes, ChildrenOf, S!ChildrenOf
<1>6. HandlesTellTheTruth'
  BY DEF HandlesTellTheTruth, S!HandlesTellTheTruth, Plans, ChildTypes, ChildrenOf, S!ChildrenOf
<1> QED BY <1>1, <1>2, <1>3, <1>4, <1>5, <1>6

LEMMA AbortNextStep ==
    ASSUME SharedTypes, ChildInv, NEW p \in Parents, S!AbortNext(p)
    PROVE  SharedTypes' /\ ChildInv'
<1> USE DEF ChildInv, S!Runs, S!Reported, S!Ended, Alive, S!AbortNext, S!Goes, S!histories, Child, S!Child, S!AbortedLife
<1>1. SharedTypes'
  BY DEF SharedTypes, ToolPhases, S!Phases
<1>2. ChildTypes'
  BY DEF ChildTypes, SharedTypes
<1>3. Plans'
  BY DEF Plans, ChildTypes, SharedTypes, ChildrenOf, S!ChildrenOf
<1>4. Reach'
  BY DEF Reach, Reached, Loose, Plans, ChildTypes, SharedTypes, ChildrenOf, S!ChildrenOf
<1>5. Cancels'
  BY NextOfIsOne DEF Cancels, Planning, Plans, ChildTypes, SharedTypes, ChildrenOf, S!ChildrenOf
<1>6. HandlesTellTheTruth'
  BY DEF HandlesTellTheTruth, S!HandlesTellTheTruth, Plans, ChildTypes, ChildrenOf, S!ChildrenOf
<1> QED BY <1>1, <1>2, <1>3, <1>4, <1>5, <1>6

(* A step that is about one tool and no child. *)
LEMMA SpawnStep == ASSUME SharedTypes, ChildInv, NEW p \in Parents, S!Spawns(p) PROVE SharedTypes' /\ ChildInv'
<1> USE DEF S!Goes, S!histories, S!Ready, subtasks, Special, Planning, ToolPhases, S!Phases
<1>1. CASE S!Count(p)
  <2>1. tool' = [tool EXCEPT ![p] = "counted"] /\ tool[p] # "recording" /\ UNCHANGED <<stop, subtasks>>
    BY <1>1 DEF S!Count
  <2> QED BY <2>1, ToolStep
<1>2. CASE S!AsksUser(p)
  <2>1. tool' = [tool EXCEPT ![p] = "asking"] /\ tool[p] # "recording" /\ UNCHANGED <<stop, subtasks>>
    BY <1>2 DEF S!AsksUser
  <2> QED BY <2>1, ToolStep
<1>3. CASE S!Approved(p)
  <2>1. tool' = [tool EXCEPT ![p] = "creating"] /\ tool[p] # "recording" /\ UNCHANGED <<stop, subtasks>>
    BY <1>3 DEF S!Approved
  <2> QED BY <2>1, ToolStep
<1>4. CASE S!Refused(p)
  <2>1. tool' = [tool EXCEPT ![p] = "idle"] /\ tool[p] # "recording" /\ UNCHANGED <<stop, subtasks>>
    BY <1>4 DEF S!Refused
  <2> QED BY <2>1, ToolStep
<1> QED BY <1>1, <1>2, <1>3, <1>4, CreateStep, RecordStep DEF S!Spawns

LEMMA ManageStep == ASSUME SharedTypes, ChildInv, NEW p \in Parents, S!Manages(p) PROVE SharedTypes' /\ ChildInv'
<1> USE DEF S!Goes, S!histories, subtasks, Special, Planning, ToolPhases, S!Phases
<1>1. CASE S!CancelApproved(p)
  <2>1. tool' = [tool EXCEPT ![p] = "cancelling"] /\ tool[p] = "cancelAsk" /\ UNCHANGED <<stop, subtasks>>
    BY <1>1 DEF S!CancelApproved
  <2> QED BY <2>1, ToolStep
<1>2. CASE S!CancelDone(p)
  <2>1. tool' = [tool EXCEPT ![p] = "idle"] /\ tool[p] = "cancelling" /\ UNCHANGED <<stop, subtasks>>
    BY <1>2 DEF S!CancelDone
  <2> QED BY <2>1, ToolStep
<1> QED BY <1>1, <1>2, PlanCancelStep, CancelRefusedStep, AbortPlannedStep, MarkCancelledStep, CheckStep, CheckEndsStep, CompleteStep,
           AbortOwnStep, CompletedStep, StopStep, AbortNextStep DEF S!Manages

LEMMA SubtasksStep == ASSUME SharedTypes, ChildInv, S!Next PROVE SharedTypes' /\ ChildInv'
BY BackgroundAssumption, SpawnStep, ManageStep, AskChildStep, AnsweredStep, FinishStep, ReportStep, EndStep,
   WakeChildStep, StopChildStep
   DEF S!Next, S!OfChild, Child

(* A step of a call is a step of a tool, or of none. *)
LEMMA CallsTool ==
    ASSUME SharedTypes, M!Next
    PROVE  /\ UNCHANGED stop
           /\ \/ UNCHANGED tool
              \/ \E p \in Callers : \E x \in {"idle", "callAsk", "waiting"} :
                     tool[p] \in {"idle", "callAsk", "waiting"} /\ tool' = [tool EXCEPT ![p] = x]
<1>1. ASSUME NEW p \in Callers,
             M!AskCall(p) \/ M!CallRefused(p) \/ M!StartCall(p) \/ M!Wait(p) \/ M!WaitReturns(p) \/ M!Check(p)
      PROVE  /\ UNCHANGED stop
             /\ \/ UNCHANGED tool
                \/ \E x \in {"idle", "callAsk", "waiting"} :
                       tool[p] \in {"idle", "callAsk", "waiting"} /\ tool' = [tool EXCEPT ![p] = x]
  BY <1>1 DEF M!AskCall, M!CallRefused, M!StartCall, M!Wait, M!WaitReturns, M!Check, M!Goes, M!Ready
<1>2. ASSUME NEW k \in M!Call, M!Settle(k)
      PROVE  UNCHANGED <<tool, stop>>
  BY <1>2 DEF M!Settle
<1> QED BY <1>1, <1>2 DEF M!Next

LEMMA CallsKeepChildren ==
    ASSUME SharedTypes, ChildInv, M!Next, UNCHANGED subtasks
    PROVE  SharedTypes' /\ ChildInv'
<1>1. CASE UNCHANGED tool
  <2>1. UNCHANGED <<tool, stop, subtasks>>
    BY <1>1, CallsTool
  <2> USE <2>1 DEF subtasks
  <2>2. SharedTypes' /\ ChildTypes'
    BY DEF SharedTypes, ChildTypes, ChildInv
  <2>3. Plans' /\ Reach' /\ Cancels'
    BY DEF Plans, ChildrenOf, S!ChildrenOf, Reach, Reached, Loose, Cancels, ChildInv
  <2>4. HandlesTellTheTruth'
    BY DEF HandlesTellTheTruth, S!HandlesTellTheTruth, ChildInv
  <2> QED BY <2>2, <2>3, <2>4 DEF ChildInv
<1>2. CASE \E p \in Callers : \E x \in {"idle", "callAsk", "waiting"} :
              tool[p] \in {"idle", "callAsk", "waiting"} /\ tool' = [tool EXCEPT ![p] = x]
  <2>1. PICK p \in Callers, x \in {"idle", "callAsk", "waiting"} :
            tool[p] \in {"idle", "callAsk", "waiting"} /\ tool' = [tool EXCEPT ![p] = x]
    BY <1>2
  <2>2. p \in Parents /\ x \in ToolPhases /\ UNCHANGED stop
    BY BackgroundAssumption, CallsTool DEF ToolPhases, S!Phases
  <2> QED BY <2>1, <2>2, ToolStep DEF Special, Planning
<1> QED BY <1>1, <1>2, CallsTool
-----------------------------------------------------------------------------
(* Stops and restarts, for the children. *)
LEMMA StopDoneStep == ASSUME SharedTypes, ChildInv, NEW p \in Parents, StopDone(p) PROVE SharedTypes' /\ ChildInv'
<1> USE DEF ChildInv, S!Runs, S!Reported, S!Ended, Alive, StopDone, subtasks, Child, S!Child, S!ClearChildren, S!Cleared, S!Forgotten
<1>1. SharedTypes'
  BY DEF SharedTypes, ToolPhases, S!Phases
<1>2. ChildTypes'
  BY DEF ChildTypes, SharedTypes, S!ChildrenOf
<1>3. Plans'
  BY DEF Plans, ChildTypes, SharedTypes, ChildrenOf, S!ChildrenOf
<1>4. Reach'
  BY DEF Reach, Reached, Loose, Plans, ChildTypes, SharedTypes, ChildrenOf, S!ChildrenOf
<1>5. Cancels'
  BY NextOfIsOne DEF Cancels, Planning, Plans, ChildTypes, SharedTypes, ChildrenOf, S!ChildrenOf
<1>6. HandlesTellTheTruth'
  BY DEF HandlesTellTheTruth, S!HandlesTellTheTruth, Plans, ChildTypes, ChildrenOf, S!ChildrenOf
<1> QED BY <1>1, <1>2, <1>3, <1>4, <1>5, <1>6

LEMMA ResumeStep == ASSUME SharedTypes, ChildInv, NEW p \in Parents, Resume(p) PROVE SharedTypes' /\ ChildInv'
<1> USE DEF ChildInv, S!Runs, S!Reported, S!Ended, Alive, Resume, subtasks, Child, S!Child, S!Rehydrate
<1>1. SharedTypes'
  BY DEF SharedTypes, ToolPhases, S!Phases
<1>2. ChildTypes'
  BY DEF ChildTypes, SharedTypes, S!ChildrenOf
<1>3. Plans'
  BY DEF Plans, ChildTypes, SharedTypes, ChildrenOf, S!ChildrenOf
<1>4. Reach'
  BY DEF Reach, Reached, Loose, Plans, ChildTypes, SharedTypes, ChildrenOf, S!ChildrenOf
<1>5. Cancels'
  BY NextOfIsOne DEF Cancels, Planning, Plans, ChildTypes, SharedTypes, ChildrenOf, S!ChildrenOf
<1>6. HandlesTellTheTruth'
  BY DEF HandlesTellTheTruth, S!HandlesTellTheTruth, Plans, ChildTypes, ChildrenOf, S!ChildrenOf
<1> QED BY <1>1, <1>2, <1>3, <1>4, <1>5, <1>6

LEMMA InterruptStep == ASSUME SharedTypes, ChildInv, NEW p \in Parents, Interrupt(p) PROVE SharedTypes' /\ ChildInv'
<1> USE DEF ChildInv, S!Runs, S!Reported, S!Ended, Alive, Interrupt, subtasks, Child, S!Child
<1>1. SharedTypes'
  BY DEF SharedTypes, ToolPhases, S!Phases
<1>2. ChildTypes'
  BY DEF ChildTypes, SharedTypes, S!ChildrenOf
<1>3. Plans'
  BY DEF Plans, ChildTypes, SharedTypes, ChildrenOf, S!ChildrenOf
<1>4. Reach'
  BY DEF Reach, Reached, Loose, Plans, ChildTypes, SharedTypes, ChildrenOf, S!ChildrenOf
<1>5. Cancels'
  BY NextOfIsOne DEF Cancels, Planning, Plans, ChildTypes, SharedTypes, ChildrenOf, S!ChildrenOf
<1>6. HandlesTellTheTruth'
  BY DEF HandlesTellTheTruth, S!HandlesTellTheTruth, Plans, ChildTypes, ChildrenOf, S!ChildrenOf
<1> QED BY <1>1, <1>2, <1>3, <1>4, <1>5, <1>6

LEMMA RestartStep == ASSUME SharedTypes, ChildInv, NEW p \in Parents, Restart(p) PROVE SharedTypes' /\ ChildInv'
<1> USE DEF ChildInv, S!Runs, S!Reported, S!Ended, Alive, Restart, subtasks, Child, S!Child
<1>1. SharedTypes'
  BY DEF SharedTypes, ToolPhases, S!Phases
<1>2. ChildTypes'
  BY DEF ChildTypes, SharedTypes, S!ChildrenOf
<1>3. Plans'
  BY DEF Plans, ChildTypes, SharedTypes, ChildrenOf, S!ChildrenOf
<1>4. Reach'
  BY DEF Reach, Reached, Loose, Plans, ChildTypes, SharedTypes, ChildrenOf, S!ChildrenOf
<1>5. Cancels'
  BY NextOfIsOne DEF Cancels, Planning, Plans, ChildTypes, SharedTypes, ChildrenOf, S!ChildrenOf
<1>6. HandlesTellTheTruth'
  BY DEF HandlesTellTheTruth, S!HandlesTellTheTruth, Plans, ChildTypes, ChildrenOf, S!ChildrenOf
<1> QED BY <1>1, <1>2, <1>3, <1>4, <1>5, <1>6

LEMMA WakeStep == ASSUME SharedTypes, ChildInv, NEW p \in Parents, Wake(p) PROVE SharedTypes' /\ ChildInv'
<1>1. tool' = [tool EXCEPT ![p] = "idle"] /\ tool[p] = "over" /\ UNCHANGED <<stop, subtasks>>
  BY DEF Wake
<1> QED BY <1>1, ToolStep DEF Special, Planning, ToolPhases, S!Phases
-----------------------------------------------------------------------------
(* Calls. *)
LEMMA CallStep ==
    ASSUME SharedTypes, CallInv, NEW p \in Callers, M!StartCall(p) \/ M!WaitReturns(p) \/ M!Check(p)
    PROVE  CallInv'
<1> USE DEF CallInv, Call, M!Call
<1>1. CASE M!StartCall(p)
  <2>1. CallTypes'
    BY <1>1 DEF M!StartCall, M!Fresh, CallTypes
  <2>2. HeldAgree' /\ HeldLost'
    BY <1>1 DEF M!StartCall, M!Fresh, M!Made, CallTypes, HeldAgree, HeldLost
  <2>3. ToldOnce' /\ KeptUntilTold'
    BY <1>1, BackgroundAssumption
    DEF M!StartCall, M!Fresh, M!Made, M!Settled, CallTypes, ToldOnce, M!ToldOnce, KeptUntilTold, M!KeptUntilTold
  <2> QED BY <2>1, <2>2, <2>3
<1>2. CASE M!WaitReturns(p)
  <2> DEFINE out == IF M!Aborted(p) THEN {} ELSE {k \in awaited[p] : M!Settled(k)}
  <2>0. /\ out \subseteq {k \in Call : M!Settled(k)}
        /\ told' = [k \in Call |-> IF k \in out THEN M!RecordOf(k) ELSE told[k]]
        /\ held' = held \ out
        /\ awaited' = [awaited EXCEPT ![p] = {}]
        /\ UNCHANGED <<stop, caller, promise, status, lost>>
    BY <1>2 DEF M!WaitReturns, CallTypes
  <2> HIDE DEF out
  <2>1. CallTypes'
    BY <2>0 DEF CallTypes, M!RecordOf
  <2>2. HeldAgree' /\ HeldLost'
    BY <2>0 DEF CallTypes, HeldAgree, HeldLost
  <2>3. ToldOnce'
    BY <2>0 DEF CallTypes, ToldOnce, M!ToldOnce, M!Settled, M!RecordOf
  <2>4. KeptUntilTold'
    BY <2>0 DEF CallTypes, KeptUntilTold, M!KeptUntilTold, M!Made, M!RecordOf
  <2> QED BY <2>1, <2>2, <2>3, <2>4
<1>3. CASE M!Check(p)
  <2>0. PICK k \in held : /\ status[k] # "running"
                          /\ told' = [told EXCEPT ![k] = status[k]]
                          /\ held' = held \ {k}
    BY <1>3 DEF M!Check
  <2>1. UNCHANGED <<stop, caller, promise, status, awaited, lost>>
    BY <1>3 DEF M!Check
  <2>2. promise[k] \in Outcomes /\ status[k] = M!StatusOf(promise[k]) /\ status[k] \in {"completed", "error"}
    BY <2>0 DEF HeldAgree, M!StatusOf
  <2>3. CallTypes'
    BY <2>0, <2>1, <2>2 DEF CallTypes
  <2>4. HeldAgree' /\ HeldLost'
    BY <2>0, <2>1 DEF CallTypes, HeldAgree, HeldLost
  <2>5. ToldOnce'
    BY <2>0, <2>1, <2>2 DEF CallTypes, ToldOnce, M!ToldOnce, M!Settled, M!StatusOf
  <2>6. KeptUntilTold'
    BY <2>0, <2>1, <2>2 DEF CallTypes, KeptUntilTold, M!KeptUntilTold, M!Made
  <2> QED BY <2>3, <2>4, <2>5, <2>6
<1> QED BY <1>1, <1>2, <1>3

LEMMA SettleStep == ASSUME CallInv, NEW k \in Call, M!Settle(k) PROVE CallInv'
<1> USE DEF CallInv
<1>0. PICK outcome \in Outcomes :
          /\ promise' = [promise EXCEPT ![k] = outcome]
          /\ status' = [status EXCEPT ![k] = IF @ = "running" THEN M!StatusOf(outcome) ELSE @]
  BY DEF M!Settle
<1>1. promise[k] = "pending" /\ UNCHANGED <<stop, caller, held, awaited, told, lost>>
  BY DEF M!Settle
<1>2. CallTypes'
  BY <1>0, <1>1 DEF CallTypes, M!StatusOf
<1>3. HeldAgree' /\ HeldLost'
  BY <1>0, <1>1, BackgroundAssumption DEF CallTypes, HeldAgree, HeldLost
<1>4. ToldOnce'
  BY <1>0, <1>1, BackgroundAssumption DEF CallTypes, ToldOnce, M!ToldOnce, M!Settled, Call
<1>5. KeptUntilTold'
  BY <1>0, <1>1, BackgroundAssumption DEF CallTypes, KeptUntilTold, M!KeptUntilTold, M!Made, Call
<1> QED BY <1>2, <1>3, <1>4, <1>5

(* What leaves the map and the calls as they are, but for those awaited, and *)
(* has stopped no task.                                                      *)
LEMMA CallsStay ==
    ASSUME CallInv, UNCHANGED <<caller, promise, status, held, told, lost>>,
           awaited' \in [Callers -> SUBSET Call],
           \A p \in Callers : stop'[p] = "stopped" => stop[p] = "stopped"
    PROVE  CallInv'
<1>1. CallTypes'
  BY DEF CallInv, CallTypes
<1>2. HeldAgree' /\ HeldLost' /\ ToldOnce' /\ KeptUntilTold'
  BY DEF CallInv, HeldAgree, HeldLost, ToldOnce, M!ToldOnce, KeptUntilTold, M!KeptUntilTold, M!Made, M!Settled
<1> QED BY <1>1, <1>2 DEF CallInv

LEMMA McpStep == ASSUME SharedTypes, CallInv, M!Next PROVE CallInv'
<1>1. ASSUME NEW p \in Callers, M!AskCall(p) \/ M!CallRefused(p) PROVE CallInv'
  <2>1. UNCHANGED <<stop, caller, promise, status, held, awaited, told, lost>>
    BY <1>1 DEF M!AskCall, M!CallRefused, M!calls
  <2> QED BY <2>1, CallsStay DEF CallInv, CallTypes
<1>2. ASSUME NEW p \in Callers, M!Wait(p) PROVE CallInv'
  <2>1. UNCHANGED <<stop, caller, promise, status, held, told, lost>>
    BY <1>2 DEF M!Wait
  <2>2. PICK ks \in SUBSET held : awaited' = [awaited EXCEPT ![p] = ks]
    BY <1>2 DEF M!Wait
  <2>3. awaited' \in [Callers -> SUBSET Call]
    BY <2>2 DEF CallInv, CallTypes
  <2> QED BY <2>1, <2>3, CallsStay
<1> QED BY <1>1, <1>2, CallStep, SettleStep DEF M!Next, Call

LEMMA SubtasksKeepCalls ==
    ASSUME SharedTypes, CallInv, S!Next, UNCHANGED calls
    PROVE  CallInv'
<1>1. \A p \in Callers : stop'[p] = "stopped" => stop[p] = "stopped"
  <2>1. ASSUME NEW p \in Parents, S!Spawns(p) PROVE UNCHANGED stop
    BY <2>1 DEF S!Spawns, S!Count, S!AsksUser, S!Approved, S!Refused, S!Create, S!Record
  <2>2. ASSUME NEW p \in Managers, S!Manages(p), ~S!Stop(p) PROVE UNCHANGED stop
    BY <2>2 DEF S!Manages, S!PlanCancel, S!CancelRefused, S!CancelApproved, S!AbortPlanned, S!MarkCancelled,
                S!CancelDone, S!Check, S!CheckEnds, S!Complete, S!AbortOwn, S!Completed, S!AbortNext
  <2>3. ASSUME NEW p \in Managers, S!Stop(p) PROVE stop' = [stop EXCEPT ![p] = "aborting"]
    BY <2>3 DEF S!Stop
  <2>4. ASSUME NEW c \in S!Child, S!OfChild(c) PROVE UNCHANGED stop
    BY <2>4 DEF S!OfChild, S!AskChild, S!Answered, S!Finish, S!Report, S!End, S!WakeChild, S!StopChild
  <2>5. UNCHANGED stop \/ \E p \in Managers : stop' = [stop EXCEPT ![p] = "aborting"]
    BY <2>1, <2>2, <2>3, <2>4 DEF S!Next
  <2> QED BY <2>5, BackgroundAssumption DEF SharedTypes
<1>2. UNCHANGED <<caller, promise, status, held, told, lost, awaited>>
  BY DEF calls
<1> QED BY <1>1, <1>2, CallsStay DEF CallInv, CallTypes

LEMMA ManagerCalls ==
    ASSUME SharedTypes, CallInv, NEW p \in Managers,
           StopDone(p) \/ Resume(p) \/ Interrupt(p) \/ Restart(p) \/ Wake(p)
    PROVE  CallInv'
<1> USE BackgroundAssumption DEF CallInv
<1>1. CASE StopDone(p)
  <2>1. CallTypes'
    BY <1>1 DEF StopDone, M!CancelCalls, M!OfCaller, CallTypes, Call
  <2>2. HeldAgree' /\ HeldLost'
    BY <1>1 DEF StopDone, M!CancelCalls, M!OfCaller, M!Made, CallTypes, HeldAgree, HeldLost, SharedTypes, Call
  <2>3. ToldOnce'
    BY <1>1 DEF StopDone, M!CancelCalls, ToldOnce, M!ToldOnce, M!Settled
  <2>4. KeptUntilTold'
    BY <1>1 DEF StopDone, M!CancelCalls, M!OfCaller, CallTypes, KeptUntilTold, M!KeptUntilTold, M!Made, M!Settled,
                HeldAgree, Call
  <2> QED BY <2>1, <2>2, <2>3, <2>4
<1>2. CASE Resume(p)
  <2>1. UNCHANGED <<caller, promise, status, awaited, told, lost>> /\ held' = held \ M!OfCaller(p)
    BY <1>2 DEF Resume, M!ForgetCalls
  <2>2. \A q \in Callers : stop'[q] = "stopped" => stop[q] = "stopped"
    BY <1>2 DEF Resume, SharedTypes
  <2>3. p \in Callers => \A k \in held : caller[k] = p => k \in lost
    BY <1>2 DEF Resume, HeldLost
  <2>4. CallTypes' /\ HeldAgree' /\ HeldLost' /\ ToldOnce'
    BY <2>1, <2>2 DEF CallTypes, HeldAgree, HeldLost, ToldOnce, M!ToldOnce, M!Settled
  <2>5. KeptUntilTold'
    BY <2>1, <2>3 DEF CallTypes, KeptUntilTold, M!KeptUntilTold, M!Made, M!OfCaller, Call
  <2> QED BY <2>4, <2>5
<1>3. CASE Interrupt(p) \/ Restart(p) \/ Wake(p)
  <2>1. UNCHANGED <<caller, promise, status, held, awaited, told, lost>>
    BY <1>3 DEF Interrupt, Restart, Wake, calls
  <2>2. \A q \in Callers : stop'[q] = "stopped" => stop[q] = "stopped"
    BY <1>3 DEF Interrupt, Restart, Wake, SharedTypes
  <2> QED BY <2>1, <2>2, CallsStay DEF CallTypes
<1> QED BY <1>1, <1>2, <1>3
-----------------------------------------------------------------------------
(* The limit on parallel tasks. A spawn is counted for from the comparison   *)
(* to the creation, so that the bound on children that run and spawns under  *)
(* way is set by the comparison and no later step of anybody raises it.      *)
Running == {c \in Child : life[c] = "running"}
Spawning == {p \in Parents : tool[p] \in {"counted", "asking", "creating"}}
LimitInv ==
    Limit > 0 /\ (Running # {} \/ Spawning # {}) =>
        Cardinality(Running) + Cardinality(Spawning) + 2 <= Limit + Cardinality(Parents)

(* Subtasks counts with a Cardinality of its own instance. *)
LEMMA SameCount == \A cs : S!Cardinality(cs) = Cardinality(cs)
BY Zenon DEF S!Cardinality, Cardinality

LEMMA ChildrenAreFinite ==
    /\ IsFiniteSet(Child)
    /\ \A cs \in SUBSET Child : IsFiniteSet(cs) /\ Cardinality(cs) \in Nat
<1>1. IsFiniteSet(Child)
  BY BackgroundAssumption, FS_Interval DEF Child, S!Child
<1>2. \A cs \in SUBSET Child : IsFiniteSet(cs)
  BY <1>1, FS_Subset
<1> QED BY <1>1, <1>2, FS_CardinalityType

LEMMA ParentsAreFinite ==
    \A ps \in SUBSET Parents :
        IsFiniteSet(ps) /\ Cardinality(ps) \in Nat /\ Cardinality(ps) <= Cardinality(Parents)
BY BackgroundAssumption, FS_Subset, FS_CardinalityType

(* Steps that start no child and no spawn. *)
LEMMA LimitStays ==
    ASSUME LimitInv, Running' \subseteq Running, Spawning' \subseteq Spawning
    PROVE  LimitInv'
<1>1. Running \subseteq Child /\ Spawning \subseteq Parents
  BY DEF Running, Spawning
<1>2. IsFiniteSet(Running) /\ IsFiniteSet(Spawning)
  BY <1>1, ChildrenAreFinite, ParentsAreFinite
<1>3. /\ Cardinality(Running) \in Nat /\ Cardinality(Running') \in Nat
      /\ Cardinality(Running') <= Cardinality(Running)
  BY <1>2, FS_Subset, FS_CardinalityType
<1>4. /\ Cardinality(Spawning) \in Nat /\ Cardinality(Spawning') \in Nat
      /\ Cardinality(Spawning') <= Cardinality(Spawning)
  BY <1>2, FS_Subset, FS_CardinalityType
<1>5. Limit \in Nat /\ Cardinality(Parents) \in Nat
  BY BackgroundAssumption, FS_CardinalityType
<1>6. SUFFICES ASSUME Limit > 0, Running' # {} \/ Spawning' # {}
               PROVE  Cardinality(Running') + Cardinality(Spawning') + 2 <= Limit + Cardinality(Parents)
  BY DEF LimitInv
<1>7. Cardinality(Running) + Cardinality(Spawning) + 2 <= Limit + Cardinality(Parents)
  BY <1>6 DEF LimitInv
<1> QED BY <1>3, <1>4, <1>5, <1>7

(* The comparison: the task that spawns counts itself, so that there is room *)
(* for as many spawns as there are tasks that do not count.                  *)
LEMMA CountLimit ==
    ASSUME SharedTypes, NEW p \in Parents, S!Count(p)
    PROVE  LimitInv'
<1> DEFINE Counted == {q \in Parents :
                           tool[q] \notin {"asking", "cancelAsk", "callAsk", "over"} /\ stop[q] # "stopped"}
           Places == {c \in Child : life[c] \in S!Runs \cup {"completing", "reporting"}}
<1>1. Running' = Running /\ Running \subseteq Child /\ Spawning' \subseteq Parents
  BY DEF S!Count, S!histories, Running, Spawning
<1>2. p \in Counted /\ Counted \subseteq Parents
  BY DEF S!Count, S!Ready, S!Aborted
<1>3. Cardinality(Counted) \in Nat /\ Cardinality(Counted) >= 1
  <2>1. IsFiniteSet(Counted) /\ Cardinality(Counted) \in Nat
    BY <1>2, ParentsAreFinite
  <2>2. Cardinality(Counted) # 0
    BY <1>2, <2>1, FS_EmptySet
  <2> QED BY <2>1, <2>2
<1>4. Cardinality(Running) \in Nat /\ Cardinality(Running)' = Cardinality(Running)
  BY <1>1, ChildrenAreFinite
<1>5. Cardinality(Spawning') \in Nat /\ Cardinality(Spawning') <= Cardinality(Parents)
  BY <1>1, ParentsAreFinite
<1>6. Limit > 0 => Cardinality(Running) + Cardinality(Counted) < Limit
  <2>1. Limit > 0 => Cardinality(Places) + Cardinality(Counted) < Limit
    BY SameCount DEF S!Count, S!Active, Child
  <2>2. Running \subseteq Places /\ Places \subseteq Child
    BY DEF Running, S!Runs
  <2> HIDE DEF Places, Counted
  <2>3. Cardinality(Running) <= Cardinality(Places) /\ Cardinality(Places) \in Nat
    BY <2>2, ChildrenAreFinite, FS_Subset
  <2> QED BY <1>3, <1>4, <2>1, <2>3, BackgroundAssumption
<1>7. Limit \in Nat /\ Cardinality(Parents) \in Nat
  BY BackgroundAssumption, FS_CardinalityType
<1>8. Limit > 0 => Cardinality(Running)' + Cardinality(Spawning)' + 2 <= Limit + Cardinality(Parents)
  <2> HIDE DEF Counted
  <2> QED BY <1>3, <1>4, <1>5, <1>6, <1>7
<1> QED BY <1>8 DEF LimitInv

(* The creation turns a spawn into a child that runs. *)
LEMMA CreateLimit ==
    ASSUME SharedTypes, ChildInv, LimitInv, NEW p \in Parents, S!Create(p)
    PROVE  LimitInv'
<1>1. PICK c \in Child : life[c] = "none" /\ life' = [life EXCEPT ![c] = "running"]
  BY DEF S!Create, S!Fresh, Child
<1>2. tool[p] = "creating" /\ tool' = [tool EXCEPT ![p] = "recording"]
  BY DEF S!Create, S!Goes
<1>3. Running' = Running \cup {c} /\ c \notin Running
  BY <1>1 DEF Running, ChildInv, ChildTypes
<1>4. Spawning' = Spawning \ {p} /\ p \in Spawning
  BY <1>2 DEF Spawning, SharedTypes
<1>5. Running \subseteq Child /\ Spawning \subseteq Parents
  BY DEF Running, Spawning
<1>6. Cardinality(Running) \in Nat /\ Cardinality(Running') = Cardinality(Running) + 1
  BY <1>3, <1>5, ChildrenAreFinite, FS_AddElement
<1>7. Cardinality(Spawning) \in Nat /\ Cardinality(Spawning') = Cardinality(Spawning) - 1
  BY <1>4, <1>5, ParentsAreFinite, FS_RemoveElement
<1>8. Limit \in Nat /\ Cardinality(Parents) \in Nat
  BY BackgroundAssumption, FS_CardinalityType
<1> QED BY <1>4, <1>6, <1>7, <1>8 DEF LimitInv

LEMMA SubtasksLimit ==
    ASSUME SharedTypes, ChildInv, LimitInv, S!Next
    PROVE  LimitInv'
<1>1. ASSUME NEW p \in Parents, S!AsksUser(p) \/ S!Approved(p) \/ S!Refused(p) \/ S!Record(p) PROVE LimitInv'
  <2>1. UNCHANGED life
    BY <1>1 DEF S!AsksUser, S!Approved, S!Refused, S!Record
  <2>2. \E x \in {"asking", "creating", "idle"} :
            /\ tool[p] \in {"counted", "asking", "creating"} \/ x = "idle"
            /\ tool' = [tool EXCEPT ![p] = x]
    BY <1>1 DEF S!AsksUser, S!Approved, S!Refused, S!Record, S!Goes
  <2>3. Running' \subseteq Running /\ Spawning' \subseteq Spawning
    BY <2>1, <2>2 DEF Running, Spawning, SharedTypes
  <2> QED BY <2>3, LimitStays
<1>2. ASSUME NEW p \in Managers, S!Manages(p) PROVE LimitInv'
  <2>1. UNCHANGED tool \/ \E x \in {"idle", "cancelAsk", "cancelling", "cancelled", "checking", "ending", "over"} :
                              tool' = [tool EXCEPT ![p] = x]
    BY <1>2 DEF S!Manages, S!PlanCancel, S!CancelRefused, S!CancelApproved, S!AbortPlanned, S!MarkCancelled,
                S!CancelDone, S!Check, S!CheckEnds, S!Complete, S!AbortOwn, S!Completed, S!Stop, S!AbortNext, S!Goes
  <2>2. UNCHANGED life \/ \E c : life' = [life EXCEPT ![c] = S!AbortedLife(c)]
    BY <1>2 DEF S!Manages, S!PlanCancel, S!CancelRefused, S!CancelApproved, S!AbortPlanned, S!MarkCancelled,
                S!CancelDone, S!Check, S!CheckEnds, S!Complete, S!AbortOwn, S!Completed, S!Stop, S!AbortNext
  <2>3. Spawning' \subseteq Spawning
    BY <2>1 DEF Spawning, SharedTypes
  <2>4. Running' \subseteq Running
    BY <2>2 DEF Running, S!AbortedLife, ChildInv, ChildTypes
  <2> QED BY <2>3, <2>4, LimitStays
<1>3. ASSUME NEW c \in Child, S!OfChild(c) PROVE LimitInv'
  <2>1. UNCHANGED tool
    BY <1>3 DEF S!OfChild, S!AskChild, S!Answered, S!Finish, S!Report, S!End, S!WakeChild, S!StopChild
  <2>2. \E x \in {"asking", "resumed", "completing", "reporting", "completed", "aborted"} :
            life' = [life EXCEPT ![c] = x] \/ UNCHANGED life
    BY <1>3 DEF S!OfChild, S!AskChild, S!Answered, S!Finish, S!Report, S!End, S!WakeChild, S!StopChild, S!AbortedLife
  <2>3. Running' \subseteq Running /\ Spawning' \subseteq Spawning
    BY <2>1, <2>2 DEF Running, Spawning, ChildInv, ChildTypes
  <2> QED BY <2>3, LimitStays
<1> QED BY <1>1, <1>2, <1>3, CountLimit, CreateLimit DEF S!Next, S!Spawns, Child

LEMMA OthersLimit ==
    ASSUME SharedTypes, LimitInv,
           \/ M!Next /\ UNCHANGED subtasks
           \/ \E p \in Managers : StopDone(p) \/ Resume(p) \/ Interrupt(p) \/ Restart(p) \/ Wake(p)
    PROVE  LimitInv'
<1>1. UNCHANGED life
  BY DEF subtasks, StopDone, Resume, Interrupt, Restart, Wake, S!ClearChildren, S!Rehydrate
<1>2. CASE M!Next
  <2>1. Spawning' \subseteq Spawning
    BY <1>2, CallsTool DEF Spawning, SharedTypes
  <2> QED BY <1>1, <2>1, LimitStays DEF Running
<1>3. CASE \E p \in Managers : StopDone(p) \/ Resume(p) \/ Interrupt(p) \/ Restart(p) \/ Wake(p)
  <2>1. UNCHANGED tool \/ \E p \in Managers : tool' = [tool EXCEPT ![p] = "idle"]
    BY <1>3 DEF StopDone, Resume, Interrupt, Restart, Wake
  <2>2. Spawning' \subseteq Spawning
    BY <2>1 DEF Spawning, SharedTypes
  <2> QED BY <1>1, <2>2, LimitStays DEF Running
<1> QED BY <1>2, <1>3
-----------------------------------------------------------------------------
LEMMA InitInv == Init => Inv
<1> SUFFICES ASSUME Init PROVE Inv
  OBVIOUS
<1> USE BackgroundAssumption DEF Init, S!Init, M!Init
<1>1. SharedTypes
  BY DEF SharedTypes, ToolPhases, S!Phases
<1>2. ChildTypes
  BY DEF ChildTypes, Child
<1>3. Plans /\ Reach /\ Cancels /\ HandlesTellTheTruth
  BY DEF Plans, Reach, Alive, S!Runs, Cancels, Planning, HandlesTellTheTruth, S!HandlesTellTheTruth, Child
<1>4. CallTypes
  BY DEF CallTypes, Call
<1>5. HeldAgree /\ HeldLost /\ ToldOnce /\ KeptUntilTold
  BY DEF HeldAgree, HeldLost, ToldOnce, M!ToldOnce, KeptUntilTold, M!KeptUntilTold, M!Made
<1> QED BY <1>1, <1>2, <1>3, <1>4, <1>5 DEF Inv, ChildInv, CallInv

LEMMA Invariance == Spec => []Inv
<1>1. ASSUME Inv, Next PROVE Inv'
  <2>1. CASE S!Next /\ UNCHANGED calls
    BY <1>1, <2>1, SubtasksStep, SubtasksKeepCalls DEF Inv
  <2>2. CASE M!Next /\ UNCHANGED subtasks
    BY <1>1, <2>2, CallsKeepChildren, McpStep DEF Inv
  <2>3. CASE \E p \in Managers : StopDone(p) \/ Resume(p) \/ Interrupt(p) \/ Restart(p) \/ Wake(p)
    BY <1>1, <2>3, BackgroundAssumption, StopDoneStep, ResumeStep, InterruptStep, RestartStep, WakeStep,
       ManagerCalls DEF Inv
  <2> QED BY <1>1, <2>1, <2>2, <2>3 DEF Next
<1>2. ASSUME Inv, UNCHANGED vars PROVE Inv'
  <2>1. UNCHANGED <<tool, stop, subtasks>> /\ UNCHANGED calls
    BY <1>2 DEF vars
  <2>2. SharedTypes' /\ ChildTypes'
    BY <1>2, <2>1 DEF Inv, ChildInv, SharedTypes, ChildTypes, subtasks
  <2>3. Plans' /\ Reach' /\ Cancels'
    BY <1>2, <2>1 DEF Inv, ChildInv, Plans, ChildrenOf, S!ChildrenOf, Reach, Reached, Loose, Cancels, subtasks
  <2>4. HandlesTellTheTruth'
    BY <1>2, <2>1 DEF Inv, ChildInv, HandlesTellTheTruth, S!HandlesTellTheTruth, subtasks
  <2>5. CallInv'
    BY <1>2, <2>1, CallsStay DEF Inv, CallInv, CallTypes, calls
  <2> QED BY <2>2, <2>3, <2>4, <2>5 DEF Inv, ChildInv
<1> QED BY InitInv, <1>1, <1>2, PTL DEF Spec

(* Tasks, children, calls and what stops and tools have still to do keep     *)
(* their types, and what a cancellation awaits is a child (new_task,         *)
(* cancel_tasks, call_mcp_tool_async and abortTask together).                *)
THEOREM TypeCorrect == Spec => []TypeOK
<1>1. Inv => TypeOK
  <2> SUFFICES ASSUME Inv PROVE TypeOK
    OBVIOUS
  <2>1. \A p \in Parents : tool[p] \in {"recording", "cancelled", "checking"} => plan[p] # {}
    BY DEF Inv, ChildInv, Plans
  <2>2. S!TypeOK
    BY <2>1 DEF Inv, ChildInv, SharedTypes, ChildTypes, S!TypeOK, Child
  <2>3. M!TypeOK
    BY DEF Inv, CallInv, CallTypes, M!TypeOK, Call
  <2> QED BY <2>2, <2>3 DEF Inv, SharedTypes, TypeOK
<1> QED BY Invariance, <1>1, PTL

(* The status of a handle says what became of the child, except where the    *)
(* code reads it before an await and writes it after (cancel_tasks,          *)
(* check_task_status), records a child that has reported already (new_task), *)
(* or wakes a child that has ended, which sets no handle (Task.deliver).     *)
THEOREM HandlesAreTrue == Spec => []HandlesTellTheTruth
<1>1. Inv => HandlesTellTheTruth
  BY DEF Inv, ChildInv
<1> QED BY Invariance, <1>1, PTL

(* abortTask and a completion leave no child and no call running, except what *)
(* is recorded, approved or woken after they looked, or woken while its       *)
(* handle is missing (abortBackgroundChildren, abortTask, Task.deliver).      *)
THEOREM StopIsComplete == Spec => []NothingLeftRunning
<1>1. Inv => NothingLeftRunning
  <2> SUFFICES ASSUME Inv PROVE NothingLeftRunning
    OBVIOUS
  <2>1. S!NoOrphans
    BY DEF Inv, ChildInv, Plans, Reach, Reached, Loose, Alive, S!NoOrphans, S!ChildrenOf, Child
  <2>2. \A k \in M!Call : \A p \in Callers :
            promise[k] = "pending" /\ caller[k] = p /\ stop[p] = "stopped" => status[k] = "cancelled" \/ k \in lost
    BY BackgroundAssumption
    DEF Inv, CallInv, CallTypes, HeldLost, ToldOnce, M!ToldOnce, M!Settled, KeptUntilTold, M!KeptUntilTold, M!Made, Call
  <2> QED BY <2>1, <2>2 DEF NothingLeftRunning
<1> QED BY Invariance, <1>1, PTL

(* No interleaving of wait_for_mcp_call, check_mcp_call_status, a call that   *)
(* settles and an abort tells an outcome twice, or another than the call had. *)
THEOREM OutcomesAreToldOnce == Spec => []ToldOnce
<1>1. Inv => ToldOnce
  BY DEF Inv, CallInv
<1> QED BY Invariance, <1>1, PTL

(* A call leaves the map of its task by being told or by the end of the task. *)
THEOREM OutcomesAreKept == Spec => []KeptUntilTold
<1>1. Inv => KeptUntilTold
  BY DEF Inv, CallInv
<1> QED BY Invariance, <1>1, PTL

LEMMA LimitInvariance == Spec => []LimitInv
<1>1. Init => LimitInv
  BY DEF Init, S!Init, LimitInv, Running, Spawning, Child
<1>2. ASSUME Inv, LimitInv, Next PROVE LimitInv'
  BY <1>2, SubtasksLimit, OthersLimit DEF Inv, Next
<1>3. ASSUME LimitInv, UNCHANGED vars PROVE LimitInv'
  BY <1>3, LimitStays DEF vars, subtasks, Running, Spawning
<1> QED BY Invariance, <1>1, <1>2, <1>3, PTL DEF Spec

(* countActiveTasks is compared with maxParallelTasks before an approval and *)
(* a creation are awaited: whatever number of tasks spawn at the same time,  *)
(* the children that have run since their creation without an ask are no     *)
(* more than the limit and one for every other task that spawns (new_task).  *)
(* Children that went on after an ask or were woken run in addition: they    *)
(* were not counted, or not compared with the limit.                         *)
THEOREM LimitIsHeld == Spec => []LimitHeld
<1>1. LimitInv => LimitHeld
  BY SameCount DEF LimitInv, LimitHeld, S!LimitHeld, Running, Spawning, Child
<1> QED BY LimitInvariance, <1>1, PTL
=============================================================================
