------------------------------ MODULE Subtasks ------------------------------
(***************************************************************************)
(* The children of running tasks: new_task and its limit on parallel       *)
(* tasks, cancel_tasks, check_task_status, a child's asks, its completion, *)
(* what wakes it after its end, a parent's completion and the handles by   *)
(* which a parent knows its children.                                      *)
(*                                                                         *)
(* A child is known in three places that change at different moments: it   *)
(* runs before its parent has a handle for it, it ends before the handle   *)
(* says so, and whoever aborts it looks at the handles. A child that waits *)
(* in an ask gives up its place among the tasks that count, and one that   *)
(* goes on or is woken takes a place that nobody compares with the limit.  *)
(* `tool` and `stop` are shared with McpCalls; BackgroundWork composes the *)
(* two and stops a parent.                                                 *)
(***************************************************************************)
EXTENDS Naturals, FiniteSets

CONSTANTS
    Parents,   \* tasks that spawn children
    Managers,  \* those that also cancel children, complete and are stopped
    Attended,  \* those whose spawns the user may be asked about
    MaxChild,  \* children of all parents together
    Limit      \* maxParallelTasks; 0 is no limit

Child == 1 .. MaxChild

VARIABLES
    tool,    \* of each parent: the tool it executes and how far it is
    stop,    \* of each parent: "no", "aborting", "stopped", "interrupted"
    life,    \* of each child
    owner,   \* of each child that was created: its parent
    handle,  \* of each child: its status in its parent's backgroundChildren
    plan,    \* of each parent: the child it spawns, the children its tool has to abort
    todo,    \* of each parent: the children a stop has still to abort
    unseen,  \* history: children recorded or woken where the stop of their parent misses them
    missed,  \* history: children whose report their handle does not show
    raced,   \* history: children that reported while they were to be cancelled
    woken    \* history: children that were woken since they reported or were cancelled

histories == <<unseen, missed, raced, woken>>
vars == <<tool, stop, life, owner, handle, plan, todo, histories>>

Over == {"completed", "cancelled"}
Runs == {"running", "resumed"}  \* since its creation without a break, or again
Ended == {"completed", "aborted"}
Reported == {"reporting", "completed"}

ChildrenOf(p) == {c \in Child : life[c] # "none" /\ owner[c] = p}
Handles(p) == {c \in ChildrenOf(p) : handle[c] # "none"}
Fresh == {c \in Child : life[c] = "none" /\ \A b \in Child : b < c => life[b] # "none"}
(* Task.abort: set from the end of a stop, or by Send Now, to a restart. *)
Aborted(p) == stop[p] \in {"stopped", "interrupted"}
Ready(p) == tool[p] = "idle" /\ ~Aborted(p)

(* countActiveTasks: a task that waits for its user ("waiting_input"), has   *)
(* ended or is stopped does not count.                                       *)
Active ==
    Cardinality({c \in Child : life[c] \in Runs \cup {"completing", "reporting"}})
    + Cardinality({p \in Parents :
          tool[p] \notin {"asking", "cancelAsk", "callAsk", "over"} /\ stop[p] # "stopped"})

Init ==
    /\ tool = [p \in Parents |-> "idle"]
    /\ stop = [p \in Parents |-> "no"]
    /\ life = [c \in Child |-> "none"]
    /\ owner = [c \in Child |-> CHOOSE p \in Parents : TRUE]
    /\ handle = [c \in Child |-> "none"]
    /\ plan = [p \in Parents |-> {}] /\ todo = [p \in Parents |-> {}]
    /\ unseen = {} /\ missed = {} /\ raced = {} /\ woken = {}

Goes(p, to) == tool' = [tool EXCEPT ![p] = to]
-----------------------------------------------------------------------------
(* new_task.                                                               *)

(* Mutant: one task more than the limit. *)
CountInclusive(p) ==
    /\ Ready(p)
    /\ Limit > 0 => Active <= Limit
    /\ Goes(p, "counted")
    /\ UNCHANGED <<stop, life, owner, handle, plan, todo, histories>>

(* The limit is compared with the tasks that run now ... *)
Count(p) ==
    /\ Ready(p)
    /\ Limit > 0 => Active < Limit
    /\ Goes(p, "counted")
    /\ UNCHANGED <<stop, life, owner, handle, plan, todo, histories>>

(* ... then the costs are added up and the approval is awaited: given by the *)
(* settings at once, or by the user. Either may refuse, and an ask ends when *)
(* its task is aborted.                                                      *)
AsksUser(p) ==
    /\ tool[p] = "counted" /\ ~Aborted(p)
    /\ p \in Attended
    /\ Goes(p, "asking")
    /\ UNCHANGED <<stop, life, owner, handle, plan, todo, histories>>

Approved(p) ==
    /\ tool[p] = "counted" \/ (tool[p] = "asking" /\ ~Aborted(p))
    /\ Goes(p, "creating")
    /\ UNCHANGED <<stop, life, owner, handle, plan, todo, histories>>

Refused(p) ==
    /\ tool[p] \in {"counted", "asking", "creating"}
    /\ Goes(p, "idle")
    /\ UNCHANGED <<stop, life, owner, handle, plan, todo, histories>>

(* createTask starts the child; registerBackgroundTask follows at once. *)
Create(p) ==
    /\ tool[p] = "creating"
    /\ Goes(p, "recording")
    /\ \E c \in Fresh :
        /\ life' = [life EXCEPT ![c] = "running"]
        /\ owner' = [owner EXCEPT ![c] = p]
        /\ plan' = [plan EXCEPT ![p] = {c}]
    /\ UNCHANGED <<stop, handle, todo, histories>>

(* The parent's history is written, and only then the handle is set. *)
Record(p) ==
    /\ tool[p] = "recording"
    /\ Goes(p, "idle")
    /\ \E c \in plan[p] :
        /\ handle' = [handle EXCEPT ![c] = "starting"]
        /\ missed' = IF life[c] \in Reported THEN missed \cup {c} ELSE missed
        /\ unseen' = IF stop[p] \in {"aborting", "stopped"} THEN unseen \cup {c} ELSE unseen \ {c}
    /\ plan' = [plan EXCEPT ![p] = {}]
    /\ UNCHANGED <<stop, life, owner, todo, raced, woken>>
-----------------------------------------------------------------------------
(* A child.                                                                *)

(* An approval or a question: the child waits for an answer ... *)
AskChild(c) ==
    /\ life[c] \in Runs
    /\ life' = [life EXCEPT ![c] = "asking"]
    /\ UNCHANGED <<tool, stop, owner, handle, plan, todo, histories>>

(* ... and with it goes on, whatever runs by then. *)
Answered(c) ==
    /\ life[c] = "asking"
    /\ life' = [life EXCEPT ![c] = "resumed"]
    /\ UNCHANGED <<tool, stop, owner, handle, plan, todo, histories>>

(* attempt_completion begins: file statistics, the child's own history. *)
Finish(c) ==
    /\ life[c] \in Runs
    /\ life' = [life EXCEPT ![c] = "completing"]
    /\ UNCHANGED <<tool, stop, owner, handle, plan, todo, histories>>

(* The handle, if its parent has one, and the delivery of the result. *)
Report(c) ==
    /\ life[c] = "completing"
    /\ life' = [life EXCEPT ![c] = "reporting"]
    /\ handle' = [handle EXCEPT ![c] = IF @ = "none" THEN @ ELSE "completed"]
    /\ raced' = IF \E p \in Parents : tool[p] \in {"cancelAsk", "cancelling", "cancelled"} /\ c \in plan[p]
                THEN raced \cup {c} ELSE raced
    /\ missed' = missed \ {c}
    /\ woken' = woken \ {c}
    /\ UNCHANGED <<tool, stop, owner, plan, todo, unseen>>

(* TaskCompleted: the child no longer counts as running. *)
End(c) ==
    /\ life[c] = "reporting"
    /\ life' = [life EXCEPT ![c] = "completed"]
    /\ UNCHANGED <<tool, stop, owner, handle, plan, todo, histories>>

(* Mail that says wake, or a message of the user, restarts a child that has  *)
(* ended: no limit is compared and no handle is set. Its parent's stop does   *)
(* not find it without a handle, or once it has aborted the handle's child.   *)
WakeChild(c) ==
    /\ life[c] \in Ended
    /\ life' = [life EXCEPT ![c] = "resumed"]
    /\ woken' = woken \cup {c}
    /\ LET p == owner[c] IN
       unseen' = IF handle[c] = "none" \/ stop[p] \in {"aborting", "stopped"}
                                       \/ tool[p] \in {"ending", "over"}
                 THEN unseen \cup {c} ELSE unseen \ {c}
    /\ UNCHANGED <<tool, stop, owner, handle, plan, todo, missed, raced>>

(* Child.abortTask: a child that executes attempt_completion is past stopping. *)
AbortedLife(c) == IF life[c] \in Runs \cup {"asking"} THEN "aborted" ELSE life[c]

(* The user stops a child in its own view. *)
StopChild(c) ==
    /\ life[c] \in Runs \cup {"asking"}
    /\ life' = [life EXCEPT ![c] = AbortedLife(c)]
    /\ UNCHANGED <<tool, stop, owner, handle, plan, todo, histories>>
-----------------------------------------------------------------------------
(* check_task_status.                                                       *)

(* A status that is not final is looked up: a child that has ended is seen   *)
(* at once, otherwise its history is read.                                   *)
Check(p) ==
    /\ Ready(p)
    /\ \E c \in Handles(p) :
        /\ handle[c] \notin Over
        /\ IF life[c] = "completed"
           THEN /\ handle' = [handle EXCEPT ![c] = "completed"]
                /\ missed' = missed \ {c}
                /\ UNCHANGED <<tool, plan>>
           ELSE /\ plan' = [plan EXCEPT ![p] = {c}]
                /\ Goes(p, "checking")
                /\ UNCHANGED <<handle, missed>>
    /\ UNCHANGED <<stop, life, owner, todo, unseen, raced, woken>>

(* What the history or the instance said is written to the handle, whatever  *)
(* the child has written to it meanwhile.                                    *)
CheckEnds(p) ==
    /\ tool[p] = "checking"
    /\ Goes(p, "idle")
    /\ \E c \in plan[p], says \in {"completed", "running"} :
        /\ says = "completed" => life[c] = "completed" \/ c \in woken
        /\ handle' = [handle EXCEPT ![c] = IF @ = "none" THEN @ ELSE says]
        /\ missed' = IF handle[c] # "none" /\ says = "running" /\ life[c] \in Reported
                     THEN missed \cup {c} ELSE missed \ {c}
    /\ plan' = [plan EXCEPT ![p] = {}]
    /\ UNCHANGED <<stop, life, owner, todo, unseen, raced, woken>>
-----------------------------------------------------------------------------
(* cancel_tasks.                                                           *)

(* Mutant: children that are over are cancelled as well. *)
PlanCancelAll(p) ==
    /\ Ready(p)
    /\ \E cs \in SUBSET Handles(p) \ {{}} : plan' = [plan EXCEPT ![p] = cs]
    /\ Goes(p, "cancelAsk")
    /\ UNCHANGED <<stop, life, owner, handle, todo, histories>>

(* What to abort is decided by the handles, before the approval. A child    *)
(* without one is found in the history, but nothing is done about it.       *)
PlanCancel(p) ==
    /\ Ready(p)
    /\ \E cs \in SUBSET Handles(p) \ {{}} :
        plan' = [plan EXCEPT ![p] = {c \in cs : handle[c] \notin Over}]
    /\ Goes(p, "cancelAsk")
    /\ UNCHANGED <<stop, life, owner, handle, todo, histories>>

CancelRefused(p) ==
    /\ tool[p] = "cancelAsk"
    /\ plan' = [plan EXCEPT ![p] = {}]
    /\ Goes(p, "idle")
    /\ UNCHANGED <<stop, life, owner, handle, todo, histories>>

CancelApproved(p) ==
    /\ tool[p] = "cancelAsk"
    /\ Goes(p, "cancelling")
    /\ UNCHANGED <<stop, life, owner, handle, plan, todo, histories>>

(* The next child to cancel; the order of the list does not matter. *)
NextOf(cs) == CHOOSE c \in cs : TRUE

(* Mutant: the child is off the list before it is marked. *)
AbortPlannedDrops(p) ==
    /\ tool[p] = "cancelling" /\ plan[p] # {}
    /\ LET c == NextOf(plan[p]) IN
       /\ plan' = [plan EXCEPT ![p] = @ \ {c}]
       /\ life' = [life EXCEPT ![c] = AbortedLife(c)]
    /\ Goes(p, "cancelled")
    /\ UNCHANGED <<stop, owner, handle, todo, histories>>

(* One child after the other: its abortTask is awaited ... *)
AbortPlanned(p) ==
    /\ tool[p] = "cancelling" /\ plan[p] # {}
    /\ LET c == NextOf(plan[p]) IN
       IF handle[c] = "none"
       THEN plan' = [plan EXCEPT ![p] = @ \ {c}] /\ UNCHANGED <<tool, life, woken>>
       ELSE /\ life' = [life EXCEPT ![c] = AbortedLife(c)]
            /\ woken' = IF AbortedLife(c) = "aborted" THEN woken \ {c} ELSE woken
            /\ Goes(p, "cancelled")
            /\ UNCHANGED plan
    /\ UNCHANGED <<stop, owner, handle, todo, unseen, missed, raced>>

(* ... and the handle, looked up before, then says cancelled. A stop may have *)
(* cleared the map meanwhile: the handle is out of it and stays out.          *)
MarkCancelled(p) ==
    /\ tool[p] = "cancelled"
    /\ LET c == NextOf(plan[p]) IN
       /\ handle' = [handle EXCEPT ![c] = IF @ = "none" THEN @ ELSE "cancelled"]
       /\ plan' = [plan EXCEPT ![p] = @ \ {c}]
    /\ Goes(p, "cancelling")
    /\ UNCHANGED <<stop, life, owner, todo, histories>>

CancelDone(p) ==
    /\ tool[p] = "cancelling" /\ plan[p] = {}
    /\ Goes(p, "idle")
    /\ UNCHANGED <<stop, life, owner, handle, plan, todo, histories>>
-----------------------------------------------------------------------------
(* abortBackgroundChildren: all the children the map has when it begins, at *)
(* the same time, and then the map is cleared.                              *)

Cleared(p) == [c \in Child |-> IF c \in ChildrenOf(p) THEN "none" ELSE handle[c]]
(* What a handle missed is of no interest without it. *)
Forgotten(p) ==
    /\ missed' = missed \ ChildrenOf(p) /\ raced' = raced \ ChildrenOf(p)
    /\ woken' = woken \ ChildrenOf(p)

(* A parent that completes aborts its children and ends its loop. *)
Complete(p) ==
    /\ Ready(p)
    /\ Goes(p, "ending")
    /\ plan' = [plan EXCEPT ![p] = Handles(p)]
    /\ UNCHANGED <<stop, life, owner, handle, todo, histories>>

AbortOwn(p) ==
    /\ tool[p] = "ending"
    /\ \E c \in plan[p] :
        /\ life' = [life EXCEPT ![c] = AbortedLife(c)]
        /\ plan' = [plan EXCEPT ![p] = @ \ {c}]
    /\ UNCHANGED <<tool, stop, owner, handle, todo, histories>>

Completed(p) ==
    /\ tool[p] = "ending" /\ plan[p] = {}
    /\ Goes(p, "over")
    /\ handle' = Cleared(p)
    /\ Forgotten(p)
    /\ UNCHANGED <<stop, life, owner, plan, todo, unseen>>

(* Mutant: the children that look as if they had not started are left out. *)
StopRunning(p) ==
    /\ stop[p] \in {"no", "interrupted"}
    /\ stop' = [stop EXCEPT ![p] = "aborting"]
    /\ todo' = [todo EXCEPT ![p] = {c \in Handles(p) : handle[c] # "starting"}]
    /\ UNCHANGED <<tool, life, owner, handle, plan, histories>>

(* abortTask of a parent, up to its last part (BackgroundWork!StopDone). The *)
(* parent's loop goes on until that sets the abort flag.                     *)
Stop(p) ==
    /\ stop[p] \in {"no", "interrupted"}
    /\ stop' = [stop EXCEPT ![p] = "aborting"]
    /\ todo' = [todo EXCEPT ![p] = Handles(p)]
    /\ UNCHANGED <<tool, life, owner, handle, plan, histories>>

AbortNext(p) ==
    /\ stop[p] = "aborting"
    /\ \E c \in todo[p] :
        /\ life' = [life EXCEPT ![c] = AbortedLife(c)]
        /\ todo' = [todo EXCEPT ![p] = @ \ {c}]
    /\ UNCHANGED <<tool, stop, owner, handle, plan, histories>>

ClearChildren(p) ==
    /\ todo[p] = {}
    /\ handle' = Cleared(p)
    /\ Forgotten(p)
    /\ UNCHANGED <<life, owner, plan, todo, unseen>>

(* rehydrateBackgroundChildren, for the instance that replaces a stopped one: *)
(* every child in the history gets a handle, by the state it is in now.       *)
Rehydrate(p) ==
    /\ handle' = [c \in Child |->
          IF c \notin ChildrenOf(p) THEN handle[c]
          ELSE IF life[c] = "completed" THEN "completed" ELSE "running"]
    /\ unseen' = unseen \ ChildrenOf(p)
    /\ missed' = (missed \ ChildrenOf(p)) \cup {c \in ChildrenOf(p) : life[c] = "reporting"}
    /\ raced' = raced \ ChildrenOf(p) /\ woken' = woken \ ChildrenOf(p)
    /\ UNCHANGED <<life, owner, plan, todo>>

Spawns(p) == Count(p) \/ AsksUser(p) \/ Approved(p) \/ Refused(p) \/ Create(p) \/ Record(p)

Manages(p) ==
    \/ PlanCancel(p) \/ CancelRefused(p) \/ CancelApproved(p)
    \/ AbortPlanned(p) \/ MarkCancelled(p) \/ CancelDone(p)
    \/ Check(p) \/ CheckEnds(p)
    \/ Complete(p) \/ AbortOwn(p) \/ Completed(p)
    \/ Stop(p) \/ AbortNext(p)

OfChild(c) ==
    \/ AskChild(c) \/ Answered(c) \/ Finish(c) \/ Report(c) \/ End(c)
    \/ WakeChild(c) \/ StopChild(c)

Next ==
    \/ \E p \in Parents : Spawns(p)
    \/ \E p \in Managers : Manages(p)
    \/ \E c \in Child : OfChild(c)
-----------------------------------------------------------------------------
(* Properties.                                                             *)

Phases ==
    {"idle", "over", "counted", "asking", "creating", "recording", "cancelAsk",
     "cancelling", "cancelled", "checking", "ending"}

(* Every variable has its type, and a cancel that waits for an abort has a child to abort. *)
TypeOK ==
    /\ stop \in [Parents -> {"no", "aborting", "stopped", "interrupted"}]
    /\ life \in [Child -> {"none", "asking", "completing"} \cup Runs \cup Reported \cup Ended]
    /\ owner \in [Child -> Parents]
    /\ handle \in [Child -> {"none", "starting", "running", "completed", "cancelled"}]
    /\ plan \in [Parents -> SUBSET Child] /\ todo \in [Parents -> SUBSET Child]
    /\ {unseen, missed, raced, woken} \subseteq SUBSET Child
    /\ \A p \in Parents : tool[p] \in {"recording", "cancelled", "checking"} => plan[p] # {}

(* What maxParallelTasks bounds: the children that have run since they were *)
(* created without waiting in an ask. For one agent that spawns the bound   *)
(* is exact, and every other one that spawns at the same time may add one.  *)
(* A child that waited, or was woken, runs in addition to these.            *)
LimitHeld ==
    LET unbroken == {c \in Child : life[c] = "running"}
        spawning == {p \in Parents : tool[p] \in {"counted", "asking", "creating"}}
    IN Limit > 0 /\ unbroken # {} =>
           Cardinality(unbroken) + Cardinality(spawning) + 2 <= Limit + Cardinality(Parents)

(* A parent that completed, or whose stop is done, has left no child         *)
(* running or waiting, but for a child that was being created when the stop  *)
(* began, and for one that was woken while or after the stop ended it.       *)
NoOrphans ==
    \A p \in Parents : \A c \in ChildrenOf(p) :
        /\ stop[p] = "stopped" \/ (tool[p] = "over" /\ stop[p] = "no")
        /\ life[c] \in Runs \cup {"asking"}
        => c \in unseen \/ (tool[p] = "recording" /\ c \in plan[p])

(* What a handle says is so. "completed": the child has reported, and has    *)
(* not been woken since. "cancelled": it does not run and did not complete,  *)
(* unless it reported between the plan and its cancellation, or was woken    *)
(* after it. Anything else: it has not ended, unless it reported before it   *)
(* was recorded or while its status was being looked up.                     *)
HandlesTellTheTruth ==
    \A c \in Child :
        /\ handle[c] = "completed" => life[c] \in Reported \/ c \in woken \cup raced
        /\ handle[c] = "cancelled" =>
               life[c] \in {"aborted", "completing"} \/ c \in raced \cup missed \cup woken
        /\ handle[c] \in {"starting", "running"} => life[c] \notin Reported \/ c \in missed
=============================================================================
