--------------------------- MODULE BackgroundWork ---------------------------
(***************************************************************************)
(* What a task has running in the background, its children (Subtasks) and  *)
(* its asynchronous MCP calls (McpCalls), and the ways in which its own    *)
(* loop is stopped and started again: abortTask and the instance that      *)
(* replaces the aborted one, Send Now, and the wake of a completed task.   *)
(***************************************************************************)
EXTENDS Naturals, FiniteSets

CONSTANTS Parents, Managers, Attended, MaxChild, Limit, Callers, MaxCall, Outcomes

ASSUME BackgroundAssumption ==
    /\ IsFiniteSet(Parents) /\ Managers \subseteq Parents /\ Callers \subseteq Managers
    /\ Attended \subseteq Parents /\ Callers # {}
    /\ Outcomes \subseteq {"result", "empty", "failure"}
    /\ MaxChild \in Nat /\ MaxCall \in Nat /\ Limit \in Nat

VARIABLES
    tool, stop,
    life, owner, handle, plan, todo,
    unseen, missed, raced, woken,                            \* of Subtasks
    caller, promise, status, held, awaited, told, lost       \* of McpCalls

subtasks == <<life, owner, handle, plan, todo, unseen, missed, raced, woken>>
calls == <<caller, promise, status, held, awaited, told, lost>>
vars == <<tool, stop, subtasks, calls>>

S == INSTANCE Subtasks
M == INSTANCE McpCalls

Init == S!Init /\ M!Init

(* The last part of abortTask, after the children: the calls are cancelled, *)
(* and only then the abort flag is set.                                     *)
StopDone(p) ==
    /\ stop[p] = "aborting"
    /\ S!ClearChildren(p)
    /\ M!CancelCalls(p)
    /\ stop' = [stop EXCEPT ![p] = "stopped"]
    /\ UNCHANGED tool

(* A tool that was not finished when its task was aborted is given up at the *)
(* next await that looks at the flag; an approval or a creation is not one.  *)
Resume(p) ==
    /\ stop[p] = "stopped" /\ tool[p] \in {"idle", "over"}
    /\ S!Rehydrate(p)
    /\ M!ForgetCalls(p)
    /\ stop' = [stop EXCEPT ![p] = "no"]
    /\ tool' = [tool EXCEPT ![p] = "idle"]

(* Send Now aborts the loop, but neither children nor calls, and restarts it. *)
Interrupt(p) ==
    /\ stop[p] = "no" /\ tool[p] # "over"
    /\ stop' = [stop EXCEPT ![p] = "interrupted"]
    /\ UNCHANGED <<tool, subtasks, calls>>

Restart(p) ==
    /\ stop[p] = "interrupted" /\ tool[p] \in {"idle", "over"}
    /\ stop' = [stop EXCEPT ![p] = "no"]
    /\ tool' = [tool EXCEPT ![p] = "idle"]
    /\ UNCHANGED <<subtasks, calls>>

(* A completed task that gets mail or a message runs on, in the same instance. *)
Wake(p) ==
    /\ stop[p] = "no" /\ tool[p] = "over"
    /\ tool' = [tool EXCEPT ![p] = "idle"]
    /\ UNCHANGED <<stop, subtasks, calls>>

Next ==
    \/ S!Next /\ UNCHANGED calls
    \/ M!Next /\ UNCHANGED subtasks
    \/ \E p \in Managers : StopDone(p) \/ Resume(p) \/ Interrupt(p) \/ Restart(p) \/ Wake(p)

Spec == Init /\ [][Next]_vars

(* For model checking: two children, or one and a call, at the same time. *)
Apart ==
    (\E k \in M!Call : M!Made(k)) => Cardinality({c \in S!Child : life[c] # "none"}) <= 1
-----------------------------------------------------------------------------
(* Properties.                                                             *)

ToolPhases == S!Phases \cup {"callAsk", "waiting"}

(* Both parts are well-typed, and so is what they share. *)
TypeOK ==
    /\ tool \in [Parents -> ToolPhases]
    /\ S!TypeOK /\ M!TypeOK

(* Subtasks: the limit on parallel tasks, and handles that tell the truth. *)
LimitHeld == S!LimitHeld
HandlesTellTheTruth == S!HandlesTellTheTruth

(* McpCalls: an outcome is told once, as it was, and kept until then. *)
ToldOnce == M!ToldOnce
KeptUntilTold == M!KeptUntilTold

(* A stop leaves nothing running in the background: no child but one that   *)
(* was being created when it began, and no call but one whose approval came *)
(* after it.                                                                *)
NothingLeftRunning ==
    /\ S!NoOrphans
    /\ \A k \in M!Call : \A p \in Callers :
          promise[k] = "pending" /\ caller[k] = p /\ stop[p] = "stopped" =>
              status[k] = "cancelled" \/ k \in lost
=============================================================================
