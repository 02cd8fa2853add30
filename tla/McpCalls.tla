------------------------------ MODULE McpCalls ------------------------------
(***************************************************************************)
(* Asynchronous MCP calls of running tasks: call_mcp_tool_async starts a   *)
(* call and does not await it; wait_for_mcp_call and check_mcp_call_status *)
(* tell its outcome and release it from the map mcpAsyncCalls.             *)
(*                                                                         *)
(* `tool` and `stop` are shared with Subtasks: a task executes one tool at *)
(* a time, and BackgroundWork stops both its children and its calls.       *)
(***************************************************************************)
EXTENDS Naturals, FiniteSets

CONSTANTS
    Callers,  \* tasks that make calls
    MaxCall,  \* calls of all of them
    Outcomes  \* how a call may settle: "result", "empty", "failure"

Call == 1 .. MaxCall

VARIABLES
    tool,     \* of each task: the tool it executes
    stop,     \* of each task: whether it is being stopped
    caller,   \* of each call that was started: its task
    promise,  \* of each call: "none", "pending", or how it settled
    status,   \* of each call: the status of its handle
    held,     \* calls whose handles are in the map of their task
    awaited,  \* of each task: the calls its wait_for_mcp_call looks at
    told,     \* history: what the model was told of each call
    lost      \* history: calls that had settled untold when their task was stopped,
              \* or that were started after that

calls == <<caller, promise, status, held, awaited, told, lost>>
vars == <<tool, stop, calls>>

Made(k) == promise[k] # "none"
Settled(k) == promise[k] \in Outcomes
Fresh == {k \in Call : ~Made(k) /\ \A j \in Call : j < k => Made(j)}
Aborted(p) == stop[p] \in {"stopped", "interrupted"}
Ready(p) == tool[p] = "idle" /\ ~Aborted(p)
Goes(p, to) == tool' = [tool EXCEPT ![p] = to]

Init ==
    /\ caller = [k \in Call |-> CHOOSE p \in Callers : TRUE]
    /\ promise = [k \in Call |-> "none"]
    /\ status = [k \in Call |-> "none"]
    /\ held = {}
    /\ awaited = [p \in Callers |-> {}]
    /\ told = [k \in Call |-> "nothing"]
    /\ lost = {}
-----------------------------------------------------------------------------
(* call_mcp_tool_async. *)
AskCall(p) ==
    /\ Ready(p)
    /\ Goes(p, "callAsk")
    /\ UNCHANGED <<stop, calls>>

CallRefused(p) ==
    /\ tool[p] = "callAsk"
    /\ Goes(p, "idle")
    /\ UNCHANGED <<stop, calls>>

(* The call starts when the approval comes, even to a task stopped meanwhile. *)
StartCall(p) ==
    /\ tool[p] = "callAsk"
    /\ Goes(p, "idle")
    /\ \E k \in Fresh :
        /\ caller' = [caller EXCEPT ![k] = p]
        /\ promise' = [promise EXCEPT ![k] = "pending"]
        /\ status' = [status EXCEPT ![k] = "running"]
        /\ held' = held \cup {k}
        /\ lost' = IF stop[p] = "stopped" THEN lost \cup {k} ELSE lost
    /\ UNCHANGED <<stop, awaited, told>>

(* The finalizer; a call that was cancelled settles too, and changes nothing. *)
StatusOf(outcome) == IF outcome = "result" THEN "completed" ELSE "error"
Settle(k) ==
    /\ promise[k] = "pending"
    /\ \E outcome \in Outcomes :
        /\ promise' = [promise EXCEPT ![k] = outcome]
        /\ status' = [status EXCEPT ![k] = IF @ = "running" THEN StatusOf(outcome) ELSE @]
    /\ UNCHANGED <<tool, stop, caller, held, awaited, told, lost>>
-----------------------------------------------------------------------------
(* wait_for_mcp_call: any or all of the calls, a timeout and the abort       *)
(* signal race, so it may return with any of them settled.                   *)
Wait(p) ==
    /\ Ready(p)
    /\ \E ks \in SUBSET {k \in held : caller[k] = p} \ {{}} :
        awaited' = [awaited EXCEPT ![p] = ks]
    /\ Goes(p, "waiting")
    /\ UNCHANGED <<stop, caller, promise, status, held, told, lost>>

(* Its record of a call is its own: an empty answer is told as completed. *)
RecordOf(k) == IF promise[k] = "failure" THEN "error" ELSE "completed"

(* Mutant: the calls that timed out are released as well. *)
WaitReleasesAll(p) ==
    /\ tool[p] = "waiting"
    /\ LET read == IF Aborted(p) THEN {} ELSE {k \in awaited[p] : Settled(k)} IN
       /\ told' = [k \in Call |-> IF k \in read THEN RecordOf(k) ELSE told[k]]
       /\ held' = IF Aborted(p) THEN held ELSE held \ awaited[p]
    /\ awaited' = [awaited EXCEPT ![p] = {}]
    /\ Goes(p, "idle")
    /\ UNCHANGED <<stop, caller, promise, status, lost>>

(* A task aborted meanwhile tells nothing and releases nothing; otherwise a  *)
(* call that settled is told and released, the others stay.                  *)
WaitReturns(p) ==
    /\ tool[p] = "waiting"
    /\ LET read == IF Aborted(p) THEN {} ELSE {k \in awaited[p] : Settled(k)} IN
       /\ told' = [k \in Call |-> IF k \in read THEN RecordOf(k) ELSE told[k]]
       /\ held' = held \ read
    /\ awaited' = [awaited EXCEPT ![p] = {}]
    /\ Goes(p, "idle")
    /\ UNCHANGED <<stop, caller, promise, status, lost>>

(* Mutant: an error is told but not released. *)
CheckKeeps(p) ==
    /\ Ready(p)
    /\ \E k \in held :
        /\ caller[k] = p /\ status[k] # "running"
        /\ told' = [told EXCEPT ![k] = status[k]]
        /\ held' = IF status[k] = "error" THEN held ELSE held \ {k}
    /\ UNCHANGED <<tool, stop, caller, promise, status, awaited, lost>>

(* check_mcp_call_status, of a call that does not run any more. *)
Check(p) ==
    /\ Ready(p)
    /\ \E k \in held :
        /\ caller[k] = p /\ status[k] # "running"
        /\ told' = [told EXCEPT ![k] = status[k]]
        /\ held' = held \ {k}
    /\ UNCHANGED <<tool, stop, caller, promise, status, awaited, lost>>
-----------------------------------------------------------------------------
OfCaller(p) == {k \in Call : Made(k) /\ caller[k] = p}

(* The part of abortTask that is about calls: those that run are aborted, *)
(* and the map is cleared.                                                *)
CancelCalls(p) ==
    /\ status' = [k \in Call |-> IF k \in held /\ caller[k] = p /\ status[k] = "running"
                                 THEN "cancelled" ELSE status[k]]
    /\ held' = held \ OfCaller(p)
    /\ lost' = lost \cup {k \in held : caller[k] = p /\ Settled(k)}
    /\ UNCHANGED <<caller, promise, awaited, told>>

(* A new instance of the task has an empty map. *)
ForgetCalls(p) ==
    /\ held' = held \ OfCaller(p)
    /\ UNCHANGED <<caller, promise, status, awaited, told, lost>>

Next ==
    \/ \E p \in Callers : \/ AskCall(p) \/ CallRefused(p) \/ StartCall(p)
                          \/ Wait(p) \/ WaitReturns(p) \/ Check(p)
    \/ \E k \in Call : Settle(k)
-----------------------------------------------------------------------------
(* Properties.                                                             *)

(* Every variable has its type; what is told or held was made. *)
TypeOK ==
    /\ caller \in [Call -> Callers]
    /\ promise \in [Call -> Outcomes \cup {"none", "pending"}]
    /\ status \in [Call -> {"none", "running", "completed", "error", "cancelled"}]
    /\ held \subseteq Call /\ lost \subseteq Call
    /\ awaited \in [Callers -> SUBSET Call]
    /\ told \in [Call -> {"nothing", "completed", "error"}]

(* The outcome of a call is told once, by one tool, and as the call ended: a *)
(* call that was told is out of the map, so nothing can tell it again, and   *)
(* what was told agrees with how its promise settled, also when the call     *)
(* was cancelled, awaited or checked before.                                 *)
ToldOnce ==
    \A k \in Call : told[k] # "nothing" =>
        /\ k \notin held
        /\ promise[k] = "result" => told[k] = "completed"
        /\ promise[k] = "failure" => told[k] = "error"
        /\ Settled(k)

(* A call nobody has told the model about can still be asked for, whatever   *)
(* timed out, was interrupted or completed meanwhile, unless it was stopped  *)
(* with its task, had settled unread when the task was stopped, or was       *)
(* started after that.                                                       *)
KeptUntilTold ==
    \A k \in Call : Made(k) /\ told[k] = "nothing" /\ k \notin held =>
        status[k] = "cancelled" \/ k \in lost
=============================================================================
