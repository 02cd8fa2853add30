----------------------------- MODULE AtomicFile -----------------------------
(***************************************************************************)
(* What a safe write of a file promises.  Processes ask for contents to be *)
(* written and a process' writes are done in the order they were asked     *)
(* for.  The file changes in one step, from what it held to what a write   *)
(* brings, and a write is reported successful exactly if it made that step.*)
(***************************************************************************)
EXTENDS Sequences

CONSTANTS Procs, Contents, Absent

VARIABLES
    value,    \* what the file holds
    queue,    \* the writes of each process, the current one first
    done,     \* whether the current write of a process has changed the file
    outcome   \* what the last write of a process reported

vars == <<value, queue, done, outcome>>

Init ==
    /\ value \in Contents \cup {Absent}
    /\ queue = [p \in Procs |-> <<>>]
    /\ done = [p \in Procs |-> FALSE]
    /\ outcome = [p \in Procs |-> "none"]

Call(p, v) ==
    /\ queue' = [queue EXCEPT ![p] = Append(@, v)]
    /\ UNCHANGED <<value, done, outcome>>

Write(p) ==
    /\ queue[p] # <<>> /\ ~done[p]
    /\ value' = Head(queue[p])
    /\ done' = [done EXCEPT ![p] = TRUE]
    /\ UNCHANGED <<queue, outcome>>

Settle(p) ==
    /\ queue[p] # <<>>
    /\ queue' = [queue EXCEPT ![p] = Tail(@)]
    /\ done' = [done EXCEPT ![p] = FALSE]
    /\ outcome' = [outcome EXCEPT ![p] = IF done[p] THEN "written" ELSE "failed"]
    /\ UNCHANGED value

Crash(p) ==
    /\ queue' = [queue EXCEPT ![p] = <<>>]
    /\ done' = [done EXCEPT ![p] = FALSE]
    /\ outcome' = [outcome EXCEPT ![p] = "none"]
    /\ UNCHANGED value

Next == \E p \in Procs :
    (\E v \in Contents : Call(p, v)) \/ Write(p) \/ Settle(p) \/ Crash(p)

Spec == Init /\ [][Next]_vars
=============================================================================
