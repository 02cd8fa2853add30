---------------------------- MODULE StateRegister ----------------------------
(***************************************************************************)
(* What the persistence of a task's lifecycle state promises: the durable  *)
(* state only moves FORWARD through the states that were set since the     *)
(* process started.  States may be skipped, an older one never replaces a  *)
(* newer one.                                                              *)
(***************************************************************************)
EXTENDS Naturals, Sequences

CONSTANTS
    State,   \* lifecycle states
    First    \* the state a record is created with, if it has one

VARIABLES
    log,      \* the states set since the process started, oldest first
    flushed,  \* how far in the log the durable state has come
    durable   \* the state in the record: "none" without a record, "unset"
              \* in a record that has no state yet

vars == <<log, flushed, durable>>

Init ==
    /\ log = <<>>
    /\ flushed = 0
    /\ durable = "none"

Set ==
    /\ \E s \in State : log' = Append(log, s)
    /\ UNCHANGED <<flushed, durable>>

Flush ==
    /\ \E k \in (flushed + 1) .. Len(log) : flushed' = k /\ durable' = log[k]
    /\ UNCHANGED log

\* A record is created, with or without the state the task starts in.
Create ==
    /\ flushed = 0
    /\ durable' = First
    /\ UNCHANGED <<log, flushed>>

CreateUnset ==
    /\ durable = "none"
    /\ durable' = "unset"
    /\ UNCHANGED <<log, flushed>>

Delete ==
    /\ durable' = "none"
    /\ UNCHANGED <<log, flushed>>

\* The process restarts: only the durable state is left.
Restart ==
    /\ log' = <<>>
    /\ flushed' = 0
    /\ UNCHANGED durable

Next == Set \/ Flush \/ Create \/ CreateUnset \/ Delete \/ Restart

Spec == Init /\ [][Next]_vars
=============================================================================
