----------------------------- MODULE MCMailbox -----------------------------
(* Small instances of Mailbox for TLC.                                      *)
EXTENDS Mailbox

(* A notification and a request that outlive the clock, and a request that  *)
(* expires at its first tick: three envelopes contend for two slots.        *)
MCId == {"note", "ask", "old"}
MCKind == [note |-> "notification", ask |-> "request", old |-> "request"]
MCDeadline == [note |-> 2, ask |-> 2, old |-> 1]
=============================================================================
