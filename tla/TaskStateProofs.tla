--------------------------- MODULE TaskStateProofs ---------------------------
(* Theorems about TaskState, for every bound and, except for its type, for  *)
(* every set of clients that does not spread earlier history items.         *)
EXTENDS TaskState, TLAPS

LEMMA SequenceFacts ==
    ASSUME NEW S, NEW q \in Seq(S)
    PROVE  /\ Len(q) \in Nat
           /\ \A k \in 1 .. Len(q) : q[k] \in S
           /\ \A e \in S : /\ Append(q, e) \in Seq(S)
                           /\ Len(Append(q, e)) = Len(q) + 1
                           /\ Append(q, e)[Len(q) + 1] = e
                           /\ \A k \in 1 .. Len(q) : Append(q, e)[k] = q[k]
           /\ q # <<>> <=> Len(q) > 0
           /\ q # <<>> => /\ Head(q) \in S /\ Head(q) = q[1]
                          /\ Tail(q) \in Seq(S)
                          /\ Len(Tail(q)) = Len(q) - 1
                          /\ \A k \in 1 .. Len(q) - 1 : Tail(q)[k] = q[k + 1]
OBVIOUS

LEMMA StateFacts ==
    /\ "running" \in State /\ "idle" \in State /\ "paused" \in State
    /\ "none" \notin State /\ "unset" \notin State
    /\ "keep" \notin State /\ "delete" \notin State
    /\ \A s \in State \cup {"unset"} : Sanitize(s) \in State
BY DEF State, Transient, Terminal, Completed, Sanitize

LEMMA OpFacts ==
    /\ \A s \in State \cup {"keep", "delete"} : Op(s) \in Ops /\ Op(s).state = s /\ ~Own(Op(s))
    /\ \A r \in State \cup {"none", "unset"}, op \in Ops :
          /\ Applied(r, op) \in State \cup {"none", "unset"}
          /\ op.state = "delete" => Applied(r, op) = "none"
          /\ op.state = "keep" /\ r = "none" => Applied(r, op) = "unset"
          /\ op.state = "keep" /\ r # "none" => Applied(r, op) = r
          /\ op.state \in State => Applied(r, op) = op.state
BY StateFacts DEF Op, Ops, Own, Applied
-----------------------------------------------------------------------------
(***************************************************************************)
(* The chain and the store.  The manager has at most one patch in the      *)
(* store's queue, and it carries the state of the chain's head: that is    *)
(* why finishing it may take the head off the chain.                       *)
(***************************************************************************)
PatchOfHead ==
    \A k \in 1 .. Len(lock) : Own(lock[k]) =>
        /\ chain # <<>>
        /\ lock[k].state = Head(chain).state
        /\ \A j \in 1 .. Len(lock) : Own(lock[j]) => j = k

TypeInv == TypeOK /\ PatchOfHead

LEMMA InitType == Init => TypeInv
<1> SUFFICES ASSUME Init PROVE TypeInv
  OBVIOUS
<1>1. version \in 0 .. MaxVersion /\ flushed \in 0 .. MaxVersion
  BY TaskStateAssumption DEF Init
<1>2. seeded \in BOOLEAN /\ lost \in BOOLEAN
  BY DEF Init
<1>3. chain \in Seq(Persists) /\ lock \in Seq(Ops) /\ log \in Seq(State) /\ Len(lock) = 0
  BY DEF Init
<1>4. record \in State \cup {"none", "unset"} /\ state \in State \cup {"none"}
      /\ snapshot \in State \cup {"none", "unset"}
  BY DEF Init
<1>5. TypeOK
  BY <1>1, <1>2, <1>3, <1>4 DEF TypeOK
<1>6. QED
  BY <1>3, <1>5 DEF TypeInv, PatchOfHead

(* What one step does to the flags, to the chain and to the store's queue.  *)
LEMMA FlagTypes ==
    ASSUME TypeOK, [Next]_vars
    PROVE  seeded' \in BOOLEAN /\ lost' \in BOOLEAN
<1>1. seeded \in BOOLEAN /\ lost \in BOOLEAN
  BY DEF TypeOK
<1>2. CASE Report \/ Aborted \/ UNCHANGED vars
  BY <1>1, <1>2 DEF Report, Aborted, Set, vars
<1>3. CASE Restore \/ Register \/ Create \/ Unmanage \/ Restart
  BY <1>1, <1>3 DEF Restore, Register, Create, Unmanage, Restart
<1>4. CASE Persist
  BY <1>1, <1>4, Zenon
     DEF Persist, PersistStale, PersistNoRecord, PersistEqual, PersistWrite, Settle, Orphaned
<1>5. CASE SaveMetadata \/ TakeSnapshot \/ WriteSnapshot \/ DeleteRecord
  BY <1>1, <1>5, Zenon DEF SaveMetadata, TakeSnapshot, WriteSnapshot, DeleteRecord, Enqueue
<1>6. CASE StoreDone
  <2>1. Orphaned \in BOOLEAN
    BY Zenon DEF Orphaned
  <2>2. QED
    BY <1>1, <1>6, <2>1 DEF StoreDone
<1>7. CASE StoreFails
  BY <1>1, <1>7, Zenon DEF StoreFails, Own
<1>8. QED
  BY <1>2, <1>3, <1>4, <1>5, <1>6, <1>7 DEF Next

LEMMA StepType == TypeInv /\ [Next]_vars => TypeInv'
<1> SUFFICES ASSUME TypeInv, [Next]_vars PROVE TypeInv'
  OBVIOUS
<1> DEFINE Fields == /\ state' \in State \cup {"none"}
                     /\ version' \in 0 .. MaxVersion
                     /\ chain' \in Seq(Persists)
                     /\ lock' \in Seq(Ops)
                     /\ record' \in State \cup {"none", "unset"}
                     /\ snapshot' \in State \cup {"none", "unset"}
                     /\ log' \in Seq(State)
                     /\ flushed' \in 0 .. MaxVersion
<1>1. /\ MaxVersion \in Nat
      /\ TypeOK /\ PatchOfHead
      /\ state \in State \cup {"none"} /\ version \in 0 .. MaxVersion
      /\ chain \in Seq(Persists) /\ lock \in Seq(Ops) /\ log \in Seq(State)
      /\ record \in State \cup {"none", "unset"}
      /\ snapshot \in State \cup {"none", "unset"}
      /\ flushed \in 0 .. MaxVersion
  BY TaskStateAssumption DEF TypeInv, TypeOK
<1>2. seeded' \in BOOLEAN /\ lost' \in BOOLEAN
  BY <1>1, FlagTypes
<1>3. /\ chain # <<>> => /\ Head(chain).state \in State
                         /\ Head(chain).version \in 1 .. MaxVersion
                         /\ Tail(chain) \in Seq(Persists)
      /\ lock # <<>> => Head(lock) \in Ops /\ Head(lock) = lock[1] /\ Tail(lock) \in Seq(Ops)
      /\ Len(lock) \in Nat /\ (lock # <<>> <=> Len(lock) > 0)
  <2>1. chain \in Seq(Persists) /\ lock \in Seq(Ops)
    BY <1>1
  <2>2. chain # <<>> => Head(chain) \in Persists /\ Tail(chain) \in Seq(Persists)
    BY <2>1, SequenceFacts
  <2>3. /\ lock # <<>> => Head(lock) \in Ops /\ Head(lock) = lock[1] /\ Tail(lock) \in Seq(Ops)
        /\ Len(lock) \in Nat /\ (lock # <<>> <=> Len(lock) > 0)
    BY <2>1, SequenceFacts
  <2>4. chain # <<>> => Head(chain).state \in State /\ Head(chain).version \in 1 .. MaxVersion
    BY <2>2 DEF Persists
  <2>5. QED
    BY <2>2, <2>3, <2>4
<1>4. ASSUME Fields, PatchOfHead' PROVE TypeInv'
  BY <1>2, <1>4 DEF TypeInv, TypeOK
<1>5. ASSUME lock' = lock, chain # <<>> => chain' # <<>> /\ Head(chain') = Head(chain)
      PROVE  PatchOfHead'
  BY <1>1, <1>5 DEF PatchOfHead, Own
<1>6. ASSUME lock' = lock, ~Writing
      PROVE  PatchOfHead'
  BY <1>6 DEF PatchOfHead, Writing, Own
<1>7. ASSUME NEW op \in Ops, lock' = Append(lock, op), chain' = chain,
             Own(op) => ~Writing /\ chain # <<>> /\ op.state = Head(chain).state
      PROVE  PatchOfHead'
  <2>1. /\ Len(lock') = Len(lock) + 1 /\ lock'[Len(lock) + 1] = op
        /\ \A k \in 1 .. Len(lock) : lock'[k] = lock[k]
    BY <1>1, <1>7, SequenceFacts
  <2>2. \A k \in 1 .. Len(lock') : k \in 1 .. Len(lock) \/ k = Len(lock) + 1
    BY <1>3, <2>1
  <2>3. CASE Own(op)
    BY <1>1, <1>3, <1>7, <2>1, <2>2, <2>3 DEF PatchOfHead, Writing
  <2>4. CASE ~Own(op)
    BY <1>1, <1>3, <1>7, <2>1, <2>2, <2>4 DEF PatchOfHead
  <2>5. QED
    BY <2>3, <2>4
<1>8. ASSUME lock # <<>>, lock' = Tail(lock),
             chain' = IF Own(Head(lock)) THEN Tail(chain) ELSE chain
      PROVE  PatchOfHead'
  <2>1. /\ Len(lock') = Len(lock) - 1
        /\ \A k \in 1 .. Len(lock) - 1 : lock'[k] = lock[k + 1]
    BY <1>1, <1>8, SequenceFacts
  <2>2. \A k \in 1 .. Len(lock') : k + 1 \in 1 .. Len(lock) /\ lock'[k] = lock[k + 1] /\ k + 1 # 1
    BY <1>3, <2>1
  <2>3. 1 \in 1 .. Len(lock) /\ Head(lock) = lock[1]
    BY <1>3, <1>8
  <2>4. CASE Own(Head(lock))
    <3>1. \A k \in 1 .. Len(lock') : ~Own(lock'[k])
      BY <1>1, <2>2, <2>3, <2>4 DEF PatchOfHead
    <3>2. QED
      BY <3>1 DEF PatchOfHead, Own
  <2>5. CASE ~Own(Head(lock))
    <3>1. \A j, k \in 1 .. Len(lock') : j + 1 = k + 1 => j = k
      BY <1>3, <2>1
    <3>2. QED
      BY <1>1, <1>8, <2>2, <2>5, <3>1 DEF PatchOfHead, Own
  <2>6. QED
    BY <2>4, <2>5
<1>9. ASSUME NEW s \in State, Set(s) PROVE TypeInv'
  <2>1. [state |-> s, version |-> version + 1] \in Persists
    BY <1>1, <1>9 DEF Set, Persists
  <2>2. chain' \in Seq(Persists) /\ log' \in Seq(State)
    BY <1>1, <1>9, <2>1, SequenceFacts DEF Set
  <2>3. chain # <<>> => chain' # <<>> /\ Head(chain') = Head(chain)
    BY <1>1, <1>9, <2>1, SequenceFacts DEF Set
  <2>4. Fields
    BY <1>1, <1>9, <2>2 DEF Set
  <2>5. QED
    BY <1>4, <1>5, <1>9, <2>3, <2>4 DEF Set
<1>10. CASE Report \/ Aborted
  BY <1>9, <1>10, StateFacts, TaskStateAssumption DEF Report, Aborted
<1>11. CASE Restore \/ Register \/ Unmanage \/ TakeSnapshot \/ UNCHANGED vars
  <2>1. Fields
    BY <1>1, <1>11, StateFacts DEF Restore, Register, Unmanage, TakeSnapshot, vars
  <2>2. lock' = lock /\ chain' = chain
    BY <1>11 DEF Restore, Register, Unmanage, TakeSnapshot, vars
  <2>3. QED
    BY <1>4, <1>5, <2>1, <2>2
<1>12. CASE Restart
  <2>1. Fields
    BY <1>1, <1>12 DEF Restart
  <2>2. PatchOfHead'
    BY <1>12 DEF Restart, PatchOfHead
  <2>3. QED
    BY <1>4, <2>1, <2>2
<1>13. CASE PersistStale \/ PersistNoRecord \/ PersistEqual
  <2>1. Fields
    BY <1>1, <1>3, <1>13 DEF PersistStale, PersistNoRecord, PersistEqual, Settle
  <2>2. lock' = lock /\ ~Writing
    BY <1>13 DEF PersistStale, PersistNoRecord, PersistEqual, Settle
  <2>3. QED
    BY <1>4, <1>6, <2>1, <2>2
<1>14. ASSUME NEW op \in Ops, ~Own(op), lock' = Append(lock, op),
              state' \in State \cup {"none"}, snapshot' \in State \cup {"none", "unset"},
              UNCHANGED <<version, chain, record, log, flushed>>
       PROVE  TypeInv'
  <2>1. Fields
    BY <1>1, <1>14, SequenceFacts
  <2>2. QED
    BY <1>4, <1>7, <1>14, <2>1
<1>15. CASE Create
  BY <1>1, <1>14, <1>15, StateFacts, OpFacts DEF Create
<1>16. CASE SaveMetadata \/ DeleteRecord
  BY <1>1, <1>14, <1>16, OpFacts DEF SaveMetadata, DeleteRecord, Enqueue
<1>17. CASE WriteSnapshot
  <2>1. (IF snapshot = "unset" THEN "keep" ELSE snapshot) \in State \cup {"keep", "delete"}
    BY <1>1, <1>17 DEF WriteSnapshot
  <2>2. QED
    BY <1>1, <1>14, <1>17, <2>1, OpFacts DEF WriteSnapshot, Enqueue
<1>18. CASE PersistWrite
  <2> DEFINE op == [state |-> Head(chain).state, by |-> "manager"]
  <2>1. op \in Ops
    BY <1>3, <1>18 DEF PersistWrite, Ops
  <2>2. Fields
    BY <1>1, <1>18, <2>1, SequenceFacts DEF PersistWrite
  <2>3. QED
    BY <1>4, <1>7, <1>18, <2>1, <2>2 DEF PersistWrite
<1>19. CASE StoreDone \/ StoreFails
  <2>1. lock # <<>> /\ lock' = Tail(lock)
        /\ chain' = IF Own(Head(lock)) THEN Tail(chain) ELSE chain
    BY <1>19 DEF StoreDone, StoreFails
  <2>2. Own(Head(lock)) => chain # <<>>
    BY <1>1, <1>3, <2>1 DEF PatchOfHead
  <2>3. Head(lock) \in Ops
    BY <1>3, <2>1
  <2>4. Fields
    <3>1. chain' \in Seq(Persists) /\ lock' \in Seq(Ops)
      BY <1>1, <1>3, <2>1, <2>2
    <3>2. record' \in State \cup {"none", "unset"}
      <4>1. record' = record \/ record' = Applied(record, Head(lock))
        BY <1>19 DEF StoreDone, StoreFails
      <4>2. record \in State \cup {"none", "unset"}
        BY <1>1
      <4>3. Applied(record, Head(lock)) \in State \cup {"none", "unset"}
        BY <2>3, <4>2, OpFacts, Zenon
      <4>4. QED
        BY <4>1, <4>2, <4>3
    <3>3. flushed' = flushed \/ (Own(Head(lock)) /\ flushed' = Head(chain).version)
      BY <1>19 DEF StoreDone, StoreFails
    <3>4. flushed' \in 0 .. MaxVersion
      BY <1>1, <1>3, <2>2, <3>3
    <3>5. UNCHANGED <<state, version, snapshot, log>>
      BY <1>19 DEF StoreDone, StoreFails
    <3>6. QED
      BY <1>1, <3>1, <3>2, <3>4, <3>5
  <2>5. QED
    BY <1>4, <1>8, <2>1, <2>4
<1>20. QED
  BY <1>10, <1>11, <1>12, <1>13, <1>15, <1>16, <1>17, <1>18, <1>19 DEF Next, Persist

LEMMA TypeInvariant == Spec => []TypeInv
BY InitType, StepType, PTL DEF Spec

(* Type correctness, for every bound, every client and every fault.         *)
THEOREM TypeCorrect == Spec => []TypeOK
BY TypeInvariant, PTL DEF TypeInv
-----------------------------------------------------------------------------
(***************************************************************************)
(* The inductive invariant.  Without clients that spread earlier history   *)
(* items only two kinds of patch carry a state: the manager's own, and the *)
(* one that writes the first record of a new task.                         *)
(***************************************************************************)

\* The chain holds states of the log, oldest first, that have not reached the
\* record; the last of them is the latest state set.
ChainOfLog ==
    /\ Len(log) = version /\ flushed <= version
    /\ chain # <<>> => chain[Len(chain)].version = version
    /\ \A k \in 1 .. Len(chain) :
          /\ flushed < chain[k].version /\ chain[k].version <= version
          /\ log[chain[k].version] = chain[k].state
          /\ \A j \in 1 .. Len(chain) : j < k => chain[j].version < chain[k].version

IsFirst(op) == ~Own(op) /\ op.state \in State

FirstQueued == \E k \in 1 .. Len(lock) : IsFirst(lock[k])

\* The first record is written before any state can have reached the record.
FirstIsFirst ==
    /\ snapshot = "none"
    /\ \A k \in 1 .. Len(lock) : IsFirst(lock[k]) =>
          /\ lock[k].state = "running"
          /\ record \in {"none", "unset"} /\ flushed = 0
          /\ \A j \in 1 .. Len(lock) : j < k => lock[j].state = "keep"

\* SettledAgrees, said also of a task that has no record or whose first record
\* is still in the queue.
Shown == IF record = "none" THEN "unset" ELSE record

SettledShown ==
    state # "none" /\ ~lost /\ chain = <<>> =>
        Sanitize(state) = IF FirstQueued THEN "idle" ELSE Sanitize(Shown)

Inv == TypeInv /\ ChainOfLog /\ FirstIsFirst /\ SettledShown

LEMMA Types ==
    ASSUME TypeInv
    PROVE  /\ MaxVersion \in Nat /\ version \in 0 .. MaxVersion /\ flushed \in 0 .. MaxVersion
           /\ chain \in Seq(Persists) /\ lock \in Seq(Ops) /\ log \in Seq(State)
           /\ state \in State \cup {"none"}
           /\ record \in State \cup {"none", "unset"}
BY TaskStateAssumption DEF TypeInv, TypeOK

LEMMA HeadOfChain ==
    ASSUME TypeInv, chain # <<>>
    PROVE  /\ Head(chain) = chain[1] /\ 1 \in 1 .. Len(chain)
           /\ Head(chain).state \in State /\ Head(chain).version \in Nat
           /\ chain' = Tail(chain) => /\ Len(chain') = Len(chain) - 1
                                      /\ \A k \in 1 .. Len(chain') : chain'[k] = chain[k + 1]
<1>1. chain \in Seq(Persists) /\ MaxVersion \in Nat
  BY Types
<1>2. Head(chain) \in Persists /\ Head(chain) = chain[1] /\ 1 \in 1 .. Len(chain)
  BY <1>1, SequenceFacts
<1>3. Head(chain).state \in State /\ Head(chain).version \in Nat
  BY <1>1, <1>2 DEF Persists
<1>4. Len(Tail(chain)) = Len(chain) - 1
      /\ \A k \in 1 .. Len(chain) - 1 : Tail(chain)[k] = chain[k + 1]
  BY <1>1, SequenceFacts
<1>5. QED
  BY <1>2, <1>3, <1>4

(* The four things a step does to the chain and to the log.                 *)
LEMMA ChainSteps ==
    ASSUME TypeInv, [Next]_vars
    PROVE  \/ UNCHANGED <<chain, log, version, flushed>>
           \/ \E s \in State : Set(s)
           \/ /\ chain # <<>> /\ chain' = Tail(chain)
              /\ flushed' \in {flushed, Head(chain).version}
              /\ UNCHANGED <<log, version>>
           \/ Restart
<1>1. CASE Report \/ Aborted
  BY <1>1, StateFacts, TaskStateAssumption DEF Report, Aborted
<1>2. CASE Persist
  BY <1>2 DEF Persist, PersistStale, PersistNoRecord, PersistEqual, PersistWrite, Settle
<1>3. CASE StoreDone \/ StoreFails
  <2>1. lock # <<>> => 1 \in 1 .. Len(lock) /\ Head(lock) = lock[1]
    BY Types, SequenceFacts
  <2>2. lock # <<>> /\ Own(Head(lock)) => chain # <<>>
    BY <2>1 DEF TypeInv, PatchOfHead
  <2>3. CASE StoreDone
    BY <2>2, <2>3 DEF StoreDone
  <2>4. CASE StoreFails
    BY <2>2, <2>4 DEF StoreFails
  <2>5. QED
    BY <1>3, <2>3, <2>4
<1>4. CASE Restore \/ Register \/ Create \/ Unmanage \/ UNCHANGED vars
  BY <1>4 DEF Restore, Register, Create, Unmanage, vars
<1>5. CASE SaveMetadata \/ TakeSnapshot \/ WriteSnapshot \/ DeleteRecord
  BY <1>5 DEF SaveMetadata, TakeSnapshot, WriteSnapshot, DeleteRecord, Enqueue
<1>6. QED
  BY <1>1, <1>2, <1>3, <1>4, <1>5 DEF Next

LEMMA StepChain ==
    ASSUME TypeInv, ChainOfLog, [Next]_vars
    PROVE  ChainOfLog'
<1>1. /\ version \in Nat /\ flushed \in Nat
      /\ chain \in Seq(Persists) /\ log \in Seq(State) /\ Len(chain) \in Nat
  BY Types
<1>2. CASE UNCHANGED <<chain, log, version, flushed>>
  BY <1>2 DEF ChainOfLog
<1>3. ASSUME NEW s \in State, Set(s) PROVE ChainOfLog'
  <2> DEFINE p == [state |-> s, version |-> version + 1]
  <2>1. p \in Persists /\ p.state = s /\ p.version = version + 1
    BY <1>1, <1>3, Types DEF Set, Persists
  <2>2. /\ version' = version + 1 /\ flushed' = flushed
        /\ chain' = Append(chain, p) /\ log' = Append(log, s)
    BY <1>3 DEF Set
  <2> HIDE DEF p
  <2>3. /\ Len(chain') = Len(chain) + 1 /\ chain'[Len(chain) + 1] = p
        /\ \A k \in 1 .. Len(chain) : chain'[k] = chain[k]
    BY <1>1, <2>1, <2>2, SequenceFacts
  <2>4. /\ Len(log') = version + 1 /\ log'[version + 1] = s
        /\ \A k \in 1 .. version : log'[k] = log[k]
    BY <1>1, <2>2, SequenceFacts DEF ChainOfLog
  <2>5. \A k \in 1 .. Len(chain) : /\ chain[k].version \in Nat /\ flushed < chain[k].version
                                   /\ chain[k].version <= version
    <3>1. \A k \in 1 .. Len(chain) : chain[k] \in Persists
      BY <1>1, SequenceFacts
    <3>2. \A q \in Persists : q.version \in Nat
      BY Types DEF Persists
    <3>3. QED
      BY <3>1, <3>2 DEF ChainOfLog
  <2>6. ASSUME NEW k \in 1 .. Len(chain')
        PROVE  /\ flushed' < chain'[k].version /\ chain'[k].version <= version'
               /\ log'[chain'[k].version] = chain'[k].state
               /\ \A j \in 1 .. Len(chain') : j < k => chain'[j].version < chain'[k].version
    <3>1. CASE k \in 1 .. Len(chain)
      <4>1. chain'[k] = chain[k] /\ log'[chain[k].version] = chain[k].state
        BY <1>1, <2>3, <2>4, <2>5, <3>1 DEF ChainOfLog
      <4>2. ASSUME NEW j \in 1 .. Len(chain'), j < k PROVE chain'[j].version < chain'[k].version
        <5>1. j \in 1 .. Len(chain)
          BY <1>1, <2>3, <3>1, <4>2
        <5>2. QED
          BY <2>3, <3>1, <4>1, <4>2, <5>1 DEF ChainOfLog
      <4>3. QED
        BY <1>1, <2>2, <2>5, <3>1, <4>1, <4>2
    <3>2. CASE k = Len(chain) + 1
      <4>1. chain'[k] = p /\ flushed <= version
        BY <2>3, <3>2 DEF ChainOfLog
      <4>2. ASSUME NEW j \in 1 .. Len(chain'), j < k PROVE chain'[j].version < chain'[k].version
        <5>1. j \in 1 .. Len(chain)
          BY <1>1, <2>3, <3>2, <4>2
        <5>2. QED
          BY <1>1, <2>1, <2>3, <2>5, <4>1, <5>1
      <4>3. QED
        BY <1>1, <2>1, <2>2, <2>4, <4>1, <4>2
    <3>3. QED
      BY <1>1, <2>3, <3>1, <3>2
  <2>7. Len(log') = version' /\ flushed' <= version'
    BY <1>1, <2>2, <2>4 DEF ChainOfLog
  <2>8. chain'[Len(chain')].version = version'
    BY <2>1, <2>2, <2>3
  <2>9. QED
    BY <2>6, <2>7, <2>8 DEF ChainOfLog
<1>4. CASE /\ chain # <<>> /\ chain' = Tail(chain)
           /\ flushed' \in {flushed, Head(chain).version}
           /\ UNCHANGED <<log, version>>
  <2>1. /\ Head(chain) = chain[1] /\ 1 \in 1 .. Len(chain) /\ Len(chain') = Len(chain) - 1
        /\ \A k \in 1 .. Len(chain') : chain'[k] = chain[k + 1]
    BY <1>4, HeadOfChain
  <2>2. \A k \in 1 .. Len(chain') : k + 1 \in 1 .. Len(chain) /\ 1 < k + 1
    BY <1>1, <2>1
  <2>3. flushed' <= version
    BY <1>4, <2>1 DEF ChainOfLog
  <2>4. \A k \in 1 .. Len(chain') : flushed' < chain'[k].version
    BY <1>4, <2>1, <2>2 DEF ChainOfLog
  <2>5. \A k \in 1 .. Len(chain') : /\ chain'[k].version <= version
                                    /\ log[chain'[k].version] = chain'[k].state
    BY <2>1, <2>2 DEF ChainOfLog
  <2>6. \A j, k \in 1 .. Len(chain') : j < k => chain'[j].version < chain'[k].version
    <3>1. \A j, k \in 1 .. Len(chain') : j < k => j + 1 < k + 1
      BY <1>1
    <3>2. QED
      BY <2>1, <2>2, <3>1 DEF ChainOfLog
  <2>7. chain' # <<>> => chain'[Len(chain')].version = version
    <3>1. chain' \in Seq(Persists)
      BY <1>1, <1>4, SequenceFacts
    <3>2. chain' # <<>> => Len(chain') \in 1 .. Len(chain') /\ Len(chain') + 1 = Len(chain)
      BY <1>1, <2>1, <3>1, SequenceFacts
    <3>3. QED
      BY <1>4, <2>1, <3>2 DEF ChainOfLog
  <2>8. QED
    BY <1>4, <2>3, <2>4, <2>5, <2>6, <2>7 DEF ChainOfLog
<1>5. CASE Restart
  <2>1. chain' = <<>> /\ log' = <<>> /\ version' = 0 /\ flushed' = 0
    BY <1>5 DEF Restart
  <2>2. QED
    BY <2>1 DEF ChainOfLog
<1>6. QED
  BY <1>2, <1>3, <1>4, <1>5, ChainSteps

(* What appending to the store's queue, or taking its head off, does to it. *)
LEMMA QueueAppend ==
    ASSUME TypeInv, NEW op \in Ops, lock' = Append(lock, op)
    PROVE  /\ \A k \in 1 .. Len(lock) : k \in 1 .. Len(lock') /\ lock'[k] = lock[k]
           /\ Len(lock) \in Nat
           /\ Len(lock) + 1 \in 1 .. Len(lock') /\ lock'[Len(lock) + 1] = op
           /\ \A k \in 1 .. Len(lock') : k \in 1 .. Len(lock) \/ k = Len(lock) + 1
<1>1. lock \in Seq(Ops)
  BY Types
<1>2. /\ Len(lock) \in Nat /\ Len(lock') = Len(lock) + 1 /\ lock'[Len(lock) + 1] = op
      /\ \A k \in 1 .. Len(lock) : lock'[k] = lock[k]
  BY <1>1, SequenceFacts
<1>3. QED
  BY <1>2

LEMMA QueueTail ==
    ASSUME TypeInv, lock # <<>>
    PROVE  /\ Head(lock) = lock[1] /\ 1 \in 1 .. Len(lock) /\ Head(lock) \in Ops
           /\ \A k \in 1 .. Len(lock) : k \in Nat /\ (k # 1 => 1 < k)
           /\ lock' = Tail(lock) =>
                /\ \A k \in 1 .. Len(lock') : /\ k + 1 \in 1 .. Len(lock) /\ 1 < k + 1
                                             /\ lock'[k] = lock[k + 1]
                /\ \A k \in 1 .. Len(lock) :
                      k # 1 => k - 1 \in 1 .. Len(lock') /\ lock'[k - 1] = lock[k]
                /\ \A j, k \in 1 .. Len(lock') : j < k => j + 1 < k + 1
<1>1. lock \in Seq(Ops)
  BY Types
<1>2. /\ Len(lock) \in Nat /\ Len(lock) > 0 /\ Head(lock) = lock[1] /\ Head(lock) \in Ops
  BY <1>1, SequenceFacts
<1>3. lock' = Tail(lock) => /\ Len(lock') = Len(lock) - 1
                            /\ \A k \in 1 .. Len(lock) - 1 : lock'[k] = lock[k + 1]
  BY <1>1, SequenceFacts
<1>4. \A k \in 1 .. Len(lock) : k # 1 => k - 1 \in 1 .. Len(lock) - 1 /\ (k - 1) + 1 = k
  BY <1>2
<1>5. QED
  BY <1>2, <1>3, <1>4

LEMMA StepFirst ==
    ASSUME "snapshot" \notin Clients, TypeInv, ChainOfLog, FirstIsFirst, [Next]_vars
    PROVE  FirstIsFirst'
<1> DEFINE Queue == \A k \in 1 .. Len(lock) : IsFirst(lock[k]) =>
                      /\ lock[k].state = "running"
                      /\ record \in {"none", "unset"} /\ flushed = 0
                      /\ \A j \in 1 .. Len(lock) : j < k => lock[j].state = "keep"
<1>1. Queue /\ snapshot = "none"
  BY DEF FirstIsFirst
<1>2. ASSUME snapshot' = "none", Queue' PROVE FirstIsFirst'
  BY <1>2 DEF FirstIsFirst
<1>3. ASSUME lock' = lock, record' = record, flushed' = flushed PROVE Queue'
  BY <1>1, <1>3 DEF IsFirst, Own
<1>4. ASSUME NEW op \in Ops, ~IsFirst(op), lock' = Append(lock, op),
             record' = record, flushed' = flushed
      PROVE  Queue'
  <2>1. ASSUME NEW k \in 1 .. Len(lock'), IsFirst(lock'[k]) PROVE k \in 1 .. Len(lock)
    BY <1>4, <2>1, QueueAppend
  <2>2. ASSUME NEW k \in 1 .. Len(lock), NEW j \in 1 .. Len(lock'), j < k
        PROVE  j \in 1 .. Len(lock)
    BY <1>4, <2>2, QueueAppend
  <2>3. \A k \in 1 .. Len(lock) : lock'[k] = lock[k]
    BY <1>4, QueueAppend
  <2>4. QED
    BY <1>1, <1>4, <2>1, <2>2, <2>3 DEF IsFirst, Own
<1>5. ASSUME lock # <<>>, lock' = Tail(lock),
             Head(lock).state = "keep" =>
                 flushed' = flushed /\ (record \in {"none", "unset"} => record' \in {"none", "unset"})
      PROVE  Queue'
  <2>1. ASSUME NEW k \in 1 .. Len(lock'), IsFirst(lock'[k])
        PROVE  /\ lock'[k].state = "running"
               /\ record' \in {"none", "unset"} /\ flushed' = 0
               /\ \A j \in 1 .. Len(lock') : j < k => lock'[j].state = "keep"
    <3>1. /\ k + 1 \in 1 .. Len(lock) /\ lock'[k] = lock[k + 1] /\ 1 < k + 1
          /\ 1 \in 1 .. Len(lock) /\ Head(lock) = lock[1]
      BY <1>5, QueueTail
    <3>2. IsFirst(lock[k + 1])
      BY <2>1, <3>1 DEF IsFirst, Own
    <3>3. /\ lock[k + 1].state = "running" /\ Head(lock).state = "keep"
          /\ record \in {"none", "unset"} /\ flushed = 0
          /\ \A j \in 1 .. Len(lock) : j < k + 1 => lock[j].state = "keep"
      BY <1>1, <3>1, <3>2
    <3>4. \A j \in 1 .. Len(lock') : j < k => lock'[j].state = "keep"
      BY <1>5, <3>3, QueueTail
    <3>5. QED
      BY <1>5, <3>1, <3>3, <3>4
  <2>2. QED
    BY <2>1
<1>6. CASE Report \/ Aborted
  <2>1. lock' = lock /\ record' = record /\ flushed' = flushed /\ snapshot' = snapshot
    BY <1>6 DEF Report, Aborted, Set
  <2>2. QED
    BY <1>1, <1>2, <1>3, <2>1
<1>7. CASE Restore \/ Register \/ Unmanage \/ PersistStale \/ PersistNoRecord \/ UNCHANGED vars
  <2>1. lock' = lock /\ record' = record /\ flushed' = flushed /\ snapshot' = snapshot
    BY <1>7 DEF Restore, Register, Unmanage, PersistStale, PersistNoRecord, Settle, vars
  <2>2. QED
    BY <1>1, <1>2, <1>3, <2>1
<1>8. CASE Create
  <2>1. /\ record' \in {"none", "unset"} /\ flushed' = flushed /\ version = 0
        /\ lock' = Append(lock, Op("running")) /\ snapshot' = snapshot
        /\ \A k \in 1 .. Len(lock) : lock[k].state = "keep"
    BY <1>8 DEF Create
  <2>2. flushed' = 0
    BY <2>1, Types DEF ChainOfLog
  <2>3. Op("running") \in Ops /\ Op("running").state = "running"
    BY StateFacts, OpFacts
  <2>4. \A k \in 1 .. Len(lock) : ~IsFirst(lock[k])
    BY <2>1, StateFacts DEF IsFirst
  <2>5. ASSUME NEW k \in 1 .. Len(lock'), IsFirst(lock'[k])
        PROVE  k = Len(lock) + 1
    <3>1. k \in 1 .. Len(lock) => lock'[k] = lock[k]
      BY <2>1, <2>3, QueueAppend
    <3>2. QED
      BY <2>1, <2>3, <2>4, <2>5, <3>1, QueueAppend
  <2>6. ASSUME NEW j \in 1 .. Len(lock'), j < Len(lock) + 1 PROVE lock'[j].state = "keep"
    <3>1. j \in 1 .. Len(lock)
      BY <2>1, <2>3, <2>6, QueueAppend
    <3>2. QED
      BY <2>1, <2>3, <3>1, QueueAppend
  <2>7. lock'[Len(lock) + 1].state = "running"
    BY <2>1, <2>3, QueueAppend
  <2>8. Queue'
    BY <2>1, <2>2, <2>5, <2>6, <2>7
  <2>9. QED
    BY <1>1, <1>2, <2>1, <2>8
<1>9. CASE PersistEqual
  <2>1. /\ chain # <<>> /\ record = Head(chain).state /\ lock' = lock /\ snapshot' = snapshot
    BY <1>9 DEF PersistEqual, Settle
  <2>2. record \notin {"none", "unset"}
    BY <2>1, HeadOfChain, StateFacts
  <2>3. Queue'
    BY <1>1, <2>1, <2>2 DEF IsFirst, Own
  <2>4. QED
    BY <1>1, <1>2, <2>1, <2>3
<1>10. CASE PersistWrite
  <2> DEFINE op == [state |-> Head(chain).state, by |-> "manager"]
  <2>1. /\ chain # <<>> /\ lock' = Append(lock, op)
        /\ record' = record /\ flushed' = flushed /\ snapshot' = snapshot
    BY <1>10 DEF PersistWrite
  <2>2. op \in Ops /\ ~IsFirst(op)
    BY <2>1, HeadOfChain DEF Ops, IsFirst, Own
  <2> HIDE DEF op
  <2>3. Queue'
    BY <1>4, <2>1, <2>2
  <2>4. QED
    BY <1>1, <1>2, <2>1, <2>3
<1>11. CASE SaveMetadata \/ DeleteRecord
  <2>1. PICK op \in {Op("keep"), Op("delete")} : lock' = Append(lock, op)
    BY <1>11 DEF SaveMetadata, DeleteRecord, Enqueue
  <2>2. record' = record /\ flushed' = flushed /\ snapshot' = snapshot
    BY <1>11 DEF SaveMetadata, DeleteRecord, Enqueue
  <2>3. op \in Ops /\ ~IsFirst(op)
    BY OpFacts, StateFacts DEF IsFirst
  <2>4. Queue'
    BY <1>4, <2>1, <2>2, <2>3
  <2>5. QED
    BY <1>1, <1>2, <2>2, <2>4
<1>12. CASE TakeSnapshot \/ WriteSnapshot
  BY <1>1, <1>12 DEF TakeSnapshot, WriteSnapshot
<1>13. CASE StoreDone
  <2>1. /\ lock # <<>> /\ lock' = Tail(lock) /\ snapshot' = snapshot
        /\ record' = Applied(record, Head(lock))
        /\ ~Own(Head(lock)) => flushed' = flushed
    BY <1>13 DEF StoreDone
  <2>2. 1 \in 1 .. Len(lock) /\ Head(lock) = lock[1] /\ Head(lock) \in Ops
    BY <2>1, QueueTail
  <2>3. Own(Head(lock)) => Head(lock).state # "keep"
    <3>1. Own(Head(lock)) => chain # <<>> /\ Head(lock).state = Head(chain).state
      BY <2>2 DEF TypeInv, PatchOfHead
    <3>2. QED
      BY <3>1, HeadOfChain, StateFacts
  <2>4. Head(lock).state = "keep" /\ record \in {"none", "unset"} => record' = "unset"
    BY <2>1 DEF Applied
  <2>5. Queue'
    BY <1>5, <2>1, <2>3, <2>4
  <2>6. QED
    BY <1>1, <1>2, <2>1, <2>5
<1>14. CASE StoreFails
  <2>1. /\ lock # <<>> /\ lock' = Tail(lock) /\ snapshot' = snapshot
        /\ record' = record /\ flushed' = flushed
    BY <1>14 DEF StoreFails
  <2>2. QED
    BY <1>1, <1>2, <1>5, <2>1
<1>15. CASE Restart
  <2>1. lock' = <<>> /\ snapshot' = "none"
    BY <1>15 DEF Restart
  <2>2. QED
    BY <1>2, <2>1
<1>16. QED
  BY <1>6, <1>7, <1>8, <1>9, <1>10, <1>11, <1>12, <1>13, <1>14, <1>15 DEF Next, Persist

LEMMA SanitizeFacts ==
    /\ Sanitize("running") = "idle" /\ Sanitize("idle") = "idle" /\ Sanitize("unset") = "idle"
    /\ \A s \in State \cup {"unset"} : Sanitize(Sanitize(s)) = Sanitize(s)
BY DEF Sanitize, Transient, State, Terminal, Completed

LEMMA StepShown ==
    ASSUME TypeInv, ChainOfLog, FirstIsFirst, SettledShown, [Next]_vars
    PROVE  SettledShown'
<1> SUFFICES ASSUME state' # "none", ~lost', chain' = <<>>
             PROVE  Sanitize(state') = IF FirstQueued' THEN "idle" ELSE Sanitize(Shown')
  BY DEF SettledShown
<1>1. ASSUME state # "none", ~lost, chain = <<>>
      PROVE  Sanitize(state) = IF FirstQueued THEN "idle" ELSE Sanitize(Shown)
  BY <1>1 DEF SettledShown
<1>2. ASSUME state' = state, lost' = lost, chain' = chain, record' = record,
             FirstQueued' <=> FirstQueued
      PROVE  Sanitize(state') = IF FirstQueued' THEN "idle" ELSE Sanitize(Shown')
  BY <1>1, <1>2 DEF Shown
<1>3. ASSUME lock' = lock PROVE FirstQueued' <=> FirstQueued
  BY <1>3 DEF FirstQueued, IsFirst, Own
<1>4. ASSUME NEW op \in Ops, ~IsFirst(op), lock' = Append(lock, op)
      PROVE  FirstQueued' <=> FirstQueued
  BY <1>4, QueueAppend DEF FirstQueued, IsFirst, Own
<1>5. FirstQueued => record \in {"none", "unset"}
  BY DEF FirstIsFirst, FirstQueued
<1>6. record \in {"none", "unset"} => Shown = "unset"
  BY DEF Shown
<1>7. CASE Report \/ Aborted \/ Unmanage \/ PersistNoRecord \/ PersistWrite \/ Restart
  <2>1. CASE Report \/ Aborted
    <3>1. PICK s : Set(s)
      BY <2>1 DEF Report, Aborted
    <3>2. chain \in Seq(Persists) /\ Len(chain) \in Nat
      BY Types
    <3>3. chain' # <<>>
      BY <3>1, <3>2 DEF Set
    <3>4. QED
      BY <3>3
  <2>2. CASE Unmanage \/ Restart
    BY <2>2 DEF Unmanage, Restart
  <2>3. CASE PersistNoRecord
    BY <2>3 DEF PersistNoRecord, Settle
  <2>4. CASE PersistWrite
    BY <2>4 DEF PersistWrite
  <2>5. QED
    BY <1>7, <2>1, <2>2, <2>3, <2>4
<1>8. CASE UNCHANGED vars
  <2>1. state' = state /\ lost' = lost /\ chain' = chain /\ record' = record /\ lock' = lock
    BY <1>8 DEF vars
  <2>2. QED
    BY <1>2, <1>3, <2>1
<1>9. CASE Restore
  <2>1. lost' = lost /\ chain' = chain /\ record' = record /\ lock' = lock
    BY <1>9 DEF Restore
  <2>2. CASE state = "none" /\ record # "none"
    <3>1. state' = Sanitize(record) /\ Shown' = record
      BY <1>9, <2>1, <2>2 DEF Restore, Shown
    <3>2. record \in State \cup {"unset"}
      BY <2>2, Types
    <3>3. FirstQueued' => record = "unset"
      BY <1>3, <1>5, <2>1, <2>2
    <3>4. QED
      BY <3>1, <3>2, <3>3, SanitizeFacts
  <2>3. CASE ~(state = "none" /\ record # "none")
    <3>1. state' = state
      BY <1>9, <2>3 DEF Restore
    <3>2. QED
      BY <1>2, <1>3, <2>1, <3>1
  <2>4. QED
    BY <2>2, <2>3
<1>10. CASE Register
  <2>1. record = "none" /\ record' = record /\ state' \in {"running", "idle"}
    BY <1>10 DEF Register
  <2>2. Shown' = "unset"
    BY <2>1 DEF Shown
  <2>3. QED
    BY <2>1, <2>2, SanitizeFacts
<1>11. CASE Create
  <2>1. lock' = Append(lock, Op("running")) /\ state' = "running"
    BY <1>11 DEF Create
  <2>2. Op("running") \in Ops /\ IsFirst(Op("running"))
    BY OpFacts, StateFacts DEF IsFirst
  <2>3. FirstQueued'
    BY <2>1, <2>2, QueueAppend DEF FirstQueued, IsFirst, Own
  <2>4. QED
    BY <2>1, <2>3, SanitizeFacts
<1>12. CASE SaveMetadata \/ DeleteRecord \/ TakeSnapshot
  <2>1. state' = state /\ lost' = lost /\ chain' = chain /\ record' = record
    BY <1>12 DEF SaveMetadata, DeleteRecord, TakeSnapshot, Enqueue
  <2>2. lock' = lock \/ \E op \in {Op("keep"), Op("delete")} : lock' = Append(lock, op)
    BY <1>12 DEF SaveMetadata, DeleteRecord, TakeSnapshot, Enqueue
  <2>3. \A op \in {Op("keep"), Op("delete")} : op \in Ops /\ ~IsFirst(op)
    BY OpFacts, StateFacts DEF IsFirst
  <2>4. FirstQueued' <=> FirstQueued
    BY <1>3, <1>4, <2>2, <2>3
  <2>5. QED
    BY <1>2, <2>1, <2>4
<1>13. CASE WriteSnapshot
  BY <1>13 DEF WriteSnapshot, FirstIsFirst
<1>14. CASE PersistStale
  <2>1. /\ chain # <<>> /\ chain' = Tail(chain) /\ Head(chain).version # version
    BY <1>14 DEF PersistStale, Settle
  <2>2. chain \in Seq(Persists) /\ Len(chain) \in Nat
    BY Types
  <2>3. Len(chain') = Len(chain) - 1 /\ Head(chain) = chain[1]
    BY <2>1, HeadOfChain
  <2>4. Head(chain) = chain[Len(chain)]
    <3>1. Len(chain') = 0
      OBVIOUS
    <3>2. Len(chain) = 1
      BY <2>2, <2>3, <3>1
    <3>3. QED
      BY <2>3, <3>2
  <2>5. QED
    BY <2>1, <2>4 DEF ChainOfLog
<1>15. ASSUME chain # <<>>, chain' = Tail(chain), lost' = Orphaned, state' = state,
              record' = Head(chain).state, ~FirstQueued'
       PROVE  Sanitize(state') = IF FirstQueued' THEN "idle" ELSE Sanitize(Shown')
  <2>1. chain \in Seq(Persists) /\ Len(chain) \in Nat
    BY Types
  <2>2. Len(chain') = Len(chain) - 1 /\ Head(chain) = chain[1]
    BY <1>15, HeadOfChain
  <2>3. Head(chain) = chain[Len(chain)]
    <3>1. Len(chain') = 0
      OBVIOUS
    <3>2. Len(chain) = 1
      BY <2>1, <2>2, <3>1
    <3>3. QED
      BY <2>2, <3>2
  <2>4. Head(chain).version = version
    BY <1>15, <2>3 DEF ChainOfLog
  <2>5. Head(chain).state = state
    BY <1>15, <2>4 DEF Orphaned
  <2>6. Shown' = state
    BY <1>15, <2>5 DEF Shown
  <2>7. QED
    BY <1>15, <2>6
<1>16. CASE PersistEqual
  <2>1. /\ chain # <<>> /\ chain' = Tail(chain) /\ lost' = Orphaned /\ state' = state
        /\ record' = record /\ record = Head(chain).state /\ lock' = lock
    BY <1>16 DEF PersistEqual, Settle
  <2>2. record \notin {"none", "unset"}
    BY <2>1, HeadOfChain, StateFacts
  <2>3. ~FirstQueued'
    BY <1>3, <1>5, <2>1, <2>2
  <2>4. QED
    BY <1>15, <2>1, <2>3
<1>17. ASSUME lock # <<>>, lock' = Tail(lock), Head(lock).state # "keep"
       PROVE  ~FirstQueued'
  <2>1. ASSUME NEW k \in 1 .. Len(lock'), IsFirst(lock'[k]) PROVE FALSE
    <3>1. /\ k + 1 \in 1 .. Len(lock) /\ lock'[k] = lock[k + 1] /\ 1 < k + 1
          /\ 1 \in 1 .. Len(lock) /\ Head(lock) = lock[1]
      BY <1>17, QueueTail
    <3>2. IsFirst(lock[k + 1])
      BY <2>1, <3>1
    <3>3. lock[1].state = "keep"
      BY <3>1, <3>2 DEF FirstIsFirst
    <3>4. QED
      BY <1>17, <3>1, <3>3
  <2>2. QED
    BY <2>1 DEF FirstQueued, IsFirst, Own
<1>18. ASSUME lock # <<>>, lock' = Tail(lock), ~IsFirst(Head(lock))
       PROVE  FirstQueued' <=> FirstQueued
  <2>1. ASSUME NEW k \in 1 .. Len(lock), IsFirst(lock[k])
        PROVE  k - 1 \in 1 .. Len(lock') /\ IsFirst(lock'[k - 1])
    BY <1>18, <2>1, QueueTail DEF IsFirst, Own
  <2>2. ASSUME NEW k \in 1 .. Len(lock'), IsFirst(lock'[k])
        PROVE  k + 1 \in 1 .. Len(lock) /\ IsFirst(lock[k + 1])
    BY <1>18, <2>2, QueueTail DEF IsFirst, Own
  <2>3. QED
    BY <2>1, <2>2 DEF FirstQueued, IsFirst, Own
<1>19. lock # <<>> => /\ 1 \in 1 .. Len(lock) /\ Head(lock) = lock[1] /\ Head(lock) \in Ops
                      /\ Own(Head(lock)) => chain # <<>> /\ Head(lock).state = Head(chain).state
                      /\ IsFirst(Head(lock)) => FirstQueued /\ Head(lock).state = "running"
  <2>1. lock # <<>> => 1 \in 1 .. Len(lock) /\ Head(lock) = lock[1] /\ Head(lock) \in Ops
    BY QueueTail
  <2>2. QED
    BY <2>1 DEF TypeInv, PatchOfHead, FirstQueued, FirstIsFirst
<1>20. CASE StoreDone
  <2>1. /\ lock # <<>> /\ lock' = Tail(lock) /\ state' = state
        /\ record' = Applied(record, Head(lock))
    BY <1>20 DEF StoreDone
  <2>2. Head(lock) \in Ops /\ record \in State \cup {"none", "unset"}
    BY <1>19, <2>1, Types
  <2>3. CASE Own(Head(lock))
    <3>1. chain # <<>> /\ chain' = Tail(chain) /\ lost' = Orphaned
      BY <1>19, <1>20, <2>1, <2>3 DEF StoreDone
    <3>2. Head(lock).state \in State /\ Head(lock).state = Head(chain).state
      BY <1>19, <2>1, <2>3, <3>1, HeadOfChain
    <3>3. record' = Head(chain).state
      BY <2>1, <2>2, <3>2, OpFacts
    <3>4. ~FirstQueued'
      BY <1>17, <2>1, <3>2, StateFacts
    <3>5. QED
      BY <1>15, <2>1, <3>1, <3>3, <3>4
  <2>4. CASE ~Own(Head(lock))
    <3>1. /\ chain' = chain /\ ~lost /\ Head(lock).state # "delete"
      BY <1>20, <2>4 DEF StoreDone
    <3>2. Sanitize(state) = IF FirstQueued THEN "idle" ELSE Sanitize(Shown)
      BY <1>1, <2>1, <3>1
    <3>3. CASE IsFirst(Head(lock))
      <4>1. record' = "running" /\ Head(lock).state # "keep"
        BY <1>19, <2>1, <2>2, <3>3, OpFacts, StateFacts
      <4>2. Sanitize(state) = "idle"
        BY <1>19, <2>1, <3>2, <3>3
      <4>3. ~FirstQueued' /\ Shown' = "running"
        BY <1>17, <2>1, <4>1 DEF Shown
      <4>4. QED
        BY <2>1, <4>2, <4>3, SanitizeFacts
    <3>4. CASE ~IsFirst(Head(lock))
      <4>1. Head(lock).state = "keep"
        BY <2>2, <2>4, <3>1, <3>4 DEF IsFirst, Ops
      <4>2. record' = IF record = "none" THEN "unset" ELSE record
        BY <2>1, <4>1 DEF Applied
      <4>3. Shown' = Shown
        BY <4>2 DEF Shown
      <4>4. FirstQueued' <=> FirstQueued
        BY <1>18, <2>1, <3>4
      <4>5. QED
        BY <2>1, <3>2, <4>3, <4>4
    <3>5. QED
      BY <3>3, <3>4
  <2>5. QED
    BY <2>3, <2>4
<1>21. CASE StoreFails
  <2>1. /\ lock # <<>> /\ lock' = Tail(lock) /\ state' = state /\ record' = record
        /\ ~lost /\ ~Own(Head(lock)) /\ chain' = chain
    BY <1>21 DEF StoreFails
  <2>2. Sanitize(state) = IF FirstQueued THEN "idle" ELSE Sanitize(Shown)
    BY <1>1, <2>1
  <2>3. CASE IsFirst(Head(lock))
    <3>1. Sanitize(state) = "idle" /\ Head(lock).state # "keep" /\ record' \in {"none", "unset"}
      BY <1>5, <1>19, <2>1, <2>2, <2>3
    <3>2. ~FirstQueued' /\ Shown' = "unset"
      BY <1>17, <2>1, <3>1 DEF Shown
    <3>3. QED
      BY <2>1, <3>1, <3>2, SanitizeFacts
  <2>4. CASE ~IsFirst(Head(lock))
    <3>1. FirstQueued' <=> FirstQueued
      BY <1>18, <2>1, <2>4
    <3>2. Shown' = Shown
      BY <2>1 DEF Shown
    <3>3. QED
      BY <2>1, <2>2, <3>1, <3>2
  <2>5. QED
    BY <2>3, <2>4
<1>22. QED
  BY <1>7, <1>8, <1>9, <1>10, <1>11, <1>12, <1>13, <1>14, <1>16, <1>20, <1>21 DEF Next, Persist
-----------------------------------------------------------------------------
LEMMA InitInv == Init => Inv
<1> SUFFICES ASSUME Init PROVE Inv
  OBVIOUS
<1>1. Len(lock) = 0 /\ Len(chain) = 0 /\ Len(log) = 0
  BY DEF Init
<1>2. ChainOfLog
  BY <1>1 DEF Init, ChainOfLog
<1>3. FirstIsFirst
  BY <1>1 DEF Init, FirstIsFirst
<1>4. SettledShown
  BY DEF Init, SettledShown
<1>5. QED
  BY <1>2, <1>3, <1>4, InitType DEF Inv

LEMMA InvInvariant ==
    ASSUME "snapshot" \notin Clients
    PROVE  Spec => []Inv
<1>1. Inv /\ [Next]_vars => Inv'
  BY StepType, StepChain, StepFirst, StepShown DEF Inv
<1>2. QED
  BY <1>1, InitInv, PTL DEF Spec

(* Latest wins: however the sets, the slow and failing writes, the saves   *)
(* of other metadata, deletions and restarts are interleaved, once the     *)
(* chain has settled a restart shows the state the manager shows.          *)
THEOREM LatestWins ==
    ASSUME "snapshot" \notin Clients
    PROVE  Spec => []SettledAgrees
<1>1. ASSUME Inv PROVE SettledAgrees
  <2> SUFFICES ASSUME Settled, record # "none", ~lost PROVE Sanitize(record) = Sanitize(state)
    BY DEF SettledAgrees
  <2>1. ~FirstQueued
    BY StateFacts DEF Settled, FirstQueued, IsFirst
  <2>2. Shown = record
    BY DEF Shown
  <2>3. QED
    BY <1>1, <2>1, <2>2 DEF Inv, SettledShown, Settled
<1>2. QED
  BY <1>1, InvInvariant, PTL

(* The refinement, step by step: the record is a register that only moves  *)
(* forward through the log.                                                *)
LEMMA InitDurable == Init => Durable!Init
BY DEF Init, Durable!Init

LEMMA StepDurable ==
    ASSUME Inv, [Next]_vars
    PROVE  [Durable!Next]_(Durable!vars)
<1>1. /\ TypeInv /\ ChainOfLog /\ FirstIsFirst
      /\ version \in Nat /\ flushed \in Nat /\ Len(log) = version
  BY Types DEF Inv, ChainOfLog
<1>2. ASSUME UNCHANGED <<log, flushed, record>> PROVE [Durable!Next]_(Durable!vars)
  BY <1>2 DEF Durable!vars
<1>3. CASE Report \/ Aborted
  BY <1>3, StateFacts, TaskStateAssumption
     DEF Report, Aborted, Set, Durable!Next, Durable!Set
<1>4. CASE Restore \/ Register \/ Create \/ Unmanage \/ UNCHANGED vars
  BY <1>2, <1>4 DEF Restore, Register, Create, Unmanage, vars
<1>5. CASE PersistStale \/ PersistNoRecord \/ PersistWrite
  BY <1>2, <1>5 DEF PersistStale, PersistNoRecord, PersistWrite, Settle
<1>6. CASE SaveMetadata \/ TakeSnapshot \/ WriteSnapshot \/ DeleteRecord \/ StoreFails
  BY <1>2, <1>6 DEF SaveMetadata, TakeSnapshot, WriteSnapshot, DeleteRecord, Enqueue, StoreFails
<1>7. ASSUME chain # <<>>, record' = Head(chain).state, flushed' = Head(chain).version, log' = log
      PROVE  [Durable!Next]_(Durable!vars)
  <2>1. /\ Head(chain).version \in Nat
        /\ flushed < Head(chain).version /\ Head(chain).version <= version
        /\ log[Head(chain).version] = Head(chain).state
    BY <1>1, <1>7, HeadOfChain DEF ChainOfLog
  <2>2. Head(chain).version \in (flushed + 1) .. Len(log)
    BY <1>1, <2>1
  <2>3. Durable!Flush
    BY <1>7, <2>1, <2>2 DEF Durable!Flush
  <2>4. QED
    BY <2>3 DEF Durable!Next
<1>8. CASE PersistEqual
  BY <1>7, <1>8 DEF PersistEqual, Settle
<1>9. CASE StoreDone
  <2>1. /\ lock # <<>> /\ log' = log /\ record' = Applied(record, Head(lock))
    BY <1>9 DEF StoreDone
  <2>2. /\ 1 \in 1 .. Len(lock) /\ Head(lock) = lock[1] /\ Head(lock) \in Ops
        /\ record \in State \cup {"none", "unset"}
    BY <1>1, <2>1, QueueTail, Types
  <2>3. CASE Own(Head(lock))
    <3>1. chain # <<>> /\ Head(lock).state = Head(chain).state
      BY <1>1, <2>2, <2>3 DEF TypeInv, PatchOfHead
    <3>2. record' = Head(chain).state
      BY <1>1, <2>1, <2>2, <3>1, HeadOfChain, OpFacts
    <3>3. flushed' = Head(chain).version
      BY <1>9, <2>3 DEF StoreDone
    <3>4. QED
      BY <1>7, <2>1, <3>1, <3>2, <3>3
  <2>4. CASE ~Own(Head(lock))
    <3>1. flushed' = flushed
      BY <1>9, <2>4 DEF StoreDone
    <3>2. CASE Head(lock).state = "delete"
      BY <2>1, <2>2, <3>1, <3>2, OpFacts DEF Durable!Next, Durable!Delete
    <3>3. CASE Head(lock).state = "keep"
      BY <2>1, <2>2, <3>1, <3>3, OpFacts DEF Durable!Next, Durable!CreateUnset, Durable!vars
    <3>4. CASE Head(lock).state \in State
      <4>1. Head(lock).state = "running" /\ flushed = 0
        BY <1>1, <2>2, <2>4, <3>4 DEF FirstIsFirst, IsFirst
      <4>2. record' = "running"
        BY <2>1, <2>2, <3>4, <4>1, OpFacts
      <4>3. QED
        BY <2>1, <3>1, <4>1, <4>2 DEF Durable!Next, Durable!Create
    <3>5. QED
      BY <2>2, <3>2, <3>3, <3>4 DEF Ops
  <2>5. QED
    BY <2>3, <2>4
<1>10. CASE Restart
  BY <1>10 DEF Restart, Durable!Next, Durable!Restart
<1>11. QED
  BY <1>3, <1>4, <1>5, <1>6, <1>8, <1>9, <1>10 DEF Next, Persist

(* The chain of writes over the store implements the register: no slow     *)
(* write ever replaces a newer state by an older one.                      *)
THEOREM RecordMovesForward ==
    ASSUME "snapshot" \notin Clients
    PROVE  Spec => DurableMovesForward
BY InitDurable, StepDurable, InvInvariant, PTL DEF Spec, DurableMovesForward, Durable!Spec
=============================================================================
