-------------------------- MODULE StaleJournalProofs --------------------------
(***************************************************************************)
(* Proofs about module StaleJournal, for every set of keys, every barrier  *)
(* time, both backends and any number of generations.                      *)
(***************************************************************************)
EXTENDS StaleJournal, TLAPS

\* A leaf without a prover of its own is tried with Zenon, then several times with SMT.
USE ZenonT(4), SMTT(6), SMTT(7), SMTT(8), SMTT(9), SMTT(10)

USE JournalAssumption

\* staleMapSlotPath alternates: the next generation goes to the other slot.
LEMMA SlotsAlternate ==
    ASSUME NEW g \in Nat
    PROVE  /\ g % 2 \in 0..1 /\ (g + 1) % 2 \in 0..1
           /\ (g + 1) % 2 = 1 - (g % 2)
           /\ 0 % 2 = 0
  OBVIOUS

\* A step of persistStale or a restart preserves the invariant of the journal.
LEMMA JournalStep ==
    ASSUME JournalInv, Next
    PROVE  JournalInv'
<1>0. /\ TypeOK /\ generation \in Nat /\ NextSlot \in 0..1 /\ generation % 2 \in 0..1
      /\ NextSlot = 1 - (generation % 2) /\ generation % 2 # NextSlot
      /\ Unreadable \in Slot /\ NoMarkers \in Snapshot
  BY SlotsAlternate DEF JournalInv, TypeOK, NextSlot, Unreadable, NoMarkers, Slot, Snapshot
<1>1. ASSUME NEW s \in Snapshot, Change(s) PROVE JournalInv'
  BY <1>0, <1>1 DEF Change, JournalInv, TypeOK, NextSlot
<1>2. CASE FailEarly
  BY <1>0, <1>2 DEF FailEarly, JournalInv, TypeOK, NextSlot
<1>3. CASE Rename
  BY <1>0, <1>3 DEF Rename, JournalInv, TypeOK, NextSlot
<1>4. CASE OpenSlot
  BY <1>0, <1>4 DEF OpenSlot, JournalInv, TypeOK, NextSlot, Unreadable
<1>5. CASE CopyFails
  BY <1>0, <1>5 DEF CopyFails, JournalInv, TypeOK, NextSlot
<1>6. CASE CopyDone
  BY <1>0, <1>6 DEF CopyDone, JournalInv, TypeOK, NextSlot, Slot
<1>7. CASE CloseFails
  BY <1>0, <1>7 DEF CloseFails, JournalInv, TypeOK, NextSlot
<1>8. CASE CloseDone
  BY <1>0, <1>8 DEF CloseDone, JournalInv, TypeOK, NextSlot
<1>9. ASSUME NEW t \in 1..(Barrier - 1), Restart(t) PROVE JournalInv'
  BY <1>0, <1>9 DEF Restart, Best, Recovered, JournalInv, TypeOK, NextSlot, Slot, Snapshot, Unreadable
<1> QED
  BY <1>1, <1>2, <1>3, <1>4, <1>5, <1>6, <1>7, <1>8, <1>9 DEF Next

\* At every point of every write the slot of the current generation is complete.
THEOREM JournalSound == Spec => []JournalInv
<1>1. Init => JournalInv
  BY DEF Init, JournalInv, TypeOK, NextSlot, Unreadable, NoMarkers, Slot, Snapshot
<1>2. JournalInv /\ [Next]_vars => JournalInv'
  BY JournalStep DEF vars, JournalInv, TypeOK, NextSlot
<1> QED
  BY <1>1, <1>2, PTL DEF Spec

\* What the slots say of the store in a state of the journal: nothing newer than
\* the current generation but, perhaps, the slot written next.
LEMMA PendingSlot ==
    JournalInv =>
        /\ Acked \in Snapshot
        /\ Pending = IF slot[NextSlot].gen > generation THEN {slot[NextSlot].markers} ELSE {}
        /\ slot[NextSlot].gen \in Nat /\ generation \in Nat
<1> HAVE JournalInv
<1>0. /\ generation \in Nat /\ NextSlot \in 0..1 /\ generation % 2 \in 0..1
      /\ NextSlot = 1 - (generation % 2)
      /\ slot[NextSlot] \in Slot /\ slot[generation % 2] \in Slot
  BY SlotsAlternate DEF JournalInv, TypeOK, NextSlot
<1>1. slot[NextSlot].gen \in Nat /\ Acked \in Snapshot
  BY <1>0 DEF Slot, Acked, JournalInv, TypeOK
<1>2. slot[generation % 2].gen <= generation
  BY <1>0 DEF JournalInv, Slot
<1>3. \A j \in 0..1 : slot[j].gen > generation <=> (j = NextSlot /\ slot[NextSlot].gen > generation)
  <2>1. ASSUME NEW g \in 0..1, NextSlot = 1 - g, slot[g].gen <= generation, slot[g].gen \in Nat
        PROVE  \A j \in 0..1 :
                  slot[j].gen > generation <=> (j = NextSlot /\ slot[NextSlot].gen > generation)
    BY <1>0, <1>1, <2>1
  <2> QED BY <1>0, <1>2, <2>1 DEF Slot
<1> QED
  BY <1>0, <1>1, <1>3 DEF Pending

\* A step of the journal that leaves generation, slots and file alone leaves the
\* store alone.
LEMMA SameStore ==
    ASSUME UNCHANGED <<generation, slot, file>>
    PROVE  Acked' = Acked /\ Pending' = Pending
  BY DEF Acked, Pending

\* Every step of the journal is a step of the store or invisible to it.
LEMMA StoreStep ==
    ASSUME JournalInv, JournalInv', Next
    PROVE  [Store!Next]_(Store!vars)
<1>0. /\ generation \in Nat /\ NextSlot \in 0..1 /\ generation % 2 \in 0..1
      /\ NextSlot = 1 - (generation % 2) /\ generation % 2 # NextSlot
      /\ slot \in [0..1 -> Slot] /\ mem \in Snapshot /\ mem' \in Snapshot
  BY SlotsAlternate DEF JournalInv, TypeOK, NextSlot
<1>01. /\ Pending' = IF slot'[NextSlot'].gen > generation' THEN {slot'[NextSlot'].markers} ELSE {}
       /\ slot'[NextSlot'].gen \in Nat /\ generation' \in Nat
  <2>1. (JournalInv =>
          /\ Pending = IF slot[NextSlot].gen > generation THEN {slot[NextSlot].markers} ELSE {}
          /\ slot[NextSlot].gen \in Nat /\ generation \in Nat)'
    BY PendingSlot, PTL
  <2> QED BY <2>1
<1>1. ASSUME NEW s \in Snapshot, Change(s) PROVE Store!Change
  BY <1>0, <1>1, SameStore DEF Change, Store!Change, Store!Snapshot, Snapshot
<1>2. CASE FailEarly \/ CopyFails \/ CloseFails
  BY <1>2, SameStore DEF FailEarly, CopyFails, CloseFails, Store!vars
<1>3. CASE Rename
  <2>1. generation = 0 /\ generation' = 0 /\ Pending' = {}
    BY <1>3 DEF Rename, JournalInv, Pending, Unreadable
  <2> QED BY <1>3, <2>1 DEF Rename, Acked, Store!Next, Store!Acknowledge
<1>4. CASE OpenSlot
  <2>1. Acked' = Acked
    BY <1>0, <1>4 DEF OpenSlot, Acked
  <2>2. Pending' = {}
    BY <1>0, <1>01, <1>4 DEF OpenSlot, NextSlot, Unreadable
  <2> QED BY <1>4, <2>1, <2>2 DEF OpenSlot, Store!Next, Store!Overwrite
<1>5. CASE CopyDone
  <2>1. Acked' = Acked
    BY <1>0, <1>5 DEF CopyDone, Acked
  <2>2. slot'[NextSlot'] = [gen |-> generation + 1, markers |-> mem] /\ generation' = generation
    BY <1>0, <1>5 DEF CopyDone, NextSlot
  <2>3. Pending' = {mem}
    BY <1>0, <1>01, <2>2
  <2> QED BY <1>5, <2>1, <2>3 DEF CopyDone, Store!Next, Store!Reach
<1>6. CASE CloseDone
  <2>1. Acked' = mem
    BY <1>0, <1>6 DEF CloseDone, Acked, JournalInv, NextSlot
  <2>2. Pending' = {}
    <3>1. (generation + 1 + 1) % 2 = generation % 2
      BY <1>0
    <3>2. slot'[NextSlot'] = slot[generation % 2] /\ generation' = generation + 1
      BY <1>6, <3>1 DEF CloseDone, NextSlot
    <3> QED BY <1>0, <1>01, <3>2 DEF JournalInv
  <2> QED BY <1>6, <2>1, <2>2 DEF CloseDone, Store!Next, Store!Acknowledge
<1>7. ASSUME NEW t \in 1..(Barrier - 1), Restart(t) PROVE Store!Restart
  <2>1. Best.markers \in {Acked} \cup Pending
    BY <1>0, PendingSlot DEF Best, Acked, JournalInv, NextSlot, Slot
  <2>2. Acked' = Best.markers
    <3>1. Best.gen = 0 => Best.markers = file
      BY <1>0 DEF Best, Slot
    <3>2. Best.gen # 0 => Best = slot[Best.gen % 2]
      BY <1>0 DEF Best, Slot, JournalInv, NextSlot
    <3>3. generation' = Best.gen /\ slot' = slot /\ file' = file
      BY <1>7 DEF Restart
    <3> QED BY <3>1, <3>2, <3>3 DEF Acked
  <2>3. Pending' = {}
    <3>1. \A j \in 0..1 : slot[j].gen <= Best.gen
      BY <1>0 DEF Best, Slot
    <3>2. slot'[NextSlot'].gen <= generation'
      <4>1. NextSlot' \in 0..1
        BY <1>01, SlotsAlternate, Zenon DEF NextSlot
      <4> QED BY <1>7, <3>1, <4>1 DEF Restart
    <3> QED BY <1>01, <3>2
  <2> QED BY <1>7, <2>1, <2>2, <2>3 DEF Restart, Recovered, Store!Restart, Store!Recovered
<1> QED
  BY <1>1, <1>2, <1>3, <1>4, <1>5, <1>6, <1>7 DEF Next, Store!Next

\* Both ways of persisting the markers implement the store the invalidation
\* protocol relies on: no acknowledged marker is lost by a failed or interrupted
\* write, and a restart never mixes two snapshots.
THEOREM JournalImplements == Spec => ImplementsStore
<1>1. Init => Store!Init
  BY DEF Init, Store!Init, Store!Snapshot, Acked, Pending, Unreadable
<1>2. JournalInv /\ JournalInv' /\ [Next]_vars => [Store!Next]_(Store!vars)
  <2> SUFFICES ASSUME JournalInv, JournalInv', [Next]_vars PROVE [Store!Next]_(Store!vars)
    OBVIOUS
  <2>1. CASE UNCHANGED vars
    BY <2>1, SameStore DEF vars, Store!vars
  <2> QED BY <2>1, StoreStep
<1> QED
  BY <1>1, <1>2, JournalSound, PTL DEF Spec, ImplementsStore, Store!Spec
=============================================================================
