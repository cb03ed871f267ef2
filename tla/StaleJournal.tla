---------------------------- MODULE StaleJournal ----------------------------
(***************************************************************************)
(* How the invalidation markers are persisted (persistStale) and restored  *)
(* (loadStale).  A disk cache replaces one file by an atomic rename; any   *)
(* other file system gets a journal of two slots, written in turn, because *)
(* a rewrite in place may fail or be cut short at any point.               *)
(*                                                                         *)
(* Every caller of persistStale holds staleMutex from its change of the    *)
(* map to the return of the write, so one write is in progress at a time   *)
(* and it writes the map as it stands.                                     *)
(***************************************************************************)
EXTENDS Naturals

CONSTANTS
    Keys,
    Barrier,   \* invalidationBarrierTime
    MaxGen     \* bound on the journal's generations

ASSUME JournalAssumption ==
    /\ Barrier \in Nat /\ Barrier > 1
    /\ MaxGen \in Nat

VARIABLES
    atomic,       \* whether the cache has a diskRoot; it never changes
    mem,          \* c.stale
    generation,   \* c.staleGeneration
    slot,         \* stale-markers.0.json and stale-markers.1.json
    file,         \* stale-markers.json; a missing file reads as no marker
    pc            \* where persistStale is

vars == <<atomic, mem, generation, slot, file, pc>>

Snapshot == [Keys -> 0..Barrier]

\* A slot that is absent, truncated or cut short does not decode: generation 0.
NoMarkers == [k \in Keys |-> 0]
Unreadable == [gen |-> 0, markers |-> NoMarkers]

Slot == [gen : Nat, markers : Snapshot]

TypeOK ==
    /\ atomic \in BOOLEAN
    /\ mem \in Snapshot
    /\ generation \in Nat
    /\ slot \in [0..1 -> Slot]
    /\ file \in Snapshot
    /\ pc \in {"idle", "begin", "open", "written"}

\* A cache that starts with the markers an earlier version left in the file.
Init ==
    /\ atomic \in BOOLEAN
    /\ mem \in [Keys -> 0..(Barrier - 1)]
    /\ generation = 0
    /\ slot = [i \in 0..1 |-> Unreadable]
    /\ file = mem
    /\ pc = "idle"

-----------------------------------------------------------------------------
\* staleMapSlotPath of the next generation: the slot not holding the current one.
NextSlot == (generation + 1) % 2

\* Invalidate, the sweep, Purge or a rollback changes the map and persists it.
Change(s) ==
    /\ pc = "idle"
    /\ mem' = s
    /\ pc' = "begin"
    /\ UNCHANGED <<atomic, generation, slot, file>>

\* The write fails before it touches the disk, or (atomic) before the rename.
FailEarly ==
    /\ pc = "begin"
    /\ pc' = "idle"
    /\ UNCHANGED <<atomic, mem, generation, slot, file>>

\* atomicWriteFile: the temporary file is complete and synced before the rename.
Rename ==
    /\ atomic
    /\ pc = "begin"
    /\ file' = mem
    /\ pc' = "idle"
    /\ UNCHANGED <<atomic, mem, generation, slot>>

\* vfsWrite opens the slot with O_TRUNC.
OpenSlot ==
    /\ ~atomic
    /\ pc = "begin"
    /\ generation < MaxGen
    /\ slot' = [slot EXCEPT ![NextSlot] = Unreadable]
    /\ pc' = "open"
    /\ UNCHANGED <<atomic, mem, generation, file>>

\* Seeded fault: the generation advances although the copy failed.
CopyFailsAdvancing ==
    /\ pc = "open"
    /\ generation' = generation + 1
    /\ pc' = "idle"
    /\ UNCHANGED <<atomic, mem, slot, file>>

\* The copy is cut short.
CopyFails ==
    /\ pc = "open"
    /\ pc' = "idle"
    /\ UNCHANGED <<atomic, mem, generation, slot, file>>

CopyDone ==
    /\ pc = "open"
    /\ slot' = [slot EXCEPT ![NextSlot] = [gen |-> generation + 1, markers |-> mem]]
    /\ pc' = "written"
    /\ UNCHANGED <<atomic, mem, generation, file>>

\* Close reports an error although the whole snapshot was written.
CloseFails ==
    /\ pc = "written"
    /\ pc' = "idle"
    /\ UNCHANGED <<atomic, mem, generation, slot, file>>

CloseDone ==
    /\ pc = "written"
    /\ generation' = generation + 1
    /\ pc' = "idle"
    /\ UNCHANGED <<atomic, mem, slot, file>>

-----------------------------------------------------------------------------
\* Seeded fault: the first readable slot is taken.
BestFirst ==
    IF slot[0].gen > 0 THEN slot[0] ELSE IF slot[1].gen > 0 THEN slot[1]
    ELSE [gen |-> 0, markers |-> file]

\* loadStale: the readable slot of the highest generation, else the file.
Best ==
    IF slot[0].gen = 0 /\ slot[1].gen = 0 THEN [gen |-> 0, markers |-> file]
    ELSE IF slot[1].gen > slot[0].gen THEN slot[1] ELSE slot[0]

\* restoreStale: an interrupted invalidation is final as of the restart time t.
Recovered(s, t) == [k \in Keys |-> IF s[k] = Barrier THEN t ELSE s[k]]

\* The process dies at any point of a write; the next one restores the markers
\* and, if it recovered a barrier, persists them again.
Restart(t) ==
    /\ generation' = Best.gen
    /\ mem' = Recovered(Best.markers, t)
    /\ pc' = IF \E k \in Keys : Best.markers[k] = Barrier THEN "begin" ELSE "idle"
    /\ UNCHANGED <<atomic, slot, file>>

Next ==
    \/ \E s \in Snapshot : Change(s)
    \/ FailEarly \/ Rename
    \/ OpenSlot \/ CopyFails \/ CopyDone \/ CloseFails \/ CloseDone
    \/ \E t \in 1..(Barrier - 1) : Restart(t)

Spec == Init /\ [][Next]_vars

-----------------------------------------------------------------------------
\* The snapshot acknowledged last: the slot of the current generation.
Acked == IF generation = 0 THEN file ELSE slot[generation % 2].markers

\* A complete slot the current generation does not count yet.
Pending ==
    {slot[i].markers : i \in {j \in 0..1 : slot[j].gen > generation}}

Store == INSTANCE MarkerStore WITH acked <- Acked, pending <- Pending

\* Whatever write fails or is cut short, and whenever the process dies, a restart
\* finds the markers persistStale acknowledged last or the complete newer ones:
\* the slot being rewritten is never the only complete one.
ImplementsStore == Store!Spec

\* The current generation is complete in its own slot, and the other slot holds
\* an older generation, nothing readable, or the one being written.
JournalInv ==
    /\ TypeOK
    /\ generation > 0 => slot[generation % 2].gen = generation
    /\ generation = 0 => slot[0].gen = 0
    /\ slot[NextSlot].gen < generation \/ slot[NextSlot].gen \in {0, generation + 1}
    /\ pc = "open" => slot[NextSlot].gen = 0
    /\ pc = "written" => slot[NextSlot] = [gen |-> generation + 1, markers |-> mem]
    /\ atomic => generation = 0 /\ slot = [i \in 0..1 |-> Unreadable] /\ pc \in {"idle", "begin"}
=============================================================================
