------------------------------ MODULE Admission ------------------------------
(***************************************************************************)
(* The size ledger of the built-in cache (src/cache.go): which entries the *)
(* LRU index tracks, the bytes they are charged for, the growth reserved   *)
(* by stores in progress, and the evictions that make room.                *)
(*                                                                         *)
(* A writer is one Store (of one or two keys) or one Freshen (of one).  It *)
(* locks its keys in hash order, reserves, stages and publishes them and   *)
(* then tracks them; every failure ends in discardPreparedStore and the    *)
(* deferred releases.  The loops that walk the LRU list hold lruMutex for  *)
(* their whole length: `walk' is the loop in progress and doubles as that  *)
(* mutex, so each visited entry is a step and no other ledger operation    *)
(* runs meanwhile.                                                         *)
(*                                                                         *)
(* A key is its hash, a number, so that lock order is the order of         *)
(* numbers.  A size is the bytes of a body and its header together.        *)
(***************************************************************************)
EXTENDS Integers, Sequences, FiniteSets, Functions

CONSTANTS
    Keys,      \* hashed keys, ordered as sort.Strings orders the hashes
    Writers,   \* Store and Freshen calls in progress
    Sizes,     \* sizes an entry can have
    MaxSize,   \* CacheConfig.MaxSize
    InPlace,   \* TRUE for a generic VFS, which writes its files in place
    Faults,    \* what may go wrong: "remove", a file the backend keeps
    Scans      \* what scanExistingCache may find: the bytes of each key

ASSUME AdmissionAssumption ==
    /\ Keys \subseteq Nat /\ IsFiniteSet(Keys)
    /\ Sizes \subseteq Nat \ {0}
    /\ MaxSize \in Nat \ {0}
    /\ InPlace \in BOOLEAN
    /\ \A s \in Scans : s \in [Keys -> Nat] /\ SumFunction(s) \in Nat

VARIABLES
    size,          \* lruIndex: the bytes charged to a key, 0 if untracked
    lru,           \* lruList, most recently used first
    totalSize,
    active,        \* the domain of the reservations map
    reservations,  \* its values, 0 outside the domain as Go reads them
    reservedSize,
    disk,          \* bytes of the key's published files, 0 if none
    op,            \* the writers
    walk,          \* the loop that holds lruMutex
    rest           \* the keys it has yet to visit

vars == <<size, lru, totalSize, active, reservations, reservedSize, disk,
          op, walk, rest>>
ledger == <<size, lru, totalSize>>
reserved == <<active, reservations, reservedSize>>
loop == <<walk, rest>>

NoKey == -1

NoOp == [pc |-> "idle", keys |-> {}, held |-> {}, todo |-> {},
         key |-> NoKey, item |-> [k \in Keys |-> 0], published |-> FALSE]

NoWalk == [kind |-> "none"]

\* lruMutex is free.
Unlocked == walk = NoWalk

\* The writer is not inside evictForAdmissionLocked.
Running(o) == walk.kind = "admit" => walk.op # o

PreparePC == {"prepare", "sized", "written"}
WriterPC ==
    {"idle", "lock", "begin", "commit", "track", "discard", "release"}
        \cup PreparePC

OpType ==
    [pc : WriterPC, keys : SUBSET Keys, held : SUBSET Keys,
     todo : SUBSET Keys, key : Keys \cup {NoKey}, item : [Keys -> Nat],
     published : BOOLEAN]

WalkType ==
    [kind : {"none", "ttl", "size", "purge"}]
        \cup [kind : {"admit"}, op : Writers, key : Keys, item : Nat]

LedgerType ==
    /\ size \in [Keys -> Nat]
    /\ totalSize \in Int
    /\ active \subseteq Keys
    /\ reservations \in [Keys -> Nat]
    /\ reservedSize \in Int
    /\ disk \in [Keys -> Nat]

TypeOK ==
    /\ LedgerType
    /\ op \in [Writers -> OpType]
    /\ walk \in WalkType

------------------------------------------------------------------------------
(* Start-up: scanExistingCache tracks every body file it finds.            *)

Scan(s) == {k \in Keys : s[k] > 0}

\* The directory is listed in some order.
Listings(s) == Bijection(1..Cardinality(Scan(s)), Scan(s))

Init ==
    /\ \E s \in Scans :
         /\ size = s /\ disk = s
         /\ lru \in Listings(s)
         /\ totalSize = SumFunction(s)
    /\ active = {}
    /\ reservations = [k \in Keys |-> 0]
    /\ reservedSize = 0
    /\ op = [o \in Writers |-> NoOp]
    /\ walk = NoWalk
    /\ rest = <<>>

------------------------------------------------------------------------------
(* Key locks and reservations.                                             *)

\* The writer's state is now x.
Becomes(o, x) == op' = [op EXCEPT ![o] = x]

\* Key k is dealt with; after the last one the next phase takes up all keys.
Advance(x, k, same, next) ==
    [x EXCEPT !.pc = IF x.todo = {k} THEN next ELSE same,
              !.todo = IF x.todo = {k} THEN x.keys ELSE @ \ {k}]

Idle(o) == op[o].pc = "idle"
Held(o) == op[o].held

\* StoreContext and freshenResourceForKey enter under generationMu, which
\* Purge holds exclusively.
Begin(o, ks) ==
    /\ Idle(o)
    /\ walk.kind # "purge"
    /\ Becomes(o, [NoOp EXCEPT !.pc = "lock", !.keys = ks, !.todo = ks])
    /\ UNCHANGED <<ledger, reserved, disk, loop>>

\* Seeded fault: lock the keys in the caller's order, any order here.
LockKeyUnsorted(o) ==
    /\ op[o].pc = "lock"
    /\ \E k \in op[o].todo :
         /\ \A p \in Writers : k \notin Held(p)
         /\ Becomes(o, [Advance(op[o], k, "lock", "begin") EXCEPT
                         !.held = @ \cup {k}])
    /\ UNCHANGED <<ledger, reserved, disk, loop>>

\* lockStoreKeys takes the writer locks in sorted order, one at a time.
LockKey(o) ==
    /\ op[o].pc = "lock"
    /\ \E k \in op[o].todo :
         /\ \A j \in op[o].todo : k <= j
         /\ \A p \in Writers : k \notin Held(p)
         /\ Becomes(o, [Advance(op[o], k, "lock", "begin") EXCEPT
                         !.held = @ \cup {k}])
    /\ UNCHANGED <<ledger, reserved, disk, loop>>

BeginReservation(o) ==
    /\ op[o].pc = "begin"
    /\ Unlocked
    /\ \E k \in op[o].todo :
         /\ active' = active \cup {k}
         /\ reservations' = [reservations EXCEPT ![k] = 0]
         /\ Becomes(o, Advance(op[o], k, "begin", "prepare"))
    /\ UNCHANGED <<ledger, reservedSize, disk, loop>>

\* A superseded response or a cancelled context returns before the first
\* reservation.
Superseded(o) ==
    /\ op[o].pc = "begin"
    /\ op[o].todo = op[o].keys
    /\ Becomes(o, NoOp)
    /\ UNCHANGED <<ledger, reserved, disk, loop>>

------------------------------------------------------------------------------
(* Walks over the LRU list, from the least recently used entry.            *)

\* list.Remove unlinks the one element of k, if the index has it.
Position(k) == CHOOSE i \in DOMAIN lru : lru[i] = k
Without(k) ==
    IF k \in Range(lru)
    THEN [i \in 1..(Len(lru) - 1) |-> lru[IF i < Position(k) THEN i ELSE i + 1]]
    ELSE lru

StartWalk(w) ==
    /\ walk' = w
    /\ rest' = lru

EndWalk ==
    /\ walk' = NoWalk
    /\ rest' = <<>>

\* Seeded fault: the record goes before the files, which the backend keeps.
RemovedRecordFirst(k) ==
    /\ size' = [size EXCEPT ![k] = 0]
    /\ lru' = Without(k)
    /\ totalSize' = totalSize - size[k]
    /\ UNCHANGED disk

\* removeEntry: both files go, or the backend keeps one and the record stays
\* charged for a later retry.
Removed(k) ==
    /\ size' = [size EXCEPT ![k] = 0]
    /\ lru' = Without(k)
    /\ totalSize' = totalSize - size[k]
    /\ disk' = [disk EXCEPT ![k] = 0]

\* Seeded fault: forget the growth other writers have reserved.
TargetSizeAlone == MaxSize - walk.item + size[walk.key]

\* The bytes the ledger may hold so that the walk's item still fits: the
\* other writers' reserved growth is spoken for, the key's own old bytes are
\* given back.
TargetSize ==
    MaxSize - (reservedSize - reservations[walk.key]) - walk.item
            + size[walk.key]

\* Seeded fault: the size sweep stops one byte early.
WantedLax ==
    CASE walk.kind = "admit" -> totalSize > TargetSize
      [] walk.kind = "size"  -> totalSize > MaxSize + 1
      [] walk.kind \in {"ttl", "purge"} -> TRUE
      [] OTHER -> FALSE

Wanted ==
    CASE walk.kind = "admit" -> totalSize > TargetSize
      [] walk.kind = "size"  -> totalSize > MaxSize
      [] walk.kind \in {"ttl", "purge"} -> TRUE
      [] OTHER -> FALSE

\* Seeded fault: only the walker's own key is protected.
SkippedOwn(k) ==
    \/ walk.kind = "admit" /\ k = walk.key

\* An entry some writer is replacing is nobody's victim.  Purge runs without
\* writers.
Skipped(k) ==
    \/ walk.kind = "admit" /\ k = walk.key
    \/ walk.kind # "purge" /\ k \in active

\* One iteration of a walk.  The TTL walk also passes over the entries that
\* have not expired.
Visit(k) ==
    /\ rest # <<>>
    /\ k = rest[Len(rest)]
    /\ Wanted
    /\ rest' = SubSeq(rest, 1, Len(rest) - 1)
    /\ \/ /\ ~Skipped(k)
          /\ Removed(k)
       \/ /\ \/ Skipped(k)
             \/ walk.kind = "ttl"
             \/ "remove" \in Faults
          /\ UNCHANGED <<ledger, disk>>
    /\ UNCHANGED <<reserved, op, walk>>

\* Seeded fault: the loop stops before it has visited the last element.
WalkDoneEarly ==
    walk.kind # "none" /\ (Len(rest) <= 1 \/ ~Wanted)

\* The loop's condition fails or the list is exhausted.
WalkDone == walk.kind # "none" /\ (rest = <<>> \/ ~Wanted)

\* cleanupTTLExpired, enforceMaxSize, and Purge, which waits for the writers.
Cleanup(kind) ==
    /\ Unlocked
    /\ kind = "purge" => \A o \in Writers : Idle(o)
    /\ StartWalk([kind |-> kind])
    /\ UNCHANGED <<ledger, reserved, disk, op>>

CleanupEnd ==
    /\ WalkDone
    /\ walk.kind # "admit"
    /\ EndWalk
    /\ UNCHANGED <<ledger, reserved, disk, op>>

------------------------------------------------------------------------------
(* A writer stages its keys one after the other.                           *)

\* Seeded fault: a failure with nothing published returns without releasing.
FailedLeaky(o, published) ==
    Becomes(o, IF published
                 THEN [op[o] EXCEPT !.pc = "discard", !.todo = op[o].keys]
                 ELSE NoOp)

\* discardPreparedStore, entered by a failure: without anything published the
\* old generation stays; otherwise every key of the transaction is discarded.
Failed(o, published) ==
    Becomes(o, [op[o] EXCEPT !.pc = IF published THEN "discard" ELSE "release",
                             !.todo = op[o].keys])

\* reserveEntry up to its loop.  An item beyond the whole limit is refused.
Reserve(o, k, n) ==
    /\ Unlocked
    /\ IF n > MaxSize
         THEN Failed(o, op[o].published) /\ UNCHANGED loop
         ELSE /\ StartWalk([kind |-> "admit", op |-> o, key |-> k, item |-> n])
              /\ UNCHANGED op
    /\ UNCHANGED <<ledger, reserved, disk>>

\* With a Content-Length, room is made before the body is read.
ReserveExpected(o, k, n) ==
    /\ op[o].pc = "prepare"
    /\ k \in op[o].todo
    /\ Reserve(o, k, n)

\* stageBodyContext: a generic VFS overwrites the published body at once.
StageBody(o, k, n) ==
    /\ Running(o)
    /\ \/ op[o].pc = "prepare" /\ k \in op[o].todo
       \/ op[o].pc = "sized" /\ k = op[o].key
    /\ Becomes(o, [op[o] EXCEPT !.pc = "written", !.key = k,
                                !.item = [@ EXCEPT ![k] = n],
                                !.published = @ \/ InPlace])
    /\ disk' = IF InPlace THEN [disk EXCEPT ![k] = n] ELSE disk
    /\ UNCHANGED <<ledger, reserved, loop>>

\* Seeded fault: what was written is never reserved.
ReserveWrittenSkipped(o) ==
    /\ op[o].pc = "written"
    /\ Becomes(o, Advance(op[o], op[o].key, "prepare", "commit"))
    /\ UNCHANGED <<ledger, reserved, disk, loop>>

\* The second reservation, for what was really written.
ReserveWritten(o) ==
    /\ op[o].pc = "written"
    /\ Reserve(o, op[o].key, op[o].item[op[o].key])

\* The rest of reserveEntry, once its walk is over.
ReserveEnd ==
    /\ WalkDone
    /\ walk.kind = "admit"
    /\ LET o == walk.op
           k == walk.key
           growth == IF walk.item > size[k] THEN walk.item - size[k] ELSE 0
       IN IF totalSize > TargetSize
            THEN Failed(o, op[o].published) /\ UNCHANGED reserved
            ELSE /\ reservedSize' = reservedSize + growth - reservations[k]
                 /\ reservations' = [reservations EXCEPT ![k] = growth]
                 /\ UNCHANGED active
                 /\ Becomes(o, IF op[o].pc = "prepare"
                                THEN [op[o] EXCEPT !.pc = "sized", !.key = k]
                                ELSE Advance(op[o], k, "prepare", "commit"))
    /\ EndWalk
    /\ UNCHANGED <<ledger, disk>>

\* A cancelled context, a failed read of the body or a failed staging write,
\* up to and including the check made after waiting for publishMu.
StageFail(o) ==
    /\ Running(o)
    /\ op[o].pc \in PreparePC \cup {"commit"}
    /\ Failed(o, op[o].published)
    /\ UNCHANGED <<ledger, reserved, disk, loop>>

------------------------------------------------------------------------------
(* Publication, tracking and rollback.                                     *)

\* commitStagedLocked renames the staged files; in place there is nothing
\* left to do.  A rename that fails leaves the earlier ones published.
Commit(o) ==
    /\ op[o].pc = "commit"
    /\ \E done \in SUBSET op[o].keys :
         /\ InPlace => done = op[o].keys
         /\ disk' = IF InPlace THEN disk
                    ELSE [k \in Keys |-> IF k \in done THEN op[o].item[k]
                                                       ELSE disk[k]]
         /\ IF done = op[o].keys
              THEN Becomes(o, [op[o] EXCEPT !.pc = "track"])
              ELSE Failed(o, done # {})
    /\ UNCHANGED <<ledger, reserved, loop>>

ReleaseReservation(k) ==
    /\ active' = active \ {k}
    /\ reservedSize' = reservedSize - reservations[k]
    /\ reservations' = [reservations EXCEPT ![k] = 0]

\* Seeded fault: charge the new size without giving back the old one.
TrackTwice(o) ==
    /\ op[o].pc = "track"
    /\ Unlocked
    /\ \E k \in op[o].todo :
         /\ size' = [size EXCEPT ![k] = op[o].item[k]]
         /\ totalSize' = totalSize + op[o].item[k]
         /\ lru' = <<k>> \o Without(k)
         /\ ReleaseReservation(k)
         /\ Becomes(o, Advance(op[o], k, "track", "release"))
    /\ UNCHANGED <<disk, loop>>

\* trackEntry charges the key for what was published and returns its
\* reservation in the same critical section.
Track(o) ==
    /\ op[o].pc = "track"
    /\ Unlocked
    /\ \E k \in op[o].todo :
         /\ size' = [size EXCEPT ![k] = op[o].item[k]]
         /\ totalSize' = totalSize - size[k] + op[o].item[k]
         /\ lru' = <<k>> \o Without(k)
         /\ ReleaseReservation(k)
         /\ Becomes(o, Advance(op[o], k, "track", "release"))
    /\ UNCHANGED <<disk, loop>>

\* discardUnadmitted: remove both files and the record; a residual that the
\* backend refuses to remove is charged, at least one byte, so that cleanup
\* finds it again.
Discarded(k, residual) ==
    \/ Removed(k)
    \/ /\ "remove" \in Faults
       /\ disk[k] > 0
       /\ LET charged == IF size[k] > 0
                           THEN IF residual > size[k] THEN residual ELSE size[k]
                           ELSE IF residual > 0 THEN residual ELSE 1
          IN /\ size' = [size EXCEPT ![k] = charged]
             /\ totalSize' = totalSize + charged - size[k]
       /\ lru' = IF size[k] > 0 THEN lru ELSE <<k>> \o lru
       /\ UNCHANGED disk

Discard(o) ==
    /\ op[o].pc = "discard"
    /\ Unlocked
    /\ \E k \in op[o].todo :
         /\ Discarded(k, op[o].item[k])
         /\ Becomes(o, Advance(op[o], k, "discard", "release"))
    /\ UNCHANGED <<reserved, loop>>

\* The deferred releases, still under the writer locks; the locks go last.
Release(o) ==
    /\ op[o].pc = "release"
    /\ Unlocked
    /\ \E k \in op[o].todo :
         /\ ReleaseReservation(k)
         /\ Becomes(o, IF op[o].todo = {k} THEN NoOp
                        ELSE Advance(op[o], k, "release", "release"))
    /\ UNCHANGED <<ledger, disk, loop>>

------------------------------------------------------------------------------
(* Readers.                                                                *)

\* touchEntry, the end of a successful retrieve.
Touch(k) ==
    /\ Unlocked
    /\ size[k] > 0
    /\ lru' = <<k>> \o Without(k)
    /\ UNCHANGED <<size, totalSize, reserved, disk, op, loop>>

\* Seeded fault: discard without the key's writer lock.
DiscardCorruptUnlocked(k) ==
    /\ Unlocked
    /\ disk[k] > 0
    /\ Discarded(k, disk[k])
    /\ UNCHANGED <<reserved, op, loop>>

\* discardCorrupt, after a checksum mismatch, under the key's writer lock.
DiscardCorrupt(k) ==
    /\ Unlocked
    /\ \A o \in Writers : k \notin Held(o)
    /\ disk[k] > 0
    /\ Discarded(k, disk[k])
    /\ UNCHANGED <<reserved, op, loop>>

------------------------------------------------------------------------------

WriterStep(o) ==
    \/ LockKey(o)
    \/ BeginReservation(o)
    \/ \E k \in Keys, n \in Sizes : ReserveExpected(o, k, n)
    \/ \E k \in Keys, n \in Sizes : StageBody(o, k, n)
    \/ ReserveWritten(o)
    \/ StageFail(o)
    \/ Commit(o)
    \/ Track(o)
    \/ Discard(o)
    \/ Release(o)

WalkStep ==
    \/ \E k \in Keys : Visit(k)
    \/ ReserveEnd
    \/ CleanupEnd

\* A transaction has one key, or a base key and its Vary variant.
Transactions == {ks \in SUBSET Keys : ks # {} /\ Cardinality(ks) <= 2}

Next ==
    \/ \E o \in Writers, ks \in Transactions : Begin(o, ks)
    \/ \E o \in Writers : WriterStep(o) \/ Superseded(o)
    \/ WalkStep
    \/ \E kind \in {"ttl", "size", "purge"} : Cleanup(kind)
    \/ \E k \in Keys : Touch(k) \/ DiscardCorrupt(k)

Spec == Init /\ [][Next]_vars

\* Every critical section ends and every goroutine that can run does; mutex
\* hand-off is fair (sync.Mutex starvation mode), so a writer that keeps
\* finding lruMutex or a writer lock free in turn gets it.
Fairness ==
    /\ WF_vars(WalkStep)
    /\ \A o \in Writers : SF_vars(WriterStep(o))

FairSpec == Spec /\ Fairness

------------------------------------------------------------------------------
(* Properties.                                                             *)

\* The ledger is exact: totalSize is the sum of what the tracked entries are
\* charged, reservedSize the sum of the reservations, and the LRU list holds
\* every tracked key exactly once (src/cache.go trackEntry, removeEntry,
\* reserveEntry, discardUnadmitted update them piecemeal).
LedgerExact ==
    /\ totalSize = SumFunction(size)
    /\ reservedSize = SumFunction(reservations)
    /\ Range(lru) = Scan(size)
    /\ Len(lru) = Cardinality(Scan(size))

\* No bytes on disk are invisible to the ledger: published files belong to a
\* tracked key or to one whose writer still owes the ledger its outcome, so
\* that no sequence of failed stores grows the backing store unseen (the
\* comment on discardUnadmitted).  A header without a body that an earlier process left
\* is excepted: the scan at start-up counts bodies.
DiskTracked ==
    \A k \in Keys : disk[k] > 0 => size[k] > 0 \/ k \in active

\* Reserved growth is always returned: without a writer nothing is reserved,
\* whichever way the stores before ended (the deferred releaseReservation of
\* StoreContext and freshenResourceForKey, and trackEntry's own release).
ReservationsReturned ==
    (\A o \in Writers : Idle(o)) => active = {} /\ reservedSize = 0

WithinLimit == totalSize + reservedSize <= MaxSize

\* The published files never take more than the ledger and the reservations
\* admit: while the accounted bytes are within MaxSize, so is the disk, also
\* between a rename and its trackEntry (a store reserves before it commits).
DiskWithinLimit ==
    Faults = {} /\ ~InPlace /\ WithinLimit => SumFunction(disk) <= MaxSize

\* Committed plus reserved bytes never grow past MaxSize: no step, and no
\* interleaving of reservations, replacements, evictions and rollbacks,
\* leaves the limit once it is kept (evictForAdmissionLocked; the removal
\* faults are excluded because a residual is charged without admission).
StaysWithinLimit ==
    [][Faults = {} /\ WithinLimit => WithinLimit']_vars

\* The files of a key under replacement are changed by its writer alone:
\* neither another store's eviction, nor the TTL and size sweeps, nor a
\* reader discarding a corrupt entry touches them ("Protect all old variants
\* before admission can evict any of them" in StoreContext).
ReplacementUndisturbed ==
    [][\A o \in Writers, k \in Keys :
         k \in Held(o) \cap active /\ disk'[k] # disk[k] => op'[o] # op[o]]_vars

\* Admission is refused for want of room only when nothing is left to evict:
\* every other tracked entry is being replaced by some writer (the loop of
\* evictForAdmissionLocked, with a backend that removes what it is asked to).
RefusedOnlyWhenFull ==
    [][\A o \in Writers :
         /\ Faults = {}
         /\ walk.kind = "admit" /\ walk.op = o
         /\ op'[o].pc \in {"discard", "release"}
         => Scan(size) \subseteq active \cup {walk.key}]_vars

\* After a size sweep the ledger is within MaxSize or only entries under
\* replacement are left (enforceMaxSize, even of a directory scanned beyond
\* the limit).
SweepEnforces ==
    [][/\ Faults = {}
       /\ walk.kind = "size" /\ walk' = NoWalk
       => totalSize <= MaxSize \/ Scan(size) \subseteq active]_vars

(* The inductive invariant behind the theorems of AdmissionProofs.         *)

\* What a writer in state x has published and not yet accounted for.
Pending(x) ==
    CASE x.pc \in PreparePC \cup {"commit"} ->
           IF x.published THEN x.keys ELSE {}
      [] x.pc \in {"track", "discard"} -> x.todo
      [] OTHER -> {}

\* The keys that have passed their last reserveEntry and are not yet charged.
Admitted(x) ==
    CASE x.pc \in PreparePC -> x.keys \ x.todo
      [] x.pc = "commit" -> x.keys
      [] x.pc = "track"  -> x.todo
      [] OTHER -> {}

\* The keys whose reservation the writer counts on.
Protected(x) ==
    CASE x.pc \in PreparePC \cup {"commit", "discard"} -> x.keys
      [] x.pc = "track" -> x.todo
      [] x.pc = "begin" -> x.keys \ x.todo
      [] OTHER -> {}

Consistent(x) ==
    /\ x.held \subseteq x.keys
    /\ x.todo \subseteq x.keys
    /\ x.pc = "idle" => x.keys = {}
    /\ x.pc = "lock" => x.keys = x.held \cup x.todo
    /\ x.pc \notin {"idle", "lock"} => x.held = x.keys
    /\ x.pc = "commit" => x.todo = x.keys
    /\ x.pc \in {"sized", "written"} => x.key \in x.todo
    /\ x.pc = "written" => x.item[x.key] > 0
    /\ x.pc \in {"lock", "begin"} => ~x.published
    /\ ~InPlace /\ x.pc \in PreparePC \cup {"commit"} => ~x.published

\* An admitted key's reservation covers what its publication will add.
Funded(x) ==
    /\ Protected(x) \subseteq active
    /\ \A k \in Admitted(x) :
         x.item[k] > 0 /\ x.item[k] <= size[k] + reservations[k]

WriterInv ==
    /\ \A o \in Writers : Consistent(op[o]) /\ Funded(op[o])
    /\ \A o, p \in Writers : o # p => Held(o) \cap Held(p) = {}

WalkInv ==
    /\ walk.kind = "purge" => \A o \in Writers : Idle(o)
    /\ walk.kind = "admit" =>
         /\ op[walk.op].pc \in {"prepare", "written"}
         /\ walk.key \in op[walk.op].todo
         /\ op[walk.op].pc = "written" =>
              /\ walk.key = op[walk.op].key
              /\ walk.item = op[walk.op].item[walk.key]

PendingInv ==
    \A k \in Keys :
      disk[k] > 0 => size[k] > 0 \/ \E o \in Writers : k \in Pending(op[o])

\* The strengthening that makes DiskTracked and StaysWithinLimit inductive:
\* writer locks are exclusive, the loop in progress belongs to the writer
\* waiting for it, admitted keys are funded by their reservations, and files
\* without a ledger entry belong to a writer that will account for them.
IInv == TypeOK /\ WriterInv /\ WalkInv /\ PendingInv

\* The keys whose reservation the writer in state x has yet to give back.
Owned(x) ==
    CASE x.pc = "begin" -> x.keys \ x.todo
      [] x.pc \in PreparePC \cup {"commit", "discard"} -> x.keys
      [] x.pc \in {"track", "release"} -> x.todo
      [] OTHER -> {}

\* What the counters, the list and the reservations map say of each other.
BooksInv ==
    /\ totalSize = SumFunction(size)
    /\ reservedSize = SumFunction(reservations)
    /\ lru \in Seq(Keys) /\ IsInjective(lru) /\ Range(lru) = Scan(size)
    /\ \A k \in Keys \ active : reservations[k] = 0
    /\ \A k \in active : \E o \in Writers : k \in Owned(op[o])

\* Between a rename and its trackEntry or roll-back a writer in state x answers for
\* what it published: within its item, and within what it has reserved.
Answered(x) ==
    \A k \in x.todo :
      /\ x.pc = "track" => disk[k] <= x.item[k]
      /\ x.pc = "discard" => disk[k] <= size[k] + reservations[k]

\* All other published bytes are charged.
BytesInv ==
    /\ \A k \in Keys : disk[k] <= size[k] \/ \E o \in Writers : k \in Pending(op[o])
    /\ \A o \in Writers : Answered(op[o])

\* What a loop has left behind, it could not remove.
LoopInv ==
    /\ rest \in Seq(Keys)
    /\ Faults = {} /\ walk.kind \in {"admit", "size"} =>
          \A k \in Scan(size) :
             k \in Range(rest) \cup active \/ (walk.kind = "admit" /\ k = walk.key)

\* The strengthening that makes LedgerExact, ReservationsReturned, DiskWithinLimit
\* and the properties of the loops inductive, together with IInv.
LInv ==
    /\ BooksInv /\ LoopInv
    /\ ~InPlace /\ Faults = {} => BytesInv

\* Every Store and Freshen returns: writers with overlapping key lists never
\* wait for each other in a circle (lockStoreKeys) and no loop over the LRU
\* list keeps lruMutex for ever.
StoreReturns == \A o \in Writers : ~Idle(o) ~> Idle(o)

==============================================================================
