---------------------------- MODULE Invalidation ----------------------------
(***************************************************************************)
(* How the built-in cache (src/cache.go) keeps a response that predates an *)
(* invalidation from being reused: stale markers, the invalidation         *)
(* barrier, the generation lock between Store/Freshen and Invalidate, the  *)
(* sweeps that drop markers, and what survives a crash.                    *)
(*                                                                         *)
(* One resource of the origin is stored under a base key and under its     *)
(* Vary variants.  Its body is abstracted to a version number: the origin  *)
(* moves to the next version with every mutation.  Time is a counter; the  *)
(* Go zero time is 0 and the year-9999 barrier is the constant Barrier, so *)
(* every comparison of instants below is the comparison of the code.       *)
(***************************************************************************)
EXTENDS Naturals

CONSTANTS
    Keys,           \* the cache keys of the resource
    Base,           \* the base key; the other keys are Vary variants
    Writers,        \* requests that fetch or validate, then Store or Freshen
    Calls,          \* concurrent Invalidate calls
    Readers,        \* concurrent Retrieve calls
    Barrier,        \* invalidationBarrierTime; also bounds the clock
    TTL,            \* CacheConfig.TTL; 0 disables expiry
    StaleMapTTL,    \* CacheConfig.StaleMapTTL
    MaxVersion,     \* bound on the mutations of the origin
    Events          \* what may happen besides stores and invalidations: "validate",
                    \* "sweep", "purge", "crash", failing "persist" or "remove"

ASSUME ConstantsAssumption ==
    /\ Base \in Keys
    /\ Calls \cap Writers = {}
    /\ Barrier \in Nat /\ Barrier > 1
    /\ TTL \in Nat
    /\ StaleMapTTL \in Nat
    /\ MaxVersion \in Nat

VARIABLES
    now,        \* Clock()
    origin,     \* the version the origin serves
    file,       \* key -> the published body/header pair and its storedAt
    stale,      \* key -> c.stale, 0 when the key has no marker
    disk,       \* key -> the marker in the persisted snapshot
    op,         \* writer -> its request
    call,       \* caller -> its Invalidate
    reader,     \* reader -> its Retrieve
    sweep,      \* the cleanup goroutine
    purge,      \* the Purge call
    promised,   \* history: key -> origin version at the last Invalidate
    durable     \* history: the part of promised that reached the disk

vars == <<now, origin, file, stale, disk, op, call, reader, sweep, purge,
          promised, durable>>
markers == <<stale, disk, promised, durable>>
actors == <<op, call, reader, sweep, purge>>
world == <<now, origin>>

(***************************************************************************)
(* A pair is absent when its storedAt is the zero time.  "late" is history: *)
(* the body came from a request whose superseding marker had already been   *)
(* dropped when it was checked.                                             *)
(***************************************************************************)
File == [ver: Nat, at: Nat, late: BOOLEAN]
NoFile == [ver |-> 0, at |-> 0, late |-> FALSE]
Present == {k \in Keys : file[k].at > 0}

\* Past the marker check, and with a response that is still to be checked.
LockedPC == {"checked", "stamped", "publish", "renewing", "renewed", "republish"}
PendingPC == {"ready", "entered", "validated", "freshened"}
Op == [pc: {"idle", "fetch", "held", "validate", "served"} \cup PendingPC \cup LockedPC,
       key: Keys, req: Nat, ver: Nat, at: Nat, late: BOOLEAN]
NoOp == [pc |-> "idle", key |-> Base, req |-> 0, ver |-> 0, at |-> 0, late |-> FALSE]

\* A Freshen that finds other headers on disk calls Invalidate itself.
Callers == Calls \cup Writers
Call == [pc: {"idle", "asked", "barrier", "wait"}, keys: SUBSET Keys]
NoCall == [pc |-> "idle", keys |-> {}]

Read == [pc: {"idle", "open", "done"}, key: Keys, ver: Nat, at: Nat,
         late: BOOLEAN, stale: BOOLEAN, floor: Nat]
NoRead == [pc |-> "idle", key |-> Base, ver |-> 0, at |-> 0, late |-> FALSE,
           stale |-> FALSE, floor |-> 0]

Sweep == [pc: {"idle", "ttl", "markers", "size"}, start: Nat]
NoSweep == [pc |-> "idle", start |-> 0]

\* The keys whose markers judge an entry: its own and its base key.
Governing(k) == {Base, k}

\* The keys a request is stored under.
OpKeys(o) == Governing(op[o].key)

-----------------------------------------------------------------------------
(***************************************************************************)
(* Locks.  A pending writer of a Go RWMutex keeps new readers out.         *)
(***************************************************************************)
\* Seeded fault: Freshen calls Invalidate before it lets go of generationMu.
GenerationReadersUpgrade ==
    {o \in Writers : op[o].pc \in {"entered"} \cup LockedPC \/ call[o].pc # "idle"}
GenerationReaders == {o \in Writers : op[o].pc \in {"entered"} \cup LockedPC}
GenerationWriterPending == purge # "idle" \/ \E c \in Callers : call[c].pc = "wait"
HeldKeys(o) ==
    CASE op[o].pc \in {"checked", "stamped", "publish"} -> OpKeys(o)
      [] op[o].pc \in {"renewed", "republish"} -> {op[o].key}
      [] OTHER -> {}
KeysFree(K) == \A o \in Writers : HeldKeys(o) \cap K = {}
CleanupWriterPending == sweep.pc \in {"ttl", "markers"} \/ purge = "drain"
PublishPending == \E o \in Writers : op[o].pc \in {"publish", "republish"}
OpenReaders == {r \in Readers : reader[r].pc = "open"}

\* Keys with a reservation: no sweep or eviction may remove them.
Active == UNION {HeldKeys(o) : o \in {p \in Writers : op[p].pc # "checked"}}

-----------------------------------------------------------------------------
(***************************************************************************)
(* Markers and the backing store.                                          *)
(***************************************************************************)
Superseded(t, k) == t <= stale[k]

\* persistStale: a failed write is logged and leaves the previous snapshot.
Persist ==
    \/ disk' = stale' /\ durable' = promised'
    \/ "persist" \in Events /\ UNCHANGED <<disk, durable>>

\* Which of the pairs K the backend refuses to remove.
RemovalFailures(K) == IF "remove" \in Events THEN SUBSET K ELSE {{}}
Without(K) == [k \in Keys |-> IF k \in K THEN NoFile ELSE file[k]]

\* evictForAdmissionLocked and enforceMaxSize with sizes abstracted away: some
\* inactive pairs are removed.
EvictSome == \E V \in SUBSET (Present \ Active) : file' = Without(V)

\* staleRetention
Retention == IF TTL = 0 THEN 0 ELSE IF StaleMapTTL > TTL THEN StaleMapTTL ELSE TTL

\* A pending request that loses the marker that would have superseded it.
Forgive(K) ==
    [o \in Writers |->
        IF /\ op[o].pc \in PendingPC
           /\ \E k \in OpKeys(o) \cap K : Superseded(op[o].req, k)
        THEN [op[o] EXCEPT !.late = TRUE]
        ELSE op[o]]

-----------------------------------------------------------------------------
Init ==
    /\ now = 1
    /\ origin = 1
    /\ file = [k \in Keys |-> NoFile]
    /\ stale = [k \in Keys |-> 0]
    /\ disk = [k \in Keys |-> 0]
    /\ op = [o \in Writers |-> NoOp]
    /\ call = [c \in Callers |-> NoCall]
    /\ reader = [r \in Readers |-> NoRead]
    /\ sweep = NoSweep
    /\ purge = "idle"
    /\ promised = [k \in Keys |-> 0]
    /\ durable = [k \in Keys |-> 0]

Tick ==
    /\ now + 1 < Barrier
    /\ now' = now + 1
    /\ UNCHANGED <<origin, file, markers, actors>>

Mutate ==
    /\ origin < MaxVersion
    /\ origin' = origin + 1
    /\ UNCHANGED <<now, file, markers, actors>>

-----------------------------------------------------------------------------
(***************************************************************************)
(* Requests to the origin.  RequestTime is stamped before the origin is    *)
(* read; a validation carries the pair that was retrieved before it.       *)
(***************************************************************************)
FetchStart(o, k) ==
    /\ op[o].pc = "idle"
    /\ op' = [op EXCEPT ![o] = [NoOp EXCEPT !.pc = "fetch", !.key = k, !.req = now]]
    /\ UNCHANGED <<world, file, markers, call, reader, sweep, purge>>

FetchAnswer(o) ==
    /\ op[o].pc = "fetch"
    /\ op' = [op EXCEPT ![o].pc = "ready", ![o].ver = origin]
    /\ UNCHANGED <<world, file, markers, call, reader, sweep, purge>>

HoldForValidation(o, k) ==
    /\ "validate" \in Events
    /\ op[o].pc = "idle"
    /\ k \in Present
    /\ op' = [op EXCEPT ![o] = [NoOp EXCEPT !.pc = "held", !.key = k,
                                            !.ver = file[k].ver, !.at = file[k].at]]
    /\ UNCHANGED <<world, file, markers, call, reader, sweep, purge>>

ValidateStart(o) ==
    /\ op[o].pc = "held"
    /\ op' = [op EXCEPT ![o].pc = "validate", ![o].req = now]
    /\ UNCHANGED <<world, file, markers, call, reader, sweep, purge>>

\* 304 when the held body is what the origin serves, else a full response.
ValidateAnswer(o) ==
    /\ op[o].pc = "validate"
    /\ op' = [op EXCEPT ![o].pc = IF op[o].ver = origin THEN "validated" ELSE "ready",
                        ![o].ver = origin]
    /\ UNCHANGED <<world, file, markers, call, reader, sweep, purge>>

-----------------------------------------------------------------------------
(***************************************************************************)
(* StoreContext.  The writer holds generationMu for reading to the end, and *)
(* from the check on the writer locks of its keys.                         *)
(***************************************************************************)
Done(o) == op' = [op EXCEPT ![o] = NoOp]

StoreEnter(o) ==
    /\ op[o].pc = "ready"
    /\ ~GenerationWriterPending
    /\ op' = [op EXCEPT ![o].pc = "entered"]
    /\ UNCHANGED <<world, file, markers, call, reader, sweep, purge>>

\* Seeded fault: only the key being written is checked, not its base.
StoreCheckOwnKey(o) ==
    /\ op[o].pc = "entered"
    /\ KeysFree(OpKeys(o))
    /\ IF Superseded(op[o].req, op[o].key)
       THEN Done(o)
       ELSE op' = [op EXCEPT ![o].pc = "checked"]
    /\ UNCHANGED <<world, file, markers, call, reader, sweep, purge>>

\* lockStoreKeys, then responseSuperseded: all keys or none.
StoreCheck(o) ==
    /\ op[o].pc = "entered"
    /\ KeysFree(OpKeys(o))
    /\ IF \E k \in OpKeys(o) : Superseded(op[o].req, k)
       THEN Done(o)
       ELSE op' = [op EXCEPT ![o].pc = "checked"]
    /\ UNCHANGED <<world, file, markers, call, reader, sweep, purge>>

\* storedAt is taken and the keys are reserved before anything is staged.
StoreStamp(o) ==
    /\ op[o].pc = "checked"
    /\ op' = [op EXCEPT ![o].pc = "stamped", ![o].at = now]
    /\ UNCHANGED <<world, file, markers, call, reader, sweep, purge>>

\* prepareStoreEntries: admission may evict, staging leaves the old pair alone.
\* Whether it succeeds or not, publishMu is asked for next.
StorePrepare(o) ==
    /\ op[o].pc = "stamped"
    /\ EvictSome
    /\ op' = [op EXCEPT ![o].pc = "publish"]
    /\ UNCHANGED <<world, markers, call, reader, sweep, purge>>

\* An error or a cancelled context before anything was published.
StoreFail(o) ==
    /\ op[o].pc = "publish"
    /\ OpenReaders = {}
    /\ Done(o)
    /\ UNCHANGED <<world, file, markers, call, reader, sweep, purge>>

NewFile(o) == [ver |-> op[o].ver, at |-> op[o].at, late |-> op[o].late]

\* What an interrupted publication can leave under key k: the old pair, the new
\* one, or the new body beside the old header.
Leftovers(o, k) ==
    {file[k], NewFile(o), [NewFile(o) EXCEPT !.at = file[k].at]}

StoreCommit(o) ==
    /\ op[o].pc = "publish"
    /\ OpenReaders = {}
    /\ file' = [k \in Keys |-> IF k \in OpKeys(o) THEN NewFile(o) ELSE file[k]]
    /\ Done(o)
    /\ UNCHANGED <<world, markers, call, reader, sweep, purge>>

(***************************************************************************)
(* discardPreparedStore after part of the commit went through: every key   *)
(* of the transaction is removed; what the backend refuses to remove is    *)
(* marked as of now, without lowering a barrier.                           *)
(***************************************************************************)
StoreDiscard(o) ==
    /\ op[o].pc = "publish"
    /\ OpenReaders = {}
    /\ \E F \in RemovalFailures(OpKeys(o)) :
         /\ \E left \in [F -> UNION {Leftovers(o, k) : k \in F}] :
              /\ \A k \in F : left[k] \in Leftovers(o, k)
              /\ file' = [k \in Keys |-> CASE k \in F -> left[k]
                                          [] k \in OpKeys(o) \ F -> NoFile
                                          [] OTHER -> file[k]]
         /\ stale' = [k \in Keys |-> IF k \in F /\ stale[k] < now THEN now ELSE stale[k]]
         /\ UNCHANGED promised
         /\ IF F = {} THEN UNCHANGED <<disk, durable>> ELSE Persist
    /\ Done(o)
    /\ UNCHANGED <<world, call, reader, sweep, purge>>

\* The request ends: answered, given up, or its response may not be stored.
Return(o) ==
    /\ op[o].pc \in {"fetch", "held", "validate", "served"} \cup PendingPC
    /\ call[o].pc = "idle"
    /\ Done(o)
    /\ UNCHANGED <<world, file, markers, call, reader, sweep, purge>>

-----------------------------------------------------------------------------
(***************************************************************************)
(* Freshen.  Every governing key is checked, only the retrieved key is     *)
(* rewritten, and only if it still is the pair that was validated.         *)
(***************************************************************************)
FreshenCheck(o) ==
    /\ op[o].pc = "validated"
    /\ ~GenerationWriterPending
    /\ IF \E k \in OpKeys(o) : Superseded(op[o].req, k)
       THEN Done(o)
       ELSE op' = [op EXCEPT ![o].pc = "renewing"]
    /\ UNCHANGED <<world, file, markers, call, reader, sweep, purge>>

\* resourceWasReplaced: the pair on disk is not the one that was validated.
Replaced(o) == file[op[o].key].ver # op[o].ver \/ file[op[o].key].at # op[o].at

\* freshenedAt
FreshenStamp(o) ==
    /\ op[o].pc = "renewing"
    /\ KeysFree({op[o].key})
    /\ ~Replaced(o)
    /\ op' = [op EXCEPT ![o].pc = "renewed", ![o].at = now]
    /\ UNCHANGED <<world, file, markers, call, reader, sweep, purge>>

\* The pair was replaced, or cannot be read.
FreshenRefuse(o) ==
    /\ op[o].pc = "renewing"
    /\ KeysFree({op[o].key})
    /\ Done(o)
    /\ UNCHANGED <<world, file, markers, call, reader, sweep, purge>>

\* The answer changed the headers: the key is invalidated once generationMu is
\* released, and Freshen still returns nil.
FreshenMismatch(o) ==
    /\ op[o].pc = "renewing"
    /\ KeysFree({op[o].key})
    /\ ~Replaced(o)
    /\ op' = [op EXCEPT ![o].pc = "freshened"]
    /\ call' = [call EXCEPT ![o] = [pc |-> "asked", keys |-> {op[o].key}]]
    /\ UNCHANGED <<world, file, markers, reader, sweep, purge>>

\* Admission of the new header, then staging it.
FreshenPrepare(o) ==
    /\ op[o].pc = "renewed"
    /\ EvictSome
    /\ \/ op' = [op EXCEPT ![o].pc = "republish"]
       \/ Done(o)
    /\ UNCHANGED <<world, markers, call, reader, sweep, purge>>

FreshenCommit(o) ==
    /\ op[o].pc = "republish"
    /\ OpenReaders = {}
    /\ file' = [file EXCEPT ![op[o].key] = NewFile(o)]
    /\ op' = [op EXCEPT ![o].pc = "freshened"]
    /\ UNCHANGED <<world, markers, call, reader, sweep, purge>>

\* Staging failed and left the old header, or the commit failed half way and the
\* pair is discarded, or an error came after the new header was in place.
FreshenFail(o) ==
    /\ op[o].pc = "republish"
    /\ OpenReaders = {}
    /\ \/ UNCHANGED file
       \/ file' = Without({op[o].key})
       \/ file' = [file EXCEPT ![op[o].key] = NewFile(o)]
    /\ Done(o)
    /\ UNCHANGED <<world, markers, call, reader, sweep, purge>>

\* Seeded fault: the markers are not read again after Freshen.
ServeValidatedUnchecked(o) ==
    /\ op[o].pc = "freshened"
    /\ call[o].pc = "idle"
    /\ op' = [op EXCEPT ![o].pc = "served"]
    /\ UNCHANGED <<world, file, markers, call, reader, sweep, purge>>

\* freshenValidatedResponse: the markers are read once more before the
\* validated body is handed to the client as fresh.
ServeValidated(o) ==
    /\ op[o].pc = "freshened"
    /\ call[o].pc = "idle"
    /\ IF \E k \in OpKeys(o) : Superseded(op[o].req, k)
       THEN Done(o)
       ELSE op' = [op EXCEPT ![o].pc = "served"]
    /\ UNCHANGED <<world, file, markers, call, reader, sweep, purge>>

-----------------------------------------------------------------------------
(***************************************************************************)
(* Invalidate: a barrier at once, then the final time once every active    *)
(* writer has let go of generationMu.                                      *)
(***************************************************************************)
Mark(K, t) == [k \in Keys |-> IF k \in K THEN t ELSE stale[k]]

InvalidateBarrier(c, K) ==
    /\ \/ c \in Calls /\ call[c].pc = "idle"
       \/ call[c] = [pc |-> "asked", keys |-> K]
    /\ stale' = Mark(K, Barrier)
    /\ promised' = [k \in Keys |-> IF k \in K THEN origin ELSE promised[k]]
    /\ Persist
    /\ call' = [call EXCEPT ![c] = [pc |-> "barrier", keys |-> K]]
    /\ UNCHANGED <<world, file, op, reader, sweep, purge>>

InvalidateLock(c) ==
    /\ call[c].pc = "barrier"
    /\ call' = [call EXCEPT ![c].pc = "wait"]
    /\ UNCHANGED <<world, file, markers, op, reader, sweep, purge>>

InvalidateFinal(c) ==
    /\ call[c].pc = "wait"
    /\ GenerationReaders = {}
    /\ purge # "drain"
    /\ stale' = Mark(call[c].keys, now)
    /\ UNCHANGED promised
    /\ Persist
    /\ call' = [call EXCEPT ![c] = NoCall]
    /\ UNCHANGED <<world, file, op, reader, sweep, purge>>

-----------------------------------------------------------------------------
(***************************************************************************)
(* Retrieve: cleanupMu and publishMu are held for reading from the opening *)
(* of the body to the reading of the marker.                               *)
(***************************************************************************)
RetrieveOpen(r, k) ==
    /\ reader[r].pc = "idle"
    /\ ~CleanupWriterPending
    /\ ~PublishPending
    /\ k \in Present
    /\ reader' = [reader EXCEPT ![r] =
          [pc |-> "open", key |-> k, ver |-> file[k].ver, at |-> file[k].at,
           late |-> file[k].late, stale |-> FALSE, floor |-> promised[k]]]
    /\ UNCHANGED <<world, file, markers, op, call, sweep, purge>>

\* Seeded fault: an entry stored in the instant of the invalidation counts as newer.
RetrieveJudgeInclusive(r) ==
    /\ reader[r].pc = "open"
    /\ reader' = [reader EXCEPT ![r].pc = "done",
                                ![r].stale = reader[r].at < stale[reader[r].key]]
    /\ UNCHANGED <<world, file, markers, op, call, sweep, purge>>

RetrieveJudge(r) ==
    /\ reader[r].pc = "open"
    /\ reader' = [reader EXCEPT ![r].pc = "done",
                                ![r].stale = Superseded(reader[r].at, reader[r].key)]
    /\ UNCHANGED <<world, file, markers, op, call, sweep, purge>>

RetrieveReturn(r) ==
    /\ reader[r].pc = "done"
    /\ reader' = [reader EXCEPT ![r] = NoRead]
    /\ UNCHANGED <<world, file, markers, op, call, sweep, purge>>

-----------------------------------------------------------------------------
(***************************************************************************)
(* Cleanup: expired pairs first, and their markers only if all went.       *)
(***************************************************************************)
CleanupStart ==
    /\ "sweep" \in Events
    /\ sweep.pc = "idle"
    /\ sweep' = [pc |-> "ttl", start |-> now]
    /\ UNCHANGED <<world, file, markers, op, call, reader, purge>>

Expired == {k \in Present : file[k].at + TTL < sweep.start}

\* Seeded fault: Cleanup does not wait for open retrievals.
CleanupUnlocked ==
    /\ sweep.pc = "ttl"
    /\ \E F \in RemovalFailures(Expired \ Active) :
         IF TTL = 0
         THEN UNCHANGED file /\ sweep' = [sweep EXCEPT !.pc = "markers"]
         ELSE /\ file' = Without(Expired \ (Active \cup F))
              /\ sweep' = [sweep EXCEPT !.pc =
                    IF F = {} /\ Expired \cap Active = {} THEN "markers" ELSE "size"]
    /\ UNCHANGED <<world, markers, op, call, reader, purge>>

CleanupTTLExpired ==
    /\ sweep.pc = "ttl"
    /\ OpenReaders = {}
    /\ \E F \in RemovalFailures(Expired \ Active) :
         IF TTL = 0
         THEN UNCHANGED file /\ sweep' = [sweep EXCEPT !.pc = "markers"]
         ELSE /\ file' = Without(Expired \ (Active \cup F))
              /\ sweep' = [sweep EXCEPT !.pc =
                    IF F = {} /\ Expired \cap Active = {} THEN "markers" ELSE "size"]
    /\ UNCHANGED <<world, markers, op, call, reader, purge>>

\* cleanupStaleMap
Swept == IF Retention = 0 THEN {}
         ELSE {k \in Keys : 0 < stale[k] /\ stale[k] + Retention < sweep.start}

CleanupMarkers ==
    /\ sweep.pc = "markers"
    /\ stale' = Mark(Swept, 0)
    /\ op' = Forgive(Swept)
    /\ UNCHANGED promised
    /\ IF Swept = {} THEN UNCHANGED <<disk, durable>> ELSE Persist
    /\ sweep' = [sweep EXCEPT !.pc = "size"]
    /\ UNCHANGED <<world, file, call, reader, purge>>

CleanupMaxSize ==
    /\ sweep.pc = "size"
    /\ EvictSome
    /\ sweep' = NoSweep
    /\ UNCHANGED <<world, markers, op, call, reader, purge>>

-----------------------------------------------------------------------------
(***************************************************************************)
(* Purge: generationMu, then cleanupMu, then every pair; the markers go    *)
(* only if no pair is left behind.                                         *)
(***************************************************************************)
PurgeLock ==
    /\ "purge" \in Events
    /\ purge = "idle"
    /\ purge' = "wait"
    /\ UNCHANGED <<world, file, markers, op, call, reader, sweep>>

PurgeDrain ==
    /\ purge = "wait"
    /\ GenerationReaders = {}
    /\ purge' = "drain"
    /\ UNCHANGED <<world, file, markers, op, call, reader, sweep>>

PurgeRun ==
    /\ purge = "drain"
    /\ OpenReaders = {}
    /\ sweep.pc # "markers"
    /\ \E F \in RemovalFailures(Present) :
         /\ file' = Without(Present \ F)
         /\ IF F # {}
            THEN UNCHANGED <<markers, op>>
            ELSE /\ stale' = Mark(Keys, 0)
                 /\ op' = Forgive(Keys)
                 /\ UNCHANGED promised
                 /\ Persist
    /\ purge' = "idle"
    /\ UNCHANGED <<world, call, reader, sweep>>

-----------------------------------------------------------------------------
(***************************************************************************)
(* A crash and the next construction of the cache: a publication may be    *)
(* cut short, files and the persisted markers survive, a barrier found in  *)
(* the snapshot becomes the time of the restart and is written back.       *)
(***************************************************************************)
Publishing(k) == {o \in Writers : op[o].pc \in {"publish", "republish"} /\ k \in HeldKeys(o)}
CrashFiles(k) ==
    {file[k]} \cup UNION {IF op[o].pc = "publish" THEN Leftovers(o, k)
                         ELSE {file[k], NewFile(o)} : o \in Publishing(k)}

\* Seeded fault: a barrier in the snapshot is taken for garbage and dropped.
RestartNoBarrier ==
    /\ "crash" \in Events
    /\ file' \in {f \in [Keys -> UNION {CrashFiles(k) : k \in Keys}] :
                     \A k \in Keys : f[k] \in CrashFiles(k)}
    /\ stale' = [k \in Keys |-> IF disk[k] = Barrier THEN 0 ELSE disk[k]]
    /\ promised' = durable
    /\ IF \E k \in Keys : disk[k] = Barrier THEN Persist ELSE UNCHANGED <<disk, durable>>
    /\ op' = [o \in Writers |-> NoOp]
    /\ call' = [c \in Callers |-> NoCall]
    /\ reader' = [r \in Readers |-> NoRead]
    /\ sweep' = NoSweep
    /\ purge' = "idle"
    /\ UNCHANGED world

Restart ==
    /\ "crash" \in Events
    /\ file' \in {f \in [Keys -> UNION {CrashFiles(k) : k \in Keys}] :
                     \A k \in Keys : f[k] \in CrashFiles(k)}
    /\ stale' = [k \in Keys |-> IF disk[k] = Barrier THEN now ELSE disk[k]]
    /\ promised' = durable
    /\ IF \E k \in Keys : disk[k] = Barrier THEN Persist ELSE UNCHANGED <<disk, durable>>
    /\ op' = [o \in Writers |-> NoOp]
    /\ call' = [c \in Callers |-> NoCall]
    /\ reader' = [r \in Readers |-> NoRead]
    /\ sweep' = NoSweep
    /\ purge' = "idle"
    /\ UNCHANGED world

-----------------------------------------------------------------------------
WriterStep(o) ==
    \/ \E k \in Keys : FetchStart(o, k) \/ HoldForValidation(o, k)
    \/ FetchAnswer(o) \/ ValidateStart(o) \/ ValidateAnswer(o)
    \/ StoreEnter(o) \/ StoreCheck(o) \/ StoreStamp(o) \/ StorePrepare(o)
    \/ StoreFail(o) \/ StoreCommit(o) \/ StoreDiscard(o)
    \/ FreshenCheck(o) \/ FreshenStamp(o) \/ FreshenRefuse(o) \/ FreshenMismatch(o)
    \/ FreshenPrepare(o) \/ FreshenCommit(o) \/ FreshenFail(o)
    \/ ServeValidated(o) \/ Return(o)

CallStep(c) ==
    \/ \E K \in SUBSET Keys \ {{}} : InvalidateBarrier(c, K)
    \/ InvalidateLock(c) \/ InvalidateFinal(c)

ReaderStep(r) ==
    \/ \E k \in Keys : RetrieveOpen(r, k)
    \/ RetrieveJudge(r) \/ RetrieveReturn(r)

SweepStep == CleanupStart \/ CleanupTTLExpired \/ CleanupMarkers \/ CleanupMaxSize
PurgeStep == PurgeLock \/ PurgeDrain \/ PurgeRun

\* Everything but retrievals and crashes.
Background ==
    \/ Tick \/ Mutate
    \/ \E o \in Writers : WriterStep(o)
    \/ \E c \in Callers : CallStep(c)
    \/ SweepStep \/ PurgeStep

Next == Background \/ (\E r \in Readers : ReaderStep(r)) \/ Restart

Spec == Init /\ [][Next]_vars

(***************************************************************************)
(* Once inside its critical section a goroutine keeps running: the body it *)
(* stores is already received, nothing waits for a client or the origin.   *)
(* Writers of one RWMutex queue on a sync.Mutex, whose starvation mode     *)
(* serves them in order, hence SF where Invalidate, Purge and Cleanup      *)
(* compete.  Requests, calls and cleanups need never begin.                *)
(***************************************************************************)
LockedStep(o) ==
    \/ StoreCheck(o) \/ StoreStamp(o) \/ StorePrepare(o)
    \/ StoreFail(o) \/ StoreCommit(o) \/ StoreDiscard(o)
    \/ FreshenStamp(o) \/ FreshenRefuse(o) \/ FreshenMismatch(o)
    \/ FreshenPrepare(o) \/ FreshenCommit(o) \/ FreshenFail(o)

Fairness ==
    /\ \A o \in Writers : WF_vars(LockedStep(o))
    /\ \A o \in Writers : WF_vars(InvalidateBarrier(o, call[o].keys))
    /\ \A c \in Callers : WF_vars(InvalidateLock(c)) /\ SF_vars(InvalidateFinal(c))
    /\ \A r \in Readers : WF_vars(RetrieveJudge(r))
    /\ WF_vars(CleanupTTLExpired) /\ WF_vars(CleanupMarkers) /\ WF_vars(CleanupMaxSize)
    /\ SF_vars(PurgeDrain) /\ SF_vars(PurgeRun)

FairSpec == Spec /\ Fairness

-----------------------------------------------------------------------------
(***************************************************************************)
(* Properties                                                              *)
(***************************************************************************)

\* Every variable has its type.
TypeOK ==
    /\ now \in Nat
    /\ origin \in Nat
    /\ file \in [Keys -> File]
    /\ stale \in [Keys -> Nat]
    /\ disk \in [Keys -> Nat]
    /\ op \in [Writers -> Op]
    /\ call \in [Callers -> Call]
    /\ reader \in [Readers -> Read]
    /\ sweep \in Sweep
    /\ purge \in {"idle", "wait", "drain"}
    /\ promised \in [Keys -> Nat]
    /\ durable \in [Keys -> Nat]

\* A published pair older than the origin was at the last Invalidate of its key,
\* or of the base key it is a variant of, is judged stale by that key's marker,
\* across the barrier, the final time, the sweeps, Purge and a restart.  Excepted are
\* a body whose request was still in flight when the marker superseding it was
\* dropped, and one whose header a HEAD that is passed through replaces (pipeUpstream
\* calls Freshen without provenance), which is not modelled.
Outdated(f, v) == f.at > 0 /\ ~f.late /\ f.ver < v
NothingOutdatedFresh ==
    \A k \in Keys : \A g \in Governing(k) :
        Outdated(file[k], promised[g]) => Superseded(file[k].at, g)

\* A Retrieve never returns, as fresh, a body older than the origin was at the
\* last Invalidate of its key, whatever stores, freshens, sweeps, purges and
\* restarts ran meanwhile.  The exceptions are those of NothingOutdatedFresh: a body
\* whose request was in flight when its marker was dropped, and the Freshen of a HEAD
\* that is passed through.
RetrieveSound ==
    \A r \in Readers :
        reader[r].pc = "done" /\ ~reader[r].stale /\ ~reader[r].late
            => reader[r].ver >= reader[r].floor

\* freshenValidatedResponse hands a validated body out as fresh only if no
\* Invalidate of its key or base key has overtaken the validation, even one
\* that landed between Freshen's own check and its header write.
ServeValidatedSound ==
    [][\A o \in Writers :
          op[o].pc = "freshened" /\ op'[o].pc = "served" /\ ~op[o].late
             => \A k \in OpKeys(o) : op[o].ver >= promised[k]]_vars

\* Invalidate returns although stores and freshens keep arriving: a waiting
\* Invalidate keeps new ones out and the active ones finish.
InvalidateReturns == \A c \in Callers : call[c].pc # "idle" ~> call[c].pc = "idle"

\* Purge returns although retrievals, stores and cleanups keep arriving.
PurgeReturns == purge # "idle" ~> purge = "idle"

-----------------------------------------------------------------------------
(***************************************************************************)
(* The inductive invariant.  promised and durable are covered by markers   *)
(* on three fronts: pairs on disk, requests that have not been checked,    *)
(* and writers past the check, for which only a standing barrier will do.  *)
(***************************************************************************)
\* Stamps lie in the past; a marker is a past time or the barrier; a promise is
\* about a version the origin has served.
MarkerInv ==
    /\ 1 <= now /\ now < Barrier
    /\ sweep.start <= now
    /\ \A k \in Keys :
         /\ stale[k] <= now \/ stale[k] = Barrier
         /\ disk[k] <= now \/ disk[k] = Barrier
         /\ durable[k] <= promised[k]
         /\ promised[k] <= origin

\* The marker of key k and a pair f it judges: the marker in memory marks the
\* pair, the one on disk will after a crash, and the running sweep is not about
\* to drop it.
MarkerCovers(k, f) ==
    /\ f.at <= now
    /\ Outdated(f, promised[k]) => f.at <= stale[k]
    /\ Outdated(f, durable[k]) => f.at <= disk[k]
    /\ sweep.pc = "markers" /\ TTL > 0 /\ Outdated(f, promised[k]) /\ f.at + TTL < sweep.start
         => stale[k] >= sweep.start

PairCovered(k, f) == \A g \in Governing(k) : MarkerCovers(g, f)

\* A request p: overtaken before the check it will be refused, overtaken after
\* the check it publishes under a standing barrier.
RequestCovered(p) ==
    /\ p.req <= now /\ p.at <= now
    /\ \A k \in Governing(p.key) :
         /\ p.pc \in PendingPC /\ ~p.late /\ p.ver < promised[k] => p.req <= stale[k]
         /\ p.pc \in LockedPC /\ ~p.late /\ p.ver < promised[k] => stale[k] = Barrier
         /\ p.pc \in LockedPC /\ ~p.late /\ p.ver < durable[k] => disk[k] = Barrier

\* A retrieval q: while it is open its marker cannot be dropped.
ReadCovered(q) ==
    /\ q.at <= now
    /\ q.pc = "open" => sweep.pc # "markers"
    /\ q.pc = "open" /\ ~q.late /\ q.ver < q.floor => q.at <= stale[q.key]
    /\ q.pc = "done" /\ ~q.late /\ q.ver < q.floor => q.stale

\* Purge has generationMu for itself before it touches a pair.
DrainInv == purge = "drain" => GenerationReaders = {}

IInv ==
    /\ TypeOK
    /\ MarkerInv
    /\ DrainInv
    /\ \A k \in Keys : PairCovered(k, file[k])
    /\ \A o \in Writers : RequestCovered(op[o])
    /\ \A r \in Readers : ReadCovered(reader[r])
=============================================================================
