----------------------------- MODULE Generation -----------------------------
(***************************************************************************)
(* The two files of a cache entry (src/cache.go, src/integrity.go): a body *)
(* and a header that are written, read, freshened, evicted and discarded   *)
(* one at a time, and that have to mean one generation of the response.    *)
(*                                                                         *)
(* One key is modelled; the stores of other keys meet it only as evictors. *)
(* A native disk cache stages both files and renames them into place; a    *)
(* cache over a generic VFS rewrites them where they are (inPlace).        *)
(* Invalidation is a module of its own: no marker is looked at here.       *)
(***************************************************************************)
EXTENDS Naturals

CONSTANTS
    Stores,        \* calls of StoreContext for the key
    Readers,       \* calls of Retrieve, each of which may Freshen what it got
    MaxEvictions,  \* bound on the attempts of other keys' stores to evict the key
    MaxCrashes,    \* bound on the crashes of the process
    Old,           \* the generation the cache was started with
    Residual,      \* the lruIndex record of a residual: it has no generation
    None

Ops == Stores \cup Readers
Gens == Stores \cup {Old}

\* A body is one generation's, in full or cut short.  The HTTP fields of a header
\* describe generation gen, its digest is that of generation sum (with integrity),
\* and by is the operation that wrote the file.
Body == [gen: Gens, whole: BOOLEAN]
Header == [gen: Gens, sum: Gens, by: Ops \cup {Old}, whole: BOOLEAN]

ASSUME GenerationAssumption ==
    /\ Stores \cap Readers = {}
    /\ MaxEvictions \in Nat /\ MaxCrashes \in Nat
    /\ Old \notin Ops \cup {Residual, None}
    /\ Residual \notin Ops \cup {None}
    /\ None \notin Ops \cup Body \cup Header \cup {"body", "header"}

VARIABLES
    inPlace,    \* diskRoot is empty: files are rewritten in place; never changes
    integrity,  \* IntegritySHA256 is configured; never changes
    tied,       \* the stores write byte for byte the same header; never changes
    body,       \* the body file
    header,     \* the header file
    index,      \* the generation lruIndex has for the key
    remover,    \* the file an evictor, holding lruMutex, is about to remove
    pc,         \* where each operation is
    have,       \* what each Retrieve has got of the entry
    residue,    \* ghost: generations left behind by a crash or a refused removal
    evictions, crashes

config == <<inPlace, integrity, tied>>
files == <<body, header>>
vars == <<inPlace, integrity, tied, body, header, index, remover, pc, have, residue,
          evictions, crashes>>

(***************************************************************************)
(* pc says which locks an operation holds.                                 *)
(***************************************************************************)
Preparing  == {"body", "bodyEnd", "header", "headerEnd", "publish", "fail"}
Committing == {"commit", "commitHeader", "track", "rollback"}
Reading    == {"generation", "open", "readHeader", "openBody"}

\* Operations that hold the key's writer lock, its reader lock, a reservation in
\* the ledger, and the write and the read side of publishMu.
KeyWriting == {"reserve", "check", "discardPublish", "discard"} \cup Preparing \cup Committing
KeyReading == {"readPublish"} \cup Reading
Reserved   == {"check"} \cup Preparing \cup Committing
Publishing == {"discard"} \cup Committing

PCs == {"idle", "retrieved", "corrupt", "done"} \cup KeyWriting \cup KeyReading

\* storageGeneration, the opened body and the header of a retrieved resource.
Resource == [generation: Ops \cup {Old, None}, body: Body \cup {None}, header: Header \cup {None}]
Nothing == [generation |-> None, body |-> None, header |-> None]

TypeOK ==
    /\ inPlace \in BOOLEAN /\ integrity \in BOOLEAN /\ tied \in BOOLEAN
    /\ body \in Body \cup {None}
    /\ header \in Header \cup {None}
    /\ index \in Ops \cup {Old, Residual, None}
    /\ remover \in {"body", "header", None}
    /\ pc \in [Ops -> PCs]
    /\ have \in [Readers -> Resource]
    /\ residue \subseteq Gens
    /\ evictions \in 0..MaxEvictions /\ crashes \in 0..MaxCrashes

OldBody == [gen |-> Old, whole |-> TRUE]
OldHeader == [gen |-> Old, sum |-> Old, by |-> Old, whole |-> TRUE]

Init ==
    /\ inPlace \in BOOLEAN /\ integrity \in BOOLEAN
    /\ tied \in {t \in BOOLEAN : t => ~integrity}     \* the header has the body's digest
    /\ \/ body = None /\ header = None /\ index = None
       \/ body = OldBody /\ header = OldHeader /\ index = Old
    /\ remover = None
    /\ pc = [o \in Ops |-> "idle"]
    /\ have = [r \in Readers |-> Nothing]
    /\ residue = {}
    /\ evictions = 0 /\ crashes = 0

\* The header file ends with headerRecordTerminator.
Terminated == header # None /\ header.whole
Complete == body # None /\ Terminated
Agree(b, h) == b.whole /\ b.gen = h.gen

\* The fingerprint of a header: the digest of its bytes.
Fingerprint(h) == IF tied /\ h.by \in Stores THEN "tied" ELSE h.by

KeyFree(o) ==
    /\ \A p \in Ops \ {o} : pc[p] \notin KeyWriting
    /\ inPlace => \A p \in Ops \ {o} : pc[p] \notin KeyReading
KeyReadable(o) == inPlace => \A p \in Ops \ {o} : pc[p] \notin KeyWriting
\* Fault: publishMu is a plain mutex that readers do not take.
PublishFreeIgnoresReaders(o) == \A p \in Ops \ {o} : pc[p] \notin Publishing
PublishFree(o) == \A p \in Ops \ {o} : pc[p] \notin Publishing \cup Reading
PublishReadable(o) == \A p \in Ops \ {o} : pc[p] \notin Publishing
LedgerFree == remover = None                          \* lruMutex

GoTo(o, l) == pc' = [pc EXCEPT ![o] = l]
Unmoved == UNCHANGED <<config, residue, evictions, crashes>>
-----------------------------------------------------------------------------
(***************************************************************************)
(* StoreContext: the writer lock, the reservation, then the body and the   *)
(* header, staged or in place.  Each write may fail, for a full disk, an   *)
(* exhausted budget, a body of the wrong length, an admission refused or a *)
(* cancelled context; before OpenFile has truncated the file, or after.    *)
(***************************************************************************)
\* A store cancelled by now, or superseded by an invalidation, returns.
LockStoreKey(o) ==
    /\ o \in Stores /\ pc[o] = "idle" /\ KeyFree(o)
    /\ GoTo(o, "reserve") \/ GoTo(o, "done")
    /\ Unmoved /\ UNCHANGED <<files, index, remover, have>>

BeginReservation(o) ==
    /\ o \in Stores /\ pc[o] = "reserve" /\ LedgerFree
    /\ GoTo(o, "body")
    /\ Unmoved /\ UNCHANGED <<files, index, remover, have>>

StageBody(o) ==
    /\ pc[o] = "body"
    /\ \/ /\ GoTo(o, "bodyEnd")
          /\ body' = IF inPlace THEN [gen |-> o, whole |-> FALSE] ELSE body
       \/ GoTo(o, "fail") /\ UNCHANGED body
    /\ Unmoved /\ UNCHANGED <<header, index, remover, have>>

StageBodyEnds(o) ==
    /\ pc[o] = "bodyEnd"
    /\ \/ /\ GoTo(o, "header")
          /\ body' = IF inPlace THEN [gen |-> o, whole |-> TRUE] ELSE body
       \/ GoTo(o, "fail") /\ UNCHANGED body
    /\ Unmoved /\ UNCHANGED <<header, index, remover, have>>

\* Freshen writes the retrieved resource's fields and keeps the stored digest.
NewHeader(o, whole) ==
    [gen   |-> IF o \in Stores THEN o ELSE have[o].header.gen,
     sum   |-> IF o \in Stores THEN o ELSE header.sum,
     by    |-> o,
     whole |-> whole]

\* In place the header is read, its digest kept, and then truncated.
StageHeader(o) ==
    /\ pc[o] = "header"
    /\ \/ /\ GoTo(o, "headerEnd")
          /\ header' = IF inPlace THEN NewHeader(o, FALSE) ELSE header
       \/ GoTo(o, "fail") /\ UNCHANGED header
    /\ Unmoved /\ UNCHANGED <<body, index, remover, have>>

StageHeaderEnds(o) ==
    /\ pc[o] = "headerEnd"
    /\ \/ /\ GoTo(o, "publish")
          /\ header' = IF inPlace THEN NewHeader(o, TRUE) ELSE header
       \/ GoTo(o, "fail") /\ UNCHANGED header
    /\ Unmoved /\ UNCHANGED <<body, index, remover, have>>

(***************************************************************************)
(* Publication and rollback, under publishMu.                              *)
(***************************************************************************)
LockPublish(o) ==
    /\ pc[o] \in {"publish", "fail"} /\ PublishFree(o)
    /\ \/ /\ pc[o] = "publish"
          /\ GoTo(o, CASE inPlace -> "track" [] ~inPlace /\ o \in Stores -> "commit"
                       [] OTHER -> "commitHeader")
       \/ (pc[o] = "publish" => o \in Stores) /\ GoTo(o, "rollback")   \* ctx.Err, or failed
    /\ Unmoved /\ UNCHANGED <<files, index, remover, have>>

RenameBody(o) ==
    /\ pc[o] = "commit"
    /\ \/ GoTo(o, "commitHeader") /\ body' = [gen |-> o, whole |-> TRUE]
       \/ GoTo(o, "rollback") /\ UNCHANGED body
    /\ Unmoved /\ UNCHANGED <<header, index, remover, have>>

RenameHeader(o) ==
    /\ pc[o] = "commitHeader"
    /\ \/ GoTo(o, "track") /\ header' = NewHeader(o, TRUE)
       \/ GoTo(o, "rollback") /\ UNCHANGED header
    /\ Unmoved /\ UNCHANGED <<body, index, remover, have>>

\* The ledger gets a new generation, and every lock is released.
TrackEntry(o) ==
    /\ pc[o] = "track" /\ LedgerFree
    /\ GoTo(o, "done")
    /\ index' = o
    /\ have' = IF o \in Readers THEN [have EXCEPT ![o] = Nothing] ELSE have
    /\ Unmoved /\ UNCHANGED <<files, remover>>

\* Files in refused cannot be removed: their record stays in the ledger, or a
\* residual is entered for them.
DiscardUnadmitted(refused) ==
    /\ body' = IF "body" \in refused THEN body ELSE None
    /\ header' = IF "header" \in refused THEN header ELSE None
    /\ index' = IF body' = None /\ header' = None THEN None
                ELSE IF index = None THEN Residual ELSE index
    /\ residue' = residue \cup IF body' # None /\ header' # None THEN {body.gen, header.gen} ELSE {}

Published(o) == \/ body # None /\ body.gen = o
                \/ header # None /\ header.by = o

DiscardPrepared(o) ==
    /\ pc[o] = "rollback" /\ LedgerFree
    /\ GoTo(o, "done")
    /\ \/ Published(o) /\ \E refused \in SUBSET {"body", "header"} : DiscardUnadmitted(refused)
       \/ ~Published(o) /\ UNCHANGED <<files, index, residue>>
    /\ have' = IF o \in Readers THEN [have EXCEPT ![o] = Nothing] ELSE have
    /\ UNCHANGED <<config, remover, evictions, crashes>>

(***************************************************************************)
(* Retrieve: the key's reader lock in place, publishMu, the generation of  *)
(* the ledger, the body and then the header.  A header that is missing or  *)
(* cut short is a miss.  With integrity the body read is the one the       *)
(* header has the digest of, or Retrieve goes on to discardCorrupt.        *)
(***************************************************************************)
LockRetrieveKey(o) ==
    /\ o \in Readers /\ pc[o] = "idle" /\ KeyReadable(o)
    /\ GoTo(o, "readPublish")
    /\ Unmoved /\ UNCHANGED <<files, index, remover, have>>

LockRetrievePublish(o) ==
    /\ pc[o] = "readPublish" /\ PublishReadable(o)
    /\ GoTo(o, "generation")
    /\ Unmoved /\ UNCHANGED <<files, index, remover, have>>

LedgerGeneration == IF index = Residual THEN None ELSE index

EntryGeneration(o) ==
    /\ pc[o] = "generation" /\ LedgerFree
    /\ GoTo(o, "open")
    /\ have' = [have EXCEPT ![o].generation = LedgerGeneration]
    /\ Unmoved /\ UNCHANGED <<files, index, remover>>

OpenBody(o) ==
    /\ pc[o] = "open"
    /\ \/ /\ body # None
          /\ GoTo(o, "readHeader")
          /\ have' = [have EXCEPT ![o].body = body]
       \/ body = None /\ GoTo(o, "done") /\ have' = [have EXCEPT ![o] = Nothing]
    /\ Unmoved /\ UNCHANGED <<files, index, remover>>

Verified(b, h) == integrity => b.whole /\ b.gen = h.sum

ReadHeader(o) ==
    /\ pc[o] = "readHeader"
    /\ \/ /\ Terminated
          /\ GoTo(o, IF Verified(have[o].body, header) THEN "retrieved" ELSE "corrupt")
          /\ have' = [have EXCEPT ![o].header = header]
       \/ ~Terminated /\ GoTo(o, "done") /\ have' = [have EXCEPT ![o] = Nothing]
    /\ Unmoved /\ UNCHANGED <<files, index, remover>>

\* Header looks up the header first.  Without integrity it returns it; with it the
\* body has to be there and to have the digest.
HeaderRecord(o) ==
    /\ pc[o] = "generation"
    /\ \/ /\ Terminated /\ integrity
          /\ GoTo(o, "openBody") /\ have' = [have EXCEPT ![o].header = header]
       \/ ~(Terminated /\ integrity) /\ GoTo(o, "done") /\ UNCHANGED have
    /\ Unmoved /\ UNCHANGED <<files, index, remover>>

HeaderBody(o) ==
    /\ pc[o] = "openBody"
    /\ \/ /\ body # None /\ Verified(body, have[o].header)
          /\ GoTo(o, "done") /\ have' = [have EXCEPT ![o] = Nothing]
       \/ /\ ~(body # None /\ Verified(body, have[o].header))
          /\ GoTo(o, "corrupt") /\ UNCHANGED have
    /\ Unmoved /\ UNCHANGED <<files, index, remover>>

CloseResource(o) ==
    /\ pc[o] = "retrieved"
    /\ GoTo(o, "done") /\ have' = [have EXCEPT ![o] = Nothing]
    /\ Unmoved /\ UNCHANGED <<files, index, remover>>

(***************************************************************************)
(* discardCorrupt: the entry is removed if its header is still the one     *)
(* that was read.                                                          *)
(***************************************************************************)
LockCorruptKey(o) ==
    /\ pc[o] = "corrupt" /\ KeyFree(o)
    /\ GoTo(o, "discardPublish")
    /\ Unmoved /\ UNCHANGED <<files, index, remover, have>>

LockCorruptPublish(o) ==
    /\ pc[o] = "discardPublish" /\ PublishFree(o)
    /\ GoTo(o, "discard")
    /\ Unmoved /\ UNCHANGED <<files, index, remover, have>>

SameRecord(o) == header # None /\ Fingerprint(header) = Fingerprint(have[o].header)

\* Fault: whatever is stored is discarded.
DiscardCorruptAny(o) ==
    /\ pc[o] = "discard" /\ LedgerFree
    /\ GoTo(o, "done") /\ have' = [have EXCEPT ![o] = Nothing]
    /\ \E refused \in SUBSET {"body", "header"} : DiscardUnadmitted(refused)
    /\ UNCHANGED <<config, remover, evictions, crashes>>

DiscardCorrupt(o) ==
    /\ pc[o] = "discard" /\ LedgerFree
    /\ GoTo(o, "done") /\ have' = [have EXCEPT ![o] = Nothing]
    /\ \/ SameRecord(o) /\ \E refused \in SUBSET {"body", "header"} : DiscardUnadmitted(refused)
       \/ ~SameRecord(o) /\ UNCHANGED <<files, index, residue>>
    /\ UNCHANGED <<config, remover, evictions, crashes>>

(***************************************************************************)
(* Freshen of what was retrieved.  From StageHeader on it goes the way of  *)
(* a store.                                                                *)
(***************************************************************************)
LockFreshenKey(o) ==
    /\ pc[o] = "retrieved" /\ KeyFree(o)
    /\ GoTo(o, "reserve")
    /\ Unmoved /\ UNCHANGED <<files, index, remover, have>>

FreshenReservation(o) ==
    /\ o \in Readers /\ pc[o] = "reserve" /\ LedgerFree
    /\ GoTo(o, "check")
    /\ Unmoved /\ UNCHANGED <<files, index, remover, have>>

\* Fault: only the bytes of the header are compared.
ResourceWasReplacedByBytes(o) == ~SameRecord(o)

\* On disk the files themselves are compared too (os.SameFile).
ResourceWasReplaced(o) ==
    \/ have[o].generation # None /\ have[o].generation # index
    \/ ~SameRecord(o)
    \/ ~inPlace /\ header.by # have[o].header.by

\* Validation may have changed the fields Freshen compares, or the larger header
\* is not admitted: then nothing is written.
FreshenChecks(o) ==
    /\ pc[o] = "check"
    /\ \/ /\ Complete /\ ~ResourceWasReplaced(o)
          /\ GoTo(o, "header") /\ UNCHANGED have
       \/ GoTo(o, "done") /\ have' = [have EXCEPT ![o] = Nothing]
    /\ Unmoved /\ UNCHANGED <<files, index, remover>>
-----------------------------------------------------------------------------
(***************************************************************************)
(* Another key's store evicts the entry, the body first and then the       *)
(* header, holding lruMutex alone; no key with a reservation is a victim.  *)
(***************************************************************************)
EvictForAdmission ==
    /\ LedgerFree /\ index # None /\ evictions < MaxEvictions
    /\ \A o \in Ops : pc[o] \notin Reserved
    /\ remover' = "body" /\ evictions' = evictions + 1
    /\ UNCHANGED <<config, files, index, pc, have, residue, crashes>>

\* Fault: the evictor waits for publishMu with lruMutex held.
EvictBodyPublished ==
    /\ remover = "body" /\ \A o \in Ops : pc[o] \notin Publishing \cup Reading
    /\ remover' = "header"
    /\ body' \in {body, None}
    /\ Unmoved /\ UNCHANGED <<header, index, pc, have>>

EvictBody ==
    /\ remover = "body"
    /\ remover' = "header"
    /\ body' \in {body, None}
    /\ Unmoved /\ UNCHANGED <<header, index, pc, have>>

EvictHeader ==
    /\ remover = "header"
    /\ remover' = None
    /\ header' \in {header, None}
    /\ index' = IF body = None /\ header' = None THEN None ELSE index
    /\ Unmoved /\ UNCHANGED <<body, pc, have>>

\* The process dies with every operation in it, and the next one scans the body
\* files.  Operations that have not begun are the next process's.
Crash ==
    /\ crashes < MaxCrashes
    /\ crashes' = crashes + 1
    /\ pc' = [o \in Ops |-> IF pc[o] = "idle" THEN "idle" ELSE "done"]
    /\ have' = [r \in Readers |-> Nothing]
    /\ index' = IF body = None THEN None ELSE Old
    /\ remover' = None
    /\ residue' = residue \cup IF Complete /\ ~Agree(body, header) THEN {body.gen, header.gen} ELSE {}
    /\ UNCHANGED <<config, files, evictions>>

Store(o) ==
    \/ LockStoreKey(o) \/ BeginReservation(o) \/ StageBody(o) \/ StageBodyEnds(o)
    \/ RenameBody(o)
Write(o) ==
    \/ StageHeader(o) \/ StageHeaderEnds(o) \/ LockPublish(o) \/ RenameHeader(o)
    \/ TrackEntry(o) \/ DiscardPrepared(o)
Retrieve(o) ==
    \/ LockRetrieveKey(o) \/ LockRetrievePublish(o) \/ EntryGeneration(o) \/ OpenBody(o)
    \/ ReadHeader(o) \/ HeaderRecord(o) \/ HeaderBody(o)
    \/ LockCorruptKey(o) \/ LockCorruptPublish(o) \/ DiscardCorrupt(o)
Freshen(o) == LockFreshenKey(o) \/ FreshenReservation(o) \/ FreshenChecks(o)
Evict == EvictForAdmission \/ EvictBody \/ EvictHeader

Next ==
    \/ \E o \in Stores : Store(o)
    \/ \E o \in Ops : Write(o)
    \/ \E o \in Readers : Retrieve(o) \/ Freshen(o) \/ CloseResource(o)
    \/ Evict \/ Crash

Spec == Init /\ [][Next]_vars

\* Each operation is a goroutine; an evictor is inside a loop that ends.
FairSpec ==
    /\ Spec
    /\ \A o \in Stores : WF_vars(Store(o) \/ Write(o))
    /\ \A o \in Readers : WF_vars(Write(o) \/ Retrieve(o) \/ Freshen(o) \/ CloseResource(o))
    /\ WF_vars(EvictBody \/ EvictHeader)
-----------------------------------------------------------------------------
Tainted(b, h) == b.gen \in residue \/ h.gen \in residue

\* A body and a header that Retrieve hands out together are of one generation and
\* the body is whole, whatever stores, freshenings, evictions and rollbacks run
\* beside it (cache.go:1101).  Without integrity a generation that a crash left
\* mixed, or whose removal the backend refused, may be handed out; with it, never.
\* The Freshen of a HEAD that is passed through, without provenance, is excepted.
Paired ==
    \A r \in Readers : pc[r] = "retrieved" =>
        \/ Agree(have[r].body, have[r].header)
        \/ ~integrity /\ Tainted(have[r].body, have[r].header)

\* Whenever no writer is at work on the key the files agree, if both are there: a
\* store and a freshening that overlap leave one generation (cache.go:1444), and a
\* failed one leaves the old generation or nothing, with the same exception.
LeftPaired ==
    (Complete /\ \A o \in Ops : pc[o] \notin KeyWriting) =>
        Agree(body, header) \/ Tainted(body, header)

\* discardCorrupt never removes an entry that is in order: the replacement that
\* landed after the failed verification survives (integrity.go:146).
GoodEntrySurvives ==
    [][\A r \in Readers : (pc[r] = "discard" /\ Complete /\ Agree(body, header))
          => Complete' \/ pc'[r] = "discard"]_vars

\* Every operation returns: the key locks, publishMu and lruMutex are taken in an
\* order in which nobody waits for anybody in a circle (cache.go:1088).
OperationsReturn == \A o \in Ops : pc[o] # "idle" ~> pc[o] = "done"
-----------------------------------------------------------------------------
(***************************************************************************)
(* The inductive invariant: who excludes whom, what is in the files while  *)
(* a writer is at work and when none is, and what a reader knows of them.  *)
(***************************************************************************)
Fits(b, h) == Agree(b, h) \/ Tainted(b, h)

\* Where an operation may have put something of its own into the files, and where
\* a store may have put only half of it.
Touched == IF inPlace THEN {"bodyEnd", "header", "headerEnd", "publish", "track", "fail", "rollback"}
                      ELSE {"commitHeader", "track", "rollback"}
Halfway == Touched \ {"publish", "track"}

Settled == \A o \in Ops : pc[o] \in Touched => ~Published(o)

Locks ==
    /\ \A o, p \in Ops : o # p /\ pc[o] \in KeyWriting =>
          pc[p] \notin KeyWriting /\ (inPlace => pc[p] \notin KeyReading)
    /\ \A o, p \in Ops : pc[o] \in Publishing => pc[p] \notin Reading
    /\ remover # None => \A o \in Ops : pc[o] \notin Reserved

Role(o, l) ==
    /\ o \in Stores => l \notin {"check", "discardPublish", "discard", "retrieved", "corrupt"}
                                \cup KeyReading
    /\ o \in Readers => /\ l \notin {"body", "bodyEnd", "commit"}
                        /\ l \in {"openBody", "corrupt", "discardPublish", "discard"} => integrity
    /\ inPlace => l \notin {"commit", "commitHeader"}

\* A header is of the generation of the store that wrote it, and has its digest.
Genuine(h) ==
    /\ h.by \in Stores \cup {Old} => h.gen = h.by
    /\ integrity => h.sum = h.gen

FilesInv ==
    /\ Complete => Fits(body, header) \/ (body.gen \in Stores /\ pc[body.gen] \in Halfway)
    /\ header # None => Genuine(header)
    /\ \A o \in Ops : Published(o) => pc[o] \in Touched \cup {"done"}
    /\ \A o \in Stores : header # None /\ header.gen = o => pc[o] \in Touched \cup {"done"}
    /\ \A o \in Ops : index = o => pc[o] = "done"
    /\ Complete /\ Settled /\ index \in {Residual, None} => header.gen \in residue

StoreInv(o, l) ==
    l = "commitHeader" \/ (inPlace /\ l \in {"header", "headerEnd"}) =>
        body = [gen |-> o, whole |-> TRUE]

\* What a resource was made of is of operations that are over, and the header of
\* one write is of one generation.
Known(h) ==
    /\ h.generation \in Ops => pc[h.generation] = "done"
    /\ h.body # None /\ h.body.gen \in Ops => pc[h.body.gen] = "done"
    /\ h.header # None =>
          /\ Genuine(h.header)
          /\ h.header.by \in Ops => pc[h.header.by] = "done"
          /\ h.header.gen \in Ops => pc[h.header.gen] = "done"
          /\ header # None /\ header.by = h.header.by => header.gen = h.header.gen

ReaderInv(h, l) ==
    /\ Known(h)
    /\ l \in {"open", "readHeader"} /\ header # None => h.generation = LedgerGeneration
    /\ l = "readHeader" =>
          /\ h.body # None /\ body \in {h.body, None}
          /\ Terminated => /\ Fits(h.body, header)
                           /\ h.generation = None => header.gen \in residue
    /\ l \in {"openBody", "retrieved", "corrupt", "discardPublish", "discard"} \cup Reserved
          => h.header # None
    /\ l \in {"retrieved", "reserve", "check"} =>
          /\ h.header # None /\ h.body # None /\ Fits(h.body, h.header)
          /\ integrity => Agree(h.body, h.header)
          /\ h.generation = None => h.header.gen \in residue
          /\ h.generation = index /\ index # None /\ Complete /\ Settled =>
                header.by = h.header.by \/ body.gen \in residue
    /\ l \in {"corrupt", "discardPublish", "discard"} => body = None \/ ~Agree(body, h.header)
    /\ l \in {"header", "headerEnd", "publish", "commitHeader"} =>
          /\ body # None /\ Fits(body, h.header)
          /\ header # None /\ (integrity => header.sum = h.header.gen)

IInv ==
    /\ TypeOK /\ (tied => ~integrity)
    /\ Locks /\ FilesInv
    /\ \A o \in Ops : Role(o, pc[o])
    /\ \A o \in Stores : StoreInv(o, pc[o])
    /\ \A r \in Readers : ReaderInv(have[r], pc[r])
=============================================================================
