# A verification of httpcache-kit in TLA+

`httpcache-kit` is an HTTP cache for Go. A `Handler` answers requests from a
`Cache` or from its upstream; the built-in cache keeps, per hashed key, a body
file and a header file on a disk or on a generic file system (VFS). This
directory models the parts of it where concurrent requests, background work,
failures and restarts meet, checks them with TLC on small instances, and proves
every safety property that TLC checks with TLAPS, for every value of the
constants.

## The system and its parts

| Part | Source | Module | Proofs |
|---|---|---|---|
| Invalidation ordering: Store, Freshen, Retrieve, Invalidate, sweeps, Purge, restart | `cache.go`, `resource.go`, `handler.go` | `Invalidation` | `InvalidationProofs` |
| Lookup with Vary | `handler.go` (`lookupUsing`, `markInvalidatedResource`) | `Lookup`, over `Invalidation` | `InvalidationProofs` |
| Size ledger: reservations, LRU eviction, replacement, roll-back, sweep, corrupt entries | `cache.go`, `integrity.go` | `Admission` | `AdmissionProofs`, `LedgerProofs` |
| Persistence of the markers | `cache.go` (`persistStale`, `loadStale`, `vfsWrite`, `atomicWriteFile`) | `StaleJournal`, implementing `MarkerStore` | `StaleJournalProofs` |
| The two files of an entry | `cache.go`, `integrity.go` | `Generation` | `GenerationProofs` |
| Publication into a third-party cache | `handler_publication.go`, `handler.go` (`recordStale`) | `LocalPublication` | `LocalPublicationProofs` |
| A miss: coalescing, lease, streaming, staging budget, background store, Shutdown | `handler.go`, `miss_coordinator.go`, `staging_budget.go` | `Fill` | `FillProofs` |
| Freshness, storage policy and what a validation changes | `handler.go`, `resource.go`, `validator.go` | `Freshness` | `FreshnessProofs` |
| Keys, client preconditions, configuration, logging, metrics | `key.go`, `client_preconditions.go`, `cache_config.go`, `logger.go`, `metrics.go`, `prometheusmetrics/` | not modelled | |

How they interact. A request looks its key up (`Lookup`). A hit is served if it
is fresh enough, or first validated with the origin (`Freshness`); a miss is
fetched, by one request per key (`Fill`). A fetched response is stored and a 304
freshens the stored entry. An unsafe request invalidates the keys of its
resource. All of these meet in the cache: `Store` and `Freshen` hold
`generationMu` shared, `Invalidate` and `Purge` take it exclusively; the sweep
and `Purge` take `cleanupMu`; the two renames of an entry are made under
`publishMu`; every entry has a writer lock; `lruMutex` guards the ledger and
`staleMutex` the markers. When the cache is a third-party one, the handler keeps
the markers itself (`LocalPublication`).

Each module takes one question about these parts and abstracts the others: the
invalidation order sees an entry as a version and a time, the ledger as a number
of bytes, `Generation` as two files, `Fill` as present or absent, `Freshness` as
a header. `Lookup` is composed with `Invalidation`: it extends it, and each of
its steps is a step of the cache or leaves the cache alone, which
`CacheInvariance` proves to carry the cache's invariant over. `StaleJournal` is
shown to implement `MarkerStore`, which is how `Invalidation` uses persistence.

`PROJECT.json` lists the parts, the source lines of every definition, the runs,
the seeded faults, the theorems and the hazards. Every module `M` is instantiated
for TLC in `MCM`, and its theorems are in the modules named above.

## Invalidation

**State.** The origin's body is a version number that every mutation raises.
`file[k]` is the published pair of a key with its `storedAt`, `stale[k]` is
`c.stale`, `disk[k]` the persisted marker, `op` the requests, `call` the
`Invalidate` calls, `reader` the retrievals; `sweep` and `purge` say how far the
cleanup goroutine and a `Purge` have come. Time is a counter from 1; 0 is Go's
zero time, and `Barrier` is the year-9999 value that `Invalidate` writes before
it waits, which also bounds the clock. `promised[k]` is history: the origin's
version at the last `Invalidate` of `k`; `durable[k]` the part of it that was
persisted (after a crash nothing more is promised). `late` marks a body whose
request was in flight when the marker that would have refused it was dropped.

**Actions.** Each step between two lock operations of the code is an action: a
store enters (`StoreEnter`), checks the markers of all its keys under its key
locks (`StoreCheck`), takes its time (`StoreStamp`), stages and evicts
(`StorePrepare`), renames (`StoreCommit`) or rolls back (`StoreFail`,
`StoreDiscard`); a freshen likewise, with the comparison against replacement;
`Invalidate` writes the barrier (`InvalidateBarrier`), asks for `generationMu`
(`InvalidateLock`) and writes the final time (`InvalidateFinal`); a retrieval
opens the pair (`RetrieveOpen`) and judges it under `cleanupMu`
(`RetrieveJudge`); the sweep removes expired pairs (`CleanupTTLExpired`), then
markers (`CleanupMarkers`), then surplus (`CleanupMaxSize`); `Purge` waits,
drains and clears; `Restart` loses all actors, may cut a publication short and
recovers the markers. `Events` names the faults and background work an instance
includes.

**What is abstracted.** A removal that fails leaves the whole pair. The keys of
one store are stamped at one instant. Key locks are acquired together (their
order is modelled in `Admission`). The identity of a generation that Freshen
compares is its version and time. Which pairs an eviction removes is arbitrary.
Requests are arbitrary callers of the cache: the handler's choice between
storing and freshening is the origin's answer. Persisting a snapshot succeeds or
leaves the old one; that is what `StaleJournal` shows the files to provide.
Wall-clock regressions, HEAD entries, the freshening of a GET entry with a HEAD
that is passed through (Known exceptions) and the discarding of corrupt bodies
are left out.

**Runs.** `inv_race` has two requests, one of which may validate, against an
`Invalidate`, with crashes, failing persistence and failing removals: an outdated
entry is always marked (`NothingOutdatedFresh`) and a validated body is not
handed out after an invalidation overtook it (`ServeValidatedSound`). `inv_sweep`
has the sweep, `Purge` and a restart against a store, a retrieval and an
`Invalidate`, with a clock that passes the TTL and the retention
(`RetrieveSound`), and checks the invariant of the proof. `inv_live` checks that
`Invalidate` and `Purge` return. Two origin versions are enough: the properties
only compare an older body with a newer one.

**Fairness** of `inv_live`. Inside a critical section a goroutine keeps running:
the body it stores has been received, no client or origin is waited for; hence
weak fairness of the steps under `generationMu`, of an open retrieval and of a
sweep under way. Where `Invalidate`, `Purge` and the sweep compete for one
RWMutex, its writers queue on a `sync.Mutex` whose starvation mode serves them in
order; hence strong fairness there. A pending writer keeps new readers out, as
Go's RWMutex does; without that a stream of stores would starve `Invalidate`.
Nothing forces a request, a call or a sweep to begin.

**Proof.** `OutdatedNeverFresh`, `RetrieveNeverOutdated` and
`ValidatedNeverOvertaken` follow from the inductive invariant `IInv`
(`Invariance`). The properties are not inductive by themselves: a pair is only
covered if everything that can still become a pair is covered as well. `IInv`
speaks about three fronts: a pair on disk that is outdated is marked in memory,
by the persisted marker if the promise is durable, and by a marker the sweep
under way will not drop (`PairCovered`); a request not yet checked will be
refused, and one past its check publishes under a barrier that still stands
(`RequestCovered`); an open retrieval keeps its marker (`ReadCovered`). Every
action is shown to preserve it, the actions that drop markers through one common
lemma (`DroppedInv`). The proofs assume only `ConstantsAssumption`.

## Lookup

`Lookup` runs the handler's lookup over the cache of `Invalidation`: every lookup
owns one reader, retrieves the base entry, picks the variant, retrieves it, and
then reads the variant's marker and the base key's marker, one at a time and
under no lock. `k = Base` is a response without Vary; a request of
`Invalidation` for the base key alone stands for the store of another variant as
far as the base entry is concerned. Serving HEAD from a GET entry and `Vary: *`
are left out.

`look_vary` checks, with a base and a variant key, that a result reported fresh
is at least as new as the last completed invalidation, before the lookup began,
of its own and of the base key (`LookupSound`), unless a sweep or `Purge` dropped
such a marker during the lookup. `LookupNeverOutdated` proves it. Its invariant
`LookInv` says which marker still has to mark an outdated entry at each point of
the lookup, and uses `IInv` of the cache.

## Admission

**State.** `size` and `lru` are the index and the list, `totalSize`, `active`,
`reservations` and `reservedSize` the counters, `disk` the bytes of a key's
published files, `op` the writers, `walk` the loop that holds `lruMutex` and
`rest` what it has yet to visit. A key is the number of its hash, so that the
order of locks is the order of numbers.

**Actions.** A writer locks its keys in order, opens a reservation for each,
reserves the expected size, stages the body, reserves the written size, commits,
tracks, or discards and releases. Each loop over the LRU list is a sequence of
`Visit` steps that no other ledger operation interrupts, as `lruMutex` is held.
`Touch` is a hit, `DiscardCorrupt` a reader's discovery of a damaged body.
`InPlace` selects the generic file system, which has no staging.

**What is abstracted.** Freshen is a writer of one key. TTL expiry is arbitrary.
`publishMu` is left out: it is held within single steps. `MaxSize` is positive.
The order of keys within a phase, and of the files found by the start-up scan,
is arbitrary. `int64` overflow of the sum is excluded by a guard in the code that
is not modelled. The start-up scan counts bodies only (`cache.go:287`): a header
without a body, as a crash between the two removals leaves it, is on disk and
untracked until its key is stored again; `Init` has no such files, and
`DiskTracked` is silent about them. A file that cannot be removed is charged
without admission, so the properties about the limit assume that removals
succeed; the ledger's exactness and tracking do not.

**Runs.** Two writers of up to two keys each, sizes 1 and 2 and a limit of 3 (or
2), started on an empty directory or on one beyond the limit, make every
interesting case happen: a replacement that grows or shrinks, an eviction that
meets a locked or reserved entry, a refusal, a failed roll-back. `adm_limit` asks
about the limit on a disk cache with three keys (writers are interchangeable);
`adm_residual` about the books on a file system that writes in place and may
refuse a removal. `adm_residual` also checks `StoreReturns`. Its fairness: a loop
that holds `lruMutex` goes on; a writer that again and again finds its lock free
gets it (starvation mode of `sync.Mutex`); the body a store reads ends.

**Proof.** Two inductive invariants, the second on top of the first.

- `IInv` (`AdmissionProofs`): key locks exclude each other, the loop in progress
  belongs to the writer waiting for it, what a writer has been admitted for is
  covered by its reservation (`Funded`), and a file without a ledger entry
  belongs to a writer that will account for it (`PendingInv`). From it follow
  `NoUntrackedFiles`, `LimitKept` (an action property: no step leaves the limit)
  and `ReplacementKept`.
- `LInv` (`LedgerProofs`): the counters are the sums of what they count, the list
  holds every indexed key once, every reservation has an owner that has yet to
  give it back (`BooksInv`); bytes published but not yet charged are within what
  their writer reserved (`BytesInv`); a loop has left behind only what it may not
  remove (`LoopInv`). From it follow `LedgerIsExact`, `NothingStaysReserved`,
  `DiskStaysWithinLimit`, `RefusalIsFull` and `SweepKeepsLimit`.

The sums are `SumFunction` of the community modules over a set of keys of any
finite size. `AdmissionProofs` proves what the ledger needs of them: that the
function behind the fold satisfies its recursion on finite sets, that one key can
be taken out of a sum, and hence that changing one value changes the sum by the
difference, and that sums are monotone. These are inductions, carried out by
taking a least counterexample among the cardinalities. The assumption is
`AdmissionAssumption`: the keys are finitely many numbers, sizes and the limit
are positive.

## StaleJournal and MarkerStore

`MarkerStore` is what the cache needs of persistence: a restart finds the last
acknowledged snapshot, or one newer snapshot that had reached the disk.
`StaleJournal` is how the code does it: `file` is replaced by a rename on a disk
cache; on any other file system two slots are written in turn, and opening one
truncates it. A write may fail or be cut short at every point, also in `Close`
after everything was written; the process may die at any point. `Restart` takes
the readable slot of the highest generation and turns barriers into the restart
time.

The refinement maps `acked` to the slot of the current generation and `pending`
to a complete slot of a higher one. `JournalImplements` proves it for all keys
and any number of generations, from `JournalInv`: the current generation is
complete in its own slot, so the slot being rewritten is never the only complete
one. The run `jrn` checks the same for both kinds of backend; four generations
use each slot twice. A power loss that undoes a completed write, and a read error
of an intact slot at start-up, are outside the model.

## Generation

**State.** One key: its `body` and `header` files, the ledger's record of it
(`index`), and the operations on it. A body has a generation and may be cut
short; a header has the generation its fields describe, the generation its digest
is of, and the operation that wrote it. `inPlace`, `integrity` and `tied`
(whether the stores write byte-identical headers, so that Freshen cannot tell
them apart) are chosen in `Init` and never change. `residue` is history: the
generations that a crash left mixed or that a refused removal left behind.

**Actions.** Store, Retrieve (open, read the header, verify the digest), Freshen
(reserve, compare, rewrite the header), discardCorrupt, the eviction by another
key's store and a crash, each file operation a step, under the key lock,
`publishMu` and the protection of a reserved entry.

**Run.** `gen`: two stores and a retrieval that may freshen or discard, one
eviction and one crash, in all combinations of backend and integrity. Handed-out
pairs are of one generation (`Paired`), what is left when no writer is at work
agrees (`LeftPaired`), `discardCorrupt` spares an entry that is in order
(`GoodEntrySurvives`), and every operation returns (`OperationsReturn`, with weak
fairness of each operation: it is a goroutine that waits only for locks). Every
operation runs once, so the run may stop.

**Proof.** `IInv` of the module: who excludes whom (`Locks`), what is in the
files while a writer is at work and when none is (`FilesInv`, `StoreInv`), and
what a reader knows of the files it has read (`ReaderInv`), the last being what
makes Freshen's comparison and discardCorrupt's recheck sufficient. It is proved
for any number of stores, readers, evictions and crashes.

**Left out.** Several processes on one directory, markers, stores of several
keys, freshening one resource twice (`advanceResourceProvenance`), damage to part
of a file, what an opened body of an in-place backend reads after a later
rewrite, a crash between the two removals of a discard, and the freshening with a
HEAD that is passed through (Known exceptions).

## LocalPublication

A third-party cache keeps no invalidation times. The handler records its own
markers (`localStale`), counts the publications in progress per key, and keeps a
proof (`localFresh`) when a publication was alone: the time at which its request
began. A lookup trusts the proof only if it found the same one, with no
publication in progress, before and after the retrieval. The cache is external:
a store writes its keys at some point before it returns, also when it fails;
freshening refuses a body other than the validated one (the HEAD that is passed
through, under Known exceptions, is not modelled); the cache's own
staleness is assumed absent, which is the weakest case. A proof is a pointer, so
it has an identity. `promised` lapses when the marker's retention has passed.

`pub_overlap` has two overlapping publications of one key; `pub_vary` has a base
and a variant key with a retention of zero ticks, so that pruning happens (a
store of another variant touches nothing that a lookup of this one reads, and is
left out). The loss of the local records with the process, and responses without
a request time, are not modelled.

**Proof.** `PubInv` has five parts. Nothing is dated in the future (`ClockInv`).
The count of a key is the number of its publications in progress, a proof
excludes publications, and what has landed of a publication that met no other is
what the cache holds (`CountInv`). While a lookup still sees the proof it found
before the retrieval, what it retrieved is what the cache holds (`PointerInv`):
this is why comparing pointers twice is enough. Every promise is covered by its
marker (`PromiseInv`), where `Covered(v, t)` says that whatever was requested
after `t`, in whichever place it is now (a request, the cache, a lookup), is no
older than `v`; a lookup that has passed a marker is no older than its promise
(`JudgedInv`). `LookupsAreSound` and `ProofsVouch` follow. `LocalAssumption` asks
for finitely many keys, requests and lookups, as the count is a cardinality and
every new proof needs an identity no one holds.

## Fill

**State.** One key and the requests that miss it, on one or more handlers that
share the cache. `flight` is the leader of the key per handler, `done` the closed
`flight.done` channels, `lease` the owner of the external fill lock, `closing`
and `shutdown` the state of `Shutdown`. A request has its place in `resolveMiss`,
`passUpstream` or `storeResource`, whether its context is live, where the
upstream's goroutine is, what it was answered, how many chunks were sent and
staged, and what the budget has charged for the stage and for the cache's copy.
`orphaned` counts the bytes of temporary files that could not be removed,
`retained` those of the leases that stay open for them; the budget admits against
all three charges.

**Actions.** Those functions, one step for each point at which another request,
the upstream's goroutine, the client or `Shutdown` can intervene; clients may
leave, the upstream may break off, staging may be refused (by the budget, when
the charges of a handler's requests would exceed it, or by the disk at any
time), storing may fail. So may the removal of a temporary file: that of the
cache's copy after a failed store (`AbandonStaged`), and that of the handler's
stage when it has a name (`CloseStage`). Elsewhere than on Windows the stage
loses its name when it is created, and `NamedStage` says which it is; the run has
it, as its behaviours include those without failing removals.

**Run.** `fill`: two requests on one handler or on two, with and without a
coordinator and a budget, one handler shutting down, bodies of at most one chunk
(another one would repeat the copy step). The budget of two chunks holds the stage
and the cache's copy of one response, so that a second response at the same time
is refused, as is one that finds the charge of a file that stayed. With a
coordinator nobody fills what is stored (`FillOnlyWhenMissing`); only whole bodies are published
(`PublishedWhole`); staged bytes are charged exactly while staged, and those of a
file that could not be removed stay charged, as `README.md:240` and
`staging_budget.go:137` of the repository say (`StagedIsCharged`); a request that
is over holds nothing besides such a charge (`NothingHeld`); after
`Shutdown` no write runs or begins (`ShutdownQuiet`); every request ends
(`EveryRequestEnds`). The system stops when all requests are over. Fairness: a
runnable goroutine runs, the upstream handler answers and returns, and `Acquire` ends,
with the lock, with an error or with its context; the last two are up to the
upstream and the coordinator that a caller plugs in.

**Proof.** The invariant says for each place exactly what a request holds there
(`Own`, `Place`, `Quiet`), and that the charges left behind are those of the files
left behind. It is proved for any number of requests, handlers and chunks, and for
either kind of stage.

**Left out.** A panic of the upstream in its goroutine, which the code does not
recover; trailers. A leader without a coordinator makes no recheck, so
`FillOnlyWhenMissing` is about coordinated handlers. A body without
Content-Length that the upstream ends early cannot be told from a whole one, and
counts as whole. Validation and refetch of a hit publish without a lease and
belong to the other modules. The bytes of a header, and a second copy under a
variant key, are charged like those of the body and are not counted. A removal
that abandonStaged retries is one removal here.

## Freshness

**State.** One resource without Vary: the stored header (`entry`) with its Date,
Age, Proxy-Date and Cache-Control, whether an invalidation marked it, and the
requests that are at the upstream. Dates are whole seconds while the clock ticks
in fractions, as in the code. `since` is history: when the origin made or last
confirmed the response; `by` is the request that wrote the entry, and `barred`
marks requests that were on their way when a 304 withdrew the entry.

**Actions.** Serving a hit (`needsValidation`, age and lifetime, the request's
max-age, min-fresh, max-stale and only-if-cached), a fetch and its storage
(`isCacheable`, private fields, the stamps), a validation and its 304 (merge,
withdrawal, refetch), a HEAD passed through, an invalidation, and time. The
upstream may be a cache whose Age falls short by `Slack`, may answer late, and
its clock may be off by a value of `Skews`. Answers and requests are records of
directives; `MCFreshness` combines max-age, s-maxage, public, private with and
without fields, proxy-revalidate, Expires and Last-Modified in five answers and
six requests, the proofs allow any.

**Run.** `fresh`: a served Age is never below the true age by more than the slack
and the rounding (`AgeCovers`); a response is reused without validation only
within what its lifetime and the request allow (`ReuseFresh`); a shared cache
keeps only what the origin, by its last word, lets it share
(`SharedIsShareable`); once a 304 has withdrawn a response, no request that was
on its way puts it back (`WithdrawnStaysOut`). Two clients and four instants, at
two ticks a second, let a validation overtake a fetch and an age cross its
lifetime.

**Proof.** Two invariants: `IInv` (what is stored is shareable and was written by
a request that was not barred; a barred request on its way is superseded) and
`AInv` (the dates and the Age in every stored header cover the time since the
origin spoke, `AgeBound`). The arithmetic of rounding is proved for every number
of ticks in a second, every skew and every divisor of the heuristic.

**Left out.** Parsing of Cache-Control, Warning, Vary, cacheable HEAD responses,
client preconditions; an entry is published at the instant it is stamped.

## Known exceptions

These are what the code does, and the properties above except them by name.

- `Purge`, and a sweep past the retention, drop markers while an older fetch may
  be in flight (`cache.go:2109`); that fetch can then store its pre-mutation body
  as fresh, although the comment at `resource.go:199` says such a request must
  not publish its body afterwards. `NothingOutdatedFresh`, `RetrieveSound` and
  `LookupSound` except it through `late`.
- The base key's marker is read after the variant was retrieved
  (`handler.go:1258`). A sweep that drops the variant and the marker in between
  lets an old variant pass as fresh when another variant has refreshed the base
  entry; the comment at `handler.go:1246` says every variant is judged against
  the base key's time. `LookupSound` excepts it through `raced`.
- `recordStale` reads the clock before it locks (`handler.go:946` and `987`), so
  overlapping calls may move a marker backwards. A promise lapses with such a
  move in `LocalPublication`.
- After a crash between the two renames, or a roll-back whose removal the backend
  refused, a mixed pair is on disk; without integrity it may be handed out.
  `Paired` excepts the generations of `residue` in this case, and a residual's
  ledger record has no generation that a reader could compare.
- Without an Age header from the upstream, age counts from the end of the
  download (`TestCorrectedAge_NoAge` expects this), and so does `since` in
  `AgeCovers`. The max-age of a request does not shorten a heuristic lifetime;
  `FreshEnough` says so.
- A HEAD that is not cacheable itself (`handler.go:612`) freshens the GET entry
  with its own header, without the checks and the stamps of a stored response,
  whereas the table at `README.md:105` of the repository says that a shared cache
  does not store private responses and strips the headers listed in `private`.
  `SharedIsShareable` and `AgeCovers` leave that header out.
- The same HEAD calls `Freshen` without having retrieved anything: there is no
  generation to compare (`cache.go:1456`, `1467`, `1505`), and `headersEqual`
  (`validator.go:218`) compares only the validators that are present. A GET body
  from before an invalidation can so be stamped later than its marker, and get
  the header of another representation. `NothingOutdatedFresh`, `RetrieveSound`,
  `LookupSound`, `Paired` and `LeftPaired` do not speak of it, and
  `PublicationSound` and `ProofVouches` do not of the proof that
  `freshenResource` leaves for it (`handler.go:616`, `handler_publication.go:86`).

## What is proved and what is only checked

Proved by TLAPS, for every value of the constants that satisfies the named
`ASSUME` of each module: every invariant and every action property that a run
checks, and the refinement of `MarkerStore` by `StaleJournal`. `PROJECT.json`
lists the theorems. Each safety theorem has the same three parts: `Init` gives
the inductive invariant, every action keeps it (one lemma per action, with frame
lemmas for what an action leaves alone), and it implies the property.

Only model-checked: the liveness properties `InvalidateReturns`, `PurgeReturns`,
`StoreReturns`, `EveryRequestEnds` and `OperationsReturn`. They rest on fairness,
hence on `ENABLED`, about which the prover does not reason. They hold on the
instances of their runs, each of which has the competition that could starve or
block someone: two stores with overlapping keys, writers and readers of one
RWMutex, followers of a flight whose leader fails.

Bounds. The proofs have none besides finiteness where a sum or a cardinality is
taken; `Barrier`, `MaxTime`, `MaxVersion`, `MaxGen`, `MaxChunks`, `MaxEvictions`
and `MaxCrashes` are arbitrary numbers there. Every property of a run has a
seeded fault, an operator next to the definition it distorts (`mutants` in
`PROJECT.json`), under which TLC finds it violated: the instances are large
enough to tell the code from a plausible mistake in it.

Why the invariants of `Invalidation`, `Lookup`, `Admission`, `LocalPublication`
and `StaleJournal` are also invariants of runs: TLC checked them before they were
proved, and keeps doing so when the model changes.

## Not modelled

- Cache keys: strings built without state; the modules take keys as opaque and
  their hashes as injective.
- Client preconditions and ranges: evaluated on one response without shared
  state, mostly by `net/http`.
- Configuration is the constants of the modules; logging and metrics are never
  read back.
- Vary rebuilds after a validation, the retry with the original conditions, and
  the trailers of the exchange.

## Running

    tlc -config MCLookupRace.cfg MCLookup
    tlc -config MCAdmissionLimit.cfg MCAdmission
    tlapm InvalidationProofs.tla

Every run takes less than five minutes on two workers. The proofs take about
half an hour from nothing; a leaf without a prover of its own is tried with Zenon
before SMT, which is much faster in modules of this size.
