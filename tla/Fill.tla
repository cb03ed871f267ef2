-------------------------------- MODULE Fill --------------------------------
(***************************************************************************)
(* A cache miss from the request to the published entry (src/handler.go,   *)
(* src/miss_coordinator.go, src/staging_budget.go): one leader per key and *)
(* handler, the optional lease of an external coordinator, the upstream    *)
(* handler that runs in a goroutine of its own and streams through a pipe, *)
(* the staged copy with its share of a byte budget, the store in the       *)
(* background, and Shutdown.                                               *)
(*                                                                         *)
(* One key is modelled; requests for other keys meet these only in the     *)
(* budget and in Shutdown, where a request of this key does as well.  A    *)
(* body is a number of chunks, which also counts its bytes.  A request that*)
(* finds the entry is over here: what becomes of a hit, its validation and *)
(* a refetch without a lease included, belongs to Lookup.                  *)
(***************************************************************************)
EXTENDS Naturals, FiniteSets, Functions

CONSTANTS
    Requests,     \* GET requests for the key
    Handlers,     \* processes that share the cache and the coordinator
    Homes,        \* the ways requests reach handlers: functions in [Requests -> Handlers]
    Stopping,     \* the handlers that may be shut down
    Budget,       \* bytes the StagingBudget admits
    MaxChunks,    \* bound on the chunks of a body
    NamedStage,   \* the handler's stage has a name until it is closed: GOOS is windows
    None

ASSUME FillAssumption ==
    /\ Homes \subseteq [Requests -> Handlers] /\ Stopping \subseteq Handlers
    /\ Budget \in Nat /\ MaxChunks \in Nat /\ NamedStage \in BOOLEAN
    /\ None \notin Requests \cup {"whole", "truncated"}

VARIABLES
    coordinated,  \* whether the handlers have a MissCoordinator; never changes
    budgeted,     \* whether they have a StagingBudget; never changes
    home,         \* the handler each request reaches; never changes
    entry,        \* what the cache holds under the key
    req,          \* the requests
    flight,       \* Handler.flights: the leader, or None
    done,         \* the leaders whose flight.done is closed
    lease,        \* external: the owner of the fill lock, or None
    closing,      \* Handler.closing
    shutdown      \* where Shutdown is

config == <<coordinated, budgeted, home>>
vars == <<coordinated, budgeted, home, entry, req, flight, done, lease, closing, shutdown>>

(***************************************************************************)
(* pc is where the request is, in the foreground and then in the goroutine *)
(* of storeResource; up is where the upstream handler's goroutine is.      *)
(***************************************************************************)
BeforeFill == {"new", "claim", "wait", "recheck", "acquire", "check"}
Streaming  == {"headers", "stage", "copy", "drain"}
Writing    == {"publish", "commit", "closeResource", "closeLease", "finish", "endWrite"}
PCs == BeforeFill \cup {"fetch"} \cup Streaming \cup {"store"} \cup Writing \cup {"end"}

\* What the upstream answered: a response canStageResponse refuses, one with a
\* Content-Length, one without, or one that ended before its Content-Length.
Responses == {"uncacheable", "declared", "undeclared", "cut"}

Request == [pc: PCs,
            live: BOOLEAN,                 \* its context is not cancelled
            on: Requests \cup {None},      \* the flight it follows
            up: {"none", "run", "deferred", "body", "closed"},  \* closed: not yet read to the end
            resp: Responses \cup {"none"},
            sent: Nat, staged: Nat,        \* chunks written, chunks in the stage
            charged: Nat, copied: Nat,     \* bytes of the stage's and of the cache's lease
            orphaned: Nat, retained: Nat,  \* bytes of files that could not be removed, and
                                           \* of the leases that stay open for them
            writing: BOOLEAN]              \* counted in Handler.writes

NewRequest == [pc |-> "new", live |-> TRUE, on |-> None, up |-> "none", resp |-> "none",
               sent |-> 0, staged |-> 0, charged |-> 0, copied |-> 0,
               orphaned |-> 0, retained |-> 0, writing |-> FALSE]

\* A published entry holds all that the upstream handler wrote of a response that
\* was not cut short, or it does not.
Entry == {"whole", "truncated"}

TypeOK ==
    /\ coordinated \in BOOLEAN /\ budgeted \in BOOLEAN /\ home \in Homes
    /\ entry \in Entry \cup {None}
    /\ req \in [Requests -> Request]
    /\ flight \in [Handlers -> Requests \cup {None}]
    /\ done \subseteq Requests
    /\ lease \in Requests \cup {None}
    /\ closing \in [Handlers -> BOOLEAN]
    /\ shutdown \in [Handlers -> {"none", "waiting", "returned"}]

Init ==
    /\ coordinated \in BOOLEAN /\ budgeted \in BOOLEAN /\ home \in Homes
    /\ entry = None
    /\ req = [r \in Requests |-> NewRequest]
    /\ flight = [h \in Handlers |-> None]
    /\ done = {}
    /\ lease = None
    /\ closing = [h \in Handlers |-> FALSE]
    /\ shutdown = [h \in Handlers |-> "none"]

-----------------------------------------------------------------------------
shared == <<entry, flight, done, lease, closing, shutdown>>

\* The request q at pc.  When only complete() and its return are left, what it read
\* and what it was told is forgotten.
At(q, pc) ==
    IF pc \in {"closeLease", "finish", "end"}
    THEN [q EXCEPT !.pc = pc, !.live = TRUE, !.on = None, !.resp = "none", !.sent = 0]
    ELSE [q EXCEPT !.pc = pc]

Becomes(r, q) == req' = [req EXCEPT ![r] = q]

To(r, pc) == Becomes(r, At(req[r], pc))

\* The client leaves, or a lease holder's lease is lost.  Nothing reads the context
\* once the body is staged: the publication runs without cancellation.
Cancel(r) ==
    /\ req[r].live /\ req[r].pc \in BeforeFill \cup {"fetch", "headers", "stage", "copy"}
    /\ Becomes(r, [req[r] EXCEPT !.live = FALSE])
    /\ UNCHANGED <<config, shared>>

\* The entry expires, is evicted or is invalidated.
Evict ==
    /\ entry # None
    /\ entry' = None
    /\ UNCHANGED <<config, req, flight, done, lease, closing, shutdown>>

(***************************************************************************)
(* resolveMiss and leadMiss.                                               *)
(***************************************************************************)
\* A lookup that fails ends the request with an error.
Lookup(r) ==
    /\ req[r].pc = "new"
    /\ \/ entry = None /\ To(r, "claim")
       \/ To(r, "end")
    /\ UNCHANGED <<config, shared>>

\* The top of the loop, with claimMiss.
Claim(r) ==
    /\ req[r].pc = "claim"
    /\ IF ~req[r].live
       THEN To(r, "end") /\ UNCHANGED flight
       ELSE IF flight[home[r]] = None
       THEN /\ flight' = [flight EXCEPT ![home[r]] = r]
            /\ To(r, IF coordinated THEN "acquire" ELSE "fetch")
       ELSE /\ Becomes(r, [req[r] EXCEPT !.pc = "wait", !.on = flight[home[r]]])
            /\ UNCHANGED flight
    /\ UNCHANGED <<config, entry, done, lease, closing, shutdown>>

\* A follower waits for flight.done or for the end of its own context.
Follow(r) ==
    /\ req[r].pc = "wait"
    /\ \/ req[r].on \in done /\ To(r, "recheck")
       \/ ~req[r].live /\ To(r, "end")
    /\ UNCHANGED <<config, shared>>

\* A failed lookup counts as a miss here.
Recheck(r) ==
    /\ req[r].pc = "recheck"
    /\ \/ entry # None /\ To(r, "end")
       \/ To(r, IF coordinated THEN "claim" ELSE "fetch")
    /\ UNCHANGED <<config, shared>>

\* Fault: a failed Acquire returns without completing the flight.
AcquireForgets(r) ==
    /\ req[r].pc = "acquire"
    /\ \/ /\ lease = None
          /\ lease' = r
          /\ To(r, "check")
       \/ To(r, "end") /\ UNCHANGED lease
    /\ UNCHANGED <<config, entry, flight, done, closing, shutdown>>

\* MissCoordinator.Acquire grants the lock or fails; a failure completes the flight.
Acquire(r) ==
    /\ req[r].pc = "acquire"
    /\ \/ /\ lease = None
          /\ lease' = r
          /\ To(r, "check")
       \/ To(r, "finish") /\ UNCHANGED lease
    /\ UNCHANGED <<config, entry, flight, done, closing, shutdown>>

\* leadMiss looks once more, since an earlier owner may have published; it gives
\* up when the lookup fails or the lease's context has ended.
CheckOwned(r) ==
    /\ req[r].pc = "check"
    /\ \/ entry = None /\ req[r].live /\ To(r, "fetch")
       \/ To(r, "closeLease")
    /\ UNCHANGED <<config, shared>>

(***************************************************************************)
(* passUpstreamWithHandler and the upstream handler's goroutine.           *)
(***************************************************************************)
Fetch(r) ==
    /\ req[r].pc = "fetch"
    /\ Becomes(r, [req[r] EXCEPT !.pc = "headers", !.up = "run"])
    /\ UNCHANGED <<config, shared>>

\* WriteHeader, the first Write, or Close of a handler that wrote nothing: the
\* headers are published; with a budget their client commit is deferred.
UpHeaders(r, resp) ==
    /\ req[r].up = "run"
    /\ Becomes(r, [req[r] EXCEPT !.up = IF budgeted THEN "deferred" ELSE "body",
                                  !.resp = resp])
    /\ UNCHANGED <<config, shared>>

\* commitStagingHeaders lets a deferred upstream handler go on.
Committed(up) == IF up = "deferred" THEN "body" ELSE up

Headers(r) ==
    /\ req[r].pc = "headers"
    /\ req[r].up # "run"
    /\ IF req[r].resp = "uncacheable"
       THEN Becomes(r, [req[r] EXCEPT !.pc = "drain", !.up = Committed(@)])
       ELSE To(r, "stage")
    /\ UNCHANGED <<config, shared>>

\* Fault: a refused stage leaves the deferred headers uncommitted.
OpenStageUncommitted(r) ==
    /\ req[r].pc = "stage"
    /\ \/ req[r].live /\ Becomes(r, [req[r] EXCEPT !.pc = "copy", !.up = Committed(@)])
       \/ To(r, "drain")
    /\ UNCHANGED <<config, shared>>

\* newHandlerStage succeeds, or is refused a lease or a file.
OpenStage(r) ==
    /\ req[r].pc = "stage"
    /\ \E pc \in {"copy", "drain"} :
         /\ pc = "copy" => req[r].live
         /\ Becomes(r, [req[r] EXCEPT !.pc = pc, !.up = Committed(@)])
    /\ UNCHANGED <<config, shared>>

\* The bytes charged to the budget of a handler.
Used(h) ==
    LET charge(r) == IF home[r] = h THEN req[r].charged + req[r].copied + req[r].retained ELSE 0
    IN FoldFunction(+, 0, [r \in Requests |-> charge(r)])

Admits(r, n) == ~budgeted \/ Used(home[r]) + n <= Budget

\* q when n bytes stay on disk in a file of it that could not be removed, and the c
\* bytes charged for them with the lease.
Orphaned(q, n, c) == [q EXCEPT !.orphaned = @ + n, !.retained = @ + c]

\* Fault: the lease is closed although the removal failed.
CloseStageAnyway(q) ==
    LET closed == [q EXCEPT !.staged = 0, !.charged = 0]
    IN {closed} \cup IF NamedStage THEN {Orphaned(closed, q.staged, 0)} ELSE {}

\* What handlerStage.Close makes of q: a stage without a name is gone with its
\* descriptor, one with a name has to be removed, and may stay.
CloseStage(q) ==
    LET closed == [q EXCEPT !.staged = 0, !.charged = 0]
    IN {closed} \cup IF NamedStage THEN {Orphaned(closed, q.staged, q.charged)} ELSE {}

\* What abandonStaged makes of q after n bytes of the cache's copy: its file may stay.
AbandonStaged(q, n) ==
    LET dropped == [q EXCEPT !.copied = 0]
    IN {dropped, Orphaned(dropped, n, IF budgeted THEN n ELSE 0)}

\* Fault: the copy goes on after a chunk the stage refused.
CopyChunkShort(r) ==
    /\ req[r].pc = "copy" /\ req[r].up = "body"
    /\ req[r].sent < MaxChunks
    /\ \/ /\ req[r].live /\ Admits(r, 1)
          /\ Becomes(r, [req[r] EXCEPT !.sent = @ + 1, !.staged = @ + 1,
                                  !.charged = IF budgeted THEN @ + 1 ELSE 0])
       \/ Becomes(r, [req[r] EXCEPT !.sent = @ + 1])
    /\ UNCHANGED <<config, shared>>

\* A chunk goes through the pipe into the stage; the stage is closed when the
\* context has ended, the budget refuses the chunk or the disk does.
CopyChunk(r) ==
    /\ req[r].pc = "copy" /\ req[r].up = "body"
    /\ req[r].sent < MaxChunks
    /\ \/ /\ req[r].live /\ Admits(r, 1)
          /\ Becomes(r, [req[r] EXCEPT !.sent = @ + 1, !.staged = @ + 1,
                                  !.charged = IF budgeted THEN @ + 1 ELSE 0])
       \/ \E q \in CloseStage(req[r]) : Becomes(r, [q EXCEPT !.pc = "drain", !.sent = @ + 1])
    /\ UNCHANGED <<config, shared>>

DrainChunk(r) ==
    /\ req[r].pc = "drain" /\ req[r].up = "body"
    /\ req[r].sent < MaxChunks
    /\ Becomes(r, [req[r] EXCEPT !.sent = @ + 1])
    /\ UNCHANGED <<config, shared>>

\* The upstream handler returns and its streamer is closed.  It may stop early,
\* when its origin breaks off or the client no longer takes what it writes.
UpClose(r) ==
    /\ req[r].up = "body"
    /\ \E resp \in {req[r].resp} \cup (IF req[r].resp = "declared" THEN {"cut"} ELSE {}) :
         Becomes(r, [req[r] EXCEPT !.up = "closed", !.resp = resp])
    /\ UNCHANGED <<config, shared>>

\* The end of the copy, and the rewind that may fail.
CopyEnd(r) ==
    /\ req[r].pc = "copy" /\ req[r].up = "closed"
    /\ \/ Becomes(r, [req[r] EXCEPT !.pc = "store", !.up = "none"])
       \/ \E q \in CloseStage(req[r]) : Becomes(r, [At(q, "closeLease") EXCEPT !.up = "none"])
    /\ UNCHANGED <<config, shared>>

DrainEnd(r) ==
    /\ req[r].pc = "drain" /\ req[r].up = "closed"
    /\ Becomes(r, [At(req[r], "closeLease") EXCEPT !.up = "none"])
    /\ UNCHANGED <<config, shared>>

(***************************************************************************)
(* storeResource: the goroutine closes the resource, completes the fill    *)
(* and ends the write, in this order, however the publication went.        *)
(***************************************************************************)
\* Fault: the lease is released when the publication starts.
StoreResourceReleases(r) ==
    /\ req[r].pc = "store"
    /\ Becomes(r, [req[r] EXCEPT !.pc = IF closing[home[r]] THEN "closeResource" ELSE "publish",
                                  !.writing = ~closing[home[r]]])
    /\ lease' = IF lease = r THEN None ELSE lease
    /\ UNCHANGED <<config, entry, flight, done, closing, shutdown>>

\* Fault: beginWrite does not look at Handler.closing.
StoreResourceLate(r) ==
    /\ req[r].pc = "store"
    /\ Becomes(r, [req[r] EXCEPT !.pc = "publish", !.writing = TRUE])
    /\ UNCHANGED <<config, shared>>

StoreResource(r) ==
    /\ req[r].pc = "store"
    /\ Becomes(r, [req[r] EXCEPT !.pc = IF closing[home[r]] THEN "closeResource" ELSE "publish",
                                  !.writing = ~closing[home[r]]])
    /\ UNCHANGED <<config, shared>>

\* The cache stages its own copy, charged to the same budget.
PublishStage(r) ==
    /\ req[r].pc = "publish"
    /\ req[r].resp # "cut"
    /\ Admits(r, req[r].staged)
    /\ Becomes(r, [req[r] EXCEPT !.pc = "commit", !.copied = IF budgeted THEN req[r].staged ELSE 0])
    /\ UNCHANGED <<config, shared>>

PublishCommit(r) ==
    /\ req[r].pc = "commit"
    /\ entry' = IF req[r].staged = req[r].sent /\ req[r].resp # "cut" THEN "whole" ELSE "truncated"
    /\ Becomes(r, [req[r] EXCEPT !.pc = "closeResource", !.copied = 0])
    /\ UNCHANGED <<config, flight, done, lease, closing, shutdown>>

\* The store fails, with nothing, a part or all of the copy staged.
PublishFails(r) ==
    /\ req[r].pc \in {"publish", "commit"}
    /\ \E n \in 0 .. req[r].staged :
         /\ req[r].pc = "commit" => n = req[r].staged
         /\ req[r].pc = "publish" => Admits(r, n)
         /\ \E q \in AbandonStaged(req[r], n) : Becomes(r, [q EXCEPT !.pc = "closeResource"])
    /\ UNCHANGED <<config, shared>>

CloseResource(r) ==
    /\ req[r].pc = "closeResource"
    /\ \E q \in CloseStage(req[r]) : Becomes(r, At(q, "closeLease"))
    /\ UNCHANGED <<config, shared>>

CloseLease(r) ==
    /\ req[r].pc = "closeLease"
    /\ lease' = IF lease = r THEN None ELSE lease
    /\ To(r, "finish")
    /\ UNCHANGED <<config, entry, flight, done, closing, shutdown>>

\* finishMiss, for a request that leads a flight.
FinishMiss(r) ==
    /\ req[r].pc = "finish"
    /\ IF flight[home[r]] = r
       THEN flight' = [flight EXCEPT ![home[r]] = None] /\ done' = done \cup {r}
       ELSE UNCHANGED <<flight, done>>
    /\ To(r, IF req[r].writing THEN "endWrite" ELSE "end")
    /\ UNCHANGED <<config, entry, lease, closing, shutdown>>

EndWrite(r) ==
    /\ req[r].pc = "endWrite"
    /\ Becomes(r, [At(req[r], "end") EXCEPT !.writing = FALSE])
    /\ UNCHANGED <<config, shared>>

(***************************************************************************)
(* Shutdown.  When its own context ends first it returns an error, and the *)
(* caller knows no more than while it waited.                              *)
(***************************************************************************)
Shutdown(h) ==
    /\ shutdown[h] = "none"
    /\ closing' = [closing EXCEPT ![h] = TRUE]
    /\ shutdown' = [shutdown EXCEPT ![h] = "waiting"]
    /\ UNCHANGED <<config, entry, req, flight, done, lease>>

ShutdownReturns(h) ==
    /\ shutdown[h] = "waiting"
    /\ \A r \in Requests : home[r] = h => ~req[r].writing
    /\ shutdown' = [shutdown EXCEPT ![h] = "returned"]
    /\ UNCHANGED <<config, entry, req, flight, done, lease, closing>>

Resolve(r) == Lookup(r) \/ Claim(r) \/ Follow(r) \/ Recheck(r) \/ Acquire(r) \/ CheckOwned(r)

Stream(r) ==
    \/ Fetch(r) \/ Headers(r) \/ OpenStage(r)
    \/ CopyChunk(r) \/ DrainChunk(r) \/ CopyEnd(r) \/ DrainEnd(r)

Store(r) ==
    \/ StoreResource(r) \/ PublishStage(r) \/ PublishCommit(r) \/ PublishFails(r)
    \/ CloseResource(r) \/ CloseLease(r) \/ FinishMiss(r) \/ EndWrite(r)

Upstream(r) ==
    \/ \E resp \in Responses \ {"cut"} : UpHeaders(r, resp)
    \/ UpClose(r)

Next ==
    \/ \E r \in Requests : Cancel(r) \/ Resolve(r) \/ Stream(r) \/ Store(r) \/ Upstream(r)
    \/ \E h \in Stopping : Shutdown(h) \/ ShutdownReturns(h)
    \/ Evict

Spec == Init /\ [][Next]_vars

\* Runnable goroutines run; the upstream handler answers, writes and returns; and
\* Acquire ends, with the lock, an error or the end of its context.
FairSpec ==
    /\ Spec
    /\ \A r \in Requests :
         WF_vars(Resolve(r) \/ Stream(r) \/ Store(r)) /\ WF_vars(Upstream(r))

-----------------------------------------------------------------------------
Filling == {"fetch", "headers", "stage", "copy", "drain", "store", "publish", "commit"}

\* With a MissCoordinator nobody who fills publishes behind another request that is
\* filling the key, in this process or another: a fill that began with the entry
\* missing goes on without it.  leadMiss rechecks under the lease and gives it up only after
\* storeResource has published, so a fill never repeats one that is stored.
FillOnlyWhenMissing ==
    coordinated => \A r \in Requests : req[r].pc \in Filling => entry = None

\* What the cache publishes is every byte the upstream handler wrote, and the
\* whole response when its length was declared, however the client, the budget,
\* the disk or the origin broke off while passUpstream was copying it.
PublishedWhole == entry # "truncated"

\* The bytes of a staged copy are charged to the StagingBudget exactly while they
\* are there: from the first write to the end of the background publication or of
\* the commit, and for as long as the process lives if the file could not be
\* removed ("Unremoved disk bytes remain charged", staging_budget.go).
StagedIsCharged ==
    budgeted => \A r \in Requests :
      /\ req[r].charged = req[r].staged
      /\ req[r].copied = (IF req[r].pc = "commit" THEN req[r].staged ELSE 0)
      /\ req[r].retained = req[r].orphaned

\* A request that is over, by whichever of the exits of resolveMiss,
\* passUpstream or storeResource, has left nothing behind: no leadership, lease or
\* counted write, no upstream goroutine, and no charge but that of a temporary file
\* which the file system refused to remove.
NothingHeld ==
    \A r \in Requests : req[r].pc = "end" =>
      /\ flight[home[r]] # r /\ lease # r
      /\ req[r].staged = 0 /\ req[r].charged = 0 /\ req[r].copied = 0
      /\ req[r].retained <= req[r].orphaned
      /\ ~req[r].writing /\ req[r].up = "none"

\* Once Shutdown has returned nil no background write of that Handler runs or
\* begins: the cache can be closed.
ShutdownQuiet ==
    \A r \in Requests : shutdown[home[r]] = "returned" =>
      ~req[r].writing /\ req[r].pc \notin {"publish", "commit", "endWrite"}

\* Every request that has begun is over eventually: followers are woken, a
\* deferred upstream handler is let go, and no stage, lease or pipe is waited for
\* forever.
EveryRequestEnds ==
    \A r \in Requests : req[r].pc # "new" ~> req[r].pc = "end"

(***************************************************************************)
(* The inductive invariant: what a request holds at each pc, of its own    *)
(* and of what the requests share.                                         *)
(***************************************************************************)
Unstreamed == BeforeFill \cup {"fetch", "headers", "stage"}
Owning     == Filling \cup {"check", "closeResource"}
Leading    == Filling \cup {"acquire", "check", "closeResource", "closeLease", "finish"}

Own(q) ==
    /\ q.charged = (IF budgeted THEN q.staged ELSE 0)
    /\ q.copied = (IF q.pc = "commit" THEN q.charged ELSE 0)
    /\ q.retained = (IF budgeted THEN q.orphaned ELSE 0)
    /\ q.pc \in Unstreamed => q.sent = 0
    /\ q.pc \notin {"copy", "store", "publish", "commit", "closeResource"} => q.staged = 0
    /\ q.pc \in {"copy", "store", "publish", "commit"} => q.staged = q.sent
    /\ q.pc = "commit" => q.resp # "cut"
    /\ q.pc \in BeforeFill \cup {"fetch"} => q.up = "none"
    /\ q.pc \in {"store", "end"} \cup Writing => q.up = "none"
    /\ q.pc \in {"publish", "commit", "endWrite"} => q.writing
    /\ q.writing => q.pc \in Writing

Place(r, pc) ==
    /\ coordinated /\ pc \in Owning => lease = r
    /\ lease = r => pc \in Owning \cup {"closeLease"}
    /\ \A h \in Handlers : flight[h] = r => home[r] = h /\ pc \in Leading
    /\ coordinated /\ pc \in Filling => entry = None

Quiet(r, q) == shutdown[home[r]] = "returned" => ~q.writing

\* The invariant the proofs go by: at each point of resolveMiss, passUpstream and
\* storeResource, exactly the lease, flight, stage, charge, write and goroutine the
\* request holds there.
IInv ==
    /\ TypeOK
    /\ PublishedWhole
    /\ \A h \in Handlers : shutdown[h] # "none" => closing[h]
    /\ \A r \in Requests : Own(req[r]) /\ Place(r, req[r].pc) /\ Quiet(r, req[r])
=============================================================================
