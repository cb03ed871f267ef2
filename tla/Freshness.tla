----------------------------- MODULE Freshness -----------------------------
(***************************************************************************)
(* When a stored response may be used again (src/handler.go,               *)
(* src/resource.go, src/validator.go): its age, its lifetime, what the     *)
(* request asks for, what may be stored at all, and what an answer to a    *)
(* validation changes.                                                     *)
(*                                                                         *)
(* One resource without Vary.  Clock() is now, in ticks; dates in headers  *)
(* are whole seconds, an Age is a number of seconds.  The upstream is the  *)
(* origin or another cache, and may be answering late.                     *)
(***************************************************************************)
EXTENDS Integers

CONSTANTS
    Clients,         \* requests that go to the upstream, once each
    Requests,        \* what they may ask for
    Answers,         \* what the upstream may say of the resource
    Second,          \* ticks of a second
    MaxTime,         \* bound on the clock
    Olds,            \* how old, in ticks, an answer may be when the upstream sends it
    Slack,           \* seconds by which the Age of such a cache may fall short
    Skews,           \* seconds by which the clock of the origin is off
    LastModDivisor,
    None, Invalid

\* Cache-Control of a response; noStore is no-store or no-cache, private has no
\* fields, names some or is absent, must is must-revalidate or proxy-revalidate.
CacheControl ==
    [noStore: BOOLEAN, private: {"no", "fields", "all"}, public: BOOLEAN,
     maxAge: Nat \cup {None}, sMaxAge: Nat \cup {None}, must: {"no", "proxy", "all"}]
NoCacheControl ==
    [noStore |-> FALSE, private |-> "no", public |-> FALSE,
     maxAge |-> None, sMaxAge |-> None, must |-> "no"]

\* Statuses are in cacheableByDefault and storeable, in storeable only, or neither.
Answer ==
    [cc: CacheControl, expires: Int \cup {None, Invalid}, etag: BOOLEAN,
     lastMod: Int \cup {None}, status: {"default", "storeable", "other"},
     authorization: BOOLEAN]
\* piped: a HEAD that isCacheable() refuses, and pipeUpstream passes through.
\* maxStale Invalid is max-stale without a value.
Request ==
    [piped: BOOLEAN, auth: BOOLEAN, onlyIfCached: BOOLEAN,
     maxAge: Nat \cup {None}, minFresh: Nat \cup {None}, maxStale: Nat \cup {None, Invalid}]

ASSUME FreshnessAssumption ==
    /\ Second \in Nat \ {0} /\ LastModDivisor \in Nat \ {0}
    /\ MaxTime \in Nat /\ Olds \subseteq Nat /\ Slack \in Nat /\ Skews \subseteq Int
    /\ \A q \in Requests : q \in Request
    /\ \A a \in Answers : a \in Answer
    /\ None \notin Int

VARIABLES
    shared,   \* Handler.Shared; never changes
    now,
    entry,    \* the stored response, None if there is none
    marked,   \* the entry is older than an invalidation of its key
    client,   \* client -> its request
    served    \* what the step just taken served from the cache, if it did

vars == <<shared, now, entry, marked, client, served>>

(***************************************************************************)
(* A header: the answer, its Date, Age and Proxy-Date, and whether the     *)
(* fields that private may name are in it.  The rest are ghosts: since,    *)
(* when the origin made or last confirmed the response (of an answer       *)
(* without an Age, when it arrived; of a HEAD's header, what its Date      *)
(* says); auth, whether that was for a request with Authorization; by, the *)
(* client that wrote it; method, that of its request.                      *)
(***************************************************************************)
Header ==
    [answer: Answer, date: Int \cup {None}, age: Nat \cup {None}, proxyDate: Int \cup {None},
     fields: BOOLEAN, since: Int, auth: BOOLEAN, by: Clients \cup {None}, method: {"GET", "HEAD"}]

\* start is RequestTime, superseded whether an invalidation came after it; res and
\* cc the response in hand and its Cache-Control as parsed (None: not yet).  barred
\* is a ghost: the request was on its way when a 304 withdrew the response.
NewClient == [pc |-> "idle", auth |-> FALSE, start |-> 0, res |-> None, cc |-> None,
              superseded |-> FALSE, barred |-> FALSE]

HttpDate(t) == (t \div Second) * Second
Ceil(d) == (d + Second - 1) \div Second
Floor(d) == d \div Second
\* %.f rounds a half to the even second.
Round(d) == LET s == Floor(d)
                r == 2 * (d - s * Second)
            IN IF r > Second \/ (r = Second /\ s % 2 = 1) THEN s + 1 ELSE s

larger(a, b) == IF a > b THEN a ELSE b
smaller(a, b) == IF a < b THEN a ELSE b
Seconds(n) == n * Second
-----------------------------------------------------------------------------
(***************************************************************************)
(* Age and lifetime.  cc is what cacheControl() returns: parsed once and   *)
(* kept with the Resource.                                                 *)
(***************************************************************************)
Ageable(h) == h.proxyDate # None \/ h.date # None
Age(h) ==
    now - (IF h.proxyDate # None THEN h.proxyDate ELSE h.date)
        + (IF h.age # None THEN Seconds(h.age) ELSE 0)

HasExplicitExpiration(h, cc) ==
    cc.maxAge # None \/ (shared /\ cc.sMaxAge # None) \/ h.answer.expires # None

MaxAge(h, cc, t) ==
    CASE shared /\ cc.sMaxAge # None -> Seconds(cc.sMaxAge)
      [] ~(shared /\ cc.sMaxAge # None) /\ cc.maxAge # None -> Seconds(cc.maxAge)
      [] OTHER -> IF h.answer.expires \in {None, Invalid} THEN 0
                  ELSE h.answer.expires - (CASE h.date # None -> h.date
                                             [] h.date = None /\ h.proxyDate # None -> h.proxyDate
                                             [] OTHER -> t)

HeuristicFreshness(h, cc, t) ==
    IF ~HasExplicitExpiration(h, cc) /\ h.answer.lastMod # None
    THEN (t - h.answer.lastMod) \div LastModDivisor ELSE 0

MustValidate(cc) ==
    (shared /\ cc.sMaxAge # None) \/ cc.must = "all" \/ (shared /\ cc.must = "proxy")

\* For a response that is not marked.
FreshFor(h, cc, q) ==
    LET granted == MaxAge(h, cc, now)
        asked == IF q.maxAge # None THEN smaller(Seconds(q.maxAge), granted) ELSE granted
    IN larger(asked, HeuristicFreshness(h, cc, now)) - Age(h)

\* Seeded fault: max-stale is granted before must-revalidate is looked at.
NeedsValidationUnlessMaxStale(h, cc, q, stale) ==
    ~stale /\ Ageable(h) =>
       LET f == FreshFor(h, cc, q) IN
       \/ q.minFresh # None /\ f < Seconds(q.minFresh)
       \/ f <= 0 /\ q.maxStale = None

NeedsValidation(h, cc, q, stale) ==
    ~stale /\ Ageable(h) =>
       LET f == FreshFor(h, cc, q) IN
       \/ f <= 0 /\ MustValidate(cc)
       \/ q.minFresh # None /\ f < Seconds(q.minFresh)
       \/ f <= 0 /\ ~(q.maxStale = Invalid \/ (q.maxStale # None /\ Seconds(q.maxStale) >= -f))

(***************************************************************************)
(* What may be stored.                                                     *)
(***************************************************************************)
HasValidators(h) == h.answer.etag \/ h.answer.lastMod # None

AllowsAuthenticatedStorage(h, cc, auth) ==
    shared => /\ auth => cc.public \/ cc.sMaxAge # None
              /\ h.answer.authorization => cc.must = "all" \/ cc.sMaxAge # None

AllowsResponseStorage(h, cc, auth) ==
    /\ ~cc.noStore
    /\ ~(shared /\ cc.private = "all")
    /\ h.answer.status # "other"
    /\ AllowsAuthenticatedStorage(h, cc, auth)

IsCacheable(h, cc, auth, t) ==
    /\ AllowsResponseStorage(h, cc, auth)
    /\ IF HasExplicitExpiration(h, cc) THEN MaxAge(h, cc, t) > 0 \/ HasValidators(h)
       ELSE /\ h.answer.status = "default" \/ cc.public
            /\ HasValidators(h) \/ HeuristicFreshness(h, cc, t) > 0

RemovePrivateHeaders(h, cc) ==
    IF shared /\ cc.private = "fields" THEN [h EXCEPT !.fields = FALSE] ELSE h

ServedAge(h) == Floor(Age(h))

\* Seeded faults: the difference of two clocks as it is; the Age field forgotten.
CorrectedAgeUnclamped(date, age, start) == now - date
CorrectedAgeByDate(date, age, start) == larger(now - date, 0)

\* When both fields are there; otherwise the Age is left as it came.
CorrectedAge(date, age, start) ==
    larger(larger(now - date, 0), Seconds(age) + now - start)
-----------------------------------------------------------------------------
(***************************************************************************)
(* The upstream.  Its answer to a request of time start left it then, at   *)
(* the earliest, and took the rest of the time to get here.  It says the   *)
(* Date it was made, by the clock of the origin, and an Age that falls     *)
(* short by less than Slack seconds.  Both fields may be missing.          *)
(***************************************************************************)
LeastAge(old) == larger(0, Floor(old) + 1 - Slack)

\* Leaving later, or with a greater Age, it would only seem older than it is.
Arrivals(start) ==
    UNION {[made: {start - old},
            date: {None} \cup {HttpDate(start - old) + Seconds(k) : k \in Skews},
            age: {None, LeastAge(old)}] : old \in Olds}

Received(a, m, auth, c, method) ==
    [answer |-> a, date |-> m.date, age |-> m.age, proxyDate |-> None, fields |-> TRUE,
     since |-> CASE method = "HEAD" /\ m.date # None -> m.date
                 [] method = "GET" /\ m.date # None /\ m.age # None -> m.made
                 [] OTHER -> now,
     auth |-> auth, by |-> c, method |-> method]

\* The body is here: Age and Proxy-Date are set.
Stamp(h, start) ==
    LET corrected == h.date # None /\ h.age # None IN
    [answer |-> h.answer, date |-> h.date,
     age |-> IF corrected THEN Ceil(CorrectedAge(h.date, h.age, start)) ELSE h.age,
     proxyDate |-> HttpDate(now), fields |-> h.fields,
     since |-> IF corrected THEN h.since ELSE now,
     auth |-> h.auth, by |-> h.by, method |-> h.method]

InFlight == {"fetch", "validate", "head"}
\* recordStale and Invalidate of the key: the entry, and what is on its way, are older.
Fence(cl) == [d \in Clients |-> [cl[d] EXCEPT !.superseded = @ \/ cl[d].pc \in InFlight]]
Bar(cl) == [d \in Clients |-> [cl[d] EXCEPT !.barred = @ \/ cl[d].pc \in InFlight]]

Done(c) == [pc |-> "done", auth |-> FALSE, start |-> 0, res |-> None, cc |-> None,
            superseded |-> FALSE, barred |-> client[c].barred]
Begin(auth, pc, res, cc) ==
    [pc |-> pc, auth |-> auth, start |-> now, res |-> res, cc |-> cc,
     superseded |-> FALSE, barred |-> FALSE]
Fetch(auth) == Begin(auth, "fetch", None, None)
-----------------------------------------------------------------------------
\* The store may hold a response of an earlier request, of time 0 and without an Age.
Earlier(a, auth) == Received(a, [made |-> 0, date |-> 0, age |-> None], auth, None, "GET")
Init ==
    /\ shared \in BOOLEAN
    /\ now = 0
    /\ \/ entry = None
       \/ \E a \in Answers, auth \in {q.auth : q \in Requests} :
             /\ IsCacheable(Earlier(a, auth), a.cc, auth, 0)
             /\ entry = RemovePrivateHeaders(Stamp(Earlier(a, auth), 0), a.cc)
    /\ marked = FALSE
    /\ client = [c \in Clients |-> NewClient]
    /\ served = None

\* ServeHTTP up to the upstream, if it comes to that.
Pipe(c, q) ==
    /\ q.piped
    /\ client' = [client EXCEPT ![c] = Begin(q.auth, "head", None, None)]
    /\ served' = None
    /\ UNCHANGED marked

Miss(c, q) ==
    /\ ~q.piped /\ entry = None
    /\ client' = IF q.onlyIfCached THEN client ELSE [client EXCEPT ![c] = Fetch(q.auth)]
    /\ served' = None
    /\ UNCHANGED marked

\* serveResource follows.
Reuse(c, q) ==
    /\ ~q.piped /\ entry # None
    /\ ~NeedsValidation(entry, entry.answer.cc, q, marked)
    /\ served' = [res |-> entry, q |-> q, age |-> ServedAge(entry)]
    /\ UNCHANGED <<marked, client>>

Revalidate(c, q) ==
    /\ ~q.piped /\ entry # None
    /\ NeedsValidation(entry, entry.answer.cc, q, marked)
    /\ IF q.onlyIfCached
       THEN UNCHANGED <<marked, client>>
       ELSE /\ client' = [Fence(client) EXCEPT ![c] =
                  IF HasValidators(entry)
                  THEN Begin(q.auth, "validate", entry,
                             IF marked THEN None ELSE entry.answer.cc)
                  ELSE Fetch(q.auth)]
            /\ marked' = TRUE
    /\ served' = None

Arrive(c) ==
    /\ client[c].pc = "idle"
    /\ \E q \in Requests : Pipe(c, q) \/ Miss(c, q) \/ Reuse(c, q) \/ Revalidate(c, q)
    /\ UNCHANGED <<shared, now, entry>>

\* What a full response may put into the cache: its header came at some time since
\* start, its body is complete now.
Storable(c) ==
    LET auth == client[c].auth
        heads == {Received(a, m, auth, c, "GET") : a \in Answers, m \in Arrivals(client[c].start)}
    IN {RemovePrivateHeaders(Stamp(h, client[c].start), h.answer.cc) :
        h \in {g \in heads : \E t \in client[c].start .. now : IsCacheable(g, g.answer.cc, auth, t)}}

\* passUpstream, for a fetch or a validation that was answered in full, and
\* storeResource, which publishes nothing if it is superseded and may fail.
Answered(c) ==
    /\ client[c].pc \in {"fetch", "validate"}
    /\ \/ ~client[c].superseded /\ entry' \in Storable(c) /\ marked' = FALSE
       \/ UNCHANGED <<entry, marked>>
    /\ client' = [client EXCEPT ![c] = Done(c)]
    /\ served' = None
    /\ UNCHANGED <<shared, now>>

(***************************************************************************)
(* 304.  The header in hand takes what the answer carries; a missing Date  *)
(* is now, and the Age is that of this validation.                         *)
(***************************************************************************)
ApplyValidationResponse(h, a, m, start, c) ==
    LET date == IF m.date # None THEN m.date ELSE HttpDate(now) IN
    [answer |-> [h.answer EXCEPT !.cc = IF a.cc # NoCacheControl THEN a.cc ELSE @,
                                 !.expires = IF a.expires # None THEN a.expires ELSE @,
                                 !.authorization = @ \/ a.authorization],
     date |-> date,
     age |-> IF m.age # None THEN Round(CorrectedAge(date, m.age, start)) ELSE None,
     proxyDate |-> HttpDate(now), fields |-> TRUE,
     since |-> IF m.age # None THEN m.made ELSE now,
     auth |-> client[c].auth, by |-> c, method |-> "GET"]

\* Seeded fault: the Cache-Control parsed before the 304 stays.
ValidatedCacheControlKept(cc, merged) == IF cc # None THEN cc ELSE merged.answer.cc

\* res.cc = nil: the next cacheControl() parses the merged header.
ValidatedCacheControl(cc, merged) == merged.answer.cc

\* Seeded fault: the request starts anew behind the fence of the validation only.
RefetchUnfenced(c, cl) ==
    /\ client' = [cl EXCEPT ![c] = Fetch(client[c].auth)]
    /\ served' = None
    /\ UNCHANGED <<entry, marked>>

\* refetchCachedResponse: all that is older is fenced, the request starts anew.
Refetch(c, cl) ==
    /\ client' = [Fence(cl) EXCEPT ![c] = Fetch(client[c].auth)]
    /\ marked' = (entry # None)
    /\ served' = None
    /\ UNCHANGED entry

\* What a 304 may make of the response in hand.
Confirmed(c) ==
    {ApplyValidationResponse(client[c].res, a, m, client[c].start, c) :
        a \in Answers, m \in Arrivals(client[c].start)}
StillCacheable(c, h) ==
    IsCacheable(h, ValidatedCacheControl(client[c].cc, h), client[c].auth, now)

\* A 304 that withdraws the permission to store what it confirms.
Withdraw(c) ==
    /\ client[c].pc = "validate"
    /\ {h \in Confirmed(c) : ~StillCacheable(c, h)} # {}
    /\ Refetch(c, Bar(client))
    /\ UNCHANGED <<shared, now>>

\* A 304 that freshens the entry.  Freshen refuses a superseded validation and an
\* entry that was replaced or removed; serveResource follows.
Freshen(c) ==
    /\ client[c].pc = "validate"
    /\ ~client[c].superseded /\ entry = client[c].res
    /\ entry' \in {RemovePrivateHeaders(h, ValidatedCacheControl(client[c].cc, h)) :
                      h \in {g \in Confirmed(c) : StillCacheable(c, g)}}
    /\ marked' = FALSE
    /\ served' = [res |-> entry', q |-> None, age |-> ServedAge(entry')]
    /\ client' = [client EXCEPT ![c] = Done(c)]
    /\ UNCHANGED <<shared, now>>

\* A 304 of other validators, one Freshen refuses, or a Freshen that fails.
ValidationFails(c) ==
    /\ client[c].pc = "validate"
    /\ Refetch(c, client)
    /\ UNCHANGED <<shared, now>>

\* Of a HEAD: the status of the entry and, of the validators, none that differs.
SameValidators(a, stored) ==
    /\ a.status = stored.status
    /\ a.etag => stored.etag
    /\ a.lastMod \in {None, stored.lastMod}

\* pipeUpstream of a HEAD: Freshen of the GET entry with the header as it came.
\* Other validators or another status invalidate the entry.
HeadAnswered(c) ==
    /\ client[c].pc = "head"
    /\ \/ /\ entry # None /\ ~client[c].superseded
          /\ \/ /\ entry' \in {Received(a, m, client[c].auth, c, "HEAD") :
                                a \in {b \in Answers : SameValidators(b, entry.answer)},
                                m \in Arrivals(client[c].start)}
                /\ marked' = FALSE
                /\ client' = [client EXCEPT ![c] = Done(c)]
             \/ /\ marked' = TRUE
                /\ client' = [Fence(client) EXCEPT ![c] = Done(c)]
                /\ UNCHANGED entry
       \/ /\ client' = [client EXCEPT ![c] = Done(c)]
          /\ UNCHANGED <<entry, marked>>
    /\ served' = None
    /\ UNCHANGED <<shared, now>>

\* A mutation of the resource.
Invalidate ==
    /\ marked' = (entry # None)
    /\ client' = Fence(client) /\ served' = None
    /\ UNCHANGED <<shared, now, entry>>

\* Eviction, or a removal that leaves the markers alone.
Remove ==
    /\ entry # None
    /\ entry' = None /\ marked' = FALSE /\ served' = None
    /\ UNCHANGED <<shared, now, client>>

Tick ==
    /\ now < MaxTime
    /\ now' = now + 1 /\ served' = None
    /\ UNCHANGED <<shared, entry, marked, client>>

Next ==
    \/ \E c \in Clients :
          \/ Arrive(c) \/ Answered(c) \/ Withdraw(c) \/ Freshen(c)
          \/ ValidationFails(c) \/ HeadAnswered(c)
    \/ Invalidate \/ Remove \/ Tick

Spec == Init /\ [][Next]_vars
-----------------------------------------------------------------------------
\* The types; an Age is never negative, whatever the clock of the origin says.
TypeOK ==
    /\ shared \in BOOLEAN /\ marked \in BOOLEAN /\ now \in 0 .. MaxTime
    /\ entry = None \/ entry \in Header
    /\ \A c \in Clients :
          /\ client[c].pc \in InFlight \cup {"idle", "done"}
          /\ client[c].res = None \/ client[c].res \in Header

\* Not more than Slack seconds, and half a second for the rounding of an Age, is
\* what an age here may fall short by.
Within(t, bound) == 2 * t < 2 * (bound + Seconds(Slack)) + Second

\* The Age that serveResource sends with a stored response is never below the time
\* since the origin made or confirmed it by more than what the upstream's own Age
\* lacked, the rounding of a validation's Age and the second that Floor drops:
\* neither the download, nor a slow answer, nor the skew of a clock is lost.
AgeCovers ==
    served # None => Within(now - served.res.since, Seconds(served.age + 1))

\* What the origin grants by the header as it stands.
Lifetime(h) == larger(MaxAge(h, h.answer.cc, now), HeuristicFreshness(h, h.answer.cc, now))

\* What the lifetime of h, the client's request q and the time since the origin spoke
\* allow.  min-fresh and, but for a heuristic lifetime, the max-age of the request
\* shorten the lifetime.
FreshEnough(h, q) ==
    LET age == now - h.since
        granted == IF HasExplicitExpiration(h, h.answer.cc) /\ q.maxAge # None
                   THEN smaller(Lifetime(h), Seconds(q.maxAge)) ELSE Lifetime(h)
        late == IF MustValidate(h.answer.cc) THEN None ELSE q.maxStale
    IN /\ \/ Within(age, granted)
          \/ late = Invalid
          \/ late \notin {None, Invalid} /\ Within(age, granted + Seconds(late) + 1)
       /\ q.minFresh # None => Within(age + Seconds(q.minFresh), granted + 1)

\* A response is reused without asking the upstream only within the lifetime its
\* origin grants it, counted from when the origin made or confirmed it; past that
\* only as far as the client's max-stale goes, and never if it must be revalidated.
ReuseFresh == served # None /\ served.q # None => FreshEnough(served.res, served.q)

\* What a shared cache keeps, a shared cache may keep, by what the origin said
\* last: a 304 that makes a response private, or names a field private, applies to
\* the entry as if it had come with it.  The header of a HEAD passed through is not
\* looked at, and is left out.
SharedIsShareable ==
    shared /\ entry # None /\ entry.method = "GET" =>
        LET cc == entry.answer.cc IN
        /\ ~cc.noStore /\ cc.private # "all"
        /\ cc.private = "fields" => ~entry.fields
        /\ entry.auth => cc.public \/ cc.sMaxAge # None
        /\ entry.answer.authorization => cc.must = "all" \/ cc.sMaxAge # None

\* Once a 304 has withdrawn a response, no request that was already on its way
\* then, and may have been answered before, puts it or another into the cache as
\* current.
WithdrawnStaysOut == entry # None /\ entry.by # None => ~client[entry.by].barred
-----------------------------------------------------------------------------
\* The parts of a stored response and of a client, whatever their values.
Shaped(h) ==
    /\ h.answer \in Answer /\ h.by \in Clients \cup {None}
    /\ h = [answer |-> h.answer, date |-> h.date, age |-> h.age, proxyDate |-> h.proxyDate,
            fields |-> h.fields, since |-> h.since, auth |-> h.auth, by |-> h.by, method |-> h.method]
ClientShaped(r) ==
    /\ r.superseded \in BOOLEAN /\ r.barred \in BOOLEAN
    /\ r = [pc |-> r.pc, auth |-> r.auth, start |-> r.start, res |-> r.res, cc |-> r.cc,
            superseded |-> r.superseded, barred |-> r.barred]

ClientOK(r) ==
    /\ ClientShaped(r)
    /\ r.pc = "validate" => Shaped(r.res)
    /\ r.pc \in InFlight /\ r.barred => r.superseded

\* The inductive invariant of the proofs: what is stored was written by a request
\* that is over and was not barred, and a barred request on its way is superseded,
\* so that neither storeResource nor Freshen publishes it.
IInv ==
    /\ client = [c \in Clients |-> client[c]]
    /\ \A c \in Clients : ClientOK(client[c])
    /\ entry # None =>
          /\ Shaped(entry)
          /\ entry.by # None => client[entry.by].pc = "done" /\ ~client[entry.by].barred
    /\ SharedIsShareable

\* What a header's own dates and Age leave out of the time since its origin made it;
\* the clock is not in it, so that only a step that writes a header can change it.
AgeBound(h) ==
    Ageable(h) =>
        2 * ((IF h.proxyDate # None THEN h.proxyDate ELSE h.date) - h.since)
          <= 2 * ((IF h.age # None THEN Seconds(h.age) ELSE 0) + Seconds(Slack)) + Second

ClientTyped(r) ==
    /\ r.pc \in InFlight \cup {"idle", "done"}
    /\ r.auth \in BOOLEAN /\ r.start \in Int
    /\ r.res = None \/ r.res \in Header
    /\ r.pc = "validate" => r.res \in Header

\* The inductive invariant of the ages.
AInv ==
    /\ shared \in BOOLEAN /\ marked \in BOOLEAN /\ now \in 0 .. MaxTime
    /\ entry # None => entry \in Header /\ AgeBound(entry)
    /\ \A c \in Clients : ClientTyped(client[c])
=============================================================================
