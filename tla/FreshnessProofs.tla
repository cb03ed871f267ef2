-------------------------- MODULE FreshnessProofs --------------------------
(***************************************************************************)
(* What a shared cache keeps, and what a withdrawn response becomes        *)
(* (module Freshness), for any requests, any answers and any clock.        *)
(***************************************************************************)
EXTENDS Freshness, TLAPS

\* A leaf without a prover of its own is tried with Zenon, then several times with SMT.
USE ZenonT(4), SMTT(6), SMTT(7), SMTT(8), SMTT(9), SMTT(10)

\* What the upstream sends is a header, whatever isCacheable says of it.
LEMMA ReceivedShaped ==
    ASSUME NEW a \in Answers, NEW m, NEW auth, NEW c \in Clients \cup {None}, NEW method
    PROVE  LET h == Received(a, m, auth, c, method) IN
           Shaped(h) /\ h.by = c /\ h.auth = auth /\ h.answer = a /\ h.method = method
  BY FreshnessAssumption DEF Shaped, Received

\* passUpstream's stamps leave all but the Age, the dates and the ghost since alone.
LEMMA StampShaped ==
    ASSUME NEW h, Shaped(h), NEW start
    PROVE  /\ Shaped(Stamp(h, start))
           /\ Stamp(h, start).answer = h.answer /\ Stamp(h, start).by = h.by
           /\ Stamp(h, start).auth = h.auth /\ Stamp(h, start).method = h.method
  BY DEF Shaped, Stamp

\* RemovePrivateHeaders takes the named fields out of what a shared cache keeps, and
\* nothing else.
LEMMA RemovedShaped ==
    ASSUME NEW h, Shaped(h), NEW cc
    PROVE  LET g == RemovePrivateHeaders(h, cc) IN
           /\ Shaped(g)
           /\ g.answer = h.answer /\ g.by = h.by /\ g.auth = h.auth /\ g.method = h.method
           /\ shared /\ cc.private = "fields" => ~g.fields
  BY Zenon DEF Shaped, RemovePrivateHeaders

\* What isCacheable admits with its own Cache-Control, and RemovePrivateHeaders has
\* been through, a shared cache may keep.
LEMMA CacheableShareable ==
    ASSUME NEW h, Shaped(h), NEW auth, h.auth = auth, NEW t,
           IsCacheable(h, h.answer.cc, auth, t),
           NEW g, g.answer = h.answer, g.auth = h.auth,
           shared /\ h.answer.cc.private = "fields" => ~g.fields, shared
    PROVE  LET cc == g.answer.cc IN
           /\ ~cc.noStore /\ cc.private # "all"
           /\ cc.private = "fields" => ~g.fields
           /\ g.auth => cc.public \/ cc.sMaxAge # None
           /\ g.answer.authorization => cc.must = "all" \/ cc.sMaxAge # None
  BY DEF IsCacheable, AllowsResponseStorage, AllowsAuthenticatedStorage

\* A 304's merged header: the answer of the client that asked, never a HEAD's.
LEMMA MergedShaped ==
    ASSUME NEW h, Shaped(h), NEW a \in Answers, NEW m, NEW start, NEW c \in Clients
    PROVE  LET g == ApplyValidationResponse(h, a, m, start, c) IN
           Shaped(g) /\ g.by = c /\ g.auth = client[c].auth
<1> DEFINE ans == [h.answer EXCEPT
                       !.cc = IF a.cc # NoCacheControl THEN a.cc ELSE h.answer.cc,
                       !.expires = IF a.expires # None THEN a.expires ELSE h.answer.expires,
                       !.authorization = h.answer.authorization \/ a.authorization]
<1>1. a \in Answer /\ h.answer \in Answer
  BY FreshnessAssumption DEF Shaped
<1>2. ans \in Answer
  BY <1>1, Zenon DEF Answer
<1>3. ApplyValidationResponse(h, a, m, start, c).answer = ans
  BY DEF ApplyValidationResponse
<1> HIDE DEF ans
<1> QED  BY <1>2, <1>3 DEF Shaped, ApplyValidationResponse
-----------------------------------------------------------------------------
\* A request that begins, refetchCachedResponse's included, is not barred.
LEMMA BeginOK ==
    ASSUME NEW auth, NEW pc, NEW res, NEW cc, pc = "validate" => Shaped(res)
    PROVE  ClientOK(Begin(auth, pc, res, cc)) /\ Begin(auth, pc, res, cc).pc = pc
  BY DEF ClientOK, ClientShaped, Begin

\* A request that ends stays what it was to the ghosts.
LEMMA DoneOK ==
    ASSUME NEW c \in Clients, ClientOK(client[c])
    PROVE  ClientOK(Done(c)) /\ Done(c).pc = "done" /\ Done(c).barred = client[c].barred
  BY DEF ClientOK, ClientShaped, Done, InFlight

\* Setting one flag of a request leaves the others alone.
LEMMA SetSuperseded ==
    ASSUME NEW r, ClientShaped(r), NEW v \in BOOLEAN
    PROVE  LET s == [r EXCEPT !.superseded = v] IN
           /\ ClientShaped(s) /\ s.pc = r.pc /\ s.res = r.res /\ s.barred = r.barred
           /\ s.superseded = v /\ s.auth = r.auth /\ s.start = r.start
  BY DEF ClientShaped
LEMMA SetBarred ==
    ASSUME NEW r, ClientShaped(r), NEW v \in BOOLEAN
    PROVE  LET s == [r EXCEPT !.barred = v] IN
           /\ ClientShaped(s) /\ s.pc = r.pc /\ s.res = r.res /\ s.superseded = r.superseded
           /\ s.barred = v /\ s.auth = r.auth /\ s.start = r.start
  BY DEF ClientShaped

\* recordStale and Invalidate supersede what is on its way and touch nothing else.
LEMMA FenceEffect ==
    ASSUME NEW cl, NEW d \in Clients, ClientShaped(cl[d])
    PROVE  LET r == Fence(cl)[d] IN
           /\ ClientShaped(r) /\ r.pc = cl[d].pc /\ r.res = cl[d].res /\ r.barred = cl[d].barred
           /\ r.auth = cl[d].auth /\ r.start = cl[d].start
           /\ r.superseded <=> (cl[d].superseded \/ cl[d].pc \in InFlight)
<1> DEFINE v == cl[d].superseded \/ cl[d].pc \in InFlight
<1>1. v \in BOOLEAN  OBVIOUS
<1>2. Fence(cl)[d] = [cl[d] EXCEPT !.superseded = v]
  BY DEF Fence
<1> HIDE DEF v
<1>3. LET s == [cl[d] EXCEPT !.superseded = v] IN
      /\ ClientShaped(s) /\ s.pc = cl[d].pc /\ s.res = cl[d].res /\ s.barred = cl[d].barred /\ s.superseded = v
      /\ s.auth = cl[d].auth /\ s.start = cl[d].start
  BY <1>1, SetSuperseded
<1> QED  BY <1>2, <1>3, Zenon DEF v

\* The ghost of a withdrawal likewise.
LEMMA BarEffect ==
    ASSUME NEW d \in Clients, ClientShaped(client[d])
    PROVE  LET r == Bar(client)[d] IN
           /\ ClientShaped(r) /\ r.pc = client[d].pc /\ r.res = client[d].res
           /\ r.auth = client[d].auth /\ r.start = client[d].start
           /\ r.superseded = client[d].superseded
           /\ r.barred <=> (client[d].barred \/ client[d].pc \in InFlight)
<1> DEFINE v == client[d].barred \/ client[d].pc \in InFlight
<1>1. v \in BOOLEAN  OBVIOUS
<1>2. Bar(client)[d] = [client[d] EXCEPT !.barred = v]
  BY DEF Bar
<1> HIDE DEF v
<1>3. LET s == [client[d] EXCEPT !.barred = v] IN
      /\ ClientShaped(s) /\ s.pc = client[d].pc /\ s.res = client[d].res /\ s.superseded = client[d].superseded /\ s.barred = v
      /\ s.auth = client[d].auth /\ s.start = client[d].start
  BY <1>1, SetBarred
<1> QED  BY <1>2, <1>3, Zenon DEF v

\* What a fence keeps.
LEMMA FenceOK ==
    ASSUME NEW cl, \A d \in Clients : ClientOK(cl[d])
    PROVE  /\ Fence(cl) = [d \in Clients |-> Fence(cl)[d]]
           /\ \A d \in Clients : /\ ClientOK(Fence(cl)[d])
                                 /\ Fence(cl)[d].pc = cl[d].pc
                                 /\ Fence(cl)[d].barred = cl[d].barred
<1>1. Fence(cl) = [d \in Clients |-> Fence(cl)[d]]
  BY DEF Fence
<1>2. ASSUME NEW d \in Clients
      PROVE  /\ ClientOK(Fence(cl)[d]) /\ Fence(cl)[d].pc = cl[d].pc
             /\ Fence(cl)[d].barred = cl[d].barred
  BY <1>2, FenceEffect DEF ClientOK
<1> QED  BY <1>1, <1>2

\* The two fences of a 304 that withdraws a response: what is on its way is barred
\* and superseded at once.
LEMMA BarOK ==
    ASSUME \A d \in Clients : ClientOK(client[d])
    PROVE  /\ Fence(Bar(client)) = [d \in Clients |-> Fence(Bar(client))[d]]
           /\ \A d \in Clients :
                 LET r == Fence(Bar(client))[d] IN
                 /\ ClientOK(r)
                 /\ client[d].pc = "done" => r.pc = "done" /\ (r.barred => client[d].barred)
<1>1. Fence(Bar(client)) = [d \in Clients |-> Fence(Bar(client))[d]]
  BY DEF Fence
<1>2. ASSUME NEW d \in Clients
      PROVE  LET r == Fence(Bar(client))[d] IN
             /\ ClientOK(r)
             /\ client[d].pc = "done" => r.pc = "done" /\ (r.barred => client[d].barred)
  <2> DEFINE b == Bar(client)[d]
  <2>1. /\ ClientShaped(b) /\ b.pc = client[d].pc /\ b.res = client[d].res
        /\ b.barred <=> (client[d].barred \/ client[d].pc \in InFlight)
    BY <1>2, BarEffect DEF ClientOK
  <2>2. LET r == Fence(Bar(client))[d] IN
        /\ ClientShaped(r) /\ r.pc = b.pc /\ r.res = b.res /\ r.barred = b.barred
        /\ r.superseded <=> (b.superseded \/ b.pc \in InFlight)
    BY <1>2, <2>1, FenceEffect
  <2>3. client[d].pc = "validate" => Shaped(client[d].res)
    BY DEF ClientOK
  <2>4. client[d].pc = "done" => client[d].pc \notin InFlight
    BY DEF InFlight
  <2> HIDE DEF b
  <2> QED  BY <2>1, <2>2, <2>3, <2>4 DEF ClientOK
<1> QED  BY <1>1, <1>2

\* Steps that leave the entry alone and what is over as it was.
LEMMA EntryKept ==
    ASSUME IInv, UNCHANGED <<shared, entry>>,
           client' = [c \in Clients |-> client'[c]],
           \A c \in Clients : ClientOK(client'[c]),
           \A c \in Clients : client[c].pc = "done" =>
               client'[c].pc = "done" /\ (client'[c].barred => client[c].barred)
    PROVE  IInv'
  BY DEF IInv, SharedIsShareable, Shaped, ClientOK, ClientShaped, InFlight

\* Steps that write the entry: the writer ends, is not barred, and the response is
\* shareable or a HEAD's.
LEMMA EntryWritten ==
    ASSUME IInv, UNCHANGED shared, NEW c \in Clients, NEW h, entry' = h, Shaped(h), h.by = c,
           ~client[c].superseded, client[c].pc \in InFlight,
           client' = [client EXCEPT ![c] = Done(c)],
           SharedIsShareable'
    PROVE  IInv'
<1>1. ~client[c].barred
  BY DEF IInv, ClientOK, ClientShaped
<1>2. ClientOK(Done(c)) /\ Done(c).pc = "done" /\ Done(c).barred = client[c].barred
  BY DoneOK DEF IInv
<1>3. /\ client' = [d \in Clients |-> client'[d]]
      /\ client'[c] = Done(c)
      /\ \A d \in Clients : ClientOK(client'[d])
  BY <1>2 DEF IInv
<1>4. (\A d \in Clients : ClientOK(client[d]))'
  BY <1>3 DEF ClientOK, ClientShaped, Shaped, InFlight
<1>5. Shaped(entry)'
  BY DEF Shaped
<1> QED  BY <1>1, <1>2, <1>3, <1>4, <1>5 DEF IInv

\* A request whose place changes, under a fence or without one, was not over.
LEMMA OneChanged ==
    ASSUME IInv, UNCHANGED <<shared, entry>>, NEW c \in Clients, client[c].pc # "done",
           NEW cl, cl = [d \in Clients |-> cl[d]],
           \A d \in Clients :
               /\ ClientOK(cl[d])
               /\ client[d].pc = "done" => cl[d].pc = "done" /\ (cl[d].barred => client[d].barred),
           NEW r, ClientOK(r), client' = [cl EXCEPT ![c] = r]
    PROVE  IInv'
<1>1. /\ client' = [d \in Clients |-> client'[d]]
      /\ client'[c] = r /\ \A d \in Clients \ {c} : client'[d] = cl[d]
  OBVIOUS
<1>2. \A d \in Clients : ClientOK(client'[d])
  BY <1>1
<1>3. \A d \in Clients : client[d].pc = "done" =>
          client'[d].pc = "done" /\ (client'[d].barred => client[d].barred)
  BY <1>1
<1> QED  BY <1>1, <1>2, <1>3, EntryKept

\* ServeHTTP: the request begins, or is over at once.
LEMMA ArriveKeeps ==
    ASSUME IInv, NEW c \in Clients, Arrive(c)
    PROVE  IInv'
<1> USE DEF Arrive
<1>1. client = [d \in Clients |-> client[d]] /\ \A d \in Clients : ClientOK(client[d])
  BY DEF IInv
<1>2. PICK q \in Requests : Pipe(c, q) \/ Miss(c, q) \/ Reuse(c, q) \/ Revalidate(c, q)
  OBVIOUS
<1>3. client[c].pc # "done" /\ UNCHANGED <<shared, entry>>
  OBVIOUS
<1>4. client' = client => IInv'
  BY <1>1, <1>3, EntryKept
<1>5. ClientOK(Begin(q.auth, "head", None, None)) /\ ClientOK(Fetch(q.auth))
  BY BeginOK DEF Fetch
<1>6. CASE Pipe(c, q)
  BY <1>1, <1>3, <1>5, <1>6, OneChanged DEF Pipe
<1>7. CASE Miss(c, q)
  <2>1. CASE q.onlyIfCached
    BY <1>4, <1>7, <2>1 DEF Miss
  <2>2. CASE ~q.onlyIfCached
    BY <1>1, <1>3, <1>5, <1>7, <2>2, OneChanged DEF Miss
  <2> QED  BY <2>1, <2>2
<1>8. CASE Reuse(c, q)
  BY <1>4, <1>8 DEF Reuse
<1>9. CASE Revalidate(c, q)
  <2>1. CASE q.onlyIfCached
    BY <1>4, <1>9, <2>1 DEF Revalidate
  <2>2. CASE ~q.onlyIfCached
    <3> DEFINE cc == IF marked THEN None ELSE entry.answer.cc
               r == IF HasValidators(entry) THEN Begin(q.auth, "validate", entry, cc) ELSE Fetch(q.auth)
    <3>1. client' = [Fence(client) EXCEPT ![c] = r] /\ entry # None
      BY <1>9, <2>2 DEF Revalidate
    <3>2. Shaped(entry)
      BY <3>1 DEF IInv
    <3>3. ClientOK(Begin(q.auth, "validate", entry, cc))
      BY <3>2, BeginOK
    <3>4. ClientOK(r)
      BY <3>3, <1>5
    <3> HIDE DEF r
    <3> QED  BY <1>1, <1>3, <3>1, <3>4, FenceOK, OneChanged
  <2> QED  BY <2>1, <2>2
<1> QED  BY <1>2, <1>6, <1>7, <1>8, <1>9

\* refetchCachedResponse, under the fences that came before it.
LEMMA RefetchKeeps ==
    ASSUME IInv, UNCHANGED shared, NEW c \in Clients, client[c].pc = "validate",
           NEW cl, Refetch(c, cl),
           Fence(cl) = [d \in Clients |-> Fence(cl)[d]],
           \A d \in Clients :
               /\ ClientOK(Fence(cl)[d])
               /\ client[d].pc = "done" =>
                     Fence(cl)[d].pc = "done" /\ (Fence(cl)[d].barred => client[d].barred)
    PROVE  IInv'
<1>1. ClientOK(Fetch(client[c].auth))
  BY BeginOK DEF Fetch
<1>2. client' = [Fence(cl) EXCEPT ![c] = Fetch(client[c].auth)] /\ UNCHANGED entry
  BY DEF Refetch
<1> QED  BY <1>1, <1>2, OneChanged

\* A 304 that withdraws the permission to store.
LEMMA WithdrawKeeps ==
    ASSUME IInv, NEW c \in Clients, Withdraw(c)
    PROVE  IInv'
  BY BarOK, RefetchKeeps DEF Withdraw, IInv

\* A 304 that is refused.
LEMMA ValidationFailsKeeps ==
    ASSUME IInv, NEW c \in Clients, ValidationFails(c)
    PROVE  IInv'
  BY FenceOK, RefetchKeeps DEF ValidationFails, IInv

\* A request that ends without writing.
LEMMA EndKeeps ==
    ASSUME IInv, UNCHANGED <<shared, entry>>, NEW c \in Clients, client[c].pc # "done",
           \/ client' = [client EXCEPT ![c] = Done(c)]
           \/ client' = [Fence(client) EXCEPT ![c] = Done(c)]
    PROVE  IInv'
<1>1. client = [d \in Clients |-> client[d]] /\ \A d \in Clients : ClientOK(client[d])
  BY DEF IInv
<1>2. ClientOK(Done(c))
  BY <1>1, DoneOK
<1>3. CASE client' = [client EXCEPT ![c] = Done(c)]
  BY <1>1, <1>2, <1>3, OneChanged
<1>4. CASE client' = [Fence(client) EXCEPT ![c] = Done(c)]
  BY <1>1, <1>2, <1>4, FenceOK, OneChanged
<1> QED  BY <1>3, <1>4

\* passUpstream and storeResource: what they publish isCacheable has admitted.
LEMMA AnsweredKeeps ==
    ASSUME IInv, NEW c \in Clients, Answered(c)
    PROVE  IInv'
<1> DEFINE start == client[c].start
           auth == client[c].auth
<1>1. /\ client[c].pc \in InFlight /\ client[c].pc # "done" /\ UNCHANGED shared
      /\ client' = [client EXCEPT ![c] = Done(c)]
  BY DEF Answered, InFlight
<1>2. CASE UNCHANGED entry
  BY <1>1, <1>2, EndKeeps, Zenon
<1>3. CASE ~client[c].superseded /\ entry' \in Storable(c)
  <2>1. PICK a \in Answers, m \in Arrivals(start), t \in start .. now :
           LET h == Received(a, m, auth, c, "GET") IN
           /\ IsCacheable(h, h.answer.cc, auth, t)
           /\ entry' = RemovePrivateHeaders(Stamp(h, start), h.answer.cc)
    BY <1>3 DEF Storable
  <2> DEFINE h == Received(a, m, auth, c, "GET")
             g == Stamp(h, start)
             e == RemovePrivateHeaders(g, h.answer.cc)
  <2>2. Shaped(h) /\ h.by = c /\ h.auth = auth /\ h.method = "GET"
    BY ReceivedShaped
  <2>a. IsCacheable(h, h.answer.cc, auth, t) /\ entry' = e
    BY <2>1
  <2> HIDE DEF h
  <2>3. Shaped(g) /\ g.answer = h.answer /\ g.by = c /\ g.auth = auth
    BY <2>2, StampShaped
  <2> HIDE DEF g
  <2>4. /\ Shaped(e) /\ e.answer = h.answer /\ e.by = c /\ e.auth = auth
        /\ shared /\ h.answer.cc.private = "fields" => ~e.fields
    BY <2>3, RemovedShaped, Zenon
  <2> HIDE DEF e
  <2>5. SharedIsShareable'
    BY <1>1, <2>2, <2>4, <2>a, CacheableShareable DEF SharedIsShareable
  <2> QED  BY <1>1, <1>3, <2>4, <2>5, <2>a, EntryWritten, Zenon
<1> QED  BY <1>2, <1>3 DEF Answered

\* Freshen: the merged header, judged by the Cache-Control it carries now.
LEMMA FreshenKeeps ==
    ASSUME IInv, NEW c \in Clients, Freshen(c)
    PROVE  IInv'
<1> DEFINE auth == client[c].auth
<1>1. /\ client[c].pc = "validate" /\ client[c].pc \in InFlight /\ UNCHANGED shared
      /\ ~client[c].superseded /\ client' = [client EXCEPT ![c] = Done(c)]
  BY DEF Freshen, InFlight
<1>2. PICK a \in Answers, m \in Arrivals(client[c].start) :
         LET h == ApplyValidationResponse(client[c].res, a, m, client[c].start, c) IN
         /\ IsCacheable(h, h.answer.cc, auth, now)
         /\ entry' = RemovePrivateHeaders(h, h.answer.cc)
  BY DEF Freshen, Confirmed, StillCacheable, ValidatedCacheControl
<1> DEFINE h == ApplyValidationResponse(client[c].res, a, m, client[c].start, c)
           e == RemovePrivateHeaders(h, h.answer.cc)
<1>3. Shaped(client[c].res)
  BY <1>1 DEF IInv, ClientOK
<1>4. Shaped(h) /\ h.by = c /\ h.auth = auth
  BY <1>3, MergedShaped
<1>a. IsCacheable(h, h.answer.cc, auth, now) /\ entry' = e
  BY <1>2
<1> HIDE DEF h
<1>5. /\ Shaped(e) /\ e.answer = h.answer /\ e.by = c /\ e.auth = auth
      /\ shared /\ h.answer.cc.private = "fields" => ~e.fields
  BY <1>4, RemovedShaped, Zenon
<1> HIDE DEF e
<1>6. SharedIsShareable'
  BY <1>1, <1>4, <1>5, <1>a, CacheableShareable DEF SharedIsShareable
<1> QED  BY <1>1, <1>5, <1>6, <1>a, EntryWritten, Zenon

\* pipeUpstream: it freshens the GET entry, invalidates it or leaves it alone.
LEMMA HeadAnsweredKeeps ==
    ASSUME IInv, NEW c \in Clients, HeadAnswered(c)
    PROVE  IInv'
<1>1. client[c].pc \in InFlight /\ client[c].pc # "done" /\ UNCHANGED shared
  BY DEF HeadAnswered, InFlight
<1>2. CASE /\ UNCHANGED entry
           /\ \/ client' = [client EXCEPT ![c] = Done(c)]
              \/ client' = [Fence(client) EXCEPT ![c] = Done(c)]
  BY <1>1, <1>2, EndKeeps
<1>3. CASE /\ ~client[c].superseded
           /\ entry' \in {Received(a, m, client[c].auth, c, "HEAD") :
                            a \in {b \in Answers : SameValidators(b, entry.answer)},
                            m \in Arrivals(client[c].start)}
           /\ client' = [client EXCEPT ![c] = Done(c)]
  <2>1. PICK a \in Answers, m \in Arrivals(client[c].start) :
           entry' = Received(a, m, client[c].auth, c, "HEAD")
    BY <1>3
  <2> DEFINE e == Received(a, m, client[c].auth, c, "HEAD")
  <2>3. Shaped(e) /\ e.by = c /\ e.method = "HEAD"
    BY ReceivedShaped
  <2>4. entry' = e
    BY <2>1
  <2> HIDE DEF e
  <2>5. SharedIsShareable'
    BY <2>3, <2>4 DEF SharedIsShareable
  <2>6. ~client[c].superseded /\ client' = [client EXCEPT ![c] = Done(c)]
    BY <1>3
  <2> QED  BY <1>1, <2>3, <2>4, <2>5, <2>6, EntryWritten, Zenon
<1> QED  BY <1>2, <1>3 DEF HeadAnswered

\* Invalidate, an eviction and the clock.
LEMMA OthersKeep ==
    ASSUME IInv, Invalidate \/ Remove \/ Tick \/ UNCHANGED vars
    PROVE  IInv'
<1>1. client = [d \in Clients |-> client[d]] /\ \A d \in Clients : ClientOK(client[d])
  BY DEF IInv
<1>2. CASE Invalidate
  BY <1>1, <1>2, FenceOK, EntryKept DEF Invalidate
<1>3. CASE Remove
  BY <1>1, <1>3 DEF Remove, IInv, SharedIsShareable, ClientOK, ClientShaped, Shaped, InFlight
<1>4. CASE Tick \/ UNCHANGED vars
  BY <1>1, <1>4, EntryKept DEF Tick, vars
<1> QED  BY <1>2, <1>3, <1>4

\* The store is empty, or holds what an earlier request was allowed to store.
LEMMA InitOK == Init => IInv
<1> SUFFICES ASSUME Init PROVE IInv
  OBVIOUS
<1>1. /\ client = [c \in Clients |-> client[c]]
      /\ \A c \in Clients : ClientOK(client[c])
  BY Zenon DEF Init, NewClient, ClientOK, ClientShaped
<1>2. CASE entry = None
  BY <1>1, <1>2 DEF IInv, SharedIsShareable
<1>3. CASE \E a \in Answers, auth \in {q.auth : q \in Requests} :
             /\ IsCacheable(Earlier(a, auth), a.cc, auth, 0)
             /\ entry = RemovePrivateHeaders(Stamp(Earlier(a, auth), 0), a.cc)
  <2>1. PICK a \in Answers, auth \in {q.auth : q \in Requests} :
             /\ IsCacheable(Earlier(a, auth), a.cc, auth, 0)
             /\ entry = RemovePrivateHeaders(Stamp(Earlier(a, auth), 0), a.cc)
    BY <1>3
  <2> DEFINE h == Earlier(a, auth)
             g == Stamp(h, 0)
  <2>2. Shaped(h) /\ h.by = None /\ h.auth = auth /\ h.answer = a
    BY ReceivedShaped DEF Earlier
  <2>a. IsCacheable(h, h.answer.cc, auth, 0) /\ entry = RemovePrivateHeaders(g, h.answer.cc)
    BY <2>1, <2>2
  <2> HIDE DEF h
  <2>3. Shaped(g) /\ g.answer = h.answer /\ g.by = None /\ g.auth = auth
    BY <2>2, StampShaped
  <2> HIDE DEF g
  <2>4. /\ Shaped(entry) /\ entry.answer = h.answer /\ entry.by = None /\ entry.auth = auth
        /\ shared /\ h.answer.cc.private = "fields" => ~entry.fields
    BY <2>3, <2>a, RemovedShaped, Zenon
  <2>5. SharedIsShareable
    BY <2>2, <2>4, <2>a, CacheableShareable DEF SharedIsShareable
  <2> QED  BY <1>1, <2>4, <2>5 DEF IInv
<1> QED  BY <1>2, <1>3 DEF Init

\* What is stored was written by a request that is over and was not barred, and a
\* barred request on its way is superseded: the invariant behind the next two.
THEOREM FreshnessInvariant == Spec => []IInv
<1>1. IInv /\ [Next]_vars => IInv'
  BY ArriveKeeps, AnsweredKeeps, WithdrawKeeps, FreshenKeeps, ValidationFailsKeeps,
     HeadAnsweredKeeps, OthersKeep DEF Next
<1> QED  BY <1>1, InitOK, PTL DEF Spec

\* What a shared cache keeps, a shared cache may keep, by what the origin said last.
THEOREM SharedKeepsShareable == Spec => []SharedIsShareable
<1>1. IInv => SharedIsShareable
  BY DEF IInv
<1> QED  BY <1>1, FreshnessInvariant, PTL

\* No request that was on its way when a 304 withdrew the response writes the entry.
THEOREM WithdrawnStays == Spec => []WithdrawnStaysOut
<1>1. IInv => WithdrawnStaysOut
  BY DEF IInv, WithdrawnStaysOut
<1> QED  BY <1>1, FreshnessInvariant, PTL
-----------------------------------------------------------------------------
(***************************************************************************)
(* Ages.  Division and multiplication by Second first, then what each      *)
(* header written leaves out.                                              *)
(***************************************************************************)
\* Seconds rounds nothing, a whole number of seconds is within one of the time.
LEMMA Quotient ==
    ASSUME NEW x \in Int, NEW s \in Nat \ {0}
    PROVE  /\ x \div s \in Int /\ (x \div s) * s <= x /\ x < (x \div s) * s + s
           /\ x >= 0 => x \div s >= 0
  OBVIOUS

\* Dates without fractions are not ahead.
LEMMA HttpDateIs ==
    ASSUME NEW t \in Int
    PROVE  HttpDate(t) \in Int /\ HttpDate(t) <= t
  BY Quotient, FreshnessAssumption DEF HttpDate

\* The rounding of passUpstream's Age loses nothing.
LEMMA CeilIs ==
    ASSUME NEW d \in Int
    PROVE  Ceil(d) \in Int /\ d <= Seconds(Ceil(d)) /\ (d >= 0 => Ceil(d) >= 0)
  BY Quotient, FreshnessAssumption DEF Ceil, Seconds

\* The rounding of a validation's Age loses half a second at most.
LEMMA RoundIs ==
    ASSUME NEW d \in Int
    PROVE  /\ Round(d) \in Int /\ 2 * d <= 2 * Seconds(Round(d)) + Second
           /\ d >= 0 => Round(d) >= 0
<1>1. /\ Second \in Nat \ {0} /\ Floor(d) \in Int /\ (d >= 0 => Floor(d) >= 0)
      /\ Floor(d) * Second <= d /\ d < Floor(d) * Second + Second
  BY Quotient, FreshnessAssumption DEF Floor
<1>2. (Floor(d) + 1) * Second = Floor(d) * Second + Second
  BY <1>1
<1> QED  BY <1>1, <1>2 DEF Round, Seconds

\* The Age that serveResource sends is short by less than a second.
LEMMA FloorIs ==
    ASSUME NEW d \in Int
    PROVE  Floor(d) \in Int /\ d < Seconds(Floor(d) + 1)
<1>1. /\ Second \in Nat \ {0} /\ Floor(d) \in Int /\ d < Floor(d) * Second + Second
  BY Quotient, FreshnessAssumption DEF Floor
<1>2. (Floor(d) + 1) * Second = Floor(d) * Second + Second
  BY <1>1
<1> QED  BY <1>1, <1>2 DEF Seconds

\* A number of seconds in ticks.
LEMMA SecondsIs ==
    /\ \A n \in Int : Seconds(n) \in Int
    /\ \A n \in Nat : Seconds(n) >= 0
    /\ Seconds(Slack) \in Nat
  BY FreshnessAssumption DEF Seconds

\* correctedAge is at least the age the upstream admits and the time it took.
LEMMA CorrectedAgeIs ==
    ASSUME NEW date \in Int, NEW age \in Nat, NEW start \in Int, now \in Int
    PROVE  LET d == CorrectedAge(date, age, start) IN
           d \in Int /\ d >= 0 /\ d >= Seconds(age) + now - start
  BY SecondsIs DEF CorrectedAge, larger

\* The Age of a cache that answers falls short by Slack seconds at most.
LEMMA LeastAgeIs ==
    ASSUME NEW old \in Nat
    PROVE  LeastAge(old) \in Nat /\ old <= Seconds(LeastAge(old)) + Seconds(Slack)
<1> DEFINE n == Floor(old) + 1 - Slack
<1>1. /\ Second \in Nat \ {0} /\ Slack \in Nat /\ Floor(old) \in Int
      /\ old < Floor(old) * Second + Second
  BY Quotient, FreshnessAssumption DEF Floor
<1>2. n * Second = Floor(old) * Second + Second - Slack * Second
  BY <1>1
<1>3. LeastAge(old) \in Nat /\ LeastAge(old) >= n
  BY <1>1 DEF LeastAge, larger
<1>4. LeastAge(old) * Second >= n * Second
  BY <1>1, <1>3
<1> QED  BY <1>1, <1>2, <1>3, <1>4, SecondsIs DEF Seconds

\* What the upstream sends, and how old it was when it left.
LEMMA ArrivalIs ==
    ASSUME NEW start \in Int, NEW m \in Arrivals(start)
    PROVE  /\ m.made \in Int
           /\ m.date \in Int \cup {None}
           /\ m.age \in Nat \cup {None}
           /\ m.age # None => start - m.made <= Seconds(m.age) + Seconds(Slack)
<1>1. PICK old \in Olds :
         /\ m.made = start - old
         /\ m.date \in {None} \cup {HttpDate(start - old) + Seconds(k) : k \in Skews}
         /\ m.age \in {None, LeastAge(old)}
  BY DEF Arrivals
<1>2. old \in Nat /\ start - old \in Int
  BY FreshnessAssumption
<1>3. \A k \in Skews : HttpDate(start - old) + Seconds(k) \in Int
  BY <1>2, HttpDateIs, SecondsIs, FreshnessAssumption
<1>4. LeastAge(old) \in Nat /\ old <= Seconds(LeastAge(old)) + Seconds(Slack)
  BY <1>2, LeastAgeIs
<1> QED  BY <1>1, <1>2, <1>3, <1>4

\* A header as it came is one.
LEMMA ReceivedTyped ==
    ASSUME NEW a \in Answers, NEW start \in Int, NEW m \in Arrivals(start), now \in Int,
           NEW auth \in BOOLEAN, NEW c \in Clients, NEW method \in {"GET", "HEAD"}
    PROVE  LET h == Received(a, m, auth, c, method) IN
           /\ h \in Header
           /\ method = "GET" /\ h.date # None /\ h.age # None =>
                 start - h.since <= Seconds(h.age) + Seconds(Slack)
           /\ method = "HEAD" => AgeBound(h)
<1> DEFINE h == Received(a, m, auth, c, method)
<1>1. /\ a \in Answer /\ m.made \in Int /\ m.date \in Int \cup {None}
      /\ m.age \in Nat \cup {None}
      /\ m.age # None => start - m.made <= Seconds(m.age) + Seconds(Slack)
  BY ArrivalIs, FreshnessAssumption
<1>2. h \in Header
  BY <1>1 DEF Received, Header
<1>3. method = "GET" /\ h.date # None /\ h.age # None =>
         start - h.since <= Seconds(h.age) + Seconds(Slack)
  BY <1>1 DEF Received
<1>4. ASSUME method = "HEAD" PROVE AgeBound(h)
  <2>1. h.proxyDate = None /\ h.age = m.age /\ h.date = m.date
    BY DEF Received
  <2>2. h.date # None => h.since = h.date
    BY <1>4 DEF Received
  <2>3. Second \in Nat /\ h.since \in Int
    BY <1>2, FreshnessAssumption DEF Header
  <2> HIDE DEF h
  <2> QED  BY <1>1, <2>1, <2>2, <2>3, SecondsIs DEF AgeBound, Ageable
<1> QED  BY <1>2, <1>3, <1>4

\* passUpstream's stamps: what was on the way, and the download, count.
LEMMA StampTyped ==
    ASSUME NEW h \in Header, NEW start \in Int, now \in Int,
           h.date # None /\ h.age # None => start - h.since <= Seconds(h.age) + Seconds(Slack)
    PROVE  Stamp(h, start) \in Header /\ AgeBound(Stamp(h, start))
<1> DEFINE g == Stamp(h, start)
           d == CorrectedAge(h.date, h.age, start)
<1>1. /\ h.date \in Int \cup {None} /\ h.age \in Nat \cup {None} /\ h.since \in Int
      /\ HttpDate(now) \in Int /\ HttpDate(now) <= now /\ Second \in Nat
      /\ HttpDate(now) # None
  BY HttpDateIs, FreshnessAssumption DEF Header
<1>2. CASE h.date # None /\ h.age # None
  <2>1. d \in Int /\ d >= 0 /\ d >= Seconds(h.age) + now - start
    BY <1>1, <1>2, CorrectedAgeIs, Zenon
  <2> HIDE DEF d
  <2>2. Ceil(d) \in Nat /\ d <= Seconds(Ceil(d))
    BY <2>1, CeilIs
  <2>3. g = [answer |-> h.answer, date |-> h.date, age |-> Ceil(d), proxyDate |-> HttpDate(now),
             fields |-> h.fields, since |-> h.since, auth |-> h.auth, by |-> h.by,
             method |-> h.method]
    BY <1>2 DEF Stamp, d
  <2>4. g \in Header
    BY <1>1, <2>2, <2>3 DEF Header
  <2>5. HttpDate(now) - h.since <= Seconds(Ceil(d)) + Seconds(Slack)
    BY <1>1, <1>2, <2>1, <2>2, SecondsIs
  <2>6. AgeBound(g)
    <3>1. /\ g.proxyDate = HttpDate(now) /\ g.since = h.since /\ g.age = Ceil(d)
      BY <2>3
    <3> HIDE DEF g
    <3>2. Ceil(d) # None
      BY <2>2, FreshnessAssumption
    <3> QED  BY <1>1, <2>2, <2>5, <3>1, <3>2, SecondsIs DEF AgeBound, Ageable
  <2> QED  BY <2>4, <2>6
<1>3. CASE ~(h.date # None /\ h.age # None)
  <2>1. g = [answer |-> h.answer, date |-> h.date, age |-> h.age, proxyDate |-> HttpDate(now),
             fields |-> h.fields, since |-> now, auth |-> h.auth, by |-> h.by,
             method |-> h.method]
    BY <1>3 DEF Stamp
  <2>2. g \in Header
    BY <1>1, <2>1 DEF Header
  <2>3. AgeBound(g)
    <3>1. g.proxyDate = HttpDate(now) /\ g.since = now /\ g.age = h.age
      BY <2>1
    <3> HIDE DEF g
    <3> QED  BY <1>1, <3>1, SecondsIs DEF AgeBound, Ageable
  <2> QED  BY <2>2, <2>3
<1> QED  BY <1>2, <1>3

\* RemovePrivateHeaders leaves the dates and the Age alone.
LEMMA RemovedTyped ==
    ASSUME NEW h \in Header, AgeBound(h), NEW cc
    PROVE  RemovePrivateHeaders(h, cc) \in Header /\ AgeBound(RemovePrivateHeaders(h, cc))
<1> DEFINE g == [h EXCEPT !.fields = FALSE]
<1>1. /\ g \in Header /\ g.proxyDate = h.proxyDate /\ g.date = h.date /\ g.age = h.age
      /\ g.since = h.since
  BY Zenon DEF Header
<1> HIDE DEF g
<1>2. AgeBound(g)
  BY <1>1 DEF AgeBound, Ageable
<1> QED  BY <1>1, <1>2 DEF RemovePrivateHeaders, g

\* The header that a 304 leaves: the time the validation took counts, but for the
\* rounding of its Age.
LEMMA MergedTyped ==
    ASSUME NEW h \in Header, NEW a \in Answers, NEW start \in Int, NEW m \in Arrivals(start),
           now \in Int, NEW c \in Clients, client[c].auth \in BOOLEAN
    PROVE  LET g == ApplyValidationResponse(h, a, m, start, c) IN
           g \in Header /\ AgeBound(g) /\ Ageable(g)
<1> DEFINE g == ApplyValidationResponse(h, a, m, start, c)
           date == IF m.date # None THEN m.date ELSE HttpDate(now)
           ans == [h.answer EXCEPT
                       !.cc = IF a.cc # NoCacheControl THEN a.cc ELSE h.answer.cc,
                       !.expires = IF a.expires # None THEN a.expires ELSE h.answer.expires,
                       !.authorization = h.answer.authorization \/ a.authorization]
           d == CorrectedAge(date, m.age, start)
           age == IF m.age # None THEN Round(d) ELSE None
           since == IF m.age # None THEN m.made ELSE now
<1>1. a \in Answer /\ h.answer \in Answer
  BY FreshnessAssumption DEF Header
<1>2. ans \in Answer
  BY <1>1, Zenon DEF Answer
<1>3. g = [answer |-> ans, date |-> date, age |-> age, proxyDate |-> HttpDate(now),
           fields |-> TRUE, since |-> since, auth |-> client[c].auth, by |-> c, method |-> "GET"]
  BY DEF ApplyValidationResponse
<1> HIDE DEF ans, g
<1>4. /\ m.made \in Int /\ m.date \in Int \cup {None} /\ m.age \in Nat \cup {None}
      /\ m.age # None => start - m.made <= Seconds(m.age) + Seconds(Slack)
      /\ HttpDate(now) \in Int /\ HttpDate(now) <= now /\ HttpDate(now) # None
      /\ Second \in Nat
  BY ArrivalIs, HttpDateIs, FreshnessAssumption
<1>5. date \in Int
  BY <1>4
<1> HIDE DEF date
<1>6. CASE m.age # None
  <2>1. d \in Int /\ d >= 0 /\ d >= Seconds(m.age) + now - start
    BY <1>4, <1>5, <1>6, CorrectedAgeIs, Zenon
  <2> HIDE DEF d
  <2>2. Round(d) \in Nat /\ 2 * d <= 2 * Seconds(Round(d)) + Second /\ Round(d) # None
    BY <2>1, RoundIs, FreshnessAssumption
  <2>3. age = Round(d) /\ since = m.made
    BY <1>6
  <2> HIDE DEF age, since
  <2>4. g \in Header
    BY <1>2, <1>3, <1>4, <1>5, <2>2, <2>3 DEF Header
  <2>5. 2 * (HttpDate(now) - m.made) <= 2 * (Seconds(Round(d)) + Seconds(Slack)) + Second
    BY <1>4, <1>6, <2>1, <2>2, SecondsIs
  <2>6. g.proxyDate = HttpDate(now) /\ g.since = m.made /\ g.age = Round(d)
    BY <1>3, <2>3
  <2>7. AgeBound(g) /\ Ageable(g)
    BY <1>4, <2>2, <2>5, <2>6, SecondsIs DEF AgeBound, Ageable
  <2> QED  BY <2>4, <2>7 DEF g
<1>7. CASE m.age = None
  <2>1. age = None /\ since = now
    BY <1>7
  <2> HIDE DEF age, since
  <2>2. g \in Header
    BY <1>2, <1>3, <1>4, <1>5, <2>1 DEF Header
  <2>3. g.proxyDate = HttpDate(now) /\ g.since = now /\ g.age = None
    BY <1>3, <2>1
  <2>4. AgeBound(g) /\ Ageable(g)
    BY <1>4, <2>3, SecondsIs DEF AgeBound, Ageable
  <2> QED  BY <2>2, <2>4 DEF g
<1> QED  BY <1>4, <1>6, <1>7

\* Requests that begin or end, and fences, keep the types of the clients.
LEMMA BeginTyped ==
    ASSUME NEW auth \in BOOLEAN, NEW pc \in InFlight, NEW res, NEW cc, now \in Int,
           res = None \/ res \in Header, pc = "validate" => res \in Header
    PROVE  ClientTyped(Begin(auth, pc, res, cc))
  BY DEF ClientTyped, Begin
LEMMA DoneTyped ==
    ASSUME NEW c \in Clients PROVE ClientTyped(Done(c))
  BY DEF ClientTyped, Done
LEMMA FencesTyped ==
    ASSUME NEW d \in Clients, ClientOK(client[d]), ClientTyped(client[d])
    PROVE  ClientTyped(Fence(client)[d]) /\ ClientTyped(Fence(Bar(client))[d])
<1>1. ClientShaped(client[d])
  BY DEF ClientOK
<1>2. ClientTyped(Fence(client)[d])
  BY <1>1, FenceEffect DEF ClientTyped
<1>3. ClientShaped(Bar(client)[d]) /\ ClientTyped(Bar(client)[d])
  BY <1>1, BarEffect DEF ClientTyped
<1>4. ClientTyped(Fence(Bar(client))[d])
  BY <1>3, FenceEffect DEF ClientTyped
<1> QED  BY <1>2, <1>4
LEMMA OneTyped ==
    ASSUME NEW cl, cl = [d \in Clients |-> cl[d]], \A d \in Clients : ClientTyped(cl[d]),
           NEW c \in Clients, NEW r, ClientTyped(r), client' = [cl EXCEPT ![c] = r]
    PROVE  \A d \in Clients : ClientTyped(client'[d])
<1>1. client'[c] = r /\ \A d \in Clients \ {c} : client'[d] = cl[d]
  OBVIOUS
<1> QED  BY <1>1

\* No step gives a request fields of another type.
LEMMA ClientsStayTyped ==
    ASSUME IInv, AInv, [Next]_vars
    PROVE  \A d \in Clients : ClientTyped(client'[d])
<1>1. /\ client = [d \in Clients |-> client[d]] /\ \A d \in Clients : ClientTyped(client[d])
      /\ \A d \in Clients : ClientOK(client[d])
      /\ now \in Int /\ (entry # None => entry \in Header)
  BY FreshnessAssumption DEF IInv, AInv
<1>2. /\ Fence(client) = [d \in Clients |-> Fence(client)[d]]
      /\ \A d \in Clients : ClientTyped(Fence(client)[d])
  BY <1>1, FencesTyped, Zenon DEF Fence
<1>3. /\ Fence(Bar(client)) = [d \in Clients |-> Fence(Bar(client))[d]]
      /\ \A d \in Clients : ClientTyped(Fence(Bar(client))[d])
  BY <1>1, FencesTyped, Zenon DEF Fence
<1>4. \A c \in Clients : client[c].auth \in BOOLEAN
  BY <1>1 DEF ClientTyped
<1>5. \A auth \in BOOLEAN : /\ ClientTyped(Begin(auth, "head", None, None))
                            /\ ClientTyped(Fetch(auth))
  BY <1>1, BeginTyped DEF Fetch, InFlight
<1>6. ASSUME NEW c \in Clients, NEW r, ClientTyped(r),
             \/ client' = [client EXCEPT ![c] = r]
             \/ client' = [Fence(client) EXCEPT ![c] = r]
             \/ client' = [Fence(Bar(client)) EXCEPT ![c] = r]
      PROVE  \A d \in Clients : ClientTyped(client'[d])
  <2>1. CASE client' = [client EXCEPT ![c] = r]
    BY <1>1, <1>6, <2>1, OneTyped
  <2>2. CASE client' = [Fence(client) EXCEPT ![c] = r]
    BY <1>2, <1>6, <2>2, OneTyped
  <2>3. CASE client' = [Fence(Bar(client)) EXCEPT ![c] = r]
    BY <1>3, <1>6, <2>3, OneTyped
  <2> QED  BY <1>6, <2>1, <2>2, <2>3
<1>7. CASE \E c \in Clients : Arrive(c)
  <2>1. PICK c \in Clients, q \in Requests :
           Pipe(c, q) \/ Miss(c, q) \/ Reuse(c, q) \/ Revalidate(c, q)
    BY <1>7 DEF Arrive
  <2>2. q.auth \in BOOLEAN
    BY FreshnessAssumption DEF Request
  <2>3. CASE Pipe(c, q)
    BY <1>5, <1>6, <2>2, <2>3, Zenon DEF Pipe
  <2>4. CASE Miss(c, q)
    <3>1. CASE q.onlyIfCached  BY <1>1, <2>4, <3>1 DEF Miss
    <3>2. CASE ~q.onlyIfCached  BY <1>5, <1>6, <2>2, <2>4, <3>2, Zenon DEF Miss
    <3> QED  BY <3>1, <3>2
  <2>5. CASE Reuse(c, q)
    BY <1>1, <2>5 DEF Reuse
  <2>6. CASE Revalidate(c, q)
    <3>1. CASE q.onlyIfCached  BY <1>1, <2>6, <3>1 DEF Revalidate
    <3>2. CASE ~q.onlyIfCached
      <4> DEFINE cc == IF marked THEN None ELSE entry.answer.cc
                 v == Begin(q.auth, "validate", entry, cc)
                 r == IF HasValidators(entry) THEN v ELSE Fetch(q.auth)
      <4>1. client' = [Fence(client) EXCEPT ![c] = r] /\ entry # None
        BY <2>6, <3>2 DEF Revalidate
      <4> HIDE DEF cc
      <4>2. ClientTyped(v)
        BY <1>1, <2>2, <4>1, BeginTyped DEF InFlight
      <4> HIDE DEF v
      <4>3. ClientTyped(r)
        BY <1>5, <2>2, <4>2
      <4> HIDE DEF r
      <4> QED  BY <1>6, <4>1, <4>3, Zenon
    <3> QED  BY <3>1, <3>2
  <2> QED  BY <2>1, <2>3, <2>4, <2>5, <2>6
<1>8. CASE \E c \in Clients : Answered(c) \/ Freshen(c) \/ HeadAnswered(c)
  BY <1>6, <1>8, DoneTyped DEF Answered, Freshen, HeadAnswered
<1>9. CASE \E c \in Clients : Withdraw(c) \/ ValidationFails(c)
  BY <1>4, <1>5, <1>6, <1>9 DEF Withdraw, ValidationFails, Refetch
<1>10. CASE Invalidate \/ Remove \/ Tick \/ UNCHANGED vars
  BY <1>1, <1>2, <1>10 DEF Invalidate, Remove, Tick, vars
<1> QED  BY <1>7, <1>8, <1>9, <1>10 DEF Next

\* A header put into the cache accounts for the time since its origin made it.
LEMMA EntryStaysBound ==
    ASSUME IInv, AInv, [Next]_vars, entry' # None
    PROVE  entry' \in Header /\ AgeBound(entry')
<1>1. /\ now \in Int /\ (entry # None => entry \in Header /\ AgeBound(entry))
      /\ \A c \in Clients : client[c].auth \in BOOLEAN /\ client[c].start \in Int
  BY FreshnessAssumption DEF AInv, ClientTyped
<1>2. CASE UNCHANGED entry
  BY <1>1, <1>2
<1>3. ASSUME NEW c \in Clients, entry' \in Storable(c)
      PROVE  entry' \in Header /\ AgeBound(entry')
  <2> DEFINE start == client[c].start
             auth == client[c].auth
  <2>1. PICK a \in Answers, m \in Arrivals(start) :
           LET h == Received(a, m, auth, c, "GET") IN
           entry' = RemovePrivateHeaders(Stamp(h, start), h.answer.cc)
    BY <1>3 DEF Storable
  <2> DEFINE h == Received(a, m, auth, c, "GET")
  <2>2. /\ h \in Header
        /\ h.date # None /\ h.age # None => start - h.since <= Seconds(h.age) + Seconds(Slack)
    BY <1>1, ReceivedTyped
  <2>3. entry' = RemovePrivateHeaders(Stamp(h, start), h.answer.cc)
    BY <2>1
  <2> HIDE DEF h
  <2>4. Stamp(h, start) \in Header /\ AgeBound(Stamp(h, start))
    BY <1>1, <2>2, StampTyped
  <2> QED  BY <2>3, <2>4, RemovedTyped
<1>4. ASSUME NEW c \in Clients, Freshen(c)
      PROVE  entry' \in Header /\ AgeBound(entry')
  <2>1. PICK a \in Answers, m \in Arrivals(client[c].start) :
           LET h == ApplyValidationResponse(client[c].res, a, m, client[c].start, c) IN
           entry' = RemovePrivateHeaders(h, h.answer.cc)
    BY <1>4 DEF Freshen, Confirmed, ValidatedCacheControl
  <2>2. client[c].res \in Header
    BY <1>4 DEF AInv, ClientTyped, Freshen
  <2> QED  BY <1>1, <2>1, <2>2, MergedTyped, RemovedTyped
<1>5. ASSUME NEW c \in Clients, HeadAnswered(c), ~UNCHANGED entry
      PROVE  entry' \in Header /\ AgeBound(entry')
  <2>1. PICK a \in Answers, m \in Arrivals(client[c].start) :
           entry' = Received(a, m, client[c].auth, c, "HEAD")
    BY <1>5 DEF HeadAnswered
  <2> QED  BY <1>1, <2>1, ReceivedTyped
<1>6. CASE \E c \in Clients : Answered(c)
  BY <1>2, <1>3, <1>6 DEF Answered
<1> QED  BY <1>2, <1>4, <1>5, <1>6 DEF Next, Arrive, Withdraw, ValidationFails, Refetch,
            Invalidate, Remove, Tick, vars

\* The rest of the types, and the beginning.
LEMMA AgesKept ==
    ASSUME IInv, AInv, [Next]_vars
    PROVE  AInv'
<1>1. shared' \in BOOLEAN /\ now' \in 0 .. MaxTime
  BY FreshnessAssumption DEF AInv, Next, Arrive, Answered, Withdraw, Freshen, ValidationFails, HeadAnswered,
     Invalidate, Remove, Tick, vars
<1>2. marked' \in BOOLEAN
  <2>1. marked \in BOOLEAN /\ TRUE \in BOOLEAN /\ FALSE \in BOOLEAN /\ (entry # None) \in BOOLEAN
    BY DEF AInv
  <2>2. CASE \E c \in Clients : Arrive(c)
    BY <2>1, <2>2, Zenon DEF Arrive, Pipe, Miss, Reuse, Revalidate
  <2>3. CASE \E c \in Clients : Answered(c) \/ Freshen(c) \/ HeadAnswered(c)
    <3>1. ASSUME NEW c \in Clients, Answered(c) PROVE marked' = marked \/ marked' = FALSE
      BY <3>1 DEF Answered
    <3>2. ASSUME NEW c \in Clients, Freshen(c) PROVE marked' = FALSE
      BY <3>2 DEF Freshen
    <3>3. ASSUME NEW c \in Clients, HeadAnswered(c)
          PROVE  marked' = marked \/ marked' = FALSE \/ marked' = TRUE
      BY <3>3 DEF HeadAnswered
    <3> QED  BY <2>1, <2>3, <3>1, <3>2, <3>3, Zenon
  <2>4. CASE \E c \in Clients : Withdraw(c) \/ ValidationFails(c)
    BY <2>1, <2>4, Zenon DEF Withdraw, ValidationFails, Refetch
  <2>5. CASE Invalidate \/ Remove \/ Tick \/ UNCHANGED vars
    BY <2>1, <2>5, Zenon DEF Invalidate, Remove, Tick, vars
  <2> QED  BY <2>2, <2>3, <2>4, <2>5 DEF Next
<1>3. \A d \in Clients : ClientTyped(client'[d])
  BY ClientsStayTyped
<1>4. entry' # None => entry' \in Header /\ AgeBound(entry')
  BY EntryStaysBound
<1> QED  BY <1>1, <1>2, <1>3, <1>4 DEF AInv

LEMMA AgesInit == Init => AInv
<1> SUFFICES ASSUME Init PROVE AInv
  OBVIOUS
<1>1. /\ shared \in BOOLEAN /\ marked \in BOOLEAN /\ now \in 0 .. MaxTime /\ now = 0
      /\ \A c \in Clients : ClientTyped(client[c])
  <2>1. ClientTyped(NewClient)
    BY DEF ClientTyped, NewClient
  <2>2. FALSE \in BOOLEAN
    OBVIOUS
  <2>3. shared \in BOOLEAN /\ marked = FALSE /\ now = 0 /\ client = [c \in Clients |-> NewClient]
    BY DEF Init
  <2>4. 0 \in 0 .. MaxTime
    BY FreshnessAssumption
  <2> QED  BY <2>1, <2>2, <2>3, <2>4, Zenon
<1>2. ASSUME entry # None PROVE entry \in Header /\ AgeBound(entry)
  <2>1. PICK a \in Answers, auth \in {q.auth : q \in Requests} :
             entry = RemovePrivateHeaders(Stamp(Earlier(a, auth), 0), a.cc)
    BY <1>2 DEF Init
  <2> DEFINE h == Earlier(a, auth)
  <2>2. a \in Answer /\ auth \in BOOLEAN
    BY FreshnessAssumption DEF Request
  <2>3. h = [answer |-> a, date |-> 0, age |-> None, proxyDate |-> None, fields |-> TRUE,
             since |-> 0, auth |-> auth, by |-> None, method |-> "GET"]
    BY <1>1 DEF Earlier, Received
  <2>4. entry = RemovePrivateHeaders(Stamp(h, 0), a.cc)
    BY <2>1
  <2> HIDE DEF h
  <2>5. h \in Header /\ h.age = None
    BY <2>2, <2>3 DEF Header
  <2>6. Stamp(h, 0) \in Header /\ AgeBound(Stamp(h, 0))
    BY <1>1, <2>5, StampTyped
  <2> QED  BY <2>4, <2>6, RemovedTyped
<1> QED  BY <1>1, <1>2 DEF AInv

\* Types, and of every stored header what its dates and its Age leave out.
THEOREM AgeInvariant == Spec => []AInv
<1>1. AInv /\ IInv /\ [Next]_vars => AInv'
  BY AgesKept
<1> QED  BY <1>1, AgesInit, FreshnessInvariant, PTL DEF Spec

\* Every state is of its type: no Age that is stored is negative.
THEOREM TypeCorrect == Spec => []TypeOK
<1>1. AInv => TypeOK
  BY DEF AInv, TypeOK, ClientTyped
<1> QED  BY <1>1, AgeInvariant, PTL
-----------------------------------------------------------------------------
\* The Age of a header that has one, and what it may fall short by.
LEMMA AgeIs ==
    ASSUME NEW h \in Header, Ageable(h), AgeBound(h), now \in Int
    PROVE  /\ Age(h) \in Int /\ h.since \in Int
           /\ 2 * (now - h.since) <= 2 * (Age(h) + Seconds(Slack)) + Second
<1>1. /\ h.proxyDate \in Int \cup {None} /\ h.date \in Int \cup {None}
      /\ h.age \in Nat \cup {None} /\ h.since \in Int /\ Second \in Nat
  BY FreshnessAssumption DEF Header
<1> DEFINE base == IF h.proxyDate # None THEN h.proxyDate ELSE h.date
           age == IF h.age # None THEN Seconds(h.age) ELSE 0
<1>2. base \in Int /\ age \in Int
  BY <1>1, SecondsIs DEF Ageable
<1>3. Age(h) = now - base + age
  BY DEF Age
<1>4. 2 * (base - h.since) <= 2 * (age + Seconds(Slack)) + Second
  BY DEF AgeBound
<1> HIDE DEF base, age
<1> QED  BY <1>1, <1>2, <1>3, <1>4, SecondsIs

\* The Age sent with it.
LEMMA ServedAgeCovers ==
    ASSUME NEW h \in Header, Ageable(h), AgeBound(h), now \in Int
    PROVE  Within(now - h.since, Seconds(ServedAge(h) + 1))
<1>1. /\ Age(h) \in Int /\ h.since \in Int
      /\ 2 * (now - h.since) <= 2 * (Age(h) + Seconds(Slack)) + Second
  BY AgeIs
<1>2. Floor(Age(h)) \in Int /\ Age(h) < Seconds(Floor(Age(h)) + 1)
  BY <1>1, FloorIs
<1>3. Seconds(Floor(Age(h)) + 1) \in Int /\ Second \in Nat
  BY <1>2, SecondsIs, FreshnessAssumption
<1> QED  BY <1>1, <1>2, <1>3, SecondsIs DEF Within, ServedAge

\* serveResource sends an Age that covers the time since the origin spoke.
LEMMA AgeCoversKept ==
    ASSUME IInv, AInv, AgeCovers, [Next]_vars
    PROVE  AgeCovers'
<1>1. /\ now \in Int /\ (entry # None => entry \in Header /\ AgeBound(entry))
  BY FreshnessAssumption DEF AInv
<1>2. CASE served' = None
  BY <1>2 DEF AgeCovers
<1>3. CASE UNCHANGED vars
  BY <1>3 DEF AgeCovers, vars, Within
<1>4. ASSUME NEW c \in Clients, NEW q \in Requests, Reuse(c, q), now' = now
      PROVE  AgeCovers'
  <2>1. /\ served'.res = entry /\ served'.age = ServedAge(entry) /\ entry # None
        /\ Ageable(entry)
    BY <1>4 DEF Reuse, NeedsValidation
  <2>2. Within(now - entry.since, Seconds(ServedAge(entry) + 1))
    BY <1>1, <2>1, ServedAgeCovers
  <2> QED  BY <1>4, <2>1, <2>2 DEF AgeCovers, Within
<1>5. ASSUME NEW c \in Clients, Freshen(c)
      PROVE  AgeCovers'
  <2>1. /\ served'.res = entry' /\ served'.age = ServedAge(entry') /\ now' = now
    BY <1>5 DEF Freshen
  <2>2. PICK a \in Answers, m \in Arrivals(client[c].start) :
           LET h == ApplyValidationResponse(client[c].res, a, m, client[c].start, c) IN
           entry' = RemovePrivateHeaders(h, h.answer.cc)
    BY <1>5 DEF Freshen, Confirmed, ValidatedCacheControl
  <2> DEFINE h == ApplyValidationResponse(client[c].res, a, m, client[c].start, c)
  <2>3. /\ client[c].res \in Header /\ client[c].auth \in BOOLEAN /\ client[c].start \in Int
    BY <1>5 DEF AInv, ClientTyped, Freshen
  <2>4. h \in Header /\ AgeBound(h) /\ Ageable(h)
    BY <1>1, <2>3, MergedTyped
  <2>5. entry' = RemovePrivateHeaders(h, h.answer.cc)
    BY <2>2
  <2> HIDE DEF h
  <2>6. entry' \in Header /\ AgeBound(entry') /\ Ageable(entry')
    BY <2>4, <2>5, RemovedTyped DEF RemovePrivateHeaders, Ageable, Header
  <2>7. Within(now - entry'.since, Seconds(ServedAge(entry') + 1))
    BY <1>1, <2>6, ServedAgeCovers
  <2> QED  BY <2>1, <2>7 DEF AgeCovers, Within
<1>6. CASE \E c \in Clients : Arrive(c)
  BY <1>2, <1>4, <1>6 DEF Arrive, Pipe, Miss, Revalidate
<1> QED  BY <1>2, <1>3, <1>5, <1>6 DEF Next, Answered, Withdraw, ValidationFails, Refetch,
            HeadAnswered, Invalidate, Remove, Tick

\* The Age sent with a stored response covers the time since its origin made or
\* confirmed it, for any clocks, delays and upstream caches.
THEOREM AgesCover == Spec => []AgeCovers
<1>1. Init => AgeCovers
  BY DEF Init, AgeCovers
<1>2. AgeCovers /\ AInv /\ IInv /\ [Next]_vars => AgeCovers'
  BY AgeCoversKept
<1> QED  BY <1>1, <1>2, AgeInvariant, FreshnessInvariant, PTL DEF Spec

\* MaxAge and HeuristicFreshness are times, and only one of them is not 0.
LEMMA LifetimeIs ==
    ASSUME NEW h \in Header, now \in Int
    PROVE  LET cc == h.answer.cc IN
           /\ MaxAge(h, cc, now) \in Int /\ HeuristicFreshness(h, cc, now) \in Int
           /\ HasExplicitExpiration(h, cc) => HeuristicFreshness(h, cc, now) = 0
           /\ ~HasExplicitExpiration(h, cc) => MaxAge(h, cc, now) = 0
<1> DEFINE cc == h.answer.cc
<1>1. /\ cc.maxAge \in Nat \cup {None} /\ cc.sMaxAge \in Nat \cup {None}
      /\ h.answer.expires \in Int \cup {None, Invalid} /\ h.answer.lastMod \in Int \cup {None}
      /\ h.date \in Int \cup {None} /\ h.proxyDate \in Int \cup {None}
  BY DEF Header, Answer, CacheControl
<1>2. MaxAge(h, cc, now) \in Int
  BY <1>1, SecondsIs DEF MaxAge
<1>3. ~HasExplicitExpiration(h, cc) => MaxAge(h, cc, now) = 0
  BY DEF MaxAge, HasExplicitExpiration
<1>4. HeuristicFreshness(h, cc, now) \in Int
  BY <1>1, Quotient, FreshnessAssumption DEF HeuristicFreshness
<1>5. HasExplicitExpiration(h, cc) => HeuristicFreshness(h, cc, now) = 0
  BY DEF HeuristicFreshness
<1> QED  BY <1>2, <1>3, <1>4, <1>5

\* What needsValidation lets through is within what was granted, by the age the cache
\* reckons.
LEMMA ReuseWithin ==
    ASSUME NEW h \in Header, NEW q \in Request, Ageable(h), AgeBound(h), now \in Int,
           ~NeedsValidation(h, h.answer.cc, q, FALSE)
    PROVE  FreshEnough(h, q)
<1> DEFINE cc == h.answer.cc
           ma == MaxAge(h, cc, now)
           hf == HeuristicFreshness(h, cc, now)
           f == FreshFor(h, cc, q)
           granted == IF HasExplicitExpiration(h, cc) /\ q.maxAge # None
                      THEN smaller(Lifetime(h), Seconds(q.maxAge)) ELSE Lifetime(h)
<1>1. /\ Age(h) \in Int /\ h.since \in Int /\ Second \in Nat
      /\ 2 * (now - h.since) <= 2 * (Age(h) + Seconds(Slack)) + Second
  BY AgeIs, FreshnessAssumption
<1>2. /\ ma \in Int /\ hf \in Int /\ (HasExplicitExpiration(h, cc) => hf = 0)
      /\ (~HasExplicitExpiration(h, cc) => ma = 0)
  BY LifetimeIs
<1>3. /\ q.maxAge # None => Seconds(q.maxAge) \in Nat
      /\ q.minFresh # None => Seconds(q.minFresh) \in Nat
      /\ q.maxStale \notin {None, Invalid} => Seconds(q.maxStale) \in Nat
  BY SecondsIs DEF Request
<1>4. Lifetime(h) = larger(ma, hf)
  BY DEF Lifetime
<1>5. f = larger(IF q.maxAge # None THEN smaller(Seconds(q.maxAge), ma) ELSE ma, hf) - Age(h)
  BY DEF FreshFor
<1>6. /\ ~(f <= 0 /\ MustValidate(cc))
      /\ q.minFresh # None => ~(f < Seconds(q.minFresh))
      /\ f <= 0 => q.maxStale = Invalid \/ (q.maxStale # None /\ Seconds(q.maxStale) >= -f)
  BY DEF NeedsValidation
<1> HIDE DEF ma, hf, f, cc
<1>7. granted \in Int /\ f \in Int /\ f = granted - Age(h)
  BY <1>1, <1>2, <1>3, <1>4, <1>5 DEF larger, smaller
<1> HIDE DEF granted
<1>8. f > 0 => Within(now - h.since, granted)
  BY <1>1, <1>7, SecondsIs DEF Within
<1>9. q.minFresh # None => Within(now - h.since + Seconds(q.minFresh), granted + 1)
  BY <1>1, <1>3, <1>6, <1>7, SecondsIs DEF Within
<1>10. f <= 0 /\ q.maxStale \notin {None, Invalid} =>
           Within(now - h.since, granted + Seconds(q.maxStale) + 1)
  BY <1>1, <1>3, <1>6, <1>7, SecondsIs DEF Within
<1>11. f > 0 \/ f <= 0
  BY <1>7
<1> DEFINE late == IF MustValidate(cc) THEN None ELSE q.maxStale
<1>12. \/ Within(now - h.since, granted)
       \/ late = Invalid
       \/ late \notin {None, Invalid} /\ Within(now - h.since, granted + Seconds(late) + 1)
  BY <1>6, <1>8, <1>10, <1>11
<1> QED  BY <1>9, <1>12 DEF FreshEnough, granted, cc

\* It depends on the clock and on Handler.Shared alone.
LEMMA FreshEnoughKept ==
    ASSUME NEW h, NEW q, UNCHANGED <<now, shared>>, FreshEnough(h, q)
    PROVE  FreshEnough(h, q)'
  BY DEF FreshEnough, Within, Lifetime, MaxAge, HeuristicFreshness, HasExplicitExpiration,
     MustValidate

\* A stored response is reused only within what its origin and the client allow, by
\* the time since the origin spoke.
LEMMA ReuseFreshKept ==
    ASSUME AInv, ReuseFresh, [Next]_vars
    PROVE  ReuseFresh'
<1>1. CASE served' = None
  BY <1>1 DEF ReuseFresh
<1>2. CASE UNCHANGED vars
  BY <1>2, FreshEnoughKept DEF ReuseFresh, vars
<1>3. ASSUME NEW c \in Clients, Freshen(c)
      PROVE  ReuseFresh'
  BY <1>3 DEF Freshen, ReuseFresh
<1>4. ASSUME NEW c \in Clients, NEW q \in Requests, Reuse(c, q), now' = now, shared' = shared
      PROVE  ReuseFresh'
  <2>1. /\ served'.res = entry /\ served'.q = q /\ entry # None /\ Ageable(entry)
        /\ ~NeedsValidation(entry, entry.answer.cc, q, FALSE)
    BY <1>4 DEF Reuse, NeedsValidation
  <2>2. q \in Request /\ entry \in Header /\ AgeBound(entry) /\ now \in Int
    BY <2>1, FreshnessAssumption DEF AInv
  <2>3. FreshEnough(entry, q)
    BY <2>1, <2>2, ReuseWithin, Zenon
  <2> QED  BY <1>4, <2>1, <2>3, FreshEnoughKept DEF ReuseFresh
<1>5. CASE \E c \in Clients : Arrive(c)
  BY <1>1, <1>4, <1>5 DEF Arrive, Pipe, Miss, Revalidate
<1> QED  BY <1>1, <1>2, <1>3, <1>5 DEF Next, Answered, Withdraw, ValidationFails, Refetch,
            HeadAnswered, Invalidate, Remove, Tick

\* Reuse without asking the upstream stays within the lifetime the origin grants, or
\* the client's max-stale where the response may go stale.
THEOREM ReusesFresh == Spec => []ReuseFresh
<1>1. Init => ReuseFresh
  BY DEF Init, ReuseFresh
<1>2. ReuseFresh /\ AInv /\ [Next]_vars => ReuseFresh'
  BY ReuseFreshKept
<1> QED  BY <1>1, <1>2, AgeInvariant, PTL DEF Spec
=============================================================================
