-------------------------- MODULE LocalPublication --------------------------
(***************************************************************************)
(* How the handler orders invalidations itself when its cache cannot       *)
(* (src/handler_publication.go and the local markers of src/handler.go):   *)
(* a third-party Cache offers Store, Freshen and Retrieve and keeps no     *)
(* invalidation times.  The handler records when it invalidated a key, and *)
(* a proof of when the request behind the stored entry began; overlapping  *)
(* publications leave no proof.                                            *)
(*                                                                         *)
(* The cache is external: a write lands some time between the call and the *)
(* return of Store, also of one that fails, and Freshen refuses an entry   *)
(* that is no longer the validated one.  Bodies are versions of the        *)
(* origin, as in module Invalidation.                                      *)
(***************************************************************************)
EXTENDS Naturals, FiniteSets

CONSTANTS
    Keys, Base,   \* the keys of a resource; Base names its Vary variants
    Writers,      \* requests that fetch or validate, then publish
    Recorders,    \* calls of recordStale
    Readers,      \* lookups
    MaxTime,      \* bound on the clock
    MaxVersion,   \* bound on the mutations of the origin
    MarkerTTL     \* staleMarkerTTL

ASSUME LocalAssumption ==
    /\ Base \in Keys
    /\ IsFiniteSet(Keys) /\ IsFiniteSet(Writers) /\ IsFiniteSet(Readers)
    /\ MaxTime \in Nat /\ MaxVersion \in Nat /\ MarkerTTL \in Nat

VARIABLES
    now, origin,
    entry,         \* key -> the version in the cache, 0 for none
    localStale,    \* key -> when it was invalidated, 0 for no marker
    localFresh,    \* key -> its proof
    publications,  \* key -> localPublications
    writer, recorder, reader,
    promised       \* history: key -> origin version when its marker was recorded;
                   \* it lapses, also for lookups under way, with the marker's retention
                   \* and when an overlapping call moves the marker back

vars == <<now, origin, entry, localStale, localFresh, publications,
          writer, recorder, reader, promised>>

\* A proof is a pointer: id is its identity, at the time it vouches for.
ProofIds == 1..(Cardinality(Keys) + Cardinality(Readers) + 1)
NoProof == [id |-> 0, at |-> 0]
Proof == [id: ProofIds, at: Nat] \cup {NoProof}

NoPublication == [active |-> 0, overlap |-> FALSE]

Governing(k) == {Base, k}

\* With variants, the base entry only tells the Vary header and is never served.
Served == IF Keys = {Base} THEN Keys ELSE Keys \ {Base}

Writer == [pc: {"idle", "fetch", "validate", "ready", "publish"}, key: Keys, req: Nat,
           ver: Nat, freshen: BOOLEAN, left: SUBSET Keys]
NoWriter == [pc |-> "idle", key |-> Base, req |-> 0, ver |-> 0, freshen |-> FALSE, left |-> {}]

Recorder == [pc: {"idle", "clocked"}, keys: SUBSET Keys, at: Nat, ver: Nat]
NoRecorder == [pc |-> "idle", keys |-> {}, at |-> 0, ver |-> 0]

Reader == [pc: {"idle", "before", "got", "after", "own", "done"}, key: Keys, proof: Proof,
           idle: BOOLEAN, ver: Nat, at: Nat, stale: BOOLEAN, floor: [Keys -> Nat]]
NoReader == [pc |-> "idle", key |-> Base, proof |-> NoProof, idle |-> FALSE, ver |-> 0,
             at |-> 0, stale |-> FALSE, floor |-> [k \in Keys |-> 0]]

TypeOK ==
    /\ now \in Nat /\ origin \in Nat
    /\ entry \in [Keys -> Nat]
    /\ localStale \in [Keys -> Nat]
    /\ localFresh \in [Keys -> Proof]
    /\ publications \in [Keys -> [active: Nat, overlap: BOOLEAN]]
    /\ writer \in [Writers -> Writer]
    /\ recorder \in [Recorders -> Recorder]
    /\ reader \in [Readers -> Reader]
    /\ promised \in [Keys -> Nat]

Init ==
    /\ now = 1 /\ origin = 1
    /\ entry = [k \in Keys |-> 0]
    /\ localStale = [k \in Keys |-> 0]
    /\ localFresh = [k \in Keys |-> NoProof]
    /\ publications = [k \in Keys |-> NoPublication]
    /\ writer = [w \in Writers |-> NoWriter]
    /\ recorder = [m \in Recorders |-> NoRecorder]
    /\ reader = [r \in Readers |-> NoReader]
    /\ promised = [k \in Keys |-> 0]

records == <<localStale, localFresh, publications, promised>>

Tick ==
    /\ now < MaxTime
    /\ now' = now + 1
    /\ UNCHANGED <<origin, entry, records, writer, recorder, reader>>

Mutate ==
    /\ origin < MaxVersion
    /\ origin' = origin + 1
    /\ UNCHANGED <<now, entry, records, writer, recorder, reader>>

-----------------------------------------------------------------------------
(***************************************************************************)
(* Requests.                                                               *)
(***************************************************************************)
Step(w, rec) == writer' = [writer EXCEPT ![w] = rec]

FetchStart(w, k) ==
    /\ writer[w].pc = "idle"
    /\ Step(w, [NoWriter EXCEPT !.pc = "fetch", !.key = k, !.req = now])
    /\ UNCHANGED <<now, origin, entry, records, recorder, reader>>

ValidateStart(w, k) ==
    /\ writer[w].pc = "idle"
    /\ entry[k] > 0
    /\ Step(w, [NoWriter EXCEPT !.pc = "validate", !.key = k, !.req = now, !.ver = entry[k]])
    /\ UNCHANGED <<now, origin, entry, records, recorder, reader>>

\* A validation answered with 304 freshens, any other answer is stored.
Answer(w) ==
    /\ writer[w].pc \in {"fetch", "validate"}
    /\ Step(w, [writer[w] EXCEPT
          !.pc = "ready", !.ver = origin,
          !.freshen = writer[w].pc = "validate" /\ writer[w].ver = origin])
    /\ UNCHANGED <<now, origin, entry, records, recorder, reader>>

PublishKeys(w) == Governing(writer[w].key)

beginLocalPublication(w) ==
    /\ writer[w].pc = "ready"
    /\ publications' = [k \in Keys |->
          IF k \notin PublishKeys(w) THEN publications[k]
          ELSE [active |-> publications[k].active + 1,
                overlap |-> publications[k].overlap \/ publications[k].active > 0]]
    /\ localFresh' = [k \in Keys |-> IF k \in PublishKeys(w) THEN NoProof ELSE localFresh[k]]
    /\ Step(w, [writer[w] EXCEPT !.pc = "publish", !.left = PublishKeys(w)])
    /\ UNCHANGED <<now, origin, entry, localStale, promised, recorder, reader>>

\* Store writes its keys one by one.
StoreLands(w, k) ==
    /\ writer[w].pc = "publish" /\ ~writer[w].freshen
    /\ k \in writer[w].left
    /\ entry' = [entry EXCEPT ![k] = writer[w].ver]
    /\ Step(w, [writer[w] EXCEPT !.left = @ \ {k}])
    /\ UNCHANGED <<now, origin, records, recorder, reader>>

\* Freshen renews the metadata of the validated body.  The Freshen of a HEAD that is
\* passed through, and the proof it leaves, are not modelled.
FreshenLands(w) ==
    /\ writer[w].pc = "publish" /\ writer[w].freshen
    /\ entry[writer[w].key] = writer[w].ver
    /\ Step(w, [writer[w] EXCEPT !.left = {}])
    /\ UNCHANGED <<now, origin, entry, records, recorder, reader>>

\* A new object: no reader and no key points to it.
FreshId ==
    CHOOSE i \in ProofIds :
        /\ \A k \in Keys : localFresh[k].id # i
        /\ \A r \in Readers : reader[r].proof.id # i

Expired(at) == at > 0 /\ at + MarkerTTL < now

\* Seeded fault: an overlapped publication leaves its proof.
FinishAlways(w, success) ==
    /\ writer[w].pc = "publish"
    /\ success => writer[w].left = {}
    /\ publications' = [k \in Keys |->
          IF k \notin PublishKeys(w) THEN publications[k]
          ELSE IF publications[k].active = 1 THEN NoPublication
          ELSE [publications[k] EXCEPT !.active = @ - 1]]
    /\ LET proof == [id |-> FreshId, at |-> writer[w].req] IN
       localFresh' = [k \in Keys |->
          IF k \in PublishKeys(w) /\ publications[k].active = 1 /\ success THEN proof
          ELSE IF Expired(localFresh[k].at) THEN NoProof ELSE localFresh[k]]
    /\ Step(w, NoWriter)
    /\ UNCHANGED <<now, origin, entry, localStale, promised, recorder, reader>>

\* The last of the publications of a key leaves a proof if it was the only one.
finishLocalPublication(w, success) ==
    /\ writer[w].pc = "publish"
    /\ success => writer[w].left = {}
    /\ publications' = [k \in Keys |->
          IF k \notin PublishKeys(w) THEN publications[k]
          ELSE IF publications[k].active = 1 THEN NoPublication
          ELSE [publications[k] EXCEPT !.active = @ - 1]]
    /\ LET proof == [id |-> FreshId, at |-> writer[w].req] IN
       localFresh' = [k \in Keys |->
          IF /\ k \in PublishKeys(w) /\ publications[k].active = 1
             /\ success /\ ~publications[k].overlap
          THEN proof
          ELSE IF Expired(localFresh[k].at) THEN NoProof ELSE localFresh[k]]
    /\ Step(w, NoWriter)
    /\ UNCHANGED <<now, origin, entry, localStale, promised, recorder, reader>>

\* The request ends without publishing anything.
Return(w) ==
    /\ writer[w].pc \in {"fetch", "validate", "ready"}
    /\ Step(w, NoWriter)
    /\ UNCHANGED <<now, origin, entry, records, recorder, reader>>

-----------------------------------------------------------------------------
(***************************************************************************)
(* recordStale, for a mutation (the base key), for the fence before a      *)
(* validation (the entry's key) or for a refetch (both): the clock is read *)
(* before localStaleMu is taken, so of two overlapping calls the earlier   *)
(* time may be written last.  The marker then moves back and covers only   *)
(* what that time covers: the promise of the later call lapses.            *)
(***************************************************************************)
RecordClock(m, K) ==
    /\ recorder[m].pc = "idle"
    /\ recorder' = [recorder EXCEPT ![m] = [pc |-> "clocked", keys |-> K, at |-> now, ver |-> origin]]
    /\ UNCHANGED <<now, origin, entry, records, writer, reader>>

\* Markers and proofs past their retention are pruned, then the keys are marked.
RecordMark(m) ==
    /\ recorder[m].pc = "clocked"
    /\ LET rec == recorder[m]
           old(at) == at > 0 /\ at + MarkerTTL < rec.at
           pruned == {k \in Keys \ rec.keys : old(localStale[k])}
           back(k) == k \in rec.keys /\ rec.at < localStale[k]
           kept(p) == [k \in Keys |-> IF k \in pruned THEN 0 ELSE p[k]]
       IN /\ localStale' = [k \in Keys |-> IF k \in rec.keys THEN rec.at ELSE kept(localStale)[k]]
          /\ localFresh' = [k \in Keys |-> IF old(localFresh[k].at) THEN NoProof ELSE localFresh[k]]
          /\ promised' = [k \in Keys |-> IF k \notin rec.keys THEN kept(promised)[k]
                          ELSE IF back(k) \/ rec.ver > promised[k] THEN rec.ver ELSE promised[k]]
          /\ reader' = [r \in Readers |-> [reader[r] EXCEPT !.floor = [k \in Keys |->
                IF back(k) /\ rec.ver < @[k] THEN rec.ver ELSE kept(@)[k]]]]
    /\ recorder' = [recorder EXCEPT ![m] = NoRecorder]
    /\ UNCHANGED <<now, origin, entry, publications, writer>>

-----------------------------------------------------------------------------
(***************************************************************************)
(* A lookup through generationRetriever: the proof before and after the    *)
(* retrieval, then the markers of the entry's key and of its base key.     *)
(***************************************************************************)
Idle(k) == publications[k].active = 0

LookupBefore(r, k) ==
    /\ reader[r].pc = "idle"
    /\ reader' = [reader EXCEPT ![r] = [NoReader EXCEPT
          !.pc = "before", !.key = k, !.proof = localFresh[k], !.idle = Idle(k), !.floor = promised]]
    /\ UNCHANGED <<now, origin, entry, records, writer, recorder>>

LookupRetrieve(r) ==
    /\ reader[r].pc = "before"
    /\ LET ver == entry[reader[r].key] IN
       reader' = [reader EXCEPT ![r] =
          IF ver = 0 THEN NoReader ELSE [reader[r] EXCEPT !.pc = "got", !.ver = ver]]
    /\ UNCHANGED <<now, origin, entry, records, writer, recorder>>

\* Seeded fault: the proof found after the retrieval is believed.
AfterOnly(r) ==
    /\ reader[r].pc = "got"
    /\ reader' = [reader EXCEPT ![r] = [reader[r] EXCEPT
          !.pc = "after", !.proof = NoProof, !.at = localFresh[reader[r].key].at]]
    /\ UNCHANGED <<now, origin, entry, records, writer, recorder>>

LookupAfter(r) ==
    /\ reader[r].pc = "got"
    /\ LET k == reader[r].key
           trusted == /\ reader[r].idle /\ Idle(k)
                      /\ reader[r].proof # NoProof /\ reader[r].proof = localFresh[k]
       IN reader' = [reader EXCEPT ![r] = [reader[r] EXCEPT
             !.pc = "after", !.proof = NoProof,
             !.at = IF trusted THEN reader[r].proof.at ELSE 0]]
    /\ UNCHANGED <<now, origin, entry, records, writer, recorder>>

\* resourceFreshAfter
FreshAfter(r, g) == localStale[g] = 0 \/ reader[r].at > localStale[g]

LookupOwnMarker(r) ==
    /\ reader[r].pc = "after"
    /\ reader' = [reader EXCEPT ![r] = [reader[r] EXCEPT
          !.pc = "own", !.stale = reader[r].key # Base /\ ~FreshAfter(r, reader[r].key)]]
    /\ UNCHANGED <<now, origin, entry, records, writer, recorder>>

\* Seeded fault: a variant is judged by its own marker only.
LookupIgnoresBase(r) ==
    /\ reader[r].pc = "own"
    /\ reader' = [reader EXCEPT ![r] = [reader[r] EXCEPT !.pc = "done", !.at = 0]]
    /\ UNCHANGED <<now, origin, entry, records, writer, recorder>>

LookupBaseMarker(r) ==
    /\ reader[r].pc = "own"
    /\ reader' = [reader EXCEPT ![r] = [reader[r] EXCEPT
          !.pc = "done", !.at = 0, !.stale = reader[r].stale \/ ~FreshAfter(r, Base)]]
    /\ UNCHANGED <<now, origin, entry, records, writer, recorder>>

LookupReturn(r) ==
    /\ reader[r].pc = "done"
    /\ reader' = [reader EXCEPT ![r] = NoReader]
    /\ UNCHANGED <<now, origin, entry, records, writer, recorder>>

-----------------------------------------------------------------------------
WriterStep(w) ==
    \/ \E k \in Served : FetchStart(w, k) \/ ValidateStart(w, k)
    \/ \E k \in Keys : StoreLands(w, k)
    \/ Answer(w) \/ beginLocalPublication(w) \/ FreshenLands(w)
    \/ \E success \in BOOLEAN : finishLocalPublication(w, success)
    \/ Return(w)

RecorderStep(m) ==
    \/ \E k \in Keys : \E K \in {{k}, Governing(k)} : RecordClock(m, K)
    \/ RecordMark(m)

ReaderStep(r) ==
    \/ \E k \in Served : LookupBefore(r, k)
    \/ LookupRetrieve(r) \/ LookupAfter(r)
    \/ LookupOwnMarker(r) \/ LookupBaseMarker(r) \/ LookupReturn(r)

Next ==
    \/ Tick \/ Mutate
    \/ \E w \in Writers : WriterStep(w)
    \/ \E m \in Recorders : RecorderStep(m)
    \/ \E r \in Readers : ReaderStep(r)

Spec == Init /\ [][Next]_vars

-----------------------------------------------------------------------------
\* A lookup never calls fresh a body older than the origin was at the last
\* recordStale of its key or base key that returned before the lookup began,
\* whatever publications overlap with it or with each other; a promise lapses
\* when its marker passes its retention or is moved back.  The proof that freshening
\* with a passed-through HEAD leaves is excepted.
PublicationSound ==
    \A r \in Readers : \A g \in Governing(reader[r].key) :
        reader[r].pc = "done" /\ ~reader[r].stale => reader[r].ver >= reader[r].floor[g]

\* A proof newer than a marker vouches for the entry that is in the cache now:
\* no publication has replaced it by an older body without taking the proof.
ProofVouches ==
    \A k \in Served : \A g \in Governing(k) :
        localFresh[k] # NoProof /\ localStale[g] > 0 /\ localFresh[k].at > localStale[g]
            => entry[k] >= promised[g]

(***************************************************************************)
(* The inductive invariant behind the theorems of LocalPublicationProofs.  *)
(***************************************************************************)
Publishing(k) == {w \in Writers : writer[w].pc = "publish" /\ k \in PublishKeys(w)}

\* Nothing is dated in the future, and a request knows what it may publish.
ClockInv ==
    /\ now > 0
    /\ \A w \in Writers :
         /\ writer[w].req <= now
         /\ writer[w].pc # "idle" => writer[w].key \in Served
         /\ writer[w].left \subseteq PublishKeys(w)
    /\ \A m \in Recorders : recorder[m].pc = "clocked" => recorder[m].at > 0
    /\ \A k \in Keys : localFresh[k].at <= now
    /\ \A r \in Readers :
         /\ reader[r].proof.at <= now /\ reader[r].at <= now
         /\ reader[r].pc # "idle" => reader[r].key \in Served

\* localPublications counts the publications of a key and remembers that two of
\* them met.  A proof excludes publications; what has landed of a publication that
\* met no other is what the cache holds.
CountInv ==
    \A k \in Keys :
      /\ publications[k].active = Cardinality(Publishing(k))
      /\ localFresh[k] # NoProof => Publishing(k) = {}
      /\ \A w \in Publishing(k) :
           ~publications[k].overlap =>
             /\ \A p \in Publishing(k) : p = w
             /\ k \in Served /\ k \notin writer[w].left => entry[k] = writer[w].ver

\* The entry a lookup retrieved is still there while its proof is.
PointerInv ==
    \A r \in Readers :
      /\ reader[r].pc = "got"
      /\ reader[r].proof # NoProof /\ localFresh[reader[r].key] = reader[r].proof
      => reader[r].ver = entry[reader[r].key]

\* Version v was the origin's by time t: whatever was requested after t is no older.
Covered(v, t) ==
    /\ v <= origin
    /\ \A w \in Writers :
         writer[w].pc \in {"ready", "publish"} /\ writer[w].req > t => writer[w].ver >= v
    /\ \A k \in Served :
         localFresh[k] # NoProof /\ localFresh[k].at > t => entry[k] >= v
    /\ \A r \in Readers :
         reader[r].pc \in {"after", "own"} /\ reader[r].at > t => reader[r].ver >= v

\* Every promise is covered by its marker, and there is none without a marker.
PromiseInv ==
    /\ \A m \in Recorders : recorder[m].pc = "clocked" => Covered(recorder[m].ver, recorder[m].at)
    /\ \A k \in Keys :
         /\ Covered(promised[k], localStale[k])
         /\ localStale[k] = 0 => promised[k] = 0
         /\ \A r \in Readers :
              /\ Covered(reader[r].floor[k], localStale[k])
              /\ localStale[k] = 0 => reader[r].floor[k] = 0

\* What a lookup has passed so far.
JudgedInv ==
    \A r \in Readers : \A g \in Governing(reader[r].key) :
      /\ ~reader[r].stale
      /\ reader[r].pc = "done" \/ (reader[r].pc = "own" /\ g # Base)
      => reader[r].ver >= reader[r].floor[g]

PubInv == TypeOK /\ ClockInv /\ CountInv /\ PointerInv /\ PromiseInv /\ JudgedInv
=============================================================================
