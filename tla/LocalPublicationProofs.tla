----------------------- MODULE LocalPublicationProofs -----------------------
(***************************************************************************)
(* Proofs that the handler's own markers and proofs of freshness are sound *)
(* for any keys, requests, recorders and lookups: PubInv is inductive and  *)
(* implies the two properties of module LocalPublication.                  *)
(***************************************************************************)
EXTENDS LocalPublication, FiniteSetTheorems, TLAPS

\* A leaf without a prover of its own is tried with Zenon, then several times with SMT.
USE ZenonT(4), SMTT(6), SMTT(7), SMTT(8), SMTT(9), SMTT(10)

USE LocalAssumption

-----------------------------------------------------------------------------
(* The operators of the model.                                             *)

\* Only keys of the resource are served, and they govern themselves.
LEMMA KeyFacts ==
    /\ Served \subseteq Keys
    /\ \A k \in Keys : Governing(k) \subseteq Keys /\ k \in Governing(k) /\ Base \in Governing(k)
    /\ \A k \in Served, g \in Served : g \in Governing(k) => g = k
    /\ \A k \in Served : \A g \in Governing(k) : g = Base \/ g = k
  BY DEF Served, Governing

\* A proof is dated, and NoProof is no object.
LEMMA ProofFacts ==
    /\ NoProof \in Proof /\ NoProof.at = 0 /\ NoProof.id = 0
    /\ \A p \in Proof : p.at \in Nat /\ (p # NoProof => p.id \in ProofIds)
    /\ \A i \in ProofIds, t \in Nat :
         /\ [id |-> i, at |-> t] \in Proof /\ [id |-> i, at |-> t] # NoProof
         /\ [id |-> i, at |-> t].id = i /\ [id |-> i, at |-> t].at = t
  BY FS_CardinalityType DEF Proof, NoProof, ProofIds

\* There are more objects than pointers, so a publication that ends finds a new one.
LEMMA FreshIdFacts ==
    ASSUME TypeOK
    PROVE  /\ FreshId \in ProofIds
           /\ \A k \in Keys : localFresh[k].id # FreshId
           /\ \A r \in Readers : reader[r].proof.id # FreshId
  <1> DEFINE f == [k \in Keys |-> localFresh[k].id]
             h == [r \in Readers |-> reader[r].proof.id]
             A == {f[k] : k \in Keys}
             B == {h[r] : r \in Readers}
  <1>1. IsFiniteSet(A) /\ Cardinality(A) <= Cardinality(Keys)
    <2>1. f \in Surjection(Keys, A)
      BY Zenon DEF Surjection
    <2> QED  BY <2>1, FS_Surjection DEF ExistsSurjection
  <1>2. IsFiniteSet(B) /\ Cardinality(B) <= Cardinality(Readers)
    <2>1. h \in Surjection(Readers, B)
      BY Zenon DEF Surjection
    <2> QED  BY <2>1, FS_Surjection DEF ExistsSurjection
  <1>3. \A k \in Keys : f[k] = localFresh[k].id
    OBVIOUS
  <1>4. \A r \in Readers : h[r] = reader[r].proof.id
    OBVIOUS
  <1>5. \E i \in ProofIds : i \notin A /\ i \notin B
    <2> HIDE DEF A, B
    <2> SUFFICES ASSUME ProofIds \subseteq A \cup B
                 PROVE  FALSE
      OBVIOUS
    <2>1. /\ IsFiniteSet(A \cup B)
          /\ Cardinality(A \cup B) = Cardinality(A) + Cardinality(B) - Cardinality(A \cap B)
      BY <1>1, <1>2, FS_Union
    <2>2. IsFiniteSet(A \cap B)
      BY <1>1, FS_Intersection
    <2>3. /\ Cardinality(A) \in Nat /\ Cardinality(B) \in Nat /\ Cardinality(A \cap B) \in Nat
          /\ Cardinality(Keys) \in Nat /\ Cardinality(Readers) \in Nat
          /\ Cardinality(A \cup B) \in Nat
      BY <1>1, <1>2, <2>1, <2>2, FS_CardinalityType
    <2>4. Cardinality(ProofIds) = Cardinality(Keys) + Cardinality(Readers) + 1
      BY <2>3, FS_Interval DEF ProofIds
    <2>5. Cardinality(ProofIds) <= Cardinality(A \cup B)
      BY <2>1, FS_Subset
    <2> QED  BY <1>1, <1>2, <2>1, <2>3, <2>4, <2>5
  <1>6. \E i \in ProofIds : /\ \A k \in Keys : localFresh[k].id # i
                            /\ \A r \in Readers : reader[r].proof.id # i
    <2>1. \A k \in Keys : localFresh[k].id \in A
      BY <1>3
    <2>2. \A r \in Readers : reader[r].proof.id \in B
      BY <1>4
    <2> HIDE DEF A, B
    <2> QED  BY <1>5, <2>1, <2>2
  <1> HIDE DEF f, h, A, B
  <1> QED  BY <1>6, Zenon DEF FreshId

\* One request changes.
LEMMA WriterFacts ==
    ASSUME writer \in [Writers -> Writer], NEW w \in Writers, NEW x \in Writer, Step(w, x)
    PROVE  /\ writer' \in [Writers -> Writer]
           /\ writer'[w] = x
           /\ \A p \in Writers : p # w => writer'[p] = writer[p]
  BY DEF Step

\* One lookup changes.
LEMMA ReaderFacts ==
    ASSUME reader \in [Readers -> Reader], NEW r \in Readers, NEW x \in Reader,
           reader' = [reader EXCEPT ![r] = x]
    PROVE  /\ reader' \in [Readers -> Reader]
           /\ reader'[r] = x
           /\ \A p \in Readers : p # r => reader'[p] = reader[p]
  OBVIOUS

\* The requests that publish a key are finitely many.
LEMMA PublishingFinite ==
    ASSUME NEW k \in Keys
    PROVE  IsFiniteSet(Publishing(k)) /\ Cardinality(Publishing(k)) \in Nat
  <1>1. Publishing(k) \in SUBSET Writers
    BY DEF Publishing
  <1> QED  BY <1>1, FS_Subset, FS_CardinalityType

\* Promises stay covered when no step of the coverage fails and markers stay.
LEMMA PromiseKeeps ==
    ASSUME TypeOK, PromiseInv, UNCHANGED <<localStale, promised, recorder>>,
           \A r \in Readers : reader'[r].floor = reader[r].floor,
           \A v \in Nat, t \in Nat : Covered(v, t) => Covered(v, t)'
    PROVE  PromiseInv'
  <1>1. \A m \in Recorders : recorder[m].ver \in Nat /\ recorder[m].at \in Nat
    BY DEF TypeOK, Recorder
  <1>2. \A k \in Keys : promised[k] \in Nat /\ localStale[k] \in Nat
    BY DEF TypeOK
  <1>3. \A r \in Readers, k \in Keys : reader[r].floor[k] \in Nat
    BY DEF TypeOK, Reader
  <1> QED  BY <1>1, <1>2, <1>3 DEF PromiseInv

-----------------------------------------------------------------------------
(* Steps that leave the handler's records alone.                           *)

\* A step of a request that is not publishing, as FetchStart, ValidateStart, Answer
\* and Return are: an answer is as new as the origin.
LEMMA QuietWriter ==
    ASSUME PubInv, NEW w \in Writers, NEW x \in Writer, Step(w, x),
           UNCHANGED <<now, origin, entry, records, recorder, reader>>,
           writer[w].pc # "publish", x.pc # "publish",
           x.req <= now, x.pc # "idle" => x.key \in Served,
           x.left \subseteq Governing(x.key), x.pc = "ready" => x.ver = origin
    PROVE  PubInv'
  <1>1. /\ writer' \in [Writers -> Writer]
        /\ writer'[w] = x
        /\ \A p \in Writers : p # w => writer'[p] = writer[p]
    BY WriterFacts DEF PubInv, TypeOK
  <1>2. /\ UNCHANGED <<localStale, localFresh, publications, promised>>
        /\ UNCHANGED <<now, origin, entry, recorder, reader>>
    BY DEF records
  <1>3. TypeOK'
    BY <1>1, <1>2 DEF PubInv, TypeOK
  <1>4. ClockInv'
    BY <1>1, <1>2 DEF PubInv, ClockInv, PublishKeys
  <1>5. CountInv'
    <2>1. \A k \in Keys : Publishing(k)' = Publishing(k)
      BY <1>1 DEF Publishing, PublishKeys
    <2>2. \A k \in Keys : \A p \in Publishing(k) : writer'[p] = writer[p]
      BY <1>1 DEF Publishing
    <2> QED  BY <1>2, <2>1, <2>2 DEF PubInv, CountInv
  <1>6. PointerInv'
    BY <1>2 DEF PubInv, PointerInv
  <1>7. \A v \in Nat, t \in Nat : Covered(v, t) => Covered(v, t)'
    BY <1>1, <1>2 DEF Covered, PubInv, TypeOK
  <1>8. PromiseInv'
    BY <1>2, <1>7, PromiseKeeps DEF PubInv
  <1>9. JudgedInv'
    BY <1>2 DEF PubInv, JudgedInv
  <1> QED  BY <1>3, <1>4, <1>5, <1>6, <1>8, <1>9 DEF PubInv

\* A step of a lookup: what it has retrieved, been promised and passed so far is sound.
LEMMA QuietReader ==
    ASSUME PubInv, NEW r \in Readers, NEW x \in Reader, reader' = [reader EXCEPT ![r] = x],
           UNCHANGED <<now, origin, entry, records, writer, recorder>>,
           x.proof.at <= now, x.at <= now, x.pc # "idle" => x.key \in Served,
           x.pc = "got" /\ x.proof # NoProof /\ localFresh[x.key] = x.proof
             => x.ver = entry[x.key],
           \A v \in Nat, t \in Nat :
             Covered(v, t) /\ x.pc \in {"after", "own"} /\ x.at > t => x.ver >= v,
           \A k \in Keys : /\ Covered(x.floor[k], localStale[k])
                           /\ localStale[k] = 0 => x.floor[k] = 0,
           \A g \in Governing(x.key) :
             ~x.stale /\ (x.pc = "done" \/ (x.pc = "own" /\ g # Base)) => x.ver >= x.floor[g]
    PROVE  PubInv'
  <1>1. /\ reader' \in [Readers -> Reader]
        /\ reader'[r] = x
        /\ \A p \in Readers : p # r => reader'[p] = reader[p]
    BY ReaderFacts DEF PubInv, TypeOK
  <1>2. /\ UNCHANGED <<localStale, localFresh, publications, promised>>
        /\ UNCHANGED <<now, origin, entry, recorder, writer>>
    BY DEF records
  <1>3. TypeOK'
    BY <1>1, <1>2 DEF PubInv, TypeOK
  <1>4. ClockInv'
    BY <1>1, <1>2 DEF PubInv, ClockInv, PublishKeys
  <1>5. CountInv'
    <2>1. \A k \in Keys : Publishing(k)' = Publishing(k)
      BY <1>2 DEF Publishing, PublishKeys
    <2> QED  BY <1>2, <2>1 DEF PubInv, CountInv
  <1>6. PointerInv'
    BY <1>1, <1>2 DEF PubInv, PointerInv
  <1>7. \A v \in Nat, t \in Nat : Covered(v, t) => Covered(v, t)'
    BY <1>1, <1>2 DEF Covered
  <1>8. PromiseInv'
    <2>1. \A m \in Recorders : recorder[m].ver \in Nat /\ recorder[m].at \in Nat
      BY DEF PubInv, TypeOK, Recorder
    <2>2. \A k \in Keys : promised[k] \in Nat /\ localStale[k] \in Nat /\ x.floor[k] \in Nat
      BY DEF PubInv, TypeOK, Reader
    <2>3. \A p \in Readers, k \in Keys : reader[p].floor[k] \in Nat
      BY DEF PubInv, TypeOK, Reader
    <2>4. PromiseInv
      BY DEF PubInv
    <2> QED  BY <1>1, <1>2, <1>7, <2>1, <2>2, <2>3, <2>4 DEF PromiseInv
  <1>9. JudgedInv'
    BY <1>1 DEF PubInv, JudgedInv
  <1> QED  BY <1>3, <1>4, <1>5, <1>6, <1>8, <1>9 DEF PubInv

\* A new request, its answer and its end without a publication.
LEMMA RequestSteps ==
    ASSUME PubInv, NEW w \in Writers,
           \/ \E k \in Served : FetchStart(w, k) \/ ValidateStart(w, k)
           \/ Answer(w) \/ Return(w)
    PROVE  PubInv'
  <1>1. writer[w] \in Writer /\ now \in Nat /\ origin \in Nat /\ entry \in [Keys -> Nat]
    BY DEF PubInv, TypeOK
  <1>2. CASE \E k \in Served : FetchStart(w, k)
    <2>1. PICK k \in Served : FetchStart(w, k)
      BY <1>2
    <2> DEFINE x == [NoWriter EXCEPT !.pc = "fetch", !.key = k, !.req = now]
    <2>2. x \in Writer /\ x.pc = "fetch" /\ x.key = k /\ x.req = now /\ x.left = {}
      BY <1>1, KeyFacts, Zenon DEF Writer, NoWriter
    <2>3. /\ writer[w].pc = "idle" /\ Step(w, x)
          /\ UNCHANGED <<now, origin, entry, records, recorder, reader>>
      BY <2>1, Zenon DEF FetchStart
    <2> HIDE DEF x
    <2> QED  BY <1>1, <2>2, <2>3, QuietWriter
  <1>3. CASE \E k \in Served : ValidateStart(w, k)
    <2>1. PICK k \in Served : ValidateStart(w, k)
      BY <1>3
    <2> DEFINE x == [NoWriter EXCEPT !.pc = "validate", !.key = k, !.req = now, !.ver = entry[k]]
    <2>2. x \in Writer /\ x.pc = "validate" /\ x.key = k /\ x.req = now /\ x.left = {}
      BY <1>1, KeyFacts, Zenon DEF Writer, NoWriter
    <2>3. /\ writer[w].pc = "idle" /\ Step(w, x)
          /\ UNCHANGED <<now, origin, entry, records, recorder, reader>>
      BY <2>1, Zenon DEF ValidateStart
    <2> HIDE DEF x
    <2> QED  BY <1>1, <2>2, <2>3, QuietWriter
  <1>4. CASE Answer(w)
    <2> DEFINE x == [writer[w] EXCEPT
          !.pc = "ready", !.ver = origin,
          !.freshen = writer[w].pc = "validate" /\ writer[w].ver = origin]
    <2>1. /\ x \in Writer /\ x.pc = "ready" /\ x.key = writer[w].key /\ x.req = writer[w].req
          /\ x.left = writer[w].left /\ x.ver = origin
      BY <1>1, Zenon DEF Writer
    <2>2. /\ writer[w].pc \in {"fetch", "validate"} /\ Step(w, x)
          /\ UNCHANGED <<now, origin, entry, records, recorder, reader>>
      BY <1>4, Zenon DEF Answer
    <2>3. /\ writer[w].req <= now /\ writer[w].key \in Served
          /\ writer[w].left \subseteq Governing(writer[w].key)
      BY <2>2 DEF PubInv, ClockInv, PublishKeys
    <2> HIDE DEF x
    <2> QED  BY <2>1, <2>2, <2>3, QuietWriter
  <1>5. CASE Return(w)
    <2>1. NoWriter \in Writer /\ NoWriter.pc = "idle" /\ NoWriter.req = 0 /\ NoWriter.left = {}
      BY DEF Writer, NoWriter
    <2>2. /\ writer[w].pc # "publish" /\ Step(w, NoWriter)
          /\ UNCHANGED <<now, origin, entry, records, recorder, reader>>
      BY <1>5 DEF Return
    <2> QED  BY <1>1, <2>1, <2>2, QuietWriter
  <1> QED  BY <1>2, <1>3, <1>4, <1>5

\* What the invariant says of one lookup.
LEMMA ReaderOf ==
    ASSUME PubInv, NEW r \in Readers
    PROVE  /\ reader[r] \in Reader /\ reader[r].proof.at <= now /\ reader[r].at <= now
           /\ reader[r].pc # "idle" => reader[r].key \in Served
           /\ reader[r].key \in Keys /\ reader[r].proof \in Proof
           /\ reader[r].ver \in Nat /\ reader[r].at \in Nat
           /\ now \in Nat /\ localStale \in [Keys -> Nat]
           /\ \A v \in Nat, t \in Nat :
                Covered(v, t) /\ reader[r].pc \in {"after", "own"} /\ reader[r].at > t
                => reader[r].ver >= v
           /\ \A k \in Keys : /\ reader[r].floor[k] \in Nat
                              /\ Covered(reader[r].floor[k], localStale[k])
                              /\ localStale[k] = 0 => reader[r].floor[k] = 0
  <1>1. reader[r] \in Reader /\ now \in Nat /\ localStale \in [Keys -> Nat]
    BY DEF PubInv, TypeOK
  <1>2. /\ reader[r].key \in Keys /\ reader[r].proof \in Proof /\ reader[r].floor \in [Keys -> Nat]
        /\ reader[r].ver \in Nat /\ reader[r].at \in Nat
    BY <1>1 DEF Reader
  <1>3. \A v \in Nat, t \in Nat :
          Covered(v, t) /\ reader[r].pc \in {"after", "own"} /\ reader[r].at > t
          => reader[r].ver >= v
    BY DEF Covered
  <1>4. \A k \in Keys : /\ Covered(reader[r].floor[k], localStale[k])
                        /\ localStale[k] = 0 => reader[r].floor[k] = 0
    BY DEF PubInv, PromiseInv
  <1> QED  BY <1>1, <1>2, <1>3, <1>4 DEF PubInv, ClockInv

\* A lookup takes the proof and the promises that are there when it begins.
LEMMA BeforeStep ==
    ASSUME PubInv, NEW r \in Readers, NEW k \in Served, LookupBefore(r, k)
    PROVE  PubInv'
  <1> DEFINE x == [NoReader EXCEPT
        !.pc = "before", !.key = k, !.proof = localFresh[k], !.idle = Idle(k), !.floor = promised]
  <1>1. /\ k \in Keys /\ localFresh[k] \in Proof /\ promised \in [Keys -> Nat]
        /\ localFresh[k].at <= now /\ now \in Nat
    BY KeyFacts DEF PubInv, TypeOK, ClockInv
  <1>2. /\ x \in Reader /\ x.pc = "before" /\ x.key = k /\ x.proof = localFresh[k]
        /\ x.floor = promised /\ x.at = 0
    BY <1>1, Zenon DEF Reader, NoReader, Idle
  <1>3. /\ reader' = [reader EXCEPT ![r] = x]
        /\ UNCHANGED <<now, origin, entry, records, writer, recorder>>
    BY Zenon DEF LookupBefore
  <1>4. \A g \in Keys : /\ Covered(promised[g], localStale[g])
                        /\ localStale[g] = 0 => promised[g] = 0
    BY DEF PubInv, PromiseInv
  <1> HIDE DEF x
  <1>5. \A g \in Keys : /\ Covered(x.floor[g], localStale[g])
                        /\ localStale[g] = 0 => x.floor[g] = 0
    BY <1>2, <1>4
  <1>6. x.proof.at <= now /\ x.at <= now /\ (x.pc # "idle" => x.key \in Served)
    BY <1>1, <1>2
  <1> QED  BY <1>2, <1>3, <1>5, <1>6, QuietReader, Zenon

\* A lookup that ends holds nothing.
LEMMA EndReader ==
    ASSUME PubInv, NEW r \in Readers, reader' = [reader EXCEPT ![r] = NoReader],
           UNCHANGED <<now, origin, entry, records, writer, recorder>>
    PROVE  PubInv'
  <1>1. /\ NoReader \in Reader /\ NoReader.pc = "idle" /\ NoReader.proof = NoProof
        /\ NoReader.at = 0 /\ \A k \in Keys : NoReader.floor[k] = 0
    BY ProofFacts DEF Reader, NoReader
  <1>2. \A k \in Keys : Covered(0, localStale[k])
    BY DEF Covered, PubInv, TypeOK, Writer, Reader, Served
  <1>3. \A k \in Keys : /\ Covered(NoReader.floor[k], localStale[k])
                        /\ localStale[k] = 0 => NoReader.floor[k] = 0
    BY <1>1, <1>2
  <1>4. NoReader.proof.at <= now /\ NoReader.at <= now
    BY <1>1, ProofFacts DEF PubInv, TypeOK
  <1> QED  BY <1>1, <1>3, <1>4, QuietReader, Zenon

\* The lookup that finds no entry ends; one that finds an entry holds what the proof
\* in place vouches for.
LEMMA RetrieveStep ==
    ASSUME PubInv, NEW r \in Readers, LookupRetrieve(r)
    PROVE  PubInv'
  <1> DEFINE ver == entry[reader[r].key]
             x == [reader[r] EXCEPT !.pc = "got", !.ver = ver]
  <1>1. /\ reader[r].pc = "before"
        /\ reader' = [reader EXCEPT ![r] = IF ver = 0 THEN NoReader ELSE x]
        /\ UNCHANGED <<now, origin, entry, records, writer, recorder>>
    BY DEF LookupRetrieve
  <1>2. CASE ver = 0
    <2>1. reader' = [reader EXCEPT ![r] = NoReader]
      BY <1>1, <1>2
    <2> QED  BY <1>1, <2>1, EndReader, Zenon
  <1>3. CASE ver # 0
    <2>1. ver \in Nat
      BY ReaderOf DEF PubInv, TypeOK
    <2>2. /\ x \in Reader /\ x.pc = "got" /\ x.key = reader[r].key /\ x.ver = ver
          /\ x.proof = reader[r].proof /\ x.at = reader[r].at /\ x.floor = reader[r].floor
      BY <2>1, ReaderOf, Zenon DEF Reader
    <2>3. reader' = [reader EXCEPT ![r] = x]
      BY <1>1, <1>3
    <2> HIDE DEF x
    <2>4. \A k \in Keys : /\ Covered(x.floor[k], localStale[k])
                          /\ localStale[k] = 0 => x.floor[k] = 0
      BY <2>2, ReaderOf
    <2>5. x.proof.at <= now /\ x.at <= now /\ x.key \in Served
      BY <1>1, <2>2, ReaderOf
    <2>6. x.ver = entry[x.key]
      BY <2>2
    <2> HIDE DEF ver
    <2> QED  BY <1>1, <2>2, <2>3, <2>4, <2>5, <2>6, QuietReader, Zenon
  <1> QED  BY <1>2, <1>3

\* A lookup that trusts the proof it found before and after the retrieval holds the
\* entry that the proof vouches for.
LEMMA AfterStep ==
    ASSUME PubInv, NEW r \in Readers, LookupAfter(r)
    PROVE  PubInv'
  <1> DEFINE k == reader[r].key
             trusted == /\ reader[r].idle /\ Idle(k)
                        /\ reader[r].proof # NoProof /\ reader[r].proof = localFresh[k]
             at == IF trusted THEN reader[r].proof.at ELSE 0
             x == [reader[r] EXCEPT !.pc = "after", !.proof = NoProof, !.at = at]
  <1>1. /\ reader[r].pc = "got"
        /\ reader' = [reader EXCEPT ![r] = x]
        /\ UNCHANGED <<now, origin, entry, records, writer, recorder>>
    BY Zenon DEF LookupAfter
  <1>2. at \in Nat /\ at <= now /\ NoProof \in Proof /\ NoProof.at <= now
    BY ReaderOf, ProofFacts
  <1>3. \A v \in Nat, t \in Nat : Covered(v, t) /\ at > t => reader[r].ver >= v
    <2> SUFFICES ASSUME NEW v \in Nat, NEW t \in Nat, Covered(v, t), at > t
                 PROVE  reader[r].ver >= v
      OBVIOUS
    <2>1. reader[r].proof # NoProof /\ reader[r].proof = localFresh[k] /\ at = localFresh[k].at
      OBVIOUS
    <2>2. reader[r].ver = entry[k]
      BY <1>1, <2>1 DEF PubInv, PointerInv
    <2>3. k \in Served
      BY <1>1, ReaderOf
    <2> HIDE DEF k, at
    <2> QED  BY <2>1, <2>2, <2>3 DEF Covered
  <1> HIDE DEF at
  <1>4. /\ x \in Reader /\ x.pc = "after" /\ x.key = k /\ x.ver = reader[r].ver
        /\ x.proof = NoProof /\ x.at = at /\ x.floor = reader[r].floor
    BY <1>2, ReaderOf, Zenon DEF Reader
  <1> HIDE DEF x
  <1>5. \A g \in Keys : /\ Covered(x.floor[g], localStale[g])
                        /\ localStale[g] = 0 => x.floor[g] = 0
    BY <1>4, ReaderOf
  <1>6. x.proof.at <= now /\ x.at <= now /\ x.key \in Served
    BY <1>1, <1>2, <1>4, ReaderOf
  <1>7. \A v \in Nat, t \in Nat :
          Covered(v, t) /\ x.pc \in {"after", "own"} /\ x.at > t => x.ver >= v
    BY <1>3, <1>4
  <1> QED  BY <1>1, <1>4, <1>5, <1>6, <1>7, QuietReader, Zenon

\* A marker that a lookup passes promises no more than what the lookup holds.
LEMMA PassedMarker ==
    ASSUME PubInv, NEW r \in Readers, NEW g \in Keys,
           reader[r].pc \in {"after", "own"}, FreshAfter(r, g)
    PROVE  reader[r].ver >= reader[r].floor[g]
  BY ReaderOf DEF FreshAfter

\* The marker of the entry's own key, then that of its base key.
LEMMA MarkerSteps ==
    ASSUME PubInv, NEW r \in Readers,
           LookupOwnMarker(r) \/ LookupBaseMarker(r) \/ LookupReturn(r)
    PROVE  PubInv'
  <1>1. CASE LookupOwnMarker(r)
    <2> DEFINE x == [reader[r] EXCEPT
          !.pc = "own", !.stale = reader[r].key # Base /\ ~FreshAfter(r, reader[r].key)]
    <2>1. /\ reader[r].pc = "after" /\ reader' = [reader EXCEPT ![r] = x]
          /\ UNCHANGED <<now, origin, entry, records, writer, recorder>>
      BY <1>1, Zenon DEF LookupOwnMarker
    <2>2. /\ x \in Reader /\ x.pc = "own" /\ x.key = reader[r].key /\ x.ver = reader[r].ver
          /\ x.proof = reader[r].proof /\ x.at = reader[r].at /\ x.floor = reader[r].floor
          /\ x.stale <=> (reader[r].key # Base /\ ~FreshAfter(r, reader[r].key))
      BY ReaderOf, Zenon DEF Reader
    <2> HIDE DEF x
    <2>3. \A k \in Keys : /\ Covered(x.floor[k], localStale[k])
                          /\ localStale[k] = 0 => x.floor[k] = 0
      BY <2>2, ReaderOf
    <2>4. x.proof.at <= now /\ x.at <= now /\ x.key \in Served
      BY <2>1, <2>2, ReaderOf
    <2>5. \A v \in Nat, t \in Nat : Covered(v, t) /\ x.at > t => x.ver >= v
      BY <2>1, <2>2, ReaderOf
    <2>6. \A g \in Governing(x.key) : ~x.stale /\ g # Base => x.ver >= x.floor[g]
      BY <2>1, <2>2, <2>4, KeyFacts, PassedMarker
    <2> QED  BY <2>1, <2>2, <2>3, <2>4, <2>5, <2>6, QuietReader, Zenon
  <1>2. CASE LookupBaseMarker(r)
    <2> DEFINE x == [reader[r] EXCEPT
          !.pc = "done", !.at = 0, !.stale = reader[r].stale \/ ~FreshAfter(r, Base)]
    <2>1. /\ reader[r].pc = "own" /\ reader' = [reader EXCEPT ![r] = x]
          /\ UNCHANGED <<now, origin, entry, records, writer, recorder>>
      BY <1>2, Zenon DEF LookupBaseMarker
    <2>2. /\ x \in Reader /\ x.pc = "done" /\ x.key = reader[r].key /\ x.ver = reader[r].ver
          /\ x.proof = reader[r].proof /\ x.at = 0 /\ x.floor = reader[r].floor
          /\ x.stale <=> (reader[r].stale \/ ~FreshAfter(r, Base))
      BY ReaderOf, Zenon DEF Reader
    <2> HIDE DEF x
    <2>3. \A k \in Keys : /\ Covered(x.floor[k], localStale[k])
                          /\ localStale[k] = 0 => x.floor[k] = 0
      BY <2>2, ReaderOf
    <2>4. x.proof.at <= now /\ x.at <= now /\ x.key \in Served
      BY <2>1, <2>2, ReaderOf
    <2>5. \A g \in Governing(x.key) : ~x.stale => x.ver >= x.floor[g]
      <3> SUFFICES ASSUME NEW g \in Governing(x.key), ~x.stale
                   PROVE  x.ver >= x.floor[g]
        OBVIOUS
      <3>1. CASE g = Base
        BY <2>1, <2>2, <3>1, PassedMarker
      <3>2. CASE g # Base
        BY <2>1, <2>2, <3>2 DEF PubInv, JudgedInv
      <3> QED  BY <3>1, <3>2
    <2> QED  BY <2>1, <2>2, <2>3, <2>4, <2>5, QuietReader, Zenon
  <1>3. CASE LookupReturn(r)
    BY <1>3, EndReader, Zenon DEF LookupReturn
  <1> QED  BY <1>1, <1>2, <1>3

-----------------------------------------------------------------------------
(* The clock, the origin and the recorders.                                *)

\* Time passes, or the origin changes.
LEMMA WorldSteps ==
    ASSUME PubInv, Tick \/ Mutate
    PROVE  PubInv'
  <1>1. /\ now' \in Nat /\ now' >= now /\ origin' \in Nat /\ origin' >= origin
        /\ now \in Nat /\ origin \in Nat
    BY DEF Tick, Mutate, PubInv, TypeOK
  <1>2. UNCHANGED <<entry, localStale, localFresh, publications, promised, writer, recorder, reader>>
    BY DEF Tick, Mutate, records
  <1>3. TypeOK'
    BY <1>1, <1>2 DEF PubInv, TypeOK
  <1>4. ClockInv'
    <2>1. \A w \in Writers : writer[w].req \in Nat
      BY DEF PubInv, TypeOK, Writer
    <2>2. \A k \in Keys : localFresh[k].at \in Nat
      BY ProofFacts DEF PubInv, TypeOK
    <2>3. \A r \in Readers : reader[r].proof.at \in Nat /\ reader[r].at \in Nat
      BY ReaderOf, ProofFacts
    <2>4. ClockInv
      BY DEF PubInv
    <2> QED  BY <1>1, <1>2, <2>1, <2>2, <2>3, <2>4 DEF ClockInv, PublishKeys
  <1>5. CountInv'
    <2>1. \A k \in Keys : Publishing(k)' = Publishing(k)
      BY <1>2 DEF Publishing, PublishKeys
    <2> QED  BY <1>2, <2>1 DEF PubInv, CountInv
  <1>6. PointerInv' /\ JudgedInv'
    BY <1>2 DEF PubInv, PointerInv, JudgedInv
  <1>7. \A v \in Nat, t \in Nat : Covered(v, t) => Covered(v, t)'
    BY <1>1, <1>2 DEF Covered
  <1>8. PromiseInv'
    BY <1>2, <1>7, PromiseKeeps DEF PubInv
  <1> QED  BY <1>3, <1>4, <1>5, <1>6, <1>8 DEF PubInv

\* The clock covers the origin: nothing has been requested after now.
LEMMA NowCovers ==
    ASSUME PubInv
    PROVE  Covered(origin, now)
  <1>1. \A w \in Writers : writer[w].req \in Nat /\ writer[w].req <= now
    BY DEF PubInv, ClockInv, TypeOK, Writer
  <1>2. \A k \in Served : localFresh[k].at \in Nat /\ localFresh[k].at <= now
    BY ProofFacts, KeyFacts DEF PubInv, ClockInv, TypeOK
  <1>3. \A r \in Readers : reader[r].at \in Nat /\ reader[r].at <= now
    BY ReaderOf
  <1>4. now \in Nat /\ origin \in Nat
    BY DEF PubInv, TypeOK
  <1> QED  BY <1>1, <1>2, <1>3, <1>4 DEF Covered

\* recordStale reads the clock.
LEMMA ClockStep ==
    ASSUME PubInv, NEW m \in Recorders, NEW K \in SUBSET Keys, RecordClock(m, K)
    PROVE  PubInv'
  <1> DEFINE x == [pc |-> "clocked", keys |-> K, at |-> now, ver |-> origin]
  <1>1. /\ recorder' = [recorder EXCEPT ![m] = x]
        /\ UNCHANGED <<now, origin, entry, localStale, localFresh, publications, promised,
                       writer, reader>>
    BY DEF RecordClock, records
  <1>2. now \in Nat /\ origin \in Nat /\ now > 0
    BY DEF PubInv, TypeOK, ClockInv
  <1>3. x \in Recorder /\ x.at = now /\ x.ver = origin
    BY <1>2 DEF Recorder
  <1> HIDE DEF x
  <1>4. /\ recorder' \in [Recorders -> Recorder] /\ recorder'[m] = x
        /\ \A p \in Recorders : p # m => recorder'[p] = recorder[p]
    BY <1>1, <1>3 DEF PubInv, TypeOK
  <1>5. TypeOK'
    BY <1>1, <1>4 DEF PubInv, TypeOK
  <1>6. ClockInv'
    BY <1>1, <1>2, <1>3, <1>4 DEF PubInv, ClockInv, PublishKeys
  <1>7. CountInv'
    <2>1. \A k \in Keys : Publishing(k)' = Publishing(k)
      BY <1>1 DEF Publishing, PublishKeys
    <2> QED  BY <1>1, <2>1 DEF PubInv, CountInv
  <1>8. PointerInv' /\ JudgedInv'
    BY <1>1 DEF PubInv, PointerInv, JudgedInv
  <1>9. \A v \in Nat, t \in Nat : Covered(v, t) => Covered(v, t)'
    BY <1>1 DEF Covered
  <1>10. PromiseInv'
    <2>1. \A p \in Recorders : recorder[p].ver \in Nat /\ recorder[p].at \in Nat
      BY DEF PubInv, TypeOK, Recorder
    <2>2. \A k \in Keys : promised[k] \in Nat /\ localStale[k] \in Nat
      BY DEF PubInv, TypeOK
    <2>3. \A p \in Readers, k \in Keys : reader[p].floor[k] \in Nat
      BY DEF PubInv, TypeOK, Reader
    <2>4. PromiseInv
      BY DEF PubInv
    <2>5. Covered(origin, now)
      BY NowCovers
    <2> QED  BY <1>1, <1>2, <1>3, <1>4, <1>9, <2>1, <2>2, <2>3, <2>4, <2>5 DEF PromiseInv
  <1> QED  BY <1>5, <1>6, <1>7, <1>8, <1>10 DEF PubInv

\* A later time covers an earlier version, and any time covers none.
LEMMA CoveredMore ==
    ASSUME TypeOK
    PROVE  /\ \A t \in Nat : Covered(0, t)
           /\ \A v \in Nat, t \in Nat, u \in Nat, s \in Nat :
                Covered(v, t) /\ u <= v /\ t <= s => Covered(u, s)
  <1>1. \A w \in Writers : writer[w].req \in Nat /\ writer[w].ver \in Nat
    BY DEF TypeOK, Writer
  <1>2. \A k \in Served : localFresh[k].at \in Nat /\ entry[k] \in Nat
    BY ProofFacts, KeyFacts DEF TypeOK
  <1>3. \A r \in Readers : reader[r].at \in Nat /\ reader[r].ver \in Nat
    BY DEF TypeOK, Reader
  <1>4. origin \in Nat
    BY DEF TypeOK
  <1> QED  BY <1>1, <1>2, <1>3, <1>4 DEF Covered

\* recordStale prunes what is past its retention and marks its keys; a marker it moves
\* back takes the later promises with it.
LEMMA MarkStep ==
    ASSUME PubInv, NEW m \in Recorders, RecordMark(m)
    PROVE  PubInv'
  <1> DEFINE rec == recorder[m]
             old(at) == at > 0 /\ at + MarkerTTL < rec.at
             pruned == {k \in Keys \ rec.keys : old(localStale[k])}
             back(k) == k \in rec.keys /\ rec.at < localStale[k]
             floor(r) == [k \in Keys |->
                IF back(k) /\ rec.ver < reader[r].floor[k] THEN rec.ver
                ELSE IF k \in pruned THEN 0 ELSE reader[r].floor[k]]
  <1>1. /\ rec \in Recorder /\ rec.pc = "clocked" /\ rec.at \in Nat /\ rec.ver \in Nat
        /\ rec.keys \subseteq Keys /\ rec.at > 0 /\ Covered(rec.ver, rec.at)
    BY DEF RecordMark, PubInv, TypeOK, Recorder, ClockInv, PromiseInv
  <1>2. /\ UNCHANGED <<now, origin, entry, publications, writer>>
        /\ recorder' = [recorder EXCEPT ![m] = NoRecorder]
        /\ localFresh' = [k \in Keys |-> IF old(localFresh[k].at) THEN NoProof ELSE localFresh[k]]
    BY DEF RecordMark
  <1>3. localStale' = [k \in Keys |->
          IF k \in rec.keys THEN rec.at ELSE IF k \in pruned THEN 0 ELSE localStale[k]]
    BY DEF RecordMark
  <1>4. promised' = [k \in Keys |->
          IF k \notin rec.keys THEN IF k \in pruned THEN 0 ELSE promised[k]
          ELSE IF back(k) \/ rec.ver > promised[k] THEN rec.ver ELSE promised[k]]
    BY DEF RecordMark
  <1>5. reader' = [r \in Readers |-> [reader[r] EXCEPT !.floor = floor(r)]]
    <2>1. \A r \in Readers : [k \in Keys |->
              IF back(k) /\ rec.ver < reader[r].floor[k] THEN rec.ver
              ELSE [g \in Keys |-> IF g \in pruned THEN 0 ELSE reader[r].floor[g]][k]] = floor(r)
      OBVIOUS
    <2> QED  BY <2>1 DEF RecordMark
  <1>6. \A k \in Keys : localFresh'[k] = NoProof \/ localFresh'[k] = localFresh[k]
    BY <1>2
  <1>7. \A r \in Readers : \A k \in Keys :
          /\ reader[r] \in Reader /\ reader[r].floor[k] \in Nat
          /\ floor(r)[k] \in Nat /\ floor(r)[k] <= reader[r].floor[k]
          /\ \/ floor(r)[k] = reader[r].floor[k] /\ k \notin pruned /\ ~back(k)
             \/ floor(r)[k] = 0 /\ k \in pruned
             \/ floor(r)[k] <= rec.ver /\ back(k)
    <2>1. \A r \in Readers : \A k \in Keys : reader[r] \in Reader /\ reader[r].floor[k] \in Nat
      BY ReaderOf
    <2> QED  BY <1>1, <2>1
  <1>8. \A r \in Readers :
          /\ reader'[r] \in Reader /\ reader'[r].floor = floor(r)
          /\ reader'[r].pc = reader[r].pc /\ reader'[r].key = reader[r].key
          /\ reader'[r].proof = reader[r].proof /\ reader'[r].ver = reader[r].ver
          /\ reader'[r].at = reader[r].at /\ reader'[r].stale = reader[r].stale
    <2> SUFFICES ASSUME NEW r \in Readers
                 PROVE  /\ reader'[r] \in Reader /\ reader'[r].floor = floor(r)
                        /\ reader'[r].pc = reader[r].pc /\ reader'[r].key = reader[r].key
                        /\ reader'[r].proof = reader[r].proof /\ reader'[r].ver = reader[r].ver
                        /\ reader'[r].at = reader[r].at /\ reader'[r].stale = reader[r].stale
      OBVIOUS
    <2>1. floor(r) \in [Keys -> Nat]
      BY <1>7
    <2>2. reader'[r] = [reader[r] EXCEPT !.floor = floor(r)]
      BY <1>5
    <2>3. reader[r] \in Reader
      BY ReaderOf
    <2> HIDE DEF floor
    <2> QED  BY <2>1, <2>2, <2>3 DEF Reader
  <1>9. \A k \in Keys : localStale[k] \in Nat /\ promised[k] \in Nat
    BY DEF PubInv, TypeOK
  <1> HIDE DEF floor
  <1>10. TypeOK'
    <2>1. localStale' \in [Keys -> Nat] /\ promised' \in [Keys -> Nat]
      BY <1>1, <1>3, <1>4, <1>9
    <2>2. localFresh' \in [Keys -> Proof]
      BY <1>2, ProofFacts DEF PubInv, TypeOK
    <2>3. reader' \in [Readers -> Reader]
      BY <1>5, <1>8, Zenon
    <2>4. recorder' \in [Recorders -> Recorder]
      BY <1>2 DEF PubInv, TypeOK, Recorder, NoRecorder
    <2> QED  BY <1>2, <2>1, <2>2, <2>3, <2>4 DEF PubInv, TypeOK
  <1>11. ClockInv'
    <2>1. \A p \in Recorders : recorder'[p] = recorder[p] \/ recorder'[p].pc = "idle"
      BY <1>2 DEF PubInv, TypeOK, NoRecorder
    <2>2. \A k \in Keys : localFresh'[k].at <= now
      BY <1>6, ProofFacts DEF PubInv, ClockInv, TypeOK
    <2> HIDE DEF rec, pruned, back, old
    <2> QED  BY <1>2, <1>8, <2>1, <2>2 DEF PubInv, ClockInv, PublishKeys
  <1>12. CountInv'
    <2>1. \A k \in Keys : Publishing(k)' = Publishing(k)
      BY <1>2 DEF Publishing, PublishKeys
    <2> HIDE DEF rec, pruned, back, old
    <2> QED  BY <1>2, <1>6, <2>1 DEF PubInv, CountInv
  <1>13. PointerInv'
    <2> HIDE DEF rec, pruned, back, old
    <2> QED  BY <1>2, <1>6, <1>8, ReaderOf, Zenon DEF PubInv, PointerInv
  <1>14. JudgedInv'
    <2> SUFFICES ASSUME NEW r \in Readers, NEW g \in Governing(reader'[r].key), ~reader'[r].stale,
                        reader'[r].pc = "done" \/ (reader'[r].pc = "own" /\ g # Base)
                 PROVE  reader'[r].ver >= reader'[r].floor[g]
      BY DEF JudgedInv
    <2>1. reader[r].ver >= reader[r].floor[g] /\ g \in Keys /\ reader[r].ver \in Nat
      BY <1>8, ReaderOf, KeyFacts DEF PubInv, JudgedInv
    <2> QED  BY <1>7, <1>8, <2>1
  <1>15. \A v \in Nat, t \in Nat : Covered(v, t) => Covered(v, t)'
    <2> HIDE DEF rec, pruned, back, old
    <2> QED  BY <1>2, <1>6, <1>8, KeyFacts DEF Covered
  <1>16. PromiseInv'
    <2>1. ASSUME NEW p \in Recorders, recorder'[p].pc = "clocked"
          PROVE  Covered(recorder[p].ver, recorder[p].at)' /\ recorder'[p] = recorder[p]
      <3>1. recorder'[p] = recorder[p]
        BY <1>2, <2>1 DEF PubInv, TypeOK, NoRecorder
      <3>2. Covered(recorder[p].ver, recorder[p].at)
        BY <2>1, <3>1 DEF PubInv, PromiseInv
      <3>3. recorder[p].ver \in Nat /\ recorder[p].at \in Nat
        BY DEF PubInv, TypeOK, Recorder
      <3> QED  BY <1>15, <3>1, <3>2, <3>3
    <2>2. ASSUME NEW k \in Keys
          PROVE  /\ Covered(promised[k], localStale[k])'
                 /\ localStale'[k] = 0 => promised'[k] = 0
      <3>1. /\ Covered(promised[k], localStale[k])
            /\ localStale[k] = 0 => promised[k] = 0
        BY DEF PubInv, PromiseInv
      <3>2. Covered(promised'[k], localStale'[k])
        BY <1>1, <1>3, <1>4, <1>9, <3>1, CoveredMore DEF PubInv
      <3>3. promised'[k] \in Nat /\ localStale'[k] \in Nat
        BY <1>10 DEF TypeOK
      <3>4. localStale'[k] = 0 => promised'[k] = 0
        BY <1>1, <1>3, <1>4, <3>1
      <3> QED  BY <1>15, <3>2, <3>3, <3>4
    <2>3. ASSUME NEW k \in Keys, NEW r \in Readers
          PROVE  /\ Covered(reader[r].floor[k], localStale[k])'
                 /\ localStale'[k] = 0 => reader'[r].floor[k] = 0
      <3>1. /\ Covered(reader[r].floor[k], localStale[k])
            /\ localStale[k] = 0 => reader[r].floor[k] = 0
        BY ReaderOf
      <3>2. Covered(floor(r)[k], localStale'[k])
        BY <1>1, <1>3, <1>7, <1>9, <3>1, CoveredMore DEF PubInv
      <3>3. localStale'[k] = 0 => floor(r)[k] = 0
        BY <1>1, <1>3, <1>7, <3>1
      <3>4. floor(r)[k] \in Nat /\ localStale'[k] \in Nat
        BY <1>7, <1>10, Zenon DEF TypeOK
      <3> QED  BY <1>8, <1>15, <3>2, <3>3, <3>4
    <2> QED  BY <2>1, <2>2, <2>3 DEF PromiseInv
  <1> QED  BY <1>10, <1>11, <1>12, <1>13, <1>14, <1>16 DEF PubInv

-----------------------------------------------------------------------------
(* Publications.                                                           *)

\* The count of a key's publications is a record.
LEMMA CountRecord ==
    ASSUME NEW a \in Nat, NEW b \in BOOLEAN, NEW c, c = [active |-> a, overlap |-> b]
    PROVE  c \in [active: Nat, overlap: BOOLEAN] /\ c.active = a /\ c.overlap = b
  OBVIOUS

\* One publication less.
LEMMA CountLess ==
    ASSUME NEW c \in [active: Nat, overlap: BOOLEAN], c.active - 1 \in Nat
    PROVE  LET d == [c EXCEPT !.active = @ - 1]
           IN  /\ d \in [active: Nat, overlap: BOOLEAN]
               /\ d.active = c.active - 1 /\ d.overlap = c.overlap
  OBVIOUS

\* A publication is counted; one that meets another marks both.
LEMMA BeginStep ==
    ASSUME PubInv, NEW w \in Writers, beginLocalPublication(w)
    PROVE  PubInv'
  <1> DEFINE x == [writer[w] EXCEPT !.pc = "publish", !.left = PublishKeys(w)]
  <1>1. /\ writer[w] \in Writer /\ writer[w].pc = "ready" /\ writer[w].key \in Served
        /\ writer[w].key \in Keys /\ PublishKeys(w) \subseteq Keys
    BY KeyFacts DEF PubInv, TypeOK, ClockInv, beginLocalPublication, PublishKeys
  <1>2. /\ x \in Writer /\ x.pc = "publish" /\ x.left = PublishKeys(w) /\ x.key = writer[w].key
        /\ x.req = writer[w].req /\ x.ver = writer[w].ver
    BY <1>1, Zenon DEF Writer
  <1>3. /\ UNCHANGED <<now, origin, entry, localStale, promised, recorder, reader>>
        /\ localFresh' = [k \in Keys |-> IF k \in PublishKeys(w) THEN NoProof ELSE localFresh[k]]
        /\ Step(w, x)
    BY DEF beginLocalPublication
  <1> HIDE DEF x
  <1>4. /\ writer' \in [Writers -> Writer]
        /\ writer'[w] = x
        /\ \A p \in Writers : p # w => writer'[p] = writer[p]
    BY <1>2, <1>3, WriterFacts DEF PubInv, TypeOK
  <1>5. \A k \in Keys : k \notin PublishKeys(w) => publications'[k] = publications[k]
    BY DEF beginLocalPublication
  <1>6. \A k \in Keys : /\ publications[k].active = Cardinality(Publishing(k))
                        /\ publications[k] \in [active: Nat, overlap: BOOLEAN]
    BY DEF PubInv, CountInv, TypeOK
  <1>7. \A k \in PublishKeys(w) : \E met \in BOOLEAN :
          /\ met <=> (publications[k].overlap \/ publications[k].active > 0)
          /\ publications'[k] = [active |-> publications[k].active + 1, overlap |-> met]
    <2> SUFFICES ASSUME NEW k \in PublishKeys(w)
                 PROVE  \E met \in BOOLEAN :
                          /\ met <=> (publications[k].overlap \/ publications[k].active > 0)
                          /\ publications'[k] = [active |-> publications[k].active + 1, overlap |-> met]
      OBVIOUS
    <2> WITNESS (publications[k].overlap \/ publications[k].active > 0) \in BOOLEAN
    <2> QED  BY <1>1, Zenon DEF beginLocalPublication
  <1>8. \A k \in PublishKeys(w) :
          /\ publications'[k] \in [active: Nat, overlap: BOOLEAN]
          /\ publications'[k].active = publications[k].active + 1
          /\ publications'[k].overlap <=> (publications[k].overlap \/ publications[k].active > 0)
    <2> SUFFICES ASSUME NEW k \in PublishKeys(w)
                 PROVE  /\ publications'[k] \in [active: Nat, overlap: BOOLEAN]
                        /\ publications'[k].active = publications[k].active + 1
                        /\ publications'[k].overlap
                             <=> (publications[k].overlap \/ publications[k].active > 0)
      OBVIOUS
    <2>1. publications[k].active + 1 \in Nat
      BY <1>1, <1>6
    <2>2. PICK met \in BOOLEAN :
            /\ met <=> (publications[k].overlap \/ publications[k].active > 0)
            /\ publications'[k] = [active |-> publications[k].active + 1, overlap |-> met]
      BY <1>7
    <2>3. /\ publications'[k] \in [active: Nat, overlap: BOOLEAN]
          /\ publications'[k].active = publications[k].active + 1 /\ publications'[k].overlap = met
      BY <2>1, <2>2, CountRecord, Zenon
    <2> QED  BY <2>2, <2>3, Zenon
  <1>9. TypeOK'
    <2>1. publications' \in [Keys -> [active: Nat, overlap: BOOLEAN]]
      <3>1. \A k \in Keys : publications'[k] \in [active: Nat, overlap: BOOLEAN]
        BY <1>5, <1>6, <1>8
      <3>2. publications' = [k \in Keys |-> publications'[k]]
        BY Zenon DEF beginLocalPublication
      <3> QED  BY <3>1, <3>2, Zenon
    <2>2. localFresh' \in [Keys -> Proof]
      BY <1>3, ProofFacts DEF PubInv, TypeOK
    <2> QED  BY <1>3, <1>4, <2>1, <2>2 DEF PubInv, TypeOK
  <1>10. ClockInv'
    <2>1. \A k \in Keys : localFresh'[k].at <= now
      <3>1. /\ now \in Nat /\ \A k \in Keys : localFresh[k].at <= now
        BY DEF PubInv, ClockInv, TypeOK
      <3> QED  BY <1>3, <3>1, ProofFacts
    <2> QED  BY <1>1, <1>2, <1>3, <1>4, <2>1 DEF PubInv, ClockInv, PublishKeys
  <1>11. \A k \in Keys : /\ k \notin PublishKeys(w) => Publishing(k)' = Publishing(k)
                         /\ k \in PublishKeys(w) => Publishing(k)' = Publishing(k) \cup {w}
                         /\ w \notin Publishing(k)
    BY <1>1, <1>2, <1>4 DEF Publishing, PublishKeys
  <1>12. CountInv'
    <2> SUFFICES ASSUME NEW k \in Keys
                 PROVE  /\ publications'[k].active = Cardinality(Publishing(k)')
                        /\ localFresh'[k] # NoProof => Publishing(k)' = {}
                        /\ \A p \in Publishing(k)' :
                             ~publications'[k].overlap =>
                               /\ \A q \in Publishing(k)' : q = p
                               /\ k \in Served /\ k \notin writer'[p].left => entry'[k] = writer'[p].ver
      BY Zenon DEF CountInv
    <2>1. CASE k \in PublishKeys(w)
      <3>1. publications'[k].active = Cardinality(Publishing(k)')
        <4>1. Cardinality(Publishing(k) \cup {w}) = Cardinality(Publishing(k)) + 1
          BY <1>11, PublishingFinite, FS_AddElement, Zenon
        <4> QED  BY <1>6, <1>8, <1>11, <2>1, <4>1
      <3>2. localFresh'[k] = NoProof
        BY <1>3, <2>1
      <3>3. ~publications'[k].overlap => Publishing(k) = {}
        <4>1. ~publications'[k].overlap => publications[k].active = 0
          BY <1>6, <1>8, <2>1
        <4> QED  BY <1>6, <4>1, PublishingFinite, FS_EmptySet
      <3> QED  BY <1>2, <1>4, <1>11, <2>1, <3>1, <3>2, <3>3
    <2>2. CASE k \notin PublishKeys(w)
      <3>1. \A p \in Publishing(k) : writer'[p] = writer[p]
        BY <1>4, <1>11 DEF Publishing
      <3>2. /\ localFresh[k] # NoProof => Publishing(k) = {}
            /\ \A p \in Publishing(k) :
                 ~publications[k].overlap =>
                   /\ \A q \in Publishing(k) : q = p
                   /\ k \in Served /\ k \notin writer[p].left => entry[k] = writer[p].ver
        BY DEF PubInv, CountInv
      <3> QED  BY <1>3, <1>5, <1>6, <1>11, <2>2, <3>1, <3>2
    <2> QED  BY <2>1, <2>2
  <1>13. PointerInv'
    BY <1>3, ReaderOf DEF PubInv, PointerInv
  <1>14. JudgedInv'
    BY <1>3 DEF PubInv, JudgedInv
  <1>15. \A v \in Nat, t \in Nat : Covered(v, t) => Covered(v, t)'
    BY <1>1, <1>2, <1>3, <1>4, KeyFacts DEF Covered
  <1>16. PromiseInv'
    BY <1>3, <1>15, PromiseKeeps DEF PubInv
  <1> QED  BY <1>9, <1>10, <1>12, <1>13, <1>14, <1>16 DEF PubInv

\* A body lands: no proof stands, so none is betrayed.
LEMMA LandStep ==
    ASSUME PubInv, NEW w \in Writers, NEW k \in Keys, StoreLands(w, k)
    PROVE  PubInv'
  <1> DEFINE x == [writer[w] EXCEPT !.left = writer[w].left \ {k}]
  <1>1. /\ writer[w] \in Writer /\ writer[w].pc = "publish" /\ k \in writer[w].left
        /\ k \in PublishKeys(w) /\ writer[w].left \subseteq PublishKeys(w)
    BY DEF PubInv, TypeOK, ClockInv, StoreLands
  <1>2. /\ x \in Writer /\ x.pc = "publish" /\ x.left = writer[w].left \ {k}
        /\ x.key = writer[w].key /\ x.req = writer[w].req /\ x.ver = writer[w].ver
    BY <1>1 DEF Writer
  <1>3. /\ UNCHANGED <<now, origin, localStale, localFresh, publications, promised, recorder, reader>>
        /\ entry' = [entry EXCEPT ![k] = writer[w].ver]
        /\ Step(w, x)
    BY DEF StoreLands, records
  <1> HIDE DEF x
  <1>4. /\ writer' \in [Writers -> Writer]
        /\ writer'[w] = x
        /\ \A p \in Writers : p # w => writer'[p] = writer[p]
    BY <1>2, <1>3, WriterFacts DEF PubInv, TypeOK
  <1>5. /\ entry \in [Keys -> Nat] /\ entry' \in [Keys -> Nat] /\ entry'[k] = writer[w].ver
        /\ \A g \in Keys : g # k => entry'[g] = entry[g]
    BY <1>1, <1>3 DEF PubInv, TypeOK, Writer
  <1>6. TypeOK'
    BY <1>3, <1>4, <1>5 DEF PubInv, TypeOK
  <1>7. ClockInv'
    BY <1>1, <1>2, <1>3, <1>4 DEF PubInv, ClockInv, PublishKeys
  <1>8. \A g \in Keys : Publishing(g)' = Publishing(g)
    BY <1>1, <1>2, <1>4 DEF Publishing, PublishKeys
  <1>9. w \in Publishing(k)
    BY <1>1 DEF Publishing
  <1>10. localFresh[k] = NoProof
    BY <1>9 DEF PubInv, CountInv
  <1>11. CountInv'
    <2> SUFFICES ASSUME NEW g \in Keys
                 PROVE  /\ publications[g].active = Cardinality(Publishing(g))
                        /\ localFresh[g] # NoProof => Publishing(g) = {}
                        /\ \A p \in Publishing(g) :
                             ~publications[g].overlap =>
                               /\ \A q \in Publishing(g) : q = p
                               /\ g \in Served /\ g \notin writer'[p].left => entry'[g] = writer'[p].ver
      BY <1>3, <1>8 DEF CountInv
    <2>1. /\ publications[g].active = Cardinality(Publishing(g))
          /\ localFresh[g] # NoProof => Publishing(g) = {}
          /\ \A p \in Publishing(g) :
               ~publications[g].overlap =>
                 /\ \A q \in Publishing(g) : q = p
                 /\ g \in Served /\ g \notin writer[p].left => entry[g] = writer[p].ver
      BY DEF PubInv, CountInv
    <2>2. \A p \in Publishing(g) : p \in Writers
      BY DEF Publishing
    <2>3. CASE g = k
      BY <1>2, <1>4, <1>5, <1>9, <2>1, <2>2, <2>3
    <2>4. CASE g # k
      BY <1>2, <1>4, <1>5, <2>1, <2>2, <2>4
    <2> QED  BY <2>3, <2>4
  <1>12. PointerInv'
    BY <1>3, <1>5, <1>10, ReaderOf DEF PubInv, PointerInv
  <1>13. JudgedInv'
    BY <1>3 DEF PubInv, JudgedInv
  <1>14. \A v \in Nat, t \in Nat : Covered(v, t) => Covered(v, t)'
    BY <1>1, <1>2, <1>3, <1>4, <1>5, <1>10, KeyFacts DEF Covered
  <1>15. PromiseInv'
    BY <1>3, <1>14, PromiseKeeps, Zenon DEF PubInv
  <1> QED  BY <1>6, <1>7, <1>11, <1>12, <1>13, <1>15 DEF PubInv

\* Freshen finds the validated body in place.
LEMMA FreshenStep ==
    ASSUME PubInv, NEW w \in Writers, FreshenLands(w)
    PROVE  PubInv'
  <1> DEFINE x == [writer[w] EXCEPT !.left = {}]
  <1>1. /\ writer[w] \in Writer /\ writer[w].pc = "publish" /\ writer[w].key \in Served
        /\ entry[writer[w].key] = writer[w].ver
    BY DEF PubInv, TypeOK, ClockInv, FreshenLands
  <1>2. /\ x \in Writer /\ x.pc = "publish" /\ x.left = {}
        /\ x.key = writer[w].key /\ x.req = writer[w].req /\ x.ver = writer[w].ver
    BY <1>1 DEF Writer
  <1>3. /\ UNCHANGED <<now, origin, entry, localStale, localFresh, publications, promised, recorder, reader>>
        /\ Step(w, x)
    BY DEF FreshenLands, records
  <1> HIDE DEF x
  <1>4. /\ writer' \in [Writers -> Writer]
        /\ writer'[w] = x
        /\ \A p \in Writers : p # w => writer'[p] = writer[p]
    BY <1>2, <1>3, WriterFacts DEF PubInv, TypeOK
  <1>5. TypeOK'
    BY <1>3, <1>4 DEF PubInv, TypeOK
  <1>6. ClockInv'
    BY <1>1, <1>2, <1>3, <1>4 DEF PubInv, ClockInv, PublishKeys
  <1>7. \A g \in Keys : Publishing(g)' = Publishing(g)
    BY <1>1, <1>2, <1>4 DEF Publishing, PublishKeys
  <1>8. CountInv'
    <2> SUFFICES ASSUME NEW g \in Keys
                 PROVE  /\ publications[g].active = Cardinality(Publishing(g))
                        /\ localFresh[g] # NoProof => Publishing(g) = {}
                        /\ \A p \in Publishing(g) :
                             ~publications[g].overlap =>
                               /\ \A q \in Publishing(g) : q = p
                               /\ g \in Served /\ g \notin writer'[p].left => entry[g] = writer'[p].ver
      BY <1>3, <1>7, Zenon DEF CountInv
    <2>1. /\ publications[g].active = Cardinality(Publishing(g))
          /\ localFresh[g] # NoProof => Publishing(g) = {}
          /\ \A p \in Publishing(g) :
               ~publications[g].overlap =>
                 /\ \A q \in Publishing(g) : q = p
                 /\ g \in Served /\ g \notin writer[p].left => entry[g] = writer[p].ver
      BY DEF PubInv, CountInv
    <2>2. w \in Publishing(g) /\ g \in Served => g = writer[w].key
      BY <1>1, KeyFacts DEF Publishing, PublishKeys
    <2>3. \A p \in Publishing(g) : p \in Writers
      BY DEF Publishing
    <2> QED  BY <1>1, <1>2, <1>4, <2>1, <2>2, <2>3
  <1>9. PointerInv' /\ JudgedInv'
    BY <1>3 DEF PubInv, PointerInv, JudgedInv
  <1>10. \A v \in Nat, t \in Nat : Covered(v, t) => Covered(v, t)'
    BY <1>1, <1>2, <1>3, <1>4 DEF Covered
  <1>11. PromiseInv'
    BY <1>3, <1>10, PromiseKeeps DEF PubInv
  <1> QED  BY <1>5, <1>6, <1>8, <1>9, <1>11 DEF PubInv

\* A publication ends: it leaves a proof only of what it has stored and nobody else
\* has touched.
LEMMA FinishStep ==
    ASSUME PubInv, NEW w \in Writers, NEW success \in BOOLEAN, finishLocalPublication(w, success)
    PROVE  PubInv'
  <1> DEFINE proof == [id |-> FreshId, at |-> writer[w].req]
             last(k) == k \in PublishKeys(w) /\ publications[k].active = 1
             proved(k) == last(k) /\ success /\ ~publications[k].overlap
             count(k) == IF k \notin PublishKeys(w) THEN publications[k]
                         ELSE IF publications[k].active = 1 THEN NoPublication
                         ELSE [publications[k] EXCEPT !.active = @ - 1]
  <1>1. /\ writer[w] \in Writer /\ writer[w].pc = "publish" /\ writer[w].key \in Served
        /\ writer[w].key \in Keys /\ PublishKeys(w) \subseteq Keys
        /\ writer[w].req \in Nat /\ writer[w].req <= now
        /\ success => writer[w].left = {}
    BY KeyFacts DEF PubInv, TypeOK, ClockInv, Writer, finishLocalPublication, PublishKeys
  <1>2. /\ UNCHANGED <<now, origin, entry, localStale, promised, recorder, reader>>
        /\ Step(w, NoWriter)
        /\ localFresh' = [k \in Keys |->
              IF /\ k \in PublishKeys(w) /\ publications[k].active = 1
                 /\ success /\ ~publications[k].overlap
              THEN proof
              ELSE IF Expired(localFresh[k].at) THEN NoProof ELSE localFresh[k]]
        /\ publications' = [k \in Keys |-> count(k)]
    BY Zenon DEF finishLocalPublication
  <1>3. NoWriter \in Writer /\ NoWriter.pc = "idle" /\ NoWriter.req = 0 /\ NoWriter.left = {}
    BY DEF Writer, NoWriter
  <1>4. /\ writer' \in [Writers -> Writer]
        /\ writer'[w] = NoWriter
        /\ \A p \in Writers : p # w => writer'[p] = writer[p]
    BY <1>2, <1>3, WriterFacts DEF PubInv, TypeOK
  <1>5. /\ proof \in Proof /\ proof # NoProof /\ proof.at = writer[w].req
        /\ \A r \in Readers : reader[r].proof # proof
    BY <1>1, FreshIdFacts, ProofFacts DEF PubInv
  <1> HIDE DEF proof
  <1>6. \A k \in Keys : /\ proved(k) => localFresh'[k] = proof
                        /\ ~proved(k) => localFresh'[k] = NoProof \/ localFresh'[k] = localFresh[k]
    BY <1>2
  <1>7. \A k \in Keys : /\ publications[k].active = Cardinality(Publishing(k))
                        /\ publications[k] \in [active: Nat, overlap: BOOLEAN]
    BY DEF PubInv, CountInv, TypeOK
  <1>8. \A k \in Keys : /\ k \notin PublishKeys(w) => publications'[k] = publications[k]
                        /\ last(k) => publications'[k] = NoPublication
                        /\ k \in PublishKeys(w) /\ ~last(k) =>
                             publications'[k] = [publications[k] EXCEPT !.active = @ - 1]
    <2> SUFFICES ASSUME NEW k \in Keys
                 PROVE  /\ k \notin PublishKeys(w) => count(k) = publications[k]
                        /\ last(k) => count(k) = NoPublication
                        /\ k \in PublishKeys(w) /\ ~last(k) =>
                             count(k) = [publications[k] EXCEPT !.active = @ - 1]
      <3> HIDE DEF count, last
      <3> QED  BY <1>2, Zenon
    <2> QED  OBVIOUS
  <1> HIDE DEF count
  <1>9. \A k \in Keys : /\ k \notin PublishKeys(w) => Publishing(k)' = Publishing(k)
                        /\ k \in PublishKeys(w) => Publishing(k)' = Publishing(k) \ {w}
                        /\ w \in Publishing(k) <=> k \in PublishKeys(w)
    BY <1>1, <1>3, <1>4, Zenon DEF Publishing, PublishKeys
  <1>10. \A k \in PublishKeys(w) :
           /\ Cardinality(Publishing(k)') = publications[k].active - 1
           /\ publications[k].active - 1 \in Nat
           /\ last(k) => Publishing(k)' = {}
    <2> SUFFICES ASSUME NEW k \in PublishKeys(w)
                 PROVE  /\ Cardinality(Publishing(k) \ {w}) = publications[k].active - 1
                        /\ publications[k].active - 1 \in Nat
                        /\ last(k) => Publishing(k) \ {w} = {}
      BY <1>1, <1>9
    <2>1. Cardinality(Publishing(k) \ {w}) = Cardinality(Publishing(k)) - 1
      BY <1>1, <1>9, PublishingFinite, FS_RemoveElement, Zenon
    <2>2. IsFiniteSet(Publishing(k) \ {w})
      BY <1>1, PublishingFinite, FS_RemoveElement
    <2>3. Cardinality(Publishing(k) \ {w}) \in Nat
      BY <2>2, FS_CardinalityType
    <2>4. publications[k].active = Cardinality(Publishing(k))
      BY <1>1, <1>7
    <2>5. last(k) => Cardinality(Publishing(k) \ {w}) = 0
      BY <2>1, <2>4
    <2> HIDE DEF last
    <2> QED  BY <2>1, <2>2, <2>3, <2>4, <2>5, FS_EmptySet
  <1>11. \A k \in Keys :
           /\ publications'[k] \in [active: Nat, overlap: BOOLEAN]
           /\ k \in PublishKeys(w) => publications'[k].active = publications[k].active - 1
           /\ k \in PublishKeys(w) /\ ~last(k) => publications'[k].overlap = publications[k].overlap
    <2> SUFFICES ASSUME NEW k \in Keys
                 PROVE  /\ publications'[k] \in [active: Nat, overlap: BOOLEAN]
                        /\ k \in PublishKeys(w) =>
                             publications'[k].active = publications[k].active - 1
                        /\ k \in PublishKeys(w) /\ ~last(k) =>
                             publications'[k].overlap = publications[k].overlap
      OBVIOUS
    <2>1. NoPublication \in [active: Nat, overlap: BOOLEAN] /\ NoPublication.active = 0
      BY DEF NoPublication
    <2>2. last(k) => k \in PublishKeys(w) /\ publications[k].active - 1 = 0
      BY <1>7
    <2>3. k \in PublishKeys(w) =>
            LET c == [publications[k] EXCEPT !.active = @ - 1]
            IN  /\ c \in [active: Nat, overlap: BOOLEAN]
                /\ c.active = publications[k].active - 1 /\ c.overlap = publications[k].overlap
      BY <1>7, <1>10, CountLess
    <2> HIDE DEF last
    <2> QED  BY <1>7, <1>8, <2>1, <2>2, <2>3
  <1> HIDE DEF last
  <1>12. TypeOK'
    <2>1. publications' \in [Keys -> [active: Nat, overlap: BOOLEAN]]
      <3>1. publications' = [k \in Keys |-> publications'[k]]
        BY <1>2, Zenon
      <3> QED  BY <1>11, <3>1, Zenon
    <2>2. localFresh' \in [Keys -> Proof]
      <3>1. \A k \in Keys : localFresh'[k] \in Proof
        BY <1>5, <1>6, ProofFacts DEF PubInv, TypeOK
      <3>2. localFresh' = [k \in Keys |-> localFresh'[k]]
        BY <1>2, Zenon
      <3> QED  BY <3>1, <3>2, Zenon
    <2> HIDE DEF proved
    <2> QED  BY <1>2, <1>4, <2>1, <2>2 DEF PubInv, TypeOK
  <1>13. ClockInv'
    <2>1. \A k \in Keys : localFresh'[k].at <= now
      <3>1. /\ now \in Nat /\ \A k \in Keys : localFresh[k].at <= now
        BY DEF PubInv, ClockInv, TypeOK
      <3> HIDE DEF proved
      <3> QED  BY <1>1, <1>5, <1>6, <3>1, ProofFacts
    <2>2. now \in Nat
      BY DEF PubInv, TypeOK
    <2>3. UNCHANGED <<now, recorder, reader>>
      BY <1>2
    <2> QED  BY <1>3, <1>4, <2>1, <2>2, <2>3 DEF PubInv, ClockInv, PublishKeys
  <1>14. CountInv'
    <2> SUFFICES ASSUME NEW k \in Keys
                 PROVE  /\ publications'[k].active = Cardinality(Publishing(k)')
                        /\ localFresh'[k] # NoProof => Publishing(k)' = {}
                        /\ \A p \in Publishing(k)' :
                             ~publications'[k].overlap =>
                               /\ \A q \in Publishing(k)' : q = p
                               /\ k \in Served /\ k \notin writer'[p].left => entry'[k] = writer'[p].ver
      BY Zenon DEF CountInv
    <2>1. /\ localFresh[k] # NoProof => Publishing(k) = {}
          /\ \A p \in Publishing(k) :
               ~publications[k].overlap =>
                 /\ \A q \in Publishing(k) : q = p
                 /\ k \in Served /\ k \notin writer[p].left => entry[k] = writer[p].ver
      BY DEF PubInv, CountInv
    <2>2. \A p \in Publishing(k)' : p \in Writers /\ p # w /\ p \in Publishing(k)
      BY <1>3, <1>4, <1>9 DEF Publishing
    <2>3. CASE k \notin PublishKeys(w)
      <3>1. ~proved(k)
        BY <2>3 DEF last
      <3>2. entry' = entry
        BY <1>2
      <3> HIDE DEF proved
      <3> QED  BY <1>4, <1>6, <1>7, <1>8, <1>9, <2>1, <2>2, <2>3, <3>1, <3>2, Zenon
    <2>4. CASE k \in PublishKeys(w) /\ last(k)
      BY <1>10, <1>11, <2>4
    <2>5. CASE k \in PublishKeys(w) /\ ~last(k)
      <3>1. ~proved(k) /\ localFresh[k] = NoProof
        BY <1>9, <2>1, <2>5, Zenon
      <3> HIDE DEF proved
      <3> QED  BY <1>6, <1>9, <1>10, <1>11, <2>1, <2>2, <2>5, <3>1, Zenon
    <2> QED  BY <2>3, <2>4, <2>5
  <1>15. PointerInv'
    <2>1. UNCHANGED <<reader, entry>>
      BY <1>2
    <2> HIDE DEF proved
    <2> QED  BY <1>5, <1>6, <2>1, ReaderOf DEF PubInv, PointerInv
  <1>16. JudgedInv'
    BY <1>2 DEF PubInv, JudgedInv
  <1>17. \A v \in Nat, t \in Nat : Covered(v, t) => Covered(v, t)'
    <2>1. \A k \in Served : proved(k) => entry[k] = writer[w].ver
      BY <1>1, <1>9, KeyFacts, Zenon DEF PubInv, CountInv, last
    <2>2. UNCHANGED <<origin, entry, reader>>
      BY <1>2
    <2> HIDE DEF proved
    <2> QED  BY <1>1, <1>3, <1>4, <1>5, <1>6, <2>1, <2>2, KeyFacts DEF Covered
  <1>18. PromiseInv'
    <2>1. UNCHANGED <<localStale, promised, recorder, reader>>
      BY <1>2
    <2> QED  BY <1>17, <2>1, PromiseKeeps DEF PubInv
  <1> QED  BY <1>12, <1>13, <1>14, <1>15, <1>16, <1>18 DEF PubInv

-----------------------------------------------------------------------------
(* The theorems.                                                           *)

\* Nothing is stored, marked or promised at the start.
LEMMA InitPub ==
    ASSUME Init
    PROVE  PubInv
  <1>1. /\ NoWriter \in Writer /\ NoWriter.pc = "idle" /\ NoWriter.req = 0 /\ NoWriter.left = {}
        /\ NoRecorder \in Recorder /\ NoRecorder.pc = "idle"
    BY DEF Writer, NoWriter, Recorder, NoRecorder
  <1>2. /\ NoReader \in Reader /\ NoReader.pc = "idle" /\ NoReader.proof = NoProof
        /\ NoReader.at = 0 /\ \A k \in Keys : NoReader.floor[k] = 0
    BY ProofFacts DEF Reader, NoReader
  <1>3. NoPublication \in [active: Nat, overlap: BOOLEAN] /\ NoPublication.active = 0
    BY DEF NoPublication
  <1>4. TypeOK
    BY <1>1, <1>2, <1>3, ProofFacts DEF Init, TypeOK
  <1>5. ClockInv
    BY <1>1, <1>2, ProofFacts DEF Init, ClockInv
  <1>6. CountInv
    <2>1. \A k \in Keys : Publishing(k) = {}
      BY <1>1 DEF Init, Publishing
    <2>2. \A k \in Keys : publications[k].active = 0
      BY <1>3 DEF Init
    <2> QED  BY <2>1, <2>2, FS_EmptySet DEF CountInv
  <1>7. PointerInv /\ JudgedInv
    BY <1>2 DEF Init, PointerInv, JudgedInv
  <1>8. PromiseInv
    <2>1. \A k \in Keys : promised[k] = 0 /\ localStale[k] \in Nat
      BY DEF Init
    <2>2. \A r \in Readers, k \in Keys : reader[r].floor[k] = 0
      BY <1>2 DEF Init
    <2>3. \A m \in Recorders : recorder[m].pc = "idle"
      BY <1>1 DEF Init
    <2> QED  BY <1>4, <2>1, <2>2, <2>3, CoveredMore DEF PromiseInv
  <1> QED  BY <1>4, <1>5, <1>6, <1>7, <1>8 DEF PubInv

\* Every step keeps the invariant.
LEMMA NextPub ==
    ASSUME PubInv, [Next]_vars
    PROVE  PubInv'
  <1>1. CASE Tick \/ Mutate
    BY <1>1, WorldSteps
  <1>2. CASE \E w \in Writers : WriterStep(w)
    BY <1>2, RequestSteps, BeginStep, LandStep, FreshenStep, FinishStep DEF WriterStep
  <1>3. CASE \E m \in Recorders : RecorderStep(m)
    <2>1. \A k \in Keys : \A K \in {{k}, Governing(k)} : K \in SUBSET Keys
      BY KeyFacts
    <2> QED  BY <1>3, <2>1, ClockStep, MarkStep, Zenon DEF RecorderStep
  <1>4. CASE \E r \in Readers : ReaderStep(r)
    BY <1>4, BeforeStep, RetrieveStep, AfterStep, MarkerSteps DEF ReaderStep
  <1>5. CASE UNCHANGED vars
    <2>1. \A k \in Keys : Publishing(k)' = Publishing(k)
      BY <1>5 DEF vars, Publishing, PublishKeys
    <2>2. TypeOK' /\ ClockInv' /\ PointerInv' /\ JudgedInv'
      BY <1>5, Zenon DEF vars, PubInv, TypeOK, ClockInv, PublishKeys, PointerInv, JudgedInv
    <2>3. CountInv'
      BY <1>5, <2>1 DEF vars, PubInv, CountInv
    <2>4. \A v \in Nat, t \in Nat : Covered(v, t) => Covered(v, t)'
      BY <1>5 DEF vars, Covered
    <2>5. UNCHANGED <<localStale, promised, recorder, reader>>
      BY <1>5 DEF vars
    <2>6. PromiseInv'
      BY <2>4, <2>5, PromiseKeeps DEF PubInv
    <2> QED  BY <2>2, <2>3, <2>6 DEF PubInv
  <1> QED  BY <1>1, <1>2, <1>3, <1>4, <1>5 DEF Next

\* The inductive invariant of beginLocalPublication, finishLocalPublication,
\* recordStale and generationRetriever holds for any number of each.
THEOREM PublicationInvariant == Spec => []PubInv
  <1>1. Init => PubInv
    BY InitPub
  <1>2. PubInv /\ [Next]_vars => PubInv'
    BY NextPub
  <1> QED  BY <1>1, <1>2, PTL DEF Spec

\* A lookup through generationRetriever never calls a body fresh that is older than
\* what a recordStale that returned before the lookup had promised.
THEOREM LookupsAreSound == Spec => []PublicationSound
  <1>1. PubInv => PublicationSound
    BY DEF PubInv, JudgedInv, PublicationSound
  <1> QED  BY <1>1, PublicationInvariant, PTL

\* A proof left by finishLocalPublication that is newer than a marker vouches for the
\* body in the cache.
THEOREM ProofsVouch == Spec => []ProofVouches
  <1>1. PubInv => ProofVouches
    BY KeyFacts DEF PubInv, PromiseInv, Covered, ProofVouches
  <1> QED  BY <1>1, PublicationInvariant, PTL

=============================================================================
