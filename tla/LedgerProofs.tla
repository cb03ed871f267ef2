---------------------------- MODULE LedgerProofs ----------------------------
(***************************************************************************)
(* The books of Admission: the counters are the sums of what they count,   *)
(* the LRU list is the index, reservations belong to writers, published    *)
(* bytes are charged, and the loops over the list leave nothing behind     *)
(* that they could have removed.                                           *)
(***************************************************************************)
EXTENDS AdmissionProofs

\* A leaf without a prover of its own is tried with Zenon, then several times with SMT.
USE ZenonT(4), SMTT(6), SMTT(7), SMTT(8), SMTT(9), SMTT(10)

------------------------------------------------------------------------------
(* The LRU list.                                                           *)

\* list.Remove takes the element of k, and only that, out of the list.
LEMMA WithoutFacts ==
    ASSUME lru \in Seq(Keys), IsInjective(lru), NEW k \in Keys
    PROVE  /\ Without(k) \in Seq(Keys)
           /\ IsInjective(Without(k))
           /\ Range(Without(k)) = Range(lru) \ {k}
<1>1. CASE k \notin Range(lru)
  BY <1>1 DEF Without
<1>2. CASE k \in Range(lru)
  <2> DEFINE p == Position(k)
             n == Len(lru)
             w == [i \in 1..(n - 1) |-> lru[IF i < p THEN i ELSE i + 1]]
  <2>1. p \in DOMAIN lru /\ lru[p] = k
    BY <1>2 DEF Position, Range
  <2>2. n \in Nat /\ DOMAIN lru = 1..n /\ p \in 1..n /\ n - 1 \in Nat
    BY <2>1
  <2>3. Without(k) = w
    BY <1>2 DEF Without
  <2> HIDE DEF p, n
  <2>4. \A i \in 1..(n - 1) :
          /\ (IF i < p THEN i ELSE i + 1) \in 1..n
          /\ (IF i < p THEN i ELSE i + 1) # p
    BY <2>2
  <2>5. w \in [1..(n - 1) -> Keys]
    BY <2>2, <2>4
  <2>6. w \in Seq(Keys)
    BY <2>2, <2>5
  <2>7. IsInjective(w)
    <3> SUFFICES ASSUME NEW a \in 1..(n - 1), NEW b \in 1..(n - 1), w[a] = w[b]
                 PROVE  a = b
      BY DEF IsInjective
    <3>1. (IF a < p THEN a ELSE a + 1) = (IF b < p THEN b ELSE b + 1)
      BY <2>2, <2>4 DEF IsInjective
    <3> QED
      BY <2>2, <3>1
  <2>8. Range(w) \subseteq Range(lru) \ {k}
    <3> SUFFICES ASSUME NEW i \in 1..(n - 1)
                 PROVE  w[i] \in Range(lru) /\ w[i] # k
      BY DEF Range
    <3> QED
      BY <2>1, <2>2, <2>4 DEF Range, IsInjective
  <2>9. Range(lru) \ {k} \subseteq Range(w)
    <3> SUFFICES ASSUME NEW j \in 1..n, lru[j] # k
                 PROVE  \E i \in 1..(n - 1) : w[i] = lru[j]
      BY <2>2 DEF Range
    <3>1. j # p
      BY <2>1
    <3>2. CASE j < p
      <4>1. j \in 1..(n - 1)
        BY <2>2, <3>2
      <4> QED
        BY <3>2, <4>1
    <3>3. CASE j > p
      <4>1. j - 1 \in 1..(n - 1) /\ ~(j - 1 < p) /\ (j - 1) + 1 = j
        BY <2>2, <3>3
      <4> QED
        BY <4>1
    <3> QED
      BY <2>2, <3>1, <3>2, <3>3
  <2> QED
    BY <2>3, <2>6, <2>7, <2>8, <2>9
<1> QED
  BY <1>1, <1>2

\* list.PushFront.
LEMMA PushFacts ==
    ASSUME NEW l \in Seq(Keys), IsInjective(l), NEW k \in Keys, k \notin Range(l)
    PROVE  /\ <<k>> \o l \in Seq(Keys)
           /\ IsInjective(<<k>> \o l)
           /\ Range(<<k>> \o l) = Range(l) \cup {k}
<1> DEFINE q == <<k>> \o l
           n == Len(l)
<1>1. n \in Nat /\ DOMAIN l = 1..n
  OBVIOUS
<1>2. /\ q \in Seq(Keys) /\ DOMAIN q = 1..(n + 1) /\ q[1] = k
      /\ \A i \in 1..n : q[i + 1] = l[i]
  OBVIOUS
<1> HIDE DEF q, n
<1>3. \A i \in 1..(n + 1) : i = 1 \/ (i - 1 \in 1..n /\ (i - 1) + 1 = i)
  BY <1>1
<1>4. \A i \in 1..(n + 1) : i # 1 => q[i] = l[i - 1] /\ i - 1 \in DOMAIN l
  BY <1>1, <1>2, <1>3
<1>5. IsInjective(q)
  <2> SUFFICES ASSUME NEW a \in 1..(n + 1), NEW b \in 1..(n + 1), q[a] = q[b]
               PROVE  a = b
    BY <1>2 DEF IsInjective
  <2>1. CASE a = 1 \/ b = 1
    BY <1>2, <1>4, <2>1 DEF Range
  <2>2. CASE a # 1 /\ b # 1
    <3>1. a - 1 = b - 1
      BY <1>4, <2>2 DEF IsInjective
    <3> QED
      BY <1>1, <3>1
  <2> QED
    BY <2>1, <2>2
<1>6. Range(q) \subseteq Range(l) \cup {k}
  BY <1>2, <1>4 DEF Range
<1>7. Range(l) \cup {k} \subseteq Range(q)
  <2>1. k \in Range(q)
    BY <1>1, <1>2 DEF Range
  <2>2. ASSUME NEW i \in 1..n PROVE l[i] \in Range(q)
    <3>1. i + 1 \in 1..(n + 1)
      BY <1>1
    <3> QED
      BY <1>2, <3>1 DEF Range
  <2> QED
    BY <1>1, <2>1, <2>2 DEF Range
<1> QED
  BY <1>2, <1>5, <1>6, <1>7 DEF q

------------------------------------------------------------------------------
(* The index, the list and totalSize.                                      *)

IndexInv ==
    /\ totalSize = SumFunction(size)
    /\ lru \in Seq(Keys) /\ IsInjective(lru) /\ Range(lru) = Scan(size)

\* Key k is charged n bytes, 0 to forget it: trackEntry, removeEntry, touchEntry
\* and discardUnadmitted all come down to this.
Charged(k, n) ==
    /\ size' = [size EXCEPT ![k] = n]
    /\ totalSize' = totalSize - size[k] + n
    /\ \/ n = 0 /\ lru' = Without(k)
       \/ n > 0 /\ lru' = <<k>> \o Without(k)
       \/ n > 0 /\ size[k] > 0 /\ lru' = lru

\* A charge keeps counter, index and list in step.
LEMMA ChargedKeeps ==
    ASSUME LedgerType, IndexInv, NEW k \in Keys, NEW n \in Nat, Charged(k, n)
    PROVE  IndexInv'
<1>1. totalSize' = SumFunction(size')
  <2>1. IsFiniteSet(Keys) /\ size \in [Keys -> Int] /\ n \in Int
    BY AdmissionAssumption DEF LedgerType
  <2>2. SumFunction([size EXCEPT ![k] = n]) = SumFunction(size) - size[k] + n
    BY <2>1, SumExcept, Zenon
  <2> QED
    BY <2>2 DEF Charged, IndexInv
<1>2. /\ Without(k) \in Seq(Keys) /\ IsInjective(Without(k))
      /\ Range(Without(k)) = Scan(size) \ {k}
  BY WithoutFacts DEF IndexInv
<1>3. Scan(size') = IF n > 0 THEN Scan(size) \cup {k} ELSE Scan(size) \ {k}
  BY DEF Charged, Scan, LedgerType
<1>4. CASE n = 0 /\ lru' = Without(k)
  <2>1. Scan(size') = Scan(size) \ {k}
    BY <1>3, <1>4
  <2> QED
    BY <1>1, <1>2, <1>4, <2>1 DEF IndexInv
<1>5. CASE n > 0 /\ lru' = <<k>> \o Without(k)
  <2>1. Scan(size') = (Scan(size) \ {k}) \cup {k}
    BY <1>3, <1>5
  <2>2. /\ lru' \in Seq(Keys) /\ IsInjective(lru')
        /\ Range(lru') = (Scan(size) \ {k}) \cup {k}
    BY <1>2, <1>5, PushFacts
  <2> QED
    BY <1>1, <2>1, <2>2 DEF IndexInv
<1>6. CASE n > 0 /\ size[k] > 0 /\ lru' = lru
  <2>1. Scan(size') = Scan(size)
    BY <1>3, <1>6 DEF Scan
  <2> QED
    BY <1>1, <1>6, <2>1 DEF IndexInv
<1> QED
  BY <1>4, <1>5, <1>6 DEF Charged

\* removeEntry forgets the key.
LEMMA RemovedCharged ==
    ASSUME LedgerType, NEW k \in Keys, Removed(k)
    PROVE  Charged(k, 0)
  BY DEF Removed, Charged, LedgerType

\* discardUnadmitted forgets the key or charges its residual.
LEMMA DiscardedCharged ==
    ASSUME LedgerType, IndexInv, NEW k \in Keys, NEW residual \in Nat,
           Discarded(k, residual)
    PROVE  \E n \in Nat : Charged(k, n)
<1>1. CASE Removed(k)
  BY <1>1, RemovedCharged
<1>2. CASE ~Removed(k)
  <2> DEFINE n == IF size[k] > 0
                    THEN IF residual > size[k] THEN residual ELSE size[k]
                    ELSE IF residual > 0 THEN residual ELSE 1
  <2>1. /\ size' = [size EXCEPT ![k] = n]
        /\ totalSize' = totalSize + n - size[k]
        /\ lru' = IF size[k] > 0 THEN lru ELSE <<k>> \o lru
    BY <1>2 DEF Discarded
  <2>2. n \in Nat /\ n > 0 /\ size[k] \in Nat /\ totalSize \in Int
    BY DEF LedgerType
  <2> HIDE DEF n
  <2>3. totalSize' = totalSize - size[k] + n
    BY <2>1, <2>2
  <2>4. CASE size[k] > 0
    BY <2>1, <2>2, <2>3, <2>4, Zenon DEF Charged
  <2>5. CASE ~(size[k] > 0)
    <3>1. Without(k) = lru
      BY <2>5 DEF Without, IndexInv, Scan
    <3> QED
      BY <2>1, <2>2, <2>3, <2>5, <3>1, Zenon DEF Charged
  <2> QED
    BY <2>4, <2>5
<1> QED
  BY <1>1, <1>2

\* Every step keeps counter, index and list in step.
LEMMA IndexStep ==
    ASSUME IInv, IndexInv, Next
    PROVE  IndexInv'
<1>0. LedgerType
  BY DEF IInv, TypeOK
<1> DEFINE Kept == IndexInv'
<1>1. ASSUME UNCHANGED ledger PROVE Kept
  BY <1>1 DEF IndexInv, ledger
<1>2. ASSUME NEW k \in Keys, NEW n \in Nat, Charged(k, n) PROVE Kept
  BY <1>0, <1>2, ChargedKeeps
<1> HIDE DEF Kept
<1>3. ASSUME NEW o \in Writers, Track(o) PROVE Kept
  <2>1. PICK k \in op[o].todo :
          /\ size' = [size EXCEPT ![k] = op[o].item[k]]
          /\ totalSize' = totalSize - size[k] + op[o].item[k]
          /\ lru' = <<k>> \o Without(k)
    BY <1>3, Zenon DEF Track
  <2>2. k \in Keys /\ k \in Admitted(op[o])
    BY <1>3, WriterFacts DEF Track, Admitted, PreparePC, OpType
  <2>3. op[o].item[k] \in Nat /\ op[o].item[k] > 0
    BY <2>2, WriterFacts DEF Funded, OpType
  <2>4. Charged(k, op[o].item[k])
    BY <2>1, <2>3 DEF Charged
  <2> QED
    BY <1>2, <2>2, <2>3, <2>4
<1>4. ASSUME NEW o \in Writers, Discard(o) PROVE Kept
  <2>1. PICK k \in op[o].todo : Discarded(k, op[o].item[k])
    BY <1>4 DEF Discard
  <2>2. k \in Keys /\ op[o].item[k] \in Nat
    BY WriterFacts DEF OpType
  <2> QED
    BY <1>0, <1>2, <2>1, <2>2, DiscardedCharged
<1>5. ASSUME NEW k \in Keys, Visit(k) PROVE Kept
  <2>1. Removed(k) \/ UNCHANGED ledger
    BY <1>5 DEF Visit
  <2> QED
    BY <1>0, <1>1, <1>2, <2>1, RemovedCharged
<1>6. ASSUME NEW k \in Keys, Touch(k) PROVE Kept
  <2>1. /\ size' = size /\ totalSize' = totalSize /\ size[k] > 0
        /\ lru' = <<k>> \o Without(k) /\ size[k] \in Nat /\ totalSize \in Int
    BY <1>0, <1>6 DEF Touch, LedgerType
  <2>2. size' = [size EXCEPT ![k] = size[k]]
    BY <1>0, <2>1 DEF LedgerType
  <2>3. totalSize' = totalSize - size[k] + size[k]
    BY <2>1
  <2>4. Charged(k, size[k])
    BY <2>1, <2>2, <2>3, Zenon DEF Charged
  <2> QED
    BY <1>2, <2>1, <2>4
<1>7. ASSUME NEW k \in Keys, DiscardCorrupt(k) PROVE Kept
  <2>1. Discarded(k, disk[k]) /\ disk[k] \in Nat
    BY <1>0, <1>7 DEF DiscardCorrupt, LedgerType
  <2> QED
    BY <1>0, <1>2, <2>1, DiscardedCharged
<1>8. ASSUME NEW o \in Writers, WriterStep(o) PROVE Kept
  <2>1. CASE LockKey(o) \/ BeginReservation(o)
    BY <1>1, <2>1 DEF LockKey, BeginReservation
  <2>2. CASE \/ \E k \in Keys, n \in Sizes : ReserveExpected(o, k, n)
             \/ \E k \in Keys, n \in Sizes : StageBody(o, k, n)
             \/ ReserveWritten(o)
    BY <1>1, <2>2, Zenon DEF ReserveExpected, StageBody, ReserveWritten, Reserve
  <2>3. CASE StageFail(o) \/ Commit(o) \/ Release(o)
    BY <1>1, <2>3 DEF StageFail, Commit, Release
  <2> QED
    BY <1>3, <1>4, <1>8, <2>1, <2>2, <2>3 DEF WriterStep
<1>9. ASSUME ReserveEnd \/ CleanupEnd PROVE Kept
  BY <1>1, <1>9 DEF ReserveEnd, CleanupEnd
<1>10. ASSUME NEW kind \in {"ttl", "size", "purge"}, Cleanup(kind) PROVE Kept
  BY <1>1, <1>10 DEF Cleanup
<1>11. ASSUME NEW o \in Writers, NEW ks \in Transactions, Begin(o, ks)
       PROVE  Kept
  BY <1>1, <1>11 DEF Begin
<1>12. ASSUME NEW o \in Writers, Superseded(o) PROVE Kept
  BY <1>1, <1>12 DEF Superseded
<1>13. Kept
  BY <1>5, <1>6, <1>7, <1>8, <1>9, <1>10, <1>11, <1>12 DEF Next, WalkStep
<1> QED
  BY <1>13 DEF Kept

------------------------------------------------------------------------------
(* The reservations and their owners.                                      *)

ReservedInv ==
    /\ reservedSize = SumFunction(reservations)
    /\ \A k \in Keys \ active : reservations[k] = 0
    /\ \A k \in active : \E o \in Writers : k \in Owned(op[o])

\* The reservation of k becomes n bytes: beginReservation, reserveEntry and
\* releaseReservation all come down to this.
Reserving(k, n) ==
    /\ reservations' = [reservations EXCEPT ![k] = n]
    /\ reservedSize' = reservedSize - reservations[k] + n
    /\ n = 0 \/ k \in active'
    /\ active' \cup {k} = active \cup {k}

\* Counter and map move together.
LEMMA ReservingKeeps ==
    ASSUME LedgerType, ReservedInv, NEW k \in Keys, NEW n \in Nat,
           Reserving(k, n)
    PROVE  /\ reservedSize' = SumFunction(reservations')
           /\ \A j \in Keys \ active' : reservations'[j] = 0
<1>1. IsFiniteSet(Keys) /\ reservations \in [Keys -> Int] /\ n \in Int
  BY AdmissionAssumption DEF LedgerType
<1>2. SumFunction([reservations EXCEPT ![k] = n])
        = SumFunction(reservations) - reservations[k] + n
  BY <1>1, SumExcept, Zenon
<1>3. ASSUME NEW j \in Keys, j \notin active' PROVE reservations'[j] = 0
  <2>1. CASE j = k
    BY <1>1, <1>3, <2>1 DEF Reserving
  <2>2. CASE j # k
    BY <1>1, <1>3, <2>2 DEF Reserving, ReservedInv
  <2> QED
    BY <2>1, <2>2
<1> QED
  BY <1>2, <1>3 DEF Reserving, ReservedInv

\* A writer has locked the keys it has reserved.
LEMMA OwnedHeld ==
    ASSUME NEW x \in OpType, Consistent(x)
    PROVE  Owned(x) \subseteq x.held
  BY DEF Owned, Consistent, OpType, PreparePC

\* A key is reserved by the writer that holds its lock, or not at all.
LEMMA OwnKey ==
    ASSUME IInv, ReservedInv, NEW o \in Writers, NEW k \in op[o].held
    PROVE  k \in active => k \in Owned(op[o])
<1> SUFFICES ASSUME k \in active PROVE k \in Owned(op[o])
  OBVIOUS
<1>1. PICK p \in Writers : k \in Owned(op[p])
  BY DEF ReservedInv
<1>2. k \in op[p].held
  BY <1>1, OwnedHeld, WriterFacts
<1>3. p = o
  BY <1>2, WriterFacts DEF Held
<1> QED
  BY <1>1, <1>3

\* releaseReservation.
LEMMA ReleaseReserving ==
    ASSUME LedgerType, NEW k \in Keys, ReleaseReservation(k)
    PROVE  Reserving(k, 0)
<1>1. reservedSize \in Int /\ reservations[k] \in Nat
  BY DEF LedgerType
<1>2. reservedSize' = reservedSize - reservations[k] + 0
  BY <1>1 DEF ReleaseReservation
<1> QED
  BY <1>2, Zenon DEF ReleaseReservation, Reserving

\* A step of writer o keeps every reservation owned, if those it drops are gone
\* from the map.
LEMMA OwnedFrame ==
    ASSUME ReservedInv, NEW o \in Writers,
           \A p \in Writers : p # o => op'[p] = op[p],
           \A k \in active' : k \in Owned(op'[o]) \/ (k \in active /\ k \notin Owned(op[o]))
    PROVE  \A k \in active' : \E p \in Writers : k \in Owned(op'[p])
<1> SUFFICES ASSUME NEW k \in active'
             PROVE  \E p \in Writers : k \in Owned(op'[p])
  OBVIOUS
<1>1. CASE k \in Owned(op'[o])
  BY <1>1
<1>2. CASE k \in active /\ k \notin Owned(op[o])
  <2>1. PICK p \in Writers : k \in Owned(op[p])
    BY <1>2 DEF ReservedInv
  <2>2. op'[p] = op[p]
    BY <1>2, <2>1
  <2> QED
    BY <2>1, <2>2
<1> QED
  BY <1>1, <1>2

\* A writer that keeps what it owns, in a step that leaves the map alone.
LEMMA ReservedFrame ==
    ASSUME ReservedInv, UNCHANGED reserved, NEW o \in Writers,
           \A p \in Writers : p # o => op'[p] = op[p],
           Owned(op[o]) \subseteq Owned(op'[o])
    PROVE  ReservedInv'
<1>1. \A k \in active' : \E p \in Writers : k \in Owned(op'[p])
  BY OwnedFrame DEF reserved
<1> QED
  BY <1>1 DEF ReservedInv, reserved, Owned

\* The same for a step that changes one reservation.
LEMMA ReservingFrame ==
    ASSUME LedgerType, ReservedInv, NEW o \in Writers,
           \A p \in Writers : p # o => op'[p] = op[p],
           NEW k \in Keys, NEW n \in Nat, Reserving(k, n),
           \A j \in active' : j \in Owned(op'[o]) \/ (j \in active /\ j \notin Owned(op[o]))
    PROVE  ReservedInv'
<1>1. \A j \in active' : \E p \in Writers : j \in Owned(op'[p])
  BY OwnedFrame
<1>2. /\ reservedSize' = SumFunction(reservations')
      /\ \A j \in Keys \ active' : reservations'[j] = 0
  BY ReservingKeeps
<1> QED
  BY <1>1, <1>2 DEF ReservedInv, Owned

\* A failure keeps the reservations for the deferred releases.
LEMMA FailedOwned ==
    ASSUME IInv, NEW o \in Writers, NEW c \in BOOLEAN, Failed(o, c)
    PROVE  /\ \A p \in Writers : p # o => op'[p] = op[p]
           /\ Owned(op[o]) \subseteq Owned(op'[o])
<1>1. /\ \A p \in Writers : p # o => op'[p] = op[p]
      /\ op'[o].pc = IF c THEN "discard" ELSE "release"
      /\ op'[o].todo = op[o].keys /\ op'[o].keys = op[o].keys
  BY FailedFacts, WriterFacts
<1>2. Owned(op'[o]) = op[o].keys
  BY <1>1 DEF Owned, PreparePC
<1>3. Owned(op[o]) \subseteq op[o].keys
  BY WriterFacts DEF Owned, Consistent, OpType
<1> QED
  BY <1>1, <1>2, <1>3

\* A writer's step is its own.
LEMMA BecomesOwn ==
    ASSUME IInv, NEW o \in Writers, NEW x, Becomes(o, x)
    PROVE  op'[o] = x /\ \A p \in Writers : p # o => op'[p] = op[p]
<1>1. op \in [Writers -> OpType]
  BY WriterFacts
<1> QED
  BY <1>1, Zenon DEF Becomes

\* A writer that has reserved nothing yet may do as it likes.
LEMMA UnreservedStep ==
    ASSUME IInv, ReservedInv, NEW o \in Writers, UNCHANGED reserved,
           \E x : Becomes(o, x),
           \/ op[o].pc \in {"idle", "lock"}
           \/ op[o].pc = "begin" /\ op[o].todo = op[o].keys
    PROVE  ReservedInv'
<1>1. Owned(op[o]) = {}
  BY DEF Owned, PreparePC
<1>2. \A p \in Writers : p # o => op'[p] = op[p]
  BY BecomesOwn
<1> QED
  BY <1>1, <1>2, ReservedFrame

\* From beginReservation on the writer owns all its keys.
LEMMA OwnedAll ==
    ASSUME IInv, NEW o \in Writers,
           op[o].pc \in PreparePC \cup {"commit", "discard"}
    PROVE  Owned(op[o]) = op[o].keys
  BY DEF Owned, PreparePC

\* beginReservation enters a key that nobody has reserved.
LEMMA BeginReserved ==
    ASSUME IInv, ReservedInv, NEW o \in Writers, BeginReservation(o)
    PROVE  ReservedInv'
<1>1. PICK k \in op[o].todo :
        /\ active' = active \cup {k}
        /\ reservations' = [reservations EXCEPT ![k] = 0]
        /\ Becomes(o, Advance(op[o], k, "begin", "prepare"))
  BY Zenon DEF BeginReservation
<1>2. op[o].pc = "begin" /\ reservedSize' = reservedSize
  BY DEF BeginReservation
<1>3. /\ LedgerType /\ k \in Keys /\ k \in op[o].held
      /\ op[o].todo \subseteq op[o].keys
  BY <1>2, WriterFacts DEF OpType, Consistent
<1>4. Owned(op[o]) = op[o].keys \ op[o].todo
  BY <1>2 DEF Owned, PreparePC
<1>5. k \notin active
  BY <1>3, <1>4, OwnKey
<1>6. reservations[k] = 0 /\ reservedSize \in Int
  BY <1>3, <1>5 DEF ReservedInv, LedgerType
<1>7. reservedSize' = reservedSize - reservations[k] + 0
  BY <1>2, <1>6
<1>8. Reserving(k, 0)
  BY <1>1, <1>7, Zenon DEF Reserving
<1>9. /\ \A p \in Writers : p # o => op'[p] = op[p]
      /\ op'[o].keys = op[o].keys
      /\ op'[o].pc = IF op[o].todo = {k} THEN "prepare" ELSE "begin"
      /\ op'[o].todo = IF op[o].todo = {k} THEN op[o].keys
                                          ELSE op[o].todo \ {k}
  <2>1. "begin" \in WriterPC /\ "prepare" \in WriterPC
    BY DEF WriterPC, PreparePC
  <2> QED
    BY <1>1, <1>3, <2>1, AdvanceStep, WriterFacts, Zenon
<1>10. (op[o].keys \ op[o].todo) \cup {k} \subseteq Owned(op'[o])
  BY <1>3, <1>9 DEF Owned, PreparePC
<1>11. \A j \in active' : j \in Owned(op'[o]) \/ (j \in active /\ j \notin Owned(op[o]))
  BY <1>1, <1>4, <1>10
<1> QED
  BY <1>3, <1>8, <1>9, <1>11, ReservingFrame

\* reserveEntry, after its loop.
LEMMA ReserveEndReserved ==
    ASSUME IInv, ReservedInv, ReserveEnd
    PROVE  ReservedInv'
<1>1. PICK o \in Writers, k \in Keys :
      /\ o = walk.op /\ k = walk.key /\ walk.item \in Nat
      /\ op[o].pc \in {"prepare", "written"} /\ k \in op[o].todo
  BY AdmitFacts DEF ReserveEnd
<1>2. /\ LedgerType /\ size[k] \in Nat /\ reservations[k] \in Nat
      /\ reservedSize \in Int /\ k \in op[o].keys /\ k \in op[o].held
      /\ op[o].published \in BOOLEAN
  BY <1>1, WriterFacts DEF LedgerType, Consistent, OpType
<1>3. Owned(op[o]) = op[o].keys
  BY <1>1, OwnedAll DEF PreparePC
<1>4. CASE totalSize > TargetSize
  <2>1. Failed(o, op[o].published) /\ UNCHANGED reserved
    BY <1>1, <1>4 DEF ReserveEnd
  <2> QED
    BY <1>2, <2>1, FailedOwned, ReservedFrame
<1>5. CASE ~(totalSize > TargetSize)
  <2> DEFINE n == IF walk.item > size[k] THEN walk.item - size[k] ELSE 0
             x == IF op[o].pc = "prepare"
                    THEN [op[o] EXCEPT !.pc = "sized", !.key = k]
                    ELSE Advance(op[o], k, "prepare", "commit")
  <2>1. /\ reservedSize' = reservedSize + n - reservations[k]
        /\ reservations' = [reservations EXCEPT ![k] = n]
        /\ active' = active /\ Becomes(o, x)
    BY <1>1, <1>5 DEF ReserveEnd
  <2>2. n \in Nat
    BY <1>1, <1>2
  <2>3. x.keys = op[o].keys /\ x.pc \in {"sized", "prepare", "commit"}
    <3>1. op[o] \in OpType
      BY WriterFacts
    <3> QED
      BY <3>1, Zenon DEF OpType, Advance
  <2> HIDE DEF n, x
  <2>4. op'[o] = x /\ \A p \in Writers : p # o => op'[p] = op[p]
    BY <2>1, BecomesOwn
  <2>5. Owned(op'[o]) = op[o].keys
    BY <2>3, <2>4 DEF Owned, PreparePC
  <2>6. k \in active
    BY <1>1, <1>2, WriterFacts DEF Funded, Protected, PreparePC
  <2>7. reservedSize' = reservedSize - reservations[k] + n
    BY <1>2, <2>1, <2>2
  <2>8. Reserving(k, n)
    BY <2>1, <2>6, <2>7, Zenon DEF Reserving
  <2> QED
    BY <1>2, <1>3, <2>1, <2>2, <2>4, <2>5, <2>8, ReservingFrame
<1> QED
  BY <1>4, <1>5

\* trackEntry returns the key's reservation.
LEMMA TrackReserved ==
    ASSUME IInv, ReservedInv, NEW o \in Writers, Track(o)
    PROVE  ReservedInv'
<1>1. PICK k \in op[o].todo :
        /\ ReleaseReservation(k)
        /\ Becomes(o, Advance(op[o], k, "track", "release"))
  BY DEF Track
<1>2. op[o].pc = "track"
  BY DEF Track
<1>3. /\ LedgerType /\ k \in Keys /\ op[o].todo \subseteq op[o].keys
      /\ Owned(op[o]) = op[o].todo
  BY <1>2, WriterFacts DEF OpType, Consistent, Owned, PreparePC
<1>4. /\ \A p \in Writers : p # o => op'[p] = op[p]
      /\ op'[o].keys = op[o].keys
      /\ op'[o].pc = IF op[o].todo = {k} THEN "release" ELSE "track"
      /\ op'[o].todo = IF op[o].todo = {k} THEN op[o].keys
                                          ELSE op[o].todo \ {k}
  <2>1. "track" \in WriterPC /\ "release" \in WriterPC
    BY DEF WriterPC
  <2> QED
    BY <1>1, <1>3, <2>1, AdvanceStep, WriterFacts, Zenon
<1>5. op[o].todo \ {k} \subseteq Owned(op'[o])
  BY <1>3, <1>4 DEF Owned, PreparePC
<1>6. \A j \in active' : j \in Owned(op'[o]) \/ (j \in active /\ j \notin Owned(op[o]))
  BY <1>1, <1>3, <1>5 DEF ReleaseReservation
<1> QED
  BY <1>1, <1>3, <1>4, <1>6, ReleaseReserving, ReservingFrame

\* The deferred releases.
LEMMA ReleaseReserved ==
    ASSUME IInv, ReservedInv, NEW o \in Writers, Release(o)
    PROVE  ReservedInv'
<1>1. PICK k \in op[o].todo :
        /\ ReleaseReservation(k)
        /\ Becomes(o, IF op[o].todo = {k} THEN NoOp
                      ELSE Advance(op[o], k, "release", "release"))
  BY DEF Release
<1>2. op[o].pc = "release"
  BY DEF Release
<1>3. /\ LedgerType /\ k \in Keys /\ op[o] \in OpType
      /\ Owned(op[o]) = op[o].todo
  BY <1>2, WriterFacts DEF OpType, Owned, PreparePC
<1>4. \A p \in Writers : p # o => op'[p] = op[p]
  BY <1>1, BecomesOwn
<1>5. op[o].todo \ {k} \subseteq Owned(op'[o])
  <2>1. CASE op[o].todo # {k}
    <3>1. op'[o] = Advance(op[o], k, "release", "release")
      BY <1>1, <2>1, BecomesOwn
    <3>2. op'[o].pc = "release" /\ op'[o].todo = op[o].todo \ {k}
      BY <1>3, <2>1, <3>1, Zenon DEF Advance, OpType
    <3> QED
      BY <3>2 DEF Owned, PreparePC
  <2> QED
    BY <2>1
<1>6. \A j \in active' : j \in Owned(op'[o]) \/ (j \in active /\ j \notin Owned(op[o]))
  BY <1>1, <1>3, <1>5 DEF ReleaseReservation
<1> QED
  BY <1>1, <1>3, <1>4, <1>6, ReleaseReserving, ReservingFrame

\* Staging, publication and roll-back leave the reservations to their owner.
LEMMA KeepReserved ==
    ASSUME IInv, ReservedInv, NEW o \in Writers, UNCHANGED reserved,
           op[o].pc \in PreparePC \cup {"commit", "discard"},
           \E x : /\ Becomes(o, x) /\ x.keys = op[o].keys
                  /\ \/ x.pc \in PreparePC \cup {"commit", "discard"}
                     \/ x.pc \in {"track", "release"} /\ x.todo = op[o].keys
    PROVE  ReservedInv'
<1>1. Owned(op[o]) = op[o].keys
  BY OwnedAll
<1>2. PICK x : /\ Becomes(o, x) /\ x.keys = op[o].keys
               /\ \/ x.pc \in PreparePC \cup {"commit", "discard"}
                  \/ x.pc \in {"track", "release"} /\ x.todo = op[o].keys
  OBVIOUS
<1>3. Owned(x) = op[o].keys
  BY <1>2 DEF Owned, PreparePC
<1>4. op'[o] = x /\ \A p \in Writers : p # o => op'[p] = op[p]
  BY <1>2, BecomesOwn
<1> QED
  BY <1>1, <1>3, <1>4, ReservedFrame

\* Every step keeps the reservations exact and owned.
LEMMA ReservedStep ==
    ASSUME IInv, ReservedInv, Next
    PROVE  ReservedInv'
<1> DEFINE Kept == ReservedInv'
<1>1. ASSUME UNCHANGED reserved, op' = op PROVE Kept
  BY <1>1 DEF ReservedInv, reserved
<1>2. ASSUME NEW o \in Writers, NEW ks \in Transactions, Begin(o, ks)
      PROVE  Kept
  BY <1>2, UnreservedStep DEF Begin, Idle
<1>3. ASSUME NEW o \in Writers, Superseded(o) PROVE Kept
  BY <1>3, UnreservedStep DEF Superseded
<1>4. ASSUME NEW o \in Writers, NEW c \in BOOLEAN, Failed(o, c),
             UNCHANGED reserved
      PROVE  Kept
  BY <1>4, FailedOwned, ReservedFrame
<1>5. ASSUME NEW o \in Writers PROVE op[o].published \in BOOLEAN
  BY WriterFacts DEF OpType
<1>6. ASSUME NEW o \in Writers, NEW k, NEW n, Reserve(o, k, n) PROVE Kept
  BY <1>1, <1>4, <1>5, <1>6 DEF Reserve
<1> HIDE DEF Kept
<1>7. ASSUME NEW o \in Writers, WriterStep(o) PROVE Kept
  <2>0. op[o] \in OpType /\ Consistent(op[o])
    BY WriterFacts
  <2>1. CASE LockKey(o)
    BY <2>1, UnreservedStep DEF LockKey, Kept
  <2>2. CASE BeginReservation(o)
    BY <2>2, BeginReserved DEF Kept
  <2>3. CASE \/ \E k \in Keys, n \in Sizes : ReserveExpected(o, k, n)
             \/ ReserveWritten(o)
    BY <1>6, <2>3 DEF ReserveExpected, ReserveWritten
  <2>4. ASSUME NEW k \in Keys, NEW n \in Sizes, StageBody(o, k, n)
        PROVE  Kept
    <3> DEFINE x == [op[o] EXCEPT !.pc = "written", !.key = k,
                                  !.item = [@ EXCEPT ![k] = n],
                                  !.published = @ \/ InPlace]
    <3>1. x.keys = op[o].keys /\ x.pc \in PreparePC
      BY <2>0, Zenon DEF OpType, PreparePC
    <3>2. Becomes(o, x) /\ UNCHANGED reserved /\ op[o].pc \in PreparePC
      BY <2>4 DEF StageBody, PreparePC
    <3> HIDE DEF x
    <3> QED
      BY <3>1, <3>2, KeepReserved DEF Kept
  <2>5. CASE StageFail(o)
    BY <1>4, <1>5, <2>5 DEF StageFail
  <2>6. CASE Commit(o)
    <3>1. PICK done \in SUBSET op[o].keys :
            IF done = op[o].keys
              THEN Becomes(o, [op[o] EXCEPT !.pc = "track"])
              ELSE Failed(o, done # {})
      BY <2>6 DEF Commit
    <3>2. UNCHANGED reserved /\ op[o].pc = "commit" /\ op[o].todo = op[o].keys
      BY <2>0, <2>6 DEF Commit, Consistent
    <3>3. CASE done = op[o].keys
      <4> DEFINE x == [op[o] EXCEPT !.pc = "track"]
      <4>1. x.keys = op[o].keys /\ x.pc = "track" /\ x.todo = op[o].todo
        BY <2>0, Zenon DEF OpType
      <4>2. Becomes(o, x)
        BY <3>1, <3>3
      <4> HIDE DEF x
      <4> QED
        BY <3>2, <4>1, <4>2, KeepReserved DEF Kept
    <3>4. CASE done # op[o].keys
      BY <1>4, <3>1, <3>2, <3>4, Zenon
    <3> QED
      BY <3>3, <3>4
  <2>7. CASE Track(o)
    BY <2>7, TrackReserved DEF Kept
  <2>8. CASE Discard(o)
    <3>1. PICK k \in op[o].todo :
            Becomes(o, Advance(op[o], k, "discard", "release"))
      BY <2>8 DEF Discard
    <3> DEFINE x == Advance(op[o], k, "discard", "release")
    <3>2. UNCHANGED reserved /\ op[o].pc = "discard"
      BY <2>8 DEF Discard
    <3>3. /\ x.keys = op[o].keys
          /\ x.pc = IF op[o].todo = {k} THEN "release" ELSE "discard"
          /\ x.todo = IF op[o].todo = {k} THEN op[o].keys ELSE op[o].todo \ {k}
      BY <2>0, Zenon DEF OpType, Advance
    <3>4. Becomes(o, x)
      BY <3>1
    <3> HIDE DEF x
    <3>5. x.pc = "discard" \/ (x.pc = "release" /\ x.todo = op[o].keys)
      BY <3>3
    <3> QED
      BY <3>2, <3>3, <3>4, <3>5, KeepReserved DEF Kept
  <2>9. CASE Release(o)
    BY <2>9, ReleaseReserved DEF Kept
  <2> QED
    BY <1>7, <2>1, <2>2, <2>3, <2>4, <2>5, <2>6, <2>7, <2>8, <2>9 DEF WriterStep
<1>8. ASSUME NEW k \in Keys, Visit(k) \/ Touch(k) \/ DiscardCorrupt(k)
      PROVE  Kept
  BY <1>1, <1>8 DEF Visit, Touch, DiscardCorrupt
<1>9. ASSUME ReserveEnd PROVE Kept
  BY <1>9, ReserveEndReserved DEF Kept
<1>10. ASSUME CleanupEnd PROVE Kept
  BY <1>1, <1>10 DEF CleanupEnd
<1>11. ASSUME NEW kind \in {"ttl", "size", "purge"}, Cleanup(kind) PROVE Kept
  BY <1>1, <1>11 DEF Cleanup
<1>12. Kept
  BY <1>2, <1>3, <1>7, <1>8, <1>9, <1>10, <1>11 DEF Next, WalkStep
<1> QED
  BY <1>12 DEF Kept

------------------------------------------------------------------------------
(* Published bytes, with staging and a backend that removes what it is     *)
(* asked to.                                                               *)

\* With staging nothing is published before the commit.
LEMMA NoPending ==
    ASSUME IInv, ~InPlace, NEW o \in Writers, op[o].pc \notin {"track", "discard"}
    PROVE  Pending(op[o]) = {}
  BY WriterFacts DEF Pending, Consistent, PreparePC

\* A writer with nothing published, in a step that moves no bytes.
LEMMA BytesQuiet ==
    ASSUME IInv, BytesInv, ~InPlace, NEW o \in Writers,
           op[o].pc \notin {"track", "discard"},
           op'[o].pc \notin {"track", "discard"},
           \A p \in Writers : p # o => op'[p] = op[p],
           size' = size, disk' = disk,
           \A k \in Keys : k \notin op[o].held => reservations'[k] = reservations[k]
    PROVE  BytesInv'
<1>1. Pending(op[o]) = {}
  BY NoPending
<1>2. ASSUME NEW k \in Keys, ~(disk'[k] <= size'[k])
      PROVE  \E p \in Writers : k \in Pending(op'[p])
  <2>1. PICK p \in Writers : k \in Pending(op[p])
    BY <1>2 DEF BytesInv
  <2>2. p # o
    BY <1>1, <2>1
  <2> QED
    BY <2>1, <2>2
<1>3. ASSUME NEW p \in Writers PROVE Answered(op[p])'
  <2>1. CASE p = o
    BY <2>1 DEF Answered
  <2>2. CASE p # o
    <3>1. op'[p] = op[p] /\ Answered(op[p]) /\ op[p].todo \subseteq Keys
      BY <2>2, WriterFacts DEF BytesInv, OpType
    <3>2. ASSUME NEW k \in op[p].todo, op[p].pc = "discard"
          PROVE  reservations'[k] = reservations[k]
      <4>1. k \in Held(p)
        BY <3>2, WriterFacts DEF Consistent, Held
      <4> QED
        BY <2>2, <3>1, <4>1, WriterFacts
    <3> QED
      BY <3>1, <3>2 DEF Answered
  <2> QED
    BY <2>1, <2>2
<1> QED
  BY <1>2, <1>3 DEF BytesInv, Pending

\* A writer that moves the bytes of its own keys and answers for them.
LEMMA BytesFrame ==
    ASSUME IInv, BytesInv, NEW o \in Writers,
           \A p \in Writers : p # o => op'[p] = op[p],
           \A k \in Keys : k \notin op[o].held =>
             /\ size'[k] = size[k] /\ disk'[k] = disk[k]
             /\ reservations'[k] = reservations[k],
           \A k \in op[o].held : disk'[k] <= size'[k] \/ k \in Pending(op'[o]),
           Answered(op[o])'
    PROVE  BytesInv'
<1>1. ASSUME NEW k \in Keys, ~(disk'[k] <= size'[k])
      PROVE  \E p \in Writers : k \in Pending(op'[p])
  <2>1. CASE k \in op[o].held
    BY <1>1, <2>1
  <2>2. CASE k \notin op[o].held
    <3>1. PICK p \in Writers : k \in Pending(op[p])
      BY <1>1, <2>2 DEF BytesInv
    <3>2. p # o
      BY <2>2, <3>1, ProtectedHeld, WriterFacts
    <3> QED
      BY <3>1, <3>2
  <2> QED
    BY <2>1, <2>2
<1>2. ASSUME NEW p \in Writers, p # o PROVE Answered(op[p])'
  <2>1. op'[p] = op[p] /\ Answered(op[p]) /\ op[p].todo \subseteq Keys
    BY <1>2, WriterFacts DEF BytesInv, OpType
  <2>2. ASSUME NEW k \in op[p].todo, op[p].pc \in {"track", "discard"}
        PROVE  /\ size'[k] = size[k] /\ disk'[k] = disk[k]
               /\ reservations'[k] = reservations[k]
    <3>1. k \in Held(p)
      BY <2>2, WriterFacts DEF Consistent, Held
    <3> QED
      BY <1>2, <2>1, <3>1, WriterFacts
  <2> QED
    BY <2>1, <2>2 DEF Answered
<1> QED
  BY <1>1, <1>2 DEF BytesInv, Pending

\* An entry removed is an entry paid.
LEMMA BytesRemoved ==
    ASSUME IInv, BytesInv, NEW k \in Keys, Removed(k), op' = op,
           reservations' = reservations
    PROVE  BytesInv'
<1>1. /\ disk'[k] = 0 /\ size'[k] = 0
      /\ \A j \in Keys : j # k => disk'[j] = disk[j] /\ size'[j] = size[j]
  BY DEF Removed, IInv, TypeOK, LedgerType
<1>2. ASSUME NEW p \in Writers PROVE Answered(op[p])'
  <2>1. Answered(op[p]) /\ op[p].todo \subseteq Keys
    BY WriterFacts DEF BytesInv, OpType
  <2>2. op[p].item \in [Keys -> Nat] /\ reservations \in [Keys -> Nat]
    BY WriterFacts DEF OpType, LedgerType
  <2> QED
    BY <1>1, <2>1, <2>2 DEF Answered
<1>3. ASSUME NEW j \in Keys, ~(disk'[j] <= size'[j])
      PROVE  \E p \in Writers : j \in Pending(op'[p])
  BY <1>1, <1>3 DEF BytesInv
<1> QED
  BY <1>2, <1>3 DEF BytesInv, Pending

\* What is not charged of a key belongs to the writer that holds it.
LEMMA OwnBytes ==
    ASSUME IInv, BytesInv, NEW o \in Writers, NEW k \in op[o].held
    PROVE  disk[k] <= size[k] \/ k \in Pending(op[o])
<1> SUFFICES ASSUME ~(disk[k] <= size[k]) PROVE k \in Pending(op[o])
  OBVIOUS
<1>1. k \in Keys
  BY WriterFacts DEF OpType
<1>2. PICK p \in Writers : k \in Pending(op[p])
  BY <1>1 DEF BytesInv
<1>3. k \in op[p].held
  BY <1>2, ProtectedHeld, WriterFacts
<1>4. p = o
  BY <1>3, WriterFacts DEF Held
<1> QED
  BY <1>2, <1>4

\* commitStagedLocked publishes what was admitted, all of it or some.
LEMMA CommitBytes ==
    ASSUME IInv, BytesInv, ~InPlace, NEW o \in Writers, Commit(o)
    PROVE  BytesInv'
<1>1. PICK done \in SUBSET op[o].keys :
        /\ disk' = [k \in Keys |-> IF k \in done THEN op[o].item[k] ELSE disk[k]]
        /\ IF done = op[o].keys
             THEN Becomes(o, [op[o] EXCEPT !.pc = "track"])
             ELSE Failed(o, done # {})
  BY DEF Commit
<1>2. /\ op[o].pc = "commit" /\ size' = size /\ reservations' = reservations
      /\ op[o] \in OpType /\ op[o].todo = op[o].keys /\ op[o].held = op[o].keys
      /\ op[o].keys \subseteq Keys /\ LedgerType
  BY WriterFacts DEF Commit, ledger, reserved, Consistent, OpType
<1>3. ASSUME NEW k \in op[o].keys
      PROVE  /\ disk'[k] = (IF k \in done THEN op[o].item[k] ELSE disk[k])
             /\ op[o].item[k] <= size[k] + reservations[k]
             /\ disk[k] <= size[k]
             /\ size[k] \in Nat /\ reservations[k] \in Nat /\ disk[k] \in Nat
             /\ op[o].item[k] \in Nat
  <2>1. k \in Keys /\ k \in op[o].held
    BY <1>2
  <2>2. Pending(op[o]) = {} /\ k \in Admitted(op[o])
    BY <1>2, NoPending DEF Admitted, PreparePC
  <2>3. disk[k] <= size[k]
    BY <2>1, <2>2, OwnBytes
  <2> QED
    BY <1>1, <1>2, <2>1, <2>2, <2>3, WriterFacts DEF Funded, LedgerType, OpType
<1>4. \A k \in Keys : k \notin op[o].held =>
        /\ size'[k] = size[k] /\ disk'[k] = disk[k]
        /\ reservations'[k] = reservations[k]
  BY <1>1, <1>2
<1>5. CASE done = op[o].keys
  <2> DEFINE x == [op[o] EXCEPT !.pc = "track"]
  <2>1. x.pc = "track" /\ x.todo = op[o].keys /\ x.item = op[o].item
    BY <1>2, Zenon DEF OpType
  <2>2. Becomes(o, x)
    BY <1>1, <1>5
  <2> HIDE DEF x
  <2>3. op'[o] = x /\ \A p \in Writers : p # o => op'[p] = op[p]
    BY <2>2, BecomesOwn
  <2>4. Pending(op'[o]) = op[o].keys
    BY <2>1, <2>3 DEF Pending, PreparePC
  <2>5. Answered(op[o])'
    BY <1>3, <1>5, <2>1, <2>3 DEF Answered
  <2> QED
    BY <1>2, <1>4, <2>3, <2>4, <2>5, BytesFrame
<1>6. CASE done # op[o].keys
  <2>1. (done # {}) \in BOOLEAN /\ Failed(o, done # {})
    BY <1>1, <1>6
  <2>2. /\ \A p \in Writers : p # o => op'[p] = op[p]
        /\ op'[o].pc = IF done # {} THEN "discard" ELSE "release"
        /\ op'[o].todo = op[o].keys
    BY <2>1, FailedFacts, WriterFacts, Zenon
  <2>3. CASE done = {}
    <3>1. disk' = disk
      BY <1>1, <1>2, <2>3 DEF LedgerType
    <3> QED
      BY <1>2, <2>2, <2>3, <3>1, BytesQuiet
  <2>4. CASE done # {}
    <3>1. Pending(op'[o]) = op[o].keys
      BY <2>2, <2>4 DEF Pending, PreparePC
    <3>2. Answered(op[o])'
      BY <1>2, <1>3, <2>2, <2>4 DEF Answered
    <3> QED
      BY <1>2, <1>4, <2>2, <3>1, <3>2, BytesFrame
  <2> QED
    BY <2>3, <2>4
<1> QED
  BY <1>5, <1>6

\* A writer that settles one of its keys: the key is paid, the others wait.
LEMMA SettleBytes ==
    ASSUME IInv, BytesInv, NEW o \in Writers, NEW k \in op[o].todo,
           NEW now \in {"track", "discard"}, op[o].pc = now,
           Becomes(o, Advance(op[o], k, now, "release")),
           disk'[k] <= size'[k],
           \A j \in Keys : j # k =>
             /\ size'[j] = size[j] /\ disk'[j] = disk[j]
             /\ reservations'[j] = reservations[j]
    PROVE  BytesInv'
<1>1. /\ op[o] \in OpType /\ op[o].held = op[o].keys /\ op[o].keys \subseteq Keys
      /\ op[o].todo \subseteq op[o].keys /\ Answered(op[o])
  BY WriterFacts, Zenon DEF Consistent, OpType, BytesInv
<1>2. k \in Keys
  BY <1>1
<1>3. /\ \A p \in Writers : p # o => op'[p] = op[p]
      /\ op'[o].item = op[o].item
      /\ op'[o].pc = IF op[o].todo = {k} THEN "release" ELSE now
      /\ op'[o].todo = IF op[o].todo = {k} THEN op[o].keys
                                          ELSE op[o].todo \ {k}
  <2> DEFINE x == Advance(op[o], k, now, "release")
  <2>1. /\ x.item = op[o].item
        /\ x.pc = IF op[o].todo = {k} THEN "release" ELSE now
        /\ x.todo = IF op[o].todo = {k} THEN op[o].keys ELSE op[o].todo \ {k}
    BY <1>1, Zenon DEF OpType, Advance
  <2> HIDE DEF x
  <2>2. Becomes(o, x)
    BY DEF x
  <2>3. op'[o] = x /\ \A p \in Writers : p # o => op'[p] = op[p]
    BY <2>2, BecomesOwn
  <2> QED
    BY <2>1, <2>3
<1>4. Pending(op[o]) = op[o].todo
  BY DEF Pending, PreparePC
<1>5. op[o].todo \ {k} \subseteq Pending(op'[o])
  BY <1>3 DEF Pending, PreparePC
<1>6. ASSUME NEW j \in op[o].held
      PROVE  disk'[j] <= size'[j] \/ j \in Pending(op'[o])
  BY <1>1, <1>4, <1>5, OwnBytes
<1>7. Answered(op[o])'
  <2>1. CASE op[o].todo = {k}
    BY <1>3, <2>1 DEF Answered
  <2>2. CASE op[o].todo # {k}
    BY <1>1, <1>3, <2>2 DEF Answered
  <2> QED
    BY <2>1, <2>2
<1> QED
  BY <1>1, <1>2, <1>3, <1>6, <1>7, BytesFrame

\* Every step keeps published bytes charged or answered for.
LEMMA BytesStep ==
    ASSUME IInv, BytesInv, ~InPlace, Faults = {}, Next
    PROVE  BytesInv'
<1> DEFINE Kept == BytesInv'
<1>0. LedgerType
  BY DEF IInv, TypeOK
<1>1. ASSUME size' = size, disk' = disk, reservations' = reservations, op' = op
      PROVE  Kept
  BY <1>1 DEF BytesInv, Answered
<1>2. ASSUME NEW o \in Writers, NEW x, Becomes(o, x),
             op[o].pc \notin {"track", "discard"},
             x.pc \notin {"track", "discard"},
             size' = size, disk' = disk, reservations' = reservations
      PROVE  Kept
  BY <1>2, BecomesOwn, BytesQuiet
<1>3. ASSUME NEW o \in Writers, Failed(o, op[o].published),
             op[o].pc \in PreparePC \cup {"commit"},
             size' = size, disk' = disk, reservations' = reservations
      PROVE  Kept
  <2>1. ~op[o].published /\ op[o].published \in BOOLEAN
    BY <1>3, WriterFacts DEF Consistent, OpType
  <2>2. /\ \A p \in Writers : p # o => op'[p] = op[p]
        /\ op'[o].pc = "release"
    BY <1>3, <2>1, FailedFacts, WriterFacts
  <2>3. op[o].pc \notin {"track", "discard"}
    BY <1>3 DEF PreparePC
  <2> QED
    BY <1>3, <2>2, <2>3, BytesQuiet
<1>4. ASSUME NEW k \in Keys, Removed(k), op' = op, reservations' = reservations
      PROVE  Kept
  BY <1>4, BytesRemoved
<1> HIDE DEF Kept
<1>5. ASSUME NEW o \in Writers, NEW k, NEW n, Reserve(o, k, n),
             op[o].pc \in PreparePC
      PROVE  Kept
  BY <1>1, <1>3, <1>5 DEF Reserve, ledger, reserved
<1>6. ASSUME NEW k \in Keys, NEW n, Discarded(k, n) PROVE Removed(k)
  BY <1>6 DEF Discarded
<1>7. ASSUME NEW o \in Writers, WriterStep(o) PROVE Kept
  <2>0. op[o] \in OpType
    BY WriterFacts
  <2>1. CASE LockKey(o)
    <3>1. PICK k \in op[o].todo :
            Becomes(o, [Advance(op[o], k, "lock", "begin") EXCEPT !.held = @ \cup {k}])
      BY <2>1, Zenon DEF LockKey
    <3> DEFINE x == [Advance(op[o], k, "lock", "begin") EXCEPT !.held = @ \cup {k}]
    <3>2. x.pc \in {"lock", "begin"}
      BY <2>0, Zenon DEF OpType, Advance
    <3> HIDE DEF x
    <3>3. Becomes(o, x)
      BY <3>1 DEF x
    <3> QED
      BY <1>2, <2>1, <3>2, <3>3 DEF LockKey, ledger, reserved
  <2>2. CASE BeginReservation(o)
    <3>1. PICK k \in op[o].todo :
            /\ reservations' = [reservations EXCEPT ![k] = 0]
            /\ Becomes(o, Advance(op[o], k, "begin", "prepare"))
      BY <2>2, Zenon DEF BeginReservation
    <3>2. op[o].pc = "begin" /\ size' = size /\ disk' = disk
      BY <2>2 DEF BeginReservation, ledger
    <3>3. k \in op[o].held
      BY <3>2, WriterFacts DEF Consistent
    <3>4. \A j \in Keys : j \notin op[o].held => reservations'[j] = reservations[j]
      BY <1>0, <3>1, <3>3 DEF LedgerType
    <3>5. Advance(op[o], k, "begin", "prepare").pc \in {"begin", "prepare"}
      BY <2>0, Zenon DEF OpType, Advance
    <3> QED
      BY <3>1, <3>2, <3>4, <3>5, BecomesOwn, BytesQuiet DEF Kept
  <2>3. CASE \/ \E k \in Keys, n \in Sizes : ReserveExpected(o, k, n)
             \/ ReserveWritten(o)
    BY <1>5, <2>3 DEF ReserveExpected, ReserveWritten, PreparePC
  <2>4. ASSUME NEW k \in Keys, NEW n \in Sizes, StageBody(o, k, n)
        PROVE  Kept
    <3> DEFINE x == [op[o] EXCEPT !.pc = "written", !.key = k,
                                  !.item = [@ EXCEPT ![k] = n],
                                  !.published = @ \/ InPlace]
    <3>1. x.pc = "written"
      BY <2>0, Zenon DEF OpType
    <3>2. /\ Becomes(o, x) /\ op[o].pc \in {"prepare", "sized"}
          /\ size' = size /\ disk' = disk /\ reservations' = reservations
      BY <2>4 DEF StageBody, ledger, reserved
    <3> HIDE DEF x
    <3> QED
      BY <1>2, <3>1, <3>2
  <2>5. CASE StageFail(o)
    BY <1>3, <2>5 DEF StageFail, ledger, reserved
  <2>6. CASE Commit(o)
    BY <2>6, CommitBytes DEF Kept
  <2>7. CASE Track(o)
    <3>1. PICK k \in op[o].todo :
            /\ size' = [size EXCEPT ![k] = op[o].item[k]]
            /\ ReleaseReservation(k)
            /\ Becomes(o, Advance(op[o], k, "track", "release"))
      BY <2>7, Zenon DEF Track
    <3>2. op[o].pc = "track" /\ disk' = disk /\ k \in Keys
      BY <2>0, <2>7 DEF Track, OpType
    <3>3. disk[k] <= op[o].item[k]
      BY <3>2 DEF BytesInv, Answered
    <3>4. /\ disk'[k] <= size'[k]
          /\ \A j \in Keys : j # k =>
               /\ size'[j] = size[j] /\ disk'[j] = disk[j]
               /\ reservations'[j] = reservations[j]
      BY <1>0, <3>1, <3>2, <3>3 DEF LedgerType, ReleaseReservation
    <3> QED
      BY <3>1, <3>2, <3>4, SettleBytes DEF Kept
  <2>8. CASE Discard(o)
    <3>1. PICK k \in op[o].todo :
            /\ Discarded(k, op[o].item[k])
            /\ Becomes(o, Advance(op[o], k, "discard", "release"))
      BY <2>8 DEF Discard
    <3>2. op[o].pc = "discard" /\ reservations' = reservations /\ k \in Keys
      BY <2>0, <2>8 DEF Discard, reserved, OpType
    <3>3. Removed(k)
      BY <1>6, <3>1, <3>2
    <3>4. /\ disk'[k] <= size'[k]
          /\ \A j \in Keys : j # k => size'[j] = size[j] /\ disk'[j] = disk[j]
      BY <1>0, <3>2, <3>3 DEF LedgerType, Removed
    <3> QED
      BY <3>1, <3>2, <3>4, SettleBytes DEF Kept
  <2>9. CASE Release(o)
    <3>1. PICK k \in op[o].todo :
            /\ ReleaseReservation(k)
            /\ Becomes(o, IF op[o].todo = {k} THEN NoOp
                          ELSE Advance(op[o], k, "release", "release"))
      BY <2>9 DEF Release
    <3>2. op[o].pc = "release" /\ size' = size /\ disk' = disk
      BY <2>9 DEF Release, ledger
    <3>3. k \in op[o].held
      BY <3>2, WriterFacts DEF Consistent
    <3>4. \A j \in Keys : j \notin op[o].held => reservations'[j] = reservations[j]
      BY <1>0, <3>1, <3>3 DEF LedgerType, ReleaseReservation
    <3>5. /\ Advance(op[o], k, "release", "release").pc = "release"
          /\ NoOp.pc = "idle"
      BY <2>0, Zenon DEF OpType, Advance, NoOp
    <3>6. op'[o].pc \in {"idle", "release"} /\ \A p \in Writers : p # o => op'[p] = op[p]
      BY <3>1, <3>5, BecomesOwn
    <3> QED
      BY <3>2, <3>4, <3>6, BytesQuiet DEF Kept
  <2> QED
    BY <1>7, <2>1, <2>2, <2>3, <2>4, <2>5, <2>6, <2>7, <2>8, <2>9 DEF WriterStep
<1>8. ASSUME NEW k \in Keys, Visit(k) \/ Touch(k) \/ DiscardCorrupt(k)
      PROVE  Kept
  <2>1. op' = op /\ reservations' = reservations
    BY <1>8 DEF Visit, Touch, DiscardCorrupt, reserved
  <2>2. Removed(k) \/ (size' = size /\ disk' = disk)
    BY <1>6, <1>8 DEF Visit, Touch, DiscardCorrupt, ledger
  <2> QED
    BY <1>1, <1>4, <2>1, <2>2
<1>9. ASSUME ReserveEnd PROVE Kept
  <2>1. PICK o \in Writers, k \in Keys :
        /\ o = walk.op /\ k = walk.key
        /\ op[o].pc \in {"prepare", "written"} /\ k \in op[o].todo
    BY <1>9, AdmitFacts DEF ReserveEnd
  <2>2. size' = size /\ disk' = disk /\ op[o] \in OpType /\ k \in op[o].held
    BY <1>9, <2>1, WriterFacts DEF ReserveEnd, ledger, Consistent
  <2>3. CASE totalSize > TargetSize
    BY <1>3, <1>9, <2>1, <2>2, <2>3 DEF ReserveEnd, reserved, PreparePC
  <2>4. CASE ~(totalSize > TargetSize)
    <3> DEFINE x == IF op[o].pc = "prepare"
                      THEN [op[o] EXCEPT !.pc = "sized", !.key = k]
                      ELSE Advance(op[o], k, "prepare", "commit")
    <3>1. x.pc \in {"sized", "prepare", "commit"}
      BY <2>2, Zenon DEF OpType, Advance
    <3>2. Becomes(o, x) /\ \E n : reservations' = [reservations EXCEPT ![k] = n]
      BY <1>9, <2>1, <2>4 DEF ReserveEnd
    <3> HIDE DEF x
    <3>3. \A j \in Keys : j \notin op[o].held => reservations'[j] = reservations[j]
      BY <1>0, <2>2, <3>2 DEF LedgerType
    <3> QED
      BY <2>1, <2>2, <3>1, <3>2, <3>3, BecomesOwn, BytesQuiet DEF Kept
  <2> QED
    BY <2>3, <2>4
<1>10. ASSUME CleanupEnd PROVE Kept
  BY <1>1, <1>10 DEF CleanupEnd, ledger, reserved
<1>11. ASSUME NEW kind \in {"ttl", "size", "purge"}, Cleanup(kind) PROVE Kept
  BY <1>1, <1>11 DEF Cleanup, ledger, reserved
<1>12. ASSUME NEW o \in Writers, NEW ks \in Transactions, Begin(o, ks)
       PROVE  Kept
  <2>1. [NoOp EXCEPT !.pc = "lock", !.keys = ks, !.todo = ks].pc = "lock"
    BY Zenon DEF NoOp
  <2> QED
    BY <1>2, <1>12, <2>1, Zenon DEF Begin, Idle, ledger, reserved
<1>13. ASSUME NEW o \in Writers, Superseded(o) PROVE Kept
  BY <1>2, <1>13 DEF Superseded, NoOp, ledger, reserved
<1>14. Kept
  BY <1>7, <1>8, <1>9, <1>10, <1>11, <1>12, <1>13 DEF Next, WalkStep
<1> QED
  BY <1>14 DEF Kept

------------------------------------------------------------------------------
(* The loops over the LRU list.                                            *)

\* A visit takes the last key off the list.
LEMMA FrontFacts ==
    ASSUME NEW r \in Seq(Keys), r # <<>>
    PROVE  /\ SubSeq(r, 1, Len(r) - 1) \in Seq(Keys)
           /\ Range(r) = Range(SubSeq(r, 1, Len(r) - 1)) \cup {r[Len(r)]}
<1> DEFINE n == Len(r)
           q == SubSeq(r, 1, n - 1)
<1>1. n \in Nat /\ n > 0 /\ DOMAIN r = 1..n /\ n \in DOMAIN r
  OBVIOUS
<1>2. q \in Seq(Keys) /\ DOMAIN q = 1..(n - 1) /\ \A i \in 1..(n - 1) : q[i] = r[i]
  OBVIOUS
<1> HIDE DEF q, n
<1>3. \A i \in 1..n : i = n \/ i \in 1..(n - 1)
  BY <1>1
<1>4. \A i \in 1..(n - 1) : i \in 1..n
  BY <1>1
<1>5. Range(r) = Range(q) \cup {r[n]}
  BY <1>1, <1>2, <1>3, <1>4 DEF Range
<1> QED
  BY <1>2, <1>5 DEF q, n

\* Every step keeps the loops' account of what they left behind.
LEMMA LoopStep ==
    ASSUME IInv, IndexInv, LoopInv, Next
    PROVE  LoopInv'
<1> DEFINE Kept == LoopInv'
<1>1. ASSUME walk' = NoWalk, rest' \in Seq(Keys) PROVE Kept
  BY <1>1 DEF LoopInv, NoWalk
<1>2. ASSUME walk = NoWalk, walk' = walk, rest' = rest PROVE Kept
  BY <1>2 DEF LoopInv, NoWalk
<1>3. ASSUME UNCHANGED loop, size' = size, active' = active PROVE Kept
  BY <1>3 DEF LoopInv, loop, Scan
<1>4. ASSUME NEW w, StartWalk(w), size' = size PROVE Kept
  BY <1>4 DEF LoopInv, StartWalk, IndexInv, Scan
<1> HIDE DEF Kept
<1>5. ASSUME NEW o \in Writers, NEW k, NEW n, Reserve(o, k, n) PROVE Kept
  BY <1>3, <1>4, <1>5 DEF Reserve, ledger, reserved
<1>6. ASSUME NEW o \in Writers, WriterStep(o) PROVE Kept
  <2>1. CASE LockKey(o) \/ StageFail(o) \/ Commit(o)
    BY <1>3, <2>1 DEF LockKey, StageFail, Commit, ledger, reserved
  <2>2. CASE BeginReservation(o) \/ Track(o) \/ Discard(o) \/ Release(o)
    BY <1>2, <2>2 DEF BeginReservation, Track, Discard, Release, Unlocked, loop
  <2>3. CASE \/ \E k \in Keys, n \in Sizes : ReserveExpected(o, k, n)
             \/ ReserveWritten(o)
    BY <1>5, <2>3 DEF ReserveExpected, ReserveWritten
  <2>4. CASE \E k \in Keys, n \in Sizes : StageBody(o, k, n)
    BY <1>3, <2>4 DEF StageBody, ledger, reserved
  <2> QED
    BY <1>6, <2>1, <2>2, <2>3, <2>4 DEF WriterStep
<1>7. ASSUME NEW k \in Keys, Visit(k) PROVE Kept
  <2>1. /\ rest \in Seq(Keys) /\ rest # <<>> /\ k = rest[Len(rest)]
        /\ rest' = SubSeq(rest, 1, Len(rest) - 1)
        /\ walk' = walk /\ active' = active
    BY <1>7 DEF Visit, LoopInv, reserved
  <2>2. rest' \in Seq(Keys) /\ Range(rest) = Range(rest') \cup {k}
    BY <2>1, FrontFacts
  <2>3. ASSUME Faults = {}, walk.kind \in {"admit", "size"},
               NEW j \in Scan(size')
        PROVE  j \in Range(rest') \cup active \/ (walk.kind = "admit" /\ j = walk.key)
    <3>1. j \in Scan(size) /\ (j = k => Skipped(k))
      <4>1. size \in [Keys -> Nat] /\ j \in Keys /\ size'[j] > 0
        BY <2>3 DEF IInv, TypeOK, LedgerType, Scan
      <4>2. CASE Removed(k)
        BY <4>1, <4>2 DEF Removed, Scan
      <4>3. CASE size' = size /\ Skipped(k)
        BY <4>1, <4>3 DEF Scan
      <4> QED
        BY <1>7, <2>3, <4>2, <4>3 DEF Visit, ledger
    <3>2. \/ j \in Range(rest') \cup {k} \cup active
          \/ walk.kind = "admit" /\ j = walk.key
      BY <2>2, <2>3, <3>1 DEF LoopInv
    <3> QED
      BY <3>1, <3>2 DEF Skipped
  <2> QED
    BY <2>1, <2>2, <2>3 DEF LoopInv, Kept, Scan
<1>8. ASSUME ReserveEnd \/ CleanupEnd PROVE Kept
  <2>1. walk' = NoWalk /\ rest' = <<>>
    BY <1>8 DEF ReserveEnd, CleanupEnd, EndWalk
  <2>2. <<>> \in Seq(Keys)
    OBVIOUS
  <2> QED
    BY <1>1, <2>1, <2>2
<1>9. ASSUME NEW kind \in {"ttl", "size", "purge"}, Cleanup(kind) PROVE Kept
  BY <1>4, <1>9 DEF Cleanup, ledger
<1>10. ASSUME NEW k \in Keys, Touch(k) \/ DiscardCorrupt(k) PROVE Kept
  BY <1>2, <1>10 DEF Touch, DiscardCorrupt, Unlocked, loop
<1>11. ASSUME NEW o \in Writers, NEW ks \in Transactions, Begin(o, ks)
       PROVE  Kept
  BY <1>3, <1>11 DEF Begin, ledger, reserved
<1>12. ASSUME NEW o \in Writers, Superseded(o) PROVE Kept
  BY <1>3, <1>12 DEF Superseded, ledger, reserved
<1>13. Kept
  BY <1>6, <1>7, <1>8, <1>9, <1>10, <1>11, <1>12 DEF Next, WalkStep
<1> QED
  BY <1>13 DEF Kept

------------------------------------------------------------------------------
(* The invariant and what follows from it.                                 *)

\* The books are right after scanExistingCache.
LEMMA InitLedger == Init => LInv
<1> SUFFICES ASSUME Init PROVE LInv
  OBVIOUS
<1>1. PICK s \in Scans :
        size = s /\ disk = s /\ lru \in Listings(s) /\ totalSize = SumFunction(s)
  BY DEF Init
<1>2. s \in [Keys -> Nat] /\ IsFiniteSet(Keys) /\ Scan(s) \subseteq Keys
  BY AdmissionAssumption DEF Scan
<1>3. Cardinality(Scan(s)) \in Nat
  BY <1>2, FS_Subset, FS_CardinalityType
<1>4. lru \in Seq(Keys) /\ IsInjective(lru) /\ Range(lru) = Scan(size)
  <2> DEFINE n == Cardinality(Scan(s))
  <2>1. lru \in Bijection(1..n, Scan(s))
    BY <1>1 DEF Listings
  <2> HIDE DEF n
  <2>2. /\ lru \in [1..n -> Scan(s)] /\ IsInjective(lru)
        /\ \A t \in Scan(s) : \E i \in 1..n : lru[i] = t
    BY <2>1 DEF Bijection, Injection, Surjection
  <2>3. lru \in [1..n -> Keys] /\ n \in Nat
    BY <1>2, <1>3, <2>2 DEF n
  <2>4. lru \in Seq(Keys)
    BY <2>3
  <2>5. Range(lru) = Scan(s)
    BY <2>2 DEF Range
  <2> QED
    BY <1>1, <2>2, <2>4, <2>5
<1>5. reservedSize = SumFunction(reservations)
  <2>1. /\ reservations \in [Keys -> Int] /\ \A k \in Keys : reservations[k] = 0
        /\ reservedSize = 0
    BY DEF Init
  <2> QED
    BY <1>2, <2>1, SumZero
<1>6. BooksInv
  BY <1>1, <1>4, <1>5 DEF BooksInv, Init
<1>7. BytesInv
  <2>1. ASSUME NEW o \in Writers PROVE Answered(op[o])
    BY DEF Init, NoOp, Answered
  <2>2. \A k \in Keys : disk[k] <= size[k]
    BY <1>1, <1>2
  <2> QED
    BY <2>1, <2>2 DEF BytesInv
<1>8. LoopInv
  BY DEF LoopInv, Init, NoWalk
<1> QED
  BY <1>6, <1>7, <1>8 DEF LInv

\* Every step keeps the books.
LEMMA NextLedger == IInv /\ LInv /\ [Next]_vars => LInv'
<1> SUFFICES ASSUME IInv, LInv, [Next]_vars PROVE LInv'
  OBVIOUS
<1>1. CASE UNCHANGED vars
  BY <1>1, Zenon DEF LInv, BooksInv, BytesInv, LoopInv, Answered, vars
<1>2. CASE Next
  <2>1. IndexInv /\ ReservedInv /\ LoopInv
    BY DEF LInv, BooksInv, IndexInv, ReservedInv
  <2>2. IndexInv' /\ ReservedInv' /\ LoopInv'
    BY <1>2, <2>1, IndexStep, ReservedStep, LoopStep
  <2>3. BooksInv'
    BY <2>2 DEF BooksInv, IndexInv, ReservedInv
  <2>4. ~InPlace /\ Faults = {} => BytesInv'
    BY <1>2, BytesStep DEF LInv
  <2> QED
    BY <2>2, <2>3, <2>4 DEF LInv
<1> QED
  BY <1>1, <1>2

\* The books stay right, whichever way stores, evictions and rollbacks
\* interleave and fail (src/cache.go).
THEOREM LedgerInvariant == Spec => [](IInv /\ LInv)
<1>1. Init => IInv /\ LInv
  BY InitInv, InitLedger
<1>2. (IInv /\ LInv) /\ [Next]_vars => (IInv /\ LInv)'
  BY NextInv, NextLedger
<1> QED
  BY <1>1, <1>2, PTL DEF Spec

\* totalSize, reservedSize, the index and the LRU list agree at all times,
\* although trackEntry, removeEntry, reserveEntry and discardUnadmitted each
\* update only some of them.
THEOREM LedgerIsExact == Spec => []LedgerExact
<1>1. ASSUME LInv PROVE LedgerExact
  <2>1. /\ totalSize = SumFunction(size) /\ reservedSize = SumFunction(reservations)
        /\ lru \in Seq(Keys) /\ IsInjective(lru) /\ Range(lru) = Scan(size)
    BY <1>1 DEF LInv, BooksInv
  <2> DEFINE n == Len(lru)
  <2>2. n \in Nat /\ DOMAIN lru = 1..n /\ lru \in [1..n -> Range(lru)]
    BY <2>1 DEF Range
  <2>3. lru \in Bijection(1..n, Range(lru))
    BY <2>1, <2>2 DEF Bijection, Injection, Surjection, Range
  <2> HIDE DEF n
  <2>4. ExistsBijection(1..n, Scan(size))
    BY <2>1, <2>3 DEF ExistsBijection
  <2>5. Cardinality(Scan(size)) = n
    BY <2>2, <2>4, FS_CountingElements
  <2> QED
    BY <2>1, <2>5 DEF LedgerExact, n
<1> QED
  BY <1>1, LedgerInvariant, PTL

\* With no store in progress nothing is reserved: the deferred
\* releaseReservation calls and trackEntry give everything back.
THEOREM NothingStaysReserved == Spec => []ReservationsReturned
<1>1. ASSUME IInv, LInv PROVE ReservationsReturned
  <2> SUFFICES ASSUME \A o \in Writers : Idle(o)
               PROVE  active = {} /\ reservedSize = 0
    BY DEF ReservationsReturned
  <2>1. \A o \in Writers : Owned(op[o]) = {}
    BY DEF Idle, Owned, PreparePC
  <2>2. active = {}
    BY <1>1, <2>1, Zenon DEF LInv, BooksInv
  <2>3. /\ IsFiniteSet(Keys) /\ reservations \in [Keys -> Int]
        /\ \A k \in Keys : reservations[k] = 0
    BY <1>1, <2>2, AdmissionAssumption DEF LInv, BooksInv, IInv, TypeOK, LedgerType
  <2>4. SumFunction(reservations) = 0
    BY <2>3, SumZero
  <2> QED
    BY <1>1, <2>2, <2>4 DEF LInv, BooksInv
<1> QED
  BY <1>1, LedgerInvariant, PTL

\* Published files take no more than committed and reserved bytes together,
\* also between a rename and its trackEntry: within the limit the disk is too.
THEOREM DiskStaysWithinLimit == Spec => []DiskWithinLimit
<1>1. ASSUME IInv, LInv PROVE DiskWithinLimit
  <2> SUFFICES ASSUME Faults = {}, ~InPlace, WithinLimit
               PROVE  SumFunction(disk) <= MaxSize
    BY DEF DiskWithinLimit
  <2>1. BytesInv /\ LedgerType
    BY <1>1 DEF LInv, IInv, TypeOK
  <2>2. ASSUME NEW k \in Keys PROVE disk[k] <= size[k] + reservations[k]
    <3>1. size[k] \in Nat /\ reservations[k] \in Nat /\ disk[k] \in Nat
      BY <2>1 DEF LedgerType
    <3>2. CASE disk[k] <= size[k]
      BY <3>1, <3>2
    <3>3. CASE ~(disk[k] <= size[k])
      <4>1. PICK o \in Writers : k \in Pending(op[o])
        BY <2>1, <3>3 DEF BytesInv
      <4>2. op[o].pc \in {"track", "discard"}
        BY <1>1, <4>1, NoPending
      <4>3. k \in op[o].todo
        BY <4>1, <4>2 DEF Pending, PreparePC
      <4>4. Answered(op[o])
        BY <2>1 DEF BytesInv
      <4>5. CASE op[o].pc = "discard"
        BY <4>3, <4>4, <4>5 DEF Answered
      <4>6. CASE op[o].pc = "track"
        <5>1. k \in Admitted(op[o])
          BY <4>3, <4>6 DEF Admitted, PreparePC
        <5>2. /\ op[o].item[k] <= size[k] + reservations[k]
              /\ op[o].item[k] \in Nat
          BY <1>1, <5>1, WriterFacts DEF Funded, OpType
        <5>3. disk[k] <= op[o].item[k]
          BY <4>3, <4>4, <4>6 DEF Answered
        <5> QED
          BY <3>1, <5>2, <5>3
      <4> QED
        BY <4>2, <4>5, <4>6
    <3> QED
      BY <3>2, <3>3
  <2>3. /\ IsFiniteSet(Keys) /\ size \in [Keys -> Int] /\ disk \in [Keys -> Int]
        /\ reservations \in [Keys -> Int]
    BY <2>1, AdmissionAssumption DEF LedgerType
  <2>4. SumFunction(disk) <= SumFunction(size) + SumFunction(reservations)
    BY <2>2, <2>3, SumBound
  <2>5. SumFunction(disk) \in Int
    BY <2>3, SumInt
  <2>6. SumFunction(disk) <= totalSize + reservedSize
    BY <1>1, <2>4 DEF LInv, BooksInv
  <2> QED
    BY <2>1, <2>5, <2>6, AdmissionAssumption DEF WithinLimit, LedgerType
<1> QED
  BY <1>1, LedgerInvariant, PTL

\* A writer inside evictForAdmissionLocked fails only at the end of its loop.
RefusedStep ==
    \A o \in Writers :
      /\ Faults = {}
      /\ walk.kind = "admit" /\ walk.op = o
      /\ op'[o].pc \in {"discard", "release"}
      => Scan(size) \subseteq active \cup {walk.key}

\* The loop has visited every entry before it gives up.
LEMMA RefusedLemma ==
    ASSUME IInv, LInv, Next
    PROVE  RefusedStep
<1> SUFFICES ASSUME NEW o \in Writers, Faults = {}, walk.kind = "admit",
                    walk.op = o, op'[o].pc \in {"discard", "release"}
             PROVE  Scan(size) \subseteq active \cup {walk.key}
  BY DEF RefusedStep
<1>1. op[o].pc \in {"prepare", "written"} /\ op[o] \in OpType /\ ~Running(o)
  BY AdmitFacts, WriterFacts DEF Running
<1>2. walk # NoWalk
  BY DEF NoWalk
<1>3. op'[o] # op[o]
  BY <1>1
<1>4. ASSUME NEW p \in Writers, WriterStep(p) \/ Superseded(p) PROVE FALSE
  <2>1. CASE p = o
    BY <1>1, <1>2, <1>4, <2>1, Zenon
       DEF WriterStep, Superseded, LockKey, BeginReservation, ReserveExpected,
           ReserveWritten, Reserve, StageBody, StageFail, Commit, Track, Discard,
           Release, Unlocked
  <2>2. CASE p # o
    <3>1. op' = op \/ \E x : Becomes(p, x)
      <4>1. CASE WriterStep(p)
        <5>1. CASE LockKey(p) \/ BeginReservation(p)
          BY <5>1, Zenon DEF LockKey, BeginReservation
        <5>2. CASE \/ \E k \in Keys, n \in Sizes : ReserveExpected(p, k, n)
                   \/ ReserveWritten(p)
          BY <1>2, <5>2, Zenon DEF ReserveExpected, ReserveWritten, Reserve, Unlocked
        <5>3. CASE \/ \E k \in Keys, n \in Sizes : StageBody(p, k, n)
                   \/ StageFail(p)
          BY <5>3, Zenon DEF StageBody, StageFail, Failed
        <5>4. CASE Commit(p)
          BY <5>4, Zenon DEF Commit, Failed
        <5>5. CASE Track(p) \/ Discard(p) \/ Release(p)
          BY <5>5, Zenon DEF Track, Discard, Release
        <5> QED
          BY <4>1, <5>1, <5>2, <5>3, <5>4, <5>5, Zenon DEF WriterStep
      <4>2. CASE Superseded(p)
        BY <4>2 DEF Superseded
      <4> QED
        BY <1>4, <4>1, <4>2
    <3> QED
      BY <1>3, <2>2, <3>1, BecomesOwn
  <2> QED
    BY <2>1, <2>2
<1>5. ASSUME NEW p \in Writers, NEW ks \in Transactions, Begin(p, ks) PROVE FALSE
  <2>1. p # o
    BY <1>1, <1>5 DEF Begin, Idle
  <2> QED
    BY <1>3, <1>5, <2>1, BecomesOwn DEF Begin
<1>6. ASSUME ReserveEnd PROVE Scan(size) \subseteq active \cup {walk.key}
  <2>1. totalSize > TargetSize
    <3> SUFFICES ASSUME ~(totalSize > TargetSize) PROVE FALSE
      OBVIOUS
    <3> DEFINE x == IF op[o].pc = "prepare"
                      THEN [op[o] EXCEPT !.pc = "sized", !.key = walk.key]
                      ELSE Advance(op[o], walk.key, "prepare", "commit")
    <3>1. x.pc \in {"sized", "prepare", "commit"}
      BY <1>1, Zenon DEF OpType, Advance
    <3>2. Becomes(o, x)
      BY <1>6 DEF ReserveEnd
    <3> HIDE DEF x
    <3> QED
      BY <3>1, <3>2, BecomesOwn
  <2>2. rest = <<>>
    BY <1>6, <2>1 DEF ReserveEnd, WalkDone, Wanted
  <2>3. Range(rest) = {}
    BY <2>2 DEF Range
  <2> QED
    BY <2>3 DEF LInv, LoopInv
<1>7. ASSUME NEW k \in Keys, Visit(k) \/ Touch(k) \/ DiscardCorrupt(k) PROVE FALSE
  BY <1>3, <1>7 DEF Visit, Touch, DiscardCorrupt
<1>8. ASSUME CleanupEnd PROVE FALSE
  BY <1>3, <1>8 DEF CleanupEnd
<1>9. ASSUME NEW kind \in {"ttl", "size", "purge"}, Cleanup(kind) PROVE FALSE
  BY <1>3, <1>9 DEF Cleanup
<1> QED
  BY <1>4, <1>5, <1>6, <1>7, <1>8, <1>9 DEF Next, WalkStep

\* Admission is refused for want of room only when every other tracked entry
\* is being replaced: evictForAdmissionLocked gives up nothing it could evict.
THEOREM RefusalIsFull == Spec => RefusedOnlyWhenFull
<1>1. (IInv /\ LInv) /\ [Next]_vars
        => [\A o \in Writers :
              /\ Faults = {}
              /\ walk.kind = "admit" /\ walk.op = o
              /\ op'[o].pc \in {"discard", "release"}
              => Scan(size) \subseteq active \cup {walk.key}]_vars
  BY RefusedLemma DEF RefusedStep
<1> QED
  BY <1>1, LedgerInvariant, PTL DEF Spec, RefusedOnlyWhenFull

\* A size sweep ends within the limit or with nothing left to remove.
LEMMA SweepLemma ==
    ASSUME IInv, LInv, Next, Faults = {}, walk.kind = "size", walk' = NoWalk
    PROVE  totalSize <= MaxSize \/ Scan(size) \subseteq active
<1>1. walk # NoWalk /\ walk' # walk
  BY DEF NoWalk
<1>2. ASSUME NEW o \in Writers, WriterStep(o) PROVE FALSE
  BY <1>1, <1>2, Zenon
     DEF WriterStep, LockKey, BeginReservation, ReserveExpected, ReserveWritten,
         Reserve, StageBody, StageFail, Commit, Track, Discard, Release, Unlocked,
         loop
<1>3. ASSUME NEW o \in Writers, NEW ks \in Transactions, Begin(o, ks) PROVE FALSE
  BY <1>1, <1>3 DEF Begin, loop
<1>4. ASSUME NEW o \in Writers, Superseded(o) PROVE FALSE
  BY <1>1, <1>4 DEF Superseded, loop
<1>5. ASSUME NEW k \in Keys, Visit(k) \/ Touch(k) \/ DiscardCorrupt(k) PROVE FALSE
  BY <1>1, <1>5 DEF Visit, Touch, DiscardCorrupt, loop
<1>6. ASSUME NEW kind \in {"ttl", "size", "purge"}, Cleanup(kind) PROVE FALSE
  BY <1>1, <1>6 DEF Cleanup, Unlocked
<1>7. ~ReserveEnd
  BY DEF ReserveEnd
<1>8. ASSUME CleanupEnd
      PROVE  totalSize <= MaxSize \/ Scan(size) \subseteq active
  <2>1. totalSize \in Int /\ MaxSize \in Nat
    BY AdmissionAssumption DEF IInv, TypeOK, LedgerType
  <2>2. CASE rest = <<>>
    <3>1. Range(rest) = {}
      BY <2>2 DEF Range
    <3> QED
      BY <3>1 DEF LInv, LoopInv
  <2>3. CASE ~(totalSize > MaxSize)
    BY <2>1, <2>3
  <2> QED
    BY <1>8, <2>2, <2>3 DEF CleanupEnd, WalkDone, Wanted
<1> QED
  BY <1>2, <1>3, <1>4, <1>5, <1>6, <1>7, <1>8 DEF Next, WalkStep

\* enforceMaxSize brings the ledger within MaxSize or leaves only entries that
\* are being replaced, also after scanning a directory beyond the limit.
THEOREM SweepKeepsLimit == Spec => SweepEnforces
<1>1. (IInv /\ LInv) /\ [Next]_vars
        => [/\ Faults = {}
            /\ walk.kind = "size" /\ walk' = NoWalk
            => totalSize <= MaxSize \/ Scan(size) \subseteq active]_vars
  BY SweepLemma
<1> QED
  BY <1>1, LedgerInvariant, PTL DEF Spec, SweepEnforces

==============================================================================
