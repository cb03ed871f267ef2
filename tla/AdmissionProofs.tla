--------------------------- MODULE AdmissionProofs ---------------------------
(***************************************************************************)
(* Proofs that the ledger of Admission sees every published file, that it  *)
(* never grows past MaxSize, and that an entry under replacement is left   *)
(* alone, for any keys, writers and sizes and for both kinds of backend.   *)
(* The facts about sums that come first are used by LedgerProofs.          *)
(***************************************************************************)
EXTENDS Admission, FiniteSetTheorems, TLAPS

\* A leaf without a prover of its own is tried with Zenon, then several times with SMT.
USE ZenonT(4), SMTT(6), SMTT(7), SMTT(8), SMTT(9), SMTT(10)

------------------------------------------------------------------------------
(* Sums.  SumFunction folds over the sets the elements of which are still  *)
(* to be added; facts about it are proved on a smallest counterexample.    *)

\* Every set of naturals that is not empty has a least element.
LEMMA LeastNatural ==
    ASSUME NEW T, T \subseteq Nat, T # {}
    PROVE  \E n \in T : \A m \in T : n <= m
<1> DEFINE R == OpToRel(<, Nat)
<1>1. IsWellFoundedOn(R, Nat)
  BY NatLessThanWellFounded, Zenon
<1>2. \A x, y \in Nat : y < x => <<y, x>> \in R
  BY DEF OpToRel
<1> HIDE DEF R
<1>3. PICK x \in T : \A y \in T : ~(<<y, x>> \in R)
  BY <1>1, WFMin, Zenon
<1>4. ASSUME NEW y \in T PROVE x <= y
  <2>1. x \in Nat /\ y \in Nat
    OBVIOUS
  <2>2. ~(y < x)
    BY <1>2, <1>3, <2>1, Zenon
  <2> QED
    BY <2>1, <2>2
<1> QED
  BY <1>4

\* Every collection of finite sets that is not empty has a smallest member.
LEMMA SmallestSubset ==
    ASSUME NEW S, IsFiniteSet(S), NEW C, C \subseteq SUBSET S, C # {}
    PROVE  \E s \in C : \A t \in C : t \subseteq s => t = s
<1>1. IsWellFoundedOn(StrictSubsetOrdering(S), SUBSET S)
  BY FS_StrictSubsetOrderingWellFounded, FS_FiniteSubsetsOfFinite, Zenon
<1>2. \E x \in C : \A y \in C : ~(<<y, x>> \in StrictSubsetOrdering(S))
  BY <1>1, WFMin
<1> QED
  BY <1>2, Zenon DEF StrictSubsetOrdering

\* A sum takes an element and adds the sum of the rest.
chosen(s) == CHOOSE x \in s : TRUE
Step(f, it, s) == IF s = {} THEN 0 ELSE f[chosen(s)] + it[s \ {chosen(s)}]
IsSum(it, f, S) == it = [s \in SUBSET S |-> Step(f, it, s)]

\* The fold of SumFunctionOnSet is a function that sums this way.
LEMMA SumDef ==
    ASSUME NEW f, NEW S
    PROVE  SumFunctionOnSet(f, S) = (CHOOSE it : IsSum(it, f, S))[S]
  BY DEF SumFunctionOnSet, FoldFunctionOnSet, MapThenFoldSet, IsSum, Step, chosen

\* The element a sum takes next.
LEMMA Chosen ==
    ASSUME NEW S, IsFiniteSet(S), NEW s \in SUBSET S, s # {}
    PROVE  /\ chosen(s) \in s /\ s \ {chosen(s)} \in SUBSET S
           /\ IsFiniteSet(s) /\ Cardinality(s) \in Nat \ {0}
           /\ Cardinality(s \ {chosen(s)}) = Cardinality(s) - 1
<1>1. chosen(s) \in s
  BY DEF chosen
<1>2. IsFiniteSet(s)
  BY FS_Subset
<1>3. Cardinality(s) \in Nat /\ Cardinality(s) # 0
  BY <1>2, FS_CardinalityType, FS_EmptySet
<1>4. Cardinality(s \ {chosen(s)}) = Cardinality(s) - 1
  BY <1>1, <1>2, FS_RemoveElement, Zenon
<1> QED
  BY <1>1, <1>2, <1>3, <1>4

\* A sum over a finite set is defined.
LEMMA SumExists ==
    ASSUME NEW S, IsFiniteSet(S), NEW f \in [S -> Int]
    PROVE  \E it \in [SUBSET S -> Int] : IsSum(it, f, S)
<1> DEFINE Good(n) == \E it \in [SUBSET S -> Int] :
                         \A s \in SUBSET S : Cardinality(s) <= n => it[s] = Step(f, it, s)
           Bad == {n \in Nat : ~Good(n)}
<1>1. ASSUME Bad # {} PROVE FALSE
  <2>1. PICK n \in Bad : \A m \in Bad : n <= m
    BY <1>1, LeastNatural, Zenon
  <2>2. CASE n = 0
    <3>1. ASSUME NEW s \in SUBSET S, s # {} PROVE ~(Cardinality(s) <= 0)
      <4>1. Cardinality(s) \in Nat \ {0}
        BY <3>1, Chosen, Zenon
      <4> QED
        BY <4>1
    <3>2. [s \in SUBSET S |-> 0] \in [SUBSET S -> Int]
      OBVIOUS
    <3>3. Good(0)
      BY <3>1, <3>2, Zenon DEF Step
    <3> QED
      BY <2>2, <3>3
  <2>3. CASE n # 0
    <3>1. n \in Nat
      OBVIOUS
    <3>2. n - 1 \in Nat
      BY <2>3, <3>1
    <3>3. n - 1 \notin Bad
      <4> HIDE DEF Bad
      <4> QED
        BY <2>1, <3>1
    <3>4. PICK h \in [SUBSET S -> Int] :
             \A s \in SUBSET S : Cardinality(s) <= n - 1 => h[s] = Step(f, h, s)
      BY <3>2, <3>3, Zenon
    <3> DEFINE it == [s \in SUBSET S |-> Step(f, h, s)]
    <3>5. ASSUME NEW s \in SUBSET S PROVE Step(f, h, s) \in Int
      <4>1. CASE s = {}
        BY <4>1 DEF Step
      <4>2. CASE s # {}
        <5>1. chosen(s) \in S /\ s \ {chosen(s)} \in SUBSET S
          BY <4>2, Chosen, Zenon
        <5>2. f[chosen(s)] \in Int /\ h[s \ {chosen(s)}] \in Int
          BY <5>1
        <5> QED
          BY <4>2, <5>2 DEF Step
      <4> QED
        BY <4>1, <4>2
    <3>6. it \in [SUBSET S -> Int]
      BY <3>5
    <3>7. ASSUME NEW s \in SUBSET S, Cardinality(s) <= n PROVE it[s] = Step(f, it, s)
      <4>1. CASE s = {}
        BY <4>1 DEF Step
      <4>2. CASE s # {}
        <5> DEFINE t == s \ {chosen(s)}
        <5>1. t \in SUBSET S /\ Cardinality(t) <= n - 1
          BY <3>1, <3>7, <4>2, Chosen
        <5>2. it[t] = Step(f, h, t) /\ h[t] = Step(f, h, t)
          BY <5>1, <3>4
        <5>3. it[s] = f[chosen(s)] + h[t]
          BY <4>2 DEF Step
        <5>4. Step(f, it, s) = f[chosen(s)] + it[t]
          BY <4>2 DEF Step
        <5> QED
          BY <5>2, <5>3, <5>4
      <4> QED
        BY <4>1, <4>2
    <3>8. Good(n)
      BY <3>6, <3>7, Zenon
    <3> QED
      BY <2>1, <3>8
  <2> QED
    BY <2>2, <2>3
<1>2. Cardinality(S) \in Nat /\ \A s \in SUBSET S : Cardinality(s) <= Cardinality(S)
  BY FS_CardinalityType, FS_Subset
<1>3. Good(Cardinality(S))
  BY <1>1, <1>2, Zenon
<1>4. PICK it \in [SUBSET S -> Int] : \A s \in SUBSET S : it[s] = Step(f, it, s)
  BY <1>2, <1>3
<1> QED
  BY <1>4 DEF IsSum

\* Induction along the order in which a sum takes its elements: a collection of
\* counterexamples that loses none with the next element is empty.
LEMMA SumInduction ==
    ASSUME NEW S, IsFiniteSet(S), NEW C, C \subseteq SUBSET S, {} \notin C,
           \A s \in C : s \ {chosen(s)} \in C
    PROVE  C = {}
<1>1. ASSUME C # {} PROVE FALSE
  <2>1. PICK s \in C : \A t \in C : t \subseteq s => t = s
    BY <1>1, SmallestSubset
  <2>2. s # {} /\ s \in SUBSET S
    OBVIOUS
  <2>3. chosen(s) \in s
    BY <2>2, Chosen, Zenon
  <2>4. s \ {chosen(s)} = s
    BY <2>1, Zenon
  <2> QED
    BY <2>3, <2>4
<1> QED
  BY <1>1

SumOf(f, S) == CHOOSE it : IsSum(it, f, S)

\* F[s] is the sum of f over the part s of S, one element more at a time.
Adds(F, f, S) ==
    /\ F[{}] = 0
    /\ \A s \in SUBSET S :
         /\ F[s] \in Int
         /\ s # {} => /\ chosen(s) \in s /\ chosen(s) \in S /\ s \ {chosen(s)} \in SUBSET S
                     /\ f[chosen(s)] \in Int /\ F[s] = f[chosen(s)] + F[s \ {chosen(s)}]

\* A sum over S adds up along its parts.
LEMMA SumSteps ==
    ASSUME NEW S, IsFiniteSet(S), NEW f \in [S -> Int]
    PROVE  SumFunction(f) = SumOf(f, S)[S] /\ Adds(SumOf(f, S), f, S)
<1> DEFINE it == SumOf(f, S)
<1>1. IsSum(it, f, S)
  BY SumExists, Zenon DEF SumOf
<1>2. \A s \in SUBSET S : it[s] = Step(f, it, s)
  BY <1>1 DEF IsSum
<1>3. SumFunction(f) = it[S]
  BY SumDef DEF SumFunction, SumOf
<1> HIDE DEF it
<1>4. it[{}] = 0
  BY <1>2, Zenon DEF Step
<1>5. ASSUME NEW s \in SUBSET S, s # {}
      PROVE  /\ chosen(s) \in s /\ chosen(s) \in S /\ s \ {chosen(s)} \in SUBSET S
             /\ f[chosen(s)] \in Int /\ it[s] = f[chosen(s)] + it[s \ {chosen(s)}]
  BY <1>2, <1>5, Chosen, Zenon DEF Step
<1> DEFINE C == {s \in SUBSET S : it[s] \notin Int}
<1>6. ASSUME NEW s \in C PROVE s \ {chosen(s)} \in C
  <2>1. s # {}
    BY <1>4
  <2>2. it[s] = f[chosen(s)] + it[s \ {chosen(s)}] /\ f[chosen(s)] \in Int /\ it[s] \notin Int
        /\ s \ {chosen(s)} \in SUBSET S
    BY <1>5, <2>1, Zenon
  <2> QED
    BY <2>2
<1>7. {} \notin C
  BY <1>4
<1>8. C = {}
  <2>1. C \subseteq SUBSET S
    OBVIOUS
  <2> HIDE DEF C
  <2> QED
    BY <1>6, <1>7, <2>1, SumInduction
<1> QED
  BY <1>3, <1>4, <1>5, <1>8, Zenon DEF it, Adds

\* A sum of integers is one.
LEMMA SumInt ==
    ASSUME NEW S, IsFiniteSet(S), NEW f \in [S -> Int]
    PROVE  SumFunction(f) \in Int
<1>1. SumFunction(f) = SumOf(f, S)[S] /\ Adds(SumOf(f, S), f, S)
  BY SumSteps
<1> QED
  BY <1>1, Zenon DEF Adds

\* One value changes: the sum changes by the difference.
LEMMA SumExcept ==
    ASSUME NEW S, IsFiniteSet(S), NEW f \in [S -> Int], NEW k \in S, NEW v \in Int
    PROVE  SumFunction([f EXCEPT ![k] = v]) = SumFunction(f) - f[k] + v
<1> DEFINE g == [f EXCEPT ![k] = v]
           F == SumOf(f, S)
           G == SumOf(g, S)
           d == v - f[k]
<1>1. g \in [S -> Int] /\ d \in Int /\ f[k] \in Int
  OBVIOUS
<1>2. g[k] = f[k] + d /\ \A j \in S : j # k => g[j] = f[j]
  BY <1>1
<1>3. SumFunction(f) = F[S] /\ Adds(F, f, S)
  BY SumSteps
<1>4. SumFunction(g) = G[S] /\ Adds(G, g, S)
  <2> HIDE DEF g
  <2> QED
    BY <1>1, SumSteps
<1> DEFINE C == {s \in SUBSET S : G[s] # F[s] + (IF k \in s THEN d ELSE 0)}
<1>5. F[S] \in Int
  BY <1>3, Zenon DEF Adds
<1> SUFFICES S \notin C
  <2>1. G[S] = F[S] + d => SumFunction(g) = SumFunction(f) - f[k] + v
    <3> HIDE DEF F, G, g
    <3> QED
      BY <1>1, <1>3, <1>4, <1>5
  <2> HIDE DEF F, G, g
  <2> QED
    BY <2>1 DEF g
<1> HIDE DEF g, F, G, d
<1>6. {} \notin C
  BY <1>3, <1>4 DEF Adds
<1>7. ASSUME NEW s \in C PROVE s \ {chosen(s)} \in C
  <2> DEFINE x == chosen(s)
             t == s \ {x}
  <2>1. s # {} /\ s \in SUBSET S
    BY <1>6
  <2>2. /\ x \in s /\ x \in S /\ t \in SUBSET S
        /\ F[s] = f[x] + F[t] /\ G[s] = g[x] + G[t]
        /\ F[t] \in Int /\ G[t] \in Int /\ f[x] \in Int /\ g[x] \in Int
    BY <1>1, <1>3, <1>4, <2>1, Zenon DEF Adds
  <2>3. G[s] # F[s] + (IF k \in s THEN d ELSE 0)
    OBVIOUS
  <2> HIDE DEF x
  <2>4. CASE x = k
    <3>1. k \in s /\ k \notin t
      BY <2>2, <2>4
    <3>2. G[t] # F[t]
      BY <1>1, <1>2, <2>2, <2>3, <2>4, <3>1
    <3> QED
      BY <1>1, <2>2, <3>1, <3>2 DEF x
  <2>5. CASE x # k
    <3>1. k \in s <=> k \in t
      BY <2>5
    <3>2. g[x] = f[x]
      BY <1>2, <2>2, <2>5
    <3>3. G[t] # F[t] + (IF k \in t THEN d ELSE 0)
      BY <1>1, <2>2, <2>3, <3>1, <3>2
    <3> QED
      BY <2>2, <3>3 DEF x
  <2> QED
    BY <2>4, <2>5
<1>8. C = {}
  <2>1. C \subseteq SUBSET S
    OBVIOUS
  <2> HIDE DEF C
  <2> QED
    BY <1>6, <1>7, <2>1, SumInduction
<1> QED
  BY <1>8

\* Sums keep an order that holds at every point.
LEMMA SumBound ==
    ASSUME NEW S, IsFiniteSet(S), NEW f \in [S -> Int], NEW g \in [S -> Int], NEW h \in [S -> Int],
           \A k \in S : f[k] <= g[k] + h[k]
    PROVE  SumFunction(f) <= SumFunction(g) + SumFunction(h)
<1> DEFINE F == SumOf(f, S)
           G == SumOf(g, S)
           H == SumOf(h, S)
           C == {s \in SUBSET S : ~(F[s] <= G[s] + H[s])}
<1>1. SumFunction(f) = F[S] /\ Adds(F, f, S)
  BY SumSteps
<1>2. SumFunction(g) = G[S] /\ Adds(G, g, S)
  BY SumSteps
<1>3. SumFunction(h) = H[S] /\ Adds(H, h, S)
  BY SumSteps
<1> HIDE DEF F, G, H
<1>4. {} \notin C
  BY <1>1, <1>2, <1>3 DEF Adds
<1>5. ASSUME NEW s \in C PROVE s \ {chosen(s)} \in C
  <2> DEFINE x == chosen(s)
             t == s \ {x}
  <2>1. s # {} /\ s \in SUBSET S /\ ~(F[s] <= G[s] + H[s])
    BY <1>4, Zenon
  <2>2. /\ x \in S /\ t \in SUBSET S
        /\ F[s] = f[x] + F[t] /\ G[s] = g[x] + G[t] /\ H[s] = h[x] + H[t]
        /\ F[t] \in Int /\ G[t] \in Int /\ H[t] \in Int
        /\ f[x] \in Int /\ g[x] \in Int /\ h[x] \in Int
    BY <1>1, <1>2, <1>3, <2>1, Zenon DEF Adds
  <2>3. f[x] <= g[x] + h[x]
    BY <2>2
  <2> HIDE DEF x, t
  <2>4. ~(F[t] <= G[t] + H[t])
    BY <2>1, <2>2, <2>3
  <2> QED
    BY <2>2, <2>4 DEF x, t
<1>6. C = {}
  <2>1. C \subseteq SUBSET S
    OBVIOUS
  <2> HIDE DEF C
  <2> QED
    BY <1>4, <1>5, <2>1, SumInduction, Zenon
<1> QED
  BY <1>1, <1>2, <1>3, <1>6

\* The sum of nothing is nothing.
LEMMA SumZero ==
    ASSUME NEW S, IsFiniteSet(S), NEW f \in [S -> Int], \A k \in S : f[k] = 0
    PROVE  SumFunction(f) = 0
<1>1. \A s \in SUBSET S : SumOf(f, S)[s] = 0
  <2> DEFINE F == SumOf(f, S)
             C == {s \in SUBSET S : F[s] # 0}
  <2>1. Adds(F, f, S)
    BY SumSteps
  <2> HIDE DEF F
  <2>2. {} \notin C
    BY <2>1 DEF Adds
  <2>3. ASSUME NEW s \in C PROVE s \ {chosen(s)} \in C
    <3>1. s # {} /\ s \in SUBSET S /\ F[s] # 0
      BY <2>2
    <3>2. F[s] = 0 + F[s \ {chosen(s)}] /\ F[s \ {chosen(s)}] \in Int
      BY <2>1, <3>1, Zenon DEF Adds
    <3> QED
      BY <2>1, <3>1, <3>2 DEF Adds
  <2>4. C = {}
    <3>1. C \subseteq SUBSET S
      OBVIOUS
    <3> HIDE DEF C
    <3> QED
      BY <2>2, <2>3, <3>1, SumInduction
  <2> QED
    BY <2>4 DEF F
<1> QED
  BY <1>1, SumSteps
------------------------------------------------------------------------------
(* A writer's state.                                                       *)

\* Idle writers have a writer's type.
LEMMA NoOpType == NoOp \in OpType
  BY DEF OpType, WriterPC, NoOp, NoKey

\* Becomes changes one writer.
LEMMA BecomesFacts ==
    ASSUME op \in [Writers -> OpType], NEW o \in Writers, NEW x \in OpType,
           Becomes(o, x)
    PROVE  /\ op' \in [Writers -> OpType]
           /\ op'[o] = x
           /\ \A p \in Writers : p # o => op'[p] = op[p]
  BY DEF Becomes

\* Advance takes k off the list or starts the next phase.
LEMMA AdvanceStep ==
    ASSUME op \in [Writers -> OpType], NEW o \in Writers, NEW k \in Keys,
           NEW same \in WriterPC, NEW next \in WriterPC,
           Becomes(o, Advance(op[o], k, same, next))
    PROVE  /\ op' \in [Writers -> OpType]
           /\ \A p \in Writers : p # o => op'[p] = op[p]
           /\ op'[o].keys = op[o].keys /\ op'[o].held = op[o].held
           /\ op'[o].item = op[o].item /\ op'[o].key = op[o].key
           /\ op'[o].published = op[o].published
           /\ op'[o].pc = IF op[o].todo = {k} THEN next ELSE same
           /\ op'[o].todo = IF op[o].todo = {k} THEN op[o].keys
                                               ELSE op[o].todo \ {k}
<1> DEFINE y == Advance(op[o], k, same, next)
<1>1. op[o] \in OpType
  OBVIOUS
<1>2. /\ y \in OpType
      /\ y.keys = op[o].keys /\ y.held = op[o].held /\ y.item = op[o].item
      /\ y.key = op[o].key /\ y.published = op[o].published
      /\ y.pc = IF op[o].todo = {k} THEN next ELSE same
      /\ y.todo = IF op[o].todo = {k} THEN op[o].keys ELSE op[o].todo \ {k}
  BY <1>1, Zenon DEF Advance, OpType
<1>3. /\ op' \in [Writers -> OpType] /\ op'[o] = y
      /\ \A p \in Writers : p # o => op'[p] = op[p]
  BY <1>2, BecomesFacts
<1> HIDE DEF y
<1> QED
  BY <1>2, <1>3

\* A failure turns to the rollback or to the deferred releases.
LEMMA FailedFacts ==
    ASSUME op \in [Writers -> OpType], NEW o \in Writers, NEW c \in BOOLEAN,
           Failed(o, c)
    PROVE  /\ op' \in [Writers -> OpType]
           /\ \A p \in Writers : p # o => op'[p] = op[p]
           /\ op'[o].pc = IF c THEN "discard" ELSE "release"
           /\ op'[o].todo = op[o].keys
           /\ op'[o].keys = op[o].keys /\ op'[o].held = op[o].held
           /\ op'[o].item = op[o].item
<1> DEFINE x == [op[o] EXCEPT !.pc = IF c THEN "discard" ELSE "release",
                              !.todo = op[o].keys]
<1>1. op[o] \in OpType
  OBVIOUS
<1>2. /\ x \in OpType
      /\ x.pc = IF c THEN "discard" ELSE "release"
      /\ x.todo = op[o].keys
      /\ x.keys = op[o].keys /\ x.held = op[o].held /\ x.item = op[o].item
  BY <1>1, Zenon DEF OpType, WriterPC
<1>3. Becomes(o, x)
  BY DEF Failed
<1> QED
  BY <1>2, <1>3, BecomesFacts, Zenon

\* What a writer counts on is among the keys it has locked.
LEMMA ProtectedHeld ==
    ASSUME NEW x \in OpType, Consistent(x)
    PROVE  /\ Protected(x) \subseteq x.held
           /\ Admitted(x) \subseteq Protected(x)
           /\ Pending(x) \subseteq Protected(x)
  BY DEF Consistent, Protected, Admitted, Pending, OpType, PreparePC, WriterPC

\* Seen from a writer that does not move, a step is harmless if it leaves
\* the ledger of the protected keys alone.
LEMMA FundedFrame ==
    ASSUME NEW x \in OpType, Consistent(x), Funded(x),
           \A k \in Protected(x) : /\ size'[k] = size[k]
                                   /\ reservations'[k] = reservations[k]
                                   /\ k \in active'
    PROVE  /\ Protected(x) \subseteq active'
           /\ \A k \in Admitted(x) :
                x.item[k] > 0 /\ x.item[k] <= size'[k] + reservations'[k]
  BY ProtectedHeld DEF Funded

------------------------------------------------------------------------------
(* What a step of writer o has to show.                                    *)

\* The ledger away from the keys o has locked.
OthersKept(o) ==
    \A k \in Keys : k \notin Held(o) =>
        /\ size'[k] = size[k]
        /\ reservations'[k] = reservations[k]
        /\ k \in active => k \in active'

\* Every published file is still accounted for, or was not o's to account.
StillPending(o) ==
    \A k \in Keys : disk'[k] > 0 =>
        \/ size'[k] > 0
        \/ k \in Pending(op'[o])
        \/ disk[k] > 0 /\ size[k] = 0 /\ k \notin Pending(op[o])

\* The writers' invariant after a step of o.
LEMMA WriterFrame ==
    ASSUME TypeOK, WriterInv, NEW o \in Writers,
           op' \in [Writers -> OpType],
           \A p \in Writers : p # o => op'[p] = op[p],
           \A p \in Writers : p # o => op'[o].held \cap Held(p) = {},
           Consistent(op'[o]),
           Funded(op[o])',
           OthersKept(o)
    PROVE  WriterInv'
<1>1. ASSUME NEW p \in Writers PROVE Consistent(op'[p])
  BY DEF WriterInv
<1>2. ASSUME NEW p \in Writers, p # o PROVE Funded(op[p])'
  <2>1. /\ op[p] \in OpType /\ op'[p] = op[p]
        /\ Consistent(op[p]) /\ Funded(op[p]) /\ Held(p) \cap Held(o) = {}
    BY <1>2 DEF TypeOK, WriterInv
  <2>2. Protected(op[p]) \subseteq Held(p) /\ Protected(op[p]) \subseteq active
    BY <2>1, ProtectedHeld DEF Funded, Held
  <2>3. Held(p) \subseteq Keys
    BY <2>1 DEF Held, OpType
  <2>4. \A k \in Protected(op[p]) : /\ size'[k] = size[k]
                                    /\ reservations'[k] = reservations[k]
                                    /\ k \in active'
    BY <2>1, <2>2, <2>3 DEF OthersKept
  <2> QED
    BY <2>1, <2>4, FundedFrame DEF Funded
<1>3. ASSUME NEW p \in Writers, NEW q \in Writers, p # q
      PROVE  op'[p].held \cap op'[q].held = {}
  BY <1>3 DEF WriterInv, Held
<1> QED
  BY <1>1, <1>2, <1>3 DEF WriterInv, Held

\* The files' invariant after a step of o.
LEMMA PendingFrame ==
    ASSUME TypeOK, PendingInv, NEW o \in Writers,
           \A p \in Writers : p # o => op'[p] = op[p],
           StillPending(o)
    PROVE  PendingInv'
<1> SUFFICES ASSUME NEW k \in Keys, disk'[k] > 0, ~(size'[k] > 0)
             PROVE  \E p \in Writers : k \in Pending(op'[p])
  BY DEF PendingInv, Pending
<1>1. CASE k \in Pending(op'[o])
  BY <1>1
<1>2. CASE disk[k] > 0 /\ size[k] = 0 /\ k \notin Pending(op[o])
  <2>1. PICK p \in Writers : k \in Pending(op[p])
    BY <1>2 DEF PendingInv
  <2>2. op'[p] = op[p]
    BY <1>2, <2>1
  <2> QED
    BY <2>1, <2>2
<1> QED
  BY <1>1, <1>2 DEF StillPending

\* The loop's invariant after a step of a writer that is not waiting for it.
LEMMA WalkFrame ==
    ASSUME TypeOK, WalkInv, NEW o \in Writers,
           \A p \in Writers : p # o => op'[p] = op[p],
           Running(o), walk' = walk, walk.kind # "purge"
    PROVE  WalkInv'
  BY DEF WalkInv, Running, TypeOK, WalkType

\* Without a loop in progress the loop's invariant asks nothing.
LEMMA WalkNone == walk' = NoWalk => WalkInv'
  BY DEF WalkInv, NoWalk

\* A writer under way excludes Purge.
LEMMA NoPurge ==
    ASSUME WalkInv, NEW o \in Writers, ~Idle(o)
    PROVE  walk.kind # "purge"
  BY DEF WalkInv

------------------------------------------------------------------------------
(* One lemma per step of a writer.                                         *)

\* What the invariant says of one writer.
LEMMA WriterFacts ==
    ASSUME IInv, NEW o \in Writers
    PROVE  /\ op \in [Writers -> OpType] /\ op[o] \in OpType
           /\ Consistent(op[o]) /\ Funded(op[o])
           /\ \A p \in Writers : p # o => op[o].held \cap Held(p) = {}
           /\ LedgerType /\ TypeOK /\ WriterInv /\ WalkInv /\ PendingInv
  BY DEF IInv, TypeOK, WriterInv, Held

\* Entering takes no lock yet.
LEMMA BeginInv ==
    ASSUME IInv, NEW o \in Writers, NEW ks \in Transactions, Begin(o, ks)
    PROVE  IInv'
<1> DEFINE x == [NoOp EXCEPT !.pc = "lock", !.keys = ks, !.todo = ks]
<1>1. ks \subseteq Keys
  BY DEF Transactions
<1>2. /\ x \in OpType /\ x.pc = "lock" /\ x.keys = ks /\ x.todo = ks
      /\ x.held = {} /\ x.published = FALSE
  BY <1>1, Zenon DEF OpType, NoOp, NoKey, WriterPC
<1>3. Becomes(o, x) /\ op[o].pc = "idle" /\ walk.kind # "purge"
  BY DEF Begin, Idle
<1>4. /\ size' = size /\ totalSize' = totalSize /\ active' = active
      /\ reservations' = reservations /\ reservedSize' = reservedSize
      /\ disk' = disk /\ walk' = walk
  BY DEF Begin, ledger, reserved, loop
<1>5. /\ op' \in [Writers -> OpType] /\ op'[o] = x
      /\ \A p \in Writers : p # o => op'[p] = op[p]
  BY <1>2, <1>3, BecomesFacts, WriterFacts
<1>6. Consistent(x)
  BY <1>2 DEF Consistent, PreparePC
<1>7. Protected(x) = {} /\ Admitted(x) = {} /\ Pending(op[o]) = {}
  BY <1>2, <1>3 DEF Protected, Admitted, Pending, PreparePC
<1>8. WriterInv'
  <2>1. Funded(op[o])'
    BY <1>5, <1>7 DEF Funded
  <2>2. OthersKept(o)
    BY <1>4 DEF OthersKept
  <2> QED
    BY <1>2, <1>5, <1>6, <2>1, <2>2, WriterFrame, WriterFacts, Zenon
<1>9. PendingInv'
  <2>1. StillPending(o)
    BY <1>4, <1>7, WriterFacts DEF StillPending, LedgerType
  <2> QED
    BY <1>5, <2>1, PendingFrame, WriterFacts
<1>10. WalkInv'
  <2>1. Running(o)
    BY <1>3, WriterFacts DEF WalkInv, Running
  <2> QED
    BY <1>3, <1>4, <1>5, <2>1, WalkFrame, WriterFacts
<1>11. TypeOK'
  BY <1>4, <1>5, WriterFacts DEF TypeOK, LedgerType
<1> QED
  BY <1>8, <1>9, <1>10, <1>11 DEF IInv

\* Taking the next lock keeps the locks exclusive.
LEMMA LockKeyInv ==
    ASSUME IInv, NEW o \in Writers, LockKey(o)
    PROVE  IInv'
<1>1. PICK k \in op[o].todo :
        /\ \A p \in Writers : k \notin Held(p)
        /\ Becomes(o, [Advance(op[o], k, "lock", "begin") EXCEPT
                         !.held = @ \cup {k}])
  BY Zenon DEF LockKey
<1> DEFINE y == Advance(op[o], k, "lock", "begin")
           x == [y EXCEPT !.held = @ \cup {k}]
<1>2. k \in Keys
  BY <1>1, WriterFacts DEF OpType
<1>3. /\ y \in OpType /\ y.keys = op[o].keys /\ y.held = op[o].held
      /\ y.published = op[o].published
      /\ y.pc = IF op[o].todo = {k} THEN "begin" ELSE "lock"
      /\ y.todo = IF op[o].todo = {k} THEN op[o].keys ELSE op[o].todo \ {k}
  <2>1. op[o] \in OpType /\ "lock" \in WriterPC /\ "begin" \in WriterPC
    BY WriterFacts DEF WriterPC
  <2> QED
    BY <1>2, <2>1, Zenon DEF Advance, OpType
<1>4. /\ x \in OpType /\ x.keys = op[o].keys /\ x.held = op[o].held \cup {k}
      /\ x.pc = y.pc /\ x.todo = y.todo /\ x.published = y.published
  BY <1>2, <1>3 DEF OpType
<1>5. op[o].pc = "lock"
  BY DEF LockKey
<1>6. /\ size' = size /\ totalSize' = totalSize /\ active' = active
      /\ reservations' = reservations /\ reservedSize' = reservedSize
      /\ disk' = disk /\ walk' = walk
  BY DEF LockKey, ledger, reserved, loop
<1>7. /\ op' \in [Writers -> OpType] /\ op'[o] = x
      /\ \A p \in Writers : p # o => op'[p] = op[p]
  BY <1>1, <1>4, BecomesFacts, WriterFacts
<1>8. Consistent(x)
  <2>1. op[o].keys = op[o].held \cup op[o].todo /\ ~op[o].published
    BY <1>5, WriterFacts DEF Consistent
  <2>2. x.held \subseteq x.keys /\ x.todo \subseteq x.keys
    BY <1>1, <1>3, <1>4, <2>1
  <2>3. x.pc \in {"lock", "begin"}
    BY <1>3, <1>4
  <2>4. x.pc = "lock" => x.keys = x.held \cup x.todo
    BY <1>1, <1>3, <1>4, <2>1
  <2>5. x.pc = "begin" => x.held = x.keys
    BY <1>1, <1>3, <1>4, <2>1
  <2> QED
    BY <1>3, <1>4, <2>1, <2>2, <2>3, <2>4, <2>5 DEF Consistent, PreparePC
<1>9. Protected(x) = {} /\ Admitted(x) = {} /\ Pending(op[o]) = {}
  BY <1>3, <1>4, <1>5 DEF Protected, Admitted, Pending, PreparePC
<1>10. WriterInv'
  <2>1. Funded(op[o])'
    BY <1>7, <1>9 DEF Funded
  <2>2. OthersKept(o)
    BY <1>6 DEF OthersKept
  <2>3. \A p \in Writers : p # o => x.held \cap Held(p) = {}
    BY <1>1, <1>4, WriterFacts
  <2> QED
    BY <1>7, <1>8, <2>1, <2>2, <2>3, WriterFrame, WriterFacts, Zenon
<1>11. PendingInv'
  <2>1. StillPending(o)
    BY <1>6, <1>9, WriterFacts DEF StillPending, LedgerType
  <2> QED
    BY <1>7, <2>1, PendingFrame, WriterFacts
<1>12. WalkInv'
  <2>1. Running(o) /\ walk.kind # "purge"
    BY <1>5, WriterFacts DEF WalkInv, Running, Idle
  <2> QED
    BY <1>6, <1>7, <2>1, WalkFrame, WriterFacts
<1>13. TypeOK'
  BY <1>6, <1>7, WriterFacts DEF TypeOK, LedgerType
<1> QED
  BY <1>10, <1>11, <1>12, <1>13 DEF IInv

\* The obligations of the remaining steps of a writer.
LEMMA StepInv ==
    ASSUME IInv, NEW o \in Writers,
           op' \in [Writers -> OpType],
           \A p \in Writers : p # o => op'[p] = op[p],
           op'[o].held = op[o].held \/ op'[o].held = {},
           Consistent(op'[o]), Funded(op[o])', OthersKept(o), StillPending(o),
           LedgerType', walk' \in WalkType, WalkInv'
    PROVE  IInv'
<1>1. \A p \in Writers : p # o => op'[o].held \cap Held(p) = {}
  BY WriterFacts
<1>2. WriterInv'
  BY <1>1, WriterFacts, WriterFrame
<1>3. PendingInv'
  BY WriterFacts, PendingFrame
<1> QED
  BY <1>2, <1>3 DEF IInv, TypeOK

\* The ledger, the reservations and the files are as before.
Quiet ==
    /\ size' = size /\ totalSize' = totalSize /\ active' = active
    /\ reservations' = reservations /\ reservedSize' = reservedSize
    /\ disk' = disk

\* A failure before publication is complete keeps the invariant.
LEMMA FailedInv ==
    ASSUME IInv, NEW o \in Writers, op[o].pc \in PreparePC \cup {"commit"},
           Failed(o, op[o].published), Quiet, walk' \in WalkType, WalkInv'
    PROVE  IInv'
<1>1. op[o].published \in BOOLEAN
  BY WriterFacts DEF OpType
<1>2. /\ op' \in [Writers -> OpType]
      /\ \A p \in Writers : p # o => op'[p] = op[p]
      /\ op'[o].pc = IF op[o].published THEN "discard" ELSE "release"
      /\ op'[o].todo = op[o].keys
      /\ op'[o].keys = op[o].keys /\ op'[o].held = op[o].held
      /\ op'[o].item = op[o].item
  BY <1>1, FailedFacts, WriterFacts
<1>3. op[o].held = op[o].keys
  BY WriterFacts DEF Consistent, PreparePC
<1>4. Consistent(op'[o])
  BY <1>2, <1>3 DEF Consistent, PreparePC
<1>5. /\ Admitted(op'[o]) = {}
      /\ Protected(op'[o]) \subseteq op[o].keys
      /\ Protected(op[o]) = op[o].keys
      /\ Pending(op'[o]) = Pending(op[o])
  BY <1>2 DEF Admitted, Protected, Pending, PreparePC
<1>6. Funded(op[o])'
  BY <1>5, WriterFacts DEF Funded, Quiet
<1>7. OthersKept(o) /\ StillPending(o) /\ LedgerType'
  BY <1>5, WriterFacts DEF Quiet, OthersKept, StillPending, LedgerType
<1> QED
  BY <1>2, <1>4, <1>6, <1>7, StepInv

\* beginReservation touches a key its writer has locked.
LEMMA BeginReservationInv ==
    ASSUME IInv, NEW o \in Writers, BeginReservation(o)
    PROVE  IInv'
<1>1. PICK k \in op[o].todo :
        /\ active' = active \cup {k}
        /\ reservations' = [reservations EXCEPT ![k] = 0]
        /\ Becomes(o, Advance(op[o], k, "begin", "prepare"))
  BY Zenon DEF BeginReservation
<1>2. /\ op[o].pc = "begin" /\ walk' = walk /\ walk = NoWalk
      /\ size' = size /\ totalSize' = totalSize /\ disk' = disk
      /\ reservedSize' = reservedSize
  BY DEF BeginReservation, ledger, loop, Unlocked
<1>3. /\ k \in Keys /\ k \in op[o].held /\ op[o].held = op[o].keys
      /\ ~op[o].published
  BY <1>1, <1>2, WriterFacts DEF OpType, Consistent
<1>4. /\ op' \in [Writers -> OpType]
      /\ \A p \in Writers : p # o => op'[p] = op[p]
      /\ op'[o].keys = op[o].keys /\ op'[o].held = op[o].held
      /\ op'[o].published = op[o].published
      /\ op'[o].pc = IF op[o].todo = {k} THEN "prepare" ELSE "begin"
      /\ op'[o].todo = IF op[o].todo = {k} THEN op[o].keys
                                          ELSE op[o].todo \ {k}
  <2>1. "begin" \in WriterPC /\ "prepare" \in WriterPC
    BY DEF WriterPC, PreparePC
  <2> QED
    BY <1>1, <1>3, <2>1, AdvanceStep, WriterFacts, Zenon
<1>5. op[o].todo \subseteq op[o].keys
  BY WriterFacts DEF Consistent
<1>6. Consistent(op'[o])
  BY <1>3, <1>4, <1>5 DEF Consistent, PreparePC
<1>7. /\ Admitted(op'[o]) = {} /\ Pending(op[o]) = {}
      /\ Protected(op'[o]) \subseteq Protected(op[o]) \cup {k}
  BY <1>2, <1>4, <1>5 DEF Admitted, Pending, Protected, PreparePC
<1>8. Funded(op[o])'
  BY <1>1, <1>7, WriterFacts DEF Funded
<1>9. LedgerType'
  BY <1>1, <1>2, <1>3, WriterFacts DEF LedgerType
<1>10. OthersKept(o) /\ StillPending(o)
  BY <1>1, <1>2, <1>3, <1>7, WriterFacts
     DEF OthersKept, StillPending, LedgerType, Held
<1>11. WalkInv' /\ walk' \in WalkType
  BY <1>2, WalkNone, WriterFacts DEF TypeOK
<1> QED
  BY <1>4, <1>6, <1>8, <1>9, <1>10, <1>11, StepInv

\* Steps that move no writer and no bytes.
LEMMA QuietInv ==
    ASSUME IInv, Quiet, op' = op, walk' \in WalkType, WalkInv'
    PROVE  IInv'
  BY DEF IInv, Quiet, TypeOK, LedgerType, WriterInv, Funded, Held, PendingInv

\* reserveEntry up to its loop.
LEMMA ReserveInv ==
    ASSUME IInv, NEW o \in Writers, NEW k \in op[o].todo, NEW n \in Nat,
           op[o].pc \in {"prepare", "written"},
           op[o].pc = "written" => k = op[o].key /\ n = op[o].item[k],
           Reserve(o, k, n)
    PROVE  IInv'
<1>1. Quiet /\ walk = NoWalk
  BY DEF Reserve, Quiet, ledger, reserved, Unlocked
<1>2. CASE n > MaxSize
  <2>1. Failed(o, op[o].published) /\ walk' = NoWalk
    BY <1>1, <1>2 DEF Reserve, loop
  <2>2. walk' \in WalkType /\ WalkInv'
    BY <2>1, WalkNone DEF WalkType, NoWalk
  <2> QED
    BY <1>1, <2>1, <2>2, FailedInv DEF PreparePC
<1>3. CASE ~(n > MaxSize)
  <2>1. /\ walk' = [kind |-> "admit", op |-> o, key |-> k, item |-> n]
        /\ op' = op
    BY <1>3 DEF Reserve, StartWalk
  <2>2. k \in Keys
    BY WriterFacts DEF OpType
  <2>3. walk' \in WalkType /\ WalkInv'
    BY <2>1, <2>2 DEF WalkType, WalkInv
  <2> QED
    BY <1>1, <2>1, <2>3, QuietInv
<1> QED
  BY <1>2, <1>3

\* The reservation made for a Content-Length.
LEMMA ReserveExpectedInv ==
    ASSUME IInv, NEW o \in Writers, NEW k \in Keys, NEW n \in Sizes,
           ReserveExpected(o, k, n)
    PROVE  IInv'
  BY AdmissionAssumption, ReserveInv DEF ReserveExpected

\* The reservation made for what was written.
LEMMA ReserveWrittenInv ==
    ASSUME IInv, NEW o \in Writers, ReserveWritten(o)
    PROVE  IInv'
<1>1. op[o].pc = "written" /\ Reserve(o, op[o].key, op[o].item[op[o].key])
  BY DEF ReserveWritten
<1>2. op[o].key \in op[o].todo
  BY <1>1, WriterFacts DEF Consistent
<1>3. op[o].item[op[o].key] \in Nat
  BY <1>2, WriterFacts DEF OpType
<1> QED
  BY <1>1, <1>2, <1>3, ReserveInv

\* Staging the body publishes it on a generic VFS only.
LEMMA StageBodyInv ==
    ASSUME IInv, NEW o \in Writers, NEW k \in Keys, NEW n \in Sizes,
           StageBody(o, k, n)
    PROVE  IInv'
<1> DEFINE x == [op[o] EXCEPT !.pc = "written", !.key = k,
                              !.item = [@ EXCEPT ![k] = n],
                              !.published = @ \/ InPlace]
<1>1. /\ Running(o) /\ Becomes(o, x) /\ walk' = walk
      /\ op[o].pc \in {"prepare", "sized"}
      /\ disk' = IF InPlace THEN [disk EXCEPT ![k] = n] ELSE disk
      /\ size' = size /\ totalSize' = totalSize /\ active' = active
      /\ reservations' = reservations /\ reservedSize' = reservedSize
  BY DEF StageBody, ledger, reserved, loop
<1>2. k \in op[o].todo
  BY WriterFacts DEF StageBody, Consistent
<1>3. n \in Nat /\ n > 0 /\ InPlace \in BOOLEAN
  BY AdmissionAssumption
<1>4. /\ x \in OpType /\ x.pc = "written" /\ x.key = k
      /\ x.item = [op[o].item EXCEPT ![k] = n]
      /\ x.published = (op[o].published \/ InPlace)
      /\ x.keys = op[o].keys /\ x.held = op[o].held /\ x.todo = op[o].todo
  <2>1. op[o] \in OpType
    BY WriterFacts
  <2> QED
    BY <1>3, <2>1, Zenon DEF OpType, WriterPC, PreparePC
<1> HIDE DEF x
<1>5. /\ op' \in [Writers -> OpType] /\ op'[o] = x
      /\ \A p \in Writers : p # o => op'[p] = op[p]
  BY <1>1, <1>4, BecomesFacts, WriterFacts
<1>6. /\ op[o].held = op[o].keys /\ op[o].todo \subseteq op[o].keys
      /\ ~InPlace => ~op[o].published
  BY <1>1, WriterFacts DEF Consistent, PreparePC
<1>7. x.item[k] = n /\ \A j \in Keys : j # k => x.item[j] = op[o].item[j]
  BY <1>4, WriterFacts DEF OpType
<1>8. Consistent(x)
  BY <1>2, <1>3, <1>4, <1>6, <1>7 DEF Consistent, PreparePC
<1>9. /\ Admitted(x) = Admitted(op[o]) /\ k \notin Admitted(op[o])
      /\ Admitted(op[o]) \subseteq Keys
      /\ Protected(x) = Protected(op[o])
  BY <1>1, <1>2, <1>4, WriterFacts DEF Admitted, Protected, PreparePC, OpType
<1>10. Pending(op[o]) \subseteq Pending(x) /\ (InPlace => k \in Pending(x))
  BY <1>1, <1>2, <1>4, <1>6, Zenon DEF Pending, PreparePC
<1>11. Funded(op[o])'
  BY <1>1, <1>5, <1>7, <1>9, WriterFacts DEF Funded
<1>12. LedgerType'
  BY <1>1, <1>3, WriterFacts DEF LedgerType
<1>13. OthersKept(o)
  BY <1>1 DEF OthersKept
<1>14. StillPending(o)
  BY <1>1, <1>3, <1>5, <1>10, WriterFacts DEF StillPending, LedgerType
<1>15. walk' \in WalkType /\ WalkInv'
  BY <1>1, <1>5, WalkFrame, NoPurge, WriterFacts DEF TypeOK, Idle
<1> QED
  BY <1>4, <1>5, <1>8, <1>11, <1>12, <1>13, <1>14, <1>15, StepInv

\* A failure while staging.
LEMMA StageFailInv ==
    ASSUME IInv, NEW o \in Writers, StageFail(o)
    PROVE  IInv'
<1>1. /\ Running(o) /\ op[o].pc \in PreparePC \cup {"commit"}
      /\ Failed(o, op[o].published) /\ walk' = walk /\ Quiet
  BY DEF StageFail, Quiet, ledger, reserved, loop
<1>2. \A p \in Writers : p # o => op'[p] = op[p]
  BY <1>1, FailedFacts, WriterFacts DEF OpType
<1>3. walk' \in WalkType /\ WalkInv'
  BY <1>1, <1>2, WalkFrame, NoPurge, WriterFacts DEF TypeOK, Idle, PreparePC
<1> QED
  BY <1>1, <1>3, FailedInv

\* Publication, complete or cut short by a failed rename.
LEMMA CommitInv ==
    ASSUME IInv, NEW o \in Writers, Commit(o)
    PROVE  IInv'
<1>1. PICK done \in SUBSET op[o].keys :
        /\ InPlace => done = op[o].keys
        /\ disk' = IF InPlace THEN disk
                   ELSE [k \in Keys |-> IF k \in done THEN op[o].item[k]
                                                      ELSE disk[k]]
        /\ IF done = op[o].keys
             THEN Becomes(o, [op[o] EXCEPT !.pc = "track"])
             ELSE Failed(o, done # {})
  BY DEF Commit
<1>2. /\ op[o].pc = "commit" /\ walk' = walk
      /\ size' = size /\ totalSize' = totalSize /\ active' = active
      /\ reservations' = reservations /\ reservedSize' = reservedSize
  BY DEF Commit, ledger, reserved, loop
<1>3. /\ op[o].held = op[o].keys /\ op[o].todo = op[o].keys
      /\ ~InPlace => ~op[o].published
      /\ Running(o)
  BY <1>2, WriterFacts DEF Consistent, PreparePC, WalkInv, Running
<1>4. /\ Protected(op[o]) = op[o].keys /\ Admitted(op[o]) = op[o].keys
      /\ ~InPlace => Pending(op[o]) = {}
  BY <1>2, <1>3 DEF Protected, Admitted, Pending, PreparePC
<1>5. LedgerType'
  <2>1. op[o].item \in [Keys -> Nat] /\ disk \in [Keys -> Nat]
    BY WriterFacts DEF OpType, LedgerType
  <2>2. disk' \in [Keys -> Nat]
    BY <1>1, <2>1
  <2> QED
    BY <1>2, <2>2, WriterFacts DEF LedgerType
<1>6. OthersKept(o)
  BY <1>2 DEF OthersKept
<1>7. CASE done = op[o].keys
  <2> DEFINE x == [op[o] EXCEPT !.pc = "track"]
  <2>1. /\ x \in OpType /\ x.pc = "track" /\ x.keys = op[o].keys
        /\ x.held = op[o].held /\ x.todo = op[o].todo /\ x.item = op[o].item
    BY WriterFacts DEF OpType, WriterPC
  <2>2. Becomes(o, x)
    BY <1>1, <1>7
  <2> HIDE DEF x
  <2>3. /\ op' \in [Writers -> OpType] /\ op'[o] = x
        /\ \A p \in Writers : p # o => op'[p] = op[p]
    BY <2>1, <2>2, BecomesFacts, WriterFacts
  <2>4. Consistent(x)
    BY <1>3, <2>1 DEF Consistent, PreparePC
  <2>5. /\ Protected(x) = op[o].keys /\ Admitted(x) = op[o].keys
        /\ Pending(x) = op[o].keys
    BY <1>3, <2>1 DEF Protected, Admitted, Pending, PreparePC
  <2>6. Funded(op[o])'
    BY <1>2, <1>4, <2>1, <2>3, <2>5, WriterFacts DEF Funded
  <2>7. StillPending(o)
    <3> SUFFICES ASSUME NEW k \in Keys, disk'[k] > 0, k \notin op[o].keys
                 PROVE  \/ size'[k] > 0
                        \/ disk[k] > 0 /\ size[k] = 0 /\ k \notin Pending(op[o])
      BY <2>3, <2>5 DEF StillPending
    <3>1. disk'[k] = disk[k]
      BY <1>1
    <3>2. Pending(op[o]) \subseteq op[o].keys
      BY <1>2 DEF Pending, PreparePC
    <3> QED
      BY <1>2, <3>1, <3>2, WriterFacts DEF LedgerType
  <2>8. walk' \in WalkType /\ WalkInv'
    BY <1>2, <1>3, <2>3, WalkFrame, NoPurge, WriterFacts DEF TypeOK, Idle
  <2> QED
    BY <1>5, <1>6, <2>1, <2>3, <2>4, <2>6, <2>7, <2>8, StepInv
<1>8. CASE done # op[o].keys
  <2>1. ~InPlace /\ Failed(o, done # {})
    BY <1>1, <1>8, AdmissionAssumption
  <2>2. /\ op' \in [Writers -> OpType]
        /\ \A p \in Writers : p # o => op'[p] = op[p]
        /\ op'[o].pc = IF done # {} THEN "discard" ELSE "release"
        /\ op'[o].todo = op[o].keys
        /\ op'[o].keys = op[o].keys /\ op'[o].held = op[o].held
    BY <2>1, FailedFacts, WriterFacts, Zenon
  <2>3. Consistent(op'[o])
    BY <1>3, <2>2 DEF Consistent, PreparePC
  <2>4. /\ Admitted(op'[o]) = {} /\ Protected(op'[o]) \subseteq op[o].keys
        /\ done # {} => Pending(op'[o]) = op[o].keys
    BY <2>2 DEF Admitted, Protected, Pending, PreparePC
  <2>5. Funded(op[o])'
    BY <1>2, <1>4, <2>4, WriterFacts DEF Funded
  <2>6. StillPending(o)
    <3> SUFFICES ASSUME NEW k \in Keys, disk'[k] > 0
                 PROVE  \/ size'[k] > 0
                        \/ k \in Pending(op'[o])
                        \/ disk[k] > 0 /\ size[k] = 0 /\ k \notin Pending(op[o])
      BY DEF StillPending
    <3>1. CASE k \in done
      BY <2>4, <3>1
    <3>2. CASE k \notin done
      BY <1>1, <1>2, <1>4, <2>1, <3>2, WriterFacts DEF LedgerType
    <3> QED
      BY <3>1, <3>2
  <2>7. walk' \in WalkType /\ WalkInv'
    BY <1>2, <1>3, <2>2, WalkFrame, NoPurge, WriterFacts DEF TypeOK, Idle
  <2> QED
    BY <1>5, <1>6, <2>2, <2>3, <2>5, <2>6, <2>7, StepInv
<1> QED
  BY <1>7, <1>8

\* trackEntry charges the published key.
LEMMA TrackInv ==
    ASSUME IInv, NEW o \in Writers, Track(o)
    PROVE  IInv'
<1>1. PICK k \in op[o].todo :
        /\ size' = [size EXCEPT ![k] = op[o].item[k]]
        /\ totalSize' = totalSize - size[k] + op[o].item[k]
        /\ ReleaseReservation(k)
        /\ Becomes(o, Advance(op[o], k, "track", "release"))
  BY Zenon DEF Track
<1>2. op[o].pc = "track" /\ walk' = walk /\ walk = NoWalk /\ disk' = disk
  BY DEF Track, Unlocked, loop
<1>3. /\ op[o].held = op[o].keys /\ op[o].todo \subseteq op[o].keys
      /\ k \in Keys /\ k \in Held(o)
  BY <1>1, <1>2, WriterFacts DEF Consistent, OpType, Held
<1>4. /\ op' \in [Writers -> OpType]
      /\ \A p \in Writers : p # o => op'[p] = op[p]
      /\ op'[o].keys = op[o].keys /\ op'[o].held = op[o].held
      /\ op'[o].item = op[o].item
      /\ op'[o].pc = IF op[o].todo = {k} THEN "release" ELSE "track"
      /\ op'[o].todo = IF op[o].todo = {k} THEN op[o].keys
                                          ELSE op[o].todo \ {k}
  <2>1. "track" \in WriterPC /\ "release" \in WriterPC
    BY DEF WriterPC
  <2> QED
    BY <1>1, <1>3, <2>1, AdvanceStep, WriterFacts, Zenon
<1>5. Consistent(op'[o])
  BY <1>3, <1>4 DEF Consistent, PreparePC
<1>6. /\ Admitted(op[o]) = op[o].todo /\ Protected(op[o]) = op[o].todo
      /\ Pending(op[o]) = op[o].todo
      /\ Admitted(op'[o]) = op[o].todo \ {k}
      /\ Protected(op'[o]) = op[o].todo \ {k}
      /\ Pending(op'[o]) = op[o].todo \ {k}
  BY <1>1, <1>2, <1>4 DEF Admitted, Protected, Pending, PreparePC
<1>7. op[o].item[k] > 0 /\ op[o].item[k] \in Nat
  BY <1>1, <1>3, <1>6, WriterFacts DEF Funded, OpType
<1>8. LedgerType'
  BY <1>1, <1>2, <1>3, <1>7, WriterFacts DEF LedgerType, ReleaseReservation
<1>9. /\ size'[k] > 0
      /\ \A j \in Keys : j # k => /\ size'[j] = size[j]
                                  /\ reservations'[j] = reservations[j]
                                  /\ j \in active => j \in active'
  BY <1>1, <1>3, <1>7, WriterFacts DEF LedgerType, ReleaseReservation
<1>10. Funded(op[o])'
  <2>1. \A j \in op[o].todo \ {k} : j \in Keys /\ j \in active
    BY <1>6, WriterFacts DEF Funded, OpType
  <2> QED
    BY <1>4, <1>6, <1>9, <2>1, WriterFacts DEF Funded
<1>11. OthersKept(o)
  BY <1>3, <1>9 DEF OthersKept
<1>12. StillPending(o)
  BY <1>2, <1>6, <1>9, WriterFacts DEF StillPending, LedgerType
<1>13. walk' \in WalkType /\ WalkInv'
  BY <1>2, WalkNone, WriterFacts DEF TypeOK
<1> QED
  BY <1>4, <1>5, <1>8, <1>10, <1>11, <1>12, <1>13, StepInv

\* What discardUnadmitted does to the ledger.
LEMMA DiscardedFacts ==
    ASSUME LedgerType, NEW k \in Keys, NEW residual \in Nat,
           Discarded(k, residual)
    PROVE  /\ size' \in [Keys -> Nat] /\ disk' \in [Keys -> Nat]
           /\ totalSize' \in Int
           /\ \A j \in Keys : j # k => size'[j] = size[j] /\ disk'[j] = disk[j]
           /\ disk'[k] > 0 => size'[k] > 0
           /\ Faults = {} => totalSize' <= totalSize
<1>1. CASE Removed(k)
  BY <1>1 DEF Removed, LedgerType
<1>2. CASE ~Removed(k)
  <2> DEFINE charged == IF size[k] > 0
                          THEN IF residual > size[k] THEN residual ELSE size[k]
                          ELSE IF residual > 0 THEN residual ELSE 1
  <2>1. /\ "remove" \in Faults /\ disk' = disk
        /\ size' = [size EXCEPT ![k] = charged]
        /\ totalSize' = totalSize + charged - size[k]
    BY <1>2 DEF Discarded
  <2>2. charged \in Nat /\ charged > 0
    BY DEF LedgerType
  <2> HIDE DEF charged
  <2> QED
    BY <2>1, <2>2 DEF LedgerType
<1> QED
  BY <1>1, <1>2

\* Rollback of one key of the transaction.
LEMMA DiscardInv ==
    ASSUME IInv, NEW o \in Writers, Discard(o)
    PROVE  IInv'
<1>1. PICK k \in op[o].todo :
        /\ Discarded(k, op[o].item[k])
        /\ Becomes(o, Advance(op[o], k, "discard", "release"))
  BY DEF Discard
<1>2. /\ op[o].pc = "discard" /\ walk' = walk /\ walk = NoWalk
      /\ active' = active /\ reservations' = reservations
      /\ reservedSize' = reservedSize
  BY DEF Discard, Unlocked, loop, reserved
<1>3. /\ op[o].held = op[o].keys /\ op[o].todo \subseteq op[o].keys
      /\ k \in Keys /\ k \in Held(o) /\ op[o].item[k] \in Nat
  BY <1>1, <1>2, WriterFacts DEF Consistent, OpType, Held
<1>4. /\ op' \in [Writers -> OpType]
      /\ \A p \in Writers : p # o => op'[p] = op[p]
      /\ op'[o].keys = op[o].keys /\ op'[o].held = op[o].held
      /\ op'[o].pc = IF op[o].todo = {k} THEN "release" ELSE "discard"
      /\ op'[o].todo = IF op[o].todo = {k} THEN op[o].keys
                                          ELSE op[o].todo \ {k}
  <2>1. "discard" \in WriterPC /\ "release" \in WriterPC
    BY DEF WriterPC
  <2> QED
    BY <1>1, <1>3, <2>1, AdvanceStep, WriterFacts, Zenon
<1>5. /\ size' \in [Keys -> Nat] /\ disk' \in [Keys -> Nat]
      /\ totalSize' \in Int
      /\ \A j \in Keys : j # k => size'[j] = size[j] /\ disk'[j] = disk[j]
      /\ disk'[k] > 0 => size'[k] > 0
  BY <1>1, <1>3, DiscardedFacts, WriterFacts
<1>6. Consistent(op'[o])
  BY <1>3, <1>4 DEF Consistent, PreparePC
<1>7. /\ Protected(op[o]) = op[o].keys /\ Pending(op[o]) = op[o].todo
      /\ Admitted(op'[o]) = {} /\ Protected(op'[o]) \subseteq op[o].keys
      /\ Pending(op'[o]) = op[o].todo \ {k}
  BY <1>1, <1>2, <1>4 DEF Admitted, Protected, Pending, PreparePC
<1>8. Funded(op[o])'
  BY <1>2, <1>7, WriterFacts DEF Funded
<1>9. LedgerType'
  BY <1>2, <1>5, WriterFacts DEF LedgerType
<1>10. OthersKept(o)
  BY <1>2, <1>3, <1>5 DEF OthersKept
<1>11. StillPending(o)
  BY <1>5, <1>7, WriterFacts DEF StillPending, LedgerType
<1>12. walk' \in WalkType /\ WalkInv'
  BY <1>2, WalkNone, WriterFacts DEF TypeOK
<1> QED
  BY <1>4, <1>6, <1>8, <1>9, <1>10, <1>11, <1>12, StepInv

\* The deferred releases.
LEMMA ReleaseInv ==
    ASSUME IInv, NEW o \in Writers, Release(o)
    PROVE  IInv'
<1>1. PICK k \in op[o].todo :
        /\ ReleaseReservation(k)
        /\ Becomes(o, IF op[o].todo = {k} THEN NoOp
                      ELSE Advance(op[o], k, "release", "release"))
  BY DEF Release
<1>2. /\ op[o].pc = "release" /\ walk' = walk /\ walk = NoWalk
      /\ size' = size /\ totalSize' = totalSize /\ disk' = disk
  BY DEF Release, Unlocked, loop, ledger
<1>3. /\ op[o].held = op[o].keys /\ op[o].todo \subseteq op[o].keys
      /\ k \in Keys /\ k \in Held(o)
  BY <1>1, <1>2, WriterFacts DEF Consistent, OpType, Held
<1>4. /\ op' \in [Writers -> OpType]
      /\ \A p \in Writers : p # o => op'[p] = op[p]
      /\ op'[o].held = op[o].held \/ op'[o].held = {}
      /\ Consistent(op'[o])
      /\ Protected(op'[o]) = {} /\ Admitted(op'[o]) = {}
  <2>1. CASE op[o].todo = {k}
    <3>1. Becomes(o, NoOp)
      BY <1>1, <2>1
    <3>2. /\ op' \in [Writers -> OpType] /\ op'[o] = NoOp
          /\ \A p \in Writers : p # o => op'[p] = op[p]
      BY <3>1, NoOpType, BecomesFacts, WriterFacts
    <3>3. /\ Consistent(NoOp) /\ NoOp.held = {}
          /\ Protected(NoOp) = {} /\ Admitted(NoOp) = {}
      BY DEF NoOp, Consistent, Protected, Admitted, PreparePC
    <3> QED
      BY <3>2, <3>3
  <2>2. CASE op[o].todo # {k}
    <3>1. "release" \in WriterPC
      BY DEF WriterPC
    <3>2. /\ op' \in [Writers -> OpType]
          /\ \A p \in Writers : p # o => op'[p] = op[p]
          /\ op'[o].keys = op[o].keys /\ op'[o].held = op[o].held
          /\ op'[o].pc = "release" /\ op'[o].todo = op[o].todo \ {k}
      BY <1>1, <1>3, <2>2, <3>1, AdvanceStep, WriterFacts, Zenon
    <3> QED
      BY <1>3, <3>2 DEF Consistent, Protected, Admitted, PreparePC
  <2> QED
    BY <2>1, <2>2
<1>5. LedgerType'
  BY <1>1, <1>2, <1>3, WriterFacts DEF LedgerType, ReleaseReservation
<1>6. Funded(op[o])'
  BY <1>4 DEF Funded
<1>7. OthersKept(o)
  BY <1>1, <1>2, <1>3, WriterFacts DEF OthersKept, ReleaseReservation, LedgerType
<1>8. StillPending(o)
  <2>1. Pending(op[o]) = {}
    BY <1>2 DEF Pending, PreparePC
  <2> QED
    BY <1>2, <2>1, WriterFacts DEF StillPending, LedgerType
<1>9. walk' \in WalkType /\ WalkInv'
  BY <1>2, WalkNone, WriterFacts DEF TypeOK
<1> QED
  BY <1>4, <1>5, <1>6, <1>7, <1>8, <1>9, StepInv

\* A superseded response leaves nothing behind.
LEMMA SupersededInv ==
    ASSUME IInv, NEW o \in Writers, Superseded(o)
    PROVE  IInv'
<1>1. /\ op[o].pc = "begin" /\ Becomes(o, NoOp) /\ walk' = walk /\ Quiet
  BY DEF Superseded, Quiet, ledger, reserved, loop
<1>2. /\ op' \in [Writers -> OpType] /\ op'[o] = NoOp
      /\ \A p \in Writers : p # o => op'[p] = op[p]
  BY <1>1, NoOpType, BecomesFacts, WriterFacts
<1>3. /\ Consistent(NoOp) /\ NoOp.held = {}
      /\ Protected(NoOp) = {} /\ Admitted(NoOp) = {}
  BY DEF NoOp, Consistent, Protected, Admitted, PreparePC
<1>4. Pending(op[o]) = {} /\ Running(o)
  BY <1>1, WriterFacts DEF Pending, PreparePC, Running, WalkInv
<1>5. Funded(op[o])'
  BY <1>2, <1>3 DEF Funded
<1>6. OthersKept(o) /\ StillPending(o) /\ LedgerType'
  BY <1>1, <1>4, WriterFacts DEF Quiet, OthersKept, StillPending, LedgerType
<1>7. walk' \in WalkType /\ WalkInv'
  BY <1>1, <1>2, <1>4, WalkFrame, NoPurge, WriterFacts DEF TypeOK, Idle
<1> QED
  BY <1>2, <1>3, <1>5, <1>6, <1>7, StepInv

------------------------------------------------------------------------------
(* Loops, sweeps and readers.                                              *)

\* Taking away an entry no writer counts on.
LEMMA VictimInv ==
    ASSUME IInv, NEW k \in Keys, op' = op, walk' = walk, active' = active,
           reservations' = reservations, LedgerType',
           \A j \in Keys : j # k => size'[j] = size[j] /\ disk'[j] = disk[j],
           disk'[k] > 0 => size'[k] > 0,
           \A o \in Writers : k \notin Protected(op[o])
    PROVE  IInv'
<1>1. WriterInv'
  <2>1. ASSUME NEW o \in Writers PROVE Funded(op[o])'
    <3>1. /\ op[o] \in OpType /\ Consistent(op[o]) /\ Funded(op[o])
      BY WriterFacts
    <3>2. Protected(op[o]) \subseteq Keys
      BY <3>1, ProtectedHeld DEF OpType
    <3>3. \A j \in Protected(op[o]) : /\ size'[j] = size[j]
                                      /\ reservations'[j] = reservations[j]
                                      /\ j \in active'
      BY <3>1, <3>2 DEF Funded
    <3> QED
      BY <3>1, <3>3, FundedFrame DEF Funded
  <2> QED
    BY <2>1 DEF IInv, WriterInv, Held
<1>2. PendingInv'
  BY DEF IInv, PendingInv
<1> QED
  BY <1>1, <1>2 DEF IInv, TypeOK, WalkInv, Idle

\* One iteration of a loop.
LEMMA VisitInv ==
    ASSUME IInv, NEW k \in Keys, Visit(k)
    PROVE  IInv'
<1>1. /\ op' = op /\ walk' = walk /\ active' = active
      /\ reservations' = reservations /\ reservedSize' = reservedSize
  BY DEF Visit, reserved
<1>2. CASE ~Skipped(k) /\ Removed(k)
  <2>1. \A o \in Writers : k \notin Protected(op[o])
    <3>1. CASE walk.kind = "purge"
      BY <3>1 DEF IInv, WalkInv, Idle, Protected, PreparePC
    <3>2. CASE walk.kind # "purge"
      BY <1>2, <3>2 DEF IInv, WriterInv, Funded, Skipped
    <3> QED
      BY <3>1, <3>2
  <2>2. LedgerType'
    BY <1>1, <1>2 DEF IInv, TypeOK, LedgerType, Removed
  <2>3. /\ \A j \in Keys : j # k => size'[j] = size[j] /\ disk'[j] = disk[j]
        /\ ~(disk'[k] > 0)
    BY <1>2 DEF IInv, TypeOK, LedgerType, Removed
  <2> QED
    BY <1>1, <2>1, <2>2, <2>3, VictimInv
<1>3. CASE UNCHANGED <<ledger, disk>>
  <2>1. Quiet
    BY <1>1, <1>3 DEF Quiet, ledger
  <2>2. walk' \in WalkType /\ WalkInv'
    BY <1>1 DEF IInv, TypeOK, WalkInv, Idle
  <2> QED
    BY <1>1, <2>1, <2>2, QuietInv
<1> QED
  BY <1>2, <1>3 DEF Visit

\* What the record of an admission loop holds.
LEMMA AdmitFacts ==
    ASSUME IInv, walk.kind = "admit"
    PROVE  /\ walk.op \in Writers /\ walk.key \in Keys /\ walk.item \in Nat
           /\ op[walk.op].pc \in {"prepare", "written"}
           /\ walk.key \in op[walk.op].todo
           /\ op[walk.op].pc = "written" =>
                /\ walk.key = op[walk.op].key
                /\ walk.item = op[walk.op].item[walk.key]
  BY DEF IInv, TypeOK, WalkType, WalkInv

\* The end of reserveEntry: refused, or the key's growth is reserved.
LEMMA ReserveEndInv ==
    ASSUME IInv, ReserveEnd
    PROVE  IInv'
<1>1. /\ walk.kind = "admit" /\ walk' = NoWalk
      /\ size' = size /\ totalSize' = totalSize /\ disk' = disk
  BY DEF ReserveEnd, EndWalk, ledger
<1>2. PICK o \in Writers, k \in Keys :
      /\ o = walk.op /\ k = walk.key /\ walk.item \in Nat
      /\ op[o].pc \in {"prepare", "written"} /\ k \in op[o].todo
      /\ op[o].pc = "written" => k = op[o].key /\ walk.item = op[o].item[k]
  BY <1>1, AdmitFacts
<1> DEFINE growth == IF walk.item > size[k] THEN walk.item - size[k] ELSE 0
<1>3. walk' \in WalkType /\ WalkInv'
  BY <1>1, WalkNone DEF WalkType, NoWalk
<1>4. CASE totalSize > TargetSize
  <2>1. Failed(o, op[o].published) /\ Quiet
    BY <1>1, <1>2, <1>4 DEF ReserveEnd, Quiet, reserved
  <2> QED
    BY <1>2, <1>3, <2>1, FailedInv DEF PreparePC
<1>5. CASE ~(totalSize > TargetSize)
  <2>1. /\ reservedSize' = reservedSize + growth - reservations[k]
        /\ reservations' = [reservations EXCEPT ![k] = growth]
        /\ active' = active
        /\ Becomes(o, IF op[o].pc = "prepare"
                        THEN [op[o] EXCEPT !.pc = "sized", !.key = k]
                        ELSE Advance(op[o], k, "prepare", "commit"))
    BY <1>2, <1>5 DEF ReserveEnd
  <2>2. /\ growth \in Nat /\ walk.item <= size[k] + growth
        /\ size[k] \in Nat
    BY <1>2, WriterFacts DEF LedgerType
  <2> HIDE DEF growth
  <2>3. LedgerType'
    BY <1>1, <1>2, <2>1, <2>2, WriterFacts DEF LedgerType
  <2>4. /\ reservations'[k] = growth
        /\ \A j \in Keys : j # k => reservations'[j] = reservations[j]
    BY <1>2, <2>1, <2>2, WriterFacts DEF LedgerType
  <2>5. /\ op[o] \in OpType /\ op[o].held = op[o].keys
        /\ op[o].todo \subseteq op[o].keys /\ op[o].keys \subseteq Keys
        /\ Protected(op[o]) = op[o].keys
        /\ Admitted(op[o]) = op[o].keys \ op[o].todo
        /\ Pending(op[o]) = IF op[o].published THEN op[o].keys ELSE {}
        /\ ~InPlace => ~op[o].published
    BY <1>2, WriterFacts
       DEF Consistent, PreparePC, OpType, Protected, Admitted, Pending
  <2>6. OthersKept(o)
    BY <1>1, <1>2, <2>1, <2>4, <2>5 DEF OthersKept, Held
  <2>7. CASE op[o].pc = "prepare"
    <3> DEFINE x == [op[o] EXCEPT !.pc = "sized", !.key = k]
    <3>1. /\ x \in OpType /\ x.pc = "sized" /\ x.key = k
          /\ x.keys = op[o].keys /\ x.held = op[o].held
          /\ x.todo = op[o].todo /\ x.item = op[o].item
          /\ x.published = op[o].published
      BY <1>2, <2>5, Zenon DEF OpType, WriterPC, PreparePC
    <3>2. Becomes(o, x)
      BY <2>1, <2>7
    <3> HIDE DEF x
    <3>3. /\ op' \in [Writers -> OpType] /\ op'[o] = x
          /\ \A p \in Writers : p # o => op'[p] = op[p]
      BY <1>2, <3>1, <3>2, BecomesFacts, WriterFacts
    <3>4. Consistent(x)
      BY <1>2, <2>5, <3>1 DEF Consistent, PreparePC
    <3>5. /\ Protected(x) = op[o].keys /\ Pending(x) = Pending(op[o])
          /\ Admitted(x) = op[o].keys \ op[o].todo
      BY <2>5, <3>1 DEF Protected, Admitted, Pending, PreparePC
    <3>6. Funded(op[o])'
      BY <1>1, <1>2, <2>1, <2>4, <2>5, <3>1, <3>3, <3>5, WriterFacts DEF Funded
    <3>7. StillPending(o)
      BY <1>1, <1>2, <3>3, <3>5, WriterFacts DEF StillPending, LedgerType
    <3> QED
      BY <1>2, <1>3, <2>3, <2>6, <3>1, <3>3, <3>4, <3>6, <3>7, StepInv
  <2>8. CASE op[o].pc = "written"
    <3>1. "prepare" \in WriterPC /\ "commit" \in WriterPC
      BY DEF WriterPC, PreparePC
    <3>2. Becomes(o, Advance(op[o], k, "prepare", "commit"))
      BY <2>1, <2>8
    <3>3. /\ op' \in [Writers -> OpType]
          /\ \A p \in Writers : p # o => op'[p] = op[p]
          /\ op'[o].keys = op[o].keys /\ op'[o].held = op[o].held
          /\ op'[o].item = op[o].item
          /\ op'[o].published = op[o].published
          /\ op'[o].pc = IF op[o].todo = {k} THEN "commit" ELSE "prepare"
          /\ op'[o].todo = IF op[o].todo = {k} THEN op[o].keys
                                              ELSE op[o].todo \ {k}
      <4>1. op \in [Writers -> OpType] /\ o \in Writers /\ k \in Keys
        BY <1>2, WriterFacts
      <4>2. /\ op' \in [Writers -> OpType]
            /\ \A p \in Writers : p # o => op'[p] = op[p]
        BY <3>1, <3>2, <4>1, AdvanceStep, Zenon
      <4>3. /\ op'[o].keys = op[o].keys /\ op'[o].held = op[o].held
            /\ op'[o].item = op[o].item
            /\ op'[o].published = op[o].published
        BY <3>1, <3>2, <4>1, AdvanceStep, Zenon
      <4>4. op'[o].pc = IF op[o].todo = {k} THEN "commit" ELSE "prepare"
        BY <3>2, <4>1 DEF Becomes, Advance, OpType
      <4>5. op'[o].todo = IF op[o].todo = {k} THEN op[o].keys
                                             ELSE op[o].todo \ {k}
        BY <3>1, <3>2, <4>1, AdvanceStep, Zenon
      <4> QED
        BY <4>2, <4>3, <4>4, <4>5
    <3>4. Consistent(op'[o])
      BY <2>5, <3>3 DEF Consistent, PreparePC
    <3>5. /\ Protected(op'[o]) = op[o].keys /\ Pending(op'[o]) = Pending(op[o])
          /\ Admitted(op'[o]) = (op[o].keys \ op[o].todo) \cup {k}
      BY <1>2, <2>5, <3>3, Zenon DEF Protected, Admitted, Pending, PreparePC
    <3>6. op[o].item[k] > 0 /\ op[o].item[k] <= size[k] + growth
      BY <1>2, <2>2, <2>8, WriterFacts DEF Consistent
    <3>7. Funded(op[o])'
      <4>1. /\ Protected(op[o]) \subseteq active
            /\ \A j \in Admitted(op[o]) :
                 op[o].item[j] > 0 /\ op[o].item[j] <= size[j] + reservations[j]
        BY <1>2, WriterFacts DEF Funded
      <4>2. \A j \in op[o].keys \ op[o].todo :
              op[o].item[j] > 0 /\ op[o].item[j] <= size[j] + reservations'[j]
        BY <1>2, <2>4, <2>5, <4>1
      <4>3. \A j \in Admitted(op'[o]) :
              op[o].item[j] > 0 /\ op[o].item[j] <= size[j] + reservations'[j]
        BY <2>4, <3>5, <3>6, <4>2
      <4>4. Protected(op'[o]) \subseteq active'
        BY <2>1, <2>5, <3>5, <4>1
      <4> QED
        BY <1>1, <3>3, <4>3, <4>4 DEF Funded
    <3>8. StillPending(o)
      BY <1>1, <1>2, <3>5, WriterFacts DEF StillPending, LedgerType
    <3> QED
      BY <1>2, <1>3, <2>3, <2>6, <3>3, <3>4, <3>7, <3>8, StepInv
  <2> QED
    BY <1>2, <2>7, <2>8
<1> QED
  BY <1>4, <1>5

\* Starting and ending the sweeps.
LEMMA CleanupInv ==
    ASSUME IInv, NEW kind \in {"ttl", "size", "purge"}, Cleanup(kind)
    PROVE  IInv'
<1>1. /\ walk' = [kind |-> kind] /\ op' = op /\ Quiet
      /\ kind = "purge" => \A o \in Writers : Idle(o)
  BY DEF Cleanup, StartWalk, Quiet, ledger, reserved
<1>2. walk' \in WalkType /\ WalkInv'
  BY <1>1 DEF WalkType, WalkInv, Idle
<1> QED
  BY <1>1, <1>2, QuietInv

\* The end of a sweep or of Purge touches nothing but the loop.
LEMMA CleanupEndInv ==
    ASSUME IInv, CleanupEnd
    PROVE  IInv'
<1>1. walk' = NoWalk /\ op' = op /\ Quiet
  BY DEF CleanupEnd, EndWalk, Quiet, ledger, reserved
<1>2. walk' \in WalkType /\ WalkInv'
  BY <1>1, WalkNone DEF WalkType, NoWalk
<1> QED
  BY <1>1, <1>2, QuietInv

\* touchEntry reorders the list only.
LEMMA TouchInv ==
    ASSUME IInv, NEW k \in Keys, Touch(k)
    PROVE  IInv'
<1>1. walk' = walk /\ op' = op /\ Quiet
  BY DEF Touch, Quiet, reserved, loop
<1>2. walk' \in WalkType /\ WalkInv'
  BY <1>1 DEF IInv, TypeOK, WalkInv, Idle
<1> QED
  BY <1>1, <1>2, QuietInv

\* discardCorrupt touches a key nobody has locked.
LEMMA DiscardCorruptInv ==
    ASSUME IInv, NEW k \in Keys, DiscardCorrupt(k)
    PROVE  IInv'
<1>1. /\ op' = op /\ walk' = walk /\ active' = active
      /\ reservations' = reservations /\ reservedSize' = reservedSize
      /\ \A o \in Writers : k \notin Held(o)
      /\ Discarded(k, disk[k])
  BY DEF DiscardCorrupt, reserved, loop
<1>2. LedgerType /\ disk[k] \in Nat
  BY DEF IInv, TypeOK, LedgerType
<1>3. /\ size' \in [Keys -> Nat] /\ disk' \in [Keys -> Nat]
      /\ totalSize' \in Int
      /\ \A j \in Keys : j # k => size'[j] = size[j] /\ disk'[j] = disk[j]
      /\ disk'[k] > 0 => size'[k] > 0
  BY <1>1, <1>2, DiscardedFacts
<1>4. LedgerType'
  BY <1>1, <1>2, <1>3 DEF LedgerType
<1>5. \A o \in Writers : k \notin Protected(op[o])
  BY <1>1, ProtectedHeld, WriterFacts DEF Held
<1> QED
  BY <1>1, <1>3, <1>4, <1>5, VictimInv

------------------------------------------------------------------------------
(* The theorems.                                                           *)

\* A freshly scanned cache satisfies the invariant.
LEMMA InitInv == Init => IInv
<1> SUFFICES ASSUME Init PROVE IInv
  OBVIOUS
<1>1. TypeOK
  BY AdmissionAssumption, NoOpType DEF Init, TypeOK, LedgerType, WalkType, NoWalk
<1>2. ASSUME NEW o \in Writers
      PROVE  op[o] = NoOp /\ Consistent(NoOp) /\ Funded(NoOp) /\ NoOp.held = {}
  BY DEF Init, NoOp, Consistent, Funded, Protected, Admitted, PreparePC
<1>3. WriterInv
  BY <1>2 DEF WriterInv, Held
<1>4. WalkInv
  BY DEF Init, WalkInv, NoWalk
<1>5. PendingInv
  BY DEF Init, PendingInv
<1> QED
  BY <1>1, <1>3, <1>4, <1>5 DEF IInv

\* Every step keeps the invariant.
LEMMA NextInv == IInv /\ [Next]_vars => IInv'
<1> SUFFICES ASSUME IInv, [Next]_vars PROVE IInv'
  OBVIOUS
<1>1. ASSUME NEW o \in Writers, WriterStep(o) PROVE IInv'
  BY <1>1, LockKeyInv, BeginReservationInv, ReserveExpectedInv, StageBodyInv,
     ReserveWrittenInv, StageFailInv, CommitInv, TrackInv, DiscardInv,
     ReleaseInv DEF WriterStep
<1>2. ASSUME WalkStep PROVE IInv'
  BY <1>2, VisitInv, ReserveEndInv, CleanupEndInv DEF WalkStep
<1>3. CASE UNCHANGED vars
  <2>1. Quiet /\ op' = op /\ walk' = walk
    BY <1>3 DEF vars, Quiet
  <2>2. walk' \in WalkType /\ WalkInv'
    BY <2>1 DEF IInv, TypeOK, WalkInv, Idle
  <2> QED
    BY <2>1, <2>2, QuietInv
<1> QED
  BY <1>1, <1>2, <1>3, BeginInv, SupersededInv, CleanupInv, TouchInv,
     DiscardCorruptInv DEF Next

\* The inductive invariant holds of every behaviour of the ledger.
THEOREM Invariance == Spec => []IInv
  BY InitInv, NextInv, PTL DEF Spec

\* Every published file is in the ledger or belongs to a writer that has yet
\* to settle it: whatever fails in StoreContext, Freshen or an eviction, the
\* backing store never grows unseen.
THEOREM NoUntrackedFiles == Spec => []DiskTracked
<1>1. IInv => DiskTracked
  <2> SUFFICES ASSUME IInv, NEW k \in Keys, disk[k] > 0, ~(size[k] > 0)
               PROVE  k \in active
    BY DEF DiskTracked
  <2>1. PICK o \in Writers : k \in Pending(op[o])
    BY DEF IInv, PendingInv
  <2> QED
    BY <2>1, ProtectedHeld, WriterFacts DEF Funded
<1> QED
  BY <1>1, Invariance, PTL

\* The ledger's total and its reservations stay put.
Unweighed == totalSize' = totalSize /\ reservedSize' = reservedSize

\* Every step of a ledger within the limit stays there.
LEMMA LimitStep ==
    ASSUME IInv, Next, Faults = {}, WithinLimit
    PROVE  WithinLimit'
<1>0. LedgerType /\ MaxSize \in Nat
  BY AdmissionAssumption DEF IInv, TypeOK
<1> DEFINE Kept == WithinLimit'
<1>1. ASSUME Unweighed PROVE Kept
  BY <1>1 DEF Unweighed, WithinLimit
<1>11. ASSUME NEW t \in Int, t <= totalSize, totalSize' = t,
              reservedSize' = reservedSize
       PROVE  Kept
  <2>1. t + reservedSize <= MaxSize
    BY <1>0, <1>11 DEF WithinLimit, LedgerType
  <2> QED
    BY <1>11, <2>1 DEF WithinLimit
<1>2. ASSUME NEW o \in Writers, WriterStep(o) PROVE Kept
  <2>1. CASE LockKey(o)
    BY <1>1, <2>1 DEF LockKey, Unweighed, ledger, reserved
  <2>2. CASE BeginReservation(o)
    BY <1>1, <2>2 DEF BeginReservation, Unweighed, ledger
  <2>3. ASSUME NEW k \in Keys, NEW n \in Sizes, ReserveExpected(o, k, n)
        PROVE  Kept
    BY <1>1, <2>3 DEF ReserveExpected, Reserve, Unweighed, ledger, reserved
  <2>4. ASSUME NEW k \in Keys, NEW n \in Sizes, StageBody(o, k, n)
        PROVE  Kept
    BY <1>1, <2>4 DEF StageBody, Unweighed, ledger, reserved
  <2>5. CASE ReserveWritten(o)
    BY <1>1, <2>5 DEF ReserveWritten, Reserve, Unweighed, ledger, reserved
  <2>6. CASE StageFail(o)
    BY <1>1, <2>6 DEF StageFail, Unweighed, ledger, reserved
  <2>7. CASE Commit(o)
    BY <1>1, <2>7 DEF Commit, Unweighed, ledger, reserved
  <2>8. CASE Track(o)
    <3>1. PICK k \in op[o].todo :
            /\ totalSize' = totalSize - size[k] + op[o].item[k]
            /\ reservedSize' = reservedSize - reservations[k]
      BY <2>8 DEF Track, ReleaseReservation
    <3>2. k \in Keys /\ k \in Admitted(op[o])
      BY <2>8, WriterFacts DEF Track, Admitted, PreparePC, OpType
    <3>3. /\ op[o].item[k] \in Nat /\ size[k] \in Nat /\ reservations[k] \in Nat
          /\ op[o].item[k] <= size[k] + reservations[k]
      BY <3>2, WriterFacts DEF Funded, OpType, LedgerType
    <3> QED
      BY <1>0, <3>1, <3>3 DEF WithinLimit, LedgerType
  <2>9. CASE Discard(o)
    <3>1. PICK k \in op[o].todo : Discarded(k, op[o].item[k])
      BY <2>9 DEF Discard
    <3>2. k \in Keys /\ op[o].item[k] \in Nat
      BY <3>1, WriterFacts DEF OpType
    <3>3. totalSize' \in Int /\ totalSize' <= totalSize
      BY <1>0, <3>1, <3>2, DiscardedFacts
    <3>4. reservedSize' = reservedSize
      BY <2>9 DEF Discard, reserved
    <3> QED
      BY <1>11, <3>3, <3>4
  <2>10. CASE Release(o)
    <3>1. PICK k \in op[o].todo : reservedSize' = reservedSize - reservations[k]
      BY <2>10 DEF Release, ReleaseReservation
    <3>2. reservations[k] \in Nat
      BY WriterFacts DEF OpType, LedgerType
    <3>3. totalSize' = totalSize
      BY <2>10 DEF Release, ledger
    <3> QED
      BY <1>0, <3>1, <3>2, <3>3 DEF WithinLimit, LedgerType
  <2> QED
    BY <1>2, <2>1, <2>2, <2>3, <2>4, <2>5, <2>6, <2>7, <2>8, <2>9, <2>10
       DEF WriterStep
<1>3. ASSUME NEW k \in Keys, Visit(k) PROVE Kept
  <2>1. size[k] \in Nat /\ reservedSize' = reservedSize
    BY <1>0, <1>3 DEF Visit, reserved, LedgerType
  <2>2. totalSize' = totalSize \/ totalSize' = totalSize - size[k]
    BY <1>3 DEF Visit, Removed, ledger
  <2> QED
    BY <1>0, <2>1, <2>2 DEF WithinLimit, LedgerType
<1>4. ASSUME ReserveEnd PROVE Kept
  <2>1. /\ walk.key \in Keys /\ walk.item \in Nat
        /\ size[walk.key] \in Nat /\ reservations[walk.key] \in Nat
    BY <1>0, <1>4, AdmitFacts DEF ReserveEnd, LedgerType
  <2>2. totalSize' = totalSize
    BY <1>4 DEF ReserveEnd, ledger
  <2>3. CASE totalSize > TargetSize
    BY <1>1, <1>4, <2>2, <2>3 DEF ReserveEnd, Unweighed, reserved
  <2>4. CASE ~(totalSize > TargetSize)
    <3>1. reservedSize' = reservedSize
            + (IF walk.item > size[walk.key]
                 THEN walk.item - size[walk.key] ELSE 0)
            - reservations[walk.key]
      BY <1>4, <2>4 DEF ReserveEnd
    <3>2. totalSize <= MaxSize - (reservedSize - reservations[walk.key])
                         - walk.item + size[walk.key]
      BY <1>0, <2>1, <2>4 DEF TargetSize, LedgerType
    <3> QED
      BY <1>0, <2>1, <2>2, <3>1, <3>2 DEF WithinLimit, LedgerType
  <2> QED
    BY <2>3, <2>4
<1>5. ASSUME CleanupEnd PROVE Kept
  BY <1>1, <1>5 DEF CleanupEnd, Unweighed, ledger, reserved
<1>6. ASSUME NEW kind \in {"ttl", "size", "purge"}, Cleanup(kind) PROVE Kept
  BY <1>1, <1>6 DEF Cleanup, Unweighed, ledger, reserved
<1>7. ASSUME NEW k \in Keys, Touch(k) PROVE Kept
  BY <1>1, <1>7 DEF Touch, Unweighed, reserved
<1>8. ASSUME NEW k \in Keys, DiscardCorrupt(k) PROVE Kept
  <2>1. /\ Discarded(k, disk[k]) /\ disk[k] \in Nat
        /\ reservedSize' = reservedSize
    BY <1>0, <1>8 DEF DiscardCorrupt, reserved, LedgerType
  <2>2. totalSize' \in Int /\ totalSize' <= totalSize
    BY <1>0, <2>1, DiscardedFacts
  <2> QED
    BY <1>11, <2>1, <2>2
<1>9. ASSUME NEW o \in Writers, NEW ks \in Transactions, Begin(o, ks)
      PROVE  Kept
  BY <1>1, <1>9 DEF Begin, Unweighed, ledger, reserved
<1>10. ASSUME NEW o \in Writers, Superseded(o) PROVE Kept
  BY <1>1, <1>10 DEF Superseded, Unweighed, ledger, reserved
<1> HIDE DEF Kept
<1>12. Kept
  BY <1>2, <1>3, <1>4, <1>5, <1>6, <1>7, <1>8, <1>9, <1>10 DEF Next, WalkStep
<1> QED
  BY <1>12 DEF Kept

\* Once within MaxSize, committed plus reserved bytes stay there, however
\* stores, replacements, evictions and rollbacks interleave
\* (evictForAdmissionLocked, reserveEntry, trackEntry).
THEOREM LimitKept == Spec => StaysWithinLimit
<1>1. IInv /\ [Next]_vars
        => [Faults = {} /\ WithinLimit => WithinLimit']_vars
  BY LimitStep
<1> QED
  BY <1>1, Invariance, PTL DEF Spec, StaysWithinLimit

\* A step changes the files of a held key only with the holder's own state.
UndisturbedStep ==
    \A o \in Writers, k \in Keys :
      k \in Held(o) \cap active /\ disk'[k] # disk[k] => op'[o] # op[o]

\* A writer's step on files of keys it has locked disturbs no other holder.
LEMMA OwnFiles ==
    ASSUME IInv, NEW p \in Writers, NEW D \in SUBSET op[p].held,
           \A k \in Keys \ D : disk'[k] = disk[k], op'[p] # op[p]
    PROVE  UndisturbedStep
<1> SUFFICES ASSUME NEW o \in Writers, NEW k \in Keys,
                    k \in Held(o), disk'[k] # disk[k]
             PROVE  op'[o] # op[o]
  BY DEF UndisturbedStep
<1>1. k \in op[p].held
  OBVIOUS
<1>2. o = p
  BY <1>1, WriterFacts DEF Held
<1> QED
  BY <1>2

\* Moving on to another program counter, or one key further, is a change of
\* the writer's state.
LEMMA AdvanceMoves ==
    ASSUME IInv, NEW o \in Writers, NEW k \in op[o].todo, NEW now, NEW after,
           op[o].pc # after, Becomes(o, Advance(op[o], k, now, after))
    PROVE  op'[o] # op[o]
<1>1. op[o] \in OpType /\ op' = [op EXCEPT ![o] = Advance(op[o], k, now, after)]
      /\ op \in [Writers -> OpType]
  BY WriterFacts DEF Becomes
<1>2. op'[o] = Advance(op[o], k, now, after)
  BY <1>1
<1>3. CASE op[o].todo = {k}
  BY <1>1, <1>2, <1>3, Zenon DEF Advance, OpType
<1>4. CASE op[o].todo # {k}
  BY <1>1, <1>2, <1>4, Zenon DEF Advance, OpType
<1> QED
  BY <1>3, <1>4

\* Every step leaves the files of keys under replacement to their writers.
LEMMA ReplacementStep ==
    ASSUME IInv, Next
    PROVE  UndisturbedStep
<1>1. ASSUME disk' = disk PROVE UndisturbedStep
  BY <1>1 DEF UndisturbedStep
<1>2. ASSUME NEW o \in Writers, WriterStep(o) PROVE UndisturbedStep
  <2>0. op \in [Writers -> OpType] /\ op[o] \in OpType /\ Consistent(op[o])
    BY WriterFacts
  <2>1. CASE LockKey(o)
    BY <1>1, <2>1 DEF LockKey
  <2>2. CASE BeginReservation(o)
    BY <1>1, <2>2 DEF BeginReservation
  <2>3. ASSUME NEW k \in Keys, NEW n \in Sizes, ReserveExpected(o, k, n)
        PROVE  UndisturbedStep
    BY <1>1, <2>3 DEF ReserveExpected, Reserve
  <2>4. ASSUME NEW k \in Keys, NEW n \in Sizes, StageBody(o, k, n)
        PROVE  UndisturbedStep
    <3>1. op'[o] # op[o]
      <4>1. op'[o].pc = "written" /\ op[o].pc # "written"
        BY <2>0, <2>4 DEF StageBody, Becomes, OpType
      <4> QED
        BY <4>1
    <3>2. k \in op[o].held
      BY <2>0, <2>4 DEF StageBody, Consistent
    <3>3. \A j \in Keys \ {k} : disk'[j] = disk[j]
      BY <2>4, WriterFacts DEF StageBody, LedgerType
    <3> QED
      BY <3>1, <3>2, <3>3, OwnFiles
  <2>5. CASE ReserveWritten(o)
    BY <1>1, <2>5 DEF ReserveWritten, Reserve
  <2>6. CASE StageFail(o)
    BY <1>1, <2>6 DEF StageFail
  <2>7. CASE Commit(o)
    <3>1. op'[o] # op[o]
      <4>1. op[o].pc = "commit"
        BY <2>7 DEF Commit
      <4>2. ASSUME Becomes(o, [op[o] EXCEPT !.pc = "track"])
            PROVE  op'[o].pc = "track"
        BY <2>0, <4>2 DEF Becomes, OpType
      <4>3. ASSUME NEW b \in BOOLEAN, Failed(o, b)
            PROVE  op'[o].pc \in {"discard", "release"}
        BY <2>0, <4>3 DEF Failed, Becomes, OpType
      <4>4. \/ Becomes(o, [op[o] EXCEPT !.pc = "track"])
            \/ \E b \in BOOLEAN : Failed(o, b)
        <5>1. PICK done \in SUBSET op[o].keys :
                IF done = op[o].keys
                  THEN Becomes(o, [op[o] EXCEPT !.pc = "track"])
                  ELSE Failed(o, done # {})
          BY <2>7 DEF Commit
        <5>2. (done # {}) \in BOOLEAN
          OBVIOUS
        <5> QED
          BY <5>1, <5>2, Zenon
      <4> QED
        BY <4>1, <4>2, <4>3, <4>4
    <3>2. op[o].keys \subseteq op[o].held
      BY <2>0, <2>7 DEF Commit, Consistent
    <3>3. \A j \in Keys \ op[o].keys : disk'[j] = disk[j]
      BY <2>7, WriterFacts DEF Commit, LedgerType
    <3> QED
      BY <3>1, <3>2, <3>3, OwnFiles
  <2>8. CASE Track(o)
    BY <1>1, <2>8 DEF Track
  <2>9. CASE Discard(o)
    <3>1. PICK k \in op[o].todo :
            /\ Discarded(k, op[o].item[k])
            /\ Becomes(o, Advance(op[o], k, "discard", "release"))
      BY <2>9 DEF Discard
    <3>2. op[o].pc = "discard"
      BY <2>9 DEF Discard
    <3>3. k \in Keys /\ k \in op[o].held /\ op[o].item[k] \in Nat
      BY <2>0, <3>2 DEF Consistent, OpType
    <3>4. op'[o] # op[o]
      BY <3>1, <3>2, AdvanceMoves
    <3>5. \A j \in Keys \ {k} : disk'[j] = disk[j]
      BY <3>1, <3>3, WriterFacts, DiscardedFacts
    <3> QED
      BY <3>3, <3>4, <3>5, OwnFiles
  <2>10. CASE Release(o)
    BY <1>1, <2>10 DEF Release
  <2> QED
    BY <1>2, <2>1, <2>2, <2>3, <2>4, <2>5, <2>6, <2>7, <2>8, <2>9, <2>10
       DEF WriterStep
<1>3. ASSUME NEW k \in Keys, Visit(k) PROVE UndisturbedStep
  <2>1. CASE disk' = disk
    BY <1>1, <2>1
  <2>2. CASE ~Skipped(k) /\ Removed(k)
    <3>1. ASSUME NEW o \in Writers, k \in Held(o), k \in active PROVE FALSE
      <4>1. walk.kind = "purge"
        BY <2>2, <3>1 DEF Skipped
      <4>2. op[o].pc = "idle"
        BY <4>1, WriterFacts DEF WalkInv, Idle
      <4> QED
        BY <3>1, <4>2, WriterFacts DEF Held, Consistent
    <3>2. \A j \in Keys \ {k} : disk'[j] = disk[j]
      BY <2>2, WriterFacts DEF Removed, LedgerType
    <3> QED
      BY <3>1, <3>2 DEF UndisturbedStep
  <2> QED
    BY <1>3, <2>1, <2>2 DEF Visit
<1>4. ASSUME NEW k \in Keys, DiscardCorrupt(k) PROVE UndisturbedStep
  <2>1. /\ LedgerType /\ disk[k] \in Nat /\ Discarded(k, disk[k])
        /\ \A o \in Writers : k \notin Held(o)
    BY <1>4 DEF DiscardCorrupt, IInv, TypeOK, LedgerType
  <2>2. \A j \in Keys \ {k} : disk'[j] = disk[j]
    BY <2>1, DiscardedFacts
  <2> QED
    BY <2>1, <2>2 DEF UndisturbedStep
<1>5. ASSUME ReserveEnd \/ CleanupEnd PROVE disk' = disk
  BY <1>5 DEF ReserveEnd, CleanupEnd
<1>6. ASSUME NEW kind \in {"ttl", "size", "purge"}, Cleanup(kind)
      PROVE  disk' = disk
  BY <1>6 DEF Cleanup
<1>7. ASSUME NEW k \in Keys, Touch(k) PROVE disk' = disk
  BY <1>7 DEF Touch
<1>8. ASSUME NEW o \in Writers, NEW ks \in Transactions, Begin(o, ks)
      PROVE  disk' = disk
  BY <1>8 DEF Begin
<1>9. ASSUME NEW o \in Writers, Superseded(o) PROVE disk' = disk
  BY <1>9 DEF Superseded
<1> QED
  BY <1>1, <1>2, <1>3, <1>4, <1>5, <1>6, <1>7, <1>8, <1>9 DEF Next, WalkStep

\* The files of a key under replacement change only by its writer's own step
\* (the active set of evictForAdmissionLocked and of the sweeps, the writer
\* lock of discardCorrupt, generationMu in Purge).
THEOREM ReplacementKept == Spec => ReplacementUndisturbed
<1>1. IInv /\ [Next]_vars
        => [\A o \in Writers, k \in Keys :
              k \in Held(o) \cap active /\ disk'[k] # disk[k]
                => op'[o] # op[o]]_vars
  BY ReplacementStep DEF UndisturbedStep
<1> QED
  BY <1>1, Invariance, PTL DEF Spec, ReplacementUndisturbed

==============================================================================
