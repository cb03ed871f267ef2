-------------------------- MODULE GenerationProofs --------------------------
(***************************************************************************)
(* Proofs that the two files of an entry mean one generation: for any      *)
(* number of stores and retrievals, evictions and crashes, on disk and in  *)
(* place, with and without integrity.                                      *)
(***************************************************************************)
EXTENDS Generation, TLAPS

\* A leaf without a prover of its own is tried with Zenon, then several times with SMT.
USE ZenonT(4), SMTT(6), SMTT(7), SMTT(8), SMTT(9), SMTT(10)

USE GenerationAssumption
USE DEF config, files, Ops, Gens

-----------------------------------------------------------------------------
(* The places of an operation and the locks it holds there.                *)

\* The places by name.
LEMMA Places ==
    /\ "idle" \in PCs /\ "reserve" \in PCs /\ "body" \in PCs /\ "bodyEnd" \in PCs
    /\ "header" \in PCs /\ "headerEnd" \in PCs /\ "publish" \in PCs /\ "fail" \in PCs
    /\ "commit" \in PCs /\ "commitHeader" \in PCs /\ "track" \in PCs /\ "rollback" \in PCs
    /\ "readPublish" \in PCs /\ "generation" \in PCs /\ "open" \in PCs
    /\ "readHeader" \in PCs /\ "openBody" \in PCs /\ "retrieved" \in PCs
    /\ "corrupt" \in PCs /\ "discardPublish" \in PCs /\ "discard" \in PCs
    /\ "check" \in PCs /\ "done" \in PCs
  BY DEF PCs, KeyWriting, KeyReading, Reading, Preparing, Committing

\* How the locks nest: publishMu's write side and a reservation are only held with
\* the writer lock, and a store touches files that readers are kept from.
LEMMA Nesting ==
    /\ Publishing \subseteq KeyWriting /\ Reserved \subseteq KeyWriting
    /\ Reading \subseteq KeyReading /\ KeyWriting \cap KeyReading = {}
    /\ Touched \subseteq Reserved /\ Halfway \subseteq Touched
    /\ ~inPlace => Touched \subseteq Publishing
    /\ "done" \notin KeyWriting \cup KeyReading
    /\ "idle" \notin KeyWriting \cup KeyReading
  BY DEF Publishing, KeyWriting, Reserved, Reading, KeyReading, Preparing, Committing,
         Touched, Halfway

\* What an operation must have to be at l.
Enters(o, l) ==
    /\ l \in KeyWriting => pc[o] \in KeyWriting \/ KeyFree(o)
    /\ l \in KeyReading => pc[o] \in KeyReading \/ KeyReadable(o)
    /\ l \in Publishing => pc[o] \in Publishing \/ PublishFree(o)
    /\ l \in Reading => pc[o] \in Reading \/ PublishReadable(o)
    /\ l \in Reserved => pc[o] \in Reserved \/ remover = None

\* A move of one operation.
LEMMA GoToFacts ==
    ASSUME pc \in [Ops -> PCs], NEW o \in Ops, NEW l \in PCs, GoTo(o, l)
    PROVE  /\ pc' \in [Ops -> PCs] /\ pc'[o] = l
           /\ \A p \in Ops : p # o => pc'[p] = pc[p]
  BY DEF GoTo

\* An operation that waits for the locks of its next place keeps them exclusive.
LEMMA LocksKept ==
    ASSUME Locks, pc \in [Ops -> PCs], NEW o \in Ops, NEW l \in PCs, GoTo(o, l),
           remover' = remover, inPlace' = inPlace, Enters(o, l)
    PROVE  Locks'
<1>1. /\ pc'[o] = l /\ \A p \in Ops : p # o => pc'[p] = pc[p]
  BY GoToFacts
<1>2. ASSUME NEW p \in Ops, NEW q \in Ops, p # q, pc'[p] \in KeyWriting
      PROVE  pc'[q] \notin KeyWriting /\ (inPlace => pc'[q] \notin KeyReading)
  BY <1>1, <1>2, Nesting DEF Locks, Enters, KeyFree, KeyReadable
<1>3. ASSUME NEW p \in Ops, NEW q \in Ops, pc'[p] \in Publishing
      PROVE  pc'[q] \notin Reading
  <2>1. CASE p = q
    BY <1>3, <2>1, Nesting
  <2>2. CASE p # q
    BY <1>1, <1>3, <2>2 DEF Locks, Enters, PublishFree, PublishReadable
  <2> QED
    BY <2>1, <2>2
<1>4. ASSUME NEW p \in Ops, remover' # None
      PROVE  pc'[p] \notin Reserved
  BY <1>1, <1>4 DEF Locks, Enters
<1> QED
  BY <1>2, <1>3, <1>4 DEF Locks

-----------------------------------------------------------------------------
(* A step that leaves the files and the ledger alone.                      *)

\* What a reader knows stays true while files and ledger stay.
LEMMA ReaderKept ==
    ASSUME NEW h \in Resource, NEW l \in PCs, ReaderInv(h, l),
           UNCHANGED <<config, files, index, residue>>,
           \A x \in Ops : pc[x] = "done" => pc'[x] = "done",
           Settled' => Settled
    PROVE  ReaderInv(h, l)'
<1>1. Known(h)'
  BY DEF ReaderInv, Known, Genuine, Resource, Body, Header
<1>2. Complete' = Complete /\ Terminated' = Terminated /\ LedgerGeneration' = LedgerGeneration
  BY DEF Complete, Terminated, LedgerGeneration
<1>3. Fits(h.body, header)' = Fits(h.body, header) /\ Fits(h.body, h.header)' = Fits(h.body, h.header)
      /\ Fits(body, h.header)' = Fits(body, h.header)
  BY DEF Fits, Agree, Tainted
<1>4. Agree(h.body, h.header)' = Agree(h.body, h.header) /\ Agree(body, h.header)' = Agree(body, h.header)
  BY DEF Agree
<1> QED
  BY <1>1, <1>2, <1>3, <1>4 DEF ReaderInv

\* A move of one operation keeps the invariant when it fits its new place.
LEMMA MoveStep ==
    ASSUME IInv, NEW o \in Ops, NEW l \in PCs, NEW h \in Resource, GoTo(o, l),
           pc[o] # "done", Enters(o, l), Role(o, l),
           UNCHANGED <<config, files, index, remover, residue, evictions, crashes>>,
           have' = IF o \in Readers THEN [have EXCEPT ![o] = h] ELSE have,
           Published(o) \/ (o \in Stores /\ header # None /\ header.gen = o)
               => l \in Touched \cup {"done"},
           Published(o) /\ pc[o] \in Touched => l \in Touched,
           o \in Stores /\ Complete /\ body.gen = o /\ pc[o] \in Halfway /\ l \notin Halfway
               => Fits(body, header),
           o \in Stores => StoreInv(o, l),
           o \in Readers => ReaderInv(h, l)
    PROVE  IInv'
<1>1. /\ pc \in [Ops -> PCs] /\ pc' \in [Ops -> PCs] /\ pc'[o] = l
      /\ \A p \in Ops : p # o => pc'[p] = pc[p]
  BY GoToFacts DEF IInv, TypeOK
<1>2. TypeOK' /\ (tied => ~integrity)'
  BY <1>1 DEF IInv, TypeOK
<1>3. Locks'
  BY <1>1, LocksKept DEF IInv
<1>4. \A x \in Ops : pc[x] = "done" => pc'[x] = "done"
  BY <1>1
<1>5. Touched' = Touched /\ Halfway' = Halfway
  BY DEF Touched, Halfway
<1>6. \A p \in Ops : Published(p)' = Published(p)
  BY DEF Published
<1>7. Settled' => Settled
  BY <1>1, <1>5, <1>6 DEF Settled
<1>8. FilesInv'
  <2>1. Complete' = Complete /\ Fits(body, header)' = Fits(body, header)
    BY DEF Complete, Terminated, Fits, Agree, Tainted
  <2>2. ASSUME Complete
        PROVE  Fits(body, header) \/ (body.gen \in Stores /\ pc'[body.gen] \in Halfway)
    BY <1>1, <2>2 DEF IInv, FilesInv
  <2>3. header # None => Genuine(header)'
    BY DEF IInv, FilesInv, Genuine
  <2>4. ASSUME NEW p \in Ops
        PROVE  /\ Published(p) => pc'[p] \in Touched \cup {"done"}
               /\ p \in Stores /\ header # None /\ header.gen = p => pc'[p] \in Touched \cup {"done"}
               /\ index = p => pc'[p] = "done"
    BY <1>1 DEF IInv, FilesInv
  <2>5. Complete /\ Settled /\ index \in {Residual, None} => header.gen \in residue
    BY DEF IInv, FilesInv
  <2> QED
    BY <1>5, <1>6, <1>7, <2>1, <2>2, <2>3, <2>4, <2>5 DEF FilesInv
<1>9. ASSUME NEW p \in Ops
      PROVE  Role(p, pc[p])'
  BY <1>1 DEF IInv, Role
<1>10. ASSUME NEW p \in Stores
       PROVE  StoreInv(p, pc[p])'
  BY <1>1 DEF IInv, StoreInv
<1>11. ASSUME NEW r \in Readers
       PROVE  ReaderInv(have[r], pc[r])'
  <2>1. have \in [Readers -> Resource] /\ pc'[r] \in PCs
    BY <1>1 DEF IInv, TypeOK
  <2>2. have'[r] \in Resource /\ ReaderInv(have'[r], pc'[r])
    BY <1>1, <2>1 DEF IInv
  <2> QED
    BY <1>4, <1>7, <2>1, <2>2, ReaderKept
<1> QED
  BY <1>2, <1>3, <1>8, <1>9, <1>10, <1>11 DEF IInv

\* Published operations have touched the files, or are over.
LEMMA PublishedTouched ==
    ASSUME IInv, NEW o \in Ops, pc[o] # "done"
    PROVE  /\ Published(o) => pc[o] \in Touched
           /\ o \in Stores /\ header # None /\ header.gen = o => pc[o] \in Touched
  BY DEF IInv, FilesInv

\* MoveStep for a store.
LEMMA StoreMove ==
    ASSUME IInv, NEW o \in Stores, NEW l \in PCs, GoTo(o, l),
           pc[o] # "done", Enters(o, l), Role(o, l), StoreInv(o, l),
           pc[o] \in Touched => l \in Touched \cup {"done"},
           Published(o) /\ pc[o] \in Touched => l \in Touched /\ (pc[o] \in Halfway => l \in Halfway),
           UNCHANGED <<config, files, index, remover, residue, evictions, crashes, have>>
    PROVE  IInv'
<1>1. Nothing \in Resource /\ o \notin Readers /\ o \in Ops
  BY DEF Nothing, Resource
<1>2. Complete /\ body.gen = o => Published(o)
  BY DEF Complete, Published
<1> QED
  BY <1>1, <1>2, PublishedTouched, MoveStep

\* MoveStep for a reader, which has h afterwards.
LEMMA ReaderMove ==
    ASSUME IInv, NEW o \in Readers, NEW l \in PCs, NEW h \in Resource, GoTo(o, l),
           pc[o] # "done", Enters(o, l), Role(o, l), ReaderInv(h, l),
           pc[o] \in Touched => l \in Touched \cup {"done"},
           Published(o) /\ pc[o] \in Touched => l \in Touched,
           have' = [have EXCEPT ![o] = h],
           UNCHANGED <<config, files, index, remover, residue, evictions, crashes>>
    PROVE  IInv'
<1>1. o \notin Stores /\ o \in Ops
  OBVIOUS
<1> QED
  BY <1>1, PublishedTouched, MoveStep, Zenon

-----------------------------------------------------------------------------
(* Steps that write nothing.                                               *)

\* A store waits for the key's writer lock.
LEMMA LockStoreKeyKeeps ==
    ASSUME IInv, NEW o \in Ops, LockStoreKey(o)
    PROVE  IInv'
<1>1. PICK l \in {"reserve", "done"} : GoTo(o, l)
  BY DEF LockStoreKey
<1>2. /\ o \in Stores /\ pc[o] = "idle" /\ KeyFree(o)
      /\ UNCHANGED <<config, files, index, remover, residue, evictions, crashes, have>>
  BY DEF LockStoreKey, Unmoved, LedgerFree
<1>3. Enters(o, l) /\ Role(o, l) /\ StoreInv(o, l)
  BY <1>2 DEF Enters, Role, StoreInv, KeyWriting, KeyReading, Reserved, Publishing, Reading, Preparing, Committing
<1>4. pc[o] \notin Touched
  BY <1>2 DEF Touched
<1> QED
  BY <1>1, <1>2, <1>3, <1>4, Places, StoreMove

\* A store waits for lruMutex, and no evictor is at work when it has a reservation.
LEMMA BeginReservationKeeps ==
    ASSUME IInv, NEW o \in Ops, BeginReservation(o)
    PROVE  IInv'
<1>1. /\ o \in Stores /\ pc[o] = "reserve" /\ remover = None /\ GoTo(o, "body")
      /\ UNCHANGED <<config, files, index, remover, residue, evictions, crashes, have>>
  BY DEF BeginReservation, Unmoved, LedgerFree
<1>2. Enters(o, "body") /\ Role(o, "body") /\ StoreInv(o, "body")
  BY <1>1 DEF Enters, Role, StoreInv, KeyWriting, KeyReading, Reserved, Publishing, Reading, Preparing, Committing
<1>3. pc[o] \notin Touched
  BY <1>1 DEF Touched
<1> QED
  BY <1>1, <1>2, <1>3, Places, StoreMove

\* A writer that moves on among the places where it holds its locks.
LEMMA WriterMoves ==
    ASSUME IInv, NEW o \in Ops, NEW l \in {"bodyEnd", "header", "headerEnd", "publish", "fail", "rollback"},
           GoTo(o, l), pc[o] \in Preparing \cup Committing,
           l = "rollback" => pc[o] \in Committing \/ PublishFree(o),
           l \in {"bodyEnd", "header", "headerEnd", "publish"} => ~inPlace,
           l = "bodyEnd" => o \in Stores /\ pc[o] = "body",
           l \in {"header", "headerEnd", "publish"} =>
               pc[o] \in {"bodyEnd", "header", "headerEnd", "publish"},
           l = "fail" => pc[o] \notin Committing,
           UNCHANGED <<config, files, index, remover, residue, evictions, crashes, have>>
    PROVE  IInv'
<1>1. l \in PCs /\ pc[o] # "done"
  BY Places DEF Preparing, Committing
<1>2. Enters(o, l) /\ Role(o, l)
  <2>1. Enters(o, l)
    BY DEF Enters, KeyWriting, KeyReading, Reserved, Publishing, Reading, Preparing, Committing
  <2>2. Role(o, l)
    BY DEF IInv, Role, KeyReading, Reading
  <2> QED
    BY <2>1, <2>2
<1>3. pc[o] \in Touched => l \in Touched /\ (pc[o] \in Halfway => l \in Halfway)
  BY DEF Touched, Halfway, Preparing, Committing
<1>4. CASE o \in Stores
  <2>1. StoreInv(o, l)
    BY DEF StoreInv
  <2> QED
    BY <1>1, <1>2, <1>3, <1>4, <2>1, StoreMove
<1>5. CASE o \in Readers
  <2>1. /\ have \in [Readers -> Resource] /\ have[o] \in Resource /\ ReaderInv(have[o], pc[o])
        /\ Role(o, pc[o])
    BY <1>5 DEF IInv, TypeOK
  <2>2. have' = [have EXCEPT ![o] = have[o]]
    BY <1>5, <2>1
  <2>3. pc[o] \in {"header", "headerEnd", "publish", "commitHeader", "fail", "track", "rollback"}
    BY <1>5, <2>1 DEF Role, Preparing, Committing
  <2>4. ReaderInv(have[o], l)
    <3>1. have[o].header # None
      BY <2>1, <2>3 DEF ReaderInv, Reserved, Preparing, Committing
    <3>2. CASE l \in {"fail", "rollback"}
      BY <2>1, <3>1, <3>2 DEF ReaderInv, Reserved, Preparing, Committing
    <3>3. CASE l \in {"header", "headerEnd", "publish"}
      <4>1. pc[o] \in {"header", "headerEnd", "publish"}
        BY <2>3, <3>3
      <4> QED
        BY <2>1, <3>1, <3>3, <4>1 DEF ReaderInv, Reserved, Preparing, Committing
    <3> QED
      BY <1>5, <3>2, <3>3
  <2> QED
    BY <1>1, <1>2, <1>3, <1>5, <2>1, <2>2, <2>4, ReaderMove, Zenon
<1> QED
  BY <1>4, <1>5

-----------------------------------------------------------------------------
(* Steps that write a file.                                                *)

\* Nobody else is where it reads or writes the files while a writer may.
LEMMA OthersAway ==
    ASSUME IInv, NEW o \in Ops, pc[o] \in KeyWriting, inPlace \/ pc[o] \in Publishing,
           NEW p \in Ops, p # o
    PROVE  pc[p] \in {"idle", "retrieved", "corrupt", "done", "readPublish"}
<1>1. pc[p] \in PCs /\ pc[p] \notin KeyWriting /\ pc[p] \notin Reading
  BY Nesting DEF IInv, TypeOK, Locks
<1> QED
  BY <1>1 DEF PCs, KeyReading

\* A reader that is away from the files keeps what it knows when a writer changes them.
LEMMA AwayKept ==
    ASSUME NEW h \in Resource, NEW l \in {"idle", "retrieved", "corrupt", "done", "readPublish"},
           ReaderInv(h, l), NEW o \in Ops, pc[o] # "done",
           body' = body \/ body' = None \/ body'.gen = o,
           header' = header \/ header' = None \/ header'.by = o,
           UNCHANGED config, residue \subseteq residue',
           \A x \in Ops : pc[x] = "done" => pc'[x] = "done",
           h.generation = index' /\ index' # None /\ Complete' /\ Settled' =>
               header'.by = h.header.by \/ body'.gen \in residue'
    PROVE  ReaderInv(h, l)'
<1>1. Known(h)'
  <2>1. Known(h)
    BY DEF ReaderInv
  <2>2. h.header # None => Genuine(h.header)'
    BY <2>1 DEF Known, Genuine
  <2> QED
    BY <2>1, <2>2 DEF Known, Resource, Header, Body
<1>2. l = "retrieved" =>
         /\ h.header # None /\ h.body # None /\ Fits(h.body, h.header)'
         /\ integrity => Agree(h.body, h.header)
         /\ h.generation = None => h.header.gen \in residue'
  BY DEF ReaderInv, Fits, Agree, Tainted
<1>3. l = "corrupt" => h.header # None /\ (body' = None \/ ~Agree(body', h.header))
  BY DEF ReaderInv, Known, Agree
<1> QED
  BY <1>1, <1>2, <1>3 DEF ReaderInv, Reserved, Preparing, Committing, Agree

\* A write by the one operation that may write.
LEMMA WriteStep ==
    ASSUME IInv, NEW o \in Ops, NEW l \in Touched, GoTo(o, l), l \in Publishing => pc[o] \in Publishing,
           pc[o] \in Preparing \cup Committing, inPlace \/ pc[o] \in Publishing, Role(o, l),
           NEW b \in Body \cup {None}, NEW k \in Header \cup {None}, body' = b, header' = k,
           b = body \/ (o \in Stores /\ b # None /\ b.gen = o),
           k = header \/ (/\ k # None /\ k.by = o /\ Genuine(k)
                          /\ k.gen \in Stores => k.gen = o \/ pc[k.gen] = "done"),
           (b # None /\ b.gen = o) \/ (k # None /\ k.by = o),
           b # None /\ k # None /\ k.whole =>
               Fits(b, k) \/ (o \in Stores /\ b.gen = o /\ l \in Halfway),
           o \in Stores => StoreInv(o, l)',
           o \in Readers => ReaderInv(have[o], l)',
           UNCHANGED <<config, index, remover, residue, evictions, crashes, have>>
    PROVE  IInv'
<1>1. pc[o] # "done" /\ pc[o] \in KeyWriting /\ pc[o] \in Reserved /\ l \in PCs
  BY Nesting DEF Reserved, KeyWriting, Preparing, Committing, PCs
<1>2. /\ pc \in [Ops -> PCs] /\ pc' \in [Ops -> PCs] /\ pc'[o] = l
      /\ \A p \in Ops : p # o => pc'[p] = pc[p]
  BY <1>1, GoToFacts DEF IInv, TypeOK
<1>3. TypeOK' /\ (tied => ~integrity)'
  BY <1>2 DEF IInv, TypeOK
<1>4. Enters(o, l)
  BY <1>1, Nesting DEF Enters
<1>5. Locks'
  BY <1>1, <1>2, <1>4, LocksKept DEF IInv
<1>6. Touched' = Touched /\ Halfway' = Halfway /\ \A x \in Ops : pc[x] = "done" => pc'[x] = "done"
  BY <1>1, <1>2 DEF Touched, Halfway
<1>7. Published(o)' /\ ~Settled'
  BY <1>2, <1>6 DEF Published, Settled
<1>8. FilesInv'
  <2>1. Complete' => Fits(b, k)' \/ (b.gen \in Stores /\ pc'[b.gen] \in Halfway)
    BY <1>2 DEF Complete, Terminated, Fits, Tainted, Agree
  <2>2. k # None => Genuine(k)'
    BY DEF IInv, FilesInv, Genuine
  <2>3. ASSUME NEW p \in Ops
        PROVE  Published(p)' => pc'[p] \in Touched \cup {"done"}
    <3>1. CASE p = o
      BY <1>2, <3>1
    <3>2. CASE p # o
      BY <1>2, <3>2 DEF IInv, FilesInv, Published
    <3> QED
      BY <3>1, <3>2
  <2>4. ASSUME NEW p \in Stores, k # None, k.gen = p
        PROVE  pc'[p] \in Touched \cup {"done"}
    BY <1>2, <1>6, <2>4 DEF IInv, FilesInv
  <2>5. ASSUME NEW p \in Ops, index = p
        PROVE  pc'[p] = "done"
    BY <1>6, <2>5 DEF IInv, FilesInv
  <2> QED
    BY <1>6, <1>7, <2>1, <2>2, <2>3, <2>4, <2>5 DEF FilesInv
<1>9. ASSUME NEW p \in Ops
      PROVE  Role(p, pc[p])'
  BY <1>2 DEF IInv, Role
<1>10. ASSUME NEW p \in Stores
       PROVE  StoreInv(p, pc[p])'
  <2>1. CASE p = o
    BY <1>2, <2>1
  <2>2. CASE p # o
    BY <1>1, <1>2, <2>2, OthersAway DEF StoreInv
  <2> QED
    BY <2>1, <2>2
<1>11. ASSUME NEW r \in Readers
       PROVE  ReaderInv(have[r], pc[r])'
  <2>1. CASE r = o
    BY <1>2, <2>1
  <2>2. CASE r # o
    <3>1. /\ pc[r] \in {"idle", "retrieved", "corrupt", "done", "readPublish"} /\ pc'[r] = pc[r]
          /\ have[r] \in Resource /\ ReaderInv(have[r], pc[r])
      BY <1>1, <1>2, <2>2, OthersAway DEF IInv, TypeOK
    <3>2. have'[r] = have[r]
      OBVIOUS
    <3> QED
      BY <1>1, <1>6, <1>7, <3>1, <3>2, AwayKept
  <2> QED
    BY <2>1, <2>2
<1> QED
  BY <1>3, <1>5, <1>8, <1>9, <1>10, <1>11 DEF IInv

\* In place the body is truncated; on disk nothing is seen of it.
LEMMA StageBodyKeeps ==
    ASSUME IInv, NEW o \in Ops, StageBody(o)
    PROVE  IInv'
<1>1. /\ pc[o] = "body" /\ o \in Stores
      /\ UNCHANGED <<config, header, index, remover, residue, evictions, crashes, have>>
  BY DEF StageBody, Unmoved, IInv, Role
<1>2. CASE inPlace /\ GoTo(o, "bodyEnd") /\ body' = [gen |-> o, whole |-> FALSE]
  <2> DEFINE b == [gen |-> o, whole |-> FALSE]
  <2>1. b \in Body /\ b.gen = o /\ b # None
    <3>1. b \in Body
      BY <1>1 DEF Body
    <3> QED
      BY <3>1, Zenon
  <2>2. header \in Header \cup {None}
    BY DEF IInv, TypeOK
  <2>3. Role(o, "bodyEnd") /\ StoreInv(o, "bodyEnd")'
    BY <1>1 DEF Role, StoreInv, KeyReading, Reading
  <2>4. /\ "bodyEnd" \in Touched /\ "bodyEnd" \in Halfway /\ "bodyEnd" \notin Publishing
        /\ pc[o] \in Preparing
    BY <1>1, <1>2 DEF Touched, Halfway, Publishing, Committing, Preparing
  <2> HIDE DEF b
  <2>5. body' = b
    BY <1>2 DEF b
  <2> QED
    BY <1>1, <1>2, <2>1, <2>2, <2>3, <2>4, <2>5, WriteStep
<1>3. CASE ~inPlace /\ GoTo(o, "bodyEnd") /\ body' = body
  BY <1>1, <1>3, WriterMoves DEF Preparing
<1>4. CASE GoTo(o, "fail") /\ body' = body
  BY <1>1, <1>4, WriterMoves DEF Preparing, Committing
<1> QED
  BY <1>2, <1>3, <1>4 DEF StageBody

\* In place the body is whole now, under a header that is still the old one.
LEMMA StageBodyEndsKeeps ==
    ASSUME IInv, NEW o \in Ops, StageBodyEnds(o)
    PROVE  IInv'
<1>1. /\ pc[o] = "bodyEnd" /\ o \in Stores
      /\ UNCHANGED <<config, header, index, remover, residue, evictions, crashes, have>>
  BY DEF StageBodyEnds, Unmoved, IInv, Role
<1>2. CASE inPlace /\ GoTo(o, "header") /\ body' = [gen |-> o, whole |-> TRUE]
  <2> DEFINE b == [gen |-> o, whole |-> TRUE]
  <2>1. b \in Body /\ b.gen = o /\ b # None
    <3>1. b \in Body
      BY <1>1 DEF Body
    <3> QED
      BY <3>1, Zenon
  <2>2. header \in Header \cup {None}
    BY DEF IInv, TypeOK
  <2>3. Role(o, "header") /\ StoreInv(o, "header")'
    BY <1>1, <1>2 DEF Role, StoreInv, KeyReading, Reading
  <2>4. /\ "header" \in Touched /\ "header" \in Halfway /\ "header" \notin Publishing
        /\ pc[o] \in Preparing
    BY <1>1, <1>2 DEF Touched, Halfway, Publishing, Committing, Preparing
  <2>5. body' = b
    BY <1>2
  <2> HIDE DEF b
  <2> QED
    BY <1>1, <1>2, <2>1, <2>2, <2>3, <2>4, <2>5, WriteStep
<1>3. CASE ~inPlace /\ GoTo(o, "header") /\ body' = body
  BY <1>1, <1>3, WriterMoves DEF Preparing
<1>4. CASE GoTo(o, "fail") /\ body' = body
  BY <1>1, <1>4, WriterMoves DEF Preparing, Committing
<1> QED
  BY <1>2, <1>3, <1>4 DEF StageBodyEnds

\* The header an operation writes is of its generation: a store's own, or for a
\* freshening the one it retrieved, whose digest it keeps.
LEMMA NewHeaderFacts ==
    ASSUME IInv, NEW o \in Ops, NEW w \in BOOLEAN,
           o \in Readers => pc[o] \in {"header", "headerEnd", "publish", "commitHeader"}
    PROVE  LET k == NewHeader(o, w) IN
           /\ k \in Header /\ k # None /\ k.by = o /\ k.whole = w
           /\ Genuine(k)
           /\ k.gen \in Stores => k.gen = o \/ pc[k.gen] = "done"
           /\ o \in Stores => k.gen = o /\ k.sum = o
           /\ o \in Readers => k.gen = have[o].header.gen /\ k.sum = header.sum
<1> DEFINE k == NewHeader(o, w)
<1>1. CASE o \in Stores
  <2>1. k = [gen |-> o, sum |-> o, by |-> o, whole |-> w]
    BY <1>1 DEF NewHeader
  <2>2. k \in Header
    BY <1>1, <2>1 DEF Header
  <2> QED
    BY <1>1, <2>1, <2>2 DEF Genuine
<1>2. CASE o \in Readers
  <2>1. /\ header # None /\ header \in Header /\ have[o] \in Resource
        /\ have[o].header # None /\ Known(have[o])
        /\ integrity => header.sum = have[o].header.gen
    BY <1>2 DEF IInv, TypeOK, ReaderInv, Reserved, Preparing, Committing
  <2>2. have[o].header \in Header
    BY <2>1 DEF Resource
  <2>3. k = [gen |-> have[o].header.gen, sum |-> header.sum, by |-> o, whole |-> w]
    BY <1>2 DEF NewHeader
  <2>4. k \in Header
    BY <1>2, <2>1, <2>2, <2>3 DEF Header
  <2>5. o \notin Stores \cup {Old} /\ have[o].header.gen \in Gens
    BY <1>2, <2>2 DEF Header
  <2> QED
    BY <1>2, <2>1, <2>3, <2>4, <2>5 DEF Genuine, Known
<1> QED
  BY <1>1, <1>2

\* In place the header is cut short, so that readers find a miss.
LEMMA StageHeaderKeeps ==
    ASSUME IInv, NEW o \in Ops, StageHeader(o)
    PROVE  IInv'
<1>1. /\ pc[o] = "header"
      /\ UNCHANGED <<config, body, index, remover, residue, evictions, crashes, have>>
  BY DEF StageHeader, Unmoved
<1>2. CASE inPlace /\ GoTo(o, "headerEnd") /\ header' = NewHeader(o, FALSE)
  <2> DEFINE k == NewHeader(o, FALSE)
  <2>1. /\ k \in Header /\ k # None /\ k.by = o /\ ~k.whole /\ Genuine(k)
        /\ k.gen \in Stores => k.gen = o \/ pc[k.gen] = "done"
        /\ o \in Readers => k.gen = have[o].header.gen /\ k.sum = header.sum
    BY <1>1, NewHeaderFacts, Zenon
  <2>2. header' = k
    BY <1>2
  <2> HIDE DEF k
  <2>3. body \in Body \cup {None} /\ Role(o, "header")
    BY <1>1 DEF IInv, TypeOK
  <2>4. Role(o, "headerEnd")
    BY <2>3 DEF Role, KeyReading, Reading
  <2>5. o \in Stores => StoreInv(o, "headerEnd")'
    BY <1>1, <1>2 DEF IInv, StoreInv
  <2>6. ASSUME o \in Readers
        PROVE  ReaderInv(have[o], "headerEnd")'
    <3>1. /\ have[o] \in Resource /\ ReaderInv(have[o], "header") /\ pc \in [Ops -> PCs]
      BY <1>1, <2>6 DEF IInv, TypeOK
    <3>2. \A x \in Ops : pc[x] = "done" => pc'[x] = "done"
      BY <1>1, <1>2, <3>1, Places, GoToFacts
    <3>3. Known(have[o])'
      <4>1. have[o].header # None => Genuine(have[o].header)'
        BY <3>1, <1>1 DEF ReaderInv, Known, Genuine
      <4> QED
        BY <1>1, <2>1, <2>2, <2>6, <3>1, <3>2, <4>1 DEF ReaderInv, Known, Resource, Header, Body
    <3>4. Fits(body, have[o].header)'
      BY <1>1, <3>1 DEF ReaderInv, Fits, Agree, Tainted
    <3> QED
      BY <1>1, <2>1, <2>2, <2>6, <3>1, <3>3, <3>4, Zenon DEF ReaderInv, Reserved, Preparing, Committing
  <2>7. "headerEnd" \in Touched /\ "headerEnd" \notin Publishing /\ pc[o] \in Preparing
    BY <1>1, <1>2 DEF Touched, Publishing, Committing, Preparing
  <2> QED
    BY <1>1, <1>2, <2>1, <2>2, <2>3, <2>4, <2>5, <2>6, <2>7, WriteStep, Zenon
<1>3. CASE ~inPlace /\ GoTo(o, "headerEnd") /\ header' = header
  BY <1>1, <1>3, WriterMoves DEF Preparing
<1>4. CASE GoTo(o, "fail") /\ header' = header
  BY <1>1, <1>4, WriterMoves DEF Preparing, Committing
<1> QED
  BY <1>2, <1>3, <1>4, Zenon DEF StageHeader

\* The header that completes an entry fits its body.
LEMMA NewHeaderFits ==
    ASSUME IInv, NEW o \in Ops, body # None,
           o \in Stores => body = [gen |-> o, whole |-> TRUE],
           o \in Readers => pc[o] \in {"header", "headerEnd", "publish", "commitHeader"}
    PROVE  Fits(body, NewHeader(o, TRUE))
<1>1. CASE o \in Stores
  <2>1. NewHeader(o, TRUE).gen = o
    BY <1>1 DEF NewHeader
  <2>2. body.gen = o /\ body.whole
    BY <1>1
  <2> QED
    BY <2>1, <2>2, Zenon DEF Fits, Agree
<1>2. CASE o \in Readers
  <2>1. Fits(body, have[o].header)
    BY <1>2 DEF IInv, ReaderInv
  <2>2. NewHeader(o, TRUE).gen = have[o].header.gen
    BY <1>2, NewHeaderFacts, Zenon
  <2> QED
    BY <2>1, <2>2, Zenon DEF Fits, Agree, Tainted
<1> QED
  BY <1>1, <1>2, Zenon

\* What a freshening knows when its header is in place.
LEMMA FreshenedKnows ==
    ASSUME IInv, NEW o \in Readers, NEW l \in {"publish", "track"},
           pc[o] \in {"header", "headerEnd", "publish", "commitHeader"}, GoTo(o, l),
           header' = NewHeader(o, TRUE), UNCHANGED <<config, body, index, residue, have>>
    PROVE  ReaderInv(have[o], l)'
<1> DEFINE k == NewHeader(o, TRUE)
<1>1. /\ k # None /\ k.by = o /\ k.gen = have[o].header.gen /\ k.sum = header.sum
  BY NewHeaderFacts, Zenon
<1> HIDE DEF k
<1>2. header' = k
  BY DEF k
<1>3. /\ have[o] \in Resource /\ ReaderInv(have[o], pc[o]) /\ pc \in [Ops -> PCs] /\ pc[o] # "done"
  BY DEF IInv, TypeOK
<1>4. \A x \in Ops : pc[x] = "done" => pc'[x] = "done"
  BY <1>3, Places, GoToFacts
<1>5. Known(have[o])'
  <2>1. have[o].header # None => Genuine(have[o].header)'
    BY <1>3 DEF ReaderInv, Known, Genuine
  <2> QED
    BY <1>1, <1>2, <1>3, <1>4, <2>1, Zenon DEF ReaderInv, Known, Resource, Header, Body
<1>6. Fits(body, have[o].header)'
  BY <1>3 DEF ReaderInv, Fits, Agree, Tainted
<1> QED
  BY <1>1, <1>2, <1>3, <1>5, <1>6, Zenon DEF ReaderInv, Reserved, Preparing, Committing

\* In place the header is complete now, over the body of its generation.
LEMMA StageHeaderEndsKeeps ==
    ASSUME IInv, NEW o \in Ops, StageHeaderEnds(o)
    PROVE  IInv'
<1>1. /\ pc[o] = "headerEnd"
      /\ UNCHANGED <<config, body, index, remover, residue, evictions, crashes, have>>
  BY DEF StageHeaderEnds, Unmoved
<1>2. CASE inPlace /\ GoTo(o, "publish") /\ header' = NewHeader(o, TRUE)
  <2>1. body \in Body \cup {None} /\ Role(o, "headerEnd")
    BY <1>1 DEF IInv, TypeOK
  <2>2. body # None => Fits(body, NewHeader(o, TRUE))
    <3>1. o \in Stores => body = [gen |-> o, whole |-> TRUE]
      BY <1>1, <1>2 DEF IInv, StoreInv
    <3> QED
      BY <1>1, <3>1, NewHeaderFits, Zenon
  <2>3. o \in Readers => ReaderInv(have[o], "publish")'
    BY <1>1, <1>2, FreshenedKnows, Zenon
  <2> DEFINE k == NewHeader(o, TRUE)
  <2>4. /\ k \in Header /\ k # None /\ k.by = o /\ Genuine(k)
        /\ k.gen \in Stores => k.gen = o \/ pc[k.gen] = "done"
    BY <1>1, NewHeaderFacts, Zenon
  <2>5. header' = k /\ (body # None => Fits(body, k))
    BY <1>2, <2>2, Zenon
  <2> HIDE DEF k
  <2>6. Role(o, "publish") /\ StoreInv(o, "publish")'
    BY <2>1 DEF Role, KeyReading, Reading, StoreInv
  <2>7. "publish" \in Touched /\ "publish" \notin Publishing /\ pc[o] \in Preparing
    BY <1>1, <1>2 DEF Touched, Publishing, Committing, Preparing
  <2> QED
    BY <1>1, <1>2, <2>1, <2>3, <2>4, <2>5, <2>6, <2>7, WriteStep, Zenon
<1>3. CASE ~inPlace /\ GoTo(o, "publish") /\ header' = header
  BY <1>1, <1>3, WriterMoves DEF Preparing
<1>4. CASE GoTo(o, "fail") /\ header' = header
  BY <1>1, <1>4, WriterMoves DEF Preparing, Committing
<1> QED
  BY <1>2, <1>3, <1>4, Zenon DEF StageHeaderEnds

\* publishMu is taken with the writer lock held.
LEMMA LockPublishKeeps ==
    ASSUME IInv, NEW o \in Ops, LockPublish(o)
    PROVE  IInv'
<1>1. /\ pc[o] \in {"publish", "fail"} /\ PublishFree(o)
      /\ UNCHANGED <<config, files, index, remover, residue, evictions, crashes, have>>
  BY DEF LockPublish, Unmoved
<1>2. CASE GoTo(o, "rollback")
  BY <1>1, <1>2, WriterMoves DEF Preparing
<1>3. CASE pc[o] = "publish" /\ o \in Stores /\ \E l \in {"track", "commit"} :
               GoTo(o, l) /\ (l = "track" <=> inPlace)
  <2>1. PICK l \in {"track", "commit"} : GoTo(o, l) /\ (l = "track" <=> inPlace)
    BY <1>3
  <2>2. Enters(o, l) /\ Role(o, l) /\ StoreInv(o, l) /\ l \in PCs
    BY <1>1, <1>3, <2>1, Places DEF Enters, Role, StoreInv, KeyWriting, KeyReading, Reserved, Publishing,
          Reading, Preparing, Committing
  <2>3. pc[o] \in Touched => l \in Touched /\ pc[o] \notin Halfway
    BY <1>3, <2>1 DEF Touched, Halfway
  <2> QED
    BY <1>1, <1>3, <2>1, <2>2, <2>3, StoreMove
<1>4. CASE pc[o] = "publish" /\ o \in Readers /\ \E l \in {"track", "commitHeader"} :
               GoTo(o, l) /\ (l = "track" <=> inPlace)
  <2>1. PICK l \in {"track", "commitHeader"} : GoTo(o, l) /\ (l = "track" <=> inPlace)
    BY <1>4
  <2>2. Enters(o, l) /\ Role(o, l) /\ l \in PCs
    BY <1>1, <1>4, <2>1, Places DEF Enters, Role, KeyWriting, KeyReading, Reserved, Publishing,
          Reading, Preparing, Committing
  <2>3. pc[o] \in Touched => l \in Touched
    BY <1>4, <2>1 DEF Touched
  <2>4. /\ have[o] \in Resource /\ ReaderInv(have[o], "publish") /\ have' = [have EXCEPT ![o] = have[o]]
    BY <1>1, <1>4 DEF IInv, TypeOK
  <2>5. ReaderInv(have[o], l)
    BY <2>1, <2>4 DEF ReaderInv, Reserved, Preparing, Committing
  <2> QED
    BY <1>1, <1>4, <2>1, <2>2, <2>3, <2>4, <2>5, ReaderMove, Zenon
<1> QED
  BY <1>1, <1>2, <1>3, <1>4 DEF LockPublish

\* The body of the new generation is under the header of the old one, and readers
\* wait.
LEMMA RenameBodyKeeps ==
    ASSUME IInv, NEW o \in Ops, RenameBody(o)
    PROVE  IInv'
<1>1. /\ pc[o] = "commit" /\ o \in Stores /\ ~inPlace
      /\ UNCHANGED <<config, header, index, remover, residue, evictions, crashes, have>>
  BY DEF RenameBody, Unmoved, IInv, Role
<1>2. CASE GoTo(o, "commitHeader") /\ body' = [gen |-> o, whole |-> TRUE]
  <2> DEFINE b == [gen |-> o, whole |-> TRUE]
  <2>1. b \in Body /\ b.gen = o /\ b # None
    <3>1. b \in Body
      BY <1>1 DEF Body
    <3> QED
      BY <3>1, Zenon
  <2>2. header \in Header \cup {None}
    BY DEF IInv, TypeOK
  <2>3. Role(o, "commitHeader") /\ StoreInv(o, "commitHeader")'
    BY <1>1, <1>2 DEF Role, StoreInv, KeyReading, Reading
  <2>4. /\ "commitHeader" \in Touched /\ "commitHeader" \in Halfway
        /\ pc[o] \in Publishing /\ pc[o] \in Committing
    BY <1>1, <1>2 DEF Touched, Halfway, Publishing, Committing
  <2>5. body' = b
    BY <1>2
  <2> HIDE DEF b
  <2> QED
    BY <1>1, <1>2, <2>1, <2>2, <2>3, <2>4, <2>5, WriteStep
<1>3. CASE GoTo(o, "rollback") /\ body' = body
  BY <1>1, <1>3, WriterMoves DEF Committing
<1> QED
  BY <1>2, <1>3 DEF RenameBody

\* The header of the new generation follows.
LEMMA RenameHeaderKeeps ==
    ASSUME IInv, NEW o \in Ops, RenameHeader(o)
    PROVE  IInv'
<1>1. /\ pc[o] = "commitHeader" /\ ~inPlace
      /\ UNCHANGED <<config, body, index, remover, residue, evictions, crashes, have>>
  BY DEF RenameHeader, Unmoved, IInv, Role
<1>2. CASE GoTo(o, "track") /\ header' = NewHeader(o, TRUE)
  <2>1. body \in Body \cup {None} /\ Role(o, "commitHeader")
    BY <1>1 DEF IInv, TypeOK
  <2>2. body # None => Fits(body, NewHeader(o, TRUE))
    <3>1. o \in Stores => body = [gen |-> o, whole |-> TRUE]
      BY <1>1, <1>2 DEF IInv, StoreInv
    <3> QED
      BY <1>1, <3>1, NewHeaderFits, Zenon
  <2>3. o \in Readers => ReaderInv(have[o], "track")'
    BY <1>1, <1>2, FreshenedKnows, Zenon
  <2> DEFINE k == NewHeader(o, TRUE)
  <2>4. /\ k \in Header /\ k # None /\ k.by = o /\ Genuine(k)
        /\ k.gen \in Stores => k.gen = o \/ pc[k.gen] = "done"
    BY <1>1, NewHeaderFacts, Zenon
  <2>5. header' = k /\ (body # None => Fits(body, k))
    BY <1>2, <2>2, Zenon
  <2> HIDE DEF k
  <2>6. Role(o, "track") /\ StoreInv(o, "track")'
    BY <2>1 DEF Role, KeyReading, Reading, StoreInv
  <2>7. "track" \in Touched /\ pc[o] \in Publishing /\ pc[o] \in Committing
    BY <1>1 DEF Touched, Publishing, Committing
  <2> QED
    BY <1>1, <1>2, <2>1, <2>3, <2>4, <2>5, <2>6, <2>7, WriteStep, Zenon
<1>3. CASE GoTo(o, "rollback") /\ header' = header
  BY <1>1, <1>3, WriterMoves DEF Committing
<1> QED
  BY <1>2, <1>3, Zenon DEF RenameHeader

-----------------------------------------------------------------------------
(* Steps that end an operation.                                            *)

\* An operation that is over knows nothing.
LEMMA NothingKnown ==
    /\ Nothing \in Resource
    /\ ReaderInv(Nothing, "done") /\ ReaderInv(Nothing, "done")'
    /\ ReaderInv(Nothing, "idle") /\ ReaderInv(Nothing, "idle")'
<1>1. Nothing \in Resource /\ Nothing.generation = None /\ Nothing.body = None /\ Nothing.header = None
  BY DEF Nothing, Resource
<1> QED
  BY <1>1, Zenon DEF ReaderInv, Known, Reserved, Preparing, Committing

\* Whoever ends with publishMu held leaves an entry in order under its generation,
\* or nothing, or what cannot be removed.
LEMMA EndStep ==
    ASSUME IInv, NEW o \in Ops, pc[o] \in Publishing, GoTo(o, "done"),
           have' = IF o \in Readers THEN [have EXCEPT ![o] = Nothing] ELSE have,
           UNCHANGED <<config, remover, evictions, crashes>>,
           body' \in {body, None}, header' \in {header, None},
           residue' \subseteq Gens, residue \subseteq residue',
           \/ index' = o /\ UNCHANGED <<files, residue>> /\ pc[o] \notin Halfway
           \/ /\ index' \in {index, Residual, None}
              /\ Complete' => body.gen \in residue' /\ header.gen \in residue'
    PROVE  IInv'
<1>1. pc[o] # "done" /\ pc[o] \in KeyWriting
  BY Nesting DEF IInv, TypeOK
<1>2. /\ pc \in [Ops -> PCs] /\ pc' \in [Ops -> PCs] /\ pc'[o] = "done"
      /\ \A p \in Ops : p # o => pc'[p] = pc[p]
  BY <1>1, Places, GoToFacts DEF IInv, TypeOK
<1>3. TypeOK' /\ (tied => ~integrity)'
  BY <1>2, NothingKnown DEF IInv, TypeOK
<1>4. Locks'
  <2>1. Enters(o, "done")
    BY Nesting DEF Enters
  <2> QED
    BY <1>2, <2>1, LocksKept, Places DEF IInv
<1>5. Touched' = Touched /\ Halfway' = Halfway /\ \A x \in Ops : pc[x] = "done" => pc'[x] = "done"
  BY <1>2 DEF Touched, Halfway
<1>6. Complete' => /\ body' = body /\ header' = header /\ Complete /\ body # None /\ header # None
  BY DEF Complete, Terminated
<1>7. FilesInv'
  <2>1. Complete' => Fits(body, header)'
    <3>1. CASE index' = o /\ UNCHANGED <<files, residue>> /\ pc[o] \notin Halfway
      <4>1. ASSUME Complete
            PROVE  Fits(body, header)
        <5>1. Fits(body, header) \/ (body.gen \in Stores /\ pc[body.gen] \in Halfway)
          BY <4>1 DEF IInv, FilesInv
        <5>2. ASSUME body.gen \in Stores, pc[body.gen] \in Halfway
              PROVE  FALSE
          <6>1. body.gen # o
            BY <3>1, <5>2
          <6> QED
            BY <1>1, <5>2, <6>1, Nesting DEF IInv, Locks
        <5> QED
          BY <5>1, <5>2
      <4> QED
        BY <1>6, <3>1, <4>1 DEF Fits, Agree, Tainted
    <3>2. CASE Complete' => body.gen \in residue' /\ header.gen \in residue'
      BY <1>6, <3>2 DEF Fits, Tainted
    <3> QED
      BY <3>1, <3>2
  <2>2. header' # None => Genuine(header)'
    BY DEF IInv, FilesInv, Genuine
  <2>3. ASSUME NEW p \in Ops
        PROVE  Published(p)' => pc'[p] \in Touched \cup {"done"}
    BY <1>2 DEF IInv, FilesInv, Published
  <2>4. ASSUME NEW p \in Stores, header' # None, header'.gen = p
        PROVE  pc'[p] \in Touched \cup {"done"}
    BY <1>2, <2>4 DEF IInv, FilesInv
  <2>5. ASSUME NEW p \in Ops, index' = p
        PROVE  pc'[p] = "done"
    BY <1>2, <1>5, <2>5 DEF IInv, FilesInv
  <2>6. ASSUME Complete', index' \in {Residual, None}
        PROVE  header'.gen \in residue'
    BY <1>6, <2>6
  <2> QED
    BY <1>5, <2>1, <2>2, <2>3, <2>4, <2>5, <2>6 DEF FilesInv
<1>8. ASSUME NEW p \in Ops
      PROVE  Role(p, pc[p])'
  <2>1. CASE p = o
    BY <1>2, <2>1 DEF Role, KeyReading, Reading
  <2>2. CASE p # o
    BY <1>2, <2>2 DEF IInv, Role
  <2> QED
    BY <2>1, <2>2
<1>9. ASSUME NEW p \in Stores
      PROVE  StoreInv(p, pc[p])'
  <2>1. CASE p = o
    BY <1>2, <2>1 DEF StoreInv
  <2>2. CASE p # o
    BY <1>1, <1>2, <2>2, OthersAway DEF StoreInv
  <2> QED
    BY <2>1, <2>2
<1>10. ASSUME NEW r \in Readers
       PROVE  ReaderInv(have[r], pc[r])'
  <2>1. CASE r = o
    <3>1. have'[r] = Nothing
      BY <2>1 DEF IInv, TypeOK
    <3> QED
      BY <1>2, <2>1, <3>1, NothingKnown
  <2>2. CASE r # o
    <3>1. /\ pc[r] \in {"idle", "retrieved", "corrupt", "done", "readPublish"} /\ pc'[r] = pc[r]
          /\ have[r] \in Resource /\ ReaderInv(have[r], pc[r])
      BY <1>1, <1>2, <2>2, OthersAway DEF IInv, TypeOK
    <3>2. have'[r] = have[r]
      BY <2>2 DEF IInv, TypeOK
    <3>3. ASSUME have[r].generation = index', index' # None, Complete'
          PROVE  body'.gen \in residue'
      <4>1. index' # o
        BY <1>1, <3>1, <3>3, Zenon DEF ReaderInv, Known
      <4> QED
        BY <1>6, <3>3, <4>1
    <3> QED
      BY <1>1, <1>5, <3>1, <3>2, <3>3, AwayKept
  <2> QED
    BY <2>1, <2>2
<1> QED
  BY <1>3, <1>4, <1>7, <1>8, <1>9, <1>10 DEF IInv

\* The ledger gets the generation of the entry that was published.
LEMMA TrackEntryKeeps ==
    ASSUME IInv, NEW o \in Ops, TrackEntry(o)
    PROVE  IInv'
<1>1. pc[o] = "track" /\ pc[o] \in Publishing /\ pc[o] \notin Halfway
  BY DEF TrackEntry, Publishing, Committing, Halfway
<1>2. residue \subseteq Gens
  BY DEF IInv, TypeOK
<1> QED
  BY <1>1, <1>2, EndStep DEF TrackEntry, Unmoved

\* What cannot be removed is residue.
LEMMA DiscardFacts ==
    ASSUME IInv, NEW refused \in SUBSET {"body", "header"}, DiscardUnadmitted(refused)
    PROVE  /\ body' \in {body, None} /\ header' \in {header, None}
           /\ index' \in {index, Residual, None}
           /\ residue' \subseteq Gens /\ residue \subseteq residue'
           /\ Complete' => body.gen \in residue' /\ header.gen \in residue'
<1>1. /\ body' \in {body, None} /\ header' \in {header, None} /\ index' \in {index, Residual, None}
      /\ residue \subseteq residue'
  BY DEF DiscardUnadmitted
<1>2. residue' \subseteq Gens
  BY DEF IInv, TypeOK, DiscardUnadmitted, Body, Header
<1>3. Complete' => body' # None /\ header' # None
  BY DEF Complete, Terminated
<1> QED
  BY <1>1, <1>2, <1>3 DEF DiscardUnadmitted

\* A failed store or freshening leaves the old generation, or nothing.
LEMMA DiscardPreparedKeeps ==
    ASSUME IInv, NEW o \in Ops, DiscardPrepared(o)
    PROVE  IInv'
<1>1. /\ pc[o] = "rollback" /\ GoTo(o, "done")
      /\ have' = IF o \in Readers THEN [have EXCEPT ![o] = Nothing] ELSE have
      /\ UNCHANGED <<config, remover, evictions, crashes>>
  BY DEF DiscardPrepared
<1>2. CASE \E refused \in SUBSET {"body", "header"} : DiscardUnadmitted(refused)
  <2>1. PICK refused \in SUBSET {"body", "header"} : DiscardUnadmitted(refused)
    BY <1>2
  <2>2. pc[o] \in Publishing
    BY <1>1 DEF Publishing, Committing
  <2> QED
    BY <1>1, <2>1, <2>2, DiscardFacts, EndStep
<1>3. CASE ~Published(o) /\ UNCHANGED <<files, index, residue>>
  <2>1. Enters(o, "done") /\ Role(o, "done") /\ StoreInv(o, "done")
    BY Nesting DEF Enters, Role, StoreInv, KeyReading, Reading
  <2>2. CASE o \in Stores
    <3>1. have' = have
      BY <1>1, <2>2
    <3> QED
      BY <1>1, <1>3, <2>1, <2>2, <3>1, Places, StoreMove
  <2>3. CASE o \in Readers
    BY <1>1, <1>3, <2>1, <2>3, NothingKnown, Places, ReaderMove, Zenon
  <2> QED
    BY <2>2, <2>3
<1> QED
  BY <1>2, <1>3 DEF DiscardPrepared

\* discardCorrupt removes what it observed, or leaves things alone.
LEMMA DiscardCorruptKeeps ==
    ASSUME IInv, NEW o \in Readers, DiscardCorrupt(o)
    PROVE  IInv'
<1>1. /\ pc[o] = "discard" /\ GoTo(o, "done") /\ have' = [have EXCEPT ![o] = Nothing]
      /\ UNCHANGED <<config, remover, evictions, crashes>>
  BY DEF DiscardCorrupt
<1>2. CASE \E refused \in SUBSET {"body", "header"} : DiscardUnadmitted(refused)
  <2>1. PICK refused \in SUBSET {"body", "header"} : DiscardUnadmitted(refused)
    BY <1>2
  <2>2. pc[o] \in Publishing
    BY <1>1 DEF Publishing
  <2> QED
    BY <1>1, <2>1, <2>2, DiscardFacts, EndStep, Zenon
<1>3. CASE UNCHANGED <<files, index, residue>>
  <2>1. Enters(o, "done") /\ Role(o, "done")
    BY Nesting DEF Enters, Role, KeyReading, Reading
  <2>2. pc[o] \notin Touched
    BY <1>1 DEF Touched
  <2> QED
    BY <1>1, <1>3, <2>1, <2>2, NothingKnown, Places, ReaderMove, Zenon
<1> QED
  BY <1>2, <1>3, Zenon DEF DiscardCorrupt

-----------------------------------------------------------------------------
(* Steps of a reader.                                                      *)

\* A retrieval in place waits for the key.
LEMMA LockRetrieveKeyKeeps ==
    ASSUME IInv, NEW o \in Readers, LockRetrieveKey(o)
    PROVE  IInv'
<1>1. /\ pc[o] = "idle" /\ KeyReadable(o) /\ GoTo(o, "readPublish")
      /\ UNCHANGED <<config, files, index, remover, residue, evictions, crashes, have>>
  BY DEF LockRetrieveKey, Unmoved, LedgerFree
<1>2. /\ have[o] \in Resource /\ ReaderInv(have[o], "idle") /\ have' = [have EXCEPT ![o] = have[o]]
      /\ Role(o, "idle")
  BY <1>1 DEF IInv, TypeOK
<1>3. Enters(o, "readPublish") /\ Role(o, "readPublish") /\ ReaderInv(have[o], "readPublish")
  BY <1>1, <1>2 DEF Enters, Role, ReaderInv, KeyWriting, KeyReading, Reserved, Publishing, Reading, Preparing, Committing
<1>4. pc[o] \notin Touched
  BY <1>1 DEF Touched
<1> QED
  BY <1>1, <1>2, <1>3, <1>4, Places, ReaderMove, Zenon

\* A retrieval waits for publishMu.
LEMMA LockRetrievePublishKeeps ==
    ASSUME IInv, NEW o \in Readers, LockRetrievePublish(o)
    PROVE  IInv'
<1>1. /\ pc[o] = "readPublish" /\ PublishReadable(o) /\ GoTo(o, "generation")
      /\ UNCHANGED <<config, files, index, remover, residue, evictions, crashes, have>>
  BY DEF LockRetrievePublish, Unmoved, LedgerFree
<1>2. /\ have[o] \in Resource /\ ReaderInv(have[o], "readPublish") /\ have' = [have EXCEPT ![o] = have[o]]
      /\ Role(o, "readPublish")
  BY <1>1 DEF IInv, TypeOK
<1>3. Enters(o, "generation") /\ Role(o, "generation") /\ ReaderInv(have[o], "generation")
  BY <1>1, <1>2 DEF Enters, Role, ReaderInv, KeyWriting, KeyReading, Reserved, Publishing, Reading, Preparing, Committing
<1>4. pc[o] \notin Touched
  BY <1>1 DEF Touched
<1> QED
  BY <1>1, <1>2, <1>3, <1>4, Places, ReaderMove, Zenon

\* discardCorrupt waits for the writer lock.
LEMMA LockCorruptKeyKeeps ==
    ASSUME IInv, NEW o \in Readers, LockCorruptKey(o)
    PROVE  IInv'
<1>1. /\ pc[o] = "corrupt" /\ KeyFree(o) /\ GoTo(o, "discardPublish")
      /\ UNCHANGED <<config, files, index, remover, residue, evictions, crashes, have>>
  BY DEF LockCorruptKey, Unmoved, LedgerFree
<1>2. /\ have[o] \in Resource /\ ReaderInv(have[o], "corrupt") /\ have' = [have EXCEPT ![o] = have[o]]
      /\ Role(o, "corrupt")
  BY <1>1 DEF IInv, TypeOK
<1>3. Enters(o, "discardPublish") /\ Role(o, "discardPublish") /\ ReaderInv(have[o], "discardPublish")
  BY <1>1, <1>2 DEF Enters, Role, ReaderInv, KeyWriting, KeyReading, Reserved, Publishing, Reading, Preparing, Committing
<1>4. pc[o] \notin Touched
  BY <1>1 DEF Touched
<1> QED
  BY <1>1, <1>2, <1>3, <1>4, Places, ReaderMove, Zenon

\* discardCorrupt waits for publishMu.
LEMMA LockCorruptPublishKeeps ==
    ASSUME IInv, NEW o \in Readers, LockCorruptPublish(o)
    PROVE  IInv'
<1>1. /\ pc[o] = "discardPublish" /\ PublishFree(o) /\ GoTo(o, "discard")
      /\ UNCHANGED <<config, files, index, remover, residue, evictions, crashes, have>>
  BY DEF LockCorruptPublish, Unmoved, LedgerFree
<1>2. /\ have[o] \in Resource /\ ReaderInv(have[o], "discardPublish") /\ have' = [have EXCEPT ![o] = have[o]]
      /\ Role(o, "discardPublish")
  BY <1>1 DEF IInv, TypeOK
<1>3. Enters(o, "discard") /\ Role(o, "discard") /\ ReaderInv(have[o], "discard")
  BY <1>1, <1>2 DEF Enters, Role, ReaderInv, KeyWriting, KeyReading, Reserved, Publishing, Reading, Preparing, Committing
<1>4. pc[o] \notin Touched
  BY <1>1 DEF Touched
<1> QED
  BY <1>1, <1>2, <1>3, <1>4, Places, ReaderMove, Zenon

\* Freshen waits for the writer lock.
LEMMA LockFreshenKeyKeeps ==
    ASSUME IInv, NEW o \in Readers, LockFreshenKey(o)
    PROVE  IInv'
<1>1. /\ pc[o] = "retrieved" /\ KeyFree(o) /\ GoTo(o, "reserve")
      /\ UNCHANGED <<config, files, index, remover, residue, evictions, crashes, have>>
  BY DEF LockFreshenKey, Unmoved, LedgerFree
<1>2. /\ have[o] \in Resource /\ ReaderInv(have[o], "retrieved") /\ have' = [have EXCEPT ![o] = have[o]]
      /\ Role(o, "retrieved")
  BY <1>1 DEF IInv, TypeOK
<1>3. Enters(o, "reserve") /\ Role(o, "reserve") /\ ReaderInv(have[o], "reserve")
  BY <1>1, <1>2 DEF Enters, Role, ReaderInv, KeyWriting, KeyReading, Reserved, Publishing, Reading, Preparing, Committing
<1>4. pc[o] \notin Touched
  BY <1>1 DEF Touched
<1> QED
  BY <1>1, <1>2, <1>3, <1>4, Places, ReaderMove, Zenon

\* Freshen waits for lruMutex.
LEMMA FreshenReservationKeeps ==
    ASSUME IInv, NEW o \in Readers, FreshenReservation(o)
    PROVE  IInv'
<1>1. /\ pc[o] = "reserve" /\ remover = None /\ GoTo(o, "check")
      /\ UNCHANGED <<config, files, index, remover, residue, evictions, crashes, have>>
  BY DEF FreshenReservation, Unmoved, LedgerFree
<1>2. /\ have[o] \in Resource /\ ReaderInv(have[o], "reserve") /\ have' = [have EXCEPT ![o] = have[o]]
      /\ Role(o, "reserve")
  BY <1>1 DEF IInv, TypeOK
<1>3. Enters(o, "check") /\ Role(o, "check") /\ ReaderInv(have[o], "check")
  BY <1>1, <1>2 DEF Enters, Role, ReaderInv, KeyWriting, KeyReading, Reserved, Publishing, Reading, Preparing, Committing
<1>4. pc[o] \notin Touched
  BY <1>1 DEF Touched
<1> QED
  BY <1>1, <1>2, <1>3, <1>4, Places, ReaderMove, Zenon

\* While a reader reads, no writer has touched the files.
LEMMA ReadingQuiet ==
    ASSUME IInv, NEW o \in Readers, pc[o] \in Reading
    PROVE  /\ \A p \in Ops : pc[p] \notin Touched
           /\ Settled
           /\ Complete => Fits(body, header)
           /\ body # None /\ body.gen \in Ops => pc[body.gen] = "done"
           /\ header # None /\ header.by \in Ops => pc[header.by] = "done"
           /\ header # None /\ header.gen \in Ops => pc[header.gen] = "done"
           /\ header # None => Genuine(header)
<1>1. ASSUME NEW p \in Ops, pc[p] \in Touched
      PROVE  FALSE
  <2>1. p # o
    BY <1>1, Nesting
  <2> QED
    BY <1>1, <2>1, Nesting DEF IInv, Locks
<1>2. Settled
  BY <1>1 DEF Settled
<1>3. Complete => Fits(body, header)
  BY <1>1, Nesting DEF IInv, FilesInv
<1>4. header # None => header.gen \in Gens
  BY DEF IInv, TypeOK, Header
<1>5. body # None => body.gen \in Gens
  BY DEF IInv, TypeOK, Body
<1> QED
  BY <1>1, <1>2, <1>3, <1>4, <1>5 DEF IInv, FilesInv, Published

\* What a record update leaves of a resource.
LEMMA ResourceFacts ==
    ASSUME NEW q \in Resource
    PROVE  /\ \A g \in Ops \cup {Old, None} :
                 LET h == [q EXCEPT !.generation = g] IN
                 h \in Resource /\ h.generation = g /\ h.body = q.body /\ h.header = q.header
           /\ \A b \in Body \cup {None} :
                 LET h == [q EXCEPT !.body = b] IN
                 h \in Resource /\ h.generation = q.generation /\ h.body = b /\ h.header = q.header
           /\ \A k \in Header \cup {None} :
                 LET h == [q EXCEPT !.header = k] IN
                 h \in Resource /\ h.generation = q.generation /\ h.body = q.body /\ h.header = k
  BY DEF Resource

\* A reader that ends gives up what it has.
LEMMA ReaderEnds ==
    ASSUME IInv, NEW o \in Readers, GoTo(o, "done"), pc[o] # "done", pc[o] \notin Touched,
           have' = [have EXCEPT ![o] = Nothing],
           UNCHANGED <<config, files, index, remover, residue, evictions, crashes>>
    PROVE  IInv'
<1>1. Enters(o, "done") /\ Role(o, "done")
  BY Nesting DEF Enters, Role, KeyReading, Reading
<1> QED
  BY <1>1, NothingKnown, Places, ReaderMove, Zenon

\* The generation of the ledger is of an operation that is over.
LEMMA EntryGenerationKeeps ==
    ASSUME IInv, NEW o \in Readers, EntryGeneration(o)
    PROVE  IInv'
<1> DEFINE h == [have[o] EXCEPT !.generation = LedgerGeneration]
<1>1. /\ pc[o] = "generation" /\ GoTo(o, "open")
      /\ UNCHANGED <<config, files, index, remover, residue, evictions, crashes>>
  BY DEF EntryGeneration, Unmoved
<1>2. /\ have \in [Readers -> Resource] /\ have[o] \in Resource /\ Known(have[o])
      /\ LedgerGeneration \in Ops \cup {Old, None}
  BY <1>1, Zenon DEF IInv, TypeOK, ReaderInv, LedgerGeneration
<1>3. h \in Resource /\ h.generation = LedgerGeneration /\ h.body = have[o].body /\ h.header = have[o].header
  BY <1>2, ResourceFacts
<1>4. have' = [have EXCEPT ![o] = h]
  BY <1>2 DEF EntryGeneration
<1> HIDE DEF h
<1>5. LedgerGeneration \in Ops => pc[LedgerGeneration] = "done"
  BY DEF IInv, FilesInv, LedgerGeneration
<1>6. Known(h)
  BY <1>2, <1>3, <1>5 DEF Known
<1>7. ReaderInv(h, "open")
  BY <1>3, <1>6 DEF ReaderInv, Reserved, Preparing, Committing
<1>8. Enters(o, "open") /\ Role(o, "open") /\ pc[o] \notin Touched
  BY <1>1 DEF Enters, Role, Touched, KeyWriting, KeyReading, Reserved, Publishing, Reading, Preparing, Committing
<1> QED
  BY <1>1, <1>3, <1>4, <1>7, <1>8, Places, ReaderMove, Zenon

\* The body that is opened fits the header behind it.
LEMMA OpenBodyKeeps ==
    ASSUME IInv, NEW o \in Readers, OpenBody(o)
    PROVE  IInv'
<1>1. /\ pc[o] = "open" /\ pc[o] \in Reading /\ pc[o] \notin Touched
      /\ UNCHANGED <<config, files, index, remover, residue, evictions, crashes>>
  BY DEF OpenBody, Unmoved, Reading, Touched
<1>2. CASE body = None /\ GoTo(o, "done") /\ have' = [have EXCEPT ![o] = Nothing]
  BY <1>1, <1>2, ReaderEnds, Zenon
<1>3. CASE body # None /\ GoTo(o, "readHeader") /\ have' = [have EXCEPT ![o].body = body]
  <2> DEFINE h == [have[o] EXCEPT !.body = body]
  <2>1. /\ have \in [Readers -> Resource] /\ have[o] \in Resource /\ ReaderInv(have[o], "open")
        /\ body \in Body
    BY <1>1, <1>3 DEF IInv, TypeOK
  <2>2. h \in Resource /\ h.generation = have[o].generation /\ h.body = body /\ h.header = have[o].header
    BY <2>1, ResourceFacts
  <2>3. have' = [have EXCEPT ![o] = h]
    BY <1>3, <2>1
  <2> HIDE DEF h
  <2>4. Known(h)
    BY <1>1, <1>3, <2>1, <2>2, ReadingQuiet DEF ReaderInv, Known
  <2>5. header # None => h.generation = LedgerGeneration
    BY <2>1, <2>2 DEF ReaderInv
  <2>6. ASSUME Terminated
        PROVE  Fits(body, header) /\ (h.generation = None => header.gen \in residue)
    <3>1. Complete /\ header # None
      BY <1>3, <2>6 DEF Complete, Terminated
    <3>2. h.generation = None => index \in {Residual, None}
      BY <2>5, <3>1 DEF LedgerGeneration
    <3> QED
      BY <1>1, <3>1, <3>2, ReadingQuiet, Zenon DEF IInv, FilesInv
  <2>7. ReaderInv(h, "readHeader")
    BY <1>3, <2>2, <2>4, <2>5, <2>6 DEF ReaderInv, Reserved, Preparing, Committing
  <2>8. Enters(o, "readHeader") /\ Role(o, "readHeader")
    BY <1>1 DEF Enters, Role, KeyWriting, KeyReading, Reserved, Publishing, Reading, Preparing, Committing
  <2> QED
    BY <1>1, <1>3, <2>2, <2>3, <2>7, <2>8, Places, ReaderMove, Zenon
<1> QED
  BY <1>2, <1>3 DEF OpenBody

\* A header that is read is the header of the body that was opened, or the body
\* does not have its digest.
LEMMA ReadHeaderKeeps ==
    ASSUME IInv, NEW o \in Readers, ReadHeader(o)
    PROVE  IInv'
<1>1. /\ pc[o] = "readHeader" /\ pc[o] \in Reading /\ pc[o] \notin Touched
      /\ UNCHANGED <<config, files, index, remover, residue, evictions, crashes>>
  BY DEF ReadHeader, Unmoved, Reading, Touched
<1>2. CASE GoTo(o, "done") /\ have' = [have EXCEPT ![o] = Nothing]
  BY <1>1, <1>2, ReaderEnds, Zenon
<1>3. CASE /\ Terminated /\ have' = [have EXCEPT ![o].header = header]
           /\ \E l \in {"retrieved", "corrupt"} :
                 GoTo(o, l) /\ (l = "retrieved" <=> Verified(have[o].body, header))
  <2> DEFINE h == [have[o] EXCEPT !.header = header]
  <2>1. /\ have \in [Readers -> Resource] /\ have[o] \in Resource /\ ReaderInv(have[o], "readHeader")
        /\ header \in Header /\ header # None
    BY <1>1, <1>3 DEF IInv, TypeOK, Terminated
  <2>2. h \in Resource /\ h.generation = have[o].generation /\ h.body = have[o].body /\ h.header = header
    BY <2>1, ResourceFacts
  <2>3. have' = [have EXCEPT ![o] = h]
    BY <1>3, <2>1
  <2> HIDE DEF h
  <2>4. Known(h)
    BY <1>1, <2>1, <2>2, ReadingQuiet DEF ReaderInv, Known
  <2>5. /\ h.body # None /\ body \in {h.body, None} /\ Fits(h.body, header)
        /\ h.generation = None => header.gen \in residue
    BY <1>3, <2>1, <2>2 DEF ReaderInv
  <2>6. PICK l \in {"retrieved", "corrupt"} : GoTo(o, l) /\ (l = "retrieved" <=> Verified(h.body, header))
    BY <1>3, <2>2
  <2>7. Genuine(header)
    BY <1>1, <2>1, ReadingQuiet
  <2>8. CASE l = "retrieved"
    <3>1. integrity => Agree(h.body, h.header)
      BY <2>2, <2>6, <2>7, <2>8 DEF Verified, Agree, Genuine
    <3>2. ReaderInv(h, l)
      BY <2>1, <2>2, <2>4, <2>5, <2>8, <3>1, Zenon DEF ReaderInv, Reserved, Preparing, Committing
    <3>3. Enters(o, l) /\ Role(o, l)
      BY <1>1, <2>8 DEF Enters, Role, KeyWriting, KeyReading, Reserved, Publishing, Reading, Preparing, Committing
    <3> QED
      BY <1>1, <2>2, <2>3, <2>6, <2>8, <3>2, <3>3, Places, ReaderMove, Zenon
  <2>9. CASE l = "corrupt"
    <3>1. integrity /\ (body = None \/ ~Agree(body, h.header))
      BY <2>2, <2>5, <2>6, <2>7, <2>9 DEF Verified, Agree, Genuine
    <3>2. ReaderInv(h, l)
      BY <2>1, <2>2, <2>4, <2>9, <3>1, Zenon DEF ReaderInv, Reserved, Preparing, Committing
    <3>3. Enters(o, l) /\ Role(o, l)
      BY <1>1, <2>9, <3>1 DEF Enters, Role, KeyWriting, KeyReading, Reserved, Publishing, Reading, Preparing, Committing
    <3> QED
      BY <1>1, <2>2, <2>3, <2>6, <2>9, <3>2, <3>3, Places, ReaderMove, Zenon
  <2> QED
    BY <2>6, <2>8, <2>9
<1> QED
  BY <1>2, <1>3 DEF ReadHeader
-----------------------------------------------------------------------------
(* The steps of a retrieval, and the theorems.                             *)

\* Header remembers the header it read, to look for its body.
LEMMA HeaderRecordKeeps ==
    ASSUME IInv, NEW o \in Readers, HeaderRecord(o)
    PROVE  IInv'
<1>1. /\ pc[o] = "generation" /\ pc[o] \in Reading /\ pc[o] \notin Touched
      /\ UNCHANGED <<config, files, index, remover, residue, evictions, crashes>>
  BY DEF HeaderRecord, Unmoved, Reading, Touched
<1>2. /\ have \in [Readers -> Resource] /\ have[o] \in Resource /\ Known(have[o])
  BY <1>1, Zenon DEF IInv, TypeOK, ReaderInv
<1>3. CASE GoTo(o, "done") /\ have' = have
  <2>1. ReaderInv(have[o], "done")
    BY <1>2 DEF ReaderInv, Reserved, Preparing, Committing
  <2>2. Enters(o, "done") /\ Role(o, "done") /\ have' = [have EXCEPT ![o] = have[o]]
    BY <1>2, <1>3, Nesting DEF Enters, Role, KeyReading, Reading
  <2> QED
    BY <1>1, <1>2, <1>3, <2>1, <2>2, Places, ReaderMove, Zenon
<1>4. CASE Terminated /\ integrity /\ GoTo(o, "openBody") /\ have' = [have EXCEPT ![o].header = header]
  <2> DEFINE h == [have[o] EXCEPT !.header = header]
  <2>1. header \in Header /\ header # None
    BY <1>4 DEF IInv, TypeOK, Terminated
  <2>2. h \in Resource /\ h.generation = have[o].generation /\ h.body = have[o].body /\ h.header = header
    BY <1>2, <2>1, ResourceFacts
  <2>3. have' = [have EXCEPT ![o] = h]
    BY <1>2, <1>4
  <2> HIDE DEF h
  <2>4. Known(h)
    BY <1>1, <1>2, <2>1, <2>2, ReadingQuiet DEF Known
  <2>5. ReaderInv(h, "openBody")
    BY <2>1, <2>2, <2>4 DEF ReaderInv, Reserved, Preparing, Committing
  <2>6. Enters(o, "openBody") /\ Role(o, "openBody")
    BY <1>1, <1>4 DEF Enters, Role, KeyWriting, KeyReading, Reserved, Publishing, Reading, Preparing, Committing
  <2> QED
    BY <1>1, <1>4, <2>2, <2>3, <2>5, <2>6, Places, ReaderMove, Zenon
<1> QED
  BY <1>3, <1>4 DEF HeaderRecord

\* A body that is missing or has another digest is not the header's.
LEMMA HeaderBodyKeeps ==
    ASSUME IInv, NEW o \in Readers, HeaderBody(o)
    PROVE  IInv'
<1>1. /\ pc[o] = "openBody" /\ pc[o] \notin Touched
      /\ UNCHANGED <<config, files, index, remover, residue, evictions, crashes>>
  BY DEF HeaderBody, Unmoved, Touched
<1>2. CASE GoTo(o, "done") /\ have' = [have EXCEPT ![o] = Nothing]
  BY <1>1, <1>2, ReaderEnds, Zenon
<1>3. CASE ~(body # None /\ Verified(body, have[o].header)) /\ GoTo(o, "corrupt") /\ have' = have
  <2>1. /\ have[o] \in Resource /\ ReaderInv(have[o], "openBody") /\ Role(o, "openBody")
        /\ have' = [have EXCEPT ![o] = have[o]]
    BY <1>1, <1>3 DEF IInv, TypeOK
  <2>2. integrity /\ have[o].header # None /\ Known(have[o])
    BY <2>1 DEF Role, ReaderInv
  <2>3. body = None \/ ~Agree(body, have[o].header)
    BY <1>3, <2>2 DEF Verified, Agree, Known, Genuine
  <2>4. ReaderInv(have[o], "corrupt")
    BY <2>2, <2>3 DEF ReaderInv, Reserved, Preparing, Committing
  <2>5. Enters(o, "corrupt") /\ Role(o, "corrupt")
    BY <1>1, <2>2 DEF Enters, Role, KeyWriting, KeyReading, Reserved, Publishing, Reading, Preparing, Committing
  <2> QED
    BY <1>1, <1>3, <2>1, <2>4, <2>5, Places, ReaderMove, Zenon
<1> QED
  BY <1>2, <1>3 DEF HeaderBody

\* A closed resource is forgotten.
LEMMA CloseResourceKeeps ==
    ASSUME IInv, NEW o \in Readers, CloseResource(o)
    PROVE  IInv'
<1>1. pc[o] = "retrieved" /\ pc[o] \notin Touched
  BY DEF CloseResource, Touched
<1> QED
  BY <1>1, ReaderEnds, Zenon DEF CloseResource, Unmoved

\* The target of a freshening that was not replaced fits the retrieved fields: on
\* disk it is the file that was read, and in place the ledger's generation tells.
LEMMA FreshenChecksKeeps ==
    ASSUME IInv, NEW o \in Readers, FreshenChecks(o)
    PROVE  IInv'
<1>1. /\ pc[o] = "check" /\ pc[o] \notin Touched
      /\ UNCHANGED <<config, files, index, remover, residue, evictions, crashes>>
  BY DEF FreshenChecks, Unmoved, Touched
<1>2. CASE GoTo(o, "done") /\ have' = [have EXCEPT ![o] = Nothing]
  BY <1>1, <1>2, ReaderEnds, Zenon
<1>3. CASE Complete /\ ~ResourceWasReplaced(o) /\ GoTo(o, "header") /\ have' = have
  <2>1. /\ have[o] \in Resource /\ ReaderInv(have[o], "check") /\ have' = [have EXCEPT ![o] = have[o]]
    BY <1>1, <1>3 DEF IInv, TypeOK
  <2>2. /\ have[o].header # None /\ Known(have[o])
        /\ have[o].generation = None => have[o].header.gen \in residue
        /\ have[o].generation = index /\ index # None /\ Complete /\ Settled =>
              header.by = have[o].header.by \/ body.gen \in residue
    BY <2>1 DEF ReaderInv
  <2>3. ASSUME NEW p \in Ops, pc[p] \in Touched
        PROVE  FALSE
    <3>1. p # o /\ pc[p] \in KeyWriting /\ pc[o] \in KeyWriting
      BY <1>1, <2>3, Nesting, Zenon DEF KeyWriting
    <3> QED
      BY <3>1 DEF IInv, Locks
  <2>4. Settled /\ Fits(body, header) /\ body # None /\ header # None /\ Genuine(header)
    BY <1>3, <2>3, Nesting, Zenon DEF IInv, FilesInv, Settled, Complete, Terminated
  <2>5. header.by = have[o].header.by => Fits(body, have[o].header)
    BY <2>2, <2>4 DEF Known, Fits, Agree, Tainted
  <2>6. SameRecord(o) /\ (have[o].generation # None => have[o].generation = index)
        /\ (~inPlace => header.by = have[o].header.by)
    BY <1>3 DEF ResourceWasReplaced
  <2>7. Fits(body, have[o].header)
    BY <1>3, <2>2, <2>4, <2>5, <2>6 DEF Fits, Tainted
  <2>8. integrity => header.sum = have[o].header.gen
    <3>1. ASSUME integrity
          PROVE  header.by = have[o].header.by
      BY <2>6, <3>1 DEF IInv, SameRecord, Fingerprint
    <3> QED
      BY <2>2, <2>4, <3>1 DEF Known, Genuine
  <2>9. ReaderInv(have[o], "header")
    BY <2>2, <2>4, <2>7, <2>8 DEF ReaderInv
  <2>10. Enters(o, "header") /\ Role(o, "header")
    BY <1>1 DEF Enters, Role, KeyWriting, KeyReading, Reserved, Publishing, Reading, Preparing, Committing
  <2> QED
    BY <1>1, <1>3, <2>1, <2>9, <2>10, Places, ReaderMove, Zenon
<1> QED
  BY <1>2, <1>3 DEF FreshenChecks

-----------------------------------------------------------------------------
(* Eviction, and the crash of the process.                                 *)

\* An evictor takes no key that is being written.
LEMMA EvictForAdmissionKeeps ==
    ASSUME IInv, EvictForAdmission
    PROVE  IInv'
<1>1. TypeOK' /\ (tied => ~integrity)'
  BY DEF IInv, TypeOK, EvictForAdmission
<1>2. Locks'
  BY DEF IInv, Locks, EvictForAdmission
<1>3. Settled' = Settled
  BY DEF EvictForAdmission, Settled, Touched, Published
<1>4. FilesInv'
  BY <1>3, Zenon DEF IInv, FilesInv, EvictForAdmission, Complete, Terminated, Fits, Agree, Tainted,
              Published, Touched, Halfway, Genuine
<1>5. ASSUME NEW o \in Ops
      PROVE  Role(o, pc[o])'
  BY DEF IInv, Role, EvictForAdmission
<1>6. ASSUME NEW o \in Stores
      PROVE  StoreInv(o, pc[o])'
  BY DEF IInv, StoreInv, EvictForAdmission
<1>7. ASSUME NEW r \in Readers
      PROVE  ReaderInv(have[r], pc[r])'
  <2>1. have[r] \in Resource /\ pc[r] \in PCs /\ ReaderInv(have[r], pc[r])
    BY DEF IInv, TypeOK
  <2>2. UNCHANGED <<config, files, index, residue, have, pc>>
    BY DEF EvictForAdmission
  <2> QED
    BY <1>3, <2>1, <2>2, ReaderKept
<1> QED
  BY <1>1, <1>2, <1>4, <1>5, <1>6, <1>7 DEF IInv

\* What a reader knows stays true when files that nobody writes are removed.
LEMMA RemovalKept ==
    ASSUME NEW h \in Resource, NEW l \in PCs, ReaderInv(h, l), l \notin Reserved, Settled,
           UNCHANGED <<config, pc, residue>>,
           body' \in {body, None}, header' \in {header, None},
           index' = index \/ (index' = None /\ header' = None)
    PROVE  ReaderInv(h, l)'
<1>1. Complete' => Complete /\ body' = body /\ header' = header /\ index' = index
  BY DEF Complete, Terminated
<1>2. Known(h)'
  <2>1. Known(h)
    BY DEF ReaderInv
  <2>2. h.header # None => Genuine(h.header)'
    BY <2>1 DEF Known, Genuine
  <2> QED
    BY <2>1, <2>2 DEF Known
<1>3. header' # None => index' = index /\ LedgerGeneration' = LedgerGeneration
  BY DEF LedgerGeneration
<1>4. Terminated' => Terminated /\ header' = header /\ header # None
  BY DEF Terminated
<1>5. /\ Fits(h.body, h.header)' = Fits(h.body, h.header)
      /\ header' = header => Fits(h.body, header)' = Fits(h.body, header)
      /\ Agree(h.body, h.header)' = Agree(h.body, h.header)
  BY DEF Fits, Agree, Tainted
<1>6. l \notin {"header", "headerEnd", "publish", "commitHeader"}
  BY DEF Reserved, Preparing, Committing
<1>7. body' # None => body' = body /\ Agree(body, h.header)' = Agree(body, h.header)
  BY DEF Agree
<1>8. l \in {"open", "readHeader"} /\ header' # None => h.generation = LedgerGeneration'
  BY <1>3 DEF ReaderInv
<1>9. l = "readHeader" =>
          /\ h.body # None /\ body' \in {h.body, None}
          /\ Terminated' => Fits(h.body, header)' /\ (h.generation = None => header'.gen \in residue)
  BY <1>4, <1>5 DEF ReaderInv
<1>10. l \in {"retrieved", "reserve", "check"} =>
        /\ h.header # None /\ h.body # None /\ Fits(h.body, h.header)'
        /\ integrity => Agree(h.body, h.header)'
        /\ h.generation = None => h.header.gen \in residue
        /\ h.generation = index' /\ index' # None /\ Complete' =>
              header'.by = h.header.by \/ body'.gen \in residue
  BY <1>1, <1>5 DEF ReaderInv
<1>11. l \in {"corrupt", "discardPublish", "discard"} => body' = None \/ ~Agree(body, h.header)'
  BY <1>7 DEF ReaderInv
<1>12. l \in {"openBody", "retrieved", "corrupt", "discardPublish", "discard"} => h.header # None
  BY DEF ReaderInv
<1> QED
  BY <1>2, <1>6, <1>8, <1>9, <1>10, <1>11, <1>12, Zenon DEF ReaderInv

\* A removal takes files away that nobody is writing; a reader that opened the body
\* finds its header or none.
LEMMA RemoveStep ==
    ASSUME IInv, remover # None, remover' \in {"body", "header", None},
           UNCHANGED <<config, pc, have, residue, evictions, crashes>>,
           body' \in {body, None}, header' \in {header, None},
           index' = index \/ (index' = None /\ header' = None)
    PROVE  IInv'
<1>1. TypeOK' /\ (tied => ~integrity)'
  BY DEF IInv, TypeOK
<1>2. \A o \in Ops : pc[o] \notin Reserved
  BY DEF IInv, Locks
<1>3. Locks'
  BY <1>2 DEF IInv, Locks
<1>4. Touched' = Touched /\ Halfway' = Halfway /\ Settled
  BY <1>2, Nesting DEF Touched, Halfway, Settled
<1>5. Complete' => Complete /\ body' = body /\ header' = header /\ index' = index
  BY DEF Complete, Terminated
<1>6. FilesInv'
  <2>1. Complete' => Fits(body, header)'
    BY <1>2, <1>5, Nesting, Zenon DEF IInv, FilesInv, Fits, Agree, Tainted
  <2>2. header' # None => Genuine(header)'
    BY Zenon DEF IInv, FilesInv, Genuine
  <2>3. ASSUME NEW p \in Ops
        PROVE  /\ Published(p)' => Published(p)
               /\ index' = p => index = p
    BY DEF Published
  <2> QED
    BY <1>4, <1>5, <2>1, <2>2, <2>3, Zenon DEF IInv, FilesInv
<1>7. ASSUME NEW o \in Ops
      PROVE  Role(o, pc[o])'
  BY DEF IInv, Role
<1>8. ASSUME NEW o \in Stores
      PROVE  StoreInv(o, pc[o])'
  BY <1>2 DEF StoreInv, Reserved, Preparing, Committing
<1>9. ASSUME NEW r \in Readers
      PROVE  ReaderInv(have[r], pc[r])'
  <2>1. /\ have[r] \in Resource /\ pc[r] \in PCs /\ ReaderInv(have[r], pc[r])
        /\ pc[r] \notin Reserved
    BY <1>2 DEF IInv, TypeOK
  <2> QED
    BY <1>4, <2>1, RemovalKept
<1> QED
  BY <1>1, <1>3, <1>6, <1>7, <1>8, <1>9, Zenon DEF IInv

\* The removal of either file.
LEMMA EvictKeeps ==
    ASSUME IInv, EvictBody \/ EvictHeader
    PROVE  IInv'
<1>1. CASE EvictBody
  BY <1>1, RemoveStep DEF EvictBody, Unmoved
<1>2. CASE EvictHeader
  BY <1>2, RemoveStep DEF EvictHeader, Unmoved
<1> QED
  BY <1>1, <1>2

\* After a crash what was mixed is residue, and nobody knows anything.
LEMMA CrashKeeps ==
    ASSUME IInv, Crash
    PROVE  IInv'
<1>1. /\ pc' = [o \in Ops |-> IF pc[o] = "idle" THEN "idle" ELSE "done"]
      /\ have' = [r \in Readers |-> Nothing] /\ remover' = None
      /\ UNCHANGED <<config, files>>
  BY DEF Crash
<1>2. \A o \in Ops : /\ pc'[o] \in {"idle", "done"}
                     /\ pc[o] # "idle" => pc'[o] = "done"
  BY <1>1
<1>3. TypeOK' /\ (tied => ~integrity)'
  <2>1. residue' \subseteq Gens
    BY DEF Crash, IInv, TypeOK, Complete, Terminated, Body, Header
  <2>2. pc' \in [Ops -> PCs] /\ have' \in [Readers -> Resource]
    BY <1>1, Places, NothingKnown
  <2>3. crashes' \in 0..MaxCrashes /\ evictions' \in 0..MaxEvictions
    BY DEF Crash, IInv, TypeOK
  <2>4. index' \in Ops \cup {Old, Residual, None} /\ remover' \in {"body", "header", None}
    BY <1>1 DEF Crash
  <2>5. /\ inPlace' \in BOOLEAN /\ integrity' \in BOOLEAN /\ tied' \in BOOLEAN
        /\ (tied => ~integrity)' /\ body' \in Body \cup {None} /\ header' \in Header \cup {None}
    BY <1>1 DEF IInv, TypeOK
  <2> QED
    BY <2>1, <2>2, <2>3, <2>4, <2>5 DEF TypeOK
<1>4. Locks'
  BY <1>1, <1>2, Nesting DEF Locks
<1>5. FilesInv'
  <2>1. Complete' = Complete /\ Touched' = Touched /\ "idle" \notin Touched
    BY <1>1 DEF Complete, Terminated, Touched
  <2>2. Complete => Fits(body, header)'
    BY <1>1 DEF Crash, Fits, Tainted, Agree
  <2>3. header' # None => Genuine(header)'
    BY <1>1, Zenon DEF IInv, FilesInv, Genuine
  <2>4. ASSUME NEW o \in Ops
        PROVE  /\ Published(o)' => pc'[o] = "done"
               /\ o \in Stores /\ header # None /\ header.gen = o => pc'[o] = "done"
               /\ index' # o
    BY <1>1, <1>2, <2>1, Zenon DEF IInv, FilesInv, Published, Crash
  <2>5. Complete => index' = Old
    BY DEF Crash, Complete
  <2> QED
    BY <1>1, <2>1, <2>2, <2>3, <2>4, <2>5 DEF FilesInv
<1>6. ASSUME NEW o \in Ops
      PROVE  Role(o, pc[o])'
  BY <1>2 DEF Role, KeyReading, Reading
<1>7. ASSUME NEW o \in Stores
      PROVE  StoreInv(o, pc[o])'
  BY <1>2 DEF StoreInv
<1>8. ASSUME NEW r \in Readers
      PROVE  ReaderInv(have[r], pc[r])'
  <2>1. have'[r] = Nothing /\ pc'[r] \in {"idle", "done"}
    BY <1>1, <1>2
  <2> QED
    BY <2>1, NothingKnown
<1> QED
  BY <1>3, <1>4, <1>5, <1>6, <1>7, <1>8 DEF IInv

-----------------------------------------------------------------------------
(* The theorems.                                                           *)

\* The cache starts with one whole entry, or none.
LEMMA InitHolds == Init => IInv
<1> SUFFICES ASSUME Init PROVE IInv
  OBVIOUS
<1>1. OldBody \in Body /\ OldHeader \in Header
  BY DEF OldBody, OldHeader, Body, Header
<1>2. OldBody # None /\ OldHeader # None
  BY <1>1
<1>3. /\ OldBody.gen = Old /\ OldBody.whole /\ OldHeader.gen = Old /\ OldHeader.by = Old
      /\ OldHeader.sum = Old
  BY DEF OldBody, OldHeader
<1>4. \A o \in Ops : pc[o] = "idle"
  BY DEF Init
<1>5. TypeOK
  BY <1>1, Places, NothingKnown DEF Init, TypeOK
<1>6. tied => ~integrity
  BY DEF Init
<1>7. Locks
  BY <1>4, Nesting DEF Init, Locks
<1>8. FilesInv
  <2>1. CASE body = None /\ header = None /\ index = None
    BY <2>1 DEF FilesInv, Complete, Terminated, Published
  <2>2. CASE body = OldBody /\ header = OldHeader /\ index = Old
    BY <1>2, <1>3, <2>2 DEF FilesInv, Complete, Terminated, Published, Genuine, Fits, Agree
  <2> QED
    BY <2>1, <2>2 DEF Init
<1>9. \A o \in Ops : Role(o, pc[o])
  BY <1>4 DEF Role, KeyReading, Reading
<1>10. \A o \in Stores : StoreInv(o, pc[o])
  BY <1>4 DEF StoreInv
<1>11. \A r \in Readers : ReaderInv(have[r], pc[r])
  <2>1. ASSUME NEW r \in Readers
        PROVE  have[r] = Nothing /\ pc[r] = "idle"
    BY <1>4 DEF Init
  <2> QED
    BY <2>1, NothingKnown
<1> QED
  BY <1>5, <1>6, <1>7, <1>8, <1>9, <1>10, <1>11 DEF IInv

\* Every step keeps the invariant.
LEMMA NextKeeps == IInv /\ [Next]_vars => IInv'
<1> SUFFICES ASSUME IInv, [Next]_vars PROVE IInv'
  OBVIOUS
<1>1. ASSUME NEW o \in Stores, Store(o)
      PROVE  IInv'
  BY <1>1, LockStoreKeyKeeps, BeginReservationKeeps, StageBodyKeeps, StageBodyEndsKeeps,
     RenameBodyKeeps DEF Store
<1>2. ASSUME NEW o \in Ops, Write(o)
      PROVE  IInv'
  BY <1>2, StageHeaderKeeps, StageHeaderEndsKeeps, LockPublishKeeps, RenameHeaderKeeps,
     TrackEntryKeeps, DiscardPreparedKeeps DEF Write
<1>3. ASSUME NEW o \in Readers, Retrieve(o)
      PROVE  IInv'
  BY <1>3, LockRetrieveKeyKeeps, LockRetrievePublishKeeps, EntryGenerationKeeps, OpenBodyKeeps,
     ReadHeaderKeeps, HeaderRecordKeeps, HeaderBodyKeeps, LockCorruptKeyKeeps,
     LockCorruptPublishKeeps, DiscardCorruptKeeps, Zenon DEF Retrieve
<1>4. ASSUME NEW o \in Readers, Freshen(o) \/ CloseResource(o)
      PROVE  IInv'
  BY <1>4, LockFreshenKeyKeeps, FreshenReservationKeeps, FreshenChecksKeeps, CloseResourceKeeps
     DEF Freshen
<1>5. CASE Evict \/ Crash
  BY <1>5, EvictForAdmissionKeeps, EvictKeeps, CrashKeeps DEF Evict
<1>6. CASE UNCHANGED vars
  <2>1. UNCHANGED <<inPlace, integrity, tied, body, header, index, remover, pc, have, residue,
                    evictions, crashes>>
    BY <1>6 DEF vars
  <2>2. /\ TypeOK' /\ (tied => ~integrity)' /\ Locks'
    BY <2>1, Zenon DEF IInv, TypeOK, Locks
  <2>3. Settled' = Settled
    BY <2>1 DEF Settled, Touched, Published
  <2>4. FilesInv'
    BY <2>1, <2>3, Zenon DEF IInv, FilesInv, Complete, Terminated, Fits, Agree, Tainted, Published,
                      Touched, Halfway, Genuine
  <2>5. /\ \A o \in Ops : Role(o, pc[o])'
        /\ \A o \in Stores : StoreInv(o, pc[o])'
    BY <2>1, Zenon DEF IInv, Role, StoreInv
  <2>6. ASSUME NEW r \in Readers
        PROVE  ReaderInv(have[r], pc[r])'
    <3>1. have[r] \in Resource /\ pc[r] \in PCs /\ ReaderInv(have[r], pc[r])
      BY DEF IInv, TypeOK
    <3> QED
      BY <2>1, <2>3, <3>1, ReaderKept, Zenon
  <2> QED
    BY <2>2, <2>4, <2>5, <2>6, Zenon DEF IInv
<1> QED
  BY <1>1, <1>2, <1>3, <1>4, <1>5, <1>6 DEF Next

\* The invariant holds for every number of stores, retrievals, evictions and crashes.
THEOREM GenerationInvariant == Spec => []IInv
<1>1. Init => IInv
  BY InitHolds
<1>2. IInv /\ [Next]_vars => IInv'
  BY NextKeeps
<1> QED
  BY <1>1, <1>2, PTL DEF Spec

\* Retrieve never hands out the body of one generation with the header of another,
\* but for what a crash or a refused removal left, and with integrity not even then.
THEOREM RetrievesPairs == Spec => []Paired
<1>1. IInv => Paired
  <2> SUFFICES ASSUME IInv, NEW r \in Readers, pc[r] = "retrieved"
               PROVE  \/ Agree(have[r].body, have[r].header)
                      \/ ~integrity /\ Tainted(have[r].body, have[r].header)
    BY DEF Paired
  <2>1. ReaderInv(have[r], "retrieved")
    BY DEF IInv
  <2> QED
    BY <2>1, Zenon DEF ReaderInv, Fits
<1> QED
  BY <1>1, GenerationInvariant, PTL

\* Writers leave the files of one generation, whatever failed on the way.
THEOREM WritersLeavePairs == Spec => []LeftPaired
<1>1. IInv => LeftPaired
  BY Nesting, Zenon DEF IInv, FilesInv, LeftPaired, Fits
<1> QED
  BY <1>1, GenerationInvariant, PTL

\* Only the reader itself, or a crash, ends its discardCorrupt.
LEMMA DiscardEnds ==
    ASSUME IInv, [Next]_vars, NEW r \in Readers, pc[r] = "discard"
    PROVE  pc'[r] = "discard" \/ DiscardCorrupt(r) \/ Crash
<1>1. pc \in [Ops -> PCs]
  BY DEF IInv, TypeOK
<1>2. ASSUME NEW o \in Stores, Store(o)
      PROVE  pc'[r] = "discard"
  BY <1>1, <1>2 DEF Store, LockStoreKey, BeginReservation, StageBody, StageBodyEnds, RenameBody, GoTo
<1>3. ASSUME NEW o \in Ops, Write(o)
      PROVE  pc'[r] = "discard"
  BY <1>1, <1>3, Zenon DEF Write, StageHeader, StageHeaderEnds, LockPublish, RenameHeader, TrackEntry,
     DiscardPrepared, GoTo
<1>4. ASSUME NEW o \in Readers, Retrieve(o), ~DiscardCorrupt(r)
      PROVE  pc'[r] = "discard"
  BY <1>1, <1>4 DEF Retrieve, LockRetrieveKey, LockRetrievePublish, EntryGeneration, OpenBody,
     ReadHeader, HeaderRecord, HeaderBody, LockCorruptKey, LockCorruptPublish, DiscardCorrupt, GoTo
<1>5. ASSUME NEW o \in Readers, Freshen(o) \/ CloseResource(o)
      PROVE  pc'[r] = "discard"
  BY <1>1, <1>5 DEF Freshen, LockFreshenKey, FreshenReservation, FreshenChecks, CloseResource, GoTo
<1>6. CASE Evict
  BY <1>6 DEF Evict, EvictForAdmission, EvictBody, EvictHeader
<1>7. CASE UNCHANGED vars
  BY <1>7 DEF vars
<1> QED
  BY <1>2, <1>3, <1>4, <1>5, <1>6, <1>7 DEF Next

\* discardCorrupt leaves an entry that is in order alone: the header it compares
\* with is that of a body that was not, and such a body does not come back.
THEOREM DiscardsOnlyCorrupt == Spec => GoodEntrySurvives
<1>1. IInv /\ [Next]_vars =>
         [\A r \in Readers : (pc[r] = "discard" /\ Complete /\ Agree(body, header))
            => Complete' \/ pc'[r] = "discard"]_vars
  <2> SUFFICES ASSUME IInv, [Next]_vars, NEW r \in Readers, pc[r] = "discard", Complete,
                      Agree(body, header), pc'[r] # "discard"
               PROVE  Complete'
    OBVIOUS
  <2>1. CASE DiscardCorrupt(r)
    <3>1. /\ ReaderInv(have[r], "discard") /\ Role(r, "discard") /\ (tied => ~integrity)
      BY DEF IInv
    <3>2. integrity /\ ~tied /\ have[r].header # None /\ Known(have[r])
          /\ ~Agree(body, have[r].header) /\ body # None
      BY <3>1 DEF Role, ReaderInv, Complete
    <3>3. ~SameRecord(r)
      <4>1. ASSUME header # None, header.by = have[r].header.by
            PROVE  FALSE
        BY <3>2, <4>1 DEF Known, Agree
      <4> QED
        BY <3>2, <4>1 DEF SameRecord, Fingerprint
    <3>4. UNCHANGED files
      BY <2>1, <3>3 DEF DiscardCorrupt
    <3> QED
      BY <3>4 DEF Complete, Terminated
  <2>2. CASE Crash
    BY <2>2 DEF Crash, Complete, Terminated
  <2> QED
    BY <2>1, <2>2, DiscardEnds
<1> QED
  BY <1>1, GenerationInvariant, PTL DEF Spec, GoodEntrySurvives

=============================================================================
