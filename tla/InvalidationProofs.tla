------------------------- MODULE InvalidationProofs -------------------------
(***************************************************************************)
(* Proofs about modules Invalidation and Lookup, for every set of keys,    *)
(* writers, callers and readers, every clock bound, retention and set of   *)
(* events.  A lookup only takes steps of the cache's readers, so that the  *)
(* invariant of the cache carries over to it.                              *)
(***************************************************************************)
EXTENDS Lookup, TLAPS

\* A leaf without a prover of its own is tried with Zenon, then several times with SMT.
USE ZenonT(4), SMTT(6), SMTT(7), SMTT(8), SMTT(9), SMTT(10)

USE ConstantsAssumption

\* What an interrupted or completed publication leaves is a pair.
LEMMA LeftoversType ==
    ASSUME TypeOK, NEW o \in Writers, NEW k \in Keys
    PROVE  NewFile(o) \in File /\ Leftovers(o, k) \subseteq File
<1>1. op[o] \in Op /\ file[k] \in File
  BY DEF TypeOK
<1>2. NewFile(o) \in File
  BY <1>1 DEF NewFile, Op, File
<1>3. [NewFile(o) EXCEPT !.at = file[k].at] \in File
  BY <1>1 DEF NewFile, Op, File
<1> QED
  BY <1>1, <1>2, <1>3 DEF Leftovers

\* A crash leaves a pair under every key.
LEMMA CrashFilesType ==
    ASSUME TypeOK, NEW k \in Keys
    PROVE  CrashFiles(k) \subseteq File
<1>1. file[k] \in File
  BY DEF TypeOK
<1> QED
  BY <1>1, LeftoversType DEF CrashFiles, Publishing

\* Removing pairs and evicting leave a map of pairs.
LEMMA WithoutType ==
    ASSUME TypeOK, NEW K
    PROVE  Without(K) \in [Keys -> File]
  BY DEF TypeOK, Without, NoFile, File

\* Forgiving a request changes only its history flag.
LEMMA ForgiveType ==
    ASSUME TypeOK, NEW K
    PROVE  Forgive(K) \in [Writers -> Op]
  BY Zenon DEF TypeOK, Forgive, Op

\* Every step of a writer preserves the types.
LEMMA WriterType ==
    ASSUME TypeOK, NEW o \in Writers, WriterStep(o)
    PROVE  TypeOK'
<1>0. op[o] \in Op /\ NoOp \in Op
  BY DEF TypeOK, Op, NoOp
<1>1. ASSUME NEW k \in Keys, FetchStart(o, k) PROVE TypeOK'
  BY <1>0, <1>1, Zenon DEF TypeOK, FetchStart, Op, NoOp, world, markers
<1>2. ASSUME NEW k \in Keys, HoldForValidation(o, k) PROVE TypeOK'
  <2>1. file[k] \in File
    BY DEF TypeOK
  <2> QED BY <1>0, <1>2, <2>1, Zenon DEF TypeOK, HoldForValidation, Op, NoOp, File, world, markers
<1>3. CASE FetchAnswer(o)
  BY <1>0, <1>3, Zenon DEF TypeOK, FetchAnswer, Op, PendingPC, world, markers
<1>4. CASE ValidateStart(o)
  BY <1>0, <1>4, Zenon DEF TypeOK, ValidateStart, Op, world, markers
<1>5. CASE ValidateAnswer(o)
  BY <1>0, <1>5, Zenon DEF TypeOK, ValidateAnswer, Op, PendingPC, world, markers
<1>60. CASE StoreEnter(o)
  BY <1>0, <1>60 DEF TypeOK, StoreEnter, Op, PendingPC, world, markers
<1>6. CASE StoreCheck(o)
  BY <1>0, <1>6 DEF TypeOK, StoreCheck, Done, Op, LockedPC, world, markers
<1>7. CASE StoreStamp(o)
  BY <1>0, <1>7, Zenon DEF TypeOK, StoreStamp, Op, LockedPC, world, markers
<1>8. CASE StorePrepare(o)
  BY <1>0, <1>8, WithoutType DEF TypeOK, StorePrepare, EvictSome, Op, LockedPC, world, markers
<1>9. CASE StoreFail(o)
  BY <1>0, <1>9 DEF TypeOK, StoreFail, Done, world, markers
<1>10. CASE StoreCommit(o)
  BY <1>0, <1>10, LeftoversType DEF TypeOK, StoreCommit, Done, world, markers
<1>11. CASE StoreDiscard(o)
  <2>1. file' \in [Keys -> File]
    BY <1>11, LeftoversType DEF TypeOK, StoreDiscard, NoFile, File
  <2>2. stale' \in [Keys -> Nat]
    BY <1>11 DEF TypeOK, StoreDiscard
  <2>3. disk' \in [Keys -> Nat] /\ durable' \in [Keys -> Nat] /\ promised' \in [Keys -> Nat]
    BY <1>11, <2>2 DEF TypeOK, StoreDiscard, Persist
  <2> QED BY <1>0, <1>11, <2>1, <2>2, <2>3 DEF TypeOK, StoreDiscard, Done, world
<1>12. CASE FreshenCheck(o)
  BY <1>0, <1>12 DEF TypeOK, FreshenCheck, Done, Op, LockedPC, world, markers
<1>13. CASE FreshenStamp(o)
  BY <1>0, <1>13, Zenon DEF TypeOK, FreshenStamp, Op, LockedPC, world, markers
<1>131. CASE FreshenRefuse(o)
  BY <1>0, <1>131 DEF TypeOK, FreshenRefuse, Done, world, markers
<1>132. CASE FreshenMismatch(o)
  <2>1. op' \in [Writers -> Op]
    BY <1>0, <1>132 DEF TypeOK, FreshenMismatch, Op, PendingPC
  <2>2. call' \in [Callers -> Call]
    BY <1>0, <1>132, Zenon DEF TypeOK, FreshenMismatch, Op, Call
  <2> QED BY <1>132, <2>1, <2>2 DEF TypeOK, FreshenMismatch, world, markers
<1>14. CASE FreshenPrepare(o)
  <2>1. op' \in [Writers -> Op]
    BY <1>0, <1>14 DEF TypeOK, FreshenPrepare, Done, Op, LockedPC
  <2> QED BY <1>14, <2>1, WithoutType DEF TypeOK, FreshenPrepare, EvictSome, world, markers
<1>15. CASE FreshenCommit(o)
  <2>1. op[o].key \in Keys
    BY <1>0 DEF Op
  <2> QED BY <1>0, <1>15, <2>1, LeftoversType DEF TypeOK, FreshenCommit, Op, PendingPC, world, markers
<1>16. CASE FreshenFail(o)
  <2>1. op[o].key \in Keys
    BY <1>0 DEF Op
  <2> QED BY <1>0, <1>16, <2>1, LeftoversType, WithoutType DEF TypeOK, FreshenFail, Done, world, markers
<1>17. CASE ServeValidated(o)
  <2>1. op' \in [Writers -> Op]
    <3>1. [op[o] EXCEPT !.pc = "served"] \in Op
      BY <1>0 DEF Op
    <3> QED BY <1>0, <1>17, <3>1 DEF TypeOK, ServeValidated, Done
  <2> QED BY <1>17, <2>1 DEF TypeOK, ServeValidated, world, markers
<1>18. CASE Return(o)
  BY <1>0, <1>18 DEF TypeOK, Return, Done, world, markers
<1> QED
  BY <1>1, <1>2, <1>3, <1>4, <1>5, <1>60, <1>6, <1>7, <1>8, <1>9, <1>10, <1>11, <1>12, <1>13,
     <1>131, <1>132, <1>14, <1>15, <1>16, <1>17, <1>18 DEF WriterStep

\* Every step of Invalidate, Retrieve, Cleanup, Purge, of the clock and of the
\* origin, and a restart, preserve the types.
LEMMA OtherType ==
    ASSUME TypeOK,
           \/ Tick \/ Mutate \/ SweepStep \/ PurgeStep \/ Restart
           \/ \E c \in Callers : CallStep(c)
           \/ \E r \in Readers : ReaderStep(r)
    PROVE  TypeOK'
<1>1. CASE Tick
  BY <1>1 DEF TypeOK, Tick, markers, actors
<1>2. CASE Mutate
  BY <1>2 DEF TypeOK, Mutate, markers, actors
<1>3. ASSUME NEW c \in Callers, CallStep(c) PROVE TypeOK'
  <2>0. call[c] \in Call /\ NoCall \in Call
    BY DEF TypeOK, Call, NoCall
  <2>1. ASSUME NEW K \in SUBSET Keys, InvalidateBarrier(c, K) PROVE TypeOK'
    <3>1. stale' \in [Keys -> Nat] /\ promised' \in [Keys -> Nat]
      BY <2>1 DEF TypeOK, InvalidateBarrier, Mark
    <3>2. disk' \in [Keys -> Nat] /\ durable' \in [Keys -> Nat]
      BY <2>1, <3>1 DEF TypeOK, InvalidateBarrier, Persist
    <3>3. call' \in [Callers -> Call]
      BY <2>1 DEF TypeOK, InvalidateBarrier, Call
    <3> QED BY <2>1, <3>1, <3>2, <3>3 DEF TypeOK, InvalidateBarrier, world
  <2>2. CASE InvalidateLock(c)
    BY <2>0, <2>2 DEF TypeOK, InvalidateLock, Call, world, markers
  <2>3. CASE InvalidateFinal(c)
    <3>1. stale' \in [Keys -> Nat]
      BY <2>3 DEF TypeOK, InvalidateFinal, Mark
    <3>2. disk' \in [Keys -> Nat] /\ durable' \in [Keys -> Nat] /\ promised' \in [Keys -> Nat]
      BY <2>3, <3>1 DEF TypeOK, InvalidateFinal, Persist
    <3> QED BY <2>0, <2>3, <3>1, <3>2 DEF TypeOK, InvalidateFinal, world
  <2> QED BY <1>3, <2>1, <2>2, <2>3 DEF CallStep
<1>4. ASSUME NEW r \in Readers, ReaderStep(r) PROVE TypeOK'
  <2>0. reader[r] \in Read /\ NoRead \in Read
    BY DEF TypeOK, Read, NoRead
  <2>1. ASSUME NEW k \in Keys, RetrieveOpen(r, k) PROVE TypeOK'
    <3>1. file[k] \in File /\ promised[k] \in Nat
      BY DEF TypeOK
    <3> QED BY <2>1, <3>1 DEF TypeOK, RetrieveOpen, Read, File, world, markers
  <2>2. CASE RetrieveJudge(r)
    <3>1. Superseded(reader[r].at, reader[r].key) \in BOOLEAN
      BY DEF Superseded
    <3>2. reader' \in [Readers -> Read]
      BY <2>0, <2>2, <3>1, Zenon DEF TypeOK, RetrieveJudge, Read
    <3> QED BY <2>2, <3>2 DEF TypeOK, RetrieveJudge, world, markers
  <2>3. CASE RetrieveReturn(r)
    BY <2>0, <2>3 DEF TypeOK, RetrieveReturn, world, markers
  <2> QED BY <1>4, <2>1, <2>2, <2>3 DEF ReaderStep
<1>5. CASE SweepStep
  <2>1. CASE CleanupStart
    BY <2>1 DEF TypeOK, CleanupStart, Sweep, world, markers
  <2>2. CASE CleanupTTLExpired
    <3>1. file' \in [Keys -> File]
      BY <2>2, WithoutType DEF TypeOK, CleanupTTLExpired
    <3>2. sweep' \in Sweep
      BY <2>2 DEF TypeOK, CleanupTTLExpired, Sweep
    <3> QED BY <2>2, <3>1, <3>2 DEF TypeOK, CleanupTTLExpired, world, markers
  <2>3. CASE CleanupMarkers
    <3>1. stale' \in [Keys -> Nat]
      BY <2>3 DEF TypeOK, CleanupMarkers, Mark
    <3>2. disk' \in [Keys -> Nat] /\ durable' \in [Keys -> Nat] /\ promised' \in [Keys -> Nat]
      BY <2>3, <3>1 DEF TypeOK, CleanupMarkers, Persist
    <3>3. op' \in [Writers -> Op] /\ sweep' \in Sweep
      BY <2>3, ForgiveType DEF TypeOK, CleanupMarkers, Sweep
    <3> QED BY <2>3, <3>1, <3>2, <3>3 DEF TypeOK, CleanupMarkers, world
  <2>4. CASE CleanupMaxSize
    BY <2>4, WithoutType DEF TypeOK, CleanupMaxSize, EvictSome, Sweep, NoSweep, world, markers
  <2> QED BY <1>5, <2>1, <2>2, <2>3, <2>4 DEF SweepStep
<1>6. CASE PurgeStep
  <2>1. CASE PurgeLock
    BY <2>1 DEF TypeOK, PurgeLock, world, markers
  <2>2. CASE PurgeDrain
    BY <2>2 DEF TypeOK, PurgeDrain, world, markers
  <2>3. CASE PurgeRun
    <3>1. stale' \in [Keys -> Nat]
      BY <2>3 DEF TypeOK, PurgeRun, Mark, markers
    <3>2. disk' \in [Keys -> Nat] /\ durable' \in [Keys -> Nat] /\ promised' \in [Keys -> Nat]
      BY <2>3, <3>1 DEF TypeOK, PurgeRun, Persist, markers
    <3>3. op' \in [Writers -> Op] /\ file' \in [Keys -> File]
      BY <2>3, ForgiveType, WithoutType DEF TypeOK, PurgeRun
    <3> QED BY <2>3, <3>1, <3>2, <3>3, Zenon DEF TypeOK, PurgeRun, world
  <2> QED BY <1>6, <2>1, <2>2, <2>3 DEF PurgeStep
<1>7. CASE Restart
  <2>1. file' \in [Keys -> File]
    BY <1>7, CrashFilesType DEF Restart
  <2>2. stale' \in [Keys -> Nat] /\ promised' \in [Keys -> Nat]
    BY <1>7 DEF TypeOK, Restart
  <2>3. disk' \in [Keys -> Nat] /\ durable' \in [Keys -> Nat]
    BY <1>7, <2>2 DEF TypeOK, Restart, Persist
  <2>4. /\ op' \in [Writers -> Op] /\ call' \in [Callers -> Call]
        /\ reader' \in [Readers -> Read] /\ sweep' \in Sweep
    BY <1>7 DEF Restart, Op, NoOp, Call, NoCall, Read, NoRead, Sweep, NoSweep
  <2> QED BY <1>7, <2>1, <2>2, <2>3, <2>4 DEF TypeOK, Restart, world
<1> QED
  BY <1>1, <1>2, <1>3, <1>4, <1>5, <1>6, <1>7

\* Every reachable state is well typed: no operation of the cache leaves its
\* files, markers, ledgers of requests or lock holders outside their types.
THEOREM TypeCorrect == Spec => []TypeOK
<1>1. Init => TypeOK
  BY DEF Init, TypeOK, NoFile, File, NoOp, Op, NoCall, Call, NoRead, Read, NoSweep, Sweep
<1>2. TypeOK /\ [Next]_vars => TypeOK'
  <2> SUFFICES ASSUME TypeOK, [Next]_vars PROVE TypeOK'
    OBVIOUS
  <2>1. CASE UNCHANGED vars
    BY <2>1 DEF TypeOK, vars
  <2>2. CASE Next
    BY <2>2, WriterType, OtherType DEF Next, Background
  <2> QED BY <2>1, <2>2
<1> QED
  BY <1>1, <1>2, PTL DEF Spec

-----------------------------------------------------------------------------
(***************************************************************************)
(* The inductive invariant.                                                *)
(***************************************************************************)

\* No pair at all needs no marker.
LEMMA AbsentCovered ==
    ASSUME IInv, NEW k \in Keys
    PROVE  PairCovered(k, NoFile)
  BY DEF IInv, TypeOK, MarkerInv, PairCovered, MarkerCovers, Governing, Outdated, NoFile

\* A body published by a writer past its check is covered: had an Invalidate
\* overtaken the writer, its barrier would still stand.
LEMMA PublishedCovered ==
    ASSUME IInv, NEW o \in Writers, op[o].pc \in LockedPC, NEW h \in OpKeys(o),
           NEW f \in File, f.ver = op[o].ver, f.late = op[o].late, f.at <= now
    PROVE  PairCovered(h, f)
<1> SUFFICES ASSUME NEW k \in Governing(h) PROVE MarkerCovers(k, f)
  BY DEF PairCovered
<1>1. op[o] \in Op /\ k \in Keys /\ k \in OpKeys(o)
  BY DEF IInv, TypeOK, Op, OpKeys, Governing
<1>2. /\ ~op[o].late /\ op[o].ver < promised[k] => stale[k] = Barrier
      /\ ~op[o].late /\ op[o].ver < durable[k] => disk[k] = Barrier
  BY DEF IInv, RequestCovered, Governing, OpKeys
<1>3. f.at <= Barrier /\ sweep.start <= Barrier
  BY DEF IInv, TypeOK, MarkerInv, File, Sweep
<1> QED
  BY <1>1, <1>2, <1>3 DEF MarkerCovers, Outdated

\* What an interrupted or completed publication leaves is covered.
LEMMA LeftoversCovered ==
    ASSUME IInv, NEW o \in Writers, op[o].pc \in LockedPC, NEW k \in OpKeys(o)
    PROVE  /\ PairCovered(k, NewFile(o))
           /\ \A f \in Leftovers(o, k) : PairCovered(k, f)
<1>1. op[o] \in Op /\ k \in Keys /\ file[k] \in File
  BY DEF IInv, TypeOK, Op, OpKeys, Governing
<1>2. op[o].at <= now /\ file[k].at <= now /\ PairCovered(k, file[k])
  BY <1>1 DEF IInv, RequestCovered, PairCovered, MarkerCovers, Governing
<1>3. PairCovered(k, NewFile(o))
  <2>1. NewFile(o) \in File
    BY <1>1, LeftoversType DEF IInv
  <2> QED BY <1>2, <2>1, PublishedCovered DEF NewFile
<1>4. PairCovered(k, [NewFile(o) EXCEPT !.at = file[k].at])
  <2> DEFINE f == [NewFile(o) EXCEPT !.at = file[k].at]
  <2>1. f \in File /\ f.ver = op[o].ver /\ f.late = op[o].late /\ f.at = file[k].at
    BY <1>1 DEF NewFile, File, Op
  <2> QED BY <1>2, <2>1, PublishedCovered, Zenon
<1> QED
  BY <1>2, <1>3, <1>4 DEF Leftovers

\* Removing inactive pairs leaves every key covered.
LEMMA WithoutCovered ==
    ASSUME IInv, NEW K, NEW k \in Keys
    PROVE  PairCovered(k, Without(K)[k])
  BY AbsentCovered DEF IInv, Without

\* A step that leaves time and markers alone preserves the invariant if the new
\* pairs and the new requests are covered.
LEMMA WriterFrame ==
    ASSUME IInv, TypeOK', DrainInv', UNCHANGED <<world, markers, reader, sweep>>,
           \A k \in Keys : PairCovered(k, file'[k]),
           \A o \in Writers : RequestCovered(op'[o])
    PROVE  IInv'
<1>1. MarkerInv'
  BY DEF IInv, MarkerInv, world, markers
<1>2. \A k \in Keys : PairCovered(k, file[k])'
  BY DEF PairCovered, MarkerCovers, Governing, Outdated, world, markers
<1>3. \A o \in Writers : RequestCovered(op[o])'
  BY DEF RequestCovered, Governing, world, markers
<1>4. \A r \in Readers : ReadCovered(reader[r])'
  BY DEF IInv, ReadCovered, world, markers
<1> QED
  BY <1>1, <1>2, <1>3, <1>4 DEF IInv

\* The same for a step of one writer that changes no pair.
LEMMA RequestFrame ==
    ASSUME IInv, TypeOK', DrainInv', NEW o \in Writers, NEW p,
           UNCHANGED <<world, file, markers, reader, sweep>>,
           op' = [op EXCEPT ![o] = p], RequestCovered(p)
    PROVE  IInv'
<1>1. \A k \in Keys : PairCovered(k, file'[k])
  BY DEF IInv
<1>2. \A q \in Writers : RequestCovered(op'[q])
  BY DEF IInv, TypeOK
<1> QED
  BY <1>1, <1>2, WriterFrame

\* A step that only moves markers up to the present keeps everything covered.
LEMMA RaisedFrame ==
    ASSUME IInv, TypeOK', DrainInv', UNCHANGED <<now, origin, promised, reader, sweep>>,
           \A k \in Keys : stale'[k] = stale[k] \/ (stale[k] < now /\ stale'[k] = now),
           \/ UNCHANGED <<disk, durable>>
           \/ disk' = stale' /\ durable' = promised,
           \A k \in Keys : PairCovered(k, file'[k]),
           \A o \in Writers : RequestCovered(op'[o])
    PROVE  IInv'
<1>0. /\ now \in Nat /\ now < Barrier /\ sweep.start \in Nat /\ sweep.start <= now
      /\ \A k \in Keys : /\ stale[k] \in Nat /\ disk[k] \in Nat /\ promised[k] \in Nat
                         /\ durable[k] \in Nat /\ file'[k] \in File
      /\ \A r \in Readers : reader[r] \in Read
      /\ \A o \in Writers : op'[o] \in Op
  BY DEF IInv, TypeOK, MarkerInv, Sweep
<1>1. MarkerInv'
  BY <1>0 DEF IInv, MarkerInv
<1>2. ASSUME NEW k \in Keys PROVE PairCovered(k, file[k])'
  BY <1>0, <1>2 DEF PairCovered, MarkerCovers, Governing, Outdated, File
<1>3. ASSUME NEW o \in Writers PROVE RequestCovered(op[o])'
  <2>1. op'[o].key \in Keys /\ op'[o].req \in Nat
    BY <1>0 DEF Op
  <2> QED BY <1>0, <1>3, <2>1 DEF RequestCovered, Governing
<1>4. ASSUME NEW r \in Readers PROVE ReadCovered(reader[r])'
  <2>1. ReadCovered(reader[r]) /\ reader[r].key \in Keys /\ reader[r].at \in Nat
    BY <1>0 DEF IInv, Read
  <2> QED BY <1>0, <2>1 DEF ReadCovered
<1> QED
  BY <1>1, <1>2, <1>3, <1>4 DEF IInv

\* An ended request asks for nothing.
LEMMA IdleCovered ==
    ASSUME IInv
    PROVE  RequestCovered(NoOp)
  BY DEF IInv, TypeOK, MarkerInv, RequestCovered, Governing, NoOp, PendingPC, LockedPC

\* A writer's step leaves the other requests alone.
LEMMA WriterOwn ==
    ASSUME TypeOK, NEW o \in Writers, WriterStep(o), NEW w \in Writers, w # o
    PROVE  op'[w] = op[w]
  BY Zenon DEF TypeOK, WriterStep, FetchStart, HoldForValidation, FetchAnswer, ValidateStart,
         ValidateAnswer, StoreEnter, StoreCheck, StoreStamp, StorePrepare, StoreFail, StoreCommit,
         StoreDiscard, FreshenCheck, FreshenStamp, FreshenRefuse, FreshenMismatch,
         FreshenPrepare, FreshenCommit, FreshenFail, ServeValidated, Return, Done

\* No Store or Freshen takes generationMu while Purge holds it.
LEMMA WriterDrain ==
    ASSUME IInv, NEW o \in Writers, WriterStep(o)
    PROVE  DrainInv'
<1>1. \A w \in Writers \ {o} : op'[w] = op[w]
  BY WriterOwn DEF IInv
<1>2. purge' = purge
  BY Zenon DEF WriterStep, FetchStart, HoldForValidation, FetchAnswer, ValidateStart,
         ValidateAnswer, StoreEnter, StoreCheck, StoreStamp, StorePrepare, StoreFail, StoreCommit,
         StoreDiscard, FreshenCheck, FreshenStamp, FreshenRefuse, FreshenMismatch,
         FreshenPrepare, FreshenCommit, FreshenFail, ServeValidated, Return
<1>3. op[o] \in Op /\ o \in DOMAIN op
  BY DEF IInv, TypeOK
<1> DEFINE Inside == {"entered"} \cup LockedPC
<1>4. ASSUME op[o].pc \notin Inside, purge # "idle"
      PROVE  op'[o].pc \notin Inside
  <2>0. NoOp.pc = "idle"
    BY DEF NoOp
  <2>1. /\ ~StoreStamp(o) /\ ~StorePrepare(o) /\ ~StoreFail(o) /\ ~StoreCommit(o)
        /\ ~StoreDiscard(o) /\ ~FreshenStamp(o) /\ ~FreshenRefuse(o) /\ ~FreshenMismatch(o)
        /\ ~FreshenPrepare(o) /\ ~FreshenCommit(o) /\ ~FreshenFail(o) /\ ~StoreCheck(o)
    BY <1>4 DEF LockedPC, StoreCheck, StoreStamp, StorePrepare, StoreFail, StoreCommit, StoreDiscard,
       FreshenStamp, FreshenRefuse, FreshenMismatch, FreshenPrepare, FreshenCommit, FreshenFail
  <2>2. ~StoreEnter(o) /\ ~FreshenCheck(o)
    BY <1>4 DEF StoreEnter, FreshenCheck, GenerationWriterPending
  <2>3. ASSUME NEW k \in Keys, FetchStart(o, k) \/ HoldForValidation(o, k)
        PROVE  op'[o].pc \notin Inside
    BY <1>3, <2>3, Zenon DEF FetchStart, HoldForValidation, NoOp, LockedPC
  <2>4. CASE FetchAnswer(o) \/ ValidateStart(o) \/ ValidateAnswer(o)
    BY <1>3, <2>4 DEF FetchAnswer, ValidateStart, ValidateAnswer, Op, LockedPC
  <2>5. CASE ServeValidated(o) \/ Return(o)
    BY <1>3, <2>0, <2>5 DEF ServeValidated, Return, Done, Op, LockedPC
  <2> QED BY <2>1, <2>2, <2>3, <2>4, <2>5, Zenon DEF WriterStep
<1> QED
  BY <1>1, <1>2, <1>4 DEF IInv, DrainInv, GenerationReaders

\* Every step of a request, of Store and of Freshen preserves the invariant.
LEMMA WriterInv ==
    ASSUME IInv, NEW o \in Writers, WriterStep(o)
    PROVE  IInv'
<1> DEFINE P == op[o]
<1>0. /\ P \in Op /\ RequestCovered(P) /\ TypeOK /\ TypeOK' /\ MarkerInv /\ DrainInv'
      /\ now \in Nat /\ origin \in Nat
  BY WriterType, WriterDrain DEF IInv, TypeOK
<1>01. \A k \in Keys : promised[k] \in Nat /\ stale[k] \in Nat /\ promised[k] <= origin
  BY Zenon DEF IInv, TypeOK, MarkerInv
<1>02. P.key \in Keys /\ P.req \in Nat /\ P.ver \in Nat
  BY <1>0 DEF Op
<1>1. ASSUME NEW k \in Keys, FetchStart(o, k) PROVE IInv'
  <2> DEFINE p == [NoOp EXCEPT !.pc = "fetch", !.key = k, !.req = now]
  <2>1. RequestCovered(p)
    BY <1>0 DEF RequestCovered, Governing, NoOp, PendingPC, LockedPC
  <2> QED BY <1>0, <1>1, <2>1, RequestFrame, Zenon DEF FetchStart
<1>2. ASSUME NEW k \in Keys, HoldForValidation(o, k) PROVE IInv'
  <2> DEFINE p == [NoOp EXCEPT !.pc = "held", !.key = k, !.ver = file[k].ver, !.at = file[k].at]
  <2>1. file[k].at <= now
    BY DEF IInv, PairCovered, MarkerCovers, Governing
  <2>2. RequestCovered(p)
    BY <1>0, <2>1 DEF RequestCovered, Governing, NoOp, PendingPC, LockedPC
  <2> QED BY <1>0, <1>2, <2>2, RequestFrame, Zenon DEF HoldForValidation
<1>3. CASE FetchAnswer(o)
  <2> DEFINE p == [P EXCEPT !.pc = "ready", !.ver = origin]
  <2>1. /\ p.pc = "ready" /\ p.ver = origin /\ p.req = P.req /\ p.at = P.at /\ p.key = P.key
        /\ op' = [op EXCEPT ![o] = p]
    BY <1>0, <1>3, Zenon DEF FetchAnswer, Op
  <2>2. RequestCovered(p)
    BY <1>0, <1>01, <1>02, <2>1 DEF RequestCovered, Governing, PendingPC, LockedPC
  <2> QED BY <1>0, <1>3, <2>1, <2>2, RequestFrame, Zenon DEF FetchAnswer
<1>4. CASE ValidateStart(o)
  <2> DEFINE p == [P EXCEPT !.pc = "validate", !.req = now]
  <2>1. /\ p.pc = "validate" /\ p.req = now /\ p.at = P.at /\ op' = [op EXCEPT ![o] = p]
    BY <1>0, <1>4, Zenon DEF ValidateStart, Op
  <2>2. RequestCovered(p)
    BY <1>0, <2>1 DEF RequestCovered, Governing, PendingPC, LockedPC
  <2> QED BY <1>0, <1>4, <2>1, <2>2, RequestFrame, Zenon DEF ValidateStart
<1>5. CASE ValidateAnswer(o)
  <2> DEFINE p == [P EXCEPT !.pc = IF P.ver = origin THEN "validated" ELSE "ready", !.ver = origin]
  <2>1. /\ p.pc \in {"validated", "ready"} /\ p.ver = origin /\ p.req = P.req /\ p.at = P.at
        /\ p.key = P.key /\ op' = [op EXCEPT ![o] = p]
    BY <1>0, <1>5, Zenon DEF ValidateAnswer, Op
  <2>2. RequestCovered(p)
    BY <1>0, <1>01, <1>02, <2>1 DEF RequestCovered, Governing, PendingPC, LockedPC
  <2> QED BY <1>0, <1>5, <2>1, <2>2, RequestFrame, Zenon DEF ValidateAnswer
<1>6. ASSUME NEW c \in {"checked", "renewing"}, P.pc \in {"entered", "validated"},
             ~\E k \in OpKeys(o) : Superseded(P.req, k)
      PROVE  RequestCovered([P EXCEPT !.pc = c])
  \* The check passed: the body is not older than any promise for its keys.
  <2>1. \A k \in Governing(P.key) : ~P.late => ~(P.ver < promised[k])
    BY <1>0, <1>6 DEF RequestCovered, Governing, PendingPC, OpKeys, Governing, Superseded
  <2>2. \A k \in Governing(P.key) : ~P.late => ~(P.ver < durable[k])
    <3>1. P.ver \in Nat /\ \A k \in Governing(P.key) :
             promised[k] \in Nat /\ durable[k] \in Nat /\ durable[k] <= promised[k]
      BY <1>0 DEF IInv, TypeOK, MarkerInv, Governing, Op
    <3> QED BY <2>1, <3>1
  <2> QED BY <1>0, <2>1, <2>2 DEF RequestCovered, Governing, PendingPC, LockedPC, Op
<1>7. ASSUME NEW c \in LockedPC, NEW t \in Nat, t <= now, P.pc \in LockedPC
      PROVE  RequestCovered([P EXCEPT !.pc = c, !.at = t])
  BY <1>0, <1>7 DEF RequestCovered, Governing, PendingPC, LockedPC, Op
<1>8. ASSUME NEW c \in LockedPC, P.pc \in LockedPC
      PROVE  RequestCovered([P EXCEPT !.pc = c])
  BY <1>0, <1>8 DEF RequestCovered, Governing, PendingPC, LockedPC, Op
<1>90. CASE StoreEnter(o)
  <2>1. RequestCovered([P EXCEPT !.pc = "entered"])
    BY <1>0, <1>90 DEF StoreEnter, RequestCovered, Governing, PendingPC, LockedPC, Op
  <2> QED BY <1>0, <1>90, <2>1, RequestFrame, Zenon DEF StoreEnter
<1>9. CASE StoreCheck(o)
  BY <1>0, <1>6, <1>9, RequestFrame, IdleCovered DEF StoreCheck, Done
<1>10. CASE StoreStamp(o)
  <2>0. "stamped" \in LockedPC /\ P.pc \in LockedPC /\ now \in Nat /\ now <= now
    BY <1>0, <1>10 DEF StoreStamp, LockedPC
  <2>1. RequestCovered([P EXCEPT !.pc = "stamped", !.at = now])
    BY <1>7, <2>0, Zenon
  <2> QED BY <1>0, <1>10, <2>1, RequestFrame, Zenon DEF StoreStamp
<1>11. CASE FreshenCheck(o)
  BY <1>0, <1>6, <1>11, RequestFrame, IdleCovered DEF FreshenCheck, Done
<1>12. CASE FreshenStamp(o)
  <2>0. "renewed" \in LockedPC /\ P.pc \in LockedPC /\ now \in Nat /\ now <= now
    BY <1>0, <1>12 DEF FreshenStamp, LockedPC
  <2>1. RequestCovered([P EXCEPT !.pc = "renewed", !.at = now])
    BY <1>7, <2>0, Zenon
  <2> QED BY <1>0, <1>12, <2>1, RequestFrame, Zenon DEF FreshenStamp
<1>121. CASE FreshenRefuse(o)
  BY <1>0, <1>121, RequestFrame, IdleCovered, Zenon DEF FreshenRefuse, Done
<1>122. CASE FreshenMismatch(o)
  <2>1. RequestCovered([P EXCEPT !.pc = "freshened"])
    BY <1>0, <1>02, <1>122 DEF FreshenMismatch, RequestCovered, Governing, MarkerInv, PendingPC, LockedPC, Op
  <2> QED BY <1>0, <1>122, <2>1, RequestFrame, Zenon DEF FreshenMismatch
<1>13. CASE ServeValidated(o)
  <2>1. RequestCovered([P EXCEPT !.pc = "served"])
    BY <1>0 DEF RequestCovered, Governing, PendingPC, LockedPC, Op
  <2> QED BY <1>0, <1>13, <2>1, RequestFrame, IdleCovered DEF ServeValidated, Done
<1>14. CASE Return(o)
  BY <1>0, <1>14, RequestFrame, IdleCovered, Zenon DEF Return, Done
<1>15. ASSUME NEW q, op' = [op EXCEPT ![o] = q], RequestCovered(q)
       PROVE  \A w \in Writers : RequestCovered(op'[w])
  BY <1>15 DEF IInv, TypeOK
<1>16. CASE StorePrepare(o)
  <2>1. \A k \in Keys : PairCovered(k, file'[k])
    BY <1>16, WithoutCovered DEF StorePrepare, EvictSome
  <2>2. \A w \in Writers : RequestCovered(op'[w])
    BY <1>8, <1>15, <1>16, Zenon DEF StorePrepare, LockedPC
  <2> QED BY <1>0, <1>16, <2>1, <2>2, WriterFrame DEF StorePrepare
<1>17. CASE StoreFail(o)
  BY <1>0, <1>17, RequestFrame, IdleCovered, Zenon DEF StoreFail, Done
<1>18. CASE StoreCommit(o)
  <2>1. \A k \in Keys : PairCovered(k, file'[k])
    BY <1>18, LeftoversCovered DEF IInv, StoreCommit, LockedPC
  <2>2. \A w \in Writers : RequestCovered(op'[w])
    BY <1>15, <1>18, IdleCovered, Zenon DEF StoreCommit, Done
  <2> QED BY <1>0, <1>18, <2>1, <2>2, WriterFrame DEF StoreCommit
<1>19. CASE FreshenPrepare(o)
  <2>1. \A k \in Keys : PairCovered(k, file'[k])
    BY <1>19, WithoutCovered DEF FreshenPrepare, EvictSome
  <2>2. \A w \in Writers : RequestCovered(op'[w])
    BY <1>8, <1>15, <1>19, IdleCovered DEF FreshenPrepare, Done, LockedPC
  <2> QED BY <1>0, <1>19, <2>1, <2>2, WriterFrame DEF FreshenPrepare
<1>20. CASE FreshenCommit(o)
  <2>1. \A k \in Keys : PairCovered(k, file'[k])
    BY <1>0, <1>02, <1>20, LeftoversCovered DEF IInv, TypeOK, FreshenCommit, LockedPC, OpKeys, Governing
  <2>2. RequestCovered([P EXCEPT !.pc = "freshened"])
    BY <1>0, <1>02, <1>20 DEF FreshenCommit, RequestCovered, Governing, MarkerInv, PendingPC, LockedPC, Op
  <2>3. \A w \in Writers : RequestCovered(op'[w])
    BY <1>15, <1>20, <2>2, Zenon DEF FreshenCommit
  <2> QED BY <1>0, <1>20, <2>1, <2>3, WriterFrame DEF FreshenCommit
<1>21. CASE FreshenFail(o)
  <2>1. \A k \in Keys : PairCovered(k, file'[k])
    BY <1>0, <1>02, <1>21, LeftoversCovered, WithoutCovered
       DEF IInv, TypeOK, FreshenFail, LockedPC, OpKeys, Governing
  <2>2. \A w \in Writers : RequestCovered(op'[w])
    BY <1>15, <1>21, IdleCovered, Zenon DEF FreshenFail, Done
  <2> QED BY <1>0, <1>21, <2>1, <2>2, WriterFrame DEF FreshenFail
<1>22. CASE StoreDiscard(o)
  <2>1. \A k \in Keys : PairCovered(k, file'[k])
    BY <1>22, LeftoversCovered, AbsentCovered DEF IInv, StoreDiscard, RemovalFailures, LockedPC
  <2>2. \A w \in Writers : RequestCovered(op'[w])
    BY <1>15, <1>22, IdleCovered, Zenon DEF StoreDiscard, Done
  <2>3. \A k \in Keys : stale'[k] = stale[k] \/ (stale[k] < now /\ stale'[k] = now)
    BY <1>22 DEF StoreDiscard, IInv, TypeOK
  <2>4. \/ UNCHANGED <<disk, durable>>
        \/ disk' = stale' /\ durable' = promised
    BY <1>22 DEF StoreDiscard, Persist
  <2> QED BY <1>0, <1>22, <2>1, <2>2, <2>3, <2>4, RaisedFrame DEF StoreDiscard, world
<1> QED
  BY <1>1, <1>2, <1>3, <1>4, <1>5, <1>90, <1>9, <1>10, <1>11, <1>12, <1>121, <1>122, <1>13,
     <1>14, <1>16, <1>17,
     <1>18, <1>19, <1>20, <1>21, <1>22 DEF WriterStep

\* Both halves of Invalidate preserve the invariant.
LEMMA CallInv ==
    ASSUME IInv, NEW c \in Callers, CallStep(c)
    PROVE  IInv'
<1>0. TypeOK /\ TypeOK' /\ MarkerInv /\ DrainInv'
  BY OtherType, Zenon DEF IInv, DrainInv, GenerationReaders, CallStep, InvalidateBarrier, InvalidateLock,
     InvalidateFinal
<1>01. /\ now \in Nat /\ 1 <= now /\ now < Barrier /\ sweep.start \in Nat /\ sweep.start <= now
       /\ \A k \in Keys : /\ stale[k] \in Nat /\ disk[k] \in Nat /\ promised[k] \in Nat
                          /\ durable[k] \in Nat /\ file[k] \in File /\ origin \in Nat
       /\ \A r \in Readers : reader[r].key \in Keys /\ reader[r].at \in Nat
       /\ \A o \in Writers : op[o].key \in Keys /\ op[o].req \in Nat /\ op[o].ver \in Nat
  BY <1>0 DEF TypeOK, MarkerInv, Sweep, Read, Op
<1>02. /\ \A k \in Keys : PairCovered(k, file[k])
       /\ \A o \in Writers : RequestCovered(op[o])
       /\ \A r \in Readers : ReadCovered(reader[r])
  BY DEF IInv
<1>1. ASSUME NEW K \in SUBSET Keys, InvalidateBarrier(c, K) PROVE IInv'
  <2>1. /\ UNCHANGED <<now, origin, file, op, reader, sweep>>
        /\ \A k \in Keys : IF k \in K THEN stale'[k] = Barrier /\ promised'[k] = origin
                           ELSE stale'[k] = stale[k] /\ promised'[k] = promised[k]
        /\ \/ UNCHANGED <<disk, durable>>
           \/ disk' = stale' /\ durable' = promised'
    BY <1>1 DEF InvalidateBarrier, Mark, Persist, world
  <2>2. MarkerInv'
    BY <1>0, <1>01, <2>1 DEF MarkerInv
  <2>3. ASSUME NEW k \in Keys PROVE PairCovered(k, file[k])'
    BY <1>01, <1>02, <2>1 DEF PairCovered, MarkerCovers, Governing, Outdated, File
  <2>4. ASSUME NEW o \in Writers PROVE RequestCovered(op[o])'
    BY <1>01, <1>02, <2>1 DEF RequestCovered, Governing
  <2>5. ASSUME NEW r \in Readers PROVE ReadCovered(reader[r])'
    BY <1>01, <1>02, <2>1 DEF ReadCovered
  <2> QED BY <1>0, <2>2, <2>3, <2>4, <2>5 DEF IInv
<1>2. CASE InvalidateLock(c)
  BY <1>0, <1>02, <1>2, WriterFrame DEF InvalidateLock
<1>3. CASE InvalidateFinal(c)
  <2>1. /\ UNCHANGED <<now, origin, file, op, reader, sweep, promised>>
        /\ \A k \in Keys : stale'[k] = now \/ stale'[k] = stale[k]
        /\ \/ UNCHANGED <<disk, durable>>
           \/ disk' = stale' /\ durable' = promised'
        /\ \A o \in Writers : op[o].pc \notin LockedPC
    BY <1>0, <1>3 DEF InvalidateFinal, Mark, Persist, world, GenerationReaders, TypeOK
  <2>2. MarkerInv'
    BY <1>0, <1>01, <2>1 DEF MarkerInv
  <2>3. ASSUME NEW k \in Keys PROVE PairCovered(k, file[k])'
    BY <1>01, <1>02, <2>1 DEF PairCovered, MarkerCovers, Governing, Outdated, File
  <2>4. ASSUME NEW o \in Writers PROVE RequestCovered(op[o])'
    BY <1>01, <1>02, <2>1 DEF RequestCovered, Governing
  <2>5. ASSUME NEW r \in Readers PROVE ReadCovered(reader[r])'
    BY <1>01, <1>02, <2>1 DEF ReadCovered
  <2> QED BY <1>0, <2>2, <2>3, <2>4, <2>5 DEF IInv
<1> QED
  BY <1>1, <1>2, <1>3 DEF CallStep

\* Retrieve preserves the invariant.
LEMMA ReaderInv ==
    ASSUME IInv, NEW r \in Readers, ReaderStep(r)
    PROVE  IInv'
<1>0. /\ TypeOK /\ TypeOK' /\ MarkerInv /\ DrainInv' /\ reader[r] \in Read
      /\ \A k \in Keys : PairCovered(k, file[k])
      /\ \A o \in Writers : RequestCovered(op[o])
      /\ \A q \in Readers : ReadCovered(reader[q])
  BY OtherType DEF IInv, TypeOK, DrainInv, GenerationReaders, ReaderStep, RetrieveOpen,
     RetrieveJudge, RetrieveReturn
<1>1. ASSUME NEW q, ReadCovered(q), reader' = [reader EXCEPT ![r] = q],
             UNCHANGED <<world, file, markers, op, sweep>>
      PROVE  IInv'
  <2>1. MarkerInv'
    BY <1>0, <1>1 DEF MarkerInv, world, markers
  <2>2. \A k \in Keys : PairCovered(k, file[k])'
    BY <1>0, <1>1 DEF PairCovered, MarkerCovers, Governing, Outdated, world, markers
  <2>3. \A o \in Writers : RequestCovered(op[o])'
    BY <1>0, <1>1 DEF RequestCovered, Governing, world, markers
  <2>4. \A p \in Readers : ReadCovered(reader'[p])
    BY <1>0, <1>1 DEF TypeOK
  <2>5. \A p \in Readers : ReadCovered(reader[p])'
    BY <1>1, <2>4 DEF ReadCovered, world, markers
  <2> QED BY <1>0, <2>1, <2>2, <2>3, <2>5, Zenon DEF IInv
<1>2. ASSUME NEW k \in Keys, RetrieveOpen(r, k) PROVE IInv'
  <2> DEFINE q == [pc |-> "open", key |-> k, ver |-> file[k].ver, at |-> file[k].at,
                   late |-> file[k].late, stale |-> FALSE, floor |-> promised[k]]
  <2>1. file[k].at > 0 /\ sweep.pc # "markers"
    BY <1>2 DEF RetrieveOpen, Present, CleanupWriterPending
  <2>2. ReadCovered(q)
    BY <1>0, <2>1, Zenon DEF ReadCovered, PairCovered, MarkerCovers, Governing, Outdated
  <2> QED BY <1>1, <1>2, <2>2, Zenon DEF RetrieveOpen
<1>3. CASE RetrieveJudge(r)
  <2> DEFINE q == [reader[r] EXCEPT !.pc = "done",
                                    !.stale = Superseded(reader[r].at, reader[r].key)]
  <2>1. ReadCovered(q)
    BY <1>0, <1>3, Zenon DEF RetrieveJudge, ReadCovered, Superseded, Read
  <2> QED BY <1>1, <1>3, <2>1, Zenon DEF RetrieveJudge
<1>4. CASE RetrieveReturn(r)
  <2>1. ReadCovered(NoRead)
    BY <1>0 DEF ReadCovered, NoRead, MarkerInv, TypeOK
  <2> QED BY <1>1, <1>4, <2>1, Zenon DEF RetrieveReturn
<1> QED
  BY <1>2, <1>3, <1>4 DEF ReaderStep

\* The clock and the origin only move forward, which outdates nothing.
LEMMA WorldInv ==
    ASSUME IInv, Tick \/ Mutate
    PROVE  IInv'
<1>0. /\ TypeOK' /\ now \in Nat /\ now' \in Nat /\ now <= now' /\ now' < Barrier
      /\ origin \in Nat /\ origin' \in Nat /\ origin <= origin'
      /\ UNCHANGED <<file, stale, disk, promised, durable, op, reader, sweep, purge>>
  BY OtherType DEF IInv, TypeOK, MarkerInv, Tick, Mutate, markers, actors
<1>1. MarkerInv' /\ DrainInv'
  BY <1>0 DEF IInv, TypeOK, Sweep, MarkerInv, DrainInv, GenerationReaders
<1>2. ASSUME NEW k \in Keys PROVE PairCovered(k, file[k])'
  BY <1>0 DEF IInv, TypeOK, File, PairCovered, MarkerCovers, Governing, Outdated
<1>3. ASSUME NEW o \in Writers PROVE RequestCovered(op[o])'
  BY <1>0 DEF IInv, TypeOK, Op, RequestCovered, Governing
<1>4. ASSUME NEW r \in Readers PROVE ReadCovered(reader[r])'
  BY <1>0 DEF IInv, TypeOK, Read, ReadCovered
<1> QED
  BY <1>0, <1>1, <1>2, <1>3, <1>4 DEF IInv

\* Dropping the markers of the keys K is safe when every pair they judge is gone,
\* no retrieval is open and no writer past its check depends on them.
LEMMA DroppedInv ==
    ASSUME IInv, TypeOK', DrainInv', NEW K \in SUBSET Keys,
           UNCHANGED <<now, origin, promised, reader>>,
           sweep'.start = sweep.start, sweep'.pc # "markers",
           stale' = Mark(K, 0), op' = Forgive(K),
           \/ UNCHANGED <<disk, durable>>
           \/ disk' = stale' /\ durable' = promised,
           \A r \in Readers : reader[r].pc # "open",
           \A k \in Keys : PairCovered(k, file'[k]),
           \A k \in Keys : \A g \in Governing(k) : g \in K => ~Outdated(file'[k], promised[g]),
           \A k \in K : \A o \in Writers :
               op[o].pc \in LockedPC /\ k \in OpKeys(o) => stale[k] # Barrier
    PROVE  IInv'
<1>0. /\ now \in Nat /\ 1 <= now /\ now < Barrier /\ sweep.start \in Nat
      /\ \A k \in Keys : /\ stale[k] \in Nat /\ disk[k] \in Nat /\ promised[k] \in Nat
                         /\ durable[k] \in Nat /\ file'[k] \in File
                         /\ durable[k] <= promised[k]
                         /\ stale'[k] = IF k \in K THEN 0 ELSE stale[k]
      /\ MarkerInv
  BY DEF IInv, TypeOK, MarkerInv, Sweep, Mark
<1>1. MarkerInv'
  <2>1. ASSUME NEW k \in Keys
        PROVE  /\ stale'[k] <= now \/ stale'[k] = Barrier
               /\ disk'[k] <= now \/ disk'[k] = Barrier
               /\ durable'[k] <= promised[k]
    BY <1>0 DEF MarkerInv
  <2> QED BY <1>0, <2>1, Zenon DEF MarkerInv
<1>2. ASSUME NEW k \in Keys PROVE PairCovered(k, file[k])'
  <2>1. ASSUME NEW g \in Governing(k) PROVE MarkerCovers(g, file[k])'
    <3>1. /\ g \in Keys /\ MarkerCovers(g, file'[k])
          /\ g \in K => ~Outdated(file'[k], promised[g])
      BY DEF PairCovered, Governing
    <3>2. /\ file'[k].at \in Nat /\ file'[k].ver \in Nat
          /\ stale[g] \in Nat /\ disk[g] \in Nat /\ promised[g] \in Nat /\ durable[g] \in Nat
          /\ durable[g] <= promised[g] /\ stale'[g] = IF g \in K THEN 0 ELSE stale[g]
      BY <1>0, <3>1 DEF File
    <3>3. file'[k].at <= now' /\ (Outdated(file'[k], promised'[g]) => file'[k].at <= stale'[g])
      BY <3>1, <3>2 DEF MarkerCovers
    <3>4. Outdated(file'[k], durable'[g]) => file'[k].at <= disk'[g]
      BY <3>1, <3>2, <3>3 DEF MarkerCovers, Outdated
    <3> QED BY <3>3, <3>4 DEF MarkerCovers, Outdated
  <2> QED BY <2>1 DEF PairCovered, Governing
<1>3. ASSUME NEW o \in Writers PROVE RequestCovered(op[o])'
  <2>1. /\ op[o] \in Op /\ op'[o] \in Op /\ op[o].key \in Keys
        /\ op'[o].pc = op[o].pc /\ op'[o].req = op[o].req /\ op'[o].at = op[o].at
        /\ op'[o].ver = op[o].ver /\ op'[o].key = op[o].key
        /\ ~op'[o].late => ~op[o].late
        /\ RequestCovered(op[o])
    BY DEF IInv, TypeOK, Forgive, Op
  <2>2. ASSUME NEW k \in Governing(op[o].key), op[o].pc \in PendingPC, ~op'[o].late,
               op[o].ver < promised[k]
        PROVE  op[o].req <= stale'[k]
    <3>1. ~op[o].late /\ op[o].req <= stale[k] /\ k \in Keys /\ k \in OpKeys(o)
      BY <2>1, <2>2, Zenon DEF RequestCovered, Governing, OpKeys
    <3>2. k \notin K
      BY <2>1, <2>2, <3>1 DEF Forgive, Superseded, Op
    <3> QED BY <1>0, <3>1, <3>2, Zenon
  <2>3. ASSUME NEW k \in Governing(op[o].key), op[o].pc \in LockedPC, ~op'[o].late
        PROVE  /\ op[o].ver < promised[k] => stale'[k] = Barrier
               /\ op[o].ver < durable'[k] => disk'[k] = Barrier
    <3>1. k \in Keys /\ k \in OpKeys(o) /\ op[o].ver \in Nat
      BY <2>1, <2>3 DEF OpKeys, Governing, Op
    <3>2. op[o].ver < promised[k] => stale[k] = Barrier /\ k \notin K
      BY <2>1, <2>3, <3>1, Zenon DEF RequestCovered, Governing
    <3>3. op[o].ver < durable[k] => disk[k] = Barrier
      BY <2>1, <2>3, Zenon DEF RequestCovered, Governing
    <3> QED BY <1>0, <3>1, <3>2, <3>3
  <2> QED BY <2>1, <2>2, <2>3, Zenon DEF RequestCovered, Governing
<1>4. ASSUME NEW r \in Readers PROVE ReadCovered(reader[r])'
  BY DEF IInv, ReadCovered
<1> QED
  BY <1>1, <1>2, <1>3, <1>4 DEF IInv

\* A step of the sweep that leaves time, markers, requests and readers alone.
LEMMA SweepFrame ==
    ASSUME IInv, TypeOK', UNCHANGED <<world, markers, op, reader, purge>>,
           sweep'.start <= now,
           \A k \in Keys : file'[k] = file[k] \/ file'[k] = NoFile,
           sweep'.pc = "markers" =>
               /\ OpenReaders = {}
               /\ TTL > 0 => \A k \in Keys : file'[k].at > 0 => file'[k].at + TTL >= sweep'.start
    PROVE  IInv'
<1>0. /\ now \in Nat /\ 1 <= now /\ sweep'.start \in Nat
      /\ \A k \in Keys : file'[k] \in File
      /\ UNCHANGED <<now, origin, stale, disk, promised, durable>>
  BY DEF IInv, TypeOK, MarkerInv, Sweep, world, markers
<1>1. MarkerInv' /\ DrainInv'
  BY <1>0, Zenon DEF IInv, MarkerInv, DrainInv, GenerationReaders
<1>2. ASSUME NEW k \in Keys PROVE PairCovered(k, file[k])'
  <2>1. PairCovered(k, file'[k])
    BY AbsentCovered DEF IInv
  <2> QED BY <1>0, <2>1 DEF PairCovered, MarkerCovers, Governing, Outdated, File
<1>3. ASSUME NEW o \in Writers PROVE RequestCovered(op[o])'
  BY <1>0 DEF IInv, RequestCovered, Governing
<1>4. ASSUME NEW r \in Readers PROVE ReadCovered(reader[r])'
  BY <1>0, Zenon DEF IInv, ReadCovered, OpenReaders
<1> QED
  BY <1>1, <1>2, <1>3, <1>4, Zenon DEF IInv

\* Cleanup preserves the invariant: retention outlasts the TTL, so a marker old
\* enough to go judges only pairs the expiry pass has just removed.
LEMMA SweepInv ==
    ASSUME IInv, SweepStep
    PROVE  IInv'
<1>0. /\ TypeOK /\ TypeOK' /\ now \in Nat /\ sweep \in Sweep /\ sweep.start \in Nat
      /\ sweep.start <= now /\ now < Barrier
  BY OtherType DEF IInv, TypeOK, MarkerInv, Sweep
<1>1. CASE CleanupStart
  BY <1>0, <1>1, SweepFrame DEF CleanupStart
<1>2. CASE CleanupTTLExpired
  <2>1. /\ sweep'.start = sweep.start /\ OpenReaders = {}
        /\ \A k \in Keys : file'[k] = file[k] \/ file'[k] = NoFile
    BY <1>0, <1>2 DEF CleanupTTLExpired, Sweep, Without
  <2>2. ASSUME sweep'.pc = "markers", TTL > 0, NEW k \in Keys, file'[k].at > 0
        PROVE  file'[k].at + TTL >= sweep'.start
    <3>0. PICK F \in RemovalFailures(Expired \ Active) :
             IF TTL = 0
             THEN UNCHANGED file /\ sweep' = [sweep EXCEPT !.pc = "markers"]
             ELSE /\ file' = Without(Expired \ (Active \cup F))
                  /\ sweep' = [sweep EXCEPT !.pc =
                        IF F = {} /\ Expired \cap Active = {} THEN "markers" ELSE "size"]
      BY <1>2, Zenon DEF CleanupTTLExpired
    <3>1. /\ file' = Without(Expired \ (Active \cup F))
          /\ sweep' = [sweep EXCEPT !.pc =
                IF F = {} /\ Expired \cap Active = {} THEN "markers" ELSE "size"]
      BY <2>2, <3>0
    <3>2. F = {} /\ Expired \cap Active = {}
      BY <1>0, <2>2, <3>1 DEF Sweep
    <3>3. k \notin Expired /\ file'[k] = file[k]
      BY <2>2, <3>1, <3>2 DEF Without, NoFile
    <3>4. file[k].at \in Nat
      BY <1>0 DEF TypeOK, File
    <3> QED BY <1>0, <2>1, <2>2, <3>3, <3>4 DEF Expired, Present
  <2> QED BY <1>0, <1>2, <2>1, <2>2, SweepFrame DEF CleanupTTLExpired
<1>3. CASE CleanupMarkers
  <2>1. /\ sweep'.start = sweep.start /\ sweep'.pc = "size" /\ stale' = Mark(Swept, 0)
        /\ op' = Forgive(Swept) /\ Swept \in SUBSET Keys
        /\ UNCHANGED <<now, origin, promised, reader, file, purge>>
    BY <1>0, <1>3 DEF CleanupMarkers, Sweep, Swept, world
  <2>2. UNCHANGED <<disk, durable>> \/ (disk' = stale' /\ durable' = promised)
    BY <1>3 DEF CleanupMarkers, Persist
  <2>3. DrainInv'
    BY <2>1 DEF IInv, TypeOK, DrainInv, GenerationReaders, Forgive, Op
  <2>4. ASSUME NEW k \in Swept
        PROVE  /\ stale[k] # Barrier
               /\ \A h \in Keys : k \in Governing(h) => ~Outdated(file[h], promised[k])
    <3>1. /\ TTL > 0 /\ Retention >= TTL /\ Retention \in Nat
          /\ k \in Keys /\ stale[k] \in Nat /\ stale[k] + Retention < sweep.start
      BY <1>0, <2>4 DEF Swept, Retention, TypeOK
    <3>2. stale[k] # Barrier
      BY <1>0, <3>1 DEF IInv, MarkerInv
    <3>3. ASSUME NEW h \in Keys, k \in Governing(h) PROVE ~Outdated(file[h], promised[k])
      <4>1. MarkerCovers(k, file[h]) /\ file[h].at \in Nat
        BY <3>3 DEF IInv, TypeOK, File, PairCovered
      <4> QED BY <1>0, <1>3, <3>1, <4>1 DEF MarkerCovers, CleanupMarkers
    <3> QED BY <3>2, <3>3
  <2>5. \A r \in Readers : reader[r].pc # "open"
    BY <1>3 DEF IInv, ReadCovered, CleanupMarkers
  <2>6. \A k \in Keys : PairCovered(k, file'[k])
    BY <2>1, Zenon DEF IInv
  <2>7. \A k \in Keys : \A g \in Governing(k) :
           g \in Swept => ~Outdated(file'[k], promised[g])
    BY <2>1, <2>4
  <2>8. \A k \in Swept : \A o \in Writers :
           op[o].pc \in LockedPC /\ k \in OpKeys(o) => stale[k] # Barrier
    BY <2>4
  <2> QED BY <1>0, <2>1, <2>2, <2>3, <2>5, <2>6, <2>7, <2>8, DroppedInv
<1>4. CASE CleanupMaxSize
  <2>1. /\ sweep'.start = 0 /\ sweep'.pc = "idle"
        /\ \A k \in Keys : file'[k] = file[k] \/ file'[k] = NoFile
    BY <1>4 DEF CleanupMaxSize, NoSweep, EvictSome, Without
  <2> QED BY <1>0, <1>4, <2>1, SweepFrame DEF CleanupMaxSize
<1> QED
  BY <1>1, <1>2, <1>3, <1>4 DEF SweepStep

\* Purge preserves the invariant: the markers go only with the last pair, and no
\* writer past its check is left.
LEMMA PurgeInv ==
    ASSUME IInv, PurgeStep
    PROVE  IInv'
<1>0. /\ TypeOK /\ TypeOK'
      /\ \A k \in Keys : PairCovered(k, file[k])
      /\ \A o \in Writers : RequestCovered(op[o])
  BY OtherType DEF IInv
<1>1. CASE PurgeLock
  BY <1>0, <1>1, WriterFrame DEF PurgeLock, DrainInv
<1>2. CASE PurgeDrain
  BY <1>0, <1>2, WriterFrame DEF PurgeDrain, DrainInv, GenerationReaders
<1>3. CASE PurgeRun
  <2>1. PICK F \in RemovalFailures(Present) :
           /\ file' = Without(Present \ F)
           /\ IF F # {} THEN UNCHANGED <<markers, op>>
              ELSE /\ stale' = Mark(Keys, 0) /\ op' = Forgive(Keys)
                   /\ UNCHANGED promised /\ Persist
    BY <1>3, Zenon DEF PurgeRun
  <2>2. DrainInv' /\ UNCHANGED <<now, origin, reader, sweep>>
    BY <1>3 DEF PurgeRun, DrainInv, world
  <2>3. \A k \in Keys : PairCovered(k, file'[k])
    BY <2>1, WithoutCovered
  <2>4. CASE F # {}
    BY <1>0, <2>1, <2>2, <2>3, <2>4, WriterFrame DEF world
  <2>5. CASE F = {}
    <3>1. \A k \in Keys : \A g : ~Outdated(file'[k], promised[g])
      BY <2>1, <2>5 DEF Without, Present, NoFile, Outdated
    <3>2. \A o \in Writers : op[o].pc \notin LockedPC
      BY <1>3 DEF PurgeRun, IInv, DrainInv, GenerationReaders
    <3>3. \A r \in Readers : reader[r].pc # "open"
      BY <1>3 DEF PurgeRun, OpenReaders
    <3>4. UNCHANGED <<disk, durable>> \/ (disk' = stale' /\ durable' = promised)
      BY <2>1, <2>5 DEF Persist
    <3>5. sweep'.pc # "markers" /\ sweep'.start = sweep.start
      BY <1>3, <2>2 DEF PurgeRun
    <3> QED BY <1>0, <2>1, <2>2, <2>3, <2>5, <3>1, <3>2, <3>3, <3>4, <3>5, DroppedInv, Zenon
  <2> QED BY <2>4, <2>5
<1> QED
  BY <1>1, <1>2, <1>3 DEF PurgeStep

\* A crash and restart preserve the invariant: what the disk markers cover is
\* what was promised durably, and a recovered barrier is not before any stamp.
LEMMA RestartInv ==
    ASSUME IInv, Restart
    PROVE  IInv'
<1>0. /\ TypeOK /\ TypeOK' /\ now \in Nat /\ 1 <= now /\ now < Barrier
      /\ UNCHANGED <<now, origin>> /\ sweep' = NoSweep /\ purge' = "idle"
      /\ \A o \in Writers : op'[o] = NoOp
      /\ \A r \in Readers : reader'[r] = NoRead
      /\ \A k \in Keys : /\ disk[k] \in Nat /\ durable[k] \in Nat /\ promised[k] \in Nat
                         /\ origin \in Nat /\ file'[k] \in File
                         /\ stale'[k] = IF disk[k] = Barrier THEN now ELSE disk[k]
      /\ promised' = durable
      /\ UNCHANGED <<disk, durable>> \/ (disk' = stale' /\ durable' = durable)
  BY OtherType DEF IInv, TypeOK, MarkerInv, Restart, Persist, world
<1>1. MarkerInv' /\ DrainInv'
  <2>1. ASSUME NEW k \in Keys
        PROVE  /\ disk[k] <= now \/ disk[k] = Barrier
               /\ durable[k] <= origin
    <3>1. MarkerInv /\ durable[k] \in Nat /\ promised[k] \in Nat /\ origin \in Nat
      BY DEF IInv, TypeOK
    <3> QED BY <3>1 DEF MarkerInv
  <2>2. sweep'.start = 0
    BY <1>0 DEF NoSweep
  <2>3. ASSUME NEW k \in Keys
        PROVE  /\ stale'[k] <= now \/ stale'[k] = Barrier
               /\ disk'[k] <= now \/ disk'[k] = Barrier
               /\ durable'[k] <= promised'[k]
               /\ promised'[k] <= origin
    BY <1>0, <2>1
  <2>4. MarkerInv'
    BY <1>0, <2>2, <2>3 DEF MarkerInv
  <2> QED BY <1>0, <2>4 DEF DrainInv
<1>2. ASSUME NEW k \in Keys PROVE PairCovered(k, file[k])'
  <2>1. file'[k] \in CrashFiles(k)
    BY DEF Restart
  <2>2. ASSUME NEW o \in Publishing(k) PROVE op[o].pc \in LockedPC /\ k \in OpKeys(o)
    BY <2>2 DEF Publishing, HeldKeys, LockedPC, OpKeys, Governing
  <2>3. PairCovered(k, file'[k])
    <3>1. PairCovered(k, file[k])
      BY DEF IInv
    <3>2. ASSUME NEW o \in Publishing(k)
          PROVE  /\ PairCovered(k, NewFile(o))
                 /\ \A f \in Leftovers(o, k) : PairCovered(k, f)
      BY <2>2, LeftoversCovered DEF Publishing
    <3>3. \/ file'[k] = file[k]
          \/ \E o \in Publishing(k) : file'[k] \in Leftovers(o, k) \/ file'[k] = NewFile(o)
      BY <2>1 DEF CrashFiles
    <3> QED BY <3>1, <3>2, <3>3
  <2> QED BY <1>0, <2>3 DEF PairCovered, MarkerCovers, Governing, Outdated, File, NoSweep
<1>3. ASSUME NEW o \in Writers PROVE RequestCovered(op[o])'
  BY <1>0 DEF RequestCovered, Governing, NoOp, PendingPC, LockedPC
<1>4. ASSUME NEW r \in Readers PROVE ReadCovered(reader[r])'
  BY <1>0 DEF ReadCovered, NoRead
<1> QED
  BY <1>0, <1>1, <1>2, <1>3, <1>4 DEF IInv

-----------------------------------------------------------------------------
\* The strengthening of the safety properties holds in every reachable state.
THEOREM Invariance == Spec => []IInv
<1>1. Init => IInv
  <2> SUFFICES ASSUME Init PROVE IInv
    OBVIOUS
  <2>1. TypeOK
    BY DEF Init, TypeOK, NoFile, File, NoOp, Op, NoCall, Call, NoRead, Read, NoSweep, Sweep
  <2>2. MarkerInv /\ DrainInv
    BY DEF Init, MarkerInv, DrainInv, NoSweep
  <2>3. \A k \in Keys : PairCovered(k, file[k])
    <3> SUFFICES ASSUME NEW k \in Keys PROVE PairCovered(k, file[k])
      BY Zenon
    <3>1. now = 1 /\ sweep.pc = "idle" /\ file[k].at = 0
      BY DEF Init, NoFile, NoSweep
    <3> QED BY <3>1 DEF PairCovered, MarkerCovers, Governing, Outdated
  <2>4. \A o \in Writers : RequestCovered(op[o])
    BY DEF Init, RequestCovered, Governing, NoOp, PendingPC, LockedPC
  <2>5. \A r \in Readers : ReadCovered(reader[r])
    BY DEF Init, ReadCovered, NoRead
  <2> QED BY <2>1, <2>2, <2>3, <2>4, <2>5 DEF IInv
<1>2. IInv /\ [Next]_vars => IInv'
  <2> SUFFICES ASSUME IInv, [Next]_vars PROVE IInv'
    OBVIOUS
  <2>1. CASE UNCHANGED vars
    BY <2>1, Zenon DEF vars, IInv, TypeOK, MarkerInv, DrainInv, GenerationReaders, PairCovered, MarkerCovers, Governing,
       Outdated, RequestCovered, Governing, ReadCovered
  <2>2. CASE Next
    BY <2>2, WorldInv, WriterInv, CallInv, ReaderInv, SweepInv, PurgeInv, RestartInv DEF Next, Background
  <2> QED BY <2>1, <2>2
<1> QED
  BY <1>1, <1>2, PTL DEF Spec

\* No pair on disk that predates an Invalidate of its key counts as fresh, for
\* any number of keys, requests, calls and readers, and any mix of failing
\* removals, failing marker writes, sweeps, purges and restarts.
THEOREM OutdatedNeverFresh == Spec => []NothingOutdatedFresh
<1>1. IInv => NothingOutdatedFresh
  BY Zenon DEF IInv, PairCovered, MarkerCovers, Governing, NothingOutdatedFresh, Superseded
<1> QED
  BY <1>1, Invariance, PTL

\* Retrieve never returns such a body unmarked, although it opens the file and
\* reads the marker in two steps.
THEOREM RetrieveNeverOutdated == Spec => []RetrieveSound
<1>1. IInv => RetrieveSound
  BY DEF IInv, TypeOK, Read, ReadCovered, RetrieveSound
<1> QED
  BY <1>1, Invariance, PTL

\* A validated body is handed out as fresh only if nothing overtook the
\* validation, Freshen's own window included.
THEOREM ValidatedNeverOvertaken == Spec => ServeValidatedSound
<1> DEFINE Sound == \A o \in Writers :
          op[o].pc = "freshened" /\ op'[o].pc = "served" /\ ~op[o].late
             => \A k \in OpKeys(o) : op[o].ver >= promised[k]
<1>1. IInv /\ [Next]_vars => [Sound]_vars
  <2> SUFFICES ASSUME IInv, Next, NEW o \in Writers, op[o].pc = "freshened",
                      op'[o].pc = "served", ~op[o].late, NEW k \in OpKeys(o)
               PROVE  op[o].ver >= promised[k]
    BY Zenon
  <2>0. op[o] \in Op /\ o \in DOMAIN op /\ TypeOK
    BY DEF IInv, TypeOK
  <2>1. ServeValidated(o)
    <3>1. CASE WriterStep(o)
      <4>1. ~Return(o)
        BY <2>0 DEF Return, Done, NoOp
      <4> QED BY <3>1, <4>1 DEF WriterStep, FetchStart, HoldForValidation, FetchAnswer,
           ValidateStart, ValidateAnswer, StoreEnter, StoreCheck, StoreStamp, StorePrepare, StoreFail,
           StoreCommit, StoreDiscard, FreshenCheck, FreshenStamp, FreshenRefuse,
           FreshenMismatch, FreshenPrepare, FreshenCommit, FreshenFail
    <3>2. ASSUME NEW w \in Writers, w # o, WriterStep(w) PROVE FALSE
      BY <2>0, <3>2, WriterOwn
    <3>3. CASE \E c \in Callers : CallStep(c)
      BY <3>3, Zenon DEF CallStep, InvalidateBarrier, InvalidateLock, InvalidateFinal
    <3>4. CASE \E r \in Readers : ReaderStep(r)
      BY <3>4 DEF ReaderStep, RetrieveOpen, RetrieveJudge, RetrieveReturn
    <3>5. \A K : Forgive(K)[o].pc = op[o].pc
      BY <2>0 DEF Forgive, Op
    <3>6. CASE SweepStep \/ PurgeStep
      BY <3>5, <3>6, Zenon DEF SweepStep, CleanupStart, CleanupTTLExpired, CleanupMarkers,
         CleanupMaxSize, PurgeStep, PurgeLock, PurgeDrain, PurgeRun
    <3>7. CASE Tick \/ Mutate
      BY <3>7 DEF Tick, Mutate, actors
    <3>8. CASE Restart
      BY <3>8 DEF Restart, NoOp
    <3> QED BY <3>1, <3>2, <3>3, <3>4, <3>6, <3>7, <3>8, Zenon DEF Next, Background
  <2>2. ~Superseded(op[o].req, k)
    BY <2>1 DEF ServeValidated, Done, NoOp, IInv, TypeOK
  <2>3. RequestCovered(op[o]) /\ k \in Governing(op[o].key) /\ k \in Keys
    BY <2>0 DEF IInv, OpKeys, Governing, Op
  <2>4. op[o].ver \in Nat /\ promised[k] \in Nat
    BY <2>0, <2>3 DEF TypeOK, Op
  <2> QED BY <2>2, <2>3, <2>4 DEF RequestCovered, Governing, PendingPC, Superseded
<1> QED
  BY <1>1, Invariance, PTL DEF Spec, ServeValidatedSound

-----------------------------------------------------------------------------
(* Lookups through the Vary variants.                                      *)

\* A step of a lookup is a step of the cache's reader or leaves the cache alone.
LEMMA LookupStepIsCacheStep ==
    ASSUME LookNext
    PROVE  [Next]_vars
<1>1. ASSUME NEW l \in Readers, LookupStep(l) PROVE ReaderStep(l) \/ UNCHANGED vars
  <2>1. CASE LookupOpen(l)
    <3>1. RetrieveOpen(l, Wanted(l)) /\ Wanted(l) \in Present
      BY <2>1, Zenon DEF LookupOpen, RetrieveOpen
    <3> QED BY <3>1 DEF Present, ReaderStep
  <2>2. CASE ~LookupOpen(l)
    BY <1>1, <2>2, Zenon DEF LookupStep, LookupStart, LookupJudge, LookupMiss, LookupBase,
       LookupOwnMarker, LookupBaseMarker, LookupReturn, ReaderStep
  <2> QED BY <2>1, <2>2
<1>2. CASE CacheStep
  BY <1>2 DEF CacheStep, Next
<1>3. CASE LookRestart
  BY <1>3 DEF LookRestart, Next
<1> QED
  BY <1>1, <1>2, <1>3 DEF LookNext, Next

\* Lookups do not disturb the cache: its invariant holds with them running.
THEOREM CacheInvariance == LookSpec => []IInv
<1>1. LookInit => Init
  BY DEF LookInit
<1>2. [LookNext]_lookVars => [Next]_vars
  BY LookupStepIsCacheStep DEF lookVars
<1>3. LookSpec => Spec
  BY <1>1, <1>2, PTL DEF LookSpec, Spec
<1> QED
  BY <1>3, Invariance, PTL

\* While a lookup runs, a marker only rises, settles at the present, or is
\* dropped; promises only rise.
LEMMA MarkersMove ==
    ASSUME IInv, Background, NEW g \in Keys
    PROVE  /\ stale'[g] >= stale[g] \/ stale'[g] >= now \/ (stale[g] > 0 /\ stale'[g] = 0)
           /\ promised'[g] >= promised[g]
           /\ reader' = reader
<1>0. /\ now \in Nat /\ stale[g] \in Nat /\ promised[g] \in Nat /\ promised[g] <= origin
      /\ origin \in Nat /\ now < Barrier /\ (stale[g] <= now \/ stale[g] = Barrier)
  BY DEF IInv, TypeOK, MarkerInv
<1>1. CASE Tick \/ Mutate
  BY <1>0, <1>1 DEF Tick, Mutate, markers, actors
<1>2. ASSUME NEW o \in Writers, WriterStep(o)
      PROVE  stale'[g] >= stale[g] /\ promised' = promised /\ reader' = reader
  <2>1. CASE StoreDiscard(o)
    BY <1>0, <2>1 DEF StoreDiscard
  <2>2. ASSUME NEW k \in Keys, FetchStart(o, k) \/ HoldForValidation(o, k)
        PROVE  UNCHANGED <<stale, promised, reader>>
    BY <2>2 DEF FetchStart, HoldForValidation, markers
  <2>3. CASE FetchAnswer(o) \/ ValidateStart(o) \/ ValidateAnswer(o) \/ StoreEnter(o)
             \/ StoreCheck(o) \/ StoreStamp(o) \/ StorePrepare(o) \/ StoreFail(o) \/ StoreCommit(o)
    BY <1>0, <2>3 DEF FetchAnswer, ValidateStart, ValidateAnswer, StoreEnter, StoreCheck,
       StoreStamp, StorePrepare, StoreFail, StoreCommit, markers
  <2>4. CASE FreshenCheck(o) \/ FreshenStamp(o) \/ FreshenRefuse(o) \/ FreshenMismatch(o)
             \/ FreshenPrepare(o) \/ FreshenCommit(o) \/ FreshenFail(o)
             \/ ServeValidated(o) \/ Return(o)
    BY <1>0, <2>4 DEF FreshenCheck, FreshenStamp, FreshenRefuse, FreshenMismatch, FreshenPrepare,
       FreshenCommit, FreshenFail, ServeValidated, Return, markers
  <2>5. CASE \E k \in Keys : FetchStart(o, k) \/ HoldForValidation(o, k)
    BY <1>0, <2>2, <2>5
  <2> QED BY <1>2, <2>1, <2>3, <2>4, <2>5, Zenon DEF WriterStep
<1>3. ASSUME NEW c \in Callers, CallStep(c)
      PROVE  /\ stale'[g] >= stale[g] \/ stale'[g] >= now
             /\ promised'[g] >= promised[g] /\ reader' = reader
  <2>1. ASSUME NEW K \in SUBSET Keys \ {{}}, InvalidateBarrier(c, K)
        PROVE  /\ (stale'[g] >= now /\ stale'[g] >= stale[g]) \/ stale'[g] = stale[g]
               /\ promised'[g] >= promised[g] /\ reader' = reader
    <3>1. /\ stale'[g] = Barrier \/ stale'[g] = stale[g]
          /\ promised'[g] = origin \/ promised'[g] = promised[g]
          /\ reader' = reader
      BY <2>1 DEF InvalidateBarrier, Mark
    <3> QED BY <1>0, <3>1
  <2>2. CASE InvalidateLock(c)
    BY <1>0, <2>2 DEF InvalidateLock, markers
  <2>3. CASE InvalidateFinal(c)
    <3>1. /\ stale'[g] = now \/ stale'[g] = stale[g]
          /\ promised' = promised /\ reader' = reader
      BY <2>3 DEF InvalidateFinal, Mark
    <3> QED BY <1>0, <3>1
  <2> QED BY <1>0, <1>3, <2>1, <2>2, <2>3 DEF CallStep
<1>4. CASE SweepStep
  BY <1>0, <1>4 DEF SweepStep, CleanupStart, CleanupTTLExpired, CleanupMarkers, CleanupMaxSize,
     Swept, Mark, markers
<1>5. CASE PurgeStep
  <2>1. CASE PurgeRun
    <3>1. (stale' = stale /\ promised' = promised) \/ (stale' = Mark(Keys, 0) /\ promised' = promised)
      BY <2>1 DEF PurgeRun, markers
    <3>2. reader' = reader
      BY <2>1 DEF PurgeRun
    <3> QED BY <1>0, <3>1, <3>2 DEF Mark
  <2>2. CASE PurgeLock \/ PurgeDrain
    BY <1>0, <2>2 DEF PurgeLock, PurgeDrain, markers
  <2> QED BY <1>5, <2>1, <2>2 DEF PurgeStep
<1> QED
  BY <1>0, <1>1, <1>2, <1>3, <1>4, <1>5 DEF Background

\* A step of the cache keeps a lookup covered: an outdated entry stays marked
\* unless a governing marker was dropped, which the lookup records.
LEMMA BackgroundCovered ==
    ASSUME IInv, LookInv, CacheStep, NEW l \in Readers
    PROVE  LookCovered(l)' /\ look'[l] \in Look
<1>1. look[l] \in Look /\ reader[l] \in Read /\ LookCovered(l) /\ reader[l].at <= now /\ now \in Nat
  BY DEF LookInv, LookTypeOK, IInv, TypeOK, ReadCovered
<1>2. /\ look'[l].pc = look[l].pc /\ look'[l].key = look[l].key
      /\ look'[l].stale = look[l].stale /\ look'[l].floor = look[l].floor
      /\ ~look'[l].raced =>
            /\ ~look[l].raced
            /\ \A g \in Governing(look[l].key) : ~(stale[g] > 0 /\ stale'[g] = 0)
      /\ look'[l] \in Look
  BY <1>1, Zenon DEF CacheStep, Look
<1>3. \A g \in Keys :
         /\ stale'[g] >= stale[g] \/ stale'[g] >= now \/ (stale[g] > 0 /\ stale'[g] = 0)
         /\ promised'[g] >= promised[g]
         /\ reader' = reader
  BY MarkersMove DEF CacheStep
<1>4. /\ \A g \in Keys : /\ stale[g] \in Nat /\ stale'[g] \in Nat
                         /\ promised[g] \in Nat /\ promised'[g] \in Nat
      /\ look[l].floor \in [Keys -> Nat] /\ look[l].key \in Keys
      /\ reader[l].at \in Nat /\ reader[l].ver \in Nat
  <2>1. TypeOK'
    BY WriterType, OtherType DEF CacheStep, Background, IInv
  <2> QED BY <1>1, <2>1, Zenon DEF IInv, TypeOK, Look, Read
<1>5. reader'[l] = reader[l] /\ Wanted(l)' = Wanted(l)
  BY <1>2, <1>3, Zenon DEF Wanted
<1>6. look[l].pc # "idle" => \A g \in Keys : look'[l].floor[g] <= promised'[g]
  BY <1>1, <1>2, <1>3, <1>4 DEF LookCovered
<1>7. ASSUME NEW g \in Governing(look[l].key), ~look'[l].raced, Marked(l, g)
      PROVE  Marked(l, g)'
  <2>1. g \in Keys
    BY <1>4 DEF Governing
  <2>2. stale'[g] >= stale[g] \/ stale'[g] >= now
    BY <1>2, <1>3, <1>7, <2>1
  <2> QED BY <1>1, <1>2, <1>4, <1>5, <1>7, <2>1, <2>2 DEF Marked
<1>8. \A g : Told(l, g) => Told(l, g)'
  BY <1>2, <1>5, Zenon DEF Told
<1>9. Base \in Governing(look[l].key)
  BY DEF Governing
<1> QED
  BY <1>1, <1>2, <1>5, <1>6, <1>7, <1>8, <1>9, Zenon DEF LookCovered, Governing

\* A step of lookup l leaves the markers and the other lookups alone.
LEMMA OthersCovered ==
    ASSUME IInv, LookInv, NEW l \in Readers, LookupStep(l)
    PROVE  /\ stale' = stale /\ promised' = promised
           /\ \A m \in Readers \ {l} : LookCovered(m)' /\ look'[m] = look[m]
<1>1. stale' = stale /\ promised' = promised
  BY Zenon DEF LookupStep, LookupStart, LookupOpen, LookupJudge, LookupMiss, LookupBase, LookupOwnMarker,
     LookupBaseMarker, LookupReturn, RetrieveOpen, RetrieveJudge, RetrieveReturn, markers, vars
<1>2. ASSUME NEW m \in Readers \ {l} PROVE look'[m] = look[m] /\ reader'[m] = reader[m]
  BY Zenon DEF LookupStep, LookupStart, LookupOpen, LookupJudge, LookupMiss, LookupBase, LookupOwnMarker,
     LookupBaseMarker, LookupReturn, RetrieveOpen, RetrieveJudge, RetrieveReturn, vars,
     IInv, TypeOK, LookInv, LookTypeOK
<1>3. ASSUME NEW m \in Readers \ {l} PROVE LookCovered(m)'
  BY <1>1, <1>2, Zenon DEF LookInv, LookCovered, Marked, Told, Wanted
<1> QED
  BY <1>1, <1>2, <1>3

\* A step of a lookup keeps it covered.
LEMMA LookupCovered ==
    ASSUME IInv, LookInv, NEW l \in Readers, LookupStep(l)
    PROVE  LookCovered(l)' /\ look'[l] \in Look
<1>1. /\ look[l] \in Look /\ reader[l] \in Read /\ LookCovered(l)
      /\ look \in [Readers -> Look] /\ reader \in [Readers -> Read]
      /\ NoLook \in Look
  BY DEF LookInv, LookTypeOK, IInv, TypeOK, Look, NoLook
<1>2. stale' = stale /\ promised' = promised
  BY OthersCovered, Zenon
<1>3. /\ look[l].key \in Keys /\ look[l].floor \in [Keys -> Nat]
      /\ promised \in [Keys -> Nat] /\ stale \in [Keys -> Nat]
      /\ reader[l].at \in Nat /\ reader[l].ver \in Nat
  BY <1>1 DEF Look, Read, IInv, TypeOK
<1>4. ASSUME NEW k \in Keys, LookupStart(l, k) PROVE LookCovered(l)' /\ look'[l] \in Look
  <2>1. look'[l] = [NoLook EXCEPT !.pc = "base", !.key = k, !.floor = promised]
    BY <1>1, <1>4 DEF LookupStart
  <2>2. /\ look'[l].pc = "base" /\ look'[l].floor = promised /\ look'[l] \in Look
    BY <1>3, <2>1, Zenon DEF NoLook, Look
  <2>3. reader'[l] = reader[l] /\ reader[l].pc = "idle"
    BY <1>1, <1>4 DEF LookupStart, LookCovered, vars
  <2> QED BY <1>2, <1>3, <2>2, <2>3 DEF LookCovered
<1>5. CASE LookupOpen(l)
  <2> DEFINE k == Wanted(l)
  <2>1. /\ look' = look /\ look[l].pc \in {"base", "variant"} /\ k \in Keys /\ file[k].at > 0
        /\ reader'[l].pc = "open" /\ reader'[l].key = k /\ reader'[l].ver = file[k].ver
        /\ reader'[l].at = file[k].at /\ reader'[l].late = file[k].late
    BY <1>1, <1>5, Zenon DEF LookupOpen, RetrieveOpen, Present
  <2>2. file[k] \in File /\ PairCovered(k, file[k])
    BY <2>1, Zenon DEF IInv, TypeOK
  <2>3. ASSUME NEW g \in Governing(k), ~file[k].late PROVE Marked(l, g)'
    <3>1. g \in Keys /\ look[l].floor[g] <= promised[g]
      BY <1>1, <2>1, <2>3, Zenon DEF LookCovered, Governing
    <3>2. file[k].ver < promised[g] => file[k].at <= stale[g]
      BY <2>1, <2>2, <2>3, Zenon DEF PairCovered, MarkerCovers, Outdated
    <3>3. file[k].ver \in Nat /\ promised[g] \in Nat /\ look[l].floor[g] \in Nat
      BY <1>3, <2>2, <3>1, Zenon DEF File
    <3> QED BY <1>2, <2>1, <3>1, <3>2, <3>3 DEF Marked
  <2>4. Wanted(l)' = k
    BY <2>1 DEF Wanted
  <2> QED BY <1>1, <1>2, <2>1, <2>3, <2>4, Zenon DEF LookCovered
<1>6. CASE LookupJudge(l)
  <2>1. /\ look' = look /\ reader[l].pc = "open" /\ reader'[l].pc = "done"
        /\ reader'[l].key = reader[l].key /\ reader'[l].ver = reader[l].ver
        /\ reader'[l].at = reader[l].at /\ reader'[l].late = reader[l].late
    BY <1>1, <1>6 DEF LookupJudge, RetrieveJudge, Read
  <2>2. \A g : (Marked(l, g) => Marked(l, g)') /\ (Told(l, g) => Told(l, g)')
    BY <1>2, <2>1, Zenon DEF Marked, Told
  <2>3. Wanted(l)' = Wanted(l)
    BY <2>1, Zenon DEF Wanted
  <2> QED BY <1>1, <1>2, <2>1, <2>2, <2>3, Zenon DEF LookCovered
<1>7. CASE LookupMiss(l)
  BY <1>1, <1>2, <1>7, Zenon DEF LookupMiss, LookCovered, NoLook, vars
<1>8. CASE LookupBase(l)
  <2> DEFINE j == reader[l].stale \/ Superseded(reader[l].at, Base)
  <2>1. /\ look[l].pc = "base" /\ reader[l].pc = "done" /\ j \in BOOLEAN
        /\ look'[l] = [look[l] EXCEPT !.base = j, !.stale = j,
                                      !.pc = IF look[l].key = Base THEN "done" ELSE "variant"]
    BY <1>1, <1>8 DEF LookupBase, Read, Superseded
  <2>2. /\ look'[l].key = look[l].key /\ look'[l].floor = look[l].floor /\ look'[l].stale = j
        /\ look'[l].raced = look[l].raced /\ look'[l] \in Look
        /\ look'[l].pc = IF look[l].key = Base THEN "done" ELSE "variant"
    BY <1>1, <2>1, Zenon DEF Look
  <2>3. CASE look[l].key # Base
    <3>1. reader'[l].pc = "idle"
      BY <1>1, <1>8, <2>3 DEF LookupBase, RetrieveReturn, NoRead
    <3> QED BY <1>1, <1>2, <2>1, <2>2, <2>3, <3>1 DEF LookCovered
  <2>4. CASE look[l].key = Base
    <3>1. reader' = reader /\ reader[l].key = Base
      BY <1>1, <1>8, <2>1, <2>4 DEF LookupBase, LookCovered, Wanted, vars
    <3>2. Governing(look[l].key) = {Base}
      BY <2>4 DEF Governing
    <3>3. Marked(l, Base) => Told(l, Base)'
      BY <2>2, <3>1, Zenon DEF Marked, Told, Superseded
    <3>4. Wanted(l)' = Base
      BY <2>2, <2>4 DEF Wanted
    <3> QED BY <1>1, <1>2, <2>1, <2>2, <2>4, <3>1, <3>2, <3>3, <3>4 DEF LookCovered
  <2> QED BY <2>3, <2>4
<1>9. CASE LookupOwnMarker(l)
  <2> DEFINE j == reader[l].stale \/ Superseded(reader[l].at, look[l].key)
  <2>1. /\ look[l].pc = "variant" /\ reader[l].pc = "done" /\ j \in BOOLEAN /\ reader' = reader
        /\ look'[l] = [look[l] EXCEPT !.pc = "marked", !.stale = j]
    BY <1>1, <1>9 DEF LookupOwnMarker, Read, Superseded, vars
  <2>2. /\ look'[l].key = look[l].key /\ look'[l].floor = look[l].floor /\ look'[l].stale = j
        /\ look'[l].raced = look[l].raced /\ look'[l] \in Look /\ look'[l].pc = "marked"
    BY <1>1, <2>1, Zenon DEF Look
  <2>3. Marked(l, look[l].key) => Told(l, look[l].key)'
    BY <2>1, <2>2, Zenon DEF Marked, Told, Superseded
  <2>4. Marked(l, Base) => Marked(l, Base)'
    BY <1>2, <2>1, <2>2 DEF Marked
  <2>5. Wanted(l)' = Wanted(l) /\ look[l].key \in Governing(look[l].key) /\ Base \in Governing(look[l].key)
    BY <2>1, <2>2 DEF Wanted, Governing
  <2> QED BY <1>1, <1>2, <2>1, <2>2, <2>3, <2>4, <2>5 DEF LookCovered
<1>10. CASE LookupBaseMarker(l)
  <2> DEFINE j == look[l].stale \/ IF stale[Base] > 0 THEN Superseded(reader[l].at, Base) ELSE look[l].base
  <2>1. /\ look[l].pc = "marked" /\ reader' = reader /\ j \in BOOLEAN
        /\ look'[l] = [look[l] EXCEPT !.pc = "done", !.stale = j]
    BY <1>1, <1>10, Zenon DEF LookupBaseMarker, Look, Superseded, vars
  <2>2. /\ look'[l].key = look[l].key /\ look'[l].floor = look[l].floor /\ look'[l].stale = j
        /\ look'[l].raced = look[l].raced /\ look'[l] \in Look /\ look'[l].pc = "done"
    BY <1>1, <2>1, Zenon DEF Look
  <2>3. Told(l, look[l].key) => Told(l, look[l].key)'
    BY <2>1, <2>2, Zenon DEF Told
  <2>4. reader[l].at > 0 /\ Marked(l, Base) => Told(l, Base)'
    <3>1. reader[l].at > 0 /\ reader[l].at <= stale[Base] => stale[Base] > 0
      BY <1>3
    <3> QED BY <2>1, <2>2, <3>1, Zenon DEF Marked, Told, Superseded
  <2>5. Wanted(l)' = Wanted(l)
    BY <2>1, <2>2 DEF Wanted
  <2> QED BY <1>1, <1>2, <2>1, <2>2, <2>3, <2>4, <2>5 DEF LookCovered, Governing
<1>11. CASE LookupReturn(l)
  <2>1. look'[l] = NoLook /\ reader'[l] = NoRead
    BY <1>1, <1>11 DEF LookupReturn, RetrieveReturn
  <2>2. look'[l].pc = "idle" /\ reader'[l].pc = "idle" /\ look'[l] \in Look
    BY <1>1, <2>1 DEF NoLook, NoRead
  <2> QED BY <2>2 DEF LookCovered
<1> QED
  BY <1>4, <1>5, <1>6, <1>7, <1>8, <1>9, <1>10, <1>11 DEF LookupStep

\* Every running lookup is covered by the markers it has yet to read.
THEOREM LookInvariance == LookSpec => []LookInv
<1>1. LookInit => LookInv
  <2> SUFFICES ASSUME LookInit PROVE LookInv
    OBVIOUS
  <2>1. NoLook \in Look /\ NoLook.pc = "idle" /\ NoRead.pc = "idle"
    BY DEF Look, NoLook, NoRead
  <2>2. look = [l \in Readers |-> NoLook] /\ \A l \in Readers : reader[l] = NoRead
    BY DEF LookInit, Init
  <2> QED BY <2>1, <2>2 DEF LookInv, LookTypeOK, LookCovered
<1>2. IInv /\ LookInv /\ [LookNext]_lookVars => LookInv'
  <2> SUFFICES ASSUME IInv, LookInv, [LookNext]_lookVars PROVE LookInv'
    OBVIOUS
  <2>1. ASSUME NEW l \in Readers, LookupStep(l) PROVE LookInv'
    <3>1. \A m \in Readers : LookCovered(m)' /\ look'[m] \in Look
      BY <2>1, LookupCovered, OthersCovered DEF LookInv, LookTypeOK
    <3>2. look' = [look EXCEPT ![l] = look'[l]]
      BY <2>1, Zenon DEF LookupStep, LookupStart, LookupOpen, LookupJudge, LookupMiss, LookupBase,
         LookupOwnMarker, LookupBaseMarker, LookupReturn, LookInv, LookTypeOK
    <3> QED BY <3>1, <3>2 DEF LookInv, LookTypeOK
  <2>2. CASE CacheStep
    <3>1. \A m \in Readers : LookCovered(m)' /\ look'[m] \in Look
      BY <2>2, BackgroundCovered
    <3> QED BY <2>2, <3>1, Zenon DEF CacheStep, LookInv, LookTypeOK
  <2>3. CASE LookRestart
    <3>1. look' = [l \in Readers |-> NoLook] /\ reader' = [l \in Readers |-> NoRead]
      BY <2>3 DEF LookRestart, Restart
    <3> QED BY <3>1, Zenon DEF LookInv, LookTypeOK, LookCovered, Look, NoLook, NoRead
  <2>4. CASE UNCHANGED lookVars
    BY <2>4, Zenon DEF lookVars, vars, LookInv, LookTypeOK, LookCovered, Marked, Told, Wanted
  <2> QED BY <2>1, <2>2, <2>3, <2>4 DEF LookNext
<1> QED
  BY <1>1, <1>2, CacheInvariance, PTL DEF LookSpec

\* What the handler's lookup reports as fresh is not older than the last
\* Invalidate of its key or base key that had been promised when it began, for
\* any number of variants, writers, calls and concurrent lookups.
THEOREM LookupNeverOutdated == LookSpec => []LookupSound
<1>1. IInv /\ LookInv => LookupSound
  <2> SUFFICES ASSUME IInv, LookInv, NEW l \in Readers, FreshResult(l), ~look[l].raced,
                      NEW g \in Governing(look[l].key)
               PROVE  reader[l].ver >= look[l].floor[g]
    BY DEF LookupSound
  <2>1. Told(l, g)
    BY DEF LookInv, LookCovered, FreshResult, Wanted
  <2>2. reader[l].ver \in Nat /\ look[l].floor[g] \in Nat
    BY DEF IInv, TypeOK, Read, LookInv, LookTypeOK, Look, Governing
  <2> QED BY <2>1, <2>2 DEF Told, FreshResult
<1> QED
  BY <1>1, CacheInvariance, LookInvariance, PTL

=============================================================================
