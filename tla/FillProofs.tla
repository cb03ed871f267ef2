----------------------------- MODULE FillProofs -----------------------------
(***************************************************************************)
(* Proofs that a fill holds exactly what it should at every point: for any *)
(* requests, handlers, budget and body lengths, with and without a         *)
(* coordinator and a budget.                                               *)
(***************************************************************************)
EXTENDS Fill, TLAPS

\* A leaf without a prover of its own is tried with Zenon, then several times with SMT.
USE ZenonT(4), SMTT(6), SMTT(7), SMTT(8), SMTT(9), SMTT(10)

USE FillAssumption
USE DEF config, shared

-----------------------------------------------------------------------------
(* One request changes.                                                    *)

\* The places of a request.
LEMMA Places ==
    /\ "new" \in PCs /\ "claim" \in PCs /\ "wait" \in PCs /\ "recheck" \in PCs
    /\ "acquire" \in PCs /\ "check" \in PCs /\ "fetch" \in PCs /\ "headers" \in PCs
    /\ "stage" \in PCs /\ "copy" \in PCs /\ "drain" \in PCs /\ "store" \in PCs
    /\ "publish" \in PCs /\ "commit" \in PCs /\ "closeResource" \in PCs
    /\ "closeLease" \in PCs /\ "finish" \in PCs /\ "endWrite" \in PCs /\ "end" \in PCs
  BY DEF PCs, BeforeFill, Streaming, Writing

\* Becomes changes one request.
LEMMA BecomesFacts ==
    ASSUME req \in [Requests -> Request], NEW r \in Requests, NEW q \in Request, Becomes(r, q)
    PROVE  /\ req' \in [Requests -> Request]
           /\ req'[r] = q
           /\ \A p \in Requests : p # r => req'[p] = req[p]
  BY DEF Becomes

\* At moves a request and keeps what it holds.
LEMMA AtFacts ==
    ASSUME NEW q \in Request, NEW pc \in PCs
    PROVE  /\ At(q, pc) \in Request
           /\ At(q, pc).pc = pc /\ At(q, pc).up = q.up /\ At(q, pc).staged = q.staged
           /\ At(q, pc).charged = q.charged /\ At(q, pc).copied = q.copied
           /\ At(q, pc).orphaned = q.orphaned /\ At(q, pc).retained = q.retained
           /\ At(q, pc).writing = q.writing
  BY Zenon DEF At, Request

\* A stage that is closed is gone with its charge, or stays with it.
LEMMA ClosesStage ==
    ASSUME NEW p \in Request, Own(p), NEW q \in CloseStage(p)
    PROVE  /\ q \in Request
           /\ q.pc = p.pc /\ q.up = p.up /\ q.resp = p.resp /\ q.sent = p.sent
           /\ q.staged = 0 /\ q.charged = 0 /\ q.copied = p.copied /\ q.writing = p.writing
           /\ q.retained = (IF budgeted THEN q.orphaned ELSE 0)
<1> DEFINE c == [p EXCEPT !.staged = 0, !.charged = 0]
<1>1. /\ c \in Request
      /\ c.pc = p.pc /\ c.up = p.up /\ c.resp = p.resp /\ c.sent = p.sent
      /\ c.staged = 0 /\ c.charged = 0 /\ c.copied = p.copied /\ c.writing = p.writing
      /\ c.orphaned = p.orphaned /\ c.retained = p.retained
  BY DEF Request
<1>2. q = c \/ q = Orphaned(c, p.staged, p.charged)
  BY DEF CloseStage
<1>3. /\ p.retained = (IF budgeted THEN p.orphaned ELSE 0)
      /\ p.charged = (IF budgeted THEN p.staged ELSE 0)
      /\ p.staged \in Nat /\ p.charged \in Nat /\ p.orphaned \in Nat
  BY DEF Own, Request
<1> HIDE DEF c
<1>4. CASE q = c
  BY <1>1, <1>3, <1>4
<1>5. CASE q = Orphaned(c, p.staged, p.charged)
  <2>1. c.orphaned + p.staged \in Nat /\ c.retained + p.charged \in Nat
    BY <1>1, <1>3
  <2>2. /\ q \in Request
        /\ q.pc = c.pc /\ q.up = c.up /\ q.resp = c.resp /\ q.sent = c.sent
        /\ q.staged = c.staged /\ q.charged = c.charged /\ q.copied = c.copied
        /\ q.writing = c.writing
        /\ q.orphaned = c.orphaned + p.staged /\ q.retained = c.retained + p.charged
    BY <1>1, <1>5, <2>1, Zenon DEF Orphaned, Request
  <2> QED
    BY <1>1, <1>3, <2>2
<1> QED
  BY <1>2, <1>4, <1>5

\* A copy of the cache that is abandoned is gone with its charge, or stays with it.
LEMMA AbandonsStaged ==
    ASSUME NEW p \in Request, Own(p), NEW n \in Nat, NEW q \in AbandonStaged(p, n)
    PROVE  /\ q \in Request
           /\ q.pc = p.pc /\ q.up = p.up /\ q.resp = p.resp /\ q.sent = p.sent
           /\ q.staged = p.staged /\ q.charged = p.charged /\ q.copied = 0
           /\ q.writing = p.writing
           /\ q.retained = (IF budgeted THEN q.orphaned ELSE 0)
<1> DEFINE c == [p EXCEPT !.copied = 0]
           k == IF budgeted THEN n ELSE 0
<1>1. /\ c \in Request
      /\ c.pc = p.pc /\ c.up = p.up /\ c.resp = p.resp /\ c.sent = p.sent
      /\ c.staged = p.staged /\ c.charged = p.charged /\ c.copied = 0
      /\ c.writing = p.writing
      /\ c.orphaned = p.orphaned /\ c.retained = p.retained
  BY DEF Request
<1>2. q = c \/ q = Orphaned(c, n, k)
  BY DEF AbandonStaged
<1>3. p.retained = (IF budgeted THEN p.orphaned ELSE 0) /\ p.orphaned \in Nat
  BY DEF Own, Request
<1>4. k = (IF budgeted THEN n ELSE 0)
  OBVIOUS
<1> HIDE DEF c, k
<1>5. CASE q = c
  BY <1>1, <1>3, <1>5
<1>6. CASE q = Orphaned(c, n, k)
  <2>1. c.orphaned + n \in Nat /\ c.retained + k \in Nat
    BY <1>1, <1>3, <1>4
  <2>2. /\ q \in Request
        /\ q.pc = c.pc /\ q.up = c.up /\ q.resp = c.resp /\ q.sent = c.sent
        /\ q.staged = c.staged /\ q.charged = c.charged /\ q.copied = c.copied
        /\ q.writing = c.writing
        /\ q.orphaned = c.orphaned + n /\ q.retained = c.retained + k
    BY <1>1, <1>6, <2>1, Zenon DEF Orphaned, Request
  <2> QED
    BY <1>1, <1>3, <1>4, <2>2
<1> QED
  BY <1>2, <1>5, <1>6

\* What the invariant says of one request.
LEMMA InvOf ==
    ASSUME IInv, NEW r \in Requests
    PROVE  /\ req \in [Requests -> Request] /\ req[r] \in Request
           /\ home[r] \in Handlers
           /\ Own(req[r]) /\ Place(r, req[r].pc) /\ Quiet(r, req[r])
           /\ shutdown[home[r]] # "none" => closing[home[r]]
  BY DEF IInv, TypeOK

\* A step of one request that leaves what is shared alone keeps the invariant when
\* the request's new state fits what is shared.
LEMMA LocalStep ==
    ASSUME IInv, NEW r \in Requests, NEW q \in Request, Becomes(r, q),
           UNCHANGED <<config, shared>>,
           Own(q), Place(r, q.pc), Quiet(r, q)
    PROVE  IInv'
<1>1. /\ req' \in [Requests -> Request] /\ req'[r] = q
      /\ \A p \in Requests : p # r => req'[p] = req[p]
  BY BecomesFacts DEF IInv, TypeOK
<1>2. TypeOK'
  BY <1>1 DEF IInv, TypeOK
<1>3. ASSUME NEW p \in Requests
      PROVE  Own(req'[p]) /\ Place(p, req'[p].pc) /\ Quiet(p, req'[p])
  BY <1>1 DEF IInv
<1>4. ASSUME NEW p \in Requests
      PROVE  (Own(req[p]) /\ Place(p, req[p].pc) /\ Quiet(p, req[p]))'
  BY <1>3 DEF Own, Place, Quiet
<1> QED
  BY <1>2, <1>4 DEF IInv, PublishedWhole

\* The same for a request that only moves.
LEMMA MoveStep ==
    ASSUME IInv, NEW r \in Requests, NEW pc \in PCs, To(r, pc),
           UNCHANGED <<config, shared>>,
           Own(At(req[r], pc)), Place(r, pc)
    PROVE  IInv'
<1>1. At(req[r], pc) \in Request /\ At(req[r], pc).pc = pc
      /\ At(req[r], pc).writing = req[r].writing
  BY InvOf, AtFacts
<1>2. Quiet(r, At(req[r], pc))
  BY <1>1, InvOf DEF Quiet
<1> QED
  BY <1>1, <1>2, LocalStep DEF To

\* A step in which one request moves and what is shared changes: every request must
\* fit what is shared afterwards.
LEMMA SharedStep ==
    ASSUME IInv, NEW r \in Requests, NEW q \in Request, Becomes(r, q),
           UNCHANGED <<config, closing, shutdown>>, TypeOK', PublishedWhole',
           Own(q), Quiet(r, q), NEW pc \in PCs, q.pc = pc, Place(r, pc)',
           \A p \in Requests : p # r => Place(p, req[p].pc)'
    PROVE  IInv'
<1>1. /\ req' \in [Requests -> Request] /\ req'[r] = q
      /\ \A p \in Requests : p # r => req'[p] = req[p]
  BY BecomesFacts DEF IInv, TypeOK
<1>2. ASSUME NEW p \in Requests
      PROVE  Place(p, req[p].pc)'
  BY <1>1 DEF Place
<1>3. ASSUME NEW p \in Requests
      PROVE  (Own(req[p]) /\ Quiet(p, req[p]))'
  <2>1. Own(req'[p]) /\ Quiet(p, req'[p])
    BY <1>1 DEF IInv
  <2> QED
    BY <2>1 DEF Own, Quiet
<1> QED
  BY <1>2, <1>3 DEF IInv

-----------------------------------------------------------------------------
(* resolveMiss and leadMiss.                                               *)

\* A cancelled context changes nothing the request holds.
LEMMA CancelKeeps ==
    ASSUME IInv, NEW r \in Requests, Cancel(r)
    PROVE  IInv'
<1>1. /\ req[r] \in Request /\ home[r] \in Handlers
      /\ Own(req[r]) /\ Place(r, req[r].pc) /\ Quiet(r, req[r])
      /\ shutdown[home[r]] # "none" => closing[home[r]]
  BY InvOf
<1> DEFINE q == [req[r] EXCEPT !.live = FALSE]
<1>2. q \in Request
  BY <1>1, Places, Zenon DEF Request
<1>3. /\ q.pc = req[r].pc /\ q.up = req[r].up /\ q.resp = req[r].resp
      /\ q.sent = req[r].sent /\ q.staged = req[r].staged /\ q.charged = req[r].charged
      /\ q.copied = req[r].copied
      /\ q.orphaned = req[r].orphaned /\ q.retained = req[r].retained
      /\ q.writing = req[r].writing
  BY <1>1 DEF Request
<1>4. Becomes(r, q) /\ UNCHANGED <<config, shared>>
  BY <1>1 DEF Cancel
<1> HIDE DEF q
<1>5. Own(q)
  BY <1>1, <1>3 DEF Cancel, Own, BeforeFill, Writing, Unstreamed
<1>6. Place(r, q.pc) /\ Quiet(r, q)
  BY <1>1, <1>3 DEF Cancel, Place, Quiet, Owning, Leading, Filling
<1> QED
  BY <1>2, <1>4, <1>5, <1>6, LocalStep

\* The first lookup acquires nothing.
LEMMA LookupKeeps ==
    ASSUME IInv, NEW r \in Requests, Lookup(r)
    PROVE  IInv'
<1>1. /\ req[r] \in Request /\ home[r] \in Handlers
      /\ Own(req[r]) /\ Place(r, req[r].pc) /\ Quiet(r, req[r])
      /\ shutdown[home[r]] # "none" => closing[home[r]]
  BY InvOf
<1>2. CASE To(r, "claim")
  <2> DEFINE q == At(req[r], "claim")
  <2>1. q \in Request
    BY <1>1, Places DEF At, Request
  <2>2. /\ q.pc = "claim" /\ q.up = req[r].up /\ q.resp = req[r].resp
        /\ q.sent = req[r].sent /\ q.staged = req[r].staged /\ q.charged = req[r].charged
        /\ q.copied = req[r].copied
        /\ q.orphaned = req[r].orphaned /\ q.retained = req[r].retained
        /\ q.writing = req[r].writing
    BY <1>1 DEF At, Request
  <2>3. Becomes(r, q) /\ UNCHANGED <<config, shared>>
    BY <1>1, <1>2 DEF Lookup, To
  <2> HIDE DEF q
  <2>4. Own(q)
    BY <1>1, <1>2, <2>2 DEF Lookup, Own, BeforeFill, Writing, Unstreamed
  <2>5. Place(r, q.pc) /\ Quiet(r, q)
    BY <1>1, <1>2, <2>2 DEF Lookup, Place, Quiet, Owning, Leading, Filling
  <2> QED
    BY <2>1, <2>3, <2>4, <2>5, LocalStep
<1>3. CASE To(r, "end")
  <2> DEFINE q == At(req[r], "end")
  <2>1. q \in Request
    BY <1>1, Places, Zenon DEF At, Request
  <2>2. /\ q.pc = "end" /\ q.up = req[r].up /\ q.staged = req[r].staged
        /\ q.charged = req[r].charged /\ q.copied = req[r].copied
        /\ q.orphaned = req[r].orphaned /\ q.retained = req[r].retained
        /\ q.writing = req[r].writing
    BY <1>1 DEF At, Request
  <2>3. Becomes(r, q) /\ UNCHANGED <<config, shared>>
    BY <1>1, <1>3 DEF Lookup, To
  <2> HIDE DEF q
  <2>4. Own(q)
    BY <1>1, <1>3, <2>2 DEF Lookup, Own, BeforeFill, Writing, Unstreamed
  <2>5. Place(r, q.pc) /\ Quiet(r, q)
    BY <1>1, <1>3, <2>2 DEF Lookup, Place, Quiet, Owning, Leading, Filling
  <2> QED
    BY <2>1, <2>3, <2>4, <2>5, LocalStep
<1> QED
  BY <1>2, <1>3 DEF Lookup

\* A leader takes a free flight; a follower or a cancelled request takes nothing.
LEMMA ClaimKeeps ==
    ASSUME IInv, NEW r \in Requests, Claim(r)
    PROVE  IInv'
<1>1. /\ req[r] \in Request /\ home[r] \in Handlers /\ req \in [Requests -> Request]
      /\ Own(req[r]) /\ Place(r, req[r].pc) /\ Quiet(r, req[r])
  BY InvOf
<1>2. CASE ~req[r].live
  <2> DEFINE q == At(req[r], "end")
  <2>1. q \in Request
    BY <1>1, Places, Zenon DEF At, Request
  <2>2. /\ q.pc = "end" /\ q.up = req[r].up /\ q.staged = req[r].staged
        /\ q.charged = req[r].charged /\ q.copied = req[r].copied
        /\ q.orphaned = req[r].orphaned /\ q.retained = req[r].retained
        /\ q.writing = req[r].writing
    BY <1>1 DEF At, Request
  <2>3. Becomes(r, q) /\ UNCHANGED <<config, shared>>
    BY <1>1, <1>2 DEF Claim, To
  <2> HIDE DEF q
  <2>4. Own(q)
    BY <1>1, <1>2, <2>2 DEF Claim, Own, BeforeFill, Writing, Unstreamed
  <2>5. Place(r, q.pc) /\ Quiet(r, q)
    BY <1>1, <1>2, <2>2 DEF Claim, Place, Quiet, Owning, Leading, Filling
  <2> QED
    BY <2>1, <2>3, <2>4, <2>5, LocalStep
<1>3. CASE req[r].live /\ flight[home[r]] = None /\ coordinated
  <2> DEFINE q == At(req[r], "acquire")
  <2>1. q \in Request
    BY <1>1, Places DEF At, Request
  <2>2. /\ q.pc = "acquire" /\ q.up = req[r].up /\ q.resp = req[r].resp
        /\ q.sent = req[r].sent /\ q.staged = req[r].staged /\ q.charged = req[r].charged
        /\ q.copied = req[r].copied
        /\ q.orphaned = req[r].orphaned /\ q.retained = req[r].retained
        /\ q.writing = req[r].writing
    BY <1>1 DEF At, Request
  <2>3. Becomes(r, q) /\ UNCHANGED <<config, closing, shutdown>>
    BY <1>1, <1>3 DEF Claim, To
  <2> HIDE DEF q
  <2>4. /\ req' \in [Requests -> Request]
        /\ \A p \in Requests : p # r => req'[p] = req[p]
    BY <1>1, <2>1, <2>3, BecomesFacts
  <2>5. TypeOK' /\ PublishedWhole'
    <3>1. flight' = [flight EXCEPT ![home[r]] = r]
          /\ UNCHANGED <<config, entry, done, lease, closing, shutdown>>
      BY <1>3 DEF Claim
    <3> QED
      BY <1>1, <2>4, <3>1 DEF IInv, TypeOK, PublishedWhole
  <2>6. Own(q) /\ Quiet(r, q)
    BY <1>1, <1>3, <2>2 DEF Claim, Own, Quiet, BeforeFill, Writing, Unstreamed
  <2>7. Place(r, "acquire")'
    BY <1>1, <1>3, <2>2 DEF Claim, IInv, TypeOK, Place, Owning, Leading, Filling
  <2>8. ASSUME NEW p \in Requests, p # r
       PROVE  Place(p, req[p].pc)'
    BY <1>1, <1>3, <2>4, <2>8 DEF Claim, IInv, TypeOK, Place, Owning, Leading, Filling
  <2> QED
    BY <2>1, <2>2, <2>3, <2>5, <2>6, <2>7, <2>8, SharedStep, Places
<1>4. CASE req[r].live /\ flight[home[r]] = None /\ ~coordinated
  <2> DEFINE q == At(req[r], "fetch")
  <2>1. q \in Request
    BY <1>1, Places DEF At, Request
  <2>2. /\ q.pc = "fetch" /\ q.up = req[r].up /\ q.resp = req[r].resp
        /\ q.sent = req[r].sent /\ q.staged = req[r].staged /\ q.charged = req[r].charged
        /\ q.copied = req[r].copied
        /\ q.orphaned = req[r].orphaned /\ q.retained = req[r].retained
        /\ q.writing = req[r].writing
    BY <1>1 DEF At, Request
  <2>3. Becomes(r, q) /\ UNCHANGED <<config, closing, shutdown>>
    BY <1>1, <1>4 DEF Claim, To
  <2> HIDE DEF q
  <2>4. /\ req' \in [Requests -> Request]
        /\ \A p \in Requests : p # r => req'[p] = req[p]
    BY <1>1, <2>1, <2>3, BecomesFacts
  <2>5. TypeOK' /\ PublishedWhole'
    BY <1>1, <1>4, <2>4 DEF Claim, IInv, TypeOK, PublishedWhole
  <2>6. Own(q) /\ Quiet(r, q)
    BY <1>1, <1>4, <2>2 DEF Claim, Own, Quiet, BeforeFill, Writing, Unstreamed
  <2>7. Place(r, "fetch")'
    BY <1>1, <1>4, <2>2 DEF Claim, IInv, TypeOK, Place, Owning, Leading, Filling
  <2>8. ASSUME NEW p \in Requests, p # r
       PROVE  Place(p, req[p].pc)'
    BY <1>1, <1>4, <2>4, <2>8 DEF Claim, IInv, TypeOK, Place, Owning, Leading, Filling
  <2> QED
    BY <2>1, <2>2, <2>3, <2>5, <2>6, <2>7, <2>8, SharedStep, Places
<1>5. CASE req[r].live /\ flight[home[r]] # None
  <2> DEFINE q == [req[r] EXCEPT !.pc = "wait", !.on = flight[home[r]]]
  <2>1. q \in Request
    BY <1>1, Places, Zenon DEF IInv, TypeOK, Request
  <2>2. /\ q.pc = "wait" /\ q.up = req[r].up /\ q.resp = req[r].resp /\ q.sent = req[r].sent
        /\ q.staged = req[r].staged /\ q.charged = req[r].charged
        /\ q.copied = req[r].copied
        /\ q.orphaned = req[r].orphaned /\ q.retained = req[r].retained
        /\ q.writing = req[r].writing
    BY <1>1 DEF Request
  <2>3. Becomes(r, q) /\ UNCHANGED <<config, shared>>
    BY <1>1, <1>5 DEF Claim
  <2> HIDE DEF q
  <2>4. Own(q)
    BY <1>1, <1>5, <2>2 DEF Claim, Own, BeforeFill, Writing, Unstreamed
  <2>5. Place(r, q.pc) /\ Quiet(r, q)
    BY <1>1, <1>5, <2>2 DEF Claim, Place, Quiet, Owning, Leading, Filling
  <2> QED
    BY <2>1, <2>3, <2>4, <2>5, LocalStep
<1> QED
  BY <1>2, <1>3, <1>4, <1>5 DEF Claim

\* A follower that stops waiting holds nothing.
LEMMA FollowKeeps ==
    ASSUME IInv, NEW r \in Requests, Follow(r)
    PROVE  IInv'
<1>1. /\ req[r] \in Request /\ home[r] \in Handlers
      /\ Own(req[r]) /\ Place(r, req[r].pc) /\ Quiet(r, req[r])
      /\ shutdown[home[r]] # "none" => closing[home[r]]
  BY InvOf
<1>2. CASE To(r, "recheck")
  <2> DEFINE q == At(req[r], "recheck")
  <2>1. q \in Request
    BY <1>1, Places DEF At, Request
  <2>2. /\ q.pc = "recheck" /\ q.up = req[r].up /\ q.resp = req[r].resp
        /\ q.sent = req[r].sent /\ q.staged = req[r].staged /\ q.charged = req[r].charged
        /\ q.copied = req[r].copied
        /\ q.orphaned = req[r].orphaned /\ q.retained = req[r].retained
        /\ q.writing = req[r].writing
    BY <1>1 DEF At, Request
  <2>3. Becomes(r, q) /\ UNCHANGED <<config, shared>>
    BY <1>1, <1>2 DEF Follow, To
  <2> HIDE DEF q
  <2>4. Own(q)
    BY <1>1, <1>2, <2>2 DEF Follow, Own, BeforeFill, Writing, Unstreamed
  <2>5. Place(r, q.pc) /\ Quiet(r, q)
    BY <1>1, <1>2, <2>2 DEF Follow, Place, Quiet, Owning, Leading, Filling
  <2> QED
    BY <2>1, <2>3, <2>4, <2>5, LocalStep
<1>3. CASE To(r, "end")
  <2> DEFINE q == At(req[r], "end")
  <2>1. q \in Request
    BY <1>1, Places, Zenon DEF At, Request
  <2>2. /\ q.pc = "end" /\ q.up = req[r].up /\ q.staged = req[r].staged
        /\ q.charged = req[r].charged /\ q.copied = req[r].copied
        /\ q.orphaned = req[r].orphaned /\ q.retained = req[r].retained
        /\ q.writing = req[r].writing
    BY <1>1 DEF At, Request
  <2>3. Becomes(r, q) /\ UNCHANGED <<config, shared>>
    BY <1>1, <1>3 DEF Follow, To
  <2> HIDE DEF q
  <2>4. Own(q)
    BY <1>1, <1>3, <2>2 DEF Follow, Own, BeforeFill, Writing, Unstreamed
  <2>5. Place(r, q.pc) /\ Quiet(r, q)
    BY <1>1, <1>3, <2>2 DEF Follow, Place, Quiet, Owning, Leading, Filling
  <2> QED
    BY <2>1, <2>3, <2>4, <2>5, LocalStep
<1> QED
  BY <1>2, <1>3 DEF Follow

\* A follower that looks again holds nothing yet.
LEMMA RecheckKeeps ==
    ASSUME IInv, NEW r \in Requests, Recheck(r)
    PROVE  IInv'
<1>1. /\ req[r] \in Request /\ home[r] \in Handlers
      /\ Own(req[r]) /\ Place(r, req[r].pc) /\ Quiet(r, req[r])
      /\ shutdown[home[r]] # "none" => closing[home[r]]
  BY InvOf
<1>2. CASE To(r, "end")
  <2> DEFINE q == At(req[r], "end")
  <2>1. q \in Request
    BY <1>1, Places, Zenon DEF At, Request
  <2>2. /\ q.pc = "end" /\ q.up = req[r].up /\ q.staged = req[r].staged
        /\ q.charged = req[r].charged /\ q.copied = req[r].copied
        /\ q.orphaned = req[r].orphaned /\ q.retained = req[r].retained
        /\ q.writing = req[r].writing
    BY <1>1 DEF At, Request
  <2>3. Becomes(r, q) /\ UNCHANGED <<config, shared>>
    BY <1>1, <1>2 DEF Recheck, To
  <2> HIDE DEF q
  <2>4. Own(q)
    BY <1>1, <1>2, <2>2 DEF Recheck, Own, BeforeFill, Writing, Unstreamed
  <2>5. Place(r, q.pc) /\ Quiet(r, q)
    BY <1>1, <1>2, <2>2 DEF Recheck, Place, Quiet, Owning, Leading, Filling
  <2> QED
    BY <2>1, <2>3, <2>4, <2>5, LocalStep
<1>3. CASE To(r, "claim")
  <2> DEFINE q == At(req[r], "claim")
  <2>1. q \in Request
    BY <1>1, Places DEF At, Request
  <2>2. /\ q.pc = "claim" /\ q.up = req[r].up /\ q.resp = req[r].resp
        /\ q.sent = req[r].sent /\ q.staged = req[r].staged /\ q.charged = req[r].charged
        /\ q.copied = req[r].copied
        /\ q.orphaned = req[r].orphaned /\ q.retained = req[r].retained
        /\ q.writing = req[r].writing
    BY <1>1 DEF At, Request
  <2>3. Becomes(r, q) /\ UNCHANGED <<config, shared>>
    BY <1>1, <1>3 DEF Recheck, To
  <2> HIDE DEF q
  <2>4. Own(q)
    BY <1>1, <1>3, <2>2 DEF Recheck, Own, BeforeFill, Writing, Unstreamed
  <2>5. Place(r, q.pc) /\ Quiet(r, q)
    BY <1>1, <1>3, <2>2 DEF Recheck, Place, Quiet, Owning, Leading, Filling
  <2> QED
    BY <2>1, <2>3, <2>4, <2>5, LocalStep
<1>4. CASE ~coordinated /\ To(r, "fetch")
  <2> DEFINE q == At(req[r], "fetch")
  <2>1. q \in Request
    BY <1>1, Places DEF At, Request
  <2>2. /\ q.pc = "fetch" /\ q.up = req[r].up /\ q.resp = req[r].resp
        /\ q.sent = req[r].sent /\ q.staged = req[r].staged /\ q.charged = req[r].charged
        /\ q.copied = req[r].copied
        /\ q.orphaned = req[r].orphaned /\ q.retained = req[r].retained
        /\ q.writing = req[r].writing
    BY <1>1 DEF At, Request
  <2>3. Becomes(r, q) /\ UNCHANGED <<config, shared>>
    BY <1>1, <1>4 DEF Recheck, To
  <2> HIDE DEF q
  <2>4. Own(q)
    BY <1>1, <1>4, <2>2 DEF Recheck, Own, BeforeFill, Writing, Unstreamed
  <2>5. Place(r, q.pc) /\ Quiet(r, q)
    BY <1>1, <1>4, <2>2 DEF Recheck, Place, Quiet, Owning, Leading, Filling
  <2> QED
    BY <2>1, <2>3, <2>4, <2>5, LocalStep
<1> QED
  BY <1>2, <1>3, <1>4 DEF Recheck

\* The lease is granted to a leader while nobody has it.
LEMMA AcquireKeeps ==
    ASSUME IInv, NEW r \in Requests, Acquire(r)
    PROVE  IInv'
<1>1. /\ req[r] \in Request /\ home[r] \in Handlers /\ req \in [Requests -> Request]
      /\ Own(req[r]) /\ Place(r, req[r].pc) /\ Quiet(r, req[r])
  BY InvOf
<1>2. CASE lease = None /\ lease' = r /\ To(r, "check")
  <2> DEFINE q == At(req[r], "check")
  <2>1. q \in Request
    BY <1>1, Places DEF At, Request
  <2>2. /\ q.pc = "check" /\ q.up = req[r].up /\ q.resp = req[r].resp
        /\ q.sent = req[r].sent /\ q.staged = req[r].staged /\ q.charged = req[r].charged
        /\ q.copied = req[r].copied
        /\ q.orphaned = req[r].orphaned /\ q.retained = req[r].retained
        /\ q.writing = req[r].writing
    BY <1>1 DEF At, Request
  <2>3. Becomes(r, q) /\ UNCHANGED <<config, closing, shutdown>>
    BY <1>1, <1>2 DEF Acquire, To
  <2> HIDE DEF q
  <2>4. /\ req' \in [Requests -> Request]
        /\ \A p \in Requests : p # r => req'[p] = req[p]
    BY <1>1, <2>1, <2>3, BecomesFacts
  <2>5. TypeOK' /\ PublishedWhole'
    BY <1>1, <1>2, <2>4 DEF Acquire, IInv, TypeOK, PublishedWhole
  <2>6. Own(q) /\ Quiet(r, q)
    BY <1>1, <1>2, <2>2 DEF Acquire, Own, Quiet, BeforeFill, Writing, Unstreamed
  <2>7. Place(r, "check")'
    BY <1>1, <1>2, <2>2 DEF Acquire, IInv, TypeOK, Place, Owning, Leading, Filling
  <2>8. ASSUME NEW p \in Requests, p # r
       PROVE  Place(p, req[p].pc)'
    BY <1>1, <1>2, <2>4, <2>8 DEF Acquire, IInv, TypeOK, Place, Owning, Leading, Filling
  <2> QED
    BY <2>1, <2>2, <2>3, <2>5, <2>6, <2>7, <2>8, SharedStep, Places
<1>3. CASE To(r, "finish") /\ UNCHANGED lease
  <2> DEFINE q == At(req[r], "finish")
  <2>1. q \in Request
    BY <1>1, Places DEF At, Request
  <2>2. /\ q.pc = "finish" /\ q.up = req[r].up
        /\ q.staged = req[r].staged /\ q.charged = req[r].charged
        /\ q.copied = req[r].copied
        /\ q.orphaned = req[r].orphaned /\ q.retained = req[r].retained
        /\ q.writing = req[r].writing
    BY <1>1 DEF At, Request
  <2>3. Becomes(r, q) /\ UNCHANGED <<config, shared>>
    BY <1>1, <1>3 DEF Acquire, To
  <2> HIDE DEF q
  <2>4. Own(q)
    BY <1>1, <1>3, <2>2 DEF Acquire, Own, BeforeFill, Writing, Unstreamed
  <2>5. Place(r, q.pc) /\ Quiet(r, q)
    BY <1>1, <1>3, <2>2 DEF Acquire, Place, Quiet, Owning, Leading, Filling
  <2> QED
    BY <2>1, <2>3, <2>4, <2>5, LocalStep
<1> QED
  BY <1>2, <1>3 DEF Acquire

\* A fill starts under the lease, with the entry missing.
LEMMA CheckOwnedKeeps ==
    ASSUME IInv, NEW r \in Requests, CheckOwned(r)
    PROVE  IInv'
<1>1. /\ req[r] \in Request /\ home[r] \in Handlers
      /\ Own(req[r]) /\ Place(r, req[r].pc) /\ Quiet(r, req[r])
      /\ shutdown[home[r]] # "none" => closing[home[r]]
  BY InvOf
<1>2. CASE entry = None /\ To(r, "fetch")
  <2> DEFINE q == At(req[r], "fetch")
  <2>1. q \in Request
    BY <1>1, Places DEF At, Request
  <2>2. /\ q.pc = "fetch" /\ q.up = req[r].up /\ q.resp = req[r].resp
        /\ q.sent = req[r].sent /\ q.staged = req[r].staged /\ q.charged = req[r].charged
        /\ q.copied = req[r].copied
        /\ q.orphaned = req[r].orphaned /\ q.retained = req[r].retained
        /\ q.writing = req[r].writing
    BY <1>1 DEF At, Request
  <2>3. Becomes(r, q) /\ UNCHANGED <<config, shared>>
    BY <1>1, <1>2 DEF CheckOwned, To
  <2> HIDE DEF q
  <2>4. Own(q)
    BY <1>1, <1>2, <2>2 DEF CheckOwned, Own, BeforeFill, Writing, Unstreamed
  <2>5. Place(r, q.pc) /\ Quiet(r, q)
    BY <1>1, <1>2, <2>2 DEF CheckOwned, Place, Quiet, Owning, Leading, Filling
  <2> QED
    BY <2>1, <2>3, <2>4, <2>5, LocalStep
<1>3. CASE To(r, "closeLease")
  <2> DEFINE q == At(req[r], "closeLease")
  <2>1. q \in Request
    BY <1>1, Places DEF At, Request
  <2>2. /\ q.pc = "closeLease" /\ q.up = req[r].up
        /\ q.staged = req[r].staged /\ q.charged = req[r].charged
        /\ q.copied = req[r].copied
        /\ q.orphaned = req[r].orphaned /\ q.retained = req[r].retained
        /\ q.writing = req[r].writing
    BY <1>1 DEF At, Request
  <2>3. Becomes(r, q) /\ UNCHANGED <<config, shared>>
    BY <1>1, <1>3 DEF CheckOwned, To
  <2> HIDE DEF q
  <2>4. Own(q)
    BY <1>1, <1>3, <2>2 DEF CheckOwned, Own, BeforeFill, Writing, Unstreamed
  <2>5. Place(r, q.pc) /\ Quiet(r, q)
    BY <1>1, <1>3, <2>2 DEF CheckOwned, Place, Quiet, Owning, Leading, Filling
  <2> QED
    BY <2>1, <2>3, <2>4, <2>5, LocalStep
<1> QED
  BY <1>2, <1>3 DEF CheckOwned

-----------------------------------------------------------------------------
(* passUpstreamWithHandler.                                                *)

\* The upstream handler is started once.
LEMMA FetchKeeps ==
    ASSUME IInv, NEW r \in Requests, Fetch(r)
    PROVE  IInv'
<1>1. /\ req[r] \in Request /\ home[r] \in Handlers
      /\ Own(req[r]) /\ Place(r, req[r].pc) /\ Quiet(r, req[r])
      /\ shutdown[home[r]] # "none" => closing[home[r]]
  BY InvOf
<1> DEFINE q == [req[r] EXCEPT !.pc = "headers", !.up = "run"]
<1>2. q \in Request
  BY <1>1, Places, Zenon DEF Request
<1>3. /\ q.pc = "headers" /\ q.up = "run" /\ q.resp = req[r].resp /\ q.sent = req[r].sent
      /\ q.staged = req[r].staged /\ q.charged = req[r].charged /\ q.copied = req[r].copied
      /\ q.orphaned = req[r].orphaned /\ q.retained = req[r].retained
      /\ q.writing = req[r].writing
  BY <1>1 DEF Request
<1>4. Becomes(r, q) /\ UNCHANGED <<config, shared>>
  BY <1>1 DEF Fetch
<1> HIDE DEF q
<1>5. Own(q)
  BY <1>1, <1>3 DEF Fetch, Own, BeforeFill, Writing, Unstreamed
<1>6. Place(r, q.pc) /\ Quiet(r, q)
  BY <1>1, <1>3 DEF Fetch, Place, Quiet, Owning, Leading, Filling
<1> QED
  BY <1>2, <1>4, <1>5, <1>6, LocalStep

\* The headers arrive.
LEMMA UpHeadersKeeps ==
    ASSUME IInv, NEW r \in Requests, NEW resp \in Responses \ {"cut"}, UpHeaders(r, resp)
    PROVE  IInv'
<1>1. /\ req[r] \in Request /\ home[r] \in Handlers
      /\ Own(req[r]) /\ Place(r, req[r].pc) /\ Quiet(r, req[r])
      /\ shutdown[home[r]] # "none" => closing[home[r]]
  BY InvOf
<1> DEFINE q == [req[r] EXCEPT !.up = IF budgeted THEN "deferred" ELSE "body", !.resp = resp]
<1>2. q \in Request
  BY <1>1, Places, Zenon DEF Request
<1>3. /\ q.pc = req[r].pc /\ q.up = (IF budgeted THEN "deferred" ELSE "body")
      /\ q.resp = resp /\ q.sent = req[r].sent /\ q.staged = req[r].staged
      /\ q.charged = req[r].charged /\ q.copied = req[r].copied
      /\ q.orphaned = req[r].orphaned /\ q.retained = req[r].retained
      /\ q.writing = req[r].writing
  BY <1>1 DEF Request
<1>4. Becomes(r, q) /\ UNCHANGED <<config, shared>>
  BY <1>1 DEF UpHeaders
<1> HIDE DEF q
<1>5. Own(q)
  BY <1>1, <1>3 DEF UpHeaders, Own, BeforeFill, Writing, Unstreamed
<1>6. Place(r, q.pc) /\ Quiet(r, q)
  BY <1>1, <1>3 DEF UpHeaders, Place, Quiet, Owning, Leading, Filling
<1> QED
  BY <1>2, <1>4, <1>5, <1>6, LocalStep

\* A response that cannot be staged is drained.
LEMMA HeadersKeeps ==
    ASSUME IInv, NEW r \in Requests, Headers(r)
    PROVE  IInv'
<1>1. /\ req[r] \in Request /\ home[r] \in Handlers
      /\ Own(req[r]) /\ Place(r, req[r].pc) /\ Quiet(r, req[r])
      /\ shutdown[home[r]] # "none" => closing[home[r]]
  BY InvOf
<1>2. CASE req[r].resp = "uncacheable"
  <2> DEFINE q == [req[r] EXCEPT !.pc = "drain", !.up = Committed(@)]
  <2>1. q \in Request
    BY <1>1, Places, Zenon DEF Request, Committed
  <2>2. /\ q.pc = "drain" /\ q.up = Committed(req[r].up) /\ q.resp = req[r].resp
        /\ q.sent = req[r].sent /\ q.staged = req[r].staged /\ q.charged = req[r].charged
        /\ q.copied = req[r].copied
        /\ q.orphaned = req[r].orphaned /\ q.retained = req[r].retained
        /\ q.writing = req[r].writing
    BY <1>1 DEF Request
  <2>3. Becomes(r, q) /\ UNCHANGED <<config, shared>>
    BY <1>1, <1>2 DEF Headers
  <2> HIDE DEF q
  <2>4. Own(q)
    BY <1>1, <1>2, <2>2 DEF Headers, Own, BeforeFill, Writing, Unstreamed
  <2>5. Place(r, q.pc) /\ Quiet(r, q)
    BY <1>1, <1>2, <2>2 DEF Headers, Place, Quiet, Owning, Leading, Filling
  <2> QED
    BY <2>1, <2>3, <2>4, <2>5, LocalStep
<1>3. CASE req[r].resp # "uncacheable"
  <2> DEFINE q == At(req[r], "stage")
  <2>1. q \in Request
    BY <1>1, Places DEF At, Request
  <2>2. /\ q.pc = "stage" /\ q.up = req[r].up /\ q.resp = req[r].resp
        /\ q.sent = req[r].sent /\ q.staged = req[r].staged /\ q.charged = req[r].charged
        /\ q.copied = req[r].copied
        /\ q.orphaned = req[r].orphaned /\ q.retained = req[r].retained
        /\ q.writing = req[r].writing
    BY <1>1 DEF At, Request
  <2>3. Becomes(r, q) /\ UNCHANGED <<config, shared>>
    BY <1>1, <1>3 DEF Headers, To
  <2> HIDE DEF q
  <2>4. Own(q)
    BY <1>1, <1>3, <2>2 DEF Headers, Own, BeforeFill, Writing, Unstreamed
  <2>5. Place(r, q.pc) /\ Quiet(r, q)
    BY <1>1, <1>3, <2>2 DEF Headers, Place, Quiet, Owning, Leading, Filling
  <2> QED
    BY <2>1, <2>3, <2>4, <2>5, LocalStep
<1> QED
  BY <1>2, <1>3 DEF Headers

\* A stage is opened, or refused.
LEMMA OpenStageKeeps ==
    ASSUME IInv, NEW r \in Requests, OpenStage(r)
    PROVE  IInv'
<1>1. /\ req[r] \in Request /\ home[r] \in Handlers
      /\ Own(req[r]) /\ Place(r, req[r].pc) /\ Quiet(r, req[r])
      /\ shutdown[home[r]] # "none" => closing[home[r]]
  BY InvOf
<1>2. CASE Becomes(r, [req[r] EXCEPT !.pc = "copy", !.up = Committed(@)])
  <2> DEFINE q == [req[r] EXCEPT !.pc = "copy", !.up = Committed(@)]
  <2>1. q \in Request
    BY <1>1, Places, Zenon DEF Request, Committed
  <2>2. /\ q.pc = "copy" /\ q.up = Committed(req[r].up) /\ q.resp = req[r].resp
        /\ q.sent = req[r].sent /\ q.staged = req[r].staged /\ q.charged = req[r].charged
        /\ q.copied = req[r].copied
        /\ q.orphaned = req[r].orphaned /\ q.retained = req[r].retained
        /\ q.writing = req[r].writing
    BY <1>1 DEF Request
  <2>3. Becomes(r, q) /\ UNCHANGED <<config, shared>>
    BY <1>1, <1>2 DEF OpenStage
  <2> HIDE DEF q
  <2>4. Own(q)
    BY <1>1, <1>2, <2>2 DEF OpenStage, Own, BeforeFill, Writing, Unstreamed
  <2>5. Place(r, q.pc) /\ Quiet(r, q)
    BY <1>1, <1>2, <2>2 DEF OpenStage, Place, Quiet, Owning, Leading, Filling
  <2> QED
    BY <2>1, <2>3, <2>4, <2>5, LocalStep
<1>3. CASE Becomes(r, [req[r] EXCEPT !.pc = "drain", !.up = Committed(@)])
  <2> DEFINE q == [req[r] EXCEPT !.pc = "drain", !.up = Committed(@)]
  <2>1. q \in Request
    BY <1>1, Places, Zenon DEF Request, Committed
  <2>2. /\ q.pc = "drain" /\ q.up = Committed(req[r].up) /\ q.resp = req[r].resp
        /\ q.sent = req[r].sent /\ q.staged = req[r].staged /\ q.charged = req[r].charged
        /\ q.copied = req[r].copied
        /\ q.orphaned = req[r].orphaned /\ q.retained = req[r].retained
        /\ q.writing = req[r].writing
    BY <1>1 DEF Request
  <2>3. Becomes(r, q) /\ UNCHANGED <<config, shared>>
    BY <1>1, <1>3 DEF OpenStage
  <2> HIDE DEF q
  <2>4. Own(q)
    BY <1>1, <1>3, <2>2 DEF OpenStage, Own, BeforeFill, Writing, Unstreamed
  <2>5. Place(r, q.pc) /\ Quiet(r, q)
    BY <1>1, <1>3, <2>2 DEF OpenStage, Place, Quiet, Owning, Leading, Filling
  <2> QED
    BY <2>1, <2>3, <2>4, <2>5, LocalStep
<1> QED
  BY <1>2, <1>3, Zenon DEF OpenStage

\* A chunk is staged and charged, or the stage is given up with its charge.
LEMMA CopyChunkKeeps ==
    ASSUME IInv, NEW r \in Requests, CopyChunk(r)
    PROVE  IInv'
<1>1. /\ req[r] \in Request /\ home[r] \in Handlers
      /\ Own(req[r]) /\ Place(r, req[r].pc) /\ Quiet(r, req[r])
      /\ shutdown[home[r]] # "none" => closing[home[r]]
  BY InvOf
<1>2. CASE Becomes(r, [req[r] EXCEPT !.sent = @ + 1, !.staged = @ + 1,
                          !.charged = IF budgeted THEN @ + 1 ELSE 0])
  <2> DEFINE q == [req[r] EXCEPT !.sent = @ + 1, !.staged = @ + 1,
                          !.charged = IF budgeted THEN @ + 1 ELSE 0]
  <2>1. q \in Request
    <3>1. req[r].sent + 1 \in Nat /\ req[r].staged + 1 \in Nat /\ req[r].charged + 1 \in Nat
      BY <1>1 DEF Request
    <3>2. "drain" \in PCs
      BY Places
    <3> QED
      BY <1>1, <3>1, <3>2, Zenon DEF Request
  <2>2. /\ q.pc = req[r].pc /\ q.up = req[r].up /\ q.resp = req[r].resp
        /\ q.sent = req[r].sent + 1 /\ q.staged = req[r].staged + 1
        /\ q.charged = (IF budgeted THEN req[r].charged + 1 ELSE 0)
        /\ q.copied = req[r].copied
        /\ q.orphaned = req[r].orphaned /\ q.retained = req[r].retained
        /\ q.writing = req[r].writing
    BY <1>1 DEF Request
  <2>3. Becomes(r, q) /\ UNCHANGED <<config, shared>>
    BY <1>1, <1>2 DEF CopyChunk
  <2> HIDE DEF q
  <2>4. Own(q)
    BY <1>1, <1>2, <2>2 DEF CopyChunk, Own, BeforeFill, Writing, Unstreamed
  <2>5. Place(r, q.pc) /\ Quiet(r, q)
    BY <1>1, <1>2, <2>2 DEF CopyChunk, Place, Quiet, Owning, Leading, Filling
  <2> QED
    BY <2>1, <2>3, <2>4, <2>5, LocalStep
<1>3. CASE \E p \in CloseStage(req[r]) : Becomes(r, [p EXCEPT !.pc = "drain", !.sent = @ + 1])
  <2> PICK p \in CloseStage(req[r]) : Becomes(r, [p EXCEPT !.pc = "drain", !.sent = @ + 1])
    BY <1>3
  <2>1. /\ p \in Request
        /\ p.up = req[r].up /\ p.staged = 0 /\ p.charged = 0 /\ p.copied = req[r].copied
        /\ p.writing = req[r].writing /\ p.retained = (IF budgeted THEN p.orphaned ELSE 0)
    BY <1>1, ClosesStage
  <2> DEFINE q == [p EXCEPT !.pc = "drain", !.sent = @ + 1]
  <2>2. q \in Request
    <3>1. p.sent + 1 \in Nat /\ "drain" \in PCs
      BY <2>1, Places DEF Request
    <3> QED
      BY <2>1, <3>1, Zenon DEF Request
  <2>3. /\ q.pc = "drain" /\ q.up = p.up /\ q.staged = p.staged /\ q.charged = p.charged
        /\ q.copied = p.copied /\ q.orphaned = p.orphaned /\ q.retained = p.retained
        /\ q.writing = p.writing
    BY <2>1 DEF Request
  <2>4. Becomes(r, q) /\ UNCHANGED <<config, shared>>
    BY DEF CopyChunk
  <2> HIDE DEF q
  <2>5. Own(q)
    BY <1>1, <2>1, <2>3 DEF CopyChunk, Own, BeforeFill, Writing, Unstreamed
  <2>6. Place(r, q.pc) /\ Quiet(r, q)
    BY <1>1, <2>1, <2>3 DEF CopyChunk, Place, Quiet, Owning, Leading, Filling
  <2> QED
    BY <2>2, <2>4, <2>5, <2>6, LocalStep
<1> QED
  BY <1>2, <1>3 DEF CopyChunk

\* Draining touches no stage.
LEMMA DrainChunkKeeps ==
    ASSUME IInv, NEW r \in Requests, DrainChunk(r)
    PROVE  IInv'
<1>1. /\ req[r] \in Request /\ home[r] \in Handlers
      /\ Own(req[r]) /\ Place(r, req[r].pc) /\ Quiet(r, req[r])
      /\ shutdown[home[r]] # "none" => closing[home[r]]
  BY InvOf
<1> DEFINE q == [req[r] EXCEPT !.sent = @ + 1]
<1>2. q \in Request
  BY <1>1, Places DEF Request
<1>3. /\ q.pc = req[r].pc /\ q.up = req[r].up /\ q.resp = req[r].resp
      /\ q.sent = req[r].sent + 1 /\ q.staged = req[r].staged /\ q.charged = req[r].charged
      /\ q.copied = req[r].copied
      /\ q.orphaned = req[r].orphaned /\ q.retained = req[r].retained
      /\ q.writing = req[r].writing
  BY <1>1 DEF Request
<1>4. Becomes(r, q) /\ UNCHANGED <<config, shared>>
  BY <1>1 DEF DrainChunk
<1> HIDE DEF q
<1>5. Own(q)
  BY <1>1, <1>3 DEF DrainChunk, Own, BeforeFill, Writing, Unstreamed
<1>6. Place(r, q.pc) /\ Quiet(r, q)
  BY <1>1, <1>3 DEF DrainChunk, Place, Quiet, Owning, Leading, Filling
<1> QED
  BY <1>2, <1>4, <1>5, <1>6, LocalStep

\* The upstream goroutine ends.
LEMMA UpCloseKeeps ==
    ASSUME IInv, NEW r \in Requests, UpClose(r)
    PROVE  IInv'
<1>1. /\ req[r] \in Request /\ home[r] \in Handlers /\ req \in [Requests -> Request]
      /\ Own(req[r]) /\ Place(r, req[r].pc) /\ Quiet(r, req[r])
  BY InvOf
<1>2. PICK resp \in Responses \cup {"none"} :
             Becomes(r, [req[r] EXCEPT !.up = "closed", !.resp = resp])
  <2>1. req[r].resp \in Responses \cup {"none"}
    BY <1>1 DEF Request
  <2> QED
    BY <2>1, Zenon DEF UpClose, Responses
<1> DEFINE q == [req[r] EXCEPT !.up = "closed", !.resp = resp]
<1>3. q \in Request
  BY <1>1, Zenon DEF Request
<1>4. q.pc = req[r].pc /\ q.up = "closed" /\ q.resp = resp /\ q.sent = req[r].sent
      /\ q.staged = req[r].staged /\ q.charged = req[r].charged
      /\ q.copied = req[r].copied
      /\ q.orphaned = req[r].orphaned /\ q.retained = req[r].retained
      /\ q.writing = req[r].writing
  BY <1>1 DEF Request
<1>5. Becomes(r, q) /\ UNCHANGED <<config, shared>>
  BY <1>2 DEF UpClose
<1> HIDE DEF q
<1>6. Own(q)
  BY <1>1, <1>4 DEF UpClose, Own, BeforeFill, Writing, Unstreamed
<1>7. Place(r, q.pc) /\ Quiet(r, q)
  BY <1>1, <1>4 DEF Place, Quiet
<1> QED
  BY <1>3, <1>5, <1>6, <1>7, LocalStep

\* The copy is complete, or is given up with its charge.
LEMMA CopyEndKeeps ==
    ASSUME IInv, NEW r \in Requests, CopyEnd(r)
    PROVE  IInv'
<1>1. /\ req[r] \in Request /\ home[r] \in Handlers
      /\ Own(req[r]) /\ Place(r, req[r].pc) /\ Quiet(r, req[r])
      /\ shutdown[home[r]] # "none" => closing[home[r]]
  BY InvOf
<1>2. CASE Becomes(r, [req[r] EXCEPT !.pc = "store", !.up = "none"])
  <2> DEFINE q == [req[r] EXCEPT !.pc = "store", !.up = "none"]
  <2>1. q \in Request
    BY <1>1, Places, Zenon DEF Request
  <2>2. /\ q.pc = "store" /\ q.up = "none" /\ q.resp = req[r].resp
        /\ q.sent = req[r].sent /\ q.staged = req[r].staged /\ q.charged = req[r].charged
        /\ q.copied = req[r].copied
        /\ q.orphaned = req[r].orphaned /\ q.retained = req[r].retained
        /\ q.writing = req[r].writing
    BY <1>1 DEF Request
  <2>3. Becomes(r, q) /\ UNCHANGED <<config, shared>>
    BY <1>1, <1>2 DEF CopyEnd
  <2> HIDE DEF q
  <2>4. Own(q)
    BY <1>1, <1>2, <2>2 DEF CopyEnd, Own, BeforeFill, Writing, Unstreamed
  <2>5. Place(r, q.pc) /\ Quiet(r, q)
    BY <1>1, <1>2, <2>2 DEF CopyEnd, Place, Quiet, Owning, Leading, Filling
  <2> QED
    BY <2>1, <2>3, <2>4, <2>5, LocalStep
<1>3. CASE \E p \in CloseStage(req[r]) : Becomes(r, [At(p, "closeLease") EXCEPT !.up = "none"])
  <2> PICK p \in CloseStage(req[r]) : Becomes(r, [At(p, "closeLease") EXCEPT !.up = "none"])
    BY <1>3
  <2>1. /\ p \in Request /\ p.staged = 0 /\ p.charged = 0 /\ p.copied = req[r].copied
        /\ p.writing = req[r].writing /\ p.retained = (IF budgeted THEN p.orphaned ELSE 0)
    BY <1>1, ClosesStage
  <2> DEFINE q == [At(p, "closeLease") EXCEPT !.up = "none"]
  <2>2. /\ q \in Request
        /\ q.pc = "closeLease" /\ q.up = "none" /\ q.staged = p.staged
        /\ q.charged = p.charged /\ q.copied = p.copied /\ q.orphaned = p.orphaned
        /\ q.retained = p.retained /\ q.writing = p.writing
    BY <2>1, AtFacts, Places DEF Request
  <2>3. Becomes(r, q) /\ UNCHANGED <<config, shared>>
    BY DEF CopyEnd
  <2> HIDE DEF q
  <2>4. Own(q)
    BY <1>1, <2>1, <2>2 DEF CopyEnd, Own, BeforeFill, Writing, Unstreamed
  <2>5. Place(r, q.pc) /\ Quiet(r, q)
    BY <1>1, <2>1, <2>2 DEF CopyEnd, Place, Quiet, Owning, Leading, Filling
  <2> QED
    BY <2>2, <2>3, <2>4, <2>5, LocalStep
<1> QED
  BY <1>2, <1>3 DEF CopyEnd

\* A fill that is not stored goes on to release its lease.
LEMMA DrainEndKeeps ==
    ASSUME IInv, NEW r \in Requests, DrainEnd(r)
    PROVE  IInv'
<1>1. /\ req[r] \in Request /\ home[r] \in Handlers
      /\ Own(req[r]) /\ Place(r, req[r].pc) /\ Quiet(r, req[r])
      /\ shutdown[home[r]] # "none" => closing[home[r]]
  BY InvOf
<1> DEFINE q == [At(req[r], "closeLease") EXCEPT !.up = "none"]
<1>2. q \in Request
  <2>1. At(req[r], "closeLease") \in Request
    BY <1>1, AtFacts, Places
  <2> QED
    BY <2>1 DEF Request
<1>3. /\ q.pc = "closeLease" /\ q.up = "none" /\ q.staged = req[r].staged
      /\ q.charged = req[r].charged /\ q.copied = req[r].copied
      /\ q.orphaned = req[r].orphaned /\ q.retained = req[r].retained
      /\ q.writing = req[r].writing
  BY <1>1, AtFacts, Places DEF Request
<1>4. Becomes(r, q) /\ UNCHANGED <<config, shared>>
  BY DEF DrainEnd
<1> HIDE DEF q
<1>5. Own(q)
  BY <1>1, <1>3 DEF DrainEnd, Own, BeforeFill, Writing, Unstreamed
<1>6. Place(r, q.pc) /\ Quiet(r, q)
  BY <1>1, <1>3 DEF DrainEnd, Place, Quiet, Owning, Leading, Filling
<1> QED
  BY <1>2, <1>4, <1>5, <1>6, LocalStep

-----------------------------------------------------------------------------
(* storeResource.                                                          *)

\* A write begins only while the Handler is not closing.
LEMMA StoreResourceKeeps ==
    ASSUME IInv, NEW r \in Requests, StoreResource(r)
    PROVE  IInv'
<1>1. /\ req[r] \in Request /\ home[r] \in Handlers
      /\ Own(req[r]) /\ Place(r, req[r].pc) /\ Quiet(r, req[r])
      /\ shutdown[home[r]] # "none" => closing[home[r]]
  BY InvOf
<1>2. CASE closing[home[r]]
  <2> DEFINE q == [req[r] EXCEPT !.pc = "closeResource", !.writing = FALSE]
  <2>1. q \in Request
    BY <1>1, Places, Zenon DEF Request
  <2>2. /\ q.pc = "closeResource" /\ q.up = req[r].up /\ q.resp = req[r].resp
        /\ q.sent = req[r].sent /\ q.staged = req[r].staged /\ q.charged = req[r].charged
        /\ q.copied = req[r].copied
        /\ q.orphaned = req[r].orphaned /\ q.retained = req[r].retained
        /\ q.writing = FALSE
    BY <1>1 DEF Request
  <2>3. Becomes(r, q) /\ UNCHANGED <<config, shared>>
    BY <1>1, <1>2, Zenon DEF StoreResource
  <2> HIDE DEF q
  <2>4. Own(q)
    BY <1>1, <1>2, <2>2 DEF StoreResource, Own, BeforeFill, Writing, Unstreamed
  <2>5. Place(r, q.pc) /\ Quiet(r, q)
    BY <1>1, <1>2, <2>2 DEF StoreResource, Place, Quiet, Owning, Leading, Filling
  <2> QED
    BY <2>1, <2>3, <2>4, <2>5, LocalStep
<1>3. CASE ~closing[home[r]]
  <2> DEFINE q == [req[r] EXCEPT !.pc = "publish", !.writing = TRUE]
  <2>1. q \in Request
    BY <1>1, Places, Zenon DEF Request
  <2>2. /\ q.pc = "publish" /\ q.up = req[r].up /\ q.resp = req[r].resp
        /\ q.sent = req[r].sent /\ q.staged = req[r].staged /\ q.charged = req[r].charged
        /\ q.copied = req[r].copied
        /\ q.orphaned = req[r].orphaned /\ q.retained = req[r].retained
        /\ q.writing = TRUE
    BY <1>1 DEF Request
  <2>3. Becomes(r, q) /\ UNCHANGED <<config, shared>>
    BY <1>1, <1>3, Zenon DEF StoreResource
  <2> HIDE DEF q
  <2>4. Own(q)
    BY <1>1, <1>3, <2>2 DEF StoreResource, Own, BeforeFill, Writing, Unstreamed
  <2>5. Place(r, q.pc) /\ Quiet(r, q)
    BY <1>1, <1>3, <2>2 DEF StoreResource, Place, Quiet, Owning, Leading, Filling
  <2> QED
    BY <2>1, <2>3, <2>4, <2>5, LocalStep
<1> QED
  BY <1>2, <1>3 DEF StoreResource

\* The cache charges its own copy.
LEMMA PublishStageKeeps ==
    ASSUME IInv, NEW r \in Requests, PublishStage(r)
    PROVE  IInv'
<1>1. /\ req[r] \in Request /\ home[r] \in Handlers
      /\ Own(req[r]) /\ Place(r, req[r].pc) /\ Quiet(r, req[r])
      /\ shutdown[home[r]] # "none" => closing[home[r]]
  BY InvOf
<1> DEFINE q == [req[r] EXCEPT !.pc = "commit", !.copied = IF budgeted THEN req[r].staged ELSE 0]
<1>2. q \in Request
  BY <1>1, Places, Zenon DEF Request
<1>3. /\ q.pc = "commit" /\ q.up = req[r].up /\ q.resp = req[r].resp /\ q.sent = req[r].sent
      /\ q.staged = req[r].staged /\ q.charged = req[r].charged
      /\ q.copied = (IF budgeted THEN req[r].staged ELSE 0)
      /\ q.orphaned = req[r].orphaned /\ q.retained = req[r].retained
      /\ q.writing = req[r].writing
  BY <1>1 DEF Request
<1>4. Becomes(r, q) /\ UNCHANGED <<config, shared>>
  BY <1>1 DEF PublishStage
<1> HIDE DEF q
<1>5. Own(q)
  BY <1>1, <1>3 DEF PublishStage, Own, BeforeFill, Writing, Unstreamed
<1>6. Place(r, q.pc) /\ Quiet(r, q)
  BY <1>1, <1>3 DEF PublishStage, Place, Quiet, Owning, Leading, Filling
<1> QED
  BY <1>2, <1>4, <1>5, <1>6, LocalStep

\* The entry is published while its request alone fills.
LEMMA PublishCommitKeeps ==
    ASSUME IInv, NEW r \in Requests, PublishCommit(r)
    PROVE  IInv'
<1>1. /\ req[r] \in Request /\ home[r] \in Handlers /\ req \in [Requests -> Request]
      /\ Own(req[r]) /\ Place(r, req[r].pc) /\ Quiet(r, req[r])
  BY InvOf
<1> DEFINE q == [req[r] EXCEPT !.pc = "closeResource", !.copied = 0]
<1>2. q \in Request
  BY <1>1, Places, Zenon DEF Request
<1>3. /\ q.pc = "closeResource" /\ q.up = req[r].up /\ q.resp = req[r].resp
      /\ q.sent = req[r].sent /\ q.staged = req[r].staged /\ q.charged = req[r].charged
      /\ q.copied = 0
      /\ q.orphaned = req[r].orphaned /\ q.retained = req[r].retained
      /\ q.writing = req[r].writing
  BY <1>1 DEF Request
<1>4. Becomes(r, q) /\ UNCHANGED <<config, closing, shutdown>>
  BY <1>1 DEF PublishCommit
<1> HIDE DEF q
<1>5. /\ req' \in [Requests -> Request]
      /\ \A p \in Requests : p # r => req'[p] = req[p]
  BY <1>1, <1>2, <1>4, BecomesFacts
<1>6. TypeOK' /\ PublishedWhole'
  BY <1>1, <1>5 DEF PublishCommit, IInv, TypeOK, PublishedWhole, Own, Entry
<1>7. Own(q) /\ Quiet(r, q)
  BY <1>1, <1>3 DEF PublishCommit, Own, Quiet, BeforeFill, Writing, Unstreamed
<1>8. Place(r, "closeResource")'
  BY <1>1, <1>3 DEF PublishCommit, IInv, TypeOK, Place, Owning, Leading, Filling
<1>9. ASSUME NEW p \in Requests, p # r
     PROVE  Place(p, req[p].pc)'
  BY <1>1, <1>5, <1>9 DEF PublishCommit, IInv, TypeOK, Place, Owning, Leading, Filling
<1> QED
  BY <1>2, <1>3, <1>4, <1>6, <1>7, <1>8, <1>9, SharedStep, Places

\* A failed publication releases the cache's copy, or keeps its charge with its file.
LEMMA PublishFailsKeeps ==
    ASSUME IInv, NEW r \in Requests, PublishFails(r)
    PROVE  IInv'
<1>1. /\ req[r] \in Request /\ home[r] \in Handlers
      /\ Own(req[r]) /\ Place(r, req[r].pc) /\ Quiet(r, req[r])
      /\ shutdown[home[r]] # "none" => closing[home[r]]
  BY InvOf
<1>2. PICK n \in 0 .. req[r].staged :
             \E p \in AbandonStaged(req[r], n) : Becomes(r, [p EXCEPT !.pc = "closeResource"])
  BY DEF PublishFails
<1>3. n \in Nat
  BY <1>1 DEF Request
<1>4. PICK p \in AbandonStaged(req[r], n) : Becomes(r, [p EXCEPT !.pc = "closeResource"])
  BY <1>2
<1>5. /\ p \in Request
      /\ p.up = req[r].up /\ p.resp = req[r].resp /\ p.sent = req[r].sent
      /\ p.staged = req[r].staged /\ p.charged = req[r].charged /\ p.copied = 0
      /\ p.writing = req[r].writing /\ p.retained = (IF budgeted THEN p.orphaned ELSE 0)
  BY <1>1, <1>3, AbandonsStaged
<1> DEFINE q == [p EXCEPT !.pc = "closeResource"]
<1>6. /\ q \in Request
      /\ q.pc = "closeResource" /\ q.up = p.up /\ q.resp = p.resp /\ q.sent = p.sent
      /\ q.staged = p.staged /\ q.charged = p.charged /\ q.copied = p.copied
      /\ q.orphaned = p.orphaned /\ q.retained = p.retained /\ q.writing = p.writing
  BY <1>5, Places, Zenon DEF Request
<1>7. Becomes(r, q) /\ UNCHANGED <<config, shared>>
  BY <1>4 DEF PublishFails
<1> HIDE DEF q
<1>8. Own(q)
  BY <1>1, <1>5, <1>6 DEF PublishFails, Own, BeforeFill, Writing, Unstreamed
<1>9. Place(r, q.pc) /\ Quiet(r, q)
  BY <1>1, <1>5, <1>6 DEF PublishFails, Place, Quiet, Owning, Leading, Filling
<1> QED
  BY <1>6, <1>7, <1>8, <1>9, LocalStep

\* The stage and its charge go, or stay, together.
LEMMA CloseResourceKeeps ==
    ASSUME IInv, NEW r \in Requests, CloseResource(r)
    PROVE  IInv'
<1>1. /\ req[r] \in Request /\ home[r] \in Handlers
      /\ Own(req[r]) /\ Place(r, req[r].pc) /\ Quiet(r, req[r])
      /\ shutdown[home[r]] # "none" => closing[home[r]]
  BY InvOf
<1>2. PICK p \in CloseStage(req[r]) : Becomes(r, At(p, "closeLease"))
  BY DEF CloseResource
<1>3. /\ p \in Request /\ p.up = req[r].up
      /\ p.staged = 0 /\ p.charged = 0 /\ p.copied = req[r].copied
      /\ p.writing = req[r].writing /\ p.retained = (IF budgeted THEN p.orphaned ELSE 0)
  BY <1>1, ClosesStage
<1> DEFINE q == At(p, "closeLease")
<1>4. /\ q \in Request
      /\ q.pc = "closeLease" /\ q.up = p.up /\ q.staged = p.staged
      /\ q.charged = p.charged /\ q.copied = p.copied /\ q.orphaned = p.orphaned
      /\ q.retained = p.retained /\ q.writing = p.writing
  <2>1. "closeLease" \in PCs
    BY Places
  <2> QED
    BY <1>3, <2>1, AtFacts
<1>5. Becomes(r, q) /\ UNCHANGED <<config, shared>>
  BY <1>2 DEF CloseResource
<1> HIDE DEF q
<1>6. Own(q)
  BY <1>1, <1>3, <1>4 DEF CloseResource, Own, BeforeFill, Writing, Unstreamed
<1>7. Place(r, q.pc) /\ Quiet(r, q)
  BY <1>1, <1>3, <1>4 DEF CloseResource, Place, Quiet, Owning, Leading, Filling
<1> QED
  BY <1>4, <1>5, <1>6, <1>7, LocalStep

\* The lease is released after the publication.
LEMMA CloseLeaseKeeps ==
    ASSUME IInv, NEW r \in Requests, CloseLease(r)
    PROVE  IInv'
<1>1. /\ req[r] \in Request /\ home[r] \in Handlers /\ req \in [Requests -> Request]
      /\ Own(req[r]) /\ Place(r, req[r].pc) /\ Quiet(r, req[r])
  BY InvOf
<1> DEFINE q == At(req[r], "finish")
<1>2. q \in Request
  BY <1>1, Places DEF At, Request
<1>3. /\ q.pc = "finish" /\ q.up = req[r].up
      /\ q.staged = req[r].staged /\ q.charged = req[r].charged /\ q.copied = req[r].copied
      /\ q.orphaned = req[r].orphaned /\ q.retained = req[r].retained
      /\ q.writing = req[r].writing
  BY <1>1 DEF At, Request
<1>4. Becomes(r, q) /\ UNCHANGED <<config, closing, shutdown>>
  BY <1>1 DEF CloseLease, To
<1> HIDE DEF q
<1>5. /\ req' \in [Requests -> Request]
      /\ \A p \in Requests : p # r => req'[p] = req[p]
  BY <1>1, <1>2, <1>4, BecomesFacts
<1>6. TypeOK' /\ PublishedWhole'
  BY <1>1, <1>5 DEF CloseLease, IInv, TypeOK, PublishedWhole
<1>7. Own(q) /\ Quiet(r, q)
  BY <1>1, <1>3 DEF CloseLease, Own, Quiet, BeforeFill, Writing, Unstreamed
<1>8. Place(r, "finish")'
  BY <1>1, <1>3 DEF CloseLease, IInv, TypeOK, Place, Owning, Leading, Filling
<1>9. ASSUME NEW p \in Requests, p # r
     PROVE  Place(p, req[p].pc)'
  BY <1>1, <1>5, <1>9 DEF CloseLease, IInv, TypeOK, Place, Owning, Leading, Filling
<1> QED
  BY <1>2, <1>3, <1>4, <1>6, <1>7, <1>8, <1>9, SharedStep, Places

\* The flight is completed after the lease.
LEMMA FinishMissKeeps ==
    ASSUME IInv, NEW r \in Requests, FinishMiss(r)
    PROVE  IInv'
<1>1. /\ req[r] \in Request /\ home[r] \in Handlers /\ req \in [Requests -> Request]
      /\ Own(req[r]) /\ Place(r, req[r].pc) /\ Quiet(r, req[r])
  BY InvOf
<1>2. CASE req[r].writing
  <2> DEFINE q == At(req[r], "endWrite")
  <2>1. q \in Request
    BY <1>1, Places DEF At, Request
  <2>2. /\ q.pc = "endWrite" /\ q.up = req[r].up /\ q.resp = req[r].resp
        /\ q.sent = req[r].sent /\ q.staged = req[r].staged /\ q.charged = req[r].charged
        /\ q.copied = req[r].copied
        /\ q.orphaned = req[r].orphaned /\ q.retained = req[r].retained
        /\ q.writing = req[r].writing
    BY <1>1 DEF At, Request
  <2>3. Becomes(r, q) /\ UNCHANGED <<config, closing, shutdown>>
    BY <1>1, <1>2 DEF FinishMiss, To
  <2> HIDE DEF q
  <2>4. /\ req' \in [Requests -> Request]
        /\ \A p \in Requests : p # r => req'[p] = req[p]
    BY <1>1, <2>1, <2>3, BecomesFacts
  <2>5. TypeOK' /\ PublishedWhole'
    BY <1>1, <1>2, <2>4 DEF FinishMiss, IInv, TypeOK, PublishedWhole
  <2>6. Own(q) /\ Quiet(r, q)
    BY <1>1, <1>2, <2>2 DEF FinishMiss, Own, Quiet, BeforeFill, Writing, Unstreamed
  <2>7. Place(r, "endWrite")'
    BY <1>1, <1>2, <2>2 DEF FinishMiss, IInv, TypeOK, Place, Owning, Leading, Filling
  <2>8. ASSUME NEW p \in Requests, p # r
       PROVE  Place(p, req[p].pc)'
    BY <1>1, <1>2, <2>4, <2>8 DEF FinishMiss, IInv, TypeOK, Place, Owning, Leading, Filling
  <2> QED
    BY <2>1, <2>2, <2>3, <2>5, <2>6, <2>7, <2>8, SharedStep, Places
<1>3. CASE ~req[r].writing
  <2> DEFINE q == At(req[r], "end")
  <2>1. q \in Request
    BY <1>1, Places, Zenon DEF At, Request
  <2>2. /\ q.pc = "end" /\ q.up = req[r].up /\ q.staged = req[r].staged
        /\ q.charged = req[r].charged /\ q.copied = req[r].copied
        /\ q.orphaned = req[r].orphaned /\ q.retained = req[r].retained
        /\ q.writing = req[r].writing
    BY <1>1 DEF At, Request
  <2>3. Becomes(r, q) /\ UNCHANGED <<config, closing, shutdown>>
    BY <1>1, <1>3 DEF FinishMiss, To
  <2> HIDE DEF q
  <2>4. /\ req' \in [Requests -> Request]
        /\ \A p \in Requests : p # r => req'[p] = req[p]
    BY <1>1, <2>1, <2>3, BecomesFacts
  <2>5. TypeOK' /\ PublishedWhole'
    BY <1>1, <1>3, <2>4 DEF FinishMiss, IInv, TypeOK, PublishedWhole
  <2>6. Own(q) /\ Quiet(r, q)
    BY <1>1, <1>3, <2>2 DEF FinishMiss, Own, Quiet, BeforeFill, Writing, Unstreamed
  <2>7. Place(r, "end")'
    BY <1>1, <1>3, <2>2 DEF FinishMiss, IInv, TypeOK, Place, Owning, Leading, Filling
  <2>8. ASSUME NEW p \in Requests, p # r
       PROVE  Place(p, req[p].pc)'
    BY <1>1, <1>3, <2>4, <2>8 DEF FinishMiss, IInv, TypeOK, Place, Owning, Leading, Filling
  <2> QED
    BY <2>1, <2>2, <2>3, <2>5, <2>6, <2>7, <2>8, SharedStep, Places
<1> QED
  BY <1>2, <1>3 DEF FinishMiss

\* The write is over when nothing else is held.
LEMMA EndWriteKeeps ==
    ASSUME IInv, NEW r \in Requests, EndWrite(r)
    PROVE  IInv'
<1>1. /\ req[r] \in Request /\ home[r] \in Handlers
      /\ Own(req[r]) /\ Place(r, req[r].pc) /\ Quiet(r, req[r])
      /\ shutdown[home[r]] # "none" => closing[home[r]]
  BY InvOf
<1> DEFINE q == [At(req[r], "end") EXCEPT !.writing = FALSE]
<1>2. q \in Request
  BY <1>1, Places, Zenon DEF At, Request
<1>3. /\ q.pc = "end" /\ q.up = req[r].up /\ q.staged = req[r].staged
      /\ q.charged = req[r].charged /\ q.copied = req[r].copied
      /\ q.orphaned = req[r].orphaned /\ q.retained = req[r].retained
      /\ q.writing = FALSE
  BY <1>1 DEF At, Request
<1>4. Becomes(r, q) /\ UNCHANGED <<config, shared>>
  BY <1>1 DEF EndWrite
<1> HIDE DEF q
<1>5. Own(q)
  BY <1>1, <1>3 DEF EndWrite, Own, BeforeFill, Writing, Unstreamed
<1>6. Place(r, q.pc) /\ Quiet(r, q)
  BY <1>1, <1>3 DEF EndWrite, Place, Quiet, Owning, Leading, Filling
<1> QED
  BY <1>2, <1>4, <1>5, <1>6, LocalStep
-----------------------------------------------------------------------------
(* Everything else, and the theorems.                                      *)

\* An entry that goes away disturbs no fill.
LEMMA EvictKeeps ==
    ASSUME IInv, Evict
    PROVE  IInv'
  BY DEF Evict, IInv, TypeOK, Own, Place, Quiet, PublishedWhole, Owning, Leading, Filling

\* Shutdown closes the Handler to new writes before it waits.
LEMMA ShutdownKeeps ==
    ASSUME IInv, NEW h \in Stopping, Shutdown(h)
    PROVE  IInv'
  BY DEF Shutdown, IInv, TypeOK, Own, Place, Quiet, PublishedWhole, Owning, Leading, Filling

\* Shutdown returns while the Handler has no write.
LEMMA ShutdownReturnsKeeps ==
    ASSUME IInv, NEW h \in Stopping, ShutdownReturns(h)
    PROVE  IInv'
  BY DEF ShutdownReturns, IInv, TypeOK, Own, Place, Quiet, PublishedWhole, Owning, Leading, Filling

\* A miss starts with nothing held.
LEMMA InitHolds == Init => IInv
<1> SUFFICES ASSUME Init
             PROVE  IInv
  OBVIOUS
<1>1. NewRequest \in Request
  BY Places DEF NewRequest, Request
<1>2. TypeOK
  BY <1>1 DEF Init, TypeOK
<1>3. ASSUME NEW r \in Requests
      PROVE  Own(req[r]) /\ Place(r, req[r].pc) /\ Quiet(r, req[r])
  <2>1. req[r] = NewRequest /\ lease = None /\ home[r] \in Handlers
    BY DEF Init
  <2>2. Own(NewRequest)
    BY DEF NewRequest, Own, BeforeFill, Writing, Unstreamed
  <2>3. Place(r, "new")
    BY <2>1 DEF Init, Place, Owning, Filling
  <2> QED
    BY <2>1, <2>2, <2>3 DEF Init, Quiet, NewRequest
<1> QED
  BY <1>2, <1>3 DEF Init, IInv, PublishedWhole

\* No step of resolveMiss, passUpstream, storeResource or Shutdown disturbs the
\* invariant.
LEMMA StepKeeps == IInv /\ [Next]_vars => IInv'
<1> SUFFICES ASSUME IInv, [Next]_vars
             PROVE  IInv'
  OBVIOUS
<1>1. ASSUME NEW r \in Requests, Resolve(r) \/ Cancel(r)
      PROVE  IInv'
  BY <1>1, LookupKeeps, ClaimKeeps, FollowKeeps, RecheckKeeps, AcquireKeeps,
     CheckOwnedKeeps, CancelKeeps DEF Resolve
<1>2. ASSUME NEW r \in Requests, Stream(r)
      PROVE  IInv'
  BY <1>2, FetchKeeps, HeadersKeeps, OpenStageKeeps, CopyChunkKeeps, DrainChunkKeeps,
     CopyEndKeeps, DrainEndKeeps DEF Stream
<1>3. ASSUME NEW r \in Requests, Store(r)
      PROVE  IInv'
  BY <1>3, StoreResourceKeeps, PublishStageKeeps, PublishCommitKeeps, PublishFailsKeeps,
     CloseResourceKeeps, CloseLeaseKeeps, FinishMissKeeps, EndWriteKeeps DEF Store
<1>4. ASSUME NEW r \in Requests, Upstream(r)
      PROVE  IInv'
  BY <1>4, UpHeadersKeeps, UpCloseKeeps DEF Upstream
<1>5. ASSUME NEW h \in Stopping, Shutdown(h) \/ ShutdownReturns(h)
      PROVE  IInv'
  BY <1>5, ShutdownKeeps, ShutdownReturnsKeeps
<1>6. CASE UNCHANGED vars
  BY <1>6 DEF vars, IInv, TypeOK, Own, Place, Quiet, PublishedWhole, Owning, Leading, Filling
<1> QED
  BY <1>1, <1>2, <1>3, <1>4, <1>5, <1>6, EvictKeeps DEF Next

\* What the invariant says of a request at each pc answers for the properties.
LEMMA InvImplies ==
    IInv => /\ FillOnlyWhenMissing /\ StagedIsCharged /\ ShutdownQuiet /\ NothingHeld
<1> SUFFICES ASSUME IInv
             PROVE  /\ FillOnlyWhenMissing /\ StagedIsCharged /\ ShutdownQuiet /\ NothingHeld
  OBVIOUS
<1>1. FillOnlyWhenMissing
  BY InvOf DEF FillOnlyWhenMissing, Place
<1>2. StagedIsCharged
  BY InvOf DEF StagedIsCharged, Own
<1>3. ShutdownQuiet
  BY InvOf DEF ShutdownQuiet, Own, Quiet
<1>4. NothingHeld
  <2> SUFFICES ASSUME NEW r \in Requests, req[r].pc = "end"
               PROVE  /\ flight[home[r]] # r /\ lease # r
                      /\ req[r].staged = 0 /\ req[r].charged = 0 /\ req[r].copied = 0
                      /\ req[r].retained <= req[r].orphaned
                      /\ ~req[r].writing /\ req[r].up = "none"
    BY DEF NothingHeld
  <2>1. flight[home[r]] # r /\ lease # r
    BY InvOf DEF Place, Owning, Leading, Filling
  <2>2. req[r].orphaned \in Nat
    BY InvOf DEF Request
  <2> QED
    BY <2>1, <2>2, InvOf DEF Own, Writing
<1> QED
  BY <1>1, <1>2, <1>3, <1>4

\* At every point of a miss a request holds exactly what it should.
THEOREM FillInvariant == Spec => []IInv
  BY InitHolds, StepKeeps, PTL DEF Spec

\* No coordinated fill repeats one that is stored, whatever number of processes
\* shares the coordinator.
THEOREM FillsOnlyWhenMissing == Spec => []FillOnlyWhenMissing
  BY FillInvariant, InvImplies, PTL

\* Nothing that was cut short is published.
THEOREM PublishesWhole == Spec => []PublishedWhole
<1>1. IInv => PublishedWhole
  BY DEF IInv
<1> QED
  BY <1>1, FillInvariant, PTL

\* Staged bytes are charged until the publication is over, and those of a file that
\* could not be removed from then on, whichever removals of handlerStage.Close and
\* abandonStaged fail.
THEOREM StagesCharged == Spec => []StagedIsCharged
  BY FillInvariant, InvImplies, PTL

\* Every exit of resolveMiss, passUpstream and storeResource gives back what the request
\* held, all but the charge of a file that could not be removed.
THEOREM EndsHoldingNothing == Spec => []NothingHeld
  BY FillInvariant, InvImplies, PTL

\* After Shutdown has returned nil the Handler writes no more.
THEOREM ShutdownIsQuiet == Spec => []ShutdownQuiet
  BY FillInvariant, InvImplies, PTL
=============================================================================
