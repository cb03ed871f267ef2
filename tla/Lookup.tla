------------------------------- MODULE Lookup -------------------------------
(***************************************************************************)
(* The handler's lookup (src/handler.go) on top of the cache: the base     *)
(* entry is retrieved, its Vary header names the variant, the variant is   *)
(* retrieved, and the result is judged against the markers of both keys.   *)
(* Each retrieval judges its own key under the cache's locks; the handler  *)
(* reads the markers again, one at a time and without any lock.            *)
(*                                                                         *)
(* The cache is module Invalidation; every lookup owns one of its readers. *)
(***************************************************************************)
EXTENDS Invalidation

VARIABLE look   \* reader -> the lookup it serves

lookVars == <<vars, look>>

\* "floor" and "raced" are history: what had been promised when the lookup began,
\* and whether a marker it depends on was dropped since.
Look == [pc: {"idle", "base", "variant", "marked", "done"}, key: Keys,
         base: BOOLEAN, stale: BOOLEAN, floor: [Keys -> Nat], raced: BOOLEAN]
NoLook == [pc |-> "idle", key |-> Base, base |-> FALSE, stale |-> FALSE,
           floor |-> [k \in Keys |-> 0], raced |-> FALSE]

\* The key the lookup is retrieving.
Wanted(l) == IF look[l].pc = "base" THEN Base ELSE look[l].key

LookInit == Init /\ look = [l \in Readers |-> NoLook]

\* The request's headers pick the variant k; k = Base is a response without Vary.
LookupStart(l, k) ==
    /\ look[l].pc = "idle"
    /\ look' = [look EXCEPT ![l] = [NoLook EXCEPT !.pc = "base", !.key = k, !.floor = promised]]
    /\ UNCHANGED vars

LookupOpen(l) ==
    /\ look[l].pc \in {"base", "variant"}
    /\ RetrieveOpen(l, Wanted(l))
    /\ UNCHANGED look

LookupJudge(l) ==
    /\ RetrieveJudge(l)
    /\ UNCHANGED look

\* ErrNotFoundInCache.
LookupMiss(l) ==
    /\ look[l].pc \in {"base", "variant"}
    /\ reader[l].pc = "idle"
    /\ ~CleanupWriterPending
    /\ ~PublishPending
    /\ Wanted(l) \notin Present
    /\ look' = [look EXCEPT ![l] = NoLook]
    /\ UNCHANGED vars

\* markInvalidatedResource on the base entry.  Without Vary it is the result; with
\* Vary only its staleness is kept.
LookupBase(l) ==
    /\ look[l].pc = "base"
    /\ reader[l].pc = "done"
    /\ LET judged == reader[l].stale \/ Superseded(reader[l].at, Base) IN
       look' = [look EXCEPT ![l].base = judged, ![l].stale = judged,
                            ![l].pc = IF look[l].key = Base THEN "done" ELSE "variant"]
    /\ IF look[l].key = Base THEN UNCHANGED vars ELSE RetrieveReturn(l)

\* markInvalidatedResource on the variant: its own marker first.
LookupOwnMarker(l) ==
    /\ look[l].pc = "variant"
    /\ reader[l].pc = "done"
    /\ look' = [look EXCEPT ![l].pc = "marked",
                            ![l].stale = reader[l].stale \/ Superseded(reader[l].at, look[l].key)]
    /\ UNCHANGED vars

\* Seeded fault: a variant is judged by its own marker and by the base entry.
LookupBaseEntry(l) ==
    /\ look[l].pc = "marked"
    /\ look' = [look EXCEPT ![l].pc = "done", ![l].stale = look[l].stale \/ look[l].base]
    /\ UNCHANGED vars

\* The base key's marker decides; the base entry's staleness is a fallback.
LookupBaseMarker(l) ==
    /\ look[l].pc = "marked"
    /\ look' = [look EXCEPT ![l].pc = "done",
                            ![l].stale = \/ look[l].stale
                                         \/ IF stale[Base] > 0
                                            THEN Superseded(reader[l].at, Base)
                                            ELSE look[l].base]
    /\ UNCHANGED vars

LookupReturn(l) ==
    /\ look[l].pc = "done"
    /\ RetrieveReturn(l)
    /\ look' = [look EXCEPT ![l] = NoLook]

LookupStep(l) ==
    \/ \E k \in Keys : LookupStart(l, k)
    \/ LookupOpen(l) \/ LookupJudge(l) \/ LookupMiss(l) \/ LookupBase(l)
    \/ LookupOwnMarker(l) \/ LookupBaseMarker(l) \/ LookupReturn(l)

\* Everything else goes on meanwhile.  A lookup that is running remembers that a
\* marker it depends on was dropped under it.
CacheStep ==
    /\ Background
    /\ look' = [l \in Readers |->
          IF \E g \in Governing(look[l].key) : stale[g] > 0 /\ stale'[g] = 0
          THEN [look[l] EXCEPT !.raced = TRUE]
          ELSE look[l]]

LookRestart == Restart /\ look' = [l \in Readers |-> NoLook]

LookNext ==
    \/ \E l \in Readers : LookupStep(l)
    \/ CacheStep
    \/ LookRestart

LookSpec == LookInit /\ [][LookNext]_lookVars

-----------------------------------------------------------------------------
LookTypeOK == look \in [Readers -> Look]

\* The lookup l found an entry and calls it fresh.
FreshResult(l) == look[l].pc = "done" /\ ~look[l].stale /\ ~reader[l].late

\* A lookup never calls fresh a body older than the origin was, when the lookup
\* began, at the last Invalidate of the entry's key or of its base key, although
\* the base entry may have been refreshed by another variant in between.  Excepted
\* are a lookup during which a sweep or Purge dropped one of these markers, and what
\* NothingOutdatedFresh excepts, the Freshen of a HEAD that is passed through included.
LookupSound ==
    \A l \in Readers :
        FreshResult(l) /\ ~look[l].raced
            => \A g \in Governing(look[l].key) : reader[l].ver >= look[l].floor[g]

(***************************************************************************)
(* The inductive invariant: from the retrieval of the entry until its      *)
(* governing markers have been read, they still mark it if it is outdated. *)
(***************************************************************************)
Marked(l, g) == reader[l].ver < look[l].floor[g] => reader[l].at <= stale[g]
Told(l, g) == reader[l].ver < look[l].floor[g] => look[l].stale

LookCovered(l) ==
    /\ look[l].pc # "idle" => \A g \in Keys : look[l].floor[g] <= promised[g]
    /\ reader[l].pc # "idle" => reader[l].key = Wanted(l) /\ reader[l].at > 0
    /\ look[l].pc = "idle" => reader[l].pc = "idle"
    /\ look[l].pc \in {"marked", "done"} => reader[l].pc = "done"
    /\ reader[l].pc # "idle" /\ reader[l].key = look[l].key /\ ~reader[l].late /\ ~look[l].raced
         => /\ look[l].pc \in {"base", "variant"} => \A g \in Governing(look[l].key) : Marked(l, g)
            /\ look[l].pc = "marked" => Told(l, look[l].key) /\ Marked(l, Base)
            /\ look[l].pc = "done" => \A g \in Governing(look[l].key) : Told(l, g)

LookInv == LookTypeOK /\ \A l \in Readers : LookCovered(l)
=============================================================================
