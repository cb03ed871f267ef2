----------------------------- MODULE MarkerStore -----------------------------
(***************************************************************************)
(* What the cache may rely on when it persists its invalidation markers:   *)
(* a restart finds the last acknowledged snapshot, or one newer snapshot   *)
(* whose write had reached the disk without being acknowledged.            *)
(*                                                                         *)
(* A snapshot gives every key the time of its marker: 0 for no marker,     *)
(* Barrier for an invalidation still waiting for active writers.           *)
(***************************************************************************)
EXTENDS Naturals

CONSTANTS Keys, Barrier   \* Barrier is a number above 1

Snapshot == [Keys -> 0..Barrier]

VARIABLES
    mem,      \* c.stale, the markers in memory
    acked,    \* the last snapshot the store acknowledged
    pending   \* {s} if an unacknowledged snapshot s is complete on disk, else {}

vars == <<mem, acked, pending>>

TypeOK ==
    /\ mem \in Snapshot
    /\ acked \in Snapshot
    /\ pending \subseteq Snapshot

\* A barrier found at startup becomes the restart time t.
Recovered(s, t) == [k \in Keys |-> IF s[k] = Barrier THEN t ELSE s[k]]

Init ==
    /\ mem \in Snapshot
    /\ acked = mem
    /\ pending = {}

\* The markers change in memory.
Change == mem' \in Snapshot /\ UNCHANGED <<acked, pending>>

\* An unacknowledged snapshot is overwritten by the next attempt.
Overwrite == pending' = {} /\ UNCHANGED <<mem, acked>>

\* The snapshot is on disk, but the writer may still report a failure.
Reach == pending' = {mem} /\ UNCHANGED <<mem, acked>>

Acknowledge == acked' = mem /\ pending' = {} /\ UNCHANGED mem

Restart ==
    \E s \in {acked} \cup pending, t \in 1..(Barrier - 1) :
        /\ mem' = Recovered(s, t)
        /\ acked' = s
        /\ pending' = {}

Next == Change \/ Overwrite \/ Reach \/ Acknowledge \/ Restart

Spec == Init /\ [][Next]_vars
=============================================================================
