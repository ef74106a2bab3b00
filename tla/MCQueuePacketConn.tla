-------------------------- MODULE MCQueuePacketConn --------------------------
(* Model checking of QueuePacketConn: peers, records and goroutines of one *)
(* kind are interchangeable.  What an unreachable record still holds is    *)
(* overwritten before anyone can read it, so the view leaves it out.       *)
EXTENDS QueuePacketConn, TLC

ConnSymmetry == Permutations(Addrs) \cup Permutations(Records) \cup Permutations(Writers)

LiveRecords == {r \in Records : Map!Reachable(r)}

LiveView ==
  <<current, age, asked, ref, sweeper, nap, lag, hand, dead, recvVars,
    [r \in LiveRecords |-> <<r \in closed, stash[r], sendq[r]>>]>>
=============================================================================
