---------------------------- MODULE MCServerLoops ----------------------------
(***************************************************************************)
(* The server's loops, for TLC, and the heap of the map they use: in a     *)
(* behaviour of part "loops" the former take their steps, in one of part   *)
(* "heap" the operations of RemoteMapHeap, for which there is one client   *)
(* more.                                                                   *)
(*                                                                         *)
(* Packets of 3 and 2 units in responses of 4, so that one fits, two may   *)
(* or may not fit and the stash is used.  The order of peers with equal    *)
(* times in the heap depends on when they were pushed, never on which they *)
(* are.  The view leaves out what unreachable records still hold.          *)
(***************************************************************************)
EXTENDS ServerLoops, TLC

CONSTANTS Parts, Another, Callers, Stashed, HeapTimeout, HeapLag, MaxTime

ASSUME HeapAssumption ==
  /\ None \notin Clients \cup {Another} \cup Stashed
  /\ HeapTimeout \in Nat /\ HeapLag \in Nat

VARIABLES
  part,
  byAge, byAddr, now, heapStash, heapClosed, heapAsked, heapRef, sweep, wakeAt, swept

Heap == INSTANCE RemoteMapHeap WITH
  Addrs <- Clients \cup {Another}, Packets <- Stashed,
  Timeout <- HeapTimeout, MaxLag <- HeapLag,
  stash <- heapStash, closed <- heapClosed, asked <- heapAsked, ref <- heapRef,
  sweeper <- sweep

heapVars ==
  <<byAge, byAddr, now, heapStash, heapClosed, heapAsked, heapRef, sweep, wakeAt, swept>>
mcVars == <<part, vars, heapVars>>

MCWeight == [p \in Packets |-> IF p % 2 = 1 THEN 3 ELSE 2]

MCInit == part \in Parts /\ Init /\ Heap!Init

MCNext ==
  \/ part = "loops" /\ Next /\ UNCHANGED <<part, heapVars>>
  \/ part = "heap" /\ Heap!Next /\ UNCHANGED <<part, vars>>

MCSpec == MCInit /\ [][MCNext]_mcVars

-----------------------------------------------------------------------------
(* See RemoteMapHeap: heap and index agree, and implement the map.         *)
IndexConsistent == Heap!IndexConsistent
ImplementsMap ==
  (part = "heap" => Heap!Map!Init) /\ [][part = "heap" => [Heap!Map!Next]_(Heap!Map!vars)]_mcVars

LoopSymmetry == Permutations(Records) \cup Permutations(Clients)

LiveRecords == {r \in Records : Map!Reachable(r)}

LiveView ==
  <<part, current, age, asked, ref, sweeper, nap, lag, written, queries, loopVars, heapVars,
    [r \in LiveRecords |-> <<r \in closed, stash[r], sendq[r]>>]>>
=============================================================================
