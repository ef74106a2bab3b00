-------------------------- MODULE RemoteMapObserved --------------------------
(***************************************************************************)
(* RemoteMap beside the clock of an outside observer: how long ago a call  *)
(* last went through Lookup for a peer.  It is a history variable: no step *)
(* depends on it.                                                          *)
(***************************************************************************)
EXTENDS RemoteMap

VARIABLE
  unlooked    (* ticks since a call went through Lookup for the peer       *)

observedVars == <<vars, unlooked>>

ObservedInit ==
  /\ Init
  /\ unlooked = [a \in Addrs |-> 0]

LooksUp(a) ==
  \/ \E t \in Callers : SlowPath(t) /\ asked[t] = a
  \/ \E p \in Packets : Stash(a, p)

ObservedNext ==
  \/ \E a \in Addrs :
       /\ LooksUp(a)
       /\ unlooked' = [unlooked EXCEPT ![a] = 0]
  \/ /\ \/ ReadTime \/ RemoveExpired
        \/ \E t \in Callers : Release(t) \/ TakeStash(t) \/ \E a \in Addrs : FastPath(t, a)
     /\ UNCHANGED unlooked
  \/ /\ Tick
     /\ unlooked' = [a \in Addrs |-> Smaller(unlooked[a] + 1, MaxAge)]

ObservedSpec == ObservedInit /\ [][ObservedNext]_observedVars

(* The clock advances and the expiry goroutine is scheduled; callers may   *)
(* stop calling at any time.                                               *)
ObservedFairSpec ==
  ObservedSpec /\ WF_vars(Tick) /\ WF_vars(ReadTime) /\ WF_vars(RemoveExpired)

(* A peer is dropped only when its last Lookup is at least Timeout old     *)
(* (remotemap.go:126), although the expiry goroutine reads the clock       *)
(* before it gets the lock and a Lookup may come in between.               *)
LookedUpPeersTracked ==
  [][\A a \in Addrs : current[a] # None /\ current'[a] # current[a]
                        => unlooked[a] >= Timeout]_observedVars
=============================================================================
