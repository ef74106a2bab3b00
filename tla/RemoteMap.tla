------------------------------ MODULE RemoteMap ------------------------------
(***************************************************************************)
(* turbotunnel.RemoteMap: the map from peer addresses to their send queue  *)
(* and one-packet stash, shared by any number of goroutines and by the     *)
(* goroutine that expires peers.                                           *)
(*                                                                         *)
(* A step is one critical section of RemoteMap.lock, so SendQueue and      *)
(* Unstash take one step when the address is present (read lock) and two   *)
(* when it is not: between the read lock and the write lock any other      *)
(* goroutine may run.  A record is a pointer: a new one may be any record  *)
(* that neither the map nor a goroutine still refers to.                   *)
(*                                                                         *)
(* Time is counted in ticks.  A tick advances the age of every mapped      *)
(* record, the sleep of the expiry goroutine, and the lag between its      *)
(* time.Now() and the moment it gets the lock.  Ages saturate where the    *)
(* code can no longer tell them apart, so the clock itself is unbounded.   *)
(***************************************************************************)
EXTENDS Naturals

CONSTANTS
  Addrs,    (* peer addresses                                              *)
  Callers,  (* call sites of SendQueue and Unstash, one per reference held *)
  Records,  (* remoteRecord pointers                                       *)
  Packets,  (* packets that can be stashed                                 *)
  None,     (* nil                                                         *)
  Timeout,  (* NewRemoteMap's timeout in ticks, 0 for "never"              *)
  MaxLag    (* bound: ticks between time.Now() and lock.Lock() in a sweep  *)

ASSUME NoneAssumption == None \notin Addrs \cup Records \cup Packets
ASSUME TimeAssumption == Timeout \in Nat /\ MaxLag \in Nat

VARIABLES
  current,  (* byAddr and byAge: the record of each address, or None       *)
  age,      (* now - LastSeen of the record in current                     *)
  stash,    (* the buffered element of each record's Stash channel         *)
  closed,   (* records whose SendQueue has been closed                     *)
  asked,    (* the address a caller is asking for, or has asked for        *)
  ref,      (* the record whose channel the caller got; None while waiting *)
  sweeper,  (* expiry goroutine: "asleep", or "timed" once it read the time*)
  nap,      (* ticks it still has to sleep                                 *)
  lag       (* ticks since it read the time                                *)

vars == <<current, age, stash, closed, asked, ref, sweeper, nap, lag>>
mapVars == <<current, age, closed>>
callerVars == <<asked, ref>>
sweepVars == <<sweeper, nap, lag>>

MaxAge == Timeout + MaxLag
Smaller(m, n) == IF m < n THEN m ELSE n

Reachable(r) == (\E a \in Addrs : current[a] = r) \/ (\E t \in Callers : ref[t] = r)

Init ==
  /\ current = [a \in Addrs |-> None]
  /\ age = [a \in Addrs |-> 0]
  /\ stash = [r \in Records |-> None]
  /\ closed = {}
  /\ asked = [t \in Callers |-> None]
  /\ ref = [t \in Callers |-> None]
  /\ sweeper = "asleep"
  /\ nap = Timeout \div 2
  /\ lag = 0

-----------------------------------------------------------------------------
(* remoteMapInner.Lookup: r is the record it returns, already mapped or    *)
(* newly allocated with empty channels.                                    *)

Found(a, r) == current[a] = r /\ UNCHANGED <<current, closed>>

(* Fault: the write lock is taken without looking the address up again.   *)
CreateAnyway(a, r) ==
  /\ ~Reachable(r)
  /\ current' = [current EXCEPT ![a] = r]
  /\ closed' = closed \ {r}

Create(a, r) ==
  /\ current[a] = None
  /\ ~Reachable(r)
  /\ current' = [current EXCEPT ![a] = r]
  /\ closed' = closed \ {r}

(* Fault: LastSeen is set when the record is created and never again.      *)
LookupStale(a, r) ==
  /\ Found(a, r) \/ Create(a, r)
  /\ age' = [age EXCEPT ![a] = IF current[a] = None THEN 0 ELSE @]

Lookup(a, r) ==
  /\ Found(a, r) \/ Create(a, r)
  /\ age' = [age EXCEPT ![a] = 0]

StashOf(a) == IF current[a] = None THEN None ELSE stash[current[a]]

(* SendQueue and Unstash under the read lock: LastSeen is not refreshed.   *)
FastPath(t, a) ==
  /\ asked[t] = None
  /\ asked' = [asked EXCEPT ![t] = a]
  /\ ref' = [ref EXCEPT ![t] = current[a]]
  /\ UNCHANGED <<mapVars, stash, sweepVars>>

(* SendQueue and Unstash after the read lock found nothing.                *)
SlowPath(t) ==
  /\ asked[t] # None
  /\ ref[t] = None
  /\ \E r \in Records :
       /\ Lookup(asked[t], r)
       /\ ref' = [ref EXCEPT ![t] = r]
       /\ stash' = [stash EXCEPT ![r] = StashOf(asked[t])]
  /\ UNCHANGED <<asked, sweepVars>>

(* The caller returns from the function that held the channel.             *)
Release(t) ==
  /\ ref[t] # None
  /\ asked' = [asked EXCEPT ![t] = None]
  /\ ref' = [ref EXCEPT ![t] = None]
  /\ UNCHANGED <<mapVars, stash, sweepVars>>

(* RemoteMap.Stash: p is kept only when the stash is empty.                *)
Stash(a, p) ==
  /\ \E r \in Records :
       /\ Lookup(a, r)
       /\ stash' = [stash EXCEPT ![r] = IF StashOf(a) = None THEN p ELSE @]
  /\ UNCHANGED <<callerVars, sweepVars>>

(* A receive on the channel that Unstash returned.                         *)
TakeStash(t) ==
  /\ ref[t] # None
  /\ stash[ref[t]] # None
  /\ stash' = [stash EXCEPT ![ref[t]] = None]
  /\ UNCHANGED <<mapVars, callerVars, sweepVars>>

-----------------------------------------------------------------------------
(* The expiry goroutine started by NewRemoteMap.                           *)

ReadTime ==
  /\ Timeout > 0
  /\ sweeper = "asleep"
  /\ nap = 0
  /\ sweeper' = "timed"
  /\ lag' = 0
  /\ UNCHANGED <<mapVars, stash, callerVars, nap>>

(* Fault: the heap is ordered the wrong way round, so the scan stops at    *)
(* the first fresh record.                                                 *)
ExpiredNewestFirst ==
  {a \in Addrs : /\ current[a] # None
                 /\ \A b \in Addrs : current[b] # None => age[b] >= Timeout + lag}

Expired == {a \in Addrs : current[a] # None /\ age[a] >= Timeout + lag}

RemoveExpired ==
  /\ sweeper = "timed"
  /\ current' = [a \in Addrs |-> IF a \in Expired THEN None ELSE current[a]]
  /\ age' = [a \in Addrs |-> IF a \in Expired THEN 0 ELSE age[a]]
  /\ closed' = closed \cup {current[a] : a \in Expired}
  /\ sweeper' = "asleep"
  /\ nap' = Timeout \div 2
  /\ lag' = 0
  /\ UNCHANGED <<stash, callerVars>>

Tick ==
  /\ sweeper = "timed" => lag < MaxLag
  /\ age' = [a \in Addrs |-> IF current[a] = None THEN 0 ELSE Smaller(age[a] + 1, MaxAge)]
  /\ nap' = IF nap > 0 THEN nap - 1 ELSE 0
  /\ lag' = IF sweeper = "timed" THEN lag + 1 ELSE 0
  /\ UNCHANGED <<current, closed, stash, callerVars, sweeper>>

-----------------------------------------------------------------------------
Call ==
  \/ \E t \in Callers, a \in Addrs : FastPath(t, a)
  \/ \E t \in Callers : SlowPath(t) \/ Release(t) \/ TakeStash(t)
  \/ \E a \in Addrs, p \in Packets : Stash(a, p)

Next == Call \/ ReadTime \/ RemoveExpired \/ Tick

Spec == Init /\ [][Next]_vars

-----------------------------------------------------------------------------
TypeOK ==
  /\ current \in [Addrs -> Records \cup {None}]
  /\ age \in [Addrs -> 0..MaxAge]
  /\ stash \in [Records -> Packets \cup {None}]
  /\ closed \subseteq Records
  /\ asked \in [Callers -> Addrs \cup {None}]
  /\ ref \in [Callers -> Records \cup {None}]
  /\ sweeper \in {"asleep", "timed"}
  /\ nap \in 0..Timeout
  /\ lag \in 0..MaxLag

(* A send queue handed out by SendQueue or Unstash (remotemap.go:68, :98)  *)
(* is either closed or still the queue the map holds for that address: two *)
(* goroutines racing through the read-lock miss get the same queue, and no *)
(* caller keeps an open queue that nobody will ever read or close.         *)
NoOrphanQueue ==
  \A t \in Callers :
    ref[t] # None /\ ref[t] \notin closed => current[asked[t]] = ref[t]

(* The map never keeps a peer for ever: removeExpired (remotemap.go:125)   *)
(* eventually drops a peer unless Lookup keeps refreshing its LastSeen.    *)
IdlePeersReclaimed ==
  \A a \in Addrs : []<>(current[a] = None \/ age[a] = 0)
=============================================================================
