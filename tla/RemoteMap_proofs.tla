--------------------------- MODULE RemoteMap_proofs ---------------------------
(***************************************************************************)
(* Proofs about RemoteMap and its observed form, for any sets of peers,    *)
(* callers and records, any timeout and any lag.                           *)
(***************************************************************************)
EXTENDS RemoteMapObserved, TLAPS

(* What makes NoOrphanQueue inductive: the map holds open queues only, no  *)
(* record serves two addresses, and a caller that holds a record has an    *)
(* address it asked for.                                                   *)
MappedQueuesOpen == \A a \in Addrs : current[a] # None => current[a] \notin closed
RecordsUnshared ==
  \A a, b \in Addrs : current[a] # None /\ current[a] = current[b] => a = b
HoldersAsked == \A t \in Callers : ref[t] # None => asked[t] \in Addrs

IInv ==
  TypeOK /\ NoOrphanQueue /\ MappedQueuesOpen /\ RecordsUnshared /\ HoldersAsked

-----------------------------------------------------------------------------
(* Type correctness, one lemma per group of actions.                       *)

(* A Lookup keeps the types of the map, whichever record it returns.       *)
LEMMA LookupType ==
  ASSUME TypeOK, NEW a \in Addrs, NEW r \in Records, Lookup(a, r)
  PROVE  /\ current' \in [Addrs -> Records \cup {None}]
         /\ age' \in [Addrs -> 0..MaxAge]
         /\ closed' \subseteq Records
         /\ StashOf(a) \in Packets \cup {None}
<1>1. 0 \in 0..MaxAge
  BY TimeAssumption DEF MaxAge
<1>2. age' \in [Addrs -> 0..MaxAge]
  BY <1>1 DEF TypeOK, Lookup
<1>3. current' \in [Addrs -> Records \cup {None}] /\ closed' \subseteq Records
  BY DEF TypeOK, Lookup, Found, Create
<1>4. StashOf(a) \in Packets \cup {None}
  BY DEF TypeOK, StashOf
<1> QED BY <1>2, <1>3, <1>4

(* Every call of a goroutine keeps the types.                              *)
LEMMA CallType == TypeOK /\ Call => TypeOK'
<1> SUFFICES ASSUME TypeOK, Call PROVE TypeOK'
  OBVIOUS
<1>1. ASSUME NEW t \in Callers, NEW a \in Addrs, FastPath(t, a) PROVE TypeOK'
  BY <1>1 DEF TypeOK, FastPath, mapVars, sweepVars
<1>2. ASSUME NEW t \in Callers, SlowPath(t) PROVE TypeOK'
  <2>1. asked[t] \in Addrs
    BY <1>2 DEF TypeOK, SlowPath
  <2>2. PICK r \in Records :
          /\ Lookup(asked[t], r)
          /\ ref' = [ref EXCEPT ![t] = r]
          /\ stash' = [stash EXCEPT ![r] = StashOf(asked[t])]
    BY <1>2 DEF SlowPath
  <2> QED BY <1>2, <2>1, <2>2, LookupType DEF TypeOK, SlowPath, sweepVars
<1>3. ASSUME NEW t \in Callers, Release(t) PROVE TypeOK'
  BY <1>3 DEF TypeOK, Release, mapVars, sweepVars
<1>4. ASSUME NEW t \in Callers, TakeStash(t) PROVE TypeOK'
  BY <1>4 DEF TypeOK, TakeStash, mapVars, callerVars, sweepVars
<1>5. ASSUME NEW a \in Addrs, NEW p \in Packets, Stash(a, p) PROVE TypeOK'
  <2>1. PICK r \in Records :
          /\ Lookup(a, r)
          /\ stash' = [stash EXCEPT ![r] = IF StashOf(a) = None THEN p ELSE @]
    BY <1>5 DEF Stash
  <2>2. stash' \in [Records -> Packets \cup {None}]
    BY <2>1 DEF TypeOK
  <2> QED BY <1>5, <2>1, <2>2, LookupType DEF TypeOK, Stash, callerVars, sweepVars
<1> QED BY <1>1, <1>2, <1>3, <1>4, <1>5 DEF Call

(* So does every step of the expiry goroutine and of the clock.            *)
LEMMA SweepType == TypeOK /\ (ReadTime \/ RemoveExpired \/ Tick) => TypeOK'
<1> SUFFICES ASSUME TypeOK, ReadTime \/ RemoveExpired \/ Tick PROVE TypeOK'
  OBVIOUS
<1>0. 0 \in 0..MaxAge /\ 0 \in 0..MaxLag /\ Timeout \div 2 \in 0..Timeout
  BY TimeAssumption DEF MaxAge
<1>1. CASE ReadTime
  BY <1>0, <1>1 DEF TypeOK, ReadTime, mapVars, callerVars
<1>2. CASE RemoveExpired
  <2>1. closed' \subseteq Records
    BY <1>2 DEF TypeOK, RemoveExpired, Expired
  <2>2. current' \in [Addrs -> Records \cup {None}] /\ age' \in [Addrs -> 0..MaxAge]
    BY <1>0, <1>2 DEF TypeOK, RemoveExpired
  <2> QED BY <1>0, <1>2, <2>1, <2>2 DEF TypeOK, RemoveExpired, callerVars
<1>3. CASE Tick
  <2>1. ASSUME NEW a \in Addrs PROVE Smaller(age[a] + 1, MaxAge) \in 0..MaxAge
    BY TimeAssumption DEF TypeOK, Smaller, MaxAge
  <2>2. age' \in [Addrs -> 0..MaxAge]
    BY <1>0, <1>3, <2>1 DEF Tick
  <2>3. nap' \in 0..Timeout /\ lag' \in 0..MaxLag
    BY <1>3, TimeAssumption DEF TypeOK, Tick
  <2> QED BY <1>3, <2>2, <2>3 DEF TypeOK, Tick, callerVars
<1> QED BY <1>1, <1>2, <1>3

LEMMA InitType == Init => TypeOK
BY TimeAssumption DEF Init, TypeOK, MaxAge

LEMMA NextType == TypeOK /\ [Next]_vars => TypeOK'
<1>1. TypeOK /\ UNCHANGED vars => TypeOK'
  BY DEF TypeOK, vars
<1> QED BY <1>1, CallType, SweepType DEF Next

(* The map, its records and the callers keep their types (remotemap.go),   *)
(* and the saturated ages and the lag of a sweep stay within their bounds. *)
THEOREM TypeCorrect == Spec => []TypeOK
BY InitType, NextType, PTL DEF Spec

-----------------------------------------------------------------------------
(* NoOrphanQueue.                                                          *)

(* A Lookup leaves every record that somebody refers to where it is: the   *)
(* record it returns is the one mapped, or one that nobody knew.           *)
LEMMA LookupKeeps ==
  ASSUME IInv, NEW a \in Addrs, NEW r \in Records, Lookup(a, r)
  PROVE  /\ current'[a] = r
         /\ r \notin closed'
         /\ \A b \in Addrs : b # a => current'[b] = current[b] /\ current[b] # r
         /\ \A b \in Addrs : current[b] # None => current'[b] = current[b]
         /\ \A s \in Records : s # r => (s \in closed' <=> s \in closed)
         /\ current[a] # r => \A t \in Callers : ref[t] # r
<1>1. CASE Found(a, r)
  <2>1. r # None
    BY NoneAssumption
  <2>2. \A b \in Addrs : b # a => current[b] # r
    BY <1>1, <2>1 DEF IInv, RecordsUnshared, Found
  <2> QED BY <1>1, <2>1, <2>2 DEF IInv, MappedQueuesOpen, Found
<1>2. CASE Create(a, r)
  BY <1>2 DEF IInv, TypeOK, Create, Reachable
<1> QED BY <1>1, <1>2 DEF Lookup

(* Hence it preserves the strengthened invariant for callers that do not   *)
(* move.                                                                   *)
LEMMA LookupSafe ==
  ASSUME IInv, NEW a \in Addrs, NEW r \in Records, Lookup(a, r)
  PROVE  /\ MappedQueuesOpen'
         /\ RecordsUnshared'
         /\ \A t \in Callers :
              ref[t] # None /\ ref[t] \notin closed' => current'[asked[t]] = ref[t]
<1>1. /\ current'[a] = r /\ r \notin closed'
      /\ \A b \in Addrs : b # a => current'[b] = current[b] /\ current[b] # r
      /\ \A b \in Addrs : current[b] # None => current'[b] = current[b]
      /\ \A s \in Records : s # r => (s \in closed' <=> s \in closed)
      /\ current[a] # r => \A t \in Callers : ref[t] # r
  BY LookupKeeps
<1>2. current \in [Addrs -> Records \cup {None}] /\ ref \in [Callers -> Records \cup {None}]
  BY DEF IInv, TypeOK
<1>3. MappedQueuesOpen'
  BY <1>1, <1>2 DEF IInv, MappedQueuesOpen
<1>4. RecordsUnshared'
  BY <1>1, <1>2 DEF IInv, RecordsUnshared
<1>5. ASSUME NEW t \in Callers, ref[t] # None, ref[t] \notin closed'
      PROVE  current'[asked[t]] = ref[t]
  <2>1. asked[t] \in Addrs
    BY <1>5 DEF IInv, HoldersAsked
  <2>2. CASE ref[t] = r
    <3>1. current[a] = r
      BY <1>1, <2>2
    <3>2. ref[t] \notin closed
      BY <3>1, <2>2, <1>5 DEF IInv, MappedQueuesOpen
    <3>3. current[asked[t]] = r
      BY <3>2, <2>2, <1>5 DEF IInv, NoOrphanQueue
    <3> QED BY <3>3, <2>1, <2>2, <1>1, <1>5
  <2>3. CASE ref[t] # r
    <3>1. current[asked[t]] = ref[t]
      BY <2>3, <1>1, <1>2, <1>5 DEF IInv, NoOrphanQueue
    <3> QED BY <3>1, <2>1, <1>1, <1>5
  <2> QED BY <2>2, <2>3
<1> QED BY <1>3, <1>4, <1>5

LEMMA InitSafe == Init => IInv
BY InitType DEF Init, IInv, NoOrphanQueue, MappedQueuesOpen, RecordsUnshared, HoldersAsked

(* Calls: the read-lock step takes what the map holds, the write-lock step *)
(* what Lookup returns, the others leave map and callers apart.            *)
LEMMA CallSafe == IInv /\ Call => IInv'
<1> SUFFICES ASSUME IInv, Call PROVE IInv'
  OBVIOUS
<1>0. TypeOK'
  BY CallType DEF IInv
<1> DEFINE Safe == /\ NoOrphanQueue' /\ MappedQueuesOpen'
                   /\ RecordsUnshared' /\ HoldersAsked'
<1>1. ASSUME NEW t \in Callers, NEW a \in Addrs, FastPath(t, a) PROVE Safe
  <2>1. NoOrphanQueue'
    BY <1>1 DEF IInv, TypeOK, NoOrphanQueue, FastPath, mapVars
  <2>2. MappedQueuesOpen' /\ RecordsUnshared'
    BY <1>1 DEF IInv, MappedQueuesOpen, RecordsUnshared, FastPath, mapVars
  <2>3. HoldersAsked'
    BY <1>1 DEF IInv, TypeOK, HoldersAsked, FastPath
  <2> QED BY <2>1, <2>2, <2>3
<1>2. ASSUME NEW t \in Callers, SlowPath(t) PROVE Safe
  <2>1. asked[t] \in Addrs /\ asked' = asked
    BY <1>2 DEF IInv, TypeOK, SlowPath
  <2>2. PICK r \in Records : Lookup(asked[t], r) /\ ref' = [ref EXCEPT ![t] = r]
    BY <1>2 DEF SlowPath
  <2>3. /\ MappedQueuesOpen' /\ RecordsUnshared'
        /\ \A u \in Callers :
             ref[u] # None /\ ref[u] \notin closed' => current'[asked[u]] = ref[u]
    BY <2>1, <2>2, LookupSafe
  <2>4. current'[asked[t]] = r
    BY <2>1, <2>2, LookupKeeps
  <2>5. NoOrphanQueue'
    BY <2>1, <2>2, <2>3, <2>4 DEF IInv, TypeOK, NoOrphanQueue
  <2>6. HoldersAsked'
    BY <2>1, <2>2 DEF IInv, TypeOK, HoldersAsked
  <2> QED BY <2>3, <2>5, <2>6
<1>3. ASSUME NEW t \in Callers, Release(t) PROVE Safe
  <2>1. NoOrphanQueue' /\ HoldersAsked'
    BY <1>3 DEF IInv, TypeOK, NoOrphanQueue, HoldersAsked, Release, mapVars
  <2>2. MappedQueuesOpen' /\ RecordsUnshared'
    BY <1>3 DEF IInv, MappedQueuesOpen, RecordsUnshared, Release, mapVars
  <2> QED BY <2>1, <2>2
<1>4. ASSUME NEW t \in Callers, TakeStash(t) PROVE Safe
  BY <1>4 DEF IInv, NoOrphanQueue, HoldersAsked, MappedQueuesOpen, RecordsUnshared,
              TakeStash, mapVars, callerVars
<1>5. ASSUME NEW a \in Addrs, NEW p \in Packets, Stash(a, p) PROVE Safe
  <2>1. PICK r \in Records : Lookup(a, r)
    BY <1>5 DEF Stash
  <2>2. /\ MappedQueuesOpen' /\ RecordsUnshared'
        /\ \A u \in Callers :
             ref[u] # None /\ ref[u] \notin closed' => current'[asked[u]] = ref[u]
    BY <2>1, LookupSafe
  <2>3. NoOrphanQueue' /\ HoldersAsked'
    BY <2>2, <1>5 DEF IInv, NoOrphanQueue, HoldersAsked, Stash, callerVars
  <2> QED BY <2>2, <2>3
<1> QED BY <1>0, <1>1, <1>2, <1>3, <1>4, <1>5 DEF Call, IInv

(* Expiry: a record leaves the map and is closed in the same step.         *)
LEMMA SweepSafe == IInv /\ (ReadTime \/ RemoveExpired \/ Tick) => IInv'
<1> SUFFICES ASSUME IInv, ReadTime \/ RemoveExpired \/ Tick PROVE IInv'
  OBVIOUS
<1>0. TypeOK'
  BY SweepType DEF IInv
<1>1. CASE ReadTime \/ Tick
  <2>1. UNCHANGED <<current, closed, callerVars>>
    BY <1>1 DEF ReadTime, Tick, mapVars
  <2> QED BY <1>0, <2>1 DEF IInv, NoOrphanQueue, HoldersAsked, MappedQueuesOpen,
                            RecordsUnshared, callerVars
<1>2. CASE RemoveExpired
  <2>1. asked' = asked /\ ref' = ref
    BY <1>2 DEF RemoveExpired, callerVars
  <2>2. \A a \in Addrs : current'[a] = IF a \in Expired THEN None ELSE current[a]
    BY <1>2 DEF RemoveExpired
  <2>3. closed' = closed \cup {current[a] : a \in Expired} /\ Expired \subseteq Addrs
    BY <1>2 DEF RemoveExpired, Expired
  <2>4. NoOrphanQueue'
    <3> SUFFICES ASSUME NEW t \in Callers, ref[t] # None, ref[t] \notin closed'
                 PROVE  current'[asked[t]] = ref[t]
      BY <2>1 DEF NoOrphanQueue
    <3>1. asked[t] \in Addrs /\ current[asked[t]] = ref[t]
      BY <2>3 DEF IInv, HoldersAsked, NoOrphanQueue
    <3>2. asked[t] \notin Expired
      BY <2>3, <3>1
    <3> QED BY <2>2, <3>1, <3>2
  <2>5. MappedQueuesOpen'
    <3> SUFFICES ASSUME NEW a \in Addrs, current'[a] # None PROVE current'[a] \notin closed'
      BY DEF MappedQueuesOpen
    <3>1. a \notin Expired /\ current'[a] = current[a]
      BY <2>2
    <3>2. current[a] \notin closed
      BY <3>1 DEF IInv, MappedQueuesOpen
    <3>3. \A b \in Expired : current[b] # current[a]
      BY <2>3, <3>1 DEF IInv, RecordsUnshared
    <3> QED BY <2>3, <3>1, <3>2, <3>3
  <2>6. RecordsUnshared'
    BY <2>2 DEF IInv, RecordsUnshared
  <2>7. HoldersAsked'
    BY <2>1 DEF IInv, HoldersAsked
  <2> QED BY <1>0, <2>4, <2>5, <2>6, <2>7 DEF IInv
<1> QED BY <1>1, <1>2

LEMMA NextSafe == IInv /\ [Next]_vars => IInv'
<1>1. IInv /\ UNCHANGED vars => IInv'
  BY DEF IInv, TypeOK, NoOrphanQueue, HoldersAsked, MappedQueuesOpen, RecordsUnshared, vars
<1> QED BY <1>1, CallSafe, SweepSafe DEF Next

(* Whatever the number of goroutines racing in SendQueue, Unstash, Stash   *)
(* and the sweep (remotemap.go:68-111, :125), a queue that has been handed *)
(* out is closed or is the one the map holds.                              *)
THEOREM QueuesNeverOrphaned == Spec => []NoOrphanQueue
<1>1. IInv => NoOrphanQueue
  BY DEF IInv
<1> QED BY <1>1, InitSafe, NextSafe, PTL DEF Spec

-----------------------------------------------------------------------------
(* The observer's clock of the last Lookup agrees with LastSeen.           *)

ObservedInv ==
  /\ TypeOK
  /\ unlooked \in [Addrs -> Nat]
  /\ \A a \in Addrs : current[a] # None => unlooked[a] = age[a]

LEMMA ObservedInitInv == ObservedInit => ObservedInv
BY InitType DEF ObservedInit, Init, ObservedInv

LEMMA ObservedNextIsNext == ObservedNext => Next
<1>1. ASSUME NEW a \in Addrs, LooksUp(a) PROVE Next
  BY <1>1 DEF LooksUp, Next, Call
<1>2. ASSUME NEW t \in Callers, NEW a \in Addrs, FastPath(t, a) PROVE Next
  BY <1>2 DEF Next, Call
<1>3. ASSUME NEW t \in Callers, Release(t) \/ TakeStash(t) PROVE Next
  BY <1>3 DEF Next, Call
<1>4. ReadTime \/ RemoveExpired \/ Tick => Next
  BY DEF Next
<1> QED BY <1>1, <1>2, <1>3, <1>4 DEF ObservedNext

(* The observed system takes the steps of RemoteMap, so it keeps the types.*)
LEMMA ObservedType == ObservedInv /\ [ObservedNext]_observedVars => TypeOK'
BY NextType, ObservedNextIsNext DEF ObservedInv, observedVars, vars

LEMMA ObservedStep == ObservedInv /\ [ObservedNext]_observedVars => ObservedInv'
<1> SUFFICES ASSUME ObservedInv, [ObservedNext]_observedVars PROVE ObservedInv'
  OBVIOUS
<1>0. TypeOK'
  BY ObservedType
<1>1. CASE UNCHANGED observedVars
  BY <1>0, <1>1 DEF ObservedInv, observedVars, vars
<1>2. ASSUME NEW a \in Addrs, LooksUp(a), unlooked' = [unlooked EXCEPT ![a] = 0]
      PROVE  ObservedInv'
  <2>1. PICK r \in Records : Lookup(a, r)
    BY <1>2 DEF LooksUp, SlowPath, Stash
  <2>2. age' = [age EXCEPT ![a] = 0] /\ \A b \in Addrs : b # a => current'[b] = current[b]
    BY <2>1 DEF Lookup, Found, Create, ObservedInv, TypeOK
  <2> QED BY <1>0, <1>2, <2>2 DEF ObservedInv, TypeOK
<1>3. ASSUME NEW t \in Callers, NEW a \in Addrs, FastPath(t, a), UNCHANGED unlooked
      PROVE  ObservedInv'
  BY <1>0, <1>3 DEF ObservedInv, FastPath, mapVars
<1>4. ASSUME ReadTime, UNCHANGED unlooked PROVE ObservedInv'
  BY <1>0, <1>4 DEF ObservedInv, ReadTime, mapVars
<1>5. ASSUME RemoveExpired, UNCHANGED unlooked PROVE ObservedInv'
  BY <1>0, <1>5 DEF ObservedInv, RemoveExpired, TypeOK
<1>6. ASSUME Tick, unlooked' = [a \in Addrs |-> Smaller(unlooked[a] + 1, MaxAge)]
      PROVE  ObservedInv'
  <2>1. \A a \in Addrs : Smaller(unlooked[a] + 1, MaxAge) \in Nat
    BY TimeAssumption DEF ObservedInv, Smaller, MaxAge
  <2>2. unlooked' \in [Addrs -> Nat]
    BY <1>6, <2>1
  <2> QED BY <1>0, <1>6, <2>2 DEF ObservedInv, Tick
<1>7. ASSUME NEW t \in Callers, Release(t) \/ TakeStash(t), UNCHANGED unlooked
      PROVE  ObservedInv'
  BY <1>0, <1>7 DEF ObservedInv, Release, TakeStash, mapVars
<1> QED BY <1>1, <1>2, <1>3, <1>4, <1>5, <1>6, <1>7 DEF ObservedNext

(* Only removeExpired takes a peer out of the map, and only a full timeout *)
(* after its last Lookup, however late the sweep gets the lock.            *)
LEMMA RemovedOld ==
  ASSUME ObservedInv, [ObservedNext]_observedVars, NEW a \in Addrs,
         current[a] # None, current'[a] # current[a]
  PROVE  unlooked[a] >= Timeout
<1>1. RemoveExpired
  <2>1. ASSUME NEW b \in Addrs, LooksUp(b) PROVE FALSE
    <3>1. PICK r \in Records : Lookup(b, r)
      BY <2>1 DEF LooksUp, SlowPath, Stash
    <3> QED BY <3>1 DEF Lookup, Found, Create, ObservedInv, TypeOK
  <2>2. ASSUME NEW t \in Callers, NEW b \in Addrs, FastPath(t, b) PROVE FALSE
    BY <2>2 DEF FastPath, mapVars
  <2>3. ~ReadTime /\ ~Tick /\ ~UNCHANGED observedVars
    BY DEF ReadTime, Tick, mapVars, observedVars, vars
  <2>4. ASSUME NEW t \in Callers, Release(t) \/ TakeStash(t) PROVE FALSE
    BY <2>4 DEF Release, TakeStash, mapVars
  <2> QED BY <2>1, <2>2, <2>3, <2>4 DEF ObservedNext
<1>2. a \in Expired
  BY <1>1 DEF RemoveExpired
<1>3. age[a] >= Timeout
  BY <1>2, TimeAssumption DEF Expired, ObservedInv, TypeOK, MaxAge
<1> QED BY <1>3 DEF ObservedInv

(* The timeout of NewRemoteMap (remotemap.go:35) is a lower bound for      *)
(* every peer that reaches Lookup.                                         *)
THEOREM LookedUpPeersStay == ObservedSpec => LookedUpPeersTracked
<1>1. ObservedInv /\ [ObservedNext]_observedVars
        => [\A a \in Addrs : current[a] # None /\ current'[a] # current[a]
                               => unlooked[a] >= Timeout]_observedVars
  BY RemovedOld
<1> QED BY <1>1, ObservedInitInv, ObservedStep, PTL DEF ObservedSpec, LookedUpPeersTracked
=============================================================================
