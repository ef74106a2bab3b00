---------------------------- MODULE RemoteMapHeap ----------------------------
(***************************************************************************)
(* remoteMapInner in full: byAge, the slice container/heap keeps ordered   *)
(* by LastSeen, and byAddr, the index of every address in that slice,      *)
(* which Swap, Push and Pop must keep in step.  Every operation of         *)
(* RemoteMap is repeated on these two structures and shown to implement    *)
(* module RemoteMap.  Times are absolute here, up to MaxTime.              *)
(***************************************************************************)
EXTENDS Integers, Sequences, FiniteSets

CONSTANTS Addrs, Callers, Records, Packets, None, Timeout, MaxLag,
  MaxTime   (* bound on the clock *)

VARIABLES
  byAge,    (* sequence of [addr, rec, seen]; Go index k is position k + 1 *)
  byAddr,   (* the index of each address present                           *)
  now, stash, closed, asked, ref, sweeper,
  wakeAt,   (* when the expiry goroutine's time.Sleep ends                 *)
  swept     (* the time it has read                                        *)

inner == [byAge |-> byAge, byAddr |-> byAddr]
innerVars == <<byAge, byAddr, closed>>
callerVars == <<asked, ref>>
sweepVars == <<sweeper, wakeAt, swept>>
vars == <<innerVars, now, stash, callerVars, sweepVars>>

-----------------------------------------------------------------------------
(* heap.Interface, on a pair h of both structures.                         *)

At(h, i) == h.byAge[i + 1]
Size(h) == Len(h.byAge)
Less(h, i, j) == At(h, i).seen < At(h, j).seen

(* Fault: only one of the two indices is updated.                          *)
SwapForgets(h, i, j) ==
  LET swapped == [h.byAge EXCEPT ![i + 1] = At(h, j), ![j + 1] = At(h, i)]
  IN  [byAge  |-> swapped,
       byAddr |-> [h.byAddr EXCEPT ![swapped[i + 1].addr] = i]]

Swap(h, i, j) ==
  LET swapped == [h.byAge EXCEPT ![i + 1] = At(h, j), ![j + 1] = At(h, i)]
  IN  [byAge  |-> swapped,
       byAddr |-> [h.byAddr EXCEPT ![swapped[i + 1].addr] = i,
                                   ![swapped[j + 1].addr] = j]]

PushBack(h, record) ==
  [byAge  |-> Append(h.byAge, record),
   byAddr |-> [a \in DOMAIN h.byAddr \cup {record.addr} |->
                 IF a = record.addr THEN Size(h) ELSE h.byAddr[a]]]

PopBack(h) ==
  LET n == Cardinality(DOMAIN h.byAddr)
      gone == At(h, n - 1).addr
  IN  [byAge  |-> SubSeq(h.byAge, 1, n - 1),
       byAddr |-> [a \in DOMAIN h.byAddr \ {gone} |-> h.byAddr[a]]]

-----------------------------------------------------------------------------
(* container/heap: up and down let the record at s.at rise or sink one     *)
(* level at a time, until it is in its place.                              *)

Rise(s) ==
  LET i == (s.at - 1) \div 2
  IN  IF s.at = 0 \/ ~Less(s.heap, s.at, i) THEN s
      ELSE [heap |-> Swap(s.heap, i, s.at), at |-> i]

Sink(s, n) ==
  LET left == 2 * s.at + 1
      right == left + 1
      j == IF right < n /\ Less(s.heap, right, left) THEN right ELSE left
  IN  IF left >= n \/ ~Less(s.heap, j, s.at) THEN s
      ELSE [heap |-> Swap(s.heap, s.at, j), at |-> j]

(* A place is at most Size(h) levels from the root, and from the leaves.   *)
Up(h, j) ==
  LET risen[k \in 0..Size(h)] ==
        IF k = 0 THEN [heap |-> h, at |-> j] ELSE Rise(risen[k - 1])
  IN  risen[Size(h)].heap

Down(h, i, n) ==
  LET sunk[k \in 0..n] ==
        IF k = 0 THEN [heap |-> h, at |-> i] ELSE Sink(sunk[k - 1], n)
  IN  sunk[n]

Fix(h, i) == LET d == Down(h, i, Size(h)) IN IF d.at > i THEN d.heap ELSE Up(h, i)
Push(h, record) == Up(PushBack(h, record), Size(h))
Pop(h) == LET n == Size(h) - 1 IN PopBack(Down(Swap(h, 0, n), 0, n).heap)

-----------------------------------------------------------------------------
(* Fault: LastSeen is updated in place, without heap.Fix.                  *)
RefreshedInPlace(h, i, t) == [h EXCEPT !.byAge[i + 1].seen = t]

Refreshed(h, i, t) == Fix([h EXCEPT !.byAge[i + 1].seen = t], i)

(* Lookup at the current time: r is the record it returns.                 *)
Lookup(a, r) ==
  LET h == IF a \in DOMAIN byAddr
           THEN Refreshed(inner, byAddr[a], now)
           ELSE Push(inner, [addr |-> a, rec |-> r, seen |-> now])
  IN  /\ IF a \in DOMAIN byAddr
         THEN r = byAge[byAddr[a] + 1].rec /\ UNCHANGED closed
         ELSE /\ \A i \in DOMAIN byAge : byAge[i].rec # r
              /\ \A t \in Callers : ref[t] # r
              /\ closed' = closed \ {r}
      /\ byAge' = h.byAge
      /\ byAddr' = h.byAddr

(* removeExpired: it stops at the first record that has not expired.       *)
PopIfExpired(h, t) ==
  IF Size(h) > 0 /\ t - At(h, 0).seen >= Timeout THEN Pop(h) ELSE h

PopExpired(h, t) ==
  LET popped[k \in 0..Size(h)] == IF k = 0 THEN h ELSE PopIfExpired(popped[k - 1], t)
  IN  popped[Size(h)]

RecordOf(a) == IF a \in DOMAIN byAddr THEN byAge[byAddr[a] + 1].rec ELSE None
StashOf(a) == IF a \in DOMAIN byAddr THEN stash[RecordOf(a)] ELSE None

-----------------------------------------------------------------------------
Init ==
  /\ byAge = <<>>
  /\ byAddr = [a \in {} |-> 0]
  /\ now = 0
  /\ stash = [r \in Records |-> None]
  /\ closed = {}
  /\ asked = [t \in Callers |-> None]
  /\ ref = [t \in Callers |-> None]
  /\ sweeper = "asleep"
  /\ wakeAt = Timeout \div 2
  /\ swept = 0

FastPath(t, a) ==
  /\ asked[t] = None
  /\ asked' = [asked EXCEPT ![t] = a]
  /\ ref' = [ref EXCEPT ![t] = RecordOf(a)]
  /\ UNCHANGED <<innerVars, now, stash, sweepVars>>

SlowPath(t) ==
  /\ asked[t] # None
  /\ ref[t] = None
  /\ \E r \in Records :
       /\ Lookup(asked[t], r)
       /\ ref' = [ref EXCEPT ![t] = r]
       /\ stash' = [stash EXCEPT ![r] = StashOf(asked[t])]
  /\ UNCHANGED <<asked, now, sweepVars>>

Release(t) ==
  /\ ref[t] # None
  /\ asked' = [asked EXCEPT ![t] = None]
  /\ ref' = [ref EXCEPT ![t] = None]
  /\ UNCHANGED <<innerVars, now, stash, sweepVars>>

Stash(a, p) ==
  /\ \E r \in Records :
       /\ Lookup(a, r)
       /\ stash' = [stash EXCEPT ![r] = IF StashOf(a) = None THEN p ELSE @]
  /\ UNCHANGED <<callerVars, now, sweepVars>>

TakeStash(t) ==
  /\ ref[t] # None
  /\ stash[ref[t]] # None
  /\ stash' = [stash EXCEPT ![ref[t]] = None]
  /\ UNCHANGED <<innerVars, callerVars, now, sweepVars>>

ReadTime ==
  /\ Timeout > 0
  /\ sweeper = "asleep"
  /\ now >= wakeAt
  /\ sweeper' = "timed"
  /\ swept' = now
  /\ UNCHANGED <<innerVars, now, stash, callerVars, wakeAt>>

RemoveExpired ==
  /\ sweeper = "timed"
  /\ LET h == PopExpired(inner, swept)
     IN  /\ byAge' = h.byAge
         /\ byAddr' = h.byAddr
         /\ closed' = closed \cup {RecordOf(a) : a \in DOMAIN byAddr \ DOMAIN h.byAddr}
  /\ sweeper' = "asleep"
  /\ wakeAt' = now + Timeout \div 2
  /\ UNCHANGED <<now, stash, callerVars, swept>>

Tick ==
  /\ now < MaxTime
  /\ sweeper = "timed" => now - swept < MaxLag
  /\ now' = now + 1
  /\ UNCHANGED <<innerVars, stash, callerVars, sweepVars>>

Next ==
  \/ \E t \in Callers, a \in Addrs : FastPath(t, a)
  \/ \E t \in Callers : SlowPath(t) \/ Release(t) \/ TakeStash(t)
  \/ \E a \in Addrs, p \in Packets : Stash(a, p)
  \/ ReadTime \/ RemoveExpired \/ Tick

Spec == Init /\ [][Next]_vars

-----------------------------------------------------------------------------
(* byAddr holds exactly the positions of byAge (remotemap.go:116), so the  *)
(* panics "inconsistent remoteMap" and "duplicate address in remoteMap"    *)
(* (remotemap.go:160, :178) are unreachable and no peer is ever served     *)
(* from another peer's queue.                                              *)
IndexConsistent ==
  /\ Cardinality(DOMAIN byAddr) = Len(byAge)
  /\ \A a \in DOMAIN byAddr :
       byAddr[a] \in 0..Len(byAge) - 1 /\ byAge[byAddr[a] + 1].addr = a

(* Mapped onto module RemoteMap, every operation on the heap and the index *)
(* is the operation on the plain map from addresses to records: the peers  *)
(* removed by removeExpired (remotemap.go:125) are all those that have     *)
(* expired and no others, although it stops at the first record that is    *)
(* fresh and relies on byAge[0] to be the peer unseen for longest (:114).  *)
Map == INSTANCE RemoteMap WITH
  current <- [a \in Addrs |-> RecordOf(a)],
  age <- [a \in Addrs |->
            IF a \notin DOMAIN byAddr THEN 0
            ELSE LET t == now - byAge[byAddr[a] + 1].seen
                 IN  IF t < Timeout + MaxLag THEN t ELSE Timeout + MaxLag],
  nap <- IF wakeAt > now THEN wakeAt - now ELSE 0,
  lag <- IF sweeper = "timed" THEN now - swept ELSE 0

ImplementsMap == Map!Spec
=============================================================================
