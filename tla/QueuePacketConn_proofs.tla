----------------------- MODULE QueuePacketConn_proofs -----------------------
(***************************************************************************)
(* A packet in a QueuePacketConn can be found by the sender that it is     *)
(* for, whatever the goroutines that write, send and expire, and an error  *)
(* is in place before anybody sees the connection closed.                  *)
(***************************************************************************)
EXTENDS QueuePacketConn, FiniteSetTheorems, TLAPS

(* What has been proved of the map holds for its map.                      *)
Facts == INSTANCE RemoteMap_proofs
           WITH Callers <- Writers \cup Slots, Packets <- Addrs, unlooked <- age

Types ==
  /\ sendq \in [Records -> Seq(Addrs)]
  /\ hand \in [Senders -> Addrs \cup {None}]

(* QueuedPacketsFindable follows from itself only with what RemoteMap      *)
(* keeps: a queue that a writer holds open is the one of its peer.         *)
IInv == Facts!IInv /\ Types /\ QueuedPacketsFindable

-----------------------------------------------------------------------------
(* The steps on the map are those of RemoteMap.                            *)

LEMMA Assumptions == Facts!NoneAssumption /\ Facts!TimeAssumption
BY MapAssumption DEF Facts!NoneAssumption, Facts!TimeAssumption

LEMMA SameDefinitions ==
  /\ \A t \in Writers \cup Slots, a \in Addrs : Map!FastPath(t, a) => Facts!FastPath(t, a)
  /\ \A t \in Writers \cup Slots :
       /\ Map!SlowPath(t) => Facts!SlowPath(t)
       /\ Map!Release(t) => Facts!Release(t)
       /\ Map!TakeStash(t) => Facts!TakeStash(t)
  /\ \A a, p \in Addrs : Map!Stash(a, p) => Facts!Stash(a, p)
  /\ Map!ReadTime \/ Map!RemoveExpired \/ Map!Tick
       => Facts!ReadTime \/ Facts!RemoveExpired \/ Facts!Tick
<1> USE DEF Map!mapVars, Facts!mapVars, Map!callerVars, Facts!callerVars, Map!sweepVars,
            Facts!sweepVars
<1> USE DEF Map!Lookup, Facts!Lookup, Map!Found, Facts!Found, Map!Create, Facts!Create,
            Map!Reachable, Facts!Reachable, Map!StashOf, Facts!StashOf
<1>1. ASSUME NEW t \in Writers \cup Slots, NEW a \in Addrs, Map!FastPath(t, a)
      PROVE  Facts!FastPath(t, a)
  BY <1>1 DEF Map!FastPath, Facts!FastPath
<1>2. ASSUME NEW t \in Writers \cup Slots
      PROVE  /\ Map!SlowPath(t) => Facts!SlowPath(t)
             /\ Map!Release(t) => Facts!Release(t)
             /\ Map!TakeStash(t) => Facts!TakeStash(t)
  BY DEF Map!SlowPath, Facts!SlowPath, Map!Release, Facts!Release, Map!TakeStash, Facts!TakeStash
<1>3. ASSUME NEW a \in Addrs, NEW p \in Addrs, Map!Stash(a, p) PROVE Facts!Stash(a, p)
  BY <1>3 DEF Map!Stash, Facts!Stash
<1>4. Map!ReadTime \/ Map!RemoveExpired \/ Map!Tick
        => Facts!ReadTime \/ Facts!RemoveExpired \/ Facts!Tick
  BY DEF Map!ReadTime, Facts!ReadTime, Map!RemoveExpired, Facts!RemoveExpired, Map!Expired,
         Facts!Expired, Map!Tick, Facts!Tick, Map!Smaller, Facts!Smaller, Map!MaxAge, Facts!MaxAge
<1> QED BY <1>1, <1>2, <1>3, <1>4

(* A sender that forgets both channels at once.                            *)
LEMMA ForgetSafe ==
  ASSUME Facts!IInv, NEW s \in Senders, Forget(s)
  PROVE  Facts!IInv'
<1>1. /\ \A l \in Writers \cup Slots : \/ asked'[l] = asked[l] /\ ref'[l] = ref[l]
                                       \/ asked'[l] = None /\ ref'[l] = None
      /\ asked' \in [Writers \cup Slots -> Addrs \cup {None}]
      /\ ref' \in [Writers \cup Slots -> Records \cup {None}]
      /\ UNCHANGED <<current, age, stash, closed, sweeper, nap, lag>>
  BY DEF Forget, Facts!IInv, Facts!TypeOK
<1> QED BY <1>1 DEF Facts!IInv, Facts!TypeOK, Facts!NoOrphanQueue, Facts!MappedQueuesOpen,
                    Facts!RecordsUnshared, Facts!HoldersAsked, Facts!MaxAge

(* Every step of the connection keeps what RemoteMap keeps.                *)
LEMMA MapSafe == IInv /\ [Next]_vars => Facts!IInv'
<1> SUFFICES ASSUME IInv, [Next]_vars PROVE Facts!IInv'
  OBVIOUS
<1>1. ASSUME Facts!Next \/ UNCHANGED mapVars PROVE Facts!IInv'
  BY <1>1, Assumptions, Facts!NextSafe DEF IInv, mapVars, Facts!vars
<1> USE SameDefinitions DEF Facts!Next, Facts!Call
<1>2. ASSUME NEW w \in Writers, NEW a \in Addrs, WriteBegin(w, a) PROVE Facts!Next
  BY <1>2 DEF WriteBegin
<1>3. ASSUME NEW l \in Writers \cup Slots, GetQueue(l) PROVE Facts!Next
  BY <1>3 DEF GetQueue
<1>4. ASSUME NEW w \in Writers, WriteSend(w) PROVE Facts!Next \/ UNCHANGED mapVars
  BY <1>4 DEF WriteSend
<1>5. ASSUME NEW s \in Senders, NEW a \in Addrs, AskUnstash(s, a) \/ AskOutgoing(s, a) PROVE Facts!Next
  <2>1. <<s, "unstash">> \in Writers \cup Slots /\ <<s, "outgoing">> \in Writers \cup Slots
    BY DEF Slots
  <2> QED BY <1>5, <2>1 DEF AskUnstash, AskOutgoing
<1>6. ASSUME NEW s \in Senders, ReceiveStashed(s) PROVE Facts!Next
  <2>1. <<s, "unstash">> \in Writers \cup Slots
    BY DEF Slots
  <2> QED BY <1>6, <2>1 DEF ReceiveStashed
<1>7. ASSUME NEW s \in Senders, PutBack(s) PROVE Facts!Next
  <2>1. hand[s] \in Addrs
    BY <1>7 DEF PutBack, IInv, Types
  <2> QED BY <1>7, <2>1 DEF PutBack
<1>8. ASSUME NEW s \in Senders, Receive(s) \/ Transmit(s) PROVE UNCHANGED mapVars
  BY <1>8 DEF Receive, Transmit
<1>9. Expiry => Facts!Next
  BY DEF Expiry
<1>10. ASSUME NEW s \in Senders, Forget(s) PROVE Facts!IInv'
  BY <1>10, ForgetSafe DEF IInv
<1>11. Incoming \/ Exited \/ UNCHANGED vars => UNCHANGED mapVars
  BY DEF Incoming, IncomingBegin, IncomingQueue, ReadBegin, ReadFinish, CloseBegin, CloseStore,
         CloseClose, CloseAgain, Exited, vars, sendVars, mapVars
<1> QED BY <1>1, <1>2, <1>3, <1>4, <1>5, <1>6, <1>7, <1>8, <1>9, <1>10, <1>11 DEF Next, Outgoing

-----------------------------------------------------------------------------
(* The packets of a record that the map or a goroutine refers to.          *)
Live(r) == r \notin closed /\ Map!Reachable(r)
Findable(r) ==
  /\ \A i \in DOMAIN sendq[r] : current[sendq[r][i]] = r
  /\ stash[r] # None => current[stash[r]] = r

LEMMA FindableAll == QueuedPacketsFindable <=> \A r \in Records : Live(r) => Findable(r)
BY DEF QueuedPacketsFindable, Live, Findable

LEMMA FindableAfter ==
  ASSUME \A r \in Records : Live(r)' => Findable(r)'
  PROVE  QueuedPacketsFindable'
BY DEF QueuedPacketsFindable, Live, Findable

(* A goroutine that gets, keeps or drops a reference makes nothing live.   *)
LEMMA ReferenceKeeps ==
  ASSUME IInv, UNCHANGED <<current, closed>>, NEW r \in Records,
         \A t \in Writers \cup Slots :
           ref'[t] \in {None, ref[t]} \/ \E a \in Addrs : ref'[t] = current[a],
         Live(r)'
  PROVE  Live(r) /\ Findable(r)
<1>1. r # None
  BY MapAssumption
<1>2. Live(r)
  BY <1>1 DEF Live, Map!Reachable
<1> QED BY <1>2, FindableAll DEF IInv

(* A Lookup: the record returned is new, and empty, or was found.          *)
LEMMA LookupFindable ==
  ASSUME IInv, NEW a \in Addrs, NEW q \in Records, Facts!Lookup(a, q), NewQueues,
         \A t \in Writers \cup Slots : ref'[t] = ref[t] \/ ref'[t] = q,
         \A r \in Records : r # q => stash'[r] = stash[r],
         stash'[q] = Facts!StashOf(a) \/ (Facts!StashOf(a) = None /\ stash'[q] = a)
  PROVE  QueuedPacketsFindable'
<1>0. /\ current'[a] = q /\ q \notin closed'
      /\ \A b \in Addrs : b # a => current'[b] = current[b] /\ current[b] # q
      /\ \A b \in Addrs : current[b] # None => current'[b] = current[b]
      /\ \A r \in Records : r # q => (r \in closed' <=> r \in closed)
      /\ current[a] # q => \A t \in Writers \cup Slots : ref[t] # q
  BY Assumptions, Facts!LookupKeeps DEF IInv
<1>1. None \notin Records /\ sendq \in [Records -> Seq(Addrs)] /\ stash \in [Records -> Addrs \cup {None}]
  BY MapAssumption DEF IInv, Types, Facts!IInv, Facts!TypeOK
<1>2. ASSUME NEW r \in Records, Live(r), sendq'[r] = sendq[r], stash'[r] = stash[r]
      PROVE  Findable(r)'
  <2>1. Findable(r)
    BY <1>2, FindableAll DEF IInv
  <2>2. \A i \in DOMAIN sendq[r] : sendq[r][i] \in Addrs
    BY <1>1
  <2>3. stash[r] # None => stash[r] \in Addrs
    BY <1>1
  <2>4. \A b \in Addrs : current[b] = r => current'[b] = r
    BY <1>0, <1>1
  <2> QED BY <1>2, <2>1, <2>2, <2>3, <2>4 DEF Findable
<1>3. ASSUME NEW r \in Records, r # q, Live(r)' PROVE Findable(r)'
  <2>1. Live(r)
    BY <1>0, <1>1, <1>3 DEF Live, Map!Reachable
  <2>2. sendq'[r] = sendq[r]
    BY <1>0, <1>3 DEF NewQueues
  <2> QED BY <1>2, <1>3, <2>1, <2>2
<1>4. CASE current[a] = q
  <2>1. Live(q)
    BY <1>1, <1>4 DEF Live, Map!Reachable, IInv, Facts!IInv, Facts!MappedQueuesOpen
  <2>2. sendq'[q] = sendq[q]
    BY <1>0, <1>4 DEF NewQueues
  <2>3. Facts!StashOf(a) = stash[q]
    BY <1>1, <1>4 DEF Facts!StashOf
  <2>4. ASSUME stash'[q] = stash[q] PROVE Findable(q)'
    BY <1>2, <2>1, <2>2, <2>4
  <2>5. ASSUME stash[q] = None, stash'[q] = a PROVE Findable(q)'
    <3>1. Findable(q)
      BY <2>1, FindableAll DEF IInv
    <3>2. \A i \in DOMAIN sendq[q] : sendq[q][i] \in Addrs
      BY <1>1
    <3> QED BY <1>0, <1>1, <2>2, <2>5, <3>1, <3>2 DEF Findable
  <2>6. Findable(q)'
    BY <2>3, <2>4, <2>5
  <2> QED BY <1>3, <2>6, FindableAfter
<1>5. CASE current[a] # q
  <2>1. sendq'[q] = <<>>
    BY <1>0, <1>5 DEF NewQueues
  <2>2. Facts!StashOf(a) = None
    BY <1>5 DEF Facts!Lookup, Facts!Found, Facts!Create, Facts!StashOf
  <2>3. Findable(q)'
    <3>1. DOMAIN sendq'[q] = {}
      BY <2>1
    <3> QED BY <1>0, <2>2, <3>1 DEF Findable
  <2> QED BY <1>3, <2>3, FindableAfter
<1> QED BY <1>4, <1>5

-----------------------------------------------------------------------------
LEMMA InitInv == Init => IInv
<1> SUFFICES ASSUME Init PROVE IInv
  OBVIOUS
<1>1. Facts!IInv
  <2>1. Facts!Init
    BY DEF Init, Map!Init, Facts!Init
  <2> QED BY <2>1, Assumptions, Facts!InitSafe
<1>2. Types /\ QueuedPacketsFindable
  BY DEF Init, Map!Init, Types, QueuedPacketsFindable
<1> QED BY <1>1, <1>2 DEF IInv

LEMMA TypesKept == IInv /\ [Next]_vars => Types'
<1> SUFFICES ASSUME IInv, [Next]_vars PROVE Types'
  OBVIOUS
<1>0. /\ sendq \in [Records -> Seq(Addrs)] /\ hand \in [Senders -> Addrs \cup {None}]
      /\ ref \in [Writers \cup Slots -> Records \cup {None}]
      /\ stash \in [Records -> Addrs \cup {None}]
      /\ \A t \in Writers \cup Slots : ref[t] # None => asked[t] \in Addrs
  BY DEF IInv, Types, Facts!IInv, Facts!TypeOK, Facts!HoldersAsked
<1> USE <1>0 DEF Types
<1>1. NewQueues => sendq' \in [Records -> Seq(Addrs)]
  BY DEF NewQueues
<1>2. ASSUME NEW l \in Writers \cup Slots, GetQueue(l) PROVE Types'
  BY <1>1, <1>2 DEF GetQueue
<1>3. ASSUME NEW w \in Writers, WriteSend(w) PROVE Types'
  <2>1. asked[w] \in Addrs /\ ref[w] \in Records
    BY <1>3 DEF WriteSend
  <2>2. sendq[ref[w]] \in Seq(Addrs) /\ Append(sendq[ref[w]], asked[w]) \in Seq(Addrs)
    BY <2>1
  <2>3. sendq' \in [Records -> Seq(Addrs)]
    BY <1>3, <2>1, <2>2 DEF WriteSend
  <2> QED BY <1>3, <2>3 DEF WriteSend
<1>4. ASSUME NEW s \in Senders, Receive(s) PROVE Types'
  <2>1. PICK r \in Records : /\ sendq[r] # <<>> /\ sendq' = [sendq EXCEPT ![r] = Tail(@)]
                             /\ hand' = [hand EXCEPT ![s] = Head(sendq[r])]
    BY <1>4 DEF Receive, Slots
  <2>2. sendq[r] \in Seq(Addrs) /\ Head(sendq[r]) \in Addrs /\ Tail(sendq[r]) \in Seq(Addrs)
    BY <2>1
  <2> QED BY <2>1, <2>2
<1>5. ASSUME NEW s \in Senders, ReceiveStashed(s) PROVE Types'
  <2>1. stash[ref[<<s, "unstash">>]] \in Addrs \cup {None}
    BY <1>5 DEF ReceiveStashed, Map!TakeStash, Slots
  <2> QED BY <1>5, <2>1 DEF ReceiveStashed
<1>6. ASSUME NEW s \in Senders, PutBack(s) \/ Transmit(s) PROVE Types'
  BY <1>1, <1>6 DEF PutBack, Transmit
<1>7. ASSUME NEW s \in Senders, NEW a \in Addrs,
             AskUnstash(s, a) \/ AskOutgoing(s, a) \/ Forget(s)
      PROVE  UNCHANGED <<sendq, hand>>
  BY <1>7 DEF AskUnstash, AskOutgoing, Forget
<1>8. ASSUME NEW w \in Writers, NEW a \in Addrs, WriteBegin(w, a) PROVE UNCHANGED <<sendq, hand>>
  BY <1>8 DEF WriteBegin
<1>9. Expiry \/ Incoming \/ Exited \/ UNCHANGED vars => UNCHANGED <<sendq, hand>>
  BY DEF Expiry, Incoming, IncomingBegin, IncomingQueue, ReadBegin, ReadFinish, CloseBegin,
         CloseStore, CloseClose, CloseAgain, Exited, vars, sendVars
<1>10. ASSUME NEW s \in Senders, Forget(s) PROVE UNCHANGED <<sendq, hand>>
  BY <1>10 DEF Forget
<1> QED BY <1>2, <1>3, <1>4, <1>5, <1>6, <1>7, <1>8, <1>9, <1>10 DEF Next, Outgoing

(* Steps in which no record gets a packet.                                 *)
LEMMA FewerPackets ==
  ASSUME IInv, UNCHANGED <<current, closed>>,
         \A t \in Writers \cup Slots :
           ref'[t] \in {None, ref[t]} \/ \E a \in Addrs : ref'[t] = current[a],
         \A r \in Records : sendq'[r] = sendq[r] \/ (sendq[r] # <<>> /\ sendq'[r] = Tail(sendq[r])),
         \A r \in Records : stash'[r] \in {None, stash[r]}
  PROVE  QueuedPacketsFindable'
<1> SUFFICES ASSUME NEW r \in Records, Live(r)' PROVE Findable(r)'
  BY FindableAfter
<1>1. Findable(r)
  BY ReferenceKeeps
<1>2. sendq[r] \in Seq(Addrs)
  BY DEF IInv, Types
<1>3. \A i \in DOMAIN sendq'[r] : \E j \in DOMAIN sendq[r] : sendq'[r][i] = sendq[r][j]
  <2>1. CASE sendq'[r] = sendq[r]
    BY <2>1
  <2>2. CASE sendq[r] # <<>> /\ sendq'[r] = Tail(sendq[r])
    <3>1. \A i \in 1..(Len(sendq[r]) - 1) : Tail(sendq[r])[i] = sendq[r][i + 1] /\ i + 1 \in 1..Len(sendq[r])
      BY <1>2, <2>2
    <3>2. DOMAIN Tail(sendq[r]) = 1..(Len(sendq[r]) - 1) /\ DOMAIN sendq[r] = 1..Len(sendq[r])
      BY <1>2, <2>2
    <3> QED BY <2>2, <3>1, <3>2
  <2> QED BY <2>1, <2>2
<1> QED BY <1>1, <1>3 DEF Findable

(* WriteTo finds its peer's queue still in place, or it is closed.         *)
LEMMA WriteFindable ==
  ASSUME IInv, NEW w \in Writers, WriteSend(w)
  PROVE  QueuedPacketsFindable'
<1> DEFINE q == ref[w]
<1>0. /\ q \in Records /\ asked[w] \in Addrs /\ sendq[q] \in Seq(Addrs)
      /\ sendq \in [Records -> Seq(Addrs)] /\ ref \in [Writers \cup Slots -> Records \cup {None}]
  BY DEF WriteSend, IInv, Types, Facts!IInv, Facts!TypeOK, Facts!HoldersAsked
<1>1. /\ UNCHANGED <<current, closed, stash>>
      /\ \A t \in Writers \cup Slots : ref'[t] \in {None, ref[t]}
  BY <1>0 DEF WriteSend, Map!Release, mapVars, Map!mapVars
<1>2. CASE sendq' = sendq
  BY <1>1, <1>2, FewerPackets
<1>3. CASE q \notin closed /\ sendq' = [sendq EXCEPT ![q] = Append(@, asked[w])]
  <2>1. current[asked[w]] = q
    BY <1>0, <1>3, MapAssumption DEF IInv, Facts!IInv, Facts!NoOrphanQueue
  <2> SUFFICES ASSUME NEW r \in Records, Live(r)' PROVE Findable(r)'
    BY FindableAfter
  <2>2. Findable(r)
    BY <1>1, ReferenceKeeps
  <2>3. CASE r # q
    BY <1>0, <1>1, <1>3, <2>2, <2>3 DEF Findable
  <2>4. CASE r = q
    <3>1. /\ DOMAIN Append(sendq[q], asked[w]) = 1..(Len(sendq[q]) + 1)
          /\ DOMAIN sendq[q] = 1..Len(sendq[q]) /\ Len(sendq[q]) \in Nat
          /\ Append(sendq[q], asked[w])[Len(sendq[q]) + 1] = asked[w]
          /\ \A i \in 1..Len(sendq[q]) : Append(sendq[q], asked[w])[i] = sendq[q][i]
      BY <1>0
    <3>2. \A i \in 1..(Len(sendq[q]) + 1) : current[Append(sendq[q], asked[w])[i]] = q
      <4>1. \A i \in 1..Len(sendq[q]) : current[sendq[q][i]] = q
        BY <2>2, <2>4, <3>1 DEF Findable
      <4>2. \A i \in 1..(Len(sendq[q]) + 1) : i \in 1..Len(sendq[q]) \/ i = Len(sendq[q]) + 1
        BY <3>1
      <4>3. current[Append(sendq[q], asked[w])[Len(sendq[q]) + 1]] = q
        BY <2>1, <3>1
      <4>4. \A i \in 1..Len(sendq[q]) : current[Append(sendq[q], asked[w])[i]] = q
        BY <3>1, <4>1
      <4> QED BY <4>2, <4>3, <4>4
    <3>3. sendq'[q] = Append(sendq[q], asked[w])
      BY <1>0, <1>3
    <3> QED BY <1>1, <2>2, <2>4, <3>1, <3>2, <3>3 DEF Findable
  <2> QED BY <2>3, <2>4
<1> QED BY <1>0, <1>2, <1>3 DEF WriteSend

(* What is left in the map by a sweep has been there before it.            *)
LEMMA SweepFindable ==
  ASSUME IInv, Map!RemoveExpired, UNCHANGED sendq
  PROVE  QueuedPacketsFindable'
<1> SUFFICES ASSUME NEW r \in Records, Live(r)' PROVE Findable(r)'
  BY FindableAfter
<1>0. r # None /\ UNCHANGED <<stash, ref>>
  BY MapAssumption DEF Map!RemoveExpired, Map!callerVars
<1>1. /\ \A a \in Addrs : current'[a] = IF a \in Map!Expired THEN None ELSE current[a]
      /\ closed' = closed \cup {current[a] : a \in Map!Expired}
  BY DEF Map!RemoveExpired
<1>2. Findable(r)
  <2>1. Live(r)
    BY <1>0, <1>1 DEF Live, Map!Reachable
  <2> QED BY <2>1, FindableAll DEF IInv
<1>3. \A a \in Addrs : current[a] = r => current'[a] = r
  BY <1>1 DEF Live
<1>4. (\A i \in DOMAIN sendq[r] : sendq[r][i] \in Addrs) /\ stash[r] \in Addrs \cup {None}
  BY DEF IInv, Types, Facts!IInv, Facts!TypeOK
<1> QED BY <1>0, <1>2, <1>3, <1>4 DEF Findable

LEMMA FindableKept == IInv /\ [Next]_vars => QueuedPacketsFindable'
<1> SUFFICES ASSUME IInv, [Next]_vars PROVE QueuedPacketsFindable'
  OBVIOUS
<1>0. /\ ref \in [Writers \cup Slots -> Records \cup {None}]
      /\ asked \in [Writers \cup Slots -> Addrs \cup {None}]
      /\ stash \in [Records -> Addrs \cup {None}] /\ sendq \in [Records -> Seq(Addrs)]
      /\ \A s \in Senders : <<s, "unstash">> \in Slots /\ <<s, "outgoing">> \in Slots
  BY DEF IInv, Types, Facts!IInv, Facts!TypeOK, Slots
<1> DEFINE Moved ==
      \A t \in Writers \cup Slots :
        ref'[t] \in {None, ref[t]} \/ \E a \in Addrs : ref'[t] = current[a]
<1>1. ASSUME NEW t \in Writers \cup Slots, NEW a \in Addrs, Map!FastPath(t, a)
      PROVE  Moved /\ UNCHANGED <<current, closed, stash>>
  BY <1>0, <1>1 DEF Map!FastPath, Map!mapVars
<1>2. ASSUME NEW w \in Writers, NEW a \in Addrs, WriteBegin(w, a) PROVE QueuedPacketsFindable'
  <2>1. Map!FastPath(w, a) /\ UNCHANGED sendq
    BY <1>2 DEF WriteBegin
  <2> QED BY <2>1, <1>1, FewerPackets
<1>3. ASSUME NEW s \in Senders, NEW a \in Addrs, AskUnstash(s, a) \/ AskOutgoing(s, a)
      PROVE  QueuedPacketsFindable'
  <2>1. UNCHANGED sendq /\ \E t \in Writers \cup Slots : Map!FastPath(t, a)
    BY <1>0, <1>3 DEF AskUnstash, AskOutgoing
  <2> QED BY <2>1, <1>1, FewerPackets
<1>4. ASSUME NEW s \in Senders, Forget(s) PROVE QueuedPacketsFindable'
  <2>1. Moved /\ UNCHANGED <<current, closed, stash, sendq>>
    BY <1>0, <1>4 DEF Forget
  <2> QED BY <2>1, FewerPackets
<1>5. ASSUME NEW l \in Writers \cup Slots, GetQueue(l) PROVE QueuedPacketsFindable'
  <2>1. Map!SlowPath(l) /\ NewQueues
    BY <1>5 DEF GetQueue
  <2>2. asked[l] \in Addrs
    BY <1>0, <2>1 DEF Map!SlowPath
  <2>3. Facts!SlowPath(l)
    BY <2>1, SameDefinitions
  <2>4. PICK q \in Records : /\ Facts!Lookup(asked[l], q)
                             /\ ref' = [ref EXCEPT ![l] = q]
                             /\ stash' = [stash EXCEPT ![q] = Facts!StashOf(asked[l])]
    BY <2>3 DEF Facts!SlowPath
  <2> QED BY <1>0, <2>1, <2>2, <2>4, LookupFindable
<1>6. ASSUME NEW s \in Senders, PutBack(s) PROVE QueuedPacketsFindable'
  <2>1. hand[s] \in Addrs
    BY <1>6 DEF PutBack, IInv, Types
  <2>2. NewQueues /\ Facts!Stash(hand[s], hand[s])
    BY <1>6, <2>1, SameDefinitions DEF PutBack
  <2>3. PICK q \in Records :
          /\ Facts!Lookup(hand[s], q)
          /\ stash' = [stash EXCEPT ![q] = IF Facts!StashOf(hand[s]) = None THEN hand[s] ELSE @]
    BY <2>2 DEF Facts!Stash
  <2>4. ref' = ref
    BY <2>2 DEF Facts!Stash, Facts!callerVars
  <2>5. \A r \in Records : r # q => stash'[r] = stash[r]
    BY <1>0, <2>3
  <2>6. \/ stash'[q] = Facts!StashOf(hand[s])
        \/ Facts!StashOf(hand[s]) = None /\ stash'[q] = hand[s]
    <3>1. CASE Facts!StashOf(hand[s]) = None
      BY <1>0, <2>3, <3>1
    <3>2. CASE Facts!StashOf(hand[s]) # None
      <4>1. current[hand[s]] = q
        BY <2>3, <3>2 DEF Facts!StashOf, Facts!Lookup, Facts!Found, Facts!Create
      <4> QED BY <1>0, <2>3, <3>2, <4>1, MapAssumption DEF Facts!StashOf
    <3> QED BY <3>1, <3>2
  <2> QED BY <2>1, <2>2, <2>3, <2>4, <2>5, <2>6, LookupFindable
<1>7. ASSUME NEW s \in Senders, Receive(s) PROVE QueuedPacketsFindable'
  <2>1. Moved /\ UNCHANGED <<current, closed, stash>>
    BY <1>7 DEF Receive, mapVars
  <2>2. \A r \in Records : sendq'[r] = sendq[r] \/ (sendq[r] # <<>> /\ sendq'[r] = Tail(sendq[r]))
    BY <1>0, <1>7 DEF Receive
  <2> QED BY <2>1, <2>2, FewerPackets
<1>8. ASSUME NEW s \in Senders, ReceiveStashed(s) PROVE QueuedPacketsFindable'
  <2>1. Moved /\ UNCHANGED <<current, closed, sendq>>
    BY <1>8 DEF ReceiveStashed, Map!TakeStash, Map!mapVars, Map!callerVars
  <2>2. \A r \in Records : stash'[r] \in {None, stash[r]}
    BY <1>0, <1>8 DEF ReceiveStashed, Map!TakeStash
  <2> QED BY <2>1, <2>2, FewerPackets
<1>9. ASSUME UNCHANGED <<current, closed, stash, ref, sendq>> PROVE QueuedPacketsFindable'
  <2>1. Moved
    BY <1>9
  <2> QED BY <1>9, <2>1, FewerPackets
<1>10. ASSUME NEW s \in Senders, Transmit(s) PROVE QueuedPacketsFindable'
  BY <1>9, <1>10 DEF Transmit, mapVars
<1>11. CASE Expiry
  <2>1. CASE Map!RemoveExpired
    BY <1>11, <2>1, SweepFindable DEF Expiry
  <2>2. CASE Map!ReadTime \/ Map!Tick
    BY <1>9, <1>11, <2>2 DEF Expiry, Map!ReadTime, Map!Tick, Map!mapVars, Map!callerVars
  <2> QED BY <1>11, <2>1, <2>2 DEF Expiry
<1>12. CASE Incoming \/ Exited \/ UNCHANGED vars
  BY <1>9, <1>12 DEF Incoming, IncomingBegin, IncomingQueue, ReadBegin, ReadFinish, CloseBegin,
         CloseStore, CloseClose, CloseAgain, Exited, vars, sendVars, mapVars
<1>13. ASSUME NEW w \in Writers, WriteSend(w) PROVE QueuedPacketsFindable'
  BY <1>13, WriteFindable
<1> QED BY <1>2, <1>3, <1>4, <1>5, <1>6, <1>7, <1>8, <1>10, <1>11, <1>12, <1>13 DEF Next, Outgoing

(* Whatever the numbers of peers, goroutines and records, a packet waits   *)
(* where the sender of its peer looks (queuepacketconn.go:88-104), until   *)
(* its peer expires.                                                       *)
THEOREM PacketsAreFindable == Spec => []QueuedPacketsFindable
<1>1. IInv => QueuedPacketsFindable
  BY DEF IInv
<1>2. IInv /\ [Next]_vars => IInv'
  BY MapSafe, TypesKept, FindableKept DEF IInv
<1> QED BY <1>1, <1>2, InitInv, PTL DEF Spec

-----------------------------------------------------------------------------
(* Whoever closes the channel has stored the error.                        *)
CloseInv ==
  /\ pc \in [Producers \cup Readers \cup Closers ->
              {"idle", "queueing", "reading", "storing", "closing", "waiting", "returned"}]
  /\ (\E k \in Closers : pc[k] = "closing") => err
  /\ ErrorBeforeClosed

LEMMA CloseKept == CloseInv /\ [Next]_vars => CloseInv'
<1> SUFFICES ASSUME CloseInv, [Next]_vars PROVE CloseInv'
  OBVIOUS
<1> USE DEF CloseInv, ErrorBeforeClosed
<1>1. CASE Outgoing
  <2>1. UNCHANGED recvVars
    BY <1>1 DEF Outgoing, WriteBegin, GetQueue, WriteSend, AskUnstash, AskOutgoing, Forget,
                Receive, ReceiveStashed, PutBack, Transmit, Expiry
  <2> QED BY <2>1 DEF recvVars
<1>2. ASSUME NEW d \in Producers, IncomingBegin(d) \/ IncomingQueue(d) PROVE CloseInv'
  BY <1>2 DEF IncomingBegin, IncomingQueue, Goto
<1>3. ASSUME NEW r \in Readers, ReadBegin(r) \/ ReadFinish(r) PROVE CloseInv'
  BY <1>3 DEF ReadBegin, ReadFinish, Goto
<1>4. ASSUME NEW k \in Closers, CloseBegin(k) \/ CloseAgain(k) PROVE CloseInv'
  BY <1>4 DEF CloseBegin, CloseAgain, Goto
<1>5. ASSUME NEW k \in Closers, CloseStore(k) PROVE CloseInv'
  BY <1>5 DEF CloseStore, Goto
<1>6. ASSUME NEW k \in Closers, CloseClose(k) PROVE CloseInv'
  BY <1>6 DEF CloseClose, Goto
<1>7. CASE Exited \/ UNCHANGED vars
  BY <1>7 DEF Exited, vars, recvVars
<1> QED BY <1>1, <1>2, <1>3, <1>4, <1>5, <1>6, <1>7 DEF Next, Incoming

(* However many goroutines call Close, those that find the connection      *)
(* closed find an error to return (queuepacketconn.go:113, :129, :163).    *)
THEOREM ErrorComesFirst == Spec => []ErrorBeforeClosed
<1>1. Init => CloseInv
  BY DEF Init, CloseInv, ErrorBeforeClosed
<1>2. CloseInv => ErrorBeforeClosed
  BY DEF CloseInv
<1> QED BY <1>1, <1>2, CloseKept, PTL DEF Spec

-----------------------------------------------------------------------------
(* What is underway is counted, and only a QueueIncoming that has found    *)
(* the connection open adds to it.                                         *)
Queueing == {d \in Producers : pc[d] = "queueing"}
CountInv == CloseInv /\ recvq \in Seq(Addrs)

LEMMA CountKept == CountInv /\ [Next]_vars => CountInv'
<1> SUFFICES ASSUME CountInv, [Next]_vars PROVE recvq' \in Seq(Addrs)
  BY CloseKept DEF CountInv
<1> USE DEF CountInv
<1>1. ASSUME NEW d \in Producers, IncomingQueue(d) PROVE recvq' \in Seq(Addrs)
  BY <1>1 DEF IncomingQueue
<1>2. ASSUME NEW r \in Readers, ReadFinish(r) PROVE recvq' \in Seq(Addrs)
  BY <1>2 DEF ReadFinish
<1>3. CASE Outgoing
  BY <1>3 DEF Outgoing, WriteBegin, GetQueue, WriteSend, AskUnstash, AskOutgoing, Forget,
              Receive, ReceiveStashed, PutBack, Transmit, Expiry, recvVars
<1>4. CASE Exited \/ UNCHANGED vars
  BY <1>4 DEF Exited, vars, recvVars
<1> QED BY <1>1, <1>2, <1>3, <1>4
     DEF Next, Incoming, IncomingBegin, ReadBegin, CloseBegin, CloseStore, CloseClose, CloseAgain

LEMMA QueueingIsFinite == IsFiniteSet(Queueing) /\ Cardinality(Queueing) \in Nat
BY GoroutineAssumption, FS_Subset, FS_CardinalityType DEF Queueing

(* A step that queues nothing and lets no QueueIncoming begin.             *)
LEMMA NoMoreUnderway ==
  ASSUME CountInv, Queueing' = Queueing,
         recvq' = recvq \/ (recvq # <<>> /\ recvq' = Tail(recvq))
  PROVE  Underway' <= Underway
<1>1. Underway' = Len(recvq') + Cardinality(Queueing) /\ Underway = Len(recvq) + Cardinality(Queueing)
  BY DEF Underway, Queueing
<1>2. Len(recvq) \in Nat /\ Len(recvq') \in Nat /\ Len(recvq') <= Len(recvq)
  BY DEF CountInv
<1> QED BY <1>1, <1>2, QueueingIsFinite

LEMMA NothingTaken == CountInv /\ [Next]_vars => [isClosed => Underway' <= Underway]_vars
<1> SUFFICES ASSUME CountInv, Next, isClosed PROVE Underway' <= Underway
  OBVIOUS
<1>0. pc \in [Producers \cup Readers \cup Closers ->
               {"idle", "queueing", "reading", "storing", "closing", "waiting", "returned"}]
  BY DEF CountInv, CloseInv
<1>1. ASSUME NEW d \in Producers, IncomingQueue(d) PROVE Underway' <= Underway
  <2>1. Queueing' = Queueing \ {d} /\ d \in Queueing
    BY <1>0, <1>1 DEF IncomingQueue, Goto, Queueing
  <2>2. Cardinality(Queueing') = Cardinality(Queueing) - 1
    BY <2>1, QueueingIsFinite, FS_RemoveElement
  <2>3. Len(recvq) \in Nat /\ Len(recvq') \in Nat /\ Len(recvq') <= Len(recvq) + 1
    BY <1>1 DEF IncomingQueue, CountInv
  <2>4. /\ Underway' = Len(recvq') + Cardinality(Queueing')
        /\ Underway = Len(recvq) + Cardinality(Queueing)
    BY DEF Underway, Queueing
  <2> QED BY <2>2, <2>3, <2>4, QueueingIsFinite
<1>2. CASE Outgoing
  <2>1. UNCHANGED <<pc, recvq>>
    BY <1>2 DEF Outgoing, WriteBegin, GetQueue, WriteSend, AskUnstash, AskOutgoing, Forget,
                Receive, ReceiveStashed, PutBack, Transmit, Expiry, recvVars
  <2> QED BY <2>1, NoMoreUnderway DEF Queueing
<1>3. ASSUME NEW r \in Readers, ReadBegin(r) \/ ReadFinish(r) PROVE Underway' <= Underway
  <2>1. Queueing' = Queueing
    BY <1>0, <1>3 DEF ReadBegin, ReadFinish, Goto, Queueing
  <2> QED BY <1>3, <2>1, NoMoreUnderway DEF ReadBegin, ReadFinish
<1>4. ASSUME NEW k \in Closers, CloseBegin(k) \/ CloseStore(k) \/ CloseClose(k) \/ CloseAgain(k)
      PROVE  Underway' <= Underway
  <2>1. Queueing' = Queueing
    BY <1>0, <1>4 DEF CloseBegin, CloseStore, CloseClose, CloseAgain, Goto, Queueing
  <2>2. recvq' = recvq
    BY <1>4 DEF CloseBegin, CloseStore, CloseClose, CloseAgain
  <2> QED BY <2>1, <2>2, NoMoreUnderway
<1>5. CASE Exited
  BY <1>5, NoMoreUnderway DEF Exited, vars, recvVars, Queueing
<1> QED BY <1>1, <1>2, <1>3, <1>4, <1>5 DEF Next, Incoming, IncomingBegin

(* Once the connection is closed, no more packets get into the incoming    *)
(* queue than were on their way to it (queuepacketconn.go:68-72).          *)
THEOREM NothingEntersAfterClose == Spec => ClosedTakesNoMore
<1>1. Init => CountInv
  BY DEF Init, CountInv, CloseInv, ErrorBeforeClosed
<1> QED BY <1>1, CountKept, NothingTaken, PTL DEF Spec, ClosedTakesNoMore
=============================================================================
