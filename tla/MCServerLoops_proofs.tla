------------------------ MODULE MCServerLoops_proofs ------------------------
(***************************************************************************)
(* Theorems about the server's loops and the map they share.               *)
(*                                                                         *)
(* The two loops of the server, the stash and the expiring map implement   *)
(* the queues of module Downstream, step by step, for any clients, any     *)
(* sizes of packets, queues and responses, any timeout and any lag of the  *)
(* sweep.  The map itself, a heap and an index, implements module          *)
(* RemoteMap, for any peers, whatever the order in which they are seen.    *)
(***************************************************************************)
EXTENDS MCServerLoops, Induction, SequenceTheorems, FiniteSetTheorems, TLAPS

(* What has been proved of the map holds for its map.                      *)
Facts == INSTANCE RemoteMap_proofs
           WITH Addrs <- Clients, Callers <- {"unstash", "outgoing"}, unlooked <- age

Filled == {"filling", "waiting", "stashing"}

Types ==
  /\ sendq \in [Records -> Seq(Packets)]
  /\ written \in 0..MaxWrites
  /\ queries \in 0..MaxQueries
  /\ ch \in Seq(Queries)
  /\ pc \in Filled \cup {"next", "sending", "returned"}
  /\ rec \in Queries \cup {None}
  /\ nextRec \in Queries \cup {None}
  /\ bundle \in Seq(Packets)
  /\ limit \in Int
  /\ hand \in Packets \cup {None}
  /\ sent \in Seq([id : 1..MaxQueries, packets : Seq(Packets)])

(* What sendLoop's variables hold, by the place it has reached.            *)
Places ==
  /\ rec = None <=> pc \in {"next", "returned"}
  /\ hand # None <=> pc = "stashing"
  /\ pc \in Filled => nextRec = None /\ rec.fills
  /\ bundle # <<>> => rec # None /\ rec.fills
  /\ pc = "stashing" => unstash # None

(* The channels it holds are those of the client it answers; unstash is    *)
(* the older one.                                                          *)
Channels ==
  /\ \A t \in {"unstash", "outgoing"} : asked[t] # None => rec # None /\ asked[t] = rec.client
  /\ outgoing # None => unstash # None
  /\ outgoing # None /\ current[rec.client] = unstash => outgoing = unstash

(* The map's record of that client has an empty stash, unless it is the    *)
(* one sendLoop looks into before it takes a packet from the queue.        *)
StashEmpty ==
  pc \in Filled /\ unstash # None /\ current[rec.client] # None
  /\ (current[rec.client] # unstash \/ pc = "stashing")
    => stash[current[rec.client]] = None

(* The packets in the response lie one after the other: where each of them *)
(* ends, and what that leaves.                                             *)
Ends(end) ==
  /\ end[0] = 0
  /\ \A i \in 1..Len(bundle) : end[i] = end[i - 1] + Weight[bundle[i]]
  /\ \A i \in 0..Len(bundle) : end[i] <= end[Len(bundle)]
  /\ Len(bundle) > 1 => end[Len(bundle)] <= MaxEncoded
  /\ pc \in {"next", "filling", "waiting"} => limit = MaxEncoded - end[Len(bundle)]

Layout == \E end \in [0..Len(bundle) -> Nat] : Ends(end)

(* Queries are numbered as they come.                                      *)
Numbered ==
  /\ \A q \in {rec, nextRec} : q # None => q.id <= queries
  /\ \A i \in 1..Len(ch) : ch[i].id <= queries
  /\ \A i \in 1..Len(sent) : sent[i].id <= queries

IInv == Facts!IInv /\ Types /\ Places /\ Channels /\ StashEmpty /\ Layout /\ Numbered

Sites == {"unstash", "outgoing"}

-----------------------------------------------------------------------------
(* The steps on the map are those of RemoteMap.                            *)

LEMMA Assumptions == Facts!NoneAssumption /\ Facts!TimeAssumption
BY MapAssumption DEF Facts!NoneAssumption, Facts!TimeAssumption

LEMMA SameDefinitions ==
  /\ \A a \in Clients, r \in Records : Map!Create(a, r) => Facts!Create(a, r)
  /\ \A t \in Sites, a \in Clients : Map!FastPath(t, a) => Facts!FastPath(t, a)
  /\ \A t \in Sites : /\ Map!SlowPath(t) => Facts!SlowPath(t)
                      /\ Map!TakeStash(t) => Facts!TakeStash(t)
  /\ \A a \in Clients, p \in Packets : Map!Stash(a, p) => Facts!Stash(a, p)
  /\ Map!ReadTime \/ Map!RemoveExpired \/ Map!Tick
       => Facts!ReadTime \/ Facts!RemoveExpired \/ Facts!Tick
  /\ Map!RemoveExpired => Facts!RemoveExpired
<1> USE DEF Sites, Map!mapVars, Facts!mapVars, Map!callerVars, Facts!callerVars, Map!sweepVars,
            Facts!sweepVars, Map!Lookup, Facts!Lookup, Map!Found, Facts!Found, Map!Create,
            Facts!Create, Map!Reachable, Facts!Reachable, Map!StashOf, Facts!StashOf
<1>1. ASSUME NEW a \in Clients, NEW r \in Records PROVE Map!Create(a, r) => Facts!Create(a, r)
  OBVIOUS
<1>2. ASSUME NEW t \in Sites, NEW a \in Clients PROVE Map!FastPath(t, a) => Facts!FastPath(t, a)
  BY DEF Map!FastPath, Facts!FastPath
<1>3. ASSUME NEW t \in Sites
      PROVE  (Map!SlowPath(t) => Facts!SlowPath(t)) /\ (Map!TakeStash(t) => Facts!TakeStash(t))
  BY DEF Map!SlowPath, Facts!SlowPath, Map!TakeStash, Facts!TakeStash
<1>4. ASSUME NEW a \in Clients, NEW p \in Packets PROVE Map!Stash(a, p) => Facts!Stash(a, p)
  BY DEF Map!Stash, Facts!Stash
<1>5. Map!RemoveExpired => Facts!RemoveExpired
  BY DEF Map!RemoveExpired, Facts!RemoveExpired, Map!Expired, Facts!Expired
<1>6. Map!ReadTime \/ Map!Tick => Facts!ReadTime \/ Facts!Tick
  BY DEF Map!ReadTime, Facts!ReadTime, Map!Tick, Facts!Tick, Map!Smaller, Facts!Smaller,
         Map!MaxAge, Facts!MaxAge
<1> QED BY <1>1, <1>2, <1>3, <1>4, <1>5, <1>6

(* A packet KCP writes to a client that the map does not hold: a Lookup    *)
(* whose channel nobody keeps.                                             *)
LEMMA NewPeerSafe ==
  ASSUME Facts!IInv, NEW a \in Clients, NEW r \in Records, Facts!Create(a, r),
         age' = [age EXCEPT ![a] = 0], stash' = [stash EXCEPT ![r] = None],
         UNCHANGED <<asked, ref, sweeper, nap, lag>>
  PROVE  Facts!IInv'
<1>1. Facts!Lookup(a, r)
  BY DEF Facts!Lookup
<1>2. Facts!TypeOK'
  BY <1>1, Assumptions, Facts!LookupType DEF Facts!IInv, Facts!TypeOK, Facts!MaxAge
<1>3. /\ Facts!MappedQueuesOpen' /\ Facts!RecordsUnshared'
      /\ \A t \in Sites : ref[t] # None /\ ref[t] \notin closed' => current'[asked[t]] = ref[t]
  BY <1>1, Assumptions, Facts!LookupSafe DEF Sites
<1> QED BY <1>2, <1>3 DEF Facts!IInv, Facts!NoOrphanQueue, Facts!HoldersAsked, Sites

(* Both channels are given up at once.                                     *)
LEMMA AnsweredSafe ==
  ASSUME Facts!IInv, NEW outcome, Answered(outcome)
  PROVE  Facts!IInv'
<1>1. /\ \A t \in Sites : asked'[t] = None /\ ref'[t] = None
      /\ asked' \in [Sites -> Clients \cup {None}] /\ ref' \in [Sites -> Records \cup {None}]
      /\ UNCHANGED <<current, age, stash, closed, sweeper, nap, lag>>
  BY DEF Answered, Facts!IInv, Facts!TypeOK, Sites
<1> QED BY <1>1 DEF Facts!IInv, Facts!TypeOK, Facts!NoOrphanQueue, Facts!MappedQueuesOpen,
                    Facts!RecordsUnshared, Facts!HoldersAsked, Facts!MaxAge, Sites

(* Every step of the loops keeps what RemoteMap keeps.                     *)
LEMMA MapSafe == IInv /\ [Next]_vars => Facts!IInv'
<1> SUFFICES ASSUME IInv, [Next]_vars PROVE Facts!IInv'
  OBVIOUS
<1> USE DEF Sites
<1>1. ASSUME Facts!Next \/ UNCHANGED mapVars PROVE Facts!IInv'
  BY <1>1, Assumptions, Facts!NextSafe DEF IInv, mapVars, Facts!vars
<1>2. ASSUME NEW a \in Clients, KcpWrite(a) PROVE Facts!IInv'
  <2>1. CASE UNCHANGED mapVars
    BY <1>1, <2>1
  <2>2. ASSUME NEW r \in Records, Map!Create(a, r), age' = [age EXCEPT ![a] = 0],
               stash' = [stash EXCEPT ![r] = None], UNCHANGED <<asked, ref, sweeper, nap, lag>>
        PROVE  Facts!IInv'
    BY <2>2, SameDefinitions, NewPeerSafe DEF IInv
  <2> QED BY <1>2, <2>1, <2>2 DEF KcpWrite
<1>3. ASSUME GetChannels PROVE Facts!Next
  <2>1. rec.client \in Clients
    BY <1>3, MapAssumption DEF GetChannels, IInv, Types, Places, Filled, Queries
  <2> QED BY <1>3, <2>1, SameDefinitions DEF GetChannels, Facts!Next, Facts!Call
<1>4. ASSUME TakeStashed PROVE Facts!Next
  BY <1>4, SameDefinitions DEF TakeStashed, Facts!Next, Facts!Call
<1>5. ASSUME StashPacket PROVE Facts!Next
  <2>1. rec.client \in Clients /\ hand \in Packets
    BY <1>5, MapAssumption DEF StashPacket, IInv, Types, Places, Filled, Queries
  <2> QED BY <1>5, <2>1, SameDefinitions DEF StashPacket, Facts!Next, Facts!Call
<1>6. SendResponse \/ SendFails => Facts!IInv'
  BY AnsweredSafe DEF SendResponse, SendFails, IInv
<1>7. Expiry => Facts!Next
  BY SameDefinitions DEF Expiry, Facts!Next
<1>8. ASSUME NEW a \in Clients, NEW fills \in BOOLEAN, ReceiveQuery(a, fills) PROVE UNCHANGED mapVars
  BY <1>8 DEF ReceiveQuery
<1>9. \/ NextQuery \/ TakeQueued \/ TakeNil \/ Wait \/ TimerFires \/ AnotherQuery \/ UNCHANGED vars
      => UNCHANGED mapVars
  BY DEF NextQuery, TakeQueued, TakeNil, Wait, TimerFires, AnotherQuery, vars
<1> QED BY <1>1, <1>2, <1>3, <1>4, <1>5, <1>6, <1>7, <1>8, <1>9 DEF Next, SendLoop

-----------------------------------------------------------------------------
(* The types, and what each place means.                                   *)

LEMMA InitSafe == Init => IInv
<1> SUFFICES ASSUME Init PROVE IInv
  OBVIOUS
<1>1. Facts!IInv
  <2>1. Facts!Init
    BY DEF Init, Map!Init, Facts!Init
  <2> QED BY <2>1, Assumptions, Facts!InitSafe
<1>2. Types /\ Places /\ Channels /\ StashEmpty
  BY BoundAssumption, WeightAssumption
     DEF Init, Map!Init, Types, Places, Channels, StashEmpty, Filled, unstash, outgoing
<1>3. Layout
  <2> DEFINE end == [i \in 0..0 |-> 0]
  <2>1. end \in [0..Len(bundle) -> Nat] /\ Ends(end)
    BY WeightAssumption DEF Init, Ends
  <2> QED BY <2>1 DEF Layout
<1>4. Numbered
  BY DEF Init, Numbered
<1> QED BY <1>1, <1>2, <1>3, <1>4 DEF IInv

(* The records that new peers get are nobody else's, and their queues are  *)
(* empty; every other queue stays as it is.                                *)
LEMMA NewQueuesType ==
  ASSUME sendq \in [Records -> Seq(Packets)], NewQueues
  PROVE  sendq' \in [Records -> Seq(Packets)]
BY DEF NewQueues

LEMMA EnqueueType ==
  ASSUME NEW queue \in Seq(Packets), written' \in Packets
  PROVE  Enqueue(queue) \in Seq(Packets)
BY DEF Enqueue

LEMMA PackType ==
  ASSUME Types, NEW p \in Packets, Pack(p)
  PROVE  /\ bundle' \in Seq(Packets) /\ limit' \in Int /\ hand' \in Packets \cup {None}
         /\ pc' \in {"filling", "stashing"}
<1>1. Weight[p] \in Int
  BY WeightAssumption
<1>2. limit' \in Int
  BY <1>1 DEF Types, Pack
<1>3. Append(bundle, p) \in Seq(Packets)
  BY AppendProperties DEF Types
<1>4. bundle' \in {Append(bundle, p), bundle} /\ hand' \in {hand, p} /\ pc' \in {"filling", "stashing"}
  BY DEF Pack
<1> QED BY <1>2, <1>3, <1>4 DEF Types

LEMMA TypesSafe == IInv /\ [Next]_vars => Types'
<1> SUFFICES ASSUME IInv, [Next]_vars PROVE Types'
  OBVIOUS
<1> USE DEF Types
<1>0. Types /\ Places /\ Facts!TypeOK /\ None \notin Records
  BY MapAssumption DEF IInv, Facts!IInv
<1>1. ASSUME NEW a \in Clients, NEW fills \in BOOLEAN, ReceiveQuery(a, fills) PROVE Types'
  <2>1. queries' \in 1..MaxQueries
    BY <1>0, <1>1, BoundAssumption DEF ReceiveQuery
  <2>2. ch' \in Seq(Queries)
    <3>1. [id |-> queries', client |-> a, fills |-> fills] \in Queries
      BY <2>1 DEF Queries
    <3> QED BY <1>0, <1>1, <3>1 DEF ReceiveQuery
  <2> QED BY <1>0, <1>1, <2>1, <2>2 DEF ReceiveQuery
<1>2. ASSUME NEW a \in Clients, KcpWrite(a) PROVE Types'
  <2>1. written' \in Packets /\ written' \in 0..MaxWrites
    BY <1>0, <1>2, BoundAssumption DEF KcpWrite, Packets
  <2>2. sendq' \in [Records -> Seq(Packets)]
    <3>1. CASE current[a] # None /\ sendq' = [sendq EXCEPT ![current[a]] = Enqueue(@)]
      <4>1. current[a] \in Records
        BY <1>0, <3>1 DEF Facts!TypeOK
      <4> QED BY <1>0, <2>1, <3>1, <4>1, EnqueueType
    <3>2. ASSUME NEW r \in Records, sendq' = [sendq EXCEPT ![r] = Enqueue(<<>>)]
          PROVE  sendq' \in [Records -> Seq(Packets)]
      <4>1. Enqueue(<<>>) \in Seq(Packets)
        BY <2>1 DEF Enqueue
      <4> QED BY <1>0, <3>2, <4>1
    <3> QED BY <1>2, <3>1, <3>2 DEF KcpWrite
  <2> QED BY <1>0, <1>2, <2>1, <2>2 DEF KcpWrite, loopVars
<1>3. ASSUME NextQuery PROVE Types'
  <2>1. rec' \in Queries /\ ch' \in Seq(Queries) /\ nextRec' = None
    <3>1. ch # <<>> => Head(ch) \in Queries /\ Tail(ch) \in Seq(Queries)
      BY <1>0, HeadTailProperties
    <3> QED BY <1>0, <1>3, <3>1 DEF NextQuery
  <2>2. pc' \in {"filling", "sending"}
    BY <1>3 DEF NextQuery
  <2> QED BY <1>0, <1>3, <2>1, <2>2 DEF NextQuery, Filled
<1>4. GetChannels => Types'
  BY <1>0, NewQueuesType DEF GetChannels, loopVars
<1>5. ASSUME TakeStashed PROVE Types'
  <2>1. stash[unstash] \in Packets
    BY <1>0, <1>5 DEF TakeStashed, Map!TakeStash, Facts!TypeOK, unstash
  <2> QED BY <1>0, <1>5, <2>1, PackType DEF TakeStashed, Filled
<1>6. ASSUME TakeQueued PROVE Types'
  <2>1. outgoing \in Records
    BY <1>0, <1>6 DEF TakeQueued, Ready, Facts!TypeOK, outgoing
  <2>2. Head(sendq[outgoing]) \in Packets /\ Tail(sendq[outgoing]) \in Seq(Packets)
    BY <1>0, <1>6, <2>1 DEF TakeQueued
  <2> QED BY <1>0, <1>6, <2>1, <2>2, PackType DEF TakeQueued, Filled
<1>7. TakeNil \/ Wait \/ TimerFires => Types'
  BY <1>0 DEF TakeNil, Wait, TimerFires, Filled
<1>11. ASSUME AnotherQuery PROVE Types'
  <2>1. Head(ch) \in Queries /\ Tail(ch) \in Seq(Queries)
    BY <1>0, <1>11, HeadTailProperties DEF AnotherQuery
  <2> QED BY <1>0, <1>11, <2>1 DEF AnotherQuery, Filled
<1>8. StashPacket => Types'
  BY <1>0, NewQueuesType DEF StashPacket
<1>9. ASSUME SendResponse \/ SendFails PROVE Types'
  <2>1. rec.id \in 1..MaxQueries
    BY <1>0, <1>9, MapAssumption DEF SendResponse, SendFails, Answered, Places, Queries
  <2>2. SendResponse => sent' \in Seq([id : 1..MaxQueries, packets : Seq(Packets)])
    <3>1. [id |-> rec.id, packets |-> bundle] \in [id : 1..MaxQueries, packets : Seq(Packets)]
      BY <1>0, <2>1
    <3> QED BY <1>0, <3>1 DEF SendResponse
  <2>3. /\ pc' \in {"next", "returned"} /\ rec' = None /\ bundle' = <<>> /\ limit' = MaxEncoded
        /\ UNCHANGED <<sendq, written, queries, ch, nextRec, hand>>
    BY <1>9 DEF SendResponse, SendFails, Answered
  <2>4. sent' \in Seq([id : 1..MaxQueries, packets : Seq(Packets)])
    BY <1>0, <1>9, <2>2 DEF SendFails
  <2> QED BY <1>0, <2>3, <2>4, WeightAssumption
<1>10. Expiry \/ UNCHANGED vars => Types'
  BY <1>0 DEF Expiry, loopVars, vars
<1> QED BY <1>1, <1>2, <1>3, <1>4, <1>5, <1>6, <1>7, <1>8, <1>9, <1>10, <1>11 DEF Next, SendLoop

LEMMA PlacesSafe == IInv /\ [Next]_vars => Places'
<1> SUFFICES ASSUME IInv, [Next]_vars PROVE Places'
  OBVIOUS
<1>0. Types /\ Places /\ Facts!TypeOK
  BY DEF IInv, Facts!IInv
<1>1. ASSUME NEW a \in Clients, KcpWrite(a) PROVE Places'
  BY <1>0, <1>1 DEF KcpWrite, mapVars, loopVars, Places, unstash
<1>2. ASSUME NextQuery PROVE Places'
  <2>1. rec' # None /\ nextRec' = None /\ pc' = IF rec'.fills THEN "filling" ELSE "sending"
    <3>1. ch # <<>> => Head(ch) \in Queries
      BY <1>0, HeadTailProperties DEF Types
    <3>2. rec' \in Queries
      BY <1>0, <1>2, <3>1 DEF NextQuery, Types
    <3> QED BY <1>2, <3>2, MapAssumption DEF NextQuery
  <2>2. bundle' = <<>> /\ hand' = None
    BY <1>0, <1>2 DEF NextQuery, Places
  <2> QED BY <2>1, <2>2 DEF Places, Filled
<1>3. ASSUME GetChannels PROVE Places'
  BY <1>0, <1>3 DEF GetChannels, loopVars, Places, unstash
<1>4. ASSUME NEW p \in Packets, Ready({"filling", "waiting"}), Pack(p),
             UNCHANGED <<ref, rec, nextRec>>
      PROVE  Places'
  <2>1. hand = None /\ nextRec = None /\ rec # None /\ rec.fills /\ unstash # None
    BY <1>0, <1>4 DEF Ready, Places, Filled
  <2>2. p # None
    BY MapAssumption
  <2>3. \/ pc' = "filling" /\ hand' = None
        \/ pc' = "stashing" /\ hand' # None
    BY <1>4, <2>1, <2>2 DEF Pack
  <2> QED BY <1>4, <2>1, <2>3 DEF Places, Filled, unstash
<1>5. ASSUME TakeStashed PROVE Places'
  <2>1. stash[unstash] \in Packets
    BY <1>0, <1>5 DEF TakeStashed, Map!TakeStash, Facts!TypeOK, unstash
  <2> QED BY <1>4, <1>5, <2>1 DEF TakeStashed, Map!TakeStash, Map!callerVars
<1>6. ASSUME TakeQueued PROVE Places'
  <2>1. outgoing \in Records
    BY <1>0, <1>6 DEF TakeQueued, Ready, Facts!TypeOK, outgoing
  <2>2. Head(sendq[outgoing]) \in Packets
    BY <1>0, <1>6, <2>1 DEF TakeQueued, Types
  <2> QED BY <1>4, <1>6, <2>2 DEF TakeQueued, mapVars
<1>7. TakeNil \/ Wait \/ TimerFires \/ AnotherQuery => Places'
  BY <1>0 DEF TakeNil, Wait, TimerFires, AnotherQuery, Ready, Places, Filled, mapVars, unstash
<1>8. StashPacket => Places'
  BY <1>0 DEF StashPacket, Places, Filled
<1>9. SendResponse \/ SendFails => Places'
  BY <1>0 DEF SendResponse, SendFails, Answered, Places, Filled
<1>10. ASSUME Expiry PROVE Places'
  <2>1. ref' = ref
    BY <1>10 DEF Expiry, Map!ReadTime, Map!RemoveExpired, Map!Tick, Map!callerVars
  <2> QED BY <1>0, <1>10, <2>1 DEF Expiry, loopVars, Places, unstash
<1>11. ASSUME NEW a \in Clients, NEW fills \in BOOLEAN, ReceiveQuery(a, fills) PROVE Places'
  BY <1>0, <1>11 DEF ReceiveQuery, mapVars, Places, unstash
<1>12. UNCHANGED vars => Places'
  BY <1>0 DEF vars, mapVars, loopVars, Places, unstash
<1> QED BY <1>1, <1>2, <1>3, <1>5, <1>6, <1>7, <1>8, <1>9, <1>10, <1>11, <1>12 DEF Next, SendLoop

-----------------------------------------------------------------------------
(* The channels sendLoop holds.                                            *)

(* A client's record stays, is removed, or is one that nobody holds, with  *)
(* an empty queue and an empty stash, or with what sendLoop stashes there. *)
LEMMA CurrentStep ==
  ASSUME IInv, [Next]_vars, NEW a \in Clients
  PROVE  \/ current'[a] \in {current[a], None}
         \/ /\ current[a] = None
            /\ current'[a] \in Records /\ current'[a] \notin {unstash, outgoing}
            /\ stash'[current'[a]] = None \/ pc' = "sending"
<1>0. Types /\ Places /\ Facts!TypeOK
  BY DEF IInv, Facts!IInv
<1>1. ASSUME NEW b \in Clients, KcpWrite(b), ~UNCHANGED mapVars
      PROVE  \E r \in Records : Map!Create(b, r) /\ stash'[r] = None
  BY <1>0, <1>1 DEF KcpWrite, Facts!TypeOK
<1>2. ASSUME GetChannels
      PROVE  \/ UNCHANGED current
             \/ \E b \in Clients, r \in Records : Map!Create(b, r) /\ stash'[r] = None
  <2>1. rec.client \in Clients
    BY <1>0, <1>2, MapAssumption DEF GetChannels, Types, Places, Filled, Queries
  <2>2. ASSUME NEW t \in Sites, Map!SlowPath(t)
        PROVE  \/ UNCHANGED current
               \/ \E b \in Clients, r \in Records : Map!Create(b, r) /\ stash'[r] = None
    <3>1. asked[t] \in Clients
      BY <1>0, <2>2 DEF Map!SlowPath, Facts!TypeOK, Sites
    <3>2. PICK r \in Records : Map!Lookup(asked[t], r)
                               /\ stash' = [stash EXCEPT ![r] = Map!StashOf(asked[t])]
      BY <2>2 DEF Map!SlowPath
    <3>3. CASE Map!Found(asked[t], r)
      BY <3>3 DEF Map!Found
    <3>4. CASE Map!Create(asked[t], r)
      <4>1. Map!StashOf(asked[t]) = None
        BY <3>4 DEF Map!Create, Map!StashOf
      <4> QED BY <1>0, <3>1, <3>2, <3>4, <4>1 DEF Facts!TypeOK
    <3> QED BY <3>2, <3>3, <3>4 DEF Map!Lookup
  <2>3. ASSUME NEW t \in Sites, NEW b, Map!FastPath(t, b) PROVE UNCHANGED current
    BY <2>3 DEF Map!FastPath, Map!mapVars
  <2> QED BY <1>2, <2>2, <2>3 DEF GetChannels, Sites
<1>3. ASSUME StashPacket
      PROVE  UNCHANGED current \/ \E b \in Clients, r \in Records : Map!Create(b, r)
  <2>1. rec.client \in Clients
    BY <1>0, <1>3, MapAssumption DEF StashPacket, Types, Places, Filled, Queries
  <2> QED BY <1>3, <2>1 DEF StashPacket, Map!Stash, Map!Lookup, Map!Found
<1>4. ASSUME NEW b \in Clients, NEW r \in Records, Map!Create(b, r), stash'[r] = None \/ pc' = "sending"
      PROVE  \/ current'[a] \in {current[a], None}
             \/ /\ current[a] = None
                /\ current'[a] \in Records /\ current'[a] \notin {unstash, outgoing}
                /\ stash'[current'[a]] = None \/ pc' = "sending"
  BY <1>0, <1>4 DEF Map!Create, Map!Reachable, Facts!TypeOK, unstash, outgoing
<1>5. ASSUME Expiry PROVE current'[a] \in {current[a], None}
  BY <1>5 DEF Expiry, Map!ReadTime, Map!mapVars, Map!RemoveExpired, Map!Tick
<1>6. TakeStashed => UNCHANGED current
  BY DEF TakeStashed, Map!TakeStash, Map!mapVars
<1>7. SendResponse \/ SendFails => UNCHANGED current
  BY DEF SendResponse, SendFails, Answered
<1>8. \/ NextQuery \/ TakeQueued \/ TakeNil \/ Wait \/ TimerFires \/ AnotherQuery \/ UNCHANGED vars
      \/ (\E b \in Clients, fills \in BOOLEAN : ReceiveQuery(b, fills))
      => UNCHANGED current
  BY DEF NextQuery, TakeQueued, TakeNil, Wait, TimerFires, AnotherQuery, vars, mapVars, ReceiveQuery
<1>9. StashPacket => pc' = "sending"
  BY DEF StashPacket
<1>10. UNCHANGED mapVars => UNCHANGED current
  BY DEF mapVars
<1> QED BY <1>1, <1>2, <1>3, <1>4, <1>5, <1>6, <1>7, <1>8, <1>9, <1>10 DEF Next, SendLoop

(* Nobody but the client being answered has the record sendLoop holds.     *)
LEMMA HeldRecord ==
  ASSUME IInv, NEW t \in Sites, ref[t] # None
  PROVE  /\ rec # None /\ rec.client \in Clients /\ asked[t] = rec.client /\ ref[t] \in Records
         /\ \A b \in Clients : current[b] = ref[t] => b = rec.client
<1>1. asked[t] \in Clients /\ rec # None /\ asked[t] = rec.client /\ ref[t] \in Records
  BY MapAssumption DEF IInv, Facts!IInv, Facts!HoldersAsked, Facts!TypeOK, Channels, Sites
<1>2. ASSUME NEW b \in Clients, current[b] = ref[t] PROVE b = asked[t]
  <2>1. current[asked[t]] = ref[t]
    BY <1>2 DEF IInv, Facts!IInv, Facts!MappedQueuesOpen, Facts!NoOrphanQueue, Sites
  <2> QED BY <1>1, <1>2, <2>1 DEF IInv, Facts!IInv, Facts!RecordsUnshared
<1> QED BY <1>1, <1>2

LEMMA NothingHeld ==
  ASSUME IInv, rec = None
  PROVE  unstash = None /\ outgoing = None /\ \A t \in Sites : asked[t] = None
BY HeldRecord DEF unstash, outgoing, Sites, IInv, Channels

LEMMA ChannelsSafe == IInv /\ [Next]_vars => Channels'
<1> SUFFICES ASSUME IInv, [Next]_vars PROVE Channels'
  OBVIOUS
<1>0. Types /\ Places /\ Facts!TypeOK /\ Channels
  BY DEF IInv, Facts!IInv
<1>1. ASSUME UNCHANGED <<asked, ref, rec>> PROVE Channels'
  <2>1. ASSUME outgoing # None, current'[rec.client] = unstash PROVE outgoing = unstash
    <3>1. unstash # None /\ rec.client \in Clients
      BY <1>0, <2>1, HeldRecord DEF Channels, outgoing, Sites
    <3>2. current[rec.client] = unstash
      BY <2>1, <3>1, CurrentStep
    <3> QED BY <1>0, <2>1, <3>2 DEF Channels
  <2> QED BY <1>0, <1>1, <2>1 DEF Channels, unstash, outgoing
<1>2. ASSUME NEW a \in Clients, KcpWrite(a) PROVE Channels'
  BY <1>1, <1>2 DEF KcpWrite, mapVars, loopVars
<1>3. ASSUME NextQuery PROVE Channels'
  BY <1>0, <1>3, NothingHeld DEF NextQuery, mapVars, Places, Channels, unstash, outgoing, Sites
<1>4. ASSUME GetChannels PROVE Channels'
  <2>0. /\ rec # None /\ rec' = rec /\ rec.client \in Clients
        /\ asked \in [Sites -> Clients \cup {None}] /\ ref \in [Sites -> Records \cup {None}]
    BY <1>0, <1>4, MapAssumption
       DEF GetChannels, loopVars, Types, Places, Filled, Queries, Facts!TypeOK, Sites
  <2>1. ASSUME NEW t \in Sites, Map!FastPath(t, rec.client), t = "outgoing" => unstash # None
        PROVE  Channels'
    <3>1. /\ asked' = [asked EXCEPT ![t] = rec.client] /\ current' = current
          /\ ref' = [ref EXCEPT ![t] = current[rec.client]] /\ asked[t] = None
      BY <2>1 DEF Map!FastPath, Map!mapVars
    <3>2. ref[t] = None
      BY <2>0, <3>1, HeldRecord, MapAssumption
    <3>3. t = "unstash" => outgoing = None
      BY <1>0, <3>2 DEF Channels, unstash
    <3> QED BY <1>0, <2>0, <2>1, <3>1, <3>3 DEF Channels, unstash, outgoing, Sites
  <2>2. ASSUME NEW t \in Sites, Map!SlowPath(t), t = "outgoing" => unstash # None
        PROVE  Channels'
    <3>1. asked[t] = rec.client /\ asked' = asked /\ ref[t] = None
      BY <1>0, <2>2 DEF Map!SlowPath, Channels, Sites
    <3>2. PICK r \in Records : Map!Lookup(rec.client, r) /\ ref' = [ref EXCEPT ![t] = r]
      BY <2>2, <3>1 DEF Map!SlowPath
    <3>3. current'[rec.client] = r
      BY <1>0, <2>0, <3>2 DEF Map!Lookup, Map!Found, Map!Create, Facts!TypeOK
    <3>4. t = "unstash" => outgoing = None
      BY <1>0, <3>1 DEF Channels, unstash
    <3>5. r # None
      BY MapAssumption
    <3> QED BY <1>0, <2>0, <2>2, <3>1, <3>2, <3>3, <3>4, <3>5 DEF Channels, unstash, outgoing, Sites
  <2> QED BY <1>4, <2>1, <2>2 DEF GetChannels, Sites
<1>5. TakeStashed => UNCHANGED <<asked, ref, rec>>
  BY DEF TakeStashed, Map!TakeStash, Map!callerVars
<1>6. TakeQueued \/ TakeNil \/ Wait \/ TimerFires \/ AnotherQuery => UNCHANGED <<asked, ref, rec>>
  BY DEF TakeQueued, TakeNil, Wait, TimerFires, AnotherQuery, mapVars
<1>7. StashPacket \/ Expiry => UNCHANGED <<asked, ref, rec>>
  BY DEF StashPacket, Map!Stash, Map!callerVars, Expiry, Map!ReadTime, Map!RemoveExpired, Map!Tick,
         loopVars
<1>8. ASSUME SendResponse \/ SendFails PROVE Channels'
  <2>1. /\ \A t \in Sites : asked'[t] = None /\ ref'[t] = None
    BY <1>0, <1>8 DEF SendResponse, SendFails, Answered, Facts!TypeOK, Sites
  <2> QED BY <2>1 DEF Channels, unstash, outgoing, Sites
<1>9. (\E a \in Clients, fills \in BOOLEAN : ReceiveQuery(a, fills)) \/ UNCHANGED vars
      => UNCHANGED <<asked, ref, rec>>
  BY DEF ReceiveQuery, vars, mapVars, loopVars
<1> QED BY <1>1, <1>2, <1>3, <1>4, <1>5, <1>6, <1>7, <1>8, <1>9 DEF Next, SendLoop

LEMMA StashEmptySafe == IInv /\ [Next]_vars => StashEmpty'
<1> SUFFICES ASSUME IInv, [Next]_vars PROVE StashEmpty'
  OBVIOUS
<1>0. Types /\ Places /\ Facts!TypeOK /\ Channels /\ StashEmpty
  BY DEF IInv, Facts!IInv
<1>1. ASSUME pc \in Filled, pc' \in Filled, rec' = rec, unstash' = unstash,
             pc' = "stashing" => pc = "stashing" \/ stash'[unstash] = None,
             \A r \in Records : stash'[r] \in {stash[r], None}
      PROVE  StashEmpty'
  <2> SUFFICES ASSUME unstash # None, current'[rec.client] # None,
                      current'[rec.client] # unstash \/ pc' = "stashing"
               PROVE  stash'[current'[rec.client]] = None
    BY <1>1 DEF StashEmpty
  <2>1. unstash \in Records /\ rec.client \in Clients
    BY HeldRecord DEF unstash, Sites
  <2>2. current[rec.client] \in Records \cup {None}
    BY <1>0, <2>1 DEF Facts!TypeOK
  <2>3. CASE current'[rec.client] = current[rec.client]
    BY <1>0, <1>1, <2>2, <2>3 DEF StashEmpty
  <2>4. CASE stash'[current'[rec.client]] = None
    BY <2>4
  <2> QED BY <1>1, <2>1, <2>3, <2>4, CurrentStep DEF Filled
<1>2. ASSUME pc' \notin Filled \/ unstash' = None PROVE StashEmpty'
  BY <1>2 DEF StashEmpty
<1>3. ASSUME NEW a \in Clients, KcpWrite(a) PROVE StashEmpty'
  <2>1. /\ UNCHANGED <<ref, rec, pc>>
        /\ \A r \in Records : stash'[r] \in {stash[r], None}
    BY <1>0, <1>3 DEF KcpWrite, mapVars, loopVars, Facts!TypeOK
  <2> QED BY <1>1, <1>2, <2>1 DEF unstash
<1>4. ASSUME NextQuery PROVE StashEmpty'
  BY <1>0, <1>2, <1>4, NothingHeld DEF NextQuery, mapVars, Places, unstash
<1>5. ASSUME GetChannels PROVE StashEmpty'
  <2>1. /\ UNCHANGED <<rec, pc>> /\ pc = "filling" /\ rec # None
    BY <1>0, <1>5 DEF GetChannels, loopVars, Places
  <2>2. rec.client \in Clients
    BY <1>0, <2>1 DEF Types, Queries
  <2>3. ASSUME NEW t \in Sites, Map!FastPath(t, rec.client) PROVE StashEmpty'
    <3>1. UNCHANGED <<current, stash>> /\ ref' = [ref EXCEPT ![t] = current[rec.client]]
      BY <2>3 DEF Map!FastPath, Map!mapVars
    <3>2. CASE t = "outgoing"
      BY <1>1, <2>1, <3>1, <3>2 DEF unstash, Filled
    <3>3. CASE t = "unstash"
      BY <1>0, <2>1, <3>1, <3>3 DEF StashEmpty, unstash, Facts!TypeOK
    <3> QED BY <3>2, <3>3 DEF Sites
  <2>4. ASSUME NEW t \in Sites, Map!SlowPath(t) PROVE StashEmpty'
    <3>1. asked[t] = rec.client /\ ref[t] = None
      BY <1>0, <2>4 DEF Map!SlowPath, Channels, Sites
    <3>2. PICK r \in Records :
            /\ Map!Lookup(rec.client, r) /\ ref' = [ref EXCEPT ![t] = r]
            /\ stash' = [stash EXCEPT ![r] = Map!StashOf(rec.client)]
      BY <2>4, <3>1 DEF Map!SlowPath
    <3>3. CASE t = "outgoing"
      <4>1. \A s \in Records : stash'[s] \in {stash[s], None}
        BY <1>0, <3>2, MapAssumption DEF Map!StashOf, Map!Lookup, Map!Found, Map!Create, Facts!TypeOK
      <4> QED BY <1>1, <2>1, <3>2, <3>3, <4>1 DEF unstash, Filled
    <3>4. CASE t = "unstash"
      <4>1. current'[rec.client] = r
        BY <1>0, <2>2, <3>2 DEF Map!Lookup, Map!Found, Map!Create, Facts!TypeOK
      <4>2. unstash' = r
        BY <1>0, <3>2, <3>4 DEF unstash, Facts!TypeOK
      <4> QED BY <2>1, <4>1, <4>2 DEF StashEmpty
    <3> QED BY <3>3, <3>4 DEF Sites
  <2> QED BY <1>5, <2>3, <2>4 DEF GetChannels, Sites
<1>6. ASSUME TakeStashed PROVE StashEmpty'
  <2>1. /\ pc \in Filled /\ pc' \in Filled /\ UNCHANGED <<rec, ref>>
        /\ stash' = [stash EXCEPT ![unstash] = None]
    BY <1>6 DEF TakeStashed, Ready, Pack, Filled, Map!TakeStash, Map!callerVars, unstash
  <2>2. unstash \in Records
    BY <1>0, <1>6 DEF TakeStashed, Ready, Facts!TypeOK, unstash
  <2> QED BY <1>0, <1>1, <2>1, <2>2 DEF unstash, Facts!TypeOK
<1>7. ASSUME TakeQueued \/ Wait PROVE StashEmpty'
  <2>1. pc \in Filled /\ pc' \in Filled /\ UNCHANGED <<rec, ref, stash>> /\ stash[unstash] = None
    BY <1>7 DEF TakeQueued, Wait, Ready, Pack, Filled, mapVars
  <2> QED BY <1>1, <2>1 DEF unstash
<1>8. TakeNil \/ TimerFires \/ AnotherQuery \/ StashPacket => pc' \notin Filled
  BY DEF TakeNil, TimerFires, AnotherQuery, StashPacket, Filled
<1>9. SendResponse \/ SendFails => pc' \notin Filled
  BY DEF SendResponse, SendFails, Answered, Filled
<1>10. ASSUME Expiry \/ UNCHANGED vars \/ \E a \in Clients, fills \in BOOLEAN : ReceiveQuery(a, fills)
       PROVE  StashEmpty'
  <2>1. UNCHANGED <<rec, ref, stash, pc>>
    BY <1>10 DEF Expiry, Map!ReadTime, Map!RemoveExpired, Map!Tick, Map!callerVars, loopVars, vars,
                 mapVars, ReceiveQuery
  <2> QED BY <1>1, <1>2, <2>1 DEF unstash
<1> QED BY <1>2, <1>3, <1>4, <1>5, <1>6, <1>7, <1>8, <1>9, <1>10 DEF Next, SendLoop

-----------------------------------------------------------------------------
(* What is in the response, and the order of the queries.                  *)

LEMMA PackLayout ==
  ASSUME Types, Layout, pc \in {"filling", "waiting"}, NEW p \in Packets, Pack(p)
  PROVE  Layout'
<1>1. PICK end \in [0..Len(bundle) -> Nat] : Ends(end)
  BY DEF Layout
<1>2. Weight[p] \in Nat /\ MaxEncoded \in Nat /\ bundle \in Seq(Packets)
  BY WeightAssumption DEF Types
<1> DEFINE n == Len(bundle)
<1>3. n \in Nat /\ limit = MaxEncoded - end[n] /\ end[n] \in Nat
  BY <1>1, <1>2 DEF Ends
<1>4. CASE bundle' = bundle /\ pc' = "stashing"
  <2>1. Ends(end)'
    BY <1>1, <1>4 DEF Ends
  <2> QED BY <1>4, <2>1 DEF Layout
<1>5. CASE bundle' = Append(bundle, p) /\ (bundle = <<>> \/ limit' >= 0)
  <2> DEFINE last == end[n] + Weight[p]
  <2>0. PICK longer : longer = [i \in 0..(n + 1) |-> IF i <= n THEN end[i] ELSE last]
    OBVIOUS
  <2>1. /\ Len(bundle') = n + 1 /\ bundle'[n + 1] = p
        /\ \A i \in 1..n : bundle'[i] = bundle[i]
    BY <1>2, <1>5
  <2>2. longer \in [0..Len(bundle') -> Nat]
    BY <1>1, <1>2, <1>3, <2>0, <2>1
  <2>3. longer[0] = 0
    BY <1>1, <1>3, <2>0 DEF Ends
  <2>4. \A i \in 1..Len(bundle') : longer[i] = longer[i - 1] + Weight[bundle'[i]]
    BY <1>1, <1>3, <2>0, <2>1 DEF Ends
  <2>5. longer[Len(bundle')] = last
    BY <1>3, <2>0, <2>1
  <2>6. \A i \in 0..Len(bundle') : longer[i] <= last
    BY <1>1, <1>2, <1>3, <2>0, <2>1 DEF Ends
  <2>7. limit' = MaxEncoded - last
    BY <1>2, <1>3 DEF Pack
  <2>8. Len(bundle') > 1 => last <= MaxEncoded
    <3>1. Len(bundle') > 1 => bundle # <<>>
      BY <1>2, <2>1
    <3> QED BY <1>2, <1>3, <1>5, <2>7, <3>1
  <2>9. Ends(longer)'
    BY <2>3, <2>4, <2>5, <2>6, <2>7, <2>8 DEF Ends
  <2> QED BY <2>2, <2>9 DEF Layout
<1> QED BY <1>4, <1>5 DEF Pack

LEMMA LayoutSafe == IInv /\ [Next]_vars => Layout'
<1> SUFFICES ASSUME IInv, [Next]_vars PROVE Layout'
  OBVIOUS
<1>0. Types /\ Places /\ Facts!TypeOK /\ Layout
  BY DEF IInv, Facts!IInv
<1>1. ASSUME UNCHANGED <<bundle, limit>>,
             pc' \in {"next", "filling", "waiting"} => pc \in {"next", "filling", "waiting"}
      PROVE  Layout'
  BY <1>0, <1>1 DEF Layout, Ends
<1>2. ASSUME NEW a \in Clients, KcpWrite(a) PROVE Layout'
  BY <1>1, <1>2 DEF KcpWrite, loopVars
<1>3. NextQuery => UNCHANGED <<bundle, limit>> /\ pc \in {"next", "filling", "waiting"}
  BY DEF NextQuery
<1>4. GetChannels \/ Expiry \/ UNCHANGED vars => UNCHANGED <<bundle, limit, pc>>
  BY DEF GetChannels, Expiry, vars, loopVars
<1>5. ASSUME TakeStashed PROVE Layout'
  <2>1. stash[unstash] \in Packets
    BY <1>0, <1>5 DEF TakeStashed, Map!TakeStash, Facts!TypeOK, unstash
  <2> QED BY <1>0, <1>5, <2>1, PackLayout DEF TakeStashed, Ready
<1>6. ASSUME TakeQueued PROVE Layout'
  <2>1. outgoing \in Records
    BY <1>0, <1>6 DEF TakeQueued, Ready, Facts!TypeOK, outgoing
  <2>2. Head(sendq[outgoing]) \in Packets
    BY <1>0, <1>6, <2>1 DEF TakeQueued, Types
  <2> QED BY <1>0, <1>6, <2>2, PackLayout DEF TakeQueued, Ready
<1>7. Wait => UNCHANGED <<bundle, limit>> /\ pc \in {"next", "filling", "waiting"}
  BY DEF Wait, Ready
<1>8. TakeNil \/ TimerFires \/ AnotherQuery \/ StashPacket
        => UNCHANGED <<bundle, limit>> /\ pc' = "sending"
  BY DEF TakeNil, TimerFires, AnotherQuery, StashPacket
<1>9. ASSUME SendResponse \/ SendFails PROVE Layout'
  <2>1. bundle' = <<>> /\ limit' = MaxEncoded
    BY <1>9 DEF SendResponse, SendFails, Answered
  <2> DEFINE end == [i \in 0..0 |-> 0]
  <2>2. end \in [0..Len(bundle') -> Nat] /\ Ends(end)'
    BY <2>1, WeightAssumption DEF Ends
  <2> QED BY <2>2 DEF Layout
<1>10. ASSUME NEW a \in Clients, NEW fills \in BOOLEAN, ReceiveQuery(a, fills) PROVE Layout'
  BY <1>1, <1>10 DEF ReceiveQuery
<1> QED BY <1>1, <1>2, <1>3, <1>4, <1>5, <1>6, <1>7, <1>8, <1>9, <1>10 DEF Next, SendLoop

LEMMA NumberedSafe == IInv /\ [Next]_vars => Numbered'
<1> SUFFICES ASSUME IInv, [Next]_vars PROVE Numbered'
  OBVIOUS
<1>0. Types /\ Numbered
  BY DEF IInv
<1>1. queries \in Nat /\ ch \in Seq(Queries)
  BY <1>0 DEF Types
<1>2. ASSUME NEW a \in Clients, NEW fills \in BOOLEAN, ReceiveQuery(a, fills) PROVE Numbered'
  <2>1. queries' = queries + 1
    BY <1>2 DEF ReceiveQuery
  <2>2. \A q \in {rec', nextRec'} : q # None => q.id <= queries'
    <3>1. \A q \in {rec, nextRec} : q # None => q.id \in Nat
      BY <1>0 DEF Types, Queries
    <3> QED BY <1>0, <1>1, <1>2, <2>1, <3>1 DEF ReceiveQuery, Numbered
  <2>3. \A i \in 1..Len(ch') : ch'[i].id <= queries'
    <3>0. \A i \in 1..Len(ch) : ch[i] \in Queries
      BY <1>1, ElementOfSeq
    <3>1. \A i \in 1..Len(ch) : ch[i].id \in Nat
      BY <3>0 DEF Queries
    <3>2. CASE ch' = ch
      BY <1>0, <1>1, <2>1, <3>1, <3>2 DEF Numbered
    <3>3. CASE ch' = Append(ch, [id |-> queries', client |-> a, fills |-> fills])
      BY <1>0, <1>1, <2>1, <3>1, <3>3 DEF Numbered
    <3> QED BY <1>2, <3>2, <3>3 DEF ReceiveQuery
  <2>4. \A i \in 1..Len(sent) : sent[i].id <= queries'
    <3>0. \A i \in 1..Len(sent) : sent[i] \in [id : 1..MaxQueries, packets : Seq(Packets)]
      BY <1>0, ElementOfSeq DEF Types
    <3>1. \A i \in 1..Len(sent) : sent[i].id \in Nat
      BY <3>0
    <3> QED BY <1>0, <1>1, <2>1, <3>1 DEF Numbered
  <2> QED BY <1>2, <2>2, <2>3, <2>4 DEF ReceiveQuery, Numbered
<1>3. ch # <<>> => /\ Head(ch).id <= queries
                   /\ \A i \in 1..Len(Tail(ch)) : Tail(ch)[i].id <= queries
  BY <1>0, <1>1, HeadTailProperties DEF Numbered
<1>4. NextQuery \/ AnotherQuery => Numbered'
  BY <1>0, <1>3 DEF NextQuery, AnotherQuery, Numbered
<1>5. ASSUME SendResponse PROVE Numbered'
  <2>1. rec \in Queries
    BY <1>0, <1>5 DEF SendResponse, Answered, IInv, Types, Places
  <2>2. [id |-> rec.id, packets |-> bundle] \in [id : 1..MaxQueries, packets : Seq(Packets)]
    BY <1>0, <2>1 DEF Types, Queries
  <2>3. rec.id <= queries
    BY <1>0, <2>1, MapAssumption DEF Numbered
  <2>4. \A i \in 1..Len(sent') : sent'[i].id <= queries
    BY <1>0, <1>5, <2>2, <2>3 DEF Types, SendResponse, Numbered
  <2> QED BY <1>0, <1>5, <2>4 DEF SendResponse, Answered, Numbered
<1>6. SendFails => Numbered'
  BY <1>0 DEF SendFails, Answered, Numbered
<1>7. ASSUME NEW a \in Clients, KcpWrite(a) PROVE Numbered'
  BY <1>0, <1>7 DEF KcpWrite, loopVars, Numbered
<1>8. GetChannels \/ TakeStashed \/ TakeQueued \/ TakeNil \/ Wait \/ TimerFires \/ StashPacket => Numbered'
  BY <1>0 DEF GetChannels, TakeStashed, TakeQueued, TakeNil, Wait, TimerFires, StashPacket, loopVars,
              Numbered
<1>9. Expiry \/ UNCHANGED vars => Numbered'
  BY <1>0 DEF Expiry, vars, loopVars, Numbered
<1> QED BY <1>2, <1>4, <1>5, <1>6, <1>7, <1>8, <1>9 DEF Next, SendLoop

LEMMA NextSafe == IInv /\ [Next]_vars => IInv'
BY MapSafe, TypesSafe, PlacesSafe, ChannelsSafe, StashEmptySafe, LayoutSafe, NumberedSafe DEF IInv

-----------------------------------------------------------------------------
(* Subsequences.                                                           *)

LEMMA SubsequenceOfItself ==
  ASSUME NEW S, NEW s \in Seq(S)
  PROVE  Abstract!Subsequence(s, s)
<1> DEFINE at == [i \in 1..Len(s) |-> i]
<1>1. at \in [1..Len(s) -> 1..Len(s)]
  OBVIOUS
<1>2. (\A i, j \in 1..Len(s) : i < j => at[i] < at[j]) /\ \A i \in 1..Len(s) : s[i] = s[at[i]]
  OBVIOUS
<1> QED BY <1>1, <1>2 DEF Abstract!Subsequence

LEMMA SubsequenceEmpty ==
  ASSUME NEW S, NEW s \in Seq(S)
  PROVE  Abstract!Subsequence(<<>>, s)
<1> DEFINE at == [i \in 1..0 |-> i]
<1>1. at \in [1..Len(<<>>) -> 1..Len(s)] /\ 1..Len(<<>>) = {}
  OBVIOUS
<1> QED BY <1>1 DEF Abstract!Subsequence

Increasing(f, m, n) ==
  f \in [1..m -> 1..n] /\ \A i, j \in 1..m : i < j => f[i] < f[j]

Joined(f, m, n, g, k) == [i \in 1..(m + k) |-> IF i <= m THEN f[i] ELSE n + g[i - m]]

LEMMA JoinedIndices ==
  ASSUME NEW m \in Nat, NEW n \in Nat, NEW k \in Nat, NEW l \in Nat,
         NEW f, Increasing(f, m, n), NEW g, Increasing(g, k, l)
  PROVE  Increasing(Joined(f, m, n, g, k), m + k, n + l)
<1> DEFINE at == Joined(f, m, n, g, k)
<1>1. /\ \A i \in 1..m : at[i] = f[i] /\ at[i] \in 1..n
      /\ \A i \in (m + 1)..(m + k) : at[i] = n + g[i - m] /\ i - m \in 1..k /\ g[i - m] \in 1..l
  BY DEF Increasing, Joined
<1> HIDE DEF at
<1>2. \A i \in 1..(m + k) : i \in 1..m \/ i \in (m + 1)..(m + k)
  OBVIOUS
<1>3. at \in [1..(m + k) -> 1..(n + l)]
  <2>1. \A i \in 1..(m + k) : at[i] \in 1..(n + l)
    BY <1>1, <1>2
  <2> QED BY <2>1 DEF at, Joined
<1>4. ASSUME NEW i \in 1..(m + k), NEW j \in 1..(m + k), i < j
      PROVE  at[i] < at[j]
  <2>1. CASE i \in 1..m /\ j \in 1..m
    BY <1>1, <1>4, <2>1 DEF Increasing
  <2>2. CASE i \in 1..m /\ j \in (m + 1)..(m + k)
    BY <1>1, <2>2
  <2>3. CASE i \in (m + 1)..(m + k) /\ j \in (m + 1)..(m + k)
    <3>1. i - m < j - m
      BY <1>4
    <3>2. g[i - m] < g[j - m]
      BY <1>1, <2>3, <3>1 DEF Increasing
    <3> QED BY <1>1, <2>3, <3>2
  <2> QED BY <1>2, <1>4, <2>1, <2>2, <2>3
<1>5. Increasing(at, m + k, n + l)
  BY <1>3, <1>4 DEF Increasing
<1> QED BY <1>5 DEF at

LEMMA SubsequenceConcat ==
  ASSUME NEW S, NEW s1 \in Seq(S), NEW s2 \in Seq(S), NEW t1 \in Seq(S), NEW t2 \in Seq(S),
         Abstract!Subsequence(s1, t1), Abstract!Subsequence(s2, t2)
  PROVE  Abstract!Subsequence(s1 \o s2, t1 \o t2)
<1>1. PICK f : Increasing(f, Len(s1), Len(t1)) /\ \A i \in 1..Len(s1) : s1[i] = t1[f[i]]
  BY DEF Abstract!Subsequence, Increasing
<1>2. PICK g : Increasing(g, Len(s2), Len(t2)) /\ \A i \in 1..Len(s2) : s2[i] = t2[g[i]]
  BY DEF Abstract!Subsequence, Increasing
<1>3. PICK m, n, k, l \in Nat : m = Len(s1) /\ n = Len(t1) /\ k = Len(s2) /\ l = Len(t2)
  BY LenProperties
<1>4. PICK s, t : s = s1 \o s2 /\ t = t1 \o t2
  OBVIOUS
<1>5. /\ Len(s) = m + k /\ Len(t) = n + l
      /\ \A i \in 1..(m + k) : s[i] = IF i <= m THEN s1[i] ELSE s2[i - m]
      /\ \A i \in 1..(n + l) : t[i] = IF i <= n THEN t1[i] ELSE t2[i - n]
  BY <1>3, <1>4, ConcatProperties
<1>6. PICK at : /\ Increasing(at, m + k, n + l)
                /\ \A i \in 1..m : at[i] = f[i]
                /\ \A i \in 1..k : at[m + i] = n + g[i]
  <2>1. Increasing(f, m, n) /\ Increasing(g, k, l)
    BY <1>1, <1>2, <1>3
  <2>2. Increasing(Joined(f, m, n, g, k), m + k, n + l)
    BY <2>1, JoinedIndices
  <2>3. \A i \in 1..m : Joined(f, m, n, g, k)[i] = f[i]
    BY DEF Joined
  <2>4. ASSUME NEW i \in 1..k PROVE Joined(f, m, n, g, k)[m + i] = n + g[i]
    <3>1. m + i \in 1..(m + k) /\ ~(m + i <= m) /\ m + i - m = i
      OBVIOUS
    <3> QED BY <3>1 DEF Joined
  <2> QED BY <2>2, <2>3, <2>4
<1>7. ASSUME NEW i \in 1..(m + k) PROVE s[i] = t[at[i]]
  <2>1. CASE i <= m
    <3>1. PICK x \in 1..n : i \in 1..m /\ x = f[i] /\ s1[i] = t1[x]
      BY <1>1, <1>3, <2>1 DEF Increasing
    <3>2. x \in 1..(n + l) /\ x <= n
      OBVIOUS
    <3>3. at[i] = x
      BY <1>6, <3>1
    <3>4. s[i] = s1[i]
      BY <1>5, <2>1
    <3>5. t[x] = IF x <= n THEN t1[x] ELSE t2[x - n]
      BY <1>5, <3>2
    <3> QED BY <3>1, <3>2, <3>3, <3>4, <3>5
  <2>2. CASE ~(i <= m)
    <3>1. i - m \in 1..k /\ m + (i - m) = i
      BY <2>2
    <3>2. PICK x \in 1..l : x = g[i - m] /\ s2[i - m] = t2[x]
      BY <1>2, <1>3, <3>1 DEF Increasing
    <3>3. n + x \in 1..(n + l) /\ ~(n + x <= n) /\ n + x - n = x
      OBVIOUS
    <3>4. at[i] = n + x /\ s[i] = s2[i - m]
      BY <1>5, <1>6, <2>2, <3>1, <3>2
    <3>5. t[n + x] = t2[x]
      <4>1. PICK y \in 1..(n + l) : y = n + x /\ ~(y <= n) /\ y - n = x
        BY <3>3
      <4>2. t[y] = IF y <= n THEN t1[y] ELSE t2[y - n]
        BY <1>5
      <4> QED BY <4>1, <4>2
    <3> QED BY <3>2, <3>4, <3>5
  <2> QED BY <2>1, <2>2
<1>8. Abstract!Subsequence(s, t)
  <2>1. at \in [1..Len(s) -> 1..Len(t)] /\ \A i, j \in 1..Len(s) : i < j => at[i] < at[j]
    BY <1>5, <1>6 DEF Increasing
  <2>2. \A i \in 1..Len(s) : s[i] = t[at[i]]
    BY <1>5, <1>7
  <2> QED BY <2>1, <2>2 DEF Abstract!Subsequence
<1> QED BY <1>4, <1>8

-----------------------------------------------------------------------------
(* The queue of a client is a sequence of packets, part by part.           *)

LEMMA AsSeqType ==
  ASSUME NEW S, NEW p \in S \cup {None}
  PROVE  AsSeq(p) \in Seq(S)
BY DEF AsSeq

LEMMA NoPackets == <<>> \o <<>> = <<>>
<1>1. <<>> \in Seq(Packets)
  BY EmptySeq
<1> QED BY <1>1, ConcatEmptySeq

LEMMA PendingType ==
  ASSUME IInv, NEW a \in Clients
  PROVE  /\ Carried(a) \in Seq(Packets) /\ Detached(a) \in Seq(Packets)
         /\ Mapped(a) \in Seq(Packets) /\ Pending(a) \in Seq(Packets)
<1>0. Types /\ Facts!TypeOK
  BY DEF IInv, Facts!IInv
<1>1. Carried(a) \in Seq(Packets)
  <2>1. bundle \in Seq(Packets) /\ AsSeq(hand) \in Seq(Packets)
    BY <1>0, AsSeqType DEF Types
  <2> QED BY <2>1, EmptySeq, ConcatProperties DEF Carried
<1>2. ASSUME NEW r \in Records PROVE AsSeq(stash[r]) \in Seq(Packets) /\ sendq[r] \in Seq(Packets)
  BY <1>0, AsSeqType DEF Types, Facts!TypeOK
<1>3. unstash \in Records \cup {None} /\ outgoing \in Records \cup {None}
      /\ current[a] \in Records \cup {None}
  BY <1>0 DEF Facts!TypeOK, unstash, outgoing
<1>4. Detached(a) \in Seq(Packets)
  <2>1. (IF unstash \in {None, current[a]} THEN <<>> ELSE AsSeq(stash[unstash])) \in Seq(Packets)
    BY <1>2, <1>3, EmptySeq
  <2>2. (IF outgoing \in {None, current[a]} THEN <<>> ELSE sendq[outgoing]) \in Seq(Packets)
    BY <1>2, <1>3, EmptySeq
  <2> QED BY <2>1, <2>2, EmptySeq, ConcatProperties DEF Detached
<1>5. Mapped(a) \in Seq(Packets)
  BY <1>2, <1>3, EmptySeq, ConcatProperties DEF Mapped
<1>6. Pending(a) \in Seq(Packets)
  BY <1>1, <1>4, <1>5, ConcatProperties DEF Pending
<1> QED BY <1>1, <1>4, <1>5, <1>6

LEMMA RangeOfQueries ==
  ASSUME NEW x \in Seq(Queries), NEW y \in Seq(Queries)
  PROVE  Range(x \o y) = Range(x) \cup Range(y)
BY RangeConcatenation

LEMMA WaitingType ==
  ASSUME IInv
  PROVE  Waiting \in Seq(Queries) /\ \A q \in Range(Waiting) : q.id <= queries
<1>0. Types /\ Numbered
  BY DEF IInv
<1>1. AsSeq(rec) \in Seq(Queries) /\ AsSeq(nextRec) \in Seq(Queries) /\ ch \in Seq(Queries)
  BY <1>0, AsSeqType DEF Types
<1>2. AsSeq(rec) \o AsSeq(nextRec) \in Seq(Queries) /\ Waiting \in Seq(Queries)
  BY <1>1, ConcatProperties DEF Waiting
<1>3. Range(Waiting) = Range(AsSeq(rec)) \cup Range(AsSeq(nextRec)) \cup Range(ch)
  <2>1. Range(AsSeq(rec) \o AsSeq(nextRec)) = Range(AsSeq(rec)) \cup Range(AsSeq(nextRec))
    BY <1>1, RangeOfQueries
  <2>2. Range((AsSeq(rec) \o AsSeq(nextRec)) \o ch) = Range(AsSeq(rec) \o AsSeq(nextRec)) \cup Range(ch)
    BY <1>1, <1>2, RangeOfQueries
  <2> QED BY <2>1, <2>2 DEF Waiting
<1>4. \A q \in Range(AsSeq(rec)) \cup Range(AsSeq(nextRec)) : q.id <= queries
  <2>1. ASSUME NEW r \in {rec, nextRec}, NEW q \in Range(AsSeq(r)) PROVE q = r /\ r # None
    BY <2>1 DEF AsSeq, Range
  <2> QED BY <1>0, <2>1 DEF Numbered
<1>5. \A q \in Range(ch) : q.id <= queries
  BY <1>0, <1>1, RangeEquality DEF Numbered
<1> QED BY <1>2, <1>3, <1>4, <1>5

(* What the other steps do to the abstract queues follows from these three.*)
Same(a) == Pending(a)' = Pending(a)
Shorter(a) == Abstract!Subsequence(Pending(a)', Pending(a))

LEMMA Stutters ==
  ASSUME \A a \in Clients : Same(a), Waiting' = Waiting, sent' = sent
  PROVE  UNCHANGED Abstract!vars
BY DEF Same, Abstract!vars

LEMMA Loses ==
  ASSUME \A a \in Clients : Shorter(a), Waiting' = Waiting, sent' = sent
  PROVE  Abstract!Lose
BY DEF Shorter, Abstract!Lose

(* Dropping the middle or the end of a queue.                              *)
LEMMA SubsequenceDrop ==
  ASSUME NEW S, NEW s \in Seq(S), NEW t \in Seq(S), NEW u \in Seq(S)
  PROVE  Abstract!Subsequence(s \o u, s \o t \o u)
<1>1. Abstract!Subsequence(s, s) /\ Abstract!Subsequence(<<>>, t) /\ Abstract!Subsequence(u, u)
  BY SubsequenceOfItself, SubsequenceEmpty
<1>2. Abstract!Subsequence(s \o <<>>, s \o t)
  BY <1>1, EmptySeq, SubsequenceConcat
<1>3. s \o <<>> = s /\ s \o t \in Seq(S)
  BY ConcatEmptySeq, ConcatProperties
<1> QED BY <1>1, <1>2, <1>3, SubsequenceConcat

-----------------------------------------------------------------------------
(* Each action, seen from the abstract queues.                             *)

LEMMA NothingMoves ==
  ASSUME NEW a \in Clients, UNCHANGED <<current, stash, sendq, ref, rec, bundle, hand>>,
         pc' \in {"filling", "waiting"} <=> pc \in {"filling", "waiting"}
  PROVE  Same(a)
BY DEF Same, Pending, Carried, Detached, Mapped, Filling, unstash, outgoing

(* The record of one client is neither in the map for another one nor held *)
(* by sendLoop when it answers another one.                                *)
LEMMA OthersRecord ==
  ASSUME IInv, NEW b \in Clients, NEW c \in Clients, b # c, current[b] # None
  PROVE  /\ current[c] # current[b]
         /\ Filling(c) => unstash # current[b] /\ outgoing # current[b]
<1>1. current[c] # current[b]
  BY DEF IInv, Facts!IInv, Facts!RecordsUnshared
<1>2. Filling(c) => unstash # current[b] /\ outgoing # current[b]
  BY HeldRecord DEF Filling, unstash, outgoing, Sites
<1> QED BY <1>1, <1>2

LEMMA AppendToConcat ==
  ASSUME NEW S, NEW s \in Seq(S), NEW t \in Seq(S), NEW e \in S
  PROVE  s \o Append(t, e) = Append(s \o t, e)
<1>1. Append(t, e) = t \o <<e>> /\ s \o t \in Seq(S) /\ <<e>> \in Seq(S)
  BY AppendIsConcat, ConcatProperties
<1>2. Append(s \o t, e) = (s \o t) \o <<e>>
  BY <1>1, AppendIsConcat
<1> QED BY <1>1, <1>2, ConcatAssociative

(* A packet goes to the end of the queue of its client, or nowhere.        *)
LEMMA WriteToOldPeer ==
  ASSUME IInv, NEW b \in Clients, current[b] # None, written' \in Packets,
         sendq' = [sendq EXCEPT ![current[b]] = Enqueue(@)], UNCHANGED <<mapVars, loopVars>>
  PROVE  /\ \A c \in Clients : c # b => Same(c)
         /\ Pending(b)' \in {Pending(b), Append(Pending(b), written')}
<1>0. Types /\ Facts!TypeOK
  BY DEF IInv, Facts!IInv
<1> DEFINE r == current[b]
<1>1. r \in Records /\ sendq[r] \in Seq(Packets) /\ AsSeq(stash[r]) \in Seq(Packets)
  BY <1>0, AsSeqType DEF Types, Facts!TypeOK
<1>2. ASSUME NEW c \in Clients, c # b PROVE Same(c)
  <2>1. current[c] # r /\ (Filling(c) => unstash # r /\ outgoing # r)
    BY <1>2, OthersRecord
  <2>2. sendq' = [sendq EXCEPT ![r] = Enqueue(@)] /\ sendq \in [Records -> Seq(Packets)]
    BY <1>0 DEF Types
  <2> HIDE DEF r
  <2>3. \A s \in Records : s # r => sendq'[s] = sendq[s]
    BY <2>2
  <2>4. current[c] \in Records \cup {None} /\ outgoing \in Records \cup {None}
    BY <1>0 DEF Facts!TypeOK, outgoing
  <2>5. Detached(c)' = Detached(c)
    BY <2>1, <2>3, <2>4 DEF Detached, Filling, mapVars, loopVars, unstash, outgoing
  <2>6. Mapped(c)' = Mapped(c)
    BY <2>1, <2>3, <2>4 DEF Mapped, mapVars
  <2>7. Carried(c)' = Carried(c)
    BY DEF Carried, loopVars
  <2> QED BY <2>5, <2>6, <2>7 DEF Same, Pending
<1>3. Detached(b)' = Detached(b) /\ Carried(b)' = Carried(b)
  <2>1. outgoing \notin {None, r} => sendq'[outgoing] = sendq[outgoing]
    BY <1>0 DEF Types, Facts!TypeOK, outgoing
  <2> QED BY <2>1 DEF Detached, Filling, Carried, mapVars, loopVars, unstash, outgoing
<1>4. Mapped(b)' \in {Mapped(b), Append(Mapped(b), written')}
  <2>1. sendq'[r] = Enqueue(sendq[r])
    BY <1>0, <1>1 DEF Types
  <2>2. Mapped(b) = AsSeq(stash[r]) \o sendq[r]
    BY DEF Mapped
  <2>3. Mapped(b)' = AsSeq(stash[r]) \o Enqueue(sendq[r])
    BY <2>1 DEF Mapped, mapVars
  <2>4. AsSeq(stash[r]) \o Append(sendq[r], written') = Append(AsSeq(stash[r]) \o sendq[r], written')
    <3>1. PICK x, y \in Seq(Packets) : x = AsSeq(stash[r]) /\ y = sendq[r]
      BY <1>1
    <3>2. x \o Append(y, written') = Append(x \o y, written')
      BY AppendToConcat
    <3> QED BY <3>1, <3>2
  <2> QED BY <2>2, <2>3, <2>4 DEF Enqueue
<1>5. Pending(b)' \in {Pending(b), Append(Pending(b), written')}
  <2>1. Carried(b) \o Detached(b) \in Seq(Packets) /\ Mapped(b) \in Seq(Packets)
    BY PendingType, ConcatProperties
  <2>2. (Carried(b) \o Detached(b)) \o Append(Mapped(b), written')
          = Append((Carried(b) \o Detached(b)) \o Mapped(b), written')
    BY <2>1, AppendToConcat
  <2> QED BY <1>3, <1>4, <2>2 DEF Pending
<1> QED BY <1>2, <1>5

(* A record that enters the map brings nothing but what is put into it.    *)
LEMMA NewRecord ==
  ASSUME IInv, NEW b \in Clients, NEW r \in Records, Map!Create(b, r),
         \A s \in Records : s # r => stash'[s] = stash[s] /\ sendq'[s] = sendq[s],
         UNCHANGED <<rec, pc>>,
         unstash' \in {unstash, r}, outgoing' \in {outgoing, r},
         unstash' # unstash => unstash = None, outgoing' # outgoing => outgoing = None,
         unstash' # unstash \/ outgoing' # outgoing => b = rec.client
  PROVE  /\ \A c \in Clients : Detached(c)' = Detached(c)
         /\ \A c \in Clients : c # b => Mapped(c)' = Mapped(c)
         /\ Mapped(b) = <<>> /\ Mapped(b)' = AsSeq(stash'[r]) \o sendq'[r]
<1>0. Types /\ Facts!TypeOK /\ r # None
  BY MapAssumption DEF IInv, Facts!IInv
<1>1. /\ current[b] = None /\ current' = [current EXCEPT ![b] = r]
      /\ \A c \in Clients : current[c] # r /\ current[c] \in Records \cup {None}
      /\ unstash # r /\ outgoing # r
      /\ unstash \in Records \cup {None} /\ outgoing \in Records \cup {None}
  BY <1>0 DEF Map!Create, Map!Reachable, Facts!TypeOK, unstash, outgoing
<1>2. current'[b] = r /\ \A c \in Clients : c # b => current'[c] = current[c]
  BY <1>0, <1>1 DEF Facts!TypeOK
<1>3. ASSUME NEW c \in Clients PROVE Detached(c)' = Detached(c)
  <2>1. CASE c = b
    <3>1. unstash' \in {None, current'[c]} <=> unstash \in {None, current[c]}
      BY <1>0, <1>1, <1>2, <2>1
    <3>2. outgoing' \in {None, current'[c]} <=> outgoing \in {None, current[c]}
      BY <1>0, <1>1, <1>2, <2>1
    <3>3. unstash # None => unstash' = unstash /\ stash'[unstash] = stash[unstash]
      BY <1>1
    <3>4. outgoing # None => outgoing' = outgoing /\ sendq'[outgoing] = sendq[outgoing]
      BY <1>1
    <3> QED BY <3>1, <3>2, <3>3, <3>4 DEF Detached, Filling
  <2>2. CASE c # b /\ rec # None /\ rec.client = c
    <3>1. unstash' = unstash /\ outgoing' = outgoing
      BY <2>2
    <3>2. unstash # None => stash'[unstash] = stash[unstash]
      BY <1>1
    <3>3. outgoing # None => sendq'[outgoing] = sendq[outgoing]
      BY <1>1
    <3> QED BY <1>2, <2>2, <3>1, <3>2, <3>3 DEF Detached, Filling
  <2>3. CASE rec = None \/ rec.client # c
    BY <2>3 DEF Detached, Filling
  <2> QED BY <2>1, <2>2, <2>3
<1>4. ASSUME NEW c \in Clients, c # b PROVE Mapped(c)' = Mapped(c)
  BY <1>1, <1>2, <1>4 DEF Mapped
<1>5. Mapped(b) = <<>> /\ Mapped(b)' = AsSeq(stash'[r]) \o sendq'[r]
  BY <1>0, <1>1, <1>2 DEF Mapped
<1> QED BY <1>3, <1>4, <1>5

LEMMA WriteImplements ==
  ASSUME IInv, NEW b \in Clients, KcpWrite(b)
  PROVE  Abstract!Write(b, written') \/ UNCHANGED Abstract!vars
<1>0. Types /\ Facts!TypeOK /\ written' \in Packets
  BY BoundAssumption DEF IInv, Facts!IInv, Types, KcpWrite, Packets
<1>1. Waiting' = Waiting /\ sent' = sent /\ Carried(b)' = Carried(b)
      /\ \A c \in Clients : Carried(c)' = Carried(c)
  BY DEF KcpWrite, loopVars, Waiting, Carried
<1>2. /\ \A c \in Clients : c # b => Same(c)
      /\ Pending(b)' \in {Pending(b), Append(Pending(b), written')}
  <2>1. CASE current[b] # None /\ sendq' = [sendq EXCEPT ![current[b]] = Enqueue(@)] /\ UNCHANGED mapVars
    BY <1>0, <2>1, WriteToOldPeer DEF KcpWrite
  <2>2. ASSUME NEW r \in Records, Map!Create(b, r), stash' = [stash EXCEPT ![r] = None],
               sendq' = [sendq EXCEPT ![r] = Enqueue(<<>>)], UNCHANGED <<asked, ref, sweeper, nap, lag>>
        PROVE  /\ \A c \in Clients : c # b => Same(c)
               /\ Pending(b)' \in {Pending(b), Append(Pending(b), written')}
    <3>1. /\ \A s \in Records : s # r => stash'[s] = stash[s] /\ sendq'[s] = sendq[s]
          /\ stash'[r] = None /\ sendq'[r] = Enqueue(<<>>)
      BY <1>0, <2>2 DEF Types, Facts!TypeOK
    <3>2. UNCHANGED <<rec, pc, unstash, outgoing>>
      BY <2>2 DEF KcpWrite, loopVars, unstash, outgoing
    <3>3. /\ \A c \in Clients : Detached(c)' = Detached(c)
          /\ \A c \in Clients : c # b => Mapped(c)' = Mapped(c)
          /\ Mapped(b) = <<>> /\ Mapped(b)' = AsSeq(stash'[r]) \o sendq'[r]
      BY <2>2, <3>1, <3>2, NewRecord
    <3>4. Enqueue(<<>>) \in {<<>>, <<written'>>} /\ Enqueue(<<>>) \in Seq(Packets)
      BY <1>0 DEF Enqueue
    <3>5. Mapped(b)' \in {<<>>, <<written'>>}
      <4>1. <<>> \o Enqueue(<<>>) = Enqueue(<<>>)
        BY <3>4, ConcatEmptySeq
      <4> QED BY <3>1, <3>3, <3>4, <4>1 DEF AsSeq
    <3>6. Pending(b)' \in {Pending(b), Append(Pending(b), written')}
      <4>1. PICK s \in Seq(Packets) : s = Carried(b) \o Detached(b)
        BY PendingType, ConcatProperties
      <4>2. s \o <<>> = s /\ s \o <<written'>> = Append(s, written')
        BY <1>0, AppendIsConcat, ConcatEmptySeq
      <4>3. Pending(b) = s
        BY <3>3, <4>1, <4>2 DEF Pending
      <4>4. Pending(b)' = s \o Mapped(b)'
        BY <1>1, <3>3, <4>1 DEF Pending
      <4> QED BY <3>5, <4>2, <4>3, <4>4
    <3> QED BY <1>1, <3>3, <3>6 DEF Same, Pending
  <2> QED BY <2>1, <2>2 DEF KcpWrite
<1>3. CASE Pending(b)' = Pending(b)
  BY <1>1, <1>2, <1>3, Stutters DEF Same
<1>4. CASE Pending(b)' = Append(Pending(b), written')
  BY <1>1, <1>2, <1>4 DEF Abstract!Write, Same
<1> QED BY <1>2, <1>3, <1>4

LEMMA QueuesOfNewRecord ==
  ASSUME IInv, NEW b \in Clients, NEW r \in Records, NewQueues
  PROVE  /\ Map!Create(b, r) => /\ sendq'[r] = <<>>
                                /\ \A s \in Records : s # r => sendq'[s] = sendq[s]
         /\ UNCHANGED current => UNCHANGED sendq
<1>0. Types /\ Facts!TypeOK
  BY DEF IInv, Facts!IInv
<1>1. ASSUME Map!Create(b, r)
      PROVE  sendq'[r] = <<>> /\ \A s \in Records : s # r => sendq'[s] = sendq[s]
  <2>1. /\ current[b] # r /\ current'[b] = r
        /\ \A c \in Clients : c # b => current'[c] = current[c]
    BY <1>0, <1>1 DEF Map!Create, Map!Reachable, Facts!TypeOK
  <2> QED BY <2>1 DEF NewQueues
<1>2. UNCHANGED current => UNCHANGED sendq
  BY <1>0 DEF NewQueues, Types
<1> QED BY <1>1, <1>2

(* To get a channel changes nothing, whatever the expiry goroutine has     *)
(* done in between.                                                        *)
LEMMA GetChannelsStutters ==
  ASSUME IInv, GetChannels
  PROVE  UNCHANGED Abstract!vars
<1>0. /\ Types /\ Facts!TypeOK /\ Channels
      /\ UNCHANGED <<rec, nextRec, ch, pc, bundle, hand, sent>> /\ pc = "filling"
  BY DEF IInv, Facts!IInv, GetChannels, loopVars
<1>1. rec # None /\ rec.client \in Clients
  BY <1>0, MapAssumption DEF IInv, Types, Places, Queries
<1>6. PICK q \in Clients : q = rec.client
  BY <1>1
<1>2. \A c \in Clients : Carried(c)' = Carried(c) /\ (Filling(c) => c = q)
  BY <1>0, <1>6 DEF Carried, Filling
<1>3. ASSUME NEW t \in Sites, Map!FastPath(t, q), UNCHANGED sendq, NEW a \in Clients
      PROVE  Same(a)
  <2>1. /\ UNCHANGED <<current, stash>> /\ ref' = [ref EXCEPT ![t] = current[q]] /\ ref[t] = None
    BY <1>0, <1>3, HeldRecord, MapAssumption DEF Map!FastPath, Map!mapVars
  <2>2. /\ unstash' \in {unstash, current[q]} /\ outgoing' \in {outgoing, current[q]}
        /\ unstash' # unstash => unstash = None
        /\ outgoing' # outgoing => outgoing = None
    BY <1>0, <2>1 DEF Facts!TypeOK, unstash, outgoing, Sites
  <2>3. Detached(a)' = Detached(a) /\ Mapped(a)' = Mapped(a)
    BY <1>0, <1>2, <1>3, <2>1, <2>2 DEF Detached, Mapped, Filling
  <2> QED BY <1>2, <2>3 DEF Same, Pending
<1>4. ASSUME NEW t \in Sites, Map!SlowPath(t), NewQueues, NEW a \in Clients
      PROVE  Same(a)
  <2>1. asked[t] = q /\ ref[t] = None
    BY <1>0, <1>4, <1>6 DEF Map!SlowPath, Channels, Sites
  <2>2. PICK r \in Records :
          /\ Map!Lookup(q, r) /\ ref' = [ref EXCEPT ![t] = r]
          /\ stash' = [stash EXCEPT ![r] = Map!StashOf(q)]
    BY <1>4, <2>1 DEF Map!SlowPath
  <2>3. /\ unstash' \in {unstash, r} /\ outgoing' \in {outgoing, r}
        /\ unstash' # unstash => unstash = None
        /\ outgoing' # outgoing => outgoing = None
    BY <1>0, <2>1, <2>2 DEF Facts!TypeOK, unstash, outgoing, Sites
  <2>4. CASE Map!Found(q, r)
    <3>1. UNCHANGED <<current, sendq>> /\ r = current[q]
      BY <1>1, <1>4, <2>4, QueuesOfNewRecord DEF Map!Found
    <3>2. stash' = stash
      BY <1>0, <2>2, <3>1, MapAssumption DEF Map!StashOf, Facts!TypeOK
    <3>3. Detached(a)' = Detached(a) /\ Mapped(a)' = Mapped(a)
      BY <1>0, <1>2, <2>3, <3>1, <3>2 DEF Detached, Mapped, Filling
    <3> QED BY <1>2, <3>3 DEF Same, Pending
  <2>5. CASE Map!Create(q, r)
    <3>1. /\ sendq'[r] = <<>> /\ stash'[r] = None
          /\ \A s \in Records : s # r => stash'[s] = stash[s] /\ sendq'[s] = sendq[s]
      BY <1>0, <1>1, <1>4, <2>2, <2>5, QueuesOfNewRecord DEF Map!StashOf, Map!Create, Facts!TypeOK
    <3>2. /\ \A c \in Clients : Detached(c)' = Detached(c)
          /\ \A c \in Clients : c # q => Mapped(c)' = Mapped(c)
          /\ Mapped(q) = <<>> /\ Mapped(q)' = AsSeq(stash'[r]) \o sendq'[r]
      BY <1>0, <1>6, <2>3, <2>5, <3>1, NewRecord
    <3>3. Mapped(a)' = Mapped(a)
      BY <3>1, <3>2, NoPackets DEF AsSeq
    <3> QED BY <1>2, <3>2, <3>3 DEF Same, Pending
  <2> QED BY <2>2, <2>4, <2>5 DEF Map!Lookup
<1>5. \A a \in Clients : Same(a)
  BY <1>3, <1>4, <1>6 DEF GetChannels, Sites
<1> QED BY <1>0, <1>5, Stutters DEF Waiting

(* A query that arrives is the last one, and has the largest number.       *)
LEMMA ReceiveImplements ==
  ASSUME IInv, NEW a \in Clients, NEW fills \in BOOLEAN, ReceiveQuery(a, fills)
  PROVE  \/ \E q \in [id : 1..MaxQueries, client : Clients, fills : BOOLEAN] : Abstract!Accept(q)
         \/ UNCHANGED Abstract!vars
<1>0. Types /\ Numbered
  BY DEF IInv
<1>1. /\ UNCHANGED <<current, stash, sendq, ref, rec, nextRec, bundle, hand, pc, sent>>
      /\ queries \in Nat /\ queries' = queries + 1 /\ queries' \in 1..MaxQueries
  BY <1>0, BoundAssumption DEF ReceiveQuery, mapVars, Types
<1>2. \A c \in Clients : Same(c)
  BY <1>1, NothingMoves
<1>3. CASE ch' = ch
  BY <1>1, <1>2, <1>3, Stutters DEF Waiting
<1>4. ASSUME ch' = Append(ch, [id |-> queries', client |-> a, fills |-> fills])
      PROVE  \E q \in Queries : Abstract!Accept(q)
  <2>1. PICK q \in Queries : q = [id |-> queries', client |-> a, fills |-> fills]
    BY <1>1 DEF Queries
  <2>2. PICK s \in Seq(Queries) : s = AsSeq(rec) \o AsSeq(nextRec)
    BY <1>0, AsSeqType, ConcatProperties DEF Types
  <2>3. s \o Append(ch, q) = Append(s \o ch, q)
    BY <1>0, AppendToConcat DEF Types
  <2>4. Waiting' = Append(Waiting, q)
    BY <1>1, <1>4, <2>1, <2>2, <2>3 DEF Waiting
  <2>5. \A before \in Range(Waiting) : before.id < q.id
    <3>1. Range(Waiting) \subseteq Queries
      BY WaitingType, RangeOfSeq
    <3>2. \A before \in Range(Waiting) : before.id \in Nat /\ before.id <= queries
      BY <3>1, WaitingType DEF Queries
    <3> QED BY <1>1, <2>1, <3>2
  <2>6. \A before \in Range(sent) : before.id < q.id
    <3>1. \A before \in Range(sent) : before.id \in Nat /\ before.id <= queries
      <4>1. Range(sent) = {sent[i] : i \in 1..Len(sent)}
        BY <1>0, RangeEquality DEF Types
      <4>2. \A i \in 1..Len(sent) : sent[i] \in [id : 1..MaxQueries, packets : Seq(Packets)]
        BY <1>0, ElementOfSeq DEF Types
      <4>3. \A i \in 1..Len(sent) : sent[i].id \in Nat
        BY <4>2
      <4> QED BY <1>0, <4>1, <4>3 DEF Numbered
    <3> QED BY <1>1, <2>1, <3>1
  <2>7. Abstract!Accept(q)
    BY <1>1, <1>2, <2>4, <2>5, <2>6 DEF Abstract!Accept, Abstract!Range, Range, Same
  <2> QED BY <2>7
<1> QED BY <1>3, <1>4 DEF ReceiveQuery, Queries

LEMMA HeadFirst ==
  ASSUME NEW S, NEW s \in Seq(S), s # <<>>
  PROVE  <<Head(s)>> \o Tail(s) = s
<1>1. Head(s) \in S /\ Tail(s) \in Seq(S)
  BY HeadTailProperties
<1> QED BY <1>1

(* A query that comes out of the channel is still the first one waiting.   *)
LEMMA NextQueryStutters ==
  ASSUME IInv, NextQuery
  PROVE  UNCHANGED Abstract!vars
<1>0. /\ Types /\ rec = None /\ bundle = <<>> /\ hand = None /\ unstash = None /\ outgoing = None
      /\ UNCHANGED <<current, stash, sendq, ref, bundle, hand, sent>>
  BY NothingHeld DEF IInv, Places, NextQuery, mapVars
<1>1. ASSUME NEW c \in Clients PROVE Same(c)
  <2>1. Carried(c) = <<>> /\ Carried(c)' = <<>>
    BY <1>0, NoPackets DEF Carried, AsSeq
  <2>2. Detached(c) = <<>> /\ Detached(c)' = <<>>
    BY <1>0, NoPackets DEF Detached, Filling, unstash, outgoing
  <2>3. Mapped(c)' = Mapped(c)
    BY <1>0 DEF Mapped
  <2> QED BY <2>1, <2>2, <2>3 DEF Same, Pending
<1>2. Waiting' = Waiting
  <2>1. ch \in Seq(Queries) /\ AsSeq(nextRec) \in Seq(Queries)
    BY <1>0, AsSeqType DEF Types
  <2>2. Waiting = AsSeq(nextRec) \o ch
    <3>1. AsSeq(rec) \o AsSeq(nextRec) = AsSeq(nextRec)
      BY <1>0, <2>1, ConcatEmptySeq DEF AsSeq
    <3> QED BY <3>1 DEF Waiting
  <2>3. CASE nextRec # None
    <3>1. nextRec \in Queries /\ <<nextRec>> \o <<>> = <<nextRec>>
      BY <1>0, <2>3 DEF Types
    <3>2. rec' = nextRec /\ nextRec' = None /\ ch' = ch
      BY <2>3 DEF NextQuery
    <3> QED BY <2>2, <2>3, <3>1, <3>2 DEF Waiting, AsSeq
  <2>4. CASE nextRec = None
    <3>1. /\ ch # <<>> /\ rec' = Head(ch) /\ nextRec' = None /\ ch' = Tail(ch)
          /\ Head(ch) \in Queries /\ <<Head(ch)>> \o <<>> = <<Head(ch)>>
      BY <1>0, <2>1, <2>4, HeadTailProperties DEF NextQuery
    <3>2. rec' # None
      BY <3>1, MapAssumption
    <3>3. Waiting' = <<Head(ch)>> \o Tail(ch)
      BY <3>1, <3>2 DEF Waiting, AsSeq
    <3>4. Waiting = ch
      BY <2>1, <2>2, <2>4, ConcatEmptySeq DEF AsSeq
    <3> QED BY <2>1, <3>1, <3>3, <3>4, HeadFirst
  <2> QED BY <2>3, <2>4
<1> QED BY <1>0, <1>1, <1>2, Stutters

-----------------------------------------------------------------------------
(* The steps that take packets, or give them up.                           *)

(* Nothing is lost as long as no record has expired under sendLoop and     *)
(* none expires in this step.                                              *)
Quiet == \A a \in Clients :
           Detached(a) = <<>> /\ (current[a] # None => current'[a] = current[a])

Implements == [Abstract!LosslessNext]_(Abstract!vars) \/ (Abstract!Lose /\ ~Quiet)

Dropped(a) ==
  Shorter(a) /\ (Detached(a) # <<>> \/ (current[a] # None /\ current'[a] # current[a]))

LEMMA DropImplements ==
  ASSUME IInv, \A a \in Clients : Same(a) \/ Dropped(a), Waiting' = Waiting, sent' = sent
  PROVE  Implements
<1>1. \A a \in Clients : Same(a) => Shorter(a)
  BY PendingType, SubsequenceOfItself DEF Same, Shorter
<1>2. CASE \A a \in Clients : Same(a)
  BY <1>2, Stutters DEF Implements
<1>3. CASE \E a \in Clients : Dropped(a)
  <2>1. ~Quiet
    BY <1>3 DEF Dropped, Quiet
  <2>2. Abstract!Lose
    BY <1>1, Loses DEF Dropped
  <2> QED BY <2>1, <2>2 DEF Implements
<1> QED BY <1>2, <1>3

(* When sendLoop sends the response it drops what is left of the record    *)
(* that has expired under it.                                              *)
LEMMA DetachedDropped ==
  ASSUME IInv, NEW a \in Clients, pc' = "sending",
         UNCHANGED <<current, stash, sendq, ref, rec, bundle, hand>>
  PROVE  Same(a) \/ Dropped(a)
<1>1. /\ Carried(a)' = Carried(a) /\ Mapped(a)' = Mapped(a) /\ Detached(a)' = <<>>
  BY DEF Carried, Mapped, Detached, Filling
<1>2. PICK s, t, u \in Seq(Packets) : s = Carried(a) /\ t = Detached(a) /\ u = Mapped(a)
  BY PendingType
<1>3. Pending(a)' = (s \o <<>>) \o u /\ Pending(a) = (s \o t) \o u
  BY <1>1, <1>2 DEF Pending
<1>4. Pending(a)' = s \o u
  BY <1>2, <1>3, ConcatEmptySeq
<1>5. CASE t = <<>>
  BY <1>3, <1>5 DEF Same
<1>6. CASE t # <<>>
  BY <1>2, <1>3, <1>4, <1>6, SubsequenceDrop DEF Shorter, Dropped
<1> QED BY <1>5, <1>6

LEMMA NoPacketImplements ==
  ASSUME IInv, TakeNil \/ Wait \/ TimerFires \/ AnotherQuery
  PROVE  Implements
<1>0. /\ Types /\ Places
      /\ UNCHANGED <<current, stash, sendq, ref, rec, bundle, hand, sent>>
      /\ pc \in {"filling", "waiting"} /\ nextRec = None
  BY DEF IInv, TakeNil, Wait, TimerFires, AnotherQuery, Ready, mapVars, Places, Filled
<1>1. ASSUME NEW a \in Clients PROVE Same(a) \/ Dropped(a)
  <2>1. CASE pc' = "sending"
    BY <1>0, <2>1, DetachedDropped
  <2>2. CASE pc' = "waiting"
    BY <1>0, <2>2, NothingMoves
  <2> QED BY <2>1, <2>2 DEF TakeNil, Wait, TimerFires, AnotherQuery
<1>2. Waiting' = Waiting
  <2>1. CASE AnotherQuery
    <3>1. ch \in Seq(Queries) /\ ch # <<>> /\ nextRec' = Head(ch) /\ ch' = Tail(ch)
      BY <1>0, <2>1 DEF Types, AnotherQuery
    <3>2. nextRec' \in Queries /\ ch' \in Seq(Queries)
      BY <3>1, HeadTailProperties
    <3>3. PICK s \in Seq(Queries) : s = AsSeq(rec)
      BY <1>0, AsSeqType DEF Types
    <3>4. Waiting = s \o ch
      BY <1>0, <3>3, ConcatEmptySeq DEF Waiting, AsSeq
    <3>5. Waiting' = (s \o <<nextRec'>>) \o ch'
      BY <1>0, <3>2, <3>3, MapAssumption DEF Waiting, AsSeq
    <3>6. <<nextRec'>> \in Seq(Queries)
      BY <3>2
    <3>7. Waiting' = s \o (<<nextRec'>> \o ch')
      BY <3>2, <3>5, <3>6, ConcatAssociative
    <3> QED BY <3>1, <3>4, <3>7, HeadFirst
  <2>2. CASE TakeNil \/ Wait \/ TimerFires
    BY <2>2 DEF TakeNil, Wait, TimerFires, Waiting
  <2> QED BY <2>1, <2>2
<1> QED BY <1>0, <1>1, <1>2, DropImplements

LEMMA Reassociate ==
  ASSUME NEW S, NEW s \in Seq(S), NEW t \in Seq(S), NEW u \in Seq(S)
  PROVE  s \o (t \o u) = (s \o t) \o u
<1>1. (s \o t) \o u = s \o (t \o u)
  BY ConcatAssociative
<1> QED BY <1>1

LEMMA ReassociatePackets ==
  \A s, t, u \in Seq(Packets) : s \o (t \o u) = (s \o t) \o u
<1> TAKE s, t, u \in Seq(Packets)
<1>1. (s \o t) \o u = s \o (t \o u)
  BY ConcatAssociative
<1> QED BY <1>1

(* Concatenation under a name of its own: where it is left unexpanded, the *)
(* provers reason by the two facts that follow and nothing else.           *)
Cat(s, t) == s \o t

LEMMA CatAssociative ==
  \A s, t, u \in Seq(Packets) : Cat(s, Cat(t, u)) = Cat(Cat(s, t), u)
BY ReassociatePackets DEF Cat

LEMMA CatEmpty ==
  \A s \in Seq(Packets) : Cat(s, <<>>) = s
BY ConcatEmptySeq DEF Cat

(* The packet that is taken is the first one that is pending beyond the    *)
(* response, of the record held (d) or of the map's (m).  What does not    *)
(* fit stays in hand, and then d is out of reach.                          *)
LEMMA PackMoves ==
  ASSUME IInv, NEW q \in Clients, rec # None, rec.client = q, UNCHANGED rec,
         Ready({"filling", "waiting"}), NEW p \in Packets, Pack(p),
         NEW d \in Seq(Packets), NEW m \in Seq(Packets),
         NEW one \in Seq(Packets), one = AsSeq(p),
         \/ Detached(q) = one \o d /\ Mapped(q) = m
         \/ Detached(q) = <<>> /\ d = <<>> /\ Mapped(q) = one \o m,
         Mapped(q)' = m, pc' = "filling" => Detached(q)' = d
  PROVE  Same(q) \/ Dropped(q)
<1>0. Types /\ hand = None /\ bundle \in Seq(Packets) /\ p # None
  BY MapAssumption DEF IInv, Types, Places, Ready
<1>3. PICK b \in Seq(Packets) : b = bundle
  BY <1>0
<1>1. PICK x \in Seq(Packets) : x = bundle \o one
  BY <1>0, ConcatProperties
<1>2. Carried(q) = bundle
  BY <1>0, ConcatEmptySeq DEF Carried, AsSeq
<1>8. Carried(q)' = x
  <2>1. CASE bundle' = Append(bundle, p) /\ hand' = None
    <3>1. bundle' = x
      BY <1>0, <1>1, <2>1, AppendIsConcat DEF AsSeq
    <3> QED BY <2>1, <3>1, ConcatEmptySeq DEF Carried, AsSeq
  <2>2. CASE bundle' = bundle /\ hand' = p
    BY <1>0, <1>1, <2>2 DEF Carried, AsSeq
  <2> QED BY <1>0, <2>1, <2>2 DEF Pack
<1>4. Pending(q) = (x \o d) \o m
  <2>1. x = Cat(b, one)
    BY <1>1, <1>3 DEF Cat
  <2>2. Pending(q) = Cat(Cat(b, Detached(q)), Mapped(q))
    BY <1>2, <1>3 DEF Pending, Cat
  <2>3. Pending(q) = Cat(Cat(x, d), m)
    <3>1. CASE Detached(q) = Cat(one, d) /\ Mapped(q) = m
      BY <2>1, <2>2, <3>1, CatAssociative
    <3>2. CASE Detached(q) = <<>> /\ d = <<>> /\ Mapped(q) = Cat(one, m)
      BY <2>1, <2>2, <3>2, CatAssociative, CatEmpty
    <3> QED BY <3>1, <3>2 DEF Cat
  <2> QED BY <2>3 DEF Cat
<1>5. Pending(q)' = (x \o Detached(q)') \o m
  BY <1>8 DEF Pending
<1>6. CASE pc' = "filling"
  BY <1>4, <1>5, <1>6 DEF Same
<1>7. CASE pc' = "stashing"
  <2>1. Pending(q)' = x \o m
    <3>1. Detached(q)' = <<>>
      BY <1>7 DEF Detached, Filling
    <3> QED BY <1>5, <3>1, ConcatEmptySeq
  <2>2. Shorter(q)
    BY <1>4, <2>1, SubsequenceDrop DEF Shorter
  <2>3. CASE Detached(q) # <<>>
    BY <2>2, <2>3 DEF Dropped
  <2>4. CASE Detached(q) = <<>> /\ d = <<>>
    BY <1>4, <2>1, <2>4, ConcatEmptySeq DEF Same
  <2>5. one \o d # <<>>
    BY <1>0, ConcatEqualIffEmpty DEF AsSeq
  <2> QED BY <2>3, <2>4, <2>5
<1> QED BY <1>6, <1>7 DEF Pack

(* The others are not touched.                                             *)
LEMMA OthersKeep ==
  ASSUME IInv, NEW c \in Clients, rec # None, rec.client # c, UNCHANGED <<current, rec>>,
         current[c] # None => /\ stash'[current[c]] = stash[current[c]]
                              /\ sendq'[current[c]] = sendq[current[c]]
  PROVE  Same(c)
BY DEF Same, Pending, Carried, Detached, Mapped, Filling

LEMMA TakeStashedImplements ==
  ASSUME IInv, TakeStashed
  PROVE  Implements
<1>0. /\ Types /\ Facts!TypeOK /\ Channels
      /\ UNCHANGED <<current, ref, sendq, rec, nextRec, ch, sent>>
      /\ Ready({"filling", "waiting"}) /\ unstash # None /\ stash[unstash] # None
      /\ stash' = [stash EXCEPT ![unstash] = None]
  BY DEF IInv, Facts!IInv, TakeStashed, Map!TakeStash, Map!mapVars, Map!callerVars, unstash, Ready
<1>1. PICK q \in Clients, u \in Records : /\ q = rec.client /\ u = unstash /\ rec # None
                                          /\ \A b \in Clients : current[b] = u => b = q
  BY <1>0, HeldRecord DEF unstash, Sites
<1>2. PICK p \in Packets : p = stash[u] /\ Pack(p)
  BY <1>0, <1>1 DEF TakeStashed, Facts!TypeOK
<1>3. /\ stash'[u] = None /\ \A r \in Records : r # u => stash'[r] = stash[r]
      /\ current[q] \in Records \cup {None} /\ outgoing \in Records /\ u # None /\ outgoing # None
      /\ outgoing' = outgoing /\ unstash' = u
      /\ \A c \in Clients : current[c] \in Records \cup {None}
  BY <1>0, <1>1, MapAssumption DEF Facts!TypeOK, Ready, outgoing, unstash
<1>4. ASSUME NEW c \in Clients, c # q PROVE Same(c)
  BY <1>0, <1>1, <1>3, <1>4, OthersKeep
<1>5. PICK one \in Seq(Packets) : one = AsSeq(p)
  BY AsSeqType
<1>6. pc \in {"filling", "waiting"}
  BY <1>0 DEF Ready
<1>7. CASE u = current[q]
  <2>1. outgoing = u
    BY <1>0, <1>1, <1>3, <1>7 DEF Channels
  <2>2. PICK m \in Seq(Packets) : m = sendq[u]
    BY <1>0 DEF Types
  <2>3. Detached(q) = <<>> /\ Mapped(q) = one \o m
    BY <1>1, <1>2, <1>3, <1>5, <1>6, <1>7, <2>1, <2>2, NoPackets DEF Detached, Mapped, Filling
  <2>4. Mapped(q)' = m
    <3>1. <<>> \o m = m
      BY ConcatEmptySeq
    <3> QED BY <1>0, <1>3, <1>7, <2>2, <3>1 DEF Mapped, AsSeq
  <2>5. Detached(q)' = <<>>
    BY <1>0, <1>1, <1>3, <1>7, <2>1, NoPackets DEF Detached, Filling
  <2>6. <<>> \in Seq(Packets)
    BY EmptySeq
  <2>7. Same(q) \/ Dropped(q)
    BY <1>0, <1>1, <1>2, <1>5, <2>3, <2>4, <2>5, <2>6, PackMoves
  <2> QED BY <1>0, <1>4, <2>7, DropImplements DEF Waiting
<1>8. CASE u # current[q]
  <2>1. PICK d \in Seq(Packets) :
          d = IF outgoing \in {None, current[q]} THEN <<>> ELSE sendq[outgoing]
    BY <1>0, <1>3, EmptySeq DEF Types
  <2>2. PICK m \in Seq(Packets) : m = Mapped(q)
    BY PendingType
  <2>3. Detached(q) = one \o d
    BY <1>1, <1>2, <1>3, <1>5, <1>6, <1>8, <2>1 DEF Detached, Filling
  <2>4. Mapped(q)' = m
    BY <1>0, <1>3, <1>8, <2>2 DEF Mapped
  <2>5. pc' = "filling" => Detached(q)' = d
    <3>1. <<>> \o d = d
      BY ConcatEmptySeq
    <3> QED BY <1>0, <1>1, <1>3, <1>8, <2>1, <3>1 DEF Detached, Filling, AsSeq
  <2>6. Same(q) \/ Dropped(q)
    BY <1>0, <1>1, <1>2, <1>5, <2>2, <2>3, <2>4, <2>5, PackMoves
  <2> QED BY <1>0, <1>4, <2>6, DropImplements DEF Waiting
<1> QED BY <1>7, <1>8

LEMMA TakeQueuedImplements ==
  ASSUME IInv, TakeQueued
  PROVE  Implements
<1>0. /\ Types /\ Facts!TypeOK /\ Channels /\ StashEmpty
      /\ UNCHANGED <<current, ref, stash, rec, nextRec, ch, sent>>
      /\ Ready({"filling", "waiting"}) /\ unstash # None /\ outgoing # None
      /\ stash[unstash] = None /\ sendq[outgoing] # <<>>
      /\ sendq' = [sendq EXCEPT ![outgoing] = Tail(@)]
  BY DEF IInv, Facts!IInv, TakeQueued, mapVars, Ready
<1>1. PICK q \in Clients, o \in Records : /\ q = rec.client /\ o = outgoing /\ rec # None
                                          /\ \A b \in Clients : current[b] = o => b = q
  BY <1>0, HeldRecord DEF outgoing, Sites
<1>2. PICK p \in Packets, rest \in Seq(Packets) :
        p = Head(sendq[o]) /\ rest = Tail(sendq[o]) /\ Pack(p)
  BY <1>0, <1>1, HeadTailProperties DEF TakeQueued, Types
<1>3. /\ sendq'[o] = rest /\ \A r \in Records : r # o => sendq'[r] = sendq[r]
      /\ current[q] \in Records \cup {None} /\ unstash \in Records /\ o # None
      /\ outgoing' = o /\ unstash' = unstash
      /\ \A c \in Clients : current[c] \in Records \cup {None}
  BY <1>0, <1>1, <1>2, MapAssumption DEF Types, Facts!TypeOK, outgoing, unstash
<1>4. ASSUME NEW c \in Clients, c # q PROVE Same(c)
  BY <1>0, <1>1, <1>3, <1>4, OthersKeep
<1>5. PICK one \in Seq(Packets) : one = AsSeq(p)
  BY AsSeqType
<1>6. pc \in {"filling", "waiting"}
  BY <1>0 DEF Ready
<1>7. sendq[o] = one \o rest
  <2>1. sendq[o] \in Seq(Packets) /\ p # None
    BY <1>0, MapAssumption DEF Types
  <2>2. <<Head(sendq[o])>> \o Tail(sendq[o]) = sendq[o]
    BY <1>0, <1>1, <2>1, HeadFirst
  <2> QED BY <1>2, <1>5, <2>1, <2>2 DEF AsSeq
<1>8. \A s \in Seq(Packets) : <<>> \o s = s
  BY ConcatEmptySeq
<1>9. CASE o = current[q]
  <2>1. stash[o] = None
    BY <1>0, <1>1, <1>3, <1>6, <1>9 DEF StashEmpty, Filled
  <2>2. Detached(q) = <<>>
    BY <1>0, <1>1, <1>3, <1>9, NoPackets DEF Detached, Filling, AsSeq
  <2>3. Mapped(q) = one \o rest
    <3>1. sendq[o] \in Seq(Packets)
      BY <1>0 DEF Types
    <3> QED BY <1>3, <1>7, <1>8, <1>9, <2>1, <3>1 DEF Mapped, AsSeq
  <2>4. Mapped(q)' = rest
    BY <1>0, <1>3, <1>8, <1>9, <2>1 DEF Mapped, AsSeq
  <2>5. Detached(q)' = <<>>
    BY <1>0, <1>1, <1>3, <1>9, NoPackets DEF Detached, Filling, AsSeq
  <2>6. <<>> \in Seq(Packets)
    BY EmptySeq
  <2>7. Same(q) \/ Dropped(q)
    BY <1>0, <1>1, <1>2, <1>5, <2>2, <2>3, <2>4, <2>5, <2>6, PackMoves
  <2> QED BY <1>0, <1>4, <2>7, DropImplements DEF Waiting
<1>10. CASE o # current[q]
  <2>1. unstash # current[q]
    BY <1>0, <1>1, <1>3, <1>10 DEF Channels
  <2>2. Detached(q) = one \o rest
    <3>1. sendq[o] \in Seq(Packets)
      BY <1>0 DEF Types
    <3> QED BY <1>0, <1>1, <1>3, <1>6, <1>7, <1>8, <1>10, <2>1, <3>1 DEF Detached, Filling, AsSeq
  <2>3. PICK m \in Seq(Packets) : m = Mapped(q)
    BY PendingType
  <2>4. Mapped(q)' = m
    BY <1>0, <1>3, <1>10, <2>3 DEF Mapped
  <2>5. pc' = "filling" => Detached(q)' = rest
    BY <1>0, <1>1, <1>3, <1>8, <1>10, <2>1 DEF Detached, Filling, AsSeq
  <2>6. Same(q) \/ Dropped(q)
    BY <1>0, <1>1, <1>2, <1>5, <2>2, <2>3, <2>4, <2>5, PackMoves
  <2> QED BY <1>0, <1>4, <2>6, DropImplements DEF Waiting
<1> QED BY <1>9, <1>10

(* The packet that does not fit waits in the stash, which is empty: before *)
(* everything else that is pending in the map.                             *)
LEMMA StashImplements ==
  ASSUME IInv, StashPacket
  PROVE  UNCHANGED Abstract!vars
<1>0. /\ Types /\ Places /\ Facts!TypeOK /\ StashEmpty
      /\ UNCHANGED <<rec, nextRec, ch, bundle, sent>>
      /\ pc = "stashing" /\ pc' = "sending" /\ hand' = None /\ NewQueues
  BY DEF IInv, Facts!IInv, StashPacket
<1>1. PICK q \in Clients : q = rec.client /\ rec # None
  BY <1>0, MapAssumption DEF Types, Places, Queries, Filled
<1>2. PICK p \in Packets : p = hand /\ p # None
  BY <1>0, MapAssumption DEF Types, Places
<1>3. PICK r \in Records :
        Map!Lookup(q, r) /\ stash' = [stash EXCEPT ![r] = IF Map!StashOf(q) = None THEN p ELSE @]
  BY <1>1, <1>2 DEF StashPacket, Map!Stash
<1>4. Map!StashOf(q) = None
  BY <1>0, <1>1 DEF Map!StashOf, StashEmpty, Places, Filled
<1>5. stash'[r] = p /\ \A s \in Records : s # r => stash'[s] = stash[s]
  BY <1>0, <1>3, <1>4 DEF Facts!TypeOK
<1>6. /\ \A c \in Clients : Detached(c) = <<>> /\ Detached(c)' = <<>>
      /\ \A c \in Clients : c # q => Carried(c) = <<>> /\ Carried(c)' = <<>>
  BY <1>0, <1>1 DEF Detached, Filling, Carried
<1>7. /\ \A c \in Clients : c # q => Mapped(c)' = Mapped(c)
      /\ \E m \in Seq(Packets) : Mapped(q) = m /\ Mapped(q)' = AsSeq(p) \o m
  <2>0. \A c \in Clients : current[c] \in Records \cup {None}
    BY <1>0 DEF Facts!TypeOK
  <2>1. CASE Map!Found(q, r)
    <3>1. UNCHANGED <<current, sendq>> /\ current[q] = r /\ r # None
      BY <1>0, <2>1, QueuesOfNewRecord, MapAssumption DEF Map!Found
    <3>2. \A c \in Clients : c # q => current[c] # r
      BY <3>1 DEF IInv, Facts!IInv, Facts!RecordsUnshared
    <3>3. PICK m \in Seq(Packets) : m = sendq[r]
      BY <1>0 DEF Types
    <3>4. Mapped(q) = m
      <4>1. stash[r] = None /\ <<>> \o m = m
        BY <1>4, <3>1, ConcatEmptySeq DEF Map!StashOf
      <4> QED BY <3>1, <3>3, <4>1 DEF Mapped, AsSeq
    <3>5. Mapped(q)' = AsSeq(p) \o m
      BY <1>5, <3>1, <3>3 DEF Mapped
    <3>6. \A c \in Clients : c # q => Mapped(c)' = Mapped(c)
      BY <1>5, <2>0, <3>1, <3>2 DEF Mapped
    <3> QED BY <3>4, <3>5, <3>6
  <2>2. CASE Map!Create(q, r)
    <3>1. /\ current[q] = None /\ current'[q] = r /\ r # None
          /\ \A c \in Clients : current[c] # r /\ (c # q => current'[c] = current[c])
      BY <1>0, <2>2, MapAssumption DEF Map!Create, Map!Reachable, Facts!TypeOK
    <3>2. sendq'[r] = <<>> /\ \A s \in Records : s # r => sendq'[s] = sendq[s]
      BY <1>0, <2>2, QueuesOfNewRecord
    <3>3. Mapped(q) = <<>> /\ Mapped(q)' = AsSeq(p) \o <<>>
      BY <1>5, <3>1, <3>2 DEF Mapped
    <3>4. \A c \in Clients : c # q => Mapped(c)' = Mapped(c)
      BY <1>5, <2>0, <3>1, <3>2 DEF Mapped
    <3>5. <<>> \in Seq(Packets)
      BY EmptySeq
    <3> QED BY <3>3, <3>4, <3>5
  <2> QED BY <1>3, <2>1, <2>2 DEF Map!Lookup
<1>8. PICK m \in Seq(Packets) : Mapped(q) = m /\ Mapped(q)' = AsSeq(p) \o m
  BY <1>7
<1>9. PICK b \in Seq(Packets), one \in Seq(Packets) : b = bundle /\ one = AsSeq(p)
  BY <1>0, AsSeqType DEF Types
<1>10. Carried(q) = b \o one /\ Carried(q)' = b \o <<>>
  BY <1>0, <1>1, <1>2, <1>9 DEF Carried, AsSeq
<1>11. Same(q)
  <2>1. b \o one \in Seq(Packets)
    BY ConcatProperties
  <2>2. (b \o one) \o <<>> = b \o one /\ (b \o <<>>) \o <<>> = b
    BY <2>1, ConcatEmptySeq
  <2>3. b \o (one \o m) = (b \o one) \o m
    BY ReassociatePackets
  <2>4. Pending(q) = (b \o one) \o m
    BY <1>6, <1>8, <1>10, <2>2 DEF Pending
  <2>5. Pending(q)' = b \o (one \o m)
    BY <1>6, <1>8, <1>9, <1>10, <2>2 DEF Pending
  <2> QED BY <2>3, <2>4, <2>5 DEF Same
<1>12. \A c \in Clients : c # q => Same(c)
  BY <1>6, <1>7 DEF Same, Pending
<1> QED BY <1>0, <1>11, <1>12, Stutters DEF Waiting

(* The first packets and the others.                                       *)
LEMMA FirstPackets ==
  ASSUME NEW S, NEW s \in Seq(S), NEW t \in Seq(S)
  PROVE  SubSeq(s \o t, 1, Len(s)) = s
<1>1. s \o t \in Seq(S) /\ Len(s \o t) = Len(s) + Len(t)
      /\ \A i \in 1..Len(s) : (s \o t)[i] = s[i]
  BY ConcatProperties
<1>2. \A i \in 1..Len(s) : (s \o t)[i] \in S
  BY <1>1, ElementOfSeq
<1>3. /\ SubSeq(s \o t, 1, Len(s)) \in Seq(S)
      /\ Len(SubSeq(s \o t, 1, Len(s))) = Len(s)
      /\ \A i \in 1..Len(s) : SubSeq(s \o t, 1, Len(s))[i] = (s \o t)[i]
  BY <1>2, SubSeqProperties
<1> QED BY <1>1, <1>3, SeqEqual

LEMMA OtherPackets ==
  ASSUME NEW S, NEW s \in Seq(S), NEW t \in Seq(S)
  PROVE  SubSeq(s \o t, Len(s) + 1, Len(s \o t)) = t
<1>1. PICK m, n \in Nat : m = Len(s) /\ n = Len(t)
  BY LenProperties
<1>2. PICK u : u = s \o t
  OBVIOUS
<1>3. Len(u) = m + n /\ \A i \in 1..(m + n) : u[i] = IF i <= m THEN s[i] ELSE t[i - m]
  BY <1>1, <1>2, ConcatProperties
<1>4. \A i \in (m + 1)..(m + n) : u[i] = t[i - m] /\ i - m \in 1..n
  BY <1>3
<1>5. \A i \in (m + 1)..(m + n) : u[i] \in S
  BY <1>1, <1>4, ElementOfSeq
<1>6. PICK v : v = SubSeq(u, m + 1, m + n)
  OBVIOUS
<1>7. v \in Seq(S) /\ Len(v) = n /\ \A i \in 1..n : v[i] = u[m + 1 + i - 1]
  BY <1>5, <1>6, SubSeqProperties
<1>8. \A i \in 1..n : v[i] = t[i]
  <2>1. ASSUME NEW i \in 1..n PROVE v[i] = t[i]
    <3>1. PICK j \in 1..(m + n) : j = m + i /\ j = m + 1 + i - 1 /\ ~(j <= m) /\ j - m = i
      OBVIOUS
    <3>2. v[i] = u[j]
      BY <1>7, <3>1
    <3>3. u[j] = t[i]
      BY <1>3, <3>1
    <3> QED BY <3>2, <3>3
  <2> QED BY <2>1
<1> QED BY <1>1, <1>2, <1>3, <1>6, <1>7, <1>8, SeqEqual

(* The response carries the first packets of its client's queue, in answer *)
(* to the first query that waits.                                          *)
LEMMA AnswerImplements ==
  ASSUME IInv, SendResponse \/ SendFails
  PROVE  Abstract!Answer
<1>0. /\ Types /\ Places /\ Layout /\ pc = "sending" /\ pc' \in {"next", "returned"}
      /\ rec' = None /\ hand = None /\ rec # None
      /\ UNCHANGED <<current, stash, sendq, nextRec, ch>>
      /\ sent' \in {sent, Append(sent, [id |-> rec.id, packets |-> bundle])}
  BY DEF IInv, SendResponse, SendFails, Answered, Places
<1>1. PICK q \in Clients : q = rec.client
  BY <1>0 DEF Types, Queries
<1>2. PICK s, t \in Seq(Packets) : s = bundle /\ t = Mapped(q)
  BY <1>0, PendingType DEF Types
<1>3. ASSUME NEW c \in Clients
      PROVE  /\ Pending(c) = IF c = q THEN s \o t ELSE Mapped(c)
             /\ Pending(c)' = Mapped(c)
  <2>1. Detached(c) = <<>> /\ Detached(c)' = <<>> /\ Carried(c)' = <<>> /\ Mapped(c)' = Mapped(c)
    BY <1>0 DEF Detached, Filling, Carried, Mapped
  <2>2. PICK m \in Seq(Packets) : m = Mapped(c)
    BY PendingType
  <2>3. <<>> \o m = m /\ s \o <<>> = s
    BY ConcatEmptySeq
  <2>4. Carried(c) = IF c = q THEN s ELSE <<>>
    BY <1>0, <1>1, <1>2, <2>3 DEF Carried, AsSeq
  <2> QED BY <1>2, <2>1, <2>2, <2>3, <2>4, NoPackets DEF Pending
<1>4. Waiting # <<>> /\ Head(Waiting) = rec /\ Waiting' = Tail(Waiting)
  <2>1. PICK x, u, v \in Seq(Queries) : x = AsSeq(rec) /\ u = AsSeq(nextRec) /\ v = ch
    BY <1>0, AsSeqType DEF Types
  <2>2. Waiting = (x \o u) \o v /\ Waiting' = (<<>> \o u) \o v /\ x = <<rec>>
    BY <1>0, <2>1 DEF Waiting, AsSeq
  <2>3. x \o (u \o v) = (x \o u) \o v /\ u \o v \in Seq(Queries)
    <3>1. u \o v \in Seq(Queries)
      BY ConcatProperties
    <3>2. x \o (u \o v) = (x \o u) \o v
      BY Reassociate
    <3> QED BY <3>1, <3>2
  <2>4. <<>> \o u = u
    BY ConcatEmptySeq
  <2>5. PICK w \in Seq(Queries) : w = u \o v
    BY <2>3
  <2>6. Waiting = <<rec>> \o w /\ Waiting' = w
    BY <2>1, <2>2, <2>3, <2>4, <2>5
  <2>7. /\ <<rec>> \o w # <<>> /\ Head(<<rec>> \o w) = rec /\ Tail(<<rec>> \o w) = w
    <3>1. rec \in Queries
      BY <1>0 DEF Types
    <3> QED BY <3>1
  <2> QED BY <2>6, <2>7
<1>5. /\ SubSeq(s \o t, 1, Len(s)) = s /\ SubSeq(s \o t, Len(s) + 1, Len(s \o t)) = t
      /\ Len(s) \in 0..Len(s \o t)
  <2>1. Len(s \o t) = Len(s) + Len(t) /\ Len(s) \in Nat /\ Len(t) \in Nat
    BY ConcatProperties, LenProperties
  <2> QED BY <2>1, FirstPackets, OtherPackets
<1>6. Len(s) > 0 => rec.fills /\ Abstract!Fits(s)
  <2>1. ASSUME Len(s) > 0 PROVE rec.fills
    BY <1>0, <1>2, <2>1 DEF Places
  <2>2. ASSUME Len(s) > 1 PROVE Abstract!Fits(s)
    <3>1. PICK end \in [0..Len(s) -> Nat] : Ends(end)
      BY <1>0, <1>2 DEF Layout
    <3>2. /\ end[0] = 0 /\ \A i \in 1..Len(s) : end[i] = end[i - 1] + Weight[s[i]]
          /\ \A i \in 0..Len(s) : end[i] <= end[Len(s)]
          /\ end[Len(s)] <= MaxEncoded
      BY <1>2, <2>2, <3>1 DEF Ends
    <3>3. Len(s) \in 0..Len(s) /\ end[Len(s)] \in Nat
      BY <3>1, LenProperties
    <3>4. end \in [0..Len(s) -> 0..MaxEncoded]
      BY <3>1, <3>2, <3>3, WeightAssumption
    <3> QED BY <3>2, <3>4 DEF Abstract!Fits
  <2>3. ASSUME Len(s) <= 1 PROVE Abstract!Fits(s)
    BY <2>3 DEF Abstract!Fits
  <2>4. Len(s) \in Nat
    BY LenProperties
  <2> QED BY <2>1, <2>2, <2>3, <2>4
<1> DEFINE before == [c \in Clients |-> Pending(c)]
           after == [c \in Clients |-> Mapped(c)]
<1>7. /\ before[q] = s \o t
      /\ after = [before EXCEPT ![q] = SubSeq(s \o t, Len(s) + 1, Len(s \o t))]
  BY <1>2, <1>3, <1>5
<1>8. [c \in Clients |-> Pending(c)]' = after
  BY <1>3
<1> HIDE DEF before, after
<1>9. /\ Len(s) \in 0..Len(before[q])
      /\ Len(s) > 0 => rec.fills /\ Abstract!Fits(SubSeq(before[q], 1, Len(s)))
      /\ after = [before EXCEPT ![q] = SubSeq(before[q], Len(s) + 1, Len(before[q]))]
      /\ \/ sent' = Append(sent, [id |-> rec.id, packets |-> SubSeq(before[q], 1, Len(s))])
         \/ sent' = sent
  BY <1>0, <1>2, <1>5, <1>6, <1>7
<1> QED BY <1>1, <1>4, <1>8, <1>9 DEF Abstract!Answer, before

(* With the record of a peer that expires go its packets, except those     *)
(* that sendLoop can still reach: some of them, in their order.            *)
LEMMA SomeRemain ==
  ASSUME NEW S, NEW c \in Seq(S), NEW d \in Seq(S), NEW m \in Seq(S), NEW left \in Seq(S),
         Abstract!Subsequence(left, m)
  PROVE  Abstract!Subsequence((c \o (d \o left)) \o <<>>, (c \o d) \o m)
<1>1. PICK x \in Seq(S) : x = c \o d
  BY ConcatProperties
<1>2. Abstract!Subsequence(x, x)
  BY SubsequenceOfItself
<1>3. Abstract!Subsequence(x \o left, x \o m)
  BY <1>2, SubsequenceConcat
<1>4. c \o (d \o left) = x \o left
  BY <1>1, Reassociate
<1>5. x \o left \in Seq(S)
  BY ConcatProperties
<1>6. (c \o (d \o left)) \o <<>> = x \o left
  BY <1>4, <1>5, ConcatEmptySeq
<1> QED BY <1>1, <1>3, <1>6

LEMMA ExpiredDropped ==
  ASSUME IInv, NEW a \in Clients, current[a] # None, current'[a] = None,
         UNCHANGED <<stash, sendq, ref, rec, bundle, hand, pc>>
  PROVE  Dropped(a)
<1>0. Types /\ Facts!TypeOK /\ Channels
  BY DEF IInv, Facts!IInv
<1>1. PICK r \in Records : r = current[a] /\ r # None
  BY <1>0 DEF Facts!TypeOK
<1>2. PICK s, queue, m \in Seq(Packets) : /\ s = AsSeq(stash[r]) /\ queue = sendq[r]
                                          /\ m = s \o queue
  <2>1. PICK s, queue \in Seq(Packets) : s = AsSeq(stash[r]) /\ queue = sendq[r]
    BY <1>0, AsSeqType DEF Types, Facts!TypeOK
  <2> QED BY <2>1, ConcatProperties
<1>3. Mapped(a) = m /\ Mapped(a)' = <<>> /\ Carried(a)' = Carried(a)
  BY <1>1, <1>2 DEF Mapped, Carried
<1>4. PICK c, d \in Seq(Packets) : c = Carried(a) /\ d = Detached(a)
  BY PendingType
<1>5. \E left \in Seq(Packets) : Abstract!Subsequence(left, m) /\ Detached(a)' = d \o left
  <2>0. /\ \A x \in Seq(Packets) : x \o <<>> = x /\ <<>> \o x = x
        /\ <<>> \in Seq(Packets) /\ Abstract!Subsequence(<<>>, m) /\ d \o <<>> = d
    BY ConcatEmptySeq, EmptySeq, SubsequenceEmpty
  <2>1. CASE ~Filling(a) \/ unstash = None
    <3>1. Detached(a)' = <<>> /\ d = <<>>
      BY <1>0, <1>4, <2>1, NoPackets DEF Detached, Filling, Channels, unstash, outgoing
    <3> QED BY <2>0, <3>1
  <2>2. CASE Filling(a) /\ unstash = r
    <3>1. outgoing \in {None, r}
      BY <1>0, <1>1, <2>2 DEF Channels, Filling
    <3>2. d = <<>>
      BY <1>1, <1>4, <2>2, <3>1, NoPackets DEF Detached
    <3>3. Detached(a)' = s \o IF outgoing = None THEN <<>> ELSE queue
      BY <1>1, <1>2, <2>2, <3>1 DEF Detached, Filling, unstash, outgoing
    <3>4. Abstract!Subsequence(s, s) /\ Abstract!Subsequence(<<>>, queue)
      BY SubsequenceOfItself, SubsequenceEmpty
    <3>5. Abstract!Subsequence(s \o <<>>, m) /\ Abstract!Subsequence(m, m)
      BY <1>2, <2>0, <3>4, SubsequenceConcat, SubsequenceOfItself
    <3>6. Abstract!Subsequence(s, m)
      BY <2>0, <3>5
    <3>7. Detached(a)' \in {s, m}
      BY <1>2, <2>0, <3>3
    <3> QED BY <2>0, <3>2, <3>5, <3>6, <3>7
  <2>3. CASE Filling(a) /\ unstash # None /\ unstash # r
    <3>1. PICK x \in Seq(Packets) : x = AsSeq(stash[unstash])
      BY <1>0, <2>3, AsSeqType DEF Facts!TypeOK, unstash
    <3>2. CASE outgoing = r
      <4>1. d = x /\ Detached(a)' = x \o queue
        BY <1>1, <1>2, <1>4, <2>0, <2>3, <3>1, <3>2 DEF Detached, Filling, unstash, outgoing
      <4>2. Abstract!Subsequence(<<>>, s) /\ Abstract!Subsequence(queue, queue)
        BY SubsequenceOfItself, SubsequenceEmpty
      <4>3. Abstract!Subsequence(<<>> \o queue, m)
        BY <1>2, <2>0, <4>2, SubsequenceConcat
      <4>4. Abstract!Subsequence(queue, m)
        BY <2>0, <4>3
      <4> QED BY <4>1, <4>4
    <3>3. CASE outgoing # r
      <4>1. Detached(a)' = d
        BY <1>1, <1>4, <2>3, <3>3 DEF Detached, Filling, unstash, outgoing
      <4> QED BY <2>0, <4>1
    <3> QED BY <3>2, <3>3
  <2> QED BY <2>1, <2>2, <2>3
<1>6. PICK left \in Seq(Packets) : Abstract!Subsequence(left, m) /\ Detached(a)' = d \o left
  BY <1>5
<1>7. Pending(a)' = (c \o (d \o left)) \o <<>> /\ Pending(a) = (c \o d) \o m
  BY <1>3, <1>4, <1>6 DEF Pending
<1>8. Shorter(a)
  BY <1>6, <1>7, SomeRemain DEF Shorter
<1> QED BY <1>8 DEF Dropped

LEMMA ExpiryImplements ==
  ASSUME IInv, Expiry
  PROVE  Implements
<1>0. UNCHANGED <<stash, sendq, ref, rec, nextRec, ch, bundle, hand, pc, sent>>
  BY DEF Expiry, Map!ReadTime, Map!RemoveExpired, Map!Tick, Map!callerVars, loopVars
<1>1. ASSUME NEW a \in Clients PROVE Same(a) \/ Dropped(a)
  <2>1. CASE current'[a] = current[a]
    BY <1>0, <2>1 DEF Same, Pending, Carried, Detached, Mapped, Filling, unstash, outgoing
  <2>2. CASE current'[a] # current[a]
    <3>1. current'[a] = None
      BY <2>2 DEF Expiry, Map!ReadTime, Map!mapVars, Map!RemoveExpired, Map!Tick
    <3> QED BY <1>0, <2>2, <3>1, ExpiredDropped
  <2> QED BY <2>1, <2>2
<1> QED BY <1>0, <1>1, DropImplements DEF Waiting

-----------------------------------------------------------------------------
(* Every step of the server is one the queues allow, or none they see.     *)

LEMMA InitImplements == Init => Abstract!Init
<1> SUFFICES ASSUME Init PROVE Abstract!Init
  OBVIOUS
<1>1. ASSUME NEW a \in Clients PROVE Pending(a) = <<>>
  BY <1>1, NoPackets DEF Init, Map!Init, Pending, Carried, Detached, Mapped, Filling
<1>2. Waiting = <<>>
  BY NoPackets DEF Init, Waiting, AsSeq
<1> QED BY <1>1, <1>2 DEF Init, Abstract!Init

LEMMA StepImplements == IInv /\ [Next]_vars => Implements
<1> SUFFICES ASSUME IInv, [Next]_vars PROVE Implements
  OBVIOUS
<1>1. ASSUME NEW a \in Clients, NEW fills \in BOOLEAN, ReceiveQuery(a, fills) PROVE Implements
  BY <1>1, ReceiveImplements DEF Implements, Abstract!LosslessNext
<1>2. ASSUME NEW a \in Clients, KcpWrite(a) PROVE Implements
  <2>1. written' \in Packets
    BY <1>2, BoundAssumption DEF KcpWrite, Packets, IInv, Types
  <2> QED BY <1>2, <2>1, WriteImplements DEF Implements, Abstract!LosslessNext
<1>3. NextQuery => Implements
  BY NextQueryStutters DEF Implements
<1>4. GetChannels => Implements
  BY GetChannelsStutters DEF Implements
<1>5. TakeStashed \/ TakeQueued => Implements
  BY TakeStashedImplements, TakeQueuedImplements
<1>6. TakeNil \/ Wait \/ TimerFires \/ AnotherQuery => Implements
  BY NoPacketImplements
<1>7. StashPacket => Implements
  BY StashImplements DEF Implements
<1>8. SendResponse \/ SendFails => Implements
  BY AnswerImplements DEF Implements, Abstract!LosslessNext
<1>9. Expiry => Implements
  BY ExpiryImplements
<1>10. ASSUME UNCHANGED vars PROVE Implements
  <2>1. UNCHANGED <<current, stash, sendq, ref, rec, nextRec, ch, bundle, hand, pc, sent>>
    BY <1>10 DEF vars, mapVars, loopVars
  <2>2. \A a \in Clients : Same(a)
    BY <2>1, NothingMoves
  <2> QED BY <2>1, <2>2, Stutters DEF Implements, Waiting
<1> QED BY <1>1, <1>2, <1>3, <1>4, <1>5, <1>6, <1>7, <1>8, <1>9, <1>10 DEF Next, SendLoop

(* The two loops keep the promise of module Downstream, with any number of *)
(* clients, any sizes and any timing of the expiry goroutine: responses    *)
(* carry each client's packets in the order KCP wrote them, none twice,    *)
(* and answer the queries in the order they came.                          *)
THEOREM QueuesAreKept == Spec => ImplementsDownstream
<1>1. Implements => [Abstract!Next]_(Abstract!vars)
  BY DEF Implements, Abstract!Next
<1> QED BY <1>1, InitSafe, NextSafe, InitImplements, StepImplements, PTL
        DEF Spec, ImplementsDownstream, Abstract!Spec

(* No packet is lost but with the record of a peer that expires, or has    *)
(* expired while sendLoop was filling the response to its query.           *)
THEOREM OnlyExpiryLosesPackets == Spec => LossOnlyByExpiry
<1>1. ASSUME IInv, [Next]_vars
      PROVE  (\A a \in Clients :
                Detached(a) = <<>> /\ (current[a] # None => current'[a] = current[a]))
             => [Abstract!LosslessNext]_(Abstract!vars)
  BY <1>1, StepImplements DEF Implements, Quiet
<1> QED BY <1>1, InitSafe, NextSafe, PTL DEF Spec, LossOnlyByExpiry

-----------------------------------------------------------------------------
(* The heap: what a heap is, and what it holds.                            *)
Peers == Clients \cup {Another}
Entries == [addr : Peers, rec : Records, seen : Nat]
Indexes == UNION {[D -> Nat] : D \in SUBSET Peers}
Heaps == [byAge : Seq(Entries), byAddr : Indexes]

(* Every entry's address has the entry's index, and nothing else has one.  *)
Indexed(h) ==
  /\ h \in Heaps
  /\ \A a \in DOMAIN h.byAddr :
       h.byAddr[a] \in 0..(Len(h.byAge) - 1) /\ h.byAge[h.byAddr[a] + 1].addr = a
  /\ \A k \in 1..Len(h.byAge) :
       h.byAge[k].addr \in DOMAIN h.byAddr /\ h.byAddr[h.byAge[k].addr] = k - 1

EntryOf(h, a) == h.byAge[h.byAddr[a] + 1]

(* Nothing has changed but the places of the entries.                      *)
SameEntries(h, g) ==
  /\ Len(g.byAge) = Len(h.byAge)
  /\ DOMAIN g.byAddr = DOMAIN h.byAddr
  /\ \A a \in DOMAIN h.byAddr : EntryOf(g, a) = EntryOf(h, a)

LEMMA SameTrans ==
  ASSUME NEW f, NEW g, NEW h, SameEntries(f, g), SameEntries(g, h)
  PROVE  SameEntries(f, h)
BY DEF SameEntries

LEMMA HeapTypes ==
  ASSUME NEW h, Indexed(h)
  PROVE  /\ h.byAge \in Seq(Entries) /\ Len(h.byAge) \in Nat
         /\ \A k \in 1..Len(h.byAge) : h.byAge[k] \in Entries /\ h.byAge[k].seen \in Nat
         /\ h.byAddr \in [DOMAIN h.byAddr -> Nat] /\ DOMAIN h.byAddr \subseteq Peers
<1>1. h.byAge \in Seq(Entries) /\ h.byAddr \in Indexes
  BY DEF Indexed, Heaps
<1>2. \A k \in 1..Len(h.byAge) : h.byAge[k] \in Entries
  BY <1>1
<1>3. \A k \in 1..Len(h.byAge) : h.byAge[k].seen \in Nat
  BY <1>2 DEF Entries
<1>4. PICK D \in SUBSET Peers : h.byAddr \in [D -> Nat]
  BY <1>1 DEF Indexes
<1> QED BY <1>1, <1>2, <1>3, <1>4

LEMMA IndexOf ==
  ASSUME NEW h, Indexed(h), NEW a \in DOMAIN h.byAddr
  PROVE  /\ h.byAddr[a] \in 0..(Len(h.byAge) - 1) /\ h.byAddr[a] \in Nat
         /\ h.byAddr[a] + 1 \in 1..Len(h.byAge) /\ h.byAge[h.byAddr[a] + 1].addr = a
<1>1. Len(h.byAge) \in Nat
  BY HeapTypes
<1>2. h.byAddr[a] \in 0..(Len(h.byAge) - 1) /\ h.byAge[h.byAddr[a] + 1].addr = a
  BY DEF Indexed
<1> QED BY <1>1, <1>2

(* heap.Interface's Swap.                                                  *)
Exchanged(h, g, i, j) ==
  \A k \in 1..Len(h.byAge) :
    g.byAge[k] = IF k = i + 1 THEN h.byAge[j + 1]
                 ELSE IF k = j + 1 THEN h.byAge[i + 1] ELSE h.byAge[k]

LEMMA Swapped ==
  ASSUME NEW h, Indexed(h),
         NEW i \in 0..(Len(h.byAge) - 1), NEW j \in 0..(Len(h.byAge) - 1)
  PROVE  /\ Indexed(Heap!Swap(h, i, j))
         /\ SameEntries(h, Heap!Swap(h, i, j))
         /\ Exchanged(h, Heap!Swap(h, i, j), i, j)
<1> DEFINE g == Heap!Swap(h, i, j)
           n == Len(h.byAge)
           s == [h.byAge EXCEPT ![i + 1] = h.byAge[j + 1], ![j + 1] = h.byAge[i + 1]]
<1>0. /\ h.byAge \in Seq(Entries) /\ n \in Nat
      /\ \A k \in 1..n : h.byAge[k] \in Entries
      /\ h.byAddr \in [DOMAIN h.byAddr -> Nat] /\ DOMAIN h.byAddr \subseteq Peers
  BY HeapTypes
<1>1. i + 1 \in 1..n /\ j + 1 \in 1..n /\ i \in Nat /\ j \in Nat
  BY <1>0
<1>2. s \in Seq(Entries) /\ Len(s) = n
  <2> DEFINE r == [h.byAge EXCEPT ![i + 1] = h.byAge[j + 1]]
  <2>1. r \in Seq(Entries) /\ Len(r) = n
    BY <1>0, <1>1, ExceptSeq
  <2>2. [r EXCEPT ![j + 1] = h.byAge[i + 1]] \in Seq(Entries)
    /\ Len([r EXCEPT ![j + 1] = h.byAge[i + 1]]) = n
    <3> HIDE DEF r
    <3> QED BY <2>1, <1>0, <1>1, ExceptSeq
  <2>3. s = [r EXCEPT ![j + 1] = h.byAge[i + 1]]
    OBVIOUS
  <2> QED BY <2>2, <2>3
<1>3. \A k \in 1..n : s[k] = IF k = i + 1 THEN h.byAge[j + 1]
                             ELSE IF k = j + 1 THEN h.byAge[i + 1] ELSE h.byAge[k]
  BY <1>0, <1>1
<1> HIDE DEF s
<1>4. /\ g.byAge = s
      /\ g.byAddr = [h.byAddr EXCEPT ![s[i + 1].addr] = i, ![s[j + 1].addr] = j]
  BY DEF Heap!Swap, Heap!At, s
<1>5. g = [byAge |-> s, byAddr |-> [h.byAddr EXCEPT ![s[i + 1].addr] = i, ![s[j + 1].addr] = j]]
  BY DEF Heap!Swap, Heap!At, s
<1> HIDE DEF g
<1>6. \A k \in 1..n : h.byAge[k].addr \in DOMAIN h.byAddr /\ h.byAddr[h.byAge[k].addr] = k - 1
  BY DEF Indexed
<1>6a. ASSUME NEW k \in 1..n, NEW l \in 1..n, h.byAge[k].addr = h.byAge[l].addr
       PROVE  k = l
  <2>1. h.byAddr[h.byAge[k].addr] = k - 1 /\ h.byAddr[h.byAge[l].addr] = l - 1
    BY <1>6
  <2>2. k - 1 = l - 1
    BY <2>1, <1>6a
  <2> QED BY <2>2
<1>7. \A k \in 1..n : s[k].addr \in DOMAIN h.byAddr
  BY <1>1, <1>3, <1>6
<1>8. g.byAddr \in [DOMAIN h.byAddr -> Nat]
  BY <1>0, <1>1, <1>4, <1>7
<1>9. DOMAIN g.byAddr = DOMAIN h.byAddr
  BY <1>8
<1>10. g \in Heaps
  BY <1>0, <1>2, <1>4, <1>5, <1>8 DEF Heaps, Indexes
<1>11. \A a \in DOMAIN h.byAddr :
         g.byAddr[a] = IF a = h.byAge[i + 1].addr THEN j
                       ELSE IF a = h.byAge[j + 1].addr THEN i ELSE h.byAddr[a]
  <2>1. s[i + 1] = h.byAge[j + 1] /\ s[j + 1] = h.byAge[i + 1]
    BY <1>1, <1>3
  <2> QED BY <1>0, <1>4, <2>1
<1>12. \A a \in DOMAIN h.byAddr : s[g.byAddr[a] + 1] = h.byAge[h.byAddr[a] + 1]
  <2> SUFFICES ASSUME NEW a \in DOMAIN h.byAddr
               PROVE  s[g.byAddr[a] + 1] = h.byAge[h.byAddr[a] + 1]
    OBVIOUS
  <2>1. h.byAddr[a] + 1 \in 1..n /\ h.byAge[h.byAddr[a] + 1].addr = a
    BY IndexOf
  <2>2. CASE a = h.byAge[i + 1].addr
    <3>1. h.byAddr[a] = (i + 1) - 1 /\ (i + 1) - 1 = i
      BY <2>2, <1>1, <1>6
    <3>2. g.byAddr[a] = j
      BY <2>2, <1>11
    <3>3. s[j + 1] = h.byAge[i + 1]
      BY <1>1, <1>3
    <3> QED BY <3>1, <3>2, <3>3
  <2>3. CASE a # h.byAge[i + 1].addr /\ a = h.byAge[j + 1].addr
    <3>1. g.byAddr[a] = i /\ h.byAddr[a] = j
      BY <2>3, <1>1, <1>6, <1>11
    <3> QED BY <3>1, <1>1, <1>3
  <2>4. CASE a # h.byAge[i + 1].addr /\ a # h.byAge[j + 1].addr
    BY <2>1, <2>4, <1>1, <1>3, <1>11
  <2> QED BY <2>2, <2>3, <2>4
<1>13. \A a \in DOMAIN h.byAddr : g.byAddr[a] \in 0..(n - 1)
  BY <1>0, <1>11 DEF Indexed
<1>14. \A k \in 1..n : g.byAddr[s[k].addr] = k - 1
  <2> SUFFICES ASSUME NEW k \in 1..n PROVE g.byAddr[s[k].addr] = k - 1
    OBVIOUS
  <2>1. \A l \in 1..n : h.byAge[k].addr = h.byAge[l].addr => k = l
    BY <1>6a
  <2>2. CASE k = i + 1
    <3>1. s[k] = h.byAge[j + 1] /\ h.byAge[j + 1].addr \in DOMAIN h.byAddr
      BY <2>2, <1>1, <1>3, <1>6
    <3>2. CASE h.byAge[j + 1].addr = h.byAge[i + 1].addr
      <4>1. j = i
        BY <3>2, <1>1, <1>6a
      <4> QED BY <4>1, <3>1, <3>2, <2>2, <1>1, <1>11
    <3>3. CASE h.byAge[j + 1].addr # h.byAge[i + 1].addr
      BY <3>1, <3>3, <2>2, <1>1, <1>11
    <3> QED BY <3>2, <3>3
  <2>3. CASE k # i + 1 /\ k = j + 1
    BY <2>3, <1>1, <1>3, <1>6, <1>11, <1>0
  <2>4. CASE k # i + 1 /\ k # j + 1
    <3>1. s[k] = h.byAge[k] /\ h.byAge[k].addr \in DOMAIN h.byAddr
      BY <2>4, <1>3, <1>6
    <3>2. h.byAge[k].addr # h.byAge[i + 1].addr /\ h.byAge[k].addr # h.byAge[j + 1].addr
      BY <2>1, <2>4, <1>1
    <3>3. g.byAddr[h.byAge[k].addr] = h.byAddr[h.byAge[k].addr]
      BY <3>1, <3>2, <1>11
    <3> QED BY <3>1, <3>3, <1>6
  <2> QED BY <2>2, <2>3, <2>4
<1>15. Indexed(g)
  <2>1. \A a \in DOMAIN h.byAddr : h.byAge[h.byAddr[a] + 1].addr = a
    BY IndexOf
  <2>2. \A a \in DOMAIN g.byAddr : g.byAddr[a] \in 0..(n - 1) /\ s[g.byAddr[a] + 1].addr = a
    BY <1>9, <1>12, <1>13, <2>1
  <2>3. \A k \in 1..n : s[k].addr \in DOMAIN g.byAddr /\ g.byAddr[s[k].addr] = k - 1
    BY <1>7, <1>9, <1>14
  <2>4. g.byAge = s /\ Len(s) = n
    BY <1>2, <1>4
  <2> QED BY <1>10, <2>2, <2>3, <2>4 DEF Indexed
<1>16. SameEntries(h, g)
  BY <1>2, <1>4, <1>9, <1>12 DEF SameEntries, EntryOf
<1>17. Exchanged(h, g, i, j)
  BY <1>3, <1>4 DEF Exchanged
<1> QED BY <1>15, <1>16, <1>17 DEF g

-----------------------------------------------------------------------------
(* The order of the heap, in the first n places.                           *)
Child(p, c) == c = 2 * p + 1 \/ c = 2 * p + 2

Seens(h, n) == [k \in 0..(n - 1) |-> h.byAge[k + 1].seen]

InOrder(v, n) == \A p, c \in 0..(n - 1) : Child(p, c) => v[p] <= v[c]

(* The time at i may be too late for that place, and nothing else is       *)
(* wrong.                                                                  *)
OrderedBut(v, n, i) ==
  /\ \A p, c \in 0..(n - 1) : Child(p, c) /\ p # i => v[p] <= v[c]
  /\ \A p, c \in 0..(n - 1) : Child(p, i) /\ Child(i, c) => v[p] <= v[c]

(* The smaller child takes the place.                                      *)
LEMMA OrderSinks ==
  ASSUME NEW n \in Nat, NEW v \in [0..(n - 1) -> Nat], NEW w \in [0..(n - 1) -> Nat],
         NEW i \in 0..(n - 1), NEW j \in 0..(n - 1), Child(i, j), OrderedBut(v, n, i),
         v[j] < v[i], \A c \in 0..(n - 1) : Child(i, c) => v[j] <= v[c],
         w[i] = v[j], w[j] = v[i], \A k \in 0..(n - 1) : k # i /\ k # j => w[k] = v[k]
  PROVE  OrderedBut(w, n, j)
<1>1. i < j /\ i \in Nat /\ j \in Nat
  BY DEF Child
<1>2. ASSUME NEW p \in 0..(n - 1), NEW c \in 0..(n - 1), Child(p, c), p # j
      PROVE  w[p] <= w[c]
  <2>1. p < c
    BY <1>2 DEF Child
  <2>2. CASE p = i /\ c = j
    BY <2>2
  <2>3. CASE p = i /\ c # j
    <3>1. c # i /\ v[j] <= v[c]
      BY <2>1, <2>3, <1>2
    <3> QED BY <2>3, <3>1
  <2>4. CASE p # i /\ c = i
    <3>1. v[p] <= v[j]
      BY <2>4, <1>2 DEF OrderedBut
    <3> QED BY <2>4, <3>1, <1>2
  <2>5. CASE p # i /\ c = j
    BY <2>5, <1>2 DEF Child
  <2>6. CASE p # i /\ c # i /\ c # j
    <3>1. v[p] <= v[c]
      BY <2>6, <1>2 DEF OrderedBut
    <3> QED BY <2>6, <3>1, <1>2
  <2> QED BY <2>2, <2>3, <2>4, <2>5, <2>6
<1>3. ASSUME NEW p \in 0..(n - 1), NEW c \in 0..(n - 1), Child(p, j), Child(j, c)
      PROVE  w[p] <= w[c]
  <2>1. p = i /\ c # i /\ c # j
    BY <1>1, <1>3 DEF Child
  <2>2. v[j] <= v[c]
    BY <1>1, <1>3 DEF OrderedBut
  <2> QED BY <2>1, <2>2
<1> QED BY <1>2, <1>3 DEF OrderedBut

(* The first entry of a heap has been unseen for longest.                  *)
LEMMA RootIsLeast ==
  ASSUME NEW n \in Nat, NEW v \in [0..(n - 1) -> Nat], InOrder(v, n), NEW k \in 0..(n - 1)
  PROVE  v[0] <= v[k]
<1> DEFINE Early == {l \in 0..(n - 1) : v[l] < v[0]}
<1> SUFFICES ASSUME Early # {} PROVE FALSE
  OBVIOUS
<1>1. Early \in SUBSET Nat
  OBVIOUS
<1>2. PICK m \in Early : \A l \in Early : m <= l
  <2> HIDE DEF Early
  <2> QED BY <1>1, Least
<1>3. m \in 0..(n - 1) /\ v[m] < v[0] /\ m # 0
  OBVIOUS
<1>4. PICK p \in 0..(n - 1) : Child(p, m)
  <2>1. (m - 1) \div 2 \in 0..(n - 1) /\ Child((m - 1) \div 2, m)
    BY <1>3 DEF Child
  <2> QED BY <2>1
<1>5. v[p] <= v[m] /\ p < m
  BY <1>3, <1>4 DEF InOrder, Child
<1>6. p \in Early
  BY <1>3, <1>5
<1> QED BY <1>2, <1>3, <1>5, <1>6

-----------------------------------------------------------------------------
(* container/heap's down: the states of its loop, started on heap h at i.  *)
Sinking(h, n, i) ==
  {s \in [heap : Heaps, at : Nat] :
     /\ Indexed(s.heap) /\ SameEntries(h, s.heap)
     /\ \A k \in n..(Len(h.byAge) - 1) : s.heap.byAge[k + 1] = h.byAge[k + 1]
     /\ s.at >= i /\ (s.at = i => s.heap = h)
     /\ OrderedBut(Seens(s.heap, n), n, s.at)}

LEMMA SeensType ==
  ASSUME NEW h, Indexed(h), NEW n \in 0..Len(h.byAge)
  PROVE  /\ n \in Nat /\ Len(h.byAge) \in Nat /\ Seens(h, n) \in [0..(n - 1) -> Nat]
         /\ \A k \in 0..(n - 1) : Seens(h, n)[k] = Heap!At(h, k).seen
<1>1. Len(h.byAge) \in Nat /\ \A k \in 1..Len(h.byAge) : h.byAge[k].seen \in Nat
  BY HeapTypes
<1>2. \A k \in 0..(n - 1) : k + 1 \in 1..Len(h.byAge)
  BY <1>1
<1> QED BY <1>1, <1>2 DEF Seens, Heap!At

(* A step of the loop ends it, with the heap in order, or goes down.       *)
LEMMA SinkStep ==
  ASSUME NEW h, Indexed(h), NEW n \in 0..Len(h.byAge), NEW i \in Nat,
         NEW s \in Sinking(h, n, i)
  PROVE  /\ Heap!Sink(s, n) \in Sinking(h, n, i)
         /\ \/ Heap!Sink(s, n) = s /\ InOrder(Seens(s.heap, n), n)
            \/ Heap!Sink(s, n).at > s.at
<1> DEFINE left == 2 * s.at + 1
           right == left + 1
           j == IF right < n /\ Heap!Less(s.heap, right, left) THEN right ELSE left
           v == Seens(s.heap, n)
           g == Heap!Swap(s.heap, s.at, j)
<1>0. /\ s.at \in Nat /\ Indexed(s.heap) /\ SameEntries(h, s.heap)
      /\ \A k \in n..(Len(h.byAge) - 1) : s.heap.byAge[k + 1] = h.byAge[k + 1]
      /\ s.at >= i
      /\ OrderedBut(v, n, s.at)
  BY DEF Sinking
<1>1. Len(s.heap.byAge) = Len(h.byAge) /\ n \in 0..Len(s.heap.byAge) /\ n \in Nat
      /\ Len(h.byAge) \in Nat
  BY <1>0, SeensType DEF SameEntries
<1>2. v \in [0..(n - 1) -> Nat] /\ \A k \in 0..(n - 1) : v[k] = Heap!At(s.heap, k).seen
  BY <1>0, <1>1, SeensType
<1>2a. \A k, l \in 0..(n - 1) : Heap!Less(s.heap, k, l) <=> v[k] < v[l]
  <2> HIDE DEF v
  <2> QED BY <1>2 DEF Heap!Less
<1>3. Heap!Sink(s, n) = IF left >= n \/ ~Heap!Less(s.heap, j, s.at) THEN s
                        ELSE [heap |-> g, at |-> j]
  BY DEF Heap!Sink
<1> HIDE DEF v
<1>4. left < n => /\ s.at \in 0..(n - 1) /\ left \in 0..(n - 1) /\ j \in 0..(n - 1)
                  /\ Child(s.at, j) /\ j > s.at
                  /\ \A c \in 0..(n - 1) : Child(s.at, c) => v[j] <= v[c]
  <2> SUFFICES ASSUME left < n
               PROVE  /\ s.at \in 0..(n - 1) /\ left \in 0..(n - 1) /\ j \in 0..(n - 1)
                      /\ Child(s.at, j) /\ j > s.at
                      /\ \A c \in 0..(n - 1) : Child(s.at, c) => v[j] <= v[c]
    OBVIOUS
  <2>1. s.at \in 0..(n - 1) /\ left \in 0..(n - 1)
    BY <1>0, <1>1
  <2>2. right < n => right \in 0..(n - 1)
    BY <1>0, <1>1
  <2>2a. right < n => (Heap!Less(s.heap, right, left) <=> v[right] < v[left])
    BY <1>2a, <2>1, <2>2
  <2>3. j \in 0..(n - 1) /\ Child(s.at, j) /\ j > s.at
    BY <1>0, <2>1, <2>2 DEF Child
  <2>4. ASSUME NEW c \in 0..(n - 1), Child(s.at, c) PROVE v[j] <= v[c]
    <3>1. c = left \/ (c = right /\ right < n)
      BY <1>0, <1>1, <2>4 DEF Child
    <3>2. v[left] \in Nat /\ (right < n => v[right] \in Nat)
      BY <1>2, <2>1, <2>2
    <3>3. CASE right < n /\ v[right] < v[left]
      BY <3>1, <3>2, <3>3, <2>2a
    <3>4. CASE right < n /\ ~(v[right] < v[left])
      BY <3>1, <3>2, <3>4, <2>2a
    <3>5. CASE ~(right < n)
      BY <3>1, <3>2, <3>5
    <3> QED BY <3>3, <3>4, <3>5
  <2> QED BY <2>1, <2>3, <2>4
<1>5. CASE left >= n \/ ~Heap!Less(s.heap, j, s.at)
  <2>1. ASSUME NEW p \in 0..(n - 1), NEW c \in 0..(n - 1), Child(p, c) PROVE v[p] <= v[c]
    <3>1. CASE p # s.at
      BY <2>1, <3>1, <1>0 DEF OrderedBut
    <3>2. CASE p = s.at
      <4>1. left < n
        BY <2>1, <3>2, <1>0, <1>1 DEF Child
      <4>2. ~(v[j] < v[s.at])
        <5> HIDE DEF j
        <5> QED BY <4>1, <1>1, <1>0, <1>2a, <1>4, <1>5
      <4>3. v[j] <= v[c] /\ v[j] \in Nat /\ v[c] \in Nat /\ v[p] \in Nat
        BY <4>1, <1>4, <1>2, <2>1, <3>2
      <4> QED BY <4>2, <4>3, <3>2
    <3> QED BY <3>1, <3>2
  <2>2. InOrder(v, n)
    BY <2>1 DEF InOrder
  <2> QED BY <1>5, <1>3, <2>2 DEF v
<1>6. CASE left < n /\ Heap!Less(s.heap, j, s.at)
  <2>1. /\ s.at \in 0..(n - 1) /\ j \in 0..(n - 1) /\ Child(s.at, j) /\ j > s.at
        /\ \A c \in 0..(n - 1) : Child(s.at, c) => v[j] <= v[c]
    BY <1>4, <1>6
  <2>12. Heap!Sink(s, n) = [heap |-> g, at |-> j]
    <3> HIDE DEF j, g
    <3> QED BY <1>0, <1>1, <1>3, <1>6
  <2> HIDE DEF j
  <2>2. Indexed(g) /\ SameEntries(s.heap, g) /\ Exchanged(s.heap, g, s.at, j)
    <3>1. Indexed(s.heap) /\ s.at \in 0..(Len(s.heap.byAge) - 1) /\ j \in 0..(Len(s.heap.byAge) - 1)
      BY <2>1, <1>0, <1>1
    <3> QED BY <3>1, Swapped
  <2> HIDE DEF g
  <2>3. SameEntries(h, g)
    BY <2>2, <1>0, SameTrans
  <2>4. \A k \in 1..Len(h.byAge) :
          g.byAge[k] = IF k = s.at + 1 THEN s.heap.byAge[j + 1]
                       ELSE IF k = j + 1 THEN s.heap.byAge[s.at + 1] ELSE s.heap.byAge[k]
    BY <2>2, <1>1 DEF Exchanged
  <2>5. \A k \in n..(Len(h.byAge) - 1) : g.byAge[k + 1] = h.byAge[k + 1]
    <3> SUFFICES ASSUME NEW k \in n..(Len(h.byAge) - 1)
                 PROVE  g.byAge[k + 1] = h.byAge[k + 1]
      OBVIOUS
    <3>1. k + 1 \in 1..Len(h.byAge) /\ k + 1 # s.at + 1 /\ k + 1 # j + 1
      BY <2>1, <1>1
    <3> QED BY <3>1, <2>4, <1>0
  <2> DEFINE w == Seens(g, n)
  <2>6. w \in [0..(n - 1) -> Nat] /\ \A k \in 0..(n - 1) : w[k] = Heap!At(g, k).seen
    BY <2>2, <2>3, <1>1, SeensType DEF SameEntries
  <2> HIDE DEF w
  <2>7. w[s.at] = v[j] /\ w[j] = v[s.at]
        /\ \A k \in 0..(n - 1) : k # s.at /\ k # j => w[k] = v[k]
    <3>1. \A k \in 0..(n - 1) : k + 1 \in 1..Len(h.byAge)
      BY <1>1
    <3>2. s.at + 1 # j + 1
      BY <2>1, <1>0
    <3>3. w[s.at] = v[j] /\ w[j] = v[s.at]
      <4>1. g.byAge[s.at + 1] = s.heap.byAge[j + 1]
            /\ g.byAge[j + 1] = s.heap.byAge[s.at + 1]
        BY <3>1, <3>2, <2>1, <2>4
      <4> QED BY <4>1, <2>1, <2>6, <1>2 DEF Heap!At
    <3>4. ASSUME NEW k \in 0..(n - 1), k # s.at, k # j PROVE w[k] = v[k]
      <4>1. k + 1 # s.at + 1 /\ k + 1 # j + 1
        BY <3>4, <2>1, <1>0
      <4>2. g.byAge[k + 1] = s.heap.byAge[k + 1]
        BY <4>1, <3>1, <2>4
      <4> QED BY <4>2, <2>6, <1>2 DEF Heap!At
    <3> QED BY <3>3, <3>4
  <2>8. v[j] < v[s.at]
    BY <2>1, <1>2a, <1>6
  <2>9. OrderedBut(w, n, j)
    BY <2>1, <2>6, <2>7, <2>8, <1>0, <1>1, <1>2, OrderSinks
  <2>10. j \in Nat /\ j > i
    BY <2>1, <1>0
  <2>11. g \in Heaps
    BY <2>2 DEF Indexed
  <2> QED BY <2>1, <2>2, <2>3, <2>5, <2>9, <2>10, <2>11, <2>12 DEF Sinking, w
<1>7. left \in Nat
  BY <1>0
<1> QED BY <1>1, <1>5, <1>6, <1>7

(* down leaves the heap in order.                                          *)
LEMMA DownSorts ==
  ASSUME NEW h, Indexed(h), NEW n \in 0..Len(h.byAge), NEW i \in Nat,
         OrderedBut(Seens(h, n), n, i)
  PROVE  /\ Heap!Down(h, i, n) \in Sinking(h, n, i)
         /\ InOrder(Seens(Heap!Down(h, i, n).heap, n), n)
<1> DEFINE S == Sinking(h, n, i)
           b == [heap |-> h, at |-> i]
           F == [s \in S |-> Heap!Sink(s, n)]
           Body(g, k) == IF k = 0 THEN b ELSE Heap!Sink(g[k - 1], n)
           sunk == CHOOSE g : g = [k \in 0..n |-> Body(g, k)]
<1>0. n \in Nat
  BY SeensType
<1>1. b \in S
  <2>1. SameEntries(h, h)
    BY DEF SameEntries
  <2> QED BY <2>1 DEF Sinking, Indexed
<1>2. \A s \in S : Heap!Sink(s, n) \in S
  BY SinkStep
<1>3. F \in [S -> S] /\ \A s \in S : F[s] = Heap!Sink(s, n)
  <2> HIDE DEF S
  <2> QED BY <1>2
<1> HIDE DEF F, S, b
<1>4. PICK g : IsRepetition(g, n, S, b, F)
  BY <1>0, <1>1, <1>3, Repeated
<1>5. g = [k \in 0..n |-> Body(g, k)]
  <2>1. ASSUME NEW k \in 0..n PROVE g[k] = Body(g, k)
    <3>1. CASE k = 0
      BY <3>1, <1>4 DEF IsRepetition
    <3>2. CASE k # 0
      <4>1. k \in 1..n /\ k - 1 \in 0..n
        BY <3>2, <1>0
      <4>2. g[k] = F[g[k - 1]] /\ g[k - 1] \in S
        BY <4>1, <1>4 DEF IsRepetition
      <4> QED BY <4>2, <3>2, <1>3
    <3> QED BY <3>1, <3>2
  <2> HIDE DEF Body
  <2> QED BY <2>1, <1>4 DEF IsRepetition
<1>6. sunk = [k \in 0..n |-> Body(sunk, k)]
  <2> HIDE DEF Body
  <2> QED BY <1>5
<1>7. Heap!Down(h, i, n) = sunk[n]
  BY DEF Heap!Down, b
<1>8. \A k \in 0..n : sunk[k] = IF k = 0 THEN b ELSE Heap!Sink(sunk[k - 1], n)
  <2> DEFINE f == sunk
  <2>1. f = [k \in 0..n |-> Body(f, k)]
    BY <1>6
  <2> HIDE DEF f
  <2>2. \A k \in 0..n : f[k] = Body(f, k)
    <3> HIDE DEF Body
    <3> QED BY <2>1
  <2> QED BY <2>2 DEF f
<1> HIDE DEF sunk
<1>9. \A k \in 0..n : sunk[k] \in S /\ (InOrder(Seens(sunk[k].heap, n), n) \/ sunk[k].at >= k)
  <2> DEFINE Done == {k \in Nat : k <= n =>
                        /\ sunk[k] \in S
                        /\ \/ InOrder(Seens(sunk[k].heap, n), n) /\ Heap!Sink(sunk[k], n) = sunk[k]
                           \/ sunk[k].at >= k}
  <2>1. 0 \in Done
    BY <1>0, <1>1, <1>8 DEF b
  <2>2. ASSUME NEW k \in Nat, k \in Done PROVE k + 1 \in Done
    <3> SUFFICES ASSUME k + 1 <= n
                 PROVE  /\ sunk[k + 1] \in S
                        /\ \/ /\ InOrder(Seens(sunk[k + 1].heap, n), n)
                              /\ Heap!Sink(sunk[k + 1], n) = sunk[k + 1]
                           \/ sunk[k + 1].at >= k + 1
      OBVIOUS
    <3>1. sunk[k] \in S /\ sunk[k + 1] = Heap!Sink(sunk[k], n)
      BY <1>0, <1>8, <2>2
    <3>2. sunk[k + 1] \in S
      BY <3>1, <1>2
    <3>3. sunk[k].at \in Nat /\ sunk[k + 1].at \in Nat
      BY <3>1, <3>2 DEF S, Sinking
    <3>4. \/ Heap!Sink(sunk[k], n) = sunk[k] /\ InOrder(Seens(sunk[k].heap, n), n)
          \/ Heap!Sink(sunk[k], n).at > sunk[k].at
      BY <3>1, SinkStep DEF S
    <3>5. CASE Heap!Sink(sunk[k], n) = sunk[k] /\ InOrder(Seens(sunk[k].heap, n), n)
      BY <3>1, <3>2, <3>5
    <3>6. CASE Heap!Sink(sunk[k], n).at > sunk[k].at
      <4>1. sunk[k].at >= k
        BY <3>3, <3>6, <2>2, <1>0
      <4> QED BY <4>1, <3>1, <3>2, <3>3, <3>6
    <3> QED BY <3>4, <3>5, <3>6
  <2>3. Nat \subseteq Done
    <3> HIDE DEF Done
    <3> QED BY <2>1, <2>2, SetInduction
  <2> QED BY <2>3, <1>0
<1>10. sunk[n] \in S /\ (InOrder(Seens(sunk[n].heap, n), n) \/ sunk[n].at >= n)
  BY <1>9, <1>0
<1>11. CASE sunk[n].at >= n
  <2>1. sunk[n].at \in Nat /\ OrderedBut(Seens(sunk[n].heap, n), n, sunk[n].at)
    BY <1>10 DEF S, Sinking
  <2>2. InOrder(Seens(sunk[n].heap, n), n)
    <3> DEFINE v == Seens(sunk[n].heap, n)
    <3>1. \A p \in 0..(n - 1) : p # sunk[n].at
      BY <1>0, <1>11, <2>1
    <3>2. \A p, c \in 0..(n - 1) : Child(p, c) /\ p # sunk[n].at => v[p] <= v[c]
      BY <2>1 DEF OrderedBut
    <3> HIDE DEF v
    <3>3. InOrder(v, n)
      BY <3>1, <3>2 DEF InOrder
    <3> QED BY <3>3 DEF v
  <2> QED BY <2>2, <1>7, <1>10 DEF S
<1> QED BY <1>7, <1>10, <1>11 DEF S

-----------------------------------------------------------------------------
(* up, for a record that was seen last of all: it stays where it is.       *)
Latest(h, i) == \A k \in 0..(Len(h.byAge) - 1) : Heap!At(h, k).seen <= Heap!At(h, i).seen

LEMMA UpStays ==
  ASSUME NEW h, Indexed(h), NEW j \in 0..(Len(h.byAge) - 1), Latest(h, j)
  PROVE  Heap!Up(h, j) = h
<1> DEFINE b == [heap |-> h, at |-> j]
           n == Heap!Size(h)
           Body(g, k) == IF k = 0 THEN b ELSE Heap!Rise(g[k - 1])
           risen == CHOOSE g : g = [k \in 0..n |-> Body(g, k)]
           stay == [k \in 0..n |-> b]
<1>1. n \in Nat /\ n = Len(h.byAge) /\ j \in Nat
      /\ \A k \in 1..n : h.byAge[k].seen \in Nat
  BY HeapTypes DEF Heap!Size
<1> HIDE DEF n
<1>2. Heap!Rise(b) = b
  <2>1. j # 0 => (j - 1) \div 2 \in 0..(n - 1)
    BY <1>1
  <2>2. j # 0 => ~Heap!Less(h, j, (j - 1) \div 2)
    <3> SUFFICES ASSUME j # 0 PROVE ~Heap!Less(h, j, (j - 1) \div 2)
      OBVIOUS
    <3> DEFINE i == (j - 1) \div 2
    <3>1. i \in 0..(n - 1)
      BY <2>1
    <3> HIDE DEF i
    <3>2. Heap!At(h, i).seen \in Nat /\ Heap!At(h, j).seen \in Nat
      BY <3>1, <1>1 DEF Heap!At
    <3>3. Heap!At(h, i).seen <= Heap!At(h, j).seen
      BY <3>1, <1>1 DEF Latest
    <3>4. ~Heap!Less(h, j, i)
      BY <3>2, <3>3 DEF Heap!Less
    <3> QED BY <3>4 DEF i
  <2>3. b.at = j /\ b.heap = h
    OBVIOUS
  <2> HIDE DEF b
  <2> QED BY <2>2, <2>3 DEF Heap!Rise
<1> HIDE DEF b
<1>3. stay = [k \in 0..n |-> Body(stay, k)]
  <2>1. ASSUME NEW k \in 0..n PROVE stay[k] = Body(stay, k)
    <3>1. CASE k = 0
      BY <3>1
    <3>2. CASE k # 0
      <4>1. k - 1 \in 0..n
        BY <3>2, <1>1
      <4>2. stay[k - 1] = b /\ stay[k] = b
        BY <4>1
      <4> QED BY <4>2, <3>2, <1>2
    <3> QED BY <3>1, <3>2
  <2> HIDE DEF Body
  <2> QED BY <2>1
<1>4. risen = [k \in 0..n |-> Body(risen, k)]
  <2> HIDE DEF Body, stay
  <2> QED BY <1>3
<1>5. Heap!Up(h, j) = risen[n].heap
  BY DEF Heap!Up, b, n
<1>6. \A k \in 0..n : risen[k] = IF k = 0 THEN b ELSE Heap!Rise(risen[k - 1])
  <2> DEFINE f == risen
  <2>1. f = [k \in 0..n |-> Body(f, k)]
    BY <1>4
  <2> HIDE DEF f
  <2>2. \A k \in 0..n : f[k] = Body(f, k)
    <3> HIDE DEF Body
    <3> QED BY <2>1
  <2> QED BY <2>2 DEF f
<1> HIDE DEF risen
<1>7. risen[n] = b
  <2> DEFINE Still == {k \in Nat : k <= n => risen[k] = b}
  <2>1. 0 \in Still
    BY <1>1, <1>6
  <2>2. ASSUME NEW k \in Nat, k \in Still PROVE k + 1 \in Still
    <3> SUFFICES ASSUME k + 1 <= n PROVE risen[k + 1] = b
      OBVIOUS
    <3>1. risen[k] = b /\ risen[k + 1] = Heap!Rise(risen[k])
      BY <1>1, <1>6, <2>2
    <3> QED BY <3>1, <1>2
  <2>3. Nat \subseteq Still
    <3> HIDE DEF Still
    <3> QED BY <2>1, <2>2, SetInduction
  <2> QED BY <2>3, <1>1
<1> QED BY <1>5, <1>7 DEF b

(* Fix, after the record at i was seen again.                              *)
LEMMA FixSorts ==
  ASSUME NEW h, Indexed(h), NEW i \in 0..(Len(h.byAge) - 1), Latest(h, i),
         OrderedBut(Seens(h, Len(h.byAge)), Len(h.byAge), i)
  PROVE  /\ Indexed(Heap!Fix(h, i)) /\ SameEntries(h, Heap!Fix(h, i))
         /\ InOrder(Seens(Heap!Fix(h, i), Len(h.byAge)), Len(h.byAge))
<1> DEFINE n == Len(h.byAge)
           d == Heap!Down(h, i, n)
<1>1. n \in Nat /\ i \in Nat /\ n \in 0..Len(h.byAge)
  BY HeapTypes
<1>2. d \in Sinking(h, n, i) /\ InOrder(Seens(d.heap, n), n)
  BY <1>1, DownSorts
<1>3. Heap!Fix(h, i) = IF d.at > i THEN d.heap ELSE Heap!Up(h, i)
  BY DEF Heap!Fix, Heap!Size
<1>4. Heap!Up(h, i) = h
  BY UpStays
<1> HIDE DEF d
<1>5. Indexed(d.heap) /\ SameEntries(h, d.heap) /\ d.at \in Nat /\ d.at >= i
      /\ (d.at = i => d.heap = h)
  BY <1>2 DEF Sinking
<1>6. Heap!Fix(h, i) = d.heap
  BY <1>1, <1>3, <1>4, <1>5
<1> QED BY <1>2, <1>5, <1>6

-----------------------------------------------------------------------------
(* The operations of remoteMapInner.                                       *)
Good(h) == Indexed(h) /\ InOrder(Seens(h, Len(h.byAge)), Len(h.byAge))
SeenBy(h, t) == \A k \in 1..Len(h.byAge) : h.byAge[k].seen <= t

(* Only the time at which a was seen has changed.                          *)
SeenAgain(h, g, a, t) ==
  /\ DOMAIN g.byAddr = DOMAIN h.byAddr
  /\ \A b \in DOMAIN h.byAddr :
       EntryOf(g, b) = IF b = a THEN [EntryOf(h, b) EXCEPT !.seen = t] ELSE EntryOf(h, b)

LEMMA RefreshedHeap ==
  ASSUME NEW h, Good(h), NEW a \in DOMAIN h.byAddr, NEW t \in Nat, SeenBy(h, t)
  PROVE  /\ Good(Heap!Refreshed(h, h.byAddr[a], t))
         /\ SeenAgain(h, Heap!Refreshed(h, h.byAddr[a], t), a, t)
<1> DEFINE n == Len(h.byAge)
           i == h.byAddr[a]
           e == [h.byAge[i + 1] EXCEPT !.seen = t]
           s == [h.byAge EXCEPT ![i + 1] = e]
           f == [h EXCEPT !.byAge[i + 1].seen = t]
           g == Heap!Fix(f, i)
<1>0. Indexed(h) /\ InOrder(Seens(h, n), n)
  BY DEF Good
<1>1. /\ h.byAge \in Seq(Entries) /\ n \in Nat
      /\ \A k \in 1..n : h.byAge[k] \in Entries /\ h.byAge[k].seen \in Nat
      /\ i \in 0..(n - 1) /\ i \in Nat /\ i + 1 \in 1..n /\ h.byAge[i + 1].addr = a
  BY <1>0, HeapTypes, IndexOf
<1>2. e \in Entries /\ e.seen = t /\ e.addr = a /\ e.addr = h.byAge[i + 1].addr
  BY <1>1 DEF Entries
<1> HIDE DEF e
<1>3. s \in Seq(Entries) /\ Len(s) = n
  BY <1>1, <1>2, ExceptSeq
<1>4. \A k \in 1..n : s[k] = IF k = i + 1 THEN e ELSE h.byAge[k]
  BY <1>1
<1> HIDE DEF s
<1>5. f \in Heaps /\ f.byAge = s /\ f.byAddr = h.byAddr
  <2>1. h \in [byAge : Seq(Entries), byAddr : Indexes]
    BY <1>0 DEF Indexed, Heaps
  <2>2. f = [h EXCEPT !.byAge = s]
    BY <2>1 DEF s, e
  <2> QED BY <2>1, <2>2, <1>3 DEF Heaps
<1> HIDE DEF f
<1>6. \A k \in 1..n : s[k].addr = h.byAge[k].addr
  BY <1>2, <1>4
<1>7. Indexed(f)
  <2>1. \A b \in DOMAIN f.byAddr :
          f.byAddr[b] \in 0..(Len(f.byAge) - 1) /\ f.byAge[f.byAddr[b] + 1].addr = b
    BY <1>0, <1>3, <1>5, <1>6, IndexOf
  <2>2. \A k \in 1..Len(f.byAge) :
          f.byAge[k].addr \in DOMAIN f.byAddr /\ f.byAddr[f.byAge[k].addr] = k - 1
    BY <1>0, <1>3, <1>5, <1>6 DEF Indexed
  <2> QED BY <2>1, <2>2, <1>5 DEF Indexed
<1>8. Latest(f, i)
  <2> SUFFICES ASSUME NEW k \in 0..(n - 1) PROVE s[k + 1].seen <= s[i + 1].seen
    BY <1>3, <1>5 DEF Latest, Heap!At
  <2>1. k + 1 \in 1..n
    BY <1>1
  <2>2. s[i + 1].seen = t
    BY <1>1, <1>2, <1>4
  <2>3. s[k + 1].seen <= t
    <3>1. h.byAge[k + 1].seen <= t
      BY <2>1, <1>1 DEF SeenBy
    <3>2. s[k + 1] = e \/ s[k + 1] = h.byAge[k + 1]
      BY <2>1, <1>4
    <3> QED BY <3>1, <3>2, <1>2
  <2> QED BY <2>2, <2>3
<1>9. OrderedBut(Seens(f, n), n, i)
  <2> DEFINE v == Seens(h, n)
             w == Seens(f, n)
  <2>1. \A k \in 0..(n - 1) : k + 1 \in 1..n
    BY <1>1
  <2>2. v \in [0..(n - 1) -> Nat]
    <3>1. n \in 0..Len(h.byAge)
      BY <1>1
    <3> QED BY <3>1, <1>0, SeensType
  <2>3. \A k \in 0..(n - 1) : w[k] = IF k = i THEN t ELSE v[k]
    <3> SUFFICES ASSUME NEW k \in 0..(n - 1)
                 PROVE  s[k + 1].seen = IF k = i THEN t ELSE h.byAge[k + 1].seen
      BY <1>5 DEF Seens
    <3>1. CASE k = i
      BY <3>1, <1>1, <1>2, <1>4
    <3>2. CASE k # i
      <4>1. k + 1 # i + 1
        BY <3>2, <1>1
      <4> QED BY <4>1, <3>2, <2>1, <1>4
    <3> QED BY <3>1, <3>2
  <2>4. \A k \in 0..(n - 1) : v[k] <= t
    BY <2>1 DEF SeenBy, Seens
  <2>5. \A p, c \in 0..(n - 1) : Child(p, c) => v[p] <= v[c]
    BY <1>0 DEF InOrder
  <2> HIDE DEF v, w
  <2>6. ASSUME NEW p \in 0..(n - 1), NEW c \in 0..(n - 1), Child(p, c), p # i
        PROVE  w[p] <= w[c]
    <3>1. w[p] = v[p]
      BY <2>3, <2>6
    <3>2. w[c] = t \/ w[c] = v[c]
      BY <2>3
    <3> QED BY <3>1, <3>2, <2>4, <2>5, <2>6
  <2>7. ASSUME NEW p \in 0..(n - 1), NEW c \in 0..(n - 1), Child(p, i), Child(i, c)
        PROVE  w[p] <= w[c]
    <3>1. p # i /\ c # i
      <4> HIDE DEF i
      <4> QED BY <2>7, <1>1 DEF Child
    <3>2. v[p] <= v[i] /\ v[i] <= v[c]
      BY <2>5, <2>7, <1>1
    <3>3. v[p] \in Nat /\ v[i] \in Nat /\ v[c] \in Nat
      BY <2>2, <1>1
    <3>4. v[p] <= v[c]
      BY <3>2, <3>3
    <3> QED BY <3>1, <3>4, <2>3
  <2> QED BY <2>6, <2>7 DEF OrderedBut, w
<1>10. Indexed(g) /\ SameEntries(f, g) /\ InOrder(Seens(g, n), n)
  BY <1>1, <1>3, <1>5, <1>7, <1>8, <1>9, FixSorts
<1>11. Heap!Refreshed(h, i, t) = g
  BY DEF Heap!Refreshed, f
<1> HIDE DEF g
<1>12. Len(g.byAge) = n /\ DOMAIN g.byAddr = DOMAIN h.byAddr
  BY <1>3, <1>5, <1>10 DEF SameEntries
<1>13. ASSUME NEW b \in DOMAIN h.byAddr
       PROVE  EntryOf(g, b) = IF b = a THEN [EntryOf(h, b) EXCEPT !.seen = t] ELSE EntryOf(h, b)
  <2>1. EntryOf(g, b) = s[h.byAddr[b] + 1]
    BY <1>5, <1>10 DEF SameEntries, EntryOf
  <2>2. h.byAddr[b] + 1 \in 1..n /\ h.byAge[h.byAddr[b] + 1].addr = b
    BY <1>0, IndexOf
  <2>3. CASE b = a
    BY <2>1, <2>3, <1>1, <1>4 DEF EntryOf, e
  <2>4. CASE b # a
    <3>1. h.byAddr[b] + 1 # i + 1
      BY <2>2, <2>4, <1>1
    <3> QED BY <2>1, <2>2, <2>4, <3>1, <1>4 DEF EntryOf
  <2> QED BY <2>3, <2>4
<1> QED BY <1>10, <1>11, <1>12, <1>13 DEF Good, SeenAgain

(* Push of a record that was seen last of all.                             *)
Added(h, g, e) ==
  /\ DOMAIN g.byAddr = DOMAIN h.byAddr \cup {e.addr}
  /\ EntryOf(g, e.addr) = e
  /\ \A b \in DOMAIN h.byAddr : EntryOf(g, b) = EntryOf(h, b)

LEMMA PushedHeap ==
  ASSUME NEW h, Good(h), NEW e \in Entries, e.addr \notin DOMAIN h.byAddr, SeenBy(h, e.seen)
  PROVE  Good(Heap!Push(h, e)) /\ Added(h, Heap!Push(h, e), e)
<1> DEFINE n == Len(h.byAge)
           g == Heap!PushBack(h, e)
           s == Append(h.byAge, e)
           x == [a \in DOMAIN h.byAddr \cup {e.addr} |-> IF a = e.addr THEN n ELSE h.byAddr[a]]
<1>0. Indexed(h) /\ InOrder(Seens(h, n), n)
  BY DEF Good
<1>1. /\ h.byAge \in Seq(Entries) /\ n \in Nat
      /\ \A k \in 1..n : h.byAge[k].seen \in Nat
      /\ h.byAddr \in [DOMAIN h.byAddr -> Nat] /\ DOMAIN h.byAddr \subseteq Peers
  BY <1>0, HeapTypes
<1>2. e.addr \in Peers /\ e.seen \in Nat
  BY DEF Entries
<1>3. /\ s \in Seq(Entries) /\ Len(s) = n + 1 /\ s[n + 1] = e
      /\ \A k \in 1..n : s[k] = h.byAge[k]
  BY <1>1
<1>4. /\ x \in [DOMAIN h.byAddr \cup {e.addr} -> Nat] /\ x[e.addr] = n
      /\ \A a \in DOMAIN h.byAddr : x[a] = h.byAddr[a]
  BY <1>1
<1>5. DOMAIN x = DOMAIN h.byAddr \cup {e.addr}
  OBVIOUS
<1>6. g = [byAge |-> s, byAddr |-> x]
  BY DEF Heap!PushBack, Heap!Size
<1> HIDE DEF s, x, g
<1>7. g.byAge = s /\ g.byAddr = x /\ g \in Heaps
  <2>1. DOMAIN h.byAddr \cup {e.addr} \in SUBSET Peers
    BY <1>1, <1>2
  <2>2. x \in Indexes
    BY <2>1, <1>4 DEF Indexes
  <2> QED BY <2>2, <1>3, <1>6 DEF Heaps
<1>8. Indexed(g)
  <2>1. ASSUME NEW a \in DOMAIN x PROVE x[a] \in 0..(Len(s) - 1) /\ s[x[a] + 1].addr = a
    <3>1. CASE a = e.addr
      BY <3>1, <1>1, <1>3, <1>4
    <3>2. CASE a \in DOMAIN h.byAddr
      <4>1. x[a] = h.byAddr[a] /\ x[a] \in 0..(n - 1) /\ x[a] + 1 \in 1..n
            /\ h.byAge[x[a] + 1].addr = a
        BY <3>2, <1>0, <1>4, IndexOf
      <4>2. s[x[a] + 1] = h.byAge[x[a] + 1]
        BY <4>1, <1>3
      <4>3. x[a] \in 0..(Len(s) - 1)
        BY <4>1, <1>1, <1>3
      <4> QED BY <4>1, <4>2, <4>3
    <3> QED BY <3>1, <3>2, <2>1, <1>5
  <2>2. ASSUME NEW k \in 1..Len(s) PROVE s[k].addr \in DOMAIN x /\ x[s[k].addr] = k - 1
    <3>1. CASE k = n + 1
      BY <3>1, <1>1, <1>3, <1>4, <1>5
    <3>2. CASE k # n + 1
      <4>1. k \in 1..n
        BY <3>2, <1>1, <1>3
      <4>2. h.byAge[k].addr \in DOMAIN h.byAddr /\ h.byAddr[h.byAge[k].addr] = k - 1
        BY <4>1, <1>0 DEF Indexed
      <4> QED BY <4>1, <4>2, <1>3, <1>4, <1>5
    <3> QED BY <3>1, <3>2
  <2> QED BY <2>1, <2>2, <1>7 DEF Indexed
<1>9. n \in 0..(Len(g.byAge) - 1) /\ Len(g.byAge) = n + 1
  BY <1>1, <1>3, <1>7
<1>10. Latest(g, n)
  <2> SUFFICES ASSUME NEW k \in 0..n PROVE s[k + 1].seen <= s[n + 1].seen
    BY <1>1, <1>7, <1>9 DEF Latest, Heap!At
  <2>1. CASE k = n
    BY <2>1, <1>2, <1>3
  <2>2. CASE k # n
    <3>1. k + 1 \in 1..n
      BY <2>2, <1>1
    <3> QED BY <3>1, <1>3 DEF SeenBy
  <2> QED BY <2>1, <2>2
<1>11. Heap!Push(h, e) = g
  <2>1. Heap!Up(g, n) = g
    BY <1>8, <1>9, <1>10, UpStays
  <2> QED BY <2>1 DEF Heap!Push, Heap!Size, g
<1>12. InOrder(Seens(g, n + 1), n + 1)
  <2> SUFFICES ASSUME NEW p \in 0..n, NEW c \in 0..n, Child(p, c)
               PROVE  Seens(g, n + 1)[p] <= Seens(g, n + 1)[c]
    BY <1>1 DEF InOrder
  <2>1. Seens(g, n + 1)[p] = s[p + 1].seen /\ Seens(g, n + 1)[c] = s[c + 1].seen
    BY <1>1, <1>7 DEF Seens
  <2>2. p < c /\ p # n /\ p + 1 \in 1..n
    BY <1>1 DEF Child
  <2>3. CASE c = n
    BY <2>1, <2>2, <2>3, <1>2, <1>3 DEF SeenBy
  <2>4. CASE c # n
    <3>1. c \in 0..(n - 1) /\ p \in 0..(n - 1) /\ c + 1 \in 1..n
      BY <2>2, <2>4, <1>1
    <3>2. Seens(h, n)[p] <= Seens(h, n)[c]
      BY <3>1, <1>0 DEF InOrder
    <3>3. h.byAge[p + 1].seen <= h.byAge[c + 1].seen
      BY <3>1, <3>2 DEF Seens
    <3> QED BY <2>1, <2>2, <3>1, <3>3, <1>3
  <2> QED BY <2>3, <2>4
<1>13. Added(h, g, e)
  <2>1. ASSUME NEW b \in DOMAIN h.byAddr PROVE EntryOf(g, b) = EntryOf(h, b)
    <3>1. x[b] = h.byAddr[b] /\ h.byAddr[b] + 1 \in 1..n
      BY <1>0, <1>4, IndexOf
    <3> QED BY <3>1, <1>3, <1>7 DEF EntryOf
  <2> QED BY <2>1, <1>3, <1>4, <1>5, <1>7 DEF Added, EntryOf
<1> QED BY <1>8, <1>9, <1>11, <1>12, <1>13 DEF Good

(* Pop uses the size of the index for the size of the heap.                *)
LEMMA IndexSize ==
  ASSUME NEW h, Indexed(h)
  PROVE  /\ Cardinality(DOMAIN h.byAddr) = Len(h.byAge)
         /\ Heap!Cardinality(DOMAIN h.byAddr) = Len(h.byAge)
<1> DEFINE n == Len(h.byAge)
           D == DOMAIN h.byAddr
           f == [k \in 1..n |-> h.byAge[k].addr]
<1>1. n \in Nat
  BY HeapTypes
<1>2. \A k \in 1..n : f[k] \in D /\ h.byAddr[f[k]] = k - 1
  BY DEF Indexed
<1>3. f \in [1..n -> D]
  BY <1>2
<1>4. \A a \in D : h.byAddr[a] + 1 \in 1..n /\ f[h.byAddr[a] + 1] = a
  BY IndexOf
<1> HIDE DEF f
<1>5. ASSUME NEW k \in 1..n, NEW l \in 1..n, f[k] = f[l] PROVE k = l
  <2>1. k - 1 = l - 1
    BY <1>2, <1>5
  <2> QED BY <2>1
<1>6. f \in Bijection(1..n, D)
  BY <1>3, <1>4, <1>5 DEF Bijection, Injection, Surjection, IsInjective
<1>7. ExistsBijection(1..n, D)
  BY <1>6 DEF ExistsBijection
<1>8. IsFiniteSet(1..n) /\ Cardinality(1..n) = n
  BY <1>1, FS_Interval
<1>9. Cardinality(D) = n
  BY <1>7, <1>8, FS_Bijection
<1>10. \A S : Heap!Cardinality(S) = Cardinality(S)
  BY DEF Heap!Cardinality, Cardinality
<1> QED BY <1>9, <1>10

Removed(h, g, a) ==
  /\ DOMAIN g.byAddr = DOMAIN h.byAddr \ {a}
  /\ \A b \in DOMAIN g.byAddr : EntryOf(g, b) = EntryOf(h, b)

(* heap.Interface's Pop: the last entry.                                   *)
LEMMA PoppedBack ==
  ASSUME NEW h, Indexed(h), Len(h.byAge) > 0,
         InOrder(Seens(h, Len(h.byAge) - 1), Len(h.byAge) - 1)
  PROVE  /\ Good(Heap!PopBack(h)) /\ Len(Heap!PopBack(h).byAge) = Len(h.byAge) - 1
         /\ Removed(h, Heap!PopBack(h), h.byAge[Len(h.byAge)].addr)
<1> DEFINE n == Len(h.byAge) - 1
           gone == h.byAge[n + 1].addr
           s == SubSeq(h.byAge, 1, n)
           D == DOMAIN h.byAddr \ {gone}
           x == [a \in D |-> h.byAddr[a]]
           g == Heap!PopBack(h)
<1>1. /\ h.byAge \in Seq(Entries) /\ n \in Nat /\ Len(h.byAge) = n + 1
      /\ h.byAddr \in [DOMAIN h.byAddr -> Nat] /\ DOMAIN h.byAddr \subseteq Peers
  BY HeapTypes
<1>2. s \in Seq(Entries) /\ Len(s) = n /\ \A k \in 1..n : s[k] = h.byAge[k]
  BY <1>1
<1>3. x \in [D -> Nat] /\ \A a \in D : x[a] = h.byAddr[a]
  BY <1>1
<1>4. g = [byAge |-> s, byAddr |-> x]
  <2>1. Heap!Cardinality(DOMAIN h.byAddr) = n + 1
    BY <1>1, IndexSize
  <2>2. (n + 1) - 1 = n
    BY <1>1
  <2> HIDE DEF n
  <2> QED BY <2>1, <2>2 DEF Heap!PopBack, Heap!At
<1> HIDE DEF n, s, x, g, gone
<1>5. g.byAge = s /\ g.byAddr = x /\ g \in Heaps
  <2>1. D \in SUBSET Peers
    BY <1>1
  <2>2. x \in Indexes
    BY <2>1, <1>3 DEF Indexes
  <2> QED BY <2>2, <1>2, <1>4 DEF Heaps
<1>6. DOMAIN x = D
  BY <1>3
<1>7. \A k \in 1..(n + 1) :
        h.byAge[k].addr \in DOMAIN h.byAddr /\ h.byAddr[h.byAge[k].addr] = k - 1
  BY <1>1 DEF Indexed
<1>8. ASSUME NEW a \in D
      PROVE  x[a] \in 0..(n - 1) /\ s[x[a] + 1] = EntryOf(h, a) /\ s[x[a] + 1].addr = a
  <2>1. h.byAddr[a] \in 0..n /\ h.byAge[h.byAddr[a] + 1].addr = a
    BY <1>1, IndexOf
  <2>2. h.byAddr[a] # n
    BY <2>1 DEF gone
  <2>3. x[a] = h.byAddr[a] /\ x[a] \in 0..(n - 1) /\ x[a] + 1 \in 1..n
    BY <2>1, <2>2, <1>1, <1>3
  <2> QED BY <2>1, <2>3, <1>2 DEF EntryOf
<1>9. ASSUME NEW k \in 1..n PROVE s[k].addr \in D /\ x[s[k].addr] = k - 1
  <2>1. k \in 1..(n + 1) /\ n + 1 \in 1..(n + 1) /\ k - 1 # (n + 1) - 1
    BY <1>1
  <2>2. h.byAge[k].addr # gone
    BY <2>1, <1>7 DEF gone
  <2> QED BY <2>1, <2>2, <1>2, <1>3, <1>7
<1>10. Indexed(g)
  BY <1>2, <1>5, <1>6, <1>8, <1>9 DEF Indexed
<1>11. InOrder(Seens(g, n), n)
  <2>1. \A k \in 0..(n - 1) : k + 1 \in 1..n
    BY <1>1
  <2>2. Seens(g, n) = Seens(h, n)
    BY <2>1, <1>2, <1>5 DEF Seens
  <2> QED BY <2>2 DEF n
<1>12. Removed(h, g, gone)
  BY <1>5, <1>6, <1>8 DEF Removed, EntryOf
<1> QED BY <1>1, <1>2, <1>5, <1>10, <1>11, <1>12 DEF Good, n, g, gone

(* container/heap's Pop: the entry unseen for longest.                     *)
LEMMA PoppedHeap ==
  ASSUME NEW h, Good(h), Len(h.byAge) > 0
  PROVE  /\ Good(Heap!Pop(h)) /\ Len(Heap!Pop(h).byAge) = Len(h.byAge) - 1
         /\ Removed(h, Heap!Pop(h), h.byAge[1].addr)
<1> DEFINE n == Len(h.byAge) - 1
           f == Heap!Swap(h, 0, n)
           d == Heap!Down(f, 0, n)
<1>0. Indexed(h) /\ InOrder(Seens(h, Len(h.byAge)), Len(h.byAge))
  BY DEF Good
<1>1. n \in Nat /\ Len(h.byAge) = n + 1 /\ 0 \in 0..n /\ n \in 0..n /\ n + 1 \in 1..(n + 1)
  BY <1>0, HeapTypes
<1>2. Indexed(f) /\ SameEntries(h, f) /\ Exchanged(h, f, 0, n)
  BY <1>0, <1>1, Swapped
<1>3. Heap!Pop(h) = Heap!PopBack(d.heap)
  BY DEF Heap!Pop, Heap!Size
<1> HIDE DEF n, f
<1>4. Len(f.byAge) = n + 1 /\ n \in 0..Len(f.byAge)
  BY <1>1, <1>2 DEF SameEntries
<1>5. f.byAge[n + 1] = h.byAge[1] /\ \A k \in 2..n : f.byAge[k] = h.byAge[k]
  <2>1. \A k \in 1..(n + 1) : f.byAge[k] = IF k = 0 + 1 THEN h.byAge[n + 1]
                                           ELSE IF k = n + 1 THEN h.byAge[0 + 1] ELSE h.byAge[k]
    BY <1>1, <1>2 DEF Exchanged
  <2>2. f.byAge[n + 1] = h.byAge[1]
    BY <1>1, <2>1
  <2>3. \A k \in 2..n : k \in 1..(n + 1) /\ k # 1 /\ k # n + 1
    BY <1>1
  <2> QED BY <2>1, <2>2, <2>3
<1>6. OrderedBut(Seens(f, n), n, 0)
  <2>1. ASSUME NEW p \in 0..(n - 1), NEW c \in 0..(n - 1), Child(p, c), p # 0
        PROVE  Seens(f, n)[p] <= Seens(f, n)[c]
    <3>1. p \in 0..n /\ c \in 0..n /\ p + 1 \in 2..n /\ c + 1 \in 2..n
      BY <2>1, <1>1 DEF Child
    <3>2. Seens(f, n)[p] = h.byAge[p + 1].seen /\ Seens(f, n)[c] = h.byAge[c + 1].seen
      BY <3>1, <1>5 DEF Seens
    <3>3. (n + 1) - 1 = n
      BY <1>1
    <3>4. Seens(h, n + 1)[p] <= Seens(h, n + 1)[c]
      BY <3>1, <3>3, <2>1, <1>0, <1>1 DEF InOrder
    <3>5. Seens(h, n + 1)[p] = h.byAge[p + 1].seen /\ Seens(h, n + 1)[c] = h.byAge[c + 1].seen
      BY <3>1, <3>3 DEF Seens
    <3> QED BY <3>2, <3>4, <3>5
  <2>2. \A p \in 0..(n - 1) : ~Child(p, 0)
    BY <1>1 DEF Child
  <2> QED BY <2>1, <2>2 DEF OrderedBut
<1>7. d \in Sinking(f, n, 0) /\ InOrder(Seens(d.heap, n), n)
  BY <1>2, <1>4, <1>6, DownSorts
<1> HIDE DEF d
<1>8. /\ Indexed(d.heap) /\ SameEntries(f, d.heap)
      /\ d.heap.byAge[n + 1] = f.byAge[n + 1]
  <2>1. n \in n..(Len(f.byAge) - 1)
    BY <1>1, <1>4
  <2> QED BY <2>1, <1>7 DEF Sinking
<1>9. Len(d.heap.byAge) = n + 1 /\ SameEntries(h, d.heap)
  BY <1>2, <1>4, <1>8, SameTrans DEF SameEntries
<1>10. Len(d.heap.byAge) > 0 /\ Len(d.heap.byAge) - 1 = n
  BY <1>1, <1>9
<1>11. /\ Good(Heap!Pop(h)) /\ Len(Heap!Pop(h).byAge) = n
       /\ Removed(d.heap, Heap!Pop(h), h.byAge[1].addr)
  BY <1>3, <1>5, <1>7, <1>8, <1>9, <1>10, PoppedBack
<1>12. Removed(h, Heap!Pop(h), h.byAge[1].addr)
  BY <1>9, <1>11 DEF Removed, SameEntries
<1> QED BY <1>1, <1>11, <1>12

(* removeExpired: exactly the entries that had expired by time t.          *)
Expires(h, a, t) == t - EntryOf(h, a).seen >= HeapTimeout

(* What its loop may have made of h.                                       *)
Expiring(h, t) ==
  {g \in Heaps :
     /\ Good(g) /\ DOMAIN g.byAddr \subseteq DOMAIN h.byAddr
     /\ \A a \in DOMAIN g.byAddr : EntryOf(g, a) = EntryOf(h, a)
     /\ \A a \in DOMAIN h.byAddr \ DOMAIN g.byAddr : Expires(h, a, t)}

LEMMA ExpiringStep ==
  ASSUME NEW h, Good(h), NEW t \in Nat, NEW g \in Expiring(h, t)
  PROVE  /\ Heap!PopIfExpired(g, t) \in Expiring(h, t)
         /\ \/ /\ Heap!PopIfExpired(g, t) = g
               /\ \A a \in DOMAIN g.byAddr : ~Expires(h, a, t)
            \/ Len(g.byAge) > 0 /\ Len(Heap!PopIfExpired(g, t).byAge) = Len(g.byAge) - 1
<1> DEFINE e == g.byAge[1]
           f == Heap!Pop(g)
<1>1. /\ Good(g) /\ Indexed(g) /\ DOMAIN g.byAddr \subseteq DOMAIN h.byAddr
      /\ \A a \in DOMAIN g.byAddr : EntryOf(g, a) = EntryOf(h, a)
      /\ \A a \in DOMAIN h.byAddr \ DOMAIN g.byAddr : Expires(h, a, t)
  BY DEF Expiring, Good
<1>2. Len(g.byAge) \in Nat /\ \A k \in 1..Len(g.byAge) : g.byAge[k].seen \in Nat
  BY <1>1, HeapTypes
<1>3. Heap!PopIfExpired(g, t) =
        IF Len(g.byAge) > 0 /\ t - e.seen >= HeapTimeout THEN f ELSE g
  BY DEF Heap!PopIfExpired, Heap!Size, Heap!At
<1>4. CASE Len(g.byAge) > 0 /\ t - e.seen >= HeapTimeout
  <2>1. Good(f) /\ Len(f.byAge) = Len(g.byAge) - 1 /\ Removed(g, f, e.addr)
    BY <1>1, <1>4, PoppedHeap
  <2>2. e.addr \in DOMAIN g.byAddr /\ EntryOf(g, e.addr) = e
    <3>1. 1 \in 1..Len(g.byAge)
      BY <1>2, <1>4
    <3>2. e.addr \in DOMAIN g.byAddr /\ g.byAddr[e.addr] = 1 - 1
      BY <3>1, <1>1 DEF Indexed
    <3> QED BY <3>2 DEF EntryOf
  <2>3. Expires(h, e.addr, t)
    BY <2>2, <1>1, <1>4 DEF Expires
  <2>4. f \in Heaps
    BY <2>1 DEF Good, Indexed
  <2> HIDE DEF f, e
  <2>5. f \in Expiring(h, t)
    BY <2>1, <2>2, <2>3, <2>4, <1>1 DEF Expiring, Removed
  <2> QED BY <2>1, <2>5, <1>3, <1>4
<1>5. CASE ~(Len(g.byAge) > 0 /\ t - e.seen >= HeapTimeout)
  <2>1. ASSUME NEW a \in DOMAIN g.byAddr PROVE ~Expires(h, a, t)
    <3> DEFINE k == g.byAddr[a]
               n == Len(g.byAge)
               v == Seens(g, n)
    <3>1. k \in 0..(n - 1) /\ n \in Nat /\ n > 0 /\ 0 \in 0..(n - 1) /\ n \in 0..n
      BY <1>1, <1>2, IndexOf
    <3>2. v \in [0..(n - 1) -> Nat] /\ v[k] = g.byAge[k + 1].seen /\ v[0] = e.seen
      <4>1. v \in [0..(n - 1) -> Nat]
        BY <3>1, <1>1, SeensType
      <4>2. v[k] = g.byAge[k + 1].seen
        BY <3>1 DEF Seens
      <4>3. v[0] = g.byAge[0 + 1].seen
        BY <3>1 DEF Seens
      <4> QED BY <4>1, <4>2, <4>3
    <3>3. InOrder(v, n)
      BY <1>1 DEF Good
    <3> HIDE DEF k, n, v
    <3>4. v[0] <= v[k]
      BY <3>1, <3>2, <3>3, RootIsLeast
    <3>5. v[0] \in Nat /\ v[k] \in Nat
      BY <3>1, <3>2
    <3>6. EntryOf(h, a).seen = v[k]
      BY <3>2, <1>1, <2>1 DEF EntryOf, k
    <3>7. ~(t - v[0] >= HeapTimeout)
      BY <3>1, <3>2, <1>5 DEF n
    <3> QED BY <3>4, <3>5, <3>6, <3>7, HeapAssumption DEF Expires
  <2> QED BY <2>1, <1>3, <1>5
<1> QED BY <1>4, <1>5

LEMMA ExpiredPopped ==
  ASSUME NEW h, Good(h), NEW t \in Nat
  PROVE  /\ Heap!PopExpired(h, t) \in Expiring(h, t)
         /\ \A a \in DOMAIN Heap!PopExpired(h, t).byAddr : ~Expires(h, a, t)
<1> DEFINE S == Expiring(h, t)
           n == Heap!Size(h)
           F == [g \in S |-> Heap!PopIfExpired(g, t)]
           Body(f, k) == IF k = 0 THEN h ELSE Heap!PopIfExpired(f[k - 1], t)
           popped == CHOOSE f : f = [k \in 0..n |-> Body(f, k)]
           Stopped(g) == \A a \in DOMAIN g.byAddr : ~Expires(h, a, t)
<1>0. Indexed(h) /\ n \in Nat /\ n = Len(h.byAge)
  BY HeapTypes DEF Good, Heap!Size
<1>1. h \in S
  BY <1>0 DEF Expiring, Indexed
<1>2. \A g \in S : /\ Heap!PopIfExpired(g, t) \in S
                   /\ \/ Heap!PopIfExpired(g, t) = g /\ Stopped(g)
                      \/ /\ Len(g.byAge) > 0
                         /\ Len(Heap!PopIfExpired(g, t).byAge) = Len(g.byAge) - 1
  BY ExpiringStep
<1>3. \A g \in S : Len(g.byAge) \in Nat
  BY HeapTypes DEF Expiring, Good
<1>4. F \in [S -> S] /\ \A g \in S : F[g] = Heap!PopIfExpired(g, t)
  <2> HIDE DEF S, Stopped
  <2> QED BY <1>2
<1> HIDE DEF F, S, n, Stopped
<1>5. PICK f : IsRepetition(f, n, S, h, F)
  BY <1>0, <1>1, <1>4, Repeated
<1>6. f = [k \in 0..n |-> Body(f, k)]
  <2>1. ASSUME NEW k \in 0..n PROVE f[k] = Body(f, k)
    <3>1. CASE k = 0
      BY <3>1, <1>5 DEF IsRepetition
    <3>2. CASE k # 0
      <4>1. k \in 1..n /\ k - 1 \in 0..n
        BY <3>2, <1>0
      <4>2. f[k] = F[f[k - 1]] /\ f[k - 1] \in S
        BY <4>1, <1>5 DEF IsRepetition
      <4> QED BY <4>2, <3>2, <1>4
    <3> QED BY <3>1, <3>2
  <2> HIDE DEF Body
  <2> QED BY <2>1, <1>5 DEF IsRepetition
<1>7. popped = [k \in 0..n |-> Body(popped, k)]
  <2> HIDE DEF Body
  <2> QED BY <1>6
<1>8. Heap!PopExpired(h, t) = popped[n]
  BY DEF Heap!PopExpired, n
<1>9. \A k \in 0..n : popped[k] = IF k = 0 THEN h ELSE Heap!PopIfExpired(popped[k - 1], t)
  <2> DEFINE p == popped
  <2>1. p = [k \in 0..n |-> Body(p, k)]
    BY <1>7
  <2> HIDE DEF p
  <2>2. \A k \in 0..n : p[k] = Body(p, k)
    <3> HIDE DEF Body
    <3> QED BY <2>1
  <2> QED BY <2>2 DEF p
<1> HIDE DEF popped
<1>10. popped[n] \in S /\ (Stopped(popped[n]) \/ Len(popped[n].byAge) = 0)
  <2> DEFINE Done == {k \in Nat : k <= n =>
                        /\ popped[k] \in S
                        /\ \/ Stopped(popped[k]) /\ Heap!PopIfExpired(popped[k], t) = popped[k]
                           \/ Len(popped[k].byAge) = n - k}
  <2>1. 0 \in Done
    BY <1>0, <1>1, <1>9
  <2>2. ASSUME NEW k \in Nat, k \in Done PROVE k + 1 \in Done
    <3> SUFFICES ASSUME k + 1 <= n
                 PROVE  /\ popped[k + 1] \in S
                        /\ \/ /\ Stopped(popped[k + 1])
                              /\ Heap!PopIfExpired(popped[k + 1], t) = popped[k + 1]
                           \/ Len(popped[k + 1].byAge) = n - (k + 1)
      OBVIOUS
    <3>1. popped[k] \in S /\ popped[k + 1] = Heap!PopIfExpired(popped[k], t)
      BY <1>0, <1>9, <2>2
    <3>2. popped[k + 1] \in S
      BY <3>1, <1>2
    <3>3. CASE Heap!PopIfExpired(popped[k], t) = popped[k] /\ Stopped(popped[k])
      BY <3>1, <3>2, <3>3
    <3>4. CASE /\ Len(popped[k].byAge) > 0
               /\ Len(Heap!PopIfExpired(popped[k], t).byAge) = Len(popped[k].byAge) - 1
      <4>1. CASE Stopped(popped[k]) /\ Heap!PopIfExpired(popped[k], t) = popped[k]
        BY <4>1, <3>3
      <4>2. CASE Len(popped[k].byAge) = n - k
        BY <4>2, <3>1, <3>2, <3>4, <1>0
      <4> QED BY <4>1, <4>2, <2>2, <1>0
    <3> QED BY <3>1, <3>3, <3>4, <1>2
  <2>3. Nat \subseteq Done
    <3> HIDE DEF Done
    <3> QED BY <2>1, <2>2, SetInduction
  <2>4. n \in Done
    BY <2>3, <1>0
  <2> QED BY <2>4, <1>0
<1>11. CASE Len(popped[n].byAge) = 0
  <2>1. Indexed(popped[n])
    BY <1>10 DEF S, Expiring, Good
  <2>2. \A a \in DOMAIN popped[n].byAddr : FALSE
    BY <2>1, <1>11, IndexOf
  <2> QED BY <2>2, <1>8, <1>10 DEF S
<1> QED BY <1>8, <1>10, <1>11 DEF S, Stopped

-----------------------------------------------------------------------------
(* The inductive invariant: the heap is indexed and in order, no record    *)
(* was seen later than now, and the sweep is not later than it may be.     *)
HeapTypesOK ==
  /\ now \in Nat /\ wakeAt \in Nat /\ swept \in Nat
  /\ heapStash \in [Records -> Stashed \cup {None}]
  /\ heapAsked \in [Callers -> Peers \cup {None}]
  /\ heapRef \in [Callers -> Records \cup {None}]
  /\ sweep \in {"asleep", "timed"}

InnerOK == Good(Heap!inner) /\ SeenBy(Heap!inner, now)

HeapIInv ==
  /\ HeapTypesOK /\ InnerOK
  /\ sweep = "timed" => swept <= now /\ now - swept <= HeapLag

LEMMA SeenByEntries ==
  ASSUME NEW h, Indexed(h), NEW t \in Nat
  PROVE  SeenBy(h, t) <=> \A a \in DOMAIN h.byAddr : EntryOf(h, a).seen <= t
<1>1. ASSUME NEW k \in 1..Len(h.byAge)
      PROVE  h.byAge[k].addr \in DOMAIN h.byAddr /\ EntryOf(h, h.byAge[k].addr) = h.byAge[k]
  <2>1. h.byAge[k].addr \in DOMAIN h.byAddr /\ h.byAddr[h.byAge[k].addr] = k - 1
    BY DEF Indexed
  <2>2. (k - 1) + 1 = k
    OBVIOUS
  <2> QED BY <2>1, <2>2 DEF EntryOf
<1>2. \A a \in DOMAIN h.byAddr : h.byAddr[a] + 1 \in 1..Len(h.byAge)
  BY IndexOf
<1> QED BY <1>1, <1>2 DEF SeenBy, EntryOf

LEMMA InnerFacts ==
  ASSUME HeapIInv
  PROVE  /\ Indexed(Heap!inner) /\ Good(Heap!inner) /\ DOMAIN byAddr \subseteq Peers
         /\ \A a \in DOMAIN byAddr :
              /\ EntryOf(Heap!inner, a) = byAge[byAddr[a] + 1]
              /\ byAge[byAddr[a] + 1] \in Entries
              /\ byAge[byAddr[a] + 1].addr = a
              /\ byAge[byAddr[a] + 1].rec \in Records
              /\ byAge[byAddr[a] + 1].seen \in Nat
              /\ byAge[byAddr[a] + 1].seen <= now
<1>1. Good(Heap!inner) /\ Indexed(Heap!inner) /\ SeenBy(Heap!inner, now) /\ now \in Nat
  BY DEF HeapIInv, HeapTypesOK, InnerOK, Good
<1>2. Heap!inner.byAge = byAge /\ Heap!inner.byAddr = byAddr
  BY DEF Heap!inner
<1>3. DOMAIN byAddr \subseteq Peers
  BY <1>1, <1>2, HeapTypes
<1>4. ASSUME NEW a \in DOMAIN byAddr
      PROVE  /\ EntryOf(Heap!inner, a) = byAge[byAddr[a] + 1]
             /\ byAge[byAddr[a] + 1] \in Entries
             /\ byAge[byAddr[a] + 1].addr = a
             /\ byAge[byAddr[a] + 1].seen <= now
  <2>1. byAddr[a] + 1 \in 1..Len(byAge) /\ byAge[byAddr[a] + 1].addr = a
    BY <1>1, <1>2, IndexOf
  <2>2. byAge[byAddr[a] + 1] \in Entries
    BY <2>1, <1>1, <1>2, HeapTypes
  <2> QED BY <2>1, <2>2, <1>1, <1>2 DEF EntryOf, SeenBy
<1> QED BY <1>1, <1>3, <1>4 DEF Entries

(* What Lookup makes of the map.                                           *)
SeenOf(a) == byAge[byAddr[a] + 1].seen

LEMMA LookupKept ==
  ASSUME HeapIInv, NEW a \in Peers, NEW r \in Records, Heap!Lookup(a, r), UNCHANGED now
  PROVE  /\ InnerOK'
         /\ DOMAIN byAddr' = DOMAIN byAddr \cup {a}
         /\ SeenOf(a)' = now /\ Heap!RecordOf(a)' = r
         /\ \A b \in Peers \ {a} : Heap!RecordOf(b)' = Heap!RecordOf(b)
         /\ \A b \in DOMAIN byAddr \ {a} : SeenOf(b)' = SeenOf(b)
<1> DEFINE h == Heap!inner
           g == Heap!inner'
<1>1. /\ Good(h) /\ Indexed(h) /\ SeenBy(h, now) /\ now \in Nat
      /\ h.byAge = byAge /\ h.byAddr = byAddr
  BY InnerFacts DEF HeapIInv, HeapTypesOK, InnerOK, Heap!inner
<1>2. g = [byAge |-> byAge', byAddr |-> byAddr']
  BY DEF Heap!inner
<1>3. g.byAge = byAge' /\ g.byAddr = byAddr'
  BY <1>2
<1>4. CASE a \in DOMAIN byAddr
  <2> DEFINE f == Heap!Refreshed(h, byAddr[a], now)
  <2>1. Good(f) /\ SeenAgain(h, f, a, now)
    BY <1>1, <1>4, RefreshedHeap
  <2>2. byAge' = f.byAge /\ byAddr' = f.byAddr /\ r = byAge[byAddr[a] + 1].rec
    BY <1>4 DEF Heap!Lookup
  <2> HIDE DEF f, h
  <2>3. f = g
    BY <2>1, <2>2, <1>2 DEF Good, Indexed, Heaps
  <2> HIDE DEF g
  <2>4. DOMAIN byAddr' = DOMAIN byAddr /\ Good(g)
    BY <2>1, <2>3, <1>1, <1>3 DEF SeenAgain
  <2>5. \A b \in DOMAIN byAddr : byAge'[byAddr'[b] + 1] =
          IF b = a THEN [byAge[byAddr[b] + 1] EXCEPT !.seen = now] ELSE byAge[byAddr[b] + 1]
    BY <2>1, <2>3, <1>1, <1>3 DEF SeenAgain, EntryOf
  <2>6. byAge[byAddr[a] + 1] \in [addr : Peers, rec : Records, seen : Nat]
    BY <1>4, InnerFacts DEF Entries
  <2>7. byAge'[byAddr'[a] + 1].seen = now /\ byAge'[byAddr'[a] + 1].rec = r
    BY <2>2, <2>5, <2>6, <1>4
  <2>8. SeenBy(g, now)
    <3>1. ASSUME NEW b \in DOMAIN byAddr PROVE byAge'[byAddr'[b] + 1].seen <= now
      <4>1. CASE b = a
        BY <4>1, <2>7, <1>1
      <4>2. CASE b # a
        BY <4>2, <2>5, InnerFacts
      <4> QED BY <4>1, <4>2
    <3>2. Indexed(g)
      BY <2>4 DEF Good
    <3> QED BY <3>1, <3>2, <2>4, <1>1, <1>3, SeenByEntries DEF EntryOf
  <2>9. InnerOK'
    BY <2>4, <2>8 DEF InnerOK, g
  <2> QED BY <2>4, <2>5, <2>7, <2>9, <1>4 DEF SeenOf, Heap!RecordOf
<1>5. CASE a \notin DOMAIN byAddr
  <2> DEFINE e == [addr |-> a, rec |-> r, seen |-> now]
             f == Heap!Push(h, e)
  <2>0. e \in Entries /\ e.addr = a /\ e.seen = now /\ e.rec = r
    BY <1>1 DEF Entries
  <2>1. Good(f) /\ Added(h, f, e)
    <3> HIDE DEF e
    <3> QED BY <2>0, <1>1, <1>5, PushedHeap
  <2>2. byAge' = f.byAge /\ byAddr' = f.byAddr
    BY <1>5 DEF Heap!Lookup
  <2> HIDE DEF f, h, e
  <2>3. f = g
    BY <2>1, <2>2, <1>2 DEF Good, Indexed, Heaps
  <2> HIDE DEF g
  <2>4. DOMAIN byAddr' = DOMAIN byAddr \cup {a} /\ Good(g)
    BY <2>0, <2>1, <2>3, <1>1, <1>3 DEF Added
  <2>5. /\ byAge'[byAddr'[a] + 1] = e
        /\ \A b \in DOMAIN byAddr : byAge'[byAddr'[b] + 1] = byAge[byAddr[b] + 1]
    BY <2>0, <2>1, <2>3, <1>1, <1>3 DEF Added, EntryOf
  <2>8. SeenBy(g, now)
    <3>1. \A b \in DOMAIN byAddr' : byAge'[byAddr'[b] + 1].seen <= now
      BY <2>0, <2>4, <2>5, <1>1, InnerFacts
    <3>2. Indexed(g)
      BY <2>4 DEF Good
    <3> QED BY <3>1, <3>2, <1>1, <1>3, SeenByEntries DEF EntryOf
  <2>9. InnerOK'
    BY <2>4, <2>8 DEF InnerOK, g
  <2> QED BY <2>0, <2>4, <2>5, <2>9, <1>5 DEF SeenOf, Heap!RecordOf
<1> QED BY <1>4, <1>5

(* What removeExpired makes of it.                                         *)
HasExpired(a) == a \in DOMAIN byAddr /\ swept - SeenOf(a) >= HeapTimeout

LEMMA RemoveKept ==
  ASSUME HeapIInv, Heap!RemoveExpired
  PROVE  /\ InnerOK'
         /\ DOMAIN byAddr' = {a \in DOMAIN byAddr : ~HasExpired(a)}
         /\ \A a \in DOMAIN byAddr' :
              Heap!RecordOf(a)' = Heap!RecordOf(a) /\ SeenOf(a)' = SeenOf(a)
         /\ heapClosed' = heapClosed \cup {Heap!RecordOf(a) : a \in {b \in Peers : HasExpired(b)}}
<1> DEFINE h == Heap!inner
           g == Heap!inner'
           f == Heap!PopExpired(h, swept)
<1>1. /\ Good(h) /\ Indexed(h) /\ SeenBy(h, now) /\ now \in Nat /\ swept \in Nat
      /\ h.byAge = byAge /\ h.byAddr = byAddr
  BY InnerFacts DEF HeapIInv, HeapTypesOK, InnerOK, Heap!inner
<1>2. g = [byAge |-> byAge', byAddr |-> byAddr']
  BY DEF Heap!inner
<1>3. g.byAge = byAge' /\ g.byAddr = byAddr'
  BY <1>2
<1>4. f \in Expiring(h, swept) /\ \A a \in DOMAIN f.byAddr : ~Expires(h, a, swept)
  BY <1>1, ExpiredPopped
<1>5. /\ byAge' = f.byAge /\ byAddr' = f.byAddr /\ now' = now
      /\ heapClosed' = heapClosed \cup {Heap!RecordOf(a) : a \in DOMAIN byAddr \ DOMAIN f.byAddr}
  BY DEF Heap!RemoveExpired
<1> HIDE DEF f, h
<1>6. f = g /\ Good(g) /\ Indexed(g)
  BY <1>2, <1>4, <1>5 DEF Expiring, Heaps, Good
<1> HIDE DEF g
<1>7. /\ DOMAIN byAddr' \subseteq DOMAIN byAddr
      /\ \A a \in DOMAIN byAddr' : byAge'[byAddr'[a] + 1] = byAge[byAddr[a] + 1]
  BY <1>1, <1>3, <1>4, <1>6 DEF Expiring, EntryOf
<1>8. \A a \in DOMAIN byAddr : Expires(h, a, swept) <=> HasExpired(a)
  BY <1>1 DEF Expires, HasExpired, SeenOf, EntryOf
<1>9. DOMAIN byAddr' = {a \in DOMAIN byAddr : ~HasExpired(a)}
  BY <1>1, <1>3, <1>4, <1>6, <1>7, <1>8 DEF Expiring
<1>10. InnerOK'
  <2>1. \A a \in DOMAIN byAddr' : byAge'[byAddr'[a] + 1].seen <= now
    BY <1>7, InnerFacts
  <2>2. SeenBy(g, now)
    BY <2>1, <1>1, <1>3, <1>6, SeenByEntries DEF EntryOf
  <2> QED BY <2>2, <1>5, <1>6 DEF InnerOK, g
<1>11. DOMAIN byAddr \ DOMAIN f.byAddr = {b \in Peers : HasExpired(b)}
  BY <1>5, <1>9, InnerFacts DEF HasExpired
<1>12. \A a \in DOMAIN byAddr' :
         Heap!RecordOf(a)' = Heap!RecordOf(a) /\ SeenOf(a)' = SeenOf(a)
  BY <1>7 DEF SeenOf, Heap!RecordOf
<1> QED BY <1>5, <1>9, <1>10, <1>11, <1>12

LEMMA HeapInitInv == Heap!Init => HeapIInv
<1> SUFFICES ASSUME Heap!Init PROVE HeapIInv
  OBVIOUS
<1>1. byAge = <<>> /\ byAddr = [a \in {} |-> 0] /\ now = 0 /\ wakeAt = HeapTimeout \div 2
  BY DEF Heap!Init
<1>2. DOMAIN byAddr = {} /\ byAddr \in [{} -> Nat]
  BY <1>1
<1>3. Heap!inner.byAge = <<>> /\ Heap!inner.byAddr = byAddr /\ Len(<<>>) = 0
  BY <1>1 DEF Heap!inner
<1>4. Heap!inner \in Heaps
  <2>1. byAddr \in Indexes
    BY <1>2 DEF Indexes
  <2>2. <<>> \in Seq(Entries)
    OBVIOUS
  <2> QED BY <1>1, <2>1, <2>2 DEF Heap!inner, Heaps
<1>5. Good(Heap!inner)
  BY <1>2, <1>3, <1>4 DEF Good, Indexed, InOrder
<1>6. InnerOK
  BY <1>3, <1>5 DEF InnerOK, SeenBy
<1>7. HeapTimeout \div 2 \in Nat
  BY HeapAssumption
<1> QED BY <1>1, <1>6, <1>7 DEF Heap!Init, HeapIInv, HeapTypesOK

LEMMA HeapNextInv == HeapIInv /\ [Heap!Next]_(Heap!vars) => HeapIInv'
<1> SUFFICES ASSUME HeapIInv, [Heap!Next]_(Heap!vars) PROVE HeapIInv'
  OBVIOUS
<1>0. HeapTypesOK /\ InnerOK
  BY DEF HeapIInv
<1>1. UNCHANGED <<byAge, byAddr, now>> => InnerOK'
  BY <1>0 DEF InnerOK, Heap!inner
<1>2. \A a \in Peers : Heap!RecordOf(a) \in Records \cup {None}
  BY InnerFacts DEF Heap!RecordOf
<1>3. ASSUME NEW t \in Callers, NEW a \in Peers, Heap!FastPath(t, a) PROVE HeapIInv'
  BY <1>0, <1>1, <1>2, <1>3
     DEF Heap!FastPath, Heap!innerVars, Heap!sweepVars, HeapIInv, HeapTypesOK
<1>4. ASSUME NEW a \in Peers
      PROVE  Heap!StashOf(a) \in Stashed \cup {None}
  BY <1>0, InnerFacts DEF Heap!StashOf, Heap!RecordOf, HeapTypesOK
<1>5. ASSUME NEW t \in Callers, Heap!SlowPath(t) PROVE HeapIInv'
  <2>1. heapAsked[t] \in Peers /\ UNCHANGED <<heapAsked, now, sweep, wakeAt, swept>>
    BY <1>0, <1>5 DEF Heap!SlowPath, Heap!sweepVars, HeapTypesOK
  <2>2. PICK r \in Records :
          /\ Heap!Lookup(heapAsked[t], r)
          /\ heapRef' = [heapRef EXCEPT ![t] = r]
          /\ heapStash' = [heapStash EXCEPT ![r] = Heap!StashOf(heapAsked[t])]
    BY <1>5 DEF Heap!SlowPath
  <2>3. InnerOK'
    BY <2>1, <2>2, LookupKept
  <2>4. Heap!StashOf(heapAsked[t]) \in Stashed \cup {None}
    BY <2>1, <1>4
  <2>5. HeapTypesOK'
    BY <2>1, <2>2, <2>4, <1>0 DEF HeapTypesOK
  <2> QED BY <2>1, <2>3, <2>5 DEF HeapIInv
<1>6. ASSUME NEW t \in Callers, Heap!Release(t) \/ Heap!TakeStash(t) PROVE HeapIInv'
  BY <1>0, <1>1, <1>6 DEF Heap!Release, Heap!TakeStash, Heap!innerVars, Heap!sweepVars,
       Heap!callerVars, HeapIInv, HeapTypesOK
<1>7. ASSUME NEW a \in Peers, NEW p \in Stashed, Heap!Stash(a, p) PROVE HeapIInv'
  <2>1. UNCHANGED <<heapAsked, heapRef, now, sweep, wakeAt, swept>>
    BY <1>7 DEF Heap!Stash, Heap!sweepVars, Heap!callerVars
  <2>2. PICK r \in Records :
          /\ Heap!Lookup(a, r)
          /\ heapStash' = [heapStash EXCEPT ![r] = IF Heap!StashOf(a) = None THEN p ELSE @]
    BY <1>7 DEF Heap!Stash
  <2>3. InnerOK'
    BY <2>1, <2>2, LookupKept
  <2>5. HeapTypesOK'
    BY <2>1, <2>2, <1>0 DEF HeapTypesOK
  <2> QED BY <2>1, <2>3, <2>5 DEF HeapIInv
<1>8. CASE Heap!ReadTime
  BY <1>0, <1>1, <1>8, HeapAssumption DEF Heap!ReadTime, Heap!innerVars, Heap!callerVars,
       HeapIInv, HeapTypesOK
<1>9. CASE Heap!RemoveExpired
  <2>1. InnerOK'
    BY <1>9, RemoveKept
  <2>2. HeapTimeout \div 2 \in Nat
    BY HeapAssumption
  <2> QED BY <1>0, <1>9, <2>1, <2>2
             DEF Heap!RemoveExpired, Heap!callerVars, HeapIInv, HeapTypesOK
<1>10. CASE Heap!Tick
  <2>1. now' = now + 1 /\ UNCHANGED <<byAge, byAddr>>
    BY <1>10 DEF Heap!Tick, Heap!innerVars
  <2>2. Indexed(Heap!inner) /\ now \in Nat /\ now' \in Nat
    BY <2>1, <1>0, InnerFacts DEF HeapTypesOK
  <2>3. SeenBy(Heap!inner, now')
    <3>1. \A k \in 1..Len(Heap!inner.byAge) : Heap!inner.byAge[k].seen \in Nat
      BY <2>2, HeapTypes
    <3> QED BY <3>1, <2>1, <2>2, <1>0 DEF InnerOK, SeenBy
  <2>4. InnerOK'
    BY <2>1, <2>3, <1>0 DEF InnerOK, Heap!inner
  <2> QED BY <1>0, <1>10, <2>1, <2>2, <2>4, HeapAssumption
             DEF Heap!Tick, Heap!callerVars, Heap!sweepVars, HeapIInv, HeapTypesOK
<1>11. CASE UNCHANGED Heap!vars
  BY <1>0, <1>1, <1>11 DEF Heap!vars, Heap!innerVars, Heap!callerVars, Heap!sweepVars,
       HeapIInv, HeapTypesOK
<1> QED BY <1>3, <1>5, <1>6, <1>7, <1>8, <1>9, <1>10, <1>11 DEF Heap!Next, Peers

LEMMA HeapInv == Heap!Spec => []HeapIInv
BY HeapInitInv, HeapNextInv, PTL DEF Heap!Spec

(* Heap and index agree whatever Lookup, Stash and removeExpired do, with  *)
(* any number of peers, so that none of the panics of remotemap.go (:160,  *)
(* :178) is reached and no peer gets another peer's queue.                 *)
THEOREM IndexIsConsistent == Heap!Spec => []IndexConsistent
<1>1. HeapIInv => IndexConsistent
  <2> SUFFICES ASSUME HeapIInv PROVE IndexConsistent
    OBVIOUS
  <2>1. Indexed(Heap!inner)
    BY InnerFacts
  <2>2. Heap!inner.byAge = byAge /\ Heap!inner.byAddr = byAddr
    BY DEF Heap!inner
  <2>3. Heap!Cardinality(DOMAIN byAddr) = Len(byAge)
    BY <2>1, <2>2, IndexSize
  <2>4. \A a \in DOMAIN byAddr :
          byAddr[a] \in 0..(Len(byAge) - 1) /\ byAge[byAddr[a] + 1].addr = a
    BY <2>1, <2>2, IndexOf
  <2> QED BY <2>3, <2>4 DEF IndexConsistent, Heap!IndexConsistent
<1> QED BY <1>1, HeapInv, PTL

-----------------------------------------------------------------------------
(* The heap and the index implement the map of module RemoteMap.           *)
AgeOf(a) ==
  IF a \notin DOMAIN byAddr THEN 0
  ELSE LET t == now - byAge[byAddr[a] + 1].seen
       IN  IF t < HeapTimeout + HeapLag THEN t ELSE HeapTimeout + HeapLag

Currents == [a \in Peers |-> Heap!RecordOf(a)]
Ages == [a \in Peers |-> AgeOf(a)]
Nap == IF wakeAt > now THEN wakeAt - now ELSE 0
Lag == IF sweep = "timed" THEN now - swept ELSE 0

LEMMA NoneIsNoRecord ==
  ASSUME HeapIInv, NEW a \in Peers
  PROVE  /\ Heap!RecordOf(a) \in Records \cup {None} /\ None \notin Records
         /\ (Heap!RecordOf(a) = None) <=> (a \notin DOMAIN byAddr)
BY InnerFacts, MapAssumption DEF Heap!RecordOf

LEMMA LookupImplemented ==
  ASSUME HeapIInv, NEW a \in Peers, NEW r \in Records, Heap!Lookup(a, r), UNCHANGED now
  PROVE  Heap!Map!Lookup(a, r)
<1>1. /\ DOMAIN byAddr' = DOMAIN byAddr \cup {a}
      /\ SeenOf(a)' = now /\ Heap!RecordOf(a)' = r
      /\ \A b \in Peers \ {a} : Heap!RecordOf(b)' = Heap!RecordOf(b)
      /\ \A b \in DOMAIN byAddr \ {a} : SeenOf(b)' = SeenOf(b)
  BY LookupKept
<1>2. now \in Nat /\ HeapTimeout \in Nat /\ HeapLag \in Nat
  BY HeapAssumption DEF HeapIInv, HeapTypesOK
<1>3. AgeOf(a)' = 0
  <2>1. now' - byAge'[byAddr'[a] + 1].seen = 0 /\ a \in DOMAIN byAddr'
    BY <1>1, <1>2 DEF SeenOf
  <2> QED BY <2>1, <1>2 DEF AgeOf
<1>4. \A b \in Peers \ {a} : AgeOf(b)' = AgeOf(b)
  BY <1>1 DEF AgeOf, SeenOf
<1>5. Ages' = [Ages EXCEPT ![a] = 0]
  <2>1. Ages' = [b \in Peers |-> AgeOf(b)']
    BY DEF Ages
  <2> QED BY <2>1, <1>3, <1>4 DEF Ages
<1>6. Currents' = [b \in Peers |-> IF b = a THEN r ELSE Heap!RecordOf(b)]
  <2>1. Currents' = [b \in Peers |-> Heap!RecordOf(b)']
    BY DEF Currents
  <2> QED BY <2>1, <1>1
<1>7. CASE a \in DOMAIN byAddr
  <2>1. Heap!RecordOf(a) = r /\ UNCHANGED heapClosed
    BY <1>7 DEF Heap!Lookup, Heap!RecordOf
  <2>2. Currents' = Currents /\ Currents[a] = r
    BY <2>1, <1>6 DEF Currents
  <2> QED BY <2>1, <2>2, <1>5
             DEF Heap!Map!Lookup, Heap!Map!Found, Currents, Ages, AgeOf, Peers
<1>8. CASE a \notin DOMAIN byAddr
  <2>1. /\ Heap!RecordOf(a) = None /\ heapClosed' = heapClosed \ {r}
        /\ \A i \in DOMAIN byAge : byAge[i].rec # r
        /\ \A t \in Callers : heapRef[t] # r
    BY <1>8 DEF Heap!Lookup, Heap!RecordOf
  <2>2. \A b \in Peers : Heap!RecordOf(b) # r
    <3>1. \A b \in DOMAIN byAddr : byAddr[b] + 1 \in DOMAIN byAge
      <4>1. Heap!inner.byAge = byAge /\ Heap!inner.byAddr = byAddr
        BY DEF Heap!inner
      <4>2. byAge \in Seq(Entries)
        BY <4>1, InnerFacts, HeapTypes
      <4> QED BY <4>1, <4>2, InnerFacts, IndexOf
    <3> QED BY <3>1, <2>1, NoneIsNoRecord DEF Heap!RecordOf
  <2>3. Currents[a] = None /\ \A b \in Peers : Currents[b] # r
    BY <2>1, <2>2 DEF Currents
  <2>4. Currents' = [Currents EXCEPT ![a] = r]
    BY <1>6 DEF Currents
  <2>5. ~Heap!Map!Reachable(r)
    BY <2>1, <2>3 DEF Heap!Map!Reachable, Currents, Peers
  <2> QED BY <2>1, <2>3, <2>4, <2>5, <1>5
             DEF Heap!Map!Lookup, Heap!Map!Create, Currents, Ages, AgeOf, Peers
<1> QED BY <1>7, <1>8

(* Steps that leave the heap and the time alone, or what the sweep knows.  *)
LEMMA MapStays ==
  /\ UNCHANGED <<byAge, byAddr, now>> => UNCHANGED <<Currents, Ages>>
  /\ UNCHANGED <<now, sweep, wakeAt, swept>> => UNCHANGED <<Nap, Lag>>
<1>1. UNCHANGED <<byAge, byAddr>> => Currents' = Currents
  BY DEF Currents, Heap!RecordOf
<1>2. UNCHANGED <<byAge, byAddr, now>> => Ages' = Ages
  BY DEF Ages, AgeOf
<1>3. UNCHANGED <<now, sweep, wakeAt, swept>> => UNCHANGED <<Nap, Lag>>
  BY DEF Nap, Lag
<1> QED BY <1>1, <1>2, <1>3

LEMMA RemoveImplemented ==
  ASSUME HeapIInv, Heap!RemoveExpired
  PROVE  Heap!Map!RemoveExpired
<1>1. /\ DOMAIN byAddr' = {a \in DOMAIN byAddr : ~HasExpired(a)}
      /\ \A a \in DOMAIN byAddr' :
           Heap!RecordOf(a)' = Heap!RecordOf(a) /\ SeenOf(a)' = SeenOf(a)
      /\ heapClosed' = heapClosed \cup {Heap!RecordOf(a) : a \in {b \in Peers : HasExpired(b)}}
  BY RemoveKept
<1>2. /\ now \in Nat /\ swept \in Nat /\ HeapTimeout \in Nat /\ HeapLag \in Nat
      /\ sweep = "timed" /\ sweep' = "asleep" /\ now' = now
      /\ swept <= now /\ now - swept <= HeapLag /\ wakeAt' = now + HeapTimeout \div 2
      /\ UNCHANGED <<heapStash, heapAsked, heapRef>>
  BY HeapAssumption DEF HeapIInv, HeapTypesOK, Heap!RemoveExpired, Heap!callerVars
<1>3. ASSUME NEW a \in Peers
      PROVE  (Currents[a] # None /\ Ages[a] >= HeapTimeout + Lag) <=> HasExpired(a)
  <2>1. CASE a \notin DOMAIN byAddr
    BY <2>1, NoneIsNoRecord DEF Currents, HasExpired
  <2>2. CASE a \in DOMAIN byAddr
    <3>1. SeenOf(a) \in Nat /\ SeenOf(a) <= now /\ Currents[a] # None
      BY <2>2, InnerFacts, NoneIsNoRecord DEF SeenOf, Currents
    <3>2. Ages[a] = IF now - SeenOf(a) < HeapTimeout + HeapLag THEN now - SeenOf(a)
                    ELSE HeapTimeout + HeapLag
      BY <2>2 DEF Ages, AgeOf, SeenOf
    <3>3. Lag = now - swept
      BY <1>2 DEF Lag
    <3>4. (Ages[a] >= HeapTimeout + (now - swept)) <=> (swept - SeenOf(a) >= HeapTimeout)
      BY <3>1, <3>2, <1>2
    <3> QED BY <2>2, <3>1, <3>3, <3>4 DEF HasExpired
  <2> QED BY <2>1, <2>2
<1>4. Heap!Map!Expired = {a \in Peers : HasExpired(a)}
  <2>1. Heap!Map!Expired = {a \in Peers : Currents[a] # None /\ Ages[a] >= HeapTimeout + Lag}
    BY DEF Heap!Map!Expired, Currents, Ages, AgeOf, Lag, Peers
  <2> QED BY <2>1, <1>3
<1>5. ASSUME NEW a \in Peers
      PROVE  /\ Heap!RecordOf(a)' = IF HasExpired(a) THEN None ELSE Heap!RecordOf(a)
             /\ AgeOf(a)' = IF HasExpired(a) THEN 0 ELSE AgeOf(a)
  <2>1. CASE HasExpired(a)
    <3>1. a \notin DOMAIN byAddr'
      BY <2>1, <1>1
    <3> QED BY <2>1, <3>1 DEF Heap!RecordOf, AgeOf
  <2>2. CASE ~HasExpired(a) /\ a \in DOMAIN byAddr
    <3>1. /\ a \in DOMAIN byAddr' /\ Heap!RecordOf(a)' = Heap!RecordOf(a)
          /\ SeenOf(a)' = SeenOf(a)
      BY <2>2, <1>1
    <3> QED BY <2>2, <3>1, <1>2 DEF AgeOf, SeenOf
  <2>3. CASE a \notin DOMAIN byAddr
    <3>1. a \notin DOMAIN byAddr' /\ ~HasExpired(a)
      BY <2>3, <1>1 DEF HasExpired
    <3> QED BY <2>3, <3>1 DEF Heap!RecordOf, AgeOf
  <2> QED BY <2>1, <2>2, <2>3
<1>6. /\ Currents' = [a \in Peers |-> IF a \in Heap!Map!Expired THEN None ELSE Currents[a]]
      /\ Ages' = [a \in Peers |-> IF a \in Heap!Map!Expired THEN 0 ELSE Ages[a]]
  <2>1. Currents' = [a \in Peers |-> Heap!RecordOf(a)'] /\ Ages' = [a \in Peers |-> AgeOf(a)']
    BY DEF Currents, Ages
  <2> QED BY <2>1, <1>4, <1>5 DEF Currents, Ages
<1>7. heapClosed' = heapClosed \cup {Currents[a] : a \in Heap!Map!Expired}
  <2>1. {Currents[a] : a \in Heap!Map!Expired}
          = {Heap!RecordOf(a) : a \in {b \in Peers : HasExpired(b)}}
    BY <1>4 DEF Currents
  <2> QED BY <2>1, <1>1
<1>8. Nap' = HeapTimeout \div 2 /\ Lag' = 0
  <2>1. HeapTimeout \div 2 \in Nat
    BY <1>2
  <2> QED BY <2>1, <1>2 DEF Nap, Lag
<1> HIDE DEF Heap!Map!Expired
<1> QED BY <1>2, <1>6, <1>7, <1>8 DEF Heap!Map!RemoveExpired, Heap!Map!callerVars,
             Currents, Ages, AgeOf, Nap, Lag, Peers

LEMMA TickImplemented ==
  ASSUME HeapIInv, Heap!Tick
  PROVE  Heap!Map!Tick
<1>1. /\ now \in Nat /\ wakeAt \in Nat /\ swept \in Nat
      /\ HeapTimeout \in Nat /\ HeapLag \in Nat
      /\ now' = now + 1 /\ (sweep = "timed" => now - swept < HeapLag)
      /\ UNCHANGED <<byAge, byAddr, heapClosed, heapStash, heapAsked, heapRef,
                     sweep, wakeAt, swept>>
  BY HeapAssumption DEF HeapIInv, HeapTypesOK, Heap!Tick, Heap!innerVars, Heap!callerVars,
       Heap!sweepVars
<1>2. Currents' = Currents
  BY <1>1 DEF Currents, Heap!RecordOf
<1>3. ASSUME NEW a \in Peers
      PROVE  AgeOf(a)' = IF Currents[a] = None THEN 0
                         ELSE Heap!Map!Smaller(Ages[a] + 1, Heap!Map!MaxAge)
  <2>1. CASE a \notin DOMAIN byAddr
    BY <2>1, <1>1, NoneIsNoRecord DEF AgeOf, Currents
  <2>2. CASE a \in DOMAIN byAddr
    <3>1. SeenOf(a) \in Nat /\ SeenOf(a) <= now /\ Currents[a] # None
      BY <2>2, InnerFacts, NoneIsNoRecord DEF SeenOf, Currents
    <3>2. Ages[a] = IF now - SeenOf(a) < HeapTimeout + HeapLag THEN now - SeenOf(a)
                    ELSE HeapTimeout + HeapLag
      BY <2>2 DEF Ages, AgeOf, SeenOf
    <3>3. AgeOf(a)' = IF (now + 1) - SeenOf(a) < HeapTimeout + HeapLag
                      THEN (now + 1) - SeenOf(a) ELSE HeapTimeout + HeapLag
      BY <2>2, <1>1 DEF AgeOf, SeenOf
    <3> QED BY <3>1, <3>2, <3>3, <1>1 DEF Heap!Map!Smaller, Heap!Map!MaxAge
  <2> QED BY <2>1, <2>2
<1>4. Ages' = [a \in Peers |-> IF Currents[a] = None THEN 0
                               ELSE Heap!Map!Smaller(Ages[a] + 1, Heap!Map!MaxAge)]
  <2>1. Ages' = [a \in Peers |-> AgeOf(a)']
    BY DEF Ages
  <2> QED BY <2>1, <1>3
<1>5. Nap' = IF Nap > 0 THEN Nap - 1 ELSE 0
  BY <1>1 DEF Nap
<1>6. Lag' = IF sweep = "timed" THEN Lag + 1 ELSE 0
  BY <1>1 DEF Lag
<1>7. sweep = "timed" => Lag < HeapLag
  BY <1>1 DEF Lag
<1> QED BY <1>1, <1>2, <1>4, <1>5, <1>6, <1>7
           DEF Heap!Map!Tick, Heap!Map!callerVars, Currents, Ages, AgeOf, Nap, Lag, Peers

LEMMA StashImplemented ==
  ASSUME HeapIInv, NEW a \in Peers
  PROVE  Heap!StashOf(a) = Heap!Map!StashOf(a)
BY NoneIsNoRecord DEF Heap!StashOf, Heap!Map!StashOf, Peers

LEMMA MapStep ==
  ASSUME HeapIInv, [Heap!Next]_(Heap!vars)
  PROVE  [Heap!Map!Next]_(Heap!Map!vars)
<1>0. HeapTypesOK
  BY DEF HeapIInv
<1>1. ASSUME NEW t \in Callers, NEW a \in Peers, Heap!FastPath(t, a) PROVE Heap!Map!Next
  <2>1. /\ heapAsked[t] = None /\ heapAsked' = [heapAsked EXCEPT ![t] = a]
        /\ heapRef' = [heapRef EXCEPT ![t] = Currents[a]]
        /\ UNCHANGED <<byAge, byAddr, heapClosed, now, heapStash, sweep, wakeAt, swept>>
    BY <1>1 DEF Heap!FastPath, Heap!innerVars, Heap!sweepVars, Currents
  <2>2. UNCHANGED <<Currents, Ages, Nap, Lag>>
    BY <2>1, MapStays
  <2>3. Heap!Map!FastPath(t, a)
    BY <2>1, <2>2 DEF Heap!Map!FastPath, Heap!Map!mapVars, Heap!Map!sweepVars,
         Currents, Ages, AgeOf, Nap, Lag, Peers
  <2> QED BY <2>3 DEF Heap!Map!Next, Heap!Map!Call, Peers
<1>2. ASSUME NEW t \in Callers, Heap!SlowPath(t) PROVE Heap!Map!Next
  <2>1. /\ heapAsked[t] # None /\ heapAsked[t] \in Peers /\ heapRef[t] = None
        /\ UNCHANGED <<heapAsked, now, sweep, wakeAt, swept>>
    BY <1>0, <1>2 DEF Heap!SlowPath, Heap!sweepVars, HeapTypesOK
  <2>2. PICK r \in Records :
          /\ Heap!Lookup(heapAsked[t], r)
          /\ heapRef' = [heapRef EXCEPT ![t] = r]
          /\ heapStash' = [heapStash EXCEPT ![r] = Heap!StashOf(heapAsked[t])]
    BY <1>2 DEF Heap!SlowPath
  <2>3. Heap!Map!Lookup(heapAsked[t], r)
    BY <2>1, <2>2, LookupImplemented
  <2>4. heapStash' = [heapStash EXCEPT ![r] = Heap!Map!StashOf(heapAsked[t])]
    BY <2>1, <2>2, StashImplemented
  <2>5. UNCHANGED <<Nap, Lag>>
    BY <2>1, MapStays
  <2>6. Heap!Map!SlowPath(t)
    BY <2>1, <2>2, <2>3, <2>4, <2>5 DEF Heap!Map!SlowPath, Heap!Map!sweepVars, Nap, Lag
  <2> QED BY <2>6 DEF Heap!Map!Next, Heap!Map!Call
<1>3. ASSUME NEW t \in Callers, Heap!Release(t) PROVE Heap!Map!Next
  <2>1. /\ heapRef[t] # None
        /\ heapAsked' = [heapAsked EXCEPT ![t] = None]
        /\ heapRef' = [heapRef EXCEPT ![t] = None]
        /\ UNCHANGED <<byAge, byAddr, heapClosed, now, heapStash, sweep, wakeAt, swept>>
    BY <1>3 DEF Heap!Release, Heap!innerVars, Heap!sweepVars
  <2>2. UNCHANGED <<Currents, Ages, Nap, Lag>>
    BY <2>1, MapStays
  <2>3. Heap!Map!Release(t)
    BY <2>1, <2>2 DEF Heap!Map!Release, Heap!Map!mapVars, Heap!Map!sweepVars,
         Currents, Ages, AgeOf, Nap, Lag, Peers
  <2> QED BY <2>3 DEF Heap!Map!Next, Heap!Map!Call
<1>4. ASSUME NEW t \in Callers, Heap!TakeStash(t) PROVE Heap!Map!Next
  <2>1. /\ heapRef[t] # None /\ heapStash[heapRef[t]] # None
        /\ heapStash' = [heapStash EXCEPT ![heapRef[t]] = None]
        /\ UNCHANGED <<byAge, byAddr, heapClosed, now, heapAsked, heapRef,
                       sweep, wakeAt, swept>>
    BY <1>4 DEF Heap!TakeStash, Heap!innerVars, Heap!sweepVars, Heap!callerVars
  <2>2. UNCHANGED <<Currents, Ages, Nap, Lag>>
    BY <2>1, MapStays
  <2>3. Heap!Map!TakeStash(t)
    BY <2>1, <2>2 DEF Heap!Map!TakeStash, Heap!Map!mapVars, Heap!Map!sweepVars,
         Heap!Map!callerVars, Currents, Ages, AgeOf, Nap, Lag, Peers
  <2> QED BY <2>3 DEF Heap!Map!Next, Heap!Map!Call
<1>5. ASSUME NEW a \in Peers, NEW p \in Stashed, Heap!Stash(a, p) PROVE Heap!Map!Next
  <2>1. UNCHANGED <<heapAsked, heapRef, now, sweep, wakeAt, swept>>
    BY <1>5 DEF Heap!Stash, Heap!sweepVars, Heap!callerVars
  <2>2. PICK r \in Records :
          /\ Heap!Lookup(a, r)
          /\ heapStash' = [heapStash EXCEPT ![r] = IF Heap!StashOf(a) = None THEN p ELSE @]
    BY <1>5 DEF Heap!Stash
  <2>3. Heap!Map!Lookup(a, r)
    BY <2>1, <2>2, LookupImplemented
  <2>4. heapStash' = [heapStash EXCEPT ![r] = IF Heap!Map!StashOf(a) = None THEN p ELSE @]
    BY <2>1, <2>2, StashImplemented
  <2>5. UNCHANGED <<Nap, Lag>>
    BY <2>1, MapStays
  <2>6. Heap!Map!Stash(a, p)
    BY <2>1, <2>3, <2>4, <2>5
       DEF Heap!Map!Stash, Heap!Map!callerVars, Heap!Map!sweepVars, Nap, Lag
  <2> QED BY <2>6 DEF Heap!Map!Next, Heap!Map!Call, Peers
<1>6. CASE Heap!ReadTime
  <2>1. /\ HeapTimeout > 0 /\ sweep = "asleep" /\ now >= wakeAt
        /\ sweep' = "timed" /\ swept' = now
        /\ UNCHANGED <<byAge, byAddr, heapClosed, now, heapStash, heapAsked, heapRef, wakeAt>>
    BY <1>6 DEF Heap!ReadTime, Heap!innerVars, Heap!callerVars
  <2>2. now \in Nat /\ wakeAt \in Nat
    BY <1>0 DEF HeapTypesOK
  <2>3. Nap = 0 /\ Nap' = Nap /\ Lag' = 0 /\ UNCHANGED <<Currents, Ages>>
    BY <2>1, <2>2, MapStays DEF Nap, Lag
  <2>4. Heap!Map!ReadTime
    BY <2>1, <2>3 DEF Heap!Map!ReadTime, Heap!Map!mapVars, Heap!Map!callerVars,
         Currents, Ages, AgeOf, Nap, Lag, Peers
  <2> QED BY <2>4 DEF Heap!Map!Next
<1>7. CASE Heap!RemoveExpired
  BY <1>7, RemoveImplemented DEF Heap!Map!Next
<1>8. CASE Heap!Tick
  BY <1>8, TickImplemented DEF Heap!Map!Next
<1>9. CASE UNCHANGED Heap!vars
  <2>1. /\ UNCHANGED <<byAge, byAddr, now, sweep, wakeAt, swept>>
        /\ UNCHANGED <<heapStash, heapClosed, heapAsked, heapRef>>
    BY <1>9 DEF Heap!vars, Heap!innerVars, Heap!callerVars, Heap!sweepVars
  <2>2. UNCHANGED <<Currents, Ages, Nap, Lag>>
    BY <2>1, MapStays
  <2> QED BY <2>1, <2>2 DEF Heap!Map!vars, Currents, Ages, AgeOf, Nap, Lag, Peers
<1> QED BY <1>1, <1>2, <1>3, <1>4, <1>5, <1>6, <1>7, <1>8, <1>9 DEF Heap!Next, Peers

LEMMA MapInit == Heap!Init => Heap!Map!Init
<1> SUFFICES ASSUME Heap!Init PROVE Heap!Map!Init
  OBVIOUS
<1>1. DOMAIN byAddr = {} /\ now = 0 /\ wakeAt = HeapTimeout \div 2 /\ sweep = "asleep"
  BY DEF Heap!Init
<1>2. HeapTimeout \div 2 \in Nat
  BY HeapAssumption
<1>3. /\ Currents = [a \in Peers |-> None] /\ Ages = [a \in Peers |-> 0]
      /\ Nap = HeapTimeout \div 2 /\ Lag = 0
  BY <1>1, <1>2 DEF Currents, Ages, AgeOf, Nap, Lag, Heap!RecordOf
<1> QED BY <1>1, <1>3 DEF Heap!Init, Heap!Map!Init, Currents, Ages, AgeOf, Nap, Lag, Peers

(* Every operation on the heap and the index is the operation on the plain *)
(* map: removeExpired (remotemap.go:125) removes the peers that have       *)
(* expired and no others, however many there are and in whatever order     *)
(* they were seen.                                                         *)
THEOREM HeapIsTheMap == Heap!Spec => ImplementsMap
<1>1. HeapIInv /\ [Heap!Next]_(Heap!vars)
        => [part = "heap" => [Heap!Map!Next]_(Heap!Map!vars)]_mcVars
  BY MapStep
<1> QED BY <1>1, MapInit, HeapInv, PTL DEF Heap!Spec, ImplementsMap
=============================================================================
