----------------------------- MODULE ServerLoops -----------------------------
(***************************************************************************)
(* dnstt-server: recvLoop accepts queries and passes them over the channel *)
(* ch to sendLoop, which answers them one after the other.  Into an answer *)
(* without an error it packs the packets KCP has written for the client of *)
(* the query: it waits for a first packet until the timer fires or another *)
(* query arrives, adds further packets while they are there and fit, and   *)
(* puts a packet that does not fit in the client's stash.                  *)
(*                                                                         *)
(* Clients are the addresses of a RemoteMap; its expiry goroutine runs     *)
(* beside the two loops.  WriteTo is one step here: what happens when it   *)
(* is overtaken by the expiry goroutine is in module QueuePacketConn.      *)
(***************************************************************************)
EXTENDS Integers, Sequences

CONSTANTS
  Clients, Records, None, Timeout, MaxLag,   (* as in RemoteMap            *)
  QueueSize,   (* capacity of a send queue                                 *)
  ChanSize,    (* capacity of ch                                           *)
  Weight,      (* bytes of packet k in a response, length prefix included  *)
  MaxEncoded,  (* maxEncodedPayload                                        *)
  MaxWrites,   (* bound: packets KCP writes                                *)
  MaxQueries   (* bound: queries that arrive                               *)

Packets == 1..MaxWrites
Queries == [id : 1..MaxQueries, client : Clients, fills : BOOLEAN]

ASSUME WeightAssumption == Weight \in [Packets -> Nat] /\ MaxEncoded \in Nat
ASSUME BoundAssumption == MaxWrites \in Nat /\ MaxQueries \in Nat
ASSUME MapAssumption ==
  None \notin Clients \cup Records \cup Packets \cup Queries /\ Timeout \in Nat /\ MaxLag \in Nat

VARIABLES
  current, age, stash, closed, asked, ref, sweeper, nap, lag,  (* RemoteMap *)
  sendq,     (* buffered packets of each record's SendQueue                *)
  written,   (* number of packets KCP has written                          *)
  queries,   (* number of queries that have arrived                        *)
  ch,        (* records between recvLoop and sendLoop                      *)
  pc,        (* sendLoop: "next", "filling", "waiting", "stashing",        *)
             (* "sending" or "returned"                                    *)
  rec,       (* the record being answered                                  *)
  nextRec,   (* a record received while waiting for a packet               *)
  bundle,    (* payload: the packets in the response so far                *)
  limit,     (* bytes that are left in the response                        *)
  hand,      (* a packet that did not fit                                  *)
  sent       (* responses written to the socket                            *)

mapVars == <<current, age, stash, closed, asked, ref, sweeper, nap, lag>>
loopVars == <<ch, pc, rec, nextRec, bundle, limit, hand, sent>>
vars == <<mapVars, sendq, written, queries, loopVars>>

Map == INSTANCE RemoteMap WITH
  Addrs <- Clients, Callers <- {"unstash", "outgoing"}

unstash == ref["unstash"]
outgoing == ref["outgoing"]

Init ==
  /\ Map!Init
  /\ sendq = [r \in Records |-> <<>>]
  /\ written = 0 /\ queries = 0
  /\ ch = <<>>
  /\ pc = "next"
  /\ rec = None /\ nextRec = None
  /\ bundle = <<>> /\ limit = MaxEncoded /\ hand = None
  /\ sent = <<>>

NewQueues ==
  sendq' = [r \in Records |->
              IF \E a \in Clients : current[a] # r /\ current'[a] = r THEN <<>> ELSE sendq[r]]

-----------------------------------------------------------------------------
(* recvLoop: a query that calls for a response, with or without an error   *)
(* code.  It is forgotten when ch is full.                                 *)
ReceiveQuery(a, fills) ==
  /\ queries < MaxQueries
  /\ queries' = queries + 1
  /\ ch' = IF Len(ch) < ChanSize
           THEN Append(ch, [id |-> queries', client |-> a, fills |-> fills]) ELSE ch
  /\ UNCHANGED <<mapVars, sendq, written, pc, rec, nextRec, bundle, limit, hand, sent>>

(* KCP sends a packet: ttConn.WriteTo.                                     *)
Enqueue(queue) == IF Len(queue) < QueueSize THEN Append(queue, written') ELSE queue

KcpWrite(a) ==
  /\ written < MaxWrites
  /\ written' = written + 1
  /\ \/ /\ current[a] # None
        /\ sendq' = [sendq EXCEPT ![current[a]] = Enqueue(@)]
        /\ UNCHANGED mapVars
     \/ \E r \in Records :
          /\ Map!Create(a, r)
          /\ age' = [age EXCEPT ![a] = 0]
          /\ stash' = [stash EXCEPT ![r] = None]
          /\ sendq' = [sendq EXCEPT ![r] = Enqueue(<<>>)]
          /\ UNCHANGED <<asked, ref, sweeper, nap, lag>>
  /\ UNCHANGED <<queries, loopVars>>

-----------------------------------------------------------------------------
(* sendLoop.                                                               *)

(* Fault: nextRec is not reset once it has become rec.                     *)
NextQueryAgain ==
  /\ pc = "next"
  /\ IF nextRec # None
     THEN rec' = nextRec /\ UNCHANGED ch
     ELSE ch # <<>> /\ rec' = Head(ch) /\ ch' = Tail(ch)
  /\ pc' = IF rec'.fills THEN "filling" ELSE "sending"
  /\ UNCHANGED <<mapVars, sendq, written, queries, nextRec, bundle, limit, hand, sent>>

NextQuery ==
  /\ pc = "next"
  /\ IF nextRec # None
     THEN rec' = nextRec /\ UNCHANGED ch
     ELSE ch # <<>> /\ rec' = Head(ch) /\ ch' = Tail(ch)
  /\ nextRec' = None
  /\ pc' = IF rec'.fills THEN "filling" ELSE "sending"
  /\ UNCHANGED <<mapVars, sendq, written, queries, bundle, limit, hand, sent>>

(* unstash := ttConn.Unstash(...), then outgoing := ttConn.OutgoingQueue.  *)
GetChannels ==
  /\ pc = "filling"
  /\ \/ Map!FastPath("unstash", rec.client) /\ UNCHANGED sendq
     \/ Map!SlowPath("unstash") /\ NewQueues
     \/ unstash # None /\ Map!FastPath("outgoing", rec.client) /\ UNCHANGED sendq
     \/ unstash # None /\ Map!SlowPath("outgoing") /\ NewQueues
  /\ UNCHANGED <<written, queries, loopVars>>

Ready(states) == pc \in states /\ unstash # None /\ outgoing # None

(* The first packet is not measured; a later one must fit.                 *)
Pack(p) ==
  /\ limit' = limit - Weight[p]
  /\ IF bundle = <<>> \/ limit' >= 0
     THEN bundle' = Append(bundle, p) /\ pc' = "filling" /\ UNCHANGED hand
     ELSE hand' = p /\ pc' = "stashing" /\ UNCHANGED bundle

TakeStashed ==
  /\ Ready({"filling", "waiting"})
  /\ Map!TakeStash("unstash")
  /\ Pack(stash[unstash])
  /\ UNCHANGED <<sendq, written, queries, ch, rec, nextRec, sent>>

(* The stash comes first.  Only sendLoop fills it, so one look is enough.  *)
TakeQueued ==
  /\ Ready({"filling", "waiting"})
  /\ stash[unstash] = None
  /\ sendq[outgoing] # <<>>
  /\ Pack(Head(sendq[outgoing]))
  /\ sendq' = [sendq EXCEPT ![outgoing] = Tail(@)]
  /\ UNCHANGED <<mapVars, written, queries, ch, rec, nextRec, sent>>

(* A queue that expiry has closed and that is drained yields nil.          *)
TakeNil ==
  /\ Ready({"filling", "waiting"})
  /\ stash[unstash] = None
  /\ outgoing \in closed /\ sendq[outgoing] = <<>>
  /\ pc' = "sending"
  /\ UNCHANGED <<mapVars, sendq, written, queries, ch, rec, nextRec, bundle, limit, hand, sent>>

(* Nothing is there: block until something happens.                        *)
Wait ==
  /\ Ready({"filling"})
  /\ stash[unstash] = None
  /\ outgoing \notin closed /\ sendq[outgoing] = <<>>
  /\ pc' = "waiting"
  /\ UNCHANGED <<mapVars, sendq, written, queries, ch, rec, nextRec, bundle, limit, hand, sent>>

(* Fault: the timer is set only after a first packet.                      *)
TimerFiresLater ==
  /\ Ready({"waiting"})
  /\ bundle # <<>>
  /\ pc' = "sending"
  /\ UNCHANGED <<mapVars, sendq, written, queries, ch, rec, nextRec, bundle, limit, hand, sent>>

(* The timer, set to maxResponseDelay first and to 0 after a packet.       *)
TimerFires ==
  /\ Ready({"waiting"})
  /\ pc' = "sending"
  /\ UNCHANGED <<mapVars, sendq, written, queries, ch, rec, nextRec, bundle, limit, hand, sent>>

AnotherQuery ==
  /\ Ready({"waiting"})
  /\ ch # <<>>
  /\ nextRec' = Head(ch)
  /\ ch' = Tail(ch)
  /\ pc' = "sending"
  /\ UNCHANGED <<mapVars, sendq, written, queries, rec, bundle, limit, hand, sent>>

(* Fault: the packet that did not fit is left behind.                      *)
StashNothing ==
  /\ pc = "stashing"
  /\ hand' = None
  /\ pc' = "sending"
  /\ UNCHANGED <<mapVars, sendq, written, queries, ch, rec, nextRec, bundle, limit, sent>>

(* The result of Stash is ignored: a packet that finds the stash occupied  *)
(* is lost.                                                                *)
StashPacket ==
  /\ pc = "stashing"
  /\ Map!Stash(rec.client, hand)
  /\ NewQueues
  /\ hand' = None
  /\ pc' = "sending"
  /\ UNCHANGED <<written, queries, ch, rec, nextRec, bundle, limit, sent>>

Answered(outcome) ==
  /\ pc = "sending"
  /\ pc' = outcome
  /\ rec' = None
  /\ bundle' = <<>>
  /\ limit' = MaxEncoded
  /\ asked' = [t \in DOMAIN asked |-> None]
  /\ ref' = [t \in DOMAIN ref |-> None]
  /\ UNCHANGED <<current, age, stash, closed, sweeper, nap, lag,
                 sendq, written, queries, ch, nextRec, hand>>

SendResponse ==
  /\ Answered("next")
  /\ sent' = Append(sent, [id |-> rec.id, packets |-> bundle])

(* A temporary error of WriteTo is ignored; any other ends the server.     *)
SendFails ==
  /\ Answered("next") \/ Answered("returned")
  /\ UNCHANGED sent

SendLoop ==
  \/ NextQuery \/ GetChannels \/ TakeStashed \/ TakeQueued \/ TakeNil \/ Wait
  \/ TimerFires \/ AnotherQuery \/ StashPacket \/ SendResponse \/ SendFails

Expiry ==
  /\ Map!ReadTime \/ Map!RemoveExpired \/ Map!Tick
  /\ UNCHANGED <<sendq, written, queries, loopVars>>

Next ==
  \/ \E a \in Clients, fills \in BOOLEAN : ReceiveQuery(a, fills)
  \/ \E a \in Clients : KcpWrite(a)
  \/ SendLoop
  \/ Expiry

Spec == Init /\ [][Next]_vars

-----------------------------------------------------------------------------
(* The abstract queue of a client: the response being filled, then what is *)
(* left of a record that has expired under sendLoop, then the map's record.*)

AsSeq(p) == IF p = None THEN <<>> ELSE <<p>>
Filling(a) == rec # None /\ rec.client = a /\ pc \in {"filling", "waiting"}

Carried(a) == IF rec # None /\ rec.client = a THEN bundle \o AsSeq(hand) ELSE <<>>
Detached(a) ==
  IF ~Filling(a) THEN <<>>
  ELSE (IF unstash \in {None, current[a]} THEN <<>> ELSE AsSeq(stash[unstash]))
    \o (IF outgoing \in {None, current[a]} THEN <<>> ELSE sendq[outgoing])
Mapped(a) ==
  IF current[a] = None THEN <<>> ELSE AsSeq(stash[current[a]]) \o sendq[current[a]]

Pending(a) == Carried(a) \o Detached(a) \o Mapped(a)
Waiting == AsSeq(rec) \o AsSeq(nextRec) \o ch

Abstract == INSTANCE Downstream WITH
  QueryIds <- 1..MaxQueries, pending <- [a \in Clients |-> Pending(a)], waiting <- Waiting

(* The two loops, the stash and the expiring map together keep the promise *)
(* of module Downstream (main.go:574-576 and :619-622): every response     *)
(* holds the client's next packets, in the order KCP wrote them, none      *)
(* twice, none of another client, no more than fit, and queries are        *)
(* answered in the order they came, at most once each.                     *)
ImplementsDownstream == Abstract!Spec

(* A packet that entered a send queue is lost only with the record of a    *)
(* peer that expires: whatever is stashed, forgotten or cut short by       *)
(* another query, every other step takes packets only to put them into a   *)
(* response (main.go:634-690).                                             *)
LossOnlyByExpiry ==
  [][(\A a \in Clients :
        Detached(a) = <<>> /\ (current[a] # None => current'[a] = current[a]))
     => [Abstract!LosslessNext]_(Abstract!vars)]_vars

(* sendLoop is never stuck on a query that recvLoop has put in ch: even if *)
(* KCP writes nothing and no further query ever arrives to end the wait    *)
(* for a packet (main.go:564, :640-644), and even if the record has        *)
(* expired under it, it can take a step.                                   *)
NeverStuck ==
  Waiting # <<>> /\ pc # "returned" => ENABLED SendLoop
=============================================================================
