--------------------------- MODULE QueuePacketConn ---------------------------
(***************************************************************************)
(* turbotunnel.QueuePacketConn: the net.PacketConn that KCP reads and      *)
(* writes, made of one incoming queue and of the outgoing queues and       *)
(* stashes of a RemoteMap.  KCP's goroutines call WriteTo and ReadFrom,    *)
(* the transport's receiving goroutines call QueueIncoming, its sending    *)
(* goroutines take packets from OutgoingQueue and Unstash, anybody may     *)
(* call Close, and the expiry goroutine of the map closes send queues.     *)
(*                                                                         *)
(* A step is a channel operation or a critical section.  A packet is       *)
(* identified by its address: the peer it is for, or comes from.           *)
(***************************************************************************)
EXTENDS Naturals, Sequences, FiniteSets

CONSTANTS
  Addrs, Records, None, Timeout, MaxLag,   (* as in RemoteMap              *)
  Writers,    (* goroutines in WriteTo                                     *)
  Senders,    (* goroutines that consume OutgoingQueue and Unstash         *)
  Producers,  (* goroutines in QueueIncoming                               *)
  Readers,    (* goroutines in ReadFrom                                    *)
  Closers,    (* goroutines in Close                                       *)
  QueueSize   (* turbotunnel.QueueSize                                     *)

ASSUME QueueAssumption == QueueSize \in Nat \ {0}
ASSUME GoroutineAssumption == IsFiniteSet(Producers)
ASSUME MapAssumption == None \notin Addrs \cup Records /\ Timeout \in Nat /\ MaxLag \in Nat

VARIABLES
  current, age, stash, closed, asked, ref, sweeper, nap, lag,  (* RemoteMap *)
  sendq,      (* buffered packets of each record's SendQueue               *)
  hand,       (* the packet a sender has received and not yet sent         *)
  dead,       (* the process has panicked                                  *)
  recvq,      (* recvQueue                                                 *)
  isClosed,   (* the channel "closed" has been closed                      *)
  err,        (* c.err holds an error                                      *)
  once,       (* closeOnce: "new", "running" or "done"                     *)
  pc          (* where producers, readers and closers are                  *)

mapVars == <<current, age, stash, closed, asked, ref, sweeper, nap, lag>>
sendVars == <<mapVars, sendq, hand>>
recvVars == <<recvq, isClosed, err, once, pc>>
vars == <<sendVars, dead, recvVars>>

Slots == Senders \X {"outgoing", "unstash"}

Map == INSTANCE RemoteMap WITH Callers <- Writers \cup Slots, Packets <- Addrs

Init ==
  /\ Map!Init
  /\ sendq = [r \in Records |-> <<>>]
  /\ hand = [s \in Senders |-> None]
  /\ dead = FALSE
  /\ recvq = <<>>
  /\ isClosed = FALSE
  /\ err = FALSE
  /\ once = "new"
  /\ pc = [g \in Producers \cup Readers \cup Closers |-> "idle"]

-----------------------------------------------------------------------------
(* Outgoing packets.                                                       *)

(* A record that enters the map has an empty queue.                        *)
NewQueues ==
  sendq' = [r \in Records |->
              IF \E a \in Addrs : current[a] # r /\ current'[a] = r THEN <<>> ELSE sendq[r]]

(* The check of "closed" and the lookup under the read lock are one step:  *)
(* the lookup does not depend on what Close changes.                       *)
WriteBegin(w, a) ==
  /\ ~isClosed
  /\ Map!FastPath(w, a)
  /\ UNCHANGED <<sendq, hand, dead, recvVars>>

GetQueue(t) ==
  /\ Map!SlowPath(t)
  /\ NewQueues
  /\ UNCHANGED <<hand, dead, recvVars>>

(* select { case queue <- buf: default: }.  A closed queue is always ready *)
(* and sending on it panics.                                               *)
WriteSend(w) ==
  /\ ref[w] # None
  /\ LET r == ref[w]
     IN  \/ /\ r \in closed
            /\ dead' = TRUE
            /\ UNCHANGED <<mapVars, sendq>>
         \/ /\ r \notin closed
            /\ sendq' = [sendq EXCEPT ![r] = IF Len(@) < QueueSize
                                             THEN Append(@, asked[w]) ELSE @]
            /\ Map!Release(w)
            /\ UNCHANGED dead
  /\ UNCHANGED <<hand, recvVars>>

(* A sender asks for the stash first, if it uses it at all, and for the    *)
(* outgoing queue of the same peer then; later it drops both.              *)
Both(s) == {<<s, "outgoing">>, <<s, "unstash">>}

AskUnstash(s, a) ==
  /\ asked[<<s, "outgoing">>] = None
  /\ Map!FastPath(<<s, "unstash">>, a)
  /\ UNCHANGED <<sendq, hand, dead, recvVars>>

AskOutgoing(s, a) ==
  /\ LET l == <<s, "unstash">>
     IN  asked[l] = None \/ (asked[l] = a /\ ref[l] # None)
  /\ Map!FastPath(<<s, "outgoing">>, a)
  /\ UNCHANGED <<sendq, hand, dead, recvVars>>

Forget(s) ==
  /\ ref[<<s, "outgoing">>] # None
  /\ hand[s] = None
  /\ asked' = [l \in DOMAIN asked |-> IF l \in Both(s) THEN None ELSE asked[l]]
  /\ ref' = [l \in DOMAIN ref |-> IF l \in Both(s) THEN None ELSE ref[l]]
  /\ UNCHANGED <<current, age, stash, closed, sweeper, nap, lag, sendq, hand, dead, recvVars>>

Receive(s) ==
  /\ hand[s] = None
  /\ LET r == ref[<<s, "outgoing">>]
     IN  /\ r # None
         /\ sendq[r] # <<>>
         /\ hand' = [hand EXCEPT ![s] = Head(sendq[r])]
         /\ sendq' = [sendq EXCEPT ![r] = Tail(@)]
  /\ UNCHANGED <<mapVars, dead, recvVars>>

ReceiveStashed(s) ==
  /\ hand[s] = None
  /\ Map!TakeStash(<<s, "unstash">>)
  /\ hand' = [hand EXCEPT ![s] = stash[ref[<<s, "unstash">>]]]
  /\ UNCHANGED <<sendq, dead, recvVars>>

PutBack(s) ==
  /\ hand[s] # None
  /\ Map!Stash(hand[s], hand[s])
  /\ NewQueues
  /\ hand' = [hand EXCEPT ![s] = None]
  /\ UNCHANGED <<dead, recvVars>>

Transmit(s) ==
  /\ hand[s] # None
  /\ hand' = [hand EXCEPT ![s] = None]
  /\ UNCHANGED <<mapVars, sendq, dead, recvVars>>

Expiry ==
  /\ Map!ReadTime \/ Map!RemoveExpired \/ Map!Tick
  /\ UNCHANGED <<sendq, hand, dead, recvVars>>

-----------------------------------------------------------------------------
(* Incoming packets and Close.                                             *)

Goto(g, from, to) == pc[g] = from /\ pc' = [pc EXCEPT ![g] = to]

(* Fault: "closed" is not looked at before queueing.                       *)
IncomingUnchecked(d) ==
  /\ Goto(d, "idle", "queueing")
  /\ UNCHANGED <<sendVars, dead, recvq, isClosed, err, once>>

(* QueueIncoming on a closed connection returns at once: no step.          *)
IncomingBegin(d) ==
  /\ ~isClosed
  /\ Goto(d, "idle", "queueing")
  /\ UNCHANGED <<sendVars, dead, recvq, isClosed, err, once>>

IncomingQueue(d) ==
  /\ Goto(d, "queueing", "idle")
  /\ \E a \in Addrs :
       recvq' = IF Len(recvq) < QueueSize THEN Append(recvq, a) ELSE recvq
  /\ UNCHANGED <<sendVars, dead, isClosed, err, once>>

(* ReadFrom on a closed connection returns the error at once: no step.     *)
ReadBegin(r) ==
  /\ ~isClosed
  /\ Goto(r, "idle", "reading")
  /\ UNCHANGED <<sendVars, dead, recvq, isClosed, err, once>>

(* Either case of the select may be taken when both are ready.             *)
ReadFinish(r) ==
  /\ Goto(r, "reading", "idle")
  /\ \/ isClosed /\ UNCHANGED recvq
     \/ recvq # <<>> /\ recvq' = Tail(recvq)
  /\ UNCHANGED <<sendVars, dead, isClosed, err, once>>

(* closeOnce.Do: the first caller runs the function, the others wait for   *)
(* it to return and get an error.                                          *)
CloseBegin(k) ==
  /\ pc[k] \in {"idle", "returned"}
  /\ IF once = "new"
     THEN once' = "running" /\ pc' = [pc EXCEPT ![k] = "storing"]
     ELSE UNCHANGED once /\ pc' = [pc EXCEPT ![k] = "waiting"]
  /\ UNCHANGED <<sendVars, dead, recvq, isClosed, err>>

(* Fault: the channel is closed before the error is stored.                *)
CloseStoreLate(k) ==
  /\ Goto(k, "storing", "closing")
  /\ isClosed' = TRUE
  /\ UNCHANGED <<sendVars, dead, recvq, err, once>>

CloseStore(k) ==
  /\ Goto(k, "storing", "closing")
  /\ err' = TRUE
  /\ UNCHANGED <<sendVars, dead, recvq, isClosed, once>>

CloseClose(k) ==
  /\ Goto(k, "closing", "returned")
  /\ isClosed' = TRUE
  /\ once' = "done"
  /\ UNCHANGED <<sendVars, dead, recvq, err>>

CloseAgain(k) ==
  /\ once = "done"
  /\ Goto(k, "waiting", "returned")
  /\ UNCHANGED <<sendVars, dead, recvq, isClosed, err, once>>

-----------------------------------------------------------------------------
Outgoing ==
  \/ \E w \in Writers, a \in Addrs : WriteBegin(w, a)
  \/ \E w \in Writers : GetQueue(w) \/ WriteSend(w)
  \/ \E l \in Slots : GetQueue(l)
  \/ \E s \in Senders, a \in Addrs : AskUnstash(s, a) \/ AskOutgoing(s, a)
  \/ \E s \in Senders : Forget(s) \/ Receive(s) \/ ReceiveStashed(s) \/ PutBack(s) \/ Transmit(s)
  \/ Expiry

Incoming ==
  \/ \E d \in Producers : IncomingBegin(d) \/ IncomingQueue(d)
  \/ \E r \in Readers : ReadBegin(r) \/ ReadFinish(r)
  \/ \E k \in Closers : CloseBegin(k) \/ CloseStore(k) \/ CloseClose(k) \/ CloseAgain(k)

(* A panic in any goroutine ends the process.                              *)
Exited == dead /\ UNCHANGED vars

Next == (~dead /\ (Outgoing \/ Incoming)) \/ Exited

Spec == Init /\ [][Next]_vars

-----------------------------------------------------------------------------
(* A packet that WriteTo reported as queued, and that expiry has not       *)
(* discarded, is in the queue that OutgoingQueue returns for its address   *)
(* (queuepacketconn.go:88-93), and a stashed one in the stash that Unstash *)
(* returns (:104): no packet waits where no sender can find it, and none   *)
(* where the sender of another peer would.                                 *)
QueuedPacketsFindable ==
  \A r \in Records : (r \notin closed /\ Map!Reachable(r)) =>
    /\ \A i \in DOMAIN sendq[r] : current[sendq[r][i]] = r
    /\ stash[r] # None => current[stash[r]] = r

(* "the worst that can happen is a loss of whatever packets were in the    *)
(* send queue at the time" (remotemap.go:40-42): expiring a peer costs     *)
(* packets, never the process.                                             *)
ExpiryOnlyLosesPackets == ~dead

(* An operation that sees the connection closed finds the error it has to  *)
(* return (queuepacketconn.go:113, :129, :163 assert its type).            *)
ErrorBeforeClosed == isClosed \/ once = "done" => err

(* A QueueIncoming that begins after the close drops its packet            *)
(* (queuepacketconn.go:68-72): the packets that are in the incoming queue  *)
(* or on their way to it when the connection closes are the last ones.     *)
Underway == Len(recvq) + Cardinality({d \in Producers : pc[d] = "queueing"})
ClosedTakesNoMore == [][isClosed => Underway' <= Underway]_vars
=============================================================================
