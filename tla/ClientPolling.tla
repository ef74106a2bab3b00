---------------------------- MODULE ClientPolling ----------------------------
(***************************************************************************)
(* dnstt-client: DNSPacketConn puts what KCP writes into DNS queries, and  *)
(* sends empty queries, polls, so that the server has something to answer. *)
(* NumSenders goroutines run sendLoop over one outgoing queue and one      *)
(* pollChan, which recvLoop fills.  Sender 0, the primary one, polls also  *)
(* when its timer expires; the timer backs off while nothing else happens. *)
(*                                                                         *)
(* A goroutine may be preempted between any two of its steps, but not for  *)
(* longer than a tick: the clock waits for senders that can proceed.       *)
(***************************************************************************)
EXTENDS Naturals, Sequences, SequencesExt

CONSTANTS
  NumSenders,  (* parallel sendLoops                                       *)
  QueueSize,   (* capacity of the outgoing queue                           *)
  PollLimit,   (* capacity of pollChan                                     *)
  InitDelay,   (* initPollDelay in ticks                                   *)
  MaxDelay,    (* maxPollDelay in ticks                                    *)
  Longer,      (* pollDelay * pollDelayMultiplier                          *)
  Pacing,      (* whether kcpStateFunc is set                              *)
  MinPacing,   (* minPacingInterval in ticks                               *)
  MaxWrites    (* bound: packets KCP writes                                *)

ASSUME DelayAssumption ==
  /\ InitDelay \in Nat \ {0} /\ MaxDelay \in Nat /\ InitDelay <= MaxDelay
  /\ Longer \in [InitDelay..MaxDelay -> Nat]
  /\ \A d \in InitDelay..MaxDelay : Longer[d] > d
ASSUME SizeAssumption ==
  /\ NumSenders \in Nat \ {0} /\ QueueSize \in Nat \ {0} /\ PollLimit \in Nat \ {0}
  /\ MinPacing \in Nat /\ MaxWrites \in Nat /\ Pacing \in BOOLEAN

Senders == 0..(NumSenders - 1)
Packets == 1..MaxWrites
Nothing == 0      (* the empty packet of a poll                            *)

VARIABLES
  outgoing,    (* OutgoingQueue(addr)                                      *)
  written,     (* number of packets KCP has written                        *)
  polls,       (* number of elements in pollChan                           *)
  isOpen,      (* Close has not been called                                *)
  pc,          (* "top", "select", "blocked" or "sending", per sender      *)
  paced,       (* pacingTriggered, per sender                              *)
  item,        (* p, per sender                                            *)
  expired,     (* pollTimerExpired, per sender                             *)
  delay,       (* pollDelay of the primary sender                          *)
  timer,       (* ticks until pollTimer fires, 0 once it has, Stopped when *)
               (* it has been received and not been reset                  *)
  sincePacing, (* ticks since lastPacingSend, per sender                   *)
  quiet,       (* ticks since a query was last sent (history)              *)
  queries      (* the data packets each sender has sent in queries, in     *)
               (* order (history)                                          *)

senderVars == <<pc, paced, item, expired>>
clockVars == <<delay, timer, sincePacing, quiet>>
vars == <<outgoing, written, polls, isOpen, senderVars, clockVars, queries>>

Least(m, n) == IF m < n THEN m ELSE n
Primary(s) == s = 0
Stopped == MaxDelay + 1

Init ==
  /\ outgoing = <<>> /\ written = 0 /\ polls = 0 /\ isOpen = TRUE
  /\ pc = [s \in Senders |-> "top"]
  /\ paced = [s \in Senders |-> FALSE]
  /\ item = [s \in Senders |-> Nothing]
  /\ expired = [s \in Senders |-> FALSE]
  /\ delay = InitDelay /\ timer = InitDelay
  /\ sincePacing = [s \in Senders |-> 0]
  /\ quiet = 0
  /\ queries = [s \in Senders |-> <<>>]

-----------------------------------------------------------------------------
(* KCP writes a packet; a full queue drops it.                             *)
KcpWrite ==
  /\ isOpen /\ written < MaxWrites
  /\ written' = written + 1
  /\ outgoing' = IF Len(outgoing) < QueueSize THEN Append(outgoing, written') ELSE outgoing
  /\ UNCHANGED <<polls, isOpen, senderVars, clockVars, queries>>

(* recvLoop has read a response with one or more packets.                  *)
PermitPoll == polls' = Least(polls + 1, PollLimit)

ReceiveData ==
  /\ PermitPoll
  /\ UNCHANGED <<outgoing, written, isOpen, senderVars, clockVars, queries>>

(* The Close of a tunnel, of its KCP connection and of the QueuePacketConn *)
(* in DNSPacketConn.  The transport and the loops learn nothing of it.     *)
Close ==
  /\ isOpen
  /\ isOpen' = FALSE
  /\ UNCHANGED <<outgoing, written, polls, senderVars, clockVars, queries>>

-----------------------------------------------------------------------------
(* sendLoop.  What KCP reports as waiting is arbitrary.                    *)
CheckPacing(s) ==
  /\ pc[s] = "top"
  /\ pc' = [pc EXCEPT ![s] = "select"]
  /\ expired' = [expired EXCEPT ![s] = FALSE]
  /\ \E few \in BOOLEAN :
       paced' = [paced EXCEPT ![s] = Pacing /\ few /\ sincePacing[s] >= MinPacing]
  /\ UNCHANGED <<outgoing, written, polls, isOpen, item, clockVars, queries>>

(* Fault: pacing overrides the packet that was taken.                      *)
TakePacketOrPace(s) ==
  /\ pc[s] \in {"select", "blocked"}
  /\ outgoing # <<>>
  /\ item' = [item EXCEPT ![s] = IF paced[s] THEN Nothing ELSE Head(outgoing)]
  /\ outgoing' = Tail(outgoing)
  /\ pc' = [pc EXCEPT ![s] = "sending"]
  /\ UNCHANGED <<written, polls, isOpen, paced, expired, clockVars, queries>>

(* Fault: the newest packet is taken first.                                *)
TakeNewest(s) ==
  /\ pc[s] \in {"select", "blocked"}
  /\ outgoing # <<>>
  /\ item' = [item EXCEPT ![s] = Last(outgoing)]
  /\ outgoing' = Front(outgoing)
  /\ pc' = [pc EXCEPT ![s] = "sending"]
  /\ UNCHANGED <<written, polls, isOpen, paced, expired, clockVars, queries>>

TakePacket(s) ==
  /\ pc[s] \in {"select", "blocked"}
  /\ outgoing # <<>>
  /\ item' = [item EXCEPT ![s] = Head(outgoing)]
  /\ outgoing' = Tail(outgoing)
  /\ pc' = [pc EXCEPT ![s] = "sending"]
  /\ UNCHANGED <<written, polls, isOpen, paced, expired, clockVars, queries>>

(* Nothing to send: poll at once when paced, else block.                   *)
NoPacket(s) ==
  /\ pc[s] = "select"
  /\ outgoing = <<>>
  /\ item' = [item EXCEPT ![s] = Nothing]
  /\ pc' = [pc EXCEPT ![s] = IF paced[s] THEN "sending" ELSE "blocked"]
  /\ UNCHANGED <<outgoing, written, polls, isOpen, paced, expired, clockVars, queries>>

TakePoll(s) ==
  /\ pc[s] = "blocked"
  /\ polls > 0
  /\ polls' = polls - 1
  /\ pc' = [pc EXCEPT ![s] = "sending"]
  /\ UNCHANGED <<outgoing, written, isOpen, paced, item, expired, clockVars, queries>>

TimerExpires(s) ==
  /\ Primary(s)
  /\ pc[s] = "blocked"
  /\ timer = 0
  /\ timer' = Stopped
  /\ expired' = [expired EXCEPT ![s] = TRUE]
  /\ pc' = [pc EXCEPT ![s] = "sending"]
  /\ UNCHANGED <<outgoing, written, polls, isOpen, paced, item, delay, sincePacing, quiet, queries>>

(* A data packet displaces one pending poll.                               *)
Displace(s) == polls' = IF item[s] # Nothing /\ polls > 0 THEN polls - 1 ELSE polls

(* Fault: the timer is armed again only by a data packet or a granted poll.*)
RescheduleOnce(s) ==
  IF ~Primary(s) \/ expired[s] THEN UNCHANGED <<delay, timer>>
  ELSE delay' = InitDelay /\ timer' = InitDelay

Reschedule(s) ==
  IF ~Primary(s) THEN UNCHANGED <<delay, timer>>
  ELSE /\ delay' = IF expired[s] THEN Least(Longer[delay], MaxDelay) ELSE InitDelay
       /\ timer' = delay'

(* Errors of send are logged and the loop goes on, so nothing follows from *)
(* them here.                                                              *)
Send(s) ==
  /\ pc[s] = "sending"
  /\ Displace(s)
  /\ Reschedule(s)
  /\ sincePacing' = [sincePacing EXCEPT ![s] = IF paced[s] \/ item[s] = Nothing THEN 0 ELSE @]
  /\ quiet' = 0
  /\ queries' = IF item[s] = Nothing THEN queries
                ELSE [queries EXCEPT ![s] = Append(@, item[s])]
  /\ item' = [item EXCEPT ![s] = Nothing]
  /\ pc' = [pc EXCEPT ![s] = "top"]
  /\ UNCHANGED <<outgoing, written, isOpen, paced, expired>>

SendLoop(s) ==
  CheckPacing(s) \/ TakePacket(s) \/ NoPacket(s) \/ TakePoll(s) \/ TimerExpires(s) \/ Send(s)

Idle(s) ==
  /\ pc[s] = "blocked" /\ outgoing = <<>> /\ polls = 0
  /\ Primary(s) => timer > 0

Tick ==
  /\ \A s \in Senders : Idle(s)
  /\ timer' = IF timer = Stopped THEN Stopped ELSE timer - 1
  /\ sincePacing' = [s \in Senders |-> Least(sincePacing[s] + 1, MinPacing)]
  /\ quiet' = Least(quiet + 1, MaxDelay + 1)
  /\ UNCHANGED <<outgoing, written, polls, isOpen, senderVars, delay, queries>>

Next ==
  \/ KcpWrite \/ ReceiveData \/ Close
  \/ \E s \in Senders : SendLoop(s)
  \/ Tick

Spec == Init /\ [][Next]_vars

(* Every sendLoop is scheduled, and time goes on.                          *)
Fairness == WF_vars(Tick) /\ \A s \in Senders : WF_vars(SendLoop(s))
FairSpec == Spec /\ Fairness

-----------------------------------------------------------------------------
(* However long the server stays silent, no more than maxPollDelay passes  *)
(* between two queries (dns.go:26-36): the timer is armed again after      *)
(* every kind of send, and senders that poll on their own cannot stop it.  *)
PollGapBounded == quiet <= MaxDelay

(* However the senders are interleaved, each of them sends packets in the  *)
(* order KCP wrote them, and no packet is sent twice (dns.go:431-454).     *)
SentInOrder ==
  /\ \A s \in Senders : \A i, j \in DOMAIN queries[s] : i < j => queries[s][i] < queries[s][j]
  /\ \A s, t \in Senders : s # t => Range(queries[s]) \cap Range(queries[t]) = {}

(* A packet that entered the outgoing queue is sent: neither polls that    *)
(* are always ready nor the other senders keep it there (dns.go:431-454).  *)
QueuedPacketsSent ==
  \A p \in Packets :
    (p \in Range(outgoing)) ~> (\E s \in Senders : p \in Range(queries[s]))

(* Close closes all layers of the tunnel (client.go:53): the loops of a    *)
(* tunnel that has been closed stop sending queries at some time.          *)
ClosedFallsSilent == <>[](isOpen \/ \A s \in Senders : pc[s] # "sending")
=============================================================================
