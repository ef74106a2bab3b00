---------------------------- MODULE MCTransports ----------------------------
(***************************************************************************)
(* The client's DNS packets and the transports under them, for TLC.  In a  *)
(* behaviour of part "polling" several senders of ClientPolling run alone, *)
(* in one of part "doh" the workers of HTTPPacketConn; in one of part      *)
(* "dot" the polls of one sender are what a TLSPacketConn has to send, and *)
(* only what the TLSPacketConn receives permits further polls.             *)
(***************************************************************************)
EXTENDS ClientPolling

CONSTANTS
  Parts,
  Workers, Nobody, MaxQueries, MaxNow, MaxAhead, Default,   \* HTTPPacketConn
  MaxDials,                                                 \* TLSPacketConn
  Room                                                      \* both

ASSUME RetryAssumption == Default \in Nat /\ MaxAhead \in Nat

VARIABLES
  part,
  queue,                                       \* HTTPPacketConn, TLSPacketConn
  posted, now, notBefore, at, retryAfter, inner, innerLock, late,
  conn, sender, receiver, dials, open

MCLonger == [d \in InitDelay..MaxDelay |-> 2 * d]

HTTP == INSTANCE HTTPPacketConn WITH queries <- posted
TLS == INSTANCE TLSPacketConn
One == INSTANCE ClientPolling WITH NumSenders <- 1, MaxWrites <- 1,
  Pacing <- FALSE

httpVars == <<posted, now, notBefore, at, retryAfter, inner, innerLock, late>>
tlsVars == <<conn, sender, receiver, dials, open>>

-----------------------------------------------------------------------------
(* A query that is sent is written to the TLSPacketConn.                   *)
DotSender ==
  /\ \/ One!Send(0) /\ TLS!Write
     \/ /\ \/ One!CheckPacing(0) \/ One!TakePacket(0) \/ One!NoPacket(0)
           \/ One!TakePoll(0) \/ One!TimerExpires(0)
        /\ UNCHANGED <<queue, tlsVars>>
  /\ UNCHANGED <<part, httpVars>>

DotPermits == TLS!Receive /\ One!ReceiveData /\ UNCHANGED <<part, httpVars>>

Dot ==
  /\ part = "dot"
  /\ \/ DotSender \/ DotPermits
     \/ (One!KcpWrite \/ One!Close \/ One!Tick) /\ UNCHANGED <<part, queue, httpVars, tlsVars>>
     \/ (TLS!Loops \/ TLS!End \/ TLS!Reset) /\ UNCHANGED <<part, vars, httpVars>>

MCInit ==
  /\ part \in Parts
  /\ IF part = "dot" THEN One!Init ELSE Init
  /\ HTTP!Init
  /\ TLS!Init

MCNext ==
  \/ part = "polling" /\ Next /\ UNCHANGED <<part, queue, httpVars, tlsVars>>
  \/ part = "doh" /\ HTTP!Next /\ UNCHANGED <<part, vars, tlsVars>>
  \/ Dot

mcVars == <<part, vars, queue, httpVars, tlsVars>>

(* The fairness of the components: each goroutine is scheduled.            *)
Poll(s) == part = "polling" /\ SendLoop(s) /\ UNCHANGED <<part, queue, httpVars, tlsVars>>
Time == part = "polling" /\ Tick /\ UNCHANGED <<part, queue, httpVars, tlsVars>>
Work(w) == part = "doh" /\ HTTP!SendLoop(w) /\ UNCHANGED <<part, vars, tlsVars>>
Enter(w) == part = "doh" /\ HTTP!RoundTrip(w) /\ UNCHANGED <<part, vars, tlsVars>>
DotPoll == part = "dot" /\ DotSender
DotTime == part = "dot" /\ One!Tick /\ UNCHANGED <<part, queue, httpVars, tlsVars>>
DotRecv == part = "dot" /\ TLS!StopReading /\ UNCHANGED <<part, vars, httpVars>>
DotSend == part = "dot" /\ (TLS!Take \/ TLS!WriteMessage) /\ UNCHANGED <<part, vars, httpVars>>
DotConn == part = "dot" /\ (TLS!Dial \/ TLS!Reset) /\ UNCHANGED <<part, vars, httpVars>>

MCSpec ==
  /\ MCInit /\ [][MCNext]_mcVars
  /\ \A s \in Senders : WF_mcVars(Poll(s))
  /\ WF_mcVars(Time)
  /\ \A w \in Workers : WF_mcVars(Work(w)) /\ SF_mcVars(Enter(w))
  /\ WF_mcVars(DotPoll) /\ WF_mcVars(DotTime)
  /\ WF_mcVars(DotRecv) /\ WF_mcVars(DotSend) /\ WF_mcVars(DotConn)

-----------------------------------------------------------------------------
(* See HTTPPacketConn: pauses are kept and not cut short, and no worker is *)
(* lost.                                                                   *)
PauseIsKept == HTTP!PauseIsKept
WorkersComeBack ==
  \A w \in Workers :
    (at[w] # "idle") ~> (at[w] = "idle" \/ \E v \in Workers : at[v] = "hanging")


(* See ClientPolling: packets are sent, in order.                          *)
MCSentInOrder == part = "polling" => SentInOrder
MCQueuedPacketsSent ==
  \A p \in Packets :
    (part = "polling" /\ p \in Range(outgoing))
      ~> (part = "polling" /\ \E s \in Senders : p \in Range(queries[s]))
=============================================================================
