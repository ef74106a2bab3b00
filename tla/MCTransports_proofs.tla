------------------------ MODULE MCTransports_proofs ------------------------
(***************************************************************************)
(* Theorems about the client's senders.  However many sendLoops there are  *)
(* and however they are interleaved, packets go out in order and once, and *)
(* the polls do not cease; and however many workers share one DoH          *)
(* resolver, a pause that it asks for is kept and never cut short.         *)
(***************************************************************************)
EXTENDS MCTransports, SequenceTheorems, TLAPS

HttpPlaces ==
  {"idle", "roundtrip", "bootstrap", "hanging", "request", "limit"}

HttpTypes ==
  /\ now \in Nat /\ notBefore \in Nat
  /\ at \in [Workers -> HttpPlaces]
  /\ retryAfter \in [Workers -> Nat]
  /\ late \in [Workers -> Nat]

(* A worker that has sent during a pause is in the same pause still, and   *)
(* has not taken another message since.                                    *)
LateInPause ==
  \A w \in Workers : late[w] > 0 => HTTP!Limited /\ at[w] \notin {"roundtrip", "bootstrap"}

(* PauseIsKept is not inductive alone: it takes that Take looks at         *)
(* notBefore after the worker's last request.                              *)
HttpIInv == HttpTypes /\ LateInPause /\ HTTP!PauseIsKept

LEMMA HttpInitInv == HTTP!Init => HttpIInv
BY DEF HTTP!Init, HttpIInv, HttpTypes, HttpPlaces, LateInPause, HTTP!PauseIsKept, HTTP!Limited

(* A worker moves without a request and without a change of the pause.     *)
LEMMA HttpMoveInv ==
  ASSUME HttpIInv, NEW w \in Workers, NEW p \in {"idle", "hanging", "limit"},
         at' = [at EXCEPT ![w] = p], retryAfter' \in [Workers -> Nat],
         UNCHANGED <<now, notBefore, late>>
  PROVE  HttpIInv' /\ notBefore' >= notBefore
<1>1. HttpTypes' /\ notBefore' >= notBefore
  <2>1. at' \in [Workers -> HttpPlaces]
    BY Zenon DEF HttpIInv, HttpTypes, HttpPlaces
  <2>2. notBefore' >= notBefore
    BY DEF HttpIInv, HttpTypes
  <2> QED BY <2>1, <2>2 DEF HttpIInv, HttpTypes
<1>2. LateInPause' /\ HTTP!PauseIsKept'
  BY DEF HttpIInv, HttpTypes, LateInPause, HTTP!PauseIsKept, HTTP!Limited
<1> QED BY <1>1, <1>2 DEF HttpIInv

(* The request of a worker that has taken its message and sent nothing     *)
(* during this pause.                                                      *)
LEMMA RequestInv ==
  ASSUME HttpIInv, NEW w \in Workers, at[w] \in {"roundtrip", "bootstrap"}, HTTP!Request(w),
         UNCHANGED <<now, notBefore, retryAfter>>
  PROVE  HttpIInv'
<1>1. late[w] = 0
  BY DEF HttpIInv, HttpTypes, LateInPause
<1> QED BY <1>1
     DEF HTTP!Request, HttpIInv, HttpTypes, HttpPlaces, LateInPause, HTTP!PauseIsKept, HTTP!Limited

LEMMA HttpNextInv ==
  ASSUME HttpIInv, [HTTP!Next]_(HTTP!vars)
  PROVE  HttpIInv' /\ notBefore' >= notBefore
<1>1. CASE UNCHANGED HTTP!vars
  BY <1>1 DEF HTTP!vars, HttpIInv, HttpTypes, LateInPause, HTTP!PauseIsKept, HTTP!Limited
<1>2. CASE HTTP!Write
  BY <1>2 DEF HTTP!Write, HttpIInv, HttpTypes, LateInPause, HTTP!PauseIsKept, HTTP!Limited
<1>3. CASE HTTP!Tick
  <2>1. HttpTypes'
    BY <1>3 DEF HTTP!Tick, HttpIInv, HttpTypes
  <2>2. LateInPause' /\ HTTP!PauseIsKept'
    BY <1>3 DEF HTTP!Tick, HttpIInv, HttpTypes, LateInPause, HTTP!PauseIsKept, HTTP!Limited
  <2> QED BY <1>3, <2>1, <2>2 DEF HTTP!Tick, HttpIInv, HttpTypes
<1>4. ASSUME NEW w \in Workers, HTTP!Take(w) PROVE HttpIInv' /\ notBefore' >= notBefore
  <2>1. UNCHANGED <<now, notBefore, late, retryAfter>>
    BY <1>4 DEF HTTP!Take
  <2>2. CASE HTTP!Limited
    BY <1>4, <2>1, <2>2
         DEF HTTP!Take, HttpIInv, HttpTypes, LateInPause, HTTP!PauseIsKept, HTTP!Limited
  <2>3. CASE ~HTTP!Limited
    <3>1. at' = [at EXCEPT ![w] = "roundtrip"] /\ \A v \in Workers : late[v] = 0
      BY <1>4, <2>3 DEF HTTP!Take, HttpIInv, HttpTypes, LateInPause
    <3> QED BY <2>1, <3>1
         DEF HttpIInv, HttpTypes, HttpPlaces, LateInPause, HTTP!PauseIsKept, HTTP!Limited
  <2> QED BY <2>2, <2>3
<1>5. ASSUME NEW w \in Workers, HTTP!RoundTrip(w) PROVE HttpIInv' /\ notBefore' >= notBefore
  <2>1. at[w] = "roundtrip" /\ UNCHANGED <<now, notBefore, retryAfter>>
    BY <1>5 DEF HTTP!RoundTrip
  <2>2. CASE inner
    <3>1. HTTP!Request(w)
      BY <1>5, <2>2 DEF HTTP!RoundTrip
    <3> QED BY <2>1, <3>1, RequestInv DEF HttpIInv, HttpTypes
  <2>3. CASE ~inner
    <3>1. at' = [at EXCEPT ![w] = "bootstrap"] /\ UNCHANGED late
      BY <1>5, <2>3 DEF HTTP!RoundTrip
    <3> QED BY <2>1, <3>1
         DEF HttpIInv, HttpTypes, HttpPlaces, LateInPause, HTTP!PauseIsKept, HTTP!Limited
  <2> QED BY <2>2, <2>3
<1>6. ASSUME NEW w \in Workers, HTTP!Bootstrap(w) PROVE HttpIInv' /\ notBefore' >= notBefore
  <2>1. at[w] = "bootstrap" /\ UNCHANGED <<now, notBefore, retryAfter>>
    BY <1>6 DEF HTTP!Bootstrap
  <2>2. CASE HTTP!Request(w)
    BY <2>1, <2>2, RequestInv DEF HttpIInv, HttpTypes
  <2>3. CASE at' = [at EXCEPT ![w] = "idle"] /\ UNCHANGED late
    <3>1. retryAfter' \in [Workers -> Nat]
      BY <2>1 DEF HttpIInv, HttpTypes
    <3> QED BY <2>1, <2>3, <3>1, HttpMoveInv
  <2> QED BY <1>6, <2>2, <2>3 DEF HTTP!Bootstrap
<1>7. ASSUME NEW w \in Workers, HTTP!BootstrapHangs(w) PROVE HttpIInv' /\ notBefore' >= notBefore
  <2>1. at' = [at EXCEPT ![w] = "hanging"] /\ UNCHANGED <<now, notBefore, late, retryAfter>>
    BY <1>7 DEF HTTP!BootstrapHangs
  <2>2. retryAfter' \in [Workers -> Nat]
    BY <2>1 DEF HttpIInv, HttpTypes
  <2> QED BY <2>1, <2>2, HttpMoveInv
<1>8. ASSUME NEW w \in Workers, HTTP!Answer(w) PROVE HttpIInv' /\ notBefore' >= notBefore
  <2>1. UNCHANGED <<now, notBefore, late>>
    BY <1>8 DEF HTTP!Answer
  <2>2. \E p \in {"idle", "limit"} : at' = [at EXCEPT ![w] = p]
    BY <1>8 DEF HTTP!Answer
  <2>3. retryAfter' \in [Workers -> Nat]
    BY <1>8, RetryAssumption DEF HTTP!Answer, HttpIInv, HttpTypes
  <2> QED BY <2>1, <2>2, <2>3, HttpMoveInv
<1>9. ASSUME NEW w \in Workers, HTTP!Limit(w) PROVE HttpIInv' /\ notBefore' >= notBefore
  <2>1. /\ retryAfter[w] \in Nat /\ at' = [at EXCEPT ![w] = "idle"]
        /\ retryAfter' = [retryAfter EXCEPT ![w] = 0] /\ UNCHANGED <<now, late>>
    BY <1>9 DEF HTTP!Limit, HttpIInv, HttpTypes
  <2>2. notBefore' \in Nat /\ notBefore' >= notBefore
    BY <1>9, <2>1 DEF HTTP!Limit, HttpIInv, HttpTypes
  <2>3. HttpTypes'
    BY <2>1, <2>2 DEF HttpIInv, HttpTypes, HttpPlaces
  <2>4. LateInPause' /\ HTTP!PauseIsKept'
    BY <2>1, <2>2 DEF HttpIInv, HttpTypes, LateInPause, HTTP!PauseIsKept, HTTP!Limited
  <2> QED BY <2>2, <2>3, <2>4 DEF HttpIInv
<1> QED BY <1>1, <1>2, <1>3, <1>4, <1>5, <1>6, <1>7, <1>8, <1>9 DEF HTTP!Next, HTTP!SendLoop

(* During a pause each worker sends at most the one message that it had    *)
(* already let pass (http.go:150-156).                                     *)
THEOREM PausesAreKept == HTTP!Spec => []PauseIsKept
<1>1. HttpIInv => PauseIsKept
  BY DEF HttpIInv, PauseIsKept
<1>2. HttpIInv /\ [HTTP!Next]_(HTTP!vars) => HttpIInv'
  BY HttpNextInv
<1> QED BY <1>1, <1>2, HttpInitInv, PTL DEF HTTP!Spec

(* In whatever order the workers handle their responses, a pause is never  *)
(* cut short by one that ends sooner (http.go:124-135).                    *)
THEOREM PausesOnlyGrow == HTTP!Spec => HTTP!PauseOnlyGrows
<1>1. HttpIInv /\ [HTTP!Next]_(HTTP!vars) => HttpIInv' /\ [notBefore' >= notBefore]_(HTTP!vars)
  BY HttpNextInv
<1> QED BY <1>1, HttpInitInv, PTL DEF HTTP!Spec, HTTP!PauseOnlyGrows

-----------------------------------------------------------------------------
(* The polls: while the timer runs it fires before the gap is too long,    *)
(* and it stands still only while its expiry is being answered.            *)
Delays == InitDelay..MaxDelay

PollIInv ==
  /\ delay \in Delays /\ quiet \in 0..MaxDelay
  /\ timer \in 0..Stopped
  /\ pc \in [Senders -> {"top", "select", "blocked", "sending"}]
  /\ IF timer = Stopped THEN pc[0] = "sending" ELSE quiet + timer <= MaxDelay


LEMMA SenderZero == 0 \in Senders
BY SizeAssumption DEF Senders

LEMMA PollInitInv == Init => PollIInv
BY DelayAssumption, SenderZero DEF Init, PollIInv, Delays, Stopped

(* A sender that does not answer its timer leaves it as it is.             *)
LEMMA PollOtherStep ==
  ASSUME PollIInv, NEW s \in Senders, pc[s] # "sending",
         NEW p \in {"top", "select", "blocked", "sending"}, pc' = [pc EXCEPT ![s] = p],
         UNCHANGED <<delay, timer, quiet>>
  PROVE  PollIInv'
BY SenderZero DEF PollIInv, Delays, Stopped

LEMMA PollSendInv ==
  ASSUME PollIInv, NEW s \in Senders, Send(s)
  PROVE  PollIInv'
<1>1. quiet' = 0 /\ pc' = [pc EXCEPT ![s] = "top"] /\ Reschedule(s)
  BY DEF Send
<1>2. pc' \in [Senders -> {"top", "select", "blocked", "sending"}]
  BY <1>1, Zenon DEF PollIInv
<1>3. CASE s = 0
  <2>1. delay' \in Delays /\ timer' = delay'
    BY <1>1, <1>3, DelayAssumption DEF Reschedule, Primary, Least, PollIInv, Delays
  <2>2. timer' \in 0..Stopped /\ timer' # Stopped /\ 0 + timer' <= MaxDelay /\ 0 \in 0..MaxDelay
    <3>1. InitDelay \in Nat \ {0} /\ MaxDelay \in Nat
      BY DelayAssumption
    <3>2. PICK d \in Delays : d = timer'
      BY <2>1
    <3>3. d \in Nat /\ d <= MaxDelay
      BY <3>1 DEF Delays
    <3>4. d \in 0..Stopped /\ d # Stopped /\ 0 + d <= MaxDelay
      BY <3>1, <3>3 DEF Stopped
    <3>5. 0 \in 0..MaxDelay
      BY <3>1
    <3> QED BY <3>2, <3>4, <3>5
  <2> QED BY <1>1, <1>2, <2>1, <2>2 DEF PollIInv, Stopped
<1>4. CASE s # 0
  <2>1. UNCHANGED <<delay, timer>> /\ pc'[0] = pc[0]
    BY <1>1, <1>4, SenderZero DEF Reschedule, Primary, PollIInv
  <2>2. (timer # Stopped => 0 + timer <= MaxDelay) /\ 0 \in 0..MaxDelay
    BY DelayAssumption DEF PollIInv, Delays, Stopped
  <2> QED BY <1>1, <1>2, <2>1, <2>2 DEF PollIInv, Stopped
<1> QED BY <1>3, <1>4

LEMMA PollNextInv == PollIInv /\ [Next]_vars => PollIInv'
<1> SUFFICES ASSUME PollIInv, [Next]_vars PROVE PollIInv'
  OBVIOUS
<1>1. CASE UNCHANGED vars
  BY <1>1 DEF vars, senderVars, clockVars, PollIInv, Delays, Stopped
<1>2. CASE KcpWrite \/ ReceiveData \/ Close
  BY <1>2 DEF KcpWrite, ReceiveData, Close, senderVars, clockVars, PollIInv, Delays, Stopped
<1>3. ASSUME NEW s \in Senders, CheckPacing(s) \/ TakePacket(s) \/ NoPacket(s) \/ TakePoll(s)
      PROVE  PollIInv'
  BY <1>3, PollOtherStep DEF CheckPacing, TakePacket, NoPacket, TakePoll, clockVars
<1>4. ASSUME NEW s \in Senders, TimerExpires(s) PROVE PollIInv'
  BY <1>4, DelayAssumption DEF TimerExpires, Primary, PollIInv, Delays, Stopped
<1>5. ASSUME NEW s \in Senders, Send(s) PROVE PollIInv'
  BY <1>5, PollSendInv
<1>6. CASE Tick
  <2>1. pc[0] = "blocked" /\ timer > 0 /\ UNCHANGED <<pc, delay>>
    BY <1>6, SenderZero DEF Tick, Idle, Primary, senderVars
  <2>2. timer # Stopped
    BY <2>1 DEF PollIInv
  <2> QED BY <1>6, <2>1, <2>2, DelayAssumption DEF Tick, Least, PollIInv, Delays, Stopped
<1> QED BY <1>1, <1>2, <1>3, <1>4, <1>5, <1>6 DEF Next, SendLoop

(* However long the server stays silent, no more than maxPollDelay passes  *)
(* between two queries (dns.go:26-36).                                     *)
THEOREM PollsGoOn == Spec => []PollGapBounded
<1>1. PollIInv => PollGapBounded
  BY DelayAssumption DEF PollIInv, PollGapBounded
<1> QED BY <1>1, PollInitInv, PollNextInv, PTL DEF Spec

-----------------------------------------------------------------------------
(* The packets: a sender's last one has been sent or is about to be.       *)
Ascends(s) == \A i, j \in DOMAIN s : i < j => s[i] < s[j]
Used(s) == Range(queries[s]) \cup ({item[s]} \ {Nothing})

OrderTypes ==
  /\ written \in Nat /\ outgoing \in Seq(Nat)
  /\ pc \in [Senders -> {"top", "select", "blocked", "sending"}]
  /\ item \in [Senders -> Nat] /\ queries \in [Senders -> Seq(Nat)]

(* What waits in the queue is in order and newer than what was taken.      *)
QueueAscends ==
  /\ Ascends(outgoing)
  /\ \A j \in DOMAIN outgoing : outgoing[j] > 0 /\ outgoing[j] <= written
UsedAreOlder ==
  \A s \in Senders : \A n \in Used(s) :
    n <= written /\ \A j \in DOMAIN outgoing : n < outgoing[j]

(* A sender holds a packet only while sending, newer than all it has sent. *)
HeldIsNewest ==
  \A s \in Senders :
    /\ Ascends(queries[s])
    /\ item[s] # Nothing =>
         pc[s] = "sending" /\ \A i \in DOMAIN queries[s] : queries[s][i] < item[s]
UsedOnce == \A s, t \in Senders : s # t => Used(s) \cap Used(t) = {}

OrderIInv == OrderTypes /\ QueueAscends /\ UsedAreOlder /\ HeldIsNewest /\ UsedOnce

LEMMA OrderInitInv == Init => OrderIInv
<1> SUFFICES ASSUME Init PROVE OrderIInv
  OBVIOUS
<1>1. OrderTypes /\ outgoing = <<>>
  BY DEF Init, OrderTypes, Nothing
<1>2. \A s \in Senders : item[s] = Nothing /\ queries[s] = <<>> /\ Used(s) = {}
  BY DEF Init, Used, Range
<1> QED BY <1>1, <1>2
     DEF OrderIInv, QueueAscends, Ascends, UsedAreOlder, HeldIsNewest, UsedOnce

(* A step that neither takes nor sends a packet.                           *)
LEMMA OrderOtherStep ==
  ASSUME OrderIInv, pc' \in [Senders -> {"top", "select", "blocked", "sending"}],
         \A s \in Senders : item[s] # Nothing => pc'[s] = pc[s],
         UNCHANGED <<outgoing, written, item, queries>>
  PROVE  OrderIInv'
<1>1. \A s \in Senders : Used(s)' = Used(s)
  BY DEF Used
<1>2. OrderTypes' /\ QueueAscends'
  BY DEF OrderIInv, OrderTypes, QueueAscends, Ascends
<1>3. UsedAreOlder' /\ UsedOnce'
  BY <1>1 DEF OrderIInv, UsedAreOlder, UsedOnce
<1>4. HeldIsNewest'
  BY DEF OrderIInv, HeldIsNewest, Ascends
<1> QED BY <1>2, <1>3, <1>4 DEF OrderIInv

LEMMA OrderWriteInv ==
  ASSUME OrderIInv, KcpWrite
  PROVE  OrderIInv'
<1>1. written' = written + 1 /\ UNCHANGED <<pc, item, queries>>
  BY DEF KcpWrite, senderVars
<1>2. \A s \in Senders : Used(s)' = Used(s) /\ \A n \in Used(s) : n \in Nat
  BY <1>1 DEF Used, Range, OrderIInv, OrderTypes, Nothing
<1>3. CASE outgoing' = outgoing
  BY <1>1, <1>2, <1>3
     DEF OrderIInv, OrderTypes, QueueAscends, Ascends, UsedAreOlder, HeldIsNewest, UsedOnce
<1>4. CASE outgoing' = Append(outgoing, written')
  <2>1. outgoing' \in Seq(Nat) /\ written' \in Nat
    BY <1>1, <1>4 DEF OrderIInv, OrderTypes
  <2>2. \A j \in DOMAIN outgoing' :
          IF j \in DOMAIN outgoing THEN outgoing'[j] = outgoing[j]
          ELSE j = Len(outgoing) + 1 /\ outgoing'[j] = written + 1
    BY <1>1, <1>4 DEF OrderIInv, OrderTypes
  <2>3. \A j \in DOMAIN outgoing : j \in Nat /\ j <= Len(outgoing) /\ outgoing[j] \in Nat
    BY DEF OrderIInv, OrderTypes
  <2>4. QueueAscends'
    <3>1. Ascends(outgoing')
      <4> SUFFICES ASSUME NEW i \in DOMAIN outgoing', NEW j \in DOMAIN outgoing', i < j
                   PROVE  outgoing'[i] < outgoing'[j]
        BY DEF Ascends
      <4>1. CASE j \in DOMAIN outgoing
        <5>1. i \in DOMAIN outgoing
          BY <2>2, <2>3, <4>1
        <5> QED BY <2>2, <4>1, <5>1 DEF OrderIInv, QueueAscends, Ascends
      <4>2. CASE j \notin DOMAIN outgoing
        <5>1. i \in DOMAIN outgoing /\ outgoing'[j] = written + 1
          BY <2>2, <2>3, <4>2
        <5>2. outgoing[i] <= written /\ outgoing[i] \in Nat /\ written \in Nat
          BY <2>3, <5>1 DEF OrderIInv, OrderTypes, QueueAscends
        <5> QED BY <2>2, <5>1, <5>2
      <4> QED BY <4>1, <4>2
    <3>2. \A j \in DOMAIN outgoing' : outgoing'[j] > 0 /\ outgoing'[j] <= written'
      BY <1>1, <2>2, <2>3 DEF OrderIInv, OrderTypes, QueueAscends
    <3> QED BY <3>1, <3>2 DEF QueueAscends
  <2>5. UsedAreOlder'
    <3> SUFFICES ASSUME NEW s \in Senders, NEW n \in Used(s)
                 PROVE  n <= written' /\ \A j \in DOMAIN outgoing' : n < outgoing'[j]
      BY <1>2 DEF UsedAreOlder
    <3>1. /\ n \in Nat /\ written \in Nat /\ n <= written
          /\ \A j \in DOMAIN outgoing : n < outgoing[j]
      BY <1>2 DEF OrderIInv, OrderTypes, UsedAreOlder
    <3> QED BY <1>1, <2>2, <3>1
  <2> QED BY <1>1, <1>2, <2>1, <2>4, <2>5
       DEF OrderIInv, OrderTypes, HeldIsNewest, UsedOnce, Ascends
<1> QED BY <1>3, <1>4 DEF KcpWrite

(* The head of the queue is newer than everything that was taken before.   *)
LEMMA OrderTakeInv ==
  ASSUME OrderIInv, NEW s \in Senders, TakePacket(s)
  PROVE  OrderIInv'
<1> USE DEF Nothing
<1>1. PICK h \in Nat : h = Head(outgoing) /\ h = outgoing[1] /\ 1 \in DOMAIN outgoing
  BY DEF TakePacket, OrderIInv, OrderTypes
<1>2. /\ item' = [item EXCEPT ![s] = h] /\ item[s] = 0
      /\ pc' = [pc EXCEPT ![s] = "sending"]
      /\ outgoing' = Tail(outgoing) /\ UNCHANGED <<written, queries>>
  BY <1>1 DEF TakePacket, OrderIInv, HeldIsNewest
<1>3. OrderTypes'
  BY <1>2 DEF TakePacket, OrderIInv, OrderTypes
<1>4. \A j \in DOMAIN outgoing' :
        j \in Nat /\ j + 1 \in DOMAIN outgoing /\ outgoing'[j] = outgoing[j + 1]
  BY <1>2 DEF TakePacket, OrderIInv, OrderTypes
<1>5. QueueAscends' /\ h > 0 /\ h <= written /\ \A j \in DOMAIN outgoing' : h < outgoing'[j]
  BY <1>1, <1>2, <1>4 DEF OrderIInv, OrderTypes, QueueAscends, Ascends
<1>6. Used(s)' = Used(s) \cup {h} /\ \A t \in Senders \ {s} : Used(t)' = Used(t)
  BY <1>2, <1>5 DEF Used, OrderIInv, OrderTypes
<1>7. \A t \in Senders : \A n \in Used(t) : n < h
  BY <1>1 DEF OrderIInv, UsedAreOlder
<1>8. UsedAreOlder'
  BY <1>2, <1>4, <1>5, <1>6 DEF OrderIInv, UsedAreOlder
<1>9. \A i \in DOMAIN queries[s] : queries[s][i] < h
  BY <1>7 DEF Used, Range
<1>10. HeldIsNewest'
  BY <1>2, <1>9 DEF OrderIInv, OrderTypes, HeldIsNewest, Ascends
<1>11. UsedOnce'
  BY <1>6, <1>7 DEF OrderIInv, UsedOnce
<1> QED BY <1>3, <1>5, <1>8, <1>10, <1>11 DEF OrderIInv

(* What is sent was held, so nothing else is used.                         *)
LEMMA OrderSendInv ==
  ASSUME OrderIInv, NEW s \in Senders, Send(s)
  PROVE  OrderIInv'
<1> USE DEF Nothing
<1>1. /\ item' = [item EXCEPT ![s] = 0] /\ pc' = [pc EXCEPT ![s] = "top"]
      /\ UNCHANGED <<outgoing, written>>
  BY DEF Send
<1>2. CASE item[s] = 0
  <2>1. queries' = queries /\ item' = item
    BY <1>1, <1>2 DEF Send, OrderIInv, OrderTypes
  <2> QED BY <1>1, <1>2, <2>1, OrderOtherStep DEF OrderIInv, OrderTypes
<1>3. CASE item[s] # 0
  <2>1. PICK q \in Seq(Nat), p \in Nat : q = queries[s] /\ p = item[s]
    BY DEF OrderIInv, OrderTypes
  <2>2. queries' = [queries EXCEPT ![s] = Append(q, p)] /\ Append(q, p) \in Seq(Nat)
    BY <1>3, <2>1 DEF Send
  <2>3. OrderTypes'
    BY <1>1, <2>2 DEF OrderIInv, OrderTypes
  <2>4. /\ DOMAIN Append(q, p) = DOMAIN q \cup {Len(q) + 1}
        /\ Append(q, p)[Len(q) + 1] = p
        /\ \A i \in DOMAIN q : Append(q, p)[i] = q[i] /\ i \in Nat /\ i <= Len(q)
    BY <2>1
  <2>5. Range(Append(q, p)) = Range(q) \cup {p}
    BY <2>4 DEF Range
  <2>6. \A t \in Senders : Used(t)' = Used(t)
    BY <1>1, <1>3, <2>1, <2>2, <2>5 DEF Used, OrderIInv, OrderTypes
  <2>7. \A i \in DOMAIN q : q[i] < p
    BY <1>3, <2>1 DEF OrderIInv, HeldIsNewest
  <2>8. Ascends(Append(q, p))
    BY <2>1, <2>4, <2>7 DEF OrderIInv, HeldIsNewest, Ascends
  <2>9. \A t \in Senders \ {s} :
          queries'[t] = queries[t] /\ item'[t] = item[t] /\ pc'[t] = pc[t]
    BY <1>1, <2>2 DEF OrderIInv, OrderTypes
  <2>10. queries'[s] = Append(q, p) /\ item'[s] = 0
    BY <1>1, <2>2 DEF OrderIInv, OrderTypes
  <2>11. HeldIsNewest'
    BY <2>8, <2>9, <2>10 DEF OrderIInv, HeldIsNewest, Ascends
  <2> QED BY <1>1, <2>3, <2>6, <2>11
       DEF OrderIInv, QueueAscends, Ascends, UsedAreOlder, UsedOnce
<1> QED BY <1>2, <1>3

LEMMA OrderNextInv == OrderIInv /\ [Next]_vars => OrderIInv'
<1> SUFFICES ASSUME OrderIInv, [Next]_vars PROVE OrderIInv'
  OBVIOUS
<1>1. CASE UNCHANGED vars \/ ReceiveData \/ Close \/ Tick
  BY <1>1, OrderOtherStep
     DEF vars, ReceiveData, Close, Tick, senderVars, OrderIInv, OrderTypes
<1>2. CASE KcpWrite
  BY <1>2, OrderWriteInv
<1>3. ASSUME NEW s \in Senders, CheckPacing(s) \/ NoPacket(s) \/ TakePoll(s) \/ TimerExpires(s)
      PROVE  OrderIInv'
  <2>1. pc[s] # "sending" /\ item[s] = Nothing
    BY <1>3 DEF CheckPacing, NoPacket, TakePoll, TimerExpires, OrderIInv, HeldIsNewest
  <2>2. UNCHANGED <<outgoing, written, queries>>
    BY <1>3 DEF CheckPacing, NoPacket, TakePoll, TimerExpires
  <2>3. item' = item
    BY <1>3, <2>1 DEF CheckPacing, NoPacket, TakePoll, TimerExpires, OrderIInv, OrderTypes
  <2>4. \E p \in {"top", "select", "blocked", "sending"} : pc' = [pc EXCEPT ![s] = p]
    BY <1>3 DEF CheckPacing, NoPacket, TakePoll, TimerExpires
  <2> QED BY <2>1, <2>2, <2>3, <2>4, OrderOtherStep DEF OrderIInv, OrderTypes
<1>4. ASSUME NEW s \in Senders, TakePacket(s) PROVE OrderIInv'
  BY <1>4, OrderTakeInv
<1>5. ASSUME NEW s \in Senders, Send(s) PROVE OrderIInv'
  BY <1>5, OrderSendInv
<1> QED BY <1>1, <1>2, <1>3, <1>4, <1>5 DEF Next, SendLoop

LEMMA OrderHolds == OrderIInv => SentInOrder
BY DEF OrderIInv, HeldIsNewest, UsedOnce, Ascends, Used, SentInOrder

(* Each sender sends packets in the order KCP wrote them, and none is sent *)
(* twice (dns.go:431-454).                                                 *)
THEOREM PacketsGoInOrder == Spec => []SentInOrder
BY OrderInitInv, OrderNextInv, OrderHolds, PTL DEF Spec

(* The same of the composition, whose other parts do not send packets.     *)
THEOREM PollingKeepsOrder == MCSpec => []MCSentInOrder
<1> DEFINE J == part = "polling" => OrderIInv
<1>1. MCInit => J
  BY OrderInitInv DEF MCInit
<1>2. J /\ [MCNext]_mcVars => J'
  <2> SUFFICES ASSUME J, [MCNext]_mcVars, part' = "polling" PROVE OrderIInv'
    OBVIOUS
  <2>1. part = "polling"
    BY DEF MCNext, mcVars, Dot, DotSender, DotPermits
  <2> QED BY <2>1, OrderNextInv DEF MCNext, mcVars, Dot
<1>3. J => MCSentInOrder
  BY OrderHolds DEF MCSentInOrder
<1> QED BY <1>1, <1>2, <1>3, PTL DEF MCSpec
=============================================================================
