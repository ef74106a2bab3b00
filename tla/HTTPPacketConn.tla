--------------------------- MODULE HTTPPacketConn ---------------------------
(***************************************************************************)
(* DNS over HTTPS in dnstt-client: HTTPPacketConn sends each message in a  *)
(* request of its own.  Workers goroutines run sendLoop over one outgoing  *)
(* queue.  A response of an unexpected status sets notBefore, before which *)
(* no worker sends.  Requests go through one utlsRoundTripper, whose first *)
(* caller makes the inner round tripper under innerLock.                   *)
(***************************************************************************)
EXTENDS Naturals, Sequences

CONSTANTS
  Workers,     (* the goroutines in sendLoop                               *)
  Room,        (* capacity of the outgoing queue                           *)
  MaxQueries,  (* bound: messages written                                  *)
  MaxNow,      (* bound: the clock                                         *)
  MaxAhead,    (* bound: how far in the future a Retry-After may be        *)
  Default,     (* defaultRetryAfter                                        *)
  Nobody

VARIABLES
  queue,       (* the outgoing queue: how many messages are in it          *)
  queries,     (* how many have been written                               *)
  now,
  notBefore,
  at,          (* where each worker is                                     *)
  retryAfter,  (* the one each worker is about to record                   *)
  inner,       (* rt.inner is set                                          *)
  innerLock,   (* who holds it                                             *)
  late         (* requests of each worker since notBefore was last in the  *)
               (* past (history)                                           *)

vars == <<queue, queries, now, notBefore, at, retryAfter, inner, innerLock, late>>

Init ==
  /\ queue = 0 /\ queries = 0
  /\ now = 1 /\ notBefore = 0
  /\ at = [w \in Workers |-> "idle"]
  /\ retryAfter = [w \in Workers |-> 0]
  /\ inner = FALSE /\ innerLock = Nobody
  /\ late = [w \in Workers |-> 0]

Limited == notBefore > now

(* WriteTo: a full queue drops the message.                                *)
Write ==
  /\ queries < MaxQueries
  /\ queries' = queries + 1
  /\ queue' = IF queue < Room THEN queue + 1 ELSE queue
  /\ UNCHANGED <<now, notBefore, at, retryAfter, inner, innerLock, late>>

(* Fault: notBefore is not looked at.                                      *)
TakeAnyway(w) ==
  /\ at[w] = "idle" /\ queue > 0
  /\ queue' = queue - 1
  /\ at' = [at EXCEPT ![w] = "roundtrip"]
  /\ UNCHANGED <<queries, now, notBefore, retryAfter, inner, innerLock, late>>

(* A message that is taken while the rate is limited is dropped.           *)
Take(w) ==
  /\ at[w] = "idle" /\ queue > 0
  /\ queue' = queue - 1
  /\ at' = IF Limited THEN at ELSE [at EXCEPT ![w] = "roundtrip"]
  /\ UNCHANGED <<queries, now, notBefore, retryAfter, inner, innerLock, late>>

Request(w) ==
  /\ at' = [at EXCEPT ![w] = "request"]
  /\ late' = [late EXCEPT ![w] = IF Limited THEN @ + 1 ELSE @]

(* RoundTrip: the lock is held while the bootstrap connection is made.     *)
RoundTrip(w) ==
  /\ at[w] = "roundtrip" /\ innerLock = Nobody
  /\ IF inner THEN Request(w) /\ UNCHANGED innerLock
     ELSE /\ innerLock' = w
          /\ at' = [at EXCEPT ![w] = "bootstrap"]
          /\ UNCHANGED late
  /\ UNCHANGED <<queue, queries, now, notBefore, retryAfter, inner>>

(* Fault: an error returns without the lock being released.                *)
BootstrapKeepsLock(w) ==
  /\ at[w] = "bootstrap"
  /\ \/ /\ inner' = TRUE /\ innerLock' = Nobody
        /\ Request(w)
     \/ /\ at' = [at EXCEPT ![w] = "idle"]
        /\ UNCHANGED <<inner, innerLock, late>>
  /\ UNCHANGED <<queue, queries, now, notBefore, retryAfter>>

(* makeRoundTripper succeeds, or its error ends the request.               *)
Bootstrap(w) ==
  /\ at[w] = "bootstrap"
  /\ innerLock' = Nobody
  /\ \/ /\ inner' = TRUE
        /\ Request(w)
     \/ /\ at' = [at EXCEPT ![w] = "idle"]
        /\ UNCHANGED <<inner, late>>
  /\ UNCHANGED <<queue, queries, now, notBefore, retryAfter>>

(* The connection is made but the handshake is never answered; it has no   *)
(* deadline.                                                               *)
BootstrapHangs(w) ==
  /\ at[w] = "bootstrap"
  /\ at' = [at EXCEPT ![w] = "hanging"]
  /\ UNCHANGED <<queue, queries, now, notBefore, retryAfter, inner, innerLock, late>>

(* A response with status 200, an error, or the client's timeout; or a     *)
(* response with another status and a Retry-After, which may be absent and *)
(* may be in the past.                                                     *)
Answer(w) ==
  /\ at[w] = "request"
  /\ \/ /\ at' = [at EXCEPT ![w] = "idle"]
        /\ UNCHANGED retryAfter
     \/ \E t \in {now + Default} \cup now..(now + MaxAhead) :
          /\ at' = [at EXCEPT ![w] = "limit"]
          /\ retryAfter' = [retryAfter EXCEPT ![w] = t]
  /\ UNCHANGED <<queue, queries, now, notBefore, inner, innerLock, late>>

(* notBefore is only ever moved to the future.                             *)
Limit(w) ==
  /\ at[w] = "limit"
  /\ notBefore' = IF retryAfter[w] < notBefore THEN notBefore ELSE retryAfter[w]
  /\ at' = [at EXCEPT ![w] = "idle"]
  /\ retryAfter' = [retryAfter EXCEPT ![w] = 0]
  /\ UNCHANGED <<queue, queries, now, inner, innerLock, late>>

Tick ==
  /\ now < MaxNow
  /\ now' = now + 1
  /\ late' = IF notBefore <= now' THEN [w \in Workers |-> 0] ELSE late
  /\ UNCHANGED <<queue, queries, notBefore, at, retryAfter, inner, innerLock>>

SendLoop(w) ==
  Take(w) \/ RoundTrip(w) \/ Bootstrap(w) \/ Answer(w) \/ Limit(w)

Next ==
  \/ Write \/ Tick
  \/ \E w \in Workers : SendLoop(w) \/ BootstrapHangs(w)

(* The workers are scheduled; dials and requests end, the latter by the    *)
(* client's timeout of a minute; a mutex is not kept from one who waits.   *)
Fairness == \A w \in Workers : WF_vars(SendLoop(w)) /\ SF_vars(RoundTrip(w))

Spec == Init /\ [][Next]_vars /\ Fairness

-----------------------------------------------------------------------------
(* Once the resolver has asked for a pause, each worker sends at most the  *)
(* one message that it had already let pass, and nothing more until the    *)
(* pause is over (http.go:150-156).                                        *)
PauseIsKept == \A w \in Workers : late[w] <= 1

(* Whatever the order in which the workers' responses are handled, a pause *)
(* is never cut short by one that ends sooner (http.go:124-135).           *)
PauseOnlyGrows == [][notBefore' >= notBefore]_vars

(* No worker is lost, be it to an error of the bootstrap connection that   *)
(* all of them wait for (utls.go:160-172, http.go:145-163), unless the     *)
(* resolver leaves its handshake unanswered: that keeps innerLock, and the *)
(* client's timeout of a minute (http.go:68) does not end it.              *)
WorkersComeBack ==
  \A w \in Workers :
    (at[w] # "idle") ~> (at[w] = "idle" \/ \E v \in Workers : at[v] = "hanging")
=============================================================================
