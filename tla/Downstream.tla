------------------------------ MODULE Downstream ------------------------------
(***************************************************************************)
(* What the server promises of the downstream direction: every client has  *)
(* a queue of packets, queries wait their turn, and each query is answered *)
(* at most once, with a prefix of its client's queue that fits a response. *)
(* Packets may be lost, KCP will resend them, but never reordered,         *)
(* duplicated or given to another client.                                  *)
(***************************************************************************)
EXTENDS Naturals, Sequences, Functions

CONSTANTS
  Clients,     (* ClientIDs                                                *)
  Packets,     (* packets KCP writes                                       *)
  QueryIds,    (* queries that may arrive                                  *)
  Weight,      (* the bytes a packet takes in a response, prefix included  *)
  MaxEncoded   (* computeMaxEncodedPayload's result                        *)

VARIABLES
  pending,     (* packets of each client that are not yet in a response    *)
  waiting,     (* queries accepted and not yet answered                    *)
  sent         (* responses sent                                           *)

vars == <<pending, waiting, sent>>

(* A response holds one packet of any size, or several that lie one after  *)
(* the other in its MaxEncoded bytes: packet i ends at end[i].             *)
Fits(ps) ==
  \/ Len(ps) <= 1
  \/ \E end \in [0..Len(ps) -> 0..MaxEncoded] :
       end[0] = 0 /\ \A i \in 1..Len(ps) : end[i] = end[i - 1] + Weight[ps[i]]

(* The packets of ps are among those of qs, in the same order.             *)
Subsequence(ps, qs) ==
  \E at \in [1..Len(ps) -> 1..Len(qs)] :
    /\ \A i, j \in 1..Len(ps) : i < j => at[i] < at[j]
    /\ \A i \in 1..Len(ps) : ps[i] = qs[at[i]]

Init ==
  /\ pending = [a \in Clients |-> <<>>]
  /\ waiting = <<>>
  /\ sent = <<>>

Write(a, p) ==
  /\ pending' = [pending EXCEPT ![a] = Append(@, p)]
  /\ UNCHANGED <<waiting, sent>>

(* Queries are numbered as they come; none is accepted twice.              *)
Accept(q) ==
  /\ \A before \in Range(waiting) \cup Range(sent) : before.id < q.id
  /\ waiting' = Append(waiting, q)
  /\ UNCHANGED <<pending, sent>>

(* The first packets of its client leave in the answer to the oldest query *)
(* (or are lost when the datagram cannot be sent).                         *)
Answer ==
  /\ waiting # <<>>
  /\ waiting' = Tail(waiting)
  /\ LET q == Head(waiting)
         queue == pending[q.client]
     IN  \E n \in 0..Len(queue) :
           LET carried == SubSeq(queue, 1, n)
           IN  /\ n > 0 => q.fills /\ Fits(carried)
               /\ pending' = [pending EXCEPT ![q.client] = SubSeq(queue, n + 1, Len(queue))]
               /\ \/ sent' = Append(sent, [id |-> q.id, packets |-> carried])
                  \/ sent' = sent

(* Packets vanish, the others keep their order.                            *)
Lose ==
  /\ \A a \in Clients : Subsequence(pending'[a], pending[a])
  /\ DOMAIN pending' = Clients
  /\ UNCHANGED <<waiting, sent>>

LosslessNext ==
  \/ \E a \in Clients, p \in Packets : Write(a, p)
  \/ \E q \in [id : QueryIds, client : Clients, fills : BOOLEAN] : Accept(q)
  \/ Answer

Next == LosslessNext \/ Lose

Spec == Init /\ [][Next]_vars
=============================================================================
