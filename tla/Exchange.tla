------------------------------ MODULE Exchange ------------------------------
(***************************************************************************)
(* dnstt-server answers one DNS query and dnstt-client reads the answer:   *)
(* recvLoop calls responseFor, delivers the packets found in the payload   *)
(* and passes the response to sendLoop, which fills it or not.             *)
(*                                                                         *)
(* A query is whatever reaches the server, from a client by way of any     *)
(* resolver or from anybody else.  Of a name it is kept whether it ends in *)
(* our domain and what the rest of it decodes to; of an OPT record its     *)
(* version and whether it offers maxUDPPayload bytes.  An RCODE has four   *)
(* bits in the header and eight more in the OPT record.                    *)
(***************************************************************************)
EXTENDS Naturals, Sequences, Functions

CONSTANTS
  Nothing,
  ModestLimit, (* maxUDPPayload (-mtu) is at most 512                      *)
  Queries      (* what is asked: any of AnyQuery                           *)

NoError == 0
FormatError == 1
NameError == 3
NotImplemented == 4
BadVers == 16

(* What the labels before the domain decode to: not base32, less than a    *)
(* ClientID, a ClientID and padding, a packet too, or a part of a packet.  *)
Contents == {"undecodable", "short", "poll", "data", "cut"}
OptRecords == [version : {0, 1}, large : BOOLEAN]
Questions == [ours : BOOLEAN, txt : BOOLEAN, content : Contents]

AnyQuery ==
  [qr : BOOLEAN, opcode : Nat, opts : Seq(OptRecords), questions : Seq(Questions)]

VARIABLES
  query,       (* the query being handled, or Nothing                      *)
  record,      (* the record on its way to sendLoop, or Nothing            *)
  delivered,   (* QueueIncoming was called for this query                  *)
  sent,        (* the response sent, or Nothing                            *)
  waiting      (* a packet waits in some client's outgoing queue           *)

vars == <<query, record, delivered, sent, waiting>>

-----------------------------------------------------------------------------
(* responseFor                                                             *)
Respond(q, opt, aa, rcode) ==
  [questions |-> q.questions, opt |-> opt, aa |-> aa,
   rcode |-> rcode % 16, extended |-> rcode \div 16, answers |-> <<>>, authority |-> <<>>]

HasOpt(q) == q.opts # <<>>

(* An offer of less than 512 bytes, or none, counts as one of 512.         *)
OfferedSize(q) == ModestLimit \/ (HasOpt(q) /\ q.opts[Len(q.opts)].large)

(* Fault: the type of the question is not looked at.                       *)
AnyTypeRcode(q) ==
  IF HasOpt(q) /\ q.opts[1].version # 0             THEN BadVers
  ELSE IF Len(q.opts) > 1 \/ Len(q.questions) # 1   THEN FormatError
  ELSE IF ~q.questions[1].ours                      THEN NameError
  ELSE IF q.opcode # 0                              THEN NotImplemented
  ELSE IF q.questions[1].content = "undecodable"    THEN NameError
  ELSE IF ~OfferedSize(q)                           THEN FormatError
  ELSE NoError

(* Where responseFor returns, if it does before the payload is known: the  *)
(* OPT records in turn, then the question.                                 *)
EarlyRcode(q) ==
  IF HasOpt(q) /\ q.opts[1].version # 0             THEN BadVers
  ELSE IF Len(q.opts) > 1 \/ Len(q.questions) # 1   THEN FormatError
  ELSE LET question == q.questions[1] IN
       IF ~question.ours                            THEN NameError
       ELSE IF q.opcode # 0                         THEN NotImplemented
       ELSE IF ~question.txt                        THEN NameError
       ELSE IF question.content = "undecodable"     THEN NameError
       ELSE IF ~OfferedSize(q)                      THEN FormatError
       ELSE NoError

Authoritative(q) ==
  /\ EarlyRcode(q) # BadVers /\ Len(q.opts) <= 1
  /\ Len(q.questions) = 1 /\ q.questions[1].ours

(* The payload is nil unless there is no error.                            *)
Payload(q) == IF EarlyRcode(q) = NoError THEN q.questions[1].content ELSE Nothing

ResponseFor(q) == Respond(q, HasOpt(q), Authoritative(q), EarlyRcode(q))

(* recvLoop: an NXDOMAIN for a payload that is too short for a ClientID,   *)
(* if the four bits of Rcode() say that there is no error yet.             *)
HasClientID(payload) == payload \in {"poll", "data", "cut"}

(* Fault: no such check.                                                   *)
Unchecked(resp, payload) == resp

Checked(resp, payload) ==
  IF ~HasClientID(payload) /\ resp.rcode = NoError
  THEN [resp EXCEPT !.rcode = NameError]
  ELSE resp

Init ==
  /\ query = Nothing /\ record = Nothing /\ sent = Nothing
  /\ delivered = FALSE
  /\ waiting \in BOOLEAN

Receive ==
  /\ query = Nothing
  /\ \E q \in Queries :
       /\ query' = q
       /\ delivered' = (~q.qr /\ Payload(q) = "data")
       /\ record' = IF q.qr THEN Nothing ELSE Checked(ResponseFor(q), Payload(q))
  /\ sent' = Nothing
  /\ UNCHANGED waiting

-----------------------------------------------------------------------------
(* sendLoop                                                                *)
Fillable(resp) == resp.rcode = NoError /\ Len(resp.questions) = 1

(* Takes the packet that waits, if the response is a candidate for it.     *)
Send ==
  /\ record # Nothing
  /\ IF Fillable(record)
     THEN /\ sent' = [record EXCEPT !.answers =
                        <<[question |-> record.questions[1], data |-> waiting]>>]
          /\ waiting' = FALSE
     ELSE /\ sent' = record
          /\ UNCHANGED waiting
  /\ record' = Nothing
  /\ UNCHANGED <<query, delivered>>

(* The next query; KCP may have written again.                             *)
Continue ==
  /\ query # Nothing /\ record = Nothing
  /\ query' = Nothing /\ sent' = Nothing /\ delivered' = FALSE
  /\ waiting' \in {waiting, TRUE}
  /\ UNCHANGED record

Next == Receive \/ Send \/ Continue

Spec == Init /\ [][Next]_vars

-----------------------------------------------------------------------------
(* dnsResponsePayload in dnstt-client: whether it returns the payload.     *)
ClientReads(resp) ==
  /\ resp.rcode = NoError
  /\ Len(resp.answers) = 1
  /\ resp.answers[1].question.ours /\ resp.answers[1].question.txt

(* The query of the resolver tester, to which a resolver may add an OPT    *)
(* record, and the answer the tester takes for the server's.               *)
TestQuery(q) ==
  /\ ~q.qr /\ q.opcode = 0
  /\ Len(q.questions) = 1 /\ q.questions[1].ours /\ ~q.questions[1].txt
  /\ Len(q.opts) <= 1 /\ \A opt \in Range(q.opts) : opt.version = 0
TestPasses(resp) == resp.rcode = NameError /\ resp.authority = <<>>

(* A packet leaves a queue only in a response that the client will read:   *)
(* what sendLoop fills (main.go:601) passes every test that the client     *)
(* applies (dns.go:159-181), and answers a query with a ClientID, so that  *)
(* no query can make the server waste data, or take them from the queue of *)
(* the zero ClientID (main.go:542-562).                                    *)
FilledResponsesAreRead ==
  sent # Nothing /\ sent.answers # <<>> =>
    ClientReads(sent) /\ HasClientID(query.questions[1].content)

(* Tester and server agree: a resolver is not rejected for an answer that  *)
(* is the server's own (resolver_tester.go:85-96, 130-158, main.go:397-490)*)
TesterAcceptsServer ==
  sent # Nothing /\ TestQuery(query) => TestPasses(sent)
=============================================================================
