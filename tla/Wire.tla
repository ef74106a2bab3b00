-------------------------------- MODULE Wire --------------------------------
(***************************************************************************)
(* A packet's way through DNS messages, octet for octet: dnstt-client's    *)
(* send puts a packet into the name of a query, dnstt-server's recvLoop    *)
(* takes it out; dnstt-server's sendLoop puts packets into a TXT record,   *)
(* dnstt-client's recvLoop takes them out.  The messages are those of      *)
(* DnsMessage; a resolver in between may change the case of letters.       *)
(*                                                                         *)
(* A behaviour is one job: a message is written and then read.             *)
(***************************************************************************)
EXTENDS DnsMessage, TxtData

CONSTANT Jobs

TXT == 16
OPT == 41
ClientID == <<0, 255, 1, 128, 85, 170, 224, 7>>

VARIABLES
  job,      (* what is written                                             *)
  stage,    (* "read", "refused", "unpack" or "end"                        *)
  payload,  (* what remains of the payload                                 *)
  packets   (* the packets passed to QueueIncoming                         *)

vars == <<readVars, job, stage, payload, packets>>

-----------------------------------------------------------------------------
(* base32Encoding, in lower case and without padding.  A digit has the     *)
(* last five bits of an octet.                                             *)
BitValue(j) == <<128, 64, 32, 16, 8, 4, 2, 1>>[j + 1]
BitOf(c, j) == (c \div BitValue(j)) % 2
Bit(p, k) == IF k \div 8 >= Len(p) THEN 0 ELSE BitOf(p[(k \div 8) + 1], k % 8)

Base32(p) ==
  [i \in 1..((8 * Len(p) + 4) \div 5) |->
     LET b(j) == Bit(p, 5 * (i - 1) + j)
         v == 16 * b(0) + 8 * b(1) + 4 * b(2) + 2 * b(3) + b(4)
     IN IF v < 26 THEN 97 + v ELSE 24 + v]

(* Fault: what the client wrote in lower case is decoded as it is.         *)
AsReceived(s) == s

UpperCase(s) == [i \in DOMAIN s |-> IF s[i] \in 97..122 THEN s[i] - 32 ELSE s[i]]

Alphabet == 65..90 \cup 50..55
Digit(c) == IF c >= 65 THEN c - 65 ELSE c - 24
Unbase32(s) ==
  [i \in 1..((5 * Len(s)) \div 8) |->
     LET b(k) == BitOf(Digit(s[(k \div 5) + 1]), 3 + (k % 5))
         o == 8 * (i - 1)
     IN 128 * b(o) + 64 * b(o + 1) + 32 * b(o + 2) + 16 * b(o + 3)
        + 8 * b(o + 4) + 4 * b(o + 5) + 2 * b(o + 6) + b(o + 7)]

-----------------------------------------------------------------------------
(* dnstt-client: dnsNameCapacity and the MTU made of it, send.             *)
NameCapacity(domain) ==
  (((((254 - Len(Verbatim(domain))) * 63) \div 64)) * 5) \div 8

MTU(domain) == NameCapacity(domain) - Len(ClientID) - 1 - 3 - 1

(* Random padding is as confusing as it can be.                            *)
Padding(n) == <<224 + n>> \o [i \in 1..n |-> 255]

Contents(p) ==
  ClientID \o IF p = <<>> THEN Padding(8) ELSE Padding(3) \o <<Len(p)>> \o p

SentName(p, domain) == Chunks(Base32(Contents(p)), 63) \o domain

OptRecord == [name |-> <<>>, type |-> OPT, data |-> <<>>]
Query(name) == [question |-> <<[name |-> name, type |-> TXT]>>, answer |-> <<>>,
                additional |-> <<OptRecord>>]

(* Nothing is sent if the packet or its name is too long.                  *)
Send(p, domain) ==
  IF Len(p) >= 224 \/ NewName(SentName(p, domain)) # "ok" THEN <<>>
  ELSE WriteMessage(Query(SentName(p, domain)))

(* The letters of the labels, which begin after the 12 octets of a header, *)
(* as a resolver may send them that randomises their case.                 *)
MixCase(octets) ==
  [i \in DOMAIN octets |-> IF i % 3 = 0 THEN UpperCase(octets)[i] ELSE octets[i]]

-----------------------------------------------------------------------------
(* dnstt-server: sendLoop.  As many of the packets as fit, and in any case *)
(* the first.                                                              *)
Prefixed(ps) == FlattenSeq([i \in DOMAIN ps |-> Two(Len(ps[i])) \o ps[i]])

MaxPayload(limit) ==
  CHOOSE n \in 0..(Top - 1) : /\ n = 0 \/ FilledSize(n) <= limit
                              /\ n + 1 = Top \/ FilledSize(n + 1) > limit

Bundle(ps, limit) ==
  LET fits == {k \in DOMAIN ps : k = 1 \/ Len(Prefixed(SubSeq(ps, 1, k))) <= MaxPayload(limit)}
  IN SubSeq(ps, 1, CHOOSE k \in fits : \A i \in fits : i <= k)

Response(name, ps, limit) ==
  [question |-> <<[name |-> name, type |-> TXT]>>,
   answer |-> <<[name |-> name, type |-> TXT,
                 data |-> EncodeRDataTXT(Prefixed(Bundle(ps, limit)))]>>,
   additional |-> <<OptRecord>>]

Truncated(octets, limit) == SubSeq(octets, 1, IF Len(octets) > limit THEN limit ELSE Len(octets))

(* The client receives into a buffer, and loses what goes beyond it.       *)
ReceiveBuffer == 4096
Room(j) == IF j.limit < ReceiveBuffer THEN j.limit ELSE ReceiveBuffer

-----------------------------------------------------------------------------
(* A packet upstream, packets downstream, any message, any octets.  The    *)
(* client has a domain that leaves it an MTU of 80 at least, and packets   *)
(* up to that MTU, of which the empty one is a poll; the server a limit of *)
(* 16 bits, and packets of which each fits into a TXT record.              *)
Octets == 0..255
Numbers16 == 0..65535
IsName(name) == name \in Seq(Seq(Octets)) /\ NewName(name) = "ok"

IsJob(j) ==
  \/ j.kind = "query" /\ IsName(j.domain) /\ MTU(j.domain) >= 80
     /\ j.packet \in Seq(Octets) /\ Len(j.packet) <= MTU(j.domain) /\ j.mixed \in BOOLEAN
  \/ j.kind = "response" /\ IsName(j.domain) /\ IsName(j.name) /\ HasSuffix(j.name, j.domain)
     /\ j.packets \in Seq(Seq(Octets)) /\ j.packets # <<>> /\ j.limit \in Numbers16
     /\ \A k \in DOMAIN j.packets : EncodedLength(Len(j.packets[k]) + 2) < 65536
  \/ j.kind \in {"message", "octets"}

Written(j) ==
  CASE j.kind = "query"    -> IF j.mixed THEN MixCase(Send(j.packet, j.domain))
                              ELSE Send(j.packet, j.domain)
    [] j.kind = "response" -> WriteMessage(Response(j.name, j.packets, j.limit))
    [] j.kind = "message"  -> WriteMessage(j.message)
    [] j.kind = "octets"   -> j.octets

Init ==
  /\ job \in Jobs
  /\ StartReading(IF job.kind = "response" THEN Truncated(Written(job), Room(job))
                  ELSE Written(job))
  /\ stage = "read" /\ payload = <<>> /\ packets = <<>>

Read ==
  /\ stage = "read"
  /\ ReadNext
  /\ UNCHANGED <<job, stage, payload, packets>>

(* responseFor and recvLoop of the server.                                 *)
OpenQuery ==
  /\ stage = "read" /\ outcome = "done" /\ job.kind = "query"
  /\ \E text \in {UpperCase(FlattenSeq(Fore(entries[1].name, job.domain)))} :
       IF /\ HasSuffix(entries[1].name, job.domain)
          /\ \A i \in DOMAIN text : text[i] \in Alphabet
          /\ Len(Unbase32(text)) >= 8
       THEN /\ stage' = "unpack"
            /\ payload' = SubSeq(Unbase32(text), 9, Len(Unbase32(text)))
       ELSE /\ stage' = "refused"
            /\ UNCHANGED payload
  /\ UNCHANGED <<readVars, job, packets>>

(* dnsResponsePayload of the client.                                       *)
OpenResponse ==
  /\ stage = "read" /\ outcome = "done" /\ job.kind = "response"
  /\ LET answer == entries[2]
         data == DecodeRDataTXT(answer.data)
     IN IF HasSuffix(answer.name, job.domain) /\ answer.type = TXT /\ data.ok
        THEN /\ stage' = "unpack"
             /\ payload' = data.text
        ELSE /\ stage' = "refused"
             /\ UNCHANGED payload
  /\ UNCHANGED <<readVars, job, packets>>

(* nextPacket, of the server and of the client: a prefix of one octet that *)
(* may be padding's, a prefix of two octets.                               *)
PrefixLen == IF job.kind = "query" THEN 1 ELSE 2
Prefix == IF job.kind = "query" THEN payload[1] ELSE 256 * payload[1] + payload[2]
IsPadding == job.kind = "query" /\ Prefix >= 224
Size == IF IsPadding THEN Prefix - 224 ELSE Prefix
Whole == Len(payload) >= PrefixLen /\ Len(payload) >= PrefixLen + Size

TakePadding ==
  /\ stage = "unpack" /\ Whole /\ IsPadding
  /\ payload' = SubSeq(payload, PrefixLen + Size + 1, Len(payload))
  /\ UNCHANGED <<readVars, job, stage, packets>>

TakePacket ==
  /\ stage = "unpack" /\ Whole /\ ~IsPadding
  /\ packets' = Append(packets, SubSeq(payload, PrefixLen + 1, PrefixLen + Size))
  /\ payload' = SubSeq(payload, PrefixLen + Size + 1, Len(payload))
  /\ UNCHANGED <<readVars, job, stage>>

EndOfPayload ==
  /\ stage = "unpack" /\ ~Whole
  /\ stage' = "end"
  /\ UNCHANGED <<readVars, job, payload, packets>>

Next == Read \/ OpenQuery \/ OpenResponse \/ TakePadding \/ TakePacket \/ EndOfPayload

Spec == Init /\ [][Next]_vars /\ WF_vars(Next)

-----------------------------------------------------------------------------
Ended ==
  \/ outcome \notin {"reading", "done"} \/ stage \in {"refused", "end"}
  \/ outcome = "done" /\ job.kind \in {"message", "octets"}

(* What the one side sends, the other gets, whole and alone: each packet   *)
(* of at most the MTU, under every domain and whatever the resolver does   *)
(* to the case of the letters, and a poll, which has none; of a response   *)
(* all the packets that were bundled, or nothing of it if it had to be     *)
(* truncated, or is too large for the client to receive                    *)
(* (lib/dns.go:225-262, 325-389, main.go:344-371, 672-695).                *)
PacketsArrive ==
  Ended =>
    CASE job.kind = "query"    -> /\ stage = "end"
                                  /\ packets = IF job.packet = <<>> THEN <<>> ELSE <<job.packet>>
      [] job.kind = "response" -> IF Len(Written(job)) > Room(job) THEN packets = <<>>
                                  ELSE packets = Bundle(job.packets, job.limit)
      [] OTHER                 -> TRUE

(* sendLoop and computeMaxEncodedPayload agree on what a response takes:   *)
(* no response of packets within the limit has to be truncated, whatever   *)
(* the name it answers (main.go:603-604, 717-718).                         *)
FilledResponsesFit ==
  job.kind = "response" /\ Len(job.packets[1]) + 2 <= MaxPayload(job.limit)
    => Len(Written(job)) <= job.limit

(* What messageBuilder writes, compressed, is what readMessage reads, with *)
(* one exception that the code does have: a name may be written as a chain *)
(* of more pointers than the reader follows (dns.go:426-446, 231-260).     *)
MessagesReadBack ==
  job.kind = "message" /\ outcome # "reading" =>
    IF job.chain > PointerLimit THEN outcome = "ErrTooManyPointers"
    ELSE /\ outcome = "done"
         /\ [i \in DOMAIN entries |-> entries[i].name]
              = [i \in DOMAIN job.message.answer |-> job.message.answer[i].name]
         /\ [i \in DOMAIN entries |-> entries[i].data]
              = [i \in DOMAIN job.message.answer |-> job.message.answer[i].data]

(* Reading ends, whatever the octets: a name whose pointers form a loop is *)
(* given up (dns.go:252).                                                  *)
ReadingEnds == <>Ended
=============================================================================
