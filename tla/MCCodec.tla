------------------------------ MODULE MCCodec ------------------------------
(***************************************************************************)
(* What is computed from one input, for TLC: the answer to a query         *)
(* (Exchange), a message on the wire (Wire), the size of a response        *)
(* (ResponseSize), a distribution of fingerprints (WeightedList).  They    *)
(* share nothing; in a behaviour one of them, part, takes its steps.       *)
(***************************************************************************)
EXTENDS Wire

CONSTANTS Nothing, ModestLimit, Asked, Parts

VARIABLES
  part,
  query, record, delivered, sent, waiting,                      \* Exchange
  limit, low, high,                                             \* ResponseSize
  text, at, state, weight, label, weights, names, drawn         \* WeightedList

(* Names are made of labels of a's.  Domains of all sizes for which there  *)
(* is an MTU of at least 80.                                               *)
A(n) == [k \in 1..n |-> 97]
LabelsOf(n) == IF n <= 63 THEN <<A(n)>> ELSE <<A(63), A(n - 63)>>
Domains == {<<>>} \cup {LabelsOf(n) : n \in 1..100}
P(n) == [k \in 1..n |-> (91 * k) % 256]
Queries ==
  UNION {[kind : {"query"}, domain : {d}, packet : {P(MTU(d) - n) : n \in {0, 1, 60, 255}},
          mixed : BOOLEAN] : d \in Domains}

(* Payloads about the lengths 255 and MaxPayload, beyond the limit, and    *)
(* about the size of the client's buffer.                                  *)
Responses ==
  [kind : {"response"}, domain : {<<A(1)>>},
   name : {<<A(63), A(63), A(63), A(59), A(1)>>, <<A(20), A(1)>>},
   packets : {<<P(n)>> : n \in {1, 251, 252, 253, 254, 255, 300}}
             \cup {<<P(m), P(n), P(30)>> : m \in {10, 100}, n \in {10, 149, 150, 151, 152}},
   limit : {n \in Limits : n \in 500..600}]
  \cup
  [kind : {"response"}, domain : {<<A(1)>>}, name : {<<A(20), A(1)>>},
   packets : {<<P(n)>> : n \in {4015, 4016}}, limit : {33000}]

(* All messages of up to three names that share suffixes, and chains: each *)
(* name is the one before with a label more.                               *)
Pool == {<<>>, <<A(1)>>, <<A(2)>>, <<A(2), A(1)>>, <<A(1), A(2), A(1)>>}
Message(ns, data) ==
  [question |-> <<>>, additional |-> <<>>,
   answer |-> [k \in DOMAIN ns |-> [name |-> ns[k], type |-> 16, data |-> data]]]
Messages ==
  {[kind |-> "message", chain |-> 0, message |-> Message(ns, <<0>>)] :
     ns \in UNION {[1..n -> Pool] : n \in 1..3}}
  \cup {[kind |-> "message", chain |-> n - 1,
         message |-> Message([k \in 1..n |-> [j \in 1..k |-> A(1)]], <<>>)] : n \in {3, 11, 12, 13}}

(* A question of any octets, among them pointers to its own start.         *)
OctetJobs ==
  {[kind |-> "octets", octets |-> [k \in 1..12 |-> IF k = 6 THEN 1 ELSE 0] \o o \o A(4)] :
     o \in UNION {[1..n -> {0, 1, 12, 64, 192}] : n \in 0..5}}

MCJobs == Queries \cup Responses \cup Messages \cup OctetJobs

Inputs ==
  UNION {[1..n -> {"2", "0", "a", ",", "*", "\\"}] : n \in 0..5}
  \cup {<<c, "*", "a", ",", d, "*", "2">> : c, d \in {"0", "2"}}
Known == {<<"a">>, <<"2">>, <<"a", "a">>}

(* Queries with all kinds of OPT records and questions; two questions are  *)
(* refused without a look at them.                                         *)
MCAsked ==
  LET question == [ours : BOOLEAN, txt : BOOLEAN,
                   content : {"undecodable", "short", "poll", "data", "cut"}]
      twice == [ours |-> TRUE, txt |-> TRUE, content |-> "data"]
  IN  [qr : BOOLEAN, opcode : {0, 1},
       opts : UNION {[1..n -> [version : {0, 1}, large : BOOLEAN]] : n \in 0..2},
       questions : {<<>>, <<twice, twice>>} \cup [1..1 -> question]]

Exchange == INSTANCE Exchange WITH Queries <- Asked

ASSUME NothingAssumption == Nothing \notin Exchange!Contents
ASSUME ModestAssumption == ModestLimit \in BOOLEAN
ASSUME AskedAssumption == \A q \in Asked : q \in Exchange!AnyQuery

Bisection == INSTANCE ResponseSize
List == INSTANCE WeightedList WITH s <- text, i <- at

ASSUME JobsAssumption == \A j \in Jobs : IsJob(j)

exchangeVars == <<query, record, delivered, sent, waiting>>
sizeVars == <<limit, low, high>>
listVars == <<text, at, state, weight, label, weights, names, drawn>>
mcVars == <<part, exchangeVars, vars, sizeVars, listVars>>

-----------------------------------------------------------------------------
NoExchange ==
  /\ query = Nothing /\ record = Nothing /\ sent = Nothing
  /\ delivered = FALSE /\ waiting = FALSE
NoWire ==
  /\ StartReading(<<>>)
  /\ job = [kind |-> "none"] /\ stage = "end" /\ payload = <<>> /\ packets = <<>>
NoSize == limit = 0 /\ low = 0 /\ high = Top
NoList ==
  /\ text = <<>> /\ at = 0 /\ state = "none" /\ weight = <<>> /\ label = <<>>
  /\ weights = <<>> /\ names = <<>> /\ drawn = 0

MCInit ==
  /\ part \in Parts
  /\ IF part = "exchange" THEN Exchange!Init ELSE NoExchange
  /\ IF part = "wire" THEN Init ELSE NoWire
  /\ IF part = "size" THEN Bisection!Init ELSE NoSize
  /\ IF part = "list" THEN List!Init ELSE NoList

MCNext ==
  \/ /\ part = "exchange" /\ Exchange!Next
     /\ UNCHANGED <<part, vars, sizeVars, listVars>>
  \/ /\ part = "wire" /\ Next
     /\ UNCHANGED <<part, exchangeVars, sizeVars, listVars>>
  \/ /\ part = "size" /\ Bisection!Next
     /\ UNCHANGED <<part, exchangeVars, vars, listVars>>
  \/ /\ part = "list" /\ List!Next
     /\ UNCHANGED <<part, exchangeVars, vars, sizeVars>>

MCSpec == MCInit /\ [][MCNext]_mcVars /\ WF_mcVars(part = "wire" /\ MCNext)

-----------------------------------------------------------------------------
(* See Exchange: what sendLoop fills, the client reads; the tester takes   *)
(* the server's answer for the server's.                                   *)
FilledResponsesAreRead == part = "exchange" => Exchange!FilledResponsesAreRead
TesterAcceptsServer == part = "exchange" => Exchange!TesterAcceptsServer

(* See ResponseSize: the payload that is found is the largest that fits.   *)
LargestFits == Bisection!LargestFits

(* See WeightedList: the parser accepts its grammar, and entries are drawn *)
(* by the weights it says.                                                 *)
SampledByWeight == part = "list" => List!ParsesItsGrammar /\ List!DrawnByWeight
=============================================================================
