-------------------------- MODULE MCCodec_proofs --------------------------
(***************************************************************************)
(* Proofs about computeMaxEncodedPayload, for every limit; about the       *)
(* answers of dnstt-server to any sequence of queries; and about messages  *)
(* on the wire: how long a response is, and that the packets that are put  *)
(* into a message come out of it at the other end.                         *)
(***************************************************************************)
EXTENDS MCCodec, Induction, SequenceTheorems, TLAPS

(* The bounds of the bisection: what it has found to fit fits, and what it *)
(* has found too large is.                                                 *)
BoundsInv ==
  /\ Bisection!TypeOK
  /\ low = 0 \/ FilledSize(low) <= limit
  /\ high = Top \/ FilledSize(high) > limit

LEMMA SameSizes ==
  Bisection!Top = Top /\ \A n : Bisection!FilledSize(n) = FilledSize(n)
BY DEF Bisection!Top, Top, Bisection!FilledSize, FilledSize,
       Bisection!EncodedLength, EncodedLength

(* The size of a response does not shrink when its payload grows.          *)
LEMMA SizeGrows ==
  ASSUME NEW m \in Nat, NEW n \in Nat, m <= n
  PROVE  /\ FilledSize(m) \in Nat /\ FilledSize(n) \in Nat
         /\ FilledSize(m) <= FilledSize(n)
<1>1. /\ EncodedLength(m) \in Nat /\ EncodedLength(n) \in Nat
      /\ EncodedLength(m) <= EncodedLength(n)
  <2>1. (m + 254) \div 255 \in Nat /\ (n + 254) \div 255 \in Nat
    BY SMT
  <2>2. (m + 254) \div 255 <= (n + 254) \div 255
    BY SMT
  <2>3. n # 0 => (n + 254) \div 255 >= 1
    BY SMT
  <2> QED BY <2>1, <2>2, <2>3 DEF EncodedLength
<1> QED BY <1>1 DEF FilledSize

(* Type correctness.                                                       *)
THEOREM TypeCorrect == Bisection!Spec => []Bisection!TypeOK
<1>1. Bisection!Init => Bisection!TypeOK
  BY LimitsAreNumbers DEF Bisection!Init, Bisection!TypeOK, Bisection!Top
<1>2. Bisection!TypeOK /\ [Bisection!Next]_(Bisection!vars) => Bisection!TypeOK'
  <2> SUFFICES ASSUME Bisection!TypeOK, [Bisection!Next]_(Bisection!vars)
               PROVE  Bisection!TypeOK'
    OBVIOUS
  <2> USE LimitsAreNumbers DEF Bisection!TypeOK
  <2>1. low + 1 < high =>
          Bisection!Middle \in Nat /\ low < Bisection!Middle /\ Bisection!Middle < high
    BY SMT DEF Bisection!Middle
  <2>2. CASE Bisection!Raise BY <2>1, <2>2 DEF Bisection!Raise
  <2>3. CASE Bisection!Lower BY <2>1, <2>3 DEF Bisection!Lower, Bisection!Top
  <2>4. CASE UNCHANGED Bisection!vars BY <2>4 DEF Bisection!vars
  <2> QED BY <2>2, <2>3, <2>4 DEF Bisection!Next
<1> QED BY <1>1, <1>2, PTL DEF Bisection!Spec

LEMMA BoundsHold == Bisection!Spec => []BoundsInv
<1>1. Bisection!Init => BoundsInv
  BY LimitsAreNumbers DEF Bisection!Init, BoundsInv, Bisection!TypeOK, Bisection!Top, Top
<1>2. BoundsInv /\ Bisection!TypeOK' /\ [Bisection!Next]_(Bisection!vars) => BoundsInv'
  <2> SUFFICES ASSUME BoundsInv, Bisection!TypeOK', [Bisection!Next]_(Bisection!vars)
               PROVE  BoundsInv'
    OBVIOUS
  <2>1. CASE Bisection!Raise
    BY <2>1, SameSizes DEF Bisection!Raise, Bisection!Fits, BoundsInv
  <2>2. CASE Bisection!Lower
    <3>1. FilledSize(high') \in Nat /\ limit \in Nat
      BY LimitsAreNumbers, SizeGrows DEF BoundsInv, Bisection!TypeOK
    <3> QED BY <2>2, <3>1, SameSizes DEF Bisection!Lower, Bisection!Fits, BoundsInv
  <2>3. CASE UNCHANGED Bisection!vars
    BY <2>3 DEF Bisection!vars, BoundsInv
  <2> QED BY <2>1, <2>2, <2>3 DEF Bisection!Next
<1> QED BY <1>1, <1>2, TypeCorrect, PTL DEF Bisection!Spec

LEMMA TopIsNumber == Top \in Nat
BY DEF Top

LEMMA BoundsTyped ==
  ASSUME BoundsInv
  PROVE  low \in Nat /\ high \in Nat /\ low < high /\ high <= Top /\ limit \in Nat
BY LimitsAreNumbers, SameSizes DEF BoundsInv, Bisection!TypeOK

(* The payload size that computeMaxEncodedPayload returns is the largest   *)
(* that fits, for every limit (main.go:780-797).                           *)
THEOREM LargestIsFound == Bisection!Spec => []LargestFits
<1>1. BoundsInv => LargestFits
  <2> SUFFICES ASSUME BoundsInv, low + 1 = high, NEW n \in 1..(Top - 1)
               PROVE  FilledSize(n) <= limit <=> n <= low
    BY SameSizes DEF LargestFits, Bisection!LargestFits
  <2>1. /\ low \in Nat /\ high \in Nat /\ high <= Top /\ limit \in Nat
        /\ n \in Nat /\ n > 0 /\ n < Top
    BY BoundsTyped, TopIsNumber
  <2>2. CASE n <= low
    <3>1. FilledSize(low) <= limit
      BY <2>1, <2>2 DEF BoundsInv
    <3>2. FilledSize(n) \in Nat /\ FilledSize(low) \in Nat /\ FilledSize(n) <= FilledSize(low)
      BY <2>1, <2>2, SizeGrows
    <3> QED BY <2>1, <2>2, <3>1, <3>2
  <2>3. CASE n > low
    <3>1. high <= n /\ high # Top
      BY <2>1, <2>3
    <3>2. FilledSize(high) > limit
      BY <3>1 DEF BoundsInv
    <3>3. FilledSize(n) \in Nat /\ FilledSize(high) \in Nat /\ FilledSize(high) <= FilledSize(n)
      BY <2>1, <3>1, SizeGrows
    <3> QED BY <2>1, <2>3, <3>2, <3>3
  <2> QED BY <2>1, <2>2, <2>3
<1> QED BY <1>1, BoundsHold, PTL

(* It is the number that the fill of a response is held to (main.go:667).  *)
LEMMA MaxPayloadUnique ==
  ASSUME NEW n \in 0..(Top - 1), NEW lim \in Nat,
         n = 0 \/ FilledSize(n) <= lim, n + 1 = Top \/ FilledSize(n + 1) > lim
  PROVE  MaxPayload(lim) = n
<1> DEFINE Is(m) == /\ m = 0 \/ FilledSize(m) <= lim
                    /\ m + 1 = Top \/ FilledSize(m + 1) > lim
<1>1. ASSUME NEW m \in 0..(Top - 1), Is(m) PROVE m = n
  <2>1. m \in Nat /\ m + 1 \in Nat /\ n \in Nat /\ n + 1 \in Nat
    BY TopIsNumber
  <2>2. ~(m < n)
    <3> SUFFICES ASSUME m < n PROVE FALSE
      OBVIOUS
    <3>1. FilledSize(m + 1) \in Nat /\ FilledSize(n) \in Nat /\ FilledSize(m + 1) <= FilledSize(n)
      BY <2>1, SizeGrows
    <3> QED BY <1>1, <2>1, <3>1, TopIsNumber
  <2>3. ~(n < m)
    <3> SUFFICES ASSUME n < m PROVE FALSE
      OBVIOUS
    <3>1. FilledSize(n + 1) \in Nat /\ FilledSize(m) \in Nat /\ FilledSize(n + 1) <= FilledSize(m)
      BY <2>1, SizeGrows
    <3> QED BY <1>1, <2>1, <3>1, TopIsNumber
  <2> QED BY <2>1, <2>2, <2>3
<1>2. Is(n)
  OBVIOUS
<1>3. MaxPayload(lim) = CHOOSE m \in 0..(Top - 1) : Is(m)
  BY DEF MaxPayload
<1> HIDE DEF Is
<1> QED BY <1>1, <1>2, <1>3

(* The bisection ends with the number that the fill of a response is held  *)
(* to (main.go:780-797, 664-668).                                          *)
BisectionFindsMaxPayload == low + 1 = high => low = MaxPayload(limit)

THEOREM BisectionIsRight == Bisection!Spec => []BisectionFindsMaxPayload
<1>1. BoundsInv => BisectionFindsMaxPayload
  <2> SUFFICES ASSUME BoundsInv, low + 1 = high PROVE low = MaxPayload(limit)
    BY DEF BisectionFindsMaxPayload
  <2>1. low \in 0..(Top - 1) /\ limit \in Nat
    BY BoundsTyped, TopIsNumber
  <2> QED BY <2>1, MaxPayloadUnique DEF BoundsInv
<1> QED BY <1>1, BoundsHold, PTL
-----------------------------------------------------------------------------
(* Exchange: whatever was sent is responseFor's answer to the query, with  *)
(* recvLoop's check, and filled if it was a candidate.                     *)

Answer(q) == Exchange!Checked(Exchange!ResponseFor(q), Exchange!Payload(q))

Filled(resp, data) ==
  [resp EXCEPT !.answers = <<[question |-> resp.questions[1], data |-> data]>>]

SentFor(q) ==
  IF Exchange!Fillable(Answer(q))
  THEN \E data \in BOOLEAN : sent = Filled(Answer(q), data)
  ELSE sent = Answer(q)

ExchangeIInv ==
  /\ waiting \in BOOLEAN
  /\ record # Nothing => query \in Exchange!AnyQuery /\ ~query.qr /\ record = Answer(query)
  /\ sent # Nothing => query \in Exchange!AnyQuery /\ ~query.qr /\ SentFor(query)

LEMMA ExchangeInv == Exchange!Spec => []ExchangeIInv
<1>1. Exchange!Init => ExchangeIInv
  BY DEF Exchange!Init, ExchangeIInv
<1>2. ExchangeIInv /\ [Exchange!Next]_(Exchange!vars) => ExchangeIInv'
  <2> SUFFICES ASSUME ExchangeIInv, [Exchange!Next]_(Exchange!vars) PROVE ExchangeIInv'
    OBVIOUS
  <2>1. CASE Exchange!Receive
    BY <2>1, AskedAssumption DEF Exchange!Receive, ExchangeIInv, Answer
  <2>2. CASE Exchange!Send
    BY <2>2 DEF Exchange!Send, ExchangeIInv, SentFor, Filled
  <2>3. CASE Exchange!Continue
    BY <2>3 DEF Exchange!Continue, ExchangeIInv
  <2>4. CASE UNCHANGED Exchange!vars
    BY <2>4 DEF Exchange!vars, ExchangeIInv, SentFor
  <2> QED BY <2>1, <2>2, <2>3, <2>4 DEF Exchange!Next
<1> QED BY <1>1, <1>2, PTL DEF Exchange!Spec

(* What responseFor returns before recvLoop's check: the fields that the   *)
(* check and sendLoop leave alone.                                         *)
LEMMA AnswerFields ==
  ASSUME NEW q
  PROVE  /\ Answer(q).answers = <<>> /\ Answer(q).authority = <<>>
         /\ Answer(q).questions = q.questions
         /\ Answer(q).rcode =
              IF ~Exchange!HasClientID(Exchange!Payload(q)) /\ Exchange!EarlyRcode(q) % 16 = 0
              THEN Exchange!NameError ELSE Exchange!EarlyRcode(q) % 16
BY DEF Answer, Exchange!Checked, Exchange!ResponseFor, Exchange!Respond, Exchange!NoError

(* A response without an error answers one question, a TXT question for a  *)
(* name in our domain that starts with a ClientID: BADVERS, whose four low *)
(* bits are those of no error, has been replaced by then.                  *)
LEMMA NoErrorIsOurs ==
  ASSUME NEW q, Answer(q).rcode = Exchange!NoError
  PROVE  /\ Len(q.questions) = 1 /\ q.questions[1].ours /\ q.questions[1].txt
         /\ Exchange!HasClientID(q.questions[1].content)
<1>1. Exchange!HasClientID(Exchange!Payload(q))
  BY AnswerFields DEF Exchange!NoError, Exchange!NameError
<1>2. Exchange!EarlyRcode(q) = Exchange!NoError
  BY <1>1, NothingAssumption DEF Exchange!HasClientID, Exchange!Payload, Exchange!Contents
<1>3. Exchange!HasClientID(q.questions[1].content)
  BY <1>1, <1>2 DEF Exchange!Payload
<1> QED BY <1>2, <1>3 DEF Exchange!EarlyRcode, Exchange!NoError, Exchange!FormatError,
             Exchange!NameError, Exchange!NotImplemented, Exchange!BadVers

(* No query whatever makes the server put a packet into a response that    *)
(* the client would not read (main.go:542-601, dns.go:159-181).            *)
THEOREM FilledAreRead == Exchange!Spec => []FilledResponsesAreRead
<1>1. ExchangeIInv => FilledResponsesAreRead
  <2> SUFFICES ASSUME ExchangeIInv, sent # Nothing, sent.answers # <<>>
               PROVE  /\ Exchange!ClientReads(sent)
                      /\ Exchange!HasClientID(query.questions[1].content)
    BY DEF FilledResponsesAreRead, Exchange!FilledResponsesAreRead
  <2>1. Exchange!Fillable(Answer(query))
    BY AnswerFields DEF ExchangeIInv, SentFor
  <2>2. PICK data \in BOOLEAN : sent = Filled(Answer(query), data)
    BY <2>1 DEF ExchangeIInv, SentFor
  <2>3. /\ Len(query.questions) = 1
        /\ query.questions[1].ours /\ query.questions[1].txt
        /\ Exchange!HasClientID(query.questions[1].content)
    BY <2>1, NoErrorIsOurs DEF Exchange!Fillable
  <2>4. /\ sent.rcode = Exchange!NoError
        /\ sent.answers = <<[question |-> query.questions[1], data |-> data]>>
    BY <2>1, <2>2, AnswerFields DEF Filled, Exchange!Fillable, Answer, Exchange!Checked,
         Exchange!ResponseFor, Exchange!Respond
  <2> QED BY <2>3, <2>4 DEF Exchange!ClientReads
<1> QED BY <1>1, ExchangeInv, PTL

(* Every answer of the server to a query such as the tester sends passes   *)
(* the tester's test (resolver_tester.go:85-158, main.go:397-490).         *)
THEOREM TesterKnowsServer == Exchange!Spec => []TesterAcceptsServer
<1>1. ExchangeIInv => TesterAcceptsServer
  <2> SUFFICES ASSUME ExchangeIInv, sent # Nothing, Exchange!TestQuery(query)
               PROVE  Exchange!TestPasses(sent)
    BY DEF TesterAcceptsServer, Exchange!TesterAcceptsServer
  <2>1. query \in Exchange!AnyQuery /\ SentFor(query)
    BY DEF ExchangeIInv
  <2>2. query.opts # <<>> => query.opts[1].version = 0
    <3>1. query.opts \in Seq(Exchange!OptRecords)
      BY <2>1 DEF Exchange!AnyQuery
    <3>2. query.opts # <<>> => query.opts[1] \in Exchange!Range(query.opts)
      BY <3>1 DEF Exchange!Range
    <3> QED BY <3>2 DEF Exchange!TestQuery
  <2>3. Exchange!EarlyRcode(query) = Exchange!NameError
    BY <2>2 DEF Exchange!EarlyRcode, Exchange!TestQuery, Exchange!HasOpt
  <2>4. Answer(query).rcode = Exchange!NameError
    BY <2>3, AnswerFields DEF Exchange!NameError
  <2>5. sent = Answer(query)
    BY <2>1, <2>4 DEF SentFor, Exchange!Fillable, Exchange!NameError, Exchange!NoError
  <2> QED BY <2>4, <2>5, AnswerFields DEF Exchange!TestPasses
<1> QED BY <1>1, ExchangeInv, PTL
-----------------------------------------------------------------------------
(* Concatenation under a name of its own: where it is left unexpanded, the *)
(* provers reason by the facts that follow and nothing else.               *)
Cat(a, b) == a \o b

LEMMA CatType ==
  ASSUME NEW X, NEW a \in Seq(X), NEW b \in Seq(X)
  PROVE  Cat(a, b) \in Seq(X) /\ Len(Cat(a, b)) = Len(a) + Len(b)
BY ConcatProperties DEF Cat

LEMMA CatAssociative ==
  ASSUME NEW X, NEW a \in Seq(X), NEW b \in Seq(X), NEW c \in Seq(X)
  PROVE  Cat(Cat(a, b), c) = Cat(a, Cat(b, c))
BY ConcatAssociative DEF Cat

LEMMA CatEmpty ==
  ASSUME NEW X, NEW a \in Seq(X)
  PROVE  Cat(a, <<>>) = a /\ Cat(<<>>, a) = a
BY ConcatEmptySeq DEF Cat

LEMMA CatElements ==
  ASSUME NEW X, NEW a \in Seq(X), NEW b \in Seq(X)
  PROVE  /\ \A j \in 1..Len(a) : Cat(a, b)[j] = a[j]
         /\ \A j \in 1..Len(b) : Cat(a, b)[Len(a) + j] = b[j]
<1>1. Len(a) \in Nat /\ Len(b) \in Nat
  BY LenProperties
<1>2. \A j \in 1..(Len(a) + Len(b)) : Cat(a, b)[j] = IF j <= Len(a) THEN a[j] ELSE b[j - Len(a)]
  BY ConcatProperties DEF Cat
<1>3. \A j \in 1..Len(a) : j \in 1..(Len(a) + Len(b)) /\ j <= Len(a)
  BY <1>1
<1>4. \A j \in 1..Len(b) :
        /\ Len(a) + j \in 1..(Len(a) + Len(b)) /\ ~(Len(a) + j <= Len(a))
        /\ (Len(a) + j) - Len(a) = j
  BY <1>1
<1> QED BY <1>2, <1>3, <1>4

LEMMA AppendIsCat ==
  ASSUME NEW X, NEW a \in Seq(X), NEW x \in X
  PROVE  Append(a, x) = Cat(a, <<x>>)
BY AppendIsConcat DEF Cat

LEMMA CatAppend ==
  ASSUME NEW X, NEW a \in Seq(X), NEW b \in Seq(X), NEW x \in X
  PROVE  Cat(a, Append(b, x)) = Append(Cat(a, b), x)
<1>1. Cat(a, b) \in Seq(X)
  BY CatType
<1>2. Append(b, x) = Cat(b, <<x>>) /\ Append(Cat(a, b), x) = Cat(Cat(a, b), <<x>>)
  BY <1>1, AppendIsCat
<1>3. PICK one \in Seq(X) : one = <<x>>
  <2>1. <<x>> \in Seq(X)
    OBVIOUS
  <2> QED BY <2>1
<1>4. Cat(Cat(a, b), one) = Cat(a, Cat(b, one))
  BY CatAssociative
<1> QED BY <1>2, <1>3, <1>4
-----------------------------------------------------------------------------
(* Sequences of sequences, put together.                                   *)

IsFlatten(ss, f) ==
  f = [j \in 1..Len(ss) |-> IF j = 1 THEN ss[j] ELSE Cat(f[j - 1], ss[j])]

(* The parts put together so far.                                          *)
IsFlattening(ss, X, g) ==
  g \in [0..Len(ss) -> Seq(X)] /\ g[0] = <<>> /\ \A j \in 1..Len(ss) : g[j] = Cat(g[j - 1], ss[j])

LEMMA Flattening ==
  ASSUME NEW X, NEW ss \in Seq(Seq(X))
  PROVE  \E g : IsFlattening(ss, X, g)
<1>1. Len(ss) \in Nat /\ <<>> \in Seq(X) /\ \A j \in 1..Len(ss) : ss[j] \in Seq(X)
  BY LenProperties, EmptySeq, ElementOfSeq
<1> DEFINE F == [j \in 1..Len(ss) |-> [q \in Seq(X) |-> Cat(q, ss[j])]]
<1>2. F \in [1..Len(ss) -> [Seq(X) -> Seq(X)]]
  BY <1>1, CatType
<1>3. PICK g : IsIteration(g, Len(ss), Seq(X), <<>>, F)
  <2> HIDE DEF F
  <2> QED BY <1>1, <1>2, Iterated
<1>4. \A j \in 1..Len(ss) : g[j - 1] \in Seq(X)
  <2>1. \A j \in 1..Len(ss) : j - 1 \in 0..Len(ss)
    BY <1>1
  <2> QED BY <1>3, <2>1 DEF IsIteration
<1>5. IsFlattening(ss, X, g)
  BY <1>3, <1>4 DEF IsIteration, IsFlattening
<1> QED BY <1>5

LEMMA FlattenIs ==
  ASSUME NEW X, NEW ss \in Seq(Seq(X)), NEW g, IsFlattening(ss, X, g)
  PROVE  FlattenSeq(ss) = g[Len(ss)]
<1>0. Len(ss) \in Nat /\ \A j \in 1..Len(ss) : ss[j] \in Seq(X)
  BY LenProperties, ElementOfSeq
<1>1. CASE Len(ss) = 0
  <2>1. ss = <<>>
    BY <1>1, EmptySeq
  <2> QED BY <1>1, <2>1 DEF FlattenSeq, IsFlattening
<1>2. CASE Len(ss) # 0
  <2> DEFINE f == CHOOSE h : IsFlatten(ss, h)
             h0 == [j \in 1..Len(ss) |-> g[j]]
  <2>1. IsFlatten(ss, h0)
    <3>1. ASSUME NEW j \in 1..Len(ss)
          PROVE  g[j] = IF j = 1 THEN ss[j] ELSE Cat(h0[j - 1], ss[j])
      <4>1. CASE j = 1
        <5>1. g[1] = Cat(g[0], ss[1])
          <6>1. 1 \in 1..Len(ss)
            BY <1>0, <1>2
          <6> QED BY <6>1 DEF IsFlattening
        <5> QED BY <4>1, <5>1, <1>0, CatEmpty DEF IsFlattening
      <4>2. CASE j # 1
        <5>1. j - 1 \in 1..Len(ss)
          BY <1>0, <4>2
        <5>2. g[j] = Cat(g[j - 1], ss[j])
          BY DEF IsFlattening
        <5> QED BY <4>2, <5>1, <5>2
      <4> QED BY <4>1, <4>2
    <3> QED BY <3>1 DEF IsFlatten
  <2>2. IsFlatten(ss, f)
    <3> HIDE DEF h0
    <3> QED BY <2>1
  <2>3. FlattenSeq(ss) = f[Len(ss)]
    BY <1>2 DEF FlattenSeq, IsFlatten, Cat
  <2> HIDE DEF f
  <2> DEFINE S == {n \in Nat : n + 1 \in 1..Len(ss) => f[n + 1] = g[n + 1]}
  <2>4. 0 \in S
    <3>1. 1 \in 1..Len(ss)
      BY <1>0, <1>2
    <3>2. f[1] = ss[1]
      BY <2>2, <3>1 DEF IsFlatten
    <3>3. g[1] = Cat(g[0], ss[1])
      BY <3>1 DEF IsFlattening
    <3>4. g[0] = <<>> /\ ss[1] \in Seq(X)
      BY <3>1, <1>0 DEF IsFlattening
    <3>5. Cat(<<>>, ss[1]) = ss[1]
      BY <3>4, CatEmpty
    <3>6. f[0 + 1] = g[0 + 1]
      BY <3>2, <3>3, <3>4, <3>5
    <3> QED BY <3>6
  <2>5. ASSUME NEW n \in Nat, n \in S PROVE n + 1 \in S
    <3> SUFFICES ASSUME n + 2 \in 1..Len(ss) PROVE f[n + 2] = g[n + 2]
      OBVIOUS
    <3>1. n + 1 \in 1..Len(ss) /\ n + 2 # 1 /\ (n + 2) - 1 = n + 1
      BY <1>0
    <3>2. f[n + 2] = Cat(f[n + 1], ss[n + 2])
      BY <2>2, <3>1 DEF IsFlatten
    <3>3. g[n + 2] = Cat(g[n + 1], ss[n + 2])
      BY <3>1 DEF IsFlattening
    <3> QED BY <2>5, <3>1, <3>2, <3>3
  <2>6. Nat \subseteq S
    <3> HIDE DEF S
    <3> QED BY <2>4, <2>5, SetInduction
  <2>7. Len(ss) - 1 \in Nat /\ (Len(ss) - 1) + 1 = Len(ss) /\ Len(ss) \in 1..Len(ss)
    BY <1>0, <1>2
  <2>8. Len(ss) - 1 \in S
    BY <2>6, <2>7
  <2> QED BY <2>3, <2>7, <2>8
<1> QED BY <1>1, <1>2

LEMMA FlattenType ==
  ASSUME NEW X, NEW ss \in Seq(Seq(X))
  PROVE  FlattenSeq(ss) \in Seq(X)
<1>1. PICK g : IsFlattening(ss, X, g)
  BY Flattening
<1>2. PICK n \in Nat : n = Len(ss)
  BY LenProperties
<1>3. n \in 0..n
  OBVIOUS
<1>4. g[n] \in Seq(X)
  BY <1>1, <1>2, <1>3 DEF IsFlattening
<1>5. FlattenSeq(ss) = g[n]
  BY <1>1, <1>2, FlattenIs
<1> QED BY <1>4, <1>5

LEMMA FlattenAppend ==
  ASSUME NEW X, NEW ss \in Seq(Seq(X)), NEW q \in Seq(X)
  PROVE  FlattenSeq(Append(ss, q)) = Cat(FlattenSeq(ss), q)
<1> DEFINE tt == Append(ss, q)
           n == Len(ss)
<1>1. /\ n \in Nat /\ tt \in Seq(Seq(X)) /\ Len(tt) = n + 1
      /\ \A j \in 1..n : tt[j] = ss[j]
      /\ tt[n + 1] = q
  BY LenProperties, AppendProperties
<1>2. PICK g : IsFlattening(tt, X, g)
  BY <1>1, Flattening
<1> DEFINE h == [j \in 0..n |-> g[j]]
<1>3. IsFlattening(ss, X, h)
  <2>1. \A j \in 0..n : j \in 0..Len(tt)
    BY <1>1
  <2>2. \A j \in 1..n : j \in 1..Len(tt) /\ j - 1 \in 0..n /\ j \in 0..n
    BY <1>1
  <2>3. h \in [0..n -> Seq(X)]
    BY <1>2, <2>1 DEF IsFlattening
  <2>4. h[0] = <<>>
    BY <1>1, <1>2 DEF IsFlattening
  <2>5. \A j \in 0..n : h[j] = g[j]
    OBVIOUS
  <2> HIDE DEF h
  <2>6. ASSUME NEW j \in 1..n PROVE h[j] = Cat(h[j - 1], ss[j])
    <3>1. g[j] = Cat(g[j - 1], tt[j])
      BY <1>2, <2>2 DEF IsFlattening
    <3> QED BY <1>1, <2>2, <2>5, <3>1
  <2> QED BY <2>3, <2>4, <2>6 DEF IsFlattening
<1>4. FlattenSeq(ss) = g[n]
  <2>1. h[n] = g[n]
    BY <1>1
  <2> HIDE DEF h
  <2> QED BY <1>3, <2>1, FlattenIs
<1>5. FlattenSeq(tt) = g[n + 1]
  <2> HIDE DEF tt
  <2> QED BY <1>1, <1>2, FlattenIs
<1>6. g[n + 1] = Cat(g[(n + 1) - 1], tt[n + 1])
  <2>1. n + 1 \in 1..Len(tt)
    BY <1>1
  <2> QED BY <1>2, <2>1 DEF IsFlattening
<1>7. (n + 1) - 1 = n
  BY <1>1
<1> QED BY <1>1, <1>4, <1>5, <1>6, <1>7

LEMMA FlattenEmpty == FlattenSeq(<<>>) = <<>>
BY DEF FlattenSeq

LEMMA FlattenConcat ==
  ASSUME NEW X, NEW ss \in Seq(Seq(X)), NEW tt \in Seq(Seq(X))
  PROVE  FlattenSeq(Cat(ss, tt)) = Cat(FlattenSeq(ss), FlattenSeq(tt))
<1> DEFINE T == {uu \in Seq(Seq(X)) : FlattenSeq(Cat(ss, uu)) = Cat(FlattenSeq(ss), FlattenSeq(uu))}
<1>1. <<>> \in T
  BY FlattenEmpty, FlattenType, CatEmpty, EmptySeq
<1>2. ASSUME NEW uu \in Seq(Seq(X)), NEW q \in Seq(X), uu \in T PROVE Append(uu, q) \in T
  <2>1. /\ Append(uu, q) \in Seq(Seq(X)) /\ Cat(ss, uu) \in Seq(Seq(X))
        /\ FlattenSeq(ss) \in Seq(X) /\ FlattenSeq(uu) \in Seq(X)
    BY AppendProperties, CatType, FlattenType
  <2>2. Cat(ss, Append(uu, q)) = Append(Cat(ss, uu), q)
    BY CatAppend
  <2>3. FlattenSeq(Cat(ss, Append(uu, q))) = Cat(FlattenSeq(Cat(ss, uu)), q)
    BY <2>1, <2>2, FlattenAppend
  <2>4. FlattenSeq(Append(uu, q)) = Cat(FlattenSeq(uu), q)
    BY FlattenAppend
  <2>5. Cat(Cat(FlattenSeq(ss), FlattenSeq(uu)), q) = Cat(FlattenSeq(ss), Cat(FlattenSeq(uu), q))
    BY <2>1, CatAssociative
  <2> QED BY <1>2, <2>1, <2>3, <2>4, <2>5
<1>3. Seq(Seq(X)) \subseteq T
  <2> HIDE DEF T
  <2> QED BY <1>1, <1>2, SeqInduction
<1> QED BY <1>3
-----------------------------------------------------------------------------
(* What a buffer holds behind its first p octets.  Octets that are written *)
(* are numbers; that they are is left unsaid where it does not matter.     *)
Byte == Nat

Holds(w, p, v) == p + Len(v) <= Len(w) /\ \A j \in 1..Len(v) : w[p + j] = v[j]

LEMMA HoldsStays ==
  ASSUME NEW X, NEW w \in Seq(X), NEW u \in Seq(X), NEW v \in Seq(X), NEW p \in Nat, Holds(w, p, v)
  PROVE  Holds(Cat(w, u), p, v)
<1>1. Len(w) \in Nat /\ Len(u) \in Nat /\ Len(v) \in Nat
  BY LenProperties
<1>2. \A j \in 1..Len(v) : p + j \in 1..Len(w)
  BY <1>1 DEF Holds
<1>3. Len(Cat(w, u)) = Len(w) + Len(u) /\ \A j \in 1..Len(w) : Cat(w, u)[j] = w[j]
  BY CatType, CatElements
<1> QED BY <1>1, <1>2, <1>3 DEF Holds

LEMMA HoldsEnd ==
  ASSUME NEW X, NEW w \in Seq(X), NEW u \in Seq(X)
  PROVE  Holds(Cat(w, u), Len(w), u)
<1>1. Len(w) \in Nat /\ Len(u) \in Nat
  BY LenProperties
<1>2. Len(Cat(w, u)) = Len(w) + Len(u) /\ \A j \in 1..Len(u) : Cat(w, u)[Len(w) + j] = u[j]
  BY CatType, CatElements
<1> QED BY <1>1, <1>2 DEF Holds

LEMMA HoldsParts ==
  ASSUME NEW X, NEW w \in Seq(X), NEW u \in Seq(X), NEW v \in Seq(X), NEW p \in Nat,
         Holds(w, p, Cat(u, v))
  PROVE  Holds(w, p, u) /\ Holds(w, p + Len(u), v)
<1>1. Len(w) \in Nat /\ Len(u) \in Nat /\ Len(v) \in Nat
  BY LenProperties
<1>2. Len(Cat(u, v)) = Len(u) + Len(v)
  BY CatType
<1>3. \A j \in 1..Len(u) : j \in 1..(Len(u) + Len(v)) /\ Cat(u, v)[j] = u[j]
  BY <1>1, CatElements
<1>4. \A j \in 1..Len(v) :
        /\ Len(u) + j \in 1..(Len(u) + Len(v)) /\ Cat(u, v)[Len(u) + j] = v[j]
        /\ p + (Len(u) + j) = (p + Len(u)) + j
  BY <1>1, CatElements
<1>5. \A j \in 1..(Len(u) + Len(v)) : w[p + j] = Cat(u, v)[j]
  BY <1>2 DEF Holds
<1>6. \A j \in 1..Len(u) : w[p + j] = u[j]
  BY <1>3, <1>5
<1>7. \A j \in 1..Len(v) : w[(p + Len(u)) + j] = v[j]
  BY <1>4, <1>5
<1>8. p + (Len(u) + Len(v)) <= Len(w)
  BY <1>2 DEF Holds
<1> QED BY <1>1, <1>6, <1>7, <1>8 DEF Holds
-----------------------------------------------------------------------------
(* Names, label by label.                                                  *)
Labelled(l) == Cat(<<Len(l)>>, l)

LEMMA LabelledType ==
  ASSUME NEW l \in Seq(Byte)
  PROVE  Labelled(l) \in Seq(Byte) /\ Len(Labelled(l)) = Len(l) + 1
<1>1. PICK one \in Seq(Byte) : one = <<Len(l)>>
  <2>1. Len(l) \in Byte
    BY LenProperties DEF Byte
  <2>2. <<Len(l)>> \in Seq(Byte)
    BY <2>1
  <2> QED BY <2>2
<1>2. Len(one) = 1 /\ Len(l) \in Nat
  BY <1>1, LenProperties
<1>3. Cat(one, l) \in Seq(Byte) /\ Len(Cat(one, l)) = Len(one) + Len(l)
  BY CatType
<1> QED BY <1>1, <1>2, <1>3 DEF Labelled

LEMMA VerbatimEmpty == Verbatim(<<>>) = <<>>
<1>1. [j \in DOMAIN <<>> |-> <<Len(<<>>[j])>> \o <<>>[j]] = <<>>
  OBVIOUS
<1> QED BY <1>1, FlattenEmpty DEF Verbatim

(* The labels with their lengths.                                          *)
LabelsIn(name) == [j \in DOMAIN name |-> <<Len(name[j])>> \o name[j]]

LEMMA LabelsInType ==
  ASSUME NEW nm \in Seq(Seq(Byte))
  PROVE  /\ LabelsIn(nm) \in Seq(Seq(Byte)) /\ Len(LabelsIn(nm)) = Len(nm)
         /\ \A j \in 1..Len(nm) : LabelsIn(nm)[j] = Labelled(nm[j])
<1>1. Len(nm) \in Nat /\ DOMAIN nm = 1..Len(nm) /\ \A j \in 1..Len(nm) : nm[j] \in Seq(Byte)
  BY LenProperties, ElementOfSeq
<1>2. LabelsIn(nm) = [j \in 1..Len(nm) |-> Labelled(nm[j])]
  BY <1>1 DEF LabelsIn, Labelled, Cat
<1>3. \A j \in 1..Len(nm) : Labelled(nm[j]) \in Seq(Byte)
  BY <1>1, LabelledType
<1>4. [j \in 1..Len(nm) |-> Labelled(nm[j])] \in [1..Len(nm) -> Seq(Byte)]
  BY <1>3
<1> QED BY <1>1, <1>2, <1>4

LEMMA VerbatimType ==
  ASSUME NEW nm \in Seq(Seq(Byte))
  PROVE  Verbatim(nm) \in Seq(Byte)
<1>1. Verbatim(nm) = FlattenSeq(LabelsIn(nm))
  BY DEF Verbatim, LabelsIn
<1> QED BY <1>1, LabelsInType, FlattenType

LEMMA VerbatimAppend ==
  ASSUME NEW nm \in Seq(Seq(Byte)), NEW l \in Seq(Byte)
  PROVE  Verbatim(Append(nm, l)) = Cat(Verbatim(nm), Labelled(l))
<1>1. PICK nn \in Seq(Seq(Byte)) : nn = Append(nm, l)
  BY AppendProperties
<1>2. /\ Len(nm) \in Nat /\ Len(nn) = Len(nm) + 1
      /\ \A j \in 1..Len(nm) : nn[j] = nm[j]
      /\ nn[Len(nm) + 1] = l
  BY <1>1, LenProperties, AppendProperties
<1>3. /\ LabelsIn(nn) \in Seq(Seq(Byte)) /\ LabelsIn(nm) \in Seq(Seq(Byte))
      /\ Len(LabelsIn(nn)) = Len(nm) + 1 /\ Len(LabelsIn(nm)) = Len(nm)
      /\ \A j \in 1..Len(nn) : LabelsIn(nn)[j] = Labelled(nn[j])
      /\ \A j \in 1..Len(nm) : LabelsIn(nm)[j] = Labelled(nm[j])
  BY <1>2, LabelsInType
<1>4. Labelled(l) \in Seq(Byte)
  BY LabelledType
<1>5. PICK ss, tt \in Seq(Seq(Byte)), q \in Seq(Byte) :
        ss = LabelsIn(nm) /\ tt = LabelsIn(nn) /\ q = Labelled(l)
  BY <1>3, <1>4
<1>6. tt = Append(ss, q)
  <2>0. /\ Append(ss, q) \in Seq(Seq(Byte)) /\ Len(Append(ss, q)) = Len(ss) + 1
        /\ \A j \in 1..Len(ss) : Append(ss, q)[j] = ss[j]
        /\ Append(ss, q)[Len(ss) + 1] = q
    BY AppendProperties
  <2>1. PICK uu \in Seq(Seq(Byte)) :
          /\ uu = Append(ss, q) /\ Len(uu) = Len(ss) + 1
          /\ \A j \in 1..Len(ss) : uu[j] = ss[j]
          /\ uu[Len(ss) + 1] = q
    BY <2>0
  <2>2. Len(tt) = Len(uu)
    BY <1>3, <1>5, <2>1
  <2>3. ASSUME NEW j \in 1..Len(tt) PROVE tt[j] = uu[j]
    <3>1. CASE j = Len(nm) + 1
      BY <1>2, <1>3, <1>5, <2>1, <3>1
    <3>2. CASE j \in 1..Len(nm)
      <4>1. tt[j] = Labelled(nn[j]) /\ ss[j] = Labelled(nm[j]) /\ nn[j] = nm[j]
        BY <1>2, <1>3, <1>5, <3>2
      <4>2. uu[j] = ss[j]
        BY <1>3, <1>5, <2>1, <3>2
      <4> QED BY <4>1, <4>2
    <3> QED BY <1>2, <1>3, <1>5, <3>1, <3>2
  <2> QED BY <2>1, <2>2, <2>3, SeqEqual
<1>7. Verbatim(nm) = FlattenSeq(ss) /\ Verbatim(nn) = FlattenSeq(tt)
  BY <1>5 DEF Verbatim, LabelsIn
<1>8. FlattenSeq(Append(ss, q)) = Cat(FlattenSeq(ss), q)
  BY FlattenAppend
<1> QED BY <1>1, <1>5, <1>6, <1>7, <1>8

LEMMA VerbatimConcat ==
  ASSUME NEW mm \in Seq(Seq(Byte)), NEW nn \in Seq(Seq(Byte))
  PROVE  Verbatim(Cat(mm, nn)) = Cat(Verbatim(mm), Verbatim(nn))
<1> DEFINE T == {uu \in Seq(Seq(Byte)) : Verbatim(Cat(mm, uu)) = Cat(Verbatim(mm), Verbatim(uu))}
<1>1. <<>> \in T
  BY VerbatimEmpty, VerbatimType, CatEmpty, EmptySeq
<1>2. ASSUME NEW uu \in Seq(Seq(Byte)), NEW q \in Seq(Byte), uu \in T PROVE Append(uu, q) \in T
  <2>1. /\ Append(uu, q) \in Seq(Seq(Byte)) /\ Cat(mm, uu) \in Seq(Seq(Byte))
        /\ Verbatim(mm) \in Seq(Byte) /\ Verbatim(uu) \in Seq(Byte) /\ Labelled(q) \in Seq(Byte)
    BY AppendProperties, CatType, VerbatimType, LabelledType
  <2>2. Cat(mm, Append(uu, q)) = Append(Cat(mm, uu), q)
    BY CatAppend
  <2>3. Verbatim(Cat(mm, Append(uu, q))) = Cat(Verbatim(Cat(mm, uu)), Labelled(q))
    BY <2>1, <2>2, VerbatimAppend
  <2>4. Verbatim(Append(uu, q)) = Cat(Verbatim(uu), Labelled(q))
    BY VerbatimAppend
  <2>5. Cat(Cat(Verbatim(mm), Verbatim(uu)), Labelled(q))
          = Cat(Verbatim(mm), Cat(Verbatim(uu), Labelled(q)))
    BY <2>1, CatAssociative
  <2> QED BY <1>2, <2>1, <2>3, <2>4, <2>5
<1>3. Seq(Seq(Byte)) \subseteq T
  <2> HIDE DEF T
  <2> QED BY <1>1, <1>2, SeqInduction
<1> QED BY <1>3

(* Where the label after the first m ends.                                 *)
Foremost(nm, m) == SubSeq(nm, 1, m)
NameEnd(nm, m) == Len(Verbatim(Foremost(nm, m)))

LEMMA Fronts ==
  ASSUME NEW X, NEW nm \in Seq(X), NEW m \in 0..Len(nm)
  PROVE  /\ Foremost(nm, m) \in Seq(X) /\ Len(Foremost(nm, m)) = m
         /\ \A j \in 1..m : Foremost(nm, m)[j] = nm[j]
         /\ SubSeq(nm, m + 1, Len(nm)) \in Seq(X)
         /\ nm = Cat(Foremost(nm, m), SubSeq(nm, m + 1, Len(nm)))
         /\ m < Len(nm) => /\ Foremost(nm, m + 1) = Append(Foremost(nm, m), nm[m + 1])
                           /\ nm[m + 1] \in X
         /\ Foremost(nm, Len(nm)) = nm /\ Foremost(nm, 0) = <<>>
<1>0. Len(nm) \in Nat /\ m \in Nat /\ \A j \in 1..Len(nm) : nm[j] \in X
  BY LenProperties, ElementOfSeq
<1>1. /\ Foremost(nm, m) \in Seq(X) /\ Len(Foremost(nm, m)) = m
      /\ \A j \in 1..m : Foremost(nm, m)[j] = nm[j]
  <2>1. \A j \in 1..m : nm[j] \in X
    BY <1>0
  <2>2. /\ SubSeq(nm, 1, m) \in Seq(X) /\ Len(SubSeq(nm, 1, m)) = IF 1 <= m THEN m - 1 + 1 ELSE 0
        /\ \A j \in 1..(m - 1 + 1) : SubSeq(nm, 1, m)[j] = nm[1 + j - 1]
    BY <1>0, <2>1, SubSeqProperties
  <2> QED BY <1>0, <2>2 DEF Foremost
<1>2. SubSeq(nm, m + 1, Len(nm)) \in Seq(X)
  <2>1. \A j \in (m + 1)..Len(nm) : nm[j] \in X
    BY <1>0
  <2> QED BY <1>0, <2>1, SubSeqProperties
<1>3. nm = Cat(Foremost(nm, m), SubSeq(nm, m + 1, Len(nm)))
  <2>1. 1 \in 1..(Len(nm) + 1) /\ m \in (1 - 1)..Len(nm) /\ Len(nm) \in m..Len(nm)
    BY <1>0
  <2>2. SubSeq(nm, 1, m) \o SubSeq(nm, m + 1, Len(nm)) = SubSeq(nm, 1, Len(nm))
    BY <2>1, ConcatAdjacentSubSeq
  <2> QED BY <2>2, SubSeqFull DEF Cat, Foremost
<1>4. ASSUME m < Len(nm)
      PROVE  Foremost(nm, m + 1) = Append(Foremost(nm, m), nm[m + 1]) /\ nm[m + 1] \in X
  <2>1. 1 \in 1..Len(nm) /\ m + 1 \in 1..Len(nm) /\ (m + 1) - 1 = m
    BY <1>0, <1>4
  <2>2. SubSeq(nm, 1, m + 1) = SubSeq(nm, 1, (m + 1) - 1) \o <<nm[m + 1]>>
    BY <2>1, SubSeqRecursiveSecond
  <2>3. nm[m + 1] \in X
    BY <1>0, <2>1
  <2>4. Append(Foremost(nm, m), nm[m + 1]) = Foremost(nm, m) \o <<nm[m + 1]>>
    BY <1>1, <2>3, AppendIsConcat
  <2> QED BY <2>1, <2>2, <2>3, <2>4 DEF Foremost
<1>5. Foremost(nm, Len(nm)) = nm /\ Foremost(nm, 0) = <<>>
  BY <1>0, SubSeqFull, SubSeqEmpty DEF Foremost
<1> QED BY <1>1, <1>2, <1>3, <1>4, <1>5

LEMMA NextLabel ==
  ASSUME NEW nm \in Seq(Seq(Byte)), NEW m \in 0..Len(nm), m < Len(nm)
  PROVE  /\ nm[m + 1] \in Seq(Byte)
         /\ NameEnd(nm, m) \in Nat
         /\ NameEnd(nm, m + 1) = NameEnd(nm, m) + Len(nm[m + 1]) + 1
         /\ NameEnd(nm, m + 1) <= Len(Verbatim(nm))
         /\ \A w \in Seq(Byte), p \in Nat :
              Holds(w, p, Verbatim(nm)) => Holds(w, p + NameEnd(nm, m), Labelled(nm[m + 1]))
<1>0. Len(nm) \in Nat /\ m \in Nat /\ m + 1 \in 0..Len(nm)
  BY LenProperties
<1>1. PICK ff, gg, rr \in Seq(Seq(Byte)), l \in Seq(Byte) :
        /\ ff = Foremost(nm, m) /\ l = nm[m + 1] /\ gg = Append(ff, l)
        /\ gg = Foremost(nm, m + 1)
        /\ nm = Cat(gg, rr)
  <2>1. /\ Foremost(nm, m) \in Seq(Seq(Byte)) /\ nm[m + 1] \in Seq(Byte)
        /\ Foremost(nm, m + 1) = Append(Foremost(nm, m), nm[m + 1])
    BY Fronts
  <2>2. /\ Foremost(nm, m + 1) \in Seq(Seq(Byte))
        /\ SubSeq(nm, (m + 1) + 1, Len(nm)) \in Seq(Seq(Byte))
        /\ nm = Cat(Foremost(nm, m + 1), SubSeq(nm, (m + 1) + 1, Len(nm)))
    BY <1>0, Fronts
  <2> QED BY <2>1, <2>2
<1>2. PICK v, u, t \in Seq(Byte) : v = Verbatim(ff) /\ u = Labelled(l) /\ t = Verbatim(rr)
  BY VerbatimType, LabelledType
<1>3. Verbatim(gg) = Cat(v, u)
  <2>1. ff \in Seq(Seq(Byte)) /\ l \in Seq(Byte) /\ gg = Append(ff, l)
    BY <1>1
  <2>2. Verbatim(gg) = Cat(Verbatim(ff), Labelled(l))
    BY <2>1, VerbatimAppend, Zenon
  <2> QED BY <1>2, <2>2
<1>4. Verbatim(nm) = Cat(Cat(v, u), t)
  BY <1>1, <1>2, <1>3, VerbatimConcat
<1>5. Len(v) \in Nat /\ Len(t) \in Nat /\ Len(l) \in Nat /\ Len(u) = Len(l) + 1
  BY <1>2, LenProperties, LabelledType
<1>6. PICK vu \in Seq(Byte) : vu = Cat(v, u) /\ Len(vu) = Len(v) + Len(u)
  BY CatType
<1>7. Len(Verbatim(nm)) = Len(v) + Len(u) + Len(t)
  <2>1. Len(Cat(vu, t)) = Len(vu) + Len(t)
    BY CatType
  <2> QED BY <1>4, <1>6, <2>1
<1>8. NameEnd(nm, m) = Len(v) /\ NameEnd(nm, m + 1) = Len(v) + Len(u)
  BY <1>1, <1>2, <1>3, <1>6 DEF NameEnd
<1>9. ASSUME NEW w \in Seq(Byte), NEW p \in Nat, Holds(w, p, Verbatim(nm))
      PROVE  Holds(w, p + NameEnd(nm, m), Labelled(nm[m + 1]))
  <2>1. Holds(w, p, Cat(vu, t))
    BY <1>4, <1>6, <1>9
  <2>2. Holds(w, p, Cat(v, u))
    BY <1>6, <2>1, HoldsParts
  <2>3. Holds(w, p + Len(v), u)
    BY <2>2, HoldsParts
  <2> QED BY <1>1, <1>2, <1>8, <2>3
<1>10. /\ NameEnd(nm, m) \in Nat /\ nm[m + 1] \in Seq(Byte)
       /\ NameEnd(nm, m + 1) = NameEnd(nm, m) + Len(nm[m + 1]) + 1
       /\ NameEnd(nm, m + 1) <= Len(Verbatim(nm))
  <2>1. nm[m + 1] \in Seq(Byte) /\ Len(nm[m + 1]) = Len(l)
    BY <1>1
  <2> QED BY <1>5, <1>7, <1>8, <2>1
<1> QED BY <1>9, <1>10
-----------------------------------------------------------------------------
(* The messages of one question, at most one answer and an OPT record.     *)
AllQuestions(b, sq) == FoldLeft(WriteQuestion, b, sq)
AllRRs(b, sq) == FoldLeft(WriteRR, b, sq)

LEMMA MaxIs ==
  ASSUME NEW S \in SUBSET Nat, NEW m \in S, \A k \in S : k <= m
  PROVE  Max(S) = m
<1>1. \A k \in S : k \in Nat /\ (\A n \in S : k >= n) => k = m
  BY SMT
<1>2. \A k \in S : m >= k
  BY SMT
<1> QED BY <1>1, <1>2, Zenon DEF Max

IsFoldOfQuestions(b, sq, S, it) ==
  it = [s \in SUBSET S |-> IF s = {} THEN b ELSE WriteQuestion(it[s \ {Max(s)}], sq[Max(s)])]

LEMMA OneQuestion ==
  ASSUME NEW b, NEW q
  PROVE  AllQuestions(b, <<q>>) = WriteQuestion(b, q)
<1> DEFINE sq == <<q>>
           S == DOMAIN sq
           h == CHOOSE it : IsFoldOfQuestions(b, sq, S, it)
           g == [s \in SUBSET S |-> IF s = {} THEN b ELSE WriteQuestion(b, q)]
<1>1. S = {1} /\ sq[1] = q /\ S # {} /\ {} \in SUBSET S /\ S \in SUBSET S
  OBVIOUS
<1>2. AllQuestions(b, sq) = h[S]
  BY DEF AllQuestions, FoldLeft, MapThenFoldSet, IsFoldOfQuestions
<1>3. Max({1}) = 1 /\ {1} \ {1} = {}
  BY MaxIs
<1>4. IsFoldOfQuestions(b, sq, S, g)
  <2>1. ASSUME NEW s \in SUBSET S, s # {}
        PROVE  WriteQuestion(b, q) = WriteQuestion(g[s \ {Max(s)}], sq[Max(s)])
    <3>1. s = {1}
      BY <1>1, <2>1
    <3> QED BY <1>1, <1>3, <3>1
  <2>2. g = [s \in SUBSET S |->
                IF s = {} THEN b ELSE WriteQuestion(g[s \ {Max(s)}], sq[Max(s)])]
    BY <2>1
  <2> HIDE DEF g, S, sq
  <2> QED BY <2>2 DEF IsFoldOfQuestions
<1>5. IsFoldOfQuestions(b, sq, S, h)
  <2> HIDE DEF g, S, sq
  <2> QED BY <1>4
<1> HIDE DEF h, g, S, sq
<1>6. h[S] = WriteQuestion(h[S \ {Max(S)}], sq[Max(S)]) /\ h[{}] = b
  BY <1>1, <1>5 DEF IsFoldOfQuestions
<1>7. AllQuestions(b, sq) = WriteQuestion(b, q)
  BY <1>1, <1>2, <1>3, <1>6
<1> QED BY <1>7 DEF sq

IsFoldOfRRs(b, sq, S, it) ==
  it = [s \in SUBSET S |-> IF s = {} THEN b ELSE WriteRR(it[s \ {Max(s)}], sq[Max(s)])]

LEMMA OneRR ==
  ASSUME NEW b, NEW q
  PROVE  AllRRs(b, <<q>>) = WriteRR(b, q)
<1> DEFINE sq == <<q>>
           S == DOMAIN sq
           h == CHOOSE it : IsFoldOfRRs(b, sq, S, it)
           g == [s \in SUBSET S |-> IF s = {} THEN b ELSE WriteRR(b, q)]
<1>1. S = {1} /\ sq[1] = q /\ S # {} /\ {} \in SUBSET S /\ S \in SUBSET S
  OBVIOUS
<1>2. AllRRs(b, sq) = h[S]
  BY DEF AllRRs, FoldLeft, MapThenFoldSet, IsFoldOfRRs
<1>3. Max({1}) = 1 /\ {1} \ {1} = {}
  BY MaxIs
<1>4. IsFoldOfRRs(b, sq, S, g)
  <2>1. ASSUME NEW s \in SUBSET S, s # {}
        PROVE  WriteRR(b, q) = WriteRR(g[s \ {Max(s)}], sq[Max(s)])
    <3>1. s = {1}
      BY <1>1, <2>1
    <3> QED BY <1>1, <1>3, <3>1
  <2>2. g = [s \in SUBSET S |-> IF s = {} THEN b ELSE WriteRR(g[s \ {Max(s)}], sq[Max(s)])]
    BY <2>1
  <2> HIDE DEF g, S, sq
  <2> QED BY <2>2 DEF IsFoldOfRRs
<1>5. IsFoldOfRRs(b, sq, S, h)
  <2> HIDE DEF g, S, sq
  <2> QED BY <1>4
<1> HIDE DEF h, g, S, sq
<1>6. h[S] = WriteRR(h[S \ {Max(S)}], sq[Max(S)]) /\ h[{}] = b
  BY <1>1, <1>5 DEF IsFoldOfRRs
<1>7. AllRRs(b, sq) = WriteRR(b, q)
  BY <1>1, <1>2, <1>3, <1>6
<1> QED BY <1>7 DEF sq

LEMMA TwoRRs ==
  ASSUME NEW b, NEW q, NEW r
  PROVE  AllRRs(b, <<q, r>>) = WriteRR(WriteRR(b, q), r)
<1> DEFINE sq == <<q, r>>
           S == DOMAIN sq
           h == CHOOSE it : IsFoldOfRRs(b, sq, S, it)
           g == [s \in SUBSET S |->
                   IF s = {} THEN b ELSE IF s = {1} THEN WriteRR(b, q)
                   ELSE IF s = {2} THEN WriteRR(b, r) ELSE WriteRR(WriteRR(b, q), r)]
<1>1. /\ S = {1, 2} /\ sq[1] = q /\ sq[2] = r /\ S # {}
      /\ {} \in SUBSET S /\ {1} \in SUBSET S /\ S \in SUBSET S
  OBVIOUS
<1>2. AllRRs(b, sq) = h[S]
  BY DEF AllRRs, FoldLeft, MapThenFoldSet, IsFoldOfRRs
<1>3. /\ Max({1}) = 1 /\ Max({2}) = 2 /\ Max({1, 2}) = 2
      /\ {1} \ {1} = {} /\ {2} \ {2} = {} /\ {1, 2} \ {2} = {1}
  BY MaxIs
<1>4. IsFoldOfRRs(b, sq, S, g)
  <2>1. g[{}] = b /\ g[{1}] = WriteRR(b, q) /\ g[{2}] = WriteRR(b, r)
        /\ g[{1, 2}] = WriteRR(WriteRR(b, q), r) /\ g[{}] = b
    BY <1>1
  <2>2. ASSUME NEW s \in SUBSET S, s # {}
        PROVE  g[s] = WriteRR(g[s \ {Max(s)}], sq[Max(s)])
    <3> HIDE DEF g
    <3>1. s = {1} \/ s = {2} \/ s = {1, 2}
      BY <1>1, <2>2
    <3>2. CASE s = {1}
      BY <1>1, <1>3, <2>1, <3>2
    <3>3. CASE s = {2}
      BY <1>1, <1>3, <2>1, <3>3
    <3>4. CASE s = {1, 2}
      BY <1>1, <1>3, <2>1, <3>4
    <3> QED BY <3>1, <3>2, <3>3, <3>4
  <2>3. g = [s \in SUBSET S |-> g[s]]
    OBVIOUS
  <2>4. g = [s \in SUBSET S |-> IF s = {} THEN b ELSE WriteRR(g[s \ {Max(s)}], sq[Max(s)])]
    <3> HIDE DEF g, S, sq
    <3> QED BY <2>1, <2>2, <2>3
  <2> HIDE DEF g, S, sq
  <2> QED BY <2>4 DEF IsFoldOfRRs
<1>5. IsFoldOfRRs(b, sq, S, h)
  <2> HIDE DEF g, S, sq
  <2> QED BY <1>4
<1> HIDE DEF h, g, S, sq
<1>6. /\ h[S] = WriteRR(h[S \ {Max(S)}], sq[Max(S)]) /\ h[{}] = b
      /\ h[{1}] = WriteRR(h[{1} \ {Max({1})}], sq[Max({1})])
  BY <1>1, <1>5 DEF IsFoldOfRRs
<1>7. AllRRs(b, sq) = WriteRR(WriteRR(b, q), r)
  BY <1>1, <1>2, <1>3, <1>6
<1> QED BY <1>7 DEF sq
-----------------------------------------------------------------------------
(* A name of which no suffix has been written is written in full, and its  *)
(* place is remembered.                                                    *)
LEMMA NameParts ==
  ASSUME NEW nm \in Seq(Seq(Byte))
  PROVE  /\ Len(nm) \in Nat /\ DOMAIN nm = 1..Len(nm)
         /\ SubSeq(nm, 1, Len(nm)) = nm /\ SubSeq(nm, 1, 0) = <<>> /\ Suffix(nm, 1) = nm
BY LenProperties, SubSeqFull, SubSeqEmpty DEF Suffix

(* What WriteName returns, its parts by name.                              *)
Usable(b, nm) ==
  {i \in DOMAIN nm : Suffix(nm, i) \in DOMAIN b.cache /\ b.cache[Suffix(nm, i)] < 16384}
InFull(b, nm) ==
  IF Usable(b, nm) = {} THEN Len(nm)
  ELSE (CHOOSE i \in Usable(b, nm) : \A j \in Usable(b, nm) : i <= j) - 1
Places(b, nm, n) ==
  [s \in DOMAIN b.cache \cup {Suffix(nm, i) : i \in 1..n} |->
     IF s \in {Suffix(nm, i) : i \in 1..n}
     THEN Len(b.w) + Len(Verbatim(SubSeq(nm, 1, (Len(nm) - Len(s) + 1) - 1)))
     ELSE b.cache[s]]

NameLabels(b, nm) == SubSeq(nm, 1, InFull(b, nm))
NameEnding(b, nm) ==
  IF Usable(b, nm) = {} THEN <<0>> ELSE Two(49152 + b.cache[Suffix(nm, InFull(b, nm) + 1)])
NameOctets(b, nm) == Cat(Cat(b.w, Verbatim(NameLabels(b, nm))), NameEnding(b, nm))

LEMMA NameWritten ==
  ASSUME NEW b, NEW nm
  PROVE  /\ WriteName(b, nm) = [w |-> NameOctets(b, nm), cache |-> Places(b, nm, InFull(b, nm))]
         /\ WriteName(b, nm).w = NameOctets(b, nm)
         /\ WriteName(b, nm).cache = Places(b, nm, InFull(b, nm))
<1>1. WriteName(b, nm) = [w |-> NameOctets(b, nm), cache |-> Places(b, nm, InFull(b, nm))]
  BY DEF WriteName, NameOctets, NameLabels, NameEnding, Cat, InFull, Usable, Places
<1> QED BY <1>1

LEMMA WriteNewName ==
  ASSUME NEW b, b.w \in Seq(Byte), NEW nm \in Seq(Seq(Byte)),
         \A j \in DOMAIN nm : Suffix(nm, j) \notin DOMAIN b.cache
  PROVE  WriteName(b, nm).w = Cat(b.w, Cat(Verbatim(nm), <<0>>))
<1>1. Usable(b, nm) = {}
  BY DEF Usable
<1>2. InFull(b, nm) = Len(nm)
  BY <1>1 DEF InFull
<1>3. WriteName(b, nm).w = Cat(Cat(b.w, Verbatim(nm)), <<0>>)
  <2>1. NameLabels(b, nm) = nm
    BY <1>2, NameParts DEF NameLabels
  <2>2. NameEnding(b, nm) = <<0>>
    BY <1>1 DEF NameEnding
  <2> QED BY <2>1, <2>2, NameWritten DEF NameOctets
<1>4. PICK z \in Seq(Byte) : z = <<0>>
  <2>1. <<0>> \in Seq(Byte)
    BY DEF Byte
  <2> QED BY <2>1
<1>5. PICK w0 \in Seq(Byte) : w0 = b.w
  OBVIOUS
<1>6. Verbatim(nm) \in Seq(Byte)
  BY VerbatimType
<1>7. Cat(Cat(w0, Verbatim(nm)), z) = Cat(w0, Cat(Verbatim(nm), z))
  BY <1>6, CatAssociative
<1> QED BY <1>3, <1>4, <1>5, <1>7

LEMMA PlaceOfName ==
  ASSUME NEW b, b.w \in Seq(Byte), NEW nm \in Seq(Seq(Byte)), nm # <<>>, b.cache = <<>>
  PROVE  /\ nm \in DOMAIN WriteName(b, nm).cache
         /\ WriteName(b, nm).cache[nm] = Len(b.w)
<1>1. DOMAIN b.cache = {}
  OBVIOUS
<1>2. Usable(b, nm) = {} /\ InFull(b, nm) = Len(nm)
  BY <1>1 DEF Usable, InFull
<1>3. WriteName(b, nm).cache = Places(b, nm, Len(nm))
  BY <1>2, NameWritten
<1>4. Len(nm) >= 1 /\ Len(nm) \in Nat
  BY LenProperties, EmptySeq
<1>5. nm \in {Suffix(nm, i) : i \in 1..Len(nm)}
  <2>1. 1 \in 1..Len(nm)
    BY <1>4
  <2> QED BY <2>1, NameParts
<1>6. Len(b.w) + Len(Verbatim(SubSeq(nm, 1, (Len(nm) - Len(nm) + 1) - 1))) = Len(b.w)
  <2>1. (Len(nm) - Len(nm) + 1) - 1 = 0
    BY <1>4
  <2>2. Len(Verbatim(SubSeq(nm, 1, 0))) = 0
    BY NameParts, VerbatimEmpty, EmptySeq
  <2>3. PICK n \in Nat : n = Len(b.w)
    BY LenProperties
  <2>4. n + 0 = n
    OBVIOUS
  <2> QED BY <2>1, <2>2, <2>3, <2>4
<1>7. nm \in DOMAIN Places(b, nm, Len(nm))
  BY <1>5 DEF Places
<1>8. Places(b, nm, Len(nm))[nm] = Len(b.w)
  BY <1>5, <1>6 DEF Places
<1> QED BY <1>3, <1>7, <1>8

LEMMA WriteKnownName ==
  ASSUME NEW b, b.w \in Seq(Byte), NEW nm \in Seq(Seq(Byte)), nm # <<>>,
         nm \in DOMAIN b.cache, b.cache[nm] < 16384
  PROVE  WriteName(b, nm).w = Cat(b.w, Two(49152 + b.cache[nm]))
<1>1. 1 \in Usable(b, nm) /\ \A j \in Usable(b, nm) : j \in Nat /\ 1 <= j
  <2>1. Len(nm) >= 1 /\ Len(nm) \in Nat
    BY LenProperties, EmptySeq
  <2>2. 1 \in DOMAIN nm /\ \A j \in DOMAIN nm : j \in Nat /\ 1 <= j
    BY <2>1, NameParts
  <2> QED BY <2>2, NameParts DEF Usable
<1>2. InFull(b, nm) = 0
  <2> DEFINE U == Usable(b, nm)
             first == CHOOSE i \in U : \A j \in U : i <= j
  <2>1. U # {} /\ InFull(b, nm) = first - 1
    BY <1>1 DEF InFull
  <2>2. 1 \in U /\ \A j \in U : j \in Nat /\ 1 <= j
    BY <1>1
  <2> HIDE DEF U
  <2>3. \A i \in U : (\A j \in U : i <= j) => i = 1
    BY <2>2
  <2>4. first = 1
    BY <2>2, <2>3
  <2> QED BY <2>1, <2>4
<1>3. NameLabels(b, nm) = <<>> /\ Suffix(nm, InFull(b, nm) + 1) = nm
  <2>1. 0 + 1 = 1
    OBVIOUS
  <2> QED BY <1>2, <2>1, NameParts DEF NameLabels
<1>4. WriteName(b, nm).w = Cat(Cat(b.w, <<>>), Two(49152 + b.cache[nm]))
  <2>1. Usable(b, nm) # {}
    BY <1>1
  <2>2. NameEnding(b, nm) = Two(49152 + b.cache[nm])
    BY <1>3, <2>1 DEF NameEnding
  <2> QED BY <1>3, <2>2, VerbatimEmpty, NameWritten DEF NameOctets
<1>5. PICK w0 \in Seq(Byte) : w0 = b.w
  OBVIOUS
<1>6. Cat(w0, <<>>) = w0
  BY CatEmpty
<1> QED BY <1>4, <1>5, <1>6

LEMMA NameThenFields ==
  ASSUME NEW b, NEW nm, NEW o
  PROVE  /\ Write(WriteName(b, nm), o).w = Cat(WriteName(b, nm).w, o)
         /\ Write(WriteName(b, nm), o).cache = WriteName(b, nm).cache
<1>1. \E x, y : WriteName(b, nm) = [w |-> x, cache |-> y]
  BY NameWritten
<1> QED BY <1>1 DEF Write, Cat
-----------------------------------------------------------------------------
(* The parts of these messages.                                            *)
Header(n) == Zeros(4) \o Two(1) \o Two(n) \o Two(0) \o Two(1)
QuestionFields == Two(TXT) \o Two(0)
OptFields == Two(OPT) \o Zeros(6) \o Two(0) \o <<>>
DataHead(n) == Two(TXT) \o Zeros(6) \o Two(n)
FullName(nm) == Cat(Verbatim(nm), <<0>>)
SameName(nm) == IF nm = <<>> THEN <<0>> ELSE Two(49152 + 12)
SameLength(nm) == IF nm = <<>> THEN 1 ELSE 2

LEMMA HeaderIs ==
  ASSUME NEW n \in {0, 1}
  PROVE  /\ Header(n) \in Seq(Byte) /\ Len(Header(n)) = 12
         /\ Header(n)[5] = 0 /\ Header(n)[6] = 1 /\ Header(n)[7] = 0 /\ Header(n)[8] = n
         /\ Header(n)[9] = 0 /\ Header(n)[10] = 0 /\ Header(n)[11] = 0 /\ Header(n)[12] = 1
<1>1. Zeros(4) = <<0, 0, 0, 0>>
  BY DEF Zeros
<1>2. Two(1) = <<0, 1>> /\ Two(n) = <<0, n>> /\ Two(0) = <<0, 0>>
  BY DEF Two
<1>3. Header(n) = <<0, 0, 0, 0>> \o <<0, 1>> \o <<0, n>> \o <<0, 0>> \o <<0, 1>>
  BY <1>1, <1>2 DEF Header
<1>4. Len(Header(n)) = 12
  BY <1>3
<1>5. Header(n)[5] = 0
  BY <1>3
<1>6. Header(n)[12] = 1
  BY <1>3
<1>7. Header(n)[8] = n /\ Header(n)[6] = 1
  BY <1>3
<1>8. Header(n)[7] = 0 /\ Header(n)[9] = 0 /\ Header(n)[10] = 0 /\ Header(n)[11] = 0
  BY <1>3
<1>9. Header(n) \in Seq(Byte)
  BY <1>3 DEF Byte
<1> QED BY <1>4, <1>5, <1>6, <1>7, <1>8, <1>9

LEMMA QuestionFieldsAre ==
  /\ QuestionFields \in Seq(Byte) /\ Len(QuestionFields) = 4
  /\ QuestionFields[1] = 0 /\ QuestionFields[2] = 16
<1>1. Two(0) = <<0, 0>> /\ Two(TXT) = <<0, 16>>
  BY DEF Two, TXT
<1>2. QuestionFields = <<0, 16>> \o <<0, 0>>
  BY <1>1 DEF QuestionFields
<1>3. QuestionFields \in Seq(Byte)
  BY <1>2 DEF Byte
<1> QED BY <1>2, <1>3

LEMMA OptFieldsAre ==
  /\ OptFields \in Seq(Byte) /\ Len(OptFields) = 10
  /\ OptFields[1] = 0 /\ OptFields[2] = 41 /\ OptFields[9] = 0 /\ OptFields[10] = 0
<1>1. Zeros(6) = <<0, 0, 0, 0, 0, 0>>
  BY DEF Zeros
<1>2. Two(0) = <<0, 0>> /\ Two(OPT) = <<0, 41>>
  BY DEF Two, OPT
<1>3. OptFields = <<0, 41>> \o <<0, 0, 0, 0, 0, 0>> \o <<0, 0>> \o <<>>
  BY <1>1, <1>2 DEF OptFields
<1>4. OptFields \in Seq(Byte)
  BY <1>3 DEF Byte
<1>5. Len(OptFields) = 10 /\ OptFields[1] = 0 /\ OptFields[2] = 41
  BY <1>3
<1>6. OptFields[9] = 0 /\ OptFields[10] = 0
  BY <1>3
<1> QED BY <1>4, <1>5, <1>6

LEMMA TwoType ==
  ASSUME NEW n \in Nat
  PROVE  /\ Two(n) \in Seq(Byte) /\ Len(Two(n)) = 2
         /\ Two(n)[1] = n \div 256 /\ Two(n)[2] = n % 256
BY DEF Two, Byte

LEMMA DataHeadIs ==
  ASSUME NEW n \in Nat
  PROVE  /\ DataHead(n) \in Seq(Byte) /\ Len(DataHead(n)) = 10
         /\ DataHead(n)[1] = 0 /\ DataHead(n)[2] = 16
         /\ DataHead(n)[9] = n \div 256 /\ DataHead(n)[10] = n % 256
<1>1. Zeros(6) = <<0, 0, 0, 0, 0, 0>>
  BY DEF Zeros
<1>2. PICK x \in Nat, y \in Nat : x = n \div 256 /\ y = n % 256
  BY SMT
<1>3. Two(TXT) = <<0, 16>> /\ Two(n) = <<x, y>>
  BY <1>2 DEF Two, TXT
<1>4. DataHead(n) = <<0, 16>> \o <<0, 0, 0, 0, 0, 0>> \o <<x, y>>
  BY <1>1, <1>3 DEF DataHead
<1>5. DataHead(n) \in Seq(Byte)
  BY <1>4 DEF Byte
<1>6. Len(DataHead(n)) = 10 /\ DataHead(n)[1] = 0 /\ DataHead(n)[2] = 16
  BY <1>4
<1>7. DataHead(n)[9] = x /\ DataHead(n)[10] = y
  BY <1>4
<1> QED BY <1>2, <1>5, <1>6, <1>7

LEMMA NameTypes ==
  ASSUME NEW nm \in Seq(Seq(Byte))
  PROVE  /\ FullName(nm) \in Seq(Byte) /\ Len(FullName(nm)) = Len(Verbatim(nm)) + 1
         /\ SameName(nm) \in Seq(Byte) /\ Len(SameName(nm)) = SameLength(nm)
<1>1. PICK z \in Seq(Byte) : z = <<0>>
  <2>1. <<0>> \in Seq(Byte)
    BY DEF Byte
  <2> QED BY <2>1
<1>2. PICK v \in Seq(Byte) : v = Verbatim(nm)
  BY VerbatimType
<1>3. Cat(v, z) \in Seq(Byte) /\ Len(Cat(v, z)) = Len(v) + Len(z)
  BY CatType
<1>4. Len(z) = 1
  BY <1>1
<1>5. Two(49152 + 12) \in Seq(Byte) /\ Len(Two(49152 + 12)) = 2
  BY DEF Two, Byte
<1>6. SameName(nm) \in Seq(Byte) /\ Len(SameName(nm)) = SameLength(nm)
  <2>1. CASE nm = <<>>
    BY <1>1, <1>4, <2>1 DEF SameName, SameLength
  <2>2. CASE nm # <<>>
    BY <1>5, <2>2 DEF SameName, SameLength
  <2> QED BY <2>1, <2>2
<1> QED BY <1>1, <1>2, <1>3, <1>4, <1>6 DEF FullName
-----------------------------------------------------------------------------
LEMMA TwoInARow ==
  ASSUME NEW x, NEW y
  PROVE  <<x>> \o <<y>> = <<x, y>> /\ <<>> \o <<y>> = <<y>>
<1> DEFINE S == {x, y}
<1>1. <<x>> \in Seq(S) /\ <<y>> \in Seq(S) /\ <<x, y>> \in Seq(S)
  OBVIOUS
<1>2. PICK a \in Seq(S), b \in Seq(S), c \in Seq(S) : a = <<x>> /\ b = <<y>> /\ c = <<x, y>>
  BY <1>1
<1>3. a \o b \in Seq(S)
  OBVIOUS
<1>4. Len(<<x>> \o <<y>>) = 2
  OBVIOUS
<1>5. (<<x>> \o <<y>>)[1] = x /\ (<<x>> \o <<y>>)[2] = y
  OBVIOUS
<1>6. Len(c) = 2 /\ c[1] = x /\ c[2] = y
  BY <1>2
<1>7. PICK d \in Seq(S) : d = <<x>> \o <<y>>
  BY <1>2, <1>3
<1> HIDE DEF S
<1>8. d = c
  <2>1. Len(d) = 2 /\ d[1] = c[1] /\ d[2] = c[2]
    BY <1>4, <1>5, <1>6, <1>7
  <2>2. \A j \in 1..2 : j = 1 \/ j = 2
    OBVIOUS
  <2>3. Len(d) = Len(c) /\ \A j \in 1..Len(d) : d[j] = c[j]
    BY <1>6, <2>1, <2>2, Zenon
  <2> QED BY <2>3, SeqEqual
<1> QED BY <1>2, <1>7, <1>8, ConcatEmptySeq

(* The header and the question.                                            *)
Question1(nm) == [name |-> nm, type |-> TXT]
Begun(n) == Write(EmptyBuilder, Header(n))
Asked1(nm, n) == Cat(Cat(Header(n), FullName(nm)), QuestionFields)

LEMMA BegunIs ==
  ASSUME NEW n \in {0, 1}
  PROVE  Begun(n).w = Header(n) /\ Begun(n).cache = <<>> /\ Begun(n).w \in Seq(Byte)
<1>1. PICK h \in Seq(Byte) : h = Header(n)
  BY HeaderIs
<1>2. <<>> \o h = h
  BY ConcatEmptySeq
<1> QED BY <1>1, <1>2 DEF Begun, Write, EmptyBuilder

LEMMA QuestionWritten ==
  ASSUME NEW nm \in Seq(Seq(Byte)), NEW n \in {0, 1}
  PROVE  LET b == WriteQuestion(Begun(n), Question1(nm)) IN
         /\ b.w = Asked1(nm, n)
         /\ nm # <<>> => nm \in DOMAIN b.cache /\ b.cache[nm] = 12
<1>1. WriteQuestion(Begun(n), Question1(nm)) = Write(WriteName(Begun(n), nm), QuestionFields)
  BY DEF WriteQuestion, Question1, QuestionFields
<1>2. WriteName(Begun(n), nm).w = Cat(Header(n), FullName(nm))
  <2>1. \A j \in DOMAIN nm : Suffix(nm, j) \notin DOMAIN Begun(n).cache
    BY BegunIs
  <2> QED BY <2>1, BegunIs, WriteNewName DEF FullName
<1>3. nm # <<>> => /\ nm \in DOMAIN WriteName(Begun(n), nm).cache
                   /\ WriteName(Begun(n), nm).cache[nm] = 12
  BY BegunIs, PlaceOfName, HeaderIs
<1> QED BY <1>1, <1>2, <1>3, NameThenFields DEF Asked1

LEMMA AskedType ==
  ASSUME NEW nm \in Seq(Seq(Byte)), NEW n \in {0, 1}
  PROVE  Asked1(nm, n) \in Seq(Byte) /\ Len(Asked1(nm, n)) = Len(Verbatim(nm)) + 17
<1>1. PICK h \in Seq(Byte), v \in Seq(Byte), e \in Seq(Byte) :
        h = Header(n) /\ v = FullName(nm) /\ e = QuestionFields
  BY HeaderIs, NameTypes, QuestionFieldsAre
<1>2. PICK hv \in Seq(Byte) : hv = Cat(h, v) /\ Len(hv) = Len(h) + Len(v)
  BY CatType
<1>3. Cat(hv, e) \in Seq(Byte) /\ Len(Cat(hv, e)) = Len(hv) + Len(e)
  BY CatType
<1>4. Len(h) = 12 /\ Len(e) = 4 /\ Len(v) = Len(Verbatim(nm)) + 1 /\ Len(Verbatim(nm)) \in Nat
  BY <1>1, HeaderIs, NameTypes, QuestionFieldsAre, VerbatimType, LenProperties
<1> QED BY <1>1, <1>2, <1>3, <1>4 DEF Asked1

(* The OPT record and the answer.                                          *)
LEMMA OptWritten ==
  ASSUME NEW b, b.w \in Seq(Byte)
  PROVE  WriteRR(b, OptRecord).w = Cat(Cat(b.w, <<0>>), OptFields)
<1>1. WriteRR(b, OptRecord) = Write(WriteName(b, <<>>), OptFields)
  <2>1. Len(<<>>) = 0
    OBVIOUS
  <2> QED BY <2>1 DEF WriteRR, OptRecord, OptFields
<1>2. PICK root \in Seq(Seq(Byte)) : root = <<>>
  BY EmptySeq
<1>3. DOMAIN root = {}
  BY <1>2
<1>4. WriteName(b, root).w = Cat(b.w, Cat(Verbatim(root), <<0>>))
  BY <1>3, WriteNewName
<1>5. Cat(<<>>, <<0>>) = <<0>>
  <2>1. <<0>> \in Seq(Byte)
    BY DEF Byte
  <2> QED BY <2>1, CatEmpty
<1>6. WriteName(b, <<>>).w = Cat(b.w, <<0>>)
  BY <1>2, <1>4, <1>5, VerbatimEmpty
<1> QED BY <1>1, <1>6, NameThenFields

LEMMA WriteNameAt12 ==
  ASSUME NEW b, b.w \in Seq(Byte), NEW nm \in Seq(Seq(Byte)), nm # <<>>,
         nm \in DOMAIN b.cache, b.cache[nm] = 12
  PROVE  WriteName(b, nm).w = Cat(b.w, Two(49152 + 12))
<1>1. b.cache[nm] < 16384
  OBVIOUS
<1>2. WriteName(b, nm).w = Cat(b.w, Two(49152 + b.cache[nm]))
  BY <1>1, WriteKnownName
<1> QED BY <1>2

LEMMA AnswerWritten ==
  ASSUME NEW b, b.w \in Seq(Byte), NEW nm \in Seq(Seq(Byte)), NEW d \in Seq(Byte),
         nm # <<>> => nm \in DOMAIN b.cache /\ b.cache[nm] = 12
  PROVE  WriteRR(b, [name |-> nm, type |-> TXT, data |-> d]).w
           = Cat(Cat(b.w, SameName(nm)), Cat(DataHead(Len(d)), d))
<1>1. WriteRR(b, [name |-> nm, type |-> TXT, data |-> d])
        = Write(WriteName(b, nm), Cat(DataHead(Len(d)), d))
  BY DEF WriteRR, DataHead, Cat
<1>2. WriteName(b, nm).w = Cat(b.w, SameName(nm))
  <2>1. CASE nm = <<>>
    <3>1. \A j \in DOMAIN nm : Suffix(nm, j) \notin DOMAIN b.cache
      BY <2>1
    <3>2. Cat(<<>>, <<0>>) = <<0>>
      <4>1. <<0>> \in Seq(Byte)
        BY DEF Byte
      <4> QED BY <4>1, CatEmpty
    <3>3. WriteName(b, nm).w = Cat(b.w, Cat(Verbatim(nm), <<0>>))
      BY <3>1, WriteNewName
    <3> QED BY <2>1, <3>2, <3>3, VerbatimEmpty DEF SameName
  <2>2. CASE nm # <<>>
    BY <2>2, WriteNameAt12 DEF SameName
  <2> QED BY <2>1, <2>2
<1> QED BY <1>1, <1>2, NameThenFields
-----------------------------------------------------------------------------
QueryOctets(nm) == Cat(Cat(Asked1(nm, 0), <<0>>), OptFields)
Answered(nm, d) == Cat(Cat(Asked1(nm, 1), SameName(nm)), Cat(DataHead(Len(d)), d))
ResponseOctets(nm, d) == Cat(Cat(Answered(nm, d), <<0>>), OptFields)

LEMMA QueryIs ==
  ASSUME NEW nm \in Seq(Seq(Byte))
  PROVE  WriteMessage(Query(nm)) = QueryOctets(nm)
<1> DEFINE b == WriteQuestion(Begun(0), Question1(nm))
<1>1. Len(<<Question1(nm)>>) = 1 /\ Len(<<>>) = 0 /\ Len(<<OptRecord>>) = 1
  OBVIOUS
<1>2. WriteMessage(Query(nm))
        = AllRRs(AllQuestions(Begun(0), <<Question1(nm)>>), <<>> \o <<OptRecord>>).w
  BY <1>1 DEF WriteMessage, AllRRs, AllQuestions, Query, Begun, Header, Question1
<1>3. WriteMessage(Query(nm)) = WriteRR(b, OptRecord).w
  BY <1>2, TwoInARow, OneQuestion, OneRR
<1>4. b.w = Asked1(nm, 0) /\ b.w \in Seq(Byte)
  BY QuestionWritten, AskedType
<1> HIDE DEF b
<1> QED BY <1>3, <1>4, OptWritten DEF QueryOctets

LEMMA ResponseIs ==
  ASSUME NEW nm \in Seq(Seq(Byte)), NEW ps, NEW lim,
         EncodeRDataTXT(Prefixed(Bundle(ps, lim))) \in Seq(Byte)
  PROVE  WriteMessage(Response(nm, ps, lim))
           = ResponseOctets(nm, EncodeRDataTXT(Prefixed(Bundle(ps, lim))))
<1> DEFINE d == EncodeRDataTXT(Prefixed(Bundle(ps, lim)))
           b == WriteQuestion(Begun(1), Question1(nm))
           rr == [name |-> nm, type |-> TXT, data |-> d]
<1>1. Len(<<Question1(nm)>>) = 1 /\ Len(<<rr>>) = 1 /\ Len(<<OptRecord>>) = 1
  OBVIOUS
<1>2. WriteMessage(Response(nm, ps, lim))
        = AllRRs(AllQuestions(Begun(1), <<Question1(nm)>>), <<rr>> \o <<OptRecord>>).w
  BY <1>1 DEF WriteMessage, AllRRs, AllQuestions, Response, Begun, Header, Question1
<1>3. WriteMessage(Response(nm, ps, lim)) = WriteRR(WriteRR(b, rr), OptRecord).w
  <2>1. AllQuestions(Begun(1), <<Question1(nm)>>) = b
    BY OneQuestion
  <2> HIDE DEF rr, b
  <2>2. <<rr>> \o <<OptRecord>> = <<rr, OptRecord>>
    BY TwoInARow
  <2>3. AllRRs(b, <<rr, OptRecord>>) = WriteRR(WriteRR(b, rr), OptRecord)
    BY TwoRRs
  <2> QED BY <1>2, <2>1, <2>2, <2>3, Zenon
<1>4. /\ b.w = Asked1(nm, 1) /\ b.w \in Seq(Byte)
      /\ nm # <<>> => nm \in DOMAIN b.cache /\ b.cache[nm] = 12
  BY QuestionWritten, AskedType
<1> HIDE DEF b, d
<1>5. WriteRR(b, rr).w = Cat(Cat(b.w, SameName(nm)), Cat(DataHead(Len(d)), d))
  BY <1>4, AnswerWritten DEF d
<1>6. Cat(Cat(b.w, SameName(nm)), Cat(DataHead(Len(d)), d)) \in Seq(Byte)
  <2>1. d \in Seq(Byte) /\ Len(d) \in Nat
    BY LenProperties DEF d
  <2>2. DataHead(Len(d)) \in Seq(Byte) /\ SameName(nm) \in Seq(Byte)
    BY <2>1, DataHeadIs, NameTypes
  <2>3. Cat(b.w, SameName(nm)) \in Seq(Byte) /\ Cat(DataHead(Len(d)), d) \in Seq(Byte)
    BY <1>4, <2>1, <2>2, CatType
  <2> QED BY <2>3, CatType
<1> HIDE DEF rr
<1>7. WriteRR(WriteRR(b, rr), OptRecord).w = Cat(Cat(WriteRR(b, rr).w, <<0>>), OptFields)
  BY <1>5, <1>6, OptWritten
<1> QED BY <1>3, <1>4, <1>5, <1>7 DEF ResponseOctets, Answered, d

LEMMA MessageTypes ==
  ASSUME NEW nm \in Seq(Seq(Byte)), NEW d \in Seq(Byte)
  PROVE  /\ Answered(nm, d) \in Seq(Byte)
         /\ Len(Answered(nm, d)) = Len(Verbatim(nm)) + 27 + Len(SameName(nm)) + Len(d)
         /\ ResponseOctets(nm, d) \in Seq(Byte)
         /\ Len(ResponseOctets(nm, d)) = Len(Answered(nm, d)) + 11
         /\ QueryOctets(nm) \in Seq(Byte)
         /\ Len(QueryOctets(nm)) = Len(Verbatim(nm)) + 28
<1>1. PICK q, a, s, h, z, o \in Seq(Byte) :
        /\ q = Asked1(nm, 0) /\ a = Asked1(nm, 1) /\ s = SameName(nm)
        /\ h = DataHead(Len(d)) /\ z = <<0>> /\ o = OptFields
  <2>1. <<0>> \in Seq(Byte)
    BY DEF Byte
  <2> QED BY <2>1, AskedType, NameTypes, DataHeadIs, OptFieldsAre, LenProperties
<1>2. PICK v \in Nat : v = Len(Verbatim(nm))
  BY VerbatimType, LenProperties
<1>3. Len(q) = v + 17 /\ Len(a) = v + 17 /\ Len(h) = 10 /\ Len(z) = 1 /\ Len(o) = 10
  BY <1>1, <1>2, AskedType, DataHeadIs, OptFieldsAre, LenProperties
<1>4. Len(d) \in Nat /\ Len(s) \in Nat
  BY LenProperties
<1>5. /\ \E x \in Seq(Byte) : x = Cat(a, s) /\ Len(x) = Len(a) + Len(s)
      /\ \E x \in Seq(Byte) : x = Cat(h, d) /\ Len(x) = Len(h) + Len(d)
      /\ \E x \in Seq(Byte) : x = Cat(q, z) /\ Len(x) = Len(q) + Len(z)
  BY CatType
<1>a. PICK as \in Seq(Byte) : as = Cat(a, s) /\ Len(as) = Len(a) + Len(s)
  BY <1>5
<1>b. PICK hd \in Seq(Byte) : hd = Cat(h, d) /\ Len(hd) = Len(h) + Len(d)
  BY <1>5
<1>c. PICK qz \in Seq(Byte) : qz = Cat(q, z) /\ Len(qz) = Len(q) + Len(z)
  BY <1>5
<1>6. PICK all \in Seq(Byte) : all = Cat(as, hd) /\ Len(all) = Len(as) + Len(hd)
  BY CatType
<1>d. PICK qo \in Seq(Byte) : qo = Cat(qz, o) /\ Len(qo) = Len(qz) + Len(o)
  BY CatType
<1>7. PICK az \in Seq(Byte) : az = Cat(all, z) /\ Len(az) = Len(all) + Len(z)
  BY CatType
<1>8. PICK ao \in Seq(Byte) : ao = Cat(az, o) /\ Len(ao) = Len(az) + Len(o)
  BY CatType
<1>9. all = Answered(nm, d) /\ ao = ResponseOctets(nm, d) /\ qo = QueryOctets(nm)
  BY <1>1, <1>a, <1>b, <1>c, <1>d, <1>6, <1>7, <1>8 DEF Answered, ResponseOctets, QueryOctets
<1>10. Len(all) = v + 27 + Len(s) + Len(d) /\ Len(ao) = Len(all) + 11 /\ Len(qo) = v + 28
  BY <1>3, <1>4, <1>a, <1>b, <1>c, <1>d, <1>6, <1>7, <1>8
<1> QED BY <1>1, <1>2, <1>9, <1>10
-----------------------------------------------------------------------------
LEMMA SeqSubset ==
  ASSUME NEW X, NEW Y, X \subseteq Y
  PROVE  Seq(X) \subseteq Seq(Y)
<1> SUFFICES ASSUME NEW q \in Seq(X) PROVE q \in Seq(Y)
  OBVIOUS
<1>1. Len(q) \in Nat /\ q \in [1..Len(q) -> X]
  BY LenProperties
<1>2. q \in [1..Len(q) -> Y]
  BY <1>1
<1>3. \E n \in Nat : q \in [1..n -> Y]
  BY <1>1, <1>2
<1> QED BY <1>3, SeqDef
-----------------------------------------------------------------------------
(* A text, cut into runs of 63 or 255 octets.                              *)
Runs == {63, 255}
Cut(len, n, k) == IF n * k < len THEN n * k ELSE len
Count(len, n) == (len + n - 1) \div n

LEMMA Cuts ==
  ASSUME NEW len \in Nat, NEW n \in Runs
  PROVE  /\ Count(len, n) \in Nat
         /\ Cut(len, n, 0) = 0
         /\ Cut(len, n, Count(len, n)) = len
         /\ \A k \in 1..Count(len, n) :
              /\ n * (k - 1) = Cut(len, n, k - 1)
              /\ Cut(len, n, k) \in Nat /\ Cut(len, n, k - 1) \in Nat
              /\ Cut(len, n, k) <= len
              /\ Cut(len, n, k) - Cut(len, n, k - 1) \in 1..n
         /\ n * Count(len, n) < len + n
<1>1. CASE n = 63
  <2>1. PICK c \in Nat : c = (len + 63 - 1) \div 63 /\ 63 * c < len + 63 /\ 63 * c >= len
    BY SMT
  <2>2. ASSUME NEW k \in 1..c
        PROVE  /\ 63 * (k - 1) < len
               /\ Cut(len, 63, k) \in Nat /\ Cut(len, 63, k - 1) \in Nat
               /\ Cut(len, 63, k) <= len
               /\ Cut(len, 63, k) - Cut(len, 63, k - 1) \in 1..63
    BY <2>1, SMT DEF Cut
  <2> QED BY <1>1, <2>1, <2>2 DEF Cut, Count
<1>2. CASE n = 255
  <2>1. PICK c \in Nat : c = (len + 255 - 1) \div 255 /\ 255 * c < len + 255 /\ 255 * c >= len
    BY SMT
  <2>2. ASSUME NEW k \in 1..c
        PROVE  /\ 255 * (k - 1) < len
               /\ Cut(len, 255, k) \in Nat /\ Cut(len, 255, k - 1) \in Nat
               /\ Cut(len, 255, k) <= len
               /\ Cut(len, 255, k) - Cut(len, 255, k - 1) \in 1..255
    BY <2>1, SMT DEF Cut
  <2> QED BY <1>2, <2>1, <2>2 DEF Cut, Count
<1> QED BY <1>1, <1>2 DEF Runs

LEMMA EachCut ==
  ASSUME NEW len \in Nat, NEW n \in Runs, NEW k \in 1..Count(len, n)
  PROVE  /\ n * (k - 1) = Cut(len, n, k - 1)
         /\ Cut(len, n, k) \in Nat /\ Cut(len, n, k - 1) \in Nat
         /\ Cut(len, n, k - 1) < Cut(len, n, k) /\ Cut(len, n, k) <= len
         /\ Cut(len, n, k) - Cut(len, n, k - 1) <= n
<1>1. n \in Nat
  BY DEF Runs
<1>2. /\ n * (k - 1) = Cut(len, n, k - 1)
      /\ Cut(len, n, k) \in Nat /\ Cut(len, n, k - 1) \in Nat
      /\ Cut(len, n, k) <= len
      /\ Cut(len, n, k) - Cut(len, n, k - 1) \in 1..n
  BY Cuts
<1> QED BY <1>1, <1>2

LEMMA ChunksAre ==
  ASSUME NEW p \in Seq(Byte), NEW n \in Runs
  PROVE  /\ Chunks(p, n) \in Seq(Seq(Byte)) /\ Len(Chunks(p, n)) = Count(Len(p), n)
         /\ \A k \in 1..Count(Len(p), n) :
              /\ Chunks(p, n)[k] = SubSeq(p, Cut(Len(p), n, k - 1) + 1, Cut(Len(p), n, k))
              /\ Len(Chunks(p, n)[k]) = Cut(Len(p), n, k) - Cut(Len(p), n, k - 1)
<1>1. Len(p) \in Nat
  BY LenProperties
<1> DEFINE c == Count(Len(p), n)
           E(k) == SubSeq(p, Cut(Len(p), n, k - 1) + 1, Cut(Len(p), n, k))
<1>2. c \in Nat
  BY <1>1, Cuts
<1>3. Chunks(p, n) = [k \in 1..c |-> SubSeq(p, n * (k - 1) + 1, Cut(Len(p), n, k))]
  BY DEF Chunks, Count, Cut
<1>4. Chunks(p, n) = [k \in 1..c |-> E(k)]
  <2>1. \A k \in 1..c : n * (k - 1) = Cut(Len(p), n, k - 1)
    BY <1>1, EachCut
  <2> QED BY <1>3, <2>1
<1>5. ASSUME NEW k \in 1..c
      PROVE  E(k) \in Seq(Byte) /\ Len(E(k)) = Cut(Len(p), n, k) - Cut(Len(p), n, k - 1)
  <2>1. PICK i \in Nat, j \in Nat :
          i = Cut(Len(p), n, k - 1) /\ j = Cut(Len(p), n, k) /\ i < j /\ j <= Len(p)
    BY <1>1, EachCut
  <2>2. \A m \in (i + 1)..j : p[m] \in Byte
    BY <1>1, <2>1, ElementOfSeq
  <2>3. /\ SubSeq(p, i + 1, j) \in Seq(Byte)
        /\ Len(SubSeq(p, i + 1, j)) = IF i + 1 <= j THEN j - (i + 1) + 1 ELSE 0
    BY <2>2, SubSeqProperties
  <2>4. (IF i + 1 <= j THEN j - (i + 1) + 1 ELSE 0) = j - i
    BY <2>1
  <2> QED BY <2>1, <2>3, <2>4
<1> HIDE DEF c, E
<1>6. Chunks(p, n) \in Seq(Seq(Byte)) /\ Len(Chunks(p, n)) = c
  BY <1>2, <1>4, <1>5
<1>7. \A k \in 1..c : Chunks(p, n)[k] = E(k)
  BY <1>4
<1> QED BY <1>5, <1>6, <1>7 DEF c, E

(* With a length before each run, it takes an octet more for each.         *)
LEMMA ChunkEnds ==
  ASSUME NEW p \in Seq(Byte), NEW n \in Runs, NEW k \in 0..Count(Len(p), n)
  PROVE  NameEnd(Chunks(p, n), k) = Cut(Len(p), n, k) + k
<1>0. PICK cc \in Seq(Seq(Byte)), c \in Nat :
        cc = Chunks(p, n) /\ c = Count(Len(p), n) /\ Len(cc) = c /\ Len(p) \in Nat
  BY ChunksAre, Cuts, LenProperties
<1> DEFINE S == {j \in Nat : j <= c => NameEnd(cc, j) = Cut(Len(p), n, j) + j}
<1>1. 0 \in S
  <2>1. Foremost(cc, 0) = <<>>
    <3>1. 0 \in 0..Len(cc)
      BY <1>0
    <3> QED BY <3>1, Fronts
  <2>2. NameEnd(cc, 0) = 0
    BY <2>1, VerbatimEmpty, EmptySeq DEF NameEnd
  <2> QED BY <1>0, <2>2, Cuts
<1>2. ASSUME NEW j \in Nat, j \in S PROVE j + 1 \in S
  <2> SUFFICES ASSUME j + 1 <= c PROVE NameEnd(cc, j + 1) = Cut(Len(p), n, j + 1) + (j + 1)
    OBVIOUS
  <2>1. j \in 0..Len(cc) /\ j < Len(cc) /\ j + 1 \in 1..c /\ (j + 1) - 1 = j
    BY <1>0
  <2>2. NameEnd(cc, j + 1) = NameEnd(cc, j) + Len(cc[j + 1]) + 1
    BY <2>1, NextLabel
  <2>3. Len(cc[j + 1]) = Cut(Len(p), n, j + 1) - Cut(Len(p), n, j)
    BY <1>0, <2>1, ChunksAre
  <2>4. Cut(Len(p), n, j + 1) \in Nat /\ Cut(Len(p), n, j) \in Nat
    BY <1>0, <2>1, EachCut
  <2>5. NameEnd(cc, j) = Cut(Len(p), n, j) + j
    BY <1>2, <2>1, <1>0
  <2> QED BY <2>2, <2>3, <2>4, <2>5
<1>3. Nat \subseteq S
  <2> HIDE DEF S
  <2> QED BY <1>1, <1>2, SetInduction
<1> QED BY <1>0, <1>3

LEMMA ChunksVerbatim ==
  ASSUME NEW p \in Seq(Byte), NEW n \in Runs
  PROVE  /\ Verbatim(Chunks(p, n)) \in Seq(Byte)
         /\ Len(Verbatim(Chunks(p, n))) = Len(p) + Count(Len(p), n)
<1>1. Len(p) \in Nat /\ Count(Len(p), n) \in 0..Count(Len(p), n)
  BY LenProperties, Cuts
<1>2. Foremost(Chunks(p, n), Count(Len(p), n)) = Chunks(p, n)
  <2>1. PICK cc \in Seq(Seq(Byte)) : cc = Chunks(p, n) /\ Len(cc) = Count(Len(p), n)
    BY ChunksAre
  <2> QED BY <1>1, <2>1, Fronts
<1>3. NameEnd(Chunks(p, n), Count(Len(p), n)) = Cut(Len(p), n, Count(Len(p), n)) + Count(Len(p), n)
  BY <1>1, ChunkEnds
<1> QED BY <1>1, <1>2, <1>3, ChunksAre, VerbatimType, Cuts DEF NameEnd

(* EncodeRDataTXT writes such runs.                                        *)
LEMMA Encoded ==
  ASSUME NEW p \in Seq(Byte)
  PROVE  /\ EncodeRDataTXT(p) = IF p = <<>> THEN <<0>> ELSE Verbatim(Chunks(p, 255))
         /\ EncodeRDataTXT(p) \in Seq(Byte)
         /\ Len(EncodeRDataTXT(p)) = EncodedLength(Len(p))
<1>1. EncodeRDataTXT(p) = IF p = <<>> THEN <<0>> ELSE Verbatim(Chunks(p, 255))
  BY DEF EncodeRDataTXT, Verbatim
<1>2. CASE p = <<>>
  <2>1. EncodeRDataTXT(p) = <<0>>
    BY <1>1, <1>2
  <2> QED BY <1>1, <1>2, <2>1 DEF EncodedLength, Byte
<1>3. CASE p # <<>>
  <2>1. Len(p) \in Nat /\ Len(p) # 0
    BY <1>3, LenProperties, EmptySeq
  <2>2. Len(p) + 255 - 1 = Len(p) + 254
    BY <2>1
  <2>3. EncodedLength(Len(p)) = Len(p) + Count(Len(p), 255)
    BY <2>1, <2>2 DEF EncodedLength, Count
  <2>4. /\ Verbatim(Chunks(p, 255)) \in Seq(Byte)
        /\ Len(Verbatim(Chunks(p, 255))) = Len(p) + Count(Len(p), 255)
    <3>1. 255 \in Runs
      BY DEF Runs
    <3> QED BY <3>1, ChunksVerbatim
  <2> QED BY <1>1, <1>3, <2>3, <2>4
<1> QED BY <1>2, <1>3
-----------------------------------------------------------------------------
(* What fits into a response.                                              *)
LEMMA MaxPayloadIs ==
  ASSUME NEW lim \in Nat
  PROVE  /\ MaxPayload(lim) \in 0..(Top - 1)
         /\ MaxPayload(lim) = 0 \/ FilledSize(MaxPayload(lim)) <= lim
<1> DEFINE T == {n \in 0..(Top - 1) : n + 1 = Top \/ FilledSize(n + 1) > lim}
<1>1. Top - 1 \in T
  BY DEF Top
<1>2. PICK m \in T : \A k \in T : m <= k
  <2>1. T \in SUBSET Nat /\ T # {}
    BY <1>1
  <2> HIDE DEF T
  <2> QED BY <2>1, Least
<1>3. m = 0 \/ FilledSize(m) <= lim
  <2> SUFFICES ASSUME m # 0 PROVE FilledSize(m) <= lim
    OBVIOUS
  <2>1. m \in Nat /\ m - 1 \in 0..(Top - 1) /\ (m - 1) + 1 = m /\ ~(m <= m - 1) /\ m < Top
    BY TopIsNumber
  <2>2. m - 1 \notin T
    BY <1>2, <2>1
  <2>3. ~(FilledSize(m) > lim)
    BY <2>1, <2>2
  <2>4. FilledSize(m) \in Nat
    BY <2>1, SizeGrows
  <2> QED BY <2>3, <2>4
<1>4. MaxPayload(lim) = m
  BY <1>3, MaxPayloadUnique
<1> QED BY <1>3, <1>4

(* The packets with their lengths.                                         *)
LengthsIn(ps) == [i \in DOMAIN ps |-> Two(Len(ps[i])) \o ps[i]]
Prefixed1(q) == Cat(Two(Len(q)), q)

LEMMA Prefixed1Type ==
  ASSUME NEW q \in Seq(Byte)
  PROVE  Prefixed1(q) \in Seq(Byte) /\ Len(Prefixed1(q)) = Len(q) + 2
<1>1. Len(q) \in Nat
  BY LenProperties
<1>2. PICK t \in Seq(Byte) : t = Two(Len(q)) /\ Len(t) = 2
  BY <1>1, TwoType
<1>3. Cat(t, q) \in Seq(Byte) /\ Len(Cat(t, q)) = Len(t) + Len(q)
  BY CatType
<1> QED BY <1>1, <1>2, <1>3 DEF Prefixed1

LEMMA LengthsInType ==
  ASSUME NEW ps \in Seq(Seq(Byte))
  PROVE  /\ LengthsIn(ps) \in Seq(Seq(Byte)) /\ Len(LengthsIn(ps)) = Len(ps)
         /\ \A j \in 1..Len(ps) : LengthsIn(ps)[j] = Prefixed1(ps[j])
<1>1. Len(ps) \in Nat /\ DOMAIN ps = 1..Len(ps) /\ \A j \in 1..Len(ps) : ps[j] \in Seq(Byte)
  BY LenProperties, ElementOfSeq
<1>2. LengthsIn(ps) = [j \in 1..Len(ps) |-> Prefixed1(ps[j])]
  BY <1>1 DEF LengthsIn, Prefixed1, Cat
<1>3. \A j \in 1..Len(ps) : Prefixed1(ps[j]) \in Seq(Byte)
  BY <1>1, Prefixed1Type
<1>4. [j \in 1..Len(ps) |-> Prefixed1(ps[j])] \in [1..Len(ps) -> Seq(Byte)]
  BY <1>3
<1> QED BY <1>1, <1>2, <1>4

LEMMA PrefixedType ==
  ASSUME NEW ps \in Seq(Seq(Byte))
  PROVE  Prefixed(ps) \in Seq(Byte)
<1>1. Prefixed(ps) = FlattenSeq(LengthsIn(ps))
  BY DEF Prefixed, LengthsIn
<1> QED BY <1>1, LengthsInType, FlattenType

LEMMA PrefixedEmpty == Prefixed(<<>>) = <<>>
<1>1. LengthsIn(<<>>) = <<>>
  BY DEF LengthsIn
<1> QED BY <1>1, FlattenEmpty DEF Prefixed, LengthsIn

LEMMA PrefixedAppend ==
  ASSUME NEW ps \in Seq(Seq(Byte)), NEW q \in Seq(Byte)
  PROVE  Prefixed(Append(ps, q)) = Cat(Prefixed(ps), Prefixed1(q))
<1>1. PICK pp \in Seq(Seq(Byte)) : pp = Append(ps, q)
  BY AppendProperties
<1>2. /\ Len(ps) \in Nat /\ Len(pp) = Len(ps) + 1
      /\ \A j \in 1..Len(ps) : pp[j] = ps[j]
      /\ pp[Len(ps) + 1] = q
  BY <1>1, LenProperties, AppendProperties
<1>3. /\ LengthsIn(pp) \in Seq(Seq(Byte)) /\ LengthsIn(ps) \in Seq(Seq(Byte))
      /\ Len(LengthsIn(pp)) = Len(ps) + 1 /\ Len(LengthsIn(ps)) = Len(ps)
      /\ \A j \in 1..Len(pp) : LengthsIn(pp)[j] = Prefixed1(pp[j])
      /\ \A j \in 1..Len(ps) : LengthsIn(ps)[j] = Prefixed1(ps[j])
  BY <1>2, LengthsInType
<1>4. PICK ss, tt \in Seq(Seq(Byte)), x \in Seq(Byte) :
        ss = LengthsIn(ps) /\ tt = LengthsIn(pp) /\ x = Prefixed1(q)
  BY <1>3, Prefixed1Type
<1>5. tt = Append(ss, x)
  <2>0. /\ Append(ss, x) \in Seq(Seq(Byte)) /\ Len(Append(ss, x)) = Len(ss) + 1
        /\ \A j \in 1..Len(ss) : Append(ss, x)[j] = ss[j]
        /\ Append(ss, x)[Len(ss) + 1] = x
    BY AppendProperties
  <2>1. PICK uu \in Seq(Seq(Byte)) :
          /\ uu = Append(ss, x) /\ Len(uu) = Len(ss) + 1
          /\ \A j \in 1..Len(ss) : uu[j] = ss[j]
          /\ uu[Len(ss) + 1] = x
    BY <2>0
  <2>2. Len(tt) = Len(uu)
    BY <1>3, <1>4, <2>1
  <2>3. ASSUME NEW j \in 1..Len(tt) PROVE tt[j] = uu[j]
    <3>1. CASE j = Len(ps) + 1
      <4>1. tt[j] = Prefixed1(pp[j]) /\ pp[j] = q
        BY <1>2, <1>3, <1>4, <3>1
      <4>2. uu[j] = x
        BY <1>3, <1>4, <2>1, <3>1
      <4> QED BY <1>4, <4>1, <4>2
    <3>2. CASE j \in 1..Len(ps)
      <4>1. tt[j] = Prefixed1(pp[j]) /\ ss[j] = Prefixed1(ps[j]) /\ pp[j] = ps[j]
        BY <1>2, <1>3, <1>4, <3>2
      <4>2. uu[j] = ss[j]
        BY <1>3, <1>4, <2>1, <3>2
      <4> QED BY <4>1, <4>2
    <3> QED BY <1>2, <1>3, <1>4, <3>1, <3>2
  <2> QED BY <2>1, <2>2, <2>3, SeqEqual
<1>6. Prefixed(ps) = FlattenSeq(ss) /\ Prefixed(pp) = FlattenSeq(tt)
  BY <1>4 DEF Prefixed, LengthsIn
<1>7. FlattenSeq(Append(ss, x)) = Cat(FlattenSeq(ss), x)
  BY FlattenAppend
<1> QED BY <1>1, <1>4, <1>5, <1>6, <1>7

(* The bundle is the longest of those that fit, and never empty.           *)
Fits(ps, lim) == {k \in DOMAIN ps : k = 1 \/ Len(Prefixed(Foremost(ps, k))) <= MaxPayload(lim)}

LEMMA BundleIs ==
  ASSUME NEW ps \in Seq(Seq(Byte)), ps # <<>>, NEW lim \in Nat
  PROVE  \E k \in 1..Len(ps) : /\ k \in Fits(ps, lim)
                               /\ Bundle(ps, lim) = Foremost(ps, k)
<1>1. Len(ps) \in Nat /\ Len(ps) >= 1 /\ DOMAIN ps = 1..Len(ps)
  BY LenProperties, EmptySeq
<1> DEFINE F == Fits(ps, lim)
<1>2. 1 \in F /\ F \subseteq 1..Len(ps)
  BY <1>1 DEF Fits
<1>3. \E k \in F : \A i \in F : i <= k
  <2> HIDE DEF F
  <2> DEFINE R == {r \in Nat : Len(ps) - r \in F}
  <2>1. Len(ps) - 1 \in R
    BY <1>1, <1>2
  <2>2. PICK m \in R : \A r \in R : m <= r
    <3> HIDE DEF R
    <3>1. R \in SUBSET Nat
      BY DEF R
    <3> QED BY <2>1, <3>1, Least
  <2>3. ASSUME NEW i \in F PROVE i <= Len(ps) - m
    <3>1. i \in 1..Len(ps)
      BY <1>2
    <3>2. Len(ps) - i \in Nat /\ Len(ps) - (Len(ps) - i) = i
      BY <1>1, <3>1
    <3>3. Len(ps) - i \in R
      BY <3>2
    <3>4. m <= Len(ps) - i /\ m \in Nat
      BY <2>2, <3>3
    <3> QED BY <1>1, <3>1, <3>4
  <2>4. Len(ps) - m \in F
    BY <2>2
  <2> QED BY <2>3, <2>4
<1>4. Bundle(ps, lim) = Foremost(ps, CHOOSE k \in F : \A i \in F : i <= k)
  BY DEF Bundle, Fits, Foremost
<1> HIDE DEF F
<1>5. PICK k \in F : k = CHOOSE j \in F : \A i \in F : i <= j
  BY <1>3
<1> QED BY <1>2, <1>4, <1>5 DEF F

(* A response of packets within the limit is as long as it may be, or      *)
(* shorter, because its names take no more than what was set aside.        *)
LEMMA LegalName ==
  ASSUME NEW nm, IsName(nm)
  PROVE  /\ nm \in Seq(Seq(Byte)) /\ Len(Verbatim(nm)) \in Nat /\ Len(Verbatim(nm)) <= 254
         /\ \A j \in 1..Len(nm) : 1 <= Len(nm[j]) /\ Len(nm[j]) <= 63
<1>1. nm \in Seq(Seq(Byte))
  <2>1. Octets \subseteq Byte
    BY DEF Octets, Byte
  <2>2. Seq(Octets) \subseteq Seq(Byte)
    BY <2>1, SeqSubset
  <2>3. Seq(Seq(Octets)) \subseteq Seq(Seq(Byte))
    BY <2>2, SeqSubset
  <2> QED BY <2>3 DEF IsName
<1>2. NewName(nm) = "ok"
  BY DEF IsName
<1>3. PICK v \in Nat : v = Len(Verbatim(nm))
  BY <1>1, VerbatimType, LenProperties
<1>4. v + 1 <= 255
  BY <1>2, <1>3 DEF NewName, MaxName
<1>5. ASSUME NEW j \in 1..Len(nm) PROVE 1 <= Len(nm[j]) /\ Len(nm[j]) <= 63
  <2>1. nm[j] \in Seq(Byte) /\ j \in DOMAIN nm
    BY <1>1, ElementOfSeq, LenProperties
  <2>2. nm[j] # <<>> /\ ~(Len(nm[j]) > 63)
    BY <1>2, <2>1 DEF NewName, MaxLabel
  <2>3. PICK l \in Seq(Byte) : l = nm[j]
    BY <2>1
  <2>4. PICK n \in Nat : n = Len(l) /\ n # 0
    BY <2>2, <2>3, LenProperties, EmptySeq
  <2> QED BY <2>2, <2>3, <2>4
<1>6. Len(Verbatim(nm)) \in Nat /\ Len(Verbatim(nm)) <= 254
  BY <1>3, <1>4
<1> QED BY <1>1, <1>5, <1>6

Asks(j, nm, ps, lim) ==
  /\ nm = j.name /\ ps = j.packets /\ lim = j.limit
  /\ IsName(nm) /\ Len(Verbatim(nm)) \in Nat /\ Len(Verbatim(nm)) <= 254
  /\ ps # <<>>
  /\ \A k \in 1..Len(ps) : EncodedLength(Len(ps[k]) + 2) < 65536

LEMMA ResponseJob ==
  ASSUME NEW j, IsJob(j), j.kind = "response"
  PROVE  \E nm \in Seq(Seq(Byte)), ps \in Seq(Seq(Byte)), lim \in Nat : Asks(j, nm, ps, lim)
<1>1. /\ IsName(j.name) /\ j.packets \in Seq(Seq(Octets)) /\ j.packets # <<>>
      /\ j.limit \in Numbers16
      /\ \A k \in DOMAIN j.packets : EncodedLength(Len(j.packets[k]) + 2) < 65536
  BY DEF IsJob
<1>2. Seq(Seq(Octets)) \subseteq Seq(Seq(Byte))
  <2>1. Octets \subseteq Byte
    BY DEF Octets, Byte
  <2>2. Seq(Octets) \subseteq Seq(Byte)
    BY <2>1, SeqSubset
  <2> QED BY <2>2, SeqSubset
<1>3. j.packets \in Seq(Seq(Byte))
  BY <1>1, <1>2
<1>4. PICK ps \in Seq(Seq(Byte)) :
        /\ ps = j.packets /\ ps # <<>>
        /\ \A k \in DOMAIN ps : EncodedLength(Len(ps[k]) + 2) < 65536
  BY <1>1, <1>3
<1>5. DOMAIN ps = 1..Len(ps)
  BY LenProperties
<1>6. PICK lim \in Nat : lim = j.limit
  <2>1. Numbers16 \subseteq Nat
    BY DEF Numbers16
  <2>2. j.limit \in Numbers16
    BY <1>1
  <2>3. j.limit \in Nat
    BY <2>1, <2>2, Zenon
  <2> QED BY <2>3
<1>7. PICK nm \in Seq(Seq(Byte)) :
        nm = j.name /\ IsName(nm) /\ Len(Verbatim(nm)) \in Nat /\ Len(Verbatim(nm)) <= 254
  BY <1>1, LegalName
<1>8. \A k \in 1..Len(ps) : EncodedLength(Len(ps[k]) + 2) < 65536
  <2> TAKE k \in 1..Len(ps)
  <2>1. k \in DOMAIN ps
    BY <1>5
  <2> QED BY <1>4, <2>1
<1>9. nm = j.name /\ ps = j.packets /\ lim = j.limit /\ ps # <<>>
  BY <1>4, <1>6, <1>7
<1>10. IsName(nm) /\ Len(Verbatim(nm)) \in Nat /\ Len(Verbatim(nm)) <= 254
  BY <1>7
<1>11. Asks(j, nm, ps, lim)
  BY <1>8, <1>9, <1>10 DEF Asks
<1> QED BY <1>11

Sent1(j) == EncodeRDataTXT(Prefixed(Bundle(j.packets, j.limit)))

LEMMA BundleType ==
  ASSUME NEW ps \in Seq(Seq(Byte)), ps # <<>>, NEW lim \in Nat
  PROVE  Bundle(ps, lim) \in Seq(Seq(Byte)) /\ Prefixed(Bundle(ps, lim)) \in Seq(Byte)
<1>1. PICK k \in 1..Len(ps) : Bundle(ps, lim) = Foremost(ps, k)
  BY BundleIs
<1>2. k \in 0..Len(ps)
  OBVIOUS
<1>3. Foremost(ps, k) \in Seq(Seq(Byte))
  BY <1>2, Fronts
<1> QED BY <1>1, <1>3, PrefixedType

LEMMA WrittenResponse ==
  ASSUME NEW j, IsJob(j), j.kind = "response"
  PROVE  Sent1(j) \in Seq(Byte) /\ Written(j) = ResponseOctets(j.name, Sent1(j))
<1>0. PICK nm \in Seq(Seq(Byte)), ps \in Seq(Seq(Byte)), lim \in Nat : Asks(j, nm, ps, lim)
  BY ResponseJob
<1>1. /\ nm = j.name /\ ps = j.packets /\ lim = j.limit /\ ps # <<>>
      /\ Len(Verbatim(nm)) \in Nat /\ Len(Verbatim(nm)) <= 254
  BY <1>0 DEF Asks
<1>2. PICK p \in Seq(Byte) : p = Prefixed(Bundle(ps, lim))
  BY <1>1, BundleType
<1>3. EncodeRDataTXT(p) \in Seq(Byte)
  BY Encoded
<1>4. WriteMessage(Response(nm, ps, lim))
        = ResponseOctets(nm, EncodeRDataTXT(Prefixed(Bundle(ps, lim))))
  BY <1>2, <1>3, ResponseIs
<1>5. Written(j) = WriteMessage(Response(j.name, j.packets, j.limit))
  BY DEF Written
<1> QED BY <1>1, <1>2, <1>3, <1>4, <1>5 DEF Sent1

LEMMA Fit ==
  ASSUME NEW j, IsJob(j), j.kind = "response", Len(j.packets[1]) + 2 <= MaxPayload(j.limit)
  PROVE  Len(Written(j)) <= j.limit
<1>0. PICK nm \in Seq(Seq(Byte)), ps \in Seq(Seq(Byte)), lim \in Nat : Asks(j, nm, ps, lim)
  BY ResponseJob
<1>1. /\ nm = j.name /\ ps = j.packets /\ lim = j.limit /\ ps # <<>>
      /\ Len(Verbatim(nm)) \in Nat /\ Len(Verbatim(nm)) <= 254
  BY <1>0 DEF Asks
<1>2. PICK k \in 1..Len(ps) : k \in Fits(ps, lim) /\ Bundle(ps, lim) = Foremost(ps, k)
  BY <1>1, BundleIs
<1>3. PICK p \in Seq(Byte) : p = Prefixed(Bundle(ps, lim))
  BY <1>1, BundleType
<1>4. Len(p) <= MaxPayload(lim) /\ Len(p) \in Nat
  <2>1. CASE k = 1
    <3>1. 0 \in 0..Len(ps) /\ 0 < Len(ps) /\ 0 + 1 = 1
      BY <1>1, LenProperties, EmptySeq
    <3>2. Foremost(ps, 1) = Append(<<>>, ps[1]) /\ ps[1] \in Seq(Byte)
      <4>1. Foremost(ps, 0 + 1) = Append(Foremost(ps, 0), ps[0 + 1]) /\ ps[0 + 1] \in Seq(Byte)
        BY <3>1, Fronts
      <4>2. Foremost(ps, 0) = <<>>
        BY <3>1, Fronts
      <4> QED BY <3>1, <4>1, <4>2
    <3>3. Prefixed(Append(<<>>, ps[1])) = Cat(Prefixed(<<>>), Prefixed1(ps[1]))
      BY <3>2, EmptySeq, PrefixedAppend
    <3>4. p = Prefixed1(ps[1])
      BY <1>2, <1>3, <2>1, <3>2, <3>3, PrefixedEmpty, CatEmpty, Prefixed1Type
    <3> QED BY <1>1, <3>2, <3>4, Prefixed1Type, LenProperties
  <2>2. CASE k # 1
    BY <1>2, <1>3, <2>2, LenProperties DEF Fits
  <2> QED BY <2>1, <2>2
<1>5. Len(p) # 0
  <2>1. k \in 0..Len(ps) /\ k - 1 \in 0..Len(ps) /\ k - 1 < Len(ps) /\ (k - 1) + 1 = k
    BY LenProperties
  <2>2. PICK q \in Seq(Seq(Byte)), x \in Seq(Byte) : Foremost(ps, k) = Append(q, x)
    <3>1. /\ Foremost(ps, (k - 1) + 1) = Append(Foremost(ps, k - 1), ps[(k - 1) + 1])
          /\ ps[(k - 1) + 1] \in Seq(Byte) /\ Foremost(ps, k - 1) \in Seq(Seq(Byte))
      BY <2>1, Fronts
    <3> QED BY <2>1, <3>1
  <2>3. p = Cat(Prefixed(q), Prefixed1(x))
    BY <1>2, <1>3, <2>2, PrefixedAppend
  <2>4. PICK y, z \in Seq(Byte) : y = Prefixed(q) /\ z = Prefixed1(x) /\ Len(z) = Len(x) + 2
    BY PrefixedType, Prefixed1Type
  <2>5. Len(Cat(y, z)) = Len(y) + Len(z)
    BY CatType
  <2>6. Len(y) \in Nat /\ Len(x) \in Nat
    BY LenProperties
  <2> QED BY <2>3, <2>4, <2>5, <2>6
<1>6. FilledSize(Len(p)) <= lim
  <2>1. MaxPayload(lim) \in Nat /\ FilledSize(MaxPayload(lim)) <= lim
    BY <1>4, <1>5, MaxPayloadIs, TopIsNumber
  <2>2. /\ FilledSize(Len(p)) \in Nat /\ FilledSize(MaxPayload(lim)) \in Nat
        /\ FilledSize(Len(p)) <= FilledSize(MaxPayload(lim))
    BY <1>4, <2>1, SizeGrows
  <2> QED BY <2>1, <2>2
<1>7. PICK d \in Seq(Byte) : d = EncodeRDataTXT(p) /\ Len(d) = EncodedLength(Len(p))
  BY Encoded
<1>8. Written(j) = ResponseOctets(nm, d)
  BY <1>1, <1>3, <1>7, WrittenResponse DEF Sent1
<1>9. PICK s \in Nat : s = Len(SameName(nm)) /\ s <= 2
  <2>1. SameLength(nm) \in Nat /\ SameLength(nm) <= 2
    BY DEF SameLength
  <2> QED BY <2>1, NameTypes
<1>10. PICK v \in Nat : v = Len(Verbatim(nm)) /\ v <= 254
  BY <1>1
<1>11. /\ Len(ResponseOctets(nm, d)) = Len(Answered(nm, d)) + 11
       /\ Len(Answered(nm, d)) = v + 27 + s + Len(d)
       /\ Len(d) \in Nat
  BY <1>9, <1>10, MessageTypes, LenProperties
<1>12. Len(ResponseOctets(nm, d)) <= FilledSize(Len(p)) /\ Len(ResponseOctets(nm, d)) \in Nat
  <2>1. PICK e \in Nat : e = EncodedLength(Len(p)) /\ e = Len(d)
    BY <1>7, <1>11
  <2>2. Len(ResponseOctets(nm, d)) = (v + 27 + s + e) + 11
    BY <1>11, <2>1
  <2>3. FilledSize(Len(p)) = 12 + (255 + 4) + (2 + 10 + e) + 11
    BY <2>1 DEF FilledSize
  <2> QED BY <1>9, <1>10, <2>2, <2>3
<1>13. FilledSize(Len(p)) \in Nat
  BY <1>4, SizeGrows
<1> QED BY <1>1, <1>6, <1>8, <1>12, <1>13

(* The jobs are what they are from the start.                              *)
LEMMA JobIsJob == Spec => [](job \in Jobs)
<1>1. Init => job \in Jobs
  BY DEF Init
<1>2. job \in Jobs /\ [Next]_vars => (job \in Jobs)'
  BY DEF Next, vars, Read, OpenQuery, OpenResponse, TakePadding, TakePacket, EndOfPayload
<1> QED BY <1>1, <1>2, PTL DEF Spec

(* No response of packets within the limit has to be truncated, for every  *)
(* name, every limit and all packets (main.go:603-604, 717-718).           *)
THEOREM ResponsesFit == Spec => []FilledResponsesFit
<1>1. job \in Jobs => FilledResponsesFit
  BY JobsAssumption, Fit DEF FilledResponsesFit
<1> QED BY <1>1, JobIsJob, PTL
-----------------------------------------------------------------------------
(* The octets that arrive: some of those that were written, letters        *)
(* perhaps in another case.                                                *)
Letters == 97..122

Agree(b, w, mixed) ==
  /\ Len(b) <= Len(w)
  /\ \A i \in 1..Len(b) : b[i] = w[i] \/ (mixed /\ w[i] \in Letters /\ b[i] = w[i] - 32)

Upper(c) == IF c \in Letters THEN c - 32 ELSE c
Alike(l, m) == Len(l) = Len(m) /\ \A i \in 1..Len(l) : Upper(l[i]) = Upper(m[i])

LEMMA UpperAgain ==
  ASSUME NEW c \in Byte, c \in Letters
  PROVE  Upper(c - 32) = Upper(c)
BY DEF Upper, Letters, Byte

LEMMA AgreeAlike ==
  ASSUME NEW b \in Seq(Byte), NEW w \in Seq(Byte), NEW mixed, Agree(b, w, mixed),
         NEW i \in 1..Len(b)
  PROVE  Upper(b[i]) = Upper(w[i])
<1>1. i \in 1..Len(w) /\ w[i] \in Byte
  <2>1. Len(b) \in Nat /\ Len(w) \in Nat
    BY LenProperties
  <2>2. i \in 1..Len(w)
    BY <2>1 DEF Agree
  <2> QED BY <2>2, ElementOfSeq
<1>2. CASE b[i] = w[i]
  BY <1>2
<1>3. CASE w[i] \in Letters /\ b[i] = w[i] - 32
  BY <1>1, <1>3, UpperAgain
<1> QED BY <1>2, <1>3 DEF Agree

(* Where a name is written: in place, or a pointer to it.                  *)
NameIn(w, p, at0, nm, q) ==
  /\ NewName(nm) = "ok"
  /\ Holds(w, at0, FullName(nm))
  /\ at0 = p => q = p + Len(Verbatim(nm)) + 1
  /\ at0 # p => q = p + 2 /\ w[p + 1] = 192 /\ w[p + 2] = at0 /\ at0 < 97
  /\ q <= Len(w)

(* How far the reader is with it.                                          *)
Reading(nm) ==
  /\ labels \in Seq(Seq(Byte)) /\ Len(labels) <= Len(nm)
  /\ \A j \in 1..Len(labels) : Alike(labels[j], nm[j])

Before(p, at0) == at0 # p /\ labels = <<>> /\ pointers = 0 /\ pos = p

Within(p, at0, nm, q) ==
  /\ pos = at0 + NameEnd(nm, Len(labels))
  /\ at0 = p => pointers = 0
  /\ at0 # p => pointers = 1 /\ seekTo = q

(* The next octet of the name.                                             *)
LEMMA LabelAhead ==
  ASSUME NEW w \in Seq(Byte), NEW at0 \in Nat, NEW nm \in Seq(Seq(Byte)),
         Holds(w, at0, FullName(nm)), NEW m \in 0..Len(nm), m < Len(nm)
  PROVE  /\ w[at0 + NameEnd(nm, m) + 1] = Len(nm[m + 1])
         /\ at0 + NameEnd(nm, m) + 1 + Len(nm[m + 1]) < Len(w)
         /\ \A i \in 1..Len(nm[m + 1]) : w[at0 + NameEnd(nm, m) + 1 + i] = nm[m + 1][i]
         /\ NameEnd(nm, m + 1) = NameEnd(nm, m) + 1 + Len(nm[m + 1])
         /\ NameEnd(nm, m) \in Nat /\ nm[m + 1] \in Seq(Byte)
<1>1. PICK v, z \in Seq(Byte) : v = Verbatim(nm) /\ z = <<0>>
  <2>1. <<0>> \in Seq(Byte)
    BY DEF Byte
  <2> QED BY <2>1, VerbatimType
<1>2. Holds(w, at0, v) /\ Holds(w, at0 + Len(v), z)
  BY <1>1, HoldsParts DEF FullName
<1>3. PICK l \in Seq(Byte), e \in Nat :
        /\ l = nm[m + 1] /\ e = NameEnd(nm, m)
        /\ NameEnd(nm, m + 1) = e + Len(l) + 1
        /\ NameEnd(nm, m + 1) <= Len(v)
        /\ Holds(w, at0 + e, Labelled(l))
  BY <1>1, <1>2, NextLabel
<1>4. PICK one \in Seq(Byte) : one = <<Len(l)>> /\ Labelled(l) = Cat(one, l)
  <2>1. Len(l) \in Byte
    BY LenProperties DEF Byte
  <2>2. <<Len(l)>> \in Seq(Byte)
    BY <2>1
  <2> QED BY <2>2 DEF Labelled
<1>5. Holds(w, at0 + e, one) /\ Holds(w, at0 + e + Len(one), l)
  <2>1. PICK ae \in Nat : ae = at0 + e
    OBVIOUS
  <2>2. Holds(w, ae, Cat(one, l))
    BY <1>3, <1>4, <2>1
  <2>3. Holds(w, ae, one) /\ Holds(w, ae + Len(one), l)
    BY <2>2, HoldsParts
  <2> QED BY <2>1, <2>3
<1>6. w[at0 + e + 1] = Len(l)
  <2>1. 1 \in 1..Len(one) /\ one[1] = Len(l)
    BY <1>4
  <2> QED BY <1>5, <2>1 DEF Holds
<1>7. \A i \in 1..Len(l) : w[at0 + e + 1 + i] = l[i]
  <2>1. Len(one) = 1
    BY <1>4
  <2> QED BY <1>5, <2>1 DEF Holds
<1>8. at0 + e + 1 + Len(l) < Len(w)
  <2>1. PICK n \in Nat : n = Len(l)
    BY LenProperties
  <2>4. Len(v) \in Nat /\ Len(w) \in Nat
    BY LenProperties
  <2>5. e + n + 1 <= Len(v)
    BY <1>3, <2>1
  <2>2. Len(z) = 1
    BY <1>1
  <2>3. at0 + Len(v) + 1 <= Len(w)
    BY <1>2, <2>4, <2>2 DEF Holds
  <2> QED BY <2>1, <2>3, <2>4, <2>5
<1>9. NameEnd(nm, m + 1) = e + 1 + Len(l)
  <2>1. PICK n \in Nat : n = Len(l)
    BY LenProperties
  <2>2. NameEnd(nm, m + 1) = e + n + 1
    BY <1>3, <2>1
  <2> QED BY <2>1, <2>2
<1> QED BY <1>3, <1>6, <1>7, <1>8, <1>9

LEMMA EndAhead ==
  ASSUME NEW w \in Seq(Byte), NEW at0 \in Nat, NEW nm \in Seq(Seq(Byte)),
         Holds(w, at0, FullName(nm))
  PROVE  /\ NameEnd(nm, Len(nm)) = Len(Verbatim(nm)) /\ NameEnd(nm, Len(nm)) \in Nat
         /\ w[at0 + NameEnd(nm, Len(nm)) + 1] = 0
         /\ at0 + NameEnd(nm, Len(nm)) + 1 <= Len(w)
<1>1. PICK v, z \in Seq(Byte) : v = Verbatim(nm) /\ z = <<0>>
  <2>1. <<0>> \in Seq(Byte)
    BY DEF Byte
  <2> QED BY <2>1, VerbatimType
<1>2. Holds(w, at0, v) /\ Holds(w, at0 + Len(v), z)
  BY <1>1, HoldsParts DEF FullName
<1>3. NameEnd(nm, Len(nm)) = Len(v) /\ Len(v) \in Nat
  <2>1. Len(nm) \in 0..Len(nm)
    BY LenProperties
  <2>2. Foremost(nm, Len(nm)) = nm
    BY <2>1, Fronts
  <2> QED BY <1>1, <2>2, LenProperties DEF NameEnd
<1>4. Len(z) = 1 /\ z[1] = 0 /\ 1 \in 1..Len(z)
  BY <1>1
<1>5. w[at0 + Len(v) + 1] = 0 /\ at0 + Len(v) + 1 <= Len(w)
  BY <1>2, <1>4 DEF Holds
<1> QED BY <1>1, <1>3, <1>5

(* Names that are alike are equally long.                                  *)
LEMMA AlikeEnds ==
  ASSUME NEW nm \in Seq(Seq(Byte)), NEW mm \in Seq(Seq(Byte)), Len(mm) = Len(nm),
         \A j \in 1..Len(mm) : Alike(mm[j], nm[j])
  PROVE  NewName(mm) = NewName(nm)
<1>0. Len(nm) \in Nat /\ Len(mm) \in Nat /\ DOMAIN nm = 1..Len(nm) /\ DOMAIN mm = 1..Len(nm)
  BY LenProperties
<1> DEFINE S == {j \in Nat : j <= Len(nm) => NameEnd(mm, j) = NameEnd(nm, j)}
<1>1. 0 \in S
  <2>1. 0 \in 0..Len(nm) /\ 0 \in 0..Len(mm)
    BY <1>0
  <2>2. Foremost(nm, 0) = <<>> /\ Foremost(mm, 0) = <<>>
    BY <2>1, Fronts
  <2> QED BY <2>2 DEF NameEnd
<1>2. ASSUME NEW j \in Nat, j \in S PROVE j + 1 \in S
  <2> SUFFICES ASSUME j + 1 <= Len(nm) PROVE NameEnd(mm, j + 1) = NameEnd(nm, j + 1)
    OBVIOUS
  <2>1. j \in 0..Len(nm) /\ j < Len(nm) /\ j \in 0..Len(mm) /\ j < Len(mm) /\ j + 1 \in 1..Len(mm)
    BY <1>0
  <2>2. NameEnd(nm, j + 1) = NameEnd(nm, j) + Len(nm[j + 1]) + 1
    BY <2>1, NextLabel
  <2>3. NameEnd(mm, j + 1) = NameEnd(mm, j) + Len(mm[j + 1]) + 1
    BY <2>1, NextLabel
  <2>4. Len(mm[j + 1]) = Len(nm[j + 1])
    BY <2>1 DEF Alike
  <2> QED BY <1>2, <2>1, <2>2, <2>3, <2>4
<1>3. Nat \subseteq S
  <2> HIDE DEF S
  <2> QED BY <1>1, <1>2, SetInduction
<1>4. NameEnd(mm, Len(mm)) = NameEnd(nm, Len(nm))
  BY <1>0, <1>3
<1>5. NameEnd(mm, Len(mm)) = Len(Verbatim(mm)) /\ NameEnd(nm, Len(nm)) = Len(Verbatim(nm))
  <2>1. Len(nm) \in 0..Len(nm) /\ Len(mm) \in 0..Len(mm)
    BY <1>0
  <2>2. Foremost(nm, Len(nm)) = nm /\ Foremost(mm, Len(mm)) = mm
    BY <2>1, Fronts
  <2> QED BY <2>2 DEF NameEnd
<1>6. \A j \in 1..Len(nm) :
        /\ Len(mm[j]) = Len(nm[j])
        /\ mm[j] = <<>> <=> nm[j] = <<>>
  <2> SUFFICES ASSUME NEW j \in 1..Len(nm)
               PROVE  Len(mm[j]) = Len(nm[j]) /\ (mm[j] = <<>> <=> nm[j] = <<>>)
    OBVIOUS
  <2>1. PICK x, y \in Seq(Byte) : x = mm[j] /\ y = nm[j]
    BY ElementOfSeq
  <2>2. Len(x) = Len(y)
    BY <2>1, <1>0 DEF Alike
  <2>3. x = <<>> <=> y = <<>>
    BY <2>2, EmptySeq
  <2> QED BY <2>1, <2>2, <2>3
<1> QED BY <1>0, <1>4, <1>5, <1>6 DEF NewName
-----------------------------------------------------------------------------
(* Steps of the reader within an entry.  It either goes on, or ends the    *)
(* entry, or fails, and then octets are missing.                           *)
EntryIn(w, p, at0, nm, q, question, ty, d) ==
  /\ NameIn(w, p, at0, nm, q)
  /\ w[q + 1] = 0 /\ w[q + 2] = ty /\ ty < 97
  /\ question => q + 4 <= Len(w)
  /\ ~question => /\ q + 10 + Len(d) <= Len(w)
                  /\ w[q + 9] = Len(d) \div 256 /\ w[q + 10] = Len(d) % 256
                  /\ \A i \in 1..Len(d) : w[q + 10 + i] = d[i]

NameGoesOn(p, at0, nm, q) ==
  /\ outcome' = "reading" /\ left' = left /\ entries' = entries
  /\ Reading(nm)' /\ Within(p, at0, nm, q)'

ReadFails(w) == outcome' \notin {"reading", "done"} /\ Len(buf) < Len(w)

AllRead(nm) == Len(labels) = Len(nm)

AlikeNames(l, nm) ==
  /\ l \in Seq(Seq(Byte)) /\ Len(l) = Len(nm)
  /\ \A j \in 1..Len(l) : Alike(l[j], nm[j])

FieldsSize(question, d) == IF question THEN 4 ELSE 10 + Len(d)

EntryEnds(nm, q, question, ty, d, mixed) ==
  /\ outcome' = "reading" /\ left' = Tail(left)
  /\ labels' = <<>> /\ pointers' = 0 /\ seekTo' = 0
  /\ pos' = q + FieldsSize(question, d) /\ pos' <= Len(buf)
  /\ \E l, x : /\ entries' = Append(entries, [name |-> l, type |-> ty, data |-> x])
               /\ AlikeNames(l, nm)
               /\ ~question /\ ~mixed => x = d

LEMMA Slice ==
  ASSUME NEW X, NEW s \in Seq(X), NEW k \in Nat, NEW n \in Nat, k + n <= Len(s)
  PROVE  /\ SubSeq(s, k + 1, k + n) \in Seq(X) /\ Len(SubSeq(s, k + 1, k + n)) = n
         /\ \A i \in 1..n : SubSeq(s, k + 1, k + n)[i] = s[k + i]
<1>1. \A i \in (k + 1)..(k + n) : s[i] \in X
  <2>1. Len(s) \in Nat
    BY LenProperties
  <2> QED BY <2>1, ElementOfSeq
<1>2. PICK m \in Nat : m = k + n
  OBVIOUS
<1>3. /\ SubSeq(s, k + 1, m) \in Seq(X)
      /\ Len(SubSeq(s, k + 1, m)) = IF k + 1 <= m THEN m - (k + 1) + 1 ELSE 0
      /\ \A i \in 1..(m - (k + 1) + 1) : SubSeq(s, k + 1, m)[i] = s[k + 1 + i - 1]
  <2>1. k + 1 \in Int /\ m \in Int
    OBVIOUS
  <2> QED BY <1>1, <1>2, <2>1, SubSeqProperties
<1>4. m - (k + 1) + 1 = n /\ (k + 1 <= m <=> n # 0)
  BY <1>2
<1>5. \A i \in 1..n : k + 1 + i - 1 = k + i
  OBVIOUS
<1>6. Len(SubSeq(s, k + 1, m)) = n
  BY <1>3, <1>4
<1>7. \A i \in 1..n : SubSeq(s, k + 1, m)[i] = s[k + i]
  BY <1>3, <1>4, <1>5
<1> QED BY <1>2, <1>3, <1>6, <1>7

LEMMA Same ==
  ASSUME NEW b, NEW w, NEW mixed, Agree(b, w, mixed), NEW i \in 1..Len(b), w[i] \notin Letters
  PROVE  b[i] = w[i]
BY DEF Agree

(* An octet that begins a label, a pointer or the end of a name begins     *)
(* nothing else.                                                           *)
LEMMA OtherOctets ==
  /\ 192 \notin 1..MaxLabel /\ 192 # 0 /\ 192 \notin 64..191 /\ 192 >= 192
  /\ 0 \notin 1..MaxLabel /\ 0 \notin 64..191 /\ ~(0 >= 192)
  /\ \A n \in 1..MaxLabel : n # 0 /\ n \notin 64..191 /\ ~(n >= 192)
BY DEF MaxLabel

(* The steps of the reader, one by one.                                    *)
LEMMA StepOfPointer ==
  ASSUME FollowPointer
  PROVE  /\ Remaining > 0 /\ buf[pos + 1] >= 192
         /\ Remaining < 2 => outcome' = "eof" /\ buf' = buf
         /\ ~(Remaining < 2) /\ pointers # PointerLimit =>
              /\ pointers' = pointers + 1
              /\ seekTo' = IF pointers = 0 THEN pos + 2 ELSE seekTo
              /\ pos' = NumberAt(pos) - 49152
              /\ buf' = buf /\ labels' = labels /\ left' = left /\ entries' = entries
              /\ outcome' = outcome
BY DEF FollowPointer, Fail

LEMMA StepOfLabel ==
  ASSUME ReadLabel
  PROVE  /\ Remaining > 0 /\ buf[pos + 1] \in 1..MaxLabel
         /\ Remaining < 1 + buf[pos + 1] => outcome' = "eof" /\ buf' = buf
         /\ ~(Remaining < 1 + buf[pos + 1]) =>
              /\ labels' = Append(labels, SubSeq(buf, pos + 2, pos + 1 + buf[pos + 1]))
              /\ pos' = pos + 1 + buf[pos + 1]
              /\ buf' = buf /\ pointers' = pointers /\ seekTo' = seekTo /\ left' = left
              /\ entries' = entries /\ outcome' = outcome
BY DEF ReadLabel, Fail

LEMMA StepOfNothing ==
  ASSUME ReadNothing
  PROVE  pos >= Len(buf) /\ outcome' = "eof" /\ buf' = buf
BY DEF ReadNothing, Fail

(* By the octet at which the reader is.                                    *)
LEMMA StepInName ==
  ASSUME InName, ReadNext, NEW c, Remaining > 0 => buf[pos + 1] = c
  PROVE  /\ c = 192 => FollowPointer \/ ReadNothing
         /\ c = 0 => ReadEntry \/ ReadNothing
         /\ c \in 1..MaxLabel => ReadLabel \/ ReadNothing
<1>1. ~ReadHeader /\ ~EndOfMessage
  BY DEF InName, ReadHeader, EndOfMessage
<1>2. ReadLabel => c \in 1..MaxLabel
  BY StepOfLabel
<1>3. FollowPointer => c >= 192
  BY StepOfPointer
<1>4. ReadEntry => c = 0
  BY DEF ReadEntry
<1>5. ReadReserved => c \in 64..191
  BY DEF ReadReserved
<1> QED BY <1>1, <1>2, <1>3, <1>4, <1>5, OtherOctets DEF ReadNext

LEMMA PointerStep ==
  ASSUME NEW w \in Seq(Byte), NEW p \in Nat, NEW at0 \in Nat, NEW nm \in Seq(Seq(Byte)),
         NEW q \in Nat,
         NEW mixed, buf \in Seq(Byte), Agree(buf, w, mixed), NameIn(w, p, at0, nm, q),
         Before(p, at0), InName, ReadNext
  PROVE  buf' = buf /\ (NameGoesOn(p, at0, nm, q) \/ ReadFails(w))
<1>1. Len(buf) \in Nat /\ Len(w) \in Nat
  BY LenProperties
<1>0. at0 # p /\ labels = <<>> /\ pointers = 0 /\ pos = p
  BY DEF Before
<1>2. q = p + 2 /\ w[p + 1] = 192 /\ w[p + 2] = at0 /\ at0 < 97 /\ p + 2 <= Len(w)
  BY <1>0 DEF NameIn
<1>3. p < Len(buf) => buf[p + 1] = 192
  <2> SUFFICES ASSUME p < Len(buf) PROVE buf[p + 1] = 192
    OBVIOUS
  <2>1. p + 1 \in 1..Len(buf)
    BY <1>1
  <2>2. w[p + 1] \notin Letters
    BY <1>2 DEF Letters
  <2> QED BY <1>2, <2>1, <2>2, Same
<1>4. CASE FollowPointer
  <2>0. Remaining > 0
    BY <1>4, StepOfPointer
  <2>1. p < Len(buf)
    BY <1>0, <1>1, <2>0 DEF Remaining
  <2>2. CASE Len(buf) - p < 2
    <3>1. Len(buf) < Len(w)
      BY <1>1, <1>2, <2>1, <2>2
    <3>2. outcome' = "eof" /\ buf' = buf
      BY <1>0, <1>4, <2>2, StepOfPointer DEF Remaining
    <3> QED BY <3>1, <3>2 DEF ReadFails
  <2>3. CASE ~(Len(buf) - p < 2)
    <3>1. buf[p + 2] = at0
      <4>1. p + 2 \in 1..Len(buf)
        BY <1>1, <2>3
      <4>2. w[p + 2] \notin Letters
        BY <1>2 DEF Letters
      <4> QED BY <1>2, <4>1, <4>2, Same
    <3>2. /\ pointers' = 1 /\ seekTo' = p + 2 /\ pos' = NumberAt(p) - 49152
          /\ buf' = buf /\ labels' = labels /\ left' = left /\ entries' = entries
          /\ outcome' = outcome
      <4>1. ~(pointers = PointerLimit)
        BY <1>0 DEF PointerLimit
      <4>2. pointers + 1 = 1
        BY <1>0
      <4>3. ~(Remaining < 2)
        BY <1>0, <2>3 DEF Remaining
      <4> QED BY <1>0, <1>4, <4>1, <4>2, <4>3, StepOfPointer
    <3>3. NumberAt(p) - 49152 = at0
      BY <1>3, <2>1, <3>1 DEF NumberAt
    <3>4. NameEnd(nm, 0) = 0
      <4>1. 0 \in 0..Len(nm)
        BY LenProperties
      <4>2. Foremost(nm, 0) = <<>>
        BY <4>1, Fronts
      <4> QED BY <4>2, VerbatimEmpty DEF NameEnd
    <3>5. Len(labels') = 0 /\ labels' \in Seq(Seq(Byte)) /\ Len(nm) \in Nat
      BY <1>0, <3>2, EmptySeq, LenProperties
    <3>6. pos' = at0 + NameEnd(nm, Len(labels'))
      BY <3>2, <3>3, <3>4, <3>5
    <3>7. Reading(nm)' /\ Within(p, at0, nm, q)'
      <4>1. \A j \in 1..Len(labels') : FALSE
        BY <3>5
      <4>2. Len(labels') <= Len(nm)
        BY <3>5
      <4> QED BY <1>0, <1>2, <3>2, <3>5, <3>6, <4>1, <4>2 DEF Reading, Within
    <3>8. outcome' = "reading"
      BY <3>2 DEF InName
    <3> QED BY <3>2, <3>7, <3>8 DEF NameGoesOn
  <2> QED BY <2>2, <2>3
<1>5. CASE ReadNothing
  <2>0. pos >= Len(buf) /\ outcome' = "eof" /\ buf' = buf
    BY <1>5, StepOfNothing
  <2>1. Len(buf) < Len(w)
    BY <1>0, <1>1, <1>2, <2>0
  <2> QED BY <2>0, <2>1 DEF ReadFails
<1>6. FollowPointer \/ ReadNothing
  <2>1. Remaining > 0 => buf[pos + 1] = 192
    BY <1>0, <1>1, <1>3 DEF Remaining
  <2> QED BY <2>1, StepInName
<1> QED BY <1>4, <1>5, <1>6

LEMMA LabelStep ==
  ASSUME NEW w \in Seq(Byte), NEW p \in Nat, NEW at0 \in Nat, NEW nm \in Seq(Seq(Byte)),
         NEW q \in Nat,
         NEW mixed, buf \in Seq(Byte), Agree(buf, w, mixed), NameIn(w, p, at0, nm, q),
         Reading(nm), Within(p, at0, nm, q), ~AllRead(nm), InName, ReadNext
  PROVE  buf' = buf /\ (NameGoesOn(p, at0, nm, q) \/ ReadFails(w))
<1>1. /\ Len(buf) \in Nat /\ Len(w) \in Nat /\ Len(nm) \in Nat
      /\ labels \in Seq(Seq(Byte)) /\ Len(labels) \in Nat
  BY LenProperties DEF Reading
<1>2. PICK m \in 0..Len(nm) : m = Len(labels) /\ m < Len(nm)
  <2>1. Len(labels) # Len(nm) /\ Len(labels) <= Len(nm)
    BY DEF AllRead, Reading
  <2> QED BY <1>1, <2>1
<1>3. PICK e \in Nat, l \in Seq(Byte), n \in Nat :
        /\ e = at0 + NameEnd(nm, m) /\ l = nm[m + 1] /\ n = Len(l)
        /\ w[e + 1] = n /\ e + 1 + n < Len(w)
        /\ \A i \in 1..n : w[e + 1 + i] = l[i]
        /\ at0 + NameEnd(nm, m + 1) = e + 1 + n
  <2>1. /\ w[at0 + NameEnd(nm, m) + 1] = Len(nm[m + 1])
        /\ at0 + NameEnd(nm, m) + 1 + Len(nm[m + 1]) < Len(w)
        /\ \A i \in 1..Len(nm[m + 1]) : w[at0 + NameEnd(nm, m) + 1 + i] = nm[m + 1][i]
        /\ NameEnd(nm, m + 1) = NameEnd(nm, m) + 1 + Len(nm[m + 1])
        /\ NameEnd(nm, m) \in Nat /\ nm[m + 1] \in Seq(Byte)
    <3>1. Holds(w, at0, FullName(nm))
      BY DEF NameIn
    <3> QED BY <1>2, <3>1, LabelAhead
  <2>2. PICK e0 \in Nat, l \in Seq(Byte) : e0 = NameEnd(nm, m) /\ l = nm[m + 1]
    BY <2>1
  <2>3. PICK n \in Nat : n = Len(l)
    BY LenProperties
  <2>4. PICK e \in Nat : e = at0 + e0
    OBVIOUS
  <2>5. at0 + NameEnd(nm, m + 1) = e + 1 + n
    <3>1. NameEnd(nm, m + 1) = e0 + 1 + n
      BY <2>1, <2>2, <2>3
    <3> QED BY <2>4, <3>1
  <2> QED BY <2>1, <2>2, <2>3, <2>4, <2>5
<1>4. n \in 1..MaxLabel
  <2>1. m + 1 \in 1..Len(nm) /\ DOMAIN nm = 1..Len(nm)
    BY <1>1, <1>2, LenProperties
  <2>2. l # <<>> /\ ~(n > MaxLabel)
    <3>1. ~\E i \in DOMAIN nm : nm[i] = <<>>
      BY DEF NameIn, NewName
    <3>2. ~\E i \in DOMAIN nm : Len(nm[i]) > MaxLabel
      BY DEF NameIn, NewName
    <3> QED BY <1>3, <2>1, <3>1, <3>2
  <2>3. n # 0
    BY <1>3, <2>2, EmptySeq
  <2> QED BY <2>2, <2>3 DEF MaxLabel
<1>5. pos = e
  BY <1>2, <1>3 DEF Within
<1>6. e < Len(buf) => buf[e + 1] = n
  <2> SUFFICES ASSUME e < Len(buf) PROVE buf[e + 1] = n
    OBVIOUS
  <2>1. e + 1 \in 1..Len(buf)
    BY <1>1
  <2>2. n \notin Letters
    BY <1>4 DEF Letters, MaxLabel
  <2>3. w[e + 1] = n
    BY <1>3
  <2> QED BY <2>1, <2>2, <2>3, Same
<1>7. CASE ReadLabel
  <2>0. Remaining > 0
    BY <1>7, StepOfLabel
  <2>1. e < Len(buf) /\ buf[pos + 1] = n
    BY <1>1, <1>5, <1>6, <2>0 DEF Remaining
  <2>2. CASE Len(buf) - e < 1 + n
    <3>0. e + 1 + n < Len(w)
      BY <1>3
    <3>1. Len(buf) < Len(w)
      BY <1>1, <2>2, <3>0
    <3>2. outcome' = "eof" /\ buf' = buf
      BY <1>5, <1>7, <2>1, <2>2, StepOfLabel DEF Remaining
    <3> QED BY <3>1, <3>2 DEF ReadFails
  <2>3. CASE ~(Len(buf) - e < 1 + n)
    <3>1. /\ labels' = Append(labels, SubSeq(buf, e + 2, e + 1 + n))
          /\ pos' = e + 1 + n
          /\ buf' = buf /\ pointers' = pointers /\ seekTo' = seekTo /\ left' = left
          /\ entries' = entries /\ outcome' = outcome
      <4>1. ~(Remaining < 1 + n)
        BY <1>5, <2>3 DEF Remaining
      <4> QED BY <1>5, <1>7, <2>1, <4>1, StepOfLabel
    <3>2. PICK x \in Seq(Byte) :
            /\ x = SubSeq(buf, e + 2, e + 1 + n) /\ Len(x) = n
            /\ \A i \in 1..n : x[i] = buf[e + 1 + i]
      <4>1. PICK k \in Nat : k = e + 1
        OBVIOUS
      <4>2. k + n <= Len(buf) /\ k + 1 = e + 2
        BY <1>1, <2>3, <4>1
      <4>3. /\ SubSeq(buf, k + 1, k + n) \in Seq(Byte) /\ Len(SubSeq(buf, k + 1, k + n)) = n
            /\ \A i \in 1..n : SubSeq(buf, k + 1, k + n)[i] = buf[k + i]
        BY <4>2, Slice
      <4> QED BY <4>1, <4>2, <4>3
    <3>3. Alike(x, l)
      <4>1. ASSUME NEW i \in 1..n PROVE Upper(x[i]) = Upper(l[i])
        <5>1. e + 1 + i \in 1..Len(buf)
          BY <1>1, <2>3
        <5>2. Upper(buf[e + 1 + i]) = Upper(w[e + 1 + i])
          BY <5>1, AgreeAlike
        <5> QED BY <1>3, <3>2, <5>2
      <4> QED BY <1>3, <3>2, <4>1 DEF Alike
    <3>4. /\ labels' \in Seq(Seq(Byte)) /\ Len(labels') = m + 1
          /\ \A j \in 1..m : labels'[j] = labels[j]
          /\ labels'[m + 1] = x
      <4>1. PICK ll \in Seq(Seq(Byte)) : ll = labels
        BY <1>1
      <4>2. /\ Append(ll, x) \in Seq(Seq(Byte)) /\ Len(Append(ll, x)) = Len(ll) + 1
            /\ \A j \in 1..Len(ll) : Append(ll, x)[j] = ll[j]
            /\ Append(ll, x)[Len(ll) + 1] = x
        BY AppendProperties
      <4> QED BY <1>2, <3>1, <3>2, <4>1, <4>2
    <3>5. ASSUME NEW j \in 1..Len(labels') PROVE Alike(labels'[j], nm[j])
      <4>1. CASE j = m + 1
        BY <1>3, <3>3, <3>4, <4>1
      <4>2. CASE j \in 1..m
        BY <1>2, <3>4, <4>2 DEF Reading
      <4> QED BY <1>2, <3>4, <4>1, <4>2
    <3>6. pos' = at0 + NameEnd(nm, Len(labels'))
      BY <1>3, <3>1, <3>4
    <3>7. Len(labels') <= Len(nm)
      BY <1>1, <1>2, <3>4
    <3>8. Reading(nm)' /\ Within(p, at0, nm, q)'
      BY <3>1, <3>4, <3>5, <3>6, <3>7 DEF Reading, Within
    <3> QED BY <3>1, <3>8 DEF NameGoesOn, InName
  <2> QED BY <2>2, <2>3
<1>8. CASE ReadNothing
  <2>0. pos >= Len(buf) /\ outcome' = "eof" /\ buf' = buf
    BY <1>8, StepOfNothing
  <2>2. e + 1 + n < Len(w)
    BY <1>3
  <2>1. Len(buf) < Len(w)
    BY <1>1, <1>5, <2>0, <2>2
  <2> QED BY <2>0, <2>1 DEF ReadFails
<1>9. ReadLabel \/ ReadNothing
  <2>1. Remaining > 0 => buf[pos + 1] = n
    BY <1>1, <1>5, <1>6 DEF Remaining
  <2> QED BY <1>4, <2>1, StepInName
<1> QED BY <1>7, <1>8, <1>9
-----------------------------------------------------------------------------
(* The end of a name and the fields after it.                              *)
LengthRead(f) ==
  IF Head(left) = "question" \/ Len(buf) - f < 10 THEN 0 ELSE NumberAt(f + 8)

SizeRead(f) == IF Head(left) = "question" THEN 4 ELSE 10 + LengthRead(f)

(* Whether the entry being read is a question.                             *)
IsNext(question) == question <=> Head(left) = "question"

LEMMA StepOfEntry ==
  ASSUME ReadEntry, NEW f, f = AfterName, NEW z, z = SizeRead(f), NEW n, n = LengthRead(f),
         NewName(labels) = "ok"
  PROVE  /\ Len(buf) - f < z => outcome' = "eof" /\ buf' = buf
         /\ ~(Len(buf) - f < z) =>
              /\ entries' = Append(entries,
                   [name |-> labels, type |-> NumberAt(f),
                    data |-> SubSeq(buf, f + z - n + 1, f + z)])
              /\ pos' = f + z
              /\ left' = Tail(left)
              /\ labels' = <<>> /\ pointers' = 0 /\ seekTo' = 0
              /\ buf' = buf /\ outcome' = outcome
BY DEF ReadEntry, Fail, SizeRead, LengthRead

LEMMA WhereNameEnds ==
  ASSUME NEW w \in Seq(Byte), NEW p \in Nat, NEW at0 \in Nat, NEW nm \in Seq(Seq(Byte)),
         NEW q \in Nat,
         NameIn(w, p, at0, nm, q), Within(p, at0, nm, q), AllRead(nm)
  PROVE  /\ AfterName = q
         /\ pos \in Nat /\ pos + 1 <= Len(w) /\ w[pos + 1] = 0
<1>1. Holds(w, at0, FullName(nm))
  BY DEF NameIn
<1>2. PICK e \in Nat : /\ e = NameEnd(nm, Len(nm)) /\ e = Len(Verbatim(nm))
                       /\ w[at0 + e + 1] = 0 /\ at0 + e + 1 <= Len(w)
  BY <1>1, EndAhead
<1>0. pos = at0 + e
  BY <1>2 DEF Within, AllRead
<1>3. CASE at0 = p
  <2>1. q = p + e + 1
    BY <1>2, <1>3 DEF NameIn
  <2>2. pos = p + e /\ pointers = 0
    BY <1>0, <1>3 DEF Within
  <2> QED BY <1>2, <1>3, <2>1, <2>2 DEF AfterName
<1>4. CASE at0 # p
  <2>1. pointers = 1 /\ seekTo = q
    BY <1>4 DEF Within
  <2> QED BY <1>0, <1>2, <2>1 DEF AfterName
<1> QED BY <1>3, <1>4

LEMMA TwoOctets ==
  ASSUME NEW n \in Nat
  PROVE  \E x, y \in Nat : x = n \div 256 /\ y = n % 256 /\ y <= 255 /\ 256 * x + y = n
<1>1. PICK x, y \in Nat : x = n \div 256 /\ y = n % 256 /\ y <= 255
  OBVIOUS
<1>2. 256 * x + y = n
  BY <1>1
<1> QED BY <1>1, <1>2

LEMMA BelowLetters ==
  ASSUME NEW c \in Nat, c < 97
  PROVE  c \notin Letters
BY DEF Letters

LengthPresent(w, p, at0, nm, q, question, ty, d, mixed) ==
  /\ buf \in Seq(Byte) /\ Agree(buf, w, mixed) /\ EntryIn(w, p, at0, nm, q, question, ty, d)
  /\ (mixed => d = <<>>) /\ ~question /\ ~(Len(buf) - q < 10)

LEMMA LengthAhead ==
  ASSUME NEW w \in Seq(Byte), NEW p \in Nat, NEW at0 \in Nat, NEW nm \in Seq(Seq(Byte)),
         NEW q \in Nat, NEW question, NEW ty \in Nat, NEW d \in Seq(Byte), NEW mixed,
         LengthPresent(w, p, at0, nm, q, question, ty, d, mixed)
  PROVE  NumberAt(q + 8) = Len(d)
<1>0. /\ buf \in Seq(Byte) /\ Agree(buf, w, mixed) /\ EntryIn(w, p, at0, nm, q, question, ty, d)
      /\ (mixed => d = <<>>) /\ ~question /\ ~(Len(buf) - q < 10)
  BY DEF LengthPresent
<1>1. PICK n, b \in Nat : n = Len(d) /\ b = Len(buf)
  BY <1>0, LenProperties
<1>2. PICK x, y \in Nat : x = n \div 256 /\ y = n % 256 /\ 256 * x + y = n
  BY TwoOctets
<1>3. w[q + 9] = x /\ w[q + 10] = y
  BY <1>0, <1>1, <1>2 DEF EntryIn
<1>4. q + 9 \in 1..Len(buf) /\ q + 10 \in 1..Len(buf)
  <2>1. ~(b - q < 10)
    BY <1>0, <1>1
  <2>2. q + 9 \in 1..b /\ q + 10 \in 1..b
    BY <2>1
  <2> QED BY <1>1, <2>2
<1>5. buf[q + 9] = x /\ buf[q + 10] = y
  <2>1. CASE ~mixed
    BY <1>0, <1>3, <1>4, <2>1 DEF Agree
  <2>2. CASE mixed
    <3>1. n = 0
      BY <1>0, <1>1, <2>2, EmptySeq
    <3>2. x = 0 /\ y = 0
      BY <1>2, <3>1
    <3>3. w[q + 9] \notin Letters /\ w[q + 10] \notin Letters
      BY <1>3, <3>2 DEF Letters
    <3> QED BY <1>0, <1>3, <1>4, <3>3, Same
  <2> QED BY <2>1, <2>2
<1>6. q + 8 + 1 = q + 9 /\ q + 8 + 2 = q + 10
  OBVIOUS
<1>7. NumberAt(q + 8) = 256 * buf[q + 9] + buf[q + 10]
  BY <1>6 DEF NumberAt
<1>8. NumberAt(q + 8) = 256 * x + y
  BY <1>5, <1>7
<1> QED BY <1>1, <1>2, <1>8

DataRead(q, d) == SubSeq(buf, q + 10 + 1, q + 10 + Len(d))

DataIs(q, question, d, mixed) ==
  ~question => LengthRead(q) = Len(d) /\ (~mixed => DataRead(q, d) = d)

LEMMA FieldsRead ==
  ASSUME NEW w \in Seq(Byte), NEW p \in Nat, NEW at0 \in Nat, NEW nm \in Seq(Seq(Byte)),
         NEW q \in Nat,
         NEW question, NEW ty \in Nat, NEW d \in Seq(Byte), NEW mixed,
         buf \in Seq(Byte), Agree(buf, w, mixed), EntryIn(w, p, at0, nm, q, question, ty, d),
         IsNext(question), mixed => d = <<>>,
         ~(Len(buf) - q < SizeRead(q))
  PROVE  /\ SizeRead(q) = FieldsSize(question, d)
         /\ DataIs(q, question, d, mixed)
         /\ NumberAt(q) = ty
<1>1. PICK n, b \in Nat : n = Len(d) /\ b = Len(buf)
  BY LenProperties
<1>2. CASE question
  <2>1. SizeRead(q) = 4
    BY <1>2 DEF SizeRead, IsNext
  <2>2. b - q >= 4
    BY <1>1, <2>1
  <2>3. q + 1 \in 1..Len(buf) /\ q + 2 \in 1..Len(buf)
    <3>1. q + 1 \in 1..b /\ q + 2 \in 1..b
      BY <2>2
    <3> QED BY <1>1, <3>1
  <2>4. w[q + 1] \notin Letters /\ w[q + 2] \notin Letters
    <3>1. w[q + 1] = 0 /\ w[q + 2] = ty /\ ty < 97
      BY DEF EntryIn
    <3>2. 0 \notin Letters /\ ty \notin Letters
      BY <3>1, BelowLetters
    <3> QED BY <3>1, <3>2
  <2>5. buf[q + 1] = 0 /\ buf[q + 2] = ty
    <3>1. buf[q + 1] = w[q + 1] /\ buf[q + 2] = w[q + 2]
      BY <2>3, <2>4, Same
    <3> QED BY <3>1 DEF EntryIn
  <2>6. NumberAt(q) = ty
    BY <2>5 DEF NumberAt
  <2> QED BY <1>2, <2>1, <2>6 DEF FieldsSize, DataIs
<1>3. CASE ~question
  <2>1. b - q >= 10
    <3>1. LengthRead(q) = IF b - q < 10 THEN 0 ELSE NumberAt(q + 8)
      BY <1>1, <1>3 DEF LengthRead, IsNext
    <3>2. SizeRead(q) = 10 + LengthRead(q)
      BY <1>3 DEF SizeRead, IsNext
    <3> QED BY <1>1, <3>1, <3>2
  <2>2. /\ q + 1 \in 1..Len(buf) /\ q + 2 \in 1..Len(buf)
        /\ q + 9 \in 1..Len(buf) /\ q + 10 \in 1..Len(buf)
    <3>1. q + 1 \in 1..b /\ q + 2 \in 1..b /\ q + 9 \in 1..b /\ q + 10 \in 1..b
      BY <2>1
    <3> QED BY <1>1, <3>1
  <2>3. w[q + 1] \notin Letters /\ w[q + 2] \notin Letters
    <3>1. w[q + 1] = 0 /\ w[q + 2] = ty /\ ty < 97
      BY DEF EntryIn
    <3>2. 0 \notin Letters /\ ty \notin Letters
      BY <3>1, BelowLetters
    <3> QED BY <3>1, <3>2
  <2>4. buf[q + 1] = 0 /\ buf[q + 2] = ty
    <3>1. buf[q + 1] = w[q + 1] /\ buf[q + 2] = w[q + 2]
      BY <2>2, <2>3, Same
    <3> QED BY <3>1 DEF EntryIn
  <2>5. NumberAt(q) = ty
    BY <2>4 DEF NumberAt
  <2>7. NumberAt(q + 8) = n
    <3>1. ~(Len(buf) - q < 10)
      BY <1>1, <2>1
    <3>2. LengthPresent(w, p, at0, nm, q, question, ty, d, mixed)
      BY <1>3, <3>1 DEF LengthPresent
    <3>3. NumberAt(q + 8) = Len(d)
      BY <3>2, LengthAhead
    <3> QED BY <1>1, <3>3
  <2>8. LengthRead(q) = n
    <3>1. LengthRead(q) = IF b - q < 10 THEN 0 ELSE NumberAt(q + 8)
      BY <1>1, <1>3 DEF LengthRead, IsNext
    <3>2. ~(b - q < 10)
      BY <1>1, <2>1
    <3> QED BY <2>7, <3>1, <3>2
  <2>9. SizeRead(q) = 10 + n
    BY <1>3, <2>8 DEF SizeRead, IsNext
  <2>10. ASSUME ~mixed PROVE SubSeq(buf, q + 10 + 1, q + 10 + n) = d
    <3>1. PICK k \in Nat : k = q + 10
      OBVIOUS
    <3>2. k + n <= Len(buf)
      <4>1. ~(b - q < 10 + n)
        BY <1>1, <2>9
      <4>2. k + n <= b
        BY <3>1, <4>1
      <4> QED BY <1>1, <4>2
    <3>3. PICK x \in Seq(Byte) : /\ x = SubSeq(buf, k + 1, k + n) /\ Len(x) = n
                                 /\ \A i \in 1..n : x[i] = buf[k + i]
      <4>1. /\ SubSeq(buf, k + 1, k + n) \in Seq(Byte) /\ Len(SubSeq(buf, k + 1, k + n)) = n
            /\ \A i \in 1..n : SubSeq(buf, k + 1, k + n)[i] = buf[k + i]
        BY <3>2, Slice
      <4> QED BY <4>1
    <3>4. \A i \in 1..n : x[i] = d[i]
      <4> TAKE i \in 1..n
      <4>0. k + n <= b
        BY <1>1, <3>2
      <4>1. k + i \in 1..Len(buf)
        <5>1. k + i \in 1..b
          BY <4>0
        <5> QED BY <1>1, <5>1
      <4>2. buf[k + i] = w[k + i]
        BY <2>10, <4>1 DEF Agree
      <4>3. w[q + 10 + i] = d[i]
        BY <1>1, <1>3 DEF EntryIn
      <4> QED BY <3>1, <3>3, <4>2, <4>3
    <3>5. Len(x) = Len(d) /\ \A i \in 1..Len(x) : x[i] = d[i]
      BY <1>1, <3>3, <3>4
    <3>6. x = d
      BY <3>3, <3>5, SeqEqual, Zenon
    <3> QED BY <3>1, <3>3, <3>6
  <2> QED BY <1>1, <1>3, <2>5, <2>8, <2>9, <2>10 DEF FieldsSize, DataRead, DataIs
<1> QED BY <1>2, <1>3

LEMMA EndStep ==
  ASSUME NEW w \in Seq(Byte), NEW p \in Nat, NEW at0 \in Nat, NEW nm \in Seq(Seq(Byte)),
         NEW q \in Nat,
         NEW question, NEW ty \in Nat, NEW d \in Seq(Byte), NEW mixed,
         buf \in Seq(Byte), Agree(buf, w, mixed), EntryIn(w, p, at0, nm, q, question, ty, d),
         IsNext(question), mixed => d = <<>>,
         Reading(nm), Within(p, at0, nm, q), AllRead(nm), InName, ReadNext
  PROVE  buf' = buf /\ (EntryEnds(nm, q, question, ty, d, mixed) \/ ReadFails(w))
<1>1. NameIn(w, p, at0, nm, q)
  BY DEF EntryIn
<1>2. AfterName = q /\ pos \in Nat /\ pos + 1 <= Len(w) /\ w[pos + 1] = 0
  BY <1>1, WhereNameEnds
<1>3. Len(buf) \in Nat /\ Len(w) \in Nat
  BY LenProperties
<1>4. pos < Len(buf) => buf[pos + 1] = 0
  <2> SUFFICES ASSUME pos < Len(buf) PROVE buf[pos + 1] = 0
    OBVIOUS
  <2>1. pos + 1 \in 1..Len(buf)
    BY <1>2, <1>3
  <2>2. 0 \notin Letters
    BY DEF Letters
  <2> QED BY <1>2, <2>1, <2>2, Same
<1>5. ReadEntry \/ ReadNothing
  <2>1. Remaining > 0 => buf[pos + 1] = 0
    BY <1>2, <1>3, <1>4 DEF Remaining
  <2> QED BY <2>1, StepInName
<1>6. CASE ReadNothing
  <2>0. pos >= Len(buf) /\ outcome' = "eof" /\ buf' = buf
    BY <1>6, StepOfNothing
  <2>1. Len(buf) < Len(w)
    BY <1>2, <1>3, <2>0
  <2> QED BY <2>0, <2>1 DEF ReadFails
<1>7. NewName(labels) = "ok"
  <2>1. NewName(nm) = "ok"
    BY <1>1 DEF NameIn
  <2>2. labels \in Seq(Seq(Byte)) /\ \A j \in 1..Len(labels) : Alike(labels[j], nm[j])
    BY DEF Reading
  <2>3. Len(labels) = Len(nm)
    BY DEF AllRead
  <2> QED BY <2>1, <2>2, <2>3, AlikeEnds
<1>8. CASE ReadEntry /\ Len(buf) - q < SizeRead(q)
  <2>1. outcome' = "eof" /\ buf' = buf
    BY <1>2, <1>7, <1>8, StepOfEntry
  <2>2. Len(buf) < Len(w)
    <3>1. PICK n, b, z \in Nat : n = Len(d) /\ b = Len(buf) /\ z = Len(w)
      BY LenProperties
    <3>2. CASE question
      <4>1. SizeRead(q) = 4
        BY <3>2 DEF SizeRead, IsNext
      <4>2. q + 4 <= z
        BY <3>1, <3>2 DEF EntryIn
      <4> QED BY <1>8, <3>1, <4>1, <4>2
    <3>3. CASE ~question /\ b - q < 10
      <4>1. q + 10 + n <= z
        BY <3>1, <3>3 DEF EntryIn
      <4> QED BY <3>1, <3>3, <4>1
    <3>4. CASE ~question /\ ~(b - q < 10)
      <4>1. q + 10 + n <= z
        BY <3>1, <3>4 DEF EntryIn
      <4>4. NumberAt(q + 8) = n
        <5>1. ~(Len(buf) - q < 10)
          BY <3>1, <3>4
        <5>2. LengthPresent(w, p, at0, nm, q, question, ty, d, mixed)
          BY <3>4, <5>1 DEF LengthPresent
        <5>3. NumberAt(q + 8) = Len(d)
          BY <5>2, LengthAhead
        <5> QED BY <3>1, <5>3
      <4>5. SizeRead(q) = 10 + n
        BY <3>1, <3>4, <4>4 DEF SizeRead, LengthRead, IsNext
      <4> QED BY <1>8, <3>1, <4>1, <4>5
    <3> QED BY <3>2, <3>3, <3>4
  <2> QED BY <2>1, <2>2 DEF ReadFails
<1>9. CASE ReadEntry /\ ~(Len(buf) - q < SizeRead(q))
  <2>1. /\ SizeRead(q) = FieldsSize(question, d)
        /\ DataIs(q, question, d, mixed)
        /\ NumberAt(q) = ty
    <3>1. ~(Len(buf) - q < SizeRead(q))
      BY <1>9
    <3> QED BY <3>1, FieldsRead
  <2>2. PICK z : z = SizeRead(q)
    OBVIOUS
  <2>3. PICK n : n = LengthRead(q)
    OBVIOUS
  <2>4. /\ entries' = Append(entries,
             [name |-> labels, type |-> ty, data |-> SubSeq(buf, q + z - n + 1, q + z)])
        /\ pos' = q + z /\ left' = Tail(left)
        /\ labels' = <<>> /\ pointers' = 0 /\ seekTo' = 0
        /\ buf' = buf /\ outcome' = outcome
    BY <1>2, <1>7, <1>9, <2>1, <2>2, <2>3, StepOfEntry
  <2>5. ASSUME ~question, ~mixed PROVE SubSeq(buf, q + z - n + 1, q + z) = d
    <3>1. PICK k \in Nat : k = Len(d)
      BY LenProperties
    <3>2. z = 10 + k /\ n = k
      BY <2>1, <2>2, <2>3, <2>5, <3>1 DEF FieldsSize, DataIs
    <3>3. q + z - n + 1 = q + 10 + 1 /\ q + z = q + 10 + k
      BY <3>2
    <3> QED BY <2>1, <2>5, <3>1, <3>3 DEF DataRead, DataIs
  <2>6. AlikeNames(labels, nm)
    BY DEF AlikeNames, Reading, AllRead
  <2>7. outcome' = "reading"
    BY <2>4 DEF InName
  <2>9. q + z <= Len(buf)
    <3>1. PICK b, k \in Nat : b = Len(buf) /\ k = Len(d)
      BY LenProperties
    <3>2. z \in Nat
      BY <2>1, <2>2, <3>1 DEF FieldsSize
    <3>3. ~(b - q < z)
      BY <1>9, <2>2, <3>1
    <3> QED BY <3>1, <3>2, <3>3
  <2>8. EntryEnds(nm, q, question, ty, d, mixed)
    BY <2>1, <2>2, <2>4, <2>5, <2>6, <2>7, <2>9 DEF EntryEnds
  <2> QED BY <2>4, <2>8
<1> QED BY <1>5, <1>6, <1>8, <1>9
-----------------------------------------------------------------------------
(* A message as it is laid out: a header and entries one behind the other. *)
(* An entry is at p, its name at at0, its fields at q.                     *)
IsEntry(w, e) ==
  /\ e.p \in Nat /\ e.at0 \in Nat /\ e.nm \in Seq(Seq(Byte)) /\ e.q \in Nat /\ e.ty \in Nat
  /\ e.d \in Seq(Byte)
  /\ EntryIn(w, e.p, e.at0, e.nm, e.q, e.question, e.ty, e.d)

EndOf(e) == e.q + FieldsSize(e.question, e.d)

HeaderIn(w, n) ==
  /\ 12 <= Len(w)
  /\ w[5] = 0 /\ w[6] = 1 /\ w[7] = 0 /\ w[8] = n /\ w[9] = 0 /\ w[10] = 0 /\ w[11] = 0 /\ w[12] = 1

(* The reader at an entry, and what a step makes of it.                    *)
AtEntry(e) == Reading(e.nm) /\ (Before(e.p, e.at0) \/ Within(e.p, e.at0, e.nm, e.q))

GoesOn(e) == outcome' = "reading" /\ left' = left /\ entries' = entries /\ AtEntry(e)'

Ends(e, mixed) == EntryEnds(e.nm, e.q, e.question, e.ty, e.d, mixed)

LEMMA EntryStep ==
  ASSUME NEW w \in Seq(Byte), NEW e, NEW mixed, IsEntry(w, e), buf \in Seq(Byte),
         Agree(buf, w, mixed),
         AtEntry(e), IsNext(e.question), mixed => e.d = <<>>, InName, ReadNext
  PROVE  buf' = buf /\ (ReadFails(w) \/ GoesOn(e) \/ Ends(e, mixed))
<1>1. PICK p, at0, q, ty \in Nat, nm \in Seq(Seq(Byte)), d \in Seq(Byte),
           question \in {e.question} :
        /\ p = e.p /\ at0 = e.at0 /\ q = e.q /\ ty = e.ty /\ nm = e.nm /\ d = e.d
        /\ question = e.question
        /\ EntryIn(w, p, at0, nm, q, question, ty, d)
  BY DEF IsEntry
<1>2. NameIn(w, p, at0, nm, q)
  BY <1>1 DEF EntryIn
<1>3. IsNext(question) /\ (mixed => d = <<>>) /\ Reading(nm)
  BY <1>1 DEF AtEntry
<1>4. CASE Before(p, at0)
  <2>1. buf' = buf /\ (NameGoesOn(p, at0, nm, q) \/ ReadFails(w))
    BY <1>2, <1>4, PointerStep
  <2> QED BY <1>1, <2>1 DEF NameGoesOn, GoesOn, AtEntry
<1>5. CASE Within(p, at0, nm, q) /\ ~AllRead(nm)
  <2>1. buf' = buf /\ (NameGoesOn(p, at0, nm, q) \/ ReadFails(w))
    BY <1>2, <1>3, <1>5, LabelStep
  <2> QED BY <1>1, <2>1 DEF NameGoesOn, GoesOn, AtEntry
<1>6. CASE Within(p, at0, nm, q) /\ AllRead(nm)
  <2>1. buf' = buf /\ (EntryEnds(nm, q, question, ty, d, mixed) \/ ReadFails(w))
    BY <1>1, <1>3, <1>6, EndStep
  <2> QED BY <1>1, <2>1 DEF Ends
<1> QED BY <1>1, <1>4, <1>5, <1>6 DEF AtEntry

(* An entry begins: its name in place, or a pointer.                       *)
LEMMA EntryBegins ==
  ASSUME NEW w \in Seq(Byte), NEW e, IsEntry(w, e),
         labels' = <<>>, pointers' = 0, seekTo' = 0, pos' = e.p
  PROVE  AtEntry(e)'
<1>1. PICK nm \in Seq(Seq(Byte)), p, at0 \in Nat : nm = e.nm /\ p = e.p /\ at0 = e.at0
  BY DEF IsEntry
<1>2. NameEnd(nm, 0) = 0
  <2>1. 0 \in 0..Len(nm)
    BY LenProperties
  <2>2. Foremost(nm, 0) = <<>>
    BY <2>1, Fronts
  <2> QED BY <2>2, VerbatimEmpty DEF NameEnd
<1>3. Len(labels') = 0 /\ labels' \in Seq(Seq(Byte)) /\ Len(nm) \in Nat
  BY EmptySeq, LenProperties
<1>4. Reading(nm)'
  <2>1. \A j \in 1..Len(labels') : FALSE
    BY <1>3
  <2>2. Len(labels') <= Len(nm)
    BY <1>3
  <2> QED BY <1>3, <2>1, <2>2 DEF Reading
<1>5. CASE at0 = p
  <2>1. Within(p, at0, nm, e.q)'
    BY <1>1, <1>2, <1>3, <1>5 DEF Within
  <2> QED BY <1>1, <1>4, <2>1 DEF AtEntry
<1>6. CASE at0 # p
  <2>1. Before(p, at0)'
    BY <1>1, <1>6 DEF Before
  <2> QED BY <1>1, <1>4, <2>1 DEF AtEntry
<1> QED BY <1>5, <1>6

(* The header tells how many entries there are.                            *)
Kinds == {"question", "rr"}

HeaderRead(n) ==
  /\ outcome' = "reading" /\ pos' = 12 /\ left' \in Seq(Kinds) /\ Len(left') = n + 2
  /\ left'[1] = "question" /\ \A i \in 2..(n + 2) : left'[i] = "rr"
  /\ labels' = labels /\ pointers' = pointers /\ seekTo' = seekTo /\ entries' = entries

LEMMA StepOfHeader ==
  ASSUME ReadHeader
  PROVE  /\ Remaining < 12 => outcome' = "eof" /\ buf' = buf
         /\ ~(Remaining < 12) =>
              /\ pos' = pos + 12
              /\ left' = [i \in 1..NumberAt(4) |-> "question"]
                         \o [i \in 1..(NumberAt(6) + NumberAt(8) + NumberAt(10)) |-> "rr"]
              /\ buf' = buf /\ labels' = labels /\ pointers' = pointers /\ seekTo' = seekTo
              /\ entries' = entries /\ outcome' = outcome
BY DEF ReadHeader, Fail

LEMMA HeaderStep ==
  ASSUME NEW w \in Seq(Byte), NEW mixed, NEW n \in {0, 1}, HeaderIn(w, n),
         buf \in Seq(Byte), Agree(buf, w, mixed), outcome = "reading", left = <<"header">>, pos = 0,
         ReadNext
  PROVE  buf' = buf /\ (ReadFails(w) \/ (HeaderRead(n) /\ 12 <= Len(buf)))
<1>1. ReadHeader
  <2>1. left # <<>> /\ Head(left) = "header"
    OBVIOUS
  <2> QED BY <2>1 DEF ReadNext, InName, ReadLabel, FollowPointer, ReadEntry, ReadReserved,
               ReadNothing, EndOfMessage
<1>2. Len(buf) \in Nat /\ Len(w) \in Nat
  BY LenProperties
<1>3. CASE Len(buf) < 12
  <2>1. Len(buf) < Len(w)
    BY <1>2, <1>3 DEF HeaderIn
  <2>2. Remaining < 12
    BY <1>2, <1>3 DEF Remaining
  <2>3. outcome' = "eof" /\ buf' = buf
    BY <1>1, <2>2, StepOfHeader
  <2> QED BY <2>1, <2>3 DEF ReadFails
<1>4. CASE ~(Len(buf) < 12)
  <2>1. /\ buf[5] = 0 /\ buf[6] = 1 /\ buf[7] = 0 /\ buf[8] = n
        /\ buf[9] = 0 /\ buf[10] = 0 /\ buf[11] = 0 /\ buf[12] = 1
    <3>1. \A i \in 5..12 : i \in 1..Len(buf)
      BY <1>2, <1>4
    <3>2. \A i \in 5..12 : w[i] \in Nat /\ w[i] < 97
      <4>1. 0 < 97 /\ 1 < 97 /\ n \in Nat /\ n < 97
        OBVIOUS
      <4>2. \A i \in 5..12 : i = 5 \/ i = 6 \/ i = 7 \/ i = 8 \/ i = 9 \/ i = 10 \/ i = 11 \/ i = 12
        OBVIOUS
      <4>3. /\ w[5] = 0 /\ w[6] = 1 /\ w[7] = 0 /\ w[8] = n
            /\ w[9] = 0 /\ w[10] = 0 /\ w[11] = 0 /\ w[12] = 1
        BY DEF HeaderIn
      <4> TAKE i \in 5..12
      <4>4. w[i] = 0 \/ w[i] = 1 \/ w[i] = n
        BY <4>2, <4>3, Zenon
      <4>5. PICK x : x = w[i]
        OBVIOUS
      <4> QED BY <4>1, <4>4, <4>5
    <3>3. \A i \in 5..12 : buf[i] = w[i]
      BY <3>1, <3>2, BelowLetters, Same
    <3>4. /\ buf[5] = w[5] /\ buf[6] = w[6] /\ buf[7] = w[7] /\ buf[8] = w[8]
          /\ buf[9] = w[9] /\ buf[10] = w[10] /\ buf[11] = w[11] /\ buf[12] = w[12]
      BY <3>3
    <3> QED BY <3>4 DEF HeaderIn
  <2>2. NumberAt(4) = 1 /\ NumberAt(6) = n /\ NumberAt(8) = 0 /\ NumberAt(10) = 1
    <3>1. /\ 4 + 1 = 5 /\ 4 + 2 = 6 /\ 6 + 1 = 7 /\ 6 + 2 = 8
          /\ 8 + 1 = 9 /\ 8 + 2 = 10 /\ 10 + 1 = 11 /\ 10 + 2 = 12
      OBVIOUS
    <3>2. /\ NumberAt(4) = 256 * buf[5] + buf[6] /\ NumberAt(6) = 256 * buf[7] + buf[8]
          /\ NumberAt(8) = 256 * buf[9] + buf[10] /\ NumberAt(10) = 256 * buf[11] + buf[12]
      BY <3>1 DEF NumberAt
    <3> QED BY <2>1, <3>2
  <2>3. ~(Remaining < 12) /\ pos + 12 = 12
    BY <1>2, <1>4 DEF Remaining
  <2>4. PICK x : x = [i \in 1..1 |-> "question"]
    OBVIOUS
  <2>5. PICK y : y = [i \in 1..(n + 0 + 1) |-> "rr"]
    OBVIOUS
  <2>6. /\ pos' = 12 /\ left' = x \o y
        /\ buf' = buf /\ labels' = labels /\ pointers' = pointers /\ seekTo' = seekTo
        /\ entries' = entries /\ outcome' = outcome
    BY <1>1, <2>2, <2>3, <2>4, <2>5, StepOfHeader
  <2>7. x \in Seq(Kinds) /\ Len(x) = 1 /\ x[1] = "question"
    BY <2>4 DEF Kinds
  <2>8. y \in Seq(Kinds) /\ Len(y) = n + 1 /\ \A i \in 1..(n + 1) : y[i] = "rr"
    BY <2>5 DEF Kinds
  <2>9. /\ Cat(x, y) \in Seq(Kinds) /\ Len(Cat(x, y)) = n + 2
        /\ Cat(x, y)[1] = "question" /\ \A i \in 2..(n + 2) : Cat(x, y)[i] = "rr"
    <3>1. Cat(x, y) \in Seq(Kinds) /\ Len(Cat(x, y)) = Len(x) + Len(y)
      BY <2>7, <2>8, CatType
    <3>2. /\ \A j \in 1..Len(x) : Cat(x, y)[j] = x[j]
          /\ \A j \in 1..Len(y) : Cat(x, y)[Len(x) + j] = y[j]
      <4>1. x \in Seq(Kinds) /\ y \in Seq(Kinds)
        BY <2>7, <2>8
      <4> QED BY <4>1, CatElements
    <3>3. Cat(x, y)[1] = "question"
      BY <2>7, <3>2
    <3>4. ASSUME NEW i \in 2..(n + 2) PROVE Cat(x, y)[i] = "rr"
      <4>1. PICK j \in 1..(n + 1) : i = 1 + j
        <5>1. i - 1 \in 1..(n + 1) /\ i = 1 + (i - 1)
          OBVIOUS
        <5> QED BY <5>1
      <4> QED BY <2>7, <2>8, <3>2, <4>1
    <3> QED BY <2>7, <2>8, <3>1, <3>3, <3>4
  <2>10. HeaderRead(n)
    BY <2>6, <2>9 DEF HeaderRead, Cat
  <2> QED BY <1>2, <1>4, <2>6, <2>10
<1> QED BY <1>3, <1>4
-----------------------------------------------------------------------------
(* Reading a whole message: n entries of which the first is the question.  *)
IsPlan(w, plan, n, mixed) ==
  /\ HeaderIn(w, n - 2)
  /\ \A k \in 1..n : /\ IsEntry(w, plan[k]) /\ (plan[k].question <=> k = 1)
                     /\ mixed => plan[k].d = <<>>
  /\ plan[1].p = 12
  /\ \A k \in 1..(n - 1) : plan[k + 1].p = EndOf(plan[k])
  /\ EndOf(plan[n]) = Len(w)

KindAt(k) == IF k = 1 THEN "question" ELSE "rr"

ReadAs(r, e, mixed) ==
  /\ r.type = e.ty /\ AlikeNames(r.name, e.nm)
  /\ ~e.question /\ ~mixed => r.data = e.d

(* The entries before the k-th have been read, the others are to be.       *)
Behind(plan, k, mixed) ==
  /\ \E S : entries \in Seq(S)
  /\ Len(entries) = k - 1
  /\ \A i \in 1..(k - 1) : ReadAs(entries[i], plan[i], mixed)

Ahead(n, k) ==
  /\ left \in Seq(Kinds) /\ Len(left) = n - k + 1
  /\ \A i \in 1..(n - k + 1) : left[i] = KindAt(k - 1 + i)

AtHeader ==
  /\ left = <<"header">> /\ pos = 0 /\ labels = <<>> /\ pointers = 0 /\ seekTo = 0
  /\ entries = <<>>

InEntry(plan, n, k, mixed) == Behind(plan, k, mixed) /\ Ahead(n, k) /\ AtEntry(plan[k])

AllBehind(w, plan, n, mixed) == Behind(plan, n + 1, mixed) /\ Len(buf) = Len(w)

ReadState(w, plan, n, mixed) ==
  \/ outcome = "reading" /\ AtHeader
  \/ outcome = "reading" /\ \E k \in 1..n : InEntry(plan, n, k, mixed)
  \/ outcome = "reading" /\ left = <<>> /\ pos = Len(w) /\ AllBehind(w, plan, n, mixed)
  \/ outcome = "done" /\ AllBehind(w, plan, n, mixed)
  \/ outcome \notin {"reading", "done"} /\ Len(buf) < Len(w)

LEMMA OneMoreBehind ==
  ASSUME NEW plan, NEW mixed, NEW k \in Nat \ {0}, Behind(plan, k, mixed), Ends(plan[k], mixed)
  PROVE  Behind(plan, k + 1, mixed)'
<1>1. PICK l, x : /\ entries' = Append(entries, [name |-> l, type |-> plan[k].ty, data |-> x])
                  /\ AlikeNames(l, plan[k].nm)
                  /\ ~plan[k].question /\ ~mixed => x = plan[k].d
  BY DEF Ends, EntryEnds
<1>2. PICK r : r = [name |-> l, type |-> plan[k].ty, data |-> x]
  OBVIOUS
<1>3. r.name = l /\ r.type = plan[k].ty /\ r.data = x
  BY <1>2
<1>4. ReadAs(r, plan[k], mixed)
  BY <1>1, <1>3 DEF ReadAs
<1>5. PICK S : entries \in Seq(S)
  BY DEF Behind
<1>6. PICK es : es = entries
  OBVIOUS
<1>7. es \in Seq(S \cup {r}) /\ Len(es) = k - 1
  <2>1. Seq(S) \subseteq Seq(S \cup {r})
    BY SeqSubset
  <2> QED BY <1>5, <1>6, <2>1 DEF Behind
<1>8. /\ Append(es, r) \in Seq(S \cup {r}) /\ Len(Append(es, r)) = Len(es) + 1
      /\ \A j \in 1..Len(es) : Append(es, r)[j] = es[j]
      /\ Append(es, r)[Len(es) + 1] = r
  <2>1. es \in Seq(S \cup {r}) /\ r \in S \cup {r}
    BY <1>7
  <2> QED BY <2>1, AppendProperties
<1>9. ASSUME NEW i \in 1..k PROVE ReadAs(Append(es, r)[i], plan[i], mixed)
  <2>1. CASE i = k
    BY <1>4, <1>7, <1>8, <2>1
  <2>2. CASE i # k
    <3>1. i \in 1..(k - 1)
      BY <2>2
    <3>2. ReadAs(es[i], plan[i], mixed)
      BY <1>6, <3>1 DEF Behind
    <3> QED BY <1>7, <1>8, <3>1, <3>2
  <2> QED BY <2>1, <2>2
<1>10. entries' = Append(es, r)
  BY <1>1, <1>2, <1>6
<1>11. k + 1 - 1 = k
  OBVIOUS
<1>12. Len(entries') = k
  BY <1>7, <1>8, <1>10
<1>13. \E T : entries' \in Seq(T)
  BY <1>8, <1>10
<1>14. \A i \in 1..k : ReadAs(entries'[i], plan[i], mixed)
  BY <1>9, <1>10
<1> QED BY <1>11, <1>12, <1>13, <1>14 DEF Behind

LEMMA OneLessAhead ==
  ASSUME NEW n \in Nat, NEW k \in 1..n, Ahead(n, k), left' = Tail(left)
  PROVE  Ahead(n, k + 1)' /\ left # <<>> /\ Head(left) = KindAt(k) /\ (k = n => left' = <<>>)
<1>1. PICK ll \in Seq(Kinds) : ll = left
  BY DEF Ahead
<1>2. Len(ll) = n - k + 1 /\ \A i \in 1..(n - k + 1) : ll[i] = KindAt(k - 1 + i)
  BY <1>1 DEF Ahead
<1>3. ll # <<>>
  BY <1>2, EmptySeq
<1>4. /\ Head(ll) \in Kinds /\ Tail(ll) \in Seq(Kinds) /\ Len(Tail(ll)) = Len(ll) - 1
      /\ \A i \in 1..Len(Tail(ll)) : Tail(ll)[i] = ll[i + 1]
  BY <1>3, HeadTailProperties
<1>5. Head(ll) = ll[1]
  BY <1>3
<1>6. ll[1] = KindAt(k)
  <2>1. 1 \in 1..(n - k + 1) /\ k - 1 + 1 = k
    OBVIOUS
  <2> QED BY <1>2, <2>1
<1>7. Len(Tail(ll)) = n - (k + 1) + 1
  BY <1>2, <1>4
<1>8. \A i \in 1..(n - (k + 1) + 1) : Tail(ll)[i] = KindAt((k + 1) - 1 + i)
  <2> TAKE i \in 1..(n - (k + 1) + 1)
  <2>1. i \in 1..Len(Tail(ll)) /\ i + 1 \in 1..(n - k + 1) /\ k - 1 + (i + 1) = (k + 1) - 1 + i
    BY <1>7
  <2> QED BY <1>2, <1>4, <2>1
<1>9. k = n => Tail(ll) = <<>>
  <2> SUFFICES ASSUME k = n PROVE Tail(ll) = <<>>
    OBVIOUS
  <2>1. PICK tl \in Seq(Kinds) : tl = Tail(ll)
    BY <1>4
  <2>2. Len(tl) = 0
    BY <1>7, <2>1
  <2> QED BY <2>1, <2>2, EmptySeq
<1> QED BY <1>1, <1>3, <1>4, <1>5, <1>6, <1>7, <1>8, <1>9 DEF Ahead

LEMMA StepInEntry ==
  ASSUME NEW w \in Seq(Byte), NEW plan, NEW n \in {2, 3}, NEW mixed, IsPlan(w, plan, n, mixed),
         buf \in Seq(Byte), Agree(buf, w, mixed),
         outcome = "reading", NEW k \in 1..n, InEntry(plan, n, k, mixed), ReadNext
  PROVE  buf' = buf /\ ReadState(w, plan, n, mixed)'
<1>0. n \in Nat /\ k \in Nat \ {0}
  OBVIOUS
<1>1. PICK e : e = plan[k]
  OBVIOUS
<1>2. IsEntry(w, e) /\ (e.question <=> k = 1) /\ (mixed => e.d = <<>>)
  BY <1>1 DEF IsPlan
<1>3. left # <<>> /\ Head(left) = KindAt(k)
  <2>1. PICK ll \in Seq(Kinds) : ll = left
    BY DEF InEntry, Ahead
  <2>2. Len(ll) = n - k + 1 /\ \A i \in 1..(n - k + 1) : ll[i] = KindAt(k - 1 + i)
    BY <2>1 DEF InEntry, Ahead
  <2>3. ll # <<>>
    BY <1>0, <2>2, EmptySeq
  <2>4. 1 \in 1..(n - k + 1) /\ k - 1 + 1 = k
    BY <1>0
  <2>5. ll[1] = KindAt(k)
    BY <2>2, <2>4
  <2> QED BY <2>1, <2>3, <2>5
<1>4. IsNext(e.question)
  BY <1>2, <1>3 DEF IsNext, KindAt
<1>5. InName
  BY <1>3 DEF InName, KindAt
<1>6. AtEntry(e)
  BY <1>1 DEF InEntry
<1>7. buf' = buf /\ (ReadFails(w) \/ GoesOn(e) \/ Ends(e, mixed))
  BY <1>2, <1>4, <1>5, <1>6, EntryStep
<1>8. CASE ReadFails(w)
  <2>1. (Len(buf) < Len(w))'
    BY <1>7, <1>8 DEF ReadFails
  <2> QED BY <1>7, <1>8, <2>1 DEF ReadState, ReadFails
<1>9. CASE GoesOn(e)
  <2>1. Behind(plan, k, mixed)'
    BY <1>9 DEF GoesOn, InEntry, Behind
  <2>2. Ahead(n, k)'
    BY <1>9 DEF GoesOn, InEntry, Ahead
  <2>3. AtEntry(plan[k])'
    BY <1>1, <1>9 DEF GoesOn
  <2>4. InEntry(plan, n, k, mixed)'
    BY <2>1, <2>2, <2>3 DEF InEntry
  <2>5. outcome' = "reading"
    BY <1>9 DEF GoesOn
  <2> QED BY <1>7, <2>4, <2>5 DEF ReadState
<1>10. CASE Ends(e, mixed)
  <2>1. /\ outcome' = "reading" /\ left' = Tail(left)
        /\ labels' = <<>> /\ pointers' = 0 /\ seekTo' = 0
        /\ pos' = EndOf(e) /\ pos' <= Len(buf)
    BY <1>10 DEF Ends, EntryEnds, EndOf
  <2>2. Behind(plan, k + 1, mixed)'
    <3>1. Behind(plan, k, mixed) /\ Ends(plan[k], mixed)
      BY <1>1, <1>10 DEF InEntry
    <3> QED BY <1>0, <3>1, OneMoreBehind
  <2>3. Ahead(n, k + 1)' /\ (k = n => left' = <<>>)
    <3>1. Ahead(n, k)
      BY DEF InEntry
    <3> QED BY <1>0, <2>1, <3>1, OneLessAhead
  <2>4. CASE k # n
    <3>1. k + 1 \in 1..n /\ k \in 1..(n - 1)
      BY <1>0, <2>4
    <3>2. IsEntry(w, plan[k + 1]) /\ plan[k + 1].p = EndOf(e)
      BY <1>1, <3>1 DEF IsPlan
    <3>3. AtEntry(plan[k + 1])'
      BY <2>1, <3>2, EntryBegins
    <3>4. InEntry(plan, n, k + 1, mixed)'
      BY <2>2, <2>3, <3>3 DEF InEntry
    <3> QED BY <1>7, <2>1, <3>1, <3>4 DEF ReadState
  <2>5. CASE k = n
    <3>1. pos' = Len(w) /\ left' = <<>>
      BY <1>1, <2>1, <2>3, <2>5 DEF IsPlan
    <3>2. Len(buf) = Len(w)
      <4>1. Len(buf) \in Nat /\ Len(w) \in Nat /\ Len(buf) <= Len(w)
        BY LenProperties DEF Agree
      <4> QED BY <2>1, <3>1, <4>1
    <3>3. AllBehind(w, plan, n, mixed)'
      BY <1>7, <2>2, <2>5, <3>2 DEF AllBehind
    <3> QED BY <1>7, <2>1, <3>1, <3>3 DEF ReadState
  <2> QED BY <2>4, <2>5
<1> QED BY <1>7, <1>8, <1>9, <1>10

LEMMA StepAtEnd ==
  ASSUME NEW w \in Seq(Byte), NEW plan, NEW n, NEW mixed, outcome = "reading", left = <<>>,
         pos = Len(w), AllBehind(w, plan, n, mixed), ReadNext
  PROVE  buf' = buf /\ ReadState(w, plan, n, mixed)'
<1>1. EndOfMessage
  BY DEF ReadNext, InName, ReadHeader, ReadLabel, FollowPointer, ReadEntry, ReadReserved, ReadNothing
<1>2. ~(Remaining > 0)
  <2>1. Len(w) \in Nat /\ Len(buf) = Len(w)
    BY LenProperties DEF AllBehind
  <2> QED BY <2>1 DEF Remaining
<1>3. outcome' = "done" /\ buf' = buf /\ entries' = entries
  BY <1>1, <1>2 DEF EndOfMessage
<1>4. AllBehind(w, plan, n, mixed)'
  BY <1>3 DEF AllBehind, Behind
<1> QED BY <1>3, <1>4 DEF ReadState

LEMMA StepAtHeader ==
  ASSUME NEW w \in Seq(Byte), NEW plan, NEW n \in {2, 3}, NEW mixed, IsPlan(w, plan, n, mixed),
         buf \in Seq(Byte), Agree(buf, w, mixed), outcome = "reading", AtHeader, ReadNext
  PROVE  buf' = buf /\ ReadState(w, plan, n, mixed)'
<1>1. n - 2 \in {0, 1} /\ n - 2 + 2 = n /\ HeaderIn(w, n - 2) /\ n - 1 + 1 = n /\ 1 \in 1..n
  BY DEF IsPlan
<1>2. PICK h \in {0, 1} : h = n - 2
  BY <1>1
<1>3. buf' = buf /\ (ReadFails(w) \/ (HeaderRead(h) /\ 12 <= Len(buf)))
  <2>1. left = <<"header">> /\ pos = 0 /\ HeaderIn(w, h)
    BY <1>1, <1>2 DEF AtHeader
  <2> QED BY <2>1, HeaderStep
<1>4. CASE ReadFails(w)
  <2>1. (Len(buf) < Len(w))'
    BY <1>3, <1>4 DEF ReadFails
  <2> QED BY <1>3, <1>4, <2>1 DEF ReadState, ReadFails
<1>5. CASE HeaderRead(h)
  <2>1. /\ outcome' = "reading" /\ pos' = 12 /\ labels' = <<>> /\ pointers' = 0 /\ seekTo' = 0
        /\ entries' = <<>>
    BY <1>5 DEF HeaderRead, AtHeader
  <2>2. IsEntry(w, plan[1]) /\ plan[1].p = 12
    BY <1>1 DEF IsPlan
  <2>3. AtEntry(plan[1])'
    BY <2>1, <2>2, EntryBegins
  <2>4. Ahead(n, 1)'
    <3>1. left' \in Seq(Kinds) /\ Len(left') = n
      BY <1>1, <1>2, <1>5 DEF HeaderRead
    <3>2. \A i \in 1..n : left'[i] = KindAt(i)
      <4> TAKE i \in 1..n
      <4>1. CASE i = 1
        BY <1>5, <4>1 DEF HeaderRead, KindAt
      <4>2. CASE i # 1
        <5>1. i \in 2..(h + 2)
          BY <1>2, <4>2
        <5> QED BY <1>5, <4>2, <5>1 DEF HeaderRead, KindAt
      <4> QED BY <4>1, <4>2
    <3>3. n - 1 + 1 = n /\ \A i \in 1..n : 1 - 1 + i = i
      BY <1>1
    <3> QED BY <3>1, <3>2, <3>3 DEF Ahead
  <2>5. Behind(plan, 1, mixed)'
    <3>1. entries' \in Seq(Nat) /\ Len(entries') = 1 - 1
      BY <2>1
    <3>2. \A i \in 1..(1 - 1) : FALSE
      OBVIOUS
    <3> QED BY <3>1, <3>2 DEF Behind
  <2>6. InEntry(plan, n, 1, mixed)'
    BY <2>3, <2>4, <2>5 DEF InEntry
  <2> QED BY <1>1, <1>3, <2>1, <2>6 DEF ReadState
<1> QED BY <1>3, <1>4, <1>5

LEMMA ReadStep ==
  ASSUME NEW w \in Seq(Byte), NEW plan, NEW n \in {2, 3}, NEW mixed, IsPlan(w, plan, n, mixed),
         buf \in Seq(Byte), Agree(buf, w, mixed), ReadState(w, plan, n, mixed), ReadNext
  PROVE  buf' = buf /\ ReadState(w, plan, n, mixed)'
<1>1. outcome = "reading"
  BY DEF ReadNext, InName, ReadHeader, ReadLabel, FollowPointer, ReadEntry, ReadReserved,
         ReadNothing, EndOfMessage
<1>2. CASE AtHeader
  BY <1>1, <1>2, StepAtHeader
<1>3. CASE \E k \in 1..n : InEntry(plan, n, k, mixed)
  BY <1>1, <1>3, StepInEntry
<1>4. CASE left = <<>> /\ pos = Len(w) /\ AllBehind(w, plan, n, mixed)
  BY <1>1, <1>4, StepAtEnd
<1> QED BY <1>1, <1>2, <1>3, <1>4 DEF ReadState
-----------------------------------------------------------------------------
(* The layout of what is written.                                          *)
QuestionAt(nm) ==
  [p |-> 12, at0 |-> 12, nm |-> nm, q |-> Len(Verbatim(nm)) + 13, ty |-> 16, d |-> <<>>,
   question |-> TRUE]
AnswerAt(nm, d) ==
  LET p == Len(Verbatim(nm)) + 17 IN
  [p |-> p, at0 |-> IF nm = <<>> THEN p ELSE 12, nm |-> nm, q |-> p + SameLength(nm), ty |-> 16,
   d |-> d, question |-> FALSE]
OptAt(p) ==
  [p |-> p, at0 |-> p, nm |-> <<>>, q |-> p + 1, ty |-> 41, d |-> <<>>, question |-> FALSE]

LEMMA HoldsAll ==
  ASSUME NEW X, NEW w \in Seq(X)
  PROVE  Holds(w, 0, w)
<1>1. Len(w) \in Nat
  BY LenProperties
<1>2. \A j \in 1..Len(w) : 0 + j = j
  BY <1>1
<1> QED BY <1>1, <1>2 DEF Holds

LEMMA HoldsOne ==
  ASSUME NEW w, NEW p \in Nat, Holds(w, p, << 0 >>)
  PROVE  p + 1 <= Len(w) /\ w[p + 1] = 0
<1>1. PICK z \in Seq(Byte) : z = <<0>>
  <2>1. <<0>> \in Seq(Byte)
    BY DEF Byte
  <2> QED BY <2>1
<1>2. Len(z) = 1 /\ z[1] = 0
  BY <1>1
<1>3. Holds(w, p, z) /\ 1 \in 1..1
  BY <1>1
<1> QED BY <1>2, <1>3 DEF Holds

LEMMA AskedHolds ==
  ASSUME NEW w \in Seq(Byte), NEW nm \in Seq(Seq(Byte)), NEW n \in {0, 1}, Holds(w, 0, Asked1(nm, n))
  PROVE  /\ Holds(w, 0, Header(n)) /\ Holds(w, 12, FullName(nm))
         /\ Holds(w, Len(Verbatim(nm)) + 13, QuestionFields)
<1>1. PICK h \in Seq(Byte), v \in Seq(Byte), e \in Seq(Byte) :
        h = Header(n) /\ v = FullName(nm) /\ e = QuestionFields
  BY HeaderIs, NameTypes, QuestionFieldsAre
<1>2. PICK l \in Nat : l = Len(Verbatim(nm))
  BY VerbatimType, LenProperties
<1>3. Len(h) = 12 /\ Len(v) = l + 1
  BY <1>1, <1>2, HeaderIs, NameTypes
<1>4. PICK hv \in Seq(Byte) : hv = Cat(h, v) /\ Len(hv) = Len(h) + Len(v)
  BY CatType
<1>5. Holds(w, 0, Cat(hv, e))
  BY <1>1, <1>4 DEF Asked1
<1>6. Holds(w, 0, hv) /\ Holds(w, 0 + Len(hv), e)
  BY <1>5, HoldsParts
<1>7. Holds(w, 0, h) /\ Holds(w, 0 + Len(h), v)
  <2>1. Holds(w, 0, Cat(h, v))
    BY <1>4, <1>6
  <2> QED BY <2>1, HoldsParts
<1>8. 0 + Len(h) = 12 /\ 0 + Len(hv) = l + 13
  BY <1>3, <1>4
<1> QED BY <1>1, <1>2, <1>6, <1>7, <1>8

LEMMA HeaderHeld ==
  ASSUME NEW w \in Seq(Byte), NEW n \in {0, 1}, Holds(w, 0, Header(n))
  PROVE  HeaderIn(w, n)
<1>1. PICK h \in Seq(Byte) : h = Header(n)
  BY HeaderIs
<1>2. /\ Len(h) = 12 /\ h[5] = 0 /\ h[6] = 1 /\ h[7] = 0 /\ h[8] = n
      /\ h[9] = 0 /\ h[10] = 0 /\ h[11] = 0 /\ h[12] = 1
  BY <1>1, HeaderIs
<1>3. Holds(w, 0, h) /\ Len(w) \in Nat
  BY <1>1, LenProperties
<1>4. 12 <= Len(w) /\ \A j \in 1..12 : w[0 + j] = h[j]
  BY <1>2, <1>3 DEF Holds
<1>5. \A j \in 5..12 : w[j] = h[j]
  <2> TAKE j \in 5..12
  <2>1. j \in 1..12 /\ 0 + j = j
    OBVIOUS
  <2> QED BY <1>4, <2>1
<1>6. /\ w[5] = h[5] /\ w[6] = h[6] /\ w[7] = h[7] /\ w[8] = h[8]
      /\ w[9] = h[9] /\ w[10] = h[10] /\ w[11] = h[11] /\ w[12] = h[12]
  BY <1>5
<1> QED BY <1>2, <1>4, <1>6 DEF HeaderIn

LEMMA QuestionHeld ==
  ASSUME NEW w \in Seq(Byte), NEW nm \in Seq(Seq(Byte)), NEW n \in {0, 1}, NewName(nm) = "ok",
         Holds(w, 0, Asked1(nm, n))
  PROVE  IsEntry(w, QuestionAt(nm)) /\ EndOf(QuestionAt(nm)) = Len(Verbatim(nm)) + 17
<1>1. PICK l \in Nat : l = Len(Verbatim(nm))
  BY VerbatimType, LenProperties
<1>2. Holds(w, 12, FullName(nm)) /\ Holds(w, l + 13, QuestionFields)
  BY <1>1, AskedHolds
<1>3. l + 17 <= Len(w) /\ w[l + 14] = 0 /\ w[l + 15] = 16
  <2>1. PICK f \in Seq(Byte) : f = QuestionFields
    BY QuestionFieldsAre
  <2>2. Len(f) = 4 /\ f[1] = 0 /\ f[2] = 16
    BY <2>1, QuestionFieldsAre
  <2>3. l + 13 + 4 <= Len(w) /\ \A j \in 1..4 : w[l + 13 + j] = f[j]
    BY <1>2, <2>1, <2>2 DEF Holds
  <2>4. w[l + 13 + 1] = f[1] /\ w[l + 13 + 2] = f[2]
    BY <2>3
  <2>5. l + 13 + 1 = l + 14 /\ l + 13 + 2 = l + 15 /\ l + 13 + 4 = l + 17
    OBVIOUS
  <2> QED BY <2>2, <2>3, <2>4, <2>5
<1>4. NameIn(w, 12, 12, nm, l + 13)
  <2>1. Len(w) \in Nat
    BY LenProperties
  <2>2. l + 13 = 12 + Len(Verbatim(nm)) + 1 /\ l + 13 <= Len(w)
    BY <1>1, <1>3, <2>1
  <2> QED BY <1>2, <2>2 DEF NameIn
<1>5. EntryIn(w, 12, 12, nm, l + 13, TRUE, 16, <<>>)
  <2>1. l + 13 + 1 = l + 14 /\ l + 13 + 2 = l + 15 /\ l + 13 + 4 = l + 17 /\ 16 < 97
    OBVIOUS
  <2> QED BY <1>3, <1>4, <2>1 DEF EntryIn
<1>6. PICK e : e = QuestionAt(nm)
  OBVIOUS
<1>7. /\ e.p = 12 /\ e.at0 = 12 /\ e.nm = nm /\ e.q = l + 13 /\ e.ty = 16 /\ e.d = <<>>
      /\ e.question = TRUE
  BY <1>1, <1>6 DEF QuestionAt
<1>8. l + 13 \in Nat /\ <<>> \in Seq(Byte) /\ l + 13 + 4 = l + 17
  OBVIOUS
<1>9. IsEntry(w, e)
  <2>1. EntryIn(w, e.p, e.at0, e.nm, e.q, e.question, e.ty, e.d)
    BY <1>5, <1>7, Zenon
  <2> QED BY <1>7, <1>8, <2>1 DEF IsEntry
<1>10. EndOf(e) = l + 17
  BY <1>7, <1>8 DEF EndOf, FieldsSize
<1> QED BY <1>1, <1>6, <1>9, <1>10

LEMMA OptHeld ==
  ASSUME NEW w \in Seq(Byte), NEW p \in Nat, Holds(w, p, << 0 >>), Holds(w, p + 1, OptFields)
  PROVE  IsEntry(w, OptAt(p)) /\ EndOf(OptAt(p)) = p + 11
<1>1. PICK root \in Seq(Seq(Byte)), none \in Seq(Byte) : root = <<>> /\ none = <<>>
  BY EmptySeq
<1>2. Verbatim(root) = none /\ Len(none) = 0 /\ DOMAIN root = {}
  BY <1>1, VerbatimEmpty
<1>3. NewName(root) = "ok"
  <2>1. Len(Verbatim(root)) + 1 = 1
    BY <1>2
  <2> QED BY <1>2, <2>1 DEF NewName, MaxName
<1>4. Holds(w, p, FullName(root))
  <2>1. PICK z \in Seq(Byte) : z = <<0>>
    <3>1. <<0>> \in Seq(Byte)
      BY DEF Byte
    <3> QED BY <3>1
  <2>2. Cat(<<>>, z) = z
    BY CatEmpty
  <2> QED BY <1>1, <1>2, <2>1, <2>2 DEF FullName
<1>5. /\ p + 11 <= Len(w) /\ w[p + 2] = 0 /\ w[p + 3] = 41 /\ w[p + 10] = 0 /\ w[p + 11] = 0
  <2>1. PICK f \in Seq(Byte) : f = OptFields
    BY OptFieldsAre
  <2>2. Len(f) = 10 /\ f[1] = 0 /\ f[2] = 41 /\ f[9] = 0 /\ f[10] = 0
    BY <2>1, OptFieldsAre
  <2>3. p + 1 + 10 <= Len(w) /\ \A j \in 1..10 : w[p + 1 + j] = f[j]
    BY <2>1, <2>2 DEF Holds
  <2>4. w[p + 1 + 1] = f[1] /\ w[p + 1 + 2] = f[2] /\ w[p + 1 + 9] = f[9] /\ w[p + 1 + 10] = f[10]
    BY <2>3
  <2>5. p + 1 + 1 = p + 2 /\ p + 1 + 2 = p + 3 /\ p + 1 + 9 = p + 10 /\ p + 1 + 10 = p + 11
    OBVIOUS
  <2> QED BY <2>2, <2>3, <2>4, <2>5
<1>6. NameIn(w, p, p, root, p + 1)
  <2>1. Len(w) \in Nat
    BY LenProperties
  <2>2. p + 1 = p + Len(Verbatim(root)) + 1 /\ p + 1 <= Len(w)
    BY <1>2, <1>5, <2>1
  <2> QED BY <1>3, <1>4, <2>2 DEF NameIn
<1>7. EntryIn(w, p, p, root, p + 1, FALSE, 41, none)
  <2>1. p + 1 + 1 = p + 2 /\ p + 1 + 2 = p + 3 /\ p + 1 + 9 = p + 10 /\ p + 1 + 10 = p + 11
        /\ p + 1 + 10 + 0 = p + 11 /\ 41 < 97 /\ 0 \div 256 = 0 /\ 0 % 256 = 0
    OBVIOUS
  <2>2. \A i \in 1..0 : FALSE
    OBVIOUS
  <2>3. w[p + 1 + 9] = Len(none) \div 256 /\ w[p + 1 + 10] = Len(none) % 256
    BY <1>2, <1>5, <2>1
  <2>4. p + 1 + 10 + Len(none) <= Len(w)
    BY <1>2, <1>5, <2>1
  <2>5. w[p + 1 + 1] = 0 /\ w[p + 1 + 2] = 41
    BY <1>5, <2>1
  <2>6. \A i \in 1..Len(none) : w[p + 1 + 10 + i] = none[i]
    BY <1>2, <2>2
  <2>7. 41 < 97
    OBVIOUS
  <2> QED BY <1>6, <2>3, <2>4, <2>5, <2>6, <2>7 DEF EntryIn
<1>8. PICK e : e = OptAt(p)
  OBVIOUS
<1>9. /\ e.p = p /\ e.at0 = p /\ e.nm = root /\ e.q = p + 1 /\ e.ty = 41 /\ e.d = none
      /\ e.question = FALSE
  BY <1>1, <1>8 DEF OptAt
<1>10. p + 1 \in Nat /\ p + 1 + (10 + 0) = p + 11
  OBVIOUS
<1>11. IsEntry(w, e)
  <2>1. EntryIn(w, e.p, e.at0, e.nm, e.q, e.question, e.ty, e.d)
    BY <1>7, <1>9, Zenon
  <2> QED BY <1>9, <1>10, <2>1 DEF IsEntry
<1>12. EndOf(e) = p + 11
  BY <1>2, <1>9, <1>10 DEF EndOf, FieldsSize
<1> QED BY <1>8, <1>11, <1>12
-----------------------------------------------------------------------------
LEMMA AnswerHeld ==
  ASSUME NEW w \in Seq(Byte), NEW nm \in Seq(Seq(Byte)), NEW d \in Seq(Byte), NewName(nm) = "ok",
         Holds(w, 12, FullName(nm)), NEW p \in Nat, p = Len(Verbatim(nm)) + 17,
         Holds(w, p, SameName(nm)), Holds(w, p + SameLength(nm), DataHead(Len(d))),
         Holds(w, p + SameLength(nm) + 10, d)
  PROVE  /\ IsEntry(w, AnswerAt(nm, d))
         /\ EndOf(AnswerAt(nm, d)) = p + SameLength(nm) + 10 + Len(d)
<1>1. PICK q \in Nat, n \in Nat : q = p + SameLength(nm) /\ n = Len(d)
  <2>1. SameLength(nm) \in Nat
    BY DEF SameLength
  <2> QED BY <2>1, LenProperties
<1>2. /\ q + 10 + n <= Len(w) /\ w[q + 1] = 0 /\ w[q + 2] = 16
      /\ w[q + 9] = n \div 256 /\ w[q + 10] = n % 256
      /\ \A i \in 1..n : w[q + 10 + i] = d[i]
  <2>0. /\ DataHead(n) \in Seq(Byte) /\ Len(DataHead(n)) = 10
        /\ DataHead(n)[1] = 0 /\ DataHead(n)[2] = 16
        /\ DataHead(n)[9] = n \div 256 /\ DataHead(n)[10] = n % 256
    BY DataHeadIs, Zenon
  <2>1. PICK h \in Seq(Byte) : h = DataHead(n)
    BY <2>0
  <2>2. Len(h) = 10 /\ h[1] = 0 /\ h[2] = 16 /\ h[9] = n \div 256 /\ h[10] = n % 256
    BY <2>0, <2>1, Zenon
  <2>3. Holds(w, q, h) /\ Holds(w, q + 10, d)
    BY <1>1, <2>1
  <2>4. \A j \in 1..10 : w[q + j] = h[j]
    BY <2>2, <2>3 DEF Holds
  <2>5. w[q + 1] = h[1] /\ w[q + 2] = h[2] /\ w[q + 9] = h[9] /\ w[q + 10] = h[10]
    BY <2>4
  <2>6. q + 10 + n <= Len(w) /\ \A i \in 1..n : w[q + 10 + i] = d[i]
    BY <1>1, <2>3 DEF Holds
  <2> QED BY <2>2, <2>5, <2>6
<1>3. PICK at0 \in Nat : at0 = (IF nm = <<>> THEN p ELSE 12)
  OBVIOUS
<1>0. Len(w) \in Nat
  BY LenProperties
<1>4. NameIn(w, p, at0, nm, q)
  <2>1. CASE nm = <<>>
    <3>1. PICK none \in Seq(Byte) : none = <<>>
      BY EmptySeq
    <3>2. Verbatim(nm) = none /\ Len(none) = 0
      BY <2>1, <3>1, VerbatimEmpty
    <3>3. FullName(nm) = <<0>>
      <4>1. PICK z \in Seq(Byte) : z = <<0>>
        <5>1. <<0>> \in Seq(Byte)
          BY DEF Byte
        <5> QED BY <5>1
      <4>2. Cat(<<>>, z) = z
        BY CatEmpty
      <4> QED BY <3>1, <3>2, <4>1, <4>2 DEF FullName
    <3>4. Holds(w, p, FullName(nm))
      BY <2>1, <3>3 DEF SameName
    <3>5. q = p + 1 /\ at0 = p
      BY <1>1, <1>3, <2>1 DEF SameLength
    <3>6. q = p + Len(Verbatim(nm)) + 1 /\ q <= Len(w)
      BY <1>0, <1>2, <1>1, <3>2, <3>5
    <3> QED BY <3>4, <3>5, <3>6 DEF NameIn
  <2>2. CASE nm # <<>>
    <3>1. at0 = 12 /\ q = p + 2
      BY <1>1, <1>3, <2>2 DEF SameLength
    <3>2. p # 12 /\ p >= 17
      <4>1. Len(Verbatim(nm)) \in Nat
        BY VerbatimType, LenProperties
      <4> QED BY <4>1
    <3>3. w[p + 1] = 192 /\ w[p + 2] = 12
      <4>1. PICK t \in Seq(Byte) : t = Two(49152 + 12)
        BY TwoType
      <4>2. Len(t) = 2 /\ t[1] = 192 /\ t[2] = 12
        <5>1. 49152 + 12 = 49164 /\ 49164 \div 256 = 192 /\ 49164 % 256 = 12 /\ 49152 + 12 \in Nat
          OBVIOUS
        <5>2. Len(t) = 2 /\ t[1] = (49152 + 12) \div 256 /\ t[2] = (49152 + 12) % 256
          <6>1. PICK m \in Nat : m = 49152 + 12
            OBVIOUS
          <6>2. Len(t) = 2 /\ t[1] = m \div 256 /\ t[2] = m % 256
            <7>1. t = Two(m)
              BY <4>1, <6>1
            <7>2. /\ Two(m) \in Seq(Byte) /\ Len(Two(m)) = 2
                  /\ Two(m)[1] = m \div 256 /\ Two(m)[2] = m % 256
              BY TwoType, Zenon
            <7> QED BY <7>1, <7>2, Zenon
          <6> QED BY <6>1, <6>2
        <5> QED BY <5>1, <5>2
      <4>3. Holds(w, p, t)
        BY <2>2, <4>1 DEF SameName
      <4>4. \A j \in 1..2 : w[p + j] = t[j]
        BY <4>2, <4>3 DEF Holds
      <4> QED BY <4>2, <4>4
    <3>4. q <= Len(w) /\ 12 < 97
      <4>1. PICK z \in Nat : z = Len(w)
        BY <1>0
      <4>2. q + 10 + n <= z
        BY <1>2, <4>1
      <4>3. q <= z
        BY <4>2
      <4> QED BY <4>1, <4>3
    <3> QED BY <3>1, <3>2, <3>3, <3>4 DEF NameIn
  <2> QED BY <2>1, <2>2
<1>5. EntryIn(w, p, at0, nm, q, FALSE, 16, d)
  <2>1. 16 < 97
    OBVIOUS
  <2>2. w[q + 9] = Len(d) \div 256 /\ w[q + 10] = Len(d) % 256
    BY <1>1, <1>2
  <2>3. q + 10 + Len(d) <= Len(w)
    BY <1>1, <1>2
  <2>4. \A i \in 1..Len(d) : w[q + 10 + i] = d[i]
    BY <1>1, <1>2
  <2> QED BY <1>2, <1>4, <2>1, <2>2, <2>3, <2>4 DEF EntryIn
<1>6. PICK e : e = AnswerAt(nm, d)
  OBVIOUS
<1>7. /\ e.p = p /\ e.at0 = at0 /\ e.nm = nm /\ e.q = q /\ e.ty = 16 /\ e.d = d
      /\ e.question = FALSE
  BY <1>1, <1>3, <1>6 DEF AnswerAt
<1>8. IsEntry(w, e)
  <2>1. EntryIn(w, e.p, e.at0, e.nm, e.q, e.question, e.ty, e.d)
    BY <1>5, <1>7, Zenon
  <2> QED BY <1>7, <2>1 DEF IsEntry
<1>9. EndOf(e) = q + (10 + Len(d))
  BY <1>7 DEF EndOf, FieldsSize
<1>10. EndOf(e) = p + SameLength(nm) + 10 + Len(d)
  <2>1. PICK m \in Nat : m = SameLength(nm)
    BY DEF SameLength
  <2>2. p + m + (10 + n) = p + m + 10 + n
    OBVIOUS
  <2>3. q = p + m
    BY <1>1, <2>1
  <2> QED BY <1>1, <1>9, <2>1, <2>2, <2>3
<1> QED BY <1>6, <1>8, <1>10
-----------------------------------------------------------------------------
QueryPlan(nm) == <<QuestionAt(nm), OptAt(Len(Verbatim(nm)) + 17)>>
ResponsePlan(nm, d) ==
  <<QuestionAt(nm), AnswerAt(nm, d),
    OptAt(Len(Verbatim(nm)) + 17 + SameLength(nm) + 10 + Len(d))>>

LEMMA QueryLaid ==
  ASSUME NEW nm \in Seq(Seq(Byte)), NewName(nm) = "ok", NEW mixed
  PROVE  IsPlan(QueryOctets(nm), QueryPlan(nm), 2, mixed)
<1>1. PICK l \in Nat : l = Len(Verbatim(nm))
  BY VerbatimType, LenProperties
<1>2. PICK a \in Seq(Byte), z \in Seq(Byte), o \in Seq(Byte) :
        a = Asked1(nm, 0) /\ z = <<0>> /\ o = OptFields
  <2>1. <<0>> \in Seq(Byte)
    BY DEF Byte
  <2> QED BY <2>1, AskedType, OptFieldsAre
<1>3. Len(a) = l + 17 /\ Len(z) = 1 /\ Len(o) = 10
  BY <1>1, <1>2, AskedType, OptFieldsAre
<1>4. PICK az \in Seq(Byte) : az = Cat(a, z) /\ Len(az) = Len(a) + Len(z)
  BY CatType
<1>5. PICK w \in Seq(Byte) : w = Cat(az, o) /\ Len(w) = Len(az) + Len(o)
  BY CatType
<1>6. w = QueryOctets(nm) /\ Len(w) = l + 28 /\ Len(az) = l + 18
  BY <1>2, <1>3, <1>4, <1>5 DEF QueryOctets
<1>7. Holds(w, 0, a) /\ Holds(w, l + 17, z) /\ Holds(w, l + 18, o)
  <2>1. Holds(a, 0, a)
    BY HoldsAll
  <2>2. Holds(az, 0, a)
    BY <1>4, <2>1, HoldsStays
  <2>3. Holds(w, 0, a)
    BY <1>5, <2>2, HoldsStays
  <2>4. Holds(az, Len(a), z)
    BY <1>4, HoldsEnd
  <2>5. Holds(az, l + 17, z)
    BY <1>3, <2>4
  <2>6. Holds(w, l + 17, z)
    BY <1>5, <2>5, HoldsStays
  <2>7. Holds(w, Len(az), o)
    BY <1>5, HoldsEnd
  <2> QED BY <1>6, <2>3, <2>6, <2>7
<1>8. HeaderIn(w, 0)
  BY <1>2, <1>7, AskedHolds, HeaderHeld
<1>9. IsEntry(w, QuestionAt(nm)) /\ EndOf(QuestionAt(nm)) = l + 17
  BY <1>1, <1>2, <1>7, QuestionHeld
<1>10. IsEntry(w, OptAt(l + 17)) /\ EndOf(OptAt(l + 17)) = l + 28
  <2>1. PICK p \in Nat : p = l + 17
    OBVIOUS
  <2>2. Holds(w, p, <<0>>) /\ Holds(w, p + 1, OptFields) /\ p + 11 = l + 28
    BY <1>2, <1>7, <2>1
  <2> QED BY <2>1, <2>2, OptHeld
<1>11. PICK plan : plan = QueryPlan(nm)
  OBVIOUS
<1>12. plan[1] = QuestionAt(nm) /\ plan[2] = OptAt(l + 17)
  BY <1>1, <1>11 DEF QueryPlan
<1>13. /\ QuestionAt(nm).question = TRUE /\ QuestionAt(nm).d = <<>> /\ QuestionAt(nm).p = 12
       /\ OptAt(l + 17).question = FALSE /\ OptAt(l + 17).d = <<>> /\ OptAt(l + 17).p = l + 17
  BY DEF QuestionAt, OptAt
<1>14. \A k \in 1..2 : /\ IsEntry(w, plan[k]) /\ (plan[k].question <=> k = 1)
                       /\ mixed => plan[k].d = <<>>
  <2> TAKE k \in 1..2
  <2>1. CASE k = 1
    BY <1>9, <1>12, <1>13, <2>1
  <2>2. CASE k = 2
    BY <1>10, <1>12, <1>13, <2>2
  <2> QED BY <2>1, <2>2
<1>15. \A k \in 1..1 : plan[k + 1].p = EndOf(plan[k])
  BY <1>9, <1>12, <1>13
<1>16. plan[1].p = 12 /\ EndOf(plan[2]) = Len(w)
  BY <1>6, <1>10, <1>12, <1>13
<1>17. 2 - 2 = 0 /\ 2 - 1 = 1
  OBVIOUS
<1> QED BY <1>6, <1>8, <1>11, <1>14, <1>15, <1>16, <1>17 DEF IsPlan

LEMMA ResponseLaid ==
  ASSUME NEW nm \in Seq(Seq(Byte)), NewName(nm) = "ok", NEW d \in Seq(Byte)
  PROVE  IsPlan(ResponseOctets(nm, d), ResponsePlan(nm, d), 3, FALSE)
<1>1. PICK l \in Nat, m \in Nat, n \in Nat : l = Len(Verbatim(nm)) /\ m = SameLength(nm) /\ n = Len(d)
  <2>1. SameLength(nm) \in Nat
    BY DEF SameLength
  <2> QED BY <2>1, VerbatimType, LenProperties
<1>2. PICK a \in Seq(Byte), s \in Seq(Byte), h \in Seq(Byte), z \in Seq(Byte), o \in Seq(Byte) :
        a = Asked1(nm, 1) /\ s = SameName(nm) /\ h = DataHead(n) /\ z = <<0>> /\ o = OptFields
  <2>1. <<0>> \in Seq(Byte)
    BY DEF Byte
  <2> QED BY <2>1, AskedType, NameTypes, DataHeadIs, OptFieldsAre
<1>3. Len(a) = l + 17 /\ Len(s) = m /\ Len(h) = 10 /\ Len(z) = 1 /\ Len(o) = 10
  BY <1>1, <1>2, AskedType, NameTypes, DataHeadIs, OptFieldsAre
<1>4. PICK as \in Seq(Byte) : as = Cat(a, s) /\ Len(as) = Len(a) + Len(s)
  BY CatType
<1>5. PICK hd \in Seq(Byte) : hd = Cat(h, d) /\ Len(hd) = Len(h) + Len(d)
  BY CatType
<1>6. PICK all \in Seq(Byte) : all = Cat(as, hd) /\ Len(all) = Len(as) + Len(hd)
  BY CatType
<1>7. PICK az \in Seq(Byte) : az = Cat(all, z) /\ Len(az) = Len(all) + Len(z)
  BY CatType
<1>8. PICK w \in Seq(Byte) : w = Cat(az, o) /\ Len(w) = Len(az) + Len(o)
  BY CatType
<1>9. PICK p \in Nat : p = l + 17 + m + 10 + n
  OBVIOUS
<1>10. /\ Len(as) = l + 17 + m /\ Len(all) = p /\ Len(az) = p + 1 /\ Len(w) = p + 11
       /\ Len(hd) = 10 + n
  <2>1. Len(as) = l + 17 + m /\ Len(hd) = 10 + n
    BY <1>1, <1>3, <1>4, <1>5
  <2>2. Len(all) = p
    BY <1>6, <1>9, <2>1
  <2> QED BY <1>3, <1>7, <1>8, <2>1, <2>2
<1>11. w = ResponseOctets(nm, d)
  BY <1>1, <1>2, <1>4, <1>5, <1>6, <1>7, <1>8 DEF ResponseOctets, Answered
<1>12. /\ Holds(w, 0, a) /\ Holds(w, l + 17, s) /\ Holds(w, l + 17 + m, hd)
       /\ Holds(w, p, z) /\ Holds(w, p + 1, o)
  <2>1. Holds(a, 0, a)
    BY HoldsAll
  <2>2. Holds(as, 0, a)
    BY <1>4, <2>1, HoldsStays
  <2>3. Holds(as, l + 17, s)
    <3>1. Holds(as, Len(a), s)
      BY <1>4, HoldsEnd
    <3> QED BY <1>3, <3>1
  <2>4. PICK i \in Nat, j \in Nat : i = l + 17 /\ j = l + 17 + m
    OBVIOUS
  <2>5. Holds(all, 0, a) /\ Holds(all, i, s)
    BY <1>6, <2>2, <2>3, <2>4, HoldsStays
  <2>6. Holds(all, j, hd)
    <3>1. Holds(all, Len(as), hd)
      BY <1>6, HoldsEnd
    <3> QED BY <1>10, <2>4, <3>1
  <2>7. Holds(az, 0, a) /\ Holds(az, i, s) /\ Holds(az, j, hd)
    BY <1>7, <2>5, <2>6, HoldsStays
  <2>8. Holds(az, p, z)
    <3>1. Holds(az, Len(all), z)
      BY <1>7, HoldsEnd
    <3> QED BY <1>10, <3>1
  <2>9. Holds(w, 0, a) /\ Holds(w, i, s) /\ Holds(w, j, hd) /\ Holds(w, p, z)
    BY <1>8, <2>7, <2>8, HoldsStays
  <2>10. Holds(w, p + 1, o)
    <3>1. Holds(w, Len(az), o)
      BY <1>8, HoldsEnd
    <3> QED BY <1>10, <3>1
  <2> QED BY <2>4, <2>9, <2>10
<1>13. HeaderIn(w, 1) /\ Holds(w, 12, FullName(nm))
  BY <1>2, <1>12, AskedHolds, HeaderHeld
<1>14. IsEntry(w, QuestionAt(nm)) /\ EndOf(QuestionAt(nm)) = l + 17
  BY <1>1, <1>2, <1>12, QuestionHeld
<1>15. IsEntry(w, AnswerAt(nm, d)) /\ EndOf(AnswerAt(nm, d)) = p
  <2>1. PICK i \in Nat : i = l + 17
    OBVIOUS
  <2>2. PICK k \in Nat : k = i + m
    OBVIOUS
  <2>3. Holds(w, k, Cat(h, d)) /\ Holds(w, i, s)
    BY <1>5, <1>12, <2>1, <2>2
  <2>4. Holds(w, k, h) /\ Holds(w, k + Len(h), d)
    BY <2>3, HoldsParts
  <2>5. Holds(w, i + SameLength(nm), DataHead(Len(d))) /\ Holds(w, i + SameLength(nm) + 10, d)
    BY <1>1, <1>2, <1>3, <2>2, <2>4
  <2>6. Holds(w, i, SameName(nm)) /\ i = Len(Verbatim(nm)) + 17
    BY <1>1, <1>2, <2>1, <2>3
  <2>7. /\ IsEntry(w, AnswerAt(nm, d))
        /\ EndOf(AnswerAt(nm, d)) = i + SameLength(nm) + 10 + Len(d)
    BY <1>13, <2>5, <2>6, AnswerHeld
  <2> QED BY <1>1, <1>9, <2>1, <2>7
<1>16. IsEntry(w, OptAt(p)) /\ EndOf(OptAt(p)) = p + 11
  BY <1>2, <1>12, OptHeld
<1>17. PICK plan : plan = ResponsePlan(nm, d)
  OBVIOUS
<1>18. plan[1] = QuestionAt(nm) /\ plan[2] = AnswerAt(nm, d) /\ plan[3] = OptAt(p)
  BY <1>1, <1>9, <1>17 DEF ResponsePlan
<1>19. /\ QuestionAt(nm).question = TRUE /\ QuestionAt(nm).p = 12
       /\ AnswerAt(nm, d).question = FALSE /\ AnswerAt(nm, d).p = l + 17
       /\ OptAt(p).question = FALSE /\ OptAt(p).p = p
  BY <1>1 DEF QuestionAt, AnswerAt, OptAt
<1>20. \A k \in 1..3 : /\ IsEntry(w, plan[k]) /\ (plan[k].question <=> k = 1)
                       /\ FALSE => plan[k].d = <<>>
  <2> TAKE k \in 1..3
  <2>1. CASE k = 1
    <3>1. plan[k] = QuestionAt(nm)
      BY <1>18, <2>1
    <3> QED BY <1>14, <1>19, <2>1, <3>1
  <2>2. CASE k = 2
    <3>1. plan[k] = AnswerAt(nm, d)
      BY <1>18, <2>2
    <3> QED BY <1>15, <1>19, <2>2, <3>1
  <2>3. CASE k = 3
    <3>1. plan[k] = OptAt(p)
      BY <1>18, <2>3
    <3> QED BY <1>16, <1>19, <2>3, <3>1
  <2> QED BY <2>1, <2>2, <2>3
<1>21. \A k \in 1..2 : plan[k + 1].p = EndOf(plan[k])
  <2> TAKE k \in 1..2
  <2>1. CASE k = 1
    <3>1. plan[k] = QuestionAt(nm) /\ plan[k + 1] = AnswerAt(nm, d)
      BY <1>18, <2>1
    <3> QED BY <1>14, <1>19, <3>1
  <2>2. CASE k = 2
    <3>1. plan[k] = AnswerAt(nm, d) /\ plan[k + 1] = OptAt(p)
      BY <1>18, <2>2
    <3> QED BY <1>15, <1>19, <3>1
  <2> QED BY <2>1, <2>2
<1>22. plan[1].p = 12 /\ EndOf(plan[3]) = Len(w)
  BY <1>10, <1>16, <1>18, <1>19
<1>23. 3 - 2 = 1 /\ 3 - 1 = 2
  OBVIOUS
<1> QED BY <1>11, <1>13, <1>17, <1>20, <1>21, <1>22, <1>23 DEF IsPlan
-----------------------------------------------------------------------------
(* DecodeRDataTXT goes from <character-string> to <character-string>.      *)
WholeBody(e, g, i) == i > Len(e) \/ (i + e[i] <= Len(e) /\ g[i + e[i] + 1])
TextBody(e, g, i) ==
  IF i > Len(e) \/ i + e[i] > Len(e) THEN <<>> ELSE SubSeq(e, i + 1, i + e[i]) \o g[i + e[i] + 1]

IsWhole(e, g) == g = [i \in 1..(Len(e) + 1) |-> WholeBody(e, g, i)]
IsText(e, g) == g = [i \in 1..(Len(e) + 1) |-> TextBody(e, g, i)]

LEMMA DecodedIs ==
  ASSUME NEW e
  PROVE  DecodeRDataTXT(e)
           = IF e # <<>> /\ (CHOOSE g : IsWhole(e, g))[1]
             THEN [ok |-> TRUE, text |-> (CHOOSE g : IsText(e, g))[1]] ELSE [ok |-> FALSE]
BY DEF DecodeRDataTXT, IsWhole, IsText, WholeBody, TextBody

(* What is behind an index is all that the function depends on there.      *)
LEMMA NextIndex ==
  ASSUME NEW e \in Seq(Byte), NEW i \in 1..(Len(e) + 1), ~(i > Len(e)), i + e[i] <= Len(e)
  PROVE  i + e[i] + 1 \in 1..(Len(e) + 1) /\ i + e[i] + 1 > i
<1>1. Len(e) \in Nat
  BY LenProperties
<1>2. i \in 1..Len(e)
  BY <1>1
<1>3. e[i] \in Nat
  BY <1>2, ElementOfSeq DEF Byte
<1> QED BY <1>1, <1>3

LEMMA SameBehind ==
  ASSUME NEW e \in Seq(Byte), NEW i \in 1..(Len(e) + 1), NEW g, NEW h,
         \A j \in 1..(Len(e) + 1) : j > i => g[j] = h[j]
  PROVE  TextBody(e, g, i) = TextBody(e, h, i) /\ (WholeBody(e, g, i) <=> WholeBody(e, h, i))
<1>1. CASE i > Len(e)
  BY <1>1 DEF TextBody, WholeBody
<1>2. CASE ~(i > Len(e)) /\ i + e[i] > Len(e)
  <2>1. ~(i + e[i] <= Len(e))
    <3>1. Len(e) \in Nat
      BY LenProperties
    <3>2. i \in 1..Len(e)
      BY <1>2, <3>1
    <3>3. e[i] \in Nat
      BY <3>2, ElementOfSeq DEF Byte
    <3> QED BY <1>2, <3>1, <3>3
  <2> QED BY <1>2, <2>1 DEF TextBody, WholeBody
<1>3. CASE ~(i > Len(e)) /\ i + e[i] <= Len(e)
  <2>1. g[i + e[i] + 1] = h[i + e[i] + 1]
    BY <1>3, NextIndex
  <2> QED BY <1>3, <2>1 DEF TextBody, WholeBody
<1>4. i + e[i] > Len(e) \/ i + e[i] <= Len(e) \/ i > Len(e)
  <2>1. Len(e) \in Nat
    BY LenProperties
  <2> SUFFICES ASSUME ~(i > Len(e)) PROVE i + e[i] > Len(e) \/ i + e[i] <= Len(e)
    OBVIOUS
  <2>2. i \in 1..Len(e)
    BY <2>1
  <2>3. e[i] \in Nat
    BY <2>2, ElementOfSeq DEF Byte
  <2> QED BY <2>1, <2>3
<1> QED BY <1>1, <1>2, <1>3, <1>4

(* The two functions exist: they are made from the last index to the first. *)
LEMMA TextExists ==
  ASSUME NEW e \in Seq(Byte)
  PROVE  \E g : IsText(e, g)
<1>1. PICK len \in Nat : len = Len(e)
  BY LenProperties
<1> DEFINE D == 1..(len + 1)
           Good(g, n) == /\ g = [i \in D |-> g[i]]
                         /\ \A i \in D : i > len + 1 - n => g[i] = TextBody(e, g, i)
           S == {n \in Nat : n <= len + 1 => \E g : Good(g, n)}
<1>2. 0 \in S
  <2> DEFINE g == [i \in D |-> <<>>]
  <2>1. g = [i \in D |-> g[i]]
    OBVIOUS
  <2>2. \A i \in D : ~(i > len + 1 - 0)
    OBVIOUS
  <2> HIDE DEF g
  <2>3. Good(g, 0)
    BY <2>1, <2>2
  <2> QED BY <2>3
<1>3. ASSUME NEW n \in Nat, n \in S PROVE n + 1 \in S
  <2> SUFFICES ASSUME n + 1 <= len + 1 PROVE \E g : Good(g, n + 1)
    OBVIOUS
  <2>1. PICK g : Good(g, n)
    BY <1>3
  <2>2. PICK m \in D : m = len + 1 - n /\ m = len + 1 - (n + 1) + 1
    OBVIOUS
  <2> DEFINE h == [i \in D |-> IF i = m THEN TextBody(e, g, m) ELSE g[i]]
  <2>3. h = [i \in D |-> h[i]]
    OBVIOUS
  <2>4. \A i \in D : h[i] = IF i = m THEN TextBody(e, g, m) ELSE g[i]
    OBVIOUS
  <2> HIDE DEF h
  <2>5. ASSUME NEW i \in D, i > len + 1 - (n + 1) PROVE h[i] = TextBody(e, h, i)
    <3>1. i >= m
      BY <2>2, <2>5
    <3>2. \A j \in D : j > i => g[j] = h[j]
      BY <2>4, <3>1
    <3>3. TextBody(e, g, i) = TextBody(e, h, i)
      BY <1>1, <3>2, SameBehind
    <3>4. h[i] = TextBody(e, g, i)
      <4>1. CASE i = m
        BY <2>4, <4>1
      <4>2. CASE i # m
        <5>1. i > len + 1 - n
          BY <2>2, <3>1, <4>2
        <5> QED BY <2>1, <2>4, <4>2, <5>1
      <4> QED BY <4>1, <4>2
    <3> QED BY <3>3, <3>4
  <2>6. Good(h, n + 1)
    BY <2>3, <2>5
  <2> QED BY <2>6
<1>4. len + 1 \in S
  <2> HIDE DEF S
  <2>1. Nat \subseteq S
    BY <1>2, <1>3, SetInduction
  <2> QED BY <2>1
<1>5. PICK g : Good(g, len + 1)
  BY <1>4
<1>6. g = [i \in D |-> TextBody(e, g, i)]
  <2>1. \A i \in D : i > len + 1 - (len + 1)
    OBVIOUS
  <2>2. \A i \in D : g[i] = TextBody(e, g, i)
    BY <1>5, <2>1
  <2>3. g = [i \in D |-> g[i]]
    BY <1>5
  <2> QED BY <2>2, <2>3
<1> QED BY <1>1, <1>6 DEF IsText

LEMMA WholeExists ==
  ASSUME NEW e \in Seq(Byte)
  PROVE  \E g : IsWhole(e, g)
<1>1. PICK len \in Nat : len = Len(e)
  BY LenProperties
<1> DEFINE D == 1..(len + 1)
           Good(g, n) == /\ g \in [D -> BOOLEAN]
                         /\ \A i \in D : i > len + 1 - n => (g[i] <=> WholeBody(e, g, i))
           S == {n \in Nat : n <= len + 1 => \E g : Good(g, n)}
<1>2. 0 \in S
  <2> DEFINE g == [i \in D |-> TRUE]
  <2>1. g \in [D -> BOOLEAN]
    OBVIOUS
  <2>2. \A i \in D : ~(i > len + 1 - 0)
    OBVIOUS
  <2> HIDE DEF g
  <2>3. Good(g, 0)
    BY <2>1, <2>2
  <2> QED BY <2>3
<1>3. ASSUME NEW n \in Nat, n \in S PROVE n + 1 \in S
  <2> SUFFICES ASSUME n + 1 <= len + 1 PROVE \E g : Good(g, n + 1)
    OBVIOUS
  <2>1. PICK g : Good(g, n)
    BY <1>3
  <2>2. PICK m \in D : m = len + 1 - n /\ m = len + 1 - (n + 1) + 1
    OBVIOUS
  <2>a. PICK b \in BOOLEAN : b <=> WholeBody(e, g, m)
    OBVIOUS
  <2> DEFINE h == [i \in D |-> IF i = m THEN b ELSE g[i]]
  <2>3. h \in [D -> BOOLEAN]
    BY <2>1, <2>a
  <2>4. \A i \in D : h[i] = IF i = m THEN b ELSE g[i]
    OBVIOUS
  <2> HIDE DEF h
  <2>5. ASSUME NEW i \in D, i > len + 1 - (n + 1) PROVE h[i] <=> WholeBody(e, h, i)
    <3>1. i >= m
      BY <2>2, <2>5
    <3>2. \A j \in D : j > i => g[j] = h[j]
      BY <2>4, <3>1
    <3>3. WholeBody(e, g, i) <=> WholeBody(e, h, i)
      BY <1>1, <3>2, SameBehind
    <3>4. h[i] <=> WholeBody(e, g, i)
      <4>1. CASE i = m
        BY <2>a, <2>4, <4>1
      <4>2. CASE i # m
        <5>1. i > len + 1 - n
          BY <2>2, <3>1, <4>2
        <5> QED BY <2>1, <2>4, <4>2, <5>1
      <4> QED BY <4>1, <4>2
    <3> QED BY <3>3, <3>4
  <2>6. Good(h, n + 1)
    BY <2>3, <2>5
  <2> QED BY <2>6
<1>4. len + 1 \in S
  <2> HIDE DEF S
  <2>1. Nat \subseteq S
    BY <1>2, <1>3, SetInduction
  <2> QED BY <2>1
<1>5. PICK g : Good(g, len + 1)
  BY <1>4
<1>6. g = [i \in D |-> WholeBody(e, g, i)]
  <2>1. \A i \in D : i > len + 1 - (len + 1)
    OBVIOUS
  <2>2. \A i \in D : g[i] <=> WholeBody(e, g, i)
    BY <1>5, <2>1
  <2>3. g \in [D -> BOOLEAN]
    BY <1>5
  <2>4. \A i \in D : g[i] = WholeBody(e, g, i)
    BY <2>2, <2>3 DEF WholeBody
  <2> QED BY <2>3, <2>4
<1> QED BY <1>1, <1>6 DEF IsWhole
-----------------------------------------------------------------------------
(* What it makes of labelled runs.                                         *)
Rest(cc, k) == SubSeq(cc, k + 1, Len(cc))

LEMMA RestEmpty ==
  ASSUME NEW X, NEW cc \in Seq(X)
  PROVE  Rest(cc, Len(cc)) = <<>>
<1>1. PICK n \in Nat : n = Len(cc) /\ n + 0 <= Len(cc)
  BY LenProperties
<1>2. SubSeq(cc, n + 1, n + 0) \in Seq(X) /\ Len(SubSeq(cc, n + 1, n + 0)) = 0
  BY <1>1, Slice
<1>3. n + 0 = n
  OBVIOUS
<1>4. SubSeq(cc, n + 1, n) \in Seq(X) /\ Len(SubSeq(cc, n + 1, n)) = 0
  BY <1>2, <1>3
<1>5. SubSeq(cc, n + 1, n) = <<>>
  BY <1>4, EmptySeq
<1> QED BY <1>1, <1>5 DEF Rest

Leaves(cc, i, n) == i + n = Len(cc)

LEMMA RestElements ==
  ASSUME NEW X, NEW cc \in Seq(X), NEW i \in Nat, NEW n \in Nat, Leaves(cc, i, n)
  PROVE  /\ Rest(cc, i) \in Seq(X) /\ Len(Rest(cc, i)) = n
         /\ \A h \in 1..n : Rest(cc, i)[h] = cc[i + h]
<1>0. i + n = Len(cc)
  BY DEF Leaves
<1>1. i + n <= Len(cc)
  BY <1>0
<1>2. /\ SubSeq(cc, i + 1, i + n) \in Seq(X) /\ Len(SubSeq(cc, i + 1, i + n)) = n
      /\ \A h \in 1..n : SubSeq(cc, i + 1, i + n)[h] = cc[i + h]
  BY <1>1, Slice
<1>3. Rest(cc, i) = SubSeq(cc, i + 1, i + n)
  BY <1>0 DEF Rest
<1> QED BY <1>2, <1>3, Zenon

LEMMA RestsOf ==
  ASSUME NEW X, NEW cc \in Seq(X), NEW k \in 0..Len(cc)
  PROVE  /\ Rest(cc, k) \in Seq(X)
         /\ k < Len(cc) => cc[k + 1] \in X /\ Rest(cc, k) = Cat(<<cc[k + 1]>>, Rest(cc, k + 1))
         /\ Rest(cc, 0) = cc
<1>1. PICK n \in Nat : n = Len(cc)
  BY LenProperties
<1>2. Rest(cc, k) \in Seq(X)
  BY Fronts DEF Rest
<1>3. ASSUME k < n
      PROVE  cc[k + 1] \in X /\ Rest(cc, k) = Cat(<<cc[k + 1]>>, Rest(cc, k + 1))
  <2>1. k + 1 \in 0..n /\ k + 1 \in 1..n
    BY <1>1, <1>3
  <2>2. cc[k + 1] \in X
    BY <1>1, <2>1, ElementOfSeq
  <2>3. PICK x \in X : x = cc[k + 1]
    BY <2>2
  <2>4. PICK r \in Seq(X) : r = Rest(cc, k + 1)
    BY <1>1, <2>1, Fronts DEF Rest
  <2>5. PICK q \in Seq(X) : q = Rest(cc, k)
    BY <1>2
  <2>6. Len(r) = n - (k + 1) /\ \A j \in 1..(n - (k + 1)) : r[j] = cc[k + 1 + j]
    <3>1. PICK m \in Nat : k + 1 + m = n
      <4>1. n - (k + 1) \in Nat /\ k + 1 + (n - (k + 1)) = n
        BY <2>1
      <4> QED BY <4>1
    <3>2. k + 1 \in Nat
      OBVIOUS
    <3>3. /\ Len(SubSeq(cc, (k + 1) + 1, (k + 1) + m)) = m
          /\ \A i \in 1..m : SubSeq(cc, (k + 1) + 1, (k + 1) + m)[i] = cc[(k + 1) + i]
      BY <1>1, <3>1, <3>2, Slice
    <3>4. n - (k + 1) = m
      BY <1>1, <3>1
    <3> QED BY <1>1, <2>4, <3>1, <3>3, <3>4 DEF Rest
  <2>7. Len(q) = n - k /\ \A j \in 1..(n - k) : q[j] = cc[k + j]
    <3>1. PICK m \in Nat : k + m = n
      <4>1. n - k \in Nat /\ k + (n - k) = n
        BY <1>1
      <4> QED BY <4>1
    <3>2. k \in Nat
      OBVIOUS
    <3>3. /\ Len(SubSeq(cc, k + 1, k + m)) = m
          /\ \A i \in 1..m : SubSeq(cc, k + 1, k + m)[i] = cc[k + i]
      BY <1>1, <3>1, <3>2, Slice
    <3>4. n - k = m
      BY <1>1, <3>1
    <3> QED BY <1>1, <2>5, <3>1, <3>3, <3>4 DEF Rest
  <2>8. PICK s \in Seq(X) : s = <<x>> /\ Len(s) = 1 /\ s[1] = x
    <3>1. <<x>> \in Seq(X) /\ Len(<<x>>) = 1 /\ <<x>>[1] = x
      OBVIOUS
    <3> QED BY <3>1
  <2>9. PICK t \in Seq(X) : t = Cat(s, r) /\ Len(t) = Len(s) + Len(r)
    BY CatType
  <2>10. Len(t) = Len(q)
    BY <2>6, <2>7, <2>8, <2>9, <1>3
  <2>11. \A j \in 1..Len(q) : t[j] = q[j]
    <3>1. \A j \in 1..Len(s) : t[j] = s[j]
      BY <2>9, CatElements
    <3>2. \A j \in 1..Len(r) : t[Len(s) + j] = r[j]
      BY <2>9, CatElements
    <3> TAKE j \in 1..Len(q)
    <3>3. CASE j = 1
      <4>1. 1 \in 1..(n - k)
        BY <1>1, <1>3
      <4>2. q[1] = cc[k + 1]
        BY <2>7, <4>1
      <4>3. t[1] = s[1]
        BY <2>8, <3>1
      <4> QED BY <2>3, <2>8, <3>3, <4>2, <4>3
    <3>4. CASE j # 1
      <4>1. PICK i \in Nat : j = 1 + i /\ i \in 1..(n - (k + 1)) /\ k + 1 + i = k + j /\ j \in 1..(n - k)
        <5>1. j - 1 \in Nat /\ j = 1 + (j - 1) /\ j - 1 \in 1..(n - (k + 1)) /\ k + 1 + (j - 1) = k + j
          BY <2>7, <3>4
        <5>2. j \in 1..(n - k)
          BY <2>7
        <5> QED BY <5>1, <5>2
      <4>2. t[1 + i] = r[i]
        BY <2>6, <2>8, <3>2, <4>1
      <4>3. r[i] = cc[k + j]
        BY <2>6, <4>1
      <4>4. q[j] = cc[k + j]
        BY <2>7, <4>1
      <4> QED BY <4>1, <4>2, <4>3, <4>4
    <3> QED BY <3>3, <3>4
  <2>12. t = q
    <3>1. \A j \in 1..Len(t) : t[j] = q[j]
      BY <2>10, <2>11
    <3> QED BY <2>10, <3>1, SeqEqual
  <2> QED BY <2>2, <2>3, <2>4, <2>5, <2>8, <2>9, <2>12
<1>5. Rest(cc, 0) = cc
  BY SubSeqFull DEF Rest
<1> QED BY <1>1, <1>2, <1>3, <1>5

LEMMA FlattenRest ==
  ASSUME NEW X, NEW cc \in Seq(Seq(X)), NEW k \in 0..Len(cc), k < Len(cc)
  PROVE  /\ cc[k + 1] \in Seq(X) /\ FlattenSeq(Rest(cc, k + 1)) \in Seq(X)
         /\ FlattenSeq(Rest(cc, k)) = Cat(cc[k + 1], FlattenSeq(Rest(cc, k + 1)))
<1>1. k + 1 \in 0..Len(cc)
  BY LenProperties
<1>2. PICK x \in Seq(X) : x = cc[k + 1]
  BY RestsOf
<1>3. PICK r \in Seq(Seq(X)) : r = Rest(cc, k + 1)
  BY <1>1, RestsOf
<1>4. PICK s \in Seq(Seq(X)) : s = <<x>>
  <2>1. <<x>> \in Seq(Seq(X))
    OBVIOUS
  <2> QED BY <2>1
<1>5. FlattenSeq(s) = x
  <2>1. PICK none \in Seq(Seq(X)) : none = <<>>
    BY EmptySeq
  <2>2. Append(none, x) = s
    BY <1>4, <2>1
  <2>3. FlattenSeq(Append(none, x)) = Cat(FlattenSeq(none), x)
    BY FlattenAppend
  <2>4. FlattenSeq(none) = <<>>
    BY <2>1, FlattenEmpty
  <2>5. Cat(<<>>, x) = x
    BY CatEmpty
  <2> QED BY <2>2, <2>3, <2>4, <2>5
<1>6. FlattenSeq(Cat(s, r)) = Cat(FlattenSeq(s), FlattenSeq(r))
  BY FlattenConcat
<1>7. Rest(cc, k) = Cat(s, r)
  BY <1>2, <1>3, <1>4, RestsOf
<1>8. FlattenSeq(r) \in Seq(X)
  BY FlattenType
<1> QED BY <1>2, <1>3, <1>5, <1>6, <1>7, <1>8

(* A place of the function that is the beginning of a run.                 *)
LEMMA RunAhead ==
  ASSUME NEW cc \in Seq(Seq(Byte)), NEW e \in Seq(Byte), e = Verbatim(cc),
         NEW k \in 0..Len(cc), k < Len(cc)
  PROVE  /\ NameEnd(cc, k) \in Nat /\ NameEnd(cc, k + 1) \in Nat /\ cc[k + 1] \in Seq(Byte)
         /\ NameEnd(cc, k) + 1 \in 1..(Len(e) + 1) /\ ~(NameEnd(cc, k) + 1 > Len(e))
         /\ (NameEnd(cc, k) + 1) + e[NameEnd(cc, k) + 1] + 1 = NameEnd(cc, k + 1) + 1
         /\ (NameEnd(cc, k) + 1) + e[NameEnd(cc, k) + 1] <= Len(e)
         /\ SubSeq(e, NameEnd(cc, k) + 1 + 1, NameEnd(cc, k) + 1 + e[NameEnd(cc, k) + 1]) = cc[k + 1]
<1>1. PICK i \in Nat, l \in Seq(Byte) :
        /\ i = NameEnd(cc, k) /\ l = cc[k + 1]
        /\ NameEnd(cc, k + 1) = i + Len(l) + 1 /\ NameEnd(cc, k + 1) <= Len(e)
        /\ \A w \in Seq(Byte), p \in Nat :
              Holds(w, p, Verbatim(cc)) => Holds(w, p + i, Labelled(l))
  BY NextLabel
<1>2. PICK n \in Nat, m \in Nat : n = Len(l) /\ m = Len(e)
  BY LenProperties
<1>3. Holds(e, i, Labelled(l))
  <2>1. Holds(e, 0, Verbatim(cc))
    BY HoldsAll
  <2>2. 0 \in Nat /\ 0 + i = i
    OBVIOUS
  <2> QED BY <1>1, <2>1, <2>2
<1>4. PICK one \in Seq(Byte) : one = <<n>> /\ Len(one) = 1 /\ one[1] = n
  <2>1. <<n>> \in Seq(Byte) /\ Len(<<n>>) = 1 /\ <<n>>[1] = n
    BY DEF Byte
  <2> QED BY <2>1
<1>5. Holds(e, i, one) /\ Holds(e, i + Len(one), l)
  <2>1. Holds(e, i, Cat(one, l))
    BY <1>2, <1>3, <1>4 DEF Labelled
  <2> QED BY <2>1, HoldsParts
<1>6. e[i + 1] = n
  <2>1. 1 \in 1..Len(one)
    BY <1>4
  <2> QED BY <1>4, <1>5, <2>1 DEF Holds
<1>7. i + 1 + n <= m /\ NameEnd(cc, k + 1) = i + 1 + n
  BY <1>1, <1>2
<1>8. \A j \in 1..n : e[i + 1 + j] = l[j]
  BY <1>2, <1>4, <1>5 DEF Holds
<1>9. SubSeq(e, i + 1 + 1, i + 1 + n) = l
  <2>1. PICK f \in Nat : f = i + 1
    OBVIOUS
  <2>2. f + n <= Len(e)
    BY <1>2, <1>7, <2>1
  <2>3. /\ SubSeq(e, f + 1, f + n) \in Seq(Byte) /\ Len(SubSeq(e, f + 1, f + n)) = n
        /\ \A j \in 1..n : SubSeq(e, f + 1, f + n)[j] = e[f + j]
    BY <2>2, Slice
  <2>4. PICK s \in Seq(Byte) : s = SubSeq(e, f + 1, f + n)
    BY <2>3
  <2>5. Len(s) = Len(l)
    BY <1>2, <2>3, <2>4
  <2>6. \A j \in 1..Len(s) : s[j] = l[j]
    BY <1>8, <2>1, <2>3, <2>4
  <2>7. s = l
    BY <2>5, <2>6, SeqEqual
  <2> QED BY <2>1, <2>4, <2>7
<1>10. i + 1 \in 1..(m + 1) /\ ~(i + 1 > m) /\ i + 1 + n + 1 = (i + 1 + n) + 1 /\ i + 1 + n \in Nat
  BY <1>7
<1> QED BY <1>1, <1>2, <1>6, <1>7, <1>9, <1>10

LEMMA RunsDecoded ==
  ASSUME NEW cc \in Seq(Seq(Byte)), NEW e \in Seq(Byte), e = Verbatim(cc),
         NEW f, IsText(e, f), NEW g, IsWhole(e, g)
  PROVE  f[1] = FlattenSeq(cc) /\ g[1]
<1>1. PICK c \in Nat, m \in Nat : c = Len(cc) /\ m = Len(e)
  BY LenProperties
<1>2. /\ \A i \in 1..(m + 1) : f[i] = TextBody(e, f, i)
      /\ \A i \in 1..(m + 1) : g[i] = WholeBody(e, g, i)
  <2>1. f = [i \in 1..(m + 1) |-> TextBody(e, f, i)]
    BY <1>1 DEF IsText
  <2>2. g = [i \in 1..(m + 1) |-> WholeBody(e, g, i)]
    BY <1>1 DEF IsWhole
  <2>3. \A i \in 1..(m + 1) : f[i] = TextBody(e, f, i)
    BY <2>1
  <2>4. \A i \in 1..(m + 1) : g[i] = WholeBody(e, g, i)
    BY <2>2
  <2> QED BY <2>3, <2>4
<1> DEFINE Right(k) == f[NameEnd(cc, k) + 1] = FlattenSeq(Rest(cc, k)) /\ g[NameEnd(cc, k) + 1]
           S == {n \in Nat : \A k \in 0..c : k + n = c => Right(k)}
<1>3. 0 \in S
  <2> SUFFICES Right(c)
    OBVIOUS
  <2>1. NameEnd(cc, c) = m
    <3>1. c \in 0..Len(cc)
      BY <1>1
    <3>2. Foremost(cc, c) = cc
      BY <1>1, <3>1, Fronts
    <3> QED BY <1>1, <3>2 DEF NameEnd
  <2>2. m + 1 \in 1..(m + 1) /\ m + 1 > m
    OBVIOUS
  <2>3. f[m + 1] = <<>> /\ g[m + 1]
    <3>1. f[m + 1] = TextBody(e, f, m + 1) /\ g[m + 1] = WholeBody(e, g, m + 1)
      BY <1>2, <2>2
    <3>2. m + 1 > Len(e)
      BY <1>1
    <3>3. TextBody(e, f, m + 1) = <<>> /\ WholeBody(e, g, m + 1)
      BY <3>2 DEF TextBody, WholeBody
    <3> QED BY <3>1, <3>3
  <2>4. FlattenSeq(Rest(cc, c)) = <<>>
    <3>1. Rest(cc, Len(cc)) = <<>>
      BY RestEmpty
    <3> QED BY <1>1, <3>1, FlattenEmpty
  <2> QED BY <2>1, <2>3, <2>4
<1>4. ASSUME NEW n \in Nat, n \in S PROVE n + 1 \in S
  <2> SUFFICES ASSUME NEW k \in 0..c, k + (n + 1) = c PROVE Right(k)
    OBVIOUS
  <2>1. k \in 0..Len(cc) /\ k < Len(cc) /\ k + 1 \in 0..c /\ (k + 1) + n = c
    BY <1>1
  <2>2. Right(k + 1)
    BY <1>4, <2>1
  <2>3. PICK i \in Nat, j \in Nat, l \in Seq(Byte) :
          i = NameEnd(cc, k) + 1 /\ j = NameEnd(cc, k + 1) + 1 /\ l = cc[k + 1]
    <3>1. NameEnd(cc, k) \in Nat /\ NameEnd(cc, k + 1) \in Nat /\ cc[k + 1] \in Seq(Byte)
      BY <2>1, RunAhead
    <3>2. NameEnd(cc, k) + 1 \in Nat /\ NameEnd(cc, k + 1) + 1 \in Nat
      BY <3>1
    <3> QED BY <3>1, <3>2
  <2>4. /\ i \in 1..(m + 1) /\ ~(i > Len(e)) /\ i + e[i] + 1 = j /\ i + e[i] <= Len(e)
        /\ SubSeq(e, i + 1, i + e[i]) = l
    BY <1>1, <2>1, <2>3, RunAhead
  <2>5. ~(i + e[i] > Len(e))
    <3>1. i \in 1..Len(e)
      BY <1>1, <2>4
    <3>2. e[i] \in Nat
      BY <3>1, ElementOfSeq DEF Byte
    <3> QED BY <1>1, <2>4, <3>2
  <2>6. f[i] = l \o f[j]
    <3>1. f[i] = TextBody(e, f, i)
      BY <1>2, <2>4
    <3>2. TextBody(e, f, i) = SubSeq(e, i + 1, i + e[i]) \o f[i + e[i] + 1]
      BY <2>4, <2>5 DEF TextBody
    <3> QED BY <2>4, <3>1, <3>2
  <2>7. g[i]
    <3>1. g[i] = WholeBody(e, g, i)
      BY <1>2, <2>4
    <3>2. g[j]
      BY <2>2, <2>3
    <3>3. WholeBody(e, g, i)
      BY <2>4, <3>2 DEF WholeBody
    <3> QED BY <3>1, <3>3
  <2>8. FlattenSeq(Rest(cc, k)) = Cat(l, FlattenSeq(Rest(cc, k + 1)))
    BY <2>1, <2>3, FlattenRest
  <2>9. f[j] = FlattenSeq(Rest(cc, k + 1))
    BY <2>2, <2>3
  <2>10. f[i] = FlattenSeq(Rest(cc, k))
    BY <2>6, <2>8, <2>9 DEF Cat
  <2> QED BY <2>3, <2>7, <2>10
<1>5. c \in S
  <2> HIDE DEF S
  <2>1. Nat \subseteq S
    BY <1>3, <1>4, SetInduction
  <2> QED BY <2>1
<1>6. Right(0)
  <2>1. 0 \in 0..c /\ 0 + c = c
    OBVIOUS
  <2> QED BY <1>5, <2>1
<1>7. NameEnd(cc, 0) + 1 = 1
  <2>1. 0 \in 0..Len(cc)
    BY <1>1
  <2>2. Foremost(cc, 0) = <<>>
    BY <2>1, Fronts
  <2> QED BY <2>2, VerbatimEmpty DEF NameEnd
<1>8. Rest(cc, 0) = cc
  <2>1. 0 \in 0..Len(cc)
    BY <1>1
  <2> QED BY <2>1, RestsOf
<1> QED BY <1>6, <1>7, <1>8
-----------------------------------------------------------------------------
LEMMA SlicesMeet ==
  ASSUME NEW X, NEW p \in Seq(X), NEW i \in Nat, NEW j \in Nat, i <= j, j <= Len(p)
  PROVE  Cat(Foremost(p, i), SubSeq(p, i + 1, j)) = Foremost(p, j)
<1>1. PICK n \in Nat : n = Len(p)
  BY LenProperties
<1>2. i \in 0..Len(p) /\ j \in 0..Len(p)
  BY <1>1
<1>3. PICK q \in Seq(X), r \in Seq(X) : q = Foremost(p, j) /\ r = Foremost(p, i)
  BY <1>2, Fronts
<1>4. Len(q) = j /\ Len(r) = i /\ (\A m \in 1..j : q[m] = p[m]) /\ (\A m \in 1..i : r[m] = p[m])
  BY <1>2, <1>3, Fronts
<1>5. q = Cat(Foremost(q, i), SubSeq(q, i + 1, j))
  <2>1. i \in 0..Len(q)
    BY <1>4
  <2>2. q = Cat(Foremost(q, i), SubSeq(q, i + 1, Len(q)))
    BY <2>1, Fronts
  <2> QED BY <1>4, <2>2
<1>6. Foremost(q, i) = r
  <2>1. i \in 0..Len(q)
    BY <1>4
  <2>2. PICK s \in Seq(X) : s = Foremost(q, i) /\ Len(s) = i /\ \A m \in 1..i : s[m] = q[m]
    BY <2>1, Fronts
  <2>3. \A m \in 1..i : s[m] = r[m]
    <3> TAKE m \in 1..i
    <3>1. m \in 1..j
      OBVIOUS
    <3> QED BY <1>4, <2>2, <3>1
  <2>4. Len(s) = Len(r) /\ \A m \in 1..Len(s) : s[m] = r[m]
    BY <1>4, <2>2, <2>3
  <2> QED BY <2>2, <2>4, SeqEqual
<1>7. SubSeq(q, i + 1, j) = SubSeq(p, i + 1, j)
  <2>1. PICK k \in Nat : i + k = j
    <3>1. j - i \in Nat /\ i + (j - i) = j
      OBVIOUS
    <3> QED BY <3>1
  <2>2. i + k <= Len(q) /\ i + k <= Len(p)
    BY <1>4, <2>1
  <2>3. PICK s \in Seq(X) : /\ s = SubSeq(q, i + 1, i + k) /\ Len(s) = k
                            /\ \A m \in 1..k : s[m] = q[i + m]
    <3>1. /\ SubSeq(q, i + 1, i + k) \in Seq(X) /\ Len(SubSeq(q, i + 1, i + k)) = k
          /\ \A m \in 1..k : SubSeq(q, i + 1, i + k)[m] = q[i + m]
      BY <2>2, Slice
    <3> QED BY <3>1
  <2>4. PICK t \in Seq(X) : /\ t = SubSeq(p, i + 1, i + k) /\ Len(t) = k
                            /\ \A m \in 1..k : t[m] = p[i + m]
    <3>1. /\ SubSeq(p, i + 1, i + k) \in Seq(X) /\ Len(SubSeq(p, i + 1, i + k)) = k
          /\ \A m \in 1..k : SubSeq(p, i + 1, i + k)[m] = p[i + m]
      BY <2>2, Slice
    <3> QED BY <3>1
  <2>5. \A m \in 1..k : s[m] = t[m]
    <3> TAKE m \in 1..k
    <3>1. i + m \in 1..j
      BY <2>1
    <3> QED BY <1>4, <2>3, <2>4, <3>1
  <2>6. Len(s) = Len(t) /\ \A m \in 1..Len(s) : s[m] = t[m]
    BY <2>3, <2>4, <2>5
  <2>7. s = t
    BY <2>6, SeqEqual
  <2> QED BY <2>1, <2>3, <2>4, <2>7
<1> QED BY <1>3, <1>5, <1>6, <1>7

LEMMA FlattenChunks ==
  ASSUME NEW p \in Seq(Byte), NEW n \in Runs
  PROVE  FlattenSeq(Chunks(p, n)) = p
<1>0. PICK cc \in Seq(Seq(Byte)), c \in Nat, len \in Nat :
        /\ cc = Chunks(p, n) /\ c = Count(Len(p), n) /\ Len(cc) = c /\ len = Len(p)
  BY ChunksAre, Cuts, LenProperties
<1> DEFINE S == {j \in Nat : j <= c => FlattenSeq(Foremost(cc, j)) = Foremost(p, Cut(len, n, j))}
<1>1. 0 \in S
  <2>1. Foremost(cc, 0) = <<>>
    <3>1. 0 \in 0..Len(cc)
      BY <1>0
    <3> QED BY <3>1, Fronts
  <2>2. Foremost(p, 0) = <<>>
    <3>1. 0 \in 0..Len(p)
      BY <1>0
    <3> QED BY <3>1, Fronts
  <2>3. Cut(len, n, 0) = 0
    BY <1>0, Cuts
  <2> QED BY <2>1, <2>2, <2>3, FlattenEmpty
<1>2. ASSUME NEW j \in Nat, j \in S PROVE j + 1 \in S
  <2> SUFFICES ASSUME j + 1 <= c
               PROVE  FlattenSeq(Foremost(cc, j + 1)) = Foremost(p, Cut(len, n, j + 1))
    OBVIOUS
  <2>1. j \in 0..Len(cc) /\ j < Len(cc) /\ j + 1 \in 1..c /\ (j + 1) - 1 = j
    BY <1>0
  <2>2. PICK f \in Seq(Seq(Byte)), l \in Seq(Byte) : f = Foremost(cc, j) /\ l = cc[j + 1]
    BY <2>1, Fronts
  <2>3. Foremost(cc, j + 1) = Append(f, l)
    <3>1. Foremost(cc, j + 1) = Append(Foremost(cc, j), cc[j + 1])
      BY <2>1, Fronts
    <3> QED BY <2>2, <3>1
  <2>4. FlattenSeq(Append(f, l)) = Cat(FlattenSeq(f), l)
    BY FlattenAppend
  <2>5. PICK a \in Nat, b \in Nat :
          a = Cut(len, n, j) /\ b = Cut(len, n, j + 1) /\ a < b /\ b <= len
    BY <1>0, <2>1, EachCut
  <2>6. l = SubSeq(p, a + 1, b)
    <3>1. PICK k \in 1..Count(Len(p), n) : k = j + 1 /\ k - 1 = j
      BY <1>0, <2>1
    <3>2. Chunks(p, n)[k] = SubSeq(p, Cut(Len(p), n, k - 1) + 1, Cut(Len(p), n, k))
      BY ChunksAre
    <3> QED BY <1>0, <2>2, <2>5, <3>1, <3>2
  <2>7. FlattenSeq(f) = Foremost(p, a)
    BY <1>2, <2>1, <2>2, <2>5, <1>0
  <2>8. Cat(Foremost(p, a), SubSeq(p, a + 1, b)) = Foremost(p, b)
    <3>1. a <= b /\ b <= Len(p)
      BY <1>0, <2>5
    <3> QED BY <3>1, SlicesMeet
  <2> QED BY <2>3, <2>4, <2>5, <2>6, <2>7, <2>8
<1>3. c \in S
  <2> HIDE DEF S
  <2>1. Nat \subseteq S
    BY <1>1, <1>2, SetInduction
  <2> QED BY <2>1
<1>4. FlattenSeq(Foremost(cc, c)) = Foremost(p, len)
  <2>1. Cut(len, n, c) = len
    BY <1>0, Cuts
  <2> QED BY <1>3, <2>1
<1>5. Foremost(cc, c) = cc /\ Foremost(p, len) = p
  <2>1. c \in 0..Len(cc) /\ len \in 0..Len(p)
    BY <1>0
  <2>2. Foremost(cc, Len(cc)) = cc /\ Foremost(p, Len(p)) = p
    BY <1>0, <2>1, Fronts
  <2> QED BY <1>0, <2>2
<1> QED BY <1>0, <1>4, <1>5

(* What EncodeRDataTXT writes, in one <character-string> or in several,    *)
(* DecodeRDataTXT reads: the same octets, and no error, for all octets of  *)
(* any number, none included (dns.go:533-551, 558-575).                    *)
THEOREM TextArrives ==
  ASSUME NEW p \in Seq(Byte)
  PROVE  DecodeRDataTXT(EncodeRDataTXT(p)) = [ok |-> TRUE, text |-> p]
<1>1. PICK e \in Seq(Byte) : e = EncodeRDataTXT(p)
  BY Encoded
<1>2. PICK f, g : f = (CHOOSE h : IsText(e, h)) /\ g = (CHOOSE h : IsWhole(e, h))
  OBVIOUS
<1>3. IsText(e, f) /\ IsWhole(e, g)
  BY <1>2, TextExists, WholeExists
<1>4. DecodeRDataTXT(e) = IF e # <<>> /\ g[1] THEN [ok |-> TRUE, text |-> f[1]] ELSE [ok |-> FALSE]
  BY <1>2, DecodedIs
<1>5. CASE p # <<>>
  <2>1. PICK cc \in Seq(Seq(Byte)) : cc = Chunks(p, 255)
    <3>1. 255 \in Runs
      BY DEF Runs
    <3> QED BY <3>1, ChunksAre
  <2>2. e = Verbatim(cc)
    BY <1>1, <1>5, <2>1, Encoded
  <2>3. f[1] = FlattenSeq(cc) /\ g[1]
    BY <1>3, <2>2, RunsDecoded
  <2>4. FlattenSeq(cc) = p
    <3>1. 255 \in Runs
      BY DEF Runs
    <3> QED BY <2>1, <3>1, FlattenChunks
  <2>5. e # <<>>
    <3>1. Len(e) = EncodedLength(Len(p)) /\ Len(p) \in Nat /\ Len(p) # 0
      BY <1>1, <1>5, Encoded, LenProperties, EmptySeq
    <3>2. EncodedLength(Len(p)) # 0
      BY <3>1 DEF EncodedLength
    <3> QED BY <3>1, <3>2, EmptySeq
  <2> QED BY <1>1, <1>4, <2>3, <2>4, <2>5
<1>6. CASE p = <<>>
  <2>1. e = <<0>>
    BY <1>1, <1>6, Encoded
  <2>2. Len(e) = 1 /\ e[1] = 0 /\ e # <<>>
    BY <2>1
  <2>3. f = [i \in 1..2 |-> TextBody(e, f, i)] /\ g = [i \in 1..2 |-> WholeBody(e, g, i)]
    BY <1>3, <2>2 DEF IsText, IsWhole
  <2>9. f[1] = TextBody(e, f, 1) /\ f[2] = TextBody(e, f, 2)
    <3>1. f = [i \in 1..2 |-> TextBody(e, f, i)]
      BY <2>3
    <3> QED BY <3>1
  <2>10. g[1] = WholeBody(e, g, 1) /\ g[2] = WholeBody(e, g, 2)
    <3>1. g = [i \in 1..2 |-> WholeBody(e, g, i)]
      BY <2>3
    <3> QED BY <3>1
  <2>4. /\ f[1] = TextBody(e, f, 1) /\ f[2] = TextBody(e, f, 2)
        /\ g[1] = WholeBody(e, g, 1) /\ g[2] = WholeBody(e, g, 2)
    BY <2>9, <2>10
  <2>5. TextBody(e, f, 2) = <<>> /\ WholeBody(e, g, 2)
    BY <2>2 DEF TextBody, WholeBody
  <2>6. TextBody(e, f, 1) = SubSeq(e, 2, 1) \o f[2] /\ (WholeBody(e, g, 1) <=> g[2])
    BY <2>2 DEF TextBody, WholeBody
  <2>7. SubSeq(e, 2, 1) = <<>>
    <3>1. \A m \in 2..1 : e[m] \in Nat
      OBVIOUS
    <3>2. SubSeq(e, 2, 1) \in Seq(Nat) /\ Len(SubSeq(e, 2, 1)) = 0
      BY <3>1, SubSeqProperties
    <3> QED BY <3>2, EmptySeq
  <2>8. f[1] = <<>> /\ g[1]
    BY <2>4, <2>5, <2>6, <2>7, ConcatEmptySeq
  <2> QED BY <1>1, <1>4, <1>6, <2>2, <2>8
<1> QED BY <1>1, <1>5, <1>6
-----------------------------------------------------------------------------
(* Base32: the octets whose bits are written five at a time come back.     *)
LEMMA BitValues ==
  /\ BitValue(0) = 128 /\ BitValue(1) = 64 /\ BitValue(2) = 32 /\ BitValue(3) = 16
  /\ BitValue(4) = 8 /\ BitValue(5) = 4 /\ BitValue(6) = 2 /\ BitValue(7) = 1
BY DEF BitValue

LEMMA BitsOf ==
  ASSUME NEW c \in Nat
  PROVE  /\ BitOf(c, 0) = (c \div 128) % 2 /\ BitOf(c, 1) = (c \div 64) % 2
         /\ BitOf(c, 2) = (c \div 32) % 2 /\ BitOf(c, 3) = (c \div 16) % 2
         /\ BitOf(c, 4) = (c \div 8) % 2 /\ BitOf(c, 5) = (c \div 4) % 2
         /\ BitOf(c, 6) = (c \div 2) % 2 /\ BitOf(c, 7) = (c \div 1) % 2
BY BitValues DEF BitOf

LEMMA Remainder ==
  ASSUME NEW c \in Nat
  PROVE  \E h \in Nat, y \in {0, 1} : y = c % 2 /\ c = 2 * h + y
<1>1. PICK h \in Nat, y \in Nat : h = c \div 2 /\ y = c % 2 /\ y <= 1
  OBVIOUS
<1>2. c = 2 * h + y
  BY <1>1
<1>3. y \in {0, 1}
  BY <1>1
<1> QED BY <1>1, <1>2, <1>3

LEMMA Quotients ==
  ASSUME NEW c \in Nat
  PROVE  /\ \E x \in Nat : x = c \div 1 /\ x = c
         /\ \E x \in Nat : x = c \div 2 /\ 2 * x <= c /\ c < 2 * x + 2
         /\ \E x \in Nat : x = c \div 4 /\ 4 * x <= c /\ c < 4 * x + 4
         /\ \E x \in Nat : x = c \div 8 /\ 8 * x <= c /\ c < 8 * x + 8
         /\ \E x \in Nat : x = c \div 16 /\ 16 * x <= c /\ c < 16 * x + 16
         /\ \E x \in Nat : x = c \div 32 /\ 32 * x <= c /\ c < 32 * x + 32
         /\ \E x \in Nat : x = c \div 64 /\ 64 * x <= c /\ c < 64 * x + 64
         /\ \E x \in Nat : x = c \div 128 /\ 128 * x <= c /\ c < 128 * x + 128
OBVIOUS

LEMMA BitsAre ==
  ASSUME NEW c \in Nat, NEW j \in 0..7
  PROVE  BitOf(c, j) \in {0, 1}
<1>1. j = 0 \/ j = 1 \/ j = 2 \/ j = 3 \/ j = 4 \/ j = 5 \/ j = 6 \/ j = 7
  OBVIOUS
<1>2. \A d \in Nat : d % 2 \in {0, 1}
  BY Remainder
<1>3. /\ c \div 128 \in Nat /\ c \div 64 \in Nat /\ c \div 32 \in Nat /\ c \div 16 \in Nat
      /\ c \div 8 \in Nat /\ c \div 4 \in Nat /\ c \div 2 \in Nat /\ c \div 1 \in Nat
  BY Quotients
<1>b0. BitOf(c, 0) \in {0, 1}
  <2>1. PICK d \in Nat : d = c \div 128
    BY <1>3
  <2>2. BitOf(c, 0) = (c \div 128) % 2
    BY BitsOf
  <2> QED BY <1>2, <2>1, <2>2
<1>b1. BitOf(c, 1) \in {0, 1}
  <2>1. PICK d \in Nat : d = c \div 64
    BY <1>3
  <2>2. BitOf(c, 1) = (c \div 64) % 2
    BY BitsOf
  <2> QED BY <1>2, <2>1, <2>2
<1>b2. BitOf(c, 2) \in {0, 1}
  <2>1. PICK d \in Nat : d = c \div 32
    BY <1>3
  <2>2. BitOf(c, 2) = (c \div 32) % 2
    BY BitsOf
  <2> QED BY <1>2, <2>1, <2>2
<1>b3. BitOf(c, 3) \in {0, 1}
  <2>1. PICK d \in Nat : d = c \div 16
    BY <1>3
  <2>2. BitOf(c, 3) = (c \div 16) % 2
    BY BitsOf
  <2> QED BY <1>2, <2>1, <2>2
<1>b4. BitOf(c, 4) \in {0, 1}
  <2>1. PICK d \in Nat : d = c \div 8
    BY <1>3
  <2>2. BitOf(c, 4) = (c \div 8) % 2
    BY BitsOf
  <2> QED BY <1>2, <2>1, <2>2
<1>b5. BitOf(c, 5) \in {0, 1}
  <2>1. PICK d \in Nat : d = c \div 4
    BY <1>3
  <2>2. BitOf(c, 5) = (c \div 4) % 2
    BY BitsOf
  <2> QED BY <1>2, <2>1, <2>2
<1>b6. BitOf(c, 6) \in {0, 1}
  <2>1. PICK d \in Nat : d = c \div 2
    BY <1>3
  <2>2. BitOf(c, 6) = (c \div 2) % 2
    BY BitsOf
  <2> QED BY <1>2, <2>1, <2>2
<1>b7. BitOf(c, 7) \in {0, 1}
  <2>1. PICK d \in Nat : d = c \div 1
    BY <1>3
  <2>2. BitOf(c, 7) = (c \div 1) % 2
    BY BitsOf
  <2> QED BY <1>2, <2>1, <2>2
<1> QED BY <1>1, <1>b0, <1>b1, <1>b2, <1>b3, <1>b4, <1>b5, <1>b6, <1>b7

Bits == {0, 1}
Eight(b0, b1, b2, b3, b4, b5, b6, b7) ==
  128 * b0 + 64 * b1 + 32 * b2 + 16 * b3 + 8 * b4 + 4 * b5 + 2 * b6 + b7
Five(b0, b1, b2, b3, b4) == 16 * b0 + 8 * b1 + 4 * b2 + 2 * b3 + b4

LEMMA OctetBits ==
  ASSUME NEW c \in 0..255
  PROVE  Eight(BitOf(c, 0), BitOf(c, 1), BitOf(c, 2), BitOf(c, 3),
               BitOf(c, 4), BitOf(c, 5), BitOf(c, 6), BitOf(c, 7)) = c
<1>1. c \in Nat
  OBVIOUS
<1>a1. PICK d1 \in Nat : d1 = c \div 1 /\ d1 = c
  BY <1>1, Quotients
<1>a2. PICK d2 \in Nat : d2 = c \div 2 /\ 2 * d2 <= c /\ c < 2 * d2 + 2
  BY <1>1, Quotients
<1>a4. PICK d4 \in Nat : d4 = c \div 4 /\ 4 * d4 <= c /\ c < 4 * d4 + 4
  BY <1>1, Quotients
<1>a8. PICK d8 \in Nat : d8 = c \div 8 /\ 8 * d8 <= c /\ c < 8 * d8 + 8
  BY <1>1, Quotients
<1>a16. PICK d16 \in Nat : d16 = c \div 16 /\ 16 * d16 <= c /\ c < 16 * d16 + 16
  BY <1>1, Quotients
<1>a32. PICK d32 \in Nat : d32 = c \div 32 /\ 32 * d32 <= c /\ c < 32 * d32 + 32
  BY <1>1, Quotients
<1>a64. PICK d64 \in Nat : d64 = c \div 64 /\ 64 * d64 <= c /\ c < 64 * d64 + 64
  BY <1>1, Quotients
<1>a128. PICK d128 \in Nat : d128 = c \div 128 /\ 128 * d128 <= c /\ c < 128 * d128 + 128
  BY <1>1, Quotients
<1>b1. PICK h1 \in Nat, y1 \in {0, 1} : y1 = d1 % 2 /\ d1 = 2 * h1 + y1
  BY Remainder
<1>b2. PICK h2 \in Nat, y2 \in {0, 1} : y2 = d2 % 2 /\ d2 = 2 * h2 + y2
  BY Remainder
<1>b4. PICK h4 \in Nat, y4 \in {0, 1} : y4 = d4 % 2 /\ d4 = 2 * h4 + y4
  BY Remainder
<1>b8. PICK h8 \in Nat, y8 \in {0, 1} : y8 = d8 % 2 /\ d8 = 2 * h8 + y8
  BY Remainder
<1>b16. PICK h16 \in Nat, y16 \in {0, 1} : y16 = d16 % 2 /\ d16 = 2 * h16 + y16
  BY Remainder
<1>b32. PICK h32 \in Nat, y32 \in {0, 1} : y32 = d32 % 2 /\ d32 = 2 * h32 + y32
  BY Remainder
<1>b64. PICK h64 \in Nat, y64 \in {0, 1} : y64 = d64 % 2 /\ d64 = 2 * h64 + y64
  BY Remainder
<1>b128. PICK h128 \in Nat, y128 \in {0, 1} : y128 = d128 % 2 /\ d128 = 2 * h128 + y128
  BY Remainder
<1>c1. d1 = 2 * d2 + y1
  BY <1>1, <1>a1, <1>a2, <1>b1
<1>c2. d2 = 2 * d4 + y2
  BY <1>1, <1>a2, <1>a4, <1>b2
<1>c4. d4 = 2 * d8 + y4
  BY <1>1, <1>a4, <1>a8, <1>b4
<1>c8. d8 = 2 * d16 + y8
  BY <1>1, <1>a8, <1>a16, <1>b8
<1>c16. d16 = 2 * d32 + y16
  BY <1>1, <1>a16, <1>a32, <1>b16
<1>c32. d32 = 2 * d64 + y32
  BY <1>1, <1>a32, <1>a64, <1>b32
<1>c64. d64 = 2 * d128 + y64
  BY <1>1, <1>a64, <1>a128, <1>b64
<1>c128. d128 = y128
  BY <1>a128, <1>b128
<1>2. Eight(y128, y64, y32, y16, y8, y4, y2, y1) = c
  BY <1>a1, <1>c1, <1>c2, <1>c4, <1>c8, <1>c16, <1>c32, <1>c64, <1>c128 DEF Eight
<1>3. /\ BitOf(c, 0) = y128 /\ BitOf(c, 1) = y64 /\ BitOf(c, 2) = y32 /\ BitOf(c, 3) = y16
      /\ BitOf(c, 4) = y8 /\ BitOf(c, 5) = y4 /\ BitOf(c, 6) = y2 /\ BitOf(c, 7) = y1
  <2>1. /\ BitOf(c, 0) = (c \div 128) % 2 /\ BitOf(c, 1) = (c \div 64) % 2
        /\ BitOf(c, 2) = (c \div 32) % 2 /\ BitOf(c, 3) = (c \div 16) % 2
        /\ BitOf(c, 4) = (c \div 8) % 2 /\ BitOf(c, 5) = (c \div 4) % 2
        /\ BitOf(c, 6) = (c \div 2) % 2 /\ BitOf(c, 7) = (c \div 1) % 2
    BY <1>1, BitsOf
  <2>2. /\ BitOf(c, 0) = d128 % 2 /\ BitOf(c, 1) = d64 % 2
        /\ BitOf(c, 2) = d32 % 2 /\ BitOf(c, 3) = d16 % 2
    BY <2>1, <1>a16, <1>a32, <1>a64, <1>a128
  <2>3. /\ BitOf(c, 4) = d8 % 2 /\ BitOf(c, 5) = d4 % 2
        /\ BitOf(c, 6) = d2 % 2 /\ BitOf(c, 7) = d1 % 2
    BY <2>1, <1>a1, <1>a2, <1>a4, <1>a8
  <2> QED BY <2>2, <2>3, <1>b1, <1>b2, <1>b4, <1>b8, <1>b16, <1>b32, <1>b64, <1>b128
<1> QED BY <1>2, <1>3

IsQuint(v, a0, a1, a2, a3, a4) ==
  /\ v = Five(a0, a1, a2, a3, a4) /\ v \in 0..31
  /\ BitOf(v, 3) = a0 /\ BitOf(v, 4) = a1 /\ BitOf(v, 5) = a2 /\ BitOf(v, 6) = a3
  /\ BitOf(v, 7) = a4

LEMMA DigitBits ==
  ASSUME NEW a0 \in Bits, NEW a1 \in Bits, NEW a2 \in Bits, NEW a3 \in Bits, NEW a4 \in Bits
  PROVE  \E v \in Nat : IsQuint(v, a0, a1, a2, a3, a4)
<1>1. PICK v \in 0..31 : v = 16 * a0 + 8 * a1 + 4 * a2 + 2 * a3 + a4
  BY DEF Bits
<1>2. v = Five(a0, a1, a2, a3, a4) /\ v \in Nat
  BY <1>1 DEF Five
<1>3. /\ (v \div 16) % 2 = a0 /\ (v \div 8) % 2 = a1 /\ (v \div 4) % 2 = a2
      /\ (v \div 2) % 2 = a3 /\ (v \div 1) % 2 = a4
  BY <1>1 DEF Bits
<1>4. /\ BitOf(v, 3) = a0 /\ BitOf(v, 4) = a1 /\ BitOf(v, 5) = a2 /\ BitOf(v, 6) = a3
      /\ BitOf(v, 7) = a4
  BY <1>2, <1>3, BitsOf
<1>5. IsQuint(v, a0, a1, a2, a3, a4)
  BY <1>2, <1>4 DEF IsQuint
<1> QED BY <1>2, <1>5

(* The values of the digits.                                               *)
Quint(p, i) ==
  Five(Bit(p, 5 * (i - 1) + 0), Bit(p, 5 * (i - 1) + 1), Bit(p, 5 * (i - 1) + 2),
       Bit(p, 5 * (i - 1) + 3), Bit(p, 5 * (i - 1) + 4))
Char(v) == IF v < 26 THEN 97 + v ELSE 24 + v
Digits(n) == (8 * n + 4) \div 5

LEMMA CharAsDigit ==
  ASSUME NEW v \in 0..31
  PROVE  /\ Digit(Upper(Char(v))) = v /\ Upper(Char(v)) \in Alphabet /\ Char(v) \in Octets
BY DEF Digit, Upper, Char, Alphabet, Octets, Letters

LEMMA BitIs ==
  ASSUME NEW p \in Seq(Octets), NEW k \in Nat
  PROVE  Bit(p, k) \in Bits
<1>1. CASE k \div 8 >= Len(p)
  BY <1>1 DEF Bit, Bits
<1>2. CASE ~(k \div 8 >= Len(p))
  <2>1. k \div 8 \in Nat /\ Len(p) \in Nat /\ k % 8 \in 0..7
    <3>1. k \div 8 \in Nat /\ k % 8 \in 0..7
      OBVIOUS
    <3> QED BY <3>1, LenProperties
  <2>2. (k \div 8) + 1 \in 1..Len(p)
    BY <1>2, <2>1
  <2>3. p[(k \div 8) + 1] \in Nat
    <3>1. p[(k \div 8) + 1] \in Octets
      BY <2>2, ElementOfSeq
    <3>2. \A c \in Octets : c \in Nat
      BY DEF Octets
    <3> QED BY <3>1, <3>2
  <2> QED BY <1>2, <2>1, <2>3, BitsAre DEF Bit, Bits
<1> QED BY <1>1, <1>2

LEMMA QuintBits ==
  ASSUME NEW p \in Seq(Octets), NEW i \in Nat \ {0}
  PROVE  /\ Quint(p, i) \in 0..31
         /\ \A j \in 0..4 : BitOf(Quint(p, i), 3 + j) = Bit(p, 5 * (i - 1) + j)
<1>1. PICK m \in Nat : m = 5 * (i - 1)
  <2>1. i - 1 \in Nat
    OBVIOUS
  <2> QED BY <2>1
<1>2. /\ m + 0 \in Nat /\ m + 1 \in Nat /\ m + 2 \in Nat /\ m + 3 \in Nat /\ m + 4 \in Nat
  OBVIOUS
<1>3. PICK a0, a1, a2, a3, a4 \in Bits :
        /\ a0 = Bit(p, m + 0) /\ a1 = Bit(p, m + 1) /\ a2 = Bit(p, m + 2) /\ a3 = Bit(p, m + 3)
        /\ a4 = Bit(p, m + 4)
  <2>1. /\ Bit(p, m + 0) \in Bits /\ Bit(p, m + 1) \in Bits /\ Bit(p, m + 2) \in Bits
        /\ Bit(p, m + 3) \in Bits /\ Bit(p, m + 4) \in Bits
    BY <1>2, BitIs
  <2> QED BY <2>1
<1>4. PICK v \in Nat : IsQuint(v, a0, a1, a2, a3, a4)
  BY DigitBits
<1>6. /\ v = Five(a0, a1, a2, a3, a4) /\ v \in 0..31
      /\ BitOf(v, 3) = a0 /\ BitOf(v, 4) = a1 /\ BitOf(v, 5) = a2 /\ BitOf(v, 6) = a3
      /\ BitOf(v, 7) = a4
  BY <1>4 DEF IsQuint
<1>5. Quint(p, i) = v
  BY <1>1, <1>3, <1>6 DEF Quint
<1>7. \A j \in 0..4 : BitOf(v, 3 + j) = Bit(p, m + j)
  <2> TAKE j \in 0..4
  <2>1. j = 0 \/ j = 1 \/ j = 2 \/ j = 3 \/ j = 4
    OBVIOUS
  <2>2. 3 + 0 = 3 /\ 3 + 1 = 4 /\ 3 + 2 = 5 /\ 3 + 3 = 6 /\ 3 + 4 = 7
    OBVIOUS
  <2> QED BY <1>3, <1>6, <2>1, <2>2
<1> QED BY <1>1, <1>5, <1>6, <1>7

LEMMA DigitsAre ==
  ASSUME NEW n \in Nat
  PROVE  /\ Digits(n) \in Nat /\ (5 * Digits(n)) \div 8 = n
         /\ 5 * Digits(n) >= 8 * n /\ 5 * Digits(n) <= 8 * n + 4
<1>1. PICK d \in Nat : d = (8 * n + 4) \div 5 /\ 5 * d <= 8 * n + 4 /\ 8 * n <= 5 * d
  BY SMT
<1>2. (5 * d) \div 8 = n
  BY <1>1, SMT
<1> QED BY <1>1, <1>2 DEF Digits

LEMMA Base32Is ==
  ASSUME NEW p \in Seq(Octets)
  PROVE  /\ Base32(p) \in Seq(Octets) /\ Len(Base32(p)) = Digits(Len(p))
         /\ \A i \in 1..Digits(Len(p)) : Base32(p)[i] = Char(Quint(p, i))
<1>1. PICK n \in Nat : n = Digits(Len(p))
  BY DigitsAre, LenProperties
<1>2. Base32(p) = [i \in 1..n |-> Char(Quint(p, i))]
  BY <1>1 DEF Base32, Digits, Char, Quint, Five
<1>3. \A i \in 1..n : Char(Quint(p, i)) \in Octets
  <2> TAKE i \in 1..n
  <2>1. i \in Nat \ {0}
    OBVIOUS
  <2> QED BY <2>1, QuintBits, CharAsDigit
<1>4. [i \in 1..n |-> Char(Quint(p, i))] \in [1..n -> Octets]
  BY <1>3
<1>5. Base32(p) \in Seq(Octets) /\ Len(Base32(p)) = n
  BY <1>1, <1>2, <1>4
<1>6. \A i \in 1..n : Base32(p)[i] = Char(Quint(p, i))
  BY <1>2
<1> QED BY <1>1, <1>5, <1>6
-----------------------------------------------------------------------------
LEMMA UpperIs ==
  ASSUME NEW c \in Nat
  PROVE  Upper(c) \in Byte
BY DEF Upper, Letters, Byte

LEMMA UpperCaseIs ==
  ASSUME NEW s \in Seq(Byte)
  PROVE  /\ UpperCase(s) \in Seq(Byte) /\ Len(UpperCase(s)) = Len(s)
         /\ \A i \in 1..Len(s) : UpperCase(s)[i] = Upper(s[i])
<1>1. PICK n \in Nat : n = Len(s) /\ DOMAIN s = 1..n
  BY LenProperties
<1>2. UpperCase(s) = [i \in 1..n |-> Upper(s[i])]
  BY <1>1 DEF UpperCase, Upper, Letters
<1>3. \A i \in 1..n : Upper(s[i]) \in Byte
  <2> TAKE i \in 1..n
  <2>1. s[i] \in Nat
    BY <1>1, ElementOfSeq DEF Byte
  <2> QED BY <2>1, UpperIs
<1>4. [i \in 1..n |-> Upper(s[i])] \in [1..n -> Byte]
  BY <1>3
<1>5. UpperCase(s) \in Seq(Byte) /\ Len(UpperCase(s)) = n
  BY <1>1, <1>2, <1>4
<1>6. \A i \in 1..n : UpperCase(s)[i] = Upper(s[i])
  BY <1>2
<1> QED BY <1>1, <1>5, <1>6

LEMMA AlikeUpper ==
  ASSUME NEW a \in Seq(Byte), NEW b \in Seq(Byte), Alike(a, b)
  PROVE  UpperCase(a) = UpperCase(b)
<1>1. PICK n \in Nat : n = Len(a) /\ n = Len(b)
  BY LenProperties DEF Alike
<1>2. PICK x \in Seq(Byte), y \in Seq(Byte) :
        /\ x = UpperCase(a) /\ y = UpperCase(b) /\ Len(x) = n /\ Len(y) = n
        /\ \A i \in 1..n : x[i] = Upper(a[i]) /\ y[i] = Upper(b[i])
  <2>1. /\ UpperCase(a) \in Seq(Byte) /\ Len(UpperCase(a)) = n
        /\ \A i \in 1..n : UpperCase(a)[i] = Upper(a[i])
    BY <1>1, UpperCaseIs
  <2>2. /\ UpperCase(b) \in Seq(Byte) /\ Len(UpperCase(b)) = n
        /\ \A i \in 1..n : UpperCase(b)[i] = Upper(b[i])
    BY <1>1, UpperCaseIs
  <2> QED BY <2>1, <2>2
<1>3. \A i \in 1..Len(x) : x[i] = y[i]
  BY <1>1, <1>2 DEF Alike
<1>4. x = y
  BY <1>2, <1>3, SeqEqual
<1> QED BY <1>2, <1>4

LEMMA OctetsAreBytes ==
  /\ \A c \in Octets : c \in Byte
  /\ Seq(Octets) \subseteq Seq(Byte)
  /\ Seq(Seq(Octets)) \subseteq Seq(Seq(Byte))
<1>1. Octets \subseteq Byte
  BY DEF Octets, Byte
<1>2. Seq(Octets) \subseteq Seq(Byte)
  BY <1>1, SeqSubset
<1> QED BY <1>1, <1>2, SeqSubset

(* The bits of the digits are those of the octets.                         *)
LEMMA BitOfDigit ==
  ASSUME NEW p \in Seq(Octets), NEW s, \A i \in 1..Digits(Len(p)) : Digit(s[i]) = Quint(p, i),
         NEW k \in Nat, k < 8 * Len(p)
  PROVE  BitOf(Digit(s[(k \div 5) + 1]), 3 + (k % 5)) = Bit(p, k)
<1>1. PICK n \in Nat : n = Len(p)
  BY LenProperties
<1>2. PICK q \in Nat, j \in 0..4 : q = k \div 5 /\ j = k % 5 /\ k = 5 * q + j
  <2>1. PICK q, j \in Nat : q = k \div 5 /\ j = k % 5 /\ j <= 4
    OBVIOUS
  <2>2. k = 5 * q + j
    BY <2>1
  <2>3. j \in 0..4
    BY <2>1
  <2> QED BY <2>1, <2>2, <2>3
<1>3. PICK i \in Nat \ {0} : i = q + 1 /\ 5 * (i - 1) + j = k
  <2>1. q + 1 \in Nat \ {0} /\ 5 * ((q + 1) - 1) + j = k
    BY <1>2
  <2> QED BY <2>1
<1>4. i \in 1..Digits(n)
  <2>1. PICK d \in Nat : d = Digits(n) /\ 5 * d >= 8 * n
    BY DigitsAre
  <2>2. k < 8 * n
    BY <1>1
  <2> QED BY <1>2, <1>3, <2>1, <2>2
<1>5. Digit(s[i]) = Quint(p, i)
  BY <1>1, <1>4
<1>6. BitOf(Quint(p, i), 3 + j) = Bit(p, 5 * (i - 1) + j)
  BY QuintBits
<1> QED BY <1>2, <1>3, <1>5, <1>6

LEMMA BitOfOctet ==
  ASSUME NEW p \in Seq(Octets), NEW i \in 1..Len(p), NEW j \in 0..7
  PROVE  /\ Bit(p, 8 * (i - 1) + j) = BitOf(p[i], j)
         /\ 8 * (i - 1) + j \in Nat /\ 8 * (i - 1) + j < 8 * Len(p)
<1>1. PICK n \in Nat : n = Len(p)
  BY LenProperties
<1>2. PICK h \in Nat : h = i - 1
  <2>1. i - 1 \in Nat
    BY <1>1
  <2> QED BY <2>1
<1>3. (8 * h + j) \div 8 = h /\ (8 * h + j) % 8 = j
  BY SMT
<1>4. 8 * h + j \in Nat /\ 8 * h + j < 8 * n /\ h + 1 = i /\ ~(h >= n)
  BY <1>1, <1>2
<1>5. Bit(p, 8 * h + j) = BitOf(p[h + 1], j)
  BY <1>1, <1>3, <1>4 DEF Bit
<1> QED BY <1>1, <1>2, <1>4, <1>5

LEMMA Decoded ==
  ASSUME NEW p \in Seq(Octets), NEW s, Len(s) = Digits(Len(p)),
         \A i \in 1..Digits(Len(p)) : Digit(s[i]) = Quint(p, i)
  PROVE  Unbase32(s) = p
<1>1. PICK n \in Nat : n = Len(p)
  BY LenProperties
<1> DEFINE B(k) == BitOf(Digit(s[(k \div 5) + 1]), 3 + (k % 5))
           C(i) == Eight(B(8 * (i - 1)), B(8 * (i - 1) + 1), B(8 * (i - 1) + 2), B(8 * (i - 1) + 3),
                         B(8 * (i - 1) + 4), B(8 * (i - 1) + 5), B(8 * (i - 1) + 6),
                         B(8 * (i - 1) + 7))
<1>2. (5 * Len(s)) \div 8 = n
  BY <1>1, DigitsAre
<1>3. Unbase32(s) = [i \in 1..n |-> C(i)]
  BY <1>2 DEF Unbase32, Eight
<1>4. ASSUME NEW i \in 1..n PROVE C(i) = p[i]
  <2>1. PICK o \in Nat : o = 8 * (i - 1)
    <3>1. 8 * (i - 1) \in Nat
      OBVIOUS
    <3> QED BY <3>1
  <2>2. \A j \in 0..7 : B(o + j) = BitOf(p[i], j)
    <3> TAKE j \in 0..7
    <3>1. i \in 1..Len(p)
      BY <1>1
    <3>2. Bit(p, o + j) = BitOf(p[i], j) /\ o + j \in Nat /\ o + j < 8 * Len(p)
      BY <2>1, <3>1, BitOfOctet
    <3>3. PICK k \in Nat : k = o + j /\ k < 8 * Len(p)
      BY <3>2
    <3>4. B(k) = Bit(p, k)
      BY <3>3, BitOfDigit
    <3> QED BY <3>2, <3>3, <3>4
  <2>3. o + 0 = o
    OBVIOUS
  <2> HIDE DEF B
  <2>4. /\ B(o) = BitOf(p[i], 0) /\ B(o + 1) = BitOf(p[i], 1) /\ B(o + 2) = BitOf(p[i], 2)
        /\ B(o + 3) = BitOf(p[i], 3) /\ B(o + 4) = BitOf(p[i], 4) /\ B(o + 5) = BitOf(p[i], 5)
        /\ B(o + 6) = BitOf(p[i], 6) /\ B(o + 7) = BitOf(p[i], 7)
    <3>1. /\ B(o + 0) = BitOf(p[i], 0) /\ B(o + 1) = BitOf(p[i], 1) /\ B(o + 2) = BitOf(p[i], 2)
          /\ B(o + 3) = BitOf(p[i], 3) /\ B(o + 4) = BitOf(p[i], 4) /\ B(o + 5) = BitOf(p[i], 5)
          /\ B(o + 6) = BitOf(p[i], 6) /\ B(o + 7) = BitOf(p[i], 7)
      BY <2>2
    <3> QED BY <2>3, <3>1
  <2>5. PICK c \in 0..255 : c = p[i]
    BY <1>1, ElementOfSeq DEF Octets
  <2>6. Eight(BitOf(c, 0), BitOf(c, 1), BitOf(c, 2), BitOf(c, 3),
              BitOf(c, 4), BitOf(c, 5), BitOf(c, 6), BitOf(c, 7)) = c
    BY OctetBits
  <2> QED BY <2>1, <2>4, <2>5, <2>6
<1> HIDE DEF C
<1>5. \A i \in 1..n : C(i) \in Octets
  <2> TAKE i \in 1..n
  <2>1. p[i] \in Octets
    BY <1>1, ElementOfSeq
  <2> QED BY <1>4, <2>1
<1>6. [i \in 1..n |-> C(i)] \in [1..n -> Octets]
  BY <1>5
<1>7. PICK u \in Seq(Octets) : u = Unbase32(s) /\ Len(u) = n
  <2>1. Unbase32(s) \in Seq(Octets) /\ Len(Unbase32(s)) = n
    BY <1>3, <1>6
  <2> QED BY <2>1
<1>8. \A i \in 1..n : u[i] = p[i]
  <2>1. \A i \in 1..n : u[i] = C(i)
    BY <1>3, <1>7
  <2> QED BY <1>4, <2>1
<1>9. u = p
  <2>1. Len(u) = Len(p) /\ \A i \in 1..Len(u) : u[i] = p[i]
    BY <1>1, <1>7, <1>8
  <2> QED BY <2>1, SeqEqual
<1> QED BY <1>7, <1>9

(* Octets that the client writes in base32 and the server reads after it   *)
(* has made their letters upper case are the same octets, whatever their   *)
(* number is modulo 5: without padding no bit is lost or added             *)
(* (lib/dns.go:347-352, dnstt-server/main.go:479-492).                     *)
THEOREM DigitsArrive ==
  ASSUME NEW p \in Seq(Octets), NEW t, t = UpperCase(Base32(p))
  PROVE  Unbase32(t) = p /\ \A i \in DOMAIN t : t[i] \in Alphabet
<1>1. PICK d \in Nat : d = Digits(Len(p))
  BY LenProperties, DigitsAre
<1>2. PICK b \in Seq(Byte) : b = Base32(p) /\ Len(b) = d /\ \A i \in 1..d : b[i] = Char(Quint(p, i))
  BY <1>1, Base32Is, OctetsAreBytes
<1>3. t \in Seq(Byte) /\ Len(t) = d /\ \A i \in 1..d : t[i] = Upper(b[i])
  BY <1>2, UpperCaseIs
<1>4. \A i \in 1..d : Digit(t[i]) = Quint(p, i) /\ t[i] \in Alphabet
  <2> TAKE i \in 1..d
  <2>1. PICK v \in 0..31 : v = Quint(p, i)
    <3>1. i \in Nat \ {0}
      OBVIOUS
    <3> QED BY <3>1, QuintBits
  <2>2. t[i] = Upper(Char(v))
    BY <1>2, <1>3, <2>1
  <2> QED BY <2>1, <2>2, CharAsDigit
<1>5. Unbase32(t) = p
  BY <1>1, <1>3, <1>4, Decoded
<1>6. DOMAIN t = 1..d
  BY <1>3, LenProperties
<1> QED BY <1>4, <1>5, <1>6
-----------------------------------------------------------------------------
(* What comes behind the first part of a sequence.                         *)
LEMMA BehindFirst ==
  ASSUME NEW X, NEW a \in Seq(X), NEW b \in Seq(X)
  PROVE  SubSeq(Cat(a, b), Len(a) + 1, Len(Cat(a, b))) = b
<1>1. PICK c \in Seq(X) :
        /\ c = Cat(a, b) /\ Len(c) = Len(a) + Len(b)
        /\ \A j \in 1..Len(b) : c[Len(a) + j] = b[j]
  BY CatType, CatElements
<1>2. PICK k \in Nat, n \in Nat : k = Len(a) /\ n = Len(b) /\ k + n <= Len(c) /\ Len(c) = k + n
  BY <1>1, LenProperties
<1>3. PICK d \in Seq(X) :
        d = SubSeq(c, k + 1, k + n) /\ Len(d) = n /\ \A i \in 1..n : d[i] = c[k + i]
  <2>1. /\ SubSeq(c, k + 1, k + n) \in Seq(X) /\ Len(SubSeq(c, k + 1, k + n)) = n
        /\ \A i \in 1..n : SubSeq(c, k + 1, k + n)[i] = c[k + i]
    BY <1>2, Slice
  <2> QED BY <2>1
<1>4. Len(d) = Len(b) /\ \A i \in 1..Len(d) : d[i] = b[i]
  BY <1>1, <1>2, <1>3
<1>5. d = b
  BY <1>4, SeqEqual
<1> QED BY <1>1, <1>2, <1>3, <1>5

(* A packet as the client's send pads it.                                  *)
Padded(p) == IF p = <<>> THEN Padding(8) ELSE Cat(Padding(3), Cat(<<Len(p)>>, p))

LEMMA PaddingIs ==
  /\ Padding(8) \in Seq(Octets) /\ Len(Padding(8)) = 9 /\ Padding(8)[1] = 232
  /\ Padding(3) \in Seq(Octets) /\ Len(Padding(3)) = 4 /\ Padding(3)[1] = 227
<1>1. PICK a, b, c, d \in Seq(Octets) :
        a = <<232>> /\ b = [i \in 1..8 |-> 255] /\ c = <<227>> /\ d = [i \in 1..3 |-> 255]
  <2>1. 255 \in Octets /\ 232 \in Octets /\ 227 \in Octets
    BY DEF Octets
  <2>2. [i \in 1..8 |-> 255] \in Seq(Octets) /\ [i \in 1..3 |-> 255] \in Seq(Octets)
    BY <2>1
  <2>3. <<232>> \in Seq(Octets) /\ <<227>> \in Seq(Octets)
    BY <2>1
  <2> QED BY <2>2, <2>3
<1>2. Len(a) = 1 /\ Len(b) = 8 /\ Len(c) = 1 /\ Len(d) = 3 /\ a[1] = 232 /\ c[1] = 227
  BY <1>1
<1>3. Padding(8) = Cat(a, b) /\ Padding(3) = Cat(c, d)
  BY <1>1 DEF Padding, Cat
<1>a. PICK x \in Seq(Octets) :
        x = Cat(a, b) /\ Len(x) = Len(a) + Len(b) /\ \A j \in 1..Len(a) : x[j] = a[j]
  <2>1. Cat(a, b) \in Seq(Octets) /\ Len(Cat(a, b)) = Len(a) + Len(b)
    BY CatType
  <2>2. \A j \in 1..Len(a) : Cat(a, b)[j] = a[j]
    BY CatElements
  <2> QED BY <2>1, <2>2
<1>b. PICK y \in Seq(Octets) :
        y = Cat(c, d) /\ Len(y) = Len(c) + Len(d) /\ \A j \in 1..Len(c) : y[j] = c[j]
  <2>1. Cat(c, d) \in Seq(Octets) /\ Len(Cat(c, d)) = Len(c) + Len(d)
    BY CatType
  <2>2. \A j \in 1..Len(c) : Cat(c, d)[j] = c[j]
    BY CatElements
  <2> QED BY <2>1, <2>2
<1>4. Len(x) = 9 /\ Len(y) = 4
  BY <1>2, <1>a, <1>b
<1>5. x[1] = 232 /\ y[1] = 227
  <2>1. 1 \in 1..Len(a) /\ 1 \in 1..Len(c)
    BY <1>2
  <2> QED BY <1>2, <1>a, <1>b, <2>1
<1> QED BY <1>3, <1>a, <1>b, <1>4, <1>5

LEMMA SmallOctet ==
  ASSUME NEW n \in Nat, n <= 255
  PROVE  n \in Octets
BY DEF Octets

LEMMA ContentsAre ==
  ASSUME NEW p \in Seq(Octets), Len(p) <= 223
  PROVE  /\ Contents(p) = Cat(ClientID, Padded(p))
         /\ ClientID \in Seq(Octets) /\ Len(ClientID) = 8
         /\ Padded(p) \in Seq(Octets) /\ Contents(p) \in Seq(Octets)
         /\ Len(Contents(p)) = IF p = <<>> THEN 17 ELSE 13 + Len(p)
<1>1. PICK id \in Seq(Octets) : id = ClientID /\ Len(id) = 8
  <2>1. /\ 0 \in Octets /\ 255 \in Octets /\ 1 \in Octets /\ 128 \in Octets /\ 85 \in Octets
        /\ 170 \in Octets /\ 224 \in Octets /\ 7 \in Octets
    BY DEF Octets
  <2>2. <<0, 255, 1, 128, 85, 170, 224, 7>> \in Seq(Octets)
    BY <2>1
  <2> QED BY <2>2 DEF ClientID
<1>2. PICK n \in Octets, one \in Seq(Octets) : n = Len(p) /\ one = <<n>> /\ Len(one) = 1
  <2>0. PICK n \in Nat : n = Len(p)
    BY LenProperties
  <2>4. n <= 255
    BY <2>0
  <2>3. n \in Octets
    BY <2>4, SmallOctet
  <2>1. Len(p) \in Octets
    BY <2>0, <2>3
  <2>2. <<Len(p)>> \in Seq(Octets) /\ Len(<<Len(p)>>) = 1
    BY <2>1
  <2> QED BY <2>1, <2>2
<1>3. PICK r \in Seq(Octets) : r = Cat(one, p) /\ Len(r) = 1 + n
  <2>1. Cat(one, p) \in Seq(Octets) /\ Len(Cat(one, p)) = Len(one) + Len(p)
    BY CatType
  <2> QED BY <1>2, <2>1
<1>4. PICK s \in Seq(Octets), t \in Seq(Octets) :
        s = Padding(3) /\ t = Padding(8) /\ Len(s) = 4 /\ Len(t) = 9
  BY PaddingIs
<1>5. PICK u \in Seq(Octets) : u = Cat(s, r) /\ Len(u) = 4 + (1 + n)
  <2>1. Cat(s, r) \in Seq(Octets) /\ Len(Cat(s, r)) = Len(s) + Len(r)
    BY CatType
  <2> QED BY <1>3, <1>4, <2>1
<1>6. n \in Nat
  BY DEF Octets
<1>7. Padded(p) = IF p = <<>> THEN t ELSE u
  BY <1>2, <1>3, <1>4, <1>5 DEF Padded
<1>8. Contents(p) = Cat(id, Padded(p))
  <2>1. CASE p = <<>>
    BY <1>1, <1>4, <1>7, <2>1 DEF Contents, Cat
  <2>2. CASE p # <<>>
    <3>1. Contents(p) = Cat(id, Cat(Cat(s, one), p))
      BY <1>1, <1>2, <1>4, <2>2 DEF Contents, Cat
    <3>2. Cat(Cat(s, one), p) = Cat(s, Cat(one, p))
      BY CatAssociative
    <3> QED BY <1>3, <1>5, <1>7, <2>2, <3>1, <3>2
  <2> QED BY <2>1, <2>2
<1>9. PICK x \in Seq(Octets) : x = Padded(p) /\ Len(x) = IF p = <<>> THEN 9 ELSE 5 + n
  BY <1>4, <1>5, <1>6, <1>7
<1>10. Cat(id, x) \in Seq(Octets) /\ Len(Cat(id, x)) = 8 + Len(x)
  BY <1>1, CatType
<1>11. Len(Cat(id, x)) = IF p = <<>> THEN 17 ELSE 13 + Len(p)
  BY <1>2, <1>6, <1>9, <1>10
<1> QED BY <1>1, <1>8, <1>9, <1>10, <1>11
-----------------------------------------------------------------------------
(* What the capacity of a name is: the digits of so many octets and the    *)
(* lengths of their labels fit, whatever the domain.                       *)
Capacity(v) == ((((254 - v) * 63) \div 64) * 5) \div 8

LEMMA DigitsFit ==
  ASSUME NEW v \in 0..254, NEW n \in Nat, n <= Capacity(v)
  PROVE  Digits(n) + Count(Digits(n), 63) + v <= 254
<1>1. PICK m \in Nat : m = ((254 - v) * 63) \div 64 /\ 64 * m <= (254 - v) * 63
  <2>1. PICK r \in Nat : r = (254 - v) * 63
    <3>1. (254 - v) * 63 \in Nat
      OBVIOUS
    <3> QED BY <3>1
  <2>2. r \div 64 \in Nat /\ 64 * (r \div 64) <= r
    OBVIOUS
  <2> QED BY <2>1, <2>2
<1>2. 8 * n <= 5 * m
  <2>1. PICK c \in Nat : c = (m * 5) \div 8 /\ 8 * c <= m * 5
    OBVIOUS
  <2>2. n <= c
    BY <1>1, <2>1 DEF Capacity
  <2> QED BY <2>1, <2>2
<1>3. PICK d \in Nat : d = Digits(n) /\ d <= m
  <2>1. PICK d \in Nat : d = Digits(n) /\ 5 * d <= 8 * n + 4
    BY DigitsAre
  <2>2. d <= m
    BY <1>2, <2>1
  <2> QED BY <2>1, <2>2
<1>4. PICK c \in Nat : c = Count(d, 63) /\ 63 * c < d + 63
  <2>1. 63 \in Runs
    BY DEF Runs
  <2> QED BY <2>1, Cuts
<1>5. d + c + v <= 254
  BY <1>1, <1>3, <1>4
<1> QED BY <1>3, <1>4, <1>5

(* A domain that leaves an MTU of 80 at least, and a packet up to the MTU. *)
Roomy(domain) == IsName(domain) /\ MTU(domain) >= 80

IsUpstream(p, domain) ==
  /\ Roomy(domain)
  /\ p \in Seq(Octets) /\ Len(p) <= MTU(domain)

(* m octets of packet and the 13 that go with it are all that fits beside  *)
(* a domain that takes v octets.                                           *)
MTUBeside(domain, v, m, cap) ==
  /\ v = Len(Verbatim(domain)) /\ cap = Capacity(v) /\ m = MTU(domain) /\ v <= 254
  /\ m + 13 = cap /\ cap <= 156 /\ cap >= 93

LEMMA MTUIs ==
  ASSUME NEW domain, Roomy(domain)
  PROVE  \E v \in Nat, m \in Nat, cap \in Nat : MTUBeside(domain, v, m, cap)
<1>1. PICK v \in Nat : v = Len(Verbatim(domain)) /\ v <= 254
  <2>1. IsName(domain)
    BY DEF Roomy
  <2>2. Len(Verbatim(domain)) \in Nat /\ Len(Verbatim(domain)) <= 254
    BY <2>1, LegalName
  <2> QED BY <2>2
<1>2. MTU(domain) = Capacity(v) - 8 - 1 - 3 - 1
  <2>1. NameCapacity(domain) = Capacity(v)
    BY <1>1 DEF NameCapacity, Capacity
  <2>2. Len(ClientID) = 8
    BY DEF ClientID
  <2> QED BY <2>1, <2>2 DEF MTU
<1>3. PICK c \in Nat : c = Capacity(v) /\ c <= 156
  <2>1. PICK m \in Nat : m = ((254 - v) * 63) \div 64 /\ 64 * m <= 254 * 63
    <3>1. PICK r \in Nat : r = (254 - v) * 63 /\ r <= 254 * 63
      <4>1. (254 - v) * 63 \in Nat /\ (254 - v) * 63 <= 254 * 63
        BY <1>1
      <4> QED BY <4>1
    <3>2. r \div 64 \in Nat /\ 64 * (r \div 64) <= r
      OBVIOUS
    <3> QED BY <3>1, <3>2
  <2>2. PICK c \in Nat : c = (m * 5) \div 8 /\ 8 * c <= m * 5
    OBVIOUS
  <2>3. c <= 156
    BY <2>1, <2>2
  <2> QED BY <2>1, <2>2, <2>3 DEF Capacity
<1>4. PICK m \in Int : m = MTU(domain) /\ m = c - 13
  <2>1. c - 8 - 1 - 3 - 1 = c - 13 /\ c - 13 \in Int
    OBVIOUS
  <2> QED BY <1>2, <1>3, <2>1
<1>5. m + 13 = c /\ c >= 93 /\ m \in Nat
  <2>1. m >= 80
    BY <1>4 DEF Roomy
  <2> QED BY <1>4, <2>1
<1>6. MTUBeside(domain, v, m, c)
  BY <1>1, <1>3, <1>4, <1>5 DEF MTUBeside
<1> QED BY <1>5, <1>6

(* The MTU that dnsNameCapacity leaves is never too large: send drops no   *)
(* packet of at most that length, because its length has room in a prefix  *)
(* and its name in 255 octets with labels of at most 63, under every       *)
(* domain (lib/client.go:117-136, 431-440, lib/dns.go:325-366).            *)
THEOREM NameSent ==
  ASSUME NEW p, NEW domain, IsUpstream(p, domain)
  PROVE  /\ Len(p) <= 223 /\ Len(p) \in Nat /\ domain \in Seq(Seq(Byte))
         /\ Chunks(Base32(Contents(p)), 63) \in Seq(Seq(Byte))
         /\ SentName(p, domain) = Cat(Chunks(Base32(Contents(p)), 63), domain)
         /\ SentName(p, domain) \in Seq(Seq(Byte))
         /\ NewName(SentName(p, domain)) = "ok"
<1>0. Roomy(domain) /\ IsName(domain)
  BY DEF IsUpstream, Roomy
<1>1. PICK v \in Nat, m \in Nat, cap \in Nat : MTUBeside(domain, v, m, cap)
  BY <1>0, MTUIs
<1>2. /\ v = Len(Verbatim(domain)) /\ cap = Capacity(v) /\ m = MTU(domain) /\ v <= 254
      /\ m + 13 = cap /\ cap <= 156 /\ cap >= 93
  BY <1>1 DEF MTUBeside
<1>3. PICK l \in Nat : l = Len(p) /\ l <= m /\ p \in Seq(Octets)
  BY <1>2, LenProperties DEF IsUpstream
<1>4. Len(p) <= 223
  BY <1>2, <1>3
<1>5. PICK w \in Seq(Octets), n \in Nat : w = Contents(p) /\ n = Len(w) /\ n <= cap
  <2>1. Contents(p) \in Seq(Octets) /\ Len(Contents(p)) = IF p = <<>> THEN 17 ELSE 13 + l
    BY <1>3, <1>4, ContentsAre
  <2>2. Len(Contents(p)) \in Nat /\ Len(Contents(p)) <= cap
    BY <1>2, <1>3, <2>1
  <2> QED BY <2>1, <2>2
<1>6. PICK b \in Seq(Byte), d \in Nat : b = Base32(w) /\ d = Len(b) /\ d = Digits(n)
  <2>1. Base32(w) \in Seq(Octets) /\ Len(Base32(w)) = Digits(n)
    BY <1>5, Base32Is
  <2>2. Base32(w) \in Seq(Byte)
    BY <2>1, OctetsAreBytes
  <2> QED BY <2>1, <2>2, DigitsAre
<1>7. 63 \in Runs
  BY DEF Runs
<1>8. PICK cc \in Seq(Seq(Byte)), c \in Nat : cc = Chunks(b, 63) /\ c = Count(d, 63) /\ Len(cc) = c
  <2>1. Count(d, 63) \in Nat
    BY <1>7, Cuts
  <2>2. Chunks(b, 63) \in Seq(Seq(Byte)) /\ Len(Chunks(b, 63)) = Count(Len(b), 63)
    BY <1>7, ChunksAre
  <2> QED BY <1>6, <2>1, <2>2
<1>9. PICK dd \in Seq(Seq(Byte)) :
        /\ dd = domain /\ Len(Verbatim(dd)) = v
        /\ \A j \in 1..Len(dd) : 1 <= Len(dd[j]) /\ Len(dd[j]) <= 63
  <2>1. /\ domain \in Seq(Seq(Byte))
        /\ \A j \in 1..Len(domain) : 1 <= Len(domain[j]) /\ Len(domain[j]) <= 63
    BY <1>0, LegalName
  <2>2. v = Len(Verbatim(domain))
    BY <1>2
  <2> QED BY <2>1, <2>2, Zenon
<1>10. \A j \in 1..Len(cc) : 1 <= Len(cc[j]) /\ Len(cc[j]) <= 63
  <2> TAKE j \in 1..Len(cc)
  <2>1. j \in 1..Count(Len(b), 63) /\ j \in 1..Count(d, 63)
    BY <1>6, <1>8
  <2>2. Len(cc[j]) = Cut(d, 63, j) - Cut(d, 63, j - 1)
    <3>1. Len(Chunks(b, 63)[j]) = Cut(Len(b), 63, j) - Cut(Len(b), 63, j - 1)
      BY <1>7, <2>1, ChunksAre
    <3> QED BY <1>6, <1>8, <3>1
  <2>3. /\ Cut(d, 63, j) \in Nat /\ Cut(d, 63, j - 1) \in Nat
        /\ Cut(d, 63, j - 1) < Cut(d, 63, j)
        /\ Cut(d, 63, j) - Cut(d, 63, j - 1) <= 63
    BY <1>6, <1>7, <2>1, EachCut
  <2>4. PICK x, y \in Nat : x = Cut(d, 63, j) /\ y = Cut(d, 63, j - 1)
    BY <2>3
  <2>5. Len(cc[j]) = x - y /\ y < x /\ x - y <= 63
    BY <2>2, <2>3, <2>4
  <2>6. 1 <= x - y
    BY <2>5
  <2> QED BY <2>5, <2>6
<1>11. PICK nm \in Seq(Seq(Byte)) :
        /\ nm = Cat(cc, dd) /\ Len(nm) = Len(cc) + Len(dd)
        /\ \A j \in 1..Len(cc) : nm[j] = cc[j]
        /\ \A j \in 1..Len(dd) : nm[Len(cc) + j] = dd[j]
  <2>1. Cat(cc, dd) \in Seq(Seq(Byte)) /\ Len(Cat(cc, dd)) = Len(cc) + Len(dd)
    BY CatType
  <2>2. /\ \A j \in 1..Len(cc) : Cat(cc, dd)[j] = cc[j]
        /\ \A j \in 1..Len(dd) : Cat(cc, dd)[Len(cc) + j] = dd[j]
    BY CatElements
  <2> QED BY <2>1, <2>2
<1>12. nm = SentName(p, domain)
  BY <1>5, <1>6, <1>8, <1>9, <1>11 DEF SentName, Cat
<1>13. Len(Verbatim(nm)) + 1 <= MaxName
  <2>1. PICK x, y \in Seq(Byte) : x = Verbatim(cc) /\ y = Verbatim(dd)
    BY VerbatimType
  <2>2. Len(x) = d + c
    <3>1. Len(Verbatim(Chunks(b, 63))) = Len(b) + Count(Len(b), 63)
      BY <1>7, ChunksVerbatim
    <3> QED BY <1>6, <1>8, <2>1, <3>1
  <2>3. Verbatim(nm) = Cat(x, y)
    BY <1>11, <2>1, VerbatimConcat
  <2>4. Len(Cat(x, y)) = (d + c) + v
    <3>1. Len(Cat(x, y)) = Len(x) + Len(y)
      BY CatType
    <3>2. Len(y) = v
      BY <1>9, <2>1
    <3> QED BY <2>2, <3>1, <3>2
  <2>5. d + c + v <= 254
    <3>9. v <= 254
      BY <1>2, Zenon
    <3>0. v \in 0..254
      BY <3>9
    <3>1. n <= Capacity(v)
      BY <1>2, <1>5
    <3>2. Digits(n) + Count(Digits(n), 63) + v <= 254
      BY <3>0, <3>1, DigitsFit
    <3> QED BY <1>6, <1>8, <3>2
  <2> QED BY <2>3, <2>4, <2>5 DEF MaxName
<1>14. \A j \in 1..Len(nm) : 1 <= Len(nm[j]) /\ Len(nm[j]) <= 63
  <2> TAKE j \in 1..Len(nm)
  <2>1. PICK dl \in Nat : dl = Len(dd)
    BY LenProperties
  <2>2. j \in 1..(c + dl)
    BY <1>8, <1>11, <2>1
  <2>3. CASE j <= c
    <3>1. j \in 1..Len(cc)
      BY <1>8, <2>2, <2>3
    <3> QED BY <1>10, <1>11, <3>1
  <2>4. CASE j > c
    <3>1. PICK i \in 1..dl : j = c + i
      <4>1. j - c \in 1..dl /\ j = c + (j - c)
        BY <2>2, <2>4
      <4> QED BY <4>1
    <3>2. i \in 1..Len(dd) /\ j = Len(cc) + i
      BY <1>8, <2>1, <3>1
    <3>3. nm[j] = dd[i]
      BY <1>11, <3>2
    <3>4. 1 <= Len(dd[i]) /\ Len(dd[i]) <= 63
      BY <1>9, <3>2
    <3> QED BY <3>3, <3>4
  <2> QED BY <2>2, <2>3, <2>4
<1>15. NewName(nm) = "ok"
  <2>1. DOMAIN nm = 1..Len(nm)
    BY LenProperties
  <2>2. ASSUME NEW j \in DOMAIN nm PROVE nm[j] # <<>> /\ ~(Len(nm[j]) > MaxLabel)
    <3>1. PICK l1 \in Seq(Byte), n1 \in Nat : l1 = nm[j] /\ n1 = Len(l1) /\ 1 <= n1 /\ n1 <= 63
      BY <1>14, <2>1, ElementOfSeq, LenProperties
    <3>2. l1 # <<>>
      <4>1. n1 # 0
        BY <3>1
      <4> QED BY <3>1, <4>1, EmptySeq
    <3>3. ~(n1 > 63)
      BY <3>1
    <3> QED BY <3>1, <3>2, <3>3 DEF MaxLabel
  <2>3. ~(Len(Verbatim(nm)) + 1 > MaxName)
    <3>1. Len(Verbatim(nm)) \in Nat
      BY VerbatimType, LenProperties
    <3> QED BY <1>13, <3>1 DEF MaxName
  <2> QED BY <2>2, <2>3 DEF NewName
<1> QED BY <1>3, <1>4, <1>5, <1>6, <1>8, <1>9, <1>11, <1>12, <1>15

LEMMA QuerySent ==
  ASSUME NEW p, NEW domain, IsUpstream(p, domain)
  PROVE  Send(p, domain) = QueryOctets(SentName(p, domain))
<1>1. PICK nm \in Seq(Seq(Byte)) : nm = SentName(p, domain) /\ NewName(nm) = "ok"
  BY NameSent
<1>2. ~(Len(p) >= 224)
  BY NameSent
<1>3. WriteMessage(Query(nm)) = QueryOctets(nm)
  BY QueryIs
<1> QED BY <1>1, <1>2, <1>3 DEF Send
-----------------------------------------------------------------------------
(* What a resolver and a limit make of the octets.                         *)
LEMMA AgreeItself ==
  ASSUME NEW w \in Seq(Byte), NEW mixed
  PROVE  Agree(w, w, mixed)
<1>1. Len(w) <= Len(w)
  BY LenProperties
<1> QED BY <1>1 DEF Agree

LEMMA Mixed ==
  ASSUME NEW w \in Seq(Byte)
  PROVE  MixCase(w) \in Seq(Byte) /\ Len(MixCase(w)) = Len(w) /\ Agree(MixCase(w), w, TRUE)
<1>1. PICK n \in Nat : n = Len(w) /\ DOMAIN w = 1..n
  BY LenProperties
<1>2. PICK u \in Seq(Byte) : u = UpperCase(w) /\ Len(u) = n /\ \A i \in 1..n : u[i] = Upper(w[i])
  BY <1>1, UpperCaseIs
<1> DEFINE M(i) == IF i % 3 = 0 THEN u[i] ELSE w[i]
<1>3. MixCase(w) = [i \in 1..n |-> M(i)]
  BY <1>1, <1>2 DEF MixCase
<1>4. ASSUME NEW i \in 1..n
      PROVE  M(i) \in Byte /\ (M(i) = w[i] \/ (w[i] \in Letters /\ M(i) = w[i] - 32))
  <2>1. u[i] \in Byte /\ w[i] \in Byte
    BY <1>1, <1>2, ElementOfSeq
  <2>2. u[i] = IF w[i] \in Letters THEN w[i] - 32 ELSE w[i]
    BY <1>2 DEF Upper
  <2> QED BY <2>1, <2>2
<1> HIDE DEF M
<1>5. [i \in 1..n |-> M(i)] \in [1..n -> Byte]
  BY <1>4
<1>6. PICK b \in Seq(Byte) : b = MixCase(w) /\ Len(b) = n /\ \A i \in 1..n : b[i] = M(i)
  <2>1. MixCase(w) \in Seq(Byte) /\ Len(MixCase(w)) = n
    BY <1>3, <1>5
  <2>2. \A i \in 1..n : MixCase(w)[i] = M(i)
    BY <1>3
  <2> QED BY <2>1, <2>2
<1>7. Len(b) <= Len(w)
  BY <1>1, <1>6
<1>8. \A i \in 1..Len(b) : b[i] = w[i] \/ (w[i] \in Letters /\ b[i] = w[i] - 32)
  BY <1>4, <1>6
<1>9. Agree(b, w, TRUE)
  BY <1>7, <1>8 DEF Agree
<1> QED BY <1>1, <1>6, <1>9

LEMMA Cutoff ==
  ASSUME NEW w \in Seq(Byte), NEW lim \in Nat
  PROVE  /\ Truncated(w, lim) \in Seq(Byte) /\ Agree(Truncated(w, lim), w, FALSE)
         /\ Len(Truncated(w, lim)) = IF Len(w) > lim THEN lim ELSE Len(w)
<1>1. PICK n \in Nat, k \in Nat : n = Len(w) /\ k = (IF n > lim THEN lim ELSE n) /\ k <= n
  <2>1. PICK n \in Nat : n = Len(w)
    BY LenProperties
  <2>2. (IF n > lim THEN lim ELSE n) \in Nat /\ (IF n > lim THEN lim ELSE n) <= n
    OBVIOUS
  <2> QED BY <2>1, <2>2
<1>2. Truncated(w, lim) = Foremost(w, k)
  BY <1>1 DEF Truncated, Foremost
<1>3. k \in 0..Len(w)
  BY <1>1
<1>4. PICK b \in Seq(Byte) : b = Foremost(w, k) /\ Len(b) = k /\ \A j \in 1..k : b[j] = w[j]
  BY <1>3, Fronts
<1>5. Agree(b, w, FALSE)
  BY <1>1, <1>4 DEF Agree
<1> QED BY <1>1, <1>2, <1>4, <1>5
-----------------------------------------------------------------------------
(* Letters in either case make the same label.                             *)
LEMMA CaseFolded ==
  ASSUME NEW c \in Nat, NEW d \in Nat
  PROVE  Upper(c) = Upper(d) <=> Lower(c) = Lower(d)
BY DEF Upper, Lower, Letters

LEMMA AlikeIsSame ==
  ASSUME NEW a \in Seq(Byte), NEW b \in Seq(Byte)
  PROVE  Alike(a, b) <=> SameLabel(a, b)
<1>1. DOMAIN a = 1..Len(a)
  BY LenProperties
<1>2. Len(a) = Len(b) => \A i \in 1..Len(a) : Upper(a[i]) = Upper(b[i]) <=> Lower(a[i]) = Lower(b[i])
  <2> SUFFICES ASSUME Len(a) = Len(b), NEW i \in 1..Len(a)
               PROVE  Upper(a[i]) = Upper(b[i]) <=> Lower(a[i]) = Lower(b[i])
    OBVIOUS
  <2>1. a[i] \in Nat /\ b[i] \in Nat
    BY ElementOfSeq DEF Byte
  <2> QED BY <2>1, CaseFolded
<1> QED BY <1>1, <1>2 DEF Alike, SameLabel

LEMMA AlikeTrans ==
  ASSUME NEW a, NEW b, NEW c, Alike(a, b), Alike(b, c)
  PROVE  Alike(a, c)
BY DEF Alike

LEMMA SuffixRead ==
  ASSUME NEW l, NEW nm \in Seq(Seq(Byte)), AlikeNames(l, nm), NEW dom \in Seq(Seq(Byte)),
         HasSuffix(nm, dom)
  PROVE  HasSuffix(l, dom)
<1>1. PICK ll \in Seq(Seq(Byte)) :
        ll = l /\ Len(ll) = Len(nm) /\ \A j \in 1..Len(ll) : Alike(ll[j], nm[j])
  BY DEF AlikeNames
<1>2. PICK n \in Nat, d \in Nat : n = Len(nm) /\ d = Len(dom) /\ n >= d /\ DOMAIN dom = 1..d
  BY LenProperties DEF HasSuffix
<1>3. ASSUME NEW i \in 1..d PROVE SameLabel(ll[n - d + i], dom[i])
  <2>1. PICK k \in 1..n : k = n - d + i
    <3>1. n - d + i \in 1..n
      BY <1>2
    <3> QED BY <3>1
  <2>2. SameLabel(nm[k], dom[i])
    BY <1>2, <2>1 DEF HasSuffix
  <2>3. ll[k] \in Seq(Byte) /\ nm[k] \in Seq(Byte) /\ dom[i] \in Seq(Byte)
    BY <1>1, <1>2, ElementOfSeq
  <2>4. Alike(ll[k], nm[k]) /\ Alike(nm[k], dom[i])
    BY <1>1, <1>2, <2>2, <2>3, AlikeIsSame
  <2>5. Alike(ll[k], dom[i])
    BY <2>4, AlikeTrans
  <2> QED BY <2>1, <2>3, <2>5, AlikeIsSame
<1> QED BY <1>1, <1>2, <1>3 DEF HasSuffix

LEMMA SuffixOfCat ==
  ASSUME NEW cc \in Seq(Seq(Byte)), NEW dom \in Seq(Seq(Byte))
  PROVE  HasSuffix(Cat(cc, dom), dom)
<1>1. PICK nm \in Seq(Seq(Byte)) :
        nm = Cat(cc, dom) /\ Len(nm) = Len(cc) + Len(dom)
        /\ \A j \in 1..Len(dom) : nm[Len(cc) + j] = dom[j]
  <2>1. Cat(cc, dom) \in Seq(Seq(Byte)) /\ Len(Cat(cc, dom)) = Len(cc) + Len(dom)
    BY CatType
  <2>2. \A j \in 1..Len(dom) : Cat(cc, dom)[Len(cc) + j] = dom[j]
    BY CatElements
  <2> QED BY <2>1, <2>2
<1>2. PICK c \in Nat, d \in Nat : c = Len(cc) /\ d = Len(dom) /\ DOMAIN dom = 1..d
  BY LenProperties
<1>3. PICK split \in Nat : split = Len(nm) - Len(dom) /\ split = c /\ Len(nm) >= Len(dom)
  <2>1. Len(nm) = c + d /\ (c + d) - d = c /\ c + d >= d
    BY <1>1, <1>2
  <2> QED BY <1>2, <2>1
<1>4. \A i \in 1..d : SameLabel(nm[split + i], dom[i])
  <2> TAKE i \in 1..d
  <2>1. dom[i] \in Seq(Byte)
    BY <1>2, ElementOfSeq
  <2>2. Alike(dom[i], dom[i])
    BY DEF Alike
  <2>3. SameLabel(dom[i], dom[i])
    BY <2>1, <2>2, AlikeIsSame
  <2> QED BY <1>1, <1>2, <1>3, <2>3
<1>5. HasSuffix(nm, dom)
  BY <1>2, <1>3, <1>4 DEF HasSuffix
<1> QED BY <1>1, <1>5

(* What comes before the domain.                                           *)
LEMMA ForeRead ==
  ASSUME NEW l, NEW cc \in Seq(Seq(Byte)), NEW dom \in Seq(Seq(Byte)), AlikeNames(l, Cat(cc, dom))
  PROVE  AlikeNames(Fore(l, dom), cc)
<1>1. PICK nm \in Seq(Seq(Byte)) :
        nm = Cat(cc, dom) /\ Len(nm) = Len(cc) + Len(dom)
        /\ \A j \in 1..Len(cc) : nm[j] = cc[j]
  <2>1. Cat(cc, dom) \in Seq(Seq(Byte)) /\ Len(Cat(cc, dom)) = Len(cc) + Len(dom)
    BY CatType
  <2>2. \A j \in 1..Len(cc) : Cat(cc, dom)[j] = cc[j]
    BY CatElements
  <2> QED BY <2>1, <2>2
<1>2. PICK ll \in Seq(Seq(Byte)) :
        ll = l /\ Len(ll) = Len(nm) /\ \A j \in 1..Len(ll) : Alike(ll[j], nm[j])
  BY <1>1 DEF AlikeNames
<1>3. PICK c \in Nat, d \in Nat : c = Len(cc) /\ d = Len(dom) /\ Len(ll) = c + d
  BY <1>1, <1>2, LenProperties
<1>4. Fore(l, dom) = Foremost(ll, c)
  <2>1. (c + d) - d = c
    OBVIOUS
  <2> QED BY <1>2, <1>3, <2>1 DEF Fore, Foremost
<1>5. PICK f \in Seq(Seq(Byte)) : f = Foremost(ll, c) /\ Len(f) = c /\ \A j \in 1..c : f[j] = ll[j]
  <2>1. c \in 0..Len(ll)
    BY <1>3
  <2> QED BY <2>1, Fronts
<1>6. \A j \in 1..Len(f) : Alike(f[j], cc[j])
  BY <1>1, <1>2, <1>3, <1>5
<1> QED BY <1>3, <1>4, <1>5, <1>6 DEF AlikeNames

LEMMA AlikeCat ==
  ASSUME NEW a \in Seq(Byte), NEW b \in Seq(Byte), NEW c \in Seq(Byte), NEW d \in Seq(Byte),
         Alike(a, b), Alike(c, d)
  PROVE  Alike(Cat(a, c), Cat(b, d))
<1>1. PICK m \in Nat, n \in Nat : m = Len(a) /\ m = Len(b) /\ n = Len(c) /\ n = Len(d)
  BY LenProperties DEF Alike
<1>2. PICK x \in Seq(Byte) :
        /\ x = Cat(a, c) /\ Len(x) = m + n
        /\ \A j \in 1..m : x[j] = a[j]
        /\ \A j \in 1..n : x[m + j] = c[j]
  <2>1. Cat(a, c) \in Seq(Byte) /\ Len(Cat(a, c)) = Len(a) + Len(c)
    BY CatType
  <2>2. \A j \in 1..Len(a) : Cat(a, c)[j] = a[j]
    BY CatElements
  <2>3. \A j \in 1..Len(c) : Cat(a, c)[Len(a) + j] = c[j]
    BY CatElements
  <2> QED BY <1>1, <2>1, <2>2, <2>3
<1>3. PICK y \in Seq(Byte) :
        /\ y = Cat(b, d) /\ Len(y) = m + n
        /\ \A j \in 1..m : y[j] = b[j]
        /\ \A j \in 1..n : y[m + j] = d[j]
  <2>1. Cat(b, d) \in Seq(Byte) /\ Len(Cat(b, d)) = Len(b) + Len(d)
    BY CatType
  <2>2. \A j \in 1..Len(b) : Cat(b, d)[j] = b[j]
    BY CatElements
  <2>3. \A j \in 1..Len(d) : Cat(b, d)[Len(b) + j] = d[j]
    BY CatElements
  <2> QED BY <1>1, <2>1, <2>2, <2>3
<1>4. ASSUME NEW j \in 1..(m + n) PROVE Upper(x[j]) = Upper(y[j])
  <2>1. CASE j \in 1..m
    BY <1>1, <1>2, <1>3, <2>1 DEF Alike
  <2>2. CASE j \notin 1..m
    <3>1. PICK i \in 1..n : j = m + i
      <4>1. j - m \in 1..n /\ j = m + (j - m)
        BY <2>2
      <4> QED BY <4>1
    <3>2. Upper(c[i]) = Upper(d[i])
      BY <1>1 DEF Alike
    <3> QED BY <1>2, <1>3, <3>1, <3>2
  <2> QED BY <2>1, <2>2
<1>5. Alike(x, y)
  BY <1>2, <1>3, <1>4 DEF Alike
<1> QED BY <1>2, <1>3, <1>5

LEMMA FlattenAlike ==
  ASSUME NEW ll \in Seq(Seq(Byte)), NEW cc \in Seq(Seq(Byte)), AlikeNames(ll, cc)
  PROVE  /\ FlattenSeq(ll) \in Seq(Byte) /\ FlattenSeq(cc) \in Seq(Byte)
         /\ Alike(FlattenSeq(ll), FlattenSeq(cc))
<1>1. PICK n \in Nat : n = Len(ll) /\ n = Len(cc) /\ \A j \in 1..n : Alike(ll[j], cc[j])
  BY LenProperties DEF AlikeNames
<1> DEFINE S == {j \in Nat : j <= n => Alike(FlattenSeq(Foremost(ll, j)), FlattenSeq(Foremost(cc, j)))}
<1>2. 0 \in S
  <2>1. 0 \in 0..Len(ll) /\ 0 \in 0..Len(cc)
    BY <1>1
  <2>2. Foremost(ll, 0) = <<>> /\ Foremost(cc, 0) = <<>>
    BY <2>1, Fronts
  <2>3. Alike(FlattenSeq(<<>>), FlattenSeq(<<>>))
    BY DEF Alike
  <2> QED BY <2>2, <2>3
<1>3. ASSUME NEW j \in Nat, j \in S PROVE j + 1 \in S
  <2> SUFFICES ASSUME j + 1 <= n
               PROVE  Alike(FlattenSeq(Foremost(ll, j + 1)), FlattenSeq(Foremost(cc, j + 1)))
    OBVIOUS
  <2>1. j \in 0..Len(ll) /\ j \in 0..Len(cc) /\ j < Len(ll) /\ j < Len(cc) /\ j + 1 \in 1..n /\ j <= n
    BY <1>1
  <2>2. PICK f \in Seq(Seq(Byte)), x \in Seq(Byte) :
          f = Foremost(ll, j) /\ x = ll[j + 1] /\ Foremost(ll, j + 1) = Append(f, x)
    <3>1. /\ Foremost(ll, j) \in Seq(Seq(Byte)) /\ ll[j + 1] \in Seq(Byte)
          /\ Foremost(ll, j + 1) = Append(Foremost(ll, j), ll[j + 1])
      BY <2>1, Fronts
    <3> QED BY <3>1
  <2>3. PICK g \in Seq(Seq(Byte)), y \in Seq(Byte) :
          g = Foremost(cc, j) /\ y = cc[j + 1] /\ Foremost(cc, j + 1) = Append(g, y)
    <3>1. /\ Foremost(cc, j) \in Seq(Seq(Byte)) /\ cc[j + 1] \in Seq(Byte)
          /\ Foremost(cc, j + 1) = Append(Foremost(cc, j), cc[j + 1])
      BY <2>1, Fronts
    <3> QED BY <3>1
  <2>4. PICK u \in Seq(Byte), v \in Seq(Byte) : u = FlattenSeq(f) /\ v = FlattenSeq(g)
    BY FlattenType
  <2>5. FlattenSeq(Append(f, x)) = Cat(u, x) /\ FlattenSeq(Append(g, y)) = Cat(v, y)
    BY <2>4, FlattenAppend
  <2>6. Alike(u, v) /\ Alike(x, y)
    BY <1>1, <1>3, <2>1, <2>2, <2>3, <2>4
  <2>7. Alike(Cat(u, x), Cat(v, y))
    BY <2>6, AlikeCat
  <2> QED BY <2>2, <2>3, <2>5, <2>7
<1>4. Nat \subseteq S
  <2> HIDE DEF S
  <2> QED BY <1>2, <1>3, SetInduction
<1>5. Alike(FlattenSeq(Foremost(ll, n)), FlattenSeq(Foremost(cc, n)))
  BY <1>4
<1>6. Foremost(ll, n) = ll /\ Foremost(cc, n) = cc
  <2>1. n \in 0..Len(ll) /\ n \in 0..Len(cc)
    BY <1>1
  <2> QED BY <1>1, <2>1, Fronts
<1> QED BY <1>5, <1>6, FlattenType
-----------------------------------------------------------------------------
(* The server opens a query, the client a response.                        *)
Opened(t, p) ==
  /\ \A i \in DOMAIN t : t[i] \in Alphabet
  /\ Len(Unbase32(t)) >= 8
  /\ SubSeq(Unbase32(t), 9, Len(Unbase32(t))) = Padded(p)

LEMMA QueryOpened ==
  ASSUME NEW p, NEW domain, IsUpstream(p, domain), NEW l, AlikeNames(l, SentName(p, domain))
  PROVE  HasSuffix(l, domain) /\ Opened(UpperCase(FlattenSeq(Fore(l, domain))), p)
<1>1. PICK cc, dom, nm \in Seq(Seq(Byte)) :
        /\ cc = Chunks(Base32(Contents(p)), 63) /\ dom = domain
        /\ nm = Cat(cc, dom) /\ nm = SentName(p, domain)
  BY NameSent
<1>2. AlikeNames(l, nm) /\ l \in Seq(Seq(Byte))
  BY <1>1 DEF AlikeNames
<1>3. HasSuffix(l, dom)
  <2>1. HasSuffix(nm, dom)
    BY <1>1, SuffixOfCat
  <2> QED BY <1>2, <2>1, SuffixRead
<1>4. PICK f \in Seq(Seq(Byte)) : f = Fore(l, dom) /\ AlikeNames(f, cc)
  <2>1. AlikeNames(Fore(l, dom), cc)
    BY <1>1, <1>2, ForeRead
  <2>2. Fore(l, dom) \in Seq(Seq(Byte))
    BY <2>1 DEF AlikeNames
  <2> QED BY <2>1, <2>2
<1>5. p \in Seq(Octets) /\ Len(p) <= 223
  BY NameSent DEF IsUpstream, Roomy
<1>6. PICK w \in Seq(Octets) : w = Contents(p)
  BY <1>5, ContentsAre
<1>7. PICK b \in Seq(Byte) : b = Base32(w)
  BY Base32Is, OctetsAreBytes
<1>8. FlattenSeq(cc) = b
  <2>1. 63 \in Runs
    BY DEF Runs
  <2> QED BY <1>1, <1>6, <1>7, <2>1, FlattenChunks
<1>9. PICK s \in Seq(Byte) : s = FlattenSeq(f) /\ Alike(s, b)
  BY <1>4, <1>8, FlattenAlike
<1>10. PICK t : t = UpperCase(s) /\ t = UpperCase(Base32(w))
  BY <1>7, <1>9, AlikeUpper
<1>11. Unbase32(t) = w /\ \A i \in DOMAIN t : t[i] \in Alphabet
  BY <1>10, DigitsArrive
<1>12. PICK id \in Seq(Octets), x \in Seq(Octets) :
         id = ClientID /\ Len(id) = 8 /\ x = Padded(p) /\ w = Cat(id, x)
  BY <1>5, <1>6, ContentsAre
<1>13. SubSeq(w, 9, Len(w)) = x
  <2>1. SubSeq(Cat(id, x), Len(id) + 1, Len(Cat(id, x))) = x
    BY BehindFirst
  <2> QED BY <1>12, <2>1
<1>14. Len(w) >= 8
  <2>1. Len(Cat(id, x)) = Len(id) + Len(x)
    BY CatType
  <2>2. Len(x) \in Nat
    BY LenProperties
  <2> QED BY <1>12, <2>1, <2>2
<1>15. Opened(t, p)
  BY <1>11, <1>12, <1>13, <1>14 DEF Opened
<1> QED BY <1>1, <1>3, <1>4, <1>9, <1>10, <1>15
-----------------------------------------------------------------------------
(* The reader of a message that is laid out by a plan.                     *)
Reader(w, plan, n, mixed) ==
  buf \in Seq(Byte) /\ Agree(buf, w, mixed) /\ ReadState(w, plan, n, mixed)

LEMMA ReaderBegins ==
  ASSUME NEW w, NEW plan, NEW n, NEW mixed, NEW octets \in Seq(Byte), StartReading(octets),
         Agree(octets, w, mixed)
  PROVE  Reader(w, plan, n, mixed) /\ buf = octets
BY DEF StartReading, Reader, ReadState, AtHeader

LEMMA ReaderReads ==
  ASSUME NEW w \in Seq(Byte), NEW plan, NEW n \in {2, 3}, NEW mixed, IsPlan(w, plan, n, mixed),
         Reader(w, plan, n, mixed), ReadNext
  PROVE  Reader(w, plan, n, mixed)' /\ buf' = buf
<1>1. buf' = buf /\ ReadState(w, plan, n, mixed)'
  BY ReadStep DEF Reader
<1>2. buf' \in Seq(Byte) /\ Agree(buf', w, mixed)
  BY <1>1 DEF Reader
<1>3. Agree(buf, w, mixed)'
  BY <1>2 DEF Agree
<1> QED BY <1>1, <1>2, <1>3 DEF Reader

LEMMA ReaderRests ==
  ASSUME NEW w, NEW plan, NEW n, NEW mixed, Reader(w, plan, n, mixed), UNCHANGED readVars
  PROVE  Reader(w, plan, n, mixed)' /\ buf' = buf /\ outcome' = outcome
<1>1. /\ buf' = buf /\ pos' = pos /\ labels' = labels /\ pointers' = pointers /\ seekTo' = seekTo
      /\ left' = left /\ entries' = entries /\ outcome' = outcome
  BY DEF readVars
<1>2. Agree(buf, w, mixed)'
  BY <1>1 DEF Agree, Reader
<1>3. ASSUME NEW k, Behind(plan, k, mixed) PROVE Behind(plan, k, mixed)'
  BY <1>1, <1>3 DEF Behind
<1>4. ASSUME NEW k, InEntry(plan, n, k, mixed) PROVE InEntry(plan, n, k, mixed)'
  <2>1. Behind(plan, k, mixed)'
    BY <1>3, <1>4 DEF InEntry
  <2>2. Ahead(n, k)'
    BY <1>1, <1>4 DEF InEntry, Ahead
  <2>3. AtEntry(plan[k])'
    BY <1>1, <1>4 DEF InEntry, AtEntry, Reading, Before, Within
  <2> QED BY <2>1, <2>2, <2>3 DEF InEntry
<1>5. AllBehind(w, plan, n, mixed) => AllBehind(w, plan, n, mixed)'
  BY <1>1, <1>3 DEF AllBehind
<1>6. AtHeader => AtHeader'
  BY <1>1 DEF AtHeader
<1>7. ReadState(w, plan, n, mixed)'
  <2>1. ReadState(w, plan, n, mixed)
    BY DEF Reader
  <2> QED BY <1>1, <1>4, <1>5, <1>6, <2>1 DEF ReadState
<1> QED BY <1>1, <1>2, <1>7 DEF Reader

(* What has been read when reading has ended well, and when it has not.    *)
LEMMA ReaderEnds ==
  ASSUME NEW w, NEW plan, NEW n \in Nat \ {0}, NEW mixed, Reader(w, plan, n, mixed)
  PROVE  /\ outcome = "done" => /\ Len(buf) = Len(w)
                                /\ \A k \in 1..n : ReadAs(entries[k], plan[k], mixed)
         /\ outcome \notin {"reading", "done"} => Len(buf) < Len(w)
<1>1. ReadState(w, plan, n, mixed)
  BY DEF Reader
<1>2. (n + 1) - 1 = n
  OBVIOUS
<1> QED BY <1>1, <1>2 DEF ReadState, AllBehind, Behind
-----------------------------------------------------------------------------
(* A query on its way: read, opened and unpacked.                          *)
Delivered(p) == IF p = <<>> THEN <<>> ELSE <<p>>

QueryLeft(p) ==
  \/ payload = Padded(p) /\ packets = <<>>
  \/ p # <<>> /\ payload = Cat(<<Len(p)>>, p) /\ packets = <<>>
  \/ payload = <<>> /\ packets = Delivered(p)

QueryPassed(p) ==
  \/ stage = "read" /\ packets = <<>>
  \/ stage = "unpack" /\ QueryLeft(p)
  \/ stage = "end" /\ packets = Delivered(p)

QueryRead(nm) ==
  Reader(QueryOctets(nm), QueryPlan(nm), 2, TRUE) /\ Len(buf) = Len(QueryOctets(nm))

QueryWay(j) == QueryRead(SentName(j.packet, j.domain)) /\ QueryPassed(j.packet)

LEMMA QueryJob ==
  ASSUME NEW j, IsJob(j), j.kind = "query"
  PROVE  IsUpstream(j.packet, j.domain)
BY DEF IsJob, IsUpstream, Roomy

LEMMA QueryBegins ==
  ASSUME NEW j, IsJob(j), j.kind = "query", job = j, Init
  PROVE  QueryWay(j)
<1>1. IsUpstream(j.packet, j.domain)
  BY QueryJob
<1>2. PICK nm \in Seq(Seq(Byte)) : nm = SentName(j.packet, j.domain)
  BY <1>1, NameSent
<1>3. PICK w \in Seq(Byte) : w = QueryOctets(nm) /\ w = Send(j.packet, j.domain)
  <2>1. QueryOctets(nm) \in Seq(Byte)
    BY MessageTypes, EmptySeq
  <2> QED BY <1>1, <1>2, <2>1, QuerySent
<1>4. PICK b \in Seq(Byte) : b = Written(j) /\ Agree(b, w, TRUE) /\ Len(b) = Len(w)
  <2>1. Written(j) = MixCase(w) \/ Written(j) = w
    BY <1>3 DEF Written
  <2>2. MixCase(w) \in Seq(Byte) /\ Len(MixCase(w)) = Len(w) /\ Agree(MixCase(w), w, TRUE)
    BY Mixed
  <2>3. Agree(w, w, TRUE)
    BY AgreeItself
  <2> QED BY <2>1, <2>2, <2>3
<1>5. StartReading(b) /\ stage = "read" /\ packets = <<>>
  BY <1>4 DEF Init
<1>6. Reader(w, QueryPlan(nm), 2, TRUE) /\ buf = b
  BY <1>4, <1>5, ReaderBegins
<1> QED BY <1>2, <1>3, <1>4, <1>5, <1>6 DEF QueryWay, QueryRead, QueryPassed

LEMMA QueryReadNext ==
  ASSUME NEW j, IsJob(j), j.kind = "query", QueryWay(j), Read
  PROVE  QueryWay(j)'
<1>1. IsUpstream(j.packet, j.domain)
  BY QueryJob
<1>2. PICK nm \in Seq(Seq(Byte)) : nm = SentName(j.packet, j.domain) /\ NewName(nm) = "ok"
  BY <1>1, NameSent
<1>3. PICK w \in Seq(Byte) : w = QueryOctets(nm)
  BY MessageTypes, EmptySeq
<1>4. IsPlan(w, QueryPlan(nm), 2, TRUE)
  BY <1>2, <1>3, QueryLaid
<1>5. Reader(w, QueryPlan(nm), 2, TRUE) /\ Len(buf) = Len(w)
  BY <1>2, <1>3 DEF QueryWay, QueryRead
<1>6. ReadNext /\ stage = "read" /\ stage' = stage /\ packets' = packets
  BY DEF Read
<1>7. Reader(w, QueryPlan(nm), 2, TRUE)' /\ buf' = buf
  BY <1>4, <1>5, <1>6, ReaderReads
<1>8. Len(buf') = Len(w)
  BY <1>5, <1>7
<1>9. packets = <<>>
  BY <1>6 DEF QueryWay, QueryPassed
<1>10. QueryPassed(j.packet)'
  BY <1>6, <1>9 DEF QueryPassed
<1>11. QueryRead(nm)'
  BY <1>3, <1>7, <1>8 DEF QueryRead
<1> QED BY <1>2, <1>10, <1>11 DEF QueryWay

LEMMA QueryIsOpened ==
  ASSUME NEW j, IsJob(j), j.kind = "query", job = j, QueryWay(j), OpenQuery
  PROVE  QueryWay(j)'
<1>1. IsUpstream(j.packet, j.domain)
  BY QueryJob
<1>2. PICK nm \in Seq(Seq(Byte)) : nm = SentName(j.packet, j.domain)
  BY <1>1, NameSent
<1>3. /\ stage = "read" /\ outcome = "done" /\ UNCHANGED readVars /\ packets' = packets
  BY DEF OpenQuery
<1>4. Reader(QueryOctets(nm), QueryPlan(nm), 2, TRUE) /\ Len(buf) = Len(QueryOctets(nm))
  BY <1>2 DEF QueryWay, QueryRead
<1>5. Reader(QueryOctets(nm), QueryPlan(nm), 2, TRUE)' /\ buf' = buf
  BY <1>3, <1>4, ReaderRests
<1>6. AlikeNames(entries[1].name, nm)
  <2>1. ReadAs(entries[1], QueryPlan(nm)[1], TRUE)
    <3>1. 2 \in Nat \ {0} /\ 1 \in 1..2
      OBVIOUS
    <3>2. Reader(QueryOctets(nm), QueryPlan(nm), 2, TRUE)
      BY <1>4
    <3>3. outcome = "done" => \A k \in 1..2 : ReadAs(entries[k], QueryPlan(nm)[k], TRUE)
      BY <3>1, <3>2, ReaderEnds
    <3> QED BY <1>3, <3>1, <3>3
  <2>2. QueryPlan(nm)[1].nm = nm
    BY DEF QueryPlan, QuestionAt
  <2> QED BY <2>1, <2>2 DEF ReadAs
<1>7. PICK l : l = entries[1].name
  OBVIOUS
<1>8. HasSuffix(l, j.domain) /\ Opened(UpperCase(FlattenSeq(Fore(l, j.domain))), j.packet)
  BY <1>1, <1>2, <1>6, <1>7, QueryOpened
<1>9. PICK t : t = UpperCase(FlattenSeq(Fore(l, j.domain)))
  OBVIOUS
<1>10. /\ \A i \in DOMAIN t : t[i] \in Alphabet
       /\ Len(Unbase32(t)) >= 8
       /\ SubSeq(Unbase32(t), 9, Len(Unbase32(t))) = Padded(j.packet)
  BY <1>8, <1>9 DEF Opened
<1>11. stage' = "unpack" /\ payload' = Padded(j.packet)
  <2>1. IF /\ HasSuffix(l, j.domain)
           /\ \A i \in DOMAIN t : t[i] \in Alphabet
           /\ Len(Unbase32(t)) >= 8
        THEN /\ stage' = "unpack"
             /\ payload' = SubSeq(Unbase32(t), 9, Len(Unbase32(t)))
        ELSE /\ stage' = "refused"
             /\ UNCHANGED payload
    BY <1>7, <1>9 DEF OpenQuery
  <2> QED BY <1>8, <1>10, <2>1
<1>12. packets' = <<>>
  BY <1>3 DEF QueryWay, QueryPassed
<1>13. QueryPassed(j.packet)'
  BY <1>11, <1>12 DEF QueryPassed, QueryLeft
<1>14. QueryRead(nm)'
  BY <1>4, <1>5 DEF QueryRead
<1> QED BY <1>2, <1>13, <1>14 DEF QueryWay
-----------------------------------------------------------------------------
(* The server unpacks a query: padding, then the packet.                   *)
LEMMA WithLength ==
  ASSUME NEW p \in Seq(Octets), Len(p) <= 223
  PROVE  \E r \in Seq(Octets), n \in Nat :
           /\ r = Cat(<<Len(p)>>, p) /\ n = Len(p) /\ n <= 223 /\ Len(r) = 1 + n /\ r[1] = n
           /\ SubSeq(r, 1 + 1, 1 + n) = p
           /\ SubSeq(r, 1 + n + 1, Len(r)) = <<>>
           /\ Len(Cat(Padding(3), r)) = 5 + n /\ Cat(Padding(3), r)[1] = 227
           /\ SubSeq(Cat(Padding(3), r), 1 + 3 + 1, Len(Cat(Padding(3), r))) = r
<1>1. PICK n \in Nat : n = Len(p) /\ n <= 223
  BY LenProperties
<1>2. PICK one \in Seq(Octets) : one = <<n>> /\ Len(one) = 1 /\ one[1] = n
  <2>1. n <= 255
    BY <1>1
  <2>2. n \in Octets
    BY <2>1, SmallOctet
  <2>3. <<n>> \in Seq(Octets) /\ Len(<<n>>) = 1 /\ <<n>>[1] = n
    BY <2>2
  <2> QED BY <2>3
<1>3. PICK r \in Seq(Octets) :
        r = Cat(one, p) /\ Len(r) = Len(one) + Len(p) /\ \A j \in 1..Len(one) : r[j] = one[j]
  <2>1. Cat(one, p) \in Seq(Octets) /\ Len(Cat(one, p)) = Len(one) + Len(p)
    BY CatType
  <2>2. \A j \in 1..Len(one) : Cat(one, p)[j] = one[j]
    BY CatElements
  <2> QED BY <2>1, <2>2
<1>4. Len(r) = 1 + n /\ r[1] = n
  <2>1. 1 \in 1..Len(one)
    BY <1>2
  <2> QED BY <1>1, <1>2, <1>3, <2>1
<1>5. SubSeq(r, 1 + 1, 1 + n) = p
  <2>1. SubSeq(Cat(one, p), Len(one) + 1, Len(Cat(one, p))) = p
    BY BehindFirst
  <2> QED BY <1>2, <1>3, <1>4, <2>1
<1>6. SubSeq(r, 1 + n + 1, Len(r)) = <<>>
  <2>1. SubSeq(r, Len(r) + 1, Len(r)) = <<>>
    BY RestEmpty DEF Rest
  <2> QED BY <1>4, <2>1
<1>7. PICK s \in Seq(Octets) : s = Padding(3) /\ Len(s) = 4 /\ s[1] = 227
  BY PaddingIs
<1>8. PICK u \in Seq(Octets) :
        u = Cat(s, r) /\ Len(u) = Len(s) + Len(r) /\ \A j \in 1..Len(s) : u[j] = s[j]
  <2>1. Cat(s, r) \in Seq(Octets) /\ Len(Cat(s, r)) = Len(s) + Len(r)
    BY CatType
  <2>2. \A j \in 1..Len(s) : Cat(s, r)[j] = s[j]
    BY CatElements
  <2> QED BY <2>1, <2>2
<1>9. Len(u) = 5 + n /\ u[1] = 227
  <2>3. 1 \in 1..4
    OBVIOUS
  <2>1. 1 \in 1..Len(s)
    BY <1>7, <2>3
  <2>2. 4 + (1 + n) = 5 + n
    OBVIOUS
  <2> QED BY <1>4, <1>7, <1>8, <2>1, <2>2
<1>10. SubSeq(u, 1 + 3 + 1, Len(u)) = r
  <2>1. SubSeq(Cat(s, r), Len(s) + 1, Len(Cat(s, r))) = r
    BY BehindFirst
  <2>3. 4 + 1 = 1 + 3 + 1
    OBVIOUS
  <2>2. Len(s) + 1 = 1 + 3 + 1
    BY <1>7, <2>3
  <2> QED BY <1>8, <2>1, <2>2
<1> QED BY <1>1, <1>2, <1>3, <1>4, <1>5, <1>6, <1>7, <1>8, <1>9, <1>10

(* What a step of nextPacket makes of it.                                  *)
Unpacks(p) ==
  \/ stage' = "unpack" /\ QueryLeft(p)'
  \/ stage' = "end" /\ packets' = Delivered(p)

LEMMA PrefixOfOne ==
  ASSUME job.kind = "query", NEW n \in Nat, payload[1] = n
  PROVE  PrefixLen = 1 /\ Prefix = n /\ (IsPadding <=> n >= 224)
         /\ (n >= 224 => Size = n - 224) /\ (n < 224 => Size = n)
BY DEF PrefixLen, Prefix, IsPadding, Size

LEMMA OnlyPadding ==
  ASSUME job.kind = "query", payload = Padding(8), packets = <<>>, stage = "unpack",
         TakePadding \/ TakePacket \/ EndOfPayload
  PROVE  Unpacks(<<>>)
<1>1. PICK t \in Seq(Octets) : t = payload /\ Len(t) = 9 /\ t[1] = 232
  BY PaddingIs
<1>2. PrefixLen = 1 /\ IsPadding /\ Size = 8
  <2>1. 232 \in Nat /\ 232 >= 224 /\ 232 - 224 = 8
    OBVIOUS
  <2>2. payload[1] = 232
    BY <1>1
  <2> QED BY <2>1, <2>2, PrefixOfOne
<1>3. Whole
  <2>1. Len(payload) = 9
    BY <1>1
  <2>2. 9 >= 1 /\ 9 >= 1 + 8
    OBVIOUS
  <2> QED BY <1>2, <2>1, <2>2 DEF Whole
<1>4. TakePadding
  BY <1>2, <1>3 DEF TakePacket, EndOfPayload
<1>5. payload' = SubSeq(t, 9 + 1, 9) /\ packets' = <<>> /\ stage' = "unpack"
  <2>1. 1 + 8 + 1 = 9 + 1
    OBVIOUS
  <2> QED BY <1>1, <1>2, <1>4, <2>1 DEF TakePadding
<1>6. SubSeq(t, 9 + 1, 9) = <<>>
  BY <1>1, RestEmpty DEF Rest
<1> QED BY <1>5, <1>6 DEF Unpacks, QueryLeft, Delivered

LEMMA PaddingFirst ==
  ASSUME job.kind = "query", NEW p \in Seq(Octets), Len(p) <= 223, p # <<>>,
         payload = Cat(Padding(3), Cat(<<Len(p)>>, p)), packets = <<>>, stage = "unpack",
         TakePadding \/ TakePacket \/ EndOfPayload
  PROVE  Unpacks(p)
<1>1. PICK r \in Seq(Octets), n \in Nat :
        /\ r = Cat(<<Len(p)>>, p)
        /\ Len(Cat(Padding(3), r)) = 5 + n /\ Cat(Padding(3), r)[1] = 227
        /\ SubSeq(Cat(Padding(3), r), 1 + 3 + 1, Len(Cat(Padding(3), r))) = r
  <2>1. \E r \in Seq(Octets), n \in Nat :
          /\ r = Cat(<<Len(p)>>, p) /\ n = Len(p) /\ n <= 223 /\ Len(r) = 1 + n /\ r[1] = n
          /\ SubSeq(r, 1 + 1, 1 + n) = p
          /\ SubSeq(r, 1 + n + 1, Len(r)) = <<>>
          /\ Len(Cat(Padding(3), r)) = 5 + n /\ Cat(Padding(3), r)[1] = 227
          /\ SubSeq(Cat(Padding(3), r), 1 + 3 + 1, Len(Cat(Padding(3), r))) = r
    BY WithLength
  <2> QED BY <2>1, Zenon
<1>2. PICK u : u = payload
  OBVIOUS
<1>3. Len(u) = 5 + n /\ u[1] = 227 /\ SubSeq(u, 1 + 3 + 1, Len(u)) = r
  BY <1>1, <1>2
<1>4. PrefixLen = 1 /\ IsPadding /\ Size = 3
  <2>1. 227 \in Nat /\ 227 >= 224 /\ 227 - 224 = 3
    OBVIOUS
  <2>2. payload[1] = 227
    BY <1>2, <1>3
  <2> QED BY <2>1, <2>2, PrefixOfOne
<1>5. Whole
  BY <1>2, <1>3, <1>4 DEF Whole
<1>6. TakePadding
  BY <1>4, <1>5 DEF TakePacket, EndOfPayload
<1>7. payload' = r /\ packets' = <<>> /\ stage' = "unpack"
  BY <1>2, <1>3, <1>4, <1>6 DEF TakePadding
<1> QED BY <1>1, <1>7 DEF Unpacks, QueryLeft

LEMMA ThenThePacket ==
  ASSUME job.kind = "query", NEW p \in Seq(Octets), Len(p) <= 223, p # <<>>,
         payload = Cat(<<Len(p)>>, p), packets = <<>>, stage = "unpack",
         TakePadding \/ TakePacket \/ EndOfPayload
  PROVE  Unpacks(p)
<1>1. PICK r \in Seq(Octets), n \in Nat :
        /\ r = Cat(<<Len(p)>>, p) /\ n = Len(p) /\ n <= 223 /\ Len(r) = 1 + n /\ r[1] = n
        /\ SubSeq(r, 1 + 1, 1 + n) = p
        /\ SubSeq(r, 1 + n + 1, Len(r)) = <<>>
        /\ Len(Cat(Padding(3), r)) = 5 + n /\ Cat(Padding(3), r)[1] = 227
        /\ SubSeq(Cat(Padding(3), r), 1 + 3 + 1, Len(Cat(Padding(3), r))) = r
  BY WithLength
<1>2. r = payload
  BY <1>1
<1>4. PrefixLen = 1 /\ ~IsPadding /\ Size = n
  <2>1. ~(n >= 224) /\ n < 224
    BY <1>1
  <2>2. payload[1] = n
    BY <1>1, <1>2
  <2> QED BY <2>1, <2>2, PrefixOfOne
<1>5. Whole
  BY <1>1, <1>2, <1>4 DEF Whole
<1>6. TakePacket
  BY <1>4, <1>5 DEF TakePadding, EndOfPayload
<1>7. /\ payload' = SubSeq(r, 1 + n + 1, Len(r)) /\ packets' = Append(<<>>, SubSeq(r, 1 + 1, 1 + n))
      /\ stage' = "unpack"
  BY <1>2, <1>4, <1>6 DEF TakePacket
<1>8. payload' = <<>> /\ packets' = <<p>>
  <2>1. Append(<<>>, p) = <<p>>
    OBVIOUS
  <2> QED BY <1>1, <1>7, <2>1
<1> QED BY <1>7, <1>8 DEF Unpacks, QueryLeft, Delivered

LEMMA NothingLeft ==
  ASSUME payload = <<>>, stage = "unpack", TakePadding \/ TakePacket \/ EndOfPayload
  PROVE  stage' = "end" /\ packets' = packets
<1>1. Len(payload) = 0
  BY EmptySeq
<1>2. ~(Len(payload) >= PrefixLen)
  BY <1>1 DEF PrefixLen
<1>3. ~Whole
  BY <1>2 DEF Whole
<1> QED BY <1>3 DEF TakePadding, TakePacket, EndOfPayload

LEMMA QueryUnpacks ==
  ASSUME NEW j, IsJob(j), j.kind = "query", job = j, QueryWay(j),
         TakePadding \/ TakePacket \/ EndOfPayload
  PROVE  QueryWay(j)'
<1>1. IsUpstream(j.packet, j.domain)
  BY QueryJob
<1>2. PICK nm \in Seq(Seq(Byte)) : nm = SentName(j.packet, j.domain)
  BY <1>1, NameSent
<1>3. PICK p \in Seq(Octets) : p = j.packet /\ Len(p) <= 223
  BY <1>1, NameSent DEF IsUpstream, Roomy
<1>4. stage = "unpack" /\ UNCHANGED readVars
  BY DEF TakePadding, TakePacket, EndOfPayload
<1>5. Unpacks(p)
  <2>1. QueryLeft(p)
    BY <1>3, <1>4 DEF QueryWay, QueryPassed
  <2>2. job.kind = "query"
    OBVIOUS
  <2>3. CASE payload = Padded(p) /\ packets = <<>> /\ p = <<>>
    <3>1. payload = Padding(8)
      BY <2>3 DEF Padded
    <3> QED BY <1>4, <2>2, <2>3, <3>1, OnlyPadding
  <2>4. CASE payload = Padded(p) /\ packets = <<>> /\ p # <<>>
    <3>1. payload = Cat(Padding(3), Cat(<<Len(p)>>, p))
      BY <2>4 DEF Padded
    <3> QED BY <1>3, <1>4, <2>2, <2>4, <3>1, PaddingFirst
  <2>5. CASE p # <<>> /\ payload = Cat(<<Len(p)>>, p) /\ packets = <<>>
    BY <1>3, <1>4, <2>2, <2>5, ThenThePacket
  <2>6. CASE payload = <<>> /\ packets = Delivered(p)
    BY <1>4, <2>6, NothingLeft DEF Unpacks
  <2> QED BY <2>1, <2>3, <2>4, <2>5, <2>6 DEF QueryLeft
<1>6. QueryPassed(j.packet)'
  BY <1>3, <1>5 DEF Unpacks, QueryPassed
<1>7. QueryRead(nm) /\ Reader(QueryOctets(nm), QueryPlan(nm), 2, TRUE)
  BY <1>2 DEF QueryWay, QueryRead
<1>8. Reader(QueryOctets(nm), QueryPlan(nm), 2, TRUE)' /\ buf' = buf
  BY <1>4, <1>7, ReaderRests
<1>9. QueryRead(nm)'
  BY <1>7, <1>8 DEF QueryRead
<1> QED BY <1>2, <1>6, <1>9 DEF QueryWay

(* What is left to show of a query.                                        *)
LEMMA QueryArrives ==
  ASSUME NEW j, QueryWay(j), Ended, job = j, j.kind = "query"
  PROVE  stage = "end" /\ packets = Delivered(j.packet)
<1>1. PICK nm : nm = SentName(j.packet, j.domain)
  OBVIOUS
<1>2. Reader(QueryOctets(nm), QueryPlan(nm), 2, TRUE) /\ Len(buf) = Len(QueryOctets(nm))
  BY <1>1 DEF QueryWay, QueryRead
<1>3. outcome \in {"reading", "done"}
  <2>1. 2 \in Nat \ {0}
    OBVIOUS
  <2>2. outcome \notin {"reading", "done"} => Len(buf) < Len(QueryOctets(nm))
    BY <1>2, <2>1, ReaderEnds
  <2>3. Len(buf) \in Nat
    BY <1>2, LenProperties DEF Reader
  <2> QED BY <1>2, <2>2, <2>3
<1>4. QueryPassed(j.packet)
  BY DEF QueryWay
<1>5. stage \in {"refused", "end"}
  BY <1>3 DEF Ended
<1> QED BY <1>4, <1>5 DEF QueryPassed
-----------------------------------------------------------------------------
(* The client unpacks a response: packets with their lengths.              *)
LEMMA PrefixedRest ==
  ASSUME NEW bb \in Seq(Seq(Byte)), NEW k \in 0..Len(bb), k < Len(bb)
  PROVE  /\ bb[k + 1] \in Seq(Byte) /\ Prefixed(Rest(bb, k + 1)) \in Seq(Byte)
         /\ Prefixed(Rest(bb, k)) = Cat(Prefixed1(bb[k + 1]), Prefixed(Rest(bb, k + 1)))
<1>1. PICK ls \in Seq(Seq(Byte)) :
        ls = LengthsIn(bb) /\ Len(ls) = Len(bb) /\ \A i \in 1..Len(bb) : ls[i] = Prefixed1(bb[i])
  BY LengthsInType
<1>2. PICK m \in Nat : m = Len(bb)
  BY LenProperties
<1>3. k + 1 \in 0..Len(bb) /\ k + 1 \in 1..Len(bb) /\ k \in 0..Len(ls) /\ k < Len(ls)
  BY <1>1, <1>2
<1>4. ASSUME NEW i \in 0..Len(bb) PROVE LengthsIn(Rest(bb, i)) = Rest(ls, i)
  <2>1. PICK n \in Nat : n = m - i /\ i + n = m
    <3>1. m - i \in Nat /\ i + (m - i) = m
      BY <1>2
    <3> QED BY <3>1
  <2>2. PICK r \in Seq(Seq(Byte)) :
          r = Rest(bb, i) /\ Len(r) = n /\ \A h \in 1..n : r[h] = bb[i + h]
    <3>1. i \in Nat /\ Leaves(bb, i, n)
      BY <1>2, <2>1 DEF Leaves
    <3>2. /\ Rest(bb, i) \in Seq(Seq(Byte)) /\ Len(Rest(bb, i)) = n
          /\ \A h \in 1..n : Rest(bb, i)[h] = bb[i + h]
      BY <3>1, RestElements
    <3> QED BY <3>2, Zenon
  <2>3. PICK s \in Seq(Seq(Byte)) :
          s = Rest(ls, i) /\ Len(s) = n /\ \A h \in 1..n : s[h] = ls[i + h]
    <3>1. i \in Nat /\ Leaves(ls, i, n)
      BY <1>1, <1>2, <2>1 DEF Leaves
    <3>2. /\ Rest(ls, i) \in Seq(Seq(Byte)) /\ Len(Rest(ls, i)) = n
          /\ \A h \in 1..n : Rest(ls, i)[h] = ls[i + h]
      BY <3>1, RestElements
    <3> QED BY <3>2, Zenon
  <2>4. PICK t \in Seq(Seq(Byte)) :
          t = LengthsIn(r) /\ Len(t) = n /\ \A h \in 1..n : t[h] = Prefixed1(r[h])
    BY <2>2, LengthsInType
  <2>5. ASSUME NEW h \in 1..Len(t) PROVE t[h] = s[h]
    <3>1. i + h \in 1..Len(bb) /\ h \in 1..n
      BY <1>2, <2>1, <2>4
    <3> QED BY <1>1, <2>2, <2>3, <2>4, <3>1
  <2>6. t = s
    BY <2>3, <2>4, <2>5, SeqEqual
  <2> QED BY <2>2, <2>3, <2>4, <2>6
<1>5. Prefixed(Rest(bb, k)) = FlattenSeq(Rest(ls, k))
  <2>1. Prefixed(Rest(bb, k)) = FlattenSeq(LengthsIn(Rest(bb, k)))
    BY DEF Prefixed, LengthsIn
  <2> QED BY <1>4, <2>1
<1>6. Prefixed(Rest(bb, k + 1)) = FlattenSeq(Rest(ls, k + 1))
  <2>1. Prefixed(Rest(bb, k + 1)) = FlattenSeq(LengthsIn(Rest(bb, k + 1)))
    BY DEF Prefixed, LengthsIn
  <2> QED BY <1>3, <1>4, <2>1
<1>7. /\ ls[k + 1] \in Seq(Byte) /\ FlattenSeq(Rest(ls, k + 1)) \in Seq(Byte)
      /\ FlattenSeq(Rest(ls, k)) = Cat(ls[k + 1], FlattenSeq(Rest(ls, k + 1)))
  BY <1>3, FlattenRest
<1>8. ls[k + 1] = Prefixed1(bb[k + 1]) /\ bb[k + 1] \in Seq(Byte)
  BY <1>1, <1>3, ElementOfSeq
<1> QED BY <1>5, <1>6, <1>7, <1>8

(* The first packet of what is left.                                       *)
IsAhead(u, n, q, r) ==
  /\ u = Cat(Prefixed1(q), r)
  /\ 256 * u[1] + u[2] = n
  /\ Len(u) >= 2 /\ Len(u) >= 2 + n
  /\ SubSeq(u, 2 + 1, 2 + n) = q
  /\ SubSeq(u, 2 + n + 1, Len(u)) = r

LEMMA PacketAhead ==
  ASSUME NEW q \in Seq(Byte), NEW r \in Seq(Byte)
  PROVE  \E u \in Seq(Byte), n \in Nat : IsAhead(u, n, q, r)
<1>1. PICK n \in Nat : n = Len(q)
  BY LenProperties
<1>2. PICK t \in Seq(Byte) : t = Two(n) /\ Len(t) = 2 /\ t[1] = n \div 256 /\ t[2] = n % 256
  <2>1. Two(n) \in Seq(Byte) /\ Len(Two(n)) = 2
    BY TwoType
  <2>2. Two(n)[1] = n \div 256 /\ Two(n)[2] = n % 256
    BY DEF Two
  <2> QED BY <2>1, <2>2
<1>3. PICK tq \in Seq(Byte) :
        /\ tq = Cat(t, q) /\ tq = Prefixed1(q) /\ Len(tq) = Len(t) + Len(q)
        /\ \A i \in 1..Len(t) : tq[i] = t[i]
        /\ \A i \in 1..Len(q) : tq[Len(t) + i] = q[i]
  <2>1. Cat(t, q) \in Seq(Byte) /\ Len(Cat(t, q)) = Len(t) + Len(q)
    BY CatType
  <2>2. \A i \in 1..Len(t) : Cat(t, q)[i] = t[i]
    BY CatElements
  <2>3. \A i \in 1..Len(q) : Cat(t, q)[Len(t) + i] = q[i]
    BY CatElements
  <2>4. Cat(t, q) = Prefixed1(q)
    BY <1>1, <1>2 DEF Prefixed1
  <2> QED BY <2>1, <2>2, <2>3, <2>4
<1>4. PICK u \in Seq(Byte) :
        /\ u = Cat(tq, r) /\ Len(u) = Len(tq) + Len(r)
        /\ \A i \in 1..Len(tq) : u[i] = tq[i]
  <2>1. Cat(tq, r) \in Seq(Byte) /\ Len(Cat(tq, r)) = Len(tq) + Len(r)
    BY CatType
  <2>2. \A i \in 1..Len(tq) : Cat(tq, r)[i] = tq[i]
    BY CatElements
  <2> QED BY <2>1, <2>2
<1>5. PICK m \in Nat, e \in Nat : m = Len(r) /\ Len(tq) = 2 + n /\ e = 2 + n /\ Len(u) = e + m
  BY <1>1, <1>2, <1>3, <1>4, LenProperties
<1>6. u[1] = n \div 256 /\ u[2] = n % 256
  <2>1. 1 \in 1..e /\ 2 \in 1..e
    BY <1>5
  <2>2. 1 \in 1..2 /\ 2 \in 1..2
    OBVIOUS
  <2>3. tq[1] = t[1] /\ tq[2] = t[2]
    BY <1>2, <1>3, <2>2
  <2>4. u[1] = tq[1] /\ u[2] = tq[2]
    BY <1>4, <1>5, <2>1
  <2> QED BY <1>2, <2>3, <2>4
<1>7. 256 * u[1] + u[2] = n
  BY <1>6, TwoOctets
<1>8. Len(u) >= 2 /\ Len(u) >= 2 + n
  BY <1>5
<1>9. SubSeq(u, 2 + n + 1, Len(u)) = r
  <2>1. SubSeq(Cat(tq, r), Len(tq) + 1, Len(Cat(tq, r))) = r
    BY BehindFirst
  <2> QED BY <1>4, <1>5, <2>1
<1>10. SubSeq(u, 2 + 1, 2 + n) = q
  <2>1. PICK s \in Seq(Byte) :
          s = SubSeq(u, 2 + 1, 2 + n) /\ Len(s) = n /\ \A i \in 1..n : s[i] = u[2 + i]
    <3>1. 2 + n <= Len(u) /\ 2 \in Nat
      BY <1>5
    <3>2. /\ SubSeq(u, 2 + 1, 2 + n) \in Seq(Byte) /\ Len(SubSeq(u, 2 + 1, 2 + n)) = n
          /\ \A i \in 1..n : SubSeq(u, 2 + 1, 2 + n)[i] = u[2 + i]
      BY <3>1, Slice
    <3> QED BY <3>2
  <2>2. ASSUME NEW i \in 1..Len(s) PROVE s[i] = q[i]
    <3>1. i \in 1..n /\ 2 + i \in 1..e
      BY <1>5, <2>1
    <3>2. u[2 + i] = tq[2 + i]
      BY <1>4, <1>5, <3>1
    <3>3. tq[2 + i] = q[i]
      BY <1>1, <1>2, <1>3, <3>1
    <3> QED BY <2>1, <3>1, <3>2, <3>3
  <2>3. Len(s) = Len(q)
    BY <1>1, <2>1
  <2>4. s = q
    BY <2>2, <2>3, SeqEqual
  <2> QED BY <2>1, <2>4
<1>11. IsAhead(u, n, q, r)
  BY <1>3, <1>4, <1>7, <1>8, <1>9, <1>10 DEF IsAhead
<1> QED BY <1>11

ResponseLeft(bb) ==
  \E k \in 0..Len(bb) : payload = Prefixed(Rest(bb, k)) /\ packets = Foremost(bb, k)

UnpacksAll(bb) ==
  \/ stage' = "unpack" /\ ResponseLeft(bb)'
  \/ stage' = "end" /\ packets' = bb

LEMMA ResponseUnpacked ==
  ASSUME job.kind = "response", NEW bb \in Seq(Seq(Byte)), stage = "unpack", ResponseLeft(bb),
         TakePadding \/ TakePacket \/ EndOfPayload
  PROVE  UnpacksAll(bb)
<1>1. PICK k \in 0..Len(bb) : payload = Prefixed(Rest(bb, k)) /\ packets = Foremost(bb, k)
  BY DEF ResponseLeft
<1>2. /\ PrefixLen = 2 /\ ~IsPadding /\ Prefix = 256 * payload[1] + payload[2]
      /\ Size = 256 * payload[1] + payload[2]
  BY DEF PrefixLen, IsPadding, Prefix, Size
<1>3. PICK m \in Nat : m = Len(bb)
  BY LenProperties
<1>4. CASE k = m
  <2>1. Rest(bb, k) = <<>> /\ Foremost(bb, k) = bb
    BY <1>3, <1>4, RestEmpty, Fronts
  <2>2. payload = <<>> /\ packets = bb
    BY <1>1, <2>1, PrefixedEmpty
  <2> QED BY <2>2, NothingLeft DEF UnpacksAll
<1>5. CASE k # m
  <2>1. k < Len(bb) /\ k + 1 \in 0..Len(bb)
    BY <1>3, <1>5
  <2>2. PICK q \in Seq(Byte), r \in Seq(Byte) :
          q = bb[k + 1] /\ r = Prefixed(Rest(bb, k + 1)) /\ payload = Cat(Prefixed1(q), r)
    BY <1>1, <2>1, PrefixedRest
  <2>0. PICK u \in Seq(Byte), n \in Nat : IsAhead(u, n, q, r)
    BY PacketAhead
  <2>3. /\ u = Cat(Prefixed1(q), r)
        /\ 256 * u[1] + u[2] = n
        /\ Len(u) >= 2 /\ Len(u) >= 2 + n
        /\ SubSeq(u, 2 + 1, 2 + n) = q
        /\ SubSeq(u, 2 + n + 1, Len(u)) = r
    BY <2>0 DEF IsAhead
  <2>4. u = payload /\ Size = n
    BY <1>2, <2>2, <2>3
  <2>5. Whole
    BY <1>2, <2>3, <2>4 DEF Whole
  <2>6. TakePacket
    BY <1>2, <2>5 DEF TakePadding, EndOfPayload
  <2>7. /\ packets' = Append(packets, SubSeq(u, 2 + 1, 2 + n))
        /\ payload' = SubSeq(u, 2 + n + 1, Len(u))
        /\ stage' = "unpack"
    BY <1>2, <2>4, <2>6 DEF TakePacket
  <2>8. Foremost(bb, k + 1) = Append(Foremost(bb, k), q)
    BY <2>1, <2>2, Fronts
  <2>9. packets' = Foremost(bb, k + 1) /\ payload' = Prefixed(Rest(bb, k + 1))
    <3>1. SubSeq(u, 2 + 1, 2 + n) = q /\ SubSeq(u, 2 + n + 1, Len(u)) = r
      BY <2>3
    <3>2. packets' = Append(packets, q) /\ payload' = r
      BY <2>7, <3>1, Zenon
    <3> QED BY <1>1, <2>2, <2>8, <3>2, Zenon
  <2>10. ResponseLeft(bb)'
    BY <2>1, <2>9 DEF ResponseLeft
  <2> QED BY <2>7, <2>10 DEF UnpacksAll
<1> QED BY <1>4, <1>5
-----------------------------------------------------------------------------
(* A response on its way: cut off, perhaps, read, opened and unpacked.     *)
Bundled(j) == Bundle(j.packets, j.limit)

ResponseRead(j) ==
  LET w == ResponseOctets(j.name, Sent1(j)) IN
  /\ Reader(w, ResponsePlan(j.name, Sent1(j)), 3, FALSE)
  /\ Len(buf) = IF Len(w) > Room(j) THEN Room(j) ELSE Len(w)

ResponsePassed(j) ==
  \/ stage = "read" /\ packets = <<>>
  \/ stage = "unpack" /\ outcome = "done" /\ ResponseLeft(Bundled(j))
  \/ stage = "end" /\ outcome = "done" /\ packets = Bundled(j)

ResponseWay(j) == ResponseRead(j) /\ ResponsePassed(j)

LEMMA ResponseFacts ==
  ASSUME NEW j, IsJob(j), j.kind = "response"
  PROVE  /\ j.name \in Seq(Seq(Byte)) /\ NewName(j.name) = "ok"
         /\ j.domain \in Seq(Seq(Byte)) /\ HasSuffix(j.name, j.domain)
         /\ j.limit \in Nat /\ Room(j) \in Nat
         /\ Bundled(j) \in Seq(Seq(Byte)) /\ Prefixed(Bundled(j)) \in Seq(Byte)
         /\ Sent1(j) \in Seq(Byte) /\ Sent1(j) = EncodeRDataTXT(Prefixed(Bundled(j)))
         /\ ResponseOctets(j.name, Sent1(j)) \in Seq(Byte)
         /\ Written(j) = ResponseOctets(j.name, Sent1(j))
<1>1. PICK nm \in Seq(Seq(Byte)), ps \in Seq(Seq(Byte)), lim \in Nat : Asks(j, nm, ps, lim)
  BY ResponseJob
<1>2. nm = j.name /\ ps = j.packets /\ lim = j.limit /\ ps # <<>>
  BY <1>1 DEF Asks
<1>3. Bundle(ps, lim) \in Seq(Seq(Byte)) /\ Prefixed(Bundle(ps, lim)) \in Seq(Byte)
  BY <1>2, BundleType
<1>4. IsName(j.name) /\ IsName(j.domain) /\ HasSuffix(j.name, j.domain)
  BY DEF IsJob
<1>5. NewName(j.name) = "ok" /\ j.domain \in Seq(Seq(Byte))
  BY <1>4, LegalName DEF IsName
<1>6. Sent1(j) \in Seq(Byte) /\ Written(j) = ResponseOctets(j.name, Sent1(j))
  BY WrittenResponse
<1>7. PICK d \in Seq(Byte) : d = Sent1(j)
  BY <1>6
<1>8. ResponseOctets(nm, d) \in Seq(Byte)
  BY MessageTypes
<1>9. j.limit \in Nat /\ Room(j) \in Nat
  BY <1>2 DEF Room, ReceiveBuffer
<1> QED BY <1>2, <1>3, <1>4, <1>5, <1>6, <1>7, <1>8, <1>9 DEF Bundled, Sent1

LEMMA ResponseBegins ==
  ASSUME NEW j, IsJob(j), j.kind = "response", job = j, Init
  PROVE  ResponseWay(j)
<1>1. PICK w \in Seq(Byte), lim \in Nat :
        w = ResponseOctets(j.name, Sent1(j)) /\ w = Written(j) /\ lim = Room(j)
  BY ResponseFacts
<1>2. PICK b \in Seq(Byte) :
        /\ b = Truncated(w, lim) /\ Agree(b, w, FALSE)
        /\ Len(b) = IF Len(w) > lim THEN lim ELSE Len(w)
  BY Cutoff
<1>3. StartReading(b) /\ stage = "read" /\ packets = <<>>
  BY <1>1, <1>2 DEF Init
<1>4. Reader(w, ResponsePlan(j.name, Sent1(j)), 3, FALSE) /\ buf = b
  BY <1>2, <1>3, ReaderBegins
<1>5. ResponseRead(j)
  BY <1>1, <1>2, <1>4 DEF ResponseRead
<1> QED BY <1>3, <1>5 DEF ResponseWay, ResponsePassed

LEMMA ResponseReadNext ==
  ASSUME NEW j, IsJob(j), j.kind = "response", ResponseWay(j), Read
  PROVE  ResponseWay(j)'
<1>1. PICK nm \in Seq(Seq(Byte)), d \in Seq(Byte) :
        nm = j.name /\ d = Sent1(j) /\ NewName(nm) = "ok"
  BY ResponseFacts
<1>2. PICK w \in Seq(Byte) : w = ResponseOctets(nm, d)
  BY MessageTypes
<1>3. IsPlan(w, ResponsePlan(nm, d), 3, FALSE)
  BY <1>1, <1>2, ResponseLaid
<1>4. /\ Reader(w, ResponsePlan(nm, d), 3, FALSE)
      /\ Len(buf) = IF Len(w) > Room(j) THEN Room(j) ELSE Len(w)
  BY <1>1, <1>2 DEF ResponseWay, ResponseRead
<1>5. ReadNext /\ stage = "read" /\ stage' = stage /\ packets' = packets
  BY DEF Read
<1>6. Reader(w, ResponsePlan(nm, d), 3, FALSE)' /\ buf' = buf
  BY <1>3, <1>4, <1>5, ReaderReads
<1>7. packets = <<>>
  BY <1>5 DEF ResponseWay, ResponsePassed
<1>8. ResponsePassed(j)'
  BY <1>5, <1>7 DEF ResponsePassed
<1>9. Len(buf') = IF Len(w) > Room(j) THEN Room(j) ELSE Len(w)
  BY <1>4, <1>6
<1>10. ResponseRead(j)'
  BY <1>1, <1>2, <1>6, <1>9 DEF ResponseRead
<1> QED BY <1>8, <1>10 DEF ResponseWay

LEMMA ResponseReadRests ==
  ASSUME NEW j, ResponseRead(j), UNCHANGED readVars
  PROVE  ResponseRead(j)' /\ outcome' = outcome
<1>1. PICK w, plan : w = ResponseOctets(j.name, Sent1(j)) /\ plan = ResponsePlan(j.name, Sent1(j))
  OBVIOUS
<1>2. Reader(w, plan, 3, FALSE) /\ Len(buf) = IF Len(w) > Room(j) THEN Room(j) ELSE Len(w)
  BY <1>1 DEF ResponseRead
<1>3. Reader(w, plan, 3, FALSE)' /\ buf' = buf /\ outcome' = outcome
  BY <1>2, ReaderRests
<1> QED BY <1>1, <1>2, <1>3 DEF ResponseRead

LEMMA ResponseIsOpened ==
  ASSUME NEW j, IsJob(j), j.kind = "response", job = j, ResponseWay(j), OpenResponse
  PROVE  ResponseWay(j)'
<1>1. PICK nm \in Seq(Seq(Byte)), d \in Seq(Byte), bb \in Seq(Seq(Byte)), p \in Seq(Byte) :
        /\ nm = j.name /\ d = Sent1(j) /\ bb = Bundled(j) /\ p = Prefixed(bb)
        /\ d = EncodeRDataTXT(p)
  BY ResponseFacts
<1>2. PICK dom \in Seq(Seq(Byte)) : dom = j.domain /\ HasSuffix(nm, dom)
  BY <1>1, ResponseFacts
<1>3. stage = "read" /\ outcome = "done" /\ UNCHANGED readVars /\ packets' = packets
  BY DEF OpenResponse
<1>4. ResponseRead(j)' /\ outcome' = outcome
  BY <1>3, ResponseReadRests DEF ResponseWay
<1>5. PICK answer : answer = entries[2]
  OBVIOUS
<1>6. ReadAs(answer, AnswerAt(nm, d), FALSE)
  <2>1. Reader(ResponseOctets(nm, d), ResponsePlan(nm, d), 3, FALSE)
    BY <1>1 DEF ResponseWay, ResponseRead
  <2>2. 3 \in Nat \ {0} /\ 2 \in 1..3
    OBVIOUS
  <2>3. outcome = "done" => \A k \in 1..3 : ReadAs(entries[k], ResponsePlan(nm, d)[k], FALSE)
    BY <2>1, <2>2, ReaderEnds
  <2>4. ResponsePlan(nm, d)[2] = AnswerAt(nm, d)
    BY DEF ResponsePlan
  <2> QED BY <1>3, <1>5, <2>2, <2>3, <2>4
<1>7. answer.type = TXT /\ AlikeNames(answer.name, nm) /\ answer.data = d
  <2>1. AnswerAt(nm, d).ty = 16 /\ AnswerAt(nm, d).nm = nm /\ AnswerAt(nm, d).d = d
        /\ AnswerAt(nm, d).question = FALSE
    BY DEF AnswerAt
  <2> QED BY <1>6, <2>1 DEF ReadAs, TXT
<1>8. HasSuffix(answer.name, dom)
  BY <1>2, <1>7, SuffixRead
<1>9. DecodeRDataTXT(answer.data) = [ok |-> TRUE, text |-> p]
  BY <1>1, <1>7, TextArrives
<1>10. PICK data : data = DecodeRDataTXT(answer.data)
  OBVIOUS
<1>11. data.ok /\ data.text = p
  BY <1>9, <1>10
<1>12. stage' = "unpack" /\ payload' = p
  <2>1. IF HasSuffix(answer.name, dom) /\ answer.type = TXT /\ data.ok
        THEN /\ stage' = "unpack"
             /\ payload' = data.text
        ELSE /\ stage' = "refused"
             /\ UNCHANGED payload
    BY <1>2, <1>5, <1>10 DEF OpenResponse
  <2> QED BY <1>7, <1>8, <1>11, <2>1
<1>13. packets' = <<>>
  BY <1>3 DEF ResponseWay, ResponsePassed
<1>14. ResponseLeft(bb)'
  <2>1. 0 \in 0..Len(bb)
    BY LenProperties
  <2>2. Rest(bb, 0) = bb /\ Foremost(bb, 0) = <<>>
    BY <2>1, RestsOf, Fronts
  <2>3. payload' = Prefixed(Rest(bb, 0)) /\ packets' = Foremost(bb, 0)
    BY <1>1, <1>12, <1>13, <2>2
  <2> QED BY <2>1, <2>3 DEF ResponseLeft
<1>15. ResponsePassed(j)'
  BY <1>1, <1>3, <1>4, <1>12, <1>14 DEF ResponsePassed
<1> QED BY <1>4, <1>15 DEF ResponseWay

LEMMA ResponseUnpacks ==
  ASSUME NEW j, IsJob(j), j.kind = "response", job = j, ResponseWay(j),
         TakePadding \/ TakePacket \/ EndOfPayload
  PROVE  ResponseWay(j)'
<1>1. PICK bb \in Seq(Seq(Byte)) : bb = Bundled(j)
  BY ResponseFacts
<1>2. stage = "unpack" /\ UNCHANGED readVars
  BY DEF TakePadding, TakePacket, EndOfPayload
<1>3. outcome = "done" /\ ResponseLeft(bb)
  BY <1>1, <1>2 DEF ResponseWay, ResponsePassed
<1>4. job.kind = "response"
  OBVIOUS
<1>5. UnpacksAll(bb)
  BY <1>2, <1>3, <1>4, ResponseUnpacked
<1>6. ResponseRead(j)' /\ outcome' = outcome
  BY <1>2, ResponseReadRests DEF ResponseWay
<1>7. ResponsePassed(j)'
  BY <1>1, <1>3, <1>5, <1>6 DEF UnpacksAll, ResponsePassed
<1> QED BY <1>6, <1>7 DEF ResponseWay

LEMMA ResponseArrives ==
  ASSUME NEW j, IsJob(j), j.kind = "response", job = j, ResponseWay(j), Ended
  PROVE  IF Len(Written(j)) > Room(j) THEN packets = <<>>
         ELSE packets = Bundle(j.packets, j.limit)
<1>1. PICK w \in Seq(Byte), lim \in Nat, n \in Nat :
        w = ResponseOctets(j.name, Sent1(j)) /\ w = Written(j) /\ lim = Room(j) /\ n = Len(w)
  BY ResponseFacts, LenProperties
<1>2. /\ Reader(w, ResponsePlan(j.name, Sent1(j)), 3, FALSE)
      /\ Len(buf) = IF n > lim THEN lim ELSE n
  BY <1>1 DEF ResponseWay, ResponseRead
<1>3. (outcome = "done" => Len(buf) = Len(w)) /\ (outcome \notin {"reading", "done"} => Len(buf) < Len(w))
  <2>1. 3 \in Nat \ {0}
    OBVIOUS
  <2> QED BY <1>2, <2>1, ReaderEnds
<1>4. ResponsePassed(j)
  BY DEF ResponseWay
<1>5. CASE n > lim
  <2>1. outcome # "done"
    <3>1. Len(buf) = lim
      BY <1>2, <1>5
    <3>2. lim # n
      BY <1>5
    <3> QED BY <1>1, <1>3, <3>1, <3>2
  <2>2. packets = <<>>
    BY <1>4, <2>1 DEF ResponsePassed
  <2> QED BY <1>1, <1>5, <2>2
<1>6. CASE ~(n > lim)
  <2>1. Len(buf) = n
    BY <1>2, <1>6
  <2>2. ~(n < n)
    OBVIOUS
  <2>3. outcome \in {"reading", "done"}
    BY <1>1, <1>3, <2>1, <2>2
  <2>4. stage \in {"refused", "end"}
    BY <2>3 DEF Ended
  <2>5. packets = Bundled(j)
    BY <1>4, <2>4 DEF ResponsePassed
  <2> QED BY <1>1, <1>6, <2>5 DEF Bundled
<1> QED BY <1>5, <1>6
-----------------------------------------------------------------------------
(* The invariant: each message is where it should be on its way.           *)
WayInv ==
  /\ job \in Jobs
  /\ job.kind = "query" => QueryWay(job)
  /\ job.kind = "response" => ResponseWay(job)

LEMMA WayBegins == Init => WayInv
<1> SUFFICES ASSUME Init PROVE WayInv
  OBVIOUS
<1>1. PICK j \in Jobs : j = job
  BY DEF Init
<1>2. IsJob(j)
  BY JobsAssumption
<1> QED BY <1>1, <1>2, QueryBegins, ResponseBegins DEF WayInv

LEMMA WayStep == WayInv /\ [Next]_vars => WayInv'
<1> SUFFICES ASSUME WayInv, [Next]_vars PROVE WayInv'
  OBVIOUS
<1>1. PICK j \in Jobs : j = job
  BY DEF WayInv
<1>2. IsJob(j)
  BY JobsAssumption
<1>3. job' = j
  BY <1>1 DEF Next, vars, Read, OpenQuery, OpenResponse, TakePadding, TakePacket, EndOfPayload
<1>4. j.kind = "query" => QueryWay(j)'
  <2> SUFFICES ASSUME j.kind = "query" PROVE QueryWay(j)'
    OBVIOUS
  <2>1. QueryWay(j)
    BY <1>1 DEF WayInv
  <2>2. CASE Read
    BY <1>2, <2>1, <2>2, QueryReadNext
  <2>3. CASE OpenQuery
    BY <1>1, <1>2, <2>1, <2>3, QueryIsOpened
  <2>4. CASE OpenResponse
    <3>1. job.kind = "response"
      BY <2>4 DEF OpenResponse
    <3> QED BY <1>1, <3>1
  <2>5. CASE TakePadding \/ TakePacket \/ EndOfPayload
    BY <1>1, <1>2, <2>1, <2>5, QueryUnpacks
  <2>6. CASE UNCHANGED vars
    <3>1. PICK nm : nm = SentName(j.packet, j.domain)
      OBVIOUS
    <3>2. UNCHANGED readVars /\ stage' = stage /\ payload' = payload /\ packets' = packets
      BY <2>6 DEF vars
    <3>3. Reader(QueryOctets(nm), QueryPlan(nm), 2, TRUE) /\ Len(buf) = Len(QueryOctets(nm))
      BY <2>1, <3>1 DEF QueryWay, QueryRead
    <3>4. Reader(QueryOctets(nm), QueryPlan(nm), 2, TRUE)' /\ buf' = buf
      BY <3>2, <3>3, ReaderRests
    <3>5. QueryPassed(j.packet)'
      BY <2>1, <3>2 DEF QueryWay, QueryPassed, QueryLeft
    <3> QED BY <3>1, <3>3, <3>4, <3>5 DEF QueryWay, QueryRead
  <2> QED BY <2>2, <2>3, <2>4, <2>5, <2>6 DEF Next
<1>5. j.kind = "response" => ResponseWay(j)'
  <2> SUFFICES ASSUME j.kind = "response" PROVE ResponseWay(j)'
    OBVIOUS
  <2>1. ResponseWay(j)
    BY <1>1 DEF WayInv
  <2>2. CASE Read
    BY <1>2, <2>1, <2>2, ResponseReadNext
  <2>3. CASE OpenQuery
    <3>1. job.kind = "query"
      BY <2>3 DEF OpenQuery
    <3> QED BY <1>1, <3>1
  <2>4. CASE OpenResponse
    BY <1>1, <1>2, <2>1, <2>4, ResponseIsOpened
  <2>5. CASE TakePadding \/ TakePacket \/ EndOfPayload
    BY <1>1, <1>2, <2>1, <2>5, ResponseUnpacks
  <2>6. CASE UNCHANGED vars
    <3>2. UNCHANGED readVars /\ stage' = stage /\ payload' = payload /\ packets' = packets
      BY <2>6 DEF vars
    <3>3. ResponseRead(j)' /\ outcome' = outcome
      BY <2>1, <3>2, ResponseReadRests DEF ResponseWay
    <3>4. ResponsePassed(j)'
      BY <2>1, <3>2, <3>3 DEF ResponseWay, ResponsePassed, ResponseLeft
    <3> QED BY <3>3, <3>4 DEF ResponseWay
  <2> QED BY <2>2, <2>3, <2>4, <2>5, <2>6 DEF Next
<1> QED BY <1>1, <1>3, <1>4, <1>5 DEF WayInv

LEMMA WayArrives == WayInv => PacketsArrive
<1> SUFFICES ASSUME WayInv, Ended PROVE PacketsArrive
  BY DEF PacketsArrive
<1>1. PICK j \in Jobs : j = job
  BY DEF WayInv
<1>2. IsJob(j)
  BY JobsAssumption
<1>3. CASE j.kind = "query"
  <2>1. stage = "end" /\ packets = Delivered(j.packet)
    BY <1>1, <1>3, QueryArrives DEF WayInv
  <2> QED BY <1>1, <1>3, <2>1 DEF PacketsArrive, Delivered
<1>4. CASE j.kind = "response"
  <2>1. IF Len(Written(j)) > Room(j) THEN packets = <<>>
        ELSE packets = Bundle(j.packets, j.limit)
    BY <1>1, <1>2, <1>4, ResponseArrives DEF WayInv
  <2> QED BY <1>1, <1>4, <2>1 DEF PacketsArrive
<1>5. CASE j.kind # "query" /\ j.kind # "response"
  BY <1>1, <1>5 DEF PacketsArrive
<1> QED BY <1>3, <1>4, <1>5

(* What the one side sends, the other gets, whole and alone: each packet   *)
(* of at most the MTU, under every domain and whatever the resolver does   *)
(* to the case of the letters, and a poll, which has none; of a response   *)
(* all the packets that were bundled, or nothing of it if it had to be     *)
(* truncated (lib/dns.go:325-389, 190-262, main.go:344-371, 452-494,       *)
(* 617-697).                                                               *)
THEOREM PacketsDoArrive == Spec => []PacketsArrive
<1> QED BY WayBegins, WayStep, WayArrives, PTL DEF Spec
=============================================================================
