---------------------------- MODULE WeightedList ----------------------------
(***************************************************************************)
(* The distribution of TLS fingerprints given by -utls: parseWeightedList, *)
(* SampleUTLSDistribution and sampleWeighted in dnstt-client/lib.          *)
(*                                                                         *)
(*   list ::= entry ("," entry)*      entry ::= (weight "*")? label        *)
(*                                                                         *)
(* An input is a sequence of characters; of those that are not special     *)
(* there are two digits and a letter.                                      *)
(***************************************************************************)
EXTENDS Naturals, Sequences, SequencesExt, FiniteSets

CONSTANTS
  Inputs,   (* the strings that are parsed                                 *)
  Known     (* the labels of utlsClientHelloIDMap, and "none"              *)

VARIABLES
  s,        (* the input                                                   *)
  i,        (* how many of its characters are consumed                     *)
  state,    (* of the parser, or how it ended                              *)
  weight,   (* weightString                                                *)
  label,
  weights,
  names,    (* labels                                                      *)
  drawn     (* the index of the entry drawn, 0 before                      *)

vars == <<s, i, state, weight, label, weights, names, drawn>>

-----------------------------------------------------------------------------
(* nextToken at k: its kind, its text, and what is consumed after it.  An  *)
(* escape at the end panics: the message of the error token is made of a   *)
(* character that is not there.                                            *)
Special(c) == c \in {",", "*"}

TextEnd(k) ==
  LET end[j \in 0..(Len(s) + 1)] ==
        IF j >= Len(s) \/ Special(s[j + 1]) THEN j
        ELSE IF s[j + 1] = "\\" THEN IF j + 1 = Len(s) THEN Len(s) + 1 ELSE end[j + 2]
        ELSE end[j + 1]
  IN end[k]

TextFrom(k) ==
  LET text[j \in 0..Len(s)] ==
        IF j >= Len(s) \/ Special(s[j + 1]) THEN <<>>
        ELSE IF s[j + 1] = "\\" THEN <<s[j + 2]>> \o text[j + 2]
        ELSE <<s[j + 1]>> \o text[j + 1]
  IN text[k]

NextToken(k) ==
  CASE k >= Len(s)          -> [kind |-> "eof", text |-> <<>>, next |-> k]
    [] k < Len(s) /\ s[k + 1] = ","
                            -> [kind |-> "comma", text |-> <<>>, next |-> k + 1]
    [] k < Len(s) /\ s[k + 1] = "*"
                            -> [kind |-> "asterisk", text |-> <<>>, next |-> k + 1]
    [] OTHER -> IF TextEnd(k) > Len(s) THEN [kind |-> "panic", text |-> <<>>, next |-> k]
                ELSE [kind |-> "text", text |-> TextFrom(k), next |-> TextEnd(k)]

(* strconv.ParseUint; no input has a weight of more than 32 bits.          *)
Digits == {"0", "1", "2"}
IsNumber(text) == text # <<>> /\ \A k \in DOMAIN text : text[k] \in Digits
NumberOf(text) ==
  LET value[k \in 0..Len(text)] ==
        IF k = 0 THEN 0
        ELSE 10 * value[k - 1] + CHOOSE d \in 0..2 : text[k] = <<"0", "1", "2">>[d + 1]
  IN value[Len(text)]

-----------------------------------------------------------------------------
Init ==
  /\ s \in Inputs
  /\ i = 0 /\ state = "begin entry"
  /\ weight = <<>> /\ label = <<>>
  /\ weights = <<>> /\ names = <<>> /\ drawn = 0

Stop(how) == state' = how /\ UNCHANGED <<s, i, weight, label, weights, names, drawn>>

(* Fault: what precedes an asterisk is the label of an entry of its own.   *)
NoWeights ==
  /\ state = "begin entry"
  /\ LET t == NextToken(i) IN
     CASE t.kind = "panic" -> Stop("panic")
       [] t.kind # "text" /\ t.kind # "panic" -> Stop("error")
       [] OTHER ->
            /\ weight' = <<"1">> /\ label' = t.text
            /\ state' = "end entry" /\ i' = t.next
            /\ UNCHANGED <<s, weights, names, drawn>>

(* A text and an asterisk are a weight, any other text is a label.         *)
BeginEntry ==
  /\ state = "begin entry"
  /\ LET t == NextToken(i)
         peeked == NextToken(t.next)
     IN CASE t.kind = "panic" \/ (t.kind = "text" /\ peeked.kind = "panic") -> Stop("panic")
          [] t.kind \notin {"text", "panic"}                                -> Stop("error")
          [] t.kind = "text" /\ peeked.kind = "asterisk" ->
               /\ weight' = t.text
               /\ state' = "label" /\ i' = peeked.next
               /\ UNCHANGED <<s, label, weights, names, drawn>>
          [] t.kind = "text" /\ peeked.kind \notin {"asterisk", "panic"} ->
               /\ weight' = <<"1">> /\ label' = t.text
               /\ state' = "end entry" /\ i' = t.next
               /\ UNCHANGED <<s, weights, names, drawn>>

TakeLabel ==
  /\ state = "label"
  /\ LET t == NextToken(i) IN
     CASE t.kind = "panic"             -> Stop("panic")
       [] t.kind \notin {"text", "panic"} -> Stop("error")
       [] t.kind = "text" ->
            /\ label' = t.text
            /\ state' = "end entry" /\ i' = t.next
            /\ UNCHANGED <<s, weight, weights, names, drawn>>

EndEntry ==
  /\ state = "end entry"
  /\ LET t == NextToken(i) IN
     IF ~IsNumber(weight) THEN Stop("error")
     ELSE /\ weights' = Append(weights, NumberOf(weight))
          /\ names' = Append(names, label)
          /\ state' = CASE t.kind = "eof"   -> "done"
                        [] t.kind = "comma" -> "begin entry"
                        [] t.kind = "panic" -> "panic"
                        [] OTHER            -> "error"
          /\ i' = t.next
          /\ UNCHANGED <<s, weight, label, drawn>>

-----------------------------------------------------------------------------
(* SampleUTLSDistribution and sampleWeighted, whose sum of weights of 32   *)
(* bits each does not overflow 64.                                         *)
Sum(k) == LET sum[j \in 0..k] == IF j = 0 THEN 0 ELSE sum[j - 1] + weights[j] IN sum[k]

IndexOf(r) == CHOOSE k \in 1..Len(weights) : r < Sum(k) /\ \A j \in 1..(k - 1) : r >= Sum(j)

Sample ==
  /\ state = "done"
  /\ LET total == Sum(Len(weights)) IN
     CASE \E k \in DOMAIN names : names[k] \notin Known -> Stop("unknown label")
       [] total = 0 /\ \A k \in DOMAIN names : names[k] \in Known -> Stop("panic: zero")
       [] OTHER -> /\ \E r \in 0..(total - 1) : drawn' = IndexOf(r)
                   /\ state' = "drawn"
                   /\ UNCHANGED <<s, i, weight, label, weights, names>>

Next == BeginEntry \/ TakeLabel \/ EndEntry \/ Sample

Spec == Init /\ [][Next]_vars

-----------------------------------------------------------------------------
(* The grammar, without a parser: the commas and asterisks that are not    *)
(* escaped divide the input.                                               *)
Escaped(k) ==
  LET escaped[j \in 0..Len(s)] == j > 1 /\ s[j - 1] = "\\" /\ ~escaped[j - 1] IN escaped[k]

Bare(c) == {k \in 1..Len(s) : s[k] = c /\ ~Escaped(k)}
Bounds == SetToSortSeq(Bare(",") \cup {0, Len(s) + 1}, <)

(* What the input says from position j to position k.                      *)
Unescaped(j, k) ==
  LET kept == SetToSortSeq({n \in j..k : n \notin Bare("\\")}, <)
  IN [n \in DOMAIN kept |-> s[kept[n]]]

(* The k-th entry.                                                         *)
Asterisks(k) == Bare("*") \cap (Bounds[k] + 1)..(Bounds[k + 1] - 1)
LabelStart(k) ==
  IF Asterisks(k) = {} THEN Bounds[k] + 1 ELSE 1 + CHOOSE n \in Asterisks(k) : TRUE
WeightOf(k) == Unescaped(Bounds[k] + 1, LabelStart(k) - 2)
LabelOf(k) == Unescaped(LabelStart(k), Bounds[k + 1] - 1)

Entries == 1..(Len(Bounds) - 1)
InGrammar ==
  /\ Len(s) \notin Bare("\\")
  /\ \A k \in Entries : /\ Cardinality(Asterisks(k)) <= 1
                        /\ LabelOf(k) # <<>>
                        /\ Asterisks(k) # {} => IsNumber(WeightOf(k))

(* The parser accepts the strings of its grammar, and it finds in them the *)
(* weights and labels that they have (weightedlist.go:21-25, 77-157); of   *)
(* the others it refuses all, though one that ends in a backslash only by  *)
(* a panic (:57).                                                          *)
ParsesItsGrammar ==
  /\ state \in {"done", "drawn", "unknown label", "panic: zero"} =>
       /\ InGrammar
       /\ Len(names) = Cardinality(Entries) /\ Len(weights) = Len(names)
       /\ \A k \in Entries :
            /\ names[k] = LabelOf(k)
            /\ weights[k] = IF Asterisks(k) = {} THEN 1 ELSE NumberOf(WeightOf(k))
  /\ state \in {"error", "panic"} => ~InGrammar

(* Each entry is drawn for as many numbers as its weight says, none at all *)
(* for a weight of 0 (weightedlist.go:182-201).                            *)
DrawnByWeight ==
  state = "drawn" =>
    /\ weights[drawn] > 0
    /\ \A k \in DOMAIN weights :
         Cardinality({r \in 0..(Sum(Len(weights)) - 1) : IndexOf(r) = k}) = weights[k]
=============================================================================
