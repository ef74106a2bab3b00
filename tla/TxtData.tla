------------------------------ MODULE TxtData ------------------------------
(***************************************************************************)
(* The RDATA of a TXT record in dns/dns.go, and the size of a response     *)
(* whose answer is such a record (dnstt-server/main.go).                   *)
(***************************************************************************)
EXTENDS Naturals, Sequences, SequencesExt

CONSTANT Limits   (* what -mtu may set maxUDPPayload to                    *)
ASSUME LimitsAreNumbers == Limits \subseteq Nat

(* Cut into runs of n, of which only the last may be shorter.              *)
Chunks(p, n) ==
  [i \in 1..((Len(p) + n - 1) \div n) |->
     SubSeq(p, n * (i - 1) + 1, IF n * i < Len(p) THEN n * i ELSE Len(p))]

(* <character-string>s of 255 octets and one of those that remain; there   *)
(* is one even if there is nothing to write.                               *)
EncodeRDataTXT(p) ==
  IF p = <<>> THEN <<0>>
  ELSE FlattenSeq([i \in DOMAIN Chunks(p, 255) |->
                     <<Len(Chunks(p, 255)[i])>> \o Chunks(p, 255)[i]])

(* What the <character-string>s hold, if they are whole.                   *)
DecodeRDataTXT(p) ==
  LET whole[i \in 1..(Len(p) + 1)] ==
        i > Len(p) \/ (i + p[i] <= Len(p) /\ whole[i + p[i] + 1])
      text[i \in 1..(Len(p) + 1)] ==
        IF i > Len(p) \/ i + p[i] > Len(p) THEN <<>>
        ELSE SubSeq(p, i + 1, i + p[i]) \o text[i + p[i] + 1]
  IN IF p # <<>> /\ whole[1] THEN [ok |-> TRUE, text |-> text[1]] ELSE [ok |-> FALSE]

EncodedLength(n) == IF n = 0 THEN 1 ELSE n + (n + 254) \div 255

(* Fault: the length octets of the <character-strings> are forgotten.      *)
UnprefixedSize(n) == 12 + (255 + 4) + (2 + 10 + n) + 11

(* The header, a question whose name has 255 octets, an answer that points *)
(* to that name and holds n octets, and an OPT record.                     *)
FilledSize(n) == 12 + (255 + 4) + (2 + 10 + EncodedLength(n)) + 11

(* Where computeMaxEncodedPayload ends its search.                         *)
Top == 32768
=============================================================================
