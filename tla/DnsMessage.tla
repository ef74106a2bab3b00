----------------------------- MODULE DnsMessage -----------------------------
(***************************************************************************)
(* The wire format of DNS messages in dns/dns.go: messageBuilder writes,   *)
(* readMessage reads.  A message is read by steps, one for each iteration  *)
(* of readName's loop, so that what pointers make the reader do is a       *)
(* behaviour.  Octets are numbers; of the fixed fields only the counts,    *)
(* TYPE and RDLENGTH are kept, the others are zero.                        *)
(***************************************************************************)
EXTENDS Naturals, Sequences, SequencesExt

PointerLimit == 10          \* compressionPointerLimit
MaxLabel == 63
MaxName == 255

VARIABLES
  buf,       (* the octets being read                                      *)
  pos,       (* how many of them have been read, from the start            *)
  labels,    (* the labels of the name being read                          *)
  pointers,  (* numPointers                                                *)
  seekTo,    (* just past the first pointer of the name                    *)
  left,      (* the kinds of the entries still to be read                  *)
  entries,   (* the entries read                                           *)
  outcome    (* "reading", "done", or the error                            *)

readVars == <<buf, pos, labels, pointers, seekTo, left, entries, outcome>>

Two(n) == <<n \div 256, n % 256>>
Zeros(n) == [i \in 1..n |-> 0]
NumberAt(i) == 256 * buf[i + 1] + buf[i + 2]

-----------------------------------------------------------------------------
(* Names.                                                                  *)
Verbatim(name) == FlattenSeq([i \in DOMAIN name |-> <<Len(name[i])>> \o name[i]])
Suffix(name, i) == SubSeq(name, i, Len(name))

NewName(name) ==
  IF \E i \in DOMAIN name : name[i] = <<>>               THEN "ErrZeroLengthLabel"
  ELSE IF \E i \in DOMAIN name : Len(name[i]) > MaxLabel THEN "ErrLabelTooLong"
  ELSE IF Len(Verbatim(name)) + 1 > MaxName              THEN "ErrNameTooLong"
  ELSE "ok"

Lower(c) == IF c \in 65..90 THEN c + 32 ELSE c
SameLabel(a, b) == Len(a) = Len(b) /\ \A i \in DOMAIN a : Lower(a[i]) = Lower(b[i])

(* TrimSuffix: whether name ends in suffix, and what comes before it.      *)
HasSuffix(name, suffix) ==
  LET split == Len(name) - Len(suffix) IN
  /\ Len(name) >= Len(suffix)
  /\ \A i \in DOMAIN suffix : SameLabel(name[split + i], suffix[i])
Fore(name, suffix) == SubSeq(name, 1, Len(name) - Len(suffix))

-----------------------------------------------------------------------------
(* messageBuilder: the octets written and where in them names begin.       *)
EmptyBuilder == [w |-> <<>>, cache |-> <<>>]

Write(b, octets) == [b EXCEPT !.w = @ \o octets]

WriteName(b, name) ==
  LET usable == {i \in DOMAIN name : /\ Suffix(name, i) \in DOMAIN b.cache
                                     /\ b.cache[Suffix(name, i)] < 16384}
      n == IF usable = {} THEN Len(name) ELSE (CHOOSE i \in usable : \A j \in usable : i <= j) - 1
      start(i) == Len(b.w) + Len(Verbatim(SubSeq(name, 1, i - 1)))
      new == {Suffix(name, i) : i \in 1..n}
  IN [w |-> b.w \o Verbatim(SubSeq(name, 1, n))
            \o IF usable = {} THEN <<0>> ELSE Two(49152 + b.cache[Suffix(name, n + 1)]),
      cache |-> [s \in DOMAIN b.cache \cup new |->
                   IF s \in new THEN start(Len(name) - Len(s) + 1) ELSE b.cache[s]]]

(* An entry is [name, type, data]; that of the question section has none.  *)
WriteQuestion(b, q) == Write(WriteName(b, q.name), Two(q.type) \o Two(0))
WriteRR(b, rr) ==
  Write(WriteName(b, rr.name), Two(rr.type) \o Zeros(6) \o Two(Len(rr.data)) \o rr.data)

(* A message is its question, answer and additional sections.              *)
WriteMessage(m) ==
  LET header == Zeros(4) \o Two(Len(m.question)) \o Two(Len(m.answer)) \o Two(0)
                \o Two(Len(m.additional))
      asked == FoldLeft(WriteQuestion, Write(EmptyBuilder, header), m.question)
  IN FoldLeft(WriteRR, asked, m.answer \o m.additional).w

-----------------------------------------------------------------------------
(* readMessage.                                                            *)
StartReading(octets) ==
  /\ buf = octets /\ pos = 0
  /\ labels = <<>> /\ pointers = 0 /\ seekTo = 0
  /\ left = <<"header">> /\ entries = <<>> /\ outcome = "reading"

Fail(error) ==
  /\ outcome' = error
  /\ UNCHANGED <<buf, pos, labels, pointers, seekTo, left, entries>>

Remaining == Len(buf) - pos

ReadHeader ==
  /\ outcome = "reading" /\ left # <<>> /\ Head(left) = "header"
  /\ IF Remaining < 12 THEN Fail("eof")
     ELSE /\ pos' = pos + 12
          /\ left' = [i \in 1..NumberAt(4) |-> "question"]
                     \o [i \in 1..(NumberAt(6) + NumberAt(8) + NumberAt(10)) |-> "rr"]
          /\ UNCHANGED <<buf, labels, pointers, seekTo, entries, outcome>>

InName == outcome = "reading" /\ left # <<>> /\ Head(left) # "header"

ReadLabel ==
  /\ InName /\ Remaining > 0 /\ buf[pos + 1] \in 1..MaxLabel
  /\ LET n == buf[pos + 1] IN
     IF Remaining < 1 + n THEN Fail("eof")
     ELSE /\ labels' = Append(labels, SubSeq(buf, pos + 2, pos + 1 + n))
          /\ pos' = pos + 1 + n
          /\ UNCHANGED <<buf, pointers, seekTo, left, entries, outcome>>

(* Fault: pointers are followed without a limit.                           *)
FollowAnyPointer ==
  /\ InName /\ Remaining > 1 /\ buf[pos + 1] >= 192
  /\ pointers' = 1
  /\ seekTo' = IF pointers = 0 THEN pos + 2 ELSE seekTo
  /\ pos' = NumberAt(pos) - 49152
  /\ UNCHANGED <<buf, labels, left, entries, outcome>>

FollowPointer ==
  /\ InName /\ Remaining > 0 /\ buf[pos + 1] >= 192
  /\ IF Remaining < 2 THEN Fail("eof")
     ELSE IF pointers = PointerLimit THEN Fail("ErrTooManyPointers")
     ELSE /\ pointers' = pointers + 1
          /\ seekTo' = IF pointers = 0 THEN pos + 2 ELSE seekTo
          /\ pos' = NumberAt(pos) - 49152
          /\ UNCHANGED <<buf, labels, left, entries, outcome>>

(* Fault: reading goes on behind the last part of the name.                *)
NoSeekBack == pos + 1

(* Where the name ends in the message, its terminating octet being read.   *)
AfterName == IF pointers > 0 THEN seekTo ELSE pos + 1

(* The end of the name, then the fixed fields and RDATA of the entry.      *)
ReadEntry ==
  /\ InName /\ Remaining > 0 /\ buf[pos + 1] = 0
  /\ LET fields == AfterName
         room == Len(buf) - fields
         question == Head(left) = "question"
         length == IF question \/ room < 10 THEN 0 ELSE NumberAt(fields + 8)
         size == IF question THEN 4 ELSE 10 + length
     IN CASE NewName(labels) # "ok" -> Fail(NewName(labels))
          [] NewName(labels) = "ok" /\ room < size -> Fail("eof")
          [] OTHER ->
               /\ entries' = Append(entries,
                    [name |-> labels, type |-> NumberAt(fields),
                     data |-> SubSeq(buf, fields + size - length + 1, fields + size)])
               /\ pos' = fields + size
               /\ left' = Tail(left)
               /\ labels' = <<>> /\ pointers' = 0 /\ seekTo' = 0
               /\ UNCHANGED <<buf, outcome>>

ReadReserved ==
  /\ InName /\ Remaining > 0 /\ buf[pos + 1] \in 64..191
  /\ Fail("ErrReservedLabelType")

ReadNothing ==
  /\ InName /\ pos >= Len(buf)
  /\ Fail("eof")

EndOfMessage ==
  /\ outcome = "reading" /\ left = <<>>
  /\ outcome' = IF Remaining > 0 THEN "ErrTrailingBytes" ELSE "done"
  /\ UNCHANGED <<buf, pos, labels, pointers, seekTo, left, entries>>

ReadNext ==
  \/ ReadHeader \/ ReadLabel \/ FollowPointer \/ ReadEntry
  \/ ReadReserved \/ ReadNothing \/ EndOfMessage
=============================================================================
