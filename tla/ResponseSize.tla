---------------------------- MODULE ResponseSize ----------------------------
(***************************************************************************)
(* computeMaxEncodedPayload in dnstt-server/main.go: by bisection, how     *)
(* much downstream data sendLoop may put into one response so that no      *)
(* response exceeds the limit, whatever the name it answers.               *)
(***************************************************************************)
EXTENDS TxtData

VARIABLES
  limit,   (* the parameter: maxUDPPayload                                 *)
  low,     (* the most that is known to fit                                *)
  high     (* the least that is known not to                               *)

vars == <<limit, low, high>>

Init ==
  /\ limit \in Limits
  /\ low = 0
  /\ high = Top

Middle == (low + high) \div 2

(* Fault: the comparison of the sizes is strict.                           *)
FitsWithRoom(n) == FilledSize(n) < limit

Fits(n) == FilledSize(n) <= limit

Raise ==
  /\ low + 1 < high /\ Fits(Middle)
  /\ low' = Middle
  /\ UNCHANGED <<limit, high>>

Lower ==
  /\ low + 1 < high /\ ~Fits(Middle)
  /\ high' = Middle
  /\ UNCHANGED <<limit, low>>

Next == Raise \/ Lower

Spec == Init /\ [][Next]_vars /\ WF_vars(Next)

-----------------------------------------------------------------------------
TypeOK ==
  /\ limit \in Limits
  /\ low \in Nat /\ high \in Nat /\ low < high /\ high <= Top

(* The payload size that is returned is the largest that fits: every       *)
(* smaller one fits, too, and no larger one below the search's upper end   *)
(* does, although the size grows in steps (main.go:780-794).  A limit for  *)
(* which nothing fits gives 0.                                             *)
LargestFits ==
  low + 1 = high =>
    \A n \in 1..(Top - 1) : FilledSize(n) <= limit <=> n <= low
=============================================================================
