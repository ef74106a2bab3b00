--------------------------- MODULE TLSPacketConn ---------------------------
(***************************************************************************)
(* DNS over TLS in dnstt-client: TLSPacketConn keeps one connection to the *)
(* resolver.  A goroutine runs recvLoop and sendLoop on it, waits for both *)
(* to end, and dials a new one; it gives up when that fails.               *)
(***************************************************************************)
EXTENDS Naturals

CONSTANTS
  Room,     (* capacity of the outgoing queue                              *)
  MaxDials  (* bound: connections                                          *)

VARIABLES
  queue,    (* the outgoing queue: how many messages are in it             *)
  conn,     (* "up"; "ended" by the resolver; "hit" by a message since;    *)
            (* "dead", that is reset; "none"                               *)
  sender,   (* sendLoop: "waiting", "writing", "ended"                     *)
  receiver, (* recvLoop: "reading", "ended"                                *)
  dials,    (* connections made                                            *)
  open      (* the QueuePacketConn is                                      *)

vars == <<queue, conn, sender, receiver, dials, open>>

(* NewTLSPacketConn has made the first connection.                         *)
Init ==
  /\ queue = 0 /\ conn = "up"
  /\ sender = "waiting" /\ receiver = "reading"
  /\ dials = 1 /\ open = TRUE

(* WriteTo: once closed it returns an error; a full queue drops.           *)
Write ==
  /\ queue' = IF open /\ queue < Room THEN queue + 1 ELSE queue
  /\ UNCHANGED <<conn, sender, receiver, dials, open>>

(* recvLoop passes a message on.                                           *)
Receive ==
  /\ receiver = "reading" /\ conn = "up"
  /\ UNCHANGED vars

(* The resolver closes the connection, or it is reset.                     *)
End ==
  /\ conn = "up"
  /\ conn' \in {"ended", "dead"}
  /\ UNCHANGED <<queue, sender, receiver, dials, open>>

Reset ==
  /\ conn = "hit"
  /\ conn' = "dead"
  /\ UNCHANGED <<queue, sender, receiver, dials, open>>

StopReading ==
  /\ receiver = "reading" /\ conn # "up"
  /\ receiver' = "ended"
  /\ UNCHANGED <<queue, conn, sender, dials, open>>

Take ==
  /\ sender = "waiting" /\ queue > 0
  /\ sender' = "writing"
  /\ queue' = queue - 1
  /\ UNCHANGED <<conn, receiver, dials, open>>


(* What is written after the end of the connection is lost.  The kernel    *)
(* takes it all the same until a reset answers it; then a write fails.     *)
WriteMessage ==
  /\ sender = "writing"
  /\ sender' = IF conn = "dead" THEN "ended" ELSE "waiting"
  /\ conn' = IF conn = "ended" THEN "hit" ELSE conn
  /\ UNCHANGED <<queue, receiver, dials, open>>

BothEnded == sender = "ended" /\ receiver = "ended"

Dial ==
  /\ conn # "none" /\ BothEnded
  /\ \/ /\ dials < MaxDials
        /\ dials' = dials + 1
        /\ conn' = "up"
        /\ sender' = "waiting" /\ receiver' = "reading"
        /\ UNCHANGED open
     \/ /\ conn' = "none"
        /\ open' = FALSE
        /\ UNCHANGED <<sender, receiver, dials>>
  /\ UNCHANGED queue

Loops == StopReading \/ Take \/ WriteMessage \/ Dial

Next == Write \/ Receive \/ End \/ Reset \/ Loops

Broken == conn \in {"ended", "hit", "dead"}
=============================================================================
