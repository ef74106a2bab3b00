------------------------------- MODULE Relay -------------------------------
(***************************************************************************)
(* One stream of a tunnel and the two connections at its ends: the app's,  *)
(* which handle or the mobile client's handleSOCKS relays, and that to the *)
(* upstream, which the server's handleStream relays.  At each side one     *)
(* goroutine, the reader, copies from the connection to the smux stream,   *)
(* and another one, the writer, from the stream to the connection.         *)
(*                                                                         *)
(* Data are counted.  A function at [s] is about what side s reads from    *)
(* its connection, on its way to the other side.  What either happens or   *)
(* does not is the set of the sides it has happened to.                    *)
(***************************************************************************)
EXTENDS Naturals

CONSTANTS
  Handlers,   (* "handle", "handleSOCKS": what may relay for the app       *)
  MaxData     (* bound: what each end sends                                *)

Sides == {"client", "server"}
Other(s) == IF s = "client" THEN "server" ELSE "client"

VARIABLES
  how,        (* the handler                                               *)
  sent,       (* by the app or the upstream                                *)
  shut,       (* it has ended its half of the connection                   *)
  gone,       (* it has reset the connection                               *)
  taken,      (* read from the connection and written to the stream        *)
  arrived,    (* at the other side's end of the stream                     *)
  out,        (* written to the other side's connection                    *)
  told,       (* the end of the data was passed on there: CloseWrite       *)
  closed,     (* the side has closed the stream                            *)
  fin,        (* the side knows that the other one has                     *)
  alive,      (* the side's smux session is                                *)
  reader, writer,  (* "on" or "done"                                       *)
  handler,    (* "starting", "on" or "ended"                               *)
  refused,    (* the stream did not take what was read (history)           *)
  failed      (* something has failed or was cancelled (history)           *)

ends == <<sent, shut, gone>>
stream == <<taken, arrived, out, told, closed, fin>>
local == <<reader, writer, handler, refused>>
vars == <<how, ends, stream, alive, local, failed>>

(* smux has opened and accepted the stream.                                *)
Init ==
  /\ how \in Handlers
  /\ sent = [s \in Sides |-> 0] /\ taken = sent /\ arrived = sent /\ out = sent
  /\ shut = {} /\ gone = {} /\ told = {} /\ closed = {} /\ fin = {} /\ refused = {}
  /\ alive = Sides
  /\ reader = [s \in Sides |-> "on"] /\ writer = reader
  /\ handler = [s \in Sides |-> "starting"]
  /\ failed = FALSE

Becomes(f, s, v) == [f EXCEPT ![s] = v]

-----------------------------------------------------------------------------
(* The app and the upstream, which the server connects to when it starts.  *)
Connected(s) == s = "client" \/ handler[s] # "starting"

Send(s) ==
  /\ Connected(s) /\ s \notin shut /\ s \notin gone /\ sent[s] < MaxData
  /\ sent' = Becomes(sent, s, sent[s] + 1)
  /\ UNCHANGED <<how, shut, gone, stream, alive, local, failed>>

Shut(s) ==
  /\ Connected(s) /\ s \notin shut /\ s \notin gone
  /\ shut' = shut \cup {s}
  /\ UNCHANGED <<how, sent, gone, stream, alive, local, failed>>

Abort(s) ==
  /\ Connected(s) /\ s \notin gone
  /\ gone' = gone \cup {s}
  /\ failed' = TRUE
  /\ UNCHANGED <<how, sent, shut, stream, alive, local>>

-----------------------------------------------------------------------------
(* smux, whose frames stay in order.  What arrives after the stream has    *)
(* been closed is dropped.                                                 *)
BothAlive == alive = Sides

Arrive(s) ==
  /\ BothAlive
  /\ arrived[s] < taken[s]
  /\ arrived' = Becomes(arrived, s, arrived[s] + 1)
  /\ UNCHANGED <<how, ends, taken, out, told, closed, fin, alive, local, failed>>

FinArrives(s) ==
  /\ BothAlive /\ s \notin fin
  /\ Other(s) \in closed /\ arrived[Other(s)] = taken[Other(s)]
  /\ fin' = fin \cup {s}
  /\ UNCHANGED <<how, ends, taken, arrived, out, told, closed, alive, local, failed>>

(* The tunnel is closed, or nothing was received for idleTimeout.          *)
SessionEnds(s) ==
  /\ s \in alive
  /\ alive' = alive \ {s}
  /\ failed' = TRUE
  /\ UNCHANGED <<how, ends, stream, local>>

-----------------------------------------------------------------------------
(* The handlers start: the server dials its upstream; handleSOCKS passes   *)
(* the SOCKS handshake on.                                                 *)
StartRelay(s) ==
  /\ handler[s] = "starting"
  /\ handler' = Becomes(handler, s, "on")
  /\ UNCHANGED <<how, ends, stream, alive, reader, writer, refused, failed>>

StartFails(s) ==
  /\ handler[s] = "starting"
  /\ s = "server" \/ how = "handleSOCKS"
  /\ handler' = Becomes(handler, s, "ended")
  /\ reader' = Becomes(reader, s, "done") /\ writer' = Becomes(writer, s, "done")
  /\ closed' = closed \cup {s}
  /\ gone' = gone \cup {s}
  /\ failed' = TRUE
  /\ UNCHANGED <<how, sent, shut, taken, arrived, out, told, fin, alive, refused>>

Reads(s) == handler[s] # "starting" /\ reader[s] = "on"
Writes(s) == handler[s] # "starting" /\ writer[s] = "on"

-----------------------------------------------------------------------------
(* The reader: io.Copy(stream, conn).                                      *)
Data(s) == s \notin gone /\ taken[s] < sent[s]

Copy(s) ==
  /\ Reads(s) /\ Data(s)
  /\ s \notin closed /\ s \notin fin /\ s \in alive
  /\ taken' = Becomes(taken, s, taken[s] + 1)
  /\ UNCHANGED <<how, ends, arrived, out, told, closed, fin, alive, local, failed>>

(* The end of the reader of handle and handleStream closes the stream,     *)
(* that of handleSOCKS does not.                                           *)
ReaderEnds(s) ==
  /\ reader' = Becomes(reader, s, "done")
  /\ closed' = IF s = "client" /\ how = "handleSOCKS" THEN closed ELSE closed \cup {s}

(* Fault: data not read yet are given up.                                  *)
EndOfReadEarly(s) ==
  /\ Reads(s)
  /\ s \in gone \/ s \in shut
  /\ ReaderEnds(s)
  /\ UNCHANGED <<how, ends, taken, arrived, out, told, fin, alive, writer, handler, refused, failed>>

EndOfRead(s) ==
  /\ Reads(s)
  /\ s \in gone \/ (s \in shut /\ taken[s] = sent[s])
  /\ ReaderEnds(s)
  /\ UNCHANGED <<how, ends, taken, arrived, out, told, fin, alive, writer, handler, refused, failed>>

(* A write to a stream that either side has closed fails.                  *)
Refuse(s) ==
  /\ Reads(s) /\ Data(s)
  /\ s \in closed \/ s \in fin \/ s \notin alive
  /\ refused' = refused \cup {s}
  /\ ReaderEnds(s)
  /\ UNCHANGED <<how, ends, taken, arrived, out, told, fin, alive, writer, handler, failed>>

-----------------------------------------------------------------------------
(* The writer: io.Copy(conn, stream).  A stream that was closed has lost   *)
(* what was not read from it.                                              *)
Buffered(s) == s \notin closed /\ out[Other(s)] < arrived[Other(s)]

Deliver(s) ==
  /\ Writes(s) /\ Buffered(s) /\ s \notin gone
  /\ out' = Becomes(out, Other(s), out[Other(s)] + 1)
  /\ UNCHANGED <<how, ends, taken, arrived, told, closed, fin, alive, local, failed>>

(* Fault: it does not end with its own side's stream.                      *)
EndOfWriteByFin(s) ==
  /\ Writes(s)
  /\ IF Buffered(s) THEN s \in gone ELSE s \in fin
  /\ writer' = Becomes(writer, s, "done")
  /\ told' = told \cup {s}
  /\ UNCHANGED <<how, ends, taken, arrived, out, closed, fin, alive, reader, handler, refused, failed>>

EndOfWrite(s) ==
  /\ Writes(s)
  /\ IF Buffered(s) THEN s \in gone ELSE s \in closed \/ s \in fin \/ s \notin alive
  /\ writer' = Becomes(writer, s, "done")
  /\ told' = told \cup {s}
  /\ UNCHANGED <<how, ends, taken, arrived, out, closed, fin, alive, reader, handler, refused, failed>>

-----------------------------------------------------------------------------
(* Both have ended: the stream and the connection are closed.              *)
HandlerEnds(s) ==
  /\ handler[s] = "on"
  /\ reader[s] = "done" /\ writer[s] = "done"
  /\ handler' = Becomes(handler, s, "ended")
  /\ closed' = closed \cup {s}
  /\ UNCHANGED <<how, ends, taken, arrived, out, told, fin, alive, reader, writer, refused, failed>>

(* The client is stopped: handleSOCKS leaves its goroutines behind, with a *)
(* connection that is closed.                                              *)
Cancel ==
  /\ how = "handleSOCKS" /\ handler["client"] = "on"
  /\ handler' = Becomes(handler, "client", "ended")
  /\ closed' = closed \cup {"client"}
  /\ gone' = gone \cup {"client"}
  /\ failed' = TRUE
  /\ UNCHANGED <<how, sent, shut, taken, arrived, out, told, fin, alive, reader, writer, refused>>

Goroutines(s) ==
  \/ StartRelay(s) \/ Copy(s) \/ EndOfRead(s) \/ Refuse(s)
  \/ Deliver(s) \/ EndOfWrite(s) \/ HandlerEnds(s)

Network(s) == Arrive(s) \/ FinArrives(s)

(* An end that is told of the other's end ends its half in turn.           *)
Follow(s) == s \in told /\ Shut(s)

(* A session that has ended answers no more.                               *)
Starve(s) == Other(s) \notin alive /\ SessionEnds(s)

Next ==
  \/ Cancel
  \/ \E s \in Sides :
       \/ Send(s) \/ Shut(s) \/ Abort(s) \/ SessionEnds(s)
       \/ Network(s) \/ StartFails(s) \/ Goroutines(s)

Spec == Init /\ [][Next]_vars

(* Goroutines are scheduled, frames arrive, and the ends are polite.       *)
Fairness ==
  \A s \in Sides :
    WF_vars(Goroutines(s)) /\ WF_vars(Network(s)) /\ WF_vars(Follow(s)) /\ WF_vars(Starve(s))

FairSpec == Spec /\ Fairness

-----------------------------------------------------------------------------
(* What one end has sent reaches the other before that is told of its end. *)
(* As long as nothing fails, a relay is cut short only by the other half:  *)
(* when the receiving end has itself ended its half, or sends what the     *)
(* other side no longer takes, for then its side closes the whole stream   *)
(* (client.go:315-340, main.go:211-236).                                   *)
CutShortOnlyByReply ==
  \A s \in Sides :
    s \in told /\ ~failed /\ s \notin shut /\ s \notin refused =>
      Other(s) \in shut /\ out[Other(s)] = sent[Other(s)]

(* Neither side is left with a goroutine that waits for an end that has    *)
(* been: once an end is over, both handlers return, provided that the      *)
(* other end follows.  For handleSOCKS that is so only if it is the        *)
(* upstream that ends: it does not pass on that the app has.               *)
RelayOver ==
  \/ "server" \in shut \/ "server" \in gone \/ alive # Sides
  \/ how = "handle" /\ ("client" \in shut \/ "client" \in gone)
RelaysReturn == RelayOver ~> \A s \in Sides : handler[s] = "ended"
=============================================================================
