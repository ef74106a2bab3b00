------------------------------ MODULE Session ------------------------------
(***************************************************************************)
(* One tunnel, from createTunnel to its end, at the client and, as a KCP   *)
(* session that acceptSessions and acceptStreams serve, at the server.     *)
(* Over KCP both sides make a Noise handshake, one message each way, and   *)
(* start a goroutine, the reader, which decrypts what arrives and hands it *)
(* over to smux.  KCP is reliable as long as the peers exist and tells     *)
(* neither of the other's end: the server learns of that by smux's keep-   *)
(* alive timeout, if it has got as far as smux.                            *)
(*                                                                         *)
(* Below KCP the client has a transport, a UDP socket or a conn to a DoH   *)
(* or DoT resolver with the loops that serve it, and on it a DNSPacketConn *)
(* with its queues.  pconn.Close() is QueuePacketConn.Close: it closes the *)
(* queues and leaves the transport and its loops.                          *)
(***************************************************************************)
EXTENDS Naturals

Sides == {"client", "server"}

VARIABLES
  tunnel,     (* "none"; "transport", "kcp", "hello", "reply", "noise",    *)
              (* steps of createTunnel; "up", "closed", "failed"; "lost",  *)
              (* the client's process has ended                            *)
  transport,  (* the client's, with its loops: "none" or "open"            *)
  pconn,      (* the queues on it: "none", "open" or "closed"              *)
  kcp,        (* each side's KCP session, likewise                         *)
  hello,      (* of the client's handshake message nothing has been sent   *)
              (* (0), the length (1), all (2)                              *)
  got,        (* how much of it is at the server                           *)
  reply,      (* "none", "sent", "arrived"                                 *)
  server,     (* the goroutine: "none", "handshake", "serving", "ended"    *)
  smux,       (* each side's session: "none"; "up"; "full", its receive    *)
              (* buffer has no room and it waits; "ended", and still       *)
              (* reading; "stopped", ended and not reading                 *)
  reader      (* "none", "reading", "holding" a message or "ended"         *)

clientVars == <<tunnel, transport, pconn>>
helloVars == <<hello, got, reply>>
vars == <<clientVars, kcp, helloVars, server, smux, reader>>

Init ==
  /\ tunnel = "none" /\ transport = "none" /\ pconn = "none"
  /\ kcp = [s \in Sides |-> "none"]
  /\ hello = 0 /\ got = 0 /\ reply = "none"
  /\ server = "none"
  /\ smux = [s \in Sides |-> "none"]
  /\ reader = [s \in Sides |-> "none"]

Becomes(f, s, v) == [f EXCEPT ![s] = v]
Shut(f, s) == IF f[s] = "none" THEN f ELSE [f EXCEPT ![s] = "closed"]
Active(s) == smux[s] \in {"up", "full"}

(* smux goes on reading after its end, until it gets an error, except that *)
(* it stops if it is waiting for room.                                     *)
EndOfSmux(s) == Becomes(smux, s, IF smux[s] = "full" THEN "stopped" ELSE "ended")

-----------------------------------------------------------------------------
(* createTunnel.  A failure closes what has been opened on the transport.  *)
Fail ==
  /\ tunnel' = "failed"
  /\ pconn' = IF pconn = "none" THEN pconn ELSE "closed"
  /\ kcp' = Shut(kcp, "client")
  /\ UNCHANGED <<transport, helloVars, server, smux, reader>>

(* The transport, the KCP conn, its MTU or, after the handshake, zstd or   *)
(* smux are refused; or the reply is not from the owner of the key.        *)
CreateFails ==
  /\ tunnel \in {"none", "transport", "kcp", "noise"} \/ (tunnel = "reply" /\ reply = "arrived")
  /\ Fail

OpenTransport ==
  /\ tunnel = "none"
  /\ tunnel' = "transport" /\ transport' = "open" /\ pconn' = "open"
  /\ UNCHANGED <<kcp, helloVars, server, smux, reader>>

OpenKcp ==
  /\ tunnel = "transport"
  /\ tunnel' = "kcp" /\ kcp' = Becomes(kcp, "client", "open")
  /\ UNCHANGED <<transport, pconn, helloVars, server, smux, reader>>

SetMtu ==
  /\ tunnel = "kcp"
  /\ tunnel' = "hello"
  /\ UNCHANGED <<transport, pconn, kcp, helloVars, server, smux, reader>>

(* writeMessage writes the length and then the message.                    *)
SendHello ==
  /\ tunnel = "hello"
  /\ hello' = hello + 1
  /\ tunnel' = IF hello' = 2 THEN "reply" ELSE "hello"
  /\ UNCHANGED <<transport, pconn, kcp, got, reply, server, smux, reader>>

ReadReply ==
  /\ tunnel = "reply" /\ reply = "arrived"
  /\ tunnel' = "noise"
  /\ reader' = Becomes(reader, "client", "reading")
  /\ UNCHANGED <<transport, pconn, kcp, helloVars, server, smux>>

StartSmux ==
  /\ tunnel = "noise"
  /\ tunnel' = "up"
  /\ smux' = Becomes(smux, "client", "up")
  /\ UNCHANGED <<transport, pconn, kcp, helloVars, server, reader>>

(* Tunnel.Close                                                            *)
Close ==
  /\ tunnel = "up"
  /\ tunnel' = "closed" /\ pconn' = "closed"
  /\ kcp' = Shut(kcp, "client")
  /\ smux' = EndOfSmux("client")
  /\ UNCHANGED <<transport, helloVars, server, reader>>

(* To the server, a client that is out of reach for good is the same.      *)
Lose ==
  /\ tunnel \in {"hello", "reply", "noise", "up"}
  /\ tunnel' = "lost" /\ transport' = "none" /\ pconn' = "closed"
  /\ kcp' = Shut(kcp, "client")
  /\ smux' = Becomes(smux, "client", "stopped")
  /\ reader' = Becomes(reader, "client", "ended")
  /\ UNCHANGED <<helloVars, server>>

-----------------------------------------------------------------------------
(* KCP.  The server's KCP session begins with the first packet of it.      *)
Here == kcp["client"] = "open"

HelloArrives ==
  /\ Here /\ got < hello
  /\ kcp["server"] # "closed"
  /\ got' \in (got + 1)..hello
  /\ UNCHANGED <<clientVars, kcp, hello, reply, server, smux, reader>>

ReplyArrives ==
  /\ Here /\ reply = "sent"
  /\ kcp["server"] = "open"
  /\ reply' = "arrived"
  /\ UNCHANGED <<clientVars, kcp, hello, got, server, smux, reader>>

-----------------------------------------------------------------------------
(* acceptSessions and acceptStreams                                        *)
AcceptSession ==
  /\ server = "none" /\ got > 0
  /\ server' = "handshake"
  /\ kcp' = Becomes(kcp, "server", "open")
  /\ UNCHANGED <<clientVars, helloVars, smux, reader>>

Serve ==
  /\ server = "handshake" /\ got = 2
  /\ server' = "serving"
  /\ reply' = "sent"
  /\ reader' = Becomes(reader, "server", "reading")
  /\ smux' = Becomes(smux, "server", "up")
  /\ UNCHANGED <<clientVars, kcp, hello, got>>

(* The message is not for the server's key.                                *)
Refuse ==
  /\ server = "handshake" /\ got = 2
  /\ server' = "ended"
  /\ kcp' = Shut(kcp, "server")
  /\ UNCHANGED <<clientVars, helloVars, smux, reader>>

(* Fault: smux is closed, and nothing below it.                            *)
EndSessionKeepsKcp ==
  /\ server = "serving" /\ smux["server"] = "up"
  /\ ~Here
  /\ server' = "ended"
  /\ smux' = EndOfSmux("server")
  /\ UNCHANGED <<clientVars, kcp, helloVars, reader>>

(* Nothing was received for idleTimeout, though there was room: smux ends  *)
(* and AcceptStream fails.                                                 *)
EndSession ==
  /\ server = "serving" /\ smux["server"] = "up"
  /\ ~Here
  /\ server' = "ended"
  /\ smux' = EndOfSmux("server")
  /\ kcp' = Shut(kcp, "server")
  /\ UNCHANGED <<clientVars, helloVars, reader>>

-----------------------------------------------------------------------------
(* The readers.  smux sends nothing before it opens a stream or has been   *)
(* idle for 10 s, and by then both sides have it, or have failed.          *)
ReadMessage(s) ==
  /\ reader[s] = "reading"
  /\ kcp[s] = "open" /\ \A t \in Sides : Active(t)
  /\ reader' = Becomes(reader, s, "holding")
  /\ UNCHANGED <<clientVars, kcp, helloVars, server, smux>>

(* Into the pipe, which waits for smux; the message may take the last room.*)
HandOver(s) ==
  /\ reader[s] = "holding" /\ smux[s] \in {"up", "ended"}
  /\ reader' = Becomes(reader, s, "reading")
  /\ UNCHANGED smux \/ (smux[s] = "up" /\ smux' = Becomes(smux, s, "full"))
  /\ UNCHANGED <<clientVars, kcp, helloVars, server>>

(* The streams are read.                                                   *)
Drain(s) ==
  /\ smux[s] = "full"
  /\ smux' = Becomes(smux, s, "up")
  /\ UNCHANGED <<clientVars, kcp, helloVars, server, reader>>

ReadFails(s) ==
  /\ reader[s] = "reading" /\ kcp[s] = "closed"
  /\ reader' = Becomes(reader, s, "ended")
  /\ UNCHANGED <<clientVars, kcp, helloVars, server, smux>>

Create ==
  \/ OpenTransport \/ OpenKcp \/ SetMtu \/ SendHello \/ ReadReply \/ StartSmux \/ CreateFails
Session == AcceptSession \/ Serve \/ Refuse \/ EndSession
Read(s) == HandOver(s) \/ ReadFails(s)

Next ==
  \/ Create \/ Close \/ Lose
  \/ HelloArrives \/ ReplyArrives
  \/ Session
  \/ \E s \in Sides : ReadMessage(s) \/ Read(s) \/ Drain(s)

Spec == Init /\ [][Next]_vars

(* Goroutines are scheduled; keep-alive timeouts expire; the targets of    *)
(* the server's streams take what they are sent.                           *)
Fairness ==
  WF_vars(Session) /\ WF_vars(Drain("server")) /\ \A s \in Sides : WF_vars(Read(s))

FairSpec == Spec /\ Fairness

-----------------------------------------------------------------------------
Over == tunnel \in {"closed", "failed", "lost"}

(* smux ended while its buffer was full and the reader had a message in    *)
(* hand: nobody will take it from the pipe (noise.go:88).                  *)
Stuck(s) == reader[s] = "holding" /\ smux[s] = "stopped"

(* The server has no deadline for the client's handshake message, of which *)
(* only a part arrived.                                                    *)
HalfGreeted == server = "handshake" /\ got < 2

(* What there is of a tunnel above its transport, except for these two,    *)
(* which stay for good.                                                    *)
Left ==
  \/ pconn = "open" \/ kcp["client"] = "open"
  \/ kcp["server"] = "open" /\ ~HalfGreeted
  \/ server = "serving"
  \/ \E s \in Sides : Active(s) \/ (reader[s] \in {"reading", "holding"} /\ ~Stuck(s))

(* Whatever step of createTunnel fails, and whenever a tunnel is closed or *)
(* its client lost, in the end nothing of it is left at either side above  *)
(* the transport, and nothing of it begins any more (client.go:219-296,    *)
(* main.go:243-334, noise.go:71-92).  The transport is not closed at all.  *)
NothingIsLeft == Over ~> []~Left
=============================================================================
