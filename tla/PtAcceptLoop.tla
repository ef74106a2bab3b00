---------------------------- MODULE PtAcceptLoop ----------------------------
(***************************************************************************)
(* dnstt-client as a pluggable transport: acceptLoop hands every SOCKS     *)
(* connection to a goroutine, which finds or creates the tunnel pool of    *)
(* its configuration under poolsMu and relays over one of its tunnels.     *)
(* Start closes the listener and waits for the goroutines on a signal;     *)
(* acceptLoop then closes the pools.                                       *)
(***************************************************************************)
EXTENDS Naturals, FiniteSets

CONSTANTS
  Conns,       (* SOCKS connections handled at a time                      *)
  Keys,        (* configurations: resolver, public key and domain          *)
  NumTunnels   (* numTunnels                                               *)

VARIABLES
  silent,      (* configurations whose server never answers                *)
  main,        (* Start: "running", "closed" (its listener), "waiting" (it *)
               (* has closed shutdown) or "done"                           *)
  loop,        (* acceptLoop: "accepting", "broken" or "gone", or the      *)
               (* connection that AcceptSocks has returned                 *)
  mu,          (* the connections that hold poolsMu while they create      *)
  exists,      (* the keys of tunnelPools                                  *)
  tunnels,     (* the number of open tunnels in each pool                  *)
  tried,       (* the calls of createTunnel the holder of mu has made      *)
  pc,          (* "none", "accepted", "parsing", "wanting", "creating",    *)
               (* "checking" or "relaying"                                 *)
  key          (* the configuration of each connection                     *)

poolVars == <<mu, exists, tunnels, tried>>
vars == <<silent, main, loop, poolVars, pc, key>>

Init ==
  /\ silent \in SUBSET Keys
  /\ main = "running"
  /\ loop = "accepting"
  /\ mu = {}
  /\ exists = {}
  /\ tunnels = [k \in Keys |-> 0]
  /\ tried = 0
  /\ pc = [c \in Conns |-> "none"]
  /\ key \in [Conns -> Keys]

GoTo(c, place) == pc' = [pc EXCEPT ![c] = place]

-----------------------------------------------------------------------------
(* acceptLoop                                                              *)
AcceptSocks(c) ==
  /\ loop = "accepting" /\ main = "running"
  /\ pc[c] = "none"
  /\ loop' = c
  /\ GoTo(c, "accepted")
  /\ \E k \in Keys : key' = [key EXCEPT ![c] = k]
  /\ UNCHANGED <<silent, main, poolVars>>

(* wg.Add(1) and the go statement.                                         *)
Serve(c) ==
  /\ loop = c
  /\ loop' = "accepting"
  /\ GoTo(c, "parsing")
  /\ UNCHANGED <<silent, main, poolVars, key>>

(* Fault: every error is taken for a temporary one.                        *)
AcceptRetries ==
  /\ loop = "accepting" /\ main # "running"
  /\ UNCHANGED vars

AcceptFails ==
  /\ loop = "accepting" /\ main # "running"
  /\ loop' = "broken"
  /\ UNCHANGED <<silent, main, poolVars, pc, key>>

(* The pools stay in the map without their tunnels.                        *)
CloseAll ==
  /\ loop = "broken"
  /\ mu = {}
  /\ tunnels' = [k \in Keys |-> 0]
  /\ loop' = "gone"
  /\ UNCHANGED <<silent, main, mu, exists, tried, pc, key>>

-----------------------------------------------------------------------------
(* The goroutine of a connection.                                          *)
End(c) == GoTo(c, "none")

(* An argument that is missing or bad is a reason to reject it.            *)
ParseArguments(c) ==
  /\ pc[c] = "parsing"
  /\ End(c) \/ GoTo(c, "wanting")
  /\ UNCHANGED <<silent, main, loop, poolVars, key>>

FindPool(c) ==
  /\ pc[c] = "wanting"
  /\ mu = {}
  /\ key[c] \in exists
  /\ GoTo(c, "checking")
  /\ UNCHANGED <<silent, main, loop, poolVars, key>>

(* Fault: the lock protects the map alone.                                 *)
AddPoolUnlocked(c) ==
  /\ pc[c] = "wanting"
  /\ mu = {}
  /\ key[c] \notin exists
  /\ exists' = exists \cup {key[c]}
  /\ tried' = 0
  /\ GoTo(c, "creating")
  /\ UNCHANGED <<silent, main, loop, mu, tunnels, key>>

AddPool(c) ==
  /\ pc[c] = "wanting"
  /\ mu = {}
  /\ key[c] \notin exists
  /\ mu' = {c}
  /\ exists' = exists \cup {key[c]}
  /\ tried' = 0
  /\ GoTo(c, "creating")
  /\ UNCHANGED <<silent, main, loop, tunnels, key>>

(* createTunnel waits for a handshake reply without a deadline, so it      *)
(* never returns if the server is silent.                                  *)
CreateTunnel(c) ==
  /\ pc[c] = "creating" /\ tried < NumTunnels
  /\ key[c] \notin silent
  /\ tried' = tried + 1
  /\ tunnels' \in {tunnels, [tunnels EXCEPT ![key[c]] = @ + 1]}
  /\ UNCHANGED <<silent, main, loop, mu, exists, pc, key>>

(* Fault: the lock is not released when there is no tunnel.                *)
UnlockIfAny(c) ==
  /\ pc[c] = "creating" /\ tried = NumTunnels
  /\ mu' = IF tunnels[key[c]] > 0 THEN {} ELSE mu
  /\ GoTo(c, "checking")
  /\ UNCHANGED <<silent, main, loop, exists, tunnels, tried, key>>

Unlock(c) ==
  /\ pc[c] = "creating" /\ tried = NumTunnels
  /\ mu' = {}
  /\ GoTo(c, "checking")
  /\ UNCHANGED <<silent, main, loop, exists, tunnels, tried, key>>

Reject(c) ==
  /\ pc[c] = "checking" /\ tunnels[key[c]] = 0
  /\ End(c)
  /\ UNCHANGED <<silent, main, loop, poolVars, key>>

Grant(c) ==
  /\ pc[c] = "checking" /\ tunnels[key[c]] > 0
  /\ GoTo(c, "relaying")
  /\ UNCHANGED <<silent, main, loop, poolVars, key>>

(* The stream ends, or shutdown is closed.                                 *)
RelayEnds(c) ==
  /\ pc[c] = "relaying"
  /\ End(c)
  /\ UNCHANGED <<silent, main, loop, poolVars, key>>

Goroutine(c) ==
  \/ Serve(c) \/ ParseArguments(c) \/ FindPool(c) \/ AddPool(c)
  \/ CreateTunnel(c) \/ Unlock(c) \/ Reject(c) \/ Grant(c)

-----------------------------------------------------------------------------
(* Start                                                                   *)
Signal ==
  /\ main = "running"
  /\ main' = "closed"
  /\ UNCHANGED <<silent, loop, poolVars, pc, key>>

CloseShutdown ==
  /\ main = "closed"
  /\ main' = "waiting"
  /\ UNCHANGED <<silent, loop, poolVars, pc, key>>

(* wg.Wait counts the goroutines, not the connection still in acceptLoop.  *)
Done ==
  /\ main = "waiting"
  /\ \A c \in Conns : pc[c] \in {"none", "accepted"}
  /\ main' = "done"
  /\ UNCHANGED <<silent, loop, poolVars, pc, key>>

Next ==
  \/ \E c \in Conns : AcceptSocks(c) \/ Goroutine(c) \/ RelayEnds(c)
  \/ AcceptFails \/ CloseAll \/ Signal \/ CloseShutdown \/ Done

Spec == Init /\ [][Next]_vars

(* Goroutines are scheduled and, once shutdown is closed, stop relaying.   *)
FairSpec ==
  /\ Spec
  /\ \A c \in Conns : WF_vars(Goroutine(c)) /\ WF_vars(main = "waiting" /\ RelayEnds(c))
  /\ WF_vars(AcceptFails) /\ WF_vars(CloseAll)
  /\ WF_vars(CloseShutdown) /\ WF_vars(Done)

-----------------------------------------------------------------------------
(* However many connections ask for a configuration at once, one of them   *)
(* makes its pool, and nobody judges a pool before all of its tunnels have *)
(* been tried: a connection is not rejected for want of tunnels that       *)
(* another one is still creating (client.go:449-473).                      *)
PoolsSeenWhole ==
  \A c, d \in Conns :
    pc[c] = "creating" /\ pc[d] \in {"creating", "checking"} /\ key[c] = key[d] => c = d

(* Unless a server is silent, every connection is answered, even while     *)
(* others hold the lock for as long as their tunnels take.                 *)
ConnectionsAnswered ==
  \A c \in Conns : (pc[c] = "wanting" /\ silent = {}) ~> pc[c] \in {"none", "relaying"}

(* Unless a server is silent, a signal ends the program, whatever the      *)
(* connections are doing, and acceptLoop gets to its cleanup.              *)
ShutdownCompletes ==
  (main = "closed" /\ silent = {}) ~> (main = "done" /\ loop = "gone")
=============================================================================
