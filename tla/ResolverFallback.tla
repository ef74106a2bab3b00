-------------------------- MODULE ResolverFallback --------------------------
(***************************************************************************)
(* dnstt-client: StartWithResolverFallback keeps one tunnel pool, the      *)
(* current one, and moves on to another resolver when handleWithFailover   *)
(* runs into trouble.  Every local connection is a goroutine that takes a  *)
(* snapshot of the current pool; every failure starts a goroutine of       *)
(* tryReconnect, of which the flag reconnecting lets one through.          *)
(*                                                                         *)
(* A pool has one tunnel here.  Its smux session works, then may stall,    *)
(* because its resolver no longer answers, and is then ended by smux's     *)
(* keepalive.  resolverIndex is not synchronised: ++ in a handler is a     *)
(* load and a store.  It is only ever compared with the number of          *)
(* resolvers, where it saturates.                                          *)
(***************************************************************************)
EXTENDS Naturals

CONSTANTS
  Handlers,    (* local connections handled at a time                      *)
  Pools,       (* TunnelPool pointers                                      *)
  NumResolvers,(* len(config.Resolvers)                                    *)
  MaxPending,  (* bound: goroutines of tryReconnect not yet begun          *)
  None

Resolvers == 0..(NumResolvers - 1)

ASSUME NoneAssumption == None \notin Pools \cup Resolvers
ASSUME ResolversAssumption == NumResolvers \in Nat \ {0}
ASSUME PendingAssumption == MaxPending \in Nat \ {0}

VARIABLES
  reachable,   (* resolvers through which a tunnel can be created          *)
  silent,      (* resolvers that never answer: creating a tunnel through   *)
               (* one waits for its Noise handshake without a deadline     *)
  current,     (* currentPool                                              *)
  open,        (* pools that have not been closed                          *)
  session,     (* the smux session of each pool: "up", "stalled", "ended"  *)
  index,       (* resolverIndex                                            *)
  pc,          (* "idle", "checking", "opening", "failing" or "streaming"  *)
  pool,        (* the pool each handler uses                               *)
  loaded,      (* resolverIndex as a failing handler has loaded it         *)
  pending,     (* goroutines of tryReconnect not yet begun                 *)
  phase,       (* the one that reconnects: "none", "closing", "first" or   *)
               (* "again"                                                  *)
  trying,      (* the resolver through which it is connecting, or None     *)
  life         (* "running"; "stopping", shutdown is closed; "closed", the *)
               (* pool as well, and the process is about to end            *)

poolVars == <<current, open, session>>
handlerVars == <<pc, pool, loaded>>
reconnectVars == <<phase, trying, life>>
network == <<reachable, silent>>
vars == <<network, poolVars, index, handlerVars, pending, reconnectVars>>

Fresh(p) == p \notin open /\ p # current /\ \A h \in Handlers : pool[h] # p

Init ==
  /\ reachable \in SUBSET Resolvers
  /\ silent \in SUBSET (Resolvers \ reachable)
  /\ index \in reachable
  /\ \A r \in reachable \cup silent : index <= r
  /\ current \in Pools
  /\ open = {current}
  /\ session = [p \in Pools |-> IF p = current THEN "up" ELSE "ended"]
  /\ pc = [h \in Handlers |-> "idle"]
  /\ pool = [h \in Handlers |-> None]
  /\ loaded = [h \in Handlers |-> 0]
  /\ pending = 0
  /\ phase = "none" /\ trying = None
  /\ life = "running"

-----------------------------------------------------------------------------
(* smux, kcp and the network.                                              *)
Stall(p) ==
  /\ p \in open /\ session[p] = "up"
  /\ session' = [session EXCEPT ![p] = "stalled"]
  /\ UNCHANGED <<network, current, open, index, handlerVars, pending, reconnectVars>>

End(p) ==
  /\ p \in open /\ session[p] = "stalled"
  /\ session' = [session EXCEPT ![p] = "ended"]
  /\ UNCHANGED <<network, current, open, index, handlerVars, pending, reconnectVars>>

-----------------------------------------------------------------------------
(* handleWithFailover.                                                     *)
GoTo(h, place) == pc' = [pc EXCEPT ![h] = place]

Finish(h) ==
  /\ GoTo(h, "idle")
  /\ pool' = [pool EXCEPT ![h] = None]

(* go tryReconnect()                                                       *)
Spawn ==
  /\ pending < MaxPending
  /\ pending' = pending + 1

(* A connection accepted before the shutdown may take its snapshot later.  *)
Accept(h) ==
  /\ pc[h] = "idle"
  /\ GoTo(h, "checking")
  /\ pool' = [pool EXCEPT ![h] = current]
  /\ UNCHANGED <<network, poolVars, index, loaded, pending, reconnectVars>>

(* pool is nil, or has been closed and is empty.                           *)
NoTunnel(h) ==
  /\ pc[h] = "checking"
  /\ pool[h] \notin open
  /\ Spawn
  /\ Finish(h)
  /\ UNCHANGED <<network, poolVars, index, loaded, reconnectVars>>

GetTunnel(h) ==
  /\ pc[h] = "checking"
  /\ pool[h] \in open
  /\ GoTo(h, "opening")
  /\ UNCHANGED <<network, poolVars, index, pool, loaded, pending, reconnectVars>>

Closed(h) == pool[h] \notin open \/ session[pool[h]] = "ended"

OpenStream(h) ==
  /\ pc[h] = "opening"
  /\ ~Closed(h)
  /\ GoTo(h, "streaming")
  /\ UNCHANGED <<network, poolVars, index, pool, loaded, pending, reconnectVars>>

(* A timeout: one of the error texts that are looked for.                  *)
OpenTimesOut(h) ==
  /\ pc[h] = "opening"
  /\ ~Closed(h) /\ session[pool[h]] = "stalled"
  /\ GoTo(h, "failing")
  /\ loaded' = [loaded EXCEPT ![h] = index]
  /\ UNCHANGED <<network, poolVars, index, pool, pending, reconnectVars>>

(* io.ErrClosedPipe: none of those texts.                                  *)
OpenClosed(h) ==
  /\ pc[h] = "opening"
  /\ Closed(h)
  /\ Finish(h)
  /\ UNCHANGED <<network, poolVars, index, loaded, pending, reconnectVars>>

(* handle's error is that of OpenStream only.                              *)
StreamEnds(h) ==
  /\ pc[h] = "streaming"
  /\ Finish(h)
  /\ UNCHANGED <<network, poolVars, index, loaded, pending, reconnectVars>>

Next1(n) == IF n < NumResolvers THEN n + 1 ELSE n

FailOver(h) ==
  /\ pc[h] = "failing"
  /\ index' = Next1(loaded[h])
  /\ loaded' = [loaded EXCEPT ![h] = 0]
  /\ Spawn
  /\ Finish(h)
  /\ UNCHANGED <<network, poolVars, reconnectVars>>

-----------------------------------------------------------------------------
(* tryReconnect.                                                           *)

BeginReconnect ==
  /\ pending > 0
  /\ pending' = pending - 1
  /\ phase' = IF phase = "none" THEN "closing" ELSE phase
  /\ UNCHANGED <<network, poolVars, index, handlerVars, trying, life>>

(* Fault: the old pool is dropped without being closed.                    *)
DropCurrent ==
  /\ phase = "closing"
  /\ current' = None
  /\ phase' = "first"
  /\ UNCHANGED <<network, open, session, index, handlerVars, pending, trying, life>>

(* TunnelPool.Close                                                        *)
ClosePool ==
  /\ open' = open \ {current}
  /\ session' = [p \in Pools |-> IF p = current THEN "ended" ELSE session[p]]

CloseCurrent ==
  /\ phase = "closing"
  /\ ClosePool
  /\ current' = None
  /\ phase' = "first"
  /\ UNCHANGED <<network, index, handlerVars, pending, trying, life>>

Retrying == phase \in {"first", "again"} /\ trying = None

StopTrying ==
  /\ Retrying /\ index \in Resolvers
  /\ life # "running"
  /\ phase' = "none"
  /\ UNCHANGED <<network, poolVars, index, handlerVars, pending, trying, life>>

TryResolver ==
  /\ Retrying /\ index \in Resolvers
  /\ life = "running"
  /\ trying' = index
  /\ UNCHANGED <<network, poolVars, index, handlerVars, pending, phase, life>>

(* The new pool becomes the current one, also after a shutdown.            *)
Connect ==
  /\ phase \in {"first", "again"} /\ trying \in reachable
  /\ \E p \in Pools :
       /\ Fresh(p)
       /\ current' = p
       /\ open' = open \cup {p}
       /\ session' = [session EXCEPT ![p] = "up"]
  /\ phase' = "none" /\ trying' = None
  /\ UNCHANGED <<network, index, handlerVars, pending, life>>

(* A bad address, MTU or handshake reply: not silence.                     *)
ConnectFails ==
  /\ phase \in {"first", "again"} /\ trying \in Resolvers \ (reachable \cup silent)
  /\ index' = Next1(index)
  /\ trying' = None
  /\ UNCHANGED <<network, poolVars, handlerVars, pending, phase, life>>

(* Fault: the index is not reset.                                          *)
RestartAtEnd ==
  /\ Retrying /\ phase = "first" /\ index = NumResolvers
  /\ phase' = "again"
  /\ UNCHANGED <<network, poolVars, index, handlerVars, pending, trying, life>>

Restart ==
  /\ Retrying /\ phase = "first" /\ index = NumResolvers
  /\ index' = 0
  /\ phase' = "again"
  /\ UNCHANGED <<network, poolVars, handlerVars, pending, trying, life>>

GiveUp ==
  /\ Retrying /\ phase = "again" /\ index = NumResolvers
  /\ phase' = "none"
  /\ UNCHANGED <<network, poolVars, index, handlerVars, pending, trying, life>>

Reconnect ==
  \/ CloseCurrent \/ StopTrying \/ TryResolver \/ Connect \/ ConnectFails
  \/ Restart \/ GiveUp

-----------------------------------------------------------------------------
(* SIGTERM closes shutdown; main then closes the pool and returns, while   *)
(* the other goroutines run on until the process ends.                     *)
Shutdown ==
  /\ life = "running"
  /\ life' = "stopping"
  /\ UNCHANGED <<network, poolVars, index, handlerVars, pending, phase, trying>>

Leave ==
  /\ life = "stopping"
  /\ ClosePool
  /\ life' = "closed"
  /\ UNCHANGED <<network, current, index, handlerVars, pending, phase, trying>>

-----------------------------------------------------------------------------
Handle(h) ==
  \/ Accept(h) \/ NoTunnel(h) \/ GetTunnel(h) \/ OpenStream(h) \/ OpenTimesOut(h)
  \/ OpenClosed(h) \/ StreamEnds(h) \/ FailOver(h)

Next ==
  \/ \E p \in Pools : Stall(p) \/ End(p)
  \/ \E h \in Handlers : Handle(h)
  \/ BeginReconnect \/ Reconnect
  \/ Shutdown \/ Leave

Spec == Init /\ [][Next]_vars

(* Goroutines are scheduled, local connections keep coming and a session   *)
(* that has stalled is ended.                                              *)
FairSpec ==
  /\ Spec
  /\ \A h \in Handlers : WF_vars(Handle(h))
  /\ WF_vars(BeginReconnect) /\ WF_vars(Reconnect)
  /\ \A p \in Pools : WF_vars(End(p))

-----------------------------------------------------------------------------
(* An open pool is the current one, whoever replaces it and however many   *)
(* goroutines ask for that: no tunnels are left running that nothing uses; *)
(* and the current one is open until the shutdown closes it (client.go:    *)
(* 827-876, 961-967).                                                      *)
OnlyCurrentOpen ==
  /\ open \subseteq {current}
  /\ life # "closed" => open = {current} \ {None}

(* A reconnect cannot be lost: without a pool, the next connections bring  *)
(* one about as long as some resolver works and none is silent, even       *)
(* though other handlers move resolverIndex meanwhile and all attempts may *)
(* have failed before (client.go:840-887), unless the client is stopped.   *)
PoolComesBack == (current = None /\ silent = {}) ~> (current # None \/ life # "running")

(* client.go:746: "automatically switches to the next one if connection    *)
(* fails".  When smux has ended the sessions of the current pool, that     *)
(* pool is replaced, as long as connections come and no resolver is        *)
(* silent.                                                                 *)
SwitchesOnFailure ==
  (silent = {} /\ \E p \in open : session[p] = "ended")
    ~> (life # "running" \/ \A p \in open : session[p] # "ended")
=============================================================================
