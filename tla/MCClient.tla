------------------------------ MODULE MCClient ------------------------------
(***************************************************************************)
(* A client's tunnels, for TLC: those with fallback to other resolvers     *)
(* (ResolverFallback), those of a pluggable transport (PtAcceptLoop), and  *)
(* the life of one (Session).  In a behaviour one of the three, part,      *)
(* takes its steps.                                                        *)
(***************************************************************************)
EXTENDS ResolverFallback, SequencesExt

CONSTANTS Parts, Conns, Keys, NumTunnels

VARIABLES
  part,
  deaf, main, loop, mu, exists, tunnels, tried, at, key,          \* PtAcceptLoop
  tunnel, transport, pconn, kcp, hello, got, reply, server,       \* Session
  smux, reader

Pt == INSTANCE PtAcceptLoop WITH silent <- deaf, pc <- at
Tunnel == INSTANCE Session

ptVars == <<deaf, main, loop, mu, exists, tunnels, tried, at, key>>
sessionVars == <<tunnel, transport, pconn, kcp, hello, got, reply, server, smux, reader>>
mcVars == <<part, vars, ptVars, sessionVars>>

-----------------------------------------------------------------------------
(* A part that takes no steps is in one state.                             *)
NoFallback ==
  /\ reachable = {} /\ silent = {} /\ index = 0 /\ current = None /\ open = {}
  /\ session = [p \in Pools |-> "ended"]
  /\ pc = [h \in Handlers |-> "idle"] /\ pool = [h \in Handlers |-> None]
  /\ loaded = [h \in Handlers |-> 0] /\ pending = 0 /\ phase = "none" /\ trying = None /\ life = "running"
NoPt ==
  /\ deaf = {} /\ main = "done" /\ loop = "gone" /\ mu = {} /\ exists = {}
  /\ tunnels = [k \in Keys |-> 0] /\ tried = 0
  /\ at = [c \in Conns |-> "none"] /\ key = [c \in Conns |-> CHOOSE k \in Keys : TRUE]

MCInit ==
  /\ part \in Parts
  /\ IF part = "fallback" THEN Init ELSE NoFallback
  /\ IF part = "accept" THEN Pt!Init ELSE NoPt
  /\ Tunnel!Init

FallbackOnly == part = "fallback" /\ UNCHANGED <<part, ptVars, sessionVars>>
PtOnly == part = "accept" /\ UNCHANGED <<part, vars, sessionVars>>
SessionOnly == part = "session" /\ UNCHANGED <<part, vars, ptVars>>

MCNext ==
  \/ Next /\ FallbackOnly
  \/ Pt!Next /\ PtOnly
  \/ Tunnel!Next /\ SessionOnly

(* The fairness of the three.  As the part stays the same, an action of    *)
(* each can share a condition.                                             *)
handlers == SetToSeq(Handlers)
pools == SetToSeq(Pools)
conns == SetToSeq(Conns)

Turn(n) ==
  \/ /\ FallbackOnly
     /\ \/ n = 1 /\ BeginReconnect
        \/ n = 2 /\ Reconnect
        \/ n - 4 \in DOMAIN handlers /\ Handle(handlers[n - 4])
        \/ n - 6 \in DOMAIN pools /\ End(pools[n - 6])
  \/ /\ PtOnly
     /\ \/ n = 1 /\ Pt!AcceptFails
        \/ n = 2 /\ Pt!CloseAll
        \/ n = 3 /\ Pt!CloseShutdown
        \/ n = 4 /\ Pt!Done
        \/ n - 4 \in DOMAIN conns /\ Pt!Goroutine(conns[n - 4])
        \/ n - 6 \in DOMAIN conns /\ main = "waiting" /\ Pt!RelayEnds(conns[n - 6])
  \/ /\ SessionOnly
     /\ \/ n = 1 /\ Tunnel!Session
        \/ n = 2 /\ Tunnel!Read("client")
        \/ n = 3 /\ Tunnel!Read("server")
        \/ n = 4 /\ Tunnel!Drain("server")

MCSpec == MCInit /\ [][MCNext]_mcVars /\ \A n \in 1..8 : WF_mcVars(Turn(n))

-----------------------------------------------------------------------------
(* See ResolverFallback: a pool comes back without restarting the client.  *)
MCPoolComesBack ==
  (part = "fallback" /\ current = None /\ silent = {}) ~> (current # None \/ life # "running")

(* See PtAcceptLoop: pools are made once and seen whole, and neither a     *)
(* connection nor the shutdown is kept waiting.                            *)
PoolsSeenWhole == Pt!PoolsSeenWhole
ConnectionsAnswered == Pt!ConnectionsAnswered
ShutdownCompletes == Pt!ShutdownCompletes

(* See Session: a tunnel that is over leaves nothing above its transport.  *)
NothingIsLeft == Tunnel!NothingIsLeft
=============================================================================
