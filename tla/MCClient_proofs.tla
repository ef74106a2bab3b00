---------------------------- MODULE MCClient_proofs ----------------------------
(***************************************************************************)
(* However many handlers, pools and resolvers there are, and however the   *)
(* attempts to reconnect and the failures overlap, an open pool is the     *)
(* current one (ResolverFallback).  Whatever connections, configurations   *)
(* and numbers of tunnels there are, nobody judges a pool that another     *)
(* connection is still filling (PtAcceptLoop).                             *)
(***************************************************************************)
EXTENDS MCClient, TLAPS

-----------------------------------------------------------------------------
(* ResolverFallback.                                                       *)

(* Whoever is about to connect has dropped the current pool before, and    *)
(* nobody else installs one: the flag reconnecting lets one goroutine in.  *)
ConnectorHasNone == phase \in {"first", "again"} => current = None

(* OnlyCurrentOpen is not inductive alone: Connect would leave the current *)
(* pool open behind the new one.                                           *)
FallbackIInv ==
  /\ current \in Pools \cup {None}
  /\ open \subseteq Pools
  /\ OnlyCurrentOpen
  /\ ConnectorHasNone

LEMMA FallbackInitInv == Init => FallbackIInv
BY NoneAssumption DEF Init, FallbackIInv, OnlyCurrentOpen, ConnectorHasNone

LEMMA FallbackOtherStep ==
  ASSUME FallbackIInv, UNCHANGED <<current, open, phase, life>>
  PROVE  FallbackIInv'
BY DEF FallbackIInv, OnlyCurrentOpen, ConnectorHasNone

LEMMA FallbackNextInv == FallbackIInv /\ [Next]_vars => FallbackIInv'
<1> SUFFICES ASSUME FallbackIInv, [Next]_vars PROVE FallbackIInv'
  OBVIOUS
<1>1. CASE UNCHANGED vars
  BY <1>1, FallbackOtherStep DEF vars, poolVars, reconnectVars
<1>2. ASSUME NEW p \in Pools, Stall(p) \/ End(p) PROVE FallbackIInv'
  BY <1>2, FallbackOtherStep DEF Stall, End, reconnectVars
<1>3. ASSUME NEW h \in Handlers, Handle(h) PROVE FallbackIInv'
  BY <1>3, FallbackOtherStep
     DEF Handle, Accept, NoTunnel, GetTunnel, OpenStream, OpenTimesOut, OpenClosed, StreamEnds,
         FailOver, poolVars, reconnectVars
<1>4. CASE BeginReconnect
  BY <1>4 DEF BeginReconnect, poolVars, FallbackIInv, OnlyCurrentOpen, ConnectorHasNone
<1>5. CASE CloseCurrent
  BY <1>5, NoneAssumption DEF CloseCurrent, ClosePool, FallbackIInv, OnlyCurrentOpen, ConnectorHasNone
<1>6. CASE Connect
  <2>1. open = {} /\ None \notin Pools
    BY <1>6, NoneAssumption DEF Connect, FallbackIInv, OnlyCurrentOpen, ConnectorHasNone
  <2> QED
    BY <1>6, <2>1 DEF Connect, FallbackIInv, OnlyCurrentOpen, ConnectorHasNone
<1>7. CASE StopTrying \/ TryResolver \/ ConnectFails \/ Restart \/ GiveUp \/ Shutdown
  BY <1>7 DEF StopTrying, TryResolver, ConnectFails, Restart, GiveUp, Shutdown, Retrying, poolVars,
              FallbackIInv, OnlyCurrentOpen, ConnectorHasNone
<1>8. CASE Leave
  BY <1>8 DEF Leave, ClosePool, FallbackIInv, OnlyCurrentOpen, ConnectorHasNone
<1> QED BY <1>1, <1>2, <1>3, <1>4, <1>5, <1>6, <1>7, <1>8 DEF Next, Reconnect

(* An open pool is the current one: no tunnels are left running that       *)
(* nothing uses (client.go:827-876).                                       *)
THEOREM NoPoolLeftRunning == Spec => []OnlyCurrentOpen
<1>1. FallbackIInv => OnlyCurrentOpen
  BY DEF FallbackIInv
<1> QED BY <1>1, FallbackInitInv, FallbackNextInv, PTL DEF Spec

-----------------------------------------------------------------------------
(* PtAcceptLoop.                                                           *)

Places ==
  {"none", "accepted", "parsing", "wanting", "creating", "checking", "relaying"}

(* The connection that creates tunnels holds poolsMu, and alone.           *)
CreatorLocks == \A c \in Conns : at[c] = "creating" => mu = {c}

(* Pools are in the map before anyone fills or judges them, and stay.      *)
JudgedExists == \A c \in Conns : at[c] \in {"creating", "checking"} => key[c] \in exists

(* PoolsSeenWhole is not inductive alone: that a second connection does    *)
(* not begin to create takes the lock and the map.                         *)
AcceptIInv ==
  /\ at \in [Conns -> Places] /\ key \in [Conns -> Keys]
  /\ CreatorLocks /\ JudgedExists
  /\ Pt!PoolsSeenWhole

LEMMA AcceptInitInv == Pt!Init => AcceptIInv
BY DEF Pt!Init, AcceptIInv, Places, CreatorLocks, JudgedExists, Pt!PoolsSeenWhole

(* A step that leaves the places alone, or moves one connection to a place *)
(* where it neither fills nor judges a pool, while poolsMu is not released *)
(* by a creator.                                                           *)
LEMMA HarmlessMove ==
  ASSUME AcceptIInv, NEW c \in Conns, NEW p \in Places \ {"creating", "checking"},
         at' = [at EXCEPT ![c] = p], UNCHANGED <<mu, exists, key>>
  PROVE  AcceptIInv'
BY DEF AcceptIInv, Places, CreatorLocks, JudgedExists, Pt!PoolsSeenWhole

LEMMA AcceptOtherStep ==
  ASSUME AcceptIInv, UNCHANGED <<at, mu, exists, key>>
  PROVE  AcceptIInv'
BY DEF AcceptIInv, Places, CreatorLocks, JudgedExists, Pt!PoolsSeenWhole

LEMMA AcceptNextInv == AcceptIInv /\ [Pt!Next]_(Pt!vars) => AcceptIInv'
<1> SUFFICES ASSUME AcceptIInv, [Pt!Next]_(Pt!vars) PROVE AcceptIInv'
  OBVIOUS
<1>1. CASE UNCHANGED Pt!vars
  BY <1>1, AcceptOtherStep DEF Pt!vars, Pt!poolVars
<1>2. ASSUME NEW c \in Conns, Pt!AcceptSocks(c) PROVE AcceptIInv'
  BY <1>2 DEF Pt!AcceptSocks, Pt!GoTo, Pt!poolVars, AcceptIInv, Places, CreatorLocks,
              JudgedExists, Pt!PoolsSeenWhole
<1>3. ASSUME NEW c \in Conns,
             \/ Pt!Serve(c) \/ Pt!ParseArguments(c) \/ Pt!Reject(c) \/ Pt!Grant(c) \/ Pt!RelayEnds(c)
      PROVE  AcceptIInv'
  <2>1. /\ \E p \in Places \ {"creating", "checking"} : at' = [at EXCEPT ![c] = p]
        /\ UNCHANGED <<mu, exists, key>>
    BY <1>3 DEF Pt!Serve, Pt!ParseArguments, Pt!Reject, Pt!Grant, Pt!RelayEnds, Pt!GoTo,
              Pt!End, Pt!poolVars, Places
  <2> QED BY <2>1, HarmlessMove
<1>4. ASSUME NEW c \in Conns, Pt!FindPool(c) PROVE AcceptIInv'
  <2>1. \A d \in Conns : at[d] # "creating"
    BY <1>4 DEF Pt!FindPool, AcceptIInv, CreatorLocks
  <2> QED
    BY <1>4, <2>1 DEF Pt!FindPool, Pt!GoTo, Pt!poolVars, AcceptIInv, Places, CreatorLocks,
                      JudgedExists, Pt!PoolsSeenWhole
<1>5. ASSUME NEW c \in Conns, Pt!AddPool(c) PROVE AcceptIInv'
  <2>1. \A d \in Conns : at[d] # "creating"
    BY <1>5 DEF Pt!AddPool, AcceptIInv, CreatorLocks
  <2>2. \A d \in Conns : at[d] = "checking" => key[d] # key[c]
    BY <1>5 DEF Pt!AddPool, AcceptIInv, JudgedExists
  <2> QED
    BY <1>5, <2>1, <2>2 DEF Pt!AddPool, Pt!GoTo, AcceptIInv, Places, CreatorLocks, JudgedExists,
                            Pt!PoolsSeenWhole
<1>6. ASSUME NEW c \in Conns, Pt!CreateTunnel(c) PROVE AcceptIInv'
  BY <1>6, AcceptOtherStep DEF Pt!CreateTunnel
<1>7. ASSUME NEW c \in Conns, Pt!Unlock(c) PROVE AcceptIInv'
  <2>1. \A d \in Conns : at[d] = "creating" => d = c
    BY <1>7 DEF Pt!Unlock, AcceptIInv, CreatorLocks
  <2> QED
    BY <1>7, <2>1 DEF Pt!Unlock, Pt!GoTo, AcceptIInv, Places, CreatorLocks, JudgedExists,
                      Pt!PoolsSeenWhole
<1>8. CASE Pt!AcceptFails \/ Pt!CloseAll \/ Pt!Signal \/ Pt!CloseShutdown \/ Pt!Done
  BY <1>8, AcceptOtherStep DEF Pt!AcceptFails, Pt!CloseAll, Pt!Signal, Pt!CloseShutdown,
                               Pt!Done, Pt!poolVars
<1> QED BY <1>1, <1>2, <1>3, <1>4, <1>5, <1>6, <1>7, <1>8 DEF Pt!Next, Pt!Goroutine

(* However many connections ask for a configuration at once, one of them   *)
(* makes its pool, and nobody judges it before all of its tunnels have     *)
(* been tried (client.go:449-473).                                         *)
THEOREM PoolsAreSeenWhole == Pt!Spec => []PoolsSeenWhole
<1>1. AcceptIInv => PoolsSeenWhole
  BY DEF AcceptIInv, PoolsSeenWhole
<1> QED BY <1>1, AcceptInitInv, AcceptNextInv, PTL DEF Pt!Spec
=============================================================================
