------------------------------ MODULE MCMobile ------------------------------
(***************************************************************************)
(* For TLC: the mobile client (MobileClient), the searches for a resolver  *)
(* (ResolverSearch, ResolverTester) and the relaying of a stream (Relay).  *)
(* In a behaviour one of them, part, takes its steps.                      *)
(***************************************************************************)
EXTENDS MobileClient, SequencesExt

CONSTANTS
  Parts,
  Resolvers, MaxToTest,                        \* both searches
  Workers, MaxLatency, SearchLatencies,        \* ResolverSearch
  Modes, Limit1, Limit2, Room, Slow, TesterLatencies,  \* ResolverTester
  Handlers, MaxData                            \* Relay

ASSUME ResolverAssumption ==
  /\ IsFiniteSet(Resolvers) /\ None \notin Resolvers
  /\ MaxToTest \in Nat \ {0}
ASSUME SearchAssumption ==
  /\ Workers # {}
  /\ MaxLatency \in Nat /\ SearchLatencies \subseteq Nat /\ None \notin SearchLatencies
ASSUME TesterAssumption ==
  /\ Modes \subseteq {"auto", "best", "first"}
  /\ Limit2 \in Nat /\ Slow \in Nat /\ TesterLatencies \subseteq Nat /\ None \notin TesterLatencies

VARIABLES
  part,
  latency, works, passed, candidates, caller, fed, work, cancelled,  \* ResolverSearch
  worker, task, found, told, result,
  mode, delay, tunnel, tester, at, results, answered, chosen,        \* ResolverTester
  ended, maker, winner,
  how, sent, shut, gone, taken, arrived, out, informed, closed, fin, \* Relay
  alive, reader, writer, handler, refused, failed

Search == INSTANCE ResolverSearch WITH Latencies <- SearchLatencies, pc <- caller
Tester == INSTANCE ResolverTester WITH
  Latencies <- TesterLatencies, latency <- delay, pc <- tester, passed <- answered, candidates <- chosen,
  cancelled <- ended, result <- winner
Stream == INSTANCE Relay WITH told <- informed

searchVars == <<latency, works, passed, candidates, caller, fed, work, cancelled,
                worker, task, found, told, result>>
testerVars == <<mode, delay, tunnel, tester, at, results, answered, chosen, ended,
                maker, winner>>
relayVars == <<how, sent, shut, gone, taken, arrived, out, informed, closed, fin,
               alive, reader, writer, handler, refused, failed>>
mcVars == <<part, vars, searchVars, testerVars, relayVars>>

-----------------------------------------------------------------------------
(* A part that takes no steps is in one state.                             *)
NoSearch ==
  /\ latency = [r \in Resolvers |-> None] /\ works = {}
  /\ passed = <<>> /\ candidates = <<>> /\ caller = "phase1"
  /\ fed = 0 /\ work = <<>> /\ cancelled = FALSE
  /\ worker = [w \in Workers |-> "idle"] /\ task = [w \in Workers |-> None]
  /\ found = None /\ told = <<>> /\ result = None
NoTester ==
  /\ mode = "auto" /\ delay = [r \in Resolvers |-> None]
  /\ tunnel = [r \in Resolvers |-> "error"]
  /\ tester = "phase1" /\ at = [r \in Resolvers |-> "none"]
  /\ results = <<>> /\ answered = {} /\ chosen = <<>> /\ ended = FALSE
  /\ maker = [r \in Resolvers |-> "none"] /\ winner = None
NoRelay ==
  /\ Stream!Init
  /\ how = CHOOSE h \in Handlers : TRUE

(* The resolvers have no order, so their fates may have one.               *)
resolvers == SetToSeq(Resolvers)
Ordered(Fate(_)) ==
  \A i, j \in DOMAIN resolvers : i < j => Fate(resolvers[i]) <= Fate(resolvers[j])
SearchFate(r) ==
  (IF latency[r] = None THEN 90 ELSE 10 * latency[r]) + (IF r \in works THEN 0 ELSE 1)
TesterFate(r) ==
  (IF delay[r] = None THEN 90 ELSE 10 * delay[r])
  + (CASE tunnel[r] = "made" -> 0 [] tunnel[r] = "late" -> 1 [] tunnel[r] = "error" -> 2)

MCInit ==
  /\ part \in Parts
  /\ Init
  /\ IF part = "search" THEN Search!Init /\ Ordered(SearchFate) ELSE NoSearch
  /\ IF part = "tester" THEN Tester!Init /\ Ordered(TesterFate) ELSE NoTester
  /\ IF part = "relay" THEN Stream!Init ELSE NoRelay

ClientOnly == part = "client" /\ UNCHANGED <<part, searchVars, testerVars, relayVars>>
SearchOnly == part = "search" /\ UNCHANGED <<part, vars, testerVars, relayVars>>
TesterOnly == part = "tester" /\ UNCHANGED <<part, vars, searchVars, relayVars>>
RelayOnly == part = "relay" /\ UNCHANGED <<part, vars, searchVars, testerVars>>

MCNext ==
  \/ Next /\ ClientOnly
  \/ Search!Next /\ SearchOnly
  \/ Tester!Next /\ TesterOnly
  \/ Stream!Next /\ RelayOnly

(* The fairness of the three that have one.  Their behaviours are finite,  *)
(* as no state comes back.  So what is fair to all of their actions        *)
(* together, which is less for TLC to check, is fair to each of them.      *)
Fair ==
  \/ /\ SearchOnly
     /\ \/ Search!Phase1 \/ Search!Feed \/ Search!TakeFound \/ Search!NoneFound
        \/ \E w \in Workers : Search!Worker(w)
  \/ /\ TesterOnly
     /\ \/ Tester!Caller
        \/ \E r \in Resolvers : Tester!Goroutine(r) \/ Tester!InTime(r)
  \/ /\ RelayOnly
     /\ \E s \in {"client", "server"} :
          Stream!Goroutines(s) \/ Stream!Network(s) \/ Stream!Follow(s) \/ Stream!Starve(s)

MCSpec == MCInit /\ [][MCNext]_mcVars /\ WF_mcVars(Fair)

-----------------------------------------------------------------------------
(* See ResolverSearch and ResolverTester: what is returned works, and      *)
(* nothing is returned only if nothing does; after a success only tests on *)
(* their way still begin; no tunnel of a test is left open; both searches  *)
(* end.                                                                    *)
SearchSound == Search!SearchSound
TesterSound == Tester!TesterSound
StopsTesting == Tester!StopsTesting
TunnelsClosed == Tester!TunnelsClosed
SearchesEnd ==
  (part \in {"search", "tester"}) ~> (caller = "returned" \/ tester = "returned")

(* See Relay: a stream is cut short only by its other half, and when one   *)
(* end is over both handlers return.                                       *)
CutShortOnlyByReply == Stream!CutShortOnlyByReply
RelaysReturn == Stream!RelaysReturn
=============================================================================
