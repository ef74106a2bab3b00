--------------------------- MODULE ResolverTester ---------------------------
(***************************************************************************)
(* dnstt-client: the tests of a list of resolvers.  Phase 1,               *)
(* TestResolversFromFile or the mobile TestResolvers, asks each resolver   *)
(* for a random name, a goroutine per resolver and Limit1 of them at a     *)
(* time.  Phase 2 tries to make a tunnel: TestAndConnectWithResolver does  *)
(* so for all candidates, Limit2 at a time, until one succeeds;            *)
(* TestResolversWithTunnel and FindFirstWorkingResolver take one resolver  *)
(* after the other.                                                        *)
(*                                                                         *)
(* TestTunnelConnection runs createTunnel in a goroutine, the maker, which *)
(* goes on when the test has timed out.                                    *)
(***************************************************************************)
EXTENDS Naturals, FiniteSets, Sequences, SequencesExt

CONSTANTS
  Resolvers,
  Modes,       (* "auto": -auto-connect; "best": TestResolversWithTunnel;  *)
               (* "first": FindFirstWorkingResolver                        *)
  Limit1, Limit2,
  Room,        (* capacity of the channel of results in phase 1            *)
  Slow,        (* a latency of 500 ms                                      *)
  Latencies,
  MaxToTest,
  None

VARIABLES
  mode,
  latency,     (* of each resolver in phase 1, None if it fails the test   *)
  tunnel,      (* what the maker gets: "made", "late", which is after the  *)
               (* timeout or never, or "error"                             *)
  pc,          (* the caller: "phase1", "phase2", "draining", "returned"   *)
  at,          (* the test of each resolver: "none"; "waiting"; "acquired",*)
               (* it has a place; "checked", and goes on; "testing";       *)
               (* "passed", "failed"; or "done"                            *)
  results,     (* the channel: resolvers with their success                *)
  passed,      (* the successful results of phase 1                        *)
  candidates,  (* for phase 2, in their order                              *)
  cancelled,   (* ctx                                                      *)
  maker,       (* "none", "running", "failed", "open" or "closed"          *)
  result       (* the resolver returned, None for an error                 *)

inputs == <<mode, latency, tunnel>>
vars == <<inputs, pc, at, results, passed, candidates, cancelled, maker, result>>

OneByOne == mode # "auto"
Answers(r) == latency[r] # None

(* Sorted by latency, in any order for equal ones.                         *)
Sorted(S) ==
  {rs \in SetToSeqs(S) : \A i, j \in DOMAIN rs : i < j => latency[rs[i]] <= latency[rs[j]]}

Fast(r) == latency[r] < Slow
NotSlow(r) == latency[r] <= Slow

(* Those of rs that are in S.                                              *)
Only(rs, S) ==
  LET kept[n \in 0..Len(rs)] ==
        IF n = 0 THEN <<>>
        ELSE IF rs[n] \in S THEN Append(kept[n - 1], rs[n]) ELSE kept[n - 1]
  IN  kept[Len(rs)]

Choose(rs) ==
  IF mode = "auto"
  THEN LET fast == {r \in Range(rs) : Fast(r)} IN IF fast # {} THEN Only(rs, fast) ELSE rs
  ELSE LET quick == Only(rs, {r \in Range(rs) : NotSlow(r)}) IN
       IF Len(quick) > MaxToTest THEN SubSeq(quick, 1, MaxToTest) ELSE quick

Waiting(S) == [r \in Resolvers |-> IF r \in S THEN "waiting" ELSE "none"]

(* FindFirstWorkingResolver tests each resolver for DNS just before its    *)
(* tunnel, in the order of the list.                                       *)
Init ==
  /\ mode \in Modes
  /\ latency \in [Resolvers -> Latencies \cup {None}]
  /\ tunnel \in [Resolvers -> {"made", "late", "error"}]
  /\ \A r \in Resolvers : ~Answers(r) => tunnel[r] = "error"
  /\ IF mode = "first"
     THEN /\ pc = "phase2"
          /\ candidates \in SetToSeqs({r \in Resolvers : Answers(r)})
          /\ at = Waiting(Range(candidates))
     ELSE pc = "phase1" /\ candidates = <<>> /\ at = Waiting(Resolvers)
  /\ results = <<>> /\ passed = {} /\ cancelled = FALSE
  /\ maker = [r \in Resolvers |-> "none"]
  /\ result = None

GoTo(r, place) == at' = [at EXCEPT ![r] = place]
Busy == {r \in Resolvers : at[r] \in {"acquired", "checked", "testing", "passed", "failed"}}
AllDone == \A r \in Resolvers : at[r] \in {"none", "done"}

-----------------------------------------------------------------------------
(* Phase 1.  A goroutine keeps its place until its result is in the        *)
(* channel.                                                                *)
TestDNSResolver(r) ==
  /\ pc = "phase1" /\ at[r] = "waiting"
  /\ Cardinality(Busy) < Limit1
  /\ GoTo(r, IF Answers(r) THEN "passed" ELSE "failed")
  /\ UNCHANGED <<inputs, pc, results, passed, candidates, cancelled, maker, result>>

Report1(r) ==
  /\ pc = "phase1" /\ at[r] \in {"passed", "failed"}
  /\ Len(results) < Room
  /\ results' = Append(results, [resolver |-> r, success |-> at[r] = "passed"])
  /\ GoTo(r, "done")
  /\ UNCHANGED <<inputs, pc, passed, candidates, cancelled, maker, result>>

Collect1 ==
  /\ pc = "phase1" /\ results # <<>>
  /\ results' = Tail(results)
  /\ passed' = IF Head(results).success THEN passed \cup {Head(results).resolver} ELSE passed
  /\ UNCHANGED <<inputs, pc, at, candidates, cancelled, maker, result>>

(* Fault: the results still in the channel are not waited for.             *)
EndPhase1Early ==
  /\ pc = "phase1" /\ AllDone
  /\ \E rs \in Sorted(passed) : candidates' = Choose(rs)
  /\ at' = Waiting(Range(candidates'))
  /\ results' = <<>>
  /\ pc' = "phase2"
  /\ UNCHANGED <<inputs, passed, cancelled, maker, result>>

EndPhase1 ==
  /\ pc = "phase1" /\ AllDone /\ results = <<>>
  /\ \E rs \in Sorted(passed) : candidates' = Choose(rs)
  /\ at' = Waiting(Range(candidates'))
  /\ pc' = "phase2"
  /\ UNCHANGED <<inputs, results, passed, cancelled, maker, result>>

-----------------------------------------------------------------------------
(* Phase 2, in parallel: select takes either case when both are ready.     *)
(* Then a goroutine looks at ctx again; once it has done so, it makes its  *)
(* test, though ctx may be cancelled in between.                           *)
Acquire(r) ==
  /\ pc \in {"phase2", "draining"} /\ ~OneByOne
  /\ at[r] = "waiting" /\ Cardinality(Busy) < Limit2
  /\ GoTo(r, "acquired")
  /\ UNCHANGED <<inputs, pc, results, passed, candidates, cancelled, maker, result>>

Stop(r) ==
  /\ at[r] \in {"waiting", "acquired"} /\ cancelled
  /\ GoTo(r, "done")
  /\ UNCHANGED <<inputs, pc, results, passed, candidates, cancelled, maker, result>>

BeginTest(r) ==
  /\ GoTo(r, "testing")
  /\ maker' = [maker EXCEPT ![r] = "running"]
  /\ UNCHANGED <<inputs, pc, results, passed, candidates, cancelled, result>>

(* Fault: ctx is not looked at again.                                      *)
RecheckAnyway(r) ==
  /\ at[r] = "acquired"
  /\ GoTo(r, "checked")
  /\ UNCHANGED <<inputs, pc, results, passed, candidates, cancelled, maker, result>>

Recheck(r) ==
  /\ at[r] = "acquired" /\ ~cancelled
  /\ GoTo(r, "checked")
  /\ UNCHANGED <<inputs, pc, results, passed, candidates, cancelled, maker, result>>

Test(r) == at[r] = "checked" /\ BeginTest(r)

(* One resolver after the other.                                           *)
TestNext(r) ==
  /\ pc = "phase2" /\ OneByOne
  /\ Busy = {} /\ at[r] = "waiting"
  /\ \A i, j \in DOMAIN candidates :
       candidates[j] = r /\ at[candidates[i]] = "waiting" => j <= i
  /\ BeginTest(r)

(* createTunnel returns, or TestTunnelConnection stops to wait for it.     *)
Make(r) ==
  /\ maker[r] = "running"
  /\ tunnel[r] = "late" => at[r] # "testing"
  /\ maker' = [maker EXCEPT ![r] = IF tunnel[r] = "error" THEN "failed" ELSE "open"]
  /\ UNCHANGED <<inputs, pc, at, results, passed, candidates, cancelled, result>>

(* Fault: a tunnel is closed only if the result is wanted.                 *)
TestWorksOpen(r) ==
  /\ at[r] = "testing" /\ maker[r] = "open"
  /\ GoTo(r, "passed")
  /\ maker' = IF cancelled THEN maker ELSE [maker EXCEPT ![r] = "closed"]
  /\ UNCHANGED <<inputs, pc, results, passed, candidates, cancelled, result>>

TestWorks(r) ==
  /\ at[r] = "testing" /\ maker[r] = "open"
  /\ GoTo(r, "passed")
  /\ maker' = [maker EXCEPT ![r] = "closed"]
  /\ UNCHANGED <<inputs, pc, results, passed, candidates, cancelled, result>>

TestFails(r) ==
  /\ at[r] = "testing"
  /\ maker[r] = "failed" \/ (maker[r] = "running" /\ tunnel[r] = "late")
  /\ GoTo(r, "failed")
  /\ UNCHANGED <<inputs, pc, results, passed, candidates, cancelled, maker, result>>

(* The channel has room for all results; one may be dropped once cancelled.*)
Report2(r) ==
  /\ pc # "phase1" /\ ~OneByOne
  /\ at[r] \in {"passed", "failed"}
  /\ \/ results' = Append(results, [resolver |-> r, success |-> at[r] = "passed"])
     \/ cancelled /\ UNCHANGED results
  /\ GoTo(r, "done")
  /\ UNCHANGED <<inputs, pc, passed, candidates, cancelled, maker, result>>

-----------------------------------------------------------------------------
(* The caller in phase 2.                                                  *)
Collect2 ==
  /\ pc = "phase2" /\ results # <<>>
  /\ results' = Tail(results)
  /\ IF Head(results).success
     THEN /\ result' = Head(results).resolver
          /\ cancelled' = TRUE
          /\ pc' = "draining"
     ELSE UNCHANGED <<result, cancelled, pc>>
  /\ UNCHANGED <<inputs, at, passed, candidates, maker>>

Drain ==
  /\ pc = "draining" /\ results # <<>>
  /\ results' = Tail(results)
  /\ UNCHANGED <<inputs, pc, at, passed, candidates, cancelled, maker, result>>

(* The channel is closed when all goroutines are done.                     *)
Return ==
  /\ pc = "draining" \/ (pc = "phase2" /\ ~OneByOne)
  /\ AllDone /\ results = <<>>
  /\ pc' = "returned" /\ cancelled' = TRUE
  /\ UNCHANGED <<inputs, at, results, passed, candidates, maker, result>>

(* One by one: the first success, or nothing.                              *)
ReturnFirst ==
  /\ pc = "phase2" /\ OneByOne
  /\ \/ \E r \in Resolvers : at[r] = "passed" /\ result' = r
     \/ AllDone /\ UNCHANGED result
  /\ at' = [r \in Resolvers |-> "none"]
  /\ pc' = "returned"
  /\ UNCHANGED <<inputs, results, passed, candidates, cancelled, maker>>

Continue(r) ==
  /\ pc = "phase2" /\ OneByOne
  /\ at[r] = "failed"
  /\ GoTo(r, "done")
  /\ UNCHANGED <<inputs, pc, results, passed, candidates, cancelled, maker, result>>

(* What -auto-connect goes on with: the resolver that works, then the      *)
(* other candidates, for StartWithResolverFallback.                        *)
ResolverList == <<result>> \o Only(candidates, Resolvers \ {result})

Goroutine(r) ==
  \/ TestDNSResolver(r) \/ Report1(r)
  \/ Acquire(r) \/ Stop(r) \/ Recheck(r) \/ Test(r) \/ TestNext(r)
  \/ TestWorks(r) \/ TestFails(r) \/ Report2(r) \/ Continue(r)

Caller == Collect1 \/ EndPhase1 \/ Collect2 \/ Drain \/ Return \/ ReturnFirst

Next == Caller \/ \E r \in Resolvers : Goroutine(r) \/ Make(r)

Spec == Init /\ [][Next]_vars

(* Goroutines are scheduled; a test ends by its timeout.  A maker may be   *)
(* kept waiting for good.                                                  *)
InTime(r) == tunnel[r] # "late" /\ Make(r)
Fairness ==
  WF_vars(Caller) /\ \A r \in Resolvers : WF_vars(Goroutine(r)) /\ WF_vars(InTime(r))

FairSpec == Spec /\ Fairness

-----------------------------------------------------------------------------
(* Whether the mode promises to try r.                                     *)
Promised(r) ==
  /\ Answers(r)
  /\ CASE mode = "auto" -> Fast(r) \/ \A q \in Resolvers : Answers(q) => ~Fast(q)
       [] mode = "best" ->
            /\ NotSlow(r)
            /\ MaxToTest >= Cardinality({q \in Resolvers : Answers(q) /\ latency[q] <= latency[r]})
       [] OTHER -> TRUE

(* resolver_tester.go:347-349, mobile.go:654, :1061: what is returned has  *)
(* passed both tests, and nothing is returned only if no resolver works,   *)
(* however results, timeouts and the cancellation are interleaved.  The    *)
(* list for the fallback starts with it and has all the others once.       *)
TesterSound ==
  pc = "returned" =>
    IF result = None THEN \A r \in Resolvers : Promised(r) => tunnel[r] # "made"
    ELSE /\ Answers(result) /\ tunnel[result] = "made"
         /\ Range(ResolverList) = Range(candidates)
         /\ Len(ResolverList) = Len(candidates)

(* The tests that have begun to make a tunnel, and those that are about to *)
(* and do not look at ctx any more.                                        *)
Begun == {r \in Resolvers : maker[r] # "none"}
OnTheirWay == {r \in Resolvers : at[r] = "checked"}

(* resolver_tester.go:348: "stops testing once a working resolver is       *)
(* found".  What is still tested after that, at whatever moment it was     *)
(* found, are the resolvers, at most Limit2, whose goroutines were on      *)
(* their way (:407-418), and none of those that select lets in later.      *)
StopsTesting ==
  /\ \A r \in Resolvers :
       [](cancelled /\ r \notin Begun \cup OnTheirWay => [](r \notin Begun))
  /\ [](Cardinality(OnTheirWay) <= Limit2)

(* "Tunnel created successfully, close it" (resolver_tester.go:332): no    *)
(* test leaves a tunnel behind, also not those that end after the success  *)
(* of another one, except for a test that has timed out, whose tunnel      *)
(* nobody can close.  What Close leaves, the transport, is not counted.    *)
TunnelsClosed ==
  \A r \in Resolvers : maker[r] = "open" => at[r] = "testing" \/ tunnel[r] = "late"

(* The tests end, whatever the resolvers do.                               *)
TesterReturns == <>(pc = "returned")
=============================================================================
