--------------------------- MODULE ResolverSearch ---------------------------
(***************************************************************************)
(* dnstt-client/mobile: FindWorkingResolverTwoPhase.  Phase 1 tests every  *)
(* resolver for DNS and sorts those that answer by latency; of these, the  *)
(* candidates go over workChan2 to the workers of phase 2, which try to    *)
(* bring up a tunnel.  The first success is put in foundChan, which holds  *)
(* one resolver, and cancels the others; the caller returns what it takes  *)
(* from foundChan, or nothing when the last worker has gone and it is      *)
(* closed.                                                                 *)
(*                                                                         *)
(* Whether a resolver answers, how fast, and whether a tunnel comes up is  *)
(* chosen once and for all.  The workers of phase 1 only fill a list that  *)
(* is read when all of them are done, so phase 1 is one step.              *)
(***************************************************************************)
EXTENDS Naturals, Sequences, SequencesExt

CONSTANTS
  Resolvers,    (* the list, without duplicates                            *)
  Workers,      (* phase2Concurrency goroutines                            *)
  MaxToTest,    (* phase2MaxToTest                                         *)
  Latencies,    (* latencies in ms that differ for the choices made        *)
  MaxLatency,   (* maxLatencyMs                                            *)
  None

VARIABLES
  latency,     (* of each resolver in phase 1, None if it failed           *)
  works,       (* resolvers through which a tunnel comes up                *)
  passed,      (* phase1Results, sorted                                    *)
  candidates,  (* phase2Candidates                                         *)
  pc,          (* the caller: "phase1", "waiting" or "returned"            *)
  fed,         (* number of candidates the feeder has dealt with           *)
  work,        (* workChan2                                                *)
  cancelled,   (* ctx is done                                              *)
  worker,      (* "idle", "testing", "putting", "found", "telling", "gone" *)
  task,        (* the resolver a worker has                                *)
  found,       (* the element in foundChan, or None                        *)
  told,        (* resolvers OnResolverFound was called with                *)
  result       (* the resolver returned, None for the empty string         *)

phase1Vars == <<latency, works, passed, candidates>>
vars == <<phase1Vars, pc, fed, work, cancelled, worker, task, found, told, result>>

-----------------------------------------------------------------------------
(* Candidates of the sorted results rs: those within the latency limit,    *)
(* but at least the fastest, and no more than MaxToTest.                   *)

Quick(r) == latency[r] <= MaxLatency

Choose(rs) ==
  LET kept[n \in 0..Len(rs)] ==
        IF n = 0 THEN <<>>
        ELSE LET cs == kept[n - 1] IN
             IF (Quick(rs[n]) \/ cs = <<>>) /\ Len(cs) < MaxToTest
             THEN Append(cs, rs[n]) ELSE cs
  IN  kept[Len(rs)]

Sorted(rs) == \A i, j \in DOMAIN rs : i < j => latency[rs[i]] <= latency[rs[j]]

Init ==
  /\ latency \in [Resolvers -> Latencies \cup {None}]
  /\ works \in SUBSET Resolvers
  /\ passed = <<>> /\ candidates = <<>>
  /\ pc = "phase1"
  /\ fed = 0 /\ work = <<>> /\ cancelled = FALSE
  /\ worker = [w \in Workers |-> "idle"]
  /\ task = [w \in Workers |-> None]
  /\ found = None /\ told = <<>> /\ result = None

-----------------------------------------------------------------------------
Phase1 ==
  /\ pc = "phase1"
  /\ passed' \in {rs \in SetToSeqs({r \in Resolvers : latency[r] # None}) : Sorted(rs)}
  /\ candidates' = Choose(passed')
  /\ pc' = IF passed' = <<>> THEN "returned" ELSE "waiting"
  /\ UNCHANGED <<latency, works, fed, work, cancelled, worker, task, found, told, result>>

(* The feeder skips a candidate when it sees that ctx is done.             *)
Feed ==
  /\ pc # "phase1" /\ fed < Len(candidates)
  /\ fed' = fed + 1
  /\ \/ work' = Append(work, candidates[fed'])
     \/ cancelled /\ UNCHANGED work
  /\ UNCHANGED <<phase1Vars, pc, cancelled, worker, task, found, told, result>>

GoTo(w, place) == worker' = [worker EXCEPT ![w] = place]

TakeWork(w) ==
  /\ pc # "phase1" /\ worker[w] = "idle"
  /\ work # <<>>
  /\ task' = [task EXCEPT ![w] = Head(work)]
  /\ work' = Tail(work)
  /\ GoTo(w, "testing")
  /\ UNCHANGED <<phase1Vars, pc, fed, cancelled, found, told, result>>

(* Fault: workChan2 is never closed.                                       *)
LeaveCancelled(w) ==
  /\ pc # "phase1" /\ worker[w] = "idle"
  /\ cancelled
  /\ GoTo(w, "gone")
  /\ UNCHANGED <<phase1Vars, pc, fed, work, cancelled, task, found, told, result>>

(* workChan2 is closed and empty, or ctx is done.                          *)
Leave(w) ==
  /\ pc # "phase1" /\ worker[w] = "idle"
  /\ cancelled \/ (work = <<>> /\ fed = Len(candidates))
  /\ GoTo(w, "gone")
  /\ UNCHANGED <<phase1Vars, pc, fed, work, cancelled, task, found, told, result>>

TestTunnel(w) ==
  /\ worker[w] = "testing"
  /\ GoTo(w, IF task[w] \in works THEN "putting" ELSE "idle")
  /\ UNCHANGED <<phase1Vars, pc, fed, work, cancelled, task, found, told, result>>

(* foundChan takes one element; the default branch drops the others.       *)
PutFound(w) ==
  /\ worker[w] = "putting"
  /\ IF found = None
     THEN found' = task[w] /\ GoTo(w, "found")
     ELSE GoTo(w, "gone") /\ UNCHANGED found
  /\ UNCHANGED <<phase1Vars, pc, fed, work, cancelled, task, told, result>>

Cancel(w) ==
  /\ worker[w] = "found"
  /\ cancelled' = TRUE
  /\ GoTo(w, "telling")
  /\ UNCHANGED <<phase1Vars, pc, fed, work, task, found, told, result>>

Tell(w) ==
  /\ worker[w] = "telling"
  /\ told' = Append(told, task[w])
  /\ GoTo(w, "gone")
  /\ UNCHANGED <<phase1Vars, pc, fed, work, cancelled, task, found, result>>

(* The caller takes the first element, and its deferred cancel runs.       *)
TakeFound ==
  /\ pc = "waiting" /\ found # None
  /\ result' = found
  /\ found' = None
  /\ cancelled' = TRUE
  /\ pc' = "returned"
  /\ UNCHANGED <<phase1Vars, fed, work, worker, task, told>>

(* Fault: foundChan is closed when the feeder is done.                     *)
NoneFoundEarly ==
  /\ pc = "waiting" /\ found = None
  /\ fed = Len(candidates) /\ work = <<>>
  /\ cancelled' = TRUE
  /\ pc' = "returned"
  /\ UNCHANGED <<phase1Vars, fed, work, worker, task, found, told, result>>

NoneFound ==
  /\ pc = "waiting" /\ found = None
  /\ \A w \in Workers : worker[w] = "gone"
  /\ cancelled' = TRUE
  /\ pc' = "returned"
  /\ UNCHANGED <<phase1Vars, fed, work, worker, task, found, told, result>>

Worker(w) ==
  TakeWork(w) \/ Leave(w) \/ TestTunnel(w) \/ PutFound(w) \/ Cancel(w) \/ Tell(w)

Next ==
  \/ Phase1 \/ Feed \/ TakeFound \/ NoneFound
  \/ \E w \in Workers : Worker(w)

Spec == Init /\ [][Next]_vars

(* Every goroutine is scheduled and every test ends, by its timeout.       *)
FairSpec ==
  /\ Spec
  /\ WF_vars(Phase1) /\ WF_vars(Feed) /\ WF_vars(TakeFound) /\ WF_vars(NoneFound)
  /\ \A w \in Workers : WF_vars(Worker(w))

-----------------------------------------------------------------------------
(* A resolver that works is not missed: the search returns nothing only    *)
(* when no candidate works, whichever workers fail, succeed or are         *)
(* cancelled while foundChan is being closed (mobile.go:1006-1045).  What  *)
(* it returns, and what it reports on the way, has passed both tests.  The *)
(* candidates start with the fastest resolver, and none is slow while a    *)
(* quick one was left out (mobile.go:920-930).                             *)
SearchSound ==
  /\ \A r \in Range(told) : r \in works /\ latency[r] # None
  /\ pc = "returned" =>
       IF result = None THEN Range(candidates) \cap works = {}
       ELSE result \in works /\ latency[result] # None
  /\ pc # "phase1" /\ passed # <<>> =>
       /\ candidates # <<>> /\ candidates[1] = passed[1]
       /\ \A i, j \in DOMAIN passed :
            i < j /\ passed[j] \in Range(candidates) => passed[i] \in Range(candidates)

(* The search ends, whatever the workers meet.                             *)
SearchEnds == <>(pc = "returned")
=============================================================================
