---------------------------- MODULE MobileClient ----------------------------
(***************************************************************************)
(* dnstt-client/mobile: the Client that the Android service drives.  Start,*)
(* Stop and StartWithBestResolver may run in several threads at once.  The *)
(* mutex covers the fields pool, listener and cancel, which are set and    *)
(* cleared together and are one session here; the state is an atomic that  *)
(* is tested at the entry of Start and written, outside of the mutex, when *)
(* something has happened.  setState stores the state first and calls the  *)
(* StatusCallback afterwards.                                              *)
(***************************************************************************)
EXTENDS Naturals, FiniteSets

CONSTANTS
  Threads,     (* threads that call the client                             *)
  Starters,    (* those that call Start and StartWithBestResolver          *)
  Stoppers,    (* those that call Stop                                     *)
  Addresses,   (* listen addresses the configurations name                 *)
  None,
  MaxStarts    (* bound: calls that pass Start's entry test                *)

ASSUME NoneAssumption == None \notin Addresses
(* The app's configurations all name the same one.                         *)
ASSUME AddressAssumption == \A a, b \in Addresses : a = b
ASSUME StartsAssumption == MaxStarts \in Nat

Sessions == 1..MaxStarts
States == {"Stopped", "Connecting", "Connected", "Error"}

VARIABLES
  state,       (* c.state                                                  *)
  shown,       (* the state the callback was last told                     *)
  held,        (* the session in c.pool, c.listener and c.cancel, 0 if nil *)
  starts,      (* number of sessions begun                                 *)
  pools,       (* sessions whose tunnel pool is open                       *)
  bound,       (* the address a session's listener is bound to, or None    *)
  pc,          (* where each thread is                                     *)
  mine,        (* the session a thread is starting, 0 if none              *)
  announce,    (* the state a thread is about to tell the callback         *)
  stopped,     (* Stop has returned and Start was not called since         *)
  overlap      (* a call has begun while another one was in progress       *)
               (* (stopped and overlap are history)                        *)

callVars == <<stopped, overlap>>
vars == <<state, shown, held, starts, pools, bound, pc, mine, announce, callVars>>

Init ==
  /\ state = "Stopped" /\ shown = "Stopped"
  /\ held = 0 /\ starts = 0
  /\ pools = {} /\ bound = [n \in Sessions |-> None]
  /\ pc = [t \in Threads |-> "idle"]
  /\ mine = [t \in Threads |-> 0]
  /\ announce = [t \in Threads |-> "nothing"]
  /\ stopped = FALSE /\ overlap = FALSE

-----------------------------------------------------------------------------
Running == state \in {"Connecting", "Connected"}

At(t, place) == pc[t] = place /\ announce[t] = "nothing"
GoTo(t, place) == pc' = [pc EXCEPT ![t] = place]

(* setState: store now, tell the callback in a later step.                 *)
SetState(t, s) ==
  /\ state' = s
  /\ announce' = [announce EXCEPT ![t] = s]

Announce(t) ==
  /\ announce[t] # "nothing"
  /\ shown' = announce[t]
  /\ announce' = [announce EXCEPT ![t] = "nothing"]
  /\ stopped' = IF pc[t] = "stopped" THEN TRUE ELSE stopped
  /\ pc' = IF pc[t] = "stopped" THEN [pc EXCEPT ![t] = "idle"] ELSE pc
  /\ UNCHANGED <<state, held, starts, pools, bound, mine, overlap>>

(* A call of Start, Stop or StartWithBestResolver begins.                  *)
Begin(t) ==
  /\ At(t, "idle")
  /\ overlap' = (overlap \/ \E u \in Threads \ {t} : ~At(u, "idle"))

(* The entry test of Start, for a call by the app or at the end of         *)
(* StartWithBestResolver.                                                  *)
Enter(t) ==
  IF Running
  THEN /\ GoTo(t, "idle")
       /\ UNCHANGED <<starts, mine>>
  ELSE /\ starts < MaxStarts
       /\ starts' = starts + 1
       /\ mine' = [mine EXCEPT ![t] = starts']
       /\ GoTo(t, "connecting")

Start(t) ==
  /\ t \in Starters /\ Begin(t)
  /\ Enter(t)
  /\ stopped' = FALSE
  /\ UNCHANGED <<state, shown, held, pools, bound, announce>>

Connecting(t) ==
  /\ At(t, "connecting")
  /\ SetState(t, "Connecting")
  /\ GoTo(t, "creating")
  /\ UNCHANGED <<shown, held, starts, pools, bound, mine, callVars>>

(* A configuration that is not valid, or not one tunnel.                   *)
CreateFails(t) ==
  /\ At(t, "creating")
  /\ SetState(t, "Error")
  /\ mine' = [mine EXCEPT ![t] = 0]
  /\ GoTo(t, "idle")
  /\ UNCHANGED <<shown, held, starts, pools, bound, callVars>>

CreateTunnels(t) ==
  /\ At(t, "creating")
  /\ pools' = pools \cup {mine[t]}
  /\ GoTo(t, "listening")
  /\ UNCHANGED <<state, shown, held, starts, bound, mine, announce, callVars>>

Listen(t) ==
  /\ At(t, "listening")
  /\ \E a \in Addresses :
       /\ \A n \in Sessions : bound[n] # a
       /\ bound' = [bound EXCEPT ![mine[t]] = a]
  /\ GoTo(t, "installing")
  /\ UNCHANGED <<state, shown, held, starts, pools, mine, announce, callVars>>

(* Fault: the tunnels stay open when there is no listener.                 *)
ListenFailsOpen(t) ==
  /\ At(t, "listening")
  /\ SetState(t, "Error")
  /\ mine' = [mine EXCEPT ![t] = 0]
  /\ GoTo(t, "idle")
  /\ UNCHANGED <<shown, held, starts, pools, bound, callVars>>

ListenFails(t) ==
  /\ At(t, "listening")
  /\ pools' = pools \ {mine[t]}
  /\ SetState(t, "Error")
  /\ mine' = [mine EXCEPT ![t] = 0]
  /\ GoTo(t, "idle")
  /\ UNCHANGED <<shown, held, starts, bound, callVars>>

Install(t) ==
  /\ At(t, "installing")
  /\ held' = mine[t]
  /\ GoTo(t, "installed")
  /\ UNCHANGED <<state, shown, starts, pools, bound, mine, announce, callVars>>

Connected(t) ==
  /\ At(t, "installed")
  /\ SetState(t, "Connected")
  /\ mine' = [mine EXCEPT ![t] = 0]
  /\ GoTo(t, "idle")
  /\ UNCHANGED <<shown, held, starts, pools, bound, callVars>>

-----------------------------------------------------------------------------
(* Stop under the mutex.                                                   *)
(* Fault: the fields are not cleared.                                      *)
ClearKeeps(t) ==
  /\ t \in Stoppers /\ Begin(t)
  /\ pools' = pools \ {held}
  /\ bound' = IF held = 0 THEN bound ELSE [bound EXCEPT ![held] = None]
  /\ GoTo(t, "cleared")
  /\ UNCHANGED <<state, shown, held, starts, mine, announce, stopped>>

Clear(t) ==
  /\ t \in Stoppers /\ Begin(t)
  /\ pools' = pools \ {held}
  /\ bound' = IF held = 0 THEN bound ELSE [bound EXCEPT ![held] = None]
  /\ held' = 0
  /\ GoTo(t, "cleared")
  /\ UNCHANGED <<state, shown, starts, mine, announce, stopped>>

Stopped(t) ==
  /\ At(t, "cleared")
  /\ SetState(t, "Stopped")
  /\ GoTo(t, "stopped")
  /\ UNCHANGED <<shown, held, starts, pools, bound, mine, callVars>>

-----------------------------------------------------------------------------
(* StartWithBestResolver.                                                  *)
StartBest(t) ==
  /\ t \in Starters /\ Begin(t)
  /\ ~Running
  /\ SetState(t, "Connecting")
  /\ stopped' = FALSE
  /\ GoTo(t, "testing")
  /\ UNCHANGED <<shown, held, starts, pools, bound, mine>>

NoResolver(t) ==
  /\ At(t, "testing")
  /\ SetState(t, "Error")
  /\ GoTo(t, "idle")
  /\ UNCHANGED <<shown, held, starts, pools, bound, mine, callVars>>

FoundResolver(t) ==
  /\ At(t, "testing")
  /\ SetState(t, "Connecting")
  /\ GoTo(t, "found")
  /\ UNCHANGED <<shown, held, starts, pools, bound, mine, callVars>>

StartFound(t) ==
  /\ At(t, "found")
  /\ Enter(t)
  /\ UNCHANGED <<state, shown, held, pools, bound, announce, callVars>>

-----------------------------------------------------------------------------
Step(t) ==
  \/ Announce(t)
  \/ Start(t) \/ Connecting(t) \/ CreateFails(t) \/ CreateTunnels(t)
  \/ Listen(t) \/ ListenFails(t) \/ Install(t) \/ Connected(t)
  \/ Clear(t) \/ Stopped(t)
  \/ StartBest(t) \/ NoResolver(t) \/ FoundResolver(t) \/ StartFound(t)

Next == \E t \in Threads : Step(t)

Spec == Init /\ [][Next]_vars

-----------------------------------------------------------------------------
Quiet == \A t \in Threads : At(t, "idle")

(* A pool or a listener that is open belongs to the session the client     *)
(* holds or to one that is being started: concurrent calls of Start and    *)
(* Stop, and every error path of Start, leave nothing behind that no later *)
(* Stop can close (mobile.go:222-243, :458-472).  It takes that all        *)
(* configurations name one listen address, as the app's do.                *)
NothingLeaked ==
  \A n \in Sessions :
    n \in pools \/ bound[n] # None => n = held \/ \E t \in Threads : mine[t] = n

(* mobile.go:106: "GetState returns the current tunnel state", and :31:    *)
(* "StatusCallback is called when tunnel status changes".  Between calls   *)
(* that have not overlapped, the state is Connected exactly when there is  *)
(* a tunnel, and it is what the callback was told last, whichever way the  *)
(* calls have ended.                                                       *)
StatusTruthful ==
  Quiet /\ ~overlap => (state = "Connected") = (held # 0) /\ shown = state

(* mobile.go:711: "StartWithBestResolver tests resolvers and starts the    *)
(* tunnel with the best one."  When calls have returned that have not      *)
(* overlapped, no state says that a tunnel is still being started.         *)
NothingPending == Quiet /\ ~overlap => state # "Connecting"

(* mobile.go:457: "Stop stops the tunnel."                                 *)
StopStops == stopped => held = 0
=============================================================================
