--------------------------- MODULE MCMobile_proofs ---------------------------
(***************************************************************************)
(* Theorems about the mobile client and the searches for a resolver.       *)
(*                                                                         *)
(* However many threads call Start, Stop and StartWithBestResolver, in     *)
(* whatever order, no tunnel pool and no listener is left that nobody can  *)
(* close.  What makes this so is the listen address: a second session      *)
(* cannot bind it while the first one has it.                              *)
(***************************************************************************)
EXTENDS MCMobile, Induction, SequenceTheorems, FiniteSetTheorems, TLAPS

Beginning == {"connecting", "creating"}       (* nothing is open yet       *)
Early == Beginning \cup {"listening"}         (* there is no listener yet  *)
Starting == Early \cup {"installing"}         (* the client has no session *)
Elsewhere == {"idle", "cleared", "stopped", "testing", "found"}
Places == Starting \cup {"installed"} \cup Elsewhere

Types ==
  /\ starts \in 0..MaxStarts /\ held \in 0..starts
  /\ pools \subseteq Sessions
  /\ bound \in [Sessions -> Addresses \cup {None}]
  /\ pc \in [Threads -> Places]
  /\ mine \in [Threads -> 0..starts]

(* A thread has a session exactly while it starts one, and no two threads  *)
(* have the same.                                                          *)
OwnSession ==
  \A t \in Threads :
    /\ (mine[t] = 0) = (pc[t] \in Elsewhere)
    /\ \A u \in Threads \ {t} : mine[t] # 0 => mine[t] # mine[u]

(* What a thread is starting is not yet the client's.                      *)
NotYetHeld == \A t \in Threads : pc[t] \in Starting => mine[t] # held

(* One listener has the address.                                           *)
OneListener == \A m, n \in Sessions : bound[m] # None /\ bound[n] # None => m = n

(* The session the client holds has its listener, until Stop closes it.    *)
HeldListens == held # 0 => bound[held] # None

Progress ==
  \A t \in Threads :
    /\ pc[t] \in Early => bound[mine[t]] = None
    /\ pc[t] \in Beginning => mine[t] \notin pools
    /\ pc[t] = "installing" => bound[mine[t]] # None
    /\ pc[t] = "installed" => mine[t] = held \/ (mine[t] \notin pools /\ bound[mine[t]] = None)

(* NothingLeaked is not inductive alone: that Install overwrites no session*)
(* still open needs that the address is free, which needs all the others.  *)
IInv ==
  /\ Types /\ OwnSession /\ NotYetHeld /\ OneListener /\ HeldListens /\ Progress
  /\ NothingLeaked

LEMMA InitInv == Init => IInv
BY StartsAssumption
   DEF Init, IInv, Types, OwnSession, NotYetHeld, OneListener, HeldListens, Progress,
       NothingLeaked, Sessions, Places, Starting, Early, Beginning, Elsewhere

(* A step that moves a thread which is starting nothing.                   *)
LEMMA AsideInv ==
  ASSUME IInv, NEW t \in Threads, pc[t] \in Elsewhere,
         \E p \in Elsewhere : pc' = [pc EXCEPT ![t] = p],
         UNCHANGED <<held, starts, pools, bound, mine>>
  PROVE  IInv'
BY DEF IInv, Types, OwnSession, NotYetHeld, OneListener, HeldListens, Progress,
       NothingLeaked, Sessions, Places, Starting, Early, Beginning, Elsewhere

LEMMA OtherInv ==
  ASSUME IInv, UNCHANGED <<pc, held, starts, pools, bound, mine>>
  PROVE  IInv'
BY DEF IInv, Types, OwnSession, NotYetHeld, OneListener, HeldListens, Progress,
       NothingLeaked, Sessions

(* Start's entry test lets the call through: it gets the next session.     *)
LEMMA EnterInv ==
  ASSUME IInv, NEW t \in Threads, pc[t] \in Elsewhere, Enter(t), ~Running,
         UNCHANGED <<held, pools, bound>>
  PROVE  IInv'
<1> USE StartsAssumption
<1> DEFINE n == starts + 1
<1>1. /\ n \in Sessions /\ starts' = n
      /\ mine' = [mine EXCEPT ![t] = n] /\ pc' = [pc EXCEPT ![t] = "connecting"]
  BY DEF Enter, GoTo, IInv, Types, Sessions
<1>2. n # held /\ \A u \in Threads : mine[u] # n
  BY DEF IInv, Types
<1>3. n \notin pools /\ bound[n] = None
  BY <1>1, <1>2 DEF IInv, NothingLeaked
<1>4. mine[t] = 0
  BY DEF IInv, OwnSession
<1>5. Types'
  BY <1>1, <1>2 DEF IInv, Types, Sessions, Places, Starting, Early, Beginning
<1>6. OwnSession' /\ NotYetHeld'
  BY <1>1, <1>2 DEF IInv, Types, OwnSession, NotYetHeld, Starting, Early, Beginning, Elsewhere
<1>7. Progress'
  BY <1>1, <1>2, <1>3 DEF IInv, Types, Progress, Early, Beginning
<1>8. OneListener' /\ HeldListens'
  BY DEF IInv, OneListener, HeldListens
<1>9. NothingLeaked'
  BY <1>1, <1>2, <1>4 DEF IInv, Types, NothingLeaked, Sessions
<1> QED BY <1>5, <1>6, <1>7, <1>8, <1>9 DEF IInv

LEMMA NextInv == IInv /\ [Next]_vars => IInv'
<1> SUFFICES ASSUME IInv, [Next]_vars PROVE IInv'
  OBVIOUS
<1> USE NoneAssumption, StartsAssumption
<1>1. CASE UNCHANGED vars
  BY <1>1, OtherInv DEF vars
<1>2. ASSUME NEW t \in Threads,
             Announce(t) \/ Stopped(t) \/ StartBest(t) \/ NoResolver(t) \/ FoundResolver(t)
      PROVE  IInv'
  <2>1. CASE pc' = pc
    BY <1>2, <2>1, OtherInv
       DEF Announce, Stopped, StartBest, NoResolver, FoundResolver, callVars, Begin
  <2>2. CASE pc' # pc
    <3>1. /\ pc[t] \in Elsewhere /\ \E p \in Elsewhere : pc' = [pc EXCEPT ![t] = p]
          /\ UNCHANGED <<held, starts, pools, bound, mine>>
      BY <1>2, <2>2 DEF Announce, Stopped, StartBest, NoResolver, FoundResolver, Begin, At, GoTo,
                        Elsewhere
    <3> QED BY <3>1, AsideInv
  <2> QED BY <2>1, <2>2
<1>3. ASSUME NEW t \in Threads, Start(t) \/ StartFound(t) PROVE IInv'
  <2>1. pc[t] \in Elsewhere /\ Enter(t) /\ UNCHANGED <<held, pools, bound>>
    BY <1>3 DEF Start, StartFound, Begin, At, Elsewhere
  <2>2. CASE Running
    BY <2>1, <2>2, AsideInv DEF Enter, GoTo, Elsewhere
  <2> QED BY <2>1, <2>2, EnterInv
<1>4. ASSUME NEW t \in Threads, Connecting(t) PROVE IInv'
  BY <1>4 DEF Connecting, At, GoTo, IInv, Types, OwnSession, NotYetHeld, OneListener,
              HeldListens, Progress, NothingLeaked, Places, Starting, Early, Beginning, Elsewhere
<1>5. ASSUME NEW t \in Threads, CreateFails(t) \/ ListenFails(t) \/ Connected(t) PROVE IInv'
  <2> DEFINE n == mine[t]
  <2>1. /\ pc[t] \in Early \cup {"installed"}
        /\ mine' = [mine EXCEPT ![t] = 0] /\ pc' = [pc EXCEPT ![t] = "idle"]
        /\ pools' = (IF pc[t] = "listening" THEN pools \ {n} ELSE pools)
        /\ UNCHANGED <<held, starts, bound>>
    BY <1>5 DEF CreateFails, ListenFails, Connected, At, GoTo, Early, Beginning
  <2>2. n \in Sessions /\ \A u \in Threads \ {t} : mine[u] # n
    BY <2>1 DEF IInv, Types, OwnSession, Sessions, Early, Beginning, Elsewhere
  <2>3. Types'
    BY <2>1, <2>2 DEF IInv, Types, Places, Elsewhere
  <2>4. OwnSession' /\ NotYetHeld'
    BY <2>1, <2>2 DEF IInv, Types, OwnSession, NotYetHeld, Starting, Early, Beginning, Elsewhere
  <2>5. OneListener' /\ HeldListens' /\ Progress'
    BY <2>1, <2>2 DEF IInv, Types, OneListener, HeldListens, Progress, Early, Beginning
  <2>6. n = held \/ (n \notin pools' /\ bound'[n] = None)
    BY <2>1 DEF IInv, Progress, Early, Beginning
  <2>7. NothingLeaked'
    BY <2>1, <2>2, <2>6 DEF IInv, Types, NothingLeaked
  <2> QED BY <2>3, <2>4, <2>5, <2>7 DEF IInv
<1>6. ASSUME NEW t \in Threads, CreateTunnels(t) PROVE IInv'
  <2>1. mine[t] \in Sessions /\ \A u \in Threads \ {t} : mine[u] # mine[t]
    BY <1>6 DEF CreateTunnels, At, IInv, Types, OwnSession, Sessions, Elsewhere
  <2>2. Types' /\ OwnSession' /\ NotYetHeld' /\ OneListener' /\ HeldListens'
    BY <1>6, <2>1 DEF CreateTunnels, At, GoTo, IInv, Types, OwnSession, NotYetHeld, OneListener,
                      HeldListens, Places, Starting, Early, Beginning, Elsewhere
  <2>3. NotYetHeld /\ mine[t] # held
    BY <1>6 DEF CreateTunnels, At, IInv, NotYetHeld, Starting, Early, Beginning
  <2>4. Progress'
    BY <1>6, <2>1, <2>3 DEF CreateTunnels, At, GoTo, IInv, Types, Progress, Early, Beginning
  <2>5. NothingLeaked'
    BY <1>6 DEF CreateTunnels, IInv, Types, NothingLeaked
  <2> QED BY <2>2, <2>4, <2>5 DEF IInv
<1>7. ASSUME NEW t \in Threads, Listen(t) PROVE IInv'
  <2>1. PICK a \in Addresses : /\ \A n \in Sessions : bound[n] # a
                               /\ bound' = [bound EXCEPT ![mine[t]] = a]
    BY <1>7 DEF Listen
  <2>2. a # None /\ \A n \in Sessions : bound[n] = None
    BY <2>1, AddressAssumption DEF IInv, Types
  <2>3. mine[t] \in Sessions /\ \A u \in Threads \ {t} : mine[u] # mine[t]
    BY <1>7 DEF Listen, At, IInv, Types, OwnSession, Sessions, Elsewhere
  <2>4. held = 0
    BY <2>2 DEF IInv, Types, HeldListens, Sessions
  <2>5. /\ pc[t] = "listening" /\ pc' = [pc EXCEPT ![t] = "installing"]
        /\ UNCHANGED <<held, starts, pools, mine>>
    BY <1>7 DEF Listen, At, GoTo
  <2>6. Types' /\ OwnSession' /\ NotYetHeld'
    BY <2>1, <2>3, <2>5 DEF IInv, Types, OwnSession, NotYetHeld, Places, Starting, Early,
                            Beginning, Elsewhere
  <2>7. OneListener' /\ HeldListens'
    BY <2>1, <2>2, <2>3, <2>4, <2>5 DEF IInv, Types, OneListener, HeldListens
  <2>8. Progress'
    BY <2>1, <2>2, <2>3, <2>5 DEF IInv, Types, Progress, Early, Beginning
  <2>9. NothingLeaked'
    BY <2>1, <2>2, <2>3, <2>5 DEF IInv, Types, NothingLeaked
  <2> QED BY <2>6, <2>7, <2>8, <2>9 DEF IInv
<1>8. ASSUME NEW t \in Threads, Install(t) PROVE IInv'
  <2>1. /\ pc[t] = "installing" /\ pc' = [pc EXCEPT ![t] = "installed"]
        /\ held' = mine[t] /\ UNCHANGED <<starts, pools, bound, mine>>
    BY <1>8 DEF Install, At, GoTo
  <2>2. /\ mine[t] \in Sessions /\ bound[mine[t]] # None /\ mine[t] # held
        /\ \A u \in Threads \ {t} : mine[u] # mine[t]
    BY <2>1 DEF IInv, Types, OwnSession, NotYetHeld, Progress, Sessions, Starting, Elsewhere
  <2>3. held = 0
    BY <2>2 DEF IInv, Types, OneListener, HeldListens, Sessions
  <2>4. Types' /\ OwnSession' /\ NotYetHeld' /\ OneListener' /\ HeldListens'
    BY <2>1, <2>2 DEF IInv, Types, OwnSession, NotYetHeld, OneListener, HeldListens, Places,
                      Starting, Early, Beginning, Elsewhere
  <2>5. Progress'
    BY <2>1, <2>2, <2>3 DEF IInv, Types, OwnSession, Progress, Early, Beginning, Elsewhere
  <2>6. NothingLeaked'
    BY <2>1, <2>3 DEF IInv, NothingLeaked, Sessions
  <2> QED BY <2>4, <2>5, <2>6 DEF IInv
<1>9. ASSUME NEW t \in Threads, Clear(t) PROVE IInv'
  <2>1. /\ pc[t] = "idle" /\ pc' = [pc EXCEPT ![t] = "cleared"]
        /\ pools' = pools \ {held} /\ held' = 0
        /\ bound' = (IF held = 0 THEN bound ELSE [bound EXCEPT ![held] = None])
        /\ UNCHANGED <<starts, mine>>
    BY <1>9 DEF Clear, Begin, At, GoTo
  <2>2. held # 0 => held \in Sessions
    BY DEF IInv, Types, Sessions
  <2>3. \A n \in Sessions : /\ bound'[n] = (IF n = held THEN None ELSE bound[n])
                            /\ n \in pools' <=> n \in pools /\ n # held
    BY <2>1, <2>2 DEF IInv, Types, Sessions
  <2>4. Types' /\ OwnSession'
    BY <2>1, <2>2 DEF IInv, Types, OwnSession, Places, Starting, Early, Beginning, Elsewhere
  <2>5. \A u \in Threads : pc'[u] \in Starting \cup {"installed"} =>
          pc'[u] = pc[u] /\ mine[u] \in Sessions
    BY <2>1 DEF IInv, Types, OwnSession, Sessions, Starting, Early, Beginning, Elsewhere
  <2>6. NotYetHeld'
    BY <2>1, <2>5 DEF NotYetHeld, Sessions
  <2>7. OneListener' /\ HeldListens'
    BY <2>1, <2>3 DEF IInv, OneListener, HeldListens
  <2>8. Progress'
    BY <2>1, <2>3, <2>5 DEF IInv, NotYetHeld, Progress, Starting, Early, Beginning
  <2>9. NothingLeaked'
    BY <2>1, <2>3 DEF IInv, NothingLeaked
  <2> QED BY <2>4, <2>6, <2>7, <2>8, <2>9 DEF IInv
<1> QED BY <1>1, <1>2, <1>3, <1>4, <1>5, <1>6, <1>7, <1>8, <1>9 DEF Next, Step

(* Concurrent calls of Start and Stop, and every error path of Start,      *)
(* leave no open pool and no listener behind that no later Stop can close  *)
(* (mobile.go:222-243, :458-472).                                          *)
THEOREM NothingIsLeaked == Spec => []NothingLeaked
<1>1. IInv => NothingLeaked
  BY DEF IInv
<1> QED BY <1>1, InitInv, NextInv, PTL DEF Spec

-----------------------------------------------------------------------------
(* Calls that do not overlap: at most one thread is in a call.  What it is *)
(* about to tell the callback is the state, and the place it has reached   *)
(* says whether the client has a session.                                  *)
Announced == {"nothing"} \cup States

Alone == \A t, u \in Threads : t # u => At(t, "idle") \/ At(u, "idle")

ToldLast ==
  /\ \A t \in Threads : announce[t] # "nothing" => announce[t] = state
  /\ (\A t \in Threads : announce[t] = "nothing") => shown = state

HeldByPlace ==
  \A t \in Threads :
    /\ pc[t] \in Starting \cup {"cleared", "stopped", "testing", "found"} => held = 0
    /\ pc[t] = "installed" => held # 0
    /\ pc[t] = "stopped" => state = "Stopped"
    /\ pc[t] = "found" => state = "Connecting"

AtRest == (\A t \in Threads : pc[t] = "idle") => ((state = "Connected") <=> (held # 0))

StatusIInv ==
  /\ IInv
  /\ state \in States /\ announce \in [Threads -> Announced] /\ overlap \in BOOLEAN
  /\ ~overlap => Alone /\ ToldLast /\ HeldByPlace /\ AtRest

(* The same, said of the one thread that may be in a call.                 *)
OnlyCall(t) == \A u \in Threads \ {t} : At(u, "idle")

CallState(t) ==
  /\ announce[t] \in {"nothing", state}
  /\ announce[t] = "nothing" => shown = state
  /\ pc[t] \in Starting \cup {"cleared", "stopped", "testing", "found"} => held = 0
  /\ pc[t] = "installed" => held # 0
  /\ pc[t] = "stopped" => state = "Stopped"
  /\ pc[t] = "found" => state = "Connecting"
  /\ pc[t] = "idle" => ((state = "Connected") <=> (held # 0))

LEMMA OneCall ==
  ASSUME NEW t \in Threads, OnlyCall(t)
  PROVE  (Alone /\ ToldLast /\ HeldByPlace /\ AtRest) <=> CallState(t)
<1>1. \A u \in Threads \ {t} : pc[u] = "idle" /\ announce[u] = "nothing"
  BY DEF OnlyCall, At
<1>2. Alone
  BY DEF OnlyCall, Alone
<1>3. ASSUME ToldLast, HeldByPlace, AtRest PROVE CallState(t)
  BY <1>1, <1>3 DEF ToldLast, HeldByPlace, AtRest, CallState
<1>4. ASSUME CallState(t) PROVE ToldLast /\ HeldByPlace /\ AtRest
  <2>1. ToldLast
    BY <1>1, <1>4 DEF ToldLast, CallState
  <2>2. HeldByPlace
    BY <1>1, <1>4 DEF HeldByPlace, CallState, Starting, Early, Beginning
  <2>3. AtRest
    BY <1>4 DEF AtRest, CallState
  <2> QED BY <2>1, <2>2, <2>3
<1> QED BY <1>2, <1>3, <1>4

(* A call that has overlapped no other one is the only one.                *)
LEMMA NoOtherCall ==
  ASSUME StatusIInv, ~overlap', NEW t \in Threads, Step(t)
  PROVE  ~overlap /\ OnlyCall(t)
<1>1. CASE Start(t) \/ Clear(t) \/ StartBest(t)
  BY <1>1 DEF Start, Clear, StartBest, Begin, OnlyCall
<1>2. ASSUME ~(Start(t) \/ Clear(t) \/ StartBest(t))
      PROVE  overlap' = overlap /\ ~At(t, "idle")
  BY <1>2 DEF Step, Announce, Connecting, CreateFails, CreateTunnels, Listen, ListenFails, Install,
              Connected, Stopped, NoResolver, FoundResolver, StartFound, callVars, At
<1> QED BY <1>1, <1>2 DEF StatusIInv, Alone, OnlyCall

LEMMA OthersStay ==
  ASSUME StatusIInv, NEW t \in Threads, Step(t), OnlyCall(t)
  PROVE  OnlyCall(t)'
<1>1. \A u \in Threads \ {t} : pc'[u] = pc[u] /\ announce'[u] = announce[u]
  BY DEF StatusIInv, IInv, Types, Step, Announce, Start, Connecting, CreateFails, CreateTunnels,
         Listen, ListenFails, Install, Connected, Clear, Stopped, StartBest, NoResolver,
         FoundResolver, StartFound, Enter, SetState, GoTo
<1> QED BY <1>1 DEF OnlyCall, At

LEMMA StatusTypesKept ==
  ASSUME StatusIInv, NEW t \in Threads, Step(t)
  PROVE  state' \in States /\ announce' \in [Threads -> Announced] /\ overlap' \in BOOLEAN
<1>1. overlap' \in BOOLEAN
  BY DEF StatusIInv, Step, Announce, Start, Connecting, CreateFails, CreateTunnels, Listen,
         ListenFails, Install, Connected, Clear, Stopped, StartBest, NoResolver, FoundResolver,
         StartFound, Begin, callVars
<1>2. CASE \E s \in States : SetState(t, s)
  BY <1>1, <1>2 DEF StatusIInv, SetState, Announced
<1>3. CASE Announce(t)
  BY <1>3 DEF Announce, StatusIInv, Announced
<1>4. CASE UNCHANGED <<state, announce>>
  BY <1>1, <1>4 DEF StatusIInv
<1> QED BY <1>1, <1>2, <1>3, <1>4
     DEF Step, Start, Connecting, CreateFails, CreateTunnels, Listen, ListenFails, Install,
         Connected, Clear, Stopped, StartBest, NoResolver, FoundResolver, StartFound, States

LEMMA CallStateKept ==
  ASSUME StatusIInv, NEW t \in Threads, Step(t), CallState(t)
  PROVE  CallState(t)'
<1>0. /\ pc \in [Threads -> Places] /\ announce \in [Threads -> Announced]
      /\ state \in States /\ "nothing" \notin States /\ held \in Nat
  BY DEF StatusIInv, IInv, Types, States
<1> USE <1>0 DEF CallState, At, GoTo, SetState, States
<1>1. CASE Announce(t)
  BY <1>1 DEF Announce
<1>2. CASE Start(t)
  BY <1>2 DEF Start, Begin, Enter, Running, Starting, Early, Beginning
<1>3. CASE Connecting(t) \/ CreateFails(t) \/ CreateTunnels(t)
  BY <1>3 DEF Connecting, CreateFails, CreateTunnels, Starting, Early, Beginning
<1>4. CASE Listen(t) \/ ListenFails(t)
  BY <1>4 DEF Listen, ListenFails, Starting, Early, Beginning
<1>5. CASE Install(t)
  <2>1. mine[t] # 0
    BY <1>5 DEF Install, StatusIInv, IInv, OwnSession, Elsewhere
  <2> QED BY <1>5, <2>1 DEF Install, Starting, Early, Beginning
<1>6. CASE Connected(t)
  BY <1>6 DEF Connected, Starting, Early, Beginning
<1>7. CASE Clear(t) \/ Stopped(t)
  BY <1>7 DEF Clear, Begin, Stopped, Starting, Early, Beginning
<1>8. CASE StartBest(t) \/ NoResolver(t) \/ FoundResolver(t)
  BY <1>8 DEF StartBest, Begin, Running, NoResolver, FoundResolver, Starting, Early, Beginning
<1>9. CASE StartFound(t)
  BY <1>9 DEF StartFound, Enter, Running, Starting, Early, Beginning
<1> QED BY <1>1, <1>2, <1>3, <1>4, <1>5, <1>6, <1>7, <1>8, <1>9 DEF Step

LEMMA StatusInitInv == Init => StatusIInv
<1> SUFFICES ASSUME Init PROVE StatusIInv
  OBVIOUS
<1>1. state \in States /\ announce \in [Threads -> Announced] /\ overlap \in BOOLEAN
  BY DEF Init, States, Announced
<1>2. Alone /\ ToldLast /\ AtRest
  BY DEF Init, Alone, At, ToldLast, AtRest
<1>3. HeldByPlace
  BY DEF Init, HeldByPlace, Starting, Early, Beginning
<1> QED BY <1>1, <1>2, <1>3, InitInv DEF StatusIInv

LEMMA StatusNextInv == StatusIInv /\ [Next]_vars => StatusIInv'
<1> SUFFICES ASSUME StatusIInv, [Next]_vars PROVE StatusIInv'
  OBVIOUS
<1>1. IInv'
  BY NextInv DEF StatusIInv
<1>2. ASSUME NEW t \in Threads, Step(t) PROVE StatusIInv'
  <2>1. ASSUME ~overlap' PROVE Alone' /\ ToldLast' /\ HeldByPlace' /\ AtRest'
    <3>1. ~overlap /\ OnlyCall(t)
      BY <1>2, <2>1, NoOtherCall
    <3>2. CallState(t)
      BY <3>1, OneCall DEF StatusIInv
    <3>3. CallState(t)' /\ OnlyCall(t)'
      BY <1>2, <3>1, <3>2, CallStateKept, OthersStay
    <3>4. CallState(t)' => Alone' /\ ToldLast' /\ HeldByPlace' /\ AtRest'
      BY <3>3, OneCall, PTL
    <3> QED BY <3>3, <3>4
  <2> QED BY <1>1, <1>2, <2>1, StatusTypesKept DEF StatusIInv
<1>3. CASE UNCHANGED vars
  BY <1>1, <1>3
     DEF vars, callVars, StatusIInv, Alone, At, ToldLast, HeldByPlace, AtRest
<1> QED BY <1>2, <1>3 DEF Next

(* Between calls that have not overlapped, the state is Connected exactly  *)
(* when there is a tunnel, and the callback was told so (mobile.go:31,     *)
(* :106), whatever calls were made and however each of them has ended.     *)
THEOREM StatusIsTruthful == Spec => []StatusTruthful
<1>1. StatusIInv => StatusTruthful
  BY DEF StatusIInv, StatusTruthful, Quiet, At, ToldLast, AtRest
<1> QED BY <1>1, StatusInitInv, StatusNextInv, PTL DEF Spec

-----------------------------------------------------------------------------
(* Only goes through the sequence from its first element to its last.      *)
ByPrefix(kept, rs, S, R) ==
  /\ kept \in [0..Len(rs) -> Seq(R)]
  /\ kept[0] = <<>>
  /\ \A i \in 1..Len(rs) :
       kept[i] = IF rs[i] \in S THEN Append(kept[i - 1], rs[i]) ELSE kept[i - 1]

LEMMA OnlyByPrefix ==
  ASSUME NEW R, NEW rs \in Seq(R), NEW S
  PROVE  \E kept : ByPrefix(kept, rs, S, R) /\ Tester!Only(rs, S) = kept[Len(rs)]
<1> DEFINE Body(g, n) == IF n = 0 THEN <<>>
                         ELSE IF rs[n] \in S THEN Append(g[n - 1], rs[n]) ELSE g[n - 1]
           F == [i \in 1..Len(rs) |->
                   [s \in Seq(R) |-> IF rs[i] \in S THEN Append(s, rs[i]) ELSE s]]
           kept == CHOOSE g : g = [n \in 0..Len(rs) |-> Body(g, n)]
<1>1. Len(rs) \in Nat /\ \A i \in 1..Len(rs) : rs[i] \in R
  OBVIOUS
<1>2. F \in [1..Len(rs) -> [Seq(R) -> Seq(R)]]
  BY <1>1
<1>3. \A i \in 1..Len(rs), s \in Seq(R) :
        F[i][s] = IF rs[i] \in S THEN Append(s, rs[i]) ELSE s
  OBVIOUS
<1>4. <<>> \in Seq(R)
  OBVIOUS
<1> HIDE DEF F
<1>5. PICK g \in [0..Len(rs) -> Seq(R)] :
        g[0] = <<>> /\ \A i \in 1..Len(rs) : g[i] = F[i][g[i - 1]]
  <2>1. \E g : IsIteration(g, Len(rs), Seq(R), <<>>, F)
    BY <1>1, <1>2, <1>4, Iterated
  <2> QED BY <2>1 DEF IsIteration
<1>6. g = [n \in 0..Len(rs) |-> Body(g, n)]
  <2>1. ASSUME NEW n \in 0..Len(rs) PROVE g[n] = Body(g, n)
    <3>1. CASE n = 0
      BY <3>1, <1>5
    <3>2. CASE n # 0
      <4>1. n \in 1..Len(rs) /\ n - 1 \in 0..Len(rs)
        BY <3>2
      <4> QED BY <4>1, <3>2, <1>3, <1>5
    <3> QED BY <3>1, <3>2
  <2> HIDE DEF Body
  <2> QED BY <2>1, <1>5
<1>7. kept = [n \in 0..Len(rs) |-> Body(kept, n)]
  <2> HIDE DEF Body
  <2> QED BY <1>6
<1>8. Tester!Only(rs, S) = kept[Len(rs)]
  BY DEF Tester!Only
<1>9. \A n \in 0..Len(rs) : kept[n] = Body(kept, n)
  <2> HIDE DEF Body
  <2>1. DEFINE k == kept
  <2>2. k = [n \in 0..Len(rs) |-> Body(k, n)]
    BY <1>7
  <2> HIDE DEF k
  <2>3. \A n \in 0..Len(rs) : k[n] = Body(k, n)
    BY <2>2
  <2> QED BY <2>3 DEF k
<1>10. \A n \in 0..Len(rs) : kept[n] = g[n]
  <2> DEFINE k == kept
             Same == {n \in Nat : n <= Len(rs) => k[n] = g[n]}
  <2>1. \A n \in 0..Len(rs) : k[n] = Body(k, n)
    BY <1>9
  <2>2. \A n \in 0..Len(rs) : g[n] = Body(g, n)
    <3> HIDE DEF Body
    <3> QED BY <1>6
  <2> HIDE DEF k
  <2>3. 0 \in Same
    BY <2>1, <2>2, <1>1
  <2>4. ASSUME NEW n \in Nat, n \in Same PROVE n + 1 \in Same
    <3>1. CASE n + 1 <= Len(rs)
      <4>1. n + 1 \in 0..Len(rs) /\ n + 1 # 0 /\ (n + 1) - 1 = n /\ k[n] = g[n]
        BY <2>4, <3>1, <1>1
      <4>2. k[n + 1] = g[n + 1]
        BY <4>1, <2>1, <2>2
      <4> QED BY <4>2
    <3>2. CASE ~(n + 1 <= Len(rs))
      BY <3>2
    <3> QED BY <3>1, <3>2
  <2>5. Nat \subseteq Same
    <3> HIDE DEF Same
    <3> QED BY <2>3, <2>4, SetInduction
  <2>6. \A n \in 0..Len(rs) : k[n] = g[n]
    BY <2>5
  <2> QED BY <2>6 DEF k
<1>11. /\ g[0] = <<>>
       /\ \A i \in 1..Len(rs) :
            g[i] = IF rs[i] \in S THEN Append(g[i - 1], rs[i]) ELSE g[i - 1]
  <2>1. \A i \in 1..Len(rs) : i - 1 \in 0..Len(rs)
    BY <1>1
  <2> QED BY <1>3, <1>5, <2>1
<1> HIDE DEF kept
<1>12. ByPrefix(g, rs, S, R)
  BY <1>5, <1>11 DEF ByPrefix
<1> QED BY <1>1, <1>8, <1>10, <1>12

(* What Only keeps, and where it was.                                      *)
Picked(f, kept, rs, S, n) ==
  /\ f \in [1..Len(kept) -> 1..n]
  /\ \A i, j \in 1..Len(kept) : i < j => f[i] < f[j]
  /\ \A i \in 1..Len(kept) : kept[i] = rs[f[i]] /\ kept[i] \in S
  /\ \A p \in 1..n : rs[p] \in S => \E i \in 1..Len(kept) : f[i] = p

LEMMA PickedByOnly ==
  ASSUME NEW R, NEW rs \in Seq(R), NEW S
  PROVE  Tester!Only(rs, S) \in Seq(R) /\ \E f : Picked(f, Tester!Only(rs, S), rs, S, Len(rs))
<1>0. Len(rs) \in Nat /\ \A i \in 1..Len(rs) : rs[i] \in R
  OBVIOUS
<1>1. PICK kept : ByPrefix(kept, rs, S, R) /\ Tester!Only(rs, S) = kept[Len(rs)]
  BY OnlyByPrefix
<1> DEFINE Done == {n \in Nat : n <= Len(rs) => \E f : Picked(f, kept[n], rs, S, n)}
<1>2. 0 \in Done
  <2> DEFINE e == [i \in 1..0 |-> 0]
  <2>1. Picked(e, <<>>, rs, S, 0)
    BY DEF Picked
  <2> HIDE DEF e
  <2> QED BY <2>1, <1>1 DEF ByPrefix
<1>3. ASSUME NEW n \in Nat, n \in Done PROVE n + 1 \in Done
  <2> SUFFICES ASSUME n + 1 <= Len(rs) PROVE \E f : Picked(f, kept[n + 1], rs, S, n + 1)
    OBVIOUS
  <2>1. PICK f : Picked(f, kept[n], rs, S, n)
    BY <1>0, <1>3
  <2>2. n + 1 \in 1..Len(rs) /\ (n + 1) - 1 = n /\ kept[n] \in Seq(R)
    <3>1. n + 1 \in 1..Len(rs) /\ (n + 1) - 1 = n /\ n \in 0..Len(rs)
      BY <1>0
    <3>2. kept \in [0..Len(rs) -> Seq(R)]
      BY <1>1 DEF ByPrefix
    <3> QED BY <3>1, <3>2
  <2>3. PICK s \in Seq(R) : s = kept[n]
    BY <2>2
  <2>4. CASE rs[n + 1] \notin S
    <3>1. kept[n + 1] = s
      BY <1>1, <2>2, <2>3, <2>4 DEF ByPrefix
    <3>2. /\ f \in [1..Len(s) -> 1..n] /\ Picked(f, s, rs, S, n)
          /\ \A p \in 1..(n + 1) : p \in 1..n \/ p = n + 1
      BY <2>1, <2>3 DEF Picked
    <3>3. f \in [1..Len(s) -> 1..(n + 1)]
      BY <3>2
    <3>4. \A p \in 1..(n + 1) : rs[p] \in S => \E i \in 1..Len(s) : f[i] = p
      BY <2>4, <3>2 DEF Picked
    <3>5. Picked(f, s, rs, S, n + 1)
      BY <3>2, <3>3, <3>4 DEF Picked
    <3> QED BY <3>1, <3>5
  <2>5. CASE rs[n + 1] \in S
    <3>1. PICK t \in Seq(R) : t = kept[n + 1] /\ t = Append(s, rs[n + 1])
      <4>1. kept[n + 1] = Append(s, rs[n + 1])
        BY <1>1, <2>2, <2>3, <2>5 DEF ByPrefix
      <4>2. rs[n + 1] \in R
        BY <1>0, <2>2
      <4>3. Append(s, rs[n + 1]) \in Seq(R)
        BY <4>2
      <4> QED BY <4>1, <4>3
    <3>2. /\ Len(t) = Len(s) + 1 /\ Len(s) \in Nat
          /\ \A i \in 1..Len(s) : t[i] = s[i]
          /\ t[Len(s) + 1] = rs[n + 1]
      BY <3>1, <1>0, <2>2
    <3> DEFINE g == [i \in 1..Len(t) |-> IF i <= Len(s) THEN f[i] ELSE n + 1]
    <3>3. /\ f \in [1..Len(s) -> 1..n]
          /\ \A i, j \in 1..Len(s) : i < j => f[i] < f[j]
          /\ \A i \in 1..Len(s) : s[i] = rs[f[i]] /\ s[i] \in S
          /\ \A p \in 1..n : rs[p] \in S => \E i \in 1..Len(s) : f[i] = p
      BY <2>1, <2>3 DEF Picked
    <3>4a. \A i \in 1..Len(t) : g[i] = IF i <= Len(s) THEN f[i] ELSE n + 1
      OBVIOUS
    <3>4b. /\ \A i \in 1..Len(s) : i \in 1..Len(t) /\ i <= Len(s)
          /\ Len(s) + 1 \in 1..Len(t) /\ ~(Len(s) + 1 <= Len(s))
          /\ \A i \in 1..Len(t) : i \in 1..Len(s) \/ i = Len(s) + 1
      BY <3>2
    <3>4. /\ \A i \in 1..Len(s) : i \in 1..Len(t) /\ g[i] = f[i] /\ g[i] \in 1..n
          /\ g[Len(s) + 1] = n + 1 /\ Len(s) + 1 \in 1..Len(t)
          /\ \A i \in 1..Len(t) : i \in 1..Len(s) \/ i = Len(s) + 1
      <4> HIDE DEF g
      <4> QED BY <3>4a, <3>4b, <3>3
    <3>5. g \in [1..Len(t) -> 1..(n + 1)]
      <4>1. ASSUME NEW i \in 1..Len(t)
            PROVE  (IF i <= Len(s) THEN f[i] ELSE n + 1) \in 1..(n + 1)
        <5>1. CASE i <= Len(s)
          <6>1. i \in 1..Len(s) /\ f[i] \in 1..n
            BY <5>1, <3>2, <3>3
          <6> QED BY <6>1, <5>1
        <5> QED BY <5>1
      <4> QED BY <4>1
    <3> HIDE DEF g
    <3>6. \A i, j \in 1..Len(t) : i < j => g[i] < g[j]
      BY <3>2, <3>3, <3>4
    <3>7. \A i \in 1..Len(t) : t[i] = rs[g[i]] /\ t[i] \in S
      BY <3>2, <3>3, <3>4, <2>5
    <3>8. ASSUME NEW p \in 1..(n + 1), rs[p] \in S PROVE \E i \in 1..Len(t) : g[i] = p
      <4>1. CASE p = n + 1
        BY <4>1, <3>4
      <4>2. CASE p \in 1..n
        <5>1. PICK i \in 1..Len(s) : f[i] = p
          BY <4>2, <3>3, <3>8
        <5> QED BY <5>1, <3>4
      <4> QED BY <4>1, <4>2
    <3>9. Picked(g, t, rs, S, n + 1)
      BY <3>5, <3>6, <3>7, <3>8 DEF Picked
    <3> QED BY <3>1, <3>9
  <2> QED BY <2>4, <2>5
<1>4. Nat \subseteq Done
  <2> HIDE DEF Done
  <2> QED BY <1>2, <1>3, SetInduction
<1>5. \E f : Picked(f, kept[Len(rs)], rs, S, Len(rs))
  BY <1>4, <1>0
<1>6. Tester!Only(rs, S) \in Seq(R)
  BY <1>0, <1>1 DEF ByPrefix
<1> QED BY <1>1, <1>5, <1>6

(* It keeps those of rs that are in S, in their order.                     *)
LEMMA OnlyRange ==
  ASSUME NEW R, NEW rs \in Seq(R), NEW S
  PROVE  /\ Tester!Only(rs, S) \in Seq(R)
         /\ Range(Tester!Only(rs, S)) = Range(rs) \cap S
<1>1. PICK s \in Seq(R) : s = Tester!Only(rs, S)
  BY PickedByOnly
<1>2. PICK f : Picked(f, s, rs, S, Len(rs))
  BY <1>1, PickedByOnly
<1>3. DOMAIN s = 1..Len(s) /\ DOMAIN rs = 1..Len(rs)
  OBVIOUS
<1>4. \A x \in Range(s) : x \in Range(rs) \cap S
  BY <1>2, <1>3 DEF Picked, Range
<1>5. ASSUME NEW x \in Range(rs) \cap S PROVE x \in Range(s)
  <2>1. PICK p \in 1..Len(rs) : rs[p] = x /\ rs[p] \in S
    BY <1>3 DEF Range
  <2>2. PICK i \in 1..Len(s) : f[i] = p
    BY <2>1, <1>2 DEF Picked
  <2>3. s[i] = x
    BY <2>1, <2>2, <1>2 DEF Picked
  <2> QED BY <2>3, <1>3 DEF Range
<1> QED BY <1>1, <1>4, <1>5

Unrepeated(s) == \A i, j \in DOMAIN s : i # j => s[i] # s[j]
LEMMA OnlyUnrepeated ==
  ASSUME NEW R, NEW rs \in Seq(R), NEW S, Unrepeated(rs)
  PROVE  Unrepeated(Tester!Only(rs, S))
<1>1. PICK s \in Seq(R) : s = Tester!Only(rs, S)
  BY PickedByOnly
<1>2. PICK f : Picked(f, s, rs, S, Len(rs))
  BY <1>1, PickedByOnly
<1>3. DOMAIN s = 1..Len(s) /\ DOMAIN rs = 1..Len(rs) /\ Len(s) \in Nat /\ Len(rs) \in Nat
  OBVIOUS
<1>4. ASSUME NEW i \in 1..Len(s), NEW j \in 1..Len(s), i # j PROVE s[i] # s[j]
  <2>1. f[i] \in 1..Len(rs) /\ f[j] \in 1..Len(rs) /\ (f[i] < f[j] \/ f[j] < f[i])
    <3>1. i < j \/ j < i
      BY <1>4
    <3> QED BY <3>1, <1>2 DEF Picked
  <2>2. f[i] # f[j]
    BY <2>1
  <2> QED BY <2>1, <2>2, <1>2, <1>3 DEF Picked, Unrepeated
<1> QED BY <1>1, <1>3, <1>4 DEF Unrepeated

(* The number of elements of a sequence that has none twice.               *)
LEMMA LengthOfUnrepeated ==
  ASSUME NEW R, NEW s \in Seq(R), Unrepeated(s)
  PROVE  IsFiniteSet(Range(s)) /\ Cardinality(Range(s)) = Len(s)
<1>1. DOMAIN s = 1..Len(s) /\ Len(s) \in Nat
  OBVIOUS
<1>2. s \in Bijection(1..Len(s), Range(s))
  <2>1. s \in [1..Len(s) -> Range(s)]
    BY <1>1 DEF Range
  <2> QED BY <1>1, <2>1 DEF Bijection, Injection, Surjection, IsInjective, Range, Unrepeated
<1>3. IsFiniteSet(1..Len(s)) /\ Cardinality(1..Len(s)) = Len(s)
  BY <1>1, FS_Interval
<1> QED BY <1>2, <1>3, FS_Bijection DEF ExistsBijection

-----------------------------------------------------------------------------
(* The tests of a list of resolvers.                                       *)
Answering == {r \in Resolvers : Tester!Answers(r)}
TestPlaces ==
  {"none", "waiting", "acquired", "checked", "testing", "passed", "failed", "done"}
TestResults == [resolver : Resolvers, success : BOOLEAN]
Success(r) == [resolver |-> r, success |-> TRUE]

TesterTypes ==
  /\ mode \in {"auto", "best", "first"}
  /\ delay \in [Resolvers -> TesterLatencies \cup {None}]
  /\ tunnel \in [Resolvers -> {"made", "late", "error"}]
  /\ \A r \in Resolvers : ~Tester!Answers(r) => tunnel[r] = "error"
  /\ tester \in {"phase1", "phase2", "draining", "returned"}
  /\ at \in [Resolvers -> TestPlaces]
  /\ maker \in [Resolvers -> {"none", "running", "failed", "open", "closed"}]
  /\ results \in Seq(TestResults) /\ answered \subseteq Resolvers
  /\ chosen \in Seq(Resolvers) /\ winner \in Resolvers \cup {None} /\ ended \in BOOLEAN

(* A maker runs for a test that waits for it, or that has timed out.       *)
MakersOwned ==
  \A r \in Resolvers :
    /\ tester = "phase1" \/ at[r] \in {"waiting", "acquired", "checked"} => maker[r] = "none"
    /\ maker[r] \in {"running", "open"} => at[r] = "testing" \/ tunnel[r] = "late"
    /\ maker[r] = "open" => tunnel[r] # "error"
    /\ maker[r] = "failed" => tunnel[r] = "error"
    /\ maker[r] = "open" /\ at[r] = "testing" => tunnel[r] = "made"

(* One by one, there is one test at a time and none is called off.         *)
OneTest ==
  Tester!OneByOne =>
    /\ tester # "draining" /\ ~ended
    /\ tester # "phase1" => results = <<>> /\ \A q, r \in Tester!Busy : q = r

(* A success that the caller sees is the first one, and ends the tests.    *)
FirstSuccess ==
  /\ tester \in {"phase1", "phase2"} => winner = None /\ ~ended
  /\ tester = "draining" => winner # None
  /\ winner # None => winner \in Range(chosen) /\ tunnel[winner] = "made"

(* In phase 1, an answer is on its way to the results.                     *)
Phase1Accounts ==
  tester = "phase1" =>
    /\ mode # "first" /\ answered \subseteq Answering
    /\ \A r \in Resolvers :
         /\ at[r] \in {"waiting", "passed", "failed", "done"}
         /\ at[r] = "passed" => r \in Answering
         /\ at[r] = "failed" => r \notin Answering
         /\ at[r] = "done" /\ r \in Answering => r \in answered \/ Success(r) \in Range(results)
    /\ \A x \in Range(results) : x.success => x.resolver \in Answering

(* In phase 2, so is a tunnel that came up, as long as none has arrived.   *)
Phase2Accounts ==
  tester # "phase1" =>
    /\ \A r \in Resolvers :
         /\ at[r] # "none" => r \in Range(chosen)
         /\ at[r] = "passed" => tunnel[r] = "made"
         /\ at[r] = "failed" => tunnel[r] # "made"
         /\ tester = "phase2" =>
              /\ r \in Range(chosen) => at[r] # "none"
              /\ at[r] = "done" /\ tunnel[r] = "made" => Success(r) \in Range(results)
    /\ \A x \in Range(results) :
         x.resolver \in Range(chosen) /\ (x.success => tunnel[x.resolver] = "made")
    /\ tester = "returned" /\ winner = None => \A r \in Range(chosen) : tunnel[r] # "made"

(* The candidates are all that the mode promises to try.                   *)
ChosenWell ==
  tester # "phase1" =>
    /\ Unrepeated(chosen)
    /\ \A r \in Resolvers : Tester!Promised(r) => r \in Range(chosen)

TesterIInv ==
  /\ TesterTypes /\ MakersOwned /\ OneTest /\ FirstSuccess
  /\ Phase1Accounts /\ Phase2Accounts /\ ChosenWell

(* ResolverTester's Range is the same as this module's.                    *)
LEMMA TesterRange == \A s : Tester!Range(s) = Range(s)
BY DEF Tester!Range, Range

LEMMA TesterCardinality == \A S : Tester!Cardinality(S) = Cardinality(S)
BY DEF Tester!Cardinality, Cardinality

(* A sorted list of a set has its elements once.                           *)
LEMMA ListOfSet ==
  ASSUME NEW S \in SUBSET Resolvers, NEW rs \in Tester!SetToSeqs(S)
  PROVE  rs \in Seq(Resolvers) /\ Range(rs) = S /\ Unrepeated(rs)
<1> DEFINE n == Cardinality(S)
<1>1. IsFiniteSet(S) /\ n \in Nat
  BY ResolverAssumption, FS_Subset, FS_CardinalityType
<1>2. rs \in [1..n -> S] /\ \A i, j \in 1..n : i # j => rs[i] # rs[j]
  BY TesterCardinality DEF Tester!SetToSeqs
<1>3. rs \in Injection(1..n, S)
  BY <1>2 DEF Injection, IsInjective
<1>4. Cardinality(1..n) = n
  BY <1>1, FS_Interval
<1> HIDE DEF n
<1>5. rs \in Surjection(1..n, S)
  BY <1>1, <1>3, <1>4, FS_Injection DEF n
<1>6. Range(rs) = S
  BY <1>2, <1>5 DEF Surjection, Range
<1>7. rs \in Seq(Resolvers)
  BY <1>1, <1>2, SeqDef
<1> QED BY <1>2, <1>6, <1>7 DEF Unrepeated

LEMMA SortedList ==
  ASSUME NEW S \in SUBSET Resolvers, NEW rs \in Tester!Sorted(S)
  PROVE  /\ rs \in Seq(Resolvers) /\ Range(rs) = S /\ Unrepeated(rs)
         /\ \A i, j \in DOMAIN rs : i < j => delay[rs[i]] <= delay[rs[j]]
BY ListOfSet DEF Tester!Sorted

(* A list that is cut off at limit has all that fewer than limit precede.  *)
LEMMA KeptByLimit ==
  ASSUME NEW s \in Seq(Resolvers), Unrepeated(s),
         NEW Q \in SUBSET Resolvers, NEW r \in Resolvers,
         NEW p \in 1..Len(s), s[p] = r, \A i \in 1..p : s[i] \in Q,
         Cardinality(Q) <= MaxToTest
  PROVE  p <= MaxToTest
<1>1. IsFiniteSet(Q) /\ p \in Nat /\ Len(s) \in Nat /\ DOMAIN s = 1..Len(s)
  BY ResolverAssumption, FS_Subset
<1> DEFINE f == [i \in 1..p |-> s[i]]
<1>2. f \in [1..p -> Q]
  OBVIOUS
<1>3. \A i, j \in 1..p : i # j => f[i] # f[j]
  BY <1>1 DEF Unrepeated
<1>4. f \in Injection(1..p, Q)
  <2> HIDE DEF f
  <2> QED BY <1>2, <1>3 DEF Injection, IsInjective
<1>5. Cardinality(1..p) = p
  BY <1>1, FS_Interval
<1> HIDE DEF f
<1>6. p <= Cardinality(Q)
  BY <1>1, <1>4, <1>5, FS_Injection
<1>7. Cardinality(Q) \in Nat /\ MaxToTest \in Nat
  BY <1>1, FS_CardinalityType, ResolverAssumption
<1> QED BY <1>1, <1>6, <1>7

(* What is chosen of the resolvers that answer is what the mode promises.  *)
LEMMA ChooseKeeps ==
  ASSUME TesterTypes, mode # "first", NEW rs \in Tester!Sorted(Answering)
  PROVE  /\ Tester!Choose(rs) \in Seq(Resolvers) /\ Unrepeated(Tester!Choose(rs))
         /\ \A r \in Resolvers : Tester!Promised(r) => r \in Range(Tester!Choose(rs))
<1>1. /\ rs \in Seq(Resolvers) /\ Range(rs) = Answering /\ Unrepeated(rs)
      /\ \A i, j \in DOMAIN rs : i < j => delay[rs[i]] <= delay[rs[j]]
  BY SortedList DEF Answering
<1>2. CASE mode = "auto"
  <2> DEFINE fast == {r \in Range(rs) : Tester!Fast(r)}
  <2>1. Tester!Choose(rs) = IF fast # {} THEN Tester!Only(rs, fast) ELSE rs
    BY <1>2, TesterRange DEF Tester!Choose
  <2>2. CASE fast # {}
    <3>1. Range(Tester!Only(rs, fast)) = fast
      BY <1>1, OnlyRange
    <3>2. \A r \in Resolvers : Tester!Promised(r) => r \in fast
      BY <1>1, <1>2, <2>2 DEF Tester!Promised, Answering
    <3> QED BY <1>1, <2>1, <2>2, <3>1, <3>2, OnlyRange, OnlyUnrepeated
  <2>3. CASE fast = {}
    BY <1>1, <2>1, <2>3 DEF Tester!Promised, Answering
  <2> QED BY <2>2, <2>3
<1>3. CASE mode # "auto"
  <2> DEFINE S == {r \in Range(rs) : Tester!NotSlow(r)}
  <2>1. PICK q \in Seq(Resolvers) : q = Tester!Only(rs, S)
    BY <1>1, OnlyRange
  <2>2. Range(q) = S /\ Unrepeated(q)
    BY <1>1, <2>1, OnlyRange, OnlyUnrepeated
  <2>3. Tester!Choose(rs) = IF Len(q) > MaxToTest THEN SubSeq(q, 1, MaxToTest) ELSE q
    BY <1>3, <2>1, TesterRange DEF Tester!Choose
  <2>4. \A i, j \in 1..Len(q) : i < j => delay[q[i]] <= delay[q[j]]
    <3>1. PICK f : Picked(f, q, rs, S, Len(rs))
      BY <1>1, <2>1, PickedByOnly
    <3>2. DOMAIN rs = 1..Len(rs)
      BY <1>1
    <3>3. ASSUME NEW i \in 1..Len(q), NEW j \in 1..Len(q), i < j
          PROVE  delay[q[i]] <= delay[q[j]]
      <4>1. /\ f[i] \in 1..Len(rs) /\ f[j] \in 1..Len(rs) /\ f[i] < f[j]
            /\ q[i] = rs[f[i]] /\ q[j] = rs[f[j]]
        BY <3>1, <3>3 DEF Picked
      <4> QED BY <4>1, <1>1, <3>2
    <3> QED BY <3>3
  <2>5. MaxToTest \in Nat /\ DOMAIN q = 1..Len(q) /\ Len(q) \in Nat
    BY ResolverAssumption
  <2>6. CASE Len(q) > MaxToTest
    <3>1. PICK t \in Seq(Resolvers) : t = SubSeq(q, 1, MaxToTest)
      <4>1. SubSeq(q, 1, MaxToTest) \in Seq(Resolvers)
        BY <2>5, <2>6, SubSeqProperties
      <4> QED BY <4>1
    <3>2. DOMAIN t = 1..MaxToTest /\ \A i \in 1..MaxToTest : i \in 1..Len(q) /\ t[i] = q[i]
      BY <2>5, <2>6, <3>1
    <3>3. Unrepeated(t)
      BY <2>2, <2>5, <3>2 DEF Unrepeated
    <3>4. ASSUME NEW r \in Resolvers, Tester!Promised(r) PROVE r \in Range(t)
      <4> DEFINE Q == {x \in Resolvers : Tester!Answers(x) /\ delay[x] <= delay[r]}
      <4>1. Tester!Answers(r) /\ Tester!NotSlow(r) /\ Cardinality(Q) <= MaxToTest
        <5>1. Cardinality(Q) \in Nat
          BY ResolverAssumption, FS_Subset, FS_CardinalityType
        <5>2. mode = "best"
          BY <1>3 DEF TesterTypes
        <5> QED BY <3>4, <5>1, <5>2, <2>5, TesterCardinality DEF Tester!Promised
      <4>2. PICK p \in 1..Len(q) : q[p] = r
        <5>1. r \in Range(q)
          BY <1>1, <2>2, <4>1 DEF Answering
        <5> QED BY <5>1, <2>5 DEF Range
      <4>3. ASSUME NEW i \in 1..p PROVE q[i] \in Q
        <5>1. i \in 1..Len(q) /\ p \in 1..Len(q) /\ (i < p \/ i = p)
          BY <2>5
        <5>2. q[i] \in Answering
          BY <5>1, <2>2, <2>5, <1>1 DEF Range
        <5>3. delay[r] \in Nat
          BY <4>1, TesterAssumption DEF TesterTypes, Tester!Answers
        <5>4. delay[q[i]] <= delay[r]
          BY <5>1, <5>3, <2>4, <4>2
        <5> QED BY <5>2, <5>4 DEF Answering
      <4> HIDE DEF Q
      <4>4. Q \in SUBSET Resolvers
        BY DEF Q
      <4>5. p <= MaxToTest
        BY <2>2, <4>1, <4>2, <4>3, <4>4, KeptByLimit
      <4>6. p \in 1..MaxToTest /\ t[p] = r
        BY <2>5, <3>2, <4>2, <4>5
      <4> QED BY <3>2, <4>6 DEF Range
    <3> QED BY <2>3, <2>6, <3>1, <3>3, <3>4
  <2>7. CASE ~(Len(q) > MaxToTest)
    <3>1. ASSUME NEW r \in Resolvers, Tester!Promised(r) PROVE r \in S
      <4>1. mode = "best"
        BY <1>3 DEF TesterTypes
      <4> QED BY <3>1, <4>1, <1>1 DEF Tester!Promised, Answering
    <3> QED BY <2>2, <2>3, <2>7, <3>1
  <2> QED BY <2>6, <2>7
<1> QED BY <1>2, <1>3

(* A step of a test, which leaves the caller and the results alone.        *)
Tests(r) ==
  \/ Tester!TestDNSResolver(r) \/ Tester!Acquire(r) \/ Tester!Stop(r) \/ Tester!Recheck(r)
  \/ Tester!Test(r) \/ Tester!TestNext(r) \/ Tester!Make(r) \/ Tester!TestWorks(r) \/ Tester!TestFails(r)
  \/ Tester!Continue(r)

LEMMA TestsInv ==
  ASSUME TesterIInv, NEW r \in Resolvers, Tests(r)
  PROVE  TesterIInv'
<1> USE DEF TesterIInv, Tests, Tester!GoTo, Tester!inputs, Tester!BeginTest,
            Tester!TestDNSResolver, Tester!Acquire, Tester!Stop, Tester!Recheck,
            Tester!Test, Tester!TestNext, Tester!Make, Tester!TestWorks, Tester!TestFails,
            Tester!Continue
<1>1. TesterTypes'
  BY DEF TesterTypes, TestPlaces, Tester!Answers
<1>2. MakersOwned'
  BY DEF TesterTypes, MakersOwned, Phase1Accounts
<1>3. OneTest'
  BY DEF TesterTypes, OneTest, Tester!Busy, Tester!OneByOne
<1>4. FirstSuccess'
  BY DEF FirstSuccess
<1>5. Phase1Accounts'
  BY DEF TesterTypes, FirstSuccess, Phase1Accounts, Answering, Tester!Answers
<1>6. Phase2Accounts'
  BY DEF TesterTypes, MakersOwned, FirstSuccess, Phase1Accounts, Phase2Accounts
<1>7. ChosenWell'
  BY DEF ChosenWell, Tester!Promised, Tester!Answers, Tester!Fast, Tester!NotSlow, Unrepeated
<1> QED BY <1>1, <1>2, <1>3, <1>4, <1>5, <1>6, <1>7

LEMMA RangeOfAppend ==
  ASSUME NEW X, NEW s \in Seq(X), NEW x \in X
  PROVE  Append(s, x) \in Seq(X) /\ Range(Append(s, x)) = Range(s) \cup {x}
<1>1. PICK t \in Seq(X) : t = Append(s, x)
  <2>1. Append(s, x) \in Seq(X)
    OBVIOUS
  <2> QED BY <2>1
<1>2. /\ Len(t) = Len(s) + 1 /\ Len(s) \in Nat /\ DOMAIN s = 1..Len(s) /\ DOMAIN t = 1..Len(t)
      /\ \A i \in 1..Len(s) : t[i] = s[i]
      /\ t[Len(s) + 1] = x
  BY <1>1
<1>3. \A y \in Range(s) : y \in Range(t)
  <2>1. \A i \in 1..Len(s) : i \in 1..Len(t)
    BY <1>2
  <2> QED BY <1>2, <2>1 DEF Range
<1>4. x \in Range(t)
  BY <1>2 DEF Range
<1>5. \A y \in Range(t) : y \in Range(s) \/ y = x
  <2>1. \A i \in 1..Len(t) : i \in 1..Len(s) \/ i = Len(s) + 1
    BY <1>2
  <2> QED BY <1>2, <2>1 DEF Range
<1> QED BY <1>1, <1>3, <1>4, <1>5

LEMMA RangeOfTail ==
  ASSUME NEW X, NEW s \in Seq(X), s # <<>>
  PROVE  /\ Tail(s) \in Seq(X) /\ Head(s) \in X
         /\ Range(s) = {Head(s)} \cup Range(Tail(s))
<1>1. PICK t \in Seq(X) : t = Tail(s)
  <2>1. Tail(s) \in Seq(X)
    OBVIOUS
  <2> QED BY <2>1
<1>2. /\ Len(s) \in Nat \ {0} /\ Len(t) = Len(s) - 1
      /\ DOMAIN s = 1..Len(s) /\ DOMAIN t = 1..Len(t)
      /\ \A i \in 1..Len(t) : t[i] = s[i + 1]
      /\ Head(s) = s[1] /\ s[1] \in X
  BY <1>1
<1>3. \A i \in 1..Len(t) : i + 1 \in 1..Len(s)
  BY <1>2
<1>4. \A i \in 1..Len(s) : i = 1 \/ (i - 1 \in 1..Len(t) /\ (i - 1) + 1 = i)
  BY <1>2
<1>5. 1 \in 1..Len(s)
  BY <1>2
<1>6. \A y \in Range(t) : y \in Range(s)
  BY <1>2, <1>3 DEF Range
<1>7. ASSUME NEW i \in 1..Len(s), i # 1 PROVE s[i] \in Range(t)
  <2>1. PICK j \in 1..Len(t) : j + 1 = i
    BY <1>4, <1>7
  <2>2. t[j] = s[i]
    BY <1>2, <2>1
  <2> QED BY <1>2, <2>2 DEF Range
<1>9. \A y \in Range(s) : y = s[1] \/ y \in Range(t)
  BY <1>2, <1>7 DEF Range
<1>8. s[1] \in Range(s)
  BY <1>2, <1>5 DEF Range
<1> QED BY <1>1, <1>2, <1>6, <1>9, <1>8

(* A test puts its result in the channel.                                  *)
LEMMA ReportsInv ==
  ASSUME TesterIInv, NEW r \in Resolvers, Tester!Report1(r) \/ Tester!Report2(r)
  PROVE  TesterIInv'
<1> DEFINE x == [resolver |-> r, success |-> at[r] = "passed"]
<1> USE DEF TesterIInv, Tester!GoTo, Tester!inputs, Tester!Report1, Tester!Report2
<1>1. x \in TestResults /\ (at[r] = "passed" => x = Success(r))
  BY DEF TestResults, Success
<1>2. /\ Append(results, x) \in Seq(TestResults)
      /\ Range(Append(results, x)) = Range(results) \cup {x}
  BY <1>1, RangeOfAppend DEF TesterTypes
<1>3. /\ x.resolver = r /\ (x.success <=> at[r] = "passed")
      /\ at[r] \in {"passed", "failed"} /\ at' = [at EXCEPT ![r] = "done"]
      /\ results' = Append(results, x) \/ (results' = results /\ ended)
  OBVIOUS
<1>4. results' \in Seq(TestResults) /\ Range(results') \subseteq Range(results) \cup {x}
  BY <1>2, <1>3 DEF TesterTypes
<1>5. tester \in {"phase1", "phase2"} => Range(results') = Range(results) \cup {x}
  BY <1>2, <1>3 DEF FirstSuccess
<1>6. TesterTypes'
  BY <1>4 DEF TesterTypes, TestPlaces, Tester!Answers
<1>7. MakersOwned'
  BY DEF TesterTypes, MakersOwned, Phase1Accounts
<1>8. OneTest'
  BY DEF TesterTypes, OneTest, Tester!Busy, Tester!OneByOne
<1>9. FirstSuccess'
  BY DEF FirstSuccess
<1>10. Phase1Accounts'
  <2> SUFFICES ASSUME tester = "phase1" PROVE Phase1Accounts'
    BY DEF Phase1Accounts
  <2>1. \A q \in Resolvers :
          /\ at'[q] \in {"waiting", "passed", "failed", "done"}
          /\ at'[q] = "passed" => q \in Answering
          /\ at'[q] = "failed" => q \notin Answering
          /\ at'[q] = "done" /\ q \in Answering => q \in answered \/ Success(q) \in Range(results')
    BY <1>1, <1>3, <1>5 DEF TesterTypes, Phase1Accounts
  <2>2. \A y \in Range(results') : y.success => y.resolver \in Answering
    BY <1>3, <1>5 DEF Phase1Accounts
  <2> QED BY <2>1, <2>2 DEF Phase1Accounts, Answering, Tester!Answers
<1>11. Phase2Accounts'
  <2> SUFFICES ASSUME tester # "phase1" PROVE Phase2Accounts'
    BY DEF Phase2Accounts
  <2>1. \A q \in Resolvers :
          /\ at'[q] # "none" => q \in Range(chosen)
          /\ at'[q] = "passed" => tunnel[q] = "made"
          /\ at'[q] = "failed" => tunnel[q] # "made"
          /\ tester = "phase2" =>
               /\ q \in Range(chosen) => at'[q] # "none"
               /\ at'[q] = "done" /\ tunnel[q] = "made" => Success(q) \in Range(results')
    BY <1>1, <1>3, <1>5 DEF TesterTypes, Phase2Accounts
  <2>2. \A y \in Range(results') :
          y.resolver \in Range(chosen) /\ (y.success => tunnel[y.resolver] = "made")
    BY <1>3, <1>4 DEF Phase2Accounts
  <2> QED BY <2>1, <2>2 DEF Phase2Accounts
<1>12. ChosenWell'
  BY DEF ChosenWell, Tester!Promised, Tester!Answers, Tester!Fast, Tester!NotSlow, Unrepeated
<1> QED BY <1>6, <1>7, <1>8, <1>9, <1>10, <1>11, <1>12

(* The caller takes a result from it.                                      *)
LEMMA CollectInv ==
  ASSUME TesterIInv, Tester!Collect1 \/ Tester!Collect2 \/ Tester!Drain
  PROVE  TesterIInv'
<1> USE DEF TesterIInv, Tester!inputs, Tester!Collect1, Tester!Collect2, Tester!Drain
<1>1. PICK x \in TestResults : x = Head(results)
  BY RangeOfTail DEF TesterTypes
<1>2. PICK rest \in Seq(TestResults) : rest = Tail(results)
  BY RangeOfTail DEF TesterTypes
<1>3. results' = rest /\ Range(results) = {x} \cup Range(rest)
  BY <1>1, <1>2, RangeOfTail DEF TesterTypes
<1>4. x.resolver \in Resolvers /\ x.success \in BOOLEAN
  BY <1>1 DEF TestResults
<1>5. \A r \in Resolvers : x = Success(r) => x.success /\ x.resolver = r
  BY DEF Success
<1>6. TesterTypes'
  BY <1>1, <1>3, <1>4 DEF TesterTypes, Tester!Answers
<1>7. MakersOwned'
  BY DEF TesterTypes, MakersOwned
<1>8. OneTest'
  BY DEF OneTest, Tester!Busy, Tester!OneByOne
<1>9. FirstSuccess'
  <2>1. CASE tester = "phase2" /\ x.success
    <3>1. winner' = x.resolver /\ ended' /\ tester' = "draining"
      BY <1>1, <2>1
    <3>2. x.resolver \in Range(chosen) /\ tunnel[x.resolver] = "made"
      BY <1>3, <2>1 DEF Phase2Accounts
    <3> QED BY <1>4, <3>1, <3>2, ResolverAssumption DEF FirstSuccess
  <2>2. CASE ~(tester = "phase2" /\ x.success)
    BY <1>1, <2>2 DEF FirstSuccess
  <2> QED BY <2>1, <2>2
<1>10. Phase1Accounts'
  BY <1>1, <1>3, <1>4, <1>5 DEF TesterTypes, Phase1Accounts, Answering, Tester!Answers
<1>11. Phase2Accounts'
  BY <1>1, <1>3, <1>4, <1>5 DEF TesterTypes, Phase2Accounts
<1>12. ChosenWell'
  BY DEF ChosenWell, Tester!Promised, Tester!Answers, Tester!Fast, Tester!NotSlow, Unrepeated
<1> QED BY <1>6, <1>7, <1>8, <1>9, <1>10, <1>11, <1>12

LEMMA EndPhase1Inv ==
  ASSUME TesterIInv, Tester!EndPhase1
  PROVE  TesterIInv'
<1> USE DEF TesterIInv, Tester!inputs, Tester!EndPhase1
<1>1. answered = Answering
  <2>1. Range(results) = {}
    BY DEF Range, TesterTypes
  <2> QED BY <2>1 DEF Phase1Accounts, Tester!AllDone, Answering
<1>2. PICK rs \in Tester!Sorted(Answering) : chosen' = Tester!Choose(rs)
  BY <1>1
<1>3. /\ chosen' \in Seq(Resolvers) /\ Unrepeated(chosen')
      /\ \A r \in Resolvers : Tester!Promised(r) => r \in Range(chosen')
  BY <1>2, ChooseKeeps DEF Phase1Accounts
<1>4. at' = [r \in Resolvers |-> IF r \in Range(chosen') THEN "waiting" ELSE "none"]
  BY TesterRange DEF Tester!Waiting
<1>5. TesterTypes'
  BY <1>3, <1>4 DEF TesterTypes, TestPlaces, Tester!Answers
<1>6. MakersOwned'
  BY DEF MakersOwned
<1>7. OneTest'
  BY <1>4 DEF OneTest, FirstSuccess, Tester!Busy, Tester!OneByOne
<1>8. FirstSuccess'
  BY DEF FirstSuccess
<1>9. Phase1Accounts'
  BY DEF Phase1Accounts
<1>10. Phase2Accounts'
  <2>1. Range(results) = {}
    BY DEF Range, TesterTypes
  <2> QED BY <1>4, <2>1 DEF Phase2Accounts
<1>11. ChosenWell'
  BY <1>3 DEF ChosenWell, Tester!Promised, Tester!Answers, Tester!Fast, Tester!NotSlow
<1> QED BY <1>5, <1>6, <1>7, <1>8, <1>9, <1>10, <1>11

LEMMA ReturnsInv ==
  ASSUME TesterIInv, Tester!Return \/ Tester!ReturnFirst
  PROVE  TesterIInv'
<1> USE DEF TesterIInv, Tester!inputs, Tester!Return, Tester!ReturnFirst
<1>1. TesterTypes'
  BY DEF TesterTypes, TestPlaces, Tester!Answers
<1>2. MakersOwned'
  BY DEF TesterTypes, MakersOwned, OneTest, Tester!Busy, Tester!AllDone
<1>3. OneTest'
  BY DEF OneTest, FirstSuccess, Tester!Busy, Tester!OneByOne
<1>4. FirstSuccess'
  BY DEF FirstSuccess, Phase2Accounts
<1>5. Phase1Accounts'
  BY DEF Phase1Accounts
<1>6. Phase2Accounts'
  <2>1. results = <<>> => Range(results) = {}
    BY DEF Range
  <2>2. ASSUME winner' = None, NEW r \in Range(chosen) PROVE tunnel[r] # "made"
    <3>1. r \in Resolvers
      BY <2>2 DEF TesterTypes, Range
    <3>2. tester = "phase2" /\ Tester!AllDone /\ results = <<>>
      BY <2>2, ResolverAssumption DEF FirstSuccess, OneTest
    <3> QED BY <2>1, <3>1, <3>2 DEF Phase2Accounts, Tester!AllDone
  <2> QED BY <2>1, <2>2 DEF Phase2Accounts
<1>7. ChosenWell'
  BY DEF ChosenWell, Tester!Promised, Tester!Answers, Tester!Fast, Tester!NotSlow, Unrepeated
<1> QED BY <1>1, <1>2, <1>3, <1>4, <1>5, <1>6, <1>7

LEMMA TesterInitInv == Tester!Init => TesterIInv
<1> SUFFICES ASSUME Tester!Init PROVE TesterIInv
  OBVIOUS
<1> USE DEF Tester!Init
<1>1. results = <<>> /\ Range(results) = {}
  BY DEF Range
<1> USE TesterAssumption DEF TestPlaces, Tester!Answers
<1>2. CASE mode = "first"
  <2>1. chosen \in Seq(Resolvers) /\ Range(chosen) = Answering /\ Unrepeated(chosen)
    BY <1>2, ListOfSet DEF Answering
  <2>2. at = [r \in Resolvers |-> IF r \in Answering THEN "waiting" ELSE "none"]
    BY <1>2, <2>1, TesterRange DEF Tester!Waiting
  <2>3. TesterTypes
    <3>1. mode \in {"auto", "best", "first"} /\ delay \in [Resolvers -> TesterLatencies \cup {None}]
      OBVIOUS
    <3>2. tester \in {"phase1", "phase2", "draining", "returned"} /\ at \in [Resolvers -> TestPlaces]
      BY <1>2, <2>2
    <3>3. results \in Seq(TestResults) /\ chosen \in Seq(Resolvers)
      BY <2>1
    <3>4. \A r \in Resolvers : ~Tester!Answers(r) => tunnel[r] = "error"
      OBVIOUS
    <3> QED BY <3>1, <3>2, <3>3, <3>4 DEF TesterTypes
  <2>4. MakersOwned /\ OneTest /\ FirstSuccess
    BY <1>2, <2>1, <2>2 DEF MakersOwned, OneTest, FirstSuccess, Tester!Busy
  <2>5. Phase1Accounts /\ Phase2Accounts /\ ChosenWell
    BY <1>1, <1>2, <2>1, <2>2
       DEF Phase1Accounts, Phase2Accounts, ChosenWell, Answering, Tester!Promised
  <2> QED BY <2>3, <2>4, <2>5 DEF TesterIInv
<1>3. CASE mode # "first"
  <2>1. at = [r \in Resolvers |-> "waiting"]
    BY <1>3 DEF Tester!Waiting
  <2>3. TesterTypes
    <3>1. mode \in {"auto", "best", "first"} /\ delay \in [Resolvers -> TesterLatencies \cup {None}]
      OBVIOUS
    <3>2. tester \in {"phase1", "phase2", "draining", "returned"} /\ at \in [Resolvers -> TestPlaces]
      BY <1>3, <2>1
    <3>3. results \in Seq(TestResults) /\ chosen \in Seq(Resolvers)
      BY <1>3
    <3>4. \A r \in Resolvers : ~Tester!Answers(r) => tunnel[r] = "error"
      OBVIOUS
    <3> QED BY <3>1, <3>2, <3>3, <3>4 DEF TesterTypes
  <2>4. MakersOwned /\ OneTest /\ FirstSuccess
    BY <1>3, <2>1 DEF MakersOwned, OneTest, FirstSuccess, Tester!Busy
  <2>5. Phase1Accounts /\ Phase2Accounts /\ ChosenWell
    BY <1>1, <1>3, <2>1
       DEF Phase1Accounts, Phase2Accounts, ChosenWell, Answering, Tester!Promised
  <2> QED BY <2>3, <2>4, <2>5 DEF TesterIInv
<1> QED BY <1>2, <1>3

LEMMA TesterNextInv == TesterIInv /\ [Tester!Next]_(Tester!vars) => TesterIInv'
<1> SUFFICES ASSUME TesterIInv, [Tester!Next]_(Tester!vars) PROVE TesterIInv'
  OBVIOUS
<1>1. ASSUME NEW r \in Resolvers, Tester!Goroutine(r) \/ Tester!Make(r) PROVE TesterIInv'
  BY <1>1, TestsInv, ReportsInv DEF Tests, Tester!Goroutine
<1>2. CASE Tester!Caller
  BY <1>2, CollectInv, EndPhase1Inv, ReturnsInv DEF Tester!Caller
<1>3. CASE UNCHANGED Tester!vars
  <2>1. TesterTypes' /\ MakersOwned' /\ OneTest' /\ FirstSuccess'
    BY <1>3 DEF Tester!vars, Tester!inputs, TesterIInv, TesterTypes, MakersOwned, OneTest,
                FirstSuccess, Tester!Busy, Tester!OneByOne, Tester!Answers
  <2>2. Phase1Accounts' /\ Phase2Accounts'
    BY <1>3 DEF Tester!vars, Tester!inputs, TesterIInv, Phase1Accounts, Phase2Accounts,
                Answering, Tester!Answers
  <2>3. ChosenWell'
    BY <1>3 DEF Tester!vars, Tester!inputs, TesterIInv, ChosenWell, Tester!Answers,
                Tester!Promised, Tester!Fast, Tester!NotSlow
  <2> QED BY <2>1, <2>2, <2>3 DEF TesterIInv
<1> QED BY <1>1, <1>2, <1>3 DEF Tester!Next

LEMMA TesterAlways == Tester!Spec => []TesterIInv
BY TesterInitInv, TesterNextInv, PTL DEF Tester!Spec

(* A goroutine of phase 2 has a place until its test is over.  Those that  *)
(* have not begun it are no more than the places.                          *)
NotBegun == {r \in Resolvers : at[r] \in {"acquired", "checked"}}
PlacesKept == Cardinality(NotBegun) <= Limit2

LEMMA PlacesKeptNext ==
  ASSUME TesterTypes, PlacesKept, [Tester!Next]_(Tester!vars)
  PROVE  PlacesKept'
<1> USE DEF Tester!GoTo, TesterTypes
<1>1. ASSUME NEW r \in Resolvers, Tester!Acquire(r)
      PROVE  Cardinality(NotBegun') <= Limit2
  <2>1. NotBegun' = NotBegun \cup {r} /\ r \notin NotBegun
    BY <1>1 DEF Tester!Acquire, NotBegun
  <2>2. Cardinality(Tester!Busy) < Limit2
    BY <1>1, TesterCardinality DEF Tester!Acquire
  <2>3. IsFiniteSet(Tester!Busy) /\ NotBegun \in SUBSET Tester!Busy
    BY ResolverAssumption, FS_Subset DEF Tester!Busy, NotBegun
  <2>4. /\ IsFiniteSet(NotBegun) /\ Cardinality(NotBegun) <= Cardinality(Tester!Busy)
        /\ Cardinality(NotBegun) \in Nat /\ Cardinality(Tester!Busy) \in Nat
    BY <2>3, FS_Subset, FS_CardinalityType
  <2>5. Cardinality(NotBegun \cup {r}) = Cardinality(NotBegun) + 1
    BY <2>1, <2>4, FS_AddElement
  <2>6. Cardinality(NotBegun) + 1 <= Limit2
    BY <2>2, <2>4, TesterAssumption
  <2> QED BY <2>1, <2>5, <2>6
<1>2. ASSUME NotBegun' \subseteq NotBegun
      PROVE  Cardinality(NotBegun') <= Limit2
  <2>1. IsFiniteSet(NotBegun)
    BY ResolverAssumption, FS_Subset DEF NotBegun
  <2>2. /\ Cardinality(NotBegun') <= Cardinality(NotBegun)
        /\ Cardinality(NotBegun') \in Nat /\ Cardinality(NotBegun) \in Nat
    BY <1>2, <2>1, FS_Subset, FS_CardinalityType
  <2> QED BY <2>2, TesterAssumption DEF PlacesKept
<1>3. ASSUME NEW r \in Resolvers,
             Tester!TestDNSResolver(r) \/ Tester!Stop(r) \/ Tester!Recheck(r) \/ Tester!Test(r)
             \/ Tester!TestNext(r) \/ Tester!Make(r)
      PROVE  NotBegun' \subseteq NotBegun
  BY <1>3 DEF NotBegun, Tester!BeginTest, Tester!TestDNSResolver, Tester!Stop, Tester!Recheck,
              Tester!Test, Tester!TestNext, Tester!Make
<1>4. ASSUME NEW r \in Resolvers,
             Tester!TestWorks(r) \/ Tester!TestFails(r) \/ Tester!Continue(r)
             \/ Tester!Report1(r) \/ Tester!Report2(r)
      PROVE  NotBegun' \subseteq NotBegun
  BY <1>4 DEF NotBegun, Tester!TestWorks, Tester!TestFails, Tester!Continue, Tester!Report1,
              Tester!Report2
<1>5. ASSUME Tester!Caller \/ UNCHANGED Tester!vars
      PROVE  NotBegun' \subseteq NotBegun
  BY <1>5 DEF NotBegun, Tester!Caller, Tester!Collect1, Tester!Collect2, Tester!Drain,
              Tester!EndPhase1, Tester!Return, Tester!ReturnFirst, Tester!Waiting, Tester!vars
<1> QED BY <1>1, <1>2, <1>3, <1>4, <1>5 DEF PlacesKept, Tester!Next, Tester!Goroutine

LEMMA PlacesAlwaysKept == Tester!Spec => []PlacesKept
<1>1. Tester!Init => PlacesKept
  <2> SUFFICES ASSUME Tester!Init PROVE Cardinality(NotBegun) <= Limit2
    BY DEF PlacesKept
  <2>1. NotBegun = {}
    BY DEF Tester!Init, Tester!Waiting, NotBegun
  <2> QED BY <2>1, FS_EmptySet, TesterAssumption
<1>2. TesterIInv => TesterTypes
  BY DEF TesterIInv
<1> QED BY <1>1, <1>2, PlacesKeptNext, TesterAlways, PTL DEF Tester!Spec

(* Once a working resolver is found, what has not begun and is not on its  *)
(* way stays so: who is let in later looks at ctx again, and one by one    *)
(* nothing is ever called off.                                             *)
CalledOff(r) == ended /\ r \notin Tester!Begun \cup Tester!OnTheirWay

LEMMA StaysCalledOff ==
  ASSUME NEW q \in Resolvers, TesterIInv, CalledOff(q), [Tester!Next]_(Tester!vars)
  PROVE  CalledOff(q)'
<1> USE DEF CalledOff, Tester!Begun, Tester!OnTheirWay, Tester!GoTo, TesterIInv, TesterTypes
<1>1. ASSUME NEW r \in Resolvers, Tests(r) PROVE CalledOff(q)'
  BY <1>1 DEF Tests, Tester!BeginTest, OneTest, Tester!TestDNSResolver, Tester!Acquire,
              Tester!Stop, Tester!Recheck, Tester!Test, Tester!TestNext, Tester!Make,
              Tester!TestWorks, Tester!TestFails, Tester!Continue
<1>2. ASSUME NEW r \in Resolvers, Tester!Report1(r) \/ Tester!Report2(r)
      PROVE  CalledOff(q)'
  BY <1>2 DEF Tester!Report1, Tester!Report2
<1>3. ASSUME Tester!Caller \/ UNCHANGED Tester!vars PROVE CalledOff(q)'
  BY <1>3 DEF Tester!Caller, Tester!Collect1, Tester!Collect2, Tester!Drain, Tester!EndPhase1,
              Tester!Return, Tester!ReturnFirst, Tester!Waiting, Tester!vars
<1> QED BY <1>1, <1>2, <1>3 DEF Tester!Next, Tester!Goroutine, Tests

(* "Stops testing once a working resolver is found"                        *)
(* (resolver_tester.go:348): whenever that is, the tests that begin after  *)
(* it are those of goroutines that were on their way, as many as there are *)
(* places.                                                                 *)
THEOREM TestsStop == Tester!Spec => StopsTesting
<1> DEFINE Off(r) == [](ended /\ r \notin Tester!Begun \cup Tester!OnTheirWay
                         => [](r \notin Tester!Begun))
<1>1. ASSUME NEW r \in Resolvers PROVE Tester!Spec => Off(r)
  <2>1. TesterIInv /\ CalledOff(r) /\ [Tester!Next]_(Tester!vars) => CalledOff(r)'
    BY StaysCalledOff
  <2>2. ended /\ r \notin Tester!Begun \cup Tester!OnTheirWay => CalledOff(r)
    BY DEF CalledOff
  <2>3. CalledOff(r) => r \notin Tester!Begun
    BY DEF CalledOff
  <2> QED BY <2>1, <2>2, <2>3, TesterAlways, PTL DEF Tester!Spec
<1>2. Tester!Spec => [](Tester!Cardinality(Tester!OnTheirWay) <= Limit2)
  <2>1. PlacesKept => Tester!Cardinality(Tester!OnTheirWay) <= Limit2
    <3>1. IsFiniteSet(NotBegun) /\ Tester!OnTheirWay \in SUBSET NotBegun
      BY ResolverAssumption, FS_Subset DEF Tester!OnTheirWay, NotBegun
    <3>2. /\ Cardinality(Tester!OnTheirWay) <= Cardinality(NotBegun)
          /\ Cardinality(Tester!OnTheirWay) \in Nat /\ Cardinality(NotBegun) \in Nat
      BY <3>1, FS_Subset, FS_CardinalityType
    <3> QED BY <3>2, TesterCardinality, TesterAssumption DEF PlacesKept
  <2> QED BY <2>1, PlacesAlwaysKept, PTL
<1> QED BY <1>1, <1>2, Zenon DEF StopsTesting, Tester!StopsTesting

(* "Tunnel created successfully, close it" (resolver_tester.go:332): the   *)
(* test that waits for a tunnel closes it, also when another one has       *)
(* already succeeded; what is left is a tunnel that came up after its test *)
(* had timed out.                                                          *)
THEOREM TestTunnelsAreClosed == Tester!Spec => []TunnelsClosed
<1>1. TesterIInv => TunnelsClosed
  BY DEF TesterIInv, MakersOwned, TunnelsClosed, Tester!TunnelsClosed
<1> QED BY <1>1, TesterAlways, PTL

(* The list for the fallback has the candidates, each of them once.        *)
LEMMA ListForFallback ==
  ASSUME TesterIInv, tester = "returned", winner # None
  PROVE  /\ Range(Tester!ResolverList) = Range(chosen)
         /\ Len(Tester!ResolverList) = Len(chosen)
<1>1. /\ chosen \in Seq(Resolvers) /\ Unrepeated(chosen)
      /\ winner \in Resolvers /\ winner \in Range(chosen)
  BY DEF TesterIInv, TesterTypes, FirstSuccess, ChosenWell
<1>2. PICK others \in Seq(Resolvers) : others = Tester!Only(chosen, Resolvers \ {winner})
  BY <1>1, OnlyRange
<1>3. Range(others) = Range(chosen) \ {winner} /\ Unrepeated(others)
  <2>1. Range(chosen) \subseteq Resolvers
    BY <1>1 DEF Range
  <2> QED BY <1>1, <1>2, <2>1, OnlyRange, OnlyUnrepeated
<1>4. /\ IsFiniteSet(Range(chosen)) /\ Cardinality(Range(chosen)) = Len(chosen)
      /\ Cardinality(Range(others)) = Len(others)
  BY <1>1, <1>3, LengthOfUnrepeated
<1>5. Len(others) = Len(chosen) - 1 /\ Len(chosen) \in Nat
  <2> DEFINE S == Range(chosen)
  <2>1. Cardinality(S \ {winner}) = Cardinality(S) - 1
    <3>1. IsFiniteSet(S) /\ winner \in S
      BY <1>1, <1>4
    <3> HIDE DEF S
    <3> QED BY <3>1, FS_RemoveElement
  <2> QED BY <1>1, <1>3, <1>4, <2>1
<1>6. PICK list \in Seq(Resolvers) : list = <<winner>> \o others
  <2>1. <<winner>> \in Seq(Resolvers)
    BY <1>1
  <2>2. <<winner>> \o others \in Seq(Resolvers)
    BY <2>1, ConcatProperties
  <2> QED BY <2>2
<1>7. /\ Len(list) = 1 + Len(others) /\ Len(others) \in Nat
      /\ DOMAIN list = 1..Len(list) /\ DOMAIN others = 1..Len(others)
      /\ list[1] = winner /\ \A i \in 1..Len(others) : list[1 + i] = others[i]
  BY <1>1, <1>6
<1>8. Range(list) = {winner} \cup Range(others)
  <2>1. \A i \in 1..Len(list) : i = 1 \/ \E j \in 1..Len(others) : i = 1 + j
    <3>1. ASSUME NEW i \in 1..Len(list), i # 1 PROVE i - 1 \in 1..Len(others) /\ i = 1 + (i - 1)
      BY <1>7, <3>1
    <3> QED BY <3>1
  <2>2. 1 \in 1..Len(list) /\ \A j \in 1..Len(others) : 1 + j \in 1..Len(list)
    BY <1>7
  <2>3. \A x \in Range(list) : x = winner \/ x \in Range(others)
    <3>1. ASSUME NEW i \in 1..Len(list) PROVE list[i] = winner \/ list[i] \in Range(others)
      <4>1. CASE i = 1
        BY <4>1, <1>7
      <4>2. CASE i # 1
        <5>1. PICK j \in 1..Len(others) : i = 1 + j
          BY <2>1, <4>2
        <5>2. list[i] = others[j]
          BY <5>1, <1>7
        <5> QED BY <5>2, <1>7 DEF Range
      <4> QED BY <4>1, <4>2
    <3> QED BY <1>7, <3>1 DEF Range
  <2>4. winner \in Range(list) /\ \A x \in Range(others) : x \in Range(list)
    BY <1>7, <2>2 DEF Range
  <2> QED BY <2>3, <2>4
<1>9. Tester!ResolverList = list
  BY <1>2, <1>6 DEF Tester!ResolverList
<1>10. Range(list) = Range(chosen) /\ Len(list) = Len(chosen)
  BY <1>1, <1>3, <1>5, <1>7, <1>8
<1> QED BY <1>9, <1>10

(* resolver_tester.go:347-349, mobile.go:654, :1061: the resolver that is  *)
(* returned has passed both tests, and there is none only if none of those *)
(* that the mode promises to try works, however results, timeouts and the  *)
(* cancellation are interleaved.                                           *)
THEOREM TesterIsSound == Tester!Spec => []TesterSound
<1>1. TesterIInv => TesterSound
  <2> SUFFICES ASSUME TesterIInv, tester = "returned" PROVE TesterSound
    BY DEF TesterSound, Tester!TesterSound
  <2>1. CASE winner = None
    BY <2>1 DEF TesterSound, Tester!TesterSound, TesterIInv, ChosenWell, Phase2Accounts
  <2>2. CASE winner # None
    <3>1. tunnel[winner] = "made" /\ winner \in Resolvers /\ Tester!Answers(winner)
      BY <2>2 DEF TesterIInv, TesterTypes, FirstSuccess
    <3> QED BY <2>2, <3>1, ListForFallback, TesterRange DEF TesterSound, Tester!TesterSound
  <2> QED BY <2>1, <2>2
<1> QED BY <1>1, TesterAlways, PTL

-----------------------------------------------------------------------------
(* The search in two phases.                                               *)
WorkerPlaces == {"idle", "testing", "putting", "found", "telling", "gone"}
Candidates == Range(candidates)

SearchTypes ==
  /\ latency \in [Resolvers -> SearchLatencies \cup {None}] /\ works \subseteq Resolvers
  /\ passed \in Seq(Resolvers) /\ candidates \in Seq(Resolvers)
  /\ caller \in {"phase1", "waiting", "returned"}
  /\ fed \in 0..Len(candidates) /\ work \in Seq(Resolvers)
  /\ worker \in [Workers -> WorkerPlaces] /\ task \in [Workers -> Resolvers \cup {None}]
  /\ found \in Resolvers \cup {None} /\ result \in Resolvers \cup {None}
  /\ told \in Seq(Resolvers) /\ cancelled \in BOOLEAN

BeforePhase1 ==
  /\ caller = "phase1" => candidates = <<>> /\ \A w \in Workers : worker[w] = "idle"
  /\ caller \in {"phase1", "waiting"} => result = None
  /\ caller = "phase1" => found = None /\ ~cancelled

(* What a worker has is a candidate, and once it has passed the test, one  *)
(* that works.                                                             *)
OnlyTested ==
  /\ \A r \in Candidates : latency[r] # None
  /\ \A r \in Range(work) : r \in Candidates
  /\ \A w \in Workers :
       /\ worker[w] \in {"testing", "putting", "found", "telling"} => task[w] \in Candidates
       /\ worker[w] \in {"putting", "found", "telling"} => task[w] \in works
  /\ \A r \in Range(told) \cup ({found, result} \ {None}) : r \in Candidates \cap works

(* As long as nothing is found, a candidate that works is still to be      *)
(* tested, and no worker leaves before all are.                            *)
NoneMissed ==
  /\ caller = "waiting" /\ found = None =>
       /\ ~cancelled
       /\ \A w \in Workers :
            /\ worker[w] \notin {"found", "telling"}
            /\ worker[w] = "gone" => work = <<>> /\ fed = Len(candidates)
       /\ \A j \in 1..fed :
            candidates[j] \in works =>
              \/ candidates[j] \in Range(work)
              \/ \E w \in Workers : worker[w] \in {"testing", "putting"} /\ task[w] = candidates[j]
  /\ caller = "returned" /\ result = None => Candidates \cap works = {}

CandidatesInOrder ==
  caller # "phase1" /\ passed # <<>> =>
    /\ candidates # <<>> /\ candidates[1] = passed[1]
    /\ \A i, j \in DOMAIN passed : i < j /\ passed[j] \in Candidates => passed[i] \in Candidates

SearchIInv == SearchTypes /\ BeforePhase1 /\ OnlyTested /\ NoneMissed /\ CandidatesInOrder

LEMMA SearchRange == \A s : Search!Range(s) = Range(s)
BY DEF Search!Range, Range

LEMMA SearchSetToSeqs == \A S : Search!SetToSeqs(S) = Tester!SetToSeqs(S)
BY DEF Search!SetToSeqs, Tester!SetToSeqs, Search!Cardinality, Tester!Cardinality

(* Choose goes through the sorted results from the first to the last.      *)
Chosen(k, rs) ==
  \A n \in 0..Len(rs) :
    k[n] = IF n = 0 THEN <<>>
           ELSE IF (Search!Quick(rs[n]) \/ k[n - 1] = <<>>) /\ Len(k[n - 1]) < MaxToTest
                THEN Append(k[n - 1], rs[n]) ELSE k[n - 1]

LEMMA ChosenByPrefix ==
  ASSUME NEW rs \in Seq(Resolvers)
  PROVE  \E k : Chosen(k, rs) /\ Search!Choose(rs) = k[Len(rs)]
<1> DEFINE Body(g, n) ==
             IF n = 0 THEN <<>>
             ELSE IF (Search!Quick(rs[n]) \/ g[n - 1] = <<>>) /\ Len(g[n - 1]) < MaxToTest
                  THEN Append(g[n - 1], rs[n]) ELSE g[n - 1]
           F == [i \in 1..Len(rs) |->
                   [s \in Seq(Resolvers) |->
                      IF (Search!Quick(rs[i]) \/ s = <<>>) /\ Len(s) < MaxToTest
                      THEN Append(s, rs[i]) ELSE s]]
           kept == CHOOSE g : g = [n \in 0..Len(rs) |-> Body(g, n)]
<1>1. Len(rs) \in Nat /\ \A i \in 1..Len(rs) : rs[i] \in Resolvers
  OBVIOUS
<1>2. F \in [1..Len(rs) -> [Seq(Resolvers) -> Seq(Resolvers)]]
  BY <1>1
<1>3. \A i \in 1..Len(rs), s \in Seq(Resolvers) :
        F[i][s] = IF (Search!Quick(rs[i]) \/ s = <<>>) /\ Len(s) < MaxToTest
                  THEN Append(s, rs[i]) ELSE s
  OBVIOUS
<1>4. <<>> \in Seq(Resolvers)
  OBVIOUS
<1> HIDE DEF F
<1>5. PICK g \in [0..Len(rs) -> Seq(Resolvers)] :
        g[0] = <<>> /\ \A i \in 1..Len(rs) : g[i] = F[i][g[i - 1]]
  <2>1. \E g : IsIteration(g, Len(rs), Seq(Resolvers), <<>>, F)
    BY <1>1, <1>2, <1>4, Iterated
  <2> QED BY <2>1 DEF IsIteration
<1>6. g = [n \in 0..Len(rs) |-> Body(g, n)]
  <2>1. ASSUME NEW n \in 0..Len(rs) PROVE g[n] = Body(g, n)
    <3>1. CASE n = 0
      BY <3>1, <1>5
    <3>2. CASE n # 0
      <4>1. n \in 1..Len(rs) /\ n - 1 \in 0..Len(rs)
        BY <3>2
      <4> QED BY <4>1, <3>2, <1>3, <1>5
    <3> QED BY <3>1, <3>2
  <2> HIDE DEF Body
  <2> QED BY <2>1, <1>5
<1>7. kept = [n \in 0..Len(rs) |-> Body(kept, n)]
  <2> HIDE DEF Body
  <2> QED BY <1>6
<1>8. Search!Choose(rs) = kept[Len(rs)]
  BY DEF Search!Choose
<1>9. Chosen(kept, rs)
  <2> DEFINE k == kept
  <2>1. k = [n \in 0..Len(rs) |-> Body(k, n)]
    BY <1>7
  <2> HIDE DEF k
  <2>2. \A n \in 0..Len(rs) : k[n] = Body(k, n)
    <3> HIDE DEF Body
    <3> QED BY <2>1
  <2>3. Chosen(k, rs)
    BY <2>2 DEF Chosen
  <2> QED BY <2>3 DEF k
<1> QED BY <1>8, <1>9

(* It takes the first m of them: up to MaxToTest, or to the first that is  *)
(* slow.                                                                   *)
FirstOf(s, rs, n) ==
  /\ s \in Seq(Resolvers) /\ Len(s) <= n /\ Len(s) <= MaxToTest
  /\ \A i \in 1..Len(s) : s[i] = rs[i]
  /\ n > 0 => Len(s) > 0
  /\ Len(s) < n => Len(s) = MaxToTest \/ ~Search!Quick(rs[Len(s) + 1])

LEMMA ChooseTakesFirst ==
  ASSUME latency \in [Resolvers -> SearchLatencies \cup {None}],
         NEW rs \in Seq(Resolvers), Search!Sorted(rs),
         \A i \in 1..Len(rs) : latency[rs[i]] # None
  PROVE  FirstOf(Search!Choose(rs), rs, Len(rs))
<1>0. /\ Len(rs) \in Nat /\ DOMAIN rs = 1..Len(rs) /\ MaxToTest \in Nat \ {0} /\ MaxLatency \in Nat
      /\ \A i \in 1..Len(rs) : rs[i] \in Resolvers /\ latency[rs[i]] \in Nat
  <2>1. ASSUME NEW i \in 1..Len(rs) PROVE rs[i] \in Resolvers /\ latency[rs[i]] \in Nat
    <3>1. rs[i] \in Resolvers
      OBVIOUS
    <3> QED BY <3>1, SearchAssumption
  <2> QED BY <2>1, ResolverAssumption, SearchAssumption
<1>1. PICK k : Chosen(k, rs) /\ Search!Choose(rs) = k[Len(rs)]
  BY ChosenByPrefix
<1> DEFINE Done == {n \in Nat : n <= Len(rs) => FirstOf(k[n], rs, n)}
<1>2. 0 \in Done
  <2>1. k[0] = <<>>
    BY <1>0, <1>1 DEF Chosen
  <2>2. FirstOf(<<>>, rs, 0)
    BY <1>0 DEF FirstOf
  <2> QED BY <2>1, <2>2
<1>3. ASSUME NEW n \in Nat, n \in Done PROVE n + 1 \in Done
  <2> SUFFICES ASSUME n + 1 <= Len(rs) PROVE FirstOf(k[n + 1], rs, n + 1)
    OBVIOUS
  <2>1. FirstOf(k[n], rs, n)
    BY <1>0, <1>3
  <2>2. PICK s \in Seq(Resolvers) : s = k[n]
    BY <2>1 DEF FirstOf
  <2>3. n + 1 \in 0..Len(rs) /\ n + 1 \in 1..Len(rs) /\ n + 1 # 0 /\ (n + 1) - 1 = n
    BY <1>0
  <2>4. k[n + 1] = IF (Search!Quick(rs[n + 1]) \/ s = <<>>) /\ Len(s) < MaxToTest
                   THEN Append(s, rs[n + 1]) ELSE s
    BY <1>1, <2>2, <2>3 DEF Chosen
  <2>5. /\ Len(s) \in Nat /\ Len(s) <= n /\ Len(s) <= MaxToTest
        /\ \A i \in 1..Len(s) : s[i] = rs[i]
        /\ n > 0 => Len(s) > 0
        /\ Len(s) < n => Len(s) = MaxToTest \/ ~Search!Quick(rs[Len(s) + 1])
        /\ s = <<>> <=> Len(s) = 0
    BY <2>1, <2>2 DEF FirstOf
  <2>6. CASE (Search!Quick(rs[n + 1]) \/ s = <<>>) /\ Len(s) < MaxToTest
    <3>1. Len(s) = n
      <4> SUFFICES ASSUME Len(s) < n PROVE FALSE
        BY <2>5
      <4>1. ~Search!Quick(rs[Len(s) + 1]) /\ Len(s) > 0 /\ Search!Quick(rs[n + 1])
        BY <2>5, <2>6
      <4>2. Len(s) + 1 \in 1..Len(rs) /\ Len(s) + 1 < n + 1
        BY <1>0, <2>3, <2>5
      <4>3. latency[rs[Len(s) + 1]] <= latency[rs[n + 1]]
        BY <1>0, <2>3, <4>2 DEF Search!Sorted
      <4> QED BY <1>0, <2>3, <4>1, <4>2, <4>3 DEF Search!Quick
    <3>2. PICK t \in Seq(Resolvers) : t = Append(s, rs[n + 1])
      <4>1. Append(s, rs[n + 1]) \in Seq(Resolvers)
        BY <1>0, <2>3
      <4> QED BY <4>1
    <3>3. Len(t) = n + 1 /\ \A i \in 1..n : t[i] = s[i]
      BY <3>1, <3>2, <1>0, <2>3
    <3>4. \A i \in 1..(n + 1) : t[i] = rs[i]
      <4>1. t[n + 1] = rs[n + 1]
        BY <3>1, <3>2, <1>0, <2>3
      <4> QED BY <2>5, <3>1, <3>3, <4>1
    <3>5. FirstOf(t, rs, n + 1)
      BY <1>0, <2>6, <3>1, <3>3, <3>4 DEF FirstOf
    <3> QED BY <2>4, <2>6, <3>2, <3>5
  <2>7. CASE ~((Search!Quick(rs[n + 1]) \/ s = <<>>) /\ Len(s) < MaxToTest)
    <3>1. Len(s) > 0
      BY <1>0, <2>5, <2>7
    <3>2. Len(s) = MaxToTest \/ ~Search!Quick(rs[Len(s) + 1])
      BY <1>0, <2>5, <2>7
    <3>3. FirstOf(s, rs, n + 1)
      BY <2>5, <3>1, <3>2 DEF FirstOf
    <3> QED BY <2>4, <2>7, <3>3
  <2> QED BY <2>6, <2>7
<1>4. Nat \subseteq Done
  <2> HIDE DEF Done
  <2> QED BY <1>2, <1>3, SetInduction
<1> QED BY <1>0, <1>1, <1>4

LEMMA SearchInitInv == Search!Init => SearchIInv
<1> SUFFICES ASSUME Search!Init PROVE SearchIInv
  OBVIOUS
<1> USE DEF Search!Init
<1>1. Range(<<>>) = {}
  BY DEF Range
<1>2. SearchTypes
  <2>1. fed \in 0..Len(candidates) /\ candidates \in Seq(Resolvers)
    OBVIOUS
  <2>2. passed \in Seq(Resolvers) /\ work \in Seq(Resolvers) /\ told \in Seq(Resolvers)
    OBVIOUS
  <2> QED BY <2>1, <2>2 DEF SearchTypes, WorkerPlaces
<1>3. BeforePhase1 /\ NoneMissed /\ CandidatesInOrder
  BY DEF BeforePhase1, NoneMissed, CandidatesInOrder
<1>4. OnlyTested
  BY <1>1 DEF OnlyTested, Candidates
<1> QED BY <1>2, <1>3, <1>4 DEF SearchIInv

LEMMA Phase1Inv ==
  ASSUME SearchIInv, Search!Phase1
  PROVE  SearchIInv'
<1> DEFINE S == {r \in Resolvers : latency[r] # None}
<1> USE DEF SearchIInv, Search!Phase1
<1>1. PICK rs \in Tester!SetToSeqs(S) : rs = passed' /\ Search!Sorted(rs)
  BY SearchSetToSeqs
<1>2. rs \in Seq(Resolvers) /\ Range(rs) = S /\ Unrepeated(rs)
  BY <1>1, ListOfSet
<1>3. \A i \in 1..Len(rs) : latency[rs[i]] # None
  BY <1>2 DEF Range
<1>4. PICK cs \in Seq(Resolvers) : cs = Search!Choose(rs) /\ FirstOf(cs, rs, Len(rs))
  BY <1>1, <1>2, <1>3, ChooseTakesFirst DEF SearchTypes, FirstOf
<1>5. candidates' = cs
  BY <1>1, <1>4
<1>6. /\ Len(cs) \in Nat /\ Len(rs) \in Nat /\ Len(cs) <= Len(rs)
      /\ DOMAIN cs = 1..Len(cs) /\ DOMAIN rs = 1..Len(rs)
      /\ \A i \in 1..Len(cs) : cs[i] = rs[i] /\ i \in 1..Len(rs)
      /\ rs # <<>> => Len(cs) > 0
  BY <1>2, <1>4 DEF FirstOf
<1>7. SearchTypes'
  BY <1>1, <1>2, <1>5, <1>6 DEF SearchTypes, BeforePhase1
<1>8. BeforePhase1'
  BY DEF BeforePhase1
<1>9. OnlyTested'
  <2>1. \A r \in Range(cs) : latency[r] # None
    BY <1>3, <1>6 DEF Range
  <2>2. \A w \in Workers : worker[w] = "idle"
    BY DEF BeforePhase1
  <2>3. Range(work) = {} /\ Range(told) = {} /\ found = None /\ result = None
    BY DEF BeforePhase1, OnlyTested, Candidates, Range
  <2> QED BY <1>5, <2>1, <2>2, <2>3 DEF OnlyTested, Candidates
<1>10. NoneMissed'
  <2>1. CASE rs = <<>>
    <3>1. Range(cs) = {}
      BY <1>6, <2>1 DEF Range
    <3> QED BY <1>1, <1>5, <2>1, <3>1 DEF NoneMissed, Candidates
  <2>2. CASE rs # <<>>
    <3>1. fed = 0
      BY DEF SearchTypes, BeforePhase1
    <3>2. 1..0 = {}
      OBVIOUS
    <3> QED BY <1>1, <2>2, <3>1, <3>2 DEF NoneMissed, BeforePhase1
  <2> QED BY <2>1, <2>2
<1>11. CandidatesInOrder'
  <2> SUFFICES ASSUME rs # <<>>
               PROVE  /\ cs # <<>> /\ cs[1] = rs[1]
                      /\ \A i, j \in DOMAIN rs : i < j /\ rs[j] \in Range(cs) => rs[i] \in Range(cs)
    BY <1>1, <1>5 DEF CandidatesInOrder, Candidates
  <2>1. cs # <<>> /\ cs[1] = rs[1]
    BY <1>6
  <2>2. ASSUME NEW i \in 1..Len(rs), NEW j \in 1..Len(rs), i < j, rs[j] \in Range(cs)
        PROVE  rs[i] \in Range(cs)
    <3>1. PICK k \in 1..Len(cs) : cs[k] = rs[j]
      BY <1>6, <2>2 DEF Range
    <3>2. rs[k] = rs[j] /\ k \in 1..Len(rs)
      BY <1>6, <3>1
    <3>3. k = j
      BY <1>2, <1>6, <3>2 DEF Unrepeated
    <3>4. i \in 1..Len(cs) /\ cs[i] = rs[i]
      BY <1>6, <2>2, <3>1, <3>3
    <3> QED BY <1>6, <3>4 DEF Range
  <2> QED BY <1>6, <2>1, <2>2
<1> QED BY <1>7, <1>8, <1>9, <1>10, <1>11

LEMMA FeedInv ==
  ASSUME SearchIInv, Search!Feed
  PROVE  SearchIInv'
<1> USE DEF SearchIInv, Search!Feed, Search!phase1Vars
<1>1. PICK n \in 1..Len(candidates) : n = fed + 1 /\ fed' = n
  BY DEF SearchTypes
<1>2. candidates[n] \in Resolvers /\ candidates[n] \in Candidates
  BY DEF SearchTypes, Candidates, Range
<1>3. /\ Append(work, candidates[n]) \in Seq(Resolvers)
      /\ Range(Append(work, candidates[n])) = Range(work) \cup {candidates[n]}
  BY <1>2, RangeOfAppend DEF SearchTypes
<1>4. \/ work' = Append(work, candidates[n]) /\ Range(work') = Range(work) \cup {candidates[n]}
      \/ work' = work /\ cancelled
  BY <1>1, <1>3
<1>5. SearchTypes'
  <2>1. fed' \in 0..Len(candidates)
    BY <1>1 DEF SearchTypes
  <2>2. work' \in Seq(Resolvers)
    BY <1>3, <1>4 DEF SearchTypes
  <2> QED BY <2>1, <2>2 DEF SearchTypes
<1>6. BeforePhase1'
  BY DEF BeforePhase1
<1>7. OnlyTested'
  BY <1>2, <1>4 DEF OnlyTested, Candidates
<1>8. NoneMissed'
  <2> SUFFICES ASSUME caller = "waiting", found = None PROVE NoneMissed'
    BY DEF NoneMissed, Candidates
  <2>1. ~cancelled /\ Range(work') = Range(work) \cup {candidates[n]}
    BY <1>4 DEF NoneMissed
  <2>2. \A w \in Workers : worker[w] \notin {"found", "telling"} /\ worker[w] # "gone"
    BY DEF NoneMissed, SearchTypes
  <2>3. \A j \in 1..n :
          candidates[j] \in works =>
            \/ candidates[j] \in Range(work')
            \/ \E w \in Workers : worker[w] \in {"testing", "putting"} /\ task[w] = candidates[j]
    <3>1. \A j \in 1..n : j \in 1..fed \/ j = n
      BY <1>1 DEF SearchTypes
    <3> QED BY <2>1, <3>1 DEF NoneMissed
  <2> QED BY <1>1, <2>1, <2>2, <2>3 DEF NoneMissed
<1>9. CandidatesInOrder'
  BY DEF CandidatesInOrder, Candidates
<1> QED BY <1>5, <1>6, <1>7, <1>8, <1>9

LEMMA CallerInv ==
  ASSUME SearchIInv, Search!TakeFound \/ Search!NoneFound
  PROVE  SearchIInv'
<1> USE DEF SearchIInv, Search!TakeFound, Search!NoneFound, Search!phase1Vars
<1>1. SearchTypes' /\ BeforePhase1' /\ CandidatesInOrder'
  BY DEF SearchTypes, BeforePhase1, CandidatesInOrder, Candidates
<1>2. OnlyTested'
  BY DEF OnlyTested, Candidates
<1>3. NoneMissed'
  <2>1. CASE Search!TakeFound
    BY <2>1 DEF NoneMissed
  <2>2. CASE Search!NoneFound
    <3>1. work = <<>> /\ fed = Len(candidates)
      BY <2>2, SearchAssumption DEF NoneMissed
    <3>2. Range(work) = {}
      BY <3>1 DEF Range
    <3>3. \A j \in 1..Len(candidates) : candidates[j] \notin works
      BY <2>2, <3>1, <3>2 DEF NoneMissed
    <3>4. DOMAIN candidates = 1..Len(candidates)
      BY DEF SearchTypes
    <3>5. Candidates \cap works = {}
      BY <3>3, <3>4 DEF Candidates, Range
    <3> QED BY <2>2, <3>5 DEF NoneMissed, Candidates
  <2> QED BY <2>1, <2>2
<1> QED BY <1>1, <1>2, <1>3

LEMMA TakeWorkInv ==
  ASSUME SearchIInv, NEW w \in Workers, Search!TakeWork(w)
  PROVE  SearchIInv'
<1> USE DEF SearchIInv, Search!TakeWork, Search!GoTo, Search!phase1Vars
<1>1. /\ work' \in Seq(Resolvers) /\ Head(work) \in Resolvers
      /\ Range(work) = {Head(work)} \cup Range(work')
  BY RangeOfTail DEF SearchTypes
<1>2. /\ task'[w] = Head(work) /\ worker'[w] = "testing"
      /\ \A v \in Workers \ {w} : task'[v] = task[v] /\ worker'[v] = worker[v]
  BY DEF SearchTypes
<1>3. SearchTypes'
  BY <1>1 DEF SearchTypes, WorkerPlaces
<1>4. BeforePhase1' /\ CandidatesInOrder'
  BY DEF BeforePhase1, CandidatesInOrder, Candidates
<1>5. OnlyTested'
  BY <1>1, <1>2 DEF OnlyTested, Candidates
<1>6. NoneMissed'
  <2> SUFFICES ASSUME caller = "waiting", found = None PROVE NoneMissed'
    BY DEF NoneMissed, Candidates
  <2>1. \A v \in Workers : worker'[v] \notin {"found", "telling"} /\ worker'[v] # "gone"
    BY <1>2 DEF NoneMissed, SearchTypes
  <2>2. ASSUME NEW j \in 1..fed, candidates[j] \in works
        PROVE  \/ candidates[j] \in Range(work')
               \/ \E v \in Workers : worker'[v] \in {"testing", "putting"} /\ task'[v] = candidates[j]
    BY <1>1, <1>2, <2>2 DEF NoneMissed
  <2> QED BY <2>1, <2>2 DEF NoneMissed
<1> QED BY <1>3, <1>4, <1>5, <1>6

LEMMA TellInv ==
  ASSUME SearchIInv, NEW w \in Workers, Search!Tell(w)
  PROVE  SearchIInv'
<1> USE DEF SearchIInv, Search!Tell, Search!GoTo, Search!phase1Vars
<1>1. task[w] \in Candidates \cap works /\ task[w] \in Resolvers
  BY DEF OnlyTested, SearchTypes
<1>2. told' \in Seq(Resolvers) /\ Range(told') = Range(told) \cup {task[w]}
  BY <1>1, RangeOfAppend DEF SearchTypes
<1>3. SearchTypes'
  BY <1>2 DEF SearchTypes, WorkerPlaces
<1>4. BeforePhase1' /\ CandidatesInOrder'
  BY DEF BeforePhase1, CandidatesInOrder, Candidates
<1>5. OnlyTested'
  BY <1>1, <1>2 DEF OnlyTested, Candidates, SearchTypes
<1>6. NoneMissed'
  BY DEF NoneMissed, Candidates
<1> QED BY <1>3, <1>4, <1>5, <1>6

(* The other steps of a worker.                                            *)
LEMMA WorkerInv ==
  ASSUME SearchIInv, NEW w \in Workers,
         Search!Leave(w) \/ Search!TestTunnel(w) \/ Search!PutFound(w) \/ Search!Cancel(w)
  PROVE  SearchIInv'
<1> USE DEF SearchIInv, Search!Leave, Search!TestTunnel, Search!PutFound, Search!Cancel,
            Search!GoTo, Search!phase1Vars
<1>1. SearchTypes'
  <2>1. worker' \in [Workers -> WorkerPlaces]
    BY DEF SearchTypes, WorkerPlaces
  <2>2. found' \in Resolvers \cup {None} /\ cancelled' \in BOOLEAN
    BY DEF SearchTypes
  <2> QED BY <2>1, <2>2 DEF SearchTypes
<1>2. BeforePhase1' /\ CandidatesInOrder'
  BY DEF BeforePhase1, CandidatesInOrder, Candidates
<1>3. OnlyTested'
  BY DEF OnlyTested, Candidates, SearchTypes
<1>4. NoneMissed'
  <2>1. CASE Search!Leave(w)
    BY <2>1 DEF NoneMissed, Candidates, SearchTypes
  <2>2. CASE Search!TestTunnel(w)
    BY <2>2 DEF NoneMissed, Candidates, SearchTypes
  <2>3. CASE Search!PutFound(w)
    BY <2>3, ResolverAssumption DEF NoneMissed, Candidates, SearchTypes, OnlyTested
  <2>4. CASE Search!Cancel(w)
    BY <2>4 DEF NoneMissed, Candidates, SearchTypes
  <2> QED BY <2>1, <2>2, <2>3, <2>4
<1> QED BY <1>1, <1>2, <1>3, <1>4

LEMMA SearchNextInv == SearchIInv /\ [Search!Next]_(Search!vars) => SearchIInv'
<1> SUFFICES ASSUME SearchIInv, [Search!Next]_(Search!vars) PROVE SearchIInv'
  OBVIOUS
<1>1. ASSUME NEW w \in Workers, Search!Worker(w) PROVE SearchIInv'
  BY <1>1, TakeWorkInv, TellInv, WorkerInv DEF Search!Worker
<1>2. CASE Search!Phase1 \/ Search!Feed \/ Search!TakeFound \/ Search!NoneFound
  BY <1>2, Phase1Inv, FeedInv, CallerInv
<1>3. CASE UNCHANGED Search!vars
  BY <1>3 DEF Search!vars, Search!phase1Vars, SearchIInv, SearchTypes, BeforePhase1, OnlyTested,
              NoneMissed, CandidatesInOrder, Candidates
<1> QED BY <1>1, <1>2, <1>3 DEF Search!Next

(* mobile.go:920-930, :1006-1045: a resolver that works is not missed,     *)
(* whichever workers fail, succeed or are cancelled while foundChan is     *)
(* being closed, and what is returned and reported has passed both tests.  *)
(* The candidates are the fastest of those that answer.                    *)
THEOREM SearchIsSound == Search!Spec => []SearchSound
<1>1. SearchIInv => SearchSound
  BY SearchRange DEF SearchIInv, SearchSound, Search!SearchSound, OnlyTested, NoneMissed,
                     CandidatesInOrder, Candidates
<1> QED BY <1>1, SearchInitInv, SearchNextInv, PTL DEF Search!Spec

-----------------------------------------------------------------------------
(* The relaying of a stream.                                               *)
StreamNumbers == [Stream!Sides -> Nat]

StreamTypes ==
  /\ sent \in StreamNumbers /\ taken \in StreamNumbers /\ arrived \in StreamNumbers
  /\ out \in StreamNumbers
  /\ reader \in [Stream!Sides -> {"on", "done"}]
  /\ alive \subseteq Stream!Sides

DataInOrder == \A s \in Stream!Sides : out[s] <= arrived[s] /\ arrived[s] <= taken[s] /\ taken[s] <= sent[s]

(* The FIN is the last thing to arrive.                                    *)
FinLast ==
  \A s \in Stream!Sides :
    s \in fin => Stream!Other(s) \in closed /\ arrived[Stream!Other(s)] = taken[Stream!Other(s)]

(* As long as nothing has failed, a stream is closed only by a side that   *)
(* reads no more, which is so because it has read all there is or because  *)
(* the other side has closed the stream.                                   *)
Healthy(s) ==
  /\ s \in alive /\ s \notin gone
  /\ s \in closed => reader[s] = "done"
  /\ reader[s] = "done" /\ s \notin refused => s \in shut /\ taken[s] = sent[s]
  /\ s \in refused => s \in fin

(* Why CutShortOnlyByReply is not inductive alone: what a side that was    *)
(* told knows of the other one is only the FIN that it sent.               *)
StreamIInv ==
  /\ StreamTypes /\ DataInOrder /\ FinLast
  /\ ~failed => \A s \in Stream!Sides : Healthy(s)
  /\ Stream!CutShortOnlyByReply

LEMMA Opposite ==
  ASSUME NEW s \in Stream!Sides
  PROVE  Stream!Other(s) \in Stream!Sides /\ Stream!Other(s) # s /\ Stream!Other(Stream!Other(s)) = s
         /\ \A t \in Stream!Sides : t = s \/ t = Stream!Other(s)
BY DEF Stream!Sides, Stream!Other

LEMMA StreamInitInv == Stream!Init => StreamIInv
<1> SUFFICES ASSUME Stream!Init PROVE StreamIInv
  OBVIOUS
<1>1. StreamTypes
  BY DEF Stream!Init, StreamTypes, StreamNumbers
<1>2. DataInOrder /\ FinLast /\ \A s \in Stream!Sides : Healthy(s)
  BY DEF Stream!Init, DataInOrder, FinLast, Healthy
<1>3. Stream!CutShortOnlyByReply
  BY DEF Stream!Init, Stream!CutShortOnlyByReply
<1> QED BY <1>1, <1>2, <1>3 DEF StreamIInv

LEMMA StreamTypesKept == StreamTypes /\ [Stream!Next]_(Stream!vars) => StreamTypes'
<1> SUFFICES ASSUME StreamTypes, [Stream!Next]_(Stream!vars) PROVE StreamTypes'
  OBVIOUS
<1> USE DEF StreamTypes, StreamNumbers, Stream!Becomes, Stream!ends, Stream!stream, Stream!local
<1>1. Stream!Cancel \/ UNCHANGED Stream!vars => StreamTypes'
  BY DEF Stream!Cancel, Stream!vars
<1>2. ASSUME NEW s \in Stream!Sides,
             \/ Stream!Send(s) \/ Stream!Shut(s) \/ Stream!Abort(s)
             \/ Stream!SessionEnds(s) \/ Stream!Arrive(s) \/ Stream!FinArrives(s)
      PROVE  StreamTypes'
  BY <1>2 DEF Stream!Send, Stream!Shut, Stream!Abort, Stream!SessionEnds,
              Stream!Arrive, Stream!FinArrives
<1>3. ASSUME NEW s \in Stream!Sides, Stream!StartRelay(s) \/ Stream!HandlerEnds(s) \/ Stream!StartFails(s)
      PROVE  StreamTypes'
  BY <1>3 DEF Stream!StartRelay, Stream!HandlerEnds, Stream!StartFails
<1>4. ASSUME NEW s \in Stream!Sides,
             \/ Stream!Copy(s) \/ Stream!EndOfRead(s)
             \/ Stream!Refuse(s) \/ Stream!EndOfWrite(s)
      PROVE  StreamTypes'
  BY <1>4 DEF Stream!Copy, Stream!EndOfRead, Stream!Refuse, Stream!ReaderEnds, Stream!EndOfWrite
<1>5. ASSUME NEW s \in Stream!Sides, Stream!Deliver(s) PROVE StreamTypes'
  <2>1. Stream!Other(s) \in Stream!Sides
    BY Opposite
  <2> QED BY <1>5, <2>1 DEF Stream!Deliver
<1> QED BY <1>1, <1>2, <1>3, <1>4, <1>5 DEF Stream!Next, Stream!Goroutines, Stream!Network

-----------------------------------------------------------------------------
(* Data are neither lost nor invented on the way.                          *)
LEMMA DataInOrderKept == StreamTypes /\ DataInOrder /\ [Stream!Next]_(Stream!vars) => DataInOrder'
<1> SUFFICES ASSUME StreamTypes, DataInOrder, [Stream!Next]_(Stream!vars), NEW t \in Stream!Sides
             PROVE  (out[t] <= arrived[t] /\ arrived[t] <= taken[t] /\ taken[t] <= sent[t])'
  BY DEF DataInOrder
<1>0. /\ sent[t] \in Nat /\ taken[t] \in Nat /\ arrived[t] \in Nat /\ out[t] \in Nat
      /\ out[t] <= arrived[t] /\ arrived[t] <= taken[t] /\ taken[t] <= sent[t]
  BY DEF StreamTypes, StreamNumbers, DataInOrder
<1> USE <1>0 DEF StreamTypes, StreamNumbers, Stream!Becomes, Stream!ends,
                 Stream!stream, Stream!local
<1>1. CASE UNCHANGED <<sent, taken, arrived, out>>
  BY <1>1
<1>2. ASSUME NEW s \in Stream!Sides, Stream!Send(s)
      PROVE  (taken[t] <= sent[t])' /\ UNCHANGED <<taken, arrived, out>>
  BY <1>2 DEF Stream!Send
<1>3. ASSUME NEW s \in Stream!Sides, Stream!Copy(s)
      PROVE  (arrived[t] <= taken[t] /\ taken[t] <= sent[t])' /\ UNCHANGED <<sent, arrived, out>>
  BY <1>3 DEF Stream!Copy, Stream!Data
<1>4. ASSUME NEW s \in Stream!Sides, Stream!Arrive(s)
      PROVE  (out[t] <= arrived[t] /\ arrived[t] <= taken[t])' /\ UNCHANGED <<sent, taken, out>>
  BY <1>4 DEF Stream!Arrive
<1>5. ASSUME NEW s \in Stream!Sides, Stream!Deliver(s)
      PROVE  (out[t] <= arrived[t])' /\ UNCHANGED <<sent, taken, arrived>>
  <2>1. Stream!Other(s) \in Stream!Sides
    BY Opposite
  <2> QED BY <1>5, <2>1 DEF Stream!Deliver, Stream!Buffered
<1>6. ASSUME NEW s \in Stream!Sides,
             \/ Stream!Shut(s) \/ Stream!Abort(s) \/ Stream!SessionEnds(s)
             \/ Stream!FinArrives(s) \/ Stream!StartFails(s)
             \/ Stream!StartRelay(s) \/ Stream!EndOfRead(s) \/ Stream!Refuse(s)
             \/ Stream!EndOfWrite(s) \/ Stream!HandlerEnds(s)
      PROVE  UNCHANGED <<sent, taken, arrived, out>>
  BY <1>6 DEF Stream!Shut, Stream!Abort, Stream!SessionEnds, Stream!FinArrives,
              Stream!StartFails, Stream!StartRelay, Stream!EndOfRead, Stream!Refuse,
              Stream!EndOfWrite, Stream!HandlerEnds
<1>7. Stream!Cancel \/ UNCHANGED Stream!vars => UNCHANGED <<sent, taken, arrived, out>>
  BY DEF Stream!Cancel, Stream!vars
<1> QED BY <1>1, <1>2, <1>3, <1>4, <1>5, <1>6, <1>7 DEF Stream!Next, Stream!Goroutines,
                                                        Stream!Network

(* Nothing is sent on a stream that has been closed.                       *)
LEMMA FinLastKept == StreamTypes /\ FinLast /\ [Stream!Next]_(Stream!vars) => FinLast'
<1> SUFFICES ASSUME StreamTypes, FinLast, [Stream!Next]_(Stream!vars), NEW t \in Stream!Sides, t \in fin'
             PROVE  Stream!Other(t) \in closed' /\ arrived'[Stream!Other(t)] = taken'[Stream!Other(t)]
  BY DEF FinLast
<1> DEFINE o == Stream!Other(t)
<1>0. o \in Stream!Sides /\ (t \in fin => o \in closed /\ arrived[o] = taken[o])
  BY Opposite DEF FinLast
<1> USE <1>0 DEF StreamTypes, StreamNumbers, Stream!Becomes, Stream!ends,
                 Stream!stream, Stream!local
<1>1. o \in closed => o \in closed'
  <2>1. ASSUME NEW s \in Stream!Sides, Stream!EndOfRead(s) \/ Stream!Refuse(s)
        PROVE  o \in closed => o \in closed'
    BY <2>1 DEF Stream!EndOfRead, Stream!Refuse, Stream!ReaderEnds
  <2>2. ASSUME NEW s \in Stream!Sides, Stream!StartFails(s) \/ Stream!HandlerEnds(s)
        PROVE  o \in closed => o \in closed'
    BY <2>2 DEF Stream!StartFails, Stream!HandlerEnds
  <2>3. ASSUME NEW s \in Stream!Sides,
               \/ Stream!Send(s) \/ Stream!Shut(s) \/ Stream!Abort(s)
               \/ Stream!SessionEnds(s) \/ Stream!Network(s)
               \/ Stream!StartRelay(s) \/ Stream!Copy(s) \/ Stream!Deliver(s)
               \/ Stream!EndOfWrite(s)
        PROVE  UNCHANGED closed
    BY <2>3 DEF Stream!Send, Stream!Shut, Stream!Abort, Stream!SessionEnds,
                Stream!Network, Stream!Arrive, Stream!FinArrives, Stream!StartRelay,
                Stream!Copy,
                Stream!Deliver, Stream!EndOfWrite
  <2>4. Stream!Cancel => (o \in closed => o \in closed')
    BY DEF Stream!Cancel, Stream!Sides
  <2> QED BY <2>1, <2>2, <2>3, <2>4 DEF Stream!Next, Stream!Goroutines, Stream!vars
<1>2. CASE t \in fin
  <2>1. ASSUME NEW s \in Stream!Sides, Stream!Copy(s) PROVE s # o
    BY <1>2, <2>1 DEF Stream!Copy
  <2>2. ASSUME NEW s \in Stream!Sides, Stream!Arrive(s) PROVE s # o
    BY <1>2, <2>2 DEF Stream!Arrive
  <2>3. ASSUME NEW s \in Stream!Sides, Stream!Copy(s) \/ Stream!Arrive(s)
        PROVE  arrived'[o] = arrived[o] /\ taken'[o] = taken[o]
    BY <2>1, <2>2, <2>3 DEF Stream!Copy, Stream!Arrive
  <2>4. ASSUME NEW s \in Stream!Sides,
               \/ Stream!Send(s) \/ Stream!Shut(s) \/ Stream!Abort(s)
               \/ Stream!SessionEnds(s) \/ Stream!FinArrives(s) \/ Stream!StartFails(s)
               \/ Stream!StartRelay(s) \/ Stream!EndOfRead(s) \/ Stream!Refuse(s)
               \/ Stream!Deliver(s) \/ Stream!EndOfWrite(s)
               \/ Stream!HandlerEnds(s)
        PROVE  UNCHANGED <<arrived, taken>>
    BY <2>4 DEF Stream!Send, Stream!Shut, Stream!Abort, Stream!SessionEnds,
                Stream!FinArrives, Stream!StartFails, Stream!StartRelay,
                Stream!EndOfRead,
                Stream!Refuse, Stream!Deliver, Stream!EndOfWrite, Stream!HandlerEnds
  <2>5. Stream!Cancel \/ UNCHANGED Stream!vars => UNCHANGED <<arrived, taken>>
    BY DEF Stream!Cancel, Stream!vars
  <2> QED BY <1>1, <1>2, <2>3, <2>4, <2>5 DEF Stream!Next, Stream!Goroutines, Stream!Network
<1>3. CASE t \notin fin
  <2>1. ASSUME NEW s \in Stream!Sides, Stream!FinArrives(s)
        PROVE  o \in closed' /\ arrived'[o] = taken'[o]
    BY <1>3, <2>1 DEF Stream!FinArrives
  <2>2. ASSUME NEW s \in Stream!Sides,
               \/ Stream!Send(s) \/ Stream!Shut(s) \/ Stream!Abort(s)
               \/ Stream!SessionEnds(s) \/ Stream!Arrive(s) \/ Stream!StartFails(s)
               \/ Stream!StartRelay(s) \/ Stream!Copy(s) \/ Stream!EndOfRead(s)
               \/ Stream!Refuse(s) \/ Stream!Deliver(s)
               \/ Stream!EndOfWrite(s) \/ Stream!HandlerEnds(s)
        PROVE  UNCHANGED fin
    BY <2>2 DEF Stream!Send, Stream!Shut, Stream!Abort, Stream!SessionEnds,
                Stream!Arrive, Stream!StartFails, Stream!StartRelay, Stream!Copy,
                Stream!EndOfRead,
                Stream!Refuse, Stream!Deliver, Stream!EndOfWrite, Stream!HandlerEnds
  <2>3. Stream!Cancel \/ UNCHANGED Stream!vars => UNCHANGED fin
    BY DEF Stream!Cancel, Stream!vars
  <2> QED BY <1>3, <2>1, <2>2, <2>3 DEF Stream!Next, Stream!Goroutines, Stream!Network
<1> QED BY <1>2, <1>3

-----------------------------------------------------------------------------
(* What has been true stays so.                                            *)
LEMMA StreamMonotonic ==
  [Stream!Next]_(Stream!vars) => shut \subseteq shut' /\ refused \subseteq refused' /\ (failed => failed')
<1> SUFFICES ASSUME [Stream!Next]_(Stream!vars)
             PROVE  shut \subseteq shut' /\ refused \subseteq refused' /\ (failed => failed')
  OBVIOUS
<1> USE DEF Stream!ends, Stream!stream, Stream!local
<1>1. ASSUME NEW s \in Stream!Sides,
             \/ Stream!Send(s) \/ Stream!Shut(s) \/ Stream!Abort(s)
             \/ Stream!SessionEnds(s) \/ Stream!Network(s) \/ Stream!StartFails(s)
      PROVE  shut \subseteq shut' /\ refused \subseteq refused' /\ (failed => failed')
  BY <1>1 DEF Stream!Send, Stream!Shut, Stream!Abort, Stream!SessionEnds,
              Stream!Network, Stream!Arrive, Stream!FinArrives, Stream!StartFails
<1>2. ASSUME NEW s \in Stream!Sides, Stream!Goroutines(s)
      PROVE  shut \subseteq shut' /\ refused \subseteq refused' /\ (failed => failed')
  BY <1>2 DEF Stream!Goroutines, Stream!StartRelay, Stream!Copy, Stream!EndOfRead,
              Stream!Refuse, Stream!Deliver, Stream!EndOfWrite, Stream!HandlerEnds
<1>3. Stream!Cancel \/ UNCHANGED Stream!vars => shut \subseteq shut' /\ refused \subseteq refused' /\ (failed => failed')
  BY DEF Stream!Cancel, Stream!vars
<1> QED BY <1>1, <1>2, <1>3 DEF Stream!Next

(* As long as nothing fails, the sides stay healthy.                       *)
LEMMA HealthyKept ==
  ASSUME StreamTypes, ~failed => \A s \in Stream!Sides : Healthy(s), FinLast,
         [Stream!Next]_(Stream!vars), ~failed',
         NEW t \in Stream!Sides
  PROVE  Healthy(t)'
<1>0. ~failed /\ Healthy(t) /\ Healthy(Stream!Other(t))
  <2>1. ~failed
    BY StreamMonotonic
  <2> QED BY <2>1, Opposite
<1> USE <1>0 DEF StreamTypes, StreamNumbers, Stream!Becomes, Stream!ends,
                 Stream!stream, Stream!local, Healthy
<1>1. CASE UNCHANGED Stream!vars
  BY <1>1 DEF Stream!vars
<1>2. ASSUME NEW s \in Stream!Sides, Stream!Send(s) PROVE Healthy(t)'
  BY <1>2 DEF Stream!Send
<1>3. ASSUME NEW s \in Stream!Sides, Stream!Shut(s) PROVE Healthy(t)'
  BY <1>3 DEF Stream!Shut
<1>4. ASSUME NEW s \in Stream!Sides, Stream!Abort(s) \/ Stream!SessionEnds(s) \/ Stream!StartFails(s)
      PROVE  FALSE
  BY <1>4 DEF Stream!Abort, Stream!SessionEnds, Stream!StartFails
<1>5. ASSUME NEW s \in Stream!Sides,
             \/ Stream!Arrive(s) \/ Stream!FinArrives(s) \/ Stream!StartRelay(s)
             \/ Stream!Deliver(s) \/ Stream!EndOfWrite(s)
      PROVE  Healthy(t)'
  BY <1>5 DEF Stream!Arrive, Stream!FinArrives, Stream!StartRelay, Stream!Deliver, Stream!EndOfWrite
<1>6. ASSUME NEW s \in Stream!Sides, Stream!Copy(s) PROVE Healthy(t)'
  BY <1>6 DEF Stream!Copy, Stream!Reads
<1>7. ASSUME NEW s \in Stream!Sides, Stream!EndOfRead(s) PROVE Healthy(t)'
  BY <1>7 DEF Stream!EndOfRead, Stream!ReaderEnds, Stream!Reads
(* A write is refused only because the other side has closed the stream.   *)
<1>8. ASSUME NEW s \in Stream!Sides, Stream!Refuse(s) PROVE Healthy(t)'
  BY <1>8 DEF Stream!Refuse, Stream!ReaderEnds, Stream!Reads
<1>9. ASSUME NEW s \in Stream!Sides, Stream!HandlerEnds(s) PROVE Healthy(t)'
  BY <1>9 DEF Stream!HandlerEnds
<1>10. ~Stream!Cancel
  BY DEF Stream!Cancel
<1> QED BY <1>1, <1>2, <1>3, <1>4, <1>5, <1>6, <1>7, <1>8, <1>9, <1>10 DEF
              Stream!Next, Stream!Goroutines, Stream!Network

(* The side that is told of the end has seen a FIN, because its own reader *)
(* has not closed the stream; and the other side has then read all.        *)
LEMMA StreamToldLast ==
  ASSUME StreamIInv, ~failed, NEW s \in Stream!Sides, Stream!EndOfWrite(s), s \notin shut, s \notin refused
  PROVE  Stream!Other(s) \in shut /\ out[Stream!Other(s)] = sent[Stream!Other(s)]
<1> DEFINE o == Stream!Other(s)
<1>0. o \in Stream!Sides /\ Stream!Other(o) = s
  BY Opposite
<1>1. Healthy(s) /\ Healthy(o)
  BY <1>0 DEF StreamIInv
<1>2. s \notin closed /\ s \in fin /\ out[o] >= arrived[o]
  BY <1>0, <1>1 DEF Stream!EndOfWrite, Stream!Buffered, Healthy, StreamIInv,
                    StreamTypes, StreamNumbers
<1>3. o \in closed /\ arrived[o] = taken[o]
  BY <1>2 DEF StreamIInv, FinLast
<1>4. o \notin refused
  BY <1>0, <1>1, <1>2 DEF StreamIInv, FinLast, Healthy
<1>5. o \in shut /\ taken[o] = sent[o]
  BY <1>1, <1>3, <1>4 DEF Healthy
<1> QED BY <1>0, <1>2, <1>3, <1>5 DEF StreamIInv, DataInOrder, StreamTypes, StreamNumbers

LEMMA CutKept == StreamIInv /\ [Stream!Next]_(Stream!vars) => Stream!CutShortOnlyByReply'
<1> SUFFICES ASSUME StreamIInv, [Stream!Next]_(Stream!vars), NEW t \in Stream!Sides,
                    t \in informed', ~failed', t \notin shut', t \notin refused'
             PROVE  Stream!Other(t) \in shut' /\ out'[Stream!Other(t)] = sent'[Stream!Other(t)]
  BY DEF Stream!CutShortOnlyByReply
<1> DEFINE o == Stream!Other(t)
<1>0. o \in Stream!Sides /\ Stream!Other(o) = t
  BY Opposite
<1>1. ~failed /\ t \notin shut /\ t \notin refused
  BY StreamMonotonic
<1> USE <1>0, <1>1 DEF Stream!ends, Stream!stream, Stream!local
(* Nothing is left to send or to deliver.                                  *)
<1>2. CASE t \in informed
  <2>1. o \in shut /\ out[o] = sent[o] /\ o \in shut'
    BY <1>2, StreamMonotonic DEF StreamIInv, Stream!CutShortOnlyByReply
  <2>2. out[o] = arrived[o]
    BY <2>1 DEF StreamIInv, DataInOrder, StreamTypes, StreamNumbers
  <2>3. ASSUME NEW s \in Stream!Sides, Stream!Send(s) PROVE sent'[o] = sent[o] /\ out' = out
    BY <2>1, <2>3 DEF Stream!Send, Stream!Becomes, StreamIInv, StreamTypes, StreamNumbers
  <2>4. ASSUME NEW s \in Stream!Sides, Stream!Deliver(s) PROVE out'[o] = out[o] /\ sent' = sent
    <3>1. Stream!Other(s) \in Stream!Sides /\ Stream!Other(s) # o
      BY <2>2, <2>4, Opposite DEF Stream!Deliver, Stream!Buffered, StreamIInv,
                                  StreamTypes, StreamNumbers
    <3> QED BY <2>4, <3>1 DEF Stream!Deliver, Stream!Becomes, StreamIInv, StreamTypes, StreamNumbers
  <2>5. ASSUME NEW s \in Stream!Sides,
               \/ Stream!Shut(s) \/ Stream!Abort(s) \/ Stream!SessionEnds(s)
               \/ Stream!Network(s) \/ Stream!StartFails(s)
               \/ Stream!StartRelay(s) \/ Stream!Copy(s) \/ Stream!EndOfRead(s)
               \/ Stream!Refuse(s) \/ Stream!EndOfWrite(s)
               \/ Stream!HandlerEnds(s)
        PROVE  out' = out /\ sent' = sent
    BY <2>5 DEF Stream!Shut, Stream!Abort, Stream!SessionEnds, Stream!Network,
                Stream!Arrive, Stream!FinArrives, Stream!StartFails, Stream!StartRelay,
                Stream!Copy, Stream!EndOfRead, Stream!Refuse, Stream!EndOfWrite, Stream!HandlerEnds
  <2>6. Stream!Cancel \/ UNCHANGED Stream!vars => out' = out /\ sent' = sent
    BY DEF Stream!Cancel, Stream!vars
  <2> QED BY <2>1, <2>3, <2>4, <2>5, <2>6 DEF Stream!Next, Stream!Goroutines
<1>3. CASE t \notin informed
  <2>1. ASSUME NEW s \in Stream!Sides, Stream!EndOfWrite(s) PROVE o \in shut' /\ out'[o] = sent'[o]
    <3>1. s = t /\ UNCHANGED <<out, sent, shut>>
      BY <1>3, <2>1 DEF Stream!EndOfWrite
    <3> QED BY <2>1, <3>1, StreamToldLast
  <2>2. ASSUME NEW s \in Stream!Sides,
               \/ Stream!Send(s) \/ Stream!Shut(s) \/ Stream!Abort(s)
               \/ Stream!SessionEnds(s) \/ Stream!Network(s) \/ Stream!StartFails(s)
               \/ Stream!StartRelay(s) \/ Stream!Copy(s) \/ Stream!EndOfRead(s)
               \/ Stream!Refuse(s) \/ Stream!Deliver(s)
               \/ Stream!HandlerEnds(s)
        PROVE  informed' = informed
    BY <2>2 DEF Stream!Send, Stream!Shut, Stream!Abort, Stream!SessionEnds,
                Stream!Network, Stream!Arrive, Stream!FinArrives, Stream!StartFails,
                Stream!StartRelay, Stream!Copy, Stream!EndOfRead, Stream!Refuse,
                Stream!Deliver, Stream!HandlerEnds
  <2>3. Stream!Cancel \/ UNCHANGED Stream!vars => informed' = informed
    BY DEF Stream!Cancel, Stream!vars
  <2> QED BY <1>3, <2>1, <2>2, <2>3 DEF Stream!Next, Stream!Goroutines
<1> QED BY <1>2, <1>3

LEMMA StreamNextInv == StreamIInv /\ [Stream!Next]_(Stream!vars) => StreamIInv'
<1> SUFFICES ASSUME StreamIInv, [Stream!Next]_(Stream!vars) PROVE StreamIInv'
  OBVIOUS
<1>1. StreamTypes' /\ DataInOrder' /\ FinLast'
  BY StreamTypesKept, DataInOrderKept, FinLastKept DEF StreamIInv
<1>2. ~failed' => \A s \in Stream!Sides : Healthy(s)'
  BY HealthyKept DEF StreamIInv
<1> QED BY <1>1, <1>2, CutKept DEF StreamIInv

(* However much is sent, a relay is cut short only by the other half of    *)
(* the same stream (client.go:315-340, main.go:211-236).                   *)
THEOREM StreamsAreCutByReply == Stream!Spec => []CutShortOnlyByReply
<1>1. StreamIInv => CutShortOnlyByReply
  BY DEF StreamIInv, CutShortOnlyByReply
<1> QED BY <1>1, StreamInitInv, StreamNextInv, PTL DEF Stream!Spec
=============================================================================
