---------------------------- MODULE SidecarProofs ----------------------------
(***************************************************************************)
(* Proofs about Sidecar, for any number of signals.                        *)
(***************************************************************************)
EXTENDS Sidecar, TLAPS

(* Only a cancelled context makes the refresher return. *)
ReturnsWhenCancelled == refresher = "returned" => ctxDone

SidecarInv == TypeOK /\ ReturnsWhenCancelled

LEMMA SidecarInvInit == Init => SidecarInv
<1> SUFFICES ASSUME Init PROVE SidecarInv
  OBVIOUS
<1>1. signals \in 0..MaxSignals
  BY SidecarAssumption DEF Init
<1>2. ctxDone \in BOOLEAN
  BY Zenon DEF Init
<1>3. /\ main = "configure" /\ exit = "running" /\ handler = "none" /\ sigChan = 0
      /\ refresher = "none"
  BY DEF Init
<1> QED
  BY <1>1, <1>2, <1>3 DEF SidecarInv, TypeOK, ReturnsWhenCancelled

LEMMA SidecarInvStep == SidecarInv /\ [Next]_vars => SidecarInv'
<1> SUFFICES ASSUME SidecarInv, [Next]_vars PROVE SidecarInv'
  OBVIOUS
<1> USE SidecarAssumption DEF SidecarInv, TypeOK, ReturnsWhenCancelled, Running, Goes, Exits
<1>1. CASE Configure \/ New \/ StartBackgroundTokenRefresh \/ Listen
  BY <1>1 DEF Configure, New, StartBackgroundTokenRefresh, Listen
<1>2. CASE ConfigureEnds \/ NewFails \/ ListenFails \/ ServeFails \/ HandlerPanics
  BY <1>2 DEF ConfigureEnds, NewFails, ListenFails, ServeFails, HandlerPanics
<1>3. CASE Notify \/ HandleSignal
  <2>1. CASE Notify
    BY <2>1 DEF Notify
  <2>2. CASE HandleSignal
    <3>1. ctxDone'
      BY <2>2, Zenon DEF HandleSignal
    <3>2. ctxDone' \in BOOLEAN
      BY <2>2, Zenon DEF HandleSignal
    <3>3. sigChan' = 0 /\ handler' = "returned" /\ UNCHANGED <<main, exit, refresher, signals>>
      BY <2>2 DEF HandleSignal
    <3> QED
      BY <3>1, <3>2, <3>3
  <2> QED
    BY <1>3, <2>1, <2>2
<1>4. CASE Interrupt
  <2>1. signals' \in 0..MaxSignals
    BY <1>4 DEF Interrupt
  <2> QED
    BY <1>4, <2>1 DEF Interrupt
<1>5. CASE Terminate \/ RefreshTokenExpired
  BY <1>5 DEF Terminate, RefreshTokenExpired, At
<1>6. CASE ArmTimer \/ TimerFires \/ CallReturns \/ RefresherReturns
  <2>1. /\ refresher' \in {"check", "timer", "calling", "returned"}
        /\ refresher \in {"check", "timer", "calling"}
        /\ UNCHANGED <<main, exit, handler, sigChan, ctxDone, signals>>
    BY <1>6 DEF ArmTimer, TimerFires, CallReturns, RefresherReturns, At, RefresherGoes
  <2>2. refresher' = "returned" => ctxDone
    BY <1>6 DEF ArmTimer, TimerFires, CallReturns, RefresherReturns, At, RefresherGoes
  <2> QED
    BY <2>1, <2>2
<1>7. CASE UNCHANGED vars
  BY <1>7 DEF vars
<1> QED
  BY <1>1, <1>2, <1>3, <1>4, <1>5, <1>6, <1>7 DEF Next

(* Before a signal was handled the sidecar never serves on a token nobody  *)
(* refreshes.                                                              *)
THEOREM ServesRefreshed == Spec => []ServesWithRefresher
<1>1. SidecarInv => ServesWithRefresher
  BY DEF SidecarInv, TypeOK, ReturnsWhenCancelled, ServesWithRefresher
<1> QED
  BY <1>1, SidecarInvInit, SidecarInvStep, PTL DEF Spec

(* The types, and that Listen comes after the start of the refresher.      *)
THEOREM TypeCorrect == Spec => []TypeOK
<1>1. SidecarInv => TypeOK
  BY DEF SidecarInv
<1> QED
  BY <1>1, SidecarInvInit, SidecarInvStep, PTL DEF Spec
=============================================================================
