------------------------------ MODULE Sidecar ------------------------------
(***************************************************************************)
(* The process of main/main.go: the main goroutine, which reads the        *)
(* configuration and the token file, starts two goroutines and then serves *)
(* gRPC; the goroutine that waits for a signal; and the token refresher,   *)
(* of which only the places where it can be stopped, and where it cannot,  *)
(* matter here (module TokenRefresh has the rest).                         *)
(***************************************************************************)
EXTENDS Naturals

CONSTANT MaxSignals  \* bound of the signals sent

ASSUME SidecarAssumption == MaxSignals \in Nat

VARIABLES
  main,       \* where the main goroutine is
  exit,       \* how the process ended
  handler,    \* the goroutine of handleSystemSignals
  sigChan,    \* signals in its channel, which has room for one
  ctxDone,    \* the context of runServer is cancelled
  refresher,  \* the goroutine of StartBackgroundTokenRefresh: at the head of
              \* its loop, at its timer, or in RefreshToken
  signals     \* how many interrupts were sent

vars == <<main, exit, handler, sigChan, ctxDone, refresher, signals>>

(* The types; and the refresher is started before Listen. *)
TypeOK ==
  /\ main \in {"configure", "new", "start", "listen", "serve"}
  /\ exit \in {"running", "usage", "failure", "signal", "gracefully"}
  /\ handler \in {"none", "starting", "waiting", "returned"}
  /\ sigChan \in 0..1
  /\ ctxDone \in BOOLEAN
  /\ refresher \in {"none", "check", "timer", "calling", "returned"}
  /\ signals \in 0..MaxSignals
  /\ (main \in {"listen", "serve"}) <=> (refresher # "none")

Init ==
  /\ main = "configure" /\ exit = "running"
  /\ handler = "none" /\ sigChan = 0 /\ ctxDone = FALSE /\ refresher = "none"
  /\ signals = 0

Running == exit = "running"

(* The process ends, with all its goroutines. *)
Exits(how) ==
  /\ exit' = how
  /\ UNCHANGED <<main, handler, sigChan, ctxDone, refresher, signals>>

Goes(from, to) == Running /\ main = from /\ main' = to

-----------------------------------------------------------------------------
(* The main goroutine. *)

(* Flags, help, viper, validation. *)
Configure ==
  /\ Goes("configure", "new")
  /\ UNCHANGED <<exit, handler, sigChan, ctxDone, refresher, signals>>

ConfigureEnds == Running /\ main = "configure" /\ \E how \in {"usage", "failure"} : Exits(how)

(* signerserver.New reads the token file (NewClientWithResponses without   *)
(* options cannot fail); the signal handler's goroutine is started.        *)
New ==
  /\ Goes("new", "start")
  /\ handler' = "starting"
  /\ UNCHANGED <<exit, sigChan, ctxDone, refresher, signals>>

NewFails == Running /\ main = "new" /\ Exits("failure")

(* A bug: the refresher is left to be started after Serve. *)
Late_StartBackgroundTokenRefresh ==
  /\ Goes("start", "listen")
  /\ UNCHANGED <<exit, handler, sigChan, ctxDone, refresher, signals>>

(* A bug: its loop is run by the main goroutine, without go. *)
NoGo_StartBackgroundTokenRefresh ==
  /\ Running /\ main = "start" /\ refresher = "none"
  /\ refresher' = "check"
  /\ UNCHANGED <<main, exit, handler, sigChan, ctxDone, signals>>

StartBackgroundTokenRefresh ==
  /\ Goes("start", "listen")
  /\ refresher' = "check"
  /\ UNCHANGED <<exit, handler, sigChan, ctxDone, signals>>

(* Listening on a port does not look at the context it is given. *)
Listen ==
  /\ Goes("listen", "serve")
  /\ UNCHANGED <<exit, handler, sigChan, ctxDone, refresher, signals>>

ListenFails == Running /\ main = "listen" /\ Exits("failure")

(* Serve returns when the listener fails.  It would also return, without   *)
(* an error, after Stop or GracefulStop, which nothing calls.              *)
ServeFails == Running /\ main = "serve" /\ Exits("failure")

-----------------------------------------------------------------------------
(* The signals. *)

Notify ==
  /\ Running /\ handler = "starting"
  /\ handler' = "waiting"
  /\ UNCHANGED <<main, exit, sigChan, ctxDone, refresher, signals>>

(* Ctrl-C.  Before Notify it ends the process; after it, it goes to the    *)
(* channel if there is room, and is dropped if there is none.              *)
Interrupt ==
  /\ Running /\ signals < MaxSignals
  /\ signals' = signals + 1
  /\ IF handler \in {"none", "starting"}
     THEN exit' = "signal" /\ UNCHANGED sigChan
     ELSE sigChan' = 1 /\ UNCHANGED exit
  /\ UNCHANGED <<main, handler, ctxDone, refresher>>

(* Any other signal, which is not asked for: SIGTERM, SIGKILL. *)
Terminate == Running /\ Exits("signal")

(* A bug: the signal is logged and the context is not cancelled. *)
NoCancel_HandleSignal ==
  /\ Running /\ handler = "waiting" /\ sigChan = 1
  /\ sigChan' = 0 /\ handler' = "returned"
  /\ UNCHANGED <<main, exit, ctxDone, refresher, signals>>

HandleSignal ==
  /\ Running /\ handler = "waiting" /\ sigChan = 1
  /\ sigChan' = 0 /\ ctxDone' = TRUE /\ handler' = "returned"
  /\ UNCHANGED <<main, exit, refresher, signals>>

-----------------------------------------------------------------------------
(* The other goroutines. *)

At(place) == Running /\ refresher = place

RefresherGoes(to) ==
  /\ refresher' = to
  /\ UNCHANGED <<main, exit, handler, sigChan, ctxDone, signals>>

ArmTimer == At("check") /\ ~ ctxDone /\ RefresherGoes("timer")

(* Also with a cancelled context: when both cases of the inner select are  *)
(* ready, either may be taken.                                             *)
TimerFires == At("timer") /\ RefresherGoes("calling")

(* A bug: return for continue, after a refresh that failed. *)
GiveUp_CallReturns == At("calling") /\ RefresherGoes("returned")

(* The call of RefreshToken, which has the background context and no       *)
(* deadline, and the save.                                                 *)
CallReturns == At("calling") /\ RefresherGoes("check")

RefresherReturns == (At("check") \/ At("timer")) /\ ctxDone /\ RefresherGoes("returned")

(* log.Fatalf: the refresh token has expired.  The context may have been   *)
(* cancelled since the head of the loop.                                   *)
RefreshTokenExpired == At("check") /\ Exits("failure")

(* A gRPC handler panics. *)
HandlerPanics == Running /\ main = "serve" /\ Exits("failure")

Next ==
  \/ Configure \/ ConfigureEnds \/ New \/ NewFails \/ StartBackgroundTokenRefresh
  \/ Listen \/ ListenFails \/ ServeFails
  \/ Notify \/ Interrupt \/ Terminate \/ HandleSignal
  \/ ArmTimer \/ TimerFires \/ CallReturns \/ RefresherReturns \/ RefreshTokenExpired
  \/ HandlerPanics

Spec == Init /\ [][Next]_vars

(* The scheduler runs the goroutines.  Nothing is assumed of signals,      *)
(* failures and timers, nor of the call of RefreshToken, which may never   *)
(* return.                                                                 *)
FairSpec ==
  /\ Spec
  /\ WF_vars(Configure \/ ConfigureEnds) /\ WF_vars(New \/ NewFails)
  /\ WF_vars(StartBackgroundTokenRefresh) /\ WF_vars(Listen \/ ListenFails)
  /\ WF_vars(Notify) /\ WF_vars(HandleSignal)
  /\ WF_vars(ArmTimer) /\ WF_vars(RefresherReturns)

-----------------------------------------------------------------------------
(* Properties. *)

(* While gRPC is served and no signal was handled, the session is kept     *)
(* alive: the sidecar never serves on a token nobody refreshes.  (A        *)
(* refresher whose call never returns is there, and of no use.)            *)
ServesWithRefresher ==
  Running /\ main = "serve" /\ ~ ctxDone => refresher \in {"check", "timer", "calling"}

(* The start comes to an end: the sidecar serves or exits, also when a     *)
(* signal comes in the middle of it.                                       *)
StartSettles == <>(main = "serve" \/ ~ Running)

(* No call of RefreshToken lasts for ever: this is up to CubeSigner and    *)
(* the network, as in module TokenRefresh.                                 *)
Answered == []<>(refresher # "calling")

(* An interrupt that finds the process does something about it: the        *)
(* process ends, or its refresher returns, also out of a call that was in  *)
(* progress when the context was cancelled, if the call returns.           *)
InterruptStopsRefresher == Answered => (signals > 0 ~> (~ Running \/ refresher = "returned"))

(* main.go handles os signals and logs "server exited gracefully" after    *)
(* runServer: an interrupt would end the process.                          *)
InterruptEnds == Answered => (signals > 0 ~> ~ Running)
=============================================================================
