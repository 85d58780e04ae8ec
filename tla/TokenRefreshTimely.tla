------------------------- MODULE TokenRefreshTimely -------------------------
(***************************************************************************)
(* TokenRefresh on a machine and a network that keep up: the goroutine     *)
(* takes no time, every refresh is answered within MaxRtt ticks, the       *)
(* sidecar is started with more than the margin left on its auth token and *)
(* is neither killed nor interrupted.  The disk may still fail, and the    *)
(* clock may be wrong, and be set, within Skews.  This is the situation    *)
(* the margin in StartBackgroundTokenRefresh is meant for.                 *)
(***************************************************************************)
EXTENDS TokenRefresh

CONSTANT MaxRtt  \* bound of a refresh call's round trip

ASSUME TimelyAssumption ==
  /\ MaxRtt \in Nat
  /\ MaxRtt + Second <= AuthLife
  /\ AuthLife <= RefreshLife
  /\ \A skew \in Skews :
       /\ MaxRtt <= Second + skew                     \* not too late,
       /\ AuthLife + skew <= RefreshLife + Second     \* nor so fast that it gives up

VARIABLE sentAt  \* when the call in progress was made

timelyVars == <<vars, sentAt>>

TimelyInit == Init /\ sentAt = 0

(* The sidecar is started while its auth token has the margin left. *)
TimelyStart ==
  /\ Start
  /\ proc = "down" /\ now + Margin <= tokenData'.authExp
  /\ UNCHANGED sentAt

TimelySend == TimerFires /\ sentAt' = now

TimelyStep ==
  /\ \/ ArmTimer \/ RefreshTokenExpired \/ RefreshGranted \/ RefreshDenied
     \/ saveTokenData \/ SaveFails \/ AnswerCall
  /\ UNCHANGED sentAt

(* Nothing that is due is left waiting while the clock advances. *)
TimelyTick ==
  /\ Tick
  /\ proc = "up" =>
       \/ pc = "timer" /\ now < deadline
       \/ pc = "await" /\ now < sentAt + MaxRtt
  /\ UNCHANGED sentAt

TimelyNext == TimelyStart \/ TimelySend \/ TimelyStep \/ TimelyTick

TimelySpec == TimelyInit /\ [][TimelyNext]_timelyVars

-----------------------------------------------------------------------------
(* The auth token that the handlers attach to their requests is never past *)
(* its expiry, whether or not the saves succeed and however wrong the      *)
(* clock: the refresh starts early enough, and the session it brings is in *)
(* memory before the old one ends.                                         *)
FreshToken ==
  /\ proc # "fatal"
  /\ proc = "up" => now <= tokenData.authExp
=============================================================================
