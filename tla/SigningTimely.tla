---------------------------- MODULE SigningTimely ----------------------------
(***************************************************************************)
(* A signing request across the refreshes: TokenRefreshTimely, together    *)
(* with a handler that attaches the token in memory to a request           *)
(* (addAuthHeaderFn) and CubeSigner, which sees the request some time      *)
(* later and accepts it or not.  A refused request is not made again: the  *)
(* validator gets an error in place of its signature.                      *)
(*                                                                         *)
(* One handler is enough: handlers do not touch what the refresher uses.   *)
(***************************************************************************)
EXTENDS TokenRefreshTimely

CONSTANT MaxDelay  \* bound of the time between taking the token and its check

ASSUME SigningAssumption ==
  /\ MaxDelay \in Nat
  /\ MaxRtt + MaxDelay < Grace                        \* both fit into the grace period
  /\ \A skew \in Skews :
       /\ MaxRtt + MaxDelay <= Second + skew           \* and into the margin,
       /\ MaxRtt + MaxDelay + Second + skew < AuthLife \* and no two refreshes overlap

VARIABLE request  \* the request, the session whose token it has, and since when

signingVars == <<timelyVars, request>>

NoRequest == [state |-> "none", session |-> Blank, takenAt |-> 0]

SigningInit == TimelyInit /\ request = NoRequest

TakeToken ==
  /\ proc = "up" /\ request = NoRequest
  /\ request' = [state |-> "sent", session |-> tokenData, takenAt |-> now]
  /\ UNCHANGED timelyVars

(* CubeSigner looks at the token: its expiry, and whether its session has  *)
(* been rotated for longer than the grace period.                          *)
AcceptsToken(s) ==
  /\ now <= s.authExp
  /\ \/ s.epoch = service.current.epoch
     \/ s.epoch + 1 = service.current.epoch /\ now < service.graceEnd

Check ==
  /\ request.state = "sent"
  /\ request' = IF AcceptsToken(request.session) THEN NoRequest
                ELSE [request EXCEPT !.state = "refused"]
  /\ UNCHANGED timelyVars

RefresherStep == (TimelyStart \/ TimelySend \/ TimelyStep) /\ UNCHANGED request

SigningTick ==
  /\ TimelyTick
  /\ request.state = "sent" => now < request.takenAt + MaxDelay
  /\ UNCHANGED request

SigningNext == TakeToken \/ Check \/ RefresherStep \/ SigningTick

SigningSpec == SigningInit /\ [][SigningNext]_signingVars

-----------------------------------------------------------------------------
(* No request is ever refused because of the refreshes: whatever the       *)
(* handler loaded, the old token or the new one, before, during or after a *)
(* refresh, is still good when CubeSigner sees it.                         *)
NeverRefused == request.state # "refused"
=============================================================================
