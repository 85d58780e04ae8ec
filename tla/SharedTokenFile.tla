-------------------------- MODULE SharedTokenFile --------------------------
(***************************************************************************)
(* Two sidecars on one token file.  runServer starts the refresher before  *)
(* it listens, so a second sidecar on the port of the first refreshes and  *)
(* saves like the first until its Listen fails; and nothing keeps two on   *)
(* different ports from sharing a file for good.  TokenRefresh is the      *)
(* first of them, and Duplicate, with memory of its own, the second.  No   *)
(* call is lost here and every file access succeeds.                       *)
(***************************************************************************)
EXTENDS TokenRefresh

VARIABLES proc2, ctxDone2, pc2, deadline2, tokenData2, call2

firstVars  == <<proc, ctxDone, pc, deadline, tokenData, call>>
secondVars == <<proc2, ctxDone2, pc2, deadline2, tokenData2, call2>>
sharedVars == <<vars, secondVars>>

Duplicate ==
  INSTANCE TokenRefresh WITH
    proc <- proc2, ctxDone <- ctxDone2, pc <- pc2,
    deadline <- deadline2, tokenData <- tokenData2, call <- call2

SharedInit ==
  /\ Init
  /\ proc2 = "down" /\ ctxDone2 = FALSE /\ pc2 = "returned" /\ deadline2 = 0
  /\ tokenData2 = Blank /\ call2 = NoCall

FirstStep ==
  /\ Start \/ Crash \/ Refresher \/ AnswerCall
  /\ UNCHANGED secondVars

SecondStep ==
  /\ Duplicate!Start \/ Duplicate!Refresher \/ Duplicate!AnswerCall
  /\ UNCHANGED firstVars

(* The port is taken: runServer returns and main exits, whatever the       *)
(* goroutine is doing.                                                     *)
ListenFails ==
  /\ proc2 = "up"
  /\ Duplicate!LeaveBehind
  /\ proc2' = "fatal" /\ Duplicate!Gone
  /\ UNCHANGED <<firstVars, now, file, service, faults>>

Elsewhere == (AnswerStray \/ Tick) /\ UNCHANGED secondVars

SharedNext == FirstStep \/ SecondStep \/ ListenFails \/ Elsewhere

SharedSpec == SharedInit /\ [][SharedNext]_sharedVars

-----------------------------------------------------------------------------
(* However the saves of the two follow one another, and whatever their     *)
(* lengths, the next start finds a session of the service in the file.     *)
FileAlwaysLoads ==
  /\ ~ DecodeFails(file)
  /\ \A s \in Loadable(file) : s.epoch \in 1..service.current.epoch

(* A duplicate that comes and goes takes no session away from the sidecar  *)
(* that serves with it, unless it comes when a refresh is due anyway or    *)
(* has just been made: it first sleeps like the other.                     *)
RotatedWhenDue ==
  [][service' # service =>
       \/ \E skew \in Skews : service.current.authExp <= now + skew + Margin
       \/ now < service.graceEnd]_sharedVars
=============================================================================
