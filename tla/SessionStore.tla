---------------------------- MODULE SessionStore ----------------------------
(***************************************************************************)
(* What the sidecar promises about the one thing it keeps: the session     *)
(* that the service accepts next.  It is saved when the token file yields  *)
(* it, unsaved when it is only in memory or on its way there, and lost     *)
(* otherwise.  Only a fault ever loses a session, and no fault loses one   *)
(* that is saved, but for an answer that is none: the service has to issue *)
(* another one first.                                                      *)
(***************************************************************************)
EXTENDS Naturals

VARIABLES
  issued,   \* how many sessions the service has issued
  custody,  \* where the last one of them is
  hurt      \* the kinds of faults there have been

Init == issued = 1 /\ custody = "saved" /\ hurt = {}

(* A refresh is granted, also to a session that is no longer the last.     *)
Renew == issued' = issued + 1 /\ custody' = "unsaved" /\ UNCHANGED hurt

(* A refresh is granted that nobody waits for any more. *)
RenewUnseen ==
  /\ hurt # {}
  /\ issued' = issued + 1 /\ custody' = "lost" /\ UNCHANGED hurt

Move(from, to) == custody = from /\ custody' = to /\ hurt \subseteq hurt' /\ UNCHANGED issued

Save == Move("unsaved", "saved")
Lose == Move("unsaved", "lost") /\ hurt' # {}

(* An answer that is no session replaces the one in the file. *)
Destroy == Move("saved", "lost") /\ "stray" \in hurt'

(* A damaged file yields the session after all. *)
Salvage == Move("lost", "unsaved") /\ "disk" \in hurt

Hurt == custody' = custody /\ hurt \subseteq hurt' /\ UNCHANGED issued

Next == Renew \/ RenewUnseen \/ Save \/ Lose \/ Destroy \/ Salvage \/ Hurt

Spec == Init /\ [][Next]_<<issued, custody, hurt>>
=============================================================================
