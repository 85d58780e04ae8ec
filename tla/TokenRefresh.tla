---------------------------- MODULE TokenRefresh ----------------------------
(***************************************************************************)
(* The background token refresh of signerserver/signerserver.go: one       *)
(* goroutine that sleeps until a second before the auth token expires,     *)
(* exchanges the session for a new one at the CubeSigner service, keeps    *)
(* the new session in memory and writes it to the token file; the process  *)
(* around it, which may be interrupted, may die and is started again from  *)
(* that file; and the service, which rotates the session at every refresh. *)
(*                                                                         *)
(* A session is [epoch, authExp, refreshExp, size]; epoch stands for all   *)
(* the secrets issued together (token, epoch token, refresh token), size   *)
(* for the length of the session's JSON text.                              *)
(***************************************************************************)
EXTENDS TokenFile, Integers

CONSTANTS
  Second,       \* ticks of the clock in a second; all times are in ticks
  AuthLife,     \* how long the service makes an auth token valid
  RefreshLife,  \* how long it makes a refresh token valid
  Grace,        \* how long a rotated session is still accepted
  Skews,        \* by how much the clock of the machine may be ahead of the
                \* service's, or behind it if negative
  Sizes,        \* possible lengths of a session's document, in cells
  MaxTime,      \* bound of the clock
  FaultBudget   \* bound of the number of faults of each kind

(* net: the answer of a call is lost or unusable.  stray: something other  *)
(* than the service answers a call with status 200 and JSON that is no     *)
(* session.  disk: the token file cannot be opened or takes only a part of *)
(* a write.  midCrash: the process dies between sending a refresh and the  *)
(* end of its save.                                                        *)
FaultKind == {"net", "stray", "disk", "midCrash"}

ASSUME ConstantsAssumption ==
  /\ Second \in Nat \ {0}
  /\ AuthLife \in Nat /\ RefreshLife \in Nat /\ Grace \in Nat
  /\ Skews \subseteq Int /\ 0 \in Skews
  /\ Sizes \subseteq Nat \ {0}
  /\ MaxTime \in Nat
  /\ FaultBudget \in [FaultKind -> Nat]

VARIABLES
  now,        \* the time, by the service's clock
  proc,       \* the process: "down", "up", or how it ended
  ctxDone,    \* the context of runServer is cancelled
  pc,         \* where the refresh goroutine is
  deadline,   \* when its timer fires
  tokenData,  \* the session in memory
  call,       \* the refresh call the goroutine waits for
  file,       \* the token file
  service,    \* the service: the current session, and until when its
              \* predecessor is still accepted
  stray,      \* sessions of requests nobody waits for any more
  faults      \* how many faults of each kind have happened

vars == <<now, proc, ctxDone, pc, deadline, tokenData, call, file, service, stray, faults>>

Session == [epoch : Nat, authExp : Nat, refreshExp : Nat, size : Nat \ {0}]

(* Stands for the memory of a process that does not run, and for the       *)
(* session of a call that was not made.                                    *)
Blank == [epoch |-> 0, authExp |-> 0, refreshExp |-> 0, size |-> 1]

(* The types, and how the places of the goroutine and of its call go       *)
(* together: RefreshToken leaves no call behind, and a process that is not *)
(* running has no session in memory.                                       *)
TypeOK ==
  /\ now \in Nat
  /\ proc \in {"down", "up", "fatal", "badFile"}
  /\ ctxDone \in BOOLEAN
  /\ pc \in {"check", "timer", "await", "save", "returned"}
  /\ deadline \in Nat
  /\ tokenData \in Session
  /\ call \in [state : {"none", "sent", "granted", "denied"}, session : Session]
  /\ file \in Seq(Session)
  /\ service \in [current : Session, graceEnd : Nat]
  /\ stray \subseteq Session
  /\ faults \in [FaultKind -> Nat]
  /\ pc = "await" <=> call.state # "none"
  /\ proc # "up" => pc = "returned" /\ tokenData = Blank

-----------------------------------------------------------------------------
(* The service. *)

Issue(e, n) == [epoch |-> e, authExp |-> now + AuthLife, refreshExp |-> now + RefreshLife, size |-> n]

Accepts(s) ==
  /\ now <= s.refreshExp
  /\ \/ s.epoch = service.current.epoch
     \/ s.epoch + 1 = service.current.epoch /\ now < service.graceEnd

Rotated(n) == [current |-> Issue(service.current.epoch + 1, n), graceEnd |-> now + Grace]

-----------------------------------------------------------------------------
(* The process. *)

NoCall == [state |-> "none", session |-> Blank]

Init ==
  /\ now = 1  \* later than an expiry of 0, which is in 1970
  /\ \E n \in Sizes : service = [current |-> Issue(1, n), graceEnd |-> 0]
  /\ tokenData = Blank
  /\ file = Document(service.current)
  /\ proc = "down" /\ ctxDone = FALSE /\ pc = "returned" /\ deadline = 0
  /\ call = NoCall
  /\ stray = {}
  /\ faults = [k \in FaultKind |-> 0]

Zero_Margin == 0  \* a bug: no margin

Margin == Second  \* time.Second

Fault(k) == faults[k] < FaultBudget[k] /\ faults' = [faults EXCEPT ![k] = @ + 1]

(* New reads the token file and the goroutine is started. *)
Start ==
  /\ proc # "up"
  /\ \E s \in Loadable(file) : tokenData' = s
  /\ proc' = "up" /\ ctxDone' = FALSE /\ pc' = "check" /\ deadline' = 0
  /\ call' = NoCall
  /\ UNCHANGED <<now, file, service, stray, faults>>

(* New cannot open the file or cannot decode it; main exits. *)
StartFails ==
  /\ proc # "up"
  /\ \/ DecodeFails(file) /\ UNCHANGED faults
     \/ Fault("disk")
  /\ proc' = "badFile"
  /\ UNCHANGED <<now, ctxDone, pc, deadline, tokenData, call, file, service, stray>>

(* handleSystemSignals: the first signal cancels the context. *)
Interrupt ==
  /\ proc = "up" /\ ~ ctxDone
  /\ ctxDone' = TRUE
  /\ UNCHANGED <<now, proc, pc, deadline, tokenData, call, file, service, stray, faults>>

(* A request that was sent may still reach the service when its sender has *)
(* given up on it.                                                         *)
LeaveBehind ==
  \/ call.state = "sent" /\ stray' = stray \cup {call.session}
  \/ UNCHANGED stray

Gone ==
  /\ ctxDone' = FALSE /\ pc' = "returned" /\ deadline' = 0
  /\ tokenData' = Blank /\ call' = NoCall

(* The process is killed.  What is in memory is gone, the file stays.  A   *)
(* kill in the middle of the write is SaveFails and then Crash.            *)
Crash ==
  /\ proc = "up"
  /\ IF pc \in {"await", "save"} THEN Fault("midCrash") ELSE UNCHANGED faults
  /\ LeaveBehind
  /\ proc' = "down" /\ Gone
  /\ UNCHANGED <<now, file, service>>

-----------------------------------------------------------------------------
(* The refresh goroutine. *)

(* A bug: break for return, which leaves the select and not the loop. *)
Break_LoopReturns ==
  /\ proc = "up" /\ pc = "check" /\ ctxDone
  /\ UNCHANGED vars

(* The head of the loop.  A cancelled context is seen before anything else. *)
LoopReturns ==
  /\ proc = "up" /\ pc = "check" /\ ctxDone
  /\ pc' = "returned"
  /\ UNCHANGED <<now, proc, ctxDone, deadline, tokenData, call, file, service, stray, faults>>

(* waitDuration < 0.  Expiries are times of the service, compared with a   *)
(* clock that has been set by someone else.                                *)
Overdue(skew) == tokenData.authExp < now + skew + Margin

Deadline(skew) == IF Overdue(skew) THEN now ELSE tokenData.authExp - Margin - skew

(* A bug: the expiry of the refresh token is not looked at. *)
NoExpiry_ArmTimer ==
  /\ proc = "up" /\ pc = "check" /\ ~ ctxDone
  /\ \E skew \in Skews : deadline' = Deadline(skew)
  /\ pc' = "timer"
  /\ UNCHANGED <<now, proc, ctxDone, tokenData, call, file, service, stray, faults>>

(* A bug: the first refresh comes with the start. *)
Eager_ArmTimer ==
  /\ proc = "up" /\ pc = "check" /\ ~ ctxDone
  /\ deadline' = now
  /\ pc' = "timer"
  /\ UNCHANGED <<now, proc, ctxDone, tokenData, call, file, service, stray, faults>>

(* time.NewTimer(waitDuration), a negative duration counting as zero. *)
ArmTimer ==
  /\ proc = "up" /\ pc = "check" /\ ~ ctxDone
  /\ \E skew \in Skews :
       /\ Overdue(skew) => now + skew <= tokenData.refreshExp
       /\ deadline' = Deadline(skew)
  /\ pc' = "timer"
  /\ UNCHANGED <<now, proc, ctxDone, tokenData, call, file, service, stray, faults>>

(* log.Fatalf: the whole process exits. *)
RefreshTokenExpired ==
  /\ proc = "up" /\ pc = "check" /\ ~ ctxDone
  /\ \E skew \in Skews : Overdue(skew) /\ tokenData.refreshExp < now + skew
  /\ proc' = "fatal" /\ Gone
  /\ UNCHANGED <<now, file, service, stray, faults>>

(* The inner select.  When the context is cancelled and the timer has      *)
(* fired, either case may be taken.                                        *)
TimerCancelled ==
  /\ proc = "up" /\ pc = "timer" /\ ctxDone
  /\ pc' = "returned"
  /\ UNCHANGED <<now, proc, ctxDone, deadline, tokenData, call, file, service, stray, faults>>

(* RefreshToken, up to the call: toAuthData takes the session in memory. *)
TimerFires ==
  /\ proc = "up" /\ pc = "timer" /\ deadline <= now
  /\ call' = [state |-> "sent", session |-> tokenData]
  /\ pc' = "await" /\ deadline' = 0
  /\ UNCHANGED <<now, proc, ctxDone, tokenData, file, service, stray, faults>>

(* A bug: the answer never reaches the memory. *)
Forget_RefreshGranted ==
  /\ proc = "up" /\ pc = "await" /\ call.state = "granted"
  /\ call' = NoCall /\ pc' = "save"
  /\ UNCHANGED <<now, proc, ctxDone, deadline, tokenData, file, service, stray, faults>>

(* A bug: the file is written before the session in memory is replaced. *)
SaveFirst_RefreshGranted ==
  /\ proc = "up" /\ pc = "await" /\ call.state = "granted"
  /\ \/ /\ ~ Holds(file, call.session)
        /\ file' = Overwrite(file, call.session, call.session.size)
        /\ UNCHANGED <<tokenData, call, pc>>
     \/ /\ Holds(file, call.session)
        /\ tokenData' = call.session
        /\ call' = NoCall /\ pc' = "check"
        /\ UNCHANGED file
  /\ UNCHANGED <<now, proc, ctxDone, deadline, service, stray, faults>>

(* A bug: RefreshToken returns without a save. *)
NoSave_RefreshGranted ==
  /\ proc = "up" /\ pc = "await" /\ call.state = "granted"
  /\ tokenData' = call.session
  /\ call' = NoCall /\ pc' = "check"
  /\ UNCHANGED <<now, proc, ctxDone, deadline, file, service, stray, faults>>

(* The rest of RefreshToken up to saveTokenData: status 200, the session   *)
(* in memory is replaced.                                                  *)
RefreshGranted ==
  /\ proc = "up" /\ pc = "await" /\ call.state = "granted"
  /\ tokenData' = call.session
  /\ call' = NoCall /\ pc' = "save"
  /\ UNCHANGED <<now, proc, ctxDone, deadline, file, service, stray, faults>>

(* A bug: a denied call is still taken for the one in progress. *)
Keep_RefreshDenied ==
  /\ proc = "up" /\ pc = "await" /\ call.state = "denied"
  /\ pc' = "check"
  /\ UNCHANGED <<now, proc, ctxDone, deadline, tokenData, call, file, service, stray, faults>>

(* Any other status: the error is logged and the loop continues. *)
RefreshDenied ==
  /\ proc = "up" /\ pc = "await" /\ call.state = "denied"
  /\ call' = NoCall /\ pc' = "check"
  /\ UNCHANGED <<now, proc, ctxDone, deadline, tokenData, file, service, stray, faults>>

(* The call returns an error, or a 200 whose body is not JSON or has a     *)
(* field of the wrong type: whatever the service did, nothing of it        *)
(* reaches the memory.                                                     *)
RefreshCallFails ==
  /\ proc = "up" /\ pc = "await" /\ call.state \in {"sent", "granted"}
  /\ Fault("net")
  /\ LeaveBehind
  /\ call' = NoCall /\ pc' = "check"
  /\ UNCHANGED <<now, proc, ctxDone, deadline, tokenData, file, service>>

(* A 200 with a JSON object that is no session, which may come before the  *)
(* request reaches the service or instead of its answer.  json.Unmarshal   *)
(* asks for no field: what is missing is empty, and is kept and saved like *)
(* any other session.                                                      *)
RefreshStray ==
  /\ proc = "up" /\ pc = "await" /\ call.state \in {"sent", "granted", "denied"}
  /\ Fault("stray")
  /\ LeaveBehind
  /\ \E n \in Sizes : tokenData' = [Blank EXCEPT !.size = n]
  /\ call' = NoCall /\ pc' = "save"
  /\ UNCHANGED <<now, proc, ctxDone, deadline, file, service>>

saveTokenData ==
  /\ proc = "up" /\ pc = "save"
  /\ file' = Overwrite(file, tokenData, tokenData.size)
  /\ pc' = "check"
  /\ UNCHANGED <<now, proc, ctxDone, deadline, tokenData, call, service, stray, faults>>

(* A bug: after a failed save the file is read again. *)
Rollback_SaveFails ==
  /\ proc = "up" /\ pc = "save"
  /\ Fault("disk")
  /\ \E s \in Loadable(file) : tokenData' = s
  /\ pc' = "check"
  /\ UNCHANGED <<now, proc, ctxDone, deadline, call, file, service, stray>>

(* The file cannot be opened, or the write stops after n cells.  The error *)
(* is logged and the loop continues with the new session in memory.        *)
SaveFails ==
  /\ proc = "up" /\ pc = "save"
  /\ Fault("disk")
  /\ \E n \in 0..(tokenData.size - 1) : file' = Overwrite(file, tokenData, n)
  /\ pc' = "check"
  /\ UNCHANGED <<now, proc, ctxDone, deadline, tokenData, call, service, stray>>

Refresher ==
  \/ LoopReturns \/ ArmTimer \/ RefreshTokenExpired \/ TimerCancelled \/ TimerFires
  \/ RefreshGranted \/ RefreshDenied \/ saveTokenData

-----------------------------------------------------------------------------
(* The service answers the call in progress ... *)
AnswerCall ==
  /\ call.state = "sent"
  /\ \/ /\ Accepts(call.session)
        /\ \E n \in Sizes :
             /\ service' = Rotated(n)
             /\ call' = [state |-> "granted", session |-> Rotated(n).current]
     \/ /\ ~ Accepts(call.session)
        /\ call' = [call EXCEPT !.state = "denied"]
        /\ UNCHANGED service
  /\ UNCHANGED <<now, proc, ctxDone, pc, deadline, tokenData, file, stray, faults>>

(* ... or a request nobody waits for; the answer goes nowhere. *)
AnswerStray ==
  /\ \E s \in stray :
       /\ stray' = stray \ {s}
       /\ \/ Accepts(s) /\ \E n \in Sizes : service' = Rotated(n)
          \/ ~ Accepts(s) /\ UNCHANGED service
  /\ UNCHANGED <<now, proc, ctxDone, pc, deadline, tokenData, call, file, faults>>

Tick ==
  /\ now < MaxTime
  /\ now' = now + 1
  /\ UNCHANGED <<proc, ctxDone, pc, deadline, tokenData, call, file, service, stray, faults>>

Next ==
  \/ Start \/ StartFails \/ Interrupt \/ Crash
  \/ Refresher \/ RefreshCallFails \/ RefreshStray \/ SaveFails
  \/ AnswerCall \/ AnswerStray \/ Tick

Spec == Init /\ [][Next]_vars

(* The scheduler runs the goroutine and the clock advances.  No fairness   *)
(* for signals, crashes, faults, restarts and requests left behind, nor    *)
(* for the service: the call has no deadline and may stay unanswered.      *)
FairSpec ==
  /\ Spec
  /\ WF_vars(Tick)
  /\ WF_vars(LoopReturns) /\ WF_vars(ArmTimer) /\ WF_vars(RefreshTokenExpired)
  /\ WF_vars(TimerCancelled) /\ WF_vars(TimerFires)
  /\ WF_vars(RefreshGranted) /\ WF_vars(RefreshDenied) /\ WF_vars(saveTokenData)

-----------------------------------------------------------------------------
(* Properties. *)

(* As long as no access to the token file has failed, the file yields      *)
(* exactly the session in memory whenever no save is pending: although     *)
(* saveTokenData does not truncate, although answers get lost, and across  *)
(* any number of crashes and restarts.                                     *)
DiskMirrorsMemory ==
  faults["disk"] = 0 =>
    /\ proc # "badFile"
    /\ proc = "up" /\ pc # "save" => Holds(file, tokenData)

(* The process never runs ahead of the service, nor the file ahead of the  *)
(* process, and a granted answer is always newer than what it replaces:    *)
(* RefreshToken assigns the answer first and saves afterwards, and never   *)
(* overwrites a session with an older one of the service.                  *)
EpochOrder ==
  /\ \A i \in 1..Len(file) : file[i].epoch <= service.current.epoch
  /\ proc = "up" => tokenData.epoch <= service.current.epoch
  /\ proc = "up" /\ faults["disk"] = 0 /\ faults["stray"] = 0 =>
       \A i \in 1..Len(file) : file[i].epoch <= tokenData.epoch
  /\ call.state = "granted" =>
       /\ tokenData.epoch < call.session.epoch
       /\ call.session.epoch <= service.current.epoch

(* A session is lost in three ways only: an answer is lost, a save fails,  *)
(* or the process dies in the middle of a refresh.  Without these, and     *)
(* however often the process is interrupted, killed and restarted          *)
(* elsewhere, it holds the service's current session, or is about to       *)
(* receive it.                                                             *)
SessionCurrent ==
  proc = "up" /\ (\A k \in FaultKind : faults[k] = 0) =>
    \/ tokenData = service.current
    \/ call = [state |-> "granted", session |-> service.current]

(* Within one life of the process the session in memory only ever gets     *)
(* newer, whatever fails; only a stray answer can destroy it.              *)
MemoryOnlyAdvances ==
  [][proc = "up" /\ proc' = "up" /\ tokenData' # tokenData
       => tokenData'.epoch > tokenData.epoch \/ faults'["stray"] > faults["stray"]]_vars

(* Where the service's current session is. *)
Custody ==
  IF Holds(file, service.current) THEN "saved"
  ELSE IF \/ proc = "up" /\ tokenData = service.current
          \/ call = [state |-> "granted", session |-> service.current]
       THEN "unsaved"
       ELSE "lost"

Hurt == {k \in FaultKind : faults[k] > 0}

Store == INSTANCE SessionStore
           WITH issued <- service.current.epoch, custody <- Custody, hurt <- Hurt

(* The refresher keeps the session as SessionStore says: across crashes,   *)
(* restarts, lost answers and failed saves a session is lost only to a     *)
(* fault, and one the file yields only to a stray answer.                  *)
KeepsSession == Store!Spec

(* No call stays without an answer for ever.  The call has neither a       *)
(* deadline nor the context, so this is up to the service and the network, *)
(* and nothing below holds without it.                                     *)
Answered == []<>(call.state # "sent")

(* The clock of the model may stop before the session has expired. *)
BeyondMaxTime ==
  \E skew \in Skews : tokenData.authExp >= MaxTime + skew \/ tokenData.refreshExp >= MaxTime + skew

(* The refresher never gets stuck on an expired session, neither waiting   *)
(* nor retrying: it is refreshed, or the process exits (log.Fatalf once    *)
(* the refresh token has expired too), or the context is cancelled.        *)
RefreshedOrExits ==
  Answered => ((proc = "up" /\ tokenData.authExp < now)
                 ~> (tokenData.authExp >= now \/ proc # "up" \/ ctxDone \/ BeyondMaxTime))

(* A session whose save fails does not leave the file behind for good: the *)
(* next refresh saves its successor, or the process ends.  The session     *)
(* must expire while the clock of the model goes on, its successor need    *)
(* not: one that is granted late must still be saved.                      *)
SavedInTheEnd ==
  Answered => ((proc = "up" /\ ~ Holds(file, tokenData) /\ ~ BeyondMaxTime)
                 ~> (Holds(file, tokenData) \/ proc # "up" \/ ctxDone))

(* After the context is cancelled the goroutine returns, also from a call  *)
(* that was in progress (RefreshToken does not use the context).           *)
CancelStopsRefresher == Answered => (ctxDone ~> pc = "returned")
=============================================================================
