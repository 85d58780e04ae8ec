------------------------- MODULE RefreshInUseProofs --------------------------
(***************************************************************************)
(* Proofs about what is made of TokenRefresh.                              *)
(*                                                                         *)
(* SigningTimely: the margin of one second is enough, for every lifetime,  *)
(* round trip, error of the clock and number of failed saves that          *)
(* TokenRefreshTimely allows; and no request is refused on account of a    *)
(* refresh, for all the lifetimes, round trips, delays and grace periods   *)
(* that SigningTimely allows.                                              *)
(*                                                                         *)
(* SharedTokenFile: two sidecars on one token file, for all lifetimes,     *)
(* clocks and lengths of the documents.  Each of the two is a process of   *)
(* TokenRefresh, so what TokenRefreshProofs says of the steps of one holds *)
(* of both.                                                                *)
(***************************************************************************)
EXTENDS SigningTimely, SharedTokenFile, TokenRefreshProofs

-----------------------------------------------------------------------------
(* The token in memory is fresh: TokenRefreshTimely. *)

(* Until it is started the file is the one that was issued; after that the *)
(* process has the service's session, or its successor is on the way.      *)
HoldsCurrent ==
  /\ proc = "down" => Holds(file, service.current)
  /\ proc = "up" => IF call.state = "granted" THEN call.session = service.current
                                              ELSE tokenData = service.current

(* A refresh sent at t is as late as a clock of the machine can make it,   *)
(* or earlier.                                                             *)
Early(t) == \E skew \in Skews : t + Second + skew <= tokenData.authExp

(* Nor is it earlier than one can make it. *)
NotTooEarly(t) == \E skew \in Skews : tokenData.authExp <= t + Second + skew

(* Wherever the goroutine is, it is there in time. *)
InTime ==
  /\ pc # "returned"
  /\ pc \in {"check", "save"} => now + Second <= tokenData.authExp
  /\ pc = "timer" => now <= deadline /\ Early(deadline) /\ NotTooEarly(deadline)
  /\ pc = "await" =>
       /\ sentAt <= now /\ now <= sentAt + MaxRtt
       /\ Early(sentAt)
       /\ call.state \in {"sent", "granted"}
       /\ call.state = "sent" => call.session = tokenData
       /\ call.state = "granted" => sentAt + AuthLife <= call.session.authExp

TimelyInv ==
  /\ sentAt \in Nat
  /\ proc \in {"down", "up"}
  /\ service.current.authExp + RefreshLife = service.current.refreshExp + AuthLife
  /\ HoldsCurrent
  /\ proc = "up" => InTime

LEMMA TimelyIsRefresh == TimelySpec => Spec
<1>1. TimelyInit => Init
  BY DEF TimelyInit
<1>2. [TimelyNext]_timelyVars => [Next]_vars
  <2> SUFFICES ASSUME [TimelyNext]_timelyVars PROVE [Next]_vars
    OBVIOUS
  <2>1. CASE TimelyStart
    BY <2>1 DEF TimelyStart, Next
  <2>2. CASE TimelySend
    BY <2>2 DEF TimelySend, Next, Refresher
  <2>3. CASE TimelyStep
    BY <2>3 DEF TimelyStep, Next, Refresher
  <2>4. CASE TimelyTick
    BY <2>4 DEF TimelyTick, Next
  <2>5. CASE UNCHANGED timelyVars
    BY <2>5 DEF timelyVars
  <2> QED
    BY <2>1, <2>2, <2>3, <2>4, <2>5 DEF TimelyNext
<1> QED
  BY <1>1, <1>2, PTL DEF TimelySpec, Spec

LEMMA TimelyInvInit == TimelyInit => TimelyInv
<1> SUFFICES ASSUME TimelyInit PROVE TimelyInv
  OBVIOUS
<1>1. Init
  BY DEF TimelyInit
<1>2. Holds(file, service.current)
  BY <1>1, InitialSession, InitialFile DEF Init
<1>3. service.current.authExp + RefreshLife = service.current.refreshExp + AuthLife
  BY <1>1, ConstantsAssumption, TimelyAssumption DEF Init, Issue
<1> QED
  BY <1>1, <1>2, <1>3 DEF Init, TimelyInit, TimelyInv, HoldsCurrent

(* The answer to a refresh that is sent early comes before the expiry. *)
LEMMA EarlyIsInTime ==
  ASSUME TypeOK, NEW t \in Nat, Early(t)
  PROVE  t + MaxRtt <= tokenData.authExp
<1>1. PICK skew \in Skews : t + Second + skew <= tokenData.authExp
  BY DEF Early
<1>2. /\ MaxRtt <= Second + skew /\ skew \in Int
      /\ MaxRtt \in Nat /\ Second \in Nat /\ tokenData.authExp \in Nat
  BY ConstantsAssumption, TimelyAssumption DEF TypeOK, Session
<1> QED
  BY <1>1, <1>2

(* The timer of a session that has the margin left is set for a time that  *)
(* is neither too late nor too early, whatever the clock.                  *)
LEMMA TimerIsInTime ==
  ASSUME TypeOK, now + Second <= tokenData.authExp, NEW skew \in Skews
  PROVE  now <= Deadline(skew) /\ Early(Deadline(skew)) /\ NotTooEarly(Deadline(skew))
<1> DEFINE d == Deadline(skew)
<1>1. /\ now \in Nat /\ tokenData.authExp \in Nat /\ Second \in Nat
      /\ skew \in Int /\ 0 \in Skews
  BY ConstantsAssumption DEF TypeOK, Session
<1>2. CASE Overdue(skew)
  <2>1. d = now /\ tokenData.authExp <= d + Second + skew /\ d + Second + 0 <= tokenData.authExp
    BY <1>1, <1>2 DEF Deadline, Overdue, Margin
  <2> HIDE DEF d
  <2>2. Early(d) /\ NotTooEarly(d) /\ now <= d
    BY <1>1, <2>1 DEF Early, NotTooEarly
  <2> QED
    BY <2>2 DEF d
<1>3. CASE ~ Overdue(skew)
  <2>1. d + Second + skew = tokenData.authExp /\ now <= d /\ d \in Nat
    BY <1>1, <1>3 DEF Deadline, Overdue, Margin
  <2> HIDE DEF d
  <2>2. Early(d) /\ NotTooEarly(d)
    BY <1>1, <2>1 DEF Early, NotTooEarly
  <2> QED
    BY <2>1, <2>2 DEF d
<1> QED
  BY <1>2, <1>3

(* A session that has the margin left is not taken for one that has        *)
(* expired.                                                                *)
LEMMA GoesOn ==
  ASSUME TypeOK, TimelyInv, proc = "up", pc = "check"
  PROVE  ~ RefreshTokenExpired
<1> SUFFICES ASSUME NEW skew \in Skews, tokenData.refreshExp < now + skew
             PROVE  FALSE
  BY DEF RefreshTokenExpired
<1>1. tokenData = service.current
  BY DEF TypeOK, TimelyInv, HoldsCurrent
<1>2. /\ now + Second <= tokenData.authExp
      /\ tokenData.authExp + RefreshLife = tokenData.refreshExp + AuthLife
  BY <1>1 DEF TimelyInv, InTime
<1>3. /\ now \in Nat /\ tokenData.authExp \in Nat /\ tokenData.refreshExp \in Nat
      /\ Second \in Nat /\ AuthLife \in Nat /\ RefreshLife \in Nat /\ skew \in Int
      /\ AuthLife + skew <= RefreshLife + Second
  BY ConstantsAssumption, TimelyAssumption DEF TypeOK, Session
<1> QED
  BY <1>2, <1>3

(* A refresh sent in time is accepted. *)
LEMMA SentIsAccepted ==
  ASSUME TypeOK, TimelyInv, proc = "up", pc = "await", call.state = "sent"
  PROVE  Accepts(call.session)
<1>1. call.session = service.current /\ call.session \in Session
  BY DEF TypeOK, TimelyInv, HoldsCurrent, InTime
<1>2. now <= call.session.authExp
  <2>1. now <= sentAt + MaxRtt /\ Early(sentAt) /\ call.session = tokenData /\ sentAt \in Nat
    BY DEF TimelyInv, InTime
  <2>2. sentAt + MaxRtt <= tokenData.authExp
    BY <2>1, EarlyIsInTime
  <2> QED
    BY <2>1, <2>2, TimelyAssumption DEF TypeOK, Session
<1>3. now <= call.session.refreshExp
  BY <1>1, <1>2, ConstantsAssumption, TimelyAssumption DEF TypeOK, TimelyInv, Session
<1> QED
  BY <1>1, <1>3 DEF Accepts

LEMMA TimelyInvStep == TypeOK /\ TypeOK' /\ TimelyInv /\ [TimelyNext]_timelyVars => TimelyInv'
<1> SUFFICES ASSUME TypeOK, TypeOK', TimelyInv, [TimelyNext]_timelyVars PROVE TimelyInv'
  OBVIOUS
<1> USE DEF TimelyInv, HoldsCurrent, InTime
<1>const. Second \in Nat /\ MaxRtt \in Nat /\ AuthLife \in Nat /\ MaxRtt + Second <= AuthLife
  BY ConstantsAssumption, TimelyAssumption
<1>type. /\ now \in Nat /\ deadline \in Nat /\ sentAt \in Nat
         /\ tokenData.authExp \in Nat /\ service.current.authExp \in Nat
         /\ call.session.authExp \in Nat
         /\ pc = "await" <=> call.state # "none"
  BY DEF TypeOK, Session
<1>1. CASE TimelyStart
  <2>1. tokenData' = service.current
    BY <1>1 DEF TimelyStart, Start, Holds
  <2>2. now + Second <= tokenData'.authExp
    BY <1>1 DEF TimelyStart, Margin
  <2> QED
    BY <1>1, <2>1, <2>2 DEF TimelyStart, Start, NoCall
<1>2. CASE TimelySend
  BY <1>2, <1>const, <1>type DEF TimelySend, TimerFires, Early
<1>3. CASE TimelyStep
  <2> sentAt' = sentAt
    BY <1>3 DEF TimelyStep
  <2>1. CASE ArmTimer
    <3>1. now + Second <= tokenData.authExp
      BY <2>1 DEF ArmTimer
    <3>2. now <= deadline' /\ Early(deadline') /\ NotTooEarly(deadline')
      BY <2>1, <3>1, TimerIsInTime DEF ArmTimer
    <3> QED
      BY <2>1, <3>2 DEF ArmTimer, Early, NotTooEarly
  <2>2. CASE RefreshTokenExpired
    BY <2>2, GoesOn DEF RefreshTokenExpired
  <2>3. CASE RefreshGranted
    <3>1. now + Second <= call.session.authExp
      BY <2>3, <1>const, <1>type DEF RefreshGranted
    <3> QED
      BY <2>3, <3>1 DEF RefreshGranted, NoCall
  <2>4. CASE RefreshDenied
    BY <2>4 DEF RefreshDenied
  <2>5. CASE saveTokenData
    BY <2>5 DEF saveTokenData
  <2>6. CASE SaveFails
    BY <2>6 DEF SaveFails
  <2>7. CASE AnswerCall
    <3>1. proc = "up" /\ pc = "await" /\ call.state = "sent"
      BY <2>7 DEF AnswerCall, TypeOK
    <3>2. PICK n \in Sizes : service' = Rotated(n)
                           /\ call' = [state |-> "granted", session |-> Rotated(n).current]
      BY <2>7, <3>1, SentIsAccepted DEF AnswerCall
    <3>3. service'.current.authExp + RefreshLife = service'.current.refreshExp + AuthLife
      BY <3>2, <1>type, ConstantsAssumption, TimelyAssumption DEF Rotated, Issue
    <3>4. sentAt + AuthLife <= call'.session.authExp
      BY <3>1, <3>2, <1>type, <1>const DEF Rotated, Issue
    <3>5. call'.session = service'.current /\ call'.state = "granted"
      BY <3>2
    <3> QED
      BY <2>7, <3>1, <3>3, <3>4, <3>5 DEF AnswerCall, Early
  <2> QED
    BY <1>3, <2>1, <2>2, <2>3, <2>4, <2>5, <2>6, <2>7 DEF TimelyStep
<1>4. CASE TimelyTick
  <2>1. now' = now + 1
    BY <1>4 DEF TimelyTick, Tick
  <2>2. proc = "up" => \/ pc = "timer" /\ now < deadline
                       \/ pc = "await" /\ now < sentAt + MaxRtt
    BY <1>4 DEF TimelyTick
  <2>3. UNCHANGED <<sentAt, proc, pc, deadline, tokenData, call, file, service>>
    BY <1>4 DEF TimelyTick, Tick
  <2> QED
    BY <2>1, <2>2, <2>3, <1>const, <1>type DEF Early, NotTooEarly
<1>5. CASE UNCHANGED timelyVars
  BY <1>5 DEF timelyVars, vars, Early, NotTooEarly
<1> QED
  BY <1>1, <1>2, <1>3, <1>4, <1>5 DEF TimelyNext

LEMMA TimelyInvariant == TimelySpec => [](TypeOK /\ TimelyInv)
<1>1. TimelySpec => []TypeOK
  BY TimelyIsRefresh, TypeCorrect, PTL
<1> QED
  BY <1>1, TimelyInvInit, TimelyInvStep, PTL DEF TimelySpec

LEMMA InTimeIsFresh == TypeOK /\ TimelyInv => FreshToken
<1> SUFFICES ASSUME TypeOK, TimelyInv PROVE FreshToken
  OBVIOUS
<1>1. CASE proc = "up"
  <2> /\ now \in Nat /\ tokenData.authExp \in Nat /\ deadline \in Nat /\ sentAt \in Nat
      /\ MaxRtt \in Nat /\ Second \in Nat
    BY ConstantsAssumption, TimelyAssumption DEF TypeOK, TimelyInv, Session
  <2>1. ASSUME NEW t \in Nat, Early(t), now <= t + MaxRtt
        PROVE  now <= tokenData.authExp
    <3>1. t + MaxRtt <= tokenData.authExp
      BY <2>1, EarlyIsInTime
    <3> QED
      BY <2>1, <3>1
  <2>2. now <= tokenData.authExp
    <3>1. CASE pc \in {"check", "save"}
      <4>1. now + Second <= tokenData.authExp
        BY <1>1, <3>1 DEF TimelyInv, InTime
      <4> QED
        BY <4>1
    <3>2. CASE pc = "timer"
      <4>1. Early(deadline) /\ now <= deadline
        BY <1>1, <3>2 DEF TimelyInv, InTime
      <4>2. now <= deadline + MaxRtt
        BY <4>1
      <4> QED
        BY <2>1, <4>1, <4>2
    <3>3. CASE pc = "await"
      BY <1>1, <2>1, <3>3 DEF TimelyInv, InTime
    <3> QED
      BY <1>1, <3>1, <3>2, <3>3 DEF TypeOK, TimelyInv, InTime
  <2> QED
    BY <1>1, <2>2 DEF TimelyInv, FreshToken
<1>2. CASE proc # "up"
  BY <1>2 DEF TimelyInv, FreshToken
<1> QED
  BY <1>1, <1>2

(* With answers within the margin, the token the handlers attach to their  *)
(* requests has never expired, and the refresher never gives up, whatever  *)
(* the clock of the machine says within Skews.                             *)
THEOREM TokenStaysFresh == TimelySpec => []FreshToken
BY TimelyInvariant, InTimeIsFresh, PTL

-----------------------------------------------------------------------------
(* No request is refused: SigningTimely. *)

(* A granted answer comes from the rotation of the session in memory,      *)
(* which was no earlier than the call.                                     *)
GrantedIsNext ==
  proc = "up" /\ call.state = "granted" =>
    /\ tokenData.epoch + 1 = service.current.epoch
    /\ sentAt + Grace <= service.graceEnd

(* The request has the predecessor of the service's session.  It arrives   *)
(* before the grace period and the predecessor's own validity are over,    *)
(* and before the next refresh.                                            *)
HasPrevious ==
  /\ request.session.epoch + 1 = service.current.epoch
  /\ request.takenAt + MaxDelay < service.graceEnd
  /\ request.takenAt + MaxDelay <= request.session.authExp
  /\ \A skew \in Skews : request.takenAt + MaxDelay + Second + skew < service.current.authExp
  /\ ~ (pc = "await" /\ call.state = "sent")

RequestInv ==
  /\ request \in [state : {"none", "sent", "refused"}, session : Session, takenAt : Nat]
  /\ request.state # "refused"
  /\ request.state = "sent" =>
       /\ proc = "up"
       /\ request.takenAt <= now /\ now <= request.takenAt + MaxDelay
       /\ request.session = service.current \/ HasPrevious

SigningInv == GrantedIsNext /\ RequestInv

LEMMA SigningIsTimely == SigningSpec => TimelySpec
<1>1. SigningInit => TimelyInit
  BY DEF SigningInit
<1>2. [SigningNext]_signingVars => [TimelyNext]_timelyVars
  BY DEF SigningNext, TakeToken, Check, RefresherStep, SigningTick, TimelyNext, signingVars
<1> QED
  BY <1>1, <1>2, PTL DEF SigningSpec, TimelySpec

LEMMA SigningInvInit == SigningInit => SigningInv
BY BlankType
   DEF SigningInit, TimelyInit, Init, NoRequest, NoCall, SigningInv, GrantedIsNext, RequestInv

(* The service's session is good for as long as it is in memory, or on its *)
(* way there.                                                              *)
LEMMA CurrentIsFresh ==
  ASSUME TypeOK, TimelyInv, proc = "up"
  PROVE  now <= service.current.authExp
<1>1. CASE call.state = "granted"
  <2>1. pc = "await" /\ call.session = service.current
    BY <1>1 DEF TypeOK, TimelyInv, HoldsCurrent
  <2>2. now <= sentAt + MaxRtt /\ sentAt + AuthLife <= service.current.authExp
    BY <1>1, <2>1 DEF TimelyInv, InTime
  <2>3. MaxRtt <= AuthLife
    BY ConstantsAssumption, TimelyAssumption
  <2>4. now \in Nat /\ sentAt \in Nat /\ service.current.authExp \in Nat
    BY DEF TypeOK, TimelyInv, Session
  <2> QED
    BY <2>2, <2>3, <2>4, ConstantsAssumption, TimelyAssumption
<1>2. CASE call.state # "granted"
  BY <1>2, InTimeIsFresh DEF TimelyInv, HoldsCurrent, FreshToken
<1> QED
  BY <1>1, <1>2

(* A token taken before the answer to a refresh arrives is good for as     *)
(* long as a request takes.                                                *)
LEMMA EarlyCoversRequest ==
  ASSUME TypeOK, NEW t \in Nat, Early(t)
  PROVE  t + MaxRtt + MaxDelay <= tokenData.authExp
<1>1. PICK skew \in Skews : t + Second + skew <= tokenData.authExp
  BY DEF Early
<1>2. /\ MaxRtt + MaxDelay <= Second + skew /\ skew \in Int /\ MaxDelay \in Nat
      /\ MaxRtt \in Nat /\ Second \in Nat /\ tokenData.authExp \in Nat
  BY ConstantsAssumption, TimelyAssumption, SigningAssumption DEF TypeOK, Session
<1> QED
  BY <1>1, <1>2

(* No refresh is due while the session before the service's is used.       *)
LEMMA FarFromDue ==
  ASSUME NEW t \in Nat, NEW a \in Nat, NEW b \in Nat,
         t <= a + MaxRtt, a + AuthLife <= b
  PROVE  \A skew \in Skews : t + MaxDelay + Second + skew < b
<1> TAKE skew \in Skews
<1>1. /\ MaxRtt + MaxDelay + Second + skew < AuthLife /\ skew \in Int /\ MaxDelay \in Nat
      /\ MaxRtt \in Nat /\ Second \in Nat /\ AuthLife \in Nat
  BY ConstantsAssumption, TimelyAssumption, SigningAssumption
<1> QED
  BY <1>1

(* What a handler takes from the memory is the service's session or, while *)
(* the answer to a refresh is on its way, its predecessor.                 *)
LEMMA TakeTokenStep ==
  ASSUME TypeOK, TypeOK', TimelyInv, SigningInv, TakeToken
  PROVE  SigningInv'
<1>1. /\ proc = "up" /\ UNCHANGED timelyVars
      /\ request' = [state |-> "sent", session |-> tokenData, takenAt |-> now]
  BY DEF TakeToken
<1>2. UNCHANGED <<now, proc, pc, call, service, tokenData, sentAt>>
  BY <1>1 DEF timelyVars, vars
<1>type. /\ now \in Nat /\ sentAt \in Nat /\ tokenData \in Session /\ tokenData.authExp \in Nat
         /\ service.current.authExp \in Nat /\ service.graceEnd \in Nat
         /\ Second \in Nat /\ MaxRtt \in Nat /\ MaxDelay \in Nat /\ Grace \in Nat /\ AuthLife \in Nat
  BY ConstantsAssumption, TimelyAssumption, SigningAssumption DEF TypeOK, TimelyInv, Session
<1>3. GrantedIsNext'
  BY <1>2 DEF SigningInv, GrantedIsNext
<1>4. CASE call.state # "granted"
  <2>1. tokenData = service.current
    BY <1>1, <1>4 DEF TimelyInv, HoldsCurrent
  <2> QED
    BY <1>1, <1>2, <1>3, <1>type, <2>1 DEF SigningInv, RequestInv
<1>5. CASE call.state = "granted"
  <2>1. pc = "await"
    BY <1>5 DEF TypeOK
  <2>2. /\ now <= sentAt + MaxRtt
        /\ Early(sentAt)
        /\ sentAt + AuthLife <= service.current.authExp
    BY <1>1, <1>5, <2>1 DEF TimelyInv, InTime, HoldsCurrent
  <2>3. tokenData.epoch + 1 = service.current.epoch /\ sentAt + Grace <= service.graceEnd
    BY <1>1, <1>5 DEF SigningInv, GrantedIsNext
  <2>4. now + MaxDelay < service.graceEnd
    BY <2>2, <2>3, <1>type, SigningAssumption
  <2>5. now + MaxDelay <= tokenData.authExp
    <3>1. sentAt + MaxRtt + MaxDelay <= tokenData.authExp
      BY <2>2, <1>type, EarlyCoversRequest
    <3> QED
      BY <2>2, <3>1, <1>type
  <2>6. \A skew \in Skews : now + MaxDelay + Second + skew < service.current.authExp
    BY <2>2, <1>type, FarFromDue
  <2>7. HasPrevious'
    BY <1>1, <1>2, <1>5, <2>3, <2>4, <2>5, <2>6 DEF HasPrevious
  <2> QED
    BY <1>1, <1>2, <1>3, <1>type, <2>7 DEF SigningInv, RequestInv
<1> QED
  BY <1>4, <1>5

(* CubeSigner accepts both. *)
LEMMA CheckStep ==
  ASSUME TypeOK, TimelyInv, SigningInv, Check
  PROVE  SigningInv'
<1>1. request.state = "sent" /\ UNCHANGED timelyVars
  BY DEF Check
<1>2. UNCHANGED <<now, proc, pc, call, service, tokenData, sentAt>>
  BY <1>1 DEF timelyVars, vars
<1>3. AcceptsToken(request.session)
  <2>1. CASE request.session = service.current
    <3>1. now <= service.current.authExp
      BY <1>1, CurrentIsFresh DEF SigningInv, RequestInv
    <3> QED
      BY <2>1, <3>1 DEF AcceptsToken
  <2>2. CASE HasPrevious
    <3>1. now <= request.takenAt + MaxDelay
      BY <1>1 DEF SigningInv, RequestInv
    <3>2. request.takenAt \in Nat /\ request.session.authExp \in Nat
      BY DEF SigningInv, RequestInv, Session
    <3>3. now <= request.session.authExp /\ now < service.graceEnd
      BY <2>2, <3>1, <3>2, SigningAssumption DEF HasPrevious, TypeOK
    <3> QED
      BY <2>2, <3>3 DEF AcceptsToken, HasPrevious
  <2> QED
    BY <1>1, <2>1, <2>2 DEF SigningInv, RequestInv
<1>4. request' = NoRequest
  BY <1>3 DEF Check
<1> QED
  BY <1>2, <1>4, BlankType DEF SigningInv, GrantedIsNext, RequestInv, NoRequest

(* A rotation makes the session of a request under way the previous one,   *)
(* and no second rotation comes before the request arrives.                *)
LEMMA AnswerCallStep ==
  ASSUME TypeOK, TypeOK', TimelyInv, SigningInv, AnswerCall, sentAt' = sentAt, request' = request
  PROVE  SigningInv'
<1>1. proc = "up" /\ pc = "await" /\ call.state = "sent"
  BY DEF AnswerCall, TypeOK, TimelyInv
<1>2. PICK n \in Sizes : service' = Rotated(n)
                       /\ call' = [state |-> "granted", session |-> Rotated(n).current]
  BY <1>1, SentIsAccepted DEF AnswerCall
<1>3. UNCHANGED <<now, proc, pc, tokenData>>
  BY DEF AnswerCall
<1>type. /\ now \in Nat /\ sentAt \in Nat /\ tokenData.authExp \in Nat
         /\ Second \in Nat /\ MaxRtt \in Nat /\ MaxDelay \in Nat /\ Grace \in Nat /\ AuthLife \in Nat
         /\ request.takenAt \in Nat
  BY ConstantsAssumption, TimelyAssumption, SigningAssumption
     DEF TypeOK, TimelyInv, Session, SigningInv, RequestInv
<1>4. /\ service'.current.epoch = service.current.epoch + 1
      /\ service'.current.authExp = now + AuthLife
      /\ service'.graceEnd = now + Grace
  BY <1>2 DEF Rotated, Issue
<1>5. /\ tokenData = service.current
      /\ sentAt <= now /\ now <= sentAt + MaxRtt /\ Early(sentAt)
  BY <1>1 DEF TimelyInv, HoldsCurrent, InTime
<1>6. GrantedIsNext'
  BY <1>3, <1>4, <1>5, <1>type DEF GrantedIsNext
<1>7. CASE request.state = "sent"
  <2>1. request.session = service.current
    BY <1>1, <1>7 DEF SigningInv, RequestInv, HasPrevious
  <2>2. request.takenAt <= now
    BY <1>7 DEF SigningInv, RequestInv
  <2>3. request.takenAt + MaxDelay < now + Grace
    BY <2>2, <1>type, SigningAssumption
  <2>5. request.takenAt + MaxDelay <= tokenData.authExp
    <3>1. sentAt + MaxRtt + MaxDelay <= tokenData.authExp
      BY <1>5, <1>type, EarlyCoversRequest
    <3> QED
      BY <1>5, <2>2, <3>1, <1>type
  <2>6. \A skew \in Skews : request.takenAt + MaxDelay + Second + skew < now + AuthLife
    <3>1. request.takenAt <= now + MaxRtt /\ now + AuthLife \in Nat
      BY <2>2, <1>type
    <3> QED
      BY <3>1, <1>type, FarFromDue
  <2>4. HasPrevious'
    BY <1>2, <1>4, <1>5, <2>1, <2>3, <2>5, <2>6 DEF HasPrevious
  <2> QED
    BY <1>3, <1>6, <1>7, <2>4 DEF SigningInv, RequestInv
<1>8. CASE request.state # "sent"
  BY <1>6, <1>8 DEF SigningInv, RequestInv
<1> QED
  BY <1>7, <1>8

(* The timer does not fire while a request has the previous session. *)
LEMMA SendStep ==
  ASSUME TypeOK, TypeOK', TimelyInv, SigningInv, TimelySend, request' = request
  PROVE  SigningInv'
<1>1. /\ proc = "up" /\ pc = "timer" /\ deadline <= now
      /\ call' = [state |-> "sent", session |-> tokenData]
      /\ UNCHANGED <<now, proc, tokenData, service>>
  BY DEF TimelySend, TimerFires
<1>2. call.state = "none"
  BY <1>1 DEF TypeOK
<1>3. PICK skew \in Skews : service.current.authExp <= now + Second + skew
  <2>1. now <= deadline /\ NotTooEarly(deadline) /\ tokenData = service.current
    BY <1>1, <1>2 DEF TimelyInv, HoldsCurrent, InTime
  <2>2. now \in Nat /\ deadline \in Nat
    BY DEF TypeOK
  <2>3. now = deadline
    BY <1>1, <2>1, <2>2
  <2> QED
    BY <2>1, <2>3 DEF NotTooEarly
<1>4. request.state = "sent" => ~ HasPrevious
  <2> SUFFICES ASSUME request.state = "sent", HasPrevious PROVE FALSE
    OBVIOUS
  <2>1. now <= request.takenAt + MaxDelay /\ request.takenAt \in Nat
    BY DEF SigningInv, RequestInv
  <2>2. request.takenAt + MaxDelay + Second + skew < service.current.authExp
    BY DEF HasPrevious
  <2>3. /\ now \in Nat /\ service.current.authExp \in Nat
        /\ Second \in Nat /\ MaxDelay \in Nat /\ skew \in Int
    BY ConstantsAssumption, SigningAssumption DEF TypeOK, Session
  <2> QED
    BY <1>3, <2>1, <2>2, <2>3
<1> QED
  BY <1>1, <1>4 DEF SigningInv, RequestInv, GrantedIsNext

(* The other steps of the refresher change neither the service nor make a  *)
(* call.                                                                   *)
LEMMA QuietStep ==
  ASSUME TypeOK, TimelyInv, SigningInv, UNCHANGED <<now, service, request>>, proc = "up",
         proc' = "up", call' = call \/ call' = NoCall,
         call' = call => UNCHANGED <<tokenData, sentAt>> /\ (pc' = "await" => pc = "await")
  PROVE  SigningInv'
<1>1. GrantedIsNext'
  BY DEF SigningInv, GrantedIsNext, NoCall
<1>2. HasPrevious => HasPrevious'
  BY DEF HasPrevious, NoCall
<1> QED
  BY <1>1, <1>2 DEF SigningInv, RequestInv

LEMMA RefresherStepStep ==
  ASSUME TypeOK, TypeOK', TimelyInv, TimelyInv', SigningInv, RefresherStep
  PROVE  SigningInv'
<1> request' = request
  BY DEF RefresherStep
<1>1. CASE TimelyStart
  <2>1. request.state = "none"
    BY <1>1 DEF TimelyStart, SigningInv, RequestInv
  <2> QED
    BY <1>1, <2>1 DEF TimelyStart, Start, NoCall, SigningInv, RequestInv, GrantedIsNext
<1>2. CASE TimelySend
  BY <1>2, SendStep
<1>3. CASE TimelyStep
  <2>1. CASE AnswerCall
    BY <1>3, <2>1, AnswerCallStep DEF TimelyStep
  <2>2. CASE ~ AnswerCall
    <3>1. sentAt' = sentAt
      BY <1>3 DEF TimelyStep
    <3>2. ~ RefreshTokenExpired
      BY DEF RefreshTokenExpired, TimelyInv
    <3>3. \/ ArmTimer \/ RefreshGranted \/ RefreshDenied \/ saveTokenData \/ SaveFails
      BY <1>3, <2>2, <3>2 DEF TimelyStep
    <3>4. /\ UNCHANGED <<now, service>> /\ proc = "up" /\ proc' = "up"
          /\ call' = call \/ call' = NoCall
      BY <3>3 DEF ArmTimer, RefreshGranted, RefreshDenied, saveTokenData, SaveFails
    <3>5. call' = call => UNCHANGED tokenData /\ (pc' = "await" => pc = "await")
      BY <3>3 DEF ArmTimer, RefreshGranted, RefreshDenied, saveTokenData, SaveFails, NoCall
    <3> QED
      BY <3>1, <3>4, <3>5, QuietStep
  <2> QED
    BY <2>1, <2>2
<1> QED
  BY <1>1, <1>2, <1>3 DEF RefresherStep

LEMMA SigningTickStep ==
  ASSUME TypeOK, TimelyInv, SigningInv, SigningTick
  PROVE  SigningInv'
<1>1. /\ now' = now + 1
      /\ UNCHANGED <<proc, pc, tokenData, call, service, sentAt, request>>
      /\ request.state = "sent" => now < request.takenAt + MaxDelay
  BY DEF SigningTick, TimelyTick, Tick
<1>2. HasPrevious => HasPrevious'
  BY <1>1 DEF HasPrevious
<1>3. request.takenAt \in Nat /\ now \in Nat /\ MaxDelay \in Nat
  BY SigningAssumption DEF TypeOK, SigningInv, RequestInv
<1> QED
  BY <1>1, <1>2, <1>3 DEF SigningInv, RequestInv, GrantedIsNext

LEMMA SigningInvStep ==
  TypeOK /\ TypeOK' /\ TimelyInv /\ TimelyInv' /\ SigningInv /\ [SigningNext]_signingVars
    => SigningInv'
<1> SUFFICES ASSUME TypeOK, TypeOK', TimelyInv, TimelyInv', SigningInv, [SigningNext]_signingVars
             PROVE  SigningInv'
  OBVIOUS
<1>1. CASE TakeToken
  BY <1>1, TakeTokenStep
<1>2. CASE Check
  BY <1>2, CheckStep
<1>3. CASE RefresherStep
  BY <1>3, RefresherStepStep
<1>4. CASE SigningTick
  BY <1>4, SigningTickStep
<1>5. CASE UNCHANGED signingVars
  BY <1>5 DEF signingVars, timelyVars, vars, SigningInv, RequestInv, GrantedIsNext, HasPrevious
<1> QED
  BY <1>1, <1>2, <1>3, <1>4, <1>5 DEF SigningNext

(* A request is never refused on account of a refresh: neither because its *)
(* token has expired, nor because its session has been rotated.            *)
THEOREM NoRequestRefused == SigningSpec => []NeverRefused
<1>1. SigningSpec => [](TypeOK /\ TimelyInv)
  BY SigningIsTimely, TimelyInvariant, PTL
<1>2. SigningInv => NeverRefused
  BY DEF SigningInv, RequestInv, NeverRefused
<1> QED
  BY <1>1, <1>2, SigningInvInit, SigningInvStep, PTL DEF SigningSpec

-----------------------------------------------------------------------------
(* Two sidecars on one token file: SharedTokenFile. *)

(* The lemmas about one process, for the second. *)
Twin ==
  INSTANCE TokenRefreshProofs WITH
    proc <- proc2, ctxDone <- ctxDone2, pc <- pc2,
    deadline <- deadline2, tokenData <- tokenData2, call <- call2

SharedTypeOK == TypeOK /\ Twin!TypeOK

(* Nothing in the file, in the two memories and on the way to or from the  *)
(* service is newer than the service's session, and what is as new is that *)
(* session; and whoever asks for another one has to.                       *)
SharedInv ==
  SharedTypeOK /\ SoundFile /\ SoundStray /\ SoundProcess /\ Twin!SoundProcess

(* A step of the duplicate is one of a process as TokenRefresh has it. *)
LEMMA DuplicateSteps ==
  Duplicate!Start \/ Duplicate!Refresher \/ Duplicate!AnswerCall => Twin!SoundStep
<1>1. Duplicate!Start => Twin!Start
  BY DEF Duplicate!Start, Duplicate!Loadable, Duplicate!DecodeFails,
         Duplicate!StartsWith, Duplicate!Spliced, Duplicate!Garbled,
         Duplicate!NoCall, Duplicate!Blank, Twin!Start, Twin!Loadable,
         Twin!DecodeFails, Twin!StartsWith, Twin!Spliced, Twin!Garbled,
         Twin!NoCall, Twin!Blank
<1>2. Duplicate!LoopReturns => Twin!LoopReturns
  BY DEF Duplicate!LoopReturns, Twin!LoopReturns
<1>3. Duplicate!ArmTimer => Twin!ArmTimer
  BY DEF Duplicate!ArmTimer, Duplicate!Overdue, Duplicate!Deadline,
         Duplicate!Margin, Twin!ArmTimer, Twin!Overdue, Twin!Deadline,
         Twin!Margin
<1>4. Duplicate!RefreshTokenExpired => Twin!RefreshTokenExpired
  BY DEF Duplicate!RefreshTokenExpired, Duplicate!Overdue, Duplicate!Margin,
         Duplicate!Gone, Duplicate!Blank, Duplicate!NoCall,
         Twin!RefreshTokenExpired, Twin!Overdue, Twin!Margin, Twin!Gone,
         Twin!Blank, Twin!NoCall
<1>5. Duplicate!TimerCancelled => Twin!TimerCancelled
  BY DEF Duplicate!TimerCancelled, Twin!TimerCancelled
<1>6. Duplicate!TimerFires => Twin!TimerFires
  BY DEF Duplicate!TimerFires, Twin!TimerFires
<1>7. Duplicate!RefreshGranted => Twin!RefreshGranted
  BY DEF Duplicate!RefreshGranted, Duplicate!NoCall, Duplicate!Blank,
         Twin!RefreshGranted, Twin!NoCall, Twin!Blank
<1>8. Duplicate!RefreshDenied => Twin!RefreshDenied
  BY DEF Duplicate!RefreshDenied, Duplicate!NoCall, Duplicate!Blank,
         Twin!RefreshDenied, Twin!NoCall, Twin!Blank
<1>9. Duplicate!saveTokenData => Twin!saveTokenData
  BY DEF Duplicate!saveTokenData, Duplicate!Overwrite, Twin!saveTokenData,
         Twin!Overwrite
<1>10. Duplicate!AnswerCall => Twin!AnswerCall
  BY DEF Duplicate!AnswerCall, Duplicate!Accepts, Duplicate!Rotated,
         Duplicate!Issue, Twin!AnswerCall, Twin!Accepts, Twin!Rotated,
         Twin!Issue
<1> QED
  BY <1>1, <1>2, <1>3, <1>4, <1>5, <1>6, <1>7, <1>8, <1>9, <1>10
     DEF Duplicate!Refresher, Twin!Refresher, Twin!SoundStep

(* What both processes share is as sound for one as it is for the other.   *)
LEMMA SharedSoundness ==
  /\ Twin!SoundFile <=> SoundFile
  /\ Twin!SoundFile' <=> SoundFile'
  /\ Twin!SoundStray <=> SoundStray
  /\ Twin!SoundStray' <=> SoundStray'
  /\ Twin!ServiceGoesOn <=> ServiceGoesOn
<1>1. /\ Twin!SoundFile <=> SoundFile
      /\ Twin!SoundFile' <=> SoundFile'
  BY DEF SoundFile, DecodeFails, StartsWith, Issued,
         Twin!SoundFile, Twin!DecodeFails, Twin!StartsWith, Twin!Issued
<1>2. /\ Twin!SoundStray <=> SoundStray
      /\ Twin!SoundStray' <=> SoundStray'
  BY DEF SoundStray, Issued, Due, Margin,
         Twin!SoundStray, Twin!Issued, Twin!Due, Twin!Margin
<1>3. Twin!ServiceGoesOn <=> ServiceGoesOn
  BY DEF ServiceGoesOn, Rotated, Issue, Twin!ServiceGoesOn, Twin!Rotated, Twin!Issue
<1> QED
  BY <1>1, <1>2, <1>3

LEMMA SameTypes ==
  Twin!Session = Session /\ Twin!Blank = Blank /\ Twin!FaultKind = FaultKind
BY DEF Session, Blank, FaultKind, Twin!Session, Twin!Blank, Twin!FaultKind

LEMMA SharedInvInit == SharedInit => SharedInv
<1> SUFFICES ASSUME SharedInit PROVE SharedInv
  OBVIOUS
<1>1. Init /\ TypeOK
  BY TypeInit DEF SharedInit
<1>2. Twin!TypeOK
  BY <1>1 DEF SharedInit, TypeOK, Init, Blank, NoCall, Session, FaultKind,
              Twin!TypeOK, Twin!Session, Twin!Blank, Twin!FaultKind
<1>3. SoundFile
  <2>1. Holds(file, service.current) /\ file = Document(service.current)
    BY <1>1, InitialSession, InitialFile DEF Init
  <2>2. \A i \in 1..Len(file) : file[i] = service.current
    BY <2>1, <1>1 DEF Document, TypeOK, Session
  <2>3. service.current.epoch = 1
    BY <1>1 DEF Init, Issue
  <2>4. Issued(service.current, service.current)
    BY <2>3 DEF Issued
  <2> QED
    BY <2>1, <2>2, <2>4 DEF SoundFile, Holds
<1>4. SoundStray
  BY <1>1 DEF Init, SoundStray
<1>5. SoundProcess
  BY <1>1 DEF Init, SoundProcess, NoCall
<1>6. Twin!SoundProcess
  BY DEF SharedInit, Twin!SoundProcess, NoCall
<1> QED
  BY <1>1, <1>2, <1>3, <1>4, <1>5, <1>6 DEF SharedInv, SharedTypeOK

(* The types of one process say what there is to say of the memory of the  *)
(* other, whose step it was not.                                           *)
LEMMA TypesTogether ==
  ASSUME SharedTypeOK
  PROVE  /\ TypeOK' /\ UNCHANGED secondVars => Twin!TypeOK'
         /\ Twin!TypeOK' /\ UNCHANGED firstVars => TypeOK'
<1>1. TypeOK' /\ UNCHANGED secondVars => Twin!TypeOK'
  BY SameTypes DEF SharedTypeOK, TypeOK, Twin!TypeOK, secondVars
<1>2. Twin!TypeOK' /\ UNCHANGED firstVars => TypeOK'
  BY SameTypes DEF SharedTypeOK, TypeOK, Twin!TypeOK, firstVars
<1> QED
  BY <1>1, <1>2

LEMMA FirstSoundStep ==
  ASSUME SharedInv, SoundStep, UNCHANGED secondVars
  PROVE  SharedInv'
<1> USE DEF SharedInv, SharedTypeOK
<1>1. TypeOK' /\ Twin!TypeOK'
  <2>1. [Next]_vars
    BY DEF SoundStep, Next
  <2> QED
    BY <2>1, TypeStep, TypesTogether
<1>2. ServiceGoesOn /\ now <= now' /\ now' \in Nat
  BY SoundServiceStep
<1>3. SoundFile'
  <2>1. file' = file \/ saveTokenData
    BY DEF SoundStep, Start, Crash, Refresher, AnswerCall, AnswerStray, Tick,
           LoopReturns, ArmTimer, RefreshTokenExpired, TimerCancelled, TimerFires,
           RefreshGranted, RefreshDenied
  <2> QED
    BY <1>2, <2>1, SoundFileStep
<1>4. SoundStray'
  BY SoundStrayStep
<1>5. SoundProcess'
  BY SoundProcessStep
<1>6. Twin!SoundProcess'
  BY <1>2, ConstantsAssumption, SharedSoundness, Twin!SoundProcessStays
     DEF secondVars, FaultKind, Twin!FaultKind
<1> QED
  BY <1>1, <1>3, <1>4, <1>5, <1>6

LEMMA SecondSoundStep ==
  ASSUME SharedInv, SecondStep
  PROVE  SharedInv'
<1> USE DEF SharedInv, SharedTypeOK
<1>1. Twin!SoundStep /\ UNCHANGED firstVars
  BY DuplicateSteps DEF SecondStep
<1>2. TypeOK' /\ Twin!TypeOK'
  <2>1. [Twin!Next]_(Twin!vars)
    BY <1>1 DEF Twin!SoundStep, Twin!Next
  <2> QED
    BY <1>1, <2>1, ConstantsAssumption, Twin!TypeStep, TypesTogether
       DEF FaultKind, Twin!FaultKind
<1>3. ServiceGoesOn /\ now <= now' /\ now' \in Nat
  BY <1>1, ConstantsAssumption, SharedSoundness, Twin!SoundServiceStep
     DEF FaultKind, Twin!FaultKind
<1>4. SoundFile'
  <2>1. file' = file \/ Twin!saveTokenData
    BY <1>1
       DEF Twin!SoundStep, Twin!Start, Twin!Crash, Twin!Refresher, Twin!AnswerCall,
           Twin!AnswerStray, Twin!Tick, Twin!LoopReturns, Twin!ArmTimer,
           Twin!RefreshTokenExpired, Twin!TimerCancelled, Twin!TimerFires,
           Twin!RefreshGranted, Twin!RefreshDenied
  <2> QED
    BY <1>3, <2>1, ConstantsAssumption, SharedSoundness, Twin!SoundFileStep
       DEF FaultKind, Twin!FaultKind
<1>5. SoundStray'
  BY <1>1, ConstantsAssumption, SharedSoundness, Twin!SoundStrayStep
     DEF FaultKind, Twin!FaultKind
<1>6. Twin!SoundProcess'
  BY <1>1, ConstantsAssumption, SharedSoundness, Twin!SoundProcessStep
     DEF FaultKind, Twin!FaultKind
<1>7. SoundProcess'
  BY <1>1, <1>3, SoundProcessStays DEF firstVars
<1> QED
  BY <1>2, <1>4, <1>5, <1>6, <1>7

(* The duplicate goes, and a request that it sent stays behind, as sound   *)
(* as it was.                                                              *)
LEMMA ListenFailsStep ==
  ASSUME SharedInv, ListenFails
  PROVE  SharedInv'
<1> USE DEF SharedInv, SharedTypeOK
<1>1. /\ UNCHANGED <<now, file, service, faults, firstVars>>
      /\ proc2' = "fatal" /\ ctxDone2' = FALSE /\ pc2' = "returned" /\ deadline2' = 0
      /\ tokenData2' = Blank /\ call2' = NoCall
  BY
     DEF ListenFails, Duplicate!Gone, Duplicate!Blank, Duplicate!NoCall, Blank, NoCall
<1>2. \A s \in stray' : s \in stray \/ (call2.state = "sent" /\ s = call2.session)
  BY DEF ListenFails, Duplicate!LeaveBehind
<1>3. TypeOK' /\ Twin!TypeOK'
  <2>1. stray' \subseteq Session
    BY <1>2 DEF TypeOK, Twin!TypeOK, Session, Twin!Session
  <2>2. TypeOK'
    BY <1>1, <2>1 DEF TypeOK, firstVars
  <2>3. Twin!TypeOK'
    <3>1. Blank \in Session /\ NoCall.state = "none"
          /\ NoCall \in [state : {"none", "sent", "granted", "denied"}, session : Session]
      BY DEF Blank, NoCall, Session
    <3> QED
      BY <1>1, <2>2, <3>1, SameTypes DEF TypeOK, Twin!TypeOK
  <2> QED
    BY <2>2, <2>3
<1>4. SoundFile' /\ SoundProcess'
  BY <1>1 DEF SoundFile, SoundProcess, firstVars
<1>5. Twin!SoundProcess'
  BY <1>1 DEF Twin!SoundProcess, NoCall
<1>6. SoundStray'
  <2>1. call2.state = "sent" =>
          Issued(call2.session, service.current) /\ Due(call2.session, now)
    BY
       DEF Twin!SoundProcess, Twin!Issued, Twin!Due, Twin!Margin, Issued, Due, Margin
  <2> QED
    BY <1>1, <1>2, <2>1 DEF SoundStray
<1> QED
  BY <1>3, <1>4, <1>5, <1>6

LEMMA SharedInvStep == SharedInv /\ [SharedNext]_sharedVars => SharedInv'
<1> SUFFICES ASSUME SharedInv, [SharedNext]_sharedVars PROVE SharedInv'
  OBVIOUS
<1>1. CASE FirstStep \/ Elsewhere
  BY <1>1, FirstSoundStep DEF FirstStep, Elsewhere, SoundStep
<1>2. CASE SecondStep
  BY <1>2, SecondSoundStep
<1>3. CASE ListenFails
  BY <1>3, ListenFailsStep
<1>4. CASE UNCHANGED sharedVars
  BY <1>4
     DEF sharedVars, vars, secondVars, SharedInv, SharedTypeOK, TypeOK, SoundFile,
       SoundStray, SoundProcess, Twin!TypeOK, Twin!SoundProcess
<1> QED
  BY <1>1, <1>2, <1>3, <1>4 DEF SharedNext

(* Two sidecars that save to one file one after the other, with documents  *)
(* of any lengths, leave a file that the next start can read, and what it  *)
(* reads is a session of the service.                                      *)
THEOREM SharedFileLoads == SharedSpec => []FileAlwaysLoads
<1>1. SharedInv => FileAlwaysLoads
  <2> SUFFICES ASSUME SharedInv PROVE FileAlwaysLoads
    OBVIOUS
  <2>1. file \in Seq(Session) /\ ~ DecodeFails(file)
    BY DEF SharedInv, SharedTypeOK, TypeOK, SoundFile
  <2>2. Loadable(file) = {file[1]} /\ file # << >>
    BY <2>1, ReadableHoldsFirst
  <2>3. 1 \in 1..Len(file)
    BY <2>1, <2>2
  <2>4. Issued(file[1], service.current)
    BY <2>3 DEF SharedInv, SoundFile
  <2> QED
    BY <2>1, <2>2, <2>4 DEF FileAlwaysLoads, Issued
<1> QED
  BY <1>1, SharedInvInit, SharedInvStep, PTL DEF SharedSpec

(* Neither of the two takes a session away from the other before it is     *)
(* due, except within the grace period of the one before it.               *)
THEOREM SharedRotation == SharedSpec => RotatedWhenDue
<1>1. SharedInv /\ [SharedNext]_sharedVars =>
        [service' # service =>
           \/ \E skew \in Skews : service.current.authExp <= now + skew + Margin
           \/ now < service.graceEnd]_sharedVars
  <2> SUFFICES ASSUME SharedInv, SharedNext, service' # service
               PROVE  \/ \E skew \in Skews : service.current.authExp <= now + skew + Margin
                      \/ now < service.graceEnd
    OBVIOUS
  <2>1. CASE FirstStep \/ Elsewhere
    BY <2>1, SoundRotation
       DEF FirstStep, Elsewhere, SoundStep, SharedInv, SharedTypeOK, Due
  <2>2. CASE SecondStep
    <3>1. Twin!SoundStep
      BY <2>2, DuplicateSteps DEF SecondStep
    <3>2. Twin!Due(service.current, now) \/ now < service.graceEnd
      BY <3>1, ConstantsAssumption, SharedSoundness, Twin!SoundRotation
         DEF SharedInv, SharedTypeOK, FaultKind, Twin!FaultKind
    <3> QED
      BY <3>2 DEF Twin!Due, Twin!Margin, Margin
  <2>3. CASE ListenFails
    BY <2>3 DEF ListenFails
  <2> QED
    BY <2>1, <2>2, <2>3 DEF SharedNext
<1> QED
  BY <1>1, SharedInvInit, SharedInvStep, PTL DEF SharedSpec, RotatedWhenDue
=============================================================================
