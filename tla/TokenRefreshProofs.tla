-------------------------- MODULE TokenRefreshProofs --------------------------
(***************************************************************************)
(* Proofs about the operators of TokenFile, for files and documents of     *)
(* every length, and about TokenRefresh, for every lifetime, grace period, *)
(* document length, clock bound and fault budget.                          *)
(***************************************************************************)
EXTENDS TokenRefresh, TLAPS

-----------------------------------------------------------------------------
(* The token file. *)

(* A write keeps a file a file, and makes it no shorter than the text      *)
(* written.                                                                *)
LEMMA OverwriteType ==
  ASSUME NEW S, NEW f \in Seq(S), NEW s \in S, NEW n \in Nat
  PROVE  /\ Overwrite(f, s, n) \in Seq(S)
         /\ Len(Overwrite(f, s, n)) = IF n > Len(f) THEN n ELSE Len(f)
         /\ \A i \in 1..Len(Overwrite(f, s, n)) :
              Overwrite(f, s, n)[i] = IF i <= n THEN s ELSE f[i]
<1> DEFINE m == IF n > Len(f) THEN n ELSE Len(f)
           g == [i \in 1..m |-> IF i <= n THEN s ELSE f[i]]
<1>1. m \in Nat /\ n <= m /\ Len(f) <= m
  OBVIOUS
<1>2. \A i \in 1..m : (IF i <= n THEN s ELSE f[i]) \in S
  <2> TAKE i \in 1..m
  <2>1. CASE i <= n
    BY <2>1
  <2>2. CASE ~ (i <= n)
    BY <1>1, <2>2
  <2> QED
    BY <2>1, <2>2
<1>3. g \in [1..m -> S]
  BY <1>2
<1>4. g \in Seq(S) /\ Len(g) = m
  BY <1>1, <1>3
<1> QED
  BY <1>4 DEF Overwrite

(* A file that starts with a whole document yields that session and no     *)
(* other, whatever follows.                                                *)
LEMMA HoldsIffStarts ==
  ASSUME NEW S, NEW f \in Seq(S), NEW s \in S, s.size \in Nat \ {0}
  PROVE  Holds(f, s) <=> f # << >> /\ f[1] = s /\ StartsWith(f, s)
<1>1. ASSUME Holds(f, s)
      PROVE  f # << >> /\ f[1] = s /\ StartsWith(f, s)
  <2>1. ~ DecodeFails(f) /\ {f[1]} = {s}
    BY <1>1 DEF Holds, Loadable
  <2>2. f[1] = s
    BY <2>1
  <2> QED
    BY <2>1, <2>2 DEF DecodeFails
<1>2. ASSUME f # << >>, f[1] = s, StartsWith(f, s)
      PROVE  Holds(f, s)
  BY <1>2 DEF Holds, Loadable, DecodeFails
<1> QED
  BY <1>1, <1>2

(* saveTokenData needs no O_TRUNC: after a complete write the file yields  *)
(* the session written, however long the text was that it overwrote.       *)
THEOREM WriteThenRead ==
  ASSUME NEW S, NEW f \in Seq(S), NEW s \in S, s.size \in Nat \ {0}
  PROVE  Holds(Overwrite(f, s, s.size), s)
<1> DEFINE g == Overwrite(f, s, s.size)
<1>1. /\ g \in Seq(S)
      /\ s.size <= Len(g)
      /\ \A i \in 1..Len(g) : g[i] = IF i <= s.size THEN s ELSE f[i]
  BY OverwriteType
<1>2. \A i \in 1..s.size : i \in 1..Len(g) /\ g[i] = s
  BY <1>1
<1>3. g # << >> /\ g[1] = s
  BY <1>1, <1>2
<1>4. StartsWith(g, s)
  BY <1>1, <1>2 DEF StartsWith
<1> HIDE DEF g
<1>5. Holds(g, s)
  BY <1>1, <1>3, <1>4, HoldsIffStarts
<1> QED
  BY <1>5 DEF g

(* What New may load comes from the cells of the file: the session of one  *)
(* of them, or a garbled form of it.                                       *)
LEMMA LoadableFromCells ==
  ASSUME NEW S, NEW f \in Seq(S), NEW s \in Loadable(f)
  PROVE  \E i \in 1..Len(f) : s = f[i] \/ s = Garbled(f[i])
<1>1. CASE ~ DecodeFails(f)
  <2>1. s = f[1] /\ f # << >>
    BY <1>1 DEF Loadable, DecodeFails
  <2>2. 1 \in 1..Len(f)
    BY <2>1
  <2> QED
    BY <2>1, <2>2
<1>2. CASE DecodeFails(f) /\ Spliced(f)
  BY <1>2 DEF Loadable
<1>3. CASE DecodeFails(f) /\ ~ Spliced(f)
  BY <1>3 DEF Loadable
<1> QED
  BY <1>1, <1>2, <1>3

-----------------------------------------------------------------------------
(* The refresher. *)

(* A file that is overwritten with n cells of s is a file of sessions. *)
LEMMA OverwriteSession ==
  ASSUME NEW f \in Seq(Session), NEW s \in Session, NEW n \in Nat
  PROVE  Overwrite(f, s, n) \in Seq(Session)
BY OverwriteType

LEMMA LoadableIsSession ==
  ASSUME NEW f \in Seq(Session), NEW s \in Loadable(f)
  PROVE  s \in Session
<1>1. PICK i \in 1..Len(f) : s = f[i] \/ s = Garbled(f[i])
  BY LoadableFromCells
<1>2. f[i] \in Session
  OBVIOUS
<1>3. Garbled(f[i]) \in Session
  BY <1>2 DEF Garbled, Session
<1> QED
  BY <1>1, <1>2, <1>3

LEMMA IssueType ==
  ASSUME TypeOK, NEW e \in Nat, NEW n \in Sizes
  PROVE  Issue(e, n) \in Session
BY ConstantsAssumption DEF TypeOK, Issue, Session

LEMMA RotatedType ==
  ASSUME TypeOK, NEW n \in Sizes
  PROVE  /\ Rotated(n) \in [current : Session, graceEnd : Nat]
         /\ Rotated(n).current.epoch = service.current.epoch + 1
<1>1. service.current \in Session /\ service.current.epoch + 1 \in Nat
  BY DEF TypeOK, Session
<1>2. Issue(service.current.epoch + 1, n) \in Session
  BY <1>1, IssueType
<1>3. now + Grace \in Nat
  BY ConstantsAssumption DEF TypeOK
<1> QED
  BY <1>2, <1>3 DEF Rotated, Issue

(* A timer is set for now or later. *)
LEMMA DeadlineType ==
  ASSUME TypeOK, NEW skew \in Skews
  PROVE  Deadline(skew) \in Nat /\ now <= Deadline(skew)
<1>1. /\ now \in Nat /\ tokenData.authExp \in Nat /\ Second \in Nat /\ skew \in Int
  BY ConstantsAssumption DEF TypeOK, Session
<1> QED
  BY <1>1 DEF Deadline, Overdue, Margin

LEMMA BlankType == Blank \in Session
BY DEF Blank, Session

LEMMA FaultType ==
  ASSUME TypeOK, NEW k \in FaultKind, Fault(k)
  PROVE  /\ faults' \in [FaultKind -> Nat]
         /\ faults'[k] # 0
         /\ \A j \in FaultKind : faults'[j] = 0 => faults[j] = 0
BY DEF TypeOK, Fault

LEMMA TypeInit == Init => TypeOK
<1> SUFFICES ASSUME Init PROVE TypeOK
  OBVIOUS
<1>1. PICK n \in Sizes : service = [current |-> Issue(1, n), graceEnd |-> 0]
  BY DEF Init
<1>2. Issue(1, n) \in Session
  BY ConstantsAssumption DEF Init, Issue, Session
<1>3. service.current \in Session /\ service.current.size \in Nat
  BY <1>1, <1>2 DEF Session
<1>4. file \in Seq(Session)
  BY <1>3 DEF Init, Document
<1> QED
  BY <1>1, <1>2, <1>4, BlankType DEF Init, TypeOK, NoCall

LEMMA TypeStep == TypeOK /\ [Next]_vars => TypeOK'
<1> SUFFICES ASSUME TypeOK, [Next]_vars PROVE TypeOK'
  OBVIOUS
<1> USE DEF TypeOK
<1>1. CASE Start
  <2>1. PICK s \in Loadable(file) : tokenData' = s
    BY <1>1 DEF Start
  <2> QED
    BY <1>1, <2>1, LoadableIsSession, BlankType DEF Start, NoCall
<1>2. CASE StartFails
  <2>1. faults' \in [FaultKind -> Nat]
    BY <1>2, FaultType DEF StartFails, FaultKind
  <2> QED
    BY <1>2, <2>1 DEF StartFails
<1>3. CASE Interrupt
  BY <1>3 DEF Interrupt
<1>4. CASE Crash
  <2>1. faults' \in [FaultKind -> Nat]
    BY <1>4, FaultType DEF Crash, FaultKind
  <2>2. stray' \subseteq Session
    BY <1>4 DEF Crash, LeaveBehind
  <2> QED
    BY <1>4, <2>1, <2>2, BlankType DEF Crash, Gone, NoCall
<1>5. CASE LoopReturns
  BY <1>5 DEF LoopReturns
<1>6. CASE ArmTimer
  <2>1. deadline' \in Nat
    BY <1>6, DeadlineType DEF ArmTimer
  <2> QED
    BY <1>6, <2>1 DEF ArmTimer
<1>7. CASE RefreshTokenExpired
  BY <1>7, BlankType DEF RefreshTokenExpired, Gone, NoCall
<1>8. CASE TimerCancelled
  BY <1>8 DEF TimerCancelled
<1>9. CASE TimerFires
  BY <1>9 DEF TimerFires
<1>10. CASE RefreshGranted
  BY <1>10, BlankType DEF RefreshGranted, NoCall
<1>11. CASE RefreshDenied
  BY <1>11, BlankType DEF RefreshDenied, NoCall
<1>12. CASE saveTokenData
  <2>1. file' \in Seq(Session)
    BY <1>12, OverwriteSession DEF saveTokenData, Session
  <2> QED
    BY <1>12, <2>1 DEF saveTokenData
<1>13. CASE RefreshCallFails
  <2>1. faults' \in [FaultKind -> Nat]
    BY <1>13, FaultType DEF RefreshCallFails, FaultKind
  <2>2. stray' \subseteq Session
    BY <1>13 DEF RefreshCallFails, LeaveBehind
  <2> QED
    BY <1>13, <2>1, <2>2, BlankType DEF RefreshCallFails, NoCall
<1>14. CASE RefreshStray
  <2>1. faults' \in [FaultKind -> Nat]
    BY <1>14, FaultType DEF RefreshStray, FaultKind
  <2>2. stray' \subseteq Session
    BY <1>14 DEF RefreshStray, LeaveBehind
  <2>3. tokenData' \in Session
    <3>1. PICK n \in Sizes : tokenData' = [Blank EXCEPT !.size = n]
      BY <1>14 DEF RefreshStray
    <3> QED
      BY <3>1, ConstantsAssumption DEF Blank, Session
  <2> QED
    BY <1>14, <2>1, <2>2, <2>3, BlankType DEF RefreshStray, NoCall
<1>15. CASE SaveFails
  <2>1. faults' \in [FaultKind -> Nat]
    BY <1>15, FaultType DEF SaveFails, FaultKind
  <2>2. file' \in Seq(Session)
    BY <1>15, OverwriteSession DEF SaveFails
  <2> QED
    BY <1>15, <2>1, <2>2 DEF SaveFails
<1>16. CASE AnswerCall
  <2>1. CASE /\ Accepts(call.session)
             /\ \E n \in Sizes :
                  /\ service' = Rotated(n)
                  /\ call' = [state |-> "granted", session |-> Rotated(n).current]
    <3>1. PICK n \in Sizes :
             /\ service' = Rotated(n)
             /\ call' = [state |-> "granted", session |-> Rotated(n).current]
      BY <2>1
    <3>2. Rotated(n) \in [current : Session, graceEnd : Nat]
      BY RotatedType
    <3> QED
      BY <1>16, <3>1, <3>2 DEF AnswerCall
  <2>2. CASE /\ call' = [call EXCEPT !.state = "denied"]
             /\ UNCHANGED service
    BY <1>16, <2>2 DEF AnswerCall
  <2> QED
    BY <1>16, <2>1, <2>2 DEF AnswerCall
<1>17. CASE AnswerStray
  <2>1. service' \in [current : Session, graceEnd : Nat]
    BY <1>17, RotatedType DEF AnswerStray
  <2>2. stray' \subseteq Session
    BY <1>17 DEF AnswerStray
  <2> QED
    BY <1>17, <2>1, <2>2 DEF AnswerStray
<1>18. CASE Tick
  BY <1>18 DEF Tick
<1>19. CASE UNCHANGED vars
  BY <1>19 DEF vars
<1> QED
  BY <1>1, <1>2, <1>3, <1>4, <1>5, <1>6, <1>7, <1>8, <1>9, <1>10, <1>11, <1>12,
     <1>13, <1>15, <1>16, <1>17, <1>18, <1>19, <1>14 DEF Next, Refresher

(* The types, and the agreement of the goroutine's place with its call. *)
THEOREM TypeCorrect == Spec => []TypeOK
BY TypeInit, TypeStep, PTL DEF Spec

-----------------------------------------------------------------------------
(* DiskMirrorsMemory is not inductive: a process killed while it saves is  *)
(* started again from the file as it was before the save.  What is kept by *)
(* every step is that, with no disk fault, some whole document comes       *)
(* first.                                                                  *)
FileReadable == faults["disk"] = 0 => ~ DecodeFails(file)

DiskInv == FileReadable /\ DiskMirrorsMemory

LEMMA SessionSize ==
  ASSUME NEW s \in Session
  PROVE  s.size \in Nat \ {0}
BY DEF Session

LEMMA ReadableHoldsFirst ==
  ASSUME NEW f \in Seq(Session), ~ DecodeFails(f)
  PROVE  /\ f # << >> /\ f[1] \in Session
         /\ Loadable(f) = {f[1]}
         /\ Holds(f, f[1])
BY DEF DecodeFails, Loadable, Holds

LEMMA HoldsFirst ==
  ASSUME NEW f \in Seq(Session), NEW s \in Session, Holds(f, s)
  PROVE  f # << >> /\ f[1] = s /\ ~ DecodeFails(f)
<1>1. s.size \in Nat \ {0}
  BY SessionSize
<1> QED
  BY <1>1, HoldsIffStarts DEF Holds

(* The file that `cs token create` wrote. *)
LEMMA InitialFile ==
  ASSUME NEW s \in Session
  PROVE  /\ Document(s) \in Seq(Session)
         /\ Holds(Document(s), s)
         /\ \A i \in 1..Len(Document(s)) : Document(s)[i] = s
<1> DEFINE d == Document(s)
<1>1. s.size \in Nat /\ s.size # 0
  BY SessionSize
<1>2. d \in Seq(Session) /\ Len(d) = s.size /\ \A i \in 1..s.size : d[i] = s
  BY <1>1 DEF Document
<1>3. d # << >> /\ d[1] = s /\ StartsWith(d, s)
  BY <1>1, <1>2 DEF StartsWith
<1> HIDE DEF d
<1>4. Holds(d, s)
  BY <1>1, <1>2, <1>3, HoldsIffStarts
<1> QED
  BY <1>1, <1>2, <1>4 DEF d

LEMMA InitialSession ==
  ASSUME Init
  PROVE  service.current \in Session
<1>1. PICK n \in Sizes : service = [current |-> Issue(1, n), graceEnd |-> 0]
  BY DEF Init
<1> QED
  BY <1>1, ConstantsAssumption DEF Init, Issue, Session

LEMMA DiskInvInit == Init => DiskInv
<1> SUFFICES ASSUME Init PROVE DiskInv
  OBVIOUS
<1>1. Holds(file, service.current)
  BY InitialSession, InitialFile DEF Init
<1> QED
  BY <1>1 DEF Init, DiskInv, FileReadable, DiskMirrorsMemory, Holds

LEMMA DiskInvStep == TypeOK /\ DiskInv /\ [Next]_vars => DiskInv'
<1> SUFFICES ASSUME TypeOK, DiskInv, [Next]_vars PROVE DiskInv'
  OBVIOUS
<1> USE DEF DiskInv, FileReadable, DiskMirrorsMemory
<1>file. file \in Seq(Session) /\ tokenData \in Session
  BY DEF TypeOK
<1>disk. "disk" \in FaultKind
  BY DEF FaultKind
<1>fault. ASSUME NEW k \in FaultKind, Fault(k), faults'["disk"] = 0
          PROVE  faults["disk"] = 0
  BY <1>fault, <1>disk, FaultType
<1>1. CASE Start
  <2> SUFFICES ASSUME faults["disk"] = 0 PROVE Holds(file, tokenData')
    BY <1>1 DEF Start
  <2>1. Loadable(file) = {file[1]} /\ Holds(file, file[1])
    BY <1>file, ReadableHoldsFirst
  <2> QED
    BY <1>1, <2>1 DEF Start
<1>2. CASE StartFails
  <2>1. CASE DecodeFails(file) /\ UNCHANGED faults
    BY <1>2, <2>1 DEF StartFails
  <2>2. CASE Fault("disk")
    BY <1>2, <2>2, <1>disk, FaultType DEF StartFails
  <2> QED
    BY <1>2, <2>1, <2>2 DEF StartFails
<1>3. CASE Interrupt
  BY <1>3 DEF Interrupt
<1>4. CASE Crash
  <2>1. faults'["disk"] = 0 => faults["disk"] = 0
    BY <1>4, <1>fault DEF Crash, FaultKind
  <2> QED
    BY <1>4, <2>1 DEF Crash, Gone
<1>5. CASE LoopReturns
  BY <1>5 DEF LoopReturns
<1>6. CASE ArmTimer
  BY <1>6 DEF ArmTimer
<1>7. CASE RefreshTokenExpired
  BY <1>7 DEF RefreshTokenExpired, Gone
<1>8. CASE TimerCancelled
  BY <1>8 DEF TimerCancelled
<1>9. CASE TimerFires
  BY <1>9 DEF TimerFires
<1>10. CASE RefreshGranted
  BY <1>10 DEF RefreshGranted
<1>11. CASE RefreshDenied
  BY <1>11 DEF RefreshDenied
<1>12. CASE saveTokenData
  <2>1. tokenData.size \in Nat \ {0}
    BY <1>file, SessionSize
  <2>2. Holds(Overwrite(file, tokenData, tokenData.size), tokenData)
    BY <1>file, <2>1, WriteThenRead
  <2> QED
    BY <1>12, <2>2 DEF saveTokenData, Holds
<1>13. CASE RefreshCallFails
  <2>1. faults'["disk"] = 0 => faults["disk"] = 0
    BY <1>13, <1>fault DEF RefreshCallFails, FaultKind
  <2> QED
    BY <1>13, <2>1 DEF RefreshCallFails
<1>14. CASE RefreshStray
  <2>1. faults'["disk"] = 0 => faults["disk"] = 0
    BY <1>14, <1>fault DEF RefreshStray, FaultKind
  <2> QED
    BY <1>14, <2>1 DEF RefreshStray
<1>15. CASE SaveFails
  BY <1>15, <1>disk, FaultType DEF SaveFails
<1>16. CASE AnswerCall
  BY <1>16 DEF AnswerCall
<1>17. CASE AnswerStray
  BY <1>17 DEF AnswerStray
<1>18. CASE Tick
  BY <1>18 DEF Tick
<1>19. CASE UNCHANGED vars
  BY <1>19 DEF vars
<1> QED
  BY <1>1, <1>2, <1>3, <1>4, <1>5, <1>6, <1>7, <1>8, <1>9, <1>10, <1>11, <1>12,
     <1>13, <1>15, <1>16, <1>17, <1>18, <1>19, <1>14 DEF Next, Refresher

(* Without a disk fault the file always yields the session in memory when  *)
(* no save is pending, and no start ever fails on it.                      *)
THEOREM DiskMirrors == Spec => []DiskMirrorsMemory
<1>1. DiskInv => DiskMirrorsMemory
  BY DEF DiskInv
<1> QED
  BY <1>1, DiskInvInit, DiskInvStep, TypeCorrect, PTL DEF Spec

-----------------------------------------------------------------------------
(* A restart takes the first session of the file, so the order between     *)
(* file and memory survives it only if no later cell is newer than the     *)
(* first.                                                                  *)
FirstIsNewest ==
  faults["disk"] = 0 /\ faults["stray"] = 0 =>
    \A i \in 1..Len(file) : file[i].epoch <= file[1].epoch

EpochInv == FirstIsNewest /\ EpochOrder

(* A write leaves old cells or cells of the session written. *)
LEMMA OverwriteCells ==
  ASSUME NEW f \in Seq(Session), NEW s \in Session, NEW n \in Nat,
         NEW i \in 1..Len(Overwrite(f, s, n))
  PROVE  Overwrite(f, s, n)[i] = s \/ (i \in 1..Len(f) /\ Overwrite(f, s, n)[i] = f[i])
<1>1. /\ Len(Overwrite(f, s, n)) = IF n > Len(f) THEN n ELSE Len(f)
      /\ Overwrite(f, s, n)[i] = IF i <= n THEN s ELSE f[i]
  BY OverwriteType
<1> DEFINE m == Len(Overwrite(f, s, n))
           c == Overwrite(f, s, n)[i]
<1>2. i \in 1..m
  OBVIOUS
<1>3. m = IF n > Len(f) THEN n ELSE Len(f)
  BY <1>1
<1>4. c = IF i <= n THEN s ELSE f[i]
  BY <1>1
<1> HIDE DEF m, c
<1>5. c = s \/ (i \in 1..Len(f) /\ c = f[i])
  BY <1>2, <1>3, <1>4
<1> QED
  BY <1>5 DEF c

LEMMA EpochInvInit == Init => EpochInv
<1> SUFFICES ASSUME Init PROVE EpochInv
  OBVIOUS
<1> DEFINE s == service.current
<1>0. s \in Session /\ file = Document(s)
  BY InitialSession DEF Init
<1> HIDE DEF s
<1>1. file \in Seq(Session) /\ Holds(file, s) /\ \A i \in 1..Len(file) : file[i] = s
  BY <1>0, InitialFile
<1>2. s.epoch \in Nat
  BY <1>0 DEF Session
<1>4. file[1] = s
  BY <1>0, <1>1, HoldsFirst
<1> USE DEF s
<1> QED
  BY <1>1, <1>2, <1>4 DEF Init, EpochInv, FirstIsNewest, EpochOrder, NoCall

LEMMA EpochInvStep == TypeOK /\ DiskInv /\ EpochInv /\ [Next]_vars => EpochInv'
<1> SUFFICES ASSUME TypeOK, DiskInv, EpochInv, [Next]_vars PROVE EpochInv'
  OBVIOUS
<1> USE DEF EpochInv, FirstIsNewest, EpochOrder
<1>types. /\ file \in Seq(Session) /\ tokenData \in Session
          /\ service.current \in Session /\ call.session \in Session
          /\ \A i \in 1..Len(file) : file[i].epoch \in Nat
          /\ tokenData.epoch \in Nat /\ service.current.epoch \in Nat
          /\ call.session.epoch \in Nat
  <2>1. /\ file \in Seq(Session) /\ tokenData \in Session
        /\ service.current \in Session /\ call.session \in Session
    BY DEF TypeOK
  <2>2. \A i \in 1..Len(file) : file[i] \in Session
    BY <2>1
  <2>3. \A s \in Session : s.epoch \in Nat
    BY DEF Session
  <2> QED
    BY <2>1, <2>2, <2>3
<1>disk. "disk" \in FaultKind /\ "stray" \in FaultKind
  BY DEF FaultKind
<1>fault. ASSUME NEW k \in FaultKind, Fault(k)
          PROVE  /\ faults'["disk"] = 0 => faults["disk"] = 0
                 /\ faults'["stray"] = 0 => faults["stray"] = 0
  BY <1>fault, <1>disk, FaultType
<1>1. CASE Start
  <2>1. PICK s \in Loadable(file) : tokenData' = s
    BY <1>1 DEF Start
  <2>2. s.epoch <= service.current.epoch
    <3>1. PICK i \in 1..Len(file) : s = file[i] \/ s = Garbled(file[i])
      <4>1. file \in Seq(Session)
        BY <1>types
      <4> QED
        BY <4>1, LoadableFromCells
    <3>2. Garbled(file[i]).epoch = 0
      BY <1>types DEF Garbled, Session
    <3> QED
      BY <3>1, <3>2, <1>types
  <2>3. faults["disk"] = 0 => s = file[1]
    BY <1>types, ReadableHoldsFirst DEF DiskInv, FileReadable
  <2> QED
    BY <1>1, <2>1, <2>2, <2>3 DEF Start, NoCall
<1>2. CASE StartFails
  <2>1. /\ faults'["disk"] = 0 => faults["disk"] = 0
        /\ faults'["stray"] = 0 => faults["stray"] = 0
    BY <1>2, <1>fault, <1>disk DEF StartFails
  <2> QED
    BY <1>2, <2>1 DEF StartFails
<1>3. CASE Interrupt
  BY <1>3 DEF Interrupt
<1>4. CASE Crash
  <2>1. /\ faults'["disk"] = 0 => faults["disk"] = 0
        /\ faults'["stray"] = 0 => faults["stray"] = 0
    BY <1>4, <1>fault DEF Crash, FaultKind
  <2> QED
    BY <1>4, <2>1 DEF Crash, Gone, NoCall
<1>5. CASE LoopReturns
  BY <1>5 DEF LoopReturns
<1>6. CASE ArmTimer
  BY <1>6 DEF ArmTimer
<1>7. CASE RefreshTokenExpired
  BY <1>7 DEF RefreshTokenExpired, Gone, NoCall
<1>8. CASE TimerCancelled
  BY <1>8 DEF TimerCancelled
<1>9. CASE TimerFires
  BY <1>9 DEF TimerFires
<1>10. CASE RefreshGranted
  <2>1. tokenData.epoch < call.session.epoch /\ call.session.epoch <= service.current.epoch
    BY <1>10 DEF RefreshGranted
  <2>2. proc = "up" /\ faults["disk"] = 0 /\ faults["stray"] = 0 =>
          \A i \in 1..Len(file) : file[i].epoch <= call.session.epoch
    BY <2>1, <1>types
  <2> QED
    BY <1>10, <2>1, <2>2 DEF RefreshGranted, NoCall
<1>11. CASE RefreshDenied
  BY <1>11 DEF RefreshDenied, NoCall
<1>12. CASE saveTokenData
  <2>1. tokenData.size \in Nat \ {0}
    BY <1>types, SessionSize
  <2>2. Holds(file', tokenData) /\ file' \in Seq(Session)
    BY <1>12, <2>1, <1>types, WriteThenRead, OverwriteSession DEF saveTokenData
  <2>3. file'[1] = tokenData
    BY <2>2, <1>types, HoldsFirst
  <2>4. \A i \in 1..Len(file') : file'[i] = tokenData \/ (i \in 1..Len(file) /\ file'[i] = file[i])
    BY <1>12, <2>1, <1>types, OverwriteCells DEF saveTokenData
  <2>5. UNCHANGED <<proc, tokenData, call, service, faults>> /\ proc = "up"
    BY <1>12 DEF saveTokenData
  <2>6. \A i \in 1..Len(file') : file'[i].epoch <= service.current.epoch
    BY <2>4, <2>5
  <2>7. faults["disk"] = 0 /\ faults["stray"] = 0 =>
          \A i \in 1..Len(file') : file'[i].epoch <= tokenData.epoch
    BY <2>4, <2>5, <1>types
  <2> QED
    BY <2>3, <2>5, <2>6, <2>7
<1>13. CASE RefreshCallFails
  <2>1. /\ faults'["disk"] = 0 => faults["disk"] = 0
        /\ faults'["stray"] = 0 => faults["stray"] = 0
    BY <1>13, <1>fault DEF RefreshCallFails, FaultKind
  <2> QED
    BY <1>13, <2>1 DEF RefreshCallFails, NoCall
<1>14. CASE RefreshStray
  <2>1. faults'["stray"] # 0
    BY <1>14, <1>disk, FaultType DEF RefreshStray
  <2>2. tokenData'.epoch = 0
    BY <1>14 DEF RefreshStray, Blank
  <2> QED
    BY <1>14, <2>1, <2>2, <1>types DEF RefreshStray, NoCall
<1>15. CASE SaveFails
  <2>1. faults'["disk"] # 0
    BY <1>15, <1>disk, FaultType DEF SaveFails
  <2>2. PICK n \in 0..(tokenData.size - 1) : file' = Overwrite(file, tokenData, n)
    BY <1>15 DEF SaveFails
  <2>3. n \in Nat
    BY <2>2, <1>types, SessionSize
  <2>4. \A i \in 1..Len(file') : file'[i] = tokenData \/ (i \in 1..Len(file) /\ file'[i] = file[i])
    BY <2>2, <2>3, <1>types, OverwriteCells
  <2> QED
    BY <1>15, <2>1, <2>4, <1>types DEF SaveFails
<1>16. CASE AnswerCall
  <2>1. CASE \E n \in Sizes :
               /\ service' = Rotated(n)
               /\ call' = [state |-> "granted", session |-> Rotated(n).current]
    <3>1. PICK n \in Sizes :
            /\ service' = Rotated(n)
            /\ call' = [state |-> "granted", session |-> Rotated(n).current]
      BY <2>1
    <3>2. service'.current.epoch = service.current.epoch + 1
      BY <3>1, RotatedType
    <3>3. call'.session.epoch = service'.current.epoch
      BY <3>1
    <3>4. proc = "up"
      BY <1>16 DEF AnswerCall, TypeOK
    <3> QED
      BY <1>16, <3>2, <3>3, <3>4, <1>types DEF AnswerCall
  <2>2. CASE call' = [call EXCEPT !.state = "denied"] /\ UNCHANGED service
    <3>1. call'.state # "granted"
      BY <2>2 DEF TypeOK
    <3> QED
      BY <1>16, <2>2, <3>1 DEF AnswerCall
  <2> QED
    BY <1>16, <2>1, <2>2 DEF AnswerCall
<1>17. CASE AnswerStray
  <2>1. service'.current.epoch \in {service.current.epoch, service.current.epoch + 1}
    BY <1>17, RotatedType DEF AnswerStray
  <2>2. UNCHANGED <<proc, tokenData, call, file, faults>>
    BY <1>17 DEF AnswerStray
  <2>3. service.current.epoch <= service'.current.epoch /\ service'.current.epoch \in Nat
    BY <2>1, <1>types
  <2>4. \A e \in Nat : e <= service.current.epoch => e <= service'.current.epoch
    BY <2>3, <1>types
  <2> QED
    BY <2>2, <2>4, <1>types
<1>18. CASE Tick
  BY <1>18 DEF Tick
<1>19. CASE UNCHANGED vars
  BY <1>19 DEF vars
<1> QED
  BY <1>1, <1>2, <1>3, <1>4, <1>5, <1>6, <1>7, <1>8, <1>9, <1>10, <1>11, <1>12,
     <1>13, <1>15, <1>16, <1>17, <1>18, <1>19, <1>14 DEF Next, Refresher

(* Service, memory and file are ordered: none holds a session newer than   *)
(* the one before it.                                                      *)
THEOREM EpochsOrdered == Spec => []EpochOrder
<1>1. EpochInv => EpochOrder
  BY DEF EpochInv
<1> QED
  BY <1>1, DiskInvInit, DiskInvStep, EpochInvInit, EpochInvStep, TypeCorrect, PTL DEF Spec

(* While the process lives, what replaces the session in memory is newer,  *)
(* but for a stray answer.                                                 *)
THEOREM MemoryAdvances == Spec => MemoryOnlyAdvances
<1>1. ASSUME TypeOK, EpochOrder, Next
      PROVE  proc = "up" /\ proc' = "up" /\ tokenData' # tokenData
               => tokenData'.epoch > tokenData.epoch \/ faults'["stray"] > faults["stray"]
  <2> SUFFICES ASSUME proc = "up", proc' = "up", tokenData' # tokenData
               PROVE  tokenData'.epoch > tokenData.epoch \/ faults'["stray"] > faults["stray"]
    OBVIOUS
  <2> USE <1>1
  <2>1. RefreshGranted \/ RefreshStray
    BY DEF Next, Refresher, Start, StartFails, Interrupt, Crash, LoopReturns, ArmTimer,
           RefreshTokenExpired, TimerCancelled, TimerFires, RefreshDenied,
           saveTokenData, RefreshCallFails, SaveFails, AnswerCall, AnswerStray, Tick
  <2>2. tokenData.epoch \in Nat /\ call.session.epoch \in Nat
    BY DEF TypeOK, Session
  <2>3. CASE RefreshGranted
    BY <2>2, <2>3 DEF RefreshGranted, EpochOrder
  <2>4. CASE RefreshStray
    BY <2>4 DEF RefreshStray, Fault, TypeOK, FaultKind
  <2> QED
    BY <2>1, <2>3, <2>4
<1> QED
  BY <1>1, TypeCorrect, EpochsOrdered, PTL DEF Spec, MemoryOnlyAdvances

-----------------------------------------------------------------------------
(* A session survives a crash only through the file, and a request left    *)
(* behind would rotate it behind the back of the next process.             *)
NoFault == \A k \in FaultKind : faults[k] = 0

FileIsCurrent == proc # "up" => Holds(file, service.current)

(* SessionCurrent without its choice. *)
UpIsCurrent ==
  proc = "up" => IF call.state = "granted" THEN call.session = service.current
                                           ELSE tokenData = service.current

CurrentInv == NoFault => stray = {} /\ FileIsCurrent /\ UpIsCurrent

LEMMA FaultShows ==
  ASSUME TypeOK, NEW k \in FaultKind, Fault(k)
  PROVE  ~ NoFault'
BY FaultType DEF NoFault

LEMMA CurrentInvInit == Init => CurrentInv
<1> SUFFICES ASSUME Init PROVE CurrentInv
  OBVIOUS
<1>1. Holds(file, service.current)
  BY InitialSession, InitialFile DEF Init
<1> QED
  BY <1>1 DEF Init, CurrentInv, FileIsCurrent, UpIsCurrent

(* With no fault so far and no refresh under way, the file yields the      *)
(* service's session: it can take over from the memory.                    *)
LEMMA FileCanTakeOver ==
  ASSUME TypeOK, DiskInv, CurrentInv, NoFault, proc = "up", pc \notin {"await", "save"}
  PROVE  Holds(file, service.current)
<1>1. "disk" \in FaultKind
  BY DEF FaultKind
<1>2. Holds(file, tokenData)
  BY <1>1 DEF DiskInv, DiskMirrorsMemory, NoFault
<1>3. call.state = "none"
  BY DEF TypeOK
<1>4. tokenData = service.current
  BY <1>3 DEF CurrentInv, UpIsCurrent
<1> QED
  BY <1>2, <1>4

LEMMA CurrentInvStep == TypeOK /\ DiskInv /\ CurrentInv /\ [Next]_vars => CurrentInv'
<1> SUFFICES ASSUME TypeOK, DiskInv, CurrentInv, [Next]_vars, NoFault'
             PROVE  (stray = {} /\ FileIsCurrent /\ UpIsCurrent)'
  BY DEF CurrentInv
<1>nofault. ASSUME NEW k \in FaultKind, Fault(k)
            PROVE  FALSE
  BY <1>nofault, FaultShows
<1>kinds. \A k \in {"net", "stray", "disk", "midCrash"} : k \in FaultKind
  BY DEF FaultKind
<1>same. faults' = faults
  BY <1>nofault, <1>kinds
     DEF Next, Refresher, Start, StartFails, Interrupt, Crash, LoopReturns, ArmTimer,
         RefreshTokenExpired, TimerCancelled, TimerFires, RefreshGranted, RefreshDenied,
         saveTokenData, RefreshCallFails, RefreshStray, SaveFails, AnswerCall, AnswerStray, Tick, vars
<1>now. NoFault /\ stray = {} /\ FileIsCurrent /\ UpIsCurrent
  BY <1>same DEF CurrentInv, NoFault
<1> USE DEF FileIsCurrent, UpIsCurrent
<1>1. CASE Start
  <2>1. proc # "up" /\ Holds(file, service.current)
    BY <1>1, <1>now DEF Start
  <2>2. tokenData' = service.current
    BY <1>1, <2>1 DEF Start, Holds
  <2> QED
    BY <1>1, <2>2, <1>now DEF Start, NoCall
<1>2. CASE StartFails
  BY <1>2, <1>now DEF StartFails
<1>3. CASE Interrupt
  BY <1>3, <1>now DEF Interrupt
<1>4. CASE Crash
  <2>1. proc = "up" /\ pc \notin {"await", "save"}
    BY <1>4, <1>nofault, <1>kinds DEF Crash
  <2>2. Holds(file, service.current)
    BY <2>1, <1>now, FileCanTakeOver
  <2>3. call.state = "none"
    BY <2>1 DEF TypeOK
  <2> QED
    BY <1>4, <2>2, <2>3, <1>now DEF Crash, LeaveBehind
<1>5. CASE LoopReturns
  BY <1>5, <1>now DEF LoopReturns
<1>6. CASE ArmTimer
  BY <1>6, <1>now DEF ArmTimer
<1>7. CASE RefreshTokenExpired
  <2>1. Holds(file, service.current)
    BY <1>7, <1>now, FileCanTakeOver DEF RefreshTokenExpired
  <2> QED
    BY <1>7, <2>1, <1>now DEF RefreshTokenExpired
<1>8. CASE TimerCancelled
  BY <1>8, <1>now DEF TimerCancelled
<1>9. CASE TimerFires
  <2>1. call.state = "none"
    BY <1>9 DEF TimerFires, TypeOK
  <2> QED
    BY <1>9, <2>1, <1>now DEF TimerFires
<1>10. CASE RefreshGranted
  BY <1>10, <1>now DEF RefreshGranted, NoCall
<1>11. CASE RefreshDenied
  BY <1>11, <1>now DEF RefreshDenied, NoCall
<1>12. CASE saveTokenData
  BY <1>12, <1>now DEF saveTokenData
<1>13. CASE RefreshCallFails
  BY <1>13, <1>nofault, <1>kinds DEF RefreshCallFails
<1>14. CASE RefreshStray
  BY <1>14, <1>nofault, <1>kinds DEF RefreshStray
<1>15. CASE SaveFails
  BY <1>15, <1>nofault, <1>kinds DEF SaveFails
<1>16. CASE AnswerCall
  BY <1>16, <1>now DEF AnswerCall, TypeOK
<1>17. CASE AnswerStray
  BY <1>17, <1>now DEF AnswerStray
<1>18. CASE Tick
  BY <1>18, <1>now DEF Tick
<1>19. CASE UNCHANGED vars
  BY <1>19, <1>now DEF vars
<1> QED
  BY <1>1, <1>2, <1>3, <1>4, <1>5, <1>6, <1>7, <1>8, <1>9, <1>10, <1>11, <1>12,
     <1>13, <1>15, <1>16, <1>17, <1>18, <1>19, <1>14 DEF Next, Refresher

(* Without a fault the process holds the session the service holds, or is  *)
(* about to receive it, over any number of interrupts, kills and restarts. *)
THEOREM HoldsCurrentSession == Spec => []SessionCurrent
<1>1. TypeOK /\ CurrentInv => SessionCurrent
  BY DEF TypeOK, CurrentInv, NoFault, UpIsCurrent, SessionCurrent
<1> QED
  BY <1>1, DiskInvInit, DiskInvStep, CurrentInvInit, CurrentInvStep, TypeCorrect, PTL DEF Spec

-----------------------------------------------------------------------------
(* The implementation of SessionStore.  A save that replaces the service's *)
(* session in the file by another one is the only step that could lose a   *)
(* saved session; it does so after a stray answer only, because otherwise  *)
(* the session in memory is the one the file has, or newer.                *)
Saved == Holds(file, service.current)

AtHand ==
  \/ proc = "up" /\ tokenData = service.current
  \/ call = [state |-> "granted", session |-> service.current]

StoreInv ==
  /\ proc = "up" /\ Saved /\ faults["stray"] = 0 => tokenData = service.current
  /\ service.current.epoch # 0

LEMMA CustodyCases ==
  /\ Saved => Custody = "saved"
  /\ ~ Saved /\ AtHand => Custody = "unsaved"
  /\ ~ Saved /\ ~ AtHand => Custody = "lost"
BY DEF Saved, AtHand, Custody

(* A file yields no session but one of its cells: never one that is newer  *)
(* than all of them.                                                       *)
LEMMA NewIsNotSaved ==
  ASSUME NEW f \in Seq(Session), NEW s \in Session,
         \A i \in 1..Len(f) : f[i].epoch < s.epoch
  PROVE  ~ Holds(f, s)
<1> SUFFICES ASSUME Holds(f, s) PROVE FALSE
  OBVIOUS
<1>1. f # << >> /\ f[1] = s
  BY HoldsFirst
<1>2. 1 \in 1..Len(f) /\ s.epoch \in Nat
  BY <1>1 DEF Session
<1> QED
  BY <1>1, <1>2

(* After a cut write the file yields what it did before or, if anything,   *)
(* the session written; and it still yields that if it did.                *)
LEMMA CutWrite ==
  ASSUME NEW f \in Seq(Session), NEW s \in Session, NEW n \in 0..(s.size - 1), NEW t \in Session
  PROVE  /\ Holds(Overwrite(f, s, n), t) => Holds(f, t) \/ t = s
         /\ Holds(f, s) => Holds(Overwrite(f, s, n), s)
<1> DEFINE g == Overwrite(f, s, n)
           m == Len(g)
<1>1. s.size \in Nat /\ s.size # 0 /\ n \in Nat /\ n < s.size /\ t.size \in Nat \ {0}
  BY SessionSize
<1>2. /\ g \in Seq(Session)
      /\ m = IF n > Len(f) THEN n ELSE Len(f)
      /\ \A i \in 1..m : g[i] = IF i <= n THEN s ELSE f[i]
  BY <1>1, OverwriteType
<1> HIDE DEF g, m
<1>g. m = Len(g) /\ Len(f) \in Nat /\ m \in Nat
  BY <1>2 DEF m
<1>3. ASSUME Holds(g, t) PROVE Holds(f, t) \/ t = s
  <2>1. g # << >> /\ g[1] = t
    BY <1>2, <1>3, HoldsFirst
  <2>2. 1 \in 1..m
    BY <1>2, <1>g, <2>1
  <2>3. CASE n = 0
    <3>1. m = Len(f)
      BY <1>2, <1>g, <2>3
    <3>2. \A i \in 1..Len(f) : g[i] = f[i]
      BY <1>2, <2>3, <3>1
    <3>3. StartsWith(g, t)
      BY <1>1, <1>2, <1>3, HoldsIffStarts
    <3>4. StartsWith(f, t)
      BY <1>1, <1>g, <3>1, <3>2, <3>3 DEF StartsWith
    <3>5. f # << >> /\ f[1] = t
      BY <2>1, <2>2, <3>1, <3>2
    <3> QED
      BY <1>1, <3>4, <3>5, HoldsIffStarts
  <2>4. CASE n # 0
    BY <1>1, <1>2, <2>1, <2>2, <2>4
  <2> QED
    BY <2>3, <2>4
<1>4. ASSUME Holds(f, s) PROVE Holds(g, s)
  <2>1. f # << >> /\ f[1] = s /\ StartsWith(f, s)
    BY <1>1, <1>4, HoldsIffStarts
  <2>2. s.size <= Len(f) /\ \A i \in 1..s.size : f[i] = s
    BY <2>1 DEF StartsWith
  <2>3. m = Len(f)
    BY <1>1, <1>2, <1>g, <2>2
  <2>4. \A i \in 1..s.size : i \in 1..m /\ g[i] = s
    BY <1>1, <1>2, <1>g, <2>2, <2>3
  <2>5. 1 \in 1..m /\ g[1] = s
    BY <1>1, <2>4
  <2>6. g # << >>
    BY <1>g, <2>5
  <2>7. StartsWith(g, s)
    BY <1>g, <2>2, <2>3, <2>4 DEF StartsWith
  <2> QED
    BY <1>1, <1>2, <2>5, <2>6, <2>7, HoldsIffStarts
<1> QED
  BY <1>3, <1>4 DEF g

(* The file holds one session at most. *)
LEMMA HoldsOne ==
  ASSUME NEW f, NEW s, NEW t, Holds(f, s), Holds(f, t)
  PROVE  s = t
BY DEF Holds

(* A rotation makes a session that neither the file nor the memory nor an  *)
(* answer under way has.                                                   *)
LEMMA RotationIsNew ==
  ASSUME TypeOK, EpochOrder, NEW n \in Sizes, service' = Rotated(n), file' = file
  PROVE  /\ ~ Saved'
         /\ service'.current.epoch = service.current.epoch + 1
         /\ service'.current.epoch \in Nat
         /\ proc = "up" => tokenData # service'.current
         /\ call # [state |-> "granted", session |-> service'.current]
<1>1. /\ service'.current \in Session
      /\ service'.current.epoch = service.current.epoch + 1
  BY RotatedType
<1>2. /\ service.current.epoch \in Nat /\ file \in Seq(Session)
      /\ tokenData.epoch \in Nat /\ call.session.epoch \in Nat
      /\ \A i \in 1..Len(file) : file[i].epoch \in Nat
  <2>1. /\ file \in Seq(Session) /\ tokenData \in Session
        /\ service.current \in Session /\ call.session \in Session
    BY DEF TypeOK
  <2>2. \A i \in 1..Len(file) : file[i] \in Session
    BY <2>1
  <2>3. \A s \in Session : s.epoch \in Nat
    BY DEF Session
  <2> QED
    BY <2>1, <2>2, <2>3
<1>3. \A i \in 1..Len(file) : file[i].epoch < service'.current.epoch
  BY <1>1, <1>2 DEF EpochOrder
<1>4. ~ Holds(file, service'.current)
  BY <1>1, <1>2, <1>3, NewIsNotSaved
<1>5. proc = "up" => tokenData # service'.current
  BY <1>1, <1>2 DEF EpochOrder
<1>6. call # [state |-> "granted", session |-> service'.current]
  BY <1>1, <1>2 DEF EpochOrder
<1> QED
  BY <1>1, <1>2, <1>4, <1>5, <1>6 DEF Saved

LEMMA StoreInvInit == Init => StoreInv
<1> SUFFICES ASSUME Init PROVE StoreInv
  OBVIOUS
<1>1. service.current.epoch = 1 /\ proc = "down"
  BY DEF Init, Issue
<1> QED
  BY <1>1 DEF StoreInv

LEMMA StoreInvStep ==
  TypeOK /\ EpochOrder /\ StoreInv /\ [Next]_vars => StoreInv'
<1> SUFFICES ASSUME TypeOK, EpochOrder, StoreInv, [Next]_vars PROVE StoreInv'
  OBVIOUS
<1> USE DEF StoreInv, Saved
<1>types. /\ file \in Seq(Session) /\ tokenData \in Session /\ service.current \in Session
          /\ tokenData.epoch \in Nat /\ service.current.epoch \in Nat /\ call.session.epoch \in Nat
          /\ tokenData.size \in Nat \ {0}
  BY DEF TypeOK, Session
<1>fault. ASSUME NEW k \in FaultKind, Fault(k)
          PROVE  faults'["stray"] = 0 => faults["stray"] = 0
  BY <1>fault, FaultType DEF FaultKind
<1>1. CASE Start
  BY <1>1 DEF Start, Holds
<1>2. CASE StartFails
  BY <1>2 DEF StartFails
<1>3. CASE Crash \/ RefreshTokenExpired
  BY <1>3 DEF Crash, RefreshTokenExpired
<1>4. CASE RefreshGranted
  <2>1. tokenData.epoch < call.session.epoch /\ call.session.epoch <= service.current.epoch
    BY <1>4 DEF RefreshGranted, EpochOrder
  <2>2. tokenData # service.current
    BY <2>1, <1>types
  <2> QED
    BY <1>4, <2>2 DEF RefreshGranted
<1>5. CASE RefreshCallFails
  <2>1. faults'["stray"] = 0 => faults["stray"] = 0
    BY <1>5, <1>fault DEF RefreshCallFails, FaultKind
  <2> QED
    BY <1>5, <2>1 DEF RefreshCallFails
<1>6. CASE RefreshStray
  <2>1. faults'["stray"] # 0
    BY <1>6, FaultType DEF RefreshStray, FaultKind
  <2> QED
    BY <1>6, <2>1 DEF RefreshStray
<1>7. CASE saveTokenData
  <2>1. Holds(file', tokenData)
    BY <1>7, <1>types, WriteThenRead DEF saveTokenData
  <2> QED
    BY <1>7, <2>1, HoldsOne DEF saveTokenData
<1>8. CASE SaveFails
  <2>1. faults'["stray"] = 0 => faults["stray"] = 0
    BY <1>8, <1>fault DEF SaveFails, FaultKind
  <2>2. Holds(file', service.current) => Holds(file, service.current) \/ service.current = tokenData
    BY <1>8, <1>types, CutWrite DEF SaveFails
  <2> QED
    BY <1>8, <2>1, <2>2 DEF SaveFails
<1>9. CASE AnswerCall \/ AnswerStray
  <2>1. CASE \E n \in Sizes : service' = Rotated(n)
    <3>1. file' = file
      BY <1>9 DEF AnswerCall, AnswerStray
    <3>2. ~ Saved' /\ service'.current.epoch = service.current.epoch + 1
      BY <2>1, <3>1, RotationIsNew
    <3> QED
      BY <3>2, <1>types
  <2>2. CASE service' = service
    BY <1>9, <2>2 DEF AnswerCall, AnswerStray
  <2> QED
    BY <1>9, <2>1, <2>2 DEF AnswerCall, AnswerStray
<1>10. CASE UNCHANGED <<proc, tokenData, file, service, faults>>
  BY <1>10
<1> QED
  BY <1>1, <1>2, <1>3, <1>4, <1>5, <1>6, <1>7, <1>8, <1>9, <1>10
     DEF Next, Refresher, Interrupt, LoopReturns, ArmTimer, TimerCancelled, TimerFires,
         RefreshDenied, Tick, vars

(* The faults only ever add up. *)
LEMMA HurtGrows ==
  ASSUME TypeOK, faults' = faults \/ \E k \in FaultKind : Fault(k)
  PROVE  Hurt \subseteq Hurt'
<1>1. CASE faults' = faults
  BY <1>1 DEF Hurt
<1>2. ASSUME NEW k \in FaultKind, Fault(k) PROVE Hurt \subseteq Hurt'
  <2>1. faults' \in [FaultKind -> Nat] /\ \A j \in FaultKind : faults'[j] = 0 => faults[j] = 0
    BY <1>2, FaultType
  <2>2. faults \in [FaultKind -> Nat]
    BY DEF TypeOK
  <2> QED
    BY <2>1, <2>2 DEF Hurt
<1> QED
  BY <1>1, <1>2

LEMMA FaultHurts ==
  ASSUME TypeOK, NEW k \in FaultKind, Fault(k)
  PROVE  k \in Hurt' /\ Hurt \subseteq Hurt'
<1>1. faults' \in [FaultKind -> Nat] /\ faults'[k] # 0
  BY FaultType
<1> QED
  BY <1>1, HurtGrows DEF Hurt

(* The steps of SessionStore in which no session is issued. *)
LEMMA StoreStep ==
  ASSUME service' = service, Hurt \subseteq Hurt',
         \/ Custody' = Custody
         \/ Custody = "unsaved" /\ Custody' = "saved"
         \/ Custody = "unsaved" /\ Custody' = "lost" /\ Hurt' # {}
         \/ Custody = "saved" /\ Custody' = "lost" /\ "stray" \in Hurt'
         \/ Custody = "lost" /\ Custody' = "unsaved" /\ "disk" \in Hurt
  PROVE  Store!Next
<1>1. service'.current.epoch = service.current.epoch
  OBVIOUS
<1> QED
  BY <1>1 DEF Store!Next, Store!Hurt, Store!Save, Store!Lose, Store!Destroy, Store!Salvage, Store!Move

(* A process that ends takes what is in its memory and on the way to it    *)
(* along.  In the middle of a refresh that is a fault; at any other time   *)
(* the file has it, unless a save has failed before.                       *)
LEMMA EndStep ==
  ASSUME TypeOK, DiskInv, proc = "up", proc' # "up", Gone, UNCHANGED <<file, service>>,
         Hurt \subseteq Hurt', pc \in {"await", "save"} => Hurt' # {}
  PROVE  Store!Next
<1>1. Saved' <=> Saved
  BY DEF Saved
<1>2. ~ AtHand'
  BY DEF AtHand, Gone, NoCall
<1>3. CASE Saved
  BY <1>1, <1>3, CustodyCases, StoreStep DEF Custody, Saved
<1>4. CASE ~ Saved /\ AtHand
  <2>1. CASE pc \in {"await", "save"}
    BY <1>1, <1>2, <1>4, <2>1, CustodyCases, StoreStep DEF Custody, Saved, AtHand
  <2>2. CASE pc \notin {"await", "save"}
    <3>1. tokenData = service.current
      BY <1>4, <2>2 DEF AtHand, TypeOK
    <3>2. faults["disk"] # 0
      BY <1>4, <2>2, <3>1 DEF Saved, DiskInv, DiskMirrorsMemory
    <3>3. Hurt' # {}
      BY <3>2 DEF Hurt, TypeOK, FaultKind
    <3> QED
      BY <1>1, <1>2, <1>4, <3>3, CustodyCases, StoreStep DEF Custody, Saved, AtHand
  <2> QED
    BY <2>1, <2>2
<1>5. CASE ~ Saved /\ ~ AtHand
  BY <1>1, <1>2, <1>5, CustodyCases, StoreStep DEF Custody, Saved, AtHand
<1> QED
  BY <1>3, <1>4, <1>5

LEMMA StartStoreStep ==
  ASSUME TypeOK, DiskInv, Start
  PROVE  Store!Next
<1>1. Saved' = Saved /\ ~ AtHand /\ Hurt' = Hurt /\ service' = service
  BY DEF Start, Saved, AtHand, Hurt, TypeOK
<1>2. CASE Saved
  BY <1>1, <1>2, StoreStep DEF Custody, Saved
<1>3. CASE ~ Saved /\ AtHand'
  <2>1. service.current \in Loadable(file)
    BY <1>3 DEF Start, AtHand, NoCall
  <2>2. DecodeFails(file)
    BY <1>3, <2>1 DEF Saved, Holds, Loadable
  <2>3. "disk" \in Hurt
    BY <2>2 DEF DiskInv, FileReadable, Hurt, FaultKind, TypeOK
  <2>4. Custody = "lost" /\ Custody' = "unsaved"
    BY <1>1, <1>3 DEF Custody, Saved, AtHand
  <2> QED
    BY <1>1, <2>3, <2>4, StoreStep
<1>4. CASE ~ Saved /\ ~ AtHand'
  BY <1>1, <1>4, StoreStep DEF Custody, Saved, AtHand
<1> QED
  BY <1>2, <1>3, <1>4

LEMMA AnswerStoreStep ==
  ASSUME TypeOK, EpochOrder, CurrentInv, AnswerCall \/ AnswerStray
  PROVE  [Store!Next]_<<service.current.epoch, Custody, Hurt>>
<1>1. Hurt' = Hurt /\ UNCHANGED <<proc, tokenData, file>>
  BY DEF AnswerCall, AnswerStray, Hurt
<1>2. ASSUME NEW n \in Sizes, service' = Rotated(n)
      PROVE  /\ ~ Saved' /\ service'.current.epoch = service.current.epoch + 1
             /\ proc = "up" => tokenData # service'.current
             /\ call # [state |-> "granted", session |-> service'.current]
  BY <1>1, <1>2, RotationIsNew
<1>3. CASE AnswerCall
  <2>1. CASE \E n \in Sizes :
               /\ service' = Rotated(n)
               /\ call' = [state |-> "granted", session |-> Rotated(n).current]
    <3>1. PICK n \in Sizes :
            /\ service' = Rotated(n)
            /\ call' = [state |-> "granted", session |-> Rotated(n).current]
      BY <2>1
    <3>2. ~ Saved' /\ service'.current.epoch = service.current.epoch + 1
      BY <1>2, <3>1
    <3>3. AtHand'
      BY <3>1 DEF AtHand
    <3>4. Custody' = "unsaved"
      BY <3>2, <3>3 DEF Custody, Saved, AtHand
    <3> QED
      BY <1>1, <3>2, <3>4 DEF Store!Next, Store!Renew
  <2>2. CASE call' = [call EXCEPT !.state = "denied"] /\ UNCHANGED service
    <3>1. call.state = "sent" /\ call'.state = "denied"
      BY <1>3, <2>2 DEF AnswerCall, TypeOK
    <3>2. Custody' = Custody
      BY <1>1, <2>2, <3>1 DEF Custody
    <3> QED
      BY <1>1, <2>2, <3>2
  <2> QED
    BY <1>3, <2>1, <2>2 DEF AnswerCall
<1>4. CASE AnswerStray
  <2>1. stray # {} /\ call' = call
    BY <1>4 DEF AnswerStray
  <2>2. CASE \E n \in Sizes : service' = Rotated(n)
    <3>1. Hurt # {}
      BY <2>1 DEF CurrentInv, NoFault, Hurt, TypeOK
    <3>2. Custody' = "lost"
      BY <1>1, <1>2, <2>1, <2>2 DEF Custody, Saved
    <3>3. service'.current.epoch = service.current.epoch + 1
      BY <1>2, <2>2
    <3> QED
      BY <1>1, <3>1, <3>2, <3>3 DEF Store!Next, Store!RenewUnseen
  <2>3. CASE service' = service
    <3>1. Custody' = Custody
      BY <1>1, <2>1, <2>3 DEF Custody
    <3> QED
      BY <1>1, <2>3, <3>1
  <2> QED
    BY <1>4, <2>2, <2>3 DEF AnswerStray
<1> QED
  BY <1>3, <1>4

LEMMA GrantedStoreStep ==
  ASSUME TypeOK, EpochOrder, RefreshGranted
  PROVE  Store!Next
<1>1. /\ proc = "up" /\ proc' = "up" /\ call.state = "granted" /\ tokenData' = call.session
      /\ call' = NoCall /\ UNCHANGED <<file, service, faults>>
  BY DEF RefreshGranted
<1>2. tokenData.epoch < call.session.epoch /\ call.session.epoch <= service.current.epoch
  BY <1>1 DEF EpochOrder
<1>3. tokenData # service.current
  BY <1>2 DEF TypeOK, Session
<1>4. AtHand' <=> AtHand
  <2>1. call \in [state : {"none", "sent", "granted", "denied"}, session : Session]
    BY DEF TypeOK
  <2>2. call = [state |-> "granted", session |-> call.session]
    BY <1>1, <2>1
  <2> QED
    BY <1>1, <1>3, <2>2 DEF AtHand, NoCall
<1>5. Custody' = Custody /\ Hurt' = Hurt
  BY <1>1, <1>4 DEF Custody, AtHand, Hurt
<1> QED
  BY <1>1, <1>5, StoreStep

LEMMA FailedStoreStep ==
  ASSUME TypeOK, StoreInv, RefreshCallFails \/ RefreshStray
  PROVE  Store!Next
<1>1. UNCHANGED <<proc, file, service>> /\ call' = NoCall
  BY DEF RefreshCallFails, RefreshStray
<1>2. Hurt \subseteq Hurt' /\ Hurt' # {}
  BY FaultHurts DEF RefreshCallFails, RefreshStray, FaultKind
<1>3. AtHand' => AtHand
  <2>1. CASE RefreshCallFails
    BY <1>1, <2>1 DEF RefreshCallFails, AtHand, NoCall
  <2>2. CASE RefreshStray
    <3>1. PICK n \in Sizes : tokenData' = [Blank EXCEPT !.size = n]
      BY <2>2 DEF RefreshStray
    <3>2. tokenData'.epoch = 0
      BY <3>1 DEF Blank
    <3> QED
      BY <1>1, <3>2 DEF AtHand, NoCall, StoreInv
  <2> QED
    BY <2>1, <2>2
<1>4. Saved' = Saved
  BY <1>1 DEF Saved
<1>5. Custody' = Custody \/ (Custody = "unsaved" /\ Custody' = "lost")
  BY <1>3, <1>4 DEF Custody, Saved, AtHand
<1> QED
  BY <1>1, <1>2, <1>5, StoreStep

LEMMA SaveStoreStep ==
  ASSUME TypeOK, StoreInv, saveTokenData
  PROVE  Store!Next
<1>1. /\ proc = "up" /\ pc = "save" /\ call.state = "none"
      /\ UNCHANGED <<proc, tokenData, call, service, faults>>
  BY DEF saveTokenData, TypeOK
<1>2. tokenData \in Session /\ file \in Seq(Session) /\ tokenData.size \in Nat \ {0}
  BY DEF TypeOK, Session
<1>3. Holds(file', tokenData)
  BY <1>2, WriteThenRead DEF saveTokenData
<1>4. Hurt' = Hurt
  BY <1>1 DEF Hurt
<1>5. CASE tokenData = service.current
  <2>1. Custody' = "saved" /\ Custody \in {"saved", "unsaved"}
    BY <1>1, <1>3, <1>5 DEF Custody
  <2> QED
    BY <1>1, <1>4, <2>1, StoreStep
<1>6. CASE tokenData # service.current
  <2>1. ~ Holds(file', service.current)
    BY <1>3, <1>6, HoldsOne
  <2>2. Custody' = "lost" /\ Custody \in {"saved", "lost"}
    BY <1>1, <1>6, <2>1 DEF Custody
  <2>3. Custody = "saved" => "stray" \in Hurt'
    <3> SUFFICES ASSUME Custody = "saved" PROVE "stray" \in Hurt'
      OBVIOUS
    <3>1. Saved
      BY <1>1, <1>6 DEF Custody, Saved
    <3> QED
      BY <1>1, <1>6, <3>1 DEF StoreInv, Hurt, FaultKind, TypeOK
  <2> QED
    BY <1>1, <1>4, <2>2, <2>3, StoreStep
<1> QED
  BY <1>5, <1>6

LEMMA SaveFailsStoreStep ==
  ASSUME TypeOK, StoreInv, SaveFails
  PROVE  Store!Next
<1>1. /\ proc = "up" /\ pc = "save" /\ call.state = "none"
      /\ UNCHANGED <<proc, tokenData, call, service>>
  BY DEF SaveFails, TypeOK
<1>2. tokenData \in Session /\ file \in Seq(Session) /\ service.current \in Session
  BY DEF TypeOK
<1>3. PICK n \in 0..(tokenData.size - 1) : file' = Overwrite(file, tokenData, n)
  BY DEF SaveFails
<1>4. /\ Holds(file', service.current) => Holds(file, service.current) \/ service.current = tokenData
      /\ Holds(file, tokenData) => Holds(file', tokenData)
  BY <1>2, <1>3, CutWrite
<1>5. Hurt \subseteq Hurt'
  BY FaultHurts DEF SaveFails, FaultKind
<1>6. CASE tokenData = service.current
  <2>1. /\ Custody \in {"saved", "unsaved"} /\ Custody' \in {"saved", "unsaved"}
        /\ Custody = "saved" => Custody' = "saved"
    BY <1>1, <1>4, <1>6 DEF Custody
  <2> QED
    BY <1>1, <1>5, <2>1, StoreStep
<1>7. CASE tokenData # service.current
  <2>1. /\ Custody \in {"saved", "lost"} /\ Custody' \in {"saved", "lost"}
        /\ Custody = "lost" => Custody' = "lost"
        /\ Custody = "saved" => Saved
    BY <1>1, <1>4, <1>7 DEF Custody, Saved
  <2>2. Custody = "saved" => "stray" \in Hurt'
    <3> SUFFICES ASSUME Custody = "saved" PROVE "stray" \in Hurt'
      OBVIOUS
    <3>1. faults["stray"] # 0
      BY <1>1, <1>7, <2>1 DEF StoreInv
    <3>2. "stray" \in FaultKind /\ faults["stray"] \in Nat
      BY DEF FaultKind, TypeOK
    <3>3. "stray" \in Hurt
      BY <3>1, <3>2 DEF Hurt
    <3> QED
      BY <1>5, <3>3
  <2> QED
    BY <1>1, <1>5, <2>1, <2>2, StoreStep
<1> QED
  BY <1>6, <1>7

(* The steps that move no session. *)
LEMMA QuietStoreStep ==
  ASSUME service' = service, file' = file, Hurt \subseteq Hurt',
         AtHand' <=> AtHand
  PROVE  Store!Next
<1>1. Custody' = Custody
  BY DEF Custody, AtHand
<1> QED
  BY <1>1, StoreStep

LEMMA StoreInit == Init => Store!Init
<1> SUFFICES ASSUME Init PROVE Store!Init
  OBVIOUS
<1>1. PICK n \in Sizes : service = [current |-> Issue(1, n), graceEnd |-> 0]
  BY DEF Init
<1>2. service.current.epoch = 1
  BY <1>1 DEF Issue
<1>3. Holds(file, service.current)
  BY InitialSession, InitialFile DEF Init
<1>4. Custody = "saved"
  BY <1>3 DEF Custody
<1>5. Hurt = {}
  BY DEF Init, Hurt
<1> QED
  BY <1>2, <1>4, <1>5 DEF Store!Init

LEMMA StoreNext ==
  TypeOK /\ DiskInv /\ EpochOrder /\ CurrentInv /\ StoreInv /\ [Next]_vars
    => [Store!Next]_<<service.current.epoch, Custody, Hurt>>
<1> SUFFICES ASSUME TypeOK, DiskInv, EpochOrder, CurrentInv, StoreInv, [Next]_vars
             PROVE  [Store!Next]_<<service.current.epoch, Custody, Hurt>>
  OBVIOUS
<1>kinds. \A k \in {"net", "stray", "disk", "midCrash"} : k \in FaultKind
  BY DEF FaultKind
<1>1. CASE Start
  BY <1>1, StartStoreStep
<1>2. CASE StartFails
  <2>1. Hurt \subseteq Hurt'
    BY <1>2, <1>kinds, HurtGrows DEF StartFails
  <2>2. AtHand' <=> AtHand
    BY <1>2 DEF StartFails, AtHand
  <2>3. service' = service /\ file' = file
    BY <1>2 DEF StartFails
  <2> QED
    BY <2>1, <2>2, <2>3, QuietStoreStep
<1>3. CASE Crash
  <2>1. CASE pc \in {"await", "save"}
    <3>1. Hurt \subseteq Hurt' /\ Hurt' # {}
      BY <1>3, <2>1, <1>kinds, FaultHurts DEF Crash
    <3> QED
      BY <1>3, <3>1, EndStep DEF Crash
  <2>2. CASE pc \notin {"await", "save"}
    <3>1. Hurt \subseteq Hurt'
      BY <1>3, <2>2, HurtGrows DEF Crash
    <3> QED
      BY <1>3, <2>2, <3>1, EndStep DEF Crash
  <2> QED
    BY <2>1, <2>2
<1>4. CASE RefreshTokenExpired
  <2>1. Hurt \subseteq Hurt'
    BY <1>4, HurtGrows DEF RefreshTokenExpired
  <2> QED
    BY <1>4, <2>1, EndStep DEF RefreshTokenExpired
<1>5. CASE AnswerCall \/ AnswerStray
  BY <1>5, AnswerStoreStep
<1>6. CASE RefreshGranted
  BY <1>6, GrantedStoreStep
<1>7. CASE RefreshCallFails \/ RefreshStray
  BY <1>7, FailedStoreStep
<1>8. CASE saveTokenData
  BY <1>8, SaveStoreStep
<1>9. CASE SaveFails
  BY <1>9, SaveFailsStoreStep
<1>10. CASE Interrupt \/ LoopReturns \/ ArmTimer \/ TimerCancelled \/ Tick
  <2>1. UNCHANGED <<proc, tokenData, call, file, service, faults>>
    BY <1>10 DEF Interrupt, LoopReturns, ArmTimer, TimerCancelled, Tick
  <2>2. Hurt \subseteq Hurt' /\ (AtHand' <=> AtHand)
    BY <2>1 DEF Hurt, AtHand
  <2> QED
    BY <2>1, <2>2, QuietStoreStep
<1>11. CASE TimerFires \/ RefreshDenied
  <2>1. /\ UNCHANGED <<proc, tokenData, file, service, faults>>
        /\ call.state # "granted" /\ call'.state # "granted"
    BY <1>11 DEF TimerFires, RefreshDenied, NoCall, TypeOK
  <2>2. Hurt \subseteq Hurt'
    BY <2>1 DEF Hurt
  <2>3. AtHand' <=> AtHand
    BY <2>1 DEF AtHand
  <2> QED
    BY <2>1, <2>2, <2>3, QuietStoreStep
<1>12. CASE UNCHANGED vars
  BY <1>12 DEF vars, Custody, Hurt
<1> QED
  BY <1>1, <1>2, <1>3, <1>4, <1>5, <1>6, <1>7, <1>8, <1>9, <1>10, <1>11, <1>12
     DEF Next, Refresher

(* The refresher implements SessionStore: it loses the service's session   *)
(* only to a fault, and one the file yields only to a stray answer.        *)
THEOREM ImplementsSessionStore == Spec => KeepsSession
<1>1. EpochInv => EpochOrder
  BY DEF EpochInv
<1> QED
  BY <1>1, DiskInvInit, DiskInvStep, EpochInvInit, EpochInvStep, CurrentInvInit, CurrentInvStep,
     StoreInvInit, StoreInvStep, StoreInit, StoreNext, TypeCorrect,
     PTL DEF Spec, KeepsSession, Store!Spec

-----------------------------------------------------------------------------
(* One process among others that use the same file and the same service,   *)
(* as long as no call is lost and every file access succeeds.              *)
SoundStep ==
  Start \/ Crash \/ Refresher \/ AnswerCall \/ AnswerStray \/ Tick

(* A session that the service has issued: not a later one than its current *)
(* session c, and the same if it is of the same epoch.                     *)
Issued(s, c) ==
  /\ s.epoch \in 1..c.epoch
  /\ s.epoch = c.epoch => s = c

(* At time t, by a clock of the machine, s has the margin left or less.    *)
Due(s, t) == \E skew \in Skews : s.authExp <= t + skew + Margin

SoundFile ==
  /\ ~ DecodeFails(file)
  /\ \A i \in 1..Len(file) : Issued(file[i], service.current)

SoundStray == \A s \in stray : Issued(s, service.current) /\ Due(s, now)

(* What the process has of the service is sound, and it refreshes when it  *)
(* has to.                                                                 *)
SoundProcess ==
  /\ proc = "up" => Issued(tokenData, service.current)
  /\ call.state # "none" => Issued(call.session, service.current)
  /\ proc = "up" /\ pc = "timer" => Due(tokenData, deadline)
  /\ call.state = "sent" => Due(call.session, now)

(* The service goes on to the next session, or stays. *)
ServiceGoesOn ==
  service' = service \/ \E n \in Sizes : service' = Rotated(n)

LEMMA IssuedStays ==
  ASSUME TypeOK, ServiceGoesOn, NEW s \in Session, Issued(s, service.current)
  PROVE  Issued(s, service'.current)
<1>1. CASE service' = service
  BY <1>1
<1>2. ASSUME NEW n \in Sizes, service' = Rotated(n) PROVE Issued(s, service'.current)
  <2>1. service.current.epoch \in Nat /\ service'.current.epoch = service.current.epoch + 1
    BY <1>2, RotatedType DEF TypeOK, Session
  <2>2. s.epoch \in Nat
    BY DEF Session
  <2> QED
    BY <2>1, <2>2 DEF Issued
<1> QED
  BY <1>1, <1>2 DEF ServiceGoesOn

LEMMA DueStays ==
  ASSUME NEW s \in Session, NEW t \in Nat, NEW u \in Nat, t <= u, Due(s, t)
  PROVE  Due(s, u)
<1>1. PICK skew \in Skews : s.authExp <= t + skew + Margin
  BY DEF Due
<1>2. skew \in Int /\ Margin \in Nat /\ s.authExp \in Nat
  BY ConstantsAssumption DEF Margin, Session
<1>3. s.authExp <= u + skew + Margin
  BY <1>1, <1>2
<1> QED
  BY <1>3 DEF Due

(* A timer is set for a time at which the session is due. *)
LEMMA DeadlineIsDue ==
  ASSUME TypeOK, NEW skew \in Skews
  PROVE  Due(tokenData, Deadline(skew))
<1>1. /\ now \in Nat /\ tokenData.authExp \in Nat /\ Second \in Nat /\ skew \in Int
  BY ConstantsAssumption DEF TypeOK, Session
<1>2. tokenData.authExp <= Deadline(skew) + skew + Margin
  BY <1>1 DEF Deadline, Overdue, Margin
<1> QED
  BY <1>2 DEF Due

(* What a step may do to the service, the clock and the requests nobody    *)
(* waits for.                                                              *)
LEMMA SoundServiceStep ==
  ASSUME TypeOK, SoundStep
  PROVE  /\ ServiceGoesOn
         /\ now <= now' /\ now' \in Nat
         /\ \A s \in stray' : s \in stray \/ (call.state = "sent" /\ s = call.session)
BY DEF SoundStep, Start, Crash, Refresher, AnswerCall, AnswerStray, Tick, LeaveBehind,
       LoopReturns, ArmTimer, RefreshTokenExpired, TimerCancelled, TimerFires,
       RefreshGranted, RefreshDenied, saveTokenData, ServiceGoesOn, TypeOK

LEMMA SoundStrayStep ==
  ASSUME TypeOK, SoundStray, SoundProcess, SoundStep
  PROVE  SoundStray'
<1> SUFFICES ASSUME NEW s \in stray'
             PROVE  Issued(s, service'.current) /\ Due(s, now')
  BY DEF SoundStray
<1>1. ServiceGoesOn /\ now \in Nat /\ now' \in Nat /\ now <= now'
  BY SoundServiceStep DEF TypeOK
<1>2. s \in Session /\ Issued(s, service.current) /\ Due(s, now)
  BY SoundServiceStep DEF SoundStray, SoundProcess, TypeOK
<1> QED
  BY <1>1, <1>2, IssuedStays, DueStays

LEMMA SoundFileStep ==
  ASSUME TypeOK, SoundFile, SoundProcess, ServiceGoesOn, file' = file \/ saveTokenData
  PROVE  SoundFile'
<1>types. file \in Seq(Session) /\ tokenData \in Session
  BY DEF TypeOK
<1>1. CASE file' = file
  <2>1. \A i \in 1..Len(file) : file[i] \in Session
    BY <1>types
  <2>2. \A i \in 1..Len(file) : Issued(file[i], service'.current)
    BY <2>1, IssuedStays DEF SoundFile
  <2> QED
    BY <1>1, <2>2 DEF SoundFile
<1>2. CASE saveTokenData
  <2>1. tokenData.size \in Nat \ {0}
    BY <1>types, SessionSize
  <2>2. /\ file' = Overwrite(file, tokenData, tokenData.size)
        /\ proc = "up" /\ service' = service
    BY <1>2 DEF saveTokenData
  <2>3. Holds(file', tokenData)
    BY <1>types, <2>1, <2>2, WriteThenRead
  <2>4. \A i \in 1..Len(file') : file'[i] = tokenData \/ (i \in 1..Len(file) /\ file'[i] = file[i])
    BY <1>types, <2>1, <2>2, OverwriteCells
  <2>5. Issued(tokenData, service.current)
    BY <2>2 DEF SoundProcess
  <2>6. \A i \in 1..Len(file') : Issued(file'[i], service.current)
    BY <2>4, <2>5 DEF SoundFile
  <2> QED
    BY <2>2, <2>3, <2>6 DEF SoundFile, Holds
<1> QED
  BY <1>1, <1>2

LEMMA SoundProcessStep ==
  ASSUME TypeOK, SoundFile, SoundProcess, SoundStep
  PROVE  SoundProcess'
<1> USE DEF SoundProcess
<1>types. /\ tokenData \in Session /\ call.session \in Session /\ now \in Nat /\ deadline \in Nat
          /\ file \in Seq(Session)
  BY DEF TypeOK
<1>1. CASE Start
  <2>1. Loadable(file) = {file[1]} /\ file # << >>
    BY <1>types, ReadableHoldsFirst DEF SoundFile
  <2>2. 1 \in 1..Len(file)
    BY <1>types, <2>1
  <2>3. Issued(tokenData', service.current)
    BY <1>1, <2>1, <2>2 DEF Start, SoundFile
  <2> QED
    BY <1>1, <2>3 DEF Start, NoCall
<1>2. CASE Crash \/ RefreshTokenExpired
  BY <1>2 DEF Crash, RefreshTokenExpired, Gone, NoCall
<1>3. CASE LoopReturns \/ TimerCancelled
  BY <1>3 DEF LoopReturns, TimerCancelled
<1>4. CASE ArmTimer
  BY <1>4, DeadlineIsDue DEF ArmTimer
<1>5. CASE TimerFires
  <2>1. Due(tokenData, now)
    BY <1>types, <1>5, DueStays DEF TimerFires
  <2> QED
    BY <1>5, <2>1 DEF TimerFires
<1>6. CASE RefreshGranted \/ RefreshDenied
  BY <1>6 DEF RefreshGranted, RefreshDenied, NoCall
<1>7. CASE saveTokenData
  BY <1>7 DEF saveTokenData
<1>8. CASE AnswerCall
  <2>1. CASE \E n \in Sizes :
               /\ service' = Rotated(n)
               /\ call' = [state |-> "granted", session |-> Rotated(n).current]
    <3>1. ServiceGoesOn
      BY <2>1 DEF ServiceGoesOn
    <3>2. /\ UNCHANGED <<proc, pc, tokenData, deadline>>
          /\ proc = "up" => Issued(tokenData, service'.current)
      BY <1>8, <3>1, <1>types, IssuedStays DEF AnswerCall
    <3>3. Issued(service'.current, service'.current)
      <4>1. service'.current.epoch = service.current.epoch + 1 /\ service.current.epoch \in Nat
        BY <2>1, RotatedType DEF TypeOK, Session
      <4> QED
        BY <4>1 DEF Issued
    <3>4. call'.session = service'.current /\ call'.state = "granted"
      BY <2>1
    <3> QED
      BY <3>2, <3>3, <3>4
  <2>2. CASE call' = [call EXCEPT !.state = "denied"] /\ UNCHANGED service
    <3>1. call'.state = "denied" /\ call'.session = call.session /\ call.state = "sent"
      BY <1>8, <2>2 DEF AnswerCall, TypeOK
    <3> QED
      BY <1>8, <2>2, <3>1 DEF AnswerCall
  <2> QED
    BY <1>8, <2>1, <2>2 DEF AnswerCall
<1>9. CASE AnswerStray \/ Tick
  <2>1. ServiceGoesOn /\ now <= now' /\ now' \in Nat
    BY <1>9, <1>types DEF AnswerStray, Tick, ServiceGoesOn
  <2>2. UNCHANGED <<proc, pc, deadline, tokenData, call>>
    BY <1>9 DEF AnswerStray, Tick
  <2> QED
    BY <1>types, <2>1, <2>2, IssuedStays, DueStays
<1> QED
  BY <1>1, <1>2, <1>3, <1>4, <1>5, <1>6, <1>7, <1>8, <1>9 DEF SoundStep, Refresher

(* A process that does nothing while others step. *)
LEMMA SoundProcessStays ==
  ASSUME TypeOK, SoundProcess, ServiceGoesOn, now <= now', now' \in Nat,
         UNCHANGED <<proc, pc, deadline, tokenData, call>>
  PROVE  SoundProcess'
BY IssuedStays, DueStays DEF SoundProcess, TypeOK

(* The service rotates its session only for one that is due, or within the *)
(* grace period of the one before.                                         *)
LEMMA SoundRotation ==
  ASSUME TypeOK, SoundStray, SoundProcess, SoundStep, service' # service
  PROVE  Due(service.current, now) \/ now < service.graceEnd
<1>1. PICK s \in Session : Accepts(s) /\ Issued(s, service.current) /\ Due(s, now)
  <2>1. CASE AnswerCall
    BY <2>1 DEF AnswerCall, SoundProcess, TypeOK
  <2>2. CASE AnswerStray
    BY <2>2 DEF AnswerStray, SoundStray, TypeOK
  <2>3. CASE Start \/ Crash \/ Refresher \/ Tick
    BY <2>3 DEF Start, Crash, Tick, Refresher, LoopReturns, ArmTimer, RefreshTokenExpired,
         TimerCancelled, TimerFires, RefreshGranted, RefreshDenied, saveTokenData
  <2> QED
    BY <2>1, <2>2, <2>3 DEF SoundStep
<1> QED
  BY <1>1 DEF Accepts, Issued
=============================================================================
