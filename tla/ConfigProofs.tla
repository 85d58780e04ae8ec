---------------------------- MODULE ConfigProofs ----------------------------
(***************************************************************************)
(* Proofs about Config, for any command lines, environments and files.     *)
(***************************************************************************)
EXTENDS Config, TLAPS

Built == pc \in {"validate", "open", "running"}

(* What the Config is made from is what viper finds. *)
CfgInv ==
  IF Built THEN /\ Find("Port") # Bad
                /\ cfg = [k \in Settings |-> IF k = "Port" THEN DecodePort(Find(k)) ELSE Find(k)]
           ELSE pc = "failed" \/ cfg = NoConfig

(* Once viper is built it has read the file that was named. *)
ConfigInv ==
  /\ TypeOK
  /\ pc = "build" \/ Built => (loaded <=> ConfigFileSet)
  /\ CfgInv
  /\ pc \in {"open", "running"} => Valid

(* The port that is found, if it is a number, is one of the inputs'. *)
LEMMA PortFound ==
  ASSUME TypeOK, Find("Port") # Bad
  PROVE  Find("Port") \in Nat
<1>1. /\ input.flag["Port"] = Unset \/ input.flag["Port"] \in Nat
      /\ input.env["Port"] \in {Unset, Bad} \/ input.env["Port"] \in Nat
      /\ input.file["Port"] \in {Unset, Bad} \/ input.file["Port"] \in Nat
  BY DEF TypeOK, IsInput, Uint16
<1>2. defaultPort \in Nat
  BY DEF defaultPort
<1>3. CASE input.flag["Port"] # Unset
  BY <1>1, <1>3 DEF Find
<1>4. CASE input.flag["Port"] = Unset /\ InEnv("Port")
  BY <1>1, <1>4 DEF Find, InEnv
<1>5. CASE input.flag["Port"] = Unset /\ ~ InEnv("Port")
  BY <1>1, <1>2, <1>5 DEF Find
<1> QED
  BY <1>3, <1>4, <1>5

LEMMA DecodedPort ==
  ASSUME NEW p \in Nat
  PROVE  DecodePort(p) \in Uint16
<1>1. \A n \in Nat \ {0} : p % n \in 0..(n - 1)
  OBVIOUS
<1>2. PortRange \in Nat \ {0}
  BY DEF PortRange
<1> QED
  BY <1>1, <1>2 DEF DecodePort, Uint16

LEMMA NoConfigTyped ==
  /\ DOMAIN NoConfig = Settings /\ NoConfig.Port \in Uint16
  /\ NoConfig.TokenFilePath = Empty
BY DEF NoConfig, Settings, StringKeys, Uint16, PortRange

LEMMA ConfigInvInit == Init => ConfigInv
<1> SUFFICES ASSUME Init PROVE ConfigInv
  OBVIOUS
<1>1. IsInput(input) /\ loaded \in BOOLEAN /\ pc = "parse" /\ cfg = NoConfig
  BY ConfigAssumption DEF Init
<1>2. TypeOK
  BY <1>1, NoConfigTyped DEF TypeOK
<1> QED
  BY <1>1, <1>2 DEF ConfigInv, CfgInv, Built

LEMMA BuildConfigStep == ConfigInv /\ BuildConfig => ConfigInv'
<1> SUFFICES ASSUME ConfigInv, BuildConfig PROVE ConfigInv'
  OBVIOUS
<1>1. /\ pc = "build" /\ pc' = "validate" /\ UNCHANGED <<input, loaded>>
      /\ Find("Port") # Bad
      /\ cfg' = [k \in Settings |-> IF k = "Port" THEN DecodePort(Find(k)) ELSE Find(k)]
  BY DEF BuildConfig, Goes
<1>2. DOMAIN cfg' = Settings /\ cfg'.Port = DecodePort(Find("Port"))
  BY <1>1 DEF Settings
<1>3. cfg'.Port \in Uint16
  BY <1>1, <1>2, PortFound, DecodedPort DEF ConfigInv
<1>4. TypeOK'
  BY <1>1, <1>2, <1>3 DEF ConfigInv, TypeOK
<1>5. CfgInv'
  BY <1>1 DEF CfgInv, Built, Find, InEnv, Settings
<1> QED
  BY <1>1, <1>4, <1>5 DEF ConfigInv, Built, ConfigFileSet, InEnv

LEMMA ConfigInvStep == ConfigInv /\ [Next]_vars => ConfigInv'
<1> SUFFICES ASSUME ConfigInv, [Next]_vars PROVE ConfigInv'
  OBVIOUS
<1> USE DEF Goes
<1>1. CASE Parse \/ ParseEnds
  BY <1>1 DEF Parse, ParseEnds, ConfigInv, TypeOK, CfgInv, Built
<1>2. CASE BuildViper
  <2>1. /\ pc = "viper" /\ pc' = "build" /\ loaded' = ConfigFileSet /\ UNCHANGED <<input, cfg>>
    BY <1>2 DEF BuildViper
  <2>2. ConfigFileSet \in BOOLEAN /\ ConfigFileSet' = ConfigFileSet
    BY <2>1 DEF ConfigFileSet, InEnv
  <2>3. TypeOK'
    BY <2>1, <2>2 DEF ConfigInv, TypeOK
  <2> QED
    BY <2>1, <2>2, <2>3 DEF ConfigInv, CfgInv, Built
<1>3. CASE BuildViperFails \/ BuildConfigFails
  BY <1>3 DEF BuildViperFails, BuildConfigFails, ConfigInv, TypeOK, CfgInv, Built
<1>4. CASE BuildConfig
  BY <1>4, BuildConfigStep
<1>5. CASE Validate \/ ValidateFails \/ Open \/ OpenFails
  <2>1. UNCHANGED <<input, loaded, cfg>> /\ Built
    BY <1>5 DEF Validate, ValidateFails, Open, OpenFails, Built
  <2>2. CfgInv'
    BY <1>5, <2>1 DEF Validate, ValidateFails, Open, OpenFails, ConfigInv, CfgInv, Built, Find, InEnv
  <2>3. (pc \in {"open", "running"} => Valid)'
    BY <1>5, <2>1 DEF Validate, ValidateFails, Open, OpenFails, ConfigInv, Valid, StatFails
  <2>4. TypeOK'
    BY <1>5, <2>1 DEF Validate, ValidateFails, Open, OpenFails, ConfigInv, TypeOK
  <2> QED
    BY <2>1, <2>2, <2>3, <2>4 DEF ConfigInv, Built, ConfigFileSet, InEnv
<1>6. CASE UNCHANGED vars
  BY <1>6 DEF vars, ConfigInv, TypeOK, CfgInv, Built, Find, InEnv, ConfigFileSet, Valid, StatFails
<1> QED
  BY <1>1, <1>2, <1>3, <1>4, <1>5, <1>6 DEF Next

LEMMA ConfigInvariant == Spec => []ConfigInv
BY ConfigInvInit, ConfigInvStep, PTL DEF Spec

(* What Find returns is what the first source that says something says. *)
LEMMA FirstSaid ==
  ASSUME NEW k \in Settings
  PROVE  \/ /\ Find(k) = IF k = "Port" THEN defaultPort ELSE Empty
            /\ \A n \in 1..3 : Said(k)[n] = {}
         \/ \E n \in 1..3 : Find(k) \in Said(k)[n] /\ \A m \in 1..(n - 1) : Said(k)[m] = {}
<1>0. /\ Said(k)[1] = {input.flag[k]} \ {Unset}
      /\ Said(k)[2] = {input.env[k]} \ {Unset, Empty}
      /\ Said(k)[3] = IF loaded THEN {input.file[k]} \ {Unset} ELSE {}
  BY DEF Said
<1>1. CASE input.flag[k] # Unset
  <2>1. Find(k) \in Said(k)[1]
    BY <1>0, <1>1 DEF Find
  <2> QED
    BY <2>1
<1>2. CASE input.flag[k] = Unset /\ InEnv(k)
  <2>1. Find(k) \in Said(k)[2] /\ Said(k)[1] = {}
    BY <1>0, <1>2 DEF Find, InEnv
  <2>2. \A m \in 1..(2 - 1) : m = 1
    OBVIOUS
  <2> QED
    BY <2>1, <2>2
<1>3. CASE input.flag[k] = Unset /\ ~ InEnv(k) /\ loaded /\ input.file[k] # Unset
  <2>1. Find(k) \in Said(k)[3] /\ Said(k)[1] = {} /\ Said(k)[2] = {}
    BY <1>0, <1>3 DEF Find, InEnv
  <2>2. \A m \in 1..(3 - 1) : m = 1 \/ m = 2
    OBVIOUS
  <2> QED
    BY <2>1, <2>2
<1>4. CASE input.flag[k] = Unset /\ ~ InEnv(k) /\ ~ (loaded /\ input.file[k] # Unset)
  <2>1. Said(k)[1] = {} /\ Said(k)[2] = {} /\ Said(k)[3] = {}
    BY <1>0, <1>4 DEF InEnv
  <2>2. \A n \in 1..3 : n = 1 \/ n = 2 \/ n = 3
    OBVIOUS
  <2> QED
    BY <1>4, <2>1, <2>2 DEF Find
<1> QED
  BY <1>1, <1>2, <1>3, <1>4

-----------------------------------------------------------------------------
(* The types; the port fits into 16 bits.                                  *)
THEOREM TypeCorrect == Spec => []TypeOK
<1>1. ConfigInv => TypeOK
  BY DEF ConfigInv
<1> QED
  BY <1>1, ConfigInvariant, PTL

(* A sidecar that runs has every setting from the first source that gives  *)
(* it.                                                                     *)
THEOREM SettingsFollow == Spec => []FollowsPrecedence
<1>1. ConfigInv => FollowsPrecedence
  <2> SUFFICES ASSUME ConfigInv, pc = "running" PROVE FollowsPrecedence
    BY DEF FollowsPrecedence
  <2>1. /\ loaded <=> ConfigFileSet
        /\ Find("Port") # Bad
        /\ cfg = [k \in Settings |-> IF k = "Port" THEN DecodePort(Find(k)) ELSE Find(k)]
        /\ Valid
    BY DEF ConfigInv, CfgInv, Built
  <2>2. ASSUME NEW k \in StringKeys
        PROVE  /\ cfg[k] # Empty
               /\ \E n \in 1..3 : cfg[k] \in Said(k)[n] /\ \A m \in 1..(n - 1) : Said(k)[m] = {}
    <3>1. k \in Settings /\ k # "Port"
      BY DEF Settings, StringKeys
    <3>2. cfg[k] = Find(k)
      BY <2>1, <3>1
    <3>3. cfg[k] # Empty
      BY <2>1 DEF Valid, StringKeys
    <3> QED
      BY <3>1, <3>2, <3>3, FirstSaid
  <2>3. \/ cfg.Port = defaultPort /\ \A n \in 1..3 : Said("Port")[n] = {}
        \/ \E n \in 1..3 : /\ \E p \in Said("Port")[n] \ {Bad} : cfg.Port = p % PortRange
                           /\ \A m \in 1..(n - 1) : Said("Port")[m] = {}
    <3>1. "Port" \in Settings
      BY DEF Settings
    <3>2. cfg.Port = Find("Port") % PortRange
      BY <2>1, <3>1 DEF DecodePort
    <3>3. defaultPort % PortRange = defaultPort
      BY DEF defaultPort, PortRange
    <3> QED
      BY <2>1, <3>1, <3>2, <3>3, FirstSaid
  <2> QED
    BY <2>1, <2>2, <2>3 DEF FollowsPrecedence
<1> QED
  BY <1>1, ConfigInvariant, PTL

(* Config does what Sidecar has as Configure and New.                      *)
THEOREM ImplementsSidecarStart == Spec => StartsAsSidecar
<1>1. Init => Process!Init
  BY DEF Init, Process!Init, Main, Exit
<1>2. ConfigInv /\ [Next]_vars => [Process!Next]_(Process!vars)
  <2> SUFFICES ASSUME ConfigInv, [Next]_vars PROVE [Process!Next]_(Process!vars)
    OBVIOUS
  <2> USE DEF Goes, Main, Exit
  <2>0. pc \in {"parse", "viper", "build"} => ~ Valid
    BY NoConfigTyped DEF ConfigInv, CfgInv, Built, Valid
  <2>1. CASE Parse \/ BuildViper \/ BuildConfig
    BY <2>1 DEF Parse, BuildViper, BuildConfig, Process!vars
  <2>2. CASE ParseEnds \/ BuildViperFails \/ BuildConfigFails \/ ValidateFails
    <3>1. /\ Main = "configure" /\ Main' = "configure"
          /\ Exit = "running" /\ Exit' \in {"usage", "failure"}
          /\ pc # "running" /\ pc' # "running"
      BY <2>0, <2>2 DEF ParseEnds, BuildViperFails, BuildConfigFails, ValidateFails, Valid, StatFails
    <3> QED
      BY <3>1 DEF Process!Next, Process!ConfigureEnds, Process!Exits, Process!Running
  <2>3. CASE Validate
    BY <2>3 DEF Validate, Process!Next, Process!Configure, Process!Goes, Process!Running
  <2>4. CASE Open
    BY <2>4 DEF Open, Process!Next, Process!New, Process!Goes, Process!Running
  <2>5. CASE OpenFails
    <3>1. Valid /\ Valid'
      BY <2>5 DEF OpenFails, ConfigInv, Valid, StatFails
    <3> QED
      BY <2>5, <3>1 DEF OpenFails, Process!Next, Process!NewFails, Process!Exits, Process!Running
  <2>6. CASE UNCHANGED vars
    BY <2>6 DEF vars, Process!vars, Valid, StatFails
  <2> QED
    BY <2>1, <2>2, <2>3, <2>4, <2>5, <2>6 DEF Next
<1> QED
  BY <1>1, <1>2, ConfigInvariant, PTL DEF Spec, StartsAsSidecar, Process!Spec
=============================================================================
