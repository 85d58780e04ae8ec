------------------------------- MODULE Config -------------------------------
(***************************************************************************)
(* How the sidecar comes to its configuration: config/keys.go,             *)
(* config/config.go, and main/main.go up to the opening of the token file  *)
(* by signerserver.New.  It all happens in one goroutine; what matters is  *)
(* which of the three sources a setting comes from, what stops the         *)
(* process, and what it has not looked at when it goes on.                 *)
(***************************************************************************)
EXTENDS Naturals

CONSTANTS
  Unset,    \* of a flag, a variable or a key of the file: not given
  Empty,    \* the empty string
  Bad,      \* a port that is no number
  Readable, \* the name of the configuration file that can be read
  Inputs    \* the command lines, environments and files to look at

StringKeys == {"TokenFilePath", "KeyID", "SignerEndpoint"}
Settings == StringKeys \cup {"Port"}
defaultPort == 50051
PortRange == 65536  \* 2^16: Config.Port is a uint16
Uint16 == 0..(PortRange - 1)

(* The settings of each source, "ConfigFile" too for the first two, the    *)
(* file's as they would be read; and for every path how os sees the file:  *)
(* "missing", "hidden" in a directory one may not search, "unreadable",    *)
(* "damaged" if it does not decode, or "ordinary".  Whether it can be      *)
(* written does not matter here.                                           *)
IsInput(i) ==
  /\ Settings \cup {"ConfigFile"} \subseteq DOMAIN i.flag \cap DOMAIN i.env
  /\ Settings \subseteq DOMAIN i.file
  /\ i.flag.Port = Unset \/ i.flag.Port \in Uint16
  /\ i.env.Port \in {Unset, Bad} \/ i.env.Port \in Uint16
  /\ i.file.Port \in {Unset, Bad} \/ i.file.Port \in Nat

ASSUME ConfigAssumption == Unset # Empty /\ \A i \in Inputs : IsInput(i)

VARIABLES
  pc,     \* "parse", "viper", "build", "validate", "open", "running"; or how
          \* it ended: "usage", "failed"
  input,  \* what it was started with
  loaded, \* viper has read the configuration file
  cfg     \* the Config

vars == <<pc, input, loaded, cfg>>

NoConfig == [k \in Settings |-> IF k = "Port" THEN 0 ELSE Empty]

TypeOK ==
  /\ pc \in {"parse", "viper", "build", "validate", "open", "running", "usage", "failed"}
  /\ IsInput(input)
  /\ loaded \in BOOLEAN
  /\ DOMAIN cfg = Settings
  /\ cfg.Port \in Uint16

-----------------------------------------------------------------------------
(* viper. *)

(* AutomaticEnv: a variable that is empty counts as not given. *)
InEnv(k) == input.env[k] \notin {Unset, Empty}

(* A bug: the file before the environment. *)
FileFirst_Find(k) ==
  IF input.flag[k] # Unset THEN input.flag[k]
  ELSE IF loaded /\ input.file[k] # Unset THEN input.file[k]
  ELSE IF InEnv(k) THEN input.env[k]
  ELSE IF k = "Port" THEN defaultPort ELSE Empty

(* A flag that was given, empty or not; the environment; the file; and the *)
(* default of SetDefault or, for the strings, of the flag set.             *)
Find(k) ==
  IF input.flag[k] # Unset THEN input.flag[k]
  ELSE IF InEnv(k) THEN input.env[k]
  ELSE IF loaded /\ input.file[k] # Unset THEN input.file[k]
  ELSE IF k = "Port" THEN defaultPort ELSE Empty

(* IsSet(ConfigFileKey) and its value. *)
ConfigFileSet == input.flag.ConfigFile # Unset \/ InEnv("ConfigFile")
ConfigFile ==
  IF input.flag.ConfigFile # Unset THEN input.flag.ConfigFile ELSE input.env.ConfigFile

(* A bug: a wider port. *)
Wide_DecodePort(p) == p

(* The number of a JSON file is cut to 16 bits; a text (of a flag, of a    *)
(* variable or in the file) that is no 16-bit number is an error before it *)
(* gets here.                                                              *)
DecodePort(p) == p % PortRange

-----------------------------------------------------------------------------

Init ==
  /\ pc = "parse" /\ input \in Inputs
  /\ loaded = FALSE /\ cfg = NoConfig

Goes(from, to) == pc = from /\ pc' = to

(* fs.Parse. *)
Parse == Goes("parse", "viper") /\ UNCHANGED <<input, loaded, cfg>>

(* --help; or a flag that does not parse. *)
ParseEnds ==
  /\ \E how \in {"usage", "failed"} : Goes("parse", how)
  /\ UNCHANGED <<input, loaded, cfg>>

(* BuildViper. *)
BuildViper ==
  /\ Goes("viper", "build")
  /\ ConfigFileSet => ConfigFile = Readable
  /\ loaded' = ConfigFileSet
  /\ UNCHANGED <<input, cfg>>

BuildViperFails ==
  /\ Goes("viper", "failed")
  /\ ConfigFileSet /\ ConfigFile # Readable
  /\ UNCHANGED <<input, loaded, cfg>>

(* BuildConfig: SetDefault and Unmarshal. *)
BuildConfig ==
  /\ Goes("build", "validate")
  /\ Find("Port") # Bad
  /\ cfg' = [k \in Settings |-> IF k = "Port" THEN DecodePort(Find(k)) ELSE Find(k)]
  /\ UNCHANGED <<input, loaded>>

BuildConfigFails ==
  /\ Goes("build", "failed")
  /\ Find("Port") = Bad
  /\ UNCHANGED <<input, loaded, cfg>>

(* os.Stat neither opens the file nor looks at its mode. *)
StatFails(path) == input.disk[path] \in {"missing", "hidden"}

Valid ==
  /\ cfg.TokenFilePath # Empty /\ ~ StatFails(cfg.TokenFilePath)
  /\ cfg.KeyID # Empty
  /\ cfg.SignerEndpoint # Empty

(* A bug: the token file is left to the refresher. *)
NoNew_Validate == Goes("validate", "running") /\ Valid /\ UNCHANGED <<input, loaded, cfg>>

Validate == Goes("validate", "open") /\ Valid /\ UNCHANGED <<input, loaded, cfg>>

ValidateFails == Goes("validate", "failed") /\ ~ Valid /\ UNCHANGED <<input, loaded, cfg>>

(* runServer and New: os.Open, for reading, and Decode. *)
CanLoad == input.disk[cfg.TokenFilePath] = "ordinary"

Open == Goes("open", "running") /\ CanLoad /\ UNCHANGED <<input, loaded, cfg>>

OpenFails == Goes("open", "failed") /\ ~ CanLoad /\ UNCHANGED <<input, loaded, cfg>>

Next ==
  \/ Parse \/ ParseEnds \/ BuildViper \/ BuildViperFails
  \/ BuildConfig \/ BuildConfigFails \/ Validate \/ ValidateFails \/ Open \/ OpenFails

Spec == Init /\ [][Next]_vars

-----------------------------------------------------------------------------
(* Properties. *)

(* What each source says of a setting, in the order of the README's list. *)
Said(k) ==
  <<{input.flag[k]} \ {Unset},
    {input.env[k]} \ {Unset, Empty},
    IF loaded THEN {input.file[k]} \ {Unset} ELSE {}>>

(* "The following precedence order is used: flags, environment variables,  *)
(* config file" (README and config.go:83): a sidecar that runs took every  *)
(* setting from the first source that gives it, has no required setting    *)
(* empty, and no configuration file was named that it did not read.        *)
FollowsPrecedence ==
  pc = "running" =>
    /\ \A k \in StringKeys :
         /\ cfg[k] # Empty
         /\ \E n \in 1..3 : cfg[k] \in Said(k)[n] /\ \A m \in 1..(n - 1) : Said(k)[m] = {}
    /\ \/ cfg.Port = defaultPort /\ \A n \in 1..3 : Said("Port")[n] = {}
       \/ \E n \in 1..3 : /\ \E p \in Said("Port")[n] \ {Bad} : cfg.Port = p % PortRange
                          /\ \A m \in 1..(n - 1) : Said("Port")[m] = {}
    /\ ConfigFileSet <=> loaded

(* Where the main goroutine of Sidecar is; a configuration that is valid   *)
(* can only have failed in New.                                            *)
Main ==
  CASE pc = "open"    -> "new"
    [] pc = "running" -> "start"
    [] pc = "failed"  -> IF Valid THEN "new" ELSE "configure"
    [] OTHER          -> "configure"

Exit ==
  CASE pc = "usage"  -> "usage"
    [] pc = "failed" -> "failure"
    [] OTHER         -> "running"

Process ==
  INSTANCE Sidecar WITH
    main <- Main, exit <- Exit, handler <- IF pc = "running" THEN "starting" ELSE "none",
    sigChan <- 0, ctxDone <- FALSE, refresher <- "none",
    signals <- 0, MaxSignals <- 0

(* All this is what Sidecar has as two steps of its main goroutine,        *)
(* Configure and New: whatever comes from where, the process goes through  *)
(* both of them in this order, or ends once in the one of them that        *)
(* failed.                                                                 *)
StartsAsSidecar == Process!Spec
=============================================================================
