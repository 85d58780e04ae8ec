------------------------------ MODULE MCConfig ------------------------------
(* Values of the constants of Config for TLC. *)
EXTENDS Config

(* Each source has values of its own, so that one sees where a setting     *)
(* comes from; flag.json can be in any state.  The file's port does not    *)
(* fit into 16 bits.                                                       *)
Flags ==
  [TokenFilePath : {Unset, Empty, "flag.json"}, KeyID : {Unset, "Key#flag"},
   SignerEndpoint : {Unset, "https://flag"}, Port : {Unset, 1},
   ConfigFile : {Unset, Readable}]

Environments ==
  [TokenFilePath : {Unset, Empty, "env.json"}, KeyID : {Unset, "Key#env"},
   SignerEndpoint : {Unset}, Port : {Unset, 2, Bad},
   ConfigFile : {Unset, Empty, "unreadable"}]

ConfigFiles ==
  [TokenFilePath : {Unset, "file.json"}, KeyID : {Unset, "Key#file"},
   SignerEndpoint : {Unset, "https://file"}, Port : {Unset, PortRange + 3, Bad}]

Disks ==
  {[p \in {"flag.json", "env.json", "file.json"} |-> IF p = "flag.json" THEN s ELSE "ordinary"] :
     s \in {"missing", "hidden", "unreadable", "damaged", "ordinary"}}

SmallInputs == [flag : Flags, env : Environments, file : ConfigFiles, disk : Disks]
=============================================================================
