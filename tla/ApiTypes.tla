------------------------------ MODULE ApiTypes ------------------------------
(***************************************************************************)
(* What encoding/json takes for the types of api/types.go.                 *)
(*                                                                         *)
(* A place in a JSON value is a path, the sequence of the field names that *)
(* lead to it.  A type is the set of the places at which it takes some     *)
(* JSON values only and refuses others.  A field that is missing is never  *)
(* refused: it keeps its zero value.                                       *)
(***************************************************************************)
EXTENDS Sequences

(* A string, a number, a boolean or a list of such. *)
Plain == {<< >>}

(* interface{} *)
AnyJSON == {}

(* A union: UnmarshalJSON keeps the bytes and looks at none of them. *)
AcceptedValue   == {}
SignerErrorCode == {}
ScopeSet        == {}
HttpRequestCmp  == {}

(* A struct with these fields: it takes objects only. *)
Struct(fields) == {<< >>} \cup UNION {{<<f>> \o p : p \in fields[f]} : f \in DOMAIN fields}

AcceptedResponse ==
  Struct([accepted |-> AcceptedValue, error_code |-> SignerErrorCode,
          message |-> Plain, request_id |-> Plain])

ErrorResponse ==
  Struct([accepted |-> AcceptedValue, error_code |-> SignerErrorCode,
          message |-> Plain, request_id |-> Plain])

SignResponse == Struct([signature |-> Plain])

MfaPolicy ==
  Struct([allowed_approvers |-> Plain, allowed_mfa_types |-> Plain, count |-> Plain,
          lifetime |-> Plain, num_auth_factors |-> Plain, request_comparer |-> HttpRequestCmp,
          restricted_operations |-> Plain, time_delay |-> Plain])

EditPolicy ==
  Struct([applies_to_scopes |-> ScopeSet, mfa |-> MfaPolicy, time_lock_until |-> Plain])

KeyDerivationInfo == Struct([derivation_path |-> Plain, mnemonic_id |-> Plain])

KeyInfo ==
  Struct([created |-> Plain, derivation_info |-> KeyDerivationInfo, edit_policy |-> EditPolicy,
          enabled |-> Plain, key_id |-> Plain, key_type |-> Plain, last_modified |-> Plain,
          material_id |-> Plain, metadata |-> AnyJSON, owner |-> Plain, policy |-> Plain,
          public_key |-> Plain, purpose |-> Plain, version |-> Plain])

(* Whether a value that is odd at the places odd cannot be decoded. *)
Refuses(type, odd) == odd \cap type # {}
=============================================================================
