------------------------------ MODULE TokenData ------------------------------
(***************************************************************************)
(* signerserver/token.go: what happens to the fields of the token file     *)
(* when the sidecar reads it, replaces the session and writes it back.     *)
(*                                                                         *)
(* A JSON object is a function from the keys it has to their values.  The  *)
(* Go structs are functions too, from all their keys; a nil pointer in     *)
(* them is Null and a zero string (or number, or struct) is Empty.         *)
(* A write that fails half-way leaves a piece of the new document over the *)
(* old one.  How the bytes lie then is TokenFile's business: here the file *)
(* is Damaged, and may still decode to something.                          *)
(***************************************************************************)
CONSTANTS
  Values,        \* what a key can have as its value
  Null,          \* the value null
  Empty,         \* the zero value of a Go string, number or struct
  Odd,           \* a value of a type that the key's Go field does not take
  MandatoryKeys, \* token, refresh_token, session_info
  ForeignKeys,   \* the keys of the file that no struct has: purpose, env, ...
  Damaged        \* a file with pieces of two documents

(* The keys of api.NewSessionResponse and of ID.  org_id is in both. *)
SessionKeys == MandatoryKeys \cup {"expiration", "org_id"}
IDKeys == {"org_id", "role_id"}
Keys == SessionKeys \cup IDKeys \cup ForeignKeys

Objects == UNION {[K -> Values] : K \in SUBSET Keys}

ASSUME TokenDataAssumption ==
  /\ {Null, Empty, Odd} \subseteq Values
  /\ Null # Empty /\ Null # Odd /\ Empty # Odd
  /\ MandatoryKeys \cap {"expiration", "org_id", "role_id"} = {}
  /\ ForeignKeys \cap (SessionKeys \cup IDKeys) = {}
  /\ Damaged \notin Objects

VARIABLES
  file,   \* the object in the token file, any at first, or Damaged
  up,     \* the process runs
  t,      \* s.tokenData: the session, the ID and RawData
  saved   \* the memory is what was read from the file or wholly written to it

vars == <<file, up, t, saved>>

(* What the service may answer to a refresh: the mandatory fields are      *)
(* strings and structs, expiration and org_id are pointers.                *)
Sessions ==
  {s \in [SessionKeys -> Values \ {Odd}] : \A k \in MandatoryKeys : s[k] # Null}
IDs == [IDKeys -> Values \ {Odd, Null}]

-----------------------------------------------------------------------------
(* encoding/json, as token.go uses it. *)

(* A struct with the given zero values decoded from an object: a missing   *)
(* key and null leave the zero value.                                      *)
Decode(zero, doc) ==
  [k \in DOMAIN zero |-> IF k \in DOMAIN doc /\ doc[k] # Null THEN doc[k] ELSE zero[k]]

ZeroSession == [k \in SessionKeys |-> IF k \in MandatoryKeys THEN Empty ELSE Null]
ZeroID == [k \in IDKeys |-> Empty]

(* The keys a struct is encoded with: expiration is omitempty. *)
toRawData(s) == [k \in DOMAIN s \ {e \in {"expiration"} : s[e] = Null} |-> s[k]]

(* The keys of new put over those of old. *)
Put(old, new) ==
  [k \in DOMAIN old \cup DOMAIN new |-> IF k \in DOMAIN new THEN new[k] ELSE old[k]]

(* A bug: the ID first and the session over it. *)
IDFirst_MarshalJSON(d) == Put(Put(d.raw, d.id), toRawData(d.session))

(* A bug: RawData put over the session. *)
RawLast_MarshalJSON(d) == Put(Put(toRawData(d.session), d.id), d.raw)

(* It also leaves its result in RawData. *)
MarshalJSON(d) == Put(Put(d.raw, toRawData(d.session)), d.id)

(* A bug: the type of a field is not looked at. *)
Lenient_UnmarshalFails(doc) == FALSE

(* A field of the wrong type. *)
UnmarshalFails(doc) == \E k \in DOMAIN doc \cap (SessionKeys \cup IDKeys) : doc[k] = Odd

UnmarshalJSON(doc) ==
  [session |-> Decode(ZeroSession, doc), id |-> Decode(ZeroID, doc), raw |-> doc]

Blank == UnmarshalJSON([k \in {} |-> Null])

-----------------------------------------------------------------------------
(* The types. *)
TypeOK ==
  /\ file \in Objects \cup {Damaged}
  /\ up \in BOOLEAN
  /\ saved \in BOOLEAN
  /\ t \in [session : Sessions, id : IDs, raw : Objects]

Init == file \in Objects /\ up = FALSE /\ t = Blank /\ saved = FALSE

(* New.  A file that does not decode ends the process again at once; what  *)
(* a damaged one decodes to, if to anything, is left open.                 *)
New ==
  /\ ~ up
  /\ \E doc \in IF file = Damaged THEN Objects ELSE {file} :
       /\ ~ UnmarshalFails(doc)
       /\ t' = UnmarshalJSON(doc) /\ saved' = (file # Damaged)
  /\ up' = TRUE
  /\ UNCHANGED file

(* RefreshToken after a 200: the session is replaced and saved. *)
RefreshToken(res) ==
  LET doc == MarshalJSON([t EXCEPT !.session = res])
  IN /\ up
     /\ t' = [session |-> res, id |-> t.id, raw |-> doc]
     /\ file' = doc /\ saved' = TRUE
     /\ UNCHANGED up

(* RefreshToken after a 200 when saveTokenData cannot open the file: only  *)
(* the memory has the new session, and RawData is what it was.             *)
OpenFails(res) ==
  /\ up
  /\ t' = [t EXCEPT !.session = res]
  /\ saved' = FALSE
  /\ UNCHANGED <<file, up>>

(* RefreshToken after a 200 when the Encode of saveTokenData fails.        *)
(* MarshalJSON has been called, so RawData has the new document; the file  *)
(* got none of it, a piece, or all but the final newline.                  *)
EncodeFails(res) ==
  LET doc == MarshalJSON([t EXCEPT !.session = res])
  IN /\ up
     /\ t' = [session |-> res, id |-> t.id, raw |-> doc]
     /\ file' \in {file, Damaged, doc} /\ saved' = (file' = doc)
     /\ UNCHANGED up

(* The process ends, however. *)
Exit ==
  /\ up
  /\ up' = FALSE /\ t' = Blank /\ saved' = FALSE
  /\ UNCHANGED file

Next ==
  \/ New \/ Exit
  \/ \E res \in Sessions : RefreshToken(res) \/ OpenFails(res) \/ EncodeFails(res)

Spec == Init /\ [][Next]_vars

-----------------------------------------------------------------------------
(* Properties. *)

(* The keys that are not the session's own. *)
KeptKeys == IDKeys \cup ForeignKeys

(* Where the document is: in the file or, when a failed write has spoilt   *)
(* that, in a process that still has it in RawData.                        *)
Document == IF file # Damaged THEN file ELSE t.raw
Available == file # Damaged \/ up

(* token.go:12, "so that we don't lose data when overwriting the file":    *)
(* over any number of refreshes, failed opens, failed writes and restarts  *)
(* no key of the document is lost, and those that are not the session's    *)
(* own keep their values; org_id too, whichever organization an answer     *)
(* names (its null becomes an empty string).  A running process keeps all  *)
(* of it through a write that fails half-way and its next save puts it     *)
(* back into the file; only when the process ends before that is it gone.  *)
NoDataLost ==
  [][Available /\ Available' =>
       \A k \in DOMAIN Document :
         /\ k \in DOMAIN Document'
         /\ k \in KeptKeys /\ Document[k] # Null => Document'[k] = Document[k]]_vars

(* If the sidecar stopped after a save, New would find what the memory has *)
(* now: the organization and the role, and the whole session, except that  *)
(* an expiration the last answer left out may come back from an older one. *)
ReloadsMemory ==
  up /\ saved =>
    LET d == UnmarshalJSON(file)
    IN /\ file # Damaged /\ ~ UnmarshalFails(file)
       /\ d.id = t.id
       /\ \A k \in MandatoryKeys : d.session[k] = t.session[k]
       /\ d.session["expiration"] = t.session["expiration"] \/ t.session["expiration"] = Null
=============================================================================
