---------------------------- MODULE ApiResponses ----------------------------
(***************************************************************************)
(* How an HTTP answer becomes a result: the response parsers of            *)
(* api/client.go, their modified copy in signerserver/signerserver.go, and *)
(* what the handlers make of the parsed response.                          *)
(*                                                                         *)
(* An answer is [status, json, body]; json says whether its content type   *)
(* contains "json".  A body is the text of some of its fields and the      *)
(* places at which its value is not of the expected kind; a body that is   *)
(* no JSON object is odd at << >>.  encoding/json is lenient: it skips     *)
(* fields it does not know and leaves out what it does not find, so an     *)
(* object of the wrong kind decodes to empty strings.                      *)
(***************************************************************************)
EXTENDS ApiTypes, Naturals

(* A string of a response, as far as hex.DecodeString(text[2:]) can tell: *)
(* no text (shorter than the slice), hex digits behind "0x", other.       *)
NoText == [kind |-> "short", of |-> << >>]
Hex(v) == [kind |-> "hex", of |-> v]
NoHex  == [kind |-> "other", of |-> << >>]

(* A field that is a nil pointer. *)
Nil == [kind |-> "nil", of |-> << >>]

(* An object whose field has this text.  Its other fields do not matter    *)
(* but for the places odd.                                                 *)
Object(field, text, odd) == [cut |-> FALSE, field |-> field, text |-> text, odd |-> odd]

Bad == Object("none", NoText, {<< >>})

(* io.ReadAll fails. *)
Cut == [cut |-> TRUE, field |-> "none", text |-> NoText, odd |-> {<< >>}]

Decoded(body, field) == IF body.field = field THEN body.text ELSE NoText

(* The common shape of the generated parsers.  A 200 is decoded into type, *)
(* of which only field is looked at afterwards; accepted says whether a    *)
(* 202 has a type of its own.  With another content type than JSON nothing *)
(* is decoded, and that is not an error.                                   *)
Parsed(rsp, type, field, accepted) ==
  LET is200 == rsp.status = 200
      is202 == accepted /\ rsp.status = 202
      dest  == IF is200 THEN type ELSE IF is202 THEN AcceptedResponse ELSE ErrorResponse
      fails == rsp.body.cut \/ (rsp.json /\ Refuses(dest, rsp.body.odd))
      JSON  == rsp.json /\ ~ fails
  IN [ failed      |-> fails,
       JSON200     |-> IF JSON /\ is200 THEN Decoded(rsp.body, field) ELSE Nil,
       JSON202     |-> JSON /\ is202,
       JSONDefault |-> JSON /\ ~ is200 /\ ~ is202 ]

ParseGetKeyInOrgResponse(rsp) == Parsed(rsp, KeyInfo, "public_key", FALSE)
ParseBlobSignResponse(rsp)    == Parsed(rsp, SignResponse, "signature", TRUE)

(* A bug: the parser that was generated. *)
Generated_parseGetKeyInOrgResponse(rsp) == ParseGetKeyInOrgResponse(rsp)

(* signerserver.go has a KeyInfo of its own, with one field: CubeSigner's  *)
(* answers do not fit its document.                                        *)
parseGetKeyInOrgResponse(rsp) ==
  Parsed(rsp, Struct([public_key |-> Plain]), "public_key", FALSE)

(* The results of a handler. *)
Panic == "panic"
Fails == "error"

(* hex.DecodeString(text[2:]) *)
DecodeHex(text) ==
  CASE text.kind = "short" -> [result |-> Panic, value |-> << >>]
    [] text.kind = "other" -> [result |-> Fails, value |-> << >>]
    [] text.kind = "hex"   -> [result |-> "ok", value |-> text.of]

(* A bug: everything but an error response counts as success. *)
DefaultOnly_SignResult(rsp) ==
  LET res == ParseBlobSignResponse(rsp)
  IN IF res.failed \/ res.JSONDefault THEN [result |-> Fails, value |-> << >>]
     ELSE IF res.JSON200 = Nil THEN [result |-> Panic, value |-> << >>]
     ELSE DecodeHex(res.JSON200)

(* The rest of sign: any answer but a 200 in JSON is an error, a 202 (the  *)
(* key wants a second factor) included.                                    *)
SignResult(rsp) ==
  LET res == ParseBlobSignResponse(rsp)
  IN IF res.failed \/ res.JSON200 = Nil THEN [result |-> Fails, value |-> << >>]
     ELSE DecodeHex(res.JSON200)

(* The rest of PublicKey: only JSONDefault is an error, and JSON200 is     *)
(* dereferenced whether it is there or not.                                *)
PublicKeyResult(rsp) ==
  LET res == parseGetKeyInOrgResponse(rsp)
  IN IF res.failed \/ res.JSONDefault THEN [result |-> Fails, value |-> << >>]
     ELSE IF res.JSON200 = Nil THEN [result |-> Panic, value |-> << >>]
     ELSE DecodeHex(res.JSON200)
=============================================================================
