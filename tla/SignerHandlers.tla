--------------------------- MODULE SignerHandlers ---------------------------
(***************************************************************************)
(* The gRPC handlers of signerserver/signerserver.go: PublicKey, Sign and  *)
(* SignProofOfPossession, each in a goroutine per request, while the       *)
(* refresh goroutine replaces the session.  No lock protects what they     *)
(* share, s.tokenData and s.publicKey, and both are wider than a machine   *)
(* word: a string is a pointer and a length.  The model keeps the words    *)
(* apart, so that a reader may see one of them new and the other old.      *)
(*                                                                         *)
(* Not here: time, the token file and how the refresher gets a session     *)
(* (module TokenRefresh).                                                  *)
(***************************************************************************)
EXTENDS ApiResponses, Sequences

CONSTANTS
  Requests,    \* as in RemoteSigner
  Messages,
  TokenLength, \* the lengths of the tokens, in the order of their issue
  Forgeries,   \* what somebody else may give as a key or a signature
  WeakMemory,  \* TRUE: the build is for arm64, which reorders stores
  StrayBudget  \* bound of the answers that do not come from CubeSigner itself

ASSUME HandlersAssumption ==
  /\ TokenLength \in Seq(Nat) \ {<< >>}
  /\ Forgeries \subseteq Seq(STRING)
  /\ WeakMemory \in BOOLEAN
  /\ StrayBudget \in Nat

VARIABLES
  serving,    \* the process is running
  token,      \* the two words of s.tokenData.Token
  publicKey,  \* the two words of s.publicKey: the pointer, which is nil or
              \* leads to an array, and the length
  call,       \* per request, its handler
  strays,     \* how many answers did not come from CubeSigner itself
  forgedKey   \* one of them gave a public key

shared == <<serving, token, publicKey>>
history == <<strays, forgedKey>>
vars == <<shared, call, history>>

Tokens == 1..Len(TokenLength)
Header == [pointer : Tokens \cup {0}, length : Nat]
NoHeader == [pointer |-> 0, length |-> 0]

(* The header is a token that was issued, and all of it. *)
Whole(h) == h.pointer \in Tokens /\ h.length = TokenLength[h.pointer]

(* What a key may be decoded to, or nothing at all. *)
Arrays == {<< >>, <<"public key">>} \cup Forgeries

NoKey == [isNil |-> TRUE, array |-> << >>, length |-> 0]

(* Memory that holds something else, or half of what it should. *)
Torn == <<"torn">>

(* The bytes of a slice with this array and this length. *)
Slice(array, length) ==
  IF length = 0 THEN << >> ELSE IF length = Len(array) THEN array ELSE Torn

-----------------------------------------------------------------------------
(* What may come back for a question. *)

(* What Sign and SignProofOfPossession ask CubeSigner to sign. *)
BlobSignRequest(q) ==
  [message |-> q.message, blsDst |-> IF q.method = "Sign" THEN "nil" ELSE "popDst"]

(* What CubeSigner signs: without a bls_dst, under the ciphersuite of      *)
(* plain signatures.                                                       *)
Signature(request) ==
  IF request.blsDst = "nil" THEN <<"signature", request.message>>
                            ELSE <<"proof of possession", request.message>>

AnswerText(q) ==
  Hex(IF q.method = "PublicKey" THEN <<"public key">> ELSE Signature(BlobSignRequest(q)))

FieldOf(q) == IF q.method = "PublicKey" THEN "public_key" ELSE "signature"

(* Places at which CubeSigner's description of a key may not fit its       *)
(* document: signerserver.go says that there are some, not which.          *)
Undocumented == {<<"policy">>, <<"edit_policy", "mfa">>}

Odd(q) == IF q.method = "PublicKey" THEN SUBSET Undocumented ELSE {{}}

(* CubeSigner: the answer; for a signature, also "accepted", when the key  *)
(* wants a second factor; or an error.  Nothing but an error for a header  *)
(* that is no token.                                                       *)
Answers(q, h) ==
  {[status |-> 403, json |-> TRUE, body |-> Object("message", Hex(<<"error">>), {})]}
    \cup {[status |-> 200, json |-> TRUE, body |-> Object(FieldOf(q), AnswerText(q), odd)] :
            odd \in {o \in Odd(q) : Whole(h)}}
    \cup {[status |-> 202, json |-> TRUE, body |-> Object("accepted", NoText, odd)] :
            odd \in {o \in {{}, {<<"accepted">>}} : Whole(h) /\ q.method # "PublicKey"}}

(* What stands between may answer anything else: an error page of a        *)
(* gateway, a page with status 200, JSON of another kind, a cut answer, a  *)
(* text that is no hex, a number in its place, hex digits that are         *)
(* somebody else's, and none at all behind the "0x".                       *)
StrayAnswers ==
  [status : {200, 202, 502}, json : BOOLEAN,
   body : {Cut, Bad, Object("message", NoText, {})} \cup
          UNION {{Object(field, NoHex, {}), Object(field, NoText, {<<field>>})}
                   \cup {Object(field, Hex(v), {}) : v \in Forgeries \cup {<< >>}} :
                   field \in {"signature", "public_key"}}]

(* What a handler makes of an answer. *)
ResultOf(q, a) == IF q.method = "PublicKey" THEN PublicKeyResult(a) ELSE SignResult(a)

(* It takes the answer for a result, and CubeSigner did not give it. *)
IsForged(q, h, a) == ResultOf(q, a).result = "ok" /\ a \notin Answers(q, h)

-----------------------------------------------------------------------------

(* What avalanchego sees of a handler. *)
Seen(c) ==
  CASE c.pc = "idle"    -> [phase |-> "idle"]
    [] c.pc = "replied" -> [phase |-> "replied", question |-> c.question, reply |-> c.reply]
    [] OTHER            -> [phase |-> IF c.pc = "store length" THEN "half stored"
                                      ELSE IF c.forged THEN "forged" ELSE "pending",
                            question |-> c.question]

Signer ==
  INSTANCE RemoteSigner WITH
    request <- [r \in Requests |-> Seen(call[r])], keyForged <- forgedKey,
    Wrong <- Forgeries \cup {<< >>, Torn}, Racy <- WeakMemory

NoQuestion == [method |-> "none", message |-> Signer!NoMessage]
NoAnswer == [status |-> 0, json |-> FALSE, body |-> Cut]
NoCall == [pc |-> "idle", question |-> NoQuestion, header |-> NoHeader,
           answer |-> NoAnswer, forged |-> FALSE, array |-> << >>, reply |-> Signer!Error]

PublicKeyCall(r) == call[r].question.method = "PublicKey"

-----------------------------------------------------------------------------
Init ==
  /\ serving = TRUE
  /\ token = [pointer |-> 1, length |-> TokenLength[1]]
  /\ publicKey = NoKey
  /\ call = [r \in Requests |-> NoCall]
  /\ strays = 0 /\ forgedKey = FALSE

(* RefreshToken: s.tokenData.NewSessionResponse = *res.JSON200, as far as  *)
(* the token goes.                                                         *)
StorePointer ==
  /\ serving /\ Whole(token) /\ token.pointer + 1 \in Tokens
  /\ token' = [token EXCEPT !.pointer = @ + 1]
  /\ UNCHANGED <<serving, publicKey, call, history>>

StoreLength ==
  /\ serving /\ token.length # TokenLength[token.pointer]
  /\ token' = [token EXCEPT !.length = TokenLength[token.pointer]]
  /\ UNCHANGED <<serving, publicKey, call, history>>

Step(r, from, to) == serving /\ call[r].pc = from /\ call' = [call EXCEPT ![r] = to]

Reply(r, a) == [NoCall EXCEPT !.pc = "replied", !.question = call[r].question, !.reply = a]

(* A request comes in. *)
Receive(r) ==
  /\ \E q \in Signer!Questions :
       Step(r, "idle", [NoCall EXCEPT !.question = q,
                          !.pc = IF q.method = "PublicKey" THEN "cache" ELSE "request"])
  /\ UNCHANGED <<shared, history>>

(* A bug: len(s.publicKey) > 0. *)
ByLength_KeyCached == publicKey.length > 0

(* s.publicKey != nil looks at the pointer only. *)
KeyCached == ~ publicKey.isNil

CacheHit(r) ==
  /\ KeyCached
  /\ Step(r, "cache", [call[r] EXCEPT !.pc = "cached"])
  /\ UNCHANGED <<shared, history>>

(* The words are loaded again for the reply, after a log.Println whose     *)
(* lock keeps these loads behind the one of the check on every machine.    *)
LoadKeyPointer(r) ==
  /\ Step(r, "cached", [call[r] EXCEPT !.pc = "key", !.array = publicKey.array])
  /\ UNCHANGED <<shared, history>>

CachedPublicKey(r) ==
  /\ Step(r, "key", Reply(r, Signer!Ok(Slice(call[r].array, publicKey.length))))
  /\ UNCHANGED <<shared, history>>

(* A bug: the request is sent without the editor that adds the header. *)
NoEditor_NoCachedPublicKey(r) ==
  /\ ~ KeyCached
  /\ Step(r, "cache", [call[r] EXCEPT !.pc = "sent"])
  /\ UNCHANGED <<shared, history>>

NoCachedPublicKey(r) ==
  /\ ~ KeyCached
  /\ Step(r, "cache", [call[r] EXCEPT !.pc = "request"])
  /\ UNCHANGED <<shared, history>>

(* addAuthHeaderFn loads the two words of the token one after the other. *)
LoadPointer(r) ==
  /\ Step(r, "request", [call[r] EXCEPT !.pc = "header", !.header.pointer = token.pointer])
  /\ UNCHANGED <<shared, history>>

LoadLength(r) ==
  /\ Step(r, "header", [call[r] EXCEPT !.pc = "sent", !.header.length = token.length])
  /\ UNCHANGED <<shared, history>>

Respond(r) ==
  /\ \E a \in Answers(call[r].question, call[r].header) :
       Step(r, "sent", [call[r] EXCEPT !.pc = "answered", !.answer = a])
  /\ UNCHANGED <<shared, history>>

RespondStray(r) ==
  /\ strays < StrayBudget
  /\ \E a \in StrayAnswers :
       LET forged == IsForged(call[r].question, call[r].header, a)
       IN  /\ Step(r, "sent", [call[r] EXCEPT !.pc = "answered", !.answer = a, !.forged = forged])
           /\ forgedKey' = (forgedKey \/ (forged /\ PublicKeyCall(r)))
  /\ strays' = strays + 1
  /\ UNCHANGED shared

(* Do returns an error: the connection fails, or the caller's context is   *)
(* cancelled or past its deadline.                                         *)
CallFails(r) ==
  /\ Step(r, "sent", Reply(r, Signer!Error))
  /\ UNCHANGED <<shared, history>>

Result(r) == ResultOf(call[r].question, call[r].answer)

ReturnError(r) ==
  /\ Result(r).result = Fails
  /\ Step(r, "answered", Reply(r, Signer!Error))
  /\ UNCHANGED <<shared, history>>

ReturnSignature(r) ==
  /\ ~ PublicKeyCall(r) /\ Result(r).result = "ok"
  /\ Step(r, "answered", Reply(r, Signer!Ok(Result(r).value)))
  /\ UNCHANGED <<shared, history>>

(* s.publicKey = publicKey, whatever was decoded: one word ... *)
SetLength(v)  == publicKey' = [publicKey EXCEPT !.length = Len(v)]
SetPointer(v) == publicKey' = [publicKey EXCEPT !.isNil = FALSE, !.array = v]

(* ... after the other.  The compiler stores the length before the         *)
(* pointer; only a machine that reorders stores can show the pointer       *)
(* first.                                                                  *)
CachePublicKey(r) ==
  /\ PublicKeyCall(r) /\ Result(r).result = "ok"
  /\ \/ /\ Step(r, "answered", [call[r] EXCEPT !.pc = "store pointer"])
        /\ SetLength(Result(r).value)
     \/ /\ WeakMemory
        /\ Step(r, "answered", [call[r] EXCEPT !.pc = "store length"])
        /\ SetPointer(Result(r).value)
  /\ UNCHANGED <<serving, token, history>>

(* Both are stored when grpc-go, which takes a lock, gets the reply. *)
ReturnPublicKey(r) ==
  /\ \/ /\ Step(r, "store pointer", Reply(r, Signer!Ok(Result(r).value)))
        /\ SetPointer(Result(r).value)
     \/ /\ Step(r, "store length", Reply(r, Signer!Ok(Result(r).value)))
        /\ SetLength(Result(r).value)
  /\ UNCHANGED <<serving, token, history>>

(* A panic in a handler: grpc-go does not recover, the process ends. *)
HandlerPanics(r) ==
  /\ serving /\ call[r].pc = "answered" /\ Result(r).result = Panic
  /\ serving' = FALSE
  /\ UNCHANGED <<token, publicKey, call, history>>

(* grpc-go sends the reply. *)
Send(r) ==
  /\ Step(r, "replied", NoCall)
  /\ UNCHANGED <<shared, history>>

Handler(r) ==
  \/ CacheHit(r) \/ LoadKeyPointer(r) \/ CachedPublicKey(r) \/ NoCachedPublicKey(r)
  \/ LoadPointer(r) \/ LoadLength(r)
  \/ ReturnError(r) \/ ReturnSignature(r) \/ CachePublicKey(r) \/ ReturnPublicKey(r)
  \/ HandlerPanics(r) \/ Send(r)

Next ==
  \/ StorePointer \/ StoreLength
  \/ \E r \in Requests :
       Receive(r) \/ Handler(r) \/ Respond(r) \/ RespondStray(r) \/ CallFails(r)

Spec == Init /\ [][Next]_vars

-----------------------------------------------------------------------------
(* Properties. *)

(* The types, and what a handler has when it gets to a place. *)
TypeOK ==
  /\ serving \in BOOLEAN
  /\ token \in Header /\ token.pointer \in Tokens
  /\ publicKey \in [isNil : BOOLEAN, array : Arrays, length : Nat]
  /\ strays \in 0..StrayBudget
  /\ forgedKey \in BOOLEAN
  /\ \A r \in Requests :
       /\ call[r].pc \in {"idle", "cache", "cached", "key", "request", "header", "sent", "answered",
                          "store pointer", "store length", "replied"}
       /\ call[r].pc # "idle" => call[r].question \in Signer!Questions
       /\ call[r].pc \in {"sent", "answered"} => call[r].header.pointer \in Tokens

(* The sidecar is a remote signer: whatever the interleaving of handlers   *)
(* and refresher and the torn tokens, every reply is an error or answers   *)
(* the question it is the reply to, once.  A stray answer that decodes is  *)
(* the result of the request it came for; a public key it gave stays in    *)
(* s.publicKey and is replied to later requests too, a signature never is. *)
(* On arm64 a request for the public key may see half of what another one  *)
(* is storing, and get an empty key.                                       *)
IsRemoteSigner == Signer!Spec

(* CubeSigner's own answers never bring the process down: it takes an      *)
(* answer of something that stands between.                                *)
PanicOnlyOnStray == ~ serving => strays > 0

(* A 200 of CubeSigner is a result for the caller, also where it does not  *)
(* fit CubeSigner's own document: parseGetKeyInOrgResponse is there to     *)
(* take answers that the generated parser refuses.                         *)
OwnAnswerSucceeds ==
  \A r \in Requests :
    /\ call[r].pc = "answered" /\ call[r].answer.status = 200
    /\ call[r].answer \in Answers(call[r].question, call[r].header)
    => Result(r).result = "ok"

(* signerserver_test.go: the Authorization header of a request equals the  *)
(* token in s.tokenData.                                                   *)
AuthorizationIsToken == \A r \in Requests : call[r].pc = "sent" => Whole(call[r].header)
=============================================================================
