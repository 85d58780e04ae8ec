------------------------- MODULE SignerHandlersProofs -------------------------
(***************************************************************************)
(* The sidecar implements RemoteSigner, on machines that reorder stores    *)
(* and on others, for any number of requests, messages, tokens and stray   *)
(* answers, the forged ones included; and CubeSigner's own answers never   *)
(* make a handler panic.                                                   *)
(***************************************************************************)
EXTENDS SignerHandlers, TLAPS

-----------------------------------------------------------------------------
(* What the handlers make of an answer. *)

(* The places of a struct. *)
LEMMA StructPlaces ==
  ASSUME NEW fields, NEW p
  PROVE  p \in Struct(fields) <=> p = << >> \/ \E f \in DOMAIN fields : \E x \in fields[f] : p = <<f>> \o x
<1> DEFINE Below(f) == {<<f>> \o x : x \in fields[f]}
<1>1. p \in Struct(fields) <=> p = << >> \/ \E f \in DOMAIN fields : p \in Below(f)
  <2>1. Struct(fields) = {<< >>} \cup UNION {Below(f) : f \in DOMAIN fields}
    BY Zenon DEF Struct
  <2> HIDE DEF Below
  <2> QED
    BY <2>1, Zenon
<1>2. \A f : p \in Below(f) <=> \E x \in fields[f] : p = <<f>> \o x
  BY Zenon
<1> HIDE DEF Below
<1> QED
  BY <1>1, <1>2, Zenon

(* The KeyInfo of signerserver.go. *)
LEMMA OwnKeyInfo ==
  ASSUME NEW p
  PROVE  p \in Struct([public_key |-> Plain]) <=> p = << >> \/ p = <<"public_key">> \o << >>
<1>1. DOMAIN [public_key |-> Plain] = {"public_key"} /\ [public_key |-> Plain].public_key = {<< >>}
  BY DEF Plain
<1> QED
  BY <1>1, StructPlaces, Zenon

(* What the generated parser makes of an answer, the modified one makes of *)
(* it too: it asks for less.                                               *)
THEOREM ModifiedParserAgrees ==
  ASSUME NEW rsp, ParseGetKeyInOrgResponse(rsp).JSON200 # Nil
  PROVE  parseGetKeyInOrgResponse(rsp) = ParseGetKeyInOrgResponse(rsp)
<1>1. << >> \in KeyInfo /\ <<"public_key">> \o << >> \in KeyInfo
  <2> DEFINE fields ==
        [created |-> Plain, derivation_info |-> KeyDerivationInfo, edit_policy |-> EditPolicy,
         enabled |-> Plain, key_id |-> Plain, key_type |-> Plain, last_modified |-> Plain,
         material_id |-> Plain, metadata |-> AnyJSON, owner |-> Plain, policy |-> Plain,
         public_key |-> Plain, purpose |-> Plain, version |-> Plain]
  <2>1. "public_key" \in DOMAIN fields /\ fields["public_key"] = Plain
    OBVIOUS
  <2>2. << >> \in Plain
    BY DEF Plain
  <2>3. KeyInfo = Struct(fields)
    BY DEF KeyInfo
  <2> HIDE DEF fields
  <2> QED
    BY <2>1, <2>2, <2>3, StructPlaces, Zenon
<1>2. \A odd : Refuses(Struct([public_key |-> Plain]), odd) => Refuses(KeyInfo, odd)
  BY <1>1, OwnKeyInfo, Zenon DEF Refuses
<1>3. rsp.status = 200 /\ ~ rsp.body.cut /\ (rsp.json => ~ Refuses(KeyInfo, rsp.body.odd))
  BY DEF ParseGetKeyInOrgResponse, Parsed
<1> QED
  BY <1>2, <1>3, Zenon DEF ParseGetKeyInOrgResponse, parseGetKeyInOrgResponse, Parsed

(* The modified parser takes every description of a key.                   *)
LEMMA KeyTaken == \A odd \in SUBSET Undocumented : ~ Refuses(Struct([public_key |-> Plain]), odd)
<1>1. <<"public_key">> \o << >> = <<"public_key">>
  OBVIOUS
<1>2. << >> \notin Undocumented /\ <<"public_key">> \notin Undocumented
  BY DEF Undocumented
<1> QED
  BY <1>1, <1>2, OwnKeyInfo, Zenon DEF Refuses

(* What the parsers make of an error.                                      *)
LEMMA ParsedError ==
  ASSUME NEW rsp, rsp.status # 200, NEW type, NEW field, NEW accepted
  PROVE  /\ Parsed(rsp, type, field, accepted).JSON200 = Nil
         /\ rsp.json /\ rsp.status # 202 =>
              \/ Parsed(rsp, type, field, accepted).failed
              \/ Parsed(rsp, type, field, accepted).JSONDefault
BY Zenon DEF Parsed

(* What the handlers make of an error, and of a 200.                       *)
LEMMA ErrorFails ==
  ASSUME NEW rsp, rsp.status # 200
  PROVE  /\ SignResult(rsp).result = Fails
         /\ rsp.json /\ rsp.status # 202 => PublicKeyResult(rsp).result = Fails
<1> DEFINE s == ParseBlobSignResponse(rsp)
           k == parseGetKeyInOrgResponse(rsp)
<1>1. s.JSON200 = Nil
  BY ParsedError DEF ParseBlobSignResponse
<1>2. rsp.json /\ rsp.status # 202 => k.failed \/ k.JSONDefault
  BY ParsedError DEF parseGetKeyInOrgResponse
<1>3. s.JSON200 = Nil => SignResult(rsp) = [result |-> Fails, value |-> << >>]
  BY Zenon DEF SignResult
<1>4. k.failed \/ k.JSONDefault => PublicKeyResult(rsp) = [result |-> Fails, value |-> << >>]
  BY Zenon DEF PublicKeyResult
<1> HIDE DEF s, k
<1> QED
  BY <1>1, <1>2, <1>3, <1>4

LEMMA ResultDecoded ==
  ASSUME NEW rsp, rsp.status = 200, rsp.json, ~ rsp.body.cut
  PROVE  /\ ~ Refuses(SignResponse, rsp.body.odd) /\ Decoded(rsp.body, "signature") # Nil =>
              SignResult(rsp) = DecodeHex(Decoded(rsp.body, "signature"))
         /\ ~ Refuses(Struct([public_key |-> Plain]), rsp.body.odd)
            /\ Decoded(rsp.body, "public_key") # Nil =>
              PublicKeyResult(rsp) = DecodeHex(Decoded(rsp.body, "public_key"))
<1> DEFINE s == ParseBlobSignResponse(rsp)
           k == parseGetKeyInOrgResponse(rsp)
<1>1. ~ Refuses(SignResponse, rsp.body.odd) =>
        ~ s.failed /\ s.JSON200 = Decoded(rsp.body, "signature")
  BY Zenon DEF ParseBlobSignResponse, Parsed
<1>2. ~ Refuses(Struct([public_key |-> Plain]), rsp.body.odd) =>
        ~ k.failed /\ ~ k.JSONDefault /\ k.JSON200 = Decoded(rsp.body, "public_key")
  BY Zenon DEF parseGetKeyInOrgResponse, Parsed
<1>3. ~ s.failed /\ s.JSON200 # Nil => SignResult(rsp) = DecodeHex(s.JSON200)
  BY Zenon DEF SignResult
<1>4. ~ k.failed /\ ~ k.JSONDefault /\ k.JSON200 # Nil => PublicKeyResult(rsp) = DecodeHex(k.JSON200)
  BY Zenon DEF PublicKeyResult
<1> HIDE DEF s, k
<1> QED
  BY <1>1, <1>2, <1>3, <1>4, Zenon

(* An answer of CubeSigner is an error for the handler or the one right    *)
(* result; a 200 is the result.                                            *)
LEMMA AnswerIsRight ==
  ASSUME NEW q \in Signer!Questions, NEW h, NEW a \in Answers(q, h),
         NEW res, res = ResultOf(q, a)
  PROVE  /\ res.result \in {Fails, "ok"}
         /\ res.result = "ok" => res.value = Signer!RightAnswer(q)
         /\ a.status = 200 => res.result = "ok"
<1> USE DEF ResultOf
<1>method. q.method \in {"PublicKey", "Sign", "SignProofOfPossession"}
  BY DEF Signer!Questions, Signer!Methods
<1>text. AnswerText(q) = Hex(Signer!RightAnswer(q)) /\ AnswerText(q).kind = "hex"
  BY <1>method, Zenon DEF AnswerText, Signature, BlobSignRequest, Signer!RightAnswer, Hex
<1>1. ASSUME a.status = 403, a.json
      PROVE  res.result = Fails
  <2>1. a.status # 200 /\ a.status # 202
    BY <1>1
  <2> QED
    BY <1>1, <2>1, ErrorFails
<1>2. ASSUME a.status = 202, q.method # "PublicKey"
      PROVE  res.result = Fails
  <2>1. a.status # 200
    BY <1>2
  <2> QED
    BY <1>2, <2>1, ErrorFails
<1>3. ASSUME NEW odd \in Odd(q),
             a = [status |-> 200, json |-> TRUE, body |-> Object(FieldOf(q), AnswerText(q), odd)]
      PROVE  res.result = "ok" /\ res.value = Signer!RightAnswer(q)
  <2>1. /\ a.status = 200 /\ a.json /\ ~ a.body.cut /\ a.body.odd = odd
        /\ Decoded(a.body, FieldOf(q)) = AnswerText(q)
    BY <1>3, Zenon DEF Object, Decoded
  <2>2. AnswerText(q) # Nil
    BY <1>text DEF Nil
  <2>3. /\ DecodeHex(AnswerText(q)).result = "ok"
        /\ DecodeHex(AnswerText(q)).value = Signer!RightAnswer(q)
    BY <1>text DEF DecodeHex, Hex
  <2>4. CASE q.method = "PublicKey"
    <3>1. ~ Refuses(Struct([public_key |-> Plain]), a.body.odd) /\ FieldOf(q) = "public_key"
      BY <2>1, <2>4, KeyTaken DEF Odd, FieldOf
    <3>2. PublicKeyResult(a) = DecodeHex(Decoded(a.body, "public_key"))
      BY <2>1, <2>2, <3>1, ResultDecoded
    <3> QED
      BY <2>1, <2>3, <2>4, <3>1, <3>2
  <2>5. CASE q.method # "PublicKey"
    <3>1. ~ Refuses(SignResponse, a.body.odd) /\ FieldOf(q) = "signature"
      BY <2>1, <2>5 DEF Odd, Refuses, FieldOf
    <3>2. SignResult(a) = DecodeHex(Decoded(a.body, "signature"))
      BY <2>1, <2>2, <3>1, ResultDecoded
    <3> QED
      BY <2>1, <2>3, <2>5, <3>1, <3>2
  <2> QED
    BY <2>4, <2>5
<1> QED
  <2>1. CASE a = [status |-> 403, json |-> TRUE, body |-> Object("message", Hex(<<"error">>), {})]
    BY <1>1, <2>1 DEF Fails
  <2>2. CASE \E odd \in Odd(q) :
               a = [status |-> 200, json |-> TRUE, body |-> Object(FieldOf(q), AnswerText(q), odd)]
    BY <1>3, <2>2, Zenon
  <2>3. CASE /\ q.method # "PublicKey"
             /\ \E odd \in {{}, {<<"accepted">>}} :
                  a = [status |-> 202, json |-> TRUE, body |-> Object("accepted", NoText, odd)]
    BY <1>2, <2>3 DEF Fails
  <2> QED
    BY <2>1, <2>2, <2>3, Zenon DEF Answers

(* A stray answer that is taken for a result is a forgery, or empty. *)
LEMMA StrayValue ==
  ASSUME NEW q, NEW a \in StrayAnswers, ResultOf(q, a).result = "ok"
  PROVE  ResultOf(q, a).value \in Forgeries \cup {<< >>}
<1> DEFINE Harmless(text) ==
      text.kind \in {"short", "other", "hex"}
        /\ (text.kind = "hex" => text.of \in Forgeries \cup {<< >>})
<1>1. \A field : Harmless(Decoded(a.body, field))
  BY DEF StrayAnswers, Decoded, Object, Hex, NoText, NoHex, Cut, Bad
<1>2. \A text : Harmless(text) /\ DecodeHex(text).result = "ok" =>
        DecodeHex(text).value \in Forgeries \cup {<< >>}
  BY DEF DecodeHex, Panic, Fails
<1> HIDE DEF Harmless
<1>3. ASSUME PublicKeyResult(a).result = "ok"
      PROVE  PublicKeyResult(a) = DecodeHex(Decoded(a.body, "public_key"))
  BY <1>3 DEF PublicKeyResult, parseGetKeyInOrgResponse, Parsed, Panic, Fails, Nil
<1>4. ASSUME SignResult(a).result = "ok"
      PROVE  SignResult(a) = DecodeHex(Decoded(a.body, "signature"))
  BY <1>4 DEF SignResult, ParseBlobSignResponse, Parsed, Fails, Nil
<1> QED
  BY <1>1, <1>2, <1>3, <1>4, Zenon DEF ResultOf

-----------------------------------------------------------------------------
(* The inductive invariant: what a handler has when it gets to a place,    *)
(* and what is in s.publicKey.                                             *)

Key == <<"public key">>

(* What s.publicKey can hold: the key, and what was given for it. *)
Known(forged) == {Key} \cup {v \in Forgeries \cup {<< >>} : forged}

Storing == {"store pointer", "store length"}
Answered == {"answered"} \cup Storing

IsCall(c) == DOMAIN c = {"pc", "question", "header", "answer", "forged", "array", "reply"}

CallResult(c) == ResultOf(c.question, c.answer).result

(* n is the number of stray answers so far; k says that one of them forged *)
(* a public key.                                                           *)
CallInv(c, n, k) ==
  /\ IsCall(c)
  /\ c.pc \in {"idle", "cache", "cached", "key", "request", "header", "sent", "replied"} \cup Answered
  /\ c.pc # "idle" => c.question \in Signer!Questions
  /\ c.pc \in {"cache", "cached", "key"} \cup Storing => c.question.method = "PublicKey"
  /\ c.pc = "key" => c.array \in Known(k)
  /\ c.forged \in BOOLEAN
  /\ c.forged => /\ c.pc \in Answered /\ c.answer \in StrayAnswers /\ CallResult(c) = "ok"
                 /\ c.question.method = "PublicKey" => k
  /\ c.pc \in Answered /\ ~ c.forged =>
       \/ c.answer \in Answers(c.question, c.header)
       \/ n > 0 /\ CallResult(c) # "ok"
  /\ c.pc \in Storing => CallResult(c) = "ok"

HandlersInv ==
  /\ strays \in Nat /\ forgedKey \in BOOLEAN
  /\ call = [r \in Requests |-> call[r]]
  /\ \A r \in Requests : CallInv(call[r], strays, forgedKey)

(* Without a forgery the words are those of the key; the length is missing *)
(* behind the pointer only while a handler is about to store it.           *)
KeyInv ==
  /\ publicKey \in [isNil : BOOLEAN, array : Arrays, length : Nat]
  /\ ~ publicKey.isNil => publicKey.array \in Known(forgedKey)
  /\ ~ forgedKey => publicKey.length \in {0, 1}
  /\ ~ forgedKey /\ ~ publicKey.isNil /\ publicKey.length = 0 =>
       WeakMemory /\ \E r \in Requests : call[r].pc = "store length"
  /\ \A r \in Requests :
       /\ call[r].pc \in {"cached", "key"} => ~ publicKey.isNil
       /\ call[r].pc = "store pointer" /\ ~ forgedKey => publicKey.length = 1

Inv == HandlersInv /\ KeyInv

LEMMA InvInit == Init => Inv
<1> SUFFICES ASSUME Init PROVE Inv
  OBVIOUS
<1>1. CallInv(NoCall, strays, forgedKey)
  BY DEF CallInv, IsCall, NoCall, Answered, Storing
<1>2. HandlersInv
  BY <1>1 DEF Init, HandlersInv
<1>3. KeyInv
  <2>1. publicKey.isNil = TRUE /\ publicKey.length = 0
    BY DEF Init, NoKey
  <2>2. publicKey \in [isNil : BOOLEAN, array : Arrays, length : Nat]
    BY DEF Init, NoKey, Arrays
  <2>3. \A r \in Requests : call[r].pc = "idle"
    BY DEF Init, NoCall
  <2> QED
    BY <2>1, <2>2, <2>3 DEF KeyInv
<1> QED
  BY <1>2, <1>3 DEF Inv

(* A step of one handler keeps the invariant if the place it gets to does. *)
LEMMA StepInv ==
  ASSUME HandlersInv, NEW r \in Requests, NEW from, NEW to, Step(r, from, to),
         strays' \in Nat, strays' >= strays, forgedKey' \in BOOLEAN, forgedKey => forgedKey',
         CallInv(to, strays', forgedKey')
  PROVE  HandlersInv'
<1>1. call' = [x \in Requests |-> IF x = r THEN to ELSE call[x]]
  BY DEF Step, HandlersInv
<1>2. ASSUME NEW c, CallInv(c, strays, forgedKey) PROVE CallInv(c, strays', forgedKey')
  BY <1>2 DEF CallInv, Known, HandlersInv
<1>3. \A x \in Requests : CallInv(call'[x], strays', forgedKey')
  <2> SUFFICES ASSUME NEW x \in Requests, x # r PROVE CallInv(call'[x], strays', forgedKey')
    BY <1>1
  <2>1. call'[x] = call[x] /\ CallInv(call[x], strays, forgedKey)
    BY <1>1 DEF HandlersInv
  <2> QED
    BY <1>2, <2>1
<1> QED
  BY <1>1, <1>3 DEF HandlersInv

LEMMA QuietStepInv ==
  ASSUME HandlersInv, NEW r \in Requests, NEW from, NEW to, Step(r, from, to),
         UNCHANGED history, CallInv(to, strays, forgedKey)
  PROVE  HandlersInv'
<1>1. strays' = strays /\ forgedKey' = forgedKey /\ strays \in Nat /\ forgedKey \in BOOLEAN
  BY DEF history, HandlersInv
<1> QED
  BY <1>1, StepInv

LEMMA ReplyInv ==
  ASSUME HandlersInv, NEW r \in Requests, call[r].pc # "idle", NEW a
  PROVE  CallInv(Reply(r, a), strays, forgedKey)
<1>1. /\ IsCall(Reply(r, a)) /\ Reply(r, a).forged = FALSE
      /\ Reply(r, a).pc = "replied" /\ Reply(r, a).question = call[r].question
  BY DEF Reply, NoCall, IsCall
<1>2. call[r].question \in Signer!Questions
  BY DEF HandlersInv, CallInv
<1> QED
  BY <1>1, <1>2 DEF CallInv, IsCall, Answered, Storing

(* A handler that has no answer yet. *)
LEMMA MoveInv ==
  ASSUME NEW c, NEW d, NEW n, NEW k, CallInv(c, n, k), c.pc \notin {"idle"} \cup Answered,
         IsCall(d), d.question = c.question, d.forged = c.forged,
         \/ d.pc \in {"request", "header", "sent"}
         \/ d.pc = "cached" /\ c.pc = "cache"
         \/ d.pc = "key" /\ c.pc = "cached" /\ d.array \in Known(k)
  PROVE  CallInv(d, n, k)
BY DEF CallInv, Answered, Storing

(* What an answer that is taken for a result gives. *)
LEMMA OkValue ==
  ASSUME NEW c, NEW n, NEW k, CallInv(c, n, k), c.pc \in Answered, CallResult(c) = "ok",
         NEW v, v = ResultOf(c.question, c.answer).value
  PROVE  /\ ~ c.forged => v = Signer!RightAnswer(c.question)
         /\ c.forged => v \in Forgeries \cup {<< >>}
         /\ c.question.method = "PublicKey" => v \in Known(k)
<1>1. c.question \in Signer!Questions
  BY DEF CallInv, Answered, Storing
<1>2. ASSUME ~ c.forged PROVE v = Signer!RightAnswer(c.question)
  <2>1. c.answer \in Answers(c.question, c.header)
    BY <1>2 DEF CallInv
  <2> QED
    BY <1>1, <2>1, AnswerIsRight DEF CallResult
<1>3. ASSUME c.forged PROVE v \in Forgeries \cup {<< >>}
  BY <1>3, StrayValue DEF CallInv, CallResult
<1>4. c.question.method = "PublicKey" => Signer!RightAnswer(c.question) = Key
  BY DEF Signer!RightAnswer, Key
<1>5. c.forged /\ c.question.method = "PublicKey" => k
  BY DEF CallInv
<1>6. c.forged \in BOOLEAN
  BY DEF CallInv
<1> QED
  BY <1>2, <1>3, <1>4, <1>5, <1>6 DEF Known

(* The handlers. *)
LEMMA HandlersInvStep ==
  ASSUME Inv, [Next]_vars
  PROVE  HandlersInv'
<1>type. HandlersInv /\ strays \in Nat /\ forgedKey \in BOOLEAN
  BY DEF Inv, HandlersInv
<1>quiet. ASSUME UNCHANGED <<call, history>> PROVE HandlersInv'
  BY <1>type, <1>quiet DEF HandlersInv, history
<1>1. CASE StorePointer \/ StoreLength
  BY <1>1, <1>quiet DEF StorePointer, StoreLength
<1>2. ASSUME NEW r \in Requests,
             Receive(r) \/ Handler(r) \/ Respond(r) \/ RespondStray(r) \/ CallFails(r)
      PROVE  HandlersInv'
  <2>call. CallInv(call[r], strays, forgedKey) /\ IsCall(call[r])
    BY <1>type DEF HandlersInv, CallInv
  <2>1. CASE Receive(r)
    <3>1. PICK q \in Signer!Questions :
            Step(r, "idle", [NoCall EXCEPT !.question = q,
                               !.pc = IF q.method = "PublicKey" THEN "cache" ELSE "request"])
      BY <2>1 DEF Receive
    <3> DEFINE p == IF q.method = "PublicKey" THEN "cache" ELSE "request"
               c == [NoCall EXCEPT !.question = q, !.pc = p]
    <3>2. IsCall(c) /\ c.pc = p /\ c.question = q /\ c.forged = FALSE
      BY DEF NoCall, IsCall
    <3>3. p \in {"cache", "request"} /\ (p = "cache" => q.method = "PublicKey")
      OBVIOUS
    <3>4. Step(r, "idle", c)
      BY <3>1
    <3> HIDE DEF p, c
    <3>5. CallInv(c, strays, forgedKey)
      BY <3>2, <3>3 DEF CallInv, Answered, Storing
    <3> QED
      BY <1>type, <2>1, <3>4, <3>5, QuietStepInv DEF Receive
  <2>2. CASE CacheHit(r)
    <3> DEFINE c == [call[r] EXCEPT !.pc = "cached"]
    <3>1. /\ IsCall(c) /\ c.pc = "cached" /\ c.question = call[r].question
          /\ c.forged = call[r].forged
      BY <2>call DEF IsCall
    <3>2. call[r].pc = "cache"
      BY <2>2 DEF CacheHit, Step
    <3>3. CallInv(c, strays, forgedKey)
      BY <2>call, <3>1, <3>2, MoveInv DEF Answered, Storing
    <3> QED
      BY <1>type, <2>2, <3>3, QuietStepInv DEF CacheHit
  <2>3. CASE LoadKeyPointer(r)
    <3> DEFINE c == [call[r] EXCEPT !.pc = "key", !.array = publicKey.array]
    <3>1. /\ IsCall(c) /\ c.pc = "key" /\ c.question = call[r].question
          /\ c.forged = call[r].forged /\ c.array = publicKey.array
      BY <2>call DEF IsCall
    <3>2. call[r].pc = "cached"
      BY <2>3 DEF LoadKeyPointer, Step
    <3>3. publicKey.array \in Known(forgedKey)
      BY <3>2 DEF Inv, KeyInv
    <3>4. CallInv(c, strays, forgedKey)
      BY <2>call, <3>1, <3>2, <3>3, MoveInv DEF Answered, Storing
    <3> QED
      BY <1>type, <2>3, <3>4, QuietStepInv DEF LoadKeyPointer
  <2>4. CASE NoCachedPublicKey(r)
    <3> DEFINE c == [call[r] EXCEPT !.pc = "request"]
    <3>1. /\ IsCall(c) /\ c.pc = "request" /\ c.question = call[r].question
          /\ c.forged = call[r].forged
      BY <2>call DEF IsCall
    <3>2. call[r].pc = "cache"
      BY <2>4 DEF NoCachedPublicKey, Step
    <3>3. CallInv(c, strays, forgedKey)
      BY <2>call, <3>1, <3>2, MoveInv DEF Answered, Storing
    <3> QED
      BY <1>type, <2>4, <3>3, QuietStepInv DEF NoCachedPublicKey
  <2>5. CASE LoadPointer(r)
    <3> DEFINE c == [call[r] EXCEPT !.pc = "header", !.header.pointer = token.pointer]
    <3>1. /\ IsCall(c) /\ c.pc = "header" /\ c.question = call[r].question
          /\ c.forged = call[r].forged
      BY <2>call DEF IsCall
    <3>2. call[r].pc = "request"
      BY <2>5 DEF LoadPointer, Step
    <3>3. CallInv(c, strays, forgedKey)
      BY <2>call, <3>1, <3>2, MoveInv DEF Answered, Storing
    <3> QED
      BY <1>type, <2>5, <3>3, QuietStepInv DEF LoadPointer
  <2>6. CASE LoadLength(r)
    <3> DEFINE c == [call[r] EXCEPT !.pc = "sent", !.header.length = token.length]
    <3>1. /\ IsCall(c) /\ c.pc = "sent" /\ c.question = call[r].question
          /\ c.forged = call[r].forged
      BY <2>call DEF IsCall
    <3>2. call[r].pc = "header"
      BY <2>6 DEF LoadLength, Step
    <3>3. CallInv(c, strays, forgedKey)
      BY <2>call, <3>1, <3>2, MoveInv DEF Answered, Storing
    <3> QED
      BY <1>type, <2>6, <3>3, QuietStepInv DEF LoadLength
  <2>7. CASE Respond(r)
    <3>1. PICK a \in Answers(call[r].question, call[r].header) :
            Step(r, "sent", [call[r] EXCEPT !.pc = "answered", !.answer = a])
      BY <2>7 DEF Respond
    <3> DEFINE c == [call[r] EXCEPT !.pc = "answered", !.answer = a]
    <3>2. /\ IsCall(c) /\ c.pc = "answered" /\ c.question = call[r].question
          /\ c.header = call[r].header /\ c.answer = a /\ c.forged = call[r].forged
      BY <2>call DEF IsCall
    <3>3. call[r].pc = "sent"
      BY <3>1 DEF Step
    <3> HIDE DEF c
    <3>4. CallInv(c, strays, forgedKey)
      BY <2>call, <3>2, <3>3 DEF CallInv, Answered, Storing
    <3> QED
      BY <1>type, <2>7, <3>1, <3>4, QuietStepInv DEF Respond, c
  <2>8. CASE RespondStray(r)
    <3>1. PICK a \in StrayAnswers :
            LET forged == IsForged(call[r].question, call[r].header, a)
            IN  /\ Step(r, "sent", [call[r] EXCEPT !.pc = "answered", !.answer = a,
                                                   !.forged = forged])
                /\ forgedKey' = (forgedKey \/ (forged /\ PublicKeyCall(r)))
      BY <2>8 DEF RespondStray
    <3> DEFINE f == IsForged(call[r].question, call[r].header, a)
               c == [call[r] EXCEPT !.pc = "answered", !.answer = a, !.forged = f]
    <3>2. /\ IsCall(c) /\ c.pc = "answered" /\ c.question = call[r].question
          /\ c.header = call[r].header /\ c.answer = a /\ c.forged = f
      BY <2>call DEF IsCall
    <3>3. call[r].pc = "sent" /\ Step(r, "sent", c)
      BY <3>1 DEF Step
    <3>4. /\ f \in BOOLEAN
          /\ f <=> ResultOf(c.question, c.answer).result = "ok" /\ a \notin Answers(c.question, c.header)
      BY <3>2 DEF IsForged
    <3>5. forgedKey' = (forgedKey \/ (f /\ c.question.method = "PublicKey"))
      BY <3>1, <3>2 DEF PublicKeyCall
    <3>6. strays' = strays + 1
      BY <2>8 DEF RespondStray
    <3> HIDE DEF c, f
    <3>7. strays' \in Nat /\ strays' >= strays /\ strays' > 0
      BY <1>type, <3>6
    <3>8. forgedKey' \in BOOLEAN /\ (forgedKey => forgedKey')
          /\ (f /\ c.question.method = "PublicKey" => forgedKey')
      BY <1>type, <3>4, <3>5
    <3>9. CallInv(c, strays', forgedKey')
      BY <2>call, <3>2, <3>3, <3>4, <3>7, <3>8 DEF CallInv, CallResult, Answered, Storing
    <3> QED
      BY <1>type, <3>3, <3>7, <3>8, <3>9, StepInv
  <2>9. CASE CachePublicKey(r)
    <3>1. PICK p \in Storing : Step(r, "answered", [call[r] EXCEPT !.pc = p])
      BY <2>9 DEF CachePublicKey, Storing
    <3> DEFINE c == [call[r] EXCEPT !.pc = p]
    <3>2. /\ IsCall(c) /\ c.pc = p /\ c.question = call[r].question /\ c.header = call[r].header
          /\ c.answer = call[r].answer /\ c.forged = call[r].forged
      BY <2>call DEF IsCall
    <3>3. call[r].pc = "answered" /\ CallResult(call[r]) = "ok" /\ call[r].question.method = "PublicKey"
      BY <2>9, <3>1 DEF CachePublicKey, Step, Result, CallResult, PublicKeyCall
    <3> HIDE DEF c
    <3>4. CallInv(c, strays, forgedKey)
      BY <2>call, <3>2, <3>3 DEF CallInv, CallResult, Answered, Storing
    <3> QED
      BY <1>type, <2>9, <3>1, <3>4, QuietStepInv DEF CachePublicKey, c
  <2>10. CASE CachedPublicKey(r) \/ CallFails(r) \/ ReturnError(r) \/ ReturnSignature(r)
              \/ ReturnPublicKey(r)
    <3>1. PICK from, a :
            from \in {"key", "sent", "answered"} \cup Storing /\ Step(r, from, Reply(r, a))
      BY <2>10 DEF CachedPublicKey, CallFails, ReturnError, ReturnSignature, ReturnPublicKey, Storing
    <3>2. call[r].pc # "idle"
      BY <3>1 DEF Step, Storing
    <3>3. UNCHANGED history
      BY <2>10 DEF CachedPublicKey, CallFails, ReturnError, ReturnSignature, ReturnPublicKey
    <3> QED
      BY <1>type, <3>1, <3>2, <3>3, ReplyInv, QuietStepInv
  <2>11. CASE HandlerPanics(r)
    BY <2>11, <1>quiet DEF HandlerPanics
  <2>12. CASE Send(r)
    <3>1. CallInv(NoCall, strays, forgedKey)
      BY DEF CallInv, IsCall, NoCall, Answered, Storing
    <3> QED
      BY <1>type, <2>12, <3>1, QuietStepInv DEF Send
  <2> QED
    BY <1>2, <2>1, <2>2, <2>3, <2>4, <2>5, <2>6, <2>7, <2>8, <2>9, <2>10, <2>11, <2>12
       DEF Handler
<1>3. CASE UNCHANGED vars
  BY <1>3, <1>quiet DEF vars
<1> QED
  BY <1>1, <1>2, <1>3 DEF Next

LEMMA KnownTyped ==
  ASSUME NEW k
  PROVE  /\ Known(k) \subseteq Arrays
         /\ \A v \in Known(k) : Len(v) \in Nat
         /\ ~ k => Known(k) = {Key}
         /\ Len(Key) = 1
<1>1. Len(Key) = 1 /\ Len(<< >>) = 0
  BY DEF Key
<1>2. \A v \in Forgeries : Len(v) \in Nat
  BY HandlersAssumption
<1>3. Known(k) \subseteq Arrays
  BY DEF Known, Arrays, Key
<1> QED
  BY <1>1, <1>2, <1>3 DEF Known

(* The words of s.publicKey. *)
LEMMA KeyInvStep ==
  ASSUME Inv, [Next]_vars
  PROVE  KeyInv'
<1>type. HandlersInv /\ KeyInv /\ forgedKey \in BOOLEAN
  BY DEF Inv, HandlersInv
<1> DEFINE Moves(r, from, to) ==
             \A x \in Requests : call[x]' = IF x = r THEN to ELSE call[x]
<1>step. ASSUME NEW r \in Requests, NEW from, NEW to, Step(r, from, to)
         PROVE  call[r].pc = from /\ Moves(r, from, to)
  BY <1>type, <1>step DEF Step, HandlersInv
<1> HIDE DEF Moves
<1>known. forgedKey => forgedKey'
  <2>1. CASE \E r \in Requests : RespondStray(r)
    BY <2>1, <1>type DEF RespondStray
  <2>2. CASE forgedKey' = forgedKey
    BY <2>2
  <2> QED
    BY <2>1, <2>2
       DEF Next, Handler, StorePointer, StoreLength, Receive, CacheHit, LoadKeyPointer,
           CachedPublicKey, NoCachedPublicKey, LoadPointer, LoadLength, Respond, CallFails,
           ReturnError, ReturnSignature, CachePublicKey, ReturnPublicKey, HandlerPanics, Send,
           vars, history
<1>quiet. ASSUME UNCHANGED <<call, publicKey>> PROVE KeyInv'
  BY <1>type, <1>known, <1>quiet DEF KeyInv, Known
(* A handler that neither stores nor leaves or enters the stores. *)
<1>move. ASSUME NEW r \in Requests, NEW from, NEW to, Step(r, from, to), publicKey' = publicKey,
                from # "store length", to.pc # "store pointer",
                to.pc \in {"cached", "key"} => ~ publicKey.isNil
         PROVE  KeyInv'
  <2>1. call[r].pc = from /\ \A x \in Requests : call[x]' = IF x = r THEN to ELSE call[x]
    BY <1>step, <1>move DEF Moves
  <2>2. \A x \in Requests : call[x].pc = "store length" => call[x]'.pc = "store length"
    BY <1>move, <2>1
  <2>3. \A x \in Requests :
          /\ call[x]'.pc \in {"cached", "key"} => ~ publicKey.isNil
          /\ call[x]'.pc = "store pointer" /\ ~ forgedKey' => publicKey.length = 1
    BY <1>type, <1>move, <1>known, <2>1 DEF KeyInv
  <2> QED
    BY <1>type, <1>move, <1>known, <2>2, <2>3 DEF KeyInv, Known
<1>1. CASE StorePointer \/ StoreLength
  BY <1>1, <1>quiet DEF StorePointer, StoreLength
<1>2. ASSUME NEW r \in Requests,
             Receive(r) \/ Handler(r) \/ Respond(r) \/ RespondStray(r) \/ CallFails(r)
      PROVE  KeyInv'
  <2>call. CallInv(call[r], strays, forgedKey) /\ IsCall(call[r])
    BY <1>type DEF HandlersInv, CallInv
  <2>1. CASE Receive(r)
    <3>1. PICK q \in Signer!Questions :
            Step(r, "idle", [NoCall EXCEPT !.question = q,
                               !.pc = IF q.method = "PublicKey" THEN "cache" ELSE "request"])
      BY <2>1 DEF Receive
    <3> DEFINE c == [NoCall EXCEPT !.question = q,
                       !.pc = IF q.method = "PublicKey" THEN "cache" ELSE "request"]
    <3>2. c.pc \in {"cache", "request"}
      BY DEF NoCall
    <3>3. Step(r, "idle", c) /\ publicKey' = publicKey
      BY <2>1, <3>1 DEF Receive, shared
    <3> HIDE DEF c
    <3> QED
      BY <1>move, <3>2, <3>3
  <2>2. CASE CacheHit(r)
    <3> DEFINE c == [call[r] EXCEPT !.pc = "cached"]
    <3>1. c.pc = "cached" /\ Step(r, "cache", c) /\ publicKey' = publicKey /\ ~ publicKey.isNil
      BY <2>2, <2>call DEF CacheHit, shared, KeyCached, IsCall
    <3> HIDE DEF c
    <3> QED
      BY <1>move, <3>1
  <2>3. CASE LoadKeyPointer(r)
    <3> DEFINE c == [call[r] EXCEPT !.pc = "key", !.array = publicKey.array]
    <3>1. c.pc = "key" /\ Step(r, "cached", c) /\ publicKey' = publicKey /\ call[r].pc = "cached"
      BY <2>3, <2>call DEF LoadKeyPointer, shared, IsCall, Step
    <3>2. ~ publicKey.isNil
      BY <1>type, <3>1 DEF KeyInv
    <3> HIDE DEF c
    <3> QED
      BY <1>move, <3>1, <3>2
  <2>4. CASE NoCachedPublicKey(r) \/ LoadPointer(r) \/ LoadLength(r) \/ Respond(r)
             \/ RespondStray(r)
    <3>1. PICK from, to :
            /\ from \in {"cache", "request", "header", "sent"} /\ Step(r, from, to)
            /\ to.pc \in {"request", "header", "sent", "answered"}
      <4>1. CASE NoCachedPublicKey(r)
        <5>1. [call[r] EXCEPT !.pc = "request"].pc = "request"
          BY <2>call DEF IsCall
        <5> QED
          BY <4>1, <5>1 DEF NoCachedPublicKey
      <4>2. CASE LoadPointer(r)
        <5>1. [call[r] EXCEPT !.pc = "header", !.header.pointer = token.pointer].pc = "header"
          BY <2>call DEF IsCall
        <5> QED
          BY <4>2, <5>1 DEF LoadPointer
      <4>3. CASE LoadLength(r)
        <5>1. [call[r] EXCEPT !.pc = "sent", !.header.length = token.length].pc = "sent"
          BY <2>call DEF IsCall
        <5> QED
          BY <4>3, <5>1 DEF LoadLength
      <4>4. CASE Respond(r)
        <5>1. \A a : [call[r] EXCEPT !.pc = "answered", !.answer = a].pc = "answered"
          BY <2>call DEF IsCall
        <5> QED
          BY <4>4, <5>1 DEF Respond
      <4>5. CASE RespondStray(r)
        <5>1. \A a, f : [call[r] EXCEPT !.pc = "answered", !.answer = a, !.forged = f].pc = "answered"
          BY <2>call DEF IsCall
        <5> QED
          BY <4>5, <5>1 DEF RespondStray
      <4> QED
        BY <2>4, <4>1, <4>2, <4>3, <4>4, <4>5
    <3>2. publicKey' = publicKey
      BY <2>4 DEF NoCachedPublicKey, LoadPointer, LoadLength, Respond, RespondStray, shared
    <3> QED
      BY <1>move, <3>1, <3>2
  <2>5. CASE CachedPublicKey(r) \/ CallFails(r) \/ ReturnError(r) \/ ReturnSignature(r) \/ Send(r)
    <3>1. PICK from, to :
            /\ from \in {"key", "sent", "answered", "replied"} /\ Step(r, from, to)
            /\ to.pc \in {"idle", "replied"}
      <4>1. (\A a : Reply(r, a).pc = "replied") /\ NoCall.pc = "idle"
        BY DEF Reply, NoCall
      <4> QED
        BY <2>5, <4>1 DEF CachedPublicKey, CallFails, ReturnError, ReturnSignature, Send
    <3>2. publicKey' = publicKey
      BY <2>5 DEF CachedPublicKey, CallFails, ReturnError, ReturnSignature, Send, shared
    <3> QED
      BY <1>move, <3>1, <3>2
  <2>6. CASE CachePublicKey(r) \/ ReturnPublicKey(r)
    <3> DEFINE v == Result(r).value
    <3>1. PICK from, to :
            /\ from \in Answered /\ Step(r, from, to)
            /\ \/ from = "answered" /\ to.pc = "store pointer" /\ SetLength(v)
               \/ WeakMemory /\ from = "answered" /\ to.pc = "store length" /\ SetPointer(v)
               \/ from = "store pointer" /\ to.pc = "replied" /\ SetPointer(v)
               \/ from = "store length" /\ to.pc = "replied" /\ SetLength(v)
      <4>1. \A a : Reply(r, a).pc = "replied"
        BY DEF Reply, NoCall
      <4>2. \A p : [call[r] EXCEPT !.pc = p].pc = p
        BY <2>call DEF IsCall
      <4> HIDE DEF v
      <4>3. CASE CachePublicKey(r)
        BY <4>2, <4>3 DEF CachePublicKey, Answered, v
      <4>4. CASE ReturnPublicKey(r)
        BY <4>1, <4>4 DEF ReturnPublicKey, Answered, Storing, v
      <4> QED
        BY <2>6, <4>3, <4>4
    <3>2. /\ call[r].pc = from
          /\ \A x \in Requests : call[x]' = IF x = r THEN to ELSE call[x]
      BY <3>1, <1>step DEF Moves
    <3>3. /\ CallResult(call[r]) = "ok" /\ call[r].question.method = "PublicKey"
          /\ v = ResultOf(call[r].question, call[r].answer).value
      <4>1. CASE from = "answered"
        BY <2>6, <3>2, <4>1
           DEF CachePublicKey, ReturnPublicKey, Step, Result, CallResult, PublicKeyCall
      <4>2. CASE from \in Storing
        BY <2>call, <3>2, <4>2 DEF CallInv, Result, Storing
      <4> QED
        BY <3>1, <4>1, <4>2 DEF Answered
    <3>4. v \in Known(forgedKey)
      BY <2>call, <3>1, <3>2, <3>3, OkValue
    <3>5. forgedKey' = forgedKey
      BY <2>6 DEF CachePublicKey, ReturnPublicKey, history
    <3> HIDE DEF v
    <3>6. v \in Arrays /\ Len(v) \in Nat /\ (~ forgedKey => v = Key /\ Len(v) = 1)
      BY <3>4, KnownTyped
    <3>7. CASE SetLength(v) /\ (to.pc = "replied" \/ to.pc = "store pointer")
      <4>1. publicKey' = [publicKey EXCEPT !.length = Len(v)]
        BY <3>7 DEF SetLength
      <4>2. /\ publicKey' \in [isNil : BOOLEAN, array : Arrays, length : Nat]
            /\ publicKey'.isNil = publicKey.isNil /\ publicKey'.array = publicKey.array
            /\ publicKey'.length = Len(v)
        BY <1>type, <3>6, <4>1 DEF KeyInv
      <4>3. \A x \in Requests : call[x]'.pc \in {"cached", "key"} => ~ publicKey'.isNil
        BY <1>type, <3>2, <3>7, <4>2 DEF KeyInv
      <4>4. ~ publicKey'.isNil => publicKey'.array \in Known(forgedKey')
        BY <1>type, <3>5, <4>2, Zenon DEF KeyInv
      <4>5. ~ forgedKey' => publicKey'.length = 1
        BY <3>5, <3>6, <4>2
      <4>6. publicKey'.length = 1 => publicKey'.length \in {0, 1} /\ ~ (publicKey'.length = 0)
        OBVIOUS
      <4> QED
        BY <4>2, <4>3, <4>4, <4>5, <4>6, Zenon DEF KeyInv
    <3>8. CASE SetPointer(v) /\ \/ from = "store pointer" /\ to.pc = "replied"
                                \/ WeakMemory /\ to.pc = "store length"
      <4>1. publicKey' = [publicKey EXCEPT !.isNil = FALSE, !.array = v]
        BY <3>8 DEF SetPointer
      <4>2. /\ publicKey' \in [isNil : BOOLEAN, array : Arrays, length : Nat]
            /\ publicKey'.isNil = FALSE /\ publicKey'.array = v
            /\ publicKey'.length = publicKey.length
        BY <1>type, <3>6, <4>1 DEF KeyInv
      <4>3. ~ forgedKey /\ publicKey.length = 0 => WeakMemory /\ call[r]'.pc = "store length"
        <5>1. CASE from = "store pointer"
          <6>1. ~ forgedKey => publicKey.length = 1
            BY <1>type, <3>2, <5>1 DEF KeyInv
          <6>2. publicKey.length = 1 => ~ (publicKey.length = 0)
            OBVIOUS
          <6> QED
            BY <6>1, <6>2, Zenon
        <5>2. CASE WeakMemory /\ to.pc = "store length"
          BY <3>2, <5>2
        <5> QED
          BY <3>8, <5>1, <5>2
      <4>4. \A x \in Requests : call[x]'.pc = "store pointer" => call[x].pc = "store pointer"
        BY <3>2, <3>8
      <4> QED
        BY <1>type, <3>4, <3>5, <4>2, <4>3, <4>4 DEF KeyInv
    <3> QED
      BY <3>1, <3>7, <3>8
  <2>7. CASE HandlerPanics(r)
    BY <2>7, <1>quiet DEF HandlerPanics
  <2> QED
    BY <1>2, <2>1, <2>2, <2>3, <2>4, <2>5, <2>6, <2>7 DEF Handler
<1>3. CASE UNCHANGED vars
  BY <1>3, <1>quiet DEF vars, shared
<1> QED
  BY <1>1, <1>2, <1>3 DEF Next

LEMMA Invariant == Spec => []Inv
<1>1. Inv /\ [Next]_vars => Inv'
  BY HandlersInvStep, KeyInvStep DEF Inv
<1> QED
  BY <1>1, InvInit, PTL DEF Spec

-----------------------------------------------------------------------------
(* Types. *)

SharedTyped ==
  /\ serving \in BOOLEAN
  /\ token \in Header /\ token.pointer \in Tokens
  /\ strays \in 0..StrayBudget

(* A handler that has begun with its header has a pointer to a token. *)
HeaderTyped(c) ==
  /\ DOMAIN c.header = {"pointer", "length"}
  /\ c.pc \in {"header", "sent", "answered"} => c.header.pointer \in Tokens

TypeInv == SharedTyped /\ \A r \in Requests : HeaderTyped(call[r])

LEMMA TokenLengths ==
  /\ 1 \in Tokens
  /\ Tokens \subseteq Nat
  /\ \A n \in Tokens : TokenLength[n] \in Nat
BY HandlersAssumption DEF Tokens

LEMMA SharedTypedStep ==
  ASSUME SharedTyped, [Next]_vars
  PROVE  SharedTyped'
<1> USE DEF SharedTyped
<1>1. token' \in Header /\ token'.pointer \in Tokens
  <2>1. CASE StorePointer
    BY <2>1, TokenLengths DEF StorePointer, Header
  <2>2. CASE StoreLength
    BY <2>2, TokenLengths DEF StoreLength, Header
  <2>3. CASE token' = token
    BY <2>3
  <2> QED
    BY <2>1, <2>2, <2>3
       DEF Next, Handler, Receive, CacheHit, LoadKeyPointer, CachedPublicKey, NoCachedPublicKey,
           LoadPointer, LoadLength, Respond, RespondStray, CallFails, ReturnError,
           ReturnSignature, CachePublicKey, ReturnPublicKey, HandlerPanics, Send, vars, shared
<1>2. strays' \in 0..StrayBudget
  <2>1. CASE \E r \in Requests : RespondStray(r)
    BY <2>1, HandlersAssumption DEF RespondStray
  <2>2. CASE strays' = strays
    BY <2>2
  <2> QED
    BY <2>1, <2>2
       DEF Next, Handler, StorePointer, StoreLength, Receive, CacheHit, LoadKeyPointer,
           CachedPublicKey, NoCachedPublicKey, LoadPointer, LoadLength, Respond, CallFails,
           ReturnError, ReturnSignature, CachePublicKey, ReturnPublicKey, HandlerPanics, Send,
           vars, history
<1>3. serving' \in BOOLEAN
  <2>1. CASE \E r \in Requests : HandlerPanics(r)
    BY <2>1 DEF HandlerPanics
  <2>2. CASE serving' = serving
    BY <2>2
  <2> QED
    BY <2>1, <2>2
       DEF Next, Handler, StorePointer, StoreLength, Receive, CacheHit, LoadKeyPointer,
           CachedPublicKey, NoCachedPublicKey, LoadPointer, LoadLength, Respond, RespondStray,
           CallFails, ReturnError, ReturnSignature, CachePublicKey, ReturnPublicKey, Send, Step,
           vars, shared
<1> QED
  BY <1>1, <1>2, <1>3

(* Only LoadPointer comes to a place at which a header is needed without   *)
(* having been at one.                                                     *)
LEMMA HeaderTypedStep ==
  ASSUME HandlersInv, TypeInv, [Next]_vars, NEW x \in Requests
  PROVE  HeaderTyped(call'[x])
<1>0. HeaderTyped(call[x])
  BY DEF TypeInv
<1>1. CASE call' = call
  BY <1>0, <1>1
<1>2. ASSUME NEW r \in Requests, NEW from, NEW to, Step(r, from, to), HeaderTyped(to)
      PROVE  HeaderTyped(call'[x])
  <2>1. call' = [y \in Requests |-> IF y = r THEN to ELSE call[y]]
    BY <1>2 DEF Step, HandlersInv
  <2> QED
    BY <1>0, <1>2, <2>1
<1>3. ASSUME NEW r \in Requests,
             Receive(r) \/ Handler(r) \/ Respond(r) \/ RespondStray(r) \/ CallFails(r)
      PROVE  HeaderTyped(call'[x])
  <2>type. HeaderTyped(call[r]) /\ IsCall(call[r]) /\ token.pointer \in Tokens
    BY DEF TypeInv, SharedTyped, HandlersInv, CallInv
  <2>1. CASE Receive(r)
    <3>1. PICK q \in Signer!Questions :
            Step(r, "idle", [NoCall EXCEPT !.question = q,
                               !.pc = IF q.method = "PublicKey" THEN "cache" ELSE "request"])
      BY <2>1 DEF Receive
    <3>2. HeaderTyped([NoCall EXCEPT !.question = q,
                         !.pc = IF q.method = "PublicKey" THEN "cache" ELSE "request"])
      BY DEF HeaderTyped, NoCall, NoHeader
    <3> QED
      BY <1>2, <3>1, <3>2
  <2>2. \A a : HeaderTyped(Reply(r, a)) /\ HeaderTyped(NoCall)
    BY DEF HeaderTyped, Reply, NoCall, NoHeader
  <2>3. CASE CachedPublicKey(r) \/ CallFails(r) \/ ReturnError(r) \/ ReturnSignature(r)
             \/ ReturnPublicKey(r) \/ Send(r)
    BY <1>2, <2>2, <2>3 DEF CachedPublicKey, CallFails, ReturnError, ReturnSignature,
                            ReturnPublicKey, Send
  <2>4. CASE CacheHit(r) \/ NoCachedPublicKey(r) \/ CachePublicKey(r)
    <3>1. PICK from \in {"cache", "answered"}, p \in {"cached", "request"} \cup Storing :
            Step(r, from, [call[r] EXCEPT !.pc = p])
      BY <2>4 DEF CacheHit, NoCachedPublicKey, CachePublicKey, Storing
    <3>2. HeaderTyped([call[r] EXCEPT !.pc = p])
      BY <2>type, <3>1 DEF HeaderTyped, IsCall, Storing
    <3> QED
      BY <1>2, <3>1, <3>2
  <2>5. CASE LoadKeyPointer(r)
    <3>1. HeaderTyped([call[r] EXCEPT !.pc = "key", !.array = publicKey.array])
      BY <2>type DEF HeaderTyped, IsCall
    <3> QED
      BY <1>2, <2>5, <3>1 DEF LoadKeyPointer
  <2>6. CASE LoadPointer(r)
    <3>1. Step(r, "request", [call[r] EXCEPT !.pc = "header", !.header.pointer = token.pointer])
      BY <2>6 DEF LoadPointer
    <3>2. HeaderTyped([call[r] EXCEPT !.pc = "header", !.header.pointer = token.pointer])
      BY <2>type DEF HeaderTyped, IsCall
    <3> QED
      BY <1>2, <3>1, <3>2
  <2>7. CASE LoadLength(r)
    <3>1. Step(r, "header", [call[r] EXCEPT !.pc = "sent", !.header.length = token.length])
      BY <2>7 DEF LoadLength
    <3>2. HeaderTyped([call[r] EXCEPT !.pc = "sent", !.header.length = token.length])
      BY <2>type, <3>1 DEF Step, HeaderTyped, IsCall
    <3> QED
      BY <1>2, <3>1, <3>2
  <2>8. CASE Respond(r)
    <3>1. PICK a : Step(r, "sent", [call[r] EXCEPT !.pc = "answered", !.answer = a])
      BY <2>8 DEF Respond
    <3>2. HeaderTyped([call[r] EXCEPT !.pc = "answered", !.answer = a])
      BY <2>type, <3>1 DEF Step, HeaderTyped, IsCall
    <3> QED
      BY <1>2, <3>1, <3>2
  <2>9. CASE RespondStray(r)
    <3>1. PICK a, f : Step(r, "sent", [call[r] EXCEPT !.pc = "answered", !.answer = a, !.forged = f])
      BY <2>9 DEF RespondStray
    <3>2. HeaderTyped([call[r] EXCEPT !.pc = "answered", !.answer = a, !.forged = f])
      BY <2>type, <3>1 DEF Step, HeaderTyped, IsCall
    <3> QED
      BY <1>2, <3>1, <3>2
  <2>10. CASE HandlerPanics(r)
    BY <1>1, <2>10 DEF HandlerPanics
  <2> QED
    BY <1>3, <2>1, <2>3, <2>4, <2>5, <2>6, <2>7, <2>8, <2>9, <2>10 DEF Handler
<1> QED
  BY <1>1, <1>3 DEF Next, StorePointer, StoreLength, vars

(* The types; and a request goes out with a pointer to a token that was    *)
(* issued, whatever length it has beside it.                               *)
THEOREM TypeCorrect == Spec => []TypeOK
<1>1. Init => TypeInv
  <2> SUFFICES ASSUME Init PROVE TypeInv
    OBVIOUS
  <2>1. SharedTyped
    BY TokenLengths, HandlersAssumption DEF Init, SharedTyped, Header
  <2>2. \A r \in Requests : HeaderTyped(call[r])
    BY DEF Init, NoCall, NoHeader, HeaderTyped
  <2> QED
    BY <2>1, <2>2 DEF TypeInv
<1>2. Inv /\ TypeInv /\ [Next]_vars => TypeInv'
  BY SharedTypedStep, HeaderTypedStep DEF Inv, TypeInv, HeaderTyped
<1>3. Inv /\ TypeInv => TypeOK
  BY DEF Inv, HandlersInv, KeyInv, CallInv, TypeInv, SharedTyped, HeaderTyped, TypeOK,
         Answered, Storing
<1> QED
  BY <1>1, <1>2, <1>3, Invariant, PTL DEF Spec

(* A 200 of CubeSigner is always a result for the caller.                  *)
THEOREM AnswersSucceed == Spec => []OwnAnswerSucceeds
<1>1. Inv => OwnAnswerSucceeds
  <2> SUFFICES ASSUME Inv, NEW r \in Requests,
                      call[r].pc = "answered", call[r].answer.status = 200,
                      call[r].answer \in Answers(call[r].question, call[r].header)
               PROVE  Result(r).result = "ok"
    BY DEF OwnAnswerSucceeds
  <2>1. call[r].question \in Signer!Questions
    BY DEF Inv, HandlersInv, CallInv
  <2> QED
    BY <2>1, AnswerIsRight DEF Result
<1> QED
  BY <1>1, Invariant, PTL

(* An answer of CubeSigner itself is an error or a result for every        *)
(* handler, so a process that has died has had a stray one.                *)
THEOREM OnlyStraysPanic == Spec => []PanicOnlyOnStray
<1>1. Init => PanicOnlyOnStray
  BY DEF Init, PanicOnlyOnStray
<1>2. Inv /\ PanicOnlyOnStray /\ [Next]_vars => PanicOnlyOnStray'
  <2> SUFFICES ASSUME Inv, PanicOnlyOnStray, [Next]_vars PROVE PanicOnlyOnStray'
    OBVIOUS
  <2>1. CASE \E r \in Requests : HandlerPanics(r)
    <3>1. PICK r \in Requests : HandlerPanics(r)
      BY <2>1
    <3>2. /\ CallInv(call[r], strays, forgedKey) /\ call[r].pc = "answered"
          /\ CallResult(call[r]) = Panic
      BY <3>1 DEF Inv, HandlersInv, HandlerPanics, Result, CallResult
    <3>3. call[r].answer \notin Answers(call[r].question, call[r].header)
      <4> SUFFICES ASSUME call[r].answer \in Answers(call[r].question, call[r].header) PROVE FALSE
        OBVIOUS
      <4>1. call[r].question \in Signer!Questions
        BY <3>2 DEF CallInv
      <4>2. CallResult(call[r]) \in {Fails, "ok"}
        BY <4>1, AnswerIsRight DEF CallResult
      <4> QED
        BY <3>2, <4>2 DEF Panic, Fails
    <3>4. ~ call[r].forged
      BY <3>2 DEF CallInv, Panic
    <3>5. strays > 0 /\ strays' = strays
      BY <3>1, <3>2, <3>3, <3>4 DEF CallInv, HandlerPanics, Answered, history
    <3> QED
      BY <3>5 DEF PanicOnlyOnStray
  <2>2. CASE \E r \in Requests : RespondStray(r)
    BY <2>2 DEF RespondStray, Step, PanicOnlyOnStray, shared
  <2>3. CASE ~ (\E r \in Requests : HandlerPanics(r) \/ RespondStray(r))
    <3>1. UNCHANGED <<serving, strays>>
      BY <2>3
         DEF Next, Handler, StorePointer, StoreLength, Receive, CacheHit, LoadKeyPointer,
             CachedPublicKey, NoCachedPublicKey, LoadPointer, LoadLength, Respond, CallFails,
             ReturnError, ReturnSignature, CachePublicKey, ReturnPublicKey, Send, vars, shared,
             history
    <3> QED
      BY <3>1 DEF PanicOnlyOnStray
  <2> QED
    BY <2>1, <2>2, <2>3
<1> QED
  BY <1>1, <1>2, Invariant, PTL DEF Spec

-----------------------------------------------------------------------------
(* The refinement. *)

(* What avalanchego sees of all handlers. *)
SeenAll == [r \in Requests |-> Seen(call[r])]

Busy == {"cache", "cached", "key", "request", "header", "sent", "answered", "store pointer"}

LEMMA BusyIsSeen ==
  ASSUME NEW c, c.pc \in Busy
  PROVE  Seen(c) = [phase |-> IF c.forged THEN "forged" ELSE "pending", question |-> c.question]
BY DEF Seen, Busy

LEMMA PendingIsSeen ==
  ASSUME NEW c, c.pc \in Busy
  PROVE  /\ ~ c.forged => Seen(c) = Signer!Pending(c.question)
         /\ c.forged => Seen(c) = Signer!Forged(c.question)
<1>1. Seen(c) = [phase |-> IF c.forged THEN "forged" ELSE "pending", question |-> c.question]
  BY BusyIsSeen
<1> QED
  BY <1>1, Zenon DEF Signer!Pending, Signer!Forged

LEMMA HalfStoredIsSeen ==
  ASSUME NEW c, c.pc = "store length"
  PROVE  Seen(c) = Signer!HalfStored(c.question) /\ Seen(c).phase = "half stored"
BY DEF Seen, Signer!HalfStored

LEMMA StepIsSeen ==
  ASSUME HandlersInv, NEW r \in Requests, NEW from, NEW to, Step(r, from, to)
  PROVE  /\ SeenAll' = [SeenAll EXCEPT ![r] = Seen(to)]
         /\ Seen(to) = Seen(call[r]) => SeenAll' = SeenAll
<1>1. call' = [x \in Requests |-> IF x = r THEN to ELSE call[x]]
  BY DEF Step, HandlersInv
<1>2. \A x \in Requests : Seen(call'[x]) = IF x = r THEN Seen(to) ELSE Seen(call[x])
  BY <1>1
<1> QED
  BY <1>2 DEF SeenAll

(* A handler that ends with reply a to the question it was asked. *)
LEMMA ReplyIsAnswer ==
  ASSUME HandlersInv, NEW r \in Requests, NEW from \in Busy \cup {"store length"}, NEW a,
         Step(r, from, Reply(r, a)), serving' = serving, forgedKey' = forgedKey, a \in Signer!Replies(r, call[r].question)
  PROVE  Signer!Answer(r)
<1> DEFINE q == call[r].question
<1>1. serving /\ call[r].pc = from /\ q \in Signer!Questions
  BY DEF Step, HandlersInv, CallInv, Busy, Answered, Storing
<1>2. Seen(Reply(r, a)) = Signer!Replied(q, a)
  BY DEF Seen, Reply, NoCall, Signer!Replied
<1>3. SeenAll[r] \in {Signer!Pending(q), Signer!Forged(q), Signer!HalfStored(q)}
  <2>1. SeenAll[r] = Seen(call[r])
    BY DEF SeenAll
  <2>2. CASE from \in Busy
    BY <1>1, <2>1, <2>2, BusyIsSeen DEF Signer!Pending, Signer!Forged
  <2>3. CASE from = "store length"
    BY <1>1, <2>1, <2>3, HalfStoredIsSeen
  <2> QED
    BY <2>2, <2>3
<1>4. SeenAll' = [SeenAll EXCEPT ![r] = Signer!Replied(q, a)]
  BY <1>2, StepIsSeen
<1> QED
  BY <1>1, <1>3, <1>4 DEF Signer!Answer, SeenAll

(* A step between receiving a request and having its reply. *)
LEMMA BusyIsStutter ==
  ASSUME HandlersInv, NEW r \in Requests, NEW from \in Busy, NEW to, Step(r, from, to),
         serving' = serving, forgedKey' = forgedKey,
         to.pc \in Busy, to.question = call[r].question, to.forged = call[r].forged
  PROVE  UNCHANGED <<serving, SeenAll, forgedKey>>
<1>1. call[r].pc = from
  BY DEF Step
<1>2. Seen(to) = Seen(call[r])
  BY <1>1, BusyIsSeen
<1> QED
  BY <1>2, StepIsSeen

LEMMA RepliesAre ==
  ASSUME NEW r \in Requests, NEW q, NEW v
  PROVE  /\ v = Signer!RightAnswer(q) => Signer!Ok(v) \in Signer!Replies(r, q)
         /\ /\ v \in Forgeries \cup {<< >>, Torn}
            /\ SeenAll[r].phase = "forged" \/ (q.method = "PublicKey" /\ forgedKey)
            => Signer!Ok(v) \in Signer!Replies(r, q)
         /\ v = << >> /\ q.method = "PublicKey" /\ Signer!Disturbed(r)
            => Signer!Ok(v) \in Signer!Replies(r, q)
<1>1. SeenAll[r] = Seen(call[r])
  BY DEF SeenAll
<1>2. v = Signer!RightAnswer(q) => Signer!Ok(v) \in Signer!Replies(r, q)
  BY Zenon DEF Signer!Replies
<1>3. ASSUME v \in Forgeries \cup {<< >>, Torn},
             SeenAll[r].phase = "forged" \/ (q.method = "PublicKey" /\ forgedKey)
      PROVE  Signer!Ok(v) \in Signer!Replies(r, q)
  BY <1>1, <1>3, Zenon DEF Signer!Replies, SeenAll
<1>4. ASSUME v = << >>, q.method = "PublicKey", Signer!Disturbed(r)
      PROVE  Signer!Ok(v) \in Signer!Replies(r, q)
  BY <1>4, Zenon DEF Signer!Replies
<1> QED
  BY <1>2, <1>3, <1>4

(* What a handler decodes is the right answer, or forged. *)
LEMMA ResultIsReply ==
  ASSUME HandlersInv, NEW r \in Requests, call[r].pc \in Answered, CallResult(call[r]) = "ok",
         NEW v, v = Result(r).value
  PROVE  Signer!Ok(v) \in Signer!Replies(r, call[r].question)
<1>1. /\ CallInv(call[r], strays, forgedKey)
      /\ v = ResultOf(call[r].question, call[r].answer).value
  BY DEF HandlersInv, Result
<1>2. CASE ~ call[r].forged
  BY <1>1, <1>2, OkValue, RepliesAre
<1>3. CASE call[r].forged
  <2>1. v \in Forgeries \cup {<< >>, Torn}
    BY <1>1, <1>3, OkValue
  <2>2. CASE call[r].pc \in Busy
    <3>1. SeenAll[r].phase = "forged"
      BY <1>3, <2>2, BusyIsSeen DEF SeenAll
    <3> QED
      BY <2>1, <3>1, RepliesAre
  <2>3. CASE call[r].pc = "store length"
    <3>1. call[r].question.method = "PublicKey" /\ forgedKey
      BY <1>1, <1>3, <2>3 DEF CallInv, Storing
    <3> QED
      BY <2>1, <3>1, RepliesAre
  <2> QED
    BY <2>2, <2>3 DEF Busy, Answered, Storing
<1> QED
  BY <1>2, <1>3

(* What s.publicKey gives is the right key; or one that was forged, or a   *)
(* piece of one; or empty, while another handler stores the key.           *)
LEMMA CachedIsReply ==
  ASSUME Inv, NEW r \in Requests, call[r].pc = "key",
         NEW v, v = Slice(call[r].array, publicKey.length)
  PROVE  Signer!Ok(v) \in Signer!Replies(r, call[r].question)
<1> DEFINE q == call[r].question
<1>1. /\ HandlersInv /\ KeyInv /\ CallInv(call[r], strays, forgedKey)
      /\ q.method = "PublicKey" /\ call[r].array \in Known(forgedKey) /\ ~ publicKey.isNil
  BY DEF Inv, HandlersInv, CallInv, KeyInv
<1>2. Signer!RightAnswer(q) = Key
  BY <1>1 DEF Signer!RightAnswer, Key
<1>3. CASE forgedKey
  <2>1. v \in {<< >>, Torn} \cup Known(forgedKey)
    BY <1>1 DEF Slice
  <2>2. v = Key \/ v \in Forgeries \cup {<< >>, Torn}
    BY <2>1 DEF Known
  <2> QED
    BY <1>1, <1>2, <1>3, <2>2, RepliesAre
<1>4. CASE ~ forgedKey
  <2>1. call[r].array = Key /\ Len(Key) = 1
    BY <1>1, <1>4, KnownTyped
  <2>2. CASE publicKey.length = 1
    <3>1. v = Key
      BY <2>1, <2>2 DEF Slice
    <3> QED
      BY <1>2, <3>1, RepliesAre
  <2>3. CASE publicKey.length = 0
    <3>1. v = << >>
      BY <2>3 DEF Slice
    <3>2. PICK x \in Requests : call[x].pc = "store length"
      BY <1>1, <1>4, <2>3 DEF KeyInv
    <3>3. x # r
      BY <3>2
    <3>4. Seen(call[x]).phase = "half stored"
      BY <3>2, HalfStoredIsSeen
    <3>5. Signer!Disturbed(r)
      BY <3>3, <3>4 DEF Signer!Disturbed
    <3> QED
      BY <1>1, <3>1, <3>5, RepliesAre
  <2> QED
    BY <1>1, <1>4, <2>2, <2>3 DEF KeyInv
<1>5. forgedKey \in BOOLEAN
  BY <1>1 DEF HandlersInv
<1> QED
  BY <1>3, <1>4, <1>5

LEMMA RefinementStep ==
  ASSUME Inv, [Next]_vars
  PROVE  [Signer!Next]_<<serving, SeenAll, forgedKey>>
<1>type. HandlersInv
  BY DEF Inv
<1>quiet. ASSUME UNCHANGED <<serving, call, forgedKey>> PROVE UNCHANGED <<serving, SeenAll, forgedKey>>
  BY <1>quiet DEF SeenAll
<1>answers. ASSUME NEW r \in Requests, Signer!Answer(r) PROVE Signer!Next
  BY <1>answers DEF Signer!Next
<1>1. CASE StorePointer \/ StoreLength
  BY <1>1, <1>quiet DEF StorePointer, StoreLength, history
<1>2. ASSUME NEW r \in Requests,
             Receive(r) \/ Handler(r) \/ Respond(r) \/ RespondStray(r) \/ CallFails(r)
      PROVE  [Signer!Next]_<<serving, SeenAll, forgedKey>>
  <2>call. CallInv(call[r], strays, forgedKey) /\ IsCall(call[r])
    BY <1>type DEF HandlersInv, CallInv
  <2>error. Signer!Error \in Signer!Replies(r, call[r].question)
    BY DEF Signer!Replies
  <2> USE DEF shared, history, Answered, Storing
  <2>1. CASE Receive(r)
    <3>1. PICK q \in Signer!Questions :
            Step(r, "idle", [NoCall EXCEPT !.question = q,
                               !.pc = IF q.method = "PublicKey" THEN "cache" ELSE "request"])
      BY <2>1 DEF Receive
    <3> DEFINE p == IF q.method = "PublicKey" THEN "cache" ELSE "request"
               c == [NoCall EXCEPT !.question = q, !.pc = p]
    <3>2. c.pc \in {"cache", "request"} /\ c.question = q /\ c.forged = FALSE
      BY DEF NoCall
    <3>step. Step(r, "idle", c)
      BY <3>1
    <3> HIDE DEF p, c
    <3>3. Seen(c) = Signer!Pending(q)
      <4>1. c.pc \in Busy
        BY <3>2 DEF Busy
      <4> QED
        BY <3>2, <4>1, PendingIsSeen, Zenon
    <3>4. SeenAll' = [SeenAll EXCEPT ![r] = Signer!Pending(q)]
      BY <1>type, <3>step, <3>3, StepIsSeen
    <3>5. serving /\ SeenAll[r] = Signer!Idle
      BY <3>1 DEF Step, SeenAll, Seen, Signer!Idle
    <3>6. serving' = serving /\ forgedKey' = forgedKey
      BY <2>1 DEF Receive
    <3>7. Signer!Ask(r)
      BY <3>4, <3>5, <3>6 DEF Signer!Ask, SeenAll
    <3> QED
      BY <3>7 DEF Signer!Next
  <2>2. CASE CacheHit(r) \/ NoCachedPublicKey(r) \/ CachePublicKey(r)
    <3>1. PICK from \in {"cache", "answered"},
               p \in {"cached", "request", "store pointer", "store length"} :
            /\ Step(r, from, [call[r] EXCEPT !.pc = p])
            /\ p = "store length" => WeakMemory /\ from = "answered" /\ PublicKeyCall(r)
      BY <2>2 DEF CacheHit, NoCachedPublicKey, CachePublicKey
    <3> DEFINE c == [call[r] EXCEPT !.pc = p]
    <3>2. c.pc = p /\ c.question = call[r].question /\ c.forged = call[r].forged
      BY <2>call DEF IsCall
    <3>3. serving' = serving /\ forgedKey' = forgedKey
      BY <2>2 DEF CacheHit, NoCachedPublicKey, CachePublicKey
    <3>step. Step(r, from, c)
      BY <3>1
    <3> HIDE DEF c
    <3>4. CASE p # "store length"
      BY <1>type, <3>step, <3>2, <3>3, <3>4, BusyIsStutter DEF Busy
    <3>5. CASE p = "store length"
      <4> DEFINE q == call[r].question
      <4>1. WeakMemory /\ serving /\ call[r].pc = "answered" /\ q.method = "PublicKey"
        BY <3>1, <3>5 DEF Step, PublicKeyCall
      <4>2. q \in Signer!Questions
        <5>1. call[r].pc # "idle"
          BY <4>1
        <5> QED
          BY <2>call, <5>1 DEF CallInv
      <4>3. SeenAll[r] \in {Signer!Pending(q), Signer!Forged(q)}
        <5>1. call[r].pc \in Busy /\ SeenAll[r] = Seen(call[r])
          BY <4>1 DEF SeenAll, Busy
        <5>2. Seen(call[r]) \in {Signer!Pending(q), Signer!Forged(q)}
          BY <5>1, PendingIsSeen, Zenon
        <5> QED
          BY <5>1, <5>2
      <4>4. SeenAll' = [SeenAll EXCEPT ![r] = Signer!HalfStored(q)]
        <5>1. Seen(c) = Signer!HalfStored(q)
          BY <3>2, <3>5, HalfStoredIsSeen
        <5> QED
          BY <1>type, <3>step, <5>1, StepIsSeen, Zenon
      <4>5. Signer!Reorder(r)
        BY <3>3, <4>1, <4>2, <4>3, <4>4 DEF Signer!Reorder, SeenAll
      <4> QED
        BY <4>5 DEF Signer!Next
    <3> QED
      BY <3>4, <3>5
  <2>3. CASE LoadKeyPointer(r)
    <3> DEFINE c == [call[r] EXCEPT !.pc = "key", !.array = publicKey.array]
    <3>1. c.pc = "key" /\ c.question = call[r].question /\ c.forged = call[r].forged
      BY <2>call DEF IsCall
    <3> QED
      BY <1>type, <2>3, <3>1, BusyIsStutter DEF LoadKeyPointer, Busy
  <2>4. CASE CachedPublicKey(r)
    <3>1. call[r].pc = "key"
      BY <2>4 DEF CachedPublicKey, Step
    <3> QED
      BY <1>type, <2>4, <3>1, <1>answers, CachedIsReply, ReplyIsAnswer DEF CachedPublicKey, Busy
  <2>5. CASE LoadPointer(r)
    <3> DEFINE c == [call[r] EXCEPT !.pc = "header", !.header.pointer = token.pointer]
    <3>1. c.pc = "header" /\ c.question = call[r].question /\ c.forged = call[r].forged
      BY <2>call DEF IsCall
    <3> QED
      BY <1>type, <2>5, <3>1, BusyIsStutter DEF LoadPointer, Busy
  <2>6. CASE LoadLength(r)
    <3> DEFINE c == [call[r] EXCEPT !.pc = "sent", !.header.length = token.length]
    <3>1. c.pc = "sent" /\ c.question = call[r].question /\ c.forged = call[r].forged
      BY <2>call DEF IsCall
    <3> QED
      BY <1>type, <2>6, <3>1, BusyIsStutter DEF LoadLength, Busy
  <2>7. CASE Respond(r)
    <3>1. PICK a : Step(r, "sent", [call[r] EXCEPT !.pc = "answered", !.answer = a])
      BY <2>7 DEF Respond
    <3> DEFINE c == [call[r] EXCEPT !.pc = "answered", !.answer = a]
    <3>2. c.pc = "answered" /\ c.question = call[r].question /\ c.forged = call[r].forged
      BY <2>call DEF IsCall
    <3>3. serving' = serving /\ forgedKey' = forgedKey
      BY <2>7 DEF Respond
    <3> QED
      BY <1>type, <3>1, <3>2, <3>3, BusyIsStutter DEF Busy
  <2>8. CASE RespondStray(r)
    <3>1. PICK a \in StrayAnswers :
            LET forged == IsForged(call[r].question, call[r].header, a)
            IN  /\ Step(r, "sent", [call[r] EXCEPT !.pc = "answered", !.answer = a,
                                                   !.forged = forged])
                /\ forgedKey' = (forgedKey \/ (forged /\ PublicKeyCall(r)))
      BY <2>8 DEF RespondStray
    <3> DEFINE f == IsForged(call[r].question, call[r].header, a)
               q == call[r].question
               c == [call[r] EXCEPT !.pc = "answered", !.answer = a, !.forged = f]
    <3>2. c.pc = "answered" /\ c.question = q /\ c.forged = f /\ f \in BOOLEAN
      BY <2>call DEF IsCall, IsForged
    <3>3. /\ Step(r, "sent", c) /\ serving' = serving
          /\ forgedKey' = (forgedKey \/ (f /\ q.method = "PublicKey"))
      BY <2>8, <3>1 DEF RespondStray, PublicKeyCall
    <3>4. /\ serving /\ call[r].pc = "sent" /\ call[r].forged = FALSE /\ q \in Signer!Questions
          /\ forgedKey \in BOOLEAN
      BY <1>type, <2>call, <3>3 DEF Step, CallInv, HandlersInv
    <3> HIDE DEF f, c
    <3>5. CASE f
      <4>1. Seen(c) = Signer!Forged(q)
        <5>1. c.pc \in Busy
          BY <3>2 DEF Busy
        <5>2. c.forged /\ c.question = q
          BY <3>2, <3>5, Zenon
        <5> QED
          BY <5>1, <5>2, PendingIsSeen, Zenon
      <4>2. SeenAll' = [SeenAll EXCEPT ![r] = Signer!Forged(q)]
        BY <1>type, <3>3, <4>1, StepIsSeen
      <4>3. SeenAll[r] = Signer!Pending(q)
        <5>1. call[r].pc \in Busy /\ SeenAll[r] = Seen(call[r])
          BY <3>4 DEF SeenAll, Busy
        <5>2. ~ call[r].forged
          BY <3>4, Zenon
        <5> QED
          BY <5>1, <5>2, PendingIsSeen, Zenon
      <4>4. forgedKey' = (forgedKey \/ q.method = "PublicKey")
        BY <3>3, <3>5, Zenon
      <4>5. Signer!Forge(r)
        BY <3>3, <3>4, <4>2, <4>3, <4>4 DEF Signer!Forge, SeenAll
      <4> QED
        BY <4>5 DEF Signer!Next
    <3>6. CASE ~ f
      <4>1. forgedKey' = forgedKey
        BY <3>3, <3>4, <3>6, Zenon
      <4>2. c.forged = call[r].forged
        BY <3>2, <3>4, <3>6, Zenon
      <4> QED
        BY <1>type, <3>2, <3>3, <4>1, <4>2, BusyIsStutter DEF Busy
    <3> QED
      BY <3>5, <3>6
  <2>9. CASE CallFails(r)
    BY <1>type, <2>9, <2>error, <1>answers, ReplyIsAnswer DEF CallFails, Busy
  <2>10. CASE ReturnError(r)
    BY <1>type, <2>10, <2>error, <1>answers, ReplyIsAnswer DEF ReturnError, Busy
  <2>11. CASE ReturnSignature(r) \/ ReturnPublicKey(r)
    <3>1. PICK from : /\ from \in Answered /\ serving' = serving /\ forgedKey' = forgedKey
                      /\ Step(r, from, Reply(r, Signer!Ok(Result(r).value)))
      BY <2>11 DEF ReturnSignature, ReturnPublicKey
    <3>2. call[r].pc = from
      BY <3>1 DEF Step
    <3>3. CallResult(call[r]) = "ok"
      <4>1. CASE ReturnSignature(r)
        BY <4>1 DEF ReturnSignature, Result, CallResult
      <4>2. CASE ReturnPublicKey(r)
        <5>1. call[r].pc \in Storing
          BY <4>2 DEF ReturnPublicKey, Step
        <5> QED
          BY <2>call, <5>1 DEF CallInv
      <4> QED
        BY <2>11, <4>1, <4>2
    <3>4. Signer!Ok(Result(r).value) \in Signer!Replies(r, call[r].question)
      BY <1>type, <3>1, <3>2, <3>3, ResultIsReply
    <3> QED
      BY <1>type, <3>1, <3>4, <1>answers, ReplyIsAnswer DEF Busy
  <2>12. CASE HandlerPanics(r)
    <3>1. SeenAll' = SeenAll
      BY <2>12 DEF HandlerPanics, SeenAll
    <3>2. Signer!GoAway
      BY <2>12, <3>1 DEF HandlerPanics, Signer!GoAway, SeenAll
    <3> QED
      BY <3>2 DEF Signer!Next
  <2>13. CASE Send(r)
    <3>1. Step(r, "replied", NoCall) /\ serving' = serving /\ forgedKey' = forgedKey
      BY <2>13 DEF Send
    <3>2. Seen(NoCall) = Signer!Idle
      BY DEF Seen, NoCall, Signer!Idle
    <3>3. serving /\ SeenAll[r].phase = "replied"
      BY <3>1 DEF Step, SeenAll, Seen
    <3>4. SeenAll' = [SeenAll EXCEPT ![r] = Signer!Idle]
      BY <1>type, <3>1, <3>2, StepIsSeen
    <3>5. Signer!Take(r)
      BY <3>1, <3>3, <3>4 DEF Signer!Take, SeenAll
    <3> QED
      BY <3>5 DEF Signer!Next
  <2> QED
    BY <1>2, <2>1, <2>2, <2>3, <2>4, <2>5, <2>6, <2>7, <2>8, <2>9, <2>10, <2>11, <2>12, <2>13
       DEF Handler
<1>3. CASE UNCHANGED vars
  BY <1>3, <1>quiet DEF vars, shared, history
<1> QED
  BY <1>1, <1>2, <1>3 DEF Next

(* The sidecar is a remote signer, on every machine: every reply is an     *)
(* error or answers the question it is the reply to, unless the answer to  *)
(* this request was forged, or that to a request for the public key once   *)
(* was, or another request is storing the key on a machine that reorders   *)
(* stores.                                                                 *)
THEOREM ImplementsRemoteSigner == Spec => IsRemoteSigner
<1>1. Init => Signer!Init
  BY DEF Init, Signer!Init, Seen, NoCall, Signer!Idle
<1>2. Inv /\ [Next]_vars
        => [Signer!Next]_<<serving, [r \in Requests |-> Seen(call[r])], forgedKey>>
  BY RefinementStep DEF SeenAll
<1> QED
  BY <1>1, <1>2, Invariant, PTL DEF Spec, IsRemoteSigner, Signer!Spec
=============================================================================
