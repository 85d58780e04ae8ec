---------------------------- MODULE RemoteSigner ----------------------------
(***************************************************************************)
(* What avalanchego may expect of its remote signer: every request gets at *)
(* most one reply; the reply is an error, or it is the answer to the very  *)
(* question that was asked; and the signer may go away at any moment,      *)
(* after which nothing is answered any more.                               *)
(*                                                                         *)
(* The signer believes what it is told in the name of the service behind   *)
(* it.  Who answers in its place can forge the reply to the one request he *)
(* answers; but a public key he has forged once may be replied to any      *)
(* later request for it.  Nor does the signer guard the key against the    *)
(* machine: where stores are reordered, half of a key can be seen while a  *)
(* request stores it.                                                      *)
(***************************************************************************)
CONSTANTS
  Requests,  \* the requests that can be under way at the same time
  Messages,  \* what can be signed
  Wrong,     \* values that answer no question
  Racy       \* whether the machine reorders stores

VARIABLES
  serving,   \* the signer is there
  request,   \* per request: what was asked and what was replied
  keyForged  \* a public key was forged

Methods == {"PublicKey", "Sign", "SignProofOfPossession"}

(* PublicKey carries no message; the others carry one. *)
NoMessage == "none"
Questions ==
  [method : {"PublicKey"}, message : {NoMessage}]
    \cup [method : Methods \ {"PublicKey"}, message : Messages]

(* The one right answer to a question.  A signature under one ciphersuite  *)
(* is worth nothing under the other, nor for another message.              *)
RightAnswer(q) ==
  CASE q.method = "PublicKey" -> <<"public key">>
    [] q.method = "Sign" -> <<"signature", q.message>>
    [] q.method = "SignProofOfPossession" -> <<"proof of possession", q.message>>

Error == [ok |-> FALSE, value |-> << >>]
Ok(v) == [ok |-> TRUE, value |-> v]

Idle == [phase |-> "idle"]
Pending(q) == [phase |-> "pending", question |-> q]
Forged(q) == [phase |-> "forged", question |-> q]
HalfStored(q) == [phase |-> "half stored", question |-> q]
Replied(q, a) == [phase |-> "replied", question |-> q, reply |-> a]

Init == serving = TRUE /\ request = [r \in Requests |-> Idle] /\ keyForged = FALSE

Ask(r) ==
  /\ serving /\ request[r] = Idle
  /\ \E q \in Questions : request' = [request EXCEPT ![r] = Pending(q)]
  /\ UNCHANGED <<serving, keyForged>>

(* Somebody answers in place of the service.  This is not the signer's     *)
(* doing.                                                                  *)
Forge(r) ==
  /\ serving
  /\ \E q \in Questions :
       /\ request[r] = Pending(q)
       /\ request' = [request EXCEPT ![r] = Forged(q)]
       /\ keyForged' = (keyForged \/ q.method = "PublicKey")
  /\ UNCHANGED serving

(* The stores of the key that a request has brought are reordered.  This   *)
(* is not the signer's doing either.                                       *)
Reorder(r) ==
  /\ Racy /\ serving
  /\ \E q \in Questions :
       /\ q.method = "PublicKey" /\ request[r] \in {Pending(q), Forged(q)}
       /\ request' = [request EXCEPT ![r] = HalfStored(q)]
  /\ UNCHANGED <<serving, keyForged>>

(* Another request is in the middle of this. *)
Disturbed(r) == \E other \in Requests \ {r} : request[other].phase = "half stored"

Replies(r, q) ==
  {Error, Ok(RightAnswer(q))}
    \cup {Ok(v) : v \in {w \in Wrong : \/ request[r].phase = "forged"
                                       \/ (q.method = "PublicKey" /\ keyForged)}}
    \cup {a \in {Ok(<< >>)} : q.method = "PublicKey" /\ Disturbed(r)}

Answer(r) ==
  /\ serving
  /\ \E q \in Questions :
       /\ request[r] \in {Pending(q), Forged(q), HalfStored(q)}
       /\ \E a \in Replies(r, q) : request' = [request EXCEPT ![r] = Replied(q, a)]
  /\ UNCHANGED <<serving, keyForged>>

(* The caller has the reply. *)
Take(r) ==
  /\ serving /\ request[r].phase = "replied"
  /\ request' = [request EXCEPT ![r] = Idle]
  /\ UNCHANGED <<serving, keyForged>>

GoAway == serving' = FALSE /\ UNCHANGED <<request, keyForged>>

Next ==
  \/ \E r \in Requests : Ask(r) \/ Forge(r) \/ Reorder(r) \/ Answer(r) \/ Take(r)
  \/ GoAway

Spec == Init /\ [][Next]_<<serving, request, keyForged>>
=============================================================================
