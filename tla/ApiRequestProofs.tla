-------------------------- MODULE ApiRequestProofs --------------------------
(***************************************************************************)
(* Proofs about ApiRequest, for all servers, ids and editors, and any      *)
(* number of editors.                                                      *)
(***************************************************************************)
EXTENDS ApiRequest, TLAPS

EditorKind == Editors \cup {Failing}

(* The lists of editors. *)
LEMMA EditorListsAreSeqs == EditorLists \subseteq Seq(EditorKind)
BY DEF EditorLists, SeqOf, EditorKind

LEMMA NoEditors == << >> \in EditorLists
<1>1. 0 \in 0..MaxEditors
  BY ApiRequestAssumption
<1>2. << >> \in [1..0 -> Editors \cup {Failing}]
  OBVIOUS
<1> QED
  BY <1>1, <1>2 DEF EditorLists, SeqOf

LEMMA Joined ==
  ASSUME NEW S, NEW s \in Seq(S), NEW t \in Seq(S)
  PROVE  /\ s \o t \in Seq(S)
         /\ Len(s \o t) = Len(s) + Len(t)
         /\ Len(s) \in Nat /\ Len(t) \in Nat /\ Len(s \o t) \in Nat
OBVIOUS

(* The elements of a concatenation, for sequences of different things. *)
LEMMA Concatenation ==
  ASSUME NEW S, NEW T, NEW s \in Seq(S), NEW t \in Seq(T)
  PROVE  /\ s \o t \in Seq(S \cup T)
         /\ Len(s \o t) = Len(s) + Len(t)
         /\ \A i \in 1..Len(s) : (s \o t)[i] = s[i]
         /\ \A i \in (Len(s) + 1)..(Len(s) + Len(t)) : (s \o t)[i] = t[i - Len(s)]
<1>1. s \in Seq(S \cup T) /\ t \in Seq(S \cup T)
  OBVIOUS
<1> QED
  BY <1>1

(* The texts of a path below a server's are below the server's names. *)
LEMMA TextsBelow ==
  ASSUME NEW S, NEW s \in Seq(S), NEW T, NEW path \in Seq(T)
  PROVE  Texts([i \in 1..Len(s) |-> Plain(s[i])] \o path) = s \o Texts(path)
<1> DEFINE names == [i \in 1..Len(s) |-> Plain(s[i])]
           N == {Plain(s[i]) : i \in 1..Len(s)}
           X == {path[i].text : i \in 1..Len(path)}
<1>1. names \in Seq(N) /\ Len(names) = Len(s) /\ Len(s) \in Nat
  OBVIOUS
<1>2. \A i \in 1..Len(s) : names[i].text = s[i]
  BY DEF Plain
<1>3. Texts(path) \in Seq(X) /\ Len(Texts(path)) = Len(path) /\ Len(path) \in Nat
  BY DEF Texts
<1>4. \A i \in 1..Len(path) : Texts(path)[i] = path[i].text
  BY DEF Texts
<1> HIDE DEF names, N, X
<1>5. /\ Len(names \o path) = Len(s) + Len(path)
      /\ \A i \in 1..Len(s) : (names \o path)[i] = names[i]
      /\ \A i \in (Len(s) + 1)..(Len(s) + Len(path)) : (names \o path)[i] = path[i - Len(s)]
  <2>1. Len(names \o path) = Len(names) + Len(path)
    <3>1. names \in Seq(N \cup T) /\ path \in Seq(N \cup T)
      BY <1>1
    <3> QED
      BY <3>1
  <2>2. \A i \in 1..Len(names) : (names \o path)[i] = names[i]
    BY <1>1, Concatenation
  <2>3. \A i \in (Len(names) + 1)..(Len(names) + Len(path)) :
          (names \o path)[i] = path[i - Len(names)]
    BY <1>1, Concatenation
  <2> QED
    BY <1>1, <2>1, <2>2, <2>3
<1>6. /\ s \o Texts(path) \in Seq(S \cup X)
      /\ Len(s \o Texts(path)) = Len(s) + Len(path)
      /\ \A i \in 1..Len(s) : (s \o Texts(path))[i] = s[i]
      /\ \A i \in (Len(s) + 1)..(Len(s) + Len(path)) :
           (s \o Texts(path))[i] = Texts(path)[i - Len(s)]
  <2>1. s \o Texts(path) \in Seq(S \cup X)
    BY <1>3, Concatenation
  <2>2. Len(s \o Texts(path)) = Len(s) + Len(Texts(path))
    <3>1. s \in Seq(S \cup X) /\ Texts(path) \in Seq(S \cup X)
      BY <1>3
    <3> QED
      BY <3>1
  <2>3. \A i \in 1..Len(s) : (s \o Texts(path))[i] = s[i]
    BY <1>3, Concatenation
  <2>4. \A i \in (Len(s) + 1)..(Len(s) + Len(Texts(path))) :
          (s \o Texts(path))[i] = Texts(path)[i - Len(s)]
    BY <1>3, Concatenation
  <2> QED
    BY <1>3, <2>1, <2>2, <2>3, <2>4
<1>7. \A i \in 1..(Len(s) + Len(path)) : (names \o path)[i].text = (s \o Texts(path))[i]
  <2> SUFFICES ASSUME NEW i \in 1..(Len(s) + Len(path))
               PROVE  (names \o path)[i].text = (s \o Texts(path))[i]
    OBVIOUS
  <2>1. CASE i <= Len(s)
    <3>1. i \in 1..Len(s)
      BY <1>1, <1>3, <2>1
    <3> QED
      BY <1>2, <1>5, <1>6, <3>1
  <2>2. CASE ~ (i <= Len(s))
    <3>1. i \in (Len(s) + 1)..(Len(s) + Len(path)) /\ i - Len(s) \in 1..Len(path)
      BY <1>1, <1>3, <2>2
    <3> QED
      BY <1>4, <1>5, <1>6, <3>1
  <2> QED
    BY <2>1, <2>2
<1>8. Texts(names \o path) = [i \in 1..(Len(s) + Len(path)) |-> (s \o Texts(path))[i]]
  BY <1>5, <1>7 DEF Texts
<1>9. s \o Texts(path) = [i \in 1..(Len(s) + Len(path)) |-> (s \o Texts(path))[i]]
  <2> DEFINE both == s \o Texts(path)
  <2>1. both \in Seq(S \cup X) /\ Len(both) = Len(s) + Len(path)
    BY <1>6
  <2> HIDE DEF both
  <2>2. both = [i \in 1..(Len(s) + Len(path)) |-> both[i]]
    BY <2>1
  <2> QED
    BY <2>2 DEF both
<1> QED
  BY <1>8, <1>9 DEF names

-----------------------------------------------------------------------------
(* The paths. *)

Segment == [text : Literals \cup OrgIds \cup KeyIds, escaped : BOOLEAN]

(* An operation's path has an id only where it is escaped. *)
LEMMA PathOfOperation ==
  ASSUME NEW c \in Calls
  PROVE  /\ OperationPath(c) \in Seq(Segment)
         /\ \A i \in 1..Len(OperationPath(c)) :
              OperationPath(c)[i].text \in Special => OperationPath(c)[i].escaped
<1> DEFINE path == OperationPath(c)
           Safe(s) == /\ s \in Seq(Segment)
                      /\ \A i \in 1..Len(s) : s[i].text \in Special => s[i].escaped
<1>1. c.op \in Operations /\ c.org \in OrgIds /\ c.key \in KeyIds
  BY DEF Calls
<1>2. \A l \in Literals : Plain(l) \in Segment /\ Plain(l).text \notin Special
  BY ApiRequestAssumption DEF Plain, Segment
<1>3. \A id \in OrgIds \cup KeyIds : PathParam(id) \in Segment /\ PathParam(id).escaped
  BY DEF PathParam, Segment
<1>4. /\ {"v0", "v1", "org", "keys", "blob", "sign", "token", "refresh"} \subseteq Literals
      /\ c.org \in OrgIds \cup KeyIds /\ c.key \in OrgIds \cup KeyIds
  BY <1>1 DEF Literals
<1>5. CASE c.op = "GetKeyInOrg"
  <2>1. path = <<Plain("v0"), Plain("org"), PathParam(c.org), Plain("keys"), PathParam(c.key)>>
    BY <1>5 DEF OperationPath
  <2> QED
    BY <1>2, <1>3, <1>4, <2>1
<1>6. CASE c.op = "BlobSign"
  <2>1. path = <<Plain("v1"), Plain("org"), PathParam(c.org), Plain("blob"), Plain("sign"),
                 PathParam(c.key)>>
    BY <1>6 DEF OperationPath
  <2> QED
    BY <1>2, <1>3, <1>4, <2>1
<1>7. CASE c.op = "SignerSessionRefresh"
  <2>1. path = <<Plain("v1"), Plain("org"), PathParam(c.org), Plain("token"), Plain("refresh")>>
    BY <1>7 DEF OperationPath
  <2> QED
    BY <1>2, <1>3, <1>4, <2>1
<1> QED
  BY <1>1, <1>5, <1>6, <1>7 DEF Operations

(* A server whose URL ends with a slash keeps all of its path. *)
LEMMA ResolveKeeps ==
  ASSUME NEW server, server.slash, NEW path
  PROVE  Resolve(server, path) = [i \in 1..Len(server.base) |-> Plain(server.base[i])] \o path
BY DEF Resolve

-----------------------------------------------------------------------------
(* The invariant. *)

(* A client that there is has its slash. *)
HasSlash == pc \notin {"start", "no client"} => client.server.slash

AllEditors == client.editors \o call.editors

(* How many of the editors have run. *)
Ran == Len(AllEditors) - Len(todo)

(* The request under way is the one that was built, up to its header. *)
RequestInv ==
  pc \in {"editing", "sent"} =>
    /\ DOMAIN request = {"method", "path", "json", "header"}
    /\ request.method \in {"GET", "POST", "PATCH"}
    /\ request.path = Resolve(client.server, OperationPath(call))

(* The editors that have not run are the last ones of all; those that have *)
(* run have not failed, and the header is the last one's.                  *)
EditorsInv ==
  pc \in {"editing", "sent"} =>
    /\ todo \in Seq(EditorKind)
    /\ Ran \in Nat
    /\ \A i \in 1..Len(todo) : todo[i] = AllEditors[Ran + i]
    /\ \A i \in 1..Ran : AllEditors[i] # Failing
    /\ request.header = IF Ran = 0 THEN NoHeader ELSE AllEditors[Ran]

ApiInv == TypeOK /\ HasSlash /\ RequestInv /\ EditorsInv

LEMMA EditorsTyped ==
  ASSUME TypeOK, call \in Calls
  PROVE  AllEditors \in Seq(EditorKind) /\ Len(AllEditors) \in Nat
<1>1. client.editors \in Seq(EditorKind) /\ call.editors \in Seq(EditorKind)
  BY EditorListsAreSeqs DEF TypeOK, Calls
<1> QED
  BY <1>1, Joined DEF AllEditors

LEMMA NoCallIsNone == NoCall \notin Calls /\ NoRequest.method \notin {"GET", "POST", "PATCH"}
BY DEF NoCall, NoRequest, Calls, Operations

LEMMA ApiInvInit == Init => ApiInv
<1> SUFFICES ASSUME Init PROVE ApiInv
  OBVIOUS
<1>1. PICK server \in Endpoints : client = [server |-> server, editors |-> << >>]
  BY DEF Init
<1>2. server \in [base : {e.base : e \in Endpoints}, slash : BOOLEAN, valid : BOOLEAN]
  BY ApiRequestAssumption
<1>3. TypeOK
  BY <1>1, <1>2, NoEditors, NoCallIsNone DEF Init, TypeOK
<1> QED
  BY <1>3 DEF Init, ApiInv, HasSlash, RequestInv, EditorsInv

LEMMA NewClientStep == ApiInv /\ NewClient => ApiInv'
<1> SUFFICES ASSUME ApiInv, NewClient PROVE ApiInv'
  OBVIOUS
<1>1. PICK server \in Servers, editors \in EditorLists :
        client' = [server |-> [server EXCEPT !.slash = TRUE], editors |-> editors]
  BY DEF NewClient
<1>2. server \in [base : {e.base : e \in Endpoints}, slash : BOOLEAN, valid : BOOLEAN]
  BY ApiRequestAssumption DEF Servers, ApiInv, TypeOK
<1>3. pc = "start" /\ pc' = "ready" /\ UNCHANGED <<call, request, todo>>
  BY DEF NewClient
<1>4. /\ client'.server \in [base : {e.base : e \in Endpoints}, slash : BOOLEAN, valid : BOOLEAN]
      /\ client'.server.slash /\ client'.editors \in EditorLists
  BY <1>1, <1>2
<1>5. TypeOK'
  BY <1>3, <1>4 DEF ApiInv, TypeOK
<1> QED
  BY <1>3, <1>4, <1>5 DEF ApiInv, HasSlash, RequestInv, EditorsInv

(* A call begins with a request that is built, and with all its editors. *)
LEMMA CallStep == ApiInv /\ Call => ApiInv'
<1> SUFFICES ASSUME ApiInv, Call PROVE ApiInv'
  OBVIOUS
<1>1. /\ pc = "ready" /\ pc' = "editing" /\ client' = client
      /\ call' \in Calls /\ request' = NewRequest(client.server, call')
      /\ todo' = client.editors \o call'.editors
  BY DEF Call
<1>2. /\ DOMAIN request' = {"method", "path", "json", "header"}
      /\ request'.method = Method(call'.op)
      /\ request'.path = Resolve(client.server, OperationPath(call'))
      /\ request'.header = NoHeader
  BY <1>1 DEF NewRequest
<1>3. call'.op \in Operations
  BY <1>1 DEF Calls
<1>4. request'.method \in {"GET", "POST", "PATCH"}
  BY <1>2, <1>3 DEF Method, Operations
<1>5. TypeOK'
  BY <1>1, <1>4 DEF ApiInv, TypeOK
<1>6. HasSlash' /\ RequestInv'
  BY <1>1, <1>2, <1>4 DEF ApiInv, HasSlash, RequestInv
<1>7. EditorsInv'
  <2>1. client.editors \in Seq(EditorKind) /\ call'.editors \in Seq(EditorKind)
    BY <1>1, EditorListsAreSeqs DEF ApiInv, TypeOK, Calls
  <2>2. todo' = AllEditors' /\ todo' \in Seq(EditorKind) /\ Len(todo') \in Nat
    BY <1>1, <2>1, Joined DEF AllEditors
  <2>3. Ran' = 0
    BY <2>2 DEF Ran
  <2> QED
    BY <1>2, <2>2, <2>3 DEF EditorsInv
<1> QED
  BY <1>5, <1>6, <1>7 DEF ApiInv

(* One more editor has run. *)
LEMMA ApplyEditorStep == ApiInv /\ ApplyEditor => ApiInv'
<1> SUFFICES ASSUME ApiInv, ApplyEditor PROVE ApiInv'
  OBVIOUS
<1>1. /\ pc = "editing" /\ pc' = "editing" /\ UNCHANGED <<client, call>>
      /\ todo # << >> /\ Head(todo) # Failing /\ todo' = Tail(todo)
      /\ request' = [request EXCEPT !.header = Head(todo)]
  BY DEF ApplyEditor
<1>2. /\ DOMAIN request = {"method", "path", "json", "header"}
      /\ request.method \in {"GET", "POST", "PATCH"}
      /\ request.path = Resolve(client.server, OperationPath(call))
  BY <1>1 DEF ApiInv, RequestInv
<1>3. /\ DOMAIN request' = {"method", "path", "json", "header"}
      /\ request'.method = request.method /\ request'.path = request.path
      /\ request'.header = Head(todo)
  BY <1>1, <1>2
<1>4. TypeOK'
  BY <1>1, <1>2, <1>3 DEF ApiInv, TypeOK
<1>5. HasSlash' /\ RequestInv'
  BY <1>1, <1>2, <1>3 DEF ApiInv, HasSlash, RequestInv
<1>6. EditorsInv'
  <2>1. call \in Calls
    BY <1>1 DEF ApiInv, TypeOK
  <2>2. AllEditors \in Seq(EditorKind) /\ Len(AllEditors) \in Nat /\ AllEditors' = AllEditors
    BY <1>1, <2>1, EditorsTyped DEF ApiInv, AllEditors
  <2>3. /\ todo \in Seq(EditorKind) /\ Ran \in Nat
        /\ \A i \in 1..Len(todo) : todo[i] = AllEditors[Ran + i]
        /\ \A i \in 1..Ran : AllEditors[i] # Failing
    BY <1>1 DEF ApiInv, EditorsInv
  <2>4. /\ todo' \in Seq(EditorKind) /\ Len(todo') = Len(todo) - 1 /\ Len(todo) \in Nat \ {0}
        /\ Head(todo) = todo[1]
        /\ \A i \in 1..Len(todo') : todo'[i] = todo[i + 1]
    BY <1>1, <2>3
  <2>5. Ran' = Ran + 1
    BY <2>2, <2>3, <2>4 DEF Ran
  <2>6. Head(todo) = AllEditors[Ran + 1]
    BY <2>3, <2>4
  <2>7. \A i \in 1..Len(todo') : todo'[i] = AllEditors'[Ran' + i]
    <3> SUFFICES ASSUME NEW i \in 1..Len(todo') PROVE todo'[i] = AllEditors'[Ran' + i]
      OBVIOUS
    <3>1. i + 1 \in 1..Len(todo) /\ Ran' + i = Ran + (i + 1)
      BY <2>3, <2>4, <2>5
    <3> QED
      BY <2>2, <2>3, <2>4, <3>1
  <2>8. \A i \in 1..Ran' : AllEditors'[i] # Failing
    BY <1>1, <2>2, <2>3, <2>5, <2>6
  <2> QED
    BY <1>3, <2>2, <2>3, <2>4, <2>5, <2>6, <2>7, <2>8 DEF EditorsInv
<1> QED
  BY <1>4, <1>5, <1>6 DEF ApiInv

LEMMA ApiInvStep == ApiInv /\ [Next]_vars => ApiInv'
<1> SUFFICES ASSUME ApiInv, [Next]_vars PROVE ApiInv'
  OBVIOUS
<1> USE NoCallIsNone
<1>1. CASE NewClient
  BY <1>1, NewClientStep
<1>2. CASE NewClientFails
  BY <1>2 DEF NewClientFails, ApiInv, TypeOK, HasSlash, RequestInv, EditorsInv
<1>3. CASE Call
  BY <1>3, CallStep
<1>4. CASE BuildFails
  BY <1>4 DEF BuildFails, ApiInv, TypeOK, HasSlash, RequestInv, EditorsInv
<1>5. CASE ApplyEditor
  BY <1>5, ApplyEditorStep
<1>6. CASE EditorFails
  BY <1>6 DEF EditorFails, ApiInv, TypeOK, HasSlash, RequestInv, EditorsInv
<1>7. CASE Do
  BY <1>7 DEF Do, ApiInv, TypeOK, HasSlash, RequestInv, EditorsInv, Ran, AllEditors
<1>8. CASE Return
  BY <1>8 DEF Return, ApiInv, TypeOK, HasSlash, RequestInv, EditorsInv
<1>9. CASE UNCHANGED vars
  BY <1>9 DEF vars, ApiInv, TypeOK, HasSlash, RequestInv, EditorsInv, Ran, AllEditors
<1> QED
  BY <1>1, <1>2, <1>3, <1>4, <1>5, <1>6, <1>7, <1>8, <1>9 DEF Next

LEMMA ApiInvariant == Spec => []ApiInv
BY ApiInvInit, ApiInvStep, PTL DEF Spec

-----------------------------------------------------------------------------
(* The types; and there is a request exactly when a call is under way.     *)
THEOREM TypeCorrect == Spec => []TypeOK
<1>1. ApiInv => TypeOK
  BY DEF ApiInv
<1> QED
  BY <1>1, ApiInvariant, PTL

(* A request goes to the operation below the server's own path, whatever   *)
(* the server's path and the ids.                                          *)
THEOREM RequestReaches == Spec => []ReachesOperation
<1>1. ApiInv => ReachesOperation
  <2> SUFFICES ASSUME ApiInv, pc = "sent"
               PROVE  /\ Texts(request.path) = client.server.base \o Texts(OperationPath(call))
                      /\ \A i \in 1..Len(request.path) :
                           request.path[i].text \in Special => request.path[i].escaped
    BY DEF ReachesOperation
  <2> DEFINE base == client.server.base
             names == [i \in 1..Len(base) |-> Plain(base[i])]
             path == OperationPath(call)
  <2>1. call \in Calls /\ client.server.slash
    BY DEF ApiInv, TypeOK, HasSlash
  <2>2. PICK e \in Endpoints : base = e.base
    BY DEF ApiInv, TypeOK
  <2>3. base \in Seq(STRING) /\ \A i \in 1..Len(base) : base[i] \notin Special
    BY <2>2, ApiRequestAssumption DEF ToSet
  <2>4. /\ path \in Seq(Segment)
        /\ \A i \in 1..Len(path) : path[i].text \in Special => path[i].escaped
    BY <2>1, PathOfOperation
  <2>5. request.path = names \o path
    BY <2>1, ResolveKeeps DEF ApiInv, RequestInv
  <2> HIDE DEF base, path
  <2>6. Texts(names \o path) = base \o Texts(path)
    BY <2>3, <2>4, TextsBelow
  <2>7. \A i \in 1..Len(names \o path) :
          (names \o path)[i].text \in Special => (names \o path)[i].escaped
    <3> DEFINE N == {Plain(base[i]) : i \in 1..Len(base)}
    <3>1. names \in Seq(N) /\ Len(names) = Len(base) /\ Len(base) \in Nat /\ Len(path) \in Nat
      BY <2>3, <2>4
    <3>2. \A i \in 1..Len(base) : names[i].text \notin Special
      BY <2>3 DEF Plain
    <3> HIDE DEF names, N
    <3>3. /\ Len(names \o path) = Len(names) + Len(path)
          /\ \A i \in 1..Len(names) : (names \o path)[i] = names[i]
          /\ \A i \in (Len(names) + 1)..(Len(names) + Len(path)) :
               (names \o path)[i] = path[i - Len(names)]
      <4>1. names \in Seq(N \cup Segment) /\ path \in Seq(N \cup Segment)
        BY <2>4, <3>1
      <4>2. Len(names \o path) = Len(names) + Len(path)
        BY <4>1
      <4>3. \A i \in 1..Len(names) : (names \o path)[i] = names[i]
        BY <2>4, <3>1, Concatenation
      <4>4. \A i \in (Len(names) + 1)..(Len(names) + Len(path)) :
              (names \o path)[i] = path[i - Len(names)]
        BY <2>4, <3>1, Concatenation
      <4> QED
        BY <4>2, <4>3, <4>4
    <3> SUFFICES ASSUME NEW i \in 1..Len(names \o path)
                 PROVE  (names \o path)[i].text \in Special => (names \o path)[i].escaped
      OBVIOUS
    <3>4. CASE i <= Len(names)
      <4>1. i \in 1..Len(names)
        BY <3>1, <3>3, <3>4
      <4> QED
        BY <3>1, <3>2, <3>3, <4>1
    <3>5. CASE ~ (i <= Len(names))
      <4>1. i \in (Len(names) + 1)..(Len(names) + Len(path)) /\ i - Len(names) \in 1..Len(path)
        BY <3>1, <3>3, <3>5
      <4> QED
        BY <2>4, <3>3, <4>1
    <3> QED
      BY <3>4, <3>5
  <2> QED
    BY <2>5, <2>6, <2>7 DEF base, path
<1> QED
  BY <1>1, ApiInvariant, PTL

(* No request is sent on which an editor failed or has not run, and the    *)
(* call's editors have the last word, however many there are.              *)
THEOREM RequestEdited == Spec => []EditedInOrder
<1>1. ApiInv => EditedInOrder
  <2> SUFFICES ASSUME ApiInv, pc = "sent"
               PROVE  /\ Failing \notin ToSet(AllEditors)
                      /\ request.header = IF AllEditors = << >> THEN NoHeader ELSE Last(AllEditors)
    BY DEF EditedInOrder, AllEditors
  <2>1. call \in Calls /\ todo = << >>
    BY DEF ApiInv, TypeOK
  <2>2. AllEditors \in Seq(EditorKind) /\ Len(AllEditors) \in Nat
    BY <2>1, EditorsTyped DEF ApiInv
  <2>3. Ran = Len(AllEditors)
    BY <2>1, <2>2 DEF Ran
  <2>4. /\ \A i \in 1..Len(AllEditors) : AllEditors[i] # Failing
        /\ request.header = IF Len(AllEditors) = 0 THEN NoHeader ELSE AllEditors[Len(AllEditors)]
    BY <2>3 DEF ApiInv, EditorsInv
  <2> QED
    BY <2>2, <2>4 DEF ToSet, Last
<1> QED
  BY <1>1, ApiInvariant, PTL
=============================================================================
