----------------------------- MODULE ApiRequest -----------------------------
(***************************************************************************)
(* api/client.go up to the sending of a request: NewClient with its        *)
(* options, the URLs of the three operations, the request editors.         *)
(*                                                                         *)
(* A URL path is a sequence of segments.  An id is a name; the ids in      *)
(* Special have characters that mean something in a URL ("Org#...",        *)
(* "Key#..."), so that a path with one of them in plain text ends there.   *)
(***************************************************************************)
EXTENDS Naturals, Sequences, SequencesExt

CONSTANTS
  Endpoints,  \* server URLs: [base: path, slash: it ends with one, valid: it parses]
  OrgIds, KeyIds,
  Special,    \* the ids that a URL needs escaped
  Editors,    \* request editors that set the Authorization header
  MaxEditors  \* bound of the editors of a client, and of a call

Failing == "failing"    \* an editor that returns an error
NoHeader == "no header"

(* What is in a path besides the ids: it is written there as it is. *)
Literals == {"v0", "v1", "org", "keys", "blob", "sign", "token", "refresh"}

ASSUME ApiRequestAssumption ==
  /\ Endpoints \subseteq [base : Seq(STRING), slash : BOOLEAN, valid : BOOLEAN]
  /\ Special \cap Literals = {} /\ \A e \in Endpoints : Special \cap ToSet(e.base) = {}
  /\ MaxEditors \in Nat
  /\ Failing \notin Editors /\ NoHeader \notin Editors

VARIABLES
  pc,      \* "start", "no client", "ready"; of a call "editing", "sent", "error"
  client,  \* the Client: Server and RequestEditors
  call,    \* the arguments of the call under way
  request, \* its http.Request
  todo     \* the editors that have not run yet

vars == <<pc, client, call, request, todo>>

EditorLists == SeqOf(Editors \cup {Failing}, MaxEditors)
Operations == {"GetKeyInOrg", "BlobSign", "SignerSessionRefresh"}
Calls == [op : Operations, org : OrgIds, key : KeyIds, editors : EditorLists]
NoCall == [op |-> "none"]
NoRequest == [method |-> "none"]

TypeOK ==
  /\ pc \in {"start", "no client", "ready", "editing", "sent", "error"}
  /\ client.server \in [base : {e.base : e \in Endpoints}, slash : BOOLEAN, valid : BOOLEAN]
  /\ client.editors \in EditorLists
  /\ pc \in {"editing", "sent", "error"} <=> call \in Calls
  /\ pc \in {"editing", "sent"} <=> request.method \in {"GET", "POST", "PATCH"}
  /\ pc = "sent" => todo = << >>

-----------------------------------------------------------------------------
(* URLs. *)

Plain(name) == [text |-> name, escaped |-> FALSE]

(* StyleParamWithLocation("simple", ..., ParamLocationPath, id). *)
PathParam(id) == [text |-> id, escaped |-> TRUE]

(* The paths the operations are formatted with. *)
OperationPath(c) ==
  CASE c.op = "GetKeyInOrg" ->
         <<Plain("v0"), Plain("org"), PathParam(c.org), Plain("keys"), PathParam(c.key)>>
    [] c.op = "BlobSign" ->
         <<Plain("v1"), Plain("org"), PathParam(c.org), Plain("blob"), Plain("sign"), PathParam(c.key)>>
    [] c.op = "SignerSessionRefresh" ->
         <<Plain("v1"), Plain("org"), PathParam(c.org), Plain("token"), Plain("refresh")>>

(* serverURL.Parse("./..."): a relative reference replaces what follows    *)
(* the last slash of the server's path.                                    *)
Resolve(server, path) ==
  LET names == IF server.slash \/ server.base = << >> THEN server.base ELSE Front(server.base)
  IN [i \in 1..Len(names) |-> Plain(names[i])] \o path

Method(op) ==
  CASE op = "GetKeyInOrg" -> "GET" [] op = "BlobSign" -> "POST" [] op = "SignerSessionRefresh" -> "PATCH"

(* NewGetKeyInOrgRequest, NewBlobSignRequest, NewSignerSessionRefreshRequest. *)
NewRequest(server, c) ==
  [method |-> Method(c.op),
   path   |-> Resolve(server, OperationPath(c)),
   json   |-> c.op # "GetKeyInOrg",
   header |-> NoHeader]

-----------------------------------------------------------------------------

Init ==
  /\ pc = "start"
  /\ client \in [server : Endpoints, editors : {<< >>}]
  /\ call = NoCall /\ request = NoRequest /\ todo = << >>

(* The server URL, or the one the option WithBaseURL puts in its place. *)
Servers == {client.server} \cup {e \in Endpoints : e.valid}

(* A bug: the slash is forgotten. *)
NoSlash_NewClient ==
  /\ pc = "start"
  /\ \E server \in Servers, editors \in EditorLists :
       client' = [server |-> server, editors |-> editors]
  /\ pc' = "ready"
  /\ UNCHANGED <<call, request, todo>>

(* The options have added editors (WithRequestEditorFn); then the server   *)
(* URL gets its trailing slash.                                            *)
NewClient ==
  /\ pc = "start"
  /\ \E server \in Servers, editors \in EditorLists :
       client' = [server |-> [server EXCEPT !.slash = TRUE], editors |-> editors]
  /\ pc' = "ready"
  /\ UNCHANGED <<call, request, todo>>

(* An option returns an error (WithBaseURL, for a URL that does not parse) *)
(* and there is no client.                                                 *)
NewClientFails ==
  /\ pc = "start"
  /\ pc' = "no client"
  /\ UNCHANGED <<client, call, request, todo>>

(* A bug: the client's editors after the call's. *)
CallFirst_Call ==
  /\ pc = "ready" /\ client.server.valid
  /\ \E c \in Calls :
       /\ call' = c
       /\ request' = NewRequest(client.server, c)
       /\ todo' = c.editors \o client.editors
  /\ pc' = "editing"
  /\ UNCHANGED client

(* GetKeyInOrg, BlobSign, SignerSessionRefresh: the request is built, and  *)
(* the editors are the client's and then the call's.                       *)
Call ==
  /\ pc = "ready" /\ client.server.valid
  /\ \E c \in Calls :
       /\ call' = c
       /\ request' = NewRequest(client.server, c)
       /\ todo' = client.editors \o c.editors
  /\ pc' = "editing"
  /\ UNCHANGED client

(* url.Parse(server) fails, only now and with every call. *)
BuildFails ==
  /\ pc = "ready" /\ ~ client.server.valid
  /\ call' \in Calls
  /\ pc' = "error"
  /\ UNCHANGED <<client, request, todo>>

(* One editor of applyEditors. *)
ApplyEditor ==
  /\ pc = "editing" /\ todo # << >> /\ Head(todo) # Failing
  /\ request' = [request EXCEPT !.header = Head(todo)]
  /\ todo' = Tail(todo)
  /\ UNCHANGED <<pc, client, call>>

EditorFails ==
  /\ pc = "editing" /\ todo # << >> /\ Head(todo) = Failing
  /\ pc' = "error" /\ request' = NoRequest /\ todo' = << >>
  /\ UNCHANGED <<client, call>>

(* A bug: sent before the editors have run. *)
Early_Do ==
  /\ pc = "editing"
  /\ pc' = "sent"
  /\ UNCHANGED <<client, call, request, todo>>

(* c.Client.Do(req) *)
Do ==
  /\ pc = "editing" /\ todo = << >>
  /\ pc' = "sent"
  /\ UNCHANGED <<client, call, request, todo>>

(* The caller has its answer or its error and may call again. *)
Return ==
  /\ pc \in {"sent", "error"}
  /\ pc' = "ready" /\ call' = NoCall /\ request' = NoRequest
  /\ UNCHANGED <<client, todo>>

Next ==
  \/ NewClient \/ NewClientFails
  \/ Call \/ BuildFails \/ ApplyEditor \/ EditorFails \/ Do \/ Return

Spec == Init /\ [][Next]_vars
-----------------------------------------------------------------------------
(* Properties. *)

Texts(path) == [i \in 1..Len(path) |-> path[i].text]

(* "all the paths in the swagger spec will be appended to the server"      *)
(* (client.go:33): a request that is sent goes to the server's own path    *)
(* with the operation's below it, whether or not the URL ended with a      *)
(* slash, and every id arrives as it is.                                   *)
ReachesOperation ==
  pc = "sent" =>
    /\ Texts(request.path) = client.server.base \o Texts(OperationPath(call))
    /\ \A i \in 1..Len(request.path) :
         request.path[i].text \in Special => request.path[i].escaped

(* A request is sent only after all editors, the client's and the call's,  *)
(* have run without an error, and the call's have the last word on its     *)
(* Authorization; editors of an earlier call have none.                    *)
EditedInOrder ==
  pc = "sent" =>
    LET editors == client.editors \o call.editors
    IN /\ Failing \notin ToSet(editors)
       /\ request.header = IF editors = << >> THEN NoHeader ELSE Last(editors)
=============================================================================
