---------------------------- MODULE SchemaFilter ----------------------------
(***************************************************************************)
(* spec/get-schemas.go, the tool that cuts CubeSigner's OpenAPI document   *)
(* down to what the generated client needs: a work list of $ref's, started *)
(* from three operations and followed until nothing new turns up.          *)
(*                                                                         *)
(* A component is known by its reference.  What getRefs collects from a    *)
(* component's body is the set mentions[c]; the order of Go's maps, and    *)
(* with it the order of the work list, is arbitrary.                       *)
(***************************************************************************)
CONSTANTS
  Refs,        \* references to components
  KindOf,      \* "schemas" or "responses", which are filtered and followed;
               \* "whole" for another section, which is kept as it is;
               \* "absent" for a section the document does not have
  Operations,  \* the operations of the document's paths
  Relevant,    \* those that relevantPaths names
  Documents    \* the documents the tool may fetch

(* defined: the components there are; mentions: what their bodies refer    *)
(* to; operations: what the bodies of the operations there are refer to.   *)
IsDocument(d) ==
  /\ d.defined \subseteq {r \in Refs : KindOf[r] # "absent"}
  /\ d.mentions \in [Refs -> SUBSET Refs]
  /\ \A r \in Refs \ d.defined : d.mentions[r] = {}
  /\ DOMAIN d.operations \subseteq Operations
  /\ d.operations \in [DOMAIN d.operations -> SUBSET Refs]

ASSUME SchemaFilterAssumption ==
  /\ KindOf \in [Refs -> {"schemas", "responses", "whole", "absent"}]
  /\ Relevant \subseteq Operations
  /\ \A d \in Documents : IsDocument(d)

VARIABLES
  pc,    \* "collect", "assign", "write", or how it ended: "written",
         \* "failed" with a message, "panicked"
  doc,   \* the document
  kept,  \* the keys of newComponents
  refs   \* the work list

vars == <<pc, doc, kept, refs>>

TypeOK ==
  /\ pc \in {"collect", "assign", "write", "written", "failed", "panicked"}
  /\ IsDocument(doc)
  /\ kept \subseteq {r \in Refs : KindOf[r] # "absent"}
  /\ refs \subseteq Refs

-----------------------------------------------------------------------------

(* The sections whose components are looked into for references. *)
Followed == {r \in Refs : KindOf[r] \in {"schemas", "responses"}}

(* A bug: the sections are not emptied first. *)
All_InitialComponents(d) == d.defined

(* newComponents shares the other sections with the document. *)
InitialComponents(d) == {r \in d.defined : KindOf[r] = "whole"}

(* An operation, or the whole path, may be missing in a newer document. *)
HasRelevant(d) == Relevant \subseteq DOMAIN d.operations

Init ==
  /\ pc = "collect"
  /\ doc \in Documents
  /\ kept = InitialComponents(doc)
  /\ refs = {}

(* The download, or its JSON, is bad. *)
FetchFails == pc = "collect" /\ pc' = "failed" /\ UNCHANGED <<doc, kept, refs>>

(* The references of the relevant operations. *)
CollectRefs ==
  /\ pc = "collect"
  /\ pc' = "assign"
  /\ refs' = UNION {doc.operations[o] : o \in Relevant \cap DOMAIN doc.operations}
  /\ UNCHANGED <<doc, kept>>

(* A bug: the section is made when it is not there. *)
Unchecked_AssignComponent ==
  /\ pc = "assign"
  /\ \E r \in refs : kept' = kept \cup {r} /\ refs' = refs \ {r}
  /\ UNCHANGED <<pc, doc>>

(* One step of the inner loop.  A reference to a component the document    *)
(* does not define gets a key too, with a null value.                      *)
AssignComponent ==
  /\ pc = "assign"
  /\ \E r \in refs :
       /\ KindOf[r] # "absent"
       /\ kept' = kept \cup {r}
       /\ refs' = refs \ {r}
  /\ UNCHANGED <<pc, doc>>

(* components[componentType] is nil and not a map. *)
AssignPanics ==
  /\ pc = "assign" /\ \E r \in refs : KindOf[r] = "absent"
  /\ pc' = "panicked"
  /\ UNCHANGED <<doc, kept, refs>>

(* A bug: a component counts as kept only when it has a value. *)
Value_Exists(r) == r \in kept \cap doc.defined

(* _, exists := newComponents[componentType][componentName] *)
Exists(r) == r \in kept

(* The references in the bodies of some components.  A null has none. *)
getRefs(components) == UNION {doc.mentions[c] : c \in components}

(* A bug: the responses are not looked into. *)
SchemasOnly_NewRefs ==
  {r \in getRefs({k \in kept : KindOf[k] = "schemas"}) : ~ Exists(r)}

(* All that the components kept so far mention, without what is kept. *)
NewRefs == {r \in getRefs(kept \cap Followed) : ~ Exists(r)}

(* The end of a round: the work list is made anew. *)
Rescan ==
  /\ pc = "assign" /\ refs = {}
  /\ refs' = NewRefs
  /\ pc' = IF NewRefs = {} THEN "write" ELSE "assign"
  /\ UNCHANGED <<doc, kept>>

(* newPaths. *)
WrittenOperations == Relevant

WriteFile ==
  /\ pc = "write" /\ HasRelevant(doc)
  /\ pc' = "written"
  /\ UNCHANGED <<doc, kept, refs>>

WriteFails ==
  /\ pc = "write" /\ HasRelevant(doc)
  /\ pc' = "failed"
  /\ UNCHANGED <<doc, kept, refs>>

(* A path that is missing panics in line 92 or 130, a method in 135. *)
PathMissing ==
  /\ pc \in {"collect", "write"} /\ ~ HasRelevant(doc)
  /\ pc' = "panicked"
  /\ UNCHANGED <<doc, kept, refs>>

Next ==
  \/ FetchFails \/ CollectRefs
  \/ AssignComponent \/ AssignPanics \/ Rescan
  \/ WriteFile \/ WriteFails \/ PathMissing

Spec == Init /\ [][Next]_vars

(* A sequential program goes on until it ends. *)
FairSpec == Spec /\ WF_vars(Next)

-----------------------------------------------------------------------------
(* Properties. *)

(* The filtered document is complete: whatever its operations mention, and *)
(* whatever the schemas and responses in it mention, has its key in it.    *)
(* (The README: "as well as all the schemas that those endpoints use".)    *)
OutputIsClosed ==
  pc = "written" =>
    /\ \A o \in WrittenOperations : doc.operations[o] \subseteq kept
    /\ \A c \in kept \cap Followed : doc.mentions[c] \subseteq kept

(* A set of components one could not do without any of: it has what the    *)
(* relevant operations mention and what its own members mention.           *)
Sufficient(S) ==
  /\ \A o \in Relevant \cap DOMAIN doc.operations : doc.operations[o] \subseteq S
  /\ \A c \in S \cap Followed : doc.mentions[c] \subseteq S

(* The filtered document has nothing superfluous: a schema or response is  *)
(* in it only if every sufficient set has it.                              *)
OutputIsMinimal ==
  \A S \in SUBSET Refs : Sufficient(S) => kept \cap Followed \subseteq S

(* The loop ends, also when schemas refer to each other in a circle and    *)
(* when a reference leads nowhere.                                         *)
FilterEnds == <>(pc \in {"written", "failed", "panicked"})
=============================================================================
