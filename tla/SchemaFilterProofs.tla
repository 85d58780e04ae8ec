------------------------- MODULE SchemaFilterProofs -------------------------
(***************************************************************************)
(* Proofs about SchemaFilter, for any documents: infinite ones too, as     *)
(* long as nobody asks whether the loop ends.                              *)
(***************************************************************************)
EXTENDS SchemaFilter, TLAPS

Collected == pc \in {"assign", "write", "written"}
Scanned == pc \in {"write", "written"}

(* What the relevant operations mention is kept or still to be kept. *)
RootsCovered ==
  Collected =>
    \A o \in Relevant \cap DOMAIN doc.operations : doc.operations[o] \subseteq kept \cup refs

(* After the last round nothing is left to do. *)
NothingLeft ==
  Scanned => /\ refs = {}
             /\ \A c \in kept \cap Followed : doc.mentions[c] \subseteq kept

(* Every sufficient set has what is kept, and what is about to be. *)
NothingSuperfluous ==
  \A S \in SUBSET Refs : Sufficient(S) => (kept \cap Followed) \cup refs \subseteq S

FilterInv ==
  /\ TypeOK
  /\ RootsCovered
  /\ NothingLeft
  /\ NothingSuperfluous
  /\ pc = "written" => HasRelevant(doc)

LEMMA FilterInvInit == Init => FilterInv
<1> SUFFICES ASSUME Init PROVE FilterInv
  OBVIOUS
<1> USE DEF Init
<1>1. IsDocument(doc)
  BY SchemaFilterAssumption
<1>2. TypeOK
  BY <1>1 DEF TypeOK, InitialComponents, IsDocument
<1>3. kept \cap Followed = {}
  BY DEF InitialComponents, Followed
<1>4. NothingSuperfluous
  BY <1>3 DEF NothingSuperfluous
<1> QED
  BY <1>2, <1>4 DEF FilterInv, RootsCovered, NothingLeft, Collected, Scanned

(* The work list holds what the relevant operations mention. *)
LEMMA CollectStep == FilterInv /\ CollectRefs => FilterInv'
<1> SUFFICES ASSUME FilterInv, CollectRefs PROVE FilterInv'
  OBVIOUS
<1> USE DEF FilterInv, CollectRefs
<1>1. IsDocument(doc)
  BY DEF TypeOK
<1>2. TypeOK'
  BY <1>1 DEF TypeOK, IsDocument
<1>3. RootsCovered'
  BY DEF RootsCovered
<1>4. NothingSuperfluous'
  BY DEF NothingSuperfluous, Sufficient, Followed
<1> QED
  BY <1>2, <1>3, <1>4 DEF NothingLeft, Scanned

(* One reference moves from the work list to what is kept. *)
LEMMA AssignStep == FilterInv /\ AssignComponent => FilterInv'
<1> SUFFICES ASSUME FilterInv, AssignComponent PROVE FilterInv'
  OBVIOUS
<1> USE DEF FilterInv
<1>1. PICK r \in refs : KindOf[r] # "absent" /\ kept' = kept \cup {r} /\ refs' = refs \ {r}
  BY DEF AssignComponent
<1>2. pc = "assign" /\ pc' = pc /\ doc' = doc
  BY DEF AssignComponent
<1>3. TypeOK'
  BY <1>1, <1>2 DEF TypeOK
<1>4. RootsCovered'
  BY <1>1, <1>2 DEF RootsCovered, Collected
<1>5. NothingSuperfluous'
  BY <1>1, <1>2 DEF NothingSuperfluous, Sufficient, Followed
<1> QED
  BY <1>2, <1>3, <1>4, <1>5 DEF NothingLeft, Scanned

(* A round ends: what is new is mentioned by what is kept, so that every   *)
(* sufficient set has it; and when nothing is new, what is kept is closed. *)
LEMMA RescanStep == FilterInv /\ Rescan => FilterInv'
<1> SUFFICES ASSUME FilterInv, Rescan PROVE FilterInv'
  OBVIOUS
<1> USE DEF FilterInv
<1>1. /\ pc = "assign" /\ refs = {} /\ refs' = NewRefs /\ kept' = kept /\ doc' = doc
      /\ pc' = IF NewRefs = {} THEN "write" ELSE "assign"
  BY DEF Rescan
<1>2. \A r : r \in NewRefs <=> /\ \E c \in kept \cap Followed : r \in doc.mentions[c]
                               /\ r \notin kept
  BY DEF NewRefs, Exists, getRefs
<1>3. NewRefs \subseteq Refs
  BY <1>2 DEF TypeOK, IsDocument, Followed
<1>4. TypeOK'
  BY <1>1, <1>3 DEF TypeOK
<1>5. RootsCovered'
  BY <1>1 DEF RootsCovered, Collected
<1>6. NothingLeft'
  <2>1. ASSUME NewRefs = {} PROVE \A c \in kept \cap Followed : doc.mentions[c] \subseteq kept
    BY <1>2, <2>1
  <2> QED
    BY <1>1, <2>1 DEF NothingLeft, Scanned, Followed
<1>7. NothingSuperfluous'
  <2> SUFFICES ASSUME NEW S \in SUBSET Refs, Sufficient(S)'
               PROVE  ((kept \cap Followed) \cup refs)' \subseteq S
    BY DEF NothingSuperfluous
  <2>1. Sufficient(S) /\ kept \cap Followed \subseteq S
    BY <1>1 DEF Sufficient, NothingSuperfluous
  <2>2. NewRefs \subseteq S
    BY <1>2, <2>1 DEF Sufficient
  <2> QED
    BY <1>1, <2>1, <2>2 DEF Followed
<1>8. (pc = "written")' => HasRelevant(doc)'
  BY <1>1
<1> QED
  BY <1>4, <1>5, <1>6, <1>7, <1>8

LEMMA FilterInvStep == FilterInv /\ [Next]_vars => FilterInv'
<1> SUFFICES ASSUME FilterInv, [Next]_vars PROVE FilterInv'
  OBVIOUS
<1>1. CASE CollectRefs
  BY <1>1, CollectStep
<1>2. CASE AssignComponent
  BY <1>2, AssignStep
<1>3. CASE Rescan
  BY <1>3, RescanStep
<1>4. CASE WriteFile
  BY <1>4 DEF WriteFile, FilterInv, TypeOK, RootsCovered, NothingLeft, NothingSuperfluous,
              Collected, Scanned, Sufficient, Followed, HasRelevant
<1>5. CASE FetchFails \/ AssignPanics \/ WriteFails \/ PathMissing \/ UNCHANGED vars
  <2>1. /\ UNCHANGED <<doc, kept, refs>>
        /\ pc' = pc \/ pc' \in {"failed", "panicked"}
    BY <1>5 DEF FetchFails, AssignPanics, WriteFails, PathMissing, vars
  <2> QED
    BY <2>1 DEF FilterInv, TypeOK, RootsCovered, NothingLeft, NothingSuperfluous,
                Collected, Scanned, Sufficient, Followed, HasRelevant
<1> QED
  BY <1>1, <1>2, <1>3, <1>4, <1>5 DEF Next

LEMMA FilterInvariant == Spec => []FilterInv
  BY FilterInvInit, FilterInvStep, PTL DEF Spec

(* The document that is written is complete. *)
THEOREM WritesClosed == Spec => []OutputIsClosed
<1>1. FilterInv => OutputIsClosed
  <2> SUFFICES ASSUME FilterInv, pc = "written" PROVE OutputIsClosed
    BY DEF OutputIsClosed
  <2>1. Collected /\ Scanned
    BY DEF Collected, Scanned
  <2>2. refs = {} /\ \A c \in kept \cap Followed : doc.mentions[c] \subseteq kept
    BY <2>1 DEF FilterInv, NothingLeft
  <2>3. \A o \in Relevant : doc.operations[o] \subseteq kept
    BY <2>1, <2>2 DEF FilterInv, RootsCovered, HasRelevant
  <2> QED
    BY <2>2, <2>3 DEF OutputIsClosed, WrittenOperations
<1> QED
  BY <1>1, FilterInvariant, PTL

(* At no time is anything kept that could be done without. *)
THEOREM KeepsMinimal == Spec => []OutputIsMinimal
<1>1. FilterInv => OutputIsMinimal
  BY DEF FilterInv, NothingSuperfluous, OutputIsMinimal
<1> QED
  BY <1>1, FilterInvariant, PTL

(* Nothing is kept in a section that the document does not have.           *)
THEOREM TypeCorrect == Spec => []TypeOK
<1>1. FilterInv => TypeOK
  BY DEF FilterInv
<1> QED
  BY <1>1, FilterInvariant, PTL
=============================================================================
