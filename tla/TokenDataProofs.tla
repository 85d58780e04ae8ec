--------------------------- MODULE TokenDataProofs ---------------------------
(***************************************************************************)
(* Proofs about TokenData, for any keys and values.                        *)
(***************************************************************************)
EXTENDS TokenData, TLAPS

(* What the memory knows: RawData decodes and has the ID as it was given.  *)
(* It has every key of the file, unless that is damaged, and what is not   *)
(* the session's own as the file has it.                                   *)
MemoryKnowsFile ==
  up => /\ ~ UnmarshalFails(t.raw)
        /\ \A k \in IDKeys \cap DOMAIN t.raw : t.raw[k] # Null => t.id[k] = t.raw[k]
        /\ file # Damaged =>
             /\ ~ UnmarshalFails(file)
             /\ \A k \in DOMAIN file :
                  /\ k \in DOMAIN t.raw
                  /\ k \in IDKeys /\ file[k] # Null => t.id[k] = file[k]
                  /\ k \in ForeignKeys => t.raw[k] = file[k]

DataInv == TypeOK /\ MemoryKnowsFile /\ ReloadsMemory

-----------------------------------------------------------------------------
(* The operators of token.go. *)

(* Put has the keys of both, and the new values where there are any. *)
LEMMA PutKeys ==
  ASSUME NEW old, NEW new
  PROVE  /\ DOMAIN Put(old, new) = DOMAIN old \cup DOMAIN new
         /\ \A k \in DOMAIN new : Put(old, new)[k] = new[k]
         /\ \A k \in DOMAIN old \ DOMAIN new : Put(old, new)[k] = old[k]
  BY DEF Put

(* An object is a function from some of the keys to values, and the other  *)
(* way round.                                                              *)
LEMMA ObjectShape ==
  ASSUME NEW o PROVE o \in Objects <=> /\ DOMAIN o \subseteq Keys
                                       /\ o \in [DOMAIN o -> Values]
<1>1. ASSUME o \in Objects PROVE DOMAIN o \subseteq Keys /\ o \in [DOMAIN o -> Values]
  <2>1. PICK K \in SUBSET Keys : o \in [K -> Values]
    BY <1>1 DEF Objects
  <2> QED
    BY <2>1
<1>2. ASSUME DOMAIN o \subseteq Keys, o \in [DOMAIN o -> Values] PROVE o \in Objects
  <2>1. DOMAIN o \in SUBSET Keys
    BY <1>2
  <2> QED
    BY <1>2, <2>1 DEF Objects
<1> QED
  BY <1>1, <1>2

(* Encoding a session leaves out nothing but an expiration that is nil. *)
LEMMA SessionRaw ==
  ASSUME NEW s \in Sessions
  PROVE  /\ DOMAIN toRawData(s) \subseteq SessionKeys
         /\ \A k \in MandatoryKeys \cup {"org_id"} : k \in DOMAIN toRawData(s)
         /\ s["expiration"] # Null <=> "expiration" \in DOMAIN toRawData(s)
         /\ \A k \in DOMAIN toRawData(s) : toRawData(s)[k] = s[k]
  BY TokenDataAssumption DEF toRawData, Sessions, SessionKeys

(* Every key of the file written: the ID's from the ID, the session's from *)
(* the session, the rest from RawData.                                     *)
LEMMA MarshalKeys ==
  ASSUME NEW d, d.session \in Sessions, d.id \in IDs, d.raw \in Objects
  PROVE  LET doc == MarshalJSON(d)
         IN /\ DOMAIN doc = DOMAIN d.raw \cup DOMAIN toRawData(d.session) \cup IDKeys
            /\ \A k \in IDKeys : doc[k] = d.id[k]
            /\ \A k \in MandatoryKeys : doc[k] = d.session[k]
            /\ d.session["expiration"] # Null => doc["expiration"] = d.session["expiration"]
            /\ \A k \in DOMAIN d.raw :
                 \/ k \in SessionKeys \cup IDKeys
                 \/ doc[k] = d.raw[k]
            /\ d.session["expiration"] = Null /\ "expiration" \in DOMAIN d.raw =>
                 doc["expiration"] = d.raw["expiration"]
<1> DEFINE sr == toRawData(d.session)
           mid == Put(d.raw, sr)
           doc == MarshalJSON(d)
<1>1. DOMAIN d.id = IDKeys
  BY DEF IDs
<1>2. /\ DOMAIN mid = DOMAIN d.raw \cup DOMAIN sr
      /\ \A k \in DOMAIN sr : mid[k] = sr[k]
      /\ \A k \in DOMAIN d.raw \ DOMAIN sr : mid[k] = d.raw[k]
  BY PutKeys
<1>3. doc = Put(mid, d.id)
  BY DEF MarshalJSON
<1> HIDE DEF mid, doc
<1>4. /\ DOMAIN doc = DOMAIN mid \cup IDKeys
      /\ \A k \in IDKeys : doc[k] = d.id[k]
      /\ \A k \in DOMAIN mid \ IDKeys : doc[k] = mid[k]
  <2>1. /\ DOMAIN Put(mid, d.id) = DOMAIN mid \cup DOMAIN d.id
        /\ \A k \in DOMAIN d.id : Put(mid, d.id)[k] = d.id[k]
        /\ \A k \in DOMAIN mid \ DOMAIN d.id : Put(mid, d.id)[k] = mid[k]
    BY PutKeys
  <2> QED
    BY <1>1, <1>3, <2>1
<1>5. /\ DOMAIN sr \subseteq SessionKeys
      /\ \A k \in MandatoryKeys \cup {"org_id"} : k \in DOMAIN sr
      /\ d.session["expiration"] # Null <=> "expiration" \in DOMAIN sr
      /\ \A k \in DOMAIN sr : sr[k] = d.session[k]
  BY SessionRaw
<1> HIDE DEF sr
<1>6. MandatoryKeys \cap IDKeys = {} /\ "expiration" \notin IDKeys
  BY TokenDataAssumption DEF IDKeys
<1>7. \A k \in MandatoryKeys : doc[k] = d.session[k]
  BY <1>2, <1>4, <1>5, <1>6
<1>8. d.session["expiration"] # Null => doc["expiration"] = d.session["expiration"]
  BY <1>2, <1>4, <1>5, <1>6
<1>9. \A k \in DOMAIN d.raw : k \in SessionKeys \cup IDKeys \/ doc[k] = d.raw[k]
  BY <1>2, <1>4, <1>5
<1>10. d.session["expiration"] = Null /\ "expiration" \in DOMAIN d.raw =>
         doc["expiration"] = d.raw["expiration"]
  BY <1>2, <1>4, <1>5, <1>6
<1>11. DOMAIN doc = DOMAIN d.raw \cup DOMAIN sr \cup IDKeys
  BY <1>2, <1>4
<1> QED
  BY <1>4, <1>7, <1>8, <1>9, <1>10, <1>11 DEF sr, doc

(* What MarshalJSON returns is an object again, and it decodes. *)
LEMMA MarshalIsObject ==
  ASSUME NEW d, d.session \in Sessions, d.id \in IDs, d.raw \in Objects,
         ~ UnmarshalFails(d.raw)
  PROVE  MarshalJSON(d) \in Objects /\ ~ UnmarshalFails(MarshalJSON(d))
<1> DEFINE sr == toRawData(d.session)
           doc == MarshalJSON(d)
<1>1. DOMAIN d.raw \subseteq Keys /\ d.raw \in [DOMAIN d.raw -> Values]
  BY ObjectShape
<1>2. \A k \in DOMAIN sr : sr[k] \in Values \ {Odd}
  BY SessionRaw DEF Sessions
<1>3. \A k \in IDKeys : d.id[k] \in Values \ {Odd}
  BY DEF IDs
<1>4. DOMAIN d.id = IDKeys
  BY DEF IDs
<1>5. doc = [k \in DOMAIN d.raw \cup DOMAIN sr \cup IDKeys |->
               IF k \in IDKeys THEN d.id[k] ELSE IF k \in DOMAIN sr THEN sr[k] ELSE d.raw[k]]
  BY <1>4 DEF MarshalJSON, Put
<1>6. DOMAIN sr \subseteq SessionKeys
  BY SessionRaw
<1> HIDE DEF sr, doc
<1>7. DOMAIN doc \subseteq Keys
  BY <1>1, <1>5, <1>6 DEF Keys
<1>8. doc \in [DOMAIN doc -> Values]
  BY <1>1, <1>2, <1>3, <1>5
<1>9. ASSUME NEW k \in DOMAIN doc \cap (SessionKeys \cup IDKeys) PROVE doc[k] # Odd
  BY <1>2, <1>3, <1>5 DEF UnmarshalFails
<1> QED
  BY <1>7, <1>8, <1>9, ObjectShape DEF UnmarshalFails, doc

(* TestTokenDataMarshalJSON for every file that has all keys of the        *)
(* structs, with values of their types: it is written back as it was read. *)
THEOREM RoundTrip ==
  ASSUME NEW doc \in Objects, ~ UnmarshalFails(doc),
         SessionKeys \cup IDKeys \subseteq DOMAIN doc,
         \A k \in SessionKeys \cup IDKeys : doc[k] # Null
  PROVE  MarshalJSON(UnmarshalJSON(doc)) = doc
<1> DEFINE d == UnmarshalJSON(doc)
<1>1. d.session = [k \in SessionKeys |-> doc[k]]
  BY DEF UnmarshalJSON, Decode, ZeroSession
<1>2. d.id = [k \in IDKeys |-> doc[k]]
  BY DEF UnmarshalJSON, Decode, ZeroID
<1>3. d.raw = doc
  BY DEF UnmarshalJSON
<1>4. DOMAIN doc \subseteq Keys /\ doc \in [DOMAIN doc -> Values]
  BY ObjectShape
<1> HIDE DEF d
<1>5. toRawData(d.session) = [k \in SessionKeys |-> doc[k]]
  BY <1>1 DEF toRawData, SessionKeys
<1>6. MarshalJSON(d) = [k \in DOMAIN doc |-> doc[k]]
  BY <1>2, <1>3, <1>5 DEF MarshalJSON, Put
<1> QED
  BY <1>4, <1>6 DEF d

(* What New decodes is of its type. *)
LEMMA UnmarshalTypes ==
  ASSUME NEW doc \in Objects, ~ UnmarshalFails(doc)
  PROVE  /\ UnmarshalJSON(doc) \in [session : Sessions, id : IDs, raw : Objects]
         /\ UnmarshalJSON(doc).raw = doc
         /\ \A k \in IDKeys \cap DOMAIN doc : doc[k] # Null => UnmarshalJSON(doc).id[k] = doc[k]
<1>1. DOMAIN doc \subseteq Keys /\ doc \in [DOMAIN doc -> Values]
  BY ObjectShape
<1>2. Decode(ZeroSession, doc) \in Sessions
  BY <1>1, TokenDataAssumption DEF Decode, ZeroSession, Sessions, UnmarshalFails, SessionKeys
<1>3. /\ Decode(ZeroID, doc) \in IDs
      /\ \A k \in IDKeys \cap DOMAIN doc : doc[k] # Null => Decode(ZeroID, doc)[k] = doc[k]
  BY <1>1, TokenDataAssumption DEF Decode, ZeroID, IDs, UnmarshalFails
<1> QED
  BY <1>2, <1>3 DEF UnmarshalJSON

-----------------------------------------------------------------------------
(* The invariant. *)

LEMMA BlankTyped == Blank \in [session : Sessions, id : IDs, raw : Objects]
<1> DEFINE none == [k \in {} |-> Null]
<1>1. none \in Objects
  BY ObjectShape
<1>2. ~ UnmarshalFails(none)
  BY DEF UnmarshalFails
<1> QED
  BY <1>1, <1>2, UnmarshalTypes DEF Blank

LEMMA DataInvInit == Init => DataInv
  BY BlankTyped DEF Init, DataInv, TypeOK, MemoryKnowsFile, ReloadsMemory

(* New: the memory is what was decoded from the file. *)
LEMMA DataInvNew == DataInv /\ New => DataInv'
<1> SUFFICES ASSUME DataInv, New PROVE DataInv'
  OBVIOUS
<1>1. PICK doc \in IF file = Damaged THEN Objects ELSE {file} :
        ~ UnmarshalFails(doc) /\ t' = UnmarshalJSON(doc) /\ saved' = (file # Damaged)
  BY DEF New
<1>2. doc \in Objects /\ (file # Damaged => doc = file)
  BY <1>1 DEF DataInv, TypeOK
<1>3. up' = TRUE /\ file' = file /\ file \in Objects \cup {Damaged}
  BY DEF New, DataInv, TypeOK
<1>4. /\ t' \in [session : Sessions, id : IDs, raw : Objects]
      /\ t'.raw = doc
      /\ \A k \in IDKeys \cap DOMAIN doc : doc[k] # Null => t'.id[k] = doc[k]
  BY <1>1, <1>2, UnmarshalTypes
<1>5. saved' \in BOOLEAN
  BY <1>1, Zenon
<1>6. TypeOK'
  BY <1>3, <1>4, <1>5 DEF TypeOK
<1>7. MemoryKnowsFile'
  BY <1>1, <1>2, <1>3, <1>4 DEF MemoryKnowsFile
<1>8. ReloadsMemory'
  BY <1>1, <1>2, <1>3 DEF ReloadsMemory
<1> QED
  BY <1>6, <1>7, <1>8 DEF DataInv

(* What MarshalJSON makes of a memory and of a new session.                *)
LEMMA MarshalMemory ==
  ASSUME DataInv, up, NEW res \in Sessions
  PROVE  LET doc == MarshalJSON([t EXCEPT !.session = res])
         IN /\ doc \in Objects /\ ~ UnmarshalFails(doc)
            /\ DOMAIN doc = DOMAIN t.raw \cup DOMAIN toRawData(res) \cup IDKeys
            /\ \A k \in IDKeys : doc[k] = t.id[k]
            /\ \A k \in MandatoryKeys : doc[k] = res[k]
            /\ res["expiration"] # Null => doc["expiration"] = res["expiration"]
            /\ \A k \in DOMAIN t.raw : k \in ForeignKeys => doc[k] = t.raw[k]
<1> DEFINE d == [t EXCEPT !.session = res]
           doc == MarshalJSON(d)
<1>1. /\ t.id \in IDs /\ t.raw \in Objects
      /\ d.session = res /\ d.id = t.id /\ d.raw = t.raw
  BY DEF DataInv, TypeOK
<1>2. ~ UnmarshalFails(t.raw)
  BY DEF DataInv, MemoryKnowsFile
<1>3. ForeignKeys \cap (SessionKeys \cup IDKeys) = {}
  BY TokenDataAssumption
<1> HIDE DEF d
<1>4. doc \in Objects /\ ~ UnmarshalFails(doc)
  BY <1>1, <1>2, MarshalIsObject
<1>5. /\ DOMAIN doc = DOMAIN t.raw \cup DOMAIN toRawData(res) \cup IDKeys
      /\ \A k \in IDKeys : doc[k] = t.id[k]
      /\ \A k \in MandatoryKeys : doc[k] = res[k]
      /\ res["expiration"] # Null => doc["expiration"] = res["expiration"]
      /\ \A k \in DOMAIN t.raw : k \in SessionKeys \cup IDKeys \/ doc[k] = t.raw[k]
  BY <1>1, MarshalKeys
<1> HIDE DEF doc
<1>6. \A k \in DOMAIN t.raw : k \in ForeignKeys => doc[k] = t.raw[k]
  BY <1>3, <1>5
<1> QED
  BY <1>4, <1>5, <1>6 DEF doc, d

(* The document of a save decodes to the memory. *)
LEMMA DecodesToMemory ==
  ASSUME DataInv, up, NEW res \in Sessions
  PROVE  LET doc == MarshalJSON([t EXCEPT !.session = res])
             d == UnmarshalJSON(doc)
         IN /\ d.id = t.id
            /\ \A k \in MandatoryKeys : d.session[k] = res[k]
            /\ d.session["expiration"] = res["expiration"] \/ res["expiration"] = Null
<1> DEFINE doc == MarshalJSON([t EXCEPT !.session = res])
<1>1. /\ \A k \in IDKeys : k \in DOMAIN doc /\ doc[k] = t.id[k]
      /\ \A k \in MandatoryKeys : doc[k] = res[k]
      /\ res["expiration"] # Null => doc["expiration"] = res["expiration"]
      /\ DOMAIN doc = DOMAIN t.raw \cup DOMAIN toRawData(res) \cup IDKeys
  BY MarshalMemory
<1>2. /\ MandatoryKeys \subseteq DOMAIN doc
      /\ res["expiration"] # Null => "expiration" \in DOMAIN doc
  BY <1>1, SessionRaw
<1>3. t.id \in IDs
  BY DEF DataInv, TypeOK
<1> HIDE DEF doc
<1>4. UnmarshalJSON(doc).id = t.id
  <2>1. \A k \in IDKeys : t.id[k] # Null
    BY <1>3 DEF IDs
  <2>2. UnmarshalJSON(doc).id = [k \in IDKeys |-> t.id[k]]
    BY <1>1, <2>1 DEF UnmarshalJSON, Decode, ZeroID
  <2> QED
    BY <1>3, <2>2 DEF IDs
<1>5. ASSUME NEW k \in MandatoryKeys PROVE UnmarshalJSON(doc).session[k] = res[k]
  <2>1. res[k] # Null
    BY DEF Sessions
  <2> QED
    BY <1>1, <1>2, <2>1 DEF UnmarshalJSON, Decode, ZeroSession, SessionKeys
<1>6. ASSUME res["expiration"] # Null
      PROVE  UnmarshalJSON(doc).session["expiration"] = res["expiration"]
  BY <1>1, <1>2, <1>6 DEF UnmarshalJSON, Decode, ZeroSession, SessionKeys
<1> QED
  BY <1>4, <1>5, <1>6 DEF doc

(* A save, and one whose write fails: the document goes into RawData, and  *)
(* the file has it, has what it had or is damaged.                         *)
LEMMA DataInvWrite ==
  ASSUME NEW res \in Sessions
  PROVE  DataInv /\ (RefreshToken(res) \/ EncodeFails(res)) => DataInv'
<1> SUFFICES ASSUME DataInv, RefreshToken(res) \/ EncodeFails(res) PROVE DataInv'
  OBVIOUS
<1> DEFINE doc == MarshalJSON([t EXCEPT !.session = res])
<1>1. /\ up /\ up' = up
      /\ t' = [session |-> res, id |-> t.id, raw |-> doc]
  BY Zenon DEF RefreshToken, EncodeFails
<1>2. file' \in {file, Damaged, doc} /\ saved' \in BOOLEAN /\ (saved' => file' = doc)
  BY Zenon DEF RefreshToken, EncodeFails
<1>3. /\ t.id \in IDs /\ t.raw \in Objects
      /\ up \in BOOLEAN /\ file \in Objects \cup {Damaged}
  BY DEF DataInv, TypeOK
<1>4. /\ doc \in Objects /\ ~ UnmarshalFails(doc)
      /\ DOMAIN doc = DOMAIN t.raw \cup DOMAIN toRawData(res) \cup IDKeys
      /\ \A k \in IDKeys : doc[k] = t.id[k]
      /\ \A k \in DOMAIN t.raw : k \in ForeignKeys => doc[k] = t.raw[k]
  BY <1>1, MarshalMemory
<1>5. LET d == UnmarshalJSON(doc)
      IN /\ d.id = t.id
         /\ \A k \in MandatoryKeys : d.session[k] = res[k]
         /\ d.session["expiration"] = res["expiration"] \/ res["expiration"] = Null
  BY <1>1, DecodesToMemory
<1>6. file # Damaged =>
        /\ ~ UnmarshalFails(file)
        /\ \A k \in DOMAIN file :
             /\ k \in DOMAIN t.raw
             /\ k \in IDKeys /\ file[k] # Null => t.id[k] = file[k]
             /\ k \in ForeignKeys => t.raw[k] = file[k]
  BY <1>1 DEF DataInv, MemoryKnowsFile
<1> HIDE DEF doc
<1>7. TypeOK'
  BY <1>1, <1>2, <1>3, <1>4 DEF TypeOK
<1>8. MemoryKnowsFile'
  <2>1. t'.raw = doc /\ t'.id = t.id
    BY <1>1
  <2>2. CASE file' = file
    BY <1>4, <1>6, <2>1, <2>2 DEF MemoryKnowsFile
  <2>3. CASE file' = Damaged
    BY <1>4, <2>1, <2>3 DEF MemoryKnowsFile
  <2>4. CASE file' = doc
    BY <1>4, <2>1, <2>4 DEF MemoryKnowsFile
  <2> QED
    BY <1>2, <2>2, <2>3, <2>4
<1>9. ReloadsMemory'
  <2>1. doc # Damaged
    BY <1>4, TokenDataAssumption
  <2>2. t'.session = res /\ t'.id = t.id
    BY <1>1
  <2> QED
    BY <1>2, <1>4, <1>5, <2>1, <2>2 DEF ReloadsMemory
<1> QED
  BY <1>7, <1>8, <1>9 DEF DataInv

LEMMA DataInvStep == DataInv /\ [Next]_vars => DataInv'
<1> SUFFICES ASSUME DataInv, [Next]_vars PROVE DataInv'
  OBVIOUS
<1>1. CASE New
  BY <1>1, DataInvNew
<1>2. CASE Exit
  BY <1>2, BlankTyped DEF Exit, DataInv, TypeOK, MemoryKnowsFile, ReloadsMemory
<1>3. ASSUME NEW res \in Sessions, RefreshToken(res) \/ EncodeFails(res) PROVE DataInv'
  BY <1>3, DataInvWrite
<1>4. ASSUME NEW res \in Sessions, OpenFails(res) PROVE DataInv'
  <2>1. t' \in [session : Sessions, id : IDs, raw : Objects] /\ t'.raw = t.raw /\ t'.id = t.id
    BY <1>4 DEF OpenFails, DataInv, TypeOK
  <2>2. ~ saved' /\ saved' \in BOOLEAN
    BY <1>4, Zenon DEF OpenFails
  <2> QED
    BY <1>4, <2>1, <2>2 DEF OpenFails, DataInv, TypeOK, MemoryKnowsFile, ReloadsMemory
<1>5. CASE UNCHANGED vars
  BY <1>5 DEF vars, DataInv, TypeOK, MemoryKnowsFile, ReloadsMemory
<1> QED
  BY <1>1, <1>2, <1>3, <1>4, <1>5 DEF Next

LEMMA DataInvariant == Spec => []DataInv
  BY DataInvInit, DataInvStep, PTL DEF Spec

-----------------------------------------------------------------------------
(* A sidecar that stopped after a save would find in the file what it had  *)
(* in memory.                                                              *)
THEOREM FileReloadsMemory == Spec => []ReloadsMemory
<1>1. DataInv => ReloadsMemory
  BY DEF DataInv
<1> QED
  BY <1>1, DataInvariant, PTL

(* No key of the document is ever lost, and those that are not the         *)
(* session's own keep their values: not by a save, not by one that fails   *)
(* at the open or in the write, and not by the start after it, unless the  *)
(* process ended while the file was damaged.                               *)
THEOREM FileKeepsData == Spec => NoDataLost
<1> DEFINE Keeps(old, new) ==
      \A k \in DOMAIN old :
        /\ k \in DOMAIN new
        /\ k \in KeptKeys /\ old[k] # Null => new[k] = old[k]
    Kept == Available /\ Available' => Keeps(Document, Document')
<1>1. ASSUME DataInv, [Next]_vars PROVE Kept \/ UNCHANGED vars
  <2>1. ASSUME Document' = Document PROVE Kept
    BY <2>1
  <2>2. ASSUME NEW res \in Sessions, RefreshToken(res) \/ EncodeFails(res) PROVE Kept
    <3> DEFINE doc == MarshalJSON([t EXCEPT !.session = res])
    <3>1. up /\ t'.raw = doc
      <4>1. up /\ t' = [session |-> res, id |-> t.id, raw |-> doc]
        BY <2>2, Zenon DEF RefreshToken, EncodeFails
      <4> QED
        BY <4>1
    <3>2. file' \in {file, Damaged, doc}
      BY <2>2, Zenon DEF RefreshToken, EncodeFails
    <3>3. /\ DOMAIN doc = DOMAIN t.raw \cup DOMAIN toRawData(res) \cup IDKeys
          /\ \A k \in IDKeys : doc[k] = t.id[k]
          /\ \A k \in DOMAIN t.raw : k \in ForeignKeys => doc[k] = t.raw[k]
          /\ doc # Damaged
      BY <1>1, <3>1, MarshalMemory, TokenDataAssumption
    <3> HIDE DEF doc
    <3>4. Keeps(t.raw, doc)
      BY <1>1, <3>1, <3>3 DEF DataInv, MemoryKnowsFile, KeptKeys
    <3>5. file # Damaged => Keeps(file, doc)
      BY <1>1, <3>1, <3>3 DEF DataInv, MemoryKnowsFile, KeptKeys
    <3>6. Document' = doc \/ Document' = Document
      BY <3>1, <3>2, <3>3 DEF Document
    <3>7. Keeps(Document, doc)
      BY <3>4, <3>5 DEF Document
    <3> QED
      BY <2>1, <3>6, <3>7
  <2>3. CASE UNCHANGED vars
    BY <2>3
  <2>4. CASE New \/ Exit
    <3>1. Available /\ Available' => file # Damaged /\ file' = file
      BY <2>4 DEF New, Exit, Available
    <3> QED
      BY <3>1 DEF Document
  <2>5. ASSUME NEW res \in Sessions, OpenFails(res) PROVE Kept
    <3>1. file' = file /\ t'.raw = t.raw
      BY <1>1, <2>5 DEF OpenFails, DataInv, TypeOK
    <3> QED
      BY <2>1, <3>1 DEF Document
  <2> QED
    BY <1>1, <2>2, <2>3, <2>4, <2>5 DEF Next
<1>2. DataInv /\ [Next]_vars => [Kept]_vars
  BY <1>1
<1> HIDE DEF Kept
<1>3. Spec => [][Kept]_vars
  BY <1>2, DataInvariant, PTL DEF Spec
<1> QED
  BY <1>3 DEF NoDataLost, Kept

(* File and memory are what the Go structs can hold.                       *)
THEOREM TypeCorrect == Spec => []TypeOK
<1>1. DataInv => TypeOK
  BY DEF DataInv
<1> QED
  BY <1>1, DataInvariant, PTL
=============================================================================
