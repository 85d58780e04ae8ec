--------------------------- MODULE MCSchemaFilter ---------------------------
(* Values of the constants of SchemaFilter for TLC. *)
EXTENDS SchemaFilter, Naturals, FiniteSets

(* Two schemas, a response, a schema nobody defines, a security scheme and *)
(* a parameter in a document without parameters.                           *)
SmallKinds ==
  [r \in Refs |-> CASE r \in {"schema1", "schema2", "undefined"} -> "schemas"
                    [] r = "response" -> "responses"
                    [] r = "security" -> "whole"
                    [] r = "parameter" -> "absent"]

Bodies == {"schema1", "schema2", "response"}

(* No more than two references in a body and one in an operation, and one  *)
(* operation of a relevant path that is not relevant itself.               *)
MaxMentions == 2
Mentioned(n) == {S \in SUBSET Refs : Cardinality(S) <= n}

SmallDocuments ==
  [defined : {Bodies \cup {"security"}},
   mentions : {[r \in Refs |-> IF r \in Bodies THEN m[r] ELSE {}] :
                 m \in [Bodies -> Mentioned(MaxMentions)]},
   operations : {[o \in {"getKey", "updateKey"} |->
                    IF o = "getKey" THEN {r} ELSE {"schema2"}] : r \in Refs}
                \cup {[o \in {"updateKey"} |-> {"schema1"}]}]
=============================================================================
