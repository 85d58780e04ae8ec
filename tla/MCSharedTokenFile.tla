------------------------- MODULE MCSharedTokenFile -------------------------
(* Values of the constants of SharedTokenFile for TLC. *)
EXTENDS SharedTokenFile

SmallSkews == {-1, 0, 1}
NoFaults   == [k \in FaultKind |-> 0]
=============================================================================
