--------------------------- MODULE MCSigningTimely ---------------------------
(* Values of the constants of SigningTimely for TLC. *)
EXTENDS SigningTimely

SmallSkews == {-1, 0, 1}

DiskFaults == [net |-> 0, stray |-> 0, disk |-> 2, midCrash |-> 0]
=============================================================================
