--------------------------- MODULE MCTokenRefresh ---------------------------
(* Values of the constants of TokenRefresh for TLC. *)
EXTENDS TokenRefresh

NoSkew     == {0}
LateClock  == {-1, 0}

AnyFault  == [net |-> 1, stray |-> 1, disk |-> 1, midCrash |-> 1]
NetFaults == [net |-> 1, stray |-> 1, disk |-> 1, midCrash |-> 0]
=============================================================================
