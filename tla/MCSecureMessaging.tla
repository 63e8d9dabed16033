------------------------- MODULE MCSecureMessaging -------------------------
(* SecureMessaging for TLC: two protected commands besides the two special *)
(* ones would only permute; the first key starts just below the counter's  *)
(* wrap-around, as a BAC counter (random) may, the others at zero (PACE).  *)
EXTENDS SecureMessaging

CONSTANTS Ga, Select, Read

MCOps == {Ga, Select, Read}
MCStart == [k \in Numbers |-> IF k = 1 THEN SscMod - 2 ELSE 0]
=============================================================================
