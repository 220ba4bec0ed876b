------------------------- MODULE MCClientConnection -------------------------
(***************************************************************************)
(* Instances of ClientConnection for TLC.  One configuration of each kind  *)
(* and one that configSig() does not tell from it (another sni, say) are   *)
(* enough to tell what runs from what is configured.  Two calls and four   *)
(* events are enough for each overlap to break each property that names    *)
(* it: dropping any name from a property refutes it.                       *)
(***************************************************************************)
EXTENDS ClientConnection

CONSTANTS plain, resnied, switch

AllKinds  == {plain, resnied, switch}
OneSwitch == {switch}

SignatureOf == [c \in AllKinds |-> IF c = resnied THEN plain ELSE c]
=============================================================================
