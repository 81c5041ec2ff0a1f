---------------------------- MODULE MCSymbolTable ----------------------------
(* Four names over a table of three slots: collisions, wrap-around,          *)
(* shadowing and overflow.  The names can be renamed and the slots rotated   *)
(* without changing a behaviour, so every hash function is one of those that *)
(* do not decrease over the names in some fixed order and start at slot 0,   *)
(* up to renaming and rotation.                                              *)
EXTENDS SymbolTable

CONSTANTS a, b, c, d

MCNames == {a, b, c, d}

MCHashes == {h \in [MCNames -> Slots] :
                h[a] = 0 /\ h[a] <= h[b] /\ h[b] <= h[c] /\ h[c] <= h[d]}
==============================================================================
