------------------------------ MODULE MCFlash ------------------------------
(* Instances of Flash for TLC. *)
EXTENDS Flash

CONSTANTS d1, d2

\* The first bytes of the data differ from those that belong in the next sector.
MCData == {[i \in Unsigned |-> IF i < 2 THEN d1 ELSE d2]}
=============================================================================
