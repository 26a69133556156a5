-------------------------------- MODULE MCDod --------------------------------
(* Instances of Dod for TLC. All PMC headers but Globals are alike.          *)
EXTENDS Dod, TLC

CONSTANTS g, a, b, c, s

MCRegs == 1..1
MCPmcs == {g, a, b, c}
MCSymmetry == Permutations({a, b, c})
=============================================================================
