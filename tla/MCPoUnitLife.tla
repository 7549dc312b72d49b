---------------------------- MODULE MCPoUnitLife ----------------------------
(* An entry with a few possible translations and merge partners with the   *)
(* same or another context, whose "#," line holds any of the flags.        *)
EXTENDS PoUnitLife

MCLines == {line \in [Flags -> {0, 1}] : \E f \in Flags : line[f] = 1}
=============================================================================
