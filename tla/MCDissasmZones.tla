--------------------------- MODULE MCDissasmZones ---------------------------
(* A listing of four lines, two of them labels.                            *)
EXTENDS DissasmZones

MCLabels == {1, 3}
==============================================================================
