------------------------------ MODULE MCSv2Work ------------------------------
(* Instance of Sv2Work: a ring of two.  In MCKinds a standard channel never *)
(* gives way to an extended one, in MCMixed it does.                        *)
EXTENDS Sv2Work
Pair(a, b) == [p \in {"PRIMARY", "FALLBACK"} |-> IF p = "PRIMARY" THEN a ELSE b]
MCPools == {"PRIMARY", "FALLBACK"}
MCKinds == {Pair("V1", "STD"), Pair("V1", "EXT"), Pair("STD", "STD"), Pair("EXT", "EXT")}
MCMixed == {Pair("STD", "EXT")}
==============================================================================
