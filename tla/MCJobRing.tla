----------------------------- MODULE MCJobRing -----------------------------
(* Instance of JobRing: the three id formats and both ring geometries,     *)
(* enough jobs of Pool A for a slot of an eight-slot ring to come around,  *)
(* one answer on the line.                                                 *)
EXTENDS JobRing
MCChips == {"BM1366", "BM1370", "BM1397"}
MCMaxSent == [A |-> 9, B |-> 2]
MCCores == {3, 15}
=============================================================================
