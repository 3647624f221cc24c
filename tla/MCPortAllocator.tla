--------------------------- MODULE MCPortAllocator ---------------------------
(* PortAllocator for TLC: services that ask for a port and one whose config *)
(* file names a port, outside of the range or (MCInRange) within it.        *)
EXTENDS PortAllocator

CONSTANTS p1, p2, p3, f

MCThreeAndFixed == {p1, p2, p3, f}
MCOutOfRange == [s \in Services |-> IF s = f THEN 1 ELSE 0]
MCInRange == [s \in Services |-> IF s = f THEN 3 ELSE 0]
=============================================================================
