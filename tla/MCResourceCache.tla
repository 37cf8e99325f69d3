--------------------------- MODULE MCResourceCache ---------------------------
(* Instances of ResourceCache for TLC.                                     *)
EXTENDS ResourceCache

CONSTANTS t1, t2, page, late, empty

\* Every worker asks for every path.
Shared == [t \in Threads |-> Paths]
=============================================================================
