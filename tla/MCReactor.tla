------------------------------ MODULE MCReactor ------------------------------
(* Instances of Reactor for TLC.                                           *)
EXTENDS Reactor

CONSTANTS c1, c2, c3, w1, w2
=============================================================================
