---------------------------- MODULE MCCodeExchange ----------------------------
(* Two overlapping exchanges of a few flows, with two signing keys.        *)
EXTENDS CodeExchange, TLC

(* Requests are interchangeable, and so are keys.                          *)
Symmetry == Permutations(Requests) \cup Permutations(Keys)

=============================================================================
