------------------------------ MODULE MCDaemon ------------------------------
(* Instances of Daemon for TLC: two connections of one address.          *)
EXTENDS Daemon, TLC

CONSTANTS c1, c2, a1

Two == {c1, c2}
OneAddr == {a1}
SameAddr2 == [c \in Two |-> a1]

Sym2 == Permutations(Two)
=============================================================================
