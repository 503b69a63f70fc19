------------------------------- MODULE MCLocks -------------------------------
(* Two products that can be ordered in either order of their ids.             *)
EXTENDS Locks, TLC

CONSTANTS o1, o2, w1, w2, h1, h2

SymAgents == Permutations(Workers) \cup Permutations(Handlers)
OneLine == {1}
OneOrderOf == <<o1>>
TwoLines == {1, 2}
TwoOrderOf == <<o1, o2>>
MCCarts == {<<1, 2>>, <<2, 1>>}
=============================================================================
