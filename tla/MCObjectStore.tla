---------------------------- MODULE MCObjectStore ----------------------------
(* Bounded instances of ObjectStore: three creators of one object.         *)
EXTENDS ObjectStore, TLC

CreatorSymmetry == Permutations(Creators)
=============================================================================
