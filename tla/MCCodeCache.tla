---------------------------- MODULE MCCodeCache ----------------------------
(* Small instances of CodeCache; the sources that compile are alike.        *)
EXTENDS CodeCache, TLC

Symmetric == Permutations(Codes \ Bad)
=============================================================================
