---------------------------- MODULE MCLegacyKdc ----------------------------
(* LegacyKdc for TLC; keys, calls and sessions are interchangeable.        *)
EXTENDS LegacyKdc, TLC

Symmetry == Permutations(Key) \cup Permutations(Call) \cup Permutations(Session)
=============================================================================
