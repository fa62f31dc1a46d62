---------------------------- MODULE MCAuditChain ----------------------------
(***************************************************************************)
(* AuditChain for TLC; the appends are interchangeable.                    *)
(***************************************************************************)
EXTENDS AuditChain, TLC

Symmetry == Permutations(Writer)
=============================================================================
