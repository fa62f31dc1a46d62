------------------------- MODULE MCReceiveTransfer -------------------------
(***************************************************************************)
(* ReceiveTransfer for TLC: t1 and t2 are files of the same name, r.pdf,   *)
(* and so share the part files r.part and, for the second, r.pdf.part.     *)
(***************************************************************************)
EXTENDS ReceiveTransfer, TLC

CONSTANTS t1, t2, k1, k2

MCNames == {"r.pdf", "r.pdf.1", "r.pdf.2", "r.part", "r.pdf.part"}

MCOutNames == [t \in Transfer |-> <<"r.pdf", "r.pdf.1", "r.pdf.2">>]

MCPartOf == [n \in Name |-> IF n \in {"r.pdf.1", "r.pdf.2"} THEN "r.pdf.part"
                            ELSE IF n = "r.pdf" THEN "r.part" ELSE n]

MCPrekeyOf == [t \in Transfer |-> IF t = t1 THEN k1 ELSE k2]

BehindSkews == {-1}
AheadSkews  == {1}

Symmetry == Permutations(Attempt)
=============================================================================
