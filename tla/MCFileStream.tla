---------------------------- MODULE MCFileStream ----------------------------
(***************************************************************************)
(* FileStream for TLC: chunks of three bytes, and files of up to two and a *)
(* third of them, so that a size may be zero, a multiple of a chunk, or    *)
(* neither.  A short chunk may be one that leaves room for the header of   *)
(* another frame.                                                          *)
(***************************************************************************)
EXTENDS FileStream

MCSizes == (0 .. 4) \cup {7}
=============================================================================
