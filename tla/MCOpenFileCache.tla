--------------------------- MODULE MCOpenFileCache ---------------------------
(***************************************************************************)
(* OpenFileCache on a small instance.  Two slots and two paths in each of  *)
(* two arrays give four FileInfos that compete for the slots; three stream *)
(* addresses let a closed one be reused while a stale pointer still names  *)
(* it.                                                                     *)
(***************************************************************************)
EXTENDS OpenFileCache, TLC

Symmetry == Permutations(Paths) \cup Permutations(Streams)
=============================================================================
