----------------------------- MODULE MCBlockIndex -----------------------------
(***************************************************************************)
(* BlockIndex for every tree of up to four blocks: long enough for a stale *)
(* branch of the same height as the main one, for an unvalidated tip, for  *)
(* an invalidated block that keeps its validity level and for a snapshot   *)
(* with blocks above and below it.                                         *)
(***************************************************************************)
EXTENDS BlockIndex, TLC

(* TRANSACTIONS and CHAIN, the two sides of the test, and SCRIPTS but failed. *)
MCStatuses == {3 + 8, 4 + 8, 5 + 8 + 32}

=============================================================================
