----------------------------- MODULE OpenFileSet -----------------------------
(***************************************************************************)
(* What the open-file cache of src/blkdat.c promises to its one caller,    *)
(* ReadBlockFromBlkDatFile: at most Capacity files are open; the bytes     *)
(* that are read come from the file that was asked for; a file that is     *)
(* open is read without opening or closing anything; a file is closed only *)
(* when the set is full, one at a time, to make room for the file that is  *)
(* asked for.                                                              *)
(***************************************************************************)
EXTENDS Naturals, FiniteSets

CONSTANTS Files, Capacity, NULL

VARIABLES open, read, failed

absVars == <<open, read, failed>>

Init == open = {} /\ read = <<NULL, NULL>> /\ failed = FALSE

(* The set after room was made for one more file. *)
Room(rest) ==
    \/ Cardinality(open) < Capacity /\ rest = open
    \/ Cardinality(open) = Capacity /\ \E g \in open : rest = open \ {g}

Hit(f) == f \in open /\ UNCHANGED <<open, failed>>

Miss(f) ==
    /\ f \notin open
    /\ \E rest \in SUBSET open : Room(rest) /\ open' = rest \cup {f}
    /\ UNCHANGED failed

Serve(f) == ~failed /\ read' = <<f, f>> /\ (Hit(f) \/ Miss(f))

(* The file cannot be opened; room was made for it all the same. *)
Fail(f) ==
    /\ ~failed
    /\ f \notin open
    /\ \E rest \in SUBSET open : Room(rest) /\ open' = rest
    /\ failed' = TRUE
    /\ UNCHANGED read

Next == \E f \in Files : Serve(f) \/ Fail(f)

Spec == Init /\ [][Next]_absVars
=============================================================================
