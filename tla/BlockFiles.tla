------------------------------ MODULE BlockFiles ------------------------------
(***************************************************************************)
(* The array gEnv.blkFiles and its use: ListFiles (src/files.c) collects   *)
(* the names readdir returns, in any order, that match "blk*.dat";         *)
(* SortFiles (src/indexing.c) sorts them by ExtractBlockNumber; GetBlock   *)
(* (src/API.c) takes the element whose index is the blockFile number of    *)
(* the block's index record.                                               *)
(*                                                                         *)
(* A matching name is the number in it.  ExtractBlockNumber searches the   *)
(* whole path for the first "blk", so a directory of the path that         *)
(* contains "blk" hides the number of the file: pathNumber is then what    *)
(* atoi reads behind it.                                                   *)
(***************************************************************************)
EXTENDS Naturals, Sequences, FiniteSets, Functions

CONSTANTS
    Numbers,            \* the file numbers that may exist
    OtherNames,         \* names in the directory that do not match
    AllocationSize,     \* third argument of ListFiles, 5000 in the code
    PathNumbers,        \* what atoi may read behind a "blk" in the directory's path
    NONE                \* no "blk" in the path; no file

ASSUME NumbersAssumption == Numbers \subseteq Nat
ASSUME OtherNamesAssumption == OtherNames \cap Numbers = {}
ASSUME AllocationSizeAssumption == AllocationSize \in Nat \ {0}
ASSUME PathNumbersAssumption == PathNumbers \subseteq Nat

VARIABLES
    onDisk,         \* the numbers of the blk files in the directory
    pathNumber,     \* see above
    pc,             \* where IndexCoreDatadir is
    pending,        \* the entries readdir has not returned
    files,          \* fileList.files, the first count elements
    totalSize,      \* fileList.totalSize
    overrun,        \* an element was written behind the end of the array
    asked,          \* the blockFile of the last GetBlock
    opened          \* the file GetBlock passed on, NONE for a read outside the array

vars == <<onDisk, pathNumber, pc, pending, files, totalSize, overrun, asked, opened>>

Init ==
    /\ onDisk \in SUBSET Numbers
    /\ pathNumber \in PathNumbers \cup {NONE}
    /\ pc = "opendir"
    /\ pending = {}
    /\ files = << >>
    /\ totalSize = 0
    /\ overrun = FALSE
    /\ asked = NONE
    /\ opened = NONE

----------------------------------------------------------------------------
(* opendir fails: the list is {NULL, 0, 0}, and IndexCoreDatadir goes on.  *)
OpendirFails ==
    /\ pc = "opendir"
    /\ pc' = "sort"
    /\ UNCHANGED <<onDisk, pathNumber, pending, files, totalSize, overrun, asked, opened>>

Opendir ==
    /\ pc = "opendir"
    /\ pc' = "readdir"
    /\ totalSize' = AllocationSize
    /\ pending' = onDisk \cup OtherNames
    /\ UNCHANGED <<onDisk, pathNumber, files, overrun, asked, opened>>

(* Mutant: the array grows one element too late. *)
GrownLate == IF Len(files) > totalSize THEN totalSize * 2 ELSE totalSize

(* The size of the array when the next element is written. *)
Grown == IF Len(files) >= totalSize THEN totalSize * 2 ELSE totalSize

ReaddirMatch(n) ==
    /\ n \in onDisk
    /\ totalSize' = Grown
    /\ IF Len(files) < Grown
       THEN files' = Append(files, n) /\ UNCHANGED overrun
       ELSE overrun' = TRUE /\ UNCHANGED files

ReaddirOther(n) ==
    /\ n \in OtherNames
    /\ UNCHANGED <<files, totalSize, overrun>>

Readdir ==
    /\ pc = "readdir"
    /\ \E n \in pending : pending' = pending \ {n} /\ (ReaddirMatch(n) \/ ReaddirOther(n))
    /\ UNCHANGED <<onDisk, pathNumber, pc, asked, opened>>

Closedir ==
    /\ pc = "readdir"
    /\ pending = {}
    /\ pc' = "sort"
    /\ UNCHANGED <<onDisk, pathNumber, pending, files, totalSize, overrun, asked, opened>>

----------------------------------------------------------------------------
ExtractBlockNumber(n) == IF pathNumber = NONE THEN n ELSE pathNumber

(* Mutant: the arguments of the comparison are swapped. *)
CompareFileInfoSwapped(a, b) == ExtractBlockNumber(b) <= ExtractBlockNumber(a)

(* a may come before b. *)
CompareFileInfo(a, b) == ExtractBlockNumber(a) <= ExtractBlockNumber(b)

(* qsort: any order of the elements that respects the comparison. *)
SortFiles ==
    /\ pc = "sort"
    /\ \E p \in Bijection(DOMAIN files, DOMAIN files) :
         /\ files' = [i \in DOMAIN files |-> files[p[i]]]
         /\ \A i, j \in DOMAIN files : i < j => CompareFileInfo(files'[i], files'[j])
    /\ pc' = "ready"
    /\ UNCHANGED <<onDisk, pathNumber, pending, totalSize, overrun, asked, opened>>

(* GetBlock of a block whose data bitcoind keeps in file n. *)
GetBlock(n) ==
    /\ pc = "ready"
    /\ n \in onDisk
    /\ asked' = n
    /\ opened' = IF n < Len(files) THEN files[n + 1] ELSE NONE
    /\ UNCHANGED <<onDisk, pathNumber, pc, pending, files, totalSize, overrun>>

Next ==
    \/ OpendirFails \/ Opendir \/ Readdir \/ Closedir
    \/ SortFiles
    \/ \E n \in Numbers : GetBlock(n)

Spec == Init /\ [][Next]_vars

----------------------------------------------------------------------------
(* Properties. *)

(* The array ListFiles fills is large enough at every step, and at the end *)
(* of the listing and of the sort it holds every matching file once.       *)
ListsEveryFile ==
    /\ ~overrun /\ Len(files) <= totalSize
    /\ pc \in {"sort", "ready"} /\ totalSize > 0 =>
         Range(files) = onDisk /\ Len(files) = Cardinality(onDisk)

(* GetBlock opens the file the index record names, when the datadir was    *)
(* never pruned, could be listed, and has no "blk" in its path.            *)
Unpruned == \A n \in onDisk : \A k \in 0..n : k \in onDisk

OpensTheRightFile ==
    Unpruned /\ pathNumber = NONE /\ totalSize > 0 => opened = asked

(* "We sort that array so that array[0] == blk00000.dat" (src/indexing.c,  *)
(* IndexCoreDatadir).                                                      *)
StartsAtFileZero ==
    pc = "ready" /\ pathNumber = NONE /\ Len(files) > 0 => files[1] = 0
=============================================================================
