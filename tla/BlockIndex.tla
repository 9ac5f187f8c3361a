------------------------------ MODULE BlockIndex ------------------------------
(***************************************************************************)
(* BuildBlockIndexRecords (src/indexing.c): the LevelDB block index of     *)
(* bitcoind is opened and read twice.  LDB_CountEntriesForPrefixes counts  *)
(* the 'b' and 'f' keys, arrays of that many elements are allocated, and a *)
(* second pass over the keys stores every fully validated block at the     *)
(* array index equal to its height and counts it.                          *)
(*                                                                         *)
(* The keys are block hashes, so the iterator meets the blocks in an order *)
(* that has nothing to do with height or age: any order.  The database is  *)
(* the one bitcoind maintains: a tree of blocks, stale branches included,  *)
(* in which a block that reached BLOCK_VALID_CHAIN has only ancestors that *)
(* did, but for a node that was started from a UTXO snapshot: the blocks   *)
(* above the snapshot are validated first, those below it afterwards.      *)
(* A database that a cp tore (IndexSession) is not among them: a record    *)
(* without its ancestors may name a height the array has no element for.   *)
(***************************************************************************)
EXTENDS Naturals, FiniteSets

CONSTANTS
    Blocks,         \* the 'b' keys the database may hold
    FileKeys,       \* the 'f' keys it holds
    OtherKeys,      \* its 'l', 'R' and 'F' keys
    Statuses,       \* the BlockStatus values that occur
    MaxHeight,      \* bound: the largest height a record can name
    NONE            \* no block: the parent of genesis, a malloc'ed element nobody wrote

ASSUME BlocksAssumption == IsFiniteSet(Blocks) /\ NONE \notin Blocks
ASSUME KeysAssumption ==
    /\ IsFiniteSet(FileKeys) /\ IsFiniteSet(OtherKeys)
    /\ Blocks \cap FileKeys = {} /\ Blocks \cap OtherKeys = {} /\ FileKeys \cap OtherKeys = {}
ASSUME StatusesAssumption == Statuses \subseteq Nat
ASSUME MaxHeightAssumption == MaxHeight \in Nat

BLOCK_VALID_CHAIN == 4

(* status & BLOCK_VALID_MASK: the mask is 1|2|3|4|5 = 7. *)
Validity(status) == status % 8

Heights == 0..MaxHeight

VARIABLES
    db,             \* the database: block -> [prev, height, status]
    snapshot,       \* the block of a UTXO snapshot that is not validated itself yet, or NONE
    pc,             \* where BuildBlockIndexRecords is
    counts,         \* counts[2] of LDB_CountEntriesForPrefixes
    todo,           \* the keys the second pass has not reached
    table,          \* gIndexRecords.blockIndexRecord
    recordCount,    \* gIndexRecords.blockIndexRecordCount
    fileCount,      \* gIndexRecords.fileInformationRecordCount
    overrun         \* a record was stored behind the end of the array

vars == <<db, snapshot, pc, counts, todo, table, recordCount, fileCount, overrun>>

----------------------------------------------------------------------------
(* The database of bitcoind. *)

Keys == DOMAIN db \cup FileKeys \cup OtherKeys

IsChain(b) == Validity(db[b].status) >= BLOCK_VALID_CHAIN

(* One genesis block; every other block has its parent, one lower: the     *)
(* database of bitcoind, or a whole copy of it (IndexSession tells when    *)
(* the copy in /tmp is torn, after which records may be missing).          *)
IsTree(prev, height) ==
    /\ \A b \in DOMAIN prev : height[b] = 0 <=> prev[b] = NONE
    /\ \A b, c \in DOMAIN prev : height[b] = 0 /\ height[c] = 0 => b = c
    /\ \A b \in DOMAIN prev : height[b] # 0 =>
         prev[b] \in DOMAIN prev /\ height[b] = height[prev[b]] + 1

(* Full validation of a block implies that of its parent, unless that is   *)
(* the block of the snapshot.                                              *)
ChainClosed(prev, status, base) ==
    \A b \in DOMAIN prev : prev[b] \notin {NONE, base} /\ Validity(status[b]) >= BLOCK_VALID_CHAIN =>
        Validity(status[prev[b]]) >= BLOCK_VALID_CHAIN

Init ==
    /\ \E D \in SUBSET Blocks :
         \E prev \in [D -> D \cup {NONE}], height \in [D -> Heights] :
           /\ IsTree(prev, height)
           /\ \E status \in [D -> Statuses] :
                /\ snapshot \in {NONE} \cup {b \in D : Validity(status[b]) < BLOCK_VALID_CHAIN}
                /\ ChainClosed(prev, status, snapshot)
                /\ db = [b \in D |-> [prev |-> prev[b], height |-> height[b], status |-> status[b]]]
    /\ pc = "open"
    /\ counts = [b |-> 0, f |-> 0]
    /\ todo = {}
    /\ table = [h \in Heights |-> NONE]
    /\ recordCount = 0
    /\ fileCount = 0
    /\ overrun = FALSE

----------------------------------------------------------------------------
(* LDB_InitOpen: an error ends the process. *)
LDB_InitOpen ==
    /\ pc = "open"
    /\ pc' \in {"count", "exit"}
    /\ UNCHANGED <<db, snapshot, counts, todo, table, recordCount, fileCount, overrun>>

(* Mutant: the block array is allocated with the count of the 'f' keys. *)
CountEntriesSwapped ==
    /\ pc = "count"
    /\ counts' = [b |-> Cardinality(FileKeys), f |-> Cardinality(DOMAIN db)]
    /\ todo' = Keys
    /\ pc' = "fill"
    /\ UNCHANGED <<db, snapshot, table, recordCount, fileCount, overrun>>

(* LDB_CountEntriesForPrefixes(instance, "bf", 2, counts), the two mallocs *)
(* and LDB_IterSeekToFirst.  The elements of the array are uninitialised.  *)
CountEntries ==
    /\ pc = "count"
    /\ counts' = [b |-> Cardinality(DOMAIN db), f |-> Cardinality(FileKeys)]
    /\ todo' = Keys
    /\ pc' = "fill"
    /\ UNCHANGED <<db, snapshot, table, recordCount, fileCount, overrun>>

(* Mutant: the record is appended instead of stored at its height. *)
StoreAppended(h, b) ==
    IF recordCount < counts.b
    THEN table' = [table EXCEPT ![recordCount] = b] /\ UNCHANGED overrun
    ELSE overrun' = TRUE /\ UNCHANGED table

(* The element of the array with index h. *)
Store(h, b) ==
    IF h < counts.b
    THEN table' = [table EXCEPT ![h] = b] /\ UNCHANGED overrun
    ELSE overrun' = TRUE /\ UNCHANGED table

(* Mutant: the counter is incremented for every 'b' key. *)
ReadBlockKeyCountsAll(b) ==
    /\ b \in DOMAIN db
    /\ IF IsChain(b) THEN Store(db[b].height, b) ELSE UNCHANGED <<table, overrun>>
    /\ recordCount' = recordCount + 1
    /\ UNCHANGED fileCount

(* A 'b' key: GetBlockIndexRecord, then the store if the block is valid.   *)
ReadBlockKey(b) ==
    /\ b \in DOMAIN db
    /\ IF IsChain(b)
       THEN Store(db[b].height, b) /\ recordCount' = recordCount + 1
       ELSE UNCHANGED <<table, overrun, recordCount>>
    /\ UNCHANGED fileCount

(* An 'f' key: GetFileInformationRecord, whose result is dropped. *)
ReadFileKey(k) ==
    /\ k \in FileKeys
    /\ fileCount' = fileCount + 1
    /\ UNCHANGED <<table, overrun, recordCount>>

(* Mutant: the first branch is taken for every key but 'f', so that the    *)
(* value of an 'l' or 'R' key is decoded as a block record of some height. *)
ReadOtherKeyDecoded(k) ==
    /\ k \in OtherKeys
    /\ \E h \in Heights : Store(h, k)
    /\ recordCount' = recordCount + 1
    /\ UNCHANGED fileCount

(* An 'l' or 'R' key, or one no branch matches. *)
ReadOtherKey(k) ==
    /\ k \in OtherKeys
    /\ UNCHANGED <<table, overrun, recordCount, fileCount>>

(* Mutant: an 'l' or 'R' key continues without LDB_IterNext. *)
IterStuck ==
    /\ pc = "fill"
    /\ \E k \in todo :
         /\ todo' = IF k \in OtherKeys THEN todo ELSE todo \ {k}
         /\ ReadBlockKey(k) \/ ReadFileKey(k) \/ ReadOtherKey(k)
    /\ UNCHANGED <<db, snapshot, pc, counts>>

IterNext ==
    /\ pc = "fill"
    /\ \E k \in todo :
         /\ todo' = todo \ {k}
         /\ ReadBlockKey(k) \/ ReadFileKey(k) \/ ReadOtherKey(k)
    /\ UNCHANGED <<db, snapshot, pc, counts>>

(* LDB_IterDestroy, LDB_Close and the assignment to gEnv.indexRecords. *)
Publish ==
    /\ pc = "fill"
    /\ todo = {}
    /\ pc' = "done"
    /\ UNCHANGED <<db, snapshot, counts, todo, table, recordCount, fileCount, overrun>>

Next == LDB_InitOpen \/ CountEntries \/ IterNext \/ Publish

Spec == Init /\ [][Next]_vars

(* The process is not stopped from outside while it reads the database. *)
FairSpec == Spec /\ WF_vars(Next)

----------------------------------------------------------------------------
(* Properties. *)

(* Types; in particular an element of the array is the record of a 'b' key *)
(* or was never written: no other kind of value is decoded into it.        *)
TypeOK ==
    /\ DOMAIN db \subseteq Blocks
    /\ db \in [DOMAIN db -> [prev : Blocks \cup {NONE}, height : Heights, status : Statuses]]
    /\ snapshot \in DOMAIN db \cup {NONE}
    /\ pc \in {"open", "count", "fill", "done", "exit"}
    /\ counts \in [b : Nat, f : Nat]
    /\ todo \subseteq Keys
    /\ table \in [Heights -> Blocks \cup {NONE}]
    /\ recordCount \in Nat
    /\ fileCount \in Nat
    /\ overrun \in BOOLEAN

(* The array is sized by the number of 'b' keys and indexed by height: no  *)
(* record is stored behind its end, in whatever order the keys come and    *)
(* however the tree branches, and the loops of src/API.c over the first    *)
(* blockIndexRecordCount elements stay inside it.                          *)
StaysInArray ==
    /\ ~overrun
    /\ pc \in {"fill", "done"} => recordCount <= counts.b

(* The first height above the snapshot; above everything when there is none. *)
AboveSnapshot == IF snapshot = NONE THEN MaxHeight + 1 ELSE db[snapshot].height + 1

(* At the end every height up to that of a fully validated block holds a   *)
(* fully validated block of that height: GetBlock finds no uninitialised   *)
(* record below the tip.  With a snapshot this holds on each side of it:   *)
(* below it up to what was validated there, and above it; what lies        *)
(* between was never written.                                              *)
NoHoles ==
    pc = "done" =>
      \A b \in DOMAIN db : IsChain(b) =>
        \A h \in 0..db[b].height : h >= AboveSnapshot \/ db[b].height < AboveSnapshot =>
          /\ table[h] \in DOMAIN db
          /\ db[table[h]].height = h
          /\ IsChain(table[h])

(* Without a stale branch that was fully validated, and without a snapshot *)
(* that is not, the first blockIndexRecordCount elements are exactly the   *)
(* initialised ones and they form one chain.  (With such a branch the      *)
(* count exceeds the tip, and the loops of src/API.c reach elements nobody *)
(* wrote; with a snapshot they do not reach the tip.)                      *)
NoStaleChain ==
    \A b, c \in DOMAIN db : IsChain(b) /\ IsChain(c) /\ db[b].height = db[c].height => b = c

OneChain ==
    pc = "done" /\ NoStaleChain /\ snapshot = NONE =>
      /\ \A h \in Heights : table[h] # NONE <=> h < recordCount
      /\ \A h \in Heights : h + 1 < recordCount => db[table[h + 1]].prev = table[h]

(* The build ends, with an index or with the exit of LDB_InitOpen.         *)
Terminates == <>(pc \in {"done", "exit"})
=============================================================================
