----------------------------- MODULE IndexSession -----------------------------
(***************************************************************************)
(* IndexCoreDatadir (src/indexing.c) among the other processes of the      *)
(* machine: bitcoind, which owns and extends the block index, and other    *)
(* programs linked with the library.  The blk files are listed first; then *)
(* the index is read in place when ps shows no bitcoind, and otherwise     *)
(* from a copy made with `cp -r` in the fixed directory /tmp/block-index,  *)
(* which `rm -rf` removes afterwards.                                      *)
(*                                                                         *)
(* A database is abstracted to the number of the last block in it; "torn"  *)
(* is a set of files no LevelDB ever was in.  LevelDB lets one process     *)
(* open a directory.  IsBitcoindRunning is called twice; the first result  *)
(* is only printed.  Both commands are run by system and may fail half way *)
(* (a full disk, a file LevelDB removed meanwhile, a file of another       *)
(* user); CopyDirectory and DeleteDirectory say so on stderr and return    *)
(* -1, which IndexCoreDatadir does not look at.                            *)
(***************************************************************************)
EXTENDS Naturals

CONSTANTS
    Sessions,       \* processes that call InitMLBTCC
    BITCOIND,       \* the process bitcoind
    NONE,           \* nobody; no directory; no index
    TORN,           \* a torn database
    BlocksPerFile,  \* blocks in one blk file
    MaxTip,         \* bound: blocks bitcoind appends
    MaxRuns         \* bound: runs of one session

ASSUME BlocksPerFileAssumption == BlocksPerFile \in Nat \ {0}
ASSUME BoundsAssumption == MaxTip \in Nat /\ MaxRuns \in Nat
ASSUME NamesAssumption ==
    /\ BITCOIND \notin Sessions /\ NONE \notin Sessions /\ NONE # BITCOIND
    /\ NONE # TORN /\ NONE \notin Nat /\ TORN \notin Nat

VARIABLES
    up,         \* ps shows bitcoind
    tip,        \* the last block of blocks/index
    lock,       \* the process that holds blocks/index/LOCK
    tmp,        \* the database at the top of /tmp/block-index, NONE without the directory
    tmpLock,    \* the process that holds /tmp/block-index/LOCK
    pc, run,    \* where each session is, and in which of its runs
    listed,     \* gEnv.blkFiles.count of each session
    from,       \* the tip when the session's cp started
    target,     \* where cp writes: at the "top" of a directory it made, "inside" one it
                \* found, or in one it made and rm has been at since ("spoilt")
    view,       \* the database a session has open, then its index
    asOf,       \* history: the tip when the session called IndexCoreDatadir
    quiet,      \* history: no block was appended since
    alone,      \* history: /tmp/block-index did not exist then, no other session has
                \* run since, no block was appended during the cp and the cp succeeded
    failed      \* history: a session was killed or left by exit, or its rm failed

disk == <<up, tip, lock, tmp, tmpLock>>
local == <<pc, run, listed, from, target, view>>
history == <<asOf, quiet, alone, failed>>
vars == <<disk, local, history>>

(* The blk files that hold the blocks up to t, as ListFiles counts them.   *)
FilesFor(t) == t \div BlocksPerFile + 1

Active(s) == pc[s] \notin {"idle", "done", "exit"}

(* A cp of s is at work; "orphan" is one whose session was killed.         *)
Writing(s) == pc[s] \in {"copying", "orphan"}

Init ==
    /\ up \in BOOLEAN
    /\ tip = 0
    /\ lock = IF up THEN BITCOIND ELSE NONE
    /\ tmp = NONE
    /\ tmpLock = NONE
    /\ pc = [s \in Sessions |-> "idle"]
    /\ run = [s \in Sessions |-> 0]
    /\ listed = [s \in Sessions |-> 0]
    /\ from = [s \in Sessions |-> 0]
    /\ target = [s \in Sessions |-> "inside"]
    /\ view = [s \in Sessions |-> NONE]
    /\ asOf = [s \in Sessions |-> 0]
    /\ quiet = [s \in Sessions |-> FALSE]
    /\ alone = [s \in Sessions |-> FALSE]
    /\ failed = FALSE

----------------------------------------------------------------------------
(* bitcoind. ps shows it before it has opened the index; it gives up when  *)
(* another process holds the lock.  An append stands for every write of    *)
(* bitcoind to the files of the index, a compaction included.              *)

BitcoindStarts ==
    /\ ~up
    /\ up' = TRUE
    /\ UNCHANGED <<tip, lock, tmp, tmpLock, local, history>>

BitcoindOpens ==
    /\ up /\ lock # BITCOIND
    /\ IF lock = NONE
       THEN lock' = BITCOIND /\ UNCHANGED up
       ELSE up' = FALSE /\ UNCHANGED lock
    /\ UNCHANGED <<tip, tmp, tmpLock, local, history>>

BitcoindAppends ==
    /\ lock = BITCOIND /\ tip < MaxTip
    /\ tip' = tip + 1
    /\ quiet' = [s \in Sessions |-> FALSE]
    /\ alone' = [s \in Sessions |-> alone[s] /\ pc[s] # "copying"]
    /\ UNCHANGED <<up, lock, tmp, tmpLock, local, asOf, failed>>

BitcoindStops ==
    /\ up
    /\ up' = FALSE
    /\ lock' = IF lock = BITCOIND THEN NONE ELSE lock
    /\ UNCHANGED <<tip, tmp, tmpLock, local, history>>

----------------------------------------------------------------------------
(* A session.  Every step of one session disturbs the others; a cp or an   *)
(* rm that fails spoils the call of the session itself too.                *)

Goto(s, place) == pc' = [pc EXCEPT ![s] = place]

Disturbs(s) ==
    /\ alone' = [r \in Sessions |-> alone[r] /\ r = s]
    /\ failed' = (failed \/ pc'[s] \in {"exit", "orphan"})
    /\ UNCHANGED <<asOf, quiet>>

CopySpoils ==
    /\ alone' = [r \in Sessions |-> FALSE]
    /\ UNCHANGED <<asOf, quiet, failed>>

RemovalSpoils(s) ==
    /\ alone' = [r \in Sessions |-> alone[r] /\ r = s]
    /\ failed' = TRUE
    /\ UNCHANGED <<asOf, quiet>>

(* Mutant: a second InitMLBTCC keeps the list of the first. *)
ListBlkFilesOnce(s) ==
    /\ pc[s] \in {"idle", "done", "exit"} /\ run[s] < MaxRuns
    /\ Goto(s, "listed")
    /\ run' = [run EXCEPT ![s] = run[s] + 1]
    /\ listed' = [listed EXCEPT ![s] = IF run[s] = 0 THEN FilesFor(tip) ELSE listed[s]]
    /\ view' = [view EXCEPT ![s] = NONE]
    /\ asOf' = [asOf EXCEPT ![s] = tip]
    /\ quiet' = [quiet EXCEPT ![s] = TRUE]
    /\ alone' = [r \in Sessions |-> r = s /\ tmp = NONE /\ \A q \in Sessions \ {s} : ~Active(q)]
    /\ UNCHANGED <<disk, from, target, failed>>

(* ListFiles and SortFiles. *)
ListBlkFiles(s) ==
    /\ pc[s] \in {"idle", "done", "exit"} /\ run[s] < MaxRuns
    /\ Goto(s, "listed")
    /\ run' = [run EXCEPT ![s] = run[s] + 1]
    /\ listed' = [listed EXCEPT ![s] = FilesFor(tip)]
    /\ view' = [view EXCEPT ![s] = NONE]
    /\ asOf' = [asOf EXCEPT ![s] = tip]
    /\ quiet' = [quiet EXCEPT ![s] = TRUE]
    /\ alone' = [r \in Sessions |-> r = s /\ tmp = NONE /\ \A q \in Sessions \ {s} : ~Active(q)]
    /\ UNCHANGED <<disk, from, target, failed>>

(* The answer of ps, or 0 when popen fails. *)
IsBitcoindRunning(s) ==
    /\ pc[s] = "listed"
    /\ \E found \in {up, FALSE} : Goto(s, IF found THEN "copy" ELSE "open")
    /\ Disturbs(s)
    /\ UNCHANGED <<disk, run, listed, from, target, view>>

(* Mutants: the error of LDB_Open is ignored; the open is retried.         *)
OpenIndexAnyway(s) ==
    /\ pc[s] = "open"
    /\ view' = [view EXCEPT ![s] = tip] /\ Goto(s, "reading")
    /\ lock' = IF lock = NONE THEN s ELSE lock
    /\ Disturbs(s)
    /\ UNCHANGED <<up, tip, tmp, tmpLock, run, listed, from, target>>

OpenIndexWaits(s) ==
    /\ pc[s] = "open" /\ lock = NONE
    /\ lock' = s /\ view' = [view EXCEPT ![s] = tip] /\ Goto(s, "reading")
    /\ Disturbs(s)
    /\ UNCHANGED <<up, tip, tmp, tmpLock, run, listed, from, target>>

(* BuildBlockIndexRecords(blkIndexesDir): LDB_InitOpen exits on an error.  *)
OpenIndex(s) ==
    /\ pc[s] = "open"
    /\ IF lock = NONE
       THEN lock' = s /\ view' = [view EXCEPT ![s] = tip] /\ Goto(s, "reading")
       ELSE Goto(s, "exit") /\ UNCHANGED <<lock, view>>
    /\ Disturbs(s)
    /\ UNCHANGED <<up, tip, tmp, tmpLock, run, listed, from, target>>

CloseIndex(s) ==
    /\ pc[s] = "reading"
    /\ lock' = NONE
    /\ Goto(s, "done")
    /\ Disturbs(s)
    /\ UNCHANGED <<up, tip, tmp, tmpLock, run, listed, from, target, view>>

(* Mutant: system("cp -r ... &") does not wait for the copy. *)
CopyStartsInBackground(s) ==
    /\ pc[s] = "copy"
    /\ from' = [from EXCEPT ![s] = tip]
    /\ target' = [target EXCEPT ![s] = IF tmp = NONE THEN "top" ELSE "inside"]
    /\ tmp' = IF tmp = NONE THEN TORN ELSE tmp
    /\ Goto(s, "opentmp")
    /\ Disturbs(s)
    /\ UNCHANGED <<up, tip, lock, tmpLock, run, listed, view>>

(* CopyDirectory: cp creates the directory, or, when it exists, copies the *)
(* index into a subdirectory of it and leaves the top as it is.            *)
CopyStarts(s) ==
    /\ pc[s] = "copy"
    /\ from' = [from EXCEPT ![s] = tip]
    /\ target' = [target EXCEPT ![s] = IF tmp = NONE THEN "top" ELSE "inside"]
    /\ tmp' = IF tmp = NONE THEN TORN ELSE tmp
    /\ Goto(s, "copying")
    /\ Disturbs(s)
    /\ UNCHANGED <<up, tip, lock, tmpLock, run, listed, view>>

(* system or cp fails before anything is written: no process, no right to  *)
(* read the index or to write in /tmp.                                     *)
CopyRefused(s) ==
    /\ pc[s] = "copy"
    /\ Goto(s, "opentmp")
    /\ CopySpoils
    /\ UNCHANGED <<disk, run, listed, from, target, view>>

(* What a cp that succeeds leaves at the top.  Blocks appended meanwhile   *)
(* may be in the copy, or tear it; so may an rm of another session.        *)
Copied(s) ==
    CASE target[s] = "inside" -> {tmp}
      [] target[s] = "top" -> IF tip = from[s] THEN {tip} ELSE (from[s]..tip) \cup {TORN}
      [] OTHER -> (from[s]..tip) \cup {tmp, TORN}

(* The process of cp is gone, and with it what it knew. *)
CopyOver(s) ==
    /\ from' = [from EXCEPT ![s] = 0]
    /\ target' = [target EXCEPT ![s] = "inside"]

CopyEnds(s) ==
    /\ pc[s] = "copying"
    /\ tmp' \in Copied(s)
    /\ CopyOver(s)
    /\ Goto(s, "opentmp")
    /\ Disturbs(s)
    /\ UNCHANGED <<up, tip, lock, tmpLock, run, listed, view>>

(* cp stops half way, or goes on past a file it could not copy, and exits  *)
(* with an error, after which the copy is opened like any other.           *)
CopyFails(s) ==
    /\ pc[s] = "copying"
    /\ tmp' \in Copied(s) \cup (IF target[s] = "inside" THEN {} ELSE {TORN})
    /\ CopyOver(s)
    /\ Goto(s, "opentmp")
    /\ CopySpoils
    /\ UNCHANGED <<up, tip, lock, tmpLock, run, listed, view>>

(* BuildBlockIndexRecords(tmpBlkIndexesDir).  A torn database may open and *)
(* lack records, or not open.                                              *)
OpenTmp(s) ==
    /\ pc[s] = "opentmp"
    /\ \/ /\ tmp # NONE /\ tmpLock = NONE
          /\ tmpLock' = s /\ view' = [view EXCEPT ![s] = tmp] /\ Goto(s, "readtmp")
       \/ /\ tmp \in {NONE, TORN} \/ tmpLock # NONE
          /\ Goto(s, "exit") /\ UNCHANGED <<tmpLock, view>>
    /\ Disturbs(s)
    /\ UNCHANGED <<up, tip, lock, tmp, run, listed, from, target>>

CloseTmp(s) ==
    /\ pc[s] = "readtmp"
    /\ tmpLock' = IF tmpLock = s THEN NONE ELSE tmpLock
    /\ Goto(s, "delete")
    /\ Disturbs(s)
    /\ UNCHANGED <<up, tip, lock, tmp, run, listed, from, target, view>>

(* Mutant: the copy is left behind. *)
DeleteTmpForgotten(s) ==
    /\ pc[s] = "delete"
    /\ Goto(s, "done")
    /\ Disturbs(s)
    /\ UNCHANGED <<up, tip, lock, tmp, tmpLock, run, listed, from, target, view>>

(* rm has been at the directory: a session that still reads the copy may   *)
(* miss records, and a cp that writes it meanwhile is spoilt.              *)
Removes ==
    /\ view' \in [Sessions -> {TORN} \cup {view[r] : r \in Sessions}]
    /\ \A r \in Sessions : view'[r] = view[r] \/ (pc[r] = "readtmp" /\ view'[r] = TORN)
    /\ target' = [r \in Sessions |->
                     IF Writing(r) /\ target[r] = "top" THEN "spoilt" ELSE target[r]]

(* DeleteDirectory; files that a cp writes meanwhile stay.                 *)
DeleteTmp(s) ==
    /\ pc[s] = "delete"
    /\ tmp' \in {NONE} \cup {TORN : r \in {q \in Sessions : Writing(q)}}
    /\ tmpLock' = NONE
    /\ Removes
    /\ Goto(s, "done")
    /\ Disturbs(s)
    /\ UNCHANGED <<up, tip, lock, run, listed, from>>

(* rm cannot run, or leaves files behind, and exits with an error; the     *)
(* session goes on as if the directory were gone.                          *)
DeleteFails(s) ==
    /\ pc[s] = "delete" /\ tmp # NONE
    /\ tmp' \in {tmp, TORN}
    /\ tmpLock' \in {tmpLock, NONE}
    /\ Removes
    /\ Goto(s, "done")
    /\ RemovalSpoils(s)
    /\ UNCHANGED <<up, tip, lock, run, listed, from>>

(* The process is killed; the kernel releases its locks.  A cp it started  *)
(* dies with it or goes on without it; an rm it started has removed all of *)
(* the directory, a part of it or nothing.                                 *)
Crash(s) ==
    /\ Active(s) /\ pc[s] # "orphan"
    /\ \/ pc[s] = "copying" /\ Goto(s, "orphan") /\ UNCHANGED <<tmp, tmpLock, from, target, view>>
       \/ pc[s] = "copying" /\ Goto(s, "exit") /\ CopyOver(s) /\ UNCHANGED <<tmp, tmpLock, view>>
       \/ /\ pc[s] = "delete" /\ tmp # NONE
          /\ tmp' \in {tmp, TORN, NONE} /\ tmpLock' \in {tmpLock, NONE} /\ Removes
          /\ Goto(s, "exit") /\ UNCHANGED from
       \/ /\ pc[s] # "copying" /\ (pc[s] = "delete" => tmp = NONE)
          /\ tmpLock' = IF tmpLock = s THEN NONE ELSE tmpLock
          /\ Goto(s, "exit") /\ UNCHANGED <<tmp, from, target, view>>
    /\ lock' = IF lock = s THEN NONE ELSE lock
    /\ Disturbs(s)
    /\ UNCHANGED <<up, tip, run, listed>>

(* The cp of a killed session ends, well or not.                           *)
OrphanEnds(s) ==
    /\ pc[s] = "orphan"
    /\ tmp' \in Copied(s) \cup (IF target[s] = "inside" THEN {} ELSE {TORN})
    /\ CopyOver(s)
    /\ Goto(s, "exit")
    /\ Disturbs(s)
    /\ UNCHANGED <<up, tip, lock, tmpLock, run, listed, view>>

(* The steps of IndexCoreDatadir itself and of the commands it runs.       *)
Step(s) ==
    \/ IsBitcoindRunning(s)
    \/ OpenIndex(s) \/ CloseIndex(s)
    \/ CopyStarts(s) \/ CopyRefused(s) \/ CopyEnds(s) \/ CopyFails(s) \/ OrphanEnds(s)
    \/ OpenTmp(s) \/ CloseTmp(s) \/ DeleteTmp(s) \/ DeleteFails(s)

Next ==
    \/ BitcoindStarts \/ BitcoindOpens \/ BitcoindAppends \/ BitcoindStops
    \/ \E s \in Sessions : ListBlkFiles(s) \/ Step(s) \/ Crash(s)

Spec == Init /\ [][Next]_vars

(* A session that is not killed keeps running: its calls do not block, and *)
(* cp and rm end.                                                          *)
FairSpec == Spec /\ \A s \in Sessions : WF_vars(Step(s))

----------------------------------------------------------------------------
(* Properties. *)

(* The two passes of BuildBlockIndexRecords over the index of bitcoind see *)
(* one database: nobody appends to it in between, although bitcoind may    *)
(* start after IsBitcoindRunning answered no.                              *)
NoChangeUnderReader ==
    \A s \in Sessions : pc[s] = "reading" => lock = s /\ view[s] = tip

(* A session that finds no /tmp/block-index, shares the machine with no    *)
(* other session, and whose cp, if it makes one, succeeds while bitcoind   *)
(* writes nothing, ends with an index that is whole and at least as new as *)
(* its call.  Without each of the conditions it may end with an index that *)
(* lacks records, and report nothing: the result of cp is not looked at.   *)
FreshWhenAlone ==
    \A s \in Sessions : pc[s] = "done" /\ alone[s] =>
        view[s] \in Nat /\ view[s] >= asOf[s]

(* When bitcoind appends nothing after the call, every blk file the index  *)
(* refers to is in the list, although the list is made first and whatever  *)
(* the other sessions do.                                                  *)
ListCoversIndex ==
    \A s \in Sessions : pc[s] = "done" /\ quiet[s] /\ view[s] \in Nat =>
        FilesFor(view[s]) <= listed[s]

(* When every session has ended, none was killed or left by exit and no rm *)
(* failed, the copy is gone, also one that a failing cp left half made.    *)
LeavesNoCopy ==
    ~failed /\ (\A s \in Sessions : ~Active(s)) => tmp = NONE

(* IndexCoreDatadir waits for nobody: it ends, with an index or by exit.   *)
Ends == \A s \in Sessions : Active(s) ~> ~Active(s)

=============================================================================
