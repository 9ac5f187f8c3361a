---------------------------- MODULE OpenFileCache ----------------------------
(***************************************************************************)
(* The cache of open blk*.dat streams behind ReadBlockFromBlkDatFile       *)
(* (src/blkdat.c): OpenFile looks the FileInfo up in the static array      *)
(* openFiles, closes the least recently used stream when no slot is free,  *)
(* opens the file and records it in the first free slot.                   *)
(*                                                                         *)
(* A FileInfo is one element of the array that ListFiles allocates on      *)
(* every InitMLBTCC: <<g, p>> is the entry for path p in the g-th array.   *)
(* Earlier arrays are never freed and openFiles keeps pointing into them.  *)
(* A FILE* is an address in Streams; fopen may hand out an address that    *)
(* an earlier fclose released, so a stale pointer can come alive again as  *)
(* another file's stream.                                                  *)
(***************************************************************************)
EXTENDS Naturals

CONSTANTS
    Paths,          \* the blk*.dat files of the datadir
    Streams,        \* the addresses fopen can return
    NULL,           \* the null pointer
    MaxOpenFiles,   \* MAX_OPEN_FILES, 5 in the code
    TimeModulus,    \* 2^32 in the code: lastAccessTime is a U32
    MaxInit,        \* bound: calls of InitMLBTCC
    MaxNow          \* bound: last second the wall clock shows

ASSUME MaxOpenFilesAssumption == MaxOpenFiles \in Nat \ {0}
ASSUME TimeModulusAssumption == TimeModulus \in Nat \ {0}
ASSUME MaxInitAssumption == MaxInit \in Nat \ {0}
ASSUME MaxNowAssumption == MaxNow \in Nat
ASSUME NullAssumption == NULL \notin Streams /\ NULL \notin (1..MaxInit) \X Paths

FileInfos == (1..MaxInit) \X Paths
Slots == 0..(MaxOpenFiles - 1)

VARIABLES
    isOpen,      \* FileInfo.isOpen
    file,        \* FileInfo.file, never cleared by CloseLRUFile
    openFiles,   \* the static cache array of blkdat.c
    stream,      \* stream[s]: the FileInfo whose file the open stream s reads, NULL if closed
    blkFiles,    \* which array gEnv.blkFiles.files points to
    now,         \* time(NULL)
    crashed,     \* the process died in fseek(NULL, ...)
    read,        \* history: the FileInfo of the last block read, and the file its bytes came from
    lastUse,     \* history: the second of each FileInfo's last read
    steady       \* history: the clock never stepped back nor passed the U32 range

vars == <<isOpen, file, openFiles, stream, blkFiles, now, crashed, read, lastUse, steady>>

----------------------------------------------------------------------------
(* Mutant: the seconds are stored without the cast to U32. *)
StampWide == now

(* (U32)time(NULL) *)
Stamp == now % TimeModulus

(* Every element ListFiles creates has isOpen = 0 and file = NULL; the     *)
(* static array openFiles starts zeroed.                                   *)
Init ==
    /\ isOpen = [f \in FileInfos |-> FALSE]
    /\ file = [f \in FileInfos |-> NULL]
    /\ openFiles = [i \in Slots |-> [fileInfo |-> NULL, lastAccessTime |-> 0]]
    /\ stream = [s \in Streams |-> NULL]
    /\ blkFiles = 1
    /\ now = 0
    /\ crashed = FALSE
    /\ read = <<NULL, NULL>>
    /\ lastUse = [f \in FileInfos |-> 0]
    /\ steady = TRUE

----------------------------------------------------------------------------
(* OpenFile, the hit: isOpen is set and some slot holds the FileInfo.      *)

(* Mutant: the pointer in the FileInfo is trusted without the flag.        *)
CachedByPointer(f) == file[f] # NULL

Cached(f) == isOpen[f] /\ \E i \in Slots : openFiles[i].fileInfo = f

FirstSlotWith(slots, x, i) ==
    /\ slots[i].fileInfo = x
    /\ \A j \in 0..(i - 1) : slots[j].fileInfo # x

(* Mutant of Touched: a hit leaves the stamp of the first open in place.   *)
TouchedNoStamp(f) == openFiles

Touched(f) ==
    [i \in Slots |-> IF FirstSlotWith(openFiles, f, i)
                     THEN [openFiles[i] EXCEPT !.lastAccessTime = Stamp]
                     ELSE openFiles[i]]

ReadHit(f) ==
    /\ Cached(f)
    /\ openFiles' = Touched(f)
    /\ read' = <<f, stream[file[f]]>>
    /\ lastUse' = [lastUse EXCEPT ![f] = now]
    /\ UNCHANGED <<isOpen, file, stream, blkFiles, now, crashed, steady>>

----------------------------------------------------------------------------
(* CloseLRUFile: the scan starts from slot 0 and moves to an occupied slot *)
(* whose stamp is strictly smaller, so it ends at the first of the smallest *)
(* stamps.  The FileInfo keeps its (now dangling) file pointer.            *)

Scanned == {0} \cup {i \in Slots : openFiles[i].fileInfo # NULL}

IsLRU(v) ==
    /\ v \in Scanned
    /\ \A i \in Scanned : openFiles[v].lastAccessTime <= openFiles[i].lastAccessTime
    /\ \A i \in Scanned : i < v => openFiles[v].lastAccessTime < openFiles[i].lastAccessTime

(* Mutants: a flag that stays set, a stream that is never closed.          *)
ClosedFlagsKept(v) == isOpen
ClosedStreamsLeaked(v) == stream

ClosedSlots(v) == [openFiles EXCEPT ![v].fileInfo = NULL]
ClosedFlags(v) == [isOpen EXCEPT ![openFiles[v].fileInfo] = FALSE]
ClosedStreams(v) == [stream EXCEPT ![file[openFiles[v].fileInfo]] = NULL]

----------------------------------------------------------------------------
(* OpenFile, the miss, from the fopen on, in the state CloseLRUFile left.  *)
(* A failed fopen returns NULL, which ReadBlockFromBlkDatFile stores and   *)
(* passes to fseek without a test: the process dies there.                 *)

Inserted(slots, f) ==
    [i \in Slots |-> IF FirstSlotWith(slots, NULL, i)
                     THEN [fileInfo |-> f, lastAccessTime |-> Stamp]
                     ELSE slots[i]]

FopenSucceeds(f, slots, flags, streams) ==
    /\ \E s \in Streams :
         /\ streams[s] = NULL
         /\ stream' = [streams EXCEPT ![s] = f]
         /\ file' = [file EXCEPT ![f] = s]
    /\ isOpen' = [flags EXCEPT ![f] = TRUE]
    /\ openFiles' = Inserted(slots, f)
    /\ read' = <<f, f>>
    /\ lastUse' = [lastUse EXCEPT ![f] = now]
    /\ UNCHANGED <<blkFiles, now, crashed, steady>>

FopenFails(f, slots, flags, streams) ==
    /\ file' = [file EXCEPT ![f] = NULL]
    /\ isOpen' = flags
    /\ openFiles' = slots
    /\ stream' = streams
    /\ crashed' = TRUE
    /\ UNCHANGED <<blkFiles, now, read, lastUse, steady>>

Fopen(f, slots, flags, streams) ==
    \/ FopenSucceeds(f, slots, flags, streams)
    \/ FopenFails(f, slots, flags, streams)

(* Mutant: the count of free slots is off by one, so that OpenFile closes  *)
(* a stream while one slot is still free.                                  *)
FreeSlotButOne == \E i, j \in Slots :
    i # j /\ openFiles[i].fileInfo = NULL /\ openFiles[j].fileInfo = NULL

FreeSlot == \E i \in Slots : openFiles[i].fileInfo = NULL

ReadMissFree(f) ==
    /\ ~Cached(f)
    /\ FreeSlot
    /\ Fopen(f, openFiles, isOpen, stream)

ReadMissFull(f) ==
    /\ ~Cached(f)
    /\ ~FreeSlot
    /\ \E v \in Slots :
         IsLRU(v) /\ Fopen(f, ClosedSlots(v), ClosedFlags(v), ClosedStreams(v))

(* ReadBlockFromBlkDatFile on path p of the array gEnv.blkFiles holds now. *)
ReadBlock(p) ==
    LET f == <<blkFiles, p>> IN
    /\ ~crashed
    /\ ReadHit(f) \/ ReadMissFree(f) \/ ReadMissFull(f)

(* InitMLBTCC again: gEnv is zeroed and ListFiles allocates a new array;   *)
(* openFiles is static to blkdat.c and is not touched.                     *)
InitMLBTCC ==
    /\ ~crashed
    /\ blkFiles < MaxInit
    /\ blkFiles' = blkFiles + 1
    /\ UNCHANGED <<isOpen, file, openFiles, stream, now, crashed, read, lastUse, steady>>

----------------------------------------------------------------------------
(* The wall clock: it advances, and an operator or NTP can set it back.    *)

Tick ==
    /\ ~crashed
    /\ now < MaxNow
    /\ now' = now + 1
    /\ steady' = (steady /\ now + 1 < TimeModulus)
    /\ UNCHANGED <<isOpen, file, openFiles, stream, blkFiles, crashed, read, lastUse>>

SetBack ==
    /\ ~crashed
    /\ \E t \in 0..MaxNow : t < now /\ now' = t
    /\ steady' = FALSE
    /\ UNCHANGED <<isOpen, file, openFiles, stream, blkFiles, crashed, read, lastUse>>

Next ==
    \/ \E p \in Paths : ReadBlock(p)
    \/ InitMLBTCC
    \/ Tick
    \/ SetBack

Spec == Init /\ [][Next]_vars

----------------------------------------------------------------------------
(* Properties.                                                             *)

TypeOK ==
    /\ isOpen \in [FileInfos -> BOOLEAN]
    /\ file \in [FileInfos -> Streams \cup {NULL}]
    /\ openFiles \in [Slots -> [fileInfo : FileInfos \cup {NULL},
                               lastAccessTime : 0..(TimeModulus - 1)]]
    /\ stream \in [Streams -> FileInfos \cup {NULL}]
    /\ blkFiles \in 1..MaxInit
    /\ now \in 0..MaxNow
    /\ crashed \in BOOLEAN
    /\ read \in (FileInfos \cup {NULL}) \X (FileInfos \cup {NULL})
    /\ lastUse \in [FileInfos -> 0..MaxNow]
    /\ steady \in BOOLEAN

(* The flag in the FileInfo and the slots of openFiles tell the same story *)
(* between calls, across evictions, failed opens and repeated InitMLBTCC:  *)
(* a FileInfo is flagged open exactly when one slot, and only one, holds   *)
(* it.                                                                     *)
FlagsMatchSlots ==
    /\ \A i \in Slots : openFiles[i].fileInfo # NULL => isOpen[openFiles[i].fileInfo]
    /\ \A f \in FileInfos : isOpen[f] => \E i \in Slots : openFiles[i].fileInfo = f
    /\ \A i, j \in Slots :
         openFiles[i].fileInfo = openFiles[j].fileInfo => i = j \/ openFiles[i].fileInfo = NULL

(* No stream leaks and none is closed twice: every live FILE* belongs to   *)
(* the FileInfo of a slot, and every slot's FileInfo points at a live      *)
(* stream of its own file, although CloseLRUFile leaves stale pointers and *)
(* the C library reuses addresses.                                         *)
StreamsOwned ==
    /\ \A i \in Slots : openFiles[i].fileInfo # NULL =>
         /\ file[openFiles[i].fileInfo] \in Streams
         /\ stream[file[openFiles[i].fileInfo]] = openFiles[i].fileInfo
    /\ \A s \in Streams : stream[s] # NULL =>
         /\ file[stream[s]] = s
         /\ \E i \in Slots : openFiles[i].fileInfo = stream[s]

(* ReadBlockFromBlkDatFile reads the file it was asked for, never another  *)
(* one through a FILE* that was closed and handed out again.               *)
ReadsItsOwnFile == read[1] = read[2]

(* The stream CloseLRUFile closes was last used no later, to the second,   *)
(* than any other open one, as long as the clock did not step back and the *)
(* seconds still fit in the U32 lastAccessTime.                            *)
EvictionOrder ==
    steady => \A f \in FileInfos : isOpen[f] /\ ~isOpen'[f] =>
                 \A g \in FileInfos : isOpen[g] => lastUse[f] <= lastUse[g]

EvictsOldest == [][EvictionOrder]_vars

(* What OpenFile promises its caller: a bounded set of open files that     *)
(* loses a member only to make room for another one.                       *)
Promise == INSTANCE OpenFileSet WITH
    Files <- FileInfos,
    Capacity <- MaxOpenFiles,
    open <- {f \in FileInfos : isOpen[f]},
    failed <- crashed

KeepsPromise == Promise!Spec
=============================================================================
