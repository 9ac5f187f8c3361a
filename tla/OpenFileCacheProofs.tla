------------------------- MODULE OpenFileCacheProofs -------------------------
(***************************************************************************)
(* Proofs about OpenFileCache for every number of slots, files, stream     *)
(* addresses and every clock bound.                                        *)
(***************************************************************************)
EXTENDS OpenFileCache, WellFoundedInduction, FiniteSetTheorems, TLAPS

(* Every non-empty set of naturals has a least element.                    *)
LEMMA LeastNat ==
  ASSUME NEW T, T \subseteq Nat, T # {}
  PROVE  \E x \in T : \A y \in T : x <= y
<1> DEFINE R == OpToRel(<, Nat)
<1>1. IsWellFoundedOn(R, Nat)
  BY NatLessThanWellFounded
<1>2. \A x, y \in Nat : <<y, x>> \in R <=> y < x
  BY DEF OpToRel
<1> HIDE DEF R
<1>3. PICK x \in T : \A y \in T : ~ (<<y, x>> \in R)
  BY <1>1, WFMin, Zenon
<1>4. ASSUME NEW y \in T PROVE x <= y
  <2>1. x \in Nat /\ y \in Nat
    OBVIOUS
  <2>2. ~ (y < x)
    BY <1>2, <1>3, <2>1, Zenon
  <2> QED BY <2>1, <2>2
<1> QED BY <1>4

----------------------------------------------------------------------------

(* A file is opened or closed through these facts about the slots alone.   *)
SlotsInv ==
    /\ FlagsMatchSlots
    /\ StreamsOwned
    /\ ReadsItsOwnFile

(* What EvictionOrder rests on: while the clock is steady, the stamp of a  *)
(* slot is the second of the last read of its file.                        *)
StampsAreUses ==
    steady =>
      /\ now < TimeModulus
      /\ \A i \in Slots : openFiles[i].fileInfo # NULL =>
           openFiles[i].lastAccessTime = lastUse[openFiles[i].fileInfo]

IInv == TypeOK /\ SlotsInv /\ StampsAreUses

----------------------------------------------------------------------------
LEMMA NullNotFileInfo == NULL \notin FileInfos /\ NULL \notin Streams
BY NullAssumption DEF FileInfos

LEMMA StampRange == ASSUME now \in 0..MaxNow PROVE Stamp \in 0..(TimeModulus - 1)
BY TimeModulusAssumption, MaxNowAssumption DEF Stamp

(* The initial state satisfies the inductive invariant. *)
LEMMA InitIInv == Init => IInv
<1> SUFFICES ASSUME Init PROVE IInv
  OBVIOUS
<1>1. TypeOK
  <2>1. isOpen \in [FileInfos -> BOOLEAN]
    BY DEF Init
  <2>2. openFiles \in [Slots -> [fileInfo : FileInfos \cup {NULL},
                                lastAccessTime : 0..(TimeModulus - 1)]]
    BY TimeModulusAssumption DEF Init
  <2>3. lastUse \in [FileInfos -> 0..MaxNow]
    BY MaxNowAssumption DEF Init
  <2>4. blkFiles \in 1..MaxInit /\ now \in 0..MaxNow
    BY MaxInitAssumption, MaxNowAssumption DEF Init
  <2>5. file \in [FileInfos -> Streams \cup {NULL}] /\ stream \in [Streams -> FileInfos \cup {NULL}]
    BY DEF Init
  <2>6. read \in (FileInfos \cup {NULL}) \X (FileInfos \cup {NULL})
    BY DEF Init
  <2>7. crashed \in BOOLEAN /\ steady \in BOOLEAN
    BY Zenon DEF Init
  <2> QED BY <2>1, <2>2, <2>3, <2>4, <2>5, <2>6, <2>7, Zenon DEF TypeOK
<1>2. SlotsInv
  BY NullNotFileInfo DEF Init, SlotsInv, FlagsMatchSlots, StreamsOwned, ReadsItsOwnFile
<1>3. StampsAreUses
  BY TimeModulusAssumption DEF Init, StampsAreUses
<1> QED BY <1>1, <1>2, <1>3 DEF IInv

----------------------------------------------------------------------------
(* A hit changes nothing but one stamp. *)
LEMMA HitIInv ==
  ASSUME IInv, NEW f \in FileInfos, ReadHit(f)
  PROVE  IInv'
<1> USE DEF IInv
<1>1. TypeOK'
  <2>1. openFiles' \in [Slots -> [fileInfo : FileInfos \cup {NULL},
                                  lastAccessTime : 0..(TimeModulus - 1)]]
    BY StampRange DEF ReadHit, Touched, TypeOK
  <2>2. stream[file[f]] \in FileInfos \cup {NULL}
    BY NullNotFileInfo DEF ReadHit, Cached, SlotsInv, StreamsOwned, TypeOK
  <2> QED BY <2>1, <2>2 DEF ReadHit, TypeOK
<1>2. \A i \in Slots : openFiles'[i].fileInfo = openFiles[i].fileInfo
  BY DEF ReadHit, Touched, TypeOK
<1>3. SlotsInv'
  <2>1. FlagsMatchSlots'
    BY <1>2 DEF ReadHit, SlotsInv, FlagsMatchSlots
  <2>2. StreamsOwned'
    BY <1>2 DEF ReadHit, SlotsInv, StreamsOwned
  <2>3. ReadsItsOwnFile'
    BY NullNotFileInfo DEF ReadHit, Cached, SlotsInv, StreamsOwned, ReadsItsOwnFile, TypeOK
  <2> QED BY <2>1, <2>2, <2>3 DEF SlotsInv
<1>4. StampsAreUses'
  <2> SUFFICES ASSUME steady PROVE StampsAreUses'
    BY DEF ReadHit, StampsAreUses
  <2>1. now \in Nat /\ now < TimeModulus /\ Stamp = now
    BY TimeModulusAssumption, MaxNowAssumption DEF StampsAreUses, TypeOK, Stamp
  <2>2. ASSUME NEW i \in Slots, openFiles[i].fileInfo # NULL
        PROVE  openFiles'[i].lastAccessTime = lastUse'[openFiles[i].fileInfo]
    <3>1. CASE openFiles[i].fileInfo = f
      <4>1. \A j \in 0..(i - 1) : openFiles[j].fileInfo # f
        BY <3>1, NullNotFileInfo, MaxOpenFilesAssumption DEF SlotsInv, FlagsMatchSlots, Slots
      <4> QED BY <2>1, <3>1, <4>1 DEF ReadHit, Touched, FirstSlotWith, TypeOK
    <3>2. CASE openFiles[i].fileInfo # f
      BY <2>2, <3>2 DEF ReadHit, Touched, FirstSlotWith, StampsAreUses, TypeOK
    <3> QED BY <3>1, <3>2
  <2> QED BY <1>2, <2>1, <2>2 DEF ReadHit, StampsAreUses
<1> QED BY <1>1, <1>3, <1>4

----------------------------------------------------------------------------
(* The state between CloseLRUFile and fopen: the slots, the flags and the  *)
(* streams agree and some slot is free.                                    *)
Ready(slots, flags, streams) ==
    /\ slots \in [Slots -> [fileInfo : FileInfos \cup {NULL},
                            lastAccessTime : 0..(TimeModulus - 1)]]
    /\ flags \in [FileInfos -> BOOLEAN]
    /\ streams \in [Streams -> FileInfos \cup {NULL}]
    /\ \E i \in Slots : slots[i].fileInfo = NULL
    /\ \A i \in Slots : slots[i].fileInfo # NULL => flags[slots[i].fileInfo]
    /\ \A f \in FileInfos : flags[f] => \E i \in Slots : slots[i].fileInfo = f
    /\ \A i, j \in Slots :
         slots[i].fileInfo = slots[j].fileInfo => i = j \/ slots[i].fileInfo = NULL
    /\ \A i \in Slots : slots[i].fileInfo # NULL =>
         /\ file[slots[i].fileInfo] \in Streams
         /\ streams[file[slots[i].fileInfo]] = slots[i].fileInfo
    /\ \A s \in Streams : streams[s] # NULL =>
         /\ file[streams[s]] = s
         /\ \E i \in Slots : slots[i].fileInfo = streams[s]
    /\ steady => \A i \in Slots : slots[i].fileInfo # NULL =>
         slots[i].lastAccessTime = lastUse[slots[i].fileInfo]

(* A free slot implies a first free slot. *)
LEMMA FirstFreeSlot ==
  ASSUME NEW slots, \E i \in Slots : slots[i].fileInfo = NULL
  PROVE  \E i \in Slots : /\ FirstSlotWith(slots, NULL, i)
                          /\ \A j \in Slots : FirstSlotWith(slots, NULL, j) => j = i
<1> DEFINE T == {i \in Slots : slots[i].fileInfo = NULL}
<1>1. T \subseteq Nat /\ T # {}
  BY MaxOpenFilesAssumption DEF Slots
<1>2. PICK i \in T : \A j \in T : i <= j
  BY <1>1, LeastNat, Zenon
<1>3. FirstSlotWith(slots, NULL, i)
  BY <1>2, MaxOpenFilesAssumption DEF FirstSlotWith, Slots
<1>4. ASSUME NEW j \in Slots, FirstSlotWith(slots, NULL, j) PROVE j = i
  BY <1>2, <1>4, MaxOpenFilesAssumption DEF FirstSlotWith, Slots
<1> QED BY <1>3, <1>4

(* An open file is in the cache: OpenFile's second test never fails. *)
LEMMA CachedIsOpen ==
  ASSUME SlotsInv, NEW f \in FileInfos
  PROVE  Cached(f) <=> isOpen[f]
BY DEF SlotsInv, FlagsMatchSlots, Cached

(* A free slot: nothing has to be closed. *)
LEMMA FreeIsReady ==
  ASSUME IInv, FreeSlot
  PROVE  Ready(openFiles, isOpen, stream)
BY DEF IInv, TypeOK, SlotsInv, FlagsMatchSlots, StreamsOwned, StampsAreUses, FreeSlot, Ready

(* CloseLRUFile leaves the slots, the flags and the streams in agreement. *)
LEMMA ClosedIsReady ==
  ASSUME IInv, ~FreeSlot, NEW v \in Slots
  PROVE  Ready(ClosedSlots(v), ClosedFlags(v), ClosedStreams(v))
<1> DEFINE g == openFiles[v].fileInfo
           slots == ClosedSlots(v)
           flags == ClosedFlags(v)
           streams == ClosedStreams(v)
<1> USE DEF IInv
<1>1. g \in FileInfos /\ g # NULL /\ file[g] \in Streams /\ stream[file[g]] = g
  BY NullNotFileInfo DEF TypeOK, FreeSlot, SlotsInv, StreamsOwned
<1>2. /\ slots[v].fileInfo = NULL
      /\ \A i \in Slots : i # v => slots[i] = openFiles[i] /\ openFiles[i].fileInfo # g
      /\ slots \in [Slots -> [fileInfo : FileInfos \cup {NULL},
                              lastAccessTime : 0..(TimeModulus - 1)]]
  BY <1>1 DEF TypeOK, ClosedSlots, SlotsInv, FlagsMatchSlots
<1>3. /\ flags \in [FileInfos -> BOOLEAN]
      /\ ~flags[g]
      /\ \A f \in FileInfos : f # g => flags[f] = isOpen[f]
  BY <1>1 DEF TypeOK, ClosedFlags
<1>4. /\ streams \in [Streams -> FileInfos \cup {NULL}]
      /\ streams[file[g]] = NULL
      /\ \A s \in Streams : s # file[g] => streams[s] = stream[s]
  BY <1>1 DEF TypeOK, ClosedStreams
<1> HIDE DEF slots, flags, streams
<1>5. \A i \in Slots : slots[i].fileInfo # NULL =>
        i # v /\ slots[i] = openFiles[i] /\ slots[i].fileInfo \in FileInfos \ {g}
  BY <1>2, NullNotFileInfo DEF TypeOK
<1>6. \A i \in Slots : slots[i].fileInfo # NULL => flags[slots[i].fileInfo]
  <2> SUFFICES ASSUME NEW i \in Slots, slots[i].fileInfo # NULL PROVE flags[slots[i].fileInfo]
    OBVIOUS
  <2>1. slots[i].fileInfo = openFiles[i].fileInfo /\ slots[i].fileInfo \in FileInfos \ {g}
    BY <1>5
  <2>2. isOpen[openFiles[i].fileInfo]
    BY <2>1 DEF SlotsInv, FlagsMatchSlots
  <2> QED BY <1>3, <2>1, <2>2
<1>7. \A f \in FileInfos : flags[f] => \E i \in Slots : slots[i].fileInfo = f
  BY <1>1, <1>2, <1>3 DEF SlotsInv, FlagsMatchSlots
<1>8. \A i, j \in Slots :
        slots[i].fileInfo = slots[j].fileInfo => i = j \/ slots[i].fileInfo = NULL
  BY <1>5 DEF SlotsInv, FlagsMatchSlots
<1>9. \A i \in Slots : slots[i].fileInfo # NULL =>
        /\ file[slots[i].fileInfo] \in Streams
        /\ streams[file[slots[i].fileInfo]] = slots[i].fileInfo
  BY <1>1, <1>4, <1>5 DEF SlotsInv, StreamsOwned
<1>10. \A s \in Streams : streams[s] # NULL =>
        /\ file[streams[s]] = s
        /\ \E i \in Slots : slots[i].fileInfo = streams[s]
  <2> SUFFICES ASSUME NEW s \in Streams, streams[s] # NULL
               PROVE  /\ file[streams[s]] = s
                      /\ \E i \in Slots : slots[i].fileInfo = streams[s]
    OBVIOUS
  <2>1. s # file[g] /\ streams[s] = stream[s] /\ file[stream[s]] = s
    BY <1>4 DEF SlotsInv, StreamsOwned
  <2>2. PICK i \in Slots : openFiles[i].fileInfo = stream[s]
    BY <2>1 DEF SlotsInv, StreamsOwned
  <2>3. i # v
    BY <2>1, <2>2
  <2> QED BY <1>2, <2>1, <2>2, <2>3
<1>11. steady => \A i \in Slots : slots[i].fileInfo # NULL =>
         slots[i].lastAccessTime = lastUse[slots[i].fileInfo]
  BY <1>5 DEF StampsAreUses
<1> QED
  BY <1>2, <1>3, <1>4, <1>6, <1>7, <1>8, <1>9, <1>10, <1>11, Zenon
     DEF Ready, slots, flags, streams

----------------------------------------------------------------------------
(* A successful fopen, from a state that is ready for it. *)
LEMMA SucceedsIInv ==
  ASSUME IInv, NEW f \in FileInfos, NEW slots, NEW flags, NEW streams,
         Ready(slots, flags, streams), ~flags[f],
         FopenSucceeds(f, slots, flags, streams)
  PROVE  IInv'
<1>1. PICK s \in Streams :
        /\ streams[s] = NULL
        /\ stream' = [streams EXCEPT ![s] = f]
        /\ file' = [file EXCEPT ![f] = s]
  BY DEF FopenSucceeds
<1>2. PICK k \in Slots : /\ FirstSlotWith(slots, NULL, k)
                         /\ \A j \in Slots : FirstSlotWith(slots, NULL, j) => j = k
  BY FirstFreeSlot DEF Ready
<1>3. /\ slots[k].fileInfo = NULL
      /\ openFiles'[k] = [fileInfo |-> f, lastAccessTime |-> Stamp]
      /\ \A i \in Slots : i # k => openFiles'[i] = slots[i]
      /\ openFiles' \in [Slots -> [fileInfo : FileInfos \cup {NULL},
                                   lastAccessTime : 0..(TimeModulus - 1)]]
  <2>1. slots[k].fileInfo = NULL
    BY <1>2 DEF FirstSlotWith
  <2>2. openFiles' = [i \in Slots |-> IF i = k THEN [fileInfo |-> f, lastAccessTime |-> Stamp]
                                              ELSE slots[i]]
    BY <1>2, Zenon DEF FopenSucceeds, Inserted
  <2> QED BY <2>1, <2>2, StampRange DEF Ready, IInv, TypeOK
<1>4. /\ isOpen' \in [FileInfos -> BOOLEAN]
      /\ isOpen'[f]
      /\ \A g \in FileInfos : g # f => isOpen'[g] = flags[g]
  BY DEF FopenSucceeds, Ready
<1>5. /\ file' \in [FileInfos -> Streams \cup {NULL}]
      /\ file'[f] = s
      /\ \A g \in FileInfos : g # f => file'[g] = file[g]
  BY <1>1 DEF IInv, TypeOK
<1>6. /\ stream' \in [Streams -> FileInfos \cup {NULL}]
      /\ stream'[s] = f
      /\ \A t \in Streams : t # s => stream'[t] = streams[t]
  BY <1>1 DEF Ready
<1>7. \A i \in Slots : slots[i].fileInfo # NULL =>
        /\ i # k
        /\ slots[i].fileInfo \in FileInfos \ {f}
        /\ openFiles'[i] = slots[i]
        /\ file'[slots[i].fileInfo] = file[slots[i].fileInfo]
  BY <1>3, <1>5 DEF Ready
<1>8. \A i \in Slots : i = k \/ openFiles'[i] = slots[i]
  BY <1>3
<1>9. TypeOK'
  <2>1. lastUse' \in [FileInfos -> 0..MaxNow] /\ read' \in (FileInfos \cup {NULL}) \X (FileInfos \cup {NULL})
    BY DEF FopenSucceeds, IInv, TypeOK
  <2>2. UNCHANGED <<blkFiles, now, crashed, steady>>
    BY DEF FopenSucceeds
  <2> QED BY <1>3, <1>4, <1>5, <1>6, <2>1, <2>2, Zenon DEF IInv, TypeOK
<1>10. FlagsMatchSlots'
  <2>1. \A i \in Slots : openFiles'[i].fileInfo # NULL => isOpen'[openFiles'[i].fileInfo]
    <3> SUFFICES ASSUME NEW i \in Slots, openFiles'[i].fileInfo # NULL
                 PROVE  isOpen'[openFiles'[i].fileInfo]
      OBVIOUS
    <3>1. CASE i = k
      BY <1>3, <1>4, <3>1
    <3>2. CASE i # k
      <4>1. openFiles'[i] = slots[i] /\ slots[i].fileInfo \in FileInfos \ {f} /\ flags[slots[i].fileInfo]
        BY <1>3, <1>7, <3>2 DEF Ready
      <4> QED BY <1>4, <4>1
    <3> QED BY <3>1, <3>2
  <2>2. \A g \in FileInfos : isOpen'[g] => \E i \in Slots : openFiles'[i].fileInfo = g
    <3> SUFFICES ASSUME NEW g \in FileInfos, isOpen'[g]
                 PROVE  \E i \in Slots : openFiles'[i].fileInfo = g
      OBVIOUS
    <3>1. CASE g = f
      BY <1>3, <3>1
    <3>2. CASE g # f
      <4>1. PICK i \in Slots : slots[i].fileInfo = g
        BY <1>4, <3>2 DEF Ready
      <4> QED BY <1>7, <4>1, NullNotFileInfo
    <3> QED BY <3>1, <3>2
  <2>3. \A i, j \in Slots : openFiles'[i].fileInfo = openFiles'[j].fileInfo =>
          i = j \/ openFiles'[i].fileInfo = NULL
    BY <1>3, <1>7 DEF Ready
  <2> QED BY <2>1, <2>2, <2>3 DEF FlagsMatchSlots
<1>11. StreamsOwned'
  <2>1. \A i \in Slots : openFiles'[i].fileInfo # NULL =>
          /\ file'[openFiles'[i].fileInfo] \in Streams
          /\ stream'[file'[openFiles'[i].fileInfo]] = openFiles'[i].fileInfo
    <3> SUFFICES ASSUME NEW i \in Slots, openFiles'[i].fileInfo # NULL
                 PROVE  /\ file'[openFiles'[i].fileInfo] \in Streams
                        /\ stream'[file'[openFiles'[i].fileInfo]] = openFiles'[i].fileInfo
      OBVIOUS
    <3>1. CASE i = k
      BY <1>3, <1>5, <1>6, <3>1
    <3>2. CASE i # k
      <4>1. /\ openFiles'[i] = slots[i]
            /\ file'[slots[i].fileInfo] = file[slots[i].fileInfo]
            /\ file[slots[i].fileInfo] \in Streams
            /\ streams[file[slots[i].fileInfo]] = slots[i].fileInfo
        BY <1>3, <1>7, <3>2 DEF Ready
      <4>2. file[slots[i].fileInfo] # s
        BY <1>1, <1>3, <3>2, <4>1
      <4> QED BY <1>6, <4>1, <4>2
    <3> QED BY <3>1, <3>2
  <2>2. \A t \in Streams : stream'[t] # NULL =>
          /\ file'[stream'[t]] = t
          /\ \E i \in Slots : openFiles'[i].fileInfo = stream'[t]
    <3> SUFFICES ASSUME NEW t \in Streams, stream'[t] # NULL
                 PROVE  /\ file'[stream'[t]] = t
                        /\ \E i \in Slots : openFiles'[i].fileInfo = stream'[t]
      OBVIOUS
    <3>1. CASE t = s
      BY <1>3, <1>5, <1>6, <3>1
    <3>2. CASE t # s
      <4>1. stream'[t] = streams[t] /\ file[streams[t]] = t
        BY <1>6, <3>2 DEF Ready
      <4>2. PICK i \in Slots : slots[i].fileInfo = streams[t]
        BY <4>1 DEF Ready
      <4> QED BY <1>7, <4>1, <4>2
    <3> QED BY <3>1, <3>2
  <2> QED BY <2>1, <2>2 DEF StreamsOwned
<1>12. ReadsItsOwnFile'
  BY DEF FopenSucceeds, ReadsItsOwnFile
<1>13. StampsAreUses'
  <2> SUFFICES ASSUME steady PROVE StampsAreUses'
    BY DEF FopenSucceeds, StampsAreUses
  <2>1. now \in Nat /\ now < TimeModulus /\ Stamp = now
    BY TimeModulusAssumption, MaxNowAssumption DEF IInv, StampsAreUses, TypeOK, Stamp
  <2>2. lastUse'[f] = now /\ \A g \in FileInfos : g # f => lastUse'[g] = lastUse[g]
    BY DEF FopenSucceeds, IInv, TypeOK
  <2>3. \A i \in Slots : openFiles'[i].fileInfo # NULL =>
          openFiles'[i].lastAccessTime = lastUse'[openFiles'[i].fileInfo]
    BY <1>3, <1>7, <2>1, <2>2 DEF Ready
  <2> QED BY <2>1, <2>3 DEF FopenSucceeds, StampsAreUses
<1> QED BY <1>9, <1>10, <1>11, <1>12, <1>13 DEF IInv, SlotsInv

(* A failed fopen: the file pointer of f was stale or NULL before. *)
LEMMA FailsIInv ==
  ASSUME IInv, NEW f \in FileInfos, NEW slots, NEW flags, NEW streams,
         Ready(slots, flags, streams), ~flags[f],
         FopenFails(f, slots, flags, streams)
  PROVE  IInv'
<1>1. \A i \in Slots : slots[i].fileInfo # NULL => slots[i].fileInfo \in FileInfos \ {f}
  BY DEF Ready
<1>2. /\ file' \in [FileInfos -> Streams \cup {NULL}]
      /\ \A g \in FileInfos : g # f => file'[g] = file[g]
  BY DEF FopenFails, IInv, TypeOK
<1>3. isOpen' = flags /\ openFiles' = slots /\ stream' = streams /\ crashed' \in BOOLEAN
  BY DEF FopenFails
<1>4. UNCHANGED <<blkFiles, now, read, lastUse, steady>>
  BY DEF FopenFails
<1>5. TypeOK'
  BY <1>2, <1>3, <1>4, Zenon DEF IInv, TypeOK, Ready
<1>6. FlagsMatchSlots'
  BY <1>3, Zenon DEF FlagsMatchSlots, Ready
<1>7. StreamsOwned'
  BY <1>1, <1>2, <1>3 DEF StreamsOwned, Ready
<1>8. ReadsItsOwnFile' /\ StampsAreUses'
  BY <1>1, <1>3, <1>4 DEF IInv, SlotsInv, ReadsItsOwnFile, StampsAreUses, Ready
<1> QED BY <1>5, <1>6, <1>7, <1>8 DEF IInv, SlotsInv

----------------------------------------------------------------------------
(* One call of ReadBlockFromBlkDatFile preserves the invariant. *)
LEMMA ReadBlockIInv ==
  ASSUME IInv, NEW p \in Paths, ReadBlock(p)
  PROVE  IInv'
<1> DEFINE f == <<blkFiles, p>>
<1>1. f \in FileInfos
  BY DEF IInv, TypeOK, FileInfos
<1>2. ReadHit(f) \/ ReadMissFree(f) \/ ReadMissFull(f)
  BY DEF ReadBlock
<1> HIDE DEF f
<1>3. CASE ReadHit(f)
  BY <1>1, <1>3, HitIInv
<1>4. CASE ReadMissFree(f)
  <2>1. Ready(openFiles, isOpen, stream) /\ ~isOpen[f] /\ Fopen(f, openFiles, isOpen, stream)
    BY <1>1, <1>4, FreeIsReady, CachedIsOpen DEF ReadMissFree, IInv
  <2> QED BY <1>1, <2>1, SucceedsIInv, FailsIInv, Zenon DEF Fopen
<1>5. CASE ReadMissFull(f)
  <2>1. PICK v \in Slots : Fopen(f, ClosedSlots(v), ClosedFlags(v), ClosedStreams(v))
    BY <1>5, Zenon DEF ReadMissFull
  <2>2. Ready(ClosedSlots(v), ClosedFlags(v), ClosedStreams(v))
    BY <1>5, ClosedIsReady, Zenon DEF ReadMissFull
  <2>3. ~isOpen[f]
    BY <1>1, <1>5, CachedIsOpen DEF ReadMissFull, IInv
  <2>4. ~ClosedFlags(v)[f]
    BY <1>1, <2>3 DEF ClosedFlags, IInv, TypeOK
  <2> QED BY <1>1, <2>1, <2>2, <2>4, SucceedsIInv, FailsIInv, Zenon DEF Fopen
<1> QED BY <1>2, <1>3, <1>4, <1>5

(* Every step preserves the invariant. *)
LEMMA NextIInv == IInv /\ [Next]_vars => IInv'
<1> SUFFICES ASSUME IInv, [Next]_vars PROVE IInv'
  OBVIOUS
<1> USE DEF IInv, SlotsInv
<1>1. CASE \E p \in Paths : ReadBlock(p)
  BY <1>1, ReadBlockIInv
<1>2. CASE InitMLBTCC
  <2>1. UNCHANGED <<isOpen, file, openFiles, stream, now, crashed, read, lastUse, steady>>
    BY <1>2 DEF InitMLBTCC
  <2>2. blkFiles' \in 1..MaxInit
    BY <1>2, MaxInitAssumption DEF InitMLBTCC, TypeOK
  <2>3. TypeOK'
    BY <2>1, <2>2, Zenon DEF TypeOK
  <2> QED BY <2>1, <2>3, Zenon DEF FlagsMatchSlots, StreamsOwned, ReadsItsOwnFile, StampsAreUses
<1>3. CASE Tick \/ SetBack
  <2>1. UNCHANGED <<isOpen, file, openFiles, stream, blkFiles, crashed, read, lastUse>>
    BY <1>3 DEF Tick, SetBack
  <2>2. now' \in 0..MaxNow
    BY <1>3, MaxNowAssumption DEF Tick, SetBack, TypeOK
  <2>3. steady' \in BOOLEAN /\ (steady' => steady /\ now' < TimeModulus)
    BY <1>3 DEF Tick, SetBack
  <2>4. TypeOK'
    BY <2>1, <2>2, <2>3, Zenon DEF TypeOK
  <2>5. StampsAreUses'
    BY <2>1, <2>3, Zenon DEF StampsAreUses
  <2> QED BY <2>1, <2>4, <2>5, Zenon DEF FlagsMatchSlots, StreamsOwned, ReadsItsOwnFile
<1>4. CASE UNCHANGED vars
  BY <1>4, Zenon DEF vars, TypeOK, FlagsMatchSlots, StreamsOwned, ReadsItsOwnFile, StampsAreUses
<1> QED BY <1>1, <1>2, <1>3, <1>4 DEF Next

----------------------------------------------------------------------------
(* Type correctness: every variable of OpenFileCache keeps its C type, the *)
(* U32 lastAccessTime included, in every reachable state.                  *)
THEOREM TypeCorrect == Spec => []TypeOK
<1>1. IInv => TypeOK
  BY DEF IInv
<1> QED BY InitIInv, NextIInv, <1>1, PTL DEF Spec

(* OpenFile keeps FileInfo.isOpen and openFiles in agreement, for every    *)
(* MAX_OPEN_FILES, however calls, evictions and failures follow each other.*)
THEOREM CacheConsistent == Spec => []FlagsMatchSlots
<1>1. IInv => FlagsMatchSlots
  BY DEF IInv, SlotsInv
<1> QED BY InitIInv, NextIInv, <1>1, PTL DEF Spec

(* No FILE* leaks, none is closed twice or used after fclose.              *)
THEOREM NoStreamLeaks == Spec => []StreamsOwned
<1>1. IInv => StreamsOwned
  BY DEF IInv, SlotsInv
<1> QED BY InitIInv, NextIInv, <1>1, PTL DEF Spec

(* ReadBlockFromBlkDatFile reads from the file it was asked for.           *)
THEOREM RightFileRead == Spec => []ReadsItsOwnFile
<1>1. IInv => ReadsItsOwnFile
  BY DEF IInv, SlotsInv
<1> QED BY InitIInv, NextIInv, <1>1, PTL DEF Spec

----------------------------------------------------------------------------
(* A step that clears a flag is one that closed an oldest stream. *)
LEMMA StepEvictionOrder == IInv /\ [Next]_vars => EvictionOrder
<1> SUFFICES ASSUME IInv, [Next]_vars, steady,
                    NEW f \in FileInfos, isOpen[f], ~isOpen'[f],
                    NEW g \in FileInfos, isOpen[g]
             PROVE  lastUse[f] <= lastUse[g]
  BY DEF EvictionOrder
<1>1. PICK p \in Paths : ReadBlock(p)
  BY DEF Next, InitMLBTCC, Tick, SetBack, vars
<1> DEFINE h == <<blkFiles, p>>
<1>2. h \in FileInfos
  BY DEF IInv, TypeOK, FileInfos
<1> HIDE DEF h
<1>3. ReadMissFull(h)
  <2>1. ~ReadHit(h)
    BY DEF ReadHit
  <2>2. ~ReadMissFree(h)
    BY <1>2 DEF ReadMissFree, Fopen, FopenSucceeds, FopenFails, IInv, TypeOK
  <2> QED BY <1>1, <2>1, <2>2 DEF ReadBlock, h
<1>4. PICK v \in Slots : IsLRU(v) /\ Fopen(h, ClosedSlots(v), ClosedFlags(v), ClosedStreams(v))
  BY <1>3 DEF ReadMissFull
<1>5. openFiles[v].fileInfo = f
  <2>1. isOpen' = ClosedFlags(v) \/ isOpen' = [ClosedFlags(v) EXCEPT ![h] = TRUE]
    BY <1>4 DEF Fopen, FopenSucceeds, FopenFails
  <2>2. ~ClosedFlags(v)[f]
    BY <1>2, <2>1 DEF ClosedFlags, IInv, TypeOK
  <2> QED BY <2>2 DEF ClosedFlags, IInv, TypeOK
<1>6. PICK i \in Slots : openFiles[i].fileInfo = g
  BY DEF IInv, SlotsInv, FlagsMatchSlots
<1>7. openFiles[v].lastAccessTime <= openFiles[i].lastAccessTime
  BY <1>4, <1>6, NullNotFileInfo DEF IsLRU, Scanned
<1> QED BY <1>5, <1>6, <1>7, NullNotFileInfo DEF IInv, StampsAreUses

(* CloseLRUFile closes a stream that no other open one is older than, to   *)
(* the second, while the clock is steady and within the U32 range.         *)
THEOREM EvictionIsLRU == Spec => EvictsOldest
BY InitIInv, NextIInv, StepEvictionOrder, PTL DEF Spec, EvictsOldest

----------------------------------------------------------------------------
(* The set of OpenFileSet that the flags stand for. *)
OpenSet == {f \in FileInfos : isOpen[f]}

(* The open files are as many as the occupied slots: fewer than            *)
(* MAX_OPEN_FILES while a slot is free, that many otherwise.               *)
LEMMA OpenCount ==
  ASSUME IInv
  PROVE  /\ FreeSlot => Cardinality(OpenSet) < MaxOpenFiles
         /\ ~FreeSlot => Cardinality(OpenSet) = MaxOpenFiles
<1> DEFINE at == [f \in OpenSet |-> CHOOSE i \in Slots : openFiles[i].fileInfo = f]
<1>1. \A f \in OpenSet : at[f] \in Slots /\ openFiles[at[f]].fileInfo = f
  BY DEF OpenSet, IInv, SlotsInv, FlagsMatchSlots
<1>2. at \in Injection(OpenSet, Slots)
  BY <1>1 DEF Injection, IsInjective
<1> HIDE DEF at
<1>3. IsFiniteSet(Slots) /\ Cardinality(Slots) = MaxOpenFiles
  BY FS_Interval, MaxOpenFilesAssumption DEF Slots
<1>4. IsFiniteSet(OpenSet) /\ Cardinality(OpenSet) <= MaxOpenFiles /\ Cardinality(OpenSet) \in Nat
  BY <1>2, <1>3, FS_Injection, FS_CardinalityType
<1>5. ASSUME FreeSlot PROVE Cardinality(OpenSet) < MaxOpenFiles
  <2>1. PICK k \in Slots : openFiles[k].fileInfo = NULL
    BY <1>5 DEF FreeSlot
  <2>2. at \in Injection(OpenSet, Slots \ {k})
    <3>1. \A f \in OpenSet : at[f] # k
      BY <1>1, <2>1, NullNotFileInfo DEF OpenSet
    <3> QED BY <1>2, <3>1 DEF Injection, IsInjective
  <2>3. IsFiniteSet(Slots \ {k}) /\ Cardinality(Slots \ {k}) = MaxOpenFiles - 1
    BY <1>3, <2>1, FS_RemoveElement
  <2> QED BY <1>4, <2>2, <2>3, FS_Injection, MaxOpenFilesAssumption
<1>6. ASSUME ~FreeSlot PROVE Cardinality(OpenSet) = MaxOpenFiles
  <2> DEFINE in == [i \in Slots |-> openFiles[i].fileInfo]
  <2>1. \A i \in Slots : openFiles[i].fileInfo # NULL /\ openFiles[i].fileInfo \in OpenSet
    BY <1>6 DEF FreeSlot, OpenSet, IInv, TypeOK, SlotsInv, FlagsMatchSlots
  <2>2. in \in Injection(Slots, OpenSet)
    BY <2>1 DEF Injection, IsInjective, IInv, SlotsInv, FlagsMatchSlots
  <2> HIDE DEF in
  <2>3. MaxOpenFiles <= Cardinality(OpenSet)
    BY <1>3, <1>4, <2>2, FS_Injection
  <2> QED BY <1>4, <2>3, MaxOpenFilesAssumption
<1> QED BY <1>5, <1>6

(* The two modules count alike. *)
LEMMA SameCount == \A S : Promise!Cardinality(S) = Cardinality(S)
BY Zenon DEF Promise!Cardinality, Cardinality

(* A hit leaves the set alone and reads the file that was asked for. *)
LEMMA HitRefines ==
  ASSUME IInv, ~crashed, NEW f \in FileInfos, ReadHit(f)
  PROVE  Promise!Next
<1>1. isOpen[f] /\ UNCHANGED <<isOpen, crashed>> /\ read' = <<f, stream[file[f]]>>
  BY DEF ReadHit, Cached
<1>2. stream[file[f]] = f
  BY NullNotFileInfo DEF ReadHit, Cached, IInv, SlotsInv, StreamsOwned
<1>3. Promise!Serve(f)
  BY <1>1, <1>2 DEF Promise!Serve, Promise!Hit
<1> QED BY <1>3 DEF Promise!Next

(* What fopen makes of the flags that CloseLRUFile left, as a set. *)
LEMMA FopenRefines ==
  ASSUME IInv, ~crashed, NEW f \in FileInfos, ~isOpen[f],
         NEW slots, NEW flags, NEW streams, flags \in [FileInfos -> BOOLEAN],
         NEW rest \in SUBSET OpenSet, rest = {g \in FileInfos : flags[g]},
         Promise!Room(rest), Fopen(f, slots, flags, streams)
  PROVE  Promise!Next
<1>1. f \notin OpenSet
  BY DEF OpenSet
<1>2. CASE FopenSucceeds(f, slots, flags, streams)
  <2>1. /\ isOpen' = [flags EXCEPT ![f] = TRUE]
        /\ read' = <<f, f>> /\ crashed' = crashed
    BY <1>2 DEF FopenSucceeds
  <2>2. OpenSet' = rest \cup {f}
    BY <2>1 DEF OpenSet
  <2>3. Promise!Serve(f)
    BY <1>1, <2>1, <2>2 DEF Promise!Serve, Promise!Miss, OpenSet
  <2> QED BY <2>3 DEF Promise!Next
<1>3. CASE FopenFails(f, slots, flags, streams)
  <2>1. isOpen' = flags /\ crashed' = TRUE /\ read' = read
    BY <1>3 DEF FopenFails
  <2>2. OpenSet' = rest
    BY <2>1 DEF OpenSet
  <2>3. Promise!Fail(f)
    BY <1>1, <2>1, <2>2 DEF Promise!Fail, OpenSet
  <2> QED BY <2>3 DEF Promise!Next
<1> QED BY <1>2, <1>3 DEF Fopen

(* A call of ReadBlockFromBlkDatFile is one step of OpenFileSet. *)
LEMMA ReadBlockRefines ==
  ASSUME IInv, NEW p \in Paths, ReadBlock(p)
  PROVE  Promise!Next
<1> DEFINE f == <<blkFiles, p>>
<1>1. f \in FileInfos
  BY DEF IInv, TypeOK, FileInfos
<1>2. ~crashed /\ (ReadHit(f) \/ ReadMissFree(f) \/ ReadMissFull(f))
  BY DEF ReadBlock
<1> HIDE DEF f
<1>3. CASE ReadHit(f)
  BY <1>1, <1>2, <1>3, HitRefines
<1>4. CASE ReadMissFree(f)
  <2>1. ~isOpen[f] /\ FreeSlot /\ Fopen(f, openFiles, isOpen, stream)
    BY <1>1, <1>4, CachedIsOpen DEF ReadMissFree, IInv
  <2>2. Promise!Room(OpenSet)
    BY <2>1, OpenCount, SameCount DEF Promise!Room, OpenSet
  <2>3. isOpen \in [FileInfos -> BOOLEAN] /\ OpenSet = {g \in FileInfos : isOpen[g]}
    BY DEF IInv, TypeOK, OpenSet
  <2> QED BY <1>1, <1>2, <2>1, <2>2, <2>3, FopenRefines
<1>5. CASE ReadMissFull(f)
  <2>1. ~isOpen[f] /\ ~FreeSlot
    BY <1>1, <1>5, CachedIsOpen DEF ReadMissFull, IInv
  <2>2. PICK v \in Slots : Fopen(f, ClosedSlots(v), ClosedFlags(v), ClosedStreams(v))
    BY <1>5, Zenon DEF ReadMissFull
  <2> DEFINE g == openFiles[v].fileInfo
             flags == ClosedFlags(v)
  <2>3. g \in FileInfos /\ isOpen[g]
    BY <2>1, <2>2 DEF FreeSlot, IInv, TypeOK, SlotsInv, FlagsMatchSlots
  <2>4. flags \in [FileInfos -> BOOLEAN] /\ OpenSet \ {g} = {e \in FileInfos : flags[e]}
    BY <2>3 DEF ClosedFlags, OpenSet, IInv, TypeOK
  <2>5. Promise!Room(OpenSet \ {g})
    BY <2>1, <2>3, OpenCount, SameCount DEF Promise!Room, OpenSet
  <2> HIDE DEF flags, g
  <2>6. Fopen(f, ClosedSlots(v), flags, ClosedStreams(v))
    BY <2>2 DEF flags
  <2> QED BY <1>1, <1>2, <2>1, <2>4, <2>5, <2>6, FopenRefines
<1> QED BY <1>2, <1>3, <1>4, <1>5

(* The cache implements OpenFileSet: at most MAX_OPEN_FILES files are      *)
(* open, one is closed only to make room for another when that many are,   *)
(* and the bytes come from the file that was asked for.                    *)
THEOREM CacheKeepsPromise == Spec => KeepsPromise
<1>1. Init => Promise!Init
  BY DEF Init, Promise!Init
<1>2. IInv /\ [Next]_vars => [Promise!Next]_(Promise!absVars)
  <2> SUFFICES ASSUME IInv, [Next]_vars PROVE [Promise!Next]_(Promise!absVars)
    OBVIOUS
  <2>1. CASE \E p \in Paths : ReadBlock(p)
    BY <2>1, ReadBlockRefines
  <2>2. CASE InitMLBTCC \/ Tick \/ SetBack \/ UNCHANGED vars
    <3>1. UNCHANGED <<isOpen, read, crashed>>
      BY <2>2 DEF InitMLBTCC, Tick, SetBack, vars
    <3> QED BY <3>1 DEF Promise!absVars
  <2> QED BY <2>1, <2>2 DEF Next
<1> QED BY InitIInv, NextIInv, <1>1, <1>2, PTL DEF Spec, KeepsPromise, Promise!Spec
=============================================================================
