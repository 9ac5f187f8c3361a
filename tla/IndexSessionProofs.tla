------------------------- MODULE IndexSessionProofs -------------------------
(***************************************************************************)
(* What IndexCoreDatadir keeps among any number of sessions and beside a   *)
(* bitcoind that starts, appends and stops when it likes.                  *)
(***************************************************************************)
EXTENDS IndexSession, TLAPS

Places == {"idle", "listed", "open", "reading", "copy", "copying", "orphan", "opentmp",
           "readtmp", "delete", "done", "exit"}

Databases == Nat \cup {NONE, TORN}

Types ==
    /\ tip \in Nat
    /\ lock \in Sessions \cup {BITCOIND, NONE}
    /\ tmp \in Databases
    /\ pc \in [Sessions -> Places]
    /\ listed \in [Sessions -> Nat]
    /\ from \in [Sessions -> Nat]
    /\ target \in [Sessions -> {"top", "inside", "spoilt"}]
    /\ view \in [Sessions -> Databases]
    /\ asOf \in [Sessions -> Nat]
    /\ quiet \in [Sessions -> BOOLEAN]
    /\ alone \in [Sessions -> BOOLEAN]
    /\ failed \in BOOLEAN

(* No copy and no call is ahead of the index of bitcoind. *)
NothingAhead ==
    /\ tmp \in Nat => tmp <= tip
    /\ \A s \in Sessions :
         /\ from[s] <= tip /\ asOf[s] <= tip
         /\ view[s] \in Nat => view[s] <= tip

(* The list is the one of the present index while bitcoind is quiet. *)
ListIsOfTip == \A s \in Sessions : quiet[s] => listed[s] = FilesFor(tip)

(* As long as nobody failed, no cp is an orphan and a copy belongs to a    *)
(* session that will delete it.                                            *)
CopyHasOwner ==
    /\ ~failed => \A s \in Sessions : pc[s] # "orphan"
    /\ ~failed /\ tmp # NONE =>
         \E s \in Sessions : pc[s] \in {"copying", "opentmp", "readtmp", "delete"}

(* What a session that is alone knows at each of its places. *)
AloneAt(s) ==
    /\ pc[s] \in {"listed", "copy"} => tmp = NONE
    /\ pc[s] = "copying" => target[s] = "top" /\ from[s] = tip
    /\ pc[s] = "opentmp" => tmp \in Nat /\ tmp >= asOf[s]
    /\ pc[s] \in {"reading", "readtmp", "delete", "done"} =>
         view[s] \in Nat /\ view[s] >= asOf[s]

AloneKnows == \A s \in Sessions : alone[s] => AloneAt(s)

IInv == Types /\ NoChangeUnderReader /\ NothingAhead /\ ListIsOfTip /\ CopyHasOwner /\ AloneKnows

(* More blocks need no fewer blk files. *)
LEMMA FilesForGrows ==
    ASSUME NEW t \in Nat, NEW u \in Nat, t <= u
    PROVE  FilesFor(t) \in Nat /\ FilesFor(t) <= FilesFor(u)
<1> DEFINE k == BlocksPerFile
           p == t \div k
           q == u \div k
<1>1. k \in Nat /\ k > 0
  BY BlocksPerFileAssumption
<1>2. p \in Nat /\ q \in Nat /\ t >= k * p /\ u < k * q + k
  BY <1>1
<1> HIDE DEF k, p, q
<1>3. p <= q
  <2> SUFFICES ASSUME p > q PROVE FALSE
    BY <1>2
  <2>1. k * p >= k * (q + 1)
    BY <1>1, <1>2
  <2>2. k * (q + 1) = k * q + k
    BY <1>1, <1>2
  <2>3. k * p \in Nat /\ k * q \in Nat
    BY <1>1, <1>2
  <2> QED BY <1>1, <1>2, <2>1, <2>2, <2>3
<1> QED BY <1>2, <1>3 DEF FilesFor, p, q, k

LEMMA InitIInv == Init => IInv
<1> SUFFICES ASSUME Init PROVE IInv
  OBVIOUS
<1>1. Types
  BY DEF Init, Types, Places, Databases
<1>2. NoChangeUnderReader /\ NothingAhead /\ ListIsOfTip /\ CopyHasOwner /\ AloneKnows
  BY NamesAssumption DEF Init, NoChangeUnderReader, NothingAhead, ListIsOfTip, CopyHasOwner, AloneKnows
<1> QED BY <1>1, <1>2 DEF IInv

(* A step of a session leaves the histories of the others without "alone", *)
(* and only an exit or a kill is a failure.                                *)
LEMMA DisturbsFacts ==
    ASSUME IInv, NEW s \in Sessions, NEW place \in Places, Goto(s, place), Disturbs(s)
    PROVE  /\ pc' \in [Sessions -> Places] /\ pc'[s] = place
           /\ \A r \in Sessions \ {s} : pc'[r] = pc[r]
           /\ alone' \in [Sessions -> BOOLEAN]
           /\ \A r \in Sessions : alone'[r] => r = s /\ alone[r]
           /\ failed' \in BOOLEAN /\ (~failed' => ~failed /\ place \notin {"exit", "orphan"})
           /\ asOf' = asOf /\ quiet' = quiet
<1>1. pc' \in [Sessions -> Places] /\ pc'[s] = place /\ \A r \in Sessions \ {s} : pc'[r] = pc[r]
  BY DEF IInv, Types, Goto
<1>2. alone' \in [Sessions -> BOOLEAN] /\ \A r \in Sessions : alone'[r] => r = s /\ alone[r]
  BY Zenon DEF Disturbs
<1>3. failed' \in BOOLEAN /\ (~failed' => ~failed /\ place \notin {"exit", "orphan"})
  BY <1>1 DEF Disturbs
<1> QED BY <1>1, <1>2, <1>3 DEF Disturbs

LEMMA BitcoindIInv ==
    IInv /\ (BitcoindStarts \/ BitcoindOpens \/ BitcoindAppends \/ BitcoindStops) => IInv'
<1> SUFFICES ASSUME IInv, BitcoindStarts \/ BitcoindOpens \/ BitcoindAppends \/ BitcoindStops
             PROVE IInv'
  OBVIOUS
<1> USE DEF IInv
<1>1. CASE BitcoindStarts
  BY <1>1 DEF BitcoindStarts, local, history, Types, NoChangeUnderReader, NothingAhead,
     ListIsOfTip, CopyHasOwner, AloneKnows, AloneAt
<1>2. CASE BitcoindOpens
  <2>1. lock' \in {BITCOIND, lock} /\ (lock # NONE => lock' = lock)
    BY <1>2 DEF BitcoindOpens
  <2>2. \A s \in Sessions : lock = s => lock' = s
    BY <2>1, NamesAssumption
  <2> QED BY <1>2, <2>1, <2>2 DEF BitcoindOpens, local, history, Types, NoChangeUnderReader,
         NothingAhead, ListIsOfTip, CopyHasOwner, AloneKnows, AloneAt
<1>3. CASE BitcoindAppends
  <2>1. \A s \in Sessions : pc[s] # "reading"
    BY <1>3, NamesAssumption DEF BitcoindAppends, NoChangeUnderReader
  <2>2. /\ tip' = tip + 1 /\ tip' \in Nat
        /\ UNCHANGED <<lock, tmp, pc, listed, from, target, view, asOf, failed>>
    BY <1>3 DEF BitcoindAppends, local, Types
  <2>3. /\ quiet' \in [Sessions -> BOOLEAN] /\ \A s \in Sessions : ~quiet'[s]
        /\ alone' \in [Sessions -> BOOLEAN]
        /\ \A s \in Sessions : alone'[s] => alone[s] /\ pc[s] # "copying"
    BY <1>3, Zenon DEF BitcoindAppends
  <2>4. Types'
    BY <2>2, <2>3 DEF Types
  <2>5. NothingAhead'
    BY <2>2 DEF Types, NothingAhead
  <2>6. ListIsOfTip' /\ CopyHasOwner' /\ NoChangeUnderReader'
    BY <2>1, <2>2, <2>3 DEF ListIsOfTip, CopyHasOwner, NoChangeUnderReader
  <2>7. AloneKnows'
    BY <2>2, <2>3 DEF AloneKnows, AloneAt
  <2> QED BY <2>4, <2>5, <2>6, <2>7
<1>4. CASE BitcoindStops
  <2>1. lock' \in {NONE, lock} /\ (lock # BITCOIND => lock' = lock)
    BY <1>4 DEF BitcoindStops
  <2>2. \A s \in Sessions : lock = s => lock' = s
    BY <2>1, NamesAssumption
  <2> QED BY <1>4, <2>1, <2>2 DEF BitcoindStops, local, history, Types, NoChangeUnderReader,
         NothingAhead, ListIsOfTip, CopyHasOwner, AloneKnows, AloneAt
<1> QED BY <1>1, <1>2, <1>3, <1>4

LEMMA ListBlkFilesIInv ==
    ASSUME IInv, NEW s \in Sessions, ListBlkFiles(s)
    PROVE  IInv'
<1> USE DEF IInv
<1>1. /\ pc[s] \in {"idle", "done", "exit"}
      /\ pc' = [pc EXCEPT ![s] = "listed"] /\ view' = [view EXCEPT ![s] = NONE]
      /\ listed' = [listed EXCEPT ![s] = FilesFor(tip)]
      /\ asOf' = [asOf EXCEPT ![s] = tip] /\ quiet' = [quiet EXCEPT ![s] = TRUE]
      /\ UNCHANGED <<tip, lock, tmp, from, target, failed>>
  BY DEF ListBlkFiles, Goto, disk
<1>2. /\ alone' \in [Sessions -> BOOLEAN]
      /\ \A r \in Sessions : alone'[r] => r = s /\ tmp = NONE
  BY Zenon DEF ListBlkFiles
<1>3. FilesFor(tip) \in Nat
  BY FilesForGrows DEF Types
<1>4. Types'
  BY <1>1, <1>2, <1>3 DEF Types, Places, Databases
<1>5. NoChangeUnderReader' /\ CopyHasOwner'
  BY <1>1 DEF Types, NoChangeUnderReader, CopyHasOwner
<1>6. NothingAhead' /\ ListIsOfTip'
  BY <1>1, NamesAssumption DEF Types, NothingAhead, ListIsOfTip
<1>7. AloneKnows'
  BY <1>1, <1>2 DEF Types, AloneKnows, AloneAt
<1> QED BY <1>4, <1>5, <1>6, <1>7

LEMMA IsBitcoindRunningIInv ==
    ASSUME IInv, NEW s \in Sessions, IsBitcoindRunning(s)
    PROVE  IInv'
<1> USE DEF IInv
<1>0. PICK found \in {up, FALSE} : Goto(s, IF found THEN "copy" ELSE "open")
  BY DEF IsBitcoindRunning
<1> DEFINE place == IF found THEN "copy" ELSE "open"
<1>1. /\ place \in {"copy", "open"} /\ place \in Places
      /\ pc[s] = "listed" /\ Goto(s, place) /\ Disturbs(s)
      /\ UNCHANGED <<tip, lock, tmp, listed, from, target, view>>
  BY <1>0 DEF IsBitcoindRunning, disk, Places
<1> HIDE DEF place
<1>2. Types'
  BY <1>1, DisturbsFacts DEF Types
<1>3. NoChangeUnderReader' /\ NothingAhead' /\ ListIsOfTip' /\ CopyHasOwner' /\ AloneKnows'
  BY <1>1, DisturbsFacts DEF Types, NoChangeUnderReader, NothingAhead, ListIsOfTip, CopyHasOwner,
     AloneKnows, AloneAt
<1> QED BY <1>2, <1>3

LEMMA OpenIndexIInv ==
    ASSUME IInv, NEW s \in Sessions, OpenIndex(s)
    PROVE  IInv'
<1> USE DEF IInv
<1>1. CASE lock = NONE
  <2>1. /\ pc[s] = "open" /\ Goto(s, "reading") /\ Disturbs(s) /\ "reading" \in Places
        /\ lock' = s /\ view' = [view EXCEPT ![s] = tip]
        /\ UNCHANGED <<tip, tmp, listed, from, target>>
    BY <1>1 DEF OpenIndex, Places
  <2>2. Types'
    BY <2>1, DisturbsFacts DEF Types, Databases
  <2>3. \A r \in Sessions : pc[r] # "reading"
    BY <1>1, NamesAssumption DEF NoChangeUnderReader
  <2>4. NoChangeUnderReader'
    BY <2>1, <2>3, DisturbsFacts DEF Types, NoChangeUnderReader
  <2>5. NothingAhead' /\ ListIsOfTip' /\ CopyHasOwner'
    BY <2>1, DisturbsFacts DEF Types, NothingAhead, ListIsOfTip, CopyHasOwner
  <2>6. AloneKnows'
    BY <2>1, DisturbsFacts DEF Types, NothingAhead, AloneKnows, AloneAt
  <2> QED BY <2>2, <2>4, <2>5, <2>6
<1>2. CASE lock # NONE
  <2>1. /\ pc[s] = "open" /\ Goto(s, "exit") /\ Disturbs(s) /\ "exit" \in Places
        /\ UNCHANGED <<tip, lock, tmp, listed, from, target, view>>
    BY <1>2 DEF OpenIndex, Places
  <2>2. Types'
    BY <2>1, DisturbsFacts DEF Types
  <2>3. NoChangeUnderReader' /\ NothingAhead' /\ ListIsOfTip' /\ CopyHasOwner' /\ AloneKnows'
    BY <2>1, DisturbsFacts DEF Types, NoChangeUnderReader, NothingAhead, ListIsOfTip, CopyHasOwner,
       AloneKnows, AloneAt
  <2> QED BY <2>2, <2>3
<1> QED BY <1>1, <1>2

LEMMA CloseIndexIInv ==
    ASSUME IInv, NEW s \in Sessions, CloseIndex(s)
    PROVE  IInv'
<1> USE DEF IInv
<1>1. /\ pc[s] = "reading" /\ Goto(s, "done") /\ Disturbs(s) /\ "done" \in Places
      /\ lock' = NONE /\ UNCHANGED <<tip, tmp, listed, from, target, view>>
  BY DEF CloseIndex, Places
<1>2. Types'
  BY <1>1, DisturbsFacts DEF Types
<1>3. \A r \in Sessions \ {s} : pc[r] # "reading"
  BY <1>1 DEF NoChangeUnderReader
<1>4. NoChangeUnderReader' /\ NothingAhead' /\ ListIsOfTip' /\ CopyHasOwner' /\ AloneKnows'
  BY <1>1, <1>3, DisturbsFacts DEF Types, NoChangeUnderReader, NothingAhead, ListIsOfTip, CopyHasOwner,
     AloneKnows, AloneAt
<1> QED BY <1>2, <1>4

LEMMA CopyStartsIInv ==
    ASSUME IInv, NEW s \in Sessions, CopyStarts(s)
    PROVE  IInv'
<1> USE DEF IInv
<1>1. /\ pc[s] = "copy" /\ Goto(s, "copying") /\ Disturbs(s) /\ "copying" \in Places
      /\ from' = [from EXCEPT ![s] = tip] /\ target' = [target EXCEPT ![s] = IF tmp = NONE THEN "top" ELSE "inside"]
      /\ tmp' = (IF tmp = NONE THEN TORN ELSE tmp)
      /\ UNCHANGED <<tip, lock, listed, view>>
  BY DEF CopyStarts, Places
<1>2. Types'
  BY <1>1, DisturbsFacts DEF Types, Databases
<1>3. NoChangeUnderReader' /\ NothingAhead' /\ ListIsOfTip' /\ CopyHasOwner'
  BY <1>1, DisturbsFacts, NamesAssumption DEF Types, NoChangeUnderReader, NothingAhead, ListIsOfTip,
     CopyHasOwner
<1>4. AloneKnows'
  BY <1>1, DisturbsFacts DEF Types, AloneKnows, AloneAt
<1> QED BY <1>2, <1>3, <1>4

(* A cp that is refused or fails leaves no session alone. *)
LEMMA CopySpoilsFacts ==
    ASSUME IInv, NEW s \in Sessions, NEW place \in Places, Goto(s, place), CopySpoils
    PROVE  /\ pc' \in [Sessions -> Places] /\ pc'[s] = place
           /\ \A r \in Sessions \ {s} : pc'[r] = pc[r]
           /\ alone' \in [Sessions -> BOOLEAN] /\ \A r \in Sessions : ~alone'[r]
           /\ failed' = failed /\ asOf' = asOf /\ quiet' = quiet
<1>1. pc' \in [Sessions -> Places] /\ pc'[s] = place /\ \A r \in Sessions \ {s} : pc'[r] = pc[r]
  BY DEF IInv, Types, Goto
<1>2. alone' \in [Sessions -> BOOLEAN] /\ \A r \in Sessions : ~alone'[r]
  BY Zenon DEF CopySpoils
<1> QED BY <1>1, <1>2 DEF CopySpoils

LEMMA CopyRefusedIInv ==
    ASSUME IInv, NEW s \in Sessions, CopyRefused(s)
    PROVE  IInv'
<1> USE DEF IInv
<1>1. /\ pc[s] = "copy" /\ Goto(s, "opentmp") /\ CopySpoils /\ "opentmp" \in Places
      /\ UNCHANGED <<tip, lock, tmp, listed, from, target, view>>
  BY DEF CopyRefused, Places, disk
<1>2. Types'
  BY <1>1, CopySpoilsFacts DEF Types
<1>3. NoChangeUnderReader' /\ NothingAhead' /\ ListIsOfTip' /\ CopyHasOwner' /\ AloneKnows'
  BY <1>1, CopySpoilsFacts DEF Types, NoChangeUnderReader, NothingAhead, ListIsOfTip, CopyHasOwner,
     AloneKnows
<1> QED BY <1>2, <1>3

(* What cp leaves in the directory is a database no newer than the index;  *)
(* for a session that is alone it is the index.                            *)
LEMMA CopiedFacts ==
    ASSUME IInv, NEW s \in Sessions, NEW d \in Copied(s)
    PROVE  /\ d \in Databases /\ (d \in Nat => d <= tip)
           /\ pc[s] = "copying" /\ alone[s] => d = tip
<1> USE DEF IInv
<1>1. CASE target[s] = "inside"
  BY <1>1 DEF Copied, Types, NothingAhead, AloneKnows, AloneAt
<1>2. CASE target[s] = "top" /\ tip = from[s]
  BY <1>2 DEF Copied, Types, Databases, NothingAhead
<1>3. CASE target[s] = "top" /\ tip # from[s]
  <2>1. d \in (from[s]..tip) \cup {TORN}
    BY <1>3 DEF Copied
  <2>2. ~(pc[s] = "copying" /\ alone[s])
    BY <1>3 DEF AloneKnows, AloneAt
  <2> QED BY <2>1, <2>2, NamesAssumption DEF Types, Databases
<1>4. CASE target[s] = "spoilt"
  <2>1. d \in (from[s]..tip) \cup {tmp, TORN}
    BY <1>4 DEF Copied
  <2>2. ~(pc[s] = "copying" /\ alone[s])
    BY <1>4 DEF AloneKnows, AloneAt
  <2> QED BY <2>1, <2>2, NamesAssumption DEF Types, Databases, NothingAhead
<1> QED BY <1>1, <1>2, <1>3, <1>4 DEF Types

(* The end of a cp keeps the types of what it knew. *)
LEMMA CopyOverFacts ==
    ASSUME IInv, NEW s \in Sessions, CopyOver(s)
    PROVE  /\ from' \in [Sessions -> Nat] /\ target' \in [Sessions -> {"top", "inside", "spoilt"}]
           /\ \A r \in Sessions : from'[r] <= tip
           /\ \A r \in Sessions \ {s} : from'[r] = from[r] /\ target'[r] = target[r]
BY DEF IInv, Types, NothingAhead, CopyOver

LEMMA CopyEndsIInv ==
    ASSUME IInv, NEW s \in Sessions, CopyEnds(s)
    PROVE  IInv'
<1> USE DEF IInv
<1>1. /\ pc[s] = "copying" /\ Goto(s, "opentmp") /\ Disturbs(s) /\ "opentmp" \in Places
      /\ CopyOver(s) /\ tmp' \in Copied(s) /\ UNCHANGED <<tip, lock, listed, view>>
  BY DEF CopyEnds, Places
<1>2. tmp' \in Databases /\ (tmp' \in Nat => tmp' <= tip) /\ (alone[s] => tmp' = tip)
  BY <1>1, CopiedFacts
<1>3. Types'
  BY <1>1, <1>2, DisturbsFacts, CopyOverFacts DEF Types
<1>4. NoChangeUnderReader' /\ NothingAhead' /\ ListIsOfTip' /\ CopyHasOwner'
  BY <1>1, <1>2, DisturbsFacts, CopyOverFacts DEF Types, NoChangeUnderReader, NothingAhead, ListIsOfTip,
     CopyHasOwner
<1>5. AloneKnows'
  BY <1>1, <1>2, DisturbsFacts DEF Types, NothingAhead, AloneKnows, AloneAt
<1> QED BY <1>3, <1>4, <1>5

LEMMA CopyFailsIInv ==
    ASSUME IInv, NEW s \in Sessions, CopyFails(s)
    PROVE  IInv'
<1> USE DEF IInv
<1>1. /\ pc[s] = "copying" /\ Goto(s, "opentmp") /\ CopySpoils /\ "opentmp" \in Places
      /\ CopyOver(s) /\ (tmp' \in Copied(s) \/ tmp' = TORN) /\ UNCHANGED <<tip, lock, listed, view>>
  BY DEF CopyFails, Places
<1>2. tmp' \in Databases /\ (tmp' \in Nat => tmp' <= tip)
  BY <1>1, CopiedFacts, NamesAssumption DEF Databases
<1>3. Types'
  BY <1>1, <1>2, CopySpoilsFacts, CopyOverFacts DEF Types
<1>4. NoChangeUnderReader' /\ NothingAhead' /\ ListIsOfTip' /\ CopyHasOwner' /\ AloneKnows'
  BY <1>1, <1>2, CopySpoilsFacts, CopyOverFacts DEF Types, NoChangeUnderReader, NothingAhead, ListIsOfTip,
     CopyHasOwner, AloneKnows
<1> QED BY <1>3, <1>4

LEMMA OrphanEndsIInv ==
    ASSUME IInv, NEW s \in Sessions, OrphanEnds(s)
    PROVE  IInv'
<1> USE DEF IInv
<1>1. /\ pc[s] = "orphan" /\ Goto(s, "exit") /\ Disturbs(s) /\ "exit" \in Places
      /\ CopyOver(s) /\ (tmp' \in Copied(s) \/ tmp' = TORN) /\ UNCHANGED <<tip, lock, listed, view>>
  BY DEF OrphanEnds, Places
<1>2. tmp' \in Databases /\ (tmp' \in Nat => tmp' <= tip)
  BY <1>1, CopiedFacts, NamesAssumption DEF Databases
<1>3. Types'
  BY <1>1, <1>2, DisturbsFacts, CopyOverFacts DEF Types
<1>4. NoChangeUnderReader' /\ NothingAhead' /\ ListIsOfTip' /\ CopyHasOwner'
  BY <1>1, <1>2, DisturbsFacts, CopyOverFacts DEF Types, NoChangeUnderReader, NothingAhead, ListIsOfTip,
     CopyHasOwner
<1>5. AloneKnows'
  BY <1>1, DisturbsFacts DEF Types, AloneKnows, AloneAt
<1> QED BY <1>3, <1>4, <1>5

LEMMA OpenTmpIInv ==
    ASSUME IInv, NEW s \in Sessions, OpenTmp(s)
    PROVE  IInv'
<1> USE DEF IInv
<1>1. CASE tmp # NONE /\ view' = [view EXCEPT ![s] = tmp] /\ Goto(s, "readtmp")
  <2>1. /\ pc[s] = "opentmp" /\ Disturbs(s) /\ "readtmp" \in Places
        /\ UNCHANGED <<tip, lock, tmp, listed, from, target>>
    BY DEF OpenTmp, Places
  <2>2. Types'
    BY <1>1, <2>1, DisturbsFacts DEF Types
  <2>3. NoChangeUnderReader' /\ NothingAhead' /\ ListIsOfTip' /\ CopyHasOwner'
    BY <1>1, <2>1, DisturbsFacts DEF Types, NoChangeUnderReader, NothingAhead, ListIsOfTip, CopyHasOwner
  <2>4. AloneKnows'
    BY <1>1, <2>1, DisturbsFacts DEF Types, AloneKnows, AloneAt
  <2> QED BY <2>2, <2>3, <2>4
<1>2. CASE Goto(s, "exit") /\ UNCHANGED view
  <2>1. /\ pc[s] = "opentmp" /\ Disturbs(s) /\ "exit" \in Places
        /\ UNCHANGED <<tip, lock, tmp, listed, from, target>>
    BY DEF OpenTmp, Places
  <2>2. Types'
    BY <1>2, <2>1, DisturbsFacts DEF Types
  <2>3. NoChangeUnderReader' /\ NothingAhead' /\ ListIsOfTip' /\ CopyHasOwner' /\ AloneKnows'
    BY <1>2, <2>1, DisturbsFacts DEF Types, NoChangeUnderReader, NothingAhead, ListIsOfTip, CopyHasOwner,
       AloneKnows, AloneAt
  <2> QED BY <2>2, <2>3
<1> QED BY <1>1, <1>2 DEF OpenTmp

LEMMA CloseTmpIInv ==
    ASSUME IInv, NEW s \in Sessions, CloseTmp(s)
    PROVE  IInv'
<1> USE DEF IInv
<1>1. /\ pc[s] = "readtmp" /\ Goto(s, "delete") /\ Disturbs(s) /\ "delete" \in Places
      /\ UNCHANGED <<tip, lock, tmp, listed, from, target, view>>
  BY DEF CloseTmp, Places
<1>2. Types'
  BY <1>1, DisturbsFacts DEF Types
<1>3. NoChangeUnderReader' /\ NothingAhead' /\ ListIsOfTip' /\ CopyHasOwner' /\ AloneKnows'
  BY <1>1, DisturbsFacts DEF Types, NoChangeUnderReader, NothingAhead, ListIsOfTip, CopyHasOwner,
     AloneKnows, AloneAt
<1> QED BY <1>2, <1>3

(* An rm changes the index only of sessions that read the copy.            *)
LEMMA RemovesFacts ==
    ASSUME IInv, Removes
    PROVE  /\ view' \in [Sessions -> Databases]
           /\ target' \in [Sessions -> {"top", "inside", "spoilt"}]
           /\ \A r \in Sessions : view'[r] = view[r] \/ (pc[r] = "readtmp" /\ view'[r] = TORN)
<1>1. view' \in [Sessions -> {TORN} \cup {view[r] : r \in Sessions}]
  BY DEF Removes
<1>2. view' \in [Sessions -> Databases]
  BY <1>1 DEF IInv, Types, Databases
<1>3. target' \in [Sessions -> {"top", "inside", "spoilt"}]
  BY DEF Removes, IInv, Types
<1> QED BY <1>2, <1>3 DEF Removes

LEMMA DeleteTmpIInv ==
    ASSUME IInv, NEW s \in Sessions, DeleteTmp(s)
    PROVE  IInv'
<1> USE DEF IInv
<1>1. /\ pc[s] = "delete" /\ Goto(s, "done") /\ Disturbs(s) /\ "done" \in Places
      /\ Removes /\ UNCHANGED <<tip, lock, listed, from>>
  BY DEF DeleteTmp, Places
<1>2. tmp' = NONE \/ (tmp' = TORN /\ \E r \in Sessions : pc[r] \in {"copying", "orphan"})
  BY DEF DeleteTmp, Writing
<1>3. /\ Types'
      /\ \A r \in Sessions : view'[r] = view[r] \/ (pc[r] = "readtmp" /\ view'[r] = TORN)
  BY <1>1, <1>2, DisturbsFacts, RemovesFacts DEF Types, Databases
<1>4. NoChangeUnderReader' /\ NothingAhead' /\ ListIsOfTip'
  BY <1>1, <1>2, <1>3, DisturbsFacts, NamesAssumption DEF Types, NoChangeUnderReader, NothingAhead,
     ListIsOfTip
<1>5. CopyHasOwner'
  BY <1>1, <1>2, DisturbsFacts DEF CopyHasOwner
<1>6. AloneKnows'
  BY <1>1, <1>3, DisturbsFacts DEF Types, AloneKnows, AloneAt
<1> QED BY <1>3, <1>4, <1>5, <1>6

LEMMA DeleteFailsIInv ==
    ASSUME IInv, NEW s \in Sessions, DeleteFails(s)
    PROVE  IInv'
<1> USE DEF IInv
<1>1. /\ pc[s] = "delete" /\ Goto(s, "done") /\ RemovalSpoils(s)
      /\ tmp' \in {tmp, TORN} /\ Removes /\ UNCHANGED <<tip, lock, listed, from>>
  BY DEF DeleteFails
<1>2. /\ alone' \in [Sessions -> BOOLEAN] /\ \A r \in Sessions : alone'[r] => r = s /\ alone[r]
      /\ failed' = TRUE /\ UNCHANGED <<asOf, quiet>>
  BY <1>1, Zenon DEF RemovalSpoils
<1>3. /\ pc' \in [Sessions -> Places] /\ pc'[s] = "done" /\ \A r \in Sessions \ {s} : pc'[r] = pc[r]
  BY <1>1 DEF Types, Goto, Places
<1>4. /\ Types'
      /\ \A r \in Sessions : view'[r] = view[r] \/ (pc[r] = "readtmp" /\ view'[r] = TORN)
  BY <1>1, <1>2, <1>3, RemovesFacts DEF Types, Databases
<1>5. NoChangeUnderReader' /\ NothingAhead' /\ ListIsOfTip' /\ CopyHasOwner'
  BY <1>1, <1>2, <1>3, <1>4, NamesAssumption DEF Types, NoChangeUnderReader, NothingAhead, ListIsOfTip,
     CopyHasOwner
<1>6. AloneKnows'
  BY <1>1, <1>2, <1>3, <1>4 DEF Types, AloneKnows, AloneAt
<1> QED BY <1>4, <1>5, <1>6

LEMMA CrashIInv ==
    ASSUME IInv, NEW s \in Sessions, Crash(s)
    PROVE  IInv'
<1> USE DEF IInv
<1>0. PICK place \in {"exit", "orphan"} : Goto(s, place)
  BY DEF Crash
<1>1. /\ place \in Places /\ Disturbs(s) /\ Active(s)
      /\ lock' = (IF lock = s THEN NONE ELSE lock) /\ UNCHANGED <<tip, listed>>
  BY DEF Crash, Places
<1>2. /\ pc' \in [Sessions -> Places] /\ pc'[s] = place
      /\ \A r \in Sessions \ {s} : pc'[r] = pc[r]
      /\ alone' \in [Sessions -> BOOLEAN] /\ \A r \in Sessions : alone'[r] => r = s /\ alone[r]
      /\ failed' = TRUE /\ asOf' = asOf /\ quiet' = quiet
  BY <1>0, <1>1, DisturbsFacts DEF Disturbs
<1>3. tmp' \in {tmp, TORN, NONE} /\ (Removes \/ UNCHANGED view)
  BY DEF Crash
<1>4. /\ from' \in [Sessions -> Nat] /\ target' \in [Sessions -> {"top", "inside", "spoilt"}]
      /\ \A r \in Sessions : from'[r] <= tip
  <2>1. (CopyOver(s) \/ UNCHANGED <<from, target>>) \/ (Removes /\ UNCHANGED from)
    BY DEF Crash
  <2> QED BY <2>1, CopyOverFacts, RemovesFacts DEF Types, NothingAhead
<1>5. /\ view' \in [Sessions -> Databases]
      /\ \A r \in Sessions : view'[r] = view[r] \/ (pc[r] = "readtmp" /\ view'[r] = TORN)
  BY <1>3, RemovesFacts DEF Types
<1>6. Types'
  BY <1>1, <1>2, <1>3, <1>4, <1>5 DEF Types, Databases
<1>7. NoChangeUnderReader' /\ NothingAhead' /\ ListIsOfTip' /\ CopyHasOwner'
  BY <1>0, <1>1, <1>2, <1>3, <1>4, <1>5, NamesAssumption DEF Types, NoChangeUnderReader, NothingAhead,
     ListIsOfTip, CopyHasOwner
<1>8. AloneKnows'
  <2>1. \A r \in Sessions : alone'[r] => pc'[r] \in {"exit", "orphan"}
    BY <1>0, <1>2
  <2> QED BY <2>1 DEF AloneKnows, AloneAt
<1> QED BY <1>6, <1>7, <1>8

LEMMA NextIInv == IInv /\ [Next]_vars => IInv'
<1> SUFFICES ASSUME IInv, [Next]_vars PROVE IInv'
  OBVIOUS
<1>1. CASE Next
  <2>1. CASE BitcoindStarts \/ BitcoindOpens \/ BitcoindAppends \/ BitcoindStops
    BY <2>1, BitcoindIInv
  <2>2. ASSUME NEW s \in Sessions, ListBlkFiles(s) \/ Step(s) \/ Crash(s)
        PROVE IInv'
    BY <2>2, ListBlkFilesIInv, IsBitcoindRunningIInv, OpenIndexIInv, CloseIndexIInv, CopyStartsIInv,
       CopyRefusedIInv, CopyEndsIInv, CopyFailsIInv, OrphanEndsIInv, OpenTmpIInv, CloseTmpIInv,
       DeleteTmpIInv, DeleteFailsIInv, CrashIInv DEF Step
  <2> QED BY <1>1, <2>1, <2>2 DEF Next
<1>2. CASE UNCHANGED vars
  BY <1>2 DEF vars, disk, local, history, IInv, Types, NoChangeUnderReader, NothingAhead,
     ListIsOfTip, CopyHasOwner, AloneKnows, AloneAt
<1> QED BY <1>1, <1>2

LEMMA Invariance == Spec => []IInv
BY InitIInv, NextIInv, PTL DEF Spec

(* The two passes over the index of bitcoind see one database, however     *)
(* many sessions and whenever bitcoind starts.                             *)
THEOREM ReaderSeesOneDatabase == Spec => []NoChangeUnderReader
<1>1. IInv => NoChangeUnderReader
  BY DEF IInv
<1> QED BY <1>1, Invariance, PTL

(* A session left alone, whose cp succeeded while bitcoind was quiet, ends *)
(* with a whole index at least as new as its call, whatever copies failed, *)
(* were cut short or were left behind before it called.                    *)
THEOREM AloneIsFresh == Spec => []FreshWhenAlone
<1>1. IInv => FreshWhenAlone
  BY DEF IInv, AloneKnows, AloneAt, FreshWhenAlone
<1> QED BY <1>1, Invariance, PTL

(* Every blk file the index refers to is in the list made before it, for   *)
(* every number of blocks in a file and whatever the other sessions do, as *)
(* long as bitcoind appends nothing after the call.                        *)
THEOREM ListIsEnough == Spec => []ListCoversIndex
<1>1. IInv => ListCoversIndex
  BY FilesForGrows DEF IInv, Types, NothingAhead, ListIsOfTip, ListCoversIndex
<1> QED BY <1>1, Invariance, PTL

(* Sessions that all end without a kill, an exit or an rm that fails leave *)
(* no copy in /tmp, although their copies may fail half way.               *)
THEOREM NoCopyIsLeft == Spec => []LeavesNoCopy
<1>1. IInv => LeavesNoCopy
  BY DEF IInv, CopyHasOwner, LeavesNoCopy, Active
<1> QED BY <1>1, Invariance, PTL

=============================================================================
