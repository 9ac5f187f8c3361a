----------------------------- MODULE DatadirProofs -----------------------------
(***************************************************************************)
(* What ParseCoreDatadir leaves in gEnv, for every file system, every      *)
(* table of defaults and every change of the file system between two       *)
(* looks at it.                                                            *)
(***************************************************************************)
EXTENDS Datadir, TLAPS

Bits == {"HAS_DATADIR", "HAS_INDEXES", "HAS_TXINDEX", "HAS_COINSTAT"}

(* The places behind a call that was successful so far. *)
Opened == {"xorkey", "indexes", "txindex", "coinstat", "done"}
Keyed == {"indexes", "txindex", "coinstat", "done"}

Types ==
    /\ pc \in {"idle", "argument", "search", "blocks", "exit"} \cup Opened
    /\ next \in 1..(Len(DefaultDatadirs) + 1)
    /\ dataDir = NONE

(* The two names are those of the datadir, and blocks was seen. *)
NamesInv ==
    pc \in Opened =>
      /\ blocksDir = Sub(datadir, "blocks") /\ indexesDir = Sub(datadir, "indexes")
      /\ blocksDir \in seen

(* A bit is set behind the IsDirectory it stands for, from zero on. *)
BitsInv ==
    /\ pc \in {"argument", "search", "blocks", "xorkey"} => status = {}
    /\ pc \in Keyed =>
         /\ status \subseteq Bits /\ "HAS_DATADIR" \in status
         /\ \A bit \in status : DirOfBit(bit) \in seen

(* Round n of the search of the defaults was reached. *)
SearchedTo(n) ==
    /\ <<path.dir>> \in missed
    /\ \A j \in 1..(n - 1) : <<ExpandUserDir(DefaultDatadirs[j])>> \in missed

(* How the datadir in use was found. *)
Found ==
    /\ <<datadir.dir>> \in seen
    /\ datadir = path \/ \E n \in DOMAIN DefaultDatadirs :
         /\ datadir = [dir |-> ExpandUserDir(DefaultDatadirs[n]), slash |-> TRUE]
         /\ SearchedTo(n)

SearchInv ==
    /\ pc = "argument" => path \in [dir : Dirs, slash : BOOLEAN] /\ next = 1
    /\ pc = "search" => datadir = NONE /\ SearchedTo(next)
    /\ pc = "blocks" => datadir # NONE
    /\ pc \in {"blocks"} \cup Opened => Found
    /\ pc = "exit" =>
         IF datadir = NONE THEN SearchedTo(Len(DefaultDatadirs) + 1) ELSE blocksDir \in missed

(* What the datadir in use is: only a name that ends in a slash passes the *)
(* test of its blocks directory.                                           *)
KindsInv ==
    /\ layout \in [Dirs -> Layouts]
    /\ changes \in Nat /\ since \in Nat /\ since <= changes
    /\ pc \notin {"idle"} => path \in [dir : Dirs, slash : BOOLEAN]
    /\ pc \in {"blocks"} \cup Opened => datadir \in [dir : Dirs, slash : BOOLEAN]
    /\ pc \in Opened => datadir.slash

IInv == Types /\ NamesInv /\ BitsInv /\ SearchInv

(* A datadir that was passed over is not there; the bits set so far.       *)
StillInv ==
    changes = since =>
      /\ pc = "search" => ~layout[path.dir].present
      /\ pc \in {"blocks"} \cup Opened => datadir = path \/ ~layout[path.dir].present
      /\ pc \in Opened => "blocks" \in layout[datadir.dir].subs
      /\ pc = "exit" => ~(path.slash /\ "blocks" \in layout[path.dir].subs)
      /\ pc = "indexes" => status = {"HAS_DATADIR"}
      /\ pc = "txindex" =>
           status = {"HAS_DATADIR", "HAS_INDEXES"} /\ "indexes" \in layout[datadir.dir].subs
      /\ pc \in {"coinstat", "done"} => status = StatusOf(datadir.dir)

----------------------------------------------------------------------------
LEMMA LenDefaults ==
    Len(DefaultDatadirs) \in Nat /\ DOMAIN DefaultDatadirs = 1..Len(DefaultDatadirs)
BY DefaultsAssumption

(* A directory with a name of one part is a datadir of the machine. *)
LEMMA DatadirIsKnown ==
    ASSUME NEW d, IsDirectory(<<d>>)
    PROVE  d \in Dirs
<1>1. PICK e \in Dirs : <<d>> \in DirsOf(e)
  BY DEF IsDirectory
<1>2. <<d>> = <<e>> \/ \E n \in layout[e].subs : <<d>> = <<e, n>>
  BY <1>1 DEF DirsOf
<1>3. \A n : <<d>> # <<e, n>>
  BY Len(<<d>>) = 1, \A n : Len(<<e, n>>) = 2
<1> QED BY <1>2, <1>3

(* A look that succeeds is remembered in seen, one that fails in missed.   *)
LEMMA StatFacts ==
    ASSUME NEW name, NEW yes, NEW no, Stat(name, yes, no)
    PROVE  /\ seen \subseteq seen' /\ missed \subseteq missed'
           /\ IsDirectory(name) => pc' = yes /\ name \in seen'
           /\ ~IsDirectory(name) => pc' = no /\ name \in missed'
BY DEF Stat

LEMMA InitIInv == Init => IInv
<1> SUFFICES ASSUME Init PROVE IInv
  OBVIOUS
<1>1. Types
  BY LenDefaults DEF Init, Types
<1> QED BY <1>1 DEF Init, IInv, NamesInv, BitsInv, SearchInv, Opened, Keyed

LEMMA StartIInv ==
    ASSUME IInv, NEW d \in Dirs, NEW slash \in BOOLEAN, InitMLBTCC(d, slash)
    PROVE  IInv'
<1>1. /\ pc' = "argument" /\ path' = [dir |-> d, slash |-> slash] /\ next' = 1
      /\ status' = {} /\ dataDir' = NONE
  BY DEF InitMLBTCC, ZeroEnv
<1>2. Types'
  BY <1>1, LenDefaults DEF Types
<1> QED BY <1>1, <1>2 DEF IInv, NamesInv, BitsInv, SearchInv, Opened, Keyed

(* The file system is no part of the invariant. *)
LEMMA SameIInv ==
    ASSUME IInv,
           UNCHANGED <<rootXor, user, pc, path, next, datadir, dataDir, blocksDir, indexesDir,
                       status, xorKey, seen, missed>>
    PROVE  IInv'
<1> USE DEF IInv
<1>1. Types'
  BY DEF Types
<1>2. NamesInv'
  BY DEF NamesInv, Sub
<1>3. BitsInv'
  <2>1. \A bit : DirOfBit(bit)' = DirOfBit(bit)
    BY DEF DirOfBit, Sub
  <2> QED BY <2>1 DEF BitsInv
<1>4. SearchInv'
  <2>1. \A n : SearchedTo(n)' = SearchedTo(n)
    BY DEF SearchedTo, ExpandUserDir
  <2>2. Found' = Found
    BY <2>1 DEF Found, ExpandUserDir
  <2> QED BY <2>1, <2>2 DEF SearchInv
<1> QED BY <1>1, <1>2, <1>3, <1>4

LEMMA ArgumentIInv ==
    ASSUME IInv, TryArgument
    PROVE  IInv'
<1> USE DEF IInv
<1>1. /\ pc = "argument" /\ Stat(<<path.dir>>, "blocks", "search")
      /\ datadir' = IF IsDirectory(<<path.dir>>) THEN path ELSE NONE
      /\ UNCHANGED <<user, path, next, dataDir, status>>
  BY DEF TryArgument, disk, env
<1>2. path \in [dir : Dirs, slash : BOOLEAN] /\ path # NONE /\ next = 1 /\ status = {}
  BY <1>1, NoneAssumption DEF SearchInv, BitsInv
<1>3. CASE IsDirectory(<<path.dir>>)
  <2>1. pc' = "blocks" /\ datadir' = path /\ <<path.dir>> \in seen'
    BY <1>1, <1>3, StatFacts
  <2>2. Types'
    BY <1>1, <2>1 DEF Types
  <2>3. SearchInv'
    BY <1>1, <1>2, <2>1 DEF SearchInv, Found
  <2> QED BY <1>1, <1>2, <2>1, <2>2, <2>3 DEF NamesInv, BitsInv, Opened, Keyed
<1>4. CASE ~IsDirectory(<<path.dir>>)
  <2>1. pc' = "search" /\ datadir' = NONE /\ <<path.dir>> \in missed'
    BY <1>1, <1>4, StatFacts
  <2>2. Types'
    BY <1>1, <2>1 DEF Types
  <2>3. SearchInv'
    BY <1>1, <1>2, <2>1 DEF SearchInv, SearchedTo, Opened
  <2> QED BY <1>1, <1>2, <2>1, <2>2, <2>3 DEF NamesInv, BitsInv, Opened, Keyed
<1> QED BY <1>3, <1>4

LEMMA SearchIInv ==
    ASSUME IInv, SearchStep
    PROVE  IInv'
<1> USE DEF IInv
<1>1. /\ pc = "search" /\ datadir = NONE /\ SearchedTo(next) /\ status = {}
      /\ UNCHANGED <<user, path, dataDir, status>>
      /\ next \in Nat /\ next \in 1..(Len(DefaultDatadirs) + 1)
  BY LenDefaults DEF SearchStep, SearchInv, BitsInv, Types, disk, env
<1>2. CASE SearchFails
  <2>1. pc' = "exit" /\ next = Len(DefaultDatadirs) + 1 /\ UNCHANGED <<next, datadir, seen, missed>>
    BY <1>1, <1>2, LenDefaults DEF SearchStep, SearchFails
  <2>2. Types'
    BY <1>1, <2>1 DEF Types
  <2>3. SearchInv'
    BY <1>1, <2>1 DEF SearchInv, SearchedTo, ExpandUserDir, Opened
  <2> QED BY <1>1, <2>1, <2>2, <2>3 DEF NamesInv, BitsInv, Opened, Keyed
<1>3. CASE ~SearchFails
  <2> DEFINE d == Candidate(next)
  <2>1. /\ Stat(<<d>>, "blocks", "search") /\ next' = next + 1
        /\ datadir' = IF IsDirectory(<<d>>) THEN [dir |-> d, slash |-> TRUE] ELSE NONE
    BY <1>3 DEF SearchStep
  <2>2. next \in DOMAIN DefaultDatadirs /\ d = ExpandUserDir(DefaultDatadirs[next])
    BY <1>1, <1>3, LenDefaults DEF SearchFails, Candidate
  <2>3. next' \in 1..(Len(DefaultDatadirs) + 1)
    BY <2>1, <2>2, LenDefaults
  <2>4. /\ ExpandUserDir(DefaultDatadirs[next])' = ExpandUserDir(DefaultDatadirs[next'])
        /\ \A j : ExpandUserDir(DefaultDatadirs[j])' = ExpandUserDir(DefaultDatadirs[j])
    BY <1>1 DEF ExpandUserDir
  <2> HIDE DEF d
  <2>5. missed \subseteq missed'
    BY <2>1, StatFacts
  <2>6. CASE IsDirectory(<<d>>)
    <3>1. pc' = "blocks" /\ <<d>> \in seen' /\ datadir' = [dir |-> d, slash |-> TRUE] /\ d \in Dirs
      BY <2>1, <2>6, StatFacts, DatadirIsKnown
    <3>2. datadir' # NONE
      <4>1. datadir' \in [dir : Dirs, slash : BOOLEAN]
        BY <3>1
      <4> QED BY <4>1, NoneAssumption
    <3>3. Types'
      BY <1>1, <2>3, <3>1 DEF Types
    <3>4. SearchInv'
      BY <1>1, <2>2, <2>5, <3>1, <3>2 DEF SearchInv, Found, SearchedTo, ExpandUserDir
    <3> QED BY <1>1, <3>1, <3>3, <3>4 DEF NamesInv, BitsInv, Opened, Keyed
  <2>7. CASE ~IsDirectory(<<d>>)
    <3>1. pc' = "search" /\ <<d>> \in missed' /\ datadir' = NONE
      BY <2>1, <2>7, StatFacts
    <3>2. Types'
      BY <1>1, <2>3, <3>1 DEF Types
    <3>3. SearchInv'
      BY <1>1, <2>1, <2>2, <2>5, <3>1 DEF SearchInv, SearchedTo, ExpandUserDir, Opened
    <3> QED BY <1>1, <3>1, <3>2, <3>3 DEF NamesInv, BitsInv, Opened, Keyed
  <2> QED BY <2>6, <2>7
<1> QED BY <1>2, <1>3

LEMMA BlocksIInv ==
    ASSUME IInv, CheckBlocksDir
    PROVE  IInv'
<1> USE DEF IInv
<1>1. /\ pc = "blocks" /\ blocksDir' = Sub(datadir, "blocks") /\ indexesDir' = Sub(datadir, "indexes")
      /\ UNCHANGED <<user, path, next, datadir, dataDir, status>>
      /\ Stat(blocksDir', "xorkey", "exit")
  BY DEF CheckBlocksDir, disk
<1>2. /\ seen \subseteq seen' /\ missed \subseteq missed'
      /\ (pc' = "xorkey" /\ blocksDir' \in seen') \/ (pc' = "exit" /\ blocksDir' \in missed')
  BY <1>1 DEF Stat
<1>3. Types'
  BY <1>1, <1>2 DEF Types, Opened
<1>4. Found'
  BY <1>1, <1>2 DEF SearchInv, Found, SearchedTo, ExpandUserDir
<1>5. SearchInv'
  BY <1>1, <1>2, <1>4 DEF SearchInv, Opened
<1>6. NamesInv'
  BY <1>1, <1>2 DEF NamesInv, Sub, Opened
<1> QED BY <1>1, <1>2, <1>3, <1>5, <1>6 DEF BitsInv, Keyed

LEMMA LoadIInv ==
    ASSUME IInv, LoadXorKey
    PROVE  IInv'
<1> USE DEF IInv
<1>1. /\ pc = "xorkey" /\ pc' = "indexes" /\ xorKey' = KeyRead(XorFile)
      /\ status' = status \cup {"HAS_DATADIR"} /\ status = {}
      /\ UNCHANGED <<rootXor, user, path, next, datadir, dataDir, blocksDir, indexesDir, seen, missed>>
  BY DEF LoadXorKey, BitsInv, disk
<1>2. Types'
  BY <1>1 DEF Types, Opened
<1>3. NamesInv' /\ SearchInv'
  BY <1>1 DEF NamesInv, SearchInv, Found, SearchedTo, ExpandUserDir, Sub, Opened
<1>4. BitsInv'
  BY <1>1 DEF BitsInv, NamesInv, Bits, DirOfBit, Sub, Opened, Keyed
<1> QED BY <1>2, <1>3, <1>4

(* One of the three optional directories. *)
LEMMA OptionalIInv ==
    ASSUME IInv, NEW name, NEW bit \in Bits, NEW here \in Keyed \ {"done"},
           NEW yes \in Keyed, NEW no \in Keyed, name = DirOfBit(bit),
           CheckOptional(name, bit, here, yes, no)
    PROVE  IInv'
<1> USE DEF IInv
<1>1. /\ pc = here /\ Stat(name, yes, no)
      /\ status' = status \cup (IF IsDirectory(name) THEN {bit} ELSE {})
      /\ UNCHANGED <<rootXor, user, path, next, datadir, dataDir, blocksDir, indexesDir, xorKey>>
  BY DEF CheckOptional, disk
<1>2. /\ pc \in Keyed /\ pc' \in Keyed /\ seen \subseteq seen' /\ missed \subseteq missed'
      /\ IsDirectory(name) => name \in seen'
  BY <1>1, StatFacts
<1>3. \A b : DirOfBit(b)' = DirOfBit(b)
  BY <1>1 DEF DirOfBit, Sub
<1>4. Types'
  BY <1>1, <1>2 DEF Types, Opened, Keyed
<1>5. NamesInv'
  BY <1>1, <1>2 DEF NamesInv, Sub, Opened, Keyed
<1>6. Found'
  BY <1>1, <1>2 DEF SearchInv, Found, SearchedTo, ExpandUserDir, Opened, Keyed
<1>7. SearchInv'
  BY <1>2, <1>6 DEF SearchInv, Keyed
<1>8. BitsInv'
  <2>1. status' \subseteq Bits /\ "HAS_DATADIR" \in status'
    BY <1>1, <1>2 DEF BitsInv
  <2>2. \A b \in status' : DirOfBit(b) \in seen'
    BY <1>1, <1>2 DEF BitsInv
  <2> QED BY <1>2, <1>3, <2>1, <2>2 DEF BitsInv, Keyed
<1> QED BY <1>4, <1>5, <1>7, <1>8

LEMMA NextIInv == IInv /\ [Next]_vars => IInv'
<1> SUFFICES ASSUME IInv, [Next]_vars PROVE IInv'
  OBVIOUS
<1>1. CASE Changes
  BY <1>1, SameIInv DEF Changes, env
<1>2. CASE \E d \in Dirs, slash \in BOOLEAN : InitMLBTCC(d, slash)
  BY <1>2, StartIInv
<1>3. CASE TryArgument \/ SearchStep \/ CheckBlocksDir \/ LoadXorKey
  BY <1>3, ArgumentIInv, SearchIInv, BlocksIInv, LoadIInv
<1>4. CASE CheckIndexesDir
  <2>1. pc = "indexes"
    BY <1>4 DEF CheckIndexesDir, CheckOptional
  <2>2. indexesDir = DirOfBit("HAS_INDEXES")
    BY <2>1 DEF IInv, NamesInv, Opened, DirOfBit
  <2> QED BY <1>4, <2>2, OptionalIInv DEF CheckIndexesDir, Bits, Keyed
<1>5. CASE CheckTxindex
  <2>1. <<datadir.dir, "txindex">> = DirOfBit("HAS_TXINDEX")
    BY DEF DirOfBit
  <2> QED BY <1>5, <2>1, OptionalIInv DEF CheckTxindex, Bits, Keyed
<1>6. CASE CheckCoinstat
  <2>1. <<datadir.dir, "coinstat">> = DirOfBit("HAS_COINSTAT")
    BY DEF DirOfBit
  <2> QED BY <1>6, <2>1, OptionalIInv DEF CheckCoinstat, Bits, Keyed
<1>7. CASE UNCHANGED vars
  BY <1>7, SameIInv DEF vars, disk, env
<1> QED BY <1>1, <1>2, <1>3, <1>4, <1>5, <1>6, <1>7 DEF Next

LEMMA Invariance == Spec => []IInv
BY InitIInv, NextIInv, PTL DEF Spec

----------------------------------------------------------------------------
(* Calls during which the file system keeps still. *)

(* A layout has its blocks only in a datadir that is there, its txindex    *)
(* only among indexes, and nothing called coinstat.                        *)
LEMMA LayoutFacts ==
    ASSUME NEW d \in Dirs, KindsInv
    PROVE  /\ "blocks" \in layout[d].subs => layout[d].present
           /\ "txindex" \in layout[d].subs => "indexes" \in layout[d].subs
           /\ "coinstat" \notin layout[d].subs
<1>1. layout[d] \in Layouts
  BY DEF KindsInv
<1>2. layout[d].subs \subseteq SubDirs
  BY <1>1, LayoutsAssumption
<1>3. /\ layout[d].subs # {} => layout[d].present
      /\ layout[d].subs \cap {"txindex", "coinstats"} # {} => "indexes" \in layout[d].subs
  BY <1>1, LayoutsAssumption
<1> QED BY <1>2, <1>3 DEF SubDirs

(* Names of one, two and three parts. *)
LEMMA IsDirectoryFacts ==
    ASSUME NEW d \in Dirs, NEW n
    PROVE  /\ IsDirectory(<<d>>) <=> layout[d].present
           /\ IsDirectory(<<d, n>>) <=> n \in layout[d].subs
           /\ ~IsDirectory(<<d, "glued", n>>)
<1>1. \A e, f, g, h, k : <<e>> # <<f, g>> /\ <<f, g>> # <<e, h, k>> /\ <<e>> # <<f, h, k>>
  <2> SUFFICES ASSUME NEW e, NEW f, NEW g, NEW h, NEW k
               PROVE  <<e>> # <<f, g>> /\ <<f, g>> # <<e, h, k>> /\ <<e>> # <<f, h, k>>
    OBVIOUS
  <2>1. Len(<<e>>) = 1 /\ Len(<<f, g>>) = 2 /\ Len(<<e, h, k>>) = 3 /\ Len(<<f, h, k>>) = 3
    OBVIOUS
  <2> QED BY <2>1
<1>2. \A e, x : x \in DirsOf(e) <=> (x = <<e>> /\ layout[e].present) \/ \E m \in layout[e].subs : x = <<e, m>>
  BY DEF DirsOf
<1>3. \A e : (<<d>> = <<e>>) <=> (d = e)
  OBVIOUS
<1>4. \A e, m : (<<d, n>> = <<e, m>>) <=> (d = e /\ n = m)
  OBVIOUS
<1>5. IsDirectory(<<d>>) <=> layout[d].present
  BY <1>1, <1>2, <1>3 DEF IsDirectory
<1>6. IsDirectory(<<d, n>>) <=> n \in layout[d].subs
  BY <1>1, <1>2, <1>4 DEF IsDirectory
<1>7. ~IsDirectory(<<d, "glued", n>>)
  BY <1>1, <1>2 DEF IsDirectory
<1> QED BY <1>5, <1>6, <1>7

(* Sub of a datadir that ends in a slash, and of one that does not.        *)
LEMMA SubFacts ==
    ASSUME NEW dd \in [dir : Dirs, slash : BOOLEAN], NEW n
    PROVE  IsDirectory(Sub(dd, n)) <=> dd.slash /\ n \in layout[dd.dir].subs
<1>1. dd.dir \in Dirs /\ dd.slash \in BOOLEAN
  OBVIOUS
<1>2. CASE dd.slash
  BY <1>1, <1>2, IsDirectoryFacts DEF Sub
<1>3. CASE ~dd.slash
  BY <1>1, <1>3, IsDirectoryFacts DEF Sub
<1> QED BY <1>2, <1>3

LEMMA StillInit == Init => KindsInv /\ StillInv
<1> SUFFICES ASSUME Init PROVE KindsInv /\ StillInv
  OBVIOUS
<1> QED BY DEF Init, KindsInv, StillInv, Opened

LEMMA StillStart ==
    ASSUME KindsInv, NEW d \in Dirs, NEW slash \in BOOLEAN, InitMLBTCC(d, slash)
    PROVE  KindsInv' /\ StillInv'
<1>1. /\ pc' = "argument" /\ path' = [dir |-> d, slash |-> slash] /\ since' = changes
      /\ UNCHANGED <<layout, changes>>
  BY DEF InitMLBTCC, disk
<1>2. path' \in [dir : Dirs, slash : BOOLEAN]
  BY <1>1
<1> QED BY <1>1, <1>2 DEF KindsInv, StillInv, Opened

LEMMA StillChanges ==
    ASSUME KindsInv, Changes
    PROVE  KindsInv' /\ StillInv'
<1>1. /\ changes' = changes + 1
      /\ UNCHANGED <<since, pc, path, datadir>>
  BY DEF Changes
<1>2. layout' \in [Dirs -> Layouts]
  BY DEF Changes, KindsInv
<1>3. changes' # since'
  BY <1>1 DEF KindsInv
<1> QED BY <1>1, <1>2, <1>3 DEF KindsInv, StillInv

LEMMA StillArgument ==
    ASSUME KindsInv, StillInv, TryArgument
    PROVE  KindsInv' /\ StillInv'
<1>1. /\ pc = "argument" /\ Stat(<<path.dir>>, "blocks", "search")
      /\ datadir' = IF IsDirectory(<<path.dir>>) THEN path ELSE NONE
      /\ UNCHANGED <<layout, changes, path, since>>
  BY DEF TryArgument, disk
<1>2. path \in [dir : Dirs, slash : BOOLEAN] /\ path.dir \in Dirs
  BY <1>1 DEF KindsInv
<1>3. CASE IsDirectory(<<path.dir>>)
  <2>1. pc' = "blocks" /\ datadir' = path
    BY <1>1, <1>3, StatFacts
  <2> QED BY <1>1, <1>2, <2>1 DEF KindsInv, StillInv, Opened
<1>4. CASE ~IsDirectory(<<path.dir>>)
  <2>1. pc' = "search" /\ ~layout[path.dir].present
    BY <1>1, <1>2, <1>4, StatFacts, IsDirectoryFacts
  <2> QED BY <1>1, <1>2, <2>1 DEF KindsInv, StillInv, Opened
<1> QED BY <1>3, <1>4

LEMMA StillSearch ==
    ASSUME KindsInv, StillInv, SearchStep
    PROVE  KindsInv' /\ StillInv'
<1>1. pc = "search" /\ UNCHANGED <<layout, changes, path, since>>
  BY DEF SearchStep, disk
<1>2. /\ path \in [dir : Dirs, slash : BOOLEAN] /\ path.dir \in Dirs
      /\ changes = since => ~layout[path.dir].present
  BY <1>1 DEF KindsInv, StillInv
<1>3. CASE SearchFails
  <2>1. pc' = "exit"
    BY <1>3 DEF SearchStep
  <2> QED BY <1>1, <1>2, <2>1, LayoutFacts DEF KindsInv, StillInv, Opened
<1>4. CASE ~SearchFails
  <2> DEFINE d == Candidate(next)
  <2>1. /\ Stat(<<d>>, "blocks", "search")
        /\ datadir' = IF IsDirectory(<<d>>) THEN [dir |-> d, slash |-> TRUE] ELSE NONE
    BY <1>4 DEF SearchStep
  <2> HIDE DEF d
  <2>2. CASE IsDirectory(<<d>>)
    <3>1. pc' = "blocks" /\ datadir' \in [dir : Dirs, slash : BOOLEAN]
      BY <2>1, <2>2, StatFacts, DatadirIsKnown
    <3> QED BY <1>1, <1>2, <3>1 DEF KindsInv, StillInv, Opened
  <2>3. CASE ~IsDirectory(<<d>>)
    <3>1. pc' = "search"
      BY <2>1, <2>3, StatFacts
    <3> QED BY <1>1, <1>2, <3>1 DEF KindsInv, StillInv, Opened
  <2> QED BY <2>2, <2>3
<1> QED BY <1>3, <1>4

LEMMA StillBlocks ==
    ASSUME KindsInv, StillInv, CheckBlocksDir
    PROVE  KindsInv' /\ StillInv'
<1>1. /\ pc = "blocks" /\ Stat(Sub(datadir, "blocks"), "xorkey", "exit")
      /\ UNCHANGED <<layout, changes, path, since, datadir>>
  BY DEF CheckBlocksDir, disk
<1>2. /\ path \in [dir : Dirs, slash : BOOLEAN] /\ path.dir \in Dirs
      /\ datadir \in [dir : Dirs, slash : BOOLEAN]
      /\ changes = since => datadir = path \/ ~layout[path.dir].present
  BY <1>1 DEF KindsInv, StillInv
<1>3. CASE IsDirectory(Sub(datadir, "blocks"))
  <2>1. pc' = "xorkey"
    BY <1>1, <1>3, StatFacts
  <2>2. datadir.slash /\ "blocks" \in layout[datadir.dir].subs
    BY <1>2, <1>3, SubFacts
  <2> QED BY <1>1, <1>2, <2>1, <2>2 DEF KindsInv, StillInv, Opened
<1>4. CASE ~IsDirectory(Sub(datadir, "blocks"))
  <2>1. pc' = "exit"
    BY <1>1, <1>4, StatFacts
  <2>2. ~(datadir.slash /\ "blocks" \in layout[datadir.dir].subs)
    BY <1>2, <1>4, SubFacts
  <2>3. changes = since => ~(path.slash /\ "blocks" \in layout[path.dir].subs)
    BY <1>2, <2>2, LayoutFacts
  <2> QED BY <1>1, <1>2, <2>1, <2>3 DEF KindsInv, StillInv, Opened
<1> QED BY <1>3, <1>4

LEMMA StillLoad ==
    ASSUME IInv, KindsInv, StillInv, LoadXorKey
    PROVE  KindsInv' /\ StillInv'
<1>1. /\ pc = "xorkey" /\ pc' = "indexes" /\ status' = {"HAS_DATADIR"}
      /\ UNCHANGED <<layout, changes, path, since, datadir>>
  BY DEF LoadXorKey, IInv, BitsInv, disk
<1> QED BY <1>1 DEF KindsInv, StillInv, Opened

(* The three optional directories: the bit is set exactly when the         *)
(* directory is there.                                                     *)
LEMMA StillOptional ==
    ASSUME KindsInv, StillInv, NEW name, NEW bit, NEW here \in Keyed \ {"done"},
           NEW yes \in Keyed, NEW no \in Keyed, CheckOptional(name, bit, here, yes, no)
    PROVE  /\ KindsInv' /\ UNCHANGED <<layout, changes, path, since, datadir>>
           /\ datadir \in [dir : Dirs, slash : BOOLEAN] /\ datadir.slash
           /\ IsDirectory(name) => pc' = yes /\ status' = status \cup {bit}
           /\ ~IsDirectory(name) => pc' = no /\ status' = status
           /\ changes = since => datadir = path \/ ~layout[path.dir].present
           /\ changes = since => "blocks" \in layout[datadir.dir].subs
<1>1. /\ pc = here /\ Stat(name, yes, no)
      /\ status' = status \cup (IF IsDirectory(name) THEN {bit} ELSE {})
      /\ UNCHANGED <<layout, changes, path, since, datadir>>
  BY DEF CheckOptional, disk
<1>2. pc \in Opened /\ pc' \in Opened /\ pc # "idle" /\ pc' # "idle"
  BY <1>1 DEF Stat, Opened, Keyed
<1>3. KindsInv'
  BY <1>1, <1>2 DEF KindsInv
<1>4. IsDirectory(name) => pc' = yes /\ status' = status \cup {bit}
  BY <1>1 DEF Stat
<1>5. ~IsDirectory(name) => pc' = no /\ status' = status
  BY <1>1 DEF Stat
<1> QED BY <1>1, <1>2, <1>3, <1>4, <1>5 DEF KindsInv, StillInv

LEMMA StillIndexes ==
    ASSUME IInv, KindsInv, StillInv, CheckIndexesDir
    PROVE  KindsInv' /\ StillInv'
<1>1. /\ CheckOptional(indexesDir, "HAS_INDEXES", "indexes", "txindex", "done")
      /\ "indexes" \in Keyed \ {"done"} /\ "txindex" \in Keyed /\ "done" \in Keyed
  BY DEF CheckIndexesDir, Keyed
<1>2. pc = "indexes" /\ indexesDir = Sub(datadir, "indexes")
  BY <1>1 DEF CheckOptional, IInv, NamesInv, Opened
<1> DEFINE d == datadir.dir
<1>3. /\ KindsInv' /\ UNCHANGED <<layout, changes, path, since, datadir>>
      /\ datadir \in [dir : Dirs, slash : BOOLEAN] /\ datadir.slash
      /\ IsDirectory(indexesDir) => pc' = "txindex" /\ status' = status \cup {"HAS_INDEXES"}
      /\ ~IsDirectory(indexesDir) => pc' = "done" /\ status' = status
      /\ changes = since => datadir = path \/ ~layout[path.dir].present
      /\ changes = since => "blocks" \in layout[d].subs
  BY <1>1, StillOptional
<1>4. IsDirectory(indexesDir) <=> "indexes" \in layout[d].subs
  BY <1>2, <1>3, SubFacts
<1>5. "txindex" \in layout[d].subs => "indexes" \in layout[d].subs
  BY <1>3, LayoutFacts
<1>6. changes = since => status = {"HAS_DATADIR"}
  BY <1>2 DEF StillInv
<1>7. CASE IsDirectory(indexesDir)
  BY <1>3, <1>4, <1>6, <1>7 DEF StillInv, Opened
<1>8. CASE ~IsDirectory(indexesDir)
  BY <1>3, <1>4, <1>5, <1>6, <1>8 DEF StillInv, Opened, StatusOf
<1> QED BY <1>3, <1>7, <1>8

LEMMA StillTxindex ==
    ASSUME KindsInv, StillInv, CheckTxindex
    PROVE  KindsInv' /\ StillInv'
<1> DEFINE name == <<datadir.dir, "txindex">>
<1>1. /\ CheckOptional(name, "HAS_TXINDEX", "txindex", "coinstat", "coinstat")
      /\ "txindex" \in Keyed \ {"done"} /\ "coinstat" \in Keyed
  BY DEF CheckTxindex, Keyed
<1>2. pc = "txindex"
  BY <1>1 DEF CheckOptional
<1> HIDE DEF name
<1>3. /\ KindsInv' /\ UNCHANGED <<layout, changes, path, since, datadir>>
      /\ datadir \in [dir : Dirs, slash : BOOLEAN] /\ datadir.dir \in Dirs
      /\ pc' = "coinstat"
      /\ IsDirectory(name) => status' = status \cup {"HAS_TXINDEX"}
      /\ ~IsDirectory(name) => status' = status
      /\ changes = since => datadir = path \/ ~layout[path.dir].present
      /\ changes = since => "blocks" \in layout[datadir.dir].subs
  BY <1>1, StillOptional
<1>4. IsDirectory(name) <=> "txindex" \in layout[datadir.dir].subs
  BY <1>3, IsDirectoryFacts DEF name
<1>5. changes = since => status = {"HAS_DATADIR", "HAS_INDEXES"} /\ "indexes" \in layout[datadir.dir].subs
  BY <1>2 DEF StillInv
<1> QED BY <1>3, <1>4, <1>5 DEF StillInv, Opened, StatusOf

LEMMA StillCoinstat ==
    ASSUME KindsInv, StillInv, CheckCoinstat
    PROVE  KindsInv' /\ StillInv'
<1> DEFINE name == <<datadir.dir, "coinstat">>
<1>1. /\ CheckOptional(name, "HAS_COINSTAT", "coinstat", "done", "done")
      /\ "coinstat" \in Keyed \ {"done"} /\ "done" \in Keyed
  BY DEF CheckCoinstat, Keyed
<1>2. pc = "coinstat"
  BY <1>1 DEF CheckOptional
<1> HIDE DEF name
<1>3. /\ KindsInv' /\ UNCHANGED <<layout, changes, path, since, datadir>>
      /\ datadir \in [dir : Dirs, slash : BOOLEAN] /\ datadir.dir \in Dirs
      /\ pc' = "done"
      /\ ~IsDirectory(name) => status' = status
      /\ changes = since => datadir = path \/ ~layout[path.dir].present
      /\ changes = since => "blocks" \in layout[datadir.dir].subs
  BY <1>1, StillOptional
<1>4. ~IsDirectory(name)
  BY <1>3, IsDirectoryFacts, LayoutFacts DEF name
<1>5. changes = since => status = StatusOf(datadir.dir)
  BY <1>2 DEF StillInv
<1>6. StatusOf(datadir.dir)' = StatusOf(datadir.dir)
  BY <1>3 DEF StatusOf
<1> QED BY <1>3, <1>4, <1>5, <1>6 DEF StillInv, Opened

LEMMA StillNext == IInv /\ KindsInv /\ StillInv /\ [Next]_vars => KindsInv' /\ StillInv'
<1> SUFFICES ASSUME IInv, KindsInv, StillInv, [Next]_vars PROVE KindsInv' /\ StillInv'
  OBVIOUS
<1>1. CASE UNCHANGED vars
  BY <1>1 DEF vars, disk, env, KindsInv, StillInv, StatusOf
<1> QED BY <1>1, StillChanges, StillStart, StillArgument, StillSearch, StillBlocks, StillLoad,
       StillIndexes, StillTxindex, StillCoinstat DEF Next

LEMMA StillInvariance == Spec => [](KindsInv /\ StillInv)
<1>1. Init => KindsInv /\ StillInv
  BY StillInit
<1>2. IInv /\ (KindsInv /\ StillInv) /\ [Next]_vars => (KindsInv /\ StillInv)'
  BY StillNext
<1> QED BY <1>1, <1>2, Invariance, PTL DEF Spec

----------------------------------------------------------------------------
(* A bit of gEnv.status stands for a directory this call has seen, however *)
(* the file system changes and whatever earlier calls found.               *)
THEOREM BitsAreTrue == Spec => []BitsWereSeen
<1>1. IInv => BitsWereSeen
  BY DEF IInv, BitsInv, BitsWereSeen, Keyed
<1> QED BY <1>1, Invariance, PTL

(* The argument, or the first default that was a directory, is used; the   *)
(* process ends only when there was none, or none with blocks.             *)
THEOREM FirstFoundIsUsed == Spec => []UsesFirstFound
<1>1. IInv => UsesFirstFound
  <2> SUFFICES ASSUME IInv PROVE UsesFirstFound
    OBVIOUS
  <2>1. pc = "done" => Found
    BY DEF IInv, SearchInv, Opened
  <2>2. ASSUME pc = "exit", datadir = NONE, NEW n \in DOMAIN DefaultDatadirs
        PROVE  {<<path.dir>>, <<ExpandUserDir(DefaultDatadirs[n])>>} \subseteq missed
    <3>1. SearchedTo(Len(DefaultDatadirs) + 1)
      BY <2>2 DEF IInv, SearchInv
    <3> QED BY <3>1, LenDefaults DEF SearchedTo
  <2>3. pc = "exit" /\ datadir # NONE => blocksDir \in missed
    BY DEF IInv, SearchInv
  <2> QED BY <2>1, <2>2, <2>3 DEF UsesFirstFound, Found, SearchedTo
<1> QED BY <1>1, Invariance, PTL

(* In a call during which the file system keeps still, every bit of the    *)
(* datadir and no other is set, and a good argument is used; for every     *)
(* table of defaults and whatever happened before the call.                *)
THEOREM StillCallsAreExact == Spec => []StillCallIsExact
<1>1. KindsInv /\ StillInv => StillCallIsExact
  <2> SUFFICES ASSUME KindsInv, StillInv, changes = since PROVE StillCallIsExact
    BY DEF StillCallIsExact
  <2>1. pc = "done" => datadir = path \/ ~layout[path.dir].present
    BY DEF StillInv, Opened
  <2>2. pc = "done" => path.dir \in Dirs
    BY DEF KindsInv
  <2>3. pc = "done" /\ "blocks" \in layout[path.dir].subs => layout[path.dir].present
    BY <2>2, LayoutFacts
  <2> QED BY <2>1, <2>3 DEF StillInv, StillCallIsExact
<1> QED BY <1>1, StillInvariance, PTL
=============================================================================
