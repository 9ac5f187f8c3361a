------------------------------- MODULE Datadir -------------------------------
(***************************************************************************)
(* ParseCoreDatadir (src/parser.c) as InitMLBTCC calls it: gEnv is zeroed, *)
(* the datadir is the argument or the first default directory that exists, *)
(* its blocks directory must exist, the XOR key is read, and a bit of      *)
(* gEnv.status is set for every optional directory found.                  *)
(*                                                                         *)
(* Every IsDirectory is a step of its own, and the file system may change  *)
(* between two of them: bitcoind creates its directories when it starts,   *)
(* and volumes are mounted and unmounted.  A directory is <<datadir>> or   *)
(* <<datadir, name>>; a datadir is given with or without the slash that    *)
(* the "%sblocks/" of the code relies on.                                  *)
(***************************************************************************)
EXTENDS Naturals, Sequences

CONSTANTS
    Dirs,           \* the datadirs of the machine
    DefaultDatadirs,\* defaultDatadirs: [perUser, literal, home] for each entry; perUser
                    \* where "$USER" occurs, literal is the directory of that name
    Keys,           \* the non-zero XOR keys
    ZERO,           \* the zero key
    ABSENT, SHORT,  \* no xor.dat; one of less than 8 bytes
    NONE,           \* USER is not set; no datadir yet
    Users,          \* values of USER
    Layouts,        \* what a datadir may look like
    MaxInit,        \* bound: calls of InitMLBTCC
    MaxChanges      \* bound: changes of the file system

SubDirs == {"blocks", "indexes", "txindex", "coinstats"}
XorFiles == Keys \cup {ABSENT, SHORT}

ASSUME LayoutsAssumption ==
    /\ Layouts \subseteq [present : BOOLEAN, subs : SUBSET SubDirs, xor : XorFiles]
    /\ \A l \in Layouts :
         /\ l.subs # {} => l.present
         /\ l.xor # ABSENT => "blocks" \in l.subs
         /\ l.subs \cap {"txindex", "coinstats"} # {} => "indexes" \in l.subs
ASSUME DefaultsAssumption ==
    DefaultDatadirs \in Seq([perUser : BOOLEAN, literal : Dirs \cup {NONE}, home : [Users -> Dirs]])
ASSUME NoneAssumption == NONE \notin [dir : Dirs, slash : BOOLEAN]
ASSUME KeysAssumption == {ZERO, ABSENT, SHORT} \cap Keys = {}
ASSUME BoundsAssumption == MaxInit \in Nat /\ MaxChanges \in Nat

VARIABLES
    layout,         \* the file system: datadir -> layout
    rootXor,        \* the file /blocks/xor.dat
    user,           \* getenv("USER")
    changes,        \* changes of the file system so far
    pc, inits,      \* where ParseCoreDatadir is, and in which call
    path,           \* the argument of InitMLBTCC
    next,           \* i of SearchDefaultDatadirs
    datadir,        \* the local variable
    dataDir, blocksDir, indexesDir, status, xorKey,     \* members of gEnv
    seen, missed,   \* history: what IsDirectory answered yes and no to in this call
    since           \* history: the changes of the file system before this call

disk == <<layout, rootXor, user, changes>>
env == <<dataDir, blocksDir, indexesDir, status, xorKey>>
vars == <<disk, pc, inits, path, next, datadir, env, seen, missed, since>>

----------------------------------------------------------------------------
(* The file system. *)

(* The directories that datadir d brings. *)
DirsOf(d) ==
    (IF layout[d].present THEN {<<d>>} ELSE {}) \cup {<<d, n>> : n \in layout[d].subs}

IsDirectory(name) == \E d \in Dirs : name \in DirsOf(d)

Changes ==
    /\ changes < MaxChanges
    /\ \E d \in Dirs, l \in Layouts : l # layout[d] /\ layout' = [layout EXCEPT ![d] = l]
    /\ changes' = changes + 1
    /\ UNCHANGED <<rootXor, user, pc, inits, path, next, datadir, env, seen, missed, since>>

(* One call of IsDirectory, and where the code goes on. *)
Stat(name, yes, no) ==
    IF IsDirectory(name)
    THEN pc' = yes /\ seen' = seen \cup {name} /\ UNCHANGED missed
    ELSE pc' = no /\ missed' = missed \cup {name} /\ UNCHANGED seen

----------------------------------------------------------------------------
(* Mutant: the status bits survive a second call. *)
ZeroEnvButStatus ==
    /\ dataDir' = NONE /\ blocksDir' = NONE /\ indexesDir' = NONE
    /\ xorKey' = ZERO /\ UNCHANGED status

(* memset(&gEnv, 0, sizeof(gEnv)) *)
ZeroEnv ==
    /\ dataDir' = NONE /\ blocksDir' = NONE /\ indexesDir' = NONE
    /\ status' = {} /\ xorKey' = ZERO

InitMLBTCC(d, slash) ==
    /\ pc \in {"idle", "done"} /\ inits < MaxInit
    /\ inits' = inits + 1
    /\ ZeroEnv
    /\ path' = [dir |-> d, slash |-> slash]
    /\ pc' = "argument"
    /\ next' = 1 /\ datadir' = NONE
    /\ seen' = {} /\ missed' = {} /\ since' = changes
    /\ UNCHANGED disk

(* The argument, when it is a directory; SearchDefaultDatadirs otherwise.  *)
TryArgument ==
    /\ pc = "argument"
    /\ Stat(<<path.dir>>, "blocks", "search")
    /\ datadir' = IF IsDirectory(<<path.dir>>) THEN path ELSE NONE
    /\ UNCHANGED <<disk, inits, path, next, env, since>>

(* The name stays as it is without the variable USER. *)
ExpandUserDir(e) == IF e.perUser /\ user # NONE THEN e.home[user] ELSE e.literal

(* Mutant: the table is searched from its end. *)
CandidateFromEnd(i) == ExpandUserDir(DefaultDatadirs[Len(DefaultDatadirs) + 1 - i])

(* The directory that round i of SearchDefaultDatadirs tries. *)
Candidate(i) == ExpandUserDir(DefaultDatadirs[i])

(* The loop of SearchDefaultDatadirs is over: exit(1). *)
SearchFails == next > Len(DefaultDatadirs)

SearchStep ==
    /\ pc = "search"
    /\ IF SearchFails
       THEN pc' = "exit" /\ UNCHANGED <<next, datadir, seen, missed>>
       ELSE LET name == <<Candidate(next)>> IN
            /\ Stat(name, "blocks", "search")
            /\ next' = next + 1
            /\ datadir' = IF IsDirectory(name) THEN [dir |-> name[1], slash |-> TRUE] ELSE NONE
    /\ UNCHANGED <<disk, inits, path, env, since>>

(* snprintf(.., "%s<name>/", datadir): without a slash at the end of       *)
(* datadir the name is glued to it, and names another directory.           *)
Sub(dd, name) == IF dd.slash THEN <<dd.dir, name>> ELSE <<dd.dir, "glued", name>>

(* gEnv.blocksDir and gEnv.indexesDir are set, gEnv.dataDir is not: the    *)
(* call of strncpy is inside the comment.  exit(1) without a blocks        *)
(* directory.                                                              *)
CheckBlocksDir ==
    /\ pc = "blocks"
    /\ blocksDir' = Sub(datadir, "blocks")
    /\ indexesDir' = Sub(datadir, "indexes")
    /\ Stat(blocksDir', "xorkey", "exit")
    /\ UNCHANGED <<disk, inits, path, next, datadir, dataDir, status, xorKey, since>>

(* "%s/blocks/xor.dat": at the root of the file system while gEnv.dataDir  *)
(* is the empty string.                                                    *)
XorFile == IF dataDir = NONE THEN rootXor ELSE layout[dataDir.dir].xor

(* gEnv.xorKey after LoadXorKey: the zero key without a file of 8 bytes.   *)
KeyRead(f) == IF f \in {ABSENT, SHORT} THEN ZERO ELSE f

LoadXorKey ==
    /\ pc = "xorkey"
    /\ xorKey' = KeyRead(XorFile)
    /\ status' = status \cup {"HAS_DATADIR"}
    /\ pc' = "indexes"
    /\ UNCHANGED <<disk, inits, path, next, datadir, dataDir, blocksDir, indexesDir, seen, missed, since>>

(* The three IsDirectory of optional directories, each with its bit. *)
CheckOptional(name, bit, here, yes, no) ==
    /\ pc = here
    /\ Stat(name, yes, no)
    /\ status' = status \cup (IF IsDirectory(name) THEN {bit} ELSE {})
    /\ UNCHANGED <<disk, inits, path, next, datadir, dataDir, blocksDir, indexesDir, xorKey, since>>

(* Mutant: the tests of txindex and coinstat are behind an else. *)
CheckIndexesDirElse == CheckOptional(indexesDir, "HAS_INDEXES", "indexes", "done", "txindex")

CheckIndexesDir == CheckOptional(indexesDir, "HAS_INDEXES", "indexes", "txindex", "done")

CheckTxindex == CheckOptional(<<datadir.dir, "txindex">>, "HAS_TXINDEX", "txindex", "coinstat", "coinstat")

(* The directory that doc/structure.md calls coinstats. *)
CheckCoinstat == CheckOptional(<<datadir.dir, "coinstat">>, "HAS_COINSTAT", "coinstat", "done", "done")

Next ==
    \/ Changes
    \/ \E d \in Dirs, slash \in BOOLEAN : InitMLBTCC(d, slash)
    \/ TryArgument \/ SearchStep
    \/ CheckBlocksDir \/ LoadXorKey \/ CheckIndexesDir \/ CheckTxindex \/ CheckCoinstat

Init ==
    /\ layout \in [Dirs -> Layouts]
    /\ rootXor \in XorFiles
    /\ user \in Users \cup {NONE}
    /\ changes = 0
    /\ pc = "idle" /\ inits = 0
    /\ path = NONE /\ next = 1 /\ datadir = NONE
    /\ dataDir = NONE /\ blocksDir = NONE /\ indexesDir = NONE
    /\ status = {} /\ xorKey = ZERO
    /\ seen = {} /\ missed = {} /\ since = 0

Spec == Init /\ [][Next]_vars

----------------------------------------------------------------------------
(* Properties. *)

Names == UNION {{<<d>>} \cup ({d} \X (SubDirs \cup {"coinstat"})) \cup ({d} \X {"glued"} \X SubDirs) :
                d \in Dirs \cup {NONE}}

(* The directory that each bit of gEnv.status stands for. *)
DirOfBit(bit) ==
    CASE bit = "HAS_DATADIR" -> Sub(datadir, "blocks")
      [] bit = "HAS_INDEXES" -> Sub(datadir, "indexes")
      [] bit = "HAS_TXINDEX" -> <<datadir.dir, "txindex">>
      [] bit = "HAS_COINSTAT" -> <<datadir.dir, "coinstat">>

(* After InitMLBTCC, a bit of gEnv.status stands for a directory of the    *)
(* datadir in use that was seen by this call, not by an earlier one with   *)
(* another path, however the file system changed meanwhile.                *)
BitsWereSeen ==
    pc = "done" => "HAS_DATADIR" \in status /\ \A bit \in status : DirOfBit(bit) \in seen

(* The datadir in use is the argument or, when that was not a directory,   *)
(* the first default that was one; and the process ends only when no       *)
(* candidate was a directory, or when the one found had no blocks.         *)
UsesFirstFound ==
    /\ pc = "done" =>
         /\ <<datadir.dir>> \in seen
         /\ datadir = path \/
              /\ <<path.dir>> \in missed
              /\ \E i \in DOMAIN DefaultDatadirs :
                   /\ datadir = [dir |-> ExpandUserDir(DefaultDatadirs[i]), slash |-> TRUE]
                   /\ \A j \in 1..(i - 1) : <<ExpandUserDir(DefaultDatadirs[j])>> \in missed
    /\ pc = "exit" =>
         IF datadir = NONE
         THEN \A e \in {DefaultDatadirs[i] : i \in DOMAIN DefaultDatadirs} :
                {<<path.dir>>, <<ExpandUserDir(e)>>} \subseteq missed
         ELSE blocksDir \in missed

(* The bits a datadir deserves.  bitcoind names the last directory         *)
(* coinstats, so that the code never finds it.                             *)
StatusOf(d) ==
    {"HAS_DATADIR"}
      \cup (IF "indexes" \in layout[d].subs THEN {"HAS_INDEXES"} ELSE {})
      \cup (IF "txindex" \in layout[d].subs THEN {"HAS_TXINDEX"} ELSE {})

(* When the file system keeps still during the call, gEnv.status has every *)
(* bit of the datadir in use and no other, whatever earlier calls with     *)
(* other paths found; and an argument that ends in a slash and has its     *)
(* blocks directory is used, not refused.  (Without the slash it is        *)
(* refused: "%sblocks/" is then a name that does not exist.)               *)
StillCallIsExact ==
    changes = since =>
      /\ pc = "done" => status = StatusOf(datadir.dir)
      /\ pc \in {"done", "exit"} /\ path.slash /\ "blocks" \in layout[path.dir].subs =>
           pc = "done" /\ datadir = path

(* "Set global environment strncpy(gEnv.dataDir, datadir, ..)" (a comment  *)
(* of ParseCoreDatadir): with gEnv.dataDir set, LoadXorKey(gEnv.dataDir)   *)
(* reads the key of the datadir in use, when the file system is still and  *)
(* has no /blocks/xor.dat.                                                 *)
KeyIsTheDatadirs ==
    pc = "done" /\ changes = 0 /\ rootXor = ABSENT => xorKey = KeyRead(layout[datadir.dir].xor)
=============================================================================
