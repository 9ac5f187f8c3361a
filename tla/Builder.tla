------------------------------- MODULE Builder -------------------------------
(***************************************************************************)
(* The rules of the build tool (CBuilder.c) on top of SelfRebuild: how a   *)
(* command line is split into rules, and what the rules do to the objects  *)
(* in build/, the archive, the dynamic library and the test program while  *)
(* the developer saves and deletes sources, commands fail and the process  *)
(* is killed.  A rule is the sequence of calls its function makes; each    *)
(* call is one action.  An object, and what is made of objects, is the     *)
(* version of the source and the set of flags it was compiled with.        *)
(***************************************************************************)
EXTENDS SelfRebuild, SequencesExt

CONSTANTS Vendor, Own,    \* src/extern/sha256/*.c and src/*.c
          CommandLines,   \* what is typed behind ./CBuilder
          Plain,          \* words without blanks and characters that sh takes for its own
          Shell,          \* what sh may make of the words of a command line joined with blanks
          MaxRuns,        \* bound of the invocations
          MaxChanges      \* bound of the changes to the sources

(* The command lines that can occur. *)
Lines == DOMAIN Shell

ASSUME CommandLinesAssumption ==
    /\ CommandLines \cup {<<>>} \subseteq Lines /\ Lines \subseteq Seq(STRING)
    /\ Shell \in [Lines -> SUBSET Lines]
    /\ \A words \in Lines : Range(words) \subseteq Plain => Shell[words] = {words}

Sources == Vendor \cup Own
None == <<>>

VARIABLES tree,           \* the sources: their versions, 0 when there is no such file
          obj, dir,       \* the objects in build/, and whether build/ exists
          lib, dylib,     \* mlbtcc.a and mlbtcc.dylib: their members
          tests,          \* mlbtcc-tests: the members it was linked with
          leveldb,        \* libleveldb.a exists
          argv, index,    \* the words, and where the loop of ManageRules is, 0 when it begins
          args,           \* the arguments of the current rule
          cflags,         \* flags of the current build
          todo, work,     \* the calls left of the current rule, and the files left to compile
          typed, line,    \* history: the words given to the first process, and to this one
          again,          \* history: this process was started by RunSelf
          ran,            \* history: the rules run
          failed,         \* history: a command or removal of this invocation failed
          changed,        \* history: the sources changed since the invocation began
          built,          \* history: what this invocation has cleaned and built
          runs, changes   \* counters of the bounds

given == <<argv, index, typed, line, again>>
process == <<given, args, cflags, todo, work, ran, built>>
disk == <<obj, dir, lib, dylib, tests, leveldb>>
counters == <<runs, changes>>
vars == <<self, process, disk, tree, failed, changed, counters>>

Empty == [f \in Sources |-> None]
Present(a) == {f \in Sources : a[f] # None}

BInit ==
    /\ Init
    /\ tree = [f \in Sources |-> 1]
    /\ obj = Empty /\ lib = Empty /\ dylib = Empty /\ tests = Empty
    /\ dir = FALSE /\ leveldb = FALSE
    /\ argv = <<>> /\ index = 0 /\ args = <<>> /\ cflags = {} /\ todo = <<>> /\ work = {}
    /\ typed = <<>> /\ line = <<>> /\ again = FALSE /\ ran = <<>>
    /\ failed = FALSE /\ changed = FALSE /\ built = {}
    /\ runs = 0 /\ changes = 0

-----------------------------------------------------------------------------
(* The command line *)

PROGRAM == "./CBuilder"
NULL == "NULL"
gRules == {"build", "exec", "clean", "build-tests", "help", "self-rebuild", "self-build-debug"}
IsRuleName(word) == word \in gRules

(* The words in front of readIndex that are kept. *)
ParseGlobalFlags(words) ==
    LET kept[readIndex \in 0..Len(words)] ==
          IF readIndex = 0 THEN <<>>
          ELSE IF words[readIndex] = "--dry-run" THEN kept[readIndex - 1]
          ELSE Append(kept[readIndex - 1], words[readIndex])
    IN  kept[Len(words)]

HasArg(a, target) == Contains(a, target)

(* HasArg passes the NULL that ends an array to strcmp when argc counts it *)
(* and the word it looks for is not in front of it.                        *)
HasArgCrashes(a, target) == ~Contains(a, target) /\ Contains(a, NULL)

(* Index of the rule behind the one at index at; the first word has index 0. *)
NextRuleIndex(at) == at + SelectInSeq(SubSeq(argv, at + 2, Len(argv)) \o <<"build">>, IsRuleName)

(* Mutant: the loop's own increment is forgotten. *)
LoopIndexSkips(nextRuleIndex) == nextRuleIndex + 1

(* i = nextRuleIndex - 1, and the loop's increment. *)
LoopIndex(nextRuleIndex) == (nextRuleIndex - 1) + 1

(* The words as the process gets them, without --dry-run. *)
Started(words) == line' = ParseGlobalFlags(words) /\ argv' = <<PROGRAM>> \o line'

Begin(words) ==
    /\ runs < MaxRuns /\ runs' = runs + 1
    /\ Started(words) /\ typed' = line'
    /\ UNCHANGED <<index, args, cflags, todo, work, again, ran, built, failed, changed, disk, tree, changes>>

BInvoke == \E words \in CommandLines : Begin(words) /\ Invoke(Contains(words, "--dry-run"))

BScript == Begin(<<>>) /\ RunScript

(* The process is gone: only its effects stay. *)
Gone ==
    /\ argv' = <<>> /\ index' = 0 /\ args' = <<>> /\ cflags' = {} /\ todo' = <<>> /\ work' = {}
    /\ typed' = <<>> /\ line' = <<>> /\ again' = FALSE /\ ran' = <<>>
    /\ failed' = FALSE /\ changed' = FALSE /\ built' = {}
    /\ UNCHANGED <<disk, tree, counters>>

-----------------------------------------------------------------------------
(* Steps of SelfRebuild within the builder *)

BManage == (StatSource \/ StatExec \/ StartCC) /\ (IF pc' = "idle" THEN Gone ELSE UNCHANGED <<process, disk, tree, failed, changed, counters>>)

(* RunSelf joins the words behind the program's name with blanks, and sh   *)
(* takes the command apart again.                                          *)
BRestart ==
    /\ pc = "compiling"
    /\ \E words \in Shell[Tail(argv)] : Restart(Contains(words, "--dry-run")) /\ Started(words)
    /\ again' = TRUE
    /\ UNCHANGED <<index, args, cflags, todo, work, typed, ran, built, disk, tree, failed, changed, counters>>

BEndCC ==
    /\ EndCC \/ NoRestart \/ CCFails
    /\ IF pc' = "idle" THEN Gone
       ELSE /\ failed' = (failed \/ CCFails)
            /\ UNCHANGED <<process, disk, tree, changed, counters>>

BKill == Kill /\ Gone

(* main returns 0, whatever failed. *)
Done == pc = "rules" /\ todo = <<>> /\ index >= Len(argv)

RulesDone == Done /\ RulesEnd /\ Gone

-----------------------------------------------------------------------------
(* ManageRules *)

(* The calls of a rule's function, in order; help prints and exec runs the tests. *)
Calls(rule) ==
    CASE rule = "build" -> <<"leveldb", "library", "objects">>
      [] rule = "build-tests" -> <<"leveldb", "library", "objects", "tests">>
      [] rule = "clean" -> <<"clean">>
      [] rule \in {"self-rebuild", "self-build-debug"} -> <<rule>>
      [] OTHER -> <<>>

(* BuildTests calls BuildRule with arguments of its own; in a debug build  *)
(* the count includes the NULL at the end of the array.                    *)
Arguments(rule, a) ==
    IF rule # "build-tests" THEN a
    ELSE IF HasArg(a, "debug") THEN <<"static", "debug", "no-obj", NULL>>
    ELSE <<"static", "no-obj", "release">>

Execute(rule, a) ==
    /\ todo' = Calls(rule)
    /\ args' = Arguments(rule, a)
    /\ ran' = Append(ran, <<rule>> \o a)

(* Without a rule the first one gets argv itself, which holds the program's name. *)
FirstRule ==
    /\ pc = "rules" /\ todo = <<>> /\ index = 0
    /\ index' = 1
    /\ IF Len(argv) = 1 THEN Execute("build", argv) ELSE UNCHANGED <<todo, args, ran>>
    /\ UNCHANGED <<self, argv, typed, line, again, cflags, work, built, disk, tree, failed, changed, counters>>

ExecuteRule ==
    /\ pc = "rules" /\ todo = <<>> /\ index > 0 /\ index < Len(argv)
    /\ LET nextRuleIndex == NextRuleIndex(index) IN
         /\ Execute(argv[index + 1], SubSeq(argv, index + 2, nextRuleIndex))
         /\ index' = LoopIndex(nextRuleIndex)
    /\ UNCHANGED <<self, argv, typed, line, again, cflags, work, built, disk, tree, failed, changed, counters>>

-----------------------------------------------------------------------------
(* The calls *)

Call(name) == pc = "rules" /\ todo # <<>> /\ Head(todo) = name

Returns == todo' = Tail(todo) /\ UNCHANGED <<self, given, args, ran, tree, changed, counters>>

(* ExecuteCommand: nothing happens in a dry run, and a failure is at most logged. *)
Fails == ~dry /\ failed' = TRUE
Succeeds == ~dry /\ UNCHANGED failed
Skipped == dry /\ UNCHANGED failed

BuildLevelDB ==
    /\ Call("leveldb")
    /\ ~(leveldb /\ HasArgCrashes(args, "force"))
    /\ IF leveldb /\ ~HasArg(args, "force") THEN UNCHANGED <<leveldb, failed>>
       ELSE \/ Succeeds /\ leveldb' = TRUE
            \/ (Fails \/ Skipped) /\ UNCHANGED leveldb
    /\ Returns
    /\ UNCHANGED <<obj, dir, lib, dylib, tests, cflags, work, built>>

Static == HasArg(args, "static") \/ args = <<>>

(* BuildStatic and BuildDynamic; neither when the arguments name none of them. *)
BuildLibrary ==
    /\ Call("library")
    /\ ~HasArgCrashes(args, "release")
    /\ cflags' = {"release", "debug"} \cap Range(args)
    /\ todo' = (IF Static THEN <<"vendor", "own", "ar">>
                ELSE IF HasArg(args, "dynamic") THEN <<"vendor", "own", "link">>
                ELSE <<>>) \o Tail(todo)
    /\ built' = built \ {"lib", "dylib"}
    /\ UNCHANGED <<self, given, args, work, ran, disk, tree, failed, changed, counters>>

(* strcmp(NULL, ...) *)
Crash ==
    /\ \/ Call("leveldb") /\ leveldb /\ HasArgCrashes(args, "force")
       \/ Call("library") /\ HasArgCrashes(args, "release")
    /\ RulesEnd /\ Gone

(* CompileFiles lists the directory once and creates build/, in a dry run too. *)
CollectFiles(name, files) ==
    /\ Call(name)
    /\ work' = {f \in files : tree[f] # 0}
    /\ dir' = TRUE
    /\ todo' = (IF work' = {} THEN <<>> ELSE <<"compile">>) \o Tail(todo)
    /\ UNCHANGED <<self, given, args, cflags, ran, built, obj, lib, dylib, tests, leveldb, tree, failed, changed, counters>>

(* Mutant: commands that only make objects are run in a dry run. *)
CompiledAlways(f) == tree[f] # 0 /\ UNCHANGED failed /\ obj' = [obj EXCEPT ![f] = <<tree[f], cflags>>]

(* Mutant: an object that exists is not compiled again. *)
CompiledOnce(f) ==
    Succeeds /\ tree[f] # 0 /\ obj' = IF obj[f] # None THEN obj ELSE [obj EXCEPT ![f] = <<tree[f], cflags>>]

Compiled(f) == Succeeds /\ tree[f] # 0 /\ obj' = [obj EXCEPT ![f] = <<tree[f], cflags>>]

CompileFile(f) ==
    /\ Call("compile") /\ f \in work
    /\ work' = work \ {f}
    /\ todo' = IF work' = {} THEN Tail(todo) ELSE todo
    /\ \/ Compiled(f)
       \/ Fails /\ \E o \in {obj[f], None} : obj' = [obj EXCEPT ![f] = o]
       \/ Skipped /\ UNCHANGED obj
    /\ UNCHANGED <<self, given, args, cflags, ran, built, dir, lib, dylib, tests, leveldb, tree, changed, counters>>

(* ar rcs replaces and adds members, and never takes one out. *)
Archive ==
    /\ Call("ar")
    /\ \/ Succeeds /\ Present(obj) # {} /\ built' = built \cup {"lib"}
          /\ lib' = [f \in Sources |-> IF obj[f] # None THEN obj[f] ELSE lib[f]]
       \/ (Fails \/ Skipped) /\ UNCHANGED <<lib, built>>
    /\ Returns
    /\ UNCHANGED <<obj, dir, dylib, tests, leveldb, cflags, work>>

LinkFiles ==
    /\ Call("link")
    /\ \/ Present(obj) = {} /\ UNCHANGED <<dylib, built, failed>>
       \/ Present(obj) # {} /\ Succeeds /\ dylib' = obj /\ built' = built \cup {"dylib"}
       \/ Present(obj) # {} /\ Fails /\ dylib' \in {dylib, Empty} /\ UNCHANGED built
       \/ Present(obj) # {} /\ Skipped /\ UNCHANGED <<dylib, built>>
    /\ Returns
    /\ UNCHANGED <<obj, dir, lib, tests, leveldb, cflags, work>>

(* RemoveDirectory stops at the first file it cannot remove, and may fail  *)
(* to remove the empty directory; a dry run does not stop it.              *)
RemoveDirectory ==
    \/ obj' = Empty /\ dir' = FALSE /\ UNCHANGED failed
    \/ /\ dir /\ UNCHANGED dir /\ failed' = TRUE
       /\ \E left \in SUBSET Present(obj) : obj' = [f \in Sources |-> IF f \in left THEN obj[f] ELSE None]

RemoveObjects ==
    /\ Call("objects")
    /\ IF HasArg(args, "no-obj") THEN RemoveDirectory ELSE UNCHANGED <<obj, dir, failed>>
    /\ Returns
    /\ UNCHANGED <<lib, dylib, tests, leveldb, cflags, work, built>>

LinkTests ==
    /\ Call("tests")
    /\ \/ Succeeds /\ Present(lib) # {} /\ tests' = lib /\ built' = built \cup {"tests"}
       \/ Fails /\ tests' \in {tests, Empty} /\ UNCHANGED built
       \/ Skipped /\ UNCHANGED <<tests, built>>
    /\ Returns
    /\ UNCHANGED <<obj, dir, lib, dylib, leveldb, cflags, work>>

(* Mutant: the archive is left out. *)
CleanedAllButArchive == lib' = lib /\ dylib' = Empty /\ tests' = Empty

Cleaned == lib' = Empty /\ dylib' = Empty /\ tests' = Empty

Clean ==
    /\ Call("clean")
    /\ Cleaned /\ RemoveDirectory
    /\ built' = {"clean"}
    /\ IF HasArg(args, "all") THEN CleanAll ELSE UNCHANGED self
    /\ todo' = Tail(todo)
    /\ UNCHANGED <<given, args, cflags, work, ran, leveldb, tree, changed, counters>>

SelfRule ==
    /\ \E rule \in {"self-rebuild", "self-build-debug"} : Call(rule) /\ RuleRebuilds(rule)
    /\ todo' = Tail(todo)
    /\ UNCHANGED <<given, args, cflags, work, ran, built, disk, tree, failed, changed, counters>>

-----------------------------------------------------------------------------
(* The developer *)

(* ManageRebuild does not look at the sources of the library. *)
ChangeFile(f) ==
    /\ pc \in {"idle", "rules"}
    /\ changes < MaxChanges /\ changes' = changes + 1
    /\ changed' = (pc # "idle")
    /\ \E v \in {0, changes + 2} : v # tree[f] /\ tree' = [tree EXCEPT ![f] = v]
    /\ UNCHANGED <<self, process, disk, failed, runs>>

Others == <<process, disk, tree, failed, changed>>

(* Only the files of the builder depend on the clock, and the rules do not *)
(* look at them: time passes and CBuilder.c is saved while no rule runs.   *)
BTick == pc # "rules" /\ Tick /\ UNCHANGED <<Others, counters>>

BSave ==
    /\ pc # "rules" /\ changes < MaxChanges /\ changes' = changes + 1
    /\ SaveSource /\ UNCHANGED <<Others, runs>>

(* The same of an orphaned cc. *)
BOrphanEnds == pc # "rules" /\ OrphanEnds /\ UNCHANGED <<Others, counters>>

BStep ==
    \/ BManage \/ BRestart \/ BEndCC \/ RulesDone \/ FirstRule \/ ExecuteRule \/ Crash
    \/ BuildLevelDB \/ BuildLibrary \/ CollectFiles("vendor", Vendor) \/ CollectFiles("own", Own)
    \/ \E f \in Sources : CompileFile(f)
    \/ Archive \/ LinkFiles \/ RemoveObjects \/ LinkTests \/ Clean \/ SelfRule

BNext ==
    \/ BInvoke \/ BScript \/ BStep \/ BKill
    \/ \E f \in Sources : ChangeFile(f)
    \/ BTick \/ BSave \/ BOrphanEnds

(* The process goes on by itself, and time passes. *)
BSpec == BInit /\ [][BNext]_vars /\ WF_vars(BStep) /\ WF_vars(BTick)

----------------------------------------------------------------------------
Current(a, f) == a[f] = <<tree[f], cflags>>

(* When an invocation whose last library was made by ar ends with no       *)
(* failure and no change of the sources, the archive holds every source as *)
(* it is, compiled with the flags asked for, whatever failed, interrupted  *)
(* or differently flagged builds left in build/ and in the archive before; *)
(* and if the invocation cleaned before that, it holds nothing else (ar    *)
(* itself never takes out the member of a source that was deleted).        *)
ArchiveIsCurrent ==
    Done /\ "lib" \in built /\ ~failed /\ ~changed =>
        \A f \in Sources : IF tree[f] # 0 THEN Current(lib, f) ELSE "clean" \in built => lib[f] = None

(* The dynamic library, when it was the last library made, holds every     *)
(* source as it is with the flags asked for, and what build-tests links is *)
(* always the release build of every source, whatever rules follow it (of  *)
(* deleted sources, whose objects build/ may still hold, nothing is said); *)
(* and build-tests leaves no build/ behind.                                *)
LinkedIsCurrent ==
    Done /\ ~failed =>
        /\ ran # <<>> /\ Head(Last(ran)) = "build-tests" => ~dir
        /\ ~changed => \A f \in Sources : tree[f] # 0 =>
             /\ "tests" \in built => tests[f] = <<tree[f], {"release"}>>
             /\ "dylib" \in built => Current(dylib, f)

(* ManageRules runs the words its process was given, each once and in      *)
(* order, and takes no rule's name for an argument.  They are the words    *)
(* that were typed unless the builder has rebuilt and run itself and one   *)
(* of them has a blank or another character that sh takes for its own:     *)
(* such words sh may split, drop and expand (RunSelf), into other rules    *)
(* and even into --dry-run.                                                *)
EveryWordOnce ==
    pc = "rules" =>
        /\ ~again \/ Range(typed) \subseteq Plain => line = typed
        /\ line # <<>> => FlattenSeq(ran) \o SubSeq(argv, IF index = 0 THEN 2 ELSE index + 1, Len(argv)) = line
        /\ \A k \in DOMAIN ran : \A j \in 2..Len(ran[k]) : ~IsRuleName(ran[k][j])

(* The rules that remove files: clean, build-tests and those given no-obj. *)
Removing == ran # <<>> /\ (Head(Last(ran)) \in {"clean", "build-tests"} \/ Contains(Last(ran), "no-obj"))

(* A dry run compiles, archives and links nothing, and the builder is not  *)
(* compiled.  It does leave traces: it makes build/, which is then empty,  *)
(* and removals are not held back (clean all removes the builder too), but *)
(* only the rules that are there to remove do.                             *)
DryRunMakesNothing ==
    [][dry /\ dry' =>
        /\ exe' \in {exe, NoFile} \/ orphan' # orphan
        /\ \A f \in Sources : /\ obj'[f] \in {obj[f], None} /\ lib'[f] \in {lib[f], None}
                              /\ dylib'[f] \in {dylib[f], None} /\ tests'[f] \in {tests[f], None}
        /\ leveldb' = leveldb
        /\ dir' /\ ~dir => Present(obj') = {}
        /\ ~Removing => (exe' = exe \/ orphan' # orphan) /\ UNCHANGED <<obj, lib, dylib, tests>> /\ (dir => dir')]_vars

(* Every invocation ends.  A CBuilder.c dated ahead of the clock is newer  *)
(* than every executable made from it: the builder rebuilds and starts     *)
(* itself again and again, and only the clock ends that.                   *)
Finishes == pc # "idle" ~> pc = "idle"
=============================================================================
