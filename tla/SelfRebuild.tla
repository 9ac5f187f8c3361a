---------------------------- MODULE SelfRebuild ----------------------------
(***************************************************************************)
(* How the build tool keeps itself current (CBuilder.c: ManageRebuild,     *)
(* RebuildSelf, RunSelf, BuildDebugSelf and the shell script in the first  *)
(* lines of the file).  CBuilder compares the modification times, in whole *)
(* seconds, of CBuilder.c and ./CBuilder; when the source is newer it runs *)
(* cc and then, through sh, itself again.                                  *)
(*                                                                         *)
(* A file is a record of the version of the text it was made from and of   *)
(* its modification time; a file that does not exist is NoFile, whose time *)
(* is the 0 GetFileLastEditTime returns after a failed stat.  cc reads the *)
(* source when it starts and writes the executable when it ends, and the   *)
(* developer saves at any moment, with any modification time up to MaxSkew *)
(* seconds ahead (touch, cp -p, a file server with another clock).  A kill *)
(* of the builder ends cc too, or leaves it to finish on its own.          *)
(***************************************************************************)
EXTENDS Naturals

CONSTANTS MaxTime,    \* bound of the clock
          MaxEdits,   \* bound of the saves of CBuilder.c
          MaxSkew     \* how far ahead of the clock a file may be dated

ASSUME BuilderAssumption == MaxTime \in Nat \ {0} /\ MaxEdits \in Nat /\ MaxSkew \in Nat

VARIABLES now,      \* the clock, in seconds
          src,      \* CBuilder.c
          exe,      \* ./CBuilder
          image,    \* the version the running process was made from
          pc,       \* what the process does next
          seen,     \* CBuilder.c and raced when ManageRebuild looked at it
          unit,     \* the version cc has read
          caller,   \* who started cc
          dry,      \* gDryRun
          orphan,   \* the version read by a cc whose builder was killed, 0 when there is none
          raced,    \* history: ./CBuilder is of another version than CBuilder.c, and the last save
                    \* fell into the compilation or is not dated after ./CBuilder
          overtaken \* history: an orphan has ended since the process that compares was started

self == <<now, src, exe, image, pc, seen, unit, caller, dry, orphan, raced, overtaken>>

NoFile == [version |-> 0, time |-> 0]
Unseen == [version |-> 0, time |-> 0, raced |-> FALSE]
Files == [version : Nat, time : Nat]

(* ./CBuilder was made from the first CBuilder.c, one second after it was saved. *)
Init == /\ now = 2
        /\ src = [version |-> 1, time |-> 1]
        /\ exe = [version |-> 1, time |-> 2]
        /\ pc = "idle" /\ image = 0 /\ unit = 0 /\ caller = "manage"
        /\ seen = Unseen /\ dry = FALSE /\ raced = FALSE /\ orphan = 0 /\ overtaken = FALSE

-----------------------------------------------------------------------------
(* The process *)

(* What the process keeps in memory ends with it. *)
Exits ==
    pc' = "idle" /\ image' = 0 /\ unit' = 0 /\ caller' = "manage" /\ seen' = Unseen /\ dry' = FALSE /\ overtaken' = FALSE

Invoke(d) == /\ pc = "idle" /\ exe # NoFile
             /\ image' = exe.version /\ dry' = d /\ pc' = "source"
             /\ UNCHANGED <<now, src, exe, seen, unit, caller, orphan, raced, overtaken>>

(* sh CBuilder.c compiles the file without looking at any time. *)
RunScript == /\ pc = "idle"
             /\ caller' = "script" /\ dry' = FALSE /\ pc' = "cc"
             /\ UNCHANGED <<now, src, exe, image, seen, unit, orphan, raced, overtaken>>

StatSource == /\ pc = "source"
              /\ seen' = [version |-> src.version, time |-> src.time, raced |-> raced]
              /\ pc' = "exec"
              /\ UNCHANGED <<now, src, exe, image, unit, caller, dry, orphan, raced, overtaken>>

(* Mutant: a second of difference is tolerated. *)
SourceIsNewerBySeconds == seen.time > exe.time + 1

SourceIsNewer == seen.time > exe.time

(* In a dry run neither cc nor the new executable is run, and exit(0) follows. *)
StatExec == /\ pc = "exec"
            /\ IF SourceIsNewer /\ dry THEN Exits
               ELSE /\ pc' = IF SourceIsNewer THEN "cc" ELSE "rules"
                    /\ seen' = Unseen /\ overtaken' = FALSE
                    /\ UNCHANGED <<image, unit, caller, dry>>
            /\ UNCHANGED <<now, src, exe, orphan, raced>>

(* The rules self-rebuild and self-build-debug, which run cc whatever the times are. *)
RuleRebuilds(rule) == /\ pc = "rules"
                      /\ IF dry THEN UNCHANGED <<pc, caller>> ELSE pc' = "cc" /\ caller' = rule
                      /\ UNCHANGED <<now, src, exe, image, seen, unit, dry, orphan, raced, overtaken>>

StartCC == /\ pc = "cc"
           /\ unit' = src.version /\ pc' = "compiling"
           /\ UNCHANGED <<now, src, exe, image, seen, caller, dry, orphan, raced, overtaken>>

(* Mutant: cc is given another output name, and the old executable is run again. *)
OutputElsewhere == exe

Output == [version |-> unit, time |-> now]

Written(e) == exe' = e /\ raced' = (e.version # src.version)

(* RunSelf and the script start the new executable, whose process begins   *)
(* at ParseGlobalFlags; RunSelf lets sh read the words again, so that the  *)
(* new process may be a dry run.                                           *)
Restart(d) == /\ pc = "compiling" /\ caller \in {"manage", "script"}
              /\ Written(Output)
              /\ pc' = "source" /\ image' = exe'.version /\ dry' = d
              /\ unit' = 0 /\ caller' = "manage"
              /\ UNCHANGED <<now, src, seen, orphan, overtaken>>

(* No new process: fork fails, or sh makes no command of the words.  The   *)
(* failure is logged and exit(0) follows.                                  *)
NoRestart == /\ pc = "compiling" /\ caller \in {"manage", "script"}
             /\ Written(Output)
             /\ Exits
             /\ UNCHANGED <<now, src, orphan>>

(* The rule that ran cc goes on. *)
CCReturns == pc' = "rules" /\ unit' = 0 /\ caller' = "manage" /\ UNCHANGED <<image, seen, dry, overtaken>>

EndCC == /\ pc = "compiling" /\ caller \in {"self-rebuild", "self-build-debug"}
         /\ Written(Output)
         /\ CCReturns
         /\ UNCHANGED <<now, src, orphan>>

(* The outcomes of a cc that fails: the old executable is left, or none. *)
Leaves(e) == /\ exe' = e
             /\ raced' = (raced /\ e # NoFile)

(* RebuildSelf and the script exit; BuildDebugSelf does not look at the result. *)
CCFails == /\ pc = "compiling"
           /\ \E e \in {exe, NoFile} : Leaves(e)
           /\ IF caller = "self-build-debug"
                THEN CCReturns
                ELSE Exits
           /\ UNCHANGED <<now, src, orphan>>

CleanAll == /\ pc = "rules"
            /\ Leaves(NoFile)
            /\ UNCHANGED <<now, src, image, pc, seen, unit, caller, dry, orphan, overtaken>>

RulesEnd == /\ pc = "rules"
            /\ Exits
            /\ UNCHANGED <<now, src, exe, orphan, raced>>

Step == \/ StatSource \/ StatExec \/ StartCC \/ EndCC \/ NoRestart \/ CCFails \/ RulesEnd
        \/ \E d \in BOOLEAN : Restart(d)

-----------------------------------------------------------------------------
(* Its environment *)

Tick == /\ now < MaxTime
        /\ now' = now + 1
        /\ UNCHANGED <<src, exe, image, pc, seen, unit, caller, dry, orphan, raced, overtaken>>

Save(t) == /\ src.version <= MaxEdits
           /\ src' = [version |-> src.version + 1, time |-> t]
           /\ raced' = (exe # NoFile /\ t <= exe.time)
           /\ UNCHANGED <<now, exe, image, pc, seen, unit, caller, dry, orphan, overtaken>>

SaveSource == \E t \in 1..MaxTime : t <= now + MaxSkew /\ Save(t)

(* One orphan at a time. *)
Kill == /\ pc # "idle"
        /\ Exits
        /\ \/ UNCHANGED orphan /\ \E e \in {exe, NoFile} : (e = exe \/ pc = "compiling") /\ Leaves(e)
           \/ pc = "compiling" /\ orphan = 0 /\ orphan' = unit /\ Leaves(exe)
        /\ UNCHANGED <<now, src>>

OrphanEnds == /\ orphan # 0 /\ orphan' = 0
              /\ \/ Written([version |-> orphan, time |-> now])
                 \/ \E e \in {exe, NoFile} : Leaves(e)
              /\ overtaken' = (pc \in {"source", "exec"})
              /\ UNCHANGED <<now, src, image, pc, seen, unit, caller, dry>>

Next == \/ \E d \in BOOLEAN : Invoke(d)
        \/ RunScript
        \/ Step
        \/ \E rule \in {"self-rebuild", "self-build-debug"} : RuleRebuilds(rule)
        \/ CleanAll
        \/ Tick \/ SaveSource \/ Kill \/ OrphanEnds

Spec == Init /\ [][Next]_self

-----------------------------------------------------------------------------

(* No rule is run by a builder made from another CBuilder.c than the one   *)
(* ManageRebuild looked at, unless that text was saved while cc was        *)
(* running or with a modification time that is not later than that of the  *)
(* executable (the saves a comparison of whole seconds cannot see), or a   *)
(* cc left by a killed builder has replaced the executable of the process  *)
(* that compares.                                                          *)
CurrentOrMasked ==
    [][(pc = "exec" /\ pc' = "rules") => (image = seen.version \/ seen.raced \/ overtaken)]_self
=============================================================================
