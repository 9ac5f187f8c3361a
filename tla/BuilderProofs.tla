--------------------------- MODULE BuilderProofs ---------------------------
(***************************************************************************)
(* The builder that runs the rules was made from the CBuilder.c it looked  *)
(* at, a process runs each of its words once, a dry run makes nothing      *)
(* but an empty build/, and what a build leaves is current: for            *)
(* every clock, number of saves and skew, all sources and command lines.   *)
(***************************************************************************)
EXTENDS Builder, WellFoundedInduction, SequenceTheorems, TLAPS

(* Every non-empty set of naturals has a least element.                    *)
LEMMA LeastNat ==
  ASSUME NEW T, T \subseteq Nat, T # {}
  PROVE  \E x \in T : \A y \in T : x <= y
<1> DEFINE R == OpToRel(<, Nat)
<1>1. IsWellFoundedOn(R, Nat)
  BY NatLessThanWellFounded
<1>2. \A x, y \in Nat : <<y, x>> \in R <=> y < x
  BY DEF OpToRel
<1> HIDE DEF R
<1>3. PICK x \in T : \A y \in T : ~ (<<y, x>> \in R)
  BY <1>1, WFMin, Zenon
<1>4. ASSUME NEW y \in T PROVE x <= y
  <2>1. x \in Nat /\ y \in Nat
    OBVIOUS
  <2>2. ~ (y < x)
    BY <1>2, <1>3, <2>1, Zenon
  <2> QED BY <2>1, <2>2
<1> QED BY <1>4

(* Induction up to n, with the set of the numbers it is shown of.          *)
LEMMA InductionTo ==
  ASSUME NEW n \in Nat, NEW T, 0 \in T, \A i \in 1..n : i - 1 \in T => i \in T
  PROVE  \A i \in 0..n : i \in T
<1> DEFINE D == {i \in 0..n : i \notin T}
<1> SUFFICES ASSUME D # {} PROVE FALSE
  OBVIOUS
<1>1. D \subseteq Nat
  OBVIOUS
<1>2. PICK i \in D : \A j \in D : i <= j
  BY <1>1, LeastNat
<1>3. i \in 1..n /\ i - 1 \in 0..n /\ ~(i <= i - 1)
  OBVIOUS
<1>4. i - 1 \in T
  BY <1>2, <1>3
<1> QED BY <1>3, <1>4

Iterates(f, n, e, step) == f[0] = e /\ \A i \in 1..n : f[i] = step[<<i, f[i - 1]>>]

(* A function that gives every number the value it has by a step from its  *)
(* predecessor's: what makes the definition of a recursive function sound. *)
LEMMA RecursionTo ==
  ASSUME NEW n \in Nat, NEW S, NEW e \in S, NEW step \in [(1..n) \X S -> S]
  PROVE  \E f \in [0..n -> S] : Iterates(f, n, e, step)
<1> DEFINE T == {m \in 0..n : \E f \in [0..m -> S] : Iterates(f, m, e, step)}
<1>1. 0 \in T
  <2>1. [i \in 0..0 |-> e] \in [0..0 -> S] /\ Iterates([i \in 0..0 |-> e], 0, e, step)
    BY DEF Iterates
  <2>2. \E f \in [0..0 -> S] : Iterates(f, 0, e, step)
    BY <2>1, Zenon
  <2> QED BY <2>2
<1>2. ASSUME NEW m \in 1..n, m - 1 \in T PROVE m \in T
  <2>1. PICK f \in [0..(m - 1) -> S] : Iterates(f, m - 1, e, step)
    BY <1>2
  <2> DEFINE g == [i \in 0..m |-> IF i = m THEN step[<<m, f[m - 1]>>] ELSE f[i]]
  <2>2. f \in [0..(m - 1) -> S] /\ f[0] = e /\ \A i \in 1..(m - 1) : f[i] = step[<<i, f[i - 1]>>]
    BY <2>1 DEF Iterates
  <2>3. m - 1 \in 0..(m - 1) /\ f[m - 1] \in S
    BY <2>2
  <2>4. step[<<m, f[m - 1]>>] \in S
    BY <2>3
  <2>5. g \in [0..m -> S] /\ g[0] = e
    BY <2>2, <2>4
  <2>6. ASSUME NEW i \in 1..m PROVE g[i] = step[<<i, g[i - 1]>>]
    <3>1. i - 1 \in 0..m /\ i - 1 # m /\ g[i - 1] = f[i - 1]
      OBVIOUS
    <3>2. CASE i = m
      BY <3>1, <3>2
    <3>3. CASE i # m
      <4>1. i \in 1..(m - 1) /\ g[i] = f[i]
        BY <3>3
      <4> QED BY <4>1, <3>1, <2>2
    <3> QED BY <3>2, <3>3
  <2>7. Iterates(g, m, e, step)
    BY <2>5, <2>6 DEF Iterates
  <2> HIDE DEF g
  <2>8. \E h \in [0..m -> S] : Iterates(h, m, e, step)
    BY <2>5, <2>7, Zenon
  <2> QED BY <2>8
<1> HIDE DEF T
<1>3. \A i \in 0..n : i \in T
  BY <1>1, <1>2, InductionTo
<1>4. n \in T
  BY <1>3
<1> QED BY <1>4 DEF T

----------------------------------------------------------------------------

(* The builder's own files *)

Types ==
    /\ now \in Nat \ {0} /\ src \in Files /\ exe \in Files
    /\ unit \in Nat /\ orphan \in Nat
    /\ seen \in [version : Nat, time : Nat, raced : BOOLEAN]
    /\ raced \in BOOLEAN

(* The process that compares the times runs the executable on the disk,    *)
(* unless an orphaned cc has replaced that.                                *)
Running == pc \in {"source", "exec"} => overtaken \/ image = exe.version

(* An executable made from another text than CBuilder.c is older than it. *)
Fresh == raced \/ exe = NoFile \/ exe.version = src.version \/ src.time > exe.time

(* The same of the text ManageRebuild has looked at, until it compares. *)
Looked == pc = "exec" => overtaken \/ seen.raced \/ exe.version = seen.version \/ seen.time > exe.time

(* An executable that is running exists, unless an orphaned cc has removed it. *)
Exists == pc \in {"source", "exec"} => overtaken \/ exe # NoFile

IInv == Types /\ Running /\ Fresh /\ Looked /\ Exists

LEMMA InitIInv == Init => IInv
<1> SUFFICES ASSUME Init PROVE IInv
  OBVIOUS
<1>1. now \in Nat \ {0} /\ src \in Files /\ exe \in Files /\ unit \in Nat /\ orphan \in Nat
  BY DEF Init, Files
<1>2. seen \in [version : Nat, time : Nat, raced : BOOLEAN]
  BY DEF Init, Unseen
<1>3. raced \in BOOLEAN
  BY DEF Init
<1>4. Running /\ Looked /\ Exists
  BY DEF Init, Running, Looked, Exists
<1>5. Fresh
  BY DEF Init, Fresh
<1> QED BY <1>1, <1>2, <1>3, <1>4, <1>5 DEF IInv, Types

(* Steps that leave the files alone and end in none of the two looks. *)
LEMMA Settled ==
    ASSUME IInv, UNCHANGED <<now, src, exe, raced>>, pc' \notin {"source", "exec"}, unit' \in Nat, orphan' \in Nat,
           seen' \in [version : Nat, time : Nat, raced : BOOLEAN]
    PROVE  IInv'
BY DEF IInv, Types, Running, Fresh, Looked, Exists

LEMMA ExitsTypes ==
    Exits => /\ pc' = "idle" /\ unit' \in Nat
             /\ seen' \in [version : Nat, time : Nat, raced : BOOLEAN]
<1>1. Unseen \in [version : Nat, time : Nat, raced : BOOLEAN]
  BY DEF Unseen
<1> QED BY <1>1 DEF Exits

(* A cc that fails, a kill and clean all leave the old executable or none. *)
LEMMA LeavesIInv ==
    ASSUME IInv, NEW e \in {exe, NoFile}, Leaves(e), UNCHANGED <<now, src>>,
           pc' \notin {"source", "exec"} \/ overtaken', unit' \in Nat, orphan' \in Nat,
           seen' \in [version : Nat, time : Nat, raced : BOOLEAN]
    PROVE  IInv'
<1>1. exe' = e /\ raced' = (raced /\ e # NoFile)
  BY DEF Leaves
<1>2. raced' \in BOOLEAN /\ (raced' \/ ~raced \/ e = NoFile)
  BY <1>1
<1>3. NoFile \in Files
  BY DEF NoFile, Files
<1>4. Types'
  BY <1>1, <1>2, <1>3 DEF IInv, Types
<1>5. Fresh'
  BY <1>1, <1>2 DEF IInv, Fresh
<1> QED BY <1>4, <1>5 DEF IInv, Running, Looked, Exists

(* A cc that ends makes an executable that is of the text in CBuilder.c,   *)
(* or of one that was saved over meanwhile.                                *)
LEMMA WrittenIInv ==
    ASSUME IInv, NEW e \in Files, e.time # 0, Written(e), UNCHANGED <<now, src>>, unit' \in Nat, orphan' \in Nat,
           seen' \in [version : Nat, time : Nat, raced : BOOLEAN],
           \/ pc' \notin {"source", "exec"}
           \/ overtaken'
           \/ pc' = "source" /\ image' = e.version
    PROVE  IInv'
<1>1. exe' = e /\ raced' = (e.version # src.version)
  BY DEF Written
<1>2. raced' \in BOOLEAN /\ (raced' \/ e.version = src.version)
  BY <1>1
<1>3. e # NoFile
  BY DEF NoFile
<1>4. Types' /\ Fresh'
  BY <1>1, <1>2 DEF IInv, Types, Fresh
<1> QED BY <1>1, <1>3, <1>4 DEF IInv, Running, Looked, Exists

LEMMA OutputIsFile == IInv => Output \in Files /\ Output.time # 0 /\ Output.version = unit
BY DEF IInv, Types, Output, Files

LEMMA UnseenType == Unseen \in [version : Nat, time : Nat, raced : BOOLEAN]
BY DEF Unseen

LEMMA NextIInv == IInv /\ [Next]_self => IInv'
<1> SUFFICES ASSUME IInv, [Next]_self PROVE IInv'
  OBVIOUS
<1> USE DEF IInv
<1>1. CASE \E d \in BOOLEAN : Invoke(d)
  BY <1>1 DEF Invoke, Types, Running, Fresh, Looked, Exists
<1>2. CASE RunScript
  BY <1>2 DEF RunScript, Types, Running, Fresh, Looked, Exists
<1>3. CASE StatSource
  <2>1. UNCHANGED <<now, src, exe, image, unit, orphan, raced, overtaken>> /\ pc = "source" /\ pc' = "exec"
    BY <1>3 DEF StatSource
  <2>2. seen' = [version |-> src.version, time |-> src.time, raced |-> raced]
    BY <1>3 DEF StatSource
  <2>3. seen' \in [version : Nat, time : Nat, raced : BOOLEAN]
    BY <2>2 DEF Types, Files
  <2>4. Looked'
    BY <2>1, <2>2 DEF Looked, Fresh, Exists
  <2> QED BY <2>1, <2>3, <2>4 DEF Types, Running, Fresh, Exists
<1>4. CASE StatExec
  <2>1. UNCHANGED <<now, src, exe, orphan, raced>> /\ pc' \notin {"source", "exec"}
    BY <1>4 DEF StatExec, Exits
  <2>2. unit' \in Nat /\ seen' \in [version : Nat, time : Nat, raced : BOOLEAN]
    BY <1>4, ExitsTypes, UnseenType DEF StatExec, Types
  <2> QED BY <2>1, <2>2, Settled DEF Types
<1>5. CASE StartCC
  BY <1>5 DEF StartCC, Types, Files, Running, Fresh, Looked, Exists
<1>6. CASE EndCC \/ NoRestart \/ \E d \in BOOLEAN : Restart(d)
  <2>1. Written(Output) /\ UNCHANGED <<now, src, orphan>>
    BY <1>6 DEF EndCC, NoRestart, Restart
  <2>2. Output \in Files /\ Output.time # 0 /\ exe' = Output
    BY <2>1, OutputIsFile DEF Written
  <2>3. unit' \in Nat /\ seen' \in [version : Nat, time : Nat, raced : BOOLEAN]
    BY <1>6, ExitsTypes DEF EndCC, CCReturns, NoRestart, Restart, Types
  <2>4. pc' \notin {"source", "exec"} \/ (pc' = "source" /\ image' = Output.version)
    BY <1>6, <2>2 DEF EndCC, CCReturns, NoRestart, Exits, Restart
  <2>5. orphan' \in Nat
    BY <2>1 DEF Types
  <2> QED BY <2>1, <2>2, <2>3, <2>4, <2>5, WrittenIInv
<1>7. CASE CCFails
  <2>1. PICK e \in {exe, NoFile} : Leaves(e)
    BY <1>7 DEF CCFails
  <2>2. UNCHANGED <<now, src, orphan>> /\ pc' \notin {"source", "exec"}
    BY <1>7 DEF CCFails, CCReturns, Exits
  <2>3. unit' \in Nat /\ seen' \in [version : Nat, time : Nat, raced : BOOLEAN]
    BY <1>7, ExitsTypes DEF CCFails, CCReturns, Types
  <2> QED BY <2>1, <2>2, <2>3, LeavesIInv DEF Types
<1>8. CASE RulesEnd
  BY <1>8, ExitsTypes, Settled DEF RulesEnd, Types
<1>9. CASE \E rule \in {"self-rebuild", "self-build-debug"} : RuleRebuilds(rule)
  BY <1>9, Settled DEF RuleRebuilds, Types
<1>10. CASE CleanAll
  <2>1. Leaves(NoFile) /\ UNCHANGED <<now, src, unit, seen, orphan>> /\ pc' \notin {"source", "exec"}
    BY <1>10 DEF CleanAll
  <2> QED BY <2>1, LeavesIInv DEF Types
<1>11. CASE Tick
  BY <1>11 DEF Tick, Types, Running, Fresh, Looked, Exists
<1>12. CASE SaveSource
  <2>1. PICK t \in 1..MaxTime : Save(t)
    BY <1>12 DEF SaveSource
  <2>2. src' = [version |-> src.version + 1, time |-> t] /\ UNCHANGED <<now, exe, image, pc, seen, unit, orphan, overtaken>>
    BY <2>1 DEF Save
  <2>3. raced' = (exe # NoFile /\ t <= exe.time)
    BY <2>1 DEF Save
  <2>4. src' \in Files /\ src'.time = t /\ t \in Nat
    BY <2>2, BuilderAssumption DEF Types, Files
  <2>5. raced' \in BOOLEAN /\ (raced' \/ exe = NoFile \/ ~(t <= exe.time))
    BY <2>3
  <2>6. Fresh'
    BY <2>2, <2>4, <2>5 DEF Fresh, Types, Files
  <2> QED BY <2>2, <2>4, <2>5, <2>6 DEF Types, Running, Looked, Exists
<1>13. CASE Kill
  <2>1. PICK e \in {exe, NoFile} : Leaves(e)
    BY <1>13 DEF Kill
  <2>2. UNCHANGED <<now, src>> /\ Exits /\ orphan' \in {orphan, unit}
    BY <1>13 DEF Kill
  <2> QED BY <2>1, <2>2, ExitsTypes, LeavesIInv DEF Types
<1>14. CASE OrphanEnds
  <2>1. UNCHANGED <<now, src, image, pc, seen, unit>> /\ orphan' = 0 /\ overtaken' = (pc \in {"source", "exec"})
    BY <1>14 DEF OrphanEnds
  <2>2. pc' \notin {"source", "exec"} \/ overtaken'
    BY <2>1
  <2>3. unit' \in Nat /\ orphan' \in Nat /\ seen' \in [version : Nat, time : Nat, raced : BOOLEAN]
    BY <2>1 DEF Types
  <2>4. CASE Written([version |-> orphan, time |-> now])
    <3>1. [version |-> orphan, time |-> now] \in Files /\ [version |-> orphan, time |-> now].time # 0
      BY DEF Types, Files
    <3> QED BY <2>1, <2>2, <2>3, <2>4, <3>1, WrittenIInv
  <2>5. CASE \E e \in {exe, NoFile} : Leaves(e)
    BY <2>1, <2>2, <2>3, <2>5, LeavesIInv
  <2> QED BY <1>14, <2>4, <2>5 DEF OrphanEnds
<1>15. CASE UNCHANGED self
  BY <1>15 DEF self, Types, Running, Fresh, Looked, Exists
<1> QED BY <1>1, <1>2, <1>3, <1>4, <1>5, <1>6, <1>7, <1>8, <1>9, <1>10, <1>11, <1>12, <1>13, <1>14, <1>15 DEF Next, Step

----------------------------------------------------------------------------
(* The comparison of ManageRebuild lets only a current builder go on to    *)
(* the rules, unless the save of CBuilder.c was one it cannot see or an    *)
(* orphaned cc has replaced the executable.                                *)
THEOREM BuilderIsCurrent == Spec => CurrentOrMasked
<1>1. IInv /\ [Next]_self => [(pc = "exec" /\ pc' = "rules") => (image = seen.version \/ seen.raced \/ overtaken)]_self
  <2> SUFFICES ASSUME IInv, Next, pc = "exec", pc' = "rules" PROVE image = seen.version \/ seen.raced \/ overtaken
    BY DEF self
  <2>1. StatExec
    BY DEF Next, Step, Invoke, RunScript, StatSource, StartCC, EndCC, Restart, NoRestart, CCFails, RulesEnd,
           RuleRebuilds, CleanAll, Tick, SaveSource, Save, Kill, Exits, OrphanEnds
  <2>2. ~(seen.time > exe.time)
    BY <2>1 DEF StatExec, SourceIsNewer, Exits
  <2> QED BY <2>2 DEF IInv, Running, Looked
<1> QED BY InitIInv, NextIInv, <1>1, PTL DEF Spec, CurrentOrMasked

-----------------------------------------------------------------------------
(* The rules *)

(* The composition adds rules and sources to the steps of SelfRebuild and  *)
(* takes no step of its own with the builder's files.                      *)
LEMMA RulesStep == [BNext]_vars => [Next]_self
<1> SUFFICES ASSUME [BNext]_vars PROVE [Next]_self
  OBVIOUS
<1> USE DEF Next, Step
<1>1. CASE BInvoke
  <2>1. PICK words \in CommandLines : Invoke(Contains(words, "--dry-run"))
    BY <1>1 DEF BInvoke
  <2>2. Contains(words, "--dry-run") \in BOOLEAN
    BY DEF Contains
  <2> QED BY <2>1, <2>2
<1>2. CASE BScript
  BY <1>2 DEF BScript
<1>3. CASE BManage \/ BEndCC \/ BOrphanEnds
  BY <1>3 DEF BManage, BEndCC, BOrphanEnds
<1>4. CASE RulesDone \/ Crash
  BY <1>4 DEF RulesDone, Crash
<1>5. CASE FirstRule \/ ExecuteRule
  BY <1>5 DEF FirstRule, ExecuteRule
<1>6. CASE BuildLevelDB \/ BuildLibrary
  BY <1>6 DEF BuildLevelDB, BuildLibrary, Returns
<1>7. CASE CollectFiles("vendor", Vendor) \/ CollectFiles("own", Own)
  BY <1>7 DEF CollectFiles
<1>8. CASE \E f \in Sources : CompileFile(f)
  BY <1>8 DEF CompileFile
<1>9. CASE Archive \/ LinkFiles \/ RemoveObjects \/ LinkTests
  BY <1>9 DEF Archive, LinkFiles, RemoveObjects, LinkTests, Returns
<1>10. CASE Clean
  BY <1>10 DEF Clean
<1>11. CASE SelfRule
  BY <1>11 DEF SelfRule
<1>12. CASE BKill
  BY <1>12 DEF BKill
<1>13. CASE \E f \in Sources : ChangeFile(f)
  BY <1>13 DEF ChangeFile
<1>14. CASE BTick \/ BSave
  BY <1>14 DEF BTick, BSave
<1>15. CASE UNCHANGED vars
  BY <1>15 DEF vars
<1>16. CASE BRestart
  <2>1. PICK words : Restart(Contains(words, "--dry-run"))
    BY <1>16 DEF BRestart
  <2>2. Contains(words, "--dry-run") \in BOOLEAN
    BY DEF Contains
  <2> QED BY <2>1, <2>2
<1> QED BY <1>1, <1>2, <1>3, <1>4, <1>5, <1>6, <1>7, <1>8, <1>9, <1>10, <1>11, <1>12, <1>13, <1>14, <1>15, <1>16 DEF BNext, BStep

(* With its rules the builder still follows SelfRebuild, and so what holds *)
(* of that holds of every invocation: the rules are run by a builder made  *)
(* from the CBuilder.c it looked at, or the save was one it cannot see, or *)
(* an orphaned cc has replaced the executable.                             *)
THEOREM RulesRunCurrent == BSpec => Spec /\ CurrentOrMasked
<1>1. BInit => Init
  BY DEF BInit
<1>2. BSpec => Spec
  BY <1>1, RulesStep, PTL DEF BSpec, Spec
<1> QED BY <1>2, BuilderIsCurrent

(* A dry run never gets as far as cc. *)
DryInv == dry \in BOOLEAN /\ (dry => pc \in {"source", "exec", "rules"})

LEMMA DryNext == DryInv /\ [Next]_self => DryInv'
<1> SUFFICES ASSUME DryInv, [Next]_self PROVE DryInv'
  OBVIOUS
<1> USE DEF DryInv
<1>1. CASE \E d \in BOOLEAN : Invoke(d) \/ Restart(d)
  BY <1>1 DEF Invoke, Restart
<1>2. CASE RunScript
  BY <1>2 DEF RunScript
<1>3. CASE StatSource \/ StatExec
  BY <1>3 DEF StatSource, StatExec, Exits
<1>4. CASE StartCC \/ EndCC
  BY <1>4 DEF StartCC, EndCC, CCReturns
<1>5. CASE CCFails \/ NoRestart
  BY <1>5 DEF CCFails, CCReturns, NoRestart, Exits
<1>6. CASE RulesEnd \/ Kill
  BY <1>6 DEF RulesEnd, Kill, Exits
<1>7. CASE \E rule \in {"self-rebuild", "self-build-debug"} : RuleRebuilds(rule)
  BY <1>7 DEF RuleRebuilds
<1>8. CASE CleanAll \/ Tick \/ OrphanEnds
  BY <1>8 DEF CleanAll, Tick, OrphanEnds
<1>9. CASE SaveSource
  BY <1>9 DEF SaveSource, Save
<1>10. CASE UNCHANGED self
  BY <1>10 DEF self
<1> QED BY <1>1, <1>2, <1>3, <1>4, <1>5, <1>6, <1>7, <1>8, <1>9, <1>10 DEF Next, Step

-----------------------------------------------------------------------------
(* The command line *)

(* The two literals are named because the provers cannot tell that they are strings. *)
Words == {PROGRAM, "build"} \cup STRING

LEMMA SeqOfMore ==
    ASSUME NEW A, NEW B, A \subseteq B, NEW s \in Seq(A)
    PROVE  s \in Seq(B)
OBVIOUS

Kept == Words \ {"--dry-run"}

(* ParseGlobalFlags keeps no flag, and leaves words without flags alone.   *)
LEMMA ParseWords ==
    ASSUME NEW words \in Seq(Words)
    PROVE  /\ ParseGlobalFlags(words) \in Seq(Kept)
           /\ ~Contains(words, "--dry-run") => ParseGlobalFlags(words) = words
<1> DEFINE n == Len(words)
           S == Seq(Kept)
           Flag(i) == words[i] = "--dry-run"
           Add(i, s) == IF Flag(i) THEN s ELSE Append(s, words[i])
           Def(f) == f = [i \in 0..n |-> IF i = 0 THEN <<>> ELSE Add(i, f[i - 1])]
           step == [p \in (1..n) \X S |-> Add(p[1], p[2])]
           kept == CHOOSE f : Def(f)
<1>1. n \in Nat /\ <<>> \in S /\ \A i \in 1..n : words[i] \in Words
  OBVIOUS
<1> DEFINE Begun(i) == SubSeq(words, 1, i)
<1>15. Begun(0) = <<>> /\ Begun(n) = words /\ \A i \in 1..n : Begun(i) = Append(Begun(i - 1), words[i])
  <2>1. Begun(0) = <<>> /\ Begun(n) = words
    OBVIOUS
  <2>2. ASSUME NEW i \in 1..n PROVE Begun(i) = Append(Begun(i - 1), words[i])
    OBVIOUS
  <2> QED BY <2>1, <2>2
<1>16. ~Contains(words, "--dry-run") => \A i \in 1..n : ~Flag(i)
  BY DEF Contains
<1> HIDE DEF Begun
<1> HIDE DEF Flag, n
<1>2. ASSUME NEW i \in 1..n, NEW s \in S PROVE Add(i, s) \in S
  <2>1. CASE Flag(i)
    BY <2>1
  <2>2. CASE ~Flag(i)
    <3>1. words[i] \in Kept
      BY <2>2, <1>1 DEF Kept, Flag
    <3>2. Append(s, words[i]) \in Seq(Kept)
      BY <3>1
    <3> QED BY <2>2, <3>2
  <2> QED BY <2>1, <2>2
<1>17. \A i \in 1..n : ~Flag(i) => \A s : Add(i, s) = Append(s, words[i])
  OBVIOUS
<1> HIDE DEF Add, S
<1>3. step \in [(1..n) \X S -> S]
  <2>1. ASSUME NEW p \in (1..n) \X S PROVE Add(p[1], p[2]) \in S
    BY <1>2
  <2> QED BY <2>1
<1>4. \A i \in 1..n : \A s \in S : step[<<i, s>>] = Add(i, s)
  OBVIOUS
<1> HIDE DEF step
<1>5. PICK f \in [0..n -> S] : Iterates(f, n, <<>>, step)
  BY <1>1, <1>3, RecursionTo
<1>6. \A i \in 1..n : i - 1 \in 0..n /\ i \in 0..n /\ i # 0
  BY <1>1
<1>7. \A i \in 1..n : f[i] = Add(i, f[i - 1])
  BY <1>4, <1>5, <1>6 DEF Iterates
<1>8. Def(f)
  <2>1. ASSUME NEW i \in 0..n PROVE f[i] = IF i = 0 THEN <<>> ELSE Add(i, f[i - 1])
    <3>1. i = 0 \/ i \in 1..n
      BY <1>1
    <3> QED BY <3>1, <1>5, <1>7 DEF Iterates
  <2>2. f = [i \in 0..n |-> f[i]]
    OBVIOUS
  <2> QED BY <2>1, <2>2, Zenon
<1>9. Def(kept)
  BY <1>8, Zenon
<1> HIDE DEF kept
<1>10. kept[0] = <<>> /\ \A i \in 1..n : kept[i] = Add(i, kept[i - 1])
  <2>1. \A i \in 0..n : kept[i] = IF i = 0 THEN <<>> ELSE Add(i, kept[i - 1])
    BY <1>9, Zenon
  <2>2. 0 \in 0..n
    BY <1>1
  <2> QED BY <2>1, <2>2, <1>6
<1> DEFINE T == {i \in 0..n : kept[i] \in S}
<1>11. 0 \in T
  BY <1>1, <1>10
<1>12. ASSUME NEW i \in 1..n, i - 1 \in T PROVE i \in T
  BY <1>2, <1>6, <1>10, <1>12
<1> HIDE DEF T
<1>13. \A i \in 0..n : i \in T
  BY <1>1, <1>11, <1>12, InductionTo
<1>14. kept[n] \in S
  BY <1>1, <1>13 DEF T
<1>18. ASSUME \A i \in 1..n : ~Flag(i) PROVE kept[n] = words
  <2> DEFINE U == {i \in 0..n : kept[i] = Begun(i)}
  <2>1. 0 \in U
    BY <1>1, <1>10, <1>15
  <2>2. ASSUME NEW i \in 1..n, i - 1 \in U PROVE i \in U
    <3>1. kept[i] = Append(kept[i - 1], words[i]) /\ kept[i - 1] = Begun(i - 1)
      BY <1>10, <1>17, <1>18, <2>2
    <3> QED BY <3>1, <1>6, <1>15
  <2> HIDE DEF U
  <2>3. \A i \in 0..n : i \in U
    BY <1>1, <2>1, <2>2, InductionTo
  <2>4. kept[n] = Begun(n)
    BY <1>1, <2>3 DEF U
  <2> QED BY <2>4, <1>15
<1>19. ParseGlobalFlags(words) = kept[n]
  BY DEF ParseGlobalFlags, kept, Add, Flag, n
<1> QED BY <1>14, <1>16, <1>18, <1>19 DEF S

(* What the definition of FlattenSeq computes, with the empty sequence first. *)
LEMMA FlattenIs ==
    ASSUME NEW ss \in Seq(Seq(Words))
    PROVE  \E f \in [0..Len(ss) -> Seq(Words)] :
             f[0] = <<>> /\ f[Len(ss)] = FlattenSeq(ss) /\ \A i \in 1..Len(ss) : f[i] = f[i - 1] \o ss[i]
<1> DEFINE n == Len(ss)
           S == Seq(Words)
           Def(f) == f = [i \in 1..n |-> IF i = 1 THEN ss[i] ELSE f[i - 1] \o ss[i]]
           step == [p \in (1..n) \X S |-> p[2] \o ss[p[1]]]
           flatten == CHOOSE f : Def(f)
<1>1. n \in Nat /\ <<>> \in S /\ (\A i \in 1..n : ss[i] \in S) /\ \A s \in S : <<>> \o s = s
  OBVIOUS
<1>2. \A s, t \in S : s \o t \in S
  OBVIOUS
<1>3. FlattenSeq(ss) = IF n = 0 THEN ss ELSE flatten[n]
  BY DEF FlattenSeq
<1>4. n = 0 => ss = <<>>
  OBVIOUS
<1> HIDE DEF S, n
<1>5. step \in [(1..n) \X S -> S] /\ \A i \in 1..n : \A s \in S : step[<<i, s>>] = s \o ss[i]
  <2>1. ASSUME NEW p \in (1..n) \X S PROVE p[2] \o ss[p[1]] \in S
    BY <1>1, <1>2
  <2> QED BY <2>1
<1> HIDE DEF step
<1>6. PICK h \in [0..n -> S] : Iterates(h, n, <<>>, step)
  BY <1>1, <1>5, RecursionTo
<1>7. \A i \in 1..n : i - 1 \in 0..n /\ i \in 0..n
  BY <1>1
<1>8. h[0] = <<>> /\ \A i \in 1..n : h[i] = h[i - 1] \o ss[i]
  BY <1>5, <1>6, <1>7 DEF Iterates
<1> DEFINE g == [i \in 1..n |-> h[i]]
<1>9. Def(g)
  <2>1. ASSUME NEW i \in 1..n PROVE g[i] = IF i = 1 THEN ss[i] ELSE g[i - 1] \o ss[i]
    <3>1. CASE i = 1
      BY <3>1, <1>1, <1>8
    <3>2. CASE i # 1
      <4>1. i - 1 \in 1..n
        BY <3>2, <1>1
      <4> QED BY <3>2, <4>1, <1>8
    <3> QED BY <3>1, <3>2
  <2>2. g = [i \in 1..n |-> g[i]]
    OBVIOUS
  <2> HIDE DEF g
  <2> QED BY <2>1, <2>2, Zenon
<1> HIDE DEF g
<1>10. Def(flatten)
  BY <1>9, Zenon
<1> HIDE DEF flatten
<1>11. \A i \in 1..n : flatten[i] = IF i = 1 THEN ss[i] ELSE flatten[i - 1] \o ss[i]
  BY <1>10, Zenon
<1> DEFINE T == {i \in 0..n : i = 0 \/ flatten[i] = h[i]}
<1>12. 0 \in T
  BY <1>1
<1>13. ASSUME NEW i \in 1..n, i - 1 \in T PROVE i \in T
  <2>1. CASE i = 1
    <3>1. h[1] = h[0] \o ss[1] /\ h[0] = <<>> /\ ss[1] \in S /\ flatten[1] = ss[1] /\ 1 \in 0..n
      <4>1. 1 \in 1..n /\ 1 - 1 = 0
        BY <2>1
      <4> QED BY <4>1, <1>1, <1>7, <1>8, <1>11
    <3> QED BY <2>1, <3>1, <1>1
  <2>2. CASE i # 1
    <3>1. flatten[i - 1] = h[i - 1]
      BY <2>2, <1>13
    <3> QED BY <2>2, <3>1, <1>7, <1>8, <1>11
  <2> QED BY <2>1, <2>2
<1> HIDE DEF T
<1>14. \A i \in 0..n : i \in T
  BY <1>1, <1>12, <1>13, InductionTo
<1>15. h[n] = FlattenSeq(ss)
  <2>1. CASE n = 0
    BY <2>1, <1>3, <1>4, <1>8
  <2>2. CASE n # 0
    BY <2>2, <1>1, <1>3, <1>14 DEF T
  <2> QED BY <2>1, <2>2
<1> QED BY <1>8, <1>15 DEF S, n

LEMMA FlattenAppend ==
    ASSUME NEW ss \in Seq(Seq(Words)), NEW x \in Seq(Words)
    PROVE  FlattenSeq(Append(ss, x)) = FlattenSeq(ss) \o x /\ FlattenSeq(ss) \in Seq(Words)
<1> DEFINE tt == Append(ss, x)
           n == Len(ss)
<1>1. tt \in Seq(Seq(Words)) /\ Len(tt) = n + 1 /\ tt[n + 1] = x /\ n \in Nat
  OBVIOUS
<1>2. \A i \in 1..n : tt[i] = ss[i]
  OBVIOUS
<1>3. PICK f \in [0..n -> Seq(Words)] : f[0] = <<>> /\ f[n] = FlattenSeq(ss) /\ \A i \in 1..n : f[i] = f[i - 1] \o ss[i]
  BY FlattenIs
<1> HIDE DEF tt
<1>4. PICK g \in [0..Len(tt) -> Seq(Words)] :
        g[0] = <<>> /\ g[Len(tt)] = FlattenSeq(tt) /\ \A i \in 1..Len(tt) : g[i] = g[i - 1] \o tt[i]
  BY <1>1, FlattenIs
<1> HIDE DEF n
<1> DEFINE T == {i \in 0..n : f[i] = g[i]}
<1>5. 0 \in T
  BY <1>1, <1>3, <1>4
<1>6. ASSUME NEW i \in 1..n, i - 1 \in T PROVE i \in T
  <2>1. i \in 1..Len(tt) /\ f[i - 1] = g[i - 1] /\ tt[i] = ss[i] /\ i \in 0..n
    <3>1. i \in 1..Len(tt) /\ i \in 0..n
      BY <1>1
    <3>2. f[i - 1] = g[i - 1]
      BY <1>6
    <3> QED BY <3>1, <3>2, <1>2
  <2>2. f[i] = f[i - 1] \o ss[i] /\ g[i] = g[i - 1] \o tt[i]
    BY <2>1, <1>3, <1>4
  <2> QED BY <2>1, <2>2
<1> HIDE DEF T
<1>7. \A i \in 0..n : i \in T
  BY <1>1, <1>5, <1>6, InductionTo
<1>8. f[n] = g[n]
  BY <1>1, <1>7 DEF T
<1>9. g[n + 1] = g[n] \o x
  <2>1. n + 1 \in 1..Len(tt) /\ (n + 1) - 1 = n
    BY <1>1
  <2>2. g[n + 1] = g[(n + 1) - 1] \o tt[n + 1]
    BY <2>1, <1>4
  <2> QED BY <2>1, <2>2, <1>1
<1>10. f[n] \in Seq(Words)
  BY <1>1
<1> QED BY <1>1, <1>3, <1>4, <1>8, <1>9, <1>10 DEF tt

(* The next rule is the first word behind this one that names a rule, or   *)
(* the end of the words.                                                   *)
LEMMA NextRule ==
    ASSUME argv \in Seq(Words), NEW i \in 0..(Len(argv) - 1)
    PROVE  /\ NextRuleIndex(i) \in (i + 1)..Len(argv)
           /\ \A j \in (i + 2)..NextRuleIndex(i) : ~IsRuleName(argv[j])
<1> DEFINE n == Len(argv)
           t == SubSeq(argv, i + 2, n)
           s == t \o <<"build">>
           I == {k \in 1..Len(s) : IsRuleName(s[k])}
           m == Min(I)
<1>1. "build" \in Words /\ IsRuleName("build")
  <2>1. "build" \in Words
    BY DEF Words
  <2> QED BY <2>1 DEF IsRuleName, gRules
<1>2. n \in Nat /\ i \in Nat /\ i + 1 <= n
  OBVIOUS
<1>3. t \in Seq(Words) /\ Len(t) = n - i - 1 /\ \A k \in 1..(n - i - 1) : t[k] = argv[k + i + 1]
  <2>1. i + 2 \in 1..(n + 1)
    BY <1>2
  <2> QED BY <2>1
<1> HIDE DEF t, n
<1>4. Len(s) = n - i /\ s[n - i] = "build" /\ \A k \in 1..(n - i - 1) : s[k] = argv[k + i + 1]
  <2>1. Len(t) \in Nat /\ Len(t) + 1 = n - i
    BY <1>2, <1>3
  <2>2. Len(s) = Len(t) + 1 /\ s[Len(t) + 1] = "build" /\ \A k \in 1..Len(t) : s[k] = t[k]
    BY <1>1, <1>3
  <2> QED BY <2>1, <2>2, <1>3
<1> HIDE DEF s
<1>5. n - i \in I /\ I \subseteq Nat
  BY <1>1, <1>2, <1>4
<1> HIDE DEF I
<1>6. m \in I /\ \A k \in I : m <= k
  <2>1. \E k \in I : \A j \in I : k <= j
    BY <1>5, LeastNat
  <2> QED BY <2>1 DEF Min
<1>7. NextRuleIndex(i) = i + m
  BY <1>5 DEF NextRuleIndex, SelectInSeq, I, s, t, n
<1> HIDE DEF m
<1>8. m \in 1..(n - i)
  BY <1>4, <1>6 DEF I
<1>9. ASSUME NEW j \in (i + 2)..(i + m) PROVE ~IsRuleName(argv[j])
  <2> DEFINE k == j - i - 1
  <2>1. k \in 1..(n - i - 1) /\ k + i + 1 = j /\ ~(m <= k) /\ k \in 1..Len(s)
    BY <1>2, <1>4, <1>8
  <2> HIDE DEF k
  <2>2. k \notin I
    BY <2>1, <1>6
  <2>3. s[k] = argv[j]
    BY <2>1, <1>4
  <2> QED BY <2>1, <2>2, <2>3 DEF I
<1> QED BY <1>2, <1>7, <1>8, <1>9 DEF n

WordTypes == line \in Seq(Kept) /\ argv \in Seq(Words) /\ ran \in Seq(Seq(Words)) /\ index \in Nat

(* ManageRebuild, or the script, is at work. *)
Starting == pc \in {"source", "exec"} \/ (pc \in {"cc", "compiling"} /\ caller \in {"manage", "script"})

(* Before the rules nothing of the command line is taken.  Then what was   *)
(* run and the words from index on are the words the process was given,    *)
(* and only the first word of what was run is a rule.  The words a process *)
(* that is no dry run was given are a command line sh may get, and they    *)
(* are those typed if sh has not changed them.                             *)
WordsInv ==
    /\ WordTypes
    /\ pc = "idle" \/ Starting => index = 0
    /\ index = 0 => ran = <<>>
    /\ pc # "idle" => argv = <<PROGRAM>> \o line /\ index <= Len(argv)
    /\ pc # "idle" /\ ~dry => line \in Lines
    /\ index > 0 /\ line # <<>> => FlattenSeq(ran) \o SubSeq(argv, index + 1, Len(argv)) = line
    /\ \A k \in 1..Len(ran) : \A j \in 2..Len(ran[k]) : ~IsRuleName(ran[k][j])
    /\ ~again \/ Range(typed) \subseteq Plain => line = typed

LEMMA ProgramIsNoRule == PROGRAM \in Words /\ ~IsRuleName(PROGRAM)
BY DEF Words, PROGRAM, IsRuleName, gRules

LEMMA KeptAreWords == Seq(Kept) \subseteq Seq(Words)
<1>1. Kept \subseteq Words
  BY DEF Kept
<1> QED BY <1>1, SeqOfMore

(* The words of a rule, and those behind them *)
LEMMA SplitWords ==
    ASSUME NEW words \in Seq(Words), NEW i \in 0..(Len(words) - 1), NEW next \in (i + 1)..Len(words),
           NEW x, x = <<words[i + 1]>> \o SubSeq(words, i + 2, next)
    PROVE  /\ x \in Seq(Words) /\ Head(x) = words[i + 1] /\ Len(x) = next - i
           /\ \A j \in 1..(next - i) : x[j] = words[i + j]
           /\ x \o SubSeq(words, next + 1, Len(words)) = SubSeq(words, i + 1, Len(words))
<1> DEFINE n == Len(words)
           a == SubSeq(words, i + 2, next)
           rest == SubSeq(words, next + 1, n)
           all == SubSeq(words, i + 1, n)
<1>1. n \in Nat /\ i \in Nat /\ next \in Nat /\ i < next /\ next <= n /\ words[i + 1] \in Words
  OBVIOUS
<1>2. a \in Seq(Words) /\ Len(a) = next - i - 1 /\ \A j \in 1..(next - i - 1) : a[j] = words[j + i + 1]
  BY <1>1
<1>3. rest \in Seq(Words) /\ Len(rest) = n - next /\ \A j \in 1..(n - next) : rest[j] = words[next + j]
  BY <1>1
<1>4. all \in Seq(Words) /\ Len(all) = n - i /\ \A j \in 1..(n - i) : all[j] = words[i + j]
  BY <1>1
<1>5. x = <<words[i + 1]>> \o a
  OBVIOUS
<1> HIDE DEF n, a, rest, all
<1>6. x \in Seq(Words) /\ Len(x) = next - i /\ x[1] = words[i + 1] /\ Head(x) = words[i + 1]
  BY <1>1, <1>2, <1>5
<1>7. ASSUME NEW j \in 1..(next - i) PROVE x[j] = words[i + j]
  <2>1. CASE j = 1
    BY <2>1, <1>6
  <2>2. CASE j # 1
    <3>1. j - 1 \in 1..(next - i - 1) /\ (j - 1) + i + 1 = i + j
      BY <2>2, <1>1
    <3>2. x[j] = a[j - 1]
      BY <3>1, <1>1, <1>2, <1>5
    <3> QED BY <3>1, <3>2, <1>2
  <2> QED BY <2>1, <2>2
<1>8. /\ x \o rest \in Seq(Words) /\ Len(x \o rest) = (next - i) + (n - next)
      /\ \A j \in 1..((next - i) + (n - next)) : (x \o rest)[j] = IF j <= next - i THEN x[j] ELSE rest[j - (next - i)]
  <2>1. /\ x \o rest \in Seq(Words) /\ Len(x \o rest) = Len(x) + Len(rest)
        /\ \A j \in 1..(Len(x) + Len(rest)) : (x \o rest)[j] = IF j <= Len(x) THEN x[j] ELSE rest[j - Len(x)]
    <3>1. x \in Seq(Words) /\ rest \in Seq(Words)
      BY <1>3, <1>6
    <3> QED BY <3>1, ConcatProperties
  <2>2. Len(x) = next - i /\ Len(rest) = n - next
    BY <1>3, <1>6
  <2> QED BY <2>1, <2>2, Zenon
<1>9. ASSUME NEW j \in 1..(n - i) PROVE (x \o rest)[j] = all[j]
  <2>1. j \in 1..((next - i) + (n - next)) /\ all[j] = words[i + j]
    BY <1>1, <1>4
  <2>2. CASE j <= next - i
    BY <2>1, <2>2, <1>1, <1>7, <1>8
  <2>3. CASE ~(j <= next - i)
    <3>1. (x \o rest)[j] = rest[j - (next - i)]
      BY <2>1, <2>3, <1>8
    <3>2. j - (next - i) \in 1..(n - next) /\ next + (j - (next - i)) = i + j
      BY <2>3, <1>1
    <3> QED BY <3>1, <3>2, <2>1, <1>3
  <2> QED BY <2>2, <2>3
<1>10. x \o rest = all
  <2>1. Len(x \o rest) = n - i
    BY <1>1, <1>8
  <2> QED BY <2>1, <1>4, <1>8, <1>9, SeqEqual
<1> QED BY <1>6, <1>7, <1>10 DEF rest, all, n

LEMMA TwoWords ==
    ASSUME NEW a, NEW b
    PROVE  <<a>> \o <<b>> = <<a, b>>
<1>1. <<a>> \in Seq({a, b}) /\ <<b>> \in Seq({a, b}) /\ <<a, b>> \in Seq({a, b})
  OBVIOUS
<1>2. Len(<<a>>) = 1 /\ Len(<<b>>) = 1 /\ Len(<<a, b>>) = 2
  OBVIOUS
<1>3. /\ <<a>> \o <<b>> \in Seq({a, b}) /\ Len(<<a>> \o <<b>>) = 1 + 1
      /\ \A i \in 1..(1 + 1) : (<<a>> \o <<b>>)[i] = IF i <= 1 THEN <<a>>[i] ELSE <<b>>[i - 1]
  BY <1>1, <1>2, ConcatProperties
<1>4. \A i \in 1..2 : (<<a>> \o <<b>>)[i] = <<a, b>>[i]
  BY <1>3
<1> DEFINE s == <<a>> \o <<b>>
           t == <<a, b>>
<1>5. s \in Seq({a, b}) /\ t \in Seq({a, b}) /\ Len(s) = Len(t) /\ \A i \in 1..Len(s) : s[i] = t[i]
  BY <1>1, <1>2, <1>3, <1>4
<1> HIDE DEF s, t
<1>6. s = t
  BY <1>5, SeqEqual
<1> QED BY <1>6 DEF s, t

(* The words behind the program's name *)
LEMMA ArgvIs ==
    ASSUME WordTypes, argv = <<PROGRAM>> \o line
    PROVE  /\ Len(argv) = Len(line) + 1 /\ Len(line) \in Nat /\ Tail(argv) = line
           /\ FlattenSeq(<<>>) \o SubSeq(argv, 2, Len(argv)) = line
           /\ Len(argv) = 1 => line = <<>> /\ argv = <<PROGRAM>>
<1>1. line \in Seq(Words) /\ PROGRAM \in Words
  BY KeptAreWords, ProgramIsNoRule DEF WordTypes
<1>2. Len(argv) = Len(line) + 1 /\ Len(line) \in Nat /\ Tail(argv) = line
  BY <1>1
<1>3. SubSeq(argv, 2, Len(argv)) = line
  BY <1>1, <1>2
<1>4. FlattenSeq(<<>>) = <<>> /\ <<>> \o line = line
  BY <1>1 DEF FlattenSeq
<1>5. Len(line) = 0 => line = <<>>
  BY <1>1
<1>6. <<PROGRAM>> \o <<>> = <<PROGRAM>>
  BY <1>1
<1>7. Len(argv) = 1 => Len(line) = 0
  BY <1>2
<1>8. Len(argv) = 1 => line = <<>> /\ argv = <<PROGRAM>>
  BY <1>5, <1>6, <1>7, Zenon
<1> QED BY <1>2, <1>3, <1>4, <1>8, Zenon

LEMMA FirstRuleWords ==
    ASSUME WordsInv, FirstRule
    PROVE  WordsInv'
<1>1. pc = "rules" /\ index = 0 /\ index' = 1 /\ UNCHANGED <<argv, typed, line, again, pc, dry, caller>>
  BY DEF FirstRule, self
<1>2. ran = <<>> /\ argv = <<PROGRAM>> \o line /\ WordTypes
  BY <1>1 DEF WordsInv
<1>3. /\ Len(argv) = Len(line) + 1 /\ Len(line) \in Nat
      /\ FlattenSeq(<<>>) \o SubSeq(argv, 2, Len(argv)) = line
      /\ Len(argv) = 1 => line = <<>> /\ argv = <<PROGRAM>>
  BY <1>2, ArgvIs, Zenon
<1>4. /\ ran' \in Seq(Seq(Words))
      /\ line # <<>> => ran' = <<>>
      /\ \A k \in 1..Len(ran') : \A j \in 2..Len(ran'[k]) : ~IsRuleName(ran'[k][j])
  <2>1. CASE Len(argv) # 1
    BY <2>1, <1>2 DEF FirstRule
  <2>2. CASE Len(argv) = 1
    <3>1. ran' = Append(<<>>, <<"build">> \o <<PROGRAM>>) /\ line = <<>>
      BY <2>2, <1>2, <1>3 DEF FirstRule, Execute
    <3>2. "build" \in Words /\ PROGRAM \in Words
      BY DEF Words
    <3>3. ran' = <<<<"build", PROGRAM>>>>
      <4>1. Append(<<>>, <<"build", PROGRAM>>) = <<<<"build", PROGRAM>>>>
        OBVIOUS
      <4> QED BY <3>1, <4>1, TwoWords
    <3>4. ran' \in Seq(Seq(Words)) /\ Len(ran') = 1 /\ ran'[1] = <<"build", PROGRAM>>
      BY <3>2, <3>3
    <3> HIDE DEF Words
    <3>5. ASSUME NEW k \in 1..Len(ran'), NEW j \in 2..Len(ran'[k]) PROVE ~IsRuleName(ran'[k][j])
      <4>1. k = 1
        BY <3>4
      <4>2. ran'[k] = <<"build", PROGRAM>> /\ Len(<<"build", PROGRAM>>) = 2 /\ <<"build", PROGRAM>>[2] = PROGRAM
        BY <4>1, <3>4
      <4>3. j = 2
        BY <4>2
      <4> QED BY <4>2, <4>3, ProgramIsNoRule
    <3> QED BY <3>1, <3>4, <3>5
  <2> QED BY <2>1, <2>2
<1>5. WordTypes'
  BY <1>1, <1>2, <1>4 DEF WordTypes
<1>6. index' > 0 /\ line' # <<>> => FlattenSeq(ran') \o SubSeq(argv', index' + 1, Len(argv')) = line'
  <2>1. index' + 1 = 2
    BY <1>1
  <2> QED BY <2>1, <1>1, <1>3, <1>4
<1>7. index' <= Len(argv') /\ index' # 0 /\ pc' # "idle" /\ ~Starting'
  BY <1>1, <1>3 DEF Starting
<1>8. ~again' \/ Range(typed') \subseteq Plain => line' = typed'
  BY <1>1 DEF WordsInv
<1> QED BY <1>1, <1>2, <1>4, <1>5, <1>6, <1>7, <1>8 DEF WordsInv, IsRuleName

LEMMA ExecuteRuleWords ==
    ASSUME WordsInv, ExecuteRule
    PROVE  WordsInv'
<1> DEFINE next == NextRuleIndex(index)
           x == <<argv[index + 1]>> \o SubSeq(argv, index + 2, next)
           F == FlattenSeq(ran)
           rest == SubSeq(argv, next + 1, Len(argv))
<1>1. /\ pc = "rules" /\ index > 0 /\ index < Len(argv)
      /\ UNCHANGED <<argv, typed, line, again, pc, dry, caller>> /\ ran' = Append(ran, x)
  BY DEF ExecuteRule, Execute, self
<1>2. /\ line \in Seq(Words) /\ argv \in Seq(Words) /\ ran \in Seq(Seq(Words)) /\ index \in Nat
      /\ argv = <<PROGRAM>> \o line /\ WordTypes
  BY <1>1, KeptAreWords DEF WordsInv, WordTypes
<1>3. F \in Seq(Words)
  <2>1. <<>> \in Seq(Words)
    OBVIOUS
  <2> QED BY <1>2, <2>1, FlattenAppend
<1>4. index \in 0..(Len(argv) - 1)
  BY <1>1, <1>2
<1>15. x = <<argv[index + 1]>> \o SubSeq(argv, index + 2, next)
  OBVIOUS
<1>5. next \in (index + 1)..Len(argv) /\ \A j \in (index + 2)..next : ~IsRuleName(argv[j])
  BY <1>2, <1>4, NextRule
<1>6. index' = next
  BY <1>2, <1>5 DEF ExecuteRule, LoopIndex
<1> HIDE DEF next, F
<1>7. /\ x \in Seq(Words) /\ Len(x) = next - index
      /\ \A j \in 1..(next - index) : x[j] = argv[index + j]
      /\ x \o rest = SubSeq(argv, index + 1, Len(argv))
  <2> HIDE DEF x
  <2>1. argv \in Seq(Words) /\ next \in (index + 1)..Len(argv)
    BY <1>2, <1>5
  <2> QED BY <2>1, <1>4, <1>15, SplitWords
<1>8. rest \in Seq(Words)
  BY <1>2, <1>5
<1> HIDE DEF x, rest
<1>9. ran' \in Seq(Seq(Words)) /\ Len(ran') = Len(ran) + 1 /\ ran'[Len(ran) + 1] = x
  BY <1>1, <1>2, <1>7, AppendProperties
<1>10. WordTypes'
  BY <1>1, <1>2, <1>5, <1>6, <1>9 DEF WordTypes
<1>11. line' # <<>> => FlattenSeq(ran') \o SubSeq(argv', index' + 1, Len(argv')) = line'
  <2>1. FlattenSeq(ran') = F \o x
    BY <1>1, <1>2, <1>7, FlattenAppend DEF F
  <2>2. (F \o x) \o rest = F \o (x \o rest)
    <3>1. F \in Seq(Words) /\ x \in Seq(Words) /\ rest \in Seq(Words)
      BY <1>3, <1>7, <1>8
    <3> QED BY <3>1, ConcatAssociative
  <2>3. line # <<>> => F \o SubSeq(argv, index + 1, Len(argv)) = line
    BY <1>1 DEF WordsInv, F
  <2>4. SubSeq(argv', index' + 1, Len(argv')) = rest
    BY <1>1, <1>6 DEF rest
  <2> QED BY <2>1, <2>2, <2>3, <2>4, <1>1, <1>7
<1>12. ASSUME NEW k \in 1..Len(ran'), NEW j \in 2..Len(ran'[k]) PROVE ~IsRuleName(ran'[k][j])
  <2>1. CASE k = Len(ran) + 1
    <3>1. j \in 1..(next - index) /\ index + j \in (index + 2)..next
      BY <2>1, <1>2, <1>5, <1>7, <1>9
    <3> QED BY <2>1, <3>1, <1>5, <1>7, <1>9
  <2>2. CASE k # Len(ran) + 1
    <3>1. k \in 1..Len(ran)
      BY <2>2, <1>2, <1>9
    <3>2. ran'[k] = ran[k]
      BY <3>1, <1>1, <1>2, <1>7, AppendProperties
    <3> QED BY <3>1, <3>2 DEF WordsInv
  <2> QED BY <2>1, <2>2
<1>13. index' <= Len(argv') /\ index' # 0 /\ pc' # "idle" /\ ~Starting'
  BY <1>1, <1>2, <1>5, <1>6 DEF Starting
<1>14. pc # "idle" /\ (~again' \/ Range(typed') \subseteq Plain => line' = typed') /\ (~dry' => line' \in Lines)
  BY <1>1 DEF WordsInv
<1> QED BY <1>1, <1>2, <1>10, <1>11, <1>12, <1>13, <1>14 DEF WordsInv, IsRuleName

LEMMA InitWords == BInit => WordsInv
<1> SUFFICES ASSUME BInit PROVE WordsInv
  OBVIOUS
<1>1. WordTypes
  BY DEF BInit, WordTypes
<1> QED BY <1>1 DEF BInit, Init, WordsInv, Starting

(* The words of a process that begins *)
LEMMA StartedWords ==
    ASSUME WordsInv, NEW words \in Lines, Started(words), UNCHANGED <<index, ran>>, index = 0, pc' # "idle",
           dry' = Contains(words, "--dry-run"), ~again' \/ Range(typed') \subseteq Plain => line' = typed'
    PROVE  WordsInv'
<1>1. words \in Seq(Words)
  <2>1. STRING \subseteq Words /\ words \in Seq(STRING)
    BY CommandLinesAssumption DEF Words
  <2> QED BY <2>1, SeqOfMore
<1>2. line' \in Seq(Kept) /\ argv' = <<PROGRAM>> \o line' /\ (~dry' => line' = words)
  BY <1>1, ParseWords DEF Started
<1>3. line' \in Seq(Words) /\ argv' \in Seq(Words)
  BY <1>2, KeptAreWords, ProgramIsNoRule
<1>4. WordTypes' /\ index' <= Len(argv')
  BY <1>2, <1>3 DEF WordsInv, WordTypes
<1> QED BY <1>2, <1>4 DEF WordsInv, IsRuleName

LEMMA GoneWords ==
    ASSUME Gone, pc' = "idle"
    PROVE  WordsInv'
<1>1. WordTypes'
  BY DEF Gone, WordTypes
<1> QED BY <1>1 DEF Gone, WordsInv

LEMMA FrameWords ==
    ASSUME WordsInv, UNCHANGED <<given, ran>>, pc' = "idle" <=> pc = "idle", pc' = "idle" \/ dry' = dry, Starting' => Starting
    PROVE  WordsInv'
<1>1. UNCHANGED <<argv, index, typed, line, again, ran>>
  BY DEF given
<1>2. WordTypes'
  BY <1>1 DEF WordsInv, WordTypes
<1> QED BY <1>1, <1>2 DEF WordsInv, IsRuleName

(* sh gives the words to the new process as they are when none has a       *)
(* character of its own.                                                   *)
LEMMA RestartWords ==
    ASSUME WordsInv, DryInv, BRestart
    PROVE  WordsInv'
<1>1. PICK words \in Shell[Tail(argv)] : Restart(Contains(words, "--dry-run")) /\ Started(words)
  BY DEF BRestart
<1>2. pc = "compiling" /\ caller \in {"manage", "script"} /\ pc' = "source" /\ dry' = Contains(words, "--dry-run")
  BY <1>1 DEF Restart
<1>3. UNCHANGED <<index, typed, ran>>
  BY DEF BRestart
<1>4. index = 0 /\ argv = <<PROGRAM>> \o line /\ line \in Lines /\ line \in Seq(Kept) /\ WordTypes
  BY <1>2 DEF WordsInv, WordTypes, Starting, DryInv
<1>5. words \in Shell[line]
  BY <1>1, <1>4, ArgvIs
<1>6. words \in Lines
  BY <1>4, <1>5, CommandLinesAssumption
<1>7. ASSUME Range(typed) \subseteq Plain PROVE line' = typed
  <2>1. line = typed
    BY <1>7 DEF WordsInv
  <2>2. Shell[line] = {line}
    BY <2>1, <1>4, <1>7, CommandLinesAssumption
  <2>3. words = line
    BY <2>2, <1>5
  <2>4. ~Contains(line, "--dry-run")
    BY <1>4 DEF Contains, Kept
  <2>5. ParseGlobalFlags(line) = line
    BY <2>4, <1>4, KeptAreWords, ParseWords
  <2> QED BY <2>1, <2>3, <2>5, <1>1 DEF Started
<1>8. ~again' \/ Range(typed') \subseteq Plain => line' = typed'
  BY <1>3, <1>7 DEF BRestart
<1>9. pc' # "idle"
  BY <1>2
<1> QED BY <1>1, <1>2, <1>3, <1>4, <1>6, <1>8, <1>9, StartedWords

LEMMA NextWords == WordsInv /\ DryInv /\ [BNext]_vars => WordsInv'
<1> SUFFICES ASSUME WordsInv, DryInv, [BNext]_vars PROVE WordsInv'
  OBVIOUS
<1>1. CASE BInvoke
  <2>1. PICK words \in CommandLines : Begin(words) /\ Invoke(Contains(words, "--dry-run"))
    BY <1>1 DEF BInvoke
  <2>2. words \in Lines
    BY CommandLinesAssumption
  <2>3. pc = "idle" /\ pc' # "idle" /\ dry' = Contains(words, "--dry-run")
    BY <2>1 DEF Invoke
  <2>4. Started(words) /\ typed' = line' /\ UNCHANGED <<index, ran>>
    BY <2>1 DEF Begin
  <2>5. index = 0
    BY <2>3 DEF WordsInv
  <2> QED BY <2>2, <2>3, <2>4, <2>5, StartedWords
<1>2. CASE BScript
  <2>1. Begin(<<>>) /\ RunScript
    BY <1>2 DEF BScript
  <2>2. <<>> \in Lines /\ ~Contains(<<>>, "--dry-run")
    BY CommandLinesAssumption DEF Contains
  <2>3. pc = "idle" /\ pc' # "idle" /\ dry' = Contains(<<>>, "--dry-run")
    BY <2>1, <2>2 DEF RunScript, Contains
  <2>4. Started(<<>>) /\ typed' = line' /\ UNCHANGED <<index, ran>>
    BY <2>1 DEF Begin
  <2>5. index = 0
    BY <2>3 DEF WordsInv
  <2> QED BY <2>2, <2>3, <2>4, <2>5, StartedWords
<1>3. CASE BManage
  <2>1. CASE pc' = "idle"
    BY <1>3, <2>1, GoneWords DEF BManage
  <2>2. CASE pc' # "idle"
    <3>1. UNCHANGED <<given, ran>>
      BY <1>3, <2>2 DEF BManage, process
    <3>2. pc # "idle" /\ dry' = dry /\ (Starting' => Starting)
      BY <1>3, <2>2 DEF BManage, StatSource, StatExec, StartCC, Exits, Starting
    <3> QED BY <2>2, <3>1, <3>2, FrameWords
  <2> QED BY <2>1, <2>2
<1>4. CASE BEndCC
  <2>1. CASE pc' = "idle"
    BY <1>4, <2>1, GoneWords DEF BEndCC
  <2>2. CASE pc' # "idle"
    <3>1. UNCHANGED <<given, ran>>
      BY <1>4, <2>2 DEF BEndCC, process
    <3>2. pc # "idle" /\ dry' = dry /\ ~Starting'
      BY <1>4, <2>2 DEF BEndCC, EndCC, NoRestart, CCFails, CCReturns, Exits, Starting
    <3> QED BY <2>2, <3>1, <3>2, FrameWords
  <2> QED BY <2>1, <2>2
<1>5. CASE RulesDone \/ Crash
  BY <1>5, GoneWords DEF RulesDone, Crash, RulesEnd, Exits
<1>6. CASE FirstRule
  BY <1>6, FirstRuleWords
<1>7. CASE ExecuteRule
  BY <1>7, ExecuteRuleWords
<1>8. CASE BuildLevelDB \/ BuildLibrary
  BY <1>8, FrameWords DEF BuildLevelDB, BuildLibrary, Returns, self, Starting
<1>9. CASE CollectFiles("vendor", Vendor) \/ CollectFiles("own", Own)
  BY <1>9, FrameWords DEF CollectFiles, self, Starting
<1>10. CASE \E f \in Sources : CompileFile(f)
  BY <1>10, FrameWords DEF CompileFile, self, Starting
<1>11. CASE Archive \/ LinkFiles \/ RemoveObjects \/ LinkTests
  BY <1>11, FrameWords DEF Archive, LinkFiles, RemoveObjects, LinkTests, Returns, self, Starting
<1>12. CASE Clean
  BY <1>12, FrameWords DEF Clean, CleanAll, self, Starting
<1>13. CASE SelfRule
  <2>1. UNCHANGED <<given, ran, dry>> /\ pc = "rules" /\ pc' # "idle" /\ ~Starting'
    BY <1>13 DEF SelfRule, RuleRebuilds, Starting
  <2> QED BY <2>1, FrameWords
<1>14. CASE BKill
  BY <1>14, GoneWords DEF BKill, Kill, Exits
<1>15. CASE \E f \in Sources : ChangeFile(f)
  BY <1>15, FrameWords DEF ChangeFile, self, process, Starting
<1>16. CASE BTick \/ BSave \/ BOrphanEnds
  BY <1>16, FrameWords DEF BTick, BSave, BOrphanEnds, Tick, SaveSource, Save, OrphanEnds, Others, process, Starting
<1>17. CASE UNCHANGED vars
  BY <1>17, FrameWords DEF vars, self, process, Starting
<1>18. CASE BRestart
  BY <1>18, RestartWords
<1> QED BY <1>1, <1>2, <1>3, <1>4, <1>5, <1>6, <1>7, <1>8, <1>9, <1>10, <1>11, <1>12, <1>13, <1>14, <1>15, <1>16,
           <1>17, <1>18 DEF BNext, BStep

(* ManageRules runs every word its process was given once and in order,    *)
(* with no rule's name among a rule's arguments, for every command line;   *)
(* and those are the words that were typed unless sh has read them again   *)
(* and one of them has a character that means something to it.             *)
THEOREM WordsRunOnce == BSpec => []EveryWordOnce
<1>1. WordsInv => EveryWordOnce
  <2> SUFFICES ASSUME WordsInv, pc = "rules" PROVE EveryWordOnce
    BY DEF EveryWordOnce
  <2>1. WordTypes /\ argv = <<PROGRAM>> \o line /\ ran \in Seq(Seq(Words)) /\ index \in Nat
    BY DEF WordsInv, WordTypes
  <2>2. line # <<>> => FlattenSeq(ran) \o SubSeq(argv, IF index = 0 THEN 2 ELSE index + 1, Len(argv)) = line
    <3>1. CASE index = 0
      BY <2>1, <3>1, ArgvIs DEF WordsInv
    <3>2. CASE index # 0
      <4>1. index > 0
        BY <2>1, <3>2
      <4> QED BY <3>2, <4>1 DEF WordsInv
    <3> QED BY <3>1, <3>2
  <2>3. DOMAIN ran = 1..Len(ran)
    BY <2>1
  <2>4. \A k \in 1..Len(ran) : \A j \in 2..Len(ran[k]) : ~IsRuleName(ran[k][j])
    BY DEF WordsInv
  <2>5. ~again \/ Range(typed) \subseteq Plain => line = typed
    BY DEF WordsInv
  <2> QED BY <2>2, <2>3, <2>4, <2>5, Zenon DEF EveryWordOnce
<1>2. BInit => DryInv
  BY DEF BInit, Init, DryInv
<1> QED BY <1>1, <1>2, InitWords, NextWords, RulesStep, DryNext, PTL DEF BSpec

-----------------------------------------------------------------------------
(* What the rules leave on the disk *)

Objects == {None} \cup (Nat \X SUBSET {"release", "debug"})

BTypes ==
    /\ tree \in [Sources -> Nat] /\ changes \in Nat
    /\ obj \in [Sources -> Objects] /\ lib \in [Sources -> Objects]
    /\ dylib \in [Sources -> Objects] /\ tests \in [Sources -> Objects]
    /\ cflags \in SUBSET {"release", "debug"}
    /\ failed \in BOOLEAN /\ changed \in BOOLEAN /\ dir \in BOOLEAN

(* Which call may follow which, and with which call a rule ends. *)
Follows(a, b) ==
    \/ a = "leveldb" /\ b = "library"
    \/ a \in {"library", "ar", "link"} /\ b = "objects"
    \/ a = "vendor" /\ b = "own"
    \/ a = "own" /\ b \in {"ar", "link"}
    \/ a = "compile" /\ b \in {"own", "ar", "link"}
    \/ a = "objects" /\ b = "tests"

Names == {"leveldb", "library", "vendor", "own", "compile", "ar", "link", "objects", "tests", "clean",
          "self-rebuild", "self-build-debug"}

Orderly(t) ==
    /\ t \in Seq(Names)
    /\ \A i \in 1..(Len(t) - 1) : Follows(t[i], t[i + 1])
    /\ t # <<>> => Last(t) \in {"objects", "tests", "clean", "self-rebuild", "self-build-debug"}

(* Between invocations nothing is left to do. *)
IdleInv == pc = "idle" => todo = <<>> /\ built = {}

IsCurrent(f) == tree[f] # 0 => obj[f] = <<tree[f], cflags>>

(* f has been compiled in the current build, or is not compiled at all. *)
IsDone(t, f) ==
    \/ Head(t) = "own" /\ f \in Vendor
    \/ Head(t) \in {"ar", "link"}
    \/ Head(t) = "compile" /\ f \notin work /\ (Head(Tail(t)) = "own" => f \in Vendor)

Undisturbed == ~failed /\ ~changed

ObjectsInv == Undisturbed /\ ~dry /\ todo # <<>> => \A f \in Sources : IsDone(todo, f) => IsCurrent(f)

(* What clean has removed comes back only as the object of a source. *)
CleanInv == Undisturbed /\ "clean" \in built => \A f \in Sources : tree[f] = 0 => obj[f] = None /\ lib[f] = None

LibInv == Undisturbed /\ "lib" \in built => \A f \in Sources : tree[f] # 0 => Current(lib, f)

DylibInv == Undisturbed /\ "dylib" \in built => \A f \in Sources : tree[f] # 0 => Current(dylib, f)

TestsInv == Undisturbed /\ "tests" \in built => \A f \in Sources : tree[f] # 0 => tests[f] = <<tree[f], {"release"}>>

(* A build that ends with the tests is the static release build without objects. *)
Release(t) ==
    t # <<>> /\ Last(t) = "tests" =>
        /\ HasArg(args, "no-obj") /\ HasArg(args, "static")
        /\ IF Head(t) \in {"leveldb", "library"}
             THEN args = <<"static", "no-obj", "release">> \/ HasArgCrashes(args, "release")
             ELSE cflags = {"release"}
        /\ Head(t) \in {"objects", "tests"} /\ Undisturbed /\ ~dry => "lib" \in built

(* The dynamic library is linked only when no static one was asked for. *)
LinkInv == \A i \in 1..Len(todo) : todo[i] = "link" => ~HasArg(args, "static")

(* After build-tests there is no build/, and the tests are linked last. *)
DirInv ==
    ~failed =>
        /\ todo # <<>> /\ Head(todo) = "tests" => ~dir
        /\ ran # <<>> /\ Head(Last(ran)) = "build-tests" => IF todo = <<>> THEN ~dir ELSE Last(todo) = "tests"

BInv == /\ BTypes /\ DryInv /\ Orderly(todo) /\ IdleInv /\ ObjectsInv /\ CleanInv /\ LibInv /\ DylibInv /\ TestsInv
        /\ Release(todo) /\ LinkInv /\ DirInv

LEMMA TailOrderly ==
    ASSUME NEW t, Orderly(t), t # <<>>
    PROVE  /\ Orderly(Tail(t))
           /\ Tail(t) # <<>> => Last(Tail(t)) = Last(t) /\ Follows(Head(t), Head(Tail(t)))
           /\ Tail(t) = <<>> => Last(t) = Head(t)
           /\ \A i \in 1..Len(Tail(t)) : i + 1 \in 1..Len(t) /\ Tail(t)[i] = t[i + 1]
<1>1. t \in Seq(Names) /\ Len(t) \in Nat \ {0} /\ Head(t) = t[1]
  BY DEF Orderly
<1>2. Tail(t) \in Seq(Names) /\ Len(Tail(t)) = Len(t) - 1
  BY <1>1
<1>3. \A i \in 1..Len(Tail(t)) : i + 1 \in 1..Len(t) /\ Tail(t)[i] = t[i + 1]
  BY <1>1, <1>2
<1>4. ASSUME Tail(t) # <<>> PROVE Last(Tail(t)) = Last(t) /\ Follows(Head(t), Head(Tail(t)))
  <2>1. Len(Tail(t)) \in Nat \ {0} /\ Head(Tail(t)) = Tail(t)[1]
    BY <1>2, <1>4
  <2>2. Tail(t)[1] = t[2] /\ Follows(t[1], t[2])
    BY <1>1, <1>2, <2>1, <1>3 DEF Orderly
  <2>3. Tail(t)[Len(Tail(t))] = t[Len(t)]
    BY <1>1, <1>2, <2>1, <1>3
  <2> QED BY <1>1, <2>1, <2>2, <2>3 DEF Last
<1>5. Tail(t) = <<>> => Last(t) = Head(t)
  BY <1>1, <1>2 DEF Last
<1>6. Orderly(Tail(t))
  <2>1. \A i \in 1..(Len(Tail(t)) - 1) : Follows(Tail(t)[i], Tail(t)[i + 1])
    BY <1>1, <1>2, <1>3 DEF Orderly
  <2> QED BY <1>2, <1>4, <2>1 DEF Orderly
<1> QED BY <1>3, <1>4, <1>5, <1>6

LEMMA ConsOrderly ==
    ASSUME NEW t, NEW a \in Names, Orderly(t), t # <<>>, Follows(a, Head(t))
    PROVE  /\ Orderly(<<a>> \o t) /\ <<a>> \o t # <<>>
           /\ Head(<<a>> \o t) = a /\ Tail(<<a>> \o t) = t /\ Last(<<a>> \o t) = Last(t)
           /\ \A i \in 1..Len(<<a>> \o t) : (<<a>> \o t)[i] = a \/ \E j \in 1..Len(t) : (<<a>> \o t)[i] = t[j]
<1> DEFINE u == <<a>> \o t
<1>1. t \in Seq(Names) /\ Len(t) \in Nat \ {0} /\ Head(t) = t[1]
  BY DEF Orderly
<1>2. u \in Seq(Names) /\ Len(u) = Len(t) + 1 /\ u[1] = a /\ u # <<>>
  <2>1. <<a>> \in Seq(Names) /\ Len(<<a>>) = 1 /\ <<a>>[1] = a
    OBVIOUS
  <2>2. u \in Seq(Names)
    BY <1>1, <2>1
  <2>3. Len(u) = Len(t) + 1 /\ u[1] = a
    BY <1>1, <2>1
  <2>4. u # <<>>
    BY <1>1, <2>3
  <2> QED BY <2>2, <2>3, <2>4
<1>3. \A i \in 1..Len(t) : u[i + 1] = t[i]
  BY <1>1
<1>4. Head(u) = a /\ Tail(u) = t
  BY <1>1
<1> HIDE DEF u
<1>5. Last(u) = Last(t)
  BY <1>1, <1>2, <1>3 DEF Last
<1>6. \A i \in 1..Len(u) : u[i] = a \/ \E j \in 1..Len(t) : u[i] = t[j]
  <2> SUFFICES ASSUME NEW i \in 1..Len(u), u[i] # a PROVE \E j \in 1..Len(t) : u[i] = t[j]
    OBVIOUS
  <2>1. i - 1 \in 1..Len(t) /\ (i - 1) + 1 = i
    BY <1>1, <1>2
  <2>2. u[(i - 1) + 1] = t[i - 1]
    BY <2>1, <1>3
  <2> QED BY <2>1, <2>2
<1>7. \A i \in 1..(Len(u) - 1) : Follows(u[i], u[i + 1])
  <2> SUFFICES ASSUME NEW i \in 1..(Len(u) - 1) PROVE Follows(u[i], u[i + 1])
    OBVIOUS
  <2>1. CASE i = 1
    BY <2>1, <1>1, <1>2, <1>3
  <2>2. CASE i # 1
    <3>1. i - 1 \in 1..(Len(t) - 1) /\ i - 1 \in 1..Len(t) /\ i \in 1..Len(t) /\ (i - 1) + 1 = i
      BY <2>2, <1>1, <1>2
    <3>2. u[(i - 1) + 1] = t[i - 1] /\ u[i + 1] = t[i]
      BY <3>1, <1>3
    <3>3. Follows(t[i - 1], t[(i - 1) + 1])
      BY <3>1 DEF Orderly
    <3> QED BY <3>1, <3>2, <3>3
  <2> QED BY <2>1, <2>2
<1>8. Orderly(u)
  BY <1>2, <1>5, <1>7 DEF Orderly
<1> QED BY <1>2, <1>4, <1>5, <1>6, <1>8 DEF u

LEMMA InitBInv == BInit => BInv
<1> SUFFICES ASSUME BInit PROVE BInv
  OBVIOUS
<1>1. Empty \in [Sources -> Objects] /\ tree \in [Sources -> Nat]
  BY DEF BInit, Empty, Objects
<1>2. BTypes
  BY <1>1 DEF BInit, BTypes
<1>3. DryInv /\ IdleInv
  BY DEF BInit, Init, DryInv, IdleInv
<1>4. Orderly(todo)
  BY DEF BInit, Orderly
<1>5. ObjectsInv /\ Release(todo) /\ LinkInv /\ DirInv
  BY DEF BInit, ObjectsInv, Release, LinkInv, DirInv
<1>6. CleanInv /\ LibInv /\ DylibInv /\ TestsInv
  BY DEF BInit, CleanInv, LibInv, DylibInv, TestsInv
<1> QED BY <1>2, <1>3, <1>4, <1>5, <1>6 DEF BInv

(* The end of a process *)
LEMMA GoneBInv ==
    ASSUME BInv, Gone, DryInv'
    PROVE  BInv'
<1>1. BTypes'
  BY DEF BInv, BTypes, Gone, disk, counters
<1>2. IdleInv' /\ Orderly(todo')
  BY DEF Gone, IdleInv, Orderly
<1>3. ObjectsInv' /\ Release(todo)' /\ LinkInv' /\ DirInv'
  BY DEF Gone, ObjectsInv, Release, LinkInv, DirInv
<1>4. CleanInv' /\ LibInv' /\ DylibInv' /\ TestsInv'
  BY DEF Gone, CleanInv, LibInv, DylibInv, TestsInv
<1> QED BY <1>1, <1>2, <1>3, <1>4 DEF BInv

(* Steps the rules take no part in *)
LEMMA FrameBInv ==
    ASSUME BInv, DryInv', UNCHANGED <<args, cflags, todo, work, ran, built, disk, tree, failed, changed>>,
           changes' \in Nat, pc' = "idle" => pc = "idle", dry => dry'
    PROVE  BInv'
<1> USE DEF BInv, disk
<1>1. BTypes'
  BY DEF BTypes
<1>2. IdleInv' /\ Orderly(todo')
  BY DEF IdleInv
<1>3. dry \in BOOLEAN /\ dry' \in BOOLEAN
  BY DEF DryInv
<1>4. ObjectsInv'
  BY <1>3 DEF ObjectsInv, IsDone, IsCurrent, Undisturbed
<1>5. Release(todo)'
  BY <1>3 DEF Release, Undisturbed
<1>6. LinkInv' /\ DirInv'
  BY DEF LinkInv, DirInv
<1>7. CleanInv' /\ LibInv' /\ DylibInv' /\ TestsInv'
  BY DEF CleanInv, LibInv, DylibInv, TestsInv, Undisturbed, Current
<1> QED BY <1>1, <1>2, <1>4, <1>5, <1>6, <1>7

(* A rebuild of the builder that ends while its rules are running, or fails *)
LEMMA FailBInv ==
    ASSUME BInv, DryInv', UNCHANGED <<process, disk, tree, changed, counters>>, failed' \in BOOLEAN, failed => failed',
           pc' # "idle", dry' = dry
    PROVE  BInv'
<1> USE DEF BInv, disk, process, counters
<1>1. BTypes'
  BY DEF BTypes
<1>2. IdleInv' /\ Orderly(todo')
  BY DEF IdleInv
<1>3. ~failed' => ~failed
  OBVIOUS
<1>4. ObjectsInv'
  BY <1>3 DEF ObjectsInv, IsDone, IsCurrent, Undisturbed
<1>5. Release(todo)'
  BY <1>3 DEF Release, Undisturbed
<1>6. LinkInv' /\ DirInv'
  BY <1>3 DEF LinkInv, DirInv
<1>7. CleanInv' /\ LibInv' /\ DylibInv' /\ TestsInv'
  BY <1>3 DEF CleanInv, LibInv, DylibInv, TestsInv, Undisturbed, Current
<1> QED BY <1>1, <1>2, <1>4, <1>5, <1>6, <1>7

(* A call that returns *)
LEMMA TailStep ==
    ASSUME BInv, todo # <<>>, todo' = Tail(todo), UNCHANGED args
    PROVE  /\ Orderly(todo') /\ LinkInv'
           /\ todo' # <<>> => Last(todo') = Last(todo) /\ Follows(Head(todo), Head(todo'))
           /\ todo' = <<>> => Last(todo) = Head(todo)
           /\ todo' = <<>> => Head(todo) \in {"objects", "tests", "clean", "self-rebuild", "self-build-debug"}
<1>1. Orderly(todo) /\ LinkInv
  BY DEF BInv
<1>2. /\ Orderly(Tail(todo))
      /\ Tail(todo) # <<>> => Last(Tail(todo)) = Last(todo) /\ Follows(Head(todo), Head(Tail(todo)))
      /\ Tail(todo) = <<>> => Last(todo) = Head(todo)
      /\ \A i \in 1..Len(Tail(todo)) : i + 1 \in 1..Len(todo) /\ Tail(todo)[i] = todo[i + 1]
  BY <1>1, TailOrderly
<1>3. LinkInv'
  BY <1>1, <1>2 DEF LinkInv, HasArg
<1>4. Last(todo) \in {"objects", "tests", "clean", "self-rebuild", "self-build-debug"}
  BY <1>1 DEF Orderly
<1> QED BY <1>2, <1>3, <1>4

(* A call before the rest of the rule *)
LEMMA ConsStep ==
    ASSUME NEW t, NEW a \in Names, Orderly(t), t # <<>>, Follows(a, Head(t)), NEW v, NEW w,
           \A i \in 1..Len(t) : t[i] = "link" => ~HasArg(v, w), a = "link" => ~HasArg(v, w)
    PROVE  /\ Orderly(<<a>> \o t) /\ <<a>> \o t # <<>>
           /\ Head(<<a>> \o t) = a /\ Tail(<<a>> \o t) = t /\ Last(<<a>> \o t) = Last(t)
           /\ \A i \in 1..Len(<<a>> \o t) : (<<a>> \o t)[i] = "link" => ~HasArg(v, w)
BY ConsOrderly

LEMMA LevelDBBInv ==
    ASSUME BInv, BuildLevelDB, DryInv'
    PROVE  BInv'
<1> USE DEF BInv
<1>1. todo # <<>> /\ Head(todo) = "leveldb" /\ todo' = Tail(todo) /\ (failed => failed') /\ failed' \in BOOLEAN
  BY DEF BuildLevelDB, Call, Returns, Fails, Succeeds, Skipped, BTypes
<1>2. UNCHANGED <<self, args, ran, tree, changed, counters, obj, dir, lib, dylib, tests, cflags, work, built>>
  BY DEF BuildLevelDB, Returns
<1>3. UNCHANGED <<pc, dry, changes>>
  BY <1>2 DEF self, counters
<1>4. Orderly(todo') /\ LinkInv' /\ todo' # <<>> /\ Last(todo') = Last(todo) /\ Head(todo') = "library"
  BY <1>1, <1>2, TailStep DEF Follows
<1>5. BTypes' /\ IdleInv'
  BY <1>1, <1>2, <1>3 DEF BTypes, IdleInv, BuildLevelDB, Call
<1>6. ObjectsInv'
  BY <1>4 DEF ObjectsInv, IsDone
<1>7. Release(todo)'
  BY <1>1, <1>2, <1>3, <1>4 DEF Release, HasArg, HasArgCrashes
<1>8. DirInv'
  BY <1>1, <1>2, <1>4 DEF DirInv
<1>9. CleanInv' /\ LibInv' /\ DylibInv' /\ TestsInv'
  BY <1>1, <1>2 DEF CleanInv, LibInv, DylibInv, TestsInv, Undisturbed, Current
<1> QED BY <1>4, <1>5, <1>6, <1>7, <1>8, <1>9

LEMMA LibraryBInv ==
    ASSUME BInv, BuildLibrary, DryInv'
    PROVE  BInv'
<1> USE DEF BInv
<1> DEFINE T == Tail(todo)
           x == IF Static THEN "ar" ELSE "link"
           U == <<x>> \o T
           V == <<"own">> \o U
           W == <<"vendor">> \o V
<1>1. todo # <<>> /\ Head(todo) = "library" /\ pc = "rules" /\ ~HasArgCrashes(args, "release")
  BY DEF BuildLibrary, Call
<1>2. UNCHANGED <<self, args, ran, tree, changed, counters, disk, work, failed>> /\ built' = built \ {"lib", "dylib"}
  BY DEF BuildLibrary
<1>3. UNCHANGED <<pc, dry, changes>> /\ UNCHANGED <<obj, dir, lib, dylib, tests>>
  BY <1>2 DEF self, counters, disk
<1>4. cflags' = {"release", "debug"} \cap Range(args)
  BY DEF BuildLibrary
<1>5. /\ Orderly(T) /\ T # <<>> /\ Last(T) = Last(todo) /\ Head(T) = "objects"
      /\ \A i \in 1..Len(T) : T[i] = "link" => ~HasArg(args, "static")
  <2>1. /\ Orderly(T)
        /\ T # <<>> => Last(T) = Last(todo) /\ Follows(Head(todo), Head(T))
        /\ T = <<>> => Last(todo) = Head(todo)
        /\ \A i \in 1..Len(T) : i + 1 \in 1..Len(todo) /\ T[i] = todo[i + 1]
    BY <1>1, TailOrderly
  <2>2. T # <<>>
    BY <1>1, <2>1 DEF Orderly
  <2>3. Head(T) = "objects"
    BY <1>1, <2>1, <2>2 DEF Follows
  <2>4. \A i \in 1..Len(T) : T[i] = "link" => ~HasArg(args, "static")
    BY <2>1 DEF LinkInv
  <2> QED BY <2>1, <2>2, <2>3, <2>4
<1>6. todo' = W \/ (todo' = T /\ ~Static)
  <2>1. T \in Seq(Names)
    BY <1>5 DEF Orderly
  <2>2. <<"vendor", "own", "ar">> \o T = <<"vendor">> \o (<<"own">> \o (<<"ar">> \o T))
    BY <2>1 DEF Names
  <2>3. <<"vendor", "own", "link">> \o T = <<"vendor">> \o (<<"own">> \o (<<"link">> \o T))
    BY <2>1 DEF Names
  <2>4. <<>> \o T = T
    BY <2>1
  <2> QED BY <2>2, <2>3, <2>4 DEF BuildLibrary
<1>7. /\ Orderly(W) /\ W # <<>> /\ Head(W) = "vendor" /\ Last(W) = Last(todo)
      /\ \A i \in 1..Len(W) : W[i] = "link" => ~HasArg(args, "static")
  <2>1. x \in Names /\ x \in {"ar", "link"} /\ Follows(x, "objects") /\ (x = "link" => ~HasArg(args, "static"))
    BY DEF Names, Follows, Static
  <2>2. "own" \in Names /\ "vendor" \in Names /\ Follows("own", x) /\ Follows("vendor", "own")
    BY <2>1 DEF Names, Follows
  <2> HIDE DEF T, x
  <2>3. /\ Orderly(U) /\ U # <<>> /\ Head(U) = x /\ Last(U) = Last(todo)
        /\ \A i \in 1..Len(U) : U[i] = "link" => ~HasArg(args, "static")
    BY <1>5, <2>1, ConsStep
  <2> HIDE DEF U
  <2>4. /\ Orderly(V) /\ V # <<>> /\ Head(V) = "own" /\ Last(V) = Last(todo)
        /\ \A i \in 1..Len(V) : V[i] = "link" => ~HasArg(args, "static")
    BY <2>2, <2>3, ConsStep
  <2> HIDE DEF V
  <2>5. /\ Orderly(W) /\ W # <<>> /\ Head(W) = "vendor" /\ Last(W) = Last(todo)
        /\ \A i \in 1..Len(W) : W[i] = "link" => ~HasArg(args, "static")
    <3>1. Follows("vendor", Head(V))
      BY <2>2, <2>4
    <3>2. "vendor" = "link" => ~HasArg(args, "static")
      OBVIOUS
    <3> QED BY <2>2, <2>4, <3>1, <3>2, ConsStep
  <2> QED BY <2>5
<1> HIDE DEF T, W
<1>8. /\ Orderly(todo') /\ todo' # <<>> /\ Last(todo') = Last(todo)
      /\ \A i \in 1..Len(todo') : todo'[i] = "link" => ~HasArg(args, "static")
      /\ Head(todo') = "vendor" \/ (Head(todo') = "objects" /\ ~Static)
  BY <1>5, <1>6, <1>7
<1>9. LinkInv'
  BY <1>2, <1>8 DEF LinkInv, HasArg
<1>10. BTypes' /\ IdleInv'
  BY <1>1, <1>2, <1>3, <1>4 DEF BTypes, IdleInv
<1>11. ObjectsInv'
  BY <1>8 DEF ObjectsInv, IsDone
<1>12. Release(todo)'
  <2> SUFFICES ASSUME Last(todo) = "tests"
               PROVE  /\ HasArg(args, "no-obj") /\ HasArg(args, "static") /\ cflags' = {"release"} /\ Head(todo') = "vendor"
    BY <1>2, <1>8 DEF Release, HasArg
  <2>1. HasArg(args, "no-obj") /\ HasArg(args, "static") /\ args = <<"static", "no-obj", "release">>
    BY <1>1 DEF Release
  <2>2. cflags' = {"release"}
    BY <1>4, <2>1 DEF Range
  <2> QED BY <1>8, <2>1, <2>2 DEF Static
<1>13. DirInv'
  BY <1>1, <1>2, <1>3, <1>8 DEF DirInv
<1>14. CleanInv' /\ LibInv' /\ DylibInv' /\ TestsInv'
  BY <1>2, <1>3 DEF CleanInv, LibInv, DylibInv, TestsInv, Undisturbed
<1> QED BY <1>8, <1>9, <1>10, <1>11, <1>12, <1>13, <1>14

LEMMA CollectBInv ==
    ASSUME BInv, DryInv', NEW name, NEW files, CollectFiles(name, files),
           (name = "vendor" /\ files = Vendor) \/ (name = "own" /\ files = Own)
    PROVE  BInv'
<1> USE DEF BInv
<1> DEFINE T == Tail(todo)
<1>1. todo # <<>> /\ Head(todo) = name /\ pc = "rules"
  BY DEF CollectFiles, Call
<1>2. UNCHANGED <<self, args, cflags, ran, built, obj, lib, dylib, tests, tree, failed, changed, counters>> /\ dir' = TRUE
  BY DEF CollectFiles
<1>3. UNCHANGED <<pc, dry, changes>>
  BY <1>2 DEF self, counters
<1>4. /\ Orderly(T) /\ T # <<>> /\ Last(T) = Last(todo) /\ Follows(name, Head(T))
      /\ \A i \in 1..Len(T) : T[i] = "link" => ~HasArg(args, "static")
  <2>1. /\ Orderly(T)
        /\ T # <<>> => Last(T) = Last(todo) /\ Follows(Head(todo), Head(T))
        /\ T = <<>> => Last(todo) = Head(todo)
        /\ \A i \in 1..Len(T) : i + 1 \in 1..Len(todo) /\ T[i] = todo[i + 1]
    BY <1>1, TailOrderly
  <2>2. T # <<>>
    BY <1>1, <2>1 DEF Orderly
  <2>3. \A i \in 1..Len(T) : T[i] = "link" => ~HasArg(args, "static")
    BY <2>1 DEF LinkInv
  <2> QED BY <1>1, <2>1, <2>2, <2>3
<1>5. work' = {f \in files : tree[f] # 0} /\ (todo' = T \/ todo' = <<"compile">> \o T)
  <2>1. T \in Seq(Names)
    BY <1>4 DEF Orderly
  <2>2. <<>> \o T = T
    BY <2>1
  <2> QED BY <2>2 DEF CollectFiles
<1>6. work' = {} => todo' = T
  <2>1. T \in Seq(Names)
    BY <1>4 DEF Orderly
  <2>2. <<>> \o T = T
    BY <2>1
  <2> QED BY <2>2 DEF CollectFiles
<1>7. work' # {} => todo' = <<"compile">> \o T
  BY DEF CollectFiles
<1> HIDE DEF T
<1>8. Head(T) = "own" <=> name = "vendor"
  BY <1>4 DEF Follows
<1>9. "compile" \in Names /\ Follows("compile", Head(T)) /\ Head(T) \in {"own", "ar", "link"}
  BY <1>4 DEF Names, Follows
<1>10. /\ Orderly(<<"compile">> \o T) /\ <<"compile">> \o T # <<>> /\ Head(<<"compile">> \o T) = "compile"
       /\ Tail(<<"compile">> \o T) = T /\ Last(<<"compile">> \o T) = Last(T)
       /\ \A i \in 1..Len(<<"compile">> \o T) : (<<"compile">> \o T)[i] = "link" => ~HasArg(args, "static")
  BY <1>4, <1>9, ConsStep
<1>11. /\ Orderly(todo') /\ todo' # <<>> /\ Last(todo') = Last(todo)
       /\ \A i \in 1..Len(todo') : todo'[i] = "link" => ~HasArg(args, "static")
       /\ Head(todo') \in {"compile", "own", "ar", "link"}
  BY <1>4, <1>5, <1>9, <1>10
<1>12. LinkInv'
  BY <1>2, <1>11 DEF LinkInv, HasArg
<1>13. BTypes' /\ IdleInv'
  BY <1>1, <1>2, <1>3 DEF BTypes, IdleInv
<1>14. ObjectsInv'
  <2> SUFFICES ASSUME ~failed, ~changed, ~dry, NEW f \in Sources, IsDone(todo, f)', tree[f] # 0
               PROVE  obj[f] = <<tree[f], cflags>>
    BY <1>2, <1>3 DEF ObjectsInv, IsCurrent, Undisturbed
  <2>1. f \notin work'
    BY <1>6, <1>7, <1>9, <1>10 DEF IsDone
  <2>2. f \notin files
    BY <2>1, <1>5
  <2>3. Head(T) = "own" => f \in Vendor
    BY <1>6, <1>7, <1>10 DEF IsDone
  <2>4. name = "own" /\ f \in Vendor
    BY <2>2, <2>3, <1>8 DEF Sources
  <2> QED BY <2>4, <1>1 DEF ObjectsInv, IsCurrent, Undisturbed, IsDone
<1>15. Release(todo)'
  BY <1>1, <1>2, <1>3, <1>11 DEF Release, HasArg, Undisturbed
<1>16. DirInv'
  BY <1>1, <1>2, <1>3, <1>11 DEF DirInv
<1>17. CleanInv' /\ LibInv' /\ DylibInv' /\ TestsInv'
  BY <1>2 DEF CleanInv, LibInv, DylibInv, TestsInv, Undisturbed, Current
<1> QED BY <1>11, <1>12, <1>13, <1>14, <1>15, <1>16, <1>17

LEMMA CompileBInv ==
    ASSUME BInv, DryInv', NEW f \in Sources, CompileFile(f)
    PROVE  BInv'
<1> USE DEF BInv
<1>1. todo # <<>> /\ Head(todo) = "compile" /\ pc = "rules" /\ work' = work \ {f} /\ (todo' = Tail(todo) \/ todo' = todo)
  BY DEF CompileFile, Call
<1>2. UNCHANGED <<self, args, cflags, ran, built, dir, lib, dylib, tests, tree, changed, counters>>
  BY DEF CompileFile
<1>3. UNCHANGED <<pc, dry, changes>>
  BY <1>2 DEF self, counters
<1>4. /\ failed => failed'
      /\ failed' \in BOOLEAN
      /\ obj' \in [Sources -> Objects]
      /\ \A g \in Sources : g # f => obj'[g] = obj[g]
      /\ tree[f] = 0 => obj'[f] \in {obj[f], None}
      /\ ~failed' /\ ~dry /\ tree[f] # 0 => obj'[f] = <<tree[f], cflags>>
  <2>1. CASE Compiled(f)
    <3>1. tree[f] # 0 /\ failed' = failed /\ obj' = [obj EXCEPT ![f] = <<tree[f], cflags>>]
      BY <2>1 DEF Compiled, Succeeds
    <3>2. <<tree[f], cflags>> \in Objects
      BY DEF BTypes, Objects
    <3> QED BY <3>1, <3>2 DEF BTypes
  <2>2. CASE Fails /\ \E o \in {obj[f], None} : obj' = [obj EXCEPT ![f] = o]
    <3>1. PICK o \in {obj[f], None} : obj' = [obj EXCEPT ![f] = o]
      BY <2>2
    <3>2. failed' = TRUE /\ o \in Objects
      BY <2>2 DEF Fails, BTypes, Objects
    <3> QED BY <3>1, <3>2 DEF BTypes
  <2>3. CASE Skipped /\ UNCHANGED obj
    BY <2>3 DEF Skipped, BTypes
  <2> QED BY <2>1, <2>2, <2>3 DEF CompileFile
<1>5. todo' = todo \/ (work' = {} /\ todo' = Tail(todo))
  BY DEF CompileFile
<1>6. /\ Orderly(todo') /\ LinkInv' /\ todo' # <<>> /\ Last(todo') = Last(todo)
      /\ Head(todo') \in {"compile", "own", "ar", "link"}
      /\ todo' = Tail(todo) => Follows("compile", Head(todo'))
  <2>1. CASE todo' = todo
    <3>1. LinkInv' /\ Orderly(todo') /\ todo' # <<>> /\ Last(todo') = Last(todo) /\ Head(todo') = "compile"
      BY <2>1, <1>1, <1>2 DEF LinkInv, HasArg
    <3>2. todo' # Tail(todo)
      BY <1>1, <2>1, TailOrderly DEF Orderly
    <3> QED BY <3>1, <3>2
  <2>2. CASE todo' = Tail(todo)
    BY <2>2, <1>1, <1>2, TailStep DEF Follows
  <2> QED BY <2>1, <2>2, <1>5
<1>7. BTypes' /\ IdleInv'
  BY <1>1, <1>2, <1>3, <1>4 DEF BTypes, IdleInv
<1>8. ObjectsInv'
  <2> SUFFICES ASSUME ~failed', ~changed, ~dry, NEW g \in Sources, IsDone(todo, g)', tree[g] # 0
               PROVE  obj'[g] = <<tree[g], cflags>>
    BY <1>2, <1>3 DEF ObjectsInv, IsCurrent, Undisturbed
  <2>1. CASE g = f
    BY <2>1, <1>4
  <2>2. CASE g # f
    <3>1. IsDone(todo, g)
      <4>1. CASE todo' = todo
        BY <4>1, <2>2, <1>1 DEF IsDone
      <4>2. CASE work' = {} /\ todo' = Tail(todo)
        <5>1. g \notin work
          BY <4>2, <2>2, <1>1
        <5>2. Head(Tail(todo)) = "own" => g \in Vendor
          BY <4>2 DEF IsDone
        <5> QED BY <5>1, <5>2, <1>1 DEF IsDone
      <4> QED BY <4>1, <4>2, <1>5
    <3>2. obj[g] = <<tree[g], cflags>>
      BY <3>1, <1>1, <1>4 DEF ObjectsInv, IsCurrent, Undisturbed
    <3> QED BY <3>2, <2>2, <1>4
  <2> QED BY <2>1, <2>2
<1>9. Release(todo)'
  BY <1>1, <1>2, <1>3, <1>6 DEF Release, HasArg
<1>10. DirInv'
  BY <1>1, <1>2, <1>4, <1>6 DEF DirInv
<1>11. CleanInv'
  BY <1>2, <1>4 DEF CleanInv, Undisturbed
<1>12. LibInv' /\ DylibInv' /\ TestsInv'
  BY <1>2, <1>4 DEF LibInv, DylibInv, TestsInv, Undisturbed, Current
<1> QED BY <1>6, <1>7, <1>8, <1>9, <1>10, <1>11, <1>12

LEMMA ArchiveBInv ==
    ASSUME BInv, DryInv', Archive
    PROVE  BInv'
<1> USE DEF BInv
<1>1. todo # <<>> /\ Head(todo) = "ar" /\ pc = "rules" /\ todo' = Tail(todo)
  BY DEF Archive, Call, Returns
<1>2. UNCHANGED <<self, args, cflags, ran, obj, dir, dylib, tests, work, tree, changed, counters>>
  BY DEF Archive, Returns
<1>3. UNCHANGED <<pc, dry, changes>>
  BY <1>2 DEF self, counters
<1>4. /\ failed => failed'
      /\ failed' \in BOOLEAN
      /\ \/ /\ ~dry /\ built' = built \cup {"lib"}
             /\ lib' = [f \in Sources |-> IF obj[f] # None THEN obj[f] ELSE lib[f]]
         \/ UNCHANGED <<lib, built>> /\ (failed' \/ dry)
  <2>1. CASE Succeeds /\ built' = built \cup {"lib"} /\ lib' = [f \in Sources |-> IF obj[f] # None THEN obj[f] ELSE lib[f]]
    BY <2>1 DEF Succeeds, BTypes
  <2>2. CASE Fails /\ UNCHANGED <<lib, built>>
    BY <2>2 DEF Fails
  <2>3. CASE Skipped /\ UNCHANGED <<lib, built>>
    BY <2>3 DEF Skipped, BTypes
  <2> QED BY <2>1, <2>2, <2>3 DEF Archive
<1>5. Orderly(todo') /\ LinkInv' /\ todo' # <<>> /\ Last(todo') = Last(todo) /\ Head(todo') = "objects"
  BY <1>1, <1>2, TailStep DEF Follows
<1>6. BTypes' /\ IdleInv'
  BY <1>1, <1>2, <1>3, <1>4 DEF BTypes, IdleInv
<1>7. ObjectsInv'
  BY <1>5 DEF ObjectsInv, IsDone
<1>8. Release(todo)'
  BY <1>1, <1>2, <1>3, <1>4, <1>5 DEF Release, HasArg, Undisturbed
<1>9. DirInv'
  BY <1>1, <1>2, <1>4, <1>5 DEF DirInv
<1>10. CleanInv'
  BY <1>2, <1>4 DEF CleanInv, Undisturbed
<1>11. LibInv'
  <2>1. CASE ~dry /\ lib' = [f \in Sources |-> IF obj[f] # None THEN obj[f] ELSE lib[f]]
    <3> SUFFICES ASSUME ~failed', ~changed, NEW f \in Sources, tree[f] # 0
                 PROVE  lib'[f] = <<tree[f], cflags>>
      BY <1>2 DEF LibInv, Undisturbed, Current
    <3>1. obj[f] = <<tree[f], cflags>>
      BY <2>1, <1>1, <1>4 DEF ObjectsInv, IsDone, IsCurrent, Undisturbed
    <3>2. obj[f] # None
      BY <3>1 DEF None
    <3> QED BY <2>1, <3>1, <3>2
  <2>2. CASE UNCHANGED <<lib, built>>
    BY <2>2, <1>2, <1>4 DEF LibInv, Undisturbed, Current
  <2> QED BY <2>1, <2>2, <1>4
<1>12. DylibInv' /\ TestsInv'
  BY <1>2, <1>4 DEF DylibInv, TestsInv, Undisturbed, Current
<1> QED BY <1>5, <1>6, <1>7, <1>8, <1>9, <1>10, <1>11, <1>12

LEMMA LinkBInv ==
    ASSUME BInv, DryInv', LinkFiles
    PROVE  BInv'
<1> USE DEF BInv
<1>1. todo # <<>> /\ Head(todo) = "link" /\ pc = "rules" /\ todo' = Tail(todo)
  BY DEF LinkFiles, Call, Returns
<1>2. UNCHANGED <<self, args, cflags, ran, obj, dir, lib, tests, work, tree, changed, counters>>
  BY DEF LinkFiles, Returns
<1>3. UNCHANGED <<pc, dry, changes>>
  BY <1>2 DEF self, counters
<1>4. Empty \in [Sources -> Objects]
  BY DEF Empty, Objects
<1>5. /\ failed => failed'
      /\ failed' \in BOOLEAN
      /\ dylib' \in {dylib, obj, Empty}
      /\ built' \in {built, built \cup {"dylib"}}
      /\ \/ failed' /\ built' = built
         \/ UNCHANGED <<dylib, built>>
         \/ ~dry /\ dylib' = obj
  <2>1. CASE UNCHANGED <<dylib, built, failed>>
    BY <2>1 DEF BTypes
  <2>2. CASE Succeeds /\ dylib' = obj /\ built' = built \cup {"dylib"}
    BY <2>2 DEF Succeeds, BTypes
  <2>3. CASE Fails /\ dylib' \in {dylib, Empty} /\ UNCHANGED built
    BY <2>3 DEF Fails
  <2> QED BY <2>1, <2>2, <2>3 DEF LinkFiles, Skipped
<1>6. Orderly(todo') /\ LinkInv' /\ todo' # <<>> /\ Last(todo') = Last(todo) /\ Head(todo') = "objects"
  BY <1>1, <1>2, TailStep DEF Follows
<1>7. BTypes' /\ IdleInv'
  BY <1>1, <1>2, <1>3, <1>4, <1>5 DEF BTypes, IdleInv
<1>8. ObjectsInv'
  BY <1>6 DEF ObjectsInv, IsDone
<1>9. Release(todo)'
  <2>1. ~HasArg(args, "static")
    BY <1>1 DEF LinkInv, Orderly
  <2>2. Last(todo) # "tests"
    BY <2>1, <1>1 DEF Release
  <2> QED BY <2>2, <1>6 DEF Release
<1>10. DirInv'
  BY <1>1, <1>2, <1>5, <1>6 DEF DirInv
<1>11. DylibInv'
  <2>1. CASE ~dry /\ dylib' = obj
    BY <2>1, <1>1, <1>2, <1>5 DEF DylibInv, ObjectsInv, IsDone, IsCurrent, Undisturbed, Current
  <2>2. CASE UNCHANGED <<dylib, built>>
    BY <2>2, <1>2, <1>5 DEF DylibInv, Undisturbed, Current
  <2> QED BY <2>1, <2>2, <1>5 DEF DylibInv, Undisturbed
<1>12. CleanInv' /\ LibInv' /\ TestsInv'
  BY <1>2, <1>5 DEF CleanInv, LibInv, TestsInv, Undisturbed, Current
<1> QED BY <1>6, <1>7, <1>8, <1>9, <1>10, <1>11, <1>12

LEMMA RemoveTypes ==
    ASSUME BTypes, RemoveDirectory
    PROVE  /\ obj' \in [Sources -> Objects] /\ dir' \in BOOLEAN /\ failed' \in BOOLEAN
           /\ failed => failed'
           /\ ~failed' => ~dir'
           /\ \A f \in Sources : obj'[f] \in {obj[f], None}
<1>1. CASE obj' = Empty /\ dir' = FALSE /\ UNCHANGED failed
  BY <1>1 DEF BTypes, Empty, Objects
<1>2. CASE /\ UNCHANGED dir /\ failed' = TRUE
           /\ \E left \in SUBSET Present(obj) : obj' = [f \in Sources |-> IF f \in left THEN obj[f] ELSE None]
  BY <1>2 DEF BTypes, Objects
<1> QED BY <1>1, <1>2 DEF RemoveDirectory

LEMMA RemoveBInv ==
    ASSUME BInv, DryInv', RemoveObjects
    PROVE  BInv'
<1> USE DEF BInv
<1>1. todo # <<>> /\ Head(todo) = "objects" /\ pc = "rules" /\ todo' = Tail(todo)
  BY DEF RemoveObjects, Call, Returns
<1>2. UNCHANGED <<self, args, cflags, ran, lib, dylib, tests, work, built, tree, changed, counters>>
  BY DEF RemoveObjects, Returns
<1>3. UNCHANGED <<pc, dry, changes>>
  BY <1>2 DEF self, counters
<1>4. /\ obj' \in [Sources -> Objects] /\ dir' \in BOOLEAN /\ failed' \in BOOLEAN
      /\ failed => failed'
      /\ \A f \in Sources : obj'[f] \in {obj[f], None}
      /\ HasArg(args, "no-obj") /\ ~failed' => ~dir'
  <2>1. CASE HasArg(args, "no-obj")
    BY <2>1, RemoveTypes DEF RemoveObjects
  <2>2. CASE ~HasArg(args, "no-obj")
    BY <2>2 DEF RemoveObjects, BTypes
  <2> QED BY <2>1, <2>2
<1>5. /\ Orderly(todo') /\ LinkInv'
      /\ todo' # <<>> => Head(todo') = "tests" /\ Last(todo') = Last(todo)
      /\ todo' = <<>> => Last(todo) = "objects"
  BY <1>1, <1>2, TailStep DEF Follows
<1>6. todo' # <<>> => Last(todo) = "tests"
  <2> SUFFICES ASSUME todo' # <<>> PROVE Last(todo') = "tests"
    BY <1>5
  <2>1. todo' \in Seq(Names) /\ Head(todo') = todo'[1] /\ Len(todo') \in Nat \ {0}
    BY <1>5 DEF Orderly
  <2>2. Len(todo') = 1
    <3> SUFFICES ASSUME Len(todo') # 1 PROVE FALSE
      OBVIOUS
    <3> DEFINE n == Len(todo')
    <3>1. 1 \in 1..(n - 1)
      <4>1. n \in Nat \ {0} /\ n # 1
        BY <2>1
      <4> HIDE DEF n
      <4> QED BY <4>1
    <3>2. Follows(todo'[1], todo'[1 + 1])
      BY <3>1, <1>5 DEF Orderly
    <3> QED BY <3>2, <2>1, <1>5 DEF Follows
  <2> QED BY <2>1, <2>2, <1>5 DEF Last
<1>7. BTypes' /\ IdleInv'
  BY <1>1, <1>2, <1>3, <1>4 DEF BTypes, IdleInv
<1>8. ObjectsInv'
  BY <1>5 DEF ObjectsInv, IsDone
<1>9. Release(todo)'
  BY <1>1, <1>2, <1>3, <1>4, <1>5 DEF Release, HasArg, Undisturbed
<1>10. DirInv'
  <2>1. CASE todo' # <<>>
    <3>1. Last(todo) = "tests" /\ HasArg(args, "no-obj")
      BY <2>1, <1>1, <1>6 DEF Release
    <3>2. ~failed' => ~dir'
      BY <3>1, <1>4
    <3> QED BY <2>1, <3>1, <3>2, <1>5 DEF DirInv
  <2>2. CASE todo' = <<>>
    BY <2>2, <1>1, <1>2, <1>4, <1>5 DEF DirInv
  <2> QED BY <2>1, <2>2
<1>11. CleanInv'
  BY <1>2, <1>4 DEF CleanInv, Undisturbed
<1>12. LibInv' /\ DylibInv' /\ TestsInv'
  BY <1>2, <1>4 DEF LibInv, DylibInv, TestsInv, Undisturbed, Current
<1> QED BY <1>5, <1>7, <1>8, <1>9, <1>10, <1>11, <1>12

(* A call that no other may follow is the last. *)
LEMMA LastCall ==
    ASSUME BInv, todo # <<>>, todo' = Tail(todo), UNCHANGED args,
           Head(todo) \in {"tests", "clean", "self-rebuild", "self-build-debug"}
    PROVE  todo' = <<>> /\ Last(todo) = Head(todo) /\ Orderly(todo') /\ LinkInv'
<1>1. /\ Orderly(todo') /\ LinkInv'
      /\ todo' # <<>> => Follows(Head(todo), Head(todo'))
      /\ todo' = <<>> => Last(todo) = Head(todo)
  BY TailStep
<1>2. ~Follows(Head(todo), Head(todo'))
  BY DEF Follows
<1> QED BY <1>1, <1>2

LEMMA TestsBInv ==
    ASSUME BInv, DryInv', LinkTests
    PROVE  BInv'
<1> USE DEF BInv
<1>1. todo # <<>> /\ Head(todo) = "tests" /\ pc = "rules" /\ todo' = Tail(todo)
  BY DEF LinkTests, Call, Returns
<1>2. UNCHANGED <<self, args, cflags, ran, obj, dir, lib, dylib, work, tree, changed, counters>>
  BY DEF LinkTests, Returns
<1>3. UNCHANGED <<pc, dry, changes>>
  BY <1>2 DEF self, counters
<1>4. Empty \in [Sources -> Objects]
  BY DEF Empty, Objects
<1>5. /\ failed => failed'
      /\ failed' \in BOOLEAN
      /\ tests' \in {tests, lib, Empty}
      /\ built' \in {built, built \cup {"tests"}}
      /\ \/ failed'
         \/ UNCHANGED <<tests, built>>
         \/ ~dry /\ tests' = lib
  <2>1. CASE Succeeds /\ tests' = lib /\ built' = built \cup {"tests"}
    BY <2>1 DEF Succeeds, BTypes
  <2>2. CASE Fails /\ tests' \in {tests, Empty} /\ UNCHANGED built
    BY <2>2 DEF Fails
  <2>3. CASE Skipped /\ UNCHANGED <<tests, built>>
    BY <2>3 DEF Skipped, BTypes
  <2> QED BY <2>1, <2>2, <2>3 DEF LinkTests
<1>6. todo' = <<>> /\ Last(todo) = "tests" /\ Orderly(todo') /\ LinkInv'
  BY <1>1, <1>2, LastCall
<1>7. BTypes' /\ IdleInv'
  BY <1>1, <1>2, <1>3, <1>4, <1>5 DEF BTypes, IdleInv
<1>8. ObjectsInv' /\ Release(todo)'
  BY <1>6 DEF ObjectsInv, Release
<1>9. DirInv'
  BY <1>1, <1>2, <1>5, <1>6 DEF DirInv
<1>10. TestsInv'
  <2>1. CASE ~dry /\ tests' = lib
    <3> SUFFICES ASSUME ~failed', ~changed, NEW f \in Sources, tree[f] # 0
                 PROVE  lib[f] = <<tree[f], {"release"}>>
      BY <2>1, <1>2 DEF TestsInv, Undisturbed
    <3>1. ~failed
      BY <1>5
    <3>2. cflags = {"release"} /\ "lib" \in built
      BY <2>1, <3>1, <1>1, <1>6 DEF Release, Undisturbed
    <3> QED BY <3>1, <3>2 DEF LibInv, Undisturbed, Current
  <2>2. CASE UNCHANGED <<tests, built>>
    BY <2>2, <1>2, <1>5 DEF TestsInv, Undisturbed
  <2>3. CASE failed'
    BY <2>3 DEF TestsInv, Undisturbed
  <2> QED BY <2>1, <2>2, <2>3, <1>5
<1>11. CleanInv' /\ LibInv' /\ DylibInv'
  BY <1>2, <1>5 DEF CleanInv, LibInv, DylibInv, Undisturbed, Current
<1> QED BY <1>6, <1>7, <1>8, <1>9, <1>10, <1>11

LEMMA CleanBInv ==
    ASSUME BInv, DryInv', Clean
    PROVE  BInv'
<1> USE DEF BInv
<1>1. todo # <<>> /\ Head(todo) = "clean" /\ pc = "rules" /\ todo' = Tail(todo) /\ built' = {"clean"}
  BY DEF Clean, Call
<1>2. UNCHANGED <<args, cflags, ran, work, tree, changed, counters>> /\ lib' = Empty /\ dylib' = Empty /\ tests' = Empty
  BY DEF Clean, Cleaned
<1>3. UNCHANGED <<pc, dry, changes>>
  BY <1>2 DEF Clean, CleanAll, self, counters
<1>4. Empty \in [Sources -> Objects] /\ \A f \in Sources : Empty[f] = None
  BY DEF Empty, Objects
<1>5. obj' \in [Sources -> Objects] /\ dir' \in BOOLEAN /\ failed' \in BOOLEAN /\ (~failed' => ~dir')
  BY RemoveTypes DEF Clean
<1>6. ~failed' => obj' = Empty
  BY DEF Clean, RemoveDirectory
<1>7. todo' = <<>> /\ Orderly(todo') /\ LinkInv'
  BY <1>1, <1>2, LastCall
<1>8. BTypes' /\ IdleInv'
  BY <1>1, <1>2, <1>3, <1>4, <1>5 DEF BTypes, IdleInv
<1>9. ObjectsInv' /\ Release(todo)'
  BY <1>7 DEF ObjectsInv, Release
<1>10. DirInv'
  BY <1>5, <1>7 DEF DirInv
<1>11. CleanInv'
  BY <1>2, <1>4, <1>6 DEF CleanInv, Undisturbed
<1>12. LibInv' /\ DylibInv' /\ TestsInv'
  BY <1>1 DEF LibInv, DylibInv, TestsInv
<1> QED BY <1>7, <1>8, <1>9, <1>10, <1>11, <1>12

LEMMA SelfRuleBInv ==
    ASSUME BInv, DryInv', SelfRule
    PROVE  BInv'
<1> USE DEF BInv
<1>1. todo # <<>> /\ Head(todo) \in {"self-rebuild", "self-build-debug"} /\ todo' = Tail(todo)
  BY DEF SelfRule, Call
<1>2. UNCHANGED <<args, cflags, work, ran, built, disk, tree, failed, changed, counters>>
  BY DEF SelfRule
<1>3. pc' # "idle" /\ UNCHANGED <<obj, dir, lib, dylib, tests, changes>>
  BY <1>2 DEF SelfRule, RuleRebuilds, disk, counters
<1>4. todo' = <<>> /\ Last(todo) = Head(todo) /\ Orderly(todo') /\ LinkInv'
  BY <1>1, <1>2, LastCall
<1>5. BTypes' /\ IdleInv'
  BY <1>2, <1>3 DEF BTypes, IdleInv
<1>6. ObjectsInv' /\ Release(todo)'
  BY <1>4 DEF ObjectsInv, Release
<1>7. DirInv'
  BY <1>1, <1>2, <1>3, <1>4 DEF DirInv
<1>8. CleanInv' /\ LibInv' /\ DylibInv' /\ TestsInv'
  BY <1>2, <1>3 DEF CleanInv, LibInv, DylibInv, TestsInv, Undisturbed, Current
<1> QED BY <1>4, <1>5, <1>6, <1>7, <1>8

LEMMA CallsOrderly ==
    ASSUME NEW rule
    PROVE  /\ Orderly(Calls(rule))
           /\ Calls(rule) # <<>> => Head(Calls(rule)) \in {"leveldb", "clean", "self-rebuild", "self-build-debug"}
           /\ IF rule = "build-tests" THEN Calls(rule) # <<>> /\ Last(Calls(rule)) = "tests"
              ELSE Calls(rule) # <<>> => Last(Calls(rule)) # "tests"
           /\ \A i \in 1..Len(Calls(rule)) : Calls(rule)[i] # "link"
<1> USE DEF Orderly, Names, Follows, Last
<1>1. CASE rule = "build"
  <2>1. Calls(rule) = <<"leveldb", "library", "objects">>
    BY <1>1 DEF Calls
  <2> QED BY <2>1, <1>1
<1>2. CASE rule = "build-tests"
  <2>1. Calls(rule) = <<"leveldb", "library", "objects", "tests">>
    BY <1>2 DEF Calls
  <2> QED BY <2>1, <1>2
<1>3. CASE rule = "clean"
  <2>1. Calls(rule) = <<"clean">>
    BY <1>3 DEF Calls
  <2> QED BY <2>1, <1>3
<1>4. CASE rule \in {"self-rebuild", "self-build-debug"}
  <2>1. Calls(rule) = <<rule>>
    BY <1>4 DEF Calls
  <2> QED BY <2>1, <1>4
<1>5. CASE rule \notin {"build", "build-tests", "clean", "self-rebuild", "self-build-debug"}
  <2>1. Calls(rule) = <<>>
    BY <1>5 DEF Calls
  <2> QED BY <2>1, <1>5
<1> QED BY <1>1, <1>2, <1>3, <1>4, <1>5

LEMMA TestsArguments ==
    ASSUME NEW a
    PROVE  /\ HasArg(Arguments("build-tests", a), "no-obj") /\ HasArg(Arguments("build-tests", a), "static")
           /\ \/ Arguments("build-tests", a) = <<"static", "no-obj", "release">>
              \/ HasArgCrashes(Arguments("build-tests", a), "release")
<1>1. CASE HasArg(a, "debug")
  <2> DEFINE v == <<"static", "debug", "no-obj", NULL>>
  <2>1. Arguments("build-tests", a) = v
    BY <1>1 DEF Arguments
  <2>2. HasArg(v, "no-obj") /\ HasArg(v, "static") /\ Contains(v, NULL)
    BY DEF HasArg, Contains, NULL
  <2>3. ~Contains(v, "release")
    BY DEF Contains, NULL
  <2> QED BY <2>1, <2>2, <2>3 DEF HasArgCrashes
<1>2. CASE ~HasArg(a, "debug")
  <2>1. Arguments("build-tests", a) = <<"static", "no-obj", "release">>
    BY <1>2 DEF Arguments
  <2>2. HasArg(<<"static", "no-obj", "release">>, "no-obj") /\ HasArg(<<"static", "no-obj", "release">>, "static")
    BY DEF HasArg, Contains
  <2> QED BY <2>1, <2>2
<1> QED BY <1>1, <1>2

LEMMA LastOfAppend ==
    ASSUME NEW S, NEW s \in Seq(S), NEW e \in S
    PROVE  Append(s, e) # <<>> /\ Last(Append(s, e)) = e
BY AppendProperties DEF Last

LEMMA ExecuteBInv ==
    ASSUME BInv, DryInv', WordTypes, NEW rule, NEW a, NEW x \in Seq(Words), x = <<rule>> \o a, Head(x) = rule,
           Execute(rule, a), pc = "rules", todo = <<>>,
           UNCHANGED <<self, cflags, work, built, disk, tree, failed, changed, counters>>
    PROVE  BInv'
<1> USE DEF BInv
<1>1. todo' = Calls(rule) /\ args' = Arguments(rule, a) /\ ran' = Append(ran, x)
  BY DEF Execute
<1>2. UNCHANGED <<self, cflags, work, built, disk, tree, failed, changed, counters>>
  OBVIOUS
<1>3. UNCHANGED <<pc, dry, changes, obj, dir, lib, dylib, tests>>
  BY <1>2 DEF self, disk, counters
<1>4. /\ Orderly(todo')
      /\ todo' # <<>> => Head(todo') \in {"leveldb", "clean", "self-rebuild", "self-build-debug"}
      /\ IF rule = "build-tests" THEN todo' # <<>> /\ Last(todo') = "tests" ELSE todo' # <<>> => Last(todo') # "tests"
      /\ \A i \in 1..Len(todo') : todo'[i] # "link"
  BY <1>1, CallsOrderly
<1>5. ran' # <<>> /\ Last(ran') = x
  <2>1. ran \in Seq(Seq(Words))
    BY DEF WordTypes
  <2> QED BY <1>1, <2>1, LastOfAppend, Zenon
<1>6. LinkInv'
  BY <1>4 DEF LinkInv
<1>7. BTypes' /\ IdleInv'
  BY <1>2, <1>3 DEF BTypes, IdleInv
<1>8. ObjectsInv'
  BY <1>4 DEF ObjectsInv, IsDone
<1>9. Release(todo)'
  <2>1. CASE rule = "build-tests"
    <3>1. Head(todo') = "leveldb"
      BY <2>1, <1>1 DEF Calls
    <3>2. /\ HasArg(args', "no-obj") /\ HasArg(args', "static")
          /\ args' = <<"static", "no-obj", "release">> \/ HasArgCrashes(args', "release")
      BY <2>1, <1>1, TestsArguments
    <3> QED BY <3>1, <3>2 DEF Release, HasArg, HasArgCrashes
  <2>2. CASE rule # "build-tests"
    BY <2>2, <1>4 DEF Release
  <2> QED BY <2>1, <2>2
<1>10. DirInv'
  BY <1>4, <1>5 DEF DirInv
<1>11. CleanInv' /\ LibInv' /\ DylibInv' /\ TestsInv'
  BY <1>2, <1>3 DEF CleanInv, LibInv, DylibInv, TestsInv, Undisturbed, Current
<1> QED BY <1>4, <1>6, <1>7, <1>8, <1>9, <1>10, <1>11

LEMMA ChangeBInv ==
    ASSUME BInv, DryInv', NEW f \in Sources, ChangeFile(f)
    PROVE  BInv'
<1> USE DEF BInv
<1>1. UNCHANGED <<self, process, disk, failed>> /\ changes' = changes + 1 /\ changed' = (pc # "idle")
  BY DEF ChangeFile
<1>2. /\ UNCHANGED <<pc, dry, args, cflags, todo, work, ran, built>>
      /\ UNCHANGED <<obj, dir, lib, dylib, tests>>
  BY <1>1 DEF self, process, disk
<1>3. tree' \in [Sources -> Nat]
  BY DEF ChangeFile, BTypes
<1>4. changed' \in BOOLEAN /\ (changed' \/ pc = "idle")
  BY <1>1
<1>5. BTypes' /\ IdleInv' /\ Orderly(todo')
  BY <1>1, <1>2, <1>3, <1>4 DEF BTypes, IdleInv
<1>6. LinkInv' /\ DirInv'
  BY <1>1, <1>2 DEF LinkInv, DirInv, HasArg
<1>7. CASE changed'
  <2>1. ObjectsInv' /\ CleanInv' /\ LibInv' /\ DylibInv' /\ TestsInv'
    BY <1>7 DEF ObjectsInv, CleanInv, LibInv, DylibInv, TestsInv, Undisturbed
  <2>2. Release(todo)'
    <3>1. ~Undisturbed'
      BY <1>7 DEF Undisturbed
    <3> QED BY <1>2, <3>1 DEF Release, HasArg, HasArgCrashes
  <2> QED BY <2>1, <2>2, <1>5, <1>6
<1>8. CASE pc = "idle"
  <2>1. todo' = <<>> /\ built' = {}
    BY <1>2, <1>8 DEF IdleInv
  <2>2. ObjectsInv' /\ CleanInv' /\ LibInv' /\ DylibInv' /\ TestsInv' /\ Release(todo)'
    BY <2>1 DEF ObjectsInv, CleanInv, LibInv, DylibInv, TestsInv, Release
  <2> QED BY <2>2, <1>5, <1>6
<1> QED BY <1>4, <1>7, <1>8

LEMMA NextBInv == BInv /\ WordsInv /\ [BNext]_vars => BInv'
<1> SUFFICES ASSUME BInv, WordsInv, [BNext]_vars PROVE BInv'
  OBVIOUS
<1>1. DryInv'
  BY RulesStep, DryNext DEF BInv
<1>2. changes \in Nat /\ (pc = "idle" => ~dry)
  BY DEF BInv, BTypes, DryInv
<1>3. CASE BInvoke
  <2>1. UNCHANGED <<args, cflags, todo, work, ran, built, disk, tree, failed, changed, changes>> /\ pc = "idle"
    BY <1>3 DEF BInvoke, Begin, Invoke
  <2>2. pc' # "idle"
    BY <1>3 DEF BInvoke, Invoke
  <2> QED BY <2>1, <2>2, <1>1, <1>2, FrameBInv
<1>4. CASE BScript
  <2>1. UNCHANGED <<args, cflags, todo, work, ran, built, disk, tree, failed, changed, changes>> /\ pc = "idle" /\ pc' # "idle"
    BY <1>4 DEF BScript, Begin, RunScript
  <2> QED BY <2>1, <1>1, <1>2, FrameBInv
<1>5. CASE BManage
  <2>1. CASE pc' = "idle"
    BY <1>1, <1>5, <2>1, GoneBInv DEF BManage
  <2>2. CASE pc' # "idle"
    <3>1. UNCHANGED <<args, cflags, todo, work, ran, built, disk, tree, failed, changed, changes>>
      BY <1>5, <2>2 DEF BManage, process, counters
    <3>2. dry' = dry
      BY <1>5, <2>2 DEF BManage, StatSource, StatExec, StartCC, Exits
    <3> QED BY <3>1, <3>2, <2>2, <1>1, <1>2, FrameBInv
  <2> QED BY <2>1, <2>2
<1>6. CASE BEndCC
  <2>1. CASE pc' = "idle"
    BY <1>1, <1>6, <2>1, GoneBInv DEF BEndCC
  <2>2. CASE pc' # "idle"
    <3>1. UNCHANGED <<process, disk, tree, changed, counters>> /\ failed' = (failed \/ CCFails)
      BY <1>6, <2>2 DEF BEndCC
    <3>2. failed' \in BOOLEAN /\ (failed => failed')
      BY <3>1
    <3>3. dry' = dry
      BY <1>6, <2>2 DEF BEndCC, EndCC, NoRestart, CCFails, CCReturns, Exits
    <3> QED BY <3>1, <3>2, <3>3, <2>2, <1>1, FailBInv
  <2> QED BY <2>1, <2>2
<1>7. CASE RulesDone \/ Crash \/ BKill
  BY <1>1, <1>7, GoneBInv DEF RulesDone, Crash, BKill
<1>8. CASE FirstRule
  <2>1. /\ pc = "rules" /\ todo = <<>> /\ index = 0 /\ WordTypes /\ argv = <<PROGRAM>> \o line
        /\ UNCHANGED <<self, cflags, work, built, disk, tree, failed, changed, counters>>
    BY <1>8 DEF FirstRule, WordsInv
  <2>2. CASE Len(argv) = 1
    <3>1. argv = <<PROGRAM>>
      BY <2>1, <2>2, ArgvIs
    <3>2. <<"build">> \o argv = <<"build", PROGRAM>>
      BY <3>1, TwoWords
    <3>3. <<"build", PROGRAM>> \in Seq(Words) /\ Head(<<"build", PROGRAM>>) = "build"
      BY DEF Words
    <3>4. Execute("build", argv)
      BY <1>8, <2>2 DEF FirstRule
    <3> QED BY <2>1, <3>2, <3>3, <3>4, <1>1, ExecuteBInv
  <2>3. CASE Len(argv) # 1
    <3>1. UNCHANGED <<args, cflags, todo, work, ran, built, disk, tree, failed, changed, pc, dry, changes>>
      BY <1>8, <2>1, <2>3 DEF FirstRule, self, counters
    <3> QED BY <3>1, <1>1, <1>2, FrameBInv
  <2> QED BY <2>2, <2>3
<1>9. CASE ExecuteRule
  <2> DEFINE next == NextRuleIndex(index)
             a == SubSeq(argv, index + 2, next)
             x == <<argv[index + 1]>> \o a
  <2>1. /\ pc = "rules" /\ todo = <<>> /\ Execute(argv[index + 1], a)
        /\ UNCHANGED <<self, cflags, work, built, disk, tree, failed, changed, counters>>
    BY <1>9 DEF ExecuteRule
  <2>2. WordTypes /\ argv \in Seq(Words) /\ index \in 0..(Len(argv) - 1)
    BY <1>9 DEF ExecuteRule, WordsInv, WordTypes
  <2>3. next \in (index + 1)..Len(argv)
    BY <2>2, NextRule
  <2>4. x = <<argv[index + 1]>> \o a
    OBVIOUS
  <2> HIDE DEF next
  <2>5. x \in Seq(Words) /\ Head(x) = argv[index + 1]
    BY <2>2, <2>3, SplitWords
  <2> HIDE DEF a, x
  <2> QED BY <2>1, <2>2, <2>4, <2>5, <1>1, ExecuteBInv
<1>10. CASE BuildLevelDB \/ BuildLibrary
  BY <1>1, <1>10, LevelDBBInv, LibraryBInv
<1>11. CASE CollectFiles("vendor", Vendor) \/ CollectFiles("own", Own)
  BY <1>1, <1>11, CollectBInv
<1>12. CASE \E f \in Sources : CompileFile(f)
  BY <1>1, <1>12, CompileBInv
<1>13. CASE Archive \/ LinkFiles \/ RemoveObjects \/ LinkTests
  BY <1>1, <1>13, ArchiveBInv, LinkBInv, RemoveBInv, TestsBInv
<1>14. CASE Clean \/ SelfRule
  BY <1>1, <1>14, CleanBInv, SelfRuleBInv
<1>15. CASE \E f \in Sources : ChangeFile(f)
  BY <1>1, <1>15, ChangeBInv
<1>16. CASE BTick \/ BSave \/ BOrphanEnds
  <2>1. UNCHANGED <<args, cflags, todo, work, ran, built, disk, tree, failed, changed, pc, dry>> /\ changes' \in Nat
    BY <1>2, <1>16 DEF BTick, BSave, BOrphanEnds, Tick, SaveSource, Save, OrphanEnds, Others, process, counters
  <2> QED BY <2>1, <1>1, FrameBInv
<1>17. CASE UNCHANGED vars
  <2>1. UNCHANGED <<args, cflags, todo, work, ran, built, disk, tree, failed, changed, pc, dry, changes>>
    BY <1>17 DEF vars, self, process, counters
  <2> QED BY <2>1, <1>1, <1>2, FrameBInv
<1>18. CASE BRestart
  <2>1. UNCHANGED <<args, cflags, todo, work, ran, built, disk, tree, failed, changed, changes>> /\ pc = "compiling"
    BY <1>18 DEF BRestart, counters
  <2>2. pc' # "idle" /\ ~dry
    BY <1>18, <2>1 DEF BRestart, Restart, BInv, DryInv
  <2> QED BY <2>1, <2>2, <1>1, <1>2, FrameBInv
<1> QED BY <1>3, <1>4, <1>5, <1>6, <1>7, <1>8, <1>9, <1>10, <1>11, <1>12, <1>13, <1>14, <1>15, <1>16, <1>17,
           <1>18 DEF BNext, BStep

LEMMA BInvIsDry == BInv => DryInv
BY DEF BInv

(* What an undisturbed invocation leaves in the archive is every source as *)
(* it is, with the flags asked for, and after clean nothing else.          *)
THEOREM ArchiveKeepsUp == BSpec => []ArchiveIsCurrent
<1>1. BInv => ArchiveIsCurrent
  BY DEF BInv, ArchiveIsCurrent, LibInv, CleanInv, Undisturbed
<1> QED BY <1>1, InitBInv, InitWords, NextBInv, NextWords, BInvIsDry, PTL DEF BSpec

(* The same of the dynamic library and of the release build the tests are  *)
(* linked with, and build-tests leaves no build/ behind.                   *)
THEOREM LinksKeepUp == BSpec => []LinkedIsCurrent
<1>1. BInv => LinkedIsCurrent
  BY DEF BInv, LinkedIsCurrent, DylibInv, TestsInv, DirInv, Undisturbed, Done
<1> QED BY <1>1, InitBInv, InitWords, NextBInv, NextWords, BInvIsDry, PTL DEF BSpec

(* The calls that remove belong to rules that are there to remove. *)
RemoverInv == todo # <<>> /\ (Head(todo) = "clean" \/ HasArg(args, "no-obj")) => Removing

(* Objects are in build/, which CompileFiles has made before it compiles. *)
BuildDirInv == (~dir => obj = Empty) /\ (todo # <<>> /\ Head(todo) = "compile" => dir)

LEMMA InitDisk == BInit => RemoverInv /\ BuildDirInv
BY DEF BInit, RemoverInv, BuildDirInv

(* The last rule run *)
LEMMA ExecuteRemover ==
    ASSUME WordTypes, NEW rule, NEW a, NEW x \in Seq(Words), x = <<rule>> \o a, Head(x) = rule, x # <<>>,
           a \in Seq(Words), rule \in Words, Execute(rule, a)
    PROVE  RemoverInv' /\ (todo' # <<>> => Head(todo') # "compile")
<1>1. todo' = Calls(rule) /\ args' = Arguments(rule, a) /\ ran' = Append(ran, x)
  BY DEF Execute
<1>2. ran' # <<>> /\ Last(ran') = x
  <2>1. ran \in Seq(Seq(Words))
    BY DEF WordTypes
  <2> QED BY <1>1, <2>1, LastOfAppend, Zenon
<1>3. todo' # <<>> => Head(todo') \in {"leveldb", "clean", "self-rebuild", "self-build-debug"}
  BY <1>1, CallsOrderly
<1>4. todo' # <<>> /\ Head(todo') = "clean" => rule = "clean"
  BY <1>1 DEF Calls
<1>5. HasArg(args', "no-obj") => rule = "build-tests" \/ Contains(x, "no-obj")
  <2> SUFFICES ASSUME rule # "build-tests", HasArg(args', "no-obj") PROVE Contains(x, "no-obj")
    OBVIOUS
  <2>1. Contains(a, "no-obj")
    BY <1>1 DEF Arguments, HasArg
  <2>2. PICK i \in 1..Len(a) : a[i] = "no-obj"
    BY <2>1 DEF Contains
  <2>3. i + 1 \in 1..Len(x) /\ x[i + 1] = a[i]
    OBVIOUS
  <2> QED BY <2>2, <2>3 DEF Contains
<1> QED BY <1>2, <1>3, <1>4, <1>5 DEF RemoverInv, Removing, HasArg

LEMMA FrameDisk ==
    ASSUME RemoverInv, BuildDirInv, UNCHANGED <<args, todo, ran, obj, dir>>
    PROVE  RemoverInv' /\ BuildDirInv'
BY DEF RemoverInv, BuildDirInv, Removing, HasArg

(* A call of the current rule: what is left of the rule may still remove *)
LEMMA CallDisk ==
    ASSUME RemoverInv, todo # <<>>, UNCHANGED <<args, ran>>, todo' # <<>> => Head(todo') # "clean"
    PROVE  RemoverInv'
BY DEF RemoverInv, Removing, HasArg

LEMMA RemoveDisk ==
    ASSUME BuildDirInv, RemoveDirectory, todo' # <<>> => Head(todo') # "compile", dir \in BOOLEAN
    PROVE  BuildDirInv' /\ (dir' => dir)
BY DEF BuildDirInv, RemoveDirectory

LEMMA GoneDisk ==
    ASSUME BuildDirInv, Gone
    PROVE  RemoverInv' /\ BuildDirInv'
BY DEF BuildDirInv, RemoverInv, Gone, disk

(* What may come behind a call *)
LEMMA Behind ==
    ASSUME BInv, todo # <<>>, todo' = Tail(todo), UNCHANGED args
    PROVE  todo' # <<>> => Head(todo') \notin {"clean", "compile"}
<1>1. todo' # <<>> => Follows(Head(todo), Head(todo'))
  BY TailStep
<1> QED BY <1>1 DEF Follows

LEMMA NextDisk == BInv /\ WordsInv /\ RemoverInv /\ BuildDirInv /\ [BNext]_vars => RemoverInv' /\ BuildDirInv'
<1> SUFFICES ASSUME BInv, WordsInv, RemoverInv, BuildDirInv, [BNext]_vars PROVE RemoverInv' /\ BuildDirInv'
  OBVIOUS
<1>1. dir \in BOOLEAN /\ Orderly(todo)
  BY DEF BInv, BTypes
<1>2. CASE BInvoke \/ BScript \/ BRestart
  BY <1>2, FrameDisk DEF BInvoke, BScript, Begin, BRestart, disk
<1>3. CASE BManage \/ BEndCC
  BY <1>3, FrameDisk, GoneDisk DEF BManage, BEndCC, process, disk
<1>4. CASE RulesDone \/ Crash \/ BKill
  BY <1>4, GoneDisk DEF RulesDone, Crash, BKill
<1>5. CASE FirstRule
  <2>1. WordTypes /\ UNCHANGED <<obj, dir>> /\ argv = <<PROGRAM>> \o line
    BY <1>5 DEF FirstRule, WordsInv, disk
  <2>2. CASE Len(argv) = 1
    <3>1. argv = <<PROGRAM>>
      BY <2>1, <2>2, ArgvIs
    <3>2. <<"build">> \o argv = <<"build", PROGRAM>>
      BY <3>1, TwoWords
    <3>3. /\ <<"build", PROGRAM>> \in Seq(Words) /\ Head(<<"build", PROGRAM>>) = "build" /\ <<"build", PROGRAM>> # <<>>
          /\ "build" \in Words /\ argv \in Seq(Words)
      BY <2>1 DEF Words, WordTypes
    <3>4. Execute("build", argv)
      BY <1>5, <2>2 DEF FirstRule
    <3>5. RemoverInv' /\ (todo' # <<>> => Head(todo') # "compile")
      BY <2>1, <3>2, <3>3, <3>4, ExecuteRemover
    <3> QED BY <2>1, <3>5 DEF BuildDirInv
  <2>3. CASE Len(argv) # 1
    BY <1>5, <2>1, <2>3, FrameDisk DEF FirstRule
  <2> QED BY <2>2, <2>3
<1>6. CASE ExecuteRule
  <2> DEFINE next == NextRuleIndex(index)
             a == SubSeq(argv, index + 2, next)
             x == <<argv[index + 1]>> \o a
  <2>1. Execute(argv[index + 1], a) /\ UNCHANGED <<obj, dir>>
    BY <1>6 DEF ExecuteRule, disk
  <2>2. WordTypes /\ argv \in Seq(Words) /\ index \in 0..(Len(argv) - 1) /\ index \in Nat
    BY <1>6 DEF ExecuteRule, WordsInv, WordTypes
  <2>3. next \in (index + 1)..Len(argv)
    BY <2>2, NextRule
  <2>4. x = <<argv[index + 1]>> \o a
    OBVIOUS
  <2> HIDE DEF next
  <2>5. x \in Seq(Words) /\ Head(x) = argv[index + 1] /\ Len(x) = next - index
    BY <2>2, <2>3, SplitWords
  <2>6. a \in Seq(Words) /\ argv[index + 1] \in Words
    BY <2>2, <2>3
  <2> HIDE DEF a, x
  <2>7. x # <<>>
    BY <2>2, <2>3, <2>5
  <2>8. RemoverInv' /\ (todo' # <<>> => Head(todo') # "compile")
    BY <2>1, <2>2, <2>4, <2>5, <2>6, <2>7, ExecuteRemover
  <2> QED BY <2>1, <2>8 DEF BuildDirInv
<1>7. CASE BuildLevelDB \/ Archive \/ LinkFiles \/ LinkTests
  <2>1. todo # <<>> /\ todo' = Tail(todo) /\ UNCHANGED <<args, ran, obj, dir>>
    BY <1>7 DEF BuildLevelDB, Archive, LinkFiles, LinkTests, Call, Returns
  <2>2. todo' # <<>> => Head(todo') \notin {"clean", "compile"}
    BY <2>1, Behind
  <2> QED BY <2>1, <2>2, CallDisk DEF BuildDirInv
<1>8. CASE BuildLibrary
  <2>1. todo # <<>> /\ UNCHANGED <<args, ran, obj, dir>>
    BY <1>8 DEF BuildLibrary, Call, disk
  <2>2. Tail(todo) \in Seq(Names) /\ (Tail(todo) # <<>> => Head(Tail(todo)) \notin {"clean", "compile"})
    <3>1. Orderly(Tail(todo)) /\ (Tail(todo) # <<>> => Follows(Head(todo), Head(Tail(todo))))
      BY <1>1, <2>1, TailOrderly
    <3> QED BY <3>1 DEF Follows, Orderly
  <2>3. todo' # <<>> => Head(todo') \notin {"clean", "compile"}
    <3>1. CASE todo' = <<>> \o Tail(todo)
      BY <3>1, <2>2
    <3>2. CASE todo' \in {<<"vendor", "own", "ar">> \o Tail(todo), <<"vendor", "own", "link">> \o Tail(todo)}
      <4>1. Head(todo') = "vendor"
        BY <3>2, <2>2 DEF Names
      <4> QED BY <4>1
    <3> QED BY <1>8, <3>1, <3>2 DEF BuildLibrary
  <2> QED BY <2>1, <2>3, CallDisk DEF BuildDirInv
<1>9. CASE CollectFiles("vendor", Vendor) \/ CollectFiles("own", Own)
  <2>1. todo # <<>> /\ UNCHANGED <<args, ran, obj>> /\ dir' = TRUE
    BY <1>9 DEF CollectFiles, Call
  <2>2. Tail(todo) \in Seq(Names) /\ (Tail(todo) # <<>> => Head(Tail(todo)) \notin {"clean", "compile"})
    <3>1. Orderly(Tail(todo)) /\ (Tail(todo) # <<>> => Follows(Head(todo), Head(Tail(todo))))
      BY <1>1, <2>1, TailOrderly
    <3> QED BY <3>1 DEF Follows, Orderly
  <2>3. todo' # <<>> => Head(todo') # "clean"
    <3>1. CASE todo' = <<>> \o Tail(todo)
      BY <3>1, <2>2
    <3>2. CASE todo' = <<"compile">> \o Tail(todo)
      <4>1. Head(todo') = "compile"
        BY <3>2, <2>2 DEF Names
      <4> QED BY <4>1
    <3> QED BY <1>9, <3>1, <3>2 DEF CollectFiles
  <2> QED BY <2>1, <2>3, CallDisk DEF BuildDirInv
<1>10. CASE \E f \in Sources : CompileFile(f)
  <2>1. todo # <<>> /\ Head(todo) = "compile" /\ todo' \in {todo, Tail(todo)} /\ UNCHANGED <<args, ran, dir>>
    BY <1>10 DEF CompileFile, Call
  <2>2. dir
    BY <2>1 DEF BuildDirInv
  <2>3. todo' # <<>> => Head(todo') # "clean"
    BY <2>1, Behind
  <2> QED BY <2>1, <2>2, <2>3, CallDisk DEF BuildDirInv
<1>11. CASE RemoveObjects \/ Clean
  <2>1. todo # <<>> /\ todo' = Tail(todo) /\ UNCHANGED <<args, ran>>
    BY <1>11 DEF RemoveObjects, Clean, Call, Returns
  <2>2. todo' # <<>> => Head(todo') \notin {"clean", "compile"}
    BY <2>1, Behind
  <2>3. RemoveDirectory \/ UNCHANGED <<obj, dir>>
    BY <1>11 DEF RemoveObjects, Clean
  <2>4. BuildDirInv'
    BY <1>1, <2>2, <2>3, RemoveDisk DEF BuildDirInv
  <2> QED BY <2>1, <2>2, <2>4, CallDisk
<1>12. CASE SelfRule
  <2>1. todo # <<>> /\ todo' = Tail(todo) /\ UNCHANGED <<args, ran, obj, dir>>
    BY <1>12 DEF SelfRule, Call, disk
  <2>2. todo' # <<>> => Head(todo') \notin {"clean", "compile"}
    BY <2>1, Behind
  <2> QED BY <2>1, <2>2, CallDisk DEF BuildDirInv
<1>13. CASE \E f \in Sources : ChangeFile(f)
  BY <1>13, FrameDisk DEF ChangeFile, process, disk
<1>14. CASE BTick \/ BSave \/ BOrphanEnds
  BY <1>14, FrameDisk DEF BTick, BSave, BOrphanEnds, Others, process, disk
<1>15. CASE UNCHANGED vars
  BY <1>15, FrameDisk DEF vars, process, disk
<1> QED BY <1>2, <1>3, <1>4, <1>5, <1>6, <1>7, <1>8, <1>9, <1>10, <1>11, <1>12, <1>13, <1>14, <1>15 DEF BNext, BStep

(* What a step of a dry run may do to the disk *)
OnlyRemoves ==
    /\ exe' \in {exe, NoFile} \/ orphan' # orphan
    /\ \A f \in Sources : /\ obj'[f] \in {obj[f], None} /\ lib'[f] \in {lib[f], None}
                          /\ dylib'[f] \in {dylib[f], None} /\ tests'[f] \in {tests[f], None}
    /\ leveldb' = leveldb
    /\ dir' /\ ~dir => Present(obj') = {}
    /\ ~Removing => (exe' = exe \/ orphan' # orphan) /\ UNCHANGED <<obj, lib, dylib, tests>> /\ (dir => dir')

(* A step that touches nothing but, perhaps, the builder's executable *)
LEMMA StillDisk ==
    ASSUME UNCHANGED disk, exe' = exe \/ orphan' # orphan
    PROVE  OnlyRemoves
BY DEF OnlyRemoves, disk

LEMMA DryStep ==
    ASSUME BInv, RemoverInv, BuildDirInv, BNext, dry, dry'
    PROVE  OnlyRemoves
<1>1. pc \in {"source", "exec", "rules"} /\ dir \in BOOLEAN
  BY DEF BInv, BTypes, DryInv
<1>2. CASE BInvoke \/ BScript \/ BRestart
  BY <1>1, <1>2 DEF BInvoke, BScript, Invoke, RunScript, BRestart
<1>3. CASE BManage
  <2>1. UNCHANGED exe
    BY <1>3 DEF BManage, StatSource, StatExec, StartCC
  <2>2. UNCHANGED disk
    BY <1>3 DEF BManage, Gone
  <2> QED BY <2>1, <2>2, StillDisk
<1>4. CASE BEndCC
  BY <1>1, <1>4 DEF BEndCC, EndCC, NoRestart, CCFails
<1>5. CASE RulesDone \/ Crash \/ BKill
  BY <1>5 DEF RulesDone, Crash, BKill, RulesEnd, Kill, Exits
<1>6. CASE FirstRule \/ ExecuteRule
  BY <1>6, StillDisk DEF FirstRule, ExecuteRule, self
<1>7. CASE BuildLevelDB \/ BuildLibrary
  BY <1>7, StillDisk DEF BuildLevelDB, BuildLibrary, Returns, Succeeds, self, disk
<1>8. CASE CollectFiles("vendor", Vendor) \/ CollectFiles("own", Own)
  <2>1. UNCHANGED <<exe, obj, lib, dylib, tests, leveldb>> /\ dir' = TRUE
    BY <1>8 DEF CollectFiles, self
  <2>2. ~dir => Present(obj') = {}
    BY <2>1 DEF BuildDirInv, Present, Empty
  <2> QED BY <2>1, <2>2 DEF OnlyRemoves
<1>9. CASE \E f \in Sources : CompileFile(f)
  BY <1>9, StillDisk DEF CompileFile, Compiled, Succeeds, Fails, self, disk
<1>10. CASE Archive \/ LinkFiles \/ LinkTests
  BY <1>10, StillDisk DEF Archive, LinkFiles, LinkTests, Returns, Succeeds, Fails, self, disk
<1>11. CASE RemoveObjects
  <2>1. UNCHANGED <<exe, orphan, lib, dylib, tests, leveldb>> /\ todo # <<>> /\ todo' = Tail(todo) /\ UNCHANGED args
    BY <1>11 DEF RemoveObjects, Call, Returns, self
  <2>2. CASE HasArg(args, "no-obj")
    <3>1. Removing /\ RemoveDirectory
      BY <1>11, <2>1, <2>2 DEF RemoverInv, RemoveObjects
    <3>2. \A f \in Sources : obj'[f] \in {obj[f], None}
      BY <3>1, RemoveTypes DEF BInv
    <3>3. dir' => dir
      BY <3>1 DEF RemoveDirectory
    <3> QED BY <2>1, <3>1, <3>2, <3>3 DEF OnlyRemoves
  <2>3. CASE ~HasArg(args, "no-obj")
    BY <1>11, <2>1, <2>3, StillDisk DEF RemoveObjects, disk
  <2> QED BY <2>2, <2>3
<1>12. CASE Clean
  <2>1. lib' = Empty /\ dylib' = Empty /\ tests' = Empty /\ UNCHANGED leveldb
    BY <1>12 DEF Clean, Cleaned
  <2>2. exe' \in {exe, NoFile}
    BY <1>12 DEF Clean, CleanAll, Leaves, self
  <2>3. \A f \in Sources : obj'[f] \in {obj[f], None}
    BY <1>12, RemoveTypes DEF BInv, Clean
  <2>4. Removing /\ (dir' => dir)
    BY <1>12 DEF Clean, Call, RemoverInv, RemoveDirectory
  <2> QED BY <2>1, <2>2, <2>3, <2>4 DEF OnlyRemoves, Empty
<1>13. CASE SelfRule
  BY <1>13, StillDisk DEF SelfRule, RuleRebuilds
<1>14. CASE \E f \in Sources : ChangeFile(f)
  BY <1>14, StillDisk DEF ChangeFile, self
<1>15. CASE BTick \/ BSave
  BY <1>15, StillDisk DEF BTick, BSave, Tick, SaveSource, Save, Others
<1>16. CASE BOrphanEnds
  <2>1. orphan' # orphan /\ UNCHANGED disk
    BY <1>16 DEF BOrphanEnds, OrphanEnds, Others
  <2> QED BY <2>1, StillDisk
<1> QED BY <1>2, <1>3, <1>4, <1>5, <1>6, <1>7, <1>8, <1>9, <1>10, <1>11, <1>12, <1>13, <1>14, <1>15, <1>16 DEF BNext, BStep

(* A dry run makes an empty build/ and no other file or version of one,    *)
(* never compiles the builder, and removes files only in the rules that    *)
(* are there to remove them.                                               *)
THEOREM DryRunsOnlyRemove == BSpec => DryRunMakesNothing
<1>1. BInv /\ RemoverInv /\ BuildDirInv /\ [BNext]_vars => [dry /\ dry' => OnlyRemoves]_vars
  BY DryStep DEF vars
<1>2. [][dry /\ dry' => OnlyRemoves]_vars => DryRunMakesNothing
  BY PTL DEF DryRunMakesNothing, OnlyRemoves
<1> QED BY <1>1, <1>2, InitBInv, InitWords, InitDisk, NextBInv, NextWords, NextDisk, BInvIsDry, PTL DEF BSpec
=============================================================================
