------------------------------ MODULE FilesProofs ------------------------------
(***************************************************************************)
(* The two algorithms of src/files.c.  The list of blk files for every     *)
(* directory, every order of readdir, every allocation size and every      *)
(* permutation qsort may choose; and WildcardMatch, the matcher ListFiles  *)
(* selects names with, for names and patterns of any length and over every *)
(* alphabet, with MatchPattern of the build tool beside it.                *)
(***************************************************************************)
EXTENDS BlockFiles, Wildcard, WellFoundedInduction, FiniteSetTheorems, SequenceTheorems, TLAPS

----------------------------------------------------------------------------
(* The list of blk files. *)

Types ==
    /\ onDisk \subseteq Numbers
    /\ pc \in {"opendir", "readdir", "sort", "ready"}
    /\ files \in Seq(onDisk)
    /\ totalSize \in Nat

(* No file is in the list twice. *)
NoRepeat == \A j, k \in DOMAIN files : files[j] = files[k] => j = k

(* The list and what readdir still has to return make up the directory. *)
ListInv ==
    /\ ~overrun /\ Len(files) <= totalSize
    /\ pc = "opendir" => Len(files) = 0 /\ totalSize = 0
    /\ pc = "readdir" =>
         totalSize > 0 /\ Range(files) = onDisk \ pending
    /\ pc \in {"sort", "ready"} /\ totalSize > 0 => Range(files) = onDisk

Sorted ==
    pc = "ready" /\ pathNumber = NONE =>
        \A j, k \in DOMAIN files : j < k => files[j] <= files[k]

(* Nothing is opened before the list is sorted. *)
NotYet == pc # "ready" => opened = asked

IInv == Types /\ NoRepeat /\ ListInv /\ Sorted /\ NotYet /\ OpensTheRightFile

LEMMA FileNumbers == ASSUME Types PROVE \A k \in DOMAIN files : files[k] \in onDisk /\ files[k] \in Nat
BY NumbersAssumption, LenProperties DEF Types

LEMMA InitIInv == Init => IInv
<1> SUFFICES ASSUME Init PROVE IInv
  OBVIOUS
<1>1. files = << >> /\ Len(files) = 0 /\ DOMAIN files = {}
  BY DEF Init
<1>2. Types
  BY <1>1 DEF Init, Types
<1>3. NoRepeat /\ ListInv /\ Sorted /\ NotYet /\ OpensTheRightFile
  BY <1>1 DEF Init, NoRepeat, ListInv, Sorted, NotYet, OpensTheRightFile
<1> QED BY <1>2, <1>3 DEF IInv

(* A name that readdir returns for the first time is not in the list. *)
LEMMA MatchIInv ==
    ASSUME IInv, pc = "readdir", NEW n \in pending, pending' = pending \ {n}, ReaddirMatch(n),
           UNCHANGED <<onDisk, pathNumber, pc, asked, opened>>
    PROVE  IInv'
<1> USE DEF IInv
<1>1. Len(files) \in Nat /\ DOMAIN files = 1..Len(files) /\ files \in Seq(onDisk)
  BY LenProperties DEF Types
<1>2. Grown \in Nat /\ Len(files) < Grown /\ Grown > 0 /\ n \in onDisk
  BY <1>1 DEF Grown, ListInv, Types, ReaddirMatch
<1>3. files' = Append(files, n) /\ totalSize' = Grown /\ overrun' = overrun
  BY <1>2 DEF ReaddirMatch
<1>4. /\ files' \in Seq(onDisk) /\ Len(files') = Len(files) + 1
      /\ DOMAIN files' = 1..(Len(files) + 1)
      /\ files'[Len(files) + 1] = n
      /\ \A k \in DOMAIN files : files'[k] = files[k]
  BY <1>1, <1>2, <1>3, AppendProperties
<1>5. Types'
  BY <1>2, <1>3, <1>4 DEF Types
<1>6. Range(files) = onDisk \ pending
  BY DEF ListInv
<1>7. \A k \in DOMAIN files : files[k] # n
  BY <1>6 DEF Range
<1>8. NoRepeat'
  BY <1>1, <1>4, <1>7 DEF NoRepeat
<1>9. Range(files') = onDisk \ pending'
  <2>1. Range(files') = Range(files) \cup {n}
    BY <1>1, <1>4 DEF Range
  <2> QED BY <1>2, <1>6, <2>1
<1>10. ListInv'
  BY <1>1, <1>2, <1>3, <1>4, <1>9 DEF ListInv
<1> QED BY <1>5, <1>8, <1>10 DEF Sorted, NotYet, OpensTheRightFile, Unpruned

(* qsort permutes the list, and orders it when the numbers can be read. *)
LEMMA SortIInv ==
    ASSUME IInv, SortFiles
    PROVE  IInv'
<1> USE DEF IInv
<1>1. PICK perm \in Bijection(DOMAIN files, DOMAIN files) :
        /\ files' = [k \in DOMAIN files |-> files[perm[k]]]
        /\ \A j, k \in DOMAIN files : j < k => CompareFileInfo(files'[j], files'[k])
  BY DEF SortFiles
<1>2. pc = "sort" /\ pc' = "ready" /\ UNCHANGED <<onDisk, pathNumber, totalSize, overrun, asked, opened>>
  BY DEF SortFiles
<1>3. Len(files) \in Nat /\ DOMAIN files = 1..Len(files) /\ files \in [1..Len(files) -> onDisk]
  BY LenProperties DEF Types
<1>4. /\ perm \in [DOMAIN files -> DOMAIN files]
      /\ \A j, k \in DOMAIN files : perm[j] = perm[k] => j = k
      /\ \A k \in DOMAIN files : \E j \in DOMAIN files : perm[j] = k
  BY DEF Bijection, Injection, Surjection, IsInjective
<1>5. files' \in [1..Len(files) -> onDisk]
  BY <1>1, <1>3, <1>4
<1>6. files' \in Seq(onDisk) /\ Len(files') = Len(files) /\ DOMAIN files' = DOMAIN files
  BY <1>3, <1>5
<1>7. Types'
  BY <1>2, <1>6 DEF Types
<1>8. NoRepeat'
  BY <1>1, <1>4, <1>6 DEF NoRepeat
<1>9. Range(files') = Range(files)
  BY <1>1, <1>4, <1>6 DEF Range
<1>10. ListInv'
  BY <1>2, <1>6, <1>9 DEF ListInv
<1>11. Sorted'
  BY <1>1, <1>2, <1>6 DEF Sorted, CompareFileInfo, ExtractBlockNumber
<1>12. NotYet' /\ OpensTheRightFile'
  BY <1>2 DEF NotYet, OpensTheRightFile
<1> QED BY <1>7, <1>8, <1>10, <1>11, <1>12

(* How many indices there are below n, from zero and from one. *)
LEMMA IndicesBelow ==
    ASSUME NEW n \in Nat
    PROVE  /\ IsFiniteSet(0..(n - 1)) /\ Cardinality(0..(n - 1)) = n
           /\ IsFiniteSet(1..n) /\ Cardinality(1..n) = n
<1>1. 0 \in Int /\ 1 \in Int /\ n \in Int /\ n - 1 \in Int
  OBVIOUS
<1>2. /\ IsFiniteSet(0..(n - 1)) /\ Cardinality(0..(n - 1)) = IF 0 > n - 1 THEN 0 ELSE (n - 1) - 0 + 1
      /\ IsFiniteSet(1..n) /\ Cardinality(1..n) = IF 1 > n THEN 0 ELSE n - 1 + 1
  BY <1>1, FS_Interval
<1> QED BY <1>2

(* In a sorted list of a directory without gaps file n is the element with *)
(* index n: it has as many files before it in the list as below it.        *)
LEMMA FileAtItsIndex ==
    ASSUME Types, NoRepeat, Range(files) = onDisk, Unpruned, NEW n \in onDisk,
           \A j, k \in DOMAIN files : j < k => files[j] <= files[k]
    PROVE  n < Len(files) /\ files[n + 1] = n
<1>1. Len(files) \in Nat /\ DOMAIN files = 1..Len(files)
  BY LenProperties DEF Types
<1>2. n \in Nat
  BY NumbersAssumption DEF Types
<1>3. PICK place \in DOMAIN files : files[place] = n
  BY DEF Range
<1>4. place \in 1..Len(files) /\ place \in Nat /\ place - 1 \in Nat
  BY <1>1
<1>5. IsFiniteSet(0..(n - 1)) /\ Cardinality(0..(n - 1)) = n
  BY <1>2, IndicesBelow
<1>6. IsFiniteSet(1..(place - 1)) /\ Cardinality(1..(place - 1)) = place - 1
  BY <1>4, IndicesBelow
<1>7. place - 1 <= n
  <2> DEFINE f == [q \in 1..(place - 1) |-> files[q]]
  <2>1. ASSUME NEW q \in 1..(place - 1) PROVE q \in DOMAIN files /\ files[q] \in 0..(n - 1)
    <3>1. q \in DOMAIN files /\ q < place
      BY <1>1, <1>4
    <3>2. files[q] \in Nat /\ files[q] <= n /\ files[q] # n
      BY <1>3, <3>1, FileNumbers DEF NoRepeat
    <3> QED BY <1>2, <3>1, <3>2
  <2>2. f \in Injection(1..(place - 1), 0..(n - 1))
    BY <2>1 DEF Injection, IsInjective, NoRepeat
  <2> HIDE DEF f
  <2> QED BY <1>5, <1>6, <2>2, FS_Injection
<1>8. n <= place - 1
  <2> DEFINE g == [k \in 0..(n - 1) |-> CHOOSE q \in DOMAIN files : files[q] = k]
  <2>1. ASSUME NEW k \in 0..(n - 1) PROVE g[k] \in 1..(place - 1) /\ files[g[k]] = k
    <3>1. k \in onDisk
      BY <1>2 DEF Unpruned
    <3>2. \E q \in DOMAIN files : files[q] = k
      BY <3>1 DEF Range
    <3>3. g[k] \in DOMAIN files /\ files[g[k]] = k
      BY <3>2, Zenon
    <3> HIDE DEF g
    <3>4. ~(place < g[k]) /\ g[k] # place
      BY <1>2, <1>3, <3>3
    <3> QED BY <1>1, <1>4, <3>3, <3>4
  <2>2. DOMAIN g = 0..(n - 1) /\ g \in [0..(n - 1) -> 1..(place - 1)]
    BY <2>1
  <2> HIDE DEF g
  <2>3. g \in Injection(0..(n - 1), 1..(place - 1))
    BY <2>1, <2>2 DEF Injection, IsInjective
  <2> QED BY <1>5, <1>6, <2>3, FS_Injection
<1> QED BY <1>2, <1>3, <1>4, <1>7, <1>8

LEMMA GetBlockIInv ==
    ASSUME IInv, NEW n \in Numbers, GetBlock(n)
    PROVE  IInv'
<1> USE DEF IInv
<1>1. /\ pc = "ready" /\ n \in onDisk /\ asked' = n
      /\ opened' = IF n < Len(files) THEN files[n + 1] ELSE NONE
      /\ UNCHANGED <<onDisk, pathNumber, pc, pending, files, totalSize, overrun>>
  BY DEF GetBlock
<1>2. Types' /\ NoRepeat' /\ ListInv' /\ Sorted' /\ NotYet'
  BY <1>1 DEF Types, NoRepeat, ListInv, Sorted, NotYet
<1>3. ASSUME Unpruned, pathNumber = NONE, totalSize > 0 PROVE opened' = asked'
  <2>1. Range(files) = onDisk /\ \A j, k \in DOMAIN files : j < k => files[j] <= files[k]
    BY <1>1, <1>3 DEF ListInv, Sorted
  <2>2. n < Len(files) /\ files[n + 1] = n
    BY <1>1, <1>3, <2>1, FileAtItsIndex
  <2> QED BY <1>1, <2>2
<1>4. OpensTheRightFile'
  BY <1>1, <1>3 DEF OpensTheRightFile, Unpruned
<1> QED BY <1>2, <1>4

LEMMA NextIInv == IInv /\ [Next]_vars => IInv'
<1> SUFFICES ASSUME IInv, [Next]_vars PROVE IInv'
  OBVIOUS
<1> USE DEF IInv
<1>1. CASE OpendirFails \/ Opendir
  <2>1. /\ pc = "opendir" /\ Len(files) = 0
        /\ UNCHANGED <<onDisk, pathNumber, files, overrun, asked, opened>>
    BY <1>1 DEF OpendirFails, Opendir, ListInv
  <2>2. Range(files) = {}
    BY <2>1, LenProperties DEF Types, Range
  <2>3. pc' # "ready" /\ pc' # "opendir" /\ NotYet' /\ Sorted'
    BY <1>1, <2>1 DEF OpendirFails, Opendir, NotYet, Sorted
  <2>4. OpensTheRightFile'
    BY <2>3 DEF NotYet, OpensTheRightFile
  <2>5. CASE OpendirFails
    BY <2>1, <2>3, <2>4, <2>5 DEF OpendirFails, Types, NoRepeat, ListInv
  <2>6. CASE Opendir
    <3>1. onDisk' \ pending' = {}
      BY <2>1, <2>6 DEF Opendir
    <3> QED BY <2>1, <2>2, <2>3, <2>4, <2>6, <3>1, AllocationSizeAssumption
            DEF Opendir, Types, NoRepeat, ListInv
  <2> QED BY <1>1, <2>5, <2>6
<1>2. CASE Readdir
  <2>1. PICK n \in pending : pending' = pending \ {n} /\ (ReaddirMatch(n) \/ ReaddirOther(n))
    BY <1>2 DEF Readdir
  <2>2. pc = "readdir" /\ UNCHANGED <<onDisk, pathNumber, pc, asked, opened>>
    BY <1>2 DEF Readdir
  <2>3. CASE ReaddirMatch(n)
    BY <2>1, <2>2, <2>3, MatchIInv
  <2>4. CASE ReaddirOther(n)
    <3>1. onDisk \ pending' = onDisk \ pending
      BY <2>1, <2>4, OtherNamesAssumption DEF ReaddirOther, Types
    <3> QED BY <2>2, <2>4, <3>1
            DEF ReaddirOther, Types, NoRepeat, ListInv, Sorted, NotYet, OpensTheRightFile, Unpruned
  <2> QED BY <2>1, <2>3, <2>4
<1>3. CASE Closedir
  BY <1>3 DEF Closedir, Types, NoRepeat, ListInv, Sorted, NotYet, OpensTheRightFile, Unpruned
<1>4. CASE SortFiles
  BY <1>4, SortIInv
<1>5. CASE \E n \in Numbers : GetBlock(n)
  BY <1>5, GetBlockIInv
<1>6. CASE UNCHANGED vars
  BY <1>6 DEF vars, Types, NoRepeat, ListInv, Sorted, NotYet, OpensTheRightFile, Unpruned
<1> QED BY <1>1, <1>2, <1>3, <1>4, <1>5, <1>6 DEF Next

LEMMA Invariance == Spec => []IInv
BY InitIInv, NextIInv, PTL DEF Spec

(* ListFiles never writes behind its array, and the finished list holds    *)
(* every matching file of the directory once, however many there are.      *)
THEOREM ListIsComplete == Spec => []ListsEveryFile
<1>1. IInv => ListsEveryFile
  <2> SUFFICES ASSUME IInv, Range(files) = onDisk PROVE Len(files) = Cardinality(onDisk)
    BY DEF IInv, ListInv, ListsEveryFile
  <2>1. Len(files) \in Nat /\ DOMAIN files = 1..Len(files) /\ files \in [1..Len(files) -> onDisk]
    BY LenProperties DEF IInv, Types
  <2>2. files \in Bijection(1..Len(files), onDisk)
    BY <2>1 DEF IInv, NoRepeat, Range, Bijection, Injection, Surjection, IsInjective
  <2>3. ExistsBijection(1..Len(files), onDisk)
    BY <2>2 DEF ExistsBijection
  <2>4. IsFiniteSet(1..Len(files)) /\ Cardinality(1..Len(files)) = Len(files)
    BY <2>1, FS_Interval
  <2> QED BY <2>3, <2>4, FS_Bijection
<1> QED BY <1>1, Invariance, PTL

(* GetBlock opens the file the index record names in every datadir that    *)
(* was never pruned, could be listed and has no "blk" in its path.         *)
THEOREM RightFileOpened == Spec => []OpensTheRightFile
<1>1. IInv => OpensTheRightFile
  BY DEF IInv
<1> QED BY <1>1, Invariance, PTL

----------------------------------------------------------------------------
(* The two matchers. *)

(* Every non-empty set of naturals has a least element.                    *)
LEMMA LeastNat ==
  ASSUME NEW T, T \subseteq Nat, T # {}
  PROVE  \E x \in T : \A y \in T : x <= y
<1> DEFINE R == OpToRel(<, Nat)
<1>1. IsWellFoundedOn(R, Nat)
  BY NatLessThanWellFounded
<1>2. \A x, y \in Nat : <<y, x>> \in R <=> y < x
  BY DEF OpToRel
<1> HIDE DEF R
<1>3. PICK x \in T : \A y \in T : ~ (<<y, x>> \in R)
  BY <1>1, WFMin, Zenon
<1>4. ASSUME NEW y \in T PROVE x <= y
  <2>1. x \in Nat /\ y \in Nat
    OBVIOUS
  <2>2. ~ (y < x)
    BY <1>2, <1>3, <2>1, Zenon
  <2> QED BY <2>1, <2>2
<1> QED BY <1>4

(* Induction up to n, with the set of the numbers it is shown of.          *)
LEMMA InductionTo ==
  ASSUME NEW n \in Nat, NEW T, 0 \in T, \A i \in 1..n : i - 1 \in T => i \in T
  PROVE  \A i \in 0..n : i \in T
<1> DEFINE D == {i \in 0..n : i \notin T}
<1> SUFFICES ASSUME D # {} PROVE FALSE
  OBVIOUS
<1>1. D \subseteq Nat
  OBVIOUS
<1>2. PICK i \in D : \A j \in D : i <= j
  BY <1>1, LeastNat
<1>3. i \in 1..n /\ i - 1 \in 0..n /\ ~(i <= i - 1)
  OBVIOUS
<1>4. i - 1 \in T
  BY <1>2, <1>3
<1> QED BY <1>3, <1>4

----------------------------------------------------------------------------

Chars == Alphabet \cup {STAR, ANY}

(* The text t from position j on is what pat from i on stands for. *)
Matches(t, pat, i, j) ==
    \E cut \in [i..(Len(pat) + 1) -> 1..(Len(t) + 1)] :
        /\ cut[i] = j /\ cut[Len(pat) + 1] = Len(t) + 1
        /\ \A k \in i..Len(pat) : Fits(t, pat[k], cut[k], cut[k + 1])

Rest(i, j) == Matches(str, pattern, i, j)

Strings == str \in Seq(Chars) /\ pattern \in Seq(Chars)

LEMMA Lengths == ASSUME Strings PROVE Len(str) \in Nat /\ Len(pattern) \in Nat
BY DEF Strings

LEMMA WholePattern == Strings => (Glob(str, pattern) <=> Rest(1, 1))
BY DEF Glob, Rest, Matches, Strings

(* At the end of the pattern only the end of the name is left. *)
LEMMA RestAtEnd ==
    ASSUME Strings, NEW j \in 1..(Len(str) + 1)
    PROVE  Rest(Len(pattern) + 1, j) <=> j = Len(str) + 1
<1> DEFINE n == Len(pattern) + 1
           cut == [k \in n..n |-> j]
<1>1. n \in Nat /\ ~\E k \in n..Len(pattern) : TRUE
  BY Lengths
<1>2. cut \in [n..n -> 1..(Len(str) + 1)] /\ cut[n] = j
  BY <1>1
<1>3. ASSUME j = Len(str) + 1 PROVE Rest(n, j)
  BY <1>1, <1>2, <1>3 DEF Rest, Matches
<1>4. ASSUME Rest(n, j) PROVE j = Len(str) + 1
  BY <1>4 DEF Rest, Matches
<1> QED BY <1>3, <1>4

(* One character of the pattern takes its part, the others the rest. *)
LEMMA RestStep ==
    ASSUME Strings, NEW i \in 1..Len(pattern), NEW j \in 1..(Len(str) + 1)
    PROVE  Rest(i, j) <=> \E b \in 1..(Len(str) + 1) : Fits(str, pattern[i], j, b) /\ Rest(i + 1, b)
<1> DEFINE n == Len(pattern)
           P == 1..(Len(str) + 1)
           F(k, a, b) == Fits(str, pattern[k], a, b)
<1>1. n \in Nat /\ i \in Nat /\ i <= n /\ i # n + 1
  BY Lengths
<1> HIDE DEF F, P, n
<1>2. \A k, l : Rest(k, l) <=> \E cut \in [k..(n + 1) -> P] :
           cut[k] = l /\ cut[n + 1] = Len(str) + 1 /\ \A m \in k..n : F(m, cut[m], cut[m + 1])
  BY DEF Rest, Matches, F, P, n
<1>3. ASSUME Rest(i, j) PROVE \E b \in P : F(i, j, b) /\ Rest(i + 1, b)
  <2>1. PICK cut \in [i..(n + 1) -> P] :
           cut[i] = j /\ cut[n + 1] = Len(str) + 1 /\ \A m \in i..n : F(m, cut[m], cut[m + 1])
    BY <1>2, <1>3
  <2> DEFINE rest == [k \in (i + 1)..(n + 1) |-> cut[k]]
  <2>2. rest \in [(i + 1)..(n + 1) -> P] /\ rest[i + 1] = cut[i + 1] /\ rest[n + 1] = Len(str) + 1
    BY <1>1, <2>1
  <2>3. \A m \in (i + 1)..n : F(m, rest[m], rest[m + 1])
    <3> TAKE m \in (i + 1)..n
    <3>1. m \in i..n /\ rest[m] = cut[m] /\ rest[m + 1] = cut[m + 1]
      BY <1>1
    <3> QED BY <3>1, <2>1
  <2> HIDE DEF rest
  <2>4. Rest(i + 1, cut[i + 1])
    BY <1>2, <2>2, <2>3
  <2>5. cut[i + 1] \in P /\ F(i, j, cut[i + 1])
    BY <1>1, <2>1
  <2> QED BY <2>4, <2>5
<1>4. ASSUME NEW b \in P, F(i, j, b), Rest(i + 1, b) PROVE Rest(i, j)
  <2>1. PICK cut \in [(i + 1)..(n + 1) -> P] :
           /\ cut[i + 1] = b /\ cut[n + 1] = Len(str) + 1
           /\ \A m \in (i + 1)..n : F(m, cut[m], cut[m + 1])
    BY <1>2, <1>4
  <2> DEFINE more == [k \in i..(n + 1) |-> IF k = i THEN j ELSE cut[k]]
  <2>2. j \in P
    BY DEF P
  <2>3. more \in [i..(n + 1) -> P] /\ more[i] = j /\ more[n + 1] = Len(str) + 1 /\ more[i + 1] = b
    BY <1>1, <2>1, <2>2
  <2>4. \A m \in i..n : F(m, more[m], more[m + 1])
    <3> TAKE m \in i..n
    <3>1. CASE m = i
      BY <3>1, <2>3, <1>4
    <3>2. CASE m # i
      <4>1. m \in (i + 1)..n /\ more[m] = cut[m] /\ more[m + 1] = cut[m + 1]
        BY <1>1, <3>2
      <4> QED BY <4>1, <2>1
    <3> QED BY <3>1, <3>2
  <2> HIDE DEF more
  <2> QED BY <1>2, <2>3, <2>4
<1> QED BY <1>3, <1>4 DEF F, P

LEMMA RestLiteral ==
    ASSUME Strings, NEW i \in 1..Len(pattern), NEW j \in 1..(Len(str) + 1), pattern[i] # STAR
    PROVE  Rest(i, j) <=> j <= Len(str) /\ (pattern[i] = ANY \/ pattern[i] = str[j]) /\ Rest(i + 1, j + 1)
<1>1. Len(str) \in Nat /\ j \in Nat
  BY Lengths
<1>2. Rest(i, j) <=> \E b \in 1..(Len(str) + 1) :
          b = j + 1 /\ (pattern[i] = ANY \/ pattern[i] = str[j]) /\ Rest(i + 1, b)
  BY RestStep DEF Fits
<1> QED BY <1>1, <1>2

LEMMA RestStar ==
    ASSUME Strings, NEW i \in 1..Len(pattern), NEW j \in 1..(Len(str) + 1), pattern[i] = STAR
    PROVE  Rest(i, j) <=> \E b \in j..(Len(str) + 1) : Rest(i + 1, b)
<1>1. Len(str) \in Nat /\ j \in Nat
  BY Lengths
<1>2. Rest(i, j) <=> \E b \in 1..(Len(str) + 1) : j <= b /\ Rest(i + 1, b)
  BY RestStep DEF Fits
<1> QED BY <1>1, <1>2

(* Characters other than stars take as many from the name. *)
LEMMA RestShift ==
    ASSUME Strings, NEW i \in 1..(Len(pattern) + 1), NEW n \in Nat, i + n <= Len(pattern) + 1,
           \A k \in i..(i + n - 1) : pattern[k] # STAR,
           NEW j \in 1..(Len(str) + 1), Rest(i, j)
    PROVE  j + n <= Len(str) + 1 /\ Rest(i + n, j + n)
<1> DEFINE T == {d \in 0..n : j + d <= Len(str) + 1 /\ Rest(i + d, j + d)}
<1>1. Len(str) \in Nat /\ Len(pattern) \in Nat /\ i \in Nat /\ j \in Nat
  BY Lengths
<1>2. 0 \in T
  <2>1. i + 0 = i /\ j + 0 = j /\ j <= Len(str) + 1
    BY <1>1
  <2> QED BY <2>1
<1>3. ASSUME NEW d \in 1..n, d - 1 \in T PROVE d \in T
  <2>1. /\ i + (d - 1) \in 1..Len(pattern) /\ i + (d - 1) \in i..(i + n - 1)
        /\ (i + (d - 1)) + 1 = i + d /\ (j + (d - 1)) + 1 = j + d /\ d \in 0..n
    BY <1>1
  <2>2. j + (d - 1) \in 1..(Len(str) + 1) /\ Rest(i + (d - 1), j + (d - 1))
    BY <1>1, <1>3
  <2>3. j + (d - 1) <= Len(str) /\ Rest(i + d, j + d)
    BY <2>1, <2>2, RestLiteral
  <2>4. j + d <= Len(str) + 1
    BY <1>1, <2>3
  <2> QED BY <2>1, <2>3, <2>4
<1> HIDE DEF T
<1>4. \A d \in 0..n : d \in T
  BY <1>2, <1>3, InductionTo
<1>5. n \in T
  BY <1>4
<1> QED BY <1>5 DEF T

(* At the end of the name only stars may be left. *)
LEMMA RestOfNothing ==
    ASSUME Strings, NEW i \in 1..(Len(pattern) + 1)
    PROVE  Rest(i, Len(str) + 1) <=> \A k \in i..Len(pattern) : pattern[k] = STAR
<1> DEFINE n == Len(pattern) + 1 - i
           e == Len(str) + 1
           T == {d \in 0..n : Rest(i + d, e) /\ \A k \in i..(i + d - 1) : pattern[k] = STAR}
<1>1. Len(str) \in Nat /\ Len(pattern) \in Nat /\ i \in Nat /\ n \in Nat /\ e \in 1..(Len(str) + 1)
  BY Lengths
<1>2. ASSUME Rest(i, e), NEW k \in i..Len(pattern) PROVE pattern[k] = STAR
  <2>1. 0 \in T
    BY <1>1, <1>2
  <2>2. ASSUME NEW d \in 1..n, d - 1 \in T PROVE d \in T
    <3> DEFINE m == i + (d - 1)
    <3>1. m \in 1..Len(pattern) /\ m + 1 = i + d /\ d \in 0..n /\ \A l \in i..(i + d - 1) : l = m \/ l \in i..(m - 1)
      BY <1>1
    <3>2. Rest(m, e) /\ \A l \in i..(m - 1) : pattern[l] = STAR
      BY <2>2
    <3> HIDE DEF m
    <3>3. pattern[m] = STAR
      BY <1>1, <3>1, <3>2, RestLiteral
    <3>4. Rest(m + 1, e)
      BY <1>1, <3>1, <3>2, <3>3, RestStar
    <3> QED BY <3>1, <3>2, <3>3, <3>4
  <2> HIDE DEF T
  <2>3. \A d \in 0..n : d \in T
    BY <1>1, <2>1, <2>2, InductionTo
  <2>4. n \in T /\ k \in i..(i + n - 1)
    BY <1>1, <2>3
  <2> QED BY <2>4 DEF T
<1>3. ASSUME \A k \in i..Len(pattern) : pattern[k] = STAR PROVE Rest(i, e)
  <2> DEFINE cut == [k \in i..(Len(pattern) + 1) |-> e]
  <2>1. cut \in [i..(Len(pattern) + 1) -> 1..(Len(str) + 1)] /\ cut[i] = e /\ cut[Len(pattern) + 1] = e
    BY <1>1
  <2>2. \A k \in i..Len(pattern) : Fits(str, pattern[k], cut[k], cut[k + 1])
    BY <1>1, <1>3 DEF Fits
  <2> HIDE DEF cut
  <2> QED BY <2>1, <2>2 DEF Rest, Matches
<1> QED BY <1>2, <1>3

----------------------------------------------------------------------------
(* MatchPattern *)

(* What a call with the last n characters of the pattern answers, if calls *)
(* with one character less succeed at the positions in tail.               *)
Answer(n, tail) ==
    {j \in 1..(Len(str) + 1) :
       IF n = 0 \/ j > Len(str)
         THEN j > Len(str) /\ \A i \in (Len(pattern) + 1 - n)..Len(pattern) : pattern[i] = STAR
       ELSE IF pattern[Len(pattern) + 1 - n] = STAR THEN n = 1 \/ \E k \in j..Len(str) : k \in tail
       ELSE pattern[Len(pattern) + 1 - n] = str[j] /\ j + 1 \in tail}

RestOf(n) == {j \in 1..(Len(str) + 1) : Rest(Len(pattern) + 1 - n, j)}

LEMMA AnswerIsRest ==
    ASSUME Strings, \A k \in 1..Len(pattern) : pattern[k] # ANY, NEW n \in 0..Len(pattern),
           NEW tail, n # 0 => tail = RestOf(n - 1)
    PROVE  Answer(n, tail) = RestOf(n)
<1> DEFINE i == Len(pattern) + 1 - n
<1>1. Len(str) \in Nat /\ Len(pattern) \in Nat /\ i \in 1..(Len(pattern) + 1)
  BY Lengths
<1>2. n = 0 => i = Len(pattern) + 1
  BY <1>1
<1>3. n # 0 => i \in 1..Len(pattern) /\ Len(pattern) + 1 - (n - 1) = i + 1
  BY <1>1
<1>4. n = 1 <=> i = Len(pattern)
  BY <1>1
<1>5. \A j : j \in Answer(n, tail) <=> j \in 1..(Len(str) + 1) /\
         IF n = 0 \/ j > Len(str) THEN j > Len(str) /\ \A k \in i..Len(pattern) : pattern[k] = STAR
         ELSE IF pattern[i] = STAR THEN n = 1 \/ \E k \in j..Len(str) : k \in tail
         ELSE pattern[i] = str[j] /\ j + 1 \in tail
  BY DEF Answer
<1>6. \A j : j \in RestOf(n) <=> j \in 1..(Len(str) + 1) /\ Rest(i, j)
  BY DEF RestOf
<1>7. n # 0 => \A j : j \in tail <=> j \in 1..(Len(str) + 1) /\ Rest(i + 1, j)
  BY <1>3 DEF RestOf
<1> HIDE DEF i
<1>8. ASSUME NEW j \in 1..(Len(str) + 1) PROVE j \in Answer(n, tail) <=> Rest(i, j)
  <2>1. CASE j > Len(str)
    <3>1. j = Len(str) + 1
      BY <1>1, <2>1
    <3> QED BY <1>1, <1>5, <2>1, <3>1, RestOfNothing
  <2>2. CASE ~(j > Len(str)) /\ n = 0
    <3>1. j # Len(str) + 1
      BY <1>1, <2>2
    <3> QED BY <1>2, <1>5, <2>2, <3>1, RestAtEnd
  <2>3. CASE ~(j > Len(str)) /\ n # 0 /\ pattern[i] # STAR
    <3>1. i \in 1..Len(pattern) /\ j <= Len(str) /\ j + 1 \in 1..(Len(str) + 1) /\ pattern[i] # ANY
      BY <1>1, <1>3, <2>3
    <3>2. Rest(i, j) <=> pattern[i] = str[j] /\ Rest(i + 1, j + 1)
      BY <2>3, <3>1, RestLiteral
    <3> QED BY <1>5, <1>7, <2>3, <3>1, <3>2
  <2>4. CASE ~(j > Len(str)) /\ n # 0 /\ pattern[i] = STAR
    <3>1. i \in 1..Len(pattern) /\ j \in Nat /\ j <= Len(str)
      BY <1>1, <1>3, <2>4
    <3>2. Rest(i, j) <=> \E b \in j..(Len(str) + 1) : Rest(i + 1, b)
      BY <2>4, <3>1, RestStar
    <3>3. j \in Answer(n, tail) <=> n = 1 \/ \E k \in j..Len(str) : Rest(i + 1, k)
      <4>1. \A k \in j..Len(str) : k \in 1..(Len(str) + 1)
        BY <1>1, <3>1
      <4> QED BY <1>5, <1>7, <2>4, <4>1
    <3>4. Len(str) + 1 \in j..(Len(str) + 1) /\ Len(str) + 1 \in 1..(Len(str) + 1)
      BY <1>1, <3>1
    <3>5. n = 1 => Rest(i + 1, Len(str) + 1)
      BY <1>4, <3>4, RestAtEnd
    <3>6. ASSUME n # 1, Rest(i + 1, Len(str) + 1) PROVE Rest(i + 1, j)
      <4>1. i + 1 \in 1..Len(pattern)
        BY <1>1, <1>4, <3>1, <3>6
      <4>2. (i + 1) + 1 \in 1..(Len(pattern) + 1) /\ i + 1 \in 1..(Len(pattern) + 1)
        BY <1>1, <4>1
      <4>3. \A k \in (i + 1)..Len(pattern) : pattern[k] = STAR
        BY <3>6, <4>2, RestOfNothing
      <4>4. pattern[i + 1] = STAR /\ \A k \in ((i + 1) + 1)..Len(pattern) : pattern[k] = STAR
        BY <1>1, <4>1, <4>3
      <4>5. Rest((i + 1) + 1, Len(str) + 1)
        BY <4>2, <4>4, RestOfNothing
      <4> QED BY <3>4, <4>1, <4>4, <4>5, RestStar
    <3>7. \A b \in j..(Len(str) + 1) : b \in j..Len(str) \/ b = Len(str) + 1
      BY <1>1, <3>1
    <3>8. j \in j..Len(str) /\ \A k \in j..Len(str) : k \in j..(Len(str) + 1)
      BY <1>1, <3>1
    <3> QED BY <3>2, <3>3, <3>4, <3>5, <3>6, <3>7, <3>8
  <2> QED BY <2>1, <2>2, <2>3, <2>4
<1>9. \A j : j \in Answer(n, tail) => j \in 1..(Len(str) + 1)
  BY <1>5
<1> QED BY <1>6, <1>8, <1>9

LEMMA MatchPatternDecides ==
    ASSUME Strings, \A k \in 1..Len(pattern) : pattern[k] # ANY
    PROVE  MatchPattern(pattern, str) <=> Rest(1, 1)
<1> DEFINE n == Len(pattern)
           Def(f) == f = [m \in 0..n |-> Answer(m, f[m - 1])]
           from == CHOOSE f : Def(f)
           g == [m \in 0..n |-> RestOf(m)]
           T == {m \in 0..n : from[m] = RestOf(m)}
<1>1. n \in Nat /\ \A m \in 1..n : m \in 0..n /\ m - 1 \in 0..n /\ m # 0
  BY Lengths
<1>2. Def(g)
  <2>1. ASSUME NEW m \in 0..n PROVE RestOf(m) = Answer(m, g[m - 1])
    <3>1. m # 0 => g[m - 1] = RestOf(m - 1)
      BY <1>1
    <3> QED BY <3>1, AnswerIsRest
  <2> QED BY <2>1, Zenon
<1>3. Def(from)
  BY <1>2, Zenon
<1> HIDE DEF from
<1>4. \A m \in 0..n : from[m] = Answer(m, from[m - 1])
  BY <1>3, Zenon
<1>5. 0 \in T
  BY <1>1, <1>4, AnswerIsRest
<1>6. ASSUME NEW m \in 1..n, m - 1 \in T PROVE m \in T
  BY <1>1, <1>4, <1>6, AnswerIsRest
<1> HIDE DEF T
<1>7. \A m \in 0..n : m \in T
  BY <1>1, <1>5, <1>6, InductionTo
<1>8. from[n] = RestOf(n)
  BY <1>1, <1>7 DEF T
<1>9. MatchPattern(pattern, str) <=> 1 \in from[n]
  BY DEF MatchPattern, from, Answer
<1>10. 1 \in RestOf(n) <=> Rest(1, 1)
  BY Lengths DEF RestOf
<1> QED BY <1>8, <1>9, <1>10

----------------------------------------------------------------------------
(* WildcardMatch *)

MatchTypes ==
    /\ Strings
    /\ s \in 1..(Len(str) + 1) /\ p \in 1..(Len(pattern) + 1)
    /\ star \in 0..Len(pattern) /\ ss \in 0..(Len(str) + 1)
    /\ result \in {"running", "match", "differ"}

(* Behind a star the cursors have moved by the same number of characters.  *)
Together ==
    result = "running" /\ star # 0 =>
        star < p /\ 0 < ss /\ ss <= s /\ p - star - 1 = s - ss

Plain == \A k \in 1..Len(str) : str[k] # STAR

(* Since the last star no other was passed, and what was passed fits. *)
Attempt ==
    star # 0 => /\ \A k \in (star + 1)..(p - 1) : pattern[k] # STAR
                /\ Rest(star + 1, ss) <=> Rest(p, s)

(* What is still to be decided: the rest at the cursors, or behind the     *)
(* last star at its position or a later one.                               *)
Open ==
    Glob(str, pattern) <=>
        IF star = 0 THEN Rest(p, s) ELSE \E j \in ss..(Len(str) + 1) : Rest(star + 1, j)

MatchInv ==
    /\ MatchTypes /\ Together
    /\ Plain /\ result = "running" => Attempt /\ Open
    /\ Plain /\ result # "running" => (result = "match" <=> Glob(str, pattern))

(* The NUL is behind the end of both strings and nowhere else. *)
LEMMA OnlyNulAtEnd ==
    ASSUME MatchTypes
    PROVE  /\ CharAt(str, s) = NUL <=> s = Len(str) + 1
           /\ s <= Len(str) <=> s # Len(str) + 1
           /\ s <= Len(str) => CharAt(str, s) = str[s] /\ str[s] # NUL
           /\ \A k \in 1..(Len(pattern) + 1) :
                /\ CharAt(pattern, k) = NUL <=> k = Len(pattern) + 1
                /\ k # Len(pattern) + 1 => k \in 1..Len(pattern) /\ CharAt(pattern, k) = pattern[k]
           /\ NUL # STAR /\ NUL # ANY /\ ANY # STAR
<1>1. NUL \notin Chars /\ NUL # STAR /\ NUL # ANY /\ ANY # STAR
  BY AlphabetAssumption DEF Chars, NUL, STAR, ANY
<1>2. Len(str) \in Nat /\ Len(pattern) \in Nat
  BY Lengths DEF MatchTypes
<1>3. /\ s <= Len(str) => str[s] \in Chars
      /\ \A k \in 1..Len(pattern) : pattern[k] \in Chars
  BY <1>2 DEF MatchTypes, Strings
<1> HIDE DEF Chars, NUL, STAR, ANY
<1> QED BY <1>1, <1>2, <1>3 DEF CharAt, MatchTypes

LEMMA InitMatchInv == MatchInit => MatchInv
<1> SUFFICES ASSUME MatchInit PROVE MatchInv
  OBVIOUS
<1>1. ASSUME NEW S, NEW n, S \subseteq Chars PROVE SeqsUpTo(S, n) \subseteq Seq(Chars)
  <2>1. ASSUME NEW k \in 0..n, NEW f \in [1..k -> S] PROVE f \in Seq(Chars)
    <3>1. k \in Nat /\ f \in [1..k -> Chars]
      BY <1>1
    <3> QED BY <3>1
  <2> QED BY <2>1 DEF SeqsUpTo
<1>2. Strings
  BY <1>1 DEF MatchInit, Strings, Chars
<1>3. MatchTypes /\ Together
  BY <1>2, Lengths DEF MatchInit, MatchTypes, Together
<1>4. Attempt /\ Open /\ result = "running"
  BY <1>2, WholePattern DEF MatchInit, Attempt, Open
<1> QED BY <1>3, <1>4 DEF MatchInv

(* A character that does not match leaves no rest. *)
LEMMA NoRest ==
    ASSUME MatchTypes, s <= Len(str), ~CharsMatch, CharAt(pattern, p) # STAR
    PROVE  ~Rest(p, s)
<1>1. Strings /\ s \in 1..(Len(str) + 1) /\ p \in 1..(Len(pattern) + 1)
  BY DEF MatchTypes
<1>2. CASE p = Len(pattern) + 1
  BY <1>1, <1>2, OnlyNulAtEnd, RestAtEnd
<1>3. CASE p # Len(pattern) + 1
  <2>1. p \in 1..Len(pattern) /\ pattern[p] # STAR /\ pattern[p] # ANY /\ pattern[p] # str[s]
    BY <1>1, <1>3, OnlyNulAtEnd DEF CharsMatch
  <2> QED BY <1>1, <2>1, RestLiteral
<1> QED BY <1>2, <1>3

LEMMA AdvanceMatchInv == ASSUME MatchInv, Advance PROVE MatchInv'
<1>1. /\ s <= Len(str) /\ CharAt(str, s) = str[s] /\ result = "running" /\ CharsMatch
      /\ p' = p + 1 /\ s' = s + 1 /\ UNCHANGED <<str, pattern, star, ss, result>>
  BY OnlyNulAtEnd DEF MatchInv, Advance, Looping
<1>2. p \in 1..Len(pattern) /\ CharAt(pattern, p) = pattern[p] /\ (pattern[p] = ANY \/ pattern[p] = str[s])
  <2>1. p # Len(pattern) + 1
    BY <1>1, OnlyNulAtEnd DEF MatchInv, CharsMatch, MatchTypes
  <2> QED BY <1>1, <2>1, OnlyNulAtEnd DEF MatchInv, CharsMatch, MatchTypes
<1>3. Len(str) \in Nat /\ Len(pattern) \in Nat
  BY Lengths DEF MatchInv, MatchTypes
<1>4. MatchTypes' /\ Together'
  BY <1>1, <1>2, <1>3 DEF MatchInv, MatchTypes, Together, Strings
<1>5. ASSUME Plain PROVE Attempt' /\ Open'
  <2>1. pattern[p] # STAR
    BY <1>1, <1>2, <1>5, OnlyNulAtEnd DEF MatchInv, MatchTypes, Plain
  <2>2. Rest(p, s) <=> Rest(p + 1, s + 1)
    BY <1>1, <1>2, <2>1, RestLiteral DEF MatchInv, MatchTypes
  <2>3. Attempt /\ Open
    BY <1>1, <1>5 DEF MatchInv
  <2>4. Attempt'
    <3>1. ASSUME star # 0, NEW k \in (star + 1)..(p' - 1) PROVE pattern[k] # STAR
      <4>1. k = p \/ k \in (star + 1)..(p - 1)
        BY <1>1, <3>1 DEF MatchInv, MatchTypes
      <4> QED BY <2>1, <2>3, <3>1, <4>1 DEF Attempt
    <3>2. star # 0 => (Rest(star + 1, ss) <=> Rest(p + 1, s + 1))
      BY <2>2, <2>3 DEF Attempt
    <3> QED BY <1>1, <3>1, <3>2 DEF Attempt, Rest
  <2>5. Open'
    BY <1>1, <2>2, <2>3 DEF Open, Rest
  <2> QED BY <2>4, <2>5
<1> QED BY <1>1, <1>4, <1>5 DEF MatchInv, Plain

(* Behind a new star the earlier one is not needed: its later positions    *)
(* leave no more of the name than the present one.                         *)
LEMMA RememberMatchInv == ASSUME MatchInv, Remember PROVE MatchInv'
<1>1. /\ s <= Len(str) /\ result = "running" /\ CharAt(pattern, p) = STAR
      /\ p' = p + 1 /\ star' = p /\ ss' = s /\ UNCHANGED <<str, pattern, s, result>>
  BY OnlyNulAtEnd DEF MatchInv, Remember, Looping
<1>2. p \in 1..Len(pattern) /\ pattern[p] = STAR
  BY <1>1, OnlyNulAtEnd DEF MatchInv, MatchTypes
<1>3. Len(str) \in Nat /\ Len(pattern) \in Nat
  BY Lengths DEF MatchInv, MatchTypes
<1>4. MatchTypes' /\ Together'
  BY <1>1, <1>2, <1>3 DEF MatchInv, MatchTypes, Together, Strings
<1>5. ASSUME Plain PROVE Attempt' /\ Open'
  <2>1. Strings /\ s \in 1..(Len(str) + 1) /\ Attempt /\ Open
    BY <1>1, <1>5 DEF MatchInv, MatchTypes
  <2>2. Rest(p, s) <=> \E j \in s..(Len(str) + 1) : Rest(p + 1, j)
    BY <1>2, <2>1, RestStar
  <2>3. Glob(str, pattern) <=> Rest(p, s)
    <3>1. CASE star = 0
      BY <2>1, <3>1 DEF Open
    <3>2. CASE star # 0
      <4>1. /\ star + 1 \in 1..(Len(pattern) + 1) /\ s - ss \in Nat /\ ss \in Nat /\ ss > 0
            /\ (star + 1) + (s - ss) = p /\ p <= Len(pattern) + 1 /\ ss \in ss..(Len(str) + 1)
        BY <1>1, <1>3, <3>2 DEF MatchInv, MatchTypes, Together
      <4>2. ASSUME Rest(p, s) PROVE Glob(str, pattern)
        BY <2>1, <3>2, <4>1, <4>2 DEF Attempt, Open
      <4>3. ASSUME NEW j \in ss..(Len(str) + 1), Rest(star + 1, j) PROVE Rest(p, s)
        <5> DEFINE n == s - ss
        <5>1. j \in 1..(Len(str) + 1)
          BY <1>3, <4>1
        <5>2. \A k \in (star + 1)..((star + 1) + n - 1) : pattern[k] # STAR
          BY <2>1, <3>2, <4>1 DEF Attempt
        <5>3. n \in Nat /\ (star + 1) + n = p
          BY <4>1
        <5> HIDE DEF n
        <5>4. j + n <= Len(str) + 1 /\ Rest(p, j + n)
          BY <2>1, <4>1, <4>3, <5>1, <5>2, <5>3, RestShift
        <5>5. j + n \in s..(Len(str) + 1) /\ j + n \in 1..(Len(str) + 1)
          BY <1>3, <2>1, <4>1, <5>1, <5>3, <5>4 DEF n
        <5>6. PICK b \in (j + n)..(Len(str) + 1) : Rest(p + 1, b)
          BY <1>2, <2>1, <5>4, <5>5, RestStar
        <5>7. b \in s..(Len(str) + 1)
          BY <1>3, <2>1, <5>5
        <5> QED BY <2>2, <5>6, <5>7
      <4> QED BY <2>1, <3>2, <4>2, <4>3 DEF Open
    <3> QED BY <3>1, <3>2
  <2>4. Attempt'
    <3>1. ~\E k \in (star' + 1)..(p' - 1) : TRUE
      BY <1>1, <1>2
    <3> QED BY <1>1, <3>1 DEF Attempt, Rest
  <2>5. Open'
    <3>1. star' # 0
      BY <1>1, <1>2
    <3> QED BY <1>1, <2>2, <2>3, <3>1 DEF Open, Rest
  <2> QED BY <2>4, <2>5
<1> QED BY <1>1, <1>4, <1>5 DEF MatchInv, Plain

(* The position that failed is the only one that is given up. *)
LEMMA BacktrackMatchInv == ASSUME MatchInv, Backtrack PROVE MatchInv'
<1>1. /\ s <= Len(str) /\ result = "running" /\ ~CharsMatch /\ CharAt(pattern, p) # STAR /\ star # 0
      /\ p' = star + 1 /\ ss' = ss + 1 /\ s' = ss + 1 /\ UNCHANGED <<str, pattern, star, result>>
  BY OnlyNulAtEnd DEF MatchInv, Backtrack, Looping
<1>2. Len(str) \in Nat /\ Len(pattern) \in Nat
  BY Lengths DEF MatchInv, MatchTypes
<1>3. MatchTypes' /\ Together'
  BY <1>1, <1>2 DEF MatchInv, MatchTypes, Together, Strings
<1>4. ASSUME Plain PROVE Attempt' /\ Open'
  <2>1. Attempt /\ Open
    BY <1>1, <1>4 DEF MatchInv
  <2>2. ~Rest(star + 1, ss)
    BY <1>1, <2>1, NoRest DEF MatchInv, Attempt
  <2>3. \A j : j \in ss..(Len(str) + 1) <=> j = ss \/ j \in (ss + 1)..(Len(str) + 1)
    BY <1>1, <1>2 DEF MatchInv, MatchTypes, Together
  <2>4. Open'
    BY <1>1, <2>1, <2>2, <2>3 DEF Open, Rest
  <2>5. Attempt'
    <3>1. ~\E k \in (star' + 1)..(p' - 1) : TRUE
      BY <1>1 DEF MatchInv, MatchTypes
    <3> QED BY <1>1, <3>1 DEF Attempt, Rest
  <2> QED BY <2>4, <2>5
<1> QED BY <1>1, <1>3, <1>4 DEF MatchInv, Plain

LEMMA DifferMatchInv == ASSUME MatchInv, Differ PROVE MatchInv'
<1>1. /\ s <= Len(str) /\ result = "running" /\ ~CharsMatch /\ CharAt(pattern, p) # STAR /\ star = 0
      /\ result' = "differ" /\ UNCHANGED <<str, pattern, s, p, star, ss>>
  BY OnlyNulAtEnd DEF MatchInv, Differ, Looping
<1>2. MatchTypes' /\ Together'
  BY <1>1 DEF MatchInv, MatchTypes, Together, Strings
<1>3. ASSUME Plain PROVE ~Glob(str, pattern)
  BY <1>1, <1>3, NoRest DEF MatchInv, Open
<1> QED BY <1>1, <1>2, <1>3 DEF MatchInv, Plain

(* At the end of the name a later position of the star would be too late.  *)
LEMMA FinishMatchInv == ASSUME MatchInv, Finish PROVE MatchInv'
<1>1. PICK i \in 1..(Len(pattern) + 1) :
         EndsAt(i) /\ p' = i /\ result' = IF CharAt(pattern, i) = NUL THEN "match" ELSE "differ"
  BY DEF Finish
<1>2. s = Len(str) + 1 /\ result = "running" /\ UNCHANGED <<str, pattern, s, star, ss>>
  BY OnlyNulAtEnd DEF MatchInv, Finish
<1>3. Len(str) \in Nat /\ Len(pattern) \in Nat /\ Strings /\ p \in 1..(Len(pattern) + 1)
  BY Lengths DEF MatchInv, MatchTypes
<1>4. result' = "match" <=> \A k \in p..Len(pattern) : pattern[k] = STAR
  <2>1. i >= p /\ CharAt(pattern, i) # STAR /\ \A k \in p..(i - 1) : CharAt(pattern, k) = STAR
    BY <1>1 DEF EndsAt
  <2>2. CASE i = Len(pattern) + 1
    <3>1. \A k \in p..Len(pattern) : k \in p..(i - 1) /\ k \in 1..(Len(pattern) + 1) /\ k # Len(pattern) + 1
      BY <1>3, <2>2
    <3> QED BY <1>1, <2>1, <2>2, <3>1, OnlyNulAtEnd DEF MatchInv
  <2>3. CASE i # Len(pattern) + 1
    <3>1. i \in p..Len(pattern)
      BY <1>3, <2>1, <2>3
    <3> QED BY <1>1, <2>1, <2>3, <3>1, OnlyNulAtEnd DEF MatchInv
  <2> QED BY <2>2, <2>3
<1>5. ASSUME Plain PROVE Glob(str, pattern) <=> Rest(p, s)
  <2>1. Attempt /\ Open
    BY <1>2, <1>5 DEF MatchInv
  <2>2. CASE star = 0
    BY <2>1, <2>2 DEF Open
  <2>3. CASE star # 0
    <3>1. /\ star + 1 \in 1..(Len(pattern) + 1) /\ s - ss \in Nat /\ ss \in Nat /\ ss > 0
          /\ (star + 1) + (s - ss) = p /\ p <= Len(pattern) + 1 /\ ss \in ss..(Len(str) + 1)
      BY <1>2, <1>3, <2>3 DEF MatchInv, MatchTypes, Together
    <3>2. ASSUME NEW j \in ss..(Len(str) + 1), Rest(star + 1, j) PROVE j = ss
      <4> DEFINE n == s - ss
      <4>1. j \in 1..(Len(str) + 1)
        BY <1>3, <3>1
      <4>2. \A k \in (star + 1)..((star + 1) + n - 1) : pattern[k] # STAR
        BY <2>1, <2>3, <3>1 DEF Attempt
      <4>3. n \in Nat /\ (star + 1) + n = p
        BY <3>1
      <4> HIDE DEF n
      <4>4. j + n <= Len(str) + 1
        BY <1>3, <3>1, <3>2, <4>1, <4>2, <4>3, RestShift
      <4> QED BY <1>2, <1>3, <3>1, <4>1, <4>4 DEF n
    <3> QED BY <2>1, <2>3, <3>1, <3>2 DEF Attempt, Open
  <2> QED BY <2>2, <2>3
<1>6. Rest(p, s) <=> \A k \in p..Len(pattern) : pattern[k] = STAR
  BY <1>2, <1>3, RestOfNothing
<1>7. MatchTypes' /\ Together'
  BY <1>1, <1>2, <1>3 DEF MatchInv, MatchTypes, Together, Strings
<1> QED BY <1>1, <1>2, <1>4, <1>5, <1>6, <1>7 DEF MatchInv, Plain

LEMMA NextMatchInv == MatchInv /\ [MatchNext]_matchVars => MatchInv'
<1> SUFFICES ASSUME MatchInv, [MatchNext]_matchVars PROVE MatchInv'
  OBVIOUS
<1>1. CASE Advance
  BY <1>1, AdvanceMatchInv
<1>2. CASE Remember
  BY <1>2, RememberMatchInv
<1>3. CASE Backtrack
  BY <1>3, BacktrackMatchInv
<1>4. CASE Differ
  BY <1>4, DifferMatchInv
<1>5. CASE Finish
  BY <1>5, FinishMatchInv
<1>6. CASE UNCHANGED matchVars
  BY <1>6 DEF matchVars, MatchInv, MatchTypes, Strings, Together, Plain, Attempt, Open, Rest
<1> QED BY <1>1, <1>2, <1>3, <1>4, <1>5, <1>6 DEF MatchNext

(* Going back to the last star only decides what the pattern means, for    *)
(* every name without a '*' and every pattern; trying every position       *)
(* behind a star, as MatchPattern does, decides it for every name and      *)
(* every pattern without a '?'.                                            *)
THEOREM MatchersDecide == MatchSpec => []DecidesThePattern
<1>1. MatchInv => DecidesThePattern
  <2> SUFFICES ASSUME MatchInv, result # "running" PROVE
         /\ (\A i \in DOMAIN str : str[i] # STAR) => (result = "match" <=> Glob(str, pattern))
         /\ (\A i \in DOMAIN pattern : pattern[i] # ANY) => (MatchPattern(pattern, str) <=> Glob(str, pattern))
    BY DEF DecidesThePattern
  <2>1. Strings /\ DOMAIN str = 1..Len(str) /\ DOMAIN pattern = 1..Len(pattern)
    BY DEF MatchInv, MatchTypes, Strings
  <2>2. (\A i \in DOMAIN str : str[i] # STAR) => (result = "match" <=> Glob(str, pattern))
    BY <2>1 DEF MatchInv, Plain
  <2>3. (\A i \in DOMAIN pattern : pattern[i] # ANY) => (MatchPattern(pattern, str) <=> Glob(str, pattern))
    BY <2>1, MatchPatternDecides, WholePattern
  <2> QED BY <2>2, <2>3
<1> QED BY <1>1, InitMatchInv, NextMatchInv, PTL DEF MatchSpec

(* No cursor passes the end of its string, for every name and pattern,     *)
(* those with a '*' in the name too.                                       *)
THEOREM CursorsStayInside == MatchSpec => []StaysInside
<1>1. MatchInv => StaysInside
  BY Lengths DEF MatchInv, MatchTypes, StaysInside
<1> QED BY <1>1, InitMatchInv, NextMatchInv, PTL DEF MatchSpec
=============================================================================
