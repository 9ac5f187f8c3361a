--------------------------- MODULE BlockIndexProofs ---------------------------
(***************************************************************************)
(* Proofs about BlockIndex for every block tree of every size and every    *)
(* order of the keys.                                                      *)
(***************************************************************************)
EXTENDS BlockIndex, WellFoundedInduction, FiniteSetTheorems, TLAPS

(* Every non-empty set of naturals has a least element.                    *)
LEMMA LeastNat ==
  ASSUME NEW T, T \subseteq Nat, T # {}
  PROVE  \E x \in T : \A y \in T : x <= y
<1> DEFINE R == OpToRel(<, Nat)
<1>1. IsWellFoundedOn(R, Nat)
  BY NatLessThanWellFounded
<1>2. \A x, y \in Nat : <<y, x>> \in R <=> y < x
  BY DEF OpToRel
<1> HIDE DEF R
<1>3. PICK x \in T : \A y \in T : ~ (<<y, x>> \in R)
  BY <1>1, WFMin, Zenon
<1>4. ASSUME NEW y \in T PROVE x <= y
  <2>1. x \in Nat /\ y \in Nat
    OBVIOUS
  <2>2. ~ (y < x)
    BY <1>2, <1>3, <2>1, Zenon
  <2> QED BY <2>1, <2>2
<1> QED BY <1>4

----------------------------------------------------------------------------

(* The database, as the second pass needs it. *)
DBInv ==
    \A b \in DOMAIN db : db[b].height # 0 =>
      /\ db[b].prev \in DOMAIN db
      /\ db[b].height = db[db[b].prev].height + 1
      /\ IsChain(b) /\ db[b].prev # snapshot => IsChain(db[b].prev)

(* The fully validated blocks. *)
Validated == {b \in DOMAIN db : IsChain(b)}

(* The first pass counts the blocks, the second those validated so far. *)
CountInv ==
    /\ pc \in {"open", "count"} => recordCount = 0
    /\ pc \in {"fill", "done"} =>
         /\ counts.b = Cardinality(DOMAIN db)
         /\ recordCount = Cardinality(Validated \ todo)
    /\ pc = "done" => todo = {}
    /\ ~overrun

(* What the second pass has stored so far. *)
TableInv ==
    /\ \A h \in Heights : table[h] # NONE =>
         table[h] \in DOMAIN db /\ db[table[h]].height = h /\ IsChain(table[h])
    /\ pc \in {"fill", "done"} =>
         \A b \in DOMAIN db \ todo : IsChain(b) => table[db[b].height] # NONE

IInv == TypeOK /\ DBInv /\ CountInv /\ TableInv

----------------------------------------------------------------------------
(* Height h lies on the same side of the snapshot as block b. *)
SameSide(b, h) == h >= AboveSnapshot \/ db[b].height < AboveSnapshot

(* Below every block there is one of each height, fully validated if the   *)
(* block is, as long as the snapshot does not lie between the two.         *)
LEMMA AncestorAt ==
  ASSUME TypeOK, DBInv, NEW b \in DOMAIN db, NEW h \in 0..db[b].height
  PROVE  \E c \in DOMAIN db : db[c].height = h /\ (IsChain(b) /\ SameSide(b, h) => IsChain(c))
<1> DEFINE n == db[b].height
           Found(k) == \E c \in DOMAIN db : db[c].height = n - k
                                           /\ (IsChain(b) /\ SameSide(b, n - k) => IsChain(c))
           Missing == {k \in 0..n : ~Found(k)}
<1>1. \A c \in DOMAIN db : db[c].height \in Nat
  BY DEF TypeOK, Heights
<1>2. Missing = {}
  <2> SUFFICES ASSUME Missing # {} PROVE FALSE
    OBVIOUS
  <2>1. PICK k \in Missing : \A j \in Missing : k <= j
    <3>1. Missing \subseteq Nat
      BY <1>1
    <3> HIDE DEF Missing
    <3> QED BY <3>1, LeastNat, Zenon
  <2>2. k # 0
    BY <1>1
  <2>3. k - 1 \in 0..n /\ k - 1 \notin Missing
    BY <1>1, <2>1, <2>2
  <2>4. PICK c \in DOMAIN db : /\ db[c].height = n - (k - 1)
                               /\ IsChain(b) /\ SameSide(b, n - (k - 1)) => IsChain(c)
    BY <2>3
  <2>5. db[c].height # 0
    BY <1>1, <2>3, <2>4
  <2>6. /\ db[c].prev \in DOMAIN db
        /\ db[c].height = db[db[c].prev].height + 1
        /\ IsChain(c) /\ db[c].prev # snapshot => IsChain(db[c].prev)
    BY <2>4, <2>5 DEF DBInv
  <2>7. db[db[c].prev].height = n - k
    BY <1>1, <2>3, <2>4, <2>6
  <2>8. ASSUME IsChain(b), SameSide(b, n - k) PROVE IsChain(db[c].prev)
    <3>1. AboveSnapshot \in Nat
      BY <1>1, MaxHeightAssumption DEF AboveSnapshot, TypeOK
    <3>2. SameSide(b, n - (k - 1))
      BY <1>1, <2>1, <2>3, <2>8, <3>1 DEF SameSide
    <3>3. ASSUME db[c].prev = snapshot PROVE FALSE
      <4>1. snapshot # NONE
        BY <2>6, <3>3, BlocksAssumption DEF TypeOK
      <4>2. AboveSnapshot = n - k + 1
        BY <2>7, <3>3, <4>1 DEF AboveSnapshot
      <4> QED BY <1>1, <2>1, <2>3, <2>8, <4>2 DEF SameSide
    <3> QED BY <2>4, <2>6, <2>8, <3>2, <3>3
  <2>9. Found(k)
    BY <2>6, <2>7, <2>8
  <2> QED BY <2>1, <2>9
<1>3. n - h \in 0..n /\ n - (n - h) = h
  BY <1>1
<1>4. Found(n - h)
  BY <1>2, <1>3
<1> QED BY <1>3, <1>4

(* The number of blocks exceeds every height: the array is large enough. *)
LEMMA HeightBound ==
  ASSUME TypeOK, DBInv, NEW b \in DOMAIN db
  PROVE  db[b].height < Cardinality(DOMAIN db)
<1> DEFINE n == db[b].height
           f == [h \in 0..n |-> CHOOSE c \in DOMAIN db : db[c].height = h]
<1>1. n \in Nat
  BY DEF TypeOK, Heights
<1>2. \A h \in 0..n : f[h] \in DOMAIN db /\ db[f[h]].height = h
  BY AncestorAt
<1>3. f \in Injection(0..n, DOMAIN db)
  BY <1>2 DEF Injection, IsInjective
<1>4. IsFiniteSet(DOMAIN db)
  BY BlocksAssumption, FS_Subset DEF TypeOK
<1> HIDE DEF f
<1>5. Cardinality(0..n) <= Cardinality(DOMAIN db)
  BY <1>3, <1>4, FS_Injection
<1>6. Cardinality(0..n) = n + 1
  BY <1>1, FS_Interval
<1>7. Cardinality(DOMAIN db) \in Nat
  BY <1>4, FS_CardinalityType
<1> QED BY <1>1, <1>5, <1>6, <1>7

----------------------------------------------------------------------------
LEMMA InitIInv == Init => IInv
<1> SUFFICES ASSUME Init PROVE IInv
  OBVIOUS
<1>0. PICK D \in SUBSET Blocks :
        \E prev \in [D -> D \cup {NONE}], height \in [D -> Heights] :
          /\ IsTree(prev, height)
          /\ \E status \in [D -> Statuses] :
               /\ snapshot \in {NONE} \cup {b \in D : Validity(status[b]) < BLOCK_VALID_CHAIN}
               /\ ChainClosed(prev, status, snapshot)
               /\ db = [b \in D |-> [prev |-> prev[b], height |-> height[b], status |-> status[b]]]
  BY Zenon DEF Init
<1>1. PICK prev \in [D -> D \cup {NONE}], height \in [D -> Heights], status \in [D -> Statuses] :
        /\ IsTree(prev, height)
        /\ snapshot \in D \cup {NONE}
        /\ ChainClosed(prev, status, snapshot)
        /\ db = [b \in D |-> [prev |-> prev[b], height |-> height[b], status |-> status[b]]]
  BY <1>0, Zenon
<1>2. DOMAIN db = D /\ DOMAIN prev = D
  BY <1>1
<1>3. \A b \in D : db[b].prev = prev[b] /\ db[b].height = height[b] /\ db[b].status = status[b]
  BY <1>1
<1>4. TypeOK
  <2>1. db \in [DOMAIN db -> [prev : Blocks \cup {NONE}, height : Heights, status : Statuses]]
    BY <1>1, <1>2
  <2>2. overrun \in BOOLEAN
    BY Zenon DEF Init
  <2> QED BY <1>1, <1>2, <2>1, <2>2 DEF Init, TypeOK
<1>5. DBInv
  BY <1>1, <1>2, <1>3 DEF DBInv, IsTree, ChainClosed, IsChain
<1>6. CountInv /\ TableInv
  BY DEF Init, CountInv, TableInv
<1> QED BY <1>4, <1>5, <1>6 DEF IInv

(* The sets of blocks the second pass works with are finite. *)
LEMMA FiniteBlocks ==
  ASSUME TypeOK
  PROVE  /\ IsFiniteSet(DOMAIN db) /\ Cardinality(DOMAIN db) \in Nat
         /\ IsFiniteSet(Validated) /\ Cardinality(Validated) \in Nat
         /\ IsFiniteSet(Validated \ todo)
         /\ Cardinality(Validated \ todo) \in Nat
         /\ Cardinality(Validated \ todo) <= Cardinality(DOMAIN db)
<1>1. IsFiniteSet(DOMAIN db)
  BY BlocksAssumption, FS_Subset DEF TypeOK
<1>2. Validated \subseteq DOMAIN db /\ Validated \ todo \subseteq DOMAIN db
  BY DEF Validated
<1>3. IsFiniteSet(Validated) /\ IsFiniteSet(Validated \ todo)
  BY <1>1, <1>2, FS_Subset
<1>4. Cardinality(Validated \ todo) <= Cardinality(DOMAIN db)
  BY <1>1, <1>2, FS_Subset
<1> QED BY <1>1, <1>3, <1>4, FS_CardinalityType

(* The second pass over one 'b' key. *)
LEMMA BlockKeyIInv ==
  ASSUME IInv, pc = "fill", NEW k \in todo, todo' = todo \ {k}, ReadBlockKey(k),
         UNCHANGED <<db, snapshot, pc, counts>>
  PROVE  IInv'
<1> USE DEF IInv
<1>1. k \in DOMAIN db /\ db[k].height \in Heights /\ db[k].height < counts.b
  BY HeightBound, FiniteBlocks DEF ReadBlockKey, CountInv, TypeOK
<1>2. UNCHANGED Validated
  BY DEF Validated, IsChain
<1>3. Cardinality(Validated \ todo') = Cardinality(Validated \ todo) + (IF IsChain(k) THEN 1 ELSE 0)
  <2>1. CASE IsChain(k)
    <3>1. Validated \ todo' = (Validated \ todo) \cup {k} /\ k \notin Validated \ todo
      BY <1>1, <2>1 DEF Validated
    <3> QED BY <2>1, <3>1, FiniteBlocks, FS_AddElement
  <2>2. CASE ~IsChain(k)
    <3>1. Validated \ todo' = Validated \ todo
      BY <2>2 DEF Validated
    <3> QED BY <2>2, <3>1, FiniteBlocks
  <2> QED BY <2>1, <2>2
<1>4. /\ UNCHANGED <<overrun, fileCount>> /\ recordCount' \in Nat
      /\ recordCount' = recordCount + (IF IsChain(k) THEN 1 ELSE 0)
  BY <1>1 DEF ReadBlockKey, Store, CountInv, TypeOK
<1>5. /\ table' \in [Heights -> Blocks \cup {NONE}]
      /\ IsChain(k) => table'[db[k].height] = k
      /\ \A h \in Heights : table'[h] = table[h] \/ (h = db[k].height /\ IsChain(k) /\ table'[h] = k)
  BY <1>1 DEF ReadBlockKey, Store, TypeOK
<1>6. TypeOK'
  <2>1. overrun' \in BOOLEAN
    BY <1>4 DEF TypeOK
  <2>2. todo' \subseteq Keys'
    BY DEF Keys, TypeOK
  <2> QED BY <1>4, <1>5, <2>1, <2>2 DEF TypeOK
<1>7. DBInv'
  BY DEF DBInv, IsChain
<1>8. CountInv'
  BY <1>2, <1>3, <1>4 DEF CountInv, TypeOK
<1>9. TableInv'
  <2>1. \A h \in Heights : table'[h] # NONE =>
          table'[h] \in DOMAIN db /\ db[table'[h]].height = h /\ IsChain(table'[h])
    BY <1>1, <1>5 DEF TableInv
  <2>2. \A b \in DOMAIN db \ todo' : IsChain(b) => table'[db[b].height] # NONE
    <3> SUFFICES ASSUME NEW b \in DOMAIN db \ todo', IsChain(b)
                 PROVE  table'[db[b].height] # NONE
      OBVIOUS
    <3>1. db[b].height \in Heights
      BY DEF TypeOK
    <3>2. k # NONE
      BY <1>1, BlocksAssumption DEF TypeOK
    <3>3. CASE b = k
      BY <1>5, <3>2, <3>3
    <3>4. CASE b # k
      BY <1>5, <3>1, <3>2, <3>4 DEF TableInv
    <3> QED BY <3>3, <3>4
  <2> QED BY <2>1, <2>2, Zenon DEF TableInv, IsChain
<1> QED BY <1>6, <1>7, <1>8, <1>9

LEMMA NextIInv == IInv /\ [Next]_vars => IInv'
<1> SUFFICES ASSUME IInv, [Next]_vars PROVE IInv'
  OBVIOUS
<1> USE DEF IInv
<1>1. CASE LDB_InitOpen
  <2>1. UNCHANGED <<db, snapshot, counts, todo, table, recordCount, fileCount, overrun>>
    BY <1>1 DEF LDB_InitOpen
  <2>2. pc = "open" /\ pc' \in {"count", "exit"}
    BY <1>1 DEF LDB_InitOpen
  <2>3. TypeOK'
    BY <2>1, <2>2 DEF TypeOK, Keys
  <2> QED BY <2>1, <2>2, <2>3 DEF DBInv, CountInv, TableInv, IsChain, Validated
<1>2. CASE CountEntries
  <2>1. /\ UNCHANGED <<db, snapshot, table, recordCount, fileCount, overrun>>
        /\ pc = "count" /\ pc' = "fill" /\ todo' = Keys
        /\ counts' = [b |-> Cardinality(DOMAIN db), f |-> Cardinality(FileKeys)]
    BY <1>2 DEF CountEntries
  <2>2. Cardinality(FileKeys) \in Nat
    BY KeysAssumption, FS_CardinalityType
  <2>3. TypeOK'
    BY <2>1, <2>2, FiniteBlocks DEF TypeOK, Keys
  <2>4. Validated' \ todo' = {}
    BY <2>1 DEF Keys, Validated
  <2>5. CountInv'
    BY <2>1, <2>4, FS_EmptySet DEF CountInv
  <2>6. TableInv'
    BY <2>1 DEF TableInv, IsChain, Keys
  <2> QED BY <2>1, <2>3, <2>5, <2>6 DEF DBInv, IsChain
<1>3. CASE IterNext
  <2>1. PICK k \in todo : todo' = todo \ {k} /\ (ReadBlockKey(k) \/ ReadFileKey(k) \/ ReadOtherKey(k))
    BY <1>3 DEF IterNext
  <2>2. pc = "fill" /\ UNCHANGED <<db, snapshot, pc, counts>>
    BY <1>3 DEF IterNext
  <2>3. CASE ReadBlockKey(k)
    BY <2>1, <2>2, <2>3, BlockKeyIInv
  <2>4. CASE ReadFileKey(k) \/ ReadOtherKey(k)
    <3>1. UNCHANGED <<table, overrun, recordCount>> /\ fileCount' \in Nat
      BY <2>4 DEF ReadFileKey, ReadOtherKey, TypeOK
    <3>2. k \notin DOMAIN db
      BY <2>4, KeysAssumption DEF ReadFileKey, ReadOtherKey, TypeOK
    <3>3. Validated' \ todo' = Validated \ todo /\ DOMAIN db \ todo' = DOMAIN db \ todo
      BY <2>1, <2>2, <3>2 DEF Validated, IsChain
    <3>4. TypeOK'
      BY <2>1, <2>2, <3>1 DEF TypeOK, Keys
    <3>5. CountInv' /\ TableInv'
      BY <2>2, <3>1, <3>3 DEF CountInv, TableInv, IsChain
    <3> QED BY <2>2, <3>4, <3>5 DEF DBInv, IsChain
  <2> QED BY <2>1, <2>3, <2>4
<1>4. CASE Publish
  <2>1. UNCHANGED <<db, snapshot, counts, todo, table, recordCount, fileCount, overrun>>
    BY <1>4 DEF Publish
  <2>2. pc = "fill" /\ pc' = "done" /\ todo = {}
    BY <1>4 DEF Publish
  <2>3. TypeOK'
    BY <2>1, <2>2 DEF TypeOK, Keys
  <2> QED BY <2>1, <2>2, <2>3 DEF DBInv, CountInv, TableInv, IsChain, Validated
<1>5. CASE UNCHANGED vars
  BY <1>5 DEF vars, TypeOK, DBInv, CountInv, TableInv, IsChain, Keys, Validated
<1> QED BY <1>1, <1>2, <1>3, <1>4, <1>5 DEF Next

----------------------------------------------------------------------------
(* Type correctness of the index build. *)
THEOREM TypeCorrect == Spec => []TypeOK
<1>1. IInv => TypeOK
  BY DEF IInv
<1> QED BY InitIInv, NextIInv, <1>1, PTL DEF Spec

(* BuildBlockIndexRecords never writes behind the array it sized by the    *)
(* number of 'b' keys, and never counts more records than it has elements: *)
(* for every tree of blocks, because a block of height h has h ancestors   *)
(* in the same database.                                                   *)
THEOREM ArrayLargeEnough == Spec => []StaysInArray
<1>1. IInv => StaysInArray
  BY FiniteBlocks DEF IInv, CountInv, StaysInArray, TypeOK
<1> QED BY InitIInv, NextIInv, <1>1, PTL DEF Spec

(* The published index has no hole below a fully validated block.          *)
THEOREM IndexHasNoHoles == Spec => []NoHoles
<1>1. IInv => NoHoles
  <2> SUFFICES ASSUME IInv, pc = "done", NEW b \in DOMAIN db, IsChain(b),
                      NEW h \in 0..db[b].height, SameSide(b, h)
               PROVE  table[h] \in DOMAIN db /\ db[table[h]].height = h /\ IsChain(table[h])
    BY DEF NoHoles, SameSide
  <2>1. PICK c \in DOMAIN db : db[c].height = h /\ IsChain(c)
    BY AncestorAt DEF IInv
  <2>2. h \in Heights
    BY <2>1 DEF IInv, TypeOK
  <2>3. table[h] # NONE
    BY <2>1 DEF IInv, CountInv, TableInv
  <2> QED BY <2>2, <2>3 DEF IInv, TableInv
<1> QED BY InitIInv, NextIInv, <1>1, PTL DEF Spec

(* Where no two validated blocks have one height and there is no snapshot, *)
(* the heights of the validated blocks are those below their number.       *)
LEMMA HeightsOfChain ==
  ASSUME TypeOK, DBInv, NoStaleChain, snapshot = NONE, NEW h \in Nat
  PROVE  (\E b \in Validated : db[b].height = h) <=> h < Cardinality(Validated)
<1> DEFINE N == Cardinality(Validated)
<1>1. \A b \in DOMAIN db : db[b].height \in Nat
  BY DEF TypeOK, Heights
<1>2. ASSUME NEW b \in Validated, NEW g \in 0..db[b].height
      PROVE  \E c \in Validated : db[c].height = g
  <2>1. AboveSnapshot = MaxHeight + 1
    BY DEF AboveSnapshot
  <2>2. SameSide(b, g)
    BY <2>1, MaxHeightAssumption DEF SameSide, Validated, TypeOK, Heights
  <2> QED BY <2>2, AncestorAt DEF Validated
<1>3. ASSUME NEW b \in Validated, db[b].height = h
      PROVE  h < N
  <2> DEFINE f == [g \in 0..h |-> CHOOSE c \in Validated : db[c].height = g]
  <2>1. \A g \in 0..h : f[g] \in Validated /\ db[f[g]].height = g
    BY <1>2, <1>3
  <2>2. f \in Injection(0..h, Validated)
    BY <2>1 DEF Injection, IsInjective
  <2> HIDE DEF f
  <2>3. Cardinality(0..h) <= N
    BY <2>2, FiniteBlocks, FS_Injection
  <2>4. Cardinality(0..h) = h + 1
    BY FS_Interval
  <2> QED BY <2>3, <2>4, FiniteBlocks
<1>4. ASSUME \A b \in Validated : db[b].height # h
      PROVE  N <= h
  <2> DEFINE f == [b \in Validated |-> db[b].height]
  <2>1. ASSUME NEW b \in Validated PROVE db[b].height \in 0..(h - 1)
    <3>1. db[b].height \in Nat
      BY <1>1 DEF Validated
    <3>2. ~(h \in 0..db[b].height)
      BY <1>2, <1>4
    <3> QED BY <3>1, <3>2
  <2>2. f \in Injection(Validated, 0..(h - 1))
    BY <2>1 DEF Injection, IsInjective, NoStaleChain, Validated
  <2> HIDE DEF f
  <2>3. IsFiniteSet(0..(h - 1)) /\ Cardinality(0..(h - 1)) = h
    BY FS_Interval
  <2> QED BY <2>2, <2>3, FS_Injection
<1> QED BY <1>3, <1>4, FiniteBlocks

(* Without a stale validated branch and without a snapshot the published   *)
(* index is the chain: GetBlockCount is its length, and each element       *)
(* follows on the one before it.                                           *)
THEOREM IndexIsOneChain == Spec => []OneChain
<1>1. IInv => OneChain
  <2> SUFFICES ASSUME IInv, pc = "done", NoStaleChain, snapshot = NONE
               PROVE  /\ \A h \in Heights : table[h] # NONE <=> h < recordCount
                      /\ \A h \in Heights : h + 1 < recordCount => db[table[h + 1]].prev = table[h]
    BY DEF OneChain
  <2> USE DEF IInv
  <2>1. recordCount = Cardinality(Validated)
    <3>1. Validated \ todo = Validated
      BY DEF CountInv
    <3> QED BY <3>1 DEF CountInv
  <2>2. \A h \in Heights : table[h] # NONE =>
          table[h] \in Validated /\ db[table[h]].height = h
    BY DEF TableInv, Validated
  <2>3. \A b \in Validated : table[db[b].height] # NONE
    BY DEF TableInv, CountInv, Validated
  <2>4. ASSUME NEW h \in Heights PROVE table[h] # NONE <=> h < recordCount
    BY <2>1, <2>2, <2>3, HeightsOfChain, MaxHeightAssumption DEF Heights
  <2>5. ASSUME NEW h \in Heights, h + 1 < recordCount
        PROVE  db[table[h + 1]].prev = table[h]
    <3>1. h \in Nat /\ h + 1 \in Nat
      BY MaxHeightAssumption DEF Heights
    <3>2. h + 1 \in Heights
      <4>1. PICK b \in Validated : db[b].height = h + 1
        BY <2>1, <2>5, <3>1, HeightsOfChain
      <4> QED BY <4>1 DEF Validated, TypeOK
    <3>3. table[h + 1] # NONE /\ table[h] # NONE
      BY <2>1, <2>4, <2>5, <3>1, <3>2, FiniteBlocks
    <3> DEFINE c == table[h + 1]
    <3>4. c \in Validated /\ db[c].height = h + 1 /\ table[h] \in Validated /\ db[table[h]].height = h
      BY <2>2, <3>2, <3>3
    <3>5. db[c].prev \in DOMAIN db /\ db[c].height = db[db[c].prev].height + 1 /\ IsChain(db[c].prev)
      BY <3>1, <3>4, BlocksAssumption DEF DBInv, Validated, TypeOK
    <3>6. db[db[c].prev].height = h
      BY <3>1, <3>4, <3>5 DEF TypeOK, Heights
    <3> QED BY <3>4, <3>5, <3>6 DEF NoStaleChain, Validated
  <2> QED BY <2>4, <2>5
<1> QED BY InitIInv, NextIInv, <1>1, PTL DEF Spec
=============================================================================
