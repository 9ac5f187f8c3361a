--------------------------- MODULE BlockReaderProofs ---------------------------
(***************************************************************************)
(* The block reader, for every block, record, key and offset and for every *)
(* number of values of a byte: what BlockReader promises, proved.          *)
(*                                                                         *)
(* What is stored is described by places. Lies(data, at, w) says that the  *)
(* bytes w lie in data behind place at; the serialized parts of a block    *)
(* lie one behind the other (FlattenIs, LiesFlatten), so each has a place  *)
(* (TxPos, InPos, OutPos, WitPos, ItemPos). Each reading step is shown to  *)
(* get a part back from the place where it lies and to move the cursor to  *)
(* the next place.                                                         *)
(*                                                                         *)
(* The invariants, each resting on the ones before it:                     *)
(*   RecordInv  what the records say, and that a block is only read when   *)
(*              its record says it is there                                *)
(*   ReaderInv  types, and that the buffer is the stored block: size and   *)
(*              bytes lose the key at their places in the file             *)
(*   LoopInv    how far each loop is, by what was read                     *)
(*   HeapInv    which memory is allocated, by what was read                *)
(*   CursorInv  what was read is what was stored and the cursor is behind  *)
(*              it; only for blocks whose counts and sizes fit in 16 bits  *)
(*   StatsInv   what GetBlockStats has counted                             *)
(*                                                                         *)
(* Recursive functions (Digits, Groups, WriteVarInt, FlattenSeq, Sum) are  *)
(* chosen functions: RecursionTo and RecursionBelow show that one with     *)
(* the wanted equations exists, and induction goes over a set of numbers.  *)
(***************************************************************************)
EXTENDS BlockReader, WellFoundedInduction, SequenceTheorems, TLAPS

(***************************************************************************)
(* Induction and recursion up to a number.                                 *)
(***************************************************************************)
(* Every non-empty set of naturals has a least element.                    *)
LEMMA LeastNat ==
  ASSUME NEW T, T \subseteq Nat, T # {}
  PROVE  \E x \in T : \A y \in T : x <= y
<1> DEFINE R == OpToRel(<, Nat)
<1>1. IsWellFoundedOn(R, Nat)
  BY NatLessThanWellFounded
<1>2. \A x, y \in Nat : <<y, x>> \in R <=> y < x
  BY DEF OpToRel
<1> HIDE DEF R
<1>3. PICK x \in T : \A y \in T : ~ (<<y, x>> \in R)
  BY <1>1, WFMin, Zenon
<1>4. ASSUME NEW y \in T PROVE x <= y
  <2>1. x \in Nat /\ y \in Nat
    OBVIOUS
  <2>2. ~ (y < x)
    BY <1>2, <1>3, <2>1, Zenon
  <2> QED BY <2>1, <2>2
<1> QED BY <1>4

(* Induction up to n, with the set of the numbers it is shown of.          *)
LEMMA InductionTo ==
  ASSUME NEW n \in Nat, NEW T, 0 \in T, \A i \in 1..n : i - 1 \in T => i \in T
  PROVE  \A i \in 0..n : i \in T
<1> DEFINE D == {i \in 0..n : i \notin T}
<1> SUFFICES ASSUME D # {} PROVE FALSE
  OBVIOUS
<1>1. D \subseteq Nat
  OBVIOUS
<1>2. PICK i \in D : \A j \in D : i <= j
  BY <1>1, LeastNat
<1>3. i \in 1..n /\ i - 1 \in 0..n /\ ~(i <= i - 1)
  OBVIOUS
<1>4. i - 1 \in T
  BY <1>2, <1>3
<1> QED BY <1>3, <1>4

(* f starts with e and goes from each number to the next by step.          *)
Iterates(f, n, e, step) == f[0] = e /\ \A i \in 1..n : f[i] = step[<<i, f[i - 1]>>]

(* A function that gives every number the value it has by a step from its  *)
(* predecessor's: what makes the definition of a recursive function sound. *)
LEMMA RecursionTo ==
  ASSUME NEW n \in Nat, NEW S, NEW e \in S, NEW step \in [(1..n) \X S -> S]
  PROVE  \E f \in [0..n -> S] : Iterates(f, n, e, step)
<1> DEFINE T == {m \in 0..n : \E f \in [0..m -> S] : Iterates(f, m, e, step)}
<1>1. 0 \in T
  <2>1. [i \in 0..0 |-> e] \in [0..0 -> S] /\ Iterates([i \in 0..0 |-> e], 0, e, step)
    BY DEF Iterates
  <2>2. \E f \in [0..0 -> S] : Iterates(f, 0, e, step)
    BY <2>1, Zenon
  <2> QED BY <2>2
<1>2. ASSUME NEW m \in 1..n, m - 1 \in T PROVE m \in T
  <2>1. PICK f \in [0..(m - 1) -> S] : Iterates(f, m - 1, e, step)
    BY <1>2
  <2> DEFINE g == [i \in 0..m |-> IF i = m THEN step[<<m, f[m - 1]>>] ELSE f[i]]
  <2>2. f \in [0..(m - 1) -> S] /\ f[0] = e /\ \A i \in 1..(m - 1) : f[i] = step[<<i, f[i - 1]>>]
    BY <2>1 DEF Iterates
  <2>3. m - 1 \in 0..(m - 1) /\ f[m - 1] \in S
    BY <2>2
  <2>4. step[<<m, f[m - 1]>>] \in S
    BY <2>3
  <2>5. g \in [0..m -> S] /\ g[0] = e
    BY <2>2, <2>4
  <2>6. ASSUME NEW i \in 1..m PROVE g[i] = step[<<i, g[i - 1]>>]
    <3>1. i - 1 \in 0..m /\ i - 1 # m /\ g[i - 1] = f[i - 1]
      OBVIOUS
    <3>2. CASE i = m
      BY <3>1, <3>2
    <3>3. CASE i # m
      <4>1. i \in 1..(m - 1) /\ g[i] = f[i]
        BY <3>3
      <4> QED BY <4>1, <3>1, <2>2
    <3> QED BY <3>2, <3>3
  <2>7. Iterates(g, m, e, step)
    BY <2>5, <2>6 DEF Iterates
  <2> HIDE DEF g
  <2>8. \E h \in [0..m -> S] : Iterates(h, m, e, step)
    BY <2>5, <2>7, Zenon
  <2> QED BY <2>8
<1> HIDE DEF T
<1>3. \A i \in 0..n : i \in T
  BY <1>1, <1>2, InductionTo
<1>4. n \in T
  BY <1>3
<1> QED BY <1>4 DEF T


(* It is the only one. *)
Agree(f, g, n) == \A k \in 0..n : g[k] = f[k]
Follows(g, n, S, e, step) == g[0] = e /\ \A k \in 1..n : g[k - 1] \in S => g[k] = step[<<k, g[k - 1]>>]

(* Every function that follows the steps is that one.                      *)
LEMMA RecursionUnique ==
  ASSUME NEW n \in Nat, NEW S, NEW e \in S, NEW step, NEW f \in [0..n -> S], Iterates(f, n, e, step),
         NEW g, Follows(g, n, S, e, step)
  PROVE  Agree(f, g, n)
<1> DEFINE T == {k \in 0..n : g[k] = f[k]}
<1>1. 0 \in T
  BY DEF Iterates, Follows
<1>2. ASSUME NEW k \in 1..n, k - 1 \in T PROVE k \in T
  <2>1. k - 1 \in 0..n /\ k \in 0..n /\ g[k - 1] = f[k - 1]
    BY <1>2
  <2>2. g[k] = step[<<k, g[k - 1]>>]
    BY <2>1 DEF Follows
  <2>3. f[k] = step[<<k, f[k - 1]>>]
    BY DEF Iterates
  <2> QED BY <2>1, <2>2, <2>3
<1> HIDE DEF T
<1>3. \A k \in 0..n : k \in T
  BY <1>1, <1>2, InductionTo
<1> QED BY <1>3 DEF T, Agree

(* The same for a function whose value at a number comes from its value at *)
(* some smaller one, or from none.                                         *)
Smaller(prev, n, Z) == \A v \in 0..n : v \notin Z => prev[v] \in 0..(v - 1)
Descends(f, n, Z, e, prev, step) == \A v \in 0..n : f[v] = IF v \in Z THEN e[v] ELSE step[<<v, f[prev[v]]>>]

(* Such a function exists.                                                 *)
LEMMA RecursionBelow ==
  ASSUME NEW n \in Nat, NEW S, NEW Z, NEW e \in [0..n -> S], NEW prev, NEW step \in [(0..n) \X S -> S],
         Smaller(prev, n, Z)
  PROVE  \E f \in [0..n -> S] : Descends(f, n, Z, e, prev, step)
<1> USE DEF Smaller
<1> DEFINE Good(f, m) == \A v \in 0..m : f[v] = IF v \in Z THEN e[v] ELSE step[<<v, f[prev[v]]>>]
           T == {m \in 0..n : \E f \in [0..m -> S] : Good(f, m)}
<1>1. 0 \in T
  <2> DEFINE g == [v \in 0..0 |-> e[0]]
  <2>1. 0 \in Z /\ 0 \in 0..n
    OBVIOUS
  <2>2. g \in [0..0 -> S]
    BY <2>1
  <2>3. Good(g, 0)
    BY <2>1
  <2> QED BY <2>1, <2>2, <2>3
<1>2. ASSUME NEW m \in 1..n, m - 1 \in T PROVE m \in T
  <2>1. PICK f \in [0..(m - 1) -> S] : Good(f, m - 1)
    BY <1>2
  <2> DEFINE x == IF m \in Z THEN e[m] ELSE step[<<m, f[prev[m]]>>]
             g == [v \in 0..m |-> IF v = m THEN x ELSE f[v]]
  <2>2. m \in 0..n /\ x \in S
    <3>1. m \in 0..n
      OBVIOUS
    <3>2. m \notin Z => f[prev[m]] \in S
      BY <3>1
    <3> QED BY <3>1, <3>2
  <2> HIDE DEF x
  <2>3. g \in [0..m -> S]
    BY <2>2
  <2>4. ASSUME NEW v \in 0..m PROVE g[v] = IF v \in Z THEN e[v] ELSE step[<<v, g[prev[v]]>>]
    <3>1. v \in 0..n /\ (v \notin Z => prev[v] \in 0..m /\ prev[v] # m /\ g[prev[v]] = f[prev[v]])
      OBVIOUS
    <3>2. CASE v = m
      BY <3>1, <3>2 DEF x
    <3>3. CASE v # m
      <4>1. v \in 0..(m - 1) /\ g[v] = f[v]
        BY <3>3
      <4> QED BY <2>1, <3>1, <4>1
    <3> QED BY <3>2, <3>3
  <2> HIDE DEF g
  <2>5. \E h \in [0..m -> S] : Good(h, m)
    BY <2>3, <2>4
  <2> QED BY <2>2, <2>5
<1> HIDE DEF T
<1>3. \A i \in 0..n : i \in T
  BY <1>1, <1>2, InductionTo
<1>4. n \in T
  BY <1>3
<1> QED BY <1>4 DEF T, Descends

(* Induction from all smaller numbers. *)
LEMMA InductionBelow ==
  ASSUME NEW n \in Nat, NEW T, \A v \in 0..n : (\A u \in 0..(v - 1) : u \in T) => v \in T
  PROVE  \A v \in 0..n : v \in T
<1> DEFINE D == {v \in 0..n : v \notin T}
<1> SUFFICES ASSUME D # {} PROVE FALSE
  OBVIOUS
<1>1. D \subseteq Nat
  OBVIOUS
<1>2. PICK v \in D : \A u \in D : v <= u
  BY <1>1, LeastNat
<1>3. \A u \in 0..(v - 1) : u \in 0..n /\ ~(v <= u)
  OBVIOUS
<1>4. \A u \in 0..(v - 1) : u \in T
  BY <1>2, <1>3
<1> QED BY <1>4

----------------------------------------------------------------------------
(* Quotients, remainders and numbers of digits *)

(***************************************************************************)
(* Division, and the integer codecs.                                       *)
(***************************************************************************)
(* Quotient and remainder.                                                 *)
LEMMA DivMod ==
    ASSUME NEW b \in Nat, b > 0, NEW v \in Nat
    PROVE  v \div b \in Nat /\ v % b \in 0..(b - 1) /\ v = b * (v \div b) + (v % b)
OBVIOUS

(* They are the only ones.                                                 *)
LEMMA DivModIs ==
    ASSUME NEW b \in Nat, NEW q \in Nat, NEW r \in 0..(b - 1)
    PROVE  (b * q + r) \div b = q /\ (b * q + r) % b = r
OBVIOUS

(* The quotient of a number below a multiple.                              *)
LEMMA DivLess ==
    ASSUME NEW b \in Nat, b > 0, NEW m \in Nat, NEW v \in Nat, v < b * m
    PROVE  v \div b < m
<1>1. v \div b \in Nat /\ v % b \in 0..(b - 1) /\ v = b * (v \div b) + (v % b)
  BY DivMod
<1> QED BY <1>1

(* The continuation bit: Half is 128 in the code.                          *)
LEMMA Halves == Half \in Nat /\ Half >= 2 /\ Base \in Nat /\ 2 * Half <= Base
BY BaseAssumption DEF Half

(* The ranges of the integer types, in order.                              *)
LEMMA Ranges ==
    /\ U16Range \in Nat /\ U32Range \in Nat /\ U64Range \in Nat
    /\ Base < U16Range /\ 2 * U16Range <= U32Range /\ 2 * U32Range <= U64Range
<1>1. Base \in Nat /\ Base > 3
  BY BaseAssumption
<1>2. U16Range \in Nat /\ U16Range > Base
  BY <1>1 DEF U16Range
<1>3. U32Range \in Nat /\ U32Range >= 2 * U16Range
  BY <1>1, <1>2 DEF U32Range
<1>4. U64Range \in Nat /\ U64Range >= 2 * U32Range
  BY <1>1, <1>2, <1>3 DEF U64Range
<1> QED BY <1>2, <1>3, <1>4

(* A number in groups of seven bits.                                       *)
LEMMA DivHalf ==
    ASSUME NEW v \in Nat
    PROVE  /\ v \div Half \in Nat /\ v % Half \in 0..(Half - 1) /\ v = Half * (v \div Half) + (v % Half)
           /\ v >= Half => v \div Half >= 1 /\ v \div Half < v
           /\ v < Half => v \div Half = 0 /\ v % Half = v
<1>1. Half \in Nat /\ Half >= 2
  BY Halves
<1> HIDE DEF Half
<1>2. v \div Half \in Nat /\ v % Half \in 0..(Half - 1) /\ v = Half * (v \div Half) + (v % Half)
  BY <1>1, DivMod
<1>3. v >= Half => v \div Half >= 1
  BY <1>1, <1>2
<1>4. v >= Half => v \div Half < v
  <2> SUFFICES ASSUME v >= Half PROVE v \div Half < v
    OBVIOUS
  <2> DEFINE q == v \div Half
  <2>1. q \in Nat /\ q >= 1 /\ v >= Half * q
    BY <1>1, <1>2, <1>3
  <2> HIDE DEF q
  <2>2. Half * q >= 2 * q
    BY <1>1, <2>1
  <2> QED BY <1>1, <2>1, <2>2 DEF q
<1>5. v < Half => v \div Half = 0 /\ v % Half = v
  BY <1>1
<1> QED BY <1>2, <1>3, <1>4, <1>5

(* A byte without and one with the continuation bit. *)
LEMMA HalfBytes ==
    ASSUME NEW x \in 0..(Half - 1)
    PROVE  /\ x \in Octets /\ x < Half /\ x % Half = x /\ x \div Half = 0
           /\ Half + x \in Octets /\ ~(Half + x < Half) /\ (Half + x) % Half = x /\ (Half + x) \div Half = 1
<1>1. Half \in Nat /\ Half >= 2 /\ Base \in Nat /\ 2 * Half <= Base
  BY Halves
<1> HIDE DEF Half
<1>2. (Half * 0 + x) \div Half = 0 /\ (Half * 0 + x) % Half = x
  BY <1>1, DivModIs
<1>3. (Half * 1 + x) \div Half = 1 /\ (Half * 1 + x) % Half = x
  BY <1>1, DivModIs
<1>4. Half * 0 + x = x /\ Half * 1 + x = Half + x
  BY <1>1
<1> QED BY <1>1, <1>2, <1>3, <1>4 DEF Octets

(* The recursive function behind Number, digit by digit.                   *)
LEMMA NumberIs ==
    ASSUME NEW b \in Nat, NEW d \in Seq(Nat)
    PROVE  \E f \in [0..Len(d) -> Nat] :
             /\ f[0] = 0 /\ \A k \in 1..Len(d) : f[k] = f[k - 1] * b + d[Len(d) + 1 - k]
             /\ Number(d, b) = f[Len(d)]
<1> DEFINE n == Len(d)
           Def(f) == f = [k \in 0..n |-> IF k = 0 THEN 0 ELSE f[k - 1] * b + d[n + 1 - k]]
           acc == CHOOSE f : Def(f)
           step == [x \in (1..n) \X Nat |-> x[2] * b + d[n + 1 - x[1]]]
<1>1. n \in Nat /\ \A k \in 1..n : d[n + 1 - k] \in Nat
  OBVIOUS
<1>2. step \in [(1..n) \X Nat -> Nat]
  <2>1. ASSUME NEW x \in (1..n) \X Nat PROVE x[2] * b + d[n + 1 - x[1]] \in Nat
    <3>1. x[1] \in 1..n /\ x[2] \in Nat
      OBVIOUS
    <3>2. d[n + 1 - x[1]] \in Nat
      BY <1>1, <3>1, Zenon
    <3>3. \A u, v, y \in Nat : u * v + y \in Nat
      OBVIOUS
    <3> QED BY <3>1, <3>2, <3>3, Zenon
  <2> QED BY <2>1, Zenon
<1>3. \A k \in 1..n, x \in Nat : step[<<k, x>>] = x * b + d[n + 1 - k]
  BY <1>1
<1> HIDE DEF step
<1>4. PICK f \in [0..n -> Nat] : Iterates(f, n, 0, step)
  BY <1>1, <1>2, RecursionTo
<1>5. f[0] = 0 /\ \A k \in 1..n : f[k] = f[k - 1] * b + d[n + 1 - k]
  <2>1. ASSUME NEW k \in 1..n PROVE f[k] = f[k - 1] * b + d[n + 1 - k]
    <3>1. k - 1 \in 0..n
      BY <1>1
    <3>2. f[k - 1] \in Nat
      BY <3>1
    <3>3. f[k] = step[<<k, f[k - 1]>>]
      BY <1>4, Zenon DEF Iterates
    <3> QED BY <1>3, <3>2, <3>3
  <2> QED BY <1>4, <2>1 DEF Iterates
<1>6. Def(f)
  BY <1>1, <1>5
<1>7. Def(acc)
  BY <1>6, Zenon
<1>8. Number(d, b) = acc[n]
  BY DEF Number
<1> HIDE DEF acc
<1>9. ASSUME NEW k \in 1..n, acc[k - 1] \in Nat PROVE acc[k] = step[<<k, acc[k - 1]>>]
  <2>1. acc[k] = acc[k - 1] * b + d[n + 1 - k]
    <3>1. k \in 0..n /\ k # 0
      OBVIOUS
    <3> QED BY <1>7, <3>1, Zenon
  <2> QED BY <1>3, <1>9, <2>1
<1>10. acc[0] = 0
  BY <1>1, <1>7
<1>11. \A k \in 0..n : acc[k] = f[k]
  <2>1. n \in Nat /\ 0 \in Nat
    BY <1>1
  <2>2. Follows(acc, n, Nat, 0, step)
    BY <1>9, <1>10 DEF Follows
  <2>3. Agree(f, acc, n)
    BY <1>4, <2>1, <2>2, RecursionUnique
  <2> QED BY <2>3 DEF Agree
<1>12. acc[n] = f[n]
  BY <1>1, <1>11
<1> QED BY <1>5, <1>8, <1>12

(* Digits make a natural.                                                  *)
LEMMA NumberType == ASSUME NEW b \in Nat, NEW d \in Seq(Nat) PROVE Number(d, b) \in Nat
<1>1. PICK f \in [0..Len(d) -> Nat] : Number(d, b) = f[Len(d)]
  BY NumberIs, Zenon
<1> QED BY <1>1

(* No digits make zero.                                                    *)
LEMMA NumberEmpty == ASSUME NEW b \in Nat PROVE Number(<< >>, b) = 0
<1>1. << >> \in Seq(Nat) /\ Len(<< >>) = 0
  OBVIOUS
<1>2. PICK f \in [0..Len(<< >>) -> Nat] : f[0] = 0 /\ Number(<< >>, b) = f[Len(<< >>)]
  BY <1>1, NumberIs, Zenon
<1> QED BY <1>1, <1>2

(* A digit in front is the lowest one. *)
LEMMA NumberPrepend ==
    ASSUME NEW b \in Nat, NEW x \in Nat, NEW d \in Seq(Nat)
    PROVE  Number(<<x>> \o d, b) = Number(d, b) * b + x
<1> DEFINE n == Len(d)
           c == <<x>> \o d
<1>1. /\ n \in Nat /\ c \in Seq(Nat) /\ Len(c) = n + 1 /\ c[1] = x
      /\ \A k \in 1..n : c[k + 1] = d[k]
  OBVIOUS
<1> HIDE DEF c
<1>2. PICK f \in [0..n -> Nat] :
         /\ f[0] = 0 /\ \A k \in 1..n : f[k] = f[k - 1] * b + d[n + 1 - k]
         /\ Number(d, b) = f[n]
  BY NumberIs
<1>3. PICK g \in [0..(n + 1) -> Nat] :
         /\ g[0] = 0 /\ \A k \in 1..(n + 1) : g[k] = g[k - 1] * b + c[n + 2 - k]
         /\ Number(c, b) = g[n + 1]
  <2>1. \E g \in [0..Len(c) -> Nat] :
         /\ g[0] = 0 /\ \A k \in 1..Len(c) : g[k] = g[k - 1] * b + c[Len(c) + 1 - k]
         /\ Number(c, b) = g[Len(c)]
    BY <1>1, NumberIs
  <2>2. \A k \in 1..(n + 1) : n + 1 + 1 - k = n + 2 - k
    BY <1>1
  <2> QED BY <1>1, <2>1, <2>2
<1> DEFINE T == {k \in 0..n : f[k] = g[k]}
<1>4. 0 \in T
  BY <1>1, <1>2, <1>3
<1>5. ASSUME NEW k \in 1..n, k - 1 \in T PROVE k \in T
  <2>1. n + 1 - k \in 1..n /\ (n + 1 - k) + 1 = n + 2 - k /\ k \in 1..(n + 1)
    BY <1>1
  <2>2. c[n + 2 - k] = d[n + 1 - k]
    BY <1>1, <2>1
  <2> QED BY <1>2, <1>3, <1>5, <2>1, <2>2
<1> HIDE DEF T
<1>6. \A k \in 0..n : k \in T
  BY <1>1, <1>4, <1>5, InductionTo
<1>7. f[n] = g[n]
  BY <1>1, <1>6 DEF T
<1>8. g[n + 1] = g[n] * b + c[1]
  <2>1. n + 1 \in 1..(n + 1) /\ (n + 1) - 1 = n /\ n + 2 - (n + 1) = 1
    BY <1>1
  <2> QED BY <1>3, <2>1
<1> QED BY <1>1, <1>2, <1>3, <1>7, <1>8 DEF c

(* The recursive function behind Groups, byte by byte.                     *)
LEMMA GroupsIs ==
    ASSUME NEW s \in Seq(Octets)
    PROVE  \E f \in [0..Len(s) -> Nat] :
             /\ f[0] = 0
             /\ \A k \in 1..Len(s) : f[k] = (f[k - 1] * Half + (s[k] % Half) + (s[k] \div Half)) % U64Range
             /\ Groups(s) = f[Len(s)]
<1> DEFINE n == Len(s)
           Def(f) == f = [k \in 0..n |-> IF k = 0 THEN 0
                                         ELSE (f[k - 1] * Half + (s[k] % Half) + (s[k] \div Half)) % U64Range]
           acc == CHOOSE f : Def(f)
           step == [x \in (1..n) \X Nat |-> (x[2] * Half + (s[x[1]] % Half) + (s[x[1]] \div Half)) % U64Range]
<1>1. n \in Nat /\ Half \in Nat /\ U64Range \in Nat /\ U64Range > 0
  BY Halves, Ranges
<1>2. \A k \in 1..n : (s[k] % Half) \in Nat /\ (s[k] \div Half) \in Nat
  <2> SUFFICES ASSUME NEW k \in 1..n PROVE (s[k] % Half) \in Nat /\ (s[k] \div Half) \in Nat
    OBVIOUS
  <2>1. s[k] \in Nat
    BY BaseAssumption DEF Octets
  <2>2. s[k] % Half \in 0..(Half - 1) /\ s[k] \div Half \in Nat
    BY <2>1, DivHalf
  <2> QED BY <1>1, <2>2
<1>3. \A y \in Nat : y % U64Range \in Nat
  BY <1>1, DivMod
<1>4. \A k \in 1..n, x \in Nat : x * Half + (s[k] % Half) + (s[k] \div Half) \in Nat
  <2>1. \A x, y, z \in Nat : x * Half + y + z \in Nat
    BY <1>1
  <2> QED BY <1>2, <2>1
<1>5. \A k \in 1..n, x \in Nat : (x * Half + (s[k] % Half) + (s[k] \div Half)) % U64Range \in Nat
  BY <1>3, <1>4
<1>6. step \in [(1..n) \X Nat -> Nat]
  BY <1>5
<1>7. \A k \in 1..n, x \in Nat : step[<<k, x>>] = (x * Half + (s[k] % Half) + (s[k] \div Half)) % U64Range
  OBVIOUS
<1> HIDE DEF step
<1>8. PICK f \in [0..n -> Nat] : Iterates(f, n, 0, step)
  BY <1>1, <1>6, RecursionTo
<1>9. f[0] = 0 /\ \A k \in 1..n : f[k] = (f[k - 1] * Half + (s[k] % Half) + (s[k] \div Half)) % U64Range
  <2>1. ASSUME NEW k \in 1..n
        PROVE  f[k] = (f[k - 1] * Half + (s[k] % Half) + (s[k] \div Half)) % U64Range
    <3>1. f[k - 1] \in Nat /\ f[k] = step[<<k, f[k - 1]>>]
      BY <1>1, <1>8 DEF Iterates
    <3> QED BY <1>7, <3>1
  <2> QED BY <1>8, <2>1 DEF Iterates
<1>10. Def(f)
  BY <1>1, <1>9
<1>11. Def(acc)
  BY <1>10, Zenon
<1>12. Groups(s) = acc[n]
  BY DEF Groups
<1> HIDE DEF acc
<1>13. ASSUME NEW k \in 1..n, acc[k - 1] \in Nat PROVE acc[k] = step[<<k, acc[k - 1]>>]
  <2>1. acc[k] = (acc[k - 1] * Half + (s[k] % Half) + (s[k] \div Half)) % U64Range
    <3>1. k \in 0..n /\ k # 0
      OBVIOUS
    <3> QED BY <1>11, <3>1, Zenon
  <2> QED BY <1>7, <1>13, <2>1
<1>14. acc[0] = 0
  BY <1>1, <1>11
<1>15. \A k \in 0..n : acc[k] = f[k]
  <2>1. n \in Nat /\ 0 \in Nat
    BY <1>1
  <2>2. Follows(acc, n, Nat, 0, step)
    BY <1>13, <1>14 DEF Follows
  <2>3. Agree(f, acc, n)
    BY <1>8, <2>1, <2>2, RecursionUnique
  <2> QED BY <2>3 DEF Agree
<1>16. acc[n] = f[n]
  BY <1>1, <1>15
<1> QED BY <1>9, <1>12, <1>16

(* No bytes make zero.                                                     *)
LEMMA GroupsEmpty == Groups(<< >>) = 0
<1>1. << >> \in Seq(Octets) /\ Len(<< >>) = 0
  OBVIOUS
<1> QED BY <1>1, GroupsIs

(* One step of the loop of DecodeVarint128. *)
LEMMA GroupsAppend ==
    ASSUME NEW s \in Seq(Octets), NEW b \in Octets
    PROVE  Groups(Append(s, b)) = (Groups(s) * Half + (b % Half) + (b \div Half)) % U64Range
<1> DEFINE n == Len(s)
           c == Append(s, b)
           Step(x, y) == (x * Half + (y % Half) + (y \div Half)) % U64Range
<1>1. n \in Nat /\ c \in Seq(Octets) /\ Len(c) = n + 1 /\ c[n + 1] = b /\ \A k \in 1..n : c[k] = s[k]
  OBVIOUS
<1> HIDE DEF c
<1>2. PICK f \in [0..n -> Nat] :
         f[0] = 0 /\ (\A k \in 1..n : f[k] = Step(f[k - 1], s[k])) /\ Groups(s) = f[n]
  BY GroupsIs
<1>3. PICK g \in [0..(n + 1) -> Nat] :
         g[0] = 0 /\ (\A k \in 1..(n + 1) : g[k] = Step(g[k - 1], c[k])) /\ Groups(c) = g[n + 1]
  <2>1. \E g \in [0..Len(c) -> Nat] :
         g[0] = 0 /\ (\A k \in 1..Len(c) : g[k] = Step(g[k - 1], c[k])) /\ Groups(c) = g[Len(c)]
    BY <1>1, GroupsIs
  <2> QED BY <1>1, <2>1
<1> HIDE DEF Step
<1> DEFINE T == {k \in 0..n : f[k] = g[k]}
<1>4. 0 \in T
  BY <1>1, <1>2, <1>3
<1>5. ASSUME NEW k \in 1..n, k - 1 \in T PROVE k \in T
  BY <1>1, <1>2, <1>3, <1>5
<1> HIDE DEF T
<1>6. \A k \in 0..n : k \in T
  BY <1>1, <1>4, <1>5, InductionTo
<1>7. f[n] = g[n]
  BY <1>1, <1>6 DEF T
<1>8. n + 1 \in 1..(n + 1) /\ (n + 1) - 1 = n
  BY <1>1
<1>9. g[n + 1] = Step(g[n], b)
  BY <1>1, <1>3, <1>8
<1>10. Groups(c) = Step(Groups(s), b)
  BY <1>2, <1>3, <1>7, <1>9
<1> QED BY <1>10 DEF Step, c

(* Bytes make a natural.                                                   *)
LEMMA GroupsType == ASSUME NEW s \in Seq(Octets) PROVE Groups(s) \in Nat
<1>1. PICK f \in [0..Len(s) -> Nat] : Groups(s) = f[Len(s)]
  BY GroupsIs, Zenon
<1> QED BY <1>1

----------------------------------------------------------------------------
(* The end of a varint *)

(* Min is the least element.                                               *)
LEMMA LeastIs ==
    ASSUME NEW S, NEW i \in S, S \subseteq Nat, \A k \in S : i <= k
    PROVE  Min(S) = i
<1>1. PICK m \in S : m = Min(S) /\ \A k \in S : m <= k
  BY Zenon DEF Min
<1>2. m \in Nat /\ i \in Nat /\ m <= i /\ i <= m
  BY <1>1
<1> QED BY <1>1, <1>2

(* The loop of DecodeVarint128 stops at the first byte without the bit.    *)
LEMMA LastByteIs ==
    ASSUME NEW data \in Seq(Octets), NEW at \in Nat \ {0}, NEW i \in at..Len(data), data[i] < Half,
           \A k \in at..(i - 1) : ~(data[k] < Half)
    PROVE  LastByte(data, at) = i
<1> DEFINE I == {k \in at..Len(data) : data[k] < Half}
<1>1. i \in I /\ I \subseteq Nat /\ \A k \in I : i <= k
  OBVIOUS
<1>2. Min(I) = i
  BY <1>1, LeastIs
<1>3. SelectInSubSeq(data, at, Len(data), LAMBDA b : b < Half) = IF I # {} THEN Min(I) ELSE 0
  BY DEF SelectInSubSeq
<1>4. i # 0
  OBVIOUS
<1> HIDE DEF I
<1> QED BY <1>1, <1>2, <1>3, <1>4 DEF LastByte

(* It stops inside the data.                                               *)
LEMMA LastByteType ==
    ASSUME NEW data \in Seq(Octets), NEW at \in 1..(Len(data) + 1)
    PROVE  LastByte(data, at) \in (at - 1)..Len(data)
<1> DEFINE I == {k \in at..Len(data) : data[k] < Half}
<1>1. I \subseteq Nat
  OBVIOUS
<1>2. SelectInSubSeq(data, at, Len(data), LAMBDA b : b < Half) = IF I # {} THEN Min(I) ELSE 0
  BY DEF SelectInSubSeq
<1>3. CASE I = {}
  BY <1>2, <1>3 DEF LastByte
<1>4. CASE I # {}
  <2>1. PICK i \in I : \A k \in I : i <= k
    BY <1>1, <1>4, LeastNat
  <2>2. Min(I) = i
    BY <1>1, <2>1, LeastIs
  <2>3. i \in (at - 1)..Len(data) /\ i # 0
    OBVIOUS
  <2> HIDE DEF I
  <2> QED BY <1>2, <1>4, <2>2, <2>3 DEF LastByte
<1> QED BY <1>3, <1>4

(* The bytes w lie in data behind position at. *)
Lies(data, at, w) == at + Len(w) <= Len(data) /\ \A k \in 1..Len(w) : data[at + k] = w[k]

(* w is a varint: only its last byte has no continuation bit. *)
Ends128(w) == w \in Seq(Octets) /\ Len(w) > 0 /\ w[Len(w)] < Half /\ \A k \in 1..(Len(w) - 1) : ~(w[k] < Half)

(* A varint is decoded where it lies, whatever follows it.                 *)
LEMMA DecodeAt ==
    ASSUME NEW data \in Seq(Octets), NEW at \in Nat, NEW w, Ends128(w), Lies(data, at, w)
    PROVE  /\ LastByte(data, at + 1) = at + Len(w)
           /\ DecodeVarint128(data, at + 1) = [value |-> Groups(w), next |-> at + Len(w) + 1]
<1> DEFINE n == Len(w)
           i == at + n
<1>1. n \in Nat /\ n > 0 /\ w \in Seq(Octets)
  BY DEF Ends128
<1>2. data[i] < Half
  BY <1>1 DEF Ends128, Lies
<1>3. ASSUME NEW k \in (at + 1)..(i - 1) PROVE ~(data[k] < Half)
  <2>1. k - at \in 1..(n - 1) /\ k - at \in 1..n /\ at + (k - at) = k
    BY <1>1
  <2> QED BY <2>1 DEF Ends128, Lies
<1>4. i \in (at + 1)..Len(data) /\ at + 1 \in Nat \ {0}
  BY <1>1 DEF Lies
<1>5. LastByte(data, at + 1) = i
  BY <1>2, <1>3, <1>4, LastByteIs
<1>6. SubSeq(data, at + 1, i) = w
  <2> DEFINE s == SubSeq(data, at + 1, i)
  <2>1. s \in Seq(Octets) /\ Len(s) = n /\ \A k \in 1..n : s[k] = data[at + 1 + k - 1]
    BY <1>1, <1>4, SubSeqProperties
  <2> HIDE DEF s
  <2>2. \A k \in 1..n : s[k] = w[k]
    BY <1>1, <2>1 DEF Lies
  <2>3. s = w
    BY <1>1, <2>1, <2>2, SeqEqual
  <2> QED BY <2>3 DEF s
<1> QED BY <1>5, <1>6 DEF DecodeVarint128

----------------------------------------------------------------------------
(* What the encoders write *)

(* The groups of a number. *)
LEMMA GroupFacts ==
    ASSUME NEW v \in Nat
    PROVE  /\ v \in 0..(Half - 1) <=> v < Half
           /\ v < Half => v \in Octets /\ Half + v \in Octets
           /\ ~(v < Half) => v \div Half \in 0..(v - 1) /\ (v \div Half) - 1 \in 0..(v - 1)
           /\ v % Half \in Octets /\ Half + (v % Half) \in Octets
<1>1. Half \in Nat
  BY Halves
<1>2. v \div Half \in Nat /\ v % Half \in 0..(Half - 1) /\ (v >= Half => v \div Half >= 1 /\ v \div Half < v)
  BY DivHalf
<1>3. v % Half \in Octets /\ Half + (v % Half) \in Octets
  BY <1>2, HalfBytes
<1>4. v < Half => v \in 0..(Half - 1)
  BY <1>1
<1>5. v < Half => v \in Octets /\ Half + v \in Octets
  BY <1>4, HalfBytes
<1> HIDE DEF Half
<1> QED BY <1>1, <1>2, <1>3, <1>4, <1>5

(* Every byte of w has the continuation bit. *)
Continued(w) == w \in Seq(Octets) /\ Len(w) > 0 /\ \A k \in 1..Len(w) : ~(w[k] < Half)

(* The recursive function behind WriteVarInt.                              *)
LEMMA WriteVarIntIs ==
    ASSUME NEW n \in Nat
    PROVE  \E high \in [0..n -> Seq(Octets)] :
             /\ \A v \in 0..n : high[v] = IF v < Half THEN <<Half + v>>
                                          ELSE Append(high[(v \div Half) - 1], Half + (v % Half))
             /\ WriteVarInt(n) = IF n < Half THEN <<n>> ELSE Append(high[(n \div Half) - 1], n % Half)
<1> DEFINE S == Seq(Octets)
           Def(f) == f = [v \in 0..n |-> IF v < Half THEN <<Half + v>>
                                         ELSE Append(f[(v \div Half) - 1], Half + (v % Half))]
           high == CHOOSE f : Def(f)
           Z == 0..(Half - 1)
           e == [v \in 0..n |-> IF v < Half THEN <<Half + v>> ELSE << >>]
           prev == [v \in 0..n |-> (v \div Half) - 1]
           step == [x \in (0..n) \X S |-> Append(x[2], Half + (x[1] % Half))]
<1>1. \A v \in 0..n : /\ v \in Z <=> v < Half
                      /\ v < Half => Half + v \in Octets
                      /\ ~(v < Half) => (v \div Half) - 1 \in 0..(v - 1)
                      /\ Half + (v % Half) \in Octets
  BY GroupFacts
<1> HIDE DEF Half, Octets
<1>2. \A b \in Octets : <<b>> \in S
  OBVIOUS
<1>3. \A s \in S, b \in Octets : Append(s, b) \in S
  OBVIOUS
<1>4. << >> \in S
  OBVIOUS
<1>5. /\ \A v \in 0..n : e[v] = IF v < Half THEN <<Half + v>> ELSE << >>
      /\ \A v \in 0..n : prev[v] = (v \div Half) - 1
      /\ \A v \in 0..n, s \in S : step[<<v, s>>] = Append(s, Half + (v % Half))
  OBVIOUS
<1> HIDE DEF S
<1>6. e \in [0..n -> S]
  BY <1>1, <1>2, <1>4
<1>7. step \in [(0..n) \X S -> S]
  BY <1>1, <1>3
<1>8. Smaller(prev, n, Z)
  BY <1>1, <1>5 DEF Smaller
<1> HIDE DEF e, prev, step
<1>9. PICK f \in [0..n -> S] : Descends(f, n, Z, e, prev, step)
  <2> HIDE DEF Z
  <2> QED BY <1>6, <1>7, <1>8, RecursionBelow
<1>10. \A v \in 0..n : f[v] = IF v < Half THEN <<Half + v>> ELSE Append(f[(v \div Half) - 1], Half + (v % Half))
  <2> SUFFICES ASSUME NEW v \in 0..n
               PROVE  f[v] = IF v < Half THEN <<Half + v>> ELSE Append(f[(v \div Half) - 1], Half + (v % Half))
    OBVIOUS
  <2>1. CASE v < Half
    BY <1>1, <1>5, <1>9, <2>1 DEF Descends
  <2>2. CASE ~(v < Half)
    <3>1. v \notin Z /\ (v \div Half) - 1 \in 0..n /\ prev[v] = (v \div Half) - 1
      BY <1>1, <1>5, <2>2
    <3>2. f[(v \div Half) - 1] \in S
      BY <3>1
    <3> QED BY <1>5, <1>9, <2>2, <3>1, <3>2 DEF Descends
  <2> QED BY <2>1, <2>2
<1>11. Def(f)
  BY <1>10
<1>12. Def(high)
  BY <1>11, Zenon
<1>13. WriteVarInt(n) = IF n < Half THEN <<n>> ELSE Append(high[(n \div Half) - 1], n % Half)
  BY DEF WriteVarInt
<1> HIDE DEF high
<1>14. \A v \in 0..n : high[v] = IF v < Half THEN <<Half + v>>
                                 ELSE Append(high[(v \div Half) - 1], Half + (v % Half))
  BY <1>12, Zenon
<1> DEFINE T == {v \in 0..n : high[v] \in S}
<1>15. ASSUME NEW v \in 0..n, \A u \in 0..(v - 1) : u \in T PROVE v \in T
  <2>1. CASE v < Half
    BY <1>1, <1>2, <1>14, <2>1
  <2>2. CASE ~(v < Half)
    <3>1. high[(v \div Half) - 1] \in S
      BY <1>1, <1>15, <2>2
    <3> QED BY <1>1, <1>3, <1>14, <2>2, <3>1
  <2> QED BY <2>1, <2>2
<1> HIDE DEF T
<1>16. \A v \in 0..n : v \in T
  BY <1>15, InductionBelow
<1>17. DOMAIN high = 0..n /\ high = [v \in 0..n |-> high[v]]
  BY <1>12
<1>18. high \in [0..n -> S]
  BY <1>16, <1>17 DEF T
<1> QED BY <1>13, <1>14, <1>18 DEF S

(* A number below the modulus is its own remainder.                        *)
LEMMA ModSmall == ASSUME NEW m \in Nat, NEW x \in Nat, x < m PROVE x % m = x
<1>1. x \in 0..(m - 1) /\ m * 0 + x = x
  OBVIOUS
<1> QED BY <1>1, DivModIs

(* The value of a single byte.                                             *)
LEMMA GroupsOne ==
    ASSUME NEW b \in Octets, (b % Half) + (b \div Half) < U64Range
    PROVE  Groups(<<b>>) = (b % Half) + (b \div Half)
<1>1. << >> \in Seq(Octets) /\ Append(<< >>, b) = <<b>>
  OBVIOUS
<1>2. Groups(<<b>>) = (Groups(<< >>) * Half + (b % Half) + (b \div Half)) % U64Range
  BY <1>1, GroupsAppend
<1>3. b % Half \in Nat /\ b \div Half \in Nat /\ Half \in Nat /\ U64Range \in Nat
  <2>1. b \in Nat
    BY BaseAssumption DEF Octets
  <2> QED BY <2>1, DivHalf, Halves, Ranges
<1>4. Groups(<<b>>) = ((b % Half) + (b \div Half)) % U64Range
  <2>1. \A x, y, z \in Nat : 0 * x + y + z = y + z
    OBVIOUS
  <2> QED BY <1>2, <1>3, <2>1, GroupsEmpty
<1>5. (b % Half) + (b \div Half) \in Nat
  BY <1>3
<1> QED BY <1>3, <1>4, <1>5, ModSmall

(* A group behind groups of value q. *)
LEMMA GroupsMore ==
    ASSUME NEW s \in Seq(Octets), NEW b \in Octets, NEW q \in Nat, NEW r \in Nat, NEW c \in Nat,
           Groups(s) = q, b % Half = r, b \div Half = c, Half * q + r + c < U64Range
    PROVE  Groups(Append(s, b)) = Half * q + r + c
<1>1. Groups(Append(s, b)) = (q * Half + r + c) % U64Range
  BY GroupsAppend
<1>2. Half \in Nat /\ U64Range \in Nat
  BY Halves, Ranges
<1>3. q * Half = Half * q /\ Half * q + r + c \in Nat
  BY <1>2
<1> QED BY <1>1, <1>2, <1>3, ModSmall

(* A VARINT of bitcoind decodes to its number. *)
LEMMA WriteVarIntDecodes ==
    ASSUME NEW n \in Nat, n < U64Range
    PROVE  Ends128(WriteVarInt(n)) /\ Groups(WriteVarInt(n)) = n
<1>1. PICK high \in [0..n -> Seq(Octets)] :
        /\ \A v \in 0..n : high[v] = IF v < Half THEN <<Half + v>>
                                     ELSE Append(high[(v \div Half) - 1], Half + (v % Half))
        /\ WriteVarInt(n) = IF n < Half THEN <<n>> ELSE Append(high[(n \div Half) - 1], n % Half)
  BY WriteVarIntIs
<1>2. Half \in Nat /\ Half >= 2 /\ U64Range \in Nat
  BY Halves, Ranges
<1> DEFINE T == {v \in 0..n : Continued(high[v]) /\ (v + 1 < U64Range => Groups(high[v]) = v + 1)}
<1>3. ASSUME NEW v \in 0..n, \A u \in 0..(v - 1) : u \in T PROVE v \in T
  <2>1. CASE v < Half
    <3>1. high[v] = <<Half + v>> /\ v \in 0..(Half - 1)
      <4>1. high[v] = <<Half + v>>
        BY <1>1, <2>1, Zenon
      <4>2. v \in 0..(Half - 1)
        BY <1>2, <2>1
      <4> QED BY <4>1, <4>2
    <3>2. Half + v \in Octets /\ ~(Half + v < Half) /\ (Half + v) % Half = v /\ (Half + v) \div Half = 1
      BY <3>1, HalfBytes
    <3>3. Continued(high[v])
      BY <3>1, <3>2 DEF Continued
    <3>4. v + 1 < U64Range => Groups(high[v]) = v + 1
      BY <3>1, <3>2, GroupsOne
    <3> QED BY <3>3, <3>4
  <2>2. CASE ~(v < Half)
    <3> DEFINE u == (v \div Half) - 1
               s == high[u]
               b == Half + (v % Half)
    <3>1. /\ v \div Half \in Nat /\ v % Half \in 0..(Half - 1) /\ v = Half * (v \div Half) + (v % Half)
          /\ v \div Half >= 1 /\ v \div Half < v
      <4>1. v \in Nat /\ v >= Half
        BY <1>2, <2>2
      <4> HIDE DEF Half
      <4> QED BY <4>1, DivHalf
    <3>2. u \in 0..(v - 1) /\ u + 1 = v \div Half
      BY <3>1
    <3>3. Continued(s) /\ (u + 1 < U64Range => Groups(s) = u + 1)
      BY <1>3, <3>2
    <3>4. b \in Octets /\ ~(b < Half) /\ b % Half = v % Half /\ b \div Half = 1
      BY <3>1, HalfBytes
    <3>5. high[v] = Append(s, b)
      BY <1>1, <2>2
    <3>6. s \in Seq(Octets)
      BY <3>3 DEF Continued
    <3>7. Continued(high[v])
      <4> HIDE DEF s, b
      <4> QED BY <3>3, <3>4, <3>5, <3>6 DEF Continued
    <3>8. ASSUME v + 1 < U64Range PROVE Groups(high[v]) = v + 1
      <4>1. Groups(s) = v \div Half
        BY <1>2, <3>1, <3>2, <3>3, <3>8
      <4>2. Half * (v \div Half) + (v % Half) + 1 = v + 1
        BY <3>1
      <4> HIDE DEF s, b
      <4> QED BY <3>1, <3>4, <3>5, <3>6, <3>8, <4>1, <4>2, GroupsMore
    <3> QED BY <3>7, <3>8
  <2> QED BY <2>1, <2>2
<1> HIDE DEF T
<1>4. \A v \in 0..n : v \in T
  BY <1>3, InductionBelow
<1>5. CASE n < Half
  <2>1. WriteVarInt(n) = <<n>> /\ n \in 0..(Half - 1)
    BY <1>1, <1>2, <1>5
  <2>2. n \in Octets /\ n < Half /\ n % Half = n /\ n \div Half = 0
    BY <2>1, HalfBytes
  <2>3. Groups(<<n>>) = n
    BY <2>2, GroupsOne
  <2> QED BY <2>1, <2>2, <2>3 DEF Ends128
<1>6. CASE ~(n < Half)
  <2> DEFINE u == (n \div Half) - 1
             s == high[u]
             b == n % Half
  <2>1. /\ n \div Half \in Nat /\ b \in 0..(Half - 1) /\ n = Half * (n \div Half) + b
        /\ n \div Half >= 1 /\ n \div Half < n
    BY <1>2, <1>6, DivHalf
  <2>2. u \in 0..n /\ u + 1 = n \div Half
    BY <2>1
  <2>3. Continued(s) /\ Groups(s) = n \div Half
    BY <1>2, <1>4, <2>1, <2>2 DEF T
  <2>4. b \in Octets /\ b < Half /\ b % Half = b /\ b \div Half = 0
    BY <2>1, HalfBytes
  <2>5. WriteVarInt(n) = Append(s, b)
    BY <1>1, <1>6
  <2>6. s \in Seq(Octets)
    BY <2>3 DEF Continued
  <2>7. Ends128(WriteVarInt(n))
    <3> HIDE DEF s, b
    <3> QED BY <2>3, <2>4, <2>5, <2>6 DEF Continued, Ends128
  <2>8. Half * (n \div Half) + b + 0 = n /\ b \in Nat
    BY <1>2, <2>1
  <2>9. Groups(WriteVarInt(n)) = n
    <3> HIDE DEF s, b
    <3> QED BY <2>1, <2>3, <2>4, <2>5, <2>6, <2>8, GroupsMore
  <2> QED BY <2>7, <2>9
<1> QED BY <1>5, <1>6

(* The recursive function behind EncodeVarint128.                          *)
LEMMA EncodeVarint128Is ==
    ASSUME NEW n \in Nat
    PROVE  \E enc \in [0..n -> Seq(Octets)] :
             /\ \A v \in 0..n : enc[v] = IF v < Half THEN <<v>>
                                          ELSE Append(enc[(v \div Half) - 1], Half + (v % Half))
             /\ EncodeVarint128(n) = enc[n]
<1> DEFINE S == Seq(Octets)
           Def(f) == f = [v \in 0..n |-> IF v < Half THEN <<v>>
                                         ELSE Append(f[(v \div Half) - 1], Half + (v % Half))]
           enc == CHOOSE f : Def(f)
           Z == 0..(Half - 1)
           e == [v \in 0..n |-> IF v < Half THEN <<v>> ELSE << >>]
           prev == [v \in 0..n |-> (v \div Half) - 1]
           step == [x \in (0..n) \X S |-> Append(x[2], Half + (x[1] % Half))]
<1>1. \A v \in 0..n : /\ v \in Z <=> v < Half
                      /\ v < Half => v \in Octets
                      /\ ~(v < Half) => (v \div Half) - 1 \in 0..(v - 1)
                      /\ Half + (v % Half) \in Octets
  BY GroupFacts
<1> HIDE DEF Half, Octets
<1>2. \A b \in Octets : <<b>> \in S
  OBVIOUS
<1>3. \A s \in S, b \in Octets : Append(s, b) \in S
  OBVIOUS
<1>4. << >> \in S
  OBVIOUS
<1>5. /\ \A v \in 0..n : e[v] = IF v < Half THEN <<v>> ELSE << >>
      /\ \A v \in 0..n : prev[v] = (v \div Half) - 1
      /\ \A v \in 0..n, s \in S : step[<<v, s>>] = Append(s, Half + (v % Half))
  OBVIOUS
<1> HIDE DEF S
<1>6. e \in [0..n -> S]
  BY <1>1, <1>2, <1>4
<1>7. step \in [(0..n) \X S -> S]
  BY <1>1, <1>3
<1>8. Smaller(prev, n, Z)
  BY <1>1, <1>5 DEF Smaller
<1> HIDE DEF e, prev, step
<1>9. PICK f \in [0..n -> S] : Descends(f, n, Z, e, prev, step)
  <2> HIDE DEF Z
  <2> QED BY <1>6, <1>7, <1>8, RecursionBelow
<1>10. \A v \in 0..n : f[v] = IF v < Half THEN <<v>> ELSE Append(f[(v \div Half) - 1], Half + (v % Half))
  <2> SUFFICES ASSUME NEW v \in 0..n
               PROVE  f[v] = IF v < Half THEN <<v>> ELSE Append(f[(v \div Half) - 1], Half + (v % Half))
    OBVIOUS
  <2>1. CASE v < Half
    BY <1>1, <1>5, <1>9, <2>1 DEF Descends
  <2>2. CASE ~(v < Half)
    <3>1. v \notin Z /\ (v \div Half) - 1 \in 0..n /\ prev[v] = (v \div Half) - 1
      BY <1>1, <1>5, <2>2
    <3>2. f[(v \div Half) - 1] \in S
      BY <3>1
    <3> QED BY <1>5, <1>9, <2>2, <3>1, <3>2 DEF Descends
  <2> QED BY <2>1, <2>2
<1>11. Def(f)
  BY <1>10
<1>12. Def(enc)
  BY <1>11, Zenon
<1>13. EncodeVarint128(n) = enc[n]
  BY DEF EncodeVarint128
<1> HIDE DEF enc
<1>14. \A v \in 0..n : enc[v] = IF v < Half THEN <<v>>
                                 ELSE Append(enc[(v \div Half) - 1], Half + (v % Half))
  BY <1>12, Zenon
<1> DEFINE T == {v \in 0..n : enc[v] \in S}
<1>15. ASSUME NEW v \in 0..n, \A u \in 0..(v - 1) : u \in T PROVE v \in T
  <2>1. CASE v < Half
    BY <1>1, <1>2, <1>14, <2>1
  <2>2. CASE ~(v < Half)
    <3>1. enc[(v \div Half) - 1] \in S
      BY <1>1, <1>15, <2>2
    <3> QED BY <1>1, <1>3, <1>14, <2>2, <3>1
  <2> QED BY <2>1, <2>2
<1> HIDE DEF T
<1>16. \A v \in 0..n : v \in T
  BY <1>15, InductionBelow
<1>17. DOMAIN enc = 0..n /\ enc = [v \in 0..n |-> enc[v]]
  BY <1>12
<1>18. enc \in [0..n -> S]
  BY <1>16, <1>17 DEF T
<1> QED BY <1>13, <1>14, <1>18 DEF S

(* The recursive function behind VarintEncode.                             *)
LEMMA VarintEncodeIs ==
    ASSUME NEW n \in Nat
    PROVE  \E enc \in [0..n -> Seq(Octets)] :
             /\ \A v \in 0..n : enc[v] = IF v < Half THEN <<v>>
                                          ELSE <<Half + (v % Half)>> \o enc[v \div Half]
             /\ VarintEncode(n) = enc[n]
<1> DEFINE S == Seq(Octets)
           Def(f) == f = [v \in 0..n |-> IF v < Half THEN <<v>>
                                         ELSE <<Half + (v % Half)>> \o f[v \div Half]]
           enc == CHOOSE f : Def(f)
           Z == 0..(Half - 1)
           e == [v \in 0..n |-> IF v < Half THEN <<v>> ELSE << >>]
           prev == [v \in 0..n |-> v \div Half]
           step == [x \in (0..n) \X S |-> <<Half + (x[1] % Half)>> \o x[2]]
<1>1. \A v \in 0..n : /\ v \in Z <=> v < Half
                      /\ v < Half => v \in Octets
                      /\ ~(v < Half) => v \div Half \in 0..(v - 1)
                      /\ Half + (v % Half) \in Octets
  BY GroupFacts
<1> HIDE DEF Half, Octets
<1>2. \A b \in Octets : <<b>> \in S
  OBVIOUS
<1>3. \A s \in S, b \in Octets : <<b>> \o s \in S
  OBVIOUS
<1>4. << >> \in S
  OBVIOUS
<1>5. /\ \A v \in 0..n : e[v] = IF v < Half THEN <<v>> ELSE << >>
      /\ \A v \in 0..n : prev[v] = v \div Half
      /\ \A v \in 0..n, s \in S : step[<<v, s>>] = <<Half + (v % Half)>> \o s
  OBVIOUS
<1> HIDE DEF S
<1>6. e \in [0..n -> S]
  BY <1>1, <1>2, <1>4
<1>7. step \in [(0..n) \X S -> S]
  BY <1>1, <1>3
<1>8. Smaller(prev, n, Z)
  BY <1>1, <1>5 DEF Smaller
<1> HIDE DEF e, prev, step
<1>9. PICK f \in [0..n -> S] : Descends(f, n, Z, e, prev, step)
  <2> HIDE DEF Z
  <2> QED BY <1>6, <1>7, <1>8, RecursionBelow
<1>10. \A v \in 0..n : f[v] = IF v < Half THEN <<v>> ELSE <<Half + (v % Half)>> \o f[v \div Half]
  <2> SUFFICES ASSUME NEW v \in 0..n
               PROVE  f[v] = IF v < Half THEN <<v>> ELSE <<Half + (v % Half)>> \o f[v \div Half]
    OBVIOUS
  <2>1. CASE v < Half
    BY <1>1, <1>5, <1>9, <2>1 DEF Descends
  <2>2. CASE ~(v < Half)
    <3>1. v \notin Z /\ v \div Half \in 0..n /\ prev[v] = v \div Half
      BY <1>1, <1>5, <2>2
    <3>2. f[v \div Half] \in S
      BY <3>1
    <3> QED BY <1>5, <1>9, <2>2, <3>1, <3>2 DEF Descends
  <2> QED BY <2>1, <2>2
<1>11. Def(f)
  BY <1>10
<1>12. Def(enc)
  BY <1>11, Zenon
<1>13. VarintEncode(n) = enc[n]
  BY DEF VarintEncode
<1> HIDE DEF enc
<1>14. \A v \in 0..n : enc[v] = IF v < Half THEN <<v>>
                                 ELSE <<Half + (v % Half)>> \o enc[v \div Half]
  BY <1>12, Zenon
<1> DEFINE T == {v \in 0..n : enc[v] \in S}
<1>15. ASSUME NEW v \in 0..n, \A u \in 0..(v - 1) : u \in T PROVE v \in T
  <2>1. CASE v < Half
    BY <1>1, <1>2, <1>14, <2>1
  <2>2. CASE ~(v < Half)
    <3>1. enc[v \div Half] \in S
      BY <1>1, <1>15, <2>2
    <3> QED BY <1>1, <1>3, <1>14, <2>2, <3>1
  <2> QED BY <2>1, <2>2
<1> HIDE DEF T
<1>16. \A v \in 0..n : v \in T
  BY <1>15, InductionBelow
<1>17. DOMAIN enc = 0..n /\ enc = [v \in 0..n |-> enc[v]]
  BY <1>12
<1>18. enc \in [0..n -> S]
  BY <1>16, <1>17 DEF T
<1> QED BY <1>13, <1>14, <1>18 DEF S

(* The first byte of EncodeVarint128 is always a last one. *)
LEMMA EncodeVarint128First ==
    ASSUME NEW n \in Nat
    PROVE  /\ EncodeVarint128(n) \in Seq(Octets) /\ Len(EncodeVarint128(n)) > 0 /\ EncodeVarint128(n)[1] < Half
           /\ n < Half => EncodeVarint128(n)[1] = n
<1>1. PICK enc \in [0..n -> Seq(Octets)] :
        /\ \A v \in 0..n : enc[v] = IF v < Half THEN <<v>> ELSE Append(enc[(v \div Half) - 1], Half + (v % Half))
        /\ EncodeVarint128(n) = enc[n]
  BY EncodeVarint128Is
<1>2. ASSUME NEW v \in 0..n, v < Half PROVE enc[v] = <<v>>
  BY <1>1, <1>2, Zenon
<1>3. ASSUME NEW v \in 0..n, ~(v < Half) PROVE enc[v] = Append(enc[(v \div Half) - 1], Half + (v % Half))
  BY <1>1, <1>3, Zenon
<1> DEFINE T == {v \in 0..n : Len(enc[v]) > 0 /\ enc[v][1] < Half}
<1>4. ASSUME NEW v \in 0..n, \A u \in 0..(v - 1) : u \in T PROVE v \in T
  <2>1. CASE v < Half
    BY <1>2, <2>1
  <2>2. CASE ~(v < Half)
    <3> DEFINE u == (v \div Half) - 1
               s == enc[u]
               b == Half + (v % Half)
    <3>1. u \in 0..(v - 1) /\ b \in Octets
      BY <2>2, GroupFacts
    <3>2. s \in Seq(Octets) /\ Len(s) > 0 /\ s[1] < Half
      BY <1>4, <3>1
    <3>3. enc[v] = Append(s, b)
      BY <1>3, <2>2
    <3> HIDE DEF s, b
    <3>4. Len(Append(s, b)) > 0 /\ Append(s, b)[1] = s[1]
      BY <3>1, <3>2
    <3> QED BY <3>2, <3>3, <3>4
  <2> QED BY <2>1, <2>2
<1> HIDE DEF T
<1>5. \A v \in 0..n : v \in T
  BY <1>4, InductionBelow
<1>6. n \in 0..n
  OBVIOUS
<1>7. n < Half => enc[n] = <<n>>
  BY <1>2, <1>6
<1> QED BY <1>1, <1>5, <1>6, <1>7 DEF T

(* Hence DecodeVarint128 gives the number back below 128 only.             *)
LEMMA EncodeVarint128Decodes ==
    ASSUME NEW n \in Nat
    PROVE  (DecodeVarint128(EncodeVarint128(n), 1).value = n) <=> n < Half
<1> DEFINE w == EncodeVarint128(n)
           b == w[1]
<1>1. w \in Seq(Octets) /\ Len(w) > 0 /\ b < Half /\ (n < Half => b = n)
  BY EncodeVarint128First
<1>2. b \in Octets /\ b \in Nat /\ Half \in Nat /\ 0 < U64Range
  BY <1>1, BaseAssumption, Halves, Ranges DEF Octets
<1>3. b \in 0..(Half - 1) /\ b < U64Range
  BY <1>1, <1>2, Halves, Ranges
<1>4. b % Half = b /\ b \div Half = 0
  BY <1>3, HalfBytes
<1> HIDE DEF w, b
<1>5. Groups(<<b>>) = b
  BY <1>2, <1>3, <1>4, GroupsOne
<1>6. Ends128(<<b>>)
  BY <1>1, <1>2 DEF Ends128
<1>7. Lies(w, 0, <<b>>)
  BY <1>1 DEF Lies, b
<1>8. DecodeVarint128(w, 0 + 1) = [value |-> Groups(<<b>>), next |-> 0 + Len(<<b>>) + 1]
  <2>1. 0 \in Nat
    OBVIOUS
  <2> QED BY <1>1, <1>6, <1>7, <2>1, DecodeAt, Zenon
<1>9. DecodeVarint128(w, 1).value = b
  BY <1>5, <1>8
<1>10. b = n <=> n < Half
  BY <1>1, <1>2
<1> QED BY <1>9, <1>10 DEF w

(* The groups of a varint without their continuation bits. *)
Low(w) == [i \in 1..Len(w) |-> w[i] % Half]

(* The first group of a longer varint.                                     *)
LEMMA LowPrepend ==
    ASSUME NEW b \in Octets, NEW s \in Seq(Octets)
    PROVE  Low(<<b>> \o s) = <<b % Half>> \o Low(s) /\ Low(s) \in Seq(Nat) /\ b % Half \in Nat
<1> DEFINE c == <<b>> \o s
           l == <<b % Half>> \o Low(s)
<1>1. \A x \in Octets : x % Half \in Nat
  <2> SUFFICES ASSUME NEW x \in Octets PROVE x % Half \in Nat
    OBVIOUS
  <2>1. x \in Nat
    BY BaseAssumption DEF Octets
  <2>2. x % Half \in 0..(Half - 1)
    BY <2>1, DivHalf
  <2> QED BY <2>2
<1>2. c \in Seq(Octets) /\ Len(c) = Len(s) + 1 /\ c[1] = b /\ \A k \in 1..Len(s) : c[k + 1] = s[k]
  OBVIOUS
<1>3. Low(s) \in Seq(Nat) /\ Len(Low(s)) = Len(s)
  BY <1>1 DEF Low
<1>4. b % Half \in Nat
  BY <1>1
<1>5. \A k \in 1..Len(s) : Low(s)[k] = s[k] % Half
  BY DEF Low
<1>6. l \in Seq(Nat) /\ Len(l) = Len(s) + 1 /\ l[1] = b % Half /\ \A k \in 1..Len(s) : l[k + 1] = s[k] % Half
  BY <1>3, <1>4, <1>5
<1>7. Low(c) \in Seq(Nat) /\ Len(Low(c)) = Len(s) + 1 /\ \A k \in 1..(Len(s) + 1) : Low(c)[k] = c[k] % Half
  BY <1>1, <1>2 DEF Low
<1> HIDE DEF c, l
<1>8. ASSUME NEW k \in 1..(Len(s) + 1) PROVE Low(c)[k] = l[k]
  <2>1. CASE k = 1
    BY <1>2, <1>6, <1>7, <2>1
  <2>2. CASE k # 1
    <3>1. k - 1 \in 1..Len(s) /\ (k - 1) + 1 = k
      BY <2>2
    <3>2. l[k] = s[k - 1] % Half /\ c[k] = s[k - 1]
      BY <1>2, <1>6, <3>1
    <3> QED BY <1>7, <3>2
  <2> QED BY <2>1, <2>2
<1>9. Low(c) = l
  BY <1>6, <1>7, <1>8, SeqEqual
<1> QED BY <1>3, <1>4, <1>9 DEF c, l

(* VarintDecode is the inverse of VarintEncode on numbers of 32 bits. *)
LEMMA VarintDecodes ==
    ASSUME NEW n \in Nat, n < U32Range
    PROVE  VarintDecode(VarintEncode(n)) = n
<1>1. PICK enc \in [0..n -> Seq(Octets)] :
        /\ \A v \in 0..n : enc[v] = IF v < Half THEN <<v>> ELSE <<Half + (v % Half)>> \o enc[v \div Half]
        /\ VarintEncode(n) = enc[n]
  BY VarintEncodeIs
<1>2. ASSUME NEW v \in 0..n, v < Half PROVE enc[v] = <<v>>
  BY <1>1, <1>2, Zenon
<1>3. ASSUME NEW v \in 0..n, ~(v < Half) PROVE enc[v] = <<Half + (v % Half)>> \o enc[v \div Half]
  BY <1>1, <1>3, Zenon
<1>4. Half \in Nat
  BY Halves
<1> DEFINE T == {v \in 0..n : Ends128(enc[v]) /\ Number(Low(enc[v]), Half) = v}
<1>5. ASSUME NEW v \in 0..n, \A u \in 0..(v - 1) : u \in T PROVE v \in T
  <2>1. CASE v < Half
    <3>1. v \in 0..(Half - 1)
      BY <1>4, <2>1
    <3>2. v \in Octets /\ v % Half = v
      BY <3>1, HalfBytes
    <3>3. Ends128(<<v>>)
      BY <2>1, <3>2 DEF Ends128
    <3>4. << >> \in Seq(Octets) /\ <<v>> \o << >> = <<v>> /\ << >> \in Seq(Nat)
      OBVIOUS
    <3>5. Low(<< >>) = << >>
      BY DEF Low
    <3>6. Low(<<v>>) = <<v>> \o << >> /\ v \in Nat
      BY <3>2, <3>4, <3>5, LowPrepend
    <3>7. Number(Low(<<v>>), Half) = Number(<< >>, Half) * Half + v
      BY <1>4, <3>4, <3>6, NumberPrepend
    <3>8. Number(Low(<<v>>), Half) = v
      BY <1>4, <3>6, <3>7, NumberEmpty
    <3> QED BY <1>2, <2>1, <3>3, <3>8
  <2>2. CASE ~(v < Half)
    <3> DEFINE u == v \div Half
               s == enc[u]
               b == Half + (v % Half)
    <3>1. u \in 0..(v - 1) /\ b \in Octets
      BY <2>2, GroupFacts
    <3>2. v % Half \in 0..(Half - 1) /\ v = Half * u + (v % Half) /\ u \in Nat
      <4>1. v \in Nat
        OBVIOUS
      <4> QED BY <4>1, DivHalf
    <3>3. b % Half = v % Half /\ ~(b < Half)
      BY <3>2, HalfBytes
    <3>4. Ends128(s) /\ Number(Low(s), Half) = u /\ s \in Seq(Octets)
      BY <1>5, <3>1 DEF Ends128
    <3>5. enc[v] = <<b>> \o s
      BY <1>3, <2>2
    <3> HIDE DEF u, s, b
    <3>6. Ends128(enc[v])
      <4> DEFINE c == <<b>> \o s
      <4>1. c \in Seq(Octets) /\ Len(c) = Len(s) + 1 /\ c[1] = b /\ \A k \in 1..Len(s) : c[k + 1] = s[k]
        BY <3>1, <3>4
      <4> HIDE DEF c
      <4>2. Len(s) \in Nat /\ Len(s) > 0 /\ c[Len(c)] = s[Len(s)] /\ s[Len(s)] < Half
        <5>1. Len(s) \in Nat /\ Len(s) > 0 /\ s[Len(s)] < Half
          BY <3>4 DEF Ends128
        <5>2. Len(s) \in 1..Len(s)
          BY <5>1
        <5> QED BY <4>1, <5>1, <5>2
      <4>3. ASSUME NEW k \in 1..(Len(c) - 1) PROVE ~(c[k] < Half)
        <5>1. CASE k = 1
          BY <3>3, <4>1, <5>1
        <5>2. CASE k # 1
          <6>1. k - 1 \in 1..(Len(s) - 1) /\ k - 1 \in 1..Len(s) /\ (k - 1) + 1 = k
            BY <4>1, <4>2, <5>2
          <6>2. c[k] = s[k - 1]
            BY <4>1, <6>1
          <6> QED BY <3>4, <6>1, <6>2 DEF Ends128
        <5> QED BY <5>1, <5>2
      <4>4. Ends128(c)
        BY <4>1, <4>2, <4>3 DEF Ends128
      <4> QED BY <3>5, <4>4 DEF c
    <3>7. Low(enc[v]) = <<v % Half>> \o Low(s) /\ Low(s) \in Seq(Nat) /\ v % Half \in Nat
      BY <3>1, <3>3, <3>4, <3>5, LowPrepend
    <3>8. Number(Low(enc[v]), Half) = u * Half + (v % Half)
      BY <1>4, <3>4, <3>7, NumberPrepend
    <3>9. u * Half + (v % Half) = v
      BY <1>4, <3>2
    <3> QED BY <3>6, <3>8, <3>9
  <2> QED BY <2>1, <2>2
<1> HIDE DEF T
<1>6. \A v \in 0..n : v \in T
  BY <1>5, InductionBelow
<1> DEFINE w == VarintEncode(n)
<1>7. Ends128(w) /\ Number(Low(w), Half) = n /\ w \in Seq(Octets)
  <2>1. n \in 0..n
    OBVIOUS
  <2> QED BY <1>1, <1>6, <2>1 DEF T, Ends128
<1> HIDE DEF w
<1>8. Lies(w, 0, w)
  BY <1>7 DEF Lies
<1>9. LastByte(w, 0 + 1) = 0 + Len(w)
  BY <1>7, <1>8, DecodeAt
<1>10. LastByte(w, 1) = Len(w)
  BY <1>7, <1>9
<1>11. VarintDecode(w) = n % U32Range
  BY <1>7, <1>10 DEF VarintDecode, Low
<1> QED BY <1>11, Ranges, ModSmall DEF w

----------------------------------------------------------------------------
(* Sequences that lie one behind the other *)

(***************************************************************************)
(* Sequences one behind the other, and where they lie.                     *)
(***************************************************************************)
(* What the definition of FlattenSeq computes, with the empty sequence first. *)
LEMMA FlattenIs ==
    ASSUME NEW E, NEW ss \in Seq(Seq(E))
    PROVE  \E f \in [0..Len(ss) -> Seq(E)] :
             f[0] = <<>> /\ f[Len(ss)] = FlattenSeq(ss) /\ \A i \in 1..Len(ss) : f[i] = f[i - 1] \o ss[i]
<1> DEFINE n == Len(ss)
           S == Seq(E)
           Def(f) == f = [i \in 1..n |-> IF i = 1 THEN ss[i] ELSE f[i - 1] \o ss[i]]
           step == [p \in (1..n) \X S |-> p[2] \o ss[p[1]]]
           flatten == CHOOSE f : Def(f)
<1>1. n \in Nat /\ <<>> \in S /\ (\A i \in 1..n : ss[i] \in S) /\ \A s \in S : <<>> \o s = s
  OBVIOUS
<1>2. \A s, t \in S : s \o t \in S
  OBVIOUS
<1>3. FlattenSeq(ss) = IF n = 0 THEN ss ELSE flatten[n]
  BY DEF FlattenSeq
<1>4. n = 0 => ss = <<>>
  OBVIOUS
<1> HIDE DEF S, n
<1>5. step \in [(1..n) \X S -> S] /\ \A i \in 1..n : \A s \in S : step[<<i, s>>] = s \o ss[i]
  <2>1. ASSUME NEW p \in (1..n) \X S PROVE p[2] \o ss[p[1]] \in S
    BY <1>1, <1>2
  <2> QED BY <2>1
<1> HIDE DEF step
<1>6. PICK h \in [0..n -> S] : Iterates(h, n, <<>>, step)
  BY <1>1, <1>5, RecursionTo
<1>7. \A i \in 1..n : i - 1 \in 0..n /\ i \in 0..n
  BY <1>1
<1>8. h[0] = <<>> /\ \A i \in 1..n : h[i] = h[i - 1] \o ss[i]
  BY <1>5, <1>6, <1>7 DEF Iterates
<1> DEFINE g == [i \in 1..n |-> h[i]]
<1>9. Def(g)
  <2>1. ASSUME NEW i \in 1..n PROVE g[i] = IF i = 1 THEN ss[i] ELSE g[i - 1] \o ss[i]
    <3>1. CASE i = 1
      BY <3>1, <1>1, <1>8
    <3>2. CASE i # 1
      <4>1. i - 1 \in 1..n
        BY <3>2, <1>1
      <4> QED BY <3>2, <4>1, <1>8
    <3> QED BY <3>1, <3>2
  <2>2. g = [i \in 1..n |-> g[i]]
    OBVIOUS
  <2> HIDE DEF g
  <2> QED BY <2>1, <2>2, Zenon
<1> HIDE DEF g
<1>10. Def(flatten)
  BY <1>9, Zenon
<1> HIDE DEF flatten
<1>11. \A i \in 1..n : flatten[i] = IF i = 1 THEN ss[i] ELSE flatten[i - 1] \o ss[i]
  BY <1>10, Zenon
<1> DEFINE T == {i \in 0..n : i = 0 \/ flatten[i] = h[i]}
<1>12. 0 \in T
  BY <1>1
<1>13. ASSUME NEW i \in 1..n, i - 1 \in T PROVE i \in T
  <2>1. CASE i = 1
    <3>1. h[1] = h[0] \o ss[1] /\ h[0] = <<>> /\ ss[1] \in S /\ flatten[1] = ss[1] /\ 1 \in 0..n
      <4>1. 1 \in 1..n /\ 1 - 1 = 0
        BY <2>1
      <4> QED BY <4>1, <1>1, <1>7, <1>8, <1>11
    <3> QED BY <2>1, <3>1, <1>1
  <2>2. CASE i # 1
    <3>1. flatten[i - 1] = h[i - 1]
      BY <2>2, <1>13
    <3> QED BY <2>2, <3>1, <1>7, <1>8, <1>11
  <2> QED BY <2>1, <2>2
<1> HIDE DEF T
<1>14. \A i \in 0..n : i \in T
  BY <1>1, <1>12, <1>13, InductionTo
<1>15. h[n] = FlattenSeq(ss)
  <2>1. CASE n = 0
    BY <2>1, <1>3, <1>4, <1>8
  <2>2. CASE n # 0
    BY <2>2, <1>1, <1>3, <1>14 DEF T
  <2> QED BY <2>1, <2>2
<1> QED BY <1>8, <1>15 DEF S, n

(* One more sequence at the end.                                           *)
LEMMA FlattenAppend ==
    ASSUME NEW E, NEW ss \in Seq(Seq(E)), NEW x \in Seq(E)
    PROVE  FlattenSeq(Append(ss, x)) = FlattenSeq(ss) \o x /\ FlattenSeq(ss) \in Seq(E)
<1> DEFINE tt == Append(ss, x)
           n == Len(ss)
<1>1. tt \in Seq(Seq(E)) /\ Len(tt) = n + 1 /\ tt[n + 1] = x /\ n \in Nat
  OBVIOUS
<1>2. \A i \in 1..n : tt[i] = ss[i]
  OBVIOUS
<1>3. PICK f \in [0..n -> Seq(E)] : f[0] = <<>> /\ f[n] = FlattenSeq(ss) /\ \A i \in 1..n : f[i] = f[i - 1] \o ss[i]
  BY FlattenIs
<1> HIDE DEF tt
<1>4. PICK g \in [0..Len(tt) -> Seq(E)] :
        g[0] = <<>> /\ g[Len(tt)] = FlattenSeq(tt) /\ \A i \in 1..Len(tt) : g[i] = g[i - 1] \o tt[i]
  BY <1>1, FlattenIs
<1> HIDE DEF n
<1> DEFINE T == {i \in 0..n : f[i] = g[i]}
<1>5. 0 \in T
  BY <1>1, <1>3, <1>4
<1>6. ASSUME NEW i \in 1..n, i - 1 \in T PROVE i \in T
  <2>1. i \in 1..Len(tt) /\ f[i - 1] = g[i - 1] /\ tt[i] = ss[i] /\ i \in 0..n
    <3>1. i \in 1..Len(tt) /\ i \in 0..n
      BY <1>1
    <3>2. f[i - 1] = g[i - 1]
      BY <1>6
    <3> QED BY <3>1, <3>2, <1>2
  <2>2. f[i] = f[i - 1] \o ss[i] /\ g[i] = g[i - 1] \o tt[i]
    BY <2>1, <1>3, <1>4
  <2> QED BY <2>1, <2>2
<1> HIDE DEF T
<1>7. \A i \in 0..n : i \in T
  BY <1>1, <1>5, <1>6, InductionTo
<1>8. f[n] = g[n]
  BY <1>1, <1>7 DEF T
<1>9. g[n + 1] = g[n] \o x
  <2>1. n + 1 \in 1..Len(tt) /\ (n + 1) - 1 = n
    BY <1>1
  <2>2. g[n + 1] = g[(n + 1) - 1] \o tt[n + 1]
    BY <2>1, <1>4
  <2> QED BY <2>1, <2>2, <1>1
<1>10. f[n] \in Seq(E)
  BY <1>1
<1> QED BY <1>1, <1>3, <1>4, <1>8, <1>9, <1>10 DEF tt

(* Flattened sequences are a sequence.                                     *)
LEMMA FlattenType == ASSUME NEW E, NEW ss \in Seq(Seq(E)) PROVE FlattenSeq(ss) \in Seq(E)
<1>1. PICK f \in [0..Len(ss) -> Seq(E)] : f[Len(ss)] = FlattenSeq(ss)
  BY FlattenIs, Zenon
<1>2. Len(ss) \in 0..Len(ss)
  OBVIOUS
<1> QED BY <1>1, <1>2

(* Of no sequences.                                                        *)
LEMMA FlattenEmpty == FlattenSeq(<< >>) = << >>
BY DEF FlattenSeq

(* The elements of a longer sequence.                                      *)
LEMMA AppendIs ==
    ASSUME NEW S, NEW s \in Seq(S), NEW x \in S
    PROVE  /\ Append(s, x) \in Seq(S) /\ Len(Append(s, x)) = Len(s) + 1 /\ Append(s, x)[Len(s) + 1] = x
           /\ \A j \in 1..Len(s) : Append(s, x)[j] = s[j]
OBVIOUS

(* The first i of them, and the bytes they take. *)
Pre(ss, i) == FlattenSeq(SubSeq(ss, 1, i))
At(ss, i) == Len(Pre(ss, i))

(* The first i sequences end with the i-th.                                *)
LEMMA PreIs ==
    ASSUME NEW E, NEW ss \in Seq(Seq(E))
    PROVE  /\ Pre(ss, 0) = << >> /\ Pre(ss, Len(ss)) = FlattenSeq(ss)
           /\ \A i \in 0..Len(ss) : Pre(ss, i) \in Seq(E)
           /\ \A i \in 1..Len(ss) : Pre(ss, i) = Pre(ss, i - 1) \o ss[i]
<1>1. Len(ss) \in Nat /\ \A i \in 0..Len(ss) : SubSeq(ss, 1, i) \in Seq(Seq(E)) /\ Len(SubSeq(ss, 1, i)) = i
  <2>1. ASSUME NEW i \in 0..Len(ss) PROVE SubSeq(ss, 1, i) \in Seq(Seq(E)) /\ Len(SubSeq(ss, 1, i)) = i
    BY SubSeqProperties
  <2> QED BY <2>1
<1>2. SubSeq(ss, 1, 0) = << >>
  BY <1>1
<1>3. SubSeq(ss, 1, Len(ss)) = ss
  <2>1. \A k \in 1..Len(ss) : SubSeq(ss, 1, Len(ss))[k] = ss[k]
    BY SubSeqProperties
  <2> QED BY <1>1, <2>1, SeqEqual
<1>4. ASSUME NEW i \in 0..Len(ss) PROVE Pre(ss, i) \in Seq(E)
  BY <1>1, FlattenType DEF Pre
<1>5. ASSUME NEW i \in 1..Len(ss) PROVE Pre(ss, i) = Pre(ss, i - 1) \o ss[i]
  <2> DEFINE a == SubSeq(ss, 1, i - 1)
             b == SubSeq(ss, 1, i)
  <2>1. i - 1 \in 0..Len(ss) /\ i \in 0..Len(ss) /\ ss[i] \in Seq(E)
    OBVIOUS
  <2>2. a \in Seq(Seq(E)) /\ Len(a) = i - 1 /\ b \in Seq(Seq(E)) /\ Len(b) = i
    BY <1>1, <2>1
  <2>3. (\A k \in 1..(i - 1) : a[k] = ss[k]) /\ \A k \in 1..i : b[k] = ss[k]
    BY SubSeqProperties
  <2> HIDE DEF a, b
  <2>4. Append(a, ss[i]) \in Seq(Seq(E)) /\ Len(Append(a, ss[i])) = i
    BY <2>1, <2>2
  <2>5. ASSUME NEW k \in 1..i PROVE b[k] = Append(a, ss[i])[k]
    <3>1. CASE k = i
      BY <3>1, <2>1, <2>2, <2>3
    <3>2. CASE k # i
      <4>1. k \in 1..(i - 1) /\ k \in 1..Len(a)
        BY <3>2, <2>2
      <4>2. Append(a, ss[i])[k] = a[k]
        <5>1. a \in Seq(Seq(E)) /\ ss[i] \in Seq(E)
          BY <2>1, <2>2
        <5>2. \A j \in 1..Len(a) : Append(a, ss[i])[j] = a[j]
          BY <5>1, AppendIs
        <5> QED BY <4>1, <5>2, Zenon
      <4> QED BY <4>1, <4>2, <2>3
    <3> QED BY <3>1, <3>2
  <2>6. b = Append(a, ss[i])
    BY <2>2, <2>4, <2>5, SeqEqual
  <2>7. FlattenSeq(b) = FlattenSeq(a) \o ss[i]
    BY <2>1, <2>2, <2>6, FlattenAppend
  <2> QED BY <2>7 DEF Pre, a, b
<1> QED BY <1>2, <1>3, <1>4, <1>5, FlattenEmpty DEF Pre

(* Each takes as many bytes as it has.                                     *)
LEMMA AtIs ==
    ASSUME NEW E, NEW ss \in Seq(Seq(E))
    PROVE  /\ At(ss, 0) = 0 /\ At(ss, Len(ss)) = Len(FlattenSeq(ss))
           /\ \A i \in 0..Len(ss) : At(ss, i) \in Nat
           /\ \A i \in 1..Len(ss) : At(ss, i) = At(ss, i - 1) + Len(ss[i])
<1>1. At(ss, 0) = 0 /\ At(ss, Len(ss)) = Len(FlattenSeq(ss))
  <2>1. Pre(ss, 0) = << >> /\ Pre(ss, Len(ss)) = FlattenSeq(ss)
    BY PreIs, Zenon
  <2> QED BY <2>1 DEF At
<1>2. \A i \in 0..Len(ss) : At(ss, i) \in Nat
  BY PreIs DEF At
<1>3. ASSUME NEW i \in 1..Len(ss) PROVE At(ss, i) = At(ss, i - 1) + Len(ss[i])
  <2>1. i - 1 \in 0..Len(ss) /\ ss[i] \in Seq(E)
    OBVIOUS
  <2>2. Pre(ss, i) = Pre(ss, i - 1) \o ss[i] /\ Pre(ss, i - 1) \in Seq(E)
    BY <2>1, PreIs
  <2> QED BY <2>1, <2>2 DEF At
<1> QED BY <1>1, <1>2, <1>3

(* What lies in data lies there in two parts.                              *)
LEMMA LiesConcat ==
    ASSUME NEW E, NEW data \in Seq(E), NEW at \in Nat, NEW s \in Seq(E), NEW t \in Seq(E), Lies(data, at, s \o t)
    PROVE  Lies(data, at, s) /\ Lies(data, at + Len(s), t)
<1>1. s \o t \in Seq(E) /\ Len(s \o t) = Len(s) + Len(t) /\ Len(s) \in Nat /\ Len(t) \in Nat
  OBVIOUS
<1>2. \A k \in 1..Len(s) : (s \o t)[k] = s[k] /\ k \in 1..Len(s \o t)
  BY <1>1
<1>3. ASSUME NEW k \in 1..Len(t) PROVE (s \o t)[Len(s) + k] = t[k] /\ Len(s) + k \in 1..Len(s \o t)
  BY <1>1
<1>4. Lies(data, at, s)
  BY <1>1, <1>2 DEF Lies
<1>5. ASSUME NEW k \in 1..Len(t) PROVE data[at + Len(s) + k] = t[k]
  <2>1. data[at + (Len(s) + k)] = (s \o t)[Len(s) + k]
    BY <1>3 DEF Lies
  <2>2. at + (Len(s) + k) = at + Len(s) + k
    BY <1>1
  <2> QED BY <1>3, <2>1, <2>2
<1>6. at + Len(s) + Len(t) <= Len(data)
  BY <1>1 DEF Lies
<1> QED BY <1>4, <1>5, <1>6 DEF Lies

(* Where the i-th of them lies. *)
LEMMA LiesFlatten ==
    ASSUME NEW E, NEW data \in Seq(E), NEW at \in Nat, NEW ss \in Seq(Seq(E)), Lies(data, at, FlattenSeq(ss)),
           NEW i \in 1..Len(ss)
    PROVE  Lies(data, at + At(ss, i - 1), ss[i])
<1> DEFINE n == Len(ss)
           T == {k \in 0..n : Lies(data, at, Pre(ss, n - k))}
<1>1. n \in Nat
  OBVIOUS
<1>2. 0 \in T
  <2>1. 0 \in 0..n /\ n - 0 = Len(ss)
    BY <1>1
  <2>2. Pre(ss, Len(ss)) = FlattenSeq(ss)
    BY PreIs, Zenon
  <2> QED BY <2>1, <2>2
<1>3. ASSUME NEW k \in 1..n, k - 1 \in T PROVE k \in T
  <2> DEFINE j == n - (k - 1)
  <2>1. j \in 1..n /\ j - 1 \in 0..n /\ n - k = j - 1 /\ k \in 0..n /\ ss[j] \in Seq(E)
    BY <1>1
  <2>2. Pre(ss, j) = Pre(ss, j - 1) \o ss[j] /\ Pre(ss, j - 1) \in Seq(E)
    BY <2>1, PreIs
  <2>3. Lies(data, at, Pre(ss, j - 1) \o ss[j])
    BY <1>3, <2>2
  <2>4. Lies(data, at, Pre(ss, j - 1))
    BY <2>1, <2>2, <2>3, LiesConcat
  <2> QED BY <2>1, <2>4
<1> HIDE DEF T
<1>4. \A k \in 0..n : k \in T
  BY <1>1, <1>2, <1>3, InductionTo
<1>5. n - i \in 0..n /\ n - (n - i) = i /\ i - 1 \in 0..n /\ ss[i] \in Seq(E)
  BY <1>1
<1>6. Lies(data, at, Pre(ss, i))
  BY <1>4, <1>5 DEF T
<1>7. Pre(ss, i) = Pre(ss, i - 1) \o ss[i] /\ Pre(ss, i - 1) \in Seq(E)
  BY <1>5, PreIs
<1> QED BY <1>5, <1>6, <1>7, LiesConcat DEF At

----------------------------------------------------------------------------
(* Records *)

(***************************************************************************)
(* The records of the database.                                            *)
(***************************************************************************)
(* Decoding stays inside the data.                                         *)
LEMMA DecodeType ==
    ASSUME NEW data \in Seq(Octets), NEW at \in 1..(Len(data) + 1)
    PROVE  DecodeVarint128(data, at) \in [value : Nat, next : 1..(Len(data) + 1)]
<1> DEFINE last == LastByte(data, at)
<1>1. last \in (at - 1)..Len(data) /\ at \in Nat /\ last \in Nat /\ Len(data) \in Nat
  BY LastByteType
<1> HIDE DEF last
<1>2. SubSeq(data, at, last) \in Seq(Octets)
  BY <1>1, SubSeqProperties
<1>3. Groups(SubSeq(data, at, last)) \in Nat
  BY <1>2, GroupsType
<1>4. last + 1 \in 1..(Len(data) + 1)
  BY <1>1
<1> QED BY <1>3, <1>4 DEF DecodeVarint128, last

(* One varint behind the other. *)
LEMMA VarintsIs ==
    ASSUME NEW data \in Seq(Octets), NEW n \in Nat
    PROVE  /\ Varints(data, n)[0] = [value |-> 0, next |-> 1]
           /\ \A i \in 1..n : Varints(data, n)[i] = DecodeVarint128(data, Varints(data, n)[i - 1].next)
<1> DEFINE S == [value : Nat, next : 1..(Len(data) + 1)]
           e == [value |-> 0, next |-> 1]
           Def(f) == f = [i \in 0..n |-> IF i = 0 THEN e ELSE DecodeVarint128(data, f[i - 1].next)]
           step == [p \in (1..n) \X S |-> DecodeVarint128(data, p[2].next)]
           v == CHOOSE f : Def(f)
<1>1. Varints(data, n) = v
  BY DEF Varints
<1>2. e \in S
  OBVIOUS
<1>3. step \in [(1..n) \X S -> S] /\ \A i \in 1..n : \A s \in S : step[<<i, s>>] = DecodeVarint128(data, s.next)
  <2>1. ASSUME NEW p \in (1..n) \X S PROVE DecodeVarint128(data, p[2].next) \in S
    <3>1. p[2].next \in 1..(Len(data) + 1)
      OBVIOUS
    <3> QED BY <3>1, DecodeType
  <2> HIDE DEF S
  <2> QED BY <2>1
<1> HIDE DEF S, e, step
<1>4. PICK h \in [0..n -> S] : Iterates(h, n, e, step)
  BY <1>2, <1>3, RecursionTo
<1>5. h[0] = e /\ \A i \in 1..n : h[i] = DecodeVarint128(data, h[i - 1].next)
  <2>1. \A i \in 1..n : i - 1 \in 0..n
    OBVIOUS
  <2> QED BY <2>1, <1>3, <1>4 DEF Iterates
<1>6. Def(h)
  <2>1. ASSUME NEW i \in 0..n PROVE h[i] = IF i = 0 THEN e ELSE DecodeVarint128(data, h[i - 1].next)
    BY <1>5
  <2>2. h = [i \in 0..n |-> h[i]]
    OBVIOUS
  <2> QED BY <2>1, <2>2, Zenon
<1>7. Def(v)
  BY <1>6, Zenon
<1> HIDE DEF v
<1>8. \A i \in 0..n : v[i] = IF i = 0 THEN e ELSE DecodeVarint128(data, v[i - 1].next)
  BY <1>7, Zenon
<1>9. \A i \in 1..n : v[i] = DecodeVarint128(data, v[i - 1].next)
  BY <1>8
<1>10. v[0] = e
  BY <1>8
<1> QED BY <1>1, <1>9, <1>10 DEF e

(* Varints that lie one behind the other are decoded one by one.           *)
LEMMA VarintsOf ==
    ASSUME NEW data \in Seq(Octets), NEW ws \in Seq(Seq(Octets)), \A i \in 1..Len(ws) : Ends128(ws[i]),
           Lies(data, 0, FlattenSeq(ws)), NEW n \in Nat, Len(ws) <= n
    PROVE  \A i \in 1..Len(ws) : Varints(data, n)[i] = [value |-> Groups(ws[i]), next |-> At(ws, i) + 1]
<1> DEFINE m == Len(ws)
           v == Varints(data, n)
           Right(i) == v[i] = [value |-> Groups(ws[i]), next |-> At(ws, i) + 1]
           T == {i \in 0..m : v[i].next = At(ws, i) + 1 /\ (i > 0 => Right(i))}
<1>1. m \in Nat /\ v[0] = [value |-> 0, next |-> 1] /\ \A i \in 1..m : v[i] = DecodeVarint128(data, v[i - 1].next)
  <2>1. \A i \in 1..m : i \in 1..n
    OBVIOUS
  <2> QED BY <2>1, VarintsIs
<1>2. At(ws, 0) = 0 /\ (\A i \in 0..m : At(ws, i) \in Nat) /\ \A i \in 1..m : At(ws, i) = At(ws, i - 1) + Len(ws[i])
  BY AtIs
<1> HIDE DEF v
<1>3. 0 \in T
  BY <1>1, <1>2
<1>4. ASSUME NEW i \in 1..m, i - 1 \in T PROVE i \in T
  <2>1. i - 1 \in 0..m /\ i \in 0..m /\ At(ws, i - 1) \in Nat /\ v[i - 1].next = At(ws, i - 1) + 1
    BY <1>2, <1>4
  <2>2. Lies(data, 0 + At(ws, i - 1), ws[i])
    BY <1>1, LiesFlatten
  <2>3. Lies(data, At(ws, i - 1), ws[i])
    BY <2>1, <2>2
  <2>4. DecodeVarint128(data, At(ws, i - 1) + 1) = [value |-> Groups(ws[i]), next |-> At(ws, i - 1) + Len(ws[i]) + 1]
    BY <2>1, <2>3, DecodeAt
  <2>5. Right(i)
    BY <2>1, <2>4, <1>1, <1>2
  <2> QED BY <2>1, <2>5
<1> HIDE DEF T
<1>5. \A i \in 0..m : i \in T
  BY <1>1, <1>3, <1>4, InductionTo
<1>6. ASSUME NEW i \in 1..m PROVE Right(i)
  BY <1>5 DEF T
<1> QED BY <1>6 DEF v

(* Every number of 64 bits is written as a varint that decodes to it.      *)
LEMMA WriteVarIntsIs ==
    ASSUME NEW s \in Seq(0..(U64Range - 1))
    PROVE  /\ [i \in DOMAIN s |-> WriteVarInt(s[i])] \in Seq(Seq(Octets))
           /\ WriteVarInts(s) \in Seq(Octets)
           /\ \A i \in 1..Len(s) : Ends128(WriteVarInt(s[i])) /\ Groups(WriteVarInt(s[i])) = s[i]
<1> DEFINE ws == [i \in DOMAIN s |-> WriteVarInt(s[i])]
<1>1. ASSUME NEW i \in 1..Len(s) PROVE Ends128(WriteVarInt(s[i])) /\ Groups(WriteVarInt(s[i])) = s[i]
  <2>1. s[i] \in Nat /\ s[i] < U64Range
    BY Ranges
  <2> QED BY <2>1, WriteVarIntDecodes
<1>2. \A i \in 1..Len(s) : WriteVarInt(s[i]) \in Seq(Octets)
  BY <1>1 DEF Ends128
<1>3. DOMAIN s = 1..Len(s) /\ Len(s) \in Nat
  OBVIOUS
<1>4. ws \in Seq(Seq(Octets))
  BY <1>2, <1>3
<1> HIDE DEF ws
<1>5. FlattenSeq(ws) \in Seq(Octets)
  BY <1>4, FlattenType
<1> QED BY <1>1, <1>4, <1>5 DEF WriteVarInts, ws

(* One more number at the end.                                             *)
LEMMA WriteVarIntsAppend ==
    ASSUME NEW s \in Seq(0..(U64Range - 1)), NEW x \in 0..(U64Range - 1)
    PROVE  WriteVarInts(Append(s, x)) = WriteVarInts(s) \o WriteVarInt(x)
<1> DEFINE ws == [i \in DOMAIN s |-> WriteVarInt(s[i])]
           t == Append(s, x)
           vs == [i \in DOMAIN t |-> WriteVarInt(t[i])]
<1>1. t \in Seq(0..(U64Range - 1)) /\ Len(t) = Len(s) + 1 /\ t[Len(s) + 1] = x /\ \A i \in 1..Len(s) : t[i] = s[i]
  BY AppendIs
<1> HIDE DEF t
<1>2. ws \in Seq(Seq(Octets)) /\ vs \in Seq(Seq(Octets))
  BY <1>1, WriteVarIntsIs
<1>3. /\ Len(ws) = Len(s) /\ Len(vs) = Len(s) + 1 /\ Len(s) \in Nat
      /\ (\A i \in 1..Len(s) : ws[i] = WriteVarInt(s[i])) /\ \A i \in 1..(Len(s) + 1) : vs[i] = WriteVarInt(t[i])
  BY <1>1
<1> HIDE DEF ws, vs
<1>4. WriteVarInt(x) \in Seq(Octets)
  <2>1. x \in Nat /\ x < U64Range
    BY Ranges
  <2> QED BY <2>1, WriteVarIntDecodes DEF Ends128
<1> DEFINE as == Append(ws, WriteVarInt(x))
<1>5. /\ as \in Seq(Seq(Octets)) /\ Len(as) = Len(ws) + 1 /\ as[Len(ws) + 1] = WriteVarInt(x)
      /\ \A j \in 1..Len(ws) : as[j] = ws[j]
  BY <1>2, <1>4, AppendIs
<1> HIDE DEF as
<1>6. ASSUME NEW i \in 1..Len(vs) PROVE vs[i] = as[i]
  <2>1. CASE i = Len(s) + 1
    BY <2>1, <1>1, <1>3, <1>5
  <2>2. CASE i # Len(s) + 1
    <3>1. i \in 1..Len(s)
      BY <2>2, <1>3
    <3> QED BY <3>1, <1>1, <1>3, <1>5
  <2> QED BY <2>1, <2>2
<1>7. vs = as
  BY <1>2, <1>3, <1>5, <1>6, SeqEqual
<1>8. FlattenSeq(vs) = FlattenSeq(ws) \o WriteVarInt(x)
  BY <1>2, <1>4, <1>7, FlattenAppend DEF as
<1> QED BY <1>8 DEF WriteVarInts, ws, vs, t

(* The library reads what bitcoind wrote: the numbers, whatever follows.   *)
Reads(data, n, s) == \A i \in 1..Len(s) : Varints(data, n)[i].value = s[i]

(* Hence the numbers are read back.                                        *)
LEMMA VarintsWritten ==
    ASSUME NEW s \in Seq(0..(U64Range - 1)), NEW data \in Seq(Octets), Lies(data, 0, WriteVarInts(s)),
           NEW n \in Nat, Len(s) <= n
    PROVE  Reads(data, n, s)
<1> DEFINE ws == [i \in DOMAIN s |-> WriteVarInt(s[i])]
<1>1. ws \in Seq(Seq(Octets)) /\ Len(ws) = Len(s) /\ \A i \in 1..Len(s) : ws[i] = WriteVarInt(s[i])
  BY WriteVarIntsIs
<1>2. \A i \in 1..Len(s) : Ends128(ws[i]) /\ Groups(ws[i]) = s[i]
  BY <1>1, WriteVarIntsIs
<1>3. FlattenSeq(ws) = WriteVarInts(s)
  BY DEF WriteVarInts
<1> HIDE DEF ws
<1>4. \A i \in 1..Len(ws) : Varints(data, n)[i] = [value |-> Groups(ws[i]), next |-> At(ws, i) + 1]
  BY <1>1, <1>2, <1>3, VarintsOf
<1>5. ASSUME NEW i \in 1..Len(s) PROVE Varints(data, n)[i].value = s[i]
  <2>1. Varints(data, n)[i] = [value |-> Groups(ws[i]), next |-> At(ws, i) + 1]
    BY <1>1, <1>4
  <2> QED BY <2>1, <1>2
<1> QED BY <1>5 DEF Reads

(* Both parts lie in their concatenation.                                  *)
LEMMA LiesFirst ==
    ASSUME NEW E, NEW s \in Seq(E), NEW t \in Seq(E)
    PROVE  Lies(s \o t, 0, s) /\ Lies(s \o t, Len(s), t)
<1> DEFINE u == s \o t
<1>1. u \in Seq(E) /\ Len(u) \in Nat /\ Len(s) \in Nat /\ 0 + Len(s) = Len(s)
  OBVIOUS
<1>2. Lies(u, 0, u)
  <2> HIDE DEF u
  <2> QED BY <1>1 DEF Lies
<1>3. Lies(u, 0, s) /\ Lies(u, 0 + Len(s), t)
  <2>1. 0 \in Nat /\ Lies(u, 0, s \o t)
    BY <1>2
  <2> HIDE DEF u
  <2> QED BY <1>1, <2>1, LiesConcat
<1> QED BY <1>1, <1>3

(* The last bytes are the second part.                                     *)
LEMMA ConcatRight ==
    ASSUME NEW E, NEW s \in Seq(E), NEW t \in Seq(E)
    PROVE  SubSeq(s \o t, Len(s \o t) - Len(t) + 1, Len(s \o t)) = t
<1> DEFINE u == s \o t
           r == SubSeq(u, Len(u) - Len(t) + 1, Len(u))
<1>1. u \in Seq(E) /\ Len(u) = Len(s) + Len(t) /\ Len(s) \in Nat /\ Len(t) \in Nat
  OBVIOUS
<1>2. \A k \in 1..Len(t) : u[Len(s) + k] = t[k]
  BY <1>1
<1> HIDE DEF u
<1>3. r \in Seq(E) /\ Len(r) = Len(t) /\ \A k \in 1..Len(t) : r[k] = u[Len(s) + k]
  <2>1. Len(u) - Len(t) + 1 = Len(s) + 1 /\ Len(s) + 1 \in 1..(Len(u) + 1) /\ Len(u) \in Len(s)..Len(u)
    BY <1>1
  <2>2. /\ SubSeq(u, Len(s) + 1, Len(u)) \in Seq(E)
        /\ Len(SubSeq(u, Len(s) + 1, Len(u))) = Len(u) - (Len(s) + 1) + 1
        /\ \A k \in 1..(Len(u) - (Len(s) + 1) + 1) : SubSeq(u, Len(s) + 1, Len(u))[k] = u[Len(s) + 1 + k - 1]
    BY <1>1, <2>1, SubSeqProperties
  <2>3. Len(u) - (Len(s) + 1) + 1 = Len(t) /\ \A k \in 1..Len(t) : Len(s) + 1 + k - 1 = Len(s) + k
    BY <1>1
  <2> QED BY <2>1, <2>2, <2>3
<1> HIDE DEF r
<1>4. r = t
  BY <1>1, <1>2, <1>3, SeqEqual
<1> QED BY <1>4 DEF r, u

(* A member of a fixed number of bytes is a sequence.                      *)
LEMMA FixedBytes == ASSUME NEW E, NEW n \in Nat, NEW f \in [1..n -> E] PROVE f \in Seq(E) /\ Len(f) = n
OBVIOUS

(* The entry of a block as bitcoind stores it: the numbers of every status, the *)
(* positions with their bits, and the header at the end.                        *)
LEMMA DiskBlockIndexIs ==
    ASSUME NEW e \in [{"version", "height", "status", "file", "offset", "undo"} -> 0..(U32Range - 1)],
           NEW n \in 0..(U32Range - 1), NEW h \in Seq(Octets)
    PROVE  LET data == DiskBlockIndex(e, n, h)
               four == <<e.version, e.height, e.status, n>>
           IN  /\ data \in Seq(Octets)
               /\ Lies(data, 0, WriteVarInts(four))
               /\ HaveData(e.status) => Lies(data, 0, WriteVarInts(Append(Append(four, e.file), e.offset)))
               /\ Len(h) = HeaderSize => SubSeq(data, Len(data) - HeaderSize + 1, Len(data)) = h
<1> DEFINE data == DiskBlockIndex(e, n, h)
           four == <<e.version, e.height, e.status, n>>
           W == WriteVarInts(four)
           f == WriteVarInt(e.file)
           o == WriteVarInt(e.offset)
           u == WriteVarInt(e.undo)
           F == IF HaveData(e.status) \/ HaveUndo(e.status) THEN f ELSE << >>
           O == IF HaveData(e.status) THEN o ELSE << >>
           U == IF HaveUndo(e.status) THEN u ELSE << >>
<1>1. \A x \in 0..(U32Range - 1) : x \in 0..(U64Range - 1) /\ x \in Nat /\ x < U64Range
  BY Ranges
<1>2. e.version \in 0..(U32Range - 1) /\ e.height \in 0..(U32Range - 1) /\ e.status \in 0..(U32Range - 1)
      /\ e.file \in 0..(U32Range - 1) /\ e.offset \in 0..(U32Range - 1) /\ e.undo \in 0..(U32Range - 1)
  OBVIOUS
<1>3. four \in Seq(0..(U64Range - 1)) /\ Append(four, e.file) \in Seq(0..(U64Range - 1))
  BY <1>1, <1>2
<1>4. W \in Seq(Octets)
  BY <1>3, WriteVarIntsIs
<1>5. f \in Seq(Octets) /\ o \in Seq(Octets) /\ u \in Seq(Octets)
  <2>1. \A x \in 0..(U32Range - 1) : WriteVarInt(x) \in Seq(Octets)
    <3> SUFFICES ASSUME NEW x \in 0..(U32Range - 1) PROVE WriteVarInt(x) \in Seq(Octets)
      OBVIOUS
    <3>1. x \in Nat /\ x < U64Range
      BY <1>1
    <3> QED BY <3>1, WriteVarIntDecodes DEF Ends128
  <2> QED BY <2>1, <1>2
<1>6. F \in Seq(Octets) /\ O \in Seq(Octets) /\ U \in Seq(Octets)
  BY <1>5
<1>7. WriteVarInts(Append(Append(four, e.file), e.offset)) = (W \o f) \o o
  BY <1>1, <1>2, <1>3, WriteVarIntsAppend
<1>8. data = (((W \o F) \o O) \o U) \o h
  BY DEF DiskBlockIndex
<1>9. HaveData(e.status) => F = f /\ O = o
  OBVIOUS
<1> HIDE DEF W, f, o, u, F, O, U, data
<1>10. /\ W \o F \in Seq(Octets) /\ (W \o F) \o O \in Seq(Octets)
       /\ ((W \o F) \o O) \o U \in Seq(Octets) /\ data \in Seq(Octets)
  BY <1>4, <1>6, <1>8
<1>11. Lies(data, 0, ((W \o F) \o O) \o U)
  BY <1>8, <1>10, LiesFirst
<1>12. Lies(data, 0, (W \o F) \o O)
  BY <1>6, <1>10, <1>11, LiesConcat
<1>13. Lies(data, 0, W \o F)
  BY <1>6, <1>10, <1>12, LiesConcat
<1>14. Lies(data, 0, W)
  BY <1>4, <1>6, <1>10, <1>13, LiesConcat
<1>15. HaveData(e.status) => Lies(data, 0, WriteVarInts(Append(Append(four, e.file), e.offset)))
  BY <1>7, <1>9, <1>12
<1>16. SubSeq(data, Len(data) - Len(h) + 1, Len(data)) = h
  BY <1>8, <1>10, ConcatRight
<1> QED BY <1>10, <1>14, <1>15, <1>16 DEF data, W

(* GetBlockIndexRecord (src/indexing.c) on what bitcoind stored.           *)
LEMMA BlockRecordDecoded ==
    ASSUME NEW e \in [{"version", "height", "status", "file", "offset", "undo"} -> 0..(U32Range - 1)],
           NEW n \in 0..(U32Range - 1), NEW h \in [1..HeaderSize -> Octets]
    PROVE  LET r == GetBlockIndexRecord(SHA(h), DiskBlockIndex(e, n, h))
           IN  /\ r.blockHash = DoubleSHA256(h) /\ r.blockHeader = DecodeBlockHeader(h)
               /\ r.version = e.version /\ r.height = e.height /\ r.validationStatus = e.status /\ r.txCount = n
               /\ HaveData(e.status) => r.blockFile = e.file /\ r.blockOffset = e.offset
<1> DEFINE data == DiskBlockIndex(e, n, h)
           four == <<e.version, e.height, e.status, n>>
           six == Append(Append(four, e.file), e.offset)
           v == Varints(data, 8)
           r == GetBlockIndexRecord(SHA(h), data)
<1>1. h \in Seq(Octets) /\ Len(h) = HeaderSize
  BY SizesAssumption, FixedBytes
<1>2. /\ data \in Seq(Octets) /\ Lies(data, 0, WriteVarInts(four))
      /\ HaveData(e.status) => Lies(data, 0, WriteVarInts(six))
      /\ SubSeq(data, Len(data) - HeaderSize + 1, Len(data)) = h
  BY <1>1, DiskBlockIndexIs
<1>3. /\ four \in Seq(0..(U64Range - 1)) /\ Len(four) = 4
      /\ four[1] = e.version /\ four[2] = e.height /\ four[3] = e.status /\ four[4] = n
  BY Ranges
<1>4. six \in Seq(0..(U64Range - 1)) /\ Len(six) = 6 /\ six[5] = e.file /\ six[6] = e.offset
  BY Ranges
<1>5. /\ r.blockHash = ReverseString(SHA(h)) /\ r.version = v[1].value /\ r.height = v[2].value
      /\ r.validationStatus = v[3].value /\ r.txCount = v[4].value
      /\ r.blockFile = v[5].value /\ r.blockOffset = v[6].value
      /\ r.blockHeader = DecodeBlockHeader(SubSeq(data, Len(data) - HeaderSize + 1, Len(data)))
  BY DEF GetBlockIndexRecord
<1> HIDE DEF data, four, six, v, r
<1>6. \A i \in 1..4 : v[i].value = four[i]
  <2>1. 8 \in Nat /\ Len(four) <= 8
    BY <1>3
  <2>2. Reads(data, 8, four)
    BY <1>2, <1>3, <2>1, VarintsWritten
  <2> QED BY <1>3, <2>2 DEF Reads, v
<1>7. HaveData(e.status) => \A i \in 1..6 : v[i].value = six[i]
  <2>1. 8 \in Nat /\ Len(six) <= 8
    BY <1>4
  <2>2. HaveData(e.status) => Reads(data, 8, six)
    BY <1>2, <1>4, <2>1, VarintsWritten
  <2> QED BY <1>4, <2>2 DEF Reads, v
<1>8. /\ r.blockHash = DoubleSHA256(h) /\ r.blockHeader = DecodeBlockHeader(h)
      /\ r.version = e.version /\ r.height = e.height /\ r.validationStatus = e.status /\ r.txCount = n
  <2>1. 1 \in 1..4 /\ 2 \in 1..4 /\ 3 \in 1..4 /\ 4 \in 1..4
    OBVIOUS
  <2>2. v[1].value = e.version /\ v[2].value = e.height /\ v[3].value = e.status /\ v[4].value = n
    BY <1>3, <1>6, <2>1
  <2> QED BY <1>2, <1>5, <2>2 DEF DoubleSHA256
<1>9. HaveData(e.status) => r.blockFile = e.file /\ r.blockOffset = e.offset
  BY <1>4, <1>5, <1>7
<1> QED BY <1>8, <1>9 DEF r, data

(* GetFileInformationRecord (src/indexing.c) on what bitcoind stored.      *)
LEMMA FileRecordDecoded ==
    ASSUME NEW s \in [1..7 -> 0..(U64Range - 1)]
    PROVE  GetFileInformationRecord(WriteVarInts(s)) =
             [blockCount |-> s[1], dataFileSize |-> s[2], revFileSize |-> s[3], lowestHeight |-> s[4],
              highestHeight |-> s[5], lowestTimestamp |-> s[6], highestTimestamp |-> s[7]]
<1> DEFINE data == WriteVarInts(s)
           v == Varints(data, 7)
<1>1. s \in Seq(0..(U64Range - 1)) /\ Len(s) = 7
  <2> DEFINE E == 0..(U64Range - 1)
             n == 7
  <2>1. n \in Nat /\ s \in [1..n -> E]
    OBVIOUS
  <2> HIDE DEF E, n
  <2>2. s \in Seq(E) /\ Len(s) = n
    BY <2>1, FixedBytes
  <2> QED BY <2>2 DEF E, n
<1>2. data \in Seq(Octets)
  BY <1>1, WriteVarIntsIs
<1> HIDE DEF data
<1>3. Lies(data, 0, data)
  BY <1>2 DEF Lies
<1>4. \A i \in 1..7 : v[i].value = s[i]
  <2>1. 7 \in Nat /\ Len(s) <= 7 /\ Lies(data, 0, WriteVarInts(s))
    BY <1>1, <1>3 DEF data
  <2>2. Reads(data, 7, s)
    BY <1>1, <1>2, <2>1, VarintsWritten
  <2> QED BY <1>1, <2>2 DEF Reads
<1>5. GetFileInformationRecord(data) =
        [blockCount |-> v[1].value, dataFileSize |-> v[2].value, revFileSize |-> v[3].value,
         lowestHeight |-> v[4].value, highestHeight |-> v[5].value,
         lowestTimestamp |-> v[6].value, highestTimestamp |-> v[7].value]
  BY DEF GetFileInformationRecord
<1> HIDE DEF v
<1> QED BY <1>4, <1>5 DEF data

(* GetCoinRecord (src/indexing.c) on what bitcoind stored.                 *)
LEMMA CoinRecordDecoded ==
    ASSUME NEW n \in 0..(U32Range - 1), NEW key
    PROVE  LET r == GetCoinRecord(key, WriteVarInts(<<2 * n + 1, 0>>)) IN
             r.height = n - (IF n < U32Range \div 2 THEN 0 ELSE U32Range) /\ r.coinbase = 1
<1> DEFINE s == <<2 * n + 1, 0>>
           data == WriteVarInts(s)
           code == Varints(data, 2)[1].value
<1>1. s \in Seq(0..(U64Range - 1)) /\ Len(s) = 2 /\ s[1] = 2 * n + 1 /\ n \in Nat
  BY Ranges
<1> HIDE DEF s
<1>2. data \in Seq(Octets)
  BY <1>1, WriteVarIntsIs
<1> HIDE DEF data
<1>3. Lies(data, 0, data)
  BY <1>2 DEF Lies
<1>4. code = 2 * n + 1
  <2>1. 2 \in Nat /\ Len(s) <= 2 /\ Lies(data, 0, WriteVarInts(s))
    BY <1>1, <1>3 DEF data
  <2>2. Reads(data, 2, s)
    BY <1>1, <1>2, <2>1, VarintsWritten
  <2> QED BY <1>1, <2>2 DEF Reads
<1>5. (2 * n + 1) \div 2 = n /\ (2 * n + 1) % 2 = 1
  BY <1>1, DivModIs
<1>6. GetCoinRecord(key, data).height = I32(code \div 2) /\ GetCoinRecord(key, data).coinbase = code % 2
  BY DEF GetCoinRecord
<1>7. I32(n) = n - (IF n < U32Range \div 2 THEN 0 ELSE U32Range)
  <2>1. n \in Nat /\ U32Range \in Nat /\ n < U32Range
    BY <1>1, Ranges
  <2>2. n % U32Range = n
    BY <2>1, ModSmall
  <2>3. n - 0 = n
    BY <2>1
  <2> QED BY <2>2, <2>3, Zenon DEF I32
<1> QED BY <1>4, <1>5, <1>6, <1>7 DEF data, s

----------------------------------------------------------------------------
(* The header *)

(* The part that lies at a place is the part of data from there.           *)
LEMMA PartIs ==
    ASSUME NEW E, NEW data \in Seq(E), NEW at \in Nat, NEW w \in Seq(E), Lies(data, at, w)
    PROVE  SubSeq(data, at + 1, at + Len(w)) = w
<1> DEFINE m == at + 1
           n == at + Len(w)
           r == SubSeq(data, m, n)
<1>1. Len(w) \in Nat /\ Len(data) \in Nat /\ at + Len(w) <= Len(data) /\ \A k \in 1..Len(w) : data[at + k] = w[k]
  BY DEF Lies
<1>2. m \in Int /\ n \in Int /\ n - m + 1 = Len(w) /\ (m <= n \/ Len(w) = 0) /\ \A i \in m..n : i \in 1..Len(data)
  BY <1>1
<1>3. \A k \in 1..Len(w) : m + k - 1 = at + k
  BY <1>1
<1> HIDE DEF m, n
<1>4. \A i \in m..n : data[i] \in E
  BY <1>2
<1>5. /\ r \in Seq(E) /\ Len(r) = IF m <= n THEN n - m + 1 ELSE 0
      /\ \A k \in 1..(n - m + 1) : r[k] = data[m + k - 1]
  BY <1>2, <1>4, SubSeqProperties, Z3
<1> HIDE DEF r
<1>6. Len(r) = Len(w)
  BY <1>2, <1>5
<1>7. \A k \in 1..Len(w) : r[k] = w[k]
  BY <1>1, <1>2, <1>3, <1>5
<1>8. r = w
  BY <1>5, <1>6, <1>7, SeqEqual
<1> QED BY <1>8 DEF r, m, n

(* The sizes of a header and of the members it has.                        *)
LEMMA HeaderSizes ==
    /\ HeaderVersionSize \in Nat /\ HeaderVersionSize >= 1 /\ HashSize \in Nat /\ TailSize \in Nat
    /\ HeaderSize \in Nat /\ HeaderSize = HeaderVersionSize + 2 * HashSize + TailSize
BY HeaderAssumption DEF HeaderSize

(* The members of a stored header and where they lie.                      *)
LEMMA HeaderType ==
    ASSUME NEW h \in Headers
    PROVE  LET raw == SerializeHeader(h) IN
             /\ raw \in Seq(Octets) /\ Len(raw) = HeaderSize
             /\ SubSeq(raw, 1, HeaderVersionSize) = h.version
             /\ SubSeq(raw, HeaderVersionSize + 1, HeaderVersionSize + HashSize) = h.prevBlockHash
             /\ SubSeq(raw, HeaderVersionSize + HashSize + 1, HeaderVersionSize + 2 * HashSize) = h.merkleRoot
             /\ SubSeq(raw, HeaderVersionSize + 2 * HashSize + 1, HeaderSize) = h.time
<1> DEFINE v == h.version
           p == h.prevBlockHash
           m == h.merkleRoot
           t == h.time
           raw == ((v \o p) \o m) \o t
<1>1. /\ v \in [1..HeaderVersionSize -> Octets] /\ p \in [1..HashSize -> Octets]
      /\ m \in [1..HashSize -> Octets] /\ t \in [1..TailSize -> Octets]
  BY DEF Headers
<1>2. /\ v \in Seq(Octets) /\ Len(v) = HeaderVersionSize /\ p \in Seq(Octets) /\ Len(p) = HashSize
      /\ m \in Seq(Octets) /\ Len(m) = HashSize /\ t \in Seq(Octets) /\ Len(t) = TailSize
  BY <1>1, HeaderSizes, FixedBytes
<1>3. SerializeHeader(h) = raw
  BY DEF SerializeHeader
<1> HIDE DEF v, p, m, t
<1>4. v \o p \in Seq(Octets) /\ Len(v \o p) = HeaderVersionSize + HashSize
  BY <1>2, ConcatProperties
<1>5. (v \o p) \o m \in Seq(Octets) /\ Len((v \o p) \o m) = HeaderVersionSize + HashSize + HashSize
  <2>1. (v \o p) \o m \in Seq(Octets) /\ Len((v \o p) \o m) = Len(v \o p) + Len(m)
    BY <1>2, <1>4, ConcatProperties, Zenon
  <2> QED BY <1>2, <1>4, <2>1
<1>6. raw \in Seq(Octets) /\ Len(raw) = HeaderVersionSize + HashSize + HashSize + TailSize
  BY <1>2, <1>5, ConcatProperties
<1>7. Lies(raw, 0, (v \o p) \o m) /\ Lies(raw, HeaderVersionSize + HashSize + HashSize, t)
  BY <1>2, <1>5, LiesFirst
<1> HIDE DEF raw
<1>8. Lies(raw, 0, v \o p) /\ Lies(raw, 0 + Len(v \o p), m)
  BY <1>2, <1>4, <1>6, <1>7, LiesConcat
<1>9. Lies(raw, 0, v) /\ Lies(raw, 0 + Len(v), p)
  BY <1>2, <1>6, <1>8, LiesConcat
<1>10. /\ 0 \in Nat /\ 0 + Len(v) \in Nat /\ 0 + Len(v \o p) \in Nat /\ HeaderVersionSize + HashSize + HashSize \in Nat
  BY <1>2, <1>4, HeaderSizes
<1>11. /\ SubSeq(raw, 0 + 1, 0 + Len(v)) = v
       /\ SubSeq(raw, (0 + Len(v)) + 1, (0 + Len(v)) + Len(p)) = p
       /\ SubSeq(raw, (0 + Len(v \o p)) + 1, (0 + Len(v \o p)) + Len(m)) = m
       /\ SubSeq(raw, (HeaderVersionSize + HashSize + HashSize) + 1, (HeaderVersionSize + HashSize + HashSize) + Len(t)) = t
  <2>1. SubSeq(raw, 0 + 1, 0 + Len(v)) = v
    BY <1>2, <1>6, <1>9, <1>10, PartIs, Zenon
  <2>2. SubSeq(raw, (0 + Len(v)) + 1, (0 + Len(v)) + Len(p)) = p
    BY <1>2, <1>6, <1>9, <1>10, PartIs, Zenon
  <2>3. SubSeq(raw, (0 + Len(v \o p)) + 1, (0 + Len(v \o p)) + Len(m)) = m
    BY <1>2, <1>6, <1>8, <1>10, PartIs, Zenon
  <2>4. SubSeq(raw, (HeaderVersionSize + HashSize + HashSize) + 1, (HeaderVersionSize + HashSize + HashSize) + Len(t)) = t
    BY <1>2, <1>6, <1>7, <1>10, PartIs, Zenon
  <2> QED BY <2>1, <2>2, <2>3, <2>4
<1>12. /\ 0 + 1 = 1 /\ 0 + Len(v) = HeaderVersionSize /\ 0 + Len(v \o p) = HeaderVersionSize + HashSize
       /\ (0 + Len(v \o p)) + Len(m) = HeaderVersionSize + 2 * HashSize
       /\ HeaderVersionSize + HashSize + HashSize = HeaderVersionSize + 2 * HashSize
       /\ HeaderVersionSize + 2 * HashSize + Len(t) = HeaderSize /\ Len(raw) = HeaderSize
  BY <1>2, <1>4, <1>6, HeaderSizes
<1>13. /\ SubSeq(raw, 1, HeaderVersionSize) = v
       /\ SubSeq(raw, HeaderVersionSize + 1, HeaderVersionSize + HashSize) = p
       /\ SubSeq(raw, HeaderVersionSize + HashSize + 1, HeaderVersionSize + 2 * HashSize) = m
       /\ SubSeq(raw, HeaderVersionSize + 2 * HashSize + 1, HeaderSize) = t
  BY <1>2, <1>11, <1>12
<1> QED BY <1>3, <1>6, <1>12, <1>13, Zenon DEF v, p, m, t

(* DecodeBlockHeader (src/bitcoin-specifics.c) gets every member right,    *)
(* the version but for its upper bytes: they run over into prevBlockHash,  *)
(* which is stored later.                                                  *)
LEMMA HeaderDecoded ==
    ASSUME NEW h \in Headers
    PROVE  IsHeader(DecodeBlockHeader(SerializeHeader(h)), h)
<1> DEFINE raw == SerializeHeader(h)
           S == HashSize
           T == TailSize
           D == 1..(1 + 2 * S + T)
           v == h.version
           p == Reverse(h.prevBlockHash)
           m == Reverse(h.merkleRoot)
           t == h.time
           m0 == HeaderMemory
           m1 == StoreAt(m0, 1, v)
           m2 == StoreAt(m1, 2, p)
           m3 == StoreAt(m2, 2 + S, m)
           m4 == StoreAt(m3, 2 + 2 * S, t)
           d == DecodeBlockHeader(raw)
<1>1. /\ h.version \in [1..HeaderVersionSize -> Octets] /\ h.prevBlockHash \in [1..S -> Octets]
      /\ h.merkleRoot \in [1..S -> Octets] /\ h.time \in [1..T -> Octets]
  BY DEF Headers
<1>2. S \in Nat /\ T \in Nat /\ HeaderVersionSize \in Nat /\ HeaderVersionSize >= 1
  BY HeaderSizes
<1>3. Len(v) = HeaderVersionSize /\ Len(h.prevBlockHash) = S /\ Len(h.merkleRoot) = S /\ Len(t) = T
  BY <1>1, <1>2, FixedBytes
<1>4. /\ Len(p) = S /\ \A i \in 1..S : p[i] = h.prevBlockHash[S + 1 - i]
      /\ Len(m) = S /\ \A i \in 1..S : m[i] = h.merkleRoot[S + 1 - i]
  <2>1. p = [i \in 1..S |-> h.prevBlockHash[(S - i) + 1]] /\ m = [i \in 1..S |-> h.merkleRoot[(S - i) + 1]]
    BY <1>3 DEF Reverse
  <2>2. \A i \in 1..S : (S - i) + 1 = S + 1 - i /\ S + 1 - i \in 1..S
    BY <1>2
  <2>3. p \in [1..S -> Octets] /\ m \in [1..S -> Octets]
    BY <1>1, <2>1, <2>2
  <2>4. Len(p) = S /\ Len(m) = S
    BY <1>2, <2>3, FixedBytes
  <2> QED BY <2>1, <2>2, <2>4
<1>5. d = HeaderMembers(m4)
  <2>1. /\ SubSeq(raw, 1, HeaderVersionSize) = v
        /\ SubSeq(raw, HeaderVersionSize + 1, HeaderVersionSize + HashSize) = h.prevBlockHash
        /\ SubSeq(raw, HeaderVersionSize + HashSize + 1, HeaderVersionSize + 2 * HashSize) = h.merkleRoot
        /\ SubSeq(raw, HeaderVersionSize + 2 * HashSize + 1, HeaderSize) = t
    BY HeaderType
  <2> QED BY <2>1 DEF DecodeBlockHeader, StoreVersion, StorePrevBlockHash, StoreMerkleRoot, StoreTime, ReverseString
<1>6. DOMAIN m0 = D
  BY DEF HeaderMemory
<1> HIDE DEF v, p, m, t, m0, m1, m2, m3, m4, d
<1>7. DOMAIN m1 = D /\ \A i \in D : m1[i] = IF i \in 1..(1 + Len(v) - 1) THEN v[i - 1 + 1] ELSE m0[i]
  BY <1>6, Zenon DEF StoreAt, m1
<1>8. DOMAIN m2 = D /\ \A i \in D : m2[i] = IF i \in 2..(2 + Len(p) - 1) THEN p[i - 2 + 1] ELSE m1[i]
  BY <1>7, Zenon DEF StoreAt, m2
<1>9. DOMAIN m3 = D /\ \A i \in D : m3[i] = IF i \in (2 + S)..(2 + S + Len(m) - 1) THEN m[i - (2 + S) + 1] ELSE m2[i]
  BY <1>8, Zenon DEF StoreAt, m3
<1>10. /\ DOMAIN m4 = D
       /\ \A i \in D : m4[i] = IF i \in (2 + 2 * S)..(2 + 2 * S + Len(t) - 1) THEN t[i - (2 + 2 * S) + 1] ELSE m3[i]
  BY <1>9, Zenon DEF StoreAt, m4
<1>11. m4[1] = v[1]
  <2>1. 1 \in D /\ 1 \in 1..(1 + Len(v) - 1) /\ 1 - 1 + 1 = 1
    BY <1>2, <1>3
  <2>2. 1 \notin 2..(2 + Len(p) - 1) /\ 1 \notin (2 + S)..(2 + S + Len(m) - 1)
        /\ 1 \notin (2 + 2 * S)..(2 + 2 * S + Len(t) - 1)
    BY <1>2, <1>3, <1>4
  <2>3. m4[1] = m3[1] /\ m3[1] = m2[1] /\ m2[1] = m1[1]
    BY <2>1, <2>2, <1>8, <1>9, <1>10, Zenon
  <2>4. m1[1] = v[1]
    BY <2>1, <1>7
  <2> QED BY <2>3, <2>4
<1>12. ASSUME NEW i \in 1..S
       PROVE  m4[2 + i - 1] = h.prevBlockHash[S + 1 - i] /\ m4[2 + S + i - 1] = h.merkleRoot[S + 1 - i]
  <2>1. /\ 2 + i - 1 \in D /\ 2 + i - 1 \in 2..(2 + Len(p) - 1) /\ (2 + i - 1) - 2 + 1 = i
        /\ 2 + i - 1 \notin (2 + S)..(2 + S + Len(m) - 1) /\ 2 + i - 1 \notin (2 + 2 * S)..(2 + 2 * S + Len(t) - 1)
    BY <1>2, <1>3, <1>4
  <2>2. /\ 2 + S + i - 1 \in D /\ 2 + S + i - 1 \in (2 + S)..(2 + S + Len(m) - 1) /\ (2 + S + i - 1) - (2 + S) + 1 = i
        /\ 2 + S + i - 1 \notin (2 + 2 * S)..(2 + 2 * S + Len(t) - 1)
    BY <1>2, <1>3, <1>4
  <2>3. m4[2 + i - 1] = p[i]
    BY <2>1, <1>8, <1>9, <1>10, Zenon
  <2>4. m4[2 + S + i - 1] = m[i]
    BY <2>2, <1>9, <1>10, Zenon
  <2> QED BY <1>4, <2>3, <2>4
<1>13. Load(m4, 2 + 2 * S, T) = t
  <2>1. ASSUME NEW i \in 1..T PROVE m4[2 + 2 * S + i - 1] = t[i]
    <3>1. /\ 2 + 2 * S + i - 1 \in D /\ 2 + 2 * S + i - 1 \in (2 + 2 * S)..(2 + 2 * S + Len(t) - 1)
          /\ (2 + 2 * S + i - 1) - (2 + 2 * S) + 1 = i
      BY <1>2, <1>3
    <3> QED BY <3>1, <1>10, Zenon
  <2>2. t \in [1..T -> Octets]
    BY <1>1 DEF t
  <2> QED BY <2>1, <2>2 DEF Load
<1>14. /\ d.version = m4[1] /\ d.prevBlockHash = Load(m4, 2, S) /\ d.merkleRoot = Load(m4, 2 + S, S)
       /\ d.time = Load(m4, 2 + 2 * S, T)
  BY <1>5 DEF HeaderMembers
<1>15. \A i \in 1..S : /\ Load(m4, 2, S)[i] = m4[2 + i - 1] /\ Load(m4, 2 + S, S)[i] = m4[2 + S + i - 1]
  BY DEF Load
<1>16. /\ d.version = h.version[1] /\ d.time = h.time
       /\ \A i \in 1..S : d.prevBlockHash[i] = h.prevBlockHash[S + 1 - i] /\ d.merkleRoot[i] = h.merkleRoot[S + 1 - i]
  BY <1>11, <1>12, <1>13, <1>14, <1>15, Zenon DEF v, t
<1> QED BY <1>16, Zenon DEF IsHeader, d

----------------------------------------------------------------------------
(* The records of a run *)

(***************************************************************************)
(* The decoded records: RecordInv.                                         *)
(***************************************************************************)
(* What bitcoind stored is one of the cases. *)
Given ==
    /\ \E c \in Cases : block = c.block /\ entry = c.entry /\ info = c.info /\ xorKey = c.xorKey
    /\ file = OnDisk(Prefixed(block), entry.offset, xorKey)

(* A block is only read when the record says that it is there. *)
RecordInv ==
    /\ Given /\ RecordDecoded
    /\ pc \notin {"index", "pruned"} => HaveData(entry.status)

(* The types of what is stored, from CasesAssumption.                      *)
LEMMA GivenFacts ==
    ASSUME Given
    PROVE  /\ block \in Blocks /\ Len(block.txs) \in 0..(U32Range - 1)
           /\ Len(SerializeBlock(block)) < U32Range
           /\ entry \in [{"version", "height", "status", "file", "offset", "undo"} -> 0..(U32Range - 1)]
           /\ entry.offset >= 8 /\ info \in [1..7 -> 0..(U64Range - 1)] /\ xorKey \in [1..8 -> Octets]
<1>1. PICK c \in Cases : block = c.block /\ entry = c.entry /\ info = c.info /\ xorKey = c.xorKey
  BY DEF Given
<1>2. /\ c.block \in Blocks
      /\ Len(c.block.txs) < U32Range /\ Len(SerializeBlock(c.block)) < U32Range
      /\ c.entry \in [{"version", "height", "status", "file", "offset", "undo"} -> 0..(U32Range - 1)]
      /\ c.entry.offset >= 8
      /\ c.info \in [1..7 -> 0..(U64Range - 1)]
      /\ c.xorKey \in [1..8 -> Octets]
  BY CasesAssumption, Zenon
<1>3. c.block.txs \in Seq(Transactions)
  <2>1. c.block \in Blocks
    BY <1>2
  <2> QED BY <2>1 DEF Blocks
<1>4. Len(c.block.txs) \in 0..(U32Range - 1)
  <2>1. Len(c.block.txs) \in Nat /\ Len(c.block.txs) < U32Range /\ U32Range \in Nat
    BY <1>2, <1>3, Ranges
  <2> QED BY <2>1
<1> QED BY <1>1, <1>2, <1>4, Zenon

(* The step that decodes makes RecordDecoded true.                         *)
LEMMA RecordsRight ==
    ASSUME Given, DecodeRecords
    PROVE  RecordDecoded'
<1>1. /\ block \in Blocks /\ Len(block.txs) \in 0..(U32Range - 1)
      /\ entry \in [{"version", "height", "status", "file", "offset", "undo"} -> 0..(U32Range - 1)]
      /\ info \in [1..7 -> 0..(U64Range - 1)]
  BY GivenFacts
<1> DEFINE h == SerializeHeader(block.header)
           n == Len(block.txs)
           b == GetBlockIndexRecord(SHA(h), DiskBlockIndex(entry, n, h))
           f == GetFileInformationRecord(WriteVarInts(info))
           coin == GetCoinRecord(SHA(h), WriteVarInts(<<2 * entry.height + 1, 0>>))
<1>2. /\ h \in [1..HeaderSize -> Octets] /\ IsHeader(DecodeBlockHeader(h), block.header)
      /\ entry.height \in 0..(U32Range - 1) /\ entry.height \in Nat /\ entry.height < U32Range
  <2>1. block \in Blocks
    BY <1>1
  <2>2. entry.height \in 0..(U32Range - 1)
    BY <1>1
  <2>3. h \in [1..HeaderSize -> Octets] /\ IsHeader(DecodeBlockHeader(h), block.header)
    <3>1. block.header \in Headers
      BY <2>1 DEF Blocks
    <3>2. h \in Seq(Octets) /\ Len(h) = HeaderSize
      BY <3>1, HeaderType
    <3>3. IsHeader(DecodeBlockHeader(h), block.header)
      BY <3>1, HeaderDecoded
    <3> HIDE DEF h
    <3> QED BY <3>2, <3>3
  <2> HIDE DEF h
  <2> QED BY <2>2, <2>3, Ranges
<1>3. record' = [block |-> b, file |-> f, coin |-> coin] /\ UNCHANGED input
  BY DEF DecodeRecords
<1>4. block' = block /\ entry' = entry /\ info' = info
  BY <1>3 DEF input
<1>5. /\ b.blockHash = DoubleSHA256(h) /\ b.blockHeader = DecodeBlockHeader(h)
      /\ b.version = entry.version /\ b.height = entry.height /\ b.validationStatus = entry.status /\ b.txCount = n
      /\ HaveData(entry.status) => b.blockFile = entry.file /\ b.blockOffset = entry.offset
  BY <1>1, <1>2, BlockRecordDecoded
<1>6. f = [blockCount |-> info[1], dataFileSize |-> info[2], revFileSize |-> info[3],
           lowestHeight |-> info[4], highestHeight |-> info[5],
           lowestTimestamp |-> info[6], highestTimestamp |-> info[7]]
  BY <1>1, FileRecordDecoded
<1>7. coin.height = entry.height - (IF entry.height < U32Range \div 2 THEN 0 ELSE U32Range) /\ coin.coinbase = 1
  BY <1>2, CoinRecordDecoded
<1>8. VarintDecode(VarintEncode(entry.height)) = entry.height
  BY <1>2, VarintDecodes
<1>9. (DecodeVarint128(EncodeVarint128(entry.height), 1).value = entry.height) <=> entry.height < Half
  BY <1>2, EncodeVarint128Decodes
<1> HIDE DEF b, f, coin
<1>10. record'.block = b /\ record'.file = f /\ record'.coin = coin
  BY <1>3
<1> HIDE DEF h, n
<1>11. /\ record'.block.blockHash = DoubleSHA256(SerializeHeader(block'.header))
       /\ IsHeader(record'.block.blockHeader, block'.header)
       /\ record'.block.txCount = Len(block'.txs)
  BY <1>2, <1>4, <1>5, <1>10 DEF h, n
<1>12. /\ record'.block.version = entry'.version /\ record'.block.height = entry'.height
       /\ record'.block.validationStatus = entry'.status
       /\ HaveData(entry'.status) => record'.block.blockFile = entry'.file /\ record'.block.blockOffset = entry'.offset
  BY <1>4, <1>5, <1>10
<1>13. record'.file = [blockCount |-> info'[1], dataFileSize |-> info'[2], revFileSize |-> info'[3],
           lowestHeight |-> info'[4], highestHeight |-> info'[5],
           lowestTimestamp |-> info'[6], highestTimestamp |-> info'[7]]
  BY <1>4, <1>6, <1>10
<1>14. /\ record'.coin.height = entry'.height - (IF entry'.height < U32Range \div 2 THEN 0 ELSE U32Range)
       /\ record'.coin.coinbase = 1
  BY <1>4, <1>7, <1>10
<1>15. VarintDecode(VarintEncode(entry'.height)) = entry'.height
  BY <1>4, <1>8
<1>16. (DecodeVarint128(EncodeVarint128(entry'.height), 1).value = entry'.height) <=> entry'.height < Half
  BY <1>4, <1>9
<1> QED BY <1>11, <1>12, <1>13, <1>14, <1>15, <1>16, Zenon DEF RecordDecoded, IsHeader, offset

(* Only the first step decodes, and none of the later ones goes back to it. *)
LEMMA LaterSteps ==
    ASSUME [Next]_vars
    PROVE  /\ UNCHANGED input
           /\ DecodeRecords \/ UNCHANGED record
           /\ ~DecodeRecords /\ pc' # pc => pc \notin {"index", "pruned"} /\ pc' \notin {"index", "pruned"}
<1>1. CASE DecodeRecords
  BY <1>1 DEF DecodeRecords
<1>2. CASE ReadPrefix
  BY <1>2 DEF ReadPrefix
<1>3. CASE ReadHeader
  BY <1>3 DEF ReadHeader
<1>4. CASE ReadTxVersion
  BY <1>4 DEF ReadTxVersion
<1>5. CASE ReadInput
  BY <1>5 DEF ReadInput
<1>6. CASE ReadOutputCount
  BY <1>6 DEF ReadOutputCount
<1>7. CASE ReadOutput
  BY <1>7 DEF ReadOutput
<1>8. CASE EndOutputs
  BY <1>8 DEF EndOutputs
<1>9. CASE ReadWitness
  BY <1>9 DEF ReadWitness
<1>10. CASE ReadStackItem
  BY <1>10 DEF ReadStackItem
<1>11. CASE ReadLocktime
  BY <1>11 DEF ReadLocktime
<1>12. CASE HashBlock
  BY <1>12 DEF HashBlock
<1>13. CASE GetBlockStats
  BY <1>13 DEF GetBlockStats
<1>14. CASE FreeBlock
  BY <1>14 DEF FreeBlock
<1>15. CASE UNCHANGED vars
  BY <1>15 DEF vars
<1> QED BY <1>1, <1>2, <1>3, <1>4, <1>5, <1>6, <1>7, <1>8, <1>9, <1>10, <1>11, <1>12, <1>13, <1>14, <1>15 DEF Next

(* No step makes it false.                                                 *)
LEMMA RecordInvStep ==
    ASSUME RecordInv, [Next]_vars
    PROVE  RecordInv'
<1>1. /\ UNCHANGED input /\ (DecodeRecords \/ UNCHANGED record)
      /\ ~DecodeRecords /\ pc' # pc => pc \notin {"index", "pruned"} /\ pc' \notin {"index", "pruned"}
  BY LaterSteps
<1>2. block' = block /\ entry' = entry /\ info' = info /\ xorKey' = xorKey /\ file' = file
  BY <1>1 DEF input
<1>3. Given'
  BY <1>2, Zenon DEF RecordInv, Given, Prefixed, OnDisk
<1>4. CASE DecodeRecords
  <2>1. RecordDecoded'
    BY <1>4, RecordsRight DEF RecordInv
  <2>2. pc' \notin {"index", "pruned"} => HaveData(entry'.status)
    BY <1>2, <1>4 DEF DecodeRecords
  <2> QED BY <1>3, <2>1, <2>2 DEF RecordInv
<1>5. CASE ~DecodeRecords
  <2>1. record' = record
    BY <1>1, <1>5
  <2>2. pc' # "index" => pc # "index"
    BY <1>1, <1>5
  <2>3. RecordDecoded'
    BY <1>2, <2>1, <2>2 DEF RecordInv, RecordDecoded, offset
  <2>4. pc' \notin {"index", "pruned"} => HaveData(entry'.status)
    BY <1>1, <1>2, <1>5 DEF RecordInv
  <2> QED BY <1>3, <2>3, <2>4 DEF RecordInv
<1> QED BY <1>4, <1>5

(* GetBlockIndexRecord, GetFileInformationRecord and GetCoinRecord          *)
(* (src/indexing.c) over the varints of src/bigInts.c: every record that is *)
(* decoded says what bitcoind stored, for every block, status, height and   *)
(* position, and the positions when the status says that they are there.    *)
THEOREM RecordsAreDecoded == Spec => []RecordDecoded
<1>1. Init => RecordInv
  BY DEF Init, RecordInv, Given, RecordDecoded
<1>2. RecordInv /\ [Next]_vars => RecordInv'
  BY RecordInvStep
<1>3. RecordInv => RecordDecoded
  BY DEF RecordInv
<1> QED BY <1>1, <1>2, <1>3, PTL DEF Spec

----------------------------------------------------------------------------
(* Bytes *)

(***************************************************************************)
(* CompactSize.                                                            *)
(***************************************************************************)
(* The bytes that announce a longer size are the three highest.            *)
LEMMA ByteFacts ==
    /\ Base \in Nat /\ Base > 3 /\ Octets \subseteq Nat /\ 0 \in Octets
    /\ FD \in Octets /\ FE \in Octets /\ FF \in Octets
    /\ \A b \in Octets : b < FD \/ b = FD \/ b = FE \/ b = FF
    /\ \A v \in Nat : v % Base \in Octets /\ v \div Base \in Nat /\ v = Base * (v \div Base) + (v % Base)
<1>1. Base \in Nat /\ Base > 3
  BY BaseAssumption
<1>2. \A v \in Nat : v % Base \in Octets /\ v \div Base \in Nat /\ v = Base * (v \div Base) + (v % Base)
  BY <1>1, DivMod DEF Octets
<1>3. /\ Octets \subseteq Nat /\ 0 \in Octets /\ FD \in Octets /\ FE \in Octets /\ FF \in Octets
      /\ \A b \in Octets : b < FD \/ b = FD \/ b = FE \/ b = FF
  BY <1>1 DEF Octets, FD, FE, FF
<1> QED BY <1>1, <1>2, <1>3

(* The recursive function behind Digits.                                   *)
LEMMA DigitsIs ==
    ASSUME NEW v \in Nat, NEW n \in Nat
    PROVE  \E f \in [0..n -> Nat] :
             /\ f[0] = v /\ \A i \in 1..n : f[i] = f[i - 1] \div Base
             /\ Digits(v, n) = [i \in 1..n |-> f[i - 1] % Base]
<1> DEFINE Def(f) == f = [i \in 0..n |-> IF i = 0 THEN v ELSE f[i - 1] \div Base]
           step == [p \in (1..n) \X Nat |-> p[2] \div Base]
           rest == CHOOSE f : Def(f)
<1>1. Digits(v, n) = [i \in 1..n |-> rest[i - 1] % Base]
  BY DEF Digits
<1>2. step \in [(1..n) \X Nat -> Nat] /\ \A i \in 1..n : \A s \in Nat : step[<<i, s>>] = s \div Base
  <2>1. ASSUME NEW p \in (1..n) \X Nat PROVE p[2] \div Base \in Nat
    BY ByteFacts
  <2> QED BY <2>1
<1> HIDE DEF step
<1>3. PICK h \in [0..n -> Nat] : Iterates(h, n, v, step)
  BY <1>2, RecursionTo
<1>4. h[0] = v /\ \A i \in 1..n : h[i] = h[i - 1] \div Base
  <2>1. \A i \in 1..n : i - 1 \in 0..n
    OBVIOUS
  <2> QED BY <2>1, <1>2, <1>3 DEF Iterates
<1>5. Def(h)
  <2>1. ASSUME NEW i \in 0..n PROVE h[i] = IF i = 0 THEN v ELSE h[i - 1] \div Base
    BY <1>4
  <2>2. h = [i \in 0..n |-> h[i]]
    OBVIOUS
  <2> QED BY <2>1, <2>2, Zenon
<1>6. Def(rest)
  BY <1>5, Zenon
<1> HIDE DEF rest
<1>7. \A i \in 0..n : rest[i] = IF i = 0 THEN v ELSE rest[i - 1] \div Base
  BY <1>6, Zenon
<1>8. rest = [i \in 0..n |-> IF i = 0 THEN v ELSE rest[i - 1] \div Base]
  BY <1>6, Zenon
<1>9. rest[0] = v /\ \A i \in 1..n : rest[i] = rest[i - 1] \div Base
  BY <1>7
<1> DEFINE T == {i \in 0..n : rest[i] \in Nat}
<1>10. 0 \in T
  BY <1>9
<1>11. ASSUME NEW i \in 1..n, i - 1 \in T PROVE i \in T
  <2>1. rest[i - 1] \in Nat /\ rest[i] = rest[i - 1] \div Base /\ i \in 0..n
    BY <1>9, <1>11
  <2>2. rest[i - 1] \div Base \in Nat
    BY <2>1, ByteFacts
  <2> QED BY <2>1, <2>2
<1> HIDE DEF T
<1>12. \A i \in 0..n : i \in T
  BY <1>10, <1>11, InductionTo
<1>13. rest \in [0..n -> Nat]
  <2>1. \A i \in 0..n : rest[i] \in Nat
    BY <1>12 DEF T
  <2>2. rest = [i \in 0..n |-> rest[i]]
    <3>1. \E g : rest = [i \in 0..n |-> g[i]]
      <4> DEFINE g == [i \in 0..n |-> IF i = 0 THEN v ELSE rest[i - 1] \div Base]
      <4>1. rest = g /\ g = [i \in 0..n |-> g[i]]
        BY <1>8
      <4> QED BY <4>1, Zenon
    <3> QED BY <3>1
  <2> QED BY <2>1, <2>2
<1> QED BY <1>1, <1>9, <1>13

(* n bytes.                                                                *)
LEMMA DigitsType ==
    ASSUME NEW v \in Nat, NEW n \in Nat
    PROVE  Digits(v, n) \in Seq(Octets) /\ Len(Digits(v, n)) = n
<1>1. PICK f \in [0..n -> Nat] :
         /\ f[0] = v /\ \A i \in 1..n : f[i] = f[i - 1] \div Base
         /\ Digits(v, n) = [i \in 1..n |-> f[i - 1] % Base]
  BY DigitsIs
<1>2. ASSUME NEW i \in 1..n PROVE f[i - 1] % Base \in Octets
  <2>1. i - 1 \in 0..n
    OBVIOUS
  <2>2. f[i - 1] \in Nat
    BY <2>1
  <2> QED BY <2>2, ByteFacts
<1>3. Digits(v, n) \in [1..n -> Octets]
  BY <1>1, <1>2
<1> QED BY <1>3, FixedBytes

(* The first byte is the lowest.                                           *)
LEMMA DigitsPrepend ==
    ASSUME NEW v \in Nat, NEW n \in Nat
    PROVE  Digits(v, n + 1) = <<v % Base>> \o Digits(v \div Base, n)
<1>1. v \div Base \in Nat /\ v % Base \in Octets
  BY ByteFacts
<1>2. PICK f \in [0..(n + 1) -> Nat] : /\ f[0] = v /\ \A i \in 1..(n + 1) : f[i] = f[i - 1] \div Base
                                       /\ Digits(v, n + 1) = [i \in 1..(n + 1) |-> f[i - 1] % Base]
  <2>1. n + 1 \in Nat
    OBVIOUS
  <2> QED BY <2>1, DigitsIs, Zenon
<1>3. PICK g \in [0..n -> Nat] : /\ g[0] = v \div Base /\ \A i \in 1..n : g[i] = g[i - 1] \div Base
                                 /\ Digits(v \div Base, n) = [i \in 1..n |-> g[i - 1] % Base]
  BY <1>1, DigitsIs
<1> DEFINE T == {i \in 0..n : f[i + 1] = g[i]}
<1>4. 0 \in T
  BY <1>2, <1>3
<1>5. ASSUME NEW i \in 1..n, i - 1 \in T PROVE i \in T
  <2>1. i + 1 \in 1..(n + 1) /\ (i + 1) - 1 = i /\ (i - 1) + 1 = i /\ f[i] = g[i - 1] /\ i \in 0..n
    BY <1>5
  <2>2. f[i + 1] = f[i] \div Base
    BY <2>1, <1>2
  <2> QED BY <2>1, <2>2, <1>3
<1> HIDE DEF T
<1>6. \A i \in 0..n : i \in T
  BY <1>4, <1>5, InductionTo
<1> DEFINE d == Digits(v, n + 1)
           c == Digits(v \div Base, n)
<1>7. d \in Seq(Octets) /\ Len(d) = n + 1 /\ c \in Seq(Octets) /\ Len(c) = n
  BY <1>1, DigitsType
<1>8. (\A i \in 1..(n + 1) : d[i] = f[i - 1] % Base) /\ \A i \in 1..n : c[i] = g[i - 1] % Base
  BY <1>2, <1>3
<1> HIDE DEF d, c
<1> DEFINE e == <<v % Base>> \o c
<1>9. e \in Seq(Octets) /\ Len(e) = n + 1 /\ e[1] = v % Base /\ \A i \in 2..(n + 1) : e[i] = c[i - 1]
  BY <1>1, <1>7
<1> HIDE DEF e
<1>10. ASSUME NEW i \in 1..(n + 1) PROVE d[i] = e[i]
  <2>1. CASE i = 1
    BY <2>1, <1>2, <1>8, <1>9
  <2>2. CASE i # 1
    <3>1. i \in 2..(n + 1) /\ i - 1 \in 1..n /\ i - 2 \in 0..n /\ (i - 1) - 1 = i - 2 /\ (i - 2) + 1 = i - 1
      BY <2>2
    <3>2. f[i - 1] = g[i - 2]
      BY <3>1, <1>6 DEF T
    <3> QED BY <3>1, <3>2, <1>8, <1>9
  <2> QED BY <2>1, <2>2
<1>11. d = e
  BY <1>7, <1>9, <1>10, SeqEqual
<1> QED BY <1>11 DEF d, e, c

(* n bytes hold every number below M. *)
Recovers(n, M) == \A v \in 0..(M - 1) : Value(Digits(v, n)) = v

(* One more byte holds Base times as many.                                 *)
LEMMA RecoversStep ==
    ASSUME NEW n \in Nat, NEW M \in Nat, Recovers(n, M)
    PROVE  Recovers(n + 1, Base * M)
<1> SUFFICES ASSUME NEW v \in 0..(Base * M - 1) PROVE Value(Digits(v, n + 1)) = v
  BY DEF Recovers
<1>1. Base \in Nat /\ Base > 0 /\ Base * M \in Nat
  BY ByteFacts
<1>2. v \in Nat /\ v < Base * M
  BY <1>1
<1>3. v \div Base \in Nat /\ v % Base \in Octets /\ v % Base \in Nat /\ v = Base * (v \div Base) + (v % Base)
  BY <1>2, ByteFacts
<1>4. v \div Base < M
  BY <1>1, <1>2, DivLess
<1>5. Value(Digits(v \div Base, n)) = v \div Base
  BY <1>3, <1>4 DEF Recovers
<1>6. Digits(v \div Base, n) \in Seq(Nat)
  BY <1>3, DigitsType, ByteFacts, SeqMonotonic
<1>7. Value(<<v % Base>> \o Digits(v \div Base, n)) = Value(Digits(v \div Base, n)) * Base + (v % Base)
  BY <1>1, <1>3, <1>6, NumberPrepend DEF Value
<1>8. Digits(v, n + 1) = <<v % Base>> \o Digits(v \div Base, n)
  BY <1>2, DigitsPrepend
<1>9. Value(Digits(v, n + 1)) = (v \div Base) * Base + (v % Base)
  BY <1>5, <1>7, <1>8
<1> QED BY <1>1, <1>3, <1>9

(* Two and four bytes hold the 16- and the 32-bit numbers.                 *)
LEMMA TwoAndFour == Recovers(2, U16Range) /\ Recovers(4, U32Range)
<1>1. Base \in Nat
  BY ByteFacts
<1>2. Recovers(0, 1)
  <2> SUFFICES ASSUME NEW v \in 0..(1 - 1) PROVE Value(Digits(v, 0)) = v
    BY DEF Recovers
  <2>1. v = 0 /\ 0 \in Nat
    OBVIOUS
  <2>2. Digits(0, 0) \in Seq(Octets) /\ Len(Digits(0, 0)) = 0
    BY <2>1, DigitsType
  <2>3. Digits(0, 0) = << >>
    BY <2>2
  <2> QED BY <1>1, <2>1, <2>3, NumberEmpty DEF Value
<1>3. Recovers(1, Base)
  <2>1. 0 \in Nat /\ 1 \in Nat /\ 0 + 1 = 1 /\ Base * 1 = Base
    BY <1>1
  <2>2. Recovers(0 + 1, Base * 1)
    BY <1>2, <2>1, RecoversStep
  <2> QED BY <2>1, <2>2
<1> DEFINE B2 == Base * Base
           B3 == Base * B2
           B4 == Base * B3
<1>4. B2 \in Nat /\ B3 \in Nat
  BY <1>1
<1>5. Recovers(2, B2)
  <2>1. Recovers(1 + 1, Base * Base)
    <3>1. 1 \in Nat
      OBVIOUS
    <3> QED BY <1>1, <1>3, <3>1, RecoversStep
  <2> QED BY <2>1
<1>6. Recovers(3, B3)
  <2> HIDE DEF B2
  <2>1. 2 \in Nat /\ 2 + 1 = 3
    OBVIOUS
  <2>2. Recovers(2 + 1, Base * B2)
    BY <1>4, <1>5, <2>1, RecoversStep
  <2> QED BY <2>1, <2>2
<1>7. Recovers(4, B4)
  <2> HIDE DEF B3
  <2>1. 3 \in Nat /\ 3 + 1 = 4
    OBVIOUS
  <2>2. Recovers(3 + 1, Base * B3)
    BY <1>4, <1>6, <2>1, RecoversStep
  <2> QED BY <2>1, <2>2
<1>8. B4 = U32Range
  BY <1>1 DEF U32Range, U16Range
<1> QED BY <1>5, <1>7, <1>8 DEF U16Range

(* One more byte in front.                                                 *)
LEMMA OneMore ==
    ASSUME NEW E, NEW x \in E, NEW s \in Seq(E)
    PROVE  <<x>> \in Seq(E) /\ <<x>> \o s \in Seq(E) /\ Len(<<x>> \o s) = Len(s) + 1 /\ (<<x>> \o s)[1] = x
OBVIOUS

(* A size takes at least one byte.                                         *)
LEMMA CompactSizeType ==
    ASSUME NEW v \in Nat
    PROVE  CompactSizeEncode(v) \in Seq(Octets) /\ Len(CompactSizeEncode(v)) >= 1
<1>1. /\ <<FD>> \in Seq(Octets) /\ <<FE>> \in Seq(Octets) /\ <<FF>> \in Seq(Octets)
      /\ v < FD => <<v>> \in Seq(Octets)
  <2>1. v < FD => v \in Octets
    BY BaseAssumption DEF FD, Octets
  <2> QED BY <2>1, ByteFacts
<1>2. /\ Digits(v, 2) \in Seq(Octets) /\ Digits(v, 4) \in Seq(Octets) /\ Digits(v, 8) \in Seq(Octets)
      /\ Len(Digits(v, 2)) = 2 /\ Len(Digits(v, 4)) = 4 /\ Len(Digits(v, 8)) = 8
  <2>1. 2 \in Nat /\ 4 \in Nat /\ 8 \in Nat
    OBVIOUS
  <2> QED BY <2>1, DigitsType, Zenon
<1> DEFINE A == <<v>>
           B == <<FD>> \o Digits(v, 2)
           C == <<FE>> \o Digits(v, 4)
           D == <<FF>> \o Digits(v, 8)
<1>3. /\ B \in Seq(Octets) /\ Len(B) = 3 /\ C \in Seq(Octets) /\ Len(C) = 5 /\ D \in Seq(Octets) /\ Len(D) = 9
      /\ Len(A) = 1
  <2>1. FD \in Octets /\ FE \in Octets /\ FF \in Octets
    BY ByteFacts
  <2>2. B \in Seq(Octets) /\ Len(B) = Len(Digits(v, 2)) + 1
    BY <2>1, <1>2, OneMore
  <2>3. C \in Seq(Octets) /\ Len(C) = Len(Digits(v, 4)) + 1
    BY <2>1, <1>2, OneMore
  <2>4. D \in Seq(Octets) /\ Len(D) = Len(Digits(v, 8)) + 1
    BY <2>1, <1>2, OneMore
  <2>5. Len(A) = 1
    OBVIOUS
  <2> HIDE DEF A, B, C, D
  <2>6. Len(B) = 3
    <3>1. Len(Digits(v, 2)) = 2 /\ 2 + 1 = 3
      BY <1>2
    <3> QED BY <3>1, <2>2, Zenon
  <2>7. Len(C) = 5
    <3>1. Len(Digits(v, 4)) = 4 /\ 4 + 1 = 5
      BY <1>2
    <3> QED BY <3>1, <2>3, Zenon
  <2>8. Len(D) = 9
    <3>1. Len(Digits(v, 8)) = 8 /\ 8 + 1 = 9
      BY <1>2
    <3> QED BY <3>1, <2>4, Zenon
  <2> QED BY <2>2, <2>3, <2>4, <2>5, <2>6, <2>7, <2>8
<1>4. CompactSizeEncode(v) = CASE v < FD -> A
                               [] v >= FD /\ v < U16Range -> B
                               [] v >= U16Range /\ v < U32Range -> C
                               [] OTHER -> D
  BY DEF CompactSizeEncode
<1>5. v < FD \/ v >= FD
  BY ByteFacts
<1>6. (CompactSizeEncode(v) = A /\ v < FD) \/ CompactSizeEncode(v) \in {B, C, D}
  <2>1. CASE v < FD
    <3>1. ~(v >= FD) /\ ~(v >= U16Range)
      BY <2>1, BaseAssumption, Ranges DEF FD
    <3> HIDE DEF A, B, C, D
    <3> QED BY <2>1, <3>1, <1>4
  <2>2. CASE v >= FD /\ v < U16Range
    <3>1. ~(v < FD) /\ ~(v >= U16Range)
      BY <2>2, BaseAssumption, Ranges DEF FD
    <3> HIDE DEF A, B, C, D
    <3> QED BY <2>2, <3>1, <1>4
  <2>3. CASE v >= U16Range /\ v < U32Range
    <3>1. ~(v < FD) /\ ~(v < U16Range)
      BY <2>3, BaseAssumption, Ranges DEF FD
    <3> HIDE DEF A, B, C, D
    <3> QED BY <2>3, <3>1, <1>4
  <2>4. CASE ~(v < FD) /\ ~(v >= FD /\ v < U16Range) /\ ~(v >= U16Range /\ v < U32Range)
    <3> HIDE DEF A, B, C, D
    <3> QED BY <2>4, <1>4
  <2> QED BY <2>1, <2>2, <2>3, <2>4
<1> DEFINE Ok(x) == x \in Seq(Octets) /\ Len(x) >= 1
<1>7. v < FD => Ok(A)
  BY <1>1
<1> HIDE DEF A, B, C, D
<1>8. 1 >= 1 /\ 3 >= 1 /\ 5 >= 1 /\ 9 >= 1
  OBVIOUS
<1>9. Ok(B) /\ Ok(C) /\ Ok(D)
  BY <1>3, <1>8, Zenon
<1>10. CompactSizeEncode(v) = A \/ CompactSizeEncode(v) = B \/ CompactSizeEncode(v) = C \/ CompactSizeEncode(v) = D
  BY <1>6
<1> HIDE DEF Ok
<1>11. Ok(CompactSizeEncode(v))
  BY <1>6, <1>7, <1>9, <1>10, Zenon
<1> QED BY <1>11 DEF Ok

(* A size of 16 bits takes one byte or three.                              *)
LEMMA SmallSizes ==
    ASSUME NEW v \in Nat, v < U16Range
    PROVE  CompactSizeEncode(v) = IF v < FD THEN <<v>> ELSE <<FD>> \o Digits(v, 2)
<1> DEFINE A == <<v>>
           B == <<FD>> \o Digits(v, 2)
           C == <<FE>> \o Digits(v, 4)
           D == <<FF>> \o Digits(v, 8)
<1>1. CompactSizeEncode(v) = CASE v < FD -> A
                               [] v >= FD /\ v < U16Range -> B
                               [] v >= U16Range /\ v < U32Range -> C
                               [] OTHER -> D
  BY DEF CompactSizeEncode
<1>2. ~(v >= U16Range) /\ (v >= FD <=> ~(v < FD))
  BY BaseAssumption, Ranges DEF FD
<1>3. CompactSizeEncode(v) = IF v < FD THEN A ELSE B
  <2> HIDE DEF A, B, C, D
  <2>1. CASE v < FD
    BY <2>1, <1>1, <1>2
  <2>2. CASE ~(v < FD)
    BY <2>2, <1>1, <1>2
  <2> QED BY <2>1, <2>2
<1> QED BY <1>3

----------------------------------------------------------------------------
(* What the cursor reads *)

(* A byte of the buffer, or behind its end, is a byte.                     *)
LEMMA ByteType == ASSUME buf \in Seq(Octets), NEW i \in Nat PROVE Byte(i) \in Octets
<1>1. CASE i < Len(buf)
  <2>1. i + 1 \in 1..Len(buf)
    BY <1>1
  <2>2. buf[i + 1] \in Octets
    BY <2>1
  <2> QED BY <1>1, <2>2 DEF Byte
<1>2. CASE ~(i < Len(buf))
  BY <1>2, ByteFacts DEF Byte
<1> QED BY <1>1, <1>2

(* The bytes that a member gets.                                           *)
LEMMA SliceType ==
    ASSUME buf \in Seq(Octets), NEW i \in Nat, NEW n \in Nat
    PROVE  Slice(i, n) \in [1..n -> Octets] /\ Slice(i, n) \in Seq(Octets) /\ Len(Slice(i, n)) = n
<1>1. ASSUME NEW k \in 1..n PROVE Byte(i + k - 1) \in Octets
  <2>1. i + k - 1 \in Nat
    OBVIOUS
  <2> QED BY <2>1, ByteType
<1>2. Slice(i, n) \in [1..n -> Octets]
  BY <1>1 DEF Slice
<1> QED BY <1>2, FixedBytes

(* Bytes make a natural.                                                   *)
LEMMA ValueType == ASSUME NEW s \in Seq(Octets) PROVE Value(s) \in Nat
<1>1. s \in Seq(Nat)
  BY ByteFacts, SeqMonotonic
<1> QED BY <1>1, ByteFacts, NumberType DEF Value

(* Whatever the bytes are, a size and a length come out.                   *)
LEMMA CompactSizeDecodeType ==
    ASSUME buf \in Seq(Octets), NEW i \in Nat
    PROVE  CompactSizeDecode(i).value \in Nat /\ CompactSizeDecode(i).size \in Nat
<1>1. Byte(i) \in Octets
  BY ByteType
<1>2. Byte(i) \in Nat /\ (Byte(i) < FD \/ Byte(i) = FD \/ Byte(i) = FE \/ Byte(i) = FF)
  BY <1>1, ByteFacts
<1>3. /\ Value(Slice(i + 1, 2)) \in Nat /\ Value(Slice(i + 1, 4)) \in Nat /\ Value(Slice(i + 1, 8)) \in Nat
  <2>1. i + 1 \in Nat /\ 2 \in Nat /\ 4 \in Nat /\ 8 \in Nat
    OBVIOUS
  <2>2. Slice(i + 1, 2) \in Seq(Octets) /\ Slice(i + 1, 4) \in Seq(Octets) /\ Slice(i + 1, 8) \in Seq(Octets)
    BY <2>1, SliceType, Zenon
  <2> QED BY <2>2, ValueType, Zenon
<1> DEFINE b == Byte(i)
           A == [value |-> b, size |-> 1]
           B == [value |-> Value(Slice(i + 1, 2)), size |-> 3]
           C == [value |-> Value(Slice(i + 1, 4)), size |-> 5]
           D == [value |-> Value(Slice(i + 1, 8)), size |-> 9]
<1>4. CompactSizeDecode(i) = CASE b < FD -> A [] b = FD -> B [] b = FE -> C [] b = FF -> D
  BY DEF CompactSizeDecode
<1>5. /\ A.value \in Nat /\ B.value \in Nat /\ C.value \in Nat /\ D.value \in Nat
      /\ A.size \in Nat /\ B.size \in Nat /\ C.size \in Nat /\ D.size \in Nat
  BY <1>2, <1>3
<1> HIDE DEF A, B, C, D, b
<1>6. CompactSizeDecode(i) \in {A, B, C, D}
  BY <1>2, <1>4 DEF b
<1> QED BY <1>5, <1>6

(* The bytes that lie at the cursor are what a member gets. *)
LEMMA SliceIs ==
    ASSUME buf \in Seq(Octets), NEW i \in Nat, NEW w \in Seq(Octets), Lies(buf, i, w)
    PROVE  Slice(i, Len(w)) = w
<1> DEFINE s == Slice(i, Len(w))
<1>1. Len(w) \in Nat /\ s \in Seq(Octets) /\ Len(s) = Len(w)
  BY SliceType
<1>2. ASSUME NEW k \in 1..Len(w) PROVE s[k] = w[k]
  <2>1. s[k] = Byte(i + k - 1)
    BY DEF Slice
  <2>2. i + k - 1 < Len(buf) /\ (i + k - 1) + 1 = i + k /\ buf[i + k] = w[k]
    BY <1>1 DEF Lies
  <2> QED BY <2>1, <2>2 DEF Byte
<1> HIDE DEF s
<1>3. s = w
  BY <1>1, <1>2, SeqEqual
<1> QED BY <1>3 DEF s

(* A number of 16 bits keeps its value.                                    *)
LEMMA U16Small == ASSUME NEW v \in Nat, v < U16Range PROVE U16(v) = v
BY Ranges, ModSmall DEF U16

(* The others lose their high bits.                                        *)
LEMMA U16Type == ASSUME NEW v \in Nat PROVE U16(v) \in Nat /\ U16(v) < U16Range
BY Ranges, BaseAssumption DEF U16

(* A size below 2^16 is read back, with the bytes it takes. *)
LEMMA CompactSizeRead ==
    ASSUME buf \in Seq(Octets), NEW i \in Nat, NEW v \in Nat, v < U16Range, Lies(buf, i, CompactSizeEncode(v))
    PROVE  CompactSizeDecode(i) = [value |-> v, size |-> Len(CompactSizeEncode(v))]
<1> DEFINE w == CompactSizeEncode(v)
           b == Byte(i)
           A == [value |-> b, size |-> 1]
           B == [value |-> Value(Slice(i + 1, 2)), size |-> 3]
           C == [value |-> Value(Slice(i + 1, 4)), size |-> 5]
           D == [value |-> Value(Slice(i + 1, 8)), size |-> 9]
<1>1. CompactSizeDecode(i) = CASE b < FD -> A [] b = FD -> B [] b = FE -> C [] b = FF -> D
  BY DEF CompactSizeDecode
<1>2. w \in Seq(Octets) /\ Len(w) >= 1 /\ w = IF v < FD THEN <<v>> ELSE <<FD>> \o Digits(v, 2)
  BY CompactSizeType, SmallSizes
<1>3. FD \in Nat /\ FE = FD + 1 /\ FF = FD + 2
  BY BaseAssumption DEF FD, FE, FF
<1> HIDE DEF w
<1>4. Slice(i, Len(w)) = w
  BY <1>2, SliceIs DEF w
<1>5. b = w[1]
  <2>1. 1 \in 1..Len(w) /\ i + 1 - 1 = i
    BY <1>2
  <2>2. Slice(i, Len(w))[1] = Byte(i + 1 - 1)
    BY <2>1 DEF Slice
  <2> QED BY <2>1, <2>2, <1>4
<1>6. CASE v < FD
  <2>1. w = <<v>> /\ Len(w) = 1 /\ b = v
    BY <1>2, <1>5, <1>6
  <2>2. b < FD /\ b # FD /\ b # FE /\ b # FF
    BY <2>1, <1>3, <1>6
  <2>3. CompactSizeDecode(i) = A
    <3> HIDE DEF A, B, C, D, b
    <3> QED BY <1>1, <2>2
  <2> QED BY <2>1, <2>3 DEF w
<1>7. CASE ~(v < FD)
  <2>1. Digits(v, 2) \in Seq(Octets) /\ Len(Digits(v, 2)) = 2
    <3>1. 2 \in Nat
      OBVIOUS
    <3> QED BY <3>1, DigitsType, Zenon
  <2>2. w = <<FD>> \o Digits(v, 2) /\ <<FD>> \in Seq(Octets) /\ Len(<<FD>>) = 1
    <3>1. FD \in Octets
      BY ByteFacts
    <3>2. w = <<FD>> \o Digits(v, 2)
      BY <1>2, <1>7
    <3>3. <<FD>> \in Seq(Octets) /\ Len(<<FD>>) = 1
      BY <3>1
    <3> QED BY <3>2, <3>3
  <2>3. Len(w) = 3 /\ w[1] = FD
    <3>1. FD \in Octets
      BY ByteFacts
    <3>2. Len(<<FD>> \o Digits(v, 2)) = Len(Digits(v, 2)) + 1 /\ (<<FD>> \o Digits(v, 2))[1] = FD
      BY <2>1, <3>1, OneMore
    <3>3. Len(w) = Len(Digits(v, 2)) + 1 /\ w[1] = FD
      BY <2>2, <3>2, Zenon
    <3>4. Len(Digits(v, 2)) = 2 /\ 2 + 1 = 3
      BY <2>1
    <3> QED BY <3>3, <3>4, Zenon
  <2>4. Lies(buf, i + 1, Digits(v, 2))
    <3>1. Lies(buf, i, <<FD>> \o Digits(v, 2))
      BY <2>2 DEF w
    <3>2. Lies(buf, i + Len(<<FD>>), Digits(v, 2))
      BY <2>1, <2>2, <3>1, LiesConcat
    <3> QED BY <2>2, <3>2
  <2>5. Slice(i + 1, 2) = Digits(v, 2)
    <3>1. i + 1 \in Nat
      OBVIOUS
    <3>2. Slice(i + 1, Len(Digits(v, 2))) = Digits(v, 2)
      BY <2>1, <2>4, <3>1, SliceIs
    <3> QED BY <2>1, <3>2
  <2>6. Value(Slice(i + 1, 2)) = v
    BY <2>5, TwoAndFour, Ranges DEF Recovers
  <2>7. ~(b < FD) /\ b = FD /\ b # FE /\ b # FF
    BY <2>3, <1>3, <1>5
  <2>8. CompactSizeDecode(i) = B
    <3> HIDE DEF A, B, C, D, b
    <3> QED BY <1>1, <2>7
  <2> QED BY <2>3, <2>6, <2>8 DEF w
<1> QED BY <1>6, <1>7

----------------------------------------------------------------------------
(* The parts of the stored block *)

(***************************************************************************)
(* The parts of a stored block, and where they lie.                        *)
(***************************************************************************)
(* The sizes of the members are naturals.                                  *)
LEMMA SizeFacts ==
    /\ HeaderSize \in Nat /\ VersionSize \in Nat /\ OutpointSize \in Nat /\ SequenceSize \in Nat
    /\ AmountSize \in Nat /\ LocktimeSize \in Nat
BY SizesAssumption

(* Bytes behind their size.                                                *)
LEMMA SizedType ==
    ASSUME NEW s \in Seq(Octets)
    PROVE  Sized(s) \in Seq(Octets) /\ Len(Sized(s)) = Len(CompactSizeEncode(Len(s))) + Len(s)
<1>1. Len(s) \in Nat
  OBVIOUS
<1>2. CompactSizeEncode(Len(s)) \in Seq(Octets)
  BY <1>1, CompactSizeType
<1> QED BY <1>2, ConcatProperties DEF Sized

(* Where size and bytes lie.                                               *)
LEMMA SizedAt ==
    ASSUME NEW s \in Seq(Octets), NEW data \in Seq(Octets), NEW at \in Nat, Lies(data, at, Sized(s))
    PROVE  Lies(data, at, CompactSizeEncode(Len(s))) /\ Lies(data, at + Len(CompactSizeEncode(Len(s))), s)
<1>1. Len(s) \in Nat
  OBVIOUS
<1>2. CompactSizeEncode(Len(s)) \in Seq(Octets)
  BY <1>1, CompactSizeType
<1>3. Lies(data, at, CompactSizeEncode(Len(s)) \o s)
  BY DEF Sized
<1> QED BY <1>2, <1>3, LiesConcat

(* The members of an input, and its length.                                *)
LEMMA InputType ==
    ASSUME NEW in \in Inputs
    PROVE  /\ in.outpoint \in Seq(Octets) /\ Len(in.outpoint) = OutpointSize
           /\ in.script \in Seq(Octets)
           /\ in.sequence \in Seq(Octets) /\ Len(in.sequence) = SequenceSize
           /\ SerializeInput(in) \in Seq(Octets)
           /\ Len(SerializeInput(in)) = OutpointSize + Len(Sized(in.script)) + SequenceSize
<1>1. in.outpoint \in [1..OutpointSize -> Octets] /\ in.script \in Seq(Octets) /\ in.sequence \in [1..SequenceSize -> Octets]
  BY DEF Inputs
<1>2. in.outpoint \in Seq(Octets) /\ Len(in.outpoint) = OutpointSize
  BY <1>1, SizeFacts, FixedBytes
<1>3. in.sequence \in Seq(Octets) /\ Len(in.sequence) = SequenceSize
  BY <1>1, SizeFacts, FixedBytes
<1>4. Sized(in.script) \in Seq(Octets)
  BY <1>1, SizedType
<1>5. in.outpoint \o Sized(in.script) \in Seq(Octets) /\ Len(in.outpoint \o Sized(in.script)) = Len(in.outpoint) + Len(Sized(in.script))
  BY <1>2, <1>4, ConcatProperties
<1>6. /\ (in.outpoint \o Sized(in.script)) \o in.sequence \in Seq(Octets)
      /\ Len((in.outpoint \o Sized(in.script)) \o in.sequence) = Len(in.outpoint \o Sized(in.script)) + Len(in.sequence)
  BY <1>3, <1>5, ConcatProperties
<1> QED BY <1>1, <1>2, <1>3, <1>5, <1>6 DEF SerializeInput

(* Where the members of an input lie.                                      *)
LEMMA InputAt ==
    ASSUME NEW in \in Inputs, NEW data \in Seq(Octets), NEW at \in Nat, Lies(data, at, SerializeInput(in))
    PROVE  /\ Lies(data, at, in.outpoint)
           /\ Lies(data, at + OutpointSize, CompactSizeEncode(Len(in.script)))
           /\ Lies(data, at + OutpointSize + Len(CompactSizeEncode(Len(in.script))), in.script)
           /\ Lies(data, at + OutpointSize + Len(CompactSizeEncode(Len(in.script))) + Len(in.script), in.sequence)
<1> DEFINE o == in.outpoint
           z == Sized(in.script)
           q == in.sequence
           c == Len(CompactSizeEncode(Len(in.script)))
           n == Len(in.script)
<1>1. o \in Seq(Octets) /\ Len(o) = OutpointSize /\ in.script \in Seq(Octets) /\ q \in Seq(Octets)
  BY InputType
<1>2. z \in Seq(Octets) /\ Len(z) = c + n
  BY <1>1, SizedType
<1>3. OutpointSize \in Nat /\ n \in Nat /\ c \in Nat
  <2>1. n \in Nat
    BY <1>1
  <2>2. CompactSizeEncode(n) \in Seq(Octets)
    BY <2>1, CompactSizeType
  <2> QED BY <2>1, <2>2, SizeFacts
<1>4. Lies(data, at, (o \o z) \o q)
  BY DEF SerializeInput
<1> HIDE DEF o, z, q, c, n
<1>5. o \o z \in Seq(Octets) /\ Len(o \o z) = OutpointSize + (c + n)
  <2>1. o \o z \in Seq(Octets) /\ Len(o \o z) = Len(o) + Len(z)
    BY <1>1, <1>2, ConcatProperties
  <2> QED BY <2>1, <1>1, <1>2
<1>6. Lies(data, at, o \o z) /\ Lies(data, at + Len(o \o z), q)
  BY <1>1, <1>4, <1>5, LiesConcat
<1>7. Lies(data, at, o) /\ Lies(data, at + Len(o), z)
  BY <1>1, <1>2, <1>6, LiesConcat
<1>8. at + OutpointSize \in Nat /\ at + OutpointSize + c + n = at + (OutpointSize + (c + n))
  BY <1>3
<1>9. Lies(data, at + OutpointSize, z) /\ Lies(data, at + OutpointSize + c + n, q)
  BY <1>1, <1>5, <1>6, <1>7, <1>8
<1>10. Lies(data, at + OutpointSize, CompactSizeEncode(n)) /\ Lies(data, at + OutpointSize + c, in.script)
  BY <1>1, <1>8, <1>9, SizedAt DEF z, c, n
<1> QED BY <1>7, <1>9, <1>10 DEF o, q, c, n

(* The members of an output, and its length.                               *)
LEMMA OutputType ==
    ASSUME NEW out \in Outputs
    PROVE  /\ out.amount \in Seq(Octets) /\ Len(out.amount) = AmountSize
           /\ out.script \in Seq(Octets)
           /\ SerializeOutput(out) \in Seq(Octets)
           /\ Len(SerializeOutput(out)) = AmountSize + Len(Sized(out.script))
<1>1. out.amount \in [1..AmountSize -> Octets] /\ out.script \in Seq(Octets)
  BY DEF Outputs
<1>2. out.amount \in Seq(Octets) /\ Len(out.amount) = AmountSize
  BY <1>1, SizeFacts, FixedBytes
<1>3. Sized(out.script) \in Seq(Octets)
  BY <1>1, SizedType
<1>4. out.amount \o Sized(out.script) \in Seq(Octets) /\ Len(out.amount \o Sized(out.script)) = Len(out.amount) + Len(Sized(out.script))
  BY <1>2, <1>3, ConcatProperties
<1> QED BY <1>1, <1>2, <1>4 DEF SerializeOutput

(* Where the members of an output lie.                                     *)
LEMMA OutputAt ==
    ASSUME NEW out \in Outputs, NEW data \in Seq(Octets), NEW at \in Nat, Lies(data, at, SerializeOutput(out))
    PROVE  /\ Lies(data, at, out.amount)
           /\ Lies(data, at + AmountSize, CompactSizeEncode(Len(out.script)))
           /\ Lies(data, at + AmountSize + Len(CompactSizeEncode(Len(out.script))), out.script)
<1>1. out.amount \in Seq(Octets) /\ Len(out.amount) = AmountSize /\ out.script \in Seq(Octets)
  BY OutputType
<1>2. Sized(out.script) \in Seq(Octets)
  BY <1>1, SizedType
<1>3. Lies(data, at, out.amount \o Sized(out.script))
  BY DEF SerializeOutput
<1>4. Lies(data, at, out.amount) /\ Lies(data, at + Len(out.amount), Sized(out.script))
  BY <1>1, <1>2, <1>3, LiesConcat
<1>5. at + AmountSize \in Nat /\ Lies(data, at + AmountSize, Sized(out.script))
  BY <1>1, <1>4, SizeFacts
<1> QED BY <1>1, <1>4, <1>5, SizedAt

(* The serialized elements of a sequence. *)
InBytes(s) == [i \in DOMAIN s |-> SerializeInput(s[i])]

(* The serialized inputs.                                                  *)
LEMMA InBytesType ==
    ASSUME NEW s \in Seq(Inputs)
    PROVE  /\ InBytes(s) \in Seq(Seq(Octets)) /\ Len(InBytes(s)) = Len(s)
           /\ FlattenSeq(InBytes(s)) \in Seq(Octets)
           /\ \A i \in 1..Len(s) : InBytes(s)[i] = SerializeInput(s[i])
<1>1. ASSUME NEW i \in 1..Len(s) PROVE SerializeInput(s[i]) \in Seq(Octets)
  <2>1. s[i] \in Inputs
    OBVIOUS
  <2> QED BY <2>1, InputType
<1>2. InBytes(s) \in [1..Len(s) -> Seq(Octets)] /\ Len(s) \in Nat
  <2>1. DOMAIN s = 1..Len(s)
    OBVIOUS
  <2> QED BY <1>1, <2>1 DEF InBytes
<1>3. InBytes(s) \in Seq(Seq(Octets)) /\ Len(InBytes(s)) = Len(s)
  BY <1>2, FixedBytes
<1>4. FlattenSeq(InBytes(s)) \in Seq(Octets)
  BY <1>3, FlattenType
<1>5. \A i \in 1..Len(s) : InBytes(s)[i] = SerializeInput(s[i])
  BY DEF InBytes
<1> QED BY <1>3, <1>4, <1>5

OutBytes(s) == [i \in DOMAIN s |-> SerializeOutput(s[i])]

(* The serialized outputs.                                                 *)
LEMMA OutBytesType ==
    ASSUME NEW s \in Seq(Outputs)
    PROVE  /\ OutBytes(s) \in Seq(Seq(Octets)) /\ Len(OutBytes(s)) = Len(s)
           /\ FlattenSeq(OutBytes(s)) \in Seq(Octets)
           /\ \A i \in 1..Len(s) : OutBytes(s)[i] = SerializeOutput(s[i])
<1>1. ASSUME NEW i \in 1..Len(s) PROVE SerializeOutput(s[i]) \in Seq(Octets)
  <2>1. s[i] \in Outputs
    OBVIOUS
  <2> QED BY <2>1, OutputType
<1>2. OutBytes(s) \in [1..Len(s) -> Seq(Octets)] /\ Len(s) \in Nat
  <2>1. DOMAIN s = 1..Len(s)
    OBVIOUS
  <2> QED BY <1>1, <2>1 DEF OutBytes
<1>3. OutBytes(s) \in Seq(Seq(Octets)) /\ Len(OutBytes(s)) = Len(s)
  BY <1>2, FixedBytes
<1>4. FlattenSeq(OutBytes(s)) \in Seq(Octets)
  BY <1>3, FlattenType
<1>5. \A i \in 1..Len(s) : OutBytes(s)[i] = SerializeOutput(s[i])
  BY DEF OutBytes
<1> QED BY <1>3, <1>4, <1>5

ItemBytes(s) == [i \in DOMAIN s |-> Sized(s[i])]

(* The serialized items of a witness.                                      *)
LEMMA ItemBytesType ==
    ASSUME NEW s \in Seq(Seq(Octets))
    PROVE  /\ ItemBytes(s) \in Seq(Seq(Octets)) /\ Len(ItemBytes(s)) = Len(s)
           /\ FlattenSeq(ItemBytes(s)) \in Seq(Octets)
           /\ \A i \in 1..Len(s) : ItemBytes(s)[i] = Sized(s[i])
<1>1. ASSUME NEW i \in 1..Len(s) PROVE Sized(s[i]) \in Seq(Octets)
  <2>1. s[i] \in Seq(Octets)
    OBVIOUS
  <2> QED BY <2>1, SizedType
<1>2. ItemBytes(s) \in [1..Len(s) -> Seq(Octets)] /\ Len(s) \in Nat
  <2>1. DOMAIN s = 1..Len(s)
    OBVIOUS
  <2> QED BY <1>1, <2>1 DEF ItemBytes
<1>3. ItemBytes(s) \in Seq(Seq(Octets)) /\ Len(ItemBytes(s)) = Len(s)
  BY <1>2, FixedBytes
<1>4. FlattenSeq(ItemBytes(s)) \in Seq(Octets)
  BY <1>3, FlattenType
<1>5. \A i \in 1..Len(s) : ItemBytes(s)[i] = Sized(s[i])
  BY DEF ItemBytes
<1> QED BY <1>3, <1>4, <1>5

(* A witness is its count and its items.                                   *)
LEMMA WitnessType ==
    ASSUME NEW w \in Seq(Seq(Octets))
    PROVE  /\ SerializeWitness(w) \in Seq(Octets)
           /\ Len(SerializeWitness(w)) = Len(CompactSizeEncode(Len(w))) + Len(FlattenSeq(ItemBytes(w)))
<1>1. SerializeWitness(w) = CompactSizeEncode(Len(w)) \o FlattenSeq(ItemBytes(w))
  BY DEF SerializeWitness, Counted, ItemBytes
<1>2. Len(w) \in Nat
  OBVIOUS
<1>3. CompactSizeEncode(Len(w)) \in Seq(Octets)
  BY <1>2, CompactSizeType
<1>4. FlattenSeq(ItemBytes(w)) \in Seq(Octets)
  BY ItemBytesType
<1> QED BY <1>1, <1>3, <1>4, ConcatProperties

(* Where they lie.                                                         *)
LEMMA WitnessAt ==
    ASSUME NEW w \in Seq(Seq(Octets)), NEW data \in Seq(Octets), NEW at \in Nat, Lies(data, at, SerializeWitness(w))
    PROVE  /\ Lies(data, at, CompactSizeEncode(Len(w)))
           /\ Lies(data, at + Len(CompactSizeEncode(Len(w))), FlattenSeq(ItemBytes(w)))
<1>1. Lies(data, at, CompactSizeEncode(Len(w)) \o FlattenSeq(ItemBytes(w)))
  BY DEF SerializeWitness, Counted, ItemBytes
<1>2. Len(w) \in Nat
  OBVIOUS
<1>3. CompactSizeEncode(Len(w)) \in Seq(Octets)
  BY <1>2, CompactSizeType
<1>4. FlattenSeq(ItemBytes(w)) \in Seq(Octets)
  BY ItemBytesType
<1> QED BY <1>1, <1>3, <1>4, LiesConcat

WitBytes(s) == [i \in DOMAIN s |-> SerializeWitness(s[i])]

(* The serialized witnesses.                                               *)
LEMMA WitBytesType ==
    ASSUME NEW s \in Seq(Seq(Seq(Octets)))
    PROVE  /\ WitBytes(s) \in Seq(Seq(Octets)) /\ Len(WitBytes(s)) = Len(s)
           /\ FlattenSeq(WitBytes(s)) \in Seq(Octets)
           /\ \A i \in 1..Len(s) : WitBytes(s)[i] = SerializeWitness(s[i])
<1>1. ASSUME NEW i \in 1..Len(s) PROVE SerializeWitness(s[i]) \in Seq(Octets)
  <2>1. s[i] \in Seq(Seq(Octets))
    OBVIOUS
  <2> QED BY <2>1, WitnessType
<1>2. WitBytes(s) \in [1..Len(s) -> Seq(Octets)] /\ Len(s) \in Nat
  <2>1. DOMAIN s = 1..Len(s)
    OBVIOUS
  <2> QED BY <1>1, <2>1 DEF WitBytes
<1>3. WitBytes(s) \in Seq(Seq(Octets)) /\ Len(WitBytes(s)) = Len(s)
  BY <1>2, FixedBytes
<1>4. FlattenSeq(WitBytes(s)) \in Seq(Octets)
  BY <1>3, FlattenType
<1>5. \A i \in 1..Len(s) : WitBytes(s)[i] = SerializeWitness(s[i])
  BY DEF WitBytes
<1> QED BY <1>3, <1>4, <1>5

(* The members of a transaction: at least one input, a witness for each or *)
(* none.                                                                   *)
LEMMA TransactionFacts ==
    ASSUME NEW t \in Transactions
    PROVE  /\ t.version \in Seq(Octets) /\ Len(t.version) = VersionSize
           /\ t.locktime \in Seq(Octets) /\ Len(t.locktime) = LocktimeSize
           /\ t.ins \in Seq(Inputs) /\ t.outs \in Seq(Outputs) /\ t.wits \in Seq(Seq(Seq(Octets)))
           /\ t.segwit \in BOOLEAN /\ Len(t.ins) > 0
           /\ t.segwit => Len(t.wits) = Len(t.ins)
           /\ ~t.segwit => t.wits = << >>
<1>1. /\ t.version \in [1..VersionSize -> Octets] /\ t.locktime \in [1..LocktimeSize -> Octets]
      /\ t.ins \in Seq(Inputs) /\ t.outs \in Seq(Outputs) /\ t.wits \in Seq(Seq(Seq(Octets)))
      /\ t.segwit \in BOOLEAN /\ Len(t.ins) > 0
      /\ Len(t.wits) = IF t.segwit THEN Len(t.ins) ELSE 0
  BY DEF Transactions
<1>2. t.version \in Seq(Octets) /\ Len(t.version) = VersionSize
  BY <1>1, SizeFacts, FixedBytes
<1>3. t.locktime \in Seq(Octets) /\ Len(t.locktime) = LocktimeSize
  BY <1>1, SizeFacts, FixedBytes
<1>4. t.segwit => Len(t.wits) = Len(t.ins)
  BY <1>1
<1>5. ~t.segwit => t.wits = << >>
  <2>1. ~t.segwit => Len(t.wits) = 0
    BY <1>1
  <2> QED BY <1>1, <2>1
<1> QED BY <1>1, <1>2, <1>3, <1>4, <1>5, Zenon

(* The places of the parts of a transaction, from its first byte. *)
Mark(t) == IF t.segwit THEN <<0, 1>> ELSE << >>
InCountAt(t) == VersionSize + Len(Mark(t))
InsAt(t) == InCountAt(t) + Len(CompactSizeEncode(Len(t.ins)))
OutCountAt(t) == InsAt(t) + Len(FlattenSeq(InBytes(t.ins)))
OutsAt(t) == OutCountAt(t) + Len(CompactSizeEncode(Len(t.outs)))
WitsAt(t) == OutsAt(t) + Len(FlattenSeq(OutBytes(t.outs)))
LockAt(t) == WitsAt(t) + Len(FlattenSeq(WitBytes(t.wits)))

(* The parts of a transaction are bytes.                                   *)
LEMMA TxPartsType ==
    ASSUME NEW t \in Transactions
    PROVE  /\ Mark(t) \in Seq(Octets)
           /\ CompactSizeEncode(Len(t.ins)) \in Seq(Octets) /\ CompactSizeEncode(Len(t.outs)) \in Seq(Octets)
           /\ FlattenSeq(InBytes(t.ins)) \in Seq(Octets) /\ FlattenSeq(OutBytes(t.outs)) \in Seq(Octets)
           /\ FlattenSeq(WitBytes(t.wits)) \in Seq(Octets)
<1>1. t.ins \in Seq(Inputs) /\ t.outs \in Seq(Outputs) /\ t.wits \in Seq(Seq(Seq(Octets)))
  BY TransactionFacts
<1>2. Mark(t) \in Seq(Octets)
  <2>1. 0 \in Octets /\ 1 \in Octets
    BY BaseAssumption DEF Octets
  <2>2. <<0, 1>> \in Seq(Octets) /\ << >> \in Seq(Octets)
    BY <2>1
  <2> QED BY <2>2 DEF Mark
<1>3. Len(t.ins) \in Nat /\ Len(t.outs) \in Nat
  BY <1>1
<1>4. CompactSizeEncode(Len(t.ins)) \in Seq(Octets) /\ CompactSizeEncode(Len(t.outs)) \in Seq(Octets)
  BY <1>3, CompactSizeType
<1>5. FlattenSeq(InBytes(t.ins)) \in Seq(Octets)
  BY <1>1, InBytesType
<1>6. FlattenSeq(OutBytes(t.outs)) \in Seq(Octets)
  BY <1>1, OutBytesType
<1>7. FlattenSeq(WitBytes(t.wits)) \in Seq(Octets)
  BY <1>1, WitBytesType
<1> QED BY <1>2, <1>4, <1>5, <1>6, <1>7

(* Marker and witnesses are empty without a witness, so one form serves    *)
(* both.                                                                   *)
LEMMA SerializeTxIs ==
    ASSUME NEW t \in Transactions
    PROVE  SerializeTx(t) =
             (((t.version \o Mark(t))
               \o ((CompactSizeEncode(Len(t.ins)) \o FlattenSeq(InBytes(t.ins)))
                   \o (CompactSizeEncode(Len(t.outs)) \o FlattenSeq(OutBytes(t.outs)))))
              \o FlattenSeq(WitBytes(t.wits))) \o t.locktime
<1> DEFINE V == t.version
           B == SerializeBase(t)
           W == FlattenSeq(WitBytes(t.wits))
           I == CompactSizeEncode(Len(t.ins)) \o FlattenSeq(InBytes(t.ins))
           O == CompactSizeEncode(Len(t.outs)) \o FlattenSeq(OutBytes(t.outs))
<1>1. B = I \o O
  BY DEF SerializeBase, Counted, InBytes, OutBytes
<1>2. V \in Seq(Octets) /\ I \in Seq(Octets) /\ O \in Seq(Octets)
  BY TransactionFacts, TxPartsType, ConcatProperties
<1>3. B \in Seq(Octets)
  BY <1>1, <1>2, ConcatProperties
<1>4. CASE t.segwit
  BY <1>1, <1>4 DEF SerializeTx, Mark, WitBytes
<1>5. CASE ~t.segwit
  <2>1. t.wits = << >> /\ Mark(t) = << >>
    BY <1>5, TransactionFacts DEF Mark
  <2>2. WitBytes(t.wits) = << >>
    <3>1. << >> \in Seq(Seq(Seq(Octets))) /\ Len(<< >>) = 0
      OBVIOUS
    <3>2. WitBytes(<< >>) \in Seq(Seq(Octets)) /\ Len(WitBytes(<< >>)) = 0
      BY <3>1, WitBytesType
    <3>3. WitBytes(<< >>) = << >>
      BY <3>2
    <3> QED BY <2>1, <3>3
  <2>3. W = << >>
    BY <2>2, FlattenEmpty
  <2>4. SerializeTx(t) = (V \o B) \o t.locktime
    BY <1>5 DEF SerializeTx
  <2> HIDE DEF V, B, W, I, O
  <2>5. V \o << >> = V /\ V \o B \in Seq(Octets)
    BY <1>2, <1>3, ConcatProperties, ConcatEmptySeq
  <2>6. (V \o B) \o << >> = V \o B
    BY <2>5, ConcatEmptySeq
  <2> QED BY <1>1, <2>1, <2>3, <2>4, <2>5, <2>6 DEF V, B, W, I, O
<1> QED BY <1>4, <1>5

(* The places are naturals.                                                *)
LEMMA PlaceType ==
    ASSUME NEW t \in Transactions
    PROVE  /\ InCountAt(t) \in Nat /\ InsAt(t) \in Nat /\ OutCountAt(t) \in Nat /\ OutsAt(t) \in Nat
           /\ WitsAt(t) \in Nat /\ LockAt(t) \in Nat
<1>1. /\ Len(Mark(t)) \in Nat
      /\ Len(CompactSizeEncode(Len(t.ins))) \in Nat /\ Len(CompactSizeEncode(Len(t.outs))) \in Nat
      /\ Len(FlattenSeq(InBytes(t.ins))) \in Nat /\ Len(FlattenSeq(OutBytes(t.outs))) \in Nat
      /\ Len(FlattenSeq(WitBytes(t.wits))) \in Nat
  BY TxPartsType, LenProperties
<1>2. InCountAt(t) \in Nat
  BY <1>1, SizeFacts DEF InCountAt
<1>3. InsAt(t) \in Nat
  BY <1>1, <1>2 DEF InsAt
<1>4. OutCountAt(t) \in Nat
  BY <1>1, <1>3 DEF OutCountAt
<1>5. OutsAt(t) \in Nat
  BY <1>1, <1>4 DEF OutsAt
<1>6. WitsAt(t) \in Nat
  BY <1>1, <1>5 DEF WitsAt
<1>7. LockAt(t) \in Nat
  BY <1>1, <1>6 DEF LockAt
<1> QED BY <1>2, <1>3, <1>4, <1>5, <1>6, <1>7

(* The length of a transaction.                                            *)
LEMMA TxType ==
    ASSUME NEW t \in Transactions
    PROVE  SerializeTx(t) \in Seq(Octets) /\ Len(SerializeTx(t)) = LockAt(t) + LocktimeSize
<1> DEFINE V == t.version
           M == Mark(t)
           C == CompactSizeEncode(Len(t.ins))
           I == FlattenSeq(InBytes(t.ins))
           D == CompactSizeEncode(Len(t.outs))
           O == FlattenSeq(OutBytes(t.outs))
           W == FlattenSeq(WitBytes(t.wits))
           L == t.locktime
<1>1. V \in Seq(Octets) /\ L \in Seq(Octets) /\ Len(V) = VersionSize /\ Len(L) = LocktimeSize
  BY TransactionFacts
<1>2. M \in Seq(Octets) /\ C \in Seq(Octets) /\ D \in Seq(Octets) /\ I \in Seq(Octets) /\ O \in Seq(Octets) /\ W \in Seq(Octets)
  BY TxPartsType
<1>3. SerializeTx(t) = (((V \o M) \o ((C \o I) \o (D \o O))) \o W) \o L
  BY SerializeTxIs
<1>4. LockAt(t) = VersionSize + Len(M) + Len(C) + Len(I) + Len(D) + Len(O) + Len(W)
  BY DEF LockAt, WitsAt, OutsAt, OutCountAt, InsAt, InCountAt
<1> HIDE DEF V, M, C, I, D, O, W, L
<1>5. V \o M \in Seq(Octets) /\ Len(V \o M) = Len(V) + Len(M)
  BY <1>1, <1>2, ConcatProperties
<1>6. C \o I \in Seq(Octets) /\ Len(C \o I) = Len(C) + Len(I)
  BY <1>2, ConcatProperties
<1>7. D \o O \in Seq(Octets) /\ Len(D \o O) = Len(D) + Len(O)
  BY <1>2, ConcatProperties
<1> DEFINE B == (C \o I) \o (D \o O)
<1>8. B \in Seq(Octets) /\ Len(B) = Len(C \o I) + Len(D \o O)
  BY <1>6, <1>7, ConcatProperties
<1> HIDE DEF B
<1> DEFINE X == (V \o M) \o B
<1>9. X \in Seq(Octets) /\ Len(X) = Len(V \o M) + Len(B)
  BY <1>5, <1>8, ConcatProperties
<1> HIDE DEF X
<1>10. X \o W \in Seq(Octets) /\ Len(X \o W) = Len(X) + Len(W)
  BY <1>2, <1>9, ConcatProperties
<1>11. (X \o W) \o L \in Seq(Octets) /\ Len((X \o W) \o L) = Len(X \o W) + Len(L)
  BY <1>1, <1>10, ConcatProperties
<1>12. SerializeTx(t) = (X \o W) \o L
  BY <1>3 DEF X, B
<1>13. Len(V) \in Nat /\ Len(M) \in Nat /\ Len(C) \in Nat /\ Len(I) \in Nat /\ Len(D) \in Nat /\ Len(O) \in Nat /\ Len(W) \in Nat /\ Len(L) \in Nat
  BY <1>1, <1>2, LenProperties
<1>14. Len(SerializeTx(t)) = Len(V) + Len(M) + ((Len(C) + Len(I)) + (Len(D) + Len(O))) + Len(W) + Len(L)
  BY <1>5, <1>6, <1>7, <1>8, <1>9, <1>10, <1>11, <1>12, Zenon
<1>15. Len(SerializeTx(t)) = LockAt(t) + LocktimeSize
  <2> DEFINE v == Len(V)
             m == Len(M)
             c == Len(C)
             i == Len(I)
             d == Len(D)
             o == Len(O)
             w == Len(W)
             l == Len(L)
  <2>1. v \in Nat /\ m \in Nat /\ c \in Nat /\ i \in Nat /\ d \in Nat /\ o \in Nat /\ w \in Nat /\ l \in Nat
    BY <1>13, Zenon
  <2>2. Len(SerializeTx(t)) = v + m + ((c + i) + (d + o)) + w + l
    BY <1>14, Zenon
  <2>3. LockAt(t) = v + m + c + i + d + o + w /\ LocktimeSize = l
    BY <1>1, <1>4, Zenon
  <2> HIDE DEF v, m, c, i, d, o, w, l
  <2> QED BY <2>1, <2>2, <2>3
<1> QED BY <1>11, <1>12, <1>15

(* Where the parts of a transaction lie. *)
LEMMA TxAt ==
    ASSUME NEW t \in Transactions, NEW data \in Seq(Octets), NEW at \in Nat, Lies(data, at, SerializeTx(t))
    PROVE  /\ Lies(data, at, t.version)
           /\ Lies(data, at + VersionSize, Mark(t))
           /\ Lies(data, at + InCountAt(t), CompactSizeEncode(Len(t.ins)))
           /\ Lies(data, at + InsAt(t), FlattenSeq(InBytes(t.ins)))
           /\ Lies(data, at + OutCountAt(t), CompactSizeEncode(Len(t.outs)))
           /\ Lies(data, at + OutsAt(t), FlattenSeq(OutBytes(t.outs)))
           /\ Lies(data, at + WitsAt(t), FlattenSeq(WitBytes(t.wits)))
           /\ Lies(data, at + LockAt(t), t.locktime)
<1> DEFINE V == t.version
           M == Mark(t)
           C == CompactSizeEncode(Len(t.ins))
           I == FlattenSeq(InBytes(t.ins))
           D == CompactSizeEncode(Len(t.outs))
           O == FlattenSeq(OutBytes(t.outs))
           W == FlattenSeq(WitBytes(t.wits))
           L == t.locktime
<1>1. V \in Seq(Octets) /\ L \in Seq(Octets) /\ Len(V) = VersionSize
  BY TransactionFacts
<1>2. M \in Seq(Octets) /\ C \in Seq(Octets) /\ D \in Seq(Octets) /\ I \in Seq(Octets) /\ O \in Seq(Octets) /\ W \in Seq(Octets)
  BY TxPartsType
<1>3. SerializeTx(t) = (((V \o M) \o ((C \o I) \o (D \o O))) \o W) \o L
  BY SerializeTxIs
<1>4. /\ InCountAt(t) = VersionSize + Len(M) /\ InsAt(t) = InCountAt(t) + Len(C) /\ OutCountAt(t) = InsAt(t) + Len(I)
      /\ OutsAt(t) = OutCountAt(t) + Len(D) /\ WitsAt(t) = OutsAt(t) + Len(O) /\ LockAt(t) = WitsAt(t) + Len(W)
  BY DEF LockAt, WitsAt, OutsAt, OutCountAt, InsAt, InCountAt
<1> HIDE DEF V, M, C, I, D, O, W, L
<1>5. V \o M \in Seq(Octets) /\ Len(V \o M) = Len(V) + Len(M)
  BY <1>1, <1>2, ConcatProperties
<1>6. C \o I \in Seq(Octets) /\ Len(C \o I) = Len(C) + Len(I)
  BY <1>2, ConcatProperties
<1>7. D \o O \in Seq(Octets) /\ Len(D \o O) = Len(D) + Len(O)
  BY <1>2, ConcatProperties
<1> DEFINE B == (C \o I) \o (D \o O)
<1>8. B \in Seq(Octets) /\ Len(B) = Len(C \o I) + Len(D \o O)
  BY <1>6, <1>7, ConcatProperties
<1> HIDE DEF B
<1> DEFINE X == (V \o M) \o B
<1>9. X \in Seq(Octets) /\ Len(X) = Len(V \o M) + Len(B)
  BY <1>5, <1>8, ConcatProperties
<1> HIDE DEF X
<1>10. X \o W \in Seq(Octets) /\ Len(X \o W) = Len(X) + Len(W)
  BY <1>2, <1>9, ConcatProperties
<1>11. Lies(data, at, (X \o W) \o L)
  BY <1>3 DEF X, B
<1>12. Len(V) \in Nat /\ Len(M) \in Nat /\ Len(C) \in Nat /\ Len(I) \in Nat /\ Len(D) \in Nat /\ Len(O) \in Nat /\ Len(W) \in Nat
  BY <1>1, <1>2, LenProperties
<1>13. Lies(data, at, X \o W) /\ Lies(data, at + Len(X \o W), L)
  BY <1>1, <1>10, <1>11, LiesConcat
<1>14. Lies(data, at, X) /\ Lies(data, at + Len(X), W)
  BY <1>2, <1>9, <1>13, LiesConcat
<1>15. Lies(data, at, V \o M) /\ Lies(data, at + Len(V \o M), B)
  <2>1. Lies(data, at, (V \o M) \o B)
    BY <1>14 DEF X
  <2> QED BY <2>1, <1>5, <1>8, LiesConcat
<1>16. Lies(data, at, V) /\ Lies(data, at + Len(V), M)
  BY <1>1, <1>2, <1>15, LiesConcat
<1> DEFINE p == at + Len(V \o M)
<1>17. p \in Nat /\ p = at + InCountAt(t)
  <2>1. Len(V \o M) = InCountAt(t)
    BY <1>1, <1>4, <1>5, Zenon
  <2>2. InCountAt(t) \in Nat
    BY PlaceType
  <2> QED BY <2>1, <2>2
<1>18. Lies(data, p, C \o I) /\ Lies(data, p + Len(C \o I), D \o O)
  <2>1. Lies(data, p, (C \o I) \o (D \o O))
    BY <1>15 DEF B
  <2> HIDE DEF p
  <2> QED BY <2>1, <1>6, <1>7, <1>17, LiesConcat
<1> HIDE DEF p
<1>19. Lies(data, p, C) /\ Lies(data, p + Len(C), I)
  BY <1>2, <1>17, <1>18, LiesConcat
<1>20. p + Len(C \o I) \in Nat
  BY <1>6, <1>12, <1>17
<1>21. Lies(data, p + Len(C \o I), D) /\ Lies(data, p + Len(C \o I) + Len(D), O)
  BY <1>2, <1>18, <1>20, LiesConcat
<1>22. InCountAt(t) \in Nat
  BY PlaceType
<1>23. /\ p + Len(C) = at + InsAt(t) /\ p + Len(C \o I) = at + OutCountAt(t)
       /\ p + Len(C \o I) + Len(D) = at + OutsAt(t) /\ at + Len(X) = at + WitsAt(t)
       /\ at + Len(X \o W) = at + LockAt(t)
  <2> DEFINE v == Len(V)
             m == Len(M)
             c == Len(C)
             i == Len(I)
             d == Len(D)
             o == Len(O)
             w == Len(W)
  <2>1. v \in Nat /\ m \in Nat /\ c \in Nat /\ i \in Nat /\ d \in Nat /\ o \in Nat /\ w \in Nat
    BY <1>12
  <2>2. /\ Len(C \o I) = c + i /\ Len(X) = (v + m) + ((c + i) + (d + o)) /\ Len(X \o W) = Len(X) + w
        /\ InCountAt(t) = v + m
    BY <1>1, <1>4, <1>5, <1>6, <1>7, <1>8, <1>9, <1>10, Zenon
  <2>3. /\ InsAt(t) = InCountAt(t) + c /\ OutCountAt(t) = InsAt(t) + i
        /\ OutsAt(t) = OutCountAt(t) + d /\ WitsAt(t) = OutsAt(t) + o /\ LockAt(t) = WitsAt(t) + w
    BY <1>4
  <2> HIDE DEF v, m, c, i, d, o, w
  <2>4. p + c = at + InsAt(t) /\ p + (c + i) = at + OutCountAt(t) /\ p + (c + i) + d = at + OutsAt(t)
    BY <2>1, <2>2, <2>3, <1>17
  <2>5. at + Len(X) = at + WitsAt(t) /\ at + Len(X \o W) = at + LockAt(t)
    BY <2>1, <2>2, <2>3
  <2> QED BY <2>2, <2>4, <2>5 DEF c, i, d
<1>24. /\ Lies(data, at, V) /\ Lies(data, at + VersionSize, M) /\ Lies(data, at + InCountAt(t), C)
       /\ Lies(data, at + InsAt(t), I) /\ Lies(data, at + OutCountAt(t), D) /\ Lies(data, at + OutsAt(t), O)
       /\ Lies(data, at + WitsAt(t), W) /\ Lies(data, at + LockAt(t), L)
  BY <1>1, <1>13, <1>14, <1>16, <1>17, <1>19, <1>21, <1>23, Zenon
<1> QED BY <1>24 DEF V, M, C, I, D, O, W, L

TxBytes(s) == [i \in DOMAIN s |-> SerializeTx(s[i])]

(* The serialized transactions.                                            *)
LEMMA TxBytesType ==
    ASSUME NEW s \in Seq(Transactions)
    PROVE  /\ TxBytes(s) \in Seq(Seq(Octets)) /\ Len(TxBytes(s)) = Len(s)
           /\ FlattenSeq(TxBytes(s)) \in Seq(Octets)
           /\ \A i \in 1..Len(s) : TxBytes(s)[i] = SerializeTx(s[i])
<1>1. ASSUME NEW i \in 1..Len(s) PROVE SerializeTx(s[i]) \in Seq(Octets)
  <2>1. s[i] \in Transactions
    OBVIOUS
  <2> QED BY <2>1, TxType
<1>2. TxBytes(s) \in [1..Len(s) -> Seq(Octets)] /\ Len(s) \in Nat
  <2>1. DOMAIN s = 1..Len(s)
    OBVIOUS
  <2> QED BY <1>1, <2>1 DEF TxBytes
<1>3. TxBytes(s) \in Seq(Seq(Octets)) /\ Len(TxBytes(s)) = Len(s)
  BY <1>2, FixedBytes
<1>4. FlattenSeq(TxBytes(s)) \in Seq(Octets)
  BY <1>3, FlattenType
<1>5. \A i \in 1..Len(s) : TxBytes(s)[i] = SerializeTx(s[i])
  BY DEF TxBytes
<1> QED BY <1>3, <1>4, <1>5

(* Where the first transaction lies. *)
TxsAt(b) == HeaderSize + Len(CompactSizeEncode(Len(b.txs)))

(* The parts of a block and where they lie.                                *)
LEMMA BlockType ==
    ASSUME NEW b \in Blocks
    PROVE  /\ SerializeHeader(b.header) \in Seq(Octets) /\ Len(SerializeHeader(b.header)) = HeaderSize /\ b.txs \in Seq(Transactions)
           /\ SerializeBlock(b) \in Seq(Octets) /\ TxsAt(b) \in Nat
           /\ Len(SerializeBlock(b)) = TxsAt(b) + Len(FlattenSeq(TxBytes(b.txs)))
           /\ Lies(SerializeBlock(b), 0, SerializeHeader(b.header))
           /\ Lies(SerializeBlock(b), HeaderSize, CompactSizeEncode(Len(b.txs)))
           /\ Lies(SerializeBlock(b), TxsAt(b), FlattenSeq(TxBytes(b.txs)))
<1> DEFINE H == SerializeHeader(b.header)
           C == CompactSizeEncode(Len(b.txs))
           F == FlattenSeq(TxBytes(b.txs))
           s == SerializeBlock(b)
<1>1. b.header \in Headers /\ b.txs \in Seq(Transactions)
  BY DEF Blocks
<1>2. H \in Seq(Octets) /\ Len(H) = HeaderSize /\ HeaderSize \in Nat
  BY <1>1, SizeFacts, HeaderType
<1>3. C \in Seq(Octets)
  <2>1. Len(b.txs) \in Nat
    BY <1>1
  <2> QED BY <2>1, CompactSizeType
<1>4. F \in Seq(Octets)
  BY <1>1, TxBytesType
<1>5. s = H \o (C \o F)
  BY DEF SerializeBlock, Counted, TxBytes
<1>6. TxsAt(b) = HeaderSize + Len(C)
  BY DEF TxsAt
<1> HIDE DEF H, C, F, s
<1>7. C \o F \in Seq(Octets) /\ Len(C \o F) = Len(C) + Len(F) /\ Len(C) \in Nat /\ Len(F) \in Nat
  BY <1>3, <1>4, ConcatProperties
<1>8. s \in Seq(Octets) /\ Len(s) = Len(H) + Len(C \o F)
  BY <1>2, <1>5, <1>7, ConcatProperties
<1>9. Lies(s, 0, H) /\ Lies(s, HeaderSize, C \o F)
  BY <1>2, <1>5, <1>7, LiesFirst
<1>10. Lies(s, HeaderSize, C) /\ Lies(s, HeaderSize + Len(C), F)
  BY <1>2, <1>3, <1>4, <1>8, <1>9, LiesConcat
<1>11. TxsAt(b) \in Nat /\ Len(s) = TxsAt(b) + Len(F)
  BY <1>2, <1>6, <1>7, <1>8
<1> QED BY <1>1, <1>2, <1>6, <1>8, <1>9, <1>10, <1>11 DEF H, C, F, s

----------------------------------------------------------------------------
(* The file, and the buffer *)

(***************************************************************************)
(* The file and the buffer.                                                *)
(***************************************************************************)
(* The size in front of a block and the block behind it.                   *)
LEMMA PrefixedIs ==
    ASSUME NEW b \in Blocks
    PROVE  /\ Prefixed(b) \in Seq(Octets) /\ Len(Prefixed(b)) = 8 + Len(SerializeBlock(b))
           /\ Lies(Prefixed(b), 4, Digits(Len(SerializeBlock(b)), 4))
           /\ Lies(Prefixed(b), 8, SerializeBlock(b))
<1> DEFINE s == SerializeBlock(b)
           D == Digits(1, 4)
           Z == Digits(Len(s), 4)
           P == Prefixed(b)
<1>1. P = (D \o Z) \o s
  BY DEF Prefixed
<1>2. s \in Seq(Octets) /\ Len(s) \in Nat
  BY BlockType, LenProperties
<1> HIDE DEF s
<1>3. D \in Seq(Octets) /\ Len(D) = 4 /\ Z \in Seq(Octets) /\ Len(Z) = 4
  <2>1. 1 \in Nat /\ 4 \in Nat
    OBVIOUS
  <2> QED BY <2>1, <1>2, DigitsType, Zenon
<1> HIDE DEF D, Z, P
<1>4. D \o Z \in Seq(Octets) /\ Len(D \o Z) = 8
  <2>1. D \o Z \in Seq(Octets) /\ Len(D \o Z) = Len(D) + Len(Z)
    BY <1>3, ConcatProperties
  <2>2. 4 + 4 = 8
    OBVIOUS
  <2> QED BY <2>1, <2>2, <1>3, Zenon
<1>5. P \in Seq(Octets) /\ Len(P) = Len(D \o Z) + Len(s)
  BY <1>1, <1>2, <1>4, ConcatProperties
<1>6. Lies(P, 0, D \o Z) /\ Lies(P, Len(D \o Z), s)
  BY <1>1, <1>2, <1>4, LiesFirst
<1>7. Lies(P, 0 + Len(D), Z)
  <2>1. 0 \in Nat
    OBVIOUS
  <2> QED BY <2>1, <1>3, <1>5, <1>6, LiesConcat
<1>8. 0 + 4 = 4
  OBVIOUS
<1>9. P \in Seq(Octets) /\ Len(P) = 8 + Len(s) /\ Lies(P, 4, Z) /\ Lies(P, 8, s)
  BY <1>3, <1>4, <1>5, <1>6, <1>7, <1>8, Zenon
<1> QED BY <1>9 DEF P, Z, s

(* What is read at a place of the file is what was stored there before the key was applied, whatever the key. *)
LEMMA UnxorStored ==
    ASSUME Given, NEW i \in 1..Len(Prefixed(block)), NEW at, at = entry.offset - 8 + i - 1
    PROVE  Unxor(FileByte(at), at) = Prefixed(block)[i]
<1> DEFINE P == Prefixed(block)
           o == entry.offset
           k == xorKey[(at % 8) + 1]
<1>1. block \in Blocks
  BY GivenFacts
<1>2. P \in Seq(Octets)
  BY <1>1, PrefixedIs
<1>3. o \in Nat /\ o >= 8
  <2>1. /\ entry \in [{"version", "height", "status", "file", "offset", "undo"} -> 0..(U32Range - 1)]
        /\ entry.offset >= 8
    BY GivenFacts
  <2>2. entry.offset \in 0..(U32Range - 1)
    BY <2>1
  <2> QED BY <2>1, <2>2, Ranges
<1>4. xorKey \in [1..8 -> Octets]
  BY GivenFacts
<1>5. file = [j \in DOMAIN P |-> ByteXor(P[j], xorKey[((o - 8 + j - 1) % 8) + 1])]
  BY DEF Given, OnDisk
<1> HIDE DEF P, o
<1>6. Len(P) \in Nat /\ DOMAIN P = 1..Len(P) /\ i \in 1..Len(P) /\ P[i] \in Octets
  BY <1>2 DEF P
<1>7. at \in Nat /\ at - (o - 8) + 1 = i /\ at = o - 8 + i - 1
  BY <1>3, <1>6 DEF o
<1>8. FileByte(at) = file[i]
  BY <1>5, <1>6, <1>7 DEF FileByte, o
<1>9. file[i] = ByteXor(P[i], k)
  BY <1>5, <1>6, <1>7
<1>10. (at % 8) + 1 \in 1..8
  BY <1>7
<1>11. k \in Octets
  BY <1>4, <1>10
<1>12. CASE \E j \in 1..8 : xorKey[j] # 0
  <2>1. Unxor(FileByte(at), at) = ByteXor(ByteXor(P[i], k), k)
    BY <1>8, <1>9, <1>12 DEF Unxor
  <2> HIDE DEF k
  <2> QED BY <2>1, <1>6, <1>11, ByteXorAssumption DEF P
<1>13. CASE ~(\E j \in 1..8 : xorKey[j] # 0)
  <2>1. k = 0
    BY <1>10, <1>13
  <2>2. Unxor(FileByte(at), at) = ByteXor(P[i], 0)
    BY <1>8, <1>9, <1>13, <2>1 DEF Unxor
  <2>3. ByteXor(P[i], 0) = P[i]
    BY <1>6, ByteFacts, ByteXorAssumption
  <2> QED BY <2>2, <2>3 DEF P
<1> QED BY <1>12, <1>13

(* The elements of a part.                                                 *)
LEMMA SubSeqIs ==
    ASSUME NEW E, NEW s \in Seq(E), NEW m \in 1..Len(s), NEW n \in m..Len(s)
    PROVE  /\ SubSeq(s, m, n) \in Seq(E) /\ Len(SubSeq(s, m, n)) = n - m + 1
           /\ \A i \in 1..(n - m + 1) : SubSeq(s, m, n)[i] = s[m + i - 1]
<1>1. m \in Int /\ n \in Int /\ m <= n /\ \A i \in m..n : s[i] \in E
  OBVIOUS
<1> QED BY <1>1, SubSeqProperties

(* The buffer is the block, whatever the key and the offset. *)
LEMMA BufferIsBlock ==
    ASSUME RecordInv, ReadPrefix
    PROVE  buf' = SerializeBlock(block)
<1> DEFINE P == Prefixed(block)
           s == SerializeBlock(block)
           o == entry.offset
           raw == [i \in 1..8 |-> Unxor(FileByte(o - 8 + i - 1), o - 8 + i - 1)]
<1>1. Given /\ pc = "prefix" /\ RecordDecoded /\ HaveData(entry.status)
  BY DEF RecordInv, ReadPrefix
<1>2. offset = o
  BY <1>1 DEF RecordDecoded
<1>3. buf' = [i \in 1..Value(SubSeq(raw, 5, 8)) |-> Unxor(FileByte(o + i - 1), o + i - 1)]
  BY <1>2 DEF ReadPrefix
<1>4. block \in Blocks /\ Len(s) < U32Range
  BY <1>1, GivenFacts
<1>5. s \in Seq(Octets) /\ Len(s) \in Nat
  BY <1>4, BlockType, LenProperties
<1>6. P \in Seq(Octets) /\ Len(P) = 8 + Len(s) /\ Lies(P, 4, Digits(Len(s), 4)) /\ Lies(P, 8, s)
  BY <1>4, PrefixedIs
<1>7. ASSUME NEW i \in 1..Len(P) PROVE Unxor(FileByte(o - 8 + i - 1), o - 8 + i - 1) = P[i]
  BY <1>1, UnxorStored
<1>8. o \in Nat /\ o >= 8
  <2>1. /\ entry \in [{"version", "height", "status", "file", "offset", "undo"} -> 0..(U32Range - 1)]
        /\ entry.offset >= 8
    BY <1>1, GivenFacts
  <2>2. entry.offset \in 0..(U32Range - 1)
    BY <2>1
  <2> QED BY <2>1, <2>2, Ranges
<1>9. \A i \in 1..8 : i \in 1..Len(P)
  BY <1>5, <1>6
<1>10. raw = [i \in 1..8 |-> P[i]]
  BY <1>7, <1>9
<1> DEFINE Z == Digits(Len(s), 4)
<1>11. Z \in Seq(Octets) /\ Len(Z) = 4
  <2>1. 4 \in Nat
    OBVIOUS
  <2> QED BY <2>1, <1>5, DigitsType, Zenon
<1> HIDE DEF P, s, o, raw, Z
<1>12. raw \in Seq(Octets) /\ Len(raw) = 8 /\ \A i \in 1..8 : raw[i] = P[i]
  <2>1. \A i \in 1..8 : P[i] \in Octets
    BY <1>6, <1>9
  <2>2. raw \in [1..8 -> Octets] /\ 8 \in Nat
    BY <2>1, <1>10
  <2>3. raw \in Seq(Octets) /\ Len(raw) = 8
    BY <2>2, FixedBytes, Zenon
  <2> QED BY <2>3, <1>10
<1>13. SubSeq(raw, 5, 8) = Z
  <2> DEFINE q == SubSeq(raw, 5, 8)
  <2>1. q \in Seq(Octets) /\ Len(q) = 4 /\ \A i \in 1..4 : q[i] = raw[4 + i]
    <3>1. 5 \in 1..Len(raw) /\ 8 \in 5..Len(raw)
      BY <1>12
    <3>2. q \in Seq(Octets) /\ Len(q) = 8 - 5 + 1 /\ \A i \in 1..(8 - 5 + 1) : q[i] = raw[5 + i - 1]
      BY <3>1, <1>12, SubSeqIs
    <3> HIDE DEF q
    <3>3. 8 - 5 + 1 = 4 /\ 5 <= 8 /\ \A i \in 1..4 : 5 + i - 1 = 4 + i
      OBVIOUS
    <3> QED BY <3>2, <3>3
  <2> HIDE DEF q
  <2>2. ASSUME NEW i \in 1..4 PROVE q[i] = Z[i]
    <3>1. 4 + i \in 1..8 /\ raw[4 + i] = P[4 + i]
      BY <1>12
    <3>2. P[4 + i] = Z[i]
      BY <1>6, <1>11 DEF Lies, Z
    <3> QED BY <2>1, <3>1, <3>2
  <2>3. q = Z
    BY <2>1, <2>2, <1>11, SeqEqual
  <2> QED BY <2>3 DEF q
<1>14. Value(SubSeq(raw, 5, 8)) = Len(s)
  <2>1. Len(s) \in 0..(U32Range - 1)
    BY <1>4, <1>5, Ranges DEF s
  <2> QED BY <2>1, <1>13, TwoAndFour DEF Recovers, Z
<1>15. ASSUME NEW i \in 1..Len(s) PROVE Unxor(FileByte(o + i - 1), o + i - 1) = s[i]
  <2>1. 8 + i \in 1..Len(P) /\ o - 8 + (8 + i) - 1 = o + i - 1
    BY <1>5, <1>6, <1>8 DEF s, P
  <2>2. Unxor(FileByte(o + i - 1), o + i - 1) = P[8 + i]
    BY <1>7, <2>1
  <2>3. P[8 + i] = s[i]
    BY <1>6 DEF Lies, P, s
  <2> QED BY <2>2, <2>3
<1>16. buf' = [i \in 1..Len(s) |-> s[i]]
  BY <1>3, <1>14, <1>15
<1>17. s = [i \in 1..Len(s) |-> s[i]]
  BY <1>5 DEF s
<1> QED BY <1>16, <1>17 DEF s

----------------------------------------------------------------------------
(* Types *)

(***************************************************************************)
(* Types and buffer: ReaderInv.                                            *)
(***************************************************************************)
(* What the reader holds: while it reads a transaction, and of one it has  *)
(* read.                                                                   *)
Hashes == {DoubleSHA256(s) : s \in Seq(Octets)}

TxReading ==
    [version : Seq(Octets), segwit : BOOLEAN, inCount : Nat, ins : Seq(Inputs),
     outCount : Nat, outs : Seq(Outputs), wits : Seq(Seq(Seq(Octets)))]

TxRead ==
    [version : Seq(Octets), segwit : BOOLEAN, ins : Seq(Inputs), outs : Seq(Outputs), wits : Seq(Seq(Seq(Octets))),
     locktime : Seq(Octets), size : Nat, wtxid : Hashes, txid : Hashes]

(* The places of ReadBlockFromBlkDatFile, before, within and behind a      *)
(* transaction.                                                            *)
Before == {"index", "pruned", "prefix"}
Within == {"inputs", "outputs", "witnesses", "items", "locktime"}
After == {"done", "counted", "freed"}

TypeInv ==
    /\ pc \in Before \cup {"header", "transaction"} \cup Within \cup After
    /\ buf \in Seq(Octets)
    /\ pos \in Nat /\ txCount \in Nat /\ start \in Nat /\ items \in Nat
    /\ tx \in TxReading /\ txs \in Seq(TxRead)
    /\ pc = "items" => Len(tx.wits) > 0

(* The buffer holds the block from ReadPrefix on. *)
BufferInv ==
    /\ pc \in Before \cup {"header"} => pos = 0
    /\ pc \notin Before => buf = SerializeBlock(block)

ReaderInv == RecordInv /\ TypeInv /\ BufferInv

(* The memory of a transaction that is begun.                              *)
LEMMA NewTxType ==
    ASSUME NEW v \in Seq(Octets), NEW s \in BOOLEAN, NEW n \in Nat
    PROVE  NewTx(v, s, n) \in TxReading
<1>1. << >> \in Seq(Inputs) /\ << >> \in Seq(Outputs) /\ << >> \in Seq(Seq(Seq(Octets)))
  OBVIOUS
<1> QED BY <1>1 DEF NewTx, TxReading

(* Types hold initially, and so does what is known of the buffer.          *)
LEMMA TypeInit == Init => TypeInv /\ BufferInv
<1> SUFFICES ASSUME Init PROVE TypeInv /\ BufferInv
  OBVIOUS
<1>1. /\ pc = "index" /\ buf = << >> /\ pos = 0 /\ txCount = 0 /\ txs = << >> /\ start = 0 /\ items = 0
      /\ tx = NewTx(<< >>, FALSE, 0)
  BY DEF Init
<1>2. << >> \in Seq(Octets) /\ << >> \in Seq(TxRead) /\ 0 \in Nat
  OBVIOUS
<1>3. tx \in TxReading
  BY <1>1, <1>2, NewTxType
<1> QED BY <1>1, <1>2, <1>3 DEF TypeInv, BufferInv, Before

(* A size that is read into a 16-bit field.                                *)
LEMMA ReadSize ==
    ASSUME TypeInv, NEW i \in Nat
    PROVE  CompactSizeDecode(i).size \in Nat /\ U16(CompactSizeDecode(i).value) \in Nat
<1>1. CompactSizeDecode(i).size \in Nat /\ CompactSizeDecode(i).value \in Nat
  BY CompactSizeDecodeType DEF TypeInv
<1>2. U16(CompactSizeDecode(i).value) \in Nat
  BY <1>1, U16Type
<1> QED BY <1>1, <1>2

(* One lemma for each step that reads.                                     *)
LEMMA TypeReadHeader == ASSUME TypeInv, ReadHeader PROVE TypeInv'
<1>1. HeaderSize \in Nat
  BY SizeFacts
<1> DEFINE c == CompactSizeDecode(HeaderSize)
<1>2. c.size \in Nat /\ U16(c.value) \in Nat
  BY <1>1, ReadSize
<1>3. txCount' = U16(c.value) /\ pos' = HeaderSize + c.size /\ pc' = "transaction"
      /\ UNCHANGED <<buf, txs, tx, start, items>>
  BY DEF ReadHeader
<1> HIDE DEF c
<1> QED BY <1>1, <1>2, <1>3 DEF TypeInv

LEMMA TypeReadTxVersion == ASSUME TypeInv, ReadTxVersion PROVE TypeInv'
<1> DEFINE after == pos + VersionSize
           segwit == IsSegwit(Byte(after), Byte(after + 1))
           at == IF segwit THEN after + 2 ELSE after
           c == CompactSizeDecode(at)
<1>1. pos \in Nat /\ VersionSize \in Nat /\ buf \in Seq(Octets)
  BY SizeFacts DEF TypeInv
<1>2. after \in Nat /\ at \in Nat /\ segwit \in BOOLEAN
  BY <1>1 DEF IsSegwit
<1>3. /\ start' = pos /\ tx' = NewTx(Slice(pos, VersionSize), segwit, U16(c.value)) /\ pos' = at + c.size
      /\ pc' = "inputs" /\ UNCHANGED <<buf, txCount, txs, items>>
  BY DEF ReadTxVersion
<1> HIDE DEF at, segwit
<1>4. c.size \in Nat /\ U16(c.value) \in Nat
  BY <1>2, ReadSize
<1>5. Slice(pos, VersionSize) \in Seq(Octets)
  BY <1>1, SliceType
<1> HIDE DEF c
<1>6. tx' \in TxReading
  BY <1>2, <1>3, <1>4, <1>5, NewTxType
<1> QED BY <1>1, <1>2, <1>3, <1>4, <1>6 DEF TypeInv, Within

LEMMA TypeReadInput == ASSUME TypeInv, ReadInput PROVE TypeInv'
<1> DEFINE at == pos + OutpointSize
           c == CompactSizeDecode(at)
           n == U16(c.value)
           script == at + c.size
           in == [outpoint |-> Slice(pos, OutpointSize), script |-> Slice(script, n),
                  sequence |-> Slice(script + n, SequenceSize)]
<1>1. pos \in Nat /\ OutpointSize \in Nat /\ SequenceSize \in Nat /\ buf \in Seq(Octets) /\ at \in Nat /\ tx \in TxReading
  BY SizeFacts DEF TypeInv
<1>2. /\ tx' = [tx EXCEPT !.ins = Append(@, in)] /\ pos' = script + n + SequenceSize
      /\ pc' = pc /\ pc = "inputs" /\ UNCHANGED <<buf, txCount, txs, start, items>>
  BY DEF ReadInput
<1>3. c.size \in Nat /\ n \in Nat
  BY <1>1, ReadSize
<1>4. script \in Nat /\ script + n \in Nat /\ pos' \in Nat
  <2> HIDE DEF at, n, c
  <2>1. pos' = script + n + SequenceSize
    BY <1>2, Zenon
  <2> QED BY <1>1, <1>3, <2>1
<1> HIDE DEF n, script, at, c
<1>5. Slice(pos, OutpointSize) \in [1..OutpointSize -> Octets]
  BY <1>1, SliceType
<1>6. Slice(script, n) \in Seq(Octets)
  BY <1>1, <1>3, <1>4, SliceType
<1>7. Slice(script + n, SequenceSize) \in [1..SequenceSize -> Octets]
  BY <1>1, <1>4, SliceType
<1>8. in \in Inputs
  BY <1>5, <1>6, <1>7 DEF Inputs
<1> HIDE DEF in
<1>9. tx' \in TxReading
  <2>1. Append(tx.ins, in) \in Seq(Inputs)
    BY <1>1, <1>8 DEF TxReading
  <2>2. tx' = [tx EXCEPT !.ins = Append(tx.ins, in)]
    BY <1>2
  <2> QED BY <1>1, <2>1, <2>2 DEF TxReading
<1> QED BY <1>2, <1>4, <1>9 DEF TypeInv

LEMMA TypeReadOutputCount == ASSUME TypeInv, ReadOutputCount PROVE TypeInv'
<1> DEFINE c == CompactSizeDecode(pos)
<1>1. pos \in Nat /\ tx \in TxReading
  BY DEF TypeInv
<1>2. tx' = [tx EXCEPT !.outCount = U16(c.value)] /\ pos' = pos + c.size /\ pc' = "outputs"
      /\ UNCHANGED <<buf, txCount, txs, start, items>>
  BY DEF ReadOutputCount
<1>3. c.size \in Nat /\ U16(c.value) \in Nat
  BY <1>1, ReadSize
<1> HIDE DEF c
<1>4. tx' \in TxReading
  BY <1>1, <1>2, <1>3 DEF TxReading
<1> QED BY <1>1, <1>2, <1>3, <1>4 DEF TypeInv, Within

LEMMA TypeReadOutput == ASSUME TypeInv, ReadOutput PROVE TypeInv'
<1> DEFINE at == pos + AmountSize
           c == CompactSizeDecode(at)
           n == U16(c.value)
           out == [amount |-> Slice(pos, AmountSize), script |-> Slice(at + c.size, n)]
<1>1. pos \in Nat /\ AmountSize \in Nat /\ buf \in Seq(Octets) /\ at \in Nat /\ tx \in TxReading
  BY SizeFacts DEF TypeInv
<1>2. /\ tx' = [tx EXCEPT !.outs = Append(@, out)] /\ pos' = at + c.size + n
      /\ pc' = pc /\ pc = "outputs" /\ UNCHANGED <<buf, txCount, txs, start, items>>
  BY DEF ReadOutput
<1>3. c.size \in Nat /\ n \in Nat
  BY <1>1, ReadSize
<1>4. at + c.size \in Nat /\ pos' \in Nat
  <2> HIDE DEF at, n, c
  <2> QED BY <1>1, <1>2, <1>3
<1> HIDE DEF n, at, c
<1>5. Slice(pos, AmountSize) \in [1..AmountSize -> Octets]
  BY <1>1, SliceType
<1>6. Slice(at + c.size, n) \in Seq(Octets)
  BY <1>1, <1>3, <1>4, SliceType
<1>7. out \in Outputs
  BY <1>5, <1>6 DEF Outputs
<1> HIDE DEF out
<1>8. tx' \in TxReading
  <2>1. Append(tx.outs, out) \in Seq(Outputs)
    BY <1>1, <1>7 DEF TxReading
  <2>2. tx' = [tx EXCEPT !.outs = Append(tx.outs, out)]
    BY <1>2
  <2> QED BY <1>1, <2>1, <2>2 DEF TxReading
<1> QED BY <1>2, <1>4, <1>8 DEF TypeInv

LEMMA TypeReadWitness == ASSUME TypeInv, ReadWitness PROVE TypeInv'
<1> DEFINE c == CompactSizeDecode(pos)
<1>1. pos \in Nat /\ tx \in TxReading /\ pc = "witnesses" /\ UNCHANGED <<buf, txCount, txs, start>>
  BY DEF TypeInv, ReadWitness
<1>2. c.size \in Nat /\ U16(c.value) \in Nat
  BY <1>1, ReadSize
<1>3. CASE Len(tx.wits) < Witnesses
  <2>1. /\ items' = U16(c.value) /\ pos' = pos + c.size /\ pc' = "items"
        /\ tx' = [tx EXCEPT !.wits = Append(tx.wits, << >>)]
    BY <1>3 DEF ReadWitness
  <2> HIDE DEF c
  <2>2. tx.wits \in Seq(Seq(Seq(Octets))) /\ << >> \in Seq(Seq(Octets))
    BY <1>1 DEF TxReading
  <2>3. Append(tx.wits, << >>) \in Seq(Seq(Seq(Octets))) /\ Len(Append(tx.wits, << >>)) > 0
    BY <2>2, AppendIs
  <2>4. tx' \in TxReading
    BY <1>1, <2>1, <2>3 DEF TxReading
  <2>5. tx'.wits = Append(tx.wits, << >>)
    BY <1>1, <2>1 DEF TxReading
  <2>6. Len(tx'.wits) > 0
    BY <2>3, <2>5
  <2> QED BY <1>1, <1>2, <2>1, <2>4, <2>6 DEF TypeInv, Within
<1>4. CASE ~(Len(tx.wits) < Witnesses)
  BY <1>1, <1>4 DEF ReadWitness, TypeInv, Within
<1> QED BY <1>3, <1>4

(* One more item of the last witness.                                      *)
LEMMA WitsExcept ==
    ASSUME NEW w \in Seq(Seq(Seq(Octets))), Len(w) > 0, NEW x \in Seq(Octets)
    PROVE  LET v == [w EXCEPT ![Len(w)] = Append(w[Len(w)], x)]
           IN  /\ v \in Seq(Seq(Seq(Octets))) /\ Len(v) = Len(w) /\ v[Len(w)] = Append(w[Len(w)], x)
               /\ \A j \in 1..(Len(w) - 1) : v[j] = w[j]
<1>1. Len(w) \in Nat /\ Len(w) \in 1..Len(w) /\ w[Len(w)] \in Seq(Seq(Octets))
  OBVIOUS
<1> DEFINE y == Append(w[Len(w)], x)
           v == [w EXCEPT ![Len(w)] = y]
<1>2. y \in Seq(Seq(Octets))
  BY <1>1, AppendIs
<1> HIDE DEF y
<1>3. /\ v \in Seq(Seq(Seq(Octets))) /\ Len(v) = Len(w)
      /\ \A j \in 1..Len(w) : v[j] = IF j = Len(w) THEN y ELSE w[j]
  BY <1>1, <1>2, ExceptSeq
<1> HIDE DEF v
<1>4. \A j \in 1..(Len(w) - 1) : j \in 1..Len(w) /\ j # Len(w)
  BY <1>1
<1>5. v[Len(w)] = y /\ \A j \in 1..(Len(w) - 1) : v[j] = w[j]
  BY <1>1, <1>3, <1>4
<1> QED BY <1>3, <1>5 DEF v, y

LEMMA TypeReadStackItem == ASSUME TypeInv, ReadStackItem PROVE TypeInv'
<1> DEFINE c == CompactSizeDecode(pos)
           n == U16(c.value)
           w == tx.wits
           x == Slice(pos + c.size, n)
<1>1. /\ pos \in Nat /\ tx \in TxReading /\ pc = "items" /\ Len(w) > 0 /\ buf \in Seq(Octets)
      /\ UNCHANGED <<buf, txCount, txs, start, items>>
  BY DEF TypeInv, ReadStackItem
<1>2. c.size \in Nat /\ n \in Nat
  BY <1>1, ReadSize
<1>3. CASE Len(Last(tx.wits)) < items
  <2>1. /\ pos' = pos + c.size + n /\ pc' = pc
        /\ tx' = [tx EXCEPT !.wits[Len(tx.wits)] = Append(@, x)]
    BY <1>3 DEF ReadStackItem
  <2> HIDE DEF c, n
  <2>2. pos + c.size \in Nat /\ pos' \in Nat
    BY <1>1, <1>2, <2>1
  <2>3. x \in Seq(Octets)
    BY <1>1, <1>2, <2>2, SliceType
  <2> HIDE DEF x
  <2> DEFINE v == [w EXCEPT ![Len(w)] = Append(w[Len(w)], x)]
  <2>4. w \in Seq(Seq(Seq(Octets)))
    BY <1>1 DEF TxReading
  <2>5. v \in Seq(Seq(Seq(Octets))) /\ Len(v) = Len(w)
    BY <1>1, <2>3, <2>4, WitsExcept
  <2>6. tx' = [tx EXCEPT !.wits = v]
    BY <2>1
  <2> HIDE DEF v
  <2>7. tx' \in TxReading /\ tx'.wits = v
    BY <1>1, <2>5, <2>6 DEF TxReading
  <2>8. Len(tx'.wits) > 0
    BY <1>1, <2>5, <2>7
  <2> QED BY <1>1, <2>1, <2>2, <2>7, <2>8 DEF TypeInv
<1>4. CASE ~(Len(Last(tx.wits)) < items)
  BY <1>1, <1>4 DEF ReadStackItem, TypeInv, Within
<1> QED BY <1>3, <1>4

LEMMA TypeReadLocktime == ASSUME TypeInv, ReadLocktime PROVE TypeInv'
<1> DEFINE end == pos + LocktimeSize
           wtxid == DoubleSHA256(Slice(start, TxSize(end)))
           t == [version |-> tx.version, segwit |-> tx.segwit, ins |-> tx.ins, outs |-> tx.outs, wits |-> tx.wits,
                 locktime |-> Slice(pos, LocktimeSize), size |-> TxSize(end), wtxid |-> wtxid, txid |-> wtxid]
<1>1. pos \in Nat /\ start \in Nat /\ LocktimeSize \in Nat /\ end \in Nat /\ tx \in TxReading /\ txs \in Seq(TxRead) /\ buf \in Seq(Octets)
  BY SizeFacts DEF TypeInv
<1>2. txs' = Append(txs, t) /\ pos' = end /\ pc' = "transaction" /\ UNCHANGED <<buf, txCount, tx, start, items>>
  BY DEF ReadLocktime
<1> HIDE DEF end
<1>3. TxSize(end) \in Nat
  <2>1. U16(end) \in Nat /\ U16(start) \in Nat /\ U16(start) < U16Range /\ U16Range \in Nat
    BY <1>1, U16Type, Ranges
  <2>2. U16(end) + U16Range - U16(start) \in Nat /\ U16Range > 0
    BY <2>1
  <2> QED BY <2>1, <2>2, DivMod DEF TxSize
<1>4. Slice(start, TxSize(end)) \in Seq(Octets)
  BY <1>1, <1>3, SliceType
<1>5. wtxid \in Hashes
  BY <1>4 DEF Hashes
<1>6. Slice(pos, LocktimeSize) \in Seq(Octets)
  BY <1>1, SliceType
<1> HIDE DEF wtxid
<1>7. t \in TxRead
  BY <1>1, <1>3, <1>5, <1>6 DEF TxRead, TxReading
<1> HIDE DEF t
<1>8. txs' \in Seq(TxRead)
  BY <1>1, <1>2, <1>7
<1> QED BY <1>1, <1>2, <1>8 DEF TypeInv

(* No step breaks a type.                                                  *)
LEMMA TypeStep == ASSUME RecordInv, TypeInv, BufferInv, [Next]_vars PROVE TypeInv'
<1>1. CASE DecodeRecords
  BY <1>1 DEF DecodeRecords, TypeInv, reader, Before
<1>2. CASE ReadPrefix
  <2>1. buf' = SerializeBlock(block)
    BY <1>2, BufferIsBlock
  <2>2. block \in Blocks
    BY GivenFacts DEF RecordInv
  <2>3. buf' \in Seq(Octets)
    BY <2>1, <2>2, BlockType
  <2> QED BY <1>2, <2>3 DEF ReadPrefix, TypeInv
<1>3. CASE ReadHeader
  BY <1>3, TypeReadHeader
<1>4. CASE ReadTxVersion
  BY <1>4, TypeReadTxVersion
<1>5. CASE ReadInput
  BY <1>5, TypeReadInput
<1>6. CASE ReadOutputCount
  BY <1>6, TypeReadOutputCount
<1>7. CASE ReadOutput
  BY <1>7, TypeReadOutput
<1>8. CASE EndOutputs
  BY <1>8 DEF EndOutputs, TypeInv, reader, Within
<1>9. CASE ReadWitness
  BY <1>9, TypeReadWitness
<1>10. CASE ReadStackItem
  BY <1>10, TypeReadStackItem
<1>11. CASE ReadLocktime
  BY <1>11, TypeReadLocktime
<1>12. CASE HashBlock
  BY <1>12 DEF HashBlock, TypeInv, After
<1>13. CASE GetBlockStats
  BY <1>13 DEF GetBlockStats, TypeInv, reader, After
<1>14. CASE FreeBlock
  BY <1>14 DEF FreeBlock, TypeInv, reader, After
<1>15. CASE UNCHANGED vars
  BY <1>15 DEF vars, reader, TypeInv
<1> QED BY <1>1, <1>2, <1>3, <1>4, <1>5, <1>6, <1>7, <1>8, <1>9, <1>10, <1>11, <1>12, <1>13, <1>14, <1>15 DEF Next

(* No step changes the buffer once it is read.                             *)
LEMMA BufferStep == ASSUME RecordInv, TypeInv, BufferInv, [Next]_vars PROVE BufferInv'
<1>0. block' = block
  BY LaterSteps DEF input
<1>1. CASE ReadPrefix
  <2>1. buf' = SerializeBlock(block)
    BY <1>1, BufferIsBlock
  <2> QED BY <1>0, <1>1, <2>1 DEF ReadPrefix, BufferInv, Before
<1>2. CASE ~ReadPrefix
  <2>1. buf' = buf
    BY <1>2 DEF Next, vars, reader, DecodeRecords, ReadHeader, ReadTxVersion, ReadInput, ReadOutputCount, ReadOutput,
                EndOutputs, ReadWitness, ReadStackItem, ReadLocktime, HashBlock, GetBlockStats, FreeBlock
  <2>2. (pc' \notin Before => pc \notin Before) /\ (pc' \in Before \cup {"header"} => pc \in Before \cup {"header"} /\ pos' = pos)
    BY <1>2 DEF Next, vars, reader, DecodeRecords, ReadHeader, ReadTxVersion, ReadInput, ReadOutputCount, ReadOutput,
                EndOutputs, ReadWitness, ReadStackItem, ReadLocktime, HashBlock, GetBlockStats, FreeBlock, Before
  <2> QED BY <1>0, <2>1, <2>2 DEF BufferInv
<1> QED BY <1>1, <1>2

(* Records, types and buffer together.                                     *)
LEMMA ReaderInit == Init => ReaderInv
BY TypeInit DEF ReaderInv, Init, RecordInv, Given, RecordDecoded

(* No step disturbs them.                                                  *)
LEMMA ReaderStep == ASSUME ReaderInv, [Next]_vars PROVE ReaderInv'
BY RecordInvStep, TypeStep, BufferStep DEF ReaderInv

----------------------------------------------------------------------------
(* What is allocated *)

(***************************************************************************)
(* Loops and memory: LoopInv and HeapInv.                                  *)
(***************************************************************************)
(* The memory of transaction i, once the arrays of outputs and of witnesses are there. *)
Sigs(i, n) == {<<"scriptSig", i, j>> : j \in 1..n}
Pubs(i, n) == {<<"scriptPubKey", i, j>> : j \in 1..n}
Stacks(i, n) == {<<"stackItems", i, j>> : j \in 1..n}
Pieces(i, w) == UNION {{<<"item", i, j, k>> : k \in 1..Len(w[j])} : j \in 1..Len(w)}
Arrays(i, o, s) ==
    {<<"inputs", i>>} \cup (IF o THEN {<<"outputs", i>>} ELSE {}) \cup (IF s THEN {<<"witnesses", i>>} ELSE {})
Leaves(i, t) == Sigs(i, Len(t.ins)) \cup Pubs(i, Len(t.outs)) \cup Stacks(i, Len(t.wits)) \cup Pieces(i, t.wits)

DoneHeap(s) == UNION {Arrays(i, TRUE, s[i].segwit) \cup Leaves(i, s[i]) : i \in 1..Len(s)}

HasWitnesses == tx.segwit /\ pc \in {"witnesses", "items", "locktime"}
CurrentHeap == IF pc \in Within THEN Arrays(Tx, pc # "inputs", HasWitnesses) \cup Leaves(Tx, tx) ELSE {}

(* A witness for every input, or none at all. *)
Paired(t) == IF t.segwit THEN Len(t.wits) = Len(t.ins) ELSE t.wits = << >>

(* How far the loops are. *)
LoopInv ==
    /\ pc \in Before \cup {"header"} => txs = << >>
    /\ pc = "transaction" => Len(txs) <= txCount
    /\ pc \in Within => Len(txs) < txCount
    /\ pc \in After => Len(txs) = txCount
    /\ pc = "inputs" => tx.outs = << >> /\ Len(tx.ins) <= tx.inCount
    /\ pc \in {"inputs", "outputs"} => tx.wits = << >>
    /\ pc \in Within \ {"inputs"} => Len(tx.ins) = tx.inCount
    /\ pc = "outputs" => Len(tx.outs) <= tx.outCount
    /\ pc \in {"witnesses", "items"} => tx.segwit /\ Len(tx.wits) <= tx.inCount
    /\ pc = "locktime" => Paired(tx)
    /\ \A i \in 1..Len(txs) : Paired(txs[i])

HeapInv ==
    /\ pc \in Before => heap = {}
    /\ pc = "header" => heap = {<<"blockBuffer">>}
    /\ pc \in Within \cup {"transaction"} =>
         heap = {<<"blockBuffer">>, <<"transactions">>} \cup DoneHeap(txs) \cup CurrentHeap
    /\ pc \in {"done", "counted"} => heap = {<<"transactions">>} \cup DoneHeap(txs)
    /\ pc = "freed" => heap = ({"inputs", "outputs"} \X (1..txCount))
                              \cup {<<"witnesses", i>> : i \in {n \in 1..txCount : txs[n].segwit}}

(* No loop passes its count: the counts are fixed before the loops begin.  *)
LEMMA LoopStep == ASSUME TypeInv, LoopInv, [Next]_vars PROVE LoopInv'
<1>0. tx \in TxReading /\ txs \in Seq(TxRead) /\ txCount \in Nat /\ tx.ins \in Seq(Inputs) /\ tx.outs \in Seq(Outputs)
      /\ tx.wits \in Seq(Seq(Seq(Octets))) /\ tx.inCount \in Nat /\ tx.outCount \in Nat /\ tx.segwit \in BOOLEAN
  BY DEF TypeInv, TxReading
<1> USE DEF Before, Within, After
<1>1. CASE DecodeRecords
  BY <1>1 DEF DecodeRecords, LoopInv, reader, Paired
<1>2. CASE ReadPrefix
  BY <1>2 DEF ReadPrefix, LoopInv, Paired
<1>3. CASE ReadHeader
  <2>1. txCount' \in Nat /\ txs = << >> /\ pc' = "transaction" /\ txs' = txs
    <3>1. txs = << >> /\ pc' = "transaction" /\ txs' = txs
      BY <1>3 DEF ReadHeader, LoopInv
    <3>2. TypeInv'
      BY <1>3, TypeReadHeader
    <3> QED BY <3>1, <3>2 DEF TypeInv
  <2>2. Len(txs') = 0
    BY <2>1
  <2> QED BY <2>1, <2>2 DEF LoopInv
<1>4. CASE ReadTxVersion
  <2>1. PICK v, s, n : tx' = NewTx(v, s, n)
    BY <1>4, Zenon DEF ReadTxVersion
  <2>2. TypeInv'
    BY <1>4, TypeReadTxVersion
  <2>3. tx'.ins = << >> /\ tx'.outs = << >> /\ tx'.wits = << >> /\ tx'.inCount \in Nat
    BY <2>1, <2>2 DEF NewTx, TypeInv, TxReading
  <2>4. Len(tx'.ins) <= tx'.inCount
    BY <2>3
  <2>5. pc' = "inputs" /\ Len(txs) < txCount /\ txs' = txs /\ txCount' = txCount
    BY <1>4 DEF ReadTxVersion
  <2> QED BY <2>3, <2>4, <2>5 DEF LoopInv, Paired
<1>5. CASE ReadInput
  <2>1. PICK in : tx' = [tx EXCEPT !.ins = Append(@, in)]
    BY <1>5, Zenon DEF ReadInput
  <2>2. /\ pc = "inputs" /\ pc' = pc /\ Len(tx.ins) < tx.inCount /\ txs' = txs /\ txCount' = txCount
    BY <1>5 DEF ReadInput
  <2>3. /\ tx'.ins = Append(tx.ins, in) /\ tx'.outs = tx.outs /\ tx'.wits = tx.wits /\ tx'.inCount = tx.inCount
    BY <2>1, <1>0 DEF TxReading
  <2>4. Len(tx'.ins) <= tx'.inCount
    BY <2>2, <2>3, <1>0
  <2> QED BY <2>2, <2>3, <2>4 DEF LoopInv, Paired
<1>6. CASE ReadOutputCount
  <2>1. PICK n : tx' = [tx EXCEPT !.outCount = n]
    BY <1>6, Zenon DEF ReadOutputCount
  <2>2. /\ pc = "inputs" /\ pc' = "outputs" /\ Len(tx.ins) = tx.inCount /\ txs' = txs /\ txCount' = txCount
    BY <1>6 DEF ReadOutputCount
  <2>3. tx'.ins = tx.ins /\ tx'.outs = tx.outs /\ tx'.wits = tx.wits /\ tx'.inCount = tx.inCount /\ tx'.outCount \in Nat
    <3>1. TypeInv'
      BY <1>6, TypeReadOutputCount
    <3> QED BY <2>1, <1>0, <3>1 DEF TxReading, TypeInv
  <2>4. Len(tx'.outs) <= tx'.outCount
    BY <2>2, <2>3 DEF LoopInv
  <2> QED BY <2>2, <2>3, <2>4 DEF LoopInv, Paired
<1>7. CASE ReadOutput
  <2>1. PICK out : tx' = [tx EXCEPT !.outs = Append(@, out)]
    BY <1>7, Zenon DEF ReadOutput
  <2>2. pc = "outputs" /\ pc' = pc /\ Len(tx.outs) < tx.outCount /\ txs' = txs /\ txCount' = txCount
    BY <1>7 DEF ReadOutput
  <2>3. /\ tx'.ins = tx.ins /\ tx'.outs = Append(tx.outs, out) /\ tx'.wits = tx.wits
        /\ tx'.inCount = tx.inCount /\ tx'.outCount = tx.outCount
    BY <2>1, <1>0 DEF TxReading
  <2>4. Len(tx'.outs) <= tx'.outCount
    BY <2>2, <2>3, <1>0
  <2> QED BY <2>2, <2>3, <2>4 DEF LoopInv, Paired
<1>8. CASE EndOutputs
  <2>1. pc = "outputs" /\ pc' = (IF tx.segwit THEN "witnesses" ELSE "locktime") /\ UNCHANGED <<tx, txs, txCount>>
    BY <1>8 DEF EndOutputs, reader
  <2>2. tx.wits = << >> /\ Len(tx.wits) <= tx.inCount /\ Len(tx.ins) = tx.inCount
    BY <2>1, <1>0 DEF LoopInv
  <2> QED BY <2>1, <2>2 DEF LoopInv, Paired
<1>9. CASE ReadWitness
  <2>1. pc = "witnesses" /\ UNCHANGED <<txs, txCount>> /\ tx.segwit /\ Len(tx.wits) <= tx.inCount /\ Len(tx.ins) = tx.inCount
    BY <1>9 DEF ReadWitness, LoopInv
  <2>2. CASE Len(tx.wits) < tx.inCount
    <3>1. tx' = [tx EXCEPT !.wits = Append(tx.wits, << >>)] /\ pc' = "items"
      BY <1>9, <2>2 DEF ReadWitness, Witnesses
    <3>2. /\ tx'.ins = tx.ins /\ tx'.inCount = tx.inCount /\ tx'.segwit = tx.segwit
          /\ tx'.wits = Append(tx.wits, << >>)
      BY <3>1, <1>0 DEF TxReading
    <3>3. Len(tx'.wits) <= tx'.inCount
      <4>1. Len(Append(tx.wits, << >>)) = Len(tx.wits) + 1
        BY <1>0
      <4> QED BY <4>1, <3>2, <2>2, <1>0
    <3> QED BY <2>1, <3>1, <3>2, <3>3 DEF LoopInv, Paired
  <2>3. CASE ~(Len(tx.wits) < tx.inCount)
    <3>1. tx' = tx /\ pc' = "locktime"
      BY <1>9, <2>3 DEF ReadWitness, Witnesses
    <3>2. Len(tx.wits) = Len(tx.ins)
      BY <1>0, <2>1, <2>3
    <3> QED BY <2>1, <3>1, <3>2 DEF LoopInv, Paired
  <2> QED BY <2>2, <2>3
<1>10. CASE ReadStackItem
  <2>1. pc = "items" /\ UNCHANGED <<txs, txCount>> /\ tx.segwit /\ Len(tx.wits) <= tx.inCount /\ Len(tx.ins) = tx.inCount
    BY <1>10 DEF ReadStackItem, LoopInv
  <2>2. CASE Len(Last(tx.wits)) < items
    <3>1. PICK x : tx' = [tx EXCEPT !.wits[Len(tx.wits)] = Append(@, x)]
      BY <1>10, <2>2, Zenon DEF ReadStackItem
    <3>2. /\ tx'.ins = tx.ins /\ tx'.inCount = tx.inCount /\ tx'.segwit = tx.segwit
          /\ tx'.wits = [tx.wits EXCEPT ![Len(tx.wits)] = Append(@, x)]
      BY <3>1, <1>0 DEF TxReading
    <3>3. Len(tx'.wits) = Len(tx.wits)
      BY <3>2, <1>0
    <3>4. pc' = pc
      BY <1>10, <2>2 DEF ReadStackItem
    <3> QED BY <2>1, <3>2, <3>3, <3>4 DEF LoopInv, Paired
  <2>3. CASE ~(Len(Last(tx.wits)) < items)
    <3>1. tx' = tx /\ pc' = "witnesses"
      BY <1>10, <2>3 DEF ReadStackItem
    <3> QED BY <2>1, <3>1 DEF LoopInv, Paired
  <2> QED BY <2>2, <2>3
<1>11. CASE ReadLocktime
  <2>1. PICK z, n, h : txs' = Append(txs, [version |-> tx.version, segwit |-> tx.segwit, ins |-> tx.ins,
                                 outs |-> tx.outs, wits |-> tx.wits,
                                 locktime |-> z, size |-> n, wtxid |-> h, txid |-> h])
    BY <1>11, Zenon DEF ReadLocktime
  <2> DEFINE t == [version |-> tx.version, segwit |-> tx.segwit, ins |-> tx.ins, outs |-> tx.outs, wits |-> tx.wits,
                   locktime |-> z, size |-> n, wtxid |-> h, txid |-> h]
  <2>2. pc = "locktime" /\ pc' = "transaction" /\ UNCHANGED txCount /\ Len(txs) < txCount /\ Paired(tx)
    BY <1>11 DEF ReadLocktime, LoopInv
  <2>3. Paired(t)
    BY <2>2 DEF Paired
  <2> HIDE DEF t
  <2>4. txs' = Append(txs, t)
    BY <2>1 DEF t
  <2>5. Len(txs') = Len(txs) + 1 /\ txs'[Len(txs) + 1] = t /\ \A i \in 1..Len(txs) : txs'[i] = txs[i]
    BY <2>4, <1>0
  <2>6. ASSUME NEW i \in 1..Len(txs') PROVE Paired(txs'[i])
    <3>1. i \in 1..Len(txs) \/ i = Len(txs) + 1
      BY <2>5, <1>0
    <3>2. CASE i \in 1..Len(txs)
      BY <3>2, <2>5 DEF LoopInv
    <3>3. CASE i = Len(txs) + 1
      BY <3>3, <2>3, <2>5
    <3> QED BY <3>1, <3>2, <3>3
  <2>7. Len(txs') <= txCount'
    BY <2>2, <2>5, <1>0
  <2> QED BY <2>2, <2>6, <2>7 DEF LoopInv
<1>12. CASE HashBlock
  BY <1>12 DEF HashBlock, LoopInv, Paired
<1>13. CASE GetBlockStats
  BY <1>13 DEF GetBlockStats, LoopInv, reader, Paired
<1>14. CASE FreeBlock
  BY <1>14 DEF FreeBlock, LoopInv, reader, Paired
<1>15. CASE UNCHANGED vars
  BY <1>15 DEF vars, reader, LoopInv, Paired
<1> QED BY <1>1, <1>2, <1>3, <1>4, <1>5, <1>6, <1>7, <1>8, <1>9, <1>10, <1>11, <1>12, <1>13, <1>14, <1>15 DEF Next

(* One more allocation of each kind.                                       *)
LEMMA MoreLeaves ==
    ASSUME NEW i, NEW n \in Nat
    PROVE  /\ Sigs(i, n + 1) = Sigs(i, n) \cup {<<"scriptSig", i, n + 1>>}
           /\ Pubs(i, n + 1) = Pubs(i, n) \cup {<<"scriptPubKey", i, n + 1>>}
           /\ Stacks(i, n + 1) = Stacks(i, n) \cup {<<"stackItems", i, n + 1>>}
<1>1. 1..(n + 1) = 1..n \cup {n + 1}
  OBVIOUS
<1> QED BY <1>1, Zenon DEF Sigs, Pubs, Stacks

(* A transaction that is begun has none.                                   *)
LEMMA NoLeaves ==
    ASSUME NEW i
    PROVE  Sigs(i, 0) = {} /\ Pubs(i, 0) = {} /\ Stacks(i, 0) = {} /\ Pieces(i, << >>) = {}
<1>1. 1..0 = {} /\ Len(<< >>) = 0
  OBVIOUS
<1> QED BY <1>1, Zenon DEF Sigs, Pubs, Stacks, Pieces

(* The names of the stack items.                                           *)
LEMMA PiecesIs ==
    ASSUME NEW i, NEW w, NEW x
    PROVE  x \in Pieces(i, w) <=> \E j \in 1..Len(w) : \E k \in 1..Len(w[j]) : x = <<"item", i, j, k>>
<1> DEFINE S(j) == {<<"item", i, j, k>> : k \in 1..Len(w[j])}
<1>1. x \in UNION {S(j) : j \in 1..Len(w)} <=> \E j \in 1..Len(w) : x \in S(j)
  <2> HIDE DEF S
  <2> QED BY Zenon
<1>2. \A j : x \in S(j) <=> \E k \in 1..Len(w[j]) : x = <<"item", i, j, k>>
  BY Zenon
<1>3. Pieces(i, w) = UNION {S(j) : j \in 1..Len(w)}
  BY DEF Pieces
<1> HIDE DEF S
<1> QED BY <1>1, <1>2, <1>3, Zenon

(* A witness without items, and one more item of the last one. *)
LEMMA PiecesAppend ==
    ASSUME NEW i, NEW w \in Seq(Seq(Seq(Octets)))
    PROVE  Pieces(i, Append(w, << >>)) = Pieces(i, w)
<1> DEFINE v == Append(w, << >>)
<1>1. << >> \in Seq(Seq(Octets)) /\ Len(<< >>) = 0
  OBVIOUS
<1>2. Len(v) = Len(w) + 1 /\ v[Len(w) + 1] = << >> /\ \A j \in 1..Len(w) : v[j] = w[j]
  BY <1>1, AppendIs
<1>3. Len(w) \in Nat
  OBVIOUS
<1> HIDE DEF v
<1>4. ASSUME NEW x, x \in Pieces(i, v) PROVE x \in Pieces(i, w)
  <2>1. PICK j \in 1..Len(v) : \E k \in 1..Len(v[j]) : x = <<"item", i, j, k>>
    BY <1>4, PiecesIs
  <2>2. PICK k \in 1..Len(v[j]) : x = <<"item", i, j, k>>
    BY <2>1
  <2>3. j \in 1..Len(w) \/ j = Len(w) + 1
    BY <1>2, <1>3
  <2>4. CASE j = Len(w) + 1
    <3>1. Len(v[j]) = 0
      BY <2>4, <1>1, <1>2
    <3> QED BY <2>2, <3>1
  <2>5. CASE j \in 1..Len(w)
    <3>1. k \in 1..Len(w[j])
      BY <1>2, <2>5
    <3> QED BY <2>2, <2>5, <3>1, PiecesIs
  <2> QED BY <2>3, <2>4, <2>5
<1>5. ASSUME NEW x, x \in Pieces(i, w) PROVE x \in Pieces(i, v)
  <2>1. PICK j \in 1..Len(w) : \E k \in 1..Len(w[j]) : x = <<"item", i, j, k>>
    BY <1>5, PiecesIs
  <2>2. PICK k \in 1..Len(w[j]) : x = <<"item", i, j, k>>
    BY <2>1
  <2>3. j \in 1..Len(v) /\ k \in 1..Len(v[j])
    BY <1>2, <1>3
  <2> QED BY <2>2, <2>3, PiecesIs
<1>6. Pieces(i, v) = Pieces(i, w)
  BY <1>4, <1>5, Zenon
<1> QED BY <1>6 DEF v

(* The item has the next number.                                           *)
LEMMA PiecesExcept ==
    ASSUME NEW i, NEW w \in Seq(Seq(Seq(Octets))), Len(w) > 0, NEW y \in Seq(Octets)
    PROVE  Pieces(i, [w EXCEPT ![Len(w)] = Append(w[Len(w)], y)])
             = Pieces(i, w) \cup {<<"item", i, Len(w), Len(w[Len(w)]) + 1>>}
<1> DEFINE n == Len(w)
           l == w[n]
           v == [w EXCEPT ![Len(w)] = Append(w[Len(w)], y)]
           new == <<"item", i, n, Len(l) + 1>>
<1>1. n \in Nat /\ n \in 1..n /\ l \in Seq(Seq(Octets)) /\ Len(l) \in Nat
  OBVIOUS
<1>2. Len(v) = n /\ v[n] = Append(l, y) /\ \A j \in 1..(n - 1) : v[j] = w[j]
  BY WitsExcept, Zenon
<1>3. Len(v[n]) = Len(l) + 1
  <2>1. l \in Seq(Seq(Octets))
    BY <1>1
  <2> HIDE DEF l
  <2>2. Len(Append(l, y)) = Len(l) + 1
    BY <2>1, AppendIs
  <2> QED BY <1>2, <2>2, Zenon
<1> HIDE DEF v
<1>4. ASSUME NEW x, x \in Pieces(i, v) PROVE x \in Pieces(i, w) \cup {new}
  <2>1. PICK j \in 1..Len(v) : \E k \in 1..Len(v[j]) : x = <<"item", i, j, k>>
    BY <1>4, PiecesIs
  <2>2. PICK k \in 1..Len(v[j]) : x = <<"item", i, j, k>>
    BY <2>1
  <2>3. CASE j # n
    <3>1. j \in 1..(n - 1) /\ j \in 1..Len(w) /\ v[j] = w[j]
      BY <2>3, <1>1, <1>2
    <3>2. x \in Pieces(i, w)
      BY <2>2, <3>1, PiecesIs
    <3> QED BY <3>2
  <2>4. CASE j = n /\ k = Len(l) + 1
    BY <2>2, <2>4
  <2>5. CASE j = n /\ k # Len(l) + 1
    <3>1. k \in 1..Len(l)
      BY <2>5, <1>1, <1>3
    <3>2. x \in Pieces(i, w)
      BY <2>2, <2>5, <3>1, <1>1, PiecesIs
    <3> QED BY <3>2
  <2> QED BY <2>3, <2>4, <2>5
<1>5. ASSUME NEW x, x \in Pieces(i, w) PROVE x \in Pieces(i, v)
  <2>1. PICK j \in 1..Len(w) : \E k \in 1..Len(w[j]) : x = <<"item", i, j, k>>
    BY <1>5, PiecesIs
  <2>2. PICK k \in 1..Len(w[j]) : x = <<"item", i, j, k>>
    BY <2>1
  <2>3. CASE j # n
    <3>1. j \in 1..(n - 1) /\ j \in 1..Len(v) /\ v[j] = w[j]
      BY <2>3, <1>1, <1>2
    <3> QED BY <2>2, <3>1, PiecesIs
  <2>4. CASE j = n
    <3>1. j \in 1..Len(v) /\ k \in 1..Len(v[j])
      BY <2>4, <1>1, <1>2, <1>3
    <3> QED BY <2>2, <3>1, PiecesIs
  <2> QED BY <2>3, <2>4
<1>6. new \in Pieces(i, v)
  <2>1. n \in 1..Len(v) /\ Len(l) + 1 \in 1..Len(v[n])
    BY <1>1, <1>2, <1>3
  <2> QED BY <2>1, PiecesIs
<1> HIDE DEF new
<1>7. Pieces(i, v) = Pieces(i, w) \cup {new}
  BY <1>4, <1>5, <1>6
<1> QED BY <1>7 DEF v, new, l, n

Grown(i, t) == Arrays(i, TRUE, t.segwit) \cup Leaves(i, t)

(* The memory of the transactions that are read.                           *)
LEMMA DoneHeapIs ==
    ASSUME NEW s, NEW x
    PROVE  x \in DoneHeap(s) <=> \E i \in 1..Len(s) : x \in Grown(i, s[i])
<1>1. DoneHeap(s) = UNION {Grown(i, s[i]) : i \in 1..Len(s)}
  BY DEF DoneHeap, Grown
<1> QED BY <1>1, Zenon

(* A transaction that is finished joins them.                              *)
LEMMA DoneHeapAppend ==
    ASSUME NEW s \in Seq(TxRead), NEW t \in TxRead
    PROVE  DoneHeap(Append(s, t)) = DoneHeap(s) \cup (Arrays(Len(s) + 1, TRUE, t.segwit) \cup Leaves(Len(s) + 1, t))
<1> DEFINE u == Append(s, t)
           n == Len(s)
<1>1. Len(u) = n + 1 /\ u[n + 1] = t /\ (\A j \in 1..n : u[j] = s[j]) /\ n \in Nat
  BY AppendIs
<1> HIDE DEF u
<1>2. \A j : j \in 1..(n + 1) <=> j \in 1..n \/ j = n + 1
  BY <1>1
<1>3. \A x : x \in DoneHeap(u) <=> \E i \in 1..Len(u) : x \in Grown(i, u[i])
  BY DoneHeapIs, Zenon
<1>4. \A x : x \in DoneHeap(s) <=> \E i \in 1..n : x \in Grown(i, s[i])
  BY DoneHeapIs, Zenon
<1> HIDE DEF n
<1>5. ASSUME NEW x, x \in DoneHeap(u) PROVE x \in DoneHeap(s) \/ x \in Grown(n + 1, t)
  <2>1. PICK i \in 1..(n + 1) : x \in Grown(i, u[i])
    BY <1>1, <1>3, <1>5
  <2>2. CASE i = n + 1
    BY <2>1, <2>2, <1>1
  <2>3. CASE i # n + 1
    <3>1. i \in 1..n /\ u[i] = s[i]
      BY <2>3, <1>1, <1>2
    <3> QED BY <2>1, <3>1, <1>4
  <2> QED BY <2>2, <2>3
<1>6. ASSUME NEW x, x \in DoneHeap(s) PROVE x \in DoneHeap(u)
  <2>1. PICK i \in 1..n : x \in Grown(i, s[i])
    BY <1>4, <1>6
  <2>2. i \in 1..(n + 1) /\ u[i] = s[i]
    BY <1>1, <1>2
  <2>3. i \in 1..Len(u) /\ x \in Grown(i, u[i])
    BY <2>1, <2>2, <1>1
  <2> QED BY <2>3, <1>3
<1>7. ASSUME NEW x, x \in Grown(n + 1, t) PROVE x \in DoneHeap(u)
  <2>1. n + 1 \in 1..Len(u) /\ x \in Grown(n + 1, u[n + 1])
    BY <1>1, <1>2, <1>7
  <2> QED BY <2>1, <1>3
<1>8. DoneHeap(u) = DoneHeap(s) \cup Grown(n + 1, t)
  BY <1>5, <1>6, <1>7, Zenon
<1> QED BY <1>8 DEF Grown, u, n

(* The names that lead to what a transaction owns. *)
LEMMA GrownNames ==
    ASSUME NEW i, NEW t, NEW x
    PROVE  /\ x \in Leaves(i, t) => x[1] \in {"scriptSig", "scriptPubKey", "stackItems", "item"} /\ x[2] = i
           /\ \A o, s : x \in Arrays(i, o, s) => x[1] \in {"inputs", "outputs", "witnesses"}
           /\ x \in Grown(i, t) => x[1] # "blockBuffer" /\ x[1] # "transactions"
<1>1. ASSUME x \in Sigs(i, Len(t.ins)) PROVE x[1] = "scriptSig" /\ x[2] = i
  BY <1>1 DEF Sigs
<1>2. ASSUME x \in Pubs(i, Len(t.outs)) PROVE x[1] = "scriptPubKey" /\ x[2] = i
  BY <1>2 DEF Pubs
<1>3. ASSUME x \in Stacks(i, Len(t.wits)) PROVE x[1] = "stackItems" /\ x[2] = i
  BY <1>3 DEF Stacks
<1>4. ASSUME x \in Pieces(i, t.wits) PROVE x[1] = "item" /\ x[2] = i
  BY <1>4, PiecesIs
<1>5. x \in Leaves(i, t) => x[1] \in {"scriptSig", "scriptPubKey", "stackItems", "item"} /\ x[2] = i
  BY <1>1, <1>2, <1>3, <1>4 DEF Leaves
<1>6. ASSUME NEW o, NEW s, x \in Arrays(i, o, s) PROVE x[1] \in {"inputs", "outputs", "witnesses"}
  BY <1>6 DEF Arrays
<1>7. ASSUME x \in Grown(i, t) PROVE x[1] # "blockBuffer" /\ x[1] # "transactions"
  BY <1>5, <1>6, <1>7 DEF Grown
<1> QED BY <1>5, <1>6, <1>7

(* Each step allocates what the heap lacks.                                *)
LEMMA HeapStep == ASSUME TypeInv, LoopInv, HeapInv, [Next]_vars, ~FreeBlock PROVE HeapInv'
<1>0. tx \in TxReading /\ txs \in Seq(TxRead) /\ txCount \in Nat /\ tx.ins \in Seq(Inputs) /\ tx.outs \in Seq(Outputs)
      /\ tx.wits \in Seq(Seq(Seq(Octets))) /\ tx.inCount \in Nat /\ tx.outCount \in Nat /\ tx.segwit \in BOOLEAN
  BY DEF TypeInv, TxReading
<1>h. Len(tx.ins) \in Nat /\ Len(tx.outs) \in Nat /\ Len(tx.wits) \in Nat
  BY <1>0
<1> DEFINE B == {<<"blockBuffer">>, <<"transactions">>}
<1> USE DEF Before, Within, After
<1>1. CASE DecodeRecords
  BY <1>1 DEF DecodeRecords, HeapInv
<1>2. CASE ReadPrefix
  BY <1>2 DEF ReadPrefix, HeapInv
<1>3. CASE ReadHeader
  <2>1. txs = << >> /\ txs' = txs /\ heap = {<<"blockBuffer">>} /\ heap' = heap \cup {<<"transactions">>} /\ pc' = "transaction"
    BY <1>3 DEF ReadHeader, HeapInv, LoopInv
  <2>2. DoneHeap(txs') = {}
    <3>1. 1..Len(txs') = {}
      BY <2>1
    <3>2. \A x : x \notin DoneHeap(txs')
      BY <3>1, DoneHeapIs, Zenon
    <3> QED BY <3>2, Zenon
  <2>3. CurrentHeap' = {}
    BY <2>1 DEF CurrentHeap
  <2>4. heap' = B \cup DoneHeap(txs') \cup CurrentHeap'
    BY <2>1, <2>2, <2>3
  <2> QED BY <2>1, <2>4 DEF HeapInv
<1>4. CASE ReadTxVersion
  <2>1. pc = "transaction" /\ pc' = "inputs" /\ txs' = txs /\ heap' = heap \cup {<<"inputs", Tx>>} /\ Tx' = Tx
    BY <1>4 DEF ReadTxVersion, Tx
  <2>2. heap = B \cup DoneHeap(txs)
    BY <2>1 DEF HeapInv, CurrentHeap
  <2>3. PICK v, s, n : tx' = NewTx(v, s, n)
    BY <1>4, Zenon DEF ReadTxVersion
  <2>4. Leaves(Tx', tx') = {}
    <3>1. tx'.ins = << >> /\ tx'.outs = << >> /\ tx'.wits = << >>
      BY <2>3 DEF NewTx
    <3>2. Len(<< >>) = 0
      OBVIOUS
    <3> QED BY <3>1, <3>2, NoLeaves, Zenon DEF Leaves
  <2>5. Arrays(Tx', FALSE, FALSE) = {<<"inputs", Tx>>}
    BY <2>1, Zenon DEF Arrays
  <2>6. CurrentHeap' = {<<"inputs", Tx>>}
    BY <2>1, <2>4, <2>5 DEF CurrentHeap, HasWitnesses
  <2>7. heap' = B \cup DoneHeap(txs') \cup CurrentHeap'
    BY <2>1, <2>2, <2>6, Zenon
  <2> QED BY <2>1, <2>7 DEF HeapInv
<1>5. CASE ReadInput
  <2>1. PICK in : tx' = [tx EXCEPT !.ins = Append(@, in)]
    BY <1>5, Zenon DEF ReadInput
  <2>2. /\ pc = "inputs" /\ pc' = pc /\ txs' = txs /\ Tx' = Tx
        /\ heap' = heap \cup {<<"scriptSig", Tx, Len(tx.ins) + 1>>}
    BY <1>5 DEF ReadInput, Tx
  <2>3. /\ Len(tx'.ins) = Len(tx.ins) + 1 /\ tx'.outs = tx.outs /\ tx'.wits = tx.wits /\ tx'.segwit = tx.segwit
    BY <2>1, <1>0 DEF TxReading
  <2>4. Leaves(Tx', tx') = Leaves(Tx, tx) \cup {<<"scriptSig", Tx, Len(tx.ins) + 1>>}
    <3>1. Sigs(Tx, Len(tx.ins) + 1) = Sigs(Tx, Len(tx.ins)) \cup {<<"scriptSig", Tx, Len(tx.ins) + 1>>}
      BY <1>h, MoreLeaves
    <3> QED BY <2>2, <2>3, <3>1, Zenon DEF Leaves
  <2>5. CurrentHeap' = CurrentHeap \cup {<<"scriptSig", Tx, Len(tx.ins) + 1>>}
    <3>1. CurrentHeap = Arrays(Tx, FALSE, FALSE) \cup Leaves(Tx, tx)
      BY <2>2 DEF CurrentHeap, HasWitnesses
    <3>2. CurrentHeap' = Arrays(Tx, FALSE, FALSE) \cup Leaves(Tx', tx')
      BY <2>2 DEF CurrentHeap, HasWitnesses
    <3> QED BY <2>4, <3>1, <3>2, Zenon
  <2>6. heap = B \cup DoneHeap(txs) \cup CurrentHeap
    BY <2>2 DEF HeapInv
  <2>7. heap' = B \cup DoneHeap(txs') \cup CurrentHeap'
    BY <2>2, <2>5, <2>6, Zenon
  <2> QED BY <2>2, <2>7 DEF HeapInv
<1>6. CASE ReadOutputCount
  <2>1. PICK n : tx' = [tx EXCEPT !.outCount = n]
    BY <1>6, Zenon DEF ReadOutputCount
  <2>2. /\ pc = "inputs" /\ pc' = "outputs" /\ txs' = txs /\ Tx' = Tx
        /\ heap' = heap \cup {<<"outputs", Tx>>}
    BY <1>6 DEF ReadOutputCount, Tx
  <2>3. tx'.ins = tx.ins /\ tx'.outs = tx.outs /\ tx'.wits = tx.wits
    BY <2>1, <1>0 DEF TxReading
  <2>4. Leaves(Tx', tx') = Leaves(Tx, tx)
    BY <2>2, <2>3, Zenon DEF Leaves
  <2>5. CurrentHeap' = CurrentHeap \cup {<<"outputs", Tx>>}
    <3>1. CurrentHeap = Arrays(Tx, FALSE, FALSE) \cup Leaves(Tx, tx)
      BY <2>2 DEF CurrentHeap, HasWitnesses
    <3>2. CurrentHeap' = Arrays(Tx, TRUE, FALSE) \cup Leaves(Tx', tx')
      BY <2>2 DEF CurrentHeap, HasWitnesses
    <3>3. Arrays(Tx, TRUE, FALSE) = Arrays(Tx, FALSE, FALSE) \cup {<<"outputs", Tx>>}
      BY Zenon DEF Arrays
    <3> QED BY <2>4, <3>1, <3>2, <3>3, Zenon
  <2>6. heap = B \cup DoneHeap(txs) \cup CurrentHeap
    BY <2>2 DEF HeapInv
  <2>7. heap' = B \cup DoneHeap(txs') \cup CurrentHeap'
    BY <2>2, <2>5, <2>6, Zenon
  <2> QED BY <2>2, <2>7 DEF HeapInv
<1>7. CASE ReadOutput
  <2>1. PICK out : tx' = [tx EXCEPT !.outs = Append(@, out)]
    BY <1>7, Zenon DEF ReadOutput
  <2>2. /\ pc = "outputs" /\ pc' = pc /\ txs' = txs /\ Tx' = Tx
        /\ heap' = heap \cup {<<"scriptPubKey", Tx, Len(tx.outs) + 1>>}
    BY <1>7 DEF ReadOutput, Tx
  <2>3. /\ Len(tx'.outs) = Len(tx.outs) + 1 /\ tx'.ins = tx.ins /\ tx'.wits = tx.wits
    BY <2>1, <1>0 DEF TxReading
  <2>4. Leaves(Tx', tx') = Leaves(Tx, tx) \cup {<<"scriptPubKey", Tx, Len(tx.outs) + 1>>}
    <3>1. Pubs(Tx, Len(tx.outs) + 1) = Pubs(Tx, Len(tx.outs)) \cup {<<"scriptPubKey", Tx, Len(tx.outs) + 1>>}
      BY <1>h, MoreLeaves
    <3> QED BY <2>2, <2>3, <3>1, Zenon DEF Leaves
  <2>5. CurrentHeap' = CurrentHeap \cup {<<"scriptPubKey", Tx, Len(tx.outs) + 1>>}
    <3>1. CurrentHeap = Arrays(Tx, TRUE, FALSE) \cup Leaves(Tx, tx)
      BY <2>2 DEF CurrentHeap, HasWitnesses
    <3>2. CurrentHeap' = Arrays(Tx, TRUE, FALSE) \cup Leaves(Tx', tx')
      BY <2>2 DEF CurrentHeap, HasWitnesses
    <3> QED BY <2>4, <3>1, <3>2, Zenon
  <2>6. heap = B \cup DoneHeap(txs) \cup CurrentHeap
    BY <2>2 DEF HeapInv
  <2>7. heap' = B \cup DoneHeap(txs') \cup CurrentHeap'
    BY <2>2, <2>5, <2>6, Zenon
  <2> QED BY <2>2, <2>7 DEF HeapInv
<1>8. CASE EndOutputs
  <2>1. /\ pc = "outputs" /\ pc' = (IF tx.segwit THEN "witnesses" ELSE "locktime") /\ UNCHANGED <<tx, txs>>
        /\ Tx' = Tx /\ heap' = heap \cup (IF tx.segwit THEN {<<"witnesses", Tx>>} ELSE {})
    BY <1>8 DEF EndOutputs, reader, Tx
  <2>2. CurrentHeap' = CurrentHeap \cup (IF tx.segwit THEN {<<"witnesses", Tx>>} ELSE {})
    <3>1. CurrentHeap = Arrays(Tx, TRUE, FALSE) \cup Leaves(Tx, tx)
      BY <2>1 DEF CurrentHeap, HasWitnesses
    <3>2. CurrentHeap' = Arrays(Tx, TRUE, tx.segwit) \cup Leaves(Tx, tx)
      BY <2>1, <1>0 DEF CurrentHeap, HasWitnesses
    <3>3. Arrays(Tx, TRUE, tx.segwit) = Arrays(Tx, TRUE, FALSE) \cup (IF tx.segwit THEN {<<"witnesses", Tx>>} ELSE {})
      BY Zenon DEF Arrays
    <3> QED BY <3>1, <3>2, <3>3, Zenon
  <2>3. heap = B \cup DoneHeap(txs) \cup CurrentHeap
    BY <2>1 DEF HeapInv
  <2>4. heap' = B \cup DoneHeap(txs') \cup CurrentHeap'
    BY <2>1, <2>2, <2>3, Zenon
  <2>5. pc' \in Within
    BY <2>1
  <2> QED BY <2>4, <2>5 DEF HeapInv
<1>9. CASE ReadWitness
  <2>1. pc = "witnesses" /\ UNCHANGED txs /\ tx.segwit /\ Tx' = Tx
    BY <1>9 DEF ReadWitness, LoopInv, Tx
  <2>2. heap = B \cup DoneHeap(txs) \cup CurrentHeap
    BY <2>1 DEF HeapInv
  <2>3. CurrentHeap = Arrays(Tx, TRUE, TRUE) \cup Leaves(Tx, tx)
    BY <2>1 DEF CurrentHeap, HasWitnesses
  <2>4. CASE Len(tx.wits) < tx.inCount
    <3>1. /\ tx' = [tx EXCEPT !.wits = Append(tx.wits, << >>)] /\ pc' = "items"
          /\ heap' = heap \cup {<<"stackItems", Tx, Len(tx.wits) + 1>>}
      BY <1>9, <2>4 DEF ReadWitness, Witnesses
    <3>2. /\ tx'.ins = tx.ins /\ tx'.outs = tx.outs /\ tx'.segwit = tx.segwit
          /\ tx'.wits = Append(tx.wits, << >>)
      BY <3>1, <1>0 DEF TxReading
    <3>3. Len(tx'.wits) = Len(tx.wits) + 1
      <4>1. Len(Append(tx.wits, << >>)) = Len(tx.wits) + 1
        BY <1>0
      <4> QED BY <4>1, <3>2
    <3>4. Pieces(Tx, tx'.wits) = Pieces(Tx, tx.wits)
      BY <1>0, <3>2, PiecesAppend
    <3>5. Stacks(Tx, Len(tx.wits) + 1) = Stacks(Tx, Len(tx.wits)) \cup {<<"stackItems", Tx, Len(tx.wits) + 1>>}
      BY <1>h, MoreLeaves
    <3>6. Leaves(Tx', tx') = Leaves(Tx, tx) \cup {<<"stackItems", Tx, Len(tx.wits) + 1>>}
      BY <2>1, <3>2, <3>3, <3>4, <3>5, Zenon DEF Leaves
    <3>7. CurrentHeap' = Arrays(Tx, TRUE, TRUE) \cup Leaves(Tx', tx')
      BY <2>1, <3>1, <3>2 DEF CurrentHeap, HasWitnesses
    <3>8. heap' = B \cup DoneHeap(txs') \cup CurrentHeap'
      BY <2>1, <2>2, <2>3, <3>1, <3>6, <3>7, Zenon
    <3> QED BY <3>1, <3>8 DEF HeapInv
  <2>5. CASE ~(Len(tx.wits) < tx.inCount)
    <3>1. tx' = tx /\ pc' = "locktime" /\ heap' = heap
      BY <1>9, <2>5 DEF ReadWitness, Witnesses
    <3>2. CurrentHeap' = CurrentHeap
      BY <2>1, <3>1 DEF CurrentHeap, HasWitnesses
    <3>3. heap' = B \cup DoneHeap(txs') \cup CurrentHeap'
      BY <2>1, <2>2, <3>1, <3>2, Zenon
    <3> QED BY <3>1, <3>3 DEF HeapInv
  <2> QED BY <2>4, <2>5
<1>10. CASE ReadStackItem
  <2>1. pc = "items" /\ UNCHANGED txs /\ tx.segwit /\ Tx' = Tx
    BY <1>10 DEF ReadStackItem, LoopInv, Tx
  <2>2. heap = B \cup DoneHeap(txs) \cup CurrentHeap
    BY <2>1 DEF HeapInv
  <2>3. CurrentHeap = Arrays(Tx, TRUE, TRUE) \cup Leaves(Tx, tx)
    BY <2>1 DEF CurrentHeap, HasWitnesses
  <2>4. CASE Len(Last(tx.wits)) < items
    <3> DEFINE l == Len(tx.wits)
               new == <<"item", Tx, l, Len(tx.wits[l]) + 1>>
    <3>1. PICK at, n : tx' = [tx EXCEPT !.wits[Len(tx.wits)] = Append(@, Slice(at, n))] /\ n = U16(CompactSizeDecode(pos).value)
                       /\ at = pos + CompactSizeDecode(pos).size
      BY <1>10, <2>4, Zenon DEF ReadStackItem
    <3>2. pc' = pc /\ heap' = heap \cup {new}
      BY <1>10, <2>4 DEF ReadStackItem, Last
    <3>3. /\ tx'.ins = tx.ins /\ tx'.outs = tx.outs /\ tx'.segwit = tx.segwit
          /\ tx'.wits = [tx.wits EXCEPT ![Len(tx.wits)] = Append(tx.wits[Len(tx.wits)], Slice(at, n))]
      BY <3>1, <1>0 DEF TxReading
    <3>4. l > 0
      BY <2>1 DEF TypeInv
    <3>5. Slice(at, n) \in Seq(Octets)
      <4>1. pos \in Nat /\ buf \in Seq(Octets)
        BY DEF TypeInv
      <4>2. at \in Nat /\ n \in Nat
        <5>1. CompactSizeDecode(pos).size \in Nat /\ n \in Nat
          BY <3>1, <4>1, ReadSize
        <5> QED BY <3>1, <4>1, <5>1
      <4> QED BY <4>1, <4>2, SliceType
    <3> DEFINE y == Slice(at, n)
               w == tx.wits
    <3>6. Pieces(Tx, tx'.wits) = Pieces(Tx, tx.wits) \cup {new}
      <4>1. w \in Seq(Seq(Seq(Octets))) /\ Len(w) > 0 /\ y \in Seq(Octets)
        BY <1>0, <3>4, <3>5
      <4>2. tx'.wits = [w EXCEPT ![Len(w)] = Append(w[Len(w)], y)]
        BY <3>3
      <4> HIDE DEF w, y
      <4>3. Pieces(Tx, tx'.wits) = Pieces(Tx, w) \cup {<<"item", Tx, Len(w), Len(w[Len(w)]) + 1>>}
        BY <4>1, <4>2, PiecesExcept, Zenon
      <4> QED BY <4>3, Zenon DEF w
    <3>7. Len(tx'.wits) = Len(tx.wits)
      BY <3>3, <1>0
    <3>8. Leaves(Tx', tx') = Leaves(Tx, tx) \cup {new}
      <4> HIDE DEF new
      <4> QED BY <2>1, <3>3, <3>6, <3>7, Zenon DEF Leaves
    <3>9. CurrentHeap' = Arrays(Tx, TRUE, TRUE) \cup Leaves(Tx', tx')
      BY <2>1, <3>2, <3>3 DEF CurrentHeap, HasWitnesses
    <3> HIDE DEF new
    <3>10. heap' = B \cup DoneHeap(txs') \cup CurrentHeap'
      BY <2>1, <2>2, <2>3, <3>2, <3>8, <3>9, Zenon
    <3> QED BY <2>1, <3>2, <3>10 DEF HeapInv
  <2>5. CASE ~(Len(Last(tx.wits)) < items)
    <3>1. tx' = tx /\ pc' = "witnesses" /\ heap' = heap
      BY <1>10, <2>5 DEF ReadStackItem
    <3>2. CurrentHeap' = CurrentHeap
      BY <2>1, <3>1 DEF CurrentHeap, HasWitnesses
    <3>3. heap' = B \cup DoneHeap(txs') \cup CurrentHeap'
      BY <2>1, <2>2, <3>1, <3>2, Zenon
    <3> QED BY <3>1, <3>3 DEF HeapInv
  <2> QED BY <2>4, <2>5
<1>11. CASE ReadLocktime
  <2>1. PICK z, n, h : txs' = Append(txs, [version |-> tx.version, segwit |-> tx.segwit, ins |-> tx.ins,
                                 outs |-> tx.outs, wits |-> tx.wits,
                                 locktime |-> z, size |-> n, wtxid |-> h, txid |-> h])
    BY <1>11, Zenon DEF ReadLocktime
  <2> DEFINE t == [version |-> tx.version, segwit |-> tx.segwit, ins |-> tx.ins, outs |-> tx.outs, wits |-> tx.wits,
                   locktime |-> z, size |-> n, wtxid |-> h, txid |-> h]
  <2>2. pc = "locktime" /\ pc' = "transaction" /\ heap' = heap
    BY <1>11 DEF ReadLocktime
  <2>3. /\ t.segwit = tx.segwit /\ t.ins = tx.ins /\ t.outs = tx.outs /\ t.wits = tx.wits
    OBVIOUS
  <2> HIDE DEF t
  <2>4. txs' = Append(txs, t)
    BY <2>1 DEF t
  <2>5. t \in TxRead
    <3>1. txs' \in Seq(TxRead)
      <4>1. TypeInv'
        BY <1>11, TypeReadLocktime
      <4> QED BY <4>1 DEF TypeInv
    <3>2. Len(txs') = Len(txs) + 1 /\ txs'[Len(txs) + 1] = t
      BY <2>4, <1>0
    <3>3. Len(txs) + 1 \in 1..Len(txs')
      BY <3>2, <1>0
    <3> QED BY <3>1, <3>2, <3>3
  <2>6. DoneHeap(txs') = DoneHeap(txs) \cup (Arrays(Tx, TRUE, t.segwit) \cup Leaves(Tx, t))
    BY <2>4, <2>5, <1>0, DoneHeapAppend DEF Tx
  <2>7. Leaves(Tx, t) = Leaves(Tx, tx)
    BY <2>3, Zenon DEF Leaves
  <2>8. CurrentHeap = Arrays(Tx, TRUE, tx.segwit) \cup Leaves(Tx, tx)
    BY <2>2, <1>0 DEF CurrentHeap, HasWitnesses
  <2>9. CurrentHeap' = {}
    BY <2>2 DEF CurrentHeap
  <2>10. heap = B \cup DoneHeap(txs) \cup CurrentHeap
    BY <2>2 DEF HeapInv
  <2>11. heap' = B \cup DoneHeap(txs') \cup CurrentHeap'
    BY <2>2, <2>3, <2>6, <2>7, <2>8, <2>9, <2>10, Zenon
  <2> QED BY <2>2, <2>11 DEF HeapInv
<1>12. CASE HashBlock
  <2>1. pc = "transaction" /\ pc' = "done" /\ txs' = txs /\ heap' = heap \ {<<"blockBuffer">>}
    BY <1>12 DEF HashBlock
  <2>2. heap = B \cup DoneHeap(txs)
    BY <2>1 DEF HeapInv, CurrentHeap
  <2>3. <<"blockBuffer">> \notin DoneHeap(txs)
    <3>1. \A i : <<"blockBuffer">> \notin Grown(i, txs[i])
      <4>1. <<"blockBuffer">>[1] = "blockBuffer" /\ \A i, t, x : x \in Grown(i, t) => x[1] # "blockBuffer"
        BY GrownNames
      <4> QED BY <4>1, Zenon
    <3> QED BY <3>1, DoneHeapIs, Zenon
  <2>4. <<"transactions">> # <<"blockBuffer">>
    OBVIOUS
  <2>5. heap' = {<<"transactions">>} \cup DoneHeap(txs')
    <3> DEFINE a == <<"blockBuffer">>
               b == <<"transactions">>
    <3>1. heap' = ({a, b} \cup DoneHeap(txs)) \ {a} /\ a \notin DoneHeap(txs) /\ b # a /\ txs' = txs
      BY <2>1, <2>2, <2>3, <2>4, Zenon
    <3> HIDE DEF a, b
    <3>2. heap' = {b} \cup DoneHeap(txs')
      BY <3>1
    <3> QED BY <3>2 DEF b
  <2> QED BY <2>1, <2>5 DEF HeapInv
<1>13. CASE GetBlockStats
  BY <1>13 DEF GetBlockStats, HeapInv, reader
<1>15. CASE UNCHANGED vars
  BY <1>15 DEF vars, reader, HeapInv, CurrentHeap, HasWitnesses, Tx
<1> QED BY <1>1, <1>2, <1>3, <1>4, <1>5, <1>6, <1>7, <1>8, <1>9, <1>10, <1>11, <1>12, <1>13, <1>15 DEF Next

(* FreeTransaction visits what ReadTxn allocated, but the arrays. *)
LEMMA FreesLeaves ==
    ASSUME TypeInv, NEW i \in 1..Len(txs), Paired(txs[i])
    PROVE  FreeTransaction(i) = Leaves(i, txs[i])
<1> DEFINE t == txs[i]
<1>1. t \in TxRead
  BY DEF TypeInv
<1>2. DOMAIN t.ins = 1..Len(t.ins) /\ DOMAIN t.outs = 1..Len(t.outs) /\ t.segwit \in BOOLEAN
  BY <1>1 DEF TxRead
<1>3. \A j \in 1..Len(t.wits) : DOMAIN t.wits[j] = 1..Len(t.wits[j])
  BY <1>1 DEF TxRead
<1>4. Sigs(i, Len(t.ins)) = UNION {FreeInput(i, j) : j \in DOMAIN t.ins}
  BY <1>2, Zenon DEF Sigs, FreeInput
<1>5. Pubs(i, Len(t.outs)) = UNION {FreeOutput(i, j) : j \in DOMAIN t.outs}
  BY <1>2, Zenon DEF Pubs, FreeOutput
<1> DEFINE W == IF t.segwit THEN UNION {FreeWitness(i, j) : j \in DOMAIN t.ins} ELSE {}
           n == Len(t.wits)
<1>6. W = Stacks(i, n) \cup Pieces(i, t.wits)
  <2>1. CASE t.segwit
    <3>1. n = Len(t.ins)
      BY <2>1 DEF Paired
    <3> DEFINE P(j) == {<<"item", i, j, k>> : k \in 1..Len(t.wits[j])}
    <3>2. \A j \in 1..n : FreeWitness(i, j) = P(j) \cup {<<"stackItems", i, j>>}
      BY <1>3, Zenon DEF FreeWitness
    <3>3. W = UNION {FreeWitness(i, j) : j \in 1..n}
      BY <2>1, <3>1, <1>2
    <3>4. Pieces(i, t.wits) = UNION {P(j) : j \in 1..n}
      BY DEF Pieces
    <3> HIDE DEF P, n, W
    <3>5. UNION {FreeWitness(i, j) : j \in 1..n} = Stacks(i, n) \cup UNION {P(j) : j \in 1..n}
      <4>1. ASSUME NEW x, x \in UNION {FreeWitness(i, j) : j \in 1..n}
            PROVE x \in Stacks(i, n) \cup UNION {P(j) : j \in 1..n}
        <5>1. PICK j \in 1..n : x \in FreeWitness(i, j)
          BY <4>1
        <5>2. x \in P(j) \/ x = <<"stackItems", i, j>>
          BY <5>1, <3>2, Zenon
        <5> QED BY <5>1, <5>2, Zenon DEF Stacks
      <4>2. ASSUME NEW x, x \in Stacks(i, n)
            PROVE x \in UNION {FreeWitness(i, j) : j \in 1..n}
        <5>1. PICK j \in 1..n : x = <<"stackItems", i, j>>
          BY <4>2, Zenon DEF Stacks
        <5>2. x \in FreeWitness(i, j)
          BY <5>1, <3>2, Zenon
        <5> QED BY <5>1, <5>2, Zenon
      <4>3. ASSUME NEW x, x \in UNION {P(j) : j \in 1..n}
            PROVE x \in UNION {FreeWitness(i, j) : j \in 1..n}
        <5>1. PICK j \in 1..n : x \in P(j)
          BY <4>3
        <5>2. x \in FreeWitness(i, j)
          BY <5>1, <3>2, Zenon
        <5> QED BY <5>1, <5>2, Zenon
      <4> QED BY <4>1, <4>2, <4>3, Zenon
    <3> QED BY <3>3, <3>4, <3>5, Zenon
  <2>2. CASE ~t.segwit
    <3>1. t.wits = << >> /\ Len(<< >>) = 0
      BY <2>2 DEF Paired
    <3> QED BY <2>2, <3>1, NoLeaves, Zenon
  <2> QED BY <2>1, <2>2
<1>7. FreeTransaction(i) = Sigs(i, Len(t.ins)) \cup Pubs(i, Len(t.outs)) \cup W
  <2> DEFINE U == UNION {FreeInput(i, j) : j \in DOMAIN t.ins}
             V == UNION {FreeOutput(i, j) : j \in DOMAIN t.outs}
  <2>1. \A x : x \in FreeTransaction(i) <=> x \in U \/ x \in V \/ x \in W
    BY Zenon DEF FreeTransaction
  <2> HIDE DEF U, V, W
  <2>2. Sigs(i, Len(t.ins)) = U /\ Pubs(i, Len(t.outs)) = V
    BY <1>4, <1>5 DEF U, V
  <2> QED BY <2>1, <2>2, Zenon
<1> QED BY <1>6, <1>7, Zenon DEF Leaves

(* FreeBlock frees these.                                                  *)
LEMMA FreedIs ==
    ASSUME TypeInv, LoopInv, pc = "counted", NEW x
    PROVE  x \in Freed <=> x = <<"transactions">> \/ \E i \in 1..Len(txs) : x \in Leaves(i, txs[i])
<1>1. txCount = Len(txs) /\ \A i \in 1..Len(txs) : Paired(txs[i])
  BY DEF LoopInv, After
<1>2. \A i \in 1..Len(txs) : FreeTransaction(i) = Leaves(i, txs[i])
  BY <1>1, FreesLeaves
<1>4. x \in UNION {FreeTransaction(i) : i \in 1..txCount} <=> \E i \in 1..txCount : x \in FreeTransaction(i)
  BY Zenon
<1>5. x \in Freed <=> x \in UNION {FreeTransaction(i) : i \in 1..txCount} \/ x = <<"transactions">>
  BY Zenon DEF Freed
<1>6. (\E i \in 1..Len(txs) : x \in FreeTransaction(i)) <=> (\E i \in 1..Len(txs) : x \in Leaves(i, txs[i]))
  BY <1>2, Zenon
<1> QED BY <1>1, <1>4, <1>5, <1>6, Zenon

(* What FreeBlock leaves behind. *)
Kept == ({"inputs", "outputs"} \X (1..txCount)) \cup {<<"witnesses", i>> : i \in {n \in 1..txCount : txs[n].segwit}}

(* In terms of the transactions.                                           *)
LEMMA KeptIs ==
    ASSUME TypeInv, txCount = Len(txs), NEW x
    PROVE  x \in Kept <=> \E i \in 1..Len(txs) : x \in Arrays(i, TRUE, txs[i].segwit)
<1>1. x \in {"inputs", "outputs"} \X (1..Len(txs)) <=>
        \E i \in 1..Len(txs) : x = <<"inputs", i>> \/ x = <<"outputs", i>>
  <2> DEFINE N == 1..Len(txs)
  <2> HIDE DEF N
  <2>1. ASSUME x \in {"inputs", "outputs"} \X N PROVE \E i \in N : x = <<"inputs", i>> \/ x = <<"outputs", i>>
    BY <2>1
  <2>2. ASSUME NEW i \in N, x = <<"inputs", i>> \/ x = <<"outputs", i>> PROVE x \in {"inputs", "outputs"} \X N
    BY <2>2
  <2>3. x \in {"inputs", "outputs"} \X N <=> \E i \in N : x = <<"inputs", i>> \/ x = <<"outputs", i>>
    BY <2>1, <2>2
  <2> QED BY <2>3 DEF N
<1>2. x \in {<<"witnesses", i>> : i \in {n \in 1..Len(txs) : txs[n].segwit}} <=>
        \E i \in 1..Len(txs) : txs[i].segwit /\ x = <<"witnesses", i>>
  BY Zenon
<1>3. \A i : x \in Arrays(i, TRUE, txs[i].segwit) <=>
        x = <<"inputs", i>> \/ x = <<"outputs", i>> \/ (txs[i].segwit /\ x = <<"witnesses", i>>)
  BY Zenon DEF Arrays
<1>4. x \in Kept <=> \/ x \in {"inputs", "outputs"} \X (1..Len(txs))
                     \/ x \in {<<"witnesses", i>> : i \in {n \in 1..Len(txs) : txs[n].segwit}}
  BY Zenon DEF Kept
<1> QED BY <1>1, <1>2, <1>3, <1>4, Zenon

(* The difference of the two.                                              *)
LEMMA FreeLeavesArrays ==
    ASSUME TypeInv, LoopInv, HeapInv, pc = "counted"
    PROVE  Freed \subseteq heap /\ heap \ Freed = Kept
<1> DEFINE N == 1..Len(txs)
           A(i) == Arrays(i, TRUE, txs[i].segwit)
           L(i) == Leaves(i, txs[i])
           b == <<"transactions">>
<1>1. heap = {b} \cup DoneHeap(txs) /\ txCount = Len(txs)
  BY DEF HeapInv, LoopInv, After
<1>2. \A x : x \in DoneHeap(txs) <=> \E i \in N : x \in A(i) \/ x \in L(i)
  BY DoneHeapIs, Zenon DEF Grown
<1>3. \A x : x \in Freed <=> x = b \/ \E i \in N : x \in L(i)
  BY FreedIs, Zenon
<1>4. \A x : x \in Kept <=> \E i \in N : x \in A(i)
  <2>1. txCount = Len(txs)
    BY <1>1
  <2> HIDE DEF b
  <2> QED BY <2>1, KeptIs, Zenon
<1>5. \A x, i, j : ~(x \in A(i) /\ x \in L(j))
  <2> SUFFICES ASSUME NEW x, NEW i, NEW j, x \in A(i), x \in L(j) PROVE FALSE
    OBVIOUS
  <2>1. x[1] \in {"inputs", "outputs", "witnesses"}
    <3> DEFINE s == txs[i].segwit
    <3> HIDE DEF s
    <3>1. x \in Arrays(i, TRUE, s)
      BY DEF s
    <3>2. \A o : x \in Arrays(i, o, s) => x[1] \in {"inputs", "outputs", "witnesses"}
      BY GrownNames, Zenon
    <3> QED BY <3>1, <3>2, Zenon
  <2>2. x[1] \in {"scriptSig", "scriptPubKey", "stackItems", "item"}
    BY GrownNames, Zenon
  <2> QED BY <2>1, <2>2
<1>6. \A i : b \notin A(i)
  <2> SUFFICES ASSUME NEW i, b \in A(i) PROVE FALSE
    OBVIOUS
  <2>1. b[1] \in {"inputs", "outputs", "witnesses"}
    <3> HIDE DEF b
    <3> QED BY GrownNames, Zenon
  <2>2. b[1] = "transactions"
    OBVIOUS
  <2> QED BY <2>1, <2>2
<1> HIDE DEF N, A, L, b
<1>7. Freed \subseteq heap
  BY <1>1, <1>2, <1>3, Zenon
<1>8. \A x : x \in heap \ Freed <=> x \in Kept
  BY <1>1, <1>2, <1>3, <1>4, <1>5, <1>6, Zenon
<1> QED BY <1>7, <1>8, Zenon

(* The step of FreeBlock.                                                  *)
LEMMA HeapFree == ASSUME TypeInv, LoopInv, HeapInv, FreeBlock PROVE HeapInv'
<1>1. pc = "counted" /\ pc' = "freed" /\ heap' = heap \ Freed /\ UNCHANGED <<txs, txCount>>
  BY DEF FreeBlock, reader
<1>2. heap' = Kept
  BY <1>1, FreeLeavesArrays
<1>3. Kept' = Kept
  BY <1>1, Zenon DEF Kept
<1>4. heap' = Kept'
  BY <1>2, <1>3
<1> QED BY <1>1, <1>4 DEF HeapInv, Kept, Before, Within

(* Nothing is allocated at the beginning.                                  *)
LEMMA HeapInit == Init => LoopInv /\ HeapInv
BY DEF Init, LoopInv, HeapInv, Before, Within, After, NewTx, Paired

(* FreeBlock (src/bitcoin-structs.c) against ReadTxn (src/blkdat.c), for    *)
(* every block, also one whose counts and sizes do not fit: everything it   *)
(* frees is allocated, and behind it only the arrays of inputs, outputs and *)
(* witnesses of the transactions are left.                                  *)
THEOREM FreesWhatWasRead == Spec => []FreesTheBlock
<1> DEFINE Inv == ReaderInv /\ LoopInv /\ HeapInv
<1>1. Init => Inv
  BY ReaderInit, HeapInit
<1>2. ASSUME Inv, [Next]_vars PROVE Inv'
  <2>1. ReaderInv'
    BY <1>2, ReaderStep
  <2>2. TypeInv
    BY <1>2 DEF ReaderInv
  <2>3. LoopInv'
    BY <1>2, <2>2, LoopStep
  <2>4. CASE FreeBlock
    <3>1. HeapInv'
      BY <1>2, <2>2, <2>4, HeapFree
    <3> QED BY <2>1, <2>3, <3>1
  <2>5. CASE ~FreeBlock
    <3>1. HeapInv'
      BY <1>2, <2>2, <2>5, HeapStep
    <3> QED BY <2>1, <2>3, <3>1
  <2> QED BY <2>4, <2>5
<1>3. ASSUME Inv PROVE FreesTheBlock
  <2>1. pc = "counted" => Freed \subseteq heap
    <3>1. TypeInv /\ LoopInv /\ HeapInv
      BY <1>3 DEF ReaderInv
    <3> QED BY <3>1, FreeLeavesArrays
  <2>2. pc = "freed" => heap = Kept
    BY <1>3 DEF HeapInv, Kept
  <2> QED BY <2>1, <2>2 DEF FreesTheBlock, Kept
<1> HIDE DEF Inv
<1>4. Spec => []Inv
  BY <1>1, <1>2, PTL DEF Spec
<1> QED BY <1>3, <1>4, PTL

----------------------------------------------------------------------------
(* Where the cursor is *)

(***************************************************************************)
(* The cursor: CursorInv.                                                  *)
(***************************************************************************)
(* The places of the elements of a block, from its first byte, and of those *)
(* of a transaction, from its first byte: the place behind the first n.     *)
TxPos(n) == TxsAt(block) + At(TxBytes(block.txs), n)
InPos(t, n) == InsAt(t) + At(InBytes(t.ins), n)
OutPos(t, n) == OutsAt(t) + At(OutBytes(t.outs), n)
WitPos(t, n) == WitsAt(t) + At(WitBytes(t.wits), n)
ItemPos(t, i, n) == WitPos(t, i - 1) + Len(CompactSizeEncode(Len(t.wits[i]))) + At(ItemBytes(t.wits[i]), n)

(* b starts with the elements of a. *)
Begins(a, b) == Len(a) <= Len(b) /\ \A i \in 1..Len(a) : a[i] = b[i]

(* The stored transaction that is read. *)
Cur == block.txs[Len(txs) + 1]

(* What has been read of it is what was stored, and the cursor is behind it. *)
InTx(t) == start = TxPos(Len(txs)) /\ tx.version = t.version /\ tx.segwit = t.segwit /\ tx.inCount = Len(t.ins)
AtInputs(t) == Begins(tx.ins, t.ins) /\ pos = start + InPos(t, Len(tx.ins))
AtOutputs(t) ==
    /\ tx.ins = t.ins
    /\ tx.outCount = Len(t.outs) /\ Begins(tx.outs, t.outs) /\ pos = start + OutPos(t, Len(tx.outs))
AtWitnesses(t) ==
    /\ tx.ins = t.ins /\ tx.outs = t.outs
    /\ Begins(tx.wits, t.wits) /\ pos = start + WitPos(t, Len(tx.wits))
AtItems(t) ==
    LET n == Len(tx.wits) IN
    /\ tx.ins = t.ins /\ tx.outs = t.outs
    /\ n <= Len(t.wits) /\ \A i \in 1..(n - 1) : tx.wits[i] = t.wits[i]
    /\ items = Len(t.wits[n]) /\ Begins(tx.wits[n], t.wits[n]) /\ pos = start + ItemPos(t, n, Len(tx.wits[n]))
AtLocktime(t) ==
    /\ tx.ins = t.ins /\ tx.outs = t.outs /\ tx.wits = t.wits
    /\ pos = start + LockAt(t)

(* r is what the reader made of t. *)
Same(r, t) ==
    /\ Content(r) = Content(t)
    /\ Len(SerializeTx(t)) < U16Range =>
         r.size = Len(SerializeTx(t)) /\ r.wtxid = DoubleSHA256(SerializeTx(t))

CursorInv ==
    /\ pc \notin Before \cup {"header"} => txCount = Len(block.txs) /\ header = DecodeBlockHeader(SerializeHeader(block.header))
    /\ pc \in {"transaction"} \cup After => pos = TxPos(Len(txs))
    /\ pc \in Within => InTx(Cur)
    /\ pc = "inputs" => AtInputs(Cur)
    /\ pc = "outputs" => AtOutputs(Cur)
    /\ pc = "witnesses" => AtWitnesses(Cur)
    /\ pc = "items" => AtItems(Cur)
    /\ pc = "locktime" => AtLocktime(Cur)
    /\ pc \in After => hash = DoubleSHA256(SerializeHeader(block.header))
    /\ \A i \in 1..Len(txs) : Same(txs[i], block.txs[i])

(* The inputs of a transaction: places, from the first to the output       *)
(* count.                                                                  *)
LEMMA InPlace ==
    ASSUME NEW t \in Transactions
    PROVE  /\ InPos(t, 0) = InsAt(t) /\ InPos(t, Len(t.ins)) = OutCountAt(t)
           /\ \A n \in 0..Len(t.ins) : InPos(t, n) \in Nat
           /\ \A n \in 1..Len(t.ins) : InPos(t, n) = InPos(t, n - 1) + Len(SerializeInput(t.ins[n]))
<1> DEFINE ss == InBytes(t.ins)
<1>1. t.ins \in Seq(Inputs)
  BY TransactionFacts
<1>2. ss \in Seq(Seq(Octets)) /\ Len(ss) = Len(t.ins) /\ \A n \in 1..Len(t.ins) : ss[n] = SerializeInput(t.ins[n])
  BY <1>1, InBytesType
<1>3. InsAt(t) \in Nat
  BY PlaceType
<1>4. /\ At(ss, 0) = 0 /\ At(ss, Len(ss)) = Len(FlattenSeq(ss))
      /\ (\A n \in 0..Len(ss) : At(ss, n) \in Nat)
      /\ \A n \in 1..Len(ss) : At(ss, n) = At(ss, n - 1) + Len(ss[n])
  BY <1>2, AtIs
<1>5. OutCountAt(t) = InsAt(t) + Len(FlattenSeq(ss)) /\ \A n : InPos(t, n) = InsAt(t) + At(ss, n)
  BY DEF OutCountAt, InPos
<1> HIDE DEF ss
<1>6. InPos(t, 0) = InsAt(t) /\ InPos(t, Len(t.ins)) = OutCountAt(t)
  BY <1>2, <1>3, <1>4, <1>5
<1>7. ASSUME NEW n \in 0..Len(t.ins) PROVE InPos(t, n) \in Nat
  BY <1>2, <1>3, <1>4, <1>5
<1>8. ASSUME NEW n \in 1..Len(t.ins) PROVE InPos(t, n) = InPos(t, n - 1) + Len(SerializeInput(t.ins[n]))
  <2>1. n \in 0..Len(ss) /\ n - 1 \in 0..Len(ss) /\ n \in 1..Len(ss)
    BY <1>1, <1>2
  <2>2. At(ss, n) \in Nat /\ At(ss, n - 1) \in Nat /\ At(ss, n) = At(ss, n - 1) + Len(ss[n])
    BY <2>1, <1>4
  <2>3. Len(ss[n]) \in Nat /\ ss[n] = SerializeInput(t.ins[n])
    BY <2>1, <1>2
  <2> QED BY <2>2, <2>3, <1>3, <1>5
<1> QED BY <1>6, <1>7, <1>8

(* And what lies there.                                                    *)
LEMMA InLies ==
    ASSUME NEW t \in Transactions, NEW data \in Seq(Octets), NEW at \in Nat, Lies(data, at, SerializeTx(t)),
           NEW n \in 1..Len(t.ins)
    PROVE  Lies(data, at + InPos(t, n - 1), SerializeInput(t.ins[n]))
<1> DEFINE ss == InBytes(t.ins)
<1>1. t.ins \in Seq(Inputs)
  BY TransactionFacts
<1>2. ss \in Seq(Seq(Octets)) /\ Len(ss) = Len(t.ins) /\ ss[n] = SerializeInput(t.ins[n])
  BY <1>1, InBytesType
<1>3. Lies(data, at + InsAt(t), FlattenSeq(ss))
  BY TxAt
<1>4. InsAt(t) \in Nat /\ at + InsAt(t) \in Nat
  BY PlaceType
<1> HIDE DEF ss
<1>5. Lies(data, (at + InsAt(t)) + At(ss, n - 1), ss[n])
  BY <1>2, <1>3, <1>4, LiesFlatten
<1>6. (at + InsAt(t)) + At(ss, n - 1) = at + InPos(t, n - 1)
  <2>1. n - 1 \in 0..Len(ss)
    BY <1>1, <1>2
  <2>2. At(ss, n - 1) \in Nat
    BY <1>2, <2>1, AtIs
  <2>3. InPos(t, n - 1) = InsAt(t) + At(ss, n - 1)
    BY DEF InPos, ss
  <2> QED BY <1>4, <2>2, <2>3
<1> QED BY <1>2, <1>5, <1>6

(* The outputs of a transaction: places, from the first to the witnesses.  *)
LEMMA OutPlace ==
    ASSUME NEW t \in Transactions
    PROVE  /\ OutPos(t, 0) = OutsAt(t) /\ OutPos(t, Len(t.outs)) = WitsAt(t)
           /\ \A n \in 0..Len(t.outs) : OutPos(t, n) \in Nat
           /\ \A n \in 1..Len(t.outs) : OutPos(t, n) = OutPos(t, n - 1) + Len(SerializeOutput(t.outs[n]))
<1> DEFINE ss == OutBytes(t.outs)
<1>1. t.outs \in Seq(Outputs)
  BY TransactionFacts
<1>2. ss \in Seq(Seq(Octets)) /\ Len(ss) = Len(t.outs) /\ \A n \in 1..Len(t.outs) : ss[n] = SerializeOutput(t.outs[n])
  BY <1>1, OutBytesType
<1>3. OutsAt(t) \in Nat
  BY PlaceType
<1>4. /\ At(ss, 0) = 0 /\ At(ss, Len(ss)) = Len(FlattenSeq(ss))
      /\ (\A n \in 0..Len(ss) : At(ss, n) \in Nat)
      /\ \A n \in 1..Len(ss) : At(ss, n) = At(ss, n - 1) + Len(ss[n])
  BY <1>2, AtIs
<1>5. WitsAt(t) = OutsAt(t) + Len(FlattenSeq(ss)) /\ \A n : OutPos(t, n) = OutsAt(t) + At(ss, n)
  BY DEF WitsAt, OutPos
<1> HIDE DEF ss
<1>6. OutPos(t, 0) = OutsAt(t) /\ OutPos(t, Len(t.outs)) = WitsAt(t)
  BY <1>2, <1>3, <1>4, <1>5
<1>7. ASSUME NEW n \in 0..Len(t.outs) PROVE OutPos(t, n) \in Nat
  BY <1>2, <1>3, <1>4, <1>5
<1>8. ASSUME NEW n \in 1..Len(t.outs) PROVE OutPos(t, n) = OutPos(t, n - 1) + Len(SerializeOutput(t.outs[n]))
  <2>1. n \in 0..Len(ss) /\ n - 1 \in 0..Len(ss) /\ n \in 1..Len(ss)
    BY <1>1, <1>2
  <2>2. At(ss, n) \in Nat /\ At(ss, n - 1) \in Nat /\ At(ss, n) = At(ss, n - 1) + Len(ss[n])
    BY <2>1, <1>4
  <2>3. Len(ss[n]) \in Nat /\ ss[n] = SerializeOutput(t.outs[n])
    BY <2>1, <1>2
  <2> QED BY <2>2, <2>3, <1>3, <1>5
<1> QED BY <1>6, <1>7, <1>8

(* And what lies there.                                                    *)
LEMMA OutLies ==
    ASSUME NEW t \in Transactions, NEW data \in Seq(Octets), NEW at \in Nat, Lies(data, at, SerializeTx(t)),
           NEW n \in 1..Len(t.outs)
    PROVE  Lies(data, at + OutPos(t, n - 1), SerializeOutput(t.outs[n]))
<1> DEFINE ss == OutBytes(t.outs)
<1>1. t.outs \in Seq(Outputs)
  BY TransactionFacts
<1>2. ss \in Seq(Seq(Octets)) /\ Len(ss) = Len(t.outs) /\ ss[n] = SerializeOutput(t.outs[n])
  BY <1>1, OutBytesType
<1>3. Lies(data, at + OutsAt(t), FlattenSeq(ss))
  BY TxAt
<1>4. OutsAt(t) \in Nat /\ at + OutsAt(t) \in Nat
  BY PlaceType
<1> HIDE DEF ss
<1>5. Lies(data, (at + OutsAt(t)) + At(ss, n - 1), ss[n])
  BY <1>2, <1>3, <1>4, LiesFlatten
<1>6. (at + OutsAt(t)) + At(ss, n - 1) = at + OutPos(t, n - 1)
  <2>1. n - 1 \in 0..Len(ss)
    BY <1>1, <1>2
  <2>2. At(ss, n - 1) \in Nat
    BY <1>2, <2>1, AtIs
  <2>3. OutPos(t, n - 1) = OutsAt(t) + At(ss, n - 1)
    BY DEF OutPos, ss
  <2> QED BY <1>4, <2>2, <2>3
<1> QED BY <1>2, <1>5, <1>6

(* The witnesses of a transaction: places, from the first to the locktime. *)
LEMMA WitPlace ==
    ASSUME NEW t \in Transactions
    PROVE  /\ WitPos(t, 0) = WitsAt(t) /\ WitPos(t, Len(t.wits)) = LockAt(t)
           /\ \A n \in 0..Len(t.wits) : WitPos(t, n) \in Nat
           /\ \A n \in 1..Len(t.wits) : WitPos(t, n) = WitPos(t, n - 1) + Len(SerializeWitness(t.wits[n]))
<1> DEFINE ss == WitBytes(t.wits)
<1>1. t.wits \in Seq(Seq(Seq(Octets)))
  BY TransactionFacts
<1>2. ss \in Seq(Seq(Octets)) /\ Len(ss) = Len(t.wits) /\ \A n \in 1..Len(t.wits) : ss[n] = SerializeWitness(t.wits[n])
  BY <1>1, WitBytesType
<1>3. WitsAt(t) \in Nat
  BY PlaceType
<1>4. /\ At(ss, 0) = 0 /\ At(ss, Len(ss)) = Len(FlattenSeq(ss))
      /\ (\A n \in 0..Len(ss) : At(ss, n) \in Nat)
      /\ \A n \in 1..Len(ss) : At(ss, n) = At(ss, n - 1) + Len(ss[n])
  BY <1>2, AtIs
<1>5. LockAt(t) = WitsAt(t) + Len(FlattenSeq(ss)) /\ \A n : WitPos(t, n) = WitsAt(t) + At(ss, n)
  BY DEF LockAt, WitPos
<1> HIDE DEF ss
<1>6. WitPos(t, 0) = WitsAt(t) /\ WitPos(t, Len(t.wits)) = LockAt(t)
  BY <1>2, <1>3, <1>4, <1>5
<1>7. ASSUME NEW n \in 0..Len(t.wits) PROVE WitPos(t, n) \in Nat
  BY <1>2, <1>3, <1>4, <1>5
<1>8. ASSUME NEW n \in 1..Len(t.wits) PROVE WitPos(t, n) = WitPos(t, n - 1) + Len(SerializeWitness(t.wits[n]))
  <2>1. n \in 0..Len(ss) /\ n - 1 \in 0..Len(ss) /\ n \in 1..Len(ss)
    BY <1>1, <1>2
  <2>2. At(ss, n) \in Nat /\ At(ss, n - 1) \in Nat /\ At(ss, n) = At(ss, n - 1) + Len(ss[n])
    BY <2>1, <1>4
  <2>3. Len(ss[n]) \in Nat /\ ss[n] = SerializeWitness(t.wits[n])
    BY <2>1, <1>2
  <2> QED BY <2>2, <2>3, <1>3, <1>5
<1> QED BY <1>6, <1>7, <1>8

(* And what lies there.                                                    *)
LEMMA WitLies ==
    ASSUME NEW t \in Transactions, NEW data \in Seq(Octets), NEW at \in Nat, Lies(data, at, SerializeTx(t)),
           NEW n \in 1..Len(t.wits)
    PROVE  Lies(data, at + WitPos(t, n - 1), SerializeWitness(t.wits[n]))
<1> DEFINE ss == WitBytes(t.wits)
<1>1. t.wits \in Seq(Seq(Seq(Octets)))
  BY TransactionFacts
<1>2. ss \in Seq(Seq(Octets)) /\ Len(ss) = Len(t.wits) /\ ss[n] = SerializeWitness(t.wits[n])
  BY <1>1, WitBytesType
<1>3. Lies(data, at + WitsAt(t), FlattenSeq(ss))
  BY TxAt
<1>4. WitsAt(t) \in Nat /\ at + WitsAt(t) \in Nat
  BY PlaceType
<1> HIDE DEF ss
<1>5. Lies(data, (at + WitsAt(t)) + At(ss, n - 1), ss[n])
  BY <1>2, <1>3, <1>4, LiesFlatten
<1>6. (at + WitsAt(t)) + At(ss, n - 1) = at + WitPos(t, n - 1)
  <2>1. n - 1 \in 0..Len(ss)
    BY <1>1, <1>2
  <2>2. At(ss, n - 1) \in Nat
    BY <1>2, <2>1, AtIs
  <2>3. WitPos(t, n - 1) = WitsAt(t) + At(ss, n - 1)
    BY DEF WitPos, ss
  <2> QED BY <1>4, <2>2, <2>3
<1> QED BY <1>2, <1>5, <1>6

(* The items of a witness: places, from the first to the next witness.     *)
LEMMA ItemPlace ==
    ASSUME NEW t \in Transactions, NEW i \in 1..Len(t.wits)
    PROVE  /\ ItemPos(t, i, 0) = WitPos(t, i - 1) + Len(CompactSizeEncode(Len(t.wits[i])))
           /\ ItemPos(t, i, Len(t.wits[i])) = WitPos(t, i)
           /\ \A n \in 0..Len(t.wits[i]) : ItemPos(t, i, n) \in Nat
           /\ \A n \in 1..Len(t.wits[i]) : ItemPos(t, i, n) = ItemPos(t, i, n - 1) + Len(Sized(t.wits[i][n]))
<1> DEFINE w == t.wits[i]
           ss == ItemBytes(w)
           c == Len(CompactSizeEncode(Len(w)))
           p == WitPos(t, i - 1)
<1>1. t.wits \in Seq(Seq(Seq(Octets)))
  BY TransactionFacts
<1>2. w \in Seq(Seq(Octets)) /\ i - 1 \in 0..Len(t.wits) /\ Len(w) \in Nat
  BY <1>1
<1>3. ss \in Seq(Seq(Octets)) /\ Len(ss) = Len(w) /\ \A n \in 1..Len(w) : ss[n] = Sized(w[n])
  BY <1>2, ItemBytesType
<1>4. p \in Nat /\ c \in Nat
  <2>1. p \in Nat
    BY <1>2, WitPlace
  <2>2. CompactSizeEncode(Len(w)) \in Seq(Octets)
    BY <1>2, CompactSizeType
  <2> QED BY <2>1, <2>2
<1>5. /\ At(ss, 0) = 0 /\ At(ss, Len(ss)) = Len(FlattenSeq(ss))
      /\ (\A n \in 0..Len(ss) : At(ss, n) \in Nat)
      /\ \A n \in 1..Len(ss) : At(ss, n) = At(ss, n - 1) + Len(ss[n])
  BY <1>3, AtIs
<1>6. \A n : ItemPos(t, i, n) = p + c + At(ss, n)
  BY DEF ItemPos
<1>7. WitPos(t, i) = p + (c + Len(FlattenSeq(ss)))
  <2>1. WitPos(t, i) = p + Len(SerializeWitness(w))
    BY WitPlace
  <2>2. Len(SerializeWitness(w)) = c + Len(FlattenSeq(ss))
    BY <1>2, WitnessType
  <2> QED BY <2>1, <2>2
<1> HIDE DEF ss, c, p, w
<1>8. ItemPos(t, i, 0) = p + c /\ ItemPos(t, i, Len(w)) = WitPos(t, i)
  <2>1. Len(w) \in 0..Len(ss) /\ At(ss, Len(w)) \in Nat
    BY <1>2, <1>3, <1>5
  <2>2. At(ss, Len(w)) = Len(FlattenSeq(ss)) /\ At(ss, 0) = 0
    BY <1>3, <1>5, Zenon
  <2>3. ItemPos(t, i, 0) = p + c + 0 /\ ItemPos(t, i, Len(w)) = p + c + At(ss, Len(w))
    BY <1>6, <2>2, Zenon
  <2> QED BY <1>4, <1>7, <2>1, <2>2, <2>3
<1>9. ASSUME NEW n \in 0..Len(w) PROVE ItemPos(t, i, n) \in Nat
  BY <1>3, <1>4, <1>5, <1>6
<1>10. ASSUME NEW n \in 1..Len(w) PROVE ItemPos(t, i, n) = ItemPos(t, i, n - 1) + Len(Sized(w[n]))
  <2>1. n \in 0..Len(ss) /\ n - 1 \in 0..Len(ss) /\ n \in 1..Len(ss)
    BY <1>2, <1>3
  <2>2. At(ss, n) \in Nat /\ At(ss, n - 1) \in Nat /\ At(ss, n) = At(ss, n - 1) + Len(ss[n])
    BY <2>1, <1>5
  <2>3. Len(ss[n]) \in Nat /\ ss[n] = Sized(w[n])
    BY <2>1, <1>3
  <2> QED BY <2>2, <2>3, <1>4, <1>6
<1>11. /\ ItemPos(t, i, 0) = p + c /\ ItemPos(t, i, Len(w)) = WitPos(t, i)
       /\ (\A n \in 0..Len(w) : ItemPos(t, i, n) \in Nat)
       /\ \A n \in 1..Len(w) : ItemPos(t, i, n) = ItemPos(t, i, n - 1) + Len(Sized(w[n]))
  BY <1>8, <1>9, <1>10
<1> QED BY <1>11, Zenon DEF w, p, c

(* And what lies there.                                                    *)
LEMMA ItemLies ==
    ASSUME NEW t \in Transactions, NEW data \in Seq(Octets), NEW at \in Nat, Lies(data, at, SerializeTx(t)),
           NEW i \in 1..Len(t.wits), NEW n \in 1..Len(t.wits[i])
    PROVE  Lies(data, at + ItemPos(t, i, n - 1), Sized(t.wits[i][n]))
<1> DEFINE w == t.wits[i]
           ss == ItemBytes(w)
           c == Len(CompactSizeEncode(Len(w)))
           p == WitPos(t, i - 1)
<1>1. t.wits \in Seq(Seq(Seq(Octets)))
  BY TransactionFacts
<1>2. w \in Seq(Seq(Octets)) /\ i - 1 \in 0..Len(t.wits) /\ Len(w) \in Nat
  BY <1>1
<1>3. ss \in Seq(Seq(Octets)) /\ Len(ss) = Len(w) /\ ss[n] = Sized(w[n])
  BY <1>2, ItemBytesType
<1>4. p \in Nat /\ c \in Nat
  <2>1. p \in Nat
    BY <1>2, WitPlace
  <2>2. CompactSizeEncode(Len(w)) \in Seq(Octets)
    BY <1>2, CompactSizeType
  <2> QED BY <2>1, <2>2
<1>5. Lies(data, at + p, SerializeWitness(w))
  BY WitLies
<1>6. at + p \in Nat
  BY <1>4
<1>7. Lies(data, (at + p) + c, FlattenSeq(ss))
  <2> HIDE DEF w, p
  <2> QED BY <1>2, <1>5, <1>6, WitnessAt
<1>8. \A k : ItemPos(t, i, k) = p + c + At(ss, k)
  BY DEF ItemPos
<1>9. n \in 1..Len(w)
  OBVIOUS
<1> HIDE DEF ss, c, p, w
<1>10. n \in 1..Len(ss) /\ n - 1 \in 0..Len(ss)
  BY <1>2, <1>3, <1>9
<1>11. (at + p) + c \in Nat
  BY <1>4
<1>12. Lies(data, ((at + p) + c) + At(ss, n - 1), ss[n])
  BY <1>3, <1>7, <1>10, <1>11, LiesFlatten
<1>13. At(ss, n - 1) \in Nat
  BY <1>3, <1>10, AtIs
<1>14. ((at + p) + c) + At(ss, n - 1) = at + ItemPos(t, i, n - 1)
  BY <1>4, <1>8, <1>13
<1>15. Lies(data, at + ItemPos(t, i, n - 1), Sized(w[n]))
  BY <1>3, <1>12, <1>14
<1> QED BY <1>15 DEF w

(* The transactions of a block: places, from the first to the end.         *)
LEMMA TxPlace ==
    ASSUME block \in Blocks
    PROVE  /\ TxPos(0) = TxsAt(block) /\ TxPos(Len(block.txs)) = Len(SerializeBlock(block))
           /\ \A n \in 0..Len(block.txs) : TxPos(n) \in Nat
           /\ \A n \in 1..Len(block.txs) : TxPos(n) = TxPos(n - 1) + Len(SerializeTx(block.txs[n]))
<1> DEFINE ss == TxBytes(block.txs)
           s == block.txs
<1>1. s \in Seq(Transactions) /\ TxsAt(block) \in Nat /\ Len(SerializeBlock(block)) = TxsAt(block) + Len(FlattenSeq(ss))
  BY BlockType
<1>2. ss \in Seq(Seq(Octets)) /\ Len(ss) = Len(s) /\ \A n \in 1..Len(s) : ss[n] = SerializeTx(s[n])
  BY <1>1, TxBytesType
<1>4. /\ At(ss, 0) = 0 /\ At(ss, Len(ss)) = Len(FlattenSeq(ss))
      /\ (\A n \in 0..Len(ss) : At(ss, n) \in Nat)
      /\ \A n \in 1..Len(ss) : At(ss, n) = At(ss, n - 1) + Len(ss[n])
  BY <1>2, AtIs
<1>5. \A n : TxPos(n) = TxsAt(block) + At(ss, n)
  BY DEF TxPos
<1> HIDE DEF ss, s
<1>6. TxPos(0) = TxsAt(block) /\ TxPos(Len(s)) = Len(SerializeBlock(block))
  BY <1>1, <1>2, <1>4, <1>5
<1>7. ASSUME NEW n \in 0..Len(s) PROVE TxPos(n) \in Nat
  BY <1>1, <1>2, <1>4, <1>5
<1>8. ASSUME NEW n \in 1..Len(s) PROVE TxPos(n) = TxPos(n - 1) + Len(SerializeTx(s[n]))
  <2>1. n \in 0..Len(ss) /\ n - 1 \in 0..Len(ss) /\ n \in 1..Len(ss)
    BY <1>1, <1>2
  <2>2. At(ss, n) \in Nat /\ At(ss, n - 1) \in Nat /\ At(ss, n) = At(ss, n - 1) + Len(ss[n])
    BY <2>1, <1>4
  <2>3. Len(ss[n]) \in Nat /\ ss[n] = SerializeTx(s[n])
    BY <2>1, <1>2
  <2> QED BY <2>2, <2>3, <1>1, <1>5
<1> QED BY <1>6, <1>7, <1>8 DEF s

(* And what lies there.                                                    *)
LEMMA TxLies ==
    ASSUME block \in Blocks, NEW n \in 1..Len(block.txs)
    PROVE  Lies(SerializeBlock(block), TxPos(n - 1), SerializeTx(block.txs[n]))
<1> DEFINE ss == TxBytes(block.txs)
           s == block.txs
<1>1. s \in Seq(Transactions) /\ TxsAt(block) \in Nat /\ SerializeBlock(block) \in Seq(Octets)
      /\ Lies(SerializeBlock(block), TxsAt(block), FlattenSeq(ss))
  BY BlockType
<1>2. ss \in Seq(Seq(Octets)) /\ Len(ss) = Len(s) /\ ss[n] = SerializeTx(s[n])
  BY <1>1, TxBytesType
<1> HIDE DEF ss
<1>3. Lies(SerializeBlock(block), TxsAt(block) + At(ss, n - 1), ss[n])
  BY <1>1, <1>2, LiesFlatten
<1> QED BY <1>2, <1>3 DEF TxPos, ss

(* Nothing is a beginning.                                                 *)
LEMMA BeginsEmpty == ASSUME NEW S, NEW b \in Seq(S) PROVE Begins(<< >>, b)
BY DEF Begins

(* The next element makes a longer one.                                    *)
LEMMA BeginsAppend ==
    ASSUME NEW S, NEW a \in Seq(S), NEW b \in Seq(S), Begins(a, b), Len(a) < Len(b), NEW x \in S, x = b[Len(a) + 1]
    PROVE  Begins(Append(a, x), b)
<1> DEFINE c == Append(a, x)
<1>1. Len(c) = Len(a) + 1 /\ c[Len(a) + 1] = x /\ (\A i \in 1..Len(a) : c[i] = a[i]) /\ Len(a) \in Nat /\ Len(b) \in Nat
  BY AppendIs
<1> HIDE DEF c
<1>2. ASSUME NEW i \in 1..Len(c) PROVE c[i] = b[i]
  <2>1. i \in 1..Len(a) \/ i = Len(a) + 1
    BY <1>1
  <2> QED BY <1>1, <2>1 DEF Begins
<1>3. Len(c) <= Len(b)
  BY <1>1
<1>4. Begins(c, b)
  BY <1>2, <1>3 DEF Begins
<1> QED BY <1>4 DEF c

(* A beginning that is not shorter is the whole.                           *)
LEMMA BeginsWhole ==
    ASSUME NEW S, NEW a \in Seq(S), NEW b \in Seq(S), Begins(a, b), ~(Len(a) < Len(b))
    PROVE  a = b
<1>1. Len(a) = Len(b) /\ \A i \in 1..Len(a) : a[i] = b[i]
  BY DEF Begins
<1> QED BY <1>1, SeqEqual

(* A size at i, and the place behind it. *)
SizeAt(i) == U16(CompactSizeDecode(i).value)
Behind(i) == i + CompactSizeDecode(i).size

(* A size that fits is read back.                                          *)
LEMMA SizeRead ==
    ASSUME buf \in Seq(Octets), NEW i \in Nat, NEW v \in Nat, v < U16Range, Lies(buf, i, CompactSizeEncode(v))
    PROVE  SizeAt(i) = v /\ Behind(i) = i + Len(CompactSizeEncode(v))
<1>1. CompactSizeDecode(i).value = v /\ CompactSizeDecode(i).size = Len(CompactSizeEncode(v))
  BY CompactSizeRead
<1>2. U16(v) = v
  BY U16Small
<1> QED BY <1>1, <1>2 DEF SizeAt, Behind

(* Its length is a natural.                                                *)
LEMMA SizeType == ASSUME NEW v \in Nat PROVE Len(CompactSizeEncode(v)) \in Nat
<1>1. CompactSizeEncode(v) \in Seq(Octets)
  BY CompactSizeType
<1> QED BY <1>1

(* The input and the output that the reader makes of the bytes at p. *)
InputFrom(p) ==
    LET at == p + OutpointSize
    IN  [outpoint |-> Slice(p, OutpointSize), script |-> Slice(Behind(at), SizeAt(at)),
         sequence |-> Slice(Behind(at) + SizeAt(at), SequenceSize)]
InputEnd(p) == Behind(p + OutpointSize) + SizeAt(p + OutpointSize) + SequenceSize

OutputFrom(p) ==
    LET at == p + AmountSize
    IN  [amount |-> Slice(p, AmountSize), script |-> Slice(Behind(at), SizeAt(at))]
OutputEnd(p) == Behind(p + AmountSize) + SizeAt(p + AmountSize)

(* An input is read where it lies.                                         *)
LEMMA InputRead ==
    ASSUME buf \in Seq(Octets), NEW p \in Nat, NEW in \in Inputs, Len(in.script) < U16Range,
           Lies(buf, p, SerializeInput(in))
    PROVE  InputFrom(p) = in /\ InputEnd(p) = p + Len(SerializeInput(in))
<1> DEFINE at == p + OutpointSize
           n == Len(in.script)
           c == Len(CompactSizeEncode(n))
<1>1. OutpointSize \in Nat /\ SequenceSize \in Nat
  BY SizeFacts
<1>2. /\ in.outpoint \in Seq(Octets) /\ Len(in.outpoint) = OutpointSize /\ in.script \in Seq(Octets)
      /\ in.sequence \in Seq(Octets) /\ Len(in.sequence) = SequenceSize
      /\ Len(SerializeInput(in)) = OutpointSize + Len(Sized(in.script)) + SequenceSize
  BY InputType
<1>3. n \in Nat /\ Len(Sized(in.script)) = c + n
  <2>1. in.script \in Seq(Octets)
    BY <1>2
  <2>2. n \in Nat
    BY <2>1
  <2> QED BY <2>1, <2>2, SizedType, Zenon
<1>4. c \in Nat
  BY <1>3, SizeType
<1>5. /\ Lies(buf, p, in.outpoint) /\ Lies(buf, at, CompactSizeEncode(n))
      /\ Lies(buf, at + c, in.script) /\ Lies(buf, at + c + n, in.sequence)
  <2>1. Lies(buf, p, in.outpoint) /\ Lies(buf, at, CompactSizeEncode(n))
    BY InputAt, Zenon
  <2>2. Lies(buf, at + c, in.script)
    BY InputAt, Zenon
  <2>3. Lies(buf, at + c + n, in.sequence)
    BY InputAt, Zenon
  <2> QED BY <2>1, <2>2, <2>3
<1>6. at \in Nat /\ at + c \in Nat /\ at + c + n \in Nat
  <2>1. n \in Nat /\ c \in Nat
    BY <1>3, <1>4
  <2> HIDE DEF n, c
  <2> QED BY <1>1, <2>1
<1> HIDE DEF at
<1>7. SizeAt(at) = n /\ Behind(at) = at + c
  BY <1>3, <1>5, <1>6, SizeRead
<1>8. Slice(p, OutpointSize) = in.outpoint
  BY <1>2, <1>5, SliceIs
<1>9. Slice(at + c, n) = in.script
  BY <1>2, <1>5, <1>6, SliceIs
<1>10. Slice(at + c + n, SequenceSize) = in.sequence
  BY <1>2, <1>5, <1>6, SliceIs
<1>11. InputFrom(p) = [outpoint |-> in.outpoint, script |-> in.script, sequence |-> in.sequence]
  <2>1. InputFrom(p) = [outpoint |-> Slice(p, OutpointSize), script |-> Slice(Behind(at), SizeAt(at)),
                        sequence |-> Slice(Behind(at) + SizeAt(at), SequenceSize)]
    BY Zenon DEF InputFrom, at
  <2> QED BY <2>1, <1>7, <1>8, <1>9, <1>10, Zenon
<1>12. in = [outpoint |-> in.outpoint, script |-> in.script, sequence |-> in.sequence]
  BY DEF Inputs
<1>13. InputEnd(p) = at + c + n + SequenceSize
  BY <1>7 DEF InputEnd, at
<1>14. InputEnd(p) = p + Len(SerializeInput(in))
  <2> HIDE DEF n, c
  <2> QED BY <1>1, <1>2, <1>3, <1>4, <1>13 DEF at
<1> QED BY <1>11, <1>12, <1>14, Zenon

(* An output is read where it lies.                                        *)
LEMMA OutputRead ==
    ASSUME buf \in Seq(Octets), NEW p \in Nat, NEW out \in Outputs, Len(out.script) < U16Range,
           Lies(buf, p, SerializeOutput(out))
    PROVE  OutputFrom(p) = out /\ OutputEnd(p) = p + Len(SerializeOutput(out))
<1> DEFINE at == p + AmountSize
           n == Len(out.script)
           c == Len(CompactSizeEncode(n))
<1>1. AmountSize \in Nat
  BY SizeFacts
<1>2. /\ out.amount \in Seq(Octets) /\ Len(out.amount) = AmountSize /\ out.script \in Seq(Octets)
      /\ Len(SerializeOutput(out)) = AmountSize + Len(Sized(out.script))
  BY OutputType
<1>3. n \in Nat /\ Len(Sized(out.script)) = c + n
  <2>1. out.script \in Seq(Octets)
    BY <1>2
  <2>2. n \in Nat
    BY <2>1
  <2> QED BY <2>1, <2>2, SizedType, Zenon
<1>4. c \in Nat
  BY <1>3, SizeType
<1>5. /\ Lies(buf, p, out.amount) /\ Lies(buf, at, CompactSizeEncode(n))
      /\ Lies(buf, at + c, out.script)
  BY OutputAt, Zenon
<1>6. at \in Nat /\ at + c \in Nat
  BY <1>1, <1>3, <1>4
<1> HIDE DEF at
<1>7. SizeAt(at) = n /\ Behind(at) = at + c
  BY <1>3, <1>5, <1>6, SizeRead
<1>8. Slice(p, AmountSize) = out.amount
  BY <1>2, <1>5, SliceIs
<1>9. Slice(at + c, n) = out.script
  BY <1>2, <1>5, <1>6, SliceIs
<1>11. OutputFrom(p) = [amount |-> out.amount, script |-> out.script]
  <2>1. OutputFrom(p) = [amount |-> Slice(p, AmountSize), script |-> Slice(Behind(at), SizeAt(at))]
    BY Zenon DEF OutputFrom, at
  <2> QED BY <2>1, <1>7, <1>8, <1>9, Zenon
<1>12. out = [amount |-> out.amount, script |-> out.script]
  BY DEF Outputs
<1>13. OutputEnd(p) = at + c + n
  BY <1>7 DEF OutputEnd, at
<1>14. OutputEnd(p) = p + Len(SerializeOutput(out))
  <2> HIDE DEF n, c
  <2> QED BY <1>1, <1>2, <1>3, <1>4, <1>13 DEF at
<1> QED BY <1>11, <1>12, <1>14, Zenon

(* So is an item of a witness.                                             *)
LEMMA ItemRead ==
    ASSUME buf \in Seq(Octets), NEW p \in Nat, NEW x \in Seq(Octets), Len(x) < U16Range, Lies(buf, p, Sized(x))
    PROVE  Slice(Behind(p), SizeAt(p)) = x /\ Behind(p) + SizeAt(p) = p + Len(Sized(x))
<1> DEFINE n == Len(x)
           c == Len(CompactSizeEncode(n))
<1>1. n \in Nat /\ Len(Sized(x)) = c + n
  BY SizedType
<1>2. c \in Nat
  BY <1>1, SizeType
<1>3. Lies(buf, p, CompactSizeEncode(n)) /\ Lies(buf, p + c, x)
  BY SizedAt
<1>4. SizeAt(p) = n /\ Behind(p) = p + c
  BY <1>1, <1>3, SizeRead
<1>5. p + c \in Nat
  BY <1>2
<1>6. Slice(p + c, n) = x
  BY <1>3, <1>5, SliceIs
<1> HIDE DEF n, c
<1>7. Behind(p) + SizeAt(p) = p + Len(Sized(x))
  BY <1>1, <1>2, <1>4
<1> QED BY <1>4, <1>6, <1>7, Zenon

(* Every count and size of a transaction fits. *)
Fits(t) ==
    /\ t \in Transactions
    /\ Len(t.ins) < U16Range /\ Len(t.outs) < U16Range
    /\ \A j \in 1..Len(t.ins) : Len(t.ins[j].script) < U16Range
    /\ \A j \in 1..Len(t.outs) : Len(t.outs[j].script) < U16Range
    /\ \A j \in 1..Len(t.wits) : Len(t.wits[j]) < U16Range /\ \A k \in 1..Len(t.wits[j]) : Len(t.wits[j][k]) < U16Range

(* What SizesFit says of each transaction.                                 *)
LEMMA FitsFacts ==
    ASSUME block \in Blocks, SizesFit
    PROVE  \A i \in 1..Len(block.txs) : Fits(block.txs[i])
<1> SUFFICES ASSUME NEW i \in 1..Len(block.txs) PROVE Fits(block.txs[i])
  OBVIOUS
<1> DEFINE t == block.txs[i]
<1>1. block.txs \in Seq(Transactions)
  BY BlockType
<1>2. t \in Transactions /\ t \in ToSet(block.txs)
  BY <1>1 DEF ToSet
<1> HIDE DEF t
<1>3. t.ins \in Seq(Inputs) /\ t.outs \in Seq(Outputs) /\ t.wits \in Seq(Seq(Seq(Octets)))
  BY <1>2, TransactionFacts
<1>4. /\ \A s \in {t.ins, t.outs} : Len(s) < U16Range /\ \A e \in ToSet(s) : Len(e.script) < U16Range
      /\ \A w \in ToSet(t.wits) : Len(w) < U16Range /\ \A item \in ToSet(w) : Len(item) < U16Range
  BY <1>2, Zenon DEF SizesFit
<1>5. \A S, s : s \in Seq(S) => \A j \in 1..Len(s) : s[j] \in ToSet(s)
  BY DEF ToSet
<1>6. Len(t.ins) < U16Range /\ \A e \in ToSet(t.ins) : Len(e.script) < U16Range
  BY <1>4, Zenon
<1>7. Len(t.outs) < U16Range /\ \A e \in ToSet(t.outs) : Len(e.script) < U16Range
  BY <1>4, Zenon
<1>8. \A j \in 1..Len(t.ins) : Len(t.ins[j].script) < U16Range
  BY <1>3, <1>5, <1>6
<1>9. \A j \in 1..Len(t.outs) : Len(t.outs[j].script) < U16Range
  BY <1>3, <1>5, <1>7
<1>10. ASSUME NEW j \in 1..Len(t.wits)
       PROVE Len(t.wits[j]) < U16Range /\ \A k \in 1..Len(t.wits[j]) : Len(t.wits[j][k]) < U16Range
  <2>1. t.wits[j] \in ToSet(t.wits) /\ t.wits[j] \in Seq(Seq(Octets))
    BY <1>3, <1>5
  <2>2. Len(t.wits[j]) < U16Range /\ \A item \in ToSet(t.wits[j]) : Len(item) < U16Range
    BY <1>4, <2>1
  <2> QED BY <2>1, <2>2, <1>5
<1>11. Fits(t)
  BY <1>2, <1>6, <1>7, <1>8, <1>9, <1>10 DEF Fits
<1> QED BY <1>11 DEF t

(* A count of inputs is never taken for a marker. *)
LEMMA FirstNotZero ==
    ASSUME buf \in Seq(Octets), NEW i \in Nat, NEW v \in Nat, v > 0, v < U16Range, Lies(buf, i, CompactSizeEncode(v))
    PROVE  Byte(i) # 0
<1> DEFINE w == CompactSizeEncode(v)
<1>1. w \in Seq(Octets) /\ Len(w) >= 1 /\ w = IF v < FD THEN <<v>> ELSE <<FD>> \o Digits(v, 2)
  BY CompactSizeType, SmallSizes
<1>2. FD \in Nat /\ FD > 0 /\ FD \in Octets
  BY BaseAssumption, ByteFacts DEF FD
<1>3. w[1] # 0
  <2>1. CASE v < FD
    <3>1. w = <<v>>
      BY <1>1, <2>1, Zenon
    <3>2. <<v>>[1] = v
      OBVIOUS
    <3>3. w[1] = v
      BY <3>1, <3>2, Zenon
    <3> HIDE DEF w
    <3> QED BY <3>3
  <2>2. CASE ~(v < FD)
    <3>1. w = <<FD>> \o Digits(v, 2)
      BY <1>1, <2>2, Zenon
    <3>2. Digits(v, 2) \in Seq(Octets)
      <4>1. 2 \in Nat
        OBVIOUS
      <4> QED BY <4>1, DigitsType, Zenon
    <3>3. (<<FD>> \o Digits(v, 2))[1] = FD
      BY <1>2, <3>2, OneMore
    <3>4. w[1] = FD
      BY <3>1, <3>3, Zenon
    <3> HIDE DEF w
    <3> QED BY <3>4, <1>2
  <2> QED BY <2>1, <2>2
<1> HIDE DEF w
<1>4. buf[i + 1] = w[1] /\ i < Len(buf)
  <2>1. Lies(buf, i, w)
    BY DEF w
  <2>2. 1 \in 1..Len(w) /\ Len(w) \in Nat
    BY <1>1
  <2>3. buf[i + 1] = w[1] /\ i + Len(w) <= Len(buf)
    BY <2>1, <2>2 DEF Lies
  <2> QED BY <2>3, <1>1
<1> QED BY <1>3, <1>4 DEF Byte

(* Marker and flag are read where they were written, and only there. *)
LEMMA MarkRead ==
    ASSUME buf \in Seq(Octets), NEW p \in Nat, NEW t, Fits(t), Lies(buf, p, SerializeTx(t))
    PROVE  /\ IsSegwit(Byte(p + VersionSize), Byte(p + VersionSize + 1)) <=> t.segwit
           /\ p + InCountAt(t) = IF t.segwit THEN p + VersionSize + 2 ELSE p + VersionSize
<1> DEFINE a == p + VersionSize
<1>1. t \in Transactions /\ Len(t.ins) < U16Range
  BY DEF Fits
<1>2. Len(t.ins) \in Nat /\ Len(t.ins) > 0 /\ t.segwit \in BOOLEAN
  BY <1>1, TransactionFacts
<1>3. VersionSize \in Nat /\ a \in Nat
  BY SizeFacts
<1>4. Lies(buf, a, Mark(t)) /\ Lies(buf, p + InCountAt(t), CompactSizeEncode(Len(t.ins)))
  BY <1>1, TxAt
<1> HIDE DEF a
<1>5. CASE t.segwit
  <2>1. Mark(t) = <<0, 1>> /\ Len(<<0, 1>>) = 2 /\ <<0, 1>>[1] = 0 /\ <<0, 1>>[2] = 1
    BY <1>5 DEF Mark
  <2>2. InCountAt(t) = VersionSize + 2
    BY <2>1 DEF InCountAt
  <2>3. a + 2 <= Len(buf) /\ buf[a + 1] = 0 /\ buf[a + 2] = 1
    BY <1>4, <2>1 DEF Lies
  <2>4. Byte(a) = 0 /\ Byte(a + 1) = 1
    <3>1. a < Len(buf) /\ a + 1 < Len(buf) /\ (a + 1) + 1 = a + 2
      BY <2>3, <1>3
    <3> QED BY <2>3, <3>1 DEF Byte
  <2>5. IsSegwit(Byte(a), Byte(a + 1))
    BY <2>4 DEF IsSegwit
  <2> QED BY <1>5, <1>3, <2>2, <2>5 DEF a
<1>6. CASE ~t.segwit
  <2>1. InCountAt(t) = VersionSize
    <3>1. Len(Mark(t)) = 0
      BY <1>6 DEF Mark
    <3> QED BY <3>1, <1>3 DEF InCountAt
  <2>2. Lies(buf, a, CompactSizeEncode(Len(t.ins)))
    BY <2>1, <1>4 DEF a
  <2>3. Byte(a) # 0
    BY <1>1, <1>2, <1>3, <2>2, FirstNotZero
  <2>4. ~IsSegwit(Byte(a), Byte(a + 1))
    BY <2>3 DEF IsSegwit
  <2> QED BY <1>6, <2>1, <2>4 DEF a
<1> QED BY <1>2, <1>5, <1>6

(* The transaction under the cursor. *)
LEMMA Here ==
    ASSUME ReaderInv, LoopInv, SizesFit, CursorInv, pc \in Within \/ (pc = "transaction" /\ Len(txs) < txCount)
    PROVE  /\ Fits(Cur) /\ Cur \in Transactions /\ buf \in Seq(Octets) /\ tx \in TxReading
           /\ TxPos(Len(txs)) \in Nat /\ Lies(buf, TxPos(Len(txs)), SerializeTx(Cur))
           /\ TxPos(Len(txs) + 1) = TxPos(Len(txs)) + Len(SerializeTx(Cur))
<1>1. block \in Blocks
  BY GivenFacts DEF ReaderInv, RecordInv
<1>2. txs \in Seq(TxRead) /\ buf \in Seq(Octets) /\ tx \in TxReading
  BY DEF ReaderInv, TypeInv
<1>3. buf = SerializeBlock(block) /\ txCount = Len(block.txs) /\ Len(txs) < txCount
  BY DEF ReaderInv, BufferInv, CursorInv, LoopInv, Before, Within
<1>4. Len(txs) \in Nat /\ Len(block.txs) \in Nat
  <2>1. block.txs \in Seq(Transactions)
    BY <1>1, BlockType
  <2> QED BY <2>1, <1>2
<1> DEFINE n == Len(txs) + 1
<1>5. n \in 1..Len(block.txs) /\ n - 1 = Len(txs) /\ Len(txs) \in 0..Len(block.txs)
  BY <1>3, <1>4
<1>6. Fits(block.txs[n])
  BY <1>1, <1>5, FitsFacts
<1>7. TxPos(Len(txs)) \in Nat
  BY <1>1, <1>5, TxPlace
<1>8. Lies(SerializeBlock(block), TxPos(n - 1), SerializeTx(block.txs[n]))
  BY <1>1, <1>5, TxLies
<1>9. TxPos(n) = TxPos(n - 1) + Len(SerializeTx(block.txs[n]))
  BY <1>1, <1>5, TxPlace
<1>10. Fits(Cur) /\ Lies(buf, TxPos(Len(txs)), SerializeTx(Cur))
       /\ TxPos(Len(txs) + 1) = TxPos(Len(txs)) + Len(SerializeTx(Cur))
  BY <1>3, <1>5, <1>6, <1>8, <1>9, Zenon DEF Cur
<1> QED BY <1>2, <1>7, <1>10 DEF Fits

(* While a transaction is read, the finished ones and the place of this    *)
(* one stay.                                                               *)
LEMMA Stays ==
    ASSUME UNCHANGED <<block, txs>>
    PROVE  /\ Cur' = Cur /\ TxPos(Len(txs))' = TxPos(Len(txs))
           /\ CursorInv => \A i \in 1..Len(txs') : Same(txs'[i], block'.txs[i])
<1>1. Cur' = Cur /\ TxPos(Len(txs))' = TxPos(Len(txs))
  BY DEF Cur, TxPos, TxsAt
<1>2. ASSUME CursorInv PROVE \A i \in 1..Len(txs') : Same(txs'[i], block'.txs[i])
  BY <1>2 DEF CursorInv
<1> QED BY <1>1, <1>2

(* One lemma for each step that moves the cursor.                          *)
LEMMA CursorReadHeader == ASSUME ReaderInv, LoopInv, SizesFit, ReadHeader PROVE CursorInv'
<1> DEFINE n == Len(block.txs)
<1>1. block \in Blocks
  BY GivenFacts DEF ReaderInv, RecordInv
<1>2. pc = "header" /\ pc' = "transaction" /\ UNCHANGED <<block, txs>> /\ txs = << >>
  BY DEF ReadHeader, LoopInv, input
<1>3. buf = SerializeBlock(block) /\ buf \in Seq(Octets)
  BY <1>2 DEF ReaderInv, BufferInv, Before, TypeInv
<1>4. n \in Nat /\ n < U16Range /\ HeaderSize \in Nat /\ SerializeHeader(block.header) \in Seq(Octets) /\ Len(SerializeHeader(block.header)) = HeaderSize
  BY <1>1, BlockType, SizeFacts DEF SizesFit
<1>5. Lies(buf, 0, SerializeHeader(block.header)) /\ Lies(buf, HeaderSize, CompactSizeEncode(n))
  BY <1>1, <1>3, BlockType
<1>6. SizeAt(HeaderSize) = n /\ Behind(HeaderSize) = HeaderSize + Len(CompactSizeEncode(n))
  BY <1>3, <1>4, <1>5, SizeRead
<1>7. txCount' = SizeAt(HeaderSize) /\ pos' = Behind(HeaderSize) /\ header' = DecodeBlockHeader(Slice(0, HeaderSize))
  BY Zenon DEF ReadHeader, SizeAt, Behind
<1>8. Slice(0, HeaderSize) = SerializeHeader(block.header)
  <2>1. 0 \in Nat
    OBVIOUS
  <2> QED BY <2>1, <1>3, <1>4, <1>5, SliceIs
<1>9. pos' = TxPos(0)
  BY <1>1, <1>6, <1>7, TxPlace DEF TxsAt
<1>10. Len(txs') = 0
  BY <1>2
<1>11. TxPos(Len(txs))' = TxPos(0)
  <2>1. TxPos(Len(txs))' = TxsAt(block)' + At(TxBytes(block.txs)', Len(txs'))
    BY Zenon DEF TxPos
  <2> QED BY <1>2, <1>10, <2>1 DEF TxPos, TxsAt
<1>12. txCount' = Len(block'.txs) /\ header' = DecodeBlockHeader(SerializeHeader(block'.header))
  BY <1>2, <1>6, <1>7, <1>8, Zenon
<1> QED BY <1>2, <1>9, <1>10, <1>11, <1>12 DEF CursorInv, Before, Within, After

LEMMA CursorReadTxVersion == ASSUME ReaderInv, LoopInv, SizesFit, CursorInv, ReadTxVersion PROVE CursorInv'
<1> DEFINE t == Cur
           p == TxPos(Len(txs))
           after == pos + VersionSize
           segwit == IsSegwit(Byte(after), Byte(after + 1))
           at == IF segwit THEN after + 2 ELSE after
<1>1. /\ pc = "transaction" /\ Len(txs) < txCount /\ pc' = "inputs"
      /\ UNCHANGED <<block, header, txCount, txs>> /\ start' = pos
      /\ tx' = NewTx(Slice(pos, VersionSize), segwit, SizeAt(at)) /\ pos' = Behind(at)
  <2>1. /\ pc = "transaction" /\ Len(txs) < txCount /\ pc' = "inputs"
        /\ UNCHANGED <<block, header, txCount, txs>> /\ start' = pos
    BY DEF ReadTxVersion, input
  <2> QED BY <2>1, Zenon DEF ReadTxVersion, SizeAt, Behind
<1>2. /\ Fits(t) /\ t \in Transactions /\ buf \in Seq(Octets) /\ p \in Nat /\ Lies(buf, p, SerializeTx(t))
  BY <1>1, Here
<1>3. pos = p
  BY <1>1 DEF CursorInv
<1>4. Cur' = t /\ TxPos(Len(txs))' = p /\ \A i \in 1..Len(txs') : Same(txs'[i], block'.txs[i])
  BY <1>1, Stays
<1> HIDE DEF t, p
<1>5. (segwit <=> t.segwit) /\ p + InCountAt(t) = IF t.segwit THEN p + VersionSize + 2 ELSE p + VersionSize
  BY <1>2, <1>3, MarkRead
<1>6. t.segwit \in BOOLEAN /\ segwit \in BOOLEAN
  BY <1>2, TransactionFacts DEF IsSegwit
<1> HIDE DEF segwit
<1>7. segwit = t.segwit /\ at = p + InCountAt(t)
  BY <1>3, <1>5, <1>6
<1>8. /\ t.version \in Seq(Octets) /\ Len(t.version) = VersionSize /\ Len(t.ins) \in Nat /\ Len(t.ins) < U16Range
      /\ t.ins \in Seq(Inputs)
  BY <1>2, TransactionFacts DEF Fits
<1>9. Lies(buf, p, t.version) /\ Lies(buf, p + InCountAt(t), CompactSizeEncode(Len(t.ins)))
  BY <1>2, TxAt
<1>10. Slice(pos, VersionSize) = t.version
  BY <1>2, <1>3, <1>8, <1>9, SliceIs
<1>11. InCountAt(t) \in Nat /\ InsAt(t) \in Nat /\ p + InCountAt(t) \in Nat
  BY <1>2, PlaceType
<1> HIDE DEF at
<1>12. SizeAt(at) = Len(t.ins) /\ Behind(at) = at + Len(CompactSizeEncode(Len(t.ins)))
  BY <1>2, <1>7, <1>8, <1>9, <1>11, SizeRead
<1>13. tx' = NewTx(t.version, t.segwit, Len(t.ins))
  BY <1>1, <1>7, <1>10, <1>12, Zenon
<1>14. /\ tx'.version = t.version /\ tx'.segwit = t.segwit /\ tx'.inCount = Len(t.ins) /\ tx'.ins = << >>
  BY <1>13 DEF NewTx
<1>15. Len(tx'.ins) = 0 /\ Begins(tx'.ins, t.ins)
  BY <1>8, <1>14, BeginsEmpty
<1>16. pos' = p + InPos(t, 0)
  <2>1. Len(CompactSizeEncode(Len(t.ins))) \in Nat
    BY <1>8, SizeType
  <2>2. InPos(t, 0) = InCountAt(t) + Len(CompactSizeEncode(Len(t.ins)))
    BY <1>2, InPlace DEF InsAt
  <2> QED BY <1>1, <1>2, <1>7, <1>11, <1>12, <2>1, <2>2
<1>17. AtInputs(Cur)'
  BY <1>1, <1>3, <1>4, <1>15, <1>16 DEF AtInputs
<1>18. InTx(Cur)'
  BY <1>1, <1>3, <1>4, <1>14 DEF InTx
<1>19. txCount' = Len(block'.txs) /\ header' = DecodeBlockHeader(SerializeHeader(block'.header))
  BY <1>1 DEF CursorInv, Before
<1> QED BY <1>1, <1>4, <1>17, <1>18, <1>19 DEF CursorInv, Before, Within, After

LEMMA CursorReadInput == ASSUME ReaderInv, LoopInv, SizesFit, CursorInv, ReadInput PROVE CursorInv'
<1> DEFINE t == Cur
           p == TxPos(Len(txs))
           n == Len(tx.ins)
<1>1. /\ pc = "inputs" /\ pc' = pc /\ n < tx.inCount /\ UNCHANGED <<block, header, txCount, txs, start>>
      /\ tx' = [tx EXCEPT !.ins = Append(@, InputFrom(pos))] /\ pos' = InputEnd(pos)
  <2>1. pc = "inputs" /\ pc' = pc /\ n < tx.inCount /\ UNCHANGED <<block, header, txCount, txs, start>>
    BY DEF ReadInput, input
  <2> QED BY <2>1, Zenon DEF ReadInput, InputFrom, InputEnd, SizeAt, Behind
<1>2. /\ Fits(t) /\ t \in Transactions /\ buf \in Seq(Octets) /\ p \in Nat /\ Lies(buf, p, SerializeTx(t)) /\ tx \in TxReading
  BY <1>1, Here DEF Within
<1>3. /\ start = p /\ tx.version = t.version /\ tx.segwit = t.segwit /\ tx.inCount = Len(t.ins)
      /\ Begins(tx.ins, t.ins) /\ pos = start + InPos(t, n)
  BY <1>1 DEF CursorInv, InTx, AtInputs, Within
<1>4. Cur' = t /\ TxPos(Len(txs))' = p /\ \A i \in 1..Len(txs') : Same(txs'[i], block'.txs[i])
  BY <1>1, Stays
<1> HIDE DEF t, p
<1>5. t.ins \in Seq(Inputs) /\ tx.ins \in Seq(Inputs) /\ n \in Nat /\ Len(t.ins) \in Nat
  BY <1>2, TransactionFacts DEF TxReading
<1> HIDE DEF n
<1>6. n + 1 \in 1..Len(t.ins) /\ (n + 1) - 1 = n /\ n \in 0..Len(t.ins) /\ n < Len(t.ins)
  BY <1>1, <1>3, <1>5
<1> DEFINE in == t.ins[n + 1]
<1>7. in \in Inputs /\ Len(in.script) < U16Range
  BY <1>2, <1>5, <1>6 DEF Fits
<1>8. InPos(t, n) \in Nat /\ InPos(t, n + 1) = InPos(t, n) + Len(SerializeInput(in))
  BY <1>2, <1>6, InPlace
<1>9. Lies(buf, pos, SerializeInput(in)) /\ pos \in Nat
  <2>1. Lies(buf, p + InPos(t, (n + 1) - 1), SerializeInput(in))
    BY <1>2, <1>6, InLies
  <2> QED BY <2>1, <1>2, <1>3, <1>6, <1>8
<1>10. Len(SerializeInput(in)) \in Nat
  BY <1>7, InputType
<1> HIDE DEF in
<1>11. InputFrom(pos) = in /\ InputEnd(pos) = pos + Len(SerializeInput(in))
  BY <1>2, <1>7, <1>9, InputRead
<1>12. /\ tx'.ins = Append(tx.ins, in) /\ tx'.version = tx.version /\ tx'.segwit = tx.segwit /\ tx'.inCount = tx.inCount
  <2>1. tx' = [tx EXCEPT !.ins = Append(tx.ins, in)]
    BY <1>1, <1>11
  <2> QED BY <1>2, <2>1 DEF TxReading
<1>13. Len(tx'.ins) = n + 1 /\ Begins(tx'.ins, t.ins)
  <2>1. Len(Append(tx.ins, in)) = Len(tx.ins) + 1
    BY <1>5, <1>7, AppendIs
  <2>2. Begins(Append(tx.ins, in), t.ins)
    <3>1. in = t.ins[Len(tx.ins) + 1] /\ Len(tx.ins) < Len(t.ins)
      BY <1>6 DEF in, n
    <3> QED BY <3>1, <1>3, <1>5, <1>7, BeginsAppend
  <2> QED BY <2>1, <2>2, <1>12 DEF n
<1>14. pos' = start' + InPos(t, Len(tx'.ins))
  BY <1>1, <1>2, <1>3, <1>8, <1>10, <1>11, <1>13
<1>15. AtInputs(Cur)'
  BY <1>4, <1>13, <1>14 DEF AtInputs
<1>16. InTx(Cur)'
  BY <1>1, <1>3, <1>4, <1>12 DEF InTx
<1>17. txCount' = Len(block'.txs) /\ header' = DecodeBlockHeader(SerializeHeader(block'.header))
  BY <1>1 DEF CursorInv, Before
<1> QED BY <1>1, <1>4, <1>15, <1>16, <1>17 DEF CursorInv, Before, Within, After

LEMMA CursorReadOutputCount == ASSUME ReaderInv, LoopInv, SizesFit, CursorInv, ReadOutputCount PROVE CursorInv'
<1> DEFINE t == Cur
           p == TxPos(Len(txs))
<1>1. /\ pc = "inputs" /\ pc' = "outputs" /\ Len(tx.ins) = tx.inCount /\ UNCHANGED <<block, header, txCount, txs, start>>
      /\ tx' = [tx EXCEPT !.outCount = SizeAt(pos)] /\ pos' = Behind(pos)
  <2>1. pc = "inputs" /\ pc' = "outputs" /\ Len(tx.ins) = tx.inCount /\ UNCHANGED <<block, header, txCount, txs, start>>
    BY DEF ReadOutputCount, input
  <2> QED BY <2>1, Zenon DEF ReadOutputCount, SizeAt, Behind
<1>2. /\ Fits(t) /\ t \in Transactions /\ buf \in Seq(Octets) /\ p \in Nat /\ Lies(buf, p, SerializeTx(t)) /\ tx \in TxReading
  BY <1>1, Here DEF Within
<1>3. /\ start = p /\ tx.version = t.version /\ tx.segwit = t.segwit /\ tx.inCount = Len(t.ins)
      /\ Begins(tx.ins, t.ins) /\ pos = start + InPos(t, Len(tx.ins)) /\ tx.outs = << >>
  BY <1>1 DEF CursorInv, InTx, AtInputs, Within, LoopInv
<1>4. Cur' = t /\ TxPos(Len(txs))' = p /\ \A i \in 1..Len(txs') : Same(txs'[i], block'.txs[i])
  BY <1>1, Stays
<1> HIDE DEF t, p
<1>5. t.ins \in Seq(Inputs) /\ tx.ins \in Seq(Inputs) /\ t.outs \in Seq(Outputs) /\ Len(t.outs) \in Nat /\ Len(t.outs) < U16Range
  BY <1>2, TransactionFacts DEF TxReading, Fits
<1>6. tx.ins = t.ins
  <2>1. ~(Len(tx.ins) < Len(t.ins))
    BY <1>1, <1>3, <1>5
  <2> QED BY <2>1, <1>3, <1>5, BeginsWhole
<1>7. pos = p + OutCountAt(t)
  BY <1>2, <1>3, <1>6, InPlace
<1>8. OutCountAt(t) \in Nat /\ pos \in Nat
  BY <1>2, <1>7, PlaceType
<1>9. Lies(buf, pos, CompactSizeEncode(Len(t.outs)))
  BY <1>2, <1>7, TxAt
<1>10. SizeAt(pos) = Len(t.outs) /\ Behind(pos) = pos + Len(CompactSizeEncode(Len(t.outs)))
  BY <1>2, <1>5, <1>8, <1>9, SizeRead
<1>11. /\ tx'.ins = tx.ins /\ tx'.outs = tx.outs /\ tx'.outCount = Len(t.outs)
       /\ tx'.version = tx.version /\ tx'.segwit = tx.segwit /\ tx'.inCount = tx.inCount
  BY <1>1, <1>2, <1>10 DEF TxReading
<1>12. Len(tx'.outs) = 0 /\ Begins(tx'.outs, t.outs)
  BY <1>3, <1>5, <1>11, BeginsEmpty
<1>13. pos' = start' + OutPos(t, Len(tx'.outs))
  <2>1. Len(CompactSizeEncode(Len(t.outs))) \in Nat
    BY <1>5, SizeType
  <2>2. OutPos(t, 0) = OutCountAt(t) + Len(CompactSizeEncode(Len(t.outs)))
    BY <1>2, OutPlace DEF OutsAt
  <2> QED BY <1>1, <1>2, <1>3, <1>7, <1>8, <1>10, <1>12, <2>1, <2>2
<1>14. AtOutputs(Cur)'
  BY <1>4, <1>6, <1>11, <1>12, <1>13 DEF AtOutputs
<1>15. InTx(Cur)'
  BY <1>1, <1>3, <1>4, <1>11 DEF InTx
<1>16. txCount' = Len(block'.txs) /\ header' = DecodeBlockHeader(SerializeHeader(block'.header))
  BY <1>1 DEF CursorInv, Before
<1> QED BY <1>1, <1>4, <1>14, <1>15, <1>16 DEF CursorInv, Before, Within, After

LEMMA CursorReadOutput == ASSUME ReaderInv, LoopInv, SizesFit, CursorInv, ReadOutput PROVE CursorInv'
<1> DEFINE t == Cur
           p == TxPos(Len(txs))
           n == Len(tx.outs)
<1>1. /\ pc = "outputs" /\ pc' = pc /\ n < tx.outCount /\ UNCHANGED <<block, header, txCount, txs, start>>
      /\ tx' = [tx EXCEPT !.outs = Append(@, OutputFrom(pos))] /\ pos' = OutputEnd(pos)
  <2>1. pc = "outputs" /\ pc' = pc /\ n < tx.outCount /\ UNCHANGED <<block, header, txCount, txs, start>>
    BY DEF ReadOutput, input
  <2> QED BY <2>1, Zenon DEF ReadOutput, OutputFrom, OutputEnd, SizeAt, Behind
<1>2. /\ Fits(t) /\ t \in Transactions /\ buf \in Seq(Octets) /\ p \in Nat /\ Lies(buf, p, SerializeTx(t)) /\ tx \in TxReading
  BY <1>1, Here DEF Within
<1>3. /\ start = p /\ tx.version = t.version /\ tx.segwit = t.segwit /\ tx.inCount = Len(t.ins)
      /\ tx.ins = t.ins /\ tx.outCount = Len(t.outs) /\ Begins(tx.outs, t.outs) /\ pos = start + OutPos(t, n)
  BY <1>1 DEF CursorInv, InTx, AtOutputs, Within
<1>4. Cur' = t /\ TxPos(Len(txs))' = p /\ \A i \in 1..Len(txs') : Same(txs'[i], block'.txs[i])
  BY <1>1, Stays
<1> HIDE DEF t, p
<1>5. t.outs \in Seq(Outputs) /\ tx.outs \in Seq(Outputs) /\ n \in Nat /\ Len(t.outs) \in Nat
  BY <1>2, TransactionFacts DEF TxReading
<1> HIDE DEF n
<1>6. n + 1 \in 1..Len(t.outs) /\ (n + 1) - 1 = n /\ n \in 0..Len(t.outs) /\ n < Len(t.outs)
  BY <1>1, <1>3, <1>5
<1> DEFINE out == t.outs[n + 1]
<1>7. out \in Outputs /\ Len(out.script) < U16Range
  BY <1>2, <1>5, <1>6 DEF Fits
<1>8. OutPos(t, n) \in Nat /\ OutPos(t, n + 1) = OutPos(t, n) + Len(SerializeOutput(out))
  BY <1>2, <1>6, OutPlace
<1>9. Lies(buf, pos, SerializeOutput(out)) /\ pos \in Nat
  <2>1. Lies(buf, p + OutPos(t, (n + 1) - 1), SerializeOutput(out))
    BY <1>2, <1>6, OutLies
  <2> QED BY <2>1, <1>2, <1>3, <1>6, <1>8
<1>10. Len(SerializeOutput(out)) \in Nat
  BY <1>7, OutputType
<1> HIDE DEF out
<1>11. OutputFrom(pos) = out /\ OutputEnd(pos) = pos + Len(SerializeOutput(out))
  BY <1>2, <1>7, <1>9, OutputRead
<1>12. /\ tx'.outs = Append(tx.outs, out) /\ tx'.version = tx.version /\ tx'.segwit = tx.segwit /\ tx'.inCount = tx.inCount
       /\ tx'.outCount = tx.outCount /\ tx'.ins = tx.ins
  <2>1. tx' = [tx EXCEPT !.outs = Append(tx.outs, out)]
    BY <1>1, <1>11
  <2> QED BY <1>2, <2>1 DEF TxReading
<1>13. Len(tx'.outs) = n + 1 /\ Begins(tx'.outs, t.outs)
  <2>1. Len(Append(tx.outs, out)) = Len(tx.outs) + 1
    BY <1>5, <1>7, AppendIs
  <2>2. Begins(Append(tx.outs, out), t.outs)
    <3>1. out = t.outs[Len(tx.outs) + 1] /\ Len(tx.outs) < Len(t.outs)
      BY <1>6 DEF out, n
    <3> QED BY <3>1, <1>3, <1>5, <1>7, BeginsAppend
  <2> QED BY <2>1, <2>2, <1>12 DEF n
<1>14. pos' = start' + OutPos(t, Len(tx'.outs))
  BY <1>1, <1>2, <1>3, <1>8, <1>10, <1>11, <1>13
<1>15. AtOutputs(Cur)'
  BY <1>3, <1>4, <1>12, <1>13, <1>14 DEF AtOutputs
<1>16. InTx(Cur)'
  BY <1>1, <1>3, <1>4, <1>12 DEF InTx
<1>17. txCount' = Len(block'.txs) /\ header' = DecodeBlockHeader(SerializeHeader(block'.header))
  BY <1>1 DEF CursorInv, Before
<1> QED BY <1>1, <1>4, <1>15, <1>16, <1>17 DEF CursorInv, Before, Within, After

LEMMA CursorEndOutputs == ASSUME ReaderInv, LoopInv, SizesFit, CursorInv, EndOutputs PROVE CursorInv'
<1> DEFINE t == Cur
           p == TxPos(Len(txs))
<1>1. /\ pc = "outputs" /\ pc' = (IF tx.segwit THEN "witnesses" ELSE "locktime") /\ Len(tx.outs) = tx.outCount
      /\ UNCHANGED <<block, header, txCount, txs, start, tx, pos>>
  BY DEF EndOutputs, input, reader
<1>2. /\ Fits(t) /\ t \in Transactions /\ p \in Nat /\ tx \in TxReading
  BY <1>1, Here DEF Within
<1>3. /\ start = p /\ tx.version = t.version /\ tx.segwit = t.segwit /\ tx.inCount = Len(t.ins)
      /\ tx.ins = t.ins /\ tx.outCount = Len(t.outs) /\ Begins(tx.outs, t.outs) /\ pos = start + OutPos(t, Len(tx.outs))
      /\ tx.wits = << >>
  BY <1>1 DEF CursorInv, InTx, AtOutputs, Within, LoopInv
<1>4. Cur' = t /\ TxPos(Len(txs))' = p /\ \A i \in 1..Len(txs') : Same(txs'[i], block'.txs[i])
  BY <1>1, Stays
<1> HIDE DEF t, p
<1>5. /\ t.outs \in Seq(Outputs) /\ tx.outs \in Seq(Outputs) /\ t.wits \in Seq(Seq(Seq(Octets)))
      /\ t.segwit \in BOOLEAN /\ (~t.segwit => t.wits = << >>)
  BY <1>2, TransactionFacts DEF TxReading
<1>6. tx.outs = t.outs
  <2>1. ~(Len(tx.outs) < Len(t.outs))
    BY <1>1, <1>3, <1>5
  <2> QED BY <2>1, <1>3, <1>5, BeginsWhole
<1>7. pos = start + WitsAt(t)
  BY <1>2, <1>3, <1>6, OutPlace
<1>8. WitPos(t, 0) = WitsAt(t) /\ WitPos(t, Len(t.wits)) = LockAt(t)
  BY <1>2, WitPlace
<1>9. InTx(Cur)'
  BY <1>1, <1>3, <1>4 DEF InTx
<1>10. txCount' = Len(block'.txs) /\ header' = DecodeBlockHeader(SerializeHeader(block'.header))
  BY <1>1 DEF CursorInv, Before
<1>11. CASE t.segwit
  <2>1. Len(tx.wits) = 0 /\ Begins(tx.wits, t.wits)
    BY <1>3, <1>5, BeginsEmpty
  <2>2. AtWitnesses(Cur)'
    BY <1>1, <1>3, <1>4, <1>6, <1>7, <1>8, <2>1 DEF AtWitnesses
  <2>3. pc' = "witnesses"
    BY <1>1, <1>3, <1>11
  <2> QED BY <1>4, <1>9, <1>10, <2>2, <2>3 DEF CursorInv, Before, Within, After
<1>12. CASE ~t.segwit
  <2>1. t.wits = << >> /\ Len(t.wits) = 0
    BY <1>5, <1>12
  <2>2. pos = start + LockAt(t)
    BY <1>7, <1>8, <2>1
  <2>3. AtLocktime(Cur)'
    BY <1>1, <1>3, <1>4, <1>6, <2>1, <2>2 DEF AtLocktime
  <2>4. pc' = "locktime"
    BY <1>1, <1>3, <1>12
  <2> QED BY <1>4, <1>9, <1>10, <2>3, <2>4 DEF CursorInv, Before, Within, After
<1> QED BY <1>5, <1>11, <1>12

LEMMA CursorReadWitness == ASSUME ReaderInv, LoopInv, SizesFit, CursorInv, ReadWitness PROVE CursorInv'
<1> DEFINE t == Cur
           p == TxPos(Len(txs))
           n == Len(tx.wits)
<1>1. pc = "witnesses" /\ UNCHANGED <<block, header, txCount, txs, start>>
  BY DEF ReadWitness, input
<1>2. /\ Fits(t) /\ t \in Transactions /\ buf \in Seq(Octets) /\ p \in Nat /\ Lies(buf, p, SerializeTx(t)) /\ tx \in TxReading
  BY <1>1, Here DEF Within
<1>3. /\ start = p /\ tx.version = t.version /\ tx.segwit = t.segwit /\ tx.inCount = Len(t.ins)
      /\ tx.ins = t.ins /\ tx.outs = t.outs /\ Begins(tx.wits, t.wits) /\ pos = start + WitPos(t, n)
      /\ tx.segwit
  BY <1>1 DEF CursorInv, InTx, AtWitnesses, Within, LoopInv
<1>4. Cur' = t /\ TxPos(Len(txs))' = p /\ \A i \in 1..Len(txs') : Same(txs'[i], block'.txs[i])
  BY <1>1, Stays
<1> HIDE DEF t, p
<1>5. /\ t.wits \in Seq(Seq(Seq(Octets))) /\ tx.wits \in Seq(Seq(Seq(Octets))) /\ n \in Nat /\ Len(t.wits) \in Nat
      /\ Len(t.wits) = tx.inCount
  <2>1. t.segwit /\ (t.segwit => Len(t.wits) = Len(t.ins))
    BY <1>2, <1>3, TransactionFacts
  <2> QED BY <1>2, <1>3, <2>1, TransactionFacts DEF TxReading
<1>6. txCount' = Len(block'.txs) /\ header' = DecodeBlockHeader(SerializeHeader(block'.header))
  BY <1>1 DEF CursorInv, Before
<1>7. CASE n < tx.inCount
  <2>1. /\ tx' = [tx EXCEPT !.wits = Append(tx.wits, << >>)] /\ pc' = "items"
        /\ items' = SizeAt(pos) /\ pos' = Behind(pos)
    BY <1>7, Zenon DEF ReadWitness, Witnesses, SizeAt, Behind
  <2> DEFINE w == t.wits[n + 1]
             c == Len(CompactSizeEncode(Len(w)))
  <2>2. n + 1 \in 1..Len(t.wits) /\ (n + 1) - 1 = n /\ n \in 0..Len(t.wits)
    BY <1>5, <1>7
  <2>3. w \in Seq(Seq(Octets)) /\ Len(w) \in Nat /\ Len(w) < U16Range
    <3>1. \A s \in Seq(Seq(Seq(Octets))) : \A i \in 1..Len(s) : s[i] \in Seq(Seq(Octets)) /\ Len(s[i]) \in Nat
      OBVIOUS
    <3>2. Len(w) < U16Range
      BY <1>2, <2>2, Zenon DEF Fits
    <3> QED BY <1>5, <2>2, <3>1, <3>2, Zenon
  <2>4. WitPos(t, n) \in Nat /\ pos \in Nat
    BY <1>2, <1>3, <2>2, WitPlace
  <2>5. Lies(buf, pos, SerializeWitness(w))
    <3>1. Lies(buf, p + WitPos(t, (n + 1) - 1), SerializeWitness(w))
      BY <1>2, <2>2, WitLies
    <3> QED BY <3>1, <1>3, <2>2
  <2>6. ItemPos(t, n + 1, 0) = WitPos(t, n) + c
    BY <1>2, <2>2, ItemPlace
  <2> HIDE DEF w
  <2>7. Lies(buf, pos, CompactSizeEncode(Len(w)))
    BY <1>2, <2>3, <2>4, <2>5, WitnessAt
  <2>8. SizeAt(pos) = Len(w) /\ Behind(pos) = pos + c
    BY <1>2, <2>3, <2>4, <2>7, SizeRead
  <2>9. /\ tx'.ins = tx.ins /\ tx'.outs = tx.outs /\ tx'.wits = Append(tx.wits, << >>)
        /\ tx'.version = tx.version /\ tx'.segwit = tx.segwit /\ tx'.inCount = tx.inCount
    BY <1>2, <2>1 DEF TxReading
  <2>10. /\ Len(tx'.wits) = n + 1 /\ tx'.wits[n + 1] = << >> /\ \A i \in 1..n : tx'.wits[i] = tx.wits[i]
    <3>1. << >> \in Seq(Seq(Octets))
      OBVIOUS
    <3> QED BY <1>5, <2>9, <3>1, AppendIs
  <2>11. \A i \in 1..n : tx.wits[i] = t.wits[i]
    BY <1>3 DEF Begins
  <2> HIDE DEF n
  <2>12. Begins(<< >>, w) /\ Len(<< >>) = 0
    BY <2>3, BeginsEmpty
  <2>13. c \in Nat
    BY <2>3, SizeType
  <2> HIDE DEF c
  <2>14. pos' = start' + ItemPos(t, n + 1, 0)
    BY <1>1, <1>2, <1>3, <2>1, <2>4, <2>6, <2>8, <2>13
  <2>15. AtItems(Cur)'
    <3> DEFINE m == Len(tx'.wits)
    <3>1. m = n + 1 /\ n + 1 <= Len(t.wits) /\ m - 1 = n
      BY <2>2, <2>10, <1>5
    <3> HIDE DEF m
    <3>2. m <= Len(t.wits) /\ \A i \in 1..(m - 1) : tx'.wits[i] = t.wits[i]
      BY <2>10, <2>11, <3>1
    <3>3. items' = Len(t.wits[m]) /\ Begins(tx'.wits[m], t.wits[m])
      BY <2>1, <2>8, <2>10, <2>12, <3>1, Zenon DEF w
    <3>4. pos' = start' + ItemPos(t, m, Len(tx'.wits[m]))
      BY <2>10, <2>12, <2>14, <3>1, Zenon
    <3> QED BY <1>3, <1>4, <2>9, <3>2, <3>3, <3>4, Zenon DEF AtItems, m
  <2>16. InTx(Cur)'
    BY <1>1, <1>3, <1>4, <2>9 DEF InTx
  <2> QED BY <1>4, <1>6, <2>1, <2>15, <2>16 DEF CursorInv, Before, Within, After
<1>8. CASE ~(n < tx.inCount)
  <2>1. tx' = tx /\ pc' = "locktime" /\ pos' = pos
    BY <1>8 DEF ReadWitness, Witnesses
  <2>2. tx.wits = t.wits
    <3>1. ~(Len(tx.wits) < Len(t.wits))
      BY <1>5, <1>8
    <3> QED BY <3>1, <1>3, <1>5, BeginsWhole
  <2>3. pos = start + LockAt(t)
    BY <1>2, <1>3, <2>2, WitPlace
  <2>4. AtLocktime(Cur)'
    BY <1>1, <1>3, <1>4, <2>1, <2>2, <2>3 DEF AtLocktime
  <2>5. InTx(Cur)'
    BY <1>1, <1>3, <1>4, <2>1 DEF InTx
  <2> QED BY <1>4, <1>6, <2>1, <2>4, <2>5 DEF CursorInv, Before, Within, After
<1> QED BY <1>7, <1>8

LEMMA CursorReadStackItem == ASSUME ReaderInv, LoopInv, SizesFit, CursorInv, ReadStackItem PROVE CursorInv'
<1> DEFINE t == Cur
           p == TxPos(Len(txs))
           n == Len(tx.wits)
           l == tx.wits[n]
           w == t.wits[n]
           k == Len(l)
<1>1. pc = "items" /\ UNCHANGED <<block, header, txCount, txs, start, items>>
  BY DEF ReadStackItem, input
<1>2. /\ Fits(t) /\ t \in Transactions /\ buf \in Seq(Octets) /\ p \in Nat /\ Lies(buf, p, SerializeTx(t)) /\ tx \in TxReading
  BY <1>1, Here DEF Within
<1>3. /\ start = p /\ tx.version = t.version /\ tx.segwit = t.segwit /\ tx.inCount = Len(t.ins)
      /\ tx.ins = t.ins /\ tx.outs = t.outs /\ n <= Len(t.wits) /\ (\A i \in 1..(n - 1) : tx.wits[i] = t.wits[i])
      /\ items = Len(w) /\ Begins(l, w) /\ pos = start + ItemPos(t, n, k) /\ n > 0
  BY <1>1 DEF CursorInv, InTx, AtItems, Within, ReaderInv, TypeInv
<1>4. Cur' = t /\ TxPos(Len(txs))' = p /\ \A i \in 1..Len(txs') : Same(txs'[i], block'.txs[i])
  BY <1>1, Stays
<1> HIDE DEF t, p
<1>5. t.wits \in Seq(Seq(Seq(Octets))) /\ tx.wits \in Seq(Seq(Seq(Octets))) /\ n \in Nat /\ Len(t.wits) \in Nat
  BY <1>2, TransactionFacts DEF TxReading
<1>6. txCount' = Len(block'.txs) /\ header' = DecodeBlockHeader(SerializeHeader(block'.header))
  BY <1>1 DEF CursorInv, Before
<1>7. n \in 1..Len(t.wits) /\ n \in 1..Len(tx.wits)
  BY <1>3, <1>5
<1>8. w \in Seq(Seq(Octets)) /\ l \in Seq(Seq(Octets)) /\ Len(w) \in Nat /\ k \in Nat
  <2>1. \A s \in Seq(Seq(Seq(Octets))) : \A i \in 1..Len(s) : s[i] \in Seq(Seq(Octets)) /\ Len(s[i]) \in Nat
    OBVIOUS
  <2>2. w \in Seq(Seq(Octets)) /\ Len(w) \in Nat
    BY <1>5, <1>7, <2>1, Zenon
  <2>3. l \in Seq(Seq(Octets)) /\ Len(l) \in Nat
    BY <1>5, <1>7, <2>1, Zenon
  <2> QED BY <2>2, <2>3
<1>9. Last(tx.wits) = l
  BY DEF Last
<1>10. CASE k < items
  <2> DEFINE x == w[k + 1]
             y == Slice(Behind(pos), SizeAt(pos))
  <2>1. /\ tx' = [tx EXCEPT !.wits[Len(tx.wits)] = Append(@, y)] /\ pc' = pc /\ pos' = Behind(pos) + SizeAt(pos)
    <3>1. Len(Last(tx.wits)) < items
      BY <1>9, <1>10
    <3> QED BY <3>1, Zenon DEF ReadStackItem, SizeAt, Behind
  <2> HIDE DEF y
  <2>2. tx'.wits = [tx.wits EXCEPT ![Len(tx.wits)] = Append(tx.wits[Len(tx.wits)], y)]
        /\ tx'.ins = tx.ins /\ tx'.outs = tx.outs
        /\ tx'.version = tx.version /\ tx'.segwit = tx.segwit /\ tx'.inCount = tx.inCount
    BY <1>2, <2>1 DEF TxReading
  <2>3. /\ k + 1 \in 1..Len(w) /\ (k + 1) - 1 = k /\ k \in 0..Len(w) /\ k < Len(w)
    <3>1. \A i, m \in Nat : i < m => i + 1 \in 1..m /\ (i + 1) - 1 = i /\ i \in 0..m
      OBVIOUS
    <3>2. Len(w) \in Nat /\ k \in Nat /\ k < Len(w)
      BY <1>3, <1>8, <1>10, Zenon
    <3> QED BY <3>1, <3>2, Zenon
  <2>4. x \in Seq(Octets) /\ Len(x) < U16Range
    <3>1. \A i \in 1..Len(w) : Len(w[i]) < U16Range
      BY <1>2, <1>7, Zenon DEF Fits
    <3>2. Len(x) < U16Range
      BY <2>3, <3>1, Zenon
    <3>3. w \in Seq(Seq(Octets)) /\ k + 1 \in 1..Len(w)
      BY <1>8, <2>3
    <3> HIDE DEF w, k
    <3> QED BY <3>2, <3>3
  <2>5. ItemPos(t, n, k) \in Nat /\ ItemPos(t, n, k + 1) = ItemPos(t, n, k) + Len(Sized(x))
    <3>1. /\ \A i \in 0..Len(w) : ItemPos(t, n, i) \in Nat
          /\ \A i \in 1..Len(w) : ItemPos(t, n, i) = ItemPos(t, n, i - 1) + Len(Sized(w[i]))
      BY <1>2, <1>7, ItemPlace
    <3> HIDE DEF k, w
    <3> QED BY <3>1, <2>3
  <2>6. Lies(buf, pos, Sized(x)) /\ pos \in Nat
    <3>1. \A i \in 1..Len(w) : Lies(buf, p + ItemPos(t, n, i - 1), Sized(w[i]))
      BY <1>2, <1>7, ItemLies
    <3>2. Lies(buf, p + ItemPos(t, n, (k + 1) - 1), Sized(x))
      BY <3>1, <2>3
    <3> HIDE DEF k, x
    <3> QED BY <3>2, <1>2, <1>3, <2>3, <2>5
  <2>7. Len(Sized(x)) \in Nat
    BY <2>4, SizedType
  <2> HIDE DEF x
  <2>8. y = x /\ Behind(pos) + SizeAt(pos) = pos + Len(Sized(x))
    BY <1>2, <2>4, <2>6, ItemRead DEF y
  <2>9. /\ Len(tx'.wits) = n /\ tx'.wits[n] = Append(l, x) /\ \A j \in 1..(n - 1) : tx'.wits[j] = tx.wits[j]
    <3>1. y \in Seq(Octets) /\ Len(tx.wits) > 0
      BY <1>3, <2>4, <2>8
    <3> DEFINE s == tx.wits
    <3>2. s \in Seq(Seq(Seq(Octets))) /\ Len(s) > 0 /\ tx'.wits = [s EXCEPT ![Len(s)] = Append(s[Len(s)], y)]
      BY <1>5, <2>2, <3>1, Zenon
    <3> HIDE DEF s
    <3> DEFINE v == [s EXCEPT ![Len(s)] = Append(s[Len(s)], y)]
    <3>4. Len(v) = Len(s) /\ v[Len(s)] = Append(s[Len(s)], y) /\ \A j \in 1..(Len(s) - 1) : v[j] = s[j]
      BY <3>1, <3>2, WitsExcept, Zenon
    <3>3. /\ Len(tx'.wits) = Len(s) /\ tx'.wits[Len(s)] = Append(s[Len(s)], y)
          /\ \A j \in 1..(Len(s) - 1) : tx'.wits[j] = s[j]
      <4>1. tx'.wits = v
        BY <3>2
      <4> HIDE DEF v
      <4> QED BY <3>4, <4>1, Zenon
    <3> QED BY <3>3, <2>8, Zenon DEF s
  <2>10. Begins(Append(l, x), w) /\ Len(Append(l, x)) = k + 1
    <3>1. x = w[Len(l) + 1] /\ Len(l) < Len(w)
      BY <2>3, Zenon DEF x
    <3>2. l \in Seq(Seq(Octets)) /\ w \in Seq(Seq(Octets)) /\ Begins(l, w)
      BY <1>3, <1>8
    <3> HIDE DEF l, w
    <3>3. Begins(Append(l, x), w)
      BY <3>1, <3>2, <2>4, BeginsAppend, Zenon
    <3>4. Len(Append(l, x)) = Len(l) + 1
      BY <3>2, <2>4, AppendIs
    <3> QED BY <3>3, <3>4 DEF k
  <2>11. pos' = start' + ItemPos(t, n, k + 1)
    <3> HIDE DEF k, n
    <3> QED BY <1>1, <1>2, <1>3, <2>1, <2>5, <2>7, <2>8
  <2>12. AtItems(Cur)'
    <3> DEFINE m == Len(tx'.wits)
    <3>1. m = n
      BY <2>9
    <3> HIDE DEF m, n
    <3>2. m <= Len(t.wits) /\ \A i \in 1..(m - 1) : tx'.wits[i] = t.wits[i]
      BY <1>3, <2>9, <3>1
    <3>3. items' = Len(t.wits[m]) /\ Begins(tx'.wits[m], t.wits[m])
      BY <1>1, <1>3, <2>9, <2>10, <3>1, Zenon
    <3>4. pos' = start' + ItemPos(t, m, Len(tx'.wits[m]))
      BY <2>9, <2>10, <2>11, <3>1, Zenon
    <3> QED BY <1>3, <1>4, <2>2, <3>2, <3>3, <3>4, Zenon DEF AtItems, m
  <2>13. InTx(Cur)'
    BY <1>1, <1>3, <1>4, <2>2 DEF InTx
  <2> QED BY <1>1, <1>4, <1>6, <2>1, <2>12, <2>13 DEF CursorInv, Before, Within, After
<1>11. CASE ~(k < items)
  <2>1. tx' = tx /\ pc' = "witnesses" /\ pos' = pos
    <3>1. ~(Len(Last(tx.wits)) < items)
      BY <1>9, <1>11
    <3> QED BY <3>1 DEF ReadStackItem
  <2>2. l = w
    <3>1. ~(Len(l) < Len(w))
      BY <1>3, <1>11
    <3> HIDE DEF l, w
    <3> QED BY <3>1, <1>3, <1>8, BeginsWhole
  <2>3. Begins(tx.wits, t.wits)
    <3>1. ASSUME NEW i \in 1..Len(tx.wits) PROVE tx.wits[i] = t.wits[i]
      <4>1. CASE i = n
        BY <4>1, <2>2
      <4>2. CASE i # n
        <5>1. i \in 1..(n - 1)
          BY <4>2, <1>5
        <5> QED BY <5>1, <1>3
      <4> QED BY <4>1, <4>2
    <3> QED BY <3>1, <1>3 DEF Begins
  <2>4. pos = start + WitPos(t, n)
    <3>1. ItemPos(t, n, Len(w)) = WitPos(t, n)
      BY <1>2, <1>7, ItemPlace
    <3> QED BY <1>3, <2>2, <3>1, Zenon
  <2>5. AtWitnesses(Cur)'
    BY <1>1, <1>3, <1>4, <2>1, <2>3, <2>4 DEF AtWitnesses
  <2>6. InTx(Cur)'
    BY <1>1, <1>3, <1>4, <2>1 DEF InTx
  <2> QED BY <1>4, <1>6, <2>1, <2>5, <2>6 DEF CursorInv, Before, Within, After
<1> QED BY <1>10, <1>11

(* The difference of the two cursors in 16 bits is the length, when that fits. *)
LEMMA WrappedSize ==
    ASSUME NEW R \in Nat, R > 0, NEW s \in Nat, NEW n \in Nat, n < R
    PROVE  (((s + n) % R) + R - (s % R)) % R = n
<1> DEFINE q == s \div R
           r == s % R
<1>1. q \in Nat /\ r \in 0..(R - 1) /\ s = R * q + r
  BY DivMod
<1> HIDE DEF q, r
<1>2. CASE r + n < R
  <2>1. r + n \in 0..(R - 1) /\ s + n = R * q + (r + n)
    BY <1>1, <1>2
  <2>2. (s + n) % R = r + n
    BY <1>1, <2>1, DivModIs
  <2>3. (r + n) + R - r = R * 1 + n
    BY <1>1
  <2>4. (R * 1 + n) % R = n
    <3>1. 1 \in Nat /\ n \in 0..(R - 1)
      OBVIOUS
    <3> QED BY <3>1, DivModIs
  <2> QED BY <2>2, <2>3, <2>4 DEF r
<1>3. CASE ~(r + n < R)
  <2>1. (r + n) - R \in 0..(R - 1) /\ s + n = R * (q + 1) + ((r + n) - R) /\ q + 1 \in Nat
    <3>1. R * (q + 1) = R * q + R /\ R * q \in Nat /\ q + 1 \in Nat
      BY <1>1
    <3> DEFINE m == R * q
               k == R * (q + 1)
    <3>2. k = m + R /\ m \in Nat /\ s = m + r
      BY <3>1, <1>1
    <3> HIDE DEF m, k
    <3>3. (r + n) - R \in 0..(R - 1) /\ s + n = k + ((r + n) - R)
      BY <3>2, <1>1, <1>3
    <3> QED BY <3>1, <3>3 DEF k
  <2>2. (s + n) % R = (r + n) - R
    <3> DEFINE d == (r + n) - R
               k == q + 1
    <3>1. d \in 0..(R - 1) /\ k \in Nat /\ s + n = R * k + d
      BY <2>1
    <3> HIDE DEF d, k
    <3>2. (R * k + d) % R = d
      BY <3>1, DivModIs
    <3>3. (s + n) % R = d
      BY <3>1, <3>2, Zenon
    <3> QED BY <3>3 DEF d
  <2>3. ((r + n) - R) + R - r = R * 0 + n
    BY <1>1
  <2>4. (R * 0 + n) % R = n
    <3>1. 0 \in Nat /\ n \in 0..(R - 1)
      OBVIOUS
    <3> QED BY <3>1, DivModIs
  <2> QED BY <2>2, <2>3, <2>4 DEF r
<1> QED BY <1>2, <1>3

LEMMA CursorReadLocktime == ASSUME ReaderInv, LoopInv, SizesFit, CursorInv, ReadLocktime PROVE CursorInv'
<1> DEFINE t == Cur
           p == TxPos(Len(txs))
           s == SerializeTx(t)
           end == pos + LocktimeSize
           h == DoubleSHA256(Slice(start, TxSize(end)))
           r == [version |-> tx.version, segwit |-> tx.segwit, ins |-> tx.ins, outs |-> tx.outs, wits |-> tx.wits,
                 locktime |-> Slice(pos, LocktimeSize), size |-> TxSize(end), wtxid |-> h, txid |-> h]
<1>1. /\ pc = "locktime" /\ pc' = "transaction" /\ UNCHANGED <<block, header, txCount>>
      /\ txs' = Append(txs, r) /\ pos' = end
  <2>1. pc = "locktime" /\ pc' = "transaction" /\ UNCHANGED <<block, header, txCount>> /\ pos' = end
    BY DEF ReadLocktime, input
  <2> QED BY <2>1, Zenon DEF ReadLocktime
<1>2. /\ Fits(t) /\ t \in Transactions /\ buf \in Seq(Octets) /\ p \in Nat /\ Lies(buf, p, s)
      /\ TxPos(Len(txs) + 1) = p + Len(s)
  BY <1>1, Here DEF Within
<1>3. /\ start = p /\ tx.version = t.version /\ tx.segwit = t.segwit
      /\ tx.ins = t.ins /\ tx.outs = t.outs /\ tx.wits = t.wits /\ pos = start + LockAt(t)
  BY <1>1 DEF CursorInv, InTx, AtLocktime, Within
<1> HIDE DEF p, t
<1>4. /\ LocktimeSize \in Nat /\ LockAt(t) \in Nat /\ s \in Seq(Octets) /\ Len(s) = LockAt(t) + LocktimeSize
      /\ t.locktime \in Seq(Octets) /\ Len(t.locktime) = LocktimeSize
  BY <1>2, SizeFacts, PlaceType, TxType, TransactionFacts
<1>5. Lies(buf, pos, t.locktime) /\ pos \in Nat
  BY <1>2, <1>3, <1>4, TxAt
<1>6. Slice(pos, LocktimeSize) = t.locktime
  BY <1>2, <1>4, <1>5, SliceIs
<1>7. Len(s) \in Nat
  BY <1>4
<1>8. end = p + Len(s)
  BY <1>2, <1>3, <1>4
<1> HIDE DEF s, end
<1>9. ASSUME Len(s) < U16Range PROVE TxSize(end) = Len(s) /\ h = DoubleSHA256(s)
  <2>1. U16Range \in Nat /\ U16Range > 0
    BY Ranges, BaseAssumption
  <2>2. TxSize(end) = Len(s)
    <3>1. TxSize(end) = (((p + Len(s)) % U16Range) + U16Range - (p % U16Range)) % U16Range
      BY <1>3, <1>8, Zenon DEF TxSize, U16
    <3> QED BY <3>1, <2>1, <1>2, <1>7, <1>9, WrappedSize, Zenon
  <2>3. Slice(p, Len(s)) = s
    BY <1>2, <1>4, SliceIs
  <2> QED BY <2>2, <2>3, <1>3, Zenon
<1> HIDE DEF h
<1>10. /\ r.version = t.version /\ r.segwit = t.segwit /\ r.ins = t.ins /\ r.outs = t.outs /\ r.wits = t.wits
       /\ r.locktime = t.locktime /\ r.size = TxSize(end) /\ r.wtxid = h
  BY <1>3, <1>6
<1> HIDE DEF r
<1>11. Same(r, t)
  <2>1. Content(r) = Content(t)
    BY <1>10, Zenon DEF Content
  <2>2. Len(s) < U16Range => r.size = Len(s) /\ r.wtxid = DoubleSHA256(s)
    BY <1>9, <1>10, Zenon
  <2> QED BY <2>1, <2>2, Zenon DEF Same, s
<1>12. txs \in Seq(TxRead) /\ Len(txs) \in Nat
  BY DEF ReaderInv, TypeInv
<1>13. Len(txs') = Len(txs) + 1 /\ txs'[Len(txs) + 1] = r /\ \A i \in 1..Len(txs) : txs'[i] = txs[i]
  BY <1>1, <1>12
<1>14. ASSUME NEW i \in 1..Len(txs') PROVE Same(txs'[i], block'.txs[i])
  <2>1. block'.txs[i] = block.txs[i]
    BY <1>1
  <2>2. CASE i = Len(txs) + 1
    <3>1. txs'[i] = r /\ block.txs[i] = t
      BY <2>2, <1>13 DEF t, Cur
    <3> QED BY <2>1, <3>1, <1>11, Zenon
  <2>3. CASE i # Len(txs) + 1
    <3>1. i \in 1..Len(txs)
      BY <2>3, <1>12, <1>13
    <3>2. Same(txs[i], block.txs[i])
      BY <3>1 DEF CursorInv
    <3> QED BY <2>1, <3>1, <3>2, <1>13, Zenon
  <2> QED BY <2>2, <2>3
<1>15. pos' = TxPos(Len(txs))'
  <2>1. TxPos(Len(txs))' = TxPos(Len(txs) + 1)
    <3>1. TxPos(Len(txs))' = TxsAt(block)' + At(TxBytes(block.txs)', Len(txs'))
      BY Zenon DEF TxPos
    <3>2. TxsAt(block)' = TxsAt(block) /\ TxBytes(block.txs)' = TxBytes(block.txs)
      BY <1>1
    <3> QED BY <3>1, <3>2, <1>13, Zenon DEF TxPos
  <2> QED BY <2>1, <1>1, <1>2, <1>8, Zenon
<1>16. txCount' = Len(block'.txs) /\ header' = DecodeBlockHeader(SerializeHeader(block'.header))
  BY <1>1 DEF CursorInv, Before
<1> QED BY <1>1, <1>14, <1>15, <1>16 DEF CursorInv, Before, Within, After

LEMMA CursorHashBlock == ASSUME ReaderInv, LoopInv, SizesFit, CursorInv, HashBlock PROVE CursorInv'
<1>1. /\ pc = "transaction" /\ pc' = "done" /\ UNCHANGED <<block, header, txCount, txs, pos>>
      /\ hash' = DoubleSHA256(Slice(0, HeaderSize))
  BY DEF HashBlock, HashOfBlock, input
<1>2. TxPos(Len(txs))' = TxPos(Len(txs)) /\ \A i \in 1..Len(txs') : Same(txs'[i], block'.txs[i])
  BY <1>1, Stays
<1>3. block \in Blocks
  BY GivenFacts DEF ReaderInv, RecordInv
<1>4. buf = SerializeBlock(block) /\ buf \in Seq(Octets)
  BY <1>1 DEF ReaderInv, BufferInv, Before, TypeInv
<1>5. Lies(buf, 0, SerializeHeader(block.header)) /\ SerializeHeader(block.header) \in Seq(Octets) /\ Len(SerializeHeader(block.header)) = HeaderSize
  BY <1>3, <1>4, BlockType
<1>6. Slice(0, HeaderSize) = SerializeHeader(block.header)
  <2>1. 0 \in Nat
    OBVIOUS
  <2> QED BY <2>1, <1>4, <1>5, SliceIs
<1>7. hash' = DoubleSHA256(SerializeHeader(block'.header))
  BY <1>1, <1>6
<1>8. /\ txCount' = Len(block'.txs) /\ header' = DecodeBlockHeader(SerializeHeader(block'.header)) /\ pos' = TxPos(Len(txs))'
  BY <1>1, <1>2 DEF CursorInv, Before
<1> QED BY <1>1, <1>2, <1>7, <1>8 DEF CursorInv, Before, Within, After

(* CursorInv is about blocks whose counts and sizes fit; which those are    *)
(* never changes.                                                           *)
LEMMA CursorStep == ASSUME ReaderInv, LoopInv, SizesFit => CursorInv, [Next]_vars PROVE (SizesFit => CursorInv)'
<1>0. block' = block
  <2>1. UNCHANGED input
    BY DEF Next, vars, DecodeRecords, ReadPrefix, ReadHeader, ReadTxVersion, ReadInput, ReadOutputCount, ReadOutput,
           EndOutputs, ReadWitness, ReadStackItem, ReadLocktime, HashBlock, GetBlockStats, FreeBlock
  <2> QED BY <2>1 DEF input
<1>1. SizesFit' <=> SizesFit
  BY <1>0, Zenon DEF SizesFit
<1> SUFFICES ASSUME SizesFit PROVE CursorInv'
  BY <1>1
<1> USE DEF Before, Within, After
<1>2. CASE DecodeRecords
  <2>1. pc' \in Before /\ txs' = txs /\ txs = << >>
    BY <1>2 DEF DecodeRecords, reader, LoopInv
  <2> QED BY <2>1 DEF CursorInv
<1>3. CASE ReadPrefix
  <2>1. pc' = "header" /\ txs' = txs /\ txs = << >>
    BY <1>3 DEF ReadPrefix, LoopInv
  <2> QED BY <2>1 DEF CursorInv
<1>4. CASE ReadHeader
  BY <1>4, CursorReadHeader
<1>5. CASE ReadTxVersion
  BY <1>5, CursorReadTxVersion
<1>6. CASE ReadInput
  BY <1>6, CursorReadInput
<1>7. CASE ReadOutputCount
  BY <1>7, CursorReadOutputCount
<1>8. CASE ReadOutput
  BY <1>8, CursorReadOutput
<1>9. CASE EndOutputs
  BY <1>9, CursorEndOutputs
<1>10. CASE ReadWitness
  BY <1>10, CursorReadWitness
<1>11. CASE ReadStackItem
  BY <1>11, CursorReadStackItem
<1>12. CASE ReadLocktime
  BY <1>12, CursorReadLocktime
<1>13. CASE HashBlock
  BY <1>13, CursorHashBlock
<1>14. CASE GetBlockStats \/ FreeBlock
  <2>1. pc \in After /\ pc' \in After /\ UNCHANGED <<header, hash, txCount, txs, pos>>
    BY <1>14 DEF GetBlockStats, FreeBlock, reader
  <2>2. TxPos(Len(txs))' = TxPos(Len(txs)) /\ \A i \in 1..Len(txs') : Same(txs'[i], block'.txs[i])
    BY <1>0, <2>1, Stays
  <2>3. /\ txCount' = Len(block'.txs) /\ header' = DecodeBlockHeader(SerializeHeader(block'.header)) /\ pos' = TxPos(Len(txs))'
        /\ hash' = DoubleSHA256(SerializeHeader(block'.header))
    BY <1>0, <2>1, <2>2 DEF CursorInv
  <2> QED BY <2>1, <2>2, <2>3 DEF CursorInv
<1>15. CASE UNCHANGED vars
  <2>1. /\ UNCHANGED <<pc, header, hash, txCount, txs, pos, tx, start, items>>
    BY <1>15 DEF vars, reader
  <2>2. Cur' = Cur /\ TxPos(Len(txs))' = TxPos(Len(txs)) /\ \A i \in 1..Len(txs') : Same(txs'[i], block'.txs[i])
    BY <1>0, <2>1, Stays
  <2> QED BY <1>0, <2>1, <2>2 DEF CursorInv, InTx, AtInputs, AtOutputs, AtWitnesses, AtItems, AtLocktime
<1> QED BY <1>2, <1>3, <1>4, <1>5, <1>6, <1>7, <1>8, <1>9, <1>10, <1>11, <1>12, <1>13, <1>14, <1>15 DEF Next

(* Nothing is read at the beginning.                                       *)
LEMMA CursorInit == Init => (SizesFit => CursorInv)
<1> SUFFICES ASSUME Init PROVE CursorInv
  OBVIOUS
<1>1. pc = "index" /\ txs = << >>
  BY DEF Init
<1> QED BY <1>1 DEF CursorInv, Before, Within, After

(* A place where something lies is inside.                                 *)
LEMMA LiesBound ==
    ASSUME NEW E, NEW data \in Seq(E), NEW at \in Nat, NEW F, NEW w \in Seq(F), Lies(data, at, w)
    PROVE  at <= Len(data)
BY DEF Lies

(* At every place of the code the cursor is where a part of the block      *)
(* begins.                                                                 *)
LEMMA CursorInBuffer == ASSUME ReaderInv, LoopInv, SizesFit, CursorInv PROVE pos <= Len(buf)
<1>1. /\ buf \in Seq(Octets) /\ txs \in Seq(TxRead) /\ Len(buf) \in Nat /\ Len(txs) \in Nat
      /\ pc \in Before \cup {"header", "transaction"} \cup Within \cup After
  BY DEF ReaderInv, TypeInv
<1>2. block \in Blocks
  BY GivenFacts DEF ReaderInv, RecordInv
<1>3. CASE pc \in Before \cup {"header"}
  BY <1>1, <1>3 DEF ReaderInv, BufferInv
<1> DEFINE t == Cur
           p == TxPos(Len(txs))
<1>4. CASE pc = "transaction" /\ Len(txs) < txCount
  <2>1. p \in Nat /\ Lies(buf, p, SerializeTx(t)) /\ t \in Transactions
    BY <1>4, Here
  <2>2. SerializeTx(t) \in Seq(Octets)
    BY <2>1, TxType
  <2>3. pos = p
    BY <1>4 DEF CursorInv
  <2> HIDE DEF p, t
  <2> QED BY <1>1, <2>1, <2>2, <2>3, LiesBound
<1>5. CASE pc \in After \/ (pc = "transaction" /\ ~(Len(txs) < txCount))
  <2>1. pos = p /\ txCount = Len(block.txs) /\ buf = SerializeBlock(block) /\ Len(txs) <= txCount
    BY <1>1, <1>5 DEF CursorInv, ReaderInv, BufferInv, LoopInv, Before, After
  <2>2. Len(txs) = Len(block.txs)
    <3>1. txCount \in Nat
      BY DEF ReaderInv, TypeInv
    <3> QED BY <1>1, <1>5, <2>1, <3>1 DEF LoopInv, After
  <2>3. p = Len(SerializeBlock(block))
    BY <1>2, <2>2, TxPlace
  <2> QED BY <1>1, <2>1, <2>3
<1>6. CASE pc \in Within
  <2>1. p \in Nat /\ Lies(buf, p, SerializeTx(t)) /\ t \in Transactions /\ tx \in TxReading
    BY <1>6, Here
  <2>2. start = p /\ InTx(t)
    BY <1>6 DEF CursorInv, InTx
  <2>3. /\ (pc = "inputs" => AtInputs(t)) /\ (pc = "outputs" => AtOutputs(t)) /\ (pc = "witnesses" => AtWitnesses(t))
        /\ (pc = "items" => AtItems(t) /\ Len(tx.wits) > 0) /\ (pc = "locktime" => AtLocktime(t))
    BY DEF CursorInv, ReaderInv, TypeInv
  <2> HIDE DEF p, t
  <2>4. /\ t.ins \in Seq(Inputs) /\ t.outs \in Seq(Outputs) /\ t.wits \in Seq(Seq(Seq(Octets)))
        /\ tx.ins \in Seq(Inputs) /\ tx.outs \in Seq(Outputs) /\ tx.wits \in Seq(Seq(Seq(Octets)))
        /\ t.locktime \in Seq(Octets)
    BY <2>1, TransactionFacts DEF TxReading
  <2>5. /\ OutCountAt(t) \in Nat /\ WitsAt(t) \in Nat /\ LockAt(t) \in Nat
    BY <2>1, PlaceType
  <2>6. /\ p + OutCountAt(t) <= Len(buf) /\ p + WitsAt(t) <= Len(buf) /\ p + LockAt(t) <= Len(buf)
    <3>1. /\ CompactSizeEncode(Len(t.outs)) \in Seq(Octets) /\ FlattenSeq(WitBytes(t.wits)) \in Seq(Octets)
      BY <2>1, TxPartsType
    <3>2. /\ Lies(buf, p + OutCountAt(t), CompactSizeEncode(Len(t.outs)))
          /\ Lies(buf, p + WitsAt(t), FlattenSeq(WitBytes(t.wits)))
          /\ Lies(buf, p + LockAt(t), t.locktime)
      BY <1>1, <2>1, TxAt
    <3>3. p + OutCountAt(t) \in Nat /\ p + WitsAt(t) \in Nat /\ p + LockAt(t) \in Nat
      BY <2>1, <2>5
    <3> QED BY <1>1, <2>4, <3>1, <3>2, <3>3, LiesBound
  <2>7. CASE pc = "inputs"
    <3> DEFINE n == Len(tx.ins)
    <3>1. pos = p + InPos(t, n) /\ n \in Nat /\ n <= Len(t.ins) /\ Len(t.ins) \in Nat
      BY <2>2, <2>3, <2>4, <2>7 DEF AtInputs, Begins
    <3> HIDE DEF n
    <3>2. CASE n = Len(t.ins)
      BY <2>1, <2>6, <3>1, <3>2, InPlace
    <3>3. CASE n # Len(t.ins)
      <4>1. n + 1 \in 1..Len(t.ins) /\ n \in 0..Len(t.ins) /\ (n + 1) - 1 = n
        BY <3>1, <3>3
      <4>2. Lies(buf, p + InPos(t, (n + 1) - 1), SerializeInput(t.ins[n + 1]))
        BY <1>1, <2>1, <4>1, InLies
      <4>3. SerializeInput(t.ins[n + 1]) \in Seq(Octets)
        <5>1. t.ins[n + 1] \in Inputs
          BY <2>4, <4>1
        <5> QED BY <5>1, InputType
      <4>4. InPos(t, n) \in Nat /\ pos \in Nat
        BY <2>1, <3>1, <4>1, InPlace
      <4> QED BY <1>1, <3>1, <4>1, <4>2, <4>3, <4>4, LiesBound
    <3> QED BY <3>2, <3>3
  <2>8. CASE pc = "outputs"
    <3> DEFINE n == Len(tx.outs)
    <3>1. pos = p + OutPos(t, n) /\ n \in Nat /\ n <= Len(t.outs) /\ Len(t.outs) \in Nat
      BY <2>2, <2>3, <2>4, <2>8 DEF AtOutputs, Begins
    <3> HIDE DEF n
    <3>2. CASE n = Len(t.outs)
      BY <2>1, <2>6, <3>1, <3>2, OutPlace
    <3>3. CASE n # Len(t.outs)
      <4>1. n + 1 \in 1..Len(t.outs) /\ n \in 0..Len(t.outs) /\ (n + 1) - 1 = n
        BY <3>1, <3>3
      <4>2. Lies(buf, p + OutPos(t, (n + 1) - 1), SerializeOutput(t.outs[n + 1]))
        BY <1>1, <2>1, <4>1, OutLies
      <4>3. SerializeOutput(t.outs[n + 1]) \in Seq(Octets)
        <5>1. t.outs[n + 1] \in Outputs
          BY <2>4, <4>1
        <5> QED BY <5>1, OutputType
      <4>4. OutPos(t, n) \in Nat /\ pos \in Nat
        BY <2>1, <3>1, <4>1, OutPlace
      <4> QED BY <1>1, <3>1, <4>1, <4>2, <4>3, <4>4, LiesBound
    <3> QED BY <3>2, <3>3
  <2>9. \A n \in 0..Len(t.wits) : p + WitPos(t, n) <= Len(buf)
    <3> TAKE n \in 0..Len(t.wits)
    <3>1. Len(t.wits) \in Nat
      BY <2>4
    <3>2. CASE n = Len(t.wits)
      BY <2>1, <2>6, <3>2, WitPlace
    <3>3. CASE n # Len(t.wits)
      <4>1. n + 1 \in 1..Len(t.wits) /\ (n + 1) - 1 = n
        BY <3>1, <3>3
      <4>2. Lies(buf, p + WitPos(t, (n + 1) - 1), SerializeWitness(t.wits[n + 1]))
        BY <1>1, <2>1, <4>1, WitLies
      <4>3. SerializeWitness(t.wits[n + 1]) \in Seq(Octets)
        <5>1. t.wits[n + 1] \in Seq(Seq(Octets))
          BY <2>4, <4>1
        <5> QED BY <5>1, WitnessType
      <4>4. WitPos(t, n) \in Nat /\ p + WitPos(t, n) \in Nat
        BY <2>1, WitPlace
      <4> QED BY <1>1, <4>1, <4>2, <4>3, <4>4, LiesBound
    <3> QED BY <3>2, <3>3
  <2>10. CASE pc = "witnesses"
    <3>1. pos = p + WitPos(t, Len(tx.wits)) /\ Len(tx.wits) \in 0..Len(t.wits)
      BY <2>2, <2>3, <2>4, <2>10 DEF AtWitnesses, Begins
    <3> QED BY <2>9, <3>1
  <2>11. CASE pc = "items"
    <3> DEFINE i == Len(tx.wits)
               n == Len(tx.wits[i])
               w == t.wits[i]
    <3>1. pos = p + ItemPos(t, i, n) /\ i \in 1..Len(t.wits) /\ i \in 1..Len(tx.wits) /\ n <= Len(w) /\ i \in 0..Len(t.wits)
      <4>1. pos = p + ItemPos(t, i, n) /\ i <= Len(t.wits) /\ i > 0 /\ n <= Len(w)
        BY <2>2, <2>3, <2>11, Zenon DEF AtItems, Begins
      <4>2. i \in Nat /\ Len(t.wits) \in Nat
        BY <2>4
      <4>3. \A j, m \in Nat : j <= m /\ j > 0 => j \in 1..m /\ j \in 1..j /\ j \in 0..m
        OBVIOUS
      <4> QED BY <4>1, <4>2, <4>3, Zenon
    <3>2. w \in Seq(Seq(Octets)) /\ n \in Nat /\ Len(w) \in Nat
      <4>1. \A s \in Seq(Seq(Seq(Octets))) : \A j \in 1..Len(s) : s[j] \in Seq(Seq(Octets)) /\ Len(s[j]) \in Nat
        OBVIOUS
      <4> QED BY <4>1, <2>4, <3>1, Zenon
    <3>3. ItemPos(t, i, Len(w)) = WitPos(t, i) /\ \A k \in 0..Len(w) : ItemPos(t, i, k) \in Nat
      BY <2>1, <3>1, ItemPlace
    <3>4. \A k \in 1..Len(w) : Lies(buf, p + ItemPos(t, i, k - 1), Sized(w[k]))
      BY <1>1, <2>1, <3>1, ItemLies
    <3> HIDE DEF i, n, w
    <3>5. CASE n = Len(w)
      BY <2>9, <3>1, <3>3, <3>5
    <3>6. CASE n # Len(w)
      <4>1. n + 1 \in 1..Len(w) /\ (n + 1) - 1 = n /\ n \in 0..Len(w)
        BY <3>1, <3>2, <3>6
      <4>2. Lies(buf, pos, Sized(w[n + 1]))
        BY <3>1, <3>4, <4>1
      <4>3. w[n + 1] \in Seq(Octets)
        BY <3>2, <4>1
      <4>4. Sized(w[n + 1]) \in Seq(Octets)
        BY <4>3, SizedType
      <4>5. pos \in Nat
        BY <2>1, <3>1, <3>3, <4>1
      <4> QED BY <1>1, <4>2, <4>4, <4>5, LiesBound
    <3> QED BY <3>5, <3>6
  <2>12. CASE pc = "locktime"
    BY <2>2, <2>3, <2>6, <2>12 DEF AtLocktime
  <2> QED BY <1>6, <2>7, <2>8, <2>10, <2>11, <2>12 DEF Within
<1> QED BY <1>1, <1>3, <1>4, <1>5, <1>6

(* At the end the whole block is read.                                     *)
LEMMA CursorRoundTrip == ASSUME ReaderInv, LoopInv, SizesFit, CursorInv, pc = "done" PROVE RoundTrip
<1>1. txs \in Seq(TxRead) /\ buf = SerializeBlock(block) /\ block \in Blocks
  BY GivenFacts DEF ReaderInv, TypeInv, RecordInv, BufferInv, Before
<1>2. Len(txs) = Len(block.txs) /\ DOMAIN txs = 1..Len(txs)
  BY <1>1 DEF CursorInv, LoopInv, Before, After
<1>3. /\ header = DecodeBlockHeader(SerializeHeader(block.header)) /\ hash = DoubleSHA256(SerializeHeader(block.header)) /\ pos = TxPos(Len(txs))
      /\ \A i \in 1..Len(txs) : Same(txs[i], block.txs[i])
  BY DEF CursorInv, Before, After
<1>4. IsHeader(header, block.header)
  <2>1. block.header \in Headers
    BY <1>1 DEF Blocks
  <2> QED BY <2>1, <1>3, HeaderDecoded
<1>5. pos = Len(buf)
  <2>1. TxPos(Len(block.txs)) = Len(SerializeBlock(block))
    BY <1>1, TxPlace
  <2> QED BY <2>1, <1>1, <1>2, <1>3, Zenon
<1>6. \A i \in DOMAIN txs : Same(txs[i], block.txs[i])
  BY <1>2, <1>3
<1> QED BY <1>2, <1>3, <1>4, <1>5, <1>6, Zenon DEF RoundTrip, Same

(***************************************************************************)
(* The block is read.                                                      *)
(***************************************************************************)
(* The inductive invariant of the reader. *)
PlaceInv == ReaderInv /\ LoopInv /\ (SizesFit => CursorInv)

(* No step disturbs the three together.                                    *)
LEMMA PlaceStep == ASSUME PlaceInv, [Next]_vars PROVE PlaceInv'
<1>1. ReaderInv /\ LoopInv /\ TypeInv /\ (SizesFit => CursorInv)
  BY DEF PlaceInv, ReaderInv
<1>2. ReaderInv'
  BY <1>1, ReaderStep
<1>3. LoopInv'
  BY <1>1, LoopStep
<1>4. (SizesFit => CursorInv)'
  BY <1>1, CursorStep
<1> QED BY <1>2, <1>3, <1>4 DEF PlaceInv

(* So they always hold.                                                    *)
LEMMA PlaceInvariant == Spec => []PlaceInv
<1>1. Init => PlaceInv
  <2> SUFFICES ASSUME Init PROVE PlaceInv
    OBVIOUS
  <2>1. ReaderInv
    BY ReaderInit
  <2>2. LoopInv
    BY HeapInit
  <2>3. SizesFit => CursorInv
    BY CursorInit
  <2> QED BY <2>1, <2>2, <2>3 DEF PlaceInv
<1> QED BY <1>1, PlaceStep, PTL DEF Spec

(* ReadBlockFromBlkDatFile and ReadTxn (src/blkdat.c), which never compare  *)
(* bufferOffset with blockSize: when the counts and sizes of the block fit  *)
(* in 16 bits, the cursor never passes the end of blockBuffer.              *)
THEOREM CursorStaysInBuffer == Spec => []StaysInBuffer
<1>1. ASSUME PlaceInv PROVE StaysInBuffer
  <2>1. SizesFit => pos <= Len(buf)
    BY <1>1, CursorInBuffer DEF PlaceInv
  <2> QED BY <2>1 DEF StaysInBuffer
<1> QED BY <1>1, PlaceInvariant, PTL

(* ReadBlockFromBlkDatFile and ReadTxn (src/blkdat.c) give back the block   *)
(* that bitcoind stored, for every block whose counts and sizes fit in 16   *)
(* bits, every key and every offset.                                        *)
THEOREM BlocksAreRead == Spec => []RoundTrip
<1>1. ASSUME PlaceInv PROVE RoundTrip
  <2>1. ASSUME SizesFit, pc = "done" PROVE RoundTrip
    BY <1>1, <2>1, CursorRoundTrip DEF PlaceInv
  <2>2. ASSUME ~(pc = "done" /\ SizesFit) PROVE RoundTrip
    BY <2>2, Zenon DEF RoundTrip
  <2> QED BY <2>1, <2>2
<1> QED BY <1>1, PlaceInvariant, PTL

----------------------------------------------------------------------------
(* The statistics *)

(***************************************************************************)
(* Statistics: StatsInv.                                                   *)
(***************************************************************************)
(* The sum of naturals is one.                                             *)
LEMMA SumType == ASSUME NEW s \in Seq(Nat) PROVE Sum(s) \in Nat
<1> DEFINE n == Len(s)
           Def(f) == f = [k \in 0..n |-> IF k = 0 THEN 0 ELSE f[k - 1] + s[k]]
           acc == CHOOSE f : Def(f)
           step == [x \in (1..n) \X Nat |-> x[2] + s[x[1]]]
<1>1. n \in Nat /\ \A k \in 1..n : s[k] \in Nat
  OBVIOUS
<1>2. step \in [(1..n) \X Nat -> Nat]
  BY <1>1
<1>3. \A k \in 1..n, x \in Nat : step[<<k, x>>] = x + s[k]
  BY <1>1
<1> HIDE DEF step
<1>4. PICK f \in [0..n -> Nat] : Iterates(f, n, 0, step)
  BY <1>1, <1>2, RecursionTo
<1>5. f[0] = 0 /\ \A k \in 1..n : f[k] = f[k - 1] + s[k]
  <2>1. ASSUME NEW k \in 1..n PROVE f[k] = f[k - 1] + s[k]
    <3>1. k - 1 \in 0..n
      BY <1>1
    <3>2. f[k - 1] \in Nat
      BY <3>1
    <3>3. f[k] = step[<<k, f[k - 1]>>]
      BY <1>4, Zenon DEF Iterates
    <3> QED BY <1>3, <3>2, <3>3
  <2> QED BY <1>4, <2>1 DEF Iterates
<1>6. Def(f)
  BY <1>1, <1>5
<1>7. Def(acc)
  BY <1>6, Zenon
<1>8. Sum(s) = acc[n]
  BY DEF Sum
<1> HIDE DEF acc
<1>9. ASSUME NEW k \in 1..n, acc[k - 1] \in Nat PROVE acc[k] = step[<<k, acc[k - 1]>>]
  <2>1. acc[k] = acc[k - 1] + s[k]
    <3>1. k \in 0..n /\ k # 0
      OBVIOUS
    <3> QED BY <1>7, <3>1, Zenon
  <2> QED BY <1>3, <1>9, <2>1
<1>10. acc[0] = 0
  BY <1>1, <1>7
<1>11. acc[n] = f[n]
  <2>1. n \in Nat /\ 0 \in Nat
    BY <1>1
  <2>2. Follows(acc, n, Nat, 0, step)
    BY <1>9, <1>10 DEF Follows
  <2>3. Agree(f, acc, n)
    BY <1>4, <2>1, <2>2, RecursionUnique
  <2> QED BY <2>1, <2>3 DEF Agree
<1> QED BY <1>1, <1>8, <1>11

(* What is summed up. *)
InsOf(s) == [i \in DOMAIN s |-> Len(s[i].ins)]
OutsOf(s) == [i \in DOMAIN s |-> Len(s[i].outs)]
AmountsOf(s) == [i \in DOMAIN s |-> TotalAmount(s[i])]
SizesOf(s) == [i \in DOMAIN s |-> s[i].size]
LengthsOf(s) == [i \in DOMAIN s |-> Len(SerializeTx(s[i]))]

(* GetBlockStats changes nothing that it reads. *)
StatsInv ==
    /\ stack \in Nat
    /\ pc = "counted" =>
         /\ stats.height = record.block.height /\ stats.time = header.time /\ stats.blockHash = hash
         /\ stats.ins = 0 + Sum(InsOf(txs)) /\ stats.outs = 0 + Sum(OutsOf(txs))
         /\ stats.totalSize = stack + Sum(SizesOf(txs)) /\ stats.totalOut = stack + Sum(AmountsOf(txs))

(* Nothing is counted at the beginning.                                    *)
LEMMA StatsInit == Init => StatsInv
BY DEF Init, StatsInv

(* Only GetBlockStats counts, and it counts what was read.                 *)
LEMMA StatsStep == ASSUME StatsInv, [Next]_vars PROVE StatsInv'
<1>1. stack' = stack
  BY DEF Next, vars, DecodeRecords, ReadPrefix, ReadHeader, ReadTxVersion, ReadInput, ReadOutputCount, ReadOutput,
         EndOutputs, ReadWitness, ReadStackItem, ReadLocktime, HashBlock, GetBlockStats, FreeBlock
<1>2. CASE GetBlockStats
  <2>1. UNCHANGED <<record, header, hash, txs>>
    BY <1>2 DEF GetBlockStats, reader
  <2>2. stats' = [height |-> record.block.height, time |-> header.time, blockHash |-> hash,
                  ins |-> 0 + Sum(InsOf(txs)), outs |-> 0 + Sum(OutsOf(txs)),
                  totalSize |-> stack + Sum(SizesOf(txs)), totalOut |-> stack + Sum(AmountsOf(txs))]
    BY <1>2, Zenon DEF GetBlockStats, Total, Cleared, InsOf, OutsOf, SizesOf, AmountsOf
  <2>3. /\ stats'.height = record.block.height /\ stats'.time = header.time /\ stats'.blockHash = hash
        /\ stats'.ins = 0 + Sum(InsOf(txs)) /\ stats'.outs = 0 + Sum(OutsOf(txs))
        /\ stats'.totalSize = stack + Sum(SizesOf(txs)) /\ stats'.totalOut = stack + Sum(AmountsOf(txs))
    BY <2>2
  <2>4. InsOf(txs)' = InsOf(txs) /\ OutsOf(txs)' = OutsOf(txs) /\ SizesOf(txs)' = SizesOf(txs) /\ AmountsOf(txs)' = AmountsOf(txs)
    BY <2>1
  <2> QED BY <1>1, <2>1, <2>3 DEF StatsInv
<1>3. CASE UNCHANGED vars
  BY <1>3 DEF vars, reader, StatsInv
<1>4. CASE ~GetBlockStats /\ Next
  <2>1. pc' # "counted"
    BY <1>4 DEF Next, DecodeRecords, ReadPrefix, ReadHeader, ReadTxVersion, ReadInput, ReadOutputCount, ReadOutput,
         EndOutputs, ReadWitness, ReadStackItem, ReadLocktime, HashBlock, FreeBlock
  <2> QED BY <1>1, <2>1 DEF StatsInv
<1> QED BY <1>2, <1>3, <1>4

(* What was read has the numbers of what was stored.                       *)
LEMMA SameSums ==
    ASSUME ReaderInv, LoopInv, SizesFit, CursorInv, pc = "counted"
    PROVE  /\ InsOf(txs) = InsOf(block.txs) /\ OutsOf(txs) = OutsOf(block.txs) /\ AmountsOf(txs) = AmountsOf(block.txs)
           /\ (\A t \in ToSet(block.txs) : Len(SerializeTx(t)) < U16Range) => SizesOf(txs) = LengthsOf(block.txs)
<1>1. txs \in Seq(TxRead) /\ block \in Blocks /\ block.txs \in Seq(Transactions)
  BY GivenFacts, BlockType DEF ReaderInv, TypeInv, RecordInv
<1>2. Len(txs) = Len(block.txs)
  BY DEF CursorInv, LoopInv, Before, After
<1>3. DOMAIN txs = 1..Len(txs) /\ DOMAIN block.txs = 1..Len(txs)
  BY <1>1, <1>2
<1>4. \A i \in 1..Len(txs) : Same(txs[i], block.txs[i])
  BY DEF CursorInv
<1> DEFINE N == 1..Len(txs)
<1>5. \A i \in N : txs[i].ins = block.txs[i].ins /\ txs[i].outs = block.txs[i].outs
  <2>1. \A r, t : Content(r) = Content(t) => r.ins = t.ins /\ r.outs = t.outs
    BY DEF Content
  <2> QED BY <1>4, <2>1, Zenon DEF Same
<1> HIDE DEF N
<1>6. DOMAIN txs = N /\ DOMAIN block.txs = N
  BY <1>3 DEF N
<1>7. InsOf(txs) = InsOf(block.txs)
  <2>1. InsOf(txs) = [i \in N |-> Len(txs[i].ins)] /\ InsOf(block.txs) = [i \in N |-> Len(block.txs[i].ins)]
    BY <1>6, Zenon DEF InsOf
  <2>2. [i \in N |-> Len(txs[i].ins)] = [i \in N |-> Len(block.txs[i].ins)]
    BY <1>5
  <2> QED BY <2>1, <2>2, Zenon
<1>8. OutsOf(txs) = OutsOf(block.txs)
  <2>1. OutsOf(txs) = [i \in N |-> Len(txs[i].outs)] /\ OutsOf(block.txs) = [i \in N |-> Len(block.txs[i].outs)]
    BY <1>6, Zenon DEF OutsOf
  <2>2. [i \in N |-> Len(txs[i].outs)] = [i \in N |-> Len(block.txs[i].outs)]
    BY <1>5
  <2> QED BY <2>1, <2>2, Zenon
<1>9. AmountsOf(txs) = AmountsOf(block.txs)
  <2> DEFINE A(o) == Total(o, LAMBDA out : Value(out.amount))
  <2>1. AmountsOf(txs) = [i \in N |-> A(txs[i].outs)] /\ AmountsOf(block.txs) = [i \in N |-> A(block.txs[i].outs)]
    BY <1>6, Zenon DEF AmountsOf, TotalAmount
  <2> HIDE DEF A
  <2>2. [i \in N |-> A(txs[i].outs)] = [i \in N |-> A(block.txs[i].outs)]
    BY <1>5
  <2> QED BY <2>1, <2>2, Zenon
<1>10. ASSUME \A t \in ToSet(block.txs) : Len(SerializeTx(t)) < U16Range PROVE SizesOf(txs) = LengthsOf(block.txs)
  <2>1. \A i \in N : block.txs[i] \in ToSet(block.txs)
    BY <1>6, Zenon DEF ToSet
  <2>2. \A i \in N : Len(SerializeTx(block.txs[i])) < U16Range
    BY <1>10, <2>1, Zenon
  <2>3. \A i \in N : txs[i].size = Len(SerializeTx(block.txs[i]))
    BY <1>4, <2>2, Zenon DEF Same, N
  <2>4. SizesOf(txs) = [i \in N |-> txs[i].size] /\ LengthsOf(block.txs) = [i \in N |-> Len(SerializeTx(block.txs[i]))]
    BY <1>6, Zenon DEF SizesOf, LengthsOf
  <2>5. [i \in N |-> txs[i].size] = [i \in N |-> Len(SerializeTx(block.txs[i]))]
    BY <2>3
  <2> QED BY <2>4, <2>5, Zenon
<1> QED BY <1>7, <1>8, <1>9, <1>10

(* Which are naturals.                                                     *)
LEMMA SumTypes ==
    ASSUME block \in Blocks
    PROVE  /\ Sum(InsOf(block.txs)) \in Nat /\ Sum(OutsOf(block.txs)) \in Nat
           /\ Sum(AmountsOf(block.txs)) \in Nat /\ Sum(LengthsOf(block.txs)) \in Nat
<1> DEFINE s == block.txs
           n == Len(s)
<1>1. s \in Seq(Transactions)
  BY BlockType
<1>2. n \in Nat /\ DOMAIN s = 1..n
  BY <1>1
<1>3. \A i \in 1..n : s[i] \in Transactions
  BY <1>1
<1> HIDE DEF s, n
<1>4. ASSUME NEW i \in 1..n
      PROVE  /\ Len(s[i].ins) \in Nat /\ Len(s[i].outs) \in Nat /\ TotalAmount(s[i]) \in Nat
             /\ Len(SerializeTx(s[i])) \in Nat
  <2> DEFINE t == s[i]
  <2>1. t \in Transactions
    BY <1>3
  <2> HIDE DEF t
  <2>2. t.ins \in Seq(Inputs) /\ t.outs \in Seq(Outputs) /\ SerializeTx(t) \in Seq(Octets)
    BY <2>1, TransactionFacts, TxType
  <2>3. Len(t.ins) \in Nat /\ Len(t.outs) \in Nat /\ Len(SerializeTx(t)) \in Nat
    BY <2>2
  <2> DEFINE o == t.outs
             a == [j \in DOMAIN o |-> Value(o[j].amount)]
  <2>4. TotalAmount(t) = Sum(a)
    BY Zenon DEF TotalAmount, Total
  <2>5. \A j \in 1..Len(o) : Value(o[j].amount) \in Nat
    <3> TAKE j \in 1..Len(o)
    <3>1. o[j] \in Outputs
      BY <2>2
    <3>2. o[j].amount \in Seq(Octets)
      BY <3>1, OutputType
    <3> QED BY <3>2, ValueType
  <2>6. DOMAIN o = 1..Len(o) /\ Len(o) \in Nat
    BY <2>2
  <2> HIDE DEF o
  <2>7. a \in Seq(Nat)
    BY <2>5, <2>6
  <2>8. TotalAmount(t) \in Nat
    BY <2>4, <2>7, SumType
  <2> QED BY <2>3, <2>8 DEF t
<1>5. InsOf(s) \in Seq(Nat) /\ OutsOf(s) \in Seq(Nat)
  BY <1>2, <1>4 DEF InsOf, OutsOf
<1>6. AmountsOf(s) \in Seq(Nat) /\ LengthsOf(s) \in Seq(Nat)
  BY <1>2, <1>4 DEF AmountsOf, LengthsOf
<1> QED BY <1>5, <1>6, SumType DEF s

(* GetBlockStats (src/API.c) counts what bitcoind stored, but for what the  *)
(* two sums held before.                                                    *)
THEOREM StatsAreTheBlocks == Spec => []StatsAreSums
<1> DEFINE Inv == PlaceInv /\ StatsInv
<1>1. ASSUME Inv PROVE StatsAreSums
  <2> SUFFICES ASSUME pc = "counted" /\ SizesFit PROVE StatsAreSums
    BY Zenon DEF StatsAreSums
  <2>1. ReaderInv /\ LoopInv /\ CursorInv /\ StatsInv /\ block \in Blocks
    BY <1>1, GivenFacts DEF PlaceInv, ReaderInv, RecordInv
  <2>2. /\ InsOf(txs) = InsOf(block.txs) /\ OutsOf(txs) = OutsOf(block.txs) /\ AmountsOf(txs) = AmountsOf(block.txs)
        /\ (\A t \in ToSet(block.txs) : Len(SerializeTx(t)) < U16Range) => SizesOf(txs) = LengthsOf(block.txs)
    BY <2>1, SameSums
  <2>3. /\ Sum(InsOf(block.txs)) \in Nat /\ Sum(OutsOf(block.txs)) \in Nat
        /\ Sum(AmountsOf(block.txs)) \in Nat /\ Sum(LengthsOf(block.txs)) \in Nat
    BY <2>1, SumTypes
  <2>4. /\ stack \in Nat
        /\ stats.height = record.block.height /\ stats.time = header.time /\ stats.blockHash = hash
        /\ stats.ins = 0 + Sum(InsOf(txs)) /\ stats.outs = 0 + Sum(OutsOf(txs))
        /\ stats.totalSize = stack + Sum(SizesOf(txs)) /\ stats.totalOut = stack + Sum(AmountsOf(txs))
    BY <2>1 DEF StatsInv
  <2>5. /\ header = DecodeBlockHeader(SerializeHeader(block.header)) /\ hash = DoubleSHA256(SerializeHeader(block.header))
    BY <2>1 DEF CursorInv, Before, After
  <2>6. header.time = block.header.time /\ record.block.height = entry.height
    <3>1. block.header \in Headers
      BY <2>1 DEF Blocks
    <3>2. IsHeader(DecodeBlockHeader(SerializeHeader(block.header)), block.header)
      BY <3>1, HeaderDecoded
    <3> QED BY <2>1, <2>5, <3>2 DEF IsHeader, ReaderInv, RecordInv, RecordDecoded
  <2>7. stats.height = entry.height /\ stats.blockHash = DoubleSHA256(SerializeHeader(block.header))
        /\ stats.time = block.header.time
    BY <2>4, <2>5, <2>6, Zenon
  <2>8. stats.ins = Sum(InsOf(block.txs)) /\ stats.outs = Sum(OutsOf(block.txs))
        /\ stats.totalOut - stack = Sum(AmountsOf(block.txs))
    BY <2>2, <2>3, <2>4
  <2>9. ASSUME \A t \in ToSet(block.txs) : Len(SerializeTx(t)) < U16Range
        PROVE  stats.totalSize - stack = Sum(LengthsOf(block.txs))
    <3>1. stats.totalSize = stack + Sum(LengthsOf(block.txs))
      BY <2>2, <2>4, <2>9, Zenon
    <3> QED BY <3>1, <2>3, <2>4
  <2> QED BY <2>7, <2>8, <2>9, Zenon DEF StatsAreSums, Total, InsOf, OutsOf, AmountsOf, LengthsOf
<1>2. Spec => []StatsInv
  BY StatsInit, StatsStep, PTL DEF Spec
<1>3. Spec => []Inv
  BY <1>2, PlaceInvariant, PTL
<1> HIDE DEF Inv
<1> QED BY <1>1, <1>3, PTL

=============================================================================
