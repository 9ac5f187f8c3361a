-------------------------- MODULE DateQueriesProofs --------------------------
(***************************************************************************)
(* The date queries for every index, every order of the block times and    *)
(* every timestamp: first the arithmetic of the window, then the loops.    *)
(***************************************************************************)
EXTENDS DateQueries, TLAPS

(* A quotient and a remainder that fit are the quotient and the remainder. *)
LEMMA DivisionIsUnique ==
    ASSUME NEW a \in Nat, NEW b \in Nat \ {0}, NEW q \in Nat, NEW r \in 0..(b - 1), a = b * q + r
    PROVE  a \div b = q /\ a % b = r
<1> DEFINE p == a \div b
           s == a % b
<1>1. p \in Nat /\ s \in 0..(b - 1) /\ a = b * p + s
  OBVIOUS
<1> HIDE DEF p, s
<1>2. b * p \in Nat /\ b * q \in Nat
  BY <1>1
<1>3. ASSUME p < q PROVE FALSE
  <2>1. b * q >= b * (p + 1) /\ b * (p + 1) = b * p + b
    BY <1>1, <1>3
  <2> QED BY <1>1, <1>2, <2>1
<1>4. ASSUME q < p PROVE FALSE
  <2>1. b * p >= b * (q + 1) /\ b * (q + 1) = b * q + b
    BY <1>1, <1>4
  <2> QED BY <1>1, <1>2, <2>1
<1>5. p = q
  BY <1>1, <1>3, <1>4
<1> QED BY <1>1, <1>2, <1>5 DEF p, s

(* U32 arithmetic that passes the range at most once. *)
LEMMA WrapsOnce ==
    ASSUME NEW x \in Nat, x < 2 * U32Range
    PROVE  x % U32Range = IF x < U32Range THEN x ELSE x - U32Range
<1>1. U32Range \in Nat \ {0}
  BY U32Assumption, FactorsAssumption
<1>2. CASE x < U32Range
  BY <1>1, <1>2, DivisionIsUnique
<1>3. CASE x >= U32Range
  <2>1. x - U32Range \in 0..(U32Range - 1) /\ x = U32Range * 1 + (x - U32Range)
    BY <1>1, <1>3
  <2> QED BY <1>1, <1>3, <2>1, DivisionIsUnique
<1> QED BY <1>1, <1>2, <1>3

LEMMA DayIsNat == Day \in Nat \ {0} /\ Day < U32Range /\ U32Range \in Nat \ {0}
BY U32Assumption, FactorsAssumption DEF Day

(* The misread remainder is still less than a day. *)
LEMMA RemainderBound ==
    ASSUME NEW t \in Nat
    PROVE  Remainder(t) \in 0..(Day - 1)
<1> DEFINE r == t % Factor1
           k == Factor2 * Factor3
<1>1. Factor1 \in Nat \ {0} /\ k \in Nat \ {0}
  BY FactorsAssumption
<1>2. r \in 0..(Factor1 - 1)
  BY <1>1
<1>3. Remainder(t) = r * k /\ Day = Factor1 * k
  BY <1>2, FactorsAssumption DEF Remainder, Day
<1> HIDE DEF r, k
<1>4. r * k \in Nat /\ r * k <= (Factor1 - 1) * k
  BY <1>1, <1>2
<1>5. (Factor1 - 1) * k = Factor1 * k - k
  BY <1>1
<1>6. Factor1 * k \in Nat
  BY <1>1
<1> QED BY <1>1, <1>3, <1>4, <1>5, <1>6

(* A window that does not wrap starts at most a day before the timestamp   *)
(* and is a day long.                                                      *)
LEMMA WindowShape ==
    ASSUME NEW t \in 0..(U32Range - 1)
    PROVE  /\ Start(t) \in Nat /\ End(t) \in Nat
           /\ Start(t) <= End(t) =>
                Start(t) = t - Remainder(t) /\ End(t) = Start(t) + Day - 1
<1>1. Remainder(t) \in Nat /\ Remainder(t) < Day /\ t \in Nat /\ t < U32Range
  BY RemainderBound, DayIsNat
<1> DEFINE x == t + U32Range - Remainder(t)
<1>2. x \in Nat /\ x < 2 * U32Range
  BY <1>1, DayIsNat
<1>3. Start(t) = IF x < U32Range THEN x ELSE x - U32Range
  BY <1>2, WrapsOnce DEF Start
<1> DEFINE y == Start(t) + Day - 1
<1>4. Start(t) \in Nat /\ Start(t) < U32Range
  BY <1>2, <1>3, DayIsNat
<1>5. y \in Nat /\ y < 2 * U32Range
  BY <1>4, DayIsNat
<1>6. End(t) = IF y < U32Range THEN y ELSE y - U32Range
  BY <1>5, WrapsOnce DEF End
<1> QED BY <1>1, <1>2, <1>3, <1>4, <1>5, <1>6, DayIsNat

(* Midnight is a multiple of every factor: its remainder is zero. *)
LEMMA MidnightRemainder ==
    ASSUME NEW t \in Nat, t % Day = 0
    PROVE  Remainder(t) = 0
<1> DEFINE q == t \div Day
           k == Factor2 * Factor3
<1>1. q \in Nat /\ t = Day * q
  BY DayIsNat
<1> HIDE DEF q
<1>2. k \in Nat /\ Factor1 \in Nat \ {0} /\ Day = Factor1 * k
  BY FactorsAssumption DEF Day
<1> HIDE DEF k
<1>3. k * q \in Nat /\ t = Factor1 * (k * q) + 0
  BY <1>1, <1>2
<1>4. 0 \in 0..(Factor1 - 1)
  BY <1>2
<1>5. t % Factor1 = 0
  BY <1>2, <1>3, <1>4, DivisionIsUnique
<1> QED BY <1>5, FactorsAssumption DEF Remainder

(* The seconds of a day are those from its midnight on. *)
LEMMA SameDay ==
    ASSUME NEW t \in Nat, NEW u \in Nat, t % Day = 0
    PROVE  (t <= u /\ u <= t + Day - 1) <=> u \div Day = t \div Day
<1> DEFINE q == t \div Day
           p == u \div Day
           r == u % Day
<1>1. q \in Nat /\ t = Day * q
  BY DayIsNat
<1>2. p \in Nat /\ r \in 0..(Day - 1) /\ u = Day * p + r
  BY DayIsNat
<1> HIDE DEF q, p, r
<1>3. Day \in Nat \ {0} /\ Day * q \in Nat
  BY <1>1, DayIsNat
<1>4. ASSUME t <= u, u <= t + Day - 1 PROVE p = q
  <2>1. u - t \in 0..(Day - 1) /\ u = Day * q + (u - t)
    BY <1>1, <1>3, <1>4
  <2> QED BY <1>1, <1>3, <2>1, DivisionIsUnique DEF p
<1>5. ASSUME p = q PROVE t <= u /\ u <= t + Day - 1
  BY <1>1, <1>2, <1>3, <1>5
<1> QED BY <1>4, <1>5 DEF p, q

----------------------------------------------------------------------------
(* The loops. *)

Types ==
    /\ count \in 0..MaxCount
    /\ time \in [0..count -> Times]
    /\ timestamp \in Times
    /\ pc \in {"first", "last", "day", "end"}
    /\ i \in 0..count

(* The answer of GetFirstBlockOfDate, and the blocks it has passed.        *)
FirstInv ==
    /\ pc = "first" => \A h \in 0..count : h < i => ~InWindow(time[h])
    /\ pc # "first" =>
         IF Hits = {} THEN firstBlock = NONE
         ELSE firstBlock \in Hits /\ \A h \in Hits : firstBlock <= h

(* The answer of GetLastBlockOfDate, which looks at the elements 1..count. *)
LastInv ==
    /\ pc = "last" => \A h \in 0..count : i < h => ~InWindow(time[h])
    /\ pc \in {"day", "end"} =>
         \/ lastBlock = NONE /\ \A h \in 1..count : ~InWindow(time[h])
         \/ /\ lastBlock \in 1..count /\ InWindow(time[lastBlock])
            /\ \A h \in 0..count : lastBlock < h => ~InWindow(time[h])

(* The first and the last block of the window that GetBlocksOfDay has met. *)
Met(n) ==
    \/ lo = NONE /\ \A h \in 0..count : h < n => ~InWindow(time[h])
    \/ /\ lo \in Hits /\ hi \in Hits /\ lo <= hi /\ hi < n
       /\ \A h \in 0..count : h < lo \/ (hi < h /\ h < n) => ~InWindow(time[h])

DayInv ==
    /\ pc \in {"first", "last"} => lo = NONE
    /\ pc \in {"day", "end"} =>
         Met(i) /\ \A h \in 0..count : h < i => time[h] <= End(timestamp)
    /\ pc = "end" =>
         /\ i = count \/ time[i] > End(timestamp)
         /\ blocks = IF lo = NONE \/ hi - lo + 1 > Limit THEN {} ELSE Requested

IInv == Types /\ FirstInv /\ LastInv /\ DayInv

LEMMA TimestampRange ==
    ASSUME Types
    PROVE  /\ timestamp \in 0..(U32Range - 1)
           /\ Start(timestamp) \in Nat /\ End(timestamp) \in Nat
           /\ \A h \in 0..count : time[h] \in Nat
<1>1. timestamp \in 0..(U32Range - 1) /\ \A h \in 0..count : time[h] \in 0..(U32Range - 1)
  BY TimesAssumption DEF Types
<1> QED BY <1>1, WindowShape, DayIsNat

LEMMA NoneIsNoHeight ==
    ASSUME Types
    PROVE  count \in Nat /\ NONE \notin 0..count
BY BoundsAssumption DEF Types, NONE

LEMMA InitIInv == Init => IInv
<1> SUFFICES ASSUME Init PROVE IInv
  OBVIOUS
<1>1. Types
  BY BoundsAssumption DEF Init, Types
<1>2. FirstInv /\ LastInv /\ DayInv
  BY <1>1, NoneIsNoHeight DEF Init, FirstInv, LastInv, DayInv
<1> QED BY <1>1, <1>2 DEF IInv

LEMMA FirstIInv ==
    ASSUME IInv, FirstStep \/ FirstReturns
    PROVE  IInv'
<1> USE DEF IInv
<1>1. count \in Nat /\ NONE \notin 0..count /\ pc = "first"
  BY NoneIsNoHeight DEF FirstStep, FirstReturns
<1>2. UNCHANGED <<count, time, timestamp, lo, hi, lastBlock, blocks>>
  BY DEF FirstStep, FirstReturns
<1>3. CASE FirstStep
  <2>1. i' = i + 1 /\ i < count /\ ~InWindow(time[i]) /\ pc' = pc
    BY <1>3 DEF FirstStep
  <2>2. Types'
    BY <1>1, <1>2, <2>1 DEF Types
  <2>3. FirstInv' /\ LastInv' /\ DayInv'
    BY <1>1, <1>2, <2>1 DEF Types, FirstInv, LastInv, DayInv, InWindow
  <2> QED BY <2>2, <2>3
<1>4. CASE FirstReturns
  <2>1. /\ i = count \/ InWindow(time[i])
        /\ firstBlock' = IF i = count THEN NONE ELSE i
        /\ pc' = "last" /\ i' = count
    BY <1>4 DEF FirstReturns
  <2>2. Types'
    BY <1>1, <1>2, <2>1 DEF Types
  <2>3. FirstInv'
    <3>1. Hits' = Hits
      BY <1>2 DEF Hits, InWindow
    <3>2. CASE i = count
      BY <1>1, <2>1, <3>1, <3>2 DEF Types, FirstInv, Hits
    <3>3. CASE i # count
      <4>1. i \in Hits /\ \A h \in Hits : i <= h
        BY <1>1, <2>1, <3>3 DEF Types, FirstInv, Hits
      <4> QED BY <2>1, <3>1, <3>3, <4>1 DEF FirstInv
    <3> QED BY <3>2, <3>3
  <2>4. LastInv' /\ DayInv'
    BY <1>1, <1>2, <2>1 DEF LastInv, DayInv
  <2> QED BY <2>2, <2>3, <2>4
<1> QED BY <1>3, <1>4

LEMMA LastIInv ==
    ASSUME IInv, LastStep \/ LastReturns
    PROVE  IInv'
<1> USE DEF IInv
<1>1. count \in Nat /\ NONE \notin 0..count /\ pc = "last"
  BY NoneIsNoHeight DEF LastStep, LastReturns
<1>2. UNCHANGED <<count, time, timestamp, lo, hi, firstBlock, blocks>>
  BY DEF LastStep, LastReturns
<1>3. Hits' = Hits
  BY <1>2 DEF Hits, InWindow
<1>4. CASE LastStep
  <2>1. i' = i - 1 /\ i > 0 /\ ~InWindow(time[i]) /\ pc' = pc /\ lastBlock' = lastBlock
    BY <1>4 DEF LastStep
  <2>2. Types'
    BY <1>1, <1>2, <2>1 DEF Types
  <2>3. FirstInv' /\ DayInv'
    BY <1>1, <1>2, <1>3, <2>1 DEF FirstInv, DayInv
  <2>4. LastInv'
    BY <1>1, <1>2, <2>1 DEF Types, LastInv, InWindow
  <2> QED BY <2>2, <2>3, <2>4
<1>5. CASE LastReturns
  <2>1. /\ i = 0 \/ InWindow(time[i])
        /\ lastBlock' = IF i = 0 THEN NONE ELSE i
        /\ pc' = "day" /\ i' = 0
    BY <1>5 DEF LastReturns
  <2>2. Types'
    BY <1>1, <1>2, <2>1 DEF Types
  <2>3. FirstInv'
    BY <1>1, <1>2, <1>3, <2>1 DEF FirstInv
  <2>4. LastInv'
    BY <1>1, <1>2, <2>1 DEF Types, LastInv, InWindow
  <2>5. DayInv'
    BY <1>1, <1>2, <2>1 DEF DayInv, Met
  <2> QED BY <2>2, <2>3, <2>4, <2>5
<1> QED BY <1>4, <1>5

LEMMA DayIInv ==
    ASSUME IInv, DayStep \/ DayReturns
    PROVE  IInv'
<1> USE DEF IInv
<1>1. count \in Nat /\ NONE \notin 0..count /\ pc = "day"
  BY NoneIsNoHeight DEF DayStep, DayReturns
<1>2. UNCHANGED <<count, time, timestamp, firstBlock, lastBlock>>
  BY DEF DayStep, DayReturns
<1>3. Hits' = Hits
  BY <1>2 DEF Hits, InWindow
<1>4. FirstInv' /\ LastInv'
  <2>1. pc' \in {"day", "end"}
    BY <1>1 DEF DayStep, DayReturns
  <2> QED BY <1>1, <1>2, <1>3, <2>1 DEF FirstInv, LastInv, InWindow
<1>5. CASE DayStep
  <2>1. /\ i < count /\ i' = i + 1 /\ pc' = pc
        /\ InWindow(time[i]) \/ time[i] <= End(timestamp)
        /\ lo' = IF InWindow(time[i]) /\ lo = NONE THEN i ELSE lo
        /\ hi' = IF InWindow(time[i]) THEN i ELSE hi
    BY <1>5 DEF DayStep
  <2>2. Types'
    BY <1>1, <1>2, <2>1 DEF Types
  <2>3. Met(i)'
    <3>1. CASE InWindow(time[i])
      <4>1. i \in Hits
        BY <1>1, <2>1, <3>1 DEF Types, Hits
      <4>2. CASE lo = NONE
        <5>1. lo' = i /\ hi' = i /\ i' = i + 1 /\ \A h \in 0..count : h < i => ~InWindow(time[h])
          BY <1>1, <2>1, <3>1, <4>2 DEF DayInv, Met, Hits
        <5> QED BY <1>1, <1>2, <1>3, <4>1, <5>1 DEF Types, Met, InWindow
      <4>3. CASE lo # NONE
        <5>1. lo' = lo /\ hi' = i /\ i' = i + 1 /\ lo \in Hits /\ lo <= i
          BY <1>1, <2>1, <3>1, <4>3 DEF Types, DayInv, Met, Hits
        <5>2. \A h \in 0..count : h < lo => ~InWindow(time[h])
          BY <1>1, <4>3 DEF DayInv, Met
        <5> QED BY <1>1, <1>2, <1>3, <4>1, <5>1, <5>2 DEF Types, Met, InWindow
      <4> QED BY <4>2, <4>3
    <3>2. CASE ~InWindow(time[i])
      <4>1. lo' = lo /\ hi' = hi /\ i' = i + 1 /\ i \in Nat
        BY <1>1, <2>1, <3>2 DEF Types
      <4>2. CASE lo = NONE
        <5>1. \A h \in 0..count : h < i + 1 => ~InWindow(time[h])
          BY <1>1, <3>2, <4>1, <4>2 DEF DayInv, Met, Hits
        <5> QED BY <1>2, <4>1, <4>2, <5>1 DEF Met, InWindow
      <4>3. CASE lo # NONE
        <5>1. lo \in Hits /\ hi \in Hits /\ lo <= hi /\ hi < i /\ hi \in Nat
          BY <1>1, <4>3 DEF DayInv, Met, Hits
        <5>2. \A h \in 0..count : h < lo \/ (hi < h /\ h < i + 1) => ~InWindow(time[h])
          BY <1>1, <3>2, <4>1, <4>3 DEF DayInv, Met
        <5> QED BY <1>2, <1>3, <4>1, <5>1, <5>2 DEF Met, InWindow
      <4> QED BY <4>2, <4>3
    <3> QED BY <3>1, <3>2
  <2>4. \A h \in 0..count' : h < i' => time'[h] <= End(timestamp')
    BY <1>1, <1>2, <2>1 DEF Types, DayInv, InWindow
  <2> QED BY <1>1, <1>4, <2>1, <2>2, <2>3, <2>4 DEF DayInv
<1>6. CASE DayReturns
  <2>1. /\ i = count \/ time[i] > End(timestamp)
        /\ blocks' = IF lo = NONE \/ hi - lo + 1 > Limit THEN {} ELSE Requested
        /\ pc' = "end" /\ UNCHANGED <<i, lo, hi>>
    BY <1>6 DEF DayReturns
  <2>2. Types'
    BY <1>1, <1>2, <2>1 DEF Types
  <2>3. DayInv'
    BY <1>1, <1>2, <1>3, <2>1 DEF DayInv, Met, Requested, InWindow
  <2> QED BY <1>4, <2>2, <2>3
<1> QED BY <1>5, <1>6

LEMMA NextIInv == IInv /\ [Next]_vars => IInv'
<1> SUFFICES ASSUME IInv, [Next]_vars PROVE IInv'
  OBVIOUS
<1>1. CASE Next
  BY <1>1, FirstIInv, LastIInv, DayIInv DEF Next
<1>2. CASE UNCHANGED vars
  BY <1>2 DEF vars, IInv, Types, FirstInv, LastInv, DayInv, Met, Hits, Requested, InWindow
<1> QED BY <1>1, <1>2

LEMMA Invariance == Spec => []IInv
BY InitIInv, NextIInv, PTL DEF Spec

----------------------------------------------------------------------------
(* The window of a timestamp holds it, and that of a midnight is the day,  *)
(* for every factor of SECONDS_PER_DAY and every range of U32.             *)
THEOREM WindowIsRight == Spec => []WindowHoldsTimestamp
<1>1. IInv => WindowHoldsTimestamp
  <2> SUFFICES ASSUME IInv, Start(timestamp) <= End(timestamp)
               PROVE  /\ InWindow(timestamp)
                      /\ timestamp % Day = 0 =>
                           \A t \in Times : InWindow(t) <=> t \div Day = timestamp \div Day
    BY DEF WindowHoldsTimestamp
  <2>1. timestamp \in 0..(U32Range - 1) /\ timestamp \in Nat
    BY TimestampRange DEF IInv
  <2>2. /\ Start(timestamp) = timestamp - Remainder(timestamp)
        /\ End(timestamp) = Start(timestamp) + Day - 1
    BY <2>1, WindowShape
  <2>3. Remainder(timestamp) \in 0..(Day - 1) /\ Day \in Nat
    BY <2>1, RemainderBound, DayIsNat
  <2>4. InWindow(timestamp)
    BY <2>1, <2>2, <2>3 DEF InWindow
  <2>5. ASSUME timestamp % Day = 0, NEW t \in Times
        PROVE  InWindow(t) <=> t \div Day = timestamp \div Day
    <3>1. Remainder(timestamp) = 0
      BY <2>1, <2>5, MidnightRemainder
    <3>2. Start(timestamp) = timestamp /\ End(timestamp) = timestamp + Day - 1
      BY <2>1, <2>2, <3>1
    <3>3. t \in Nat
      BY TimesAssumption, DayIsNat
    <3>4. InWindow(t) <=> (timestamp <= t /\ t <= timestamp + Day - 1)
      BY <2>1, <3>2, <3>3 DEF InWindow
    <3> QED BY <2>1, <2>5, <3>3, <3>4, SameDay
  <2> QED BY <2>4, <2>5
<1> QED BY <1>1, Invariance, PTL

(* GetFirstBlockOfDate finds the lowest block of the window in every index. *)
THEOREM FirstIsFirst == Spec => []FirstIsLowest
<1>1. IInv => FirstIsLowest
  BY DEF IInv, FirstInv, FirstIsLowest
<1> QED BY <1>1, Invariance, PTL

(* GetLastBlockOfDate finds the highest block above genesis, when the      *)
(* element behind the last record is not taken for one.                    *)
THEOREM LastIsLast == Spec => []LastIsHighest
<1>1. IInv => LastIsHighest
  <2> SUFFICES ASSUME IInv, pc = "end", ~InWindow(time[count])
               PROVE  IF Hits \subseteq {0} THEN lastBlock = NONE
                      ELSE lastBlock \in Hits /\ \A h \in Hits : h <= lastBlock
    BY DEF LastIsHighest
  <2>1. count \in Nat /\ NONE \notin 0..count
    BY NoneIsNoHeight DEF IInv
  <2>2. CASE lastBlock = NONE /\ \A h \in 1..count : ~InWindow(time[h])
    <3>1. Hits \subseteq {0}
      BY <2>1, <2>2 DEF Hits
    <3> QED BY <2>2, <3>1
  <2>3. CASE /\ lastBlock \in 1..count /\ InWindow(time[lastBlock])
             /\ \A h \in 0..count : lastBlock < h => ~InWindow(time[h])
    <3>1. lastBlock \in Hits /\ lastBlock # 0
      BY <2>1, <2>3 DEF Hits
    <3>2. \A h \in Hits : h <= lastBlock
      BY <2>1, <2>3 DEF Hits
    <3> QED BY <3>1, <3>2
  <2> QED BY <2>2, <2>3 DEF IInv, LastInv
<1> QED BY <1>1, Invariance, PTL

(* When the times grow, GetBlocksOfDay has met every block of the window. *)
LEMMA MetAll ==
    ASSUME IInv, pc = "end", Monotone, NEW h \in Hits
    PROVE  h < i
<1>1. h \in 0..count /\ h < count /\ InWindow(time[h]) /\ i \in 0..count /\ count \in Nat
  BY NoneIsNoHeight DEF Hits, IInv, Types
<1>2. i = count \/ time[i] > End(timestamp)
  BY DEF IInv, DayInv
<1>3. ASSUME i <= h PROVE FALSE
  <2>1. time[i] <= time[h] /\ time[h] <= End(timestamp) /\ time[i] > End(timestamp)
    BY <1>1, <1>2, <1>3 DEF Monotone, InWindow
  <2>2. time[i] \in Nat /\ time[h] \in Nat /\ End(timestamp) \in Nat
    BY <1>1, TimestampRange DEF IInv
  <2> QED BY <2>1, <2>2
<1> QED BY <1>1, <1>3

(* GetBlocksOfDay returns the blocks of the window when the times grow,    *)
(* and never one behind it; it agrees with the two other queries.          *)
THEOREM DayIsRight == Spec => []DayIsExact
<1>1. IInv => DayIsExact
  <2> SUFFICES ASSUME IInv, pc = "end"
               PROVE  /\ blocks # {} =>
                           /\ lo = firstBlock /\ hi \in Hits
                           /\ \A h \in blocks : h < count /\ time[h] <= End(timestamp)
                           /\ Monotone /\ hi # 0 /\ ~InWindow(time[count]) => hi = lastBlock
                      /\ Monotone => blocks = Hits \/ (blocks = {} /\ hi - lo + 1 > Limit)
    BY DEF DayIsExact
  <2> USE DEF IInv
  <2>1. count \in Nat /\ NONE \notin 0..count /\ i \in 0..count
    BY NoneIsNoHeight DEF Types
  <2>2. blocks = IF lo = NONE \/ hi - lo + 1 > Limit THEN {} ELSE Requested
    BY DEF DayInv
  <2>3. CASE lo = NONE
    <3>1. ~(lo \in Hits)
      BY <2>1, <2>3 DEF Hits
    <3>2. \A h \in 0..count : h < i => ~InWindow(time[h])
      BY <3>1 DEF DayInv, Met
    <3>3. Monotone => Hits = {}
      BY <3>2, MetAll DEF Hits
    <3> QED BY <2>2, <2>3, <3>3
  <2>4. CASE lo # NONE
    <3>1. /\ lo \in Hits /\ hi \in Hits /\ lo <= hi /\ hi < i
          /\ \A h \in 0..count : h < lo \/ (hi < h /\ h < i) => ~InWindow(time[h])
      BY <2>4 DEF DayInv, Met
    <3>2. lo \in 0..count /\ hi \in 0..count /\ lo \in Nat /\ hi \in Nat
      BY <3>1 DEF Hits
    <3>3. lo = firstBlock
      <4>1. firstBlock \in Hits /\ firstBlock <= lo
        BY <3>1 DEF FirstInv
      <4>2. ~(firstBlock < lo)
        BY <3>1, <4>1 DEF Hits
      <4> QED BY <3>2, <4>1, <4>2 DEF Hits
    <3>4. ASSUME NEW h \in blocks PROVE h < count /\ time[h] <= End(timestamp)
      <4>1. h \in 0..count /\ h <= hi
        BY <2>2, <3>4 DEF Requested
      <4>2. h < i
        BY <2>1, <3>1, <3>2, <4>1
      <4> QED BY <2>1, <4>1, <4>2 DEF DayInv
    <3>5. ASSUME Monotone PROVE \A h \in Hits : lo <= h /\ h <= hi
      <4> SUFFICES ASSUME NEW h \in Hits PROVE lo <= h /\ h <= hi
        OBVIOUS
      <4>1. h \in 0..count /\ h < i /\ InWindow(time[h])
        BY <3>5, MetAll DEF Hits
      <4> QED BY <2>1, <3>1, <3>2, <4>1
    <3>6. ASSUME Monotone, hi # 0, ~InWindow(time[count]) PROVE hi = lastBlock
      <4>1. hi \in 1..count /\ InWindow(time[hi])
        BY <2>1, <3>1, <3>2, <3>6 DEF Hits
      <4>2. lastBlock \in 1..count /\ InWindow(time[lastBlock]) /\ ~(lastBlock < hi)
        BY <2>1, <4>1 DEF LastInv
      <4>3. lastBlock \in Hits
        BY <2>1, <3>6, <4>2 DEF Hits
      <4> QED BY <3>2, <3>5, <3>6, <4>2, <4>3
    <3>7. ASSUME Monotone, ~(hi - lo + 1 > Limit) PROVE Requested = Hits
      <4>1. ASSUME NEW h \in Requested PROVE h \in Hits
        <5>1. h \in 0..count /\ lo <= h /\ h <= hi /\ h < count /\ hi < count
          BY <2>1, <3>1, <3>2 DEF Requested
        <5>2. time[lo] <= time[h] /\ time[h] <= time[hi]
          BY <3>2, <3>7, <5>1 DEF Monotone
        <5>3. InWindow(time[h])
          <6>1. InWindow(time[lo]) /\ InWindow(time[hi])
            BY <3>1 DEF Hits
          <6>2. /\ time[lo] \in Nat /\ time[h] \in Nat /\ time[hi] \in Nat
                /\ Start(timestamp) \in Nat /\ End(timestamp) \in Nat
            BY <3>2, <5>1, TimestampRange
          <6> QED BY <5>2, <6>1, <6>2 DEF InWindow
        <5> QED BY <5>1, <5>3 DEF Hits
      <4>2. Hits \subseteq Requested
        BY <3>5, <3>7 DEF Hits, Requested
      <4> QED BY <4>1, <4>2
    <3> QED BY <2>2, <2>4, <3>1, <3>3, <3>4, <3>6, <3>7
  <2> QED BY <2>3, <2>4
<1> QED BY <1>1, Invariance, PTL
=============================================================================
