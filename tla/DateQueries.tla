----------------------------- MODULE DateQueries -----------------------------
(***************************************************************************)
(* GetFirstBlockOfDate, GetLastBlockOfDate, GetBlocksOfDay and the limit   *)
(* of GetBlocks (src/API.c), over an index whose first count records are   *)
(* the blocks of one chain.  Block times need not grow with the height.    *)
(*                                                                         *)
(* The window of a query is computed with the macro SECONDS_PER_DAY, which *)
(* expands to 60 * 60 * 24 without parentheses: timestamp % SECONDS_PER_DAY*)
(* is (timestamp % 60) * 60 * 24.  The three factors and the range of U32  *)
(* are constants, so that a small clock shows the same cases.              *)
(***************************************************************************)
EXTENDS Naturals

CONSTANTS
    Factor1, Factor2, Factor3,      \* 60, 60 and 24
    U32Range,                       \* 2^32
    Limit,                          \* blocks that fit in MLBTCC_MAX_MEMORY: 1024
    Times,                          \* the block times and timestamps that occur
    MaxCount                        \* bound: records in the index

ASSUME FactorsAssumption ==
    Factor1 \in Nat \ {0} /\ Factor2 \in Nat \ {0} /\ Factor3 \in Nat \ {0}
ASSUME U32Assumption == U32Range \in Nat /\ Factor1 * Factor2 * Factor3 < U32Range
ASSUME TimesAssumption == Times \subseteq 0..(U32Range - 1)
ASSUME BoundsAssumption == Limit \in Nat \ {0} /\ MaxCount \in Nat

NONE == MaxCount + 1                \* -1, or the empty Block{0}

Day == Factor1 * Factor2 * Factor3

(* timestamp % SECONDS_PER_DAY *)
Remainder(t) == (t % Factor1) * Factor2 * Factor3

Start(t) == (t + U32Range - Remainder(t)) % U32Range

(* Mutant: the window is one second too long. *)
EndInclusive(t) == (Start(t) + Day) % U32Range

End(t) == (Start(t) + Day - 1) % U32Range

VARIABLES
    count,          \* blockIndexRecordCount
    time,           \* blockHeader.time of the elements 0..count; the last one is not a record
    timestamp,      \* the argument of the three calls
    pc,             \* the call that runs: "first", "last", "day", or "end"
    i,              \* its loop variable
    lo, hi,         \* the locals first and last of GetBlocksOfDay
    firstBlock,     \* the height GetFirstBlockOfDate returned
    lastBlock,      \* the height GetLastBlockOfDate returned
    blocks          \* the heights GetBlocksOfDay returned

vars == <<count, time, timestamp, pc, i, lo, hi, firstBlock, lastBlock, blocks>>

Init ==
    /\ count \in 0..MaxCount
    /\ time \in [0..count -> Times]
    /\ timestamp \in Times
    /\ pc = "first" /\ i = 0
    /\ lo = NONE /\ hi = NONE
    /\ firstBlock = NONE /\ lastBlock = NONE /\ blocks = {}

InWindow(t) == t >= Start(timestamp) /\ t <= End(timestamp)

----------------------------------------------------------------------------
(* GetFirstBlockOfDate counts up from the genesis block. *)
FirstStep ==
    /\ pc = "first" /\ i < count /\ ~InWindow(time[i])
    /\ i' = i + 1
    /\ UNCHANGED <<count, time, timestamp, pc, lo, hi, firstBlock, lastBlock, blocks>>

(* Mutant: the loop gives up at the first block behind the window. *)
FirstReturnsEarly ==
    /\ pc = "first" /\ (i = count \/ InWindow(time[i]) \/ time[i] > End(timestamp))
    /\ firstBlock' = IF i = count \/ ~InWindow(time[i]) THEN NONE ELSE i
    /\ pc' = "last" /\ i' = count
    /\ UNCHANGED <<count, time, timestamp, lo, hi, lastBlock, blocks>>

FirstReturns ==
    /\ pc = "first" /\ (i = count \/ InWindow(time[i]))
    /\ firstBlock' = IF i = count THEN NONE ELSE i
    /\ pc' = "last" /\ i' = count
    /\ UNCHANGED <<count, time, timestamp, lo, hi, lastBlock, blocks>>

(* Mutant: the condition i >= 0, always true for an unsigned i. *)
LastStepForever ==
    /\ pc = "last" /\ ~InWindow(time[i])
    /\ i' = IF i = 0 THEN count ELSE i - 1
    /\ UNCHANGED <<count, time, timestamp, pc, lo, hi, firstBlock, lastBlock, blocks>>

(* GetLastBlockOfDate counts down from element count, which is behind the  *)
(* last record, and stops before element 0.                                *)
LastStep ==
    /\ pc = "last" /\ i > 0 /\ ~InWindow(time[i])
    /\ i' = i - 1
    /\ UNCHANGED <<count, time, timestamp, pc, lo, hi, firstBlock, lastBlock, blocks>>

(* Mutant: element i - 1 is returned after element i was tested. *)
LastReturnsPrevious ==
    /\ pc = "last" /\ (i = 0 \/ InWindow(time[i]))
    /\ lastBlock' = IF i = 0 THEN NONE ELSE i - 1
    /\ pc' = "day" /\ i' = 0
    /\ UNCHANGED <<count, time, timestamp, lo, hi, firstBlock, blocks>>

LastReturns ==
    /\ pc = "last" /\ (i = 0 \/ InWindow(time[i]))
    /\ lastBlock' = IF i = 0 THEN NONE ELSE i
    /\ pc' = "day" /\ i' = 0
    /\ UNCHANGED <<count, time, timestamp, lo, hi, firstBlock, blocks>>

(* GetBlocksOfDay: a time behind the window ends the loop, one before it   *)
(* does not.                                                               *)
DayStep ==
    /\ pc = "day" /\ i < count /\ (InWindow(time[i]) \/ time[i] <= End(timestamp))
    /\ lo' = IF InWindow(time[i]) /\ lo = NONE THEN i ELSE lo
    /\ hi' = IF InWindow(time[i]) THEN i ELSE hi
    /\ i' = i + 1
    /\ UNCHANGED <<count, time, timestamp, pc, firstBlock, lastBlock, blocks>>

(* Mutant: the blocks are counted without the last one. *)
RequestedOneLess == {h \in 0..count : lo <= h /\ h < hi}

(* The heights passed to GetBlocks. *)
Requested == {h \in 0..count : lo <= h /\ h <= hi}

(* GetBlocks returns nothing when the blocks would not fit in memory. *)
DayReturns ==
    /\ pc = "day" /\ (i = count \/ (~InWindow(time[i]) /\ time[i] > End(timestamp)))
    /\ blocks' = IF lo = NONE \/ hi - lo + 1 > Limit THEN {} ELSE Requested
    /\ pc' = "end"
    /\ UNCHANGED <<count, time, timestamp, i, lo, hi, firstBlock, lastBlock>>

Next == FirstStep \/ FirstReturns \/ LastStep \/ LastReturns \/ DayStep \/ DayReturns

Spec == Init /\ [][Next]_vars /\ WF_vars(Next)

----------------------------------------------------------------------------
(* Properties. *)

(* A query for midnight is a query for that day, in spite of the macro;    *)
(* the window of any other timestamp contains it and is one day long.      *)
WindowHoldsTimestamp ==
    Start(timestamp) <= End(timestamp) =>
      /\ InWindow(timestamp)
      /\ timestamp % Day = 0 => \A t \in Times : InWindow(t) <=> t \div Day = timestamp \div Day

Monotone == \A h, k \in 0..count : h <= k /\ k < count => time[h] <= time[k]

Hits == {h \in 0..count : h < count /\ InWindow(time[h])}

(* GetFirstBlockOfDate finds the lowest block of the window, whatever the  *)
(* order of the times, and an answer of none means that there is none.     *)
FirstIsLowest ==
    pc = "end" =>
      IF Hits = {} THEN firstBlock = NONE
      ELSE firstBlock \in Hits /\ \A h \in Hits : firstBlock <= h

(* GetLastBlockOfDate finds the highest block of the window, unless that   *)
(* is the genesis block or the element behind the last record seems to be  *)
(* in the window.                                                          *)
LastIsHighest ==
    pc = "end" /\ ~InWindow(time[count]) =>
      IF Hits \subseteq {0} THEN lastBlock = NONE
      ELSE lastBlock \in Hits /\ \A h \in Hits : h <= lastBlock

(* GetBlocksOfDay returns no block that is later than the window, and its  *)
(* range starts and ends in the window; with times that grow it returns    *)
(* exactly the blocks of the window, or nothing when they are more than    *)
(* GetBlocks allows, and it agrees with the two other queries.             *)
DayIsExact ==
    pc = "end" =>
      /\ blocks # {} => /\ lo = firstBlock /\ hi \in Hits
                        /\ \A h \in blocks : h < count /\ time[h] <= End(timestamp)
                        /\ Monotone /\ hi # 0 /\ ~InWindow(time[count]) => hi = lastBlock
      /\ Monotone => blocks = Hits \/ (blocks = {} /\ hi - lo + 1 > Limit)

(* The three calls return. *)
Answers == <>(pc = "end")
=============================================================================
