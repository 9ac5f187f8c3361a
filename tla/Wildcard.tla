------------------------------- MODULE Wildcard -------------------------------
(***************************************************************************)
(* WildcardMatch (src/files.c), the matcher ListFiles selects file names   *)
(* with: two cursors, and one remembered '*' to go back to.  The cursors s *)
(* and p are 1-based here; a position behind the last character is the     *)
(* terminating NUL.  MatchPattern (CBuilder.c) is the recursive matcher of *)
(* the build tool.                                                         *)
(***************************************************************************)
EXTENDS Naturals, Sequences

CONSTANTS
    Alphabet,       \* ordinary characters
    MaxStr,         \* bound: length of the name
    MaxPattern      \* bound: length of the pattern

STAR == "*"
ANY == "?"
NUL == "NUL"

ASSUME AlphabetAssumption == Alphabet \cap {STAR, ANY, NUL} = {}

SeqsUpTo(S, n) == UNION {[1..k -> S] : k \in 0..n}

CharAt(t, i) == IF i <= Len(t) THEN t[i] ELSE NUL

VARIABLES
    str, pattern,   \* the arguments
    s, p,           \* the cursors
    star, ss,       \* the last '*' met and the name position it was met at; 0 is NULL
    result          \* "running", "match" or "differ"

matchVars == <<str, pattern, s, p, star, ss, result>>

MatchInit ==
    /\ str \in SeqsUpTo(Alphabet \cup {STAR}, MaxStr)
    /\ pattern \in SeqsUpTo(Alphabet \cup {STAR, ANY}, MaxPattern)
    /\ s = 1 /\ p = 1
    /\ star = 0 /\ ss = 0
    /\ result = "running"

CharsMatch == CharAt(pattern, p) = ANY \/ CharAt(pattern, p) = CharAt(str, s)

(* Mutant: the loop does not stop at the NUL of the name. *)
LoopingAlways == result = "running"

(* The body of the first loop runs. *)
Looping == result = "running" /\ CharAt(str, s) # NUL

Advance ==
    /\ Looping
    /\ CharsMatch
    /\ p' = p + 1 /\ s' = s + 1
    /\ UNCHANGED <<str, pattern, star, ss, result>>

Remember ==
    /\ Looping
    /\ ~CharsMatch /\ CharAt(pattern, p) = STAR
    /\ star' = p /\ p' = p + 1 /\ ss' = s
    /\ UNCHANGED <<str, pattern, s, result>>

(* Mutant: ss++ instead of ++ss. *)
BacktrackLate ==
    /\ Looping
    /\ ~CharsMatch /\ CharAt(pattern, p) # STAR /\ star # 0
    /\ p' = star + 1 /\ s' = ss
    /\ UNCHANGED <<str, pattern, star, ss, result>>

Backtrack ==
    /\ Looping
    /\ ~CharsMatch /\ CharAt(pattern, p) # STAR /\ star # 0
    /\ p' = star + 1 /\ ss' = ss + 1 /\ s' = ss + 1
    /\ UNCHANGED <<str, pattern, star, result>>

Differ ==
    /\ Looping
    /\ ~CharsMatch /\ CharAt(pattern, p) # STAR /\ star = 0
    /\ result' = "differ"
    /\ UNCHANGED <<str, pattern, s, p, star, ss>>

(* Mutant: stars at the end of the pattern are not skipped. *)
EndsAtNext(i) == i = p

(* The second loop stops at i: the first position that is not a star. *)
EndsAt(i) ==
    /\ i >= p /\ CharAt(pattern, i) # STAR
    /\ \A j \in p..(i - 1) : CharAt(pattern, j) = STAR

Finish ==
    /\ result = "running" /\ CharAt(str, s) = NUL
    /\ \E i \in 1..(Len(pattern) + 1) :
         /\ EndsAt(i)
         /\ p' = i
         /\ result' = IF CharAt(pattern, i) = NUL THEN "match" ELSE "differ"
    /\ UNCHANGED <<str, pattern, s, star, ss>>

MatchNext == Advance \/ Remember \/ Backtrack \/ Differ \/ Finish

MatchSpec == MatchInit /\ [][MatchNext]_matchVars /\ WF_matchVars(MatchNext)

(* MatchPattern: '?' is an ordinary character, and every position behind a *)
(* star is tried.  from[n] holds the positions of the text at which a call *)
(* with the last n characters of the pattern succeeds.                     *)
MatchPattern(pat, t) ==
    LET at(n) == Len(pat) + 1 - n
        from[n \in 0..Len(pat)] ==
          {j \in 1..(Len(t) + 1) :
             IF n = 0 \/ j > Len(t) THEN j > Len(t) /\ \A i \in at(n)..Len(pat) : pat[i] = STAR
             ELSE IF pat[at(n)] = STAR THEN n = 1 \/ \E k \in j..Len(t) : k \in from[n - 1]
             ELSE pat[at(n)] = t[j] /\ j + 1 \in from[n - 1]}
    IN  1 \in from[Len(pat)]

----------------------------------------------------------------------------
(* The part of t from position a to before b is one that c stands for: any *)
(* part for '*', one character for '?', itself for any other.              *)
Fits(t, c, a, b) ==
    IF c = STAR THEN a <= b ELSE b = a + 1 /\ (c = ANY \/ c = t[a])

(* The reference: t can be cut into parts that fit the characters of pat.  *)
Glob(t, pat) ==
    \E cut \in [1..(Len(pat) + 1) -> 1..(Len(t) + 1)] :
        /\ cut[1] = 1 /\ cut[Len(pat) + 1] = Len(t) + 1
        /\ \A i \in 1..Len(pat) : Fits(t, pat[i], cut[i], cut[i + 1])

(* Going back to the last star only is enough: for a name without a '*' in *)
(* it WildcardMatch decides what the pattern means.  (A '*' in the name is *)
(* compared like any other character before it is seen as a wildcard.)     *)
(* MatchPattern, which tests for the star first, decides it for every name *)
(* when the pattern has no '?'.                                            *)
DecidesThePattern ==
    result # "running" =>
      /\ (\A i \in DOMAIN str : str[i] # STAR) => (result = "match" <=> Glob(str, pattern))
      /\ (\A i \in DOMAIN pattern : pattern[i] # ANY) => (MatchPattern(pattern, str) <=> Glob(str, pattern))

(* No cursor passes the NUL of its string, whatever the two strings hold.  *)
StaysInside ==
    /\ s <= Len(str) + 1
    /\ p <= Len(pattern) + 1
    /\ star <= Len(pattern)

(* WildcardMatch returns: going back always moves the remembered position. *)
Returns == <>(result # "running")
=============================================================================
