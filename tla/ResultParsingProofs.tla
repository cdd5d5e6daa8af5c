------------------------- MODULE ResultParsingProofs -------------------------
(***************************************************************************)
(* Proofs about ResultParsing, for any number of calls and patterns, with  *)
(* any memory for automata, any text, buffer and number of columns.        *)
(*                                                                         *)
(* The caches stay sound: the match in progress has to be the one of the   *)
(* pattern that the call looks for, since it is that pattern's cache which *)
(* is emptied when the automaton is freed (IInv).                          *)
(*                                                                         *)
(* A table has the words of the text: the tokens of a text are its runs of *)
(* other characters, in order (TokensAreRuns, by induction from the end of *)
(* the text), so that cutting it into lines and these into words is the    *)
(* same as the reference (TableOfTokens).  The parsing keeps, step by      *)
(* step, what of that it has done (ParseInv) and which blocks it has in    *)
(* memory (BlocksInv).                                                     *)
(*                                                                         *)
(* A section in order is cut into as many rows and words as it was made of *)
(* (SectionInOrder), so that a call reads none that is not there, and the  *)
(* result has as many neighbours as were told (NofInv).                    *)
(***************************************************************************)
EXTENDS ResultParsing, Integers, Least, FiniteSetTheorems, SequenceTheorems, TLAPS

-----------------------------------------------------------------------------
(* Caches                                                                  *)

\* The automaton that is run is the cached one of the pattern in progress.
MatchInv ==
  /\ pc \in {"acquire", "run", "parse"} => todo # <<>>
  /\ pc = "run" => regex # Null /\ cache[Pattern] = regex

IInv == RegexTypeOK /\ todo \in Seq(Patterns) /\ MatchInv /\ CachesSound

\* The steps of a match, each for the pattern p that it is made for.
LEMMA ReuseSound ==
  ASSUME NEW p \in Patterns, RegexTypeOK, CachesSound, Reuse(p)
  PROVE  RegexTypeOK' /\ CachesSound' /\ regex' # Null /\ cache'[p] = regex'
BY DEF RegexTypeOK, CachesSound, Reuse

LEMMA CompileSound ==
  ASSUME NEW p \in Patterns, RegexTypeOK, CachesSound, Compile(p)
  PROVE  RegexTypeOK' /\ CachesSound' /\ regex' # Null /\ cache'[p] = regex'
BY ResultParsingAssumption DEF RegexTypeOK, CachesSound, Compile

LEMMA RanSound ==
  ASSUME RegexTypeOK, CachesSound, Ran
  PROVE  RegexTypeOK' /\ CachesSound'
BY DEF RegexTypeOK, CachesSound, Ran

LEMMA RunFailsSound ==
  ASSUME NEW p \in Patterns, RegexTypeOK, CachesSound, regex # Null,
         cache[p] = regex, RunFails(p)
  PROVE  RegexTypeOK' /\ CachesSound'
BY ResultParsingAssumption DEF RegexTypeOK, CachesSound, RunFails

\* Going on to the next pattern, or back to the caller.
LEMMA ContinueSound ==
  ASSUME todo \in Seq(Patterns), todo # <<>>, Continue
  PROVE  /\ todo' \in Seq(Patterns)
         /\ pc' \in {"idle", "acquire"} /\ (pc' = "acquire" => todo' # <<>>)
<1>1. Len(todo) \in Nat \ {0} /\ todo' = Tail(todo)
  BY DEF Continue
<1>2. todo' \in Seq(Patterns) /\ Len(todo') = Len(todo) - 1
  BY <1>1
<1>3. pc' = "acquire" => Len(todo') # 0
  BY <1>1, <1>2 DEF Continue
<1> QED
  BY <1>2, <1>3 DEF Continue

LEMMA InitEstablishes == Init => IInv
BY ResultParsingAssumption
   DEF Init, RegexInit, IInv, RegexTypeOK, MatchInv, CachesSound

LEMMA NextPreserves == IInv /\ [Next]_vars => IInv'
<1> SUFFICES ASSUME IInv, [Next]_vars PROVE IInv'
  OBVIOUS
<1> USE DEF IInv
<1>1. pc \in {"acquire", "run"} => Pattern \in Patterns
  BY DEF MatchInv, Pattern
<1>2. ASSUME NEW s, s \in {StatusPatterns, SectionPatterns}, Call(s) PROVE IInv'
  <2>1. {"number", "string", "serving", "intrafreq"} \subseteq Patterns
    BY ResultParsingAssumption
  <2>2. StatusPatterns \in Seq(Patterns) /\ Len(StatusPatterns) = 2
    BY <2>1 DEF StatusPatterns
  <2>3. SectionPatterns \in Seq(Patterns) /\ Len(SectionPatterns) \in {2, 3}
    BY <2>1 DEF SectionPatterns
  <2>4. s \in Seq(Patterns) /\ s # <<>>
    <3>1. s \in Seq(Patterns) /\ Len(s) \in {2, 3}
      BY <1>2, <2>2, <2>3
    <3>2. s = <<>> => Len(s) = 0
      OBVIOUS
    <3> QED
      BY <3>1, <3>2
  <2> QED
    BY <1>2, <2>4 DEF Call, regexes, RegexTypeOK, CachesSound, MatchInv
<1>3. CASE Acquire
  BY <1>1, <1>3, ReuseSound, CompileSound DEF Acquire, MatchInv, Pattern
<1>4. CASE AcquireFails \/ NoBuffer
  BY <1>4, ContinueSound
     DEF AcquireFails, NoBuffer, NoAutomaton, regexes, RegexTypeOK, CachesSound, MatchInv
<1>5. CASE RunInVain \/ FindToken
  BY <1>5, RanSound, ContinueSound DEF RunInVain, FindToken, MatchInv
<1>6. CASE RunBreaks
  BY <1>1, <1>6, RunFailsSound, ContinueSound DEF RunBreaks, MatchInv
<1>7. CASE FindSection
  BY <1>7, RanSound DEF FindSection, MatchInv
<1>8. CASE Parse
  BY <1>8 DEF Parse, regexes, RegexTypeOK, CachesSound, MatchInv
<1>9. ASSUME pc = "parse", UNCHANGED regexes,
             \/ pc' = "crashed" /\ UNCHANGED todo
             \/ Continue /\ todo # <<>>
      PROVE  IInv'
  BY <1>9, ContinueSound DEF regexes, RegexTypeOK, CachesSound, MatchInv
<1>10. CASE FillNothing \/ FillServing \/ FillNeighbours \/ NoMemoryForNeighbours
  BY <1>9, <1>10 DEF FillNothing, FillServing, FillNeighbours, NoMemoryForNeighbours, Leave,
     Crash, MatchInv
<1>11. CASE UNCHANGED vars
  BY <1>11 DEF vars, regexes, RegexTypeOK, CachesSound, MatchInv, Pattern
<1> QED
  BY <1>2, <1>3, <1>4, <1>5, <1>6, <1>7, <1>8, <1>10, <1>11 DEF Next, GetStatus, GetLteinfo

\* Whatever fails in whatever call, a cache never refers to an automaton that
\* was freed or is another pattern's, and no automaton is lost.
THEOREM CachesCorrect == Spec => []CachesSound
<1>1. IInv => CachesSound
  BY DEF IInv
<1> QED
  BY <1>1, InitEstablishes, NextPreserves, PTL DEF Spec

-----------------------------------------------------------------------------
(* Tokens                                                                  *)

LEMMA FirstFromFinds ==
  ASSUME NEW s \in Seq(Characters), NEW i \in Nat \ {0}, NEW C
  PROVE  /\ FirstFrom(s, i, C) \in 1..(Len(s) + 1)
         /\ FirstFrom(s, i, C) <= Len(s) =>
              FirstFrom(s, i, C) \in i..Len(s) /\ s[FirstFrom(s, i, C)] \in C
         /\ \A j \in i..Len(s) : j < FirstFrom(s, i, C) => s[j] \notin C
<1> DEFINE found == {k \in i..Len(s) : s[k] \in C}
           c == CHOOSE k \in found : \A l \in found : k <= l
<1>1. Len(s) \in Nat /\ FirstFrom(s, i, C) = IF found = {} THEN Len(s) + 1 ELSE c
  BY DEF FirstFrom
<1>2. found # {} => c \in found /\ \A l \in found : c <= l
  <2>1. found \in SUBSET Nat
    BY <1>1
  <2> HIDE DEF found
  <2> QED
    BY <2>1, LeastExists
<1> HIDE DEF c
<1> QED
  BY <1>1, <1>2

\* The tokens from a position on, if g tells those from the later ones.
TokensAt(s, d, g, i) ==
  LET start == FirstFrom(s, i, Characters \ d)
      end == FirstFrom(s, start, d)
  IN IF start > Len(s) THEN <<>>
     ELSE <<SubSeq(s, start, end - 1)>> \o g[end + 1]

\* A token, if there is one, is at the position or behind it, and ends where
\* the text or a delimiter does.
LEMMA TokenAt ==
  ASSUME NEW s \in Seq(Characters), NEW d, NEW i \in 1..(Len(s) + 2)
  PROVE  LET start == FirstFrom(s, i, Characters \ d)
             end == FirstFrom(s, start, d)
         IN IF start > Len(s) THEN \A j \in i..Len(s) : s[j] \notin Characters \ d
            ELSE /\ start \in i..Len(s) /\ end \in (start + 1)..(Len(s) + 1)
                 /\ \A j \in i..(start - 1) : s[j] \notin Characters \ d
                 /\ \A j \in start..(end - 1) : s[j] \in Characters \ d
                 /\ end <= Len(s) => s[end] \in d
<1> DEFINE start == FirstFrom(s, i, Characters \ d)
           end == FirstFrom(s, start, d)
<1> SUFFICES IF start > Len(s) THEN \A j \in i..Len(s) : s[j] \notin Characters \ d
             ELSE /\ start \in i..Len(s) /\ end \in (start + 1)..(Len(s) + 1)
                  /\ \A j \in i..(start - 1) : s[j] \notin Characters \ d
                  /\ \A j \in start..(end - 1) : s[j] \in Characters \ d
                  /\ end <= Len(s) => s[end] \in d
  OBVIOUS
<1>1. Len(s) \in Nat /\ \A j \in 1..Len(s) : s[j] \in Characters
  OBVIOUS
<1>2. /\ start \in 1..(Len(s) + 1)
      /\ start <= Len(s) => start \in i..Len(s) /\ s[start] \in Characters \ d
      /\ \A j \in i..Len(s) : j < start => s[j] \notin Characters \ d
  BY FirstFromFinds
<1> HIDE DEF start
<1>3. /\ end \in 1..(Len(s) + 1)
      /\ end <= Len(s) => end \in start..Len(s) /\ s[end] \in d
      /\ \A j \in start..Len(s) : j < end => s[j] \notin d
  <2>1. start \in Nat \ {0}
    BY <1>2
  <2> QED
    BY <2>1, FirstFromFinds
<1> HIDE DEF end
<1>4. CASE start > Len(s)
  BY <1>1, <1>2, <1>4
<1>5. CASE ~(start > Len(s))
  <2>1. start \in i..Len(s) /\ s[start] \notin d
    BY <1>1, <1>2, <1>5
  <2>2. end \in (start + 1)..(Len(s) + 1)
    BY <1>1, <1>3, <2>1
  <2>3. ASSUME NEW j \in i..(start - 1) PROVE s[j] \notin Characters \ d
    <3>1. j \in i..Len(s) /\ j < start
      BY <1>1, <2>1
    <3> QED
      BY <1>2, <3>1
  <2>4. ASSUME NEW j \in start..(end - 1) PROVE s[j] \in Characters \ d
    <3>1. j \in start..Len(s) /\ j < end /\ j \in 1..Len(s)
      BY <1>1, <2>1, <2>2
    <3> QED
      BY <1>1, <1>3, <3>1
  <2> QED
    BY <1>3, <1>5, <2>1, <2>2, <2>3, <2>4
<1> QED
  BY <1>4, <1>5

LEMMA TokensAtTypes ==
  ASSUME NEW s \in Seq(Characters), NEW d, NEW i \in 1..(Len(s) + 2), NEW g,
         \A j \in (i + 1)..(Len(s) + 2) : g[j] \in Seq(Seq(Characters))
  PROVE  /\ TokensAt(s, d, g, i) \in Seq(Seq(Characters))
         /\ \A h : (\A j \in (i + 1)..(Len(s) + 2) : h[j] = g[j]) =>
              TokensAt(s, d, h, i) = TokensAt(s, d, g, i)
<1> DEFINE start == FirstFrom(s, i, Characters \ d)
           end == FirstFrom(s, start, d)
<1>1. CASE start > Len(s)
  BY <1>1 DEF TokensAt
<1>2. CASE ~(start > Len(s))
  <2>1. start \in i..Len(s) /\ end \in (start + 1)..(Len(s) + 1)
    BY <1>2, TokenAt
  <2>2. \A h : TokensAt(s, d, h, i) = <<SubSeq(s, start, end - 1)>> \o h[end + 1]
    BY <1>2 DEF TokensAt
  <2> HIDE DEF start, end
  <2>3. Len(s) \in Nat /\ end + 1 \in (i + 1)..(Len(s) + 2)
    BY <2>1
  <2>4. SubSeq(s, start, end - 1) \in Seq(Characters)
    BY <2>1, <2>3
  <2>5. g[end + 1] \in Seq(Seq(Characters))
    BY <2>3
  <2>6. <<SubSeq(s, start, end - 1)>> \o g[end + 1] \in Seq(Seq(Characters))
    BY <2>4, <2>5
  <2>7. \A h : (\A j \in (i + 1)..(Len(s) + 2) : h[j] = g[j]) => h[end + 1] = g[end + 1]
    BY <2>3
  <2> QED
    BY <2>2, <2>6, <2>7
<1> QED
  BY <1>1, <1>2

\* The recursion is well founded: it defines the tokens from every position.
LEMMA Recursion ==
  ASSUME NEW s \in Seq(Characters), NEW d
  PROVE  \E g : g = [i \in 1..(Len(s) + 2) |-> TokensAt(s, d, g, i)] /\ Tokens(s, d) = g[1]
<1> DEFINE N == Len(s) + 2
           G == [1..N -> Seq(Seq(Characters))]
           S == {k \in 1..N : \E h \in G : \A j \in k..N : h[j] = TokensAt(s, d, h, j)}
           g == CHOOSE g : g = [i \in 1..N |-> TokensAt(s, d, g, i)]
<1>0. N \in Nat \ {0}
  OBVIOUS
<1>1. 1..N \subseteq S
  <2> SUFFICES ASSUME NEW i \in 1..N, (i + 1)..N \subseteq S PROVE i \in S
    <3> HIDE DEF S, N
    <3> QED
      BY <1>0, Downwards
  <2>1. PICK h \in G : \A j \in (i + 1)..N : h[j] = TokensAt(s, d, h, j)
    <3>1. CASE i = N
      <4>1. (i + 1)..N = {} /\ [j \in 1..N |-> <<>>] \in G
        BY <1>0, <3>1
      <4> QED
        BY <4>1
    <3>2. CASE i # N
      <4>1. i + 1 \in (i + 1)..N
        BY <1>0, <3>2
      <4> QED
        BY <4>1
    <3> QED
      BY <3>1, <3>2
  <2> DEFINE k == [h EXCEPT ![i] = TokensAt(s, d, h, i)]
  <2>2. /\ \A j \in (i + 1)..N : h[j] \in Seq(Seq(Characters)) /\ k[j] = h[j]
        /\ k[i] = TokensAt(s, d, h, i)
    BY <1>0
  <2>3. k \in G
    <3>1. TokensAt(s, d, h, i) \in Seq(Seq(Characters))
      BY <2>2, TokensAtTypes
    <3> QED
      BY <3>1
  <2> HIDE DEF k
  <2>4. ASSUME NEW j \in i..N PROVE k[j] = TokensAt(s, d, k, j)
    <3>1. j \in 1..N /\ \A l \in (j + 1)..N : l \in (i + 1)..N
      BY <1>0
    <3>2. TokensAt(s, d, k, j) = TokensAt(s, d, h, j)
      BY <2>2, <3>1, TokensAtTypes
    <3>3. j = i \/ j \in (i + 1)..N
      BY <1>0
    <3> QED
      BY <2>1, <2>2, <3>2, <3>3
  <2> QED
    BY <2>3, <2>4
<1>2. PICK h : h = [i \in 1..N |-> TokensAt(s, d, h, i)]
  <2>1. 1 \in S
    <3>1. 1 \in 1..N
      BY <1>0
    <3> HIDE DEF S, N
    <3> QED
      BY <1>1, <3>1
  <2>2. PICK h \in G : \A j \in 1..N : h[j] = TokensAt(s, d, h, j)
    BY <2>1
  <2>3. h = [i \in 1..N |-> TokensAt(s, d, h, i)]
    BY <2>2
  <2> QED
    BY <2>3
<1>3. g = [i \in 1..N |-> TokensAt(s, d, g, i)]
  BY <1>2
<1>4. Tokens(s, d) = g[1]
  BY Zenon DEF Tokens, TokensAt
<1> HIDE DEF g
<1> QED
  BY <1>3, <1>4

-----------------------------------------------------------------------------
(* Tokens and runs                                                         *)

Increasing(f) == \A m, n \in 1..Len(f) : m < n => f[m][1] < f[n][1]

\* The texts ts are cut from s where f says, which is where R does.
Cut(s, ts, f, R) ==
  /\ f \in Seq(Nat \X Nat) /\ Len(f) = Len(ts) /\ Increasing(f)
  /\ R = {f[n] : n \in 1..Len(f)}
  /\ \A n \in 1..Len(f) : ts[n] = SubSeq(s, f[n][1], f[n][2])

\* What is told in increasing order is counted, and found, in that order.
LEMMA Counted ==
  ASSUME NEW f \in Seq(Nat \X Nat), Increasing(f), NEW R, R = {f[n] : n \in 1..Len(f)}
  PROVE  Cardinality(R) = Len(f) /\ \A n \in 1..Len(f) : Nth(R, n) = f[n]
<1>1. Len(f) \in Nat /\ \A n \in 1..Len(f) : f[n] \in Nat \X Nat /\ f[n][1] \in Nat
  OBVIOUS
<1>2. \A m, n \in 1..Len(f) : (f[m][1] <= f[n][1] <=> m <= n) /\ (f[m] = f[n] => m = n)
  <2> SUFFICES ASSUME NEW m \in 1..Len(f), NEW n \in 1..Len(f)
               PROVE  (f[m][1] <= f[n][1] <=> m <= n) /\ (f[m] = f[n] => m = n)
    OBVIOUS
  <2>1. m < n => f[m][1] < f[n][1]
    BY DEF Increasing
  <2>2. n < m => f[n][1] < f[m][1]
    BY DEF Increasing
  <2>3. m \in Nat /\ n \in Nat /\ f[m][1] \in Nat /\ f[n][1] \in Nat
    BY <1>1
  <2> QED
    BY <2>1, <2>2, <2>3
<1>3. ASSUME NEW n \in 0..Len(f) PROVE Cardinality({f[m] : m \in 1..n}) = n
  <2> DEFINE T == {f[m] : m \in 1..n}
             g == [m \in 1..n |-> f[m]]
  <2>1. 1..n \subseteq 1..Len(f) /\ n \in Nat
    BY <1>1
  <2>2. /\ g \in [1..n -> T] /\ \A t \in T : \E m \in 1..n : g[m] = t
        /\ \A k, m \in 1..n : g[k] = g[m] => k = m
    BY <1>2, <2>1
  <2> HIDE DEF T
  <2>3. g \in Bijection(1..n, T)
    BY <2>2, Zenon DEF Bijection, Injection, Surjection, IsInjective
  <2>4. Cardinality(T) = n
    BY <2>1, <2>3, FS_CountingElements, Zenon DEF ExistsBijection
  <2> QED
    BY <2>4 DEF T
<1>4. Cardinality(R) = Len(f)
  BY <1>1, <1>3
<1>5. ASSUME NEW n \in 1..Len(f) PROVE Cardinality({y \in R : y[1] <= f[n][1]}) = n
  <2>1. {y \in R : y[1] <= f[n][1]} = {f[m] : m \in 1..n}
    <3>1. 1..n \subseteq 1..Len(f) /\ \A m \in 1..n : m <= n
      BY <1>1
    <3>2. \A m \in 1..Len(f) : m <= n => m \in 1..n
      BY <1>1
    <3> QED
      BY <1>2, <3>1, <3>2
  <2>2. n \in 0..Len(f)
    BY <1>1
  <2>3. Cardinality({f[m] : m \in 1..n}) = n
    BY <1>3, <2>2
  <2> QED
    BY <2>1, <2>3, Zenon
<1>6. ASSUME NEW n \in 1..Len(f) PROVE Nth(R, n) = f[n]
  <2> DEFINE rank(x) == Cardinality({y \in R : y[1] <= x[1]})
  <2>1. \A x \in R : rank(x) = n <=> x = f[n]
    <3>1. \A m \in 1..Len(f) : rank(f[m]) = m
      BY <1>5
    <3> HIDE DEF rank
    <3> QED
      BY <1>2, <3>1
  <2>2. f[n] \in R
    OBVIOUS
  <2> QED
    BY <2>1, <2>2 DEF Nth
<1> QED
  BY <1>4, <1>6

\* A position at which no token has begun that goes on.
Boundary(s, d, i) == i = 1 \/ i > Len(s) \/ s[i - 1] \in d

\* The first run from a boundary on is the first token, the others are behind it.
LEMMA FirstRun ==
  ASSUME NEW s \in Seq(Characters), NEW d, NEW i \in 1..(Len(s) + 2), Boundary(s, d, i)
  PROVE  LET C == Characters \ d
             start == FirstFrom(s, i, C)
             end == FirstFrom(s, start, d)
             later(k) == {r \in Runs(s, C) : r[1] >= k}
         IN IF start > Len(s) THEN later(i) = {}
            ELSE later(i) = {<<start, end - 1>>} \cup later(end + 1) /\ Boundary(s, d, end + 1)
<1> DEFINE C == Characters \ d
           start == FirstFrom(s, i, C)
           end == FirstFrom(s, start, d)
           later(k) == {r \in Runs(s, C) : r[1] >= k}
<1> SUFFICES IF start > Len(s) THEN later(i) = {}
             ELSE later(i) = {<<start, end - 1>>} \cup later(end + 1) /\ Boundary(s, d, end + 1)
  OBVIOUS
<1>1. IF start > Len(s) THEN \A j \in i..Len(s) : s[j] \notin C
      ELSE /\ start \in i..Len(s) /\ end \in (start + 1)..(Len(s) + 1)
           /\ \A j \in i..(start - 1) : s[j] \notin C
           /\ \A j \in start..(end - 1) : s[j] \in C
           /\ end <= Len(s) => s[end] \in d
  BY TokenAt
<1>2. \A c \in d : c \notin C
  OBVIOUS
<1>3. Len(s) \in Nat /\ i \in Nat \ {0}
  OBVIOUS
<1> HIDE DEF start, end, C
<1>4. ASSUME NEW r \in Runs(s, C)
      PROVE  /\ r[1] \in 1..Len(s) /\ r[2] \in r[1]..Len(s) /\ r = <<r[1], r[2]>>
             /\ \A k \in r[1]..r[2] : s[k] \in C
             /\ r[1] = 1 \/ s[r[1] - 1] \notin C
             /\ r[2] = Len(s) \/ s[r[2] + 1] \notin C
  BY <1>3 DEF Runs
<1>5. CASE start > Len(s)
  <2> SUFFICES ASSUME NEW r \in Runs(s, C), r[1] >= i PROVE FALSE
    BY <1>5
  <2>1. r[1] \in i..Len(s) /\ r[1] \in r[1]..r[2]
    BY <1>3, <1>4
  <2> QED
    BY <1>1, <1>4, <1>5, <2>1
<1>6. CASE ~(start > Len(s))
  <2>1. /\ start \in i..Len(s) /\ end \in (start + 1)..(Len(s) + 1)
        /\ \A j \in i..(start - 1) : s[j] \notin C
        /\ \A j \in start..(end - 1) : s[j] \in C
        /\ end <= Len(s) => s[end] \in d
    BY <1>1, <1>6
  <2>2. Boundary(s, d, end + 1)
    <3>1. CASE end <= Len(s)
      <4>1. (end + 1) - 1 = end
        BY <1>3, <2>1
      <4> QED
        BY <2>1, <3>1, <4>1 DEF Boundary
    <3>2. CASE ~(end <= Len(s))
      BY <1>3, <2>1, <3>2 DEF Boundary
    <3> QED
      BY <3>1, <3>2
  <2>3. <<start, end - 1>> \in Runs(s, C)
    <3>1. start = 1 \/ s[start - 1] \notin C
      <4>1. CASE start = i
        BY <1>2, <1>3, <2>1, <4>1 DEF Boundary
      <4>2. CASE start # i
        <5>1. start - 1 \in i..(start - 1)
          BY <1>3, <2>1, <4>2
        <5> QED
          BY <2>1, <5>1
      <4> QED
        BY <4>1, <4>2
    <3>2. end - 1 = Len(s) \/ s[(end - 1) + 1] \notin C
      <4>1. end - 1 # Len(s) => end <= Len(s) /\ (end - 1) + 1 = end
        BY <1>3, <2>1
      <4> QED
        BY <1>2, <2>1, <4>1
    <3>3. start \in 1..Len(s) /\ end - 1 \in 1..Len(s) /\ start <= end - 1
      BY <1>3, <2>1
    <3> QED
      BY <2>1, <3>1, <3>2, <3>3 DEF Runs
  <2>4. ASSUME NEW r \in Runs(s, C), r[1] >= i, ~(r[1] >= end + 1)
        PROVE  r = <<start, end - 1>>
    <3>1. s[r[1]] \in C
      BY <1>4
    <3>2. r[1] \in start..end
      <4>1. r[1] \in i..end
        BY <1>3, <1>4, <2>1, <2>4
      <4>2. r[1] \notin i..(start - 1)
        BY <2>1, <3>1
      <4> QED
        BY <1>3, <2>1, <4>1, <4>2
    <3>3. r[1] # end
      <4>1. end <= Len(s) => s[end] \notin C
        BY <1>2, <2>1
      <4> QED
        BY <1>4, <3>1, <4>1
    <3>4. r[1] = start
      <4> SUFFICES ASSUME r[1] # start PROVE FALSE
        OBVIOUS
      <4>1. r[1] - 1 \in start..(end - 1) /\ r[1] # 1
        BY <1>3, <2>1, <3>2
      <4> QED
        BY <1>4, <2>1, <4>1
    <3>5. ~(r[2] < end - 1)
      <4> SUFFICES ASSUME r[2] < end - 1 PROVE FALSE
        OBVIOUS
      <4>1. r[2] + 1 \in start..(end - 1) /\ r[2] # Len(s)
        BY <1>3, <1>4, <2>1, <3>4
      <4> QED
        BY <1>4, <2>1, <4>1
    <3>6. ~(r[2] > end - 1)
      <4> SUFFICES ASSUME r[2] > end - 1 PROVE FALSE
        OBVIOUS
      <4>1. end \in r[1]..r[2] /\ end <= Len(s)
        BY <1>3, <1>4, <2>1, <3>4
      <4> QED
        BY <1>2, <1>4, <2>1, <4>1
    <3>7. r[2] = end - 1
      BY <1>3, <1>4, <2>1, <3>5, <3>6
    <3> QED
      BY <1>4, <3>4, <3>7
  <2>5. ASSUME NEW r \in Runs(s, C), r[1] >= end + 1 PROVE r[1] >= i
    BY <1>3, <1>4, <2>1, <2>5
  <2>6. start >= i
    BY <1>3, <2>1
  <2>7. later(i) = {<<start, end - 1>>} \cup later(end + 1)
    BY <2>3, <2>4, <2>5, <2>6
  <2> QED
    BY <1>6, <2>2, <2>7
<1> QED
  BY <1>5, <1>6

\* Each token is a run of characters that delimit nothing, and each run is a
\* token, in the order of the text.
LEMMA TokensAreRuns ==
  ASSUME NEW s \in Seq(Characters), NEW d
  PROVE  /\ Tokens(s, d) \in Seq(Seq(Characters))
         /\ \E f : Cut(s, Tokens(s, d), f, Runs(s, Characters \ d))
<1> DEFINE N == Len(s) + 2
           C == Characters \ d
           later(k) == {r \in Runs(s, C) : r[1] >= k}
<1>0. N \in Nat \ {0} /\ Len(s) \in Nat
  OBVIOUS
<1>1. PICK g : g = [i \in 1..N |-> TokensAt(s, d, g, i)] /\ Tokens(s, d) = g[1]
  BY Recursion
<1> DEFINE S == {i \in 1..N : /\ g[i] \in Seq(Seq(Characters))
                              /\ Boundary(s, d, i) => \E f : Cut(s, g[i], f, later(i))}
<1>2. ASSUME NEW i \in 1..N, (i + 1)..N \subseteq S PROVE i \in S
  <2>1. g[i] = TokensAt(s, d, g, i)
    BY <1>1, Zenon
  <2>2. g[i] \in Seq(Seq(Characters))
    BY <1>2, <2>1, TokensAtTypes
  <2>3. ASSUME Boundary(s, d, i) PROVE \E f : Cut(s, g[i], f, later(i))
    <3> DEFINE start == FirstFrom(s, i, C)
               end == FirstFrom(s, start, d)
    <3>1. IF start > Len(s) THEN later(i) = {}
          ELSE later(i) = {<<start, end - 1>>} \cup later(end + 1) /\ Boundary(s, d, end + 1)
      BY <2>3, FirstRun
    <3>2. start > Len(s) \/ (start \in i..Len(s) /\ end \in (start + 1)..(Len(s) + 1))
      BY TokenAt
    <3>3. IF start > Len(s) THEN g[i] = <<>>
          ELSE g[i] = <<SubSeq(s, start, end - 1)>> \o g[end + 1]
      BY <2>1 DEF TokensAt
    <3> HIDE DEF start, end, C, later
    <3>4. CASE start > Len(s)
      <4>1. g[i] = <<>> /\ later(i) = {}
        BY <3>1, <3>3, <3>4
      <4>2. Cut(s, <<>>, <<>>, {})
        BY DEF Cut, Increasing
      <4> QED
        BY <4>1, <4>2
    <3>5. CASE ~(start > Len(s))
      <4>1. start \in i..Len(s) /\ end \in (start + 1)..(Len(s) + 1) /\ end + 1 \in (i + 1)..N
        BY <1>0, <3>2, <3>5
      <4>2. /\ g[end + 1] \in Seq(Seq(Characters))
            /\ \E f : Cut(s, g[end + 1], f, later(end + 1))
        BY <1>2, <3>1, <3>5, <4>1
      <4>3. PICK e : Cut(s, g[end + 1], e, later(end + 1))
        BY <4>2
      <4> DEFINE x == <<start, end - 1>>
                 f == <<x>> \o e
                 ts == g[end + 1]
                 first == SubSeq(s, start, end - 1)
      <4>4. /\ x \in Nat \X Nat /\ x[1] = start /\ x[2] = end - 1
            /\ e \in Seq(Nat \X Nat) /\ ts \in Seq(Seq(Characters)) /\ first \in Seq(Characters)
            /\ Len(e) = Len(ts) /\ Increasing(e) /\ later(end + 1) = {e[n] : n \in 1..Len(e)}
            /\ \A n \in 1..Len(e) : ts[n] = SubSeq(s, e[n][1], e[n][2])
        <5>1. x \in Nat \X Nat /\ x[1] = start /\ x[2] = end - 1
          BY <1>0, <4>1
        <5>2. first \in Seq(Characters)
          BY <1>0, <4>1
        <5> HIDE DEF x, first
        <5> QED
          BY <4>2, <4>3, <5>1, <5>2 DEF Cut
      <4>5. later(i) = {x} \cup later(end + 1) /\ g[i] = <<first>> \o ts
        BY <3>1, <3>3, <3>5
      <4>6. \A n \in 1..Len(e) : e[n][1] \in Nat /\ e[n][1] >= end + 1
        BY <4>4 DEF later
      <4> HIDE DEF x, ts, first
      <4>7. /\ f \in Seq(Nat \X Nat) /\ Len(f) = Len(e) + 1 /\ f[1] = x
            /\ \A n \in 1..Len(e) : f[n + 1] = e[n]
            /\ \A n \in 2..Len(f) : n - 1 \in 1..Len(e) /\ f[n] = e[n - 1]
        BY <4>4
      <4>8. /\ g[i] \in Seq(Seq(Characters)) /\ Len(g[i]) = Len(f) /\ g[i][1] = first
            /\ \A n \in 2..Len(f) : g[i][n] = ts[n - 1]
        BY <4>4, <4>5, <4>7
      <4> HIDE DEF f
      <4>9. Increasing(f)
        <5> SUFFICES ASSUME NEW m \in 1..Len(f), NEW n \in 1..Len(f), m < n
                     PROVE  f[m][1] < f[n][1]
          BY DEF Increasing
        <5>0. Len(f) \in Nat /\ m \in Nat \ {0} /\ n \in Nat /\ n <= Len(f)
          BY <4>7
        <5>1. n \in 2..Len(f) /\ f[n] = e[n - 1] /\ n - 1 \in 1..Len(e)
          <6>1. n \in 2..Len(f)
            BY <5>0
          <6> QED
            BY <4>7, <6>1
        <5>2. CASE m = 1
          <6>1. f[m][1] = start /\ f[n][1] >= end + 1
            BY <4>4, <4>6, <4>7, <5>1, <5>2
          <6>2. f[n][1] \in Nat
            BY <4>6, <5>1
          <6> QED
            BY <1>0, <4>1, <6>1, <6>2
        <5>3. CASE m # 1
          <6>1. m \in 2..Len(f) /\ m - 1 < n - 1
            BY <5>0, <5>3
          <6> QED
            BY <4>4, <4>7, <5>1, <6>1 DEF Increasing
        <5> QED
          BY <5>2, <5>3
      <4>10. later(i) = {f[n] : n \in 1..Len(f)}
        <5>1. \A n \in 1..Len(e) : n + 1 \in 1..Len(f)
          BY <4>4, <4>7
        <5>2. \A n \in 1..Len(f) : n = 1 \/ n \in 2..Len(f)
          BY <4>4, <4>7
        <5>3. 1 \in 1..Len(f)
          BY <4>4, <4>7
        <5>4. \A n \in 1..Len(f) : f[n] = x \/ f[n] \in later(end + 1)
          BY <4>4, <4>7, <5>2
        <5>5. \A n \in 1..Len(e) : \E m \in 1..Len(f) : f[m] = e[n]
          BY <4>7, <5>1
        <5>6. \A y \in later(end + 1) : \E m \in 1..Len(f) : f[m] = y
          <6>1. later(end + 1) = {e[n] : n \in 1..Len(e)}
            BY <4>4
          <6>2. ASSUME NEW y \in {e[n] : n \in 1..Len(e)} PROVE \E m \in 1..Len(f) : f[m] = y
            BY <5>5
          <6> QED
            BY <6>1, <6>2
        <5>7. f[1] = x
          BY <4>7
        <5>8. later(i) = {x} \cup later(end + 1)
          BY <4>5
        <5> HIDE DEF f
        <5> QED
          BY <5>3, <5>4, <5>6, <5>7, <5>8
      <4>11. \A n \in 1..Len(f) : g[i][n] = SubSeq(s, f[n][1], f[n][2])
        <5> SUFFICES ASSUME NEW n \in 1..Len(f) PROVE g[i][n] = SubSeq(s, f[n][1], f[n][2])
          OBVIOUS
        <5>1. CASE n = 1
          BY <4>4, <4>7, <4>8, <5>1 DEF first
        <5>2. CASE n # 1
          <6>1. n \in 2..Len(f)
            BY <4>4, <4>7, <5>2
          <6> QED
            BY <4>4, <4>7, <4>8, <6>1
        <5> QED
          BY <5>1, <5>2
      <4>12. Cut(s, g[i], f, later(i))
        BY <4>7, <4>8, <4>9, <4>10, <4>11 DEF Cut
      <4> QED
        BY <4>12
    <3> QED
      BY <3>4, <3>5
  <2> QED
    BY <2>2, <2>3
<1>3. 1 \in S
  <2>1. 1 \in 1..N
    BY <1>0
  <2> HIDE DEF S, N
  <2> QED
    BY <1>0, <1>2, <2>1, Downwards
<1>4. later(1) = Runs(s, C)
  BY <1>0 DEF Runs
<1>5. Boundary(s, d, 1)
  BY DEF Boundary
<1> QED
  BY <1>1, <1>3, <1>4, <1>5

-----------------------------------------------------------------------------
(* The reference                                                           *)

\* The line of the text that stands at a to b.
LineOf(s, a, b, line) ==
  /\ Len(s) \in Nat /\ 1 <= a /\ a <= b /\ b <= Len(s)
  /\ line = SubSeq(s, a, b) /\ line \in Seq(Characters) /\ Len(line) = b - a + 1
  /\ \A k \in 1..(b - a + 1) : line[k] = s[a + k - 1]
  /\ \A k \in 1..(b - a + 1) : line[k] \in {"word", "blank"}
  /\ a = 1 \/ s[a - 1] # "word"
  /\ b = Len(s) \/ s[b + 1] # "word"

LEMMA LineAt ==
  ASSUME NEW s \in Seq(Characters), NEW a, NEW b, <<a, b>> \in Runs(s, Characters \ LineEnds)
  PROVE  a \in Nat /\ b \in Nat /\ LineOf(s, a, b, SubSeq(s, a, b))
<1> DEFINE line == SubSeq(s, a, b)
<1>1. /\ a \in 1..Len(s) /\ b \in 1..Len(s) /\ a <= b
      /\ \A k \in a..b : s[k] \in Characters \ LineEnds
      /\ a = 1 \/ s[a - 1] \notin Characters \ LineEnds
      /\ b = Len(s) \/ s[b + 1] \notin Characters \ LineEnds
  BY DEF Runs
<1>2. Len(s) \in Nat
  OBVIOUS
<1>3. a \in Nat /\ b \in Nat /\ 1 <= a /\ b <= Len(s)
  BY <1>1, <1>2
<1>4. /\ line \in Seq(Characters) /\ Len(line) = b - a + 1
      /\ \A k \in 1..(b - a + 1) : line[k] = s[a + k - 1]
  BY <1>1, <1>2
<1> HIDE DEF line
<1>5. ASSUME NEW k \in 1..(b - a + 1) PROVE line[k] \in {"word", "blank"}
  <2>1. a + k - 1 \in a..b
    BY <1>3
  <2>2. s[a + k - 1] \in Characters \ LineEnds
    BY <1>1, <2>1
  <2> QED
    BY <1>4, <2>2 DEF Characters, LineEnds
<1>6. a = 1 \/ s[a - 1] # "word"
  BY <1>1 DEF Characters, LineEnds
<1>7. b = Len(s) \/ s[b + 1] # "word"
  BY <1>1 DEF Characters, LineEnds
<1> QED
  BY <1>1, <1>2, <1>3, <1>4, <1>5, <1>6, <1>7 DEF LineOf, line

\* A word of a line is a word of the text, and the other way round.
LEMMA WordAt ==
  ASSUME NEW s, NEW a \in Nat, NEW b \in Nat, NEW line, LineOf(s, a, b, line),
         NEW u \in Nat, NEW v \in Nat, 1 <= u, u <= v, v <= b - a + 1
  PROVE  <<u, v>> \in Runs(line, Characters \ Blanks)
           <=> <<u + a - 1, v + a - 1>> \in Runs(s, {"word"})
<1> DEFINE C == Characters \ Blanks
           n == Len(line)
<1>1. 1 <= a /\ a <= b /\ b <= Len(s) /\ Len(s) \in Nat /\ n = b - a + 1
  BY DEF LineOf
<1>2. \A k \in 1..n : line[k] \in C <=> s[a + k - 1] = "word"
  BY DEF LineOf, Characters, Blanks
<1>3. a = 1 \/ s[a - 1] # "word"
  BY DEF LineOf
<1>4. b = Len(s) \/ s[b + 1] # "word"
  BY DEF LineOf
<1> HIDE DEF C, n
<1>5. (\A k \in u..v : line[k] \in C) <=> \A k \in (u + a - 1)..(v + a - 1) : s[k] = "word"
  <2>1. \A k \in u..v : k \in 1..n /\ a + k - 1 \in (u + a - 1)..(v + a - 1)
    BY <1>1
  <2>2. \A k \in (u + a - 1)..(v + a - 1) : k - a + 1 \in u..v /\ a + (k - a + 1) - 1 = k
    BY <1>1
  <2> QED
    BY <1>2, <2>1, <2>2
<1>6. (u = 1 \/ line[u - 1] \notin C) <=> (u + a - 1 = 1 \/ s[(u + a - 1) - 1] # "word")
  <2>1. CASE u = 1
    <3>1. u + a - 1 = a
      BY <1>1, <2>1
    <3> QED
      BY <1>3, <2>1, <3>1
  <2>2. CASE u # 1
    <3>1. u - 1 \in 1..n /\ a + (u - 1) - 1 = (u + a - 1) - 1 /\ u + a - 1 # 1
      BY <1>1, <2>2
    <3> QED
      BY <1>2, <2>2, <3>1
  <2> QED
    BY <2>1, <2>2
<1>7. (v = n \/ line[v + 1] \notin C) <=> (v + a - 1 = Len(s) \/ s[(v + a - 1) + 1] # "word")
  <2>1. CASE v = n
    <3>1. v + a - 1 = b
      BY <1>1, <2>1
    <3> QED
      BY <1>4, <2>1, <3>1
  <2>2. CASE v # n
    <3>1. v + 1 \in 1..n /\ a + (v + 1) - 1 = (v + a - 1) + 1 /\ v + a - 1 # Len(s)
      BY <1>1, <2>2
    <3> QED
      BY <1>2, <2>2, <3>1
  <2> QED
    BY <2>1, <2>2
<1>8. /\ u \in 1..n /\ v \in 1..n /\ u + a - 1 \in 1..Len(s) /\ v + a - 1 \in 1..Len(s)
      /\ u + a - 1 <= v + a - 1
  BY <1>1
<1>9. <<u, v>> \in Runs(line, C) <=>
        /\ \A k \in u..v : line[k] \in C
        /\ u = 1 \/ line[u - 1] \notin C
        /\ v = n \/ line[v + 1] \notin C
  BY <1>8 DEF Runs, n
<1> DEFINE x == u + a - 1
           y == v + a - 1
<1>10. x \in 1..Len(s) /\ y \in 1..Len(s) /\ x <= y
  BY <1>8
<1> HIDE DEF x, y
<1>11. <<x, y>> \in Runs(s, {"word"}) <=>
        /\ \A k \in x..y : s[k] = "word"
        /\ x = 1 \/ s[x - 1] # "word"
        /\ y = Len(s) \/ s[y + 1] # "word"
  BY <1>10 DEF Runs
<1> QED
  BY <1>5, <1>6, <1>7, <1>9, <1>11 DEF x, y, C

Within(R, a, b) == {w \in R : a <= w[1] /\ w[2] <= b}
Shifted(R, a) == {<<r[1] + a - 1, r[2] + a - 1>> : r \in R}

\* The words of a line are the words of the text within it.
LEMMA WordsOfLine ==
  ASSUME NEW s, NEW a \in Nat, NEW b \in Nat, NEW line, LineOf(s, a, b, line)
  PROVE  Within(Runs(s, {"word"}), a, b) = Shifted(Runs(line, Characters \ Blanks), a)
<1> DEFINE C == Characters \ Blanks
<1>1. 1 <= a /\ a <= b /\ b <= Len(s) /\ Len(s) \in Nat /\ Len(line) = b - a + 1
  BY DEF LineOf
<1>2. ASSUME NEW r \in Runs(line, C)
      PROVE  /\ <<r[1] + a - 1, r[2] + a - 1>> \in Runs(s, {"word"})
             /\ a <= r[1] + a - 1 /\ r[2] + a - 1 <= b
  <2>1. PICK u, v : r = <<u, v>> /\ u \in 1..Len(line) /\ v \in 1..Len(line) /\ u <= v
    BY DEF Runs
  <2>2. u \in Nat /\ v \in Nat /\ 1 <= u /\ v <= b - a + 1 /\ a <= u + a - 1 /\ v + a - 1 <= b
    BY <1>1, <2>1
  <2>3. <<u + a - 1, v + a - 1>> \in Runs(s, {"word"})
    BY <2>1, <2>2, WordAt
  <2> QED
    BY <2>1, <2>2, <2>3
<1>3. ASSUME NEW w \in Runs(s, {"word"}), a <= w[1], w[2] <= b
      PROVE  \E r \in Runs(line, C) : w = <<r[1] + a - 1, r[2] + a - 1>>
  <2>1. PICK x, y : w = <<x, y>> /\ x \in 1..Len(s) /\ y \in 1..Len(s) /\ x <= y
    BY DEF Runs
  <2>2. x \in Nat /\ y \in Nat /\ a <= x /\ y <= b
    BY <1>1, <1>3, <2>1
  <2> DEFINE u == x - a + 1
             v == y - a + 1
  <2>3. /\ u \in Nat /\ v \in Nat /\ 1 <= u /\ u <= v /\ v <= b - a + 1
        /\ u + a - 1 = x /\ v + a - 1 = y
    BY <1>1, <2>1, <2>2
  <2> HIDE DEF u, v
  <2>4. <<u + a - 1, v + a - 1>> \in Runs(s, {"word"})
    BY <2>1, <2>3
  <2>5. <<u, v>> \in Runs(line, C)
    BY <2>3, <2>4, WordAt
  <2>6. w = <<<<u, v>>[1] + a - 1, <<u, v>>[2] + a - 1>>
    BY <2>1, <2>3
  <2> QED
    BY <2>5, <2>6
<1>4. ASSUME NEW r \in Runs(line, C)
      PROVE  <<r[1] + a - 1, r[2] + a - 1>> \in {w \in Runs(s, {"word"}) : a <= w[1] /\ w[2] <= b}
  BY <1>2
<1> HIDE DEF C
<1> QED
  BY <1>3, <1>4 DEF C, Within, Shifted

\* Cutting twice: a piece of a line is a piece of the text.
LEMMA PieceOfPiece ==
  ASSUME NEW s \in Seq(Characters), NEW a \in Nat, NEW b \in Nat, 1 <= a, b <= Len(s),
         NEW u \in Nat, NEW v \in Nat, 1 <= u, u <= v, v <= b - a + 1
  PROVE  SubSeq(SubSeq(s, a, b), u, v) = SubSeq(s, u + a - 1, v + a - 1)
<1> DEFINE line == SubSeq(s, a, b)
<1>0. Len(s) \in Nat
  OBVIOUS
<1>1. /\ line \in Seq(Characters) /\ Len(line) = b - a + 1
      /\ \A k \in 1..(b - a + 1) : line[k] = s[a + k - 1]
  BY <1>0
<1> HIDE DEF line
<1>2. u \in 1..Len(line) /\ v \in u..Len(line) /\ Len(line) \in Nat
  BY <1>0, <1>1
<1>5. /\ SubSeq(line, u, v) \in Seq(Characters) /\ Len(SubSeq(line, u, v)) = v - u + 1
      /\ \A k \in 1..(v - u + 1) : SubSeq(line, u, v)[k] = line[u + k - 1]
  <2>1. u \in Int /\ v \in Int /\ \A k \in u..v : line[k] \in Characters
    BY <1>1, <1>2
  <2> QED
    BY <2>1, SubSeqProperties
<1>3. /\ SubSeq(s, u + a - 1, v + a - 1) \in Seq(Characters)
      /\ Len(SubSeq(s, u + a - 1, v + a - 1)) = v - u + 1
      /\ \A k \in 1..(v - u + 1) : SubSeq(s, u + a - 1, v + a - 1)[k] = s[(u + a - 1) + k - 1]
  BY <1>0
<1>4. \A k \in 1..(v - u + 1) : line[u + k - 1] = s[(u + a - 1) + k - 1]
  <2> TAKE k \in 1..(v - u + 1)
  <2>1. u + k - 1 \in 1..(b - a + 1) /\ a + (u + k - 1) - 1 = (u + a - 1) + k - 1
    BY <1>0
  <2> QED
    BY <1>1, <2>1
<1> DEFINE p == SubSeq(line, u, v)
           q == SubSeq(s, u + a - 1, v + a - 1)
<1>6. /\ p \in Seq(Characters) /\ q \in Seq(Characters) /\ Len(p) = Len(q)
      /\ \A k \in 1..Len(p) : p[k] = q[k]
  BY <1>3, <1>4, <1>5
<1> HIDE DEF p, q
<1>7. p = q
  BY <1>6, SeqEqual
<1> QED
  BY <1>7 DEF line, p, q

\* The reference is what cutting into lines and these into words gives.
LEMMA TableOfTokens ==
  ASSUME NEW s \in Seq(Characters), NEW L, L = Tokens(s, LineEnds)
  PROVE  /\ L \in Seq(Seq(Characters))
         /\ ReferenceTable(s) = [r \in 1..Len(L) |-> Tokens(L[r], Blanks)]
<1> DEFINE lines == Runs(s, Characters \ LineEnds)
           words(l) == {w \in Runs(s, {"word"}) : l[1] <= w[1] /\ w[2] <= l[2]}
<1>1. L \in Seq(Seq(Characters))
  BY TokensAreRuns
<1>2. PICK f : Cut(s, L, f, lines)
  BY TokensAreRuns
<1>3. Cardinality(lines) = Len(L) /\ \A r \in 1..Len(L) : Nth(lines, r) = f[r] /\ f[r] \in lines
  BY <1>2, Counted DEF Cut
<1> HIDE DEF lines
<1>4. ASSUME NEW r \in 1..Len(L), NEW W, W = words(f[r])
      PROVE  [c \in 1..Cardinality(W) |-> SubSeq(s, Nth(W, c)[1], Nth(W, c)[2])]
               = Tokens(L[r], Blanks)
  <2> DEFINE l == f[r]
             a == l[1]
             b == l[2]
             line == L[r]
             ts == Tokens(line, Blanks)
             runs == Runs(line, Characters \ Blanks)
  <2>1. /\ <<a, b>> \in Runs(s, Characters \ LineEnds) /\ line = SubSeq(s, a, b)
        /\ W = {w \in Runs(s, {"word"}) : a <= w[1] /\ w[2] <= b}
    <3>1. l \in lines /\ line = SubSeq(s, a, b)
      BY <1>2, <1>3 DEF Cut
    <3>2. \A x \in lines : x = <<x[1], x[2]>>
      BY DEF Runs, lines
    <3>3. l = <<a, b>>
      BY <3>1, <3>2
    <3> QED
      BY <1>4, <3>1, <3>3 DEF lines
  <2> HIDE DEF l, a, b
  <2>0. a \in Nat /\ b \in Nat /\ LineOf(s, a, b, line)
    BY <2>1, LineAt
  <2>2. /\ a \in Nat /\ b \in Nat /\ LineOf(s, a, b, line)
        /\ line \in Seq(Characters) /\ Len(line) = b - a + 1
        /\ 1 <= a /\ b <= Len(s)
    BY <2>0 DEF LineOf
  <2>3. W = {<<x[1] + a - 1, x[2] + a - 1>> : x \in runs}
    <3>1. Within(Runs(s, {"word"}), a, b) = Shifted(Runs(line, Characters \ Blanks), a)
      BY <2>0, WordsOfLine
    <3> QED
      BY <2>1, <3>1 DEF Within, Shifted, runs
  <2>4. ts \in Seq(Seq(Characters)) /\ \E g : Cut(line, ts, g, runs)
    BY <2>2, TokensAreRuns
  <2>5. PICK g : Cut(line, ts, g, runs)
    BY <2>4
  <2> HIDE DEF line, ts, runs
  <2>6. /\ g \in Seq(Nat \X Nat) /\ Len(g) = Len(ts) /\ Increasing(g)
        /\ runs = {g[n] : n \in 1..Len(g)}
        /\ \A n \in 1..Len(g) : ts[n] = SubSeq(line, g[n][1], g[n][2])
    BY <2>5 DEF Cut
  <2> DEFINE u(n) == g[n][1]
             v(n) == g[n][2]
             h == [n \in 1..Len(g) |-> <<u(n) + a - 1, v(n) + a - 1>>]
  <2>7. ASSUME NEW n \in 1..Len(g)
        PROVE  u(n) \in Nat /\ v(n) \in Nat /\ 1 <= u(n) /\ u(n) <= v(n) /\ v(n) <= b - a + 1
    <3>1. g[n] \in Runs(line, Characters \ Blanks)
      BY <2>6 DEF runs
    <3>2. u(n) \in 1..Len(line) /\ v(n) \in 1..Len(line) /\ u(n) <= v(n)
      BY <3>1 DEF Runs
    <3> HIDE DEF u, v
    <3> QED
      BY <2>2, <3>2
  <2>8. Len(g) \in Nat
    BY <2>6
  <2>9. /\ h \in Seq(Nat \X Nat) /\ Len(h) = Len(g)
        /\ \A n \in 1..Len(g) : h[n] = <<u(n) + a - 1, v(n) + a - 1>>
    <3> HIDE DEF u, v
    <3>1. \A n \in 1..Len(g) : <<u(n) + a - 1, v(n) + a - 1>> \in Nat \X Nat
      BY <2>2, <2>7
    <3> QED
      BY <2>8, <3>1
  <2>10. W = {h[n] : n \in 1..Len(h)}
    <3>1. W = {<<u(n) + a - 1, v(n) + a - 1>> : n \in 1..Len(g)}
      <4> DEFINE at(x) == <<x[1] + a - 1, x[2] + a - 1>>
      <4>1. W = {at(x) : x \in runs} /\ runs = {g[n] : n \in 1..Len(g)}
        BY <2>3, <2>6
      <4> HIDE DEF at
      <4>2. W = {at(g[n]) : n \in 1..Len(g)}
        BY <4>1
      <4> QED
        BY <4>2 DEF at
    <3> HIDE DEF u, v, h
    <3> QED
      BY <2>9, <3>1
  <2>11. Increasing(h)
    <3>1. \A m, n \in 1..Len(g) : m < n => u(m) < u(n)
      BY <2>6 DEF Increasing
    <3>2. \A n \in 1..Len(g) : h[n][1] = u(n) + a - 1
      BY <2>9
    <3> HIDE DEF u, v, h
    <3> QED
      BY <2>2, <2>7, <2>9, <3>1, <3>2 DEF Increasing
  <2>12. Cardinality(W) = Len(ts) /\ \A n \in 1..Len(ts) : Nth(W, n) = h[n]
    <3> HIDE DEF h
    <3> QED
      <4>1. Cardinality(W) = Len(h) /\ \A n \in 1..Len(h) : Nth(W, n) = h[n]
        BY <2>9, <2>10, <2>11, Counted, Zenon
      <4> QED
        BY <2>6, <2>9, <4>1
  <2>13. ASSUME NEW n \in 1..Len(ts) PROVE ts[n] = SubSeq(s, h[n][1], h[n][2])
    <3>1. ts[n] = SubSeq(SubSeq(s, a, b), u(n), v(n))
      BY <2>1, <2>6
    <3>2. h[n][1] = u(n) + a - 1 /\ h[n][2] = v(n) + a - 1
      BY <2>6, <2>9
    <3>3. u(n) \in Nat /\ v(n) \in Nat /\ 1 <= u(n) /\ u(n) <= v(n) /\ v(n) <= b - a + 1
      BY <2>6, <2>7
    <3> HIDE DEF u, v, h
    <3>4. PICK x, y : x = u(n) /\ y = v(n)
      OBVIOUS
    <3>5. /\ x \in Nat /\ y \in Nat /\ 1 <= x /\ x <= y /\ y <= b - a + 1
          /\ a \in Nat /\ b \in Nat /\ 1 <= a /\ b <= Len(s)
      BY <2>2, <3>3, <3>4
    <3>6. SubSeq(SubSeq(s, a, b), x, y) = SubSeq(s, x + a - 1, y + a - 1)
      BY <3>5, PieceOfPiece
    <3> QED
      BY <3>1, <3>2, <3>4, <3>6
  <2>14. ts = [n \in 1..Len(ts) |-> ts[n]]
    BY <2>4
  <2> HIDE DEF h
  <2>15. [c \in 1..Cardinality(W) |-> SubSeq(s, Nth(W, c)[1], Nth(W, c)[2])]
           = [c \in 1..Len(ts) |-> ts[c]]
    BY <2>12, <2>13
  <2> QED
    BY <2>14, <2>15 DEF ts, line, l
<1> DEFINE row(r) == LET W == words(f[r])
                     IN [c \in 1..Cardinality(W) |-> SubSeq(s, Nth(W, c)[1], Nth(W, c)[2])]
<1>5. ReferenceTable(s) = [r \in 1..Len(L) |-> row(r)]
  BY <1>3 DEF ReferenceTable, lines
<1>6. \A r \in 1..Len(L) : row(r) = Tokens(L[r], Blanks)
  BY <1>4, Zenon
<1> HIDE DEF row
<1> QED
  BY <1>1, <1>5, <1>6

-----------------------------------------------------------------------------
(* A section in order                                                      *)

LEMMA Remainder ==
  ASSUME NEW w \in Int, w > 0, NEW q \in Int, NEW j \in Int, 0 <= j, j < w
  PROVE  (w * q + j) % w = j
OBVIOUS

LEMMA Quotient ==
  ASSUME NEW w \in Int, w > 0, NEW k \in Nat
  PROVE  \E q \in Nat, j \in 0..(w - 1) : k = w * q + j
<1>1. PICK q, j : q = k \div w /\ j = k % w
  OBVIOUS
<1>2. q \in Int /\ j \in 0..(w - 1)
  BY <1>1
<1>3. k = w * q + j
  BY <1>1, <1>2
<1>4. ~(q < 0)
  <2> SUFFICES ASSUME q < 0 PROVE FALSE
    OBVIOUS
  <2>1. w * (q + 1) <= 0
    BY <1>2
  <2>2. w * (q + 1) = w * q + w /\ w * q \in Int
    BY <1>2
  <2> QED
    BY <1>2, <1>3, <2>1, <2>2
<1> QED
  BY <1>2, <1>3, <1>4

\* Rows of the same width are behind each other.
LEMMA RowsApart ==
  ASSUME NEW w \in Nat, NEW p \in Nat, NEW q \in Nat, p < q
  PROVE  w * p + w <= w * q
<1>1. PICK d \in Nat : q = p + 1 + d
  <2>1. q - p - 1 \in Nat /\ q = p + 1 + (q - p - 1)
    OBVIOUS
  <2> QED
    BY <2>1
<1>2. w * q = w * p + w + w * d
  BY <1>1
<1>3. w * d \in Nat /\ w * p \in Nat
  OBVIOUS
<1> QED
  BY <1>2, <1>3

Width == 2 * Columns

\* The character at the j-th place of each row of a section in order.
Place(j) == IF j = Width THEN "newline" ELSE IF j % 2 = 1 THEN "word" ELSE "blank"

LEMMA SectionAt ==
  ASSUME NEW n \in Nat
  PROVE  /\ Width \in Nat \ {0, 1} /\ Width % 2 = 0
         /\ Width * n \in Nat /\ Len(Section(n)) = Width * n + Width
         /\ Section(n) \in Seq(Characters)
         /\ \A q \in 0..n, j \in 1..Width :
              Width * q + j \in 1..Len(Section(n)) /\ Section(n)[Width * q + j] = Place(j)
<1> DEFINE w == Width
           row == [k \in 1..w |->
                    IF k % 2 = 1 THEN "word" ELSE IF k = w THEN "newline" ELSE "blank"]
           s == [k \in 1..(w * (n + 1)) |-> row[((k - 1) % w) + 1]]
<1>1. Section(n) = s
  BY DEF Section, Width
<1>2. w \in Nat \ {0, 1} /\ w % 2 = 0
  <2>1. Columns \in Nat \ {0}
    BY ResultParsingAssumption
  <2> QED
    BY <2>1 DEF Width
<1> HIDE DEF w
<1>3. w * n \in Nat /\ w * (n + 1) = w * n + w /\ w * (n + 1) \in Nat
  BY <1>2
<1>4. \A j \in 1..w : row[j] = Place(j) /\ row[j] \in Characters
  BY <1>2 DEF Place, w, Characters
<1> HIDE DEF row
<1>5. \A k \in 1..(w * (n + 1)) : ((k - 1) % w) + 1 \in 1..w
  BY <1>2
<1>6. s \in Seq(Characters) /\ Len(s) = w * n + w
  BY <1>3, <1>4, <1>5
<1>7. ASSUME NEW q \in 0..n, NEW j \in 1..w
      PROVE  w * q + j \in 1..Len(s) /\ s[w * q + j] = Place(j)
  <2>1. w * q \in Nat
    BY <1>2
  <2>2. w * q <= w * n
    <3>1. CASE q = n
      BY <1>3, <3>1
    <3>2. CASE q # n
      <4>1. w * q + w <= w * n
        BY <1>2, <3>2, RowsApart
      <4> QED
        BY <1>2, <1>3, <2>1, <4>1
    <3> QED
      BY <3>1, <3>2
  <2>3. w * q + j \in 1..(w * (n + 1))
    BY <1>2, <1>3, <2>1, <2>2
  <2>4. (w * q + (j - 1)) % w = j - 1
    BY <1>2, Remainder
  <2>5. (w * q + j) - 1 = w * q + (j - 1)
    BY <1>2, <2>1
  <2>6. s[w * q + j] = row[(((w * q + j) - 1) % w) + 1]
    BY <2>3
  <2>7. (j - 1) + 1 = j
    BY <1>2
  <2>8. s[w * q + j] = row[j]
    BY <2>4, <2>5, <2>6, <2>7
  <2> QED
    BY <1>3, <1>4, <1>6, <2>3, <2>8
<1> HIDE DEF s
<1> QED
  BY <1>1, <1>2, <1>3, <1>6, <1>7 DEF w

\* Every position of a section in order is a place of one of its rows.
LEMMA PlaceOf ==
  ASSUME NEW n \in Nat, NEW k \in 1..Len(Section(n))
  PROVE  \E q \in 0..n, j \in 1..Width : k = Width * q + j
<1>1. Width \in Nat \ {0, 1} /\ Width * n \in Nat /\ Len(Section(n)) = Width * n + Width
  BY SectionAt
<1>2. PICK m \in Nat : m = k - 1
  BY <1>1
<1>3. PICK q \in Nat, j \in 0..(Width - 1) : m = Width * q + j
  <2>1. Width \in Int /\ Width > 0
    BY <1>1
  <2> QED
    BY <2>1, Quotient
<1>4. ~(n < q)
  <2> SUFFICES ASSUME n < q PROVE FALSE
    OBVIOUS
  <2>1. Width * n + Width <= Width * q
    BY <1>1, RowsApart
  <2>2. Width * q \in Nat
    BY <1>1
  <2> QED
    BY <1>1, <1>2, <1>3, <2>1, <2>2
<1>5. q \in 0..n /\ j + 1 \in 1..Width
  BY <1>1, <1>4
<1>6. k = Width * q + (j + 1)
  <2>1. Width * q \in Nat
    BY <1>1
  <2> QED
    BY <1>1, <1>2, <1>3, <2>1
<1> QED
  BY <1>5, <1>6

\* The lines of a section in order are its rows.
LEMMA LinesOfSection ==
  ASSUME NEW n \in Nat
  PROVE  Runs(Section(n), Characters \ LineEnds)
           = {<<Width * q + 1, Width * q + (Width - 1)>> : q \in 0..n}
<1> DEFINE w == Width
           s == Section(n)
           C == Characters \ LineEnds
<1>1. /\ w \in Nat \ {0, 1} /\ w * n \in Nat /\ Len(s) = w * n + w
      /\ \A q \in 0..n, j \in 1..w : w * q + j \in 1..Len(s) /\ s[w * q + j] = Place(j)
  BY SectionAt
<1>2. \A j \in 1..w : Place(j) \in C <=> j # w
  BY DEF Place, Characters, LineEnds
<1>3. \A q \in 0..n : w * q \in Nat
  BY <1>1
<1> HIDE DEF w, C, s
<1>4. \A q \in 0..n, j \in 1..w : s[w * q + j] \in C <=> j # w
  BY <1>1, <1>2
<1>5. ASSUME NEW q \in 0..n
      PROVE  <<w * q + 1, w * q + (w - 1)>> \in Runs(s, C)
  <2> DEFINE x == w * q + 1
             y == w * q + (w - 1)
  <2>1. 1 \in 1..w /\ w - 1 \in 1..w /\ w \in 1..w
    BY <1>1
  <2>2. x \in 1..Len(s) /\ y \in 1..Len(s) /\ x <= y
    BY <1>1, <1>3, <2>1
  <2>3. ASSUME NEW k \in x..y PROVE s[k] \in C
    <3>1. PICK j \in 1..(w - 1) : k = w * q + j
      <4>1. k - w * q \in 1..(w - 1) /\ k = w * q + (k - w * q)
        BY <1>1, <1>3
      <4> QED
        BY <4>1
    <3>2. j \in 1..w /\ j # w
      BY <1>1
    <3> QED
      BY <1>4, <3>1, <3>2
  <2>4. x = 1 \/ s[x - 1] \notin C
    <3>1. CASE q = 0
      <4>1. w * 0 = 0
        BY <1>1
      <4> QED
        BY <3>1, <4>1
    <3>2. CASE q # 0
      <4>1. PICK p \in 0..n : q = p + 1
        <5>1. q - 1 \in 0..n /\ q = (q - 1) + 1
          BY <3>2
        <5> QED
          BY <5>1
      <4>2. w * q = w * p + w
        BY <1>1, <4>1
      <4>3. x - 1 = w * p + w
        BY <1>1, <1>3, <4>2
      <4>4. s[w * p + w] \notin C
        BY <1>4, <2>1
      <4> QED
        BY <4>3, <4>4
    <3> QED
      BY <3>1, <3>2
  <2>5. s[y + 1] \notin C
    <3>1. y + 1 = w * q + w
      BY <1>1, <1>3
    <3>2. s[w * q + w] \notin C
      BY <1>4, <2>1
    <3> QED
      BY <3>1, <3>2
  <2> HIDE DEF x, y
  <2>6. <<x, y>> \in Runs(s, C)
    BY <2>2, <2>3, <2>4, <2>5 DEF Runs
  <2> QED
    BY <2>6 DEF x, y
<1>6. ASSUME NEW r \in Runs(s, C)
      PROVE  \E q \in 0..n : r = <<w * q + 1, w * q + (w - 1)>>
  <2>1. PICK x, y : /\ r = <<x, y>> /\ x \in 1..Len(s) /\ y \in 1..Len(s) /\ x <= y
                    /\ \A k \in x..y : s[k] \in C
                    /\ x = 1 \/ s[x - 1] \notin C
                    /\ y = Len(s) \/ s[y + 1] \notin C
    BY DEF Runs
  <2>2. PICK q \in 0..n, j \in 1..w : x = w * q + j
    BY <2>1, PlaceOf DEF s, w
  <2>3. /\ w \in Nat \ {0, 1} /\ w * q \in Nat /\ x \in Nat /\ y \in Nat /\ j \in Nat
        /\ Len(s) \in Nat
    BY <1>1, <1>3, <2>1
  <2>4. j # w
    <3>1. x \in x..y
      BY <2>1, <2>3
    <3> QED
      BY <1>4, <2>1, <2>2, <3>1
  <2>5. j = 1
    <3> SUFFICES ASSUME j # 1 PROVE FALSE
      OBVIOUS
    <3>1. j - 1 \in 1..w /\ j - 1 # w /\ x - 1 = w * q + (j - 1) /\ x # 1
      BY <2>2, <2>3, <2>4
    <3> QED
      BY <1>4, <2>1, <3>1
  <2>6. ~(y > w * q + (w - 1))
    <3> SUFFICES ASSUME y > w * q + (w - 1) PROVE FALSE
      OBVIOUS
    <3>1. w * q + w \in x..y /\ w \in 1..w
      BY <2>2, <2>3, <2>4
    <3> QED
      BY <1>4, <2>1, <3>1
  <2>7. ~(y < w * q + (w - 1))
    <3> SUFFICES ASSUME y < w * q + (w - 1) PROVE FALSE
      OBVIOUS
    <3>1. PICK i \in 1..w : i # w /\ y + 1 = w * q + i
      <4>1. (y + 1) - w * q \in 1..w /\ (y + 1) - w * q # w /\ y + 1 = w * q + ((y + 1) - w * q)
        BY <2>1, <2>2, <2>3, <2>5
      <4> QED
        BY <4>1
    <3>2. y + 1 \in 1..Len(s) /\ s[y + 1] \in C
      BY <1>1, <1>4, <3>1
    <3> QED
      BY <2>1, <2>3, <3>2
  <2>8. y = w * q + (w - 1)
    BY <2>3, <2>6, <2>7
  <2> QED
    BY <2>1, <2>2, <2>5, <2>8
<1> QED
  BY <1>5, <1>6 DEF w, s, C

\* The words of a row stand alternately.
LEMMA WordsOfRow ==
  ASSUME NEW line \in Seq(Characters), Len(line) = Width - 1,
         \A j \in 1..(Width - 1) : line[j] = Place(j)
  PROVE  Runs(line, Characters \ Blanks) = {<<2 * c - 1, 2 * c - 1>> : c \in 1..Columns}
<1> DEFINE C == Characters \ Blanks
<1>1. Columns \in Nat \ {0} /\ Len(line) = 2 * Columns - 1
  BY ResultParsingAssumption DEF Width
<1>2. \A j \in 1..Len(line) : line[j] \in C <=> j % 2 = 1
  BY <1>1 DEF Place, Width, Characters, Blanks
<1> HIDE DEF C
<1>3. ASSUME NEW c \in 1..Columns PROVE <<2 * c - 1, 2 * c - 1>> \in Runs(line, C)
  <2> DEFINE x == 2 * c - 1
  <2>1. x \in 1..Len(line) /\ x % 2 = 1
    BY <1>1
  <2>2. x = 1 \/ line[x - 1] \notin C
    <3>1. x # 1 => x - 1 \in 1..Len(line) /\ (x - 1) % 2 # 1
      BY <1>1
    <3> QED
      BY <1>2, <3>1
  <2>3. x = Len(line) \/ line[x + 1] \notin C
    <3>1. x # Len(line) => x + 1 \in 1..Len(line) /\ (x + 1) % 2 # 1
      BY <1>1
    <3> QED
      BY <1>2, <3>1
  <2> HIDE DEF x
  <2>4. \A k \in x..x : k = x
    BY <1>1, <2>1
  <2>5. x <= x
    BY <1>1, <2>1
  <2>6. <<x, x>> \in Runs(line, C)
    BY <1>2, <2>1, <2>2, <2>3, <2>4, <2>5 DEF Runs
  <2> QED
    BY <2>6 DEF x
<1>4. ASSUME NEW r \in Runs(line, C)
      PROVE  \E c \in 1..Columns : r = <<2 * c - 1, 2 * c - 1>>
  <2>1. PICK x, y : /\ r = <<x, y>> /\ x \in 1..Len(line) /\ y \in 1..Len(line) /\ x <= y
                    /\ \A k \in x..y : line[k] \in C
    BY DEF Runs
  <2>2. x \in x..y /\ x \in Nat /\ y \in Nat
    BY <1>1, <2>1
  <2>3. x % 2 = 1
    BY <1>2, <2>1, <2>2
  <2>4. y = x
    <3> SUFFICES ASSUME y # x PROVE FALSE
      OBVIOUS
    <3>1. x + 1 \in x..y /\ x + 1 \in 1..Len(line) /\ (x + 1) % 2 # 1
      BY <1>1, <2>1, <2>2, <2>3
    <3> QED
      BY <1>2, <2>1, <3>1
  <2>5. PICK q \in Int : x = 2 * q + 1
    <3>1. x = 2 * (x \div 2) + 1 /\ x \div 2 \in Int
      BY <2>2, <2>3
    <3> QED
      BY <3>1
  <2>6. q + 1 \in 1..Columns /\ x = 2 * (q + 1) - 1
    BY <1>1, <2>1, <2>5
  <2> QED
    BY <2>1, <2>4, <2>6
<1> QED
  BY <1>3, <1>4 DEF C

\* A section in order has its title and a row for each neighbour, and each row
\* has as many words as are read of it.
LEMMA SectionInOrder ==
  ASSUME NEW n \in Nat, NEW L, L = Tokens(Section(n), LineEnds)
  PROVE  /\ Len(L) = n + 1
         /\ \A r \in 1..(n + 1) : Len(Tokens(L[r], Blanks)) = Columns
<1> DEFINE w == Width
           s == Section(n)
           R == Runs(s, Characters \ LineEnds)
           at(q) == <<w * q + 1, w * q + (w - 1)>>
           h == [r \in 1..(n + 1) |-> at(r - 1)]
<1>1. /\ w \in Nat \ {0, 1} /\ s \in Seq(Characters) /\ Len(s) = w * n + w /\ w * n \in Nat
      /\ \A q \in 0..n, j \in 1..w : w * q + j \in 1..Len(s) /\ s[w * q + j] = Place(j)
  BY SectionAt
<1>2. \A q \in 0..n : w * q \in Nat
  BY <1>1
<1>3. R = {at(q) : q \in 0..n}
  BY LinesOfSection
<1>4. PICK f : Cut(s, L, f, R)
  BY <1>1, TokensAreRuns
<1> HIDE DEF w, s, R
<1>5. \A q \in 0..n : at(q) \in Nat \X Nat /\ at(q)[1] = w * q + 1 /\ at(q)[2] = w * q + (w - 1)
  BY <1>1, <1>2
<1> HIDE DEF at
<1>6. /\ h \in Seq(Nat \X Nat) /\ Len(h) = n + 1
      /\ \A r \in 1..(n + 1) : r - 1 \in 0..n /\ h[r] = at(r - 1)
  <2>1. \A r \in 1..(n + 1) : r - 1 \in 0..n
    OBVIOUS
  <2> QED
    BY <1>5, <2>1
<1> HIDE DEF h
<1>7. Increasing(h)
  <2> SUFFICES ASSUME NEW m \in 1..Len(h), NEW r \in 1..Len(h), m < r
               PROVE  h[m][1] < h[r][1]
    BY DEF Increasing
  <2>1. m - 1 \in 0..n /\ r - 1 \in 0..n /\ m - 1 < r - 1
    BY <1>6
  <2>2. PICK p \in 0..n, q \in 0..n : p = m - 1 /\ q = r - 1 /\ p < q
    BY <2>1
  <2>3. h[m][1] = w * p + 1 /\ h[r][1] = w * q + 1
    BY <1>5, <1>6, <2>2
  <2>4. w * p + w <= w * q
    BY <1>1, <2>2, RowsApart
  <2> QED
    BY <1>1, <1>2, <2>3, <2>4
<1>8. R = {h[r] : r \in 1..Len(h)}
  <2>1. \A q \in 0..n : q + 1 \in 1..Len(h) /\ h[q + 1] = at(q)
    <3>1. \A q \in 0..n : q + 1 \in 1..Len(h) /\ (q + 1) - 1 = q
      BY <1>6
    <3> QED
      BY <1>6, <3>1
  <2>2. \A r \in 1..Len(h) : r - 1 \in 0..n /\ h[r] = at(r - 1)
    BY <1>6
  <2> QED
    BY <1>3, <2>1, <2>2
<1>9. Cardinality(R) = n + 1 /\ \A r \in 1..(n + 1) : Nth(R, r) = h[r]
  BY <1>6, <1>7, <1>8, Counted
<1>10. /\ f \in Seq(Nat \X Nat) /\ Len(f) = Len(L) /\ Increasing(f)
       /\ R = {f[r] : r \in 1..Len(f)}
       /\ \A r \in 1..Len(f) : L[r] = SubSeq(s, f[r][1], f[r][2])
  BY <1>4 DEF Cut
<1>11. Cardinality(R) = Len(f) /\ \A r \in 1..Len(f) : Nth(R, r) = f[r]
  BY <1>10, Counted
<1>12. Len(L) = n + 1
  BY <1>9, <1>10, <1>11
<1>13. ASSUME NEW r \in 1..(n + 1) PROVE Len(Tokens(L[r], Blanks)) = Columns
  <2>1. PICK q \in 0..n : q = r - 1
    BY <1>6
  <2>2. f[r] = at(q)
    BY <1>6, <1>9, <1>10, <1>11, <1>12, <2>1
  <2> DEFINE line == SubSeq(s, w * q + 1, w * q + (w - 1))
  <2>3. L[r] = line
    BY <1>5, <1>10, <1>12, <2>2
  <2>4. line \in Seq(Characters) /\ Len(line) = w - 1 /\ \A j \in 1..(w - 1) : line[j] = Place(j)
    <3>1. PICK x \in Nat : x = w * q
      BY <1>2
    <3>2. \A k \in (x + 1)..(x + (w - 1)) : k \in 1..Len(s)
      <4>1. 1 \in 1..w /\ w - 1 \in 1..w
        BY <1>1
      <4>2. x + 1 \in 1..Len(s) /\ x + (w - 1) \in 1..Len(s)
        BY <1>1, <3>1, <4>1
      <4> QED
        BY <1>1, <4>2
    <3>3. \A k \in (x + 1)..(x + (w - 1)) : s[k] \in Characters
      <4>1. \A k \in 1..Len(s) : s[k] \in Characters
        BY <1>1
      <4> QED
        BY <3>2, <4>1
    <3>4. x + 1 \in Int /\ x + (w - 1) \in Int
      BY <1>1
    <3>5. /\ SubSeq(s, x + 1, x + (w - 1)) \in Seq(Characters)
          /\ Len(SubSeq(s, x + 1, x + (w - 1))) = w - 1
          /\ \A j \in 1..(w - 1) : SubSeq(s, x + 1, x + (w - 1))[j] = s[x + j]
      BY <1>1, <3>2, <3>3, <3>4
    <3>6. \A j \in 1..(w - 1) : j \in 1..w
      BY <1>1
    <3> QED
      BY <1>1, <3>1, <3>5, <3>6
  <2> HIDE DEF line
  <2>5. Runs(line, Characters \ Blanks) = {<<2 * c - 1, 2 * c - 1>> : c \in 1..Columns}
    BY <2>4, WordsOfRow DEF w
  <2>6. PICK g : Cut(line, Tokens(line, Blanks), g, Runs(line, Characters \ Blanks))
    BY <2>4, TokensAreRuns
  <2>7. Len(Tokens(line, Blanks)) = Cardinality(Runs(line, Characters \ Blanks))
    BY <2>6, Counted DEF Cut
  <2> DEFINE e == [c \in 1..Columns |-> <<2 * c - 1, 2 * c - 1>>]
  <2>8. Columns \in Nat
    BY ResultParsingAssumption
  <2>9. /\ e \in Seq(Nat \X Nat) /\ Len(e) = Columns
        /\ \A c \in 1..Columns : e[c] = <<2 * c - 1, 2 * c - 1>> /\ e[c][1] = 2 * c - 1
    <3>1. \A c \in 1..Columns : 2 * c - 1 \in Nat
      BY <2>8
    <3> QED
      BY <2>8, <3>1
  <2> HIDE DEF e
  <2>10. Increasing(e)
    BY <2>8, <2>9 DEF Increasing
  <2>11. Runs(line, Characters \ Blanks) = {e[c] : c \in 1..Len(e)}
    BY <2>5, <2>9
  <2>12. Cardinality(Runs(line, Characters \ Blanks)) = Columns
    BY <2>9, <2>10, <2>11, Counted
  <2> QED
    BY <2>3, <2>7, <2>12
<1> QED
  BY <1>12, <1>13

-----------------------------------------------------------------------------
(* What has been parsed                                                    *)

Lines == Tokens(source, LineEnds)
Words(r) == Tokens(Lines[r], Blanks)

InRows == tpc \in {"columns", "column array", "items", "free columns"}

\* How many rows are done with.
Parsed == IF tpc = "items" THEN Len(table) - 1 ELSE Len(table)

\* The rows left to be parsed are the last lines of the text.
RowsInv ==
  /\ tpc \in {"rows", "row array", "free rows"} =>
       rows = Lines /\ table = <<>> /\ nrows = 0 /\ ~short
  /\ tpc = "row array" => Lines # <<>>
  /\ tpc = "free rows" => Lines = <<>>
  /\ InRows =>
       /\ nrows = Len(Lines) /\ nrows > 0 /\ Parsed + Len(rows) = nrows
       /\ \A j \in 1..Len(rows) : rows[j] = Lines[Parsed + j]
       /\ tpc # "columns" => rows # <<>>
  /\ tpc = "done" => Len(table) = nrows /\ (nrows = Len(Lines) \/ (nrows = 0 /\ short))
  /\ tpc = "failed" => short
  /\ tpc = "none" => table = <<>> /\ nrows = 0

\* A row has the words of its line, or none if memory was short; the columns
\* left to be copied are the last words of theirs.
ColumnsInv ==
  /\ InRows \/ tpc = "done" =>
       \A r \in 1..Parsed : table[r] = Words(r) \/ (short /\ table[r] = <<>>)
  /\ tpc = "column array" => columns = Words(Row) /\ columns # <<>>
  /\ tpc = "free columns" => Words(Row) = <<>>
  /\ tpc = "items" =>
       /\ table # <<>>
       /\ Words(Len(table)) = table[Len(table)] \o columns /\ Words(Len(table)) # <<>>

ParseInv == TableTypeOK /\ RowsInv /\ ColumnsInv

LEMMA LinesType ==
  ASSUME source \in Seq(Characters)
  PROVE  /\ Lines \in Seq(Seq(Characters))
         /\ \A r \in 1..Len(Lines) : Words(r) \in Seq(Seq(Characters))
<1>1. Lines \in Seq(Seq(Characters))
  BY TokensAreRuns DEF Lines
<1>2. ASSUME NEW r \in 1..Len(Lines) PROVE Words(r) \in Seq(Seq(Characters))
  <2>1. Lines[r] \in Seq(Characters)
    BY <1>1
  <2> QED
    BY <2>1, TokensAreRuns DEF Words
<1> QED
  BY <1>1, <1>2

LEMMA NothingTyped == \A S : <<>> \in Seq(S)
OBVIOUS

LEMMA AppendJoins ==
  \A S : \A a, b \in Seq(S), x \in S :
    Append(a, x) \in Seq(S) /\ Append(a, x) \o b = a \o (<<x>> \o b)
<1> SUFFICES ASSUME NEW S, NEW a \in Seq(S), NEW b \in Seq(S), NEW x \in S
             PROVE  Append(a, x) \in Seq(S) /\ Append(a, x) \o b = a \o (<<x>> \o b)
  OBVIOUS
<1> DEFINE p == Append(a, x) \o b
           q == a \o (<<x>> \o b)
<1>1. /\ p \in Seq(S) /\ q \in Seq(S) /\ Len(p) = Len(q)
      /\ \A i \in 1..Len(p) : p[i] = q[i]
  OBVIOUS
<1> HIDE DEF p, q
<1>2. p = q
  BY <1>1, SeqEqual
<1> QED
  BY <1>2 DEF p, q

LEMMA SameSource == UNCHANGED source => Lines' = Lines /\ \A r : Words(r)' = Words(r)
BY DEF Lines, Words

LEMMA ParseTableParses ==
  ASSUME NEW text \in Seq(Characters), ParseInv, ParseTable(text)
  PROVE  ParseInv'
<1>1. /\ tpc' = "rows" /\ rows' = Lines' /\ columns' = <<>> /\ table' = <<>> /\ nrows' = 0
      /\ source' = text /\ short' = FALSE
  BY DEF ParseTable, Lines
<1>2. rows' \in Seq(Seq(Characters))
  BY <1>1, TokensAreRuns DEF Lines
<1>3. TableTypeOK'
  BY <1>1, <1>2, NothingTyped DEF TableTypeOK
<1>4. RowsInv'
  BY <1>1 DEF RowsInv, InRows
<1>5. ColumnsInv'
  BY <1>1 DEF ColumnsInv, InRows
<1> QED
  BY <1>3, <1>4, <1>5 DEF ParseInv

LEMMA ParseNothingParses ==
  ASSUME NEW text \in Seq(Characters), ParseInv, ParseNothing(text)
  PROVE  ParseInv'
BY DEF ParseNothing, ParseInv, TableTypeOK, RowsInv, ColumnsInv, InRows

LEMMA FreeTableParses ==
  ASSUME ParseInv, FreeTable
  PROVE  ParseInv'
<1>1. /\ tpc' = "none" /\ rows' = <<>> /\ columns' = <<>> /\ table' = <<>> /\ nrows' = 0
      /\ source' = source /\ short' = short
  BY DEF FreeTable
<1>3. TableTypeOK'
  BY <1>1, NothingTyped DEF TableTypeOK, ParseInv
<1>4. RowsInv'
  BY <1>1 DEF RowsInv, InRows
<1>5. ColumnsInv'
  BY <1>1 DEF ColumnsInv, InRows
<1> QED
  BY <1>3, <1>4, <1>5 DEF ParseInv

LEMMA ParseStepParses ==
  ASSUME ParseInv, ParseStep
  PROVE  ParseInv'
<1>1. TableTypeOK /\ RowsInv /\ ColumnsInv
  BY DEF ParseInv
<1>2. source' = source /\ Lines' = Lines /\ \A r : Words(r)' = Words(r)
  BY SameSource DEF ParseStep, SplitRows, SplitRowsFails, AllocateRows, SplitColumns,
     SplitColumnsFails, AllocateColumns, CopyItem, FreeColumns, FreeRows, AllocationFails
<1>3. Lines \in Seq(Seq(Characters)) /\ \A r \in 1..Len(Lines) : Words(r) \in Seq(Seq(Characters))
  BY <1>1, LinesType DEF TableTypeOK
<1>4. /\ table \in Seq(Seq(Seq(Characters))) /\ rows \in Seq(Seq(Characters))
      /\ columns \in Seq(Seq(Characters)) /\ nrows \in Nat
      /\ source \in Seq(Characters) /\ short \in BOOLEAN
  BY <1>1 DEF TableTypeOK
<1>5. CASE SplitRows
  BY <1>1, <1>2, <1>5 DEF SplitRows, ParseInv, TableTypeOK, RowsInv, ColumnsInv, InRows
<1>6. CASE SplitRowsFails
  BY <1>1, <1>2, <1>6 DEF SplitRowsFails, ParseInv, TableTypeOK, RowsInv, ColumnsInv, InRows, Parsed
<1>7. CASE AllocateRows
  <2>0. rows = Lines /\ rows # <<>> /\ table = <<>>
    BY <1>1, <1>7 DEF AllocateRows, RowsInv
  <2>1. Len(rows) \in Nat /\ Len(rows) > 0
    BY <1>4, <2>0
  <2>2. /\ tpc' = "columns" /\ nrows' = Len(rows) /\ rows' = rows /\ columns' = columns
        /\ table' = table /\ source' = source /\ short' = short
    BY <1>7 DEF AllocateRows
  <2>3. TableTypeOK'
    BY <1>4, <2>1, <2>2 DEF TableTypeOK
  <2>4. Parsed' = 0
    BY <2>0, <2>2 DEF Parsed
  <2>5. RowsInv'
    BY <1>2, <2>0, <2>1, <2>2, <2>4 DEF RowsInv, InRows
  <2>6. ColumnsInv'
    BY <2>2, <2>4 DEF ColumnsInv
  <2> QED
    BY <2>3, <2>5, <2>6 DEF ParseInv
<1>8. ASSUME InRows, Parsed = Len(table)
      PROVE  /\ Len(table) \in Nat /\ nrows = Len(Lines) /\ nrows > 0 /\ Row = Len(table) + 1
             /\ Len(rows) \in Nat /\ Len(table) + Len(rows) = nrows
             /\ \A j \in 1..Len(rows) : rows[j] = Lines[Len(table) + j]
             /\ \A r \in 1..Len(table) : table[r] = Words(r) \/ (short /\ table[r] = <<>>)
  <2>1. Len(table) \in Nat /\ Len(rows) \in Nat /\ Row = Len(table) + 1
    BY <1>4 DEF Row
  <2>2. /\ nrows = Len(Lines) /\ nrows > 0 /\ Parsed + Len(rows) = nrows
        /\ \A j \in 1..Len(rows) : rows[j] = Lines[Parsed + j]
    BY <1>1, <1>8 DEF RowsInv
  <2>3. \A r \in 1..Parsed : table[r] = Words(r) \/ (short /\ table[r] = <<>>)
    BY <1>1, <1>8 DEF ColumnsInv
  <2> QED
    BY <1>8, <2>1, <2>2, <2>3
<1>9. ASSUME rows # <<>>
      PROVE  /\ Len(rows) \in Nat \ {0} /\ Head(rows) = rows[1] /\ Head(rows) \in Seq(Characters)
             /\ Tail(rows) \in Seq(Seq(Characters)) /\ Len(Tail(rows)) = Len(rows) - 1
             /\ \A j \in 1..(Len(rows) - 1) : Tail(rows)[j] = rows[j + 1]
  BY <1>4, <1>9
<1>10. /\ Append(table, <<>>) \in Seq(Seq(Seq(Characters)))
       /\ Len(Append(table, <<>>)) = Len(table) + 1
       /\ \A r \in 1..Len(table) : Append(table, <<>>)[r] = table[r]
       /\ Append(table, <<>>)[Len(table) + 1] = <<>>
  BY <1>4, NothingTyped
\* A row ends, done with in whatever way.
<1>11. ASSUME InRows, rows # <<>>, rows' = Tail(rows), tpc' = "columns", nrows' = nrows,
              table' \in Seq(Seq(Seq(Characters))), columns' \in Seq(Seq(Characters)),
              short' \in BOOLEAN, Len(table') = Parsed + 1,
              \A r \in 1..(Parsed + 1) : table'[r] = Words(r) \/ (short' /\ table'[r] = <<>>)
       PROVE  ParseInv'
  <2>1. Parsed' = Parsed + 1 /\ InRows'
    BY <1>11 DEF Parsed, InRows
  <2>2. /\ Parsed + Len(rows) = nrows /\ nrows = Len(Lines) /\ nrows > 0
        /\ \A j \in 1..Len(rows) : rows[j] = Lines[Parsed + j]
    BY <1>1, <1>11 DEF RowsInv
  <2>3. Parsed \in Int
    BY <1>4 DEF Parsed
  <2>4. TableTypeOK'
    BY <1>2, <1>4, <1>9, <1>11 DEF TableTypeOK
  <2>5. Parsed' + Len(rows') = nrows'
    BY <1>9, <1>11, <2>1, <2>2, <2>3
  <2>6. ASSUME NEW j \in 1..Len(rows') PROVE rows'[j] = Lines'[Parsed' + j]
    <3>1. j \in 1..(Len(rows) - 1) /\ j + 1 \in 1..Len(rows) /\ Parsed + (j + 1) = (Parsed + 1) + j
      BY <1>9, <1>11, <2>3
    <3> QED
      BY <1>2, <1>9, <1>11, <2>1, <2>2, <3>1
  <2>7. RowsInv'
    BY <1>2, <1>11, <2>1, <2>2, <2>5, <2>6 DEF RowsInv
  <2>8. ColumnsInv'
    BY <1>2, <1>11, <2>1 DEF ColumnsInv
  <2> QED
    BY <2>4, <2>7, <2>8 DEF ParseInv
<1>12. CASE SplitColumns
  <2>1. /\ tpc = "columns" /\ rows # <<>> /\ columns' = Tokens(Head(rows), Blanks)
        /\ tpc' = IF columns' = <<>> THEN "free columns" ELSE "column array"
        /\ UNCHANGED <<rows, table, nrows, source, short>>
    BY <1>12 DEF SplitColumns
  <2>2. InRows /\ Parsed = Len(table) /\ InRows' /\ Parsed' = Len(table)
    BY <2>1 DEF InRows, Parsed
  <2>3. columns' = Words(Len(table) + 1)
    <3>1. Head(rows) = Lines[Len(table) + 1]
      <4>1. 1 \in 1..Len(rows)
        <5>1. Len(rows) \in Nat \ {0}
          BY <1>9, <2>1
        <5> QED
          BY <5>1
      <4>2. \A j \in 1..Len(rows) : rows[j] = Lines[Len(table) + j]
        BY <1>8, <2>2
      <4>3. rows[1] = Lines[Len(table) + 1]
        BY <4>1, <4>2
      <4> QED
        BY <1>9, <2>1, <4>3
    <3> QED
      BY <2>1, <3>1 DEF Words
  <2>4. columns' \in Seq(Seq(Characters))
    BY <1>9, <2>1, TokensAreRuns
  <2>5. TableTypeOK'
    BY <1>4, <2>1, <2>4 DEF TableTypeOK
  <2>6. RowsInv'
    BY <1>2, <1>8, <2>1, <2>2 DEF RowsInv
  <2>7. Row' = Len(table) + 1
    BY <2>1 DEF Row
  <2>8. ColumnsInv'
    BY <1>2, <1>8, <2>1, <2>2, <2>3, <2>7 DEF ColumnsInv
  <2> QED
    BY <2>5, <2>6, <2>8 DEF ParseInv
<1>13. CASE SplitColumnsFails
  <2>1. /\ tpc = "columns" /\ rows # <<>> /\ rows' = Tail(rows)
        /\ table' = Append(table, <<>>) /\ short' = TRUE
        /\ UNCHANGED <<tpc, columns, nrows, source>>
    BY <1>13 DEF SplitColumnsFails
  <2>2. InRows /\ Parsed = Len(table)
    BY <2>1 DEF InRows, Parsed
  <2>3. \A r \in 1..(Parsed + 1) : table'[r] = Words(r) \/ table'[r] = <<>>
    <3>1. \A r \in 1..(Len(table) + 1) : r \in 1..Len(table) \/ r = Len(table) + 1
      BY <1>8, <2>2
    <3> QED
      BY <1>8, <1>10, <2>1, <2>2, <3>1
  <2> QED
    BY <1>4, <1>10, <1>11, <2>1, <2>2, <2>3
<1>14. CASE AllocateColumns
  <2>1. /\ tpc = "column array" /\ table' = Append(table, <<>>) /\ tpc' = "items"
        /\ UNCHANGED <<rows, columns, nrows, source, short>>
    BY <1>14 DEF AllocateColumns
  <2>2. InRows /\ Parsed = Len(table) /\ InRows'
    BY <2>1 DEF InRows, Parsed
  <2>3. Len(table') = Len(table) + 1 /\ Parsed' = Len(table)
    <3>1. Len(table') = Len(table) + 1 /\ Len(table) \in Nat
      BY <1>8, <1>10, <2>1, <2>2
    <3>2. Parsed' = Len(table') - 1
      BY <2>1 DEF Parsed
    <3> QED
      BY <3>1, <3>2
  <2>4. rows # <<>> /\ columns = Words(Len(table) + 1) /\ columns # <<>>
    BY <1>1, <2>1, <2>2 DEF RowsInv, ColumnsInv, Row
  <2>5. TableTypeOK'
    BY <1>4, <1>10, <2>1 DEF TableTypeOK
  <2>6. RowsInv'
    BY <1>2, <1>8, <2>1, <2>2, <2>3, <2>4 DEF RowsInv
  <2>7. \A r \in 1..Parsed' : table'[r] = Words(r) \/ (short' /\ table'[r] = <<>>)
    BY <1>8, <1>10, <2>1, <2>2, <2>3
  <2>8. table' # <<>> /\ table'[Len(table')] \o columns = columns
    <3>1. table'[Len(table')] = <<>>
      BY <1>10, <2>1, <2>3
    <3>2. table' # <<>>
      BY <1>8, <2>2, <2>3
    <3> QED
      BY <1>4, <3>1, <3>2
  <2>9. ColumnsInv'
    BY <1>2, <2>1, <2>2, <2>3, <2>4, <2>7, <2>8 DEF ColumnsInv
  <2> QED
    BY <2>5, <2>6, <2>9 DEF ParseInv
<1>15. CASE CopyItem
  <2>1. /\ tpc = "items" /\ columns # <<>> /\ columns' = Tail(columns)
        /\ table' = [table EXCEPT ![Len(table)] = Append(@, Head(columns))]
        /\ UNCHANGED <<tpc, rows, nrows, source, short>>
    BY <1>15 DEF CopyItem
  <2>2. /\ table # <<>> /\ rows # <<>> /\ InRows /\ InRows'
        /\ Words(Len(table)) = table[Len(table)] \o columns /\ Words(Len(table)) # <<>>
        /\ Parsed = Len(table) - 1
    BY <1>1, <2>1 DEF RowsInv, ColumnsInv, InRows, Parsed
  <2>3. Len(table) \in Nat \ {0}
    BY <1>4, <2>2
  <2>4. table[Len(table)] \in Seq(Seq(Characters))
    BY <1>4, <2>3
  <2>5. /\ Head(columns) \in Seq(Characters) /\ Tail(columns) \in Seq(Seq(Characters))
        /\ columns = <<Head(columns)>> \o Tail(columns)
    BY <1>4, <2>1
  <2> DEFINE item == Append(table[Len(table)], Head(columns))
  <2>6. item \in Seq(Seq(Characters)) /\ item \o Tail(columns) = table[Len(table)] \o columns
    BY <2>4, <2>5, AppendJoins
  <2> HIDE DEF item
  <2>7. /\ table' \in Seq(Seq(Seq(Characters))) /\ Len(table') = Len(table)
        /\ table'[Len(table)] = item /\ \A r \in 1..(Len(table) - 1) : table'[r] = table[r]
    <3>1. table' = [table EXCEPT ![Len(table)] = item]
      BY <2>1, <2>3 DEF item
    <3> QED
      BY <1>4, <2>3, <2>6, <3>1
  <2>8. table' # <<>> /\ Parsed' = Parsed
    BY <2>1, <2>3, <2>7 DEF Parsed
  <2>9. TableTypeOK'
    BY <1>4, <2>1, <2>5, <2>7 DEF TableTypeOK
  <2>10. RowsInv'
    BY <1>1, <1>2, <2>1, <2>2, <2>8 DEF RowsInv
  <2>11. \A r \in 1..Parsed : table'[r] = Words(r) \/ (short' /\ table'[r] = <<>>)
    BY <1>1, <2>1, <2>2, <2>7 DEF ColumnsInv
  <2>12. Words(Len(table')) = table'[Len(table')] \o columns'
    BY <2>1, <2>2, <2>6, <2>7
  <2>13. ColumnsInv'
    BY <1>2, <2>1, <2>2, <2>7, <2>8, <2>11, <2>12 DEF ColumnsInv
  <2> QED
    BY <2>9, <2>10, <2>13 DEF ParseInv
<1>16. CASE FreeColumns
  <2>1. rows' = Tail(rows) /\ tpc' = "columns" /\ UNCHANGED <<columns, nrows, source, short>>
    BY <1>16 DEF FreeColumns
  <2>2. CASE tpc = "free columns" /\ table' = Append(table, <<>>)
    <3>1. InRows /\ Parsed = Len(table)
      BY <2>2 DEF InRows, Parsed
    <3>2. rows # <<>> /\ Words(Len(table) + 1) = <<>>
      BY <1>1, <2>2, <3>1 DEF RowsInv, ColumnsInv, Row
    <3>3. \A r \in 1..(Parsed + 1) : table'[r] = Words(r) \/ (short' /\ table'[r] = <<>>)
      <4>1. \A r \in 1..(Len(table) + 1) : r \in 1..Len(table) \/ r = Len(table) + 1
        BY <1>8, <3>1
      <4> QED
        BY <1>8, <1>10, <2>1, <2>2, <3>1, <3>2, <4>1
    <3> QED
      BY <1>4, <1>10, <1>11, <2>1, <2>2, <3>1, <3>2, <3>3
  <2>3. CASE tpc = "items" /\ columns = <<>> /\ UNCHANGED table
    <3>1. /\ InRows /\ Parsed = Len(table) - 1 /\ rows # <<>> /\ table # <<>>
          /\ Words(Len(table)) = table[Len(table)] \o columns
      BY <1>1, <2>3 DEF RowsInv, ColumnsInv, InRows, Parsed
    <3>2. Len(table) \in Nat \ {0} /\ Parsed + 1 = Len(table)
      BY <1>4, <3>1
    <3>3. Words(Len(table)) = table[Len(table)]
      <4>1. table[Len(table)] \in Seq(Seq(Characters))
        BY <1>4, <3>2
      <4> QED
        BY <2>3, <3>1, <4>1
    <3>4. \A r \in 1..Parsed : table[r] = Words(r) \/ (short /\ table[r] = <<>>)
      BY <1>1, <3>1 DEF ColumnsInv
    <3>5. \A r \in 1..(Parsed + 1) : table'[r] = Words(r) \/ (short' /\ table'[r] = <<>>)
      <4>1. \A r \in 1..(Parsed + 1) : r \in 1..Parsed \/ r = Len(table)
        BY <3>1, <3>2
      <4> QED
        BY <2>1, <2>3, <3>3, <3>4, <4>1
    <3> QED
      BY <1>4, <1>11, <2>1, <2>3, <3>1, <3>2, <3>5
  <2> QED
    BY <1>16, <2>2, <2>3 DEF FreeColumns
<1>17. CASE FreeRows
  <2>1. tpc' = "done" /\ UNCHANGED <<rows, columns, table, nrows, source, short>>
    BY <1>17 DEF FreeRows
  <2>2. TableTypeOK'
    BY <1>4, <2>1 DEF TableTypeOK
  <2>3. CASE tpc = "free rows"
    <3>1. table = <<>> /\ Lines = <<>> /\ nrows = 0
      BY <1>1, <2>3 DEF RowsInv
    <3>2. Parsed' = 0
      BY <2>1, <3>1 DEF Parsed
    <3> QED
      <4>1. RowsInv'
        BY <1>2, <2>1, <3>1 DEF RowsInv, InRows
      <4>2. ColumnsInv'
        BY <2>1, <3>2 DEF ColumnsInv
      <4> QED
        BY <2>2, <4>1, <4>2 DEF ParseInv
  <2>4. CASE tpc = "columns" /\ rows = <<>>
    <3>1. InRows /\ Parsed = Len(table) /\ Parsed' = Len(table)
      BY <2>1, <2>4 DEF InRows, Parsed
    <3>2. Len(table) = nrows /\ nrows = Len(Lines)
      BY <1>8, <2>4, <3>1
    <3> QED
      BY <1>2, <1>8, <2>1, <2>2, <3>1, <3>2 DEF ParseInv, RowsInv, ColumnsInv, InRows
  <2> QED
    BY <1>17, <2>3, <2>4 DEF FreeRows
<1>18. CASE AllocationFails
  BY <1>1, <1>2, <1>18 DEF AllocationFails, ParseInv, TableTypeOK, RowsInv, ColumnsInv, InRows
<1> QED
  BY <1>5, <1>6, <1>7, <1>12, <1>13, <1>14, <1>15, <1>16, <1>17, <1>18 DEF ParseStep

-----------------------------------------------------------------------------
(* The memory                                                              *)

Uses == {"table", "row", "column", "item", "rows", "columns"}

\* A block of the table is in memory only while there is one, and where
\* tokenfind_free_table looks for it.
Allowed(u, r, c) ==
  u \in {"table", "row", "column", "item"} =>
    /\ tpc \notin {"none", "failed"}
    /\ u \in {"table", "row"} => r = 0 /\ c = 0
    /\ u \in {"column", "item"} => r <= nrows

\* The blocks that are in memory if there was always enough of it.
Held(u, r, c) ==
  /\ tpc \notin {"none", "failed"}
  /\ \/ u = "table" /\ r = 0 /\ c = 0
     \/ u = "row" /\ r = 0 /\ c = 0 /\ nrows > 0
     \/ /\ u = "column" /\ c = 0 /\ r \in 1..Len(table)
        /\ table[r] # <<>> \/ (tpc = "items" /\ r = Len(table))
     \/ u = "item" /\ r \in 1..Len(table) /\ c \in 1..Len(table[r])
     \/ u = "rows" /\ r = 0 /\ c \in 0..2 /\ tpc \notin {"rows", "done"} /\ (c = 2 => Lines # <<>>)
     \/ /\ u = "columns" /\ c \in 0..2 /\ r = Parsed + 1
        /\ tpc \in {"column array", "items"} \/ (tpc = "free columns" /\ c # 2)

BlocksInv ==
  /\ live \subseteq Uses \X Nat \X Nat
  /\ \A u \in Uses, r, c \in Nat : <<u, r, c>> \in live => Allowed(u, r, c)
  /\ ~short => \A u \in Uses, r, c \in Nat : <<u, r, c>> \in live <=> Held(u, r, c)

\* What has been said of the memory, about the blocks one by one.
LEMMA BlocksAre ==
  ASSUME live' \subseteq Uses \X Nat \X Nat,
         \A u \in Uses, r, c \in Nat : <<u, r, c>> \in live' => Allowed(u, r, c)',
         ~short' => \A u \in Uses, r, c \in Nat : <<u, r, c>> \in live' <=> Held(u, r, c)'
  PROVE  BlocksInv'
BY DEF BlocksInv

LEMMA SplitHas ==
  \A use, q, u, r, c : <<u, r, c>> \in SplitBlocks(use, q) <=> u = use /\ r = q /\ c \in 0..2
BY DEF SplitBlocks

LEMMA AllocatedHas ==
  \A use, q, s, u, r, c :
    <<u, r, c>> \in Allocated(use, q, s) <=>
      u = use /\ r = q /\ c \in 0..2 /\ (c = 2 => s # <<>>)
<1> TAKE use, q, s, u, r, c
<1>1. <<u, r, c>> = <<use, q, 2>> <=> u = use /\ r = q /\ c = 2
  OBVIOUS
<1>2. <<u, r, c>> \in SplitBlocks(use, q) \ {<<use, q, 2>>} <=>
        u = use /\ r = q /\ c \in 0..2 /\ c # 2
  BY <1>1, SplitHas
<1> QED
  BY <1>2, SplitHas DEF Allocated

LEMMA BlockIs ==
  /\ \A use, q, p, u, r, c : <<u, r, c>> \in {<<use, q, p>>} <=> u = use /\ r = q /\ c = p
  /\ \A use \in Uses, q, p \in Nat : {<<use, q, p>>} \subseteq Uses \X Nat \X Nat
OBVIOUS

LEMMA AllocatedTyped ==
  \A use \in Uses, q \in Nat : \A s : Allocated(use, q, s) \subseteq Uses \X Nat \X Nat
BY DEF Allocated, SplitBlocks

LEMMA LostHas ==
  \A use \in Uses, q \in Nat : \A s : \A lost \in LostBySplit(use, q, s) :
    lost \subseteq Uses \X Nat \X Nat /\ \A u, r, c : <<u, r, c>> \in lost => u = use
BY DEF LostBySplit

LEMMA TableBlocksHas ==
  ASSUME live \subseteq Uses \X Nat \X Nat
  PROVE  \A u \in Uses, r, c \in Nat : <<u, r, c>> \in live =>
           (<<u, r, c>> \in TableBlocks <=>
              \/ u \in {"table", "row"} /\ r = 0 /\ c = 0
              \/ u \in {"column", "item"} /\ r <= nrows)
BY DEF TableBlocks

LEMMA ParseTableHolds ==
  ASSUME NEW text, ParseInv, BlocksInv, ParseTable(text) \/ ParseNothing(text)
  PROVE  BlocksInv'
<1>1. CASE ParseTable(text)
  <2>1. tpc' = "rows" /\ live' = {<<"table", 0, 0>>} /\ table' = <<>> /\ nrows' = 0
    BY <1>1 DEF ParseTable
  <2>2. live' \subseteq Uses \X Nat \X Nat
    BY <2>1 DEF Uses
  <2>3. \A u \in Uses, r, c \in Nat : <<u, r, c>> \in live' <=> u = "table" /\ r = 0 /\ c = 0
    BY <2>1
  <2> QED
    BY <2>1, <2>2, <2>3, BlocksAre DEF Allowed, Held
<1>2. CASE ParseNothing(text)
  BY <1>2 DEF ParseNothing, BlocksInv
<1> QED
  BY <1>1, <1>2

LEMMA FreeTableHolds ==
  ASSUME ParseInv, BlocksInv, FreeTable
  PROVE  BlocksInv'
<1>1. /\ tpc \in {"done", "failed"} /\ tpc' = "none" /\ short' = short
      /\ live' = IF tpc = "done" THEN live \ TableBlocks ELSE live
  BY DEF FreeTable
<1>2. live \subseteq Uses \X Nat \X Nat /\ live' \subseteq Uses \X Nat \X Nat
  BY <1>1 DEF BlocksInv
<1>3. \A u \in Uses, r, c \in Nat : <<u, r, c>> \in live => Allowed(u, r, c)
  BY DEF BlocksInv
<1>4. ~short => \A u \in Uses, r, c \in Nat : <<u, r, c>> \in live <=> Held(u, r, c)
  BY DEF BlocksInv
<1>5. ASSUME NEW u \in Uses, NEW r \in Nat, NEW c \in Nat, <<u, r, c>> \in live'
      PROVE  u \notin {"table", "row", "column", "item"}
  <2>1. <<u, r, c>> \in live /\ (tpc = "done" => <<u, r, c>> \notin TableBlocks)
    BY <1>1, <1>5
  <2>2. Allowed(u, r, c)
    BY <1>3, <2>1
  <2> QED
    BY <1>1, <1>2, <2>1, <2>2, TableBlocksHas DEF Allowed
<1>6. ASSUME ~short, NEW u \in Uses, NEW r \in Nat, NEW c \in Nat, <<u, r, c>> \in live'
      PROVE  FALSE
  <2>1. tpc = "done"
    BY <1>1, <1>6 DEF ParseInv, RowsInv
  <2>2. Held(u, r, c)
    BY <1>1, <1>4, <1>6, <2>1
  <2> QED
    BY <1>5, <1>6, <2>1, <2>2 DEF Held
<1> QED
  BY <1>1, <1>2, <1>5, <1>6, BlocksAre DEF Allowed, Held

LEMMA ParseStepHolds ==
  ASSUME ParseInv, BlocksInv, ParseStep
  PROVE  BlocksInv'
<1>1. RowsInv /\ ColumnsInv /\ ParseInv'
  BY ParseStepParses DEF ParseInv
<1>2. Lines' = Lines
  BY SameSource DEF ParseStep, SplitRows, SplitRowsFails, AllocateRows, SplitColumns,
     SplitColumnsFails, AllocateColumns, CopyItem, FreeColumns, FreeRows, AllocationFails
<1>3. /\ table \in Seq(Seq(Seq(Characters))) /\ Len(table) \in Nat /\ nrows \in Nat
      /\ rows \in Seq(Seq(Characters))
  <2>1. /\ table \in Seq(Seq(Seq(Characters))) /\ nrows \in Nat
        /\ rows \in Seq(Seq(Characters))
    BY DEF ParseInv, TableTypeOK
  <2> QED
    BY <2>1
<1>4. live \subseteq Uses \X Nat \X Nat
  BY DEF BlocksInv
<1>5. \A u \in Uses, r, c \in Nat : <<u, r, c>> \in live => Allowed(u, r, c)
  BY DEF BlocksInv
<1>6. ~short => \A u \in Uses, r, c \in Nat : <<u, r, c>> \in live <=> Held(u, r, c)
  BY DEF BlocksInv
<1>7. CASE SplitRows
  <2>1. /\ tpc = "rows" /\ live' = live \cup Allocated("rows", 0, rows)
        /\ tpc' = IF rows = <<>> THEN "free rows" ELSE "row array"
        /\ UNCHANGED <<rows, columns, table, nrows, source, short>>
    BY <1>7 DEF SplitRows
  <2>2. rows = Lines /\ table = <<>> /\ nrows = 0
    BY <1>1, <2>1 DEF RowsInv
  <2>0. 1..Len(table) = {} /\ ~(nrows > 0)
    BY <2>2
  <2>3. live' \subseteq Uses \X Nat \X Nat
    <3>1. Allocated("rows", 0, rows) \subseteq Uses \X Nat \X Nat
      BY AllocatedTyped DEF Uses
    <3> QED
      BY <1>4, <2>1, <3>1
  <2>4. \A u \in Uses, r, c \in Nat : <<u, r, c>> \in live' <=>
          <<u, r, c>> \in live \/ (u = "rows" /\ r = 0 /\ c \in 0..2 /\ (c = 2 => Lines # <<>>))
    <3> TAKE u \in Uses, r, c \in Nat
    <3>1. <<u, r, c>> \in Allocated("rows", 0, rows) <=>
            u = "rows" /\ r = 0 /\ c \in 0..2 /\ (c = 2 => rows # <<>>)
      BY AllocatedHas
    <3> QED
      BY <2>1, <2>2, <3>1
  <2>5. \A u \in Uses, r, c \in Nat : <<u, r, c>> \in live' => Allowed(u, r, c)'
    BY <1>5, <2>1, <2>4 DEF Allowed
  <2>6. ASSUME ~short, NEW u \in Uses, NEW r \in Nat, NEW c \in Nat
        PROVE  <<u, r, c>> \in live' <=> Held(u, r, c)'
    <3>1. <<u, r, c>> \in live <=> u = "table" /\ r = 0 /\ c = 0
      BY <1>6, <2>0, <2>1, <2>6 DEF Held
    <3>2. Held(u, r, c)' <=> \/ u = "table" /\ r = 0 /\ c = 0
                             \/ u = "rows" /\ r = 0 /\ c \in 0..2 /\ (c = 2 => Lines # <<>>)
      BY <1>2, <2>0, <2>1 DEF Held
    <3> QED
      BY <2>4, <3>1, <3>2
  <2> QED
    BY <2>1, <2>3, <2>5, <2>6, BlocksAre
<1>8. CASE SplitRowsFails
  <2>1. PICK lost \in LostBySplit("rows", 0, rows) : live' = live \cup lost
    BY <1>8 DEF SplitRowsFails
  <2>2. tpc = "rows" /\ tpc' = "done" /\ short' = TRUE /\ nrows' = nrows
    BY <1>8 DEF SplitRowsFails
  <2>3. lost \subseteq Uses \X Nat \X Nat /\ \A u, r, c : <<u, r, c>> \in lost => u = "rows"
    BY LostHas DEF Uses
  <2>4. live' \subseteq Uses \X Nat \X Nat
    BY <1>4, <2>1, <2>3
  <2> QED
    BY <1>5, <2>1, <2>2, <2>3, <2>4, BlocksAre DEF Allowed
<1>9. CASE AllocateRows
  <2>1. /\ tpc = "row array" /\ tpc' = "columns" /\ live' = live \cup {<<"row", 0, 0>>}
        /\ nrows' = Len(rows) /\ UNCHANGED <<rows, columns, table, source, short>>
    BY <1>9 DEF AllocateRows
  <2>2. rows = Lines /\ table = <<>> /\ nrows = 0 /\ Lines # <<>>
    BY <1>1, <2>1 DEF RowsInv
  <2>0. 1..Len(table) = {} /\ ~(nrows > 0)
    BY <2>2
  <2>3. nrows' \in Nat \ {0}
    <3>1. Len(rows) \in Nat \ {0}
      BY <1>3, <2>2
    <3> QED
      BY <2>1, <3>1
  <2>4. live' \subseteq Uses \X Nat \X Nat
    <3>1. {<<"row", 0, 0>>} \subseteq Uses \X Nat \X Nat
      BY BlockIs DEF Uses
    <3> QED
      BY <1>4, <2>1, <3>1
  <2>5. \A u \in Uses, r, c \in Nat : <<u, r, c>> \in live' <=>
          <<u, r, c>> \in live \/ (u = "row" /\ r = 0 /\ c = 0)
    BY <2>1
  <2>6. \A u \in Uses, r, c \in Nat : <<u, r, c>> \in live' => Allowed(u, r, c)'
    <3> TAKE u \in Uses, r, c \in Nat
    <3>1. r <= nrows => r <= nrows'
      BY <2>2, <2>3
    <3> QED
      BY <1>5, <2>1, <2>5, <3>1 DEF Allowed
  <2>7. ASSUME ~short, NEW u \in Uses, NEW r \in Nat, NEW c \in Nat
        PROVE  <<u, r, c>> \in live' <=> Held(u, r, c)'
    <3>1. <<u, r, c>> \in live <=> Held(u, r, c)
      BY <1>6, <2>7
    <3>2. Held(u, r, c) <=>
            \/ u = "table" /\ r = 0 /\ c = 0
            \/ u = "rows" /\ r = 0 /\ c \in 0..2 /\ (c = 2 => Lines # <<>>)
      BY <2>0, <2>1 DEF Held
    <3>3. Held(u, r, c)' <=>
            \/ u = "table" /\ r = 0 /\ c = 0
            \/ u = "row" /\ r = 0 /\ c = 0
            \/ u = "rows" /\ r = 0 /\ c \in 0..2 /\ (c = 2 => Lines # <<>>)
      <4>1. nrows' > 0
        BY <2>3
      <4> QED
        BY <1>2, <2>0, <2>1, <4>1 DEF Held
    <3> QED
      BY <2>5, <3>1, <3>2, <3>3
  <2> QED
    BY <2>1, <2>4, <2>6, <2>7, BlocksAre
<1>10. ASSUME InRows, Parsed = Len(table), rows # <<>>
       PROVE  /\ Row = Len(table) + 1 /\ Row \in Nat /\ Row <= nrows /\ nrows > 0
              /\ nrows = Len(Lines) /\ Lines # <<>>
  <2>1. Parsed + Len(rows) = nrows /\ nrows > 0 /\ nrows = Len(Lines)
    BY <1>1, <1>10 DEF RowsInv
  <2>2. Len(rows) \in Nat \ {0}
    BY <1>3, <1>10
  <2>3. Lines # <<>>
    BY <2>1
  <2> QED
    BY <1>3, <1>10, <2>1, <2>2, <2>3 DEF Row
<1>11. CASE SplitColumns
  <2>1. /\ tpc = "columns" /\ rows # <<>> /\ live' = live \cup Allocated("columns", Row, columns')
        /\ tpc' = IF columns' = <<>> THEN "free columns" ELSE "column array"
        /\ UNCHANGED <<rows, table, nrows, source, short>>
    BY <1>11 DEF SplitColumns
  <2>2. Parsed = Len(table) /\ InRows /\ Parsed' = Len(table)
    BY <2>1 DEF Parsed, InRows
  <2>3. Row = Len(table) + 1 /\ Row \in Nat
    BY <1>10, <2>1, <2>2
  <2>4. live' \subseteq Uses \X Nat \X Nat
    <3>1. Allocated("columns", Row, columns') \subseteq Uses \X Nat \X Nat
      BY <2>3, AllocatedTyped DEF Uses
    <3> QED
      BY <1>4, <2>1, <3>1
  <2>5. \A u \in Uses, r, c \in Nat : <<u, r, c>> \in live' <=>
          \/ <<u, r, c>> \in live
          \/ u = "columns" /\ r = Len(table) + 1 /\ c \in 0..2 /\ (c = 2 => columns' # <<>>)
    <3> TAKE u \in Uses, r, c \in Nat
    <3>1. <<u, r, c>> \in Allocated("columns", Row, columns') <=>
            u = "columns" /\ r = Row /\ c \in 0..2 /\ (c = 2 => columns' # <<>>)
      BY AllocatedHas
    <3> QED
      BY <2>1, <2>3, <3>1
  <2>6. \A u \in Uses, r, c \in Nat : <<u, r, c>> \in live' => Allowed(u, r, c)'
    BY <1>5, <2>1, <2>5 DEF Allowed
  <2>7. ASSUME ~short, NEW u \in Uses, NEW r \in Nat, NEW c \in Nat
        PROVE  <<u, r, c>> \in live' <=> Held(u, r, c)'
    <3>1. <<u, r, c>> \in live <=> Held(u, r, c)
      BY <1>6, <2>7
    <3>2. tpc' \in {"free columns", "column array"} /\ (tpc' = "free columns" <=> columns' = <<>>)
      BY <2>1
    <3>3. Held(u, r, c)' <=> Held(u, r, c)
            \/ (u = "columns" /\ r = Len(table) + 1 /\ c \in 0..2 /\ (c = 2 => columns' # <<>>))
      BY <1>2, <2>1, <2>2, <3>2 DEF Held
    <3> QED
      BY <2>5, <3>1, <3>3
  <2> QED
    BY <2>1, <2>4, <2>6, <2>7, BlocksAre
<1>12. CASE SplitColumnsFails
  <2>1. PICK lost \in LostBySplit("columns", Row, Tokens(Head(rows), Blanks)) :
          live' = live \cup lost
    BY <1>12 DEF SplitColumnsFails
  <2>2. tpc = "columns" /\ tpc' = "columns" /\ short' = TRUE /\ nrows' = nrows /\ rows # <<>>
    BY <1>12 DEF SplitColumnsFails
  <2>3. Row \in Nat
    BY <1>3 DEF Row
  <2>4. lost \subseteq Uses \X Nat \X Nat /\ \A u, r, c : <<u, r, c>> \in lost => u = "columns"
    BY <2>3, LostHas DEF Uses
  <2>5. live' \subseteq Uses \X Nat \X Nat
    BY <1>4, <2>1, <2>4
  <2> QED
    BY <1>5, <2>1, <2>2, <2>4, <2>5, BlocksAre DEF Allowed
<1>13. CASE AllocateColumns
  <2>1. /\ tpc = "column array" /\ live' = live \cup {<<"column", Row, 0>>}
        /\ table' = Append(table, <<>>) /\ tpc' = "items"
        /\ UNCHANGED <<rows, columns, nrows, source, short>>
    BY <1>13 DEF AllocateColumns
  <2>2. Parsed = Len(table) /\ InRows
    BY <2>1 DEF Parsed, InRows
  <2>3. rows # <<>>
    BY <1>1, <2>1, <2>2 DEF RowsInv
  <2>4. Row = Len(table) + 1 /\ Row \in Nat /\ Row <= nrows /\ nrows > 0 /\ Lines # <<>>
    BY <1>10, <2>2, <2>3
  <2>5. /\ Len(table') = Len(table) + 1 /\ table'[Len(table) + 1] = <<>>
        /\ \A r \in 1..Len(table) : table'[r] = table[r]
    <3>1. /\ Len(Append(table, <<>>)) = Len(table) + 1
          /\ \A r \in 1..Len(table) : Append(table, <<>>)[r] = table[r]
          /\ Append(table, <<>>)[Len(table) + 1] = <<>>
      BY <1>3, NothingTyped
    <3> QED
      BY <2>1, <3>1
  <2>6. Parsed' = Len(table)
    <3>1. Parsed' = Len(table') - 1
      BY <2>1 DEF Parsed
    <3> QED
      BY <1>3, <2>5, <3>1
  <2>7. live' \subseteq Uses \X Nat \X Nat
    <3>1. {<<"column", Row, 0>>} \subseteq Uses \X Nat \X Nat
      BY <2>4, BlockIs DEF Uses
    <3> QED
      BY <1>4, <2>1, <3>1
  <2>8. \A u \in Uses, r, c \in Nat : <<u, r, c>> \in live' <=>
          <<u, r, c>> \in live \/ (u = "column" /\ r = Len(table) + 1 /\ c = 0)
    BY <2>1, <2>4
  <2>9. \A r \in Nat : r \in 1..Len(table') <=> r \in 1..Len(table) \/ r = Len(table) + 1
    BY <1>3, <2>5
  <2>10. 1..Len(table'[Len(table) + 1]) = {}
    BY <2>5
  <2>11. \A u \in Uses, r, c \in Nat : <<u, r, c>> \in live' => Allowed(u, r, c)'
    BY <1>5, <2>1, <2>4, <2>8 DEF Allowed
  <2>12. ASSUME ~short, NEW u \in Uses, NEW r \in Nat, NEW c \in Nat
         PROVE  <<u, r, c>> \in live' <=> Held(u, r, c)'
    <3>1. <<u, r, c>> \in live <=> Held(u, r, c)
      BY <1>6, <2>12
    <3>2. r \in 1..Len(table) => r # Len(table) + 1
      BY <1>3
    <3> QED
      BY <1>2, <1>3, <2>1, <2>2, <2>4, <2>5, <2>6, <2>8, <2>9, <2>10, <3>1, <3>2 DEF Held, Uses
  <2> QED
    BY <2>1, <2>7, <2>11, <2>12, BlocksAre
<1>14. CASE CopyItem
  <2> DEFINE m == Len(table)
             k == Len(table[m])
             item == Append(table[m], Head(columns))
  <2>1. /\ tpc = "items" /\ tpc' = "items" /\ columns # <<>>
        /\ table' = [table EXCEPT ![m] = item]
        /\ live' = live \cup {<<"item", m, k + 1>>}
        /\ UNCHANGED <<rows, nrows, source, short>>
    <3>1. m \in 1..Len(table)
      <4>1. table # <<>>
        BY <1>1, <1>14 DEF CopyItem, ColumnsInv
      <4> QED
        BY <1>3, <4>1
    <3> QED
      BY <1>3, <1>14, <3>1 DEF CopyItem
  <2>2. /\ table # <<>> /\ rows # <<>> /\ Parsed + Len(rows) = nrows /\ Parsed = m - 1
        /\ Lines # <<>> /\ nrows > 0
    <3>1. nrows > 0 /\ nrows = Len(Lines)
      BY <1>1, <2>1 DEF RowsInv, InRows
    <3>2. Lines # <<>>
      BY <3>1
    <3> QED
      BY <1>1, <2>1, <3>1, <3>2 DEF RowsInv, ColumnsInv, InRows, Parsed
  <2>3. m \in Nat \ {0} /\ m <= nrows
    <3>1. m \in Nat \ {0} /\ Len(rows) \in Nat \ {0}
      BY <1>3, <2>2
    <3> QED
      BY <1>3, <2>2, <3>1
  <2>4. table[m] \in Seq(Seq(Characters)) /\ k \in Nat
    <3>1. table[m] \in Seq(Seq(Characters))
      BY <1>3, <2>3
    <3> QED
      BY <3>1
  <2>5. Len(item) = k + 1 /\ item # <<>> /\ item \in Seq(Seq(Characters))
    <3>1. columns \in Seq(Seq(Characters))
      BY DEF ParseInv, TableTypeOK
    <3>2. Head(columns) \in Seq(Characters)
      BY <2>1, <3>1
    <3> HIDE DEF m
    <3>3. Len(item) = k + 1 /\ item \in Seq(Seq(Characters))
      BY <2>4, <3>2
    <3> HIDE DEF item, k
    <3>4. item # <<>>
      BY <2>4, <3>3
    <3> QED
      BY <3>3, <3>4
  <2> HIDE DEF item
  <2>6. /\ Len(table') = m /\ table'[m] = item
        /\ \A r \in 1..m : r # m => table'[r] = table[r]
    BY <1>3, <2>1, <2>3, <2>5
  <2> HIDE DEF m, k
  <2>7. Parsed' = Parsed
    BY <2>1, <2>2, <2>6 DEF Parsed, m
  <2>8. live' \subseteq Uses \X Nat \X Nat
    <3>1. {<<"item", m, k + 1>>} \subseteq Uses \X Nat \X Nat
      BY <2>3, <2>4, BlockIs DEF Uses
    <3> QED
      BY <1>4, <2>1, <3>1
  <2>9. \A u \in Uses, r, c \in Nat : <<u, r, c>> \in live' <=>
          <<u, r, c>> \in live \/ (u = "item" /\ r = m /\ c = k + 1)
    BY <2>1
  <2>10. \A u \in Uses, r, c \in Nat : <<u, r, c>> \in live' => Allowed(u, r, c)'
    BY <1>5, <2>1, <2>3, <2>9 DEF Allowed
  <2>11. ASSUME ~short, NEW u \in Uses, NEW r \in Nat, NEW c \in Nat
         PROVE  <<u, r, c>> \in live' <=> Held(u, r, c)'
    <3>1. <<u, r, c>> \in live <=> Held(u, r, c)
      BY <1>6, <2>11
    <3>2. (r \in 1..Len(table') /\ c \in 1..Len(table'[r])) <=>
            (r \in 1..Len(table) /\ c \in 1..Len(table[r])) \/ (r = m /\ c = k + 1)
      <4>1. CASE r = m
        <5>1. /\ Len(table'[r]) = k + 1 /\ Len(table[r]) = k
              /\ r \in 1..Len(table') /\ r \in 1..Len(table)
          BY <2>3, <2>5, <2>6, <4>1 DEF m, k
        <5>2. c \in 1..(k + 1) <=> c \in 1..k \/ c = k + 1
          BY <2>4
        <5> QED
          BY <4>1, <5>1, <5>2
      <4>2. CASE r # m
        BY <2>6, <4>2 DEF m
      <4> QED
        BY <4>1, <4>2
    <3>3. /\ (r \in 1..Len(table') /\ (table'[r] # <<>> \/ r = Len(table')))
             <=> (r \in 1..Len(table) /\ (table[r] # <<>> \/ r = Len(table)))
      BY <2>5, <2>6 DEF m
    <3> QED
      BY <1>2, <2>1, <2>7, <2>9, <3>1, <3>2, <3>3 DEF Held
  <2> QED
    BY <2>1, <2>8, <2>10, <2>11, BlocksAre
<1>15. CASE FreeColumns
  <2>1. /\ live' = live \ SplitBlocks("columns", Len(table')) /\ tpc' = "columns"
        /\ tpc \in {"free columns", "items"} /\ UNCHANGED <<nrows, source, short>>
    BY <1>15 DEF FreeColumns
  <2>2. InRows /\ nrows > 0 /\ Lines # <<>> /\ rows # <<>>
    <3>1. InRows /\ nrows > 0 /\ nrows = Len(Lines) /\ rows # <<>>
      BY <1>1, <2>1 DEF RowsInv, InRows
    <3>2. Lines # <<>>
      BY <3>1
    <3> QED
      BY <3>1, <3>2
  <2>3. live' \subseteq Uses \X Nat \X Nat
    BY <1>4, <2>1
  <2>4. \A u \in Uses, r, c \in Nat : <<u, r, c>> \in live' <=>
          <<u, r, c>> \in live /\ ~(u = "columns" /\ r = Len(table') /\ c \in 0..2)
    <3> TAKE u \in Uses, r, c \in Nat
    <3>1. <<u, r, c>> \in SplitBlocks("columns", Len(table')) <=>
            u = "columns" /\ r = Len(table') /\ c \in 0..2
      BY SplitHas
    <3> QED
      BY <2>1, <3>1
  <2>5. \A u \in Uses, r, c \in Nat : <<u, r, c>> \in live' => Allowed(u, r, c)'
    BY <1>5, <2>1, <2>4 DEF Allowed
  <2>6. /\ Len(table') = Parsed + 1
        /\ \A r \in Nat : (r \in 1..Len(table') /\ table'[r] # <<>>)
             <=> (r \in 1..Len(table) /\ (table[r] # <<>> \/ (tpc = "items" /\ r = Len(table))))
        /\ \A r, c \in Nat : (r \in 1..Len(table') /\ c \in 1..Len(table'[r]))
             <=> (r \in 1..Len(table) /\ c \in 1..Len(table[r]))
    <3>1. CASE tpc = "free columns" /\ table' = Append(table, <<>>)
      <4>1. /\ Len(table') = Len(table) + 1 /\ table'[Len(table) + 1] = <<>>
            /\ \A r \in 1..Len(table) : table'[r] = table[r]
        <5>1. /\ Len(Append(table, <<>>)) = Len(table) + 1
              /\ \A r \in 1..Len(table) : Append(table, <<>>)[r] = table[r]
              /\ Append(table, <<>>)[Len(table) + 1] = <<>>
          BY <1>3, NothingTyped
        <5> QED
          BY <3>1, <5>1
      <4>2. Parsed = Len(table)
        BY <3>1 DEF Parsed
      <4>3. \A r \in Nat : r \in 1..(Len(table) + 1) <=> r \in 1..Len(table) \/ r = Len(table) + 1
        BY <1>3
      <4>4. \A c \in Nat : c \notin 1..Len(table'[Len(table) + 1])
        BY <4>1
      <4>5. tpc # "items"
        BY <3>1
      <4>6. \A r \in Nat : (r \in 1..Len(table') /\ table'[r] # <<>>)
              <=> (r \in 1..Len(table) /\ table[r] # <<>>)
        BY <4>1, <4>3
      <4>7. \A r, c \in Nat : (r \in 1..Len(table') /\ c \in 1..Len(table'[r]))
              <=> (r \in 1..Len(table) /\ c \in 1..Len(table[r]))
        BY <4>1, <4>3, <4>4
      <4> QED
        BY <4>1, <4>2, <4>5, <4>6, <4>7
    <3>2. CASE tpc = "items" /\ columns = <<>> /\ UNCHANGED table
      <4>1. table # <<>> /\ Parsed = Len(table) - 1 /\ table[Len(table)] # <<>>
        <5>1. /\ table # <<>> /\ Words(Len(table)) = table[Len(table)] \o columns
              /\ Words(Len(table)) # <<>> /\ Parsed = Len(table) - 1
          BY <1>1, <3>2 DEF ColumnsInv, Parsed
        <5>2. columns = <<>>
          BY <3>2
        <5> QED
          BY <5>1, <5>2
      <4>2. Len(table) = Parsed + 1
        BY <1>3, <4>1
      <4> QED
        BY <3>2, <4>1, <4>2
    <3> QED
      BY <1>15, <3>1, <3>2 DEF FreeColumns
  <2>7. ASSUME ~short, NEW u \in Uses, NEW r \in Nat, NEW c \in Nat
        PROVE  <<u, r, c>> \in live' <=> Held(u, r, c)'
    <3>1. <<u, r, c>> \in live <=> Held(u, r, c)
      BY <1>6, <2>7
    <3> QED
      BY <1>2, <2>1, <2>2, <2>4, <2>6, <3>1 DEF Held, Uses
  <2> QED
    BY <2>1, <2>3, <2>5, <2>7, BlocksAre
<1>16. CASE FreeRows
  <2>1. /\ live' = live \ SplitBlocks("rows", 0) /\ tpc' = "done"
        /\ tpc \in {"free rows", "columns"} /\ UNCHANGED <<rows, table, nrows, source, short>>
    BY <1>16 DEF FreeRows
  <2>2. live' \subseteq Uses \X Nat \X Nat
    BY <1>4, <2>1
  <2>3. \A u \in Uses, r, c \in Nat : <<u, r, c>> \in live' <=>
          <<u, r, c>> \in live /\ ~(u = "rows" /\ r = 0 /\ c \in 0..2)
    <3> TAKE u \in Uses, r, c \in Nat
    <3>1. <<u, r, c>> \in SplitBlocks("rows", 0) <=> u = "rows" /\ r = 0 /\ c \in 0..2
      BY SplitHas
    <3> QED
      BY <2>1, <3>1
  <2>4. \A u \in Uses, r, c \in Nat : <<u, r, c>> \in live' => Allowed(u, r, c)'
    BY <1>5, <2>1, <2>3 DEF Allowed
  <2>5. ASSUME ~short, NEW u \in Uses, NEW r \in Nat, NEW c \in Nat
        PROVE  <<u, r, c>> \in live' <=> Held(u, r, c)'
    <3>1. <<u, r, c>> \in live <=> Held(u, r, c)
      BY <1>6, <2>5
    <3> QED
      BY <1>2, <2>1, <2>3, <3>1 DEF Held
  <2> QED
    BY <2>1, <2>2, <2>4, <2>5, BlocksAre
<1>17. CASE AllocationFails
  <2>1. live' = live \ TableBlocks /\ tpc' = "failed" /\ short' = TRUE
    BY <1>17 DEF AllocationFails
  <2>2. live' \subseteq Uses \X Nat \X Nat
    BY <1>4, <2>1
  <2>3. ASSUME NEW u \in Uses, NEW r \in Nat, NEW c \in Nat, <<u, r, c>> \in live'
        PROVE  Allowed(u, r, c)'
    <3>1. <<u, r, c>> \in live /\ <<u, r, c>> \notin TableBlocks
      BY <2>1, <2>3
    <3>2. Allowed(u, r, c)
      BY <1>5, <3>1
    <3>3. ~ (\/ u \in {"table", "row"} /\ r = 0 /\ c = 0
             \/ u \in {"column", "item"} /\ r <= nrows)
      BY <1>4, <3>1, TableBlocksHas
    <3> QED
      BY <3>2, <3>3 DEF Allowed
  <2> QED
    BY <2>1, <2>2, <2>3, BlocksAre
<1> QED
  BY <1>7, <1>8, <1>9, <1>11, <1>12, <1>13, <1>14, <1>15, <1>16, <1>17 DEF ParseStep

-----------------------------------------------------------------------------
(* Tables                                                                  *)

TextInv == ParseInv /\ BlocksInv

LEMMA SameText == TextInv /\ UNCHANGED parsing => TextInv'
<1> SUFFICES ASSUME TextInv, UNCHANGED parsing PROVE TextInv'
  OBVIOUS
<1>1. UNCHANGED <<tpc, rows, columns, table, nrows, live, source, short>>
  BY DEF parsing
<1>2. Lines' = Lines /\ (\A r : Words(r)' = Words(r)) /\ Parsed' = Parsed /\ Row' = Row
  BY <1>1, SameSource DEF Parsed, Row
<1>3. ParseInv'
  <2>1. TableTypeOK'
    BY <1>1 DEF TextInv, ParseInv, TableTypeOK
  <2>2. RowsInv'
    BY <1>1, <1>2 DEF TextInv, ParseInv, RowsInv, InRows
  <2>3. ColumnsInv'
    BY <1>1, <1>2 DEF TextInv, ParseInv, ColumnsInv, InRows
  <2> QED
    BY <2>1, <2>2, <2>3 DEF ParseInv
<1>4. BlocksInv'
  <2>1. \A u, r, c : Allowed(u, r, c) <=> Allowed(u, r, c)'
    BY <1>1 DEF Allowed
  <2>2. \A u, r, c : Held(u, r, c) <=> Held(u, r, c)'
    BY <1>1, <1>2 DEF Held
  <2> QED
    BY <1>1, <2>1, <2>2, BlocksAre DEF TextInv, BlocksInv
<1> QED
  BY <1>3, <1>4 DEF TextInv

\* What is parsed is a text.
LEMMA SliceType ==
  ASSUME NEW text \in Strings(MaxText) \cup Sections
  PROVE  SubSeq(text, 1, Copied(Len(text), SliceSize)) \in Seq(Characters)
<1>1. text \in Seq(Characters)
  <2>1. CASE text \in Strings(MaxText)
    BY <2>1, ResultParsingAssumption DEF Strings
  <2>2. CASE text \in Sections
    <3>1. PICK n \in 0..MaxRows : text = Section(n)
      BY <2>2 DEF Sections
    <3> QED
      BY <3>1, SectionAt
  <2> QED
    BY <2>1, <2>2
<1>2. Copied(Len(text), SliceSize) \in 0..Len(text)
  <2>1. Len(text) \in Nat /\ SliceSize \in Nat \ {0}
    BY <1>1, ResultParsingAssumption
  <2> QED
    BY <2>1 DEF Copied
<1> QED
  BY <1>1, <1>2

LEMMA TextPreserved == TextInv /\ [Next]_vars => TextInv'
<1> SUFFICES ASSUME TextInv, [Next]_vars PROVE TextInv'
  OBVIOUS
<1>1. CASE UNCHANGED parsing
  BY <1>1, SameText
<1>2. CASE FindSection
  <2>1. PICK text \in Strings(MaxText) \cup Sections :
          LET slice == SubSeq(text, 1, Copied(Len(text), SliceSize))
          IN  ParseTable(slice) \/ ParseNothing(slice)
    BY <1>2 DEF FindSection
  <2> QED
    BY <2>1, SliceType, ParseTableParses, ParseNothingParses, ParseTableHolds DEF TextInv
<1>3. CASE Parse
  BY <1>3, ParseStepParses, ParseStepHolds DEF Parse, TextInv
<1>4. CASE Leave
  BY <1>4, FreeTableParses, FreeTableHolds DEF Leave, TextInv
<1> QED
  BY <1>1, <1>2, <1>3, <1>4 DEF Next, vars, GetStatus, GetLteinfo, Call, Acquire, AcquireFails,
     NoBuffer, RunInVain, RunBreaks, FindToken, FillNothing, FillServing, FillNeighbours,
     NoMemoryForNeighbours, Crash

LEMMA TextEstablished == Init => TextInv
<1> SUFFICES ASSUME Init PROVE TextInv
  OBVIOUS
<1>1. TableInit
  BY DEF Init
<1>2. ParseInv
  BY <1>1, NothingTyped DEF TableInit, ParseInv, TableTypeOK, RowsInv, ColumnsInv, InRows
<1>3. BlocksInv
  BY <1>1 DEF TableInit, BlocksInv, Held
<1> QED
  BY <1>2, <1>3 DEF TextInv

LEMMA TextTells == TextInv => TableTells
<1> SUFFICES ASSUME TextInv, tpc = "done", ~short
    PROVE  /\ table = ReferenceTable(source) /\ nrows = Len(table)
           /\ live = {<<"table", 0, 0>>}
                     \cup {<<"row", 0, 0>> : r \in DOMAIN table}
                     \cup {<<"column", r, 0>> : r \in {q \in DOMAIN table : table[q] # <<>>}}
                     \cup UNION {{<<"item", r, c>> : c \in DOMAIN table[r]} : r \in DOMAIN table}
  BY DEF TableTells
<1>1. /\ table \in Seq(Seq(Seq(Characters))) /\ source \in Seq(Characters)
  BY DEF TextInv, ParseInv, TableTypeOK
<1>2. nrows = Len(table) /\ nrows = Len(Lines) /\ \A r \in 1..Len(table) : table[r] = Words(r)
  BY DEF TextInv, ParseInv, RowsInv, ColumnsInv, Parsed
<1>3. /\ Len(table) \in Nat /\ DOMAIN table = 1..Len(table)
      /\ \A r \in DOMAIN table : DOMAIN table[r] = 1..Len(table[r])
  BY <1>1
<1>4. table = ReferenceTable(source)
  <2>1. ReferenceTable(source) = [r \in 1..Len(Lines) |-> Words(r)]
    BY <1>1, TableOfTokens DEF Lines, Words
  <2>2. table = [r \in 1..Len(table) |-> table[r]]
    BY <1>1
  <2>3. [r \in 1..Len(table) |-> table[r]] = [r \in 1..Len(table) |-> Words(r)]
    BY <1>2
  <2> QED
    BY <1>2, <2>1, <2>2, <2>3
<1> DEFINE blocks == {<<"table", 0, 0>>}
                     \cup {<<"row", 0, 0>> : r \in DOMAIN table}
                     \cup {<<"column", r, 0>> : r \in {q \in DOMAIN table : table[q] # <<>>}}
                     \cup UNION {{<<"item", r, c>> : c \in DOMAIN table[r]} : r \in DOMAIN table}
<1>5. live \subseteq Uses \X Nat \X Nat
  BY DEF TextInv, BlocksInv
<1>6. \A u \in Uses, r, c \in Nat : <<u, r, c>> \in live <=> Held(u, r, c)
  BY DEF TextInv, BlocksInv
<1>7. blocks \subseteq Uses \X Nat \X Nat
  <2>1. \A r \in DOMAIN table : r \in Nat /\ DOMAIN table[r] \subseteq Nat
    BY <1>3
  <2> QED
    BY <2>1 DEF Uses
<1>8. \A u \in Uses, r, c \in Nat : <<u, r, c>> \in blocks <=>
        \/ u = "table" /\ r = 0 /\ c = 0
        \/ u = "row" /\ r = 0 /\ c = 0 /\ DOMAIN table # {}
        \/ u = "column" /\ c = 0 /\ r \in DOMAIN table /\ table[r] # <<>>
        \/ u = "item" /\ r \in DOMAIN table /\ c \in DOMAIN table[r]
  OBVIOUS
<1> HIDE DEF blocks
<1>9. nrows > 0 <=> DOMAIN table # {}
  BY <1>2, <1>3
<1>10. \A u \in Uses, r, c \in Nat : <<u, r, c>> \in live <=> <<u, r, c>> \in blocks
  <2> TAKE u \in Uses, r, c \in Nat
  <2>1. r \in DOMAIN table => (c \in DOMAIN table[r] <=> c \in 1..Len(table[r]))
    BY <1>3
  <2>2. r \in DOMAIN table <=> r \in 1..Len(table)
    BY <1>3
  <2> QED
    BY <1>6, <1>8, <1>9, <2>1, <2>2 DEF Held
<1>11. live = blocks
  <2>1. ASSUME NEW b \in Uses \X Nat \X Nat PROVE b \in live <=> b \in blocks
    <3>1. PICK u \in Uses, r \in Nat, c \in Nat : b = <<u, r, c>>
      OBVIOUS
    <3> QED
      BY <1>10, <3>1
  <2> QED
    BY <1>5, <1>7, <2>1
<1> QED
  BY <1>2, <1>4, <1>11 DEF blocks

LEMMA TextReleased == TextInv => TableReleased
<1> SUFFICES ASSUME TextInv, tpc = "none"
             PROVE  /\ live # {} => short
                    /\ \A b \in live : b[1] \notin {"table", "row", "column", "item"}
  BY DEF TableReleased
<1>1. live \subseteq Uses \X Nat \X Nat
  BY DEF TextInv, BlocksInv
<1>2. ASSUME NEW b \in live PROVE short /\ b[1] \notin {"table", "row", "column", "item"}
  <2>1. PICK u \in Uses, r \in Nat, c \in Nat : b = <<u, r, c>>
    BY <1>1
  <2>2. Allowed(u, r, c) /\ (~short => Held(u, r, c))
    BY <2>1 DEF TextInv, BlocksInv
  <2> QED
    BY <2>1, <2>2 DEF Allowed, Held
<1> QED
  BY <1>2

\* With enough memory and whatever the modem says, a parsed table has the words
\* of the text, row by row, and is all of the memory of the call.
THEOREM TablesCorrect == Spec => []TableTells
<1> QED
  BY TextEstablished, TextPreserved, TextTells, PTL DEF Spec

\* Whichever allocations fail, no block of a table outlives its call.
THEOREM TablesFreed == Spec => []TableReleased
<1> QED
  BY TextEstablished, TextPreserved, TextReleased, PTL DEF Spec

-----------------------------------------------------------------------------
(* Types                                                                   *)

CallTypeOK ==
  /\ pc \in {"idle", "acquire", "run", "parse", "crashed"}
  /\ pc = "idle" <=> todo = <<>>
  /\ calls \in 0..MaxCalls
  /\ since \in [{"status", "lteinfo"} -> 0..MaxCalls]
  /\ fields \in [{"number", "string"} -> 0..MaxCalls]
  /\ nof \in [Neighbourhoods -> Nat]
  /\ told \in [Neighbourhoods -> Nat \cup {Null}]
  /\ crash \in {"none", "array", "row"}

\* Going on leaves no pattern, or another one to be looked for.
LEMMA ContinueTypes ==
  ASSUME todo \in Seq(Patterns), todo # <<>>, Continue
  PROVE  pc' \in {"idle", "acquire"} /\ (pc' = "idle" <=> todo' = <<>>)
<1>1. Len(todo) \in Nat \ {0} /\ todo' = Tail(todo)
  BY DEF Continue
<1>2. todo' \in Seq(Patterns) /\ Len(todo') = Len(todo) - 1
  BY <1>1
<1>3. todo' = <<>> <=> Len(todo') = 0
  BY <1>2
<1>4. Len(todo) = 1 <=> Len(todo') = 0
  BY <1>1, <1>2
<1> QED
  BY <1>3, <1>4 DEF Continue

\* What is called has patterns to look for.
LEMMA PatternsOfCall ==
  ASSUME NEW s \in {StatusPatterns, SectionPatterns}
  PROVE  s \in Seq(Patterns) /\ s # <<>> /\ \A i, j \in DOMAIN s : s[i] = s[j] => i = j
<1>1. {"number", "string", "serving", "intrafreq"} \subseteq Patterns
  BY ResultParsingAssumption
<1>2. CASE s = <<"number", "string">>
  BY <1>1, <1>2
<1>3. CASE s = <<"serving", "intrafreq">>
  BY <1>1, <1>3
<1>4. CASE "interfreq" \in Patterns /\ s = <<"serving", "intrafreq", "interfreq">>
  BY <1>1, <1>4
<1> QED
  BY <1>2, <1>3, <1>4 DEF StatusPatterns, SectionPatterns

\* A new result is of the call that is made.
LEMMA CallTypes ==
  ASSUME CallTypeOK, NEW s \in {StatusPatterns, SectionPatterns}, Call(s),
         \/ NewStatus /\ UNCHANGED nof
         \/ NewLteinfo /\ UNCHANGED fields
         \/ UNCHANGED <<since, fields, nof>>
  PROVE  CallTypeOK'
<1>1. /\ pc' = "acquire" /\ todo' = s /\ calls' = calls + 1 /\ calls < MaxCalls
      /\ told' = [q \in Neighbourhoods |-> Null] /\ crash' = crash
  BY DEF Call
<1>2. calls' \in 0..MaxCalls
  BY <1>1, ResultParsingAssumption DEF CallTypeOK
<1>3. since' \in [{"status", "lteinfo"} -> 0..MaxCalls]
  BY <1>1, <1>2 DEF CallTypeOK, NewStatus, NewLteinfo
<1>4. fields' \in [{"number", "string"} -> 0..MaxCalls]
  BY <1>2, ResultParsingAssumption DEF CallTypeOK, NewStatus, NewLteinfo, NoFields
<1>5. nof' \in [Neighbourhoods -> Nat]
  BY DEF CallTypeOK, NewStatus, NewLteinfo, NoNeighbours
<1>6. told' \in [Neighbourhoods -> Nat \cup {Null}]
  BY <1>1
<1>7. s # <<>>
  BY PatternsOfCall
<1> QED
  BY <1>1, <1>2, <1>3, <1>4, <1>5, <1>6, <1>7 DEF CallTypeOK

\* What is told of a section in order is how many neighbours it has.
LEMMA FindSectionTells ==
  ASSUME FindSection
  PROVE  \E slice :
           /\ ParseTable(slice) \/ ParseNothing(slice)
           /\ \/ told' = told
              \/ /\ Pattern \in Neighbourhoods
                 /\ \E n \in 0..MaxRows : slice = Section(n) /\ told' = [told EXCEPT ![Pattern] = n]
<1>1. PICK text :
        LET slice == SubSeq(text, 1, Copied(Len(text), SliceSize)) IN
          /\ ParseTable(slice) \/ ParseNothing(slice)
          /\ told' = IF Pattern = "serving" \/ slice \notin Sections \/ slice # text
                     THEN told
                     ELSE [told EXCEPT ![Pattern] = CHOOSE n \in 0..MaxRows : text = Section(n)]
  BY DEF FindSection
<1> DEFINE slice == SubSeq(text, 1, Copied(Len(text), SliceSize))
           n == CHOOSE n \in 0..MaxRows : text = Section(n)
<1>2. /\ ParseTable(slice) \/ ParseNothing(slice)
      /\ told' = IF Pattern = "serving" \/ slice \notin Sections \/ slice # text
                 THEN told ELSE [told EXCEPT ![Pattern] = n]
  BY <1>1
<1>3. slice \in Sections /\ slice = text => n \in 0..MaxRows /\ slice = Section(n)
  BY DEF Sections
<1>4. Pattern \in {"serving"} \cup Neighbourhoods
  BY DEF FindSection
<1> HIDE DEF slice, n
<1> QED
  BY <1>2, <1>3, <1>4

\* A neighbour's row is read in an array of as many.
LEMMA FillTypes ==
  ASSUME FillNeighbours, CallTypeOK, ParseInv
  PROVE  nof' \in [Neighbourhoods -> Nat]
<1>1. nrows \in Nat /\ nrows > 1
  BY DEF FillNeighbours, ParseInv, TableTypeOK
<1>2. nrows - 1 \in Nat
  BY <1>1
<1>3. nof' = nof \/ nof' = [nof EXCEPT ![Pattern] = nrows - 1]
  BY DEF FillNeighbours, Crash, result
<1> QED
  BY <1>2, <1>3 DEF CallTypeOK

LEMMA CallTypesPreserved ==
  ASSUME CallTypeOK, IInv, TextInv, [Next]_vars
  PROVE  CallTypeOK'
<1>1. todo \in Seq(Patterns) /\ (pc \in {"acquire", "run", "parse"} => todo # <<>>)
  BY DEF IInv, MatchInv
<1>2. CASE GetStatus \/ GetLteinfo
  BY <1>2, CallTypes DEF GetStatus, GetLteinfo
<1>3. CASE Acquire
  BY <1>1, <1>3 DEF Acquire, CallTypeOK, result
<1>4. CASE AcquireFails \/ NoBuffer \/ RunInVain \/ RunBreaks
  BY <1>1, <1>4, ContinueTypes
     DEF AcquireFails, NoBuffer, RunInVain, RunBreaks, CallTypeOK, result
<1>5. CASE FindToken
  BY <1>1, <1>5, ContinueTypes DEF FindToken, CallTypeOK
<1>6. CASE FindSection
  <2>1. told' \in [Neighbourhoods -> Nat \cup {Null}]
    BY <1>6, FindSectionTells, ResultParsingAssumption DEF CallTypeOK
  <2> QED
    BY <1>1, <1>6, <2>1 DEF FindSection, CallTypeOK, result
<1>7. CASE Parse
  BY <1>7 DEF Parse, CallTypeOK, result
<1>8. CASE Leave /\ UNCHANGED fields /\ nof' \in [Neighbourhoods -> Nat] /\ pc = "parse"
  <2>1. told' \in [Neighbourhoods -> Nat \cup {Null}]
    BY <1>8 DEF Leave, CallTypeOK
  <2> QED
    BY <1>1, <1>8, <2>1, ContinueTypes DEF Leave, CallTypeOK
<1>9. ASSUME NEW what \in {"array", "row"}, Crash(what), pc = "parse" PROVE CallTypeOK'
  BY <1>1, <1>9 DEF Crash, CallTypeOK, result
<1>10. CASE FillNothing
  BY <1>8, <1>10 DEF FillNothing, result, CallTypeOK
<1>11. CASE FillServing
  BY <1>8, <1>9, <1>11 DEF FillServing, result, CallTypeOK
<1>12. CASE FillNeighbours
  BY <1>8, <1>9, <1>12, FillTypes DEF FillNeighbours, TextInv
<1>13. CASE NoMemoryForNeighbours
  BY <1>9, <1>13 DEF NoMemoryForNeighbours
<1>14. CASE UNCHANGED vars
  BY <1>14 DEF vars, CallTypeOK, result
<1> QED
  BY <1>2, <1>3, <1>4, <1>5, <1>6, <1>7, <1>10, <1>11, <1>12, <1>13, <1>14 DEF Next

-----------------------------------------------------------------------------
(* Results                                                                 *)

\* A pattern the call has not done with.
Pending(s) == \E i \in DOMAIN todo : todo[i] = s

\* A call looks for each pattern once, and fields and results are of calls
\* that were made.
CallInv ==
  /\ \A i, j \in DOMAIN todo : todo[i] = todo[j] => i = j
  /\ since.status <= calls /\ since.lteinfo <= calls
  /\ \A f \in DOMAIN fields : fields[f] = 0 \/ fields[f] >= since.status

\* Until its section has been parsed nothing is told of a pattern, and a new
\* result has no neighbours of it; then what is told is what the result has.
NofInv ==
  pc # "crashed" =>
    \A s \in Neighbourhoods :
      IF Pending(s)
      THEN /\ since.lteinfo = calls => nof[s] = 0
           /\ told[s] # Null =>
                pc = "parse" /\ s = Pattern /\ told[s] \in Nat /\ source = Section(told[s])
      ELSE told[s] # Null /\ (since.lteinfo = calls \/ told[s] > 0) => nof[s] = told[s]

CrashInv == CrashesForAReason /\ (pc # "crashed" => crash = "none")

\* Of a section in order every row is complete.
LEMMA SectionParsed ==
  ASSUME ParseInv, tpc = "done", ~short, NEW n \in Nat, source = Section(n)
  PROVE  nrows = n + 1 /\ \A r \in 1..nrows : Complete(r)
<1>1. nrows = Len(table) /\ nrows = Len(Lines) /\ \A r \in 1..Len(table) : table[r] = Words(r)
  BY DEF ParseInv, RowsInv, ColumnsInv, Parsed
<1>2. Len(Lines) = n + 1 /\ \A r \in 1..(n + 1) : Len(Words(r)) = Columns
  BY SectionInOrder DEF Lines, Words
<1>3. Columns \in Nat
  BY ResultParsingAssumption
<1>4. ASSUME NEW r \in 1..nrows PROVE Complete(r)
  <2>1. table[r] = Words(r) /\ Len(Words(r)) = Columns
    BY <1>1, <1>2
  <2>2. r <= Len(table)
    BY <1>1, <1>2
  <2> QED
    BY <1>3, <2>1, <2>2 DEF Complete
<1> QED
  BY <1>1, <1>2, <1>4

\* Going on, the call has done with the pattern in progress and no other.
LEMMA ContinuePending ==
  ASSUME todo \in Seq(Patterns), todo # <<>>, Continue,
         \A i, j \in DOMAIN todo : todo[i] = todo[j] => i = j
  PROVE  /\ \A i, j \in DOMAIN todo' : todo'[i] = todo'[j] => i = j
         /\ \A s : Pending(s)' <=> Pending(s) /\ s # Pattern
         /\ Pending(Pattern)
<1>1. /\ Len(todo) \in Nat \ {0} /\ todo' = Tail(todo) /\ DOMAIN todo = 1..Len(todo)
      /\ Pattern = todo[1]
  BY DEF Continue, Pattern
<1>2. /\ DOMAIN todo' = 1..(Len(todo) - 1)
      /\ \A i \in 1..(Len(todo) - 1) : todo'[i] = todo[i + 1]
  BY <1>1
<1>3. \A i \in 1..(Len(todo) - 1) : i + 1 \in 1..Len(todo) /\ i + 1 # 1
  BY <1>1
<1>4. \A i \in 1..Len(todo) : i = 1 \/ (i - 1 \in 1..(Len(todo) - 1) /\ (i - 1) + 1 = i)
  BY <1>1
<1>5. ASSUME NEW i \in DOMAIN todo', NEW j \in DOMAIN todo', todo'[i] = todo'[j] PROVE i = j
  <2>1. i + 1 = j + 1 /\ i \in Nat /\ j \in Nat
    BY <1>1, <1>2, <1>3, <1>5
  <2> QED
    BY <2>1
<1>6. 1 \in DOMAIN todo
  BY <1>1
<1>7. \A s : Pending(s)' => Pending(s) /\ s # Pattern
  BY <1>1, <1>2, <1>3, <1>6 DEF Pending
<1>8. \A s : Pending(s) /\ s # Pattern => Pending(s)'
  <2> SUFFICES ASSUME NEW i \in DOMAIN todo, todo[i] # Pattern
               PROVE  \E j \in DOMAIN todo' : todo'[j] = todo[i]
    BY DEF Pending
  <2>1. i - 1 \in 1..(Len(todo) - 1) /\ (i - 1) + 1 = i
    BY <1>1, <1>4
  <2> QED
    BY <1>2, <2>1
<1>9. Pending(Pattern)
  BY <1>1, <1>6 DEF Pending
<1> QED
  BY <1>5, <1>7, <1>8, <1>9

LEMMA PatternPending ==
  ASSUME todo \in Seq(Patterns), todo # <<>>
  PROVE  Pending(Pattern)
<1>1. 1 \in DOMAIN todo /\ Pattern = todo[1]
  BY DEF Pattern
<1> QED
  BY <1>1 DEF Pending

LEMMA CrashPreserved ==
  ASSUME CallTypeOK, TextInv, CrashInv, [Next]_vars
  PROVE  CrashInv'
<1>1. CASE pc = "crashed"
  <2>1. UNCHANGED vars
    BY <1>1 DEF Next, GetStatus, GetLteinfo, Call, Acquire, AcquireFails,
       NoBuffer, RunInVain, RunBreaks, FindToken, FindSection, Parse, FillNothing, FillServing,
       FillNeighbours, NoMemoryForNeighbours
  <2> QED
    BY <2>1 DEF vars, parsing, CrashInv, CrashesForAReason
<1>2. CASE pc # "crashed" /\ UNCHANGED crash
  BY <1>2 DEF CrashInv, CrashesForAReason
<1>3. CASE pc # "crashed" /\ Crash("array")
  BY <1>3 DEF Crash, CrashInv, CrashesForAReason
<1>4. CASE pc # "crashed" /\ Crash("row") /\ (short \/ source \notin Sections)
  BY <1>4 DEF Crash, CrashInv, CrashesForAReason, parsing
<1>5. ASSUME tpc = "done", nrows > 1, \/ ~Complete(2)
                                      \/ ~ \A r \in 2..nrows : Complete(r)
      PROVE  short \/ source \notin Sections
  <2> SUFFICES ASSUME ~short, NEW n \in 0..MaxRows, source = Section(n) PROVE FALSE
    BY DEF Sections
  <2>1. n \in Nat
    BY ResultParsingAssumption
  <2>2. nrows \in Nat /\ \A r \in 1..nrows : Complete(r)
    BY <1>5, <2>1, SectionParsed DEF TextInv, ParseInv, TableTypeOK
  <2>3. 2 \in 1..nrows /\ 2..nrows \subseteq 1..nrows
    BY <1>5, <2>2
  <2> QED
    BY <1>5, <2>2, <2>3
<1>6. CASE FillServing \/ FillNeighbours
  BY <1>2, <1>4, <1>5, <1>6 DEF FillServing, FillNeighbours, Leave
<1>7. CASE NoMemoryForNeighbours
  BY <1>3, <1>7 DEF NoMemoryForNeighbours
<1> QED
  BY <1>1, <1>2, <1>6, <1>7 DEF Next, vars, GetStatus, GetLteinfo, Call, Acquire, AcquireFails,
     NoBuffer, RunInVain, RunBreaks, FindToken, FindSection, Parse, FillNothing, Leave

LEMMA CallPreserved ==
  ASSUME CallTypeOK, IInv, CallInv, [Next]_vars
  PROVE  CallInv'
<1>1. todo \in Seq(Patterns) /\ (pc \in {"acquire", "run", "parse"} => todo # <<>>)
  BY DEF IInv, MatchInv
<1>2. /\ calls \in Nat /\ since.status \in Nat /\ since.lteinfo \in Nat
      /\ since \in [{"status", "lteinfo"} -> 0..MaxCalls]
      /\ fields \in [{"number", "string"} -> 0..MaxCalls]
  BY ResultParsingAssumption DEF CallTypeOK
<1>3. CASE UNCHANGED <<todo, calls, since, fields>>
  BY <1>3 DEF CallInv
<1>4. CASE todo # <<>> /\ Continue /\ UNCHANGED <<calls, since, fields>>
  BY <1>1, <1>4, ContinuePending DEF CallInv
<1>5. CASE FindToken
  <2>1. fields' = [fields EXCEPT ![Pattern] = calls] /\ UNCHANGED <<calls, since>>
    BY <1>5 DEF FindToken
  <2>2. \A f \in DOMAIN fields' : fields'[f] = 0 \/ fields'[f] >= since'.status
    BY <1>2, <2>1 DEF CallInv
  <2> QED
    BY <1>1, <1>5, <2>1, <2>2, ContinuePending DEF CallInv, FindToken
<1>6. CASE GetStatus
  <2>1. /\ todo' = StatusPatterns /\ calls' = calls + 1
        /\ NewStatus \/ UNCHANGED <<since, fields>>
    BY <1>6 DEF GetStatus, Call
  <2>2. \A i, j \in DOMAIN todo' : todo'[i] = todo'[j] => i = j
    BY <2>1, PatternsOfCall
  <2>3. since'.status <= calls' /\ since'.lteinfo <= calls'
    BY <1>2, <2>1 DEF CallInv, NewStatus
  <2>4. \A f \in DOMAIN fields' : fields'[f] = 0 \/ fields'[f] >= since'.status
    BY <1>2, <2>1 DEF CallInv, NewStatus, NoFields
  <2> QED
    BY <2>2, <2>3, <2>4 DEF CallInv
<1>7. CASE GetLteinfo
  <2>1. /\ todo' = SectionPatterns /\ calls' = calls + 1 /\ fields' = fields
        /\ NewLteinfo \/ UNCHANGED since
    BY <1>7 DEF GetLteinfo, Call
  <2>2. \A i, j \in DOMAIN todo' : todo'[i] = todo'[j] => i = j
    BY <2>1, PatternsOfCall
  <2>3. since'.status <= calls' /\ since'.lteinfo <= calls' /\ since'.status = since.status
    BY <1>2, <2>1 DEF CallInv, NewLteinfo
  <2> QED
    BY <2>1, <2>2, <2>3 DEF CallInv
<1> QED
  BY <1>1, <1>3, <1>4, <1>5, <1>6, <1>7 DEF Next, vars, Acquire, AcquireFails, result,
     NoBuffer, RunInVain, RunBreaks, FindSection, Parse, FillNothing, FillServing,
     FillNeighbours, NoMemoryForNeighbours, Leave, Crash

\* What has been parsed of the section is copied, or has no neighbours.
LEMMA LeaveTells ==
  ASSUME CallTypeOK, IInv, TextInv, CallInv, NofInv, pc = "parse", Leave,
         \/ tpc = "failed" /\ UNCHANGED nof
         \/ tpc = "done" /\ nrows <= 1 /\ UNCHANGED nof
         \/ Pattern \notin Neighbourhoods /\ UNCHANGED nof
         \/ /\ tpc = "done" /\ Pattern \in Neighbourhoods
            /\ nof' = [nof EXCEPT ![Pattern] = nrows - 1]
  PROVE  NofInv'
<1>1. todo \in Seq(Patterns) /\ todo # <<>>
  BY DEF IInv, MatchInv
<1>2. /\ \A s : Pending(s)' <=> Pending(s) /\ s # Pattern
      /\ Pending(Pattern)
  BY <1>1, ContinuePending DEF Leave, CallInv
<1>3. /\ since' = since /\ calls' = calls
      /\ told' = [s \in Neighbourhoods |-> IF s = Pattern /\ short THEN Null ELSE told[s]]
  BY DEF Leave
<1>4. nof \in [Neighbourhoods -> Nat]
  BY DEF CallTypeOK
<1>5. \A s \in Neighbourhoods : s # Pattern => told'[s] = told[s] /\ nof'[s] = nof[s]
  BY <1>3, <1>4
<1>6. \A s \in Neighbourhoods :
        Pending(s) => /\ since.lteinfo = calls => nof[s] = 0
                      /\ told[s] # Null =>
                           s = Pattern /\ told[s] \in Nat /\ source = Section(told[s])
  BY DEF NofInv
<1>7. \A s \in Neighbourhoods :
        ~Pending(s) =>
          (told[s] # Null /\ (since.lteinfo = calls \/ told[s] > 0) => nof[s] = told[s])
  BY DEF NofInv
<1>8. ASSUME NEW s \in Neighbourhoods, s = Pattern, told'[s] # Null,
             since.lteinfo = calls \/ told'[s] > 0
      PROVE  nof'[s] = told'[s]
  <2>1. ~short /\ told'[s] = told[s]
    BY <1>3, <1>8
  <2>2. PICK n \in Nat : told[s] = n /\ source = Section(n)
    BY <1>2, <1>6, <1>8, <2>1
  <2>3. tpc # "failed"
    BY <2>1 DEF TextInv, ParseInv, RowsInv
  <2>4. tpc = "done"
    BY <1>8, <2>3
  <2>5. nrows = n + 1
    BY <2>1, <2>2, <2>4, SectionParsed DEF TextInv
  <2>6. CASE UNCHANGED nof /\ nrows <= 1
    <3>1. n = 0
      BY <2>5, <2>6
    <3>2. since.lteinfo = calls
      BY <1>8, <2>1, <2>2, <3>1
    <3>3. nof[s] = 0
      BY <1>2, <1>6, <1>8, <3>2
    <3> QED
      BY <2>1, <2>2, <2>6, <3>1, <3>3
  <2>7. CASE nof' = [nof EXCEPT ![Pattern] = nrows - 1]
    BY <1>4, <1>8, <2>1, <2>2, <2>5, <2>7
  <2> QED
    BY <1>8, <2>3, <2>6, <2>7
<1>9. ASSUME NEW s \in Neighbourhoods, Pending(s)'
      PROVE  (since'.lteinfo = calls' => nof'[s] = 0) /\ told'[s] = Null
  <2>1. s # Pattern /\ Pending(s)
    BY <1>2, <1>9
  <2> QED
    BY <1>3, <1>5, <1>6, <2>1
<1>10. ASSUME NEW s \in Neighbourhoods, ~Pending(s)', told'[s] # Null,
              since.lteinfo = calls \/ told'[s] > 0
       PROVE  nof'[s] = told'[s]
  <2>1. CASE s = Pattern
    BY <1>8, <1>10, <2>1
  <2>2. CASE s # Pattern
    BY <1>2, <1>5, <1>7, <1>10, <2>2
  <2> QED
    BY <2>1, <2>2
<1> QED
  BY <1>3, <1>9, <1>10 DEF NofInv

LEMMA NofPreserved ==
  ASSUME CallTypeOK, IInv, TextInv, CallInv, NofInv, [Next]_vars
  PROVE  NofInv'
<1>1. todo \in Seq(Patterns) /\ (pc \in {"acquire", "run", "parse"} => todo # <<>>)
  BY DEF IInv, MatchInv
<1>2. ASSUME pc \notin {"crashed", "parse"}
      PROVE  \A s \in Neighbourhoods :
               IF Pending(s) THEN told[s] = Null /\ (since.lteinfo = calls => nof[s] = 0)
               ELSE told[s] # Null /\ (since.lteinfo = calls \/ told[s] > 0) => nof[s] = told[s]
  BY <1>2 DEF NofInv
<1>3. CASE pc' = "crashed"
  BY <1>3 DEF NofInv
<1>4. CASE /\ UNCHANGED <<todo, told, nof, since, calls>>
           /\ pc \notin {"crashed", "parse"} \/ UNCHANGED <<pc, source>>
  BY <1>2, <1>4 DEF NofInv, Pending, Pattern
<1>5. CASE /\ pc \in {"acquire", "run"} /\ Continue /\ UNCHANGED <<told, nof, since, calls>>
  <2>1. \A s : Pending(s)' <=> Pending(s) /\ s # Pattern
    BY <1>1, <1>5, ContinuePending DEF CallInv
  <2>2. Pending(Pattern)
    BY <1>1, <1>5, PatternPending
  <2> QED
    BY <1>2, <1>5, <2>1, <2>2 DEF NofInv
<1>6. CASE GetStatus \/ GetLteinfo
  <2>1. /\ calls' = calls + 1 /\ told' = [s \in Neighbourhoods |-> Null]
        /\ \/ nof' = NoNeighbours
           \/ since'.lteinfo = since.lteinfo
    BY <1>6 DEF GetStatus, GetLteinfo, Call, NewStatus, NewLteinfo, CallTypeOK
  <2>2. since.lteinfo <= calls /\ since.lteinfo \in Nat /\ calls \in Nat
    BY ResultParsingAssumption DEF CallInv, CallTypeOK
  <2>3. since'.lteinfo = calls' => nof' = NoNeighbours
    BY <2>1, <2>2
  <2> QED
    BY <2>1, <2>3 DEF NofInv, NoNeighbours
<1>7. CASE FindSection
  <2>1. /\ pc = "run" /\ pc' = "parse" /\ UNCHANGED <<todo, calls, since, nof>>
    BY <1>7 DEF FindSection, result
  <2>2. PICK slice :
           /\ ParseTable(slice) \/ ParseNothing(slice)
           /\ \/ told' = told
              \/ /\ Pattern \in Neighbourhoods
                 /\ \E n \in 0..MaxRows : slice = Section(n) /\ told' = [told EXCEPT ![Pattern] = n]
    BY <1>7, FindSectionTells
  <2>3. source' = slice
    BY <2>2 DEF ParseTable, ParseNothing
  <2>4. (\A s : Pending(s)' <=> Pending(s)) /\ Pattern' = Pattern
    BY <2>1 DEF Pending, Pattern
  <2>5. Pending(Pattern)
    BY <1>1, <2>1, PatternPending
  <2>6. CASE told' = told
    BY <1>2, <2>1, <2>4, <2>6 DEF NofInv
  <2>7. ASSUME NEW n \in 0..MaxRows, slice = Section(n), Pattern \in Neighbourhoods,
               told' = [told EXCEPT ![Pattern] = n]
        PROVE  NofInv'
    <3>1. \A s \in Neighbourhoods : told'[s] = IF s = Pattern THEN n ELSE told[s]
      BY <2>7 DEF CallTypeOK
    <3>2. n \in Nat
      BY ResultParsingAssumption
    <3>3. told'[Pattern] = n /\ source' = Section(told'[Pattern]) /\ told'[Pattern] \in Nat
      BY <2>3, <2>7, <3>1, <3>2
    <3>4. \A s \in Neighbourhoods : s # Pattern => told'[s] = told[s]
      BY <3>1
    <3> QED
      BY <1>2, <2>1, <2>4, <2>5, <3>3, <3>4 DEF NofInv
  <2> QED
    BY <2>2, <2>6, <2>7
<1>8. CASE Parse
  <2>1. source' = source
    BY <1>8, SameSource DEF Parse, ParseStep, SplitRows, SplitRowsFails, AllocateRows,
       SplitColumns, SplitColumnsFails, AllocateColumns, CopyItem, FreeColumns, FreeRows,
       AllocationFails
  <2>2. UNCHANGED <<pc, todo, told, nof, since, calls>>
    BY <1>8 DEF Parse, result
  <2> QED
    BY <1>4, <1>8, <2>1, <2>2
<1>9. CASE FillNothing
  BY <1>9, LeaveTells DEF FillNothing, result
<1>10. CASE FillServing
  <2>1. Pattern \notin Neighbourhoods
    BY <1>10 DEF FillServing, Neighbourhoods
  <2> QED
    BY <1>3, <1>10, <2>1, LeaveTells DEF FillServing, result, Crash
<1>11. CASE FillNeighbours
  BY <1>3, <1>11, LeaveTells DEF FillNeighbours, Crash
<1>12. CASE UNCHANGED vars
  BY <1>4, <1>12 DEF vars, result, parsing
<1> QED
  BY <1>3, <1>4, <1>5, <1>6, <1>7, <1>8, <1>9, <1>10, <1>11, <1>12 DEF Next, Acquire, result,
     AcquireFails, NoBuffer, RunInVain, RunBreaks, FindToken, NoMemoryForNeighbours, Crash

LEMMA ResultTells ==
  ASSUME CallTypeOK, CallInv, NofInv
  PROVE  ResultOfThisAnswer
<1>1. ASSUME pc = "idle", NEW s PROVE ~Pending(s)
  <2>1. todo = <<>>
    BY <1>1 DEF CallTypeOK
  <2> QED
    BY <2>1 DEF Pending
<1> QED
  BY <1>1 DEF CallInv, NofInv, ResultOfThisAnswer

FullInv == IInv /\ CallTypeOK /\ TextInv /\ CallInv /\ NofInv /\ CrashInv

LEMMA FullEstablished == Init => FullInv
<1> SUFFICES ASSUME Init PROVE FullInv
  OBVIOUS
<1>1. \A s \in Neighbourhoods : told[s] = Null
  BY DEF Init
<1>2. CallTypeOK
  BY ResultParsingAssumption DEF Init, CallTypeOK, NoFields, NoNeighbours
<1>3. CallInv
  BY ResultParsingAssumption DEF Init, CallInv, NoFields
<1>4. NofInv
  BY <1>1 DEF Init, NofInv, Pending
<1>5. CrashInv
  BY DEF Init, CrashInv, CrashesForAReason
<1> QED
  BY <1>2, <1>3, <1>4, <1>5, InitEstablishes, TextEstablished DEF FullInv

LEMMA FullPreserved == FullInv /\ [Next]_vars => FullInv'
BY NextPreserves, TextPreserved, CallTypesPreserved, CallPreserved, NofPreserved, CrashPreserved
   DEF FullInv

LEMMA FullTells == FullInv => TypeOK /\ CrashesForAReason /\ ResultOfThisAnswer
BY ResultTells DEF FullInv, IInv, CallTypeOK, TypeOK, TextInv, ParseInv, CrashInv

\* Every variable keeps its type, whatever is found and whatever fails.
THEOREM TypeCorrect == Spec => []TypeOK
<1> QED
  BY FullEstablished, FullPreserved, FullTells, PTL DEF Spec

\* A call never reads beyond a row of a section that is in order and was parsed
\* with enough memory, however many columns and neighbours it has.
THEOREM RowsComplete == Spec => []CrashesForAReason
<1> QED
  BY FullEstablished, FullPreserved, FullTells, PTL DEF Spec

\* The fields of a status are of calls since it was allocated, and a section in
\* order is what its result has of it, over any number of calls.
THEOREM ResultsCorrect == Spec => []ResultOfThisAnswer
<1> QED
  BY FullEstablished, FullPreserved, FullTells, PTL DEF Spec

=============================================================================
