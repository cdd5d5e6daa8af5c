----------------------------- MODULE RegexCache -----------------------------
(***************************************************************************)
(* Matching with cached automata (src/src/cmnalib/src/util/tokenfind.c):   *)
(* a pattern is compiled when it is first needed, and the automaton is     *)
(* kept in a static variable of the driver's function, one for each        *)
(* pattern, until the process ends or its execution fails.  All drivers    *)
(* pass a cache.  The matching itself is the C library's.                  *)
(*                                                                         *)
(* A match takes two steps, getting an automaton and running it, which a   *)
(* composing module puts in order.                                         *)
(***************************************************************************)
EXTENDS Naturals

CONSTANTS
  Patterns,   \* the patterns, each with a cache of its own
  Addresses,  \* where automata can be allocated: no free one, no memory
  Null        \* the null pointer, and what is at an address that is free

VARIABLES
  cache,     \* regex_cache of each pattern
  automata,  \* heap: the pattern whose automaton is at an address
  regex      \* automaton of the match in progress

regexes == <<cache, automata, regex>>

RegexTypeOK ==
  /\ cache \in [Patterns -> Addresses \cup {Null}]
  /\ automata \in [Addresses -> Patterns \cup {Null}]
  /\ regex \in Addresses \cup {Null}

RegexInit ==
  /\ cache = [p \in Patterns |-> Null]
  /\ automata = [a \in Addresses |-> Null]
  /\ regex = Null

Reuse(p) ==
  /\ cache[p] # Null
  /\ regex' = cache[p]
  /\ UNCHANGED <<cache, automata>>

Compile(p) ==
  /\ cache[p] = Null
  /\ \E a \in Addresses :
       /\ automata[a] = Null
       /\ automata' = [automata EXCEPT ![a] = p]
       /\ cache' = [cache EXCEPT ![p] = a]
       /\ regex' = a

\* No memory for an automaton, or the pattern does not compile: the match
\* fails, and what was allocated is freed again.
NoAutomaton(p) ==
  /\ cache[p] = Null
  /\ UNCHANGED regexes

\* The automaton ran; it stays in the cache whether it matched or not.
Ran ==
  /\ regex' = Null
  /\ UNCHANGED <<cache, automata>>

\* Mutant: the freed automaton is not forgotten.
RunFailsKeepingCache(p) ==
  /\ automata' = [automata EXCEPT ![regex] = Null]
  /\ regex' = Null
  /\ UNCHANGED cache

\* The C library had an error (it is out of memory): the automaton is freed
\* and forgotten.
RunFails(p) ==
  /\ automata' = [automata EXCEPT ![regex] = Null]
  /\ cache' = [cache EXCEPT ![p] = Null]
  /\ regex' = Null

-----------------------------------------------------------------------------

\* An automaton that a cache refers to exists and is the one of that cache's
\* own pattern, and no automaton is lost, over all calls and errors.  (An
\* error of regexec frees it, tokenfind.c:321-327; a reused address would be
\* another pattern's.)
CachesSound ==
  \A p \in Patterns, a \in Addresses : cache[p] = a <=> automata[a] = p

=============================================================================
