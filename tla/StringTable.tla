---------------------------- MODULE StringTable ----------------------------
(***************************************************************************)
(* tokenfind_split_string and tokenfind_parse_table                        *)
(* (src/src/cmnalib/src/util/tokenfind.c): a text is cut into rows, each   *)
(* row into columns, and the columns are copied into a table.  Every       *)
(* allocation may fail; some failures end the parsing, others leave an     *)
(* empty table or an empty row.                                            *)
(*                                                                         *)
(* A text is a sequence over "word" (any character of a word), "blank" and *)
(* "newline".  A block of memory is <<use, row, column>> if it is of the   *)
(* table, and <<use, row, part>> if it is of a list of tokens.             *)
(***************************************************************************)
EXTENDS Naturals, Sequences, FiniteSets

Characters == {"word", "blank", "newline"}

LineEnds == {"newline"}
Blanks == {"blank"}

VARIABLES
  tpc,      \* where tokenfind_parse_table is, "none" when not called
  rows,     \* the tokens of the text, or of what is left to be parsed
  columns,  \* the tokens of the current row that are left to be copied
  table,    \* the rows copied so far, each a sequence of strings
  nrows,    \* n_rows of the table
  live,     \* heap: the blocks allocated by the call and not freed
  source,   \* history: the text
  short     \* history: an allocation has failed since the call

parsing == <<tpc, rows, columns, table, nrows, live, source, short>>

Strings(n) == UNION {[1..k -> Characters] : k \in 0..n}

TableTypeOK ==
  /\ tpc \in {"none", "rows", "row array", "columns", "column array", "items",
             "free columns", "free rows", "done", "failed"}
  /\ rows \in Seq(Seq(Characters)) /\ columns \in Seq(Seq(Characters))
  /\ table \in Seq(Seq(Seq(Characters))) /\ nrows \in Nat
  /\ source \in Seq(Characters) /\ short \in BOOLEAN

TableInit ==
  /\ tpc = "none"
  /\ rows = <<>> /\ columns = <<>> /\ table = <<>> /\ nrows = 0
  /\ live = {} /\ source = <<>> /\ short = FALSE

-----------------------------------------------------------------------------
(* tokenfind_split_string                                                  *)

FirstFrom(s, i, C) ==
  LET found == {k \in i..Len(s) : s[k] \in C}
  IN IF found = {} THEN Len(s) + 1 ELSE CHOOSE k \in found : \A l \in found : k <= l

\* strtok_r() from each position on: it skips delimiters, and ends a token at
\* the next one.
Tokens(s, delimiter) ==
  LET from[i \in 1..(Len(s) + 2)] ==
        LET start == FirstFrom(s, i, Characters \ delimiter)
            end == FirstFrom(s, start, delimiter)
        IN IF start > Len(s) THEN <<>>
           ELSE <<SubSeq(s, start, end - 1)>> \o from[end + 1]
  IN from[1]

\* The structure, its strbuf and its array of tokens.
SplitBlocks(use, r) == {<<use, r, part>> : part \in 0..2}

\* What a split s allocates; without a token there is no array of tokens.
Allocated(use, r, s) ==
  IF s = <<>> THEN SplitBlocks(use, r) \ {<<use, r, 2>>}
  ELSE SplitBlocks(use, r)

\* A failing realloc overwrites the pointer to the array it could not extend.
LostBySplit(use, r, s) ==
  {{}} \cup IF Len(s) > 1 THEN {{<<use, r, 2>>}} ELSE {}

-----------------------------------------------------------------------------
(* tokenfind_parse_table                                                   *)

ParseTable(text) ==
  /\ tpc = "none"
  /\ tpc' = "rows"
  /\ rows' = Tokens(text, LineEnds)
  /\ columns' = <<>> /\ table' = <<>> /\ nrows' = 0
  /\ live' = {<<"table", 0, 0>>}
  /\ source' = text
  /\ short' = FALSE

\* No memory for the table itself: there is none.
ParseNothing(text) ==
  /\ tpc = "none"
  /\ tpc' = "failed"
  /\ live' = {}
  /\ source' = text
  /\ short' = TRUE
  /\ UNCHANGED <<rows, columns, table, nrows>>

SplitRows ==
  /\ tpc = "rows"
  /\ live' = live \cup Allocated("rows", 0, rows)
  /\ tpc' = IF rows = <<>> THEN "free rows" ELSE "row array"
  /\ UNCHANGED <<rows, columns, table, nrows, source, short>>

\* The table is returned without a row.
SplitRowsFails ==
  /\ tpc = "rows"
  /\ \E lost \in LostBySplit("rows", 0, rows) : live' = live \cup lost
  /\ tpc' = "done"
  /\ short' = TRUE
  /\ UNCHANGED <<rows, columns, table, nrows, source>>

\* Mutant: the rows are not counted before they are filled.
AllocateRowsUncounted ==
  /\ tpc = "row array"
  /\ live' = live \cup {<<"row", 0, 0>>}
  /\ tpc' = "columns"
  /\ UNCHANGED <<rows, columns, table, nrows, source, short>>

AllocateRows ==
  /\ tpc = "row array"
  /\ live' = live \cup {<<"row", 0, 0>>}
  /\ nrows' = Len(rows)
  /\ tpc' = "columns"
  /\ UNCHANGED <<rows, columns, table, source, short>>

\* The row being parsed.
Row == Len(table) + 1

SplitColumns ==
  /\ tpc = "columns"
  /\ rows # <<>>
  /\ columns' = Tokens(Head(rows), Blanks)
  /\ live' = live \cup Allocated("columns", Row, columns')
  /\ tpc' = IF columns' = <<>> THEN "free columns" ELSE "column array"
  /\ UNCHANGED <<rows, table, nrows, source, short>>

\* The row is left empty, and the next one is parsed.
SplitColumnsFails ==
  /\ tpc = "columns"
  /\ rows # <<>>
  /\ \E lost \in LostBySplit("columns", Row, Tokens(Head(rows), Blanks)) :
       live' = live \cup lost
  /\ rows' = Tail(rows)
  /\ table' = Append(table, <<>>)
  /\ short' = TRUE
  /\ UNCHANGED <<tpc, columns, nrows, source>>

AllocateColumns ==
  /\ tpc = "column array"
  /\ live' = live \cup {<<"column", Row, 0>>}
  /\ table' = Append(table, <<>>)
  /\ tpc' = "items"
  /\ UNCHANGED <<rows, columns, nrows, source, short>>

\* Mutant: the item is the token itself, not a copy.
CopyPointer ==
  /\ tpc = "items"
  /\ columns # <<>>
  /\ table' = [table EXCEPT ![Len(table)] = Append(@, Head(columns))]
  /\ columns' = Tail(columns)
  /\ UNCHANGED <<tpc, rows, nrows, live, source, short>>

CopyItem ==
  /\ tpc = "items"
  /\ columns # <<>>
  /\ table' = [table EXCEPT ![Len(table)] = Append(@, Head(columns))]
  /\ columns' = Tail(columns)
  /\ live' = live \cup {<<"item", Len(table), Len(table[Len(table)]) + 1>>}
  /\ UNCHANGED <<tpc, rows, nrows, source, short>>

FreeColumns ==
  /\ \/ tpc = "free columns" /\ table' = Append(table, <<>>)
     \/ tpc = "items" /\ columns = <<>> /\ UNCHANGED table
  /\ live' = live \ SplitBlocks("columns", Len(table'))
  /\ rows' = Tail(rows)
  /\ tpc' = "columns"
  /\ UNCHANGED <<columns, nrows, source, short>>

FreeRows ==
  /\ \/ tpc = "free rows"
     \/ tpc = "columns" /\ rows = <<>>
  /\ live' = live \ SplitBlocks("rows", 0)
  /\ tpc' = "done"
  /\ UNCHANGED <<rows, columns, table, nrows, source, short>>

\* What tokenfind_free_table frees: it goes through nrows rows.
TableBlocks ==
  {<<"table", 0, 0>>, <<"row", 0, 0>>} \cup
  {b \in live : b[1] \in {"column", "item"} /\ b[2] <= nrows}

\* An allocation of the table fails: it is freed, the tokens are not.
AllocationFails ==
  /\ \/ tpc \in {"row array", "column array"}
     \/ tpc = "items" /\ columns # <<>>
  /\ live' = live \ TableBlocks
  /\ tpc' = "failed"
  /\ short' = TRUE
  /\ UNCHANGED <<rows, columns, table, nrows, source>>

ParseStep ==
  \/ SplitRows \/ SplitRowsFails \/ AllocateRows
  \/ SplitColumns \/ SplitColumnsFails \/ AllocateColumns
  \/ CopyItem \/ FreeColumns \/ FreeRows \/ AllocationFails

\* tokenfind_free_table, which does nothing without a table.
FreeTable ==
  /\ tpc \in {"done", "failed"}
  /\ live' = IF tpc = "done" THEN live \ TableBlocks ELSE live
  /\ tpc' = "none"
  /\ rows' = <<>> /\ columns' = <<>> /\ table' = <<>> /\ nrows' = 0
  /\ UNCHANGED <<source, short>>

-----------------------------------------------------------------------------

\* A reference for the parser: the words of the whole text, each in the line
\* that contains it.
Runs(s, C) ==
  {r \in (1..Len(s)) \X (1..Len(s)) :
     /\ r[1] <= r[2] /\ \A k \in r[1]..r[2] : s[k] \in C
     /\ r[1] = 1 \/ s[r[1] - 1] \notin C
     /\ r[2] = Len(s) \/ s[r[2] + 1] \notin C}

\* Runs in the order of the text.
Nth(R, n) == CHOOSE x \in R : Cardinality({y \in R : y[1] <= x[1]}) = n

ReferenceTable(s) ==
  LET lines == Runs(s, Characters \ LineEnds)
      words(l) == {w \in Runs(s, {"word"}) : l[1] <= w[1] /\ w[2] <= l[2]}
  IN [r \in 1..Cardinality(lines) |->
        LET W == words(Nth(lines, r))
        IN [c \in 1..Cardinality(W) |-> SubSeq(s, Nth(W, c)[1], Nth(W, c)[2])]]

\* With enough memory a parsed table has the words of the text and nothing
\* else, row by row, and every word in memory of its own: it does not refer
\* to the tokens, which are freed by then (tokenfind.c:427-434).
TableTells ==
  tpc = "done" /\ ~short =>
    /\ table = ReferenceTable(source)
    /\ nrows = Len(table)
    /\ live = {<<"table", 0, 0>>}
              \cup {<<"row", 0, 0>> : r \in DOMAIN table}
              \cup {<<"column", r, 0>> : r \in {q \in DOMAIN table : table[q] # <<>>}}
              \cup UNION {{<<"item", r, c>> : c \in DOMAIN table[r]} : r \in DOMAIN table}

\* However many allocations fail, and wherever, what has become of the table
\* is freed completely; all that can be left, and only after a failure, are
\* the tokens (tokenfind.c:407-437 does not free them).
TableReleased ==
  tpc = "none" =>
    /\ live # {} => short
    /\ \A b \in live : b[1] \notin {"table", "row", "column", "item"}

=============================================================================
