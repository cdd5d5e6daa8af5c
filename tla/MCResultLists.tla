---------------------------- MODULE MCResultLists ----------------------------
(***************************************************************************)
(* Files of recorded exchanges for ResultLists: answers of the shapes that *)
(* the modem gives, with every number of profiles up to one more than the  *)
(* lists have room for, every kind of row of networks, refusals, and files *)
(* that end within an answer.                                              *)
(***************************************************************************)
EXTENDS ResultLists

CONSTANT MaxExchanges  \* bound: commands with answers in a file

ProfileAnswers ==
  {<<"title", "profile", "OK">>, <<"title", "profile", "heading", "OK">>,
   <<"title", "profile", "profile", "heading", "heading", "OK">>,
   <<"title", "profile", "profile", "profile", "heading", "OK">>,
   <<"title", "heading", "OK">>}

Answers(c) ==
  {<<"OK">>, <<"ERROR">>} \cup
  (IF c = "at+cops=?" THEN {<<l, "OK">> : l \in DOMAIN Marks} ELSE ProfileAnswers)

Exchanges == UNION {{<<c>> \o a : a \in Answers(c)} : c \in Commands}

\* Files of exchanges, the last of which may be missing its end.
Scripts ==
  LET whole == UNION {{FlattenSeq(e) : e \in [1..n -> Exchanges]} : n \in 1..MaxExchanges}
  IN whole \cup {SubSeq(e, 1, Len(e) - 1) : e \in Exchanges}

=============================================================================
