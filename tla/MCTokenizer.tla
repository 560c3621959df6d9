----------------------------- MODULE MCTokenizer -----------------------------
EXTENDS Tokenizer
(* Every text of three characters that a numeral is made or ended by, and  *)
(* some longer ones.                                                       *)
SomeTexts ==
  [1..3 -> {"0", "7", "x", "-", " "}]
    \cup { <<"0", "x", "a", " ">>, <<"-", "0", "x", "a", " ">>, <<"0", "7", "x", "7">>,
           <<"7", " ", "-", "7", " ">>, <<"0", "x", "7", "-", "a">>, <<"7", "0", "a", " ">> }
Order == <<"user", "int", "user">>
Handlers == <<2, 1, 0>>
=============================================================================
