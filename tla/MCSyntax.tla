------------------------------ MODULE MCSyntax ------------------------------
(***************************************************************************)
(* Programs of two statements, one of them for each production of the      *)
(* grammar, and the atoms an edit inserts.                                 *)
(***************************************************************************)
EXTENDS Syntax

Quote(word) == <<"\"", word, "\"">>
Let(name, body) == <<name, "=">> \o body \o <<";">>
Rest == <<"q", "=", "-", "a", ";">>
Beside(statement) == <<statement, Rest>>
P(body) == Beside(Let("p", body))

Operators == {
  P(<<"(", "a", "+", "1", ")", "*", "b", ".", "c", "'">>),
  P(<<"(", "a", ":", "b", ")", ":", "c", "-", "-", "1">>),
  P(<<"a", "<", ":", "b", "+", ">", "(", "c", ",", "d", ")", "~", "_">>),
  P(<<"f", "(", "a", ",", "(", "b", ",", "c", ")", ")", "(", "1", ")">>),
  P(<<"a", "-", "(", "b", "-", "c", ")", "<", "=", "-", "d", "@", ".", "5">>) }

Definitions == {
  << <<"f", "(", "0", ")", "=", "1", ";">>, <<"f", "(", "x", ",", "y", ")", "=", "x", ";">> >>,
  << <<"singleprecision", " ", "p", "=", "1", ";">>, <<"p", "=", "2", ";">> >>,
  Beside(<<"import", "(">> \o Quote("lib") \o <<")", ";">>),
  << <<"declare", " ", "name">> \o Quote("n") \o <<";">>, <<"declare", " ", "f", " ", "k">> \o Quote("v") \o <<";">> >> }

Blocks == {
  P(<<"a", " ", "with", "{">> \o Let("a", <<"(", "b", ")">>) \o <<"}">>),
  P(<<"a", " ", "letrec", "{", "'">> \o Let("a", <<"b">>) \o <<"where", " ">> \o Let("b", <<"1">>) \o <<"}">>),
  P(<<"a", "[">> \o Let("b", <<"1">>) \o Let("c", <<"2">>) \o <<"]">>),
  P(<<"case", "{", "(", "0", ",", "x", ")", "=", ">", "1", ";", "(", "y", ",", "z", ")", "=", ">", "y", ";", "}">>),
  P(<<"environment", "{">> \o Let("a", <<"1">>) \o Let("b", <<"a">>) \o <<"}">>),
  P(<<"\\", "(", "x", ",", "y", ")", ".", "(", "x", "+", "y", ")">>),
  P(<<"[">> \o Quote("g") \o <<":", "x", "-", ">", "h", "]">>) }

Constructs == {
  P(<<"waveform", "{", "1", ",", "-", "2", ",", "1", "f", "}">>),
  P(<<"route", "(", "1", ",", "2", ",", "a", ",", "b", ")">>),
  P(<<"par", "(", "i", ",", "inputs", "(", "a", ")", ",", "i", ")">>),
  P(<<"hslider", "(">> \o Quote("v") \o <<",", "1", ",", "0", ",", "2", ",", "1", "/", "3", ")">>),
  P(<<"tgroup", "(">> \o Quote("g") \o <<",">> \o <<"button", "(">> \o Quote("b") \o <<")", ",", "a", ")">>),
  P(<<"ffunction", "(", "int", " ", "f", "|", "g", "(", "float", ",", "int", ")", ",", "<", "m", ".", "h", ">", ",">>
      \o Quote("l") \o <<")">>),
  P(<<"fconstant", "(", "float", " ", "c", ",", "<", "h", ">", ")">>) }

Documents == {
  Beside(<<"<", "mdoc", ">", "w", " ", "<", "equation", ">", "a", "<", "/", "equation", ">",
          "<", "notice", "/", ">", "<", "/", "mdoc", ">">>),
  Beside(<<"<", "mdoc", ">", "<", "metadata", ">", "m", "<", "/", "metadata", ">", "<", "listing", " ",
          "mdoctags", "=", "\"", "true", "\"", "/", ">", "<", "/", "mdoc", ">">>),
  P(<<"a", "/", "*", "c", "*", "/", "+", "b">>) }

\* Parentheses down to the depth limit.
Deep == {P(<<"(", "(", "(", "(", "(", "(", "(", "(", "(", "(", "(", "a", ")", ")", ")", ")", ")", ")", ")", ")", ")", ")", ")">>)}

MCEdited == Operators \cup Definitions \cup Blocks \cup Constructs \cup Documents \cup Deep
MCInserted == {")", "(", ";", "x"}

\* Every operator beside, left of and right of every other, one of each level
\* and kind.
Ops == {<<":", ">">>, <<":">>, <<",">>, <<"~">>, <<"=", "=">>, <<"+">>, <<"*">>, <<"xor">>, <<"^">>, <<"@">>,
        <<"'">>, <<".", "f">>, <<"(", "d", ")">>, <<"[">> \o Let("d", <<"1">>) \o <<"]">>,
        <<"with", "{", "}">>, <<"letrec", "{", "}">>}
After(op, operand) == IF Last(op) \in {"'", "f", ")", "]", "}"} THEN <<>> ELSE operand
Spaced(op) == IF op[1] \in {"xor", "with", "letrec"} THEN <<" ">> \o op \o <<" ">> ELSE op
Bracketed(t) == <<"(">> \o t \o <<")">>
Pair(x, y) ==
  LET x1 == Spaced(x)
      y1 == Spaced(y)
      b  == After(x, <<"b">>)
      c  == After(y, <<"c">>)
  IN  {<<"a">> \o x1 \o b \o y1 \o c, Bracketed(<<"a">> \o x1 \o b) \o y1 \o c}
        \cup (IF b = <<>> THEN {} ELSE {<<"a">> \o x1 \o Bracketed(<<"b">> \o y1 \o c)})
Pairings == {<<Let("p", body)>> : body \in UNION {Pair(x, y) : x, y \in Ops}}

MCSeeds == MCEdited \cup Pairings
=============================================================================
