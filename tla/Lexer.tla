------------------------------- MODULE Lexer --------------------------------
(***************************************************************************)
(* The lexer (Lexer.cpp): tokens that tile the text, a stack of modes for  *)
(* documentation, and the test whether two texts may stand side by side.   *)
(*                                                                         *)
(* A text is a sequence of atoms: a mark, a space, a digit or a word.  A   *)
(* word stands for its letters (and for digits at its end), so no letter   *)
(* is looked at; "f" and "e" are the words a number may absorb.  Positions *)
(* count from 1 and a token covers the atoms begin .. end-1.  Its kind is  *)
(* its spelling where all tokens of the kind have one spelling.            *)
(***************************************************************************)
EXTENDS Integers, FiniteSetsExt, SequencesExt

Digits == {"0", "1", "2", "3", "5"}
Spaces == {" ", "\n"}
Singles == {":", ",", "~", "+", "-", "*", "/", "%", "@", "'", "&", "|", "<", ">", "_", "!",
            ";", "=", "(", ")", "{", "}", "[", "]", "\\", ".", "^"}
Marks == Singles \cup {"\"", "#"}

\* Pairs that are one operator; the two spellings of Mix are one kind.
Pairs == {<<"<", ":", "<:">>, <<"+", ">", ":>">>, <<":", ">", ":>">>, <<"<", "<", "<<">>,
          <<">", ">", ">>">>, <<"<", "=", "<=">>, <<">", "=", ">=">>, <<"=", "=", "==">>,
          <<"!", "=", "!=">>, <<"=", ">", "=>">>, <<"-", ">", "->">>}

Keywords == {
  "with", "letrec", "where", "mem", "prefix", "int", "float", "any", "rdtable", "rwtable",
  "select2", "select3", "ffunction", "fconstant", "fvariable", "button", "checkbox", "vslider",
  "hslider", "nentry", "vgroup", "hgroup", "tgroup", "vbargraph", "hbargraph", "soundfile",
  "attach", "minput", "acos", "asin", "atan", "atan2", "cos", "sin", "tan", "exp", "log",
  "log10", "pow", "sqrt", "abs", "min", "max", "fmod", "remainder", "floor", "ceil", "rint",
  "round", "seq", "par", "sum", "prod", "inputs", "outputs", "import", "component", "library",
  "environment", "waveform", "route", "enable", "control", "declare", "case", "assertbounds",
  "lowest", "highest", "singleprecision", "doubleprecision", "quadprecision",
  "fixedpointprecision", "xor"}

Trivia == {"Whitespace", "LineComment", "BlockComment"}

IsDigit(c)  == c \in Digits
IsLetter(c) == c \notin Digits \cup Spaces \cup Marks \cup {""}

At(t, k) == IF k \in DOMAIN t THEN t[k] ELSE ""
Has(t, k, lit) == IsPrefix(lit, SubSeq(t, k, Len(t)))
Beyond(t) == Len(t) + 1
Slice(t, begin, end) == SubSeq(t, begin, end - 1)

\* The first place from k on where Test holds, or the end of the text.
FirstFrom(t, k, Test(_)) == Min({j \in k..Len(t) : Test(j)} \cup {Max({k, Beyond(t)})})
SkipAll(t, k, S) == FirstFrom(t, k, LAMBDA j : t[j] \notin S)

IdFrom(t, k, j) ==
  IF IsLetter(At(t, j))
  THEN FirstFrom(t, j, LAMBDA i : ~(IsLetter(t[i]) \/ IsDigit(t[i]) \/ t[i] = "_")) ELSE k

ScanId(t, k) == IdFrom(t, k, SkipAll(t, k, {"_"}))

\* A path of identifiers joined by "::".
ScanNsid(t, k) ==
  LET more[from \in Nat, j \in Nat] ==
        IF j = from THEN k
        ELSE IF At(t, j) = ":" /\ At(t, j + 1) = ":" /\ IsLetter(At(t, SkipAll(t, j + 2, {"_"})))
        THEN more[j + 2, ScanId(t, j + 2)] ELSE j
  IN  more[k, ScanId(t, k)]

\* <words> or <words.h>
ScanFString(t, k) ==
  LET j == FirstFrom(t, k + 1, LAMBDA i : ~IsLetter(t[i])) IN
  IF At(t, j) = ">" THEN j + 1
  ELSE IF At(t, j) = "." /\ IsLetter(At(t, j + 1)) /\ At(t, j + 2) = ">" THEN j + 3 ELSE k

(***************************************************************************)
(* One token.  "enter" and "leave" say what it does to the modes.          *)
(***************************************************************************)

Plain(kind, end) == [kind |-> kind, end |-> end, enter |-> "", leave |-> FALSE,
                     merged |-> FALSE, ok |-> TRUE]
Merged(kind, k)    == [Plain(kind, k + 1) EXCEPT !.merged = TRUE]
Enters(tok, mode)  == [tok EXCEPT !.enter = mode]
Leaves(tok)        == [tok EXCEPT !.leave = TRUE]
Complaint(tok)     == [tok EXCEPT !.ok = FALSE]

\* A number needs a complete exponent; an "f" makes it a float.
Fraction(t, k) == IF At(t, k) = "." THEN SkipAll(t, k + 1, Digits) ELSE k
Exponent(t, k) ==
  LET power == IF At(t, k + 1) \in {"+", "-"} THEN k + 2 ELSE k + 1 IN
  IF At(t, k) = "e" /\ IsDigit(At(t, power)) THEN SkipAll(t, power, Digits) ELSE k
FloatMark(t, k) == IF At(t, k) = "f" THEN k + 1 ELSE k
NumberOf(whole, end) == Plain(IF end = whole THEN "Int" ELSE "Float", end)

ScanNumber(t, k) ==
  LET whole == SkipAll(t, k, Digits) IN NumberOf(whole, FloatMark(t, Exponent(t, Fraction(t, whole))))

Word(t, k, end) == Plain(IF end = k + 1 /\ t[k] \in Keywords THEN t[k] ELSE "Ident", end)

ScanOperator(t, k) ==
  LET spelt(p) == p[1] = t[k] /\ p[2] = At(t, k + 1) IN
  IF \E p \in Pairs : spelt(p) THEN Plain((CHOOSE p \in Pairs : spelt(p))[3], k + 2)
  ELSE IF t[k] \in Singles THEN Plain(t[k], k + 1) ELSE Merged("Unknown", k)

Closers == {<<"<", "/", "equation", ">">>, <<"<", "/", "diagram", ">">>, <<"<", "/", "metadata", ">">>}
ClosingTag(word) == "</" \o word \o ">"
OpeningTag(word) == "<" \o word \o ">"

Comment(t, k) ==
  LET close == FirstFrom(t, k + 2, LAMBDA j : t[j] = "*" /\ At(t, j + 1) = "/") IN
  IF close > Len(t) THEN Complaint(Plain("BlockComment", Beyond(t))) ELSE Plain("BlockComment", close + 2)

Quoted(t, k) ==
  LET close == FirstFrom(t, k + 1, LAMBDA j : t[j] = "\"") IN
  IF close > Len(t) THEN Complaint(Merged("Unknown", k)) ELSE Plain("String", close + 1)

InDefault(t, k) ==
  LET c == t[k]
      next == At(t, k + 1)
      isDoc == Has(t, k, <<"<", "mdoc", ">">>)
  IN
  CASE c \in Spaces -> Plain("Whitespace", SkipAll(t, k, Spaces))
    [] c = "/" /\ next = "/" -> Plain("LineComment", FirstFrom(t, k, LAMBDA j : t[j] = "\n"))
    [] c = "/" /\ next = "*" -> Comment(t, k)
    [] c = "\"" -> Quoted(t, k)
    [] IsDigit(c) \/ (c = "." /\ IsDigit(next)) -> ScanNumber(t, k)
    [] isDoc -> Enters(Plain("<mdoc>", k + 3), "Prose")
    [] c = "<" /\ ~isDoc /\ ScanFString(t, k) # k -> Plain("FString", ScanFString(t, k))
    [] \E tag \in Closers : Has(t, k, tag) -> Leaves(Plain(ClosingTag(t[k + 2]), k + 4))
    [] c = ":" /\ next = ":" /\ ScanNsid(t, k + 2) # k + 2 -> Plain("Ident", ScanNsid(t, k + 2))
    [] IsLetter(At(t, SkipAll(t, k, {"_"}))) -> Word(t, k, ScanNsid(t, k))
    [] OTHER -> ScanOperator(t, k)

InProse(t, k) ==
  LET tagged == At(t, k) = "<" /\ At(t, k + 2) = ">" IN
  CASE Has(t, k, <<"<", "notice", " ", "/", ">">>) -> Plain("<notice/>", k + 5)
    [] Has(t, k, <<"<", "notice", "/", ">">>) -> Plain("<notice/>", k + 4)
    [] Has(t, k, <<"<", "listing">>) -> Enters(Plain("<listing", k + 2), "Listing")
    [] tagged /\ t[k + 1] \in {"equation", "diagram", "metadata"}
         -> Enters(Plain(OpeningTag(t[k + 1]), k + 3), "Default")
    [] Has(t, k, <<"<", "/", "mdoc", ">">>) -> Leaves(Plain("</mdoc>", k + 4))
    [] OTHER -> Merged("DocChar", k)

ListingWords == {"dependencies", "distributed", "mdoctags", "false", "true"}

InListing(t, k) ==
  CASE t[k] \in Spaces -> Plain("Whitespace", SkipAll(t, k, Spaces))
    [] Has(t, k, <<"/", ">">>) -> Leaves(Plain("/>", k + 2))
    [] t[k] \in ListingWords -> Plain("Lst " \o t[k], k + 1)
    [] t[k] \in {"=", "\""} -> Plain("Lst " \o t[k], k + 1)
    [] OTHER -> Merged("Unknown", k)

(***************************************************************************)
(* The whole text.                                                         *)
(***************************************************************************)

Scan(t, k, mode) ==
  CASE mode = "Default" -> InDefault(t, k)
    [] mode = "Prose"   -> InProse(t, k)
    [] mode = "Listing" -> InListing(t, k)

PopMode(modes) == IF Len(modes) > 1 THEN Front(modes) ELSE modes

\* Push or PushMerged, and the modes.
Emit(s, found) ==
  [next   |-> found.end,
   modes  |-> IF found.leave THEN PopMode(s.modes)
              ELSE IF found.enter # "" THEN Append(s.modes, found.enter) ELSE s.modes,
   tokens |-> IF found.merged /\ s.tokens # <<>> /\ Last(s.tokens).kind = found.kind
              THEN [s.tokens EXCEPT ![Len(s.tokens)].end = found.end]
              ELSE Append(s.tokens, [kind |-> found.kind, begin |-> s.next, end |-> found.end]),
   ok     |-> s.ok /\ found.ok]

\* Lexer::Run, one token; nothing is left to do at the end of the text.
LexOne(s, t) == IF s.next > Len(t) THEN s ELSE Emit(s, Scan(t, s.next, Last(s.modes)))

Finished(run, t) ==
  [tokens |-> Append(run.tokens, [kind |-> "Eof", begin |-> Beyond(t), end |-> Beyond(t)]),
   ok |-> run.ok /\ run.modes = <<"Default">>]

\* Tokens of a text, and whether the lexer is content with it.
Lex(t) ==
  Finished(FoldLeft(LAMBDA s, c : LexOne(s, t),
                    [next |-> 1, modes |-> <<"Default">>, tokens |-> <<>>, ok |-> TRUE], t), t)

(***************************************************************************)
(* Joining texts.                                                          *)
(***************************************************************************)

\* Would a token that begins in left end in right?  (The code looks at 256
\* characters of the right text, more than any token of these texts has.)
WouldFuse(left, right) ==
  /\ left # <<>> /\ right # <<>>
  /\ Last(left) \notin Spaces /\ Head(right) \notin Spaces
  /\ \E k \in ToSet(Lex(left \o right).tokens) : k.begin <= Len(left) /\ k.end > Len(left) + 1

LastTokenBegin(t) == Max({1} \cup {k.begin : k \in ToSet(Front(Lex(t).tokens))})

Apart(left, right) == IF WouldFuse(left, right) THEN <<" ">> \o right ELSE right

Extended(printed, tail, piece) ==
  [text |-> printed.text \o piece, anchor |-> printed.anchor + LastTokenBegin(tail \o piece) - 1]

\* Text printed so far and where its last token begins, with a piece appended;
\* a space keeps tokens apart.
AppendUnfused(printed, piece) ==
  LET tail == SubSeq(printed.text, printed.anchor, Len(printed.text)) IN
  IF piece = <<>> THEN printed ELSE Extended(printed, tail, Apart(tail, piece))
=============================================================================
