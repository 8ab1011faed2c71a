------------------------------ MODULE Grammar -------------------------------
(***************************************************************************)
(* The grammar as data: the operator table (Prec.cpp) and, for each        *)
(* function of the parser that reads a construct, the phrase of symbols it *)
(* works off from left to right (Parser.cpp).  Parser runs the phrases.    *)
(***************************************************************************)
EXTENDS Integers, Sequences, TLC

(***************************************************************************)
(* Operators.                                                              *)
(***************************************************************************)

OpLevel ==
  [t \in {"with"} |-> 1] @@ [t \in {"letrec"} |-> 2] @@ [t \in {"<:", ":>"} |-> 3]
    @@ [t \in {":"} |-> 4] @@ [t \in {","} |-> 5] @@ [t \in {"~"} |-> 6]
    @@ [t \in {"<", "<=", ">", ">=", "==", "!="} |-> 7]
    @@ [t \in {"+", "-", "|"} |-> 8]
    @@ [t \in {"*", "/", "%", "&", "xor", "<<", ">>"} |-> 9]
    @@ [t \in {"^"} |-> 10] @@ [t \in {"@"} |-> 11] @@ [t \in {"'"} |-> 12]
    @@ [t \in {"."} |-> 13] @@ [t \in {"("} |-> 14] @@ [t \in {"["} |-> 15]

RightAssoc == {"<:", ":>", ":", ","}
Composition == [t \in {"<:"} |-> "Split"] @@ [t \in {":>"} |-> "Merge"] @@ [t \in {":"} |-> "Seq"]
                 @@ [t \in {","} |-> "Par"] @@ [t \in {"~"} |-> "RecComp"]
InfixKind(t) == IF t \in DOMAIN Composition THEN Composition[t] ELSE "BinOp"

\* Operators that take more than a right operand, and the kind they build.
Postfix == [t \in {"'"} |-> "Delay1"] @@ [t \in {"."} |-> "Access"]
             @@ [t \in {"("} |-> "Apply"] @@ [t \in {"["} |-> "ModifLocalDef"]
Suffix  == [t \in {"with"} |-> "With"] @@ [t \in {"letrec"} |-> "LetRec"]
Infix   == DOMAIN OpLevel \ (DOMAIN Postfix \cup DOMAIN Suffix)

\* Mutant: all operators associate to the left.
LeftBpAlike(t) == 2 * OpLevel[t]

LeftBp(t)  == 2 * OpLevel[t] + (IF t \in RightAssoc THEN 1 ELSE 0)
RightBp(t) == 2 * OpLevel[t] + (IF t \in RightAssoc THEN 0 ELSE 1)

ExcludedFromArgument == {",", "with", "letrec"}

(***************************************************************************)
(* Symbols.                                                                *)
(***************************************************************************)

Tok(t)       == <<"take", {t}, "">>          \* Expect
Lexeme(S)    == <<"take", S, "payload">>     \* ExpectLexeme
Form(S)      == <<"take", S, "form">>        \* Bump, and remember which
Leaf(S, k)   == <<"leaf", S, k>>             \* ExpectLeaf
Number       == <<"number">>                 \* ParseNumber
Expr(bp, l)  == <<"expr", bp, l>>            \* ParseExpr
Top          == Expr(0, "Expression")
Arg          == Expr(0, "Argument")
Sub(name)    == <<"sub", name, "">>          \* a call of another function
In(f, name)  == <<"sub", name, f>>           \* the same under a FrameGuard
Maybe(t, name)     == <<"maybe", t, name>>   \* if (Accept(t)) name
Either(t, yes, no) == <<"either", t, yes, no>>  \* if (At(t)) yes else no
Items(stop, name)  == <<"items", stop, name>>   \* ParseItems
Each(stop, table)  == <<"each", stop, table>>   \* while (!At(stop)) switch
Attribute(n) == <<"attribute", n>>           \* a listing attribute's value
Variants     == <<"variants">>               \* ParseVariants
Named        == <<"named">>                  \* the name ParseClause hands out
Statement    == <<"statement">>              \* the switch of ParseStatement
Clauses      == <<"clauses">>                \* the loop over same-name clauses
CountNames   == <<"count">>                  \* how many names a foreign function has
NotEmpty     == <<"notempty">>               \* a case needs a rule
Outer        == <<"outer">>                  \* SetOuter
Build(k)     == <<"build", k>>               \* Node, and return

(***************************************************************************)
(* Phrases.                                                                *)
(***************************************************************************)

StatementPhrases == [
  program    |-> <<Items({"Eof"}, "statement"), Build("Program")>>,
  statement  |-> <<Variants, Statement>>,
  import     |-> <<Tok("import"), Tok("("), Lexeme({"String"}), Tok(")"), Tok(";"), Build("Import")>>,
  declare    |-> <<Tok("declare"), Lexeme({"Ident"}), Either("Ident", "declareFor", "declareAll")>>,
  declareFor |-> <<Leaf({"Ident"}, "Str"), Leaf({"String"}, "Str"), Tok(";"), Build("DeclareDef")>>,
  declareAll |-> <<Leaf({"String"}, "Str"), Tok(";"), Build("Declare")>>,
  definition |-> <<Named, Sub("clause"), Clauses, Build("Definition")>>,
  clause     |-> <<Tok("Ident"), Maybe("(", "params"), Tok("="), Top, Tok(";"), Build("Clause")>>,
  params     |-> <<In("ArgList", "args"), Tok(")")>>,
  args       |-> <<Arg, Maybe(",", "args")>>,
  local      |-> <<Variants, Named, Sub("clause"), Clauses, Build("Definition")>>,
  recdef     |-> <<Tok("'"), Lexeme({"Ident"}), Tok("="), Top, Tok(";"), Build("RecDef")>>,
  nothing    |-> <<>>]

StatementOf == [t \in {"import", "declare"} |-> t] @@ [t \in {"<mdoc>"} |-> "mdoc"]

MdocPhrases == [
  mdoc     |-> <<Tok("<mdoc>"), Each("</mdoc>", "parts"), Tok("</mdoc>"), Build("MdocBlock")>>,
  equation |-> <<Tok("<equation>"), Top, Tok("</equation>"), Build("MdocEquation")>>,
  diagram  |-> <<Tok("<diagram>"), Top, Tok("</diagram>"), Build("MdocDiagram")>>,
  metadata |-> <<Tok("<metadata>"), Lexeme({"Ident"}), Tok("</metadata>"), Build("MdocMetadata")>>,
  notice   |-> <<Tok("<notice/>"), Build("MdocNotice")>>,
  listing  |-> <<Tok("<listing"), Each("/>", "attributes"), Tok("/>"), Build("MdocListing")>>]

\* What ParseMdoc and ParseMdocListing do at each token they know.
Cases == [
  parts |-> [t \in {"DocChar"} |-> <<Leaf({t}, "MdocProse")>>]
              @@ [t \in {"<equation>"} |-> <<Sub("equation")>>]
              @@ [t \in {"<diagram>"} |-> <<Sub("diagram")>>]
              @@ [t \in {"<metadata>"} |-> <<Sub("metadata")>>]
              @@ [t \in {"<notice/>"} |-> <<Sub("notice")>>]
              @@ [t \in {"<listing"} |-> <<Sub("listing")>>],
  attributes |-> LET set(t, n) == <<Tok(t), Tok("Lst ="), Tok("Lst \""), Attribute(n), Tok("Lst \"")>>
                 IN  [t \in {"Lst dependencies"} |-> set(t, 1)] @@ [t \in {"Lst mdoctags"} |-> set(t, 2)]
                       @@ [t \in {"Lst distributed"} |-> set(t, 3)]]

\* Operators after their left operand.
LedPhrases == [
  Delay1 |-> <<Tok("'"), Build("Delay1")>>,
  Access |-> <<Tok("."), Lexeme({"Ident"}), Build("Access")>>,
  Apply  |-> <<Tok("("), In("ArgList", "args"), Tok(")"), Build("Apply")>>,
  ModifLocalDef |-> <<Tok("["), In("DefList", "localsInBrackets"), Tok("]"), Build("ModifLocalDef")>>,
  With   |-> <<Tok("with"), Tok("{"), In("DefList", "locals"), Tok("}"), Build("With")>>,
  LetRec |-> <<Tok("letrec"), Tok("{"), In("RecList", "recdefs"), Maybe("where", "whereDefs"), Tok("}"), Build("LetRec")>>,
  localsInBrackets |-> <<Items({"]"}, "local")>>,
  locals    |-> <<Items({"}"}, "local")>>,
  recdefs   |-> <<Items({"}", "where"}, "recdef")>>,
  whereDefs |-> <<In("DefList", "locals")>>]

InfixPhrase(t, level) ==
  <<CASE t = ":>" -> <<"take", {t}, "spelling">>
      [] InfixKind(t) = "BinOp" -> <<"take", {t}, "operator">>
      [] OTHER -> Tok(t),
    Expr(RightBp(t), level), Build(InfixKind(t))>>

ForeignPhrases == [
  ffunction |-> <<Tok("ffunction"), Tok("("), Leaf({"int", "float"}, "Str"), Sub("names"), CountNames, Tok("("),
                  Either(")", "nothing", "types"), Tok(")"), Tok(","), Leaf({"String", "FString"}, "Str"),
                  Tok(","), Leaf({"String"}, "Str"), Tok(")"), Build("FFun")>>,
  names     |-> <<Leaf({"Ident"}, "Str"), Maybe("|", "names")>>,
  types     |-> <<Leaf({"int", "float", "any"}, "Str"), Maybe(",", "types")>>]

ForeignValue(word, kind) ==
  <<Tok(word), Tok("("), Form({"int", "float"}), Lexeme({"Ident"}), Tok(","),
    Leaf({"String", "FString"}, "Str"), Tok(")"), Build(kind)>>

OneLabel(word, kind) == <<Tok(word), Tok("("), Lexeme({"String"}), Tok(")"), Build(kind)>>
Labeled(S, args, kind) ==
  <<Form(S), Tok("("), Lexeme({"String"})>>
    \o [k \in 1..(2 * args) |-> IF k % 2 = 1 THEN Tok(",") ELSE Arg]
    \o <<Tok(")"), Build(kind)>>
Widgets   == {"vslider", "hslider", "nentry"}
Bargraphs == {"vbargraph", "hbargraph"}
Groups    == {"vgroup", "hgroup", "tgroup"}
Iterators == {"par", "seq", "sum", "prod"}

PrimaryPhrases ==
  [lambda |-> <<Tok("\\"), Tok("("), Sub("binders"), Tok(")"), Tok("."), Tok("("), Top, Tok(")"), Build("Lambda")>>,
   binders |-> <<Leaf({"Ident"}, "Str"), Maybe(",", "binders")>>,
   parens |-> <<Tok("("), Top, Tok(")"), Outer>>,
   modulation |-> <<Tok("["), Sub("modulators"), Tok("->"), Top, Tok("]"), Build("Modulation")>>,
   modulators |-> <<Sub("modulator"), Maybe(",", "modulators")>>,
   modulator  |-> <<Lexeme({"String"}), Maybe(":", "value"), Build("Modulator")>>,
   value  |-> <<Arg>>,
   case   |-> <<Tok("case"), Tok("{"), In("RuleList", "rules"), Tok("}"), NotEmpty, Build("Case")>>,
   rules  |-> <<Items({"}"}, "rule")>>,
   rule   |-> <<Tok("("), In("ArgList", "args"), Tok(")"), Tok("=>"), Top, Tok(";"), Build("Rule")>>,
   environment |-> <<Tok("environment"), Tok("{"), In("StmtList", "statements"), Tok("}"), Build("Environment")>>,
   statements  |-> <<Items({"}"}, "statement")>>,
   waveform |-> <<Tok("waveform"), Tok("{"), Sub("numbers"), Tok("}"), Build("Waveform")>>,
   numbers  |-> <<Number, Maybe(",", "numbers")>>,
   route    |-> <<Tok("route"), Tok("("), Arg, Tok(","), Arg, Maybe(",", "wires"), Tok(")"), Build("Route")>>,
   wires    |-> <<Top>>,
   component |-> OneLabel("component", "Component"), library  |-> OneLabel("library", "Library"),
   button    |-> OneLabel("button", "Button"),       checkbox |-> OneLabel("checkbox", "Checkbox"),
   fconstant |-> ForeignValue("fconstant", "FConst"), fvariable |-> ForeignValue("fvariable", "FVar"),
   widget    |-> Labeled(Widgets, 4, "NumericWidget"),
   bargraph  |-> Labeled(Bargraphs, 2, "Bargraph"),
   soundfile |-> Labeled({"soundfile"}, 1, "SoundfileBox"),
   group     |-> <<Form(Groups), Tok("("), Lexeme({"String"}), Tok(","), Top, Tok(")"), Build("Group")>>,
   iterate   |-> <<Form(Iterators), Tok("("), Lexeme({"Ident"}), Tok(","), Arg, Tok(","), Top, Tok(")"), Build("Iterate")>>,
   inputs    |-> <<Tok("inputs"), Tok("("), Top, Tok(")"), Build("Inputs")>>,
   outputs   |-> <<Tok("outputs"), Tok("("), Top, Tok(")"), Build("Outputs")>>]

\* The function ParsePrimary calls at a token.
PrimaryOf ==
  [t \in {"("} |-> "parens"] @@ [t \in {"\\"} |-> "lambda"] @@ [t \in {"["} |-> "modulation"]
    @@ [t \in Widgets |-> "widget"] @@ [t \in Bargraphs |-> "bargraph"]
    @@ [t \in Groups |-> "group"] @@ [t \in Iterators |-> "iterate"]
    @@ [t \in {"case", "ffunction", "fconstant", "fvariable", "component", "library", "button", "checkbox",
               "environment", "waveform", "route", "soundfile", "inputs", "outputs"} |-> t]

Phrase == StatementPhrases @@ MdocPhrases @@ LedPhrases @@ PrimaryPhrases @@ ForeignPhrases

LeafKind == [t \in {"Int"} |-> "Int"] @@ [t \in {"Float"} |-> "Real"] @@ [t \in {"Ident"} |-> "Ident"]

\* Tokens that are boxes by themselves.
Prims == {
  "_", "!", "mem", "prefix", "int", "float", "+", "-", "*", "/", "%", "@", "&", "|", "xor", "<<", ">>",
  "<", "<=", ">", ">=", "==", "!=", "attach", "enable", "control", "acos", "asin", "atan", "atan2", "cos",
  "sin", "tan", "exp", "log", "log10", "^", "pow", "sqrt", "abs", "min", "max", "fmod", "remainder",
  "floor", "ceil", "rint", "round", "rdtable", "rwtable", "select2", "select3", "assertbounds", "lowest",
  "highest"}
=============================================================================
