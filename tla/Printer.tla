------------------------------ MODULE Printer -------------------------------
(***************************************************************************)
(* The printer (Printer.cpp): the pieces of text of a node, with the       *)
(* parentheses its place requires, joined so that tokens stay apart.       *)
(* Indentation is left out; a line begins with its newline.                *)
(***************************************************************************)
EXTENDS Parser

(***************************************************************************)
(* Parentheses.                                                            *)
(***************************************************************************)

OperatorOf ==
  [Split |-> "<:", Merge |-> ":>", Seq |-> ":", Par |-> ",", RecComp |-> "~", Delay1 |-> "'",
   Access |-> ".", Apply |-> "(", ModifLocalDef |-> "[", With |-> "with", LetRec |-> "letrec"]

IsOperation(n) == n.kind = "BinOp" \/ n.kind \in DOMAIN OperatorOf
RowOf(n)  == IF n.kind = "BinOp" THEN n.payload[1] ELSE OperatorOf[n.kind]
PrecOf(n) == IF IsOperation(n) THEN OpLevel[RowOf(n)] ELSE 16

PostfixFloor == 12
SuffixFloor  == 1

\* Mutant: the operand on the other side of an equal operator stays bare.
MinPrecLoose(op, side) ==
  IF op \in DOMAIN Postfix THEN PostfixFloor ELSE IF op \in DOMAIN Suffix THEN SuffixFloor ELSE OpLevel[op]

MinPrecFor(op, side) ==
  IF op \in DOMAIN Postfix THEN PostfixFloor
  ELSE IF op \in DOMAIN Suffix THEN SuffixFloor
  ELSE OpLevel[op] + (IF (side = "left") = (op \in RightAssoc) THEN 1 ELSE 0)

\* Where a node is printed: the least precedence that needs no parentheses,
\* the level, and the name of the definition a clause belongs to.
Ctx(min, level, name) == [min |-> min, level |-> level, name |-> name]
Fresh(level) == Ctx(0, level, <<>>)
Contexts == [min : 0..16, level : {"Expression", "Argument"}, name : Seq(STRING)]

NeedsParens(n, ctx) ==
  \/ ctx.level = "Argument" /\ n.kind \in {"Par", "With", "LetRec"}
  \/ PrecOf(n) < ctx.min

(***************************************************************************)
(* What a node consists of: pieces of text and nodes in their contexts.    *)
(***************************************************************************)

Text(atoms)  == << <<"text", atoms>> >>
Atom(w)     == Text(<<w>>)
Child(r, ctx) == << <<"node", r, ctx>> >>
Newline == Text(<<"\n">>)
Space   == Text(<<" ">>)

Spelling(t) ==
  IF \E p \in Pairs : p[3] = t
  THEN LET p == CHOOSE q \in Pairs : q[3] = t IN <<p[1], p[2]>> ELSE <<t>>

Concat(parts) == FlattenSeq(parts)
CommaList(kids, ctx) ==
  Concat([k \in DOMAIN kids |-> (IF k > 1 THEN Atom(",") ELSE <<>>) \o Child(kids[k], ctx)])
Lines(kids) == Concat([k \in DOMAIN kids |-> Newline \o Child(kids[k], Fresh("Expression"))])
Braced(head, kids) == Text(head) \o Lines(kids) \o Newline \o Atom("}")
From(kids, k) == SubSeq(kids, k, Len(kids))

VariantWords(variants) ==
  Concat([k \in 1..4 |->
    LET v == <<"singleprecision", "doubleprecision", "quadprecision", "fixedpointprecision">>[k]
    IN  IF v \in variants THEN Text(<<v, " ">>) ELSE <<>>])

StatementParts(n, kids, ctx) ==
  CASE n.kind = "Program" ->
         Concat([k \in DOMAIN kids |-> (IF k > 1 THEN Newline ELSE <<>>) \o Child(kids[k], Fresh("Expression"))])
    [] n.kind = "Import" -> VariantWords(n.variants) \o Text(<<"import", "(">>) \o Text(n.payload) \o Text(<<")", ";">>)
    [] n.kind \in {"Declare", "DeclareDef"} ->
         VariantWords(n.variants) \o Text(<<"declare", " ">>) \o Text(n.payload)
           \o Concat([k \in DOMAIN kids |-> Space \o Child(kids[k], ctx)]) \o Atom(";")
    [] n.kind = "Definition" ->
         Concat([k \in DOMAIN kids |-> (IF k > 1 THEN Newline ELSE <<>>) \o VariantWords(n.variants)
                                         \o Child(kids[k], Ctx(0, "Expression", n.payload))])
    [] n.kind = "Clause" ->
         Text(ctx.name)
           \o (IF Len(kids) > 1 THEN Atom("(") \o CommaList(Front(kids), Fresh("Argument")) \o Atom(")") ELSE <<>>)
           \o Text(<<" ", "=", " ">>) \o Child(Last(kids), Fresh("Expression")) \o Atom(";")
    [] n.kind = "RecDef" ->
         Atom("'") \o Text(n.payload) \o Text(<<" ", "=", " ">>) \o Child(kids[1], Fresh("Expression")) \o Atom(";")

Attributes(form) ==
  Concat([k \in DOMAIN form |->
    IF form[k] = "" THEN <<>>
    ELSE Text(<<" ", <<"dependencies", "mdoctags", "distributed">>[k], "=", "\"",
                IF form[k] = "Lst true" THEN "true" ELSE "false", "\"">>)])

MdocParts(n, kids, ctx) ==
  LET around(word) == Text(<<"<", word, ">">>) \o Child(kids[1], Fresh("Expression")) \o Text(<<"<", "/", word, ">">>)
  IN
  CASE n.kind = "MdocBlock" ->
         VariantWords(n.variants) \o Text(<<"<", "mdoc", ">">>)
           \o Concat([k \in DOMAIN kids |-> Child(kids[k], ctx)]) \o Text(<<"<", "/", "mdoc", ">">>)
    [] n.kind = "MdocProse"    -> Text(n.payload)
    [] n.kind = "MdocEquation" -> around("equation")
    [] n.kind = "MdocDiagram"  -> around("diagram")
    [] n.kind = "MdocMetadata" -> Text(<<"<", "metadata", ">">>) \o Text(n.payload) \o Text(<<"<", "/", "metadata", ">">>)
    [] n.kind = "MdocNotice"   -> Text(<<"<", "notice", "/", ">">>)
    [] n.kind = "MdocListing"  -> Text(<<"<", "listing">>) \o Attributes(n.form) \o Text(<<"/", ">">>)

\* The place of the first local definition of a letrec, behind its RecDefs.
WhereFrom(kids) ==
  Min({k \in 2..Len(kids) : refs[kids[k]].label.kind = "Definition"} \cup {Len(kids) + 1})

OperationParts(n, kids, ctx) ==
  LET op == RowOf(n)
      operand(k, side) == Child(kids[k], Ctx(MinPrecFor(op, side), ctx.level, <<>>))
      gap == IF op \in DOMAIN Composition \ {","} THEN Space ELSE <<>>
      spelt == IF n.kind = "Merge" THEN n.form ELSE Spelling(op)
  IN
  operand(1, "left") \o
  CASE op \in Infix -> gap \o Text(spelt) \o gap \o operand(2, "right")
    [] n.kind = "Delay1" -> Atom("'")
    [] n.kind = "Access" -> Atom(".") \o Text(n.payload)
    [] n.kind = "Apply"  -> Atom("(") \o CommaList(Tail(kids), Fresh("Argument")) \o Atom(")")
    [] n.kind = "ModifLocalDef" ->
         Atom("[") \o Concat([k \in 1..(Len(kids) - 1) |->
                        (IF k > 1 THEN Space ELSE <<>>) \o Child(kids[k + 1], Fresh("Expression"))]) \o Atom("]")
    [] n.kind = "With" -> Braced(<<" ", "with", " ", "{">>, Tail(kids))
    [] n.kind = "LetRec" ->
         LET at == WhereFrom(kids) IN
         Text(<<" ", "letrec", " ", "{">>) \o Lines(SubSeq(kids, 2, at - 1))
           \o (IF at <= Len(kids) THEN Newline \o Atom("where") \o Lines(From(kids, at)) ELSE <<>>)
           \o Newline \o Atom("}")

\* word(label, children)
CallParts(word, label, kids, levels) ==
  Atom(word) \o Atom("(") \o Text(label)
    \o Concat([k \in DOMAIN kids |->
         (IF k > 1 \/ label # <<>> THEN Atom(",") ELSE <<>>) \o Child(kids[k], Fresh(levels[k]))])
    \o Atom(")")

Args(n) == [k \in 1..n |-> "Argument"]

ForeignParts(n, kids, ctx) ==
  LET names == Len(n.form)
      types == SubSeq(kids, names + 2, Len(kids) - 2)
  IN
  Text(<<"ffunction", "(">>) \o Child(kids[1], ctx) \o Space
    \o Concat([k \in 1..names |-> (IF k > 1 THEN Atom("|") ELSE <<>>) \o Child(kids[k + 1], ctx)])
    \o Atom("(") \o CommaList(types, ctx) \o Text(<<")", ",">>)
    \o Child(kids[Len(kids) - 1], ctx) \o Atom(",") \o Child(Last(kids), ctx) \o Atom(")")

PrimaryParts(n, kids, ctx) ==
  LET top(k) == Child(kids[k], Fresh("Expression")) IN
  CASE n.kind \in {"Int", "Real", "Ident", "Str", "Hole"} -> Text(n.payload)
    [] n.kind = "Prim" -> Text(Spelling(n.payload[1]))
    [] n.kind = "NegIdent" -> Atom("-") \o Text(n.payload)
    [] n.kind = "Lambda" -> Text(<<"\\", "(">>) \o CommaList(Front(kids), ctx) \o Text(<<")", ".", "(">>)
                              \o top(Len(kids)) \o Atom(")")
    [] n.kind = "Case" -> Braced(<<"case", " ", "{">>, kids)
    [] n.kind = "Rule" -> Atom("(") \o CommaList(Front(kids), Fresh("Argument"))
                            \o Text(<<")", " ", "=", ">", " ">>) \o top(Len(kids)) \o Atom(";")
    [] n.kind = "Modulation" -> Atom("[") \o CommaList(Front(kids), ctx) \o Text(<<" ", "-", ">", " ">>)
                                  \o top(Len(kids)) \o Atom("]")
    [] n.kind = "Modulator" ->
         Text(n.payload) \o (IF kids = <<>> THEN <<>> ELSE Text(<<":", " ">>) \o Child(kids[1], Fresh("Argument")))
    [] n.kind = "Environment" -> Braced(<<"environment", " ", "{">>, kids)
    [] n.kind = "Waveform" -> Text(<<"waveform", "{">>) \o CommaList(kids, Fresh("Argument")) \o Atom("}")
    [] n.kind = "Inputs"  -> CallParts("inputs", <<>>, kids, <<"Expression">>)
    [] n.kind = "Outputs" -> CallParts("outputs", <<>>, kids, <<"Expression">>)
    [] n.kind = "Route" -> CallParts("route", <<>>, kids, <<"Argument", "Argument", "Expression">>)
    [] n.kind = "Iterate" -> CallParts(n.form[1], n.payload, kids, <<"Argument", "Expression">>)
    [] n.kind = "Component" -> CallParts("component", n.payload, <<>>, <<>>)
    [] n.kind = "Library"   -> CallParts("library", n.payload, <<>>, <<>>)
    [] n.kind = "Button"    -> CallParts("button", n.payload, <<>>, <<>>)
    [] n.kind = "Checkbox"  -> CallParts("checkbox", n.payload, <<>>, <<>>)
    [] n.kind \in {"NumericWidget", "Bargraph", "SoundfileBox"} ->
         CallParts(n.form[1], n.payload, kids, Args(Len(kids)))
    [] n.kind = "Group" -> CallParts(n.form[1], n.payload, kids, <<"Expression">>)
    [] n.kind = "FFun" -> ForeignParts(n, kids, ctx)
    [] n.kind \in {"FConst", "FVar"} ->
         Text(<<IF n.kind = "FConst" THEN "fconstant" ELSE "fvariable", "(">>) \o Atom(n.form[1]) \o Space
           \o Text(n.payload) \o Atom(",") \o Child(kids[1], ctx) \o Atom(")")

Statements == {"Program", "Import", "Declare", "DeclareDef", "Definition", "Clause", "RecDef"}
Docs == {"MdocBlock", "MdocProse", "MdocEquation", "MdocDiagram", "MdocMetadata", "MdocNotice", "MdocListing"}

Parts(n, kids, ctx) ==
  IF n.kind \in Statements THEN StatementParts(n, kids, ctx)
  ELSE IF n.kind \in Docs THEN MdocParts(n, kids, ctx)
  ELSE IF IsOperation(n) THEN OperationParts(n, kids, ctx)
  ELSE PrimaryParts(n, kids, ctx)

(***************************************************************************)
(* Render, and PrintTerm.                                                  *)
(***************************************************************************)

\* Nothing is printed below the depth limit.
Pieces(root) ==
  LET render[r \in DOMAIN refs, ctx \in Contexts, depth \in Nat] ==
        LET n      == refs[r].label
            parens == NeedsParens(n, ctx)
            inside == IF parens THEN Ctx(0, "Expression", ctx.name) ELSE ctx
            parts  == Parts(n, refs[r].kids, inside)
            own    == Concat([k \in DOMAIN parts |->
                        IF parts[k][1] = "text" THEN <<parts[k][2]>>
                        ELSE render[parts[k][2], parts[k][3], depth + 1]])
        IN  IF depth >= MaxTermDepth THEN <<>>
            ELSE IF parens THEN << <<"(">> >> \o own \o << <<")">> >> ELSE own
  IN  render[root, Ctx(0, "Expression", <<>>), 0]

Printed(root) ==
  FoldLeft(LAMBDA out, piece : AppendUnfused(out, piece), [text |-> <<>>, anchor |-> 1], Pieces(root)).text
=============================================================================
