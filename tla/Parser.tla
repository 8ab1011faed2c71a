------------------------------- MODULE Parser -------------------------------
(***************************************************************************)
(* The parser (Parser.cpp).  The C++ functions that call each other are a  *)
(* stack of activations, each with the symbols it has left to read and the *)
(* nodes it has built; an exception unwinds the stack to the innermost     *)
(* item of a list, which becomes a hole that keeps what was built.         *)
(*                                                                         *)
(* A node is [kind, form, variants, payload] with a span, an outer span    *)
(* (its parentheses) and its children, by number; equal values have equal  *)
(* ids in the code, so a value is the tree itself.                         *)
(***************************************************************************)
EXTENDS Lexer, Grammar

CONSTANT MaxTermDepth  \* levels of expressions the parser and printer accept

ASSUME DepthAssumption == MaxTermDepth \in Nat \ {0}

VARIABLES
  text,
  tokens,   \* without trivia
  cur,
  lastEnd,
  stack,
  orphans,  \* nodes without a parent yet
  refs,     \* every node
  clean     \* no diagnostic so far

parserVars == <<text, tokens, cur, lastEnd, stack, orphans, refs, clean>>

(***************************************************************************)
(* Tokens.                                                                 *)
(***************************************************************************)

Spelled(k)  == Slice(text, tokens[k].begin, tokens[k].end)
Peek        == tokens[cur].kind
AheadOf(k)  == IF k < Len(tokens) THEN tokens[k + 1].kind ELSE "Eof"

\* Bump n times, never past the end.
Consume(n) == cur' = cur + n /\ lastEnd' = tokens[cur + n - 1].end
Stay       == UNCHANGED <<cur, lastEnd>>
Bump       == IF Peek = "Eof" THEN Stay ELSE Consume(1)

(***************************************************************************)
(* Activations.  "before" is where an item of a list began, if it is one.  *)
(***************************************************************************)

Activation(left, kids, begin, base, frame, before) ==
  [left |-> left, kids |-> kids, begin |-> begin, base |-> base, frame |-> frame, before |-> before,
   payload |-> <<>>, form |-> <<>>, variants |-> {}]

Begun(left, frame, before) ==
  Activation(left, <<>>, tokens[cur].begin, Len(orphans), frame, before)

NoItem == <<>>

act == Last(stack)
sym == Head(act.left)
Doing(op) == stack # <<>> /\ act.left # <<>> /\ sym[1] = op
Done(a)   == [a EXCEPT !.left = Tail(@)]
Goes(a)   == stack' = Append(Front(stack), a)
Calls(a)  == stack' = Append(Append(Front(stack), Done(act)), a)

\* Return nodes to the caller; an item that read nothing skips a token.
Return(ids) ==
  LET caller == stack[Len(stack) - 1] IN
  /\ stack' = IF Len(stack) = 1 THEN <<>>
              ELSE Append(Front(Front(stack)), [caller EXCEPT !.kids = @ \o ids])
  /\ IF act.before = <<cur>> THEN Bump ELSE Stay

(***************************************************************************)
(* Nodes.                                                                  *)
(***************************************************************************)

NewRef == Len(refs) + 1

\* Mutant: children stay among the orphans.
NodeKeepingOrphans(label, kids, begin, end) ==
  /\ refs' = Append(refs, [label |-> label, kids |-> kids, begin |-> begin, end |-> end,
                           outerBegin |-> begin, outerEnd |-> end])
  /\ orphans' = Append(orphans, NewRef)

Node(label, kids, begin, end) ==
  /\ refs' = Append(refs, [label |-> label, kids |-> kids, begin |-> begin, end |-> end,
                           outerBegin |-> begin, outerEnd |-> end])
  /\ orphans' = Append(SubSeq(orphans, 1, Len(orphans) - Len(kids)), NewRef)

Label(kind, form, variants, payload) ==
  [kind |-> kind, form |-> form, variants |-> variants, payload |-> payload]

\* A leaf made of the next n tokens.
TakeLeaf(kind, payload, n) ==
  /\ Node(Label(kind, <<>>, {}, payload), <<>>, tokens[cur].begin, tokens[cur + n - 1].end)
  /\ Goes([Done(act) EXCEPT !.kids = Append(@, NewRef)])
  /\ Consume(n) /\ UNCHANGED <<text, tokens, clean>>

NoNode == UNCHANGED <<text, tokens, orphans, refs, clean>>

(***************************************************************************)
(* One action per kind of symbol.                                          *)
(***************************************************************************)

\* Expect, ExpectLexeme, and the tokens a node is labelled by.
Take ==
  /\ Doing("take") /\ Peek \in sym[2]
  /\ Goes([Done(act) EXCEPT
        !.payload = CASE sym[3] = "payload" -> Spelled(cur)
                      [] sym[3] = "operator" -> <<Peek>> [] OTHER -> @,
        !.form = CASE sym[3] = "form" -> <<Peek>>
                   [] sym[3] = "spelling" -> Spelled(cur) [] OTHER -> @])
  /\ Consume(1) /\ NoNode

TakeNamedLeaf == Doing("leaf") /\ Peek \in sym[2] /\ TakeLeaf(sym[3], Spelled(cur), 1)

\* Numbers, with a sign where one is directly ahead.
Primary == Doing("primary")
Numeric == Primary \/ Doing("number")
SignAt(k)    == tokens[k].kind \in {"+", "-"} /\ AheadOf(k) \in {"Int", "Float"}
NegatedAt(k) == tokens[k].kind = "-" /\ AheadOf(k) = "Ident"

TakeNumber == Numeric /\ Peek \in {"Int", "Float"} /\ TakeLeaf(LeafKind[Peek], Spelled(cur), 1)
TakeSigned ==
  /\ Numeric /\ SignAt(cur)
  /\ TakeLeaf(LeafKind[AheadOf(cur)], Slice(text, tokens[cur].begin, tokens[cur + 1].end), 2)

TakeName    == Primary /\ Peek = "Ident" /\ TakeLeaf("Ident", Spelled(cur), 1)
TakeNegated == Primary /\ NegatedAt(cur) /\ TakeLeaf("NegIdent", Spelled(cur + 1), 2)
TakePrim ==
  /\ Primary /\ Peek \in Prims /\ ~SignAt(cur) /\ ~NegatedAt(cur)
  /\ TakeLeaf("Prim", <<Peek>>, 1)

CallPrimary ==
  /\ Primary /\ Peek \in DOMAIN PrimaryOf
  /\ Calls(Begun(Phrase[PrimaryOf[Peek]], "", NoItem)) /\ Stay /\ NoNode

\* ParseExpr and its loop over operators.
Depth == Cardinality({k \in DOMAIN stack : /\ stack[k].left # <<>>
                                           /\ Last(stack[k].left)[1] = "led"})

TooDeep == Depth >= MaxTermDepth

CallExpr ==
  /\ Doing("expr") /\ ~TooDeep
  /\ Calls(Begun(<< <<"primary">>, <<"led", sym[2], sym[3]>> >>, "", NoItem)) /\ Stay /\ NoNode

Binds(t, bp, level) ==
  /\ t \in DOMAIN OpLevel /\ LeftBp(t) > bp
  /\ ~(level = "Argument" /\ t \in ExcludedFromArgument)

LedPhrase(t, level) ==
  IF t \in Infix THEN InfixPhrase(t, level) ELSE LedPhrases[(Postfix @@ Suffix)[t]]

\* Mutant: an operation begins at its operator.
OperatorBegin == tokens[cur].begin

OperandBegin == act.begin

ApplyOperator ==
  /\ Doing("led") /\ Binds(Peek, sym[2], sym[3])
  /\ stack' = Append(Append(Front(stack), [act EXCEPT !.kids = <<>>]),
                     Activation(LedPhrase(Peek, sym[3]), act.kids, OperandBegin, act.base, "", NoItem))
  /\ Stay /\ NoNode

EndExpr == Doing("led") /\ ~Binds(Peek, sym[2], sym[3]) /\ Return(act.kids) /\ NoNode

\* Calls, alternatives and loops.
Call == Doing("sub") /\ Calls(Begun(Phrase[sym[2]], sym[3], NoItem)) /\ Stay /\ NoNode

Accept ==
  /\ Doing("maybe")
  /\ IF Peek = sym[2] THEN Goes([act EXCEPT !.left = Phrase[sym[3]] \o Tail(@)]) /\ Consume(1)
                      ELSE Goes(Done(act)) /\ Stay
  /\ NoNode

Choose ==
  /\ Doing("either")
  /\ Goes([act EXCEPT !.left = Phrase[IF Peek = sym[2] THEN sym[3] ELSE sym[4]] \o Tail(@)])
  /\ Stay /\ NoNode

ParseItem ==
  /\ Doing("items")
  /\ IF Peek \in sym[2] \cup {"Eof"} THEN Goes(Done(act))
     ELSE stack' = Append(stack, Begun(Phrase[sym[3]], "", <<cur>>))
  /\ Stay /\ NoNode

ParseCases ==
  /\ Doing("each") /\ Peek \in {"Eof", sym[2]} \cup DOMAIN Cases[sym[3]]
  /\ Goes(IF Peek \in {"Eof", sym[2]} THEN Done(act)
          ELSE [act EXCEPT !.left = Cases[sym[3]][Peek] \o @])
  /\ Stay /\ NoNode

ReadAttribute ==
  LET form == IF act.form = <<>> THEN <<"", "", "">> ELSE act.form IN
  /\ Doing("attribute") /\ Peek \in {"Lst true", "Lst false"}
  /\ Goes([Done(act) EXCEPT !.form = [form EXCEPT ![sym[2]] = Peek]])
  /\ Consume(1) /\ NoNode

\* Precision prefixes, and what follows them.
VariantTokens == {"singleprecision", "doubleprecision", "quadprecision", "fixedpointprecision"}
VariantsEnd(k) == FirstFrom(tokens, k, LAMBDA j : tokens[j].kind \notin VariantTokens)
VariantsAt(k)  == {tokens[j].kind : j \in k..(VariantsEnd(k) - 1)}

ReadVariants ==
  LET end == VariantsEnd(cur) IN
  /\ Doing("variants")
  /\ Goes([Done(act) EXCEPT !.variants = VariantsAt(cur)])
  /\ IF end = cur THEN Stay ELSE Consume(end - cur)
  /\ NoNode

DispatchStatement ==
  /\ Doing("statement")
  /\ Goes([act EXCEPT
        !.left = Phrase[IF Peek \in DOMAIN StatementOf THEN StatementOf[Peek] ELSE "definition"],
        !.begin = IF Peek = "<mdoc>" THEN tokens[cur].begin ELSE @])
  /\ Stay /\ NoNode

KeepName == Doing("named") /\ Goes([Done(act) EXCEPT !.payload = Spelled(cur)]) /\ Stay /\ NoNode

\* Mutant: a clause of another precision is merged too.
SameNameAhead(name, variants) ==
  LET k == VariantsEnd(cur) IN
  /\ tokens[k].kind = "Ident" /\ Spelled(k) = name
  /\ AheadOf(k) \in {"(", "="}

\* Adjacent clauses of one name and precision are one definition.
SameNameClauseAhead(name, variants) ==
  LET k == VariantsEnd(cur) IN
  /\ Peek # "Eof" /\ VariantsAt(cur) = variants
  /\ tokens[k].kind = "Ident" /\ Spelled(k) = name
  /\ AheadOf(k) \in {"(", "="}

MergeClauses ==
  /\ Doing("clauses")
  /\ Goes(IF SameNameClauseAhead(act.payload, act.variants)
          THEN [act EXCEPT !.left = <<Variants, Sub("clause")>> \o @] ELSE Done(act))
  /\ Stay /\ NoNode

NameCount(a) == (Len(a.kids) - 1) % 256  \* uint8_t

CountForeignNames ==
  /\ Doing("count") /\ NameCount(act) <= 4
  /\ Goes([Done(act) EXCEPT !.form = [k \in 1..NameCount(act) |-> "name"]])
  /\ Stay /\ NoNode

CheckNotEmpty ==
  /\ Doing("notempty") /\ Goes(Done(act)) /\ clean' = (clean /\ act.kids # <<>>)
  /\ Stay /\ UNCHANGED <<text, tokens, orphans, refs>>

SetOuter ==
  /\ Doing("outer") /\ Goes(Done(act))
  /\ refs' = [refs EXCEPT ![act.kids[1]].outerBegin = act.begin, ![act.kids[1]].outerEnd = lastEnd]
  /\ Stay /\ UNCHANGED <<text, tokens, orphans, clean>>

BuildNode ==
  /\ Doing("build")
  /\ Node(Label(sym[2], act.form, act.variants, act.payload), act.kids,
          IF sym[2] = "Program" THEN 1 ELSE act.begin,
          IF sym[2] = "Program" THEN Beyond(text) ELSE lastEnd)
  /\ Return(<<NewRef>>) /\ UNCHANGED <<text, tokens, clean>>

GiveBack == stack # <<>> /\ act.left = <<>> /\ Return(act.kids) /\ NoNode

(***************************************************************************)
(* Errors.                                                                 *)
(***************************************************************************)

\* Mutant: the loops over documentation wait at a token they do not know.
StuckOutsideDocs ==
  \/ (Doing("take") \/ Doing("leaf")) /\ Peek \notin sym[2]
  \/ Doing("number") /\ Peek \notin {"Int", "Float"} /\ ~SignAt(cur)
  \/ Primary /\ Peek \notin {"Int", "Float", "Ident"} \cup Prims \cup DOMAIN PrimaryOf
  \/ Doing("expr") /\ TooDeep
  \/ Doing("attribute") /\ Peek \notin {"Lst true", "Lst false"}
  \/ Doing("count") /\ NameCount(act) > 4

\* Fail, FailWith: no action above can read the next token.
Stuck ==
  \/ (Doing("take") \/ Doing("leaf")) /\ Peek \notin sym[2]
  \/ Doing("number") /\ Peek \notin {"Int", "Float"} /\ ~SignAt(cur)
  \/ Primary /\ Peek \notin {"Int", "Float", "Ident"} \cup Prims \cup DOMAIN PrimaryOf
  \/ Doing("expr") /\ TooDeep
  \/ Doing("each") /\ Peek \notin {"Eof", sym[2]} \cup DOMAIN Cases[sym[3]]
  \/ Doing("attribute") /\ Peek \notin {"Lst true", "Lst false"}
  \/ Doing("count") /\ NameCount(act) > 4

FrameConsumes(f, t) == f # "ArgList" /\ t = ";"
FrameStops ==
  [StmtList |-> {"}"}, RuleList |-> {"}"}, DefList |-> {"}", "]"}, RecList |-> {"}", "where"},
   ArgList |-> {",", ")"}]

Openers == {"(", "{", "["}
ClosersOf == {")", "}", "]"}

\* Mutant: a closing bracket without its opening one counts as well.
SyncUnbalanced(item) ==
  LET frame == stack[item - 1].frame
      enclosing == {stack[k].frame : k \in 1..(item - 1)} \ {""}
      to[k \in Nat, n \in Int] ==
        LET t == tokens[k].kind IN
        IF t = "Eof" \/ (n = 0 /\ \E f \in enclosing : t \in FrameStops[f]) THEN k
        ELSE IF n = 0 /\ FrameConsumes(frame, t) THEN k + 1
        ELSE to[k + 1, IF t \in Openers THEN n + 1 ELSE IF t \in ClosersOf THEN n - 1 ELSE n]
  IN  to[cur, 0]

\* Sync: where parsing goes on, behind the end of the statement or before a
\* token that ends any enclosing list, brackets skipped whole.
Sync(item) ==
  LET frame == stack[item - 1].frame
      enclosing == {stack[k].frame : k \in 1..(item - 1)} \ {""}
      to[k \in Nat, n \in Nat] ==
        LET t == tokens[k].kind IN
        IF t = "Eof" \/ (n = 0 /\ \E f \in enclosing : t \in FrameStops[f]) THEN k
        ELSE IF n = 0 /\ FrameConsumes(frame, t) THEN k + 1
        ELSE to[k + 1, IF t \in Openers THEN n + 1 ELSE IF t \in ClosersOf /\ n > 0 THEN n - 1 ELSE n]
  IN  to[cur, 0]

\* Mutant: a hole adopts nothing.
AdoptedNone(item) == <<>>

\* What was finished of the item.
Adopted(item) == SubSeq(orphans, stack[item].base + 1, Len(orphans))

\* The item at hand becomes a hole; one that made no progress skips a token.
Recover ==
  LET item  == Max({k \in DOMAIN stack : stack[k].before # NoItem})
      next  == Sync(item)
      from  == tokens[cur].begin
      to    == IF next = cur THEN from ELSE tokens[next - 1].end
      skips == stack[item].before = <<next>> /\ tokens[next].kind # "Eof"
  IN
  /\ Stuck
  /\ Node(Label("Hole", <<>>, {}, Slice(text, from, to)),
          Adopted(item), from, to)
  /\ stack' = Append(SubSeq(stack, 1, item - 2),
                     [stack[item - 1] EXCEPT !.kids = Append(@, NewRef)])
  /\ cur' = IF skips THEN next + 1 ELSE next
  /\ lastEnd' = IF cur' = cur THEN lastEnd ELSE tokens[cur' - 1].end
  /\ clean' = FALSE
  /\ UNCHANGED <<text, tokens>>

(***************************************************************************)
(* A parse of t.                                                           *)
(***************************************************************************)

Significant(found) == SelectSeq(found, LAMBDA k : k.kind \notin Trivia)

StartParse(t) == \E lexed \in {Lex(t)} :
  /\ text' = t /\ tokens' = Significant(lexed.tokens) /\ clean' = lexed.ok
  /\ cur' = 1 /\ lastEnd' = 1 /\ orphans' = <<>> /\ refs' = <<>>
  /\ stack' = <<Activation(StatementPhrases["program"], <<>>, 1, 0, "StmtList", NoItem)>>

Parsing == stack # <<>>
Root == Len(refs)

ParseStep ==
  \/ Take \/ TakeNamedLeaf \/ TakeNumber \/ TakeSigned \/ TakeName \/ TakeNegated \/ TakePrim
  \/ CallPrimary \/ CallExpr \/ ApplyOperator \/ EndExpr \/ Call \/ Accept \/ Choose
  \/ ParseItem \/ ParseCases \/ ReadAttribute \/ ReadVariants \/ DispatchStatement \/ KeepName
  \/ MergeClauses \/ CountForeignNames \/ CheckNotEmpty \/ SetOuter \/ BuildNode \/ GiveBack
  \/ Recover

\* Values of the nodes: labels and children all the way down.
Values ==
  LET value[r \in DOMAIN refs] ==
        [label |-> refs[r].label, kids |-> [k \in DOMAIN refs[r].kids |-> value[refs[r].kids[k]]]]
  IN  value
=============================================================================
