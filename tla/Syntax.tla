------------------------------- MODULE Syntax -------------------------------
(***************************************************************************)
(* A program is parsed, one place of it edited and parsed again, and what  *)
(* parses without a diagnostic is printed and parsed once more.            *)
(***************************************************************************)
EXTENDS Printer

CONSTANTS
  Seeds,     \* programs, each a sequence of statements
  Edited,    \* those of them that are edited
  Inserted   \* atoms an edit may insert

VARIABLES
  seed,
  round,     \* "start", "seed", "edited", "printed"
  edit,      \* the statement touched, the atom, whether it was removed, whether a token was split
  before,    \* values of the statements of the seed
  shown      \* the value that was printed

flow == <<seed, round, edit, before, shown>>
syntaxVars == <<parserVars, flow>>

NoEdit == [statement |-> 0, atom |-> "", removed |-> FALSE, splits |-> FALSE]

Joined(statements) == FlattenSeq([k \in DOMAIN statements |-> Append(statements[k], "\n")])
Inserting(s, at, x) == SubSeq(s, 1, at - 1) \o <<x>> \o SubSeq(s, at, Len(s))

SyntaxInit ==
  /\ seed \in Seeds /\ round = "start" /\ edit = NoEdit /\ before = <<>> /\ shown = <<>>
  /\ text = <<>> /\ tokens = <<>> /\ cur = 1 /\ lastEnd = 1 /\ stack = <<>>
  /\ orphans = <<>> /\ refs = <<>> /\ clean = TRUE

Begin ==
  /\ round = "start" /\ round' = "seed"
  /\ StartParse(Joined(seed)) /\ UNCHANGED <<seed, edit, before, shown>>

Reparse(k, changed, atom, removed, splits) ==
  /\ ~Parsing /\ round = "seed" /\ seed \in Edited /\ round' = "edited"
  /\ StartParse(Joined([seed EXCEPT ![k] = changed]))
  /\ edit' = [statement |-> k, atom |-> atom, removed |-> removed, splits |-> splits]
  /\ before' = [i \in DOMAIN refs[Root].kids |-> Values[refs[Root].kids[i]]]
  /\ UNCHANGED <<seed, shown>>

BetweenTokens(t, at) == \E token \in ToSet(Lex(t).tokens) : token.begin = at

InsertAtom(k, at, x) == Reparse(k, Inserting(seed[k], at, x), x, FALSE, ~BetweenTokens(seed[k], at))
RemoveAtom(k, at)    == Reparse(k, RemoveAt(seed[k], at), seed[k][at], TRUE, FALSE)

PrintAndReparse ==
  /\ ~Parsing /\ round \in {"seed", "edited"} /\ clean
  /\ round' = "printed" /\ shown' = Values[Root]
  /\ StartParse(Printed(Root)) /\ UNCHANGED <<seed, edit, before>>

ParserStep == Parsing /\ ParseStep /\ UNCHANGED flow

SyntaxNext ==
  \/ Begin \/ ParserStep \/ PrintAndReparse
  \/ \E k \in DOMAIN seed :
       \/ \E at \in DOMAIN seed[k], x \in Inserted : InsertAtom(k, at, x)
       \/ \E at \in DOMAIN seed[k] : RemoveAtom(k, at)

SyntaxSpec == SyntaxInit /\ [][SyntaxNext]_syntaxVars /\ WF_syntaxVars(ParserStep)

(***************************************************************************)
(* Properties.                                                             *)
(***************************************************************************)

\* The nodes without a parent are exactly what the activations hold, in order:
\* what a hole adopts after an error is all that was built in its item and
\* nothing older (the assertion in Node, OrphanBase).
OrphansHeld ==
  Parsing =>
    /\ stack[1].base = 0
    /\ \A k \in DOMAIN stack :
         LET next == IF k = Len(stack) THEN Len(orphans) ELSE stack[k + 1].base IN
         /\ stack[k].base + Len(stack[k].kids) = next
         /\ SubSeq(orphans, stack[k].base + 1, next) = stack[k].kids

Parsed == ~Parsing /\ round # "start"

\* Every node that was built is in the tree once: errors lose no finished part
\* of a program.
NothingLost ==
  LET places == UNION {{p} \X DOMAIN refs[p].kids : p \in DOMAIN refs} IN
  Parsed =>
    /\ orphans = <<Root>>
    /\ \A r \in DOMAIN refs \ {Root} : Cardinality({p \in places : refs[p[1]].kids[p[2]] = r}) = 1

\* Children lie in their parent, one after the other, parentheses included, so
\* that a place in the text is found by descending; the children of a hole lie
\* before its text.
SpansNest ==
  Parsed =>
    \A r \in DOMAIN refs :
      LET n == refs[r]
          kid(k) == refs[n.kids[k]]
      IN
      /\ n.outerBegin <= n.begin /\ n.begin <= n.end /\ n.end <= n.outerEnd
      /\ \A k \in DOMAIN n.kids :
           /\ k > 1 => kid(k - 1).outerEnd <= kid(k).outerBegin
           /\ IF n.label.kind = "Hole" THEN kid(k).outerEnd <= n.begin
              ELSE n.begin <= kid(k).outerBegin /\ kid(k).outerEnd <= n.end

\* Atoms that open or close something, or end a statement.
Opening    == {"(", "{", "[", "\"", "<", "/"}
Structural == Opening \cup {")", "}", "]", ">", ";", "mdoc", "*"}

\* Equal but for clauses of the same definition that became adjacent.
Includes(v, part) == v.label = part.label /\ Range(part.kids) \subseteq Range(v.kids)

\* An edit inside a statement that neither opens anything nor takes away an end
\* nor splits a token leaves the other statements as they were: recovery stays in the statement.
\* A documentation block ends with no semicolon; recovery from an error in one
\* runs on to the end of the next statement.
StatementsSurvive ==
  Parsed /\ round = "edited" /\ ~edit.splits /\ Len(before) = Len(seed) /\ Last(seed[edit.statement]) = ";"
    /\ edit.atom \notin (IF edit.removed THEN Structural ELSE Opening \cup {";"}) =>
      \A k \in DOMAIN before \ {edit.statement} :
        \E r \in Range(refs[Root].kids) : Includes(Values[r], before[k])

\* What was printed parses without a diagnostic to the value that was printed.
RoundTrip == Parsed /\ round = "printed" => clean /\ Values[Root] = shown

\* The parser returns, whatever the text.
ParserReturns == Parsing ~> ~Parsing
=============================================================================
