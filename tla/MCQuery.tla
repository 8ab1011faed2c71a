------------------------------- MODULE MCQuery -------------------------------
(***************************************************************************)
(* Instances of the query layer: imports that are turned around, and specs *)
(* that several places answer.                                             *)
(***************************************************************************)
EXTENDS QueryProperties

T(imports, defs, declares, broken) ==
  [imports |-> imports, defs |-> defs, declares |-> declares, broken |-> broken]
Laid(term, layout) == [root |-> term, layout |-> layout]

\* Absolute specs, which joining a directory leaves alone.
MCPaths == {"/main", "/lib", "/aux"}
MCSpecs == MCPaths
MCBeside(p, s) == s
MCUnder(r, s) == s
MCSame(p) == p
MCNoLibraries == [s \in {} |-> <<>>]
MCNames == {"g", "h", "process"}

\* /lib imports /aux.  /main imports /lib no longer after an edit, and /aux
\* imports /main from an edit on, in either order.
Leaf(v)      == T(<<>>, [g |-> v], {}, FALSE)
Imports(p)   == T(<<p>>, [g |-> 1], {}, FALSE)
ReversingEdits ==
  {<<"/main", Laid(Leaf(1), 0)>>,
   <<"/aux", Laid(T(<<"/main">>, [g |-> 1, h |-> 2], {}, FALSE), 0)>>}
ReversingDisk ==
  [p \in MCPaths |-> CASE p = "/main" -> Laid(Imports("/lib"), 0)
                       [] p = "/lib"  -> Laid(Imports("/aux"), 0)
                       [] OTHER       -> Laid(Leaf(1), 0)]
ReversingTexts == {e[2] : e \in ReversingEdits} \cup {ReversingDisk[p] : p \in MCPaths}

\* Relative specs: beside the importer, below two search paths, embedded.  The
\* root imports x, y or both, and some texts of x import y.
OverlayPaths ==
  {"/w/main", "/w/x", "/w/y", "/s/x", "/s/y", "/t/x", "/t/y", "x", "y"}
OverlaySpecs == {"x", "y"}
OverlayRoots == {"/s", "/t"}
OverlayIn(dir, s) ==
  CASE dir = "/w" -> IF s = "x" THEN "/w/x" ELSE "/w/y"
    [] dir = "/s" -> IF s = "x" THEN "/s/x" ELSE "/s/y"
    [] OTHER      -> IF s = "x" THEN "/t/x" ELSE "/t/y"
OverlayBeside(p, s) ==
  CASE p \in {"x", "y"}             -> NoPath
    [] p \in {"/w/main", "/w/x", "/w/y"} -> OverlayIn("/w", s)
    [] p \in {"/s/x", "/s/y"}       -> OverlayIn("/s", s)
    [] OTHER                        -> OverlayIn("/t", s)
OverlayUnder(r, s) == OverlayIn(r, s)
MainX  == Laid(T(<<"x">>, [process |-> 1], {}, FALSE), 0)
MainYX == Laid(T(<<"y", "x">>, [process |-> 1], {}, FALSE), 0)
X(v)   == Laid(T(<<>>, [g |-> v], {}, FALSE), 0)
XY(v)  == Laid(T(<<"y">>, [g |-> v], {"author"}, FALSE), v)
Y(v)   == Laid(T(<<>>, [g |-> 4, h |-> v], {}, v = 2), 0)
\* Closes a cycle with what imports it.
YX     == Laid(T(<<"x">>, [g |-> 5], {}, FALSE), 0)
OverlayTexts == {MainX, MainYX, X(1), X(2), X(3), X(4), XY(1), XY(4), Y(1), Y(2), YX}
OverlayLibraries == [s \in {"x"} |-> X(1)]
OverlayDisk == [p \in OverlayPaths |-> CASE p = "/w/main" -> MainX
                                         [] p = "/s/x" -> X(2)
                                         [] p = "/t/x" -> XY(1)
                                         [] p = "/s/y" -> Y(1)
                                         [] OTHER -> NoText]
OverlayEdits ==
  {<<"/w/main", MainYX>>, <<"/w/x", XY(4)>>, <<"x", X(3)>>, <<"/s/x", X(4)>>,
   <<"/w/y", YX>>}
OverlayWrites == {<<"/t/x", X(1)>>, <<"/s/y", Y(2)>>}

\* The instances satisfy the hypotheses of the theorems about the query layer.
ASSUME InstanceAssumption == LibrariesApart /\ BuffersUnlinked /\ NoLinks
=============================================================================
