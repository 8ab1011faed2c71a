------------------------------ MODULE MCSession ------------------------------
(***************************************************************************)
(* Instances of a session: a root that may import its library, use it as a *)
(* component or as a library, or define a loop; a library that is only a   *)
(* component of the root; two files that are components of each other.     *)
(***************************************************************************)
EXTENDS Session

File(imports, defs, declares) ==
  [root |-> [imports |-> imports, defs |-> defs, declares |-> declares, broken |-> FALSE],
   layout |-> 0]

MCPaths == {"/main", "/lib", "/aux"}
MCSpecs == {"/lib", "/aux", "/main"}
MCBeside(p, s) == s
MCUnder(r, s) == s
MCSame(p) == p
MCNoLibraries == [s \in {} |-> <<>>]
MCNames == {"process", "a", "g"}
NoFiles == [p \in MCPaths |-> NoText]

\* Roots.  The library a root imports is also the only one it instantiates.
Plays(imports, t) == File(imports, [process |-> t], {})
Looped    == File(<<>>, [process |-> IdentTerm("a"), a |-> IdentTerm("process")], {})
Through   == File(<<"/lib">>, [process |-> IdentTerm("a"), a |-> IdentTerm("g")], {})
Component == Plays(<<"/lib">>, ComponentTerm("/lib"))
Member    == Plays(<<"/lib">>, AccessTerm("/lib", "g"))
Missing   == Plays(<<>>, ComponentTerm("/aux"))
Whole     == Plays(<<"/lib">>, LibraryTerm("/lib"))
\* Libraries.
One   == File(<<>>, [process |-> IntTerm(1), g |-> IntTerm(1)], {})
Two   == File(<<>>, [process |-> IdentTerm("g"), g |-> IntTerm(2)], {})
Bare  == File(<<>>, [process |-> IdentTerm("g")], {})
\* One with another `process', which a root with a `process' of its own hides:
\* an edit between the two changes the library's environment and not the root's.
Other == File(<<>>, [process |-> IntTerm(3), g |-> IntTerm(1)], {})

ImportedEdits ==
  {<<"/main", t>> : t \in {Looped, Through, Component, Member, Missing, Whole}}
    \cup {<<"/lib", t>> : t \in {One, Two, Bare, Other}}
ImportedDisk == [NoFiles EXCEPT !["/main"] = Component, !["/lib"] = One]

\* A library that is only a component of the root.
Host      == Plays(<<>>, ComponentTerm("/lib"))
LazyDisk  == [NoFiles EXCEPT !["/main"] = Host, !["/lib"] = One]
LazyEdits == {<<"/lib", Other>>}

\* The library becomes a host of its host.
MutualEdits == {<<"/lib", Plays(<<>>, ComponentTerm("/main"))>>}

Texts0(d, edits) == ({d[p] : p \in MCPaths} \ {NoText}) \cup {e[2] : e \in edits}
ImportedTexts == Texts0(ImportedDisk, ImportedEdits)
LazyTexts     == Texts0(LazyDisk, LazyEdits)
MutualTexts   == Texts0(LazyDisk, MutualEdits)
=============================================================================
