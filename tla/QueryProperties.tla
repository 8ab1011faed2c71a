--------------------------- MODULE QueryProperties ---------------------------
(***************************************************************************)
(* What the query layer promises: an answer is the answer a session gives  *)
(* that was created just now with the same buffers, search paths and disk. *)
(***************************************************************************)
EXTENDS QueryEngine, SequencesExt

(***************************************************************************)
(* The reference: a compilation from nothing.                              *)
(***************************************************************************)

\* What a session that has read nothing yet reads.
FreshText(p) ==
  IF buffers[p] # NoText THEN buffers[p]
  ELSE IF p \in DOMAIN Embedded THEN Embedded[p]
  ELSE IF TryDisk(p) # NoPath THEN disk[TryDisk(p)] ELSE NoText

FreshTerm(p) == IF FreshText(p) = NoText THEN NoTerm ELSE FreshText(p).root

FreshImports(p) ==
  IF FreshTerm(p) = NoTerm THEN <<>> ELSE FreshTerm(p).imports

FreshTargets(p) ==
  {Locate(s, p) : s \in ToSet(FreshImports(p))} \ {NoPath}

\* Every file p imports, itself included, and the files on a cycle with p.
FreshClosure(p) ==
  LET reach[n \in Nat] ==
        IF n = 0 THEN {p}
        ELSE reach[n - 1] \cup UNION {FreshTargets(q) : q \in reach[n - 1]}
  IN  reach[Cardinality(Paths)]

OnCycle(p) == \E q \in FreshTargets(p) : p \in FreshClosure(q)

Acyclic(p) == \A q \in FreshClosure(p) : ~OnCycle(q)

\* The bindings that the first m of some layers leave: the last layer that has
\* a name decides it.
Layered(layers, m) ==
  [n \in UNION {DOMAIN layers[k] : k \in 1..m} |->
     layers[Max({k \in 1..m : n \in DOMAIN layers[k]})][n]]

\* The environment of one file over those of the files it imports.
Over(q, below) ==
  LET imports == FreshImports(q)
      layers  == [k \in DOMAIN imports |->
                    LET target == Locate(imports[k], q) IN
                    IF target = NoPath THEN <<>>
                    ELSE IF below[target] = NilEnv THEN <<>> ELSE below[target].bindings]
  IN  IF FreshTerm(q) = NoTerm THEN NilEnv
      ELSE [file |-> q,
            bindings |-> Override(Layered(layers, Len(imports)), FreshTerm(q).defs)]

\* Environments of a compilation that follows imports to a depth of n.
FreshEnvs[n \in Nat] ==
  LET below == IF n = 0 THEN [q \in Paths |-> NilEnv] ELSE FreshEnvs[n - 1]
  IN  [q \in Paths |-> Over(q, below)]

\* The environment of FileEnv(p) when no file p reaches is on an import cycle.
FreshEnvironment(p) == FreshEnvs[Cardinality(Paths)][p]

\* The answer of the last FileEnv call stands until the next input write.
Answered == Idle /\ ret # NoRet
Settled  == Answered /\ unnotified = {} /\ Acyclic(ret.path)

(***************************************************************************)
(* Where the layers of the file system meet: the names of the embedded     *)
(* libraries are relative and those of files on disk are absolute; a link  *)
(* gives one file two names, of which the session knows only one.          *)
(***************************************************************************)

\* No file on disk has the name of an embedded library.
LibrariesApart ==
  /\ \A s \in DOMAIN Embedded : InitialDisk[s] = NoText
  /\ \A e \in DiskEdits : Canonical(e[1]) \notin DOMAIN Embedded
  /\ \A s \in DOMAIN Embedded, r \in Roots : Canonical(Under(r, s)) \notin DOMAIN Embedded

\* The editor opens no file that a link leads to.
BuffersUnlinked == \A e \in BufferEdits, p \in Paths : Canonical(p) = e[1] => p = e[1]

\* There are no links at all.
NoLinks == \A p \in Paths : Canonical(p) = p

(***************************************************************************)
(* Safety.                                                                 *)
(***************************************************************************)

\* Incremental equals fresh: the environment an answer carries holds the
\* definitions a compilation from nothing finds, whatever was reused.
FreshEnv == Settled => envs[ret.path].env = FreshEnvironment(ret.path)

\* The terms the engine would reuse without another look are those of the text
\* a session that has read nothing reads.
VerifiedTermsFresh ==
  unnotified = {} =>
    \A p \in Paths : verifiedAt[TermsKey(p)] = revision => terms[p].text = FreshText(p)

\* Every entry the engine would reuse without another look, not only the one
\* just asked for, is fresh: a shortcut taken for one root never poisons the
\* entries another root will read.
VerifiedIsFresh ==
  /\ VerifiedTermsFresh
  /\ Idle /\ unnotified = {} =>
       \A p \in Paths : verifiedAt[EnvKey(p)] = revision /\ Acyclic(p) =>
                          envs[p].env = FreshEnvironment(p)

\* Computations among the first i frames.
Depth(fs, i) == Cardinality({j \in 1..i : fs[j].op = "Compute"})

\* The query stack is exactly the chain of computations on the call stack, and
\* InFlight marks exactly those: a mark left behind would turn every later
\* call into a false cycle, a missing one into endless recursion.
StackDiscipline ==
  /\ Len(queryStack) = Depth(frames, Len(frames))
  /\ \A i \in DOMAIN frames :
       frames[i].op = "Compute" => queryStack[Depth(frames, i)] = frames[i].path
  /\ inFlight = ToSet(queryStack)
  /\ IsInjective(queryStack)

\* An import cycle among the files an answer depends on is reported by one of
\* them, whichever file was edited last to close it.
CycleReported ==
  Answered /\ unnotified = {} /\ OnCycle(ret.path) =>
    \E p \in FreshClosure(ret.path), s \in Specs : <<"ResImportCycle", s>> \in envs[p].diags

\* The text Resolve found is the text the session goes on to read by its key.
OverlayCoherent ==
  \A s \in Specs, p \in Paths :
    Locate(s, p) # NoPath => /\ LocatedText(s, p) # NoText
                            /\ ReadText(Locate(s, p)) = LocatedText(s, p)

(***************************************************************************)
(* Liveness.                                                               *)
(***************************************************************************)

\* Every request is answered: the mutual recursion of FileEnv and
\* NeedsRecompute terminates whatever the files import.
Answers == ~Idle ~> Idle
=============================================================================
