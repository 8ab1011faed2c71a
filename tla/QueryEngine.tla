----------------------------- MODULE QueryEngine -----------------------------
(***************************************************************************)
(* The revision-stamped query layer of src/query: which cached results are *)
(* reused after an edit, and which are recomputed.                         *)
(*                                                                         *)
(* FileEnv, NeedsRecompute and ComputeFileEnv call one another recursively *)
(* along the import graph.  The recursion is a stack of frames and every   *)
(* Next step is one iteration of a loop of the topmost frame.  TermsOf and *)
(* Resolve never call back into the engine, so each is one atomic          *)
(* refresh inside the step that calls it.                                  *)
(*                                                                         *)
(* A text is [root, layout]: root stands for the interned term (imports,   *)
(* definitions, declarations, whether a syntax error left a Hole), layout  *)
(* for the bytes that parsing does not keep in the term.                   *)
(***************************************************************************)
EXTENDS Vfs, FiniteSets

CONSTANTS
  Names,       \* identifiers a file may define
  NoTerm,      \* ValueId of a file that could not be read
  NilEnv,      \* EnvId of no environment
  Uncomputed,  \* no entry in EnvResults
  InitialDisk, \* the files on disk when the session starts
  BufferEdits, \* the <<path, text>> pairs the editor may open as a buffer
  DiskEdits,   \* the <<path, text>> pairs another program may write
  RootPaths,   \* the paths a client may ask for
  MaxRevision, \* bound on the revision counter
  MaxPaths     \* bound on the number of search paths

ASSUME EngineAssumption ==
  /\ MaxRevision \in Nat /\ MaxPaths \in Nat
  /\ \A t \in Texts : /\ t.root # NoTerm
                      /\ t.root.imports \in Seq(Specs)
                      /\ DOMAIN t.root.defs \subseteq Names
                      /\ t.root.broken \in BOOLEAN
  /\ InitialDisk \in Overlay
  /\ \A p \in Paths : InitialDisk[p] # NoText => Canonical(p) = p
  /\ BufferEdits \subseteq Paths \X Texts
  /\ DiskEdits \subseteq Paths \X (Texts \cup {NoText})
  /\ RootPaths \subseteq Paths

VARIABLES
  revision,    \* Session::Revision
  root,        \* Session::Root
  changedAt,   \* Entry::ChangedAt, by key
  verifiedAt,  \* Entry::VerifiedAt, by key; 0 is never
  deps,        \* Entry::Deps of the FileEnv entries, by path
  inFlight,    \* paths whose FileEnv entry is InFlight
  uncached,    \* paths whose FileEnv entry is Uncached
  terms,       \* TermsResults
  resolved,    \* ResolveResults, by <<spec, importer>>
  envs,        \* EnvResults
  queryStack,  \* Session::Stack: the paths whose FileEnv is being computed
  raised,      \* Eval.Diags, as far as building layers raises any
  frames,      \* the C++ call stack of the three functions, topmost last
  ret          \* what the call that just returned handed back

stamps  == <<revision, root>>
entries == <<changedAt, verifiedAt, deps, inFlight, uncached>>
results == <<terms, resolved, envs, raised>>
control == <<queryStack, frames, ret>>
engineVars == <<stamps, entries, results, control>>
vars == <<vfsVars, engineVars>>

(***************************************************************************)
(* Keys, results and frames.                                               *)
(***************************************************************************)

TextKey(p)       == <<"FileText", p>>
TermsKey(p)      == <<"Terms", p>>
EnvKey(p)        == <<"FileEnv", p>>
ResolveKey(s, p) == <<"Resolve", s, p>>
VfsKey           == <<"VfsRevision">>

Key == {TextKey(p) : p \in Paths} \cup {TermsKey(p) : p \in Paths}
         \cup {EnvKey(p) : p \in Paths} \cup {VfsKey}
         \cup {ResolveKey(s, p) : s \in Specs, p \in Paths}

\* Entries whose dependencies are other entries of the recursion.
DepKey == Key \ ({TextKey(p) : p \in Paths} \cup {VfsKey})

NoTerms     == [root |-> NoTerm, text |-> NoText, diags |-> {}]
EmptyResult == [env |-> NilEnv, bindings |-> <<>>, meta |-> {}, diags |-> {}]
NoResult    == [EmptyResult EXCEPT !.env = Uncomputed]

NoRet == [path |-> NoPath, cycle |-> FALSE]

\* FileEnv(p) has just been called.
CallFrame(p) ==
  [op |-> "FileEnv", path |-> p, rest |-> <<>>, stale |-> FALSE, acc |-> EmptyResult]
\* NeedsRecompute is at the first of the dependencies in rest.
VerifyFrame(p, rest, stale) ==
  [op |-> "Verify", path |-> p, rest |-> rest, stale |-> stale, acc |-> EmptyResult]
\* ComputeFileEnv is at the first of the imports in rest.
ComputeFrame(p, rest, diags) ==
  [op |-> "Compute", path |-> p, rest |-> rest, stale |-> FALSE,
   acc |-> [EmptyResult EXCEPT !.diags = diags]]

Idle     == frames = <<>>
Top      == frames[Len(frames)]
Below    == SubSeq(frames, 1, Len(frames) - 1)
Replace(f) == Append(Below, f)
Running(op) == ~Idle /\ Top.op = op

\* Later definitions replace earlier ones of the same name.
Override(f, g) ==
  [n \in DOMAIN f \cup DOMAIN g |-> IF n \in DOMAIN g THEN g[n] ELSE f[n]]

(***************************************************************************)
(* TermsOf and Resolve.  Each has one dependency, on an input.             *)
(***************************************************************************)

Stale(k, dep) ==
  /\ verifiedAt[k] # revision
  /\ verifiedAt[k] = 0 \/ changedAt[dep] > verifiedAt[k]

\* Parse: a syntax error is reported at a byte offset, so its diagnostic
\* moves with the layout while the term stays the same.
ParseDiags(t) == IF t.root.broken THEN {<<"SynUnexpectedToken", t.layout>>} ELSE {}

Parsed(p) ==
  LET t == ReadText(p) IN
  IF t = NoText THEN [NoTerms EXCEPT !.diags = {<<"ResReadError", p>>}]
  ELSE [root |-> t.root, text |-> t, diags |-> ParseDiags(t)]

TermsStale(p) == Stale(TermsKey(p), TextKey(p))

TermsNow(p) == IF TermsStale(p) THEN Parsed(p) ELSE terms[p]

\* Mutant: the cutoff compares the number of diagnostics only.
SameDiagCount(p) ==
  verifiedAt[TermsKey(p)] # 0 /\ Cardinality(terms[p].diags) = Cardinality(Parsed(p).diags)

\* The early cutoff: term value and number of diagnostics, nothing else.
SameTerms(p) ==
  /\ verifiedAt[TermsKey(p)] # 0
  /\ terms[p].root = Parsed(p).root
  /\ Cardinality(terms[p].diags) = Cardinality(Parsed(p).diags)

TermsChangedAt(p) ==
  IF TermsStale(p) /\ ~SameTerms(p) THEN revision ELSE changedAt[TermsKey(p)]

RefreshTerms(p) ==
  /\ terms' = [terms EXCEPT ![p] = TermsNow(p)]
  /\ changedAt' = [changedAt EXCEPT ![TermsKey(p)] = TermsChangedAt(p)]
  /\ verifiedAt' = [verifiedAt EXCEPT ![TermsKey(p)] = revision]
  /\ diskCache' = IF TermsStale(p) THEN CacheAfterRead(p) ELSE diskCache

ResolveStale(s, p) == Stale(ResolveKey(s, p), VfsKey)

ResolveNow(s, p) ==
  IF ResolveStale(s, p) THEN Locate(s, p) ELSE resolved[<<s, p>>]

ResolveChangedAt(s, p) ==
  IF ResolveNow(s, p) # resolved[<<s, p>>] THEN revision
  ELSE changedAt[ResolveKey(s, p)]

RefreshResolve(s, p) ==
  /\ resolved' = [resolved EXCEPT ![<<s, p>>] = ResolveNow(s, p)]
  /\ changedAt' = [changedAt EXCEPT ![ResolveKey(s, p)] = ResolveChangedAt(s, p)]
  /\ verifiedAt' = [verifiedAt EXCEPT ![ResolveKey(s, p)] = revision]
  /\ diskCache' = IF ResolveStale(s, p) THEN CacheAfterLocate(s, p) ELSE diskCache

\* Record: the entry being computed, if any, depends on k.
Recorded(k) ==
  IF queryStack = <<>> THEN deps
  ELSE LET p == queryStack[Len(queryStack)] IN
       IF \E i \in DOMAIN deps[p] : deps[p][i] = k THEN deps
       ELSE [deps EXCEPT ![p] = Append(@, k)]

(***************************************************************************)
(* The recursion.                                                          *)
(***************************************************************************)

ReturnTo(p, cycle) ==
  /\ frames' = Below
  /\ ret' = [path |-> p, cycle |-> cycle]

\* The entry of p is being computed, and no longer.
PushStack(p) ==
  /\ queryStack' = Append(queryStack, p)
  /\ inFlight' = inFlight \cup {p}

\* Mutant: the InFlight mark is left behind.
PopStackOnly(p) ==
  /\ queryStack' = SubSeq(queryStack, 1, Len(queryStack) - 1)
  /\ UNCHANGED inFlight

PopStack(p) ==
  /\ queryStack' = SubSeq(queryStack, 1, Len(queryStack) - 1)
  /\ inFlight' = inFlight \ {p}

\* The static Cycle result, when p's own computation is already under way:
\* every entry being computed becomes uncached.
EnterCycle ==
  LET p == Top.path IN
  /\ Running("FileEnv") /\ p \in inFlight
  /\ deps' = Recorded(EnvKey(p))
  /\ uncached' = uncached \cup {queryStack[i] : i \in DOMAIN queryStack}
  /\ ReturnTo(p, TRUE)
  /\ UNCHANGED <<vfsVars, stamps, changedAt, verifiedAt, inFlight, results, queryStack>>

EnterVerified ==
  LET p == Top.path IN
  /\ Running("FileEnv") /\ p \notin inFlight /\ p \notin uncached
  /\ verifiedAt[EnvKey(p)] = revision
  /\ deps' = Recorded(EnvKey(p))
  /\ ReturnTo(p, FALSE)
  /\ UNCHANGED <<vfsVars, stamps, changedAt, verifiedAt, inFlight, uncached, results,
                 queryStack>>

\* Walk the recorded dependencies, or recompute without looking at them.
EnterUnverified ==
  LET p     == Top.path
      fresh == p \in uncached \/ verifiedAt[EnvKey(p)] = 0
  IN
  /\ Running("FileEnv") /\ p \notin inFlight
  /\ fresh \/ verifiedAt[EnvKey(p)] # revision
  /\ deps' = Recorded(EnvKey(p))
  /\ frames' = Replace(VerifyFrame(p, IF fresh THEN <<>> ELSE deps[p], fresh))
  /\ UNCHANGED <<vfsVars, stamps, changedAt, verifiedAt, inFlight, uncached, results,
                 queryStack, ret>>

\* One dependency looked at: later than the entry was verified?  The stamp is
\* read anew each time, and a nested call may have moved it.
Advance(f, changed) ==
  Replace([f EXCEPT !.rest = Tail(@), !.stale = @ \/ changed > verifiedAt[EnvKey(f.path)]])

VerifyTerms ==
  LET d == Head(Top.rest) IN
  /\ Running("Verify") /\ Top.rest # <<>> /\ d[1] = "Terms"
  /\ deps' = Recorded(d)
  /\ RefreshTerms(d[2])
  /\ frames' = Advance(Top, TermsChangedAt(d[2]))
  /\ UNCHANGED <<buffers, disk, searchPaths, unnotified, stamps, inFlight, uncached,
                 resolved, envs, raised, queryStack, ret>>

VerifyResolve ==
  LET d == Head(Top.rest) IN
  /\ Running("Verify") /\ Top.rest # <<>> /\ d[1] = "Resolve"
  /\ deps' = Recorded(d)
  /\ RefreshResolve(d[2], d[3])
  /\ frames' = Advance(Top, ResolveChangedAt(d[2], d[3]))
  /\ UNCHANGED <<buffers, disk, searchPaths, unnotified, stamps, inFlight, uncached,
                 terms, envs, raised, queryStack, ret>>

VerifyImport ==
  LET d == Head(Top.rest) IN
  /\ Running("Verify") /\ Top.rest # <<>> /\ d[1] = "FileEnv" /\ ret = NoRet
  /\ frames' = Append(frames, CallFrame(d[2]))
  /\ UNCHANGED <<vfsVars, stamps, entries, results, queryStack, ret>>

VerifyImportReturned ==
  LET d == Head(Top.rest) IN
  /\ Running("Verify") /\ Top.rest # <<>> /\ d[1] = "FileEnv" /\ ret # NoRet
  /\ frames' = Advance(Top, changedAt[d])
  /\ ret' = NoRet
  /\ UNCHANGED <<vfsVars, stamps, entries, results, queryStack>>

VerifyUnchanged ==
  /\ Running("Verify") /\ Top.rest = <<>> /\ ~Top.stale
  /\ verifiedAt' = [verifiedAt EXCEPT ![EnvKey(Top.path)] = revision]
  /\ ReturnTo(Top.path, FALSE)
  /\ UNCHANGED <<vfsVars, stamps, changedAt, deps, inFlight, uncached, results, queryStack>>

\* ComputeFileEnv up to its loop over the statements.
BeginCompute ==
  LET p == Top.path
      t == TermsNow(p)
  IN
  /\ Running("Verify") /\ Top.rest = <<>> /\ Top.stale
  /\ PushStack(p)
  /\ deps' = [deps EXCEPT ![p] = <<TermsKey(p)>>]
  /\ RefreshTerms(p)
  /\ frames' = Replace(ComputeFrame(p, IF t.root = NoTerm THEN <<>> ELSE t.root.imports,
                                    t.diags))
  /\ UNCHANGED <<buffers, disk, searchPaths, unnotified, stamps, uncached, resolved, envs,
                 raised, ret>>

\* Mutant: the loop over the statements stays at the same import.
SkipNothing(f, diag) == [f EXCEPT !.acc.diags = @ \cup {diag}]

SkipImport(f, diag) == [f EXCEPT !.rest = Tail(@), !.acc.diags = @ \cup {diag}]

\* Flat merge of an import's bindings and metadata into what came before.
MergeImport(f, sub) ==
  [f EXCEPT !.rest = Tail(@),
            !.acc.bindings = Override(@, sub.bindings),
            !.acc.meta = @ \cup sub.meta]

ComputeImport ==
  LET p == Top.path
      s == Head(Top.rest)
      target == ResolveNow(s, p)
  IN
  /\ Running("Compute") /\ Top.rest # <<>> /\ ret = NoRet
  /\ deps' = Recorded(ResolveKey(s, p))
  /\ RefreshResolve(s, p)
  /\ frames' = IF target = NoPath THEN Replace(SkipImport(Top, <<"ResFileNotFound", s>>))
               ELSE Append(frames, CallFrame(target))
  /\ UNCHANGED <<buffers, disk, searchPaths, unnotified, stamps, inFlight, uncached,
                 terms, envs, raised, queryStack, ret>>

ComputeImportReturned ==
  LET s == Head(Top.rest) IN
  /\ Running("Compute") /\ Top.rest # <<>> /\ ret # NoRet
  /\ frames' = Replace(IF ret.cycle THEN SkipImport(Top, <<"ResImportCycle", s>>)
                       ELSE MergeImport(Top, envs[ret.path]))
  /\ ret' = NoRet
  /\ UNCHANGED <<vfsVars, stamps, entries, results, queryStack>>

(***************************************************************************)
(* Evaluator::BuildLayer over the statements of one file: declarations are *)
(* namespaced by file unless it is the root, definitions of the file       *)
(* replace imported ones, and a replacement by another value is reported.  *)
(* Equal layers are one EnvId, so the environment is the value itself.     *)
(***************************************************************************)

Layer(p, term, acc) ==
  LET bindings == Override(acc.bindings, term.defs)
      space    == IF p = root THEN NoPath ELSE p
  IN  [env |-> [file |-> p, bindings |-> bindings], bindings |-> bindings,
       meta |-> acc.meta \cup {<<space, d>> : d \in term.declares}, diags |-> acc.diags]

Redefined(term, acc) ==
  {<<"EvalRedefinition", n>> :
     n \in {m \in DOMAIN term.defs \cap DOMAIN acc.bindings : acc.bindings[m] # term.defs[m]}}

\* A file that cannot be read has no statements and no environment.
Built(p, acc) ==
  IF terms[p].root = NoTerm THEN [EmptyResult EXCEPT !.diags = acc.diags]
  ELSE Layer(p, terms[p].root, acc)

\* The end of ComputeFileEnv and of FileEnv.  The result replaces the old one;
\* only another EnvId counts as a change, and an uncached entry stays unverified.
FinishCompute ==
  LET p    == Top.path
      next == Built(p, Top.acc)
  IN
  /\ Running("Compute") /\ Top.rest = <<>>
  /\ envs' = [envs EXCEPT ![p] = next]
  /\ changedAt' = [changedAt EXCEPT ![EnvKey(p)] =
                     IF envs[p].env # next.env THEN revision ELSE @]
  /\ verifiedAt' = [verifiedAt EXCEPT ![EnvKey(p)] = IF p \in uncached THEN 0 ELSE revision]
  /\ raised' = IF terms[p].root = NoTerm THEN raised
               ELSE raised \cup Redefined(terms[p].root, Top.acc)
  /\ PopStack(p)
  /\ ReturnTo(p, FALSE)
  /\ UNCHANGED <<vfsVars, stamps, deps, uncached, terms, resolved>>

Step ==
  \/ EnterCycle \/ EnterVerified \/ EnterUnverified
  \/ VerifyTerms \/ VerifyResolve \/ VerifyImport \/ VerifyImportReturned
  \/ VerifyUnchanged \/ BeginCompute
  \/ ComputeImport \/ ComputeImportReturned \/ FinishCompute

(***************************************************************************)
(* Input writes.  A session is used by one caller at a time, so they find  *)
(* it idle.  They invalidate what a caller still holds (ret).              *)
(***************************************************************************)

Bump(keys) ==
  /\ Idle /\ revision < MaxRevision
  /\ revision' = revision + 1
  /\ changedAt' = [k \in Key |-> IF k \in keys THEN revision + 1 ELSE changedAt[k]]
  /\ ret' = NoRet
  /\ UNCHANGED <<root, verifiedAt, deps, inFlight, uncached, results, queryStack, frames>>

\* Mutant: an edit that failed resolutions and shadowed files do not see.
SetBufferQuietly(p, t) == VfsSetBuffer(p, t) /\ Bump({TextKey(p)})

SetBuffer(p, t)  == VfsSetBuffer(p, t) /\ Bump({TextKey(p), VfsKey})
ClearBuffer(p)   == VfsClearBuffer(p) /\ Bump({TextKey(p), VfsKey})
Touch(p)         == VfsForget(p) /\ Bump({TextKey(p)})
AddSearchPath(r) ==
  /\ Len(searchPaths) < MaxPaths
  /\ VfsAddSearchPath(r) /\ Bump({VfsKey})

\* A disk change by another program, at a moment no call is running.
WriteFile(p, t) == Idle /\ DiskWrite(p, t) /\ UNCHANGED engineVars
EjectLibrary(s, r) == Idle /\ Eject(s, r) /\ UNCHANGED engineVars

Input ==
  \/ \E e \in BufferEdits : SetBuffer(e[1], e[2])
  \/ \E p \in {e[1] : e \in BufferEdits} : buffers[p] # NoText /\ ClearBuffer(p)
  \/ \E p \in {e[1] : e \in DiskEdits} : Canonical(p) \in unnotified /\ Touch(p)
  \/ \E e \in DiskEdits : WriteFile(e[1], e[2])
  \/ \E r \in Roots : AddSearchPath(r)
  \/ \E s \in DOMAIN Embedded, r \in Roots : EjectLibrary(s, r)

(***************************************************************************)
(* Session::Process up to its use of the environment: a new root path is a *)
(* revision of its own, and the evaluator's diagnostics start afresh.      *)
(***************************************************************************)

Request(p) ==
  /\ Idle /\ (root # p => revision < MaxRevision)
  /\ root' = p
  /\ revision' = IF root = p THEN revision ELSE revision + 1
  /\ raised' = {}
  /\ frames' = <<CallFrame(p)>>
  /\ ret' = NoRet
  /\ UNCHANGED <<vfsVars, entries, terms, resolved, envs, queryStack>>

\* A client, or Publish, asks for the terms of one file.
ReadTerms(p) ==
  /\ Idle /\ verifiedAt[TermsKey(p)] # revision
  /\ RefreshTerms(p)
  /\ UNCHANGED <<buffers, disk, searchPaths, unnotified, stamps, deps, inFlight, uncached,
                 resolved, envs, raised, control>>

Init ==
  /\ VfsInit /\ disk = InitialDisk
  /\ revision = 1 /\ root = NoPath
  /\ changedAt = [k \in Key |-> IF k = VfsKey THEN 1 ELSE 0]
  /\ verifiedAt = [k \in Key |-> 0]
  /\ deps = [p \in Paths |-> <<>>]
  /\ inFlight = {} /\ uncached = {}
  /\ terms = [p \in Paths |-> NoTerms]
  /\ resolved = [r \in Specs \X Paths |-> NoPath]
  /\ envs = [p \in Paths |-> NoResult]
  /\ raised = {} /\ queryStack = <<>> /\ frames = <<>> /\ ret = NoRet

Client == \E p \in RootPaths : Request(p) \/ ReadTerms(p)

Next == Input \/ Client \/ Step

\* The caller waits for a call it made, so a started call keeps running.
Spec == Init /\ [][Next]_vars /\ WF_vars(Step)
=============================================================================
