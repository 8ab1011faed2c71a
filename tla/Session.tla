------------------------------- MODULE Session -------------------------------
(***************************************************************************)
(* Session::Process: the file environment of the root, then the evaluation *)
(* of `process' in it.  The evaluator's memo tables outlive the call, and  *)
(* component and library targets are resolved from inside the evaluation,  *)
(* where the query layer no longer records dependencies.                   *)
(*                                                                         *)
(* Of the term language the model keeps the terms that decide which cache  *)
(* is read next: a number, an identifier, component(spec), library(spec)   *)
(* and library(spec).name.  Each has at most one sub-evaluation, so Eval   *)
(* and ToSymbolic are one stack of calls and a set of pending boxes.       *)
(***************************************************************************)
EXTENDS QueryProperties, FiniteSetsExt

CONSTANT MaxEvalDepth  \* the bound on nested Eval calls

ASSUME SessionAssumption == MaxEvalDepth \in Nat \ {0}

VARIABLES
  phase,     \* "idle", "env": FileEnv(root) runs, "eval": EvalEntry runs
  before,    \* FileEnvGeneration when Process began
  memo,      \* Evaluator::Memo, by <<term, env>>
  symbolic,  \* Evaluator::Symbolic, by box
  evals,     \* the nested Eval calls, innermost last
  pending,   \* the boxes whose ToSymbolic call is under way
  box,       \* what the call that just returned handed back
  answer,    \* the box of the last Process call
  metadata,  \* Session::Metadata
  evalDiags  \* Session::EvalDiags

evaluation == <<memo, symbolic, evals, pending, box>>
outcome    == <<answer, metadata, evalDiags>>
processVars == <<phase, before, evaluation, outcome>>
sessionVars == <<vars, processVars>>

(***************************************************************************)
(* Terms, boxes and calls.                                                 *)
(***************************************************************************)

IntTerm(n)       == <<"int", n>>
IdentTerm(n)     == <<"ident", n>>
ComponentTerm(s) == <<"component", s>>
LibraryTerm(s)   == <<"library", s>>
AccessTerm(s, n) == <<"access", s, n>>
ProcessTerm      == IdentTerm("process")

NoBox    == <<"none">>
ErrorBox == <<"error">>
InFlightMark == <<"in flight">>
IntBox(n)         == <<"number", n>>
ProcessOf(env)    == <<"process", env>>      \* closure of `process' in env
EnvironmentOf(env) == <<"environment", env>> \* closure that only has members
OpaqueEnvironment == <<"environment box">>

Call(t, env) == [term |-> t, env |-> env, awaits |-> "start"]

Empty == [x \in {} |-> NoBox]
Put(f, x, y) == [k \in DOMAIN f \cup {x} |-> IF k = x THEN y ELSE f[k]]

Innermost == evals[Len(evals)]
Callers   == SubSeq(evals, 1, Len(evals) - 1)
MemoKey(f) == <<f.term, f.env>>
CallDepth     == Cardinality({i \in DOMAIN evals : evals[i].awaits # "start"})

\* Session::FileEnvGeneration.
Generation == MapThenSumSet(LAMBDA p : changedAt[EnvKey(p)], Paths)

\* The declared name and the file name close the metadata of the imports.
Titled(meta, p) ==
  meta \cup {<<p, "filename">>}
       \cup IF <<NoPath, "name">> \in meta THEN {} ELSE {<<p, "stem">>}

(***************************************************************************)
(* Process: before and after the file environment.                         *)
(***************************************************************************)

ProcessRequest(p) ==
  /\ phase = "idle" /\ Request(p)
  /\ phase' = "env"
  /\ before' = Generation
  /\ UNCHANGED <<evaluation, outcome>>

\* Mutant: the boxes of earlier environments are always kept.
NeverOutdated == FALSE

\* Did computing the root's environment change that of any file?  Also of one
\* that is a component of the root and whose imported names the root hides.
MemoOutdated == Generation # before

\* FileEnv(root) has returned.  Memoized boxes are dropped when it changed any
\* file environment; a root that cannot be read ends the call.
EnvReady ==
  LET env == envs[root].env IN
  /\ phase = "env" /\ Idle
  /\ memo' = IF MemoOutdated THEN Empty ELSE memo
  /\ symbolic' = IF MemoOutdated THEN Empty ELSE symbolic
  /\ metadata' = Titled(envs[root].meta, root)
  /\ IF env = NilEnv
     THEN phase' = "idle" /\ answer' = ErrorBox /\ UNCHANGED evals
     ELSE phase' = "eval" /\ evals' = <<Call(ProcessTerm, env)>> /\ UNCHANGED answer
  /\ ret' = NoRet
  /\ UNCHANGED <<vfsVars, stamps, entries, results, queryStack, frames>>
  /\ UNCHANGED <<before, pending, box, evalDiags>>

(***************************************************************************)
(* Evaluator::Eval.                                                        *)
(***************************************************************************)

Starting(kinds) ==
  /\ phase = "eval" /\ Idle /\ evals # <<>>
  /\ Innermost.awaits = "start" /\ Innermost.term[1] \in kinds

Admitted(kinds) ==
  /\ Starting(kinds) /\ MemoKey(Innermost) \notin DOMAIN memo /\ CallDepth < MaxEvalDepth

Resumed(wait) ==
  /\ phase = "eval" /\ Idle /\ evals # <<>>
  /\ Innermost.awaits = wait

\* The innermost call returns b; an Eval that did any work memoizes it.
Return(b) == evals' = Callers /\ box' = b
Memoize(b) == memo' = Put(memo, MemoKey(Innermost), b) /\ Return(b)

\* The innermost call waits for a nested Eval of t in env.
Nest(wait, t, env) ==
  /\ evals' = Append(Append(Callers, [Innermost EXCEPT !.awaits = wait]), Call(t, env))
  /\ box' = NoBox

Mark == memo' = Put(memo, MemoKey(Innermost), InFlightMark)

Raise(d) == raised' = raised \cup {d}
EngineQuiet == UNCHANGED <<vfsVars, stamps, entries, terms, resolved, envs, control>>
EvalFrame   == UNCHANGED <<phase, before, symbolic, pending, outcome>>

AnyTerm == {"int", "ident", "component", "library", "access"}

\* A memo hit; the mark of a call still under way means a definition that
\* needs its own value.
EvalMemoHit ==
  LET hit == memo[MemoKey(Innermost)] IN
  /\ Starting(AnyTerm) /\ MemoKey(Innermost) \in DOMAIN memo
  /\ IF hit = InFlightMark
     THEN Return(ErrorBox) /\ Raise(<<"EvalLoopDetected", Innermost.term>>)
     ELSE Return(hit) /\ UNCHANGED raised
  /\ EngineQuiet /\ EvalFrame /\ UNCHANGED memo

EvalTooDeep ==
  /\ Starting(AnyTerm) /\ MemoKey(Innermost) \notin DOMAIN memo
  /\ CallDepth >= MaxEvalDepth
  /\ Return(ErrorBox) /\ Raise(<<"EvalDepthExceeded", Innermost.term>>)
  /\ EngineQuiet /\ EvalFrame /\ UNCHANGED memo

EvalInt ==
  /\ Admitted({"int"})
  /\ Memoize(IntBox(Innermost.term[2]))
  /\ EngineQuiet /\ EvalFrame /\ UNCHANGED raised

\* EvalIdent in the layer env, whose definitions are evaluated in env itself.
Lookup(name, env) ==
  IF name \in DOMAIN env.bindings
  THEN Mark /\ Nest("value", env.bindings[name], env) /\ UNCHANGED raised
  ELSE Memoize(ErrorBox) /\ Raise(<<"EvalUnboundName", name>>)

EvalIdent ==
  /\ Admitted({"ident"})
  /\ Lookup(Innermost.term[2], Innermost.env)
  /\ EngineQuiet /\ EvalFrame

EvalAccess ==
  /\ Admitted({"access"})
  /\ Mark /\ Nest("base", LibraryTerm(Innermost.term[2]), Innermost.env)
  /\ EngineQuiet /\ EvalFrame /\ UNCHANGED raised

EvalAccessReturned ==
  /\ Resumed("base") /\ box # NoBox
  /\ IF box = ErrorBox THEN Memoize(ErrorBox) /\ UNCHANGED raised
     ELSE Lookup(Innermost.term[3], box[2])
  /\ EngineQuiet /\ EvalFrame

EvalReturned ==
  /\ Resumed("value") /\ box # NoBox
  /\ Memoize(box)
  /\ EngineQuiet /\ EvalFrame /\ UNCHANGED raised

\* Target: resolve the spec as seen from the file the environment belongs to,
\* then ask the query layer for the environment of the file found.
EvalTarget ==
  LET s      == Innermost.term[2]
      file   == Innermost.env.file
      target == ResolveNow(s, file)
  IN
  /\ Admitted({"component", "library"})
  /\ RefreshResolve(s, file)
  /\ IF target = NoPath
     THEN /\ Memoize(ErrorBox) /\ Raise(<<"ResFileNotFound", s>>) /\ UNCHANGED frames
     ELSE /\ Mark /\ frames' = <<CallFrame(target)>>
          /\ evals' = Append(Callers, [Innermost EXCEPT !.awaits = "target"])
          /\ UNCHANGED <<box, raised>>
  /\ UNCHANGED <<buffers, disk, searchPaths, unnotified, stamps, deps, inFlight, uncached,
                 terms, envs, queryStack, ret>>
  /\ EvalFrame

EvalTargetReturned ==
  LET target == envs[ret.path] IN
  /\ Resumed("target") /\ ret # NoRet
  /\ IF target.env = NilEnv
     THEN Memoize(ErrorBox) /\ Raise(<<"ResFileNotFound", Innermost.term[2]>>)
     ELSE /\ Memoize(IF Innermost.term[1] = "library" THEN EnvironmentOf(target.env)
                     ELSE ProcessOf(target.env))
          /\ UNCHANGED raised
  /\ metadata' = metadata \cup target.meta
  /\ ret' = NoRet
  /\ UNCHANGED <<vfsVars, stamps, entries, terms, resolved, envs, queryStack, frames>>
  /\ UNCHANGED <<phase, before, symbolic, pending, answer, evalDiags>>

(***************************************************************************)
(* Evaluator::ToSymbolic of the box Eval returned.  Closures on `process'  *)
(* are evaluated and normalized in turn; every box of such a chain has the *)
(* same normal form, so the order of the pending calls does not matter.    *)
(***************************************************************************)

Normalizing == phase = "eval" /\ Idle /\ evals = <<>> /\ box # NoBox

NormalizeClosure ==
  /\ Normalizing /\ box \notin DOMAIN symbolic /\ box[1] = "process"
  /\ pending' = pending \cup {box}
  /\ evals' = <<Call(ProcessTerm, box[2])>>
  /\ box' = NoBox
  /\ UNCHANGED <<vars, phase, before, memo, symbolic, outcome>>

\* The chain ends: all of it is memoized and Process returns.
NormalForm == IF box \in DOMAIN symbolic THEN symbolic[box]
              ELSE IF box[1] = "environment" THEN OpaqueEnvironment ELSE box

ProcessReturn ==
  /\ Normalizing /\ (box \in DOMAIN symbolic \/ box[1] # "process")
  /\ symbolic' = [b \in DOMAIN symbolic \cup pending \cup {box} |->
                    IF b \in DOMAIN symbolic THEN symbolic[b] ELSE NormalForm]
  /\ pending' = {} /\ box' = NoBox
  /\ phase' = "idle"
  /\ answer' = NormalForm
  /\ evalDiags' = raised
  /\ UNCHANGED <<vars, before, memo, evals, metadata>>

EvalStep ==
  \/ EnvReady
  \/ EvalMemoHit \/ EvalTooDeep \/ EvalInt \/ EvalIdent \/ EvalReturned
  \/ EvalAccess \/ EvalAccessReturned \/ EvalTarget \/ EvalTargetReturned
  \/ NormalizeClosure \/ ProcessReturn

SessionStep == EvalStep \/ (Step /\ UNCHANGED processVars)

\* An input write between two calls; what the caller holds is out of date.
SessionInput ==
  /\ phase = "idle" /\ Input
  /\ answer' = NoBox
  /\ UNCHANGED <<phase, before, evaluation, metadata, evalDiags>>

SessionInit ==
  /\ Init
  /\ phase = "idle" /\ before = 0
  /\ memo = Empty /\ symbolic = Empty
  /\ evals = <<>> /\ pending = {} /\ box = NoBox
  /\ answer = NoBox /\ metadata = {} /\ evalDiags = {}

SessionNext ==
  \/ SessionInput
  \/ \E p \in RootPaths : ProcessRequest(p)
  \/ SessionStep

\* The caller waits for Process, so a started call keeps running.
SessionSpec == SessionInit /\ [][SessionNext]_sessionVars /\ WF_sessionVars(SessionStep)

(***************************************************************************)
(* The reference: evaluation without memo tables over fresh environments.  *)
(* seen holds the calls under way.                                         *)
(***************************************************************************)

FreshTarget(s, env) ==
  LET target == Locate(s, env.file)
      found  == FreshEnvironment(target)
  IN  IF target = NoPath THEN ErrorBox
      ELSE IF found = NilEnv THEN ErrorBox ELSE EnvironmentOf(found)

RECURSIVE FreshEval(_, _, _)
FreshEval(t, env, seen) ==
  LET Name(n, e) == IF n \in DOMAIN e.bindings
                    THEN FreshEval(e.bindings[n], e, seen \cup {<<t, env>>})
                    ELSE ErrorBox
      base == FreshTarget(t[2], env)
  IN
  IF <<t, env>> \in seen \/ Cardinality(seen) >= MaxEvalDepth THEN ErrorBox
  ELSE CASE t[1] = "int"       -> IntBox(t[2])
         [] t[1] = "ident"     -> Name(t[2], env)
         [] t[1] = "library"   -> base
         [] t[1] = "component" -> IF base = ErrorBox THEN base ELSE ProcessOf(base[2])
         [] t[1] = "access"    -> IF base = ErrorBox THEN base ELSE Name(t[3], base[2])

RECURSIVE FreshSymbolic(_)
FreshSymbolic(b) ==
  IF b[1] = "process" THEN FreshSymbolic(FreshEval(ProcessTerm, b[2], {}))
  ELSE IF b[1] = "environment" THEN OpaqueEnvironment ELSE b

FreshProcess(p) ==
  LET env == FreshEnvironment(p) IN
  IF env = NilEnv THEN ErrorBox ELSE FreshSymbolic(FreshEval(ProcessTerm, env, {}))

\* Process has returned and no input was written since.
Processed == phase = "idle" /\ answer # NoBox

(***************************************************************************)
(* Properties.                                                             *)
(***************************************************************************)

\* The box of an answer is the box of a compilation from nothing, whatever the
\* memo tables kept from earlier programs, roots and targets: ClearMemo drops them
\* also when only the environment of a target changed (the comment of Process).
ProcessIsFresh == Processed /\ unnotified = {} => answer = FreshProcess(root)

\* Every Process call returns: a definition that needs itself meets its own mark
\* in the memo, and the depth of evaluation is bounded.
ProcessReturns == phase # "idle" ~> phase = "idle"
=============================================================================
