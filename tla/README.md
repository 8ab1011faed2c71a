# FaustLens in TLA+

A verification project for FaustLens (`src/`): a compiler for the Faust language that answers
incrementally, compiles to ARM64, runs audio callbacks and moves DSP state between programs. The
modules here model its stateful parts and its algorithms, TLC checks them on small instances, and
TLAPS proves the invariants that matter most for every instance.

All paths below are relative to the repository root. `PROJECT.json` lists, per definition, the
source lines it stands for (`map`), the runs, the mutants, the hazards and the theorems.

## 1. Inventory

FaustLens turns text into sound in this order: Vfs → Lexer → Parser → Term → (query engine) →
Evaluator → Box → Propagate → Signal → Simplify/Type/Interval → Plan → Interpreter or ARM64 code →
Instance. A `Session` owns the pools of all of it up to Box; a Plan is immutable and owned by the
caller.

| Part | State it keeps | Operations | What makes it correct |
|---|---|---|---|
| Files, `src/files/Vfs.*` | buffers, disk cache, search paths | SetBuffer, ClearBuffer, Forget, AddSearchPath, Resolve, Read, Eject | the text read by key is the text the resolution chose |
| Query engine, `src/query/Query.*` | revision, stamps, dependencies, results, InFlight, Uncached, QueryStack | TermsOf, Resolve, FileEnv / NeedsRecompute / ComputeFileEnv, SetBuffer, ClearBuffer, Touch, AddSearchPath, Process | incremental = fresh, recursion returns, bookkeeping balanced |
| Environments, `src/eval/Env.*` | interned layers of bindings | PushLayer, PushValue, PushBarrier, Lookup, ResolutionOf, ReplaceDefs | a name is read in the layer its author means |
| Evaluator, `src/eval/Eval.*`, `Apply.cpp`, `Fold.*` | Memo, PmMemo, Symbolic, SymbolicEnvs, slots, Diags, Metadata | Eval, Apply, ToSymbolic, pattern matching, iteration, modulation, folding | tables are no part of the meaning, names and order of arguments neither, loops are found, depth is bounded |
| Materialization, `src/eval/Expand.*`, `Lift.*` | none: a function of a selection | ContextAt, Expand, Lift | what is written in place of an expression is heard as it was |
| Parser side, `src/syntax/*` | token cursor, recovery frames, interned terms, refs | Lex, Parse, Print, Splice, edits | tokens cover the text, print/parse round trip, PutGet |
| Boxes, `src/box/*` | interned boxes with arity | Seq, Par, Split, Merge, Rec, labels | a box of known arity has that many signals, labels lead to the paths read later |
| Propagation and simplification, `src/signal/Propagate.*`, `Simplify.*`, `NormalForm.*`, `Promote.*`, `Rewrite.h` | interned signals and recursive groups, slots, group path, memo, widgets met | Propagate, Simplify, NormalizeAddTerm, Promote, ClampTables | the signals mean what the box denotes, after each pass |
| User interface, `src/signal/Ui.*` | none: a projection of the widgets met and those left | KeepCounts, BuildUiTree, CheckPaths | a widget is listed where the program reads it |
| Types, intervals and plans, `src/signal/*` | inferred types and intervals, plans | InferTypes, interval arithmetic, Lower | soundness of intervals, order of effects, delay lines |
| Executable memory, `src/runtime/Executable.*`, `Native.*` | one arena, its free list, a mutex; reference-counted code | Publish, destroy, Create, Execute | no byte handed out twice, code outlives its execution |
| State migration, `src/runtime/Migrate.*` | matches between two plans | MatchState, TransferState | injective, content first, stable |
| Plans, `src/signal/Plan.*`, `Schedule.*` | one plan under construction: scopes, bands, guards | Lower | the plan computes what the graph means |
| Instances and interpreter, `src/runtime/Instance.*`, `Interp.*` | registers, state fields, controls | Constants, ResetControls, Clear, SetControl, Compute | life cycle, same results as native code |
| ARM64 back end, `src/arm64/*` | registers, homes, spill slots, code | Allocate, fold, coalesce, emit, Artifact read/write | every operand holds the value its definition computed |

Interactions: the evaluator calls back into the session (`Eval.Resolve`) in the middle of an
evaluation, which calls `FileEnv` and changes stamps, memo inputs and metadata; plans are shared
between threads while instances are not, but for their controls; the audio thread executes code that control threads
publish and retire; a consumer replaces a program by matching and transferring state.

Hard behaviours: mutual recursion with hand-kept marks over an import graph that changes between
calls; caches invalidated by comparing parts of results; lazy resolution from inside evaluation;
first-fit memory with merging under a mutex and last-reference destructors; greedy matching with
ties; ring buffers under a wrapping frame counter and under guards.

Nothing in the repository is persisted by the program and no messages are lost, so there are no
crash-recovery or delivery hazards; a `Session` requires external synchronisation
(`src/ARCHITECTURE.md`), so the only real concurrency is in executable memory and controls.

## 2. Modules

| Module | Models | Composes |
|---|---|---|
| `Vfs` | `src/src/files/Vfs.cpp`: overlay, resolution order, disk cache, changes by other programs | |
| `QueryEngine` | `src/src/query/Query.cpp`: stamps, dependencies, `FileEnv` as a stack of frames, every input write | `Vfs` |
| `QueryProperties` | the reference compilation from nothing and the properties of the engine | `QueryEngine` |
| `Session` | `Session::Process`, the resolver callback and the memo tables of `src/src/eval`; evaluation without tables and the properties of `Process` | `QueryProperties` |
| `CodeArena` | `Executable.cpp`, `Native.cpp`, threads publishing, sharing, executing and retiring code | |
| `Migrate` | `MatchState` of `Migrate.cpp`, one field or pair a step | |
| `DelayHistory` | abstract: the samples a delay line promises to hand out | |
| `DelayLine` | layout, stores, loads and epilogue of one delay line (`Schedule.cpp`, `Plan.cpp`) and `TransferState` | implements `DelayHistory` |
| `Prepare` | `src/src/arm64/Compile.cpp`: load forwarding, store hoisting, retained values; the meaning of a band | |
| `Registers` | `Emit::Allocate` one item a step, aliases, coalescing, call masks, the peeled frame, the boundary, and the machine that runs the result | `Prepare` |
| `Lexer` | `Lexer.cpp`: tokens, modes, and the test whether two texts may stand side by side | |
| `Grammar` | `Prec.cpp` and what `Parser.cpp` reads for each construct, as data | |
| `Parser` | `Parser.cpp`: activations, precedence climbing, error recovery, holes, the value of each node | `Lexer`, `Grammar` |
| `Printer` | `Printer.cpp`: the text of a term, parentheses and joints | `Parser` |
| `Syntax` | parse, edit one place, parse again; print what is clean and parse that | `Printer` |
| `Intervals` | integers of a fixed width, `Interval.cpp` over them | |
| `Signals` | the signal graph and what is inferred from it: rates, natures, intervals, longest delays, conditions (`Type.cpp`, `Promote.cpp`, `Schedule.cpp`, `Conditions` of `Plan.cpp`) | `Intervals` |
| `Lowering` | `Lowering::Run` and `Prune` of `Plan.cpp`: from a graph to a plan | `Signals` |
| `Player` | `Layout.cpp`, `Instance.cpp`, `Interp.cpp`: one instance of a plan | `Lowering` |
| `Plans` | lower, initialise, play block by block while widgets move; beside it, abstract, what a graph means frame by frame, without registers, lines or guards | `Player` |
| `Terms` | signals as terms: `Signal.h`, `Signal.cpp` (interning, groups, order), `Rewrite.h`; exact fractions for literals | `Intervals` |
| `Simplify` | `Simplify.cpp`: the rewrite rules of one node | `Terms` |
| `NormalForm` | `NormalForm.cpp`: sums of products, cancelling, factoring, rebuilding; `Simplify` over a graph | `Simplify` |
| `Propagate` | `Box.cpp`, `Label.cpp`, `Propagate.cpp`: arities, errors, the signals a box makes of its inputs | `Simplify` |
| `Streams` | abstract: what a box denotes, and what a signal graph sounds like, frame by frame | `Propagate` |
| `Environments` | `Env.cpp`: layers, bindings, barriers, look-up; of `Eval.cpp` clauses of one name, what a layer binds, `letrec` as `with`; `Fold.cpp`: the number a closed box is; of `Apply.cpp` matching arguments with rules, widgets replaced by what modulates them | `Terms`, `Propagate` |
| `Evaluate` | `Eval.cpp`, `Apply.cpp`: from terms to boxes, with the four tables | `Environments` |
| `Programs` | `Expand.cpp`, `Lift.cpp`: the scope of a selected expression, boxes written back as terms; a program processed, previewed, materialized and rephrased over one evaluator | `Evaluate`, compared with `Streams` |
| `Circuits` | `Graph`'s constructor, `Normalize`, `Promote.cpp` and `Ui.cpp`: propagate, promote, simplify, promote again | `NormalForm`, compared with `Streams` |
| `QueryProofs`, `CodeArenaProofs`, `MigrateProofs`, `PrepareProofs`, `RegistersProofs`, `SyntaxProofs`, `DelayLineProofs` | theorems | the component each is named after; `RegistersProofs` is over `PrepareProofs`, which is about the plans `Registers` assumes |
| `SequenceFacts` | lemmas about sequences, folds and least elements that several proofs cite | |
| `MCQuery`, `MCSession`, `MCCodeArena`, `MCMigrate`, `MCRegisters`, `MCSyntax`, `MCPlans`, `MCCircuits`, `MCPrograms` | instances for TLC (`DelayLine` is its own: its constants are numbers) | |

### How state and actions correspond to the code

**Vfs.** `buffers`, `diskCache`, `searchPaths` are the members of `Vfs`; `disk` is the outside
world, and `unnotified` remembers files another program changed without a `Touch`, because nothing
can be promised about those. Paths are opaque; joining, normalising and canonicalising are constant
operators, so an instance may have links and odd spellings.

**Query engine.** An entry of `Session::Entries` is a key of `changedAt` / `verifiedAt`; `deps`
holds the dependency list of `FileEnv` entries (the other entries have one fixed dependency). The
C++ recursion is a stack `frames` with a return register `ret`: `FileEnv` pushes a *Verify* frame
that walks recorded dependencies (`NeedsRecompute`) or a *Compute* frame that walks import
statements (`ComputeFileEnv`). One action per loop iteration, call and return. `env` values stand
for `EnvId`: layers are hash-consed, so equal layers have equal ids. Input writes and client calls
happen only when the stack is empty: a session is externally synchronised.

**Session.** `Process` is `ProcessRequest`, the query steps, `EnvReady` (`MemoOutdated`, the comparison
of the environments' generation, and the invalidation of both tables), the evaluation steps and `ProcessReturn`. Terms
are reduced to those that choose which cache is read: numbers, names, components, libraries and
members of libraries.

**Code arena.** `free` is `Arena::Free`, `region`/`published` the live `Executable` objects,
`holds` the `shared_ptr`s. The mutex is held through one action for `Publish`, and across
`Release`, `Merge`*, `Unlock` for the destructor.

**Migration.** `MatchState` runs `SkipField`/`MatchHash`/`LeaveUnmatched` per new field,
`BeginShapes`, then one pair per `MatchShape`/`SkipPair` step in the sorted order, then `Finish`.

**Delay lines.** A frame is `OpenFrame`, `Store` or `Hold`, and the epilogue: `AdvanceIota` for
rings or the shift, one slot a step. `Transfer` is `TransferState` at a frame boundary.

**Registers.** An *item* is a plan value or a field a sample entry caches in a register. `life` is
`Emit::Alloc` (`LifeOf`: retained values and cached fields live throughout, a value that enters a
loop lives to its end; a retained value is not loaded at entry when the control part writes it first
outside guards and loops). `AllocateItem` is one turn of the loop of `Allocate` with its two
evictions; where several items cost the same the model takes any, the code the first of its order.
`Settle` is what follows the loop: loads that alias their field (`Aliased`), stores whose source is
computed in the register of the field (`Coalesced`; of the code that a layout is made for only the
stores that are in it count), `CallMasks`, and the choice of `Steady` to
give the first frame code of its own. The machine then runs the entry: `Enter` and `Leave` are the
boundary loads and stores, `Invoke` is a call that clobbers what the mask does not save,
`NextFrame` changes to the layout of the later frames. `meant` holds what the interpreter holds at
the same instruction, so correctness is a comparison of two runs of one plan. Left out: integer
registers (selectors, indices, counters), `BoundIndices`, `FoldInstructions`, `SelectImmediate`,
the constants `Steady` folds, and the encoding of instructions.

**Syntax.** A text is a sequence of atoms (a mark, a space, a digit, a word); letters are not
looked at, so a word that a keyword would be is a keyword. The recursive descent of `Parser.cpp` is
a stack of activations, each with the symbols it has still to read (`Grammar` gives them as data),
the children built so far and `base`, where its orphans begin (`OrphanBase`). One step reads a
symbol, opens or closes an activation, or recovers: `SyntaxError` is thrown to the innermost
activation of `ParseItems`, which skips to a synchronising token (`Sync`) and puts a *hole* over
the orphans. Nodes are numbered bottom-up as `RefBuilder` numbers them; a term is the tree of its
labels, because terms are hash-consed. Left out: the preorder copy of the references and look-up
by offset, indentation, and spans retained by the printer (they belong to `Splice.cpp`).

**Plans.** Lowering is one call, so `Lowering` is a set of operators that take the lowering so far
and return it further on, in the order of the C++ statements (`Then` is the early return after a
failure); `s.sc` is `Scope`, `s.code` the three bands, `s.r` the value a helper returns. A condition
is its set of clauses instead of a number in a table, and the numbers of the registers two arguments
of one call allocate are given from left to right, which C++ leaves open. `Player` runs the plan one
instruction at a time in `Pass` and notes two things the program does not: registers read that
nothing has written since the frame began (`stale`) and lines indexed outside (`beyond`, where
`Interp.cpp` clamps). The actions of `Plans` are the calls of a host: `Initialise` (`Instance::Init`),
`RunConstants`, `ResetControls`, `ClearState`, `SetControl`, and a block cut into `StartBlock`
(control band), `PlayFrame` and `EndBlock` (registers kept), since another thread may move a widget
between any two. The section *Meaning* of `Plans` says what a frame should give: a node is *on* when some path from an
output meets only true conditions, a node of sample rate that is off keeps its value, a delay reads
what its operand was that many on-frames ago. It shares the tree walk and the arithmetic with the
code's model, and none of registers, lines, guards or tables in fields.
`Intervals` has integers of `IntBits` bits, infinity is `Huge`, and the resolution of an interval
is reduced to whether it is whole (`Lsb >= 0`). Real numbers are integers. Left out: foreign
functions, sound files, bit casts, `Enable`, real-valued functions, shifts, division and remainder.

**Circuits.** A signal is a term, since the arena hash-conses nodes: terms of one content are one
signal. Only a recursive group has an identity of its own, its place in the store `groups`, where it
is opened before its branches exist and closed when they do (`OpenRec`, `CloseRec`, which may find
that the group exists already). `Rewrite` is `Rewriter::Go` with its table of what is done. The
propagator is passed from call to call with its memo, the slots bound, the group path and the
widgets met. A pass is one action: `PropagateBox`, `PromoteSignals`, `SimplifySignals`,
`PromoteAgain`, as `Normalize` calls them. Where the code tries one rewrite after another, the model
concatenates the results of those that fit (`When`) and takes the first. A map ordered by signal
ids is iterated in any fixed order, which changes the association of a sum and not its meaning.
`Streams` is the reference: `Heard` interprets a box directly (streams in, streams out, feedback
frame by frame), `Sounds` a signal graph, and the properties compare the two over `Frames` frames of
each stimulus. Literals are exact fractions, so the rounding of doubles is not seen; integers have
`IntBits` bits and wrap. A value the language leaves undefined (division by zero, a negative delay)
is compared with nothing (`SameWhereDefined`). Left out: `ClampTables` (it needs intervals of
terms; indices played stay inside), foreign functions and constants, sound files, functions whose
values are irrational, real-valued waveforms, the normal form switched off.

**Programs.** A term is a node like a box; an environment is the sequence of its layers, so equal
environments are one, as the code interns them. The evaluator is a record (tables, slots in use,
depth, diagnostics, the boxes folded, and `r`, what the last call returned), and evaluation a
function from evaluator to evaluator: `Do` is the one recursive operator, with a case per C++
function that calls back (`Eval`, `Apply`, `ToSymbolic`, `Compose`, `EvalCase`, `MatchArgument`,
`Iterate`, `Modulate`, folding), and `RealEval` has a case per kind of term. `Evaluator.keeps` is the
code's; `Forgetful` is the same evaluator that looks nothing up, the reference for the tables.
`Programs` has the descent of `ContextAt` from the root to a selection (`StepInto`) and the `Lifter`
with its memo and its fresh names. The actions of `Programs` are what a client does: `Process`
evaluates the program with the tables it finds (cleared when the environment of the file was made
anew, `ClearMemo`), `Preview` expands an expression for display and leaves its traces in the tables,
`Materialize` puts the expansion in its place, `Rephrase` is an author's edit that changes no meaning:
an expression gets a name in a `with`, a call gives its arguments one by one, a parameter gets another
name. What a program means is what `Streams` hears of its box. The names `PlacesIn`, `Rephrasings`
and `AsksForMore` belong to that client and have no counterpart in the code.
Left out: foreign functions, constants and variables, sound files, waveforms of other than whole
numbers, the variants of a definition for one precision, declarations, the depth limit of the lifter,
the offsets of a selection. Two sliders, waveforms, routes or matchers made by two evaluations are
different boxes in the code, because their side tables are not interned, and one here; this matters
only where a rule compares them, which no program of `MCPrograms` does.

## 3. Runs

| Run | Question | Bounds |
|---|---|---|
| `MCQueryFresh` | Is every answer, and every entry the engine would reuse, what a compilation from nothing gives? Does the text read later match the resolution? Does the recursion keep its stack and answer? | one root importing `x`, `y` or both; each spec has up to four places; six buffer edits, one of which makes `x` and `y` import each other, two rewrites by other programs, four revisions |
| `MCQueryStale` | (violated) is every entry the engine would reuse fresh when edits turn an import path around? | three files in a row, of which the last comes to import the first and the first nothing; two roots, five revisions |
| `MCSessionImported` | Is the box of `Process` that of a session from nothing, whatever earlier calls left in the memo tables? | three files; component, library and member targets, all imported by the root too; a library whose `process` the root's own hides, so that its edits change no layer of the root; loops; depth limit 3; five revisions |
| `MCCodeArena` | Is executable memory safe under threads? | 96 bytes in 16-byte units, four programs of one to three units, one instance, two handles |
| `MCMigrate` | Is the matching injective, content first and stable? | all pairs of plans of up to three of eight fields |
| `MCDelayLine` | Does a line keep the history it promises? | depths 1 to 4 (two shift, two ring sizes), two samples, `iota` modulo 8 |
| `MCRegisters` | Does preparation keep the meaning of a band, is no register shared by two live items, does every operand and every call's state equal the interpreter's? | 104 sample bands of four instructions and 13 longer plans; three registers, one of them preserved by calls; four calls or frames, two rounds of a loop |
| `MCSyntax` | Do all nodes that were built end in the tree, do spans nest, does an error stay in its statement, does printed text parse to what was printed, does the parser return? | 27 programs that cover the grammar, each with every removal of one atom and every insertion of `)`, `(`, `;`, `x`; 16 operators in all pairs and groupings; nesting up to 12 |
| `MCPlans` | Does a plan compute what its graph means, are registers fresh, lines indexed inside, intervals and rates sound? | 29 programs with every construct modelled, 90 graphs of one operator over two ranges; 4-bit integers; rings from delay 3 on; blocks of 0, 1 and 3 frames, four frames, five calls |
| `MCCircuits` | Do the signals of a box mean what the box denotes, and still after each pass? Are operators given the natures they need, widgets listed where they are read? | 5873 circuits in families: sums and products of three operands, reals and integers, in both groupings; two and three products with shared factors; delays and powers of them; 16 feedback loops; every composition, every primitive modelled, slots, routes, groups, widgets with absolute and relative paths, tables read and written; 5-bit integers; four frames of two stimuli |
| `MCPrograms` | Whatever a session has evaluated before, does a program mean what it means to one who remembers nothing? Is it heard as before when an expression is materialized, named, curried or a parameter renamed? Is a folded number what is heard? | 30 programs of scopes, matching, modules, recursion, iteration, modulation and routes with every place selected, one step or two; every modelled primitive on six literals, seven tuples that fold; evaluation depth 14; 8-bit integers; three frames |
| `MCPlansRing` | (violated) does a signal kept in a ring keep its output in inactive frames? | one program with a delay of 3 under a button, otherwise as `MCPlans` |

Why the bounds suffice. A stale answer needs an edit, a verification and a second edit of what was
verified: three revisions, and the runs have four or five. `MCQueryFresh` has import cycles that an
edit opens and closes, but no file in it comes to be imported by what it used to import with both
on the way of one verification: there the properties fail, and `MCQueryStale` is the least instance
that shows it (three files, two edits). In the arena three units in a row are the least in
which a free region has a neighbour on both sides. Three fields a side are the least in which a
pair can be blocked by one pair on each side. A ring of four slots and one of eight wrap inside an
`iota` range of eight, as the sizes of the code divide 2^32. Three registers are fewer than the
items of the longer plans, so both evictions happen, and one preserved register is the least for
which the preference for preserved ones has to choose; three frames in one call are the first, a
middle and the last one of a peeled loop.

The programs of `MCPlans` pair what may interact in a plan: one signal under one or two conditions,
short lines and rings, groups under conditions, tables read and written, waveforms, bargraphs, a
delay that is a slider. Four frames in blocks of 0, 1 and 3 reach beyond the deepest shift, let a
ring of four slots come round, and let a widget move before, within and between blocks; five
calls suffice to initialise, play, clear or refill, and play again. Four bits make every operator
wrap. On 71 programs, 28 of these among them, the lowering and the samples played were compared with
those of the compiled program and are the same.

The programs of `MCSyntax` use every construct of the grammar at least once, and the depth limit of
12 (2048 in the code) is reached by some of them. The model of the syntax was compared with the
program itself: on 4653 texts of its state space trees, spans, diagnostics (present or not) and
printed text are those of the compiled parser and printer.

The circuits of `MCCircuits` are the least that bring two rewrites together: three operands let one
operator see the result of another, two products are what a factor is taken out of, and a third
shows that the one shared by most comes first. A loop in a loop, one loop written twice and loops
that simplify to one are what a group's identity has to withstand. Four frames see a delay of two
inside a loop; feedback is exact after one more round than there are frames. The stimuli hold zero,
negative and fractional values and equal inputs, and integers of five bits wrap within four frames.

The programs of `MCPrograms` each have a reason: a parameter with the name of a definition, a slot
with the name the lifter would choose, a function applied twice in two environments, rules that meet
their arguments apart, a case in a function, a definition that replaces one of an environment, a
`letrec` of two, iterations with no turn and with a turn that depends on its number, a modulator that
meets a widget twice through one function. Two steps are a preview before a materialization, or two
edits one on the other; more repeat them. Depth 14 (2048 in the code) is deeper than any of them
evaluates, so the limit itself, whose errors depend on what was evaluated before, stays out of play.
`Materialize` leaves out selections whose surroundings ask for more of an expression than its signal
(`AsksForMore`, and the divergences below); the constant `AnySelection` lets them in.

The target of a component is evaluated lazily, after `Process` has decided whether the memo is out of
date. In `MCSessionImported` the root imports each target too, so that deciding computes it; among the
edits are some that change the environment of a target and not that of the root, and without the
comparison of generations `ProcessIsFresh` fails in this run. A target that only the component
reaches is not computed in time: that case is `LazyEdits` below.

The two violated runs are disagreements between the program and a comment or a document of the
repository, quoted in `findings`. Their instances are the least that show them, one program each
or three files, and are left out of the passing runs, which thereby say that nothing else goes wrong.

### Divergences an instance shows

The MC modules name more instances in which a property fails because the program does not do what it
says. To see one, take the cfg of the run, make the replacements and leave only the property. All were
compared with the compiled program, which does what the trace does.

| Run | Replacements | Violated | What happens, and what the repository says |
|---|---|---|---|
| `MCSessionImported` | `InitialDisk <- LazyDisk`, `BufferEdits <- LazyEdits`, `Texts <- LazyTexts`, `RootPaths = {"/main"}` | `ProcessIsFresh` | `Query.cpp:236`: a component target that nothing imports is computed only in the midst of the evaluation, after the generations were compared; an edit of it leaves the memoized box. Line 235: "Invalidate evaluation when a component target changes without changing the importer's layer id." |
| `MCSessionImported` | `InitialDisk <- LazyDisk`, `BufferEdits <- MutualEdits`, `Texts <- MutualTexts`, `RootPaths = {"/main"}` | `ProcessReturns` (a `PROPERTY`) | `Apply.cpp:370`: `ToSymbolic` evaluates a closure and normalizes the result with no entry of its own in the table and outside the depth `Eval` counts. Two files that are components of each other keep it going, each evaluation a memo hit, under weak fairness of every step; the compiled program exhausts its stack. `src/ARCHITECTURE.md:124`: "Evaluation cycles are detected independently by in-flight memo keys and a depth bound." |
| `MCPlans` | `Programs <- GuardedPrefix` | `GuardsPreserve` (a `PROPERTY`) | `Plan.cpp:674`: the prefix of `control(prefix(0,_),button("g"))` is loaded before the guard of its store, so the first inactive frame shows the input stored last (5, 6 and two inactive frames give 0 5 6 6). `src/ARCHITECTURE.md:156`: "Guards preserve inactive outputs in state fields across frames." |
| `MCPlans` | `Programs <- WrappedDelay` | `IndexInField` | `Interval.cpp:311`: the interval of a difference does not wrap, as that of a sum does. With four bits, `a - b` for `a` in [-7,2] and `b` in [0,3] has the interval [-10,2] and a delay by its positive part a line of three slots, but -7-2 is 7. With 32 bits the slider has to reach -2^31; the interpreter then clamps a delay of 2147483645 to 2. `src/ARCHITECTURE.md:147`: "Interval analysis bounds delays and indices, controls buffer sizing and clamping [...]"; `src/README.md:116`: "Integer arithmetic uses signed 32-bit values with wrapping add, subtract, and multiply." |
| `MCCircuits` | `Families <- ConstantFactors` | `PassesKeepMeaning` | `NormalForm.cpp:139` writes the coefficient over the factors of order 0, so a factor that is constant and no literal is lost: `process(x) = x*assertbounds(0,1,0.5);` compiles to `x`. Line 45: "Store k*x^n*y^m with factors ordered by SigId." |
| `MCCircuits` | `Families <- MergedGroups` | `PassesKeepMeaning` | `Rewrite.h:36`: a group is opened with an identity of its own before its branches turn out to be those of another; projections made in between refer to a group that is never closed, and lowering of `process = ((*(0),*(0)) ~ (_,_)), (((*(0):*(2)),*(0)) ~ (_,_));` fails. `Signal.cpp:72`: "Merge groups with identical branch ids to preserve reference group identity." |
| `MCPrograms` | `AnySelection = TRUE`, `Texts <- ReadByRules` | `MaterializingKeepsMeaning` | `Apply.cpp:388`: the expansion of a function defined by rules is the rules applied to a slot, which no literal pattern matches, written as a lambda (`Lift.cpp:168`). After `f(0)=1; f(x)=2; process=f(0);` materializing the `f` of the call gives `\(fl_slot1).(2)(0)`, which is 2. `src/ARCHITECTURE.md:43`: "It preserves circuit behavior, including enclosing bindings, and can change surface spelling." |

### Further divergences seen while modelling

These were met while reading and modelling; some fail under instances not kept.

- Materialization changes the program not only where `ReadByRules` shows it, at a function defined
  by rules, but wherever the surroundings ask for more of an expression than its signal: `g(n) = f(n)`
  with such an `f`, an argument of several outputs to `+(x)`, `outputs(x)`, a modulated parameter, a
  definition that `e[k = ...]` replaces later, the left side of an access.
- `Eval.cpp:387` makes a closure of a definition bound to a lambda, which `Eval.cpp:475` would nest
  first: `f = \(x,y).(x+y); process = f(1,2);` is not applicable, while `f(x,y) = x+y` is.
- `Apply.cpp:317`: modulating a bargraph with a circuit without inputs gives an error box without a
  diagnostic.
- `Eval.cpp:361`, `:364`: errors of the depth limit and of calls in flight are kept in the memo, so
  which calls fail depends on the order of queries.
- `Apply.cpp:251`: with a negative count `par(i,-1,e)` and `seq` evaluate the body at -2, `sum` and
  `prod` at 0.
- `Apply.cpp:174` folds an argument only where some rule still open asks for a number, so whether the
  chain of a `sum` matches a structural pattern depends on the other rules.
- Sliders, waveforms and routes compared by a rule (`f(x,x)`) are equal only if one evaluation made
  them, since their side tables are not interned.

- `Query.cpp:217`: `FileEnv` calls `NeedsRecompute` before it marks the entry `InFlight`. When an edit
  closes an import cycle, the walk over dependencies meets the file under verification as merely
  unverified, one member is verified from its old dependencies, and no entry reports
  `ResImportCycle`; `src/test/unit/QueryTest.cpp:72` says "an import cycle is a diagnostic, and its
  result is never cached". (`CycleReported` is violated in the instance of `MCQueryStale`.)
- `Query.cpp:197` advances `ChangedAt` only when the environment differs: an edit of a declaration
  keeps it, so the importer is not computed again and keeps the old metadata
  (`src/ARCHITECTURE.md:111`).
- `Plan.cpp:152` guards nodes in the scope of a generator by the conditions of the outer one: a
  generator that shares a node with a controlled signal fills its table with zeros
  (`c = (+(1)~_); process = rdtable(4,c,int(hslider("i",0,0,3,1))), control(c,button("g"));`).
- `Plan.cpp:673` sets a prefix up in every turn of a generator's loop: `rdtable(4, prefix(5,7), i)`
  holds 5, 5, 5, 5.
- `Plan.cpp:479`: a table inside a generator is filled again in every outer turn while its own
  generator runs on: `rdtable(3, rdtable(2,(+(1)~_),0), i)` holds 1, 3, 5.
- `Plan.cpp:658` fails for a delay of `attach`, `control` or asserted bounds, although line 542 says
  lines are allocated on the producer through forwarding nodes; `Schedule.cpp:89` makes delays of a
  `prefix` fail.
- `Plan.cpp:793`: the constants of a guarded waveform's end-of-frame code close its guard, so the
  waveform has moved on after inactive frames.
- `Plan.cpp:413` never returns for
  `process(x) = control(y, c) with { y = x*2; c = control(y, x>1) > 0; };`.
- `Instance.cpp:68`: `Clear` leaves prefixes and written tables as they are, because the init band
  writes them.
- A control whose value is of block rate has no effect.
- `Type.cpp:214` makes a delay of an integer no longer whole, so the wrap of a counter is not seen;
  the interval of `Control` leaves out the 0 of an inactive first frame; `abs` of the least integer
  lies outside its interval. `Bounded` in `MCPlans` leaves these cases out, and subtraction.
- `Simplify.cpp:215` gives `pow(i, 0)` of an integer signal the real number 1.
- `Ui.cpp:126` (`CheckPaths`, an error for two widgets of one path) has no caller in `src/src`.
- `Lexer.cpp:300`: the text of `a < b > c` is printed `a<b>c`, of which the lexer reads `<b>` as one
  token, the header of a foreign function.
- `Query.cpp:135` compares a term and the *number* of diagnostics: after a layout edit an importer
  keeps a diagnostic at its old position.
- `Query.cpp:228` advances the revision for a new root but no `ChangedAt`, so entries keep the
  declaration namespaces of the former root.
- `Query.cpp:53` stamps only `FileText`: a file that appears on disk and is touched is not found by
  the import that failed (`Query.cpp:90` says it is tried again).
- `Vfs.cpp:74` forgets the key as given while the cache is keyed by the canonical path.
- `Query.cpp:182` lets a second import replace a definition of the first silently.
- `Query.cpp:231` clears evaluation diagnostics and keeps memoized errors: the second `Process` of
  a looping program is an error without a message. For the same reason declarations of a component
  target are in the metadata of the first call only.
- `Printer.cpp:48` stops at a depth the parser's guard does not count for left-associative chains:
  text of a long accepted chain is dropped.
- Text in a documentation block is joined with the lexer in its default mode, so prose that looks
  like code (`http://x`) before a tag gains a space and its value changes.
- `Parser.cpp:735` keeps the number of names of a foreign function in eight bits.
- The assertion in `Parser::Node` names an identifier that is not declared; a build without
  `NDEBUG` does not compile.
- Recovery from an error in a documentation block runs on through the next statement's semicolon.
- `Migrate.cpp:103` leaves pairs of equal distance and offsets in the order the sort gives them.

## 4. Fairness

The query and session specifications assume weak fairness of the engine's own steps (`Step`): a
call that has started runs on, on the caller's thread, until it returns. Nothing is assumed of clients or
other programs. `Syntax` assumes weak
fairness of the parser's steps: the parser is sequential code that runs until it returns. `Programs`
and the other models state no fairness: nothing they promise needs it. Deadlock
checking is off everywhere: every model may stop when its client stops or a bound is reached.

## 5. Proofs

Each theorem is for all constants that satisfy the named assumption of its module; those of
`QueryProofs` that need more say so in an `ASSUME` of their own.

| Theorem | Establishes | Argument |
|---|---|---|
| `CodeArenaProofs!CodeTypesHold`, `ArenaDisjoint`, `ExecutionSafe` | types, no byte handed out twice, an executing instance runs its own words | `ArenaInv`: types, no free or published region is empty (so carving never duplicates a region), nothing is free or published before the mapping exists, regions are apart, held programs are published and not dying and keep their words. `RegionsDisjoint` alone is not inductive: `Publish` writes over whatever overlaps its region, and `Drop` makes a program die only when nobody else holds it. |
| `CodeArenaProofs!ArenaCovers`, `ArenaCoalesced` | every byte of the arena is free or published; outside a destructor no two free regions touch | the same invariant with `ArenaTiled` and `FreeCoalesced`. A carve leaves the rest of its region, a merge puts one region in the place of two, so what was covered stays covered; a carve can only shorten a free region from below, so it joins no two, and `Unlock` waits until no pair is left to merge. |
| `MigrateProofs!MatchTypesHold`, `TransferSound`, `ContentPreferred`, `ShapeMatchesStable` | injective transfer, content before shape, no blocking pair | `MatchInv`: the taken marks are exactly the fields of `transfer`, and every pair already passed in the order of the sort was either taken or blocked by one at least as near. |
| `MigrateProofs!SameProgramKeepsState` | a program replaced by itself keeps every field in its place | `Kept`, an invariant for `old = new`: every pair so far is of a field with itself, none was left to the shapes and none is fresh. It needs `MatchInv` to know that the fields the cursor has passed are exactly those taken, whence the field at the cursor is the first free one of its content (`FirstFreeIsItself`). |
| `QueryProofs!StackHolds` | the query stack is the chain of computations, `InFlight` its members without repetition | `StackInv`: the same relation stated by position (`Depth`), which makes pushing, popping and replacing the top frame local; lemmas `Called`, `Returned`, `Began`, `Finished` do one kind of step each. |
| `QueryProofs!LookupsCoherent` | the text `Resolve` found is the text read later by its key, whatever was edited, touched, forgotten or ejected | `CoherenceInv`: the types of the whole engine (`QueryInv`), no entry of disk or cache has the name of a library (`Apart`), buffers are the editor's (`Edited`). Every step is one of three kinds (`Writes`, `Effect`, or one that leaves files alone), and each kind keeps it. |
| `QueryProofs!VerifiedTermsHold` | `VerifiedTermsFresh`, a conjunct of `VerifiedIsFresh`: terms the engine would reuse unseen are those of the text there is, in the middle of a call too | `TermsInv`: besides `CoherenceInv`, a cached read is that of the file or its change is still to be reported (`CacheCurrent`), and terms verified no earlier than the last stamp of their text were parsed from it (`Current`). The property speaks of stamps equal to the revision; `Current` speaks of all of them, since the revision moves on and stamps stay. |
| `QueryProofs!ReusedIsFresh` | `VerifiedIsFresh`: an entry the engine would reuse unseen, text, terms or environment, is what a compilation from nothing gives, after any history of edits, touches, calls and rewrites in which imports follow one order | `InOrder`, described below |
| `QueryProofs!AnswersAreFresh` | `FreshEnv`: the environment of every answer is that of a compilation from nothing | the same invariant: the file just answered is verified (`ReturnHolds`), so `VerifiedFresh` applies to it |
| `RegistersProofs!AllocationApart` | whatever the plan and the number of registers, no register is given to two items that need it at one time | `RegInv`: the code defines before it reads (`CodeShape`), active items hold different registers none of which is free (`Holding`), items come in the order they begin, and an item that lost its place by dying is dead before any item still to come (`InOrder`). `RegistersApart` alone says nothing of the registers that are free, so the step that hands one out would not keep it. `OneHeir`: where a register is handed over in the instruction that reads it last, nothing else begins. |
| `RegistersProofs!OperandsCorrectAlways`, `StateKeptAlways` | native code finds at every instruction the operands and cached fields of the interpreter, and memory holds the interpreter's state between calls | `RunInv`, described below |
| `RegistersProofs!PreparedMeansSameAlways` | whichever guards hold and whatever fields hold, forwarding loads and hoisting stores changes nothing a band emits, calls, stores or retains | a simulation for each pass, described below |
| `SyntaxProofs!OrphansAreHeld`, `NothingIsLost` | every node without a parent is held by the activation that will attach it, and a finished parse has all nodes in one tree, each once, whatever errors it recovered from | `SyntaxInv`: every node is an orphan or a child of one node and in one place (`Placed`), the activations cut the orphans into adjoining pieces that are their children so far (`Divided`), and after the last return the root is the only orphan. Either half alone is not inductive: closing an activation takes its children from the end of the orphans, which are its own only by `Divided`, and they are in no other node only by `Placed`. Unwinding drops activations but no orphans, and the hole adopts them from `base` on (`CutDivided`). |
| `DelayLineProofs!ReadsAreExact` | for every depth, a read gives the sample written that many frames ago | `LineInv`: types, the sample of this frame is at the write index once stored, and what can be *seen* at delay `k` is what was written `k` frames ago (`Remembers`), where `Visible` shifts the view while a shift is half done. `ReadsExact` says nothing in mid-shift and so is not inductive. For rings the argument is that two delays no greater than the depth never share a slot, and that the slot of a delay moves on with `iota` also when it wraps (`Remainder`, `Quotients`). |
| `DelayLineProofs!LineImplementsHistory` | the line implements `DelayHistory`, step by step | under `LineInv` every step leaves what can be seen as it is (`Steady`), makes all of it one frame older (`Ages`), or is a migration (`Resized`); these are a stutter and the actions of the abstract specification. |

**Incremental equals fresh.** `VerifiedIsFresh` speaks of an idle session and of entries stamped with
the present revision, and says nothing that the middle of a call could start from. `InOrder` adds to
`TermsInv` and `StackInv` what `QueryProofs` calls `FreshInv`:

- terms and lookups whose inputs have not changed since they were verified are those of the files
  there are (`TextHeld`, `PlaceHeld`);
- the dependencies an entry has recorded lie below it in the order of the imports (`DepsDescend`), and
  what it was computed of it is still, as far as none of them changed after it was verified
  (`EntryOK`): the sense of `changedAt` and `verifiedAt`, for entries of any age and not only for those
  of this revision;
- a *Verify* frame has passed only dependencies that are verified and unchanged (`VerifyHolds`), a
  *Compute* frame has the layers and dependencies of the imports it has walked (`ComputeHolds`,
  `MergeHolds`), the frame below waits for the file of the frame above (`LinkHolds`), which is lower in
  the order (`FramesDescend`); what a call returned with is verified (`ReturnHolds`).

Each action changes one record at most, and a record changes only while it is not verified and leaves
its stamp at this revision (`Moves`); that keeps every other entry. From `FreshInv` a verified file has
the environment that its terms make of the environments of the files it imports, which are verified
too; the reference `FreshEnvs` satisfies the same equation, and were they to differ, a file of the least
rank at which they do would contradict it (`VerifiedFresh`). TLC checked `FreshInv` before the proof, on
the instance of `MCQueryFresh` without the edit that closes a cycle.

**Native code equals the interpreter.** `OperandsCorrect` speaks of the instruction at hand and
`StateKept` of the time between calls; neither says what the registers hold for the instructions still
to come, nor what a register must hold when code is left early. `RunInv` says both, for each of the two
layouts (that of the first frame and that of the later ones) in its own part of the code:

- a value that is still needed is where the code will look for it, be it its register or `d0`
  (`ValuesHeld`); a retained value is in its register once written or loaded, and in memory as long as
  the entry does not write it (`KeptHeld`);
- the register of a cached field either holds the field throughout (`Simple`), or *turns* once, at the
  instruction that computes or stores the next value: before it the register holds the old value of
  every field that shares it, after it the next one (`Turns`, `FieldsHeld`). This is what coalescing and
  merging do, and why they need straight code, one store per field and no old load across the turn;
- a field whose one store has passed holds what was stored (`StoresDone`), which is why two slots that
  the peeled first frame has made equal may have one register from then on.

`LayoutOK` is what a layout has to satisfy for this to be kept: two values share a register only if
they are apart in time, a retained value shares with none, a field turns or is simple. It is a fact
about the code alone. `FirstLayoutIsRight` derives it from `AllocationApart`'s invariant and the
definitions of `Aliased` and `Coalesced`, `LaterIsRight` from the first layout and `Merged`; `DerivedHolds`
collects what the instructions need of it. `InstructionKeeps`, `EnterKeeps`, `NextFrameKeeps`,
`LeaveKeeps` and `SettleKeeps` then show of each step that `RunInv` stands. TLC checked `RunInv` on the
instance of `MCRegisters` before the proof.

The proof found what the model, and the argument for the code, had left open. Later frames keep a
register that the layout of the first frame has already coalesced; that this stays right is due to
`Prepare`, which moves every store up to the last instruction it may not pass, so that little can come
between the turn of a register and the stores it is for. And two conditions were missing in the model:
stores count only in the code a layout is made for, and a write inside a loop does not spare the load at
entry.

**Preparation keeps the meaning.** `Forwarding`, `Hoisting` and `RunOf` are recursive functions along a
band, and `UpTo` carries a fact from each of their values to the next; so each pass is a simulation.

- While loads are forwarded (`Alike`), both codes have emitted the same and are inside the same skipped
  guard, and what the old one holds under a name the new one holds under the name it has by then. A cell
  that is known to hold a value does hold it, and neither that value nor one that was renamed changes
  any more, because each is defined once and before it is read. Two things need care. What a load
  inside a guard makes known is forgotten at the guard's end, and if the guard is skipped nothing in
  between was run, so what is known there need not be true. And what a skipped guard leaves undefined is
  retained (`SkippedIsRetained`), so no such load is dropped and no renamed value goes back on it.
- While stores move up (`Early`), the new code is behind each instruction where the old one is, but for
  the cells of stores it has run ahead of their place. No instruction in between reads or writes such a
  cell, no guard or foreign call stands between, and the stored value is already there; hence the cell
  holds what the old code will put there, or what it had if the guard around both places is skipped.
  Two stores ahead at once go to two cells, since a store blocks the next to its cell.

From the same lemmas `EntryShape` concludes that an entry made of prepared bands has what `CodeShape` and
`LayoutOK` rely on: operands defined before they are read, one definition of each register, guards that
nest, and `StoresUp`: between a store and any instruction before it stand only stores or one that it may
not pass. In an earlier version of `Registers` that was an assumption.

**Hypotheses.** The plans of `RegistersProofs` are those of `ProgramsAssumption`, and TLC evaluates it
on the plans of `MCRegisters`. Its parts are what lowering makes, before any preparation: a register is
written by one instruction, before those of its band that read it (`SingleAssignment`, `DefinesFirst`:
`Plan.cpp` takes a new register for each value); guards and loops close in the order they were opened
(`Nested`: the interpreter has a stack for them); what is defined under a guard or read in another band
is retained, and what a loop defines is read in it (`Scoped`: `Layout.cpp:26`, `Plan.cpp:481`); a frame
stores a cell once, so that between two stores of a band to one cell stands a guard, a foreign call or
an access whose index is not known (`StoresApart`); only the initial band has loops (`Plan.cpp:481`);
the fields and operands of an instruction are those of its operation (`Shape`). None speaks of registers
or lifetimes. `ReusedIsFresh` and `AnswersAreFresh` assume of a behaviour that at all times a file
imports only what comes before it in one order `rank` (`ImportsFollow`; `RankIsOrder` only bounds the
ranks of finitely many files). This is more than that there is no cycle at any moment, and less would
not do: `MCQueryStale` turns a path around and is stale although no file is on a cycle any more. They
assume that other programs rewrite files but neither create nor delete them (`FilesStay`), because a
lookup is not stamped when a file appears (`Query.cpp:53` in section 3); buffers may open and close
anywhere. `EnvironmentsApart` says that no environment is the nil one. `RingAssumption` says that a ring
holds at most 2^30 slots and that the frame counter wraps at a multiple of every ring: `iota` is an
unsigned 32-bit field and the sizes are powers of two. Without the second a ring would skip samples at
the wrap. `LibrariesApart`: no file on disk has the name of an embedded library; those names are
relative (`stdfaust.lib`) and the keys of files absolute. `BuffersUnlinked` and `NoLinks` say where
links may be: `Resolve` returns canonical paths while buffers and `Vfs::Forget` go by the name they were
given, so an import through a link finds the text on disk where `Read` then gives the buffer of that
file, and a file touched under its other name is still read from the cache (`Vfs.cpp:74` in section 3).
The theorems are false without them, and `MCQuery` asserts that its instance satisfies all three. The
type invariants of `CodeArena` and `Migrate` are proved and therefore in no run; that of the query
engine (`QueryInv`) and the other inductive invariants were checked by TLC before they were proved.

**Only model-checked.** Liveness (`Answers` and `ParserReturns`), which needs
`ENABLED`. `FreshEnv` and `VerifiedIsFresh` for histories whose imports follow no one order, which
`MCQueryFresh` has: which of them are safe is a matter of what was verified when, and some are not.
`ProcessIsFresh`, over the recursive evaluation of `Session`. `SpansNest` needs the order of the tokens
`Lex` gives, a recursive function; `StatementsSurvive` and `RoundTrip` compare two parses of two texts,
by induction on a term. Everything about plans, circuits and programs: `Intervals`, `Signals`,
`Lowering`, `Player`, `Plans`, `Terms`, `Simplify`, `NormalForm`, `Propagate`, `Streams`, `Circuits`,
`Environments`, `Evaluate`, `Programs` and `Session` declare recursive operators or reach one, so no
theorem can be stated over them.

## 6. Not modelled, and why

- **Real numbers** beyond fractions: rounding of doubles, real intervals, functions with irrational
  values; TLC has integers only. `Differentiate.cpp` is a table of derivatives of such functions.
- **`ClampTables`**: it reads the intervals of terms, which `Signals` has for graphs of nodes.
- **Foreign functions and constants, sound files**: they belong to the host.
- **Text edits** (`Splice.cpp`, `Edit.cpp`), **registry**: planned below. Of the **evaluator**, foreign
  symbols, sound files, precision variants, declarations and the depth limits, whose errors depend on
  the order of queries. Of the **user interface**, the order of the tree and the wording of labels and
  metadata.
- **Origins and snapshots**, **diagnostics**: projections of a session and wording.
- **Encoding of ARM64 instructions**, artifacts, integer registers: data, not control.

## 7. Plan

The order in which the project grows, the most important first.

1. `Splice`, on `Printer`: the text edits that follow a structural edit, with the laws the sources
   name (what is put is what is read back, what is not touched keeps its text and its comments);
   run over the programs of `MCSyntax`, in `MCSyntax` itself as one more phase after printing.
2. `Session` over `Evaluate`: the resolver callback inside the evaluator of `Evaluate`, in place of the
   stand-in `Session` has for the term language; an abstract specification of evaluation by
   substitution, without environments.
3. `ClampTables` and intervals on terms, and `Plans` fed with the graphs of `Circuits`, so that its
   programs come from boxes.
4. The second half of the back end: `FoldInstructions`, `BoundIndices` and integer registers in
   `Registers`, with plans from `Lowering` instead of written ones.
5. `Lifecycle`: a consumer that replaces a playing instance, composing `Migrate`, `DelayLine`,
   `CodeArena` and `Plans`; liveness of the swap.
6. Theorems, the next first: `ReusedIsFresh` with an order that may change whenever nothing verified depends on
   the old one; `SpansNest`, once the
   order of tokens is a lemma on `Lex`; lemmas on `Conditions` (`Or`, `And` and their meaning) once
   they stand in a module without recursion.
