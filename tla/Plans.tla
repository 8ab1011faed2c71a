--------------------------------- MODULE Plans --------------------------------
(***************************************************************************)
(* A program from its signal graph to the samples it plays: the plan is    *)
(* lowered, an instance of it is initialised, and the host calls it block  *)
(* by block while widgets move.  Beside the instance goes the meaning of   *)
(* the graph, frame by frame.                                              *)
(*                                                                         *)
(* A call of Compute is StartBlock, one PlayFrame a frame and EndBlock:    *)
(* another thread may move a widget between any two of them.               *)
(***************************************************************************)
EXTENDS Player

(***************************************************************************)
(* Meaning: what a signal graph gives frame by frame, without registers,   *)
(* guards or delay lines, the reference an instance is compared with.      *)
(*                                                                         *)
(* A node has a value in every frame.  It is asked for by the outputs, and *)
(* through a Control only while the condition is true: a node of sample    *)
(* rate that nobody asks for keeps its value, and 0 before the first time. *)
(* A delay reads what its operand was d asked-for frames ago.              *)
(*                                                                         *)
(* The state is [past, tables, held]: the frames since Clear, each a value *)
(* of every node, the nodes that were on and what was played; the contents *)
(* of the tables; what each Prefix gives next.                             *)
(***************************************************************************)

\* Pairs of a node and the conditions a path of an output to it goes through.
Demands(g, roots) ==
  Closure({<<r, {}>> : r \in roots},
          LAMBDA d : IF Kind(g, d[1]) = "Gen" THEN {}
                     ELSE {<<Kid(g, d[1], i), IF Kind(g, d[1]) = "Control" /\ i = 1 THEN d[2] \cup {Kid(g, d[1], 2)}
                                              ELSE d[2]>> : i \in DOMAIN g[d[1]].kids})

\* Everything a frame is computed from: the nodes it has, what the outputs
\* demand, rates, natures and intervals.
Sense(g, roots, a) ==
  [graph |-> g, demands |-> Demands(g, roots), nature |-> a.nature, band |-> a.band, iv |-> a.iv]

Demanded(m) == {d[1] : d \in m.demands}

\* Is the node asked for, in a frame with these values?
On(m, v, id) ==
  \/ m.band[id] # Samp
  \/ \E d \in m.demands : d[1] = id /\ \A c \in d[2] : v[c] # 0

\* The values of a node in earlier frames it was on.
Heard(w, id) == SelectSeq(w.past, LAMBDA f : id \in f.on)
Earlier(w, id, d) ==
  LET h == Heard(w, id) IN IF d <= Len(h) THEN h[Len(h) - d + 1].val[id] ELSE 0

Operated(nature, form, x, y) ==
  IF nature = "Int" THEN IntegerBinary(form, x, y) ELSE RealBinary(form, x, y)

Ranged(nature, form, x, y) ==
  CASE form = "Abs" -> IF nature = "Int" THEN Wrap(Magnitude(x)) ELSE Magnitude(x)
    [] form = "Min" -> Min({x, y})
    [] form = "Max" -> Max({x, y})

\* The value of a node that is on; env is [in, shown], the inputs and the
\* positions of the widgets.
Computed(m, w, env, v, id) ==
  LET n == m.graph[id]
      k(i) == v[n.kids[i]]
  IN  CASE n.kind \in {"Int", "Real"} -> n.value
        [] n.kind = "Input" -> env.in[n.value]
        [] IsButton(n.kind) \/ n.kind = "Slider" -> env.shown[n.value]
        [] n.kind = "Bargraph" -> k(3)
        [] n.kind = "BinOp" -> Operated(m.nature[n.kids[1]], n.form, k(1), k(2))
        [] n.kind = "IntCast" -> Saturated(k(1))
        [] n.kind = "FloatCast" -> k(1)
        [] n.kind = "Select2" -> IF k(1) # 0 THEN k(3) ELSE k(2)
        [] n.kind = "Select3" -> IF k(1) = 0 THEN k(2) ELSE IF k(1) = 1 THEN k(3) ELSE k(4)
        [] n.kind = "Delay1" -> Earlier(w, n.kids[1], 1)
        [] n.kind = "Delay" -> IF k(2) = 0 THEN k(1) ELSE Earlier(w, n.kids[1], k(2))
        [] n.kind = "Prefix" -> w.held[id]
        [] n.kind = "Waveform" -> n.value[(Len(Heard(w, id)) % Len(n.value)) + 1]
        [] n.kind = "WRTbl" -> IF Len(n.kids) = 4 THEN [w.tables[id] EXCEPT ![k(3) + 1] = k(4)] ELSE w.tables[id]
        [] n.kind = "RDTbl" -> v[n.kids[1]][k(2) + 1]
        [] n.kind = "Proj" -> v[Kid(m.graph, n.kids[1], n.value)]
        [] n.kind \in {"Attach", "Control"} -> k(1)
        [] n.kind \in {"Rec", "Gen"} -> 0
        [] n.kind = "Extended" ->
             CASE n.form = "AssertBounds" -> k(3)
               [] n.form = "Lowest" -> m.iv[n.kids[1]].lo
               [] n.form = "Highest" -> m.iv[n.kids[1]].hi
               [] OTHER -> Ranged(m.nature[id], n.form, k(1), v[Last(n.kids)])

Forwarding(n) == n.kind \in {"Attach", "Control"} \/ (n.kind = "Extended" /\ n.form = "AssertBounds")

Kept(w, id) ==
  CASE id \in DOMAIN w.tables -> w.tables[id]
    [] id \notin DOMAIN w.tables /\ w.past # <<>> -> Last(w.past).val[id]
    [] OTHER -> 0

\* One sweep gives a node the value its equation asks for; a frame is the
\* solution of all equations.  There is one, as no node depends on itself
\* within a frame.
ValueOf(m, w, env, v, id) ==
  CASE id \notin Demanded(m) -> 0
    [] id \in Demanded(m) /\ ~Forwarding(m.graph[id]) /\ ~On(m, v, id) -> Kept(w, id)
    [] OTHER -> Computed(m, w, env, v, id)

Values(m, w, env) ==
  Sweeps(m.graph, LAMBDA v, id : ValueOf(m, w, env, v, id),
         [id \in DOMAIN m.graph |-> IF id \in DOMAIN w.tables THEN w.tables[id] ELSE 0])

After(m, w, env, v) ==
  [past   |-> Append(w.past, [val |-> v, on |-> {id \in Demanded(m) : On(m, v, id)}, env |-> env]),
   tables |-> [t \in DOMAIN w.tables |-> v[t]],
   held   |-> [p \in DOMAIN w.held |-> IF On(m, v, p) THEN v[Kid(m.graph, p, 2)] ELSE w.held[p]]]

FrameOf(m, w, env) == After(m, w, env, Values(m, w, env))

(***************************************************************************)
(* The life cycle.  A generator is the one output of a graph of its own,   *)
(* which plays as many frames as the table is long.                        *)
(***************************************************************************)

Nodes(m, kind) == {id \in Demanded(m) : Kind(m.graph, id) = kind}

RECURSIVE Started(_, _)
Started(m, past) ==
  LET generated(t) ==
        LET root == Kid(m.graph, Kid(m.graph, t, 2), 1)
            own == [m EXCEPT !.demands = {<<d[1], {}>> : d \in Demands(m.graph, {root})}]
            played == FoldLeft(LAMBDA w, k : FrameOf(own, w, <<>>), Started(own, <<>>),
                               [k \in 1..m.graph[Kid(m.graph, t, 1)].value |-> k])
        IN  [k \in DOMAIN played.past |-> played.past[k].val[root]]
  IN  [past   |-> past,
       tables |-> [t \in Nodes(m, "WRTbl") |-> generated(t)],
       held   |-> [p \in Nodes(m, "Prefix") |-> m.graph[Kid(m.graph, p, 1)].value]]

\* Clear forgets the frames; tables and prefixes start over at Constants only.
Cleared(w) == [w EXCEPT !.past = <<>>]

(***************************************************************************)
(* The state.                                                              *)
(***************************************************************************)

CONSTANTS
  Programs,  \* [graph, outs]: simplified graphs and the nodes of their outputs
  Samples, Positions, BlockSizes,
  MaxFrames, MaxCalls  \* bounds

ASSUME PlansAssumption ==
  /\ \A p \in Programs : ToSet(p.outs) \subseteq DOMAIN p.graph
  /\ Samples # {} /\ BlockSizes \subseteq Nat /\ MaxFrames \in Nat /\ MaxCalls \in Nat

VARIABLES
  program,
  plan,     \* the prepared plan, or None
  sense,    \* what the meaning of the graph is computed from
  inst,     \* the instance: registers, kept registers, fields, the frame's outputs
  world,    \* the meaning so far
  shown,    \* the position of every widget
  latched,  \* the positions when the block began
  phase, left, played, calls

vars == <<program, plan, sense, inst, world, shown, latched, phase, left, played, calls>>

Graph == program.graph
Outs == DOMAIN program.outs
Roots == ToSet(program.outs)

(***************************************************************************)
(* Widgets: every field of a label is one control.                         *)
(***************************************************************************)

Controls(g) == {id \in DOMAIN g : IsButton(Kind(g, id)) \/ Kind(g, id) = "Slider"}
Labels(g) == {g[id].value : id \in Controls(g)}
InitialOf(g, l) ==
  LET id == CHOOSE i \in Controls(g) : g[i].value = l
  IN  IF Kind(g, id) = "Slider" THEN g[Kid(g, id, 1)].value ELSE 0
Initial(g) == [l \in Labels(g) |-> InitialOf(g, l)]
\* A bargraph is a zone as well, which starts at 0.
Meters(g) == {g[id].value : id \in {i \in DOMAIN g : Kind(g, i) = "Bargraph"}}
AtRest(g) == Initial(g) @@ [l \in Meters(g) |-> 0]
\* A slider moves within its range, a button is up or down.
Reach(g, l) ==
  LET id == CHOOSE i \in Controls(g) : g[i].value = l
  IN  IF Kind(g, id) = "Slider"
      THEN {x \in Positions : g[Kid(g, id, 2)].value <= x /\ x <= g[Kid(g, id, 3)].value}
      ELSE {0, 1}

(***************************************************************************)
(* Actions.                                                                *)
(***************************************************************************)

Init ==
  /\ program \in Programs
  /\ plan = None /\ sense = None /\ inst = None /\ world = None
  /\ shown = Initial(program.graph) /\ latched = Initial(program.graph)
  /\ phase = "graph" /\ left = 0 /\ played = 0 /\ calls = 0

LowerGraph ==
  /\ phase = "graph"
  /\ sense' = Sense(Graph, Roots, Analysis(Graph, Roots))
  /\ plan' = Prepared(Lower(Graph, program.outs))
  /\ IF plan'.why = None THEN inst' = NewInstance(plan') /\ phase' = "made"
     ELSE inst' = None /\ phase' = "failed"
  /\ UNCHANGED <<program, world, shown, latched, left, played, calls>>

Called == calls < MaxCalls /\ calls' = calls + 1

\* Instance::Init: Constants, ResetControls, Clear.
Initialise ==
  /\ phase \in {"made", "idle"} /\ Called
  /\ inst' = Clear(plan, SetControls(plan, Constants(plan, inst), Graph, AtRest(Graph)))
  /\ world' = Started(sense, <<>>)
  /\ shown' = Initial(Graph)
  /\ phase' = "idle"
  /\ UNCHANGED <<program, plan, sense, latched, left, played>>

\* The tables are filled again, what was heard stays.
RunConstants ==
  /\ phase = "idle" /\ Called
  /\ inst' = Constants(plan, inst)
  /\ world' = Started(sense, world.past)
  /\ UNCHANGED <<program, plan, sense, shown, latched, phase, left, played>>

ResetControls ==
  /\ phase = "idle" /\ Called
  /\ inst' = SetControls(plan, inst, Graph, AtRest(Graph))
  /\ shown' = Initial(Graph)
  /\ UNCHANGED <<program, plan, sense, world, latched, phase, left, played>>

ClearState ==
  /\ phase = "idle" /\ Called
  /\ inst' = Clear(plan, inst)
  /\ world' = Cleared(world)
  /\ UNCHANGED <<program, plan, sense, shown, latched, phase, left, played>>

SetControl(l, x) ==
  /\ phase \in {"idle", "playing"} /\ Called
  /\ inst' = SetControls(plan, inst, Graph, l :> x)
  /\ shown' = [shown EXCEPT ![l] = x]
  /\ UNCHANGED <<program, plan, sense, world, latched, phase, left, played>>

StartBlock(n) ==
  /\ phase = "idle" /\ Called /\ played + n <= MaxFrames
  /\ inst' = ControlPass(plan, inst)
  /\ latched' = shown
  /\ phase' = "playing" /\ left' = n
  /\ UNCHANGED <<program, plan, sense, world, shown, played>>

PlayFrame(in) ==
  /\ phase = "playing" /\ left > 0
  /\ inst' = Frame(plan, inst, in)
  /\ world' = FrameOf(sense, world, [in |-> in, shown |-> latched])
  /\ left' = left - 1 /\ played' = played + 1
  /\ UNCHANGED <<program, plan, sense, shown, latched, phase, calls>>

EndBlock ==
  /\ phase = "playing" /\ left = 0
  /\ inst' = Saved(inst)
  /\ phase' = "idle"
  /\ UNCHANGED <<program, plan, sense, world, shown, latched, left, played, calls>>

Channels == {Graph[id].value : id \in {i \in DOMAIN Graph : Kind(Graph, i) = "Input"}}

Next ==
  \/ LowerGraph \/ Initialise \/ RunConstants \/ ResetControls \/ ClearState \/ EndBlock
  \/ \E l \in Labels(Graph) : \E x \in Reach(Graph, l) : SetControl(l, x)
  \/ \E n \in BlockSizes : StartBlock(n)
  \/ \E in \in [Channels -> Samples] : PlayFrame(in)

Spec == Init /\ [][Next]_vars

(***************************************************************************)
(* Properties.                                                             *)
(***************************************************************************)

Running == phase \in {"idle", "playing"}
Now == Last(world.past)

\* Every frame gives on every output what the graph means, and leaves in
\* every bargraph that was on the value it shows (Lowering of Plan.cpp, its
\* guards, delay lines, tables and epilogues, and the interpreter).
PlanComputes ==
  [][Running /\ Len(world'.past) > Len(world.past) =>
       /\ \A o \in Outs : inst'.outs[o] = Now'.val[program.outs[o]]
       /\ \A f \in Widgets(plan) :
            (Kind(Graph, plan.fields[f].sig) = "Bargraph" /\ plan.fields[f].sig \in Now'.on) =>
               inst'.fields[f][1] = Now'.val[plan.fields[f].sig]]_vars

\* No instruction reads a register that neither its own pass nor a band
\* before it has written: a value defined under a guard is read elsewhere
\* only through the field it is kept in (Close and SetGuard of Plan.cpp).
OperandsFresh == Running => inst.stale = {}

\* A delay line is never indexed outside its extent, so the clamp of
\* Interp.cpp never changes what is read: the intervals of Type.cpp bound
\* every delay (MaxDelays and LineFor of Schedule.cpp).
IndexInField == Running => ~inst.beyond

\* While all of the graph is on, the value of every node is within the
\* interval inferred for it (InferIntervals of Type.cpp, Interval.cpp).
AllOn == \A k \in DOMAIN world.past : world.past[k].on = Demanded(sense)
ValuesBounded ==
  (Running /\ world.past # <<>> /\ AllOn) =>
    \A id \in Demanded(sense) : Kind(Graph, id) \notin {"Rec", "WRTbl", "Gen"} =>
      Has(sense.iv[id], Now.val[id])

\* A node of constant rate never changes, and one of block rate not as long
\* as no widget moves (InferVariability of Type.cpp, by which Plan.cpp chooses
\* the band an instruction runs in).
RatesHold ==
  (Running /\ Len(world.past) > 1) =>
    LET before == world.past[Len(world.past) - 1]
        same(id) == CASE sense.band[id] = Konst -> TRUE
                      [] sense.band[id] = Block -> before.env.shown = Now.env.shown
                      [] OTHER -> FALSE
    IN  \A id \in Demanded(sense) : (Kind(Graph, id) # "WRTbl" /\ same(id)) => Now.val[id] = before.val[id]

\* A frame in which the condition of an output is false leaves the output as
\* it was (ARCHITECTURE.md:156).
GuardsPreserve ==
  [][(Running /\ world.past # <<>> /\ Len(world'.past) > Len(world.past)) =>
       \A o \in Outs :
         (Kind(Graph, program.outs[o]) = "Control" /\ Now'.val[Kid(Graph, program.outs[o], 2)] = 0) =>
            inst'.outs[o] = inst.outs[o]]_vars
=============================================================================
