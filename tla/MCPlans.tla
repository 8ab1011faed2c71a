-------------------------------- MODULE MCPlans -------------------------------
(***************************************************************************)
(* Programs to play: the graphs the compiler builds for the sources quoted *)
(* before them, after simplification, in the order it makes the nodes.     *)
(***************************************************************************)
EXTENDS Plans

In(c) == Node("Input", None, <<>>, c)
I(n) == Node("Int", None, <<>>, n)
R(x) == Node("Real", None, <<>>, x)
Button(l) == Node("Button", None, <<>>, l)
Checkbox(l) == Node("Checkbox", None, <<>>, l)
Slider(kids, l) == Node("Slider", None, kids, l)
Bargraph(kids, l) == Node("Bargraph", None, kids, l)
Proj(group, branch) == Node("Proj", None, <<group>>, branch)
Waveform(elements) == Node("Waveform", None, <<>>, elements)
Binop(op, x, y) == Node("BinOp", op, <<x, y>>, 0)
Ext(form, kids) == Node("Extended", form, kids, 0)
Op(kind, kids) == Node(kind, None, kids, 0)
Program(graph, outs) == [graph |-> graph, outs |-> outs]

Sources == {
  \* process(x) = x@int(hslider("d",0,0,3,1));
  Program(<<In(1), R(0), R(3), R(1), Slider(<<2, 2, 3, 4>>, "d"),
            Op("IntCast", <<5>>), Op("Delay", <<1, 6>>)>>, <<7>>),
  \* process(x) = control(control(x*2,button("g")),checkbox("h"));
  Program(<<In(1), Button("g"), R(0), Binop("NE", 2, 3), Checkbox("h"),
            Binop("NE", 5, 3), R(2), Binop("Mul", 7, 1),
            Op("Control", <<8, 4>>), Op("Control", <<9, 6>>)>>, <<10>>),
  \* process(x) = control(x*2,button("g")), control(x*3, button("g")+checkbox("h"));
  Program(<<In(1), Button("g"), R(0), Binop("NE", 2, 3), Checkbox("h"),
            Binop("Add", 2, 5), Binop("NE", 6, 3), R(2), R(3),
            Binop("Mul", 8, 1), Op("Control", <<10, 4>>),
            Binop("Mul", 9, 1), Op("Control", <<12, 7>>)>>, <<11, 13>>),
  \* process(x) = y letrec { 'y = control(x+y, x > 0); };
  Program(<<In(1), I(0), R(0), Binop("GT", 1, 3), Op("FloatCast", <<4>>),
            Binop("NE", 5, 3), I(1), Op("Rec", <<12>>), Proj(8, 1),
            Op("Delay", <<9, 7>>), Binop("Add", 1, 10),
            Op("Control", <<11, 6>>), Op("Delay", <<9, 2>>)>>, <<13>>),
  \* process(x) = control((x*2)@1,button("g")) + control((x*2)@1,checkbox("h"));
  Program(<<In(1), I(1), Button("g"), R(0), Binop("NE", 3, 4),
            Checkbox("h"), Binop("NE", 6, 4), R(2), Op("Delay", <<1, 2>>),
            Binop("Mul", 8, 9), Op("Control", <<10, 5>>),
            Op("Control", <<10, 7>>), Binop("Add", 11, 12)>>, <<13>>),
  \* process(x) = control((x*2)@1,button("g")) + control((x*2)@2,checkbox("h"));
  Program(<<In(1), I(2), I(1), Button("g"), R(0), Binop("NE", 4, 5),
            Checkbox("h"), Binop("NE", 7, 5), R(2), Op("Delay", <<1, 3>>),
            Binop("Mul", 9, 10), Op("Control", <<11, 6>>),
            Op("Delay", <<1, 2>>), Binop("Mul", 9, 13),
            Op("Control", <<14, 8>>), Binop("Add", 12, 15)>>, <<16>>),
  \* process(x) = rdtable(4, (+(1)~(_@2)), int(hslider("i",0,0,3,1)));
  Program(<<I(4), I(1), I(0), R(0), R(3), R(1),
            Slider(<<4, 4, 5, 6>>, "i"), Op("IntCast", <<7>>), I(3),
            Op("Rec", <<13>>), Proj(10, 1), Op("Delay", <<11, 9>>),
            Binop("Add", 12, 2), Op("Delay", <<11, 3>>), Op("Gen", <<14>>),
            Op("WRTbl", <<1, 15>>), Op("RDTbl", <<16, 8>>)>>, <<17>>),
  \* process(x) = rwtable(3, (+(1)~_), (int(x) & 1), int(x), (int(x)+1)&1);
  Program(<<In(1), I(3), I(1), I(0), Op("IntCast", <<1>>),
            Binop("AND", 5, 3), Binop("Add", 5, 3), Binop("AND", 7, 3),
            Op("Rec", <<12>>), Proj(9, 1), Op("Delay", <<10, 3>>),
            Binop("Add", 11, 3), Op("Delay", <<10, 4>>), Op("Gen", <<13>>),
            Op("WRTbl", <<2, 14, 6, 5>>), Op("RDTbl", <<15, 8>>)>>, <<16>>),
  \* process(x) = select3(int(hslider("s",0,0,2,1)), x, x', x@2);
  Program(<<In(1), R(0), R(2), R(1), Slider(<<2, 2, 3, 4>>, "s"),
            Op("IntCast", <<5>>), I(2), Op("Delay", <<1, 7>>), I(0),
            Binop("EQ", 6, 9), I(1), Binop("EQ", 6, 11),
            Op("Delay", <<1, 11>>), Op("Select2", <<12, 8, 13>>),
            Op("Select2", <<10, 14, 1>>)>>, <<15>>),
  \* process(x) = y letrec { 'y = prefix(1, x+y); };
  Program(<<In(1), I(1), I(0), R(1), Op("Rec", <<9>>), Proj(5, 1),
            Op("Delay", <<6, 2>>), Binop("Add", 1, 7),
            Op("Prefix", <<4, 8>>), Op("Delay", <<6, 3>>)>>, <<10>>),
  \* process = attach(_,control(_*2,button("g")) : hbargraph("b",0,1));
  Program(<<In(1), In(2), Button("g"), R(0), Binop("NE", 3, 4), R(1), R(2),
            Binop("Mul", 7, 2), Op("Control", <<8, 5>>),
            Bargraph(<<4, 6, 9>>, "b"), Op("Attach", <<1, 10>>)>>, <<11>>),
  \* process(x) = (y,z) letrec { 'y = control(x+z, button("g")); 'z = y; };
  Program(<<In(1), Button("g"), R(0), Binop("NE", 2, 3), I(0), I(1),
            Op("Rec", <<11, 13>>), Proj(7, 2), Op("Delay", <<8, 6>>),
            Binop("Add", 1, 9), Op("Control", <<10, 4>>), Proj(7, 1),
            Op("Delay", <<12, 6>>), Op("Delay", <<12, 5>>),
            Op("Delay", <<8, 5>>)>>, <<14, 15>>),
  \* process(x) = control(rwtable(3, 0, int(hslider("w",0,0,2,1)), int(x), int(hslider("r",0,0,2,1))), button("g"));
  Program(<<In(1), I(3), I(0), R(0), R(2), R(1),
            Slider(<<4, 4, 5, 6>>, "w"), Op("IntCast", <<7>>),
            Op("IntCast", <<1>>), Slider(<<4, 4, 5, 6>>, "r"),
            Op("IntCast", <<10>>), Op("Gen", <<3>>),
            Op("WRTbl", <<2, 12, 8, 9>>), Op("RDTbl", <<13, 11>>),
            Button("g"), Binop("NE", 15, 4), Op("Control", <<14, 16>>)>>, <<17>>),
  \* process(x) = lowest(hslider("s",-2,-2,2,1)) + highest(x) + x;
  Program(<<In(1), R(-2), R(2), R(1), Slider(<<2, 2, 3, 4>>, "s"),
            Ext("Lowest", <<5>>), Ext("Highest", <<1>>),
            Binop("Add", 1, 7), Binop("Add", 6, 8)>>, <<9>>),
  \* process(x) = int(x) & 3 , int(x) | int(button("g")), xor(int(x),int(hslider("s",-2,-2,2,1)));
  Program(<<In(1), Op("IntCast", <<1>>), I(3), Binop("AND", 2, 3),
            Button("g"), Op("IntCast", <<5>>), Binop("OR", 2, 6), R(-2),
            R(2), R(1), Slider(<<8, 8, 9, 10>>, "s"),
            Op("IntCast", <<11>>), Binop("XOR", 2, 12)>>, <<4, 7, 13>>),
  \* process(x) = int(x)+int(button("g")) , int(x)*int(hslider("k",0,-2,3,1)) ;
  Program(<<In(1), Op("IntCast", <<1>>), Button("g"), Op("IntCast", <<3>>),
            R(0), R(-2), R(3), R(1), Slider(<<5, 6, 7, 8>>, "k"),
            Op("IntCast", <<9>>), Binop("Add", 4, 2), Binop("Mul", 10, 2)>>, <<11, 12>>),
  \* process(x) = rdtable(3, waveform{1,2,3}:(!,_), int(x)&1);
  Program(<<In(1), I(3), Waveform(<<1, 2, 3>>), Op("IntCast", <<1>>), I(1),
            Binop("AND", 4, 5), Op("Gen", <<3>>), Op("WRTbl", <<2, 7>>),
            Op("RDTbl", <<8, 6>>)>>, <<9>>),
  \* process(x) = y letrec { 'y = select2(x>0, y, x); };
  Program(<<In(1), I(0), R(0), Binop("GT", 1, 3), I(1), Op("Rec", <<9>>),
            Proj(6, 1), Op("Delay", <<7, 5>>), Op("Select2", <<4, 8, 1>>),
            Op("Delay", <<7, 2>>)>>, <<10>>),
  \* process(x) = control(a,button("g")), b letrec { 'a = b + x; 'b = a; };
  Program(<<In(1), I(0), Button("g"), R(0), Binop("NE", 3, 4), I(1),
            Op("Rec", <<10, 12>>), Proj(7, 2), Op("Delay", <<8, 6>>),
            Binop("Add", 1, 9), Proj(7, 1), Op("Delay", <<11, 6>>),
            Op("Delay", <<11, 2>>), Op("Control", <<13, 5>>),
            Op("Delay", <<8, 2>>)>>, <<14, 15>>),
  \* process(x) = control(x*2,button("g")) , control(x@2,checkbox("h"));
  Program(<<In(1), I(2), Button("g"), R(0), Binop("NE", 3, 4),
            Op("Delay", <<1, 2>>), Checkbox("h"), Binop("NE", 7, 4),
            Op("Control", <<6, 8>>), R(2), Binop("Mul", 10, 1),
            Op("Control", <<11, 5>>)>>, <<12, 9>>),
  \* process = button("g")', _;
  Program(<<In(1), Button("g"), I(1), Op("Delay", <<2, 3>>)>>, <<4, 1>>),
  \* process(x) = control(x@3, button("g"));
  Program(<<In(1), I(3), Op("Delay", <<1, 2>>), Button("g"), R(0),
            Binop("NE", 4, 5), Op("Control", <<3, 6>>)>>, <<7>>),
  \* process(x) = control(max(x,0)@2, button("g")), min(x,1)@2;
  Program(<<In(1), I(2), Button("g"), R(0), Binop("NE", 3, 4),
            Ext("Max", <<1, 4>>), Op("Delay", <<6, 2>>),
            Op("Control", <<7, 5>>), R(1), Ext("Min", <<1, 9>>),
            Op("Delay", <<10, 2>>)>>, <<8, 11>>),
  \* process = prefix(1,2), _;
  Program(<<In(1), I(1), I(2), Op("Prefix", <<2, 3>>)>>, <<4, 1>>),
  \* process(x) = y, y@2, y' with { y = max(x, button("g")); };
  Program(<<In(1), Button("g"), Ext("Max", <<1, 2>>), I(2),
            Op("Delay", <<3, 4>>), I(1), Op("Delay", <<3, 6>>)>>, <<3, 5, 7>>),
  \* process(x) = a~_ with { a(p) = rdtable(4, (+(1)~_), (int(p)+int(x)) & 3); };
  Program(<<In(1), I(4), I(1), I(0), Op("IntCast", <<1>>), I(3),
            Op("Rec", <<19>>), Op("Rec", <<11>>), Proj(8, 1),
            Op("Delay", <<9, 3>>), Binop("Add", 10, 3),
            Op("Delay", <<9, 4>>), Op("Gen", <<12>>),
            Op("WRTbl", <<2, 13>>), Proj(7, 1), Op("Delay", <<15, 3>>),
            Binop("Add", 5, 16), Binop("AND", 17, 6),
            Op("RDTbl", <<14, 18>>), Op("Delay", <<15, 4>>)>>, <<20>>),
  \* process(x) = attach(x, control(max(x,button("h")),button("g")) : hbargraph("b",0,1));
  Program(<<In(1), Button("h"), Ext("Max", <<1, 2>>), Button("g"), R(0),
            Binop("NE", 4, 5), Op("Control", <<3, 6>>), R(1),
            Bargraph(<<5, 8, 7>>, "b"), Op("Attach", <<1, 9>>)>>, <<10>>),
  \* process(x) = control(max(x,button("g")) @ int(hslider("d",0,0,2,1)), checkbox("h"));
  Program(<<In(1), Button("g"), Ext("Max", <<1, 2>>), R(0), R(2), R(1),
            Slider(<<4, 4, 5, 6>>, "d"), Op("IntCast", <<7>>),
            Op("Delay", <<3, 8>>), Checkbox("h"), Binop("NE", 10, 4),
            Op("Control", <<9, 11>>)>>, <<12>>),
  \* process(x) = select2(checkbox("c"), control(max(x,0),checkbox("c")), x');
  Program(<<In(1), Checkbox("c"), R(0), Binop("NE", 2, 3),
            Ext("Max", <<1, 3>>), Op("Control", <<5, 4>>),
            Op("IntCast", <<2>>), I(1), Op("Delay", <<1, 8>>),
            Op("Select2", <<7, 6, 9>>)>>, <<10>>)
}

\* Two integers from sliders of two ranges, and an operator: what the interval
\* of a result has to bound, wrapped results included.
Ranges == {<<-2, 3>>, <<-7, -5>>, <<3, 7>>}
Combined(operation, a, b) ==
  Program(<<R(a[1]), R(a[2]), R(b[1]), R(b[2]), R(1), Slider(<<1, 1, 2, 5>>, "a"), Op("IntCast", <<6>>),
            Slider(<<3, 3, 4, 5>>, "b"), Op("IntCast", <<8>>), operation>>, <<10>>)
Operations ==
  {Binop(op, 7, 9) : op \in {"Add", "Mul", "AND", "OR", "XOR", "GT", "NE"}}
    \cup {Ext("Min", <<7, 9>>), Ext("Max", <<7, 9>>), Ext("Abs", <<7>>)}
Bounded == {Combined(op, a, b) : op \in Operations, a \in Ranges, b \in Ranges}

AllPlayed == Sources \cup Bounded
SliderPositions == {-7, -5, -2, 0, 2, 3, 7}

\* An amount of delay that wraps:
\* process(x) = x @ max(0, int(hslider("a",0,-7,2,1)) - int(hslider("b",0,0,3,1)));
WrappedDelay ==
  {Program(<<In(1), I(0), R(0), R(-7), R(2), R(1), Slider(<<3, 4, 5, 6>>, "a"), Op("IntCast", <<7>>),
             R(3), Slider(<<3, 3, 9, 6>>, "b"), Op("IntCast", <<10>>), Binop("Sub", 8, 11),
             Ext("Max", <<2, 12>>), Op("Delay", <<1, 13>>)>>, <<14>>)}

\* Programs whose output is not kept while its condition is false.  A ring:
\* process(x) = control(y,button("g")), control(y@3,button("g")) with {y=max(x,0);};
GuardedRing ==
  {Program(<<In(1), Button("g"), R(0), Binop("NE", 2, 3), I(3),
             Ext("Max", <<1, 3>>), Op("Control", <<6, 4>>),
             Op("Delay", <<6, 5>>), Op("Control", <<8, 4>>)>>, <<7, 9>>)}
\* process = control(prefix(0,_),button("g"));
GuardedPrefix ==
  {Program(<<In(1), Button("g"), R(0), Binop("NE", 2, 3),
             Op("Prefix", <<3, 1>>), Op("Control", <<5, 4>>)>>, <<6>>)}
=============================================================================
