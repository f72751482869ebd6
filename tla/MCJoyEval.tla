----------------------------- MODULE MCJoyEval ------------------------------
(***************************************************************************)
(* Model checking of JoyEval: the programs, written as sequences of items, *)
(* and two history variables that record what JoyMeaning says a program    *)
(* means and what every saved stack held when it was saved.                *)
(***************************************************************************)
EXTENDS JoyMeaning

VARIABLES
  expect,  \* what the program that runs means
  memo     \* what each stack on dump stood for when it was saved

mcvars == <<vars, expect, memo>>

-----------------------------------------------------------------------------
(* Programs. *)
N(n)     == Int_(n)
Q(items) == List(items)
S(codes) == Item("STRING_", codes)
Z(set)   == Item("SET_", set)
C(code)  == Item("CHAR_", code)
O(p)     == Item(p, 0)
U(name)  == Item("USR_", name)

(* readterm: the nodes of a program, the inner lists first. *)
RECURSIVE Read(_, _)
Read(h, items) ==
  IF items = <<>> THEN [heap |-> h, top |-> NULL]
  ELSE LET rest == Read(h, Tail(items))
           it   == Head(items)
           sub  == IF it.op = "LIST_" THEN Read(rest.heap, it.u)
                   ELSE [heap |-> rest.heap, top |-> it.u]
       IN  [heap |-> Append(sub.heap, Node(it.op, sub.top, rest.top)),
            top  |-> Len(sub.heap) + 1]

RECURSIVE ReadAll(_, _)
ReadAll(h, progs) ==
  IF progs = <<>> THEN [heap |-> h, tops |-> <<>>]
  ELSE LET r == Read(h, Head(progs))
           rest == ReadAll(r.heap, Tail(progs))
       IN  [heap |-> rest.heap, tops |-> <<r.top>> \o rest.tops]

(* What the user has defined, typed, and left on the stack. *)
Session(defs, progs, stack) ==
  LET names == SetToSeq(DOMAIN defs)
      d == ReadAll(<<>>, [i \in DOMAIN names |-> defs[names[i]]])
      p == ReadAll(d.heap, progs)
      s == Read(p.heap, stack)
  IN  [heap |-> s.heap, stk |-> s.top, progs |-> p.tops,
       body |-> [n \in DOMAIN defs \cup {"missing"} |->
                   IF n \in DOMAIN defs
                   THEN d.tops[CHOOSE i \in DOMAIN names : names[i] = n] ELSE NULL]]
NoDefs == [none |-> <<>>]
Alone(prog) == Session(NoDefs, <<prog>>, <<>>)

-----------------------------------------------------------------------------
(* One program for every combinator, and for their error paths. *)
IsNull == Q(<<O("null")>>)
Sum3   == <<N(1), N(2), N(3)>>
Tree   == Q(<<N(1), Q(<<N(2), Q(<<>>)>>), N(3)>>)
Fact   == <<N(3), IsNull, Q(<<O("succ")>>), Q(<<O("dup"), O("pred")>>), Q(<<O("mul")>>), O("linrec")>>

Programs == {
  <<N(2), Q(<<O("dup"), O("mul")>>), O("i")>>,
  <<Q(<<O("pop"), N(4)>>), O("x")>>,
  <<N(1), N(2), Q(<<O("succ")>>), O("dip")>>,
  <<N(1), N(2), Q(<<O("plus")>>), O("nullary")>>,
  <<N(1), N(2), Q(<<O("plus")>>), O("unary")>>,
  <<N(1), N(2), Q(<<O("plus")>>), O("binary")>>,
  <<N(5), N(1), N(2), Q(<<O("plus")>>), O("ternary")>>,
  <<Q(<<>>), O("nullary")>>,
  <<N(1), N(3), Q(<<O("dup"), O("plus")>>), O("times")>>,
  <<N(9), Q(Sum3), Q(<<O("plus"), O("dup")>>), O("infra")>>,
  <<N(7), N(5), Q(<<O("succ")>>), Q(<<O("pred")>>), O("cleave")>>,
  <<N(8), N(7), N(5), Q(<<O("succ")>>), O("app11")>>,
  <<N(8), N(5), Q(<<O("pop"), N(3)>>), O("app1")>>,
  <<N(9), N(1), N(2), Q(<<O("succ")>>), O("unary2")>>,
  <<N(1), N(2), N(3), Q(<<O("succ")>>), O("unary3")>>,
  <<N(1), N(2), N(3), N(4), Q(<<O("succ")>>), O("unary4")>>,
  <<N(9), N(8), N(1), N(2), Q(<<O("succ")>>), O("app12")>>,
  <<N(9), Q(Sum3), Q(<<O("dup"), O("mul")>>), O("map")>>,
  <<Q(<<Q(Sum3), Q(<<>>), Q(<<N(4)>>)>>), Q(<<Q(<<O("succ")>>), O("map"), O("size")>>), O("map")>>,
  <<Z({1, 2}), Q(<<O("succ")>>), O("map")>>,
  <<N(9), Q(Sum3), Q(<<N(2), O("less")>>), O("filter")>>,
  <<S(<<1, 5, 2>>), Q(<<N(3), O("less")>>), O("filter")>>,
  <<Z({0, 2, 3}), Q(<<N(2), O("less")>>), O("filter")>>,
  <<Q(<<N(3), N(1), N(2), N(0)>>), Q(<<N(2), O("less")>>), O("split")>>,
  <<Q(<<N(3), Q(<<N(1), N(5)>>), N(2)>>), Q(<<O("list")>>), O("split")>>,
  <<S(<<1, 5, 2>>), Q(<<N(3), O("less")>>), O("split")>>,
  <<Z({0, 2, 3}), Q(<<N(2), O("less")>>), O("split")>>,
  <<Q(Sum3), Q(<<N(2), O("eql")>>), O("some")>>,
  <<Q(Sum3), Q(<<N(2), O("less")>>), O("all")>>,
  <<S(<<1, 5>>), Q(<<N(5), O("eql")>>), O("some")>>,
  <<Z({1, 2}), Q(<<N(3), O("less")>>), O("all")>>,
  <<N(0), Q(Sum3), Q(<<O("plus")>>), O("step")>>,
  <<N(0), S(<<1, 5>>), Q(<<O("ord"), O("plus")>>), O("step")>>,
  <<Z({1, 3}), N(0), Q(<<O("plus")>>), O("fold")>>,
  <<Q(Sum3), N(0), Q(<<O("plus")>>), O("fold")>>,
  <<N(4), Q(<<Q(<<Q(<<N(3), O("less")>>), O("succ")>>), Q(<<Q(<<N(4), O("eql")>>), O("dup"), O("plus")>>),
              Q(<<O("pop")>>)>>), O("cond")>>,
  <<N(9), N(7), Q(<<Q(<<Q(<<N(3), O("less")>>), O("succ")>>), Q(<<O("pop")>>)>>), O("cond")>>,
  <<N(2), Q(<<N(3), O("less")>>), Q(<<O("succ")>>), Q(<<O("pred")>>), O("ifte")>>,
  <<N(2), Q(<<O("pop"), O("false")>>), Q(<<O("succ")>>), Q(<<O("pred")>>), O("ifte")>>,
  <<N(2), O("true"), Q(<<O("succ")>>), Q(<<O("pred")>>), O("branch")>>,
  <<N(2), Q(<<O("succ")>>), Q(<<O("pop")>>), O("ifinteger")>>,
  <<Q(<<>>), Q(<<O("succ")>>), Q(<<O("pop")>>), O("ifchar")>>,
  <<Q(<<>>), Q(<<O("null")>>), Q(<<O("pop")>>), O("iflist")>>,
  <<N(0), N(3), Q(<<O("null"), O("not")>>), Q(<<O("dup"), O("rolldown"), O("plus"), O("swap"), O("pred")>>),
    O("while")>>,
  <<N(3), Q(<<N(1)>>), Q(<<O("mul")>>), O("primrec")>>,
  <<Q(Sum3), Q(<<Q(<<>>)>>), Q(<<O("cons")>>), O("primrec")>>,
  <<Z({1, 2}), Q(<<N(0)>>), Q(<<O("plus")>>), O("primrec")>>,
  <<N(9), N(4), Q(<<O("dup")>>), Q(<<Q(<<O("succ")>>), Q(<<O("plus")>>), Q(<<O("pop"), O("dup")>>)>>),
    O("construct")>>,
  <<Q(<<Q(<<O("succ")>>), Q(<<Q(<<O("pred")>>)>>)>>), N(1), O("swap"), O("pop"), Q(<<>>),
    Q(<<Q(<<N(3), Q(<<>>), Q(<<Q(<<O("succ")>>)>>), O("construct")>>), Q(<<O("dup")>>)>>), O("construct")>>,
  <<N(2), Q(<<Q(<<N(1), O("true")>>), Q(<<N(2), N(7), O("succ")>>), Q(<<O("pop")>>)>>), O("case")>>,
  <<N(2), Q(<<Q(<<N(1), O("true")>>), Q(<<O("pred")>>)>>), O("case")>>,
  <<N(2), Q(<<Q(<<S(<<>>), O("true")>>), Q(<<N(0), O("succ")>>), Q(<<O("pop")>>)>>), O("opcase"), O("i")>>,
  <<N(3), IsNull, Q(<<O("succ")>>), Q(<<O("pred")>>), O("tailrec")>>,
  Fact,
  <<N(3), Q(<<O("small")>>), Q(<<>>), Q(<<O("pred"), O("dup"), O("pred")>>), Q(<<O("plus")>>), O("binrec")>>,
  <<N(2), IsNull, Q(<<O("succ")>>), Q(<<O("dup"), O("pred")>>), Q(<<O("i"), O("mul")>>), O("genrec")>>,
  <<N(2), Q(<<Q(<<IsNull, Q(<<O("succ")>>)>>), Q(<<Q(<<O("dup"), O("pred")>>), Q(<<O("mul")>>)>>)>>),
    O("condlinrec")>>,
  <<N(2), Q(<<Q(<<IsNull, Q(<<O("pop"), N(5)>>)>>), Q(<<Q(<<N(3), O("eql")>>), Q(<<>>)>>),
              Q(<<Q(<<O("pred")>>)>>)>>), O("condlinrec")>>,
  <<N(2), Q(<<Q(<<Q(<<O("small")>>), Q(<<>>)>>),
              Q(<<Q(<<O("pred"), O("dup")>>), Q(<<O("swap")>>), Q(<<O("plus")>>)>>)>>), O("condnestrec")>>,
  <<N(0), Tree, Q(<<O("plus")>>), O("treestep")>>,
  <<Tree, Q(<<O("succ")>>), Q(<<O("map")>>), O("treerec")>>,
  <<Tree, Q(<<O("succ")>>), Q(<<O("dup"), O("pop")>>), Q(<<O("map")>>), O("treegenrec")>>,
  <<N(1), N(2), O("stack"), O("rest"), O("unstack")>>,
  <<N(1), Q(<<N(2)>>), Q(<<N(3), N(4)>>), O("enconcat")>>,
  <<O("true"), N(1), N(2), O("choice"), N(5), O("max")>>,
  <<Q(Sum3), N(2), O("take"), N(1), O("drop"), Q(<<N(2)>>), O("equal")>>,
  <<Z({1, 2}), N(1), O("drop"), N(2), O("swap"), O("in")>>,
  <<S(<<1, 2>>), S(<<3>>), O("concat"), O("size")>>,
  <<Z({1, 2}), Z({2, 0}), O("concat"), O("unswons"), O("has")>>,
  <<N(1), N(0), O("setundeferror"), U("missing"), U("missing"), N(1), O("setundeferror"), U("missing")>>,
  <<Q(Sum3), O("uncons"), N(5), O("swap"), O("cons"), O("first")>>,
  <<Q(<<S(<<2>>), S(<<1, 4>>), S(<<1, 3, 2>>), S(<<1, 3>>)>>), Q(<<S(<<1, 3, 2>>), O("less")>>), O("filter")>>,
  <<Q(<<O("dup")>>), O("first"), S(<<4, 5>>), O("eql"), Q(<<O("pop")>>), O("first"), S(<<4, 5>>), O("less")>>,
  <<N(2), Q(<<Q(<<S(<<>>)>>), N(7), Q(<<N(0)>>)>>), O("opcase")>>,
  <<N(2), Q(<<Q(<<>>), Q(<<N(0)>>)>>), O("opcase")>>,
  <<Q(<<>>), N(1), O("take")>>,
  <<O("pop")>>,
  <<N(1), O("i")>>,
  <<N(1), N(2), Q(<<Q(<<O("succ")>>), O("dip")>>), O("nullary")>>,
  <<N(99), O("unstack")>>,
  <<O("drop")>>,
  <<N(1), Q(<<O("pop")>>), Q(<<>>), Q(<<>>), O("ifte")>> }

(* Definitions that call one another, and a program after an error. *)
Defs == [sq     |-> <<O("dup"), O("mul")>>,
         quad   |-> <<U("sq"), U("sq")>>,
         empty  |-> <<>>,
         low    |-> <<Q(<<N(1), N(3), N(0)>>), Q(<<N(2), O("less")>>), O("filter")>>,
         down   |-> <<Q(<<O("null")>>), Q(<<>>), Q(<<O("pred"), U("down")>>), O("ifte")>>]
Calls == {
  <<<<N(2), U("quad"), U("empty")>>, <<N(1), Q(<<U("sq")>>), O("map")>>, <<N(2), U("down")>>>>,
  <<<<N(2), Q(<<Q(<<O("succ")>>), Q(<<O("first")>>)>>), Q(<<>>), O("swap"), O("construct")>>, <<N(3), U("down")>>>>,
  <<<<U("low"), U("low")>>, <<U("low"), O("size")>>>>,
  <<<<Q(<<N(1), S(<<1>>), N(2)>>), Q(<<Q(<<U("missing")>>), O("dip")>>), O("split")>>, Fact>>,
  <<<<Q(<<N(1), N(0)>>), Q(<<N(2), O("swap"), O("div"), O("pop")>>), O("map")>>,
    <<Q(<<N(1), N(0)>>), Q(<<O("succ")>>), O("map")>>>>}

(* Every program of up to Longest items over an alphabet without x and     *)
(* without a dup that i could reach twice: all of them end.                *)
CONSTANT Longest
Alphabet == {N(1), Q(<<>>), Q(<<O("dup")>>), Q(<<N(2), O("cons")>>), O("swap"), O("cons"), O("dip"),
             O("infra"), O("map"), O("cleave"), O("nullary"), O("ifte"), O("unary2")}
Start_ == <<Q(<<O("succ")>>), N(2), Q(<<N(1), N(0)>>), Q(<<O("dup")>>), N(3)>>
MCSessions ==
  {Alone(p) : p \in Programs}
    \cup {Session(Defs, ps, <<N(6), Q(<<N(7)>>)>>) : ps \in Calls}
    \cup {Session(NoDefs, <<p>>, Start_) : p \in SeqOf(Alphabet, Longest)}

(* Programs that reach, with an operator that changes nodes in place, nodes *)
(* that are saved or that belong to a definition.                          *)
Aliasing == {
  <<N(3), Q(<<O("null"), O("not")>>), Q(<<O("pred")>>), Q(<<O("while")>>), O("nullary")>>,
  <<S(<<1>>), S(<<2>>), Q(<<O("concat")>>), O("nullary")>>,
  <<N(1), N(2), N(3), Q(<<Q(<<>>), O("app11")>>), O("nullary")>>}
MCAliasing == {Alone(p) : p \in Aliasing}

MCSpelling == [op \in {"dup", "pop", "LIST_", "SET_"} |->
                 CASE op = "dup" -> <<4, 5>> [] op = "pop" -> <<4, 5, 6>> [] OTHER -> <<0>>]
MCResidue == {<<>>, <<7>>}

-----------------------------------------------------------------------------
Env == [n \in {m \in DOMAIN symtab : symtab[m] # NULL} |-> Stands(heap, symtab[n])]

MCInit == Init /\ expect = Bad /\ memo = <<>>
MCNext ==
  /\ Next
  /\ expect' = IF status' = "running" /\ status = "idle"
               THEN Runs(Stands(heap, Head(todo)), Stands(heap, stk), Env) ELSE expect
  /\ memo' = CASE Len(dump') > Len(dump) -> <<Stands(heap', Head(dump'))>> \o memo
               [] Len(dump') < Len(dump) -> SubSeq(memo, Len(dump) - Len(dump') + 1, Len(memo))
               [] OTHER -> memo
MCSpec == MCInit /\ [][MCNext]_mcvars

-----------------------------------------------------------------------------
(* A program that ends leaves the stack that its operators' documentation  *)
(* describes: no combinator, however nested, disturbs what another keeps.  *)
Agrees ==
  status = "running" /\ frames = <<>> =>
    expect.ok /\ Stands(heap, stk) = expect.stk

(* The stack that a combinator saved still stands for what it did, except  *)
(* that while replaces the part below its two quotations.                  *)
SavedIntact ==
  LET holders == SelectSeq(frames, Saves) IN
  \A i \in DOMAIN dump :
    IF holders[i].proc = "while"
    THEN SubSeq(Stands(heap, dump[i]), 1, 2) = SubSeq(memo[i], 1, 2)
    ELSE Stands(heap, dump[i]) = memo[i]

(* "No matter how many parameters this consumes, none are removed from the *)
(* stack": the stack under a nullary stays as it was.                      *)
NullaryKeeps ==
  LET holders == SelectSeq(frames, Saves) IN
  \A i \in DOMAIN dump :
    holders[i].proc = "nullary" => Stands(heap, dump[i]) = memo[i]

(* No step rewrites a program that was read or a definition's body. *)
ProgramsIntact ==
  [][\A q \in {Head(todo) : i \in IF todo = <<>> THEN {} ELSE {1}} \cup
              {symtab[n] : n \in DOMAIN symtab} :
        Stands(heap', q) = Stands(heap, q)]_mcvars
=============================================================================
