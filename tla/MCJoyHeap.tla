------------------------------ MODULE MCJoyHeap ------------------------------
(***************************************************************************)
(* Model checking of JoyHeap: the inputs, as scripts of what the user types *)
(* and what the programs do, and the terms that the nodes in memory stand  *)
(* for, as a refinement of JoyStore.                                       *)
(***************************************************************************)
EXTENDS JoyCollect, TLC, SequencesExt

CONSTANT Scripts

VARIABLE script  \* what is still to happen

mcvars == <<cvars, script>>

-----------------------------------------------------------------------------
(* What the text and the program decide; the rest follows. *)
Step(what) ==
  \/ what = "term"   /\ Readterm
  \/ what = "["      /\ ReadList
  \/ what = "1"      /\ ReadNumber
  \/ what = "]"      /\ (CloseList \/ CloseProgram \/ CloseDefinition)
  \/ what = "define" /\ BeginDefinitions
  \/ what = "end"    /\ EndDefinitions
  \/ what = "call"   /\ Running /\ Enter
  \/ what = "next"   /\ (Literal \/ Leave)
  \/ what = "pop"    /\ Pop
  \/ what = "unstack" /\ Unstack
  \/ what = "stack"  /\ Stack
  \/ what = "rest"   /\ Rest
  \/ what = "cons"   /\ Cons_
  \/ what = "app11"  /\ App11
  \/ what = "concat" /\ ConcatString
  \/ what = "again"  /\ WhileAgain
  \/ what = "store"  /\ WhileStore
  \/ what = "save"   /\ Save
  \/ what = "restore" /\ Restore
  \/ what = "drop"   /\ PopDump
  \/ what = "map"    /\ MapOpen
  \/ what = "collect" /\ MapCollect
  \/ what = "mapped" /\ MapClose
  \/ what = "primrec" /\ Primrec
  \/ what = "gc"     /\ Gc_
  \/ what = "abort"  /\ Abort

Follows ==
  \/ Collector \/ ReadEnd \/ ConsList \/ MapOpenLast \/ PrimrecMember
  \/ reading = <<"run">> /\ Enter

-----------------------------------------------------------------------------
MCInit == CInit /\ script \in Scripts
MCNext ==
  /\ \/ Follows /\ UNCHANGED script
     \/ script # <<>> /\ Step(Head(script)) /\ script' = Tail(script)
  /\ Remember
MCSpec == MCInit /\ [][MCNext]_mcvars

-----------------------------------------------------------------------------
(* A definition and a program, of which some is on the stack; then every   *)
(* sequence of Longest operations, or a longer one, with so much garbage   *)
(* before it that the collections fall on each of its newnodes.            *)
CONSTANT Longest
Define(t)  == <<"define", "term">> \o t \o <<"]", "end">>
Program(t) == <<"term">> \o t \o <<"]">>
Garbage(n) == FlattenSeq([i \in 1 .. n |-> <<"stack", "pop">>])
Do == {"call", "next", "pop", "unstack", "stack", "rest", "cons", "app11", "concat",
       "save", "again", "store", "restore", "drop", "map", "collect", "mapped", "primrec", "gc"}
Begin == Define(<<"1", "[", "1", "]">>) \o Program(<<"1", "[", "1", "1", "]">>) \o <<"next", "next">>
Long == {
  <<"save", "map", "collect", "pop", "collect", "collect", "mapped", "rest", "drop">>,
  <<"stack", "primrec", "cons", "stack", "primrec", "drop", "restore", "drop">>,
  <<"call", "next", "next", "cons", "next", "rest", "rest", "unstack", "next">>,
  <<"next", "gc", "drop", "gc">>,
  <<"next", "pop">> \o Program(<<"[", "]", "[", "1", "]">>)
    \o <<"next", "next", "save", "again", "stack", "store", "pop", "again", "rest", "store", "gc", "again", "drop">>,
  <<"stack", "stack", "save", "again", "pop", "store", "gc", "again", "drop">>,
  <<"save", "abort">> \o Program(<<"1", "[", "[", "]", "1", "]", "1">>) \o <<"next", "next", "cons">>,
  <<"next", "pop">> \o Define(<<"[", "[", "1", "]", "]">>) \o Program(<<>>)
    \o <<"call", "next", "primrec", "stack", "drop", "stack", "gc", "cons">>,
  <<"next">> \o Define(<<"1">>) \o Define(<<>>) \o Define(<<"1">>) \o Define(<<"1">>) \o Define(<<"1">>)
    \o <<"stack", "stack">>,
  <<"next", "term", "1", "[", "1", "abort", "stack", "term", "1", "1", "]">>,
  <<"next", "define", "term", "[", "1", "1", "1", "1", "]", "1", "1", "1", "1", "1", "1", "1", "1", "1", "1">> }
(* A definition becomes the stack and is changed in place. *)
Shorten(n) ==
  Define(<<"[", "1", "1", "1", "1", "]">>) \o Program(<<>>) \o Garbage(n)
    \o <<"call", "next", "unstack", "app11", "concat", "stack", "gc", "pop", "concat", "call", "next">>
MCScripts == {Begin \o Garbage(n) \o t : n \in {0, 2, 3}, t \in SeqOf(Do, Longest)}
       \cup {Begin \o Garbage(n) \o t : n \in 0 .. 12, t \in Long}
       \cup {Shorten(n) : n \in 0 .. 12}

-----------------------------------------------------------------------------
(* The term that an address stands for; a cell that has been copied is     *)
(* looked up where it is now.                                              *)
RECURSIVE Value(_)
Value(a) ==
  IF a = NULL THEN <<>>
  ELSE LET c == IF memory[a].op = "COPIED_" THEN memory[memory[a].u] ELSE memory[a]
       IN  <<[op |-> c.op, u |-> IF c.op = "LIST_" THEN Value(c.u) ELSE c.u]>> \o Value(c.next)

(* The literal that a program has passed when its newnode has to collect.  *)
Passed == IF pc # "run" /\ call.place = "literal"
          THEN <<[op |-> call.op, u |-> IF call.op = "LIST_" THEN Value(call.u) ELSE call.u]>>
          ELSE <<>>
Conts == LET v == Value(root["conts"])
         IN  IF Passed = <<>> THEN v ELSE <<[Head(v) EXCEPT !.u = Passed \o @]>> \o Tail(v)

(* What else leads to the nodes that an operator changes in place. *)
HeldBy(p) == p # NULL /\ p \in Reachable(memory, 0, {root[x] : x \in Roots \ {"stk"}} \cup {body[n] : n \in Names})
TestHeldBy ==
  LET dumps  == memory[root["dump"]].next
      orders == memory[Dmp("dump")].u
  IN  Test \in Reachable(memory, 0, {root[x] : x \in Roots \ {"dump"}} \cup {body[n] : n \in Names} \cup {dumps, orders})
Shared ==
  [top   |-> HeldBy(root["stk"]),
   below |-> root["stk"] # NULL /\ HeldBy(Top.next),
   test  |-> InWhile /\ TestHeldBy]

Store == INSTANCE JoyStore WITH
  stk <- Value(root["stk"]),
  prog <- IF reading = <<"run">> THEN Value(root["prog"]) ELSE <<>>,
  conts <- Conts,
  dump <- Value(root["dump"]), dump2 <- Value(root["dump2"]), dump3 <- Value(root["dump3"]),
  members <- Value(current),
  meaning <- [n \in Names |-> Value(body[n])],
  shared <- Shared

(* Between collections the marks of the collector are out of sight: the     *)
(* stack, the programs and the dumps consist of numbers and lists.         *)
NoMovedNode == pc = "run" => \A a \in LiveIn(Heap) : memory[a].op \in {"INTEGER_", "LIST_"}

(* Collections are invisible: whatever moves, the registers, the dumps and *)
(* the definitions stand for the terms the program has put there.          *)
ImplementsStore == Store!Spec
=============================================================================
