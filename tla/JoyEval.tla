------------------------------ MODULE JoyEval ------------------------------
(***************************************************************************)
(* The combinators of interp.c on the machine of JoyMachine, and the       *)
(* specification of the evaluator.  A combinator is one action: its        *)
(* disjuncts are the stretches of C code between two calls of exeterm.     *)
(* Every combinator saves the stack on dump when it begins and removes it  *)
(* when it ends; SAVED1 .. SAVED6 are the saved arguments, top first.      *)
(***************************************************************************)
EXTENDS JoyMachine

X_ ==
  \/ /\ Start("x") /\ Exe(ArgVal(1).u, 1, Loc)
     /\ KeepStack /\ KeepDumps
  \/ In("x", 1) /\ Return /\ KeepStack /\ KeepDumps

(* Combinators that run one quotation on part of the stack and are done.   *)
RunOn(p, base, quote) ==
  Start(p) /\ SetStack(base) /\ Exe(quote, 1, Loc) /\ Save /\ UNCHANGED dumps

I_   == RunOn("i", Arg(2), ArgVal(1).u)
App1 == RunOn("app1", Arg(2), ArgVal(1).u)
Branch ==
  RunOn("branch", Arg(4), IF Truth(ArgVal(3)) THEN ArgVal(2).u ELSE ArgVal(1).u)
IfType_ ==
  \E p \in DOMAIN IfType :
    RunOn(p, Arg(3), IF ArgVal(3).op = IfType[p] THEN ArgVal(2).u ELSE ArgVal(1).u)

(* POP(dump) forgotten. *)
FinishWithoutPop ==
  /\ \E p \in DOMAIN IfType \cup {"i", "app1", "branch", "linrec", "binrec"} : In(p, 1)
  /\ Return /\ KeepStack /\ KeepDumps

(* POP(dump) and return, where nothing else is left to do. *)
Finish ==
  /\ \/ \E p \in DOMAIN IfType \cup {"i", "app1", "branch", "condlinrec", "condnestrec",
                                     "linrec", "binrec", "treestep"} : In(p, 1)
     \/ In("ifte", 2) \/ In("tailrec", 3)
     \/ In("times", 1) /\ Loc.n <= 0
     \/ In("primrec", 1) /\ Loc.n <= 0
  /\ Drop /\ Return /\ KeepStack /\ UNCHANGED dumps

(* The saved node itself linked in front of the result, not a new one.     *)
DipRelinks ==
  \/ RunOn("dip", Arg(3), ArgVal(1).u)
  \/ /\ In("dip", 1) /\ heap' = [heap EXCEPT ![Saved(2)].next = stk] /\ stk' = Saved(2)
     /\ Drop /\ Return /\ UNCHANGED dumps

Dip ==
  \/ RunOn("dip", Arg(3), ArgVal(1).u)
  \/ /\ In("dip", 1) /\ PushOn(<<SavedVal(2)>>, stk)
     /\ Drop /\ Return /\ UNCHANGED dumps

(* nullary, unary, binary, ternary: the value left on top is pushed on the *)
(* saved stack less that many arguments.                                   *)
Nary_ ==
  \E p \in DOMAIN Nary :
    \/ RunOn(p, Arg(2), ArgVal(1).u)
    \/ /\ In(p, 1) /\ stk # NULL /\ PushOn(<<ArgVal(1)>>, Saved(Nary[p] + 1))
       /\ Drop /\ Return /\ UNCHANGED dumps

Times ==
  \/ /\ Start("times") /\ SetStack(Arg(3)) /\ Goto(1, [Loc EXCEPT !.n = ArgVal(2).u])
     /\ Save /\ UNCHANGED dumps
  \/ /\ In("times", 1) /\ Loc.n > 0 /\ Exe(Quote(1), 1, [Loc EXCEPT !.n = @ - 1])
     /\ KeepStack /\ KeepDumps

Infra ==
  \/ RunOn("infra", ArgVal(2).u, ArgVal(1).u)
  \/ /\ In("infra", 1) /\ PushOn(<<List_(stk)>>, Saved(3))
     /\ Drop /\ Return /\ UNCHANGED dumps

Cleave ==
  \/ RunOn("cleave", Arg(3), ArgVal(2).u)
  \/ /\ Resume("cleave", 1) /\ SetStack(Saved(3)) /\ Exe(Quote(1), 2, Loc)
     /\ dumps' = Pushed(dumps, 1, ArgVal(1)) /\ UNCHANGED dump
  \/ /\ Resume("cleave", 2) /\ PushOn(<<Head(dumps[1]), ArgVal(1)>>, Saved(4))
     /\ dumps' = Popped(dumps, {1}) /\ Drop /\ Return

(* app1, then the argument below the result is unlinked. *)
App11 ==
  \/ Start("app11") /\ Call(Frame("app1"), 1) /\ KeepStack /\ KeepDumps
  \/ /\ Resume("app11", 1) /\ heap' = [heap EXCEPT ![stk].next = Arg(3)]
     /\ Return /\ UNCHANGED stk /\ KeepDumps

(* unary2 .. unary4: one result per argument, collected on dump1. *)
UnaryN_ ==
  \E p \in DOMAIN UnaryN :
    LET n == UnaryN[p] IN
    \/ /\ Start(p) /\ SetStack(Arg(n + 1)) /\ Exe(ArgVal(1).u, 1, [Loc EXCEPT !.n = 1])
       /\ Save /\ UNCHANGED dumps
    \/ /\ Resume(p, 1) /\ Loc.n < n
       /\ PushOn(<<SavedVal(n + 1 - Loc.n)>>, Saved(n + 2))
       /\ Exe(Quote(1), 1, [Loc EXCEPT !.n = @ + 1])
       /\ dumps' = Pushed(dumps, 1, ArgVal(1)) /\ UNCHANGED dump
    \/ /\ Resume(p, 1) /\ Loc.n = n
       /\ PushOn(Append(Reverse(SubSeq(dumps[1], 1, n - 1)), ArgVal(1)), Saved(n + 2))
       /\ dumps' = [dumps EXCEPT ![1] = SubSeq(@, n, Len(@))] /\ Drop /\ Return

(* unary2, then the third argument is unlinked. *)
App12 ==
  \/ Start("app12") /\ Call(Frame("unary2"), 1) /\ KeepStack /\ KeepDumps
  \/ /\ Resume("app12", 1) /\ heap' = [heap EXCEPT ![Arg(2)].next = Arg(4)]
     /\ Return /\ UNCHANGED stk /\ KeepDumps

(***************************************************************************)
(* map, filter, split, some, all, step: a loop over the members of an      *)
(* aggregate.  For a list dump1 holds the rest of it and dump2 .. dump5    *)
(* the head and last node of each result; for strings and sets both are    *)
(* locals of the C procedure.  Which case of the switch was entered is     *)
(* Loc.over: it is not looked up again.                                    *)
(***************************************************************************)
OwnDumps(p) == CASE p \in {"map", "filter"} -> {1, 2, 3}
                 [] p = "split" -> 1 .. 5
                 [] OTHER -> {1}

BeginLoop ==
  \E p \in Loops :
    /\ Start(p)
    /\ SetStack(IF p = "step" THEN Arg(3) ELSE stk)
    /\ Save
    /\ IF ArgVal(2).op = "LIST_"
       THEN /\ dumps' = [k \in 1 .. 5 |->
                           IF k \notin OwnDumps(p) THEN dumps[k]
                           ELSE <<IF k = 1 THEN ArgVal(2) ELSE List_(NULL)>> \o dumps[k]]
            /\ Goto(1, [Loc EXCEPT !.over = "LIST_"])
       ELSE /\ UNCHANGED dumps
            /\ Goto(1, [Loc EXCEPT !.over = ArgVal(2).op, !.rest = Members(ArgVal(2))])

OverList == Loc.over = "LIST_"
More     == IF OverList THEN Dmp(1) # NULL ELSE Loc.rest # <<>>
Current  == IF OverList THEN Val(heap, Dmp(1)) ELSE Head(Loc.rest)
Decided  == Loc.n # 0   \* some has found a member, all a counterexample

LoopTake ==
  \E p \in Loops :
    /\ In(p, 1) /\ More /\ ~Decided
    /\ PushOn(<<Current>>, IF p = "step" THEN stk ELSE Saved(3))
    /\ Exe(Quote(1), 2, Loc)
    /\ KeepDumps

(* The cell of the member itself linked into the result, not a copy.       *)
CollectInPlace(yes, v) ==
  LET k   == IF yes THEN 2 ELSE 4
      d   == Moved(Moved(dumps, k + 1, Dmp(1)), 1, Next1(Dmp(1)))
      loc == [Loc EXCEPT !.rest = Tail(@)]
  IN  IF OverList
      THEN /\ Goto(1, Loc)
           /\ IF Dmp(k) = NULL
              THEN UNCHANGED heap /\ dumps' = Moved(d, k, Dmp(1))
              ELSE heap' = [heap EXCEPT ![Dmp(k + 1)].next = Dmp(1)] /\ dumps' = d
      ELSE /\ Goto(1, IF yes THEN [loc EXCEPT !.yes = Append(@, v.u)]
                             ELSE [loc EXCEPT !.no  = Append(@, v.u)])
           /\ UNCHANGED <<heap, dumps>>

(* The member that the quotation decided about joins a result: v joins     *)
(* "yes" (dump2, dump3) or "no" (dump4, dump5).                            *)
Collect(yes, v) ==
  LET k    == IF yes THEN 2 ELSE 4
      new  == Len(heap) + 1
      cell == Append(heap, Node(v.op, v.u, NULL))
      d    == Moved(Moved(dumps, k + 1, new), 1, Next1(Dmp(1)))
      loc  == [Loc EXCEPT !.rest = Tail(@)]
  IN  IF OverList
      THEN /\ Goto(1, Loc)
           /\ IF Dmp(k) = NULL
              THEN heap' = cell /\ dumps' = Moved(d, k, new)
              ELSE heap' = [cell EXCEPT ![Dmp(k + 1)].next = new] /\ dumps' = d
      ELSE /\ Goto(1, IF yes THEN [loc EXCEPT !.yes = Append(@, v.u)]
                             ELSE [loc EXCEPT !.no  = Append(@, v.u)])
           /\ UNCHANGED <<heap, dumps>>

(* DMP1 = DMP1->next, or the next character or bit *)
Skip(n) ==
  /\ UNCHANGED heap
  /\ IF OverList THEN /\ dumps' = Moved(dumps, 1, Next1(Dmp(1)))
                      /\ Goto(1, [Loc EXCEPT !.n = n])
                 ELSE /\ UNCHANGED dumps
                      /\ Goto(1, [Loc EXCEPT !.n = n, !.rest = Tail(@)])

LoopMember ==
  /\ \/ Resume("map", 2)    /\ Collect(TRUE, ArgVal(1))
     \/ Resume("filter", 2) /\ Truth(ArgVal(1)) /\ Collect(TRUE, Current)
     \/ Resume("filter", 2) /\ ~Truth(ArgVal(1)) /\ Skip(0)
     \/ Resume("split", 2)  /\ Collect(Truth(ArgVal(1)), Current)
     \/ Resume("some", 2)   /\ Skip(IF ArgVal(1).u # 0 THEN 1 ELSE 0)
     \/ Resume("all", 2)    /\ Skip(IF ArgVal(1).u # 1 THEN 1 ELSE 0)
     \/ In("step", 2)       /\ Skip(0)
  /\ UNCHANGED <<stk, dump>>

(* map over a string writes no terminator: something may follow the result *)
LoopEnd ==
  \E p \in Loops :
    /\ In(p, 1) /\ (~More \/ Decided)
    /\ CASE p \in {"map", "filter"} /\ OverList ->
              PushOn(<<List_(Dmp(2))>>, Saved(3))
         [] p = "map" /\ ~OverList ->
              \E r \in IF Loc.over = "STRING_" THEN Residue ELSE {<<>>} :
                PushOn(<<Collected(Loc.over, Loc.yes \o r)>>, Saved(3))
         [] p = "filter" /\ ~OverList ->
              PushOn(<<Collected(Loc.over, Loc.yes)>>, Saved(3))
         [] p = "split" /\ OverList ->
              PushOn(<<List_(Dmp(2)), List_(Dmp(4))>>, Saved(3))
         [] p = "split" /\ ~OverList ->
              PushOn(<<Collected(Loc.over, Loc.yes), Collected(Loc.over, Loc.no)>>, Saved(3))
         [] p = "some" -> PushOn(<<Bool_(Decided)>>, Saved(3))
         [] p = "all"  -> PushOn(<<Bool_(~Decided)>>, Saved(3))
         [] p = "step" -> KeepStack
    /\ dumps' = IF OverList THEN Popped(dumps, OwnDumps(p)) ELSE dumps
    /\ Drop /\ Return

(* fold: swapd, then step *)
Fold ==
  /\ \/ Start("fold") /\ Call(Frame("swapd"), 1)
     \/ In("fold", 1) /\ Become("step")
  /\ KeepStack /\ KeepDumps

-----------------------------------------------------------------------------
(* The clause under test is the list DMP1->u.lis; the last clause is the   *)
(* default and has no test.                                                *)
Clause == Lis(Dmp(1))
HasTest == Dmp(1) # NULL /\ Next1(Dmp(1)) # NULL

Cond ==
  \/ /\ Start("cond") /\ Goto(1, Loc) /\ KeepStack
     /\ dumps' = Pushed(dumps, 1, ArgVal(1)) /\ Save
  \/ /\ In("cond", 1) /\ SetStack(Saved(2)) /\ KeepDumps
     /\ IF HasTest THEN Exe(Lis(Clause), 2, Loc) ELSE Exe(Clause, 3, Loc)
  \/ /\ Resume("cond", 2) /\ Truth(ArgVal(1))
     /\ SetStack(Saved(2)) /\ Exe(Next1(Clause), 3, Loc) /\ KeepDumps
  \/ /\ Resume("cond", 2) /\ ~Truth(ArgVal(1))
     /\ Goto(1, Loc) /\ KeepStack
     /\ dumps' = Moved(dumps, 1, Next1(Dmp(1))) /\ UNCHANGED dump
  \/ /\ In("cond", 3) /\ Return /\ KeepStack
     /\ dumps' = Popped(dumps, {1}) /\ Drop

(* The stack not restored after the test. *)
IfteUnrestored ==
  \/ RunOn("ifte", Arg(4), ArgVal(3).u)
  \/ /\ Resume("ifte", 1) /\ KeepStack
     /\ Exe(IF Truth(ArgVal(1)) THEN Quote(2) ELSE Quote(1), 2, Loc)
     /\ KeepDumps

(* The test runs on the stack below, twice restored. *)
Ifte ==
  \/ RunOn("ifte", Arg(4), ArgVal(3).u)
  \/ /\ Resume("ifte", 1) /\ SetStack(Saved(4))
     /\ Exe(IF Truth(ArgVal(1)) THEN Quote(2) ELSE Quote(1), 2, Loc)
     /\ KeepDumps

(* SAVED3 = stk: the result of a round replaces the rest of the saved      *)
(* stack in the node of the test itself.                                   *)
While ==
  \/ /\ Start("while") /\ Goto(1, Loc) /\ KeepStack
     /\ Save /\ UNCHANGED dumps
  \/ /\ In("while", 1) /\ SetStack(Saved(3)) /\ Exe(Quote(2), 2, Loc)
     /\ KeepDumps
  \/ /\ Resume("while", 2) /\ Truth(ArgVal(1))
     /\ SetStack(Saved(3)) /\ Exe(Quote(1), 3, Loc) /\ KeepDumps
  \/ /\ In("while", 3) /\ Goto(1, Loc)
     /\ heap' = [heap EXCEPT ![Saved(2)].next = stk] /\ UNCHANGED stk /\ KeepDumps
  \/ /\ Resume("while", 2) /\ ~Truth(ArgVal(1))
     /\ SetStack(Saved(3)) /\ Drop /\ Return /\ UNCHANGED dumps

(* Every member is pushed first; the combining quotation then runs once    *)
(* for each of them.                                                       *)
Primrec ==
  \/ /\ Start("primrec")
     /\ LET x == ArgVal(3)
            members == IF x.op = "INTEGER_" THEN [i \in 1 .. x.u |-> Int_(x.u - i + 1)]
                       ELSE Elements(heap, x)
        IN  /\ PushOn(members, Arg(4))
            /\ Exe(ArgVal(2).u, 1, [Loc EXCEPT !.n = Len(members)])
     /\ Save /\ UNCHANGED dumps
  \/ /\ In("primrec", 1) /\ Loc.n > 0 /\ Exe(Quote(1), 1, [Loc EXCEPT !.n = @ - 1])
     /\ KeepStack /\ KeepDumps

(* construct keeps the results on dump2, on top of the old Joy stack, and  *)
(* the old dump2 on dump1.                                                 *)
Construct ==
  \/ /\ Start("construct") /\ SetStack(Arg(3)) /\ Exe(ArgVal(2).u, 1, Loc)
     /\ Save
     /\ dumps' = [dumps EXCEPT ![1] = <<Item("LIST_", dumps[2])>> \o @,
                               ![2] = <<List_(Arg(3))>>]
  \/ /\ In("construct", 1) /\ Goto(2, Loc) /\ KeepStack
     /\ dumps' = Pushed(Pushed(dumps, 3, List_(stk)), 4, SavedVal(1))
     /\ UNCHANGED dump
  \/ /\ In("construct", 2) /\ Dmp(4) # NULL
     /\ SetStack(Dmp(3)) /\ Exe(Lis(Dmp(4)), 3, Loc) /\ KeepDumps
  \/ /\ Resume("construct", 3) /\ Goto(2, Loc) /\ KeepStack
     /\ dumps' = Moved(Pushed(dumps, 2, ArgVal(1)), 4, Next1(Dmp(4)))
     /\ UNCHANGED dump
  \/ /\ In("construct", 2) /\ Dmp(4) = NULL
     /\ PushOn(Reverse(Front(dumps[2])), Last(dumps[2]).u)
     /\ dumps' = [Popped(dumps, {1, 3, 4}) EXCEPT ![2] = Dmp(1)]
     /\ Drop /\ Return

Case_ ==
  LET pick[q \in 0 .. Len(heap)] ==
        IF Next1(q) # NULL /\ heap[Lis(q)].u # ArgVal(2).u THEN pick[Next1(q)] ELSE q
      n == pick[ArgVal(1).u]
  IN  /\ KeepDumps
      /\ \/ /\ Start("case")
            /\ IF Next1(n) # NULL
               THEN SetStack(Arg(3)) /\ Exe(Next1(Lis(n)), 1, Loc)
               ELSE SetStack(Arg(2)) /\ Exe(Lis(n), 1, Loc)
         \/ In("case", 1) /\ Return /\ KeepStack

-----------------------------------------------------------------------------
(***************************************************************************)
(* Recursive combinators.  The auxiliary procedures call themselves and    *)
(* read the quotations from the stack that their combinator saved.         *)
(***************************************************************************)
Begin(p, base, aux) ==
  Start(p) /\ SetStack(base) /\ Call(aux, 1) /\ Save /\ UNCHANGED dumps

(* Run the test on the stack kept on dump1 ... *)
Test(quote, k) ==
  /\ dumps' = Pushed(dumps, 1, List_(stk)) /\ UNCHANGED dump
  /\ KeepStack /\ Exe(quote, k, Loc)
(* ... then restore it. *)
Restore == dumps' = Popped(dumps, {1}) /\ UNCHANGED dump /\ SetStack(Dmp(1))

Tailrec ==
  \/ /\ Start("tailrec") /\ SetStack(Arg(4)) /\ Goto(1, Loc)
     /\ Save /\ UNCHANGED dumps
  \/ In("tailrec", 1) /\ Test(Quote(3), 2)
  \/ /\ Resume("tailrec", 2) /\ Restore
     /\ IF Truth(ArgVal(1)) THEN Exe(Quote(2), 3, Loc) ELSE Exe(Quote(1), 1, Loc)

Linrec ==
  \/ Begin("linrec", Arg(5), Frame("linrecaux"))
  \/ In("linrecaux", 0) /\ Test(Quote(4), 1)
  \/ /\ Resume("linrecaux", 1) /\ Restore
     /\ IF Truth(ArgVal(1)) THEN Exe(Quote(3), 4, Loc) ELSE Exe(Quote(2), 2, Loc)
  \/ In("linrecaux", 2) /\ Call(Frame("linrecaux"), 3) /\ KeepStack /\ KeepDumps
  \/ In("linrecaux", 3) /\ Exe(Quote(1), 4, Loc) /\ KeepStack /\ KeepDumps
  \/ In("linrecaux", 4) /\ Return /\ KeepStack /\ KeepDumps

(* The second of the two intermediates waits on dump2. *)
Binrec ==
  \/ Begin("binrec", Arg(5), Frame("binrecaux"))
  \/ In("binrecaux", 0) /\ Test(Quote(4), 1)
  \/ /\ Resume("binrecaux", 1) /\ Restore
     /\ IF Truth(ArgVal(1)) THEN Exe(Quote(3), 5, Loc) ELSE Exe(Quote(2), 2, Loc)
  \/ /\ Resume("binrecaux", 2) /\ SetStack(Arg(2)) /\ Call(Frame("binrecaux"), 3)
     /\ dumps' = Pushed(dumps, 2, ArgVal(1)) /\ UNCHANGED dump
  \/ /\ In("binrecaux", 3) /\ PushOn(<<Head(dumps[2])>>, stk) /\ Call(Frame("binrecaux"), 4)
     /\ dumps' = Popped(dumps, {2}) /\ UNCHANGED dump
  \/ In("binrecaux", 4) /\ Exe(Quote(1), 5, Loc) /\ KeepStack /\ KeepDumps
  \/ In("binrecaux", 5) /\ Return /\ KeepStack /\ KeepDumps

(* condlinrec and condnestrec choose a clause as cond does; Loc.n is the   *)
(* list of quotations of the clause chosen.                                *)
Chosen(p, n) ==
  /\ SetStack(Dmp(2)) /\ Exe(Lis(n), 3, [Loc EXCEPT !.n = n]) /\ UNCHANGED dump
  /\ dumps' = IF p = "condnestrecaux" THEN Pushed(dumps, 3, List_(n)) ELSE dumps

ChooseClause ==
  \E p \in {"condlinrecaux", "condnestrecaux"} :
    \/ /\ In(p, 0) /\ Goto(1, Loc) /\ KeepStack /\ UNCHANGED dump
       /\ dumps' = Pushed(Pushed(dumps, 1, SavedVal(1)), 2, List_(stk))
    \/ /\ In(p, 1) /\ HasTest
       /\ SetStack(Dmp(2)) /\ Exe(Lis(Clause), 2, Loc) /\ KeepDumps
    \/ In(p, 1) /\ ~HasTest /\ Chosen(p, Clause)
    \/ Resume(p, 2) /\ Truth(ArgVal(1)) /\ Chosen(p, Next1(Clause))
    \/ /\ Resume(p, 2) /\ ~Truth(ArgVal(1)) /\ Goto(1, Loc) /\ KeepStack
       /\ dumps' = Moved(dumps, 1, Next1(Dmp(1))) /\ UNCHANGED dump

(* recurse between the first quotation and the second, if there is one *)
Condlinrec ==
  LET n == Loc.n IN
  \/ Begin("condlinrec", Arg(2), Frame("condlinrecaux"))
  \/ /\ In("condlinrecaux", 3) /\ Next1(n) # NULL
     /\ Call(Frame("condlinrecaux"), 4) /\ KeepStack /\ KeepDumps
  \/ /\ In("condlinrecaux", 4) /\ Exe(Lis(Next1(n)), 5, Loc) /\ KeepStack /\ KeepDumps
  \/ /\ (In("condlinrecaux", 3) /\ Next1(n) = NULL) \/ In("condlinrecaux", 5)
     /\ dumps' = Popped(dumps, {1, 2}) /\ Return /\ KeepStack /\ UNCHANGED dump

(* recurse between any two consecutive quotations; dump3 is the rest *)
Condnestrec ==
  LET rest == Next1(Dmp(3)) IN
  \/ Begin("condnestrec", Arg(2), Frame("condnestrecaux"))
  \/ /\ In("condnestrecaux", 3) /\ rest # NULL
     /\ dumps' = Moved(dumps, 3, rest) /\ UNCHANGED dump
     /\ Call(Frame("condnestrecaux"), 4) /\ KeepStack
  \/ /\ In("condnestrecaux", 4) /\ Exe(Lis(Dmp(3)), 3, Loc) /\ KeepStack /\ KeepDumps
  \/ /\ In("condnestrecaux", 3) /\ rest = NULL
     /\ dumps' = Popped(dumps, {1, 2, 3}) /\ Return /\ KeepStack /\ UNCHANGED dump

(* A leaf is pushed and P runs; the members of a list are visited in turn. *)
Treestep ==
  LET item == Loc.n IN
  \/ Begin("treestep", Arg(3), [Frame("treestepaux") EXCEPT !.loc.n = Arg(2)])
  \/ /\ In("treestepaux", 0) /\ heap[item].op # "LIST_"
     /\ PushOn(<<Val(heap, item)>>, stk) /\ Exe(Quote(1), 2, Loc) /\ KeepDumps
  \/ /\ In("treestepaux", 0) /\ heap[item].op = "LIST_" /\ Goto(1, Loc) /\ KeepStack
     /\ dumps' = Pushed(dumps, 1, Val(heap, item)) /\ UNCHANGED dump
  \/ /\ In("treestepaux", 1) /\ Dmp(1) # NULL /\ KeepStack /\ KeepDumps
     /\ Call([Frame("treestepaux") EXCEPT !.loc.n = Dmp(1)], 3)
  \/ /\ In("treestepaux", 3) /\ Goto(1, Loc) /\ KeepStack
     /\ dumps' = Moved(dumps, 1, Next1(Dmp(1))) /\ UNCHANGED dump
  \/ /\ In("treestepaux", 1) /\ Dmp(1) = NULL /\ Return /\ KeepStack
     /\ dumps' = Popped(dumps, {1}) /\ UNCHANGED dump
  \/ In("treestepaux", 2) /\ Return /\ KeepStack /\ KeepDumps

-----------------------------------------------------------------------------
(***************************************************************************)
(* treerec, genrec, treegenrec hand the recursion to the quotation: they   *)
(* cons their quotations together and push a list that ends in an          *)
(* ANON_FUNCT_ node, whose execution is the auxiliary procedure.           *)
(***************************************************************************)
(* NULLARY(LIST_NEWNODE, ANON_FUNCT_NEWNODE(p, NULL)) after pushing items *)
PushRecursion(items, p, base) ==
  LET l == Listed(heap, <<Item(p, 0)>>, NULL)
      r == Push(l.heap, Append(items, List_(l.top)), base)
  IN  heap' = r.heap /\ stk' = r.top

(* the i-th quotation of the list on top of the stack *)
Part(i) == Below(heap, ArgVal(1).u, i - 1)

Treerec ==
  /\ KeepDumps
  /\ \/ Start("treerec") /\ Call(Frame("cons"), 1) /\ KeepStack
     \/ In("treerec", 1) /\ Become("treerecaux") /\ KeepStack
     \/ /\ Start("treerecaux") /\ ArgVal(2).op = "LIST_"
        /\ PushRecursion(<<>>, "treerecaux", stk) /\ Call(Frame("cons"), 1)
     \/ /\ In("treerecaux", 1) /\ KeepStack
        /\ Exe(Next1(Lis(ArgVal(1).u)), 2, Loc)
     \/ /\ Start("treerecaux") /\ ArgVal(2).op # "LIST_"
        /\ SetStack(Arg(2)) /\ Exe(Lis(Part(1)), 2, Loc)
     \/ In("treerecaux", 2) /\ Return /\ KeepStack

Genrec ==
  \/ /\ \/ Start("genrec") /\ Call(Frame("cons"), 1)
        \/ In("genrec", 1) /\ Call(Frame("cons"), 2)
        \/ In("genrec", 2) /\ Call(Frame("cons"), 3)
        \/ In("genrec", 3) /\ Become("genrecaux")
     /\ KeepStack /\ KeepDumps
  \/ /\ Start("genrecaux") /\ SetStack(Arg(2)) /\ Exe(Lis(Part(1)), 1, Loc)
     /\ Save /\ UNCHANGED dumps
  \/ /\ Resume("genrecaux", 1) /\ SetStack(Saved(2)) /\ KeepDumps
     /\ IF Truth(ArgVal(1))
        THEN Exe(Lis(Below(heap, Quote(1), 1)), 4, Loc)
        ELSE Exe(Lis(Below(heap, Quote(1), 2)), 2, Loc)
  \/ /\ In("genrecaux", 2) /\ KeepDumps
     /\ PushRecursion(<<SavedVal(1)>>, "genrecaux", stk) /\ Call(Frame("cons"), 3)
  \/ /\ In("genrecaux", 3) /\ KeepStack /\ KeepDumps
     /\ Exe(Below(heap, Quote(1), 3), 4, Loc)
  \/ In("genrecaux", 4) /\ Drop /\ Return /\ KeepStack /\ UNCHANGED dumps

Treegenrec ==
  \/ /\ \/ Start("treegenrec") /\ Call(Frame("cons"), 1)
        \/ In("treegenrec", 1) /\ Call(Frame("cons"), 2)
        \/ In("treegenrec", 2) /\ Become("treegenrecaux")
     /\ KeepStack /\ KeepDumps
  \/ /\ Start("treegenrecaux") /\ ArgVal(2).op = "LIST_"
     /\ SetStack(Arg(2)) /\ Exe(Lis(Part(2)), 1, Loc)
     /\ Save /\ UNCHANGED dumps
  \/ /\ In("treegenrecaux", 1)
     /\ PushRecursion(<<SavedVal(1)>>, "treegenrecaux", stk) /\ Call(Frame("cons"), 2)
     /\ Drop /\ UNCHANGED dumps
  \/ /\ In("treegenrecaux", 2) /\ KeepStack /\ KeepDumps
     /\ Exe(Below(heap, Lis(ArgVal(1).u), 2), 3, Loc)
  \/ /\ Start("treegenrecaux") /\ ArgVal(2).op # "LIST_"
     /\ SetStack(Arg(2)) /\ Exe(Lis(Part(1)), 3, Loc) /\ KeepDumps
  \/ In("treegenrecaux", 3) /\ Return /\ KeepStack /\ KeepDumps

-----------------------------------------------------------------------------
Combinator ==
  \/ X_ \/ I_ \/ App1 \/ Branch \/ IfType_ \/ Finish \/ Dip \/ Nary_ \/ Times \/ Infra
  \/ Cleave \/ App11 \/ UnaryN_ \/ App12 \/ BeginLoop \/ LoopTake \/ LoopMember \/ LoopEnd
  \/ Fold \/ Cond \/ Ifte \/ While \/ Primrec \/ Construct \/ Case_ \/ Tailrec \/ Linrec
  \/ Binrec \/ ChooseClause \/ Condlinrec \/ Condnestrec \/ Treestep \/ Treerec \/ Genrec
  \/ Treegenrec

Next ==
  \/ RunProgram \/ EndProgram \/ ExecError \/ Crash
  \/ ExeLiteral \/ ExeDefined \/ ExeOperator \/ ExeReturn
  \/ Primitive \/ Combinator

Spec == Init /\ [][Next]_vars

-----------------------------------------------------------------------------
(* The nodes are linked to nodes, every stack of the interpreter is one.   *)
TypeOK ==
  /\ \A p \in DOMAIN heap : /\ heap[p].next \in 0 .. Len(heap)
                            /\ heap[p].op = "LIST_" => heap[p].u \in 0 .. Len(heap)
  /\ stk \in 0 .. Len(heap)
  /\ \A i \in DOMAIN conts : conts[i] \in 0 .. Len(heap)
  /\ \A i \in DOMAIN dump : dump[i] \in 0 .. Len(heap)
  /\ DOMAIN dumps = 1 .. 5
  /\ status \in {"idle", "running", "crashed"}
  /\ undeferror \in BOOLEAN

(* The frames whose procedure has done SAVESTACK and not yet POP(dump). *)
Saves(f) ==
  \/ f.proc = "treegenrecaux" /\ f.pc = 1
  \/ /\ f.pc > 0
     /\ f.proc \in DOMAIN IfType \cup DOMAIN Nary \cup DOMAIN UnaryN \cup Loops \cup
                   {"i", "app1", "branch", "dip", "times", "infra", "cleave", "cond", "ifte",
                    "while", "primrec", "construct", "tailrec", "linrec", "binrec", "condlinrec",
                    "condnestrec", "treestep", "genrecaux"}

(* The number of active calls f with F(f). *)
Active(F(_)) == Cardinality({i \in DOMAIN frames : F(frames[i])})
Executes(f)  == f.proc = "exeterm"

(* Each active exeterm has one entry on conts, each active combinator one  *)
(* on dump, and nothing is left on any dump when no call is active: what   *)
(* main.c 250-257 reports as "the dumps are not empty" cannot happen,      *)
(* neither after a program nor after an error.                             *)
DumpsBalanced ==
  /\ Len(conts) = Active(Executes)
  /\ Len(dump) = Active(Saves)
  /\ frames = <<>> => dumps = [k \in 1 .. 5 |-> <<>>]
=============================================================================
