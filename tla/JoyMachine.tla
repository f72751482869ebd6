----------------------------- MODULE JoyMachine -----------------------------
(***************************************************************************)
(* The machine of the Joy interpreter: its state, the checks and macros of *)
(* src/examples/languages/netjoy/interp.c, the main loop of main.c,        *)
(* exeterm, and the primitives.  The combinators are in JoyEval.           *)
(*                                                                         *)
(* frames is the C call stack, innermost call first: a frame names the C   *)
(* procedure, the point it has reached and its locals.  conts, dump and    *)
(* dumps[1..5] are the interpreter's own stacks, which only grow and       *)
(* shrink at their head: conts holds what is left of every list being      *)
(* executed, dump the Joy stack every combinator saved when it began, and  *)
(* dump1 .. dump5 the partial results of the procedures that loop.         *)
(*                                                                         *)
(* Files, floats, time and formatting are left out.  The nodes never move  *)
(* here: what the collector does to them is modelled in JoyHeap.           *)
(***************************************************************************)
EXTENDS JoyNodes

CONSTANTS
  Sessions,  \* what the user types: initial lists, definitions and programs
  Residue    \* what may follow the last byte written to an unterminated string

VARIABLES
  heap,    \* the nodes, see JoyNodes
  stk,     \* the Joy stack, a pointer
  conts,   \* pointers: the rest of every list under execution
  dump,    \* pointers: the stacks saved by SAVESTACK
  dumps,   \* dump1 .. dump5, each a sequence of items
  frames,  \* the C call stack
  status,  \* "idle" in the main loop, "running", or "crashed"
  todo,    \* the programs still to be read
  symtab,  \* the body of every defined name, NULL when it has none
  undeferror  \* whether executing a name without a body is an error

vars == <<heap, stk, conts, dump, dumps, frames, status, todo, symtab, undeferror>>

-----------------------------------------------------------------------------
(***************************************************************************)
(* Arguments, saved arguments, and what the procedures demand of them.     *)
(***************************************************************************)
Arg(i)      == Below(heap, stk, i - 1)
ArgVal(i)   == Val(heap, Arg(i))
Saved(i)    == Below(heap, Head(dump), i - 1)
SavedVal(i) == Val(heap, Saved(i))
Quote(i)    == SavedVal(i).u
Dmp(k)      == Head(dumps[k]).u
Next1(p)    == heap[p].next
Lis(p)      == heap[p].u

IfType == [ifinteger |-> "INTEGER_", ifchar |-> "CHAR_", iflogical |-> "BOOLEAN_",
           ifstring |-> "STRING_", ifset |-> "SET_", iflist |-> "LIST_"]
Nary   == [nullary |-> 1, unary |-> 2, binary |-> 3, ternary |-> 4]
UnaryN == [unary2 |-> 2, unary3 |-> 3, unary4 |-> 4]
Loops  == {"map", "filter", "split", "some", "all", "step"}
TypeTest == [integer |-> {"INTEGER_"}, char |-> {"CHAR_"}, logical |-> {"BOOLEAN_"},
             string |-> {"STRING_"}, set |-> {"SET_"}, list |-> {"LIST_"},
             user |-> {"USR_"}]

(* How many nodes a stack shuffler removes, and which of its arguments it  *)
(* pushes on what is left.                                                 *)
Shuffles ==
  [id       |-> <<0, <<>>>>,        pop      |-> <<1, <<>>>>,
   dup      |-> <<0, <<1>>>>,       swap     |-> <<2, <<1, 2>>>>,
   rollup   |-> <<3, <<1, 3, 2>>>>, rolldown |-> <<3, <<2, 1, 3>>>>,
   rotate   |-> <<3, <<1, 2, 3>>>>, popd     |-> <<2, <<1>>>>,
   dupd     |-> <<1, <<2, 1>>>>,    swapd    |-> <<3, <<2, 3, 1>>>>,
   rollupd  |-> <<4, <<2, 4, 3, 1>>>>, rolldownd |-> <<4, <<3, 2, 4, 1>>>>,
   rotated  |-> <<4, <<2, 3, 4, 1>>>>]
ShuffleParams == [p \in DOMAIN Shuffles |->
  IF p = "dup" THEN 1 ELSE IF p = "dupd" THEN 2 ELSE Shuffles[p][1]]

Constants  == {"true", "false", "setsize", "stack"}
Monadic    == {"not", "null", "small", "size", "first", "rest", "uncons", "unswons",
               "pred", "succ", "abs", "sign", "neg", "ord", "chr", "body", "opcase"}
                \cup DOMAIN TypeTest
Relations  == {"eql", "neql", "less", "leql", "greater", "geql", "compare"}
Dyadic     == {"and", "or", "xor", "plus", "minus", "mul", "divide", "rem", "div",
               "max", "min", "equal", "in", "has", "of", "at", "drop"} \cup Relations
Builders   == {"cons", "swons", "concat", "take"}

(* ONEPARAM .. FIVEPARAMS of every procedure. *)
Params(p) ==
  CASE p \in DOMAIN Shuffles -> ShuffleParams[p]
    [] p \in Constants \cup {"exeterm"} -> 0
    [] p \in Monadic \cup {"setundeferror", "unstack", "x", "i", "nullary", "cond", "condlinrec",
                           "condnestrec"} -> 1
    [] p \in Dyadic \cup Builders \cup Loops \cup DOMAIN IfType
             \cup {"dip", "unary", "times", "infra", "app1", "construct", "while",
                   "treestep", "case"} -> 2
    [] p \in {"binary", "cleave", "app11", "app12", "unary2", "fold", "primrec",
              "tailrec", "branch", "ifte", "treerec", "choice", "enconcat"} -> 3
    [] p \in {"ternary", "unary3", "linrec", "binrec", "genrec", "treegenrec"} -> 4
    [] p = "unary4" -> 5
    [] OTHER -> 0

(* The LIST check of unstack forgotten. *)
QuotesUnchecked(p) == IF p = "i" THEN 1 ELSE 0

(* ONEQUOTE .. FOURQUOTES. *)
Quotes(p) ==
  CASE p \in DOMAIN Nary \cup DOMAIN UnaryN \cup (Loops \ {"split"})
             \cup {"x", "i", "dip", "times", "infra", "app1", "app11", "app12",
                   "treestep", "cond", "condlinrec", "condnestrec", "unstack",
                   "case", "opcase"} -> 1
    [] p \in DOMAIN IfType \cup {"cleave", "construct", "branch", "while"} -> 2
    [] p = "ifte" -> 3
    [] p \in {"linrec", "binrec", "genrec"} -> 4
    [] OTHER -> 0

(* opcase: the clause its loop stops at, the first whose head has the type  *)
(* of the value below, or the last, or one that it cannot look into.       *)
OpcaseClause ==
  LET pick[q \in 0 .. Len(heap)] ==
        IF /\ Next1(q) # NULL /\ heap[q].op = "LIST_"
           /\ Lis(q) # NULL /\ Arg(2) # NULL /\ heap[Lis(q)].op # heap[Arg(2)].op
        THEN pick[Next1(q)] ELSE q
  IN  pick[ArgVal(1).u]

(* The other type checks; a, b are the top two arguments. *)
Typed(p) ==
  LET a == ArgVal(1)  b == ArgVal(2)
      nonEmpty(v) == ~Empty(v)
  IN CASE p \in Loops                -> b.op \in Aggregates
       [] p = "times"                -> b.op = "INTEGER_"
       [] p = "infra"                -> b.op = "LIST_"
       [] p \in {"cond", "condlinrec", "condnestrec", "case"} -> nonEmpty(a)
       [] p = "opcase"               -> nonEmpty(a) /\ heap[OpcaseClause].op = "LIST_"
       [] p = "primrec"              -> ArgVal(3).op \in Aggregates \cup {"INTEGER_"}
       [] p \in {"first", "rest", "uncons", "unswons"}
                                     -> a.op \in Aggregates /\ nonEmpty(a)
       [] p = "size"                 -> a.op \in Aggregates
       [] p = "small"                -> a.op \in Aggregates \cup {"BOOLEAN_", "INTEGER_"}
       [] p = "not"                  -> a.op \in Literals
       [] p = "body"                 -> a.op = "USR_"
       [] p \in {"pred", "succ", "ord", "chr"} -> a.op \in Numeric
       [] p \in {"abs", "sign", "neg"} -> a.op = "INTEGER_"
       [] p \in {"and", "or", "xor"} -> a.op = b.op /\ a.op \in Literals \ {"STRING_"}
       [] p \in {"plus", "minus"}    -> a.op = "INTEGER_" /\ b.op \in {"INTEGER_", "CHAR_"}
       [] p = "mul"                  -> a.op = "INTEGER_" /\ b.op = "INTEGER_"
       [] p \in {"divide", "rem", "div"}
                                     -> a.op = "INTEGER_" /\ b.op = "INTEGER_" /\ a.u # 0
       [] p \in {"max", "min"}       -> a.op = b.op /\ a.op \in Numeric
       [] p \in Relations            -> \/ a.op \in Numeric \cup {"SET_"}
                                        \/ a.op # "LIST_" /\ b.op # "LIST_"
       [] p = "in"                   -> a.op \in Aggregates
       [] p = "has"                  -> b.op \in Aggregates
       [] p \in {"of", "at"}         ->
            LET aggr == IF p = "of" THEN a ELSE b
                indx == IF p = "of" THEN b ELSE a
            IN  /\ indx.op = "INTEGER_" /\ indx.u >= 0
                /\ aggr.op \in Aggregates
                /\ aggr.op # "STRING_" => indx.u < Size(heap, aggr)
                /\ aggr.op = "STRING_" => indx.u <= Size(heap, aggr)
       [] p \in {"drop", "take"}     -> b.op \in Aggregates
       [] p \in {"cons", "swons"}    ->
            LET aggr == IF p = "cons" THEN a ELSE b
                elem == IF p = "cons" THEN b ELSE a
            IN  /\ aggr.op \in Aggregates
                /\ aggr.op = "SET_" => elem.op \in {"INTEGER_", "CHAR_"} /\ elem.u < SETSIZE
                /\ aggr.op = "STRING_" => elem.op = "CHAR_"
       [] p = "concat"               -> a.op = b.op /\ a.op \in Aggregates
       [] p = "setundeferror"        -> a.op \in Numeric
       [] p = "enconcat"             -> a.op = b.op
       [] OTHER -> TRUE

Legal(p) ==
  /\ Params(p) > 0 => Arg(Params(p)) # NULL
  /\ \A k \in 1 .. Quotes(p) : ArgVal(k).op = "LIST_"
  /\ Typed(p)

-----------------------------------------------------------------------------
(***************************************************************************)
(* Control: the C procedures that are active.                              *)
(***************************************************************************)
NoLocals == [n |-> 0, over |-> "none", rest |-> <<>>, yes |-> <<>>, no |-> <<>>]
Frame(p) == [proc |-> p, pc |-> 0, loc |-> NoLocals]
Top      == Head(frames)
Loc      == Top.loc
In(p, k) == status = "running" /\ frames # <<>> /\ Top.proc = p /\ Top.pc = k

(* Reading a field of the node that many links down needs that many nodes: *)
(* a combinator that inspects the stack after running a quotation does not *)
(* check that the quotation left anything on it.                           *)
Derefs(p, k) ==
  CASE /\ k = 1 
       /\ p \in {"cleave", "unary2", "unary3", "unary4", "ifte", "linrecaux", "binrecaux",
                 "genrecaux"} -> 1
    [] /\ k = 2
       /\ p \in {"cleave", "map", "filter", "split", "some", "all", "cond", "tailrec",
                 "while", "condlinrecaux", "condnestrecaux", "binrecaux"} -> 1
    [] p = "construct" /\ k = 3 -> 1
    [] p = "app11" /\ k = 1 -> 2
    [] p = "app12" /\ k = 1 -> 3
    [] p \in DOMAIN IfType /\ k = 0 -> 3
    [] p \in {"treerecaux", "treegenrecaux"} /\ k = 0 -> 2
    [] p \in {"drop", "take"} /\ k = 0 -> 1
    [] OTHER -> 0

(* take of a positive number of members of an empty list *)
NothingToTake == /\ Top.proc = "take" /\ Legal("take")
                 /\ ArgVal(2).op = "LIST_" /\ Empty(ArgVal(2)) /\ ArgVal(1).u > 0

(* opcase looks into an empty clause, or for a value that is not there *)
NoClause == /\ Top.proc = "opcase" /\ Legal("opcase")
            /\ Next1(OpcaseClause) # NULL
            /\ Lis(OpcaseClause) = NULL \/ Arg(2) = NULL

Readable ==
  /\ Derefs(Top.proc, Top.pc) > 0 => Arg(Derefs(Top.proc, Top.pc)) # NULL
  /\ ~NothingToTake
  /\ ~NoClause

Start(p)     == In(p, 0) /\ Legal(p) /\ Readable
Resume(p, k) == In(p, k) /\ Readable

Steady == UNCHANGED <<status, todo, symtab, undeferror>>
At(k, loc) == [Top EXCEPT !.pc = k, !.loc = loc]

Goto(k, loc) ==
  frames' = <<At(k, loc)>> \o Tail(frames) /\ UNCHANGED conts /\ Steady

(* exeterm(n), then go on at point k *)
Exe(n, k, loc) ==
  /\ frames' = (IF n = NULL THEN <<>> ELSE <<Frame("exeterm")>>)
                 \o <<At(k, loc)>> \o Tail(frames)
  /\ conts' = (IF n = NULL THEN <<>> ELSE <<n>>) \o conts
  /\ Steady

Call(f, k) ==
  frames' = <<f, At(k, Loc)>> \o Tail(frames) /\ UNCHANGED conts /\ Steady

(* a call that is the last thing its caller does *)
Become(p) == frames' = <<Frame(p)>> \o Tail(frames) /\ UNCHANGED conts /\ Steady
Return    == frames' = Tail(frames) /\ UNCHANGED conts /\ Steady

-----------------------------------------------------------------------------
(* Data: the Joy stack and the saved stacks. *)
SetStack(p) == stk' = p /\ UNCHANGED heap
PushOn(items, base) ==
  LET r == Push(heap, items, base) IN heap' = r.heap /\ stk' = r.top
(* push a list whose nodes are new *)
PushList(items, tail, base) ==
  LET l == Listed(heap, items, tail)
      r == Push(l.heap, <<List_(l.top)>>, base)
  IN  heap' = r.heap /\ stk' = r.top

Save      == dump' = <<stk>> \o dump
Drop      == dump' = Tail(dump)
KeepStack == UNCHANGED <<heap, stk>>
KeepDumps == UNCHANGED <<dump, dumps>>

Pushed(d, k, v) == [d EXCEPT ![k] = <<v>> \o @]
Popped(d, ks)   == [k \in DOMAIN d |-> IF k \in ks THEN Tail(d[k]) ELSE d[k]]
(* DMPk = p *)
Moved(d, k, p)  == [d EXCEPT ![k] = <<[Head(@) EXCEPT !.u = p]>> \o Tail(@)]

-----------------------------------------------------------------------------
(***************************************************************************)
(* The main loop and exeterm.                                              *)
(***************************************************************************)
Init ==
  /\ \E s \in Sessions :
       /\ heap = s.heap /\ stk = s.stk /\ todo = s.progs /\ symtab = s.body
  /\ conts = <<>> /\ dump = <<>> /\ dumps = [k \in 1 .. 5 |-> <<>>]
  /\ frames = <<>> /\ status = "idle" /\ undeferror = TRUE

(* The next program has been read: exeterm(prog). *)
RunProgram ==
  /\ status = "idle" /\ todo # <<>>
  /\ status' = "running" /\ todo' = Tail(todo)
  /\ conts'  = IF Head(todo) = NULL THEN <<>> ELSE <<Head(todo)>>
  /\ frames' = IF Head(todo) = NULL THEN <<>> ELSE <<Frame("exeterm")>>
  /\ KeepStack /\ KeepDumps /\ UNCHANGED <<symtab, undeferror>>

(* exeterm has returned: with autoput = 1 the top of the stack is written. *)
EndProgram ==
  /\ status = "running" /\ frames = <<>>
  /\ status' = "idle"
  /\ stk' = IF stk = NULL THEN NULL ELSE Next1(stk)
  /\ KeepDumps /\ UNCHANGED <<heap, conts, frames, todo, symtab, undeferror>>

(* execerror: abortexecution_ clears everything but the Joy stack, and the *)
(* longjmp abandons the C calls.                                           *)
Abort ==
  /\ frames' = <<>> /\ status' = "idle"
  /\ conts' = <<>> /\ dump' = <<>> /\ dumps' = [k \in 1 .. 5 |-> <<>>]
  /\ KeepStack /\ UNCHANGED <<todo, symtab, undeferror>>

(* conts->u.lis moves past the node being executed. *)
Stepper == Head(conts)
Stepped == <<Next1(Stepper)>> \o Tail(conts)
Stepping == In("exeterm", 0) /\ Stepper # NULL
Undefined == /\ Stepping /\ heap[Stepper].op = "USR_"
             /\ symtab[Lis(Stepper)] = NULL /\ undeferror

(* drop and take read their count before they check that there is one. *)
Checked == Top.proc \in {"drop", "take"} => stk # NULL

ExecError ==
  /\ status = "running" /\ frames # <<>>
  /\ \/ Top.pc = 0 /\ Top.proc # "exeterm" /\ Checked /\ ~Legal(Top.proc)
     \/ Top.pc = 1 /\ Top.proc \in DOMAIN Nary /\ stk = NULL
     \/ Undefined
  /\ Abort

(* A node that is not there is read. *)
Crash ==
  /\ status = "running" /\ frames # <<>>
  /\ Top.pc = 0 /\ Checked => Legal(Top.proc)
  /\ ~Readable
  /\ status' = "crashed"
  /\ KeepStack /\ KeepDumps /\ UNCHANGED <<conts, frames, todo, symtab, undeferror>>

ExeLiteral ==
  /\ Stepping /\ heap[Stepper].op \in Literals
  /\ PushOn(<<Val(heap, Stepper)>>, stk)
  /\ conts' = Stepped
  /\ KeepDumps /\ UNCHANGED frames /\ Steady

(* A defined name: its body is executed by a call of exeterm, or in place  *)
(* of what is left when the name comes last.                               *)
ExeDefined ==
  /\ Stepping /\ heap[Stepper].op = "USR_" /\ ~Undefined
  /\ LET body == symtab[Lis(Stepper)]
         last == Next1(Stepper) = NULL
         calls == IF body = NULL THEN <<>> ELSE <<Frame("exeterm")>>
     IN  /\ conts' = (IF body = NULL THEN <<>> ELSE <<body>>)
                        \o (IF last THEN Tail(conts) ELSE Stepped)
         /\ frames' = calls \o (IF last THEN Tail(frames) ELSE frames)
  /\ KeepStack /\ KeepDumps /\ Steady

(* Any other node holds a procedure of optable, which exeterm is not. *)
ExeOperator ==
  /\ Stepping /\ heap[Stepper].op \notin Literals \cup {"USR_", "exeterm"}
  /\ conts' = Stepped
  /\ frames' = <<Frame(heap[Stepper].op)>> \o frames
  /\ KeepStack /\ KeepDumps /\ Steady

ExeReturn ==
  /\ In("exeterm", 0) /\ Stepper = NULL
  /\ conts' = Tail(conts) /\ frames' = Tail(frames)
  /\ KeepStack /\ KeepDumps /\ Steady

-----------------------------------------------------------------------------
(***************************************************************************)
(* The primitives.                                                         *)
(***************************************************************************)
(* What a one-argument operator pushes in place of its argument. *)
MonadicResult(p, a) ==
  CASE p = "not"     -> <<IF a.op = "SET_" THEN Item("SET_", (0 .. SETSIZE - 1) \ a.u)
                          ELSE IF a.op = "STRING_" THEN Bool_(a.u # <<>>)
                          ELSE Bool_(a.u = 0)>>
    [] p = "null"    -> <<Bool_(IF a.op \in Aggregates THEN Empty(a) ELSE a.u = 0)>>
    [] p = "small"   -> <<Bool_(IF a.op \in Aggregates THEN Size(heap, a) < 2 ELSE a.u < 2)>>
    [] p = "size"    -> <<Int_(Size(heap, a))>>
    [] p = "first"   -> <<FirstOf(heap, a)>>
    [] p = "rest"    -> <<RestOf(heap, a)>>
    [] p = "uncons"  -> <<FirstOf(heap, a), RestOf(heap, a)>>
    [] p = "unswons" -> <<RestOf(heap, a), FirstOf(heap, a)>>
    [] p \in {"pred", "succ"} ->
         <<Item(IF a.op = "CHAR_" THEN "CHAR_" ELSE "INTEGER_",
                IF p = "pred" THEN a.u - 1 ELSE a.u + 1)>>
    [] p = "abs"     -> <<Int_(IF a.u < 0 THEN -a.u ELSE a.u)>>
    [] p = "sign"    -> <<Int_(IF a.u < 0 THEN -1 ELSE IF a.u > 0 THEN 1 ELSE 0)>>
    [] p = "neg"     -> <<Int_(-a.u)>>
    [] p = "ord"     -> <<Int_(a.u)>>
    [] p = "chr"     -> <<Item("CHAR_", a.u)>>
    [] p = "body"    -> <<List_(symtab[a.u])>>
    [] p \in DOMAIN TypeTest -> <<Bool_(a.op \in TypeTest[p])>>

(* What is left of the clause, the whole of the last one. *)
Opcase(n) == <<List_(IF Next1(n) # NULL THEN Next1(Lis(n)) ELSE Lis(n))>>

(* C division truncates towards zero. *)
Quotient(a, b) ==
  LET abs(x) == IF x < 0 THEN -x ELSE x
      q == abs(a) \div abs(b)
  IN  IF (a < 0) # (b < 0) THEN -q ELSE q

Logic(p, b, a) ==
  IF a.op = "SET_"
  THEN Item("SET_", CASE p = "and" -> b.u \cap a.u
                      [] p = "or"  -> b.u \cup a.u
                      [] p = "xor" -> (b.u \ a.u) \cup (a.u \ b.u))
  ELSE Bool_(CASE p = "and" -> b.u # 0 /\ a.u # 0
               [] p = "or"  -> b.u # 0 \/ a.u # 0
               [] p = "xor" -> b.u # a.u)

Relate(p, c) ==
  CASE p = "eql"     -> Bool_(c = 0)   [] p = "neql"    -> Bool_(c # 0)
    [] p = "less"    -> Bool_(c < 0)   [] p = "leql"    -> Bool_(c <= 0)
    [] p = "greater" -> Bool_(c > 0)   [] p = "geql"    -> Bool_(c >= 0)
    [] p = "compare" -> Int_(c)

(* of and at: an index equal to the length of a string reads its NUL. *)
Indexed(aggr, n) ==
  LET e == Elements(heap, aggr)
  IN  IF n = Len(e) THEN Item("CHAR_", 0) ELSE e[n + 1]

DropOf(b, n) ==
  CASE b.op = "LIST_" -> List_(Below(heap, b.u, IF n < 0 THEN 0 ELSE n))
    [] b.op = "STRING_" ->
         Item(b.op, SubSeq(b.u, (IF n < 0 THEN 0 ELSE n) + 1, Len(b.u)))
    [] b.op = "SET_" -> Item(b.op, {x \in b.u : Cardinality({y \in b.u : y < x}) >= n})

(* What a two-argument operator pushes; a is the top, b the one below. *)
DyadicResult(p, b, a) ==
  CASE p \in {"and", "or", "xor"} -> <<Logic(p, b, a)>>
    [] p = "plus"   -> <<Item(b.op, b.u + a.u)>>
    [] p = "minus"  -> <<Item(b.op, b.u - a.u)>>
    [] p = "mul"    -> <<Int_(b.u * a.u)>>
    [] p = "divide" -> <<Int_(Quotient(b.u, a.u))>>
    [] p = "rem"    -> <<Int_(b.u - a.u * Quotient(b.u, a.u))>>
    [] p = "div"    -> <<Int_(Quotient(b.u, a.u)), Int_(b.u - a.u * Quotient(b.u, a.u))>>
    [] p \in {"max", "min"} ->
         <<Item(IF a.op = "CHAR_" THEN "CHAR_" ELSE "INTEGER_",
                IF p = "max" THEN IF a.u < b.u THEN b.u ELSE a.u
                             ELSE IF a.u > b.u THEN b.u ELSE a.u)>>
    [] p = "equal"  -> <<Bool_(EqualValues(heap, a, b))>>
    [] p = "in"     -> <<Bool_(Found(heap, a, b))>>
    [] p = "has"    -> <<Bool_(Found(heap, b, a))>>
    [] p = "of"     -> <<Indexed(a, b.u)>>
    [] p = "at"     -> <<Indexed(b, a.u)>>
    [] p = "drop"   -> <<DropOf(b, a.u)>>

Shuffle ==
  \E p \in DOMAIN Shuffles :
    /\ Start(p)
    /\ LET order == Shuffles[p][2]
       IN  PushOn([i \in DOMAIN order |-> ArgVal(order[i])], Arg(Shuffles[p][1] + 1))
    /\ KeepDumps /\ Return

PushConstant ==
  \E p \in Constants :
    /\ Start(p)
    /\ PushOn(<<CASE p = "true"    -> Bool_(TRUE)
                  [] p = "false"   -> Bool_(FALSE)
                  [] p = "setsize" -> Int_(SETSIZE)
                  [] p = "stack"   -> List_(stk)>>, stk)
    /\ KeepDumps /\ Return

Unstack == Start("unstack") /\ SetStack(ArgVal(1).u) /\ KeepDumps /\ Return

Unary1 ==
  \E p \in Monadic :
    /\ Start(p)
    /\ PushOn(IF p = "opcase" THEN Opcase(OpcaseClause)
              ELSE MonadicResult(p, ArgVal(1)), Arg(2))
    /\ KeepDumps /\ Return

Binary2 ==
  \E p \in Dyadic \ Relations :
    /\ Start(p)
    /\ PushOn(DyadicResult(p, ArgVal(2), ArgVal(1)), Arg(3))
    /\ KeepDumps /\ Return

Compare ==
  \E p \in Relations :
    /\ Start(p)
    /\ \E c \in Comparisons(ArgVal(2), ArgVal(1)) : PushOn(<<Relate(p, c)>>, Arg(3))
    /\ KeepDumps /\ Return

Choice ==
  /\ Start("choice")
  /\ PushOn(<<IF Truth(ArgVal(3)) THEN ArgVal(2) ELSE ArgVal(1)>>, Arg(4))
  /\ KeepDumps /\ Return

Cons_ ==
  \E p \in {"cons", "swons"} :
    /\ Start(p)
    /\ LET aggr == IF p = "cons" THEN ArgVal(1) ELSE ArgVal(2)
           elem == IF p = "cons" THEN ArgVal(2) ELSE ArgVal(1)
       IN  CASE aggr.op = "LIST_"   -> PushList(<<elem>>, aggr.u, Arg(3))
             [] aggr.op = "SET_"    -> PushOn(<<Item("SET_", aggr.u \cup {Bit(elem.u)})>>, Arg(3))
             [] aggr.op = "STRING_" -> PushOn(<<Item("STRING_", <<elem.u>> \o aggr.u)>>, Arg(3))
    /\ KeepDumps /\ Return

(* take of a string writes no terminator: something may follow it. *)
Take ==
  /\ Start("take")
  /\ LET b == ArgVal(2)
         n == IF ArgVal(1).u < 0 THEN 0 ELSE ArgVal(1).u
         kept == FirstN(Elements(heap, b), n)
         codes == [i \in DOMAIN kept |-> kept[i].u]
     IN  CASE b.op = "LIST_" -> PushList(kept, NULL, Arg(3))
           [] b.op = "SET_"  -> PushOn(<<Collected("SET_", codes)>>, Arg(3))
           [] b.op = "STRING_" ->
                IF n > Len(b.u) THEN SetStack(Arg(2))
                ELSE \E r \in Residue : PushOn(<<Item("STRING_", codes \o r)>>, Arg(3))
  /\ KeepDumps /\ Return

(* concat of strings advances the pointers of both arguments past their    *)
(* terminators, in the nodes themselves.                                   *)
Concat ==
  /\ Start("concat")
  /\ LET a == ArgVal(1)  b == ArgVal(2)
     IN  CASE a.op = "SET_"  -> PushOn(<<Item("SET_", b.u \cup a.u)>>, Arg(3))
           [] a.op = "LIST_" ->
                IF b.u = NULL THEN PushOn(<<a>>, Arg(3))
                ELSE PushList(Chain(heap, b.u), a.u, Arg(3))
           [] a.op = "STRING_" ->
                \E r \in Residue :
                  LET spent == [heap EXCEPT ![Arg(1)].u = r, ![Arg(2)].u = r]
                      new == Push(spent, <<Item("STRING_", b.u \o a.u)>>, Arg(3))
                  IN  heap' = new.heap /\ stk' = new.top
  /\ KeepDumps /\ Return

(* enconcat: swapd, cons, concat *)
Enconcat ==
  /\ \/ Start("enconcat") /\ Call(Frame("swapd"), 1)
     \/ In("enconcat", 1) /\ Call(Frame("cons"), 2)
     \/ In("enconcat", 2) /\ Become("concat")
  /\ KeepStack /\ KeepDumps

SetUndefError ==
  /\ In("setundeferror", 0) /\ Legal("setundeferror")
  /\ undeferror' = (ArgVal(1).u # 0)
  /\ SetStack(Arg(2)) /\ KeepDumps
  /\ frames' = Tail(frames) /\ UNCHANGED <<conts, status, todo, symtab>>

Primitive ==
  \/ Shuffle \/ PushConstant \/ Unstack \/ Unary1 \/ Binary2 \/ Compare \/ Choice
  \/ Cons_ \/ Take \/ Concat \/ Enconcat \/ SetUndefError
=============================================================================
