----------------------------- MODULE JoyMeaning -----------------------------
(***************************************************************************)
(* What a Joy program means, for comparison with what JoyEval computes:    *)
(* a function from stacks to stacks, following the two documentation       *)
(* strings that optable (interp.c 2326-2998) gives every operator.  A      *)
(* stack is a sequence of values, the top first, and a list value carries  *)
(* the sequence of its members; nothing is shared, saved or mutated.       *)
(***************************************************************************)
EXTENDS JoyEval

List(s) == Item("LIST_", s)
Good(s) == [ok |-> TRUE, stk |-> s]
Bad     == [ok |-> FALSE, stk |-> <<>>]
Then(r, F(_))   == IF r.ok THEN F(r.stk) ELSE Bad
Result(r, F(_)) == IF r.ok /\ r.stk # <<>> THEN F(r.stk[1]) ELSE Bad
Under(s, n)     == SubSeq(s, n + 1, Len(s))

(* "X Y Z -> Z X Y" is <<3, <<3, 1, 2>>>> *)
Documented ==
  [id        |-> <<0, <<>>>>,              pop     |-> <<1, <<>>>>,
   dup       |-> <<1, <<1, 1>>>>,          swap    |-> <<2, <<2, 1>>>>,
   rollup    |-> <<3, <<3, 1, 2>>>>,       rolldown |-> <<3, <<2, 3, 1>>>>,
   rotate    |-> <<3, <<3, 2, 1>>>>,       popd    |-> <<2, <<2>>>>,
   dupd      |-> <<2, <<1, 1, 2>>>>,       swapd   |-> <<3, <<2, 1, 3>>>>,
   rollupd   |-> <<4, <<3, 1, 2, 4>>>>,    rolldownd |-> <<4, <<2, 3, 1, 4>>>>,
   rotated   |-> <<4, <<3, 2, 1, 4>>>>]

Numbers(s, n) == Len(s) >= n /\ \A i \in 1 .. n : s[i].op \in Numeric
Parts(v) == IF v.op = "LIST_" THEN v.u ELSE Members(v)
IsAggr(v) == v.op \in Aggregates
(* the aggregate of the same type with these members *)
Remade(op, vs) ==
  IF op = "LIST_" THEN List(vs)
  ELSE Collected(op, [i \in DOMAIN vs |-> vs[i].u])

(* "Either both X and Y are numeric or both are strings or symbols." *)
Comparable(v, w) == \/ v.op \in Numeric /\ w.op \in Numeric
                    \/ {v.op, w.op} \cap (Numeric \cup {"LIST_", "SET_"}) = {}
Before(s, t) == \E n \in 0 .. Len(s) :
                  /\ n < Len(t) /\ SubSeq(s, 1, n) = SubSeq(t, 1, n)
                  /\ n < Len(s) => s[n + 1] < t[n + 1]

(* The operators that need nothing but their arguments. *)
Computes(p, s) ==
  LET a == s[1]  b == s[2]
      one(v) == Good(<<v>> \o Under(s, 1))
      two(v) == Good(<<v>> \o Under(s, 2))
      member(x, v) == two(Bool_(\E i \in DOMAIN Parts(v) : Parts(v)[i].u = x.u))
  IN
  CASE p \in DOMAIN Documented ->
         LET d == Documented[p] IN
         IF Len(s) < d[1] THEN Bad
         ELSE Good(Reverse([i \in DOMAIN d[2] |-> s[d[1] + 1 - d[2][i]]]) \o Under(s, d[1]))
    [] p = "true"    -> Good(<<Bool_(TRUE)>> \o s)
    [] p = "false"   -> Good(<<Bool_(FALSE)>> \o s)
    [] p = "setsize" -> Good(<<Int_(SETSIZE)>> \o s)
    [] p = "stack"   -> Good(<<List(s)>> \o s)
    [] s = <<>> -> Bad
    [] p = "unstack" -> IF a.op = "LIST_" THEN Good(a.u) ELSE Bad
    [] p = "null"  -> one(Bool_(IF IsAggr(a) THEN Parts(a) = <<>> ELSE a.u = 0))
    [] p = "small" -> one(Bool_(IF IsAggr(a) THEN Len(Parts(a)) < 2 ELSE a.u < 2))
    [] p = "size"  -> IF IsAggr(a) THEN one(Int_(Len(Parts(a)))) ELSE Bad
    [] p = "succ"  -> IF Numbers(s, 1) THEN one(Item(a.op, a.u + 1)) ELSE Bad
    [] p = "pred"  -> IF Numbers(s, 1) THEN one(Item(a.op, a.u - 1)) ELSE Bad
    [] p = "ord"   -> IF Numbers(s, 1) THEN one(Int_(a.u)) ELSE Bad
    [] p = "not"   -> one(Bool_(a.u = 0))
    [] p \in {"first", "rest", "uncons", "unswons"} ->
         IF ~IsAggr(a) THEN Bad ELSE IF Parts(a) = <<>> THEN Bad
         ELSE LET f == Head(Parts(a))
                  r == Remade(a.op, Tail(Parts(a)))
              IN (CASE p = "first"   -> one(f)
                    [] p = "rest"    -> one(r)
                    [] p = "uncons"  -> Good(<<r, f>> \o Under(s, 1))
                    [] p = "unswons" -> Good(<<f, r>> \o Under(s, 1)))
    [] p = "list"    -> one(Bool_(a.op = "LIST_"))
    [] p = "integer" -> one(Bool_(a.op = "INTEGER_"))
    [] Len(s) < 2 -> Bad
    [] p = "plus"  -> IF Numbers(s, 2) THEN two(Item(b.op, b.u + a.u)) ELSE Bad
    [] p = "minus" -> IF Numbers(s, 2) THEN two(Item(b.op, b.u - a.u)) ELSE Bad
    [] p = "mul"   -> IF Numbers(s, 2) THEN two(Int_(b.u * a.u)) ELSE Bad
    [] p = "max"   -> IF Numbers(s, 2) THEN two(IF a.u < b.u THEN b ELSE a) ELSE Bad
    [] p = "div"   -> IF ~Numbers(s, 2) THEN Bad ELSE IF a.u = 0 THEN Bad
                      ELSE Good(<<Int_(b.u % a.u), Int_(b.u \div a.u)>> \o Under(s, 2))
    [] p \in {"less", "eql"} ->
         IF ~Comparable(a, b) THEN Bad
         ELSE IF Numbers(s, 2) THEN two(Bool_(IF p = "less" THEN b.u < a.u ELSE b.u = a.u))
         ELSE two(Bool_(IF p = "less" THEN Before(GetString(b), GetString(a))
                                      ELSE GetString(b) = GetString(a)))
    [] p = "and"   -> IF Numbers(s, 2) THEN two(Bool_(b.u # 0 /\ a.u # 0)) ELSE Bad
    [] p = "equal" -> two(Bool_(a = b))
    [] p = "in"    -> IF IsAggr(a) THEN member(b, a) ELSE Bad
    [] p = "has"   -> IF IsAggr(b) THEN member(a, b) ELSE Bad
    [] p = "cons"  -> IF IsAggr(a) THEN two(Remade(a.op, <<b>> \o Parts(a))) ELSE Bad
    [] p = "swons" -> IF IsAggr(b) THEN two(Remade(b.op, <<a>> \o Parts(b))) ELSE Bad
    [] p = "concat" -> IF IsAggr(a) /\ a.op = b.op
                       THEN two(Remade(a.op, Parts(b) \o Parts(a))) ELSE Bad
    [] p = "at"    -> IF IsAggr(b) THEN two(Parts(b)[a.u + 1]) ELSE Bad
    [] p = "of"    -> IF IsAggr(a) THEN two(Parts(a)[b.u + 1]) ELSE Bad
    [] p = "drop"  -> IF IsAggr(b) THEN two(Remade(b.op, SubSeq(Parts(b), a.u + 1, Len(Parts(b)))))
                      ELSE Bad
    [] p = "take"  -> IF IsAggr(b) THEN two(Remade(b.op, FirstN(Parts(b), a.u))) ELSE Bad
    [] p = "choice" -> Good(<<IF Truth(s[3]) THEN b ELSE a>> \o Under(s, 3))
    [] p = "enconcat" -> Good(<<List(b.u \o <<s[3]>> \o a.u)>> \o Under(s, 3))

-----------------------------------------------------------------------------
RECURSIVE Runs(_, _, _)   \* program, stack, definitions

(* The test p on the stack s, which is left as it was. *)
Tested(p, s, env, Yes(_), No(_)) ==
  Result(Runs(p, s, env), LAMBDA v : IF Truth(v) THEN Yes(s) ELSE No(s))

(* The first clause whose test holds, without the test, else the default.  *)
RECURSIVE Choose_(_, _, _)
Choose_(cs, s, env) ==
  IF Len(cs) = 1 THEN [ok |-> TRUE, body |-> cs[1].u]
  ELSE LET r == Runs(cs[1].u[1].u, s, env)
       IN  IF ~r.ok \/ r.stk = <<>> THEN [ok |-> FALSE, body |-> <<>>]
           ELSE IF Truth(r.stk[1]) THEN [ok |-> TRUE, body |-> Tail(cs[1].u)]
           ELSE Choose_(Tail(cs), s, env)

(* The results of p on the stack v \o s for every v, in order. *)
RECURSIVE Each(_, _, _, _)
Each(vs, p, s, env) ==
  IF vs = <<>> THEN Good(<<>>)
  ELSE Result(Runs(p, <<Head(vs)>> \o s, env),
         LAMBDA v : Then(Each(Tail(vs), p, s, env), LAMBDA rest : Good(<<v>> \o rest)))

RECURSIVE Steps(_, _, _, _)
Steps(vs, p, s, env) ==
  IF vs = <<>> THEN Good(s)
  ELSE Then(Runs(p, <<Head(vs)>> \o s, env), LAMBDA t : Steps(Tail(vs), p, t, env))

RECURSIVE Repeats(_, _, _, _)
Repeats(n, p, s, env) ==
  IF n <= 0 THEN Good(s)
  ELSE Then(Runs(p, s, env), LAMBDA t : Repeats(n - 1, p, t, env))

RECURSIVE Whiles(_, _, _, _)
Whiles(b, d, s, env) ==
  Tested(b, s, env, LAMBDA t : Then(Runs(d, t, env), LAMBDA u : Whiles(b, d, u, env)), Good)

(* [P] [T] [R1] [R2] linrec *)
RECURSIVE Lin(_, _, _)
Lin(q, s, env) ==
  Tested(q[1], s, env, LAMBDA t : Runs(q[2], t, env),
    LAMBDA t : Then(Runs(q[3], t, env), LAMBDA u :
                 Then(Lin(q, u, env), LAMBDA v : Runs(q[4], v, env))))

(* [B] [T] [R1] [R2] binrec *)
RECURSIVE Bin(_, _, _)
Bin(q, s, env) ==
  Tested(q[1], s, env, LAMBDA t : Runs(q[2], t, env),
    LAMBDA t : Then(Runs(q[3], t, env), LAMBDA u :
                 Then(Bin(q, Tail(u), env), LAMBDA v :
                   Then(Bin(q, <<u[1]>> \o v, env), LAMBDA w : Runs(q[4], w, env)))))

(* The quotations of a clause, with a recursive call of cs between any two *)
(* of them (condnestrec) or between the first two only (condlinrec).       *)
RECURSIVE Nest(_, _, _)
RECURSIVE Between(_, _, _, _)
Between(qs, cs, s, env) ==
  Then(Runs(Head(qs).u, s, env), LAMBDA t :
    IF Len(qs) = 1 THEN Good(t)
    ELSE Then(Nest(cs, t, env), LAMBDA u : Between(Tail(qs), cs, u, env)))
Nest(cs, s, env) ==
  LET c == Choose_(cs, s, env) IN IF c.ok THEN Between(c.body, cs, s, env) ELSE Bad

(* P on every leaf of a tree, from the left *)
RECURSIVE Leaves(_)
Leaves(v) ==
  IF v.op # "LIST_" THEN <<v>> ELSE FlattenSeq([i \in DOMAIN v.u |-> Leaves(v.u[i])])

Again(gathered, p) == List(<<gathered, Item(p, 0)>>)

(* g is [[O] C..], [[B] [T] [R1] R2..] or [[O1] [O2] C..]; s is below it.  *)
Recur(p, g, s, env) ==
  LET q == g.u IN
  CASE p = "treerecaux" ->
         IF s = <<>> THEN Bad
         ELSE IF s[1].op # "LIST_" THEN Runs(q[1].u, s, env)
         ELSE Runs(Tail(q), <<Again(g, p)>> \o s, env)
    [] p = "genrecaux" ->
         Tested(q[1].u, s, env, LAMBDA t : Runs(q[2].u, t, env),
           LAMBDA t : Then(Runs(q[3].u, t, env), LAMBDA u :
                        Runs(SubSeq(q, 4, Len(q)), <<Again(g, p)>> \o u, env)))
    [] p = "treegenrecaux" ->
         IF s = <<>> THEN Bad
         ELSE IF s[1].op # "LIST_" THEN Runs(q[1].u, s, env)
         ELSE Then(Runs(q[2].u, s, env), LAMBDA t :
                Runs(SubSeq(q, 3, Len(q)), <<Again(g, p)>> \o t, env))

(* The combinators that loop over the members of an aggregate v. *)
Loop(p, v, q, s, env) ==
  LET vs  == Parts(v)
      tr  == Each(vs, q, s, env)
      yes(i) == Truth(tr.stk[i])
      pick(want) ==
        LET is == SetToSortSeq({i \in DOMAIN vs : yes(i) = want}, <)
        IN  Remade(v.op, [j \in DOMAIN is |-> vs[is[j]]])
  IN CASE p = "step"   -> Steps(vs, q, s, env)
       [] ~tr.ok       -> Bad
       [] p = "map"    -> Good(<<Remade(v.op, tr.stk)>> \o s)
       [] p = "filter" -> Good(<<pick(TRUE)>> \o s)
       [] p = "split"  -> Good(<<pick(FALSE), pick(TRUE)>> \o s)
       [] p = "some"   -> Good(<<Bool_(\E i \in DOMAIN vs : yes(i))>> \o s)
       [] p = "all"    -> Good(<<Bool_(\A i \in DOMAIN vs : yes(i))>> \o s)

(* The clause of case or opcase whose head agrees with x in this field.    *)
RECURSIVE Matching(_, _, _)
Matching(cs, x, field) ==
  IF Len(cs) = 1 THEN <<cs[1].u, FALSE>>
  ELSE IF cs[1].u[1][field] = x[field] THEN <<Tail(cs[1].u), TRUE>>
  ELSE Matching(Tail(cs), x, field)

Combines(p, s, env) ==
  LET a == s[1].u
      q(i)   == s[i].u
      keep(n, t) == Result(t, LAMBDA v : Good(<<v>> \o Under(s, n)))
  IN
  CASE s = <<>> -> Bad
    [] s[1].op # "LIST_" /\ p \notin {"setundeferror"} -> Bad
    [] p = "i" -> Runs(a, Under(s, 1), env)
    [] p = "x" -> Runs(a, s, env)
    [] p = "nullary" -> keep(1, Runs(a, Under(s, 1), env))
    [] p = "cond" ->
         LET c == Choose_(a, Under(s, 1), env) IN IF c.ok THEN Runs(c.body, Under(s, 1), env) ELSE Bad
    [] p \in {"condlinrec", "condnestrec"} -> Nest(a, Under(s, 1), env)
    [] Len(s) < 2 -> Bad
    [] p = "dip" -> Then(Runs(a, Under(s, 2), env), LAMBDA t : Good(<<s[2]>> \o t))
    [] p \in {"app1", "unary"} -> keep(2, Runs(a, Under(s, 1), env))
    [] p = "times" -> Repeats(q(2), a, Under(s, 2), env)
    [] p = "infra" -> IF s[2].op # "LIST_" THEN Bad
                      ELSE Then(Runs(a, q(2), env), LAMBDA t : Good(<<List(t)>> \o Under(s, 2)))
    [] p \in Loops -> IF IsAggr(s[2]) THEN Loop(p, s[2], a, Under(s, 2), env) ELSE Bad
    [] p \in DOMAIN IfType ->
         Runs(IF s[3].op = IfType[p] THEN q(2) ELSE a, Under(s, 2), env)
    [] p = "while" -> Whiles(q(2), a, Under(s, 2), env)
    [] p = "treestep" -> Steps(Leaves(s[2]), a, Under(s, 2), env)
    [] p = "construct" ->
         Then(Runs(q(2), Under(s, 2), env), LAMBDA t :
           LET each[i \in 0 .. Len(a)] ==
                 IF i = 0 THEN Good(Under(s, 2))
                 ELSE Then(each[i - 1], LAMBDA rs :
                        Result(Runs(a[i].u, t, env), LAMBDA v : Good(<<v>> \o rs)))
           IN  each[Len(a)])
    [] p = "case" ->
         LET m == Matching(a, s[2], "u")
         IN  Runs(m[1], Under(s, IF m[2] THEN 2 ELSE 1), env)
    [] p = "opcase" ->
         IF \E i \in DOMAIN a : a[i].op # "LIST_" \/ (i < Len(a) /\ a[i].u = <<>>) THEN Bad
         ELSE Good(<<List(Matching(a, s[2], "op")[1])>> \o Under(s, 1))
    [] Len(s) < 3 -> Bad
    [] p = "binary" -> keep(3, Runs(a, Under(s, 1), env))
    [] p = "ternary" -> IF Len(s) < 4 THEN Bad ELSE keep(4, Runs(a, Under(s, 1), env))
    [] p = "app11" -> keep(3, Runs(a, Under(s, 1), env))
    [] p = "cleave" ->
         IF s[2].op # "LIST_" THEN Bad
         ELSE Result(Runs(q(2), Under(s, 2), env), LAMBDA v :
                Result(Runs(a, Under(s, 2), env), LAMBDA w : Good(<<w, v>> \o Under(s, 3))))
    [] p \in {"unary2", "app12", "unary3", "unary4"} ->
         LET n == IF p = "app12" THEN 2 ELSE UnaryN[p]
         IN  IF Len(s) < (IF p = "app12" THEN 4 ELSE n + 1) THEN Bad
             ELSE Then(Each([i \in 1 .. n |-> s[n + 2 - i]], a, Under(s, n + 1), env),
                    LAMBDA rs : Good(Reverse(rs) \o Under(s, IF p = "app12" THEN 4 ELSE n + 1)))
    [] p = "fold" -> IF IsAggr(s[3]) THEN Steps(Parts(s[3]), a, <<s[2]>> \o Under(s, 3), env) ELSE Bad
    [] s[2].op # "LIST_" -> Bad
    [] p = "branch" -> Runs(IF Truth(s[3]) THEN q(2) ELSE a, Under(s, 3), env)
    [] p = "primrec" ->
         LET vs == IF s[3].op = "INTEGER_" THEN [i \in 1 .. q(3) |-> Int_(q(3) + 1 - i)] ELSE Parts(s[3])
         IN  Then(Runs(q(2), Reverse(vs) \o Under(s, 3), env),
               LAMBDA t : Repeats(Len(vs), a, t, env))
    [] p = "treerec" -> Recur("treerecaux", List(<<s[2]>> \o a), Under(s, 2), env)
    [] s[3].op # "LIST_" -> Bad
    [] p = "ifte" -> Tested(q(3), Under(s, 3), env,
                       LAMBDA t : Runs(q(2), t, env), LAMBDA t : Runs(a, t, env))
    [] p = "tailrec" -> Lin(<<q(3), q(2), a, <<>>>>, Under(s, 3), env)
    [] Len(s) < 4 -> Bad
    [] p = "treegenrec" -> Recur("treegenrecaux", List(<<s[3], s[2]>> \o a), Under(s, 3), env)
    [] s[4].op # "LIST_" -> Bad
    [] p = "linrec" -> Lin(<<q(4), q(3), q(2), a>>, Under(s, 4), env)
    [] p = "binrec" -> Bin(<<q(4), q(3), q(2), a>>, Under(s, 4), env)
    [] p = "genrec" -> Recur("genrecaux", List(<<s[4], s[3], s[2]>> \o a), Under(s, 4), env)

Combinators ==
  DOMAIN Nary \cup DOMAIN UnaryN \cup Loops \cup DOMAIN IfType \cup
  {"i", "x", "dip", "app1", "app11", "app12", "times", "infra", "cleave", "fold", "cond", "ifte",
   "while", "primrec", "construct", "case", "opcase", "branch", "tailrec", "linrec", "binrec",
   "condlinrec", "condnestrec", "treestep", "treerec", "genrec", "treegenrec"}

Does(it, s, env) ==
  CASE it.op \in Literals    -> Good(<<it>> \o s)
    [] it.op = "USR_"        -> IF it.u \in DOMAIN env THEN Runs(env[it.u], s, env) ELSE Bad
    [] it.op \in Combinators -> Combines(it.op, s, env)
    [] it.op = "setundeferror" -> IF s = <<>> THEN Bad ELSE Good(Tail(s))
    [] it.op \in {"treerecaux", "genrecaux", "treegenrecaux"} -> Recur(it.op, s[1], Tail(s), env)
    [] OTHER                 -> Computes(it.op, s)

Runs(p, s, env) ==
  IF p = <<>> THEN Good(s)
  ELSE Then(Does(Head(p), s, env), LAMBDA t : Runs(Tail(p), t, env))

-----------------------------------------------------------------------------
(* What a pointer of the machine stands for. *)
RECURSIVE Stands(_, _)
Stands(h, p) ==
  IF p = NULL THEN <<>>
  ELSE <<IF h[p].op = "LIST_" THEN List(Stands(h, h[p].u)) ELSE Val(h, p)>>
         \o Stands(h, h[p].next)
=============================================================================
