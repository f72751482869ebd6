------------------------------ MODULE JoyNodes ------------------------------
(***************************************************************************)
(* The data of the Joy interpreter (src/examples/languages/netjoy):        *)
(* nodes of linked memory, the values they carry, and the functions on     *)
(* values that the primitives of interp.c compute.  A heap is a sequence   *)
(* of nodes, a pointer is an index into it and 0 is NULL.  Lists share     *)
(* nodes the way the C code shares them.  Where nodes live, and when they  *)
(* are moved, is the subject of JoyHeap.                                   *)
(***************************************************************************)
EXTENDS Integers, Sequences, FiniteSets, SequencesExt

CONSTANTS
  SETSIZE,    \* globals.h: members of a set are 0 .. SETSIZE-1
  Spelling    \* the characters of the names of operators, types and definitions

ASSUME SetSizeAssumption == SETSIZE \in Nat \ {0}

NULL == 0

(***************************************************************************)
(* The types a program can hold.  The value of a node is a number, a       *)
(* sequence of character codes, a set of numbers, or a pointer to a list.  *)
(***************************************************************************)
Numeric    == {"INTEGER_", "CHAR_", "BOOLEAN_"}
Aggregates == {"LIST_", "STRING_", "SET_"}
Literals   == Numeric \cup Aggregates

Item(op, u)       == [op |-> op, u |-> u]
Node(op, u, next) == [op |-> op, u |-> u, next |-> next]
Int_(n)  == Item("INTEGER_", n)
Bool_(b) == Item("BOOLEAN_", IF b THEN 1 ELSE 0)
List_(p) == Item("LIST_", p)
Val(h, p) == Item(h[p].op, h[p].u)

(* The address k links below p, NULL when the chain is shorter. *)
Below(h, p, k) ==
  LET down[i \in 0 .. k] ==
        IF i = 0 THEN p
        ELSE IF down[i - 1] = NULL THEN NULL ELSE h[down[i - 1]].next
  IN  down[k]

(* The values along the chain that starts at p. *)
Chain(h, p) ==
  LET walk[q \in 0 .. Len(h)] ==
        IF q = NULL THEN <<>> ELSE <<Val(h, q)>> \o walk[h[q].next]
  IN  walk[p]

(* Successive newnode calls that push the items on base, the last on top.  *)
Push(h, items, base) ==
  [heap |-> h \o [i \in DOMAIN items |->
                    Node(items[i].op, items[i].u,
                         IF i = 1 THEN base ELSE Len(h) + i - 1)],
   top  |-> IF items = <<>> THEN base ELSE Len(h) + Len(items)]

(* A fresh list of the items whose last node points to tail.               *)
Listed(h, items, tail) == Push(h, Reverse(items), tail)

(***************************************************************************)
(* Values.                                                                 *)
(***************************************************************************)
(* node->u.num in a condition, whatever the type of the node. *)
Truth(v) ==
  CASE v.op = "SET_"    -> v.u # {}
    [] v.op = "STRING_" -> TRUE
    [] OTHER            -> v.u # 0

(* 1 << n on an int of SETSIZE bits: the bit it sets. *)
Bit(n) == n % SETSIZE

(* The members of a string or set, in the order every loop takes them. *)
Members(v) ==
  IF v.op = "STRING_" THEN [i \in DOMAIN v.u |-> Item("CHAR_", v.u[i])]
  ELSE LET s == SetToSortSeq(v.u, <) IN [i \in DOMAIN s |-> Int_(s[i])]

(* A string or set of the same type made of the values collected.          *)
Collected(op, nums) ==
  IF op = "STRING_" THEN Item(op, nums)
  ELSE Item(op, {Bit(nums[i]) : i \in DOMAIN nums})

Least(s) == CHOOSE x \in s : \A y \in s : x <= y

Empty(v) == CASE v.op = "LIST_"   -> v.u = NULL
              [] v.op = "STRING_" -> v.u = <<>>
              [] v.op = "SET_"    -> v.u = {}

FirstOf(h, v) == CASE v.op = "LIST_"   -> Val(h, v.u)
                   [] v.op = "STRING_" -> Item("CHAR_", Head(v.u))
                   [] v.op = "SET_"    -> Int_(Least(v.u))

RestOf(h, v) == CASE v.op = "LIST_"   -> List_(h[v.u].next)
                  [] v.op = "STRING_" -> Item(v.op, Tail(v.u))
                  [] v.op = "SET_"    -> Item(v.op, v.u \ {Least(v.u)})

(* GETSTRING and strcmp: the name of whatever is no string. *)
GetString(v) ==
  IF v.op = "STRING_" THEN v.u ELSE Spelling[IF v.op = "USR_" THEN v.u ELSE v.op]
Strcmp(s, t) ==
  LET code(r, i) == IF i <= Len(r) THEN r[i] ELSE 0
      i == Least({j \in 1 .. Len(s) + 1 : code(s, j) # code(t, j) \/ j > Len(s)})
  IN  code(s, i) - code(t, i)

(* equal_aux: numbers compare across the numeric types, lists by content,  *)
(* and all the rest by name with whatever the second is.                   *)
EqualValues(h, v, w) ==
  LET same(eq, a, b) ==
        CASE a.op \in Numeric -> b.op \in Numeric /\ a.u = b.u
          [] a.op = "SET_"    -> b.op = "SET_" /\ a.u = b.u
          [] a.op = "LIST_"   -> b.op = "LIST_" /\ eq[<<a.u, b.u>>]
          [] OTHER            -> Strcmp(GetString(a), GetString(b)) = 0
      eq[pq \in (0 .. Len(h)) \X (0 .. Len(h))] ==
        LET p == pq[1]  q == pq[2]
        IN  \/ p = NULL /\ q = NULL
            \/ /\ p # NULL /\ q # NULL
               /\ same(eq, Val(h, p), Val(h, q))
               /\ eq[<<h[p].next, h[q].next>>]
  IN  same(eq, v, w)

(* in and has: a set tests the sign of the masked word, so that the member *)
(* SETSIZE-1, the sign bit, is never found; a list compares the raw words. *)
Found(h, aggr, elem) ==
  CASE aggr.op = "SET_"    -> /\ Bit(elem.u) \in aggr.u
                              /\ Bit(elem.u) # SETSIZE - 1
    [] aggr.op = "STRING_" -> \E i \in DOMAIN aggr.u : aggr.u[i] = elem.u
    [] aggr.op = "LIST_"   -> \E i \in DOMAIN Chain(h, aggr.u) :
                                Chain(h, aggr.u)[i].u = elem.u

(* The members of an aggregate as a sequence, whatever its type. *)
Elements(h, v) == IF v.op = "LIST_" THEN Chain(h, v.u) ELSE Members(v)

(* At most the first n members of a sequence. *)
FirstN(e, n) == SubSeq(e, 1, IF n < Len(e) THEN n ELSE Len(e))

Size(h, v) == Len(Elements(h, v))

(* COMPREL, w being the top: the numbers it may compare with 0.  The top   *)
(* alone decides how the second is read: its word as a number, an address  *)
(* being any; its word as a set; or its name.  For sets the number is one  *)
(* more than the first bit that differs, negated when the bit after that   *)
(* one is absent from the top.                                             *)
Comparisons(v, w) ==
  LET number(s) == MapThenSumSet(LAMBDA b : IF b = SETSIZE - 1 THEN -(2 ^ b) ELSE 2 ^ b, s)
      words == CASE v.op \in Numeric               -> {v.u}
                 [] v.op = "SET_"                  -> {number(v.u)}
                 [] v.op = "LIST_" /\ v.u = NULL   -> {0}
                 [] OTHER                          -> {w.u - 1, w.u, w.u + 1}
      masks == CASE v.op \in Numeric               -> {{b \in 0 .. SETSIZE - 1 : (v.u \div 2 ^ b) % 2 = 1}}
                 [] v.op = "SET_"                  -> {v.u}
                 [] v.op = "LIST_" /\ v.u = NULL   -> {{}}
                 [] OTHER                          -> SUBSET (0 .. SETSIZE - 1)
      differ(s) == LET diff == {b \in 0 .. SETSIZE - 1 : (b \in s) # (b \in w.u)}
                       i    == IF diff = {} THEN 0 ELSE Least(diff) + 1
                   IN  IF Bit(i) \in w.u THEN i ELSE -i
  IN  CASE w.op \in Numeric -> {n - w.u : n \in words}
        [] w.op = "SET_"    -> {differ(s) : s \in masks}
        [] OTHER            -> {Strcmp(GetString(v), GetString(w))}
=============================================================================
