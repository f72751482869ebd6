---------------------------- MODULE JoyHeapKinds -----------------------------
(***************************************************************************)
(* Proofs about JoyHeap, where no collection falls on one of the sites in  *)
(* UnsafeSites.  Between collections every pointer leads to an allocated   *)
(* cell, and the cells that the program changes in place are told apart by *)
(* kinds: the cells of the dumps, the headers of the terms being read, the *)
(* last cells of lists under construction.  During a collection every cell *)
(* of the new half is the copy, as far as it has been filled, of one cell  *)
(* of the old half, its origin; what the old half held before is known     *)
(* although copy overwrites it.  Origins carry the kinds across.           *)
(*                                                                         *)
(* The two invariants, what each place that newnode delivers to does to    *)
(* the first, and what each step of copy does to the second.               *)
(***************************************************************************)
EXTENDS JoyHeap, SequenceTheorems, TLAPS

Safe == Unsafe = {}

(* Pointers that may be followed when the half in use has given out F.     *)
Refs(low, F) == (-1 .. low - 1) \cup F

(* A cell of a number or a list. *)
Sound(c, P) ==
  /\ c.op \in {"INTEGER_", "LIST_"} /\ c.next \in P
  /\ c.op = "LIST_" => c.u \in P

(* Definitions and given cells lead to one another only. *)
Closure(M, low, F) ==
  /\ \A a \in 0 .. low - 1 : Sound(M[a], Refs(low, {}))
  /\ \A a \in F : Sound(M[a], Refs(low, F))

-----------------------------------------------------------------------------
(* Kinds.  K gives every cell a kind and L a level, which counts for the   *)
(* headers of terms being read and for the ends that readterm keeps on     *)
(* dump; rd are the phases of those terms.                                 *)
Kind  == {"plain", "conts", "dump", "dump2", "dump3", "header", "end", "tail", "item"}
Depth(rd) == IF rd = <<"run">> THEN 0 ELSE Len(rd)

(* A dump that no read term has grown. *)
OnDump(K, F, p) == p = NULL \/ (p \in F /\ K[p] = "dump")

(* What dump may hold when the first i terms are being read. *)
EndAt(K, L, F, p, j) == p \in F /\ K[p] = "end" /\ L[p] = j
NoEnd(rd, i, j) == \A m \in i .. j : rd[m] # "more"
OnEnds(K, L, F, rd, i, p) ==
  \/ NoEnd(rd, 1, i) /\ OnDump(K, F, p)
  \/ \E j \in 1 .. i : rd[j] = "more" /\ NoEnd(rd, j + 1, i) /\ EndAt(K, L, F, p, j)

TailAt(K, F, p) == p \in F /\ K[p] = "tail"
ItemAt(K, F, p) == p \in F /\ K[p] = "item"
HeaderAt(K, L, F, p, j) == p \in F /\ K[p] = "header" /\ L[p] = j

(* conts and the dump of the combinators. *)
Chains(M, R, K, F) ==
  /\ R["conts"] # NULL => R["conts"] \in F /\ K[R["conts"]] = "conts"
  /\ \A a \in F : K[a] = "conts" =>
       /\ M[a].op = "LIST_"
       /\ M[a].next # NULL => M[a].next \in F /\ K[M[a].next] = "conts"
  /\ \A a \in F : K[a] = "dump" => M[a].op = "LIST_" /\ OnDump(K, F, M[a].next)

(* The terms being read: their headers on the stack, their ends on dump. *)
Terms(M, R, K, L, F, rd) ==
  /\ Depth(rd) # 0 => HeaderAt(K, L, F, R["stk"], Depth(rd))
  /\ \A a \in F : K[a] = "header" => M[a].op = "LIST_"
  /\ \A a \in F : K[a] = "header" /\ L[a] \in 2 .. Depth(rd) =>
       HeaderAt(K, L, F, M[a].next, L[a] - 1)
  /\ OnEnds(K, L, F, rd, Depth(rd), R["dump"])
  /\ \A a \in F : K[a] = "end" => M[a].op = "LIST_"
  /\ \A j \in 1 .. Depth(rd) : rd[j] = "more" =>
       \A a \in F : K[a] = "end" /\ L[a] = j =>
         TailAt(K, F, M[a].u) /\ OnEnds(K, L, F, rd, j - 1, M[a].next)
  /\ Depth(rd) # 0 /\ rd[Depth(rd)] = "end" => TailAt(K, F, M[R["stk"]].u)

(* The list that map collects: its first and its last cell. *)
Maps(M, R, K, F) ==
  /\ R["dump2"] = NULL => R["dump3"] = NULL
  /\ R["dump2"] # NULL =>
       /\ R["dump2"] \in F /\ K[R["dump2"]] = "dump2"
       /\ M[R["dump2"]].op = "LIST_" /\ M[R["dump2"]].next = NULL
       /\ R["dump3"] = NULL => M[R["dump2"]].u = NULL
  /\ R["dump3"] # NULL =>
       /\ R["dump3"] \in F /\ K[R["dump3"]] = "dump3"
       /\ M[R["dump3"]].op = "LIST_" /\ M[R["dump3"]].next = NULL
       /\ M[R["dump2"]].u # NULL => ItemAt(K, F, M[R["dump3"]].u)

(* The stack under an operator that has taken its arguments apart. *)
Pair(M, R) == R["stk"] # NULL /\ M[R["stk"]].next # NULL

(* A definition block starts with nothing but the old program. *)
Empty(R, K, F) ==
  /\ R["conts"] = NULL /\ R["dump2"] = NULL
  /\ \A x \in {"dump1", "dump4", "dump5"} : R[x] = NULL
  /\ \A a \in F : K[a] # "dump"

Reaches(R, low, F, rd) ==
  /\ \A x \in Roots \ {"prog"} : R[x] \in Refs(low, F)
  /\ rd = <<"run">> => R["prog"] \in Refs(low, F)

Shape(M, R, K, L, low, F, rd) ==
  /\ K \in [Addr -> Kind] /\ L \in [Addr -> Int]
  /\ Closure(M, low, F)
  /\ Reaches(R, low, F, rd)
  /\ Chains(M, R, K, F)
  /\ Terms(M, R, K, L, F, rd)
  /\ Maps(M, R, K, F)

(* dump2 and dump3 are opened and closed together. *)
Even(R) == R["dump2"] # NULL <=> R["dump3"] # NULL

(* What a call of newnode has to bring along, for each of its places. *)
Places == {"stk", "literal", "dump", "dump2", "dump3", "bucket", "conts", "header", "factor",
           "end", "DMP2", "DMP3->next", "mapped", "primrec", "member"}
Args(M, R, K, L, low, F, rd, c) ==
  /\ c.place \in Places /\ c.op \in {"INTEGER_", "LIST_"} /\ c.u \in Int
  /\ c.next \in Refs(low, F) /\ (c.op = "LIST_" => c.u \in Refs(low, F))
  /\ c.place \notin {"header", "factor", "end", "conts", "dump2", "dump3"} => rd = <<>>
  /\ c.place \in {"header", "end", "conts", "dump", "primrec", "dump2", "dump3"} => c.op = "LIST_"
  /\ c.place \in {"dump", "primrec"} => OnDump(K, F, c.next)
  /\ c.place = "header" =>
       /\ rd # <<"run">>
       /\ Depth(rd) # 0 => HeaderAt(K, L, F, c.next, Depth(rd)) /\ rd[Depth(rd)] # "end"
  /\ c.place = "factor" =>
       Depth(rd) # 0 /\ HeaderAt(K, L, F, c.next, Depth(rd)) /\ rd[Depth(rd)] # "end"
  /\ c.place = "end" =>
       /\ Depth(rd) # 0 /\ rd[Depth(rd)] = "end" /\ TailAt(K, F, c.u)
       /\ OnEnds(K, L, F, rd, Depth(rd), c.next)
  /\ c.place = "conts" =>
       /\ rd \in {<<>>, <<"run">>}
       /\ c.next # NULL => c.next \in F /\ K[c.next] = "conts"
  /\ c.place = "dump2" => R["dump2"] = NULL /\ c.u = NULL /\ c.next = NULL
  /\ c.place = "dump3" => R["dump2"] # NULL /\ R["dump3"] = NULL /\ c.u = NULL /\ c.next = NULL
  /\ c.place \in {"DMP2", "DMP3->next"} => R["dump3"] # NULL /\ c.next = NULL
  /\ c.place = "DMP3->next" => M[R["dump2"]].u # NULL
  /\ c.place = "mapped" => R["dump3"] # NULL
  /\ c.place = "primrec" => R["stk"] # NULL /\ M[R["stk"]].op = "LIST_" /\ Even(R)
  /\ c.place = "bucket" => Pair(M, R) /\ Even(R)

-----------------------------------------------------------------------------
(* Copying.  G is what the new half has given out, orig the origin of each *)
(* of its cells.                                                           *)
Copies(low, G, orig, p, q) ==
  IF p \in Refs(low, {}) THEN q = p ELSE q \in G /\ orig[q] = p

Copied(M0, M, low, G, orig, b) ==
  /\ M[b].op = M0[orig[b]].op
  /\ Copies(low, G, orig, M0[orig[b]].next, M[b].next)
  /\ M[b].op = "LIST_" => Copies(low, G, orig, M0[orig[b]].u, M[b].u)
  /\ M[b].op # "LIST_" => M[b].u = M0[orig[b]].u

Above(low, F) == F \subseteq Addr /\ \A a \in F : a >= low

LEMMA CopyFacts ==
  ASSUME NEW low \in Addr, NEW F, NEW G, NEW orig, NEW p, NEW q,
         Above(low, F), Above(low, G), p \in Refs(low, F), Copies(low, G, orig, p, q)
  PROVE  /\ p = NULL <=> q = NULL
         /\ p \in F <=> q \in G
         /\ p \in F => orig[q] = p
         /\ q \in Refs(low, G)
BY DEF Above, Refs, Copies, NULL, Addr

-----------------------------------------------------------------------------
(* A finished collection moves the heap M0 with the roots R0 to M and R.   *)
Moved(M0, M, R0, R, low, F, G, orig) ==
  /\ Above(low, F) /\ Above(low, G) /\ orig \in [Addr -> Addr]
  /\ \A b \in G : orig[b] \in F /\ Copied(M0, M, low, G, orig, b)
  /\ \A a \in 0 .. low - 1 : M[a] = M0[a]
  /\ \A x \in Roots : Copies(low, G, orig, R0[x], R[x])

Across(X, orig) == [b \in Addr |-> X[orig[b]]]

LEMMA MovedClosure ==
  ASSUME NEW low \in Addr, NEW F, NEW G, NEW orig, NEW M0, NEW M, NEW R0, NEW R,
         Moved(M0, M, R0, R, low, F, G, orig), Closure(M0, low, F)
  PROVE  Closure(M, low, G)
<1>1. Above(low, F) /\ Above(low, G)
  BY DEF Moved
<1>2. ASSUME NEW b \in G PROVE Sound(M[b], Refs(low, G))
  <2>1. orig[b] \in F /\ Copied(M0, M, low, G, orig, b)
    BY DEF Moved
  <2>2. Sound(M0[orig[b]], Refs(low, F))
    BY <2>1 DEF Closure
  <2>3. M[b].next \in Refs(low, G)
    BY <1>1, <2>1, <2>2, CopyFacts DEF Copied, Sound
  <2>4. M[b].op = "LIST_" => M[b].u \in Refs(low, G)
    BY <1>1, <2>1, <2>2, CopyFacts DEF Copied, Sound
  <2> QED
    BY <2>1, <2>2, <2>3, <2>4 DEF Copied, Sound
<1>3. ASSUME NEW a \in 0 .. low - 1 PROVE Sound(M[a], Refs(low, {}))
  BY DEF Closure, Moved
<1> QED
  BY <1>2, <1>3 DEF Closure

LEMMA MovedReaches ==
  ASSUME NEW low \in Addr, NEW F, NEW G, NEW orig, NEW M0, NEW M, NEW R0, NEW R, NEW rd,
         Moved(M0, M, R0, R, low, F, G, orig), Reaches(R0, low, F, rd)
  PROVE  Reaches(R, low, G, rd)
<1>1. Above(low, F) /\ Above(low, G)
  BY DEF Moved
<1>2. \A x \in Roots : R0[x] \in Refs(low, F) => R[x] \in Refs(low, G)
  BY <1>1, CopyFacts DEF Moved
<1> QED
  BY <1>2 DEF Reaches, Roots

(* What kinds say of a pointer they say of its copy. *)
LEMMA KindCopied ==
  ASSUME NEW low \in Addr, NEW F, NEW G, NEW orig, NEW p, NEW q,
         Above(low, F), Above(low, G),
         Copies(low, G, orig, p, q), p \in F
  PROVE  q \in G /\ q # NULL /\ q \in Addr /\ orig[q] = p
<1>1. q \in G /\ orig[q] = p /\ q \in Addr
  BY CopyFacts DEF Above, Refs
<1> QED
  BY <1>1 DEF Addr, NULL

LEMMA TailCopied ==
  ASSUME NEW low \in Addr, NEW F, NEW G, NEW orig, NEW K, NEW p, NEW q,
         Above(low, F), Above(low, G),
         Copies(low, G, orig, p, q), TailAt(K, F, p)
  PROVE  TailAt(Across(K, orig), G, q)
<1>1. p \in F /\ K[p] = "tail"
  BY DEF TailAt
<1>2. q \in G /\ Across(K, orig)[q] = K[p]
  BY <1>1, KindCopied DEF Across
<1> QED
  BY <1>1, <1>2 DEF TailAt

LEMMA ItemCopied ==
  ASSUME NEW low \in Addr, NEW F, NEW G, NEW orig, NEW K, NEW p, NEW q,
         Above(low, F), Above(low, G),
         Copies(low, G, orig, p, q), ItemAt(K, F, p)
  PROVE  ItemAt(Across(K, orig), G, q)
<1>1. p \in F /\ K[p] = "item"
  BY DEF ItemAt
<1>2. q \in G /\ Across(K, orig)[q] = K[p]
  BY <1>1, KindCopied DEF Across
<1> QED
  BY <1>1, <1>2 DEF ItemAt

LEMMA DumpCopied ==
  ASSUME NEW low \in Addr, NEW F, NEW G, NEW orig, NEW K, NEW p, NEW q,
         Above(low, F), Above(low, G),
         Copies(low, G, orig, p, q), OnDump(K, F, p)
  PROVE  OnDump(Across(K, orig), G, q)
<1>1. CASE p = NULL
  <2>1. q = NULL
    BY <1>1, CopyFacts DEF Refs, Addr, NULL
  <2> QED
    BY <2>1 DEF OnDump
<1>2. CASE p \in F /\ K[p] = "dump"
  <2>1. q \in G /\ Across(K, orig)[q] = K[p]
    BY <1>2, KindCopied DEF Across
  <2> QED
    BY <1>2, <2>1 DEF OnDump
<1> QED
  BY <1>1, <1>2 DEF OnDump

LEMMA HeaderCopied ==
  ASSUME NEW low \in Addr, NEW F, NEW G, NEW orig, NEW K, NEW L, NEW p, NEW q, NEW j,
         Above(low, F), Above(low, G),
         Copies(low, G, orig, p, q), HeaderAt(K, L, F, p, j)
  PROVE  HeaderAt(Across(K, orig), Across(L, orig), G, q, j)
<1>1. p \in F /\ K[p] = "header" /\ L[p] = j
  BY DEF HeaderAt
<1>2. q \in G /\ Across(K, orig)[q] = K[p]
  BY <1>1, KindCopied DEF Across
<1>3. Across(L, orig)[q] = L[p]
  BY <1>1, KindCopied DEF Across
<1> QED
  BY <1>1, <1>2, <1>3 DEF HeaderAt

LEMMA EndsCopied ==
  ASSUME NEW low \in Addr, NEW F, NEW G, NEW orig, NEW K, NEW L, NEW p, NEW q, NEW rd, NEW i,
         Above(low, F), Above(low, G),
         Copies(low, G, orig, p, q), OnEnds(K, L, F, rd, i, p)
  PROVE  OnEnds(Across(K, orig), Across(L, orig), G, rd, i, q)
<1>1. ASSUME NEW j, EndAt(K, L, F, p, j)
      PROVE  EndAt(Across(K, orig), Across(L, orig), G, q, j)
  <2>1. p \in F /\ K[p] = "end" /\ L[p] = j
    BY <1>1 DEF EndAt
  <2>2. q \in G /\ Across(K, orig)[q] = K[p]
    BY <2>1, KindCopied DEF Across
  <2>3. Across(L, orig)[q] = L[p]
    BY <2>1, KindCopied DEF Across
  <2> QED
    BY <2>1, <2>2, <2>3 DEF EndAt
<1>2. OnDump(K, F, p) => OnDump(Across(K, orig), G, q)
  BY DumpCopied
<1> QED
  BY <1>1, <1>2 DEF OnEnds

LEMMA MovedChains ==
  ASSUME NEW low \in Addr, NEW F, NEW G, NEW orig, NEW M0, NEW M, NEW R0, NEW R, NEW rd,
         NEW K, NEW L, Moved(M0, M, R0, R, low, F, G, orig),
         Closure(M0, low, F), Reaches(R0, low, F, rd), Chains(M0, R0, K, F)
  PROVE  Chains(M, R, Across(K, orig), G)
<1> DEFINE K2 == Across(K, orig)
<1>1. Above(low, F) /\ Above(low, G)
  BY DEF Moved
<1>2. \A x \in Roots \ {"prog"} : R0[x] \in Refs(low, F) /\ Copies(low, G, orig, R0[x], R[x])
  BY DEF Moved, Reaches
<1>3. R["conts"] # NULL => R["conts"] \in G /\ K2[R["conts"]] = "conts"
  <2>1. R0["conts"] \in Refs(low, F) /\ Copies(low, G, orig, R0["conts"], R["conts"])
    BY <1>2 DEF Roots
  <2>2. R["conts"] # NULL => R0["conts"] \in F /\ K[R0["conts"]] = "conts"
    BY <1>1, <2>1, CopyFacts DEF Chains
  <2> QED
    BY <1>1, <2>1, <2>2, KindCopied DEF Across
<1>4. ASSUME NEW b \in G
      PROVE  /\ orig[b] \in F /\ K2[b] = K[orig[b]] /\ M[b].op = M0[orig[b]].op
             /\ M0[orig[b]].next \in Refs(low, F)
             /\ Copies(low, G, orig, M0[orig[b]].next, M[b].next)
  BY <1>1 DEF Moved, Copied, Closure, Sound, Across, Above
<1>5. ASSUME NEW b \in G, K2[b] = "conts"
      PROVE  /\ M[b].op = "LIST_"
             /\ M[b].next # NULL => M[b].next \in G /\ K2[M[b].next] = "conts"
  <2>1. M0[orig[b]].op = "LIST_" /\ (M0[orig[b]].next # NULL =>
          M0[orig[b]].next \in F /\ K[M0[orig[b]].next] = "conts")
    BY <1>4, <1>5 DEF Chains
  <2>2. M[b].next # NULL => M0[orig[b]].next \in F /\ K[M0[orig[b]].next] = "conts"
    BY <1>1, <1>4, <2>1, CopyFacts
  <2> QED
    BY <1>1, <1>4, <2>1, <2>2, KindCopied DEF Across
<1>6. ASSUME NEW b \in G, K2[b] = "dump"
      PROVE  M[b].op = "LIST_" /\ OnDump(K2, G, M[b].next)
  <2>1. M0[orig[b]].op = "LIST_" /\ OnDump(K, F, M0[orig[b]].next)
    BY <1>4, <1>6 DEF Chains
  <2> QED
    BY <1>1, <1>4, <2>1, DumpCopied
<1> QED
  BY <1>3, <1>5, <1>6 DEF Chains

LEMMA MovedTerms ==
  ASSUME NEW low \in Addr, NEW F, NEW G, NEW orig, NEW M0, NEW M, NEW R0, NEW R, NEW rd,
         NEW K, NEW L, Moved(M0, M, R0, R, low, F, G, orig),
         Closure(M0, low, F), Reaches(R0, low, F, rd), Terms(M0, R0, K, L, F, rd)
  PROVE  Terms(M, R, Across(K, orig), Across(L, orig), G, rd)
<1> DEFINE K2 == Across(K, orig)  L2 == Across(L, orig)  n == Depth(rd)
<1>1. Above(low, F) /\ Above(low, G)
  BY DEF Moved
<1>2. \A x \in Roots \ {"prog"} : R0[x] \in Refs(low, F) /\ Copies(low, G, orig, R0[x], R[x])
  BY DEF Moved, Reaches
<1>3. /\ R0["stk"] \in Refs(low, F) /\ Copies(low, G, orig, R0["stk"], R["stk"])
      /\ R0["dump"] \in Refs(low, F) /\ Copies(low, G, orig, R0["dump"], R["dump"])
  BY <1>2 DEF Roots
<1>4. ASSUME NEW b \in G
      PROVE  /\ orig[b] \in F /\ K2[b] = K[orig[b]] /\ L2[b] = L[orig[b]]
             /\ M[b].op = M0[orig[b]].op
             /\ M0[orig[b]].next \in Refs(low, F)
             /\ Copies(low, G, orig, M0[orig[b]].next, M[b].next)
             /\ M[b].op = "LIST_" => /\ M0[orig[b]].u \in Refs(low, F)
                                     /\ Copies(low, G, orig, M0[orig[b]].u, M[b].u)
  BY <1>1 DEF Moved, Copied, Closure, Sound, Across, Above
<1>5. n # 0 => HeaderAt(K2, L2, G, R["stk"], n)
  BY <1>1, <1>3, HeaderCopied DEF Terms
<1>6. ASSUME NEW b \in G, K2[b] = "header" PROVE M[b].op = "LIST_"
  BY <1>4, <1>6 DEF Terms
<1>7. ASSUME NEW b \in G, K2[b] = "header", L2[b] \in 2 .. n
      PROVE  HeaderAt(K2, L2, G, M[b].next, L2[b] - 1)
  <2>1. HeaderAt(K, L, F, M0[orig[b]].next, L[orig[b]] - 1)
    BY <1>4, <1>7 DEF Terms
  <2> QED
    BY <1>1, <1>4, <1>7, <2>1, HeaderCopied
<1>8. OnEnds(K2, L2, G, rd, n, R["dump"])
  BY <1>1, <1>3, EndsCopied DEF Terms
<1>9. ASSUME NEW b \in G, K2[b] = "end" PROVE M[b].op = "LIST_"
  BY <1>4, <1>9 DEF Terms
<1>10. ASSUME NEW j \in 1 .. n, rd[j] = "more", NEW b \in G, K2[b] = "end", L2[b] = j
       PROVE  TailAt(K2, G, M[b].u) /\ OnEnds(K2, L2, G, rd, j - 1, M[b].next)
  <2>1. TailAt(K, F, M0[orig[b]].u) /\ OnEnds(K, L, F, rd, j - 1, M0[orig[b]].next)
    BY <1>4, <1>10 DEF Terms
  <2> QED
    BY <1>1, <1>4, <1>9, <1>10, <2>1, TailCopied, EndsCopied
<1>11. ASSUME n # 0, rd[n] = "end" PROVE TailAt(K2, G, M[R["stk"]].u)
  <2>1. HeaderAt(K, L, F, R0["stk"], n) /\ TailAt(K, F, M0[R0["stk"]].u)
    BY <1>11 DEF Terms
  <2>2. R["stk"] \in G /\ orig[R["stk"]] = R0["stk"] /\ K2[R["stk"]] = "header"
    BY <1>1, <1>3, <1>5, <1>11, <2>1, CopyFacts DEF HeaderAt
  <2> QED
    BY <1>1, <1>4, <1>6, <2>1, <2>2, TailCopied
<1> QED
  BY <1>5, <1>6, <1>7, <1>8, <1>9, <1>10, <1>11 DEF Terms

LEMMA MovedMaps ==
  ASSUME NEW low \in Addr, NEW F, NEW G, NEW orig, NEW M0, NEW M, NEW R0, NEW R, NEW rd,
         NEW K, NEW L, Moved(M0, M, R0, R, low, F, G, orig),
         Closure(M0, low, F), Reaches(R0, low, F, rd), Maps(M0, R0, K, F)
  PROVE  Maps(M, R, Across(K, orig), G)
<1> DEFINE K2 == Across(K, orig)
<1>1. Above(low, F) /\ Above(low, G)
  BY DEF Moved
<1>2. \A x \in Roots \ {"prog"} : R0[x] \in Refs(low, F) /\ Copies(low, G, orig, R0[x], R[x])
  BY DEF Moved, Reaches
<1>3. \A x \in {"dump2", "dump3"} :
        /\ R0[x] \in Refs(low, F) /\ Copies(low, G, orig, R0[x], R[x])
        /\ R0[x] = NULL <=> R[x] = NULL
  BY <1>1, <1>2, CopyFacts DEF Roots
<1>4. ASSUME NEW b \in G
      PROVE  /\ orig[b] \in F /\ K2[b] = K[orig[b]]
             /\ M[b].op = M0[orig[b]].op
             /\ M0[orig[b]].next \in Refs(low, F)
             /\ Copies(low, G, orig, M0[orig[b]].next, M[b].next)
             /\ M[b].op = "LIST_" => /\ M0[orig[b]].u \in Refs(low, F)
                                     /\ Copies(low, G, orig, M0[orig[b]].u, M[b].u)
  BY <1>1 DEF Moved, Copied, Closure, Sound, Across, Above
<1>5. ASSUME NEW x \in {"dump2", "dump3"}, R[x] # NULL
      PROVE  /\ R[x] \in G /\ orig[R[x]] = R0[x] /\ K2[R[x]] = x
             /\ M[R[x]].op = "LIST_" /\ M[R[x]].next = NULL
             /\ M0[R0[x]].u \in Refs(low, F)
             /\ Copies(low, G, orig, M0[R0[x]].u, M[R[x]].u)
             /\ M0[R0[x]].u = NULL <=> M[R[x]].u = NULL
  <2>1. /\ R0[x] \in F /\ K[R0[x]] = x /\ M0[R0[x]].op = "LIST_" /\ M0[R0[x]].next = NULL
    BY <1>3, <1>5 DEF Maps
  <2>2. R[x] \in G /\ orig[R[x]] = R0[x]
    BY <1>1, <1>3, <2>1, CopyFacts
  <2>3. K2[R[x]] = x /\ M[R[x]].op = "LIST_"
    BY <1>4, <2>1, <2>2
  <2>4. M[R[x]].next = NULL
    BY <1>1, <1>4, <2>1, <2>2, CopyFacts
  <2> QED
    BY <1>1, <1>4, <2>1, <2>2, <2>3, <2>4, CopyFacts
<1>6. R["dump3"] = NULL /\ R["dump2"] # NULL => M[R["dump2"]].u = NULL
  BY <1>3, <1>5 DEF Maps
<1>7. ASSUME R["dump3"] # NULL, M[R["dump2"]].u # NULL PROVE ItemAt(K2, G, M[R["dump3"]].u)
  <2>1. R0["dump3"] # NULL /\ R0["dump2"] # NULL /\ R["dump2"] # NULL
    BY <1>3, <1>7 DEF Maps
  <2>2. M0[R0["dump2"]].u # NULL
    BY <1>5, <1>7, <2>1
  <2>3. ItemAt(K, F, M0[R0["dump3"]].u)
    BY <2>1, <2>2 DEF Maps
  <2> QED
    BY <1>1, <1>5, <1>7, <2>3, ItemCopied
<1>8. R["dump2"] = NULL => R["dump3"] = NULL
  BY <1>3 DEF Maps
<1> QED
  BY <1>5, <1>6, <1>7, <1>8 DEF Maps

LEMMA MovedShape ==
  ASSUME NEW low \in Addr, NEW F, NEW G, NEW orig, NEW M0, NEW M, NEW R0, NEW R, NEW rd,
         NEW K, NEW L, Moved(M0, M, R0, R, low, F, G, orig),
         Shape(M0, R0, K, L, low, F, rd)
  PROVE  Shape(M, R, Across(K, orig), Across(L, orig), low, G, rd)
<1>1. Across(K, orig) \in [Addr -> Kind] /\ Across(L, orig) \in [Addr -> Int]
  BY DEF Shape, Across, Moved
<1>2. Closure(M, low, G)
  BY MovedClosure DEF Shape
<1>3. Reaches(R, low, G, rd)
  BY MovedReaches DEF Shape
<1>4. Chains(M, R, Across(K, orig), G)
  BY MovedChains DEF Shape
<1>5. Terms(M, R, Across(K, orig), Across(L, orig), G, rd)
  BY MovedTerms DEF Shape
<1>6. Maps(M, R, Across(K, orig), G)
  BY MovedMaps DEF Shape
<1> QED
  BY <1>1, <1>2, <1>3, <1>4, <1>5, <1>6 DEF Shape

(* A cell, wherever it lies, and its copy. *)
LEMMA CellCopied ==
  ASSUME NEW low \in Addr, NEW F, NEW G, NEW orig, NEW M0, NEW M, NEW R0, NEW R,
         Moved(M0, M, R0, R, low, F, G, orig), Closure(M0, low, F),
         NEW p, NEW q, p \in Refs(low, F), p # NULL, Copies(low, G, orig, p, q)
  PROVE  /\ q # NULL /\ M[q].op = M0[p].op
         /\ M[q].next = NULL <=> M0[p].next = NULL
         /\ M[q].op = "LIST_" => (M[q].u = NULL <=> M0[p].u = NULL)
<1>1. Above(low, F) /\ Above(low, G)
  BY DEF Moved
<1>2. CASE p \notin F
  <2>1. p \in 0 .. low - 1 /\ q = p
    BY <1>2 DEF Refs, Copies, NULL, Addr
  <2> QED
    BY <2>1 DEF Moved
<1>3. CASE p \in F
  <2>1. q \in G /\ q # NULL /\ orig[q] = p
    BY <1>1, <1>3, KindCopied
  <2>2. Copied(M0, M, low, G, orig, q) /\ Sound(M0[p], Refs(low, F))
    BY <1>3, <2>1 DEF Moved, Closure
  <2>3. /\ M[q].op = M0[p].op
        /\ M0[p].next \in Refs(low, F) /\ Copies(low, G, orig, M0[p].next, M[q].next)
        /\ M[q].op = "LIST_" => /\ M0[p].u \in Refs(low, F)
                                /\ Copies(low, G, orig, M0[p].u, M[q].u)
    BY <2>1, <2>2 DEF Copied, Sound
  <2> QED
    BY <1>1, <2>1, <2>3, CopyFacts
<1> QED
  BY <1>2, <1>3

(* What newnode has to store moves along. *)
MovedCall(low, G, orig, C0, c) ==
  /\ c.place = C0.place /\ c.op = C0.op
  /\ Copies(low, G, orig, C0.next, c.next)
  /\ IF c.op = "LIST_" THEN Copies(low, G, orig, C0.u, c.u) ELSE c.u = C0.u

LEMMA MovedArgs ==
  ASSUME NEW low \in Addr, NEW F, NEW G, NEW orig, NEW M0, NEW M, NEW R0, NEW R, NEW rd,
         NEW K, NEW L, NEW C0, NEW c, Moved(M0, M, R0, R, low, F, G, orig),
         Shape(M0, R0, K, L, low, F, rd), Args(M0, R0, K, L, low, F, rd, C0),
         MovedCall(low, G, orig, C0, c)
  PROVE  Args(M, R, Across(K, orig), Across(L, orig), low, G, rd, c)
<1> DEFINE K2 == Across(K, orig)  L2 == Across(L, orig)  n == Depth(rd)
<1>1. Above(low, F) /\ Above(low, G) /\ Closure(M0, low, F)
  BY DEF Moved, Shape
<1>2. /\ c.place \in Places /\ c.place = C0.place /\ c.op = C0.op
      /\ C0.next \in Refs(low, F) /\ Copies(low, G, orig, C0.next, c.next)
      /\ c.next \in Refs(low, G) /\ (c.next = NULL <=> C0.next = NULL)
  BY <1>1, CopyFacts DEF MovedCall, Args
<1>3. c.op = "LIST_" =>
        /\ C0.u \in Refs(low, F) /\ Copies(low, G, orig, C0.u, c.u)
        /\ c.u \in Refs(low, G) /\ (c.u = NULL <=> C0.u = NULL)
  BY <1>1, CopyFacts DEF MovedCall, Args
<1>4. c.op \in {"INTEGER_", "LIST_"} /\ c.u \in Int
  <2>1. \A p \in Refs(low, G) : p \in Int
    BY <1>1 DEF Above, Refs, Addr
  <2> QED
    BY <1>2, <1>3, <2>1 DEF Args, MovedCall
<1>5. ASSUME NEW x \in {"stk", "dump2", "dump3"}
      PROVE  /\ R0[x] \in Refs(low, F) /\ Copies(low, G, orig, R0[x], R[x])
             /\ R0[x] = NULL <=> R[x] = NULL
             /\ R[x] # NULL => /\ M[R[x]].op = M0[R0[x]].op
                               /\ M[R[x]].next = NULL <=> M0[R0[x]].next = NULL
                               /\ M[R[x]].op = "LIST_" => (M[R[x]].u = NULL <=> M0[R0[x]].u = NULL)
  <2>1. R0[x] \in Refs(low, F) /\ Copies(low, G, orig, R0[x], R[x])
    BY DEF Shape, Reaches, Moved, Roots
  <2>2. R0[x] = NULL <=> R[x] = NULL
    BY <1>1, <2>1, CopyFacts
  <2> QED
    BY <1>1, <2>1, <2>2, CellCopied
<1>6. c.place \in {"dump", "primrec"} => OnDump(K2, G, c.next)
  BY <1>1, <1>2, DumpCopied DEF Args
<1>7. c.place = "header" =>
        /\ rd # <<"run">>
        /\ n # 0 => HeaderAt(K2, L2, G, c.next, n) /\ rd[n] # "end"
  BY <1>1, <1>2, HeaderCopied DEF Args
<1>8. c.place = "factor" => n # 0 /\ HeaderAt(K2, L2, G, c.next, n) /\ rd[n] # "end"
  BY <1>1, <1>2, HeaderCopied DEF Args
<1>9. c.place = "end" =>
        n # 0 /\ rd[n] = "end" /\ TailAt(K2, G, c.u) /\ OnEnds(K2, L2, G, rd, n, c.next)
  <2>1. c.place = "end" => TailAt(K2, G, c.u)
    BY <1>1, <1>2, <1>3, TailCopied DEF Args
  <2>2. c.place = "end" => OnEnds(K2, L2, G, rd, n, c.next)
    BY <1>1, <1>2, EndsCopied DEF Args
  <2> QED
    BY <1>2, <2>1, <2>2 DEF Args
<1>10. c.place = "conts" => /\ rd \in {<<>>, <<"run">>}
                            /\ c.next # NULL => c.next \in G /\ K2[c.next] = "conts"
  <2>1. c.place = "conts" /\ c.next # NULL => C0.next \in F /\ K[C0.next] = "conts"
    BY <1>2 DEF Args
  <2>2. c.place = "conts" /\ c.next # NULL =>
          c.next \in G /\ c.next \in Addr /\ orig[c.next] = C0.next
    BY <1>1, <1>2, <2>1, KindCopied
  <2> QED
    BY <1>2, <2>1, <2>2 DEF Args, Across
<1>11. c.place \in {"DMP2", "DMP3->next", "mapped"} => R["dump3"] # NULL /\ R["dump2"] # NULL
  BY <1>2, <1>5 DEF Args, Shape, Maps
<1>12. c.place = "DMP3->next" => M[R["dump2"]].u # NULL
  <2>1. c.place = "DMP3->next" => M0[R0["dump2"]].op = "LIST_"
    BY <1>2, <1>5, <1>11 DEF Shape, Maps
  <2> QED
    BY <1>2, <1>5, <1>11, <2>1 DEF Args
<1>13. Even(R0) => Even(R)
  BY <1>5 DEF Even
<1>14. Pair(M0, R0) => Pair(M, R)
  BY <1>5 DEF Pair
<1>15. /\ c.place = "dump2" => R["dump2"] = NULL /\ c.u = NULL /\ c.next = NULL
       /\ c.place = "dump3" => R["dump2"] # NULL /\ R["dump3"] = NULL /\ c.u = NULL /\ c.next = NULL
       /\ c.place \in {"DMP2", "DMP3->next"} => c.next = NULL
  BY <1>2, <1>3, <1>5 DEF Args
<1>16. /\ c.place = "primrec" => R["stk"] # NULL /\ M[R["stk"]].op = "LIST_" /\ Even(R)
       /\ c.place = "bucket" => Pair(M, R) /\ Even(R)
  BY <1>2, <1>5, <1>13, <1>14 DEF Args
<1>17. /\ c.place \notin {"header", "factor", "end", "conts", "dump2", "dump3"} => rd = <<>>
       /\ c.place \in {"header", "end", "conts", "dump", "primrec", "dump2", "dump3"} => c.op = "LIST_"
  BY <1>2 DEF Args
<1> QED
  BY <1>2, <1>3, <1>4, <1>6, <1>7, <1>8, <1>9, <1>10, <1>11, <1>12, <1>15, <1>16, <1>17 DEF Args

-----------------------------------------------------------------------------
(* What the program does between collections, one change at a time: a new  *)
(* cell, a kind for it, a field written, a register set, a term opened.    *)

LEMMA Below ==
  ASSUME NEW low \in Addr
  PROVE  \A x \in 0 .. low - 1 : x \in Addr /\ x < low
BY HeapAssumption DEF Addr, MEM_HIGH

LEMMA RefFacts ==
  ASSUME NEW low \in Addr, NEW F
  PROVE  NULL \in Refs(low, F) /\ F \subseteq Refs(low, F) /\ Refs(low, {}) \subseteq Refs(low, F)
BY HeapAssumption DEF Refs, NULL, Addr, MEM_HIGH

LEMMA RefCases ==
  ASSUME NEW low \in Addr, NEW F, NEW p \in Refs(low, F)
  PROVE  p = NULL \/ p \in 0 .. low - 1 \/ p \in F
BY HeapAssumption DEF Refs, NULL, Addr, MEM_HIGH

(* M2 is M but for the cell a, which keeps what its kind asks for. *)
MayWrite(M, M2, R, K, low, F, rd, a) ==
  /\ \A x \in Addr : x # a => M2[x] = M[x]
  /\ Sound(M2[a], Refs(low, F))
  /\ K[a] \notin {"plain", "tail", "item"} => M2[a].op = M[a].op /\ M2[a].next = M[a].next
  /\ K[a] = "header" => Depth(rd) # 0 /\ (rd[Depth(rd)] = "end" => TailAt(K, F, M2[a].u))
  /\ K[a] = "end" => TailAt(K, F, M2[a].u)
  /\ K[a] = "dump3" => ItemAt(K, F, M2[a].u)
  /\ K[a] = "dump2" => R["dump3"] # NULL /\ ItemAt(K, F, M[R["dump3"]].u)

LEMMA WriteCell ==
  ASSUME NEW low \in Addr, NEW F, NEW M, NEW M2, NEW R, NEW K, NEW L, NEW rd,
         Above(low, F), Shape(M, R, K, L, low, F, rd), NEW a \in F,
         MayWrite(M, M2, R, K, low, F, rd, a)
  PROVE  Shape(M2, R, K, L, low, F, rd)
<1> USE DEF MayWrite
<1>1. F \subseteq Addr /\ \A x \in F : x >= low /\ x # NULL
  BY DEF Above, NULL, Addr
<1>2. Closure(M2, low, F)
  <2>1. ASSUME NEW x \in 0 .. low - 1 PROVE Sound(M2[x], Refs(low, {}))
    <3>1. x \in Addr /\ x # a
      BY <1>1, Below DEF Addr
    <3> QED
      BY <3>1 DEF Shape, Closure
  <2>2. ASSUME NEW x \in F PROVE Sound(M2[x], Refs(low, F))
    BY <1>1 DEF Shape, Closure
  <2> QED
    BY <2>1, <2>2 DEF Closure
<1>3. \A x \in F : K[x] \notin {"plain", "tail", "item"} => M2[x].op = M[x].op /\ M2[x].next = M[x].next
  BY <1>1
<1>4. Chains(M2, R, K, F)
  BY <1>3 DEF Shape, Chains
<1>5. Terms(M2, R, K, L, F, rd)
  <2>1. \A x \in F : K[x] = "header" => M2[x].op = "LIST_"
    BY <1>3 DEF Shape, Terms
  <2>2. \A x \in F : K[x] = "header" /\ L[x] \in 2 .. Depth(rd) => HeaderAt(K, L, F, M2[x].next, L[x] - 1)
    BY <1>3 DEF Shape, Terms
  <2>3. \A x \in F : K[x] = "end" => M2[x].op = "LIST_"
    BY <1>3 DEF Shape, Terms
  <2>4. ASSUME NEW j \in 1 .. Depth(rd), rd[j] = "more", NEW x \in F, K[x] = "end", L[x] = j
        PROVE  TailAt(K, F, M2[x].u) /\ OnEnds(K, L, F, rd, j - 1, M2[x].next)
    <3>1. TailAt(K, F, M[x].u) /\ OnEnds(K, L, F, rd, j - 1, M[x].next)
      BY <2>4 DEF Shape, Terms
    <3>2. M2[x].next = M[x].next
      BY <1>3, <2>4
    <3>3. TailAt(K, F, M2[x].u)
      BY <1>1, <2>4, <3>1
    <3> QED
      BY <3>1, <3>2, <3>3
  <2>5. ASSUME Depth(rd) # 0, rd[Depth(rd)] = "end" PROVE TailAt(K, F, M2[R["stk"]].u)
    <3>1. TailAt(K, F, M[R["stk"]].u) /\ R["stk"] \in F /\ K[R["stk"]] = "header"
      BY <2>5 DEF Shape, Terms, HeaderAt
    <3> QED
      BY <1>1, <2>5, <3>1
  <2> QED
    BY <2>1, <2>2, <2>3, <2>4, <2>5 DEF Shape, Terms
<1>6. Maps(M2, R, K, F)
  <2>1. ASSUME R["dump2"] # NULL
        PROVE  /\ M2[R["dump2"]].op = "LIST_" /\ M2[R["dump2"]].next = NULL
               /\ R["dump3"] = NULL => M2[R["dump2"]].u = NULL
    BY <1>1, <1>3, <2>1 DEF Shape, Maps
  <2>2. ASSUME R["dump3"] # NULL
        PROVE  /\ M2[R["dump3"]].op = "LIST_" /\ M2[R["dump3"]].next = NULL
               /\ M2[R["dump2"]].u # NULL => ItemAt(K, F, M2[R["dump3"]].u)
    <3>1. /\ R["dump3"] \in F /\ K[R["dump3"]] = "dump3"
          /\ M[R["dump3"]].op = "LIST_" /\ M[R["dump3"]].next = NULL
          /\ M[R["dump2"]].u # NULL => ItemAt(K, F, M[R["dump3"]].u)
          /\ R["dump2"] \in F /\ K[R["dump2"]] = "dump2"
      BY <2>2 DEF Shape, Maps
    <3>2. CASE a = R["dump3"]
      BY <1>3, <3>1, <3>2
    <3>3. CASE a # R["dump3"]
      <4>1. M2[R["dump3"]] = M[R["dump3"]]
        BY <1>1, <3>1, <3>3
      <4>2. a # R["dump2"] => M2[R["dump2"]] = M[R["dump2"]]
        BY <1>1, <3>1
      <4> QED
        BY <3>1, <4>1, <4>2
    <3> QED
      BY <3>2, <3>3
  <2> QED
    BY <2>1, <2>2 DEF Shape, Maps
<1> QED
  BY <1>2, <1>4, <1>5, <1>6 DEF Shape

(* newnode takes a cell that nothing points to. *)
LEMMA AddCell ==
  ASSUME NEW low \in Addr, NEW F, NEW M, NEW M2, NEW R, NEW K, NEW L, NEW rd,
         Above(low, F), Shape(M, R, K, L, low, F, rd),
         NEW s \in Addr, s >= low, s \notin F,
         \A x \in Addr : x # s => M2[x] = M[x],
         Sound(M2[s], Refs(low, F))
  PROVE  Shape(M2, R, [K EXCEPT ![s] = "plain"], L, low, F \cup {s}, rd)
<1> DEFINE K2 == [K EXCEPT ![s] = "plain"]  G == F \cup {s}
<1>1. /\ F \subseteq Addr /\ K2 \in [Addr -> Kind] /\ K2[s] = "plain"
      /\ \A x \in F : x # s /\ K2[x] = K[x] /\ M2[x] = M[x]
  BY DEF Above, Shape, Kind
<1>2. Refs(low, F) \subseteq Refs(low, G)
  BY DEF Refs
<1>3. Closure(M2, low, G)
  <2>1. ASSUME NEW x \in 0 .. low - 1 PROVE Sound(M2[x], Refs(low, {}))
    <3>1. x \in Addr /\ x # s
      BY Below DEF Addr
    <3> QED
      BY <3>1 DEF Shape, Closure
  <2>2. ASSUME NEW x \in G PROVE Sound(M2[x], Refs(low, G))
    <3>1. Sound(M2[x], Refs(low, F))
      BY <1>1 DEF Shape, Closure
    <3> QED
      BY <1>2, <3>1 DEF Sound
  <2> QED
    BY <2>1, <2>2 DEF Closure
<1>4. Reaches(R, low, G, rd)
  BY <1>2 DEF Shape, Reaches
<1>5. /\ \A p : TailAt(K, F, p) => TailAt(K2, G, p)
      /\ \A p : ItemAt(K, F, p) => ItemAt(K2, G, p)
      /\ \A p : OnDump(K, F, p) => OnDump(K2, G, p)
      /\ \A p, j : HeaderAt(K, L, F, p, j) => HeaderAt(K2, L, G, p, j)
      /\ \A p, j : EndAt(K, L, F, p, j) => EndAt(K2, L, G, p, j)
  BY <1>1 DEF TailAt, ItemAt, OnDump, HeaderAt, EndAt
<1>6. \A i, p : OnEnds(K, L, F, rd, i, p) => OnEnds(K2, L, G, rd, i, p)
  BY <1>5 DEF OnEnds
<1>7. \A x \in G : K2[x] # "plain" => x \in F /\ K[x] = K2[x] /\ M2[x] = M[x]
  BY <1>1
<1> HIDE DEF K2, G
<1>8. Chains(M2, R, K2, G)
  <2>1. F \subseteq G /\ \A x \in F : K2[x] = K[x]
    BY <1>1 DEF G
  <2> QED
    BY <1>5, <1>7, <2>1 DEF Shape, Chains
<1>9. Terms(M2, R, K2, L, G, rd)
  <2>1. Depth(rd) # 0 => HeaderAt(K2, L, G, R["stk"], Depth(rd))
    BY <1>5 DEF Shape, Terms
  <2>2. \A x \in G : K2[x] = "header" => M2[x].op = "LIST_"
    BY <1>7 DEF Shape, Terms
  <2>3. \A x \in G : K2[x] = "header" /\ L[x] \in 2 .. Depth(rd) => HeaderAt(K2, L, G, M2[x].next, L[x] - 1)
    BY <1>5, <1>7 DEF Shape, Terms
  <2>4. OnEnds(K2, L, G, rd, Depth(rd), R["dump"])
    BY <1>6 DEF Shape, Terms
  <2>5. \A x \in G : K2[x] = "end" => M2[x].op = "LIST_"
    BY <1>7 DEF Shape, Terms
  <2>6. ASSUME NEW j \in 1 .. Depth(rd), rd[j] = "more", NEW x \in G, K2[x] = "end", L[x] = j
        PROVE  TailAt(K2, G, M2[x].u) /\ OnEnds(K2, L, G, rd, j - 1, M2[x].next)
    <3>1. x \in F /\ K[x] = "end" /\ M2[x] = M[x]
      BY <1>7, <2>6
    <3>2. TailAt(K, F, M[x].u) /\ OnEnds(K, L, F, rd, j - 1, M[x].next)
      BY <2>6, <3>1 DEF Shape, Terms
    <3> QED
      BY <1>5, <1>6, <3>1, <3>2
  <2>7. ASSUME Depth(rd) # 0, rd[Depth(rd)] = "end" PROVE TailAt(K2, G, M2[R["stk"]].u)
    <3>1. TailAt(K, F, M[R["stk"]].u) /\ R["stk"] \in F
      BY <2>7 DEF Shape, Terms, HeaderAt
    <3> QED
      BY <1>1, <1>5, <3>1
  <2> QED
    BY <2>1, <2>2, <2>3, <2>4, <2>5, <2>6, <2>7 DEF Terms
<1>10. Maps(M2, R, K2, G)
  <2>1. \A x \in F : x \in G /\ K2[x] = K[x] /\ M2[x] = M[x]
    BY <1>1 DEF G
  <2> QED
    BY <1>5, <2>1 DEF Shape, Maps
<1> QED
  BY <1>1, <1>3, <1>4, <1>8, <1>9, <1>10 DEF Shape, K2, G

LEMMA Rekind ==
  ASSUME NEW low \in Addr, NEW F, NEW M, NEW R, NEW K, NEW L, NEW rd,
         Above(low, F), Shape(M, R, K, L, low, F, rd), NEW s \in F, K[s] = "plain",
         NEW k \in {"conts", "dump", "dump2", "dump3", "tail", "item"},
         k \in {"conts", "dump"} => M[s].op = "LIST_",
         k = "conts" /\ M[s].next # NULL => M[s].next \in F /\ K[M[s].next] = "conts",
         k = "dump" => OnDump(K, F, M[s].next)
  PROVE  Shape(M, R, [K EXCEPT ![s] = k], L, low, F, rd)
<1> DEFINE K2 == [K EXCEPT ![s] = k]
<1>1. /\ F \subseteq Addr /\ K2 \in [Addr -> Kind] /\ K2[s] = k
      /\ \A x \in F : x # s => K2[x] = K[x]
  BY DEF Above, Shape, Kind
<1>2. /\ \A p : TailAt(K, F, p) => TailAt(K2, F, p)
      /\ \A p : ItemAt(K, F, p) => ItemAt(K2, F, p)
      /\ \A p : OnDump(K, F, p) => OnDump(K2, F, p)
      /\ \A p, j : HeaderAt(K, L, F, p, j) => HeaderAt(K2, L, F, p, j)
      /\ \A p, j : EndAt(K, L, F, p, j) => EndAt(K2, L, F, p, j)
  BY <1>1 DEF TailAt, ItemAt, OnDump, HeaderAt, EndAt
<1>3. \A i, p : OnEnds(K, L, F, rd, i, p) => OnEnds(K2, L, F, rd, i, p)
  BY <1>2 DEF OnEnds
<1>4. \A x \in F : K2[x] \in {"header", "end"} => K[x] = K2[x]
  BY <1>1
<1> HIDE DEF K2
<1>5. Chains(M, R, K2, F)
  <2>1. \A x \in F : x # s => K2[x] = K[x]
    BY <1>1
  <2>2. \A p \in F : K[p] # "plain" => K2[p] = K[p]
    BY <1>1
  <2>3. R["conts"] # NULL => R["conts"] \in F /\ K2[R["conts"]] = "conts"
    BY <2>2 DEF Shape, Chains
  <2>4. ASSUME NEW a \in F, K2[a] = "conts"
        PROVE  M[a].op = "LIST_" /\ (M[a].next # NULL => M[a].next \in F /\ K2[M[a].next] = "conts")
    <3>1. CASE a = s
      BY <1>1, <2>2, <2>4, <3>1
    <3>2. CASE a # s
      BY <2>1, <2>2, <2>4, <3>2 DEF Shape, Chains
    <3> QED
      BY <3>1, <3>2
  <2>5. ASSUME NEW a \in F, K2[a] = "dump" PROVE M[a].op = "LIST_" /\ OnDump(K2, F, M[a].next)
    <3>1. CASE a = s
      BY <1>1, <1>2, <2>5, <3>1
    <3>2. CASE a # s
      BY <1>2, <2>1, <2>5, <3>2 DEF Shape, Chains
    <3> QED
      BY <3>1, <3>2
  <2> QED
    BY <2>3, <2>4, <2>5 DEF Chains
<1>6. Terms(M, R, K2, L, F, rd)
  <2>1. \A j \in 1 .. Depth(rd) : rd[j] = "more" => \A a \in F : K2[a] = "end" /\ L[a] = j =>
          TailAt(K2, F, M[a].u) /\ OnEnds(K2, L, F, rd, j - 1, M[a].next)
    BY <1>2, <1>3, <1>4 DEF Shape, Terms
  <2> QED
    BY <1>2, <1>3, <1>4, <2>1 DEF Shape, Terms
<1>7. Maps(M, R, K2, F)
  BY <1>1, <1>2 DEF Shape, Maps
<1> QED
  BY <1>1, <1>5, <1>6, <1>7 DEF Shape, K2

(* Between terms the registers may be set to whatever has the right kind.  *)
LEMMA SetRegisters ==
  ASSUME NEW low \in Addr, NEW F, NEW M, NEW R, NEW R2, NEW K, NEW L, NEW rd, NEW rd2,
         Shape(M, R, K, L, low, F, rd), Depth(rd2) = 0,
         Reaches(R2, low, F, rd2),
         R2["conts"] # NULL => R2["conts"] \in F /\ K[R2["conts"]] = "conts",
         OnDump(K, F, R2["dump"]),
         Maps(M, R2, K, F)
  PROVE  Shape(M, R2, K, L, low, F, rd2)
<1>1. Chains(M, R2, K, F)
  BY DEF Shape, Chains
<1>2. OnEnds(K, L, F, rd2, 0, R2["dump"])
  BY DEF OnEnds, NoEnd
<1>3. Terms(M, R2, K, L, F, rd2)
  BY <1>2 DEF Shape, Terms
<1> QED
  BY <1>1, <1>3 DEF Shape

LEMMA SetMap ==
  ASSUME NEW low \in Addr, NEW F, NEW M, NEW R, NEW R2, NEW K, NEW L, NEW rd,
         Shape(M, R, K, L, low, F, rd),
         \A x \in Roots \ {"dump2", "dump3"} : R2[x] = R[x],
         R2["dump2"] \in Refs(low, F), R2["dump3"] \in Refs(low, F),
         Maps(M, R2, K, F)
  PROVE  Shape(M, R2, K, L, low, F, rd)
<1>1. R2["stk"] = R["stk"] /\ R2["dump"] = R["dump"] /\ R2["conts"] = R["conts"] /\ R2["prog"] = R["prog"]
  BY DEF Roots
<1>2. Reaches(R2, low, F, rd)
  BY <1>1 DEF Shape, Reaches
<1>3. Chains(M, R2, K, F) /\ Terms(M, R2, K, L, F, rd)
  BY <1>1 DEF Shape, Chains, Terms
<1> QED
  BY <1>2, <1>3 DEF Shape

(* Nothing given out: what memory held before does not matter. *)
LEMMA Fresh ==
  ASSUME NEW low \in Addr, NEW M, NEW R, NEW K \in [Addr -> Kind], NEW L \in [Addr -> Int],
         Closure(M, low, {}),
         \A x \in Roots \ {"prog"} : R[x] \in Refs(low, {}),
         \A x \in {"conts", "dump", "dump2", "dump3"} : R[x] = NULL
  PROVE  Shape(M, R, K, L, low, {}, <<>>)
<1>1. Depth(<<>>) = 0
  BY DEF Depth
<1>2. <<>> # <<"run">>
  OBVIOUS
<1>3. Reaches(R, low, {}, <<>>)
  BY <1>2 DEF Reaches
<1>4. Chains(M, R, K, {}) /\ Maps(M, R, K, {})
  BY DEF Chains, Maps
<1>5. OnEnds(K, L, {}, <<>>, 0, R["dump"])
  BY DEF OnEnds, NoEnd, OnDump
<1>6. Terms(M, R, K, L, {}, <<>>)
  BY <1>1, <1>5 DEF Terms
<1> QED
  BY <1>3, <1>4, <1>6 DEF Shape

-----------------------------------------------------------------------------
(* The terms being read. *)
Phases == {"first", "end", "more"}

LEMMA DepthIsLen ==
  ASSUME NEW rd \in Seq(Phases)
  PROVE  Depth(rd) = Len(rd) /\ Len(rd) \in Nat /\ rd # <<"run">>
<1>1. rd # <<"run">>
  <2> SUFFICES ASSUME rd = <<"run">> PROVE FALSE
    OBVIOUS
  <2>1. 1 \in 1 .. Len(rd) /\ rd[1] = "run"
    OBVIOUS
  <2>2. rd[1] \in Phases
    BY <2>1
  <2> QED
    BY <2>1, <2>2 DEF Phases
<1> QED
  BY <1>1 DEF Depth

LEMMA EndsSame ==
  ASSUME NEW K, NEW L, NEW F, NEW p, NEW i \in Nat, NEW rd, NEW rd2,
         \A m \in 1 .. i : rd2[m] = "more" <=> rd[m] = "more",
         OnEnds(K, L, F, rd, i, p)
  PROVE  OnEnds(K, L, F, rd2, i, p)
BY DEF OnEnds, NoEnd

LEMMA EndsSkip ==
  ASSUME NEW K, NEW L, NEW F, NEW p, NEW i \in Nat \ {0}, NEW rd, rd[i] # "more"
  PROVE  OnEnds(K, L, F, rd, i, p) <=> OnEnds(K, L, F, rd, i - 1, p)
BY DEF OnEnds, NoEnd

LEMMA EndsTop ==
  ASSUME NEW K, NEW L, NEW F, NEW p, NEW i \in Nat \ {0}, NEW rd, rd[i] = "more"
  PROVE  OnEnds(K, L, F, rd, i, p) <=> EndAt(K, L, F, p, i)
<1>1. ~NoEnd(rd, 1, i) /\ \A j \in 1 .. i - 1 : ~NoEnd(rd, j + 1, i)
  BY DEF NoEnd
<1>2. NoEnd(rd, i + 1, i)
  BY DEF NoEnd
<1>3. i \in 1 .. i /\ \A j \in 1 .. i : j = i \/ j \in 1 .. i - 1
  OBVIOUS
<1> QED
  BY <1>1, <1>2, <1>3 DEF OnEnds

(* No dump is added. *)
Tame(K, K2) == \A a \in Addr : K2[a] = "dump" => K[a] = "dump"

(* s becomes the header or the end of level n; an old one is forgotten. *)
OpenedAs(K, K2, L, L2, F, s, k, n) ==
  /\ K2[s] = k /\ L2[s] = n
  /\ \A x \in F \ {s} : L2[x] = L[x] /\ (K2[x] = K[x] \/ (K2[x] = "plain" /\ K[x] = k))
  /\ \A x \in F \ {s} : K2[x] = k => L[x] # n

LEMMA OpenTerm ==
  ASSUME NEW low \in Addr, NEW F, NEW M, NEW R, NEW R2, NEW K, NEW L, NEW rd \in Seq(Phases),
         Above(low, F), Shape(M, R, K, L, low, F, rd), NEW s \in F, K[s] = "plain",
         M[s].op = "LIST_",
         Len(rd) # 0 => HeaderAt(K, L, F, M[s].next, Len(rd)),
         \A x \in Roots \ {"stk"} : R2[x] = R[x], R2["stk"] = s
  PROVE  \E K2, L2 : /\ Shape(M, R2, K2, L2, low, F, Append(rd, "first")) /\ Tame(K, K2)
                     /\ OpenedAs(K, K2, L, L2, F, s, "header", Len(rd) + 1)
<1> DEFINE n   == Len(rd)
           rd2 == Append(rd, "first")
           K2  == [x \in Addr |-> IF x = s THEN "header"
                     ELSE IF K[x] = "header" /\ L[x] = n + 1 THEN "plain" ELSE K[x]]
           L2  == [L EXCEPT ![s] = n + 1]
<1>1. /\ n \in Nat /\ Depth(rd) = n /\ Depth(rd2) = n + 1 /\ rd2 # <<"run">>
      /\ \A m \in 1 .. n : rd2[m] = rd[m]
      /\ rd2[n + 1] = "first"
  <2>1. rd2 \in Seq(Phases) /\ Len(rd2) = n + 1
    BY DEF Phases
  <2>2. /\ n \in Nat /\ \A m \in 1 .. n : rd2[m] = rd[m]
        /\ rd2[n + 1] = "first"
    OBVIOUS
  <2>3. Depth(rd) = n /\ Depth(rd2) = Len(rd2) /\ rd2 # <<"run">>
    BY <2>1, DepthIsLen
  <2> QED
    BY <2>1, <2>2, <2>3
<1>2. /\ F \subseteq Addr /\ K \in [Addr -> Kind] /\ L \in [Addr -> Int]
      /\ K2 \in [Addr -> Kind] /\ L2 \in [Addr -> Int] /\ K2[s] = "header" /\ L2[s] = n + 1
      /\ \A x \in F : x # s => L2[x] = L[x]
      /\ \A x \in F : K2[x] \in {"header", "end"} /\ x # s => K2[x] = K[x]
      /\ \A x \in F : K2[x] = "header" /\ L2[x] = n + 1 => x = s
      /\ \A x \in Addr : K2[x] \notin {"header", "plain"} => K2[x] = K[x]
      /\ \A x \in F : K[x] \notin {"header", "plain"} => K2[x] = K[x] /\ x # s
      /\ \A x \in F : K[x] = "header" /\ L[x] # n + 1 => K2[x] = "header" /\ x # s
  BY <1>1 DEF Above, Shape, Kind
<1>o. \A x \in F \ {s} : K2[x] = K[x] \/ (K2[x] = "plain" /\ K[x] = "header")
  BY <1>2
<1> HIDE DEF n, K2, L2, rd2
<1>3. /\ \A p : TailAt(K, F, p) => TailAt(K2, F, p)
      /\ \A p : ItemAt(K, F, p) => ItemAt(K2, F, p)
      /\ \A p : OnDump(K, F, p) => OnDump(K2, F, p)
      /\ \A p, j : EndAt(K, L, F, p, j) => EndAt(K2, L2, F, p, j)
      /\ \A p : \A j \in 1 .. n : HeaderAt(K, L, F, p, j) => HeaderAt(K2, L2, F, p, j)
  <2>1. \A p \in F : K[p] \in {"tail", "item", "dump", "end"} => K2[p] = K[p] /\ L2[p] = L[p]
    BY <1>2
  <2>2. /\ \A p : TailAt(K, F, p) => TailAt(K2, F, p)
        /\ \A p : ItemAt(K, F, p) => ItemAt(K2, F, p)
        /\ \A p : OnDump(K, F, p) => OnDump(K2, F, p)
        /\ \A p, j : EndAt(K, L, F, p, j) => EndAt(K2, L2, F, p, j)
    BY <2>1 DEF TailAt, ItemAt, OnDump, EndAt
  <2>3. \A p \in F : K[p] = "header" /\ L[p] \in 1 .. n => K2[p] = "header" /\ L2[p] = L[p]
    BY <1>1, <1>2
  <2>4. \A p : \A j \in 1 .. n : HeaderAt(K, L, F, p, j) => HeaderAt(K2, L2, F, p, j)
    BY <2>3 DEF HeaderAt
  <2> QED
    BY <2>2, <2>4
<1>4. \A i, p : OnEnds(K, L, F, rd, i, p) => OnEnds(K2, L2, F, rd, i, p)
  BY <1>3 DEF OnEnds
<1>5. \A i \in 0 .. n : \A p : OnEnds(K, L, F, rd, i, p) => OnEnds(K2, L2, F, rd2, i, p)
  <2> SUFFICES ASSUME NEW i \in 0 .. n, NEW p, OnEnds(K, L, F, rd, i, p)
               PROVE  OnEnds(K2, L2, F, rd2, i, p)
    OBVIOUS
  <2>1. i \in Nat /\ \A m \in 1 .. i : rd2[m] = "more" <=> rd[m] = "more"
    BY <1>1
  <2> QED
    BY <1>4, <2>1, EndsSame
<1>6. R2["conts"] = R["conts"] /\ R2["dump"] = R["dump"] /\ R2["dump2"] = R["dump2"] /\ R2["dump3"] = R["dump3"]
  BY DEF Roots
<1>7. Reaches(R2, low, F, rd2)
  <2>1. s \in Refs(low, F)
    BY DEF Refs
  <2> QED
    BY <1>1, <2>1 DEF Shape, Reaches
<1>8. Chains(M, R2, K2, F)
  <2>1. \A x \in F : K2[x] \in {"conts", "dump"} <=> K[x] \in {"conts", "dump"}
    BY <1>2
  <2>2. \A x \in F : K2[x] \in {"conts", "dump"} => K[x] = K2[x]
    BY <1>2
  <2> QED
    BY <1>3, <1>6, <2>1, <2>2 DEF Shape, Chains
<1>9. Terms(M, R2, K2, L2, F, rd2)
  <2>1. HeaderAt(K2, L2, F, R2["stk"], n + 1)
    BY <1>2 DEF HeaderAt
  <2>2. \A x \in F : K2[x] = "header" => M[x].op = "LIST_"
    BY <1>2 DEF Shape, Terms
  <2>3. ASSUME NEW x \in F, K2[x] = "header", L2[x] \in 2 .. n + 1
        PROVE  HeaderAt(K2, L2, F, M[x].next, L2[x] - 1)
    <3>1. CASE x = s
      BY <1>1, <1>2, <1>3, <2>3, <3>1 DEF n
    <3>2. CASE x # s
      <4>1. K[x] = "header" /\ L2[x] = L[x] /\ L[x] \in 2 .. n /\ L[x] - 1 \in 1 .. n
        BY <1>1, <1>2, <2>3, <3>2
      <4>2. HeaderAt(K, L, F, M[x].next, L[x] - 1)
        BY <1>1, <4>1 DEF Shape, Terms
      <4> QED
        BY <1>3, <4>1, <4>2
    <3> QED
      BY <3>1, <3>2
  <2>4. OnEnds(K2, L2, F, rd2, n + 1, R2["dump"])
    <3>1. OnEnds(K2, L2, F, rd2, n, R2["dump"])
      BY <1>1, <1>5, <1>6 DEF Shape, Terms
    <3>2. n + 1 \in Nat \ {0} /\ rd2[n + 1] # "more" /\ (n + 1) - 1 = n
      BY <1>1
    <3> QED
      BY <3>1, <3>2, EndsSkip
  <2>5. \A x \in F : K2[x] = "end" => M[x].op = "LIST_"
    BY <1>2 DEF Shape, Terms
  <2>6. ASSUME NEW j \in 1 .. n + 1, rd2[j] = "more", NEW x \in F, K2[x] = "end", L2[x] = j
        PROVE  TailAt(K2, F, M[x].u) /\ OnEnds(K2, L2, F, rd2, j - 1, M[x].next)
    <3>1. j \in 1 .. n /\ rd[j] = "more" /\ j - 1 \in 0 .. n
      BY <1>1, <2>6
    <3>2. K[x] = "end" /\ L[x] = j
      BY <1>2, <2>6
    <3>3. TailAt(K, F, M[x].u) /\ OnEnds(K, L, F, rd, j - 1, M[x].next)
      BY <1>1, <3>1, <3>2 DEF Shape, Terms
    <3> QED
      BY <1>3, <1>5, <3>1, <3>3
  <2>7. rd2[n + 1] # "end"
    BY <1>1
  <2> QED
    BY <1>1, <2>1, <2>2, <2>3, <2>4, <2>5, <2>6, <2>7 DEF Terms
<1>10. Maps(M, R2, K2, F)
  BY <1>2, <1>3, <1>6 DEF Shape, Maps
<1>11. Shape(M, R2, K2, L2, low, F, rd2) /\ Tame(K, K2)
  BY <1>2, <1>7, <1>8, <1>9, <1>10 DEF Shape, Tame
<1>12. OpenedAs(K, K2, L, L2, F, s, "header", n + 1)
  BY <1>2, <1>o DEF OpenedAs
<1> QED
  BY <1>11, <1>12 DEF rd2, n

(* rd2 is rd but for the phase of the last term. *)
LastPhase(rd, rd2, x) ==
  /\ rd2 \in Seq(Phases) /\ Len(rd2) = Len(rd)
  /\ \A m \in 1 .. Len(rd) - 1 : rd2[m] = rd[m]
  /\ rd2[Len(rd)] = x

LEMMA OpenMore ==
  ASSUME NEW low \in Addr, NEW F, NEW M, NEW R, NEW R2, NEW K, NEW L, NEW rd \in Seq(Phases),
         NEW rd2, LastPhase(rd, rd2, "more"), Len(rd) # 0, rd[Len(rd)] = "end",
         Above(low, F), Shape(M, R, K, L, low, F, rd), NEW s \in F, K[s] = "plain",
         M[s].op = "LIST_", TailAt(K, F, M[s].u), OnEnds(K, L, F, rd, Len(rd), M[s].next),
         \A x \in Roots \ {"dump"} : R2[x] = R[x], R2["dump"] = s
  PROVE  \E K2, L2 : /\ Shape(M, R2, K2, L2, low, F, rd2) /\ Tame(K, K2)
                     /\ OpenedAs(K, K2, L, L2, F, s, "end", Len(rd))
<1> DEFINE n   == Len(rd)
           K2  == [x \in Addr |-> IF x = s THEN "end"
                     ELSE IF K[x] = "end" /\ L[x] = n THEN "plain" ELSE K[x]]
           L2  == [L EXCEPT ![s] = n]
<1>1. /\ n \in Nat \ {0} /\ Depth(rd) = n /\ Depth(rd2) = n /\ rd2 # <<"run">>
      /\ \A m \in 1 .. n - 1 : rd2[m] = rd[m]
      /\ rd2[n] = "more" /\ rd[n] = "end"
  <2>1. n \in Nat \ {0} /\ rd2 \in Seq(Phases) /\ Len(rd2) = n
    BY DEF LastPhase
  <2>2. Depth(rd) = n /\ Depth(rd2) = Len(rd2) /\ rd2 # <<"run">>
    BY <2>1, DepthIsLen
  <2> QED
    BY <2>1, <2>2 DEF LastPhase
<1>2. /\ F \subseteq Addr /\ K \in [Addr -> Kind] /\ L \in [Addr -> Int]
      /\ K2 \in [Addr -> Kind] /\ L2 \in [Addr -> Int] /\ K2[s] = "end" /\ L2[s] = n
      /\ \A x \in F : x # s => L2[x] = L[x]
      /\ \A x \in F : K2[x] \in {"header", "end"} /\ x # s => K2[x] = K[x]
      /\ \A x \in F : K2[x] = "end" /\ L2[x] = n => x = s
      /\ \A x \in Addr : K2[x] \notin {"end", "plain"} => K2[x] = K[x]
      /\ \A x \in F : K[x] \notin {"end", "plain"} => K2[x] = K[x] /\ x # s
      /\ \A x \in F : K[x] = "end" /\ L[x] # n => K2[x] = "end" /\ x # s
  BY <1>1 DEF Above, Shape, Kind
<1>o. \A x \in F \ {s} : K2[x] = K[x] \/ (K2[x] = "plain" /\ K[x] = "end")
  BY <1>2
<1> HIDE DEF n, K2, L2
<1>3. /\ \A p : TailAt(K, F, p) => TailAt(K2, F, p)
      /\ \A p : ItemAt(K, F, p) => ItemAt(K2, F, p)
      /\ \A p : OnDump(K, F, p) => OnDump(K2, F, p)
      /\ \A p, j : HeaderAt(K, L, F, p, j) => HeaderAt(K2, L2, F, p, j)
      /\ \A p : \A j \in 1 .. n - 1 : EndAt(K, L, F, p, j) => EndAt(K2, L2, F, p, j)
  <2>1. \A p \in F : K[p] \in {"tail", "item", "dump", "header"} => K2[p] = K[p] /\ L2[p] = L[p]
    BY <1>2
  <2>2. /\ \A p : TailAt(K, F, p) => TailAt(K2, F, p)
        /\ \A p : ItemAt(K, F, p) => ItemAt(K2, F, p)
        /\ \A p : OnDump(K, F, p) => OnDump(K2, F, p)
        /\ \A p, j : HeaderAt(K, L, F, p, j) => HeaderAt(K2, L2, F, p, j)
    BY <2>1 DEF TailAt, ItemAt, OnDump, HeaderAt
  <2>3. \A p \in F : K[p] = "end" /\ L[p] \in 1 .. n - 1 => K2[p] = "end" /\ L2[p] = L[p]
    BY <1>1, <1>2
  <2>4. \A p : \A j \in 1 .. n - 1 : EndAt(K, L, F, p, j) => EndAt(K2, L2, F, p, j)
    BY <2>3 DEF EndAt
  <2> QED
    BY <2>2, <2>4
<1>4. \A i \in 0 .. n - 1 : \A p : OnEnds(K, L, F, rd, i, p) => OnEnds(K2, L2, F, rd2, i, p)
  <2> SUFFICES ASSUME NEW i \in 0 .. n - 1, NEW p, OnEnds(K, L, F, rd, i, p)
               PROVE  OnEnds(K2, L2, F, rd2, i, p)
    OBVIOUS
  <2>1. i \in Nat /\ \A m \in 1 .. i : rd2[m] = "more" <=> rd[m] = "more"
    BY <1>1
  <2>2. \A j \in 1 .. i : j \in 1 .. n - 1
    BY <1>1
  <2>3. OnEnds(K2, L2, F, rd, i, p)
    BY <1>3, <2>2 DEF OnEnds
  <2> QED
    BY <2>1, <2>3, EndsSame
<1>5. /\ R2["conts"] = R["conts"] /\ R2["stk"] = R["stk"]
      /\ R2["dump2"] = R["dump2"] /\ R2["dump3"] = R["dump3"]
  BY DEF Roots
<1>6. Reaches(R2, low, F, rd2)
  <2>1. s \in Refs(low, F)
    BY DEF Refs
  <2> QED
    BY <1>1, <2>1 DEF Shape, Reaches
<1>7. Chains(M, R2, K2, F)
  <2>1. \A x \in F : K2[x] \in {"conts", "dump"} <=> K[x] \in {"conts", "dump"}
    BY <1>2
  <2>2. \A x \in F : K2[x] \in {"conts", "dump"} => K[x] = K2[x]
    BY <1>2
  <2> QED
    BY <1>3, <1>5, <2>1, <2>2 DEF Shape, Chains
<1>8. Terms(M, R2, K2, L2, F, rd2)
  <2>1. HeaderAt(K2, L2, F, R2["stk"], n)
    BY <1>1, <1>3, <1>5 DEF Shape, Terms
  <2>2. \A x \in F : K2[x] = "header" => K[x] = "header" /\ L2[x] = L[x] /\ M[x].op = "LIST_"
    BY <1>2 DEF Shape, Terms
  <2>3. \A x \in F : K2[x] = "header" /\ L2[x] \in 2 .. n => HeaderAt(K2, L2, F, M[x].next, L2[x] - 1)
    BY <1>1, <1>3, <2>2 DEF Shape, Terms
  <2>4. OnEnds(K2, L2, F, rd2, n, R2["dump"])
    <3>1. EndAt(K2, L2, F, R2["dump"], n)
      BY <1>2 DEF EndAt
    <3> QED
      BY <1>1, <3>1, EndsTop
  <2>5. \A x \in F : K2[x] = "end" => M[x].op = "LIST_"
    BY <1>2 DEF Shape, Terms
  <2>6. ASSUME NEW j \in 1 .. n, rd2[j] = "more", NEW x \in F, K2[x] = "end", L2[x] = j
        PROVE  TailAt(K2, F, M[x].u) /\ OnEnds(K2, L2, F, rd2, j - 1, M[x].next)
    <3>1. CASE j = n
      <4>1. x = s
        BY <1>2, <2>6, <3>1
      <4>2. OnEnds(K, L, F, rd, n - 1, M[s].next)
        BY <1>1, EndsSkip DEF n
      <4>3. n - 1 \in 0 .. n - 1
        BY <1>1
      <4>4. OnEnds(K2, L2, F, rd2, n - 1, M[s].next)
        BY <1>4, <4>2, <4>3
      <4> QED
        BY <1>3, <3>1, <4>1, <4>4
    <3>2. CASE j # n
      <4>1. j \in 1 .. n - 1 /\ rd[j] = "more" /\ j - 1 \in 0 .. n - 1
        BY <1>1, <2>6, <3>2
      <4>2. K[x] = "end" /\ L[x] = j
        BY <1>2, <2>6, <3>2
      <4>3. TailAt(K, F, M[x].u) /\ OnEnds(K, L, F, rd, j - 1, M[x].next)
        BY <1>1, <4>1, <4>2 DEF Shape, Terms
      <4> QED
        BY <1>3, <1>4, <4>1, <4>3
    <3> QED
      BY <3>1, <3>2
  <2> QED
    BY <1>1, <2>1, <2>2, <2>3, <2>4, <2>5, <2>6 DEF Terms
<1>9. Maps(M, R2, K2, F)
  BY <1>2, <1>3, <1>5 DEF Shape, Maps
<1>10. Shape(M, R2, K2, L2, low, F, rd2) /\ Tame(K, K2)
  BY <1>2, <1>6, <1>7, <1>8, <1>9 DEF Shape, Tame
<1>11. OpenedAs(K, K2, L, L2, F, s, "end", n)
  BY <1>2, <1>o DEF OpenedAs
<1> QED
  BY <1>10, <1>11 DEF n

Closes(M, R, R2, K, L, low, F, rd, rd2) ==
  /\ low \in Addr /\ rd \in Seq(Phases) /\ rd2 \in Seq(Phases)
  /\ Len(rd) # 0 /\ rd[Len(rd)] # "end"
  /\ Len(rd2) = Len(rd) - 1 /\ \A m \in 1 .. Len(rd) - 1 : rd2[m] = rd[m] /\ rd[m] # "end"
  /\ Above(low, F) /\ Shape(M, R, K, L, low, F, rd)
  /\ \A x \in Roots \ {"stk", "dump"} : R2[x] = R[x]
  /\ R2["stk"] = M[R["stk"]].next
  /\ R2["dump"] = IF rd[Len(rd)] = "more" THEN M[R["dump"]].next ELSE R["dump"]

LEMMA CloseTerm ==
  ASSUME NEW low, NEW F, NEW M, NEW R, NEW R2, NEW K, NEW L, NEW rd, NEW rd2,
         Closes(M, R, R2, K, L, low, F, rd, rd2)
  PROVE  /\ HeaderAt(K, L, F, R["stk"], Len(rd)) /\ M[R["stk"]].op = "LIST_"
         /\ Shape(M, R2, [K EXCEPT ![R["stk"]] = "tail"], L, low, F, rd2)
<1> DEFINE n  == Len(rd)
           s  == R["stk"]
           K2 == [K EXCEPT ![s] = "tail"]
<1>a. /\ low \in Addr /\ rd \in Seq(Phases) /\ rd2 \in Seq(Phases)
      /\ Len(rd) # 0 /\ rd[n] # "end"
      /\ Len(rd2) = n - 1 /\ \A m \in 1 .. n - 1 : rd2[m] = rd[m] /\ rd[m] # "end"
  BY DEF Closes
<1>b. Above(low, F) /\ Shape(M, R, K, L, low, F, rd)
  BY DEF Closes
<1>c. /\ \A x \in Roots \ {"stk", "dump"} : R2[x] = R[x]
      /\ R2["stk"] = M[s].next
      /\ R2["dump"] = IF rd[n] = "more" THEN M[R["dump"]].next ELSE R["dump"]
  BY DEF Closes
<1>1. /\ n \in Nat \ {0} /\ Depth(rd) = n /\ Depth(rd2) = n - 1
      /\ rd2 # <<"run">> /\ rd[n] \in {"first", "more"}
      /\ n - 1 # 0 => rd2[n - 1] # "end"
  <2>1. n \in Nat \ {0} /\ rd[n] \in Phases
    BY <1>a
  <2>2. Depth(rd) = n /\ Depth(rd2) = Len(rd2) /\ rd2 # <<"run">>
    BY <1>a, DepthIsLen
  <2>3. n - 1 # 0 => n - 1 \in 1 .. n - 1
    BY <1>a, <2>1
  <2> QED
    BY <1>a, <2>1, <2>2, <2>3 DEF Phases
<1>2. HeaderAt(K, L, F, s, n) /\ M[s].op = "LIST_"
  BY <1>b, <1>1 DEF Shape, Terms, HeaderAt
<1>3. /\ F \subseteq Addr /\ K \in [Addr -> Kind] /\ L \in [Addr -> Int]
      /\ s \in F /\ K[s] = "header" /\ L[s] = n /\ K2 \in [Addr -> Kind] /\ K2[s] = "tail"
      /\ \A x \in Addr : x # s => K2[x] = K[x]
  BY <1>b, <1>2 DEF Above, Shape, Kind, HeaderAt
<1> HIDE DEF K2, s, n
<1>4. /\ \A p : TailAt(K, F, p) => TailAt(K2, F, p)
      /\ \A p : ItemAt(K, F, p) => ItemAt(K2, F, p)
      /\ \A p : OnDump(K, F, p) => OnDump(K2, F, p)
      /\ \A p, j : EndAt(K, L, F, p, j) => EndAt(K2, L, F, p, j)
      /\ \A p : \A j \in 1 .. n - 1 : HeaderAt(K, L, F, p, j) => HeaderAt(K2, L, F, p, j)
  <2>1. \A p \in F : K[p] # "header" => K2[p] = K[p]
    BY <1>3
  <2>2. /\ \A p : TailAt(K, F, p) => TailAt(K2, F, p)
        /\ \A p : ItemAt(K, F, p) => ItemAt(K2, F, p)
        /\ \A p : OnDump(K, F, p) => OnDump(K2, F, p)
        /\ \A p, j : EndAt(K, L, F, p, j) => EndAt(K2, L, F, p, j)
    BY <2>1 DEF TailAt, ItemAt, OnDump, EndAt
  <2>3. \A p \in F : L[p] \in 1 .. n - 1 => K2[p] = K[p]
    BY <1>1, <1>3
  <2>4. \A p : \A j \in 1 .. n - 1 : HeaderAt(K, L, F, p, j) => HeaderAt(K2, L, F, p, j)
    BY <2>3 DEF HeaderAt
  <2> QED
    BY <2>2, <2>4
<1>5. \A i \in 0 .. n - 1 : \A p : OnEnds(K, L, F, rd, i, p) => OnEnds(K2, L, F, rd2, i, p)
  <2> SUFFICES ASSUME NEW i \in 0 .. n - 1, NEW p, OnEnds(K, L, F, rd, i, p)
               PROVE  OnEnds(K2, L, F, rd2, i, p)
    OBVIOUS
  <2>1. i \in Nat /\ \A m \in 1 .. i : rd2[m] = "more" <=> rd[m] = "more"
    BY <1>a, <1>1
  <2>2. OnEnds(K2, L, F, rd, i, p)
    BY <1>4 DEF OnEnds
  <2> QED
    BY <2>1, <2>2, EndsSame
<1>6. /\ R2["conts"] = R["conts"] /\ R2["dump2"] = R["dump2"] /\ R2["dump3"] = R["dump3"]
  BY <1>c DEF Roots
<1>7. OnEnds(K, L, F, rd, n - 1, R2["dump"])
  <2>1. OnEnds(K, L, F, rd, n, R["dump"])
    BY <1>b, <1>1 DEF Shape, Terms
  <2>2. CASE rd[n] = "more"
    <3>1. EndAt(K, L, F, R["dump"], n)
      BY <1>a, <1>1, <2>1, <2>2, EndsTop
    <3>2. n \in 1 .. n
      BY <1>1
    <3> QED
      BY <1>b, <1>c, <1>1, <2>2, <3>1, <3>2 DEF Shape, Terms, EndAt
  <2>3. CASE rd[n] # "more"
    BY <1>a, <1>c, <1>1, <2>1, <2>3, EndsSkip
  <2> QED
    BY <2>2, <2>3
<1>8. Reaches(R2, low, F, rd2)
  <2>1. R2["stk"] \in Refs(low, F)
    BY <1>b, <1>c, <1>3 DEF Shape, Closure, Sound
  <2>2. R2["dump"] \in Refs(low, F)
    BY <1>a, <1>b, <1>7 DEF OnEnds, OnDump, EndAt, Refs, NULL, Addr
  <2>3. \A x \in Roots \ {"stk", "dump"} : x # "prog" => R2[x] \in Refs(low, F)
    BY <1>b, <1>c DEF Shape, Reaches
  <2> QED
    BY <1>1, <2>1, <2>2, <2>3 DEF Reaches
<1>9. Chains(M, R2, K2, F)
  <2>1. \A x \in F : K2[x] \in {"conts", "dump"} => K[x] = K2[x]
    BY <1>3
  <2>2. \A x \in F : K[x] = "conts" => K2[x] = "conts"
    BY <1>3
  <2>3. Chains(M, R, K, F)
    BY <1>b DEF Shape
  <2>4. R2["conts"] # NULL => R2["conts"] \in F /\ K2[R2["conts"]] = "conts"
    BY <1>6, <2>2, <2>3 DEF Chains
  <2>5. \A x \in F : K2[x] = "conts" =>
          /\ M[x].op = "LIST_"
          /\ M[x].next # NULL => M[x].next \in F /\ K2[M[x].next] = "conts"
    BY <2>1, <2>2, <2>3 DEF Chains
  <2>6. \A x \in F : K2[x] = "dump" => M[x].op = "LIST_" /\ OnDump(K2, F, M[x].next)
    BY <1>4, <2>1, <2>3 DEF Chains
  <2> QED
    BY <2>4, <2>5, <2>6 DEF Chains
<1>10. Terms(M, R2, K2, L, F, rd2)
  <2>1. n - 1 # 0 => HeaderAt(K2, L, F, R2["stk"], n - 1)
    <3> SUFFICES ASSUME n - 1 # 0 PROVE HeaderAt(K2, L, F, R2["stk"], n - 1)
      OBVIOUS
    <3>1. n \in 2 .. n /\ n - 1 \in 1 .. n - 1
      BY <1>1
    <3>2. HeaderAt(K, L, F, M[s].next, n - 1)
      BY <1>b, <1>1, <1>3, <3>1 DEF Shape, Terms
    <3> QED
      BY <1>c, <1>4, <3>1, <3>2
  <2>2. \A x \in F : K2[x] = "header" => K[x] = "header" /\ M[x].op = "LIST_"
    BY <1>b, <1>3 DEF Shape, Terms
  <2>3. ASSUME NEW x \in F, K2[x] = "header", L[x] \in 2 .. n - 1
        PROVE  HeaderAt(K2, L, F, M[x].next, L[x] - 1)
    <3>1. L[x] \in 2 .. n /\ L[x] - 1 \in 1 .. n - 1
      BY <1>1, <2>3
    <3>2. HeaderAt(K, L, F, M[x].next, L[x] - 1)
      BY <1>b, <1>1, <2>2, <2>3, <3>1 DEF Shape, Terms
    <3> QED
      BY <1>4, <3>1, <3>2
  <2>4. OnEnds(K2, L, F, rd2, n - 1, R2["dump"])
    <3>1. n - 1 \in 0 .. n - 1
      BY <1>1
    <3> QED
      BY <1>5, <1>7, <3>1
  <2>5. \A x \in F : K2[x] = "end" => K[x] = "end" /\ M[x].op = "LIST_"
    BY <1>b, <1>3 DEF Shape, Terms
  <2>6. ASSUME NEW j \in 1 .. n - 1, rd2[j] = "more", NEW x \in F, K2[x] = "end", L[x] = j
        PROVE  TailAt(K2, F, M[x].u) /\ OnEnds(K2, L, F, rd2, j - 1, M[x].next)
    <3>1. j \in 1 .. n /\ j - 1 \in 0 .. n - 1 /\ rd[j] = "more"
      BY <1>a, <1>1, <2>6
    <3>2. TailAt(K, F, M[x].u) /\ OnEnds(K, L, F, rd, j - 1, M[x].next)
      BY <1>b, <1>1, <2>5, <2>6, <3>1 DEF Shape, Terms
    <3> QED
      BY <1>4, <1>5, <3>1, <3>2
  <2> QED
    BY <1>a, <1>1, <2>1, <2>2, <2>3, <2>4, <2>5, <2>6 DEF Terms
<1>11. Maps(M, R2, K2, F)
  BY <1>b, <1>3, <1>4, <1>6 DEF Shape, Maps
<1>12. Shape(M, R2, K2, L, low, F, rd2)
  BY <1>b, <1>3, <1>8, <1>9, <1>10, <1>11 DEF Shape
<1> QED
  BY <1>2, <1>12 DEF K2, s, n

(* What readterm writes to append s to the term with the header h, or the  *)
(* end d, whose last cell is t.                                            *)
LinkedFirst(M, M2, s, h) ==
  /\ \A x \in Addr \ {s, h} : M2[x] = M[x]
  /\ M2[s].op = M[s].op /\ M2[s].u = M[s].u /\ M2[s].next = NULL
  /\ M2[h].op = M[h].op /\ M2[h].u = s /\ M2[h].next = M[h].next
LinkedMore(M, M2, s, d, t) ==
  /\ \A x \in Addr \ {s, t, d} : M2[x] = M[x]
  /\ M2[s].op = M[s].op /\ M2[s].u = M[s].u /\ M2[s].next = NULL
  /\ t # s => M2[t].op = M[t].op /\ M2[t].u = M[t].u /\ M2[t].next = s
  /\ M2[d].op = M[d].op /\ M2[d].u = s /\ M2[d].next = M[d].next

(* A factor or list s becomes the first member of the term on the stack.   *)
LEMMA LinkFirst ==
  ASSUME NEW low \in Addr, NEW F, NEW M, NEW M2, NEW R, NEW K, NEW L, NEW rd \in Seq(Phases),
         NEW rd2, LastPhase(rd, rd2, "end"), Len(rd) # 0, rd[Len(rd)] = "first",
         Above(low, F), Shape(M, R, K, L, low, F, rd), NEW s \in F, K[s] = "tail",
         LinkedFirst(M, M2, s, R["stk"])
  PROVE  Shape(M2, R, K, L, low, F, rd2)
<1> DEFINE n == Len(rd)
           h == R["stk"]
           M1 == [x \in Addr |-> IF x = s THEN M2[s] ELSE M[x]]
<1> USE DEF LinkedFirst
<1>1. /\ n \in Nat \ {0} /\ Depth(rd) = n /\ Depth(rd2) = n /\ rd2 # <<"run">> /\ rd # <<"run">>
      /\ \A m \in 1 .. n - 1 : rd2[m] = rd[m]
      /\ rd2[n] = "end" /\ rd[n] = "first"
  <2>1. n \in Nat \ {0} /\ rd2 \in Seq(Phases) /\ Len(rd2) = n
    BY DEF LastPhase
  <2>2. Depth(rd) = n /\ Depth(rd2) = Len(rd2) /\ rd2 # <<"run">> /\ rd # <<"run">>
    BY <2>1, DepthIsLen
  <2> QED
    BY <2>1, <2>2 DEF LastPhase
<1>2. h \in F /\ K[h] = "header" /\ F \subseteq Addr /\ s # h /\ TailAt(K, F, s)
  BY <1>1 DEF Shape, Terms, HeaderAt, Above, TailAt
<1>3. Sound(M[s], Refs(low, F)) /\ Sound(M[h], Refs(low, F)) /\ NULL \in Refs(low, F) /\ s \in Refs(low, F)
  BY <1>2, RefFacts DEF Shape, Closure
<1>4. Shape(M1, R, K, L, low, F, rd)
  <2>1. M1[s] = M2[s] /\ \A x \in Addr : x # s => M1[x] = M[x]
    BY <1>2
  <2>2. Sound(M1[s], Refs(low, F))
    BY <1>3, <2>1 DEF Sound
  <2> HIDE DEF M1
  <2>3. MayWrite(M, M1, R, K, low, F, rd, s)
    BY <2>1, <2>2 DEF MayWrite
  <2> QED
    BY <2>3, WriteCell
<1>5. Shape(M2, R, K, L, low, F, rd)
  <2>1. M1[h] = M[h] /\ \A x \in Addr : x # h => M2[x] = M1[x]
    BY <1>2
  <2>2. Sound(M2[h], Refs(low, F))
    BY <1>3 DEF Sound
  <2> HIDE DEF M1
  <2>3. MayWrite(M1, M2, R, K, low, F, rd, h)
    BY <1>1, <1>2, <2>1, <2>2 DEF MayWrite
  <2> QED
    BY <1>2, <1>4, <2>3, WriteCell
<1> HIDE DEF n, M1, h
<1>6. Reaches(R, low, F, rd2)
  BY <1>1, <1>5 DEF Shape, Reaches
<1>7. \A i \in 0 .. n : \A p : OnEnds(K, L, F, rd, i, p) => OnEnds(K, L, F, rd2, i, p)
  <2> SUFFICES ASSUME NEW i \in 0 .. n, NEW p, OnEnds(K, L, F, rd, i, p)
               PROVE  OnEnds(K, L, F, rd2, i, p)
    OBVIOUS
  <2>1. i \in Nat /\ \A m \in 1 .. i : rd2[m] = "more" <=> rd[m] = "more"
    BY <1>1
  <2> QED
    BY <2>1, EndsSame
<1>8. Terms(M2, R, K, L, F, rd2)
  <2>1. OnEnds(K, L, F, rd2, n, R["dump"])
    <3>1. n \in 0 .. n /\ OnEnds(K, L, F, rd, n, R["dump"])
      BY <1>1, <1>5 DEF Shape, Terms
    <3> QED
      BY <1>7, <3>1
  <2>2. ASSUME NEW j \in 1 .. n, rd2[j] = "more", NEW x \in F, K[x] = "end", L[x] = j
        PROVE  TailAt(K, F, M2[x].u) /\ OnEnds(K, L, F, rd2, j - 1, M2[x].next)
    <3>1. rd[j] = "more" /\ j - 1 \in 0 .. n
      BY <1>1, <2>2
    <3>2. TailAt(K, F, M2[x].u) /\ OnEnds(K, L, F, rd, j - 1, M2[x].next)
      BY <1>1, <1>5, <2>2, <3>1 DEF Shape, Terms
    <3> QED
      BY <1>7, <3>1, <3>2
  <2>3. TailAt(K, F, M2[R["stk"]].u)
    BY <1>2
  <2> QED
    BY <1>1, <1>5, <2>1, <2>2, <2>3 DEF Shape, Terms
<1> QED
  BY <1>5, <1>6, <1>8 DEF Shape

(* It becomes the next member: the end of the term is on dump.             *)
LEMMA LinkMore ==
  ASSUME NEW low \in Addr, NEW F, NEW M, NEW M2, NEW R, NEW K, NEW L, NEW rd \in Seq(Phases),
         Len(rd) # 0, rd[Len(rd)] = "more",
         Above(low, F), Shape(M, R, K, L, low, F, rd), NEW s \in F, K[s] = "tail",
         NEW d, d = R["dump"], NEW t, t = M[d].u, LinkedMore(M, M2, s, d, t)
  PROVE  /\ Shape(M2, R, K, L, low, F, rd)
         /\ d \in F /\ t \in F /\ K[d] = "end" /\ K[t] = "tail"
<1> DEFINE n == Len(rd)
           M1 == [x \in Addr |-> IF x = s THEN M2[s] ELSE M[x]]
           M3 == [x \in Addr |-> IF x = t THEN M2[t] ELSE M1[x]]
<1> USE DEF LinkedMore
<1>1. n \in Nat \ {0} /\ Depth(rd) = n
  BY DepthIsLen
<1>2. EndAt(K, L, F, d, n)
  <2>1. OnEnds(K, L, F, rd, n, d)
    BY <1>1 DEF Shape, Terms
  <2> QED
    BY <1>1, <2>1, EndsTop
<1>3. TailAt(K, F, t)
  <2>1. n \in 1 .. Depth(rd)
    BY <1>1
  <2> QED
    BY <1>2, <2>1 DEF Shape, Terms, EndAt
<1>4. /\ F \subseteq Addr /\ d \in F /\ K[d] = "end" /\ t \in F /\ K[t] = "tail"
      /\ s # d /\ t # d /\ TailAt(K, F, s)
  BY <1>2, <1>3 DEF EndAt, TailAt, Above
<1>5. /\ Sound(M[s], Refs(low, F)) /\ Sound(M[d], Refs(low, F)) /\ Sound(M[t], Refs(low, F))
      /\ NULL \in Refs(low, F) /\ s \in Refs(low, F)
  BY <1>4, RefFacts DEF Shape, Closure
<1>6. Shape(M1, R, K, L, low, F, rd)
  <2>1. M1[s] = M2[s] /\ \A x \in Addr : x # s => M1[x] = M[x]
    BY <1>4
  <2>2. Sound(M1[s], Refs(low, F))
    BY <1>5, <2>1 DEF Sound
  <2> HIDE DEF M1
  <2>3. MayWrite(M, M1, R, K, low, F, rd, s)
    BY <2>1, <2>2 DEF MayWrite
  <2> QED
    BY <2>3, WriteCell
<1>7. Shape(M3, R, K, L, low, F, rd)
  <2>1. M3[t] = M2[t] /\ \A x \in Addr : x # t => M3[x] = M1[x]
    BY <1>4
  <2>2. Sound(M3[t], Refs(low, F))
    BY <1>5, <2>1 DEF Sound
  <2> HIDE DEF M1, M3
  <2>3. MayWrite(M1, M3, R, K, low, F, rd, t)
    BY <1>4, <2>1, <2>2 DEF MayWrite
  <2> QED
    BY <1>4, <1>6, <2>3, WriteCell
<1>8. Shape(M2, R, K, L, low, F, rd)
  <2>1. M3[d] = M[d] /\ \A x \in Addr : x # d => M2[x] = M3[x]
    BY <1>4
  <2>2. Sound(M2[d], Refs(low, F))
    BY <1>5 DEF Sound
  <2> HIDE DEF M1, M3
  <2>3. MayWrite(M3, M2, R, K, low, F, rd, d)
    BY <1>4, <2>1, <2>2 DEF MayWrite
  <2> QED
    BY <1>4, <1>7, <2>3, WriteCell
<1> QED
  BY <1>4, <1>8

(* The stack may be cut back to another header of the same level. *)
LEMMA SetHeader ==
  ASSUME NEW low \in Addr, NEW F, NEW M, NEW R, NEW R2, NEW K, NEW L, NEW rd,
         Shape(M, R, K, L, low, F, rd), Depth(rd) # 0, rd[Depth(rd)] # "end",
         \A x \in Roots \ {"stk"} : R2[x] = R[x],
         HeaderAt(K, L, F, R2["stk"], Depth(rd))
  PROVE  Shape(M, R2, K, L, low, F, rd)
<1>1. /\ R2["conts"] = R["conts"] /\ R2["dump"] = R["dump"] /\ R2["prog"] = R["prog"]
      /\ R2["dump2"] = R["dump2"] /\ R2["dump3"] = R["dump3"]
  BY DEF Roots
<1>2. Reaches(R2, low, F, rd)
  <2>1. R2["stk"] \in Refs(low, F)
    BY RefFacts DEF HeaderAt
  <2> QED
    BY <1>1, <2>1 DEF Shape, Reaches
<1>3. Chains(M, R2, K, F) /\ Maps(M, R2, K, F) /\ Terms(M, R2, K, L, F, rd)
  BY <1>1 DEF Shape, Chains, Maps, Terms
<1> QED
  BY <1>2, <1>3 DEF Shape

(* The arguments of newnode still fit when the cell is there. *)
LEMMA AddedArgs ==
  ASSUME NEW low \in Addr, NEW F, NEW M, NEW M2, NEW R, NEW K, NEW L, NEW rd, NEW c,
         Above(low, F), Shape(M, R, K, L, low, F, rd), Args(M, R, K, L, low, F, rd, c),
         NEW s \in Addr, s >= low, s \notin F,
         \A x \in Addr : x # s => M2[x] = M[x]
  PROVE  Args(M2, R, [K EXCEPT ![s] = "plain"], L, low, F \cup {s}, rd, c)
<1> DEFINE K2 == [K EXCEPT ![s] = "plain"]  G == F \cup {s}
<1>1. \A x \in F : x \in G /\ K2[x] = K[x] /\ M2[x] = M[x]
  BY DEF Above, Shape
<1>2. Refs(low, F) \subseteq Refs(low, G)
  BY DEF Refs
<1>3. /\ \A p : TailAt(K, F, p) => TailAt(K2, G, p)
      /\ \A p : OnDump(K, F, p) => OnDump(K2, G, p)
      /\ \A p, j : HeaderAt(K, L, F, p, j) => HeaderAt(K2, L, G, p, j)
      /\ \A p, j : EndAt(K, L, F, p, j) => EndAt(K2, L, G, p, j)
  BY <1>1 DEF TailAt, OnDump, HeaderAt, EndAt
<1>4. \A i, p : OnEnds(K, L, F, rd, i, p) => OnEnds(K2, L, G, rd, i, p)
  BY <1>3 DEF OnEnds
<1>5. \A x \in {"stk", "dump2"} : R[x] # NULL => M2[R[x]] = M[R[x]]
  <2> SUFFICES ASSUME NEW x \in {"stk", "dump2"}, R[x] # NULL PROVE M2[R[x]] = M[R[x]]
    OBVIOUS
  <2>1. R[x] \in Refs(low, F)
    BY DEF Shape, Reaches, Roots
  <2>2. R[x] \in F \/ R[x] \in 0 .. low - 1
    BY <2>1, RefCases
  <2>3. CASE R[x] \in F
    BY <2>3 DEF Above
  <2>4. CASE R[x] \in 0 .. low - 1
    <3>1. R[x] \in Addr /\ R[x] < low
      BY <2>4, Below
    <3> QED
      BY <3>1 DEF Addr
  <2> QED
    BY <2>2, <2>3, <2>4
<1>6. R["dump3"] # NULL => R["dump2"] # NULL
  BY DEF Shape, Maps
<1> HIDE DEF K2, G
<1>7. /\ c.place \in Places /\ c.op \in {"INTEGER_", "LIST_"} /\ c.u \in Int
      /\ c.next \in Refs(low, G) /\ (c.op = "LIST_" => c.u \in Refs(low, G))
      /\ c.place \notin {"header", "factor", "end", "conts", "dump2", "dump3"} => rd = <<>>
      /\ c.place \in {"header", "end", "conts", "dump", "primrec", "dump2", "dump3"} => c.op = "LIST_"
  BY <1>2 DEF Args
<1>8. /\ c.place \in {"dump", "primrec"} => OnDump(K2, G, c.next)
      /\ c.place = "header" =>
           /\ rd # <<"run">>
           /\ Depth(rd) # 0 => HeaderAt(K2, L, G, c.next, Depth(rd)) /\ rd[Depth(rd)] # "end"
      /\ c.place = "factor" =>
           Depth(rd) # 0 /\ HeaderAt(K2, L, G, c.next, Depth(rd)) /\ rd[Depth(rd)] # "end"
  BY <1>3 DEF Args
<1>9. /\ c.place = "end" =>
           /\ Depth(rd) # 0 /\ rd[Depth(rd)] = "end" /\ TailAt(K2, G, c.u)
           /\ OnEnds(K2, L, G, rd, Depth(rd), c.next)
      /\ c.place = "conts" =>
           /\ rd \in {<<>>, <<"run">>}
           /\ c.next # NULL => c.next \in G /\ K2[c.next] = "conts"
  BY <1>1, <1>3, <1>4 DEF Args
<1>10. /\ c.place = "dump2" => R["dump2"] = NULL /\ c.u = NULL /\ c.next = NULL
       /\ c.place = "dump3" => R["dump2"] # NULL /\ R["dump3"] = NULL /\ c.u = NULL /\ c.next = NULL
       /\ c.place \in {"DMP2", "DMP3->next"} => R["dump3"] # NULL /\ c.next = NULL
       /\ c.place = "DMP3->next" => R["dump3"] # NULL /\ M[R["dump2"]].u # NULL
       /\ c.place = "mapped" => R["dump3"] # NULL
       /\ c.place = "primrec" => R["stk"] # NULL /\ M[R["stk"]].op = "LIST_" /\ Even(R)
       /\ c.place = "bucket" => Pair(M, R) /\ Even(R)
  BY DEF Args
<1>11. /\ c.place = "DMP3->next" => M2[R["dump2"]].u # NULL
       /\ c.place = "primrec" => R["stk"] # NULL /\ M2[R["stk"]].op = "LIST_" /\ Even(R)
       /\ c.place = "bucket" => Pair(M2, R) /\ Even(R)
  BY <1>5, <1>6, <1>10 DEF Pair
<1>12. Args(M2, R, K2, L, low, G, rd, c)
  BY <1>7, <1>8, <1>9, <1>10, <1>11 DEF Args
<1> QED
  BY <1>12 DEF K2, G

-----------------------------------------------------------------------------
(* No list leads back to itself: every set of given cells has one that     *)
(* leads to none of them.  A cell that newnode has just given is led to by *)
(* none; what changes a cell in place lets it lead into a set of cells     *)
(* that leads nowhere else, and that it does not belong to.                *)
Acyclic(M, F) == \A S \in SUBSET F : S # {} => \E a \in S : Links(M, a) \cap S = {}

LEMMA AcyclicAdd ==
  ASSUME NEW M, NEW M2, NEW F, Acyclic(M, F), NEW s, s \notin F,
         \A a \in F : Links(M2, a) = Links(M, a) /\ s \notin Links(M, a), s \notin Links(M2, s)
  PROVE  Acyclic(M2, F \cup {s})
<1> SUFFICES ASSUME NEW S \in SUBSET (F \cup {s}), S # {}
             PROVE  \E a \in S : Links(M2, a) \cap S = {}
  BY DEF Acyclic
<1>1. CASE S \cap F = {}
  BY <1>1
<1>2. CASE S \cap F # {}
  <2>1. PICK a \in S \cap F : Links(M, a) \cap (S \cap F) = {}
    BY <1>2 DEF Acyclic
  <2>2. Links(M2, a) \cap S = {}
    BY <2>1
  <2> QED
    BY <2>1, <2>2
<1> QED
  BY <1>1, <1>2

(* C leads to C only, and the rest may come to lead to it. *)
LEMMA AcyclicInto ==
  ASSUME NEW M, NEW M2, NEW F, Acyclic(M, F), NEW C,
         \A a \in F \cap C : Links(M2, a) \cap F \subseteq Links(M, a) \cap C,
         \A a \in F \ C : Links(M2, a) \cap F \subseteq Links(M, a) \cup C
  PROVE  Acyclic(M2, F)
<1> SUFFICES ASSUME NEW S \in SUBSET F, S # {}
             PROVE  \E a \in S : Links(M2, a) \cap S = {}
  BY DEF Acyclic
<1>1. CASE S \cap C = {}
  <2>1. PICK a \in S : Links(M, a) \cap S = {}
    BY DEF Acyclic
  <2>2. Links(M2, a) \cap S = {}
    BY <1>1, <2>1
  <2> QED
    BY <2>2
<1>2. CASE S \cap C # {}
  <2>1. PICK a \in S \cap C : Links(M, a) \cap (S \cap C) = {}
    BY <1>2 DEF Acyclic
  <2>2. Links(M2, a) \cap S = {}
    BY <2>1
  <2> QED
    BY <2>1, <2>2
<1> QED
  BY <1>1, <1>2

(* c comes to lead to q, to which it led through p. *)
LEMMA AcyclicSkip ==
  ASSUME NEW M, NEW M2, NEW F, Acyclic(M, F), NEW c \in F, NEW p \in F, NEW q,
         p \in Links(M, c), q \in Links(M, p),
         \A a \in F \ {c} : Links(M2, a) = Links(M, a),
         Links(M2, c) \subseteq Links(M, c) \cup {q}
  PROVE  Acyclic(M2, F)
<1> SUFFICES ASSUME NEW S \in SUBSET F, S # {}
             PROVE  \E a \in S : Links(M2, a) \cap S = {}
  BY DEF Acyclic
<1>1. PICK a \in S \cup {p} : Links(M, a) \cap (S \cup {p}) = {}
  BY DEF Acyclic
<1>2. CASE q \notin S
  <2>1. PICK b \in S : Links(M, b) \cap S = {}
    BY DEF Acyclic
  <2>2. Links(M2, b) \cap S = {}
    BY <1>2, <2>1
  <2> QED
    BY <2>2
<1>3. CASE q \in S
  <2>1. a # p /\ a # c /\ a \in S
    BY <1>1, <1>3
  <2>2. Links(M2, a) \cap S = {}
    BY <1>1, <2>1
  <2> QED
    BY <2>1, <2>2
<1> QED
  BY <1>2, <1>3

LEMMA MovedAcyclic ==
  ASSUME NEW low \in Addr, NEW F, NEW G, NEW orig, NEW M0, NEW M, NEW R0, NEW R,
         Moved(M0, M, R0, R, low, F, G, orig), Closure(M0, low, F), Acyclic(M0, F)
  PROVE  Acyclic(M, G)
<1> SUFFICES ASSUME NEW S \in SUBSET G, S # {}
             PROVE  \E b \in S : Links(M, b) \cap S = {}
  BY DEF Acyclic
<1> DEFINE S0 == {orig[b] : b \in S}
<1>1. S0 \in SUBSET F /\ S0 # {}
  BY DEF Moved
<1>2. PICK a \in S0 : Links(M0, a) \cap S0 = {}
  BY <1>1 DEF Acyclic
<1>3. PICK b \in S : orig[b] = a
  BY <1>2
<1>4. ASSUME NEW q \in Links(M, b), q \in S PROVE FALSE
  <2>1. Above(low, F) /\ Above(low, G) /\ a \in F /\ Copied(M0, M, low, G, orig, b)
    BY <1>3 DEF Moved
  <2>2. Sound(M0[a], Refs(low, F))
    BY <2>1 DEF Closure
  <2>3. PICK p \in Links(M0, a) : p \in Refs(low, F) /\ Copies(low, G, orig, p, q)
    BY <1>3, <2>1, <2>2, <1>4 DEF Links, Copied, Sound
  <2>4. p \in F /\ orig[q] = p
    BY <1>4, <2>1, <2>3, CopyFacts
  <2> QED
    BY <1>2, <1>4, <2>3, <2>4
<1> QED
  BY <1>4

-----------------------------------------------------------------------------
(* The order that makes it so.  While a term of level j is read, its cells  *)
(* are tails of level j and lead to one another only; its header and its   *)
(* end lead to one of them.  While map is at work, the program does not    *)
(* see the cells of its list: only dump2 and dump3 lead to them.           *)
Hidden == {"item", "dump2", "dump3"}
Seen(K, F) == {a \in F : K[a] \notin Hidden}
TermAt(K, L, F, p, j) == p \in F => K[p] = "tail" /\ L[p] = j

Leveled(M, K, L, F, rd) ==
  /\ \A a \in F : K[a] = "tail" /\ L[a] > 0 => \A b \in Links(M, a) : TermAt(K, L, F, b, L[a])
  /\ \A a \in F : K[a] = "header" /\ L[a] \in 1 .. Depth(rd) => TermAt(K, L, F, M[a].u, L[a])
  /\ \A a \in F : K[a] = "end" /\ L[a] \in 1 .. Depth(rd) /\ rd[L[a]] = "more" =>
       TermAt(K, L, F, M[a].u, L[a])

Shows(R, P, rd) ==
  /\ \A x \in Roots \ {"prog", "dump2", "dump3"} : R[x] \in P
  /\ rd = <<"run">> => R["prog"] \in P
Hiding(M, R, K, low, F, rd) ==
  /\ \A a \in Seen(K, F) : Sound(M[a], Refs(low, Seen(K, F)))
  /\ Shows(R, Refs(low, Seen(K, F)), rd)

Ordered(M, R, K, L, low, F, rd) ==
  /\ Acyclic(M, F)
  /\ Leveled(M, K, L, F, rd)
  /\ Hiding(M, R, K, low, F, rd)

(* What newnode is called with: c.u of the call by map may be its list. *)
Clear(K, L, low, F, rd, c) ==
  /\ c.next \in Refs(low, Seen(K, F))
  /\ c.op = "LIST_" /\ c.place # "mapped" => c.u \in Refs(low, Seen(K, F))
  /\ c.place = "header" => c.u = NULL
  /\ c.place = "factor" => c.op = "INTEGER_"
  /\ c.place = "end" => TermAt(K, L, F, c.u, Depth(rd))

LEMMA SeenCopied ==
  ASSUME NEW low \in Addr, NEW F, NEW G, NEW orig, NEW K, NEW p, NEW q,
         Above(low, F), Above(low, G),
         p \in Refs(low, Seen(K, F)), Copies(low, G, orig, p, q)
  PROVE  q \in Refs(low, Seen(Across(K, orig), G))
<1>1. CASE p \in Seen(K, F)
  <2>1. p \in F /\ K[p] \notin Hidden
    BY <1>1 DEF Seen
  <2>2. q \in G /\ q \in Addr /\ orig[q] = p
    BY <2>1, KindCopied
  <2>3. Across(K, orig)[q] = K[p]
    BY <2>2 DEF Across
  <2> QED
    BY <2>1, <2>2, <2>3 DEF Seen, Refs
<1>2. CASE p \notin Seen(K, F)
  BY <1>2 DEF Refs, Copies
<1> QED
  BY <1>1, <1>2

LEMMA TermCopied ==
  ASSUME NEW low \in Addr, NEW F, NEW G, NEW orig, NEW K, NEW L, NEW p, NEW q, NEW j,
         Above(low, F), Above(low, G), p \in Refs(low, F), Copies(low, G, orig, p, q),
         TermAt(K, L, F, p, j)
  PROVE  TermAt(Across(K, orig), Across(L, orig), G, q, j)
<1> SUFFICES ASSUME q \in G PROVE Across(K, orig)[q] = "tail" /\ Across(L, orig)[q] = j
  BY DEF TermAt
<1>1. p \in F /\ orig[q] = p /\ q \in Addr
  BY CopyFacts DEF Above
<1> QED
  BY <1>1 DEF TermAt, Across

LEMMA MovedOrdered ==
  ASSUME NEW low \in Addr, NEW F, NEW G, NEW orig, NEW M0, NEW M, NEW R0, NEW R, NEW rd,
         NEW K, NEW L, Moved(M0, M, R0, R, low, F, G, orig),
         Shape(M0, R0, K, L, low, F, rd), Ordered(M0, R0, K, L, low, F, rd)
  PROVE  Ordered(M, R, Across(K, orig), Across(L, orig), low, G, rd)
<1> DEFINE K2 == Across(K, orig)
           L2 == Across(L, orig)
<1>1. Above(low, F) /\ Above(low, G) /\ Closure(M0, low, F)
  BY DEF Moved, Shape
<1>2. ASSUME NEW b \in G
      PROVE  /\ b \in Addr /\ orig[b] \in F /\ K2[b] = K[orig[b]] /\ L2[b] = L[orig[b]]
             /\ M[b].op = M0[orig[b]].op /\ Sound(M0[orig[b]], Refs(low, F))
             /\ Copies(low, G, orig, M0[orig[b]].next, M[b].next)
             /\ M[b].op = "LIST_" => Copies(low, G, orig, M0[orig[b]].u, M[b].u)
  <2>1. b \in Addr
    BY <1>1 DEF Above
  <2> QED
    BY <1>1, <2>1 DEF Moved, Copied, Closure, Across
<1>3. Acyclic(M, G)
  BY <1>1, MovedAcyclic DEF Ordered
<1>4. Leveled(M, K2, L2, G, rd)
  <2>1. ASSUME NEW b \in G, K2[b] = "tail", L2[b] > 0, NEW q \in Links(M, b)
        PROVE  TermAt(K2, L2, G, q, L2[b])
    <3>1. orig[b] \in F /\ K[orig[b]] = "tail" /\ L[orig[b]] > 0
      BY <1>2, <2>1
    <3>2. PICK p \in Links(M0, orig[b]) : p \in Refs(low, F) /\ Copies(low, G, orig, p, q)
      BY <1>2, <2>1 DEF Links, Sound
    <3>3. TermAt(K, L, F, p, L[orig[b]])
      BY <3>1, <3>2 DEF Ordered, Leveled
    <3> QED
      BY <1>1, <1>2, <3>2, <3>3, TermCopied
  <2>2. ASSUME NEW b \in G, M0[orig[b]].op = "LIST_", TermAt(K, L, F, M0[orig[b]].u, L[orig[b]])
        PROVE  TermAt(K2, L2, G, M[b].u, L2[b])
    <3>1. M0[orig[b]].u \in Refs(low, F) /\ Copies(low, G, orig, M0[orig[b]].u, M[b].u)
      BY <1>2, <2>2 DEF Sound
    <3> QED
      BY <1>1, <1>2, <2>2, <3>1, TermCopied
  <2>3. ASSUME NEW b \in G, K2[b] = "header", L2[b] \in 1 .. Depth(rd)
        PROVE  TermAt(K2, L2, G, M[b].u, L2[b])
    <3>1. orig[b] \in F /\ K[orig[b]] = "header" /\ L[orig[b]] \in 1 .. Depth(rd)
      BY <1>2, <2>3
    <3>2. M0[orig[b]].op = "LIST_" /\ TermAt(K, L, F, M0[orig[b]].u, L[orig[b]])
      BY <3>1 DEF Ordered, Leveled, Shape, Terms
    <3> QED
      BY <2>2, <3>2
  <2>4. ASSUME NEW b \in G, K2[b] = "end", L2[b] \in 1 .. Depth(rd), rd[L2[b]] = "more"
        PROVE  TermAt(K2, L2, G, M[b].u, L2[b])
    <3>1. /\ orig[b] \in F /\ K[orig[b]] = "end" /\ L[orig[b]] \in 1 .. Depth(rd)
          /\ rd[L[orig[b]]] = "more"
      BY <1>2, <2>4
    <3>2. M0[orig[b]].op = "LIST_" /\ TermAt(K, L, F, M0[orig[b]].u, L[orig[b]])
      BY <3>1 DEF Ordered, Leveled, Shape, Terms
    <3> QED
      BY <2>2, <3>2
  <2> QED
    BY <2>1, <2>3, <2>4 DEF Leveled
<1>5. Hiding(M, R, K2, low, G, rd)
  <2>1. ASSUME NEW b \in Seen(K2, G) PROVE Sound(M[b], Refs(low, Seen(K2, G)))
    <3>1. b \in G /\ orig[b] \in Seen(K, F)
      BY <1>2, <2>1 DEF Seen
    <3>2. Sound(M0[orig[b]], Refs(low, Seen(K, F)))
      BY <3>1 DEF Ordered, Hiding
    <3>3. /\ M[b].next \in Refs(low, Seen(K2, G))
          /\ M[b].op = "LIST_" => M[b].u \in Refs(low, Seen(K2, G))
      BY <1>1, <1>2, <3>1, <3>2, SeenCopied DEF Sound
    <3> QED
      BY <1>2, <3>1, <3>2, <3>3 DEF Sound
  <2>2. \A x \in Roots : Copies(low, G, orig, R0[x], R[x])
    BY DEF Moved
  <2>3. \A x \in Roots : R0[x] \in Refs(low, Seen(K, F)) => R[x] \in Refs(low, Seen(K2, G))
    BY <1>1, <2>2, SeenCopied
  <2>4. Shows(R, Refs(low, Seen(K2, G)), rd)
    BY <2>3 DEF Ordered, Hiding, Shows, Roots
  <2> QED
    BY <2>1, <2>4 DEF Hiding
<1> QED
  BY <1>3, <1>4, <1>5 DEF Ordered

LEMMA MovedClear ==
  ASSUME NEW low \in Addr, NEW F, NEW G, NEW orig, NEW M0, NEW R0, NEW K, NEW L, NEW rd,
         NEW C0, NEW c, Above(low, F), Above(low, G), MovedCall(low, G, orig, C0, c),
         Args(M0, R0, K, L, low, F, rd, C0), Clear(K, L, low, F, rd, C0)
  PROVE  Clear(Across(K, orig), Across(L, orig), low, G, rd, c)
<1>1. /\ c.place = C0.place /\ c.op = C0.op /\ Copies(low, G, orig, C0.next, c.next)
      /\ c.op = "LIST_" => Copies(low, G, orig, C0.u, c.u)
      /\ C0.op = "LIST_" => C0.u \in Refs(low, F)
      /\ C0.place \in {"header", "end"} => C0.op = "LIST_"
  BY DEF MovedCall, Args
<1>2. c.next \in Refs(low, Seen(Across(K, orig), G))
  BY <1>1, SeenCopied DEF Clear
<1>3. c.op = "LIST_" /\ c.place # "mapped" => c.u \in Refs(low, Seen(Across(K, orig), G))
  BY <1>1, SeenCopied DEF Clear
<1>4. c.place = "header" => c.u = NULL
  BY <1>1, CopyFacts, RefFacts DEF Clear
<1>5. c.place = "end" => TermAt(Across(K, orig), Across(L, orig), G, c.u, Depth(rd))
  BY <1>1, TermCopied DEF Clear
<1> QED
  BY <1>1, <1>2, <1>3, <1>4, <1>5 DEF Clear

(* A new cell leads to what the program sees, and nothing leads to it. *)
LEMMA AddOrdered ==
  ASSUME NEW low \in Addr, NEW F, NEW M, NEW M2, NEW R, NEW K, NEW L, NEW rd,
         Above(low, F), Shape(M, R, K, L, low, F, rd), Ordered(M, R, K, L, low, F, rd),
         NEW s \in Addr, s >= low, s \notin F,
         \A x \in Addr : x # s => M2[x] = M[x],
         Sound(M2[s], Refs(low, Seen(K, F)))
  PROVE  /\ Ordered(M2, R, [K EXCEPT ![s] = "plain"], L, low, F \cup {s}, rd)
         /\ \A a \in F \cup {s} : s \notin Links(M2, a)
         /\ \A x \in Roots \ {"prog"} : R[x] # s
<1> DEFINE K2 == [K EXCEPT ![s] = "plain"]  G == F \cup {s}
<1>1. /\ F \subseteq Addr /\ K2[s] = "plain"
      /\ \A x \in F : x # s /\ K2[x] = K[x] /\ M2[x] = M[x] /\ Links(M2, x) = Links(M, x)
  BY DEF Above, Shape, Links
<1>2. s \notin Refs(low, F) /\ Refs(low, Seen(K, F)) \subseteq Refs(low, F)
  BY DEF Refs, Seen, Addr
<1>3. ASSUME NEW a \in G PROVE s \notin Links(M2, a)
  <2>1. CASE a = s
    BY <1>2, <2>1 DEF Links, Sound
  <2>2. CASE a # s
    <3>1. Sound(M[a], Refs(low, F))
      BY <2>2 DEF Shape, Closure
    <3> QED
      BY <1>1, <1>2, <2>2, <3>1 DEF Links, Sound
  <2> QED
    BY <2>1, <2>2
<1>4. \A x \in Roots \ {"prog"} : R[x] # s
  BY <1>2 DEF Shape, Reaches
<1>5. Acyclic(M2, G)
  BY <1>1, <1>3, AcyclicAdd DEF Ordered
<1> HIDE DEF K2
<1>6. \A p, j : p # s /\ TermAt(K, L, F, p, j) => TermAt(K2, L, G, p, j)
  BY <1>1 DEF TermAt
<1>7. Leveled(M2, K2, L, G, rd)
  <2>1. ASSUME NEW a \in G, K2[a] = "tail", L[a] > 0, NEW b \in Links(M2, a)
        PROVE  TermAt(K2, L, G, b, L[a])
    <3>1. a \in F /\ K[a] = "tail" /\ b \in Links(M, a) /\ b # s
      BY <1>1, <1>3, <2>1
    <3> QED
      BY <1>6, <2>1, <3>1 DEF Ordered, Leveled
  <2>2. ASSUME NEW a \in G, K2[a] \in {"header", "end"}
        PROVE  a \in F /\ K[a] = K2[a] /\ M2[a] = M[a] /\ M[a].u # s
    <3>1. a \in F /\ K[a] = K2[a] /\ M2[a] = M[a]
      BY <1>1, <2>2
    <3>2. M[a].op = "LIST_"
      BY <2>2, <3>1 DEF Shape, Terms
    <3>3. M[a].u \in Links(M2, a)
      BY <3>1, <3>2 DEF Links
    <3> QED
      BY <1>3, <3>1, <3>3
  <2> QED
    BY <1>6, <2>1, <2>2 DEF Ordered, Leveled
<1>8. Hiding(M2, R, K2, low, G, rd)
  <2>1. Seen(K, F) \subseteq Seen(K2, G) /\ Seen(K2, G) \subseteq Seen(K, F) \cup {s}
    BY <1>1 DEF Seen
  <2>2. Refs(low, Seen(K, F)) \subseteq Refs(low, Seen(K2, G))
    BY <2>1 DEF Refs
  <2>3. ASSUME NEW a \in Seen(K2, G) PROVE Sound(M2[a], Refs(low, Seen(K, F)))
    BY <1>1, <2>1 DEF Ordered, Hiding, Seen
  <2> QED
    BY <2>2, <2>3 DEF Ordered, Hiding, Shows, Sound
<1> QED
  BY <1>3, <1>4, <1>5, <1>7, <1>8 DEF Ordered, K2

LEMMA SetOrdered ==
  ASSUME NEW low, NEW F, NEW M, NEW R, NEW R2, NEW K, NEW L, NEW rd, NEW rd2,
         Ordered(M, R, K, L, low, F, rd), Depth(rd2) = 0, Shows(R2, Refs(low, Seen(K, F)), rd2)
  PROVE  Ordered(M, R2, K, L, low, F, rd2)
BY DEF Ordered, Leveled, Hiding

(* s takes another kind; headers or ends may be forgotten. *)
LEMMA PlaceOrdered ==
  ASSUME NEW low \in Addr, NEW F, NEW M, NEW R, NEW R2, NEW K, NEW K2, NEW L, NEW L2, NEW rd, NEW rd2,
         Ordered(M, R, K, L, low, F, rd), NEW s \in F, K[s] = "plain", K2[s] # "tail",
         K2[s] \in Hidden => \A a \in F : s \notin Links(M, a),
         \A a \in F \ {s} : /\ L2[a] = L[a]
                            /\ K2[a] = K[a] \/ (K2[a] = "plain" /\ K[a] \in {"header", "end"}),
         \A a \in F : K2[a] = "header" /\ L2[a] \in 1 .. Depth(rd2) =>
           IF a = s THEN TermAt(K, L, F, M[s].u, L2[s]) ELSE L[a] \in 1 .. Depth(rd),
         \A a \in F : K2[a] = "end" /\ L2[a] \in 1 .. Depth(rd2) /\ rd2[L2[a]] = "more" =>
           IF a = s THEN TermAt(K, L, F, M[s].u, L2[s])
           ELSE L[a] \in 1 .. Depth(rd) /\ rd[L[a]] = "more",
         Shows(R2, Refs(low, Seen(K2, F)), rd2)
  PROVE  Ordered(M, R2, K2, L2, low, F, rd2)
<1>1. \A p, j : TermAt(K, L, F, p, j) => TermAt(K2, L2, F, p, j)
  BY DEF TermAt
<1>2. Leveled(M, K2, L2, F, rd2)
  <2>1. ASSUME NEW a \in F, K2[a] = "tail", L2[a] > 0, NEW b \in Links(M, a)
        PROVE  TermAt(K2, L2, F, b, L2[a])
    <3>1. K[a] = "tail" /\ L2[a] = L[a]
      BY <2>1
    <3> QED
      BY <1>1, <2>1, <3>1 DEF Ordered, Leveled
  <2>2. ASSUME NEW a \in F, K2[a] = "header", L2[a] \in 1 .. Depth(rd2)
        PROVE  TermAt(K2, L2, F, M[a].u, L2[a])
    <3>1. a # s => K[a] = "header" /\ L2[a] = L[a]
      BY <2>2
    <3> QED
      BY <1>1, <2>2, <3>1 DEF Ordered, Leveled
  <2>3. ASSUME NEW a \in F, K2[a] = "end", L2[a] \in 1 .. Depth(rd2), rd2[L2[a]] = "more"
        PROVE  TermAt(K2, L2, F, M[a].u, L2[a])
    <3>1. a # s => K[a] = "end" /\ L2[a] = L[a]
      BY <2>3
    <3> QED
      BY <1>1, <2>3, <3>1 DEF Ordered, Leveled
  <2> QED
    BY <2>1, <2>2, <2>3 DEF Leveled
<1>3. ASSUME NEW a \in Seen(K2, F) PROVE Sound(M[a], Refs(low, Seen(K2, F)))
  <2>1. a \in Seen(K, F)
    BY <1>3 DEF Seen, Hidden
  <2>2. Sound(M[a], Refs(low, Seen(K, F)))
    BY <2>1 DEF Ordered, Hiding
  <2>3. \A p \in Links(M, a) : p \in Refs(low, Seen(K, F)) => p \in Refs(low, Seen(K2, F))
    <3>1. ASSUME NEW p \in Links(M, a), p \in Seen(K, F) PROVE p \in Seen(K2, F)
      <4>1. p = s => K2[s] \notin Hidden
        BY <1>3, <3>1 DEF Seen
      <4> QED
        BY <3>1, <4>1 DEF Seen, Hidden
    <3> QED
      BY <3>1 DEF Refs
  <2> QED
    BY <2>2, <2>3 DEF Sound, Links
<1> QED
  BY <1>2, <1>3 DEF Ordered, Hiding

(* The stepper moves to the next factor of the body. *)
LEMMA SkipOrdered ==
  ASSUME NEW low \in Addr, NEW F, NEW M, NEW M2, NEW R, NEW K, NEW L, NEW rd,
         Above(low, F), Shape(M, R, K, L, low, F, rd), Ordered(M, R, K, L, low, F, rd),
         NEW c \in F, K[c] = "conts", NEW p, p = M[c].u, p # NULL,
         \A x \in Addr : x # c => M2[x] = M[x],
         M2[c].op = M[c].op, M2[c].next = M[c].next, M2[c].u = M[p].next
  PROVE  /\ Ordered(M2, R, K, L, low, F, rd)
         /\ M2[c].u \in Refs(low, Seen(K, F))
<1>1. /\ F \subseteq Addr /\ c \in Seen(K, F) /\ M[c].op = "LIST_"
      /\ \A x \in F \ {c} : M2[x] = M[x] /\ Links(M2, x) = Links(M, x)
  BY DEF Above, Seen, Hidden, Shape, Chains, Links
<1>2. p \in Refs(low, Seen(K, F)) /\ p \in Links(M, c)
  BY <1>1 DEF Ordered, Hiding, Sound, Links
<1>3. M[p].next \in Refs(low, Seen(K, F)) /\ (p \notin F => M[p].next \notin F)
  <2>1. CASE p \in Seen(K, F)
    BY <2>1 DEF Ordered, Hiding, Sound, Seen
  <2>2. CASE p \in 0 .. low - 1
    <3>1. M[p].next \in Refs(low, {})
      BY <2>2 DEF Shape, Closure, Sound
    <3>2. M[p].next \notin F
      BY <3>1 DEF Refs, Above, Addr
    <3> QED
      BY <3>1, <3>2, RefFacts
  <2> QED
    BY <1>2, <2>1, <2>2, RefCases
<1>4. Acyclic(M2, F)
  <2>1. CASE p \in F
    <3>1. M[p].next \in Links(M, p) /\ Links(M2, c) \subseteq Links(M, c) \cup {M[p].next}
      BY DEF Links
    <3>2. Acyclic(M, F)
      BY DEF Ordered
    <3> QED
      BY <1>1, <1>2, <2>1, <3>1, <3>2, AcyclicSkip
  <2>2. CASE p \notin F
    <3>1. \A a \in F : Links(M2, a) \cap F \subseteq Links(M, a)
      BY <1>1, <1>3, <2>2 DEF Links
    <3>2. Acyclic(M, F)
      BY DEF Ordered
    <3> QED
      BY <3>1, <3>2 DEF Acyclic
  <2> QED
    BY <2>1, <2>2
<1>5. Leveled(M2, K, L, F, rd)
  <2>1. \A a \in F : K[a] \in {"tail", "header", "end"} => M2[a] = M[a] /\ Links(M2, a) = Links(M, a)
    BY <1>1
  <2> QED
    BY <2>1 DEF Ordered, Leveled
<1>6. Hiding(M2, R, K, low, F, rd)
  <2>1. Sound(M2[c], Refs(low, Seen(K, F)))
    BY <1>1, <1>3 DEF Ordered, Hiding, Sound
  <2>2. \A a \in Seen(K, F) : a # c => M2[a] = M[a]
    BY <1>1 DEF Seen
  <2> QED
    BY <2>1, <2>2 DEF Ordered, Hiding
<1> QED
  BY <1>3, <1>4, <1>5, <1>6 DEF Ordered

(* The levels of headers and ends are all that the terms ask for. *)
LEMMA Relevel ==
  ASSUME NEW low \in Addr, NEW F, NEW M, NEW R, NEW K, NEW L, NEW L2 \in [Addr -> Int], NEW rd,
         Shape(M, R, K, L, low, F, rd),
         \A a \in F : K[a] \in {"header", "end"} => L2[a] = L[a]
  PROVE  Shape(M, R, K, L2, low, F, rd)
<1>1. /\ \A p, j : HeaderAt(K, L2, F, p, j) <=> HeaderAt(K, L, F, p, j)
      /\ \A p, j : EndAt(K, L2, F, p, j) <=> EndAt(K, L, F, p, j)
  BY DEF HeaderAt, EndAt
<1>2. \A i, p : OnEnds(K, L2, F, rd, i, p) <=> OnEnds(K, L, F, rd, i, p)
  BY <1>1 DEF OnEnds
<1>3. Terms(M, R, K, L2, F, rd)
  <2>1. Terms(M, R, K, L, F, rd)
    BY DEF Shape
  <2>2. \A a \in F : K[a] = "header" /\ L2[a] \in 2 .. Depth(rd) =>
          HeaderAt(K, L2, F, M[a].next, L2[a] - 1)
    BY <1>1, <2>1 DEF Terms
  <2>3. \A j \in 1 .. Depth(rd) : rd[j] = "more" => \A a \in F : K[a] = "end" /\ L2[a] = j =>
          TailAt(K, F, M[a].u) /\ OnEnds(K, L2, F, rd, j - 1, M[a].next)
    BY <1>2, <2>1 DEF Terms
  <2> QED
    BY <1>1, <1>2, <2>1, <2>2, <2>3 DEF Terms
<1> QED
  BY <1>3 DEF Shape

(* readterm appends s, a factor or a list of level d + 1, to the term of   *)
(* level d: the cells of the list become cells of that term.               *)
Appends(M, M2, K, L, F, s, d) ==
  /\ M2[s].op = M[s].op /\ M2[s].u = M[s].u /\ M2[s].next = NULL
  /\ \A a \in F \ {s} :
       /\ M2[a].op = M[a].op
       /\ \/ M2[a].u = M[a].u /\ M2[a].next = M[a].next
          \/ K[a] = "tail" /\ L[a] = d /\ M2[a].u = M[a].u /\ M2[a].next = s
          \/ K[a] \in {"header", "end"} /\ L[a] = d /\ M2[a].u = s /\ M2[a].next = M[a].next
Joined(K, L, s, d) == [a \in Addr |-> IF a = s \/ (K[a] = "tail" /\ L[a] = d + 1) THEN d ELSE L[a]]

LEMMA LinkOrdered ==
  ASSUME NEW low \in Addr, NEW F, NEW M, NEW M2, NEW R, NEW R2, NEW K, NEW L, NEW rd, NEW rd2,
         Above(low, F), Shape(M, R, K, L, low, F, rd), Ordered(M, R, K, L, low, F, rd),
         NEW s \in F, K[s] \in {"plain", "header"}, NEW d \in Nat,
         M[s].op = "LIST_" => TermAt(K, L, F, M[s].u, d + 1),
         Appends(M, M2, K, L, F, s, d),
         Depth(rd2) = d, d <= Depth(rd), Depth(rd) \in Nat,
         \A j \in 1 .. d : rd2[j] = "more" => rd[j] = "more",
         Shows(R2, Refs(low, Seen(K, F)), rd2)
  PROVE  Ordered(M2, R2, [K EXCEPT ![s] = "tail"], Joined(K, L, s, d), low, F, rd2)
<1> DEFINE K2 == [K EXCEPT ![s] = "tail"]
           L2 == Joined(K, L, s, d)
           C  == {s} \cup {a \in F : K[a] = "tail" /\ L[a] = d + 1}
<1>1. /\ F \subseteq Addr /\ s \in Addr /\ K2[s] = "tail" /\ L2[s] = d /\ s # NULL /\ NULL \notin F
      /\ \A a \in F \ {s} : K2[a] = K[a]
      /\ \A a \in F \ {s} : L2[a] = IF K[a] = "tail" /\ L[a] = d + 1 THEN d ELSE L[a]
      /\ K[s] # "tail" /\ K \in [Addr -> Kind] /\ L \in [Addr -> Int] /\ d + 1 # d /\ d + 1 > 0
  BY DEF Above, Shape, Joined, NULL, Addr
<1>2. \A a \in F \ {s} :
        /\ M2[a].op = M[a].op
        /\ Links(M2, a) \subseteq Links(M, a) \cup {s}
        /\ s \in Links(M2, a) => s \in Links(M, a) \/ (K[a] \in {"tail", "header", "end"} /\ L[a] = d)
        /\ K[a] = "tail" /\ L[a] # d => Links(M2, a) = Links(M, a)
  BY DEF Appends, Links
<1>3. Links(M2, s) \cap F \subseteq C /\ Links(M2, s) \cap F \subseteq Links(M, s)
  BY <1>1 DEF Appends, Links, TermAt
<1>4. \A p, j : TermAt(K, L, F, p, j) =>
        p # s /\ TermAt(K2, L2, F, p, IF j = d + 1 THEN d ELSE j)
  BY <1>1 DEF TermAt
<1> HIDE DEF K2, L2
<1>5. Acyclic(M2, F)
  <2>1. ASSUME NEW a \in F \cap C PROVE Links(M2, a) \cap F \subseteq Links(M, a) \cap C
    <3>1. CASE a = s
      BY <1>3, <3>1
    <3>2. CASE a # s
      <4>1. K[a] = "tail" /\ L[a] = d + 1 /\ Links(M2, a) = Links(M, a)
        BY <1>1, <1>2, <3>2, <2>1
      <4>2. \A b \in Links(M, a) : TermAt(K, L, F, b, d + 1)
        BY <1>1, <4>1 DEF Ordered, Leveled
      <4> QED
        BY <4>1, <4>2 DEF TermAt
    <3> QED
      BY <3>1, <3>2
  <2>2. \A a \in F \ C : Links(M2, a) \cap F \subseteq Links(M, a) \cup C
    BY <1>2
  <2>3. Acyclic(M, F)
    BY DEF Ordered
  <2> HIDE DEF C
  <2> QED
    BY <2>1, <2>2, <2>3, AcyclicInto
<1> HIDE DEF C
<1>6. Leveled(M2, K2, L2, F, rd2)
  <2>1. ASSUME NEW a \in F, K2[a] = "tail", L2[a] > 0, NEW b \in Links(M2, a)
        PROVE  TermAt(K2, L2, F, b, L2[a])
    <3>1. CASE a = s
      <4>1. b = NULL \/ (b = M[s].u /\ M[s].op = "LIST_")
        BY <2>1, <3>1 DEF Links, Appends
      <4>2. b = NULL => TermAt(K2, L2, F, b, L2[a])
        BY <1>1 DEF TermAt
      <4>3. b = M[s].u /\ M[s].op = "LIST_" => TermAt(K2, L2, F, b, d)
        BY <1>4
      <4> QED
        BY <1>1, <3>1, <4>1, <4>2, <4>3
    <3>2. CASE a # s
      <4>1. K[a] = "tail" /\ L[a] > 0
        BY <1>1, <2>1, <3>2
      <4>2. CASE b \in Links(M, a)
        <5>1. TermAt(K, L, F, b, L[a])
          BY <4>1, <4>2 DEF Ordered, Leveled
        <5> QED
          BY <1>1, <1>4, <3>2, <4>1, <5>1
      <4>3. CASE b \notin Links(M, a)
        <5>1. b = s /\ L[a] = d
          BY <1>2, <2>1, <3>2, <4>3
        <5> QED
          BY <1>1, <3>2, <5>1 DEF TermAt
      <4> QED
        BY <4>2, <4>3
    <3> QED
      BY <3>1, <3>2
  <2>2. ASSUME NEW a \in F, K2[a] \in {"header", "end"}, L2[a] \in 1 .. d,
               TermAt(K, L, F, M[a].u, L[a])
        PROVE  TermAt(K2, L2, F, M2[a].u, L2[a])
    <3>1. a # s /\ L2[a] = L[a] /\ K[a] = K2[a] /\ L[a] # d + 1
      BY <1>1, <2>2
    <3>2. CASE M2[a].u = M[a].u
      BY <1>4, <2>2, <3>1, <3>2
    <3>3. CASE M2[a].u # M[a].u
      <4>1. M2[a].u = s /\ L[a] = d
        BY <2>2, <3>1, <3>3 DEF Appends
      <4> QED
        BY <1>1, <3>1, <4>1 DEF TermAt
    <3> QED
      BY <3>2, <3>3
  <2>3. ASSUME NEW a \in F, K2[a] = "header", L2[a] \in 1 .. d
        PROVE  TermAt(K, L, F, M[a].u, L[a])
    <3>1. K[a] = "header" /\ L[a] \in 1 .. Depth(rd)
      BY <1>1, <2>3
    <3> QED
      BY <3>1 DEF Ordered, Leveled
  <2>4. ASSUME NEW a \in F, K2[a] = "end", L2[a] \in 1 .. d, rd2[L2[a]] = "more"
        PROVE  TermAt(K, L, F, M[a].u, L[a])
    <3>1. K[a] = "end" /\ L[a] \in 1 .. Depth(rd) /\ rd[L[a]] = "more"
      BY <1>1, <2>4
    <3> QED
      BY <3>1 DEF Ordered, Leveled
  <2> QED
    BY <2>1, <2>2, <2>3, <2>4 DEF Leveled
<1>7. Hiding(M2, R2, K2, low, F, rd2)
  <2>1. Seen(K2, F) = Seen(K, F) /\ s \in Seen(K, F)
    BY <1>1 DEF Seen, Hidden
  <2>2. s \in Refs(low, Seen(K, F)) /\ NULL \in Refs(low, Seen(K, F))
    BY <2>1, RefFacts
  <2>3. ASSUME NEW a \in Seen(K, F) PROVE Sound(M2[a], Refs(low, Seen(K, F)))
    <3>1. Sound(M[a], Refs(low, Seen(K, F))) /\ a \in F
      BY <2>3 DEF Ordered, Hiding, Seen
    <3> QED
      BY <2>2, <3>1 DEF Appends, Sound
  <2> QED
    BY <2>1, <2>3 DEF Hiding
<1> QED
  BY <1>5, <1>6, <1>7 DEF Ordered, K2, L2

(* map hangs s, to which nothing leads yet, on its list. *)
LEMMA HangOrdered ==
  ASSUME NEW low \in Addr, NEW F, NEW M, NEW M2, NEW R, NEW K, NEW L, NEW rd, rd # <<"run">>,
         Above(low, F), Shape(M, R, K, L, low, F, rd), Ordered(M, R, K, L, low, F, rd),
         NEW s \in F, K[s] = "plain", \A a \in F : s \notin Links(M, a),
         \A x \in Roots \ {"prog"} : R[x] # s, M2[s] = M[s],
         \A a \in F : M2[a] = M[a] \/ (K[a] \in Hidden /\ Links(M2, a) \subseteq Links(M, a) \cup {s})
  PROVE  Ordered(M2, R, [K EXCEPT ![s] = "item"], L, low, F, rd)
<1> DEFINE K2 == [K EXCEPT ![s] = "item"]
           C  == Seen(K, F)
<1>1. /\ F \subseteq Addr /\ K2[s] = "item" /\ \A a \in F \ {s} : K2[a] = K[a]
      /\ C \subseteq F /\ s \in C
      /\ \A a \in C : M2[a] = M[a] /\ Links(M2, a) = Links(M, a)
      /\ \A a \in F : Links(M2, a) \subseteq Links(M, a) \cup {s}
  BY DEF Above, Shape, Seen, Hidden, Links
<1>2. \A a \in C : Links(M, a) \subseteq Refs(low, C)
  BY DEF Ordered, Hiding, Sound, Links
<1>3. F \cap Refs(low, C) \subseteq C
  BY <1>1 DEF Refs, Above, Addr
<1> HIDE DEF K2, C
<1>4. Acyclic(M2, F)
  <2>1. \A a \in F \cap C : Links(M2, a) \cap F \subseteq Links(M, a) \cap C
    BY <1>1, <1>2, <1>3
  <2>2. \A a \in F \ C : Links(M2, a) \cap F \subseteq Links(M, a) \cup C
    BY <1>1
  <2>3. Acyclic(M, F)
    BY DEF Ordered
  <2> QED
    BY <2>1, <2>2, <2>3, AcyclicInto
<1>5. Leveled(M2, K2, L, F, rd)
  <2>1. \A p, j : TermAt(K, L, F, p, j) => TermAt(K2, L, F, p, j)
    BY <1>1 DEF TermAt
  <2>2. \A a \in F : K2[a] \in {"tail", "header", "end"} =>
          K[a] = K2[a] /\ M2[a] = M[a] /\ Links(M2, a) = Links(M, a)
    BY <1>1 DEF C, Seen, Hidden
  <2> QED
    BY <2>1, <2>2 DEF Ordered, Leveled
<1>6. Hiding(M2, R, K2, low, F, rd)
  <2>1. Seen(K2, F) = C \ {s}
    BY <1>1 DEF C, Seen, Hidden
  <2>2. \A p \in Refs(low, C) : p # s => p \in Refs(low, Seen(K2, F))
    BY <2>1 DEF Refs
  <2>3. ASSUME NEW a \in Seen(K2, F) PROVE Sound(M2[a], Refs(low, Seen(K2, F)))
    <3>1. a \in C /\ Sound(M[a], Refs(low, C)) /\ M2[a] = M[a] /\ a \in F
      BY <1>1, <2>1, <2>3 DEF Ordered, Hiding, C
    <3>2. M[a].next # s /\ (M[a].op = "LIST_" => M[a].u # s)
      BY <3>1 DEF Links
    <3> QED
      BY <2>2, <3>1, <3>2 DEF Sound
  <2>4. Shows(R, Refs(low, Seen(K2, F)), rd)
    BY <2>2 DEF Ordered, Hiding, Shows, C
  <2> QED
    BY <2>3, <2>4 DEF Hiding
<1> QED
  BY <1>4, <1>5, <1>6 DEF Ordered, K2

(* map puts its list on the stack: the program sees it. *)
Shown(K) == [a \in Addr |-> IF K[a] \in Hidden THEN "plain" ELSE K[a]]

LEMMA ShownShape ==
  ASSUME NEW low \in Addr, NEW F, NEW M, NEW R, NEW R2, NEW K, NEW L, NEW rd,
         Above(low, F), Shape(M, R, K, L, low, F, rd),
         \A x \in Roots \ {"dump2", "dump3"} : R2[x] = R[x],
         R2["dump2"] = NULL, R2["dump3"] = NULL
  PROVE  Shape(M, R2, Shown(K), L, low, F, rd)
<1> DEFINE K2 == Shown(K)
<1>1. /\ K2 \in [Addr -> Kind] /\ F \subseteq Addr
      /\ \A a \in F : K2[a] # "plain" => K2[a] = K[a]
      /\ \A a \in F : K[a] \notin Hidden => K2[a] = K[a]
  BY DEF Above, Shape, Shown, Kind, Hidden
<1>2. /\ R2["stk"] = R["stk"] /\ R2["dump"] = R["dump"] /\ R2["conts"] = R["conts"] /\ R2["prog"] = R["prog"]
  BY DEF Roots
<1> HIDE DEF K2
<1>3. /\ \A p : TailAt(K, F, p) => TailAt(K2, F, p)
      /\ \A p : OnDump(K, F, p) => OnDump(K2, F, p)
      /\ \A p, j : HeaderAt(K, L, F, p, j) => HeaderAt(K2, L, F, p, j)
      /\ \A p, j : EndAt(K, L, F, p, j) => EndAt(K2, L, F, p, j)
  BY <1>1 DEF TailAt, OnDump, HeaderAt, EndAt, Hidden
<1>4. \A i, p : OnEnds(K, L, F, rd, i, p) => OnEnds(K2, L, F, rd, i, p)
  BY <1>3 DEF OnEnds
<1>5. Reaches(R2, low, F, rd)
  BY <1>2, RefFacts DEF Shape, Reaches
<1>6. Chains(M, R2, K2, F)
  <2>1. \A p \in F : K[p] = "conts" => K2[p] = "conts"
    BY <1>1 DEF Hidden
  <2> QED
    BY <1>1, <1>2, <1>3, <2>1 DEF Shape, Chains
<1>7. Terms(M, R2, K2, L, F, rd)
  <2>1. \A j \in 1 .. Depth(rd) : rd[j] = "more" => \A a \in F : K2[a] = "end" /\ L[a] = j =>
          TailAt(K2, F, M[a].u) /\ OnEnds(K2, L, F, rd, j - 1, M[a].next)
    BY <1>1, <1>3, <1>4 DEF Shape, Terms
  <2> QED
    BY <1>1, <1>2, <1>3, <1>4, <2>1 DEF Shape, Terms
<1>8. Maps(M, R2, K2, F)
  BY DEF Maps
<1> QED
  BY <1>1, <1>5, <1>6, <1>7, <1>8 DEF Shape, K2

LEMMA ShownOrdered ==
  ASSUME NEW low \in Addr, NEW F, NEW M, NEW R, NEW R2, NEW K, NEW L, NEW rd,
         Above(low, F), Shape(M, R, K, L, low, F, rd), Ordered(M, R, K, L, low, F, rd),
         \A x \in Roots \ {"dump2", "dump3"} : R2[x] = R[x]
  PROVE  /\ Ordered(M, R2, Shown(K), L, low, F, rd)
         /\ Seen(Shown(K), F) = F
<1>1. /\ F \subseteq Addr
      /\ \A a \in F : Shown(K)[a] = IF K[a] \in Hidden THEN "plain" ELSE K[a]
  BY DEF Above, Shown
<1>2. Seen(Shown(K), F) = F
  BY <1>1 DEF Seen, Hidden
<1>3. \A p, j : TermAt(K, L, F, p, j) => TermAt(Shown(K), L, F, p, j)
  BY <1>1 DEF TermAt, Hidden
<1>4. \A a \in F : Shown(K)[a] # "plain" => K[a] = Shown(K)[a]
  BY <1>1
<1>5. Leveled(M, Shown(K), L, F, rd)
  BY <1>3, <1>4 DEF Ordered, Leveled
<1>6. Hiding(M, R2, Shown(K), low, F, rd)
  BY <1>2 DEF Shape, Closure, Reaches, Hiding, Shows, Roots
<1> QED
  BY <1>2, <1>5, <1>6 DEF Ordered

LEMMA SeenRefs ==
  ASSUME NEW low, NEW K, NEW F
  PROVE  Refs(low, Seen(K, F)) \subseteq Refs(low, F)
BY DEF Seen, Refs

(* What the program sees leads to what it sees. *)
LEMMA FollowSeen ==
  ASSUME NEW low \in Addr, NEW F, NEW M, NEW R, NEW K, NEW L, NEW rd,
         Shape(M, R, K, L, low, F, rd), Ordered(M, R, K, L, low, F, rd),
         NEW p \in Refs(low, Seen(K, F)), p # NULL
  PROVE  Sound(M[p], Refs(low, Seen(K, F)))
<1>1. CASE p \in Seen(K, F)
  BY <1>1 DEF Ordered, Hiding
<1>2. CASE p \in 0 .. low - 1
  BY <1>2, RefFacts DEF Shape, Closure, Sound
<1> QED
  BY <1>1, <1>2, RefCases

LEMMA KeepOrdered ==
  ASSUME NEW low \in Addr, NEW F, NEW M, NEW R, NEW R2, NEW K \in [Addr -> Kind], NEW L, NEW rd, NEW rd2,
         Above(low, F), Ordered(M, R, K, L, low, F, rd), NEW s \in F, K[s] = "plain",
         NEW k \in {"conts", "dump", "dump2", "dump3"},
         k \in Hidden => \A a \in F : s \notin Links(M, a),
         rd2 = rd \/ Depth(rd2) = 0,
         Shows(R2, Refs(low, Seen([K EXCEPT ![s] = k], F)), rd2)
  PROVE  Ordered(M, R2, [K EXCEPT ![s] = k], L, low, F, rd2)
<1> DEFINE K2 == [K EXCEPT ![s] = k]
<1>1. K2[s] = k /\ \A a \in F \ {s} : K2[a] = K[a]
  BY DEF Above
<1>2. \A a \in F : K2[a] \in {"header", "end"} => a # s
  BY <1>1
<1>3. \A a \in F : L[a] \in 1 .. Depth(rd2) => rd2 = rd
  OBVIOUS
<1>4. Shows(R2, Refs(low, Seen(K2, F)), rd2)
  OBVIOUS
<1> HIDE DEF K2
<1>5. K2[s] # "tail" /\ (K2[s] \in Hidden => \A a \in F : s \notin Links(M, a))
  BY <1>1
<1>6. \A a \in F \ {s} : L[a] = L[a] /\ (K2[a] = K[a] \/ (K2[a] = "plain" /\ K[a] \in {"header", "end"}))
  BY <1>1
<1>7. \A a \in F : K2[a] = "header" /\ L[a] \in 1 .. Depth(rd2) =>
        IF a = s THEN TermAt(K, L, F, M[s].u, L[s]) ELSE L[a] \in 1 .. Depth(rd)
  BY <1>2, <1>3
<1>8. \A a \in F : K2[a] = "end" /\ L[a] \in 1 .. Depth(rd2) /\ rd2[L[a]] = "more" =>
        IF a = s THEN TermAt(K, L, F, M[s].u, L[s]) ELSE L[a] \in 1 .. Depth(rd) /\ rd[L[a]] = "more"
  BY <1>2, <1>3
<1>9. Ordered(M, R2, K2, L, low, F, rd2)
  BY <1>4, <1>5, <1>6, <1>7, <1>8, PlaceOrdered
<1> QED
  BY <1>9 DEF K2

(* What opens a term. *)
LEMMA OpenOrdered ==
  ASSUME NEW low \in Addr, NEW F, NEW M, NEW R, NEW R2, NEW K, NEW K2, NEW L, NEW L2 \in [Addr -> Int],
         NEW rd \in Seq(Phases), NEW rd2 \in Seq(Phases), NEW k, NEW n \in Nat,
         Above(low, F), Ordered(M, R, K, L, low, F, rd), NEW s \in F, K[s] = "plain",
         OpenedAs(K, K2, L, L2, F, s, k, n), TermAt(K, L, F, M[s].u, n),
         \/ k = "header" /\ n = Len(rd) + 1 /\ rd2 = Append(rd, "first")
         \/ /\ k = "end" /\ n = Len(rd) /\ Len(rd2) = n
            /\ \A m \in 1 .. n - 1 : rd2[m] = rd[m],
         Shows(R2, Refs(low, Seen(K, F)), rd2)
  PROVE  Ordered(M, R2, K2, L2, low, F, rd2) /\ Seen(K2, F) = Seen(K, F)
<1>1. /\ F \subseteq Addr /\ Len(rd) \in Nat /\ Depth(rd) = Len(rd) /\ Depth(rd2) = Len(rd2)
      /\ Len(rd2) = n
      /\ \A m \in 1 .. n - 1 : m \in 1 .. Len(rd) /\ rd2[m] = rd[m]
      /\ k = "header" => Len(rd) = n - 1 /\ rd2[n] = "first"
      /\ k = "end" => Len(rd) = n
  BY DepthIsLen DEF Above
<1>2. /\ K2[s] = k /\ L2[s] = n /\ k \in {"header", "end"}
      /\ \A a \in F \ {s} : /\ L2[a] = L[a]
                            /\ K2[a] = K[a] \/ (K2[a] = "plain" /\ K[a] \in {"header", "end"})
                            /\ K2[a] = k => L[a] # n
  BY DEF OpenedAs
<1>3. Seen(K2, F) = Seen(K, F)
  BY <1>2 DEF Seen, Hidden
<1>4. ASSUME NEW a \in F, K2[a] = "header", L2[a] \in 1 .. Depth(rd2)
      PROVE  IF a = s THEN TermAt(K, L, F, M[s].u, L2[s]) ELSE L[a] \in 1 .. Depth(rd)
  BY <1>1, <1>2, <1>4
<1>5. ASSUME NEW a \in F, K2[a] = "end", L2[a] \in 1 .. Depth(rd2), rd2[L2[a]] = "more"
      PROVE  IF a = s THEN TermAt(K, L, F, M[s].u, L2[s])
             ELSE L[a] \in 1 .. Depth(rd) /\ rd[L[a]] = "more"
  <2>1. a # s => L[a] = L2[a] /\ L[a] # n
    BY <1>1, <1>2, <1>5
  <2>2. a # s => L[a] \in 1 .. n - 1
    BY <1>1, <1>5, <2>1
  <2> QED
    BY <1>1, <1>2, <1>5, <2>1, <2>2
<1>6. K2[s] # "tail" /\ K2[s] \notin Hidden
  BY <1>2 DEF Hidden
<1> QED
  BY <1>2, <1>3, <1>4, <1>5, <1>6, PlaceOrdered

-----------------------------------------------------------------------------
(* newnode and its callers: what is stored where, place by place.          *)

(* Another kind for s; one more cell; registers that agree outside X.       *)
As(K, s, k)     == [K EXCEPT ![s] = k]
With(F, s)      == F \cup {s}
Filled(h, s, c) == [h EXCEPT ![s] = Node(c.op, c.u, c.next)]
Same(R, R2, X)  == \A x \in Roots \ X : R2[x] = R[x]

(* The new cell s is there, and the arguments c are in it. *)
Added(M, R, K, L, low, F, rd, s, c) ==
  /\ Above(low, F) /\ Shape(M, R, K, L, low, F, rd) /\ Args(M, R, K, L, low, F, rd, c)
  /\ s \in F /\ K[s] = "plain" /\ M[s] = Node(c.op, c.u, c.next)

LEMMA AddedCell ==
  ASSUME NEW low \in Addr, NEW F, NEW M, NEW R, NEW K, NEW L, NEW rd, NEW s, NEW c,
         Added(M, R, K, L, low, F, rd, s, c)
  PROVE  /\ M[s].op = c.op /\ M[s].u = c.u /\ M[s].next = c.next
         /\ s \in F /\ s \in Refs(low, F) /\ s \in Addr /\ s # NULL
         /\ Shape(M, R, K, L, low, F, rd) /\ Args(M, R, K, L, low, F, rd, c)
         /\ Above(low, F) /\ K[s] = "plain"
BY RefFacts DEF Added, Node, Above, NULL, Addr

LEMMA NoTerm ==
  ASSUME NEW low \in Addr, NEW F, NEW M, NEW R, NEW K, NEW L, NEW rd,
         Shape(M, R, K, L, low, F, rd), Depth(rd) = 0
  PROVE  OnDump(K, F, R["dump"])
BY DEF Shape, Terms, OnEnds

LEMMA PutStk ==
  ASSUME NEW low \in Addr, NEW F, NEW M, NEW R, NEW R2, NEW K, NEW L, NEW rd,
         Shape(M, R, K, L, low, F, rd), Depth(rd) = 0,
         Same(R, R2, {"stk"}), R2["stk"] \in Refs(low, F)
  PROVE  Shape(M, R2, K, L, low, F, rd)
<1>1. /\ R2["conts"] = R["conts"] /\ R2["dump"] = R["dump"] /\ R2["prog"] = R["prog"]
      /\ R2["dump2"] = R["dump2"] /\ R2["dump3"] = R["dump3"]
  BY DEF Roots, Same
<1>2. Reaches(R2, low, F, rd) /\ Maps(M, R2, K, F)
  BY <1>1 DEF Shape, Reaches, Maps, Same
<1>3. /\ R2["conts"] # NULL => R2["conts"] \in F /\ K[R2["conts"]] = "conts"
      /\ OnDump(K, F, R2["dump"])
  BY <1>1, NoTerm DEF Shape, Chains
<1> QED
  BY <1>2, <1>3, SetRegisters

LEMMA PutDump ==
  ASSUME NEW low \in Addr, NEW F, NEW M, NEW R, NEW R2, NEW K, NEW L, NEW rd, NEW s, NEW c,
         Added(M, R, K, L, low, F, rd, s, c), c.place \in {"dump", "primrec"},
         Same(R, R2, {"stk", "dump"}), R2["dump"] = s,
         R2["stk"] \in Refs(low, F)
  PROVE  Shape(M, R2, As(K, s, "dump"), L, low, F, rd)
<1> DEFINE K2 == [K EXCEPT ![s] = "dump"]
<1>1. /\ rd = <<>> /\ Depth(rd) = 0 /\ s \in F /\ s \in Refs(low, F)
      /\ Shape(M, R, K, L, low, F, rd)
      /\ M[s].op = "LIST_" /\ OnDump(K, F, M[s].next)
  <2>1. /\ M[s].op = c.op /\ M[s].next = c.next /\ Args(M, R, K, L, low, F, rd, c)
        /\ s \in F /\ s \in Refs(low, F) /\ Shape(M, R, K, L, low, F, rd)
    BY AddedCell
  <2> QED
    BY <2>1 DEF Args, Depth
<1>2. Shape(M, R, K2, L, low, F, rd)
  BY <1>1, Rekind DEF Added
<1>3. K2[s] = "dump"
  BY <1>1 DEF Added, Above, Shape
<1>4. /\ R2["conts"] = R["conts"] /\ R2["prog"] = R["prog"]
      /\ R2["dump2"] = R["dump2"] /\ R2["dump3"] = R["dump3"]
  BY DEF Roots, Same
<1> HIDE DEF K2
<1>5. Reaches(R2, low, F, rd) /\ Maps(M, R2, K2, F)
  BY <1>1, <1>2, <1>4 DEF Shape, Reaches, Maps, Same
<1>6. /\ R2["conts"] # NULL => R2["conts"] \in F /\ K2[R2["conts"]] = "conts"
      /\ OnDump(K2, F, R2["dump"])
  BY <1>1, <1>2, <1>3, <1>4 DEF Shape, Chains, OnDump
<1>7. Shape(M, R2, K2, L, low, F, rd)
  BY <1>1, <1>2, <1>5, <1>6, SetRegisters
<1> QED
  BY <1>7 DEF K2, As

LEMMA PutConts ==
  ASSUME NEW low \in Addr, NEW F, NEW M, NEW R, NEW R2, NEW K, NEW L, NEW rd, NEW s, NEW c,
         Added(M, R, K, L, low, F, rd, s, c), c.place = "conts",
         Same(R, R2, {"conts"}), R2["conts"] = s
  PROVE  Shape(M, R2, As(K, s, "conts"), L, low, F, <<>>)
<1> DEFINE K2 == [K EXCEPT ![s] = "conts"]
<1>1. /\ Depth(rd) = 0 /\ Depth(<<>>) = 0 /\ s \in F /\ s \in Refs(low, F)
      /\ Shape(M, R, K, L, low, F, rd)
      /\ M[s].op = "LIST_" /\ (M[s].next # NULL => M[s].next \in F /\ K[M[s].next] = "conts")
  <2>1. /\ M[s].op = c.op /\ M[s].next = c.next /\ Args(M, R, K, L, low, F, rd, c)
        /\ s \in F /\ s \in Refs(low, F) /\ Shape(M, R, K, L, low, F, rd)
    BY AddedCell
  <2> QED
    BY <2>1 DEF Args, Depth
<1>2. Shape(M, R, K2, L, low, F, rd)
  BY <1>1, Rekind DEF Added
<1>3. K2[s] = "conts"
  BY <1>1 DEF Added, Above, Shape
<1>4. /\ R2["dump"] = R["dump"] /\ R2["dump2"] = R["dump2"] /\ R2["dump3"] = R["dump3"]
  BY DEF Roots, Same
<1> HIDE DEF K2
<1>5. Reaches(R2, low, F, <<>>) /\ Maps(M, R2, K2, F)
  BY <1>1, <1>2, <1>4 DEF Shape, Reaches, Maps, Same
<1>6. OnDump(K2, F, R2["dump"])
  BY <1>1, <1>2, <1>4, NoTerm
<1>7. Shape(M, R2, K2, L, low, F, <<>>)
  BY <1>1, <1>2, <1>3, <1>5, <1>6, SetRegisters
<1> QED
  BY <1>7 DEF K2, As

LEMMA PutMap ==
  ASSUME NEW low \in Addr, NEW F, NEW M, NEW R, NEW R2, NEW K, NEW L, NEW rd, NEW s, NEW c,
         NEW x \in {"dump2", "dump3"},
         Added(M, R, K, L, low, F, rd, s, c), c.place = x,
         Same(R, R2, {x}), R2[x] = s
  PROVE  Shape(M, R2, As(K, s, x), L, low, F, rd)
<1> DEFINE K2 == [K EXCEPT ![s] = x]
<1>1. /\ s \in F /\ s \in Refs(low, F) /\ s # NULL /\ Shape(M, R, K, L, low, F, rd)
      /\ M[s].op = "LIST_" /\ M[s].next = NULL /\ M[s].u = NULL
      /\ x = "dump2" => R["dump2"] = NULL
      /\ x = "dump3" => R["dump2"] # NULL /\ R["dump3"] = NULL
  <2>1. /\ M[s].op = c.op /\ M[s].u = c.u /\ M[s].next = c.next
        /\ Args(M, R, K, L, low, F, rd, c) /\ s \in F /\ s \in Refs(low, F) /\ s # NULL
        /\ Shape(M, R, K, L, low, F, rd)
    BY AddedCell
  <2> QED
    BY <2>1 DEF Args
<1>2. Shape(M, R, K2, L, low, F, rd)
  BY <1>1, Rekind DEF Added
<1>3. K2[s] = x
  BY <1>1 DEF Added, Above, Shape
<1>4. \A y \in Roots \ {"dump2", "dump3"} : R2[y] = R[y]
  BY DEF Same
<1> HIDE DEF K2
<1>5. CASE x = "dump2"
  <2>1. R2["dump3"] = NULL
    BY <1>1, <1>2, <1>5 DEF Roots, Shape, Maps, Same
  <2>2. R2["dump2"] \in Refs(low, F) /\ R2["dump3"] \in Refs(low, F)
    BY <1>1, <1>5, <2>1, RefFacts
  <2>3. Maps(M, R2, K2, F)
    BY <1>1, <1>3, <1>5, <2>1 DEF Maps
  <2>4. Shape(M, R2, K2, L, low, F, rd)
    BY <1>2, <1>4, <2>2, <2>3, SetMap
  <2> QED
    BY <2>4 DEF K2, As
<1>6. CASE x = "dump3"
  <2>1. R2["dump2"] = R["dump2"]
    BY <1>6 DEF Roots, Same
  <2>2. R2["dump2"] \in Refs(low, F) /\ R2["dump3"] \in Refs(low, F)
    BY <1>1, <1>2, <1>6, <2>1 DEF Roots, Shape, Reaches
  <2>3. Maps(M, R2, K2, F)
    BY <1>1, <1>2, <1>3, <1>6, <2>1 DEF Shape, Maps
  <2>4. Shape(M, R2, K2, L, low, F, rd)
    BY <1>2, <1>4, <2>2, <2>3, SetMap
  <2> QED
    BY <2>4 DEF K2, As
<1> QED
  BY <1>5, <1>6

LEMMA PutMapped ==
  ASSUME NEW low \in Addr, NEW F, NEW M, NEW R, NEW R2, NEW K, NEW L, NEW rd,
         Shape(M, R, K, L, low, F, rd), Depth(rd) = 0,
         Same(R, R2, {"stk", "dump2", "dump3"}),
         R2["stk"] \in Refs(low, F), R2["dump2"] = NULL, R2["dump3"] = NULL
  PROVE  Shape(M, R2, K, L, low, F, rd)
<1>1. R2["conts"] = R["conts"] /\ R2["dump"] = R["dump"] /\ R2["prog"] = R["prog"]
  BY DEF Roots, Same
<1>2. Reaches(R2, low, F, rd) /\ Maps(M, R2, K, F)
  BY <1>1, RefFacts DEF Shape, Reaches, Maps, Same
<1>3. /\ R2["conts"] # NULL => R2["conts"] \in F /\ K[R2["conts"]] = "conts"
      /\ OnDump(K, F, R2["dump"])
  BY <1>1, NoTerm DEF Shape, Chains
<1> QED
  BY <1>2, <1>3, SetRegisters

(* The phases of the terms being read are sequences, and only the last     *)
(* term has an end that is not on dump yet.                                *)
Wellread(rd) ==
  rd = <<"run">> \/ (rd \in Seq(Phases) /\ \A m \in 1 .. Len(rd) - 1 : rd[m] # "end")

(* What Link does with the factor s: d is the dump, t the last factor.      *)
LinksFactor(M, M2, s, d, t, rd, rd2) ==
  IF rd[Len(rd)] = "first"
  THEN M2 = [M EXCEPT ![M[s].next].u = s, ![s].next = NULL] /\ rd2 = [rd EXCEPT ![Len(rd)] = "end"]
  ELSE M2 = [M EXCEPT ![t].next = s, ![s].next = NULL, ![d].u = s] /\ rd2 = rd

(* The factor s, still apart from the term below it, is linked into it.     *)
Linking(M, M2, R, K, L, low, F, rd, rd2, s, d, t) ==
  /\ low \in Addr /\ M \in [Addr -> Cell] /\ rd \in Seq(Phases)
  /\ Above(low, F) /\ Shape(M, R, K, L, low, F, rd) /\ Len(rd) # 0 /\ rd[Len(rd)] # "end"
  /\ s \in F /\ K[s] = "tail" /\ R["stk"] = M[s].next
  /\ d = R["dump"] /\ t = M[d].u /\ LinksFactor(M, M2, s, d, t, rd, rd2)
LEMMA LinkedIn ==
  ASSUME NEW M, NEW M2, NEW R, NEW K, NEW L, NEW low, NEW F, NEW rd, NEW rd2, NEW s, NEW d, NEW t,
         Linking(M, M2, R, K, L, low, F, rd, rd2, s, d, t)
  PROVE  /\ Shape(M2, R, K, L, low, F, rd2)
         /\ \A x \in Addr \ F : M2[x] = M[x]
         /\ M2 \in [Addr -> Cell]
<1>0. /\ low \in Addr /\ M \in [Addr -> Cell] /\ rd \in Seq(Phases)
      /\ Above(low, F) /\ Shape(M, R, K, L, low, F, rd) /\ Len(rd) # 0 /\ rd[Len(rd)] # "end"
      /\ s \in F /\ K[s] = "tail" /\ R["stk"] = M[s].next
      /\ d = R["dump"] /\ t = M[d].u /\ LinksFactor(M, M2, s, d, t, rd, rd2)
  BY DEF Linking
<1> DEFINE n  == Len(rd)
           h  == M[s].next
<1>1. n \in Nat \ {0} /\ Depth(rd) = n /\ rd[n] \in {"first", "more"}
  BY <1>0, DepthIsLen DEF Phases
<1>2. HeaderAt(K, L, F, h, n)
  BY <1>0, <1>1 DEF Shape, Terms
<1>3. s \in Addr /\ h \in F /\ h \in Addr /\ h # s
  BY <1>0, <1>2 DEF HeaderAt, Above
<1> HIDE DEF h, n
<1>4. /\ M[s] \in Cell /\ M[h] \in Cell /\ s \in Int /\ s \in Ptr /\ NULL \in Ptr
  BY <1>0, <1>3 DEF Addr, Ptr
<1>5. CASE rd[n] = "first"
  <2>1. /\ M2 = [M EXCEPT ![h].u = s, ![s].next = NULL] /\ rd2 = [rd EXCEPT ![n] = "end"]
    BY <1>0, <1>5 DEF h, n, LinksFactor
  <2>2. LastPhase(rd, rd2, "end")
    BY <1>0, <1>1, <2>1 DEF LastPhase, Phases, n
  <2>3. /\ \A x \in Addr \ {s, h} : M2[x] = M[x]
        /\ M2[s] = [M[s] EXCEPT !.next = NULL] /\ M2[h] = [M[h] EXCEPT !.u = s]
    BY <1>0, <1>3, <2>1
  <2>4. /\ M2[s].op = M[s].op /\ M2[s].u = M[s].u /\ M2[s].next = NULL
        /\ M2[h].op = M[h].op /\ M2[h].u = s /\ M2[h].next = M[h].next
    BY <1>0, <1>4, <2>3 DEF Cell
  <2>5. Shape(M2, R, K, L, low, F, rd2)
    <3>1. R["stk"] = h /\ n # 0
      BY <1>0, <1>1 DEF h
    <3>2. LinkedFirst(M, M2, s, R["stk"])
      BY <1>0, <2>3, <2>4, <3>1 DEF LinkedFirst
    <3> QED
      BY <1>0, <1>5, <2>2, <3>1, <3>2, LinkFirst DEF n
  <2>6. M2 \in [Addr -> Cell]
    BY <1>0, <1>3, <1>4, <2>1 DEF Cell
  <2> QED
    BY <1>0, <1>3, <2>3, <2>5, <2>6
<1>6. CASE rd[n] # "first"
  <2>1. M2 = [M EXCEPT ![t].next = s, ![s].next = NULL, ![d].u = s] /\ rd2 = rd
    BY <1>0, <1>6 DEF n, LinksFactor
  <2>2. rd[n] = "more"
    BY <1>0, <1>1, <1>6
  <2>3. d \in F /\ t \in F /\ K[d] = "end" /\ K[t] = "tail"
    <3>1. OnEnds(K, L, F, rd, n, d) /\ n \in 1 .. Depth(rd)
      BY <1>0, <1>1 DEF Shape, Terms
    <3>2. EndAt(K, L, F, d, n)
      BY <1>0, <1>1, <2>2, <3>1, EndsTop
    <3>3. TailAt(K, F, t)
      BY <1>0, <2>2, <3>1, <3>2 DEF Shape, Terms, EndAt
    <3> QED
      BY <3>2, <3>3 DEF EndAt, TailAt
  <2>4. d \in Addr /\ t \in Addr /\ d # s /\ d # t /\ M[d] \in Cell /\ M[t] \in Cell
    BY <1>0, <2>3 DEF Above
  <2>5. /\ \A x \in Addr \ {s, t, d} : M2[x] = M[x]
        /\ M2[s].op = M[s].op /\ M2[s].u = M[s].u /\ M2[s].next = NULL
        /\ t # s => M2[t].op = M[t].op /\ M2[t].u = M[t].u /\ M2[t].next = s
        /\ M2[d].op = M[d].op /\ M2[d].u = s /\ M2[d].next = M[d].next
    BY <1>0, <1>3, <1>4, <2>1, <2>4 DEF Cell
  <2>6. Shape(M2, R, K, L, low, F, rd2)
    <3>1. n # 0
      BY <1>0, <1>1
    <3>2. LinkedMore(M, M2, s, d, t)
      BY <1>0, <2>5 DEF LinkedMore
    <3>3. Shape(M2, R, K, L, low, F, rd)
      BY <1>0, <2>2, <3>1, <3>2, LinkMore DEF n
    <3> QED
      BY <2>1, <3>3
  <2>7. M2 \in [Addr -> Cell]
    BY <1>0, <1>3, <1>4, <2>1, <2>4 DEF Cell
  <2> QED
    BY <1>0, <2>3, <2>5, <2>6, <2>7
<1> QED
  BY <1>5, <1>6

LEMMA PutFactor ==
  ASSUME NEW low \in Addr, NEW F, NEW M \in [Addr -> Cell], NEW M2, NEW R, NEW R2, NEW K, NEW L,
         NEW rd \in Seq(Phases), NEW rd2, NEW s, NEW c, NEW d, NEW t,
         Added(M, R, K, L, low, F, rd, s, c), c.place = "factor",
         Same(R, R2, {"stk"}), R2["stk"] = M[s].next,
         d = R["dump"], t = M[d].u,
         LinksFactor(M, M2, s, d, t, rd, rd2)
  PROVE  /\ Shape(M2, R2, As(K, s, "tail"), L, low, F, rd2)
         /\ \A x \in Addr \ F : M2[x] = M[x]
         /\ M2 \in [Addr -> Cell]
         /\ Tame(K, As(K, s, "tail"))
<1> DEFINE K2 == [K EXCEPT ![s] = "tail"]
           n  == Len(rd)
           h  == M[s].next
<1>1. /\ M[s].next = c.next /\ Args(M, R, K, L, low, F, rd, c)
      /\ s \in F /\ Shape(M, R, K, L, low, F, rd) /\ s \in Addr /\ K[s] = "plain" /\ Above(low, F)
  BY AddedCell
<1>2. n \in Nat \ {0} /\ Depth(rd) = n /\ rd[n] \in {"first", "more"} /\ HeaderAt(K, L, F, h, n)
  <2>1. Depth(rd) = n /\ n \in Nat
    BY DepthIsLen
  <2>2. n # 0 /\ HeaderAt(K, L, F, h, n) /\ rd[n] # "end"
    BY <1>1, <2>1 DEF Args
  <2>3. rd[n] \in Phases
    BY <2>1, <2>2
  <2> QED
    BY <2>1, <2>2, <2>3 DEF Phases
<1>3. Shape(M, R, K2, L, low, F, rd) /\ K2[s] = "tail" /\ (\A x \in F : x # s => K2[x] = K[x]) /\ Tame(K, K2)
  <2>1. Shape(M, R, K2, L, low, F, rd)
    BY <1>1, Rekind
  <2> QED
    BY <1>1, <2>1 DEF Above, Shape, Tame, Kind
<1> HIDE DEF K2, h, n
<1>4. HeaderAt(K2, L, F, h, n) /\ h \in F /\ h \in Addr /\ h # s
  BY <1>1, <1>2, <1>3 DEF HeaderAt, Above
<1>5. Shape(M, R2, K2, L, low, F, rd)
  BY <1>2, <1>3, <1>4, SetHeader DEF h, Same
<1>6. R2["dump"] = d /\ R2["stk"] = M[s].next
  BY DEF Roots, Same
<1>7. Len(rd) # 0 /\ rd[Len(rd)] # "end"
  BY <1>2 DEF n
<1>8. /\ Shape(M2, R2, K2, L, low, F, rd2)
      /\ \A x \in Addr \ F : M2[x] = M[x]
      /\ M2 \in [Addr -> Cell]
  <2>1. Linking(M, M2, R2, K2, L, low, F, rd, rd2, s, d, t)
    BY <1>1, <1>3, <1>5, <1>6, <1>7 DEF Linking
  <2> QED
    BY <2>1, LinkedIn
<1> QED
  BY <1>3, <1>8 DEF K2, As

(* map stores a result in its list, which has no members yet or at the end. *)
FirstResult(M, R, s)   == [M EXCEPT ![R["dump2"]].u = s, ![R["dump3"]].u = s]
NextResult(M, R, t, s) == [M EXCEPT ![t].next = s, ![R["dump3"]].u = s]

LEMMA PutFirst ==
  ASSUME NEW low \in Addr, NEW F, NEW M \in [Addr -> Cell], NEW M2, NEW R, NEW K, NEW L,
         NEW rd, NEW s, NEW c, Added(M, R, K, L, low, F, rd, s, c), c.place = "DMP2",
         M2 = FirstResult(M, R, s)
  PROVE  /\ Shape(M2, R, As(K, s, "item"), L, low, F, rd)
         /\ \A x \in Addr \ F : M2[x] = M[x]
         /\ M2 \in [Addr -> Cell]
<1> DEFINE K2 == [K EXCEPT ![s] = "item"]
           a  == R["dump2"]
           b  == R["dump3"]
           M1 == [x \in Addr |-> IF x = b THEN M2[b] ELSE M[x]]
<1>1. /\ Args(M, R, K, L, low, F, rd, c)
      /\ s \in F /\ Shape(M, R, K, L, low, F, rd) /\ s \in Addr /\ K[s] = "plain" /\ Above(low, F)
      /\ s \in Refs(low, F)
  BY AddedCell
<1>2. Shape(M, R, K2, L, low, F, rd) /\ K2[s] = "item"
  <2>1. Shape(M, R, K2, L, low, F, rd)
    BY <1>1, Rekind
  <2> QED
    BY <1>1, <2>1 DEF Above, Shape, Kind
<1> HIDE DEF K2
<1>3. b # NULL /\ a # NULL
  BY <1>1 DEF Args, Shape, Maps
<1>4. a \in F /\ b \in F /\ K2[a] = "dump2" /\ K2[b] = "dump3" /\ ItemAt(K2, F, s)
  BY <1>1, <1>2, <1>3 DEF Shape, Maps, ItemAt
<1>5. a \in Addr /\ b \in Addr /\ a # b /\ M[a] \in Cell /\ M[b] \in Cell /\ s \in Int
  <2>1. a \in Addr /\ b \in Addr /\ a # b
    BY <1>1, <1>4 DEF Above
  <2> HIDE DEF a, b
  <2> QED
    BY <1>1, <2>1 DEF Addr
<1>6. Sound(M[a], Refs(low, F)) /\ Sound(M[b], Refs(low, F))
  BY <1>1, <1>4 DEF Shape, Closure
<1>7. M2 \in [Addr -> Cell] /\ \A x \in Addr \ {a, b} : M2[x] = M[x]
  BY <1>5 DEF Cell, FirstResult
<1>8. /\ M2[a].op = M[a].op /\ M2[a].u = s /\ M2[a].next = M[a].next
      /\ M2[b].op = M[b].op /\ M2[b].u = s /\ M2[b].next = M[b].next
  BY <1>5 DEF Cell, FirstResult
<1>9. Sound(M2[a], Refs(low, F)) /\ Sound(M2[b], Refs(low, F))
  BY <1>1, <1>6, <1>8 DEF Sound
<1>10. Shape(M1, R, K2, L, low, F, rd)
  <2>1. M1[b] = M2[b] /\ \A x \in Addr : x # b => M1[x] = M[x]
    BY <1>5
  <2> HIDE DEF M1, a, b
  <2>2. MayWrite(M, M1, R, K2, low, F, rd, b)
    BY <1>4, <1>8, <1>9, <2>1 DEF MayWrite
  <2> QED
    BY <1>1, <1>2, <1>4, <2>2, WriteCell
<1>11. Shape(M2, R, K2, L, low, F, rd)
  <2>1. M1[b] = M2[b] /\ M1[a] = M[a] /\ \A x \in Addr : x # a => M2[x] = M1[x]
    BY <1>5, <1>7
  <2>2. M1[b].u = s
    BY <1>8, <2>1
  <2> HIDE DEF M1
  <2>3. MayWrite(M1, M2, R, K2, low, F, rd, a)
    BY <1>3, <1>4, <1>8, <1>9, <2>1, <2>2 DEF MayWrite
  <2> QED
    BY <1>1, <1>4, <1>10, <2>3, WriteCell
<1>12. \A x \in Addr \ F : M2[x] = M[x]
  BY <1>4, <1>7
<1> QED
  BY <1>7, <1>11, <1>12 DEF K2, As

LEMMA PutNext ==
  ASSUME NEW low \in Addr, NEW F, NEW M \in [Addr -> Cell], NEW M2, NEW R, NEW K, NEW L,
         NEW rd, NEW s, NEW c, Added(M, R, K, L, low, F, rd, s, c), c.place = "DMP3->next",
         NEW t, t = M[R["dump3"]].u,
         M2 = NextResult(M, R, t, s)
  PROVE  /\ Shape(M2, R, As(K, s, "item"), L, low, F, rd)
         /\ \A x \in Addr \ F : M2[x] = M[x]
         /\ M2 \in [Addr -> Cell]
<1> DEFINE K2 == [K EXCEPT ![s] = "item"]
           b  == R["dump3"]
           M1 == [x \in Addr |-> IF x = t THEN M2[t] ELSE M[x]]
<1>1. /\ Args(M, R, K, L, low, F, rd, c)
      /\ s \in F /\ Shape(M, R, K, L, low, F, rd) /\ s \in Addr /\ K[s] = "plain" /\ Above(low, F)
      /\ s \in Refs(low, F)
  BY AddedCell
<1>2. Shape(M, R, K2, L, low, F, rd) /\ K2[s] = "item"
  <2>1. Shape(M, R, K2, L, low, F, rd)
    BY <1>1, Rekind
  <2> QED
    BY <1>1, <2>1 DEF Above, Shape, Kind
<1> HIDE DEF K2
<1>3. b # NULL /\ M[R["dump2"]].u # NULL
  BY <1>1 DEF Args
<1>4. b \in F /\ K2[b] = "dump3" /\ ItemAt(K2, F, t) /\ ItemAt(K2, F, s)
  BY <1>1, <1>2, <1>3 DEF Shape, Maps, ItemAt
<1>5. t \in F /\ t \in Addr /\ b \in Addr /\ t # b /\ M[t] \in Cell /\ M[b] \in Cell
      /\ s \in Int /\ s \in Ptr /\ K2[t] = "item"
  <2>1. t \in F /\ t \in Addr /\ b \in Addr /\ t # b /\ K2[t] = "item"
    BY <1>1, <1>4 DEF Above, ItemAt
  <2> HIDE DEF b
  <2> QED
    BY <1>1, <2>1 DEF Addr, Ptr
<1>6. Sound(M[t], Refs(low, F)) /\ Sound(M[b], Refs(low, F))
  BY <1>1, <1>4, <1>5 DEF Shape, Closure
<1>7. M2 \in [Addr -> Cell] /\ \A x \in Addr \ {t, b} : M2[x] = M[x]
  BY <1>5 DEF Cell, NextResult
<1>8. /\ M2[t].op = M[t].op /\ M2[t].u = M[t].u /\ M2[t].next = s
      /\ M2[b].op = M[b].op /\ M2[b].u = s /\ M2[b].next = M[b].next
  BY <1>5 DEF Cell, NextResult
<1>9. Sound(M2[t], Refs(low, F)) /\ Sound(M2[b], Refs(low, F))
  BY <1>1, <1>6, <1>8 DEF Sound
<1>10. Shape(M1, R, K2, L, low, F, rd)
  <2>1. M1[t] = M2[t] /\ \A x \in Addr : x # t => M1[x] = M[x]
    BY <1>5
  <2> HIDE DEF M1, b
  <2>2. MayWrite(M, M1, R, K2, low, F, rd, t)
    BY <1>5, <1>9, <2>1 DEF MayWrite
  <2> QED
    BY <1>1, <1>2, <1>5, <2>2, WriteCell
<1>11. Shape(M2, R, K2, L, low, F, rd)
  <2>1. M1[b] = M[b] /\ \A x \in Addr : x # b => M2[x] = M1[x]
    BY <1>5, <1>7
  <2> HIDE DEF M1, b
  <2>2. MayWrite(M1, M2, R, K2, low, F, rd, b)
    BY <1>4, <1>8, <1>9, <2>1 DEF MayWrite
  <2> QED
    BY <1>1, <1>4, <1>10, <2>2, WriteCell
<1>12. \A x \in Addr \ F : M2[x] = M[x]
  BY <1>4, <1>5, <1>7
<1> QED
  BY <1>7, <1>11, <1>12 DEF K2, As

-----------------------------------------------------------------------------
(* Deliver: every place of newnode keeps the heap in shape.                *)
ReaderPlaces == {"header", "factor", "end"}

(* The operators that leave a value or a list to be followed up. *)
Pending(M, R, low, F, rd, b, cur) ==
  /\ b \in Refs(low, F) /\ cur \in Refs(low, F)
  /\ b = NULL \/ cur = NULL
  /\ b # NULL \/ cur # NULL => rd = <<>> /\ Even(R)
  /\ b # NULL => Pair(M, R)

LEMMA RefTypes ==
  ASSUME NEW low \in Addr, NEW F, Above(low, F)
  PROVE  Refs(low, F) \subseteq Ptr /\ Refs(low, F) \subseteq Int
<1> SUFFICES ASSUME NEW p \in Refs(low, F) PROVE p \in Ptr /\ p \in Int
  OBVIOUS
<1>1. CASE p = NULL
  BY <1>1 DEF NULL, Ptr
<1>2. CASE p \in 0 .. low - 1
  BY <1>2, Below DEF Ptr
<1>3. CASE p \in F
  BY <1>3 DEF Above, Ptr, Addr
<1> QED
  BY <1>1, <1>2, <1>3, RefCases

(* What newnode starts from, and what it leaves behind. *)
Ready(h, low, F, s, c, K, L) ==
  /\ h \in [Addr -> Cell] /\ root \in [Roots -> Ptr] /\ Wellread(reading)
  /\ Above(low, F) /\ s \in Addr /\ s >= low /\ s \notin F
  /\ Shape(h, root, K, L, low, F, reading) /\ Args(h, root, K, L, low, F, reading, c)
  /\ Ordered(h, root, K, L, low, F, reading) /\ Clear(K, L, low, F, reading, c)
  /\ h = memory \/ c.place \in {"literal", "stk"}
  /\ current \in Refs(low, Seen(K, F))
  /\ bucket # NULL => c.place = "stk"
  /\ current # NULL <=> c.place = "member"
  /\ c.place = "member" => Even(root)

Stored(h, low, F, s, c, K) ==
  /\ memory' \in [Addr -> Cell] /\ root' \in [Roots -> Ptr] /\ Wellread(reading')
  /\ \A x \in Addr \ With(F, s) : memory'[x] = h[x]
  /\ \E K2, L2 : /\ Shape(memory', root', K2, L2, low, With(F, s), reading')
                 /\ Ordered(memory', root', K2, L2, low, With(F, s), reading')
                 /\ {bucket', current'} \subseteq Refs(low, Seen(K2, With(F, s)))
                 /\ c.place \in ReaderPlaces => Tame(As(K, s, "plain"), K2)
  /\ c.place \in ReaderPlaces => Same(root, root', {"stk", "dump"})
  /\ Pending(memory', root', low, With(F, s), reading', bucket', current')
  /\ bucket' # NULL \/ current' # NULL => c.place \in {"bucket", "primrec", "member"}

(* The cell is there: the same facts about the memory with it. *)
LEMMA ReadyAdded ==
  ASSUME NEW low \in Addr, NEW h, NEW F, NEW s, NEW c, NEW K, NEW L,
         Ready(h, low, F, s, c, K, L)
  PROVE  /\ Added(Filled(h, s, c), root, As(K, s, "plain"), L, low, With(F, s), reading, s, c)
         /\ Filled(h, s, c) \in [Addr -> Cell]
         /\ \A x \in Addr : x # s => Filled(h, s, c)[x] = h[x]
         /\ Refs(low, F) \subseteq Refs(low, With(F, s)) /\ \A p \in Refs(low, F) : p # s
         /\ Refs(low, With(F, s)) \subseteq Ptr
<1> DEFINE h2 == Filled(h, s, c)  K1 == As(K, s, "plain")  G == With(F, s)
<1>0. h2 = [h EXCEPT ![s] = Node(c.op, c.u, c.next)] /\ K1 = [K EXCEPT ![s] = "plain"] /\ G = F \cup {s}
  BY DEF Filled, As, With
<1> HIDE DEF h2, K1, G
<1>1. /\ Above(low, F) /\ s \in Addr /\ s >= low /\ s \notin F /\ h \in [Addr -> Cell]
      /\ Shape(h, root, K, L, low, F, reading) /\ Args(h, root, K, L, low, F, reading, c)
  BY DEF Ready
<1>2. Above(low, G)
  BY <1>0, <1>1 DEF Above
<1>3. Refs(low, F) \subseteq Refs(low, G) /\ Refs(low, F) \subseteq Ptr /\ Refs(low, G) \subseteq Ptr
  BY <1>0, <1>1, <1>2, RefTypes DEF Refs
<1>4. c.op \in {"INTEGER_", "LIST_"} /\ c.u \in Int /\ c.next \in Refs(low, F)
      /\ (c.op = "LIST_" => c.u \in Refs(low, F))
  BY <1>1 DEF Args
<1>5. Node(c.op, c.u, c.next) \in Cell
  BY <1>3, <1>4 DEF Node, Cell, Ops
<1>6. h2 \in [Addr -> Cell] /\ h2[s] = Node(c.op, c.u, c.next) /\ \A x \in Addr : x # s => h2[x] = h[x]
  BY <1>0, <1>1, <1>5
<1>7. Sound(h2[s], Refs(low, F))
  BY <1>4, <1>6 DEF Sound, Node
<1>8. Shape(h2, root, [K EXCEPT ![s] = "plain"], L, low, F \cup {s}, reading)
  BY <1>1, <1>6, <1>7, AddCell
<1>9. Args(h2, root, [K EXCEPT ![s] = "plain"], L, low, F \cup {s}, reading, c)
  BY <1>1, <1>6, AddedArgs
<1>10. K1[s] = "plain" /\ s \in G
  BY <1>0, <1>1 DEF Shape
<1>11. \A p \in Refs(low, F) : p # s
  <2> SUFFICES ASSUME s \in Refs(low, F) PROVE FALSE
    OBVIOUS
  <2>1. s = NULL \/ s \in 0 .. low - 1
    BY <1>1, RefCases
  <2>2. s # NULL
    BY <1>1 DEF NULL, Addr
  <2>3. s < low
    BY <2>1, <2>2, Below
  <2> QED
    BY <1>1, <2>3 DEF Addr
<1>12. Added(h2, root, K1, L, low, G, reading, s, c)
  BY <1>0, <1>2, <1>6, <1>8, <1>9, <1>10 DEF Added
<1> QED
  BY <1>3, <1>6, <1>11, <1>12 DEF h2, K1, G

LEMMA NothingPending ==
  ASSUME NEW low \in Addr, NEW F, NEW M, NEW R, NEW rd
  PROVE  Pending(M, R, low, F, rd, NULL, NULL)
BY RefFacts DEF Pending

(* Registers in X are set to what the program sees. *)
LEMMA ShowsSet ==
  ASSUME NEW R, NEW R2, NEW P, NEW P2, P \subseteq P2, NEW rd, NEW rd2, Shows(R, P, rd),
         NEW X, Same(R, R2, X), \A x \in X : x \in {"dump2", "dump3"} \/ R2[x] \in P2,
         rd2 = rd \/ rd2 # <<"run">>
  PROVE  Shows(R2, P2, rd2)
<1>1. \A x \in Roots \ {"prog", "dump2", "dump3"} : R2[x] \in P2
  BY DEF Shows, Same
<1>2. rd2 = <<"run">> => R2["prog"] \in P2
  BY DEF Shows, Same, Roots
<1> QED
  BY <1>1, <1>2 DEF Shows

(* What the program sees, it still sees; nothing leads to the new cell.     *)
LEMMA ReadySeen ==
  ASSUME NEW low \in Addr, NEW h, NEW F, NEW s, NEW c, NEW K, NEW L,
         Ready(h, low, F, s, c, K, L), NEW k \in Kind
  PROVE  /\ Refs(low, Seen(K, F)) \subseteq Refs(low, Seen(As(As(K, s, "plain"), s, k), With(F, s)))
         /\ k \notin Hidden => s \in Refs(low, Seen(As(As(K, s, "plain"), s, k), With(F, s)))
         /\ Shows(root, Refs(low, Seen(K, F)), reading)
<1>1. /\ s \in Addr /\ s \notin F /\ K \in [Addr -> Kind] /\ F \subseteq Addr
      /\ Ordered(h, root, K, L, low, F, reading)
  BY DEF Ready, Shape, Above
<1> DEFINE K2 == As(As(K, s, "plain"), s, k)
<1>2. K2[s] = k /\ \A a \in F : K2[a] = K[a]
  BY <1>1 DEF As, Kind
<1> HIDE DEF K2
<1>3. /\ Seen(K, F) \subseteq Seen(K2, With(F, s))
      /\ k \notin Hidden => s \in Seen(K2, With(F, s))
  BY <1>2 DEF Seen, With
<1>4. /\ Refs(low, Seen(K, F)) \subseteq Refs(low, Seen(K2, With(F, s)))
      /\ k \notin Hidden => s \in Refs(low, Seen(K2, With(F, s)))
  BY <1>3 DEF Refs
<1> QED
  BY <1>1, <1>4 DEF Ordered, Hiding, K2

LEMMA ReadyOrdered ==
  ASSUME NEW low \in Addr, NEW h, NEW F, NEW s, NEW c, NEW K, NEW L,
         Ready(h, low, F, s, c, K, L), c.place # "mapped"
  PROVE  LET h2 == Filled(h, s, c)  K1 == As(K, s, "plain")  G == With(F, s)
         IN  /\ Ordered(h2, root, K1, L, low, G, reading)
             /\ \A a \in G : s \notin Links(h2, a)
             /\ \A x \in Roots \ {"prog"} : root[x] # s
             /\ \A p, j : p # s /\ TermAt(K, L, F, p, j) => TermAt(K1, L, G, p, j)
<1>1. /\ Above(low, F) /\ s \in Addr /\ s >= low /\ s \notin F /\ h \in [Addr -> Cell]
      /\ Shape(h, root, K, L, low, F, reading) /\ Ordered(h, root, K, L, low, F, reading)
      /\ Args(h, root, K, L, low, F, reading, c) /\ Clear(K, L, low, F, reading, c)
  BY DEF Ready
<1>2. \A x \in Addr : x # s => Filled(h, s, c)[x] = h[x]
  BY ReadyAdded
<1>3. Filled(h, s, c)[s] = Node(c.op, c.u, c.next)
  BY <1>1 DEF Filled
<1>4. Sound(Filled(h, s, c)[s], Refs(low, Seen(K, F)))
  BY <1>1, <1>3 DEF Sound, Node, Args, Clear
<1> DEFINE h2 == Filled(h, s, c)
<1> HIDE DEF h2
<1>5. /\ Ordered(h2, root, [K EXCEPT ![s] = "plain"], L, low, F \cup {s}, reading)
      /\ \A a \in F \cup {s} : s \notin Links(h2, a)
      /\ \A x \in Roots \ {"prog"} : root[x] # s
  BY <1>1, <1>2, <1>4, AddOrdered DEF h2
<1>6. \A p, j : p # s /\ TermAt(K, L, F, p, j) => TermAt([K EXCEPT ![s] = "plain"], L, F \cup {s}, p, j)
  BY <1>1 DEF TermAt, Shape, Above
<1> QED
  BY <1>5, <1>6 DEF As, With, h2

(* The same for the list that map has built, which the program comes to see. *)
LEMMA ReadyMapped ==
  ASSUME NEW low \in Addr, NEW h, NEW F, NEW s, NEW c, NEW K, NEW L,
         Ready(h, low, F, s, c, K, L),
         NEW R, Same(root, R, {"dump2", "dump3"}), R["dump2"] = NULL, R["dump3"] = NULL
  PROVE  LET h2 == Filled(h, s, c)  K1 == As(Shown(K), s, "plain")  G == With(F, s)
         IN  /\ Shape(h2, R, K1, L, low, G, reading) /\ Ordered(h2, R, K1, L, low, G, reading)
             /\ Refs(low, G) \subseteq Refs(low, Seen(K1, G))
<1>1. /\ Above(low, F) /\ s \in Addr /\ s >= low /\ s \notin F /\ h \in [Addr -> Cell]
      /\ Shape(h, root, K, L, low, F, reading) /\ Ordered(h, root, K, L, low, F, reading)
      /\ Args(h, root, K, L, low, F, reading, c)
  BY DEF Ready
<1>2. \A x \in Addr : x # s => Filled(h, s, c)[x] = h[x]
  BY ReadyAdded
<1>3. Filled(h, s, c)[s] = Node(c.op, c.u, c.next)
  BY <1>1 DEF Filled
<1> DEFINE h2 == Filled(h, s, c)
           K0 == Shown(K)
<1>4. Sound(h2[s], Refs(low, F))
  BY <1>1, <1>3 DEF Sound, Node, Args
<1>5. \A x \in Roots \ {"dump2", "dump3"} : R[x] = root[x]
  BY DEF Same
<1> HIDE DEF h2, K0
<1>6. Shape(h, R, K0, L, low, F, reading)
  BY <1>1, <1>5, ShownShape DEF K0
<1>7. Ordered(h, R, K0, L, low, F, reading) /\ Seen(K0, F) = F
  BY <1>1, <1>5, ShownOrdered DEF K0
<1>8. /\ Shape(h2, R, [K0 EXCEPT ![s] = "plain"], L, low, F \cup {s}, reading)
      /\ Ordered(h2, R, [K0 EXCEPT ![s] = "plain"], L, low, F \cup {s}, reading)
  BY <1>1, <1>2, <1>4, <1>6, <1>7, AddCell, AddOrdered DEF h2
<1>9. Refs(low, F \cup {s}) \subseteq Refs(low, Seen([K0 EXCEPT ![s] = "plain"], F \cup {s}))
  <2>1. \A a \in F \cup {s} : [K0 EXCEPT ![s] = "plain"][a] \notin Hidden
    BY <1>1, <1>6, <1>7 DEF Seen, Hidden, Shape, Above
  <2>2. F \cup {s} \subseteq Seen([K0 EXCEPT ![s] = "plain"], F \cup {s})
    BY <2>1 DEF Seen
  <2> QED
    BY <2>2 DEF Refs
<1> QED
  BY <1>8, <1>9 DEF As, With, h2, K0

(* What readterm writes appends s to the term that n terms are open with.   *)
LEMMA Appended ==
  ASSUME NEW M \in [Addr -> Cell], NEW M2, NEW K, NEW L, NEW F, F \subseteq Addr, NEW rd, NEW rd2,
         NEW s \in F, NEW d, NEW t, LinksFactor(M, M2, s, d, t, rd, rd2), NEW n,
         IF rd[Len(rd)] = "first"
         THEN HeaderAt(K, L, F, M[s].next, n) /\ M[s].next # s
         ELSE /\ EndAt(K, L, F, d, n) /\ t \in F /\ K[t] = "tail" /\ L[t] = n
              /\ t # s /\ d # s
  PROVE  Appends(M, M2, K, L, F, s, n)
<1>1. CASE rd[Len(rd)] = "first"
  <2>1. PICK x : x = M[s].next
    OBVIOUS
  <2>2. x \in Addr /\ x # s /\ K[x] = "header" /\ L[x] = n /\ s \in Addr /\ x \in F
    BY <1>1, <2>1 DEF HeaderAt
  <2>3. M2 = [M EXCEPT ![x].u = s, ![s].next = NULL]
    BY <1>1, <2>1 DEF LinksFactor
  <2>4. /\ M2[s].op = M[s].op /\ M2[s].u = M[s].u /\ M2[s].next = NULL
        /\ M2[x].op = M[x].op /\ M2[x].u = s /\ M2[x].next = M[x].next
        /\ \A a \in Addr \ {s, x} : M2[a] = M[a]
    BY <2>2, <2>3 DEF Cell
  <2> QED
    BY <2>2, <2>4 DEF Appends
<1>2. CASE rd[Len(rd)] # "first"
  <2>1. /\ d \in Addr /\ t \in Addr /\ s \in Addr /\ t # s /\ d # s /\ t # d
        /\ K[d] = "end" /\ L[d] = n /\ K[t] = "tail" /\ L[t] = n
    BY <1>2 DEF EndAt
  <2>2. M2 = [M EXCEPT ![t].next = s, ![s].next = NULL, ![d].u = s]
    BY <1>2 DEF LinksFactor
  <2>3. /\ M2[s].op = M[s].op /\ M2[s].u = M[s].u /\ M2[s].next = NULL
        /\ M2[t].op = M[t].op /\ M2[t].u = M[t].u /\ M2[t].next = s
        /\ M2[d].op = M[d].op /\ M2[d].u = s /\ M2[d].next = M[d].next
        /\ \A a \in Addr \ {s, t, d} : M2[a] = M[a]
    BY <2>1, <2>2 DEF Cell
  <2> QED
    BY <2>1, <2>3 DEF Appends
<1> QED
  BY <1>1, <1>2

LEMMA Delivered ==
  ASSUME Safe, NEW low \in Addr, NEW h, NEW F, NEW s, NEW c, NEW K, NEW L,
         Ready(h, low, F, s, c, K, L),
         Deliver(Filled(h, s, c), s, c)
  PROVE  Stored(h, low, F, s, c, K)
<1> DEFINE h2 == Filled(h, s, c)
           K1 == As(K, s, "plain")
           G  == With(F, s)
<1>1. /\ Added(h2, root, K1, L, low, G, reading, s, c)
      /\ h2 \in [Addr -> Cell]
      /\ \A x \in Addr : x # s => h2[x] = h[x]
      /\ Refs(low, F) \subseteq Refs(low, G) /\ \A p \in Refs(low, F) : p # s
      /\ Refs(low, G) \subseteq Ptr
  BY ReadyAdded
<1>2. /\ root \in [Roots -> Ptr] /\ Wellread(reading) /\ s \in Addr
      /\ current \in Refs(low, F)
      /\ bucket # NULL => c.place = "stk"
      /\ current # NULL <=> c.place = "member"
      /\ c.place = "member" => Even(root)
      /\ h = memory \/ c.place \in {"literal", "stk"}
      /\ K1 \in [Addr -> Kind] /\ L \in [Addr -> Int] /\ Depth(<<>>) = 0
  BY SeenRefs DEF Ready, Shape, As, Kind, Depth
<1>p. current \in Refs(low, Seen(K, F)) /\ Clear(K, L, low, F, reading, c)
  BY DEF Ready
<1>s. \A k \in Kind :
        /\ Refs(low, Seen(K, F)) \subseteq Refs(low, Seen(As(K1, s, k), G))
        /\ k \notin Hidden => s \in Refs(low, Seen(As(K1, s, k), G))
        /\ Shows(root, Refs(low, Seen(K, F)), reading)
  BY ReadySeen
<1>o. c.place # "mapped" =>
        /\ Ordered(h2, root, K1, L, low, G, reading)
        /\ \A a \in G : s \notin Links(h2, a)
        /\ \A x \in Roots \ {"prog"} : root[x] # s
        /\ \A p, j : p # s /\ TermAt(K, L, F, p, j) => TermAt(K1, L, G, p, j)
  BY ReadyOrdered
<1>n. \A K2 : {NULL} \subseteq Refs(low, Seen(K2, G))
  BY RefFacts
<1>3. Deliver(h2, s, c)
  OBVIOUS
<1> HIDE DEF h2, K1, G
<1>4. /\ h2[s].op = c.op /\ h2[s].u = c.u /\ h2[s].next = c.next
      /\ s \in G /\ s \in Refs(low, G) /\ s \in Ptr /\ s # NULL
      /\ Shape(h2, root, K1, L, low, G, reading) /\ Args(h2, root, K1, L, low, G, reading, c)
      /\ Above(low, G) /\ K1[s] = "plain"
  BY <1>1, AddedCell
<1>5. Tame(K1, K1)
  BY DEF Tame
<1>6. \A x \in Roots \ {"prog"} : root[x] \in Refs(low, G)
  BY <1>4 DEF Shape, Reaches
<1>k. /\ Refs(low, Seen(K, F)) \subseteq Refs(low, Seen(K1, G)) /\ s \in Refs(low, Seen(K1, G))
      /\ Shows(root, Refs(low, Seen(K, F)), reading)
  <2>1. As(K1, s, "plain") = K1
    BY <1>2, <1>4 DEF As
  <2>2. "plain" \in Kind /\ "plain" \notin Hidden
    BY DEF Kind, Hidden
  <2> QED
    BY <1>s, <2>1, <2>2
<1>7. ASSUME memory' \in [Addr -> Cell], root' \in [Roots -> Ptr], Wellread(reading'),
             \A x \in Addr \ G : memory'[x] = h2[x],
             \E K2, L2 : /\ Shape(memory', root', K2, L2, low, G, reading')
                         /\ Ordered(memory', root', K2, L2, low, G, reading')
                         /\ {bucket', current'} \subseteq Refs(low, Seen(K2, G))
                         /\ c.place \in ReaderPlaces => Tame(K1, K2),
             c.place \in ReaderPlaces => Same(root, root', {"stk", "dump"}),
             Pending(memory', root', low, G, reading', bucket', current'),
             bucket' # NULL \/ current' # NULL => c.place \in {"bucket", "primrec", "member"}
      PROVE  Stored(h, low, F, s, c, K)
  BY <1>1, <1>4, <1>7 DEF Stored, G, K1
<1>8. CASE /\ c.place \in {"stk", "literal", "dump", "dump2", "dump3"}
           /\ root' = [root EXCEPT ![IF c.place = "literal" THEN "stk" ELSE c.place] = s]
           /\ memory' = h2 /\ bucket' = NULL /\ UNCHANGED <<reading, current>>
  <2>1. current' = NULL /\ reading' = reading /\ memory' = h2 /\ bucket' = NULL
    BY <1>2, <1>8
  <2>2. Pending(memory', root', low, G, reading', bucket', current')
    BY <2>1, NothingPending
  <2>3. root' \in [Roots -> Ptr]
    BY <1>2, <1>4, <1>8 DEF Roots, Same
  <2>4. c.place \notin ReaderPlaces
    BY <1>8 DEF ReaderPlaces
  <2>5. CASE c.place \in {"stk", "literal"}
    <3>1. /\ Same(root, root', {"stk"})
          /\ root'["stk"] = s
      BY <1>2, <1>8, <2>5 DEF Roots, Same
    <3>2. Depth(reading) = 0
      BY <1>4, <2>5 DEF Args, Depth
    <3>3. Shape(memory', root', K1, L, low, G, reading')
      BY <1>4, <2>1, <3>1, <3>2, PutStk
    <3>4. Shows(root', Refs(low, Seen(K1, G)), reading')
      BY <1>k, <2>1, <3>1, ShowsSet
    <3>5. Ordered(memory', root', K1, L, low, G, reading')
      BY <1>o, <2>1, <2>5, <3>2, <3>4, SetOrdered
    <3> QED
      BY <1>1, <1>2, <1>7, <1>n, <2>1, <2>2, <2>3, <2>4, <3>3, <3>5
  <2>6. CASE c.place = "dump"
    <3>1. /\ Same(root, root', {"stk", "dump"})
          /\ root'["dump"] = s /\ root'["stk"] = root["stk"]
      BY <1>2, <1>8, <2>6 DEF Roots, Same
    <3>2. root'["stk"] \in Refs(low, G)
      BY <1>6, <3>1 DEF Roots, Same
    <3>3. Shape(memory', root', As(K1, s, "dump"), L, low, G, reading')
      BY <1>1, <2>1, <2>6, <3>1, <3>2, PutDump
    <3>4. Shows(root', Refs(low, Seen(As(K1, s, "dump"), G)), reading')
      <4>1. Same(root, root', {"dump"}) /\ "dump" \in Kind /\ "dump" \notin Hidden
        BY <3>1 DEF Same, Kind, Hidden
      <4>2. root'["dump"] \in Refs(low, Seen(As(K1, s, "dump"), G))
        BY <1>s, <3>1, <4>1
      <4> QED
        BY <1>s, <2>1, <4>1, <4>2, ShowsSet
    <3>5. Ordered(memory', root', As(K1, s, "dump"), L, low, G, reading')
      BY <1>2, <1>4, <1>o, <2>1, <2>6, <3>4, KeepOrdered DEF As, Hidden
    <3> QED
      BY <1>1, <1>2, <1>7, <1>n, <2>1, <2>2, <2>3, <2>4, <3>3, <3>5
  <2>7. CASE c.place \in {"dump2", "dump3"}
    <3>1. /\ Same(root, root', {c.place})
          /\ root'[c.place] = s
      BY <1>2, <1>8, <2>7 DEF Roots, Same
    <3>2. Shape(memory', root', As(K1, s, c.place), L, low, G, reading')
      BY <1>1, <2>1, <2>7, <3>1, PutMap
    <3>3. Shows(root', Refs(low, Seen(As(K1, s, c.place), G)), reading')
      <4>1. c.place \in Kind /\ \A x \in {c.place} : x \in {"dump2", "dump3"}
        BY <2>7 DEF Kind
      <4> QED
        BY <1>s, <2>1, <3>1, <4>1, ShowsSet
    <3>4. Ordered(memory', root', As(K1, s, c.place), L, low, G, reading')
      BY <1>2, <1>4, <1>o, <2>1, <2>7, <3>3, KeepOrdered DEF As
    <3> QED
      BY <1>1, <1>2, <1>7, <1>n, <2>1, <2>2, <2>3, <2>4, <3>2, <3>4
  <2> QED
    BY <1>8, <2>5, <2>6, <2>7
<1>9. CASE /\ c.place = "bucket" /\ bucket' = s
           /\ memory' = h2 /\ UNCHANGED <<root, reading, current>>
  <2>1. /\ current' = NULL /\ reading' = reading /\ root' = root /\ memory' = h2 /\ bucket' = s
        /\ c.place \notin ReaderPlaces
    BY <1>2, <1>9 DEF ReaderPlaces
  <2>2. Pair(h2, root) /\ Even(root) /\ reading = <<>>
    BY <1>4, <1>9 DEF Args
  <2>3. Pending(memory', root', low, G, reading', bucket', current')
    BY <1>4, <2>1, <2>2, RefFacts DEF Pending
  <2>4. Ordered(memory', root', K1, L, low, G, reading') /\ {bucket', current'} \subseteq Refs(low, Seen(K1, G))
    BY <1>9, <1>k, <1>n, <1>o, <2>1
  <2> QED
    BY <1>1, <1>2, <1>4, <1>5, <1>7, <1>9, <2>1, <2>3, <2>4
<1>10. CASE /\ c.place = "conts" /\ root' = [root EXCEPT !["conts"] = s]
            /\ reading' = <<>>
            /\ memory' = h2 /\ UNCHANGED <<current, bucket>>
  <2>1. /\ current' = NULL /\ bucket' = NULL /\ reading' = <<>> /\ memory' = h2
        /\ c.place \notin ReaderPlaces
    BY <1>2, <1>10 DEF ReaderPlaces
  <2>2. Pending(memory', root', low, G, reading', bucket', current')
    BY <2>1, NothingPending
  <2>3. /\ Same(root, root', {"conts"})
        /\ root'["conts"] = s /\ root' \in [Roots -> Ptr]
    BY <1>2, <1>4, <1>10 DEF Roots, Same
  <2>4. Shape(memory', root', As(K1, s, "conts"), L, low, G, reading')
    <3>1. Shape(h2, root', As(K1, s, "conts"), L, low, G, <<>>)
      BY <1>1, <1>10, <2>3, PutConts
    <3> QED
      BY <2>1, <3>1
  <2>5. Wellread(reading')
    BY <2>1 DEF Wellread
  <2>6. Shows(root', Refs(low, Seen(As(K1, s, "conts"), G)), reading')
    <3>1. reading' # <<"run">>
      BY <2>1
    <3>2. "conts" \in Kind /\ "conts" \notin Hidden
      BY DEF Kind, Hidden
    <3>3. root'["conts"] \in Refs(low, Seen(As(K1, s, "conts"), G))
      BY <1>s, <2>3, <3>2
    <3> QED
      BY <1>s, <2>3, <3>1, <3>2, <3>3, ShowsSet
  <2>7. Ordered(memory', root', As(K1, s, "conts"), L, low, G, reading')
    <3>1. "conts" \in {"conts", "dump", "dump2", "dump3"} /\ "conts" \notin Hidden /\ Depth(reading') = 0
      BY <1>2, <2>1 DEF Hidden
    <3>2. Ordered(h2, root, K1, L, low, G, reading) /\ Above(low, G) /\ s \in G /\ K1[s] = "plain"
      BY <1>4, <1>10, <1>o
    <3>3. K1 \in [Addr -> Kind]
      BY <1>2
    <3>4. Ordered(h2, root', As(K1, s, "conts"), L, low, G, reading')
      BY <2>6, <3>1, <3>2, <3>3, KeepOrdered DEF As
    <3> QED
      BY <2>1, <3>4
  <2> QED
    BY <1>1, <1>7, <1>n, <2>1, <2>2, <2>3, <2>4, <2>5, <2>7
<1>11. CASE /\ c.place = "header" /\ root' = [root EXCEPT !["stk"] = s]
            /\ reading' = Append(reading, "first")
            /\ memory' = h2 /\ UNCHANGED <<current, bucket>>
  <2>1. /\ current' = NULL /\ bucket' = NULL /\ reading' = Append(reading, "first") /\ memory' = h2
    BY <1>2, <1>11
  <2>2. Pending(memory', root', low, G, reading', bucket', current')
    BY <2>1, NothingPending
  <2>3. /\ Same(root, root', {"stk"})
        /\ root'["stk"] = s /\ root' \in [Roots -> Ptr]
    BY <1>2, <1>4, <1>11 DEF Roots, Same
  <2>4. /\ reading \in Seq(Phases) /\ Depth(reading) = Len(reading) /\ Len(reading) \in Nat
        /\ \A m \in 1 .. Len(reading) - 1 : reading[m] # "end"
        /\ Len(reading) # 0 => /\ HeaderAt(K1, L, G, h2[s].next, Len(reading))
                               /\ reading[Len(reading)] # "end"
        /\ h2[s].op = "LIST_"
    <3>1. reading # <<"run">> /\ h2[s].op = "LIST_"
      BY <1>4, <1>11 DEF Args
    <3>2. reading \in Seq(Phases) /\ \A m \in 1 .. Len(reading) - 1 : reading[m] # "end"
      BY <1>2, <3>1 DEF Wellread
    <3>3. Depth(reading) = Len(reading) /\ Len(reading) \in Nat
      BY <3>2, DepthIsLen
    <3> QED
      BY <1>4, <1>11, <3>1, <3>2, <3>3 DEF Args
  <2>5. PICK K2, L2 : /\ Shape(memory', root', K2, L2, low, G, reading') /\ Tame(K1, K2)
                      /\ OpenedAs(K1, K2, L, L2, G, s, "header", Len(reading) + 1)
    BY <1>4, <2>1, <2>3, <2>4, OpenTerm DEF Same
  <2>6. Wellread(reading')
    BY <2>1, <2>4 DEF Wellread, Phases
  <2>7. Ordered(memory', root', K2, L2, low, G, reading')
    <3>1. TermAt(K1, L, G, h2[s].u, Len(reading) + 1)
      BY <1>4, <1>11, <1>p DEF Clear, TermAt, Above, NULL, Addr
    <3>2. /\ reading' \in Seq(Phases) /\ reading' # <<"run">> /\ Len(reading) + 1 \in Nat
          /\ L2 \in [Addr -> Int]
      <4>1. reading' \in Seq(Phases)
        BY <2>1, <2>4 DEF Phases
      <4>2. L2 \in [Addr -> Int]
        BY <2>5 DEF Shape
      <4> QED
        BY <2>4, <4>1, <4>2, DepthIsLen
    <3>3. Shows(root', Refs(low, Seen(K1, G)), reading')
      BY <1>k, <2>3, <3>2, ShowsSet
    <3>4. Ordered(h2, root', K2, L2, low, G, reading')
      BY <1>4, <1>11, <1>o, <2>1, <2>4, <2>5, <3>1, <3>2, <3>3, OpenOrdered
    <3> QED
      BY <2>1, <3>4
  <2> QED
    BY <1>1, <1>7, <1>11, <1>n, <2>1, <2>2, <2>3, <2>5, <2>6, <2>7 DEF Same
<1>12. CASE c.place = "factor" /\ Link(h2, s, reading) /\ UNCHANGED <<current, bucket>>
  <2>1. current' = NULL /\ bucket' = NULL
    BY <1>2, <1>12
  <2>2. Pending(memory', root', low, G, reading', bucket', current')
    BY <2>1, NothingPending
  <2>3. /\ reading \in Seq(Phases) /\ Len(reading) \in Nat \ {0}
        /\ \A m \in 1 .. Len(reading) - 1 : reading[m] # "end"
        /\ h2[s].next \in Refs(low, G)
    <3>1. Depth(reading) # 0 /\ h2[s].next \in Refs(low, G)
      BY <1>4, <1>12 DEF Args
    <3>2. reading \in Seq(Phases) /\ \A m \in 1 .. Len(reading) - 1 : reading[m] # "end"
      BY <1>2, <3>1 DEF Wellread, Depth
    <3> QED
      BY <3>1, <3>2, DepthIsLen
  <2>4. root' = [root EXCEPT !["stk"] = h2[s].next]
    BY <1>12 DEF Link
  <2>5. /\ Same(root, root', {"stk"})
        /\ root'["stk"] = h2[s].next /\ root' \in [Roots -> Ptr]
    BY <1>1, <1>2, <2>3, <2>4 DEF Roots, Same
  <2>6. PICK d, t : d = root["dump"] /\ t = h2[d].u
    OBVIOUS
  <2>7. IF reading[Len(reading)] = "first"
        THEN /\ memory' = [h2 EXCEPT ![h2[s].next].u = s, ![s].next = NULL]
             /\ reading' = [reading EXCEPT ![Len(reading)] = "end"]
        ELSE /\ memory' = [h2 EXCEPT ![t].next = s, ![s].next = NULL, ![d].u = s]
             /\ reading' = reading
    BY <1>12, <2>6 DEF Link
  <2>8. /\ Shape(memory', root', As(K1, s, "tail"), L, low, G, reading')
        /\ \A x \in Addr \ G : memory'[x] = h2[x]
        /\ memory' \in [Addr -> Cell]
        /\ Tame(K1, As(K1, s, "tail"))
    <3>1. LinksFactor(h2, memory', s, d, t, reading, reading')
      BY <2>7 DEF LinksFactor
    <3> QED
      BY <1>1, <1>12, <2>3, <2>5, <2>6, <3>1, PutFactor
  <2>9. Wellread(reading')
    BY <2>3, <2>7 DEF Wellread, Phases
  <2> DEFINE n  == Len(reading)
             L2 == Joined(K1, L, s, n)
  <2>10. /\ L2 \in [Addr -> Int] /\ n \in Nat \ {0} /\ Depth(reading) = n /\ Depth(reading') = n
         /\ \A m \in 1 .. n : reading'[m] = "more" => reading[m] = "more"
         /\ reading' # <<"run">> /\ reading[n] # "end" /\ HeaderAt(K1, L, G, h2[s].next, n)
    <3>1. n \in Nat \ {0} /\ reading' \in Seq(Phases) /\ Len(reading') = n
      <4>1. reading' = reading \/ reading' = [reading EXCEPT ![n] = "end"]
        BY <2>7
      <4> QED
        BY <2>3, <4>1 DEF Phases
    <3>2. \A m \in 1 .. n : reading'[m] = "more" => reading[m] = "more"
      BY <2>3, <2>7
    <3>3. L2 \in [Addr -> Int]
      BY <1>2, <3>1 DEF Joined
    <3>4. Depth(reading) = n /\ Depth(reading') = n /\ reading' # <<"run">>
      BY <2>3, <3>1, DepthIsLen
    <3> QED
      BY <1>4, <1>12, <3>1, <3>2, <3>3, <3>4 DEF Args
  <2>11. Appends(h2, memory', K1, L, G, s, n)
    <3>1. LinksFactor(h2, memory', s, d, t, reading, reading')
      BY <2>7 DEF LinksFactor
    <3>2. reading[n] = "first" => HeaderAt(K1, L, G, h2[s].next, n) /\ h2[s].next # s
      BY <1>4, <2>10 DEF HeaderAt
    <3>3. reading[n] # "first" =>
            EndAt(K1, L, G, d, n) /\ t \in G /\ K1[t] = "tail" /\ L[t] = n /\ t # s /\ d # s
      <4> SUFFICES ASSUME reading[n] # "first"
                   PROVE  EndAt(K1, L, G, d, n) /\ t \in G /\ K1[t] = "tail" /\ L[t] = n /\ t # s /\ d # s
        OBVIOUS
      <4>1. reading[n] = "more" /\ n \in 1 .. Depth(reading)
        BY <2>3, <2>10 DEF Phases
      <4>2. EndAt(K1, L, G, d, n)
        BY <1>4, <2>3, <2>6, <2>10, <4>1, EndsTop DEF Shape, Terms
      <4>3. TailAt(K1, G, t)
        BY <1>4, <2>6, <4>1, <4>2 DEF Shape, Terms, EndAt
      <4>4. TermAt(K1, L, G, t, n)
        BY <1>12, <1>o, <2>6, <4>1, <4>2, <2>10 DEF Ordered, Leveled, EndAt
      <4> QED
        BY <1>4, <4>2, <4>3, <4>4 DEF TailAt, TermAt, EndAt
    <3> QED
      BY <1>1, <1>4, <3>1, <3>2, <3>3, Appended DEF Above
  <2>12. Shape(memory', root', As(K1, s, "tail"), L2, low, G, reading')
    <3>1. \A a \in G : As(K1, s, "tail")[a] \in {"header", "end"} => L2[a] = L[a]
      BY <1>2, <1>4 DEF As, Joined, Above
    <3> QED
      BY <2>8, <2>10, <3>1, Relevel
  <2>13. Shows(root', Refs(low, Seen(K1, G)), reading')
    <3>1. h2[s].next \in Refs(low, Seen(K1, G))
      BY <1>4, <1>k, <1>p DEF Clear
    <3> QED
      BY <1>k, <2>5, <2>10, <3>1, ShowsSet
  <2>14. Ordered(memory', root', As(K1, s, "tail"), L2, low, G, reading')
    <3>1. h2[s].op # "LIST_"
      BY <1>4, <1>12, <1>p DEF Clear
    <3> HIDE DEF n
    <3>2. n <= Depth(reading) /\ K1[s] \in {"plain", "header"} /\ n \in Nat
      BY <1>4, <2>10
    <3>3. Ordered(h2, root, K1, L, low, G, reading)
      BY <1>12, <1>o
    <3> QED
      BY <1>4, <2>10, <2>11, <2>13, <3>1, <3>2, <3>3, LinkOrdered DEF As
  <2> HIDE DEF L2
  <2> QED
    BY <1>7, <1>n, <2>1, <2>2, <2>5, <2>8, <2>9, <2>12, <2>14 DEF Same
<1>13. CASE /\ c.place = "end" /\ root' = [root EXCEPT !["dump"] = s]
            /\ reading' = Append(Outer, "more")
            /\ memory' = h2 /\ UNCHANGED <<current, bucket>>
  <2>1. current' = NULL /\ bucket' = NULL /\ memory' = h2
    BY <1>2, <1>13
  <2>2. Pending(memory', root', low, G, reading', bucket', current')
    BY <2>1, NothingPending
  <2>3. /\ Same(root, root', {"dump"})
        /\ root'["dump"] = s /\ root' \in [Roots -> Ptr]
    BY <1>2, <1>4, <1>13 DEF Roots, Same
  <2>4. Depth(reading) # 0
    BY <1>4, <1>13 DEF Args
  <2>5. /\ reading \in Seq(Phases) /\ Len(reading) \in Nat \ {0} /\ Depth(reading) = Len(reading)
        /\ \A m \in 1 .. Len(reading) - 1 : reading[m] # "end"
    <3>1. reading \in Seq(Phases) /\ \A m \in 1 .. Len(reading) - 1 : reading[m] # "end"
      BY <1>2, <2>4 DEF Wellread, Depth
    <3> QED
      BY <2>4, <3>1, DepthIsLen
  <2>6. /\ reading[Len(reading)] = "end" /\ h2[s].op = "LIST_" /\ TailAt(K1, G, h2[s].u)
        /\ OnEnds(K1, L, G, reading, Len(reading), h2[s].next)
    BY <1>4, <1>13, <2>5 DEF Args
  <2>7. LastPhase(reading, reading', "more")
    BY <1>13, <2>5 DEF LastPhase, Outer, Phases
  <2>8. PICK K2, L2 : /\ Shape(memory', root', K2, L2, low, G, reading') /\ Tame(K1, K2)
                      /\ OpenedAs(K1, K2, L, L2, G, s, "end", Len(reading))
    BY <1>4, <2>1, <2>3, <2>5, <2>6, <2>7, OpenMore DEF Same
  <2>9. Wellread(reading')
    BY <2>5, <2>7 DEF Wellread, LastPhase
  <2>10. Ordered(memory', root', K2, L2, low, G, reading')
    <3>1. TermAt(K1, L, G, h2[s].u, Len(reading))
      <4>1. c.u # s
        BY <1>1, <1>4, <1>13, <1>p, SeenRefs DEF Clear, Args
      <4> QED
        BY <1>4, <1>13, <1>o, <1>p, <2>5, <4>1 DEF Clear
    <3>2. /\ reading' \in Seq(Phases) /\ reading' # <<"run">> /\ Len(reading) \in Nat
          /\ Len(reading') = Len(reading) /\ \A m \in 1 .. Len(reading) - 1 : reading'[m] = reading[m]
          /\ L2 \in [Addr -> Int]
      BY <2>5, <2>7, <2>8, DepthIsLen DEF LastPhase, Shape
    <3>o. Ordered(h2, root, K1, L, low, G, reading) /\ Above(low, G) /\ s \in G /\ K1[s] = "plain"
      BY <1>4, <1>13, <1>o
    <3>3. Shows(root', Refs(low, Seen(K1, G)), reading')
      BY <1>k, <2>3, <3>2, ShowsSet
    <3>4. Ordered(h2, root', K2, L2, low, G, reading')
      BY <2>5, <2>8, <3>1, <3>2, <3>3, <3>o, OpenOrdered
    <3> QED
      BY <2>1, <3>4
  <2> QED
    BY <1>1, <1>7, <1>13, <1>n, <2>1, <2>2, <2>3, <2>8, <2>9, <2>10 DEF Same
<1>14. CASE /\ c.place \in {"DMP2", "DMP3->next"} /\ StoreResult(h2, c, s)
            /\ UNCHANGED <<root, reading, current, bucket>>
  <2>1. /\ current' = NULL /\ bucket' = NULL /\ root' = root /\ reading' = reading
        /\ c.place \notin ReaderPlaces /\ h = memory
    BY <1>2, <1>14 DEF ReaderPlaces
  <2>2. Pending(memory', root', low, G, reading', bucket', current')
    BY <2>1, NothingPending
  <2>3. root["dump3"] # NULL /\ (c.place = "DMP3->next" => h2[root["dump2"]].u # NULL)
    BY <1>4, <1>14 DEF Args
  <2>4. /\ root["dump3"] \in G /\ K1[root["dump3"]] = "dump3"
        /\ root["dump2"] \in G /\ K1[root["dump2"]] = "dump2"
        /\ c.place = "DMP3->next" => ItemAt(K1, G, h2[root["dump3"]].u)
    BY <1>4, <2>3 DEF Shape, Maps
  <2>5. /\ root["dump3"] \in Addr /\ root["dump2"] \in Addr /\ root["dump2"] # root["dump3"]
        /\ root["dump3"] # s /\ memory[root["dump3"]] = h2[root["dump3"]]
        /\ h2[root["dump2"]] \in Cell /\ h2[root["dump3"]] \in Cell /\ s \in Int
    <3>1. /\ root["dump3"] \in Addr /\ root["dump2"] \in Addr /\ root["dump2"] # root["dump3"]
          /\ root["dump3"] # s /\ s \in Int
      <4>1. root["dump2"] # root["dump3"] /\ root["dump3"] # s
        BY <1>4, <2>4
      <4>2. root["dump3"] \in Addr /\ root["dump2"] \in Addr
        BY <1>4, <2>4 DEF Above
      <4>3. s \in Int
        BY <1>2 DEF Addr
      <4> QED
        BY <4>1, <4>2, <4>3
    <3> QED
      BY <1>1, <2>1, <3>1
  <2>8. reading # <<"run">>
    <3>1. reading = <<>> /\ <<>> # <<"run">>
      BY <1>4, <1>14 DEF Args
    <3> QED
      BY <3>1
  <2>6. CASE c.place = "DMP2"
    <3>1. memory' = [[h2 EXCEPT ![root["dump2"]].u = s] EXCEPT ![root["dump3"]].u =
                       [h2 EXCEPT ![root["dump2"]].u = s][root["dump2"]].u]
      BY <1>14, <2>6 DEF StoreResult, Target, Safe
    <3>2. [h2 EXCEPT ![root["dump2"]].u = s][root["dump2"]].u = s
      BY <1>1, <2>5 DEF Cell
    <3>3. memory' = [h2 EXCEPT ![root["dump2"]].u = s, ![root["dump3"]].u = s]
      BY <3>1, <3>2
    <3>4. /\ Shape(memory', root, As(K1, s, "item"), L, low, G, reading)
          /\ \A x \in Addr \ G : memory'[x] = h2[x]
          /\ memory' \in [Addr -> Cell]
      <4>1. memory' = FirstResult(h2, root, s)
        BY <3>3 DEF FirstResult
      <4> QED
        BY <1>1, <2>6, <4>1, PutFirst
    <3>5. Ordered(memory', root', As(K1, s, "item"), L, low, G, reading')
      <4>1. /\ \A a \in Addr \ {root["dump2"], root["dump3"]} : memory'[a] = h2[a]
            /\ memory'[root["dump2"]].next = h2[root["dump2"]].next /\ memory'[root["dump2"]].u = s
            /\ memory'[root["dump3"]].next = h2[root["dump3"]].next /\ memory'[root["dump3"]].u = s
        BY <1>1, <2>5, <3>3 DEF Cell
      <4>2. memory'[s] = h2[s]
        BY <1>2, <1>4, <2>4, <4>1
      <4>3. \A a \in G : \/ memory'[a] = h2[a]
                         \/ K1[a] \in Hidden /\ Links(memory', a) \subseteq Links(h2, a) \cup {s}
        BY <1>4, <2>4, <4>1 DEF Hidden, Links, Above
      <4> QED
        BY <1>4, <1>14, <1>o, <2>1, <2>8, <4>2, <4>3, HangOrdered DEF As
    <3> QED
      BY <1>2, <1>7, <1>n, <2>1, <2>2, <3>4, <3>5
  <2>7. CASE c.place = "DMP3->next"
    <3>1. PICK t : t = h2[root["dump3"]].u
      OBVIOUS
    <3>2. t \in Addr /\ t # root["dump3"] /\ h2[t] \in Cell
      BY <1>1, <1>4, <2>4, <2>7, <3>1 DEF ItemAt, Above
    <3>3. memory' = [[h2 EXCEPT ![t].next = s] EXCEPT ![root["dump3"]].u =
                       [h2 EXCEPT ![t].next = s][[h2 EXCEPT ![t].next = s][root["dump3"]].u].next]
      BY <1>14, <2>5, <2>7, <3>1 DEF StoreResult, Target, Safe, Dmp
    <3>4. [h2 EXCEPT ![t].next = s][root["dump3"]].u = t /\ [h2 EXCEPT ![t].next = s][t].next = s
      BY <1>1, <2>5, <3>1, <3>2 DEF Cell
    <3>5. memory' = [h2 EXCEPT ![t].next = s, ![root["dump3"]].u = s]
      BY <3>3, <3>4
    <3>6. /\ Shape(memory', root, As(K1, s, "item"), L, low, G, reading)
          /\ \A x \in Addr \ G : memory'[x] = h2[x]
          /\ memory' \in [Addr -> Cell]
      <4>1. memory' = NextResult(h2, root, t, s)
        BY <3>5 DEF NextResult
      <4> QED
        BY <1>1, <2>7, <3>1, <4>1, PutNext
    <3>7. Ordered(memory', root', As(K1, s, "item"), L, low, G, reading')
      <4>1. /\ \A a \in Addr \ {t, root["dump3"]} : memory'[a] = h2[a]
            /\ memory'[t].op = h2[t].op /\ memory'[t].u = h2[t].u /\ memory'[t].next = s
            /\ memory'[root["dump3"]].next = h2[root["dump3"]].next /\ memory'[root["dump3"]].u = s
        BY <1>1, <2>5, <3>2, <3>5 DEF Cell
      <4>2. t # s /\ K1[t] = "item"
        BY <1>4, <2>4, <2>7, <3>1 DEF ItemAt
      <4>3. memory'[s] = h2[s]
        BY <1>2, <2>5, <4>1, <4>2
      <4>4. \A a \in G : \/ memory'[a] = h2[a]
                         \/ K1[a] \in Hidden /\ Links(memory', a) \subseteq Links(h2, a) \cup {s}
        BY <1>4, <2>4, <4>1, <4>2 DEF Hidden, Links, Above
      <4> QED
        BY <1>4, <1>14, <1>o, <2>1, <2>8, <4>3, <4>4, HangOrdered DEF As
    <3> QED
      BY <1>2, <1>7, <1>n, <2>1, <2>2, <3>6, <3>7
  <2> QED
    BY <1>14, <2>6, <2>7
<1>15. CASE /\ c.place = "mapped"
            /\ root' = [root EXCEPT !["stk"] = s, !["dump2"] = h2[@].next, !["dump3"] = h2[@].next]
            /\ memory' = h2 /\ UNCHANGED <<reading, current, bucket>>
  <2>1. /\ current' = NULL /\ bucket' = NULL /\ reading' = reading /\ memory' = h2
        /\ c.place \notin ReaderPlaces
    BY <1>2, <1>15 DEF ReaderPlaces
  <2>2. Pending(memory', root', low, G, reading', bucket', current')
    BY <2>1, NothingPending
  <2>3. root["dump3"] # NULL /\ reading = <<>> /\ Depth(reading) = 0
    BY <1>4, <1>15 DEF Args, Depth
  <2>4. h2[root["dump2"]].next = NULL /\ h2[root["dump3"]].next = NULL
    BY <1>4, <2>3 DEF Shape, Maps
  <2>5. root' = [root EXCEPT !["stk"] = s, !["dump2"] = NULL, !["dump3"] = NULL]
    BY <1>2, <1>15, <2>4 DEF Roots, Same
  <2>6. /\ Same(root, root', {"stk", "dump2", "dump3"})
        /\ root'["stk"] = s /\ root'["dump2"] = NULL /\ root'["dump3"] = NULL
        /\ root' \in [Roots -> Ptr]
    BY <1>2, <1>4, <2>5 DEF Roots, Same, Ptr
  <2> DEFINE R  == [root EXCEPT !["dump2"] = NULL, !["dump3"] = NULL]
             K2 == As(Shown(K), s, "plain")
  <2>7. /\ Same(root, R, {"dump2", "dump3"}) /\ R["dump2"] = NULL /\ R["dump3"] = NULL
        /\ Same(R, root', {"stk"})
    BY <1>2, <2>5 DEF Same, Roots
  <2> HIDE DEF R
  <2>8. /\ Shape(h2, R, K2, L, low, G, reading) /\ Ordered(h2, R, K2, L, low, G, reading)
        /\ Refs(low, G) \subseteq Refs(low, Seen(K2, G))
    BY <2>7, ReadyMapped DEF h2, G
  <2> HIDE DEF K2
  <2>9. Shape(memory', root', K2, L, low, G, reading')
    BY <1>4, <2>1, <2>3, <2>6, <2>7, <2>8, PutStk
  <2>10. Shows(root', Refs(low, Seen(K2, G)), reading')
    BY <1>4, <2>1, <2>6, <2>7, <2>8, ShowsSet DEF Ordered, Hiding
  <2>11. Ordered(memory', root', K2, L, low, G, reading')
    BY <2>1, <2>3, <2>8, <2>10, SetOrdered
  <2> QED
    BY <1>1, <1>2, <1>7, <1>n, <2>1, <2>2, <2>6, <2>9, <2>11
<1>16. CASE /\ c.place = "primrec"
            /\ root' = [root EXCEPT !["dump"] = s, !["stk"] = h2[@].next]
            /\ current' = Top.u
            /\ memory' = h2 /\ UNCHANGED <<reading, bucket>>
  <2>1. /\ bucket' = NULL /\ reading' = reading /\ memory' = h2
        /\ c.place \notin ReaderPlaces /\ h = memory
    BY <1>2, <1>16 DEF ReaderPlaces
  <2>2. reading = <<>> /\ root["stk"] # NULL /\ h2[root["stk"]].op = "LIST_" /\ Even(root)
    BY <1>4, <1>16 DEF Args
  <2>3. root["stk"] \in Refs(low, F) /\ root["stk"] # s
    BY <1>1 DEF Ready, Shape, Reaches, Roots
  <2>4. /\ h2[root["stk"]] = memory[root["stk"]]
        /\ h2[root["stk"]].next \in Refs(low, G) /\ h2[root["stk"]].u \in Refs(low, G)
    <3>1. root["stk"] \in 0 .. low - 1 \/ root["stk"] \in F
      BY <2>2, <2>3, RefCases
    <3>2. root["stk"] \in Addr /\ (root["stk"] \in 0 .. low - 1 \/ root["stk"] \in G)
      BY <2>2, <1>2, <3>1 DEF Ptr, Roots, G, With
    <3>3. Sound(h2[root["stk"]], Refs(low, G))
      BY <1>4, <3>2, RefFacts DEF Shape, Closure, Sound
    <3> QED
      BY <1>1, <2>1, <2>2, <2>3, <3>2, <3>3 DEF Sound
  <2>5. /\ Same(root, root', {"stk", "dump"})
        /\ root'["dump"] = s /\ root'["stk"] = h2[root["stk"]].next
        /\ root' \in [Roots -> Ptr]
    <3>1. root' = [root EXCEPT !["dump"] = s, !["stk"] = h2[root["stk"]].next]
      BY <1>2, <1>16 DEF Roots
    <3>2. h2[root["stk"]].next \in Ptr
      BY <1>1, <2>4
    <3> QED
      BY <1>2, <1>4, <3>1, <3>2 DEF Same, Roots
  <2>6. Shape(memory', root', As(K1, s, "dump"), L, low, G, reading')
    <3>1. root'["stk"] \in Refs(low, G)
      BY <2>4, <2>5
    <3> QED
      <4>1. c.place \in {"dump", "primrec"} /\ memory' = h2 /\ reading' = reading
        BY <1>16, <2>1
      <4>2. Same(root, root', {"stk", "dump"}) /\ root'["dump"] = s
        BY <2>5
      <4> QED
        BY <1>1, <3>1, <4>1, <4>2, PutDump
  <2>7. Pending(memory', root', low, G, reading', bucket', current')
    <3>1. current' \in Refs(low, G)
      BY <1>16, <2>4 DEF Top
    <3>2. Even(root')
      BY <2>2, <2>5 DEF Even, Roots, Same
    <3> QED
      BY <2>1, <2>2, <3>1, <3>2, RefFacts DEF Pending
  <2>8. Sound(h2[root["stk"]], Refs(low, Seen(K, F)))
    <3>1. root["stk"] \in Refs(low, Seen(K, F))
      BY <1>k DEF Shows, Roots
    <3>2. Sound(h[root["stk"]], Refs(low, Seen(K, F)))
      BY <2>2, <3>1, FollowSeen DEF Ready
    <3> QED
      BY <2>1, <2>4, <3>2
  <2>9. Shows(root', Refs(low, Seen(As(K1, s, "dump"), G)), reading')
    <3>1. "dump" \in Kind /\ "dump" \notin Hidden
      BY DEF Kind, Hidden
    <3>2. /\ root'["dump"] \in Refs(low, Seen(As(K1, s, "dump"), G))
          /\ root'["stk"] \in Refs(low, Seen(As(K1, s, "dump"), G))
      BY <1>s, <2>5, <2>8, <3>1 DEF Sound
    <3> QED
      BY <1>s, <2>1, <2>5, <3>1, <3>2, ShowsSet
  <2>10. Ordered(memory', root', As(K1, s, "dump"), L, low, G, reading')
    <3>1. "dump" \in {"conts", "dump", "dump2", "dump3"} /\ "dump" \notin Hidden
      BY DEF Hidden
    <3>2. Ordered(h2, root, K1, L, low, G, reading) /\ Above(low, G) /\ s \in G /\ K1[s] = "plain"
      BY <1>4, <1>16, <1>o
    <3>3. K1 \in [Addr -> Kind] /\ reading' = reading
      BY <1>2, <2>1
    <3>4. Ordered(h2, root', As(K1, s, "dump"), L, low, G, reading')
      BY <2>9, <3>1, <3>2, <3>3, KeepOrdered DEF As
    <3> QED
      BY <2>1, <3>4
  <2>11. {bucket', current'} \subseteq Refs(low, Seen(As(K1, s, "dump"), G))
    <3>1. current' \in Refs(low, Seen(K, F))
      BY <1>16, <2>2, <2>4, <2>8 DEF Top, Sound
    <3>2. "dump" \in Kind
      BY DEF Kind
    <3> QED
      BY <1>n, <1>s, <2>1, <3>1, <3>2
  <2> QED
    BY <1>1, <1>2, <1>7, <1>16, <2>1, <2>5, <2>6, <2>7, <2>10, <2>11
<1>17. CASE /\ c.place = "member" /\ root' = [root EXCEPT !["stk"] = s]
            /\ current' = h2[current].next
            /\ memory' = h2 /\ UNCHANGED <<reading, bucket>>
  <2>1. /\ bucket' = NULL /\ reading' = reading /\ memory' = h2
        /\ c.place \notin ReaderPlaces
    BY <1>2, <1>17 DEF ReaderPlaces
  <2>2. reading = <<>> /\ Depth(reading) = 0 /\ Even(root) /\ current # NULL
    BY <1>2, <1>4, <1>17 DEF Args, Depth
  <2>3. h2[current].next \in Refs(low, G)
    <3>1. current \in 0 .. low - 1 \/ current \in G
      BY <1>2, <2>2, RefCases DEF G, With
    <3> QED
      BY <1>4, <3>1, RefFacts DEF Shape, Closure, Sound
  <2>4. /\ Same(root, root', {"stk"})
        /\ root'["stk"] = s /\ root' \in [Roots -> Ptr]
    BY <1>2, <1>4, <1>17 DEF Roots, Same
  <2>5. Shape(memory', root', K1, L, low, G, reading')
    BY <1>4, <2>1, <2>2, <2>4, PutStk
  <2>6. Pending(memory', root', low, G, reading', bucket', current')
    <3>1. Even(root')
      BY <2>2, <2>4 DEF Even, Roots, Same
    <3> QED
      BY <1>17, <2>1, <2>2, <2>3, <3>1, RefFacts DEF Pending
  <2>7. Shows(root', Refs(low, Seen(K1, G)), reading')
    BY <1>k, <2>1, <2>4, ShowsSet
  <2>8. Ordered(memory', root', K1, L, low, G, reading')
    BY <1>17, <1>o, <2>1, <2>2, <2>7, SetOrdered
  <2>9. {bucket', current'} \subseteq Refs(low, Seen(K1, G))
    <3>1. Sound(h2[current], Refs(low, Seen(K1, G)))
      BY <1>4, <1>17, <1>k, <1>o, <1>p, <2>2, FollowSeen
    <3> QED
      BY <1>17, <1>n, <2>1, <3>1 DEF Sound
  <2> QED
    BY <1>1, <1>2, <1>7, <1>17, <2>1, <2>4, <2>5, <2>6, <2>8, <2>9
<1> QED
  BY <1>3, <1>8, <1>9, <1>10, <1>11, <1>12, <1>13, <1>14, <1>15, <1>16, <1>17 DEF Deliver

-----------------------------------------------------------------------------
(* The half in use and what newnode has given out of it.                   *)
Given ==
  {a \in Addr : a >= mem_low /\ (IF direction = 1 THEN a < memoryindex ELSE a > memoryindex)}

Bounded ==
  /\ mem_low \in Addr /\ mem_mid \in Addr /\ mem_mid = mem_low + MEM_HIGH \div 2
  /\ memoryindex \in Int
  /\ \/ direction = 1 /\ mem_low <= memoryindex /\ memoryindex <= mem_mid
     \/ direction = -1 /\ mem_mid <= memoryindex /\ memoryindex <= MEM_HIGH

LEMMA Half == MEM_HIGH \in Nat /\ MEM_HIGH \div 2 \in Nat /\ MEM_HIGH \div 2 <= MEM_HIGH
BY HeapAssumption DEF MEM_HIGH

LEMMA AllocatedRefs ==
  ASSUME Bounded, NEW p \in Ptr
  PROVE  Allocated(p) <=> p \in Refs(mem_low, Given)
BY HeapAssumption DEF Bounded, Ptr, Refs, Given, Allocated, NULL, Addr, MEM_HIGH

LEMMA GivenAbove == ASSUME Bounded PROVE Above(mem_low, Given)
BY DEF Above, Given

LEMMA Allot ==
  ASSUME Bounded, ~NoRoom, memoryindex' = memoryindex + direction,
         UNCHANGED <<mem_low, mem_mid, direction>>
  PROVE  /\ Bounded' /\ Given' = With(Given, memoryindex)
         /\ memoryindex \in Addr /\ memoryindex >= mem_low /\ memoryindex \notin Given
<1>1. memoryindex \in Addr /\ memoryindex # mem_mid
  BY DEF NoRoom
<1>2. memoryindex >= mem_low /\ memoryindex \notin Given
  BY <1>1, Half DEF Bounded, Given, Addr
<1>3. Bounded'
  <2>1. CASE direction = 1
    BY <1>1, <2>1, Half DEF Bounded, Addr
  <2>2. CASE direction = -1
    BY <1>1, <2>2, Half DEF Bounded, Addr
  <2> QED
    BY <2>1, <2>2 DEF Bounded
<1>4. Given' = With(Given, memoryindex)
  <2>1. CASE direction = 1
    BY <1>1, <1>2, <2>1 DEF Given, With, Addr, Bounded
  <2>2. CASE direction = -1
    BY <1>1, <1>2, <2>2 DEF Given, With, Addr, Bounded
  <2> QED
    BY <2>1, <2>2 DEF Bounded
<1> QED
  BY <1>1, <1>2, <1>3, <1>4

(* A collection begins in the other half, which is empty.                  *)
OtherHalf(F) == \A a \in F : IF direction = 1 THEN a > mem_mid ELSE a < mem_mid

LEMMA Flip ==
  ASSUME Bounded, direction' = -direction,
         memoryindex' = IF direction = -1 THEN mem_low ELSE MEM_HIGH,
         UNCHANGED <<mem_low, mem_mid>>, NEW F, F = Given
  PROVE  Bounded' /\ Given' = {} /\ OtherHalf(F)'
<1>1. CASE direction = 1
  <2>1. direction' = -1 /\ memoryindex' = MEM_HIGH
    BY <1>1
  <2>2. Bounded'
    <3>1. mem_mid <= MEM_HIGH /\ mem_low <= mem_mid /\ MEM_HIGH \in Int
      BY Half DEF Bounded, Addr
    <3> QED
      BY <1>1, <2>1, <3>1 DEF Bounded
  <2>3. Given' = {}
    BY <2>1, Half DEF Given, Addr
  <2>4. OtherHalf(F)'
    <3>1. \A a \in F : IF direction' = 1 THEN a > mem_mid ELSE a < mem_mid
      BY <1>1, <2>1, Half DEF Given, Addr, Bounded
    <3> QED
      BY <3>1 DEF OtherHalf
  <2> QED
    BY <2>2, <2>3, <2>4
<1>2. CASE direction = -1
  <2>1. direction' = 1 /\ memoryindex' = mem_low
    <3>1. direction + 1 = 0 /\ direction \in Int
      BY <1>2
    <3>2. direction' = 1
      BY <3>1
    <3>3. memoryindex' = mem_low
      BY <1>2
    <3> QED
      BY <3>2, <3>3
  <2>2. Bounded'
    <3>1. mem_mid <= MEM_HIGH /\ mem_low <= mem_mid /\ MEM_HIGH \in Int
      BY Half DEF Bounded, Addr
    <3> QED
      BY <1>1, <2>1, <3>1 DEF Bounded
  <2>3. Given' = {}
    BY <2>1 DEF Given, Addr, Bounded
  <2>4. OtherHalf(F)'
    <3>1. \A a \in F : a > memoryindex /\ a \in Int
      BY <1>2, Half DEF Given, Addr
    <3>2. memoryindex >= mem_mid /\ mem_mid \in Int /\ memoryindex \in Int
      BY <1>2, Half DEF Bounded, Addr
    <3>3. \A a \in F : a > mem_mid
      BY <3>1, <3>2
    <3> QED
      BY <2>1, <3>3 DEF OtherHalf
  <2> QED
    BY <2>2, <2>3, <2>4
<1> QED
  BY <1>1, <1>2 DEF Bounded

LEMMA ApartHalves ==
  ASSUME Bounded, NEW F, OtherHalf(F), Above(mem_low, F)
  PROVE  Given \cap F = {} /\ (~NoRoom => memoryindex \notin F)
BY DEF Bounded, OtherHalf, Above, NoRoom, Given, Addr

-----------------------------------------------------------------------------
(* A collection.  M0, R0 and C0 are the memory, the registers and the call  *)
(* of newnode that it started with, F the cells given out by then; G are   *)
(* the cells it has given out itself, and orig their origins.              *)
In(sl)    == {sl[i] : i \in DOMAIN sl}
Temps(cs) == {cs[i].temp : i \in DOMAIN cs}
Open(cs)  == {cs[i].temp : i \in {j \in DOMAIN cs : cs[j].at = "u"}}

(* A cell of the old half is as it was, or marked with its copy.           *)
OldCells(M0, M, F, G, orig) ==
  \A a \in F : /\ M[a].next = M0[a].next
               /\ M[a] = M0[a] \/ (M[a].op = "COPIED_" /\ M[a].u \in G /\ orig[M[a].u] = a)

(* A cell of the new half lacks what copy is still busy with.              *)
NewCells(M0, M, low, F, G, orig, cs) ==
  \A b \in G :
    /\ orig[b] \in F /\ M[b].op = M0[orig[b]].op
    /\ b \notin Temps(cs) => Copies(low, G, orig, M0[orig[b]].next, M[b].next)
    /\ M[b].op = "LIST_" /\ b \notin Open(cs) => Copies(low, G, orig, M0[orig[b]].u, M[b].u)
    /\ M[b].op # "LIST_" => M[b].u = M0[orig[b]].u

(* The calls of copy: each asked for the next.                             *)
CFrame == [n : Addr, temp : Addr, at : {"u", "next"}]
Asked(M0, f) == IF f.at = "u" THEN M0[f.n].u ELSE M0[f.n].next
Frames(M0, F, G, orig, cs, first) ==
  /\ cs \in Seq(CFrame)
  /\ \A i \in 1 .. Len(cs) :
       /\ cs[i].n \in F /\ cs[i].temp \in G /\ orig[cs[i].temp] = cs[i].n
       /\ cs[i].at = "u" => M0[cs[i].n].op = "LIST_"
       /\ cs[i].n = IF i = 1 THEN first ELSE Asked(M0, cs[i - 1])
Wanted(M0, cs, first) == IF cs = <<>> THEN first ELSE Asked(M0, cs[Len(cs)])

(* What each of the slots asks copy for.                                   *)
Wish(R0, C0, x) == CASE x = "u" -> C0.u [] x = "r" -> C0.next [] OTHER -> R0[x]
Form(c) == c = [op |-> c.op, u |-> c.u, next |-> c.next, place |-> c.place, at |-> c.at]
Distinct(sl) == \A i, j \in 1 .. Len(sl) : sl[i] = sl[j] => i = j
RootSlots(low, G, orig, R0, R, sl) ==
  \A x \in Roots : IF x \in In(sl) THEN R[x] = R0[x] ELSE Copies(low, G, orig, R0[x], R[x])
CallSlots(low, G, orig, C0, c, sl) ==
  IF C0 = NoCall THEN c = NoCall /\ In(sl) \subseteq Roots
  ELSE /\ Form(c) /\ c.op = C0.op /\ c.place = C0.place
       /\ IF "r" \in In(sl) THEN c.next = C0.next ELSE Copies(low, G, orig, C0.next, c.next)
       /\ "u" \in In(sl) => C0.op = "LIST_"
       /\ IF "u" \notin In(sl) /\ C0.op = "LIST_"
          THEN Copies(low, G, orig, C0.u, c.u) ELSE c.u = C0.u
Slots(low, G, orig, R0, C0, R, c, sl) ==
  /\ sl \in Seq(Roots \cup {"u", "r"}) /\ Distinct(sl)
  /\ RootSlots(low, G, orig, R0, R, sl)
  /\ CallSlots(low, G, orig, C0, c, sl)

(* The heap that the collection started with. *)
Start(M0, R0, C0, F, K, L, low, rd) ==
  /\ M0 \in [Addr -> Cell] /\ Above(low, F)
  /\ Shape(M0, R0, K, L, low, F, rd) /\ R0["prog"] \in Refs(low, F)
  /\ Ordered(M0, R0, K, L, low, F, rd)
  /\ C0 # NoCall => Args(M0, R0, K, L, low, F, rd, C0) /\ Clear(K, L, low, F, rd, C0)

(* How far it has got. *)
Progress(M0, R0, C0, F, orig) ==
  /\ orig \in [Addr -> Addr]
  /\ \A a \in 0 .. mem_low - 1 : memory[a] = M0[a]
  /\ OldCells(M0, memory, F, Given, orig)
  /\ NewCells(M0, memory, mem_low, F, Given, orig, calls)
  /\ Slots(mem_low, Given, orig, R0, C0, root, call, slots)
  /\ pc = "roots" => calls = <<>>
  /\ pc \in {"call", "return"} =>
       /\ slots # <<>>
       /\ Frames(M0, F, Given, orig, calls, Wish(R0, C0, Head(slots)))
  /\ pc = "call" => reg = Wanted(M0, calls, Wish(R0, C0, Head(slots)))
  /\ pc = "return" =>
       Copies(mem_low, Given, orig, Wanted(M0, calls, Wish(R0, C0, Head(slots))), reg)

Collecting(M0, R0, C0, F, K, L, orig) ==
  /\ OtherHalf(F) /\ Start(M0, R0, C0, F, K, L, mem_low, reading)
  /\ Progress(M0, R0, C0, F, orig)

(* One more copy changes nothing about the others. *)
LEMMA CopiesMore ==
  ASSUME NEW low, NEW G, NEW orig \in [Addr -> Addr], NEW p, NEW q,
         NEW s \in Addr, s \notin G, NEW n, Copies(low, G, orig, p, q)
  PROVE  Copies(low, With(G, s), [orig EXCEPT ![s] = n], p, q)
<1>1. CASE p \in Refs(low, {})
  BY <1>1 DEF Copies
<1>2. CASE p \notin Refs(low, {})
  BY <1>2 DEF Copies, With
<1> QED
  BY <1>1, <1>2

(* What copy is asked for are pointers of the old heap. *)
LEMMA WishRefs ==
  ASSUME NEW M0, NEW R0, NEW C0, NEW F, NEW K, NEW L, NEW low \in Addr, NEW rd,
         NEW G, NEW orig, NEW R, NEW c, NEW sl,
         Start(M0, R0, C0, F, K, L, low, rd), Slots(low, G, orig, R0, C0, R, c, sl),
         sl # <<>>
  PROVE  /\ Wish(R0, C0, Head(sl)) \in Refs(low, F)
         /\ Head(sl) \in In(sl) /\ Head(sl) \in Roots \cup {"u", "r"}
<1>1. Head(sl) \in In(sl) /\ Head(sl) \in Roots \cup {"u", "r"}
  BY DEF Slots, In
<1>2. CASE Head(sl) \in Roots
  <2>1. R0[Head(sl)] \in Refs(low, F)
    BY <1>2 DEF Start, Shape, Reaches
  <2>2. Head(sl) # "u" /\ Head(sl) # "r"
    BY <1>2 DEF Roots
  <2> QED
    BY <1>1, <2>1, <2>2 DEF Wish
<1>3. CASE Head(sl) \in {"u", "r"}
  <2>1. C0 # NoCall /\ (Head(sl) = "u" => C0.op = "LIST_")
    BY <1>1, <1>3 DEF Slots, CallSlots, Roots
  <2>2. C0.next \in Refs(low, F) /\ (Head(sl) = "u" => C0.u \in Refs(low, F))
    BY <2>1 DEF Start, Args
  <2> QED
    BY <1>1, <1>3, <2>2 DEF Wish
<1> QED
  BY <1>1, <1>2, <1>3

LEMMA WantedRefs ==
  ASSUME NEW M0, NEW R0, NEW C0, NEW F, NEW K, NEW L, NEW low \in Addr, NEW rd,
         NEW G, NEW orig, NEW cs, NEW first,
         Start(M0, R0, C0, F, K, L, low, rd), Frames(M0, F, G, orig, cs, first),
         first \in Refs(low, F)
  PROVE  Wanted(M0, cs, first) \in Refs(low, F)
<1>1. CASE cs = <<>>
  BY <1>1 DEF Wanted
<1>2. CASE cs # <<>>
  <2>1. Len(cs) \in 1 .. Len(cs)
    BY <1>2 DEF Frames
  <2>2. cs[Len(cs)].n \in F /\ (cs[Len(cs)].at = "u" => M0[cs[Len(cs)].n].op = "LIST_")
    BY <2>1 DEF Frames
  <2>3. Sound(M0[cs[Len(cs)].n], Refs(low, F))
    BY <2>2 DEF Start, Shape, Closure
  <2> QED
    BY <1>2, <2>2, <2>3 DEF Wanted, Asked, Sound
<1> QED
  BY <1>1, <1>2

LEMMA TailIn ==
  ASSUME NEW S, NEW sl \in Seq(S), sl # <<>>, Distinct(sl)
  PROVE  /\ Tail(sl) \in Seq(S) /\ Distinct(Tail(sl))
         /\ In(Tail(sl)) = In(sl) \ {Head(sl)} /\ Head(sl) \in In(sl)
<1>1. /\ Len(sl) \in Nat \ {0} /\ Len(Tail(sl)) = Len(sl) - 1 /\ Tail(sl) \in Seq(S)
      /\ \A i \in 1 .. Len(sl) - 1 : Tail(sl)[i] = sl[i + 1]
      /\ Head(sl) = sl[1] /\ DOMAIN sl = 1 .. Len(sl) /\ DOMAIN Tail(sl) = 1 .. Len(sl) - 1
  OBVIOUS
<1>2. Distinct(Tail(sl))
  <2> SUFFICES ASSUME NEW i \in 1 .. Len(sl) - 1, NEW j \in 1 .. Len(sl) - 1,
                      Tail(sl)[i] = Tail(sl)[j]
               PROVE  i = j
    BY <1>1 DEF Distinct
  <2>1. sl[i + 1] = sl[j + 1] /\ i + 1 \in 1 .. Len(sl) /\ j + 1 \in 1 .. Len(sl)
    BY <1>1
  <2>2. i + 1 = j + 1
    BY <2>1 DEF Distinct
  <2> QED
    BY <1>1, <2>2
<1>3. ASSUME NEW y \in In(Tail(sl)) PROVE y \in In(sl) /\ y # Head(sl)
  <2>1. PICK i \in 1 .. Len(sl) - 1 : y = Tail(sl)[i]
    BY <1>1, <1>3 DEF In
  <2>2. y = sl[i + 1] /\ i + 1 \in 1 .. Len(sl) /\ i + 1 # 1 /\ 1 \in 1 .. Len(sl)
    BY <1>1, <2>1
  <2>3. sl[i + 1] # sl[1]
    BY <2>2 DEF Distinct
  <2> QED
    BY <1>1, <2>2, <2>3 DEF In
<1>4. ASSUME NEW y \in In(sl), y # Head(sl) PROVE y \in In(Tail(sl))
  <2>1. PICK i \in 1 .. Len(sl) : y = sl[i]
    BY <1>1, <1>4 DEF In
  <2>2. i # 1
    BY <1>1, <1>4, <2>1
  <2>3. i - 1 \in 1 .. Len(sl) - 1 /\ (i - 1) + 1 = i
    BY <1>1, <2>1, <2>2
  <2>4. Tail(sl)[i - 1] = y
    BY <1>1, <2>1, <2>3
  <2> QED
    BY <1>1, <2>3, <2>4 DEF In
<1>5. Head(sl) \in In(sl)
  BY <1>1 DEF In
<1> QED
  BY <1>1, <1>2, <1>3, <1>4, <1>5

(* The copy of what the first slot asks for goes into the slot. *)
LEMMA SlotGot ==
  ASSUME NEW low, NEW G, NEW orig, NEW R0, NEW C0, NEW R \in [Roots -> Ptr], NEW c, NEW sl,
         Slots(low, G, orig, R0, C0, R, c, sl), sl # <<>>,
         NEW v, Copies(low, G, orig, Wish(R0, C0, Head(sl)), v),
         NEW R2, NEW c2,
         \/ Head(sl) \in Roots /\ R2 = [R EXCEPT ![Head(sl)] = v] /\ c2 = c
         \/ Head(sl) = "u" /\ R2 = R /\ c2 = [c EXCEPT !.u = v]
         \/ Head(sl) = "r" /\ R2 = R /\ c2 = [c EXCEPT !.next = v]
  PROVE  Slots(low, G, orig, R0, C0, R2, c2, Tail(sl))
<1> DEFINE t == Tail(sl)  x == Head(sl)
<1>1. /\ t \in Seq(Roots \cup {"u", "r"}) /\ Distinct(t)
      /\ In(t) = In(sl) \ {x} /\ x \in In(sl)
  BY TailIn DEF Slots
<1>2. RootSlots(low, G, orig, R0, R, sl) /\ CallSlots(low, G, orig, C0, c, sl)
  BY DEF Slots
<1>3. Copies(low, G, orig, Wish(R0, C0, x), v)
  OBVIOUS
<1>4. \/ x \in Roots /\ R2 = [R EXCEPT ![x] = v] /\ c2 = c
      \/ x = "u" /\ R2 = R /\ c2 = [c EXCEPT !.u = v]
      \/ x = "r" /\ R2 = R /\ c2 = [c EXCEPT !.next = v]
  OBVIOUS
<1> HIDE DEF t, x
<1>5. CASE x \in Roots
  <2>1. x # "u" /\ x # "r" /\ Wish(R0, C0, x) = R0[x]
    BY <1>5 DEF Roots, Wish
  <2>2. R2 = [R EXCEPT ![x] = v] /\ c2 = c
    BY <1>4, <2>1
  <2>3. RootSlots(low, G, orig, R0, R2, t)
    BY <1>1, <1>2, <1>3, <1>5, <2>1, <2>2 DEF RootSlots
  <2>4. CallSlots(low, G, orig, C0, c2, t)
    BY <1>1, <1>2, <2>1, <2>2 DEF CallSlots
  <2> QED
    BY <1>1, <2>3, <2>4 DEF Slots, t
<1>6. ASSUME x \in {"u", "r"}
      PROVE  /\ C0 # NoCall /\ Form(c) /\ x \notin Roots /\ c.op = C0.op /\ c.place = C0.place
             /\ RootSlots(low, G, orig, R0, R2, t)
  BY <1>1, <1>2, <1>4, <1>6 DEF CallSlots, RootSlots, Roots
<1>7. CASE x = "u"
  <2>1. c2 = [c EXCEPT !.u = v] /\ Wish(R0, C0, x) = C0.u
    BY <1>4, <1>7 DEF Roots, Wish
  <2>2. Form(c2) /\ c2.op = c.op /\ c2.place = c.place /\ c2.next = c.next /\ c2.u = v
    BY <1>6, <1>7, <2>1 DEF Form
  <2>3. CallSlots(low, G, orig, C0, c2, t)
    BY <1>1, <1>2, <1>3, <1>6, <1>7, <2>1, <2>2 DEF CallSlots
  <2> QED
    BY <1>1, <1>6, <1>7, <2>3 DEF Slots, t
<1>8. CASE x = "r"
  <2>1. c2 = [c EXCEPT !.next = v] /\ Wish(R0, C0, x) = C0.next
    BY <1>4, <1>8 DEF Roots, Wish
  <2>2. Form(c2) /\ c2.op = c.op /\ c2.place = c.place /\ c2.next = v /\ c2.u = c.u
    BY <1>6, <1>8, <2>1 DEF Form
  <2>3. CallSlots(low, G, orig, C0, c2, t)
    BY <1>1, <1>2, <1>3, <1>6, <1>8, <2>1, <2>2 DEF CallSlots
  <2> QED
    BY <1>1, <1>6, <1>8, <2>3 DEF Slots, t
<1> QED
  BY <1>4, <1>5, <1>7, <1>8

(* The slots themselves when copy adds a cell. *)
LEMMA SlotsMore ==
  ASSUME NEW low, NEW G, NEW orig \in [Addr -> Addr], NEW R0, NEW C0, NEW R, NEW c, NEW sl,
         NEW s \in Addr, s \notin G, NEW n,
         Slots(low, G, orig, R0, C0, R, c, sl)
  PROVE  Slots(low, With(G, s), [orig EXCEPT ![s] = n], R0, C0, R, c, sl)
<1> DEFINE G2 == With(G, s)  orig2 == [orig EXCEPT ![s] = n]
<1>1. \A p, q : Copies(low, G, orig, p, q) => Copies(low, G2, orig2, p, q)
  BY CopiesMore
<1> HIDE DEF G2, orig2
<1>2. RootSlots(low, G2, orig2, R0, R, sl)
  BY <1>1 DEF Slots, RootSlots
<1>3. CallSlots(low, G2, orig2, C0, c, sl)
  BY <1>1 DEF Slots, CallSlots
<1> QED
  BY <1>2, <1>3 DEF Slots, G2, orig2

(* The steps of the collector that change no cell. *)
LEMMA CellsSame ==
  ASSUME NEW M0, NEW R0, NEW C0, NEW F, NEW K, NEW L, NEW orig,
         Collecting(M0, R0, C0, F, K, L, orig), UNCHANGED <<mem, reading, calls>>
  PROVE  /\ Given' = Given /\ mem_low' = mem_low /\ memory' = memory /\ calls' = calls
         /\ OtherHalf(F)' /\ Start(M0, R0, C0, F, K, L, mem_low, reading)'
         /\ orig \in [Addr -> Addr] /\ \A a \in 0 .. mem_low - 1 : memory[a] = M0[a]
         /\ OldCells(M0, memory, F, Given, orig)
         /\ NewCells(M0, memory, mem_low, F, Given, orig, calls)
         /\ Slots(mem_low, Given, orig, R0, C0, root, call, slots)
<1>1. /\ memory' = memory /\ memoryindex' = memoryindex /\ mem_low' = mem_low
      /\ mem_mid' = mem_mid /\ direction' = direction /\ reading' = reading /\ calls' = calls
  BY DEF mem
<1>2. Given' = Given /\ OtherHalf(F)'
  BY <1>1 DEF Given, Collecting, OtherHalf
<1>3. Start(M0, R0, C0, F, K, L, mem_low, reading)'
  BY <1>1 DEF Collecting
<1> QED
  BY <1>1, <1>2, <1>3 DEF Collecting, Progress

LEMMA SkipNullKeeps ==
  ASSUME NEW M0, NEW R0, NEW C0, NEW F, NEW K, NEW L, NEW orig, TypeOK, Bounded,
         Collecting(M0, R0, C0, F, K, L, orig), SkipNull
  PROVE  Collecting(M0, R0, C0, F, K, L, orig)'
<1> DEFINE x == Head(slots)
<1>1. /\ UNCHANGED <<mem, reading, calls>> /\ root' = root /\ call' = call /\ pc' = "roots"
      /\ pc = "roots" /\ slots # <<>> /\ slots' = Tail(slots) /\ x \in Roots /\ root[x] = NULL
  BY DEF SkipNull, program, IsNull
<1>2. calls = <<>> /\ Slots(mem_low, Given, orig, R0, C0, root, call, slots)
  BY <1>1 DEF Collecting, Progress
<1>3. R0[x] = NULL
  <2>1. x \in In(slots)
    BY <1>1, <1>2, TailIn DEF Slots
  <2> QED
    BY <1>1, <1>2, <2>1 DEF Slots, RootSlots
<1>4. Copies(mem_low, Given, orig, Wish(R0, C0, x), NULL)
  <2>1. Wish(R0, C0, x) = NULL
    BY <1>1, <1>3 DEF Wish, Roots
  <2>2. NULL \in Refs(mem_low, {})
    BY RefFacts DEF Bounded
  <2> QED
    BY <2>1, <2>2 DEF Copies
<1>5. root \in [Roots -> Ptr] /\ root = [root EXCEPT ![x] = NULL]
  BY <1>1 DEF TypeOK
<1>6. Slots(mem_low, Given, orig, R0, C0, root, call, Tail(slots))
  BY <1>1, <1>2, <1>4, <1>5, SlotGot
<1> QED
  BY <1>1, <1>2, <1>6, CellsSame DEF Collecting, Progress

LEMMA CopyNextKeeps ==
  ASSUME NEW M0, NEW R0, NEW C0, NEW F, NEW K, NEW L, NEW orig, TypeOK, Bounded,
         Collecting(M0, R0, C0, F, K, L, orig), CopyNext
  PROVE  Collecting(M0, R0, C0, F, K, L, orig)' /\ reg' \in Ptr
<1> DEFINE x == Head(slots)
<1>1. /\ UNCHANGED <<mem, reading, calls>> /\ root' = root /\ call' = call /\ pc' = "call"
      /\ pc = "roots" /\ slots # <<>> /\ slots' = slots /\ reg' = SlotValue
  BY DEF CopyNext, program
<1>2. calls = <<>> /\ Slots(mem_low, Given, orig, R0, C0, root, call, slots)
      /\ Start(M0, R0, C0, F, K, L, mem_low, reading)
  BY <1>1 DEF Collecting, Progress
<1>3. /\ x \in In(slots) /\ x \in Roots \cup {"u", "r"}
      /\ Wish(R0, C0, x) \in Refs(mem_low, F)
  BY <1>1, <1>2, WishRefs DEF Bounded
<1>4. SlotValue = Wish(R0, C0, x)
  <2>1. CASE x \in Roots
    BY <1>2, <1>3, <2>1 DEF SlotValue, Wish, Slots, RootSlots, Roots
  <2>2. CASE x \in {"u", "r"}
    BY <1>2, <1>3, <2>2 DEF SlotValue, Wish, Slots, CallSlots, Roots
  <2> QED
    BY <1>3, <2>1, <2>2
<1>5. Frames(M0, F, Given, orig, calls, Wish(R0, C0, x))
  BY <1>2 DEF Frames
<1>6. Wanted(M0, calls, Wish(R0, C0, x)) = Wish(R0, C0, x)
  BY <1>2 DEF Wanted
<1>7. reg' \in Ptr
  <2>1. Above(mem_low, F) /\ mem_low \in Addr
    BY <1>2 DEF Start, Bounded
  <2> QED
    BY <1>1, <1>3, <1>4, <2>1, RefTypes
<1> QED
  BY <1>1, <1>2, <1>4, <1>5, <1>6, <1>7, CellsSame DEF Collecting, Progress

LEMMA SlotDoneKeeps ==
  ASSUME NEW M0, NEW R0, NEW C0, NEW F, NEW K, NEW L, NEW orig, TypeOK, Bounded,
         Collecting(M0, R0, C0, F, K, L, orig), SlotDone
  PROVE  Collecting(M0, R0, C0, F, K, L, orig)' /\ call'.place = call.place
<1> DEFINE x == Head(slots)
<1>1. /\ UNCHANGED <<mem, reading, calls>> /\ pc' = "roots" /\ calls = <<>>
      /\ pc = "return" /\ slots' = Tail(slots)
  BY DEF SlotDone
<1>2. /\ slots # <<>> /\ Slots(mem_low, Given, orig, R0, C0, root, call, slots)
      /\ Start(M0, R0, C0, F, K, L, mem_low, reading)
      /\ Copies(mem_low, Given, orig, Wanted(M0, calls, Wish(R0, C0, x)), reg)
  BY <1>1 DEF Collecting, Progress
<1>3. Copies(mem_low, Given, orig, Wish(R0, C0, x), reg)
  BY <1>1, <1>2 DEF Wanted
<1>4. x \in In(slots) /\ x \in Roots \cup {"u", "r"}
  BY <1>2, WishRefs DEF Bounded
<1>5. \/ x \in Roots /\ root' = [root EXCEPT ![x] = reg] /\ call' = call
      \/ x = "u" /\ root' = root /\ call' = [call EXCEPT !.u = reg]
      \/ x = "r" /\ root' = root /\ call' = [call EXCEPT !.next = reg]
  BY <1>4 DEF SlotDone
<1>6. root \in [Roots -> Ptr]
  BY DEF TypeOK
<1>7. Slots(mem_low, Given, orig, R0, C0, root', call', Tail(slots))
  BY <1>2, <1>3, <1>5, <1>6, SlotGot
<1>8. call'.place = call.place
  <2>1. x \notin Roots => Form(call)
    BY <1>2, <1>4 DEF Slots, CallSlots
  <2> QED
    BY <1>5, <2>1 DEF Form, Roots
<1> QED
  BY <1>1, <1>7, <1>8, CellsSame DEF Collecting, Progress

LEMMA CopySettledKeeps ==
  ASSUME NEW M0, NEW R0, NEW C0, NEW F, NEW K, NEW L, NEW orig, TypeOK, Bounded,
         Collecting(M0, R0, C0, F, K, L, orig), CopySettled
  PROVE  Collecting(M0, R0, C0, F, K, L, orig)' /\ reg' \in Ptr
<1> DEFINE w == Wish(R0, C0, Head(slots))
<1>1. /\ UNCHANGED <<mem, reading, calls>> /\ root' = root /\ call' = call /\ slots' = slots
      /\ pc = "call" /\ pc' = "return" /\ reg' = Forward(reg) /\ Settled(reg)
  BY DEF CopySettled, program
<1>2. /\ slots # <<>> /\ Slots(mem_low, Given, orig, R0, C0, root, call, slots)
      /\ Start(M0, R0, C0, F, K, L, mem_low, reading) /\ Frames(M0, F, Given, orig, calls, w)
      /\ reg = Wanted(M0, calls, w) /\ OldCells(M0, memory, F, Given, orig)
  BY <1>1 DEF Collecting, Progress
<1>3. reg \in Refs(mem_low, F)
  <2>1. w \in Refs(mem_low, F) /\ mem_low \in Addr
    BY <1>2, WishRefs DEF Bounded
  <2> HIDE DEF w
  <2> QED
    BY <1>2, <2>1, WantedRefs
<1>4. Above(mem_low, F) /\ mem_low \in Addr
  BY <1>2 DEF Start, Bounded
<1>5. Copies(mem_low, Given, orig, reg, reg') /\ reg' \in Ptr
  <2>1. CASE reg < mem_low
    <3>1. reg' = reg /\ reg \in Ptr
      BY <1>1, <1>3, <1>4, <2>1, RefTypes DEF Forward
    <3>2. reg \in Refs(mem_low, {})
      <4>1. reg \notin F
        <5>1. reg \in F => reg \in Int /\ reg >= mem_low /\ mem_low \in Int
          BY <1>4 DEF Above, Addr
        <5> QED
          BY <2>1, <5>1
      <4> QED
        BY <1>3, <4>1 DEF Refs
    <3> QED
      BY <3>1, <3>2 DEF Copies
  <2>2. CASE ~(reg < mem_low)
    <3>1. reg \in F /\ reg >= mem_low
      <4>1. reg # NULL
        BY <1>4, <2>2, Half DEF NULL, Addr
      <4>2. reg \notin 0 .. mem_low - 1
        BY <1>4, <2>2, Below
      <4> QED
        BY <1>3, <1>4, <4>1, <4>2, RefCases DEF Above
    <3>2. M0[reg].op \in {"INTEGER_", "LIST_"}
      BY <1>2, <3>1 DEF Start, Shape, Closure, Sound
    <3>3. memory[reg].op = "COPIED_" /\ memory[reg].u \in Given /\ orig[memory[reg].u] = reg
      BY <1>1, <1>2, <3>1, <3>2 DEF Settled, OldCells
    <3>4. reg' = memory[reg].u
      BY <1>1, <2>2, <3>3 DEF Forward
    <3>5. reg \notin Refs(mem_low, {})
      BY <1>4, <3>1 DEF Refs, Addr
    <3> QED
      BY <3>3, <3>4, <3>5 DEF Copies, Given, Ptr
  <2> QED
    BY <2>1, <2>2
<1> QED
  BY <1>1, <1>2, <1>5, CellsSame DEF Collecting, Progress

(* The C stack of copy grows and shrinks at its end. *)
LEMMA Pushed ==
  ASSUME NEW cs \in Seq(CFrame), NEW f \in CFrame
  PROVE  /\ Append(cs, f) \in Seq(CFrame)
         /\ Temps(cs) \subseteq Temps(Append(cs, f)) /\ f.temp \in Temps(Append(cs, f))
         /\ Open(cs) \subseteq Open(Append(cs, f))
         /\ f.at = "u" => f.temp \in Open(Append(cs, f))
<1> DEFINE c2 == Append(cs, f)
<1>1. /\ c2 \in Seq(CFrame) /\ DOMAIN c2 = 1 .. Len(cs) + 1 /\ DOMAIN cs = 1 .. Len(cs)
      /\ \A i \in 1 .. Len(cs) : i \in 1 .. Len(cs) + 1 /\ c2[i] = cs[i]
      /\ Len(cs) + 1 \in 1 .. Len(cs) + 1 /\ c2[Len(cs) + 1] = f
  OBVIOUS
<1> HIDE DEF c2
<1>2. Temps(cs) \subseteq Temps(c2) /\ f.temp \in Temps(c2)
  BY <1>1 DEF Temps
<1>3. Open(cs) \subseteq Open(c2) /\ (f.at = "u" => f.temp \in Open(c2))
  BY <1>1 DEF Open
<1> QED
  BY <1>1, <1>2, <1>3 DEF c2

Shorter(cs) == SubSeq(cs, 1, Len(cs) - 1)
LEMMA Popped ==
  ASSUME NEW cs \in Seq(CFrame), cs # <<>>, NEW c2, c2 = Shorter(cs)
  PROVE  /\ c2 \in Seq(CFrame) /\ Len(c2) = Len(cs) - 1 /\ Len(cs) \in Nat \ {0}
         /\ \A i \in 1 .. Len(cs) - 1 : c2[i] = cs[i]
         /\ Temps(cs) \subseteq Temps(c2) \cup {cs[Len(cs)].temp}
         /\ cs[Len(cs)].at = "next" => Open(cs) = Open(c2)
<1>1. /\ c2 \in Seq(CFrame) /\ Len(c2) = Len(cs) - 1 /\ Len(cs) \in Nat \ {0}
      /\ \A i \in 1 .. Len(cs) - 1 : c2[i] = cs[i]
      /\ DOMAIN cs = 1 .. Len(cs) /\ DOMAIN c2 = 1 .. Len(cs) - 1
  <2>1. Len(cs) \in Nat \ {0} /\ DOMAIN cs = 1 .. Len(cs)
    OBVIOUS
  <2>2. PICK m : m = Len(cs) - 1
    OBVIOUS
  <2>3. m \in Nat /\ c2 = SubSeq(cs, 1, m) /\ \A i \in 1 .. m : i \in 1 .. Len(cs)
    BY <2>1, <2>2 DEF Shorter
  <2>4. c2 \in Seq(CFrame) /\ Len(c2) = m /\ \A i \in 1 .. m : c2[i] = cs[i]
    <3>1. \A i \in 1 .. m : cs[i] \in CFrame
      BY <2>3
    <3>2. /\ SubSeq(cs, 1, m) \in Seq(CFrame)
          /\ Len(SubSeq(cs, 1, m)) = IF 1 <= m THEN m - 1 + 1 ELSE 0
          /\ \A i \in 1 .. m - 1 + 1 : SubSeq(cs, 1, m)[i] = cs[1 + i - 1]
      BY <2>3, <3>1, SubSeqProperties
    <3>3. Len(c2) = m
      BY <2>3, <3>2
    <3>4. \A i \in 1 .. m : i \in 1 .. m - 1 + 1 /\ 1 + i - 1 = i
      BY <2>3
    <3> QED
      BY <2>3, <3>2, <3>3, <3>4
  <2>5. DOMAIN c2 = 1 .. m
    BY <2>4
  <2> QED
    BY <2>1, <2>2, <2>4, <2>5
<1>2. \A i \in 1 .. Len(cs) : i = Len(cs) \/ i \in 1 .. Len(cs) - 1
  <2>1. Len(cs) \in Nat
    OBVIOUS
  <2> QED
    BY <2>1
<1>3. \A i \in 1 .. Len(cs) - 1 : i \in 1 .. Len(cs)
  BY <1>1
<1>4. Temps(cs) \subseteq Temps(c2) \cup {cs[Len(cs)].temp}
  BY <1>1, <1>2 DEF Temps
<1>5. ASSUME cs[Len(cs)].at = "next" PROVE Open(cs) \subseteq Open(c2)
  BY <1>1, <1>2, <1>5 DEF Open
<1>6. Open(c2) \subseteq Open(cs)
  BY <1>1, <1>3 DEF Open
<1> QED
  BY <1>1, <1>4, <1>5, <1>6

ToNext(cs) == [cs EXCEPT ![Len(cs)].at = "next"]
LEMMA Turned ==
  ASSUME NEW cs \in Seq(CFrame), cs # <<>>, NEW c2, c2 = ToNext(cs)
  PROVE  /\ c2 \in Seq(CFrame) /\ Len(c2) = Len(cs) /\ Len(cs) \in Nat \ {0}
         /\ \A i \in 1 .. Len(cs) - 1 : c2[i] = cs[i]
         /\ \A i \in 1 .. Len(cs) : c2[i].n = cs[i].n /\ c2[i].temp = cs[i].temp
         /\ c2[Len(cs)].at = "next"
         /\ Temps(c2) = Temps(cs)
         /\ Open(cs) \subseteq Open(c2) \cup {cs[Len(cs)].temp}
<1>1. Len(cs) \in Nat \ {0} /\ cs \in [1 .. Len(cs) -> CFrame] /\ Len(cs) \in 1 .. Len(cs)
  OBVIOUS
<1>2. PICK n : n = Len(cs)
  OBVIOUS
<1>3. cs[n] \in CFrame
  BY <1>1, <1>2
<1>4. PICK f : f = [cs[n] EXCEPT !.at = "next"]
  OBVIOUS
<1>5. f \in CFrame /\ f.n = cs[n].n /\ f.temp = cs[n].temp /\ f.at = "next"
  BY <1>3, <1>4 DEF CFrame
<1>6. c2 = [cs EXCEPT ![n] = f]
  BY <1>2, <1>4 DEF ToNext
<1>7. c2 \in [1 .. n -> CFrame] /\ c2[n] = f /\ \A i \in 1 .. n : i # n => c2[i] = cs[i]
  <2>1. cs \in [1 .. n -> CFrame] /\ n \in 1 .. n
    BY <1>1, <1>2
  <2>2. c2 \in [1 .. n -> CFrame]
    BY <1>5, <1>6, <2>1
  <2>3. c2[n] = f /\ \A i \in 1 .. n : i # n => c2[i] = cs[i]
    BY <1>6, <2>1
  <2> QED
    BY <2>2, <2>3
<1>14. n \in Nat
  <2>1. Len(cs) \in Nat
    OBVIOUS
  <2> QED
    BY <1>2, <2>1, Zenon
<1>8. c2 \in Seq(CFrame) /\ Len(c2) = n
  BY <1>7, <1>14
<1>9. \A i \in 1 .. n : c2[i].n = cs[i].n /\ c2[i].temp = cs[i].temp
  BY <1>5, <1>7
<1>10. DOMAIN c2 = 1 .. n /\ DOMAIN cs = 1 .. n
  <2>1. cs \in [1 .. n -> CFrame]
    BY <1>1, <1>2
  <2> QED
    BY <1>7, <2>1, Zenon
<1>11. Temps(c2) = Temps(cs)
  BY <1>9, <1>10 DEF Temps
<1>12. Open(cs) \subseteq Open(c2) \cup {cs[n].temp}
  BY <1>7, <1>10 DEF Open
<1>13. \A i \in 1 .. n - 1 : i \in 1 .. n /\ i # n
  BY <1>14
<1> QED
  BY <1>1, <1>2, <1>5, <1>7, <1>8, <1>9, <1>11, <1>12, <1>13

LEMMA PtrInt == Ptr \subseteq Int /\ NULL \in Ptr /\ Addr \subseteq Ptr
BY Half DEF Ptr, Addr, NULL

(* TypeOK of the next state, from its parts. *)
Lists(M, X) == \A a \in X : M[a].op \in {"LIST_", "COPIED_"} => M[a].u \in Ptr
Phased == {"first", "end", "more", "run"}
Stages == {"run", "roots", "call", "return", "full"}

LEMMA TypesKept ==
  ASSUME Bounded', memory' \in [Addr -> Cell], Lists(memory', Addr \ Open(calls')),
         root' \in [Roots -> Ptr], body' \in [Names -> Ptr], current' \in Ptr, bucket' \in Ptr,
         reading' \in Seq(Phased), defining' \in BOOLEAN, pc' \in Stages,
         calls' \in Seq(CFrame), slots' \in Seq(Roots \cup {"u", "r"}), reg' \in Ptr
  PROVE  TypeOK'
<1>1. memoryindex' \in -1 .. MEMORYMAX
  <2>1. PICK i, low, mid : i = memoryindex' /\ low = mem_low' /\ mid = mem_mid'
    OBVIOUS
  <2>2. MEM_HIGH \in Nat /\ MEMORYMAX = MEM_HIGH + 1
    BY HeapAssumption, Half DEF MEM_HIGH
  <2>3. low \in 0 .. MEM_HIGH /\ mid \in 0 .. MEM_HIGH /\ i \in Int
        /\ ((low <= i /\ i <= mid) \/ (mid <= i /\ i <= MEM_HIGH))
    <3>1. low \in Addr /\ mid \in Addr /\ i \in Int
      BY <2>1 DEF Bounded
    <3>2. (low <= i /\ i <= mid) \/ (mid <= i /\ i <= MEM_HIGH)
      BY <2>1 DEF Bounded
    <3> QED
      BY <3>1, <3>2 DEF Addr
  <2>4. i \in -1 .. MEMORYMAX
    BY <2>2, <2>3
  <2> QED
    BY <2>1, <2>4
<1>2. mem_low' \in Addr /\ mem_mid' \in Addr /\ mem_mid' = mem_low' + MEM_HIGH \div 2 /\ direction' \in {-1, 1}
  BY DEF Bounded
<1>3. \A a \in Addr \ Filling' : memory'[a].op \in {"LIST_", "COPIED_"} => memory'[a].u \in Ptr
  BY DEF Lists, Filling, Open
<1> QED
  BY <1>1, <1>2, <1>3 DEF TypeOK, Phased, Stages, CFrame

(* copy on a cell of the old half that it has not met: a new cell is begun. *)
LEMMA CopyCellKeeps ==
  ASSUME NEW M0, NEW R0, NEW C0, NEW F, NEW K, NEW L, NEW orig, TypeOK, Bounded,
         Collecting(M0, R0, C0, F, K, L, orig), CopyCell, ~NoRoom,
         NEW after, after = [orig EXCEPT ![memoryindex] = reg]
  PROVE  Collecting(M0, R0, C0, F, K, L, after)' /\ TypeOK' /\ Bounded'
<1> DEFINE w  == Wish(R0, C0, Head(slots))
           at == IF memory[reg].op = "LIST_" THEN "u" ELSE "next"
<1>1. PICK n, s, f : n = reg /\ s = memoryindex /\ f = [n |-> n, temp |-> s, at |-> at]
  OBVIOUS
<1>2. /\ memory' = [memory EXCEPT ![s].op = memory[n].op,
                            ![s].u = IF memory[n].op = "LIST_" THEN @ ELSE memory[n].u]
      /\ memoryindex' = memoryindex + direction /\ calls' = Append(calls, f)
      /\ reg' = IF memory[n].op = "LIST_" THEN memory[n].u ELSE memory[n].next
      /\ UNCHANGED <<mem_low, mem_mid, direction>> /\ reading' = reading
      /\ root' = root /\ call' = call /\ slots' = slots /\ pc' = "call" /\ pc = "call"
      /\ UNCHANGED program /\ ~Settled(reg)
  BY <1>1 DEF CopyCell, program
<1>3. /\ slots # <<>> /\ Slots(mem_low, Given, orig, R0, C0, root, call, slots)
      /\ Start(M0, R0, C0, F, K, L, mem_low, reading) /\ Frames(M0, F, Given, orig, calls, w)
      /\ n = Wanted(M0, calls, w) /\ OldCells(M0, memory, F, Given, orig)
      /\ NewCells(M0, memory, mem_low, F, Given, orig, calls)
      /\ orig \in [Addr -> Addr] /\ OtherHalf(F)
      /\ \A a \in 0 .. mem_low - 1 : memory[a] = M0[a]
  BY <1>1, <1>2 DEF Collecting, Progress
<1>4. PICK first : first = w
  OBVIOUS
<1> HIDE DEF w
<1>5. /\ Bounded' /\ Given' = With(Given, s)
      /\ s \in Addr /\ s >= mem_low /\ s \notin Given
  BY <1>1, <1>2, Allot
<1>6. Above(mem_low, F) /\ mem_low \in Addr /\ s \notin F
  BY <1>1, <1>3, ApartHalves DEF Start, Bounded
<1>7. n \in F
  <2>1. n \in Refs(mem_low, F)
    BY <1>3, <1>6, WishRefs, WantedRefs DEF w
  <2>2. n >= mem_low
    BY <1>1, <1>2 DEF Settled
  <2>3. n # NULL /\ n \notin 0 .. mem_low - 1
    BY <1>6, <2>2, Below DEF NULL, Addr
  <2> QED
    BY <1>6, <2>1, <2>3, RefCases
<1>8. /\ Sound(M0[n], Refs(mem_low, F)) /\ memory[n] = M0[n] /\ n \in Addr /\ n # s
      /\ M0[n].op \in {"INTEGER_", "LIST_"} /\ M0[n] \in Cell
  <2>1. Sound(M0[n], Refs(mem_low, F)) /\ n \in Addr /\ n # s
    BY <1>3, <1>6, <1>7 DEF Start, Shape, Closure, Above
  <2>2. memory[n].op # "COPIED_"
    BY <1>1, <1>2 DEF Settled
  <2>3. memory[n] = M0[n]
    BY <1>3, <1>7, <2>2 DEF OldCells
  <2> QED
    BY <1>3, <2>1, <2>3 DEF Sound, Start
<1>9. memory \in [Addr -> Cell] /\ memory[s] \in Cell /\ calls \in Seq(CFrame)
  BY <1>5 DEF TypeOK, CFrame
<1>10. /\ memory' \in [Addr -> Cell] /\ \A x \in Addr : x # s => memory'[x] = memory[x]
       /\ memory'[s].op = M0[n].op
       /\ M0[n].op # "LIST_" => memory'[s].u = M0[n].u
  BY <1>2, <1>5, <1>8, <1>9 DEF Cell
<1>11. f \in CFrame /\ f.n = n /\ f.temp = s /\ (f.at = "u" <=> M0[n].op = "LIST_")
  BY <1>1, <1>5, <1>8 DEF CFrame
<1>12. /\ calls' \in Seq(CFrame) /\ Temps(calls) \subseteq Temps(calls') /\ s \in Temps(calls')
       /\ Open(calls) \subseteq Open(calls') /\ (M0[n].op = "LIST_" => s \in Open(calls'))
  BY <1>2, <1>9, <1>11, Pushed
<1>13. PICK G2, orig2 : G2 = With(Given, s) /\ orig2 = [orig EXCEPT ![s] = n]
  OBVIOUS
<1>14. \A p, q : Copies(mem_low, Given, orig, p, q) => Copies(mem_low, G2, orig2, p, q)
  BY <1>3, <1>5, <1>13, CopiesMore
<1>15. /\ orig2 \in [Addr -> Addr] /\ orig2[s] = n /\ \A b \in Given : orig2[b] = orig[b]
       /\ \A b : b \in G2 <=> b \in Given \/ b = s
  <2>1. Given \subseteq Addr
    BY DEF Given
  <2> QED
    BY <1>3, <1>5, <1>8, <1>13, <2>1 DEF With
<1>16. OldCells(M0, memory', F, G2, orig2)
  <2> SUFFICES ASSUME NEW a \in F
               PROVE  /\ memory'[a].next = M0[a].next
                      /\ \/ memory'[a] = M0[a]
                         \/ memory'[a].op = "COPIED_" /\ memory'[a].u \in G2 /\ orig2[memory'[a].u] = a
    BY DEF OldCells
  <2>1. memory'[a] = memory[a]
    BY <1>6, <1>10 DEF Above
  <2> QED
    BY <1>3, <1>15, <2>1 DEF OldCells
<1>17. NewCells(M0, memory', mem_low, F, G2, orig2, calls')
  <2>1. ASSUME NEW b \in Given
        PROVE  /\ orig2[b] \in F /\ memory'[b].op = M0[orig2[b]].op
               /\ b \notin Temps(calls') => Copies(mem_low, G2, orig2, M0[orig2[b]].next, memory'[b].next)
               /\ memory'[b].op = "LIST_" /\ b \notin Open(calls') =>
                    Copies(mem_low, G2, orig2, M0[orig2[b]].u, memory'[b].u)
               /\ memory'[b].op # "LIST_" => memory'[b].u = M0[orig2[b]].u
    <3>1. memory'[b] = memory[b] /\ orig2[b] = orig[b]
      BY <1>5, <1>10, <1>15 DEF Given
    <3>2. /\ orig[b] \in F /\ memory[b].op = M0[orig[b]].op
          /\ b \notin Temps(calls) => Copies(mem_low, Given, orig, M0[orig[b]].next, memory[b].next)
          /\ memory[b].op = "LIST_" /\ b \notin Open(calls) =>
               Copies(mem_low, Given, orig, M0[orig[b]].u, memory[b].u)
          /\ memory[b].op # "LIST_" => memory[b].u = M0[orig[b]].u
      BY <1>3 DEF NewCells
    <3> QED
      BY <1>12, <1>14, <3>1, <3>2
  <2>2. /\ orig2[s] \in F /\ memory'[s].op = M0[orig2[s]].op
        /\ s \in Temps(calls') /\ (memory'[s].op = "LIST_" => s \in Open(calls'))
        /\ memory'[s].op # "LIST_" => memory'[s].u = M0[orig2[s]].u
    BY <1>7, <1>10, <1>12, <1>15
  <2> QED
    BY <1>15, <2>1, <2>2 DEF NewCells
<1>18. Slots(mem_low, G2, orig2, R0, C0, root, call, slots)
  BY <1>3, <1>5, <1>13, SlotsMore
<1>19. Frames(M0, F, G2, orig2, calls', first) /\ Wanted(M0, calls', first) = reg'
  <2>1. /\ Len(calls') = Len(calls) + 1 /\ Len(calls) \in Nat
        /\ \A i \in 1 .. Len(calls) : calls'[i] = calls[i]
        /\ calls'[Len(calls) + 1] = f /\ calls' # <<>>
    BY <1>2, <1>9
  <2>2. Asked(M0, f) = reg'
    BY <1>2, <1>8, <1>11 DEF Asked
  <2>3. Wanted(M0, calls', first) = reg'
    BY <2>1, <2>2 DEF Wanted
  <2>4. ASSUME NEW i \in 1 .. Len(calls)
        PROVE  /\ calls'[i].n \in F /\ calls'[i].temp \in G2 /\ orig2[calls'[i].temp] = calls'[i].n
               /\ calls'[i].at = "u" => M0[calls'[i].n].op = "LIST_"
               /\ calls'[i].n = IF i = 1 THEN first ELSE Asked(M0, calls'[i - 1])
    <3>1. calls'[i] = calls[i] /\ (i # 1 => calls'[i - 1] = calls[i - 1])
      BY <2>1
    <3>2. /\ calls[i].n \in F /\ calls[i].temp \in Given /\ orig[calls[i].temp] = calls[i].n
          /\ calls[i].at = "u" => M0[calls[i].n].op = "LIST_"
          /\ calls[i].n = IF i = 1 THEN first ELSE Asked(M0, calls[i - 1])
      BY <1>3, <1>4 DEF Frames
    <3> QED
      BY <1>15, <3>1, <3>2
  <2>5. n = IF Len(calls) + 1 = 1 THEN first ELSE Asked(M0, calls'[(Len(calls) + 1) - 1])
    <3>1. CASE calls = <<>>
      BY <1>3, <1>4, <3>1 DEF Wanted
    <3>2. CASE calls # <<>>
      <4>1. Len(calls) \in 1 .. Len(calls) /\ (Len(calls) + 1) - 1 = Len(calls) /\ Len(calls) + 1 # 1
        BY <1>9, <3>2
      <4>2. n = Asked(M0, calls[Len(calls)])
        BY <1>3, <1>4, <3>2 DEF Wanted
      <4> QED
        BY <2>1, <4>1, <4>2
    <3> QED
      BY <3>1, <3>2
  <2>6. ASSUME NEW i \in 1 .. Len(calls')
        PROVE  /\ calls'[i].n \in F /\ calls'[i].temp \in G2 /\ orig2[calls'[i].temp] = calls'[i].n
               /\ calls'[i].at = "u" => M0[calls'[i].n].op = "LIST_"
               /\ calls'[i].n = IF i = 1 THEN first ELSE Asked(M0, calls'[i - 1])
    <3>1. CASE i = Len(calls) + 1
      BY <1>7, <1>11, <1>15, <2>1, <2>5, <3>1
    <3>2. CASE i # Len(calls) + 1
      <4>1. i \in 1 .. Len(calls)
        BY <2>1, <3>2
      <4> QED
        BY <2>4, <4>1
    <3> QED
      BY <3>1, <3>2
  <2> QED
    BY <1>12, <2>3, <2>6 DEF Frames
<1>20. TypeOK'
  <2>1. reg' \in Ptr
    <3>1. Refs(mem_low, F) \subseteq Ptr
      BY <1>6, RefTypes
    <3> QED
      BY <1>2, <1>8, <3>1 DEF Sound
  <2>2. ASSUME NEW a \in Addr, a \notin Open(calls'), memory'[a].op \in {"LIST_", "COPIED_"}
        PROVE  memory'[a].u \in Ptr
    <3>1. a # s
      BY <1>8, <1>10, <1>12, <2>2
    <3>2. a \notin Open(calls)
      BY <1>12, <2>2
    <3> QED
      BY <1>10, <2>2, <3>1, <3>2 DEF TypeOK, Filling, Open
  <2> QED
    <3>1. Lists(memory', Addr \ Open(calls'))
      BY <2>2 DEF Lists
    <3>2. /\ root' \in [Roots -> Ptr] /\ body' \in [Names -> Ptr] /\ current' \in Ptr /\ bucket' \in Ptr
          /\ reading' \in Seq(Phased) /\ defining' \in BOOLEAN /\ pc' \in Stages
          /\ slots' \in Seq(Roots \cup {"u", "r"})
      BY <1>2 DEF TypeOK, program, Phased, Stages
    <3> QED
      BY <1>5, <1>10, <1>12, <2>1, <3>1, <3>2, TypesKept
<1>21. Collecting(M0, R0, C0, F, K, L, orig2)'
  <2>1. OtherHalf(F)' /\ Start(M0, R0, C0, F, K, L, mem_low, reading)'
    BY <1>2, <1>3 DEF OtherHalf
  <2>2. /\ Given' = G2 /\ mem_low' = mem_low /\ root' = root /\ call' = call /\ slots' = slots
        /\ pc' = "call" /\ slots # <<>> /\ Wish(R0, C0, Head(slots)) = first
    BY <1>2, <1>3, <1>4, <1>5, <1>13 DEF w
  <2>3. \A a \in 0 .. mem_low - 1 : memory'[a] = M0[a]
    <3> SUFFICES ASSUME NEW a \in 0 .. mem_low - 1 PROVE memory'[a] = M0[a]
      OBVIOUS
    <3>1. a \in Addr /\ a # s
      BY <1>5, <1>6, Below DEF Addr
    <3> QED
      BY <1>3, <1>10, <3>1
  <2>4. Progress(M0, R0, C0, F, orig2)'
    BY <1>15, <1>16, <1>17, <1>18, <1>19, <2>2, <2>3 DEF Progress
  <2> QED
    BY <2>1, <2>4 DEF Collecting
<1>22. Collecting(M0, R0, C0, F, K, L, after)'
  <2>1. after = [orig EXCEPT ![s] = n]
    BY <1>1
  <2>2. orig2 = after
    BY <1>13, <2>1
  <2> QED
    BY <1>21, <2>2
<1> QED
  BY <1>5, <1>20, <1>22

(* copy is back from the members of a list. *)
LEMMA CopyTailKeeps ==
  ASSUME NEW M0, NEW R0, NEW C0, NEW F, NEW K, NEW L, NEW orig, TypeOK, Bounded,
         Collecting(M0, R0, C0, F, K, L, orig), CopyTail
  PROVE  Collecting(M0, R0, C0, F, K, L, orig)' /\ TypeOK' /\ Bounded'
<1>1. PICK first, f, m : first = Wish(R0, C0, Head(slots)) /\ f = Frame /\ m = Len(calls)
  OBVIOUS
<1>2. /\ memory' = [memory EXCEPT ![f.temp].u = reg] /\ reg' = memory[f.n].next
      /\ calls' = [calls EXCEPT ![m].at = "next"] /\ calls # <<>> /\ f.at = "u" /\ f = calls[m]
      /\ UNCHANGED <<memoryindex, mem_low, mem_mid, direction>> /\ reading' = reading
      /\ root' = root /\ call' = call /\ slots' = slots /\ pc' = "call" /\ pc = "return"
      /\ UNCHANGED program
  BY <1>1 DEF CopyTail, program, Frame
<1>3. /\ slots # <<>> /\ Slots(mem_low, Given, orig, R0, C0, root, call, slots)
      /\ Start(M0, R0, C0, F, K, L, mem_low, reading) /\ Frames(M0, F, Given, orig, calls, first)
      /\ Copies(mem_low, Given, orig, Wanted(M0, calls, first), reg)
      /\ OldCells(M0, memory, F, Given, orig)
      /\ NewCells(M0, memory, mem_low, F, Given, orig, calls)
      /\ orig \in [Addr -> Addr] /\ OtherHalf(F)
      /\ \A a \in 0 .. mem_low - 1 : memory[a] = M0[a]
  BY <1>1, <1>2 DEF Collecting, Progress
<1>4. Above(mem_low, F) /\ mem_low \in Addr /\ Given \cap F = {}
  BY <1>3, ApartHalves DEF Start, Bounded
<1>5. /\ calls \in Seq(CFrame) /\ m \in Nat \ {0} /\ m \in 1 .. Len(calls)
      /\ f.n \in F /\ f.temp \in Given /\ orig[f.temp] = f.n /\ M0[f.n].op = "LIST_"
      /\ Wanted(M0, calls, first) = M0[f.n].u
  <2>1. calls \in Seq(CFrame) /\ m \in Nat \ {0} /\ m \in 1 .. Len(calls)
    BY <1>1, <1>2, <1>3 DEF Frames
  <2> QED
    BY <1>1, <1>2, <1>3, <2>1 DEF Frames, Wanted, Asked
<1>6. /\ f.temp \in Addr /\ f.temp >= mem_low /\ f.temp \notin F /\ memory \in [Addr -> Cell]
      /\ reg \in Ptr /\ f.n \in Addr
  BY <1>4, <1>5 DEF Given, TypeOK, Above
<1>7. /\ memory' \in [Addr -> Cell] /\ \A x \in Addr : x # f.temp => memory'[x] = memory[x]
      /\ memory'[f.temp].op = memory[f.temp].op /\ memory'[f.temp].next = memory[f.temp].next
      /\ memory'[f.temp].u = reg
  <2>1. PICK t : t = f.temp
    OBVIOUS
  <2>2. t \in Addr /\ memory[t] \in Cell /\ reg \in Int /\ memory' = [memory EXCEPT ![t].u = reg]
    BY <1>2, <1>6, <2>1, PtrInt
  <2>3. /\ memory' \in [Addr -> Cell] /\ \A x \in Addr : x # t => memory'[x] = memory[x]
        /\ memory'[t].op = memory[t].op /\ memory'[t].next = memory[t].next /\ memory'[t].u = reg
    BY <1>6, <2>2 DEF Cell
  <2> QED
    BY <2>1, <2>3
<1>8. /\ calls' \in Seq(CFrame) /\ Len(calls') = m
      /\ \A i \in 1 .. m - 1 : calls'[i] = calls[i]
      /\ \A i \in 1 .. m : calls'[i].n = calls[i].n /\ calls'[i].temp = calls[i].temp
      /\ calls'[m].at = "next" /\ Temps(calls') = Temps(calls)
      /\ Open(calls) \subseteq Open(calls') \cup {f.temp}
  <2>1. PICK c2 : c2 = calls'
    OBVIOUS
  <2>2. c2 = [calls EXCEPT ![Len(calls)].at = "next"] /\ f = calls[Len(calls)]
    BY <1>1, <1>2, <2>1
  <2>3. /\ c2 \in Seq(CFrame) /\ Len(c2) = Len(calls)
        /\ \A i \in 1 .. Len(calls) - 1 : c2[i] = calls[i]
        /\ \A i \in 1 .. Len(calls) : c2[i].n = calls[i].n /\ c2[i].temp = calls[i].temp
        /\ c2[Len(calls)].at = "next" /\ Temps(c2) = Temps(calls)
        /\ Open(calls) \subseteq Open(c2) \cup {calls[Len(calls)].temp}
    <3>1. calls \in Seq(CFrame) /\ calls # <<>> /\ c2 = ToNext(calls)
      BY <1>2, <1>5, <2>2 DEF ToNext
    <3> QED
      BY <3>1, Turned, ZenonT(30)
  <2> QED
    BY <1>1, <2>1, <2>2, <2>3
<1>9. /\ Given' = Given /\ mem_low' = mem_low /\ OtherHalf(F)' /\ Bounded'
      /\ Start(M0, R0, C0, F, K, L, mem_low, reading)'
  BY <1>2, <1>3 DEF Given, OtherHalf, Bounded
<1>10. OldCells(M0, memory', F, Given, orig)
  <2> SUFFICES ASSUME NEW a \in F PROVE memory'[a] = memory[a]
    BY <1>3 DEF OldCells
  <2> QED
    BY <1>4, <1>6, <1>7 DEF Above
<1>11. NewCells(M0, memory', mem_low, F, Given, orig, calls')
  <2> SUFFICES ASSUME NEW b \in Given
               PROVE  /\ orig[b] \in F /\ memory'[b].op = M0[orig[b]].op
                      /\ b \notin Temps(calls') =>
                           Copies(mem_low, Given, orig, M0[orig[b]].next, memory'[b].next)
                      /\ memory'[b].op = "LIST_" /\ b \notin Open(calls') =>
                           Copies(mem_low, Given, orig, M0[orig[b]].u, memory'[b].u)
                      /\ memory'[b].op # "LIST_" => memory'[b].u = M0[orig[b]].u
    BY DEF NewCells
  <2>1. /\ orig[b] \in F /\ memory[b].op = M0[orig[b]].op
        /\ b \notin Temps(calls) => Copies(mem_low, Given, orig, M0[orig[b]].next, memory[b].next)
        /\ memory[b].op = "LIST_" /\ b \notin Open(calls) =>
             Copies(mem_low, Given, orig, M0[orig[b]].u, memory[b].u)
        /\ memory[b].op # "LIST_" => memory[b].u = M0[orig[b]].u
    BY <1>3 DEF NewCells
  <2>2. CASE b = f.temp
    BY <1>3, <1>5, <1>7, <1>8, <2>1, <2>2
  <2>3. CASE b # f.temp
    <3>1. memory'[b] = memory[b]
      BY <1>7, <2>3 DEF Given
    <3> QED
      BY <1>8, <2>1, <2>3, <3>1
  <2> QED
    BY <2>2, <2>3
<1>12. Frames(M0, F, Given, orig, calls', first)
  <2> SUFFICES ASSUME NEW i \in 1 .. m
               PROVE  /\ calls'[i].n \in F /\ calls'[i].temp \in Given /\ orig[calls'[i].temp] = calls'[i].n
                      /\ calls'[i].at = "u" => M0[calls'[i].n].op = "LIST_"
                      /\ calls'[i].n = IF i = 1 THEN first ELSE Asked(M0, calls'[i - 1])
    BY <1>8 DEF Frames
  <2>1. /\ calls[i].n \in F /\ calls[i].temp \in Given /\ orig[calls[i].temp] = calls[i].n
        /\ calls[i].at = "u" => M0[calls[i].n].op = "LIST_"
        /\ calls[i].n = IF i = 1 THEN first ELSE Asked(M0, calls[i - 1])
    BY <1>1, <1>3 DEF Frames
  <2>2. i # 1 => calls'[i - 1] = calls[i - 1]
    BY <1>5, <1>8
  <2>3. calls'[i].at = "u" => calls[i].at = "u"
    <3>1. i # m => i \in 1 .. m - 1
      BY <1>5
    <3> QED
      BY <1>8, <3>1
  <2> QED
    BY <1>8, <2>1, <2>2, <2>3
<1>13. reg' = Wanted(M0, calls', first)
  <2>1. calls' # <<>>
    BY <1>5, <1>8
  <2>2. reg' = M0[f.n].next
    BY <1>2, <1>3, <1>5 DEF OldCells
  <2>3. calls'[m].n = f.n /\ calls'[m].at = "next"
    BY <1>2, <1>5, <1>8
  <2> QED
    BY <1>8, <2>1, <2>2, <2>3 DEF Wanted, Asked
<1>14. \A a \in 0 .. mem_low - 1 : memory'[a] = M0[a]
  <2> SUFFICES ASSUME NEW a \in 0 .. mem_low - 1 PROVE memory'[a] = M0[a]
    OBVIOUS
  <2>1. a \in Addr /\ a # f.temp
    BY <1>4, <1>6, Below DEF Addr
  <2> QED
    BY <1>3, <1>7, <2>1
<1>15. TypeOK'
  <2>1. ASSUME NEW a \in Addr \ Open(calls'), memory'[a].op \in {"LIST_", "COPIED_"}
        PROVE  memory'[a].u \in Ptr
    <3>1. CASE a = f.temp
      BY <1>6, <1>7, <3>1
    <3>2. CASE a # f.temp
      BY <1>7, <1>8, <2>1, <3>2 DEF TypeOK, Filling, Open
    <3> QED
      BY <3>1, <3>2
  <2>2. Lists(memory', Addr \ Open(calls'))
    BY <2>1 DEF Lists
  <2>3. /\ root' \in [Roots -> Ptr] /\ body' \in [Names -> Ptr] /\ current' \in Ptr /\ bucket' \in Ptr
        /\ reading' \in Seq(Phased) /\ defining' \in BOOLEAN /\ pc' \in Stages
        /\ slots' \in Seq(Roots \cup {"u", "r"})
    BY <1>2 DEF TypeOK, program, Phased, Stages
  <2>4. reg' \in Ptr
    BY <1>2, <1>6 DEF Cell
  <2> QED
    BY <1>7, <1>8, <1>9, <2>2, <2>3, <2>4, TypesKept
<1>16. Progress(M0, R0, C0, F, orig)'
  BY <1>1, <1>2, <1>3, <1>9, <1>10, <1>11, <1>12, <1>13, <1>14 DEF Progress
<1> QED
  BY <1>9, <1>15, <1>16 DEF Collecting

(* copy is back from the rest of the list: the old cell is marked. *)
LEMMA CopyDoneKeeps ==
  ASSUME NEW M0, NEW R0, NEW C0, NEW F, NEW K, NEW L, NEW orig, TypeOK, Bounded,
         Collecting(M0, R0, C0, F, K, L, orig), CopyDone
  PROVE  Collecting(M0, R0, C0, F, K, L, orig)' /\ TypeOK' /\ Bounded'
<1>1. PICK first, f, m, c2 : /\ first = Wish(R0, C0, Head(slots)) /\ f = Frame /\ m = Len(calls)
                             /\ c2 = calls'
  OBVIOUS
<1>2. /\ memory' = [memory EXCEPT ![f.temp].next = reg, ![f.n] = Node("COPIED_", f.temp, @.next)]
      /\ reg' = f.temp
      /\ calls' = SubSeq(calls, 1, m - 1) /\ calls # <<>> /\ f.at = "next" /\ f = calls[m]
      /\ UNCHANGED <<memoryindex, mem_low, mem_mid, direction>> /\ reading' = reading
      /\ root' = root /\ call' = call /\ slots' = slots /\ pc' = "return" /\ pc = "return"
      /\ UNCHANGED program
  BY <1>1 DEF CopyDone, program, Frame
<1>3. /\ slots # <<>> /\ Slots(mem_low, Given, orig, R0, C0, root, call, slots)
      /\ Start(M0, R0, C0, F, K, L, mem_low, reading) /\ Frames(M0, F, Given, orig, calls, first)
      /\ Copies(mem_low, Given, orig, Wanted(M0, calls, first), reg)
      /\ OldCells(M0, memory, F, Given, orig)
      /\ NewCells(M0, memory, mem_low, F, Given, orig, calls)
      /\ orig \in [Addr -> Addr] /\ OtherHalf(F)
      /\ \A a \in 0 .. mem_low - 1 : memory[a] = M0[a]
  BY <1>1, <1>2 DEF Collecting, Progress
<1>4. Above(mem_low, F) /\ mem_low \in Addr /\ Given \cap F = {}
  BY <1>3, ApartHalves DEF Start, Bounded
<1>5. /\ calls \in Seq(CFrame) /\ m \in Nat \ {0} /\ m \in 1 .. Len(calls)
      /\ f.n \in F /\ f.temp \in Given /\ orig[f.temp] = f.n
      /\ Wanted(M0, calls, first) = M0[f.n].next
      /\ f.n = IF m = 1 THEN first ELSE Asked(M0, calls[m - 1])
  <2>1. calls \in Seq(CFrame) /\ m \in Nat \ {0} /\ m \in 1 .. Len(calls)
    BY <1>1, <1>2, <1>3 DEF Frames
  <2> QED
    BY <1>1, <1>2, <1>3, <2>1 DEF Frames, Wanted, Asked
<1>6. PICK n, t : n = f.n /\ t = f.temp
  OBVIOUS
<1>7. /\ t \in Addr /\ t >= mem_low /\ t \notin F /\ memory \in [Addr -> Cell]
      /\ reg \in Ptr /\ n \in Addr /\ n >= mem_low /\ n # t /\ n \in F /\ t \in Given /\ orig[t] = n
  BY <1>4, <1>5, <1>6 DEF Given, TypeOK, Above
<1>8. /\ memory' \in [Addr -> Cell] /\ \A x \in Addr : x # t /\ x # n => memory'[x] = memory[x]
      /\ memory'[t].op = memory[t].op /\ memory'[t].next = reg /\ memory'[t].u = memory[t].u
      /\ memory'[n].op = "COPIED_" /\ memory'[n].u = t /\ memory'[n].next = memory[n].next
  <2>1. /\ memory[t] \in Cell /\ memory[n] \in Cell /\ t \in Int
        /\ memory' = [memory EXCEPT ![t].next = reg, ![n] = Node("COPIED_", t, memory[n].next)]
    <3>1. memory' = [memory EXCEPT ![t].next = reg, ![n] = Node("COPIED_", t, @.next)]
      BY <1>2, <1>6
    <3>2. t \in Int
      BY <1>7, PtrInt
    <3> QED
      BY <1>7, <3>1, <3>2
  <2>2. Node("COPIED_", t, memory[n].next) \in Cell
    BY <2>1 DEF Cell, Node, Ops
  <2>3. /\ memory' \in [Addr -> Cell] /\ \A x \in Addr : x # t /\ x # n => memory'[x] = memory[x]
        /\ memory'[t] = [memory[t] EXCEPT !.next = reg]
        /\ memory'[n] = Node("COPIED_", t, memory[n].next)
    BY <1>7, <2>1, <2>2 DEF Cell
  <2> QED
    BY <2>1, <2>3 DEF Cell, Node
<1>9. /\ c2 \in Seq(CFrame) /\ Len(c2) = m - 1
      /\ \A i \in 1 .. m - 1 : c2[i] = calls[i]
      /\ Temps(calls) \subseteq Temps(c2) \cup {t}
      /\ Open(calls) = Open(c2)
  <2>1. c2 = Shorter(calls) /\ calls # <<>> /\ calls \in Seq(CFrame)
    BY <1>1, <1>2, <1>5 DEF Shorter
  <2>2. /\ c2 \in Seq(CFrame) /\ Len(c2) = Len(calls) - 1 /\ Len(calls) \in Nat \ {0}
        /\ \A i \in 1 .. Len(calls) - 1 : c2[i] = calls[i]
        /\ Temps(calls) \subseteq Temps(c2) \cup {calls[Len(calls)].temp}
        /\ calls[Len(calls)].at = "next" => Open(calls) = Open(c2)
    BY <2>1, Popped, ZenonT(30)
  <2> QED
    BY <1>1, <1>2, <1>6, <2>2, Zenon
<1>10. /\ Given' = Given /\ mem_low' = mem_low /\ OtherHalf(F)' /\ Bounded'
       /\ Start(M0, R0, C0, F, K, L, mem_low, reading)'
  BY <1>2, <1>3 DEF Given, OtherHalf, Bounded
<1>11. OldCells(M0, memory', F, Given, orig)
  <2> SUFFICES ASSUME NEW a \in F
               PROVE  /\ memory'[a].next = M0[a].next
                      /\ \/ memory'[a] = M0[a]
                         \/ memory'[a].op = "COPIED_" /\ memory'[a].u \in Given /\ orig[memory'[a].u] = a
    BY DEF OldCells
  <2>1. /\ memory[a].next = M0[a].next
        /\ \/ memory[a] = M0[a]
           \/ memory[a].op = "COPIED_" /\ memory[a].u \in Given /\ orig[memory[a].u] = a
    BY <1>3 DEF OldCells
  <2>2. a \in Addr /\ a # t
    BY <1>4, <1>7 DEF Above
  <2> QED
    BY <1>7, <1>8, <2>1, <2>2
<1>12. NewCells(M0, memory', mem_low, F, Given, orig, c2)
  <2> SUFFICES ASSUME NEW b \in Given
               PROVE  /\ orig[b] \in F /\ memory'[b].op = M0[orig[b]].op
                      /\ b \notin Temps(c2) =>
                           Copies(mem_low, Given, orig, M0[orig[b]].next, memory'[b].next)
                      /\ memory'[b].op = "LIST_" /\ b \notin Open(c2) =>
                           Copies(mem_low, Given, orig, M0[orig[b]].u, memory'[b].u)
                      /\ memory'[b].op # "LIST_" => memory'[b].u = M0[orig[b]].u
    BY DEF NewCells
  <2>1. /\ orig[b] \in F /\ memory[b].op = M0[orig[b]].op
        /\ b \notin Temps(calls) => Copies(mem_low, Given, orig, M0[orig[b]].next, memory[b].next)
        /\ memory[b].op = "LIST_" /\ b \notin Open(calls) =>
             Copies(mem_low, Given, orig, M0[orig[b]].u, memory[b].u)
        /\ memory[b].op # "LIST_" => memory[b].u = M0[orig[b]].u
    BY <1>3 DEF NewCells
  <2>2. b \in Addr /\ b # n
    BY <1>4, <1>7 DEF Given
  <2>3. CASE b = t
    <3>1. Copies(mem_low, Given, orig, M0[orig[b]].next, memory'[b].next)
      BY <1>3, <1>5, <1>6, <1>7, <1>8, <2>3
    <3> QED
      BY <1>8, <1>9, <2>1, <2>3, <3>1
  <2>4. CASE b # t
    <3>1. memory'[b] = memory[b]
      BY <1>8, <2>2, <2>4
    <3> QED
      BY <1>9, <2>1, <2>4, <3>1
  <2> QED
    BY <2>3, <2>4
<1>13. Frames(M0, F, Given, orig, c2, first)
  <2> SUFFICES ASSUME NEW i \in 1 .. m - 1
               PROVE  /\ c2[i].n \in F /\ c2[i].temp \in Given /\ orig[c2[i].temp] = c2[i].n
                      /\ c2[i].at = "u" => M0[c2[i].n].op = "LIST_"
                      /\ c2[i].n = IF i = 1 THEN first ELSE Asked(M0, c2[i - 1])
    BY <1>9 DEF Frames
  <2>1. i \in 1 .. Len(calls) /\ (i # 1 => i - 1 \in 1 .. m - 1)
    BY <1>1, <1>5
  <2>2. /\ calls[i].n \in F /\ calls[i].temp \in Given /\ orig[calls[i].temp] = calls[i].n
        /\ calls[i].at = "u" => M0[calls[i].n].op = "LIST_"
        /\ calls[i].n = IF i = 1 THEN first ELSE Asked(M0, calls[i - 1])
    BY <1>3, <2>1 DEF Frames
  <2> QED
    BY <1>9, <2>1, <2>2
<1>14. Copies(mem_low, Given, orig, Wanted(M0, c2, first), t)
  <2>1. Wanted(M0, c2, first) = n
    <3>1. CASE m = 1
      BY <1>5, <1>6, <1>9, <3>1 DEF Wanted
    <3>2. CASE m # 1
      <4>1. c2 # <<>> /\ Len(c2) = m - 1 /\ m - 1 \in 1 .. m - 1
        BY <1>5, <1>9, <3>2
      <4> QED
        BY <1>5, <1>6, <1>9, <3>2, <4>1 DEF Wanted
    <3> QED
      BY <3>1, <3>2
  <2>2. n \notin Refs(mem_low, {})
    BY <1>4, <1>7 DEF Refs, Addr
  <2> QED
    BY <1>7, <2>1, <2>2 DEF Copies
<1>15. \A a \in 0 .. mem_low - 1 : memory'[a] = M0[a]
  <2> SUFFICES ASSUME NEW a \in 0 .. mem_low - 1 PROVE memory'[a] = M0[a]
    OBVIOUS
  <2>1. a \in Addr /\ a # t /\ a # n
    BY <1>4, <1>7, Below DEF Addr
  <2> QED
    BY <1>3, <1>8, <2>1
<1>16. TypeOK'
  <2>1. ASSUME NEW a \in Addr \ Open(c2), memory'[a].op \in {"LIST_", "COPIED_"}
        PROVE  memory'[a].u \in Ptr
    <3>1. CASE a = n
      BY <1>7, <1>8, <3>1, PtrInt
    <3>2. CASE a # n
      <4>1. memory'[a].op = memory[a].op /\ memory'[a].u = memory[a].u
        BY <1>8, <3>2
      <4>2. a \notin Open(calls)
        BY <1>9
      <4> QED
        BY <2>1, <4>1, <4>2 DEF TypeOK, Filling, Open
    <3> QED
      BY <3>1, <3>2
  <2>2. Lists(memory', Addr \ Open(calls'))
    BY <1>1, <2>1 DEF Lists
  <2>3. /\ root' \in [Roots -> Ptr] /\ body' \in [Names -> Ptr] /\ current' \in Ptr /\ bucket' \in Ptr
        /\ reading' \in Seq(Phased) /\ defining' \in BOOLEAN /\ pc' \in Stages
        /\ slots' \in Seq(Roots \cup {"u", "r"})
    BY <1>2 DEF TypeOK, program, Phased, Stages
  <2>4. reg' \in Ptr /\ calls' \in Seq(CFrame)
    BY <1>1, <1>2, <1>6, <1>7, <1>9, PtrInt
  <2> QED
    BY <1>8, <1>10, <2>2, <2>3, <2>4, TypesKept
<1>17. Progress(M0, R0, C0, F, orig)'
  BY <1>1, <1>2, <1>3, <1>6, <1>10, <1>11, <1>12, <1>13, <1>14, <1>15 DEF Progress
<1> QED
  BY <1>10, <1>16, <1>17 DEF Collecting

(* When every slot has been copied the heap has moved. *)
LEMMA Ended ==
  ASSUME NEW M0, NEW R0, NEW C0, NEW F, NEW K, NEW L, NEW orig, Bounded,
         Collecting(M0, R0, C0, F, K, L, orig), pc = "roots", slots = <<>>
  PROVE  /\ Moved(M0, memory, R0, root, mem_low, F, Given, orig)
         /\ C0 = NoCall <=> call = NoCall
         /\ C0 # NoCall => MovedCall(mem_low, Given, orig, C0, call)
<1>1. /\ calls = <<>> /\ Slots(mem_low, Given, orig, R0, C0, root, call, slots)
      /\ Start(M0, R0, C0, F, K, L, mem_low, reading)
      /\ NewCells(M0, memory, mem_low, F, Given, orig, calls)
      /\ orig \in [Addr -> Addr] /\ \A a \in 0 .. mem_low - 1 : memory[a] = M0[a]
  BY DEF Collecting, Progress
<1>2. Temps(<<>>) = {} /\ Open(<<>>) = {} /\ In(<<>>) = {}
  BY DEF Temps, Open, In
<1>3. Above(mem_low, Given) /\ Above(mem_low, F) /\ mem_low \in Addr
  BY <1>1, GivenAbove DEF Start, Bounded
<1>4. ASSUME NEW b \in Given PROVE orig[b] \in F /\ Copied(M0, memory, mem_low, Given, orig, b)
  BY <1>1, <1>2 DEF NewCells, Copied
<1>5. \A x \in Roots : Copies(mem_low, Given, orig, R0[x], root[x])
  BY <1>1, <1>2 DEF Slots, RootSlots
<1>6. Moved(M0, memory, R0, root, mem_low, F, Given, orig)
  BY <1>1, <1>3, <1>4, <1>5 DEF Moved
<1>7. CallSlots(mem_low, Given, orig, C0, call, slots) /\ In(slots) = {}
  BY <1>1, <1>2 DEF Slots
<1>8. C0 # NoCall => MovedCall(mem_low, Given, orig, C0, call) /\ call.op = C0.op
  BY <1>7 DEF CallSlots, MovedCall
<1>9. C0 # NoCall => C0.op # "ILLEGAL_"
  BY <1>1 DEF Start, Args
<1>10. C0 = NoCall <=> call = NoCall
  BY <1>7, <1>8, <1>9 DEF CallSlots, NoCall
<1> QED
  BY <1>6, <1>8, <1>10

LEMMA Finished ==
  ASSUME NEW M0, NEW R0, NEW C0, NEW F, NEW K, NEW L, NEW orig, Bounded,
         Collecting(M0, R0, C0, F, K, L, orig), pc = "roots", slots = <<>>
  PROVE  /\ Shape(memory, root, Across(K, orig), Across(L, orig), mem_low, Given, reading)
         /\ Ordered(memory, root, Across(K, orig), Across(L, orig), mem_low, Given, reading)
         /\ call # NoCall =>
              /\ Args(memory, root, Across(K, orig), Across(L, orig), mem_low, Given, reading, call)
              /\ Clear(Across(K, orig), Across(L, orig), mem_low, Given, reading, call)
<1>1. /\ Moved(M0, memory, R0, root, mem_low, F, Given, orig)
      /\ call # NoCall => C0 # NoCall /\ MovedCall(mem_low, Given, orig, C0, call)
  BY Ended
<1>2. Start(M0, R0, C0, F, K, L, mem_low, reading) /\ mem_low \in Addr
  BY DEF Collecting, Bounded
<1>3. /\ Shape(M0, R0, K, L, mem_low, F, reading) /\ Ordered(M0, R0, K, L, mem_low, F, reading)
      /\ Above(mem_low, F) /\ Above(mem_low, Given)
      /\ C0 # NoCall => /\ Args(M0, R0, K, L, mem_low, F, reading, C0)
                        /\ Clear(K, L, mem_low, F, reading, C0)
  BY <1>2, GivenAbove DEF Start
<1>4. ASSUME call # NoCall
      PROVE  Args(memory, root, Across(K, orig), Across(L, orig), mem_low, Given, reading, call)
  BY <1>1, <1>2, <1>3, <1>4, MovedArgs
<1>5. ASSUME call # NoCall
      PROVE  Clear(Across(K, orig), Across(L, orig), mem_low, Given, reading, call)
  BY <1>1, <1>2, <1>3, <1>5, MovedClear
<1>6. Ordered(memory, root, Across(K, orig), Across(L, orig), mem_low, Given, reading)
  BY <1>1, <1>2, <1>3, MovedOrdered
<1> QED
  BY <1>1, <1>2, <1>3, <1>4, <1>5, <1>6, MovedShape

(* The slots a collection starts with. *)
LEMMA SlotsStart ==
  ASSUME NEW args, args \in {<<>>, <<"r">>, <<"u", "r">>}, NEW sl, sl = CopyOrder \o args
  PROVE  /\ sl \in Seq(Roots \cup {"u", "r"}) /\ Distinct(sl)
         /\ In(sl) = Roots \cup In(args)
         /\ "u" \in In(args) <=> args = <<"u", "r">>
         /\ "r" \in In(args) <=> args # <<>>
         /\ In(args) \subseteq {"u", "r"}
<1> DEFINE co == CopyOrder
<1>1. /\ co \in Seq(Roots) /\ Len(co) = 9
      /\ co[1] = "stk" /\ co[2] = "prog" /\ co[3] = "conts" /\ co[4] = "dump" /\ co[5] = "dump1"
      /\ co[6] = "dump2" /\ co[7] = "dump3" /\ co[8] = "dump4" /\ co[9] = "dump5"
  BY DEF CopyOrder, Roots
<1> HIDE DEF co
<1>2. \A i \in 1 .. 9 : i = 1 \/ i = 2 \/ i = 3 \/ i = 4 \/ i = 5 \/ i = 6 \/ i = 7 \/ i = 8 \/ i = 9
  OBVIOUS
<1>3. \A i \in 1 .. 9, j \in 1 .. 9 : co[i] = co[j] => i = j
  BY <1>1, <1>2
<1>4. \A x \in Roots : \E i \in 1 .. 9 : co[i] = x
  BY <1>1 DEF Roots
<1>5. \A i \in 1 .. 9 : co[i] \in Roots
  BY <1>1, <1>2 DEF Roots
<1>6. /\ args \in Seq({"u", "r"}) /\ Len(args) \in Nat
      /\ \A i, j \in 1 .. Len(args) : args[i] = args[j] => i = j
      /\ \A i \in 1 .. Len(args) : args[i] \in {"u", "r"}
      /\ In(args) \subseteq {"u", "r"}
      /\ "u" \in In(args) <=> args = <<"u", "r">>
      /\ "r" \in In(args) <=> args # <<>>
  <2>1. CASE args = <<>>
    BY <2>1 DEF In
  <2>2. CASE args = <<"r">>
    BY <2>2 DEF In
  <2>3. CASE args = <<"u", "r">>
    <3>1. Len(args) = 2 /\ args[1] = "u" /\ args[2] = "r" /\ DOMAIN args = 1 .. 2 /\ args \in Seq({"u", "r"})
      BY <2>3
    <3>2. \A i \in 1 .. 2 : i = 1 \/ i = 2
      OBVIOUS
    <3>3. In(args) = {"u", "r"}
      BY <3>1, <3>2 DEF In
    <3> QED
      BY <2>3, <3>1, <3>2, <3>3
  <2> QED
    BY <2>1, <2>2, <2>3
<1>7. /\ sl \in Seq(Roots \cup {"u", "r"}) /\ Len(sl) = 9 + Len(args) /\ DOMAIN sl = 1 .. 9 + Len(args)
      /\ \A i \in 1 .. 9 : sl[i] = co[i]
      /\ \A i \in 10 .. 9 + Len(args) : sl[i] = args[i - 9]
  <2>1. sl = co \o args
    BY DEF co
  <2>2. co \in Seq(Roots \cup {"u", "r"}) /\ args \in Seq(Roots \cup {"u", "r"})
    BY <1>1, <1>6
  <2>3. /\ sl \in Seq(Roots \cup {"u", "r"}) /\ Len(sl) = Len(co) + Len(args)
        /\ \A i \in 1 .. Len(co) + Len(args) : sl[i] = IF i <= Len(co) THEN co[i] ELSE args[i - Len(co)]
    BY <2>1, <2>2, ConcatProperties
  <2>4. Len(sl) = 9 + Len(args) /\ DOMAIN sl = 1 .. 9 + Len(args)
    BY <1>1, <2>3
  <2>5. \A i \in 1 .. 9 : i \in 1 .. 9 + Len(args) /\ i <= 9
    BY <1>6
  <2>6. \A i \in 10 .. 9 + Len(args) : i \in 1 .. 9 + Len(args) /\ ~(i <= 9)
    BY <1>6
  <2> QED
    BY <1>1, <2>3, <2>4, <2>5, <2>6
<1>8. \A i \in 1 .. 9 + Len(args) : i \in 1 .. 9 \/ (i \in 10 .. 9 + Len(args) /\ i - 9 \in 1 .. Len(args))
  BY <1>6
<1>9. Distinct(sl)
  <2> SUFFICES ASSUME NEW i \in 1 .. 9 + Len(args), NEW j \in 1 .. 9 + Len(args), sl[i] = sl[j]
               PROVE  i = j
    BY <1>7 DEF Distinct
  <2>1. CASE i \in 1 .. 9 /\ j \in 1 .. 9
    BY <1>3, <1>7, <2>1
  <2>2. CASE i \in 10 .. 9 + Len(args) /\ j \in 10 .. 9 + Len(args)
    <3>1. i - 9 \in 1 .. Len(args) /\ j - 9 \in 1 .. Len(args) /\ args[i - 9] = args[j - 9]
      BY <1>6, <1>7, <2>2
    <3>2. i - 9 = j - 9
      BY <1>6, <3>1
    <3> QED
      BY <3>2
  <2>3. \A k \in 1 .. 9 : sl[k] \notin {"u", "r"}
    BY <1>5, <1>7 DEF Roots
  <2>4. \A k \in 10 .. 9 + Len(args) : sl[k] \in {"u", "r"}
    <3>1. \A k \in 10 .. 9 + Len(args) : k - 9 \in 1 .. Len(args)
      BY <1>6
    <3> QED
      BY <1>6, <1>7, <3>1
  <2> QED
    BY <1>8, <2>1, <2>2, <2>3, <2>4
<1>10. In(sl) \subseteq Roots \cup In(args)
  <2> SUFFICES ASSUME NEW i \in 1 .. 9 + Len(args) PROVE sl[i] \in Roots \cup In(args)
    BY <1>7 DEF In
  <2>1. CASE i \in 1 .. 9
    BY <1>5, <1>7, <2>1
  <2>2. CASE i \in 10 .. 9 + Len(args) /\ i - 9 \in 1 .. Len(args)
    BY <1>6, <1>7, <2>2 DEF In
  <2> QED
    BY <1>8, <2>1, <2>2
<1>11. Roots \subseteq In(sl)
  <2> SUFFICES ASSUME NEW x \in Roots PROVE x \in In(sl)
    OBVIOUS
  <2>1. PICK i \in 1 .. 9 : co[i] = x
    BY <1>4
  <2>2. i \in DOMAIN sl
    BY <1>6, <1>7, <2>1
  <2> QED
    BY <1>7, <2>1, <2>2 DEF In
<1>12. In(args) \subseteq In(sl)
  <2> SUFFICES ASSUME NEW k \in 1 .. Len(args) PROVE args[k] \in In(sl)
    <3>1. DOMAIN args = 1 .. Len(args)
      BY <1>6
    <3> QED
      BY <3>1 DEF In
  <2>1. k + 9 \in 10 .. 9 + Len(args) /\ (k + 9) - 9 = k /\ k + 9 \in DOMAIN sl
    BY <1>6, <1>7
  <2>2. sl[k + 9] = args[k]
    BY <1>7, <2>1
  <2> QED
    BY <2>1, <2>2 DEF In
<1> QED
  BY <1>6, <1>7, <1>9, <1>10, <1>11, <1>12

(* A collection starts: of gc_, or of newnode with the call c. *)
Own(op) == IF op = "LIST_" THEN <<"u", "r">> ELSE <<"r">>
LEMMA Started ==
  ASSUME NEW M0, NEW R0, NEW C0, NEW F, NEW K, NEW L, NEW args, Safe, Bounded,
         M0 \in [Addr -> Cell], R0 \in [Roots -> Ptr], F = Given, R0 = root,
         Shape(M0, R0, K, L, mem_low, F, reading), Ordered(M0, R0, K, L, mem_low, F, reading),
         \/ C0 = NoCall /\ args = <<>>
         \/ /\ C0 # NoCall /\ Form(C0) /\ args = Own(C0.op)
            /\ Args(M0, R0, K, L, mem_low, F, reading, C0) /\ Clear(K, L, mem_low, F, reading, C0),
         calls = <<>>, Gc1(C0, args), memory' = M0, UNCHANGED <<root, reading>>
  PROVE  \E orig : Collecting(M0, R0, C0, F, K, L, orig)' /\ Bounded'
<1>1. PICK orig : orig = [a \in Addr |-> a]
  OBVIOUS
<1>2. /\ direction' = -direction /\ memoryindex' = (IF direction = -1 THEN mem_low ELSE MEM_HIGH)
      /\ pc' = "roots" /\ call' = C0 /\ slots' = CopyOrder \o args
      /\ mem_low' = mem_low /\ mem_mid' = mem_mid /\ calls' = <<>>
      /\ Allocated(root["prog"]) /\ root' = root /\ reading' = reading
  BY DEF Gc1, Safe
<1>3. Bounded' /\ Given' = {} /\ OtherHalf(F)'
  BY <1>2, Flip
<1>4. R0["prog"] \in Refs(mem_low, F) /\ Above(mem_low, F)
  BY <1>2, AllocatedRefs, GivenAbove DEF Roots
<1>5. Start(M0, R0, C0, F, K, L, mem_low, reading)'
  BY <1>2, <1>4 DEF Start
<1>6. args \in {<<>>, <<"r">>, <<"u", "r">>}
  BY DEF Own
<1>7. PICK sl : sl = slots'
  OBVIOUS
<1>8. /\ sl \in Seq(Roots \cup {"u", "r"}) /\ Distinct(sl)
      /\ In(sl) = Roots \cup In(args)
      /\ "u" \in In(args) <=> args = <<"u", "r">>
      /\ "r" \in In(args) <=> args # <<>>
      /\ In(args) \subseteq {"u", "r"}
  BY <1>2, <1>6, <1>7, SlotsStart
<1>9. RootSlots(mem_low, {}, orig, R0, R0, sl)
  BY <1>8 DEF RootSlots
<1>10. CallSlots(mem_low, {}, orig, C0, C0, sl)
  <2>1. CASE C0 = NoCall
    <3>1. args = <<>>
      BY <2>1
    <3>2. In(args) = {}
      BY <1>8, <3>1
    <3> QED
      BY <1>8, <2>1, <3>2 DEF CallSlots
  <2>2. CASE C0 # NoCall
    <3>1. Form(C0) /\ args = Own(C0.op)
      BY <2>2
    <3>2. "r" \in In(sl) /\ ("u" \in In(sl) <=> C0.op = "LIST_")
      BY <1>8, <3>1 DEF Own, Roots
    <3> QED
      BY <2>2, <3>1, <3>2 DEF CallSlots
  <2> QED
    BY <2>1, <2>2
<1>11. Slots(mem_low, {}, orig, R0, C0, R0, C0, sl)
  BY <1>8, <1>9, <1>10 DEF Slots
<1>12. /\ OldCells(M0, M0, F, {}, orig) /\ NewCells(M0, M0, mem_low, F, {}, orig, <<>>)
       /\ orig \in [Addr -> Addr]
  BY <1>1 DEF OldCells, NewCells
<1>13. Progress(M0, R0, C0, F, orig)'
  BY <1>2, <1>3, <1>7, <1>11, <1>12 DEF Progress
<1> QED
  BY <1>3, <1>5, <1>13 DEF Collecting
=============================================================================
