--------------------------- MODULE JoyEvalProofs ---------------------------
(***************************************************************************)
(* Proofs about JoyEval: the stacks of the interpreter are balanced.       *)
(*                                                                         *)
(* The C calls are taken off one by one, the innermost first.  What an     *)
(* active call keeps on dump1 .. dump5 is told by its procedure, the point *)
(* it has reached and its locals; under it lies what its caller keeps.     *)
(* Under(f, d) is what is left of the dumps d when the call f has taken    *)
(* its own off, and the dumps are empty when every call has.  construct    *)
(* alone does not merely push: it puts the whole dump2 away on dump1.      *)
(***************************************************************************)
EXTENDS JoyEval, FiniteSetTheorems, SequenceTheorems, TLAPS

IsSeq(s) == \E F : s \in Seq(F)

(* The number of calls in s that run a list, and that have saved a stack.  *)
Execs(s)   == Cardinality({i \in DOMAIN s : Executes(s[i])})
Holders(s) == Cardinality({i \in DOMAIN s : Saves(s[i])})
One(b)     == IF b THEN 1 ELSE 0

Cleared     == [k \in 1 .. 5 |-> <<>>]
AllSeqs(d)  == /\ d = [k \in 1 .. 5 |-> d[k]]
               /\ \A k \in 1 .. 5 : IsSeq(d[k])
Locals(loc) == {"n", "over"} \subseteq DOMAIN loc
IsFrame(f)  == {"proc", "pc", "loc"} \subseteq DOMAIN f /\ Locals(f.loc)

(* unary2 .. unary4 between two of their rounds *)
Counts(f) == f.proc \in DOMAIN UnaryN /\ f.pc = 1
(* construct once it has put dump2 away *)
Swaps(f)  == f.proc = "construct" /\ f.pc \in 1 .. 3
(* The dumps on which the call f keeps one item. *)
Cells(f) ==
  {k \in 1 .. 5 :
     \/ f.proc \in Loops /\ f.pc \in 1 .. 2 /\ f.loc.over = "LIST_" /\ k \in OwnDumps(f.proc)
     \/ k = 1 /\ \/ f.proc \in {"cleave", "tailrec"} /\ f.pc = 2
                 \/ f.proc \in {"linrecaux", "binrecaux"} /\ f.pc = 1
                 \/ f.proc = "cond" /\ f.pc \in 1 .. 3
                 \/ f.proc = "treestepaux" /\ f.pc \in {1, 3}
     \/ k = 2 /\ f.proc = "binrecaux" /\ f.pc = 3
     \/ k \in {1, 2} /\ f.proc = "condlinrecaux" /\ f.pc \in 1 .. 5
     \/ k \in {1, 2} /\ f.proc = "condnestrecaux" /\ f.pc \in 1 .. 4
     \/ k = 3 /\ f.proc = "condnestrecaux" /\ f.pc \in 3 .. 4
     \/ k = 1 /\ Swaps(f)
     \/ k \in {3, 4} /\ f.proc = "construct" /\ f.pc \in 2 .. 3}

Full(f, d) ==
  /\ \A k \in Cells(f) : d[k] # <<>>
  /\ Counts(f) => f.loc.n \in 1 .. UnaryN[f.proc] /\ Len(d[1]) >= f.loc.n - 1

Under(f, d) ==
  [k \in 1 .. 5 |->
     IF k = 1 /\ Counts(f) THEN SubSeq(d[1], f.loc.n, Len(d[1]))
     ELSE IF k = 2 /\ Swaps(f) THEN Head(d[1]).u
     ELSE IF k \in Cells(f) THEN Tail(d[k]) ELSE d[k]]

(* D tells the dumps as each call in s, the innermost first, found them. *)
Unwinds(D, s, d) ==
  /\ D[1] = d /\ D[Len(s) + 1] = Cleared
  /\ \A i \in 1 .. Len(s) + 1 : AllSeqs(D[i])
  /\ \A i \in 1 .. Len(s) : /\ IsFrame(s[i]) /\ Full(s[i], D[i])
                            /\ D[i + 1] = Under(s[i], D[i])
Stacked(s, d) == IsSeq(s) /\ \E D : Unwinds(D, s, d)

(* The inductive invariant. *)
Balance ==
  /\ IsSeq(conts) /\ IsSeq(dump)
  /\ Len(conts) = Execs(frames)
  /\ Len(dump) = Holders(frames)
  /\ Stacked(frames, dumps)
  /\ status = "idle" => frames = <<>>

-----------------------------------------------------------------------------
(* Sequences whose items have no common type. *)
LEMMA PushSeq ==
  ASSUME NEW s, IsSeq(s), NEW v
  PROVE  /\ IsSeq(<<v>> \o s) /\ <<v>> \o s # <<>>
         /\ Len(<<v>> \o s) = Len(s) + 1 /\ Len(s) \in Nat
         /\ Head(<<v>> \o s) = v /\ Tail(<<v>> \o s) = s
         /\ (<<v>> \o s)[1] = v
         /\ \A i \in 1 .. Len(s) : (<<v>> \o s)[i + 1] = s[i]
<1>1. PICK F : s \in Seq(F)
  BY DEF IsSeq
<1>2. s \in Seq(F \cup {v}) /\ <<v>> \in Seq(F \cup {v})
  BY <1>1
<1>3. <<v>> \o s \in Seq(F \cup {v})
  BY <1>2
<1> QED
  BY <1>2, <1>3 DEF IsSeq

LEMMA TailSeq ==
  ASSUME NEW s, IsSeq(s), s # <<>>
  PROVE  /\ IsSeq(Tail(s)) /\ Len(Tail(s)) = Len(s) - 1 /\ Len(s) \in Nat \ {0}
         /\ s = <<Head(s)>> \o Tail(s) /\ Head(s) = s[1]
         /\ \A i \in 1 .. Len(Tail(s)) : Tail(s)[i] = s[i + 1]
<1>1. PICK F : s \in Seq(F)
  BY DEF IsSeq
<1>2. Tail(s) \in Seq(F) /\ Len(Tail(s)) = Len(s) - 1 /\ Len(s) \in Nat \ {0}
  BY <1>1
<1>3. Head(s) = s[1] /\ Head(s) \in F
  BY <1>1, <1>2
<1>4. \A i \in 1 .. Len(Tail(s)) : Tail(s)[i] = s[i + 1]
  BY <1>1, <1>2
<1>5. s = <<Head(s)>> \o Tail(s)
  <2> DEFINE t == <<Head(s)>> \o Tail(s)
  <2>1. t \in Seq(F) /\ Len(t) = Len(s)
    BY <1>2, <1>3
  <2>2. \A i \in 1 .. Len(s) : t[i] = s[i]
    BY <1>1, <1>2, <1>3
  <2> QED
    BY <1>1, <2>1, <2>2, SeqEqual
<1> QED
  BY <1>2, <1>3, <1>4, <1>5 DEF IsSeq

LEMMA NoItems == IsSeq(<<>>) /\ Len(<<>>) = 0
BY <<>> \in Seq({}) DEF IsSeq

LEMMA LengthZero ==
  ASSUME NEW s, IsSeq(s)
  PROVE  Len(s) \in Nat /\ (s = <<>> <=> Len(s) = 0) /\ DOMAIN s = 1 .. Len(s)
<1>1. PICK F : s \in Seq(F)
  BY DEF IsSeq
<1> QED
  BY <1>1

(* Counting the marked places of a sequence that has grown at its head. *)
LEMMA Shifted ==
  ASSUME NEW n \in Nat, NEW A \in SUBSET (1 .. n), NEW B \in SUBSET (1 .. n + 1),
         \A i \in 1 .. n : i \in A <=> i + 1 \in B
  PROVE  /\ Cardinality(A) \in Nat
         /\ Cardinality(B) = Cardinality(A) + One(1 \in B)
<1> DEFINE C == B \ {1}
           f == [i \in A |-> i + 1]
<1>1. IsFiniteSet(1 .. n) /\ IsFiniteSet(1 .. n + 1)
  BY FS_Interval
<1>2. IsFiniteSet(A) /\ IsFiniteSet(B)
  BY <1>1, FS_Subset
<1>3. Cardinality(A) \in Nat /\ Cardinality(B) \in Nat
  BY <1>2, FS_CardinalityType
<1>4. f \in Bijection(A, C)
  <2>1. f \in [A -> C]
    OBVIOUS
  <2>2. \A a, b \in A : f[a] = f[b] => a = b
    OBVIOUS
  <2>3. \A c \in C : \E a \in A : f[a] = c
    <3>1. TAKE c \in C
    <3>2. c - 1 \in 1 .. n /\ (c - 1) + 1 = c
      OBVIOUS
    <3>3. c - 1 \in A
      BY <3>2
    <3> QED
      BY <3>2, <3>3
  <2> QED
    BY <2>1, <2>2, <2>3 DEF Bijection, Injection, Surjection, IsInjective
<1>5. Cardinality(C) = Cardinality(A)
  BY <1>2, <1>4, FS_Bijection DEF ExistsBijection
<1>6. Cardinality(C) = IF 1 \in B THEN Cardinality(B) - 1 ELSE Cardinality(B)
  BY <1>2, FS_RemoveElement
<1> QED
  BY <1>3, <1>5, <1>6 DEF One

(* One call more. *)
LEMMA CountsPush ==
  ASSUME NEW s, IsSeq(s), NEW f
  PROVE  /\ Execs(s) \in Nat /\ Execs(<<f>> \o s) = Execs(s) + One(Executes(f))
         /\ Holders(s) \in Nat /\ Holders(<<f>> \o s) = Holders(s) + One(Saves(f))
<1> DEFINE t == <<f>> \o s
<1>1. /\ Len(s) \in Nat /\ DOMAIN s = 1 .. Len(s) /\ DOMAIN t = 1 .. Len(s) + 1
      /\ t[1] = f /\ \A i \in 1 .. Len(s) : t[i + 1] = s[i]
  BY PushSeq, LengthZero
<1> HIDE DEF t
<1>2. Execs(s) \in Nat /\ Execs(t) = Execs(s) + One(Executes(f))
  <2> DEFINE A == {i \in DOMAIN s : Executes(s[i])}
             B == {i \in DOMAIN t : Executes(t[i])}
  <2>1. /\ A \in SUBSET (1 .. Len(s)) /\ B \in SUBSET (1 .. Len(s) + 1)
        /\ \A i \in 1 .. Len(s) : i \in A <=> i + 1 \in B
    BY <1>1
  <2>2. 1 \in B <=> Executes(f)
    BY <1>1
  <2> HIDE DEF A, B
  <2>3. Cardinality(A) \in Nat /\ Cardinality(B) = Cardinality(A) + One(1 \in B)
    BY <1>1, <2>1, Shifted
  <2> QED
    BY <2>2, <2>3 DEF A, B, Execs, One
<1>3. Holders(s) \in Nat /\ Holders(t) = Holders(s) + One(Saves(f))
  <2> DEFINE A == {i \in DOMAIN s : Saves(s[i])}
             B == {i \in DOMAIN t : Saves(t[i])}
  <2>1. /\ A \in SUBSET (1 .. Len(s)) /\ B \in SUBSET (1 .. Len(s) + 1)
        /\ \A i \in 1 .. Len(s) : i \in A <=> i + 1 \in B
    BY <1>1
  <2>2. 1 \in B <=> Saves(f)
    BY <1>1
  <2> HIDE DEF A, B
  <2>3. Cardinality(A) \in Nat /\ Cardinality(B) = Cardinality(A) + One(1 \in B)
    BY <1>1, <2>1, Shifted
  <2> QED
    BY <2>2, <2>3 DEF A, B, Holders, One
<1> QED
  BY <1>2, <1>3 DEF t

-----------------------------------------------------------------------------
(***************************************************************************)
(* Taking the innermost call off, and putting one on.                      *)
(***************************************************************************)
LEMMA Leave ==
  ASSUME NEW s, NEW d, Stacked(s, d), s # <<>>
  PROVE  /\ IsFrame(Head(s)) /\ Full(Head(s), d) /\ AllSeqs(d)
         /\ Stacked(Tail(s), Under(Head(s), d))
<1>1. PICK D : Unwinds(D, s, d)
  BY DEF Stacked
<1>2. /\ IsSeq(s) /\ IsSeq(Tail(s)) /\ Len(s) \in Nat \ {0} /\ Len(Tail(s)) = Len(s) - 1
      /\ Head(s) = s[1] /\ \A i \in 1 .. Len(Tail(s)) : Tail(s)[i] = s[i + 1]
  BY TailSeq DEF Stacked
<1> DEFINE E == [i \in 1 .. Len(s) |-> D[i + 1]]
<1>3. IsFrame(s[1]) /\ Full(s[1], D[1]) /\ D[2] = Under(s[1], D[1]) /\ AllSeqs(D[1])
  BY <1>1, <1>2 DEF Unwinds
<1>4. Unwinds(E, Tail(s), Under(Head(s), d))
  <2>1. E[1] = Under(Head(s), d) /\ E[Len(Tail(s)) + 1] = Cleared
    BY <1>1, <1>2, <1>3 DEF Unwinds
  <2>2. \A i \in 1 .. Len(Tail(s)) + 1 : AllSeqs(E[i])
    BY <1>1, <1>2 DEF Unwinds
  <2>3. ASSUME NEW i \in 1 .. Len(Tail(s))
        PROVE  /\ IsFrame(Tail(s)[i]) /\ Full(Tail(s)[i], E[i])
               /\ E[i + 1] = Under(Tail(s)[i], E[i])
    <3>1. i + 1 \in 1 .. Len(s) /\ i \in 1 .. Len(s) /\ Tail(s)[i] = s[i + 1]
      BY <1>2
    <3>2. /\ IsFrame(s[i + 1]) /\ Full(s[i + 1], D[i + 1])
          /\ D[(i + 1) + 1] = Under(s[i + 1], D[i + 1])
      BY <1>1, <3>1 DEF Unwinds
    <3> QED
      BY <3>1, <3>2
  <2> HIDE DEF E
  <2> QED
    BY <2>1, <2>2, <2>3 DEF Unwinds
<1> QED
  BY <1>1, <1>2, <1>3, <1>4 DEF Stacked, Unwinds

LEMMA Enter ==
  ASSUME NEW s, NEW d, NEW f, IsFrame(f), Full(f, d), AllSeqs(d), Stacked(s, Under(f, d))
  PROVE  Stacked(<<f>> \o s, d)
<1> DEFINE t == <<f>> \o s
<1>1. PICK D : Unwinds(D, s, Under(f, d))
  BY DEF Stacked
<1>2. /\ IsSeq(t) /\ Len(s) \in Nat /\ Len(t) = Len(s) + 1
      /\ t[1] = f /\ \A i \in 1 .. Len(s) : t[i + 1] = s[i]
  BY PushSeq DEF Stacked
<1> HIDE DEF t
<1> DEFINE E == [i \in 1 .. Len(t) + 1 |-> IF i = 1 THEN d ELSE D[i - 1]]
<1>3. Unwinds(E, t, d)
  <2>1. E[1] = d /\ E[Len(t) + 1] = Cleared
    BY <1>1, <1>2 DEF Unwinds
  <2>2. \A i \in 1 .. Len(t) + 1 : AllSeqs(E[i])
    <3>1. TAKE i \in 1 .. Len(t) + 1
    <3>2. CASE i = 1
      BY <3>2
    <3>3. CASE i # 1
      <4>1. i - 1 \in 1 .. Len(s) + 1
        BY <1>2, <3>3
      <4> QED
        BY <1>1, <4>1, <3>3 DEF Unwinds
    <3> QED
      BY <3>2, <3>3
  <2>3. ASSUME NEW i \in 1 .. Len(t)
        PROVE  IsFrame(t[i]) /\ Full(t[i], E[i]) /\ E[i + 1] = Under(t[i], E[i])
    <3>1. CASE i = 1
      <4>1. E[2] = Under(f, d)
        BY <1>1, <1>2 DEF Unwinds
      <4> QED
        BY <3>1, <4>1, <1>2
    <3>2. CASE i # 1
      <4>1. i - 1 \in 1 .. Len(s) /\ (i - 1) + 1 = i
        BY <1>2, <3>2
      <4>2. t[i] = s[i - 1]
        BY <1>2, <4>1
      <4>3. E[i] = D[i - 1] /\ E[i + 1] = D[i]
        BY <1>2, <3>2
      <4>4. /\ IsFrame(s[i - 1]) /\ Full(s[i - 1], D[i - 1])
            /\ D[(i - 1) + 1] = Under(s[i - 1], D[i - 1])
        BY <1>1, <4>1 DEF Unwinds
      <4> HIDE DEF E
      <4> QED
        BY <4>1, <4>2, <4>3, <4>4
    <3> QED
      BY <3>1, <3>2
  <2> HIDE DEF E
  <2> QED
    BY <2>1, <2>2, <2>3 DEF Unwinds
<1> QED
  BY <1>2, <1>3 DEF Stacked, t

(* No call is left: nothing is left on any stack. *)
LEMMA Emptied ==
  ASSUME NEW d
  PROVE  /\ Stacked(<<>>, d) <=> d = Cleared
         /\ Execs(<<>>) = 0 /\ Holders(<<>>) = 0
<1>1. Stacked(<<>>, d) => d = Cleared
  BY NoItems DEF Stacked, Unwinds
<1>2. AllSeqs(Cleared)
  BY NoItems DEF AllSeqs, Cleared
<1>3. Stacked(<<>>, Cleared)
  <2>1. Unwinds([i \in 1 .. 1 |-> Cleared], <<>>, Cleared)
    BY <1>2, NoItems DEF Unwinds
  <2> QED
    BY <2>1, NoItems DEF Stacked
<1>4. {i \in DOMAIN <<>> : Executes(<<>>[i])} = {} /\ {i \in DOMAIN <<>> : Saves(<<>>[i])} = {}
  OBVIOUS
<1> QED
  BY <1>1, <1>3, <1>4, FS_EmptySet DEF Execs, Holders

-----------------------------------------------------------------------------
(***************************************************************************)
(* The ways a step may continue: the innermost call goes on at another     *)
(* point, executes a list, calls a procedure, or returns.  What remains to *)
(* be shown of each stretch of C code is Keeps, that it leaves the dumps   *)
(* of its callers alone, and Tally, that it saves or drops as it should.   *)
(***************************************************************************)
Keeps(g) == /\ Full(g, dumps') /\ AllSeqs(dumps')
            /\ Under(g, dumps') = Under(Top, dumps)
Tally(g) == \/ (Saves(g) <=> Saves(Top)) /\ dump' = dump
            \/ Saves(g) /\ ~Saves(Top) /\ Save
            \/ ~Saves(g) /\ Saves(Top) /\ Drop
Fresh(f) == /\ IsFrame(f) /\ ~Saves(f)
            /\ \A d : AllSeqs(d) => Full(f, d) /\ Under(f, d) = d
Occupied == Balance /\ frames # <<>> /\ status = "running"

LEMMA TopFacts ==
  ASSUME Occupied
  PROVE  /\ IsFrame(Top) /\ Full(Top, dumps) /\ AllSeqs(dumps)
         /\ Stacked(Tail(frames), Under(Top, dumps))
         /\ IsSeq(frames) /\ IsSeq(Tail(frames)) /\ frames = <<Top>> \o Tail(frames)
         /\ Execs(frames) = Execs(Tail(frames)) + One(Executes(Top))
         /\ Holders(frames) = Holders(Tail(frames)) + One(Saves(Top))
         /\ Execs(Tail(frames)) \in Nat /\ Holders(Tail(frames)) \in Nat
         /\ IsSeq(conts) /\ IsSeq(dump)
         /\ Saves(Top) => dump # <<>>
         /\ Executes(Top) => conts # <<>>
<1>1. IsSeq(frames) /\ Stacked(frames, dumps) /\ frames # <<>>
  BY DEF Occupied, Balance, Stacked
<1>2. IsSeq(Tail(frames)) /\ frames = <<Top>> \o Tail(frames)
  BY <1>1, TailSeq DEF Top
<1>3. /\ Execs(frames) = Execs(Tail(frames)) + One(Executes(Top))
      /\ Holders(frames) = Holders(Tail(frames)) + One(Saves(Top))
      /\ Execs(Tail(frames)) \in Nat /\ Holders(Tail(frames)) \in Nat
  BY <1>2, CountsPush
<1>4. IsSeq(conts) /\ IsSeq(dump) /\ Len(conts) = Execs(frames) /\ Len(dump) = Holders(frames)
  BY DEF Occupied, Balance
<1>5. (Saves(Top) => dump # <<>>) /\ (Executes(Top) => conts # <<>>)
  BY <1>3, <1>4, NoItems DEF One
<1> QED
  BY <1>1, <1>2, <1>3, <1>4, <1>5, Leave DEF Top

LEMMA Turned ==
  ASSUME Occupied, NEW g, IsFrame(g), Executes(g) <=> Executes(Top), Keeps(g), Tally(g)
  PROVE  LET fr == <<g>> \o Tail(frames)
         IN  /\ Stacked(fr, dumps') /\ Execs(fr) = Execs(frames) /\ Execs(fr) \in Nat
             /\ IsSeq(dump') /\ Len(dump') = Holders(fr)
<1> DEFINE rest == Tail(frames)
           fr   == <<g>> \o rest
<1>1. /\ Stacked(rest, Under(Top, dumps)) /\ IsSeq(rest)
      /\ Execs(frames) = Execs(rest) + One(Executes(Top)) /\ Execs(rest) \in Nat
      /\ Holders(frames) = Holders(rest) + One(Saves(Top)) /\ Holders(rest) \in Nat
      /\ IsSeq(dump)
      /\ Saves(Top) => dump # <<>>
  BY TopFacts
<1> HIDE DEF rest
<1>2. Stacked(fr, dumps')
  BY <1>1, Enter DEF Keeps
<1>3. Execs(fr) = Execs(rest) + One(Executes(g)) /\ Holders(fr) = Holders(rest) + One(Saves(g))
  BY <1>1, CountsPush
<1>4. Len(dump) = Holders(frames) /\ Len(dump) \in Nat
  BY <1>1, LengthZero DEF Occupied, Balance
<1>5. IsSeq(dump') /\ Len(dump') = Holders(fr)
  <2>1. CASE (Saves(g) <=> Saves(Top)) /\ dump' = dump
    BY <2>1, <1>1, <1>3, <1>4 DEF One
  <2>2. CASE Saves(g) /\ ~Saves(Top) /\ Save
    <3>1. dump' = <<stk>> \o dump
      BY <2>2 DEF Save
    <3>2. IsSeq(dump') /\ Len(dump') = Len(dump) + 1
      BY <3>1, <1>1, PushSeq
    <3> QED
      BY <3>2, <2>2, <1>1, <1>3, <1>4 DEF One
  <2>3. CASE ~Saves(g) /\ Saves(Top) /\ Drop
    <3>1. IsSeq(dump') /\ Len(dump') = Len(dump) - 1
      BY <2>3, <1>1, TailSeq DEF Drop
    <3> QED
      BY <3>1, <2>3, <1>1, <1>3, <1>4 DEF One
  <2> QED
    BY <2>1, <2>2, <2>3 DEF Tally
<1>6. Execs(fr) = Execs(frames) /\ Execs(fr) \in Nat
  BY <1>1, <1>3 DEF One
<1> QED
  BY <1>2, <1>5, <1>6 DEF rest

LEMMA FrameIs ==
  ASSUME NEW p
  PROVE  /\ Frame(p).proc = p /\ Frame(p).pc = 0 /\ Fresh(Frame(p))
         /\ Executes(Frame(p)) <=> p = "exeterm"
<1>1. Frame(p).proc = p /\ Frame(p).pc = 0 /\ IsFrame(Frame(p))
  BY DEF Frame, NoLocals, IsFrame, Locals
<1>2. ~Saves(Frame(p)) /\ Cells(Frame(p)) = {} /\ ~Counts(Frame(p)) /\ ~Swaps(Frame(p))
  BY <1>1 DEF Saves, Cells, Counts, Swaps
<1>3. ASSUME NEW d, AllSeqs(d) PROVE Full(Frame(p), d) /\ Under(Frame(p), d) = d
  BY <1>2, <1>3 DEF Full, Under, AllSeqs
<1> QED
  BY <1>1, <1>2, <1>3 DEF Fresh, Executes

LEMMA AtIs ==
  ASSUME IsFrame(Top), NEW k, NEW loc, Locals(loc)
  PROVE  /\ IsFrame(At(k, loc)) /\ At(k, loc).proc = Top.proc
         /\ At(k, loc).pc = k /\ At(k, loc).loc = loc
         /\ Executes(At(k, loc)) <=> Executes(Top)
BY DEF At, IsFrame, Executes

(* The call goes on at point k. *)
LEMMA GoesTo ==
  ASSUME Occupied, NEW g, IsFrame(g), Executes(g) <=> Executes(Top),
         frames' = <<g>> \o Tail(frames), conts' = conts, status' = status, Keeps(g), Tally(g)
  PROVE  Balance'
<1>1. /\ Stacked(frames', dumps') /\ Execs(frames') = Execs(frames)
      /\ IsSeq(dump') /\ Len(dump') = Holders(frames')
  BY Turned
<1>2. IsSeq(conts) /\ Len(conts) = Execs(frames) /\ status = "running"
  BY DEF Occupied, Balance
<1> QED
  BY <1>1, <1>2 DEF Balance, Execs, Holders

(* The call goes on after a call of f, which is not exeterm. *)
LEMMA GoesInto ==
  ASSUME Occupied, NEW g, IsFrame(g), Executes(g) <=> Executes(Top), NEW f, Fresh(f), ~Executes(f),
         frames' = <<f, g>> \o Tail(frames), conts' = conts, status' = status, Keeps(g), Tally(g)
  PROVE  Balance'
<1> DEFINE fr == <<g>> \o Tail(frames)
<1>1. /\ Stacked(fr, dumps') /\ Execs(fr) = Execs(frames) /\ Execs(fr) \in Nat
      /\ IsSeq(dump') /\ Len(dump') = Holders(fr)
  BY Turned
<1>2. frames' = <<f>> \o fr
  BY TopFacts DEF IsSeq
<1> HIDE DEF fr
<1>3. Stacked(frames', dumps')
  BY <1>1, <1>2, Enter DEF Keeps, Fresh
<1>4. Execs(frames') = Execs(fr) /\ Holders(frames') = Holders(fr)
  <2>1. Execs(<<f>> \o fr) = Execs(fr) + 0 /\ Holders(<<f>> \o fr) = Holders(fr) + 0
    BY <1>1, CountsPush DEF Stacked, Fresh, One
  <2>2. Execs(fr) \in Nat /\ Holders(fr) \in Nat
    BY <1>1, CountsPush DEF Stacked
  <2>3. Execs(<<f>> \o fr) = Execs(fr) /\ Holders(<<f>> \o fr) = Holders(fr)
    BY <2>1, <2>2
  <2> QED
    BY <2>3, <1>2
<1>5. IsSeq(conts) /\ Len(conts) = Execs(frames) /\ status = "running"
  BY DEF Occupied, Balance
<1> QED
  BY <1>1, <1>3, <1>4, <1>5 DEF Balance, Execs, Holders

(* The call goes on after it has executed the list n. *)
LEMMA Runs ==
  ASSUME Occupied, NEW n, NEW k, NEW loc, Locals(loc), ~Executes(Top),
         Exe(n, k, loc), Keeps(At(k, loc)), Tally(At(k, loc))
  PROVE  Balance'
<1> DEFINE g == At(k, loc)
<1>1. IsFrame(g) /\ ~Executes(g) /\ IsSeq(Tail(frames)) /\ status' = status
  BY AtIs, TopFacts DEF Exe, Steady
<1>2. CASE n = NULL
  <2>1. frames' = <<>> \o <<g>> \o Tail(frames) /\ conts' = <<>> \o conts
    BY <1>2 DEF Exe
  <2>2. frames' = <<g>> \o Tail(frames) /\ conts' = conts
    BY <2>1, TopFacts DEF IsSeq
  <2> HIDE DEF g
  <2> QED
    BY <1>1, <2>2, GoesTo DEF g
<1>3. CASE n # NULL
  <2> DEFINE fr == <<g>> \o Tail(frames)
             e  == Frame("exeterm")
  <2>1. frames' = <<e>> \o <<g>> \o Tail(frames) /\ conts' = <<n>> \o conts
    BY <1>3 DEF Exe
  <2>2. Fresh(e) /\ Executes(e)
    BY FrameIs
  <2> HIDE DEF g, e
  <2>3. frames' = <<e>> \o fr
    BY <2>1, <1>1 DEF IsSeq
  <2>4. /\ Stacked(fr, dumps') /\ Execs(fr) = Execs(frames) /\ Execs(fr) \in Nat
        /\ IsSeq(dump') /\ Len(dump') = Holders(fr)
    BY <1>1, Turned DEF g
  <2> HIDE DEF fr
  <2>5. Stacked(frames', dumps')
    BY <2>2, <2>3, <2>4, Enter DEF Keeps, Fresh
  <2>6. Execs(frames') = Execs(fr) + 1 /\ Holders(frames') = Holders(fr)
    <3>1. Execs(<<e>> \o fr) = Execs(fr) + 1 /\ Holders(<<e>> \o fr) = Holders(fr) + 0
      BY <2>2, <2>4, CountsPush DEF Stacked, Fresh, One
    <3>2. Holders(fr) \in Nat
      BY <2>4, CountsPush DEF Stacked
    <3> QED
      BY <3>1, <3>2, <2>3
  <2>7. IsSeq(conts') /\ Len(conts') = Execs(frames) + 1
    BY <2>1, PushSeq DEF Occupied, Balance
  <2>8. status' # "idle"
    BY <1>1 DEF Occupied
  <2> QED
    BY <2>4, <2>5, <2>6, <2>7, <2>8 DEF Balance, Execs, Holders
<1> QED
  BY <1>2, <1>3

(* The call returns, its own taken off every stack. *)
LEMMA Returns ==
  ASSUME Occupied, frames' = Tail(frames), status' = status,
         conts' = (IF Executes(Top) THEN Tail(conts) ELSE conts),
         dump' = (IF Saves(Top) THEN Tail(dump) ELSE dump),
         dumps' = Under(Top, dumps)
  PROVE  Balance'
<1>1. /\ Stacked(frames', dumps')
      /\ Execs(frames) = Execs(frames') + One(Executes(Top))
      /\ Holders(frames) = Holders(frames') + One(Saves(Top))
      /\ Execs(frames') \in Nat /\ Holders(frames') \in Nat
      /\ Saves(Top) => dump # <<>>
      /\ Executes(Top) => conts # <<>>
  BY TopFacts
<1>2. IsSeq(conts) /\ IsSeq(dump) /\ Len(conts) = Execs(frames) /\ Len(dump) = Holders(frames)
  BY DEF Occupied, Balance
<1>3. IsSeq(conts') /\ Len(conts') = Execs(frames')
  <2>1. CASE Executes(Top)
    <3>1. IsSeq(Tail(conts)) /\ Len(Tail(conts)) = Len(conts) - 1
      BY <2>1, <1>1, <1>2, TailSeq
    <3> QED
      BY <3>1, <2>1, <1>1, <1>2 DEF One
  <2>2. CASE ~Executes(Top)
    BY <2>2, <1>1, <1>2 DEF One
  <2> QED
    BY <2>1, <2>2
<1>4. IsSeq(dump') /\ Len(dump') = Holders(frames')
  <2>1. CASE Saves(Top)
    <3>1. IsSeq(Tail(dump)) /\ Len(Tail(dump)) = Len(dump) - 1
      BY <2>1, <1>1, <1>2, TailSeq
    <3> QED
      BY <3>1, <2>1, <1>1, <1>2 DEF One
  <2>2. CASE ~Saves(Top)
    BY <2>2, <1>1, <1>2 DEF One
  <2> QED
    BY <2>1, <2>2
<1> QED
  BY <1>1, <1>3, <1>4 DEF Balance, Occupied, Execs, Holders

-----------------------------------------------------------------------------
(***************************************************************************)
(* What the operations on dump1 .. dump5 do to what the calls keep there.  *)
(***************************************************************************)
LEMMA PushedIs ==
  ASSUME NEW d, AllSeqs(d), NEW k \in 1 .. 5, NEW v
  PROVE  LET e == Pushed(d, k, v)
         IN  /\ AllSeqs(e) /\ e[k] # <<>> /\ Tail(e[k]) = d[k]
             /\ \A j \in 1 .. 5 \ {k} : e[j] = d[j]
<1> DEFINE e == Pushed(d, k, v)
<1>1. d = [j \in 1 .. 5 |-> d[j]] /\ \A j \in 1 .. 5 : IsSeq(d[j])
  BY DEF AllSeqs
<1>2. e = [j \in 1 .. 5 |-> IF j = k THEN <<v>> \o d[k] ELSE d[j]]
  BY <1>1 DEF Pushed
<1> HIDE DEF e
<1>3. e[k] = <<v>> \o d[k] /\ \A j \in 1 .. 5 \ {k} : e[j] = d[j]
  BY <1>2
<1>4. IsSeq(e[k]) /\ e[k] # <<>> /\ Tail(e[k]) = d[k]
  <2>1. IsSeq(d[k])
    BY <1>1
  <2>2. IsSeq(<<v>> \o d[k]) /\ <<v>> \o d[k] # <<>> /\ Tail(<<v>> \o d[k]) = d[k]
    BY <2>1, PushSeq
  <2> QED
    BY <2>2, <1>3
<1>5. AllSeqs(e)
  BY <1>1, <1>2, <1>3, <1>4 DEF AllSeqs
<1> QED
  BY <1>3, <1>4, <1>5 DEF e

LEMMA MovedIs ==
  ASSUME NEW d, AllSeqs(d), NEW k \in 1 .. 5, d[k] # <<>>, NEW p
  PROVE  LET e == Moved(d, k, p)
         IN  /\ AllSeqs(e) /\ e[k] # <<>> /\ Tail(e[k]) = Tail(d[k])
             /\ \A j \in 1 .. 5 \ {k} : e[j] = d[j]
<1> DEFINE e == Moved(d, k, p)
           v == [Head(d[k]) EXCEPT !.u = p]
<1>1. d = [j \in 1 .. 5 |-> d[j]] /\ \A j \in 1 .. 5 : IsSeq(d[j])
  BY DEF AllSeqs
<1>2. e = [j \in 1 .. 5 |-> IF j = k THEN <<v>> \o Tail(d[k]) ELSE d[j]]
  BY <1>1 DEF Moved
<1> HIDE DEF e, v
<1>3. e[k] = <<v>> \o Tail(d[k]) /\ \A j \in 1 .. 5 \ {k} : e[j] = d[j]
  BY <1>2
<1>4. IsSeq(Tail(d[k]))
  BY <1>1, TailSeq
<1>5. IsSeq(e[k]) /\ e[k] # <<>> /\ Tail(e[k]) = Tail(d[k])
  <2> DEFINE t == Tail(d[k])
  <2>1. IsSeq(<<v>> \o t) /\ <<v>> \o t # <<>> /\ Tail(<<v>> \o t) = t
    BY <1>4, PushSeq
  <2> QED
    BY <2>1, <1>3
<1>6. AllSeqs(e)
  BY <1>1, <1>2, <1>3, <1>5 DEF AllSeqs
<1> QED
  BY <1>3, <1>5, <1>6 DEF e

LEMMA PoppedIs ==
  ASSUME NEW d, AllSeqs(d), NEW ks, \A k \in ks : k \in 1 .. 5 /\ d[k] # <<>>
  PROVE  LET e == Popped(d, ks)
         IN  /\ AllSeqs(e) /\ e = [k \in 1 .. 5 |-> IF k \in ks THEN Tail(d[k]) ELSE d[k]]
             /\ \A k \in ks : e[k] = Tail(d[k])
             /\ \A k \in 1 .. 5 \ ks : e[k] = d[k]
<1> DEFINE e == Popped(d, ks)
<1>1. d = [j \in 1 .. 5 |-> d[j]] /\ \A j \in 1 .. 5 : IsSeq(d[j])
  BY DEF AllSeqs
<1>2. e = [k \in 1 .. 5 |-> IF k \in ks THEN Tail(d[k]) ELSE d[k]]
  BY <1>1 DEF Popped
<1> HIDE DEF e
<1>3. \A k \in 1 .. 5 : IsSeq(e[k])
  BY <1>1, <1>2, TailSeq
<1> QED
  BY <1>2, <1>3 DEF AllSeqs, e

(* A call that takes no part in the exceptions. *)
Plain(f) == ~Counts(f) /\ ~Swaps(f)

LEMMA KeepsSame ==
  ASSUME Occupied, NEW g, Plain(g), Plain(Top), Cells(g) = Cells(Top), dumps' = dumps
  PROVE  Keeps(g)
<1>1. Full(Top, dumps) /\ AllSeqs(dumps)
  BY TopFacts
<1> QED
  BY <1>1 DEF Plain, Keeps, Full, Under

LEMMA KeepsPushed ==
  ASSUME Occupied, NEW g, Plain(g), Plain(Top), NEW k \in 1 .. 5, NEW v,
         k \notin Cells(Top), Cells(g) = Cells(Top) \cup {k}, dumps' = Pushed(dumps, k, v)
  PROVE  Keeps(g)
<1>1. Full(Top, dumps) /\ AllSeqs(dumps)
  BY TopFacts
<1>2. /\ AllSeqs(dumps') /\ dumps'[k] # <<>> /\ Tail(dumps'[k]) = dumps[k]
      /\ \A j \in 1 .. 5 \ {k} : dumps'[j] = dumps[j]
  BY <1>1, PushedIs
<1>3. Cells(Top) \subseteq 1 .. 5
  BY DEF Cells
<1>4. Full(g, dumps')
  BY <1>1, <1>2, <1>3 DEF Plain, Full
<1>5. Under(g, dumps') = Under(Top, dumps)
  BY <1>2, <1>3 DEF Plain, Under
<1> QED
  BY <1>2, <1>4, <1>5 DEF Keeps

LEMMA KeepsMoved ==
  ASSUME Occupied, NEW g, Plain(g), Plain(Top), NEW k \in 1 .. 5, NEW p,
         k \in Cells(Top), Cells(g) = Cells(Top), dumps' = Moved(dumps, k, p)
  PROVE  Keeps(g)
<1>1. Full(Top, dumps) /\ AllSeqs(dumps)
  BY TopFacts
<1>2. /\ AllSeqs(dumps') /\ dumps'[k] # <<>> /\ Tail(dumps'[k]) = Tail(dumps[k])
      /\ \A j \in 1 .. 5 \ {k} : dumps'[j] = dumps[j]
  BY <1>1, MovedIs DEF Full
<1>3. Cells(Top) \subseteq 1 .. 5
  BY DEF Cells
<1>4. Full(g, dumps')
  BY <1>1, <1>2, <1>3 DEF Plain, Full
<1>5. Under(g, dumps') = Under(Top, dumps)
  BY <1>2, <1>3 DEF Plain, Under
<1> QED
  BY <1>2, <1>4, <1>5 DEF Keeps

LEMMA KeepsPopped ==
  ASSUME Occupied, NEW g, Plain(g), Plain(Top), NEW ks,
         ks \subseteq Cells(Top), Cells(g) = Cells(Top) \ ks, dumps' = Popped(dumps, ks)
  PROVE  Keeps(g)
<1>1. Full(Top, dumps) /\ AllSeqs(dumps)
  BY TopFacts
<1>2. Cells(Top) \subseteq 1 .. 5
  BY DEF Cells
<1>3. /\ AllSeqs(dumps') /\ \A k \in ks : dumps'[k] = Tail(dumps[k])
      /\ \A k \in 1 .. 5 \ ks : dumps'[k] = dumps[k]
  BY <1>1, <1>2, PoppedIs DEF Full
<1>4. Full(g, dumps')
  BY <1>1, <1>2, <1>3 DEF Plain, Full
<1>5. Under(g, dumps') = Under(Top, dumps)
  BY <1>2, <1>3 DEF Plain, Under
<1> QED
  BY <1>3, <1>4, <1>5 DEF Keeps

LEMMA LeavesSame ==
  ASSUME Occupied, Plain(Top), Cells(Top) = {}, dumps' = dumps
  PROVE  dumps' = Under(Top, dumps)
<1>1. dumps = [k \in 1 .. 5 |-> dumps[k]]
  BY TopFacts DEF AllSeqs
<1> QED
  BY <1>1 DEF Plain, Under

LEMMA LeavesPopped ==
  ASSUME Occupied, Plain(Top), dumps' = Popped(dumps, Cells(Top))
  PROVE  dumps' = Under(Top, dumps)
<1>1. Full(Top, dumps) /\ AllSeqs(dumps) /\ Cells(Top) \subseteq 1 .. 5
  BY TopFacts DEF Cells
<1>2. dumps' = [k \in 1 .. 5 |-> IF k \in Cells(Top) THEN Tail(dumps[k]) ELSE dumps[k]]
  BY <1>1, PoppedIs DEF Full
<1> QED
  BY <1>2 DEF Plain, Under

(***************************************************************************)
(* The procedures by what they keep: nothing; a stack on dump; ...         *)
(***************************************************************************)
Idle   == {"x", "app11", "app12", "fold", "case", "treerec", "treerecaux", "genrec",
           "treegenrec", "enconcat"}
Savers == {"i", "app1", "branch", "dip", "infra", "ifte", "while", "primrec", "times", "linrec",
           "binrec", "condlinrec", "condnestrec", "treestep", "genrecaux"}
            \cup DOMAIN IfType \cup DOMAIN Nary

LEMMA KindIdle ==
  ASSUME NEW f, (f.pc = 0 /\ f.proc # "exeterm") \/ f.proc \in Idle
  PROVE  Plain(f) /\ Cells(f) = {} /\ ~Saves(f) /\ ~Executes(f)
BY DEF Idle, Plain, Counts, Swaps, Cells, Saves, Executes, Loops, IfType, Nary, UnaryN

LEMMA KindSaver ==
  ASSUME NEW f, f.proc \in Savers
  PROVE  Plain(f) /\ Cells(f) = {} /\ ~Executes(f) /\ (Saves(f) <=> f.pc > 0)
BY DEF Savers, Plain, Counts, Swaps, Cells, Saves, Executes, Loops, IfType, Nary, UnaryN

LEMMA KindTester ==
  ASSUME NEW f, f.proc \in {"cleave", "tailrec"}
  PROVE  /\ Plain(f) /\ ~Executes(f) /\ (Saves(f) <=> f.pc > 0)
         /\ Cells(f) = IF f.pc = 2 THEN {1} ELSE {}
BY DEF Plain, Counts, Swaps, Cells, Saves, Executes, Loops, IfType, Nary, UnaryN

LEMMA KindLoop ==
  ASSUME NEW f, f.proc \in Loops
  PROVE  /\ Plain(f) /\ ~Executes(f) /\ (Saves(f) <=> f.pc > 0)
         /\ Cells(f) = IF f.pc \in 1 .. 2 /\ f.loc.over = "LIST_" THEN OwnDumps(f.proc) ELSE {}
<1>1. OwnDumps(f.proc) \subseteq 1 .. 5
  BY DEF OwnDumps
<1> QED
  BY <1>1 DEF Plain, Counts, Swaps, Cells, Saves, Executes, Loops, IfType, Nary, UnaryN

LEMMA KindCond ==
  ASSUME NEW f, f.proc = "cond"
  PROVE  /\ Plain(f) /\ ~Executes(f) /\ (Saves(f) <=> f.pc > 0)
         /\ Cells(f) = IF f.pc \in 1 .. 3 THEN {1} ELSE {}
BY DEF Plain, Counts, Swaps, Cells, Saves, Executes, Loops, IfType, Nary, UnaryN

LEMMA KindRecursive ==
  ASSUME NEW f, f.proc \in {"linrecaux", "binrecaux"}
  PROVE  /\ Plain(f) /\ ~Executes(f) /\ ~Saves(f)
         /\ Cells(f) = IF f.pc = 1 THEN {1}
                       ELSE IF f.pc = 3 /\ f.proc = "binrecaux" THEN {2} ELSE {}
BY DEF Plain, Counts, Swaps, Cells, Saves, Executes, Loops, IfType, Nary, UnaryN

LEMMA KindClauses ==
  ASSUME NEW f, f.proc \in {"condlinrecaux", "condnestrecaux"}
  PROVE  /\ Plain(f) /\ ~Executes(f) /\ ~Saves(f)
         /\ Cells(f) = IF f.pc \in 1 .. 2 THEN {1, 2}
                       ELSE IF f.proc = "condlinrecaux"
                            THEN IF f.pc \in 3 .. 5 THEN {1, 2} ELSE {}
                            ELSE IF f.pc \in 3 .. 4 THEN {1, 2, 3} ELSE {}
BY DEF Plain, Counts, Swaps, Cells, Saves, Executes, Loops, IfType, Nary, UnaryN

LEMMA KindTrees ==
  ASSUME NEW f, f.proc \in {"treestepaux", "treegenrecaux"}
  PROVE  /\ Plain(f) /\ ~Executes(f)
         /\ Saves(f) <=> f.proc = "treegenrecaux" /\ f.pc = 1
         /\ Cells(f) = IF f.proc = "treestepaux" /\ f.pc \in {1, 3} THEN {1} ELSE {}
BY DEF Plain, Counts, Swaps, Cells, Saves, Executes, Loops, IfType, Nary, UnaryN

-----------------------------------------------------------------------------
(***************************************************************************)
(* The stretches of C code, procedure by procedure.                        *)
(***************************************************************************)
LEMMA Here ==
  ASSUME Balance, NEW p, NEW k, In(p, k)
  PROVE  /\ Occupied /\ Top.proc = p /\ Top.pc = k /\ IsFrame(Top) /\ Locals(Loc)
         /\ \A j, loc : Locals(loc) =>
              /\ IsFrame(At(j, loc)) /\ At(j, loc).proc = p /\ At(j, loc).pc = j
              /\ At(j, loc).loc = loc /\ (Executes(At(j, loc)) <=> Executes(Top))
<1>1. Occupied /\ Top.proc = p /\ Top.pc = k
  BY DEF In, Occupied
<1>2. IsFrame(Top) /\ Locals(Loc)
  BY <1>1, TopFacts DEF IsFrame, Loc
<1> QED
  BY <1>1, <1>2, AtIs

(* A call that keeps nothing returns. *)
LEMMA IdleReturns ==
  ASSUME Occupied, Plain(Top), Cells(Top) = {}, ~Saves(Top), ~Executes(Top), KeepDumps, Return
  PROVE  Balance'
<1>1. dumps' = Under(Top, dumps)
  BY LeavesSame DEF KeepDumps
<1> QED
  BY <1>1, Returns DEF KeepDumps, Return, Steady

(* A call that keeps only a saved stack drops it and returns. *)
LEMMA SaverReturns ==
  ASSUME Occupied, Plain(Top), Cells(Top) = {}, Saves(Top), ~Executes(Top),
         Drop, Return, dumps' = dumps
  PROVE  Balance'
<1>1. dumps' = Under(Top, dumps)
  BY LeavesSame
<1> QED
  BY <1>1, Returns DEF Drop, Return, Steady

LEMMA PrimitiveReturns ==
  ASSUME Balance, NEW p, p # "exeterm", In(p, 0), KeepDumps, Return
  PROVE  Balance'
<1>1. Occupied /\ Top.proc = p /\ Top.pc = 0
  BY Here
<1> QED
  BY <1>1, KindIdle, IdleReturns

(* A step that moves on, with the dumps and the saved stack as they are.   *)
LEMMA SilentRun ==
  ASSUME Occupied, NEW n, NEW k, NEW loc, Locals(loc), Plain(Top), Plain(At(k, loc)),
         Cells(At(k, loc)) = Cells(Top), Saves(At(k, loc)) <=> Saves(Top), ~Executes(Top),
         Exe(n, k, loc), KeepDumps
  PROVE  Balance'
<1>1. Keeps(At(k, loc)) /\ Tally(At(k, loc))
  BY KeepsSame DEF Tally, KeepDumps
<1> QED
  BY <1>1, Runs

LEMMA SilentCall ==
  ASSUME Occupied, NEW f, NEW k, Fresh(f), ~Executes(f), Plain(Top), Plain(At(k, Loc)),
         Cells(At(k, Loc)) = Cells(Top), Saves(At(k, Loc)) <=> Saves(Top), ~Executes(Top),
         Call(f, k), KeepDumps
  PROVE  Balance'
<1>1. Keeps(At(k, Loc)) /\ Tally(At(k, Loc))
  BY KeepsSame DEF Tally, KeepDumps
<1>2. IsFrame(At(k, Loc)) /\ (Executes(At(k, Loc)) <=> Executes(Top))
  BY TopFacts, AtIs DEF IsFrame, Loc
<1> QED
  BY <1>1, <1>2, GoesInto DEF Call, Steady

LEMMA SilentGoto ==
  ASSUME Occupied, NEW k, NEW loc, Locals(loc), Plain(Top), Plain(At(k, loc)),
         Cells(At(k, loc)) = Cells(Top), Saves(At(k, loc)) <=> Saves(Top), ~Executes(Top),
         Goto(k, loc), KeepDumps
  PROVE  Balance'
<1>1. Keeps(At(k, loc)) /\ Tally(At(k, loc))
  BY KeepsSame DEF Tally, KeepDumps
<1>2. IsFrame(At(k, loc)) /\ (Executes(At(k, loc)) <=> Executes(Top))
  BY TopFacts, AtIs
<1> QED
  BY <1>1, <1>2, GoesTo DEF Goto, Steady

LEMMA IdleBecomes ==
  ASSUME Occupied, NEW p, p # "exeterm", Plain(Top), Cells(Top) = {}, ~Saves(Top),
         ~Executes(Top), Become(p), KeepDumps
  PROVE  Balance'
<1> DEFINE g == Frame(p)
<1>1. IsFrame(g) /\ ~Executes(g) /\ g.pc = 0 /\ g.proc = p
  BY FrameIs DEF Fresh
<1>2. Plain(g) /\ Cells(g) = {} /\ ~Saves(g)
  BY <1>1, KindIdle
<1> HIDE DEF g
<1>3. Keeps(g) /\ Tally(g)
  BY <1>2, KeepsSame DEF Tally, KeepDumps
<1>4. frames' = <<g>> \o Tail(frames) /\ conts' = conts /\ status' = status
  BY DEF Become, Steady, g
<1> QED
  BY <1>1, <1>3, <1>4, GoesTo

(***************************************************************************)
(* Procedures that keep nothing.                                           *)
(***************************************************************************)
LEMMA IdleAt ==
  ASSUME Balance, NEW p \in Idle, NEW j, In(p, j)
  PROVE  /\ Occupied /\ Plain(Top) /\ Cells(Top) = {} /\ ~Saves(Top) /\ ~Executes(Top)
         /\ Locals(Loc)
         /\ \A k, loc : Locals(loc) =>
              /\ Plain(At(k, loc)) /\ Cells(At(k, loc)) = {} /\ ~Saves(At(k, loc))
<1>1. Occupied /\ Top.proc = p /\ IsFrame(Top) /\ Locals(Loc)
  BY Here
<1>2. ASSUME NEW k, NEW loc, Locals(loc) PROVE At(k, loc).proc = p
  BY <1>1, <1>2, AtIs
<1> QED
  BY <1>1, <1>2, KindIdle

LEMMA IdleCalls ==
  ASSUME Balance, NEW p \in Idle, NEW j, In(p, j), NEW q, q # "exeterm", NEW k,
         Call(Frame(q), k), KeepDumps
  PROVE  Balance'
<1>1. Fresh(Frame(q)) /\ ~Executes(Frame(q))
  BY FrameIs
<1>2. /\ Occupied /\ Plain(Top) /\ Cells(Top) = {} /\ ~Saves(Top) /\ ~Executes(Top)
      /\ Plain(At(k, Loc)) /\ Cells(At(k, Loc)) = {} /\ ~Saves(At(k, Loc))
  BY IdleAt
<1> QED
  BY <1>1, <1>2, SilentCall

LEMMA IdleRuns ==
  ASSUME Balance, NEW p \in Idle, NEW j, In(p, j), NEW n, NEW k, Exe(n, k, Loc), KeepDumps
  PROVE  Balance'
<1>1. /\ Occupied /\ Plain(Top) /\ Cells(Top) = {} /\ ~Saves(Top) /\ ~Executes(Top)
      /\ Plain(At(k, Loc)) /\ Cells(At(k, Loc)) = {} /\ ~Saves(At(k, Loc)) /\ Locals(Loc)
  BY IdleAt
<1> QED
  BY <1>1, SilentRun

LEMMA IdleEnds ==
  ASSUME Balance, NEW p \in Idle, NEW j, In(p, j), Return, KeepDumps
  PROVE  Balance'
BY IdleAt, IdleReturns

LEMMA IdleTails ==
  ASSUME Balance, NEW p \in Idle, NEW j, In(p, j), NEW q, q # "exeterm", Become(q), KeepDumps
  PROVE  Balance'
BY IdleAt, IdleBecomes

(***************************************************************************)
(* Procedures that keep the stack they saved, from their first step on.    *)
(***************************************************************************)
LEMMA SaverAt ==
  ASSUME Balance, NEW p \in Savers, NEW j \in Nat, In(p, j)
  PROVE  /\ Occupied /\ Plain(Top) /\ Cells(Top) = {} /\ ~Executes(Top) /\ Locals(Loc)
         /\ Saves(Top) <=> j > 0
         /\ \A k \in Nat : \A loc : Locals(loc) =>
              /\ Plain(At(k, loc)) /\ Cells(At(k, loc)) = {} /\ IsFrame(At(k, loc))
              /\ ~Executes(At(k, loc)) /\ (Saves(At(k, loc)) <=> k > 0)
<1>1. Occupied /\ Top.proc = p /\ Top.pc = j /\ IsFrame(Top) /\ Locals(Loc)
  BY Here
<1>2. Plain(Top) /\ Cells(Top) = {} /\ ~Executes(Top) /\ (Saves(Top) <=> j > 0)
  BY <1>1, KindSaver
<1>3. ASSUME NEW k \in Nat, NEW loc, Locals(loc)
      PROVE  /\ Plain(At(k, loc)) /\ Cells(At(k, loc)) = {} /\ IsFrame(At(k, loc))
             /\ ~Executes(At(k, loc)) /\ (Saves(At(k, loc)) <=> k > 0)
  <2>1. At(k, loc).proc = p /\ At(k, loc).pc = k /\ IsFrame(At(k, loc))
    BY <1>1, <1>3, AtIs
  <2> QED
    BY <2>1, KindSaver
<1> QED
  BY <1>1, <1>2, <1>3

(* ... begin *)
LEMMA SaverBegins ==
  ASSUME Balance, NEW p \in Savers, In(p, 0), NEW k \in Nat \ {0}, NEW loc, Locals(loc),
         Save, dumps' = dumps,
         \/ Goto(k, loc)
         \/ \E n : Exe(n, k, loc)
         \/ loc = Loc /\ \E f : Fresh(f) /\ ~Executes(f) /\ Call(f, k)
  PROVE  Balance'
<1>1. /\ Occupied /\ Plain(Top) /\ Cells(Top) = {} /\ ~Executes(Top) /\ ~Saves(Top)
      /\ Plain(At(k, loc)) /\ Cells(At(k, loc)) = {} /\ IsFrame(At(k, loc))
      /\ ~Executes(At(k, loc)) /\ Saves(At(k, loc))
  BY SaverAt
<1>2. Keeps(At(k, loc)) /\ Tally(At(k, loc))
  BY <1>1, KeepsSame DEF Tally
<1>3. CASE Goto(k, loc)
  BY <1>1, <1>2, <1>3, GoesTo DEF Goto, Steady
<1>4. CASE \E n : Exe(n, k, loc)
  BY <1>1, <1>2, <1>4, Runs
<1>5. CASE loc = Loc /\ \E f : Fresh(f) /\ ~Executes(f) /\ Call(f, k)
  <2>1. PICK f : Fresh(f) /\ ~Executes(f) /\ Call(f, k)
    BY <1>5
  <2>2. frames' = <<f, At(k, loc)>> \o Tail(frames) /\ conts' = conts /\ status' = status
    BY <1>5, <2>1 DEF Call, Steady
  <2> QED
    BY <1>1, <1>2, <2>1, <2>2, GoesInto
<1> QED
  BY <1>3, <1>4, <1>5

(* ... go on *)
LEMMA SaverRuns ==
  ASSUME Balance, NEW p \in Savers, NEW j \in Nat \ {0}, In(p, j),
         NEW n, NEW k \in Nat \ {0}, NEW loc, Locals(loc), Exe(n, k, loc), KeepDumps
  PROVE  Balance'
<1>1. /\ Occupied /\ Plain(Top) /\ Cells(Top) = {} /\ ~Executes(Top) /\ Saves(Top)
      /\ Plain(At(k, loc)) /\ Cells(At(k, loc)) = {} /\ Saves(At(k, loc))
  BY SaverAt
<1> QED
  BY <1>1, SilentRun

LEMMA SaverGoes ==
  ASSUME Balance, NEW p \in Savers, NEW j \in Nat \ {0}, In(p, j),
         NEW k \in Nat \ {0}, NEW loc, Locals(loc), Goto(k, loc), KeepDumps
  PROVE  Balance'
<1>1. /\ Occupied /\ Plain(Top) /\ Cells(Top) = {} /\ ~Executes(Top) /\ Saves(Top)
      /\ Plain(At(k, loc)) /\ Cells(At(k, loc)) = {} /\ Saves(At(k, loc))
  BY SaverAt
<1> QED
  BY <1>1, SilentGoto

LEMMA SaverCalls ==
  ASSUME Balance, NEW p \in Savers, NEW j \in Nat \ {0}, In(p, j),
         NEW q, q # "exeterm", NEW k \in Nat \ {0}, Call(Frame(q), k), KeepDumps
  PROVE  Balance'
<1>1. /\ Occupied /\ Plain(Top) /\ Cells(Top) = {} /\ ~Executes(Top) /\ Saves(Top)
      /\ Plain(At(k, Loc)) /\ Cells(At(k, Loc)) = {} /\ Saves(At(k, Loc))
  BY SaverAt
<1>2. Fresh(Frame(q)) /\ ~Executes(Frame(q))
  BY FrameIs
<1> QED
  BY <1>1, <1>2, SilentCall

(* ... and end *)
LEMMA SaverEnds ==
  ASSUME Balance, NEW p \in Savers, NEW j \in Nat \ {0}, In(p, j), Drop, Return, dumps' = dumps
  PROVE  Balance'
<1>1. Occupied /\ Plain(Top) /\ Cells(Top) = {} /\ ~Executes(Top) /\ Saves(Top)
  BY SaverAt
<1> QED
  BY <1>1, SaverReturns

-----------------------------------------------------------------------------
(* The primitives. *)
LEMMA PrimitiveKeeps ==
  ASSUME Balance, Primitive
  PROVE  Balance'
<1>1. CASE Shuffle
  <2>1. PICK p \in DOMAIN Shuffles : In(p, 0) /\ KeepDumps /\ Return
    BY <1>1 DEF Shuffle, Start
  <2>2. p # "exeterm"
    BY DEF Shuffles
  <2> QED
    BY <2>1, <2>2, PrimitiveReturns
<1>2. CASE PushConstant
  <2>1. PICK p \in Constants : In(p, 0) /\ KeepDumps /\ Return
    BY <1>2 DEF PushConstant, Start
  <2>2. p # "exeterm"
    BY DEF Constants
  <2> QED
    BY <2>1, <2>2, PrimitiveReturns
<1>3. CASE Unstack
  BY <1>3, PrimitiveReturns DEF Unstack, Start
<1>4. CASE Unary1
  <2>1. PICK p \in Monadic : In(p, 0) /\ KeepDumps /\ Return
    BY <1>4 DEF Unary1, Start
  <2>2. p # "exeterm"
    BY DEF Monadic, TypeTest
  <2> QED
    BY <2>1, <2>2, PrimitiveReturns
<1>5. CASE Binary2
  <2>1. PICK p \in Dyadic : In(p, 0) /\ KeepDumps /\ Return
    BY <1>5 DEF Binary2, Start, Dyadic
  <2>2. p # "exeterm"
    BY DEF Dyadic, Relations
  <2> QED
    BY <2>1, <2>2, PrimitiveReturns
<1>5a. CASE Compare
  <2>1. PICK p \in Relations : In(p, 0) /\ KeepDumps /\ Return
    BY <1>5a DEF Compare, Start
  <2>2. p # "exeterm"
    BY DEF Relations
  <2> QED
    BY <2>1, <2>2, PrimitiveReturns
<1>6. CASE Choice
  BY <1>6, PrimitiveReturns DEF Choice, Start
<1>7. CASE Cons_
  BY <1>7, PrimitiveReturns DEF Cons_, Start
<1>8. CASE Take
  BY <1>8, PrimitiveReturns DEF Take, Start
<1>9. CASE Concat
  BY <1>9, PrimitiveReturns DEF Concat, Start
<1>10. CASE Enconcat
  <2>1. KeepDumps
    BY <1>10 DEF Enconcat
  <2>2. CASE In("enconcat", 0) /\ Call(Frame("swapd"), 1)
    BY <2>1, <2>2, IdleCalls DEF Idle
  <2>3. CASE In("enconcat", 1) /\ Call(Frame("cons"), 2)
    BY <2>1, <2>3, IdleCalls DEF Idle
  <2>4. CASE In("enconcat", 2) /\ Become("concat")
    BY <2>1, <2>4, IdleTails DEF Idle
  <2> QED
    BY <1>10, <2>2, <2>3, <2>4 DEF Enconcat, Start
<1>11. CASE SetUndefError
  <2>1. In("setundeferror", 0) /\ KeepDumps /\ frames' = Tail(frames)
        /\ conts' = conts /\ status' = status
    BY <1>11 DEF SetUndefError
  <2>2. Occupied /\ Top.proc = "setundeferror" /\ Top.pc = 0
    BY <2>1, Here
  <2>3. Plain(Top) /\ Cells(Top) = {} /\ ~Saves(Top) /\ ~Executes(Top)
    BY <2>2, KindIdle
  <2>4. dumps' = Under(Top, dumps)
    BY <2>1, <2>2, <2>3, LeavesSame DEF KeepDumps
  <2> QED
    BY <2>1, <2>2, <2>3, <2>4, Returns DEF KeepDumps
<1> QED
  BY <1>1, <1>2, <1>3, <1>4, <1>5, <1>5a, <1>6, <1>7, <1>8, <1>9, <1>10, <1>11 DEF Primitive

-----------------------------------------------------------------------------
(* The combinators that keep a saved stack at most. *)
LEMMA RunOnKeeps ==
  ASSUME Balance, NEW p \in Savers, NEW base, NEW quote, RunOn(p, base, quote)
  PROVE  Balance'
<1>1. In(p, 0) /\ Exe(quote, 1, Loc) /\ Save /\ dumps' = dumps
  BY DEF RunOn, Start
<1>2. Locals(Loc)
  BY <1>1, SaverAt
<1> QED
  BY <1>1, <1>2, SaverBegins

LEMMA BeginKeeps ==
  ASSUME Balance, NEW p \in Savers, NEW base, NEW f, Fresh(f), ~Executes(f), Begin(p, base, f)
  PROVE  Balance'
<1>1. In(p, 0) /\ Call(f, 1) /\ Save /\ dumps' = dumps
  BY DEF Begin, Start
<1>2. Locals(Loc)
  BY <1>1, SaverAt
<1> QED
  BY <1>1, <1>2, SaverBegins

LEMMA OneQuotationKeeps ==
  ASSUME Balance, X_ \/ I_ \/ App1 \/ Branch \/ IfType_ \/ Dip \/ Nary_ \/ Infra
  PROVE  Balance'
<1>1. CASE X_
  <2>1. CASE Start("x") /\ Exe(ArgVal(1).u, 1, Loc) /\ KeepDumps
    BY <2>1, IdleRuns DEF Start, Idle
  <2>2. CASE In("x", 1) /\ Return /\ KeepDumps
    BY <2>2, IdleEnds DEF Idle
  <2> QED
    BY <1>1, <2>1, <2>2 DEF X_
<1>2. CASE I_
  BY <1>2, RunOnKeeps DEF I_, Savers
<1>3. CASE App1
  BY <1>3, RunOnKeeps DEF App1, Savers
<1>4. CASE Branch
  BY <1>4, RunOnKeeps DEF Branch, Savers
<1>5. CASE IfType_
  BY <1>5, RunOnKeeps DEF IfType_, Savers
<1>6. CASE Dip
  <2>1. CASE RunOn("dip", Arg(3), ArgVal(1).u)
    BY <2>1, RunOnKeeps DEF Savers
  <2>2. CASE In("dip", 1) /\ Drop /\ Return /\ UNCHANGED dumps
    BY <2>2, SaverEnds DEF Savers
  <2> QED
    BY <1>6, <2>1, <2>2 DEF Dip
<1>7. CASE Nary_
  <2>1. PICK p \in DOMAIN Nary : \/ RunOn(p, Arg(2), ArgVal(1).u)
                                 \/ In(p, 1) /\ Drop /\ Return /\ UNCHANGED dumps
    BY <1>7 DEF Nary_
  <2>2. p \in Savers
    BY DEF Savers
  <2> QED
    BY <2>1, <2>2, RunOnKeeps, SaverEnds
<1>8. CASE Infra
  <2>1. CASE RunOn("infra", ArgVal(2).u, ArgVal(1).u)
    BY <2>1, RunOnKeeps DEF Savers
  <2>2. CASE In("infra", 1) /\ Drop /\ Return /\ UNCHANGED dumps
    BY <2>2, SaverEnds DEF Savers
  <2> QED
    BY <1>8, <2>1, <2>2 DEF Infra
<1> QED
  BY <1>1, <1>2, <1>3, <1>4, <1>5, <1>6, <1>7, <1>8

LEMMA FinishKeeps ==
  ASSUME Balance, Finish
  PROVE  Balance'
<1>1. Drop /\ Return /\ dumps' = dumps
  BY DEF Finish
<1>2. CASE \E p \in Savers : \E j \in {1, 2} : In(p, j)
  BY <1>1, <1>2, SaverEnds
<1>3. CASE In("tailrec", 3)
  <2>1. Occupied /\ Top.proc = "tailrec" /\ Top.pc = 3
    BY <1>3, Here
  <2>2. Plain(Top) /\ Cells(Top) = {} /\ ~Executes(Top) /\ Saves(Top)
    BY <2>1, KindTester
  <2> QED
    BY <1>1, <2>1, <2>2, SaverReturns
<1> QED
  BY <1>2, <1>3 DEF Finish, Savers

LEMMA IdleCombinatorKeeps ==
  ASSUME Balance, App11 \/ App12 \/ Fold \/ Case_ \/ Treerec
  PROVE  Balance'
<1>1. CASE App11
  <2>1. CASE In("app11", 0) /\ Call(Frame("app1"), 1) /\ KeepDumps
    BY <2>1, IdleCalls DEF Idle
  <2>2. CASE In("app11", 1) /\ Return /\ KeepDumps
    BY <2>2, IdleEnds DEF Idle
  <2> QED
    BY <1>1, <2>1, <2>2 DEF App11, Start, Resume
<1>2. CASE App12
  <2>1. CASE In("app12", 0) /\ Call(Frame("unary2"), 1) /\ KeepDumps
    BY <2>1, IdleCalls DEF Idle
  <2>2. CASE In("app12", 1) /\ Return /\ KeepDumps
    BY <2>2, IdleEnds DEF Idle
  <2> QED
    BY <1>2, <2>1, <2>2 DEF App12, Start, Resume
<1>3. CASE Fold
  <2>1. KeepDumps
    BY <1>3 DEF Fold
  <2>2. CASE In("fold", 0) /\ Call(Frame("swapd"), 1)
    BY <2>1, <2>2, IdleCalls DEF Idle
  <2>3. CASE In("fold", 1) /\ Become("step")
    BY <2>1, <2>3, IdleTails DEF Idle
  <2> QED
    BY <1>3, <2>2, <2>3 DEF Fold, Start
<1>4. CASE Case_
  <2>1. \/ KeepDumps /\ In("case", 0) /\ \E n : Exe(n, 1, Loc)
        \/ KeepDumps /\ In("case", 1) /\ Return
    BY <1>4 DEF Case_, Start
  <2>2. CASE KeepDumps /\ In("case", 0) /\ \E n : Exe(n, 1, Loc)
    BY <2>2, IdleRuns DEF Idle
  <2>3. CASE KeepDumps /\ In("case", 1) /\ Return
    BY <2>3, IdleEnds DEF Idle
  <2> QED
    BY <2>1, <2>2, <2>3
<1>5. CASE Treerec
  <2>1. KeepDumps
    BY <1>5 DEF Treerec
  <2>2. CASE In("treerec", 0) /\ Call(Frame("cons"), 1)
    BY <2>1, <2>2, IdleCalls DEF Idle
  <2>3. CASE In("treerec", 1) /\ Become("treerecaux")
    BY <2>1, <2>3, IdleTails DEF Idle
  <2>4. CASE In("treerecaux", 0) /\ Call(Frame("cons"), 1)
    BY <2>1, <2>4, IdleCalls DEF Idle
  <2>5. CASE In("treerecaux", 1) /\ Exe(Next1(Lis(ArgVal(1).u)), 2, Loc)
    BY <2>1, <2>5, IdleRuns DEF Idle
  <2>6. CASE In("treerecaux", 0) /\ Exe(Lis(Part(1)), 2, Loc)
    BY <2>1, <2>6, IdleRuns DEF Idle
  <2>7. CASE In("treerecaux", 2) /\ Return
    BY <2>1, <2>7, IdleEnds DEF Idle
  <2> QED
    BY <1>5, <2>2, <2>3, <2>4, <2>5, <2>6, <2>7 DEF Treerec, Start
<1> QED
  BY <1>1, <1>2, <1>3, <1>4, <1>5

LEMMA SaverCombinatorKeeps ==
  ASSUME Balance, Times \/ Ifte \/ While \/ Primrec \/ Genrec
  PROVE  Balance'
<1>1. CASE Times
  <2>1. CASE In("times", 0) /\ Goto(1, [Loc EXCEPT !.n = ArgVal(2).u]) /\ Save /\ UNCHANGED dumps
    <3>1. Locals([Loc EXCEPT !.n = ArgVal(2).u])
      BY <2>1, Here DEF Locals
    <3> QED
      BY <2>1, <3>1, SaverBegins DEF Savers
  <2>2. CASE In("times", 1) /\ Exe(Quote(1), 1, [Loc EXCEPT !.n = @ - 1]) /\ KeepDumps
    <3> DEFINE loc == [Loc EXCEPT !.n = @ - 1]
    <3>1. In("times", 1) /\ KeepDumps /\ Locals(loc) /\ Exe(Quote(1), 1, loc)
      BY <2>2, Here DEF Locals
    <3> HIDE DEF loc
    <3> QED
      BY <3>1, SaverRuns DEF Savers
  <2> QED
    BY <1>1, <2>1, <2>2 DEF Times, Start
<1>2. CASE Ifte
  <2>1. CASE RunOn("ifte", Arg(4), ArgVal(3).u)
    BY <2>1, RunOnKeeps DEF Savers
  <2>2. CASE In("ifte", 1) /\ KeepDumps
             /\ Exe(IF Truth(ArgVal(1)) THEN Quote(2) ELSE Quote(1), 2, Loc)
    <3>1. Locals(Loc)
      BY <2>2, Here
    <3> QED
      BY <2>2, <3>1, SaverRuns DEF Savers
  <2> QED
    BY <1>2, <2>1, <2>2 DEF Ifte, Resume
<1>3. CASE While
  <2>1. CASE In("while", 0) /\ Goto(1, Loc) /\ Save /\ UNCHANGED dumps
    <3>1. Locals(Loc)
      BY <2>1, Here
    <3> QED
      BY <2>1, <3>1, SaverBegins DEF Savers
  <2>2. CASE In("while", 1) /\ Exe(Quote(2), 2, Loc) /\ KeepDumps
    BY <2>2, SaverRuns, Here DEF Savers
  <2>3. CASE In("while", 2) /\ Exe(Quote(1), 3, Loc) /\ KeepDumps
    BY <2>3, SaverRuns, Here DEF Savers
  <2>4. CASE In("while", 3) /\ Goto(1, Loc) /\ KeepDumps
    BY <2>4, SaverGoes, Here DEF Savers
  <2>5. CASE In("while", 2) /\ Drop /\ Return /\ UNCHANGED dumps
    BY <2>5, SaverEnds DEF Savers
  <2> QED
    BY <1>3, <2>1, <2>2, <2>3, <2>4, <2>5 DEF While, Start, Resume
<1>4. CASE Primrec
  <2>1. CASE /\ In("primrec", 0) /\ Save /\ dumps' = dumps
             /\ \E n, m : Exe(n, 1, [Loc EXCEPT !.n = m])
    <3>1. PICK n, m : Exe(n, 1, [Loc EXCEPT !.n = m])
      BY <2>1
    <3>2. Locals([Loc EXCEPT !.n = m])
      BY <2>1, Here DEF Locals
    <3> QED
      BY <2>1, <3>1, <3>2, SaverBegins DEF Savers
  <2>2. CASE In("primrec", 1) /\ Exe(Quote(1), 1, [Loc EXCEPT !.n = @ - 1]) /\ KeepDumps
    <3> DEFINE loc == [Loc EXCEPT !.n = @ - 1]
    <3>1. In("primrec", 1) /\ KeepDumps /\ Locals(loc) /\ Exe(Quote(1), 1, loc)
      BY <2>2, Here DEF Locals
    <3> HIDE DEF loc
    <3> QED
      BY <3>1, SaverRuns DEF Savers
  <2> QED
    BY <1>4, <2>1, <2>2 DEF Primrec, Start
<1>5. CASE Genrec
  <2>1. CASE In("genrec", 0) /\ Call(Frame("cons"), 1) /\ KeepDumps
    BY <2>1, IdleCalls DEF Idle
  <2>2. CASE In("genrec", 1) /\ Call(Frame("cons"), 2) /\ KeepDumps
    BY <2>2, IdleCalls DEF Idle
  <2>3. CASE In("genrec", 2) /\ Call(Frame("cons"), 3) /\ KeepDumps
    BY <2>3, IdleCalls DEF Idle
  <2>4. CASE In("genrec", 3) /\ Become("genrecaux") /\ KeepDumps
    BY <2>4, IdleTails DEF Idle
  <2>5. CASE In("genrecaux", 0) /\ Exe(Lis(Part(1)), 1, Loc) /\ Save /\ UNCHANGED dumps
    <3>1. Locals(Loc)
      BY <2>5, Here
    <3> QED
      BY <2>5, <3>1, SaverBegins DEF Savers
  <2>6. CASE In("genrecaux", 1) /\ KeepDumps /\ \E n : \E k \in {2, 4} : Exe(n, k, Loc)
    BY <2>6, SaverRuns, Here DEF Savers
  <2>7. CASE In("genrecaux", 2) /\ KeepDumps /\ Call(Frame("cons"), 3)
    BY <2>7, SaverCalls DEF Savers
  <2>8. CASE In("genrecaux", 3) /\ KeepDumps /\ Exe(Below(heap, Quote(1), 3), 4, Loc)
    BY <2>8, SaverRuns, Here DEF Savers
  <2>9. CASE In("genrecaux", 4) /\ Drop /\ Return /\ UNCHANGED dumps
    BY <2>9, SaverEnds DEF Savers
  <2> QED
    BY <1>5, <2>1, <2>2, <2>3, <2>4, <2>5, <2>6, <2>7, <2>8, <2>9 DEF Genrec, Start, Resume
<1> QED
  BY <1>1, <1>2, <1>3, <1>4, <1>5

-----------------------------------------------------------------------------
(***************************************************************************)
(* The combinators that keep something on dump1 .. dump5.                  *)
(***************************************************************************)
LEMMA Continues ==
  ASSUME Occupied, ~Executes(Top), NEW k, NEW loc, Locals(loc),
         Keeps(At(k, loc)), Tally(At(k, loc)),
         \/ Goto(k, loc)
         \/ \E n : Exe(n, k, loc)
         \/ loc = Loc /\ \E f : Fresh(f) /\ ~Executes(f) /\ Call(f, k)
  PROVE  Balance'
<1>1. IsFrame(At(k, loc)) /\ (Executes(At(k, loc)) <=> Executes(Top))
  BY TopFacts, AtIs
<1>2. CASE Goto(k, loc)
  BY <1>1, <1>2, GoesTo DEF Goto, Steady
<1>3. CASE \E n : Exe(n, k, loc)
  BY <1>3, Runs
<1>4. CASE loc = Loc /\ \E f : Fresh(f) /\ ~Executes(f) /\ Call(f, k)
  <2>1. PICK f : Fresh(f) /\ ~Executes(f) /\ Call(f, k)
    BY <1>4
  <2>2. frames' = <<f, At(k, loc)>> \o Tail(frames) /\ conts' = conts /\ status' = status
    BY <1>4, <2>1 DEF Call, Steady
  <2> QED
    BY <1>1, <2>1, <2>2, GoesInto
<1> QED
  BY <1>2, <1>3, <1>4

(* A test runs on a stack kept on dump1, which then comes off. *)
LEMMA CleaveKeeps ==
  ASSUME Balance, Cleave
  PROVE  Balance'
<1>1. CASE In("cleave", 0) /\ (\E n : Exe(n, 1, Loc)) /\ Save /\ dumps' = dumps
  <2>1. /\ Occupied /\ ~Executes(Top) /\ Locals(Loc) /\ Plain(Top) /\ Cells(Top) = {}
        /\ ~Saves(Top) /\ Plain(At(1, Loc)) /\ Cells(At(1, Loc)) = {} /\ Saves(At(1, Loc))
    BY <1>1, Here, KindTester
  <2> QED
    BY <1>1, <2>1, KeepsSame, Continues DEF Tally
<1>2. CASE /\ In("cleave", 1) /\ (\E n : Exe(n, 2, Loc))
           /\ dumps' = Pushed(dumps, 1, ArgVal(1)) /\ dump' = dump
  <2>1. /\ Occupied /\ ~Executes(Top) /\ Locals(Loc) /\ Plain(Top) /\ Cells(Top) = {}
        /\ Saves(Top) /\ Plain(At(2, Loc)) /\ Cells(At(2, Loc)) = {1} /\ Saves(At(2, Loc))
    BY <1>2, Here, KindTester
  <2>2. Keeps(At(2, Loc))
    BY <1>2, <2>1, KeepsPushed
  <2> QED
    BY <1>2, <2>1, <2>2, Continues DEF Tally
<1>3. CASE In("cleave", 2) /\ dumps' = Popped(dumps, {1}) /\ Drop /\ Return
  <2>1. Occupied /\ ~Executes(Top) /\ Plain(Top) /\ Cells(Top) = {1} /\ Saves(Top)
    BY <1>3, Here, KindTester
  <2> QED
    BY <1>3, <2>1, LeavesPopped, Returns DEF Drop, Return, Steady
<1> QED
  BY <1>1, <1>2, <1>3 DEF Cleave, RunOn, Start, Resume

LEMMA TailrecKeeps ==
  ASSUME Balance, Tailrec
  PROVE  Balance'
<1>1. CASE In("tailrec", 0) /\ Goto(1, Loc) /\ Save /\ dumps' = dumps
  <2>1. /\ Occupied /\ ~Executes(Top) /\ Locals(Loc) /\ Plain(Top) /\ Cells(Top) = {}
        /\ ~Saves(Top) /\ Plain(At(1, Loc)) /\ Cells(At(1, Loc)) = {} /\ Saves(At(1, Loc))
    BY <1>1, Here, KindTester
  <2> QED
    BY <1>1, <2>1, KeepsSame, Continues DEF Tally
<1>2. CASE In("tailrec", 1) /\ Test(Quote(3), 2)
  <2>1. /\ Occupied /\ ~Executes(Top) /\ Locals(Loc) /\ Plain(Top) /\ Cells(Top) = {}
        /\ Saves(Top) /\ Plain(At(2, Loc)) /\ Cells(At(2, Loc)) = {1} /\ Saves(At(2, Loc))
    BY <1>2, Here, KindTester
  <2>2. dumps' = Pushed(dumps, 1, List_(stk)) /\ dump' = dump /\ Exe(Quote(3), 2, Loc)
    BY <1>2 DEF Test
  <2>3. Keeps(At(2, Loc))
    BY <2>1, <2>2, KeepsPushed
  <2> QED
    BY <2>1, <2>2, <2>3, Continues DEF Tally
<1>3. CASE In("tailrec", 2) /\ Restore /\ \E n : \E k \in {1, 3} : Exe(n, k, Loc)
  <2>1. PICK k \in {1, 3} : \E n : Exe(n, k, Loc)
    BY <1>3
  <2>2. /\ Occupied /\ ~Executes(Top) /\ Locals(Loc) /\ Plain(Top) /\ Cells(Top) = {1}
        /\ Saves(Top) /\ Plain(At(k, Loc)) /\ Cells(At(k, Loc)) = {} /\ Saves(At(k, Loc))
    BY <1>3, <2>1, Here, KindTester
  <2>3. dumps' = Popped(dumps, {1}) /\ dump' = dump
    BY <1>3 DEF Restore
  <2>4. Keeps(At(k, Loc))
    BY <2>2, <2>3, KeepsPopped
  <2> QED
    BY <2>1, <2>2, <2>3, <2>4, Continues DEF Tally
<1> QED
  BY <1>1, <1>2, <1>3 DEF Tailrec, Start, Resume

LEMMA RecursiveKeeps ==
  ASSUME Balance, Linrec \/ Binrec
  PROVE  Balance'
<1> DEFINE Both == {"linrecaux", "binrecaux"}
<1>1. CASE \E p \in {"linrec", "binrec"} : \E base : \E q \in Both : Begin(p, base, Frame(q))
  BY <1>1, FrameIs, BeginKeeps DEF Savers
<1>2. CASE \E p \in Both : In(p, 0) /\ Test(Quote(4), 1)
  <2>1. PICK p \in Both : In(p, 0)
    BY <1>2
  <2>2. /\ Occupied /\ ~Executes(Top) /\ Locals(Loc) /\ Plain(Top) /\ Cells(Top) = {}
        /\ ~Saves(Top) /\ Plain(At(1, Loc)) /\ Cells(At(1, Loc)) = {1} /\ ~Saves(At(1, Loc))
    BY <2>1, Here, KindRecursive
  <2>3. dumps' = Pushed(dumps, 1, List_(stk)) /\ dump' = dump /\ Exe(Quote(4), 1, Loc)
    BY <1>2 DEF Test
  <2>4. Keeps(At(1, Loc))
    BY <2>2, <2>3, KeepsPushed
  <2> QED
    BY <2>2, <2>3, <2>4, Continues DEF Tally
<1>3. CASE \E p \in Both : In(p, 1) /\ Restore /\ \E n : \E k \in {2, 4, 5} : Exe(n, k, Loc)
  <2>1. PICK p \in Both, k \in {2, 4, 5} : In(p, 1) /\ Restore /\ \E n : Exe(n, k, Loc)
    BY <1>3
  <2>2. /\ Occupied /\ ~Executes(Top) /\ Locals(Loc) /\ Plain(Top) /\ Cells(Top) = {1}
        /\ ~Saves(Top) /\ Plain(At(k, Loc)) /\ Cells(At(k, Loc)) = {} /\ ~Saves(At(k, Loc))
    BY <2>1, Here, KindRecursive
  <2>3. dumps' = Popped(dumps, {1}) /\ dump' = dump
    BY <2>1 DEF Restore
  <2>4. Keeps(At(k, Loc))
    BY <2>2, <2>3, KeepsPopped
  <2> QED
    BY <2>1, <2>2, <2>3, <2>4, Continues DEF Tally
<1>4. CASE /\ KeepDumps
           /\ \/ In("linrecaux", 2) /\ Call(Frame("linrecaux"), 3)
              \/ In("linrecaux", 3) /\ \E n : Exe(n, 4, Loc)
              \/ In("binrecaux", 4) /\ \E n : Exe(n, 5, Loc)
  <2>1. PICK p \in Both, j \in 2 .. 4, k \in 3 .. 5 :
          /\ In(p, j) /\ (j # 3 \/ p = "linrecaux") /\ (k # 3 \/ p = "linrecaux")
          /\ (\E n : Exe(n, k, Loc)) \/ Call(Frame("linrecaux"), k)
    BY <1>4
  <2>2. /\ Occupied /\ ~Executes(Top) /\ Locals(Loc) /\ Plain(Top) /\ Cells(Top) = {}
        /\ ~Saves(Top) /\ Plain(At(k, Loc)) /\ Cells(At(k, Loc)) = {} /\ ~Saves(At(k, Loc))
    BY <2>1, Here, KindRecursive
  <2>3. Fresh(Frame("linrecaux")) /\ ~Executes(Frame("linrecaux"))
    BY FrameIs
  <2> QED
    BY <1>4, <2>1, <2>2, <2>3, SilentRun, SilentCall
<1>5. CASE /\ In("binrecaux", 2) /\ Call(Frame("binrecaux"), 3)
           /\ dumps' = Pushed(dumps, 2, ArgVal(1)) /\ dump' = dump
  <2>1. /\ Occupied /\ ~Executes(Top) /\ Locals(Loc) /\ Plain(Top) /\ Cells(Top) = {}
        /\ ~Saves(Top) /\ Plain(At(3, Loc)) /\ Cells(At(3, Loc)) = {2} /\ ~Saves(At(3, Loc))
    BY <1>5, Here, KindRecursive
  <2>2. Keeps(At(3, Loc))
    BY <1>5, <2>1, KeepsPushed
  <2> QED
    BY <1>5, <2>1, <2>2, FrameIs, Continues DEF Tally
<1>6. CASE /\ In("binrecaux", 3) /\ Call(Frame("binrecaux"), 4)
           /\ dumps' = Popped(dumps, {2}) /\ dump' = dump
  <2>1. /\ Occupied /\ ~Executes(Top) /\ Locals(Loc) /\ Plain(Top) /\ Cells(Top) = {2}
        /\ ~Saves(Top) /\ Plain(At(4, Loc)) /\ Cells(At(4, Loc)) = {} /\ ~Saves(At(4, Loc))
    BY <1>6, Here, KindRecursive
  <2>2. Keeps(At(4, Loc))
    BY <1>6, <2>1, KeepsPopped
  <2> QED
    BY <1>6, <2>1, <2>2, FrameIs, Continues DEF Tally
<1>7. CASE (In("linrecaux", 4) \/ In("binrecaux", 5)) /\ Return /\ KeepDumps
  <2>1. /\ Occupied /\ ~Executes(Top) /\ Plain(Top) /\ Cells(Top) = {} /\ ~Saves(Top)
    BY <1>7, Here, KindRecursive
  <2> QED
    BY <1>7, <2>1, IdleReturns
<1>8. CASE Linrec
  BY <1>8, <1>1, <1>2, <1>3, <1>4, <1>7 DEF Linrec, Resume
<1>9. CASE Binrec
  BY <1>9, <1>1, <1>2, <1>3, <1>4, <1>5, <1>6, <1>7 DEF Binrec, Resume
<1> QED
  BY <1>8, <1>9

(* In general: on the dumps that the call keeps an item on before and      *)
(* after, what is under the item is as it was; and so on.                  *)
LEMMA KeepsRows ==
  ASSUME Occupied, NEW g, Plain(g), Plain(Top), AllSeqs(dumps'),
         \A k \in Cells(g) : /\ dumps'[k] # <<>>
                             /\ Tail(dumps'[k]) = IF k \in Cells(Top) THEN Tail(dumps[k])
                                                  ELSE dumps[k],
         \A k \in 1 .. 5 \ Cells(g) : dumps'[k] = IF k \in Cells(Top) THEN Tail(dumps[k])
                                                  ELSE dumps[k]
  PROVE  Keeps(g)
<1>1. Cells(Top) \subseteq 1 .. 5 /\ Cells(g) \subseteq 1 .. 5
  BY DEF Cells
<1>2. Full(g, dumps')
  BY <1>1 DEF Plain, Full
<1>3. Under(g, dumps') = Under(Top, dumps)
  BY <1>1 DEF Plain, Under
<1> QED
  BY <1>2, <1>3 DEF Keeps

(* d and e differ in the items on top of the dumps ks at most. *)
Alike(d, e, ks) ==
  /\ AllSeqs(e) /\ \A k \in ks : k \in 1 .. 5 /\ e[k] # <<>> /\ Tail(e[k]) = Tail(d[k])
  /\ \A k \in 1 .. 5 \ ks : e[k] = d[k]

LEMMA MovedAlike ==
  ASSUME NEW b, NEW d, NEW ks, Alike(b, d, ks), NEW k \in ks, NEW p
  PROVE  Alike(b, Moved(d, k, p), ks)
<1> DEFINE e == Moved(d, k, p)
<1>1. AllSeqs(d) /\ k \in 1 .. 5 /\ d[k] # <<>>
  BY DEF Alike
<1>2. /\ AllSeqs(e) /\ e[k] # <<>> /\ Tail(e[k]) = Tail(d[k])
      /\ \A j \in 1 .. 5 \ {k} : e[j] = d[j]
  BY <1>1, MovedIs
<1> HIDE DEF e
<1>3. Alike(b, e, ks)
  BY <1>1, <1>2 DEF Alike
<1> QED
  BY <1>3 DEF e

LEMMA KeepsAlike ==
  ASSUME Occupied, NEW g, Plain(g), Plain(Top), Cells(g) = Cells(Top),
         Alike(dumps, dumps', Cells(Top))
  PROVE  Keeps(g)
BY KeepsRows DEF Alike

LEMMA AlikeSelf ==
  ASSUME Occupied, Plain(Top)
  PROVE  Alike(dumps, dumps, Cells(Top))
<1>1. Full(Top, dumps) /\ AllSeqs(dumps) /\ Cells(Top) \subseteq 1 .. 5
  BY TopFacts DEF Cells
<1> QED
  BY <1>1 DEF Alike, Full

LEMMA CondKeeps ==
  ASSUME Balance, Cond
  PROVE  Balance'
<1>1. CASE In("cond", 0) /\ Goto(1, Loc) /\ dumps' = Pushed(dumps, 1, ArgVal(1)) /\ Save
  <2>1. /\ Occupied /\ ~Executes(Top) /\ Locals(Loc) /\ Plain(Top) /\ Cells(Top) = {}
        /\ ~Saves(Top) /\ Plain(At(1, Loc)) /\ Cells(At(1, Loc)) = {1} /\ Saves(At(1, Loc))
    BY <1>1, Here, KindCond
  <2>2. Keeps(At(1, Loc))
    BY <1>1, <2>1, KeepsPushed
  <2> QED
    BY <1>1, <2>1, <2>2, Continues DEF Tally
<1>2. CASE /\ In("cond", 1) \/ In("cond", 2)
           /\ KeepDumps /\ \E n : \E k \in {2, 3} : Exe(n, k, Loc)
  <2>1. PICK k \in {2, 3} : \E n : Exe(n, k, Loc)
    BY <1>2
  <2>2. /\ Occupied /\ ~Executes(Top) /\ Locals(Loc) /\ Plain(Top) /\ Cells(Top) = {1}
        /\ Saves(Top) /\ Plain(At(k, Loc)) /\ Cells(At(k, Loc)) = {1} /\ Saves(At(k, Loc))
    BY <1>2, Here, KindCond
  <2> QED
    BY <1>2, <2>1, <2>2, SilentRun
<1>3. CASE /\ In("cond", 2) /\ Goto(1, Loc)
           /\ dumps' = Moved(dumps, 1, Next1(Dmp(1))) /\ dump' = dump
  <2>1. /\ Occupied /\ ~Executes(Top) /\ Locals(Loc) /\ Plain(Top) /\ Cells(Top) = {1}
        /\ Saves(Top) /\ Plain(At(1, Loc)) /\ Cells(At(1, Loc)) = {1} /\ Saves(At(1, Loc))
    BY <1>3, Here, KindCond
  <2>2. Keeps(At(1, Loc))
    BY <1>3, <2>1, KeepsMoved
  <2> QED
    BY <1>3, <2>1, <2>2, Continues DEF Tally
<1>4. CASE In("cond", 3) /\ Return /\ dumps' = Popped(dumps, {1}) /\ Drop
  <2>1. Occupied /\ ~Executes(Top) /\ Plain(Top) /\ Cells(Top) = {1} /\ Saves(Top)
    BY <1>4, Here, KindCond
  <2> QED
    BY <1>4, <2>1, LeavesPopped, Returns DEF Drop, Return, Steady
<1> QED
  BY <1>1, <1>2, <1>3, <1>4 DEF Cond, Start, Resume

(* condlinrec and condnestrec *)
LEMMA ClausesKeep ==
  ASSUME Balance, ChooseClause \/ Condlinrec \/ Condnestrec
  PROVE  Balance'
<1> DEFINE Both == {"condlinrecaux", "condnestrecaux"}
<1>1. CASE \E p \in {"condlinrec", "condnestrec"} : \E base : \E q \in Both :
             Begin(p, base, Frame(q))
  BY <1>1, FrameIs, BeginKeeps DEF Savers
<1>2. ASSUME NEW p \in Both, In(p, 0), Goto(1, Loc), dump' = dump,
             dumps' = Pushed(Pushed(dumps, 1, SavedVal(1)), 2, List_(stk))
      PROVE  Balance'
  <2>1. /\ Occupied /\ ~Executes(Top) /\ Locals(Loc) /\ Plain(Top) /\ Cells(Top) = {}
        /\ ~Saves(Top) /\ Plain(At(1, Loc)) /\ Cells(At(1, Loc)) = {1, 2} /\ ~Saves(At(1, Loc))
    BY <1>2, Here, KindClauses
  <2> DEFINE d == Pushed(dumps, 1, SavedVal(1))
  <2>2. /\ AllSeqs(d) /\ d[1] # <<>> /\ Tail(d[1]) = dumps[1]
        /\ \A j \in 1 .. 5 \ {1} : d[j] = dumps[j]
    BY <2>1, TopFacts, PushedIs
  <2> HIDE DEF d
  <2>3. dumps' = Pushed(d, 2, List_(stk))
    BY <1>2 DEF d
  <2>4. /\ AllSeqs(dumps') /\ dumps'[2] # <<>> /\ Tail(dumps'[2]) = d[2]
        /\ \A j \in 1 .. 5 \ {2} : dumps'[j] = d[j]
    BY <2>2, <2>3, PushedIs
  <2>5. Keeps(At(1, Loc))
    BY <2>1, <2>2, <2>4, KeepsRows
  <2> QED
    BY <1>2, <2>1, <2>5, Continues DEF Tally
<1>3. ASSUME NEW p \in Both, NEW n, In(p, 1), Exe(n, 2, Loc), KeepDumps
      PROVE  Balance'
  <2>1. /\ Occupied /\ ~Executes(Top) /\ Locals(Loc) /\ Plain(Top) /\ Cells(Top) = {1, 2}
        /\ ~Saves(Top) /\ Plain(At(2, Loc)) /\ Cells(At(2, Loc)) = {1, 2} /\ ~Saves(At(2, Loc))
    BY <1>3, Here, KindClauses
  <2> QED
    BY <1>3, <2>1, SilentRun
<1>4. ASSUME NEW p \in Both, NEW j \in {1, 2}, NEW n, In(p, j), Chosen(p, n)
      PROVE  Balance'
  <2> DEFINE loc == [Loc EXCEPT !.n = n]
  <2>1. /\ Exe(Lis(n), 3, loc) /\ dump' = dump
        /\ dumps' = IF p = "condnestrecaux" THEN Pushed(dumps, 3, List_(n)) ELSE dumps
    BY <1>4 DEF Chosen
  <2>2. Locals(loc)
    BY <1>4, Here DEF Locals
  <2> HIDE DEF loc
  <2>3. /\ Occupied /\ ~Executes(Top) /\ Plain(Top) /\ Cells(Top) = {1, 2} /\ ~Saves(Top)
        /\ Plain(At(3, loc)) /\ ~Saves(At(3, loc))
        /\ Cells(At(3, loc)) = IF p = "condnestrecaux" THEN {1, 2, 3} ELSE {1, 2}
    BY <1>4, <2>2, Here, KindClauses
  <2>4. Keeps(At(3, loc))
    <3>1. CASE p = "condnestrecaux"
      <4>1. Cells(At(3, loc)) = Cells(Top) \cup {3} /\ 3 \notin Cells(Top)
        BY <2>3, <3>1
      <4>2. dumps' = Pushed(dumps, 3, List_(n))
        BY <2>1, <3>1
      <4> QED
        BY <2>3, <4>1, <4>2, KeepsPushed
    <3>2. CASE p # "condnestrecaux"
      BY <2>1, <2>3, <3>2, KeepsSame
    <3> QED
      BY <3>1, <3>2
  <2> QED
    BY <2>1, <2>2, <2>3, <2>4, Continues DEF Tally
<1>5. ASSUME NEW p \in Both, In(p, 2), Goto(1, Loc),
             dumps' = Moved(dumps, 1, Next1(Dmp(1))), dump' = dump
      PROVE  Balance'
  <2>1. /\ Occupied /\ ~Executes(Top) /\ Locals(Loc) /\ Plain(Top) /\ Cells(Top) = {1, 2}
        /\ ~Saves(Top) /\ Plain(At(1, Loc)) /\ Cells(At(1, Loc)) = {1, 2} /\ ~Saves(At(1, Loc))
    BY <1>5, Here, KindClauses
  <2>2. Keeps(At(1, Loc))
    BY <1>5, <2>1, KeepsMoved
  <2> QED
    BY <1>5, <2>1, <2>2, Continues DEF Tally
<1>6. CASE /\ In("condlinrecaux", 3) /\ Call(Frame("condlinrecaux"), 4) /\ KeepDumps
  <2>1. /\ Occupied /\ ~Executes(Top) /\ Plain(Top) /\ Cells(Top) = {1, 2}
        /\ ~Saves(Top) /\ Plain(At(4, Loc)) /\ Cells(At(4, Loc)) = {1, 2} /\ ~Saves(At(4, Loc))
    BY <1>6, Here, KindClauses
  <2> QED
    BY <1>6, <2>1, FrameIs, SilentCall
<1>7. CASE In("condlinrecaux", 4) /\ (\E n : Exe(n, 5, Loc)) /\ KeepDumps
  <2>1. /\ Occupied /\ ~Executes(Top) /\ Locals(Loc) /\ Plain(Top) /\ Cells(Top) = {1, 2}
        /\ ~Saves(Top) /\ Plain(At(5, Loc)) /\ Cells(At(5, Loc)) = {1, 2} /\ ~Saves(At(5, Loc))
    BY <1>7, Here, KindClauses
  <2> QED
    BY <1>7, <2>1, SilentRun
<1>8. CASE /\ In("condlinrecaux", 3) \/ In("condlinrecaux", 5)
           /\ dumps' = Popped(dumps, {1, 2}) /\ Return /\ dump' = dump
  <2>1. Occupied /\ ~Executes(Top) /\ Plain(Top) /\ Cells(Top) = {1, 2} /\ ~Saves(Top)
    BY <1>8, Here, KindClauses
  <2> QED
    BY <1>8, <2>1, LeavesPopped, Returns DEF Return, Steady
<1>9. CASE /\ In("condnestrecaux", 3) /\ Call(Frame("condnestrecaux"), 4)
           /\ (\E rest : dumps' = Moved(dumps, 3, rest)) /\ dump' = dump
  <2>1. /\ Occupied /\ ~Executes(Top) /\ Locals(Loc) /\ Plain(Top) /\ Cells(Top) = {1, 2, 3}
        /\ ~Saves(Top) /\ Plain(At(4, Loc)) /\ Cells(At(4, Loc)) = {1, 2, 3}
        /\ ~Saves(At(4, Loc))
    BY <1>9, Here, KindClauses
  <2>2. Keeps(At(4, Loc))
    BY <1>9, <2>1, KeepsMoved
  <2> QED
    BY <1>9, <2>1, <2>2, FrameIs, Continues DEF Tally
<1>10. CASE In("condnestrecaux", 4) /\ (\E n : Exe(n, 3, Loc)) /\ KeepDumps
  <2>1. /\ Occupied /\ ~Executes(Top) /\ Locals(Loc) /\ Plain(Top) /\ Cells(Top) = {1, 2, 3}
        /\ ~Saves(Top) /\ Plain(At(3, Loc)) /\ Cells(At(3, Loc)) = {1, 2, 3}
        /\ ~Saves(At(3, Loc))
    BY <1>10, Here, KindClauses
  <2> QED
    BY <1>10, <2>1, SilentRun
<1>11. CASE In("condnestrecaux", 3) /\ dumps' = Popped(dumps, {1, 2, 3}) /\ Return /\ dump' = dump
  <2>1. Occupied /\ ~Executes(Top) /\ Plain(Top) /\ Cells(Top) = {1, 2, 3} /\ ~Saves(Top)
    BY <1>11, Here, KindClauses
  <2> QED
    BY <1>11, <2>1, LeavesPopped, Returns DEF Return, Steady
<1>12. CASE ChooseClause
  <2>1. PICK p \in Both :
          \/ In(p, 0) /\ Goto(1, Loc) /\ dump' = dump
               /\ dumps' = Pushed(Pushed(dumps, 1, SavedVal(1)), 2, List_(stk))
          \/ In(p, 1) /\ Exe(Lis(Clause), 2, Loc) /\ KeepDumps
          \/ In(p, 1) /\ Chosen(p, Clause)
          \/ In(p, 2) /\ Chosen(p, Next1(Clause))
          \/ In(p, 2) /\ Goto(1, Loc) /\ dumps' = Moved(dumps, 1, Next1(Dmp(1))) /\ dump' = dump
    BY <1>12 DEF ChooseClause, Resume
  <2> QED
    BY <2>1, <1>2, <1>3, <1>4, <1>5
<1>13. CASE Condlinrec
  BY <1>13, <1>1, <1>6, <1>7, <1>8 DEF Condlinrec
<1>14. CASE Condnestrec
  BY <1>14, <1>1, <1>9, <1>10, <1>11 DEF Condnestrec
<1> QED
  BY <1>12, <1>13, <1>14

(* treestep and treegenrec *)
LEMMA TreestepKeeps ==
  ASSUME Balance, Treestep
  PROVE  Balance'
<1> DEFINE Visit(p) == [Frame("treestepaux") EXCEPT !.loc.n = p]
<1>1. ASSUME NEW p PROVE Fresh(Visit(p)) /\ ~Executes(Visit(p))
  <2>1. IsFrame(Visit(p)) /\ Visit(p).proc = "treestepaux" /\ Visit(p).pc = 0
    BY DEF Frame, NoLocals, IsFrame, Locals
  <2> HIDE DEF Visit
  <2>2. Plain(Visit(p)) /\ Cells(Visit(p)) = {} /\ ~Saves(Visit(p)) /\ ~Executes(Visit(p))
    BY <2>1, KindIdle
  <2>3. ASSUME NEW d, AllSeqs(d) PROVE Full(Visit(p), d) /\ Under(Visit(p), d) = d
    BY <2>2, <2>3 DEF Plain, Full, Under, AllSeqs
  <2> QED
    BY <2>1, <2>2, <2>3 DEF Fresh
<1>2. CASE Begin("treestep", Arg(3), Visit(Arg(2)))
  <2> HIDE DEF Visit
  <2> QED
    BY <1>1, <1>2, BeginKeeps DEF Savers
<1>3. CASE In("treestepaux", 0) /\ (\E n : Exe(n, 2, Loc)) /\ KeepDumps
  <2>1. /\ Occupied /\ ~Executes(Top) /\ Locals(Loc) /\ Plain(Top) /\ Cells(Top) = {}
        /\ ~Saves(Top) /\ Plain(At(2, Loc)) /\ Cells(At(2, Loc)) = {} /\ ~Saves(At(2, Loc))
    BY <1>3, Here, KindTrees
  <2> QED
    BY <1>3, <2>1, SilentRun
<1>4. CASE /\ In("treestepaux", 0) /\ Goto(1, Loc)
           /\ (\E v : dumps' = Pushed(dumps, 1, v)) /\ dump' = dump
  <2>1. /\ Occupied /\ ~Executes(Top) /\ Locals(Loc) /\ Plain(Top) /\ Cells(Top) = {}
        /\ ~Saves(Top) /\ Plain(At(1, Loc)) /\ Cells(At(1, Loc)) = {1} /\ ~Saves(At(1, Loc))
    BY <1>4, Here, KindTrees
  <2>2. Keeps(At(1, Loc))
    BY <1>4, <2>1, KeepsPushed
  <2> QED
    BY <1>4, <2>1, <2>2, Continues DEF Tally
<1>5. CASE In("treestepaux", 1) /\ KeepDumps /\ Call(Visit(Dmp(1)), 3)
  <2> HIDE DEF Visit
  <2>1. /\ Occupied /\ ~Executes(Top) /\ Plain(Top) /\ Cells(Top) = {1}
        /\ ~Saves(Top) /\ Plain(At(3, Loc)) /\ Cells(At(3, Loc)) = {1} /\ ~Saves(At(3, Loc))
    BY <1>5, Here, KindTrees
  <2> QED
    BY <1>1, <1>5, <2>1, SilentCall
<1>6. CASE /\ In("treestepaux", 3) /\ Goto(1, Loc)
           /\ dumps' = Moved(dumps, 1, Next1(Dmp(1))) /\ dump' = dump
  <2>1. /\ Occupied /\ ~Executes(Top) /\ Locals(Loc) /\ Plain(Top) /\ Cells(Top) = {1}
        /\ ~Saves(Top) /\ Plain(At(1, Loc)) /\ Cells(At(1, Loc)) = {1} /\ ~Saves(At(1, Loc))
    BY <1>6, Here, KindTrees
  <2>2. Keeps(At(1, Loc))
    BY <1>6, <2>1, KeepsMoved
  <2> QED
    BY <1>6, <2>1, <2>2, Continues DEF Tally
<1>7. CASE In("treestepaux", 1) /\ Return /\ dumps' = Popped(dumps, {1}) /\ dump' = dump
  <2>1. Occupied /\ ~Executes(Top) /\ Plain(Top) /\ Cells(Top) = {1} /\ ~Saves(Top)
    BY <1>7, Here, KindTrees
  <2> QED
    BY <1>7, <2>1, LeavesPopped, Returns DEF Return, Steady
<1>8. CASE In("treestepaux", 2) /\ Return /\ KeepDumps
  <2>1. Occupied /\ ~Executes(Top) /\ Plain(Top) /\ Cells(Top) = {} /\ ~Saves(Top)
    BY <1>8, Here, KindTrees
  <2> QED
    BY <1>8, <2>1, IdleReturns
<1> QED
  BY <1>2, <1>3, <1>4, <1>5, <1>6, <1>7, <1>8 DEF Treestep

LEMMA TreegenrecKeeps ==
  ASSUME Balance, Treegenrec
  PROVE  Balance'
<1>1. CASE In("treegenrec", 0) /\ Call(Frame("cons"), 1) /\ KeepDumps
  BY <1>1, IdleCalls DEF Idle
<1>2. CASE In("treegenrec", 1) /\ Call(Frame("cons"), 2) /\ KeepDumps
  BY <1>2, IdleCalls DEF Idle
<1>3. CASE In("treegenrec", 2) /\ Become("treegenrecaux") /\ KeepDumps
  BY <1>3, IdleTails DEF Idle
<1>4. CASE In("treegenrecaux", 0) /\ (\E n : Exe(n, 1, Loc)) /\ Save /\ dumps' = dumps
  <2>1. /\ Occupied /\ ~Executes(Top) /\ Locals(Loc) /\ Plain(Top) /\ Cells(Top) = {}
        /\ ~Saves(Top) /\ Plain(At(1, Loc)) /\ Cells(At(1, Loc)) = {} /\ Saves(At(1, Loc))
    BY <1>4, Here, KindTrees
  <2> QED
    BY <1>4, <2>1, KeepsSame, Continues DEF Tally
<1>5. CASE In("treegenrecaux", 1) /\ Call(Frame("cons"), 2) /\ Drop /\ dumps' = dumps
  <2>1. /\ Occupied /\ ~Executes(Top) /\ Locals(Loc) /\ Plain(Top) /\ Cells(Top) = {}
        /\ Saves(Top) /\ Plain(At(2, Loc)) /\ Cells(At(2, Loc)) = {} /\ ~Saves(At(2, Loc))
    BY <1>5, Here, KindTrees
  <2> QED
    BY <1>5, <2>1, KeepsSame, FrameIs, Continues DEF Tally
<1>6. CASE /\ In("treegenrecaux", 2) \/ In("treegenrecaux", 0)
           /\ (\E n : Exe(n, 3, Loc)) /\ KeepDumps
  <2>1. /\ Occupied /\ ~Executes(Top) /\ Locals(Loc) /\ Plain(Top) /\ Cells(Top) = {}
        /\ ~Saves(Top) /\ Plain(At(3, Loc)) /\ Cells(At(3, Loc)) = {} /\ ~Saves(At(3, Loc))
    BY <1>6, Here, KindTrees
  <2> QED
    BY <1>6, <2>1, SilentRun
<1>7. CASE In("treegenrecaux", 3) /\ Return /\ KeepDumps
  <2>1. Occupied /\ ~Executes(Top) /\ Plain(Top) /\ Cells(Top) = {} /\ ~Saves(Top)
    BY <1>7, Here, KindTrees
  <2> QED
    BY <1>7, <2>1, IdleReturns
<1> QED
  BY <1>1, <1>2, <1>3, <1>4, <1>5, <1>6, <1>7 DEF Treegenrec, Start

-----------------------------------------------------------------------------
(***************************************************************************)
(* The loops: over a list they keep an item on each of their own dumps,    *)
(* over a string or a set none.                                            *)
(***************************************************************************)
Kept(p, loc) == IF loc.over = "LIST_" THEN OwnDumps(p) ELSE {}

LEMMA LoopAt ==
  ASSUME Balance, NEW p \in Loops, NEW j \in 1 .. 2, In(p, j)
  PROVE  /\ Occupied /\ ~Executes(Top) /\ Plain(Top) /\ Locals(Loc) /\ Saves(Top)
         /\ Cells(Top) = Kept(p, Loc)
         /\ \A k \in 1 .. 2 : \A loc : Locals(loc) =>
              /\ Plain(At(k, loc)) /\ Cells(At(k, loc)) = Kept(p, loc) /\ Saves(At(k, loc))
<1>1. Occupied /\ Top.proc = p /\ Top.pc = j /\ IsFrame(Top) /\ Locals(Loc)
  BY Here
<1>2. ASSUME NEW k \in 1 .. 2, NEW loc, Locals(loc)
      PROVE  /\ Plain(At(k, loc)) /\ Cells(At(k, loc)) = Kept(p, loc) /\ Saves(At(k, loc))
  <2>1. At(k, loc).proc = p /\ At(k, loc).pc = k /\ At(k, loc).loc = loc
    BY <1>1, <1>2, AtIs
  <2> QED
    BY <2>1, KindLoop DEF Kept
<1>3. ~Executes(Top) /\ Plain(Top) /\ Saves(Top) /\ Cells(Top) = Kept(p, Loc)
  BY <1>1, KindLoop DEF Kept, Loc
<1> QED
  BY <1>1, <1>2, <1>3

(* An item is put on each of the dumps of a loop over a list. *)
LEMMA LoopBegins ==
  ASSUME Balance, NEW p \in Loops, In(p, 0), NEW v, AllSeqs(dumps),
         dumps' = [k \in 1 .. 5 |-> IF k \notin OwnDumps(p) THEN dumps[k]
                                    ELSE <<v[k]>> \o dumps[k]]
  PROVE  /\ AllSeqs(dumps')
         /\ \A k \in OwnDumps(p) : dumps'[k] # <<>> /\ Tail(dumps'[k]) = dumps[k]
         /\ \A k \in 1 .. 5 \ OwnDumps(p) : dumps'[k] = dumps[k]
<1>1. OwnDumps(p) \subseteq 1 .. 5
  BY DEF OwnDumps
<1>2. ASSUME NEW k \in OwnDumps(p)
      PROVE  IsSeq(dumps'[k]) /\ dumps'[k] # <<>> /\ Tail(dumps'[k]) = dumps[k]
  <2>1. IsSeq(dumps[k])
    BY <1>1 DEF AllSeqs
  <2>2. /\ IsSeq(<<v[k]>> \o dumps[k]) /\ <<v[k]>> \o dumps[k] # <<>>
        /\ Tail(<<v[k]>> \o dumps[k]) = dumps[k]
    BY <2>1, PushSeq
  <2>3. dumps'[k] = <<v[k]>> \o dumps[k]
    BY <1>1
  <2> QED
    BY <2>2, <2>3
<1>3. \A k \in 1 .. 5 \ OwnDumps(p) : dumps'[k] = dumps[k] /\ IsSeq(dumps'[k])
  BY DEF AllSeqs
<1>4. AllSeqs(dumps')
  <2>1. \A k \in 1 .. 5 : IsSeq(dumps'[k])
    BY <1>1, <1>2, <1>3
  <2>2. dumps' = [k \in 1 .. 5 |-> dumps'[k]]
    OBVIOUS
  <2> QED
    BY <2>1, <2>2 DEF AllSeqs
<1> QED
  BY <1>2, <1>3, <1>4

LEMMA BeginLoopKeeps ==
  ASSUME Balance, BeginLoop
  PROVE  Balance'
<1>1. PICK p \in Loops :
        /\ In(p, 0) /\ Save
        /\ IF ArgVal(2).op = "LIST_"
           THEN /\ dumps' = [k \in 1 .. 5 |->
                               IF k \notin OwnDumps(p) THEN dumps[k]
                               ELSE <<IF k = 1 THEN ArgVal(2) ELSE List_(NULL)>> \o dumps[k]]
                /\ Goto(1, [Loc EXCEPT !.over = "LIST_"])
           ELSE /\ UNCHANGED dumps
                /\ Goto(1, [Loc EXCEPT !.over = ArgVal(2).op, !.rest = Members(ArgVal(2))])
  BY DEF BeginLoop, Start
<1>2. Occupied /\ Top.proc = p /\ Top.pc = 0 /\ IsFrame(Top) /\ Locals(Loc) /\ p # "exeterm"
  BY <1>1, Here DEF Loops
<1>3. Plain(Top) /\ Cells(Top) = {} /\ ~Saves(Top) /\ ~Executes(Top)
  BY <1>2, KindIdle
<1>4. ASSUME NEW loc, Locals(loc)
      PROVE  /\ Plain(At(1, loc)) /\ Cells(At(1, loc)) = Kept(p, loc) /\ Saves(At(1, loc))
  <2>1. At(1, loc).proc = p /\ At(1, loc).pc = 1 /\ At(1, loc).loc = loc
    BY <1>2, <1>4, AtIs
  <2> QED
    BY <2>1, KindLoop DEF Kept
<1>5. CASE ArgVal(2).op = "LIST_"
  <2> DEFINE loc == [Loc EXCEPT !.over = "LIST_"]
             v   == [k \in 1 .. 5 |-> IF k = 1 THEN ArgVal(2) ELSE List_(NULL)]
  <2>1. Locals(loc) /\ loc.over = "LIST_"
    BY <1>2 DEF Locals
  <2>2. dumps' = [k \in 1 .. 5 |-> IF k \notin OwnDumps(p) THEN dumps[k]
                                   ELSE <<v[k]>> \o dumps[k]]
    BY <1>1, <1>5
  <2>3. Goto(1, loc)
    BY <1>1, <1>5
  <2> HIDE DEF loc, v
  <2>4. /\ AllSeqs(dumps')
        /\ \A k \in OwnDumps(p) : dumps'[k] # <<>> /\ Tail(dumps'[k]) = dumps[k]
        /\ \A k \in 1 .. 5 \ OwnDumps(p) : dumps'[k] = dumps[k]
    BY <1>1, <1>2, <2>2, TopFacts, LoopBegins
  <2>5. Plain(At(1, loc)) /\ Cells(At(1, loc)) = OwnDumps(p) /\ Saves(At(1, loc))
    BY <1>4, <2>1 DEF Kept
  <2>6. Keeps(At(1, loc))
    BY <1>2, <1>3, <2>4, <2>5, KeepsRows
  <2> QED
    BY <1>1, <1>2, <1>3, <2>1, <2>3, <2>5, <2>6, Continues DEF Tally
<1>6. CASE ArgVal(2).op # "LIST_"
  <2> DEFINE loc == [Loc EXCEPT !.over = ArgVal(2).op, !.rest = Members(ArgVal(2))]
  <2>1. Locals(loc) /\ loc.over # "LIST_"
    BY <1>2, <1>6 DEF Locals
  <2>2. dumps' = dumps /\ Goto(1, loc)
    BY <1>1, <1>6
  <2> HIDE DEF loc
  <2>3. Plain(At(1, loc)) /\ Cells(At(1, loc)) = {} /\ Saves(At(1, loc))
    BY <1>4, <2>1 DEF Kept
  <2> QED
    BY <1>1, <1>2, <1>3, <2>1, <2>2, <2>3, KeepsSame, Continues DEF Tally
<1> QED
  BY <1>5, <1>6

(* A round of a loop is over. *)
LEMMA RoundEnds ==
  ASSUME Balance, NEW p \in Loops, In(p, 2), NEW loc, Locals(loc), loc.over = Loc.over,
         Goto(1, loc), dump' = dump, Alike(dumps, dumps', Kept(p, Loc)) \/ dumps' = dumps
  PROVE  Balance'
<1>1. /\ Occupied /\ ~Executes(Top) /\ Plain(Top) /\ Saves(Top) /\ Cells(Top) = Kept(p, Loc)
      /\ Plain(At(1, loc)) /\ Cells(At(1, loc)) = Kept(p, loc) /\ Saves(At(1, loc))
  BY LoopAt
<1>2. Cells(At(1, loc)) = Cells(Top)
  BY <1>1 DEF Kept
<1>3. Keeps(At(1, loc))
  <2>1. CASE dumps' = dumps
    BY <1>1, <1>2, <2>1, KeepsSame
  <2>2. CASE Alike(dumps, dumps', Kept(p, Loc))
    BY <1>1, <1>2, <2>2, KeepsAlike
  <2> QED
    BY <2>1, <2>2
<1> QED
  BY <1>1, <1>3, Continues DEF Tally

LEMMA CollectKeeps ==
  ASSUME Balance, NEW p \in {"map", "filter", "split"}, In(p, 2), NEW yes, yes \/ p = "split",
         NEW v, Collect(yes, v), dump' = dump
  PROVE  Balance'
<1> DEFINE k   == IF yes THEN 2 ELSE 4
           new == Len(heap) + 1
           d1  == Moved(dumps, k + 1, new)
           d2  == Moved(d1, 1, Next1(Dmp(1)))
           loc == [Loc EXCEPT !.rest = Tail(@)]
<1>1. /\ Occupied /\ Plain(Top) /\ Cells(Top) = Kept(p, Loc) /\ Locals(Loc) /\ p \in Loops
  BY LoopAt DEF Loops
<1>2. CASE OverList
  <2>1. Goto(1, Loc) /\ (dumps' = d2 \/ dumps' = Moved(d2, k, new))
    BY <1>2 DEF Collect
  <2>2. Kept(p, Loc) = OwnDumps(p) /\ {1, k, k + 1} \subseteq OwnDumps(p)
    BY <1>2 DEF Kept, OwnDumps, OverList
  <2> HIDE DEF k, new
  <2>3. Alike(dumps, d1, OwnDumps(p))
    BY <1>1, <2>2, AlikeSelf, MovedAlike
  <2> HIDE DEF d1
  <2>4. Alike(dumps, d2, OwnDumps(p))
    BY <2>2, <2>3, MovedAlike
  <2> HIDE DEF d2
  <2>5. Alike(dumps, dumps', OwnDumps(p))
    BY <2>1, <2>2, <2>4, MovedAlike
  <2> QED
    BY <1>1, <2>1, <2>2, <2>5, RoundEnds
<1>3. CASE ~OverList
  <2> DEFINE l == IF yes THEN [loc EXCEPT !.yes = Append(@, v.u)]
                         ELSE [loc EXCEPT !.no  = Append(@, v.u)]
  <2>1. dumps' = dumps /\ Goto(1, l)
    BY <1>3 DEF Collect
  <2>2. Locals(l) /\ l.over = Loc.over
    BY <1>1 DEF Locals
  <2> HIDE DEF l
  <2> QED
    BY <1>1, <2>1, <2>2, RoundEnds
<1> QED
  BY <1>2, <1>3

LEMMA SkipKeeps ==
  ASSUME Balance, NEW p \in Loops, In(p, 2), NEW n, Skip(n), dump' = dump
  PROVE  Balance'
<1>1. Occupied /\ Plain(Top) /\ Cells(Top) = Kept(p, Loc) /\ Locals(Loc)
  BY LoopAt
<1>2. CASE OverList
  <2>1. dumps' = Moved(dumps, 1, Next1(Dmp(1))) /\ Goto(1, [Loc EXCEPT !.n = n])
    BY <1>2 DEF Skip
  <2>2. Kept(p, Loc) = OwnDumps(p) /\ 1 \in OwnDumps(p)
    BY <1>2 DEF Kept, OwnDumps, OverList
  <2>3. Alike(dumps, dumps', OwnDumps(p))
    BY <1>1, <2>1, <2>2, AlikeSelf, MovedAlike
  <2>4. Locals([Loc EXCEPT !.n = n]) /\ [Loc EXCEPT !.n = n].over = Loc.over
    BY <1>1 DEF Locals
  <2> QED
    BY <2>1, <2>2, <2>3, <2>4, RoundEnds
<1>3. CASE ~OverList
  <2> DEFINE l == [Loc EXCEPT !.n = n, !.rest = Tail(@)]
  <2>1. dumps' = dumps /\ Goto(1, l)
    BY <1>3 DEF Skip
  <2>2. Locals(l) /\ l.over = Loc.over
    BY <1>1 DEF Locals
  <2> HIDE DEF l
  <2> QED
    BY <2>1, <2>2, RoundEnds
<1> QED
  BY <1>2, <1>3

LEMMA LoopsKeep ==
  ASSUME Balance, LoopTake \/ LoopMember \/ LoopEnd
  PROVE  Balance'
<1>1. CASE LoopTake
  <2>1. PICK p \in Loops : In(p, 1) /\ Exe(Quote(1), 2, Loc) /\ KeepDumps
    BY <1>1 DEF LoopTake
  <2>2. /\ Occupied /\ ~Executes(Top) /\ Plain(Top) /\ Saves(Top) /\ Cells(Top) = Kept(p, Loc)
        /\ Locals(Loc)
        /\ Plain(At(2, Loc)) /\ Cells(At(2, Loc)) = Kept(p, Loc) /\ Saves(At(2, Loc))
    BY <2>1, LoopAt
  <2> QED
    BY <2>1, <2>2, SilentRun
<1>2. CASE LoopMember
  <2>1. dump' = dump
    BY <1>2 DEF LoopMember
  <2>2. CASE In("map", 2) /\ Collect(TRUE, ArgVal(1))
    BY <2>1, <2>2, CollectKeeps
  <2>3. CASE In("filter", 2) /\ Collect(TRUE, Current)
    BY <2>1, <2>3, CollectKeeps
  <2>4. CASE In("split", 2) /\ Collect(Truth(ArgVal(1)), Current)
    BY <2>1, <2>4, CollectKeeps
  <2>5. CASE \E p \in Loops : In(p, 2) /\ \E n : Skip(n)
    BY <2>1, <2>5, SkipKeeps
  <2> QED
    BY <1>2, <2>2, <2>3, <2>4, <2>5 DEF LoopMember, Resume, Loops
<1>3. CASE LoopEnd
  <2>1. PICK p \in Loops : /\ In(p, 1) /\ Drop /\ Return
                           /\ dumps' = IF OverList THEN Popped(dumps, OwnDumps(p)) ELSE dumps
    BY <1>3 DEF LoopEnd
  <2>2. Occupied /\ ~Executes(Top) /\ Plain(Top) /\ Saves(Top) /\ Cells(Top) = Kept(p, Loc)
    BY <2>1, LoopAt
  <2>3. dumps' = Under(Top, dumps)
    BY <2>1, <2>2, LeavesPopped, LeavesSame DEF Kept, OverList
  <2> QED
    BY <2>1, <2>2, <2>3, Returns DEF Drop, Return, Steady
<1> QED
  BY <1>1, <1>2, <1>3

-----------------------------------------------------------------------------
(***************************************************************************)
(* unary2 .. unary4: after n rounds n - 1 results lie on dump1.            *)
(***************************************************************************)
LEMMA CutSeq ==
  ASSUME NEW s, IsSeq(s), NEW n \in 1 .. Len(s) + 1, NEW v
  PROVE  /\ SubSeq(s, 1, Len(s)) = s
         /\ Len(s) \in Nat /\ Len(<<v>> \o s) = Len(s) + 1
         /\ SubSeq(<<v>> \o s, n + 1, Len(<<v>> \o s)) = SubSeq(s, n, Len(s))
<1>1. PICK F : s \in Seq(F)
  BY DEF IsSeq
<1>2. s \in Seq(F \cup {v}) /\ <<v>> \in Seq(F \cup {v}) /\ Len(s) \in Nat
  BY <1>1
<1> DEFINE t == <<v>> \o s
<1>3. t \in Seq(F \cup {v}) /\ Len(t) = Len(s) + 1 /\ \A i \in 1 .. Len(s) : t[i + 1] = s[i]
  BY <1>2
<1>4. SubSeq(s, 1, Len(s)) = s
  BY <1>1
<1> HIDE DEF t
<1>5. SubSeq(t, n + 1, Len(t)) = SubSeq(s, n, Len(s))
  <2> DEFINE a == SubSeq(t, n + 1, Len(t))
             b == SubSeq(s, n, Len(s))
             G == F \cup {v}
             m == Len(s) - n + 1
  <2>1. m \in Nat /\ n \in Nat
    BY <1>2
  <2>2. a \in Seq(G) /\ Len(a) = m /\ \A i \in 1 .. m : a[i] = t[(n + 1) + i - 1]
    BY <1>2, <1>3, <2>1, SubSeqProperties
  <2>3. b \in Seq(G) /\ Len(b) = m /\ \A i \in 1 .. m : b[i] = s[n + i - 1]
    BY <1>2, <2>1, SubSeqProperties
  <2>4. \A i \in 1 .. m : t[(n + 1) + i - 1] = s[n + i - 1]
    <3>1. TAKE i \in 1 .. m
    <3> DEFINE j == n + i - 1
    <3>2. j \in 1 .. Len(s) /\ (n + 1) + i - 1 = j + 1
      BY <1>2, <2>1
    <3> HIDE DEF j
    <3>3. t[j + 1] = s[j]
      BY <1>3, <3>2
    <3> QED
      BY <3>2, <3>3 DEF j
  <2> HIDE DEF a, b, m, G
  <2>5. Len(a) = Len(b) /\ \A i \in 1 .. Len(a) : a[i] = b[i]
    BY <2>2, <2>3, <2>4
  <2>6. a = b
    BY <2>2, <2>3, <2>5, SeqEqual
  <2> QED
    BY <2>6 DEF a, b
<1> QED
  BY <1>2, <1>3, <1>4, <1>5 DEF t

LEMMA KindCounting ==
  ASSUME NEW f, f.proc \in DOMAIN UnaryN
  PROVE  /\ ~Swaps(f) /\ Cells(f) = {} /\ ~Executes(f) /\ (Saves(f) <=> f.pc > 0)
         /\ Counts(f) <=> f.pc = 1
         /\ UnaryN[f.proc] \in 2 .. 4
BY DEF Counts, Swaps, Cells, Saves, Executes, Loops, IfType, Nary, UnaryN

LEMMA UnaryNKeeps ==
  ASSUME Balance, UnaryN_
  PROVE  Balance'
<1>1. PICK p \in DOMAIN UnaryN :
        \/ /\ In(p, 0) /\ (\E m : Exe(m, 1, [Loc EXCEPT !.n = 1])) /\ Save /\ dumps' = dumps
        \/ /\ In(p, 1) /\ Loc.n < UnaryN[p] /\ (\E m : Exe(m, 1, [Loc EXCEPT !.n = @ + 1]))
           /\ (\E v : dumps' = Pushed(dumps, 1, v)) /\ dump' = dump
        \/ /\ In(p, 1) /\ Loc.n = UnaryN[p]
           /\ dumps' = [dumps EXCEPT ![1] = SubSeq(@, UnaryN[p], Len(@))] /\ Drop /\ Return
  BY DEF UnaryN_, Start, Resume
<1>2. CASE In(p, 0) /\ (\E m : Exe(m, 1, [Loc EXCEPT !.n = 1])) /\ Save /\ dumps' = dumps
  <2> DEFINE loc == [Loc EXCEPT !.n = 1]
             g   == At(1, loc)
  <2>1. Locals(loc) /\ loc.n = 1 /\ \E m : Exe(m, 1, loc)
    BY <1>2, Here DEF Locals
  <2> HIDE DEF loc
  <2>2. /\ Occupied /\ Top.proc = p /\ Top.pc = 0
        /\ g.proc = p /\ g.pc = 1 /\ g.loc = loc
    BY <1>2, <2>1, Here
  <2> HIDE DEF g
  <2>3. /\ ~Swaps(Top) /\ Cells(Top) = {} /\ ~Executes(Top) /\ ~Saves(Top) /\ ~Counts(Top)
        /\ ~Swaps(g) /\ Cells(g) = {} /\ Saves(g) /\ Counts(g) /\ UnaryN[p] \in 2 .. 4
    BY <2>2, KindCounting
  <2>4. AllSeqs(dumps) /\ IsSeq(dumps[1]) /\ dumps = [k \in 1 .. 5 |-> dumps[k]]
    BY <2>2, TopFacts DEF AllSeqs
  <2>5. Len(dumps[1]) \in Nat /\ SubSeq(dumps[1], 1, Len(dumps[1])) = dumps[1]
    <3>1. Len(dumps[1]) \in Nat
      BY <2>4, LengthZero
    <3>2. 1 \in 1 .. Len(dumps[1]) + 1
      BY <3>1
    <3> QED
      BY <2>4, <3>1, <3>2, CutSeq
  <2>6. Full(g, dumps)
    BY <2>1, <2>2, <2>3, <2>5 DEF Full
  <2>7. Under(g, dumps) = dumps /\ Under(Top, dumps) = dumps
    BY <2>1, <2>2, <2>3, <2>4, <2>5 DEF Under
  <2>8. Keeps(g) /\ Tally(g)
    BY <1>2, <2>3, <2>4, <2>6, <2>7 DEF Keeps, Tally
  <2> QED
    BY <2>1, <2>2, <2>3, <2>8, Continues DEF g
<1>3. CASE /\ In(p, 1) /\ Loc.n < UnaryN[p] /\ (\E m : Exe(m, 1, [Loc EXCEPT !.n = @ + 1]))
           /\ (\E v : dumps' = Pushed(dumps, 1, v)) /\ dump' = dump
  <2> DEFINE loc == [Loc EXCEPT !.n = @ + 1]
             g   == At(1, loc)
  <2>1. Locals(loc) /\ loc.n = Loc.n + 1 /\ \E m : Exe(m, 1, loc)
    BY <1>3, Here DEF Locals
  <2> HIDE DEF loc
  <2>2. /\ Occupied /\ Top.proc = p /\ Top.pc = 1
        /\ g.proc = p /\ g.pc = 1 /\ g.loc = loc
    BY <1>3, <2>1, Here
  <2> HIDE DEF g
  <2>3. /\ ~Swaps(Top) /\ Cells(Top) = {} /\ ~Executes(Top) /\ Saves(Top) /\ Counts(Top)
        /\ ~Swaps(g) /\ Cells(g) = {} /\ Saves(g) /\ Counts(g) /\ UnaryN[p] \in 2 .. 4
    BY <2>2, KindCounting
  <2>4. AllSeqs(dumps) /\ Full(Top, dumps) /\ IsSeq(dumps[1])
    BY <2>2, TopFacts DEF AllSeqs
  <2>5. Loc.n \in 1 .. UnaryN[p] /\ Len(dumps[1]) >= Loc.n - 1 /\ Len(dumps[1]) \in Nat
    BY <2>2, <2>3, <2>4, LengthZero DEF Full, Loc
  <2>6. PICK v : dumps' = Pushed(dumps, 1, v)
    BY <1>3
  <2>7. AllSeqs(dumps') /\ dumps'[1] = <<v>> \o dumps[1] /\ \A j \in 2 .. 5 : dumps'[j] = dumps[j]
    <3>1. AllSeqs(dumps') /\ \A j \in 1 .. 5 \ {1} : dumps'[j] = dumps[j]
      BY <2>4, <2>6, PushedIs
    <3>2. dumps = [k \in 1 .. 5 |-> dumps[k]]
      BY <2>4 DEF AllSeqs
    <3>3. dumps'[1] = <<v>> \o dumps[1]
      BY <2>6, <3>2 DEF Pushed
    <3> QED
      BY <3>1, <3>3
  <2>8. Loc.n \in 1 .. Len(dumps[1]) + 1
    BY <2>3, <2>5
  <2>9. /\ Len(dumps'[1]) = Len(dumps[1]) + 1
        /\ SubSeq(dumps'[1], Loc.n + 1, Len(dumps'[1])) = SubSeq(dumps[1], Loc.n, Len(dumps[1]))
    <3> DEFINE q == dumps[1]
               r == <<v>> \o q
    <3>1. IsSeq(q) /\ Loc.n \in 1 .. Len(q) + 1 /\ dumps'[1] = r
      BY <2>4, <2>7, <2>8
    <3>2. Len(r) = Len(q) + 1 /\ SubSeq(r, Loc.n + 1, Len(r)) = SubSeq(q, Loc.n, Len(q))
      <4> HIDE DEF q
      <4> QED
        BY <3>1, CutSeq
    <3> HIDE DEF q, r
    <3>3. /\ Len(dumps'[1]) = Len(q) + 1
          /\ SubSeq(dumps'[1], Loc.n + 1, Len(dumps'[1])) = SubSeq(q, Loc.n, Len(q))
      BY <3>1, <3>2
    <3> QED
      BY <3>3 DEF q
  <2>10. Full(g, dumps')
    BY <1>3, <2>1, <2>2, <2>3, <2>5, <2>9 DEF Full
  <2>11. Under(g, dumps') = Under(Top, dumps)
    <3> DEFINE a == SubSeq(dumps[1], Loc.n, Len(dumps[1]))
    <3>1. Under(Top, dumps) = [k \in 1 .. 5 |-> IF k = 1 THEN a ELSE dumps[k]]
      BY <2>3 DEF Under, Loc
    <3>2. SubSeq(dumps'[1], g.loc.n, Len(dumps'[1])) = a
      BY <2>1, <2>2, <2>9
    <3> HIDE DEF a
    <3>3. Under(g, dumps') = [k \in 1 .. 5 |-> IF k = 1 THEN a ELSE dumps'[k]]
      BY <2>3, <3>2 DEF Under
    <3> QED
      BY <2>7, <3>1, <3>3
  <2>12. Keeps(g) /\ Tally(g)
    BY <1>3, <2>3, <2>7, <2>10, <2>11 DEF Keeps, Tally
  <2> QED
    BY <2>1, <2>2, <2>3, <2>12, Continues DEF g
<1>4. CASE /\ In(p, 1) /\ Loc.n = UnaryN[p]
           /\ dumps' = [dumps EXCEPT ![1] = SubSeq(@, UnaryN[p], Len(@))] /\ Drop /\ Return
  <2>1. Occupied /\ Top.proc = p /\ Top.pc = 1
    BY <1>4, Here
  <2>2. /\ ~Swaps(Top) /\ Cells(Top) = {} /\ ~Executes(Top) /\ Saves(Top) /\ Counts(Top)
    BY <2>1, KindCounting
  <2>3. dumps = [k \in 1 .. 5 |-> dumps[k]]
    BY <2>1, TopFacts DEF AllSeqs
  <2>4. dumps' = [k \in 1 .. 5 |-> IF k = 1 THEN SubSeq(dumps[1], Loc.n, Len(dumps[1]))
                                   ELSE dumps[k]]
    BY <1>4, <2>3
  <2>5. dumps' = Under(Top, dumps)
    BY <2>2, <2>4 DEF Under, Loc
  <2> QED
    BY <1>4, <2>1, <2>2, <2>5, Returns DEF Drop, Return, Steady
<1> QED
  BY <1>1, <1>2, <1>3, <1>4

(***************************************************************************)
(* construct: the dump2 that was lies on dump1.                            *)
(***************************************************************************)
LEMMA KindConstruct ==
  ASSUME NEW f, f.proc = "construct"
  PROVE  /\ ~Counts(f) /\ ~Executes(f) /\ (Saves(f) <=> f.pc > 0)
         /\ Swaps(f) <=> f.pc \in 1 .. 3
         /\ Cells(f) = IF f.pc \in 2 .. 3 THEN {1, 3, 4} ELSE IF f.pc = 1 THEN {1} ELSE {}
BY DEF Counts, Swaps, Cells, Saves, Executes, Loops, IfType, Nary, UnaryN

LEMMA ConstructKeeps ==
  ASSUME Balance, Construct
  PROVE  Balance'
<1>1. CASE /\ In("construct", 0) /\ (\E n : Exe(n, 1, Loc)) /\ Save
           /\ (\E v : dumps' = [dumps EXCEPT ![1] = <<Item("LIST_", dumps[2])>> \o @,
                                            ![2] = <<v>>])
  <2>1. /\ Occupied /\ Locals(Loc) /\ ~Executes(Top) /\ ~Swaps(Top) /\ ~Counts(Top)
        /\ Cells(Top) = {} /\ ~Saves(Top)
        /\ Swaps(At(1, Loc)) /\ ~Counts(At(1, Loc)) /\ Cells(At(1, Loc)) = {1}
        /\ Saves(At(1, Loc))
    BY <1>1, Here, KindConstruct
  <2>2. AllSeqs(dumps) /\ IsSeq(dumps[1]) /\ dumps = [k \in 1 .. 5 |-> dumps[k]]
    BY <2>1, TopFacts DEF AllSeqs
  <2> DEFINE old == Item("LIST_", dumps[2])
  <2>3. old.u = dumps[2]
    BY DEF Item
  <2>4. PICK v : dumps' = [dumps EXCEPT ![1] = <<old>> \o @, ![2] = <<v>>]
    BY <1>1
  <2> HIDE DEF old
  <2>5. dumps' = [k \in 1 .. 5 |-> IF k = 1 THEN <<old>> \o dumps[1]
                                   ELSE IF k = 2 THEN <<v>> ELSE dumps[k]]
    <3> DEFINE a == <<old>> \o dumps[1]
               b == <<v>>
               e == [dumps EXCEPT ![1] = a]
    <3>1. dumps' = [e EXCEPT ![2] = b]
      BY <2>4
    <3> HIDE DEF a, b
    <3>2. e = [k \in 1 .. 5 |-> IF k = 1 THEN a ELSE dumps[k]]
      <4>1. DOMAIN dumps = 1 .. 5 /\ dumps = [k \in DOMAIN dumps |-> dumps[k]]
        BY <2>2
      <4>2. e = [k \in DOMAIN dumps |-> IF k = 1 THEN a ELSE dumps[k]]
        OBVIOUS
      <4> QED
        BY <4>1, <4>2
    <3> HIDE DEF e
    <3>3. dumps' = [k \in 1 .. 5 |-> IF k = 2 THEN b ELSE e[k]]
      <4>1. DOMAIN e = 1 .. 5
        BY <3>2
      <4>2. dumps' = [k \in DOMAIN e |-> IF k = 2 THEN b ELSE e[k]]
        BY <3>1
      <4> QED
        BY <4>1, <4>2
    <3>4. dumps' = [k \in 1 .. 5 |-> IF k = 1 THEN a ELSE IF k = 2 THEN b ELSE dumps[k]]
      BY <3>2, <3>3
    <3> QED
      BY <3>4 DEF a, b
  <2>6. /\ IsSeq(dumps'[1]) /\ dumps'[1] # <<>> /\ Tail(dumps'[1]) = dumps[1]
        /\ Head(dumps'[1]) = old
    <3> DEFINE w == <<old>> \o dumps[1]
    <3>1. dumps'[1] = w
      BY <2>5
    <3>2. IsSeq(w) /\ w # <<>> /\ Tail(w) = dumps[1] /\ Head(w) = old
      BY <2>2, PushSeq
    <3> QED
      BY <3>1, <3>2
  <2>7. AllSeqs(dumps')
    <3>1. IsSeq(<<v>>)
      <4>1. <<v>> \in Seq({v})
        OBVIOUS
      <4> QED
        BY <4>1 DEF IsSeq
    <3> QED
      BY <2>2, <2>5, <2>6, <3>1 DEF AllSeqs
  <2>8. Full(At(1, Loc), dumps')
    BY <2>1, <2>6 DEF Full
  <2>9. Under(At(1, Loc), dumps') = Under(Top, dumps)
    BY <2>1, <2>3, <2>5, <2>6 DEF Under
  <2>10. Keeps(At(1, Loc)) /\ Tally(At(1, Loc))
    BY <1>1, <2>1, <2>7, <2>8, <2>9 DEF Keeps, Tally
  <2> QED
    BY <1>1, <2>1, <2>10, Continues
<1>2. CASE /\ In("construct", 1) /\ Goto(2, Loc) /\ dump' = dump
           /\ \E v, w : dumps' = Pushed(Pushed(dumps, 3, v), 4, w)
  <2>1. /\ Occupied /\ Locals(Loc) /\ ~Executes(Top) /\ Swaps(Top) /\ ~Counts(Top)
        /\ Cells(Top) = {1} /\ Saves(Top)
        /\ Swaps(At(2, Loc)) /\ ~Counts(At(2, Loc)) /\ Cells(At(2, Loc)) = {1, 3, 4}
        /\ Saves(At(2, Loc))
    BY <1>2, Here, KindConstruct
  <2>2. AllSeqs(dumps) /\ Full(Top, dumps)
    BY <2>1, TopFacts
  <2>3. PICK v, w : dumps' = Pushed(Pushed(dumps, 3, v), 4, w)
    BY <1>2
  <2> DEFINE d == Pushed(dumps, 3, v)
  <2>4. /\ AllSeqs(d) /\ d[3] # <<>> /\ Tail(d[3]) = dumps[3]
        /\ \A j \in 1 .. 5 \ {3} : d[j] = dumps[j]
    BY <2>2, PushedIs
  <2> HIDE DEF d
  <2>5. /\ AllSeqs(dumps') /\ dumps'[4] # <<>> /\ Tail(dumps'[4]) = d[4]
        /\ \A j \in 1 .. 5 \ {4} : dumps'[j] = d[j]
    BY <2>3, <2>4, PushedIs DEF d
  <2>6. Full(At(2, Loc), dumps')
    BY <2>1, <2>2, <2>4, <2>5 DEF Full
  <2>7. Under(At(2, Loc), dumps') = Under(Top, dumps)
    BY <2>1, <2>4, <2>5 DEF Under
  <2>8. Keeps(At(2, Loc)) /\ Tally(At(2, Loc))
    BY <1>2, <2>1, <2>5, <2>6, <2>7 DEF Keeps, Tally
  <2> QED
    BY <1>2, <2>1, <2>8, Continues
<1>3. CASE In("construct", 2) /\ (\E n : Exe(n, 3, Loc)) /\ KeepDumps
  <2>1. /\ Occupied /\ Locals(Loc) /\ ~Executes(Top) /\ Swaps(Top) /\ ~Counts(Top)
        /\ Cells(Top) = {1, 3, 4} /\ Saves(Top)
        /\ Swaps(At(3, Loc)) /\ ~Counts(At(3, Loc)) /\ Cells(At(3, Loc)) = {1, 3, 4}
        /\ Saves(At(3, Loc))
    BY <1>3, Here, KindConstruct
  <2>2. AllSeqs(dumps) /\ Full(Top, dumps)
    BY <2>1, TopFacts
  <2>3. Full(At(3, Loc), dumps) /\ Under(At(3, Loc), dumps) = Under(Top, dumps)
    BY <2>1, <2>2 DEF Full, Under
  <2>4. Keeps(At(3, Loc)) /\ Tally(At(3, Loc))
    BY <1>3, <2>1, <2>2, <2>3 DEF Keeps, Tally, KeepDumps
  <2> QED
    BY <1>3, <2>1, <2>4, Continues
<1>4. CASE /\ In("construct", 3) /\ Goto(2, Loc) /\ dump' = dump
           /\ \E v, q : dumps' = Moved(Pushed(dumps, 2, v), 4, q)
  <2>1. /\ Occupied /\ Locals(Loc) /\ ~Executes(Top) /\ Swaps(Top) /\ ~Counts(Top)
        /\ Cells(Top) = {1, 3, 4} /\ Saves(Top)
        /\ Swaps(At(2, Loc)) /\ ~Counts(At(2, Loc)) /\ Cells(At(2, Loc)) = {1, 3, 4}
        /\ Saves(At(2, Loc))
    BY <1>4, Here, KindConstruct
  <2>2. AllSeqs(dumps) /\ Full(Top, dumps)
    BY <2>1, TopFacts
  <2>3. PICK v, q : dumps' = Moved(Pushed(dumps, 2, v), 4, q)
    BY <1>4
  <2> DEFINE d == Pushed(dumps, 2, v)
  <2>4. AllSeqs(d) /\ \A j \in 1 .. 5 \ {2} : d[j] = dumps[j]
    BY <2>2, PushedIs
  <2>5. d[4] # <<>>
    BY <2>1, <2>2, <2>4 DEF Full
  <2> HIDE DEF d
  <2>6. /\ AllSeqs(dumps') /\ dumps'[4] # <<>> /\ Tail(dumps'[4]) = Tail(d[4])
        /\ \A j \in 1 .. 5 \ {4} : dumps'[j] = d[j]
    BY <2>3, <2>4, <2>5, MovedIs DEF d
  <2>7. Full(At(2, Loc), dumps')
    BY <2>1, <2>2, <2>4, <2>6 DEF Full
  <2>8. Under(At(2, Loc), dumps') = Under(Top, dumps)
    BY <2>1, <2>4, <2>6 DEF Under
  <2>9. Keeps(At(2, Loc)) /\ Tally(At(2, Loc))
    BY <1>4, <2>1, <2>6, <2>7, <2>8 DEF Keeps, Tally
  <2> QED
    BY <1>4, <2>1, <2>9, Continues
<1>5. CASE /\ In("construct", 2) /\ Drop /\ Return
           /\ dumps' = [Popped(dumps, {1, 3, 4}) EXCEPT ![2] = Dmp(1)]
  <2>1. /\ Occupied /\ ~Executes(Top) /\ Swaps(Top) /\ ~Counts(Top)
        /\ Cells(Top) = {1, 3, 4} /\ Saves(Top)
    BY <1>5, Here, KindConstruct
  <2>2. AllSeqs(dumps) /\ Full(Top, dumps)
    BY <2>1, TopFacts
  <2>3. Popped(dumps, {1, 3, 4}) = [k \in 1 .. 5 |-> IF k \in {1, 3, 4} THEN Tail(dumps[k])
                                                    ELSE dumps[k]]
    <3> DEFINE ks == {1, 3, 4}
    <3>1. AllSeqs(dumps) /\ \A k \in ks : k \in 1 .. 5 /\ dumps[k] # <<>>
      BY <2>1, <2>2 DEF Full
    <3> HIDE DEF ks
    <3>2. Popped(dumps, ks) = [k \in 1 .. 5 |-> IF k \in ks THEN Tail(dumps[k]) ELSE dumps[k]]
      BY <3>1, PoppedIs
    <3> QED
      BY <3>2 DEF ks
  <2>4. dumps' = [k \in 1 .. 5 |-> IF k = 2 THEN Dmp(1)
                                   ELSE IF k \in {1, 3, 4} THEN Tail(dumps[k]) ELSE dumps[k]]
    BY <1>5, <2>3
  <2>5. dumps' = Under(Top, dumps)
    BY <2>1, <2>4 DEF Under, Dmp
  <2> QED
    BY <1>5, <2>1, <2>5, Returns DEF Drop, Return, Steady
<1> QED
  BY <1>1, <1>2, <1>3, <1>4, <1>5 DEF Construct, Start, Resume

LEMMA CombinatorKeeps ==
  ASSUME Balance, Combinator
  PROVE  Balance'
<1>1. CASE X_ \/ I_ \/ App1 \/ Branch \/ IfType_ \/ Dip \/ Nary_ \/ Infra
  BY <1>1, OneQuotationKeeps
<1>2. CASE Finish
  BY <1>2, FinishKeeps
<1>3. CASE App11 \/ App12 \/ Fold \/ Case_ \/ Treerec
  BY <1>3, IdleCombinatorKeeps
<1>4. CASE Times \/ Ifte \/ While \/ Primrec \/ Genrec
  BY <1>4, SaverCombinatorKeeps
<1>5. CASE Cleave \/ Tailrec \/ Cond \/ Treestep \/ Treegenrec
  BY <1>5, CleaveKeeps, TailrecKeeps, CondKeeps, TreestepKeeps, TreegenrecKeeps
<1>6. CASE Linrec \/ Binrec
  BY <1>6, RecursiveKeeps
<1>7. CASE ChooseClause \/ Condlinrec \/ Condnestrec
  BY <1>7, ClausesKeep
<1>8. CASE BeginLoop
  BY <1>8, BeginLoopKeeps
<1>9. CASE LoopTake \/ LoopMember \/ LoopEnd
  BY <1>9, LoopsKeep
<1>10. CASE UnaryN_
  BY <1>10, UnaryNKeeps
<1>11. CASE Construct
  BY <1>11, ConstructKeeps
<1> QED
  BY <1>1, <1>2, <1>3, <1>4, <1>5, <1>6, <1>7, <1>8, <1>9, <1>10, <1>11 DEF Combinator

-----------------------------------------------------------------------------
(***************************************************************************)
(* The main loop and exeterm.                                              *)
(***************************************************************************)
LEMMA KindExeterm ==
  ASSUME NEW f, f.proc = "exeterm"
  PROVE  Plain(f) /\ Cells(f) = {} /\ ~Saves(f) /\ Executes(f)
BY DEF Plain, Counts, Swaps, Cells, Saves, Executes, Loops, IfType, Nary, UnaryN

LEMMA SteppedIs ==
  ASSUME IsSeq(conts), conts # <<>>
  PROVE  IsSeq(Stepped) /\ Len(Stepped) = Len(conts)
<1>1. IsSeq(Tail(conts)) /\ Len(Tail(conts)) = Len(conts) - 1 /\ Len(conts) \in Nat
  BY TailSeq
<1> DEFINE t == Tail(conts)
           v == Next1(Stepper)
<1>2. IsSeq(<<v>> \o t) /\ Len(<<v>> \o t) = Len(t) + 1
  <2>1. IsSeq(t)
    BY <1>1
  <2> HIDE DEF t, v
  <2> QED
    BY <2>1, PushSeq
<1> QED
  BY <1>1, <1>2 DEF Stepped

(* exeterm is called on the list body, unless it is empty, on top of the   *)
(* calls fr and the lists cs.                                              *)
LEMMA Launches ==
  ASSUME NEW fr, NEW cs, NEW body, IsSeq(cs), IsSeq(dump), Stacked(fr, dumps), AllSeqs(dumps),
         Len(cs) = Execs(fr), Len(dump) = Holders(fr), KeepDumps, status' = "running",
         conts' = (IF body = NULL THEN <<>> ELSE <<body>>) \o cs,
         frames' = (IF body = NULL THEN <<>> ELSE <<Frame("exeterm")>>) \o fr
  PROVE  Balance'
<1>1. dumps' = dumps /\ dump' = dump /\ status' # "idle" /\ IsSeq(fr)
  BY DEF KeepDumps, Stacked
<1>2. CASE body = NULL
  <2>1. frames' = fr /\ conts' = cs
    BY <1>1, <1>2 DEF IsSeq
  <2> QED
    BY <1>1, <2>1 DEF Balance, Execs, Holders
<1>3. CASE body # NULL
  <2> DEFINE e == Frame("exeterm")
  <2>1. frames' = <<e>> \o fr /\ conts' = <<body>> \o cs
    BY <1>3
  <2>2. Fresh(e) /\ Executes(e)
    BY FrameIs
  <2> HIDE DEF e
  <2>3. Stacked(frames', dumps')
    BY <1>1, <2>1, <2>2, Enter DEF Fresh
  <2>4. Execs(frames') = Execs(fr) + 1 /\ Holders(frames') = Holders(fr)
    <3>1. Execs(<<e>> \o fr) = Execs(fr) + 1 /\ Holders(<<e>> \o fr) = Holders(fr) + 0
      BY <1>1, <2>2, CountsPush DEF Fresh, One
    <3>2. Holders(fr) \in Nat
      BY <1>1, CountsPush
    <3> QED
      BY <3>1, <3>2, <2>1
  <2>5. IsSeq(conts') /\ Len(conts') = Len(cs) + 1
    BY <2>1, PushSeq
  <2> QED
    BY <1>1, <2>3, <2>4, <2>5 DEF Balance, Execs, Holders
<1> QED
  BY <1>2, <1>3

LEMMA ExetermKeeps ==
  ASSUME Balance, ExeLiteral \/ ExeDefined \/ ExeOperator \/ ExeReturn
  PROVE  Balance'
<1>1. In("exeterm", 0)
  BY DEF ExeLiteral, ExeDefined, ExeOperator, ExeReturn, Stepping
<1>2. Occupied /\ Plain(Top) /\ Cells(Top) = {} /\ ~Saves(Top) /\ Executes(Top)
  BY <1>1, Here, KindExeterm
<1>3. /\ AllSeqs(dumps) /\ IsSeq(frames) /\ IsSeq(conts) /\ conts # <<>> /\ IsSeq(dump)
      /\ Stacked(Tail(frames), Under(Top, dumps)) /\ Stacked(frames, dumps)
      /\ Execs(frames) = Execs(Tail(frames)) + One(TRUE) /\ Execs(Tail(frames)) \in Nat
      /\ Holders(frames) = Holders(Tail(frames)) + One(FALSE) /\ Holders(Tail(frames)) \in Nat
      /\ Len(conts) = Execs(frames) /\ Len(dump) = Holders(frames) /\ status = "running"
  BY <1>2, TopFacts DEF Occupied, Balance, One
<1>4. IsSeq(Stepped) /\ Len(Stepped) = Len(conts)
  BY <1>3, SteppedIs
<1>5. CASE ExeLiteral
  BY <1>3, <1>4, <1>5 DEF ExeLiteral, KeepDumps, Steady, Balance, Execs, Holders
<1>6. CASE ExeReturn
  <2>1. dumps' = Under(Top, dumps)
    BY <1>2, <1>6, LeavesSame DEF ExeReturn, KeepDumps
  <2> QED
    BY <1>2, <1>6, <2>1, Returns DEF ExeReturn, KeepDumps, Steady
<1>7. CASE ExeOperator
  <2> DEFINE op == heap[Stepper].op
             f  == Frame(op)
  <2>1. /\ op # "exeterm" /\ conts' = Stepped /\ frames' = <<f>> \o frames
        /\ dump' = dump /\ dumps' = dumps /\ status' = status
    BY <1>7 DEF ExeOperator, KeepDumps, Steady
  <2> HIDE DEF op
  <2>2. Fresh(f) /\ ~Executes(f)
    BY <2>1, FrameIs
  <2> HIDE DEF f
  <2>3. Stacked(frames', dumps')
    BY <1>3, <2>1, <2>2, Enter DEF Fresh
  <2>4. Execs(frames') = Execs(frames) /\ Holders(frames') = Holders(frames)
    <3>1. Execs(<<f>> \o frames) = Execs(frames) + 0 /\ Holders(<<f>> \o frames) = Holders(frames) + 0
      BY <1>3, <2>2, CountsPush DEF Fresh, One
    <3>2. Execs(frames) \in Nat /\ Holders(frames) \in Nat
      BY <1>3, CountsPush
    <3> QED
      BY <3>1, <3>2, <2>1
  <2> QED
    BY <1>3, <1>4, <2>1, <2>3, <2>4 DEF Balance, Execs, Holders
<1>8. CASE ExeDefined
  <2> DEFINE body == symtab[Lis(Stepper)]
             last == Next1(Stepper) = NULL
             cs   == IF last THEN Tail(conts) ELSE Stepped
             fr   == IF last THEN Tail(frames) ELSE frames
  <2>1. /\ conts' = (IF body = NULL THEN <<>> ELSE <<body>>) \o cs
        /\ frames' = (IF body = NULL THEN <<>> ELSE <<Frame("exeterm")>>) \o fr
        /\ KeepDumps /\ status' = "running"
    BY <1>3, <1>8 DEF ExeDefined, Steady
  <2>2. /\ IsSeq(cs) /\ Stacked(fr, dumps) /\ Len(cs) = Execs(fr) /\ Len(dump) = Holders(fr)
    <3>1. CASE last
      <4>1. IsSeq(Tail(conts)) /\ Len(Tail(conts)) = Len(conts) - 1
        BY <1>3, TailSeq
      <4>2. Under(Top, dumps) = dumps
        BY <1>2, <1>3 DEF Plain, Under, AllSeqs
      <4> QED
        BY <1>3, <3>1, <4>1, <4>2 DEF One
    <3>2. CASE ~last
      BY <1>3, <1>4, <3>2
    <3> QED
      BY <3>1, <3>2
  <2> HIDE DEF body, last, cs, fr
  <2> QED
    BY <1>3, <2>1, <2>2, Launches
<1> QED
  BY <1>5, <1>6, <1>7, <1>8

LEMMA MainLoopKeeps ==
  ASSUME Balance, RunProgram \/ EndProgram \/ ExecError \/ Crash
  PROVE  Balance'
<1>1. AllSeqs(Cleared)
  BY NoItems DEF AllSeqs, Cleared
<1>2. CASE RunProgram
  <2>1. frames = <<>> /\ Stacked(<<>>, dumps) /\ dumps = Cleared
    BY <1>2, Emptied DEF RunProgram, Balance
  <2>2. /\ Len(conts) = 0 /\ IsSeq(conts) /\ Len(dump) = 0 /\ IsSeq(dump)
    BY <2>1, Emptied DEF Balance
  <2>3. conts = <<>>
    BY <2>2, LengthZero
  <2> DEFINE body == Head(todo)
  <2>4. /\ conts' = (IF body = NULL THEN <<>> ELSE <<body>>) \o <<>>
        /\ frames' = (IF body = NULL THEN <<>> ELSE <<Frame("exeterm")>>) \o <<>>
        /\ KeepDumps /\ status' = "running"
    BY <1>2 DEF RunProgram
  <2> HIDE DEF body
  <2> QED
    BY <1>1, <2>1, <2>2, <2>3, <2>4, Emptied, NoItems, Launches
<1>3. CASE EndProgram
  BY <1>3 DEF EndProgram, KeepDumps, Balance, Execs, Holders
<1>4. CASE ExecError
  <2>1. frames' = <<>> /\ conts' = <<>> /\ dump' = <<>> /\ dumps' = Cleared
    BY <1>4 DEF ExecError, Abort, Cleared
  <2>2. Stacked(frames', dumps')
    BY <2>1, Emptied
  <2>3. Execs(frames') = 0 /\ Holders(frames') = 0
    BY <2>1, Emptied
  <2> QED
    BY <2>1, <2>2, <2>3, NoItems DEF Balance, Execs, Holders
<1>5. CASE Crash
  <2>1. status' # "idle"
    BY <1>5 DEF Crash
  <2> QED
    BY <1>5, <2>1 DEF Crash, KeepDumps, Balance, Execs, Holders
<1> QED
  BY <1>2, <1>3, <1>4, <1>5

-----------------------------------------------------------------------------
LEMMA InitBalances == Init => Balance
<1> SUFFICES ASSUME Init PROVE Balance
  OBVIOUS
<1>1. conts = <<>> /\ dump = <<>> /\ dumps = Cleared /\ frames = <<>>
  BY DEF Init, Cleared
<1>2. Stacked(<<>>, dumps) /\ Execs(<<>>) = 0 /\ Holders(<<>>) = 0
  BY <1>1, Emptied
<1> QED
  BY <1>1, <1>2, NoItems DEF Balance

LEMMA NextBalances == Balance /\ [Next]_vars => Balance'
<1> SUFFICES ASSUME Balance, [Next]_vars PROVE Balance'
  OBVIOUS
<1>1. CASE UNCHANGED vars
  BY <1>1 DEF vars, Balance, Execs, Holders
<1>2. CASE RunProgram \/ EndProgram \/ ExecError \/ Crash
  BY <1>2, MainLoopKeeps
<1>3. CASE ExeLiteral \/ ExeDefined \/ ExeOperator \/ ExeReturn
  BY <1>3, ExetermKeeps
<1>4. CASE Primitive
  BY <1>4, PrimitiveKeeps
<1>5. CASE Combinator
  BY <1>5, CombinatorKeeps
<1> QED
  BY <1>1, <1>2, <1>3, <1>4, <1>5 DEF Next

LEMMA BalanceSuffices == Balance => DumpsBalanced
<1> SUFFICES ASSUME Balance PROVE DumpsBalanced
  OBVIOUS
<1>1. Len(conts) = Active(Executes) /\ Len(dump) = Active(Saves)
  BY DEF Balance, Execs, Holders, Active
<1>2. frames = <<>> => dumps = [k \in 1 .. 5 |-> <<>>]
  BY Emptied DEF Balance, Cleared
<1> QED
  BY <1>1, <1>2 DEF DumpsBalanced

(* Whatever the programs do, each active exeterm has one entry on conts    *)
(* and each active combinator one on dump, and every dump is empty when no *)
(* call is active.                                                         *)
THEOREM DumpsAreBalanced == Spec => []DumpsBalanced
<1>1. Init => Balance
  BY InitBalances
<1>2. Balance /\ [Next]_vars => Balance'
  BY NextBalances
<1>3. Balance => DumpsBalanced
  BY BalanceSuffices
<1> QED
  BY <1>1, <1>2, <1>3, PTL DEF Spec
=============================================================================
