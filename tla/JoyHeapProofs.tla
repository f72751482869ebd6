---------------------------- MODULE JoyHeapProofs ----------------------------
(***************************************************************************)
(* The theorems about JoyHeap and JoyCollect, where no collection falls on *)
(* one of the sites in UnsafeSites and while does not store into a cell of *)
(* a definition or into one that its stack leads to: the type invariant,   *)
(* that no pointer leads to a cell that was never written or has moved,    *)
(* that the cells of the definitions lead to one another only, that no     *)
(* list leads back to itself, although app11, concat and while change      *)
(* cells in place; that a collection keeps everything that can be read     *)
(* from the registers, moves each live cell once and nothing else, and     *)
(* finds a half full only when the live cells fill it.                     *)
(*                                                                         *)
(* JoyHeapKinds has the invariants of the heap between the collections and *)
(* during one.  For the changes in place there is another one here: the    *)
(* frames of conts and of the dumps are apart from the cells of lists, so  *)
(* that no operator can change a frame.                                    *)
(***************************************************************************)
EXTENDS JoyHeapKinds, JoyCollect, FiniteSetTheorems, FunctionTheorems

-----------------------------------------------------------------------------
(* The invariant: where the definitions lie, the heap between collections,  *)
(* a collection in progress.                                               *)
Definitions == \A n \in Names : body[n] \in Refs(mem_low, IF defining THEN Given ELSE {})
Sides ==
  /\ Wellread(reading) /\ Definitions
  /\ defining => direction = 1 /\ pc = "run" /\ reading # <<"run">>
  /\ pc \in {"run", "roots"} => calls = <<>>
Calm ==
  /\ \E K, L : /\ Shape(memory, root, K, L, mem_low, Given, reading)
               /\ Ordered(memory, root, K, L, mem_low, Given, reading)
               /\ {bucket, current} \subseteq Refs(mem_low, Seen(K, Given))
               /\ defining => Empty(root, K, Given)
  /\ Pending(memory, root, mem_low, Given, reading, bucket, current)
  /\ bucket # NULL \/ current # NULL => ~defining
Gathering ==
  /\ current = NULL /\ call.place # "member"
  /\ bucket # NULL => call.place = "stk"
  /\ \E M0, R0, C0, F, K, L, orig : Collecting(M0, R0, C0, F, K, L, orig)
HeapInv ==
  /\ TypeOK /\ Bounded
  /\ pc # "full" => Sides
  /\ pc = "run" => Calm
  /\ pc \in {"roots", "call", "return"} => Gathering

(* The cells of the definitions stay as they are. *)
Kept == \A a \in 0 .. mem_low - 1 : memory'[a] = memory[a]
(* They stay as they are in h, which the caller of newnode has changed,     *)
(* unless there was no room for the new cell.                              *)
KeptFrom(h) == pc' # "full" => \A a \in 0 .. mem_low - 1 : memory'[a] = h[a]

(* What a call of newnode starts from. *)
Fit(h, c, K, L) ==
  /\ h \in [Addr -> Cell] /\ Lists(h, Addr)
  /\ Shape(h, root, K, L, mem_low, Given, reading)
  /\ Ordered(h, root, K, L, mem_low, Given, reading)
  /\ Args(h, root, K, L, mem_low, Given, reading, c) /\ Clear(K, L, mem_low, Given, reading, c)
  /\ current \in Refs(mem_low, Seen(K, Given))
  /\ h = memory \/ c.place \in {"literal", "stk"}
  /\ bucket # NULL => c.place = "stk"
  /\ current # NULL <=> c.place = "member"
  /\ c.place = "member" => Even(root) /\ memoryindex # mem_mid
  /\ defining => c.place \in ReaderPlaces /\ Empty(root, K, Given)

LEMMA FullKeeps ==
  ASSUME HeapInv, pc' = "full", UNCHANGED <<mem, program, call, slots, calls, reg>>
  PROVE  HeapInv' /\ Kept
<1>1. UNCHANGED <<memory, memoryindex, mem_low, mem_mid, direction, root, body, reading,
                  defining, current, bucket, slots, calls, reg>>
  BY DEF mem, program
<1>2. TypeOK' /\ Bounded'
  BY <1>1 DEF HeapInv, TypeOK, Filling, Bounded
<1> QED
  BY <1>1, <1>2 DEF HeapInv, Kept

(* The heap after newnode has delivered. *)
LEMMA StoredKeeps ==
  ASSUME TypeOK, Bounded', Sides, NEW h, NEW s, NEW c, NEW K, s \in Addr,
         h \in [Addr -> Cell], Lists(h, Addr), mem_low \in Addr,
         K \in [Addr -> Kind],
         Stored(h, mem_low, Given, s, c, K), Given' = With(Given, s), mem_low' = mem_low,
         direction' = direction, body' = body, defining' = defining,
         pc' = "run", calls' = <<>>, slots' = slots, reg' = reg,
         defining => c.place \in ReaderPlaces /\ Empty(root, K, Given) /\ reading' # <<"run">>
  PROVE  HeapInv'
<1> DEFINE G == With(Given, s)
<1>1. /\ memory' \in [Addr -> Cell] /\ root' \in [Roots -> Ptr] /\ Wellread(reading')
      /\ \A x \in Addr \ G : memory'[x] = h[x]
      /\ \E K2, L2 : /\ Shape(memory', root', K2, L2, mem_low, G, reading')
                     /\ Ordered(memory', root', K2, L2, mem_low, G, reading')
                     /\ {bucket', current'} \subseteq Refs(mem_low, Seen(K2, G))
                     /\ c.place \in ReaderPlaces => Tame(As(K, s, "plain"), K2)
      /\ c.place \in ReaderPlaces => Same(root, root', {"stk", "dump"})
      /\ Pending(memory', root', mem_low, G, reading', bucket', current')
      /\ bucket' # NULL \/ current' # NULL => c.place \in {"bucket", "primrec", "member"}
  BY DEF Stored
<1>2. /\ G = Given \cup {s} /\ G = Given' /\ Given \subseteq Addr
      /\ Above(mem_low, G) /\ Refs(mem_low, G) \subseteq Ptr
  <2>1. G = Given \cup {s} /\ G = Given' /\ Given \subseteq Addr
    BY DEF With, Given
  <2>2. Above(mem_low, G)
    BY <2>1, GivenAbove DEF Above, Given
  <2> QED
    BY <2>1, <2>2, RefTypes
<1> HIDE DEF G
<1>3. PICK K2, L2 : /\ Shape(memory', root', K2, L2, mem_low, G, reading')
                    /\ Ordered(memory', root', K2, L2, mem_low, G, reading')
                    /\ {bucket', current'} \subseteq Refs(mem_low, Seen(K2, G))
                    /\ c.place \in ReaderPlaces => Tame(As(K, s, "plain"), K2)
  BY <1>1
<1>4. Lists(memory', Addr \ Open(calls'))
  <2>1. ASSUME NEW a \in Addr, memory'[a].op \in {"LIST_", "COPIED_"} PROVE memory'[a].u \in Ptr
    <3>1. CASE a \in G
      <4>1. Sound(memory'[a], Refs(mem_low, G))
        BY <1>3, <3>1 DEF Shape, Closure
      <4> QED
        BY <1>2, <2>1, <4>1 DEF Sound
    <3>2. CASE a \notin G
      BY <1>1, <2>1, <3>2 DEF Lists
    <3> QED
      BY <3>1, <3>2
  <2> QED
    BY <2>1 DEF Lists
<1>5. reading' \in Seq(Phased)
  <2>1. Seq(Phases) \subseteq Seq(Phased) /\ <<"run">> \in Seq(Phased)
    BY DEF Phases, Phased
  <2> QED
    BY <1>1, <2>1 DEF Wellread
<1>6. TypeOK'
  <2>1. current' \in Ptr /\ bucket' \in Ptr
    BY <1>1, <1>2 DEF Pending
  <2>2. /\ body' \in [Names -> Ptr] /\ defining' \in BOOLEAN /\ pc' \in Stages /\ calls' \in Seq(CFrame)
        /\ slots' \in Seq(Roots \cup {"u", "r"}) /\ reg' \in Ptr
    BY DEF TypeOK, Stages
  <2> QED
    BY <1>1, <1>4, <1>5, <2>1, <2>2, TypesKept
<1>7. Sides'
  <2>1. Definitions'
    <3> SUFFICES ASSUME NEW n \in Names
                 PROVE  body[n] \in Refs(mem_low, IF defining THEN G ELSE {})
      BY <1>2 DEF Definitions
    <3>1. body[n] \in Refs(mem_low, IF defining THEN Given ELSE {})
      BY DEF Sides, Definitions
    <3>2. Refs(mem_low, Given) \subseteq Refs(mem_low, G)
      BY <1>2 DEF Refs
    <3> QED
      BY <3>1, <3>2
  <2>2. defining' => direction' = 1 /\ pc' = "run" /\ reading' # <<"run">>
    BY DEF Sides
  <2> QED
    BY <1>1, <2>1, <2>2 DEF Sides
<1>8. Calm'
  <2>1. ASSUME defining PROVE Empty(root', K2, G)
    <3>1. Tame(As(K, s, "plain"), K2) /\ Same(root, root', {"stk", "dump"}) /\ Empty(root, K, Given)
      BY <1>1, <1>3, <2>1
    <3>2. \A a \in G : K2[a] # "dump"
      <4> SUFFICES ASSUME NEW a \in G, K2[a] = "dump" PROVE FALSE
        OBVIOUS
      <4>1. a \in Addr /\ (a \in Given \/ a = s)
        BY <1>2
      <4>2. As(K, s, "plain")[a] = "dump"
        BY <3>1, <4>1 DEF Tame
      <4>3. CASE a = s
        BY <4>2, <4>3 DEF As
      <4>4. CASE a # s
        <5>1. K[a] = "dump"
          BY <4>2, <4>4 DEF As
        <5> QED
          BY <3>1, <4>1, <4>4, <5>1 DEF Empty
      <4> QED
        BY <4>3, <4>4
    <3> QED
      BY <3>1, <3>2 DEF Empty, Same, Roots
  <2>2. bucket' # NULL \/ current' # NULL => ~defining
    BY <1>1 DEF ReaderPlaces
  <2> QED
    BY <1>1, <1>2, <1>3, <2>1, <2>2 DEF Calm
<1> QED
  BY <1>6, <1>7, <1>8 DEF HeapInv

(* The reader's own calls leave it reading. *)
LEMMA DeliverReads ==
  ASSUME reading \in Seq(Phases), NEW h, NEW s, NEW c, Deliver(h, s, c), c.place \in ReaderPlaces,
         c.place \in {"factor", "end"} => Len(reading) # 0
  PROVE  reading' # <<"run">>
<1>1. PICK n, rd : n = Len(reading) /\ rd = reading'
  OBVIOUS
<1>2. n \in Nat /\ reading # <<"run">>
  BY <1>1, DepthIsLen
<1>3. Len(<<"run">>) = 1 /\ <<"run">>[1] = "run"
  OBVIOUS
<1>4. ASSUME NEW q \in Seq(Phases), NEW x \in Phases, rd = Append(q, x) PROVE rd # <<"run">>
  <2>1. Len(rd) \in Nat /\ rd[Len(rd)] = x
    BY <1>4
  <2> QED
    BY <1>3, <2>1 DEF Phases
<1>5. CASE c.place = "header"
  BY <1>1, <1>4, <1>5 DEF Deliver, Phases
<1>6. CASE c.place = "factor"
  <2>1. CASE rd = reading
    BY <1>1, <1>2, <2>1
  <2>2. CASE rd = [reading EXCEPT ![n] = "end"]
    <3>1. n \in DOMAIN reading /\ DOMAIN reading = 1 .. n
      BY <1>1, <1>2, <1>6
    <3>2. rd[n] = "end" /\ DOMAIN rd = 1 .. n
      BY <2>2, <3>1
    <3>3. ASSUME rd = <<"run">> PROVE FALSE
      <4>1. DOMAIN <<"run">> = 1 .. 1
        OBVIOUS
      <4>2. n = 1
        BY <1>2, <3>1, <3>2, <3>3, <4>1
      <4> QED
        BY <1>3, <3>2, <3>3, <4>2
    <3> QED
      BY <1>1, <3>3
  <2>3. Link(h, s, reading)
    BY <1>6 DEF Deliver
  <2> QED
    BY <1>1, <2>1, <2>2, <2>3 DEF Link
<1>7. CASE c.place = "end"
  <2>1. rd = Append(Outer, "more") /\ n # 0
    BY <1>1, <1>7 DEF Deliver
  <2>2. PICK m : m = n - 1
    OBVIOUS
  <2>3. m \in Nat /\ Outer = SubSeq(reading, 1, m) /\ \A i \in 1 .. m : i \in 1 .. Len(reading)
    BY <1>1, <1>2, <2>1, <2>2 DEF Outer
  <2>4. \A i \in 1 .. m : reading[i] \in Phases
    BY <2>3
  <2>5. Outer \in Seq(Phases)
    BY <2>3, <2>4, SubSeqProperties
  <2> QED
    BY <1>1, <1>4, <2>1, <2>5 DEF Phases
<1> QED
  BY <1>5, <1>6, <1>7 DEF ReaderPlaces

(* newnode, wherever it is called. *)
LEMMA NewNodeKeeps ==
  ASSUME Safe, HeapInv, pc = "run", NEW h, NEW o, NEW u, NEW r, NEW place, NEW K, NEW L, NEW c,
         c = [op |-> o, u |-> u, next |-> r, place |-> place, at |-> Target(place)],
         Fit(h, c, K, L), NewNode(h, o, u, r, place), Still
  PROVE  HeapInv' /\ KeptFrom(h)
<1>1. /\ TypeOK /\ Bounded /\ Sides /\ Calm /\ mem_low \in Addr
      /\ UNCHANGED <<body, defining>>
  BY DEF HeapInv, Bounded, Still
<1>2. /\ \/ ~NoRoom /\ Allocate(h, c) /\ UNCHANGED gc
         \/ /\ memoryindex = mem_mid /\ ~defining /\ Gc1(c, Own(o))
            /\ memory' = h /\ UNCHANGED <<root, reading, current, bucket>>
         \/ pc' = "full" /\ UNCHANGED <<mem, root, reading, current, bucket, call, slots, calls, reg>>
      /\ c.op = o /\ c.place = place /\ Form(c)
  BY DEF NewNode, Own, Form
<1>3. /\ h \in [Addr -> Cell] /\ Lists(h, Addr)
      /\ Shape(h, root, K, L, mem_low, Given, reading)
      /\ Ordered(h, root, K, L, mem_low, Given, reading)
      /\ Args(h, root, K, L, mem_low, Given, reading, c) /\ Clear(K, L, mem_low, Given, reading, c)
      /\ current \in Refs(mem_low, Seen(K, Given))
      /\ h = memory \/ c.place \in {"literal", "stk"}
      /\ bucket # NULL => c.place = "stk"
      /\ current # NULL <=> c.place = "member"
      /\ c.place = "member" => Even(root) /\ memoryindex # mem_mid
      /\ defining => c.place \in ReaderPlaces /\ Empty(root, K, Given)
  BY DEF Fit
<1>4. CASE ~NoRoom /\ Allocate(h, c) /\ UNCHANGED gc
  <2>1. PICK s : s = memoryindex
    OBVIOUS
  <2>2. /\ Deliver(Filled(h, s, c), s, c) /\ memoryindex' = memoryindex + direction
        /\ UNCHANGED <<mem_low, mem_mid, direction>> /\ UNCHANGED <<pc, call, slots, calls, reg>>
    BY <1>4, <2>1 DEF Allocate, Filled, gc
  <2>3. /\ Bounded' /\ Given' = With(Given, s)
        /\ s \in Addr /\ s >= mem_low /\ s \notin Given /\ Above(mem_low, Given)
    BY <1>1, <1>4, <2>1, <2>2, Allot, GivenAbove
  <2>4. Ready(h, mem_low, Given, s, c, K, L)
    <3>1. root \in [Roots -> Ptr] /\ Wellread(reading)
      BY <1>1 DEF TypeOK, Sides
    <3> QED
      BY <1>3, <2>3, <3>1 DEF Ready
  <2>5. Stored(h, mem_low, Given, s, c, K)
    BY <1>1, <2>2, <2>4, Delivered
  <2>6. ASSUME defining PROVE reading' # <<"run">>
    <3>1. reading \in Seq(Phases) /\ c.place \in ReaderPlaces
      BY <1>1, <1>3, <2>6 DEF Sides, Wellread
    <3>2. c.place \in {"factor", "end"} => Len(reading) # 0
      BY <1>3, <3>1, DepthIsLen DEF Args
    <3> QED
      BY <2>2, <3>1, <3>2, DeliverReads
  <2>7. HeapInv'
    <3>1. /\ pc' = "run" /\ calls' = <<>> /\ slots' = slots /\ reg' = reg /\ mem_low' = mem_low
          /\ direction' = direction /\ body' = body /\ defining' = defining
      BY <1>1, <2>2 DEF Sides
    <3>2. K \in [Addr -> Kind]
      BY <1>3 DEF Shape
    <3> QED
      BY <1>1, <1>3, <2>3, <2>5, <2>6, <3>1, <3>2, StoredKeeps
  <2>8. KeptFrom(h)
    <3> SUFFICES ASSUME NEW a \in 0 .. mem_low - 1 PROVE memory'[a] = h[a]
      BY DEF KeptFrom
    <3>1. a \in Addr /\ a \notin With(Given, s)
      BY <1>1, <2>3, Below DEF With, Above, Addr
    <3> QED
      BY <1>3, <2>5, <3>1 DEF Stored
  <2> QED
    BY <2>7, <2>8
<1>5. CASE /\ memoryindex = mem_mid /\ ~defining /\ Gc1(c, Own(o))
           /\ memory' = h /\ UNCHANGED <<root, reading, current, bucket>>
  <2>1. PICK M0, R0, C0, F, args : M0 = h /\ R0 = root /\ C0 = c /\ F = Given /\ args = Own(o)
    OBVIOUS
  <2>2. c # NoCall /\ c.place # "member" /\ current = NULL
    BY <1>3, <1>5 DEF Args, Places, NoCall
  <2>3. /\ pc' = "roots" /\ call' = c /\ calls' = calls /\ calls = <<>> /\ reg' = reg
        /\ mem_low' = mem_low /\ Given = F
        /\ slots' = CopyOrder \o args
    BY <1>1, <1>5, <2>1 DEF Gc1, Sides
  <2>4. \E orig : Collecting(M0, R0, C0, F, K, L, orig)' /\ Bounded'
    <3>1. root \in [Roots -> Ptr]
      BY <1>1 DEF TypeOK
    <3> QED
      BY <1>1, <1>2, <1>3, <1>5, <2>1, <2>2, <2>3, <3>1, Started
  <2>5. Gathering'
    BY <1>3, <1>5, <2>2, <2>3, <2>4 DEF Gathering
  <2>6. Sides'
    BY <1>1, <1>5, <2>3 DEF Sides, Definitions
  <2>7. TypeOK'
    <3>1. Lists(memory', Addr \ Open(calls'))
      BY <1>3, <1>5 DEF Lists
    <3>2. slots' \in Seq(Roots \cup {"u", "r"})
      <4>1. args \in {<<>>, <<"r">>, <<"u", "r">>}
        BY <2>1 DEF Own
      <4> QED
        BY <2>3, <4>1, SlotsStart
    <3>3. /\ root' \in [Roots -> Ptr] /\ body' \in [Names -> Ptr] /\ current' \in Ptr /\ bucket' \in Ptr
          /\ reading' \in Seq(Phased) /\ defining' \in BOOLEAN /\ pc' \in Stages /\ reg' \in Ptr
          /\ calls' \in Seq(CFrame) /\ memory' \in [Addr -> Cell]
      BY <1>1, <1>3, <1>5, <2>3 DEF TypeOK, Phased, Stages
    <3> QED
      BY <2>4, <3>1, <3>2, <3>3, TypesKept
  <2>8. KeptFrom(h)
    BY <1>5 DEF KeptFrom
  <2> QED
    BY <2>3, <2>4, <2>5, <2>6, <2>7, <2>8 DEF HeapInv
<1>6. CASE pc' = "full" /\ UNCHANGED <<mem, root, reading, current, bucket, call, slots, calls, reg>>
  <2>1. UNCHANGED <<mem, program, call, slots, calls, reg>>
    BY <1>1, <1>6 DEF program
  <2>2. HeapInv'
    BY <1>6, <2>1, FullKeeps
  <2> QED
    BY <1>6, <2>2 DEF KeptFrom
<1> QED
  BY <1>2, <1>4, <1>5, <1>6

-----------------------------------------------------------------------------
(* The steps of a collection.                                              *)
LEMMA GatherKeeps ==
  ASSUME HeapInv, pc \in {"roots", "call", "return"}, pc' \in {"roots", "call", "return"},
         UNCHANGED <<mem_low, body, reading, defining, current, bucket>>,
         call'.place = call.place, pc' = "roots" => calls' = <<>>, TypeOK', Bounded',
         NEW M0, NEW R0, NEW C0, NEW F, NEW K, NEW L, NEW orig, NEW orig2,
         Collecting(M0, R0, C0, F, K, L, orig), Collecting(M0, R0, C0, F, K, L, orig2)'
  PROVE  HeapInv' /\ Kept
<1>1. Sides /\ Gathering /\ ~defining
  BY DEF HeapInv, Sides
<1>2. Sides'
  BY <1>1 DEF Sides, Definitions
<1>3. Gathering'
  BY <1>1 DEF Gathering
<1>4. Kept
  <2>1. \A a \in 0 .. mem_low - 1 : memory[a] = M0[a]
    BY DEF Collecting, Progress
  <2>2. \A a \in 0 .. mem_low - 1 : memory'[a] = M0[a]
    BY DEF Collecting, Progress
  <2> QED
    BY <2>1, <2>2 DEF Kept
<1> QED
  BY <1>2, <1>3, <1>4 DEF HeapInv

LEMMA TypedSame ==
  ASSUME TypeOK, Bounded, UNCHANGED <<mem, body, reading, defining, current, bucket, calls>>,
         root' \in [Roots -> Ptr], pc' \in Stages, slots' \in Seq(Roots \cup {"u", "r"}), reg' \in Ptr
  PROVE  TypeOK' /\ Bounded'
BY DEF TypeOK, Bounded, mem, Filling, Stages

LEMMA GcDoneKeeps == ASSUME Safe, HeapInv, GcDone PROVE HeapInv' /\ Kept
<1>1. /\ pc = "roots" /\ slots = <<>> /\ calls = <<>> /\ TypeOK /\ Bounded /\ Sides /\ Gathering
      /\ ~defining /\ current = NULL /\ mem_low \in Addr
  BY DEF GcDone, HeapInv, Sides, Gathering, Bounded
<1>2. PICK M0, R0, C0, F, K0, L0, orig : Collecting(M0, R0, C0, F, K0, L0, orig)
  BY <1>1 DEF Gathering
<1>3. PICK K, L :
        /\ Shape(memory, root, K, L, mem_low, Given, reading)
        /\ Ordered(memory, root, K, L, mem_low, Given, reading)
        /\ call # NoCall => /\ Args(memory, root, K, L, mem_low, Given, reading, call)
                            /\ Clear(K, L, mem_low, Given, reading, call)
  BY <1>1, <1>2, Finished
<1>4. CASE call = NoCall
  <2>1. pc' = "run" /\ UNCHANGED <<mem, program, call, slots, calls, reg>>
    BY <1>4 DEF GcDone
  <2>2. UNCHANGED <<memory, memoryindex, mem_low, mem_mid, direction, root, body, reading,
                    defining, current, bucket, slots, calls, reg>>
    BY <2>1 DEF mem, program
  <2>3. TypeOK' /\ Bounded' /\ Given' = Given
    BY <1>1, <2>1, <2>2 DEF TypeOK, Bounded, Filling, Given
  <2>4. Sides'
    BY <1>1, <2>1, <2>2 DEF Sides, Definitions
  <2>5. Calm'
    <3>1. bucket = NULL
      BY <1>1, <1>4 DEF Gathering, NoCall
    <3>2. Pending(memory, root, mem_low, Given, reading, bucket, current)
      BY <1>1, <3>1, NothingPending
    <3>3. {bucket, current} \subseteq Refs(mem_low, Seen(K, Given))
      BY <1>1, <3>1, RefFacts
    <3> QED
      BY <1>1, <1>3, <2>2, <2>3, <3>2, <3>3 DEF Calm
  <2> QED
    BY <2>1, <2>2, <2>3, <2>4, <2>5 DEF HeapInv, Kept
<1>5. CASE call # NoCall /\ NoRoom
  <2>1. pc' = "full" /\ UNCHANGED <<mem, program, call, slots, calls, reg>>
    BY <1>5 DEF GcDone, Exhausted
  <2> QED
    BY <2>1, FullKeeps
<1>6. CASE call # NoCall /\ ~NoRoom
  <2>1. PICK s, c : s = memoryindex /\ c = call
    OBVIOUS
  <2>2. /\ Deliver(Filled(memory, s, c), s, c) /\ memoryindex' = memoryindex + direction
        /\ UNCHANGED <<mem_low, mem_mid, direction>>
        /\ pc' = "run" /\ UNCHANGED <<body, defining, slots, calls, reg>>
    BY <1>6, <2>1 DEF GcDone, Allocate, Filled
  <2>3. /\ Bounded' /\ Given' = With(Given, s)
        /\ s \in Addr /\ s >= mem_low /\ s \notin Given /\ Above(mem_low, Given)
    BY <1>1, <1>6, <2>1, <2>2, Allot, GivenAbove
  <2>4. memory \in [Addr -> Cell] /\ Lists(memory, Addr)
    BY <1>1 DEF TypeOK, Filling, Lists
  <2>5. Ready(memory, mem_low, Given, s, c, K, L)
    <3>1. root \in [Roots -> Ptr] /\ Wellread(reading)
      BY <1>1 DEF TypeOK, Sides
    <3>2. (bucket # NULL => c.place = "stk") /\ c.place # "member"
      BY <1>1, <2>1 DEF Gathering
    <3>3. current \in Refs(mem_low, Seen(K, Given))
      BY <1>1, RefFacts
    <3> QED
      BY <1>1, <1>3, <1>6, <2>1, <2>3, <2>4, <3>1, <3>2, <3>3 DEF Ready
  <2>6. Stored(memory, mem_low, Given, s, c, K)
    BY <1>1, <2>2, <2>5, Delivered
  <2>7. HeapInv'
    <3>1. K \in [Addr -> Kind]
      BY <1>3 DEF Shape
    <3> QED
      BY <1>1, <2>2, <2>3, <2>4, <2>6, <3>1, StoredKeeps
  <2>8. Kept
    <3> SUFFICES ASSUME NEW a \in 0 .. mem_low - 1 PROVE memory'[a] = memory[a]
      BY DEF Kept
    <3>1. a \in Addr /\ a \notin With(Given, s)
      BY <1>1, <2>3, Below DEF With, Above, Addr
    <3> QED
      BY <2>6, <3>1 DEF Stored
  <2> QED
    BY <2>7, <2>8
<1> QED
  BY <1>4, <1>5, <1>6

(* The other steps go on with the collection that is in progress. *)
Copying == SkipNull \/ CopyNext \/ SlotDone \/ CopySettled \/ (CopyCell /\ ~NoRoom) \/ CopyTail \/ CopyDone
Goes(M0, R0, C0, F, K, L) ==
  /\ pc \in {"roots", "call", "return"} /\ pc' \in {"roots", "call", "return"}
  /\ UNCHANGED <<mem_low, body, reading, defining, current, bucket>>
  /\ call'.place = call.place /\ (pc' = "roots" => calls' = <<>>) /\ TypeOK' /\ Bounded'
  /\ \E orig2 : Collecting(M0, R0, C0, F, K, L, orig2)'

LEMMA CopyingGoes ==
  ASSUME TypeOK, Bounded, Sides, Copying,
         NEW M0, NEW R0, NEW C0, NEW F, NEW K, NEW L, NEW orig, Collecting(M0, R0, C0, F, K, L, orig)
  PROVE  Goes(M0, R0, C0, F, K, L)
<1>1. CASE SkipNull
  <2>1. Collecting(M0, R0, C0, F, K, L, orig)'
    BY <1>1, SkipNullKeeps
  <2>2. /\ UNCHANGED <<mem, program, call, calls, reg>> /\ pc' = "roots" /\ pc = "roots"
        /\ slots' \in Seq(Roots \cup {"u", "r"})
    BY <1>1, <2>1 DEF SkipNull, Collecting, Progress, Slots
  <2>3. UNCHANGED <<mem_low, root, body, reading, defining, current, bucket>>
    BY <2>2 DEF mem, program
  <2>4. TypeOK' /\ Bounded'
    BY <2>2, <2>3, TypedSame DEF TypeOK, Stages
  <2>5. calls' = <<>>
    BY <2>2 DEF Sides
  <2> QED
    BY <2>1, <2>2, <2>3, <2>4, <2>5 DEF Goes
<1>2. CASE CopyNext
  <2>1. Collecting(M0, R0, C0, F, K, L, orig)' /\ reg' \in Ptr
    BY <1>2, CopyNextKeeps
  <2>2. UNCHANGED <<mem, program, call, slots, calls>> /\ pc' = "call" /\ pc = "roots"
    BY <1>2 DEF CopyNext
  <2>3. UNCHANGED <<mem_low, root, body, reading, defining, current, bucket>>
    BY <2>2 DEF mem, program
  <2>4. TypeOK' /\ Bounded'
    BY <2>1, <2>2, <2>3, TypedSame DEF TypeOK, Stages
  <2> QED
    BY <2>1, <2>2, <2>3, <2>4 DEF Goes
<1>3. CASE SlotDone
  <2>1. Collecting(M0, R0, C0, F, K, L, orig)' /\ call'.place = call.place
    BY <1>3, SlotDoneKeeps
  <2>2. /\ UNCHANGED <<mem, body, reading, defining, current, bucket, calls, reg>>
        /\ pc' = "roots" /\ pc = "return"
        /\ calls = <<>> /\ slots' \in Seq(Roots \cup {"u", "r"})
        /\ root' = root \/ \E x \in Roots : root' = [root EXCEPT ![x] = reg]
    BY <1>3, <2>1 DEF SlotDone, Collecting, Progress, Slots
  <2>3. UNCHANGED mem_low /\ root' \in [Roots -> Ptr] /\ reg' \in Ptr
    BY <2>2 DEF mem, TypeOK
  <2>4. TypeOK' /\ Bounded'
    BY <2>2, <2>3, TypedSame DEF Stages
  <2> QED
    BY <2>1, <2>2, <2>3, <2>4 DEF Goes
<1>4. CASE CopySettled
  <2>1. Collecting(M0, R0, C0, F, K, L, orig)' /\ reg' \in Ptr
    BY <1>4, CopySettledKeeps
  <2>2. UNCHANGED <<mem, program, call, slots, calls>> /\ pc' = "return" /\ pc = "call"
    BY <1>4 DEF CopySettled
  <2>3. UNCHANGED <<mem_low, root, body, reading, defining, current, bucket>>
    BY <2>2 DEF mem, program
  <2>4. TypeOK' /\ Bounded'
    BY <2>1, <2>2, <2>3, TypedSame DEF TypeOK, Stages
  <2> QED
    BY <2>1, <2>2, <2>3, <2>4 DEF Goes
<1>5. CASE CopyCell /\ ~NoRoom
  <2>3. PICK orig2 : orig2 = [orig EXCEPT ![memoryindex] = reg]
    OBVIOUS
  <2>1. TypeOK' /\ Bounded' /\ Collecting(M0, R0, C0, F, K, L, orig2)'
    BY <1>5, <2>3, CopyCellKeeps
  <2>2. UNCHANGED <<mem_low, program, pc, call>> /\ pc = "call"
    BY <1>5 DEF CopyCell
  <2> QED
    BY <2>1, <2>2 DEF Goes, program
<1>6. CASE CopyTail
  <2>1. Collecting(M0, R0, C0, F, K, L, orig)' /\ TypeOK' /\ Bounded'
    BY <1>6, CopyTailKeeps
  <2>2. UNCHANGED <<mem_low, program, call>> /\ pc' = "call" /\ pc = "return"
    BY <1>6 DEF CopyTail
  <2> QED
    BY <2>1, <2>2 DEF Goes, program
<1>7. CASE CopyDone
  <2>1. Collecting(M0, R0, C0, F, K, L, orig)' /\ TypeOK' /\ Bounded'
    BY <1>7, CopyDoneKeeps
  <2>2. UNCHANGED <<mem_low, program, call, pc>> /\ pc = "return"
    BY <1>7 DEF CopyDone
  <2> QED
    BY <2>1, <2>2 DEF Goes, program
<1> QED
  BY <1>1, <1>2, <1>3, <1>4, <1>5, <1>6, <1>7 DEF Copying

LEMMA CollectorKeeps == ASSUME Safe, HeapInv, Collector PROVE HeapInv' /\ Kept
<1>1. CASE GcDone
  BY <1>1, GcDoneKeeps
<1>2. CASE CopyCell /\ NoRoom
  BY <1>2, FullKeeps DEF CopyCell, Exhausted
<1>3. CASE Copying
  <2>1. pc \in {"roots", "call", "return"}
    BY <1>3 DEF Copying, SkipNull, CopyNext, SlotDone, CopySettled, CopyCell, CopyTail, CopyDone
  <2>2. TypeOK /\ Bounded /\ Sides /\ Gathering
    BY <2>1 DEF HeapInv
  <2>3. PICK M0, R0, C0, F, K, L, orig : Collecting(M0, R0, C0, F, K, L, orig)
    BY <2>2 DEF Gathering
  <2>4. Goes(M0, R0, C0, F, K, L)
    BY <1>3, <2>2, <2>3, CopyingGoes
  <2>5. PICK orig2 : Collecting(M0, R0, C0, F, K, L, orig2)'
    BY <2>4 DEF Goes
  <2>6. /\ pc' \in {"roots", "call", "return"} /\ call'.place = call.place
        /\ (pc' = "roots" => calls' = <<>>) /\ TypeOK' /\ Bounded'
        /\ UNCHANGED <<mem_low, body, reading, defining, current, bucket>>
    BY <2>4 DEF Goes
  <2> QED
    BY <2>1, <2>3, <2>5, <2>6, GatherKeeps
<1> QED
  BY <1>1, <1>2, <1>3 DEF Collector, Copying

LEMMA GcKeeps == ASSUME Safe, HeapInv, Gc_ PROVE HeapInv' /\ Kept
<1>1. /\ Running /\ Gc1(NoCall, <<>>) /\ UNCHANGED <<memory, program>>
      /\ pc = "run" /\ ~defining /\ bucket = NULL /\ current = NULL
      /\ TypeOK /\ Bounded /\ Sides /\ Calm /\ mem_low \in Addr /\ calls = <<>>
  BY DEF Gc_, Running, HeapInv, Sides, Bounded
<1>2. PICK K, L : /\ Shape(memory, root, K, L, mem_low, Given, reading)
                  /\ Ordered(memory, root, K, L, mem_low, Given, reading)
  BY <1>1 DEF Calm
<1>3. PICK M0, R0, C0, F, args : M0 = memory /\ R0 = root /\ C0 = NoCall /\ F = Given /\ args = <<>>
  OBVIOUS
<1>4. /\ UNCHANGED <<memory, root, body, reading, defining, current, bucket, mem_low, calls, reg>>
      /\ pc' = "roots" /\ call' = NoCall /\ slots' = CopyOrder \o args
  BY <1>1, <1>3 DEF program, Gc1
<1>5. \E orig : Collecting(M0, R0, C0, F, K, L, orig)' /\ Bounded'
  <2>1. memory \in [Addr -> Cell] /\ root \in [Roots -> Ptr]
    BY <1>1 DEF TypeOK
  <2> QED
    BY <1>1, <1>2, <1>3, <1>4, <2>1, Started
<1>6. Gathering'
  BY <1>1, <1>4, <1>5 DEF Gathering, NoCall
<1>7. Sides'
  BY <1>1, <1>4 DEF Sides, Definitions
<1>8. TypeOK'
  <2>1. Lists(memory', Addr \ Open(calls'))
    BY <1>1, <1>4 DEF TypeOK, Filling, Lists
  <2>2. slots' \in Seq(Roots \cup {"u", "r"})
    BY <1>3, <1>4, SlotsStart
  <2>3. /\ root' \in [Roots -> Ptr] /\ body' \in [Names -> Ptr] /\ current' \in Ptr /\ bucket' \in Ptr
        /\ reading' \in Seq(Phased) /\ defining' \in BOOLEAN /\ pc' \in Stages /\ reg' \in Ptr
        /\ calls' \in Seq(CFrame) /\ memory' \in [Addr -> Cell]
    BY <1>1, <1>4 DEF TypeOK, Phased, Stages
  <2> QED
    BY <1>5, <2>1, <2>2, <2>3, TypesKept
<1> QED
  BY <1>4, <1>5, <1>6, <1>7, <1>8 DEF HeapInv, Kept

-----------------------------------------------------------------------------
(* The steps that move registers and do not allocate.                      *)
LEMMA Follow ==
  ASSUME NEW low \in Addr, NEW F, NEW M, NEW R, NEW K, NEW L, NEW rd,
         Above(low, F), Shape(M, R, K, L, low, F, rd), NEW p \in Refs(low, F), p # NULL
  PROVE  Sound(M[p], Refs(low, F)) /\ p \in Addr
<1>1. CASE p \in 0 .. low - 1
  <2>1. Sound(M[p], Refs(low, {}))
    BY <1>1 DEF Shape, Closure
  <2> QED
    BY <1>1, <2>1, RefFacts, Below DEF Sound
<1>2. CASE p \in F
  BY <1>2 DEF Shape, Closure, Above
<1> QED
  BY <1>1, <1>2, RefCases

LEMMA RunKeeps ==
  ASSUME TypeOK, pc = "run", calls = <<>>, UNCHANGED gc, UNCHANGED <<current, bucket>>,
         current = NULL, bucket = NULL, Bounded',
         memory' \in [Addr -> Cell], Lists(memory', Addr), root' \in [Roots -> Ptr],
         body' \in [Names -> Ptr], defining' \in BOOLEAN, Wellread(reading'), Definitions',
         NEW K, NEW L, Shape(memory', root', K, L, mem_low', Given', reading'),
         Ordered(memory', root', K, L, mem_low', Given', reading'),
         defining' => Empty(root', K, Given') /\ direction' = 1 /\ reading' # <<"run">>
  PROVE  HeapInv'
<1>1. /\ pc' = "run" /\ calls' = <<>> /\ slots' = slots /\ reg' = reg
      /\ current' = NULL /\ bucket' = NULL
  BY DEF gc
<1>2. TypeOK'
  <2>1. reading' \in Seq(Phased)
    <3>1. Seq(Phases) \subseteq Seq(Phased) /\ <<"run">> \in Seq(Phased)
      BY DEF Phases, Phased
    <3> QED
      BY <3>1 DEF Wellread
  <2>2. Lists(memory', Addr \ Open(calls'))
    BY DEF Lists
  <2>3. /\ pc' \in Stages /\ calls' \in Seq(CFrame) /\ slots' \in Seq(Roots \cup {"u", "r"}) /\ reg' \in Ptr
        /\ current' \in Ptr /\ bucket' \in Ptr
    BY <1>1 DEF TypeOK, Stages
  <2> QED
    BY <2>1, <2>2, <2>3, TypesKept
<1>3. Sides'
  BY <1>1 DEF Sides
<1>4. Calm'
  <2>1. Pending(memory', root', mem_low', Given', reading', bucket', current')
    <3>1. mem_low' \in Addr
      BY DEF Bounded
    <3> QED
      BY <1>1, <3>1, NothingPending
  <2>2. {bucket', current'} \subseteq Refs(mem_low', Seen(K, Given'))
    <3>1. mem_low' \in Addr
      BY DEF Bounded
    <3> QED
      BY <1>1, <3>1, RefFacts
  <2> QED
    BY <1>1, <2>1, <2>2 DEF Calm
<1> QED
  BY <1>1, <1>2, <1>3, <1>4 DEF HeapInv

(* What holds of the heap in every state of the program. *)
LEMMA RunFacts ==
  ASSUME HeapInv, pc = "run"
  PROVE  /\ TypeOK /\ Bounded /\ Sides /\ Calm /\ calls = <<>> /\ mem_low \in Addr
         /\ Above(mem_low, Given) /\ Refs(mem_low, Given) \subseteq Ptr
         /\ memory \in [Addr -> Cell] /\ Lists(memory, Addr) /\ root \in [Roots -> Ptr]
         /\ body \in [Names -> Ptr] /\ defining \in BOOLEAN /\ Wellread(reading) /\ Definitions
<1>1. /\ TypeOK /\ Bounded /\ Sides /\ Calm /\ calls = <<>> /\ mem_low \in Addr
  BY DEF HeapInv, Sides, Bounded
<1>2. Above(mem_low, Given) /\ Refs(mem_low, Given) \subseteq Ptr
  BY <1>1, GivenAbove, RefTypes
<1>3. Lists(memory, Addr)
  BY <1>1 DEF TypeOK, Filling, Lists
<1> QED
  BY <1>1, <1>2, <1>3 DEF TypeOK, Sides

LEMMA SetRootsKeeps ==
  ASSUME HeapInv, pc = "run", current = NULL, bucket = NULL, ~defining,
         UNCHANGED <<mem, body, defining, current, bucket, gc>>,
         root' \in [Roots -> Ptr], Wellread(reading'),
         NEW K, NEW L, Shape(memory, root', K, L, mem_low, Given, reading'),
         Ordered(memory, root', K, L, mem_low, Given, reading')
  PROVE  HeapInv' /\ Kept
<1>1. /\ TypeOK /\ Bounded /\ calls = <<>> /\ memory \in [Addr -> Cell] /\ Lists(memory, Addr)
      /\ body \in [Names -> Ptr] /\ defining \in BOOLEAN /\ Definitions
  BY RunFacts
<1>2. /\ UNCHANGED <<memory, memoryindex, mem_low, mem_mid, direction, body, defining>>
  BY DEF mem
<1>3. Bounded' /\ Given' = Given /\ Definitions'
  BY <1>1, <1>2 DEF Bounded, Given, Definitions
<1>4. /\ Shape(memory', root', K, L, mem_low', Given', reading')
      /\ Ordered(memory', root', K, L, mem_low', Given', reading')
  BY <1>2, <1>3
<1>5. /\ memory' \in [Addr -> Cell] /\ Lists(memory', Addr) /\ body' \in [Names -> Ptr] /\ defining' \in BOOLEAN
      /\ ~defining'
  BY <1>1, <1>2
<1>6. HeapInv'
  BY <1>1, <1>3, <1>4, <1>5, RunKeeps
<1> QED
  BY <1>2, <1>6 DEF Kept

(* What the program may use when it is neither reading nor half way through: *)
(* the registers but those of map, and what they lead to.                  *)
Usable(K) == Refs(mem_low, Seen(K, Given))
Formed(K, L, rd) ==
  Shape(memory, root, K, L, mem_low, Given, rd) /\ Ordered(memory, root, K, L, mem_low, Given, rd)
Uses(K) ==
  /\ NULL \in Usable(K) /\ Usable(K) \subseteq Refs(mem_low, Given) /\ Usable(K) \subseteq Int
  /\ \A x \in Roots \ {"prog", "dump2", "dump3"} : root[x] \in Usable(K)
  /\ \A p \in Usable(K) : p # NULL =>
       /\ memory[p].op \in {"INTEGER_", "LIST_"} /\ memory[p].u \in Int
       /\ memory[p].next \in Usable(K)
       /\ memory[p].op = "LIST_" => memory[p].u \in Usable(K)

LEMMA HeapUses ==
  ASSUME HeapInv, pc = "run", NEW K, NEW L, NEW rd, Formed(K, L, rd)
  PROVE  Uses(K)
<1>1. /\ mem_low \in Addr /\ Above(mem_low, Given) /\ memory \in [Addr -> Cell]
      /\ Shape(memory, root, K, L, mem_low, Given, rd)
      /\ Ordered(memory, root, K, L, mem_low, Given, rd)
  BY RunFacts DEF Formed
<1>2. NULL \in Usable(K) /\ Usable(K) \subseteq Refs(mem_low, Given) /\ Usable(K) \subseteq Int
  <2>1. Usable(K) \subseteq Refs(mem_low, Given)
    BY SeenRefs DEF Usable
  <2>2. NULL \in Usable(K)
    BY <1>1, RefFacts DEF Usable
  <2> QED
    BY <1>1, <2>1, <2>2, RefTypes
<1>3. \A x \in Roots \ {"prog", "dump2", "dump3"} : root[x] \in Usable(K)
  BY <1>1 DEF Ordered, Hiding, Shows, Usable
<1>4. ASSUME NEW p \in Usable(K), p # NULL
      PROVE  /\ memory[p].op \in {"INTEGER_", "LIST_"} /\ memory[p].u \in Int
             /\ memory[p].next \in Usable(K)
             /\ memory[p].op = "LIST_" => memory[p].u \in Usable(K)
  <2>1. Sound(memory[p], Usable(K))
    BY <1>1, <1>4, FollowSeen DEF Usable
  <2>2. p \in Addr
    BY <1>1, <1>2, <1>4, Follow
  <2>3. memory[p].u \in Int
    BY <1>1, <2>2 DEF Cell
  <2> QED
    BY <2>1, <2>3 DEF Sound
<1> QED
  BY <1>2, <1>3, <1>4 DEF Uses

LEMMA RunningFacts ==
  ASSUME HeapInv, Running
  PROVE  /\ pc = "run" /\ current = NULL /\ bucket = NULL /\ ~defining
         /\ reading = <<>> /\ Depth(reading) = 0 /\ Wellread(reading) /\ Even(root)
         /\ \A x \in Roots \ {"prog"} : root[x] \in Refs(mem_low, Given)
         /\ root \in [Roots -> Ptr] /\ mem_low \in Addr
         /\ Above(mem_low, Given) /\ Refs(mem_low, Given) \subseteq Ptr
         /\ \E K, L : /\ Formed(K, L, reading) /\ Uses(K)
                      /\ OnDump(K, Given, root["dump"])
                      /\ Shape(memory, root, K, L, mem_low, Given, reading)
                      /\ Ordered(memory, root, K, L, mem_low, Given, reading)
<1>1. /\ pc = "run" /\ current = NULL /\ bucket = NULL /\ ~defining /\ reading = <<>> /\ Even(root)
  BY DEF Running, Mapping, Even
<1>2. /\ Calm /\ Wellread(reading) /\ root \in [Roots -> Ptr] /\ mem_low \in Addr
      /\ Above(mem_low, Given) /\ Refs(mem_low, Given) \subseteq Ptr
  BY <1>1, RunFacts
<1>3. PICK K, L : /\ Shape(memory, root, K, L, mem_low, Given, reading)
                  /\ Ordered(memory, root, K, L, mem_low, Given, reading)
  BY <1>2 DEF Calm
<1>4. Depth(reading) = 0
  BY <1>1 DEF Depth
<1>5. OnDump(K, Given, root["dump"])
  BY <1>2, <1>3, <1>4, NoTerm
<1>6. \A x \in Roots \ {"prog"} : root[x] \in Refs(mem_low, Given)
  BY <1>3 DEF Shape, Reaches
<1>7. Formed(K, L, reading)
  BY <1>3 DEF Formed
<1>8. Uses(K)
  BY <1>1, <1>7, HeapUses
<1> QED
  BY <1>1, <1>2, <1>3, <1>4, <1>5, <1>6, <1>7, <1>8

(* Registers take what the program may use. *)
LEMMA SetHeap ==
  ASSUME NEW K, NEW L, Formed(K, L, reading), Uses(K), NEW R, NEW X, Same(root, R, X),
         NEW rd, Depth(rd) = 0, rd = <<"run">> => R["prog"] \in Usable(K),
         \A x \in X : x \in {"prog", "dump2", "dump3"} \/ R[x] \in Usable(K)
  PROVE  Ordered(memory, R, K, L, mem_low, Given, rd)
<1>1. Ordered(memory, root, K, L, mem_low, Given, reading)
  BY DEF Formed
<1>2. Shows(R, Usable(K), rd)
  <2>1. ASSUME NEW x \in Roots \ {"prog", "dump2", "dump3"} PROVE R[x] \in Usable(K)
    <3>1. CASE x \in X
      BY <3>1
    <3>2. CASE x \notin X
      BY <3>2 DEF Same, Uses
    <3> QED
      BY <3>1, <3>2
  <2> QED
    BY <2>1 DEF Shows
<1> QED
  BY <1>1, <1>2, SetOrdered DEF Usable

LEMMA PopKeeps == ASSUME HeapInv, Pop \/ Unstack PROVE HeapInv' /\ Kept
<1>1. Running /\ root["stk"] # NULL
  BY DEF Pop, Unstack, OnList, Holding
<1>2. /\ pc = "run" /\ current = NULL /\ bucket = NULL /\ ~defining
      /\ reading = <<>> /\ Depth(reading) = 0 /\ Wellread(reading)
      /\ \A x \in Roots \ {"prog"} : root[x] \in Refs(mem_low, Given)
      /\ root \in [Roots -> Ptr] /\ mem_low \in Addr /\ Refs(mem_low, Given) \subseteq Ptr
  BY <1>1, RunningFacts
<1>3. PICK K, L : /\ Shape(memory, root, K, L, mem_low, Given, reading)
                  /\ Formed(K, L, reading) /\ Uses(K)
  BY <1>1, RunningFacts
<1>4. /\ memory[root["stk"]].next \in Usable(K)
      /\ memory[root["stk"]].op = "LIST_" => memory[root["stk"]].u \in Usable(K)
  BY <1>1, <1>3 DEF Roots, Uses
<1>5. PICK p : p \in Usable(K) /\ root' = [root EXCEPT !["stk"] = p]
  <2>1. CASE Pop
    BY <1>4, <2>1 DEF Pop, SetRoots
  <2>2. CASE Unstack
    BY <1>4, <2>2 DEF Unstack, SetRoots, OnList, Top
  <2> QED
    BY <2>1, <2>2
<1>6. UNCHANGED <<mem, body, reading, defining, current, bucket, gc>>
  BY DEF Pop, Unstack, SetRoots
<1>7. /\ root' \in [Roots -> Ptr] /\ Same(root, root', {"stk"}) /\ root'["stk"] \in Usable(K)
      /\ root'["stk"] \in Refs(mem_low, Given)
  BY <1>2, <1>3, <1>5 DEF Same, Roots, Uses
<1>8. Shape(memory, root', K, L, mem_low, Given, reading)
  BY <1>2, <1>3, <1>7, PutStk
<1>9. Ordered(memory, root', K, L, mem_low, Given, reading)
  BY <1>2, <1>3, <1>7, SetHeap
<1> QED
  BY <1>2, <1>6, <1>7, <1>8, <1>9, SetRootsKeeps

LEMMA PopDumpKeeps == ASSUME HeapInv, PopDump PROVE HeapInv' /\ Kept
<1>1. /\ Running /\ root["dump"] # NULL /\ root' = [root EXCEPT !["dump"] = memory[@].next]
      /\ UNCHANGED <<mem, body, reading, defining, current, bucket, gc>>
  BY DEF PopDump, SetRoots
<1>2. /\ pc = "run" /\ current = NULL /\ bucket = NULL /\ ~defining
      /\ reading = <<>> /\ Depth(reading) = 0 /\ Wellread(reading)
      /\ \A x \in Roots \ {"prog"} : root[x] \in Refs(mem_low, Given)
      /\ root \in [Roots -> Ptr] /\ mem_low \in Addr /\ Refs(mem_low, Given) \subseteq Ptr
  BY <1>1, RunningFacts
<1>3. PICK K, L : /\ Shape(memory, root, K, L, mem_low, Given, reading)
                  /\ OnDump(K, Given, root["dump"]) /\ Formed(K, L, reading) /\ Uses(K)
  BY <1>1, RunningFacts
<1>4. OnDump(K, Given, memory[root["dump"]].next) /\ memory[root["dump"]].next \in Refs(mem_low, Given)
  <2>1. root["dump"] \in Given /\ K[root["dump"]] = "dump"
    BY <1>1, <1>3 DEF OnDump
  <2>2. OnDump(K, Given, memory[root["dump"]].next)
    BY <1>3, <2>1 DEF Shape, Chains
  <2> QED
    BY <1>2, <2>2, RefFacts DEF OnDump
<1>5. PICK p : p = memory[root["dump"]].next
  OBVIOUS
<1>6. /\ root' \in [Roots -> Ptr] /\ root'["dump"] = p /\ p \in Refs(mem_low, Given) /\ OnDump(K, Given, p)
      /\ \A x \in Roots \ {"dump"} : root'[x] = root[x]
  BY <1>1, <1>2, <1>4, <1>5 DEF Roots
<1>7. /\ root'["conts"] = root["conts"] /\ root'["dump2"] = root["dump2"]
      /\ root'["dump3"] = root["dump3"]
  BY <1>6 DEF Roots
<1>8. Reaches(root', mem_low, Given, reading)
  BY <1>2, <1>6 DEF Reaches
<1>9. Shape(memory, root', K, L, mem_low, Given, reading)
  <2>1. root'["conts"] # NULL => root'["conts"] \in Given /\ K[root'["conts"]] = "conts"
    BY <1>3, <1>7 DEF Shape, Chains
  <2>2. Maps(memory, root', K, Given)
    BY <1>3, <1>7 DEF Shape, Maps
  <2> QED
    BY <1>2, <1>3, <1>6, <1>8, <2>1, <2>2, SetRegisters
<1>10. Ordered(memory, root', K, L, mem_low, Given, reading)
  <2>1. p \in Usable(K)
    BY <1>1, <1>3, <1>5 DEF Uses, Roots
  <2>2. Same(root, root', {"dump"}) /\ root'["dump"] \in Usable(K)
    BY <1>6, <2>1 DEF Same
  <2> QED
    BY <1>2, <1>3, <2>2, SetHeap
<1> QED
  BY <1>1, <1>2, <1>6, <1>9, <1>10, SetRootsKeeps

LEMMA LeaveKeeps == ASSUME HeapInv, Leave PROVE HeapInv' /\ Kept
<1>1. /\ Running /\ root["conts"] # NULL /\ root' = [root EXCEPT !["conts"] = memory[@].next]
      /\ UNCHANGED <<mem, body, reading, defining, current, bucket, gc>>
  BY DEF Leave, SetRoots
<1>2. /\ pc = "run" /\ current = NULL /\ bucket = NULL /\ ~defining
      /\ reading = <<>> /\ Depth(reading) = 0 /\ Wellread(reading)
      /\ \A x \in Roots \ {"prog"} : root[x] \in Refs(mem_low, Given)
      /\ root \in [Roots -> Ptr] /\ mem_low \in Addr /\ Refs(mem_low, Given) \subseteq Ptr
  BY <1>1, RunningFacts
<1>3. PICK K, L : /\ Shape(memory, root, K, L, mem_low, Given, reading)
                  /\ OnDump(K, Given, root["dump"]) /\ Formed(K, L, reading) /\ Uses(K)
  BY <1>1, RunningFacts
<1>4. PICK p : p = memory[root["conts"]].next
  OBVIOUS
<1>5. p # NULL => p \in Given /\ K[p] = "conts"
  BY <1>1, <1>3, <1>4 DEF Shape, Chains
<1>6. p \in Refs(mem_low, Given)
  BY <1>2, <1>5, RefFacts
<1>7. /\ root' \in [Roots -> Ptr] /\ root'["conts"] = p
      /\ \A x \in Roots \ {"conts"} : root'[x] = root[x]
  BY <1>1, <1>2, <1>4, <1>6 DEF Roots
<1>8. /\ root'["dump"] = root["dump"] /\ root'["dump2"] = root["dump2"]
      /\ root'["dump3"] = root["dump3"]
  BY <1>7 DEF Roots
<1>9. Reaches(root', mem_low, Given, reading)
  BY <1>2, <1>6, <1>7 DEF Reaches
<1>10. Shape(memory, root', K, L, mem_low, Given, reading)
  <2>1. Maps(memory, root', K, Given)
    BY <1>3, <1>8 DEF Shape, Maps
  <2> QED
    BY <1>2, <1>3, <1>5, <1>7, <1>8, <1>9, <2>1, SetRegisters
<1>11. Ordered(memory, root', K, L, mem_low, Given, reading)
  <2>1. p \in Usable(K)
    BY <1>1, <1>3, <1>4 DEF Uses, Roots
  <2>2. Same(root, root', {"conts"}) /\ root'["conts"] \in Usable(K)
    BY <1>7, <2>1 DEF Same
  <2> QED
    BY <1>2, <1>3, <2>2, SetHeap
<1> QED
  BY <1>1, <1>2, <1>7, <1>10, <1>11, SetRootsKeeps

LEMMA AbortKeeps == ASSUME Safe, HeapInv, Abort PROVE HeapInv' /\ Kept
<1>1. /\ pc = "run" /\ bucket = NULL /\ current = NULL /\ ~defining /\ reading' = <<>> /\ ~defining'
      /\ root' = [x \in Roots |-> IF x \in {"stk", "prog"} THEN root[x] ELSE NULL]
      /\ UNCHANGED <<mem, body, current, bucket, gc>> /\ defining' = FALSE
  BY DEF Abort, Safe
<1>2. Calm /\ root \in [Roots -> Ptr] /\ mem_low \in Addr /\ defining \in BOOLEAN
  BY <1>1, RunFacts
<1>3. PICK K, L : /\ Shape(memory, root, K, L, mem_low, Given, reading)
                  /\ Ordered(memory, root, K, L, mem_low, Given, reading)
  BY <1>2 DEF Calm
<1>4. /\ root' \in [Roots -> Ptr] /\ root'["stk"] = root["stk"] /\ root'["conts"] = NULL
      /\ root'["dump"] = NULL /\ root'["dump2"] = NULL /\ root'["dump3"] = NULL
      /\ \A x \in Roots \ {"stk", "prog"} : root'[x] = NULL
  BY <1>1, <1>2 DEF Roots, Ptr
<1>5. Reaches(root', mem_low, Given, <<>>)
  <2>1. root["stk"] \in Refs(mem_low, Given)
    BY <1>3 DEF Shape, Reaches, Roots
  <2>2. <<>> # <<"run">>
    OBVIOUS
  <2> QED
    BY <1>2, <1>4, <2>1, <2>2, RefFacts DEF Reaches
<1>6. OnDump(K, Given, root'["dump"]) /\ Maps(memory, root', K, Given)
  BY <1>4 DEF OnDump, Maps
<1>7. Shape(memory, root', K, L, mem_low, Given, reading')
  <2>1. Depth(<<>>) = 0
    BY DEF Depth
  <2>2. Shape(memory, root', K, L, mem_low, Given, <<>>)
    BY <1>2, <1>3, <1>4, <1>5, <1>6, <2>1, SetRegisters
  <2> QED
    BY <1>1, <2>2
<1>8. Wellread(reading')
  BY <1>1 DEF Wellread
<1>9. Ordered(memory, root', K, L, mem_low, Given, reading')
  <2>1. Formed(K, L, reading)
    BY <1>3 DEF Formed
  <2>2. Uses(K)
    BY <1>1, <2>1, HeapUses
  <2>3. \A x \in Roots : x \in {"prog", "dump2", "dump3"} \/ root'[x] \in Usable(K)
    <3>1. \A x \in Roots : x = "prog" \/ root'[x] = root[x] \/ root'[x] = NULL
      BY <1>1
    <3> QED
      BY <2>2, <3>1 DEF Uses
  <2>4. Same(root, root', Roots)
    BY DEF Same
  <2>5. Depth(reading') = 0 /\ reading' # <<"run">>
    BY <1>1 DEF Depth
  <2> QED
    BY <2>1, <2>2, <2>3, <2>4, <2>5, SetHeap
<1> QED
  BY <1>1, <1>2, <1>4, <1>7, <1>8, <1>9, SetRootsKeeps

-----------------------------------------------------------------------------
(* The callers of newnode, each with what it passes.                       *)
Request(o, u, r, place) ==
  [op |-> o, u |-> u, next |-> r, place |-> place, at |-> Target(place)]

LEMMA RequestIs ==
  ASSUME NEW o, NEW u, NEW r, NEW place, NEW c, c = Request(o, u, r, place)
  PROVE  c.op = o /\ c.u = u /\ c.next = r /\ c.place = place
BY DEF Request

LEMMA NewNodeFull ==
  ASSUME NEW h, NEW o, NEW u, NEW r, NEW place, NewNode(h, o, u, r, place), pc = "run", pc' = "full"
  PROVE  memory' = memory
BY DEF NewNode, Gc1, mem, gc

LEMMA CallKeeps ==
  ASSUME Safe, HeapInv, pc = "run", NEW o, NEW u, NEW r, NEW place, NEW K, NEW L,
         Formed(K, L, reading), {bucket, current} \subseteq Usable(K),
         Args(memory, root, K, L, mem_low, Given, reading, Request(o, u, r, place)),
         Clear(K, L, mem_low, Given, reading, Request(o, u, r, place)),
         bucket # NULL => place = "stk", current # NULL <=> place = "member",
         place = "member" => Even(root) /\ memoryindex # mem_mid,
         defining => place \in ReaderPlaces /\ Empty(root, K, Given),
         NewNode(memory, o, u, r, place), Still
  PROVE  HeapInv' /\ Kept
<1>1. PICK c : c = Request(o, u, r, place)
  OBVIOUS
<1>2. c.place = place
  BY <1>1, RequestIs
<1>3. memory \in [Addr -> Cell] /\ Lists(memory, Addr)
  BY RunFacts
<1>4. Fit(memory, c, K, L)
  BY <1>1, <1>2, <1>3 DEF Fit, Formed, Usable
<1>5. c = [op |-> o, u |-> u, next |-> r, place |-> place, at |-> Target(place)]
  BY <1>1 DEF Request
<1>6. HeapInv' /\ KeptFrom(memory)
  BY <1>4, <1>5, NewNodeKeeps, ZenonT(30)
<1> QED
  BY <1>6, NewNodeFull DEF KeptFrom, Kept

(* The operators call newnode when nothing is being read or pending. *)
LEMMA OperatorKeeps ==
  ASSUME Safe, HeapInv, Running, NEW o, NEW u, NEW r, NEW place, place # "member", NEW K, NEW L,
         Formed(K, L, reading), Uses(K),
         Args(memory, root, K, L, mem_low, Given, reading, Request(o, u, r, place)),
         Clear(K, L, mem_low, Given, reading, Request(o, u, r, place)),
         NewNode(memory, o, u, r, place), Still
  PROVE  HeapInv' /\ Kept
<1>1. pc = "run" /\ current = NULL /\ bucket = NULL /\ ~defining
  BY DEF Running
<1>2. {bucket, current} \subseteq Usable(K)
  BY <1>1 DEF Uses
<1> QED
  BY <1>1, <1>2, CallKeeps

LEMMA PlainArgs ==
  ASSUME HeapInv, Running, NEW o \in {"INTEGER_", "LIST_"}, NEW u \in Int,
         NEW K, NEW L, Formed(K, L, reading), Uses(K),
         NEW r \in Usable(K), o = "LIST_" => u \in Refs(mem_low, Given),
         NEW place \in {"stk", "bucket", "dump", "primrec", "conts", "mapped", "DMP2", "DMP3->next", "dump2"},
         o = "LIST_" /\ place # "mapped" => u \in Usable(K),
         place \in {"conts", "dump", "primrec", "dump2"} => o = "LIST_",
         place \in {"dump", "primrec"} => OnDump(K, Given, r),
         place = "primrec" => root["stk"] # NULL /\ Top.op = "LIST_",
         place = "bucket" => Pair(memory, root),
         place = "conts" => (r # NULL => r \in Given /\ K[r] = "conts"),
         place = "dump2" => root["dump2"] = NULL /\ u = NULL /\ r = NULL,
         place \in {"DMP2", "DMP3->next"} => root["dump3"] # NULL /\ r = NULL,
         place = "DMP3->next" => Dmp("dump2") # NULL,
         place = "mapped" => root["dump3"] # NULL
  PROVE  /\ Args(memory, root, K, L, mem_low, Given, reading, Request(o, u, r, place))
         /\ Clear(K, L, mem_low, Given, reading, Request(o, u, r, place))
<1>1. PICK c : c = Request(o, u, r, place)
  OBVIOUS
<1>2. c.op = o /\ c.u = u /\ c.next = r /\ c.place = place
  BY <1>1, RequestIs
<1>3. reading = <<>> /\ Depth(reading) = 0 /\ Even(root)
  BY RunningFacts
<1>4. /\ c.place \in Places /\ c.op \in {"INTEGER_", "LIST_"} /\ c.u \in Int
      /\ c.next \in Refs(mem_low, Given) /\ (c.op = "LIST_" => c.u \in Refs(mem_low, Given))
      /\ c.place \notin {"header", "factor", "end", "conts", "dump2", "dump3"} => reading = <<>>
      /\ c.place \in {"header", "end", "conts", "dump", "primrec", "dump2", "dump3"} => c.op = "LIST_"
  BY <1>2, <1>3 DEF Places, Uses
<1>5. c.place \notin {"header", "factor", "end", "dump3"}
  BY <1>2
<1>6. /\ c.place \in {"dump", "primrec"} => OnDump(K, Given, c.next)
      /\ c.place = "conts" =>
           /\ reading \in {<<>>, <<"run">>}
           /\ c.next # NULL => c.next \in Given /\ K[c.next] = "conts"
      /\ c.place = "dump2" => root["dump2"] = NULL /\ c.u = NULL /\ c.next = NULL
      /\ c.place \in {"DMP2", "DMP3->next"} => root["dump3"] # NULL /\ c.next = NULL
      /\ c.place = "DMP3->next" => memory[root["dump2"]].u # NULL
      /\ c.place = "mapped" => root["dump3"] # NULL
      /\ c.place = "primrec" => root["stk"] # NULL /\ memory[root["stk"]].op = "LIST_" /\ Even(root)
      /\ c.place = "bucket" => Pair(memory, root) /\ Even(root)
  BY <1>2, <1>3 DEF Top, Dmp
<1>7. Args(memory, root, K, L, mem_low, Given, reading, c)
  BY <1>4, <1>5, <1>6 DEF Args
<1>8. Clear(K, L, mem_low, Given, reading, c)
  BY <1>2, <1>5 DEF Clear, Usable
<1> QED
  BY <1>1, <1>7, <1>8

LEMMA StackKeeps ==
  ASSUME Safe, HeapInv, Stack PROVE HeapInv' /\ Kept
<1>1. Running /\ Still /\ NewNode(memory, "LIST_", root["stk"], root["stk"], "stk")
  BY DEF Stack
<1>2. PICK K, L : Formed(K, L, reading) /\ Uses(K)
  BY <1>1, RunningFacts
<1>3. root["stk"] \in Usable(K) /\ root["stk"] \in Int /\ root["stk"] \in Refs(mem_low, Given)
  BY <1>2 DEF Roots, Uses
<1>4. /\ Args(memory, root, K, L, mem_low, Given, reading, Request("LIST_", root["stk"], root["stk"], "stk"))
      /\ Clear(K, L, mem_low, Given, reading, Request("LIST_", root["stk"], root["stk"], "stk"))
  BY <1>1, <1>2, <1>3, PlainArgs
<1> QED
  BY <1>1, <1>2, <1>4, OperatorKeeps

LEMMA RestKeeps ==
  ASSUME Safe, HeapInv, Rest PROVE HeapInv' /\ Kept
<1>1. PICK u, r : u = memory[Top.u].next /\ r = Top.next
  OBVIOUS
<1>2. /\ Running /\ root["stk"] # NULL /\ Top.op = "LIST_" /\ Top.u # NULL
      /\ Still /\ NewNode(memory, "LIST_", u, r, "stk")
  BY <1>1 DEF Rest, OnList, Holding
<1>3. PICK K, L : Formed(K, L, reading) /\ Uses(K)
  BY <1>2, RunningFacts
<1>4. root["stk"] \in Usable(K)
  BY <1>3 DEF Roots, Uses
<1>5. Top.u \in Usable(K) /\ r \in Usable(K)
  BY <1>1, <1>2, <1>3, <1>4 DEF Top, Uses
<1>6. u \in Usable(K) /\ u \in Int /\ u \in Refs(mem_low, Given)
  BY <1>1, <1>2, <1>3, <1>5 DEF Uses
<1>7. /\ Args(memory, root, K, L, mem_low, Given, reading, Request("LIST_", u, r, "stk"))
      /\ Clear(K, L, mem_low, Given, reading, Request("LIST_", u, r, "stk"))
  BY <1>2, <1>3, <1>5, <1>6, PlainArgs
<1> QED
  BY <1>2, <1>3, <1>7, OperatorKeeps

LEMMA ConsKeeps ==
  ASSUME Safe, HeapInv, Cons_ PROVE HeapInv' /\ Kept
<1>1. PICK o, u, r : o = memory[Top.next].op /\ u = memory[Top.next].u /\ r = Top.u
  OBVIOUS
<1>2. /\ Running /\ root["stk"] # NULL /\ Top.op = "LIST_" /\ Top.next # NULL
      /\ Still /\ NewNode(memory, o, u, r, "bucket")
  BY <1>1 DEF Cons_, OnList, Holding
<1>3. PICK K, L : Formed(K, L, reading) /\ Uses(K)
  BY <1>2, RunningFacts
<1>4. root["stk"] \in Usable(K)
  BY <1>3 DEF Roots, Uses
<1>5. Top.next \in Usable(K) /\ r \in Usable(K) /\ Pair(memory, root)
  BY <1>1, <1>2, <1>3, <1>4 DEF Top, Pair, Uses
<1>6. /\ o \in {"INTEGER_", "LIST_"} /\ u \in Int
      /\ o = "LIST_" => u \in Usable(K) /\ u \in Refs(mem_low, Given)
  BY <1>1, <1>2, <1>3, <1>5 DEF Uses
<1>7. /\ Args(memory, root, K, L, mem_low, Given, reading, Request(o, u, r, "bucket"))
      /\ Clear(K, L, mem_low, Given, reading, Request(o, u, r, "bucket"))
  BY <1>2, <1>3, <1>5, <1>6, PlainArgs
<1> QED
  BY <1>2, <1>3, <1>7, OperatorKeeps

LEMMA SaveKeeps ==
  ASSUME Safe, HeapInv, Save \/ Primrec PROVE HeapInv' /\ Kept
<1>1. PICK place \in {"dump", "primrec"} :
        /\ Running /\ Still /\ NewNode(memory, "LIST_", root["stk"], root["dump"], place)
        /\ place = "primrec" => root["stk"] # NULL /\ Top.op = "LIST_"
  <2>1. CASE Save
    BY <2>1 DEF Save
  <2>2. CASE Primrec
    BY <2>2 DEF Primrec, OnList, Holding
  <2> QED
    BY <2>1, <2>2
<1>2. PICK K, L : Formed(K, L, reading) /\ Uses(K) /\ OnDump(K, Given, root["dump"])
  BY <1>1, RunningFacts
<1>3. /\ root["stk"] \in Usable(K) /\ root["stk"] \in Int /\ root["stk"] \in Refs(mem_low, Given)
      /\ root["dump"] \in Usable(K)
  BY <1>2 DEF Roots, Uses
<1>4. /\ Args(memory, root, K, L, mem_low, Given, reading, Request("LIST_", root["stk"], root["dump"], place))
      /\ Clear(K, L, mem_low, Given, reading, Request("LIST_", root["stk"], root["dump"], place))
  BY <1>1, <1>2, <1>3, PlainArgs
<1> QED
  BY <1>1, <1>2, <1>4, OperatorKeeps

LEMMA RestoreKeeps ==
  ASSUME Safe, HeapInv, Restore PROVE HeapInv' /\ Kept
<1>1. PICK o, u, r : o = Top.op /\ u = Top.u /\ r = Dmp("dump")
  OBVIOUS
<1>2. /\ Running /\ root["stk"] # NULL /\ root["dump"] # NULL
      /\ Still /\ NewNode(memory, o, u, r, "stk")
  BY <1>1 DEF Restore, Holding
<1>3. PICK K, L : Formed(K, L, reading) /\ Uses(K) /\ OnDump(K, Given, root["dump"])
  BY <1>2, RunningFacts
<1>4. root["stk"] \in Usable(K) /\ root["dump"] \in Usable(K)
  BY <1>3 DEF Roots, Uses
<1>5. /\ o \in {"INTEGER_", "LIST_"} /\ u \in Int
      /\ o = "LIST_" => u \in Usable(K) /\ u \in Refs(mem_low, Given)
  BY <1>1, <1>2, <1>3, <1>4 DEF Top, Uses
<1>6. memory[root["dump"]].op = "LIST_"
  BY <1>2, <1>3 DEF Formed, Shape, Chains, OnDump
<1>7. r \in Usable(K)
  BY <1>1, <1>2, <1>3, <1>4, <1>6 DEF Dmp, Uses
<1>8. /\ Args(memory, root, K, L, mem_low, Given, reading, Request(o, u, r, "stk"))
      /\ Clear(K, L, mem_low, Given, reading, Request(o, u, r, "stk"))
  BY <1>2, <1>3, <1>5, <1>7, PlainArgs
<1> QED
  BY <1>2, <1>3, <1>8, OperatorKeeps

LEMMA MapOpenKeeps ==
  ASSUME Safe, HeapInv, MapOpen PROVE HeapInv' /\ Kept
<1>1. /\ Running /\ root["dump2"] = NULL /\ Still
      /\ NewNode(memory, "LIST_", NULL, root["dump2"], "dump2")
  BY DEF MapOpen, Mapping
<1>2. PICK K, L : Formed(K, L, reading) /\ Uses(K)
  BY <1>1, RunningFacts
<1>3. NULL \in Usable(K) /\ NULL \in Int /\ NULL \in Refs(mem_low, Given)
  BY <1>2 DEF Uses
<1>4. /\ Args(memory, root, K, L, mem_low, Given, reading, Request("LIST_", NULL, root["dump2"], "dump2"))
      /\ Clear(K, L, mem_low, Given, reading, Request("LIST_", NULL, root["dump2"], "dump2"))
  BY <1>1, <1>2, <1>3, PlainArgs
<1> QED
  BY <1>1, <1>2, <1>4, OperatorKeeps

LEMMA MapCollectKeeps ==
  ASSUME Safe, HeapInv, MapCollect PROVE HeapInv' /\ Kept
<1>1. PICK o, u, place : o = Top.op /\ u = Top.u
                         /\ place = IF Dmp("dump2") = NULL THEN "DMP2" ELSE "DMP3->next"
  OBVIOUS
<1>2. /\ Running /\ root["dump2"] # NULL /\ root["stk"] # NULL /\ Still
      /\ NewNode(memory, o, u, NULL, place)
  BY <1>1 DEF MapCollect, Mapping, Holding
<1>3. root["dump3"] # NULL
  BY <1>2 DEF Running, Mapping
<1>4. PICK K, L : Formed(K, L, reading) /\ Uses(K)
  BY <1>2, RunningFacts
<1>5. root["stk"] \in Usable(K) /\ NULL \in Usable(K)
  BY <1>4 DEF Roots, Uses
<1>6. /\ o \in {"INTEGER_", "LIST_"} /\ u \in Int
      /\ o = "LIST_" => u \in Usable(K) /\ u \in Refs(mem_low, Given)
  BY <1>1, <1>2, <1>4, <1>5 DEF Top, Uses
<1>7. place \in {"DMP2", "DMP3->next"} /\ (place = "DMP3->next" => Dmp("dump2") # NULL)
  BY <1>1
<1>8. /\ Args(memory, root, K, L, mem_low, Given, reading, Request(o, u, NULL, place))
      /\ Clear(K, L, mem_low, Given, reading, Request(o, u, NULL, place))
  BY <1>2, <1>3, <1>4, <1>5, <1>6, <1>7, PlainArgs
<1> QED
  BY <1>2, <1>4, <1>7, <1>8, OperatorKeeps

LEMMA MapCloseKeeps ==
  ASSUME Safe, HeapInv, MapClose PROVE HeapInv' /\ Kept
<1>1. PICK u, r : u = Dmp("dump2") /\ r = root["stk"]
  OBVIOUS
<1>2. /\ Running /\ root["dump2"] # NULL /\ Still /\ NewNode(memory, "LIST_", u, r, "mapped")
  BY <1>1 DEF MapClose, Mapping
<1>3. root["dump3"] # NULL
  BY <1>2 DEF Running, Mapping
<1>4. PICK K, L : Formed(K, L, reading) /\ Uses(K) /\ Shape(memory, root, K, L, mem_low, Given, reading)
  BY <1>2, RunningFacts
<1>5. r \in Usable(K)
  BY <1>1, <1>4 DEF Roots, Uses
<1>6. memory[root["dump2"]].op = "LIST_" /\ root["dump2"] \in Given
  BY <1>2, <1>4 DEF Shape, Maps
<1>7. u \in Refs(mem_low, Given) /\ u \in Int
  <2>1. u \in Refs(mem_low, Given)
    BY <1>1, <1>4, <1>6 DEF Dmp, Shape, Closure, Sound
  <2>2. mem_low \in Addr /\ Above(mem_low, Given)
    BY <1>2, RunningFacts
  <2> QED
    BY <2>1, <2>2, RefTypes
<1>8. /\ Args(memory, root, K, L, mem_low, Given, reading, Request("LIST_", u, r, "mapped"))
      /\ Clear(K, L, mem_low, Given, reading, Request("LIST_", u, r, "mapped"))
  BY <1>2, <1>3, <1>4, <1>5, <1>7, PlainArgs
<1> QED
  BY <1>2, <1>4, <1>8, OperatorKeeps

LEMMA MapOpenLastKeeps ==
  ASSUME Safe, HeapInv, MapOpenLast PROVE HeapInv' /\ Kept
<1>1. /\ pc = "run" /\ root["dump2"] # NULL /\ root["dump3"] = NULL /\ Still
      /\ NewNode(memory, "LIST_", NULL, NULL, "dump3")
  BY DEF MapOpenLast, Mapping
<1>2. Calm /\ mem_low \in Addr
  BY <1>1, RunFacts
<1>3. PICK K, L : /\ Formed(K, L, reading) /\ {bucket, current} \subseteq Usable(K)
                  /\ defining => Empty(root, K, Given)
  BY <1>2 DEF Calm, Formed, Usable
<1>4. bucket = NULL /\ current = NULL /\ ~defining
  BY <1>1, <1>2, <1>3 DEF Calm, Pending, Even, Empty
<1>5. /\ Args(memory, root, K, L, mem_low, Given, reading, Request("LIST_", NULL, NULL, "dump3"))
      /\ Clear(K, L, mem_low, Given, reading, Request("LIST_", NULL, NULL, "dump3"))
  <2>1. PICK c : c = Request("LIST_", NULL, NULL, "dump3")
    OBVIOUS
  <2>2. c.op = "LIST_" /\ c.u = NULL /\ c.next = NULL /\ c.place = "dump3"
    BY <2>1, RequestIs
  <2>3. NULL \in Refs(mem_low, Given) /\ NULL \in Int /\ NULL \in Refs(mem_low, Seen(K, Given))
    BY <1>2, RefFacts DEF NULL
  <2>4. Args(memory, root, K, L, mem_low, Given, reading, c)
    BY <1>1, <2>2, <2>3 DEF Args, Places
  <2>5. Clear(K, L, mem_low, Given, reading, c)
    BY <2>2, <2>3 DEF Clear
  <2> QED
    BY <2>1, <2>4, <2>5
<1> QED
  BY <1>1, <1>3, <1>4, <1>5, CallKeeps

(* exeterm: the program that has just been read, or a definition's body.   *)
LEMMA EnterKeeps ==
  ASSUME Safe, HeapInv, Enter PROVE HeapInv' /\ Kept
<1>1. CASE pc = "run" /\ reading = <<"run">> /\ NewNode(memory, "LIST_", root["prog"], root["conts"], "conts")
  <2>1. Calm /\ Sides /\ mem_low \in Addr /\ Above(mem_low, Given)
    BY <1>1, RunFacts
  <2>2. PICK K, L : /\ Shape(memory, root, K, L, mem_low, Given, reading)
                    /\ Ordered(memory, root, K, L, mem_low, Given, reading)
                    /\ {bucket, current} \subseteq Usable(K)
    BY <2>1 DEF Calm, Usable
  <2>11. Formed(K, L, reading)
    BY <2>2 DEF Formed
  <2>12. Uses(K) /\ root["prog"] \in Usable(K)
    BY <1>1, <2>2, <2>11, HeapUses DEF Ordered, Hiding, Shows, Usable
  <2>3. bucket = NULL /\ current = NULL /\ ~defining
    BY <1>1, <2>1 DEF Calm, Pending, Sides
  <2>4. PICK u, r : u = root["prog"] /\ r = root["conts"]
    OBVIOUS
  <2>5. u \in Refs(mem_low, Given) /\ u \in Int /\ r \in Refs(mem_low, Given)
        /\ (r # NULL => r \in Given /\ K[r] = "conts")
    BY <1>1, <2>1, <2>2, <2>4, RefTypes DEF Shape, Reaches, Chains, Roots
  <2>6. PICK c : c = Request("LIST_", u, r, "conts")
    OBVIOUS
  <2>7. c.op = "LIST_" /\ c.u = u /\ c.next = r /\ c.place = "conts"
    BY <2>6, RequestIs
  <2>8. Args(memory, root, K, L, mem_low, Given, reading, c)
    BY <1>1, <2>5, <2>7 DEF Args, Places
  <2>13. Clear(K, L, mem_low, Given, reading, c)
    <3>1. u \in Usable(K) /\ r \in Usable(K)
      BY <2>4, <2>12 DEF Uses, Roots
    <3> QED
      BY <2>7, <3>1 DEF Clear, Usable
  <2>9. /\ Args(memory, root, K, L, mem_low, Given, reading, Request("LIST_", u, r, "conts"))
        /\ Clear(K, L, mem_low, Given, reading, Request("LIST_", u, r, "conts"))
    BY <2>6, <2>8, <2>13
  <2>10. NewNode(memory, "LIST_", u, r, "conts") /\ Still
    BY <1>1, <2>4 DEF Enter
  <2> QED
    BY <1>1, <2>2, <2>3, <2>9, <2>10, <2>11, CallKeeps
<1>2. CASE /\ Running
           /\ \E n \in Names : body[n] # NULL /\ NewNode(memory, "LIST_", body[n], root["conts"], "conts")
  <2>1. PICK n \in Names : NewNode(memory, "LIST_", body[n], root["conts"], "conts")
    BY <1>2
  <2>2. PICK u, r : u = body[n] /\ r = root["conts"]
    OBVIOUS
  <2>3. PICK K, L : Formed(K, L, reading) /\ Uses(K)
    BY <1>2, RunningFacts
  <2>4. r \in Usable(K) /\ (r # NULL => r \in Given /\ K[r] = "conts")
    BY <1>2, <2>2, <2>3 DEF Roots, Formed, Shape, Chains, Uses
  <2>5. u \in Refs(mem_low, Given) /\ u \in Int /\ u \in Usable(K)
    <3>1. pc = "run" /\ ~defining
      BY <1>2 DEF Running
    <3>2. Definitions /\ mem_low \in Addr
      BY <3>1, RunFacts
    <3>3. u \in Refs(mem_low, {})
      BY <2>2, <3>1, <3>2 DEF Definitions
    <3> QED
      BY <2>3, <3>2, <3>3, RefFacts DEF Usable, Uses
  <2>6. /\ Args(memory, root, K, L, mem_low, Given, reading, Request("LIST_", u, r, "conts"))
        /\ Clear(K, L, mem_low, Given, reading, Request("LIST_", u, r, "conts"))
    BY <1>2, <2>3, <2>4, <2>5, PlainArgs
  <2>7. NewNode(memory, "LIST_", u, r, "conts") /\ Still
    BY <2>1, <2>2 DEF Enter
  <2> QED
    BY <1>2, <2>3, <2>6, <2>7, OperatorKeeps
<1> QED
  BY <1>1, <1>2 DEF Enter

(* A value or a list that waits to be followed up. *)
LEMMA PendingFacts ==
  ASSUME HeapInv, pc = "run", bucket # NULL \/ current # NULL
  PROVE  /\ reading = <<>> /\ Even(root) /\ ~defining /\ (bucket = NULL \/ current = NULL)
         /\ bucket # NULL => Pair(memory, root)
         /\ \E K, L : Formed(K, L, reading) /\ Uses(K) /\ {bucket, current} \subseteq Usable(K)
<1>1. Calm
  BY RunFacts
<1>2. PICK K, L : Formed(K, L, reading) /\ {bucket, current} \subseteq Usable(K)
  BY <1>1 DEF Calm, Formed, Usable
<1>3. /\ reading = <<>> /\ Even(root) /\ ~defining /\ (bucket = NULL \/ current = NULL)
      /\ bucket # NULL => Pair(memory, root)
  BY <1>1 DEF Calm, Pending
<1>4. Uses(K)
  BY <1>2, HeapUses
<1> QED
  BY <1>2, <1>3, <1>4

LEMMA ConsListKeeps ==
  ASSUME Safe, HeapInv, ConsList PROVE HeapInv' /\ Kept
<1>1. PICK u, r : u = bucket /\ r = memory[Top.next].next
  OBVIOUS
<1>2. pc = "run" /\ bucket # NULL /\ Still /\ NewNode(memory, "LIST_", u, r, "stk")
  BY <1>1 DEF ConsList
<1>3. reading = <<>> /\ ~defining /\ current = NULL /\ Pair(memory, root)
  BY <1>1, <1>2, PendingFacts
<1>4. PICK K, L : Formed(K, L, reading) /\ Uses(K) /\ {bucket, current} \subseteq Usable(K)
  BY <1>2, PendingFacts
<1>5. /\ u \in Usable(K) /\ r \in Usable(K) /\ u \in Int
      /\ u \in Refs(mem_low, Given) /\ r \in Refs(mem_low, Given)
  <2>1. u \in Usable(K)
    BY <1>1, <1>4
  <2>2. root["stk"] \in Usable(K) /\ root["stk"] # NULL /\ memory[root["stk"]].next # NULL
    BY <1>3, <1>4 DEF Uses, Roots, Pair
  <2>3. memory[root["stk"]].next \in Usable(K)
    BY <1>4, <2>2 DEF Uses
  <2>4. r \in Usable(K)
    BY <1>1, <1>4, <2>2, <2>3 DEF Uses, Top
  <2> QED
    BY <1>4, <2>1, <2>4 DEF Uses
<1>6. /\ Args(memory, root, K, L, mem_low, Given, reading, Request("LIST_", u, r, "stk"))
      /\ Clear(K, L, mem_low, Given, reading, Request("LIST_", u, r, "stk"))
  <2>1. PICK c : c = Request("LIST_", u, r, "stk")
    OBVIOUS
  <2>2. c.op = "LIST_" /\ c.u = u /\ c.next = r /\ c.place = "stk"
    BY <2>1, RequestIs
  <2>3. Args(memory, root, K, L, mem_low, Given, reading, c)
    BY <1>3, <1>5, <2>2 DEF Args, Places
  <2>4. Clear(K, L, mem_low, Given, reading, c)
    BY <1>5, <2>2 DEF Clear, Usable
  <2> QED
    BY <2>1, <2>3, <2>4
<1> QED
  BY <1>2, <1>3, <1>4, <1>6, CallKeeps

LEMMA PrimrecMemberKeeps ==
  ASSUME Safe, HeapInv, PrimrecMember PROVE HeapInv' /\ Kept
<1>1. PICK o, u, r : o = memory[current].op /\ u = memory[current].u /\ r = root["stk"]
  OBVIOUS
<1>2. /\ pc = "run" /\ current # NULL /\ memoryindex # mem_mid /\ Still
      /\ NewNode(memory, o, u, r, "member")
  BY <1>1 DEF PrimrecMember, Safe
<1>3. reading = <<>> /\ Even(root) /\ ~defining /\ bucket = NULL
  BY <1>1, <1>2, PendingFacts
<1>4. PICK K, L : Formed(K, L, reading) /\ Uses(K) /\ {bucket, current} \subseteq Usable(K)
  BY <1>2, PendingFacts
<1>5. /\ o \in {"INTEGER_", "LIST_"} /\ u \in Int /\ r \in Usable(K) /\ r \in Refs(mem_low, Given)
      /\ o = "LIST_" => u \in Usable(K) /\ u \in Refs(mem_low, Given)
  <2>1. current \in Usable(K)
    BY <1>4
  <2> QED
    BY <1>1, <1>2, <1>4, <2>1 DEF Uses, Roots
<1>6. /\ Args(memory, root, K, L, mem_low, Given, reading, Request(o, u, r, "member"))
      /\ Clear(K, L, mem_low, Given, reading, Request(o, u, r, "member"))
  <2>1. PICK c : c = Request(o, u, r, "member")
    OBVIOUS
  <2>2. c.op = o /\ c.u = u /\ c.next = r /\ c.place = "member"
    BY <2>1, RequestIs
  <2>3. Args(memory, root, K, L, mem_low, Given, reading, c)
    BY <1>3, <1>5, <2>2 DEF Args, Places
  <2>4. Clear(K, L, mem_low, Given, reading, c)
    BY <1>5, <2>2 DEF Clear, Usable
  <2> QED
    BY <2>1, <2>3, <2>4
<1> QED
  BY <1>2, <1>3, <1>4, <1>6, CallKeeps

(* exeterm steps to the next factor before it pushes the literal. *)
LEMMA LiteralKeeps ==
  ASSUME Safe, HeapInv, Literal PROVE HeapInv' /\ Kept
<1>1. PICK a, p : a = root["conts"] /\ p = Dmp("conts")
  OBVIOUS
<1>2. PICK o, u, r, q : o = memory[p].op /\ u = memory[p].u /\ r = root["stk"] /\ q = memory[p].next
  OBVIOUS
<1>3. PICK h : h = [memory EXCEPT ![a].u = q]
  OBVIOUS
<1>4. Running /\ a # NULL /\ p # NULL /\ Still /\ NewNode(h, o, u, r, "literal")
  BY <1>1, <1>2, <1>3 DEF Literal
<1>5. PICK K, L : /\ Shape(memory, root, K, L, mem_low, Given, reading)
                  /\ Ordered(memory, root, K, L, mem_low, Given, reading) /\ Uses(K)
  BY <1>4, RunningFacts
<1>6. a \in Given /\ K[a] = "conts" /\ memory[a].op = "LIST_"
  BY <1>1, <1>4, <1>5 DEF Shape, Chains
<1>7. /\ pc = "run" /\ current = NULL /\ bucket = NULL /\ ~defining /\ reading = <<>>
      /\ mem_low \in Addr /\ Above(mem_low, Given) /\ Refs(mem_low, Given) \subseteq Ptr
  BY <1>4, RunningFacts
<1>8. memory \in [Addr -> Cell] /\ Lists(memory, Addr)
  BY <1>7, RunFacts
<1>9. a \in Refs(mem_low, Given) /\ a \in Addr /\ a >= mem_low
  BY <1>6, <1>7, RefFacts DEF Above
<1>21. p \in Usable(K) /\ memory[a].next \in Usable(K) /\ r \in Usable(K)
  <2>1. a \in Usable(K)
    BY <1>1, <1>5 DEF Uses, Roots
  <2> QED
    BY <1>1, <1>2, <1>4, <1>5, <1>6, <2>1 DEF Dmp, Roots, Uses
<1>10. p \in Refs(mem_low, Given) /\ memory[a].next \in Refs(mem_low, Given) /\ r \in Refs(mem_low, Given)
  BY <1>5, <1>21 DEF Uses
<1>11. /\ o \in {"INTEGER_", "LIST_"} /\ u \in Int /\ q \in Refs(mem_low, Given) /\ q \in Int
       /\ o = "LIST_" => u \in Refs(mem_low, Given) /\ u \in Usable(K)
  BY <1>2, <1>4, <1>5, <1>21 DEF Uses
<1>12. /\ h \in [Addr -> Cell] /\ \A x \in Addr : x # a => h[x] = memory[x]
       /\ h[a].op = memory[a].op /\ h[a].next = memory[a].next /\ h[a].u = q
  BY <1>3, <1>8, <1>9, <1>11 DEF Cell
<1>13. Lists(h, Addr)
  BY <1>7, <1>8, <1>11, <1>12 DEF Lists
<1>14. Shape(h, root, K, L, mem_low, Given, reading)
  <2>1. Sound(h[a], Refs(mem_low, Given))
    BY <1>6, <1>10, <1>11, <1>12 DEF Sound
  <2>2. MayWrite(memory, h, root, K, mem_low, Given, reading, a)
    BY <1>6, <1>12, <2>1 DEF MayWrite
  <2> QED
    BY <1>5, <1>6, <1>7, <2>2, WriteCell
<1>15. PICK c : c = Request(o, u, r, "literal")
  OBVIOUS
<1>16. c.op = o /\ c.u = u /\ c.next = r /\ c.place = "literal"
  BY <1>15, RequestIs
<1>17. Args(h, root, K, L, mem_low, Given, reading, c)
  BY <1>7, <1>10, <1>11, <1>16 DEF Args, Places
<1>22. Clear(K, L, mem_low, Given, reading, c)
  BY <1>11, <1>16, <1>21 DEF Clear, Usable
<1>23. Ordered(h, root, K, L, mem_low, Given, reading)
  <2>1. p = memory[a].u /\ h[a].u = memory[p].next
    BY <1>1, <1>2, <1>12 DEF Dmp
  <2> QED
    BY <1>4, <1>5, <1>6, <1>7, <1>12, <2>1, SkipOrdered
<1>24. current \in Refs(mem_low, Seen(K, Given))
  BY <1>5, <1>7 DEF Uses, Usable
<1>18. \A x \in 0 .. mem_low - 1 : h[x] = memory[x]
  <2> SUFFICES ASSUME NEW x \in 0 .. mem_low - 1 PROVE h[x] = memory[x]
    OBVIOUS
  <2>1. x \in Addr /\ x < mem_low
    BY <1>7, Below
  <2>2. x # a
    BY <1>7, <1>9, <2>1 DEF Addr
  <2> QED
    BY <1>12, <2>1, <2>2
<1>19. Fit(h, c, K, L)
  BY <1>7, <1>12, <1>13, <1>14, <1>16, <1>17, <1>22, <1>23, <1>24 DEF Fit
<1>20. c = [op |-> o, u |-> u, next |-> r, place |-> "literal", at |-> Target("literal")]
  BY <1>15 DEF Request
<1>25. HeapInv' /\ KeptFrom(h)
  BY <1>4, <1>7, <1>19, <1>20, NewNodeKeeps, ZenonT(30)
<1>26. pc' = "full" => memory' = memory
  BY <1>4, <1>7, NewNodeFull
<1>27. Kept
  BY <1>18, <1>25, <1>26 DEF KeptFrom, Kept
<1> QED
  BY <1>25, <1>27

-----------------------------------------------------------------------------
(* The reader.                                                             *)
LEMMA ReadingFacts ==
  ASSUME HeapInv, Reading
  PROVE  /\ pc = "run" /\ bucket = NULL /\ current = NULL
         /\ reading \in Seq(Phases) /\ Len(reading) \in Nat \ {0} /\ Depth(reading) = Len(reading)
         /\ reading # <<"run">> /\ Phase = reading[Len(reading)]
         /\ \A m \in 1 .. Len(reading) - 1 : reading[m] # "end"
         /\ \E K, L : /\ Formed(K, L, reading) /\ Uses(K)
                      /\ Shape(memory, root, K, L, mem_low, Given, reading)
                      /\ defining => Empty(root, K, Given)
<1>1. pc = "run" /\ reading # <<>> /\ Phase # "run" /\ Phase = reading[Len(reading)]
  BY DEF Reading, Phase
<1>2. Calm /\ Wellread(reading)
  BY <1>1, RunFacts
<1>3. bucket = NULL /\ current = NULL
  BY <1>1, <1>2 DEF Calm, Pending
<1>4. reading # <<"run">>
  BY <1>1
<1>5. reading \in Seq(Phases) /\ \A m \in 1 .. Len(reading) - 1 : reading[m] # "end"
  BY <1>2, <1>4 DEF Wellread
<1>6. Depth(reading) = Len(reading) /\ Len(reading) \in Nat \ {0}
  BY <1>1, <1>5, DepthIsLen
<1>7. PICK K, L : /\ Formed(K, L, reading) /\ Shape(memory, root, K, L, mem_low, Given, reading)
                  /\ defining => Empty(root, K, Given)
  BY <1>2 DEF Calm, Formed
<1>8. Uses(K)
  BY <1>1, <1>7, HeapUses
<1> QED
  BY <1>1, <1>3, <1>4, <1>5, <1>6, <1>7, <1>8

LEMMA ReadtermKeeps ==
  ASSUME Safe, HeapInv, Readterm PROVE HeapInv' /\ Kept
<1>1. /\ pc = "run" /\ reading = <<>> /\ bucket = NULL /\ current = NULL /\ Still
      /\ NewNode(memory, "LIST_", NULL, root["stk"], "header")
  BY DEF Readterm
<1>2. Calm /\ mem_low \in Addr
  BY <1>1, RunFacts
<1>3. PICK K, L : /\ Formed(K, L, reading) /\ Shape(memory, root, K, L, mem_low, Given, reading)
                  /\ defining => Empty(root, K, Given)
  BY <1>2 DEF Calm, Formed
<1>4. PICK r : r = root["stk"]
  OBVIOUS
<1>5. /\ r \in Refs(mem_low, Given) /\ NULL \in Refs(mem_low, Given) /\ NULL \in Int
      /\ r \in Usable(K) /\ NULL \in Usable(K)
  <2>1. Uses(K)
    BY <1>1, <1>3, HeapUses
  <2> QED
    BY <1>4, <2>1 DEF Uses, Roots, NULL
<1>6. PICK c : c = Request("LIST_", NULL, r, "header")
  OBVIOUS
<1>7. c.op = "LIST_" /\ c.u = NULL /\ c.next = r /\ c.place = "header"
  BY <1>6, RequestIs
<1>8. reading # <<"run">> /\ Depth(reading) = 0
  BY <1>1 DEF Depth
<1>9. Args(memory, root, K, L, mem_low, Given, reading, c)
  BY <1>5, <1>7, <1>8 DEF Args, Places
<1>10. Args(memory, root, K, L, mem_low, Given, reading, Request("LIST_", NULL, r, "header"))
  BY <1>6, <1>9
<1>12. Clear(K, L, mem_low, Given, reading, Request("LIST_", NULL, r, "header"))
  BY <1>5, <1>6, <1>7 DEF Clear, Usable
<1>11. NewNode(memory, "LIST_", NULL, r, "header") /\ "header" \in ReaderPlaces
  BY <1>1, <1>4 DEF ReaderPlaces
<1> QED
  BY <1>1, <1>3, <1>5, <1>10, <1>11, <1>12, CallKeeps

LEMMA ReadFactorKeeps ==
  ASSUME Safe, HeapInv, ReadList \/ ReadNumber PROVE HeapInv' /\ Kept
<1>1. PICK o, u, place :
        /\ Reading /\ Phase # "end" /\ Still /\ NewNode(memory, o, u, root["stk"], place)
        /\ \/ o = "LIST_" /\ u = NULL /\ place = "header"
           \/ o = "INTEGER_" /\ u \in Numbers /\ place = "factor"
  <2>1. CASE ReadList
    BY <2>1 DEF ReadList
  <2>2. CASE ReadNumber
    <3>1. PICK i \in Numbers : NewNode(memory, "INTEGER_", i, root["stk"], "factor")
      BY <2>2 DEF ReadNumber
    <3> QED
      BY <2>2, <3>1 DEF ReadNumber
  <2> QED
    BY <2>1, <2>2
<1>2. /\ pc = "run" /\ bucket = NULL /\ current = NULL
      /\ Len(reading) \in Nat \ {0} /\ Depth(reading) = Len(reading)
      /\ reading # <<"run">> /\ Phase = reading[Len(reading)]
  BY <1>1, ReadingFacts
<1>3. PICK K, L : /\ Formed(K, L, reading) /\ Uses(K)
                  /\ Shape(memory, root, K, L, mem_low, Given, reading)
                  /\ defining => Empty(root, K, Given)
  BY <1>1, ReadingFacts
<1>4. mem_low \in Addr
  BY <1>2, RunFacts
<1>5. PICK r : r = root["stk"]
  OBVIOUS
<1>6. HeaderAt(K, L, Given, r, Depth(reading))
  BY <1>2, <1>3, <1>5 DEF Shape, Terms
<1>7. r \in Refs(mem_low, Given) /\ NULL \in Refs(mem_low, Given) /\ NULL \in Int
  BY <1>4, <1>6, RefFacts DEF HeaderAt, NULL
<1>8. /\ place \in ReaderPlaces /\ place \in Places /\ place \in {"header", "factor"}
      /\ o \in {"INTEGER_", "LIST_"} /\ u \in Int
      /\ o = "LIST_" => u \in Refs(mem_low, Given)
      /\ place = "header" => o = "LIST_"
  BY <1>1, <1>7, HeapAssumption DEF ReaderPlaces, Places
<1>9. PICK c : c = Request(o, u, r, place)
  OBVIOUS
<1>10. c.op = o /\ c.u = u /\ c.next = r /\ c.place = place
  BY <1>9, RequestIs
<1>11. Depth(reading) # 0 /\ reading[Depth(reading)] # "end"
  BY <1>1, <1>2
<1>12. Args(memory, root, K, L, mem_low, Given, reading, c)
  BY <1>2, <1>6, <1>7, <1>8, <1>10, <1>11 DEF Args
<1>13. Args(memory, root, K, L, mem_low, Given, reading, Request(o, u, r, place))
  BY <1>9, <1>12
<1>15. r \in Usable(K) /\ {bucket, current} \subseteq Usable(K) /\ NULL \in Usable(K)
  BY <1>2, <1>3, <1>5 DEF Uses, Roots
<1>16. Clear(K, L, mem_low, Given, reading, Request(o, u, r, place))
  BY <1>1, <1>9, <1>10, <1>15 DEF Clear, Usable
<1>14. NewNode(memory, o, u, r, place) /\ Still
  BY <1>1, <1>5
<1> QED
  BY <1>2, <1>3, <1>8, <1>13, <1>14, <1>15, <1>16, CallKeeps

LEMMA ReadEndKeeps ==
  ASSUME Safe, HeapInv, ReadEnd PROVE HeapInv' /\ Kept
<1>1. PICK u, r : u = Top.u /\ r = root["dump"]
  OBVIOUS
<1>2. Reading /\ Phase = "end" /\ Still /\ NewNode(memory, "LIST_", u, r, "end")
  BY <1>1 DEF ReadEnd
<1>3. /\ pc = "run" /\ bucket = NULL /\ current = NULL
      /\ Len(reading) \in Nat \ {0} /\ Depth(reading) = Len(reading)
      /\ reading # <<"run">> /\ Phase = reading[Len(reading)]
  BY <1>2, ReadingFacts
<1>4. PICK K, L : /\ Formed(K, L, reading) /\ Uses(K)
                  /\ Shape(memory, root, K, L, mem_low, Given, reading)
                  /\ defining => Empty(root, K, Given)
  BY <1>2, ReadingFacts
<1>5. mem_low \in Addr /\ Above(mem_low, Given)
  BY <1>3, RunFacts
<1>6. Depth(reading) # 0 /\ reading[Depth(reading)] = "end"
  BY <1>2, <1>3
<1>7. TailAt(K, Given, u) /\ OnEnds(K, L, Given, reading, Depth(reading), r)
  BY <1>1, <1>4, <1>6 DEF Shape, Terms, Top
<1>8. u \in Refs(mem_low, Given) /\ u \in Int /\ r \in Refs(mem_low, Given)
  <2>1. u \in Refs(mem_low, Given)
    BY <1>5, <1>7, RefFacts DEF TailAt
  <2>2. r \in Refs(mem_low, Given)
    BY <1>1, <1>4 DEF Shape, Reaches, Roots
  <2> QED
    BY <1>5, <2>1, <2>2, RefTypes
<1>9. PICK c : c = Request("LIST_", u, r, "end")
  OBVIOUS
<1>10. c.op = "LIST_" /\ c.u = u /\ c.next = r /\ c.place = "end"
  BY <1>9, RequestIs
<1>11. Args(memory, root, K, L, mem_low, Given, reading, c)
  BY <1>6, <1>7, <1>8, <1>10 DEF Args, Places
<1>12. Args(memory, root, K, L, mem_low, Given, reading, Request("LIST_", u, r, "end"))
  BY <1>9, <1>11
<1>14. u \in Usable(K) /\ r \in Usable(K) /\ {bucket, current} \subseteq Usable(K)
  <2>1. HeaderAt(K, L, Given, root["stk"], Depth(reading)) /\ Top.op = "LIST_"
    BY <1>4, <1>6 DEF Shape, Terms, HeaderAt, Top
  <2>2. root["stk"] \in Usable(K) /\ root["dump"] \in Usable(K) /\ NULL \in Usable(K)
    BY <1>4 DEF Uses, Roots
  <2>3. root["stk"] # NULL
    BY <1>5, <2>1 DEF HeaderAt, Above, Addr, NULL
  <2> QED
    BY <1>1, <1>3, <1>4, <2>1, <2>2, <2>3 DEF Uses, Top
<1>15. Clear(K, L, mem_low, Given, reading, Request("LIST_", u, r, "end"))
  <2>1. TermAt(K, L, Given, u, Depth(reading))
    <3>1. HeaderAt(K, L, Given, root["stk"], Depth(reading)) /\ Depth(reading) \in 1 .. Depth(reading)
      BY <1>3, <1>4, <1>6 DEF Shape, Terms
    <3> QED
      BY <1>1, <1>4, <3>1 DEF Formed, Ordered, Leveled, HeaderAt, Top
  <2> QED
    BY <1>9, <1>10, <1>14, <2>1 DEF Clear, Usable
<1>13. "end" \in ReaderPlaces
  BY DEF ReaderPlaces
<1> QED
  BY <1>2, <1>3, <1>4, <1>12, <1>13, <1>14, <1>15, CallKeeps

(* A term is taken off the stack, its end off dump. *)
LEMMA Closing ==
  ASSUME HeapInv, Reading, Phase # "end", NEW rd \in Seq(Phases),
         Len(rd) = Len(reading) - 1, \A m \in 1 .. Len(reading) - 1 : rd[m] = reading[m],
         NEW R, R = [Closed EXCEPT !["stk"] = Top.next]
  PROVE  /\ R \in [Roots -> Ptr] /\ \A x \in Roots \ {"stk", "dump"} : R[x] = root[x]
         /\ root["stk"] \in Given /\ Top.op = "LIST_"
         /\ Top.u \in Refs(mem_low, Given) /\ R["stk"] = Top.next
         /\ \E K, L : /\ Formed(K, L, reading) /\ Uses(K)
                      /\ HeaderAt(K, L, Given, root["stk"], Len(reading))
                      /\ Shape(memory, R, As(K, root["stk"], "tail"), L, mem_low, Given, rd)
                      /\ {Top.u, R["stk"], R["dump"]} \subseteq Usable(K)
                      /\ defining => Empty(R, As(K, root["stk"], "tail"), Given)
<1> DEFINE s == root["stk"]
<1>1. /\ pc = "run" /\ reading \in Seq(Phases) /\ Len(reading) \in Nat \ {0}
      /\ Phase = reading[Len(reading)] /\ \A m \in 1 .. Len(reading) - 1 : reading[m] # "end"
  BY ReadingFacts
<1>2. /\ mem_low \in Addr /\ Above(mem_low, Given) /\ Refs(mem_low, Given) \subseteq Ptr
      /\ root \in [Roots -> Ptr]
  BY <1>1, RunFacts
<1>3. PICK K, L : /\ Formed(K, L, reading) /\ Uses(K)
                  /\ Shape(memory, root, K, L, mem_low, Given, reading)
                  /\ defining => Empty(root, K, Given)
  BY ReadingFacts
<1>4. /\ DOMAIN R = Roots /\ \A x \in Roots \ {"stk", "dump"} : R[x] = root[x]
      /\ R["stk"] = memory[root["stk"]].next
      /\ R["dump"] = IF reading[Len(reading)] = "more" THEN memory[root["dump"]].next ELSE root["dump"]
  BY <1>1, <1>2 DEF Closed, Top, Roots
<1> DEFINE K2 == [K EXCEPT ![root["stk"]] = "tail"]
<1>5. /\ HeaderAt(K, L, Given, root["stk"], Len(reading)) /\ memory[root["stk"]].op = "LIST_"
      /\ Shape(memory, R, K2, L, mem_low, Given, rd)
  <2>1. Len(reading) # 0 /\ reading[Len(reading)] # "end"
    BY <1>1
  <2>2. Closes(memory, root, R, K, L, mem_low, Given, reading, rd)
    BY <1>1, <1>2, <1>3, <1>4, <2>1 DEF Closes
  <2> QED
    BY <2>2, CloseTerm
<1>6. s \in Given /\ Top.op = "LIST_" /\ Top.u \in Refs(mem_low, Given) /\ R["stk"] = Top.next
  BY <1>3, <1>4, <1>5 DEF HeaderAt, Top, Shape, Closure, Sound
<1>7. K2[s] = "tail" /\ \A x \in Given : x # s => K2[x] = K[x]
  BY <1>2, <1>3, <1>6 DEF Shape, Above
<1>8. defining => Empty(R, K2, Given)
  <2>1. /\ R["conts"] = root["conts"] /\ R["dump2"] = root["dump2"]
        /\ \A x \in {"dump1", "dump4", "dump5"} : R[x] = root[x]
    BY <1>4 DEF Roots
  <2> QED
    BY <1>3, <1>7, <2>1 DEF Empty
<1>9. R \in [Roots -> Ptr]
  <2>1. R = [x \in Roots |-> R[x]]
    BY <1>4 DEF Closed, Top
  <2>2. \A x \in Roots : R[x] \in Ptr
    <3>1. R["stk"] \in Ptr /\ R["dump"] \in Ptr
      BY <1>2, <1>5 DEF Shape, Reaches, Roots
    <3> QED
      BY <1>2, <1>4, <3>1
  <2> QED
    BY <2>1, <2>2
<1>10. {Top.u, R["stk"], R["dump"]} \subseteq Usable(K)
  <2>1. root["stk"] \in Usable(K) /\ root["dump"] \in Usable(K) /\ root["stk"] # NULL
    BY <1>2, <1>3, <1>6 DEF Uses, Roots, Above, Addr, NULL
  <2>2. Top.u \in Usable(K) /\ R["stk"] \in Usable(K)
    BY <1>3, <1>4, <1>6, <2>1 DEF Uses, Top
  <2>3. ASSUME reading[Len(reading)] = "more" PROVE root["dump"] # NULL
    <3>1. Depth(reading) = Len(reading)
      BY <1>1, DepthIsLen
    <3>2. EndAt(K, L, Given, root["dump"], Len(reading))
      BY <1>1, <1>3, <2>3, <3>1, EndsTop DEF Shape, Terms
    <3> QED
      BY <1>2, <3>2 DEF EndAt, Above, Addr, NULL
  <2>4. R["dump"] \in Usable(K)
    BY <1>3, <1>4, <2>1, <2>3 DEF Uses
  <2> QED
    BY <2>2, <2>4
<1> HIDE DEF K2
<1>11. K2 = As(K, root["stk"], "tail")
  BY DEF K2, As
<1> QED
  BY <1>3, <1>4, <1>5, <1>6, <1>8, <1>9, <1>10, <1>11

(* The outermost term is no longer read: nothing is to be kept apart. *)
LEMMA TailOrdered ==
  ASSUME NEW low \in Addr, NEW F, NEW M, NEW R, NEW R2, NEW K \in [Addr -> Kind], NEW L, NEW rd, NEW rd2,
         Above(low, F), Ordered(M, R, K, L, low, F, rd), NEW s \in F, K[s] = "header",
         Shape(M, R2, As(K, s, "tail"), L, low, F, rd2), Depth(rd2) = 0,
         Shows(R2, Refs(low, Seen(K, F)), rd2)
  PROVE  \E L2 : /\ Shape(M, R2, As(K, s, "tail"), L2, low, F, rd2)
                 /\ Ordered(M, R2, As(K, s, "tail"), L2, low, F, rd2)
<1> DEFINE K2 == As(K, s, "tail")
           L2 == [a \in Addr |-> IF K2[a] \in {"header", "end"} THEN L[a] ELSE 0]
<1>1. K2[s] = "tail" /\ \A a \in F \ {s} : K2[a] = K[a]
  BY DEF As, Above
<1>2. Seen(K2, F) = Seen(K, F)
  BY <1>1 DEF Seen, Hidden
<1>3. L2 \in [Addr -> Int]
  BY DEF Shape
<1>4. \A a \in F : IF K2[a] \in {"header", "end"} THEN L2[a] = L[a] ELSE L2[a] = 0
  BY DEF Above
<1> HIDE DEF K2, L2
<1>5. Shape(M, R2, K2, L2, low, F, rd2)
  BY <1>3, <1>4, Relevel DEF K2
<1>6. Leveled(M, K2, L2, F, rd2)
  BY <1>4 DEF Leveled
<1> QED
  BY <1>2, <1>5, <1>6 DEF K2, Ordered, Hiding

LEMMA CloseProgramKeeps ==
  ASSUME Safe, HeapInv, CloseProgram PROVE HeapInv' /\ Kept
<1>1. /\ Reading /\ Phase # "end" /\ Len(reading) = 1 /\ ~defining
      /\ root' = [Closed EXCEPT !["prog"] = Top.u, !["stk"] = Top.next, !["conts"] = NULL]
      /\ reading' = IF Top.u = NULL THEN <<>> ELSE <<"run">>
      /\ UNCHANGED <<mem, body, defining, current, bucket, gc>>
  BY DEF CloseProgram
<1>2. /\ pc = "run" /\ bucket = NULL /\ current = NULL
  BY <1>1, ReadingFacts
<1>3. mem_low \in Addr /\ Above(mem_low, Given) /\ Refs(mem_low, Given) \subseteq Ptr
  BY <1>2, RunFacts
<1>4. PICK R : R = [Closed EXCEPT !["stk"] = Top.next]
  OBVIOUS
<1>5. /\ <<>> \in Seq(Phases) /\ Len(<<>>) = Len(reading) - 1
      /\ \A m \in 1 .. Len(reading) - 1 : <<>>[m] = reading[m]
  BY <1>1
<1>6. /\ R \in [Roots -> Ptr] /\ Top.u \in Refs(mem_low, Given)
      /\ \A x \in Roots \ {"stk", "dump"} : R[x] = root[x]
      /\ \E K, L : /\ Formed(K, L, reading) /\ Uses(K)
                   /\ HeaderAt(K, L, Given, root["stk"], Len(reading))
                   /\ Shape(memory, R, As(K, root["stk"], "tail"), L, mem_low, Given, <<>>)
                   /\ {Top.u, R["stk"], R["dump"]} \subseteq Usable(K)
                   /\ defining => Empty(R, As(K, root["stk"], "tail"), Given)
  BY <1>1, <1>4, <1>5, Closing, Zenon
<1>16. PICK K0, L : /\ Formed(K0, L, reading) /\ Uses(K0)
                   /\ HeaderAt(K0, L, Given, root["stk"], Len(reading))
                   /\ Shape(memory, R, As(K0, root["stk"], "tail"), L, mem_low, Given, <<>>)
                   /\ {Top.u, R["stk"], R["dump"]} \subseteq Usable(K0)
  BY <1>6
<1>17. PICK K : K = As(K0, root["stk"], "tail")
  OBVIOUS
<1>7. Shape(memory, R, K, L, mem_low, Given, <<>>)
  BY <1>16, <1>17
<1>8. /\ root' \in [Roots -> Ptr] /\ root'["conts"] = NULL /\ root'["prog"] = Top.u
      /\ \A x \in Roots \ {"prog", "conts"} : root'[x] = R[x]
  <2>1. root' = [R EXCEPT !["prog"] = Top.u, !["conts"] = NULL]
    BY <1>1, <1>4 DEF Roots
  <2> QED
    BY <1>3, <1>6, <2>1 DEF Ptr, Roots
<1>9. /\ root'["dump"] = R["dump"] /\ root'["dump2"] = R["dump2"] /\ root'["dump3"] = R["dump3"]
  BY <1>8 DEF Roots
<1>10. Reaches(root', mem_low, Given, reading')
  BY <1>3, <1>6, <1>7, <1>8, RefFacts DEF Shape, Reaches
<1>11. Depth(<<>>) = 0 /\ Depth(reading') = 0 /\ Wellread(reading')
  BY <1>1, <1>5 DEF Depth, Wellread
<1>12. OnDump(K, Given, root'["dump"])
  BY <1>3, <1>7, <1>9, <1>11, NoTerm
<1>13. Maps(memory, root', K, Given)
  BY <1>7, <1>9 DEF Shape, Maps
<1>14. Shape(memory, root', K, L, mem_low, Given, reading')
  BY <1>3, <1>7, <1>8, <1>10, <1>11, <1>12, <1>13, SetRegisters
<1>15. Shows(root', Refs(mem_low, Seen(K0, Given)), reading')
  <2>1. \A x \in Roots \ {"prog", "dump2", "dump3"} : root'[x] \in Usable(K0)
    BY <1>6, <1>8, <1>16 DEF Uses
  <2> QED
    BY <1>8, <1>16, <2>1 DEF Shows, Usable
<1>18. PICK L2 : /\ Shape(memory, root', K, L2, mem_low, Given, reading')
                /\ Ordered(memory, root', K, L2, mem_low, Given, reading')
  <2>1. Ordered(memory, root, K0, L, mem_low, Given, reading) /\ K0 \in [Addr -> Kind]
    BY <1>16 DEF Formed, Shape
  <2>2. root["stk"] \in Given /\ K0[root["stk"]] = "header"
    BY <1>16 DEF HeaderAt
  <2> QED
    BY <1>3, <1>11, <1>14, <1>15, <1>17, <2>1, <2>2, TailOrdered
<1> QED
  BY <1>1, <1>2, <1>8, <1>11, <1>18, SetRootsKeeps

LEMMA CloseDefinitionKeeps ==
  ASSUME Safe, HeapInv, CloseDefinition PROVE HeapInv' /\ Kept
<1>1. /\ Reading /\ Phase # "end" /\ Len(reading) = 1 /\ defining
      /\ root' = [Closed EXCEPT !["stk"] = Top.next] /\ reading' = <<>>
      /\ UNCHANGED <<mem, defining, current, bucket, gc>>
  BY DEF CloseDefinition
<1>2. PICK n \in Names : body' = [body EXCEPT ![n] = Top.u]
  BY DEF CloseDefinition
<1>3. /\ pc = "run" /\ bucket = NULL /\ current = NULL
  BY <1>1, ReadingFacts
<1>4. /\ TypeOK /\ Bounded /\ calls = <<>> /\ memory \in [Addr -> Cell] /\ Lists(memory, Addr)
      /\ body \in [Names -> Ptr] /\ defining \in BOOLEAN /\ Definitions /\ Sides
      /\ mem_low \in Addr /\ Above(mem_low, Given) /\ Refs(mem_low, Given) \subseteq Ptr
  BY <1>3, RunFacts
<1>5. PICK R : R = root'
  OBVIOUS
<1>6. /\ <<>> \in Seq(Phases) /\ Len(<<>>) = Len(reading) - 1
      /\ \A m \in 1 .. Len(reading) - 1 : <<>>[m] = reading[m]
  BY <1>1
<1>7. /\ R \in [Roots -> Ptr] /\ Top.u \in Refs(mem_low, Given)
      /\ \A x \in Roots \ {"stk", "dump"} : R[x] = root[x]
      /\ \E K, L : /\ Formed(K, L, reading) /\ Uses(K)
                   /\ HeaderAt(K, L, Given, root["stk"], Len(reading))
                   /\ Shape(memory, R, As(K, root["stk"], "tail"), L, mem_low, Given, <<>>)
                   /\ {Top.u, R["stk"], R["dump"]} \subseteq Usable(K)
                   /\ defining => Empty(R, As(K, root["stk"], "tail"), Given)
  <2>1. R = [Closed EXCEPT !["stk"] = Top.next]
    BY <1>1, <1>5
  <2> QED
    BY <1>1, <1>6, <2>1, Closing
<1>16. PICK K0, L0 : /\ Formed(K0, L0, reading) /\ Uses(K0)
                     /\ HeaderAt(K0, L0, Given, root["stk"], Len(reading))
                     /\ Shape(memory, R, As(K0, root["stk"], "tail"), L0, mem_low, Given, <<>>)
                     /\ {Top.u, R["stk"], R["dump"]} \subseteq Usable(K0)
                     /\ Empty(R, As(K0, root["stk"], "tail"), Given)
  BY <1>1, <1>7
<1>17. PICK K : K = As(K0, root["stk"], "tail")
  OBVIOUS
<1>18. <<>> # <<"run">> /\ Depth(<<>>) = 0
  BY DEF Depth
<1>19. Shows(R, Refs(mem_low, Seen(K0, Given)), <<>>)
  BY <1>7, <1>16, <1>18 DEF Shows, Usable, Uses
<1>8. PICK L : /\ Shape(memory, R, K, L, mem_low, Given, <<>>)
               /\ Ordered(memory, R, K, L, mem_low, Given, <<>>)
               /\ Empty(R, K, Given)
  <2>1. Ordered(memory, root, K0, L0, mem_low, Given, reading) /\ K0 \in [Addr -> Kind]
    BY <1>16 DEF Formed, Shape
  <2>2. root["stk"] \in Given /\ K0[root["stk"]] = "header"
    BY <1>16 DEF HeaderAt
  <2> QED
    BY <1>4, <1>16, <1>17, <1>18, <1>19, <2>1, <2>2, TailOrdered
<1>9. UNCHANGED <<memory, memoryindex, mem_low, mem_mid, direction, defining, current, bucket>>
  BY <1>1 DEF mem
<1>10. Bounded' /\ Given' = Given
  BY <1>4, <1>9 DEF Bounded, Given
<1>11. body' \in [Names -> Ptr] /\ Definitions'
  <2>1. body' \in [Names -> Ptr]
    BY <1>2, <1>4, <1>7
  <2>2. \A m \in Names : body'[m] \in Refs(mem_low, Given)
    BY <1>1, <1>2, <1>4, <1>7 DEF Definitions
  <2> QED
    BY <1>1, <1>9, <1>10, <2>1, <2>2 DEF Definitions
<1>12. /\ Shape(memory', root', K, L, mem_low', Given', reading')
       /\ Ordered(memory', root', K, L, mem_low', Given', reading') /\ Empty(root', K, Given')
  BY <1>1, <1>5, <1>8, <1>9, <1>10
<1>13. direction' = 1 /\ reading' # <<"run">> /\ Wellread(reading')
  BY <1>1, <1>4, <1>9 DEF Sides, Wellread
<1>14. /\ memory' \in [Addr -> Cell] /\ Lists(memory', Addr) /\ root' \in [Roots -> Ptr]
       /\ defining' \in BOOLEAN /\ UNCHANGED gc /\ UNCHANGED <<current, bucket>>
  BY <1>1, <1>4, <1>5, <1>7, <1>9
<1>15. HeapInv'
  BY <1>3, <1>4, <1>10, <1>11, <1>12, <1>13, <1>14, RunKeeps
<1> QED
  BY <1>9, <1>15 DEF Kept

(* The phases of the terms around the one that is closed. *)
LEMMA OuterIs ==
  ASSUME NEW rd \in Seq(Phases), NEW n, n = Len(rd), n > 1, \A m \in 1 .. n - 1 : rd[m] # "end",
         NEW o, o = SubSeq(rd, 1, Len(rd) - 1)
  PROVE  /\ o \in Seq(Phases) /\ Len(o) = n - 1 /\ Len(o) \in Nat \ {0}
         /\ \A m \in 1 .. n - 1 : o[m] = rd[m] /\ o[m] # "end"
<1>1. n \in Nat
  OBVIOUS
<1>2. PICK k : k = n - 1
  OBVIOUS
<1>3. k \in Nat \ {0} /\ o = SubSeq(rd, 1, k) /\ \A m \in 1 .. k : m \in 1 .. Len(rd)
  BY <1>1, <1>2
<1>4. \A m \in 1 .. k : rd[m] \in Phases
  BY <1>3
<1>5. /\ SubSeq(rd, 1, k) \in Seq(Phases)
      /\ Len(SubSeq(rd, 1, k)) = IF 1 <= k THEN k - 1 + 1 ELSE 0
      /\ \A m \in 1 .. k - 1 + 1 : SubSeq(rd, 1, k)[m] = rd[1 + m - 1]
  BY <1>3, <1>4, SubSeqProperties
<1>6. Len(o) = k
  BY <1>3, <1>5
<1>7. \A m \in 1 .. k : o[m] = rd[m]
  <2>1. \A m \in 1 .. k : m \in 1 .. k - 1 + 1 /\ 1 + m - 1 = m
    BY <1>3
  <2> QED
    BY <1>3, <1>5, <2>1
<1>8. o \in Seq(Phases)
  BY <1>3, <1>5
<1> QED
  BY <1>2, <1>3, <1>6, <1>7, <1>8

LEMMA LinkedReads ==
  ASSUME NEW M, NEW M2, NEW s, NEW d, NEW t, NEW rd \in Seq(Phases), NEW rd2, Len(rd) # 0,
         \A m \in 1 .. Len(rd) : rd[m] # "end", LinksFactor(M, M2, s, d, t, rd, rd2)
  PROVE  Wellread(rd2) /\ rd2 # <<"run">>
<1>1. rd2 = rd \/ rd2 = [rd EXCEPT ![Len(rd)] = "end"]
  BY DEF LinksFactor
<1>2. rd2 \in Seq(Phases) /\ Len(rd2) = Len(rd) /\ \A m \in 1 .. Len(rd) - 1 : rd2[m] = rd[m]
  BY <1>1 DEF Phases
<1>3. rd2 # <<"run">>
  BY <1>2, DepthIsLen
<1>4. \A m \in 1 .. Len(rd) - 1 : m \in 1 .. Len(rd)
  OBVIOUS
<1> QED
  BY <1>2, <1>3, <1>4 DEF Wellread

LEMMA CloseListKeeps ==
  ASSUME Safe, HeapInv, CloseList PROVE HeapInv' /\ Kept
<1>1. /\ Reading /\ Phase # "end" /\ Len(reading) > 1
      /\ UNCHANGED <<memoryindex, mem_low, mem_mid, direction, body, defining, current, bucket, gc>>
  BY DEF CloseList
<1>2. PICK s, R, rd, rd2, d, t :
        /\ s = root["stk"] /\ R = [Closed EXCEPT !["stk"] = Top.next] /\ rd = Outer /\ rd2 = reading'
        /\ d = R["dump"] /\ t = memory[d].u
  OBVIOUS
<1>3. /\ pc = "run" /\ bucket = NULL /\ current = NULL /\ reading \in Seq(Phases)
      /\ Phase = reading[Len(reading)]
      /\ \A m \in 1 .. Len(reading) - 1 : reading[m] # "end"
  BY <1>1, ReadingFacts
<1>4. /\ TypeOK /\ Bounded /\ calls = <<>> /\ memory \in [Addr -> Cell] /\ Lists(memory, Addr)
      /\ body \in [Names -> Ptr] /\ defining \in BOOLEAN /\ Definitions /\ Sides
      /\ mem_low \in Addr /\ Above(mem_low, Given) /\ Refs(mem_low, Given) \subseteq Ptr
      /\ root \in [Roots -> Ptr]
  BY <1>3, RunFacts
<1>5. PICK n : n = Len(reading)
  OBVIOUS
<1>6. /\ rd \in Seq(Phases) /\ Len(rd) = n - 1 /\ Len(rd) \in Nat \ {0}
      /\ \A m \in 1 .. n - 1 : rd[m] = reading[m] /\ rd[m] # "end"
  BY <1>1, <1>2, <1>3, <1>5, OuterIs DEF Outer
<1>7. /\ R \in [Roots -> Ptr] /\ s \in Given /\ Top.op = "LIST_" /\ R["stk"] = memory[s].next
      /\ \A x \in Roots \ {"stk", "dump"} : R[x] = root[x]
      /\ \E K, L : /\ Formed(K, L, reading) /\ Uses(K)
                   /\ HeaderAt(K, L, Given, s, Len(reading))
                   /\ Shape(memory, R, As(K, s, "tail"), L, mem_low, Given, rd)
                   /\ {Top.u, R["stk"], R["dump"]} \subseteq Usable(K)
                   /\ defining => Empty(R, As(K, s, "tail"), Given)
  BY <1>1, <1>2, <1>5, <1>6, Closing DEF Top
<1>21. PICK K0, L : /\ Formed(K0, L, reading) /\ Uses(K0)
                    /\ HeaderAt(K0, L, Given, s, Len(reading))
                    /\ Shape(memory, R, As(K0, s, "tail"), L, mem_low, Given, rd)
                    /\ {Top.u, R["stk"], R["dump"]} \subseteq Usable(K0)
                    /\ defining => Empty(R, As(K0, s, "tail"), Given)
  BY <1>7
<1>22. PICK K : K = As(K0, s, "tail")
  OBVIOUS
<1>23. /\ Shape(memory, root, K0, L, mem_low, Given, reading) /\ K0 \in [Addr -> Kind]
       /\ Ordered(memory, root, K0, L, mem_low, Given, reading) /\ L \in [Addr -> Int]
       /\ K0[s] = "header" /\ L[s] = n
  BY <1>5, <1>21 DEF Formed, HeaderAt, Shape
<1>8. /\ Shape(memory, R, K, L, mem_low, Given, rd) /\ K[s] = "tail"
      /\ \A a \in Given \ {s} : K[a] = K0[a]
      /\ defining => Empty(R, K, Given)
  BY <1>4, <1>7, <1>21, <1>22, <1>23 DEF As, Above
<1>9. root' = R /\ LinksFactor(memory, memory', s, d, t, rd, rd2)
  <2>1. d = Closed["dump"]
    BY <1>2, <1>4 DEF Closed, Roots
  <2>2. CASE rd[Len(rd)] = "first"
    BY <1>2, <2>1, <2>2 DEF CloseList, LinksFactor, Top
  <2>3. CASE rd[Len(rd)] # "first"
    BY <1>2, <2>1, <2>3 DEF CloseList, LinksFactor, Top
  <2> QED
    BY <2>2, <2>3
<1>10. PICK M2 : M2 = memory'
  OBVIOUS
<1>11. Linking(memory, M2, R, K, L, mem_low, Given, rd, rd2, s, d, t)
  <2>1. Len(rd) # 0 /\ rd[Len(rd)] # "end"
    <3>1. n \in Nat /\ Len(rd) \in 1 .. n - 1
      BY <1>3, <1>5, <1>6
    <3> QED
      BY <1>6, <3>1
  <2> QED
    BY <1>2, <1>4, <1>6, <1>7, <1>8, <1>9, <1>10, <2>1 DEF Linking
<1>12. /\ Shape(M2, R, K, L, mem_low, Given, rd2) /\ M2 \in [Addr -> Cell]
       /\ \A x \in Addr \ Given : M2[x] = memory[x]
  BY <1>11, LinkedIn
<1> DEFINE m  == Len(rd)
           L2 == Joined(K0, L, s, m)
<1>24. /\ m \in Nat \ {0} /\ n = m + 1 /\ Depth(reading) = n /\ Depth(rd) = m /\ Depth(rd2) = m
       /\ rd2 # <<"run">> /\ \A j \in 1 .. m : rd2[j] = "more" => reading[j] = "more"
  <2>1. m \in Nat \ {0} /\ n = m + 1
    BY <1>3, <1>5, <1>6
  <2>2. rd2 \in Seq(Phases) /\ Len(rd2) = m /\ \A j \in 1 .. m : rd2[j] = "more" => rd[j] = "more"
    <3>1. rd2 = rd \/ rd2 = [rd EXCEPT ![m] = "end"]
      BY <1>9 DEF LinksFactor
    <3> QED
      BY <1>6, <3>1 DEF Phases
  <2>3. \A j \in 1 .. m : rd[j] = reading[j]
    BY <1>6, <2>1
  <2> QED
    BY <1>3, <1>5, <1>6, <2>1, <2>2, <2>3, DepthIsLen
<1>25. Appends(memory, M2, K0, L, Given, s, m)
  <2>1. rd[m] = "first" => HeaderAt(K0, L, Given, memory[s].next, m) /\ memory[s].next # s
    <3>1. n \in 2 .. Depth(reading)
      BY <1>24
    <3>2. HeaderAt(K0, L, Given, memory[s].next, n - 1)
      BY <1>7, <1>23, <3>1 DEF Shape, Terms
    <3> QED
      BY <1>23, <1>24, <3>2 DEF HeaderAt
  <2>2. ASSUME rd[m] # "first"
        PROVE  EndAt(K0, L, Given, d, m) /\ t \in Given /\ K0[t] = "tail" /\ L[t] = m /\ t # s /\ d # s
    <3>1. rd[m] = "more" /\ m \in 1 .. Depth(rd) /\ m \in 1 .. Depth(reading) /\ reading[m] = "more"
      <4>1. m \in 1 .. n - 1 /\ m \in 1 .. Len(rd)
        BY <1>24
      <4>2. rd[m] \in Phases /\ rd[m] = reading[m] /\ rd[m] # "end"
        BY <1>6, <4>1
      <4> QED
        BY <1>24, <2>2, <4>2 DEF Phases
    <3>2. EndAt(K, L, Given, d, m)
      BY <1>2, <1>8, <1>24, <3>1, EndsTop DEF Shape, Terms
    <3>3. EndAt(K0, L, Given, d, m) /\ d # s
      BY <1>8, <3>2 DEF EndAt
    <3>4. TailAt(K, Given, t)
      BY <1>2, <1>8, <3>1, <3>2 DEF Shape, Terms, EndAt
    <3>5. TermAt(K0, L, Given, t, m)
      BY <1>2, <1>23, <3>1, <3>3 DEF Ordered, Leveled, EndAt
    <3> QED
      BY <1>23, <3>3, <3>4, <3>5 DEF TailAt, TermAt
  <2> QED
    BY <1>4, <1>7, <1>9, <1>10, <2>1, <2>2, Appended DEF Above
<1>26. TermAt(K0, L, Given, memory[s].u, m + 1)
  BY <1>7, <1>23, <1>24 DEF Ordered, Leveled
<1>27. Shows(R, Refs(mem_low, Seen(K0, Given)), rd2)
  BY <1>7, <1>21, <1>24 DEF Shows, Usable, Uses
<1>28. Shape(M2, R, K, L2, mem_low, Given, rd2)
  <2>1. L2 \in [Addr -> Int]
    BY <1>23, <1>24 DEF Joined
  <2>2. \A a \in Given : K[a] \in {"header", "end"} => L2[a] = L[a]
    BY <1>4, <1>8 DEF Joined, Above
  <2> QED
    BY <1>4, <1>12, <2>1, <2>2, Relevel
<1>29. Ordered(M2, R, K, L2, mem_low, Given, rd2)
  <2> HIDE DEF m
  <2>1. m <= Depth(reading) /\ Depth(reading) \in Nat /\ m \in Nat /\ K0[s] \in {"plain", "header"}
    BY <1>23, <1>24
  <2> QED
    BY <1>4, <1>7, <1>22, <1>23, <1>24, <1>25, <1>26, <1>27, <2>1, LinkOrdered DEF As
<1> HIDE DEF L2
<1>13. Lists(M2, Addr)
  <2> SUFFICES ASSUME NEW a \in Addr, M2[a].op \in {"LIST_", "COPIED_"} PROVE M2[a].u \in Ptr
    BY DEF Lists
  <2>1. CASE a \in Given
    BY <1>4, <1>12, <2>1 DEF Shape, Closure, Sound
  <2>2. CASE a \notin Given
    BY <1>4, <1>12, <2>2 DEF Lists
  <2> QED
    BY <2>1, <2>2
<1>14. UNCHANGED <<memoryindex, mem_low, mem_mid, direction, body, defining, current, bucket>>
  BY <1>1
<1>15. Bounded' /\ Given' = Given /\ Definitions'
  BY <1>4, <1>14 DEF Bounded, Given, Definitions
<1>16. Wellread(rd2) /\ rd2 # <<"run">>
  <2>1. Len(rd) # 0 /\ \A j \in 1 .. Len(rd) : rd[j] # "end"
    BY <1>6
  <2> QED
    BY <1>6, <1>9, <2>1, LinkedReads
<1>17. /\ Shape(memory', root', K, L2, mem_low', Given', reading')
       /\ Ordered(memory', root', K, L2, mem_low', Given', reading') /\ Wellread(reading')
  BY <1>2, <1>9, <1>10, <1>14, <1>15, <1>16, <1>28, <1>29
<1>18. defining' => Empty(root', K, Given') /\ direction' = 1 /\ reading' # <<"run">>
  BY <1>2, <1>4, <1>8, <1>9, <1>14, <1>15, <1>16 DEF Sides
<1>19. /\ memory' \in [Addr -> Cell] /\ Lists(memory', Addr) /\ root' \in [Roots -> Ptr]
       /\ body' \in [Names -> Ptr] /\ defining' \in BOOLEAN
       /\ UNCHANGED gc /\ UNCHANGED <<current, bucket>>
  BY <1>1, <1>4, <1>7, <1>9, <1>10, <1>12, <1>13, <1>14
<1>20. HeapInv'
  BY <1>3, <1>4, <1>15, <1>17, <1>18, <1>19, RunKeeps
<1>30. Kept
  <2> SUFFICES ASSUME NEW x \in 0 .. mem_low - 1 PROVE memory'[x] = memory[x]
    BY DEF Kept
  <2>1. x \in Addr /\ x < mem_low
    BY <1>4, Below
  <2>2. x \notin Given
    BY <1>4, <2>1 DEF Above, Addr
  <2> QED
    BY <1>10, <1>12, <2>1, <2>2
<1> QED
  BY <1>20, <1>30

(* A definition block starts in an empty half and ends in another one.     *)
LEMMA NothingGiven ==
  ASSUME NEW low \in Addr, NEW M, NEW R, Closure(M, low, {}),
         \A x \in Roots \ {"prog"} : R[x] \in Refs(low, {}),
         \A x \in {"conts", "dump", "dump2", "dump3"} : R[x] = NULL
  PROVE  \E K, L : Shape(M, R, K, L, low, {}, <<>>) /\ Ordered(M, R, K, L, low, {}, <<>>)
<1>1. PICK K, L : K = [a \in Addr |-> "plain"] /\ L = [a \in Addr |-> 0]
  OBVIOUS
<1>2. K \in [Addr -> Kind] /\ L \in [Addr -> Int]
  BY <1>1 DEF Kind
<1>3. Shape(M, R, K, L, low, {}, <<>>)
  BY <1>2, Fresh
<1>4. Acyclic(M, {}) /\ Leveled(M, K, L, {}, <<>>)
  BY DEF Acyclic, Leveled
<1>5. Seen(K, {}) = {} /\ <<>> # <<"run">>
  BY DEF Seen
<1>6. Hiding(M, R, K, low, {}, <<>>)
  BY <1>5 DEF Hiding, Shows
<1> QED
  BY <1>3, <1>4, <1>6 DEF Ordered

LEMMA BeginDefinitionsKeeps ==
  ASSUME Safe, HeapInv, BeginDefinitions PROVE HeapInv' /\ Kept
<1>1. /\ pc = "run" /\ reading = <<>> /\ ~defining /\ bucket = NULL /\ current = NULL
      /\ root' = [x \in Roots |-> IF x = "prog" THEN root["prog"] ELSE NULL]
      /\ direction' = 1 /\ memoryindex' = mem_low /\ defining' = TRUE
      /\ UNCHANGED <<memory, mem_low, mem_mid, body, reading, current, bucket, gc>>
  BY DEF BeginDefinitions
<1>2. /\ TypeOK /\ Bounded /\ calls = <<>> /\ memory \in [Addr -> Cell] /\ Lists(memory, Addr)
      /\ body \in [Names -> Ptr] /\ Definitions /\ Calm /\ mem_low \in Addr /\ root \in [Roots -> Ptr]
      /\ Wellread(reading)
  BY <1>1, RunFacts
<1>3. /\ root' \in [Roots -> Ptr] /\ \A x \in Roots \ {"prog"} : root'[x] = NULL
  BY <1>1, <1>2 DEF Ptr
<1>4. Bounded' /\ Given' = {}
  <2>1. PICK low, mid, half : low = mem_low /\ mid = mem_mid /\ half = MEM_HIGH \div 2
    OBVIOUS
  <2>2. low \in Int /\ mid = low + half /\ half \in Nat /\ low <= mid /\ low <= low
    BY <1>2, <2>1, Half DEF Bounded, Addr
  <2>3. Bounded'
    BY <1>1, <1>2, <2>1, <2>2 DEF Bounded
  <2>4. \A a \in Addr : ~(a >= low /\ a < low)
    BY <2>2 DEF Addr
  <2> QED
    BY <1>1, <2>1, <2>3, <2>4 DEF Given
<1>5. Closure(memory, mem_low, {})
  BY <1>2 DEF Calm, Shape, Closure
<1>6. PICK R : R = root'
  OBVIOUS
<1>7. /\ \A x \in Roots \ {"prog"} : R[x] \in Refs(mem_low, {})
      /\ \A x \in {"conts", "dump", "dump2", "dump3"} : R[x] = NULL
  BY <1>2, <1>3, <1>6, RefFacts DEF Roots
<1>8. PICK K, L : Shape(memory, R, K, L, mem_low, {}, <<>>) /\ Ordered(memory, R, K, L, mem_low, {}, <<>>)
  BY <1>2, <1>5, <1>7, NothingGiven
<1>9. /\ Shape(memory', root', K, L, mem_low', Given', reading')
      /\ Ordered(memory', root', K, L, mem_low', Given', reading')
  BY <1>1, <1>4, <1>6, <1>8
<1>10. Empty(root', K, Given') /\ direction' = 1 /\ reading' # <<"run">>
  BY <1>1, <1>3, <1>4 DEF Empty, Roots
<1>11. Definitions'
  <2>1. \A n \in Names : body[n] \in Refs(mem_low, {})
    BY <1>1, <1>2 DEF Definitions
  <2> QED
    BY <1>1, <1>4, <2>1 DEF Definitions
<1>12. /\ memory' \in [Addr -> Cell] /\ Lists(memory', Addr) /\ body' \in [Names -> Ptr]
       /\ defining' \in BOOLEAN /\ Wellread(reading') /\ UNCHANGED gc /\ UNCHANGED <<current, bucket>>
  BY <1>1, <1>2
<1>13. HeapInv'
  BY <1>1, <1>2, <1>3, <1>4, <1>9, <1>10, <1>11, <1>12, RunKeeps
<1> QED
  BY <1>1, <1>13 DEF Kept

LEMMA EndDefinitionsKeeps ==
  ASSUME Safe, HeapInv, EndDefinitions PROVE HeapInv' /\ Kept
<1>1. CASE Exhausted
  BY <1>1, FullKeeps DEF Exhausted
<1>2. CASE memoryindex + MEM_HIGH \div 2 <= MEM_HIGH /\ ~Exhausted
  <2>1. /\ pc = "run" /\ reading = <<>> /\ defining
    BY DEF EndDefinitions
  <2>2. /\ TypeOK /\ Bounded /\ calls = <<>> /\ memory \in [Addr -> Cell] /\ Lists(memory, Addr)
        /\ body \in [Names -> Ptr] /\ Definitions /\ Calm /\ Sides /\ mem_low \in Addr
        /\ root \in [Roots -> Ptr] /\ Wellread(reading)
    BY <2>1, RunFacts
  <2>3. PICK low, i, half, mid : low = mem_low /\ i = memoryindex /\ half = MEM_HIGH \div 2 /\ mid = mem_mid
    OBVIOUS
  <2>4. /\ direction = 1 /\ low \in Addr /\ i \in Int /\ low <= i /\ i + half <= MEM_HIGH
        /\ half \in Nat /\ MEM_HIGH \in Nat
    BY <1>2, <2>1, <2>2, <2>3, Half DEF Bounded, Sides
  <2>5. /\ mem_low' = i /\ mem_mid' = i + half /\ defining' = FALSE
        /\ UNCHANGED <<memory, memoryindex, direction, root, body, reading, current, bucket, gc>>
    <3>1. ~(memoryindex + MEM_HIGH \div 2 > MEM_HIGH)
      BY <2>3, <2>4
    <3> QED
      BY <2>3, <3>1 DEF EndDefinitions
  <2>6. i \in Addr /\ i + half \in Addr /\ i <= i + half
    BY <2>4 DEF Addr
  <2>7. Bounded'
    BY <2>2, <2>3, <2>4, <2>5, <2>6 DEF Bounded
  <2>8. Given' = {}
    <3>1. \A a \in Addr : ~(a >= i /\ a < i)
      BY <2>4 DEF Addr
    <3> QED
      BY <2>3, <2>4, <2>5, <3>1 DEF Given
  <2>9. \A a \in 0 .. i - 1 : a \in 0 .. low - 1 \/ a \in Given
    BY <2>3, <2>4 DEF Given, Addr
  <2>10. Refs(low, Given) \subseteq Refs(i, {})
    <3>1. \A a \in Given : a \in -1 .. i - 1
      BY <2>3, <2>4 DEF Given, Addr
    <3>2. \A a \in -1 .. low - 1 : a \in -1 .. i - 1
      BY <2>4 DEF Addr
    <3> QED
      BY <3>1, <3>2 DEF Refs
  <2>11. PICK K, L : Shape(memory, root, K, L, low, Given, <<>>) /\ Empty(root, K, Given)
    BY <2>1, <2>2, <2>3 DEF Calm
  <2>12. /\ bucket = NULL /\ current = NULL
    BY <2>1, <2>2 DEF Calm
  <2>13. \A x \in {"conts", "dump", "dump2", "dump3"} : root[x] = NULL
    <3>1. Depth(<<>>) = 0
      BY DEF Depth
    <3>2. OnDump(K, Given, root["dump"])
      BY <2>4, <2>11, <3>1, NoTerm
    <3> QED
      BY <2>11, <3>2 DEF OnDump, Empty, Shape, Maps
  <2>14. \A x \in Roots \ {"prog"} : root[x] \in Refs(i, {})
    BY <2>10, <2>11 DEF Shape, Reaches
  <2>15. Closure(memory, i, {})
    <3>1. \A a \in 0 .. i - 1 : Sound(memory[a], Refs(low, Given))
      <4>1. Refs(low, {}) \subseteq Refs(low, Given)
        BY DEF Refs
      <4> QED
        BY <2>9, <2>11, <4>1 DEF Shape, Closure, Sound
    <3> QED
      BY <2>10, <3>1 DEF Closure, Sound
  <2>16. PICK K2, L2 : /\ Shape(memory, root, K2, L2, i, {}, <<>>)
                       /\ Ordered(memory, root, K2, L2, i, {}, <<>>)
    BY <2>6, <2>13, <2>14, <2>15, NothingGiven
  <2>17. /\ Shape(memory', root', K2, L2, mem_low', Given', reading')
         /\ Ordered(memory', root', K2, L2, mem_low', Given', reading')
    BY <2>1, <2>5, <2>8, <2>16
  <2>18. Definitions'
    <3>1. \A n \in Names : body[n] \in Refs(low, Given)
      BY <2>1, <2>2, <2>3 DEF Definitions
    <3> QED
      BY <2>5, <2>10, <3>1 DEF Definitions
  <2>19. /\ memory' \in [Addr -> Cell] /\ Lists(memory', Addr) /\ body' \in [Names -> Ptr]
         /\ root' \in [Roots -> Ptr] /\ ~defining' /\ defining' \in BOOLEAN
         /\ Wellread(reading') /\ UNCHANGED gc /\ UNCHANGED <<current, bucket>>
    BY <2>2, <2>5
  <2>20. HeapInv'
    BY <2>1, <2>2, <2>7, <2>12, <2>17, <2>18, <2>19, RunKeeps
  <2> QED
    BY <2>5, <2>20 DEF Kept
<1> QED
  <2>1. PICK i, half : i = memoryindex /\ half = MEM_HIGH \div 2
    OBVIOUS
  <2>2. pc = "run"
    BY DEF EndDefinitions
  <2>3. i \in Int /\ half \in Nat /\ MEM_HIGH \in Nat
    BY <2>1, <2>2, RunFacts, Half DEF Bounded
  <2>4. i + half <= MEM_HIGH \/ i + half > MEM_HIGH
    BY <2>3
  <2> QED
    BY <1>1, <1>2, <2>1, <2>4 DEF EndDefinitions

-----------------------------------------------------------------------------
(* A set of numbers has a least one. *)
LEMMA LeastNumber ==
  ASSUME NEW T, T \subseteq Nat, T # {}
  PROVE  \E x \in T : \A y \in T : x <= y
<1>1. PICK x \in T : \A y \in T : ~ (<<y, x>> \in OpToRel(<, Nat))
  BY NatLessThanWellFounded, WFMin
<1>2. \A y \in T : ~(y < x)
  BY <1>1 DEF OpToRel
<1>3. x \in Nat /\ \A y \in T : y \in Nat
  OBVIOUS
<1> QED
  BY <1>2, <1>3

(* What Reachable computes: the least set that holds the pointers of S      *)
(* above the definitions, and with a cell what the cell leads to.          *)
More(M, low, X) == X \cup {a \in UNION {Links(M, b) : b \in X} : a >= low}
Spread(M, low, S, n, f) ==
  f = [i \in 0 .. n |-> IF i = 0 THEN {a \in S : a >= low} ELSE More(M, low, f[i - 1])]

LEMMA SpreadExists ==
  ASSUME NEW M, NEW low, NEW S, NEW n \in Nat
  PROVE  \E f : Spread(M, low, S, n, f)
<1> DEFINE Bad == {k \in Nat : ~ \E f : Spread(M, low, S, k, f)}
           first == {a \in S : a >= low}
<1> SUFFICES ASSUME Bad # {} PROVE FALSE
  OBVIOUS
<1>1. PICK k \in Bad : \A y \in Bad : k <= y
  <2>1. Bad \subseteq Nat
    OBVIOUS
  <2> HIDE DEF Bad
  <2> QED
    BY <2>1, LeastNumber
<1>2. k # 0
  <2>1. Spread(M, low, S, 0, [i \in 0 .. 0 |-> first])
    BY DEF Spread
  <2> QED
    BY <2>1
<1> HIDE DEF first
<1>3. PICK f : Spread(M, low, S, k - 1, f)
  BY <1>1, <1>2
<1> DEFINE g == [i \in 0 .. k |-> IF i = k THEN More(M, low, f[k - 1]) ELSE f[i]]
<1>4. \A i \in 0 .. k - 1 : f[i] = IF i = 0 THEN first ELSE More(M, low, f[i - 1])
  BY <1>3 DEF Spread, first
<1>5. \A i \in 0 .. k : g[i] = IF i = 0 THEN first ELSE More(M, low, g[i - 1])
  <2> SUFFICES ASSUME NEW i \in 0 .. k PROVE g[i] = IF i = 0 THEN first ELSE More(M, low, g[i - 1])
    OBVIOUS
  <2>1. k \in Nat \ {0}
    BY <1>1, <1>2
  <2>2. CASE i = k
    <3>1. g[i] = More(M, low, f[k - 1]) /\ g[k - 1] = f[k - 1]
      BY <2>1, <2>2
    <3> QED
      BY <2>1, <2>2, <3>1
  <2>3. CASE i # k
    <3>1. g[i] = f[i] /\ (i # 0 => g[i - 1] = f[i - 1]) /\ i \in 0 .. k - 1
      BY <2>1, <2>3
    <3> QED
      BY <1>4, <3>1
  <2> QED
    BY <2>2, <2>3
<1>6. Spread(M, low, S, k, g)
  <2>1. g = [i \in 0 .. k |-> g[i]]
    OBVIOUS
  <2> HIDE DEF g
  <2> QED
    BY <1>5, <2>1 DEF Spread, first
<1> QED
  BY <1>1, <1>6

LEMMA ReachableIs ==
  ASSUME NEW M, NEW low, NEW S
  PROVE  \E at : /\ Reachable(M, low, S) = at[MEMORYMAX] /\ at[0] = {a \in S : a >= low}
                 /\ \A i \in 1 .. MEMORYMAX : at[i] = More(M, low, at[i - 1])
<1> DEFINE at == CHOOSE f : Spread(M, low, S, MEMORYMAX, f)
<1>1. Reachable(M, low, S) = at[MEMORYMAX]
  BY DEF Reachable, Spread, More
<1>2. MEMORYMAX \in Nat
  BY HeapAssumption
<1>3. Spread(M, low, S, MEMORYMAX, at)
  <2>1. \E f : Spread(M, low, S, MEMORYMAX, f)
    BY <1>2, SpreadExists
  <2> QED
    BY <2>1
<1> HIDE DEF at
<1>4. PICK first : first = {a \in S : a >= low}
  OBVIOUS
<1>5. \A i \in 0 .. MEMORYMAX : at[i] = IF i = 0 THEN first ELSE More(M, low, at[i - 1])
  BY <1>3, <1>4 DEF Spread
<1>6. 0 \in 0 .. MEMORYMAX /\ \A i \in 1 .. MEMORYMAX : i \in 0 .. MEMORYMAX /\ i # 0
  BY <1>2
<1>7. at[0] = first /\ \A i \in 1 .. MEMORYMAX : at[i] = More(M, low, at[i - 1])
  BY <1>5, <1>6
<1> QED
  BY <1>1, <1>4, <1>7

(* X holds the pointers of S, and where its cells lead. *)
ClosedUnder(M, low, S, X) ==
  /\ \A a \in S : a >= low => a \in X
  /\ \A b \in X : \A a \in Links(M, b) : a >= low => a \in X

LEMMA MoreIn ==
  ASSUME NEW M, NEW low, NEW S, NEW X, ClosedUnder(M, low, S, X), NEW Y, Y \subseteq X
  PROVE  More(M, low, Y) \subseteq X
BY DEF More, ClosedUnder

LEMMA ReachedIn ==
  ASSUME NEW M, NEW low, NEW S, NEW X, ClosedUnder(M, low, S, X)
  PROVE  Reachable(M, low, S) \subseteq X
<1>1. PICK at : /\ Reachable(M, low, S) = at[MEMORYMAX] /\ at[0] = {a \in S : a >= low}
                /\ \A i \in 1 .. MEMORYMAX : at[i] = More(M, low, at[i - 1])
  BY ReachableIs
<1>2. MEMORYMAX \in Nat
  BY HeapAssumption
<1> DEFINE Bad == {i \in 0 .. MEMORYMAX : ~(at[i] \subseteq X)}
<1>3. Bad = {}
  <2> SUFFICES ASSUME Bad # {} PROVE FALSE
    OBVIOUS
  <2>1. PICK k \in Bad : \A y \in Bad : k <= y
    <3>1. Bad \subseteq Nat
      OBVIOUS
    <3> HIDE DEF Bad
    <3> QED
      BY <3>1, LeastNumber
  <2>2. k # 0
    <3>1. {a \in S : a >= low} \subseteq X
      BY DEF ClosedUnder
    <3> QED
      BY <1>1, <3>1
  <2>3. k \in 1 .. MEMORYMAX /\ k - 1 \in 0 .. MEMORYMAX /\ ~(k <= k - 1)
    BY <1>2, <2>1, <2>2
  <2>4. at[k - 1] \subseteq X
    BY <2>1, <2>3
  <2>5. at[k] \subseteq X
    BY <1>1, <2>3, <2>4, MoreIn
  <2> QED
    BY <2>1, <2>5
<1>4. MEMORYMAX \in 0 .. MEMORYMAX
  BY <1>2
<1>5. at[MEMORYMAX] \subseteq X
  BY <1>3, <1>4
<1> QED
  BY <1>1, <1>5

(* Each step but the last adds a cell, and there are MEMORYMAX of them.     *)
LEMMA ReachCloses ==
  ASSUME NEW M, NEW low, NEW S, NEW F, F \subseteq Addr, ClosedUnder(M, low, S, F)
  PROVE  ClosedUnder(M, low, S, Reachable(M, low, S))
<1>1. PICK at : /\ Reachable(M, low, S) = at[MEMORYMAX] /\ at[0] = {a \in S : a >= low}
                /\ \A i \in 1 .. MEMORYMAX : at[i] = More(M, low, at[i - 1])
  BY ReachableIs
<1>2. MEMORYMAX \in Nat \ {0} /\ IsFiniteSet(Addr) /\ Cardinality(Addr) = MEMORYMAX
  <2>1. MEMORYMAX \in Nat \ {0}
    BY HeapAssumption
  <2>2. MEMORYMAX - 1 \in Int /\ 0 \in Int /\ ~(0 > MEMORYMAX - 1) /\ (MEMORYMAX - 1) - 0 + 1 = MEMORYMAX
    BY <2>1
  <2>3. IsFiniteSet(0 .. MEMORYMAX - 1) /\ Cardinality(0 .. MEMORYMAX - 1) = MEMORYMAX
    BY <2>2, FS_Interval
  <2> QED
    BY <2>1, <2>3 DEF Addr, MEM_HIGH
<1> DEFINE Growing(i) ==
             /\ at[i] \subseteq F /\ {a \in S : a >= low} \subseteq at[i]
             /\ More(M, low, at[i]) = at[i] \/ Cardinality(at[i]) >= i
           Bad == {i \in 0 .. MEMORYMAX : ~Growing(i)}
<1>3. \A Y \in SUBSET F : IsFiniteSet(Y) /\ Cardinality(Y) \in Nat
  BY <1>2, FS_Subset, FS_CardinalityType
<1>4. Bad = {}
  <2> SUFFICES ASSUME Bad # {} PROVE FALSE
    OBVIOUS
  <2>1. PICK k \in Bad : \A y \in Bad : k <= y
    <3>1. Bad \subseteq Nat
      OBVIOUS
    <3> HIDE DEF Bad
    <3> QED
      BY <3>1, LeastNumber
  <2>2. k # 0
    <3>1. at[0] \subseteq F /\ {a \in S : a >= low} \subseteq at[0]
      BY <1>1 DEF ClosedUnder
    <3>2. Cardinality(at[0]) >= 0
      BY <1>3, <3>1
    <3> QED
      BY <2>1, <3>1, <3>2
  <2>3. k \in 1 .. MEMORYMAX /\ k - 1 \in 0 .. MEMORYMAX /\ ~(k <= k - 1) /\ k \in Int
    BY <1>2, <2>1, <2>2
  <2>4. Growing(k - 1)
    BY <2>1, <2>3
  <2>5. PICK Y, Z : Y = at[k - 1] /\ Z = at[k]
    OBVIOUS
  <2>6. Z = More(M, low, Y) /\ Y \subseteq F /\ {a \in S : a >= low} \subseteq Y
    BY <1>1, <2>3, <2>4, <2>5
  <2>7. Z \subseteq F /\ Y \subseteq Z
    <3>1. More(M, low, Y) \subseteq F
      BY <2>6, MoreIn
    <3> QED
      BY <2>6, <3>1 DEF More
  <2>8. CASE Z = Y
    BY <2>1, <2>4, <2>5, <2>6, <2>7, <2>8
  <2>9. CASE Z # Y
    <3>1. Cardinality(Y) >= k - 1
      BY <2>4, <2>5, <2>6, <2>9
    <3>2. IsFiniteSet(Z) /\ Cardinality(Z) \in Nat /\ Cardinality(Y) \in Nat
      BY <1>3, <2>6, <2>7
    <3>3. Cardinality(Y) <= Cardinality(Z) /\ Cardinality(Y) # Cardinality(Z)
      BY <2>7, <2>9, <3>2, FS_Subset
    <3>4. Cardinality(Z) >= k
      BY <2>3, <3>1, <3>2, <3>3
    <3> QED
      BY <2>1, <2>5, <2>6, <2>7, <3>4
  <2> QED
    BY <2>8, <2>9
<1>5. MEMORYMAX \in 0 .. MEMORYMAX
  BY <1>2
<1>6. Growing(MEMORYMAX)
  BY <1>4, <1>5
<1> HIDE DEF Bad
<1>7. PICK R : R = Reachable(M, low, S)
  OBVIOUS
<1>8. /\ R \subseteq F /\ {a \in S : a >= low} \subseteq R
      /\ More(M, low, R) = R \/ Cardinality(R) >= MEMORYMAX
  BY <1>1, <1>6, <1>7
<1> HIDE DEF Growing
<1>9. More(M, low, R) = R
  <2>1. CASE Cardinality(R) >= MEMORYMAX
    <3>1. Cardinality(R) <= Cardinality(Addr) /\ Cardinality(R) \in Nat
      BY <1>2, <1>3, <1>8, FS_Subset
    <3>2. Cardinality(R) = Cardinality(Addr)
      BY <1>2, <2>1, <3>1
    <3>3. R = Addr
      BY <1>2, <1>8, <3>2, FS_Subset
    <3>4. More(M, low, R) \subseteq F /\ R \subseteq More(M, low, R)
      <4>1. More(M, low, R) \subseteq F
        BY <1>8, MoreIn
      <4> QED
        BY <4>1 DEF More
    <3> QED
      BY <3>3, <3>4
  <2> QED
    BY <1>8, <2>1
<1>10. ClosedUnder(M, low, S, R)
  BY <1>8, <1>9 DEF More, ClosedUnder
<1> QED
  BY <1>7, <1>10

-----------------------------------------------------------------------------
(* A collection starts with everything still to copy.                      *)
Starts ==
  \E args : /\ Gc1(call', args)
            /\ \/ call' = NoCall /\ args = <<>>
               \/ call' # NoCall /\ args = Own(call'.op)

LEMMA NewNodeStarts ==
  ASSUME NEW h, NEW o, NEW u, NEW r, NEW place, place # "none", NewNode(h, o, u, r, place),
         pc = "run", pc' = "roots"
  PROVE  Starts
<1> DEFINE c == [op |-> o, u |-> u, next |-> r, place |-> place, at |-> Target(place)]
<1>1. Gc1(c, IF o = "LIST_" THEN <<"u", "r">> ELSE <<"r">>)
  BY DEF NewNode, gc
<1>2. c # NoCall
  BY DEF NoCall
<1>3. call' = c
  BY <1>1 DEF Gc1
<1> QED
  BY <1>1, <1>2, <1>3 DEF Starts, Own

LEMMA StepStarts == ASSUME Next, pc = "run", pc' = "roots" PROVE Starts
<1>1. ~Collector
  BY DEF Collector, SkipNull, CopyNext, SlotDone, CopySettled, CopyCell, CopyTail, CopyDone, GcDone
<1>2. CASE Reader
  <2>1. ~(CloseList \/ CloseProgram \/ CloseDefinition \/ BeginDefinitions \/ EndDefinitions)
    BY DEF CloseList, CloseProgram, CloseDefinition, BeginDefinitions, EndDefinitions, Exhausted, gc
  <2>2. Readterm \/ ReadList \/ ReadNumber \/ ReadEnd
    BY <1>2, <2>1 DEF Reader
  <2> QED
    BY <2>2, NewNodeStarts DEF Readterm, ReadList, ReadNumber, ReadEnd
<1>3. CASE Gc_
  BY <1>3 DEF Gc_, Gc1, Starts
<1>4. CASE Evaluator /\ ~Gc_
  <2>1. ~(Leave \/ Pop \/ Unstack \/ PopDump \/ Abort \/ App11 \/ WhileAgain \/ WhileStore)
    BY DEF Leave, Pop, Unstack, PopDump, Abort, App11, WhileAgain, WhileStore, SetRoots, Writes, gc
  <2>2. \/ Enter \/ Literal \/ Stack \/ Rest \/ Cons_ \/ ConsList \/ Save \/ Restore \/ ConcatString
        \/ MapOpen \/ MapOpenLast \/ MapCollect \/ MapClose \/ Primrec \/ PrimrecMember
    BY <1>4, <2>1 DEF Evaluator
  <2>3. CASE Enter \/ Literal \/ Stack \/ Rest \/ Cons_ \/ ConsList \/ Save \/ Restore \/ ConcatString
    BY <2>3, NewNodeStarts DEF Enter, Literal, Stack, Rest, Cons_, ConsList, Save, Restore, ConcatString
  <2>4. CASE MapOpen \/ MapOpenLast \/ MapCollect \/ MapClose \/ Primrec \/ PrimrecMember
    BY <2>4, NewNodeStarts DEF MapOpen, MapOpenLast, MapCollect, MapClose, Primrec, PrimrecMember
  <2> QED
    BY <2>2, <2>3, <2>4
<1> QED
  BY <1>1, <1>2, <1>3, <1>4 DEF Next

-----------------------------------------------------------------------------
(* Frames and values.  W are cells that hold a frame of conts or of a dump, *)
(* V cells of lists and numbers: no list leads to a frame, and only the     *)
(* next of a frame to another.                                             *)
Divides(M, low, V, W) ==
  /\ V \cap W = {}
  /\ \A a \in V : Sound(M[a], Refs(low, V))
  /\ \A a \in W : M[a].op = "LIST_" /\ M[a].u \in Refs(low, V) /\ M[a].next \in {NULL} \cup W
Holds(R, low, V, W, rd) ==
  /\ R["stk"] \in Refs(low, V) /\ (rd = <<"run">> => R["prog"] \in Refs(low, V))
  /\ \A x \in {"conts", "dump", "dump2", "dump3"} : R[x] \in {NULL} \cup W

FramePlaces == {"conts", "dump", "dump2", "dump3", "end", "primrec"}
Brings(c, low, V, W) ==
  /\ c.op \in {"INTEGER_", "LIST_"} /\ c.u \in Int /\ (c.op = "LIST_" => c.u \in Refs(low, V))
  /\ IF c.place \in FramePlaces THEN c.op = "LIST_" /\ c.next \in {NULL} \cup W
     ELSE c.next \in Refs(low, V)

(* What delivering to a place takes for granted. *)
Aims(h, c) ==
  /\ c.place = "factor" /\ Phase # "first" => root["dump"] # NULL
  /\ c.place \in {"DMP2", "DMP3->next", "mapped"} => root["dump2"] # NULL /\ root["dump3"] # NULL
  /\ c.place = "DMP3->next" => Dmp("dump3") # NULL
  /\ c.place = "primrec" => root["stk"] # NULL /\ Top.op = "LIST_"
  /\ c.place = "member" => current # NULL
  /\ h = memory \/ c.place \in {"literal", "stk"}

LEMMA ValueUses ==
  ASSUME NEW low \in Addr, NEW M, NEW V, NEW W, Above(low, V \cup W), Divides(M, low, V, W),
         \A a \in 0 .. low - 1 : Sound(M[a], Refs(low, {})), NEW p \in Refs(low, V), p # NULL
  PROVE  p \in Addr /\ Sound(M[p], Refs(low, V))
<1>1. CASE p \in 0 .. low - 1
  <2>1. Sound(M[p], Refs(low, {}))
    BY <1>1
  <2> QED
    BY <1>1, <2>1, RefFacts, Below DEF Sound
<1>2. CASE p \in V
  BY <1>2 DEF Divides, Above
<1> QED
  BY <1>1, <1>2, RefCases

LEMMA DeliverApart ==
  ASSUME Safe, NEW low \in Addr, NEW h \in [Addr -> Cell], NEW V, NEW W, NEW s \in Addr, NEW c,
         Above(low, V \cup W), s >= low, s \notin V \cup W,
         \A a \in 0 .. low - 1 : Sound(h[a], Refs(low, {})),
         Divides(h, low, V, W), Holds(root, low, V, W, reading), Brings(c, low, V, W), Aims(h, c),
         root \in [Roots -> Ptr], current \in Refs(low, V), bucket # NULL => c.place = "stk",
         c.place \in ReaderPlaces => reading' # <<"run">>,
         Deliver(Filled(h, s, c), s, c)
  PROVE  \E V2, W2 : /\ V2 \cup W2 \subseteq V \cup W \cup {s}
                     /\ Divides(memory', low, V2, W2) /\ Holds(root', low, V2, W2, reading')
                     /\ {bucket', current'} \subseteq Refs(low, V2)
<1> DEFINE h2 == Filled(h, s, c)
           V1 == V \cup {s}
           W1 == W \cup {s}
           Good(V2, W2) == /\ V2 \cup W2 \subseteq V \cup W \cup {s}
                           /\ Divides(memory', low, V2, W2) /\ Holds(root', low, V2, W2, reading')
                           /\ {bucket', current'} \subseteq Refs(low, V2)
<1>1. /\ V \subseteq Addr /\ W \subseteq Addr /\ V \cap W = {} /\ NULL \in Refs(low, V)
      /\ Refs(low, V) \subseteq Refs(low, V1) /\ s \in Refs(low, V1) /\ NULL \in Refs(low, V1)
      /\ Refs(low, V) \subseteq Ptr /\ \A p \in Refs(low, V) : p # s
      /\ s # NULL /\ \A p \in W : p # NULL
  <2>1. V \subseteq Addr /\ W \subseteq Addr /\ V \cap W = {} /\ s # NULL /\ \A p \in W : p # NULL
    BY DEF Above, Divides, NULL, Addr
  <2>2. NULL \in Refs(low, V)
    BY RefFacts
  <2>3. Refs(low, V) \subseteq Refs(low, V1) /\ s \in Refs(low, V1)
    BY DEF Refs
  <2>4. Above(low, V)
    BY DEF Above
  <2>5. Refs(low, V) \subseteq Ptr
    BY <2>4, RefTypes
  <2>6. ASSUME NEW p \in Refs(low, V) PROVE p # s
    <3>1. p = NULL \/ p \in 0 .. low - 1 \/ p \in V
      BY RefCases
    <3> QED
      BY <2>1, <3>1 DEF Addr
  <2> QED
    BY <2>1, <2>2, <2>3, <2>5, <2>6
<1>2. c.op \in {"INTEGER_", "LIST_"} /\ c.u \in Int /\ c.next \in Ptr
  BY <1>1 DEF Brings, Ptr
<1>3. /\ h2 \in [Addr -> Cell] /\ h2[s].op = c.op /\ h2[s].u = c.u /\ h2[s].next = c.next
      /\ \A a \in Addr : a # s => h2[a] = h[a]
  BY <1>2 DEF Filled, Node, Cell, Ops
<1>4. Deliver(h2, s, c)
  OBVIOUS
<1>5. ASSUME NEW p \in Refs(low, V), p # NULL
      PROVE  /\ p \in Addr /\ h2[p] = h[p] /\ h2[p].next \in Refs(low, V)
             /\ h2[p].op \in {"INTEGER_", "LIST_"}
             /\ h2[p].op = "LIST_" => h2[p].u \in Refs(low, V)
  BY <1>1, <1>3, <1>5, ValueUses DEF Sound
<1>6. ASSUME NEW p \in W
      PROVE  /\ p \in Addr /\ p # s /\ h2[p] = h[p] /\ h2[p].op = "LIST_"
             /\ h2[p].u \in Refs(low, V) /\ h2[p].next \in {NULL} \cup W
  BY <1>1, <1>3, <1>6 DEF Divides
<1> HIDE DEF h2
<1>7. c.place \notin FramePlaces => Divides(h2, low, V1, W)
  <2> SUFFICES ASSUME c.place \notin FramePlaces PROVE Divides(h2, low, V1, W)
    OBVIOUS
  <2>1. ASSUME NEW a \in V1 PROVE Sound(h2[a], Refs(low, V1))
    <3>1. CASE a = s
      BY <1>1, <1>3, <3>1 DEF Sound, Brings
    <3>2. CASE a \in V
      BY <1>1, <1>3, <3>2 DEF Sound, Divides
    <3> QED
      BY <3>1, <3>2
  <2> QED
    BY <1>1, <1>6, <2>1 DEF Divides
<1>8. c.place \in FramePlaces => Divides(h2, low, V, W1)
  <2> SUFFICES ASSUME c.place \in FramePlaces PROVE Divides(h2, low, V, W1)
    OBVIOUS
  <2>1. ASSUME NEW a \in V PROVE Sound(h2[a], Refs(low, V))
    BY <1>1, <1>3 DEF Divides
  <2>2. ASSUME NEW a \in W1
        PROVE  h2[a].op = "LIST_" /\ h2[a].u \in Refs(low, V) /\ h2[a].next \in {NULL} \cup W1
    BY <1>3, <1>6 DEF Brings
  <2> QED
    BY <1>1, <2>1, <2>2 DEF Divides
<1>9. /\ root["stk"] \in Refs(low, V) /\ (reading = <<"run">> => root["prog"] \in Refs(low, V))
      /\ \A x \in {"conts", "dump", "dump2", "dump3"} : root[x] \in {NULL} \cup W
  BY DEF Holds
<1>10. CASE /\ c.place \in {"stk", "literal", "dump", "dump2", "dump3"}
            /\ root' = [root EXCEPT ![IF c.place = "literal" THEN "stk" ELSE c.place] = s]
            /\ memory' = h2 /\ bucket' = NULL /\ UNCHANGED <<reading, current>>
  <2>1. CASE c.place \in {"stk", "literal"}
    <3>1. Good(V1, W)
      BY <1>1, <1>7, <1>9, <1>10, <2>1 DEF Holds, Roots, FramePlaces
    <3> QED
      BY <3>1
  <2>2. CASE c.place \in {"dump", "dump2", "dump3"}
    <3>1. Good(V, W1)
      BY <1>1, <1>8, <1>9, <1>10, <2>2 DEF Holds, Roots, FramePlaces
    <3> QED
      BY <3>1
  <2> QED
    BY <1>10, <2>1, <2>2
<1>11. CASE c.place = "bucket" /\ bucket' = s /\ memory' = h2 /\ UNCHANGED <<root, reading, current>>
  <2>1. Good(V1, W)
    BY <1>1, <1>7, <1>9, <1>11 DEF Holds, Roots, FramePlaces
  <2> QED
    BY <2>1
<1>12. CASE /\ c.place = "conts" /\ root' = [root EXCEPT !["conts"] = s]
            /\ reading' = <<>> /\ memory' = h2 /\ UNCHANGED <<current, bucket>>
  <2>1. <<>> # <<"run">> /\ bucket = NULL
    BY <1>12
  <2>2. Good(V, W1)
    BY <1>1, <1>8, <1>9, <1>12, <2>1 DEF Holds, Roots, FramePlaces
  <2> QED
    BY <2>2
<1>13. CASE /\ c.place = "header" /\ root' = [root EXCEPT !["stk"] = s]
            /\ reading' = Append(reading, "first") /\ memory' = h2 /\ UNCHANGED <<current, bucket>>
  <2>1. reading' # <<"run">> /\ bucket = NULL
    BY <1>13 DEF ReaderPlaces
  <2>2. Good(V1, W)
    BY <1>1, <1>7, <1>9, <1>13, <2>1 DEF Holds, Roots, FramePlaces
  <2> QED
    BY <2>2
<1>14. CASE c.place = "factor" /\ Link(h2, s, reading) /\ UNCHANGED <<current, bucket>>
  <2>1. reading' # <<"run">> /\ bucket = NULL
    BY <1>14 DEF ReaderPlaces
  <2>2. PICK header, last : header = c.next /\ last = h2[root["dump"]].u
    OBVIOUS
  <2>3. header \in Refs(low, V) /\ root' = [root EXCEPT !["stk"] = header]
    BY <1>3, <1>14, <2>2 DEF Brings, FramePlaces, Link
  <2>4. Holds(root', low, V1, W, reading')
    BY <1>1, <1>9, <2>1, <2>3 DEF Holds, Roots
  <2>5. Divides(h2, low, V1, W)
    BY <1>7, <1>14 DEF FramePlaces
  <2>6. Divides(memory', low, V1, W)
    <3>1. CASE Phase = "first"
      <4>1. memory' = [h2 EXCEPT ![header].u = s, ![s].next = NULL]
        BY <1>3, <1>14, <2>2, <3>1 DEF Link, Phase
      <4>2. ASSUME NEW a \in V1 PROVE Sound(memory'[a], Refs(low, V1))
        <5>1. a \in Addr /\ Sound(h2[a], Refs(low, V1))
          BY <1>1, <2>5 DEF Divides
        <5>2. /\ memory'[a].op = h2[a].op
              /\ memory'[a].u = h2[a].u \/ memory'[a].u = s
              /\ memory'[a].next = h2[a].next \/ memory'[a].next = NULL
          BY <1>3, <4>1, <5>1 DEF Cell
        <5> QED
          BY <1>1, <5>1, <5>2 DEF Sound
      <4>3. ASSUME NEW a \in W PROVE memory'[a] = h2[a]
        <5>1. a # header /\ a # s /\ a \in Addr
          BY <1>1, <1>6, <2>3, RefCases DEF Above, Addr
        <5> QED
          BY <1>3, <4>1, <5>1
      <4> QED
        BY <2>5, <4>2, <4>3 DEF Divides
    <3>2. CASE Phase # "first"
      <4>1. memory' = [h2 EXCEPT ![last].next = s, ![s].next = NULL, ![root["dump"]].u = s]
        BY <1>3, <1>14, <2>2, <3>2 DEF Link, Phase
      <4>2. root["dump"] \in W
        BY <1>9, <1>14, <3>2 DEF Aims
      <4>3. last \in Refs(low, V)
        BY <1>6, <2>2, <4>2
      <4>4. ASSUME NEW a \in V1 PROVE Sound(memory'[a], Refs(low, V1))
        <5>1. a \in Addr /\ Sound(h2[a], Refs(low, V1)) /\ a # root["dump"]
          BY <1>1, <2>5, <4>2 DEF Divides
        <5>2. /\ memory'[a].op = h2[a].op /\ memory'[a].u = h2[a].u
              /\ memory'[a].next \in {h2[a].next, NULL, s}
          BY <1>3, <4>1, <5>1 DEF Cell
        <5> QED
          BY <1>1, <5>1, <5>2 DEF Sound
      <4>5. ASSUME NEW a \in W
            PROVE  /\ memory'[a].op = h2[a].op /\ memory'[a].next = h2[a].next
                   /\ memory'[a].u \in {h2[a].u, s}
        <5>1. a # last /\ a # s /\ a \in Addr
          BY <1>1, <1>6, <4>3, RefCases DEF Above, Addr
        <5> QED
          BY <1>3, <4>1, <5>1 DEF Cell
      <4> QED
        BY <1>1, <2>5, <4>4, <4>5 DEF Divides
    <3> QED
      BY <3>1, <3>2
  <2>7. Good(V1, W)
    BY <1>1, <1>14, <2>1, <2>4, <2>6
  <2> QED
    BY <2>7
<1>15. CASE /\ c.place = "end" /\ root' = [root EXCEPT !["dump"] = s]
            /\ reading' = Append(Outer, "more") /\ memory' = h2 /\ UNCHANGED <<current, bucket>>
  <2>1. reading' # <<"run">> /\ bucket = NULL
    BY <1>15 DEF ReaderPlaces
  <2>2. Good(V, W1)
    BY <1>1, <1>8, <1>9, <1>15, <2>1 DEF Holds, Roots, FramePlaces
  <2> QED
    BY <2>2
<1>16. CASE /\ c.place \in {"DMP2", "DMP3->next"} /\ StoreResult(h2, c, s)
            /\ UNCHANGED <<root, reading, current, bucket>>
  <2>1. bucket = NULL /\ h = memory /\ root["dump2"] \in W /\ root["dump3"] \in W
    BY <1>9, <1>16 DEF Aims
  <2>2. Divides(h2, low, V1, W)
    BY <1>7, <1>16 DEF FramePlaces
  <2>3. Holds(root', low, V1, W, reading')
    BY <1>1, <1>9, <1>16 DEF Holds
  <2>4. CASE c.place = "DMP2"
    <3>1. memory' = LET w == [h2 EXCEPT ![root["dump2"]].u = s]
                    IN  [w EXCEPT ![root["dump3"]].u = w[root["dump2"]].u]
      BY <1>16, <2>4 DEF StoreResult, Target, Safe
    <3>2. root["dump2"] \in Addr /\ root["dump3"] \in Addr
      BY <1>1, <2>1
    <3>3. ASSUME NEW a \in Addr
          PROVE  /\ memory'[a].op = h2[a].op /\ memory'[a].next = h2[a].next
                 /\ memory'[a].u = IF a \in {root["dump2"], root["dump3"]} THEN s ELSE h2[a].u
      BY <1>3, <3>1, <3>2 DEF Cell
    <3>4. \A a \in V1 : a \in Addr /\ a \notin {root["dump2"], root["dump3"]}
      BY <1>1, <2>1
    <3>5. Divides(memory', low, V1, W)
      BY <1>1, <2>2, <3>3, <3>4 DEF Divides, Sound
    <3>6. Good(V1, W)
      BY <1>1, <1>16, <2>1, <2>3, <3>5
    <3> QED
      BY <3>6
  <2>5. CASE c.place = "DMP3->next"
    <3>1. PICK at : at = memory[root["dump3"]].u
      OBVIOUS
    <3>2. /\ memory' = LET w == [h2 EXCEPT ![at].next = s]
                       IN  [w EXCEPT ![root["dump3"]].u = w[w[root["dump3"]].u].next]
          /\ at # NULL
      BY <1>16, <2>5, <3>1 DEF StoreResult, Target, Safe, Dmp, Aims
    <3>3. at \in Refs(low, V) /\ at \in Addr /\ h2[root["dump3"]].u = at /\ root["dump3"] \in Addr /\ at \notin W
      <4>1. at \in Refs(low, V) /\ h2[root["dump3"]].u = at /\ root["dump3"] \in Addr
        BY <1>6, <2>1, <3>1
      <4>2. at \in Addr
        BY <1>5, <3>2, <4>1
      <4> QED
        BY <1>1, <3>2, <4>1, <4>2, RefCases DEF Above, Addr
    <3>4. ASSUME NEW a \in Addr
          PROVE  /\ memory'[a].op = h2[a].op /\ memory'[a].next = IF a = at THEN s ELSE h2[a].next
                 /\ memory'[a].u = IF a = root["dump3"] THEN s ELSE h2[a].u
      BY <1>3, <3>2, <3>3 DEF Cell
    <3>5. \A a \in V1 : a \in Addr /\ a # root["dump3"]
      BY <1>1, <2>1
    <3>6. Divides(memory', low, V1, W)
      BY <1>1, <2>2, <3>3, <3>4, <3>5 DEF Divides, Sound
    <3>7. Good(V1, W)
      BY <1>1, <1>16, <2>1, <2>3, <3>6
    <3> QED
      BY <3>7
  <2> QED
    BY <1>16, <2>4, <2>5
<1>17. CASE /\ c.place = "mapped"
            /\ root' = [root EXCEPT !["stk"] = s, !["dump2"] = h2[@].next, !["dump3"] = h2[@].next]
            /\ memory' = h2 /\ UNCHANGED <<reading, current, bucket>>
  <2>1. root["dump2"] \in W /\ root["dump3"] \in W /\ bucket = NULL
    BY <1>9, <1>17 DEF Aims
  <2>2. h2[root["dump2"]].next \in {NULL} \cup W /\ h2[root["dump3"]].next \in {NULL} \cup W
    BY <1>6, <2>1
  <2>3. Good(V1, W)
    BY <1>1, <1>7, <1>9, <1>17, <2>1, <2>2 DEF Holds, Roots, FramePlaces
  <2> QED
    BY <2>3
<1>18. CASE /\ c.place = "primrec"
            /\ root' = [root EXCEPT !["dump"] = s, !["stk"] = h2[@].next]
            /\ current' = Top.u /\ memory' = h2 /\ UNCHANGED <<reading, bucket>>
  <2>1. h = memory /\ root["stk"] # NULL /\ memory[root["stk"]].op = "LIST_" /\ bucket = NULL
    BY <1>18 DEF Aims, Top
  <2>2. h2[root["stk"]].next \in Refs(low, V) /\ memory[root["stk"]].u \in Refs(low, V)
    BY <1>5, <1>9, <2>1
  <2>3. Good(V, W1)
    BY <1>1, <1>8, <1>9, <1>18, <2>1, <2>2 DEF Holds, Roots, FramePlaces, Top
  <2> QED
    BY <2>3
<1>19. CASE /\ c.place = "member" /\ root' = [root EXCEPT !["stk"] = s]
            /\ current' = h2[current].next /\ memory' = h2 /\ UNCHANGED <<reading, bucket>>
  <2>1. h2[current].next \in Refs(low, V) /\ bucket = NULL
    BY <1>5, <1>19 DEF Aims
  <2>2. Good(V1, W)
    BY <1>1, <1>7, <1>9, <1>19, <2>1 DEF Holds, Roots, FramePlaces
  <2> QED
    BY <2>2
<1> QED
  BY <1>4, <1>10, <1>11, <1>12, <1>13, <1>14, <1>15, <1>16, <1>17, <1>18, <1>19 DEF Deliver

(* The cells in use, parted into values and frames, in every state of the  *)
(* program; a collection starts from such a heap.                          *)
Parts(V, W) ==
  /\ V \cup W \subseteq Given
  /\ Divides(memory, mem_low, V, W) /\ Holds(root, mem_low, V, W, reading)
  /\ {bucket, current} \subseteq Refs(mem_low, V)
Took(M0, R0, C0, F, low, rd) ==
  \E V, W : /\ V \cup W \subseteq F
            /\ Divides(M0, low, V, W) /\ Holds(R0, low, V, W, rd)
            /\ C0 # NoCall => Brings(C0, low, V, W)
PartInv ==
  /\ pc = "run" => \E V, W : Parts(V, W)
  /\ pc \in {"roots", "call", "return"} =>
       \E M0, R0, C0, F, K, L, orig :
         Collecting(M0, R0, C0, F, K, L, orig) /\ Took(M0, R0, C0, F, mem_low, reading)

LEMMA CopyingParts == ASSUME HeapInv, PartInv, Copying PROVE PartInv'
<1>1. pc \in {"roots", "call", "return"}
  BY DEF Copying, SkipNull, CopyNext, SlotDone, CopySettled, CopyCell, CopyTail, CopyDone
<1>2. PICK M0, R0, C0, F, K, L, orig :
        Collecting(M0, R0, C0, F, K, L, orig) /\ Took(M0, R0, C0, F, mem_low, reading)
  BY <1>1 DEF PartInv
<1>3. Goes(M0, R0, C0, F, K, L)
  BY <1>1, <1>2, CopyingGoes DEF HeapInv
<1>4. PICK orig2 : Collecting(M0, R0, C0, F, K, L, orig2)'
  BY <1>3 DEF Goes
<1>5. mem_low' = mem_low /\ reading' = reading /\ pc' \in {"roots", "call", "return"}
  BY <1>3 DEF Goes
<1>6. Took(M0, R0, C0, F, mem_low', reading')
  BY <1>2, <1>5
<1> QED
  BY <1>4, <1>5, <1>6 DEF PartInv

LEMMA StartParts ==
  ASSUME Bounded, HeapInv', pc = "run", pc' = "roots", Starts, NEW V, NEW W,
         Above(mem_low', V \cup W), Divides(memory', mem_low', V, W),
         Holds(root', mem_low', V, W, reading'), call' # NoCall => Brings(call', mem_low', V, W)
  PROVE  PartInv'
<1>1. PICK args : /\ Gc1(call', args)
                  /\ \/ call' = NoCall /\ args = <<>>
                     \/ call' # NoCall /\ args = Own(call'.op)
  BY DEF Starts
<1>2. Given' = {}
  BY <1>1, Flip DEF Gc1
<1>3. Gathering'
  BY DEF HeapInv
<1>4. PICK M0, R0, C0, F, K, L, orig : Collecting(M0, R0, C0, F, K, L, orig)'
  BY <1>3 DEF Gathering
<1>5. PICK sl, low, rd : sl = slots' /\ low = mem_low' /\ rd = reading'
  OBVIOUS
<1>6. /\ \A a \in 0 .. low - 1 : memory'[a] = M0[a]
      /\ OldCells(M0, memory', F, {}, orig)
      /\ RootSlots(low, {}, orig, R0, root', sl)
      /\ CallSlots(low, {}, orig, C0, call', sl)
      /\ Start(M0, R0, C0, F, K, L, low, rd)
  BY <1>2, <1>4, <1>5 DEF Collecting, Progress, Slots
<1>7. args \in {<<>>, <<"r">>, <<"u", "r">>} /\ sl = CopyOrder \o args
  BY <1>1, <1>5 DEF Own, Gc1
<1>8. /\ In(sl) = Roots \cup In(args)
      /\ "u" \in In(args) <=> args = <<"u", "r">>
      /\ "r" \in In(args) <=> args # <<>>
  BY <1>7, SlotsStart
<1>9. \A a \in F : memory'[a] = M0[a]
  BY <1>6 DEF OldCells
<1>10. \A x \in Roots : root'[x] = R0[x]
  BY <1>6, <1>8 DEF RootSlots
<1>11. /\ Closure(M0, low, F) /\ Reaches(R0, low, F, rd) /\ Above(low, F)
       /\ C0 # NoCall => Args(M0, R0, K, L, low, F, rd, C0)
  BY <1>6 DEF Start, Shape
<1> DEFINE V2 == V \cap F
           W2 == W \cap F
<1>12. ASSUME NEW p, p \in Refs(low, V), p \in Refs(low, F) PROVE p \in Refs(low, V2)
  BY <1>12 DEF Refs
<1>13. ASSUME NEW p, p \in {NULL} \cup W, p \in Refs(low, F) PROVE p \in {NULL} \cup W2
  <2>1. CASE p \in W
    <3>1. p \notin -1 .. low - 1
      BY <1>5, <2>1 DEF Above, Addr, HeapInv, Bounded
    <3> QED
      BY <1>13, <2>1, <3>1 DEF Refs
  <2> QED
    BY <1>13, <2>1
<1>14. Divides(M0, low, V2, W2)
  <2>1. V2 \cap W2 = {}
    BY DEF Divides
  <2>2. ASSUME NEW a \in V2 PROVE Sound(M0[a], Refs(low, V2))
    <3>1. Sound(M0[a], Refs(low, V)) /\ Sound(M0[a], Refs(low, F))
      BY <1>5, <1>9, <1>11 DEF Divides, Closure
    <3> QED
      BY <1>12, <3>1 DEF Sound
  <2>3. ASSUME NEW a \in W2
        PROVE  M0[a].op = "LIST_" /\ M0[a].u \in Refs(low, V2) /\ M0[a].next \in {NULL} \cup W2
    <3>1. M0[a].op = "LIST_" /\ M0[a].u \in Refs(low, V) /\ M0[a].next \in {NULL} \cup W
      BY <1>5, <1>9 DEF Divides
    <3>2. Sound(M0[a], Refs(low, F))
      BY <1>11 DEF Closure
    <3> QED
      BY <1>12, <1>13, <3>1, <3>2 DEF Sound
  <2> QED
    BY <2>1, <2>2, <2>3 DEF Divides
<1>15. Holds(R0, low, V2, W2, rd)
  <2>1. /\ R0["stk"] \in Refs(low, V) /\ (rd = <<"run">> => R0["prog"] \in Refs(low, V))
        /\ \A x \in {"conts", "dump", "dump2", "dump3"} : R0[x] \in {NULL} \cup W
    BY <1>5, <1>10 DEF Holds, Roots
  <2>2. R0["stk"] \in Refs(low, F) /\ (rd = <<"run">> => R0["prog"] \in Refs(low, F))
    BY <1>11 DEF Reaches, Roots
  <2>3. \A x \in {"conts", "dump", "dump2", "dump3"} : R0[x] \in Refs(low, F)
    BY <1>11 DEF Reaches, Roots
  <2> QED
    BY <1>12, <1>13, <2>1, <2>2, <2>3 DEF Holds
<1>16. ASSUME C0 # NoCall PROVE Brings(C0, low, V2, W2)
  <2>1. C0.op \in {"INTEGER_", "LIST_"} /\ C0.next \in Refs(low, F) /\ (C0.op = "LIST_" => C0.u \in Refs(low, F))
    BY <1>11, <1>16 DEF Args
  <2>2. call'.op = C0.op /\ call'.place = C0.place /\ call'.op # "ILLEGAL_"
    BY <1>6, <1>16, <2>1 DEF CallSlots
  <2>3. call' # NoCall
    BY <2>2 DEF NoCall
  <2>4. args = Own(call'.op)
    BY <1>1, <2>3
  <2>5. "r" \in In(sl) /\ (C0.op = "LIST_" => "u" \in In(sl))
    BY <1>8, <2>2, <2>4 DEF Own
  <2>6. call'.u = C0.u /\ call'.next = C0.next
    BY <1>6, <1>16, <2>5 DEF CallSlots
  <2>7. Brings(call', low, V, W)
    BY <1>5, <2>3
  <2> QED
    BY <1>12, <1>13, <2>1, <2>2, <2>6, <2>7 DEF Brings
<1>17. Took(M0, R0, C0, F, low, rd)
  <2>1. V2 \cup W2 \subseteq F
    OBVIOUS
  <2> QED
    BY <1>14, <1>15, <1>16, <2>1 DEF Took
<1> QED
  BY <1>4, <1>5, <1>17 DEF PartInv

(* What a finished collection leaves. *)
LEMMA MovedParts ==
  ASSUME NEW M0, NEW R0, NEW C0, NEW F, NEW K, NEW L, NEW orig, Bounded,
         Collecting(M0, R0, C0, F, K, L, orig), Took(M0, R0, C0, F, mem_low, reading),
         pc = "roots", slots = <<>>
  PROVE  \E V, W : /\ V \cup W \subseteq Given
                   /\ Divides(memory, mem_low, V, W) /\ Holds(root, mem_low, V, W, reading)
                   /\ call # NoCall => Brings(call, mem_low, V, W)
<1>1. PICK low, G, R, rd : low = mem_low /\ G = Given /\ R = root /\ rd = reading
  OBVIOUS
<1>2. /\ Moved(M0, memory, R0, R, low, F, G, orig)
      /\ C0 = NoCall <=> call = NoCall
      /\ C0 # NoCall => MovedCall(low, G, orig, C0, call)
  BY <1>1, Ended
<1>3. Start(M0, R0, C0, F, K, L, low, rd) /\ low \in Addr
  BY <1>1 DEF Collecting, Bounded
<1>4. /\ Closure(M0, low, F) /\ Reaches(R0, low, F, rd) /\ Above(low, F) /\ Above(low, G)
      /\ R0["prog"] \in Refs(low, F)
      /\ C0 # NoCall => Args(M0, R0, K, L, low, F, rd, C0)
  BY <1>2, <1>3 DEF Start, Shape, Moved
<1>5. PICK V, W : /\ V \cup W \subseteq F
                  /\ Divides(M0, low, V, W) /\ Holds(R0, low, V, W, rd)
                  /\ C0 # NoCall => Brings(C0, low, V, W)
  BY <1>1 DEF Took
<1> DEFINE V2 == {b \in G : orig[b] \in V}
           W2 == {b \in G : orig[b] \in W}
<1>6. ASSUME NEW p, NEW q, p \in Refs(low, V), Copies(low, G, orig, p, q) PROVE q \in Refs(low, V2)
  <2>1. p \in Refs(low, F)
    BY <1>5, <1>6 DEF Refs
  <2>2. (p \in F => q \in G /\ orig[q] = p) /\ (p \in Refs(low, {}) => q = p)
    <3>1. (p \in F <=> q \in G) /\ (p \in F => orig[q] = p)
      BY <1>3, <1>4, <1>6, <2>1, CopyFacts
    <3> QED
      BY <1>6, <3>1 DEF Copies
  <2>3. CASE p \in V
    BY <1>5, <2>2, <2>3 DEF Refs
  <2>4. CASE p \in Refs(low, {})
    BY <2>2, <2>4 DEF Refs
  <2> QED
    BY <1>6, <2>3, <2>4 DEF Refs
<1>7. ASSUME NEW p, NEW q, p \in {NULL} \cup W, Copies(low, G, orig, p, q) PROVE q \in {NULL} \cup W2
  <2>1. p \in Refs(low, F)
    BY <1>3, <1>5, <1>7, RefFacts DEF Refs
  <2>2. (p \in F => q \in G /\ orig[q] = p) /\ (p = NULL => q = NULL)
    BY <1>3, <1>4, <1>7, <2>1, CopyFacts
  <2> QED
    BY <1>5, <1>7, <2>2
<1> HIDE DEF V2, W2
<1>8. ASSUME NEW b \in G PROVE orig[b] \in F /\ Copied(M0, memory, low, G, orig, b)
  BY <1>2 DEF Moved
<1>9. Divides(memory, low, V2, W2)
  <2>1. V2 \cap W2 = {} /\ V2 \subseteq G /\ W2 \subseteq G
    BY <1>5 DEF Divides, V2, W2
  <2>2. ASSUME NEW b \in V2 PROVE Sound(memory[b], Refs(low, V2))
    <3>1. orig[b] \in V /\ Copied(M0, memory, low, G, orig, b)
      BY <1>8, <2>1 DEF V2
    <3>2. Sound(M0[orig[b]], Refs(low, V))
      BY <1>5, <3>1 DEF Divides
    <3> QED
      BY <1>6, <3>1, <3>2 DEF Copied, Sound
  <2>3. ASSUME NEW b \in W2
        PROVE  /\ memory[b].op = "LIST_" /\ memory[b].u \in Refs(low, V2)
               /\ memory[b].next \in {NULL} \cup W2
    <3>1. orig[b] \in W /\ Copied(M0, memory, low, G, orig, b)
      BY <1>8, <2>1 DEF W2
    <3>2. M0[orig[b]].op = "LIST_" /\ M0[orig[b]].u \in Refs(low, V) /\ M0[orig[b]].next \in {NULL} \cup W
      BY <1>5, <3>1 DEF Divides
    <3> QED
      BY <1>6, <1>7, <3>1, <3>2 DEF Copied
  <2> QED
    BY <2>1, <2>2, <2>3 DEF Divides
<1>10. Holds(R, low, V2, W2, rd)
  <2>1. \A x \in Roots : Copies(low, G, orig, R0[x], R[x])
    BY <1>2 DEF Moved
  <2>2. R["stk"] \in Refs(low, V2) /\ (rd = <<"run">> => R["prog"] \in Refs(low, V2))
    BY <1>5, <1>6, <2>1 DEF Holds, Roots
  <2>3. ASSUME NEW x \in {"conts", "dump", "dump2", "dump3"} PROVE R[x] \in {NULL} \cup W2
    <3>1. R0[x] \in {NULL} \cup W /\ Copies(low, G, orig, R0[x], R[x])
      BY <1>5, <2>1 DEF Holds, Roots
    <3> QED
      BY <1>7, <3>1
  <2> QED
    BY <2>2, <2>3 DEF Holds
<1>11. call # NoCall => Brings(call, low, V2, W2)
  <2> SUFFICES ASSUME call # NoCall PROVE Brings(call, low, V2, W2)
    OBVIOUS
  <2>1. MovedCall(low, G, orig, C0, call) /\ Brings(C0, low, V, W)
    BY <1>2, <1>5
  <2>2. /\ call.op = C0.op /\ call.place = C0.place
        /\ Copies(low, G, orig, C0.next, call.next)
        /\ IF C0.op = "LIST_" THEN Copies(low, G, orig, C0.u, call.u) ELSE call.u = C0.u
    BY <2>1 DEF MovedCall
  <2>3. C0.op \in {"INTEGER_", "LIST_"} /\ C0.u \in Int /\ (C0.op = "LIST_" => C0.u \in Refs(low, V))
    BY <2>1 DEF Brings
  <2>4. call.op = "LIST_" => call.u \in Refs(low, V2)
    BY <1>6, <2>2, <2>3
  <2>5. call.u \in Int
    <3>1. Above(low, V2)
      BY <1>4 DEF Above, V2
    <3>2. Refs(low, V2) \subseteq Int
      BY <1>3, <3>1, RefTypes
    <3> QED
      BY <2>2, <2>3, <2>4, <3>2
  <2>6. CASE C0.place \in FramePlaces
    BY <1>7, <2>1, <2>2, <2>3, <2>4, <2>5, <2>6 DEF Brings
  <2>7. CASE C0.place \notin FramePlaces
    BY <1>6, <2>1, <2>2, <2>3, <2>4, <2>5, <2>7 DEF Brings
  <2> QED
    BY <2>6, <2>7
<1>12. V2 \cup W2 \subseteq G
  BY DEF V2, W2
<1> QED
  BY <1>1, <1>9, <1>10, <1>11, <1>12

LEMMA ArgsAim ==
  ASSUME NEW K, NEW L, NEW c, Above(mem_low, Given), Wellread(reading), root \in [Roots -> Ptr],
         Shape(memory, root, K, L, mem_low, Given, reading),
         Args(memory, root, K, L, mem_low, Given, reading, c), c.place = "member" => current # NULL
  PROVE  Aims(memory, c)
<1>1. \A p \in Given : p # NULL
  BY DEF Above, Addr, NULL
<1>2. ASSUME c.place = "factor", Phase # "first" PROVE root["dump"] # NULL
  <2>1. Depth(reading) # 0 /\ reading[Depth(reading)] # "end"
    BY <1>2 DEF Args
  <2>2. reading # <<"run">> /\ Depth(reading) = Len(reading) /\ reading \in Seq(Phases)
    BY <2>1 DEF Depth, Wellread
  <2>3. Len(reading) \in Nat \ {0} /\ Len(reading) \in 1 .. Len(reading)
    BY <2>1, <2>2
  <2>4. reading[Len(reading)] = "more"
    BY <1>2, <2>1, <2>2, <2>3 DEF Phase, Phases
  <2>5. OnEnds(K, L, Given, reading, Len(reading), root["dump"])
    BY <2>2 DEF Shape, Terms
  <2>6. ~NoEnd(reading, 1, Len(reading))
    BY <2>3, <2>4 DEF NoEnd
  <2> QED
    BY <1>1, <2>5, <2>6 DEF OnEnds, EndAt
<1>3. ASSUME c.place \in {"DMP2", "DMP3->next", "mapped"}
      PROVE  /\ root["dump2"] # NULL /\ root["dump3"] # NULL
             /\ c.place = "DMP3->next" => Dmp("dump3") # NULL
  <2>1. root["dump3"] # NULL /\ (c.place = "DMP3->next" => memory[root["dump2"]].u # NULL)
    BY <1>3 DEF Args
  <2> QED
    BY <1>1, <2>1 DEF Shape, Maps, ItemAt, Dmp
<1>4. c.place = "primrec" => root["stk"] # NULL /\ Top.op = "LIST_"
  BY DEF Args, Top
<1> QED
  BY <1>2, <1>3, <1>4 DEF Aims

LEMMA GcDoneParts == ASSUME Safe, HeapInv, PartInv, GcDone PROVE PartInv'
<1>1. /\ pc = "roots" /\ slots = <<>> /\ TypeOK /\ Bounded /\ Sides /\ Gathering
      /\ current = NULL /\ mem_low \in Addr
  BY DEF GcDone, HeapInv, Gathering, Bounded
<1>2. PICK M0, R0, C0, F, K0, L0, orig :
        Collecting(M0, R0, C0, F, K0, L0, orig) /\ Took(M0, R0, C0, F, mem_low, reading)
  BY <1>1 DEF PartInv
<1>3. PICK V, W : /\ V \cup W \subseteq Given
                  /\ Divides(memory, mem_low, V, W) /\ Holds(root, mem_low, V, W, reading)
                  /\ call # NoCall => Brings(call, mem_low, V, W)
  BY <1>1, <1>2, MovedParts
<1>4. PICK K, L :
        /\ Shape(memory, root, K, L, mem_low, Given, reading)
        /\ call # NoCall => Args(memory, root, K, L, mem_low, Given, reading, call)
  BY <1>1, <1>2, Finished
<1>5. CASE call = NoCall
  <2>1. pc' = "run" /\ UNCHANGED <<mem, program, call, slots, calls, reg>>
    BY <1>5 DEF GcDone
  <2>2. UNCHANGED <<memory, memoryindex, mem_low, direction, root, reading, current, bucket>>
    BY <2>1 DEF mem, program
  <2>3. bucket = NULL /\ {bucket, current} \subseteq Refs(mem_low, V)
    BY <1>1, <1>5, RefFacts DEF Gathering, NoCall
  <2>4. Parts(V, W)'
    BY <1>3, <2>2, <2>3 DEF Parts, Given
  <2> QED
    BY <2>1, <2>4 DEF PartInv
<1>6. CASE call # NoCall /\ NoRoom
  BY <1>6 DEF GcDone, Exhausted, PartInv
<1>7. CASE call # NoCall /\ ~NoRoom
  <2>1. PICK s, c : s = memoryindex /\ c = call
    OBVIOUS
  <2>2. /\ Deliver(Filled(memory, s, c), s, c) /\ memoryindex' = memoryindex + direction
        /\ UNCHANGED <<mem_low, mem_mid, direction>> /\ pc' = "run"
    BY <1>7, <2>1 DEF GcDone, Allocate, Filled
  <2>3. /\ Given' = With(Given, s)
        /\ s \in Addr /\ s >= mem_low /\ s \notin Given /\ Above(mem_low, Given)
    BY <1>1, <1>7, <2>1, <2>2, Allot, GivenAbove
  <2>4. memory \in [Addr -> Cell] /\ root \in [Roots -> Ptr] /\ Wellread(reading)
    BY <1>1 DEF TypeOK, Sides
  <2>5. Args(memory, root, K, L, mem_low, Given, reading, c) /\ c.place # "member"
        /\ (bucket # NULL => c.place = "stk")
    BY <1>1, <1>4, <1>7, <2>1 DEF Gathering
  <2>6. Aims(memory, c)
    BY <1>4, <2>3, <2>4, <2>5, ArgsAim
  <2>7. ASSUME c.place \in ReaderPlaces PROVE reading' # <<"run">>
    <3>1. /\ c.place = "header" => reading # <<"run">>
          /\ c.place \in {"factor", "end"} => Depth(reading) # 0
      BY <2>5 DEF Args
    <3>2. reading # <<"run">>
      BY <2>7, <3>1 DEF ReaderPlaces, Depth
    <3>3. reading \in Seq(Phases)
      BY <2>4, <3>2 DEF Wellread
    <3>4. c.place \in {"factor", "end"} => Len(reading) # 0
      BY <3>1, <3>3, DepthIsLen
    <3> QED
      BY <2>2, <2>7, <3>3, <3>4, DeliverReads
  <2>8. /\ Above(mem_low, V \cup W) /\ s \notin V \cup W
        /\ \A a \in 0 .. mem_low - 1 : Sound(memory[a], Refs(mem_low, {}))
        /\ current \in Refs(mem_low, V) /\ Brings(c, mem_low, V, W)
    BY <1>1, <1>3, <1>4, <1>7, <2>1, <2>3, RefFacts DEF Above, Shape, Closure
  <2>9. PICK V2, W2 : /\ V2 \cup W2 \subseteq V \cup W \cup {s}
                      /\ Divides(memory', mem_low, V2, W2) /\ Holds(root', mem_low, V2, W2, reading')
                      /\ {bucket', current'} \subseteq Refs(mem_low, V2)
    BY <1>1, <1>3, <2>2, <2>3, <2>4, <2>5, <2>6, <2>7, <2>8, DeliverApart
  <2>10. Parts(V2, W2)'
    BY <1>3, <2>2, <2>3, <2>9 DEF Parts, With
  <2> QED
    BY <2>2, <2>10 DEF PartInv
<1> QED
  BY <1>5, <1>6, <1>7

LEMMA CollectorParts == ASSUME Safe, HeapInv, PartInv, Collector PROVE PartInv'
<1>1. CASE GcDone
  BY <1>1, GcDoneParts
<1>2. CASE CopyCell /\ NoRoom
  BY <1>2 DEF CopyCell, Exhausted, PartInv
<1>3. CASE Copying
  BY <1>3, CopyingParts
<1> QED
  BY <1>1, <1>2, <1>3 DEF Collector, Copying

-----------------------------------------------------------------------------
(* The program. *)
PartUses(V, W) ==
  /\ Parts(V, W) /\ NULL \in Refs(mem_low, V)
  /\ Above(mem_low, V \cup W)
  /\ \A p \in Refs(mem_low, V) : p # NULL =>
       /\ p \in Addr /\ p \notin W
       /\ memory[p].op \in {"INTEGER_", "LIST_"} /\ memory[p].u \in Int
       /\ memory[p].next \in Refs(mem_low, V)
       /\ memory[p].op = "LIST_" => memory[p].u \in Refs(mem_low, V)
  /\ \A p \in {NULL} \cup W : p # NULL =>
       /\ p \in Addr /\ memory[p].op = "LIST_" /\ memory[p].u \in Refs(mem_low, V)
       /\ memory[p].next \in {NULL} \cup W
  /\ Refs(mem_low, V) \subseteq Int
  /\ root["stk"] \in Refs(mem_low, V) /\ (reading = <<"run">> => root["prog"] \in Refs(mem_low, V))
  /\ \A x \in {"conts", "dump", "dump2", "dump3"} : root[x] \in {NULL} \cup W
  /\ {bucket, current} \subseteq Refs(mem_low, V)

LEMMA RunParts ==
  ASSUME HeapInv, PartInv, pc = "run"
  PROVE  \E V, W : PartUses(V, W)
<1>1. /\ mem_low \in Addr /\ Above(mem_low, Given) /\ Calm /\ memory \in [Addr -> Cell]
  BY RunFacts
<1>2. PICK V, W : Parts(V, W)
  BY DEF PartInv
<1>3. /\ Above(mem_low, V \cup W) /\ Divides(memory, mem_low, V, W) /\ Holds(root, mem_low, V, W, reading)
      /\ \A a \in 0 .. mem_low - 1 : Sound(memory[a], Refs(mem_low, {}))
  BY <1>1, <1>2 DEF Parts, Above, Calm, Shape, Closure
<1>4. Above(mem_low, V)
  BY <1>3 DEF Above
<1>5. NULL \in Refs(mem_low, V) /\ Refs(mem_low, V) \subseteq Int
  BY <1>1, <1>4, RefFacts, RefTypes
<1>6. ASSUME NEW p \in Refs(mem_low, V), p # NULL
      PROVE  /\ p \in Addr /\ p \notin W
             /\ memory[p].op \in {"INTEGER_", "LIST_"} /\ memory[p].u \in Int
             /\ memory[p].next \in Refs(mem_low, V)
             /\ memory[p].op = "LIST_" => memory[p].u \in Refs(mem_low, V)
  <2>1. p \in Addr /\ Sound(memory[p], Refs(mem_low, V))
    BY <1>1, <1>3, <1>6, ValueUses
  <2>2. p \notin W
    BY <1>1, <1>3, <1>6, RefCases DEF Divides, Above, Addr
  <2>3. memory[p].u \in Int
    BY <1>1, <2>1 DEF Cell
  <2> QED
    BY <2>1, <2>2, <2>3 DEF Sound
<1>7. ASSUME NEW p \in W
      PROVE  /\ p \in Addr /\ memory[p].op = "LIST_" /\ memory[p].u \in Refs(mem_low, V)
             /\ memory[p].next \in {NULL} \cup W
  BY <1>3 DEF Divides, Above
<1> QED
  BY <1>2, <1>3, <1>5, <1>6, <1>7 DEF PartUses, Parts, Holds

LEMMA NewNodeParts ==
  ASSUME Safe, HeapInv, HeapInv', pc = "run", NEW h \in [Addr -> Cell],
         NEW o, NEW u, NEW r, NEW place, NEW V, NEW W, NEW c, c = Request(o, u, r, place),
         V \cup W \subseteq Given, \A a \in 0 .. mem_low - 1 : Sound(h[a], Refs(mem_low, {})),
         Divides(h, mem_low, V, W), Holds(root, mem_low, V, W, reading), current \in Refs(mem_low, V),
         Brings(c, mem_low, V, W), Aims(h, c), bucket # NULL => place = "stk", place # "none",
         place \in ReaderPlaces => reading \in Seq(Phases),
         place \in {"factor", "end"} => Len(reading) # 0,
         NewNode(h, o, u, r, place), Still
  PROVE  PartInv'
<1>1. /\ TypeOK /\ Bounded /\ mem_low \in Addr /\ Above(mem_low, Given) /\ root \in [Roots -> Ptr]
  BY RunFacts
<1>2. /\ \/ ~NoRoom /\ Allocate(h, c) /\ UNCHANGED gc
         \/ /\ memoryindex = mem_mid /\ ~defining /\ Gc1(c, Own(o))
            /\ memory' = h /\ UNCHANGED <<root, reading, current, bucket>>
         \/ pc' = "full"
      /\ c.place = place
  BY DEF NewNode, Own, Request
<1>3. Above(mem_low, V \cup W)
  BY <1>1 DEF Above
<1>4. CASE ~NoRoom /\ Allocate(h, c) /\ UNCHANGED gc
  <2>1. PICK s : s = memoryindex
    OBVIOUS
  <2>2. /\ Deliver(Filled(h, s, c), s, c) /\ memoryindex' = memoryindex + direction
        /\ UNCHANGED <<mem_low, mem_mid, direction>> /\ pc' = "run"
    BY <1>4, <2>1 DEF Allocate, Filled, gc
  <2>3. /\ Given' = With(Given, s) /\ s \in Addr /\ s >= mem_low /\ s \notin Given
    BY <1>1, <1>4, <2>1, <2>2, Allot
  <2>4. c.place \in ReaderPlaces => reading' # <<"run">>
    BY <1>2, <2>2, DeliverReads
  <2>5. s \notin V \cup W
    BY <2>3
  <2>6. PICK V2, W2 : /\ V2 \cup W2 \subseteq V \cup W \cup {s}
                      /\ Divides(memory', mem_low, V2, W2) /\ Holds(root', mem_low, V2, W2, reading')
                      /\ {bucket', current'} \subseteq Refs(mem_low, V2)
    BY <1>1, <1>2, <1>3, <2>2, <2>3, <2>4, <2>5, DeliverApart
  <2>7. Parts(V2, W2)'
    BY <2>2, <2>3, <2>6 DEF Parts, With
  <2> QED
    BY <2>2, <2>7 DEF PartInv
<1>5. CASE /\ memoryindex = mem_mid /\ ~defining /\ Gc1(c, Own(o))
           /\ memory' = h /\ UNCHANGED <<root, reading, current, bucket>>
  <2>1. pc' = "roots" /\ call' = c /\ mem_low' = mem_low
    BY <1>5 DEF Gc1
  <2>2. Starts
    BY <2>1, NewNodeStarts
  <2>3. /\ Above(mem_low', V \cup W) /\ Divides(memory', mem_low', V, W)
        /\ Holds(root', mem_low', V, W, reading') /\ Brings(call', mem_low', V, W)
    BY <1>3, <1>5, <2>1
  <2> QED
    BY <1>1, <2>1, <2>2, <2>3, StartParts
<1>6. CASE pc' = "full"
  BY <1>6 DEF PartInv
<1> QED
  BY <1>2, <1>4, <1>5, <1>6

LEMMA CallParts ==
  ASSUME Safe, HeapInv, HeapInv', pc = "run", NEW o \in {"INTEGER_", "LIST_"}, NEW u \in Int, NEW r,
         NEW place \in Places, NEW V, NEW W, PartUses(V, W), o = "LIST_" => u \in Refs(mem_low, V),
         IF place \in FramePlaces THEN o = "LIST_" /\ r \in {NULL} \cup W ELSE r \in Refs(mem_low, V),
         place = "factor" /\ Phase # "first" => root["dump"] # NULL,
         place \in {"DMP2", "DMP3->next", "mapped"} => root["dump2"] # NULL /\ root["dump3"] # NULL,
         place = "DMP3->next" => Dmp("dump3") # NULL,
         place = "primrec" => root["stk"] # NULL /\ Top.op = "LIST_",
         place = "member" => current # NULL, bucket # NULL => place = "stk",
         place \in ReaderPlaces => reading \in Seq(Phases),
         place \in {"factor", "end"} => Len(reading) # 0,
         NewNode(memory, o, u, r, place), Still
  PROVE  PartInv'
<1>1. PICK c : c = Request(o, u, r, place)
  OBVIOUS
<1>2. c.op = o /\ c.u = u /\ c.next = r /\ c.place = place
  BY <1>1, RequestIs
<1>3. Aims(memory, c) /\ Brings(c, mem_low, V, W)
  BY <1>2 DEF Aims, Brings
<1>4. /\ memory \in [Addr -> Cell] /\ \A a \in 0 .. mem_low - 1 : Sound(memory[a], Refs(mem_low, {}))
  BY RunFacts DEF Calm, Shape, Closure
<1>5. /\ V \cup W \subseteq Given /\ Divides(memory, mem_low, V, W)
      /\ Holds(root, mem_low, V, W, reading) /\ current \in Refs(mem_low, V)
  BY DEF PartUses, Parts
<1>6. place # "none"
  BY DEF Places
<1> QED
  BY <1>1, <1>3, <1>4, <1>5, <1>6, NewNodeParts

(* The operators that call newnode, each with what it passes. *)
LEMMA StackParts ==
  ASSUME Safe, HeapInv, PartInv, HeapInv', Stack \/ Rest \/ Cons_ \/ ConsList \/ Restore PROVE PartInv'
<1>1. pc = "run" /\ Still
  BY DEF Stack, Rest, Cons_, ConsList, Restore, Running
<1>2. PICK V, W : PartUses(V, W)
  BY <1>1, RunParts
<1>3. root["stk"] \in Refs(mem_low, V) /\ root["dump"] \in {NULL} \cup W
  BY <1>2 DEF PartUses
<1>4. PICK o, u, r, place :
        /\ NewNode(memory, o, u, r, place) /\ place \in {"stk", "bucket"}
        /\ o \in {"INTEGER_", "LIST_"} /\ u \in Int /\ (o = "LIST_" => u \in Refs(mem_low, V))
        /\ r \in Refs(mem_low, V) /\ (bucket # NULL => place = "stk")
  <2>1. CASE Stack
    BY <1>2, <1>3, <2>1 DEF Stack, Running, PartUses
  <2>2. CASE Rest
    <3>1. PICK s, t : s = root["stk"] /\ t = Top.u
      OBVIOUS
    <3>2. s # NULL /\ memory[s].op = "LIST_" /\ t # NULL /\ t = memory[s].u /\ bucket = NULL
      BY <2>2, <3>1 DEF Rest, OnList, Holding, Top, Running
    <3>3. t \in Refs(mem_low, V) /\ memory[s].next \in Refs(mem_low, V)
      BY <1>2, <1>3, <3>1, <3>2 DEF PartUses
    <3>4. memory[t].next \in Refs(mem_low, V) /\ memory[t].next \in Int
      BY <1>2, <3>2, <3>3 DEF PartUses
    <3>5. NewNode(memory, "LIST_", memory[t].next, memory[s].next, "stk")
      BY <2>2, <3>1 DEF Rest, Top
    <3> QED
      BY <3>2, <3>3, <3>4, <3>5
  <2>3. CASE Cons_
    <3>1. PICK s, t : s = root["stk"] /\ t = Top.next
      OBVIOUS
    <3>2. s # NULL /\ memory[s].op = "LIST_" /\ t # NULL /\ t = memory[s].next /\ bucket = NULL
      BY <2>3, <3>1 DEF Cons_, OnList, Holding, Top, Running
    <3>3. t \in Refs(mem_low, V) /\ memory[s].u \in Refs(mem_low, V)
      BY <1>2, <1>3, <3>1, <3>2 DEF PartUses
    <3>4. /\ memory[t].op \in {"INTEGER_", "LIST_"} /\ memory[t].u \in Int
          /\ memory[t].op = "LIST_" => memory[t].u \in Refs(mem_low, V)
      BY <1>2, <3>2, <3>3 DEF PartUses
    <3>5. NewNode(memory, memory[t].op, memory[t].u, memory[s].u, "bucket")
      BY <2>3, <3>1 DEF Cons_, Top
    <3> QED
      BY <3>2, <3>3, <3>4, <3>5
  <2>4. CASE ConsList
    <3>1. PICK s, t : s = root["stk"] /\ t = Top.next
      OBVIOUS
    <3>2. s # NULL /\ t # NULL /\ t = memory[s].next
      BY <1>1, <2>4, <3>1, PendingFacts DEF ConsList, Pair, Top
    <3>3. t \in Refs(mem_low, V)
      BY <1>2, <1>3, <3>1, <3>2 DEF PartUses
    <3>4. memory[t].next \in Refs(mem_low, V) /\ bucket \in Refs(mem_low, V) /\ bucket \in Int
      BY <1>2, <3>2, <3>3 DEF PartUses
    <3>5. NewNode(memory, "LIST_", bucket, memory[t].next, "stk")
      BY <2>4, <3>1 DEF ConsList
    <3> QED
      BY <3>4, <3>5
  <2>5. CASE Restore
    <3>1. PICK s, d : s = root["stk"] /\ d = root["dump"]
      OBVIOUS
    <3>2. s # NULL /\ d # NULL /\ bucket = NULL
      BY <2>5, <3>1 DEF Restore, Holding, Running
    <3>3. /\ memory[s].op \in {"INTEGER_", "LIST_"} /\ memory[s].u \in Int
          /\ memory[s].op = "LIST_" => memory[s].u \in Refs(mem_low, V)
          /\ memory[d].u \in Refs(mem_low, V)
      BY <1>2, <1>3, <3>1, <3>2 DEF PartUses
    <3>4. NewNode(memory, memory[s].op, memory[s].u, memory[d].u, "stk")
      BY <2>5, <3>1 DEF Restore, Top, Dmp
    <3> QED
      BY <3>2, <3>3, <3>4
  <2> QED
    BY <2>1, <2>2, <2>3, <2>4, <2>5
<1>5. place \in Places /\ place \notin FramePlaces /\ place \notin ReaderPlaces
  BY <1>4 DEF Places, FramePlaces, ReaderPlaces
<1> QED
  BY <1>1, <1>2, <1>4, <1>5, CallParts

LEMMA SaveParts ==
  ASSUME Safe, HeapInv, PartInv, HeapInv', Save \/ Primrec PROVE PartInv'
<1>1. PICK place \in {"dump", "primrec"} :
        /\ Running /\ Still /\ NewNode(memory, "LIST_", root["stk"], root["dump"], place)
        /\ place = "primrec" => root["stk"] # NULL /\ Top.op = "LIST_"
  <2>1. CASE Save
    BY <2>1 DEF Save
  <2>2. CASE Primrec
    BY <2>2 DEF Primrec, OnList, Holding
  <2> QED
    BY <2>1, <2>2
<1>2. pc = "run" /\ bucket = NULL
  BY <1>1 DEF Running
<1>3. PICK V, W : PartUses(V, W)
  BY <1>2, RunParts
<1>4. root["stk"] \in Refs(mem_low, V) /\ root["stk"] \in Int /\ root["dump"] \in {NULL} \cup W
  BY <1>3 DEF PartUses
<1>5. place \in Places /\ place \in FramePlaces /\ place \notin ReaderPlaces
  BY DEF Places, FramePlaces, ReaderPlaces
<1> QED
  BY <1>1, <1>2, <1>3, <1>4, <1>5, CallParts

LEMMA MapParts ==
  ASSUME Safe, HeapInv, PartInv, HeapInv', MapOpen \/ MapOpenLast \/ MapCollect \/ MapClose
  PROVE  PartInv'
<1>1. pc = "run" /\ Still
  BY DEF MapOpen, MapOpenLast, MapCollect, MapClose, Running
<1>2. PICK V, W : PartUses(V, W)
  BY <1>1, RunParts
<1>3. NULL \in Refs(mem_low, V) /\ NULL \in Int
  BY <1>2 DEF PartUses
<1>4. CASE MapOpen
  <2>1. bucket = NULL /\ root["dump2"] = NULL /\ NewNode(memory, "LIST_", NULL, NULL, "dump2")
    BY <1>4 DEF MapOpen, Mapping, Running
  <2> QED
    BY <1>1, <1>2, <1>3, <2>1, CallParts DEF Places, FramePlaces, ReaderPlaces
<1>5. CASE MapOpenLast
  <2>1. root["dump3"] = NULL /\ root["dump2"] # NULL /\ NewNode(memory, "LIST_", NULL, NULL, "dump3")
    BY <1>5 DEF MapOpenLast, Mapping
  <2>2. bucket = NULL
    BY <1>1, <2>1, PendingFacts DEF Even
  <2> QED
    BY <1>1, <1>2, <1>3, <2>1, <2>2, CallParts DEF Places, FramePlaces, ReaderPlaces
<1>6. CASE MapCollect
  <2>1. PICK s, place : s = root["stk"] /\ place = IF Dmp("dump2") = NULL THEN "DMP2" ELSE "DMP3->next"
    OBVIOUS
  <2>2. /\ Running /\ root["dump2"] # NULL /\ root["dump3"] # NULL /\ s # NULL /\ bucket = NULL
        /\ NewNode(memory, memory[s].op, memory[s].u, NULL, place)
        /\ place = "DMP3->next" => Dmp("dump2") # NULL
    BY <1>6, <2>1 DEF MapCollect, Running, Mapping, Holding, Top
  <2>3. /\ memory[s].op \in {"INTEGER_", "LIST_"} /\ memory[s].u \in Int
        /\ memory[s].op = "LIST_" => memory[s].u \in Refs(mem_low, V)
    BY <1>2, <2>1, <2>2 DEF PartUses
  <2>4. Dmp("dump2") # NULL => Dmp("dump3") # NULL
    <3>1. PICK K, L : Shape(memory, root, K, L, mem_low, Given, reading)
      BY <2>2, RunningFacts
    <3>2. Above(mem_low, Given)
      BY <2>2, RunningFacts
    <3> QED
      BY <2>2, <3>1, <3>2 DEF Shape, Maps, ItemAt, Dmp, Above, Addr, NULL
  <2>5. place \in {"DMP2", "DMP3->next"}
    BY <2>1
  <2>6. place \in Places /\ place \notin FramePlaces /\ place \notin ReaderPlaces
    BY <2>5 DEF Places, FramePlaces, ReaderPlaces
  <2> QED
    BY <1>1, <1>2, <1>3, <2>2, <2>3, <2>4, <2>5, <2>6, CallParts
<1>7. CASE MapClose
  <2>1. PICK d : d = root["dump2"]
    OBVIOUS
  <2>2. /\ d # NULL /\ root["dump3"] # NULL /\ bucket = NULL
        /\ NewNode(memory, "LIST_", memory[d].u, root["stk"], "mapped")
    BY <1>7, <2>1 DEF MapClose, Running, Mapping, Dmp
  <2>3. /\ memory[d].u \in Refs(mem_low, V) /\ memory[d].u \in Int /\ root["stk"] \in Refs(mem_low, V)
    BY <1>2, <2>1, <2>2 DEF PartUses
  <2> QED
    BY <1>1, <1>2, <2>1, <2>2, <2>3, CallParts DEF Places, FramePlaces, ReaderPlaces
<1> QED
  BY <1>4, <1>5, <1>6, <1>7

LEMMA EnterParts ==
  ASSUME Safe, HeapInv, PartInv, HeapInv', Enter PROVE PartInv'
<1>1. pc = "run" /\ Still /\ bucket = NULL
  <2>1. pc = "run" /\ Still /\ (reading = <<"run">> \/ bucket = NULL)
    BY DEF Enter, Running
  <2>2. bucket # NULL => reading = <<>>
    BY <2>1, PendingFacts
  <2>3. <<>> # <<"run">>
    OBVIOUS
  <2> QED
    BY <2>1, <2>2, <2>3
<1>2. PICK V, W : PartUses(V, W)
  BY <1>1, RunParts
<1>3. PICK u : NewNode(memory, "LIST_", u, root["conts"], "conts") /\ u \in Refs(mem_low, V) /\ u \in Int
  <2>1. CASE reading = <<"run">> /\ NewNode(memory, "LIST_", root["prog"], root["conts"], "conts")
    BY <1>2, <2>1 DEF PartUses
  <2>2. CASE /\ Running
             /\ \E n \in Names : body[n] # NULL /\ NewNode(memory, "LIST_", body[n], root["conts"], "conts")
    <3>1. PICK n \in Names : NewNode(memory, "LIST_", body[n], root["conts"], "conts")
      BY <2>2
    <3>2. ~defining /\ Definitions /\ mem_low \in Addr
      BY <1>1, <2>2, RunFacts DEF Running
    <3>3. body[n] \in Refs(mem_low, V)
      BY <3>2, RefFacts DEF Definitions
    <3> QED
      BY <1>2, <3>1, <3>3 DEF PartUses
  <2> QED
    BY <2>1, <2>2 DEF Enter
<1>4. root["conts"] \in {NULL} \cup W
  BY <1>2 DEF PartUses
<1> QED
  BY <1>1, <1>2, <1>3, <1>4, CallParts DEF Places, FramePlaces, ReaderPlaces

LEMMA MemberParts ==
  ASSUME Safe, HeapInv, PartInv, HeapInv', PrimrecMember PROVE PartInv'
<1>1. /\ pc = "run" /\ current # NULL /\ Still
      /\ NewNode(memory, memory[current].op, memory[current].u, root["stk"], "member")
  BY DEF PrimrecMember
<1>2. PICK V, W : PartUses(V, W)
  BY <1>1, RunParts
<1>3. /\ memory[current].op \in {"INTEGER_", "LIST_"} /\ memory[current].u \in Int
      /\ memory[current].op = "LIST_" => memory[current].u \in Refs(mem_low, V)
      /\ root["stk"] \in Refs(mem_low, V)
  BY <1>1, <1>2 DEF PartUses
<1>4. bucket = NULL
  BY <1>1, PendingFacts
<1> QED
  BY <1>1, <1>2, <1>3, <1>4, CallParts DEF Places, FramePlaces, ReaderPlaces

LEMMA ReadParts ==
  ASSUME Safe, HeapInv, PartInv, HeapInv', Readterm \/ ReadList \/ ReadNumber PROVE PartInv'
<1>1. PICK o, u, place :
        /\ pc = "run" /\ Still /\ bucket = NULL /\ NewNode(memory, o, u, root["stk"], place)
        /\ reading \in Seq(Phases) /\ place \in {"header", "factor"}
        /\ o \in {"INTEGER_", "LIST_"} /\ u \in Int /\ (o = "LIST_" => u = NULL)
        /\ place = "factor" => Reading /\ Phase # "end" /\ Len(reading) # 0
  <2>1. NULL \in Int
    BY DEF NULL
  <2>2. CASE Readterm
    BY <2>1, <2>2 DEF Readterm
  <2>3. CASE ReadList
    BY <2>1, <2>3, ReadingFacts DEF ReadList
  <2>4. CASE ReadNumber
    <3>1. PICK i \in Numbers : NewNode(memory, "INTEGER_", i, root["stk"], "factor")
      BY <2>4 DEF ReadNumber
    <3>2. /\ Reading /\ Phase # "end" /\ Still /\ pc = "run" /\ bucket = NULL /\ reading \in Seq(Phases)
          /\ Len(reading) # 0
      BY <2>4, ReadingFacts DEF ReadNumber
    <3>3. i \in Int
      BY HeapAssumption
    <3> QED
      BY <3>1, <3>2, <3>3
  <2> QED
    BY <2>2, <2>3, <2>4
<1>2. PICK V, W : PartUses(V, W)
  BY <1>1, RunParts
<1>3. NULL \in Refs(mem_low, V) /\ root["stk"] \in Refs(mem_low, V)
  BY <1>2 DEF PartUses
<1>4. place = "factor" /\ Phase # "first" => root["dump"] # NULL
  <2> SUFFICES ASSUME place = "factor", Phase # "first" PROVE root["dump"] # NULL
    OBVIOUS
  <2>0. Phase # "end" /\ Phase # "first"
    BY <1>1
  <2>1. PICK K, L : Shape(memory, root, K, L, mem_low, Given, reading)
    BY <1>1, ReadingFacts
  <2>2. /\ Depth(reading) = Len(reading) /\ Len(reading) \in Nat \ {0} /\ Phase = reading[Len(reading)]
    BY <1>1, ReadingFacts
  <2>3. Phase = "more"
    <3>1. Len(reading) \in 1 .. Len(reading)
      BY <2>2
    <3>2. reading[Len(reading)] \in Phases
      BY <1>1, <3>1
    <3>3. Phase \in {"first", "end", "more"}
      BY <2>2, <3>2 DEF Phases
    <3> QED
      BY <2>0, <3>3
  <2>4. OnEnds(K, L, Given, reading, Len(reading), root["dump"])
    BY <2>1, <2>2 DEF Shape, Terms
  <2>5. ~NoEnd(reading, 1, Len(reading))
    <3>1. Len(reading) \in 1 .. Len(reading)
      BY <2>2
    <3> QED
      BY <2>2, <2>3, <3>1 DEF NoEnd
  <2>6. Above(mem_low, Given)
    BY <1>1, RunFacts
  <2> QED
    BY <2>4, <2>5, <2>6 DEF OnEnds, EndAt, Above, Addr, NULL
<1>5. place \in Places /\ place \notin FramePlaces /\ place # "end"
  BY <1>1 DEF Places, FramePlaces
<1> QED
  BY <1>1, <1>2, <1>3, <1>4, <1>5, CallParts

LEMMA ReadEndParts ==
  ASSUME Safe, HeapInv, PartInv, HeapInv', ReadEnd PROVE PartInv'
<1>1. PICK s : s = root["stk"]
  OBVIOUS
<1>2. Reading /\ Phase = "end" /\ Still /\ NewNode(memory, "LIST_", memory[s].u, root["dump"], "end")
  BY <1>1 DEF ReadEnd, Top
<1>3. /\ pc = "run" /\ bucket = NULL /\ reading \in Seq(Phases) /\ Len(reading) # 0
      /\ Depth(reading) # 0 /\ Above(mem_low, Given)
  BY <1>2, ReadingFacts, RunFacts
<1>4. PICK V, W : PartUses(V, W)
  BY <1>3, RunParts
<1>5. s # NULL /\ memory[s].op = "LIST_"
  <2>1. PICK K, L : Shape(memory, root, K, L, mem_low, Given, reading)
    BY <1>2, ReadingFacts
  <2>2. s \in Given /\ memory[s].op = "LIST_"
    BY <1>1, <1>3, <2>1 DEF Shape, Terms, HeaderAt
  <2> QED
    BY <1>3, <2>2 DEF Above, Addr, NULL
<1>6. memory[s].u \in Refs(mem_low, V) /\ memory[s].u \in Int /\ root["dump"] \in {NULL} \cup W
  BY <1>1, <1>4, <1>5 DEF PartUses
<1> QED
  BY <1>2, <1>3, <1>4, <1>6, CallParts DEF Places, FramePlaces, ReaderPlaces

LEMMA LiteralParts ==
  ASSUME Safe, HeapInv, PartInv, HeapInv', Literal PROVE PartInv'
<1>1. PICK a, p, q : a = root["conts"] /\ p = Dmp("conts") /\ q = memory[p].next
  OBVIOUS
<1>2. PICK h : h = [memory EXCEPT ![a].u = q]
  OBVIOUS
<1>3. PICK o, u : o = memory[p].op /\ u = memory[p].u
  OBVIOUS
<1>4. /\ Running /\ a # NULL /\ p # NULL /\ p = memory[a].u /\ Still
      /\ NewNode(h, o, u, root["stk"], "literal")
  BY <1>1, <1>2, <1>3 DEF Literal, Dmp
<1>5. pc = "run" /\ bucket = NULL /\ current = NULL
  BY <1>4 DEF Running
<1>6. PICK V, W : PartUses(V, W)
  BY <1>5, RunParts
<1>7. a \in W /\ a \in Addr /\ p \in Refs(mem_low, V)
  BY <1>1, <1>4, <1>6 DEF PartUses
<1>8. /\ o \in {"INTEGER_", "LIST_"} /\ u \in Int /\ (o = "LIST_" => u \in Refs(mem_low, V))
      /\ q \in Refs(mem_low, V) /\ q \in Int
  BY <1>1, <1>3, <1>4, <1>6, <1>7 DEF PartUses
<1>9. /\ memory \in [Addr -> Cell] /\ \A x \in 0 .. mem_low - 1 : Sound(memory[x], Refs(mem_low, {}))
      /\ mem_low \in Addr
  BY <1>5, RunFacts DEF Calm, Shape, Closure
<1>10. /\ h \in [Addr -> Cell] /\ \A x \in Addr : x # a => h[x] = memory[x]
       /\ h[a].op = memory[a].op /\ h[a].next = memory[a].next /\ h[a].u = q
  BY <1>2, <1>7, <1>8, <1>9 DEF Cell
<1>11. \A x \in 0 .. mem_low - 1 : Sound(h[x], Refs(mem_low, {}))
  <2>1. \A x \in 0 .. mem_low - 1 : x \in Addr /\ x # a
    BY <1>6, <1>7, <1>9, Below DEF PartUses, Above, Addr
  <2> QED
    BY <1>9, <1>10, <2>1
<1>12. /\ V \cup W \subseteq Given /\ Divides(memory, mem_low, V, W) /\ Above(mem_low, V \cup W)
       /\ Holds(root, mem_low, V, W, reading) /\ current \in Refs(mem_low, V)
  BY <1>6 DEF PartUses, Parts
<1>13. Divides(h, mem_low, V, W)
  <2>1. \A x \in V : x \in Addr /\ x # a
    BY <1>7, <1>12 DEF Divides, Above
  <2>2. \A x \in W : x \in Addr
    BY <1>12 DEF Above
  <2>3. ASSUME NEW x \in W
        PROVE  h[x].op = "LIST_" /\ h[x].u \in Refs(mem_low, V) /\ h[x].next \in {NULL} \cup W
    BY <1>8, <1>10, <1>12, <2>2 DEF Divides
  <2> QED
    BY <1>10, <1>12, <2>1, <2>3 DEF Divides
<1>14. PICK c : c = Request(o, u, root["stk"], "literal")
  OBVIOUS
<1>15. c.op = o /\ c.u = u /\ c.next = root["stk"] /\ c.place = "literal"
  BY <1>14, RequestIs
<1>16. Aims(h, c) /\ Brings(c, mem_low, V, W)
  BY <1>6, <1>8, <1>15 DEF Aims, Brings, FramePlaces, PartUses
<1>17. "literal" \notin ReaderPlaces /\ "literal" \notin {"factor", "end"} /\ "literal" # "none"
  BY DEF ReaderPlaces
<1> QED
  BY <1>4, <1>5, <1>10, <1>11, <1>12, <1>13, <1>14, <1>16, <1>17, NewNodeParts

(* The steps that do not call newnode. *)
LEMMA SameParts ==
  ASSUME pc = "run", NEW V, NEW W, V \cup W \subseteq Given, Divides(memory', mem_low, V, W),
         UNCHANGED <<memoryindex, mem_low, direction, pc>>,
         Holds(root', mem_low, V, W, reading'), {bucket', current'} \subseteq Refs(mem_low, V)
  PROVE  PartInv'
<1>1. Given' = Given /\ pc' = "run" /\ mem_low' = mem_low
  BY DEF Given
<1>2. Parts(V, W)'
  BY <1>1 DEF Parts
<1> QED
  BY <1>1, <1>2 DEF PartInv

LEMMA RegisterParts ==
  ASSUME HeapInv, PartInv, Leave \/ Pop \/ Unstack \/ PopDump \/ WhileAgain \/ Abort PROVE PartInv'
<1>1. /\ pc = "run" /\ UNCHANGED <<mem, current, bucket, gc>>
      /\ reading' = reading \/ reading' = <<>>
  BY DEF Leave, Pop, Unstack, PopDump, WhileAgain, InWhile, Abort, Running, SetRoots
<1>2. PICK V, W : PartUses(V, W)
  BY <1>1, RunParts
<1>3. /\ root \in [Roots -> Ptr] /\ <<>> # <<"run">>
      /\ UNCHANGED <<memory, memoryindex, mem_low, direction, pc>>
  BY <1>1, RunFacts DEF mem, gc
<1>4. Holds(root', mem_low, V, W, reading')
  <2>1. CASE Leave
    <3>1. /\ root["conts"] # NULL /\ root' = [root EXCEPT !["conts"] = memory[@].next]
          /\ reading' = reading
      BY <2>1 DEF Leave, SetRoots
    <3>2. memory[root["conts"]].next \in {NULL} \cup W
      BY <1>2, <3>1 DEF PartUses
    <3> QED
      BY <1>2, <1>3, <3>1, <3>2 DEF Holds, PartUses, Roots
  <2>2. CASE PopDump
    <3>1. /\ root["dump"] # NULL /\ root' = [root EXCEPT !["dump"] = memory[@].next]
          /\ reading' = reading
      BY <2>2 DEF PopDump, SetRoots
    <3>2. memory[root["dump"]].next \in {NULL} \cup W
      BY <1>2, <3>1 DEF PartUses
    <3> QED
      BY <1>2, <1>3, <3>1, <3>2 DEF Holds, PartUses, Roots
  <2>3. CASE Pop \/ Unstack
    <3>1. /\ root["stk"] # NULL /\ reading' = reading
          /\ \/ root' = [root EXCEPT !["stk"] = memory[@].next]
             \/ root' = [root EXCEPT !["stk"] = memory[@].u] /\ memory[root["stk"]].op = "LIST_"
      BY <2>3 DEF Pop, Unstack, SetRoots, OnList, Holding, Top
    <3>2. /\ memory[root["stk"]].next \in Refs(mem_low, V)
          /\ memory[root["stk"]].op = "LIST_" => memory[root["stk"]].u \in Refs(mem_low, V)
      BY <1>2, <3>1 DEF PartUses
    <3> QED
      BY <1>2, <1>3, <3>1, <3>2 DEF Holds, PartUses, Roots
  <2>4. CASE WhileAgain
    <3>1. PICK d, t : d = Dmp("dump") /\ t = Test
      OBVIOUS
    <3>2. /\ root["dump"] # NULL /\ d = memory[root["dump"]].u /\ d # NULL /\ t = memory[d].next /\ t # NULL
          /\ root' = [root EXCEPT !["stk"] = memory[t].next] /\ reading' = reading
      BY <2>4, <3>1 DEF WhileAgain, InWhile, Test, Dmp, SetRoots
    <3>3. d \in Refs(mem_low, V)
      BY <1>2, <3>2 DEF PartUses
    <3>4. t \in Refs(mem_low, V)
      BY <1>2, <3>2, <3>3 DEF PartUses
    <3>5. memory[t].next \in Refs(mem_low, V)
      BY <1>2, <3>2, <3>4 DEF PartUses
    <3> QED
      BY <1>2, <1>3, <3>2, <3>5 DEF Holds, PartUses, Roots
  <2>5. CASE Abort
    <3>1. /\ root' = [x \in Roots |-> IF x \in {"stk", "prog"} THEN root[x] ELSE NULL]
          /\ reading' = <<>>
      BY <2>5 DEF Abort
    <3> QED
      BY <1>2, <1>3, <3>1 DEF Holds, PartUses, Roots
  <2> QED
    BY <2>1, <2>2, <2>3, <2>4, <2>5
<1>5. V \cup W \subseteq Given /\ Divides(memory', mem_low, V, W) /\ {bucket', current'} \subseteq Refs(mem_low, V)
  BY <1>1, <1>2, <1>3 DEF PartUses, Parts
<1> QED
  BY <1>1, <1>3, <1>4, <1>5, SameParts

LEMMA GcParts ==
  ASSUME HeapInv, PartInv, HeapInv', Gc_ PROVE PartInv'
<1>1. pc = "run" /\ pc' = "roots" /\ call' = NoCall /\ UNCHANGED <<memory, mem_low, root, reading>>
  BY DEF Gc_, Gc1, Running, program
<1>2. Starts
  BY <1>1 DEF Gc_, Starts
<1>3. PICK V, W : PartUses(V, W)
  BY <1>1, RunParts
<1>4. /\ Above(mem_low', V \cup W) /\ Divides(memory', mem_low', V, W)
      /\ Holds(root', mem_low', V, W, reading')
  BY <1>1, <1>3 DEF PartUses, Parts
<1>5. Bounded
  BY <1>1, RunFacts
<1> QED
  BY <1>1, <1>2, <1>4, <1>5, StartParts

(* A node of a list comes to lead to another value. *)
LEMMA RelinkParts ==
  ASSUME HeapInv, PartInv, HeapInv', App11 \/ WhileStore PROVE PartInv'
<1>1. pc = "run"
  BY DEF App11, WhileStore, InWhile, Running
<1>2. PICK V, W : PartUses(V, W)
  BY <1>1, RunParts
<1>3. PICK p, q : /\ p \in Refs(mem_low, V) /\ p # NULL /\ q \in Refs(mem_low, V)
                  /\ Writes([memory EXCEPT ![p].next = q])
  <2>1. CASE App11
    <3>1. PICK s, t : s = root["stk"] /\ t = Top.next
      OBVIOUS
    <3>2. s # NULL /\ t # NULL /\ t = memory[s].next /\ Writes([memory EXCEPT ![s].next = memory[t].next])
      BY <2>1, <3>1 DEF App11, Holding, Top
    <3>3. s \in Refs(mem_low, V)
      BY <1>2, <3>1 DEF PartUses
    <3>4. t \in Refs(mem_low, V)
      BY <1>2, <3>2, <3>3 DEF PartUses
    <3>5. memory[t].next \in Refs(mem_low, V)
      BY <1>2, <3>2, <3>4 DEF PartUses
    <3> QED
      BY <3>2, <3>3, <3>5
  <2>2. CASE WhileStore
    <3>1. PICK d, t : d = Dmp("dump") /\ t = Test
      OBVIOUS
    <3>2. /\ root["dump"] # NULL /\ d = memory[root["dump"]].u /\ d # NULL /\ t = memory[d].next /\ t # NULL
          /\ Writes([memory EXCEPT ![t].next = root["stk"]])
      BY <2>2, <3>1 DEF WhileStore, InWhile, Test, Dmp
    <3>3. d \in Refs(mem_low, V)
      BY <1>2, <3>2 DEF PartUses
    <3>4. t \in Refs(mem_low, V)
      BY <1>2, <3>2, <3>3 DEF PartUses
    <3>5. root["stk"] \in Refs(mem_low, V)
      BY <1>2 DEF PartUses
    <3> QED
      BY <3>2, <3>4, <3>5
  <2> QED
    BY <2>1, <2>2
<1>4. /\ memory \in [Addr -> Cell] /\ memory' = [memory EXCEPT ![p].next = q]
      /\ UNCHANGED <<memoryindex, mem_low, direction, pc, root, reading, bucket, current>>
  BY <1>1, <1>3, RunFacts DEF Writes, program, gc
<1>5. p \in Addr /\ p \notin W
  BY <1>2, <1>3 DEF PartUses
<1>6. /\ V \cup W \subseteq Given /\ Above(mem_low, V \cup W) /\ Divides(memory, mem_low, V, W)
      /\ Holds(root, mem_low, V, W, reading) /\ {bucket, current} \subseteq Refs(mem_low, V)
  BY <1>2 DEF PartUses, Parts
<1>7. Divides(memory', mem_low, V, W)
  <2>1. ASSUME NEW a \in V PROVE Sound(memory'[a], Refs(mem_low, V))
    <3>1. a \in Addr /\ Sound(memory[a], Refs(mem_low, V))
      BY <1>6 DEF Above, Divides
    <3>2. memory'[a].op = memory[a].op /\ memory'[a].u = memory[a].u /\ memory'[a].next \in {memory[a].next, q}
      BY <1>4, <1>5, <3>1 DEF Cell
    <3> QED
      BY <1>3, <3>1, <3>2 DEF Sound
  <2>2. ASSUME NEW a \in W PROVE memory'[a] = memory[a]
    BY <1>4, <1>5, <1>6 DEF Above
  <2> QED
    BY <1>6, <2>1, <2>2 DEF Divides
<1> QED
  BY <1>1, <1>4, <1>6, <1>7, SameParts

LEMMA ConcatParts ==
  ASSUME Safe, HeapInv, PartInv, HeapInv', ConcatString PROVE PartInv'
<1>1. PICK s, t : s = root["stk"] /\ t = Top.next
  OBVIOUS
<1>2. PICK h : h = [memory EXCEPT ![s].u = EMPTY, ![t].u = EMPTY]
  OBVIOUS
<1>3. /\ Running /\ s # NULL /\ t # NULL /\ t = memory[s].next /\ Still
      /\ memory[s].op = "INTEGER_" /\ memory[t].op = "INTEGER_"
      /\ \E i \in Numbers : NewNode(h, "INTEGER_", i, memory[t].next, "stk")
  BY <1>1, <1>2 DEF ConcatString, Holding, Top
<1>4. PICK i \in Numbers : NewNode(h, "INTEGER_", i, memory[t].next, "stk")
  BY <1>3
<1>5. pc = "run" /\ bucket = NULL /\ i \in Int
  BY <1>3, HeapAssumption DEF Running
<1>6. PICK V, W : PartUses(V, W)
  BY <1>5, RunParts
<1>7. s \in Refs(mem_low, V) /\ t \in Refs(mem_low, V)
  BY <1>1, <1>3, <1>6 DEF PartUses
<1>8. s \in Addr /\ t \in Addr /\ s \notin W /\ t \notin W /\ memory[t].next \in Refs(mem_low, V)
  BY <1>3, <1>6, <1>7 DEF PartUses
<1>9. /\ memory \in [Addr -> Cell] /\ \A x \in 0 .. mem_low - 1 : Sound(memory[x], Refs(mem_low, {}))
      /\ mem_low \in Addr
  BY <1>5, RunFacts DEF Calm, Shape, Closure
<1>10. /\ h \in [Addr -> Cell]
       /\ \A x \in Addr : h[x].op = memory[x].op /\ h[x].next = memory[x].next
       /\ \A x \in Addr : x \notin {s, t} => h[x] = memory[x]
       /\ \A x \in {s, t} : memory[x].op = "INTEGER_"
  BY <1>2, <1>3, <1>8, <1>9 DEF Cell, EMPTY
<1>11. ASSUME NEW x \in Addr, NEW P, Sound(memory[x], P) PROVE Sound(h[x], P)
  BY <1>10, <1>11 DEF Sound
<1>12. \A x \in 0 .. mem_low - 1 : Sound(h[x], Refs(mem_low, {}))
  BY <1>9, <1>11, Below
<1>13. /\ V \cup W \subseteq Given /\ Divides(memory, mem_low, V, W) /\ Above(mem_low, V \cup W)
       /\ Holds(root, mem_low, V, W, reading) /\ current \in Refs(mem_low, V)
  BY <1>6 DEF PartUses, Parts
<1>14. Divides(h, mem_low, V, W)
  <2>1. \A x \in V : Sound(h[x], Refs(mem_low, V))
    BY <1>11, <1>13 DEF Divides, Above
  <2>2. \A x \in W : h[x] = memory[x]
    BY <1>8, <1>10, <1>13 DEF Above
  <2> QED
    BY <1>13, <2>1, <2>2 DEF Divides
<1>15. PICK c : c = Request("INTEGER_", i, memory[t].next, "stk")
  OBVIOUS
<1>16. c.op = "INTEGER_" /\ c.u = i /\ c.next = memory[t].next /\ c.place = "stk"
  BY <1>15, RequestIs
<1>17. Aims(h, c) /\ Brings(c, mem_low, V, W)
  BY <1>5, <1>8, <1>16 DEF Aims, Brings, FramePlaces
<1>18. "stk" \notin ReaderPlaces /\ "stk" \notin {"factor", "end"} /\ "stk" # "none"
  BY DEF ReaderPlaces
<1> QED
  BY <1>3, <1>4, <1>5, <1>10, <1>12, <1>13, <1>14, <1>15, <1>17, <1>18, NewNodeParts

(* Nothing is given: there is nothing to part. *)
LEMMA NothingParted ==
  ASSUME NEW low \in Addr, NEW M, NEW R, NEW K, NEW L, NEW rd, Shape(M, R, K, L, low, {}, rd),
         Depth(rd) = 0, rd # <<"run">>
  PROVE  Divides(M, low, {}, {}) /\ Holds(R, low, {}, {}, rd)
<1>1. OnDump(K, {}, R["dump"])
  BY NoTerm
<1>2. \A x \in {"conts", "dump", "dump2", "dump3"} : R[x] = NULL
  BY <1>1 DEF OnDump, Shape, Chains, Maps
<1>3. R["stk"] \in Refs(low, {})
  BY DEF Shape, Reaches, Roots
<1> QED
  BY <1>2, <1>3 DEF Divides, Holds

LEMMA StartsParted ==
  ASSUME HeapInv, pc = "run", reading = <<>>, Given = {} PROVE PartInv
<1>1. PICK low, G, rd : low = mem_low /\ G = {} /\ rd = reading
  OBVIOUS
<1>2. Calm /\ mem_low \in Addr
  BY RunFacts
<1>3. PICK K, L : /\ Shape(memory, root, K, L, mem_low, {}, reading)
                  /\ {bucket, current} \subseteq Refs(mem_low, Seen(K, {}))
  BY <1>2 DEF Calm
<1>4. Depth(reading) = 0 /\ reading # <<"run">> /\ Seen(K, {}) = {}
  BY DEF Depth, Seen
<1>5. Parts({}, {})
  BY <1>2, <1>3, <1>4, NothingParted DEF Parts
<1> QED
  BY <1>5 DEF PartInv

LEMMA DefinitionsParts ==
  ASSUME HeapInv, PartInv, HeapInv', BeginDefinitions \/ EndDefinitions PROVE PartInv'
<1>1. CASE EndDefinitions /\ Exhausted
  BY <1>1 DEF Exhausted, PartInv
<1>2. CASE BeginDefinitions \/ (EndDefinitions /\ ~Exhausted)
  <2>1. /\ pc = "run" /\ reading = <<>> /\ reading' = <<>> /\ pc' = "run" /\ direction' = 1
        /\ memoryindex' = mem_low'
    <3>1. CASE BeginDefinitions
      BY <3>1 DEF BeginDefinitions, gc
    <3>2. CASE EndDefinitions /\ ~Exhausted
      <4>1. /\ pc = "run" /\ reading = <<>> /\ defining
            /\ mem_low' = memoryindex /\ UNCHANGED <<memoryindex, direction, reading, gc>>
        BY <3>2 DEF EndDefinitions
      <4>2. direction = 1
        BY <4>1, RunFacts DEF Sides
      <4> QED
        BY <4>1, <4>2 DEF gc
    <3> QED
      BY <1>2, <3>1, <3>2
  <2>2. Given' = {}
    <3>1. mem_low' \in Int
      BY DEF HeapInv, Bounded, Addr
    <3> QED
      BY <2>1, <3>1 DEF Given, Addr
  <2>3. PICK low, M, R, b, cur : low = mem_low' /\ M = memory' /\ R = root' /\ b = bucket' /\ cur = current'
    OBVIOUS
  <2>4. Calm' /\ low \in Addr
    BY <2>1, <2>3 DEF HeapInv, Bounded
  <2>5. PICK K, L : Shape(M, R, K, L, low, {}, <<>>) /\ {b, cur} \subseteq Refs(low, Seen(K, {}))
    BY <2>1, <2>2, <2>3, <2>4 DEF Calm
  <2>6. Depth(<<>>) = 0 /\ <<>> # <<"run">> /\ Seen(K, {}) = {}
    BY DEF Depth, Seen
  <2>7. Divides(M, low, {}, {}) /\ Holds(R, low, {}, {}, <<>>)
    BY <2>4, <2>5, <2>6, NothingParted
  <2>8. Parts({}, {})'
    BY <2>1, <2>3, <2>5, <2>6, <2>7 DEF Parts
  <2> QED
    BY <2>1, <2>8 DEF PartInv
<1> QED
  BY <1>1, <1>2

LEMMA StutterParts ==
  ASSUME HeapInv, PartInv, UNCHANGED vars PROVE PartInv'
<1>1. /\ UNCHANGED <<memory, memoryindex, mem_low, mem_mid, direction, root, body, reading, defining,
                     current, bucket, pc, call, slots, calls, reg>>
  BY DEF vars, mem, program, gc
<1>2. Given' = Given
  BY <1>1 DEF Given
<1>3. ASSUME NEW V, NEW W, Parts(V, W) PROVE Parts(V, W)'
  BY <1>1, <1>2, <1>3 DEF Parts
<1>4. ASSUME NEW M0, NEW R0, NEW C0, NEW F, NEW K, NEW L, NEW orig, Collecting(M0, R0, C0, F, K, L, orig)
      PROVE  Collecting(M0, R0, C0, F, K, L, orig)'
  BY <1>1, <1>2, <1>4 DEF Collecting, Progress, OtherHalf
<1> QED
  BY <1>1, <1>3, <1>4 DEF PartInv

(* The end of a term. *)
LEMMA ClosedParts ==
  ASSUME HeapInv, Reading, Phase # "end", NEW V, NEW W, PartUses(V, W)
  PROVE  /\ root["stk"] # NULL /\ Top.op = "LIST_"
         /\ Top.u \in Refs(mem_low, V) /\ Top.next \in Refs(mem_low, V)
         /\ Closed["dump"] \in {NULL} \cup W
         /\ DOMAIN Closed = Roots /\ \A x \in Roots \ {"dump"} : Closed[x] = root[x]
<1>1. PICK n, s : n = Len(reading) /\ s = root["stk"]
  OBVIOUS
<1>2. pc = "run" /\ n \in Nat \ {0} /\ Depth(reading) = n /\ Phase = reading[n]
  BY <1>1, ReadingFacts
<1>3. Above(mem_low, Given) /\ root \in [Roots -> Ptr]
  BY <1>2, RunFacts
<1>4. PICK K, L : Shape(memory, root, K, L, mem_low, Given, reading)
  BY ReadingFacts
<1>5. s \in Given /\ memory[s].op = "LIST_" /\ s # NULL
  <2>1. s \in Given /\ memory[s].op = "LIST_"
    BY <1>1, <1>2, <1>4 DEF Shape, Terms, HeaderAt
  <2> QED
    BY <1>3, <2>1 DEF Above, Addr, NULL
<1>6. memory[s].u \in Refs(mem_low, V) /\ memory[s].next \in Refs(mem_low, V)
  BY <1>1, <1>5 DEF PartUses
<1>7. Phase = "more" => root["dump"] # NULL
  <2> SUFFICES ASSUME Phase = "more" PROVE root["dump"] # NULL
    OBVIOUS
  <2>1. EndAt(K, L, Given, root["dump"], n)
    BY <1>2, <1>4, EndsTop DEF Shape, Terms
  <2> QED
    BY <1>3, <2>1 DEF EndAt, Above, Addr, NULL
<1>8. Closed["dump"] \in {NULL} \cup W
  BY <1>3, <1>7 DEF Closed, PartUses, Roots
<1>9. DOMAIN Closed = Roots /\ \A x \in Roots \ {"dump"} : Closed[x] = root[x]
  BY <1>3 DEF Closed
<1> QED
  BY <1>1, <1>5, <1>6, <1>8, <1>9 DEF Top

LEMMA CloseParts ==
  ASSUME HeapInv, PartInv, CloseProgram \/ CloseDefinition PROVE PartInv'
<1>1. /\ Reading /\ Phase # "end" /\ UNCHANGED <<mem, current, bucket, gc>>
      /\ pc = "run"
  BY DEF CloseProgram, CloseDefinition, Reading
<1>2. PICK V, W : PartUses(V, W)
  BY <1>1, RunParts
<1>3. /\ Top.u \in Refs(mem_low, V) /\ Top.next \in Refs(mem_low, V)
      /\ Closed["dump"] \in {NULL} \cup W
      /\ DOMAIN Closed = Roots /\ \A x \in Roots \ {"dump"} : Closed[x] = root[x]
  BY <1>1, <1>2, ClosedParts
<1>4. UNCHANGED <<memory, memoryindex, mem_low, direction, pc>> /\ <<>> # <<"run">>
  BY <1>1 DEF mem, gc
<1>5. Holds(root', mem_low, V, W, reading')
  <2>1. CASE CloseProgram
    BY <1>2, <1>3, <2>1 DEF CloseProgram, Holds, PartUses, Roots
  <2>2. CASE CloseDefinition
    BY <1>2, <1>3, <1>4, <2>2 DEF CloseDefinition, Holds, PartUses, Roots
  <2> QED
    BY <2>1, <2>2
<1>6. V \cup W \subseteq Given /\ Divides(memory', mem_low, V, W) /\ {bucket', current'} \subseteq Refs(mem_low, V)
  BY <1>1, <1>2, <1>4 DEF PartUses, Parts
<1> QED
  BY <1>1, <1>4, <1>5, <1>6, SameParts

LEMMA CloseListParts ==
  ASSUME HeapInv, PartInv, CloseList PROVE PartInv'
<1>1. PICK s, p, d, t, rd, n :
        /\ s = root["stk"] /\ p = Top.next /\ d = Closed["dump"] /\ t = memory[d].u /\ rd = Outer
        /\ n = Len(reading)
  OBVIOUS
<1>2. /\ Reading /\ Phase # "end" /\ n > 1 /\ pc = "run"
      /\ UNCHANGED <<memoryindex, mem_low, direction, bucket, current, pc>>
  BY <1>1 DEF CloseList, Reading, gc
<1>3. PICK V, W : PartUses(V, W)
  BY <1>2, RunParts
<1>4. /\ s # NULL /\ p \in Refs(mem_low, V) /\ d \in {NULL} \cup W
      /\ DOMAIN Closed = Roots /\ \A x \in Roots \ {"dump"} : Closed[x] = root[x]
  BY <1>1, <1>2, <1>3, ClosedParts
<1>5. /\ V \cup W \subseteq Given /\ Above(mem_low, V \cup W) /\ Divides(memory, mem_low, V, W)
      /\ {bucket, current} \subseteq Refs(mem_low, V) /\ s \in Refs(mem_low, V)
      /\ NULL \in Refs(mem_low, V) /\ memory \in [Addr -> Cell]
  BY <1>1, <1>2, <1>3, RunFacts DEF PartUses, Parts
<1>6. s \in Addr /\ s \notin W
  BY <1>3, <1>4, <1>5 DEF PartUses
<1>7. /\ rd \in Seq(Phases) /\ Len(rd) = n - 1 /\ Len(rd) \in Nat \ {0}
      /\ \A m \in 1 .. n - 1 : rd[m] = reading[m] /\ rd[m] # "end"
  BY <1>1, <1>2, ReadingFacts, OuterIs DEF Outer
<1>8. PICK k : k = Len(rd)
  OBVIOUS
<1>9. rd \in Seq(Phases) /\ k \in Nat \ {0} /\ k = n - 1
  BY <1>7, <1>8
<1>10. k \in 1 .. k /\ rd[k] \in Phases
  <2>1. rd \in Seq(Phases) /\ k \in Nat \ {0}
    BY <1>9
  <2>2. k \in 1 .. Len(rd) /\ k \in 1 .. k
    BY <1>8, <2>1
  <2> QED
    BY <2>1, <2>2
<1>11. rd[k] # "end"
  <2>1. k \in 1 .. n - 1
    BY <1>9, <1>10
  <2> QED
    BY <1>7, <2>1
<1>12. CASE rd[Len(rd)] = "first"
  <2>1. /\ memory' = [memory EXCEPT ![p].u = s, ![s].next = NULL]
        /\ reading' = [rd EXCEPT ![Len(rd)] = "end"]
        /\ root' = [Closed EXCEPT !["stk"] = p]
    BY <1>1, <1>12 DEF CloseList
  <2>2. p \notin W
    <3>1. p = NULL => p \notin W
      BY <1>5 DEF Above, Addr, NULL
    <3> QED
      BY <1>3, <1>4, <3>1 DEF PartUses
  <2>3. ASSUME NEW a \in V PROVE Sound(memory'[a], Refs(mem_low, V))
    <3>1. a \in Addr /\ Sound(memory[a], Refs(mem_low, V))
      BY <1>5 DEF Above, Divides
    <3>2. /\ memory'[a].op = memory[a].op /\ memory'[a].u \in {memory[a].u, s}
          /\ memory'[a].next \in {memory[a].next, NULL}
      BY <1>5, <2>1, <3>1 DEF Cell
    <3> QED
      BY <1>5, <3>1, <3>2 DEF Sound
  <2>4. ASSUME NEW a \in W PROVE memory'[a] = memory[a]
    BY <1>5, <1>6, <2>1, <2>2 DEF Above
  <2>5. Divides(memory', mem_low, V, W)
    BY <1>5, <2>3, <2>4 DEF Divides
  <2>6. reading' # <<"run">>
    <3>1. reading' = [rd EXCEPT ![k] = "end"] /\ k \in DOMAIN rd
      BY <1>8, <1>10, <2>1, <1>7
    <3>2. k \in DOMAIN reading' /\ reading'[k] = "end"
      BY <3>1
    <3>3. \A i \in DOMAIN <<"run">> : <<"run">>[i] # "end"
      OBVIOUS
    <3> QED
      BY <3>2, <3>3
  <2>7. Holds(root', mem_low, V, W, reading')
    BY <1>1, <1>3, <1>4, <2>1, <2>6 DEF Holds, PartUses, Roots
  <2> QED
    BY <1>2, <1>5, <2>5, <2>7, SameParts
<1>13. CASE rd[Len(rd)] # "first"
  <2>1. /\ memory' = [memory EXCEPT ![t].next = s, ![s].next = NULL, ![d].u = s]
        /\ reading' = rd /\ root' = [Closed EXCEPT !["stk"] = p]
    BY <1>1, <1>13 DEF CloseList
  <2>2. d # NULL
    <3>1. rd[Len(rd)] = "more"
      BY <1>13, <1>8, <1>10, <1>11 DEF Phases
    <3>2. PICK R : R = [Closed EXCEPT !["stk"] = Top.next]
      OBVIOUS
    <3>3. R["dump"] = d
      BY <1>1, <1>4, <3>2 DEF Roots
    <3>4. PICK K, L : Shape(memory, R, K, L, mem_low, Given, rd)
      BY <1>1, <1>2, <1>7, <3>2, Closing
    <3>5. Depth(rd) = Len(rd)
      BY <1>7, DepthIsLen
    <3>6. EndAt(K, L, Given, d, Len(rd))
      BY <1>7, <3>1, <3>3, <3>4, <3>5, EndsTop DEF Shape, Terms
    <3>7. Above(mem_low, Given)
      BY <1>2, RunFacts
    <3> QED
      BY <3>6, <3>7 DEF EndAt, Above, Addr, NULL
  <2>3. d \in W /\ t \in Refs(mem_low, V) /\ d \in Addr
    BY <1>1, <1>3, <1>4, <2>2 DEF PartUses
  <2>4. t \notin W
    <3>1. t = NULL => t \notin W
      BY <1>5 DEF Above, Addr, NULL
    <3> QED
      BY <1>3, <2>3, <3>1 DEF PartUses
  <2>5. ASSUME NEW a \in V PROVE Sound(memory'[a], Refs(mem_low, V))
    <3>1. a \in Addr /\ Sound(memory[a], Refs(mem_low, V)) /\ a # d
      BY <1>5, <2>3 DEF Above, Divides
    <3>2. /\ memory'[a].op = memory[a].op /\ memory'[a].u = memory[a].u
          /\ memory'[a].next \in {memory[a].next, NULL, s}
      BY <1>5, <2>1, <3>1 DEF Cell
    <3> QED
      BY <1>5, <3>1, <3>2 DEF Sound
  <2>6. ASSUME NEW a \in W
        PROVE  /\ memory'[a].op = memory[a].op /\ memory'[a].next = memory[a].next
               /\ memory'[a].u \in {memory[a].u, s}
    <3>1. a # t /\ a # s /\ a \in Addr
      BY <1>5, <1>6, <2>4 DEF Above
    <3> QED
      BY <1>5, <2>1, <3>1 DEF Cell
  <2>7. Divides(memory', mem_low, V, W)
    BY <1>5, <2>5, <2>6 DEF Divides
  <2>8. reading' # <<"run">>
    BY <1>7, <2>1, DepthIsLen
  <2>9. Holds(root', mem_low, V, W, reading')
    BY <1>1, <1>3, <1>4, <2>1, <2>8 DEF Holds, PartUses, Roots
  <2> QED
    BY <1>2, <1>5, <2>7, <2>9, SameParts
<1> QED
  BY <1>12, <1>13

-----------------------------------------------------------------------------
(* The writers in place.                                                   *)
LEMMA SeenAfter ==
  ASSUME NEW K, NEW W, NEW F, F \subseteq Addr, NEW K2,
         K2 = [a \in Addr |-> IF K[a] \in Hidden \/ (K[a] \in {"conts", "dump"} /\ a \in W) THEN K[a] ELSE "plain"],
         K \in [Addr -> Kind]
  PROVE  /\ K2 \in [Addr -> Kind] /\ Seen(K2, F) = Seen(K, F)
         /\ \A a \in F : /\ K2[a] \in Hidden <=> K[a] \in Hidden
                         /\ K[a] \in Hidden => K2[a] = K[a]
                         /\ K2[a] \in {"conts", "dump"} <=> K[a] \in {"conts", "dump"} /\ a \in W
                         /\ K2[a] \in {"conts", "dump"} => K2[a] = K[a]
                         /\ K2[a] \notin {"header", "end", "tail"}
<1>1. \A a \in F : K2[a] = IF K[a] \in Hidden \/ (K[a] \in {"conts", "dump"} /\ a \in W) THEN K[a] ELSE "plain"
  OBVIOUS
<1>2. K2 \in [Addr -> Kind]
  BY DEF Kind
<1>3. \A a \in F : /\ K2[a] \in Hidden <=> K[a] \in Hidden
                   /\ K[a] \in Hidden => K2[a] = K[a]
                   /\ K2[a] \in {"conts", "dump"} <=> K[a] \in {"conts", "dump"} /\ a \in W
                   /\ K2[a] \in {"conts", "dump"} => K2[a] = K[a]
                   /\ K2[a] \notin {"header", "end", "tail"}
  BY <1>1 DEF Hidden
<1>4. Seen(K2, F) = Seen(K, F)
  BY <1>3 DEF Seen
<1> QED
  BY <1>2, <1>3, <1>4

(* A node of a list comes to lead to another: what were cells of terms that *)
(* had been read are plain cells from now on.                              *)
LEMMA RelinkKeeps ==
  ASSUME HeapInv, Running, NEW V, NEW W, PartUses(V, W), NEW K, NEW L,
         Shape(memory, root, K, L, mem_low, Given, reading),
         Ordered(memory, root, K, L, mem_low, Given, reading),
         NEW p \in Refs(mem_low, V), p # NULL, NEW q \in Usable(K),
         p \in 0 .. mem_low - 1 => q \in Refs(mem_low, {}),
         Writes([memory EXCEPT ![p].next = q]), Acyclic(memory', Given)
  PROVE  HeapInv'
<1> DEFINE K2 == [a \in Addr |-> IF K[a] \in Hidden \/ (K[a] \in {"conts", "dump"} /\ a \in W)
                                 THEN K[a] ELSE "plain"]
<1>1. /\ pc = "run" /\ current = NULL /\ bucket = NULL /\ ~defining /\ reading = <<>>
      /\ Depth(reading) = 0 /\ Wellread(reading) /\ mem_low \in Addr /\ Above(mem_low, Given)
      /\ Refs(mem_low, Given) \subseteq Ptr /\ root \in [Roots -> Ptr]
  BY RunningFacts
<1>2. /\ TypeOK /\ Bounded /\ calls = <<>> /\ memory \in [Addr -> Cell] /\ Lists(memory, Addr)
      /\ body \in [Names -> Ptr] /\ defining \in BOOLEAN /\ Definitions
  BY <1>1, RunFacts
<1>3. PICK M, R, F, low, rd : M = memory' /\ R = root /\ F = Given /\ low = mem_low /\ rd = reading
  OBVIOUS
<1>4. UNCHANGED <<memoryindex, mem_low, mem_mid, direction, root, body, reading, defining, current, bucket, gc>>
  BY DEF Writes, program
<1>5. F \subseteq Addr /\ K \in [Addr -> Kind]
  BY <1>1, <1>3 DEF Above, Shape
<1>6. /\ K2 \in [Addr -> Kind] /\ Seen(K2, F) = Seen(K, F)
      /\ \A a \in F : /\ K2[a] \in Hidden <=> K[a] \in Hidden
                      /\ K[a] \in Hidden => K2[a] = K[a]
                      /\ K2[a] \in {"conts", "dump"} <=> K[a] \in {"conts", "dump"} /\ a \in W
                      /\ K2[a] \in {"conts", "dump"} => K2[a] = K[a]
                      /\ K2[a] \notin {"header", "end", "tail"}
  BY <1>5, SeenAfter
<1> HIDE DEF K2
<1>7. p \in Addr /\ p \notin W
  BY DEF PartUses
<1>8. Usable(K) = Refs(low, Seen(K, F)) /\ Refs(low, Seen(K, F)) \subseteq Refs(low, F)
  BY <1>3, SeenRefs DEF Usable
<1>9. q \in Ptr /\ q \in Refs(low, F)
  BY <1>1, <1>3, <1>8
<1>10. /\ M \in [Addr -> Cell] /\ \A x \in Addr : x # p => M[x] = memory[x]
       /\ M[p].op = memory[p].op /\ M[p].u = memory[p].u /\ M[p].next = q
  BY <1>2, <1>3, <1>7, <1>9 DEF Writes, Cell
<1>11. ASSUME NEW x \in Addr, NEW P, Sound(memory[x], P), q \in P PROVE Sound(M[x], P)
  BY <1>10, <1>11 DEF Sound
<1>12. Closure(M, low, F)
  <2>1. ASSUME NEW a \in 0 .. low - 1 PROVE Sound(M[a], Refs(low, {}))
    <3>1. Sound(memory[a], Refs(low, {})) /\ a \in Addr
      BY <1>1, <1>3, Below DEF Shape, Closure
    <3>2. CASE a = p
      BY <1>3, <1>11, <3>1, <3>2
    <3>3. CASE a # p
      BY <1>10, <3>1, <3>3
    <3> QED
      BY <3>2, <3>3
  <2>2. ASSUME NEW a \in F PROVE Sound(M[a], Refs(low, F))
    BY <1>3, <1>5, <1>9, <1>11 DEF Shape, Closure
  <2> QED
    BY <2>1, <2>2 DEF Closure
<1>13. /\ \A x \in {"conts", "dump", "dump2", "dump3"} : R[x] \in {NULL} \cup W
       /\ \A a \in W : a \in Addr /\ a # p /\ M[a] = memory[a] /\ M[a].next \in {NULL} \cup W
  <2>1. \A a \in W : a \in Addr /\ a # NULL
    <3>1. Above(mem_low, V \cup W)
      BY DEF PartUses
    <3> QED
      BY <3>1 DEF Above, Addr, NULL
  <2>2. \A a \in W : memory[a].next \in {NULL} \cup W
    BY <2>1 DEF PartUses
  <2> QED
    BY <1>3, <1>7, <1>10, <2>1, <2>2 DEF PartUses
<1>14. Reaches(R, low, F, rd)
  BY <1>3 DEF Shape
<1>15. ASSUME NEW x, OnDump(K, F, x), x \in {NULL} \cup W PROVE OnDump(K2, F, x)
  BY <1>6, <1>15 DEF OnDump
<1>16. Chains(M, R, K2, F)
  <2>1. ASSUME R["conts"] # NULL PROVE R["conts"] \in F /\ K2[R["conts"]] = "conts"
    <3>1. R["conts"] \in F /\ K[R["conts"]] = "conts" /\ R["conts"] \in W
      BY <1>3, <1>13, <2>1 DEF Shape, Chains
    <3> QED
      BY <1>6, <3>1
  <2>2. ASSUME NEW a \in F, K2[a] = "conts"
        PROVE  M[a].op = "LIST_" /\ (M[a].next # NULL => M[a].next \in F /\ K2[M[a].next] = "conts")
    <3>1. K[a] = "conts" /\ a \in W
      BY <1>6, <2>2
    <3>2. M[a] = memory[a] /\ M[a].next \in {NULL} \cup W
      BY <1>13, <3>1
    <3>3. M[a].op = "LIST_" /\ (M[a].next # NULL => M[a].next \in F /\ K[M[a].next] = "conts")
      BY <1>3, <3>1, <3>2 DEF Shape, Chains
    <3> QED
      BY <1>6, <3>2, <3>3
  <2>3. ASSUME NEW a \in F, K2[a] = "dump" PROVE M[a].op = "LIST_" /\ OnDump(K2, F, M[a].next)
    <3>1. K[a] = "dump" /\ a \in W
      BY <1>6, <2>3
    <3>2. M[a] = memory[a] /\ M[a].next \in {NULL} \cup W
      BY <1>13, <3>1
    <3>3. M[a].op = "LIST_" /\ OnDump(K, F, M[a].next)
      BY <1>3, <3>1, <3>2 DEF Shape, Chains
    <3> QED
      BY <1>15, <3>2, <3>3
  <2> QED
    BY <2>1, <2>2, <2>3 DEF Chains
<1>17. Terms(M, R, K2, L, F, rd)
  <2>1. OnDump(K, F, R["dump"])
    BY <1>1, <1>3, NoTerm
  <2>2. OnDump(K2, F, R["dump"])
    BY <1>13, <1>15, <2>1
  <2>3. OnEnds(K2, L, F, rd, 0, R["dump"])
    BY <2>2 DEF OnEnds, NoEnd
  <2> QED
    BY <1>1, <1>3, <1>6, <2>3 DEF Terms
<1>18. Maps(M, R, K2, F)
  <2>1. ASSUME NEW x \in {"dump2", "dump3"}, R[x] # NULL, R[x] \in F
        PROVE  M[R[x]] = memory[R[x]] /\ (K[R[x]] \in Hidden => K2[R[x]] = K[R[x]])
    BY <1>6, <1>13, <2>1
  <2>2. ASSUME NEW x, ItemAt(K, F, x) PROVE ItemAt(K2, F, x)
    BY <1>6, <2>2 DEF ItemAt, Hidden
  <2>3. Maps(memory, R, K, F)
    BY <1>3 DEF Shape
  <2>4. R["dump2"] # NULL => /\ R["dump2"] \in F /\ K2[R["dump2"]] = "dump2"
                             /\ M[R["dump2"]] = memory[R["dump2"]]
    BY <2>1, <2>3 DEF Maps, Hidden
  <2>5. R["dump3"] # NULL => /\ R["dump3"] \in F /\ K2[R["dump3"]] = "dump3"
                             /\ M[R["dump3"]] = memory[R["dump3"]]
    BY <2>1, <2>3 DEF Maps, Hidden
  <2>6. R["dump3"] # NULL => R["dump2"] # NULL
    BY <2>3 DEF Maps
  <2> QED
    BY <2>2, <2>3, <2>4, <2>5, <2>6 DEF Maps
<1>19. Shape(M, R, K2, L, low, F, rd)
  BY <1>3, <1>6, <1>12, <1>14, <1>16, <1>17, <1>18 DEF Shape
<1>20. Ordered(M, R, K2, L, low, F, rd)
  <2>1. Leveled(M, K2, L, F, rd)
    BY <1>6 DEF Leveled
  <2>2. ASSUME NEW a \in Seen(K2, F) PROVE Sound(M[a], Refs(low, Seen(K2, F)))
    <3>1. a \in Addr /\ Sound(memory[a], Refs(low, Seen(K, F)))
      BY <1>3, <1>5, <1>6 DEF Ordered, Hiding, Seen
    <3> QED
      BY <1>6, <1>8, <1>11, <3>1
  <2>3. Shows(R, Refs(low, Seen(K2, F)), rd)
    BY <1>3, <1>6 DEF Ordered, Hiding
  <2>4. Acyclic(M, F)
    BY <1>3
  <2> QED
    BY <2>1, <2>2, <2>3, <2>4 DEF Ordered, Hiding
<1>21. Bounded' /\ Given' = Given /\ Definitions'
  BY <1>2, <1>4 DEF Bounded, Given, Definitions
<1>22. /\ Shape(memory', root', K2, L, mem_low', Given', reading')
       /\ Ordered(memory', root', K2, L, mem_low', Given', reading')
  BY <1>3, <1>4, <1>19, <1>20, <1>21
<1>23. Lists(memory', Addr)
  BY <1>2, <1>3, <1>10 DEF Lists
<1>24. /\ memory' \in [Addr -> Cell] /\ root' \in [Roots -> Ptr] /\ body' \in [Names -> Ptr]
       /\ defining' \in BOOLEAN /\ ~defining' /\ Wellread(reading') /\ UNCHANGED gc
       /\ UNCHANGED <<current, bucket>>
  BY <1>1, <1>2, <1>3, <1>4, <1>10
<1> QED
  BY <1>1, <1>2, <1>21, <1>22, <1>23, <1>24, RunKeeps

LEMMA App11Keeps == ASSUME HeapInv, PartInv, App11 PROVE HeapInv'
<1>1. PICK s, t, q : s = root["stk"] /\ t = Top.next /\ q = memory[t].next
  OBVIOUS
<1>2. Running /\ s # NULL /\ t # NULL /\ t = memory[s].next /\ Writes([memory EXCEPT ![s].next = q])
  BY <1>1 DEF App11, Holding, Top
<1>3. pc = "run" /\ mem_low \in Addr /\ Above(mem_low, Given)
  BY <1>2, RunningFacts
<1>4. PICK K, L : /\ Shape(memory, root, K, L, mem_low, Given, reading)
                  /\ Ordered(memory, root, K, L, mem_low, Given, reading) /\ Uses(K)
  BY <1>2, RunningFacts
<1>5. PICK V, W : PartUses(V, W)
  BY <1>3, RunParts
<1>6. s \in Refs(mem_low, V) /\ s \in Addr
  BY <1>1, <1>2, <1>5 DEF PartUses
<1>7. s \in Usable(K) /\ t \in Usable(K) /\ q \in Usable(K)
  <2>1. s \in Usable(K)
    BY <1>1, <1>4 DEF Uses, Roots
  <2>2. t \in Usable(K)
    BY <1>2, <1>4, <2>1 DEF Uses
  <2> QED
    BY <1>1, <1>2, <1>4, <2>1, <2>2 DEF Uses
<1>8. ASSUME NEW p \in 0 .. mem_low - 1 PROVE memory[p].next \in Refs(mem_low, {})
  BY <1>4 DEF Shape, Closure, Sound
<1>9. t \in Refs(mem_low, {}) => q \in Refs(mem_low, {})
  <2> SUFFICES ASSUME t \in Refs(mem_low, {}) PROVE q \in Refs(mem_low, {})
    OBVIOUS
  <2>1. t \in 0 .. mem_low - 1
    BY <1>2, <1>3, RefCases
  <2> QED
    BY <1>1, <1>8, <2>1
<1>10. s \in 0 .. mem_low - 1 => q \in Refs(mem_low, {})
  BY <1>2, <1>8, <1>9
<1>11. PICK M : M = memory' /\ M = [memory EXCEPT ![s].next = q]
  BY <1>2 DEF Writes
<1>12. /\ \A a \in Addr : a # s => M[a] = memory[a]
       /\ M[s].op = memory[s].op /\ M[s].u = memory[s].u /\ M[s].next = q
  <2>1. memory \in [Addr -> Cell]
    BY <1>3, RunFacts
  <2> QED
    BY <1>6, <1>11, <2>1 DEF Cell
<1>13. Given \subseteq Addr /\ Acyclic(memory, Given)
  BY <1>3, <1>4 DEF Above, Ordered
<1>14. Acyclic(M, Given)
  <2>1. \A a \in Given : a # s => Links(M, a) = Links(memory, a)
    BY <1>12, <1>13 DEF Links
  <2>2. Links(M, s) \subseteq Links(memory, s) \cup {q}
    BY <1>12 DEF Links
  <2>3. CASE s \in Given /\ t \in Given
    <3>1. t \in Links(memory, s) /\ q \in Links(memory, t)
      BY <1>1, <1>2 DEF Links
    <3> QED
      BY <1>13, <2>1, <2>2, <2>3, <3>1, AcyclicSkip
  <2>4. CASE t \notin Given
    <3>1. t \in Refs(mem_low, {})
      <4>1. t \in Refs(mem_low, Given)
        BY <1>4, <1>7 DEF Uses
      <4> QED
        BY <2>4, <4>1 DEF Refs
    <3>2. q \notin Given
      <4>1. q = NULL \/ q \in 0 .. mem_low - 1
        BY <1>3, <1>9, <3>1, RefCases
      <4> QED
        BY <1>3, <4>1 DEF Above, Addr, NULL
    <3>3. \A a \in Given : Links(M, a) \cap Given \subseteq Links(memory, a) \cup {}
      BY <2>1, <2>2, <3>2
    <3>4. \A a \in Given \cap {} : Links(M, a) \cap Given \subseteq Links(memory, a) \cap {}
      OBVIOUS
    <3>5. Given \ {} = Given
      OBVIOUS
    <3> QED
      BY <1>13, <3>3, <3>4, <3>5, AcyclicInto
  <2>5. CASE s \notin Given
    BY <1>13, <2>1, <2>5 DEF Acyclic
  <2> QED
    BY <2>3, <2>4, <2>5
<1>15. Acyclic(memory', Given)
  BY <1>11, <1>14
<1> QED
  BY <1>2, <1>4, <1>5, <1>6, <1>7, <1>10, <1>15, RelinkKeeps

LEMMA WhileUses ==
  ASSUME HeapInv, InWhile, NEW K, Uses(K)
  PROVE  /\ Test \in Usable(K) /\ Test # NULL /\ memory[Test].op = "LIST_"
         /\ memory[Test].next \in Usable(K) /\ root["stk"] \in Usable(K)
<1>1. PICK d, t : d = Dmp("dump") /\ t = Test
  OBVIOUS
<1>2. /\ root["dump"] # NULL /\ d = memory[root["dump"]].u /\ d # NULL /\ memory[d].op = "LIST_"
      /\ t = memory[d].next /\ t # NULL /\ memory[t].op = "LIST_" /\ Running
  BY <1>1 DEF InWhile, Test, Dmp
<1>3. root["dump"] \in Usable(K) /\ root["stk"] \in Usable(K)
  BY DEF Uses, Roots
<1>4. memory[root["dump"]].op = "LIST_"
  <2>1. PICK K2, L : OnDump(K2, Given, root["dump"]) /\ Shape(memory, root, K2, L, mem_low, Given, reading)
    BY <1>2, RunningFacts
  <2> QED
    BY <1>2, <2>1 DEF OnDump, Shape, Chains
<1>5. d \in Usable(K)
  BY <1>2, <1>3, <1>4 DEF Uses
<1>6. t \in Usable(K)
  BY <1>2, <1>5 DEF Uses
<1>7. memory[t].next \in Usable(K)
  BY <1>2, <1>6 DEF Uses
<1> QED
  BY <1>1, <1>2, <1>3, <1>6, <1>7

LEMMA WhileAgainKeeps == ASSUME HeapInv, WhileAgain PROVE HeapInv' /\ Kept
<1>1. Running /\ InWhile
  BY DEF WhileAgain, InWhile
<1>2. /\ pc = "run" /\ current = NULL /\ bucket = NULL /\ ~defining
      /\ reading = <<>> /\ Depth(reading) = 0 /\ Wellread(reading)
      /\ root \in [Roots -> Ptr] /\ mem_low \in Addr /\ Refs(mem_low, Given) \subseteq Ptr
  BY <1>1, RunningFacts
<1>3. PICK K, L : /\ Shape(memory, root, K, L, mem_low, Given, reading)
                  /\ Formed(K, L, reading) /\ Uses(K)
  BY <1>1, RunningFacts
<1>4. PICK p : p = memory[Test].next
  OBVIOUS
<1>5. p \in Usable(K)
  BY <1>1, <1>3, <1>4, WhileUses
<1>6. root' = [root EXCEPT !["stk"] = p] /\ UNCHANGED <<mem, body, reading, defining, current, bucket, gc>>
  BY <1>4 DEF WhileAgain, SetRoots
<1>7. /\ root' \in [Roots -> Ptr] /\ Same(root, root', {"stk"}) /\ root'["stk"] \in Usable(K)
      /\ root'["stk"] \in Refs(mem_low, Given)
  BY <1>2, <1>3, <1>5, <1>6 DEF Same, Roots, Uses
<1>8. Shape(memory, root', K, L, mem_low, Given, reading)
  BY <1>2, <1>3, <1>7, PutStk
<1>9. Ordered(memory, root', K, L, mem_low, Given, reading)
  BY <1>2, <1>3, <1>7, SetHeap
<1> QED
  BY <1>2, <1>6, <1>7, <1>8, <1>9, SetRootsKeeps

(* The stack that while stores does not lead to the test it stores it in.   *)
LEMMA WhileStoreKeeps == ASSUME Safe, HeapInv, PartInv, WhileStore PROVE HeapInv' /\ Kept
<1>1. PICK t, q : t = Test /\ q = root["stk"]
  OBVIOUS
<1>2. InWhile /\ Running /\ Writes([memory EXCEPT ![t].next = q])
  BY <1>1 DEF WhileStore, InWhile
<1>3. PICK C : C = Reachable(memory, 0, {q})
  OBVIOUS
<1>4. ~(t < mem_low) /\ t \notin C
  BY <1>1, <1>3 DEF WhileStore, Safe
<1>5. pc = "run" /\ mem_low \in Addr /\ Above(mem_low, Given)
  BY <1>2, RunningFacts
<1>6. PICK K, L : /\ Shape(memory, root, K, L, mem_low, Given, reading)
                  /\ Ordered(memory, root, K, L, mem_low, Given, reading) /\ Uses(K)
  BY <1>2, RunningFacts
<1>7. t \in Usable(K) /\ q \in Usable(K) /\ t # NULL /\ memory[t].op = "LIST_"
  BY <1>1, <1>2, <1>6, WhileUses
<1>8. PICK V, W : PartUses(V, W)
  BY <1>5, RunParts
<1>9. t \in Refs(mem_low, V)
  <2>1. PICK d : d = Dmp("dump")
    OBVIOUS
  <2>2. root["dump"] # NULL /\ d = memory[root["dump"]].u /\ d # NULL /\ t = memory[d].next
    BY <1>1, <1>2, <2>1 DEF InWhile, Test, Dmp
  <2>3. d \in Refs(mem_low, V)
    BY <1>8, <2>2 DEF PartUses
  <2> QED
    BY <1>8, <2>2, <2>3 DEF PartUses
<1>10. t \in Addr /\ t \in Given
  <2>1. t \in Addr
    BY <1>7, <1>8, <1>9 DEF PartUses
  <2>2. t \in Refs(mem_low, Given)
    BY <1>6, <1>7 DEF Uses
  <2> QED
    BY <1>4, <1>5, <2>1, <2>2 DEF Refs, Addr
<1>11. t \notin 0 .. mem_low - 1
  BY <1>4, <1>5, Below
<1>12. PICK M : M = memory' /\ M = [memory EXCEPT ![t].next = q]
  BY <1>2 DEF Writes
<1>13. /\ \A a \in Addr : a # t => M[a] = memory[a]
       /\ M[t].op = memory[t].op /\ M[t].u = memory[t].u /\ M[t].next = q
  <2>1. memory \in [Addr -> Cell]
    BY <1>5, RunFacts
  <2> QED
    BY <1>10, <1>12, <2>1 DEF Cell
<1>14. Given \subseteq Addr /\ Acyclic(memory, Given)
  BY <1>5, <1>6 DEF Above, Ordered
<1>15. ClosedUnder(memory, 0, {q}, C)
  <2> DEFINE X == (0 .. mem_low - 1) \cup Given
  <2>1. X \subseteq Addr
    BY <1>5, <1>14, Below
  <2>2. \A p \in Refs(mem_low, Given) : p >= 0 => p \in X
    BY <1>5 DEF Refs, Addr
  <2>3. q \in Refs(mem_low, Given)
    BY <1>6, <1>7 DEF Uses
  <2>4. ASSUME NEW b \in X, NEW a \in Links(memory, b), a >= 0 PROVE a \in X
    <3>1. CASE b \in 0 .. mem_low - 1
      <4>1. Sound(memory[b], Refs(mem_low, {}))
        BY <1>6, <3>1 DEF Shape, Closure
      <4>2. a \in Refs(mem_low, {})
        BY <4>1, <2>4 DEF Sound, Links
      <4>3. a \in Refs(mem_low, Given)
        BY <1>5, <4>2, RefFacts
      <4> QED
        BY <2>2, <2>4, <4>3
    <3>2. CASE b \in Given
      <4>1. Sound(memory[b], Refs(mem_low, Given))
        BY <1>6, <3>2 DEF Shape, Closure
      <4>2. a \in Refs(mem_low, Given)
        BY <4>1, <2>4 DEF Sound, Links
      <4> QED
        BY <2>2, <2>4, <4>2
    <3> QED
      BY <3>1, <3>2
  <2> HIDE DEF X
  <2>5. ClosedUnder(memory, 0, {q}, X)
    BY <2>2, <2>3, <2>4 DEF ClosedUnder
  <2> QED
    BY <1>3, <2>1, <2>5, ReachCloses
<1>16. Acyclic(M, Given)
  <2>1. \A a \in Given : a # t => Links(M, a) = Links(memory, a)
    BY <1>13, <1>14 DEF Links
  <2>2. \A a \in Given : a >= 0
    BY <1>14 DEF Addr
  <2>3. \A a \in Given \cap C : Links(M, a) \cap Given \subseteq Links(memory, a) \cap C
    BY <1>4, <1>15, <2>1, <2>2 DEF ClosedUnder
  <2>4. Links(M, t) \cap Given \subseteq Links(memory, t) \cup C
    <3>1. Links(M, t) \subseteq Links(memory, t) \cup {q}
      BY <1>13 DEF Links
    <3>2. q \in Given => q \in C
      BY <1>15, <2>2 DEF ClosedUnder
    <3> QED
      BY <3>1, <3>2
  <2>5. \A a \in Given \ C : Links(M, a) \cap Given \subseteq Links(memory, a) \cup C
    BY <2>1, <2>4
  <2> QED
    BY <1>14, <2>3, <2>5, AcyclicInto
<1>17. Acyclic(memory', Given)
  BY <1>12, <1>16
<1>18. HeapInv'
  BY <1>2, <1>6, <1>7, <1>8, <1>9, <1>11, <1>17, RelinkKeeps
<1>19. Kept
  <2> SUFFICES ASSUME NEW a \in 0 .. mem_low - 1 PROVE memory'[a] = memory[a]
    BY DEF Kept
  <2>1. a \in Addr /\ a # t
    BY <1>5, <1>11, Below
  <2> QED
    BY <1>12, <1>13, <2>1
<1> QED
  BY <1>18, <1>19

(* Only what the numbers of M hold may differ in h. *)
Alter(M, h) ==
  \A a \in Addr : /\ h[a].op = M[a].op /\ h[a].next = M[a].next
                  /\ M[a].op = "LIST_" => h[a].u = M[a].u

LEMMA AlterLinks ==
  ASSUME NEW M, NEW h, Alter(M, h), NEW a \in Addr
  PROVE  Links(h, a) = Links(M, a) /\ \A P : Sound(M[a], P) => Sound(h[a], P)
BY DEF Alter, Links, Sound

LEMMA AlterKeeps ==
  ASSUME NEW M, NEW h, Alter(M, h), NEW R, NEW K, NEW L, NEW low \in Addr, NEW F, F \subseteq Addr,
         NEW rd, Depth(rd) = 0,
         Shape(M, R, K, L, low, F, rd), Ordered(M, R, K, L, low, F, rd)
  PROVE  Shape(h, R, K, L, low, F, rd) /\ Ordered(h, R, K, L, low, F, rd)
<1>1. Closure(h, low, F)
  <2>1. \A a \in 0 .. low - 1 : a \in Addr
    BY Below
  <2> QED
    BY <2>1, AlterLinks DEF Shape, Closure
<1>2. Chains(h, R, K, F)
  BY DEF Shape, Chains, Alter
<1>3. Terms(h, R, K, L, F, rd)
  <2>1. \A a \in F : a \in Addr /\ h[a].op = M[a].op
    BY DEF Alter
  <2>2. 1 .. Depth(rd) = {} /\ 2 .. Depth(rd) = {}
    OBVIOUS
  <2>3. Terms(M, R, K, L, F, rd)
    BY DEF Shape
  <2> QED
    BY <2>1, <2>2, <2>3 DEF Terms
<1>4. Maps(h, R, K, F)
  BY DEF Shape, Maps, Alter
<1>5. Shape(h, R, K, L, low, F, rd)
  BY <1>1, <1>2, <1>3, <1>4 DEF Shape
<1>6. Hiding(h, R, K, low, F, rd)
  <2>1. \A a \in Seen(K, F) : a \in Addr
    BY DEF Seen
  <2> QED
    BY <2>1, AlterLinks DEF Ordered, Hiding
<1>7. Leveled(h, K, L, F, rd)
  <2>1. \A a \in F : Links(h, a) = Links(M, a)
    BY AlterLinks
  <2>2. 1 .. Depth(rd) = {}
    OBVIOUS
  <2> QED
    BY <2>1, <2>2 DEF Ordered, Leveled
<1>8. Acyclic(h, F)
  <2>1. \A a \in F : Links(h, a) = Links(M, a)
    BY AlterLinks
  <2> QED
    BY <2>1 DEF Ordered, Acyclic
<1> QED
  BY <1>5, <1>6, <1>7, <1>8 DEF Ordered

(* concat of strings empties the strings on the stack before it asks for a  *)
(* node.                                                                   *)
LEMMA ConcatKeeps ==
  ASSUME Safe, HeapInv, ConcatString
  PROVE  HeapInv' /\ \A a \in 0 .. mem_low - 1 : Links(memory', a) = Links(memory, a)
<1>1. PICK s, t, r, h : /\ s = root["stk"] /\ t = Top.next /\ r = memory[t].next
                        /\ h = [memory EXCEPT ![s].u = EMPTY, ![t].u = EMPTY]
  OBVIOUS
<1>2. /\ Running /\ s # NULL /\ t # NULL /\ t = memory[s].next /\ Still
      /\ memory[s].op = "INTEGER_" /\ memory[t].op = "INTEGER_"
      /\ \E i \in Numbers : NewNode(h, "INTEGER_", i, r, "stk")
  BY <1>1 DEF ConcatString, Holding, Top
<1>3. PICK i \in Numbers : NewNode(h, "INTEGER_", i, r, "stk")
  BY <1>2
<1>4. /\ pc = "run" /\ current = NULL /\ bucket = NULL /\ ~defining /\ reading = <<>>
      /\ Depth(reading) = 0 /\ mem_low \in Addr /\ Above(mem_low, Given) /\ i \in Int
  BY <1>2, RunningFacts, HeapAssumption
<1>5. memory \in [Addr -> Cell] /\ Lists(memory, Addr)
  BY <1>4, RunFacts
<1>6. PICK K, L : /\ Shape(memory, root, K, L, mem_low, Given, reading)
                  /\ Ordered(memory, root, K, L, mem_low, Given, reading) /\ Uses(K)
  BY <1>2, RunningFacts
<1>7. s \in Usable(K) /\ t \in Usable(K) /\ r \in Usable(K) /\ r \in Refs(mem_low, Given)
  <2>1. s \in Usable(K)
    BY <1>1, <1>6 DEF Uses, Roots
  <2>2. t \in Usable(K)
    BY <1>2, <1>6, <2>1 DEF Uses
  <2> QED
    BY <1>1, <1>2, <1>6, <2>1, <2>2 DEF Uses
<1>8. s \in Addr /\ t \in Addr
  <2>1. s \in Refs(mem_low, Given) /\ t \in Refs(mem_low, Given)
    BY <1>6, <1>7 DEF Uses
  <2> QED
    BY <1>2, <1>4, <1>6, <2>1, Follow
<1>9. /\ h \in [Addr -> Cell] /\ \A a \in Addr : h[a].op = memory[a].op /\ h[a].next = memory[a].next
      /\ \A a \in Addr : a \notin {s, t} => h[a] = memory[a]
  BY <1>1, <1>5, <1>8 DEF Cell, EMPTY
<1>10. Alter(memory, h)
  BY <1>2, <1>9 DEF Alter
<1>11. Lists(h, Addr)
  <2>1. \A a \in Addr : h[a].op \in {"LIST_", "COPIED_"} => h[a] = memory[a]
    BY <1>2, <1>9
  <2> QED
    BY <1>5, <2>1 DEF Lists
<1>12. Given \subseteq Addr
  BY <1>4 DEF Above
<1>13. /\ Shape(h, root, K, L, mem_low, Given, reading)
       /\ Ordered(h, root, K, L, mem_low, Given, reading)
  BY <1>4, <1>6, <1>10, <1>12, AlterKeeps
<1>14. PICK c : c = Request("INTEGER_", i, r, "stk")
  OBVIOUS
<1>15. c.op = "INTEGER_" /\ c.u = i /\ c.next = r /\ c.place = "stk"
  BY <1>14, RequestIs
<1>16. Args(h, root, K, L, mem_low, Given, reading, c)
  BY <1>4, <1>7, <1>15 DEF Args, Places
<1>17. Clear(K, L, mem_low, Given, reading, c)
  BY <1>7, <1>15 DEF Clear, Usable
<1>18. current \in Refs(mem_low, Seen(K, Given))
  BY <1>4, <1>6 DEF Uses, Usable
<1>19. Fit(h, c, K, L)
  BY <1>4, <1>9, <1>11, <1>13, <1>15, <1>16, <1>17, <1>18 DEF Fit
<1>20. c = [op |-> "INTEGER_", u |-> i, next |-> r, place |-> "stk", at |-> Target("stk")]
  BY <1>14 DEF Request
<1>21. HeapInv' /\ KeptFrom(h)
  BY <1>2, <1>3, <1>4, <1>19, <1>20, NewNodeKeeps, ZenonT(30)
<1>22. ASSUME NEW a \in 0 .. mem_low - 1 PROVE Links(memory', a) = Links(memory, a)
  <2>1. a \in Addr
    BY <1>4, Below
  <2>2. Links(h, a) = Links(memory, a)
    BY <1>10, <2>1, AlterLinks
  <2>3. memory'[a] = h[a] \/ memory' = memory
    BY <1>3, <1>4, <1>21, NewNodeFull DEF KeptFrom
  <2> QED
    BY <2>2, <2>3 DEF Links
<1> QED
  BY <1>21, <1>22

-----------------------------------------------------------------------------
(* Every step of the program and of the collector.                         *)
LEMMA ReaderKeeps == ASSUME Safe, HeapInv, Reader PROVE HeapInv' /\ Kept
BY ReadtermKeeps, ReadFactorKeeps, ReadEndKeeps, CloseListKeeps, CloseProgramKeeps,
   CloseDefinitionKeeps, BeginDefinitionsKeeps, EndDefinitionsKeeps DEF Reader

(* The cells of the definitions lead where they led. *)
LinksKept == \A a \in 0 .. mem_low - 1 : Links(memory', a) = Links(memory, a)
MemoryInv == HeapInv /\ PartInv

LEMMA KeptLinks == Kept => LinksKept
BY DEF Kept, LinksKept, Links

LEMMA EvaluatorKeeps ==
  ASSUME Safe, MemoryInv, Evaluator PROVE MemoryInv' /\ (App11 \/ LinksKept)
<1>1. HeapInv /\ PartInv
  BY DEF MemoryInv
<1>2. CASE Enter
  BY <1>1, <1>2, EnterKeeps, EnterParts, KeptLinks DEF MemoryInv
<1>3. CASE Literal
  BY <1>1, <1>3, LiteralKeeps, LiteralParts, KeptLinks DEF MemoryInv
<1>4. CASE Leave \/ Pop \/ Unstack \/ PopDump \/ WhileAgain \/ Abort
  <2>1. HeapInv' /\ Kept
    BY <1>1, <1>4, LeaveKeeps, PopKeeps, PopDumpKeeps, WhileAgainKeeps, AbortKeeps
  <2> QED
    BY <1>1, <1>4, <2>1, RegisterParts, KeptLinks DEF MemoryInv
<1>5. CASE Stack \/ Rest \/ Cons_ \/ ConsList \/ Restore
  <2>1. HeapInv' /\ Kept
    BY <1>1, <1>5, StackKeeps, RestKeeps, ConsKeeps, ConsListKeeps, RestoreKeeps
  <2> QED
    BY <1>1, <1>5, <2>1, StackParts, KeptLinks DEF MemoryInv
<1>6. CASE Save \/ Primrec
  <2>1. HeapInv' /\ Kept
    BY <1>1, <1>6, SaveKeeps
  <2> QED
    BY <1>1, <1>6, <2>1, SaveParts, KeptLinks DEF MemoryInv
<1>7. CASE MapOpen \/ MapOpenLast \/ MapCollect \/ MapClose
  <2>1. HeapInv' /\ Kept
    BY <1>1, <1>7, MapOpenKeeps, MapOpenLastKeeps, MapCollectKeeps, MapCloseKeeps
  <2> QED
    BY <1>1, <1>7, <2>1, MapParts, KeptLinks DEF MemoryInv
<1>8. CASE PrimrecMember
  BY <1>1, <1>8, PrimrecMemberKeeps, MemberParts, KeptLinks DEF MemoryInv
<1>9. CASE Gc_
  BY <1>1, <1>9, GcKeeps, GcParts, KeptLinks DEF MemoryInv
<1>10. CASE App11
  BY <1>1, <1>10, App11Keeps, RelinkParts DEF MemoryInv
<1>11. CASE WhileStore
  BY <1>1, <1>11, WhileStoreKeeps, RelinkParts, KeptLinks DEF MemoryInv
<1>12. CASE ConcatString
  BY <1>1, <1>12, ConcatKeeps, ConcatParts DEF MemoryInv, LinksKept
<1> QED
  BY <1>2, <1>3, <1>4, <1>5, <1>6, <1>7, <1>8, <1>9, <1>10, <1>11, <1>12 DEF Evaluator

LEMMA ReaderParts == ASSUME Safe, MemoryInv, HeapInv', Reader PROVE PartInv'
<1>1. HeapInv /\ PartInv
  BY DEF MemoryInv
<1>2. CASE Readterm \/ ReadList \/ ReadNumber
  BY <1>1, <1>2, ReadParts
<1>3. CASE ReadEnd
  BY <1>1, <1>3, ReadEndParts
<1>4. CASE CloseList
  BY <1>1, <1>4, CloseListParts
<1>5. CASE CloseProgram \/ CloseDefinition
  BY <1>1, <1>5, CloseParts
<1>6. CASE BeginDefinitions \/ EndDefinitions
  BY <1>1, <1>6, DefinitionsParts
<1> QED
  BY <1>2, <1>3, <1>4, <1>5, <1>6 DEF Reader

LEMMA StutterKeeps == ASSUME HeapInv, UNCHANGED vars PROVE HeapInv' /\ Kept
<1>1. /\ UNCHANGED <<memory, memoryindex, mem_low, mem_mid, direction, root, body, reading, defining,
                     current, bucket, pc, call, slots, calls, reg>>
  BY DEF vars, mem, program, gc
<1>2. TypeOK' /\ Bounded'
  BY <1>1 DEF HeapInv, TypeOK, Filling, Bounded
<1>3. Given' = Given
  BY <1>1 DEF Given
<1>4. Sides => Sides'
  BY <1>1, <1>3 DEF Sides, Definitions
<1>5. Calm => Calm'
  BY <1>1, <1>3 DEF Calm
<1>6. Gathering => Gathering'
  <2>1. ASSUME NEW M0, NEW R0, NEW C0, NEW F, NEW K, NEW L, NEW orig, Collecting(M0, R0, C0, F, K, L, orig)
        PROVE  Collecting(M0, R0, C0, F, K, L, orig)'
    BY <1>1, <1>3, <2>1 DEF Collecting, Progress, OtherHalf
  <2> QED
    BY <1>1, <2>1 DEF Gathering
<1> QED
  BY <1>1, <1>2, <1>4, <1>5, <1>6 DEF HeapInv, Kept

LEMMA StepKeeps ==
  ASSUME Safe, MemoryInv, [Next]_vars PROVE MemoryInv' /\ (App11 \/ LinksKept)
<1>1. HeapInv /\ PartInv
  BY DEF MemoryInv
<1>2. CASE Collector
  BY <1>1, <1>2, CollectorKeeps, CollectorParts, KeptLinks DEF MemoryInv
<1>3. CASE Reader
  BY <1>1, <1>3, ReaderKeeps, ReaderParts, KeptLinks DEF MemoryInv
<1>4. CASE Evaluator
  BY <1>4, EvaluatorKeeps
<1>5. CASE UNCHANGED vars
  BY <1>1, <1>5, StutterKeeps, StutterParts, KeptLinks DEF MemoryInv
<1> QED
  BY <1>2, <1>3, <1>4, <1>5 DEF Next

LEMMA InitHeap == Init => MemoryInv
<1> SUFFICES ASSUME Init PROVE MemoryInv
  OBVIOUS
<1>1. /\ memory = [a \in Addr |-> Node("ILLEGAL_", 0, NULL)]
      /\ memoryindex = 0 /\ mem_low = 0 /\ mem_mid = MEM_HIGH \div 2 /\ direction = 1
      /\ root = [x \in Roots |-> NULL] /\ body = [n \in Names |-> NULL]
      /\ reading = <<>> /\ defining = FALSE /\ current = NULL /\ bucket = NULL
      /\ pc = "run" /\ calls = <<>> /\ slots = <<>> /\ reg = NULL
  BY DEF Init
<1>2. /\ MEM_HIGH \in Nat /\ MEM_HIGH \div 2 \in Nat /\ MEM_HIGH \div 2 <= MEM_HIGH
      /\ MEMORYMAX = MEM_HIGH + 1 /\ NULL \in Int /\ NULL \in Ptr
  BY Half, HeapAssumption DEF MEM_HIGH, NULL, Ptr
<1>3. 0 \in Addr /\ MEM_HIGH \div 2 \in Addr /\ 0 + MEM_HIGH \div 2 = MEM_HIGH \div 2
  BY <1>2 DEF Addr
<1>4. Bounded
  BY <1>1, <1>2, <1>3 DEF Bounded
<1>5. memory \in [Addr -> Cell] /\ \A a \in Addr : memory[a].op = "ILLEGAL_"
  BY <1>1, <1>2 DEF Node, Cell, Ops
<1>6. TypeOK
  <2>1. memoryindex \in -1 .. MEMORYMAX
    BY <1>1, <1>2
  <2>2. /\ reading \in Seq({"first", "end", "more", "run"}) /\ slots \in Seq(Roots \cup {"u", "r"})
        /\ calls \in Seq([n : Addr, temp : Addr, at : {"u", "next"}])
    BY <1>1
  <2> QED
    BY <1>1, <1>2, <1>3, <1>5, <2>1, <2>2 DEF TypeOK
<1>7. Given = {}
  <2>1. \A a \in Addr : ~(a >= 0 /\ a < 0)
    BY <1>2 DEF Addr
  <2> QED
    BY <1>1, <2>1 DEF Given
<1>8. NULL \in Refs(0, {})
  BY <1>3, RefFacts
<1>9. Sides
  BY <1>1, <1>8 DEF Sides, Wellread, Definitions
<1>10. Calm
  <2>1. Closure(memory, 0, {})
    BY DEF Closure
  <2>2. PICK K, L : Shape(memory, root, K, L, 0, {}, <<>>) /\ Ordered(memory, root, K, L, 0, {}, <<>>)
    <3>1. \A x \in Roots \ {"prog"} : root[x] \in Refs(0, {})
      BY <1>1, <1>8
    <3>2. \A x \in {"conts", "dump", "dump2", "dump3"} : root[x] = NULL
      BY <1>1 DEF Roots
    <3> QED
      BY <1>3, <2>1, <3>1, <3>2, NothingGiven
  <2>3. Pending(memory, root, mem_low, Given, reading, NULL, NULL)
    BY <1>1, <1>3, NothingPending
  <2>4. NULL \in Refs(0, Seen(K, {}))
    BY <1>3, RefFacts
  <2> QED
    BY <1>1, <1>7, <2>2, <2>3, <2>4 DEF Calm
<1>11. HeapInv
  BY <1>1, <1>4, <1>6, <1>9, <1>10 DEF HeapInv
<1>12. PartInv
  BY <1>1, <1>7, <1>11, StartsParted
<1> QED
  BY <1>11, <1>12 DEF MemoryInv

-----------------------------------------------------------------------------
(* However the program and the collections run into one another, and       *)
(* whatever cells of lists app11, concat and while change in place, the    *)
(* memory, the registers and the C stack of copy keep their types: every   *)
(* pointer that newnode, copy or readterm stores is NULL or inside the     *)
(* array, and memoryindex never leaves the half it allocates from.         *)
THEOREM TypeCorrect == ASSUME Safe PROVE Spec => []TypeOK
<1>1. MemoryInv => TypeOK
  BY DEF MemoryInv, HeapInv
<1>2. MemoryInv /\ [Next]_vars => MemoryInv'
  BY StepKeeps
<1> QED
  BY <1>1, <1>2, InitHeap, PTL DEF Spec

(* What copy is called with is a cell of the definitions, or one that       *)
(* newnode gave out before the collection.                                 *)
LEMMA CopyMeetsCells ==
  ASSUME HeapInv, pc = "call", reg # NULL PROVE memory[reg].op # "ILLEGAL_"
<1>1. Bounded /\ Gathering /\ mem_low \in Addr
  BY DEF HeapInv, Bounded
<1>2. PICK M0, R0, C0, F, K, L, orig : Collecting(M0, R0, C0, F, K, L, orig)
  BY <1>1 DEF Gathering
<1> DEFINE w == Wish(R0, C0, Head(slots))
<1>3. /\ slots # <<>> /\ Slots(mem_low, Given, orig, R0, C0, root, call, slots)
      /\ Start(M0, R0, C0, F, K, L, mem_low, reading) /\ Frames(M0, F, Given, orig, calls, w)
      /\ reg = Wanted(M0, calls, w) /\ OldCells(M0, memory, F, Given, orig)
      /\ \A a \in 0 .. mem_low - 1 : memory[a] = M0[a]
  BY <1>2 DEF Collecting, Progress
<1>4. w \in Refs(mem_low, F)
  BY <1>1, <1>3, WishRefs
<1> HIDE DEF w
<1>5. reg \in Refs(mem_low, F)
  BY <1>1, <1>3, <1>4, WantedRefs
<1>6. CASE reg \in 0 .. mem_low - 1
  BY <1>3, <1>6 DEF Start, Shape, Closure, Sound
<1>7. CASE reg \in F
  BY <1>3, <1>7 DEF Start, Shape, Closure, Sound, OldCells
<1> QED
  BY <1>1, <1>5, <1>6, <1>7, RefCases

LEMMA ProgramMeetsCells ==
  ASSUME HeapInv, pc = "run"
  PROVE  /\ \A x \in Roots \ {"prog"} : Allocated(root[x])
         /\ \A n \in Names : Allocated(body[n])
         /\ \A a \in Addr : Allocated(a) =>
              /\ memory[a].op \in {"INTEGER_", "LIST_"} /\ Allocated(memory[a].next)
              /\ memory[a].op = "LIST_" => Allocated(memory[a].u)
<1>1. /\ Bounded /\ Calm /\ mem_low \in Addr /\ Above(mem_low, Given) /\ Definitions
      /\ Refs(mem_low, Given) \subseteq Ptr
  BY RunFacts
<1>2. PICK K, L : Shape(memory, root, K, L, mem_low, Given, reading)
  BY <1>1 DEF Calm
<1>3. \A p \in Refs(mem_low, Given) : Allocated(p)
  BY <1>1, AllocatedRefs
<1>4. \A n \in Names : body[n] \in Refs(mem_low, Given)
  BY <1>1, RefFacts DEF Definitions
<1>5. ASSUME NEW a \in Addr, Allocated(a) PROVE Sound(memory[a], Refs(mem_low, Given))
  <2>1. a \in Refs(mem_low, Given) /\ a # NULL
    BY <1>1, <1>5, AllocatedRefs, PtrInt DEF NULL, Addr
  <2> QED
    BY <1>1, <1>2, <2>1, Follow
<1> QED
  BY <1>2, <1>3, <1>4, <1>5 DEF Shape, Reaches, Sound

(* For every size of memory and every run of the operations modelled that  *)
(* keeps clear of UnsafeSites: copy never meets a cell that was never      *)
(* written, and between collections no register, definition or cell in use *)
(* leads to one, or to a cell that has moved.  Of the stores of while these *)
(* are the runs in which none hits a definition: one that does would lead  *)
(* a definition into the half that the next collection leaves behind.      *)
THEOREM NoBadNodeMet == ASSUME Safe PROVE Spec => []NoBadNode
<1>1. MemoryInv => NoBadNode
  BY CopyMeetsCells, ProgramMeetsCells DEF MemoryInv, NoBadNode
<1>2. MemoryInv /\ [Next]_vars => MemoryInv'
  BY StepKeeps
<1> QED
  BY <1>1, <1>2, InitHeap, PTL DEF Spec

LEMMA DefinitionsAlone == ASSUME HeapInv, pc # "full" PROVE DefinitionsClosed
<1> SUFFICES ASSUME NEW a \in 0 .. mem_low - 1
             PROVE  memory[a].op \in {"INTEGER_", "LIST_"} /\ \A p \in Links(memory, a) : p < mem_low
  BY DEF DefinitionsClosed
<1>1. mem_low \in Int
  BY DEF HeapInv, Bounded, Addr
<1>2. Sound(memory[a], Refs(mem_low, {}))
  <2>1. CASE pc = "run"
    BY <2>1 DEF HeapInv, Calm, Shape, Closure
  <2>2. CASE pc # "run"
    <3>1. Gathering
      BY <2>2 DEF HeapInv, TypeOK
    <3>2. PICK M0, R0, C0, F, K, L, orig : Collecting(M0, R0, C0, F, K, L, orig)
      BY <3>1 DEF Gathering
    <3> QED
      BY <3>2 DEF Collecting, Start, Progress, Shape, Closure
  <2> QED
    BY <2>1, <2>2
<1>3. \A p \in Refs(mem_low, {}) : p < mem_low
  BY <1>1, HeapAssumption DEF Refs, HeapInv, Bounded, Addr
<1> QED
  BY <1>2, <1>3 DEF Sound, Links

(* For every size of memory: the cells that definition blocks have left     *)
(* below mem_low, which no collection follows, lead to one another only.    *)
(* Neither the collector, readterm and map, which never write there, nor    *)
(* app11, concat and while, which can after unstack, make one of them lead  *)
(* into a half, as long as while's store itself does not hit a definition.  *)
THEOREM DefinitionsStay == ASSUME Safe PROVE Spec => []DefinitionsClosed
<1>1. MemoryInv => DefinitionsClosed
  BY DefinitionsAlone DEF MemoryInv, DefinitionsClosed
<1>2. MemoryInv /\ [Next]_vars => MemoryInv'
  BY StepKeeps
<1> QED
  BY <1>1, <1>2, InitHeap, PTL DEF Spec

-----------------------------------------------------------------------------
(* The lists of the program and of the definitions have an end.            *)
Definitive == 0 .. mem_low - 1
Ending     == MemoryInv /\ Acyclic(memory, Definitive)

(* Of what is given, and of the cells below, which lead no higher.          *)
LEMMA AcyclicOnTop ==
  ASSUME NEW M, NEW D, NEW F, Acyclic(M, D), Acyclic(M, F),
         \A a \in D : Links(M, a) \cap F \subseteq D
  PROVE  Acyclic(M, D \cup F)
<1> SUFFICES ASSUME NEW S \in SUBSET (D \cup F), S # {} PROVE \E a \in S : Links(M, a) \cap S = {}
  BY DEF Acyclic
<1>1. CASE S \cap D = {}
  <2>1. S \in SUBSET F
    BY <1>1
  <2> QED
    BY <2>1 DEF Acyclic
<1>2. CASE S \cap D # {}
  <2>1. PICK a \in S \cap D : Links(M, a) \cap (S \cap D) = {}
    <3>1. S \cap D \in SUBSET D
      OBVIOUS
    <3> QED
      BY <1>2, <3>1 DEF Acyclic
  <2>2. Links(M, a) \cap S = {}
    BY <2>1
  <2> QED
    BY <2>1, <2>2
<1> QED
  BY <1>1, <1>2

LEMMA AcyclicSame ==
  ASSUME NEW M, NEW M2, NEW F, Acyclic(M, F), \A a \in F : M2[a] = M[a]
  PROVE  Acyclic(M2, F)
<1>1. \A a \in F : Links(M2, a) = Links(M, a)
  BY DEF Links
<1> QED
  BY <1>1 DEF Acyclic

LEMMA GivenEnds ==
  ASSUME HeapInv, pc = "run", Acyclic(memory, Definitive)
  PROVE  Acyclic(memory, Definitive \cup Given)
<1>1. PICK K, L : Shape(memory, root, K, L, mem_low, Given, reading)
                  /\ Ordered(memory, root, K, L, mem_low, Given, reading)
  BY DEF HeapInv, Calm
<1>2. Acyclic(memory, Given) /\ Closure(memory, mem_low, Given) /\ Above(mem_low, Given)
  BY <1>1, GivenAbove DEF Shape, Ordered, HeapInv
<1>3. \A a \in Definitive : Links(memory, a) \subseteq Refs(mem_low, {})
  BY <1>2 DEF Definitive, Closure, Sound, Links
<1>4. Refs(mem_low, {}) \cap Given = {}
  BY GivenAbove DEF HeapInv, Bounded, Refs, Above, Addr
<1> QED
  BY <1>2, <1>3, <1>4, AcyclicOnTop

LEMMA LowStays == ASSUME Next, ~EndDefinitions PROVE mem_low' = mem_low
<1>1. ASSUME NEW h, NEW o, NEW u, NEW r, NEW place, NewNode(h, o, u, r, place)
      PROVE  mem_low' = mem_low
  BY <1>1 DEF NewNode, Allocate, Gc1, mem
<1>2. CASE Collector
  BY <1>2 DEF Collector, SkipNull, CopyNext, SlotDone, CopySettled, CopyCell, CopyTail, CopyDone,
              GcDone, Exhausted, Allocate, mem
<1>3. CASE Readterm \/ ReadList \/ ReadNumber \/ ReadEnd
  BY <1>1, <1>3 DEF Readterm, ReadList, ReadNumber, ReadEnd
<1>4. CASE CloseList \/ CloseProgram \/ CloseDefinition \/ BeginDefinitions
  BY <1>4 DEF CloseList, CloseProgram, CloseDefinition, BeginDefinitions, mem
<1>5. CASE Leave \/ Pop \/ Unstack \/ PopDump \/ Abort \/ Gc_ \/ App11 \/ WhileAgain \/ WhileStore
  BY <1>5 DEF Leave, Pop, Unstack, PopDump, Abort, Gc_, Gc1, App11, WhileAgain, WhileStore, SetRoots, Writes, mem
<1>6. CASE Enter \/ Literal \/ Stack \/ Rest \/ Cons_ \/ ConsList \/ Save \/ Restore \/ ConcatString
  BY <1>1, <1>6 DEF Enter, Literal, Stack, Rest, Cons_, ConsList, Save, Restore, ConcatString
<1>7. CASE MapOpen \/ MapOpenLast \/ MapCollect \/ MapClose \/ Primrec \/ PrimrecMember
  BY <1>1, <1>7 DEF MapOpen, MapOpenLast, MapCollect, MapClose, Primrec, PrimrecMember
<1> QED
  BY <1>2, <1>3, <1>4, <1>5, <1>6, <1>7 DEF Next, Reader, Evaluator

(* app11 cuts a cell out of a definition, the others change no link there.  *)
LEMMA DefinitionsEnd ==
  ASSUME Safe, Ending, [Next]_vars PROVE Acyclic(memory', Definitive)
<1>1. Acyclic(memory, Definitive) /\ HeapInv
  BY DEF Ending, MemoryInv
<1>2. CASE LinksKept
  BY <1>1, <1>2 DEF LinksKept, Definitive, Acyclic
<1>3. CASE App11
  <2>1. PICK s, t, q : s = root["stk"] /\ t = Top.next /\ q = memory[t].next
    OBVIOUS
  <2>2. /\ Running /\ s # NULL /\ t # NULL /\ t = memory[s].next
        /\ memory' = [memory EXCEPT ![s].next = q]
    BY <1>3, <2>1 DEF App11, Holding, Top, Writes
  <2>3. pc = "run" /\ mem_low \in Addr
    BY <1>1, <2>2, RunningFacts
  <2>4. memory \in [Addr -> Cell]
    BY <1>1, <2>3, RunFacts
  <2>5. Definitive \subseteq Addr
    BY <2>3, Below DEF Definitive
  <2>6. PICK M : M = memory'
    OBVIOUS
  <2>7. \A a \in Addr : a # s => M[a] = memory[a]
    BY <2>2, <2>4, <2>6
  <2>8. \A a \in Definitive : a # s => Links(M, a) = Links(memory, a)
    BY <2>5, <2>7 DEF Links
  <2>9. CASE s \notin Definitive
    BY <1>1, <2>6, <2>8, <2>9 DEF Acyclic
  <2>10. CASE s \in Definitive
    <3>1. M[s].op = memory[s].op /\ M[s].u = memory[s].u /\ M[s].next = q
      BY <2>2, <2>4, <2>5, <2>6, <2>10 DEF Cell
    <3>2. Sound(memory[s], Refs(mem_low, {}))
      BY <1>1, <2>3, <2>10 DEF HeapInv, Calm, Shape, Closure, Definitive
    <3>3. t \in Definitive
      BY <2>2, <2>3, <3>2, RefCases DEF Sound, Definitive
    <3>4. t \in Links(memory, s) /\ q \in Links(memory, t)
      BY <2>1, <2>2 DEF Links
    <3>5. Links(M, s) \subseteq Links(memory, s) \cup {q}
      BY <3>1 DEF Links
    <3>6. Acyclic(M, Definitive)
      BY <1>1, <2>8, <2>10, <3>3, <3>4, <3>5, AcyclicSkip
    <3> QED
      BY <2>6, <3>6
  <2> QED
    BY <2>9, <2>10
<1> QED
  BY <1>2, <1>3, StepKeeps DEF Ending

LEMMA EndingKept == ASSUME Safe, Ending, [Next]_vars PROVE Ending'
<1>1. MemoryInv' /\ Acyclic(memory', Definitive)
  BY StepKeeps, DefinitionsEnd DEF Ending
<1>2. CASE UNCHANGED mem_low
  <2>1. Definitive' = Definitive
    BY <1>2 DEF Definitive
  <2> QED
    BY <1>1, <2>1 DEF Ending
<1>3. CASE mem_low' # mem_low
  <2>1. EndDefinitions
    BY <1>3, LowStays DEF vars, mem
  <2>2. pc = "run" /\ defining /\ memory' = memory /\ mem_low' = memoryindex
    BY <1>3, <2>1 DEF EndDefinitions, Exhausted, mem
  <2>3. direction = 1 /\ Bounded
    BY <2>2 DEF Ending, MemoryInv, HeapInv, Sides
  <2>4. Definitive' = Definitive \cup Given
    BY <2>2, <2>3, Half DEF Bounded, Definitive, Given, Addr
  <2>5. Acyclic(memory, Definitive \cup Given)
    BY <2>2, GivenEnds DEF Ending, MemoryInv
  <2> QED
    BY <1>1, <2>2, <2>4, <2>5 DEF Ending, MemoryInv
<1> QED
  BY <1>2, <1>3

(* However readterm, map, app11 and concat change cells in place, and      *)
(* however often the heap has moved: between collections no cell that      *)
(* newnode has given out leads back to itself, as long as while does not   *)
(* store its stack in a test that the stack leads to, or in a definition   *)
(* (interp.c:2065; `DEFINE l == [[l] [list not] 3]. l unstack while' closes *)
(* a circle).  Until then copy() and writeterm() come to an end.           *)
NoCircle == pc = "run" => Acyclic(memory, {a \in Addr : Allocated(a)})
THEOREM ListsEnd == ASSUME Safe PROVE Spec => []NoCircle
<1>1. Init => Ending
  <2>1. ASSUME Init PROVE Definitive = {}
    BY <2>1 DEF Init, Definitive
  <2> QED
    BY <2>1, InitHeap DEF Ending, MemoryInv, Acyclic
<1>2. Ending /\ [Next]_vars => Ending'
  BY EndingKept
<1>3. Ending => NoCircle
  <2> SUFFICES ASSUME Ending, pc = "run" PROVE Acyclic(memory, {a \in Addr : Allocated(a)})
    BY DEF NoCircle
  <2>1. {a \in Addr : Allocated(a)} = Definitive \cup Given
    BY Half DEF Ending, MemoryInv, HeapInv, Bounded, Definitive, Given, Allocated, Addr
  <2> QED
    BY <2>1, GivenEnds DEF Ending, MemoryInv
<1> QED
  BY <1>1, <1>2, <1>3, PTL DEF Spec

-----------------------------------------------------------------------------
(* Paths through two heaps, of which one is a copy of the other.           *)
(* What Walk computes for the first n steps, as an equation. *)
Along(M, p, path, n, f) ==
  f = [i \in 0 .. n |-> IF i = 0 THEN p ELSE After(M, f[i - 1], path[i])]

LEMMA WalkExists ==
  ASSUME NEW M, NEW p, NEW path, NEW n \in Nat
  PROVE  \E f : Along(M, p, path, n, f)
<1> DEFINE Bad == {k \in Nat : ~ \E f : Along(M, p, path, k, f)}
<1> SUFFICES ASSUME Bad # {} PROVE FALSE
  OBVIOUS
<1>1. PICK k \in Bad : \A y \in Bad : k <= y
  <2>1. Bad \subseteq Nat
    OBVIOUS
  <2> HIDE DEF Bad
  <2> QED
    BY <2>1, LeastNumber
<1>2. k # 0
  <2>1. Along(M, p, path, 0, [i \in 0 .. 0 |-> p])
    BY DEF Along
  <2> QED
    BY <2>1
<1>3. PICK f : Along(M, p, path, k - 1, f)
  BY <1>1, <1>2
<1> DEFINE g == [i \in 0 .. k |-> IF i = k THEN After(M, f[k - 1], path[k]) ELSE f[i]]
<1>4. \A i \in 0 .. k - 1 : f[i] = IF i = 0 THEN p ELSE After(M, f[i - 1], path[i])
  BY <1>3 DEF Along
<1>5. \A i \in 0 .. k : g[i] = IF i = 0 THEN p ELSE After(M, g[i - 1], path[i])
  <2> SUFFICES ASSUME NEW i \in 0 .. k PROVE g[i] = IF i = 0 THEN p ELSE After(M, g[i - 1], path[i])
    OBVIOUS
  <2>1. k \in Nat \ {0}
    BY <1>1, <1>2
  <2>2. CASE i = k
    <3>1. g[i] = After(M, f[k - 1], path[k]) /\ g[k - 1] = f[k - 1]
      BY <2>1, <2>2
    <3> QED
      BY <2>1, <2>2, <3>1
  <2>3. CASE i # k
    <3>1. g[i] = f[i] /\ (i # 0 => g[i - 1] = f[i - 1]) /\ i \in 0 .. k - 1
      BY <2>1, <2>3
    <3> QED
      BY <1>4, <3>1
  <2> QED
    BY <2>2, <2>3
<1>6. Along(M, p, path, k, g)
  <2>1. g = [i \in 0 .. k |-> g[i]]
    OBVIOUS
  <2> HIDE DEF g
  <2> QED
    BY <1>5, <2>1 DEF Along
<1> QED
  BY <1>1, <1>6

LEMMA WalkIs ==
  ASSUME NEW M, NEW p, NEW path, Len(path) \in Nat
  PROVE  \E at : /\ Walk(M, p, path) = at[Len(path)] /\ at[0] = p
                 /\ \A i \in 1 .. Len(path) : at[i] = After(M, at[i - 1], path[i])
<1> DEFINE at == CHOOSE f : Along(M, p, path, Len(path), f)
<1>1. Walk(M, p, path) = at[Len(path)]
  BY DEF Walk, Along
<1>2. Along(M, p, path, Len(path), at)
  <2>1. \E f : Along(M, p, path, Len(path), f)
    BY WalkExists
  <2> QED
    BY <2>1
<1> HIDE DEF at
<1>3. \A i \in 0 .. Len(path) : at[i] = IF i = 0 THEN p ELSE After(M, at[i - 1], path[i])
  BY <1>2 DEF Along
<1>4. 0 \in 0 .. Len(path) /\ \A i \in 1 .. Len(path) : i \in 0 .. Len(path) /\ i # 0
  OBVIOUS
<1> QED
  BY <1>1, <1>3, <1>4

(* p leads to q when the heap has moved. *)
Mirrors(low, F, G, orig, p, q) == p \in Refs(low, F) /\ Copies(low, G, orig, p, q)

LEMMA SameCell ==
  ASSUME NEW low \in Addr, NEW F, NEW G, NEW orig, NEW M0, NEW M, NEW R0, NEW R,
         Moved(M0, M, R0, R, low, F, G, orig), Closure(M0, low, F),
         NEW p, NEW q, Mirrors(low, F, G, orig, p, q)
  PROVE  /\ Content(M0, p) = Content(M, q)
         /\ \A step : Mirrors(low, F, G, orig, After(M0, p, step), After(M, q, step))
<1>1. /\ p \in Refs(low, F) /\ Copies(low, G, orig, p, q) /\ Above(low, F) /\ Above(low, G)
      /\ NULL \in Refs(low, F) /\ NULL \in Refs(low, {}) /\ Refs(low, {}) \subseteq Refs(low, F)
  BY RefFacts DEF Mirrors, Moved
<1>2. p = NULL <=> q = NULL
  BY <1>1, CopyFacts
<1>3. CASE p = NULL
  BY <1>1, <1>2, <1>3 DEF Content, After, Mirrors, Copies
<1>4. CASE p \in 0 .. low - 1
  <2>1. q = p /\ M[p] = M0[p] /\ p # NULL
    BY <1>1, <1>4, RefFacts DEF Copies, Moved, NULL, Refs
  <2>2. Sound(M0[p], Refs(low, {}))
    BY <1>4 DEF Closure
  <2>3. \A x \in Refs(low, {}) : Mirrors(low, F, G, orig, x, x)
    BY <1>1 DEF Mirrors, Copies
  <2> QED
    BY <1>1, <2>1, <2>2, <2>3 DEF Content, After, Sound
<1>5. CASE p \in F
  <2>1. p # NULL /\ q # NULL /\ q \in G /\ orig[q] = p
    <3>1. p \in Int /\ p >= low /\ low >= 0 /\ low \in Int
      BY <1>1, <1>5 DEF Above, Addr
    <3>2. p \notin Refs(low, {}) /\ p # NULL
      BY <3>1 DEF Refs, NULL
    <3> QED
      BY <1>1, <1>2, <3>2 DEF Copies
  <2>2. Copied(M0, M, low, G, orig, q) /\ Sound(M0[p], Refs(low, F))
    BY <1>5, <2>1 DEF Moved, Closure
  <2>3. /\ M[q].op = M0[p].op /\ Mirrors(low, F, G, orig, M0[p].next, M[q].next)
        /\ M0[p].op = "LIST_" => Mirrors(low, F, G, orig, M0[p].u, M[q].u)
        /\ M0[p].op # "LIST_" => M[q].u = M0[p].u
    BY <2>1, <2>2 DEF Copied, Sound, Mirrors
  <2>4. Mirrors(low, F, G, orig, NULL, NULL)
    BY <1>1 DEF Mirrors, Copies
  <2> QED
    BY <2>1, <2>3, <2>4 DEF Content, After
<1> QED
  BY <1>1, <1>3, <1>4, <1>5, RefCases

LEMMA SameWalk ==
  ASSUME NEW low \in Addr, NEW F, NEW G, NEW orig, NEW M0, NEW M, NEW R0, NEW R,
         Moved(M0, M, R0, R, low, F, G, orig), Closure(M0, low, F),
         NEW p, NEW q, Mirrors(low, F, G, orig, p, q), NEW path \in Paths
  PROVE  Content(M, Walk(M, q, path)) = Content(M0, Walk(M0, p, path))
<1> DEFINE n == Len(path)
<1>1. n \in Nat
  BY ReachAssumption DEF Paths
<1> HIDE DEF n
<1>2. PICK a : /\ Walk(M0, p, path) = a[n] /\ a[0] = p
               /\ \A i \in 1 .. n : a[i] = After(M0, a[i - 1], path[i])
  BY <1>1, WalkIs DEF n
<1>3. PICK b : /\ Walk(M, q, path) = b[n] /\ b[0] = q
               /\ \A i \in 1 .. n : b[i] = After(M, b[i - 1], path[i])
  BY <1>1, WalkIs DEF n
<1> DEFINE Bad == {i \in 0 .. n : ~ Mirrors(low, F, G, orig, a[i], b[i])}
<1>4. Bad = {}
  <2> SUFFICES ASSUME Bad # {} PROVE FALSE
    OBVIOUS
  <2>1. PICK k \in Bad : \A y \in Bad : k <= y
    <3>1. Bad \subseteq Nat
      OBVIOUS
    <3> HIDE DEF Bad
    <3> QED
      BY <3>1, LeastNumber
  <2>2. k # 0
    BY <1>2, <1>3
  <2>3. k \in 1 .. n /\ k - 1 \in 0 .. n /\ ~(k <= k - 1)
    BY <1>1, <2>1, <2>2
  <2>4. Mirrors(low, F, G, orig, a[k - 1], b[k - 1])
    BY <2>1, <2>3
  <2>5. Mirrors(low, F, G, orig, After(M0, a[k - 1], path[k]), After(M, b[k - 1], path[k]))
    BY <2>4, SameCell
  <2> QED
    BY <1>2, <1>3, <2>1, <2>3, <2>5
<1>5. Mirrors(low, F, G, orig, a[n], b[n])
  BY <1>1, <1>4
<1>6. Content(M0, a[n]) = Content(M, b[n])
  BY <1>5, SameCell
<1> QED
  BY <1>2, <1>3, <1>6

-----------------------------------------------------------------------------
(* The heap that Collecting speaks of is the one that was remembered.      *)
Alike(M0, R0, C0, F) ==
  /\ \A a \in (0 .. mem_low - 1) \cup F : before.memory[a] = M0[a]
  /\ \A x \in Roots : before.root[x] = R0[x]
  /\ IF C0 = NoCall THEN before.call = NoCall
     ELSE /\ before.call.op = C0.op /\ before.call.place = C0.place
          /\ before.call.u = C0.u /\ before.call.next = C0.next

(* The live cells when the collection began, and the cells that account for *)
(* them now: each stands for a live cell of its own, which is marked unless *)
(* copy is still busy with it.                                             *)
Asks(R0, C0) ==
  {R0[x] : x \in Roots} \cup {C0.next} \cup (IF C0.op = "LIST_" THEN {C0.u} ELSE {})
Live == LiveIn(before)
Accounts(orig) ==
  /\ \A b, c \in Given : orig[b] = orig[c] => b = c
  /\ \A b \in Given \ Temps(calls) : memory[orig[b]].op = "COPIED_"
  /\ \A b \in Given : orig[b] \in Live

LEMMA AskedLink ==
  ASSUME NEW M0, NEW f, f.at \in {"u", "next"}, f.at = "u" => M0[f.n].op = "LIST_"
  PROVE  Asked(M0, f) \in Links(M0, f.n)
BY DEF Asked, Links

LEMMA PointersAre ==
  ASSUME NEW M0, NEW R0, NEW C0, NEW F, Alike(M0, R0, C0, F)
  PROVE  /\ Pointers(before) = Asks(R0, C0)
         /\ \A a \in F : Links(before.memory, a) = Links(M0, a)
<1>1. /\ \A a \in F : before.memory[a] = M0[a]
      /\ \A x \in Roots : before.root[x] = R0[x]
  BY DEF Alike
<1>2. before.call.op = C0.op /\ before.call.u = C0.u /\ before.call.next = C0.next
  BY DEF Alike
<1>3. {before.root[x] : x \in Roots} = {R0[x] : x \in Roots}
  BY <1>1
<1> QED
  BY <1>1, <1>2, <1>3 DEF Pointers, Asks, Links

LEMMA AsksRefs ==
  ASSUME NEW M0, NEW R0, NEW C0, NEW F, NEW K, NEW L, NEW low \in Addr, NEW rd,
         Start(M0, R0, C0, F, K, L, low, rd)
  PROVE  Asks(R0, C0) \subseteq Refs(low, F)
<1>1. \A x \in Roots : R0[x] \in Refs(low, F)
  BY DEF Start, Shape, Reaches
<1>2. C0.next \in Refs(low, F) /\ (C0.op = "LIST_" => C0.u \in Refs(low, F))
  <2>1. CASE C0 = NoCall
    BY <2>1, RefFacts DEF NoCall
  <2>2. CASE C0 # NoCall
    BY <2>2 DEF Start, Args
  <2> QED
    BY <2>1, <2>2
<1> QED
  BY <1>1, <1>2 DEF Asks

LEMMA LiveFacts ==
  ASSUME NEW M0, NEW R0, NEW C0, NEW F, NEW K, NEW L, mem_low \in Addr,
         Start(M0, R0, C0, F, K, L, mem_low, reading), Alike(M0, R0, C0, F)
  PROVE  /\ Live \subseteq F
         /\ \A a \in Asks(R0, C0) : a >= mem_low => a \in Live
         /\ \A b \in Live : \A a \in Links(M0, b) : a >= mem_low => a \in Live
         /\ \A X \in SUBSET F : ClosedUnder(M0, mem_low, Asks(R0, C0), X) => Live \subseteq X
<1>1. PICK B, S : B = before.memory /\ S = Pointers(before)
  OBVIOUS
<1>2. S = Asks(R0, C0) /\ (\A a \in F : Links(B, a) = Links(M0, a)) /\ Live = Reachable(B, mem_low, S)
  BY <1>1, PointersAre DEF Live, LiveIn
<1>3. Above(mem_low, F) /\ F \subseteq Addr /\ Closure(M0, mem_low, F)
  BY DEF Start, Shape, Above
<1>4. \A p \in Refs(mem_low, F) : p >= mem_low => p \in F
  <2> SUFFICES ASSUME NEW p \in Refs(mem_low, F), p >= mem_low PROVE p \in F
    OBVIOUS
  <2>1. p # NULL /\ p \notin 0 .. mem_low - 1
    BY Below DEF NULL, Addr
  <2> QED
    BY <2>1, RefCases
<1>5. \A X \in SUBSET F : ClosedUnder(M0, mem_low, S, X) <=> ClosedUnder(B, mem_low, S, X)
  BY <1>2 DEF ClosedUnder
<1>6. ClosedUnder(M0, mem_low, S, F)
  <2>1. \A a \in S : a >= mem_low => a \in F
    BY <1>2, <1>4, AsksRefs
  <2>2. \A b \in F : Links(M0, b) \subseteq Refs(mem_low, F)
    BY <1>3 DEF Closure, Sound, Links
  <2> QED
    BY <1>4, <2>1, <2>2 DEF ClosedUnder
<1>7. ClosedUnder(B, mem_low, S, F)
  BY <1>5, <1>6
<1>8. Live \subseteq F
  BY <1>2, <1>7, ReachedIn
<1>9. ClosedUnder(B, mem_low, S, Live)
  BY <1>2, <1>3, <1>7, ReachCloses
<1>10. ClosedUnder(M0, mem_low, S, Live)
  BY <1>5, <1>8, <1>9
<1>11. \A X \in SUBSET F : ClosedUnder(M0, mem_low, S, X) => Live \subseteq X
  <2> SUFFICES ASSUME NEW X \in SUBSET F, ClosedUnder(M0, mem_low, S, X) PROVE Live \subseteq X
    OBVIOUS
  <2>1. ClosedUnder(B, mem_low, S, X)
    BY <1>5
  <2> QED
    BY <1>2, <2>1, ReachedIn
<1>12. /\ \A a \in S : a >= mem_low => a \in Live
       /\ \A b \in Live : \A a \in Links(M0, b) : a >= mem_low => a \in Live
  BY <1>10 DEF ClosedUnder
<1> QED
  BY <1>2, <1>8, <1>11, <1>12

(* The calls of copy in progress follow the links of the old heap, which    *)
(* lead to no cell twice.                                                  *)
LEMMA Unasked ==
  ASSUME NEW M0, NEW F, NEW G, NEW orig, NEW cs, NEW first,
         Frames(M0, F, G, orig, cs, first), Acyclic(M0, F), NEW i \in 1 .. Len(cs)
  PROVE  cs[i].n # Wanted(M0, cs, first)
<1> SUFFICES ASSUME cs[i].n = Wanted(M0, cs, first) PROVE FALSE
  OBVIOUS
<1> DEFINE m == Len(cs)
           S == {cs[j].n : j \in i .. m}
<1>1. cs \in Seq(CFrame) /\ m \in Nat
  BY DEF Frames
<1>2. \A j \in 1 .. m : /\ cs[j].n \in F /\ cs[j].at \in {"u", "next"}
                        /\ cs[j].at = "u" => M0[cs[j].n].op = "LIST_"
                        /\ j # 1 => cs[j].n = Asked(M0, cs[j - 1])
  <2> SUFFICES ASSUME NEW j \in 1 .. m
               PROVE  /\ cs[j].n \in F /\ cs[j].at \in {"u", "next"}
                      /\ cs[j].at = "u" => M0[cs[j].n].op = "LIST_"
                      /\ j # 1 => cs[j].n = Asked(M0, cs[j - 1])
    OBVIOUS
  <2>1. cs[j] \in CFrame
    BY <1>1
  <2> QED
    BY <2>1 DEF CFrame, Frames
<1>3. \A j \in 1 .. m : Asked(M0, cs[j]) \in Links(M0, cs[j].n)
  BY <1>2, AskedLink
<1>4. S \in SUBSET F /\ S # {} /\ cs[i].n \in S
  BY <1>1, <1>2
<1>5. PICK a \in S : Links(M0, a) \cap S = {}
  BY <1>4 DEF Acyclic
<1>6. PICK j \in i .. m : a = cs[j].n
  OBVIOUS
<1>7. j \in 1 .. m /\ Asked(M0, cs[j]) \notin S
  BY <1>1, <1>3, <1>5, <1>6
<1>8. CASE j = m
  <2>1. cs # <<>> /\ Wanted(M0, cs, first) = Asked(M0, cs[m])
    BY <1>1, <1>7 DEF Wanted
  <2> QED
    BY <1>4, <1>7, <1>8, <2>1
<1>9. CASE j # m
  <2>1. j + 1 \in 1 .. m /\ j + 1 \in i .. m /\ j + 1 # 1 /\ (j + 1) - 1 = j
    BY <1>1, <1>6, <1>7, <1>9
  <2>2. cs[j + 1].n = Asked(M0, cs[j])
    BY <1>2, <2>1
  <2>3. cs[j + 1].n \in S
    BY <2>1
  <2> QED
    BY <1>7, <2>2, <2>3
<1> QED
  BY <1>8, <1>9

(* What copy is asked for is live. *)
LEMMA WantedLive ==
  ASSUME NEW M0, NEW R0, NEW C0, NEW F, NEW K, NEW L, NEW orig, Bounded,
         Collecting(M0, R0, C0, F, K, L, orig), Alike(M0, R0, C0, F), Accounts(orig),
         pc = "call", reg >= mem_low
  PROVE  reg \in Live
<1>1. PICK first : first = Wish(R0, C0, Head(slots))
  OBVIOUS
<1>2. /\ slots # <<>> /\ Slots(mem_low, Given, orig, R0, C0, root, call, slots)
      /\ Start(M0, R0, C0, F, K, L, mem_low, reading) /\ Frames(M0, F, Given, orig, calls, first)
      /\ reg = Wanted(M0, calls, first) /\ mem_low \in Addr
  BY <1>1 DEF Collecting, Progress, Bounded
<1>3. /\ \A a \in Asks(R0, C0) : a >= mem_low => a \in Live
      /\ \A b \in Live : \A a \in Links(M0, b) : a >= mem_low => a \in Live
  BY <1>2, LiveFacts
<1>4. CASE calls = <<>>
  <2>1. Head(slots) \in In(slots) /\ Head(slots) \in Roots \cup {"u", "r"}
    BY <1>2, WishRefs
  <2>2. Head(slots) = "u" => C0.op = "LIST_"
    <3>1. Head(slots) = "u" => C0 # NoCall
      BY <1>2, <2>1 DEF Slots, CallSlots, Roots
    <3> QED
      BY <1>2, <2>1, <3>1 DEF Slots, CallSlots
  <2>3. first \in Asks(R0, C0)
    <3>1. CASE Head(slots) = "u"
      BY <1>1, <2>2, <3>1 DEF Wish, Asks
    <3>2. CASE Head(slots) = "r"
      BY <1>1, <3>2 DEF Wish, Asks
    <3>3. CASE Head(slots) \in Roots
      <4>1. Head(slots) # "u" /\ Head(slots) # "r"
        BY <3>3 DEF Roots
      <4>2. first = R0[Head(slots)]
        BY <1>1, <4>1 DEF Wish
      <4> QED
        BY <3>3, <4>2 DEF Asks
    <3> QED
      BY <2>1, <3>1, <3>2, <3>3
  <2>4. reg = first
    BY <1>2, <1>4 DEF Wanted
  <2> QED
    BY <1>3, <2>3, <2>4
<1>5. CASE calls # <<>>
  <2>1. PICK m, f : m = Len(calls) /\ f = calls[m]
    OBVIOUS
  <2>2. calls \in Seq(CFrame) /\ m \in 1 .. Len(calls)
    BY <1>2, <1>5, <2>1 DEF Frames
  <2>3. f \in CFrame
    BY <2>1, <2>2
  <2>4. f.temp \in Given /\ orig[f.temp] = f.n /\ (f.at = "u" => M0[f.n].op = "LIST_")
    BY <1>2, <2>1, <2>2 DEF Frames
  <2>5. f.n \in Live
    BY <2>4 DEF Accounts
  <2>6. reg \in Links(M0, f.n)
    <3>1. reg = Asked(M0, f)
      BY <1>2, <1>5, <2>1 DEF Wanted
    <3> QED
      BY <2>3, <2>4, <3>1, AskedLink DEF CFrame
  <2> QED
    BY <1>3, <2>5, <2>6
<1> QED
  BY <1>4, <1>5

LEMMA AccountsSame ==
  ASSUME NEW orig, Accounts(orig),
         UNCHANGED <<memory, memoryindex, mem_low, direction, calls, before>>
  PROVE  Accounts(orig)'
<1>1. Given' = Given
  BY DEF Given
<1>2. Live' = Live
  BY DEF Live, LiveIn
<1> QED
  BY <1>1, <1>2 DEF Accounts

(* The cell that copy turns to is live and not accounted for yet. *)
LEMMA CopyCellAccounts ==
  ASSUME NEW M0, NEW R0, NEW C0, NEW F, NEW K, NEW L, NEW orig, TypeOK, Bounded,
         Collecting(M0, R0, C0, F, K, L, orig), Alike(M0, R0, C0, F), Accounts(orig),
         CopyCell, ~NoRoom, before' = before,
         NEW orig2, orig2 = [orig EXCEPT ![memoryindex] = reg]
  PROVE  Accounts(orig2)'
<1>1. PICK n, s, first : n = reg /\ s = memoryindex /\ first = Wish(R0, C0, Head(slots))
  OBVIOUS
<1>2. /\ pc = "call" /\ reg >= mem_low /\ memory[n].op # "COPIED_"
      /\ \E x : calls' = Append(calls, [n |-> n, temp |-> s, at |-> x]) /\ x \in {"u", "next"}
      /\ memoryindex' = memoryindex + direction /\ UNCHANGED <<mem_low, mem_mid, direction>>
      /\ \A x \in Addr : x # s => memory'[x] = memory[x]
  BY <1>1 DEF CopyCell, Settled, TypeOK
<1>3. /\ Start(M0, R0, C0, F, K, L, mem_low, reading) /\ Frames(M0, F, Given, orig, calls, first)
      /\ n = Wanted(M0, calls, first) /\ OtherHalf(F) /\ orig \in [Addr -> Addr]
      /\ \A b \in Given : orig[b] \in F
  BY <1>1, <1>2 DEF Collecting, Progress, NewCells
<1>4. /\ Given' = With(Given, s) /\ s \in Addr /\ s \notin Given /\ s \notin F
      /\ F \subseteq Addr /\ Acyclic(M0, F) /\ Given \subseteq Addr
  <2>1. Above(mem_low, F) /\ Acyclic(M0, F)
    BY <1>3 DEF Start, Ordered
  <2> QED
    BY <1>1, <1>2, <1>3, <2>1, Allot, ApartHalves DEF Above, Given
<1>5. n \in Live
  BY <1>1, <1>2, WantedLive
<1>6. Live' = Live
  BY <1>2 DEF Live, LiveIn
<1>7. Temps(calls) \subseteq Temps(calls') /\ s \in Temps(calls')
  <2>1. PICK x \in {"u", "next"} : calls' = Append(calls, [n |-> n, temp |-> s, at |-> x])
    BY <1>2
  <2>2. PICK f : f = [n |-> n, temp |-> s, at |-> x]
    OBVIOUS
  <2>3. n \in Addr
    <3>1. n \in F
      BY <1>3, <1>5, LiveFacts DEF Bounded
    <3> QED
      BY <1>4, <3>1
  <2>4. f \in CFrame /\ f.temp = s /\ calls \in Seq(CFrame) /\ calls' = Append(calls, f)
    BY <1>3, <1>4, <2>1, <2>2, <2>3 DEF CFrame, Frames
  <2> QED
    BY <2>4, Pushed
<1>8. \A b \in Given : orig[b] # n
  <2> SUFFICES ASSUME NEW b \in Given, orig[b] = n PROVE FALSE
    OBVIOUS
  <2>1. b \in Temps(calls)
    BY <1>2 DEF Accounts
  <2>2. PICK i \in 1 .. Len(calls) : b = calls[i].temp
    BY <1>3, <2>1 DEF Temps, Frames
  <2>3. calls[i].n = n
    BY <1>3, <2>2 DEF Frames
  <2> QED
    BY <1>3, <1>4, <2>2, <2>3, Unasked
<1>9. orig2[s] = n /\ \A b \in Given : orig2[b] = orig[b]
  BY <1>1, <1>3, <1>4
<1>10. \A b \in Given' : b = s \/ b \in Given
  BY <1>4 DEF With
<1>11. ASSUME NEW b \in Given', b \notin Temps(calls') PROVE memory'[orig2[b]].op = "COPIED_"
  <2>1. b \in Given /\ b \notin Temps(calls)
    BY <1>7, <1>10, <1>11
  <2>2. orig2[b] = orig[b] /\ memory[orig[b]].op = "COPIED_" /\ orig[b] \in F
    BY <1>3, <1>9, <2>1 DEF Accounts
  <2>3. memory'[orig[b]] = memory[orig[b]]
    BY <1>2, <1>4, <2>2
  <2> QED
    BY <2>2, <2>3
<1>12. ASSUME NEW b \in Given', NEW c \in Given', orig2[b] = orig2[c] PROVE b = c
  BY <1>8, <1>9, <1>10, <1>12 DEF Accounts
<1>13. ASSUME NEW b \in Given' PROVE orig2[b] \in Live'
  BY <1>5, <1>6, <1>9, <1>10 DEF Accounts
<1> QED
  BY <1>11, <1>12, <1>13 DEF Accounts

LEMMA CopyTailAccounts ==
  ASSUME NEW M0, NEW R0, NEW C0, NEW F, NEW K, NEW L, NEW orig, TypeOK, Bounded,
         Collecting(M0, R0, C0, F, K, L, orig), Accounts(orig), CopyTail, before' = before
  PROVE  Accounts(orig)'
<1>1. PICK f, m, first : f = Frame /\ m = Len(calls) /\ first = Wish(R0, C0, Head(slots))
  OBVIOUS
<1>2. /\ memory' = [memory EXCEPT ![f.temp].u = reg] /\ calls # <<>> /\ f = calls[m]
      /\ calls' = ToNext(calls) /\ pc = "return"
      /\ UNCHANGED <<memoryindex, mem_low, mem_mid, direction>>
  BY <1>1 DEF CopyTail, Frame, ToNext
<1>3. Frames(M0, F, Given, orig, calls, first)
  BY <1>1, <1>2 DEF Collecting, Progress
<1>4. calls \in Seq(CFrame) /\ m \in 1 .. Len(calls)
  BY <1>1, <1>2, <1>3 DEF Frames
<1>5. f.temp \in Given /\ f.temp \in Addr
  BY <1>1, <1>2, <1>3, <1>4 DEF Frames, Given
<1>6. Temps(calls') = Temps(calls)
  BY <1>2, <1>4, Turned
<1>7. \A x \in Addr : memory'[x].op = memory[x].op
  <2>1. PICK t : t = f.temp
    OBVIOUS
  <2>2. memory' = [memory EXCEPT ![t].u = reg] /\ memory \in [Addr -> Cell] /\ t \in Addr
    BY <1>2, <1>5, <2>1 DEF TypeOK
  <2> QED
    BY <2>2 DEF Cell
<1>8. Given' = Given /\ Live' = Live
  BY <1>2 DEF Given, Live, LiveIn
<1>9. \A b \in Given : orig[b] \in Addr
  BY DEF Collecting, Progress, Given
<1> QED
  BY <1>6, <1>7, <1>8, <1>9 DEF Accounts

LEMMA CopyDoneAccounts ==
  ASSUME NEW M0, NEW R0, NEW C0, NEW F, NEW K, NEW L, NEW orig, TypeOK, Bounded,
         Collecting(M0, R0, C0, F, K, L, orig), Accounts(orig), CopyDone, before' = before
  PROVE  Accounts(orig)'
<1>1. PICK f, m, first : f = Frame /\ m = Len(calls) /\ first = Wish(R0, C0, Head(slots))
  OBVIOUS
<1>2. /\ memory' = [memory EXCEPT ![f.temp].next = reg, ![f.n] = Node("COPIED_", f.temp, @.next)]
      /\ calls # <<>> /\ f = calls[m] /\ calls' = Shorter(calls) /\ pc = "return"
      /\ UNCHANGED <<memoryindex, mem_low, mem_mid, direction>>
  BY <1>1 DEF CopyDone, Frame, Shorter
<1>3. Frames(M0, F, Given, orig, calls, first)
  BY <1>1, <1>2 DEF Collecting, Progress
<1>4. calls \in Seq(CFrame) /\ m \in 1 .. Len(calls)
  BY <1>1, <1>2, <1>3 DEF Frames
<1>5. f.temp \in Given /\ f.temp \in Addr /\ f.n \in Addr /\ orig[f.temp] = f.n
  <2>1. calls[m] \in CFrame
    BY <1>4
  <2> QED
    BY <1>1, <1>2, <1>3, <1>4, <2>1 DEF Frames, CFrame
<1>6. Temps(calls) \subseteq Temps(calls') \cup {f.temp}
  BY <1>1, <1>2, <1>4, Popped
<1>7. memory'[f.n].op = "COPIED_" /\ \A x \in Addr : x # f.n => memory'[x].op = memory[x].op
  <2>1. PICK t, n : t = f.temp /\ n = f.n
    OBVIOUS
  <2>2. /\ memory' = [memory EXCEPT ![t].next = reg, ![n] = Node("COPIED_", t, @.next)]
        /\ memory \in [Addr -> Cell] /\ t \in Addr /\ n \in Addr
    BY <1>2, <1>5, <2>1 DEF TypeOK
  <2>3. memory'[n].op = "COPIED_" /\ \A x \in Addr : x # n => memory'[x].op = memory[x].op
    BY <2>2 DEF Cell, Node
  <2> QED
    BY <2>1, <2>3
<1>8. Given' = Given /\ Live' = Live
  BY <1>2 DEF Given, Live, LiveIn
<1>9. \A b \in Given : orig[b] \in Addr
  BY DEF Collecting, Progress, Given
<1>10. ASSUME NEW b \in Given, b \notin Temps(calls') PROVE memory'[orig[b]].op = "COPIED_"
  <2>1. CASE orig[b] = f.n
    BY <1>7, <2>1
  <2>2. CASE orig[b] # f.n
    <3>1. b \notin Temps(calls)
      BY <1>5, <1>6, <1>10, <2>2
    <3>2. memory[orig[b]].op = "COPIED_"
      BY <3>1 DEF Accounts
    <3> QED
      BY <1>7, <1>9, <2>2, <3>2
  <2> QED
    BY <2>1, <2>2
<1> QED
  BY <1>8, <1>10 DEF Accounts

LEMMA CopyingAccounts ==
  ASSUME TypeOK, Bounded, Copying, before' = before,
         NEW M0, NEW R0, NEW C0, NEW F, NEW K, NEW L, NEW orig,
         Collecting(M0, R0, C0, F, K, L, orig), Alike(M0, R0, C0, F), Accounts(orig)
  PROVE  \E orig2 : Collecting(M0, R0, C0, F, K, L, orig2)' /\ Accounts(orig2)'
<1>1. CASE SkipNull \/ CopyNext \/ SlotDone \/ CopySettled
  <2>1. Collecting(M0, R0, C0, F, K, L, orig)'
    BY <1>1, SkipNullKeeps, CopyNextKeeps, SlotDoneKeeps, CopySettledKeeps
  <2>2. UNCHANGED <<memory, memoryindex, mem_low, direction, calls, before>>
    BY <1>1 DEF SkipNull, CopyNext, SlotDone, CopySettled, mem
  <2>3. Accounts(orig)'
    BY <2>2, AccountsSame
  <2> QED
    BY <2>1, <2>3
<1>2. CASE CopyCell /\ ~NoRoom
  <2>1. PICK orig2 : orig2 = [orig EXCEPT ![memoryindex] = reg]
    OBVIOUS
  <2>2. Collecting(M0, R0, C0, F, K, L, orig2)'
    BY <1>2, <2>1, CopyCellKeeps
  <2>3. Accounts(orig2)'
    BY <1>2, <2>1, CopyCellAccounts
  <2> QED
    BY <2>2, <2>3
<1>3. CASE CopyTail
  <2>1. Collecting(M0, R0, C0, F, K, L, orig)' /\ Accounts(orig)'
    BY <1>3, CopyTailKeeps, CopyTailAccounts
  <2> QED
    BY <2>1
<1>4. CASE CopyDone
  <2>1. Collecting(M0, R0, C0, F, K, L, orig)' /\ Accounts(orig)'
    BY <1>4, CopyDoneKeeps, CopyDoneAccounts
  <2> QED
    BY <2>1
<1> QED
  BY <1>1, <1>2, <1>3, <1>4 DEF Copying

(* How many cells the collection has given out. *)
LEMMA GivenCount == ASSUME Bounded PROVE IsFiniteSet(Given) /\ Cardinality(Given) = Used
<1>1. mem_low \in Int /\ memoryindex \in Int /\ MEM_HIGH \in Int /\ mem_low >= 0
  BY Half DEF Bounded, Addr
<1>2. CASE direction = 1
  <2>1. Given = mem_low .. memoryindex - 1
    BY <1>1, <1>2, Half DEF Bounded, Given, Addr
  <2>2. mem_low \in Int /\ memoryindex - 1 \in Int
    BY <1>1
  <2>3. /\ IsFiniteSet(mem_low .. memoryindex - 1)
        /\ Cardinality(mem_low .. memoryindex - 1)
             = IF mem_low > memoryindex - 1 THEN 0 ELSE (memoryindex - 1) - mem_low + 1
    BY <2>2, FS_Interval
  <2>4. /\ Used = memoryindex - mem_low /\ mem_low <= memoryindex
        /\ (IF mem_low > memoryindex - 1 THEN 0 ELSE (memoryindex - 1) - mem_low + 1)
             = memoryindex - mem_low
    BY <1>1, <1>2 DEF Bounded, Used
  <2> QED
    BY <2>1, <2>3, <2>4
<1>3. CASE direction = -1
  <2>1. Given = memoryindex + 1 .. MEM_HIGH
    BY <1>1, <1>3 DEF Bounded, Given, Addr
  <2>2. memoryindex + 1 \in Int /\ MEM_HIGH \in Int
    BY <1>1
  <2>3. /\ IsFiniteSet(memoryindex + 1 .. MEM_HIGH)
        /\ Cardinality(memoryindex + 1 .. MEM_HIGH)
             = IF memoryindex + 1 > MEM_HIGH THEN 0 ELSE MEM_HIGH - (memoryindex + 1) + 1
    BY <2>2, FS_Interval
  <2>4. /\ Used = MEM_HIGH - memoryindex /\ memoryindex <= MEM_HIGH
        /\ (IF memoryindex + 1 > MEM_HIGH THEN 0 ELSE MEM_HIGH - (memoryindex + 1) + 1)
             = MEM_HIGH - memoryindex
    BY <1>1, <1>3 DEF Bounded, Used
  <2> QED
    BY <2>1, <2>3, <2>4
<1> QED
  BY <1>2, <1>3 DEF Bounded

LEMMA FullUsed == ASSUME Bounded, NoRoom PROVE Used = Capacity /\ memoryindex = mem_mid
BY Half DEF Bounded, NoRoom, Used, Capacity, Addr

LEMMA LiveFinite ==
  ASSUME NEW M0, NEW R0, NEW C0, NEW F, NEW K, NEW L, Bounded,
         Start(M0, R0, C0, F, K, L, mem_low, reading), Alike(M0, R0, C0, F)
  PROVE  IsFiniteSet(Live)
<1>1. Live \subseteq F /\ F \subseteq Addr
  BY LiveFacts DEF Bounded, Start, Above
<1>2. IsFiniteSet(Addr)
  <2>1. 0 \in Int /\ MEM_HIGH \in Int
    BY Half
  <2> QED
    BY <2>1, FS_Interval DEF Addr
<1>3. Live \in SUBSET Addr
  BY <1>1
<1> QED
  BY <1>2, <1>3, FS_Subset

(* A half that is full holds as many cells as there are live ones, at most. *)
LEMMA FullOfLive ==
  ASSUME NEW M0, NEW R0, NEW C0, NEW F, NEW K, NEW L, NEW orig, Bounded, NoRoom,
         Collecting(M0, R0, C0, F, K, L, orig), Alike(M0, R0, C0, F), Accounts(orig)
  PROVE  Cardinality(Live) >= Capacity
<1> DEFINE f == [b \in Given |-> orig[b]]
<1>1. f \in Injection(Given, Live)
  <2>1. f \in [Given -> Live] /\ \A b, c \in Given : f[b] = f[c] => b = c
    BY DEF Accounts
  <2> QED
    BY <2>1, Fun_IsInj
<1> HIDE DEF f
<1>2. IsFiniteSet(Live)
  BY LiveFinite DEF Collecting
<1>3. Cardinality(Given) <= Cardinality(Live)
  BY <1>1, <1>2, FS_Injection
<1>4. Cardinality(Given) = Capacity
  BY GivenCount, FullUsed
<1>5. Cardinality(Live) \in Nat /\ Cardinality(Given) \in Nat
  BY <1>2, GivenCount, FS_CardinalityType
<1> QED
  BY <1>3, <1>4, <1>5

LEMMA Accounted ==
  ASSUME NEW low \in Addr, NEW G, NEW orig, NEW p, NEW q, Copies(low, G, orig, p, q), p >= low
  PROVE  q \in G /\ orig[q] = p
BY DEF Copies, Refs, Addr

(* In the end every live cell is accounted for. *)
LEMMA EndCounts ==
  ASSUME NEW M0, NEW R0, NEW C0, NEW F, NEW K, NEW L, NEW orig, Bounded,
         Collecting(M0, R0, C0, F, K, L, orig), Alike(M0, R0, C0, F), Accounts(orig),
         pc = "roots", slots = <<>>
  PROVE  Used = Cardinality(Live)
<1> DEFINE X == {orig[b] : b \in Given}
           f == [b \in Given |-> orig[b]]
<1>1. /\ Moved(M0, memory, R0, root, mem_low, F, Given, orig)
      /\ C0 # NoCall => MovedCall(mem_low, Given, orig, C0, call)
  BY Ended
<1>2. Start(M0, R0, C0, F, K, L, mem_low, reading) /\ mem_low \in Addr
  BY DEF Collecting, Bounded
<1>3. \A a, q : Copies(mem_low, Given, orig, a, q) /\ a >= mem_low => a \in X
  BY <1>2, Accounted
<1>4. ASSUME NEW a \in Asks(R0, C0), a >= mem_low PROVE a \in X
  <2>1. CASE \E x \in Roots : a = R0[x]
    BY <1>1, <1>3, <1>4, <2>1 DEF Moved
  <2>2. CASE C0 = NoCall /\ (a = C0.next \/ a = C0.u)
    <3>1. a = NULL
      BY <2>2 DEF NoCall
    <3> QED
      BY <1>2, <1>4, <3>1 DEF NULL, Addr
  <2>3. CASE C0 # NoCall /\ a = C0.next
    BY <1>1, <1>3, <1>4, <2>3 DEF MovedCall
  <2>4. CASE C0 # NoCall /\ C0.op = "LIST_" /\ a = C0.u
    BY <1>1, <1>3, <1>4, <2>4 DEF MovedCall
  <2> QED
    BY <1>4, <2>1, <2>2, <2>3, <2>4 DEF Asks
<1>5. ASSUME NEW b \in X, NEW a \in Links(M0, b), a >= mem_low PROVE a \in X
  <2>1. PICK c \in Given : b = orig[c]
    OBVIOUS
  <2>2. Copied(M0, memory, mem_low, Given, orig, c)
    BY <1>1 DEF Moved
  <2>3. \E q : Copies(mem_low, Given, orig, a, q)
    BY <2>1, <2>2 DEF Copied, Links
  <2> QED
    BY <1>3, <1>5, <2>3
<1>6. X \in SUBSET F
  BY <1>1 DEF Moved
<1>7. ClosedUnder(M0, mem_low, Asks(R0, C0), X)
  BY <1>4, <1>5 DEF ClosedUnder
<1> HIDE DEF X
<1>8. Live \subseteq X
  BY <1>2, <1>6, <1>7, LiveFacts
<1>9. f \in Bijection(Given, Live)
  <2>1. f \in [Given -> Live] /\ \A b, c \in Given : f[b] = f[c] => b = c
    BY DEF Accounts
  <2>2. \A a \in Live : \E b \in Given : f[b] = a
    BY <1>8 DEF X
  <2>3. f \in Injection(Given, Live) /\ f \in Surjection(Given, Live)
    BY <2>1, <2>2, Fun_IsInj, Fun_IsSurj
  <2> QED
    BY <2>3 DEF Bijection
<1>10. ExistsBijection(Given, Live)
  BY <1>9 DEF ExistsBijection
<1> QED
  BY <1>10, GivenCount, FS_Bijection

-----------------------------------------------------------------------------
Remembered ==
  \E M0, R0, C0, F, K, L, orig :
    Collecting(M0, R0, C0, F, K, L, orig) /\ Alike(M0, R0, C0, F) /\ Accounts(orig)
CollectInv ==
  /\ MemoryInv
  /\ pc \in {"roots", "call", "return"} => Remembered
  /\ pc = "full" /\ ~defining => Cardinality(Live) >= Capacity

LEMMA StartRemembers ==
  ASSUME Bounded, HeapInv', Next, pc = "run", pc' = "roots", before' = Heap'
  PROVE  Remembered'
<1>1. PICK args : /\ Gc1(call', args)
                  /\ \/ call' = NoCall /\ args = <<>>
                     \/ call' # NoCall /\ args = Own(call'.op)
  BY StepStarts DEF Starts
<1>2. Given' = {}
  BY <1>1, Flip DEF Gc1
<1>3. Gathering'
  BY DEF HeapInv
<1>4. PICK M0, R0, C0, F, K, L, orig : Collecting(M0, R0, C0, F, K, L, orig)'
  BY <1>3 DEF Gathering
<1>5. PICK sl : sl = slots'
  OBVIOUS
<1>6. /\ \A a \in 0 .. mem_low' - 1 : memory'[a] = M0[a]
      /\ OldCells(M0, memory', F, {}, orig)
      /\ RootSlots(mem_low', {}, orig, R0, root', sl)
      /\ CallSlots(mem_low', {}, orig, C0, call', sl)
      /\ C0 # NoCall => C0.op \in {"INTEGER_", "LIST_"}
  BY <1>2, <1>4, <1>5 DEF Collecting, Progress, Slots, Start, Args
<1>7. args \in {<<>>, <<"r">>, <<"u", "r">>} /\ sl = CopyOrder \o args
  BY <1>1, <1>5 DEF Own, Gc1
<1>8. /\ In(sl) = Roots \cup In(args)
      /\ "u" \in In(args) <=> args = <<"u", "r">>
      /\ "r" \in In(args) <=> args # <<>>
  BY <1>7, SlotsStart
<1>9. \A a \in F : memory'[a] = M0[a]
  BY <1>6 DEF OldCells
<1>10. \A x \in Roots : root'[x] = R0[x]
  BY <1>6, <1>8 DEF RootSlots
<1>11. Accounts(orig)'
  BY <1>2 DEF Accounts
<1>12. CASE C0 = NoCall
  <2>1. call' = NoCall
    BY <1>6, <1>12 DEF CallSlots
  <2> QED
    BY <1>4, <1>6, <1>9, <1>10, <1>11, <1>12, <2>1 DEF Remembered, Alike, Heap
<1>13. CASE C0 # NoCall
  <2>1. call'.op = C0.op /\ call'.place = C0.place /\ call'.op # "ILLEGAL_"
    BY <1>6, <1>13 DEF CallSlots
  <2>2. call' # NoCall
    BY <2>1 DEF NoCall
  <2>3. args = Own(call'.op)
    BY <1>1, <2>2
  <2>4. "r" \in In(sl) /\ (C0.op = "LIST_" => "u" \in In(sl))
    BY <1>8, <2>1, <2>3 DEF Own
  <2>5. call'.u = C0.u /\ call'.next = C0.next
    BY <1>6, <1>13, <2>4 DEF CallSlots
  <2> QED
    BY <1>4, <1>6, <1>9, <1>10, <1>11, <1>13, <2>1, <2>5 DEF Remembered, Alike, Heap
<1> QED
  BY <1>12, <1>13

LEMMA CopyingRemembers ==
  ASSUME HeapInv, Remembered, Copying, before' = before
  PROVE  Remembered'
<1>1. PICK M0, R0, C0, F, K, L, orig :
        Collecting(M0, R0, C0, F, K, L, orig) /\ Alike(M0, R0, C0, F) /\ Accounts(orig)
  BY DEF Remembered
<1>2. pc \in {"roots", "call", "return"}
  BY DEF Copying, SkipNull, CopyNext, SlotDone, CopySettled, CopyCell, CopyTail, CopyDone
<1>3. Goes(M0, R0, C0, F, K, L)
  BY <1>1, <1>2, CopyingGoes DEF HeapInv
<1>4. PICK orig2 : Collecting(M0, R0, C0, F, K, L, orig2)' /\ Accounts(orig2)'
  BY <1>1, <1>2, CopyingAccounts DEF HeapInv
<1>5. Alike(M0, R0, C0, F)'
  BY <1>1, <1>3 DEF Goes, Alike
<1> QED
  BY <1>4, <1>5 DEF Remembered

LEMMA ProgramSteps ==
  ASSUME Bounded, Reader \/ Evaluator
  PROVE  pc = "run" /\ pc' \in {"run", "roots", "full"} /\ (pc' = "full" => defining')
<1>1. ASSUME NEW h, NEW o, NEW u, NEW r, NEW place, NewNode(h, o, u, r, place), Still, pc = "run"
      PROVE  pc' \in {"run", "roots", "full"} /\ (pc' = "full" => defining')
  BY <1>1, FullUsed DEF NewNode, Gc1, Still, gc
<1>2. CASE Readterm \/ ReadList \/ ReadNumber \/ ReadEnd
  BY <1>1, <1>2 DEF Readterm, ReadList, ReadNumber, ReadEnd, Reading
<1>3. CASE CloseList \/ CloseProgram \/ CloseDefinition \/ BeginDefinitions \/ EndDefinitions
  BY <1>3 DEF CloseList, CloseProgram, CloseDefinition, BeginDefinitions, EndDefinitions, Reading,
              Exhausted, program, gc
<1>4. CASE Leave \/ Pop \/ Unstack \/ PopDump \/ Abort \/ Gc_ \/ App11 \/ WhileAgain \/ WhileStore
  BY <1>4 DEF Leave, Pop, Unstack, PopDump, Abort, Gc_, Gc1, App11, WhileAgain, WhileStore, InWhile,
              SetRoots, Writes, Running, gc
<1>5. CASE Literal \/ Stack \/ Rest \/ Cons_ \/ ConsList \/ Save \/ Restore \/ ConcatString
  BY <1>1, <1>5 DEF Literal, Stack, Rest, Cons_, ConsList, Save, Restore, ConcatString, Running
<1>6. CASE Enter
  <2>1. pc = "run" /\ Still /\ \E r : NewNode(memory, "LIST_", r, root["conts"], "conts")
    BY <1>6 DEF Enter, Running
  <2> QED
    BY <1>1, <2>1
<1>7. CASE MapOpen \/ MapOpenLast \/ MapCollect \/ MapClose \/ Primrec \/ PrimrecMember
  BY <1>1, <1>7 DEF MapOpen, MapOpenLast, MapCollect, MapClose, Primrec, PrimrecMember, Running
<1> QED
  BY <1>2, <1>3, <1>4, <1>5, <1>6, <1>7 DEF Reader, Evaluator

LEMMA CollectStep == ASSUME Safe, CollectInv, [CNext]_cvars PROVE CollectInv'
<1>1. MemoryInv'
  <2>1. [Next]_vars
    BY DEF CNext, cvars
  <2> QED
    BY <2>1, StepKeeps DEF CollectInv, MemoryInv
<1>2. ASSUME pc' \in {"roots", "call", "return"} PROVE Remembered'
  <2>1. CASE UNCHANGED cvars
    <3>1. UNCHANGED <<memory, memoryindex, mem_low, mem_mid, direction, root, reading, pc, call,
                      slots, calls, reg, before>>
      BY <2>1 DEF cvars, vars, mem, program, gc
    <3>2. Remembered
      BY <1>2, <3>1 DEF CollectInv, MemoryInv
    <3>3. PICK M0, R0, C0, F, K, L, orig :
            Collecting(M0, R0, C0, F, K, L, orig) /\ Alike(M0, R0, C0, F) /\ Accounts(orig)
      BY <3>2 DEF Remembered
    <3>4. OtherHalf(F)' /\ Start(M0, R0, C0, F, K, L, mem_low, reading)' /\ Given' = Given
      BY <3>1, <3>3 DEF Collecting, OtherHalf, Given
    <3>5. Progress(M0, R0, C0, F, orig)'
      BY <3>1, <3>3, <3>4 DEF Collecting, Progress
    <3>6. Alike(M0, R0, C0, F)' /\ Accounts(orig)'
      BY <3>1, <3>3, AccountsSame DEF Alike
    <3> QED
      BY <3>4, <3>5, <3>6 DEF Remembered, Collecting
  <2>2. CASE CNext
    <3>1. Next /\ Remember
      BY <2>2 DEF CNext
    <3>2. CASE Copying
      <4>1. pc \in {"roots", "call", "return"}
        BY <3>2 DEF Copying, SkipNull, CopyNext, SlotDone, CopySettled, CopyCell, CopyTail, CopyDone
      <4>2. before' = before
        BY <1>2, <3>1, <4>1 DEF Remember
      <4> QED
        BY <3>2, <4>1, <4>2, CopyingRemembers DEF CollectInv, MemoryInv
    <3>3. CASE Collector /\ ~Copying
      <4>1. pc' \in {"run", "full"}
        BY <3>3 DEF Collector, Copying, CopyCell, GcDone, Exhausted
      <4> QED
        BY <1>2, <4>1
    <3>4. CASE Reader \/ Evaluator
      <4>1. pc = "run" /\ pc' = "roots"
        BY <1>2, <3>4, ProgramSteps DEF CollectInv, MemoryInv, HeapInv
      <4>2. before' = Heap'
        BY <3>1, <4>1 DEF Remember
      <4> QED
        BY <1>1, <3>1, <4>1, <4>2, StartRemembers DEF CollectInv, MemoryInv, HeapInv
    <3> QED
      BY <3>1, <3>2, <3>3, <3>4 DEF Next
  <2> QED
    BY <2>1, <2>2
<1>3. ASSUME pc' = "full", ~defining' PROVE Cardinality(Live') >= Capacity'
  <2>1. CASE UNCHANGED cvars
    <3>1. UNCHANGED <<pc, defining, before, mem_low, mem_mid, direction>>
      BY <2>1 DEF cvars, vars, mem, program, gc
    <3>2. Live' = Live /\ Capacity' = Capacity
      BY <3>1 DEF Live, LiveIn, Capacity
    <3> QED
      BY <1>3, <3>1, <3>2 DEF CollectInv, MemoryInv
  <2>2. CASE CNext
    <3>1. Next /\ Remember
      BY <2>2 DEF CNext
    <3>2. CASE Reader \/ Evaluator
      BY <1>3, <3>2, ProgramSteps DEF CollectInv, MemoryInv, HeapInv
    <3>3. CASE Collector
      <4>1. /\ pc \in {"roots", "call"} /\ NoRoom
            /\ UNCHANGED <<mem_low, mem_mid, direction>>
        BY <1>3, <3>3
           DEF Collector, SkipNull, CopyNext, SlotDone, CopySettled, CopyCell, CopyTail, CopyDone,
               GcDone, Exhausted, mem
      <4>2. before' = before
        BY <1>3, <3>1, <4>1 DEF Remember
      <4>3. Live' = Live /\ Capacity' = Capacity
        BY <4>1, <4>2 DEF Live, LiveIn, Capacity
      <4>4. Cardinality(Live) >= Capacity
        BY <4>1, FullOfLive DEF CollectInv, MemoryInv, HeapInv, Remembered
      <4> QED
        BY <4>3, <4>4
    <3> QED
      BY <3>1, <3>2, <3>3 DEF Next
  <2> QED
    BY <2>1, <2>2
<1> QED
  BY <1>1, <1>2, <1>3 DEF CollectInv, MemoryInv

-----------------------------------------------------------------------------
(* What holds when a collection ends. *)
LEMMA EndSurvives == ASSUME CollectInv PROVE TermsSurvive
<1> SUFFICES ASSUME pc = "roots", slots = <<>>
             PROVE  /\ \A x \in Holders, path \in Paths :
                         Content(memory, Walk(memory, Held(Heap, x), path))
                           = Content(before.memory, Walk(before.memory, Held(before, x), path))
                    /\ call.op = before.call.op /\ call.place = before.call.place
                    /\ call.op # "LIST_" => call.u = before.call.u
  BY DEF TermsSurvive
<1>1. PICK M0, R0, C0, F, K, L, orig : Collecting(M0, R0, C0, F, K, L, orig) /\ Alike(M0, R0, C0, F)
  BY DEF CollectInv, MemoryInv, Remembered
<1>2. PICK B, BR, BC : B = before.memory /\ BR = before.root /\ BC = before.call
  OBVIOUS
<1>3. mem_low \in Addr /\ Start(M0, R0, C0, F, K, L, mem_low, reading) /\ Bounded
  BY <1>1 DEF CollectInv, MemoryInv, HeapInv, Bounded, Collecting
<1>4. /\ \A a \in (0 .. mem_low - 1) \cup F : B[a] = M0[a]
      /\ \A x \in Roots : BR[x] = R0[x]
      /\ C0 = NoCall => BC = NoCall
      /\ C0 # NoCall => BC.op = C0.op /\ BC.place = C0.place /\ BC.u = C0.u /\ BC.next = C0.next
  BY <1>1, <1>2 DEF Alike
<1>5. /\ Moved(M0, memory, R0, root, mem_low, F, Given, orig)
      /\ C0 = NoCall <=> call = NoCall
      /\ C0 # NoCall => MovedCall(mem_low, Given, orig, C0, call)
  BY <1>1, <1>3, Ended
<1>6. Moved(B, memory, BR, root, mem_low, F, Given, orig)
  BY <1>4, <1>5 DEF Moved, Copied
<1>7. Closure(B, mem_low, F)
  BY <1>3, <1>4 DEF Start, Shape, Closure
<1>8. NULL \in Refs(mem_low, {}) /\ NULL \in Refs(mem_low, F)
  BY <1>3, RefFacts
<1>9. ASSUME NEW x \in Holders PROVE Mirrors(mem_low, F, Given, orig, Held(before, x), Held(Heap, x))
  <2>1. CASE x \in Roots
    <3>1. Held(before, x) = BR[x] /\ Held(Heap, x) = root[x]
      BY <1>2, <2>1 DEF Held, Heap, Roots
    <3>2. R0[x] \in Refs(mem_low, F)
      BY <1>3, <2>1 DEF Start, Shape, Reaches
    <3> QED
      BY <1>4, <1>5, <2>1, <3>1, <3>2 DEF Mirrors, Moved
  <2>2. CASE x \in {"u", "r"} /\ C0 = NoCall
    <3>1. Held(before, x) = NULL /\ Held(Heap, x) = NULL
      BY <1>2, <1>4, <1>5, <2>2 DEF Held, Heap, NoCall
    <3> QED
      BY <1>8, <3>1 DEF Mirrors, Copies
  <2>3. CASE x \in {"u", "r"} /\ C0 # NoCall
    <3>1. Args(M0, R0, K, L, mem_low, F, reading, C0) /\ MovedCall(mem_low, Given, orig, C0, call)
      BY <1>3, <1>5, <2>3 DEF Start
    <3>2. CASE x = "r"
      <4>1. Held(before, x) = C0.next /\ Held(Heap, x) = call.next
        BY <1>2, <1>4, <2>3, <3>2 DEF Held, Heap
      <4> QED
        BY <3>1, <4>1 DEF Mirrors, MovedCall, Args
    <3>3. CASE x = "u"
      <4>1. /\ Held(before, x) = IF C0.op = "LIST_" THEN C0.u ELSE NULL
            /\ Held(Heap, x) = IF C0.op = "LIST_" THEN call.u ELSE NULL
        BY <1>2, <1>4, <2>3, <3>1, <3>3 DEF Held, Heap, MovedCall
      <4> QED
        BY <1>8, <3>1, <4>1 DEF Mirrors, MovedCall, Args, Copies
    <3> QED
      BY <2>3, <3>2, <3>3
  <2> QED
    BY <2>1, <2>2, <2>3 DEF Holders
<1>10. ASSUME NEW x \in Holders, NEW path \in Paths
       PROVE  Content(memory, Walk(memory, Held(Heap, x), path))
                = Content(B, Walk(B, Held(before, x), path))
  BY <1>3, <1>6, <1>7, <1>9, <1>10, SameWalk
<1>11. /\ call.op = BC.op /\ call.place = BC.place
       /\ call.op # "LIST_" => call.u = BC.u
  BY <1>4, <1>5 DEF MovedCall
<1> QED
  BY <1>2, <1>10, <1>11

(* Whatever the terms and however they share cells, in runs that keep clear *)
(* of UnsafeSites every path of at most Reach steps from a register, or     *)
(* from an argument of the newnode that waits, finds after gc1 (utils.c)    *)
(* what it found before.                                                   *)
THEOREM TermsKept == ASSUME Safe PROVE CSpec => []TermsSurvive
<1>1. CInit => CollectInv
  BY InitHeap DEF CInit, Init, CollectInv, MemoryInv
<1>2. CollectInv /\ [CNext]_cvars => CollectInv'
  BY CollectStep
<1>3. CollectInv => TermsSurvive
  BY EndSurvives
<1> QED
  BY <1>1, <1>2, <1>3, PTL DEF CSpec

LEMMA EndExact == ASSUME CollectInv PROVE CollectsExactly
<1>1. ASSUME pc = "roots", slots = <<>> PROVE Used = Cardinality(Live)
  BY <1>1, EndCounts DEF CollectInv, MemoryInv, HeapInv, Remembered
<1> QED
  BY <1>1, EndSurvives DEF CollectsExactly, CollectInv, MemoryInv, Live

(* In runs that keep clear of UnsafeSites, while's store into definitions   *)
(* among them, the collector (utils.c, gc1 and copy) moves every cell that  *)
(* the registers or the waiting newnode lead to, each of them once, and no  *)
(* other; and a half of the memory is found full only when the live cells   *)
(* alone fill it.                                                          *)
THEOREM CollectorExact == ASSUME Safe PROVE CSpec => []CollectsExactly
<1>1. CInit => CollectInv
  BY InitHeap DEF CInit, Init, CollectInv, MemoryInv
<1>2. CollectInv /\ [CNext]_cvars => CollectInv'
  BY CollectStep
<1>3. CollectInv => CollectsExactly
  BY EndExact
<1> QED
  BY <1>1, <1>2, <1>3, PTL DEF CSpec
=============================================================================
