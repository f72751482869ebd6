------------------------------ MODULE JoyCollect ------------------------------
(***************************************************************************)
(* What a collection of JoyHeap does to the heap as a whole.  A history    *)
(* variable keeps the heap that the collection in progress began with; the *)
(* program takes no part in it.                                            *)
(***************************************************************************)
EXTENDS JoyHeap

CONSTANT Reach  \* how many steps from a register the terms are compared

ASSUME ReachAssumption == Reach \in Nat

VARIABLE before

Heap    == [memory |-> memory, root |-> root, call |-> call]
Nothing == [memory |-> <<>>, root |-> <<>>, call |-> NoCall]

Remember ==
  before' = IF pc' = "run" THEN Nothing
            ELSE IF pc = "run" /\ pc' = "roots" THEN Heap'
            ELSE before

cvars == <<vars, before>>
CInit == Init /\ before = Nothing
CNext == Next /\ Remember
CSpec == CInit /\ [][CNext]_cvars

-----------------------------------------------------------------------------
(* The cells above the definitions within reach of the registers and of    *)
(* the arguments of the newnode call that waits for the collection.        *)
Pointers(h) ==
  {h.root[x] : x \in Roots} \cup {h.call.next} \cup (IF h.call.op = "LIST_" THEN {h.call.u} ELSE {})

LiveIn(h) == Reachable(h.memory, mem_low, Pointers(h))

-----------------------------------------------------------------------------
(* The cell at the end of a path, and what a program can tell about it.    *)
Paths == UNION {[1 .. n -> {"next", "u"}] : n \in 0 .. Reach}
After(M, a, step) ==
  IF a = NULL THEN NULL
  ELSE IF step = "next" THEN M[a].next
  ELSE IF M[a].op = "LIST_" THEN M[a].u ELSE NULL

Walk(M, p, path) ==
  LET at[i \in 0 .. Len(path)] == IF i = 0 THEN p ELSE After(M, at[i - 1], path[i])
  IN  at[Len(path)]

Content(M, a) ==
  IF a = NULL THEN <<>> ELSE <<M[a].op, IF M[a].op = "LIST_" THEN NULL ELSE M[a].u>>

(* The registers, and the arguments of the newnode call. *)
Holders == Roots \cup {"u", "r"}
Held(h, x) == CASE x = "u" -> IF h.call.op = "LIST_" THEN h.call.u ELSE NULL
                [] x = "r" -> h.call.next
                [] OTHER -> h.root[x]

(* When a collection ends, everything that can be read from the registers  *)
(* is what could be read when it began.                                    *)
TermsSurvive ==
  pc = "roots" /\ slots = <<>> =>
    /\ \A x \in Holders, path \in Paths :
         Content(memory, Walk(memory, Held(Heap, x), path))
           = Content(before.memory, Walk(before.memory, Held(before, x), path))
    /\ call.op = before.call.op /\ call.place = before.call.place
    /\ call.op # "LIST_" => call.u = before.call.u

-----------------------------------------------------------------------------
(* A collection moves every live cell once and nothing else, all terms      *)
(* survive it, and a half is full only when the live cells fill it.        *)
Used     == IF direction = 1 THEN memoryindex - mem_low ELSE MEM_HIGH - memoryindex
Capacity == IF direction = 1 THEN mem_mid - mem_low ELSE MEM_HIGH - mem_mid
CollectsExactly ==
  /\ TermsSurvive
  /\ pc = "roots" /\ slots = <<>> => Used = Cardinality(LiveIn(before))
  /\ pc = "full" /\ ~defining => Cardinality(LiveIn(before)) >= Capacity
=============================================================================
