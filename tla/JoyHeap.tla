------------------------------- MODULE JoyHeap -------------------------------
(***************************************************************************)
(* The memory of the Joy interpreter (utils.c, built without the BDW       *)
(* collector): an array in two halves above the cells of the definitions,  *)
(* newnode with its copying collector, and the program as the collector    *)
(* sees it: the reader, exeterm, combinators that save the stack, operators *)
(* that share lists, the in-place lists of map, and definition blocks.     *)
(*                                                                         *)
(* copy() is recursive; here it is a machine of one step per visited node  *)
(* with the C stack in `calls'.  Of the types there are numbers and lists, *)
(* of the numbers a few; what the others hold is copied like a number.     *)
(***************************************************************************)
EXTENDS Integers, Sequences, FiniteSets

CONSTANTS
  MEMORYMAX,  \* number of cells
  Numbers,    \* the numbers programs contain
  Names,      \* the names programs define
  Unsafe      \* which of UnsafeSites the program reaches

(* Five places do not survive a collection: the assignments of map to      *)
(* DMP2 and DMP3->next when the compiler computes the address before it    *)
(* calls newnode, the loop of primrec, an abort inside a definition, prog, *)
(* which inimem1 does not reset, and while, whose assignment to SAVED3     *)
(* makes a cell of a definition lead into the halves, where the collector  *)
(* does not follow it, or closes a circle, in which copy never returns.    *)
UnsafeSites == {"map", "primrec", "definition", "prog", "while"}

ASSUME HeapAssumption ==
  /\ MEMORYMAX \in Nat \ {0}
  /\ Numbers \subseteq Int
  /\ Unsafe \subseteq UnsafeSites

NULL     == -1
MEM_HIGH == MEMORYMAX - 1
Addr     == 0 .. MEM_HIGH
Ptr      == Addr \cup {NULL}

(* globals.h: ILLEGAL_ is 0, what static memory holds before its first use. *)
Ops  == {"ILLEGAL_", "COPIED_", "INTEGER_", "LIST_"}
Cell == [op : Ops, u : Int, next : Ptr]
Node(op, u, next) == [op |-> op, u |-> u, next |-> next]

Roots == {"stk", "prog", "conts", "dump", "dump1", "dump2", "dump3", "dump4", "dump5"}

(* The order of the COP calls in gc1.  (Mutant: conts is forgotten.) *)
CopyOrderButConts ==
  <<"stk", "prog", "dump", "dump1", "dump2", "dump3", "dump4", "dump5">>
CopyOrder ==
  <<"stk", "prog", "conts", "dump", "dump1", "dump2", "dump3", "dump4", "dump5">>

VARIABLES
  memory, memoryindex, mem_low, mem_mid, direction,
  root,      \* stk, prog, conts and the dumps
  body,      \* the bodies in the symbol table; the collector does not see them
  reading,   \* the calls of readterm in progress
  defining,  \* between inimem1 and inimem2
  current,   \* the local variable of primrec's loop
  bucket,    \* globals.h: the value for the next newnode
  pc,        \* "run", in gc1 "roots", in copy "call" or "return", "full"
  call,      \* the newnode call that started the collection
  slots,     \* the variables gc1 and newnode have yet to copy
  calls,     \* the C stack of copy
  reg        \* its argument or result

mem     == <<memory, memoryindex, mem_low, mem_mid, direction>>
gc      == <<pc, call, slots, calls, reg>>
program == <<root, body, reading, defining, current, bucket>>
vars    == <<mem, program, gc>>

NoCall == [op |-> "ILLEGAL_", u |-> NULL, next |-> NULL, place |-> "none", at |-> NULL]

Init ==
  /\ memory = [a \in Addr |-> Node("ILLEGAL_", 0, NULL)]
  /\ memoryindex = 0 /\ mem_low = 0 /\ mem_mid = MEM_HIGH \div 2 /\ direction = 1
  /\ root = [x \in Roots |-> NULL] /\ body = [n \in Names |-> NULL]
  /\ reading = <<>> /\ defining = FALSE /\ current = NULL /\ bucket = NULL
  /\ pc = "run" /\ call = NoCall /\ slots = <<>> /\ calls = <<>> /\ reg = NULL

Top    == memory[root["stk"]]
Dmp(d) == memory[root[d]].u
Phase  == reading[Len(reading)]
Outer  == SubSeq(reading, 1, Len(reading) - 1)

(* NULL, the definitions, and what newnode has given out of the half in use. *)
Allocated(p) == p < mem_low \/ (IF direction = 1 THEN p < memoryindex ELSE p > memoryindex)

(* The cells a cell leads to, and NULL. *)
Links(M, a) == {M[a].next} \cup (IF M[a].op = "LIST_" THEN {M[a].u} ELSE {})

(* The cells from low on within reach of S. *)
Reachable(M, low, S) ==
  LET within[n \in 0 .. MEMORYMAX] ==
        IF n = 0 THEN {a \in S : a >= low}
        ELSE LET near == within[n - 1]
             IN  near \cup {a \in UNION {Links(M, b) : b \in near} : a >= low}
  IN  within[MEMORYMAX]

-----------------------------------------------------------------------------
(* newnode: the new cell, and what the caller does with it.                *)

(* readterm: the factor on top goes to the end of the term below it, of     *)
(* which stk holds the header and, after the first factor, dump the end.   *)
Link(h, s, phases) ==
  LET header == h[s].next
      last   == h[root["dump"]].u
  IN  /\ root' = [root EXCEPT !["stk"] = header]
      /\ IF phases[Len(phases)] = "first"
         THEN /\ memory' = [h EXCEPT ![header].u = s, ![s].next = NULL]
              /\ reading' = [phases EXCEPT ![Len(phases)] = "end"]
         ELSE /\ memory' = [h EXCEPT ![last].next = s, ![s].next = NULL, ![root["dump"]].u = s]
              /\ reading' = phases

(* map: the cell that the assignment to DMP2 or to DMP3->next changes. *)
Target(place) ==
  CASE place = "DMP2" -> root["dump2"]
    [] place = "DMP3->next" -> Dmp("dump3")
    [] OTHER -> NULL

(* The result is stored, then DMP3 becomes DMP2 or DMP3->next.  A compiler  *)
(* may have computed the cell to change before the collection.             *)
StoreResult(h, c, p) ==
  LET at == IF "map" \in Unsafe THEN c.at ELSE Target(c.place)
      d3 == root["dump3"]
  IN  memory' = IF c.place = "DMP2"
                THEN LET w == [h EXCEPT ![at].u = p] IN [w EXCEPT ![d3].u = w[root["dump2"]].u]
                ELSE LET w == [h EXCEPT ![at].next = p] IN [w EXCEPT ![d3].u = w[w[d3].u].next]

Deliver(h, p, c) ==
  \/ /\ c.place \in {"stk", "literal", "dump", "dump2", "dump3"}
     /\ root' = [root EXCEPT ![IF c.place = "literal" THEN "stk" ELSE c.place] = p]
     /\ memory' = h /\ bucket' = NULL /\ UNCHANGED <<reading, current>>
  \/ /\ c.place = "bucket" /\ bucket' = p
     /\ memory' = h /\ UNCHANGED <<root, reading, current>>
  \/ /\ c.place = "conts" /\ root' = [root EXCEPT !["conts"] = p]
     /\ reading' = <<>>
     /\ memory' = h /\ UNCHANGED <<current, bucket>>
  \/ /\ c.place = "header" /\ root' = [root EXCEPT !["stk"] = p]
     /\ reading' = Append(reading, "first")
     /\ memory' = h /\ UNCHANGED <<current, bucket>>
  \/ /\ c.place = "factor" /\ Link(h, p, reading)
     /\ UNCHANGED <<current, bucket>>
  \/ /\ c.place = "end" /\ root' = [root EXCEPT !["dump"] = p]
     /\ reading' = Append(Outer, "more")
     /\ memory' = h /\ UNCHANGED <<current, bucket>>
  \/ /\ c.place \in {"DMP2", "DMP3->next"} /\ StoreResult(h, c, p)
     /\ UNCHANGED <<root, reading, current, bucket>>
  \/ /\ c.place = "mapped"
     /\ root' = [root EXCEPT !["stk"] = p, !["dump2"] = h[@].next, !["dump3"] = h[@].next]
     /\ memory' = h /\ UNCHANGED <<reading, current, bucket>>
  \/ /\ c.place = "primrec"
     /\ root' = [root EXCEPT !["dump"] = p, !["stk"] = h[@].next]
     /\ current' = Top.u
     /\ memory' = h /\ UNCHANGED <<reading, bucket>>
  \/ /\ c.place = "member" /\ root' = [root EXCEPT !["stk"] = p]
     /\ current' = h[current].next
     /\ memory' = h /\ UNCHANGED <<reading, bucket>>

Allocate(h, c) ==
  /\ Deliver([h EXCEPT ![memoryindex] = Node(c.op, c.u, c.next)], memoryindex, c)
  /\ memoryindex' = memoryindex + direction
  /\ UNCHANGED <<mem_low, mem_mid, direction>>

-----------------------------------------------------------------------------
(* The collector *)

Gc1(c, args) ==
  /\ Allocated(root["prog"]) \/ "prog" \in Unsafe
  /\ direction' = -direction
  /\ memoryindex' = IF direction = -1 THEN mem_low ELSE MEM_HIGH
  /\ pc' = "roots" /\ call' = c /\ slots' = CopyOrder \o args
  /\ UNCHANGED <<mem_low, mem_mid, calls, reg>>

(* Nothing notices that a half is full: copy would go on into the other     *)
(* half, newnode past the end.  The model stops there.                     *)
Exhausted == pc' = "full" /\ UNCHANGED <<mem, program, call, slots, calls, reg>>
NoRoom    == memoryindex = mem_mid \/ memoryindex \notin Addr

(* newnode in a memory h that the caller has just changed.  A collection   *)
(* inside a definition block, which takes a block of a whole half, would   *)
(* drop the bodies read so far and counts as exhaustion too.               *)
NewNode(h, o, u, r, place) ==
  LET c == [op |-> o, u |-> u, next |-> r, place |-> place, at |-> Target(place)]
  IN  \/ ~NoRoom /\ Allocate(h, c) /\ UNCHANGED gc
      \/ /\ memoryindex = mem_mid /\ ~defining
         /\ Gc1(c, IF o = "LIST_" THEN <<"u", "r">> ELSE <<"r">>)
         /\ memory' = h /\ UNCHANGED <<root, reading, current, bucket>>
      \/ /\ NoRoom /\ (memoryindex = mem_mid => defining)
         /\ pc' = "full" /\ UNCHANGED <<mem, root, reading, current, bucket, call, slots, calls, reg>>

(* What gc1 or newnode passes to copy, and where the result goes. *)
SlotValue == CASE Head(slots) = "u" -> call.u [] Head(slots) = "r" -> call.next
               [] OTHER -> root[Head(slots)]
IsNull == Head(slots) \in Roots /\ root[Head(slots)] = NULL
SkipNull ==
  /\ pc = "roots" /\ slots # <<>> /\ IsNull
  /\ slots' = Tail(slots)
  /\ UNCHANGED <<mem, program, pc, call, calls, reg>>
CopyNext ==
  /\ pc = "roots" /\ slots # <<>> /\ ~IsNull
  /\ pc' = "call" /\ reg' = SlotValue
  /\ UNCHANGED <<mem, program, call, slots, calls>>

(* (Mutant: newnode keeps the old r.) *)
SlotDoneOldR ==
  /\ pc = "return" /\ calls = <<>>
  /\ pc' = "roots" /\ slots' = Tail(slots)
  /\ IF Head(slots) \in Roots
     THEN root' = [root EXCEPT ![Head(slots)] = reg] /\ UNCHANGED call
     ELSE /\ call' = IF Head(slots) = "u" THEN [call EXCEPT !.u = reg] ELSE call
          /\ UNCHANGED root
  /\ UNCHANGED <<mem, body, reading, defining, current, bucket, calls, reg>>

SlotDone ==
  /\ pc = "return" /\ calls = <<>>
  /\ pc' = "roots" /\ slots' = Tail(slots)
  /\ IF Head(slots) \in Roots
     THEN root' = [root EXCEPT ![Head(slots)] = reg] /\ UNCHANGED call
     ELSE /\ call' = IF Head(slots) = "u" THEN [call EXCEPT !.u = reg] ELSE [call EXCEPT !.next = reg]
          /\ UNCHANGED root
  /\ UNCHANGED <<mem, body, reading, defining, current, bucket, calls, reg>>

(* copy returns at once for NULL and the cells of definitions, both below   *)
(* mem_low here, for illegal cells and for those it has copied.            *)
(* (Mutant: the test of mem_low is forgotten.)                             *)
SettledAnywhere(n) == n # NULL => memory[n].op \in {"ILLEGAL_", "COPIED_"}
Settled(n) == n >= mem_low => memory[n].op \in {"ILLEGAL_", "COPIED_"}
Forward(n) == IF n < mem_low THEN n
              ELSE IF memory[n].op = "ILLEGAL_" THEN NULL ELSE memory[n].u

CopySettled ==
  /\ pc = "call" /\ Settled(reg)
  /\ pc' = "return" /\ reg' = Forward(reg)
  /\ UNCHANGED <<mem, program, call, slots, calls>>

CopyCell ==
  /\ pc = "call" /\ ~Settled(reg)
  /\ IF NoRoom THEN Exhausted
     ELSE LET n    == reg
              list == memory[n].op = "LIST_"
          IN  /\ memory' = [memory EXCEPT ![memoryindex].op = memory[n].op,
                              ![memoryindex].u = IF list THEN @ ELSE memory[n].u]
              /\ memoryindex' = memoryindex + direction
              /\ calls' = Append(calls, [n |-> n, temp |-> memoryindex,
                                         at |-> IF list THEN "u" ELSE "next"])
              /\ reg' = IF list THEN memory[n].u ELSE memory[n].next
              /\ UNCHANGED <<mem_low, mem_mid, direction, program, pc, call, slots>>

Frame == calls[Len(calls)]
CopyTail ==
  /\ pc = "return" /\ calls # <<>> /\ Frame.at = "u"
  /\ memory' = [memory EXCEPT ![Frame.temp].u = reg]
  /\ calls' = [calls EXCEPT ![Len(calls)].at = "next"]
  /\ pc' = "call" /\ reg' = memory[Frame.n].next
  /\ UNCHANGED <<memoryindex, mem_low, mem_mid, direction, program, call, slots>>

(* (Mutant: the old cell is not marked.) *)
CopyDoneUnmarked ==
  /\ pc = "return" /\ calls # <<>> /\ Frame.at = "next"
  /\ memory' = [memory EXCEPT ![Frame.temp].next = reg]
  /\ calls' = SubSeq(calls, 1, Len(calls) - 1)
  /\ reg' = Frame.temp
  /\ UNCHANGED <<memoryindex, mem_low, mem_mid, direction, program, pc, call, slots>>

CopyDone ==
  /\ pc = "return" /\ calls # <<>> /\ Frame.at = "next"
  /\ memory' = [memory EXCEPT ![Frame.temp].next = reg,
                              ![Frame.n] = Node("COPIED_", Frame.temp, @.next)]
  /\ calls' = SubSeq(calls, 1, Len(calls) - 1)
  /\ reg' = Frame.temp
  /\ UNCHANGED <<memoryindex, mem_low, mem_mid, direction, program, pc, call, slots>>

(* The end of gc_, or of the call of newnode that found its half full. *)
GcDone ==
  /\ pc = "roots" /\ slots = <<>>
  /\ IF call = NoCall
     THEN pc' = "run" /\ UNCHANGED <<mem, program, call, slots, calls, reg>>
     ELSE IF NoRoom THEN Exhausted
     ELSE /\ Allocate(memory, call)
          /\ pc' = "run" /\ call' = NoCall
          /\ UNCHANGED <<body, defining, slots, calls, reg>>

-----------------------------------------------------------------------------
(* The reader: a program, or the bodies of a definition block. *)
Idle    == \A x \in Roots \ {"stk", "prog"} : root[x] = NULL
Reading == pc = "run" /\ reading # <<>> /\ Phase # "run"
Still   == UNCHANGED <<body, defining>>

Readterm ==
  /\ pc = "run" /\ reading = <<>> /\ Idle /\ bucket = NULL /\ current = NULL
  /\ NewNode(memory, "LIST_", NULL, root["stk"], "header") /\ Still

ReadList ==
  /\ Reading /\ Phase # "end"
  /\ NewNode(memory, "LIST_", NULL, root["stk"], "header") /\ Still

ReadNumber ==
  /\ Reading /\ Phase # "end"
  /\ \E i \in Numbers : NewNode(memory, "INTEGER_", i, root["stk"], "factor")
  /\ Still

(* dump = newnode(LIST_, stk->u, dump): the end of the term is on dump. *)
ReadEnd ==
  /\ Reading /\ Phase = "end"
  /\ NewNode(memory, "LIST_", Top.u, root["dump"], "end") /\ Still

Closed == IF Phase = "more" THEN [root EXCEPT !["dump"] = memory[@].next] ELSE root

(* A list is a factor of the term around it. *)
CloseList ==
  /\ Reading /\ Phase # "end" /\ Len(reading) > 1
  /\ LET s      == root["stk"]
         header == Top.next
         dump   == Closed["dump"]
         last   == memory[dump].u
     IN  IF Outer[Len(Outer)] = "first"
         THEN /\ memory' = [memory EXCEPT ![header].u = s, ![s].next = NULL]
              /\ reading' = [Outer EXCEPT ![Len(Outer)] = "end"]
              /\ root' = [Closed EXCEPT !["stk"] = header]
         ELSE /\ memory' = [memory EXCEPT ![last].next = s, ![s].next = NULL, ![dump].u = s]
              /\ reading' = Outer
              /\ root' = [Closed EXCEPT !["stk"] = header]
  /\ UNCHANGED <<memoryindex, mem_low, mem_mid, direction, body, defining, current, bucket, gc>>

CloseProgram ==
  /\ Reading /\ Phase # "end" /\ Len(reading) = 1 /\ ~defining
  /\ root' = [Closed EXCEPT !["prog"] = Top.u, !["stk"] = Top.next, !["conts"] = NULL]
  /\ reading' = IF Top.u = NULL THEN <<>> ELSE <<"run">>
  /\ UNCHANGED <<mem, body, defining, current, bucket, gc>>

CloseDefinition ==
  /\ Reading /\ Phase # "end" /\ Len(reading) = 1 /\ defining
  /\ \E n \in Names : body' = [body EXCEPT ![n] = Top.u]
  /\ root' = [Closed EXCEPT !["stk"] = Top.next]
  /\ reading' = <<>>
  /\ UNCHANGED <<mem, defining, current, bucket, gc>>

(* main: inimem1, compound_def, inimem2. *)
BeginDefinitions ==
  /\ pc = "run" /\ reading = <<>> /\ ~defining /\ Idle /\ bucket = NULL /\ current = NULL
  /\ root' = [x \in Roots |-> IF x = "prog" THEN root["prog"] ELSE NULL]
  /\ direction' = 1 /\ memoryindex' = mem_low /\ defining' = TRUE
  /\ UNCHANGED <<memory, mem_low, mem_mid, body, reading, current, bucket, gc>>

(* (Mutant: mem_mid stays where it was.) *)
EndDefinitionsOldMid ==
  /\ pc = "run" /\ reading = <<>> /\ defining
  /\ mem_low' = memoryindex /\ defining' = FALSE
  /\ UNCHANGED <<memory, memoryindex, mem_mid, direction, root, body, reading, current, bucket, gc>>

(* Definitions of more than half the memory put the end of the lower half   *)
(* past the array, where no collection is triggered: exhaustion as well.   *)
EndDefinitions ==
  /\ pc = "run" /\ reading = <<>> /\ defining
  /\ IF memoryindex + MEM_HIGH \div 2 > MEM_HIGH THEN Exhausted
     ELSE /\ mem_low' = memoryindex /\ mem_mid' = memoryindex + MEM_HIGH \div 2
          /\ defining' = FALSE
          /\ UNCHANGED <<memory, memoryindex, direction, root, body, reading, current, bucket, gc>>

-----------------------------------------------------------------------------
(* The evaluator, as far as it moves nodes. *)
Mapping == root["dump2"] # NULL
Running ==
  /\ pc = "run" /\ reading = <<>> /\ ~defining
  /\ bucket = NULL /\ current = NULL
  /\ Mapping <=> root["dump3"] # NULL
Holding == root["stk"] # NULL
OnList  == Holding /\ Top.op = "LIST_"

(* exeterm: of the program, and of a definition's body. *)
Enter ==
  /\ \/ pc = "run" /\ reading = <<"run">> /\ NewNode(memory, "LIST_", root["prog"], root["conts"], "conts")
     \/ /\ Running
        /\ \E n \in Names : body[n] # NULL /\ NewNode(memory, "LIST_", body[n], root["conts"], "conts")
  /\ Still

(* A literal of the program that runs. *)
Literal ==
  /\ Running /\ root["conts"] # NULL /\ Dmp("conts") # NULL
  /\ LET stepper == memory[Dmp("conts")]
     IN  NewNode([memory EXCEPT ![root["conts"]].u = stepper.next],
                 stepper.op, stepper.u, root["stk"], "literal")
  /\ Still

SetRoots(r) == root' = r /\ UNCHANGED <<mem, body, reading, defining, current, bucket, gc>>

Leave ==
  /\ Running /\ root["conts"] # NULL /\ Dmp("conts") = NULL
  /\ SetRoots([root EXCEPT !["conts"] = memory[@].next])

Pop     == Running /\ Holding /\ SetRoots([root EXCEPT !["stk"] = memory[@].next])
Unstack == Running /\ OnList /\ SetRoots([root EXCEPT !["stk"] = memory[@].u])

Stack == Running /\ NewNode(memory, "LIST_", root["stk"], root["stk"], "stk") /\ Still
Rest ==
  /\ Running /\ OnList /\ Top.u # NULL
  /\ NewNode(memory, "LIST_", memory[Top.u].next, Top.next, "stk") /\ Still

(* LIST_NEWNODE(newnode(ELEM->op, ELEM->u, AGGR->u.lis), stk->next->next) *)
Cons_ ==
  /\ Running /\ OnList /\ Top.next # NULL
  /\ LET elem == memory[Top.next] IN NewNode(memory, elem.op, elem.u, Top.u, "bucket")
  /\ Still
ConsList ==
  /\ pc = "run" /\ bucket # NULL
  /\ NewNode(memory, "LIST_", bucket, memory[Top.next].next, "stk") /\ Still

(* SAVESTACK; a result on the saved stack; POP(dump). *)
Save    == Running /\ NewNode(memory, "LIST_", root["stk"], root["dump"], "dump") /\ Still
Restore ==
  /\ Running /\ Holding /\ root["dump"] # NULL
  /\ NewNode(memory, Top.op, Top.u, Dmp("dump"), "stk") /\ Still
PopDump == Running /\ root["dump"] # NULL /\ SetRoots([root EXCEPT !["dump"] = memory[@].next])

(* The operators that change nodes of the stack in place, whoever else      *)
(* holds them: after unstack they can be nodes of a definition.            *)
Writes(h) == memory' = h /\ UNCHANGED <<memoryindex, mem_low, mem_mid, direction, program, gc>>

(* app11, after app1: the node below the result is cut out.                *)
App11 ==
  /\ Running /\ Holding /\ Top.next # NULL
  /\ Writes([memory EXCEPT ![root["stk"]].next = memory[Top.next].next])

(* concat of two strings, which are numbers here, leaves both of them empty. *)
EMPTY == 0
ConcatString ==
  /\ Running /\ Holding /\ Top.next # NULL
  /\ Top.op = "INTEGER_" /\ memory[Top.next].op = "INTEGER_"
  /\ \E s \in Numbers :
       NewNode([memory EXCEPT ![root["stk"]].u = EMPTY, ![Top.next].u = EMPTY],
               "INTEGER_", s, memory[Top.next].next, "stk")
  /\ Still

(* while: stk = SAVED3, and SAVED3 = stk.  SAVED3 is a field of the node of *)
(* the test; the stack below the test may be the one that led to it.       *)
Test == memory[Dmp("dump")].next
InWhile ==
  /\ Running /\ root["dump"] # NULL
  /\ Dmp("dump") # NULL /\ memory[Dmp("dump")].op = "LIST_"
  /\ Test # NULL /\ memory[Test].op = "LIST_"
WhileAgain == InWhile /\ SetRoots([root EXCEPT !["stk"] = memory[Test].next])
WhileStore ==
  /\ InWhile
  /\ (Test < mem_low \/ Test \in Reachable(memory, 0, {root["stk"]})) => "while" \in Unsafe
  /\ Writes([memory EXCEPT ![Test].next = root["stk"]])

(* map: dump2 and dump3 are opened, filled and closed. *)
MapOpen ==
  /\ Running /\ ~Mapping
  /\ NewNode(memory, "LIST_", NULL, root["dump2"], "dump2") /\ Still
MapOpenLast ==
  /\ pc = "run" /\ Mapping /\ root["dump3"] = NULL
  /\ NewNode(memory, "LIST_", NULL, root["dump3"], "dump3") /\ Still
MapCollect ==
  /\ Running /\ Mapping /\ Holding
  /\ NewNode(memory, Top.op, Top.u, NULL, IF Dmp("dump2") = NULL THEN "DMP2" ELSE "DMP3->next")
  /\ Still
MapClose ==
  /\ Running /\ Mapping
  /\ NewNode(memory, "LIST_", Dmp("dump2"), root["stk"], "mapped") /\ Still

(* primrec: the stack is saved, the members of the list are pushed. *)
Primrec ==
  /\ Running /\ OnList
  /\ NewNode(memory, "LIST_", root["stk"], root["dump"], "primrec") /\ Still
PrimrecMember ==
  /\ pc = "run" /\ current # NULL
  /\ memoryindex = mem_mid => "primrec" \in Unsafe
  /\ NewNode(memory, memory[current].op, memory[current].u, root["stk"], "member") /\ Still

Gc_ ==
  /\ Running /\ Gc1(NoCall, <<>>)
  /\ UNCHANGED <<memory, program>>

(* abortexecution_, called by programs, run time errors and the reader. *)
Abort ==
  /\ pc = "run" /\ bucket = NULL /\ current = NULL /\ reading # <<"run">>
  /\ defining => "definition" \in Unsafe
  /\ root' = [x \in Roots |-> IF x \in {"stk", "prog"} THEN root[x] ELSE NULL]
  /\ reading' = <<>> /\ defining' = FALSE
  /\ UNCHANGED <<mem, body, current, bucket, gc>>

Collector == SkipNull \/ CopyNext \/ SlotDone \/ CopySettled \/ CopyCell \/ CopyTail \/ CopyDone \/ GcDone
Reader    == Readterm \/ ReadList \/ ReadNumber \/ ReadEnd \/ CloseList \/ CloseProgram
             \/ CloseDefinition \/ BeginDefinitions \/ EndDefinitions
Evaluator == Enter \/ Literal \/ Leave \/ Pop \/ Unstack \/ Stack \/ Rest \/ Cons_ \/ ConsList
             \/ App11 \/ ConcatString \/ WhileAgain \/ WhileStore
             \/ Save \/ Restore \/ PopDump \/ MapOpen \/ MapOpenLast \/ MapCollect \/ MapClose
             \/ Primrec \/ PrimrecMember \/ Gc_ \/ Abort

Next == Collector \/ Reader \/ Evaluator
Spec == Init /\ [][Next]_vars

-----------------------------------------------------------------------------
(* Types of memory, roots and the collector's machine.  The cell of a list  *)
(* keeps what it held before until copy has gone through the members.      *)
Filling == {calls[i].temp : i \in {j \in DOMAIN calls : calls[j].at = "u"}}
TypeOK ==
  /\ memory \in [Addr -> Cell]
  /\ \A a \in Addr \ Filling : memory[a].op \in {"LIST_", "COPIED_"} => memory[a].u \in Ptr
  /\ memoryindex \in -1 .. MEMORYMAX /\ direction \in {-1, 1}
  /\ mem_low \in Addr /\ mem_mid \in Addr /\ mem_mid = mem_low + MEM_HIGH \div 2
  /\ root \in [Roots -> Ptr] /\ body \in [Names -> Ptr]
  /\ current \in Ptr /\ bucket \in Ptr
  /\ reading \in Seq({"first", "end", "more", "run"}) /\ defining \in BOOLEAN
  /\ pc \in {"run", "roots", "call", "return", "full"}
  /\ calls \in Seq([n : Addr, temp : Addr, at : {"u", "next"}])
  /\ slots \in Seq(Roots \cup {"u", "r"}) /\ reg \in Ptr

(* copy prints "illegal node" for a cell that was never written, exeterm    *)
(* "attempting to execute bad node" for one that has moved.  Neither is     *)
(* met: between collections no pointer leads out of what newnode has given, *)
(* wherever the program follows it, and nothing given is left a mark.       *)
NoBadNode ==
  /\ pc = "call" /\ reg # NULL => memory[reg].op # "ILLEGAL_"
  /\ pc = "run" =>
       /\ \A x \in Roots \ {"prog"} : Allocated(root[x])
       /\ \A n \in Names : Allocated(body[n])
       /\ \A a \in Addr : Allocated(a) =>
            /\ memory[a].op \in {"INTEGER_", "LIST_"} /\ Allocated(memory[a].next)
            /\ memory[a].op = "LIST_" => Allocated(memory[a].u)

(* The cells of the definitions, which the collector neither moves nor      *)
(* marks and whose pointers it does not follow, lead to one another only,  *)
(* also when app11 or concat has changed them in place.                    *)
DefinitionsClosed ==
  pc # "full" => \A a \in 0 .. mem_low - 1 :
    memory[a].op \in {"INTEGER_", "LIST_"} /\ \A p \in Links(memory, a) : p < mem_low
=============================================================================
