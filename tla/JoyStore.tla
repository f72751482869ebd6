------------------------------ MODULE JoyStore ------------------------------
(***************************************************************************)
(* What newnode and the collector promise the rest of the Joy interpreter: *)
(* the registers and the dumps hold terms, which stay as they are until    *)
(* the program changes them.  There is no memory, nothing is moved, and     *)
(* nothing ends when memory does.  What is shared matters only to the      *)
(* operators that change a node in place: they change the terms that       *)
(* others hold as well.                                                    *)
(***************************************************************************)
EXTENDS Integers, Sequences

CONSTANTS Numbers, Names

(* A term is a sequence of numbers and lists. *)
Number(i) == [op |-> "INTEGER_", u |-> i]
List(t)   == [op |-> "LIST_", u |-> t]

VARIABLES
  stk, prog, conts, dump, dump2, dump3,
  members,  \* what primrec has yet to push
  meaning,  \* the bodies of the definitions
  shared    \* which nodes that operators change others hold as well; only read

vars == <<stk, prog, conts, dump, dump2, dump3, members, meaning>>

Init ==
  /\ stk = <<>> /\ prog = <<>> /\ conts = <<>>
  /\ dump = <<>> /\ dump2 = <<>> /\ dump3 = <<>>
  /\ members = <<>> /\ meaning = [n \in Names |-> <<>>]

Top       == Head(stk)
Under     == Tail(stk)
Snoc(l, x) == List(Append(l.u, x))

OnlyStk(s) == stk' = s /\ UNCHANGED <<prog, conts, dump, dump2, dump3, members, meaning>>

(* The reader: the end of each term that has begun is on dump. *)
Open == OnlyStk(<<List(<<>>)>> \o stk)
Extend(outer, x, below, ends) ==
  /\ stk' = <<Snoc(outer, x)>> \o below
  /\ dump' = IF outer.u = <<>> THEN ends ELSE <<List(<<x>>)>> \o Tail(ends)
Ends == IF Top.u = <<>> THEN dump ELSE Tail(dump)

ReadNumber ==
  /\ stk # <<>> /\ Top.op = "LIST_"
  /\ \E i \in Numbers : Extend(Top, Number(i), Under, dump)
  /\ UNCHANGED <<prog, conts, dump2, dump3, members, meaning>>
ReadEnd ==
  /\ stk # <<>> /\ Top.op = "LIST_" /\ Len(Top.u) = 1 /\ dump' = <<Top>> \o dump
  /\ UNCHANGED <<stk, prog, conts, dump2, dump3, members, meaning>>
CloseList ==
  /\ Len(stk) > 1 /\ Top.op = "LIST_" /\ stk[2].op = "LIST_"
  /\ Extend(stk[2], Top, Tail(Under), Ends)
  /\ UNCHANGED <<prog, conts, dump2, dump3, members, meaning>>
CloseProgram ==
  /\ stk # <<>> /\ Top.op = "LIST_"
  /\ prog' = Top.u /\ stk' = Under /\ dump' = Ends /\ conts' = <<>>
  /\ UNCHANGED <<dump2, dump3, members, meaning>>
CloseDefinition ==
  /\ stk # <<>> /\ Top.op = "LIST_"
  /\ \E n \in Names : meaning' = [meaning EXCEPT ![n] = Top.u]
  /\ stk' = Under /\ dump' = Ends
  /\ UNCHANGED <<prog, conts, dump2, dump3, members>>
(* A definition block and an abort. *)
Abandon ==
  /\ stk' \in {stk, <<>>} /\ prog' = <<>>
  /\ conts' = <<>> /\ dump' = <<>> /\ dump2' = <<>> /\ dump3' = <<>>
  /\ UNCHANGED <<members, meaning>>

(* The evaluator. *)
Enter ==
  /\ \/ prog # <<>> /\ conts' = <<List(prog)>> \o conts
     \/ \E n \in Names : meaning[n] # <<>> /\ conts' = <<List(meaning[n])>> \o conts
  /\ prog' = <<>> /\ UNCHANGED <<stk, dump, dump2, dump3, members, meaning>>
Literal ==
  /\ conts # <<>> /\ Head(conts).u # <<>>
  /\ stk' = <<Head(Head(conts).u)>> \o stk
  /\ conts' = <<List(Tail(Head(conts).u))>> \o Tail(conts)
  /\ UNCHANGED <<prog, dump, dump2, dump3, members, meaning>>
Leave ==
  /\ conts # <<>> /\ Head(conts).u = <<>> /\ conts' = Tail(conts)
  /\ UNCHANGED <<stk, prog, dump, dump2, dump3, members, meaning>>

Operator ==
  \/ stk # <<>> /\ OnlyStk(Under)                                  \* pop
  \/ stk # <<>> /\ Top.op = "LIST_" /\ OnlyStk(Top.u)              \* unstack
  \/ OnlyStk(<<List(stk)>> \o stk)                                 \* stack
  \/ /\ stk # <<>> /\ Top.op = "LIST_" /\ Top.u # <<>>             \* rest
     /\ OnlyStk(<<List(Tail(Top.u))>> \o Under)
  \/ /\ Len(stk) > 1 /\ Top.op = "LIST_"                           \* cons
     /\ OnlyStk(<<List(<<stk[2]>> \o Top.u)>> \o Tail(Under))
  \/ stk # <<>> /\ dump # <<>> /\ OnlyStk(<<Top>> \o Head(dump).u) \* the end of nullary

(* app11, the concat of strings and while. *)
App11 ==
  /\ Len(stk) > 1 /\ stk' = <<Top>> \o Tail(Under) /\ UNCHANGED <<prog, members>>
  /\ shared.top \/ UNCHANGED <<conts, dump, dump2, dump3, meaning>>
(* newnode may have to collect when the strings are empty already. *)
ConcatString ==
  /\ Len(stk) > 1 /\ Top.op = "INTEGER_" /\ stk[2].op = "INTEGER_"
  /\ \/ \E i \in Numbers : stk' = <<Number(i)>> \o Tail(Under)
     \/ stk' = <<Number(0), Number(0)>> \o Tail(Under)
  /\ UNCHANGED <<prog, members>>
  /\ shared.top \/ shared.below \/ UNCHANGED <<conts, dump, dump2, dump3, meaning>>
InWhile == dump # <<>> /\ Len(Head(dump).u) > 1 /\ \A i \in 1 .. 2 : Head(dump).u[i].op = "LIST_"
WhileAgain == InWhile /\ OnlyStk(Tail(Tail(Head(dump).u)))
WhileStore ==
  /\ InWhile /\ UNCHANGED <<stk, prog, members>>
  /\ \/ shared.test
     \/ /\ dump' = <<List(SubSeq(Head(dump).u, 1, 2) \o stk)>> \o Tail(dump)
        /\ UNCHANGED <<conts, dump2, dump3, meaning>>

Save ==
  /\ dump' = <<List(stk)>> \o dump
  /\ UNCHANGED <<stk, prog, conts, dump2, dump3, members, meaning>>
PopDump ==
  /\ dump # <<>> /\ dump' = Tail(dump)
  /\ UNCHANGED <<stk, prog, conts, dump2, dump3, members, meaning>>

(* map collects its results on dump2, and the last of them on dump3. *)
MapOpen ==
  /\ \/ dump2 = <<>> /\ dump2' = <<List(<<>>)>> /\ UNCHANGED dump3
     \/ dump2 # <<>> /\ dump3 = <<>> /\ dump3' = <<List(<<>>)>> /\ UNCHANGED dump2
  /\ UNCHANGED <<stk, prog, conts, dump, members, meaning>>
MapCollect ==
  /\ dump3 # <<>> /\ stk # <<>>
  /\ dump2' = <<Snoc(Head(dump2), Top)>> /\ dump3' = <<List(<<Top>>)>>
  /\ UNCHANGED <<stk, prog, conts, dump, members, meaning>>
MapClose ==
  /\ dump3 # <<>>
  /\ stk' = <<Head(dump2)>> \o stk /\ dump2' = <<>> /\ dump3' = <<>>
  /\ UNCHANGED <<prog, conts, dump, members, meaning>>

(* primrec pushes the members of a list one after the other. *)
Primrec ==
  /\ stk # <<>> /\ Top.op = "LIST_"
  /\ dump' = <<List(stk)>> \o dump /\ members' = Top.u /\ stk' = Under
  /\ UNCHANGED <<prog, conts, dump2, dump3, meaning>>
PrimrecMember ==
  /\ members # <<>>
  /\ stk' = <<Head(members)>> \o stk /\ members' = Tail(members)
  /\ UNCHANGED <<prog, conts, dump, dump2, dump3, meaning>>

Next ==
  \/ Open \/ ReadNumber \/ ReadEnd \/ CloseList \/ CloseProgram \/ CloseDefinition \/ Abandon
  \/ Enter \/ Literal \/ Leave \/ Operator \/ Save \/ PopDump
  \/ App11 \/ ConcatString \/ WhileAgain \/ WhileStore
  \/ MapOpen \/ MapCollect \/ MapClose \/ Primrec \/ PrimrecMember

Spec == Init /\ [][Next]_vars
=============================================================================
