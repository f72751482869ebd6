-------------------------- MODULE JoyReaderProofs --------------------------
(***************************************************************************)
(* Proofs about JoyReader.  The calls of compound_def that have raised     *)
(* display_enter or display_lookup and have yet to lower it again are told *)
(* by the point they have reached; the counters count them.  So they are 0 *)
(* whenever no call is left, whatever was read, nested as deeply as it may *)
(* be; only a longjmp forgets calls without lowering the counters.  A      *)
(* second argument bounds the files that are open.                         *)
(***************************************************************************)
EXTENDS JoyReader, FiniteSetTheorems, SequenceTheorems, WellFoundedInduction, TLAPS

EnterPoints  == {"fields", "nested", "hidden"}
LookupPoints == {"fields", "hidden", "leave"}

IsSeq(s)     == \E F : s \in Seq(F)
Calls(s, P)  == {i \in 1 .. Len(s) : s[i].pc \in P}
Count(s, P)  == Cardinality(Calls(s, P))
One(f, P)    == IF f.pc \in P THEN 1 ELSE 0

LEMMA CountNat ==
  ASSUME NEW s, IsSeq(s), NEW P
  PROVE  IsFiniteSet(Calls(s, P)) /\ Count(s, P) \in Nat
<1>1. Len(s) \in Nat
  BY DEF IsSeq
<1>2. IsFiniteSet(1 .. Len(s))
  BY <1>1, FS_Interval
<1>3. IsFiniteSet(Calls(s, P))
  BY <1>2, FS_Subset DEF Calls
<1> QED
  BY <1>3, FS_CardinalityType DEF Count

LEMMA CountEmpty ==
  ASSUME NEW P
  PROVE  IsSeq(<<>>) /\ Count(<<>>, P) = 0
<1>1. IsSeq(<<>>)
  BY <<>> \in Seq({}) DEF IsSeq
<1>2. Calls(<<>>, P) = {}
  BY DEF Calls
<1> QED
  BY <1>1, <1>2, FS_EmptySet DEF Count

LEMMA ShorterLength ==
  ASSUME NEW n \in Nat, n # 0
  PROVE  (IF 1 <= n - 1 THEN n - 1 - 1 + 1 ELSE 0) = n - 1
OBVIOUS

(* A call more. *)
LEMMA CountAppend ==
  ASSUME NEW s, IsSeq(s), NEW f, NEW P
  PROVE  IsSeq(Append(s, f)) /\ Count(Append(s, f), P) = Count(s, P) + One(f, P)
<1> DEFINE t == Append(s, f)  n == Len(s) + 1
<1>1. PICK F : s \in Seq(F)
  BY DEF IsSeq
<1>2. s \in Seq(F \cup {f}) /\ f \in F \cup {f}
  BY <1>1
<1>3. t \in Seq(F \cup {f}) /\ Len(t) = n /\ n \in Nat /\ t[n] = f
  BY <1>2
<1>4. \A i \in 1 .. Len(s) : t[i] = s[i]
  BY <1>2
<1>5. Calls(t, P) = IF f.pc \in P THEN Calls(s, P) \cup {n} ELSE Calls(s, P)
  BY <1>1, <1>3, <1>4 DEF Calls
<1>6. n \notin Calls(s, P)
  BY <1>1 DEF Calls
<1>7. IsFiniteSet(Calls(s, P)) /\ Count(s, P) \in Nat
  BY CountNat
<1>8. CASE f.pc \in P
  <2>1. Calls(t, P) = Calls(s, P) \cup {n}
    BY <1>5, <1>8
  <2>2. Cardinality(Calls(s, P) \cup {n}) = Cardinality(Calls(s, P)) + 1
    BY <1>6, <1>7, FS_AddElement
  <2> QED
    BY <2>1, <2>2, <1>3, <1>8 DEF Count, One, IsSeq
<1>9. CASE f.pc \notin P
  <2>1. Calls(t, P) = Calls(s, P)
    BY <1>5, <1>9
  <2> QED
    BY <2>1, <1>3, <1>7, <1>9 DEF Count, One, IsSeq
<1> QED
  BY <1>8, <1>9

(* The innermost call returns. *)
LEMMA CountReturn ==
  ASSUME NEW s, IsSeq(s), s # <<>>, NEW P
  PROVE  /\ IsSeq(SubSeq(s, 1, Len(s) - 1))
         /\ Count(SubSeq(s, 1, Len(s) - 1), P) = Count(s, P) - One(s[Len(s)], P)
<1> DEFINE r == SubSeq(s, 1, Len(s) - 1)
<1>1. PICK F : s \in Seq(F)
  BY DEF IsSeq
<1>2. Len(s) \in Nat \ {0}
  BY <1>1
<1>3. r \in Seq(F) /\ s[Len(s)] \in F /\ s = Append(r, s[Len(s)])
  BY <1>1, <1>2
<1>4. IsSeq(r)
  BY <1>3 DEF IsSeq
<1>5. Count(s, P) = Count(r, P) + One(s[Len(s)], P)
  BY <1>3, <1>4, CountAppend
<1>6. Count(r, P) \in Nat /\ One(s[Len(s)], P) \in Nat
  BY <1>4, CountNat DEF One
<1> QED
  BY <1>4, <1>5, <1>6

(* A sequence whose last element is replaced. *)
LEMMA LastReplaced ==
  ASSUME NEW s, IsSeq(s), s # <<>>, NEW f
  PROVE  /\ IsSeq(SubSeq(s, 1, Len(s) - 1))
         /\ [s EXCEPT ![Len(s)] = f] = Append(SubSeq(s, 1, Len(s) - 1), f)
<1> DEFINE r == SubSeq(s, 1, Len(s) - 1)
<1>1. PICK F : s \in Seq(F)
  BY DEF IsSeq
<1>2. s \in Seq(F \cup {f}) /\ f \in F \cup {f}
  BY <1>1
<1>0. Len(s) \in Nat /\ Len(s) # 0
  BY <1>1
<1>3. r \in Seq(F \cup {f}) /\ Len(r) = Len(s) - 1 /\ \A i \in 1 .. Len(s) - 1 : r[i] = s[i]
  <2>1. 1 \in Int /\ Len(s) - 1 \in Int /\ \A i \in 1 .. Len(s) - 1 : s[i] \in F \cup {f}
    BY <1>0, <1>2
  <2>2. /\ r \in Seq(F \cup {f})
        /\ Len(r) = IF 1 <= Len(s) - 1 THEN Len(s) - 1 - 1 + 1 ELSE 0
        /\ \A i \in 1 .. Len(s) - 1 - 1 + 1 : r[i] = s[1 + i - 1]
    BY <2>1, SubSeqProperties
  <2> HIDE DEF r
  <2>3. Len(s) - 1 - 1 + 1 = Len(s) - 1 /\ (\A i \in 1 .. Len(s) - 1 : 1 + i - 1 = i)
    BY <1>0
  <2>4. Len(r) = Len(s) - 1
    <3>1. Len(r) = IF 1 <= Len(s) - 1 THEN Len(s) - 1 - 1 + 1 ELSE 0
      BY <2>2
    <3> QED
      BY <3>1, <1>0, ShorterLength
  <2> QED
    BY <2>2, <2>3, <2>4
<1> DEFINE e == [s EXCEPT ![Len(s)] = f]  t == Append(r, f)
<1>6. e \in Seq(F \cup {f}) /\ Len(e) = Len(s) /\ e[Len(s)] = f
  BY <1>0, <1>2
<1>7. \A i \in 1 .. Len(s) - 1 : e[i] = s[i]
  BY <1>0, <1>2
<1>8. t \in Seq(F \cup {f}) /\ Len(t) = Len(s) /\ t[Len(s)] = f
  BY <1>0, <1>2, <1>3
<1>9. \A i \in 1 .. Len(s) - 1 : t[i] = s[i]
  BY <1>0, <1>2, <1>3
<1>10. e = t
  <2> HIDE DEF e, t, r
  <2>1. \A i \in 1 .. Len(s) : e[i] = t[i]
    BY <1>0, <1>6, <1>7, <1>8, <1>9
  <2> QED
    BY <2>1, <1>6, <1>8, <1>0
<1> QED
  BY <1>3, <1>10 DEF IsSeq

(* The innermost call goes on. *)
LEMMA CountGoto ==
  ASSUME NEW s, IsSeq(s), s # <<>>, NEW f, NEW P
  PROVE  /\ IsSeq([s EXCEPT ![Len(s)] = f])
         /\ Count([s EXCEPT ![Len(s)] = f], P) = Count(s, P) - One(s[Len(s)], P) + One(f, P)
<1> DEFINE r == SubSeq(s, 1, Len(s) - 1)
<1>1. IsSeq(r) /\ Count(r, P) = Count(s, P) - One(s[Len(s)], P)
  BY CountReturn
<1>2. IsSeq(Append(r, f)) /\ Count(Append(r, f), P) = Count(r, P) + One(f, P)
  BY <1>1, CountAppend
<1>3. [s EXCEPT ![Len(s)] = f] = Append(r, f)
  BY LastReplaced
<1> QED
  BY <1>1, <1>2, <1>3

-----------------------------------------------------------------------------
(* What each way of going on does to the two counts.                       *)
At1(k, P) == IF k \in P THEN 1 ELSE 0

LEMMA GotoCounts ==
  ASSUME IsSeq(frames), frames # <<>>, NEW k, NEW loc, Goto(k, loc), NEW P
  PROVE  /\ IsSeq(frames')
         /\ Count(frames', P) = Count(frames, P) - At1(Top.pc, P) + At1(k, P)
<1> DEFINE g == [frames EXCEPT ![Len(frames)] = At(k, loc)]
<1>1. At(k, loc).pc = k
  BY DEF At
<1>2. IsSeq(g) /\ Count(g, P) = Count(frames, P) - At1(Top.pc, P) + At1(k, P)
  BY <1>1, CountGoto DEF Top, One, At1
<1>3. frames' = g
  BY DEF Goto
<1> QED
  BY <1>2, <1>3

LEMMA CallCounts ==
  ASSUME IsSeq(frames), frames # <<>>, NEW p, NEW k, NEW loc, CallFrom(p, k, loc),
         NEW P, "start" \notin P
  PROVE  /\ IsSeq(frames')
         /\ Count(frames', P) = Count(frames, P) - At1(Top.pc, P) + At1(k, P)
<1> DEFINE g == [frames EXCEPT ![Len(frames)] = At(k, loc)]
<1>1. At(k, loc).pc = k /\ Frame(p).pc = "start"
  BY DEF At, Frame
<1>2. IsSeq(g) /\ Count(g, P) = Count(frames, P) - At1(Top.pc, P) + At1(k, P)
  BY <1>1, CountGoto DEF Top, One, At1
<1>3. frames' = Append(g, Frame(p))
  BY DEF CallFrom
<1> HIDE DEF g
<1>4. IsSeq(frames') /\ Count(frames', P) = Count(g, P) + One(Frame(p), P)
  BY <1>2, <1>3, CountAppend
<1>5. One(Frame(p), P) = 0 /\ Count(g, P) \in Nat
  BY <1>1, <1>2, CountNat DEF One
<1> QED
  BY <1>2, <1>4, <1>5

LEMMA ReturnCounts ==
  ASSUME IsSeq(frames), frames # <<>>, Return, NEW P
  PROVE  /\ IsSeq(frames')
         /\ Count(frames', P) = Count(frames, P) - At1(Top.pc, P)
BY CountReturn DEF Return, Callers, Top, One, At1

LEMMA BecomeCounts ==
  ASSUME IsSeq(frames), frames # <<>>, NEW p, Become(p), NEW P, "start" \notin P
  PROVE  /\ IsSeq(frames')
         /\ Count(frames', P) = Count(frames, P) - At1(Top.pc, P)
<1>1. Frame(p).pc = "start"
  BY DEF Frame
<1> DEFINE g == [frames EXCEPT ![Len(frames)] = Frame(p)]
<1>2. IsSeq(g) /\ Count(g, P) = Count(frames, P) - At1(Top.pc, P) + 0
  BY <1>1, CountGoto DEF Top, One, At1
<1>3. frames' = g
  BY DEF Become
<1>4. Count(frames, P) \in Nat /\ At1(Top.pc, P) \in Nat
  BY CountNat DEF At1
<1> HIDE DEF g
<1> QED
  BY <1>2, <1>3, <1>4

-----------------------------------------------------------------------------
(***************************************************************************)
(* The inductive invariant.  Outside of calls the counts are 0, which is   *)
(* what SectionsClosed says of the counters.                               *)
(***************************************************************************)
Balanced ==
  /\ display_enter = Count(frames, EnterPoints)
  /\ display_lookup = Count(frames, LookupPoints)

Nesting ==
  /\ IsSeq(frames)
  /\ aborted \in BOOLEAN
  /\ status \in {"start", "idle", "input"} => frames = <<>>
  /\ ~aborted /\ status # "crashed" => Balanced

(* The points that no section is open at. *)
Plain(k) == k \notin EnterPoints \cup LookupPoints

(* A step that moves between such points, or calls from one, keeps both.   *)
LEMMA PlainGoto ==
  ASSUME Nesting, frames # <<>>, NEW k, NEW loc, Goto(k, loc), Plain(Top.pc), Plain(k),
         UNCHANGED <<display_enter, display_lookup, status, aborted>>
  PROVE  Nesting'
<1>1. IsSeq(frames) /\ IsSeq(frames')
  BY GotoCounts DEF Nesting
<1>2. /\ Count(frames', EnterPoints) = Count(frames, EnterPoints) - 0 + 0
      /\ Count(frames', LookupPoints) = Count(frames, LookupPoints) - 0 + 0
  BY <1>1, GotoCounts DEF Plain, At1
<1>3. Count(frames, EnterPoints) \in Nat /\ Count(frames, LookupPoints) \in Nat
  BY <1>1, CountNat
<1> QED
  BY <1>1, <1>2, <1>3 DEF Nesting, Balanced

LEMMA PlainCall ==
  ASSUME Nesting, frames # <<>>, NEW p, NEW k, NEW loc, CallFrom(p, k, loc), Plain(Top.pc), Plain(k),
         UNCHANGED <<display_enter, display_lookup, status, aborted>>
  PROVE  Nesting'
<1>1. "start" \notin EnterPoints /\ "start" \notin LookupPoints
  BY DEF EnterPoints, LookupPoints
<1>2. IsSeq(frames) /\ IsSeq(frames')
  BY <1>1, CallCounts DEF Nesting
<1>3. /\ Count(frames', EnterPoints) = Count(frames, EnterPoints) - 0 + 0
      /\ Count(frames', LookupPoints) = Count(frames, LookupPoints) - 0 + 0
  BY <1>1, <1>2, CallCounts DEF Plain, At1
<1>4. Count(frames, EnterPoints) \in Nat /\ Count(frames, LookupPoints) \in Nat
  BY <1>2, CountNat
<1> QED
  BY <1>2, <1>3, <1>4 DEF Nesting, Balanced

LEMMA PlainReturn ==
  ASSUME Nesting, frames # <<>>, Return, Plain(Top.pc),
         UNCHANGED <<display_enter, display_lookup, status, aborted>>
  PROVE  Nesting'
<1>1. IsSeq(frames) /\ IsSeq(frames')
  BY ReturnCounts DEF Nesting
<1>2. /\ Count(frames', EnterPoints) = Count(frames, EnterPoints) - 0
      /\ Count(frames', LookupPoints) = Count(frames, LookupPoints) - 0
  BY <1>1, ReturnCounts DEF Plain, At1
<1>3. Count(frames, EnterPoints) \in Nat /\ Count(frames, LookupPoints) \in Nat
  BY <1>1, CountNat
<1> QED
  BY <1>1, <1>2, <1>3 DEF Nesting, Balanced

LEMMA StopsCalls ==
  ASSUME NEW st, frames' = <<>>, status' = st,
         aborted' = TRUE \/ (st = "crashed" /\ aborted' = aborted /\ aborted \in BOOLEAN)
  PROVE  Nesting'
<1>1. IsSeq(<<>>)
  BY CountEmpty
<1> QED
  BY <1>1 DEF Nesting

-----------------------------------------------------------------------------
LEMMA NestingInit == Init => Nesting
<1>1. IsSeq(<<>>) /\ \A P : Count(<<>>, P) = 0
  BY CountEmpty
<1> QED
  BY <1>1 DEF Init, Nesting, Balanced

(* Steps that neither call nor return. *)
LEMMA KeepsNesting ==
  ASSUME Nesting, UNCHANGED <<frames, display_enter, display_lookup, aborted>>,
         status' \in {"start", "idle", "input"} => frames = <<>>,
         status' = status \/ status # "crashed"
  PROVE  Nesting'
BY DEF Nesting, Balanced

(* The sections: one step per place where compound_def moves a counter.    *)
LEMMA ModuleNesting == ASSUME Nesting, Module PROVE Nesting'
<1>1. "start" \notin EnterPoints /\ "start" \notin LookupPoints /\ IsSeq(frames)
  BY DEF EnterPoints, LookupPoints, Nesting
<1>2. Count(frames, EnterPoints) \in Nat /\ Count(frames, LookupPoints) \in Nat
  BY <1>1, CountNat
<1>3. CASE In("compound_def", "module") /\ Abort
  BY <1>3, StopsCalls DEF Abort
<1>4. ASSUME NEW loc, In("compound_def", "module"), CallFrom("compound_def", "fields", loc),
             display_enter' = display_enter + 1, display_lookup' = display_lookup + 1,
             UNCHANGED <<status, aborted>>
      PROVE  Nesting'
  <2>1. frames # <<>> /\ Top.pc = "module"
    BY <1>4 DEF In
  <2>2. IsSeq(frames') /\ Count(frames', EnterPoints) = Count(frames, EnterPoints) - 0 + 1
    BY <1>1, <1>4, <2>1, CallCounts DEF At1, EnterPoints
  <2>3. Count(frames', LookupPoints) = Count(frames, LookupPoints) - 0 + 1
    BY <1>1, <1>4, <2>1, CallCounts DEF At1, LookupPoints
  <2> QED
    BY <1>2, <1>4, <2>1, <2>2, <2>3 DEF Nesting, Balanced
<1>5. ASSUME In("compound_def", "fields"), Return,
             display_enter' = display_enter - 1, display_lookup' = display_lookup - 1,
             UNCHANGED <<status, aborted>>
      PROVE  Nesting'
  <2>1. frames # <<>> /\ Top.pc = "fields"
    BY <1>5 DEF In
  <2>2. IsSeq(frames') /\ Count(frames', EnterPoints) = Count(frames, EnterPoints) - 1
    BY <1>1, <1>5, <2>1, ReturnCounts DEF At1, EnterPoints
  <2>3. Count(frames', LookupPoints) = Count(frames, LookupPoints) - 1
    BY <1>1, <1>5, <2>1, ReturnCounts DEF At1, LookupPoints
  <2> QED
    BY <1>2, <1>5, <2>1, <2>2, <2>3 DEF Nesting, Balanced
<1> QED
  BY <1>3, <1>4, <1>5 DEF Module, CallWith, Same

LEMMA HideNesting == ASSUME Nesting, Hide PROVE Nesting'
<1>1. "start" \notin EnterPoints /\ "start" \notin LookupPoints /\ IsSeq(frames)
  BY DEF EnterPoints, LookupPoints, Nesting
<1>2. Count(frames, EnterPoints) \in Nat /\ Count(frames, LookupPoints) \in Nat
  BY <1>1, CountNat
<1>3. ASSUME NEW loc, In("compound_def", "hide"), CallFrom("defsequence", "nested", loc),
             display_enter' = display_enter + 1, UNCHANGED <<display_lookup, status, aborted>>
      PROVE  Nesting'
  <2>1. frames # <<>> /\ Top.pc = "hide"
    BY <1>3 DEF In
  <2>2. IsSeq(frames') /\ Count(frames', EnterPoints) = Count(frames, EnterPoints) - 0 + 1
    BY <1>1, <1>3, <2>1, CallCounts DEF At1, EnterPoints
  <2>3. Count(frames', LookupPoints) = Count(frames, LookupPoints) - 0 + 0
    BY <1>1, <1>3, <2>1, CallCounts DEF At1, LookupPoints
  <2> QED
    BY <1>2, <1>3, <2>1, <2>2, <2>3 DEF Nesting, Balanced
<1>4. ASSUME NEW loc, In("compound_def", "hide"), CallFrom("defsequence", "hidden", loc),
             display_enter' = display_enter + 1, display_lookup' = display_lookup + 1,
             UNCHANGED <<status, aborted>>
      PROVE  Nesting'
  <2>1. frames # <<>> /\ Top.pc = "hide"
    BY <1>4 DEF In
  <2>2. IsSeq(frames') /\ Count(frames', EnterPoints) = Count(frames, EnterPoints) - 0 + 1
    BY <1>1, <1>4, <2>1, CallCounts DEF At1, EnterPoints
  <2>3. Count(frames', LookupPoints) = Count(frames, LookupPoints) - 0 + 1
    BY <1>1, <1>4, <2>1, CallCounts DEF At1, LookupPoints
  <2> QED
    BY <1>2, <1>4, <2>1, <2>2, <2>3 DEF Nesting, Balanced
<1>5. ASSUME NEW loc, In("compound_def", "nested"), CallFrom("compound_def", "restore", loc),
             display_enter' = display_enter - 1, UNCHANGED <<display_lookup, status, aborted>>
      PROVE  Nesting'
  <2>1. frames # <<>> /\ Top.pc = "nested"
    BY <1>5 DEF In
  <2>2. IsSeq(frames') /\ Count(frames', EnterPoints) = Count(frames, EnterPoints) - 1 + 0
    BY <1>1, <1>5, <2>1, CallCounts DEF At1, EnterPoints
  <2>3. Count(frames', LookupPoints) = Count(frames, LookupPoints) - 0 + 0
    BY <1>1, <1>5, <2>1, CallCounts DEF At1, LookupPoints
  <2> QED
    BY <1>2, <1>5, <2>1, <2>2, <2>3 DEF Nesting, Balanced
<1>6. ASSUME NEW loc, In("compound_def", "hidden"), CallFrom("compound_def", "leave", loc),
             display_enter' = display_enter - 1, UNCHANGED <<display_lookup, status, aborted>>
      PROVE  Nesting'
  <2>1. frames # <<>> /\ Top.pc = "hidden"
    BY <1>6 DEF In
  <2>2. IsSeq(frames') /\ Count(frames', EnterPoints) = Count(frames, EnterPoints) - 1 + 0
    BY <1>1, <1>6, <2>1, CallCounts DEF At1, EnterPoints
  <2>3. Count(frames', LookupPoints) = Count(frames, LookupPoints) - 1 + 1
    BY <1>1, <1>6, <2>1, CallCounts DEF At1, LookupPoints
  <2> QED
    BY <1>2, <1>6, <2>1, <2>2, <2>3 DEF Nesting, Balanced
<1>7. ASSUME In("compound_def", "leave"), Return,
             display_lookup' = display_lookup - 1, UNCHANGED <<display_enter, status, aborted>>
      PROVE  Nesting'
  <2>1. frames # <<>> /\ Top.pc = "leave"
    BY <1>7 DEF In
  <2>2. IsSeq(frames') /\ Count(frames', EnterPoints) = Count(frames, EnterPoints) - 0
    BY <1>1, <1>7, <2>1, ReturnCounts DEF At1, EnterPoints
  <2>3. Count(frames', LookupPoints) = Count(frames, LookupPoints) - 1
    BY <1>1, <1>7, <2>1, ReturnCounts DEF At1, LookupPoints
  <2> QED
    BY <1>2, <1>7, <2>1, <2>2, <2>3 DEF Nesting, Balanced
<1>8. ASSUME In("compound_def", "restore"), Return,
             UNCHANGED <<display_enter, display_lookup, status, aborted>>
      PROVE  Nesting'
  <2>1. frames # <<>> /\ Plain(Top.pc)
    BY <1>8 DEF In, Plain, EnterPoints, LookupPoints
  <2> QED
    BY <1>8, <2>1, PlainReturn
<1>9. CASE OpenNested
  BY <1>3, <1>9 DEF OpenNested, CallWith, Same
<1>10. CASE OpenLevel
  BY <1>4, <1>10 DEF OpenLevel, Call, Same
<1>11. CASE EndHidden
  BY <1>5, <1>6, <1>11 DEF EndHidden, Call, Same
<1>12. CASE RestoreNested
  BY <1>8, <1>12 DEF RestoreNested, Same
<1>13. CASE LeaveLevel
  BY <1>7, <1>13 DEF LeaveLevel, Same
<1> QED
  BY <1>9, <1>10, <1>11, <1>12, <1>13 DEF Hide

-----------------------------------------------------------------------------
(* Every other call, return or move is between points of which none is     *)
(* inside a section of its own.                                            *)
LEMMA OtherCalls ==
  ASSUME Nesting, CompoundDef \/ Defsequence \/ Definition \/ ReadAtom \/ ReadField
                    \/ ReadLiteral \/ ReadList \/ EndTerm
  PROVE  Nesting'
<1> USE DEF Same, nest
<1>1. ASSUME NEW p, NEW k, In(p, k),
             k \in {"start", "more", "equals", "assign", "close", "period", "field", "rbrack"}
      PROVE  frames # <<>> /\ Plain(Top.pc) /\ Top.pc = k
  BY <1>1 DEF In, Plain, EnterPoints, LookupPoints
<1>2. \A k \in {"start", "more", "equals", "assign", "close", "period", "field", "rbrack",
                 "module", "hide"} : Plain(k)
  BY DEF Plain, EnterPoints, LookupPoints
<1>3. CASE CompoundDef
  <2>1. frames # <<>> /\ Plain(Top.pc)
    BY <1>1, <1>3 DEF CompoundDef
  <2>2. CASE Goto("module", Loc)
    BY <1>2, <1>3, <2>1, <2>2, PlainGoto DEF CompoundDef
  <2>3. CASE Goto("hide", Loc)
    BY <1>2, <1>3, <2>1, <2>3, PlainGoto DEF CompoundDef
  <2>4. CASE Become("defsequence")
    <3>1. "start" \notin EnterPoints /\ "start" \notin LookupPoints /\ IsSeq(frames)
      BY DEF EnterPoints, LookupPoints, Nesting
    <3>2. Count(frames, EnterPoints) \in Nat /\ Count(frames, LookupPoints) \in Nat
      BY <3>1, CountNat
    <3>3. /\ IsSeq(frames')
          /\ Count(frames', EnterPoints) = Count(frames, EnterPoints) - 0
          /\ Count(frames', LookupPoints) = Count(frames, LookupPoints) - 0
      BY <2>1, <2>4, <3>1, BecomeCounts DEF At1, Plain
    <3>4. UNCHANGED <<display_enter, display_lookup, status, aborted>>
      BY <1>3 DEF CompoundDef
    <3> QED
      BY <2>1, <3>2, <3>3, <3>4 DEF Nesting, Balanced
  <2>5. CASE Return
    BY <1>3, <2>1, <2>5, PlainReturn DEF CompoundDef
  <2> QED
    BY <1>3, <2>2, <2>3, <2>4, <2>5 DEF CompoundDef
<1>4. CASE Defsequence
  BY <1>1, <1>2, <1>4, PlainCall, PlainReturn DEF Defsequence, Call
<1>5. CASE Definition
  BY <1>1, <1>2, <1>5, PlainCall, PlainReturn, PlainGoto DEF Definition, Call
<1>6. CASE ReadAtom
  BY <1>1, <1>2, <1>6, PlainGoto DEF ReadAtom
<1>7. CASE ReadField
  BY <1>1, <1>2, <1>7, PlainGoto, StopsCalls DEF ReadField, Abort
<1>8. CASE ReadLiteral
  BY <1>1, <1>2, <1>8, PlainGoto DEF ReadLiteral
<1>9. CASE ReadList
  BY <1>1, <1>2, <1>9, PlainGoto, PlainCall DEF ReadList, Call
<1>10. CASE EndTerm
  BY <1>1, <1>2, <1>10, PlainReturn DEF EndTerm
<1> QED
  BY <1>3, <1>4, <1>5, <1>6, <1>7, <1>8, <1>9, <1>10

LEMMA BeginNesting == ASSUME Nesting, Begin PROVE Nesting'
<1>1. frames = <<>> /\ status # "crashed"
  BY DEF Begin, Nesting
<1>2. PICK p : frames' = <<Frame(p)>> /\ status' \in {"defining", "reading"}
  BY DEF Begin
<1>3. Frame(p).pc = "start" /\ "start" \notin EnterPoints /\ "start" \notin LookupPoints
  BY DEF Frame, EnterPoints, LookupPoints
<1>4. IsSeq(<<>>) /\ \A P : Count(<<>>, P) = 0
  BY CountEmpty
<1>5. <<Frame(p)>> = Append(<<>>, Frame(p))
  OBVIOUS
<1>6. \A P : /\ IsSeq(Append(<<>>, Frame(p)))
             /\ Count(Append(<<>>, Frame(p)), P) = 0 + One(Frame(p), P)
  BY <1>4, CountAppend
<1>7. /\ IsSeq(frames')
      /\ Count(frames', EnterPoints) = 0 + 0
      /\ Count(frames', LookupPoints) = 0 + 0
  BY <1>2, <1>3, <1>5, <1>6 DEF One
<1> QED
  BY <1>1, <1>2, <1>4, <1>7 DEF Begin, Nesting, Balanced, nest

LEMMA NestingStep == ASSUME Nesting, [Next]_vars PROVE Nesting'
<1> USE DEF Reading, nest
<1>1. CASE TakeSymbol \/ ReadLine
  BY <1>1, KeepsNesting DEF TakeSymbol, ReadLine, Nesting
<1>2. CASE EndOfFile
  BY <1>2, KeepsNesting DEF EndOfFile, Nesting
<1>3. CASE MustInclude
  BY <1>3, KeepsNesting DEF MustInclude, Nesting
<1>4. CASE NextInput
  BY <1>4, KeepsNesting DEF NextInput, Nesting
<1>5. CASE Begin
  BY <1>5, BeginNesting
<1>6. CASE Defined
  BY <1>6, KeepsNesting DEF Defined
<1>7. CASE Execute
  BY <1>7, KeepsNesting DEF Execute
<1>8. CASE Module
  BY <1>8, ModuleNesting
<1>9. CASE Hide
  BY <1>9, HideNesting
<1>10. CASE NoFactor
  BY <1>10, StopsCalls DEF NoFactor, Nesting
<1>11. CASE CompoundDef \/ Defsequence \/ Definition \/ ReadAtom \/ ReadField
              \/ ReadLiteral \/ ReadList \/ EndTerm
  BY <1>11, OtherCalls
<1>12. CASE UNCHANGED vars
  BY <1>12, KeepsNesting DEF vars, Nesting
<1> QED
  BY <1>1, <1>2, <1>3, <1>4, <1>5, <1>6, <1>7, <1>8, <1>9, <1>10, <1>11, <1>12 DEF Next

(* For every nesting of sections and modules, in any input and any set of  *)
(* files: the main loop finds the two counters of the display at 0, unless *)
(* a definition or a term was abandoned.                                   *)
THEOREM SectionsAlwaysClosed == Spec => []SectionsClosed
<1>1. Nesting => SectionsClosed
  BY CountEmpty DEF Nesting, Balanced, SectionsClosed
<1>2. Nesting /\ [Next]_vars => Nesting'
  BY NestingStep
<1> QED
  BY <1>1, <1>2, NestingInit, PTL DEF Spec

-----------------------------------------------------------------------------
(***************************************************************************)
(* The files that are open: there is one to read from until the            *)
(* interpreter exits, and never more than the array infile holds.  The     *)
(* check of doinclude is enough because the user's library, which is       *)
(* opened without one, is opened first.                                    *)
(***************************************************************************)
FilesOpen ==
  /\ IsSeq(infile)
  /\ Len(infile) <= INPSTACKMAX
  /\ status = "start" => Len(infile) = 1
  /\ status # "exited" => infile # <<>>
  /\ status = "exited" => sym = Pending

LEMMA AnotherFile ==
  ASSUME NEW s, IsSeq(s), NEW x
  PROVE  IsSeq(<<x>> \o s) /\ Len(<<x>> \o s) = Len(s) + 1 /\ Len(s) \in Nat
<1>1. PICK F : s \in Seq(F)
  BY DEF IsSeq
<1>2. s \in Seq(F \cup {x}) /\ <<x>> \in Seq(F \cup {x}) /\ Len(s) \in Nat
  BY <1>1
<1>3. <<x>> \o s \in Seq(F \cup {x}) /\ Len(<<x>> \o s) = Len(s) + 1
  BY <1>2
<1> QED
  BY <1>2, <1>3 DEF IsSeq

LEMMA FileLess ==
  ASSUME NEW s, IsSeq(s), s # <<>>
  PROVE  IsSeq(Tail(s)) /\ Len(Tail(s)) = Len(s) - 1 /\ Len(s) \in Nat \ {0}
<1>1. PICK F : s \in Seq(F)
  BY DEF IsSeq
<1>2. Tail(s) \in Seq(F) /\ Len(Tail(s)) = Len(s) - 1
  BY <1>1, HeadTailProperties
<1> QED
  BY <1>1, <1>2 DEF IsSeq

LEMMA EmptyLength == ASSUME NEW s, IsSeq(s) PROVE Len(s) \in Nat /\ (Len(s) = 0 <=> s = <<>>)
BY EmptySeq DEF IsSeq

LEMMA FilesInit == Init => FilesOpen
<1>1. ASSUME NEW s \in Sessions
      PROVE  IsSeq(<<s>>) /\ Len(<<s>>) = 1 /\ <<s>> # <<>>
  BY <<s>> \in Seq({s}) DEF IsSeq
<1>2. ASSUME Init PROVE FilesOpen
  <2>1. PICK s \in Sessions : infile = <<s>>
    BY <1>2 DEF Init, MainInputs
  <2>2. IsSeq(infile) /\ Len(infile) = 1 /\ infile # <<>> /\ status = "start"
    BY <1>1, <1>2, <2>1 DEF Init
  <2> QED
    BY <2>2, ReaderAssumption DEF FilesOpen
<1> QED
  BY <1>2

LEMMA FilesStep == ASSUME FilesOpen, [Next]_vars PROVE FilesOpen'
<1> USE DEF Reading
<1>1. IsSeq(infile) /\ Len(infile) \in Nat /\ Len(infile) <= INPSTACKMAX /\ INPSTACKMAX \in Nat
  BY EmptyLength, ReaderAssumption DEF FilesOpen
<1>2. CASE /\ UNCHANGED infile /\ (status' # "start" \/ status = "start")
           /\ status # "exited" /\ status' # "exited"
  BY <1>2 DEF FilesOpen
<1>0. \A p, k : In(p, k) => status # "exited"
  BY DEF In, FilesOpen
<1>3. CASE ReadLine
  <2>1. infile # <<>> /\ UNCHANGED status /\ status # "exited"
    BY <1>3 DEF ReadLine, FilesOpen
  <2>2. IsSeq(Tail(infile)) /\ Len(Tail(infile)) = Len(infile) - 1
    BY <1>1, <2>1, FileLess
  <2>3. IsSeq(infile') /\ Len(infile') = Len(infile) - 1 + 1
    BY <1>3, <2>2, AnotherFile DEF ReadLine
  <2>4. infile' # <<>>
    BY <1>1, <2>1, <2>3, EmptyLength
  <2> QED
    BY <1>1, <2>1, <2>3, <2>4 DEF FilesOpen
<1>4. CASE EndOfFile
  <2>1. infile # <<>> /\ infile' = Tail(infile) /\ (Len(infile) = 1 => status' = "exited")
        /\ (Len(infile) # 1 => status' = status) /\ sym' = Pending
    BY <1>4 DEF EndOfFile, FilesOpen
  <2>2. IsSeq(infile') /\ Len(infile') = Len(infile) - 1 /\ Len(infile) # 0
    BY <1>1, <2>1, FileLess
  <2>3. CASE Len(infile) = 1
    <3>1. status' = "exited" /\ sym' = Pending
      BY <2>1, <2>3
    <3>2. IsSeq(infile') /\ Len(infile') <= INPSTACKMAX
      BY <1>1, <2>2, <2>3
    <3> QED
      BY <3>1, <3>2 DEF FilesOpen
  <2>4. CASE Len(infile) # 1
    <3>1. infile' # <<>>
      BY <1>1, <2>2, <2>4, EmptyLength
    <3>2. status # "start"
      BY <2>4 DEF FilesOpen
    <3> QED
      BY <1>1, <2>1, <2>2, <2>4, <3>1, <3>2 DEF FilesOpen
  <2> QED
    BY <2>3, <2>4
<1>5. ASSUME NEW x, infile' = <<x>> \o infile, Len(infile) # INPSTACKMAX, status' = "idle"
      PROVE  FilesOpen'
  <2>1. IsSeq(infile') /\ Len(infile') = Len(infile) + 1
    BY <1>1, <1>5, AnotherFile
  <2>2. infile' # <<>>
    BY <1>1, <2>1, EmptyLength
  <2> QED
    BY <1>1, <1>5, <2>1, <2>2 DEF FilesOpen
<1>6. CASE MustInclude
  <2>1. Len(infile) # INPSTACKMAX /\ infile # <<>> /\ status' = "idle"
    BY <1>6, ReaderAssumption DEF MustInclude, FilesOpen
  <2>2. CASE usrlib \in DOMAIN Files
    BY <1>5, <1>6, <2>1, <2>2 DEF MustInclude
  <2>3. CASE usrlib \notin DOMAIN Files
    <3>1. PICK F : infile \in Seq(F)
      BY <1>1 DEF IsSeq
    <3>2. infile' = infile
      BY <1>6, <2>3, <3>1 DEF MustInclude
    <3> QED
      BY <1>2, <1>6, <2>1, <3>2 DEF MustInclude
  <2> QED
    BY <2>2, <2>3
<1>7. CASE Execute
  BY <1>2, <1>5, <1>7 DEF Execute, DoInclude
<1>8. CASE Next /\ ~ReadLine /\ ~EndOfFile /\ ~MustInclude /\ ~Execute
  <2> USE DEF text, Same, Getsym, Abort
  <2>1. CASE TakeSymbol \/ NextInput \/ Begin \/ Defined
    BY <1>2, <2>1 DEF TakeSymbol, NextInput, Begin, Defined
  <2>2. CASE CompoundDef \/ Module \/ Defsequence \/ Definition
    BY <1>0, <1>2, <2>2 DEF CompoundDef, Module, Defsequence, Definition
  <2>3. CASE Hide
    BY <1>0, <1>2, <2>3 DEF Hide, OpenNested, OpenLevel, EndHidden, RestoreNested, LeaveLevel
  <2>4. CASE ReadAtom \/ ReadField \/ NoFactor \/ ReadLiteral \/ ReadList \/ EndTerm
    BY <1>0, <1>2, <2>4 DEF ReadAtom, ReadField, NoFactor, ReadLiteral, ReadList, EndTerm
  <2> QED
    BY <1>8, <2>1, <2>2, <2>3, <2>4 DEF Next
<1>9. CASE UNCHANGED vars
  BY <1>9 DEF vars, text, FilesOpen
<1> QED
  BY <1>3, <1>4, <1>6, <1>7, <1>8, <1>9

(* However the files include one another, and whatever is abandoned while  *)
(* they are read, getsym has a file to read from until the interpreter     *)
(* exits, and the array of open files never overflows.                     *)
THEOREM FilesAlwaysBounded ==
  Spec => [](Len(infile) <= INPSTACKMAX /\ (status # "exited" => infile # <<>>))
<1>1. FilesOpen => Len(infile) <= INPSTACKMAX /\ (status # "exited" => infile # <<>>)
  BY DEF FilesOpen
<1> QED
  BY <1>1, FilesInit, FilesStep, PTL DEF Spec

-----------------------------------------------------------------------------
(***************************************************************************)
(* The symbol table.  What a recursive definition says of all the entries  *)
(* of a chain follows from a first entry of which it would not be true.    *)
(***************************************************************************)
LEMMA LeastNumber ==
  ASSUME NEW T, T \subseteq Nat, T # {}
  PROVE  \E x \in T : \A y \in T : x <= y
<1>1. PICK x \in T : \A y \in T : ~ (<<y, x>> \in OpToRel(<, Nat))
  BY NatLessThanWellFounded, WFMin
<1>2. \A y \in T : ~(y < x)
  BY <1>1 DEF OpToRel
<1>3. x \in Nat /\ \A y \in T : y \in Nat
  OBVIOUS
<1>4. \A y \in T : x <= y
  BY <1>2, <1>3
<1> QED
  BY <1>4

(* What FindFrom computes for the first n entries, as an equation. *)
Finds(f, id, n) == f = [q \in 0 .. n |-> IF q = NULL \/ entries[q].name = id THEN q ELSE f[entries[q].next]]

LEMMA FindsExists ==
  ASSUME NEW n \in Nat, \A i \in 1 .. n : entries[i].next \in 0 .. i - 1, NEW id
  PROVE  \E f : Finds(f, id, n)
<1> DEFINE Bad == {k \in 0 .. n : ~ \E f : Finds(f, id, k)}
<1> SUFFICES ASSUME Bad # {} PROVE FALSE
  OBVIOUS
<1>1. PICK k \in Bad : \A y \in Bad : k <= y
  <2>1. Bad \subseteq Nat
    OBVIOUS
  <2> HIDE DEF Bad
  <2> QED
    BY <2>1, LeastNumber
<1>2. k # 0
  <2>1. Finds([q \in 0 .. 0 |-> q], id, 0)
    BY DEF Finds, NULL
  <2> QED
    BY <2>1
<1>3. PICK f : Finds(f, id, k - 1)
  BY <1>1, <1>2
<1> DEFINE g == [q \in 0 .. k |-> IF q = k THEN IF entries[k].name = id THEN k ELSE f[entries[k].next]
                                  ELSE f[q]]
<1>4. \A q \in 0 .. k - 1 : f[q] = IF q = NULL \/ entries[q].name = id THEN q ELSE f[entries[q].next]
  BY <1>3 DEF Finds
<1>5. entries[k].next \in 0 .. k - 1 /\ \A q \in 1 .. k - 1 : entries[q].next \in 0 .. k - 1
  BY <1>1, <1>2
<1>6. Finds(g, id, k)
  BY <1>1, <1>2, <1>4, <1>5 DEF Finds, NULL
<1> QED
  BY <1>1, <1>6

(* A search ends at an entry with the name, or at the end of the chain. *)
LEMMA FindFromEnds ==
  ASSUME Len(entries) \in Nat, \A i \in 1 .. Len(entries) : entries[i].next \in 0 .. i - 1,
         NEW p \in 0 .. Len(entries), NEW id
  PROVE  /\ FindFrom(p, id) \in 0 .. Len(entries)
         /\ FindFrom(p, id) # NULL => entries[FindFrom(p, id)].name = id
<1> DEFINE n == Len(entries)
           f == CHOOSE g : Finds(g, id, n)
<1>1. FindFrom(p, id) = f[p]
  BY DEF FindFrom, Finds
<1>2. \E g : Finds(g, id, n)
  BY FindsExists
<1>3. Finds(f, id, n)
  BY <1>2
<1> HIDE DEF f
<1>4. \A q \in 0 .. n : f[q] = IF q = NULL \/ entries[q].name = id THEN q ELSE f[entries[q].next]
  BY <1>3 DEF Finds
<1> DEFINE Good(q) == f[q] \in 0 .. n /\ (f[q] # NULL => entries[f[q]].name = id)
           Bad     == {q \in 0 .. n : ~ Good(q)}
<1>5. Bad = {}
  <2> SUFFICES ASSUME Bad # {} PROVE FALSE
    OBVIOUS
  <2>1. PICK k \in Bad : \A y \in Bad : k <= y
    <3>1. Bad \subseteq Nat
      OBVIOUS
    <3> HIDE DEF Bad
    <3> QED
      BY <3>1, LeastNumber
  <2>2. k \in 0 .. n /\ ~ Good(k) /\ \A y \in 0 .. k - 1 : Good(y)
    BY <2>1
  <2>3. k # NULL /\ entries[k].name # id /\ f[k] = f[entries[k].next]
    BY <1>4, <2>2 DEF NULL
  <2>4. entries[k].next \in 0 .. k - 1
    BY <2>2, <2>3 DEF NULL
  <2> QED
    BY <2>2, <2>3, <2>4
<1> QED
  BY <1>1, <1>5

-----------------------------------------------------------------------------
(* Entries and what refers to them, when there are n entries.              *)
RefsIn(t, n) == \A k \in DOMAIN t : t[k].ref \in 0 .. n
TermOK(t, n) == IsSeq(t) /\ RefsIn(t, n)

EntryOK(x, i, n) ==
  /\ x = [name |-> x.name, is_module |-> x.is_module, body |-> x.body,
          fields |-> x.fields, next |-> x.next]
  /\ x.next \in 0 .. i - 1 /\ x.fields \in 0 .. n /\ RefsIn(x.body, n)

TableOK(e, h) ==
  /\ IsSeq(e) /\ h \in 0 .. Len(e)
  /\ \A i \in 1 .. Len(e) : EntryOK(e[i], i, Len(e))

LocOK(loc, n) ==
  /\ loc = [here |-> loc.here, list |-> loc.list]
  /\ loc.here \in 0 .. n /\ TermOK(loc.list, n)
LocsOK(s, n) == \A i \in 1 .. Len(s) : LocOK(s[i].loc, n)

DisplayOK(d, n) == DOMAIN d = 0 .. DISPLAYMAX - 1 /\ \A i \in DOMAIN d : d[i] \in 0 .. n

LEMMA Grows ==
  ASSUME NEW n \in Nat, NEW m \in Nat, n <= m
  PROVE  /\ \A t : TermOK(t, n) => TermOK(t, m)
         /\ \A s : LocsOK(s, n) => LocsOK(s, m)
         /\ \A d : DisplayOK(d, n) => DisplayOK(d, m)
<1>1. \A i \in 0 .. n : i \in 0 .. m
  OBVIOUS
<1>2. \A t : TermOK(t, n) => TermOK(t, m)
  BY <1>1 DEF TermOK, RefsIn
<1>3. \A l : LocOK(l, n) => LocOK(l, m)
  BY <1>1, <1>2 DEF LocOK
<1> QED
  BY <1>1, <1>2, <1>3 DEF LocsOK, DisplayOK

LEMMA SeqLength == ASSUME NEW s, IsSeq(s) PROVE Len(s) \in Nat /\ DOMAIN s = 1 .. Len(s)
BY DEF IsSeq

LEMMA Appended ==
  ASSUME NEW s, IsSeq(s), NEW x
  PROVE  /\ IsSeq(Append(s, x)) /\ Len(Append(s, x)) = Len(s) + 1 /\ Append(s, x)[Len(s) + 1] = x
         /\ \A i \in 1 .. Len(s) : Append(s, x)[i] = s[i]
         /\ Len(s) \in Nat /\ DOMAIN Append(s, x) = 1 .. Len(s) + 1
<1>1. PICK F : s \in Seq(F)
  BY DEF IsSeq
<1>2. s \in Seq(F \cup {x}) /\ x \in F \cup {x} /\ Append(s, x) \in Seq(F \cup {x})
  BY <1>1
<1> QED
  BY <1>2 DEF IsSeq

LEMMA TableGrows ==
  ASSUME TableOK(entries, hashentry), NEW name, NEW next \in 0 .. Len(entries),
         entries' = Append(entries, Entry(name, next)), hashentry' \in 0 .. Len(entries) + 1
  PROVE  TableOK(entries', hashentry') /\ Len(entries') = Len(entries) + 1
<1> DEFINE n == Len(entries)  x == Entry(name, next)
<1>1. /\ n \in Nat /\ IsSeq(entries') /\ Len(entries') = n + 1 /\ entries'[n + 1] = x
      /\ \A i \in 1 .. n : entries'[i] = entries[i]
  BY Appended DEF TableOK
<1>2. EntryOK(x, n + 1, n + 1)
  BY <1>1 DEF EntryOK, Entry, NULL, RefsIn
<1>3. \A i \in 1 .. n : EntryOK(entries[i], i, n + 1)
  BY <1>1 DEF EntryOK, TableOK, RefsIn
<1> HIDE DEF x
<1>4. \A i \in 1 .. n + 1 : EntryOK(entries'[i], i, n + 1)
  BY <1>1, <1>2, <1>3
<1> QED
  BY <1>1, <1>4 DEF TableOK

LEMMA EntryChanged ==
  ASSUME NEW x, NEW i, NEW n, EntryOK(x, i, n), NEW t, RefsIn(t, n), NEW f \in 0 .. n, NEW m
  PROVE  /\ EntryOK([x EXCEPT !.body = t], i, n) /\ EntryOK([x EXCEPT !.is_module = m], i, n)
         /\ EntryOK([x EXCEPT !.fields = f], i, n)
<1> DEFINE X(mm, tt, ff) == [name |-> x.name, is_module |-> mm, body |-> tt, fields |-> ff, next |-> x.next]
<1>1. x = X(x.is_module, x.body, x.fields)
  BY DEF EntryOK
<1>2. /\ [x EXCEPT !.body = t] = X(x.is_module, t, x.fields)
      /\ [x EXCEPT !.is_module = m] = X(m, x.body, x.fields)
      /\ [x EXCEPT !.fields = f] = X(x.is_module, x.body, f)
  BY <1>1
<1>3. \A mm, tt, ff : RefsIn(tt, n) /\ ff \in 0 .. n => EntryOK(X(mm, tt, ff), i, n)
  BY DEF EntryOK
<1>4. RefsIn(x.body, n) /\ x.fields \in 0 .. n
  BY DEF EntryOK
<1> HIDE DEF X
<1> QED
  BY <1>2, <1>3, <1>4

(* A body is assigned, or the fields of a module. *)
LEMMA TableAssigned ==
  ASSUME NEW e, NEW h, TableOK(e, h), NEW p, NEW x,
         p \in 1 .. Len(e) => EntryOK(x, p, Len(e))
  PROVE  TableOK([e EXCEPT ![p] = x], h) /\ Len([e EXCEPT ![p] = x]) = Len(e)
<1> DEFINE g == [e EXCEPT ![p] = x]
<1>1. PICK F : e \in Seq(F)
  BY DEF TableOK, IsSeq
<1>2. e \in Seq(F \cup {x})
  BY <1>1
<1>3. g \in Seq(F \cup {x}) /\ Len(g) = Len(e)
  <2>1. CASE p \in 1 .. Len(e)
    BY <1>2, <2>1, ExceptSeq
  <2>2. CASE p \notin 1 .. Len(e)
    <3>1. g = e
      BY <1>1, <2>2
    <3> QED
      BY <1>2, <3>1
  <2> QED
    BY <2>1, <2>2
<1>4. \A i \in 1 .. Len(e) : g[i] = IF i = p THEN x ELSE e[i]
  BY <1>1
<1> HIDE DEF g
<1>5. TableOK(g, h)
  BY <1>3, <1>4 DEF TableOK, IsSeq
<1> QED
  BY <1>3, <1>5 DEF g

-----------------------------------------------------------------------------
(* Names are found among the entries there are.                            *)
LookupOK ==
  /\ TableOK(entries, hashentry) /\ DisplayOK(display, Len(entries))
  /\ display_enter \in Nat /\ display_lookup \in Nat
  /\ display_enter < DISPLAYMAX /\ display_lookup < DISPLAYMAX

LEMMA FromOK ==
  ASSUME TableOK(entries, hashentry), NEW p \in 0 .. Len(entries), NEW id
  PROVE  /\ FindFrom(p, id) \in 0 .. Len(entries)
         /\ FindFrom(p, id) # NULL => EntryOK(entries[FindFrom(p, id)], FindFrom(p, id), Len(entries))
                                       /\ entries[FindFrom(p, id)].name = id
<1>1. Len(entries) \in Nat /\ \A i \in 1 .. Len(entries) : entries[i].next \in 0 .. i - 1
  BY SeqLength DEF TableOK, EntryOK
<1>2. /\ FindFrom(p, id) \in 0 .. Len(entries)
      /\ FindFrom(p, id) # NULL => entries[FindFrom(p, id)].name = id
  BY <1>1, FindFromEnds
<1>3. FindFrom(p, id) # NULL => FindFrom(p, id) \in 1 .. Len(entries)
  BY <1>1, <1>2 DEF NULL
<1> QED
  BY <1>2, <1>3 DEF TableOK

LEMMA FoundOK ==
  ASSUME LookupOK, NEW id
  PROVE  /\ Found(id) \in 0 .. Len(entries)
         /\ Found(id) # NULL => entries[Found(id)].name = id
                                 /\ EntryOK(entries[Found(id)], Found(id), Len(entries))
<1> DEFINE hits  == {i \in 1 .. display_lookup : FindFrom(display[i], id) # NULL}
           inner == CHOOSE i \in hits : \A j \in hits : j <= i
           top   == {display_lookup - i : i \in hits}
<1>1. Found(id) = IF hits = {} THEN FindFrom(hashentry, id) ELSE FindFrom(display[inner], id)
  BY DEF Found
<1>2. CASE hits = {}
  BY <1>1, <1>2, FromOK DEF LookupOK, TableOK
<1>3. CASE hits # {}
  <2>1. top \subseteq Nat /\ top # {}
    BY <1>3 DEF LookupOK
  <2>2. PICK x \in top : \A y \in top : x <= y
    BY <2>1, LeastNumber
  <2>3. PICK i \in hits : x = display_lookup - i
    BY <2>2
  <2>4. \A j \in hits : display_lookup - i <= display_lookup - j
    BY <2>2, <2>3
  <2>5. \A j \in hits : j \in Nat /\ i \in Nat
    OBVIOUS
  <2>6. \A j \in hits : j <= i
    BY <2>4, <2>5 DEF LookupOK
  <2>7. inner \in hits
    BY <2>6
  <2>8. inner \in 0 .. DISPLAYMAX - 1
    BY <2>7, ReaderAssumption DEF LookupOK
  <2>9. display[inner] \in 0 .. Len(entries)
    BY <2>8 DEF LookupOK, DisplayOK
  <2> QED
    BY <1>1, <1>3, <2>9, FromOK DEF LookupOK
<1> QED
  BY <1>2, <1>3

(* After a lookup or an entry of a name, location is among the entries.    *)
LEMMA LookupEnters ==
  ASSUME LookupOK, NEW id, lookup(id)
  PROVE  /\ TableOK(entries', hashentry')
         /\ Len(entries') \in Nat /\ Len(entries) \in Nat /\ Len(entries) <= Len(entries')
         /\ Location(id) \in 0 .. Len(entries')
<1>1. Len(entries) \in Nat /\ hashentry \in 0 .. Len(entries)
  BY SeqLength DEF LookupOK, TableOK
<1>2. CASE Found(id) = NULL
  <2>1. TableOK(entries', hashentry') /\ Len(entries') = Len(entries) + 1
    <3>1. entries' = Append(entries, Entry(id, hashentry)) /\ hashentry' = Len(entries) + 1
      BY <1>2 DEF lookup, enterglobal, New
    <3> QED
      BY <1>1, <3>1, TableGrows DEF LookupOK
  <2> QED
    BY <1>1, <1>2, <2>1 DEF Location, New
<1>3. CASE Found(id) # NULL
  BY <1>1, <1>3, FoundOK DEF lookup, table, Location, LookupOK
<1> QED
  BY <1>2, <1>3

LEMMA AtomEnters ==
  ASSUME LookupOK, NEW id, enteratom(id)
  PROVE  /\ TableOK(entries', hashentry')
         /\ Len(entries') \in Nat /\ Len(entries) \in Nat /\ Len(entries) <= Len(entries')
         /\ Here(id) \in 0 .. Len(entries')
         /\ DisplayOK(Entered, Len(entries'))
<1>1. Len(entries) \in Nat /\ hashentry \in 0 .. Len(entries)
  BY SeqLength DEF LookupOK, TableOK
<1>2. CASE Hidden
  <2>1. display[display_enter] \in 0 .. Len(entries)
    BY ReaderAssumption DEF LookupOK, DisplayOK
  <2>2. TableOK(entries', hashentry') /\ Len(entries') = Len(entries) + 1
    BY <1>1, <1>2, <2>1, TableGrows DEF enteratom, LookupOK
  <2>3. DisplayOK(Entered, Len(entries) + 1)
    BY <1>1, <1>2 DEF Entered, DisplayOK, New, LookupOK
  <2> QED
    BY <1>1, <1>2, <2>2, <2>3 DEF Here, New
<1>3. CASE ~Hidden
  <2>1. lookup(id) /\ Here(id) = Location(id) /\ Entered = display
    BY <1>3 DEF enteratom, Here, Entered
  <2> QED
    BY <2>1, LookupEnters, Grows DEF LookupOK
<1> QED
  BY <1>2, <1>3

(* So does the entry that definition makes in place of an operator.        *)
LEMMA GlobalEnters ==
  ASSUME LookupOK, NEW id, enterglobal(id), ~Hidden
  PROVE  /\ TableOK(entries', hashentry')
         /\ Len(entries') \in Nat /\ Len(entries) \in Nat /\ Len(entries) <= Len(entries')
         /\ New \in 0 .. Len(entries')
         /\ DisplayOK(Entered, Len(entries'))
<1>1. Len(entries) \in Nat /\ hashentry \in 0 .. Len(entries)
  BY SeqLength DEF LookupOK, TableOK
<1>2. entries' = Append(entries, Entry(id, hashentry)) /\ hashentry' = Len(entries) + 1
  BY DEF enterglobal, New
<1>3. TableOK(entries', hashentry') /\ Len(entries') = Len(entries) + 1
  BY <1>1, <1>2, TableGrows DEF LookupOK
<1>4. Entered = display
  BY DEF Entered
<1> QED
  BY <1>1, <1>3, <1>4, Grows DEF New, LookupOK

-----------------------------------------------------------------------------
(***************************************************************************)
(* The two counters of the display.  Each active call knows what they were *)
(* when it began, e and l, and by the point it has reached what they are   *)
(* for the call that it made; an abandoned definition changes what they    *)
(* were for the first.                                                     *)
(***************************************************************************)
Fits(k, e, l, e2, l2) ==
  /\ e2 = e + At1(k, EnterPoints)
  /\ l2 = l + At1(k, LookupPoints)
  /\ k \in {"nested", "restore"} => l = e + 1
  /\ k \in {"hidden", "leave"} => l = e

Levels(s, e, l) ==
  \E E \in [1 .. Len(s) + 1 -> Nat], L \in [1 .. Len(s) + 1 -> Nat] :
    /\ E[Len(s) + 1] = e /\ L[Len(s) + 1] = l
    /\ \A i \in 1 .. Len(s) + 1 : L[i] \in E[i] .. E[i] + 1
    /\ \A i \in 1 .. Len(s) : Fits(s[i].pc, E[i], L[i], E[i + 1], L[i + 1])

LEMMA LevelsType ==
  ASSUME NEW s, IsSeq(s), NEW e, NEW l, Levels(s, e, l)
  PROVE  e \in Nat /\ l \in e .. e + 1
<1>1. Len(s) + 1 \in 1 .. Len(s) + 1
  BY SeqLength
<1> QED
  BY <1>1 DEF Levels

LEMMA LevelsEmpty ==
  ASSUME NEW e \in Nat, NEW l \in e .. e + 1
  PROVE  Levels(<<>>, e, l)
<1> DEFINE E == [i \in 1 .. 1 |-> e]  L == [i \in 1 .. 1 |-> l]
<1>1. E \in [1 .. 1 -> Nat] /\ L \in [1 .. 1 -> Nat]
  OBVIOUS
<1>2. E[1] = e /\ L[1] = l /\ \A i \in 1 .. 1 : L[i] \in E[i] .. E[i] + 1
  OBVIOUS
<1>3. Len(<<>>) = 0 /\ 0 + 1 = 1 /\ 1 .. 0 = {}
  OBVIOUS
<1> HIDE DEF E, L
<1> QED
  BY <1>1, <1>2, <1>3 DEF Levels

LEMMA LevelsPush ==
  ASSUME NEW s, IsSeq(s), NEW e1, NEW l1, Levels(s, e1, l1),
         NEW f, NEW e \in Nat, NEW l \in e .. e + 1, Fits(f.pc, e1, l1, e, l)
  PROVE  Levels(Append(s, f), e, l)
<1> DEFINE n == Len(s)  t == Append(s, f)
<1>1. n \in Nat /\ Len(t) = n + 1 /\ t[n + 1] = f /\ \A i \in 1 .. n : t[i] = s[i]
  BY Appended
<1>2. PICK E \in [1 .. n + 1 -> Nat], L \in [1 .. n + 1 -> Nat] :
        /\ E[n + 1] = e1 /\ L[n + 1] = l1
        /\ \A i \in 1 .. n + 1 : L[i] \in E[i] .. E[i] + 1
        /\ \A i \in 1 .. n : Fits(s[i].pc, E[i], L[i], E[i + 1], L[i + 1])
  BY DEF Levels
<1> DEFINE E2 == [i \in 1 .. n + 2 |-> IF i = n + 2 THEN e ELSE E[i]]
           L2 == [i \in 1 .. n + 2 |-> IF i = n + 2 THEN l ELSE L[i]]
<1>3. E2 \in [1 .. n + 2 -> Nat] /\ L2 \in [1 .. n + 2 -> Nat]
  BY <1>1, <1>2
<1>4. E2[n + 2] = e /\ L2[n + 2] = l
  BY <1>1
<1>5. \A i \in 1 .. n + 2 : L2[i] \in E2[i] .. E2[i] + 1
  BY <1>1, <1>2
<1>6. \A i \in 1 .. n + 1 : Fits(t[i].pc, E2[i], L2[i], E2[i + 1], L2[i + 1])
  <2> SUFFICES ASSUME NEW i \in 1 .. n + 1
               PROVE  Fits(t[i].pc, E2[i], L2[i], E2[i + 1], L2[i + 1])
    OBVIOUS
  <2>1. CASE i = n + 1
    <3>1. E2[i] = e1 /\ L2[i] = l1 /\ E2[i + 1] = e /\ L2[i + 1] = l
      BY <1>1, <1>2, <2>1
    <3> QED
      BY <1>1, <2>1, <3>1
  <2>2. CASE i # n + 1
    <3>1. i \in 1 .. n
      BY <1>1, <2>2
    <3>2. E2[i] = E[i] /\ L2[i] = L[i] /\ E2[i + 1] = E[i + 1] /\ L2[i + 1] = L[i + 1]
      BY <1>1, <3>1
    <3> QED
      BY <1>1, <1>2, <3>1, <3>2
  <2> QED
    BY <2>1, <2>2
<1>7. Len(t) + 1 = n + 2
  BY <1>1
<1> HIDE DEF E2, L2, t, n
<1> QED
  BY <1>1, <1>3, <1>4, <1>5, <1>6, <1>7 DEF Levels, t

LEMMA LevelsPop ==
  ASSUME NEW s, IsSeq(s), NEW f, NEW e, NEW l, Levels(Append(s, f), e, l)
  PROVE  \E e1 \in Nat, l1 \in Nat :
           l1 \in e1 .. e1 + 1 /\ Levels(s, e1, l1) /\ Fits(f.pc, e1, l1, e, l)
<1> DEFINE n == Len(s)  t == Append(s, f)
<1>1. n \in Nat /\ Len(t) = n + 1 /\ t[n + 1] = f /\ \A i \in 1 .. n : t[i] = s[i]
  BY Appended
<1>2. PICK E \in [1 .. n + 2 -> Nat], L \in [1 .. n + 2 -> Nat] :
        /\ E[n + 2] = e /\ L[n + 2] = l
        /\ \A i \in 1 .. n + 2 : L[i] \in E[i] .. E[i] + 1
        /\ \A i \in 1 .. n + 1 : Fits(t[i].pc, E[i], L[i], E[i + 1], L[i + 1])
  <2>1. Len(t) + 1 = n + 2
    BY <1>1
  <2> HIDE DEF t, n
  <2> QED
    BY <1>1, <2>1 DEF Levels, t
<1> DEFINE E1 == [i \in 1 .. n + 1 |-> E[i]]
           L1 == [i \in 1 .. n + 1 |-> L[i]]
<1>3. E1 \in [1 .. n + 1 -> Nat] /\ L1 \in [1 .. n + 1 -> Nat]
  BY <1>1, <1>2
<1>4. \A i \in 1 .. n + 1 : L1[i] \in E1[i] .. E1[i] + 1
  BY <1>1, <1>2
<1>5. \A i \in 1 .. n : Fits(s[i].pc, E1[i], L1[i], E1[i + 1], L1[i + 1])
  <2> SUFFICES ASSUME NEW i \in 1 .. n
               PROVE  Fits(s[i].pc, E1[i], L1[i], E1[i + 1], L1[i + 1])
    OBVIOUS
  <2>1. E1[i] = E[i] /\ L1[i] = L[i] /\ E1[i + 1] = E[i + 1] /\ L1[i + 1] = L[i + 1]
    BY <1>1
  <2>2. Fits(t[i].pc, E[i], L[i], E[i + 1], L[i + 1]) /\ t[i] = s[i]
    BY <1>1, <1>2
  <2> QED
    BY <2>1, <2>2
<1>6. Levels(s, E[n + 1], L[n + 1])
  <2>1. E1[n + 1] = E[n + 1] /\ L1[n + 1] = L[n + 1]
    BY <1>1
  <2> HIDE DEF E1, L1
  <2> QED
    BY <1>3, <1>4, <1>5, <2>1 DEF Levels
<1>7. Fits(f.pc, E[n + 1], L[n + 1], e, l)
  <2>1. Fits(t[n + 1].pc, E[n + 1], L[n + 1], E[n + 1 + 1], L[n + 1 + 1]) /\ n + 1 + 1 = n + 2
    BY <1>1, <1>2
  <2> QED
    BY <1>1, <1>2, <2>1
<1> QED
  BY <1>1, <1>2, <1>6, <1>7

(* The calls below the innermost one, and what each way of going on leaves. *)
LEMMA CallersAndTop ==
  ASSUME IsSeq(frames), frames # <<>>
  PROVE  /\ IsSeq(Callers) /\ frames = Append(Callers, Top)
         /\ \A k, loc : Goto(k, loc) => frames' = Append(Callers, At(k, loc))
         /\ \A p, k, loc : CallFrom(p, k, loc) =>
              frames' = Append(Append(Callers, At(k, loc)), Frame(p))
         /\ \A p : Become(p) => frames' = Append(Callers, Frame(p))
<1>1. IsSeq(Callers) /\ \A f : [frames EXCEPT ![Len(frames)] = f] = Append(Callers, f)
  BY LastReplaced DEF Callers
<1>2. [frames EXCEPT ![Len(frames)] = Top] = frames
  BY DEF Top, IsSeq
<1> QED
  BY <1>1, <1>2 DEF Goto, CallFrom, Become

LEMMA LocsAppend ==
  ASSUME NEW s, IsSeq(s), NEW f, NEW n
  PROVE  LocsOK(Append(s, f), n) <=> LocsOK(s, n) /\ LocOK(f.loc, n)
<1>1. /\ Len(s) \in Nat /\ Len(Append(s, f)) = Len(s) + 1 /\ Append(s, f)[Len(s) + 1] = f
      /\ \A i \in 1 .. Len(s) : Append(s, f)[i] = s[i]
  BY Appended
<1> QED
  BY <1>1 DEF LocsOK

-----------------------------------------------------------------------------
(* The inductive invariant of the table. *)
Statuses == {"start", "idle", "input", "defining", "reading", "crashed", "exited"}

CallsOK(s, n, e, l) == IsSeq(s) /\ LocsOK(s, n) /\ Levels(s, e, l)

WellFormed ==
  /\ TableOK(entries, hashentry)
  /\ DisplayOK(display, Len(entries))
  /\ TermOK(term, Len(entries))
  /\ CallsOK(frames, Len(entries), display_enter, display_lookup)
  /\ status \in Statuses

(* The sections that are open fit into display. *)
Shallow == display_lookup < DISPLAYMAX

LEMMA StartLocals == ASSUME NEW p, NEW n \in Nat PROVE LocOK(Frame(p).loc, n) /\ Frame(p).pc = "start"
<1>1. IsSeq(<<>>) /\ DOMAIN <<>> = {}
  BY CountEmpty
<1> QED
  BY <1>1 DEF Frame, NoLocals, LocOK, TermOK, RefsIn, NULL

LEMMA StartFits == ASSUME NEW e \in Nat, NEW l \in Nat PROVE Fits("start", e, l, e, l)
BY DEF Fits, At1, EnterPoints, LookupPoints

(* What each way of going on needs, n entries and the counters e and l     *)
(* being there afterwards.                                                 *)
LEMMA GotoOK ==
  ASSUME CallsOK(frames, Len(entries), display_enter, display_lookup), frames # <<>>,
         Len(entries) \in Nat, NEW n \in Nat, Len(entries) <= n,
         NEW e \in Nat, NEW l \in e .. e + 1, NEW k, NEW loc, LocOK(loc, n), Goto(k, loc),
         \A e1 \in Nat : \A l1 \in e1 .. e1 + 1 :
           Fits(Top.pc, e1, l1, display_enter, display_lookup) => Fits(k, e1, l1, e, l)
  PROVE  CallsOK(frames', n, e, l)
<1>1. IsSeq(Callers) /\ frames = Append(Callers, Top) /\ frames' = Append(Callers, At(k, loc))
  BY CallersAndTop DEF CallsOK
<1>2. LocsOK(Callers, n)
  BY <1>1, LocsAppend, Grows DEF CallsOK
<1>3. PICK e1 \in Nat, l1 \in Nat :
        /\ l1 \in e1 .. e1 + 1 /\ Levels(Callers, e1, l1)
        /\ Fits(Top.pc, e1, l1, display_enter, display_lookup)
  BY <1>1, LevelsPop DEF CallsOK
<1>4. At(k, loc).pc = k /\ At(k, loc).loc = loc
  BY DEF At
<1>5. Levels(frames', e, l)
  BY <1>1, <1>3, <1>4, LevelsPush
<1> QED
  BY <1>1, <1>2, <1>4, <1>5, LocsAppend, Appended DEF CallsOK

LEMMA CallOK ==
  ASSUME CallsOK(frames, Len(entries), display_enter, display_lookup), frames # <<>>,
         Len(entries) \in Nat, NEW n \in Nat, Len(entries) <= n,
         NEW e \in Nat, NEW l \in e .. e + 1, NEW p, NEW k, NEW loc, LocOK(loc, n), CallFrom(p, k, loc),
         \A e1 \in Nat : \A l1 \in e1 .. e1 + 1 :
           Fits(Top.pc, e1, l1, display_enter, display_lookup) => Fits(k, e1, l1, e, l)
  PROVE  CallsOK(frames', n, e, l)
<1> DEFINE g == Append(Callers, At(k, loc))
<1>1. IsSeq(Callers) /\ frames = Append(Callers, Top) /\ frames' = Append(g, Frame(p))
  BY CallersAndTop DEF CallsOK
<1>2. LocsOK(Callers, n)
  BY <1>1, LocsAppend, Grows DEF CallsOK
<1>3. PICK e1 \in Nat, l1 \in Nat :
        /\ l1 \in e1 .. e1 + 1 /\ Levels(Callers, e1, l1)
        /\ Fits(Top.pc, e1, l1, display_enter, display_lookup)
  BY <1>1, LevelsPop DEF CallsOK
<1>4. At(k, loc).pc = k /\ At(k, loc).loc = loc
  BY DEF At
<1>5. IsSeq(g) /\ Levels(g, e, l) /\ LocsOK(g, n)
  BY <1>1, <1>2, <1>3, <1>4, LevelsPush, Appended, LocsAppend
<1>6. LocOK(Frame(p).loc, n) /\ Fits(Frame(p).pc, e, l, e, l)
  <2>1. l \in Nat
    OBVIOUS
  <2> QED
    BY <2>1, StartLocals, StartFits
<1> HIDE DEF g
<1>7. Levels(frames', e, l)
  BY <1>1, <1>5, <1>6, LevelsPush
<1> QED
  BY <1>1, <1>5, <1>6, <1>7, LocsAppend, Appended DEF CallsOK

LEMMA BecomeOK ==
  ASSUME CallsOK(frames, Len(entries), display_enter, display_lookup), frames # <<>>,
         Len(entries) \in Nat, NEW p, Become(p), Top.pc = "start"
  PROVE  CallsOK(frames', Len(entries), display_enter, display_lookup)
<1>1. IsSeq(Callers) /\ frames = Append(Callers, Top) /\ frames' = Append(Callers, Frame(p))
  BY CallersAndTop DEF CallsOK
<1>2. LocsOK(Callers, Len(entries))
  BY <1>1, LocsAppend DEF CallsOK
<1>3. PICK e1 \in Nat, l1 \in Nat :
        /\ l1 \in e1 .. e1 + 1 /\ Levels(Callers, e1, l1)
        /\ Fits(Top.pc, e1, l1, display_enter, display_lookup)
  BY <1>1, LevelsPop DEF CallsOK
<1>4. LocOK(Frame(p).loc, Len(entries)) /\ Frame(p).pc = "start"
  BY StartLocals
<1>5. display_enter \in Nat /\ display_lookup \in display_enter .. display_enter + 1
  BY LevelsType DEF CallsOK
<1>6. Levels(frames', display_enter, display_lookup)
  BY <1>1, <1>3, <1>4, <1>5, LevelsPush
<1> QED
  BY <1>1, <1>2, <1>4, <1>6, LocsAppend, Appended DEF CallsOK

LEMMA ReturnOK ==
  ASSUME CallsOK(frames, Len(entries), display_enter, display_lookup), frames # <<>>,
         Len(entries) \in Nat, Return, NEW e, NEW l,
         \A e1 \in Nat : \A l1 \in e1 .. e1 + 1 :
           Fits(Top.pc, e1, l1, display_enter, display_lookup) => e1 = e /\ l1 = l
  PROVE  CallsOK(frames', Len(entries), e, l)
<1>1. IsSeq(Callers) /\ frames = Append(Callers, Top) /\ frames' = Callers
  BY CallersAndTop DEF CallsOK, Return
<1>2. LocsOK(Callers, Len(entries))
  BY <1>1, LocsAppend DEF CallsOK
<1>3. PICK e1 \in Nat, l1 \in Nat :
        /\ l1 \in e1 .. e1 + 1 /\ Levels(Callers, e1, l1)
        /\ Fits(Top.pc, e1, l1, display_enter, display_lookup)
  BY <1>1, LevelsPop DEF CallsOK
<1> QED
  BY <1>1, <1>2, <1>3 DEF CallsOK

LEMMA NoCallsOK ==
  ASSUME NEW n, NEW e \in Nat, NEW l \in e .. e + 1
  PROVE  CallsOK(<<>>, n, e, l)
<1>1. IsSeq(<<>>) /\ Len(<<>>) = 0 /\ 1 .. 0 = {}
  BY CountEmpty
<1>2. LocsOK(<<>>, n)
  BY <1>1 DEF LocsOK
<1> QED
  BY <1>1, <1>2, LevelsEmpty DEF CallsOK

-----------------------------------------------------------------------------
(* Points at which the counters are what they were when the call began. *)
Even(k) == k \notin EnterPoints \cup LookupPoints \cup {"restore"}
EvenPoints == {"start", "more", "equals", "assign", "close", "period", "field", "rbrack", "module", "hide"}

LEMMA EvenFits ==
  /\ \A k \in EvenPoints : Even(k)
  /\ \A a, b : Even(a) /\ Even(b) =>
       \A e, l, e1 \in Nat : \A l1 \in e1 .. e1 + 1 :
         Fits(a, e1, l1, e, l) => Fits(b, e1, l1, e, l) /\ e1 = e /\ l1 = l
BY DEF Even, EvenPoints, Fits, At1, EnterPoints, LookupPoints

LEMMA WellFormedFacts ==
  ASSUME WellFormed, Shallow
  PROVE  /\ LookupOK
         /\ Len(entries) \in Nat /\ display_enter \in Nat /\ display_lookup \in Nat
         /\ display_lookup \in display_enter .. display_enter + 1
         /\ \A p, k : In(p, k) => frames # <<>> /\ LocOK(Loc, Len(entries)) /\ Top.pc = k
<1>1. Len(entries) \in Nat
  BY SeqLength DEF WellFormed, TableOK
<1>2. display_enter \in Nat /\ display_lookup \in display_enter .. display_enter + 1
  BY LevelsType DEF WellFormed, CallsOK
<1>3. display_enter < DISPLAYMAX /\ display_lookup < DISPLAYMAX
  BY <1>2, ReaderAssumption DEF Shallow
<1>4. ASSUME frames # <<>> PROVE LocOK(Loc, Len(entries))
  BY <1>4, CallersAndTop, LocsAppend DEF WellFormed, CallsOK, Loc
<1>5. LookupOK
  BY <1>2, <1>3 DEF WellFormed, LookupOK
<1> QED
  BY <1>1, <1>2, <1>4, <1>5 DEF In

(* Steps between even points that leave the table alone. *)
LEMMA EvenGoto ==
  ASSUME WellFormed, Shallow, frames # <<>>, Even(Top.pc), NEW k, Even(k), NEW loc, Goto(k, loc),
         NEW n \in Nat, Len(entries) <= n, LocOK(loc, n)
  PROVE  CallsOK(frames', n, display_enter, display_lookup)
<1>1. \A e1 \in Nat : \A l1 \in e1 .. e1 + 1 :
        Fits(Top.pc, e1, l1, display_enter, display_lookup)
          => Fits(k, e1, l1, display_enter, display_lookup)
  BY WellFormedFacts, EvenFits
<1> QED
  BY <1>1, WellFormedFacts, GotoOK DEF WellFormed

LEMMA EvenCall ==
  ASSUME WellFormed, Shallow, frames # <<>>, Even(Top.pc), NEW k, Even(k), NEW p, Call(p, k)
  PROVE  CallsOK(frames', Len(entries), display_enter, display_lookup)
<1>1. \A e1 \in Nat : \A l1 \in e1 .. e1 + 1 :
        Fits(Top.pc, e1, l1, display_enter, display_lookup)
          => Fits(k, e1, l1, display_enter, display_lookup)
  BY WellFormedFacts, EvenFits
<1>2. LocOK(Loc, Len(entries)) /\ CallFrom(p, k, Loc)
  BY CallersAndTop, LocsAppend DEF WellFormed, CallsOK, Loc, Call
<1> QED
  BY <1>1, <1>2, WellFormedFacts, CallOK DEF WellFormed

LEMMA EvenReturn ==
  ASSUME WellFormed, Shallow, frames # <<>>, Even(Top.pc), Return
  PROVE  CallsOK(frames', Len(entries), display_enter, display_lookup)
<1>1. \A e1 \in Nat : \A l1 \in e1 .. e1 + 1 :
        Fits(Top.pc, e1, l1, display_enter, display_lookup)
          => e1 = display_enter /\ l1 = display_lookup
  BY WellFormedFacts, EvenFits
<1> QED
  BY <1>1, WellFormedFacts, ReturnOK DEF WellFormed

LEMMA AbortOK ==
  ASSUME WellFormed, Shallow
  PROVE  CallsOK(<<>>, Len(entries), display_enter, display_lookup)
BY WellFormedFacts, NoCallsOK

LEMMA DefinitionOK == ASSUME WellFormed, Shallow, Definition PROVE WellFormed'
<1> USE DEF Same, table, nest
<1>0. /\ Len(entries) \in Nat /\ LookupOK
      /\ \A p, k : In(p, k) => frames # <<>> /\ LocOK(Loc, Len(entries)) /\ Top.pc = k
  BY WellFormedFacts
<1>1. \A k \in {"start", "equals", "assign", "close"} : Even(k)
  BY EvenFits DEF EvenPoints
<1>2. CASE /\ In("definition", "start") /\ Sym \in Compound
           /\ Call("compound_def", "close") /\ UNCHANGED <<text, table, nest>> /\ Same
  BY <1>0, <1>1, <1>2, EvenCall DEF WellFormed
<1>3. CASE /\ In("definition", "start") /\ Sym \notin Compound \cup {"ATOM"}
           /\ Return /\ UNCHANGED <<text, table, nest>> /\ Same
  BY <1>0, <1>1, <1>3, EvenReturn DEF WellFormed
<1>4. CASE /\ In("definition", "start")
           /\ IF ~Hidden /\ Overwrites(sym.id)
              THEN enterglobal(sym.id) /\ Goto("equals", [Loc EXCEPT !.here = New])
              ELSE enteratom(sym.id) /\ Goto("equals", [Loc EXCEPT !.here = Here(sym.id)])
           /\ display' = Entered /\ UNCHANGED <<display_enter, display_lookup>> /\ Same
  <2> DEFINE m == Len(entries')
  <2>1. PICK h : /\ Goto("equals", [Loc EXCEPT !.here = h]) /\ h \in 0 .. m
                 /\ TableOK(entries', hashentry') /\ m \in Nat /\ Len(entries) <= m
                 /\ DisplayOK(Entered, m)
    BY <1>0, <1>4, AtomEnters, GlobalEnters
  <2>2. LocOK([Loc EXCEPT !.here = h], m)
    BY <1>0, <1>4, <2>1, Grows DEF LocOK
  <2>3. CallsOK(frames', m, display_enter, display_lookup)
    BY <1>0, <1>1, <1>4, <2>1, <2>2, EvenGoto
  <2>4. TermOK(term, m)
    BY <1>0, <2>1, Grows DEF WellFormed
  <2> QED
    BY <1>4, <2>1, <2>3, <2>4 DEF WellFormed
<1>5. CASE In("definition", "equals") /\ Call("readterm", "assign") /\ UNCHANGED <<table, nest>> /\ Same
  BY <1>0, <1>1, <1>5, EvenCall DEF WellFormed
<1>6. CASE /\ In("definition", "assign")
           /\ entries' = [entries EXCEPT ![Loc.here].body = term, ![Loc.here].is_module = FALSE]
           /\ Return /\ UNCHANGED <<text, hashentry, nest>> /\ Same
  <2> DEFINE p == Loc.here
             y == [entries EXCEPT ![p].body = term]
             z == [y EXCEPT ![p].is_module = FALSE]
  <2>1. entries' = z
    BY <1>6
  <2>2. ASSUME NEW e, TableOK(e, hashentry), Len(e) = Len(entries)
        PROVE  /\ TableOK([e EXCEPT ![p].body = term], hashentry)
               /\ Len([e EXCEPT ![p].body = term]) = Len(entries)
               /\ TableOK([e EXCEPT ![p].is_module = FALSE], hashentry)
               /\ Len([e EXCEPT ![p].is_module = FALSE]) = Len(entries)
    <3>1. p \in 1 .. Len(e) => /\ EntryOK([e[p] EXCEPT !.body = term], p, Len(e))
                               /\ EntryOK([e[p] EXCEPT !.is_module = FALSE], p, Len(e))
      <4>1. 0 \in 0 .. Len(e) /\ RefsIn(term, Len(e))
        BY <1>0, <2>2 DEF WellFormed, TermOK
      <4> QED
        BY <2>2, <4>1, EntryChanged DEF TableOK
    <3> QED
      BY <2>2, <3>1, TableAssigned
  <2>3. TableOK(entries', hashentry') /\ Len(entries') = Len(entries)
    <3>1. TableOK(y, hashentry) /\ Len(y) = Len(entries)
      BY <2>2 DEF WellFormed
    <3> HIDE DEF y
    <3>2. TableOK(z, hashentry) /\ Len(z) = Len(entries)
      BY <2>2, <3>1
    <3> QED
      BY <1>6, <2>1, <3>2
  <2>4. CallsOK(frames', Len(entries), display_enter, display_lookup)
    BY <1>0, <1>1, <1>6, EvenReturn
  <2> QED
    BY <1>6, <2>3, <2>4 DEF WellFormed
<1>7. CASE In("definition", "close") /\ Return /\ UNCHANGED <<table, nest>> /\ Same
  BY <1>0, <1>1, <1>7, EvenReturn DEF WellFormed
<1> QED
  BY <1>2, <1>3, <1>4, <1>5, <1>6, <1>7 DEF Definition

LEMMA DefsequenceOK == ASSUME WellFormed, Shallow, Defsequence PROVE WellFormed'
<1> USE DEF Same, table, nest
<1>0. \A p, k : In(p, k) => frames # <<>> /\ Top.pc = k
  BY WellFormedFacts
<1>1. Even("start") /\ Even("more")
  BY EvenFits DEF EvenPoints
<1>2. CASE \E k \in {"start", "more"} :
             In("defsequence", k) /\ Call("definition", "more") /\ UNCHANGED <<table, nest>> /\ Same
  BY <1>0, <1>1, <1>2, EvenCall DEF WellFormed
<1>3. CASE In("defsequence", "more") /\ Return /\ UNCHANGED <<table, nest>> /\ Same
  BY <1>0, <1>1, <1>3, EvenReturn DEF WellFormed
<1> QED
  BY <1>2, <1>3 DEF Defsequence

LEMMA CompoundDefOK == ASSUME WellFormed, Shallow, CompoundDef PROVE WellFormed'
<1> USE DEF Same, table, nest
<1>0. /\ Len(entries) \in Nat /\ UNCHANGED <<table, nest>> /\ Same
      /\ frames # <<>> /\ LocOK(Loc, Len(entries)) /\ Top.pc = "start"
  BY WellFormedFacts DEF CompoundDef
<1>1. Even("start") /\ Even("module") /\ Even("hide")
  BY EvenFits DEF EvenPoints
<1>2. CASE Goto("module", Loc) \/ Goto("hide", Loc)
  BY <1>0, <1>1, <1>2, EvenGoto DEF WellFormed
<1>3. CASE Become("defsequence")
  BY <1>0, <1>3, BecomeOK DEF WellFormed
<1>4. CASE Return
  BY <1>0, <1>1, <1>4, EvenReturn DEF WellFormed
<1> QED
  BY <1>2, <1>3, <1>4 DEF CompoundDef

LEMMA ModuleOK == ASSUME WellFormed, Shallow, Module PROVE WellFormed'
<1> USE DEF Same, table, nest
<1>0. /\ Len(entries) \in Nat /\ LookupOK /\ display_enter \in Nat
      /\ display_lookup \in display_enter .. display_enter + 1
      /\ \A p, k : In(p, k) => frames # <<>> /\ LocOK(Loc, Len(entries)) /\ Top.pc = k
  BY WellFormedFacts
<1>1. CASE Abort /\ UNCHANGED <<text, table, nest, term>>
  BY <1>1, AbortOK DEF Abort, WellFormed, Statuses
<1>2. CASE /\ In("compound_def", "module") /\ enteratom(sym.id)
           /\ CallWith("compound_def", "fields", Here(sym.id))
           /\ display_enter' = display_enter + 1 /\ display_lookup' = display_lookup + 1
           /\ display' = [Entered EXCEPT ![display_enter + 1] = NULL] /\ Same
  <2> DEFINE m == Len(entries')  h == Here(sym.id)
  <2>1. /\ TableOK(entries', hashentry') /\ m \in Nat /\ Len(entries) <= m
        /\ h \in 0 .. m /\ DisplayOK(Entered, m)
    BY <1>0, <1>2, AtomEnters
  <2>2. LocOK([Loc EXCEPT !.here = h], m)
    BY <1>0, <1>2, <2>1, Grows DEF LocOK
  <2>3. \A e1 \in Nat : \A l1 \in e1 .. e1 + 1 :
          Fits(Top.pc, e1, l1, display_enter, display_lookup)
            => Fits("fields", e1, l1, display_enter + 1, display_lookup + 1)
    BY <1>0, <1>2 DEF Fits, At1, EnterPoints, LookupPoints
  <2>4. display_enter + 1 \in Nat /\ display_lookup + 1 \in display_enter + 1 .. display_enter + 1 + 1
    BY <1>0
  <2>5. CallsOK(frames', m, display_enter + 1, display_lookup + 1)
    <3>1. CallFrom("compound_def", "fields", [Loc EXCEPT !.here = h]) /\ frames # <<>>
      BY <1>0, <1>2 DEF CallWith
    <3> QED
      BY <1>0, <2>1, <2>2, <2>3, <2>4, <3>1, CallOK DEF WellFormed
  <2>6. DisplayOK(display', m) /\ TermOK(term, m)
    BY <1>0, <1>2, <2>1, Grows DEF DisplayOK, NULL, WellFormed
  <2> QED
    BY <1>2, <2>1, <2>5, <2>6 DEF WellFormed
<1>3. CASE /\ In("compound_def", "fields")
           /\ entries' = [entries EXCEPT ![Loc.here].is_module = TRUE,
                                         ![Loc.here].fields = display[display_enter]]
           /\ display_enter' = display_enter - 1 /\ display_lookup' = display_lookup - 1
           /\ Return /\ UNCHANGED <<text, hashentry, display>> /\ Same
  <2> DEFINE p == Loc.here
             f == display[display_enter]
             y == [entries EXCEPT ![p].is_module = TRUE]
             z == [y EXCEPT ![p].fields = f]
  <2>1. f \in 0 .. Len(entries) /\ entries' = z
    BY <1>0, <1>3, ReaderAssumption DEF LookupOK, DisplayOK
  <2>2. ASSUME NEW e, TableOK(e, hashentry), Len(e) = Len(entries)
        PROVE  /\ TableOK([e EXCEPT ![p].is_module = TRUE], hashentry)
               /\ Len([e EXCEPT ![p].is_module = TRUE]) = Len(entries)
               /\ TableOK([e EXCEPT ![p].fields = f], hashentry)
               /\ Len([e EXCEPT ![p].fields = f]) = Len(entries)
    <3>1. p \in 1 .. Len(e) => /\ EntryOK([e[p] EXCEPT !.is_module = TRUE], p, Len(e))
                               /\ EntryOK([e[p] EXCEPT !.fields = f], p, Len(e))
      <4>1. f \in 0 .. Len(e) /\ RefsIn(term, Len(e))
        BY <2>1, <2>2 DEF WellFormed, TermOK
      <4> HIDE DEF f
      <4> QED
        BY <2>2, <4>1, EntryChanged DEF TableOK
    <3> HIDE DEF f
    <3> QED
      BY <2>2, <3>1, TableAssigned
  <2>3. TableOK(entries', hashentry') /\ Len(entries') = Len(entries)
    <3>1. TableOK(y, hashentry) /\ Len(y) = Len(entries)
      BY <2>2 DEF WellFormed
    <3> HIDE DEF y, f
    <3>2. TableOK(z, hashentry) /\ Len(z) = Len(entries)
      BY <2>2, <3>1
    <3> QED
      BY <1>3, <2>1, <3>2
  <2>4. \A e1 \in Nat : \A l1 \in e1 .. e1 + 1 :
          Fits(Top.pc, e1, l1, display_enter, display_lookup)
            => e1 = display_enter - 1 /\ l1 = display_lookup - 1
    BY <1>0, <1>3 DEF Fits, At1, EnterPoints, LookupPoints
  <2>5. CallsOK(frames', Len(entries), display_enter - 1, display_lookup - 1)
    BY <1>0, <1>3, <2>4, ReturnOK DEF WellFormed
  <2> QED
    BY <1>3, <2>3, <2>5 DEF WellFormed
<1> QED
  BY <1>1, <1>2, <1>3 DEF Module

(* The sections: the counters go up and down together or one by one, and   *)
(* what a nested section puts back is an entry.                            *)
LEMMA HideOK == ASSUME WellFormed, Shallow, Hide PROVE WellFormed'
<1> USE DEF Same, table, nest
<1>0. /\ Len(entries) \in Nat /\ LookupOK /\ display_enter \in Nat /\ display_lookup \in Nat
      /\ display_lookup \in display_enter .. display_enter + 1
      /\ \A p, k : In(p, k) => frames # <<>> /\ LocOK(Loc, Len(entries)) /\ Top.pc = k
  BY WellFormedFacts
<1>d. display_lookup \in 0 .. DISPLAYMAX - 1 /\ display[display_lookup] \in 0 .. Len(entries)
  BY <1>0, ReaderAssumption DEF LookupOK, DisplayOK
<1>1. CASE OpenNested
  <2>1. /\ CallFrom("defsequence", "nested", [Loc EXCEPT !.here = display[display_lookup]])
        /\ frames # <<>> /\ LocOK(Loc, Len(entries)) /\ Top.pc = "hide"
        /\ display_lookup = display_enter + 1
    BY <1>0, <1>1 DEF OpenNested, CallWith
  <2>2. LocOK([Loc EXCEPT !.here = display[display_lookup]], Len(entries))
    BY <1>d, <2>1 DEF LocOK
  <2>3. \A e1 \in Nat : \A l1 \in e1 .. e1 + 1 :
          Fits(Top.pc, e1, l1, display_enter, display_lookup)
            => Fits("nested", e1, l1, display_enter + 1, display_lookup)
    BY <1>0, <2>1 DEF Fits, At1, EnterPoints, LookupPoints
  <2>4. display_enter + 1 \in Nat /\ display_lookup \in display_enter + 1 .. display_enter + 1 + 1
    BY <1>0, <2>1
  <2>5. CallsOK(frames', Len(entries), display_enter + 1, display_lookup)
    BY <1>0, <2>1, <2>2, <2>3, <2>4, CallOK DEF WellFormed
  <2> QED
    BY <1>1, <2>5 DEF OpenNested, WellFormed
<1>2. CASE OpenLevel
  <2>1. /\ CallFrom("defsequence", "hidden", Loc)
        /\ frames # <<>> /\ LocOK(Loc, Len(entries)) /\ Top.pc = "hide"
        /\ display_lookup = display_enter
    BY <1>0, <1>2 DEF OpenLevel, Call
  <2>2. \A e1 \in Nat : \A l1 \in e1 .. e1 + 1 :
          Fits(Top.pc, e1, l1, display_enter, display_lookup)
            => Fits("hidden", e1, l1, display_enter + 1, display_lookup + 1)
    BY <1>0, <2>1 DEF Fits, At1, EnterPoints, LookupPoints
  <2>3. display_enter + 1 \in Nat /\ display_lookup + 1 \in display_enter + 1 .. display_enter + 1 + 1
    BY <1>0
  <2>4. CallsOK(frames', Len(entries), display_enter + 1, display_lookup + 1)
    BY <1>0, <2>1, <2>2, <2>3, CallOK DEF WellFormed
  <2>5. DisplayOK(display', Len(entries))
    BY <1>0, <1>2 DEF OpenLevel, WellFormed, DisplayOK, NULL
  <2> QED
    BY <1>2, <2>4, <2>5 DEF OpenLevel, WellFormed
<1>3. CASE EndHidden
  <2>1. PICK k \in {"nested", "hidden"}, after \in {"restore", "leave"} :
          /\ frames # <<>> /\ LocOK(Loc, Len(entries)) /\ Top.pc = k
          /\ CallFrom("compound_def", after, Loc)
          /\ after = IF k = "nested" THEN "restore" ELSE "leave"
    BY <1>0, <1>3 DEF EndHidden, Call
  <2>2. /\ display_enter - 1 \in Nat
        /\ display_lookup \in display_enter - 1 .. display_enter - 1 + 1
        /\ \A e1 \in Nat : \A l1 \in e1 .. e1 + 1 :
             Fits(Top.pc, e1, l1, display_enter, display_lookup)
               => Fits(after, e1, l1, display_enter - 1, display_lookup)
    <3>1. PICK e1 \in Nat, l1 \in Nat : l1 \in e1 .. e1 + 1
                                       /\ Fits(Top.pc, e1, l1, display_enter, display_lookup)
      BY <2>1, CallersAndTop, LevelsPop DEF WellFormed, CallsOK
    <3>2. display_enter - 1 \in Nat /\ display_lookup \in display_enter - 1 .. display_enter - 1 + 1
      BY <1>0, <2>1, <3>1 DEF Fits, At1, EnterPoints, LookupPoints
    <3> QED
      BY <1>0, <2>1, <3>2 DEF Fits, At1, EnterPoints, LookupPoints
  <2>3. CallsOK(frames', Len(entries), display_enter - 1, display_lookup)
    BY <1>0, <2>1, <2>2, CallOK DEF WellFormed
  <2> QED
    BY <1>3, <2>3 DEF EndHidden, WellFormed
<1>4. CASE RestoreNested
  <2>1. frames # <<>> /\ LocOK(Loc, Len(entries)) /\ Top.pc = "restore"
    BY <1>0, <1>4 DEF RestoreNested
  <2>2. \A e1 \in Nat : \A l1 \in e1 .. e1 + 1 :
          Fits(Top.pc, e1, l1, display_enter, display_lookup)
            => e1 = display_enter /\ l1 = display_lookup
    BY <1>0, <2>1 DEF Fits, At1, EnterPoints, LookupPoints
  <2>3. CallsOK(frames', Len(entries), display_enter, display_lookup)
    BY <1>0, <1>4, <2>1, <2>2, ReturnOK DEF WellFormed, RestoreNested
  <2>4. DisplayOK(display', Len(entries))
    BY <1>0, <1>4, <2>1 DEF RestoreNested, WellFormed, DisplayOK, LocOK
  <2> QED
    BY <1>4, <2>3, <2>4 DEF RestoreNested, WellFormed
<1>5. CASE LeaveLevel
  <2>1. frames # <<>> /\ Top.pc = "leave"
    BY <1>0, <1>5 DEF LeaveLevel
  <2>2. \A e1 \in Nat : \A l1 \in e1 .. e1 + 1 :
          Fits(Top.pc, e1, l1, display_enter, display_lookup)
            => e1 = display_enter /\ l1 = display_lookup - 1
    BY <1>0, <2>1 DEF Fits, At1, EnterPoints, LookupPoints
  <2>3. CallsOK(frames', Len(entries), display_enter, display_lookup - 1)
    BY <1>0, <1>5, <2>1, <2>2, ReturnOK DEF WellFormed, LeaveLevel
  <2> QED
    BY <1>5, <2>3 DEF LeaveLevel, WellFormed
<1> QED
  BY <1>1, <1>2, <1>3, <1>4, <1>5 DEF Hide

-----------------------------------------------------------------------------
(* Reading a term: an item is added to the list that is being read.        *)
LEMMA WithOK ==
  ASSUME LocOK(Loc, Len(entries)), Len(entries) \in Nat, NEW n \in Nat, Len(entries) <= n,
         NEW item, item.ref \in 0 .. n
  PROVE  LocOK(With(item), n)
<1>1. TermOK(Loc.list, n) /\ Loc = [here |-> Loc.here, list |-> Loc.list]
  BY Grows DEF LocOK
<1> DEFINE l == Append(Loc.list, item)
<1>2. /\ IsSeq(l) /\ DOMAIN l = 1 .. Len(Loc.list) + 1 /\ Len(Loc.list) \in Nat
      /\ l[Len(Loc.list) + 1] = item
      /\ \A i \in 1 .. Len(Loc.list) : l[i] = Loc.list[i]
  BY <1>1, Appended DEF TermOK
<1>3. \A i \in 1 .. Len(Loc.list) : Loc.list[i].ref \in 0 .. n
  BY <1>1, SeqLength DEF TermOK, RefsIn
<1>5. With(item) = [here |-> NULL, list |-> l]
  <2>1. Loc = [here |-> Loc.here, list |-> Loc.list]
    BY <1>1
  <2> DEFINE y == [Loc EXCEPT !.list = Append(@, item)]
  <2>2. y = [here |-> Loc.here, list |-> l]
    BY <2>1
  <2>3. With(item) = [y EXCEPT !.here = NULL]
    BY DEF With
  <2> HIDE DEF y
  <2> QED
    BY <2>2, <2>3
<1> HIDE DEF l
<1>4. \A i \in 1 .. Len(Loc.list) + 1 : l[i].ref \in 0 .. n
  <2> SUFFICES ASSUME NEW i \in 1 .. Len(Loc.list) + 1 PROVE l[i].ref \in 0 .. n
    OBVIOUS
  <2>1. CASE i = Len(Loc.list) + 1
    BY <1>2, <2>1
  <2>2. CASE i # Len(Loc.list) + 1
    <3>1. i \in 1 .. Len(Loc.list)
      BY <1>2, <2>2
    <3> QED
      BY <1>2, <1>3, <3>1
  <2> QED
    BY <2>1, <2>2
<1> QED
  BY <1>2, <1>4, <1>5 DEF LocOK, TermOK, RefsIn, NULL

LEMMA HereOK ==
  ASSUME LocOK(Loc, Len(entries)), Len(entries) \in Nat, NEW n \in Nat, Len(entries) <= n,
         NEW h \in 0 .. n
  PROVE  LocOK([Loc EXCEPT !.here = h], n)
BY Grows DEF LocOK

(* A symbol of a term: the name may be new, and the list or the fields     *)
(* that are searched next are in order.                                    *)
LEMMA NameRead ==
  ASSUME WellFormed, Shallow, frames # <<>>, Even(Top.pc), NEW id, lookup(id),
         NEW k, Even(k), NEW loc, Goto(k, loc), LocOK(loc, Len(entries')),
         UNCHANGED <<nest, term, status>>
  PROVE  WellFormed'
<1> DEFINE m == Len(entries')
<1>1. /\ TableOK(entries', hashentry') /\ m \in Nat /\ Len(entries) \in Nat /\ Len(entries) <= m
  BY WellFormedFacts, LookupEnters
<1>2. CallsOK(frames', m, display_enter, display_lookup)
  BY <1>1, EvenGoto
<1>3. DisplayOK(display, m) /\ TermOK(term, m)
  BY <1>1, Grows DEF WellFormed
<1> QED
  BY <1>1, <1>2, <1>3 DEF WellFormed, nest

LEMMA ReadAtomOK == ASSUME WellFormed, Shallow, ReadAtom PROVE WellFormed'
<1> DEFINE p == Location(sym.id)  m == Len(entries')
<1>1. /\ frames # <<>> /\ LocOK(Loc, Len(entries)) /\ Top.pc = "start" /\ LookupOK
      /\ lookup(sym.id) /\ UNCHANGED <<nest, term, status>>
  BY WellFormedFacts DEF ReadAtom, Same
<1>2. Even(Top.pc) /\ Even("start") /\ Even("period")
  BY <1>1, EvenFits DEF EvenPoints
<1>3. m \in Nat /\ Len(entries) \in Nat /\ Len(entries) <= m /\ p \in 0 .. m
  BY <1>1, LookupEnters
<1>4. CASE Found(sym.id) # NULL /\ entries[p].is_module /\ Goto("period", [Loc EXCEPT !.here = entries[p].fields])
  <2>1. entries[p].fields \in 0 .. m
    <3>1. p = Found(sym.id)
      BY <1>4 DEF Location
    <3>2. EntryOK(entries[p], p, Len(entries))
      BY <1>1, <1>4, <3>1, FoundOK
    <3> QED
      BY <1>3, <3>2 DEF EntryOK
  <2>2. LocOK([Loc EXCEPT !.here = entries[p].fields], m)
    BY <1>1, <1>3, <2>1, HereOK
  <2> QED
    BY <1>1, <1>2, <1>4, <2>2, NameRead
<1>5. CASE Goto("start", With(Reference(p)))
  <2>1. LocOK(With(Reference(p)), m)
    BY <1>1, <1>3, WithOK DEF Reference
  <2> QED
    BY <1>1, <1>2, <1>5, <2>1, NameRead
<1> QED
  BY <1>4, <1>5 DEF ReadAtom

LEMMA ReadFieldOK == ASSUME WellFormed, Shallow, ReadField PROVE WellFormed'
<1> USE DEF Same, table, nest
<1>0. /\ Len(entries) \in Nat /\ LookupOK
      /\ \A p, k : In(p, k) => frames # <<>> /\ LocOK(Loc, Len(entries)) /\ Top.pc = k
  BY WellFormedFacts
<1>1. Even("start") /\ Even("period") /\ Even("field")
  BY EvenFits DEF EvenPoints
<1>2. CASE In("readterm", "period") /\ Goto("field", Loc) /\ UNCHANGED <<table, nest>> /\ Same
  <2>1. CallsOK(frames', Len(entries), display_enter, display_lookup)
    BY <1>0, <1>1, <1>2, EvenGoto
  <2> QED
    BY <1>2, <2>1 DEF WellFormed
<1>3. CASE /\ In("readterm", "field") /\ lookup(sym.id) /\ UNCHANGED <<nest, term>>
           /\ LET p == FindFrom(Loc.here, sym.id) IN
              \/ Abort
              \/ /\ p # NULL /\ UNCHANGED status
                 /\ \/ Goto("period", [Loc EXCEPT !.here = entries[p].fields])
                    \/ Goto("start", With(Reference(p)))
  <2> DEFINE p == FindFrom(Loc.here, sym.id)  m == Len(entries')
  <2>1. frames # <<>> /\ LocOK(Loc, Len(entries)) /\ Even(Top.pc)
    BY <1>0, <1>1, <1>3
  <2>2. /\ TableOK(entries', hashentry')
        /\ m \in Nat /\ Len(entries) \in Nat /\ Len(entries) <= m
    BY <1>0, <1>3, LookupEnters
  <2>3. p \in 0 .. Len(entries) /\ (p # NULL => EntryOK(entries[p], p, Len(entries)))
    BY <1>0, <2>1, FromOK DEF LookupOK, LocOK
  <2>4. CASE Abort
    <3>1. CallsOK(<<>>, m, display_enter, display_lookup)
      BY WellFormedFacts, NoCallsOK
    <3>2. DisplayOK(display, m) /\ TermOK(term, m)
      BY <2>2, Grows DEF WellFormed
    <3> QED
      BY <1>3, <2>2, <2>4, <3>1, <3>2 DEF WellFormed, Abort, Statuses
  <2>5. CASE p # NULL /\ Goto("period", [Loc EXCEPT !.here = entries[p].fields]) /\ UNCHANGED status
    <3>1. LocOK([Loc EXCEPT !.here = entries[p].fields], m)
      <4>1. entries[p].fields \in 0 .. m
        BY <2>2, <2>3, <2>5 DEF EntryOK
      <4> QED
        BY <2>1, <2>2, <4>1, HereOK
    <3> QED
      BY <1>1, <1>3, <2>1, <2>5, <3>1, NameRead
  <2>6. CASE Goto("start", With(Reference(p))) /\ UNCHANGED status
    <3>1. LocOK(With(Reference(p)), m)
      <4>1. Reference(p).ref \in 0 .. m
        BY <2>2, <2>3 DEF Reference
      <4> QED
        BY <2>1, <2>2, <4>1, WithOK
    <3> QED
      BY <1>1, <1>3, <2>1, <2>6, <3>1, NameRead
  <2> QED
    BY <1>3, <2>4, <2>5, <2>6
<1> QED
  BY <1>2, <1>3 DEF ReadField

LEMMA ListsOK ==
  ASSUME WellFormed, Shallow, NoFactor \/ ReadLiteral \/ ReadList \/ EndTerm
  PROVE  WellFormed'
<1> USE DEF Same, table, nest
<1>0. /\ Len(entries) \in Nat /\ Len(entries) <= Len(entries) /\ 0 \in 0 .. Len(entries)
      /\ \A p, k : In(p, k) => frames # <<>> /\ LocOK(Loc, Len(entries)) /\ Top.pc = k
  BY WellFormedFacts
<1>1. Even("start") /\ Even("rbrack")
  BY EvenFits DEF EvenPoints
<1>2. CASE NoFactor
  BY <1>2, AbortOK DEF NoFactor, WellFormed, Statuses
<1>3. ASSUME NEW item, item.ref = 0, NEW k \in {"start", "rbrack"}, In("readterm", k),
             Goto("start", With(item)), UNCHANGED <<table, nest>>, Same
      PROVE  WellFormed'
  <2>1. LocOK(With(item), Len(entries))
    BY <1>0, <1>3, WithOK
  <2>2. CallsOK(frames', Len(entries), display_enter, display_lookup)
    BY <1>0, <1>1, <1>3, <2>1, EvenGoto
  <2> QED
    BY <1>3, <2>2 DEF WellFormed
<1>4. CASE ReadLiteral
  <2>1. Literal(sym.id).ref = 0
    BY DEF Literal, NULL
  <2> QED
    BY <1>3, <1>4, <2>1 DEF ReadLiteral
<1>5. CASE In("readterm", "start") /\ Call("readterm", "rbrack") /\ UNCHANGED <<table, nest>> /\ Same
  BY <1>0, <1>1, <1>5, EvenCall DEF WellFormed
<1>6. CASE /\ In("readterm", "rbrack") /\ Goto("start", With(Sublist(term)))
           /\ UNCHANGED <<table, nest>> /\ Same
  <2>1. Sublist(term).ref = 0
    BY DEF Sublist, NULL
  <2> QED
    BY <1>3, <1>6, <2>1
<1>7. CASE EndTerm
  <2>1. CallsOK(frames', Len(entries), display_enter, display_lookup)
    BY <1>0, <1>1, <1>7, EvenReturn DEF EndTerm
  <2>2. TermOK(term', Len(entries))
    BY <1>0, <1>7 DEF EndTerm, LocOK
  <2> QED
    BY <1>7, <2>1, <2>2 DEF EndTerm, WellFormed
<1> QED
  BY <1>2, <1>4, <1>5, <1>6, <1>7 DEF ReadList

(* The main loop and the input leave the table alone; a definition or a    *)
(* term begins with a call that has done nothing yet.                      *)
LEMMA MainLoopOK ==
  ASSUME WellFormed, Shallow,
         \/ TakeSymbol \/ ReadLine \/ EndOfFile
         \/ MustInclude \/ NextInput \/ Begin \/ Defined \/ Execute \/ UNCHANGED vars
  PROVE  WellFormed'
<1>1. ASSUME UNCHANGED <<table, nest, frames, term>>, status' \in Statuses
      PROVE  WellFormed'
  BY <1>1 DEF WellFormed, table, nest
<1>2. status \in Statuses
  BY DEF WellFormed
<1>3. CASE Begin
  <2>1. PICK p : frames' = <<Frame(p)>> /\ status' \in Statuses
    BY <1>3 DEF Begin, Statuses
  <2>2. UNCHANGED <<table, nest, term>>
    BY <1>3 DEF Begin
  <2>3. /\ Len(entries) \in Nat /\ display_enter \in Nat /\ display_lookup \in Nat
        /\ display_lookup \in display_enter .. display_enter + 1
    BY WellFormedFacts
  <2>4. frames' = Append(<<>>, Frame(p))
    BY <2>1
  <2>5. CallsOK(<<>>, Len(entries), display_enter, display_lookup)
    BY <2>3, NoCallsOK
  <2>6. /\ LocOK(Frame(p).loc, Len(entries))
        /\ Fits(Frame(p).pc, display_enter, display_lookup, display_enter, display_lookup)
    BY <2>3, StartLocals, StartFits
  <2>7. CallsOK(frames', Len(entries), display_enter, display_lookup)
    BY <2>3, <2>4, <2>5, <2>6, LevelsPush, LocsAppend, Appended DEF CallsOK
  <2> QED
    BY <2>1, <2>2, <2>7 DEF WellFormed, table, nest
<1>4. CASE TakeSymbol \/ ReadLine \/ EndOfFile
  BY <1>1, <1>2, <1>4 DEF TakeSymbol, ReadLine, EndOfFile, Statuses
<1>5. CASE MustInclude \/ NextInput
  BY <1>1, <1>5 DEF MustInclude, NextInput, Statuses
<1>6. CASE Defined \/ Execute
  BY <1>1, <1>6 DEF Defined, Execute, Statuses
<1>7. CASE UNCHANGED vars
  BY <1>1, <1>2, <1>7 DEF vars
<1> QED
  BY <1>3, <1>4, <1>5, <1>6, <1>7

LEMMA WellFormedStep == ASSUME WellFormed, Shallow, [Next]_vars PROVE WellFormed'
BY DefinitionOK, DefsequenceOK, CompoundDefOK, ModuleOK, HideOK, ReadAtomOK, ReadFieldOK,
   ListsOK, MainLoopOK DEF Next

(* At first the table holds the operators, each linked to the one before.  *)
LEMMA WellFormedInit == Init => WellFormed
<1> SUFFICES ASSUME Init PROVE WellFormed
  OBVIOUS
<1> DEFINE n == Len(Builtins)
<1>1. n \in Nat /\ DOMAIN Builtins = 1 .. n
  BY ReaderAssumption
<1>2. entries = [i \in 1 .. n |-> Entry(Builtins[i], i - 1)] /\ hashentry = n
  BY <1>1 DEF Init
<1>3. IsSeq(entries) /\ Len(entries) = n
  <2> DEFINE X == {Entry(Builtins[i], i - 1) : i \in 1 .. n}
  <2>1. entries \in [1 .. n -> X]
    BY <1>2
  <2>2. entries \in Seq(X) /\ Len(entries) = n
    BY <1>1, <2>1
  <2> QED
    BY <2>2 DEF IsSeq
<1>4. TermOK(<<>>, n)
  <2>1. IsSeq(<<>>) /\ DOMAIN <<>> = {}
    BY CountEmpty
  <2> QED
    BY <2>1 DEF TermOK, RefsIn
<1>5. \A i \in 1 .. n : EntryOK(entries[i], i, n)
  <2>1. \A name : \A i \in 1 .. n : EntryOK(Entry(name, i - 1), i, n)
    BY <1>1, <1>4 DEF EntryOK, Entry, NULL, TermOK
  <2> QED
    BY <1>2, <2>1
<1>6. TableOK(entries, hashentry)
  BY <1>1, <1>2, <1>3, <1>5 DEF TableOK
<1>7. DisplayOK(display, n)
  <2>1. display = [i \in 0 .. DISPLAYMAX - 1 |-> NULL]
    BY DEF Init
  <2>2. NULL \in 0 .. n
    BY <1>1 DEF NULL
  <2> HIDE DEF n
  <2> QED
    BY <2>1, <2>2 DEF DisplayOK
<1>8. TermOK(term, n) /\ status \in Statuses
  BY <1>4 DEF Init, Statuses
<1>9. CallsOK(frames, n, display_enter, display_lookup)
  <2>1. frames = <<>> /\ display_enter = 0 /\ display_lookup = 0
    BY DEF Init
  <2>2. 0 \in Nat /\ 0 \in 0 .. 0 + 1
    OBVIOUS
  <2> HIDE DEF n
  <2>3. CallsOK(<<>>, n, 0, 0)
    BY <2>2, NoCallsOK
  <2> QED
    BY <2>1, <2>3
<1> QED
  BY <1>3, <1>6, <1>7, <1>8, <1>9 DEF WellFormed

LEMMA WellFormedImpliesTypeOK == ASSUME WellFormed, Shallow, FilesOpen PROVE TypeOK
<1>1. /\ Len(entries) \in Nat /\ DOMAIN entries = 1 .. Len(entries) /\ hashentry \in 0 .. Len(entries)
  BY SeqLength DEF WellFormed, TableOK
<1>2. \A i \in DOMAIN entries :
        /\ entries[i].next \in 0 .. i - 1 /\ entries[i].fields \in 0 .. Len(entries)
        /\ \A k \in DOMAIN entries[i].body : entries[i].body[k].ref \in 0 .. Len(entries)
  BY <1>1 DEF WellFormed, TableOK, EntryOK, RefsIn
<1>3. display_enter \in 0 .. DISPLAYMAX - 1 /\ display_lookup \in display_enter .. display_enter + 1
  BY WellFormedFacts, ReaderAssumption DEF Shallow
<1>4. Len(infile) \in 0 .. INPSTACKMAX
  BY EmptyLength, ReaderAssumption DEF FilesOpen
<1> QED
  BY <1>1, <1>2, <1>3, <1>4 DEF TypeOK, WellFormed, DisplayOK, Statuses

(* As long as no more sections and modules are open than display has room  *)
(* for, which the code never checks: the chains of the table lead to older *)
(* entries, so that every search ends, every name in a body stands for an  *)
(* entry there is, and the two counters stay inside the display.  This     *)
(* holds of every table of operators, input and set of files, whatever is  *)
(* abandoned half-way.                                                     *)
THEOREM TableWellFormed == Spec /\ []Shallow => []TypeOK
<1>1. WellFormed /\ FilesOpen /\ Shallow => TypeOK
  BY WellFormedImpliesTypeOK
<1>2. WellFormed /\ Shallow /\ [Next]_vars => WellFormed'
  BY WellFormedStep
<1>3. FilesOpen /\ [Next]_vars => FilesOpen'
  BY FilesStep
<1> QED
  BY <1>1, <1>2, <1>3, FilesInit, WellFormedInit, PTL DEF Spec
=============================================================================
