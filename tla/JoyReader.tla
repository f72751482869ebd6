----------------------------- MODULE JoyReader -----------------------------
(***************************************************************************)
(* How the Joy interpreter reads: the input files of scan.c, the main loop *)
(* and the definitions of main.c, and readterm of utils.c.  What it all    *)
(* decides is which entry of the symbol table a name in a program or in a  *)
(* body stands for: names may be hidden (HIDE .. IN .. END) or belong to a *)
(* module (MODULE m PRIVATE .. PUBLIC .. END, used as m.name), and are     *)
(* looked up once, when the term that uses them is read.                   *)
(*                                                                         *)
(* A line is a sequence of symbols: characters, comments, the shell escape *)
(* and the echo are left out, and so are sets and floats.  A file is what  *)
(* newlines divide it into: its lines, and last what follows the last of   *)
(* its newlines, which is empty when the file ends as a text file should.  *)
(* A program is executed for its effect on the reader only: include, or an *)
(* error.                                                                  *)
(* frames is the C call stack, innermost call last.                        *)
(***************************************************************************)
EXTENDS Integers, Sequences, FiniteSets

CONSTANTS
  Files,        \* every file that can be opened, by name
  Sessions,     \* the main inputs, one such per run
  Builtins,     \* the names of optable, in its order
  INPSTACKMAX,  \* how many files can be open at once
  DISPLAYMAX    \* the length of display

ASSUME ReaderAssumption ==
  /\ INPSTACKMAX \in Nat /\ INPSTACKMAX >= 2
  /\ DISPLAYMAX \in Nat \ {0}
  /\ Builtins \in Seq(STRING)
  /\ \A f \in DOMAIN Files : Files[f] # <<>>
  /\ \A s \in Sessions : s # <<>>

VARIABLES
  infile,          \* what is not yet read of every open file, innermost first
  linbuf,          \* what is left of the current line
  filled,          \* what getch has put in the line that it still fills
  sym,             \* the current symbol; Pending while getsym looks for it
  entries,         \* symtab: every entry made so far
  hashentry,       \* the newest global entry
  display,         \* the newest entry of every open hidden section or module
  display_enter,   \* the section that new names are entered in, 0 for global
  display_lookup,  \* the innermost section where names are looked up
  frames,
  term,            \* the term that readterm returned
  status,          \* what the main loop is doing
  aborted          \* whether a definition or a term was abandoned half-way

text  == <<infile, linbuf, filled, sym>>
table == <<entries, hashentry>>
nest  == <<display, display_enter, display_lookup>>
vars  == <<text, table, nest, frames, term, status, aborted>>

NULL    == 0
Pending == [sym |-> "none", id |-> ""]
Sym     == sym.sym
Literals == {"BOOLEAN_", "INTEGER_", "CHAR_", "STRING_"}
firstlibra == Len(Builtins) + 1

-----------------------------------------------------------------------------
(***************************************************************************)
(* The symbol table.  The chains of the hash table are one chain here: of  *)
(* either, lookup takes the newest entry with the name.                    *)
(***************************************************************************)
Entry(name, next) ==
  [name |-> name, is_module |-> FALSE, body |-> <<>>, fields |-> NULL, next |-> next]

FindFrom(p, id) ==
  LET f[q \in 0 .. Len(entries)] ==
        IF q = NULL \/ entries[q].name = id THEN q ELSE f[entries[q].next]
  IN  f[p]

(* The innermost section that has the name, else the global entry. *)
Found(id) ==
  LET hits == {i \in 1 .. display_lookup : FindFrom(display[i], id) # NULL}
      inner == CHOOSE i \in hits : \A j \in hits : j <= i
  IN  IF hits = {} THEN FindFrom(hashentry, id) ELSE FindFrom(display[inner], id)

New == Len(entries) + 1
Location(id) == IF Found(id) = NULL THEN New ELSE Found(id)

enterglobal(id) ==
  /\ entries' = Append(entries, Entry(id, hashentry))
  /\ hashentry' = New

(* lookup leaves location at Location(id). *)
lookup(id) ==
  IF Found(id) = NULL THEN enterglobal(id) ELSE UNCHANGED table

(* enteratom, and the refusal of definition to change an operator: here is *)
(* the entry that they leave.                                              *)
Hidden == display_enter > 0
Overwrites(id) == Location(id) < firstlibra
enteratom(id) ==
  IF Hidden
  THEN /\ entries' = Append(entries, Entry(id, display[display_enter]))
       /\ UNCHANGED hashentry
  ELSE lookup(id)
Entered == IF Hidden THEN [display EXCEPT ![display_enter] = New] ELSE display
Here(id) == IF Hidden THEN New ELSE Location(id)

-----------------------------------------------------------------------------
(***************************************************************************)
(* The input.  getsym is asked for by sym' = Pending.                      *)
(***************************************************************************)
Getsym  == sym' = Pending /\ UNCHANGED <<infile, linbuf, filled>>
Reading == status \notin {"exited", "crashed"} /\ sym = Pending

TakeSymbol ==
  /\ Reading /\ linbuf # <<>>
  /\ sym' = Head(linbuf) /\ linbuf' = Tail(linbuf)
  /\ UNCHANGED <<infile, filled, table, nest, frames, term, status, aborted>>

Unended == Len(Head(infile)) = 1

ReadLine ==
  /\ Reading /\ linbuf = <<>> /\ ~Unended
  /\ linbuf' = filled \o Head(Head(infile)) /\ filled' = <<>>
  /\ infile' = <<Tail(Head(infile))>> \o Tail(infile)
  /\ UNCHANGED <<sym, table, nest, frames, term, status, aborted>>

(* The end of a file does not end the line: getch goes on filling it from  *)
(* the file that included this one.  The character for the end of the file *)
(* that it leaves in between is a blank to getsym, where char is signed.   *)
(* At the end of the main input the interpreter exits, whatever it is      *)
(* reading and whatever the line holds.                                    *)
EndOfFile ==
  /\ Reading /\ linbuf = <<>> /\ Unended
  /\ filled' = filled \o Head(Head(infile))
  /\ infile' = Tail(infile)
  /\ status' = IF Len(infile) = 1 THEN "exited" ELSE status
  /\ UNCHANGED <<linbuf, sym, table, nest, frames, term, aborted>>

-----------------------------------------------------------------------------
(* Calls *)
NoLocals == [here |-> NULL, list |-> <<>>]
Frame(p) == [proc |-> p, pc |-> "start", loc |-> NoLocals]
Top      == frames[Len(frames)]
Loc      == Top.loc
In(p, k) == sym # Pending /\ frames # <<>> /\ Top.proc = p /\ Top.pc = k
At(k, loc) == [proc |-> Top.proc, pc |-> k, loc |-> loc]

Callers    == SubSeq(frames, 1, Len(frames) - 1)
Goto(k, loc) == frames' = [frames EXCEPT ![Len(frames)] = At(k, loc)]
CallFrom(p, k, loc) ==
  frames' = Append([frames EXCEPT ![Len(frames)] = At(k, loc)], Frame(p))
Call(p, k)           == CallFrom(p, k, Loc)
CallWith(p, k, here) == CallFrom(p, k, [Loc EXCEPT !.here = here])
Become(p)    == frames' = [frames EXCEPT ![Len(frames)] = Frame(p)]
Return       == frames' = Callers

(* longjmp to the main loop; the display stays as it is. *)
Abort == frames' = <<>> /\ status' = "idle" /\ aborted' = TRUE

Same == UNCHANGED <<term, status, aborted>>

-----------------------------------------------------------------------------
(***************************************************************************)
(* definition and defsequence                                              *)
(***************************************************************************)
Compound == {"LIBRA", "PRIVATE", "HIDE", "MODULE"}

Definition ==
  \/ /\ In("definition", "start") /\ Sym \in Compound
     /\ Call("compound_def", "close") /\ UNCHANGED <<text, table, nest>> /\ Same
  \/ /\ In("definition", "start") /\ Sym \notin Compound \cup {"ATOM"}
     /\ Return /\ UNCHANGED <<text, table, nest>> /\ Same
  \/ /\ In("definition", "start") /\ Sym = "ATOM"
     /\ IF ~Hidden /\ Overwrites(sym.id)
        THEN enterglobal(sym.id) /\ Goto("equals", [Loc EXCEPT !.here = New])
        ELSE enteratom(sym.id) /\ Goto("equals", [Loc EXCEPT !.here = Here(sym.id)])
     /\ display' = Entered /\ UNCHANGED <<display_enter, display_lookup>>
     /\ Getsym /\ Same
  \/ /\ In("definition", "equals")
     /\ Call("readterm", "assign")
     /\ IF Sym = "EQDEF" THEN Getsym ELSE UNCHANGED text
     /\ UNCHANGED <<table, nest>> /\ Same
  \/ /\ In("definition", "assign")
     /\ entries' = [entries EXCEPT ![Loc.here].body = term, ![Loc.here].is_module = FALSE]
     /\ Return /\ UNCHANGED <<text, hashentry, nest>> /\ Same
  \/ /\ In("definition", "close")
     /\ Return
     /\ IF Sym \in {"END", "PERIOD"} THEN Getsym ELSE UNCHANGED text
     /\ UNCHANGED <<table, nest>> /\ Same

Defsequence ==
  \/ /\ In("defsequence", "start")
     /\ Call("definition", "more") /\ UNCHANGED <<text, table, nest>> /\ Same
  \/ /\ In("defsequence", "more") /\ Sym = "SEMICOL"
     /\ Call("definition", "more") /\ Getsym /\ UNCHANGED <<table, nest>> /\ Same
  \/ /\ In("defsequence", "more") /\ Sym # "SEMICOL"
     /\ Return /\ UNCHANGED <<text, table, nest>> /\ Same

-----------------------------------------------------------------------------
(***************************************************************************)
(* compound_def                                                            *)
(***************************************************************************)
CompoundDef ==
  /\ In("compound_def", "start")
  /\ \/ Sym = "MODULE" /\ Goto("module", Loc) /\ Getsym
     \/ Sym \in {"PRIVATE", "HIDE"} /\ Goto("hide", Loc) /\ Getsym
     \/ Sym \in {"PUBLIC", "LIBRA", "IN"} /\ Become("defsequence") /\ Getsym
     \/ Sym \notin {"MODULE", "PRIVATE", "HIDE", "PUBLIC", "LIBRA", "IN"}
        /\ Return /\ UNCHANGED text
  /\ UNCHANGED <<table, nest>> /\ Same

(* The names of a module are entered, and looked up, in a section of their *)
(* own, which becomes the fields of the module.                            *)
Module ==
  \/ /\ In("compound_def", "module") /\ Sym # "ATOM"
     /\ Abort /\ UNCHANGED <<text, table, nest, term>>
  \/ /\ In("compound_def", "module") /\ Sym = "ATOM"
     /\ enteratom(sym.id)
     /\ CallWith("compound_def", "fields", Here(sym.id))
     /\ display_enter' = display_enter + 1 /\ display_lookup' = display_lookup + 1
     /\ display' = [Entered EXCEPT ![display_enter + 1] = NULL]
     /\ Getsym /\ Same
  \/ /\ In("compound_def", "fields")
     /\ entries' = [entries EXCEPT ![Loc.here].is_module = TRUE,
                                   ![Loc.here].fields = display[display_enter]]
     /\ display_enter' = display_enter - 1 /\ display_lookup' = display_lookup - 1
     /\ Return /\ UNCHANGED <<text, hashentry, display>> /\ Same

(* HIDE: a section inside the public part of another puts its hidden names *)
(* in front of those of that one; here keeps what was there.               *)
OpenNested ==
  /\ In("compound_def", "hide") /\ display_lookup > display_enter
  /\ CallWith("defsequence", "nested", display[display_lookup])
  /\ display_enter' = display_enter + 1
  /\ UNCHANGED <<text, table, display, display_lookup>> /\ Same

(* (Mutant: inside a public part too.) *)
OpenLevelAlways ==
  /\ In("compound_def", "hide")
  /\ Call("defsequence", "hidden")
  /\ display_enter' = display_enter + 1 /\ display_lookup' = display_lookup + 1
  /\ display' = [display EXCEPT ![display_enter + 1] = NULL]
  /\ UNCHANGED <<text, table>> /\ Same

(* Any other section opens a level of the display. *)
OpenLevel ==
  /\ In("compound_def", "hide") /\ display_lookup <= display_enter
  /\ Call("defsequence", "hidden")
  /\ display_enter' = display_enter + 1 /\ display_lookup' = display_lookup + 1
  /\ display' = [display EXCEPT ![display_enter + 1] = NULL]
  /\ UNCHANGED <<text, table>> /\ Same

(* The public part: names are entered outside, and looked up here first. *)
EndHidden ==
  /\ \/ In("compound_def", "nested") /\ Call("compound_def", "restore")
     \/ In("compound_def", "hidden") /\ Call("compound_def", "leave")
  /\ display_enter' = display_enter - 1
  /\ UNCHANGED <<text, table, display, display_lookup>> /\ Same

(* (Mutants of the two that follow: the hidden names are still looked up.) *)
RestoreForgotten ==
  /\ In("compound_def", "restore")
  /\ Return /\ UNCHANGED <<text, table, nest>> /\ Same
LeaveForgotten ==
  /\ In("compound_def", "leave")
  /\ Return /\ UNCHANGED <<text, table, nest>> /\ Same

RestoreNested ==
  /\ In("compound_def", "restore")
  /\ display' = [display EXCEPT ![display_lookup] = Loc.here]
  /\ Return /\ UNCHANGED <<text, table, display_enter, display_lookup>> /\ Same

LeaveLevel ==
  /\ In("compound_def", "leave")
  /\ display_lookup' = display_lookup - 1
  /\ Return /\ UNCHANGED <<text, table, display, display_enter>> /\ Same

Hide == OpenNested \/ OpenLevel \/ EndHidden \/ RestoreNested \/ LeaveLevel

-----------------------------------------------------------------------------
(***************************************************************************)
(* readterm and readfactor.  An item is a literal, a list or a reference   *)
(* to an entry.                                                            *)
(***************************************************************************)
Literal(s)    == [ref |-> NULL, lit |-> s, list |-> <<>>]
Sublist(l)    == [ref |-> NULL, lit |-> "list", list |-> l]
Reference(p)  == [ref |-> p, lit |-> "", list |-> <<>>]
With(item)    == [Loc EXCEPT !.list = Append(@, item), !.here = NULL]

ReadAtom ==
  /\ In("readterm", "start") /\ Sym = "ATOM"
  /\ lookup(sym.id)
  /\ LET p == Location(sym.id) IN
     IF Found(sym.id) # NULL /\ entries[p].is_module
     THEN Goto("period", [Loc EXCEPT !.here = entries[p].fields])
     ELSE Goto("start", With(Reference(p)))
  /\ Getsym /\ UNCHANGED nest /\ Same

(* module.field: the name of the field is looked up as well, which enters  *)
(* it when it is new; then the fields are searched for it.                 *)
ReadField ==
  \/ /\ In("readterm", "period")
     /\ Goto("field", Loc)
     /\ IF Sym = "PERIOD" THEN Getsym ELSE UNCHANGED text
     /\ UNCHANGED <<table, nest>> /\ Same
  \/ /\ In("readterm", "field") /\ Sym = "ATOM"
     /\ lookup(sym.id) /\ UNCHANGED <<nest, term>>
     /\ LET p == FindFrom(Loc.here, sym.id) IN
        IF p = NULL THEN Abort /\ UNCHANGED text
        ELSE /\ IF entries[p].is_module
                THEN Goto("period", [Loc EXCEPT !.here = entries[p].fields])
                ELSE Goto("start", With(Reference(p)))
             /\ Getsym /\ UNCHANGED <<status, aborted>>

(* readfactor returns without a node, and readterm links whatever is on    *)
(* the stack instead.                                                      *)
NoFactor ==
  /\ \/ In("readterm", "field") /\ Sym # "ATOM"
     \/ In("readterm", "start") /\ Sym = "LPAREN"
  /\ status' = "crashed" /\ sym' = Pending /\ frames' = <<>>
  /\ UNCHANGED <<infile, linbuf, filled, table, nest, term, aborted>>

ReadLiteral ==
  /\ In("readterm", "start") /\ Sym \in Literals
  /\ Goto("start", With(Literal(sym.id)))
  /\ Getsym /\ UNCHANGED <<table, nest>> /\ Same

(* A symbol other than ] ends the list with an error and is dropped. *)
ReadList ==
  \/ /\ In("readterm", "start") /\ Sym = "LBRACK"
     /\ Call("readterm", "rbrack") /\ Getsym /\ UNCHANGED <<table, nest>> /\ Same
  \/ /\ In("readterm", "rbrack")
     /\ Goto("start", With(Sublist(term))) /\ Getsym /\ UNCHANGED <<table, nest>> /\ Same

EndTerm ==
  /\ In("readterm", "start") /\ Sym \notin Literals \cup {"ATOM", "LBRACK", "LPAREN"}
  /\ term' = Loc.list /\ Return
  /\ UNCHANGED <<text, table, nest, status, aborted>>

-----------------------------------------------------------------------------
(***************************************************************************)
(* The main loop                                                           *)
(***************************************************************************)
MainInputs == {<<s>> : s \in Sessions}

Init ==
  /\ infile \in MainInputs
  /\ linbuf = <<>> /\ filled = <<>> /\ sym = [sym |-> "PERIOD", id |-> ""]
  /\ entries = [i \in DOMAIN Builtins |-> Entry(Builtins[i], i - 1)]
  /\ hashentry = Len(Builtins)
  /\ display = [i \in 0 .. DISPLAYMAX - 1 |-> NULL]
  /\ display_enter = 0 /\ display_lookup = 0
  /\ frames = <<>> /\ term = <<>> /\ status = "start" /\ aborted = FALSE

(* The user's library, if there is one, is included before anything else. *)
usrlib == "usrlib.joy"
MustInclude ==
  /\ status = "start" /\ status' = "idle"
  /\ infile' = (IF usrlib \in DOMAIN Files THEN <<Files[usrlib]>> ELSE <<>>) \o infile
  /\ UNCHANGED <<linbuf, filled, sym, table, nest, frames, term, aborted>>

NextInput ==
  /\ status = "idle"
  /\ status' = "input" /\ Getsym
  /\ UNCHANGED <<table, nest, frames, term, aborted>>

Begin ==
  /\ status = "input" /\ sym # Pending
  /\ IF Sym \in {"LIBRA", "HIDE", "MODULE"}
     THEN frames' = <<Frame("compound_def")>> /\ status' = "defining"
     ELSE frames' = <<Frame("readterm")>> /\ status' = "reading"
  /\ UNCHANGED <<text, table, nest, term, aborted>>

(* END or a period should follow; its absence is only reported. *)
Defined ==
  /\ status = "defining" /\ frames = <<>> /\ sym # Pending
  /\ status' = "idle"
  /\ UNCHANGED <<text, table, nest, frames, term, aborted>>

(* The file of an include that is the last operator of the program. *)
Includes ==
  LET n == Len(term) IN
  /\ n >= 2 /\ term[n].ref # NULL /\ entries[term[n].ref].name = "include"
  /\ term[n - 1].lit # ""
FileName == term[Len(term) - 1].lit

(* The included file takes the place of the file that includes it. *)
DoIncludeHere ==
  IF Includes /\ Len(infile) # INPSTACKMAX /\ FileName \in DOMAIN Files
  THEN infile' = <<Files[FileName]>> \o Tail(infile) ELSE UNCHANGED infile

(* doinclude: too many files or a missing one are run time errors. *)
DoInclude ==
  IF Includes /\ Len(infile) # INPSTACKMAX /\ FileName \in DOMAIN Files
  THEN infile' = <<Files[FileName]>> \o infile ELSE UNCHANGED infile

(* exeterm: whether it returns or jumps, the loop goes on. *)
Execute ==
  /\ status = "reading" /\ frames = <<>> /\ sym # Pending
  /\ DoInclude /\ status' = "idle"
  /\ UNCHANGED <<linbuf, filled, sym, table, nest, frames, term, aborted>>

Next ==
  \/ TakeSymbol \/ ReadLine \/ EndOfFile
  \/ MustInclude \/ NextInput \/ Begin \/ Defined \/ Execute
  \/ CompoundDef \/ Module \/ Hide \/ Defsequence \/ Definition
  \/ ReadAtom \/ ReadField \/ NoFactor \/ ReadLiteral \/ ReadList \/ EndTerm

Spec == Init /\ [][Next]_vars
(* The interpreter is one sequential process: it never stops by itself. *)
FairSpec == Spec /\ WF_vars(Next)

-----------------------------------------------------------------------------
(* The chains lead to older entries, every reference to an entry there is, *)
(* and the two counters stay inside the display.                           *)
TypeOK ==
  /\ \A i \in DOMAIN entries :
       /\ entries[i].next \in 0 .. i - 1
       /\ entries[i].fields \in 0 .. Len(entries)
       /\ \A k \in DOMAIN entries[i].body : entries[i].body[k].ref \in 0 .. Len(entries)
  /\ hashentry \in 0 .. Len(entries)
  /\ \A i \in DOMAIN display : display[i] \in 0 .. Len(entries)
  /\ display_enter \in 0 .. DISPLAYMAX - 1
  /\ display_lookup \in display_enter .. display_enter + 1
  /\ Len(infile) \in 0 .. INPSTACKMAX
  /\ status \in {"start", "idle", "input", "defining", "reading", "crashed", "exited"}

(* Back in the main loop every section is closed again, unless a           *)
(* definition was abandoned half-way: then the sections that were open     *)
(* stay open for good.                                                     *)
SectionsClosed ==
  status = "idle" /\ ~aborted => display_enter = 0 /\ display_lookup = 0

(* Every session ends, whatever its definitions look like and however the  *)
(* files include one another: the limit on open files ends a file that     *)
(* includes itself.                                                        *)
InputEnds == <>(status \in {"exited", "crashed"})
=============================================================================
