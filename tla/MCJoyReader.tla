---------------------------- MODULE MCJoyReader ----------------------------
(***************************************************************************)
(* JoyReader with what the user types written as syntax trees: a story is  *)
(* a sequence of compound definitions and programs.  Scoping is defined on *)
(* the trees, independently of the display: the declaration that a name    *)
(* stands for is the latest one in the innermost section around it that    *)
(* declares the name, else the global one.                                 *)
(***************************************************************************)
EXTENDS JoyReader, SequencesExt, TLC

VARIABLES
  wanted,   \* the programs of the story, every defined name expanded
  ran       \* the programs of the story executed so far, expanded at the time
mcvars == <<vars, wanted, ran>>

(* Syntax *)
Def(name, body)      == [k |-> "def", name |-> name, body |-> body]
Inner(c)             == [k |-> "inner", c |-> c]
PublicPart(defs)     == [k |-> "public", defs |-> defs]
HidePart(defs, c)    == [k |-> "hide", defs |-> defs, c |-> c]
ModulePart(name, c)  == [k |-> "module", name |-> name, c |-> c]
Defines(c)           == [k |-> "defines", c |-> c]
Runs(body)           == [k |-> "runs", body |-> body]
Numerals == {"0", "1", "2", "3", "4", "5", "6", "7", "8", "lib", "self", "open"}
(* A body is a sequence of paths: a numeral, a name or module.field. *)
Path(s)  == <<s>>
In_(m, f) == <<m, f>>

-----------------------------------------------------------------------------
(* The symbols of a story, a line for each of its parts; as a file, with   *)
(* or without a newline after the last of them.                            *)
S(sym_) == [sym |-> sym_, id |-> ""]
Name_(s) == [sym |-> "ATOM", id |-> s]
Factor(path) ==
  IF path[1] \in Numerals THEN <<[sym |-> "INTEGER_", id |-> path[1]]>>
  ELSE FlattenSeq([i \in DOMAIN path |->
                     IF i = 1 THEN <<Name_(path[1])>> ELSE <<S("PERIOD"), Name_(path[i])>>])
Term(body) == FlattenSeq([i \in DOMAIN body |-> Factor(body[i])])

RECURSIVE Symbols(_, _)
Symbols(c, top) ==
  LET one(d) == IF d.k = "def" THEN <<Name_(d.name), S("EQDEF")>> \o Term(d.body)
                ELSE Symbols(d.c, TRUE) \o <<S("END")>>
      all(ds) == FlattenSeq([i \in DOMAIN ds |->
                   (IF i = 1 THEN <<>> ELSE <<S("SEMICOL")>>) \o one(ds[i])])
  IN CASE c.k = "public" -> <<S(IF top THEN "LIBRA" ELSE "IN")>> \o all(c.defs)
       [] c.k = "hide"   -> <<S("HIDE")>> \o all(c.defs) \o Symbols(c.c, FALSE)
       [] c.k = "module" -> <<S("MODULE"), Name_(c.name)>> \o Symbols(c.c, FALSE)

Line(part) == IF part.k = "defines" THEN Symbols(part.c, TRUE) \o <<S("END")>>
              ELSE Term(part.body) \o <<S("PERIOD")>>
Lines(story) == [i \in DOMAIN story |-> Line(story[i])]
Text(story)  == Lines(story) \o <<<<>>>>

-----------------------------------------------------------------------------
(***************************************************************************)
(* Scoping.  A declaration is <<name, n>>, n = 0 for a global name and     *)
(* otherwise a number of its own; scopes[s] lists the declarations of      *)
(* section s, the latest first; visible is the sections around a place,    *)
(* the innermost first.                                                    *)
(***************************************************************************)
Env0 == [body |-> <<>>, module |-> <<>>, scopes |-> <<>>, count |-> 0]
Has(scope, n) == \E i \in DOMAIN scope : scope[i][1] = n
Latest(scope, n) ==
  scope[CHOOSE i \in DOMAIN scope : scope[i][1] = n /\ \A j \in 1 .. i - 1 : scope[j][1] # n]

Declared(env, visible, n) ==
  LET hits == SelectSeq(visible, LAMBDA s : Has(env.scopes[s], n))
  IN  IF hits = <<>> THEN <<n, 0>> ELSE Latest(env.scopes[hits[1]], n)
NoField == <<"", 0>>
RECURSIVE Field(_, _, _)
Field(env, d, names) ==
  IF names = <<>> THEN d
  ELSE LET fields == env.scopes[env.module[d]]
       IN  IF Has(fields, Head(names)) THEN Field(env, Latest(fields, Head(names)), Tail(names))
           ELSE NoField
Named(env, visible, path) == Field(env, Declared(env, visible, path[1]), Tail(path))

(* A new declaration of n in the section target, 0 for none. *)
Declare(env, target, n) ==
  IF target = 0 THEN [env |-> env, d |-> <<n, 0>>]
  ELSE LET d == <<n, env.count + 1>>
       IN  [env |-> [env EXCEPT !.count = @ + 1, !.scopes[target] = <<d>> \o @], d |-> d]
Section(env) == [env EXCEPT !.scopes = Append(@, <<>>)]

RECURSIVE Compound_(_, _, _, _), Sequence_(_, _, _, _)
Compound_(env, c, target, visible) ==
  CASE c.k = "public" -> Sequence_(env, c.defs, target, visible)
    [] c.k = "hide" ->
         LET s == Len(env.scopes) + 1
             hidden == Sequence_(Section(env), c.defs, s, <<s>> \o visible)
         IN  Compound_(hidden, c.c, target, <<s>> \o visible)
    [] c.k = "module" ->
         LET r == Declare(env, target, c.name)
             s == Len(env.scopes) + 1
             e == Compound_(Section(r.env), c.c, s, <<s>> \o visible)
         IN  [e EXCEPT !.module = (r.d :> s) @@ @]
Sequence_(env, defs, target, visible) ==
  IF defs = <<>> THEN env
  ELSE LET d == Head(defs)
           r == Declare(env, target, d.name)
           e == IF d.k = "inner" THEN Compound_(env, d.c, target, visible)
                ELSE [r.env EXCEPT !.body =
                        (r.d :> [i \in DOMAIN d.body |-> Named(r.env, visible, d.body[i])]) @@ @]
       IN  Sequence_(e, Tail(defs), target, visible)

(* What a name stands for, in terms of numerals and undefined names; a     *)
(* recursive definition is expanded Fuel times.                            *)
Fuel == 3
RECURSIVE Expand(_, _, _)
Expand(d, env, fuel) ==
  IF d \notin DOMAIN env.body \/ fuel = 0 THEN <<d[1]>>
  ELSE FlattenSeq([i \in DOMAIN env.body[d] |-> Expand(env.body[d][i], env, fuel - 1)])

(* An included file comes between the program that includes it and the     *)
(* next part.  A program whose last item is a field that its module does   *)
(* not have is not executed; an empty one, up to the period, is.           *)
RECURSIVE Meaning(_, _, _)
Meaning(story, env, library) ==
  IF story = <<>> THEN <<>>
  ELSE LET part == Head(story)
           refs == [i \in DOMAIN part.body |-> Named(env, <<>>, part.body[i])]
           say  == IF NoField \in {refs[i] : i \in DOMAIN refs} THEN <<>>
                   ELSE FlattenSeq([i \in DOMAIN refs |-> Expand(refs[i], env, Fuel)])
           next == IF say = <<"lib", "include">> THEN library ELSE <<>>
       IN  IF part.k = "defines"
           THEN Meaning(Tail(story), Compound_(env, part.c, 0, <<>>), library)
           ELSE <<say>> \o Meaning(next \o Tail(story), env, library)

(* The same, of a term that was read. *)
RECURSIVE Expansion(_, _)
Expansion(t, fuel) ==
  FlattenSeq([i \in DOMAIN t |->
    CASE t[i].ref = NULL -> <<t[i].lit>>
      [] t[i].ref # NULL /\ (entries[t[i].ref].body = <<>> \/ fuel = 0) -> <<entries[t[i].ref].name>>
      [] OTHER -> Expansion(entries[t[i].ref].body, fuel - 1)])

-----------------------------------------------------------------------------
(* The definitions of every story: one section of up to two hidden and two *)
(* public names, as HIDE .. IN or as a module, whose bodies use each       *)
(* other's names and a global one.                                         *)
P(s) == Path(s)
Upto2(D) == {<<d>> : d \in D} \cup {<<d, e>> : d \in D, e \in D}
HiddenDefs == Upto2({Def("p", <<P("1")>>), Def("p", <<P("2"), P("q")>>),
                     Def("q", <<P("3")>>), Def("q", <<P("4"), P("p")>>)})
PublicDefs == Upto2({Def("a", <<P("5"), P("p")>>), Def("b", <<P("6"), P("a"), P("q")>>),
                     Def("a", <<P("7")>>)})
Two(hidden, public) == HidePart(hidden, PublicPart(public))
Sections == {Two(h, i) : h \in HiddenDefs, i \in PublicDefs}

(* Sections inside sections: in a hidden part, in a public part, in a      *)
(* module, with names that shadow one another, and a module among the      *)
(* hidden names of a section.                                              *)
Inside == Inner(Two(<<Def("p", <<P("1")>>), Def("r", <<P("2"), P("p"), P("q")>>)>>,
                    <<Def("a", <<P("3"), P("p"), P("r")>>)>>))
After  == <<Def("b", <<P("4"), P("p"), P("r"), P("a")>>)>>
Mod    == ModulePart("n", PublicPart(<<Def("a", <<P("5"), P("p")>>)>>))
Nested == {
  PublicPart(<<Inside>> \o After),
  PublicPart(<<Def("p", <<P("8")>>), Inside, Inside>> \o After),
  Two(<<Def("p", <<P("6")>>), Def("q", <<P("7")>>)>>, <<Inside>> \o After),
  Two(<<Def("q", <<P("7")>>)>>, <<Inside>> \o After \o <<Inside>>),
  Two(<<Def("q", <<P("7")>>), Inside>>, After),
  HidePart(<<Def("p", <<P("6")>>)>>, Two(<<Def("q", <<P("7"), P("p")>>)>>, <<Inside>> \o After)),
  PublicPart(<<Inner(Mod), Def("b", <<P("6"), In_("n", "a")>>)>>),
  Two(<<Def("p", <<P("6")>>), Inner(Mod)>>, <<Def("b", <<P("7"), In_("n", "a")>>)>>)}

Both(C) == C \cup {ModulePart("m", c) : c \in C}

(* Every story first gives p and a global meanings, and ends with programs *)
(* that use what may be visible then.                                      *)
Globals == Defines(PublicPart(<<Def("p", <<P("0")>>), Def("a", <<P("8")>>)>>))
Uses(c) == <<Runs(<<P("p")>>), Runs(<<P("q"), P("r")>>), Runs(<<P("a")>>), Runs(<<P("b")>>)>>
             \o (IF c.k = "module" THEN <<Runs(<<In_("m", "a")>>), Runs(<<In_("m", "p")>>)>> ELSE <<>>)
Scoping == {<<Globals, Defines(c)>> \o Uses(c) : c \in Both(Sections \cup Nested)}
             \cup {<<Defines(ModulePart("m", PublicPart(<<Inner(Mod)>>))),
                    Runs(<<P("3"), <<"m", "n", "a">>>>), Runs(<<<<"m", "n", "p">>>>)>>}

(* Files: a library, one that includes itself twice, the user's own, and   *)
(* one that has no newline after the last line, which includes the first.  *)
Library == <<Defines(PublicPart(<<Def("a", <<P("3")>>)>>)), Runs(<<P("a"), P("u")>>),
             Defines(PublicPart(<<Def("u", <<P("4")>>)>>))>>
UserLibrary == <<Defines(PublicPart(<<Def("u", <<P("2")>>)>>))>>
Include(f) == Runs(<<P(f), P("include")>>)
OpenEnded == <<Defines(PublicPart(<<Def("u", <<P("5")>>)>>)), Include("lib")>>
MCFiles == ("lib" :> Text(Library)) @@ ("usrlib.joy" :> Text(UserLibrary))
             @@ ("open" :> Lines(OpenEnded))
             @@ ("self" :> Text(<<Runs(<<P("1")>>), Include("self"), Include("self"), Runs(<<P("2")>>)>>))
Including == {
  <<Globals, Include("lib"), Runs(<<P("a"), P("u")>>)>>,
  <<Include("lib"), Include("lib"), Globals, Runs(<<P("u"), P("a")>>)>>}

Stories ==
  {[text |-> Text(s), means |-> Meaning(UserLibrary \o s, Env0, Library)] : s \in Scoping \cup Including}

(* A line that a file leaves unended goes on with the next line of the     *)
(* file that included it, so what it includes itself comes after that; and *)
(* the last line of the main input, when it is unended, is not read.       *)
Use == Runs(<<P("a"), P("u")>>)
Joined == {
  [text  |-> Text(<<Include("open"), Use, Use>>),
   means |-> Meaning(UserLibrary \o <<Include("open")>> \o OpenEnded \o <<Use>> \o Library \o <<Use>>,
                     Env0, <<>>)],
  [text  |-> Lines(<<Use, Include("open"), Use>>),
   means |-> Meaning(UserLibrary \o <<Use, Include("open")>> \o <<OpenEnded[1]>>, Env0, <<>>)]}

(* Anything else that can be typed: up to Longest symbols after the start  *)
(* of a definition, a module or a list, then more definitions.             *)
CONSTANT Longest
Alphabet == {S("LIBRA"), S("HIDE"), S("IN"), S("MODULE"), S("END"), S("SEMICOL"), S("EQDEF"),
             S("LBRACK"), S("RBRACK"), S("LPAREN"), S("PERIOD"), Name_("a"), Name_("include")}
Starts == {<<S("LIBRA"), Name_("a"), S("EQDEF")>>, <<S("MODULE"), Name_("m"), S("HIDE")>>,
           <<S("HIDE"), Name_("p"), S("EQDEF"), S("LBRACK")>>, <<S("LIBRA"), Name_("include")>>}
Rest   == Text(<<Globals, Runs(<<P("a")>>)>>)
Fields == Lines(<<Defines(ModulePart("m", PublicPart(<<Def("a", <<P("1")>>)>>)))>>)
Typed  == {Fields \o <<<<Name_("m")>> \o y>> \o Rest : y \in SeqOf(Alphabet, Longest)} \cup
          {<<x \o y>> \o Rest : x \in Starts, y \in SeqOf(Alphabet, Longest)}
            \cup {Text(<<Include("self"), Runs(<<P("a")>>)>>), Text(<<Include("none")>>)}

MCSessions == {s.text : s \in Stories \cup Joined} \cup Typed
MCBuiltins == <<"ILLEGAL", "include", "dup">>

MCInit ==
  /\ \/ \E s \in Stories \cup Joined : infile = <<s.text>> /\ wanted = <<s.means>>
     \/ \E t \in Typed : infile = <<t>> /\ wanted = <<>>
  /\ Init /\ ran = <<>>
MCNext ==
  /\ Next
  /\ ran' = IF wanted # <<>> /\ status = "reading" /\ status' = "idle" /\ frames = <<>>
            THEN Append(ran, Expansion(term, Fuel)) ELSE ran
  /\ UNCHANGED wanted
MCSpec == MCInit /\ [][MCNext]_mcvars /\ WF_mcvars(MCNext)

-----------------------------------------------------------------------------
(* Every name in every program, body and field stands for the declaration  *)
(* that the sections around it determine: hidden names are not seen from   *)
(* outside, however sections, modules and included files nest, and a       *)
(* section inside another gives back the names that it covered.            *)
ResolvesLexically ==
  status = "exited" /\ wanted # <<>> => ran = wanted[1]
=============================================================================
