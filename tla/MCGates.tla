------------------------------- MODULE MCGates ------------------------------
(***************************************************************************)
(* The scripts whose exit status lets a change in: the comparisons of what *)
(* a build leaves, the check of its icons, the warning ratchet, and the    *)
(* lints of the C++ source and of the documents.                           *)
(* Each is started on its own and shares no state with the others: a       *)
(* behaviour is a run of one of them, `program`, and the variables of the  *)
(* rest stay off.                                                          *)
(***************************************************************************)
EXTENDS WarningGate, IconGate, ArtifactGates, StateCoverage

CONSTANTS
  Files, Names, Keywords, AudioNames, NeverFollow, OrderedNames, Forbidden, WeakLoads,   \* RealtimeLint
  Lints, Fragments, MaxFragments,                        \* LintText
  Pieces, MaxPieces, Pages, Clones, Places               \* DocLinks

VARIABLES
  program,
  file, seen, queue, findings, ordered,
  lint, text, at, keptText, prev,
  place, clone, asked, page, check, pageText, pageFindings, exit

Rt   == INSTANCE RealtimeLint
Text == INSTANCE LintText WITH kept <- keptText
Doc  == INSTANCE DocLinks WITH text <- pageText, findings <- pageFindings

(* ArtifactGates: dumps, binaries and packaging scripts. *)
Ln(s, h, l, t) == [name |-> s, hash |-> h, latency |-> l, trace |-> t]
Dump(l) == [read |-> TRUE, lines |-> l]
MCDumps == {[read |-> FALSE, lines |-> <<>>],
  Dump(<<Ln("header","none","none","none"), Ln("haas","h1","0","none"),
         Ln("velvet","h1","0","none")>>),
  Dump(<<Ln("velvet","h1","0","none"), Ln("haas","h1","1","none")>>),
  Dump(<<Ln("haas","h2","0","none"), Ln("header","none","none","none"),
         Ln("velvet","h1","0","none")>>),
  Dump(<<Ln("haas","h1","0","none"), Ln("velvet","h1","0","none"), Ln("haas","h2","0","none")>>),
  Dump(<<Ln("haas","h1","0","none")>>),
  Dump(<<Ln("haas","h1","0","none"), Ln("stranger","h1","0","none")>>),
  Dump(<<Ln("haas","h1","0","t1"), Ln("velvet","h1","0","t1")>>),
  Dump(<<Ln("velvet","h1","0","t1"), Ln("haas","h1","0","t2")>>),
  Dump(<<Ln("velvet","h1","0","t1"), Ln("haas","h1","1","t1")>>),
  Dump(<<Ln("haas","malformed","0","t1"), Ln("velvet","h1","0","t1")>>)}
MCFloors == [GLIBC |-> <<2, 38>>, CXXABI |-> <<1, 3>>]
\* References at, below and above a floor; those of a family without one are in every second binary.
FloorRefs == {<<"GLIBC", <<2, 38>>>>, <<"GLIBC", <<2, 9>>>>, <<"GLIBC", <<2, 40>>>>, <<"GLIBC", <<2, 38, 1>>>>,
              <<"CXXABI", <<1, 3>>>>, <<"CXXABI", <<1, 14>>>>}
Readable(refs) == [read |-> TRUE, refs |-> refs]
Unreadable == [read |-> FALSE, refs |-> {}]
FirstBinaries == {Unreadable} \cup {Readable(r) : r \in SUBSET FloorRefs}
SecondBinaries ==
  {Unreadable, Readable({<<"GLIBC", <<2, 9>>>>, <<"CXXABI", <<1, 3>>>>, <<"GCC", <<9>>>>})}
MCBinaries == {<<>>} \cup {<<b>> : b \in FirstBinaries} 
              \cup {<<b, c>> : b \in FirstBinaries, c \in SecondBinaries}
PackageScripts == SUBSET [name : {"probe", "staged"}, comment : BOOLEAN]
MCPackages == PackageScripts \X PackageScripts

(* IconGate: whole containers, near the art or not, and some with a defect. *)
Images(kinds) == [n \in DOMAIN kinds |-> [kind |-> kinds[n], ok |-> TRUE]]
Listing(kinds) == <<[kind |-> "TOC", ok |-> TRUE, lists |-> kinds]>>
Modern == <<"ic04", "ic05", "ic11", "ic12", "ic07", "ic13", "ic08", "ic14", "ic09", "ic10">>
Legacy == <<"is32", "s8mk">> \o Tail(Modern)
MCIcons ==
  << [entries |-> Listing(Modern) \o Images(Modern), near |-> TRUE],
     [entries |-> Images(Legacy), near |-> FALSE],
     [entries |-> Images(Tail(Modern)), near |-> TRUE],
     [entries |-> Images(<<"is32">> \o Tail(Modern)), near |-> TRUE],
     [entries |-> Listing(Tail(Modern)) \o Images(Modern), near |-> TRUE],
     [entries |-> Images(<<"16", "32", "48", "256">>), near |-> TRUE] >>
MCBytes == UNION {[1 .. n -> {0, 1, 2, 128}] : n \in 0 .. 6}

(* WarningGate: a tree of three files and two compilers. *)
W(f, g, l) == [file |-> f, flag |-> g, line |-> l]
Engine == <<"src", "engine">>
Guard == <<"tests", "guard">>
Juce == <<"build", "_deps", "src", "juce">>
MCSites == {W(Engine, "shadow", 1), W(Engine, "shadow", 2), W(Engine, "null", 3),
            W(Guard, "shadow", 1), W(Juce, "shadow", 1)}
MCSpellings == [f \in {Engine, Guard, Juce} |->
   IF f = Juce THEN {<<TRUE, Root \o f>>, <<FALSE, SubSeq(f, 2, 4)>>}
   ELSE {<<TRUE, Root \o f>>, <<FALSE, <<"..">> \o f>>}]
MCRoot == <<"repo">>
MCBuild == <<"repo", "build">>
MCEmits == [m \in {"13", "16"} |-> IF m = "16" THEN MCSites ELSE {w \in MCSites : w.line # 2}]

(* RealtimeLint: every pairing of an entry, a helper and a third function. *)
\* A statement: its tokens, what it calls, whether it holds the definition's forbidden
\* construct or weak load.
Stm(t, c) == [tokens |-> t, calls |-> c]
Bad(f) == "new " \o f
Weak(f) == "relaxed " \o f
Statements(f, g) ==
  { Stm(<<>>, {}), Stm(<<Bad(f), ";">>, {}), Stm(<<Weak(f), ";">>, {}),
    Stm(<<"return", g, "(", ")", ";">>, {g}), Stm(<<"m", ".", g, "(", ")", ";">>, {g}),
    Stm(<<"std", "::", g, "(", ")", ";">>, {}),
    Stm(<<"if", "(", g, "(", ")", ")", "{", Bad(f), ";", "}">>, {g}),
    Stm(<<"if", "(", "m", "&", g, "(", ")", ")", "{", Bad(f), ";", "}">>, {g}),
    Stm(<<"w", "(", "T", "::", g, "(", ")", ",", "[", "]", "{", Bad(f), "}", ")", ";">>, {}) }
Shapes(f) ==
  { <<"T", f, "(", ")">>, <<"V", "<", "T", ",", "T", ">", f, "(", "T", ")">>,
    <<"T", f, "(", ")", "->", "V", "<", "T", ",", "T", ">">>, <<"T", "&", f, "(", ")">>,
    <<"T", "::", f, "(", ")", ":", "m", "(", ")", ",", "w", "(", ")">> }
Def(f, shape, s) ==
  [tokens |-> shape \o <<"{">> \o s.tokens \o <<"}">>,
   def |-> [name |-> f, calls |-> s.calls,
            bad |-> {Bad(f)} \cap {s.tokens[k] : k \in DOMAIN s.tokens},
            weak |-> {Weak(f)} \cap {s.tokens[k] : k \in DOMAIN s.tokens}]]
LintFiles ==
  { [tokens |-> <<"T", "helper", "(", ")", ";">> \o d.tokens \o e.tokens \o h.tokens,
      defs |-> {d.def, e.def, h.def}] :
    d \in UNION {{Def(f, <<"T", f, "(", ")">>, s) : s \in Statements(f, "helper")} : f \in {"process", "toEngine"}},
    e \in {Def("helper", s, Stm(<<Bad("helper"), ";">>, {})) : s \in Shapes("helper")}
          \cup {Def("helper", <<"T", "helper", "(", ")">>, t) : t \in Statements("helper", "third")},
    h \in {Def(f, <<"T", "C", "::", f, "(", ")">>,
                Stm(<<Bad(f), ";", "helper", "(", ")", ";">>, {"helper"})) :
             f \in {"third", "prepare"}} }

(* StateCoverage: an engine the lint passes. *)
Term(f, g) == [field |-> f, guard |-> g]
In(f, o, g) == [field |-> f, form |-> o, guard |-> g]
Old == {"algorithm", "dimMode", "bypass", "mix"}
MCModules == {[name |-> "levels", type |-> "own reset"],
              [name |-> "os2", type |-> "undeclared"]}
MCTree ==
  LET named == {Term("algorithm", ""), Term("dimMode", "algorithm")}
      measured == {In("algorithm", "exact", ""), In("dimMode", "exact", "algorithm"), In("mix", "exact", "")}
  IN [ fields |-> Old, same |-> {[left |-> f, right |-> f] : f \in Old},
       saved |-> Old \ {"mix"}, restored |-> Old \ {"mix"}, select |-> [l \in Lists |-> named],
       measured |-> measured, predict |-> {"mix"},
       discrete |-> Old \ {"mix"}, excluded |-> [l \in Lists |-> {"bypass"}], divergent |-> {},
       inputs |-> measured, notInputs |-> {"bypass"},
       members |-> {m \in MCModules : m.name # "os2"},
       reset |-> {[member |-> "levels", place |-> "then", call |-> "reset"],
                  [member |-> "levels", place |-> "else", call |-> "resetLive"]},
       scopes |-> {[member |-> "levels", scope |-> "everything"]} ]

(* LintText: code (TRUE) and what is not, and the lints that claim to read it.  The literal that
   is continued over lines is not for check-realtime.py, which misreads it (README). *)
Code(s) == [k \in DOMAIN s |-> <<s[k], TRUE>>]
Rest(s) == [k \in DOMAIN s |-> <<s[k], FALSE>>]

TextLints == {"realtime", "dispatch", "state", "portability"}
Strippers == TextLints \cup {"awk"}
F(t, l) == [text |-> t, lints |-> l]
TextFragments == {
  F(Code(<<"x">>), TextLints), F(Rest(<<"\n">>), TextLints),
  F(Code(<<"1", "'", "0", "'", "5">>), TextLints),
  F(Code(<<".", "5", "'", "0", "a">>), TextLints),
  F(Code(<<"u", "8">>) \o Rest(<<"'", "x", "'">>), TextLints),
  F(Rest(<<"'", "\"", "'">>), TextLints),
  F(Rest(<<"'", "\\", "'", "'">>), TextLints),
  F(Rest(<<"\"", "'", "x", "\"">>), TextLints),
  F(Rest(<<"\"", "\\", "\"", "/", "/", "\"">>), TextLints),
  F(Rest(<<"/", "/", "'", "x", "\n">>), TextLints),
  F(Rest(<<"/", "*", "\"", "\n", "x", "*", "/">>), TextLints),
  F(Code(<<"a", "'", "x">>) \o Rest(<<"\n">>), TextLints),
  F(Code(<<"a">>) \o Rest(<<"'", "x", "'">>), TextLints \ {"portability"}),
  F(Rest(<<"R", "\"", "(", "x", "\"", "x", ")", "\"">>), {"realtime"}),
  F(Code(<<"R">>) \o Rest(<<"\"", "a", "(", "x", ")", "\"", ")", "a", "\"">>), {"portability"}),
  F(Rest(<<"\"", "x", "\\", "\n", "x", "\"">>), {"dispatch", "state", "portability"}),
  F(Code(<<"x">>), {"awk"}), F(Rest(<<"\n">>), {"awk"}),
  F(Code(<<"a", "~">>) \o Rest(<<"/", "#", "\\", "/", "\"", "/">>), {"awk"}),
  F(Code(<<"a", "/", "5", ";">>), {"awk"}),
  F(Code(<<"(", ")", "/", "x">>), {"awk"}),
  F(Rest(<<"\"", "#", "/", "\"">>) \o Code(<<"/", "a">>), {"awk"}),
  F(Rest(<<"#", "\"", "/", "\n">>), {"awk"}) }

(* DocLinks: pieces of a page, and where pages stand.  None has a code span at the start of a
   quote's line or of the line after it, which the quote check misreads (README). *)
PagePiece(t, d, o, l) == [text |-> t, skip |-> FALSE, dead |-> d, torn |-> o, lazy |-> l]
MCPages == {<<"a">>, <<"a", "(", "a", ")">>}
MCPieces ==
  { PagePiece(<<"[", "]", "(", "d", ")", "\n">>, {1}, {}, {}),
    PagePiece(<<"tick", "[", "]", "(", "d", ")", "tick", "[", "]", "(", "a", "(", "a", ")", ")",
                "\n">>, {}, {}, {}),
    PagePiece(<<"tick", "tick", "tick", "[", "]", "(", "d", ")", "tick", "tick", "\n">>, {1}, {},
              {}),
    PagePiece(<<"a", "tick", "\n", "[", "]", "(", "d", ")", "tick", "[", "]", "(", "#", "d", ")",
                "\n">>, {}, {}, {}),
    PagePiece(<<"tick", "tick", "|", "tick", "\n", "|", "|", "tick", "tick", "\n">>, {}, {}, {}),
    PagePiece(<<"[", "]", "(", "a", " ",
                "\"", "(", "a", "\"", ")", "[", "]", "(", "<", "a", "(", ">", ")", "\n">>, {1}, {}, {}),
    PagePiece(<<"|", "a", "|", "\n", "|", "-", "|", "\n", "|", "tick", "|", "tick", "|", "\n">>,
              {}, {}, {}),
    PagePiece(<<"|", "a", "|", "\n">>, {}, {1}, {}),
    PagePiece(<<">", "a", "\n", "a", "\n">>, {}, {}, {2}),
    PagePiece(<<">", "a", "\n", ">", "\n", "-", " ", "a", "\n">>, {}, {}, {}),
    PagePiece(<<"[", "]", "(", "http:", "d", ")", "[", "]", "(", "a", "\n">>, {}, {}, {}),
    [PagePiece(<<"tick", "[", "]", "(", "d", ")", "\n", "|", "\n">>, {}, {},
               {}) EXCEPT !.skip = TRUE] }
MCPlaces == {[path |-> <<>>, governed |-> TRUE],
             [path |-> <<"docs", "building">>, governed |-> TRUE],
             [path |-> <<"build-san", "_deps">>, governed |-> FALSE],
             [path |-> <<"JUCE">>, governed |-> FALSE]}
MCClones == {<<"home">>, <<"node_modules">>}

-----------------------------------------------------------------------------
rtVars == <<file, seen, queue, findings, ordered>>
textVars == <<lint, text, at, keptText, prev>>
docVars == <<place, clone, asked, page, check, pageText, pageFindings, exit>>

OffGate ==
  /\ question = [gate |-> "off"] /\ apc = "off" /\ files = "off" /\ gateExit = -1

OffIcon ==
  /\ platform = "off" /\ standalone = "off" /\ inputs = "off" /\ generated = "off"
  /\ built = "off" /\ staged = "off" /\ swift = "off" /\ renderer = "off" /\ evidence = "off"
  /\ ipc = "off" /\ where = "off" /\ iconExit = "off" /\ rle = "off" /\ altered = "off"

OffWarn ==
  /\ gate = "off" /\ sites = "off" /\ styles = "off" /\ major = "off"
  /\ baseline = "off" /\ damaged = "off" /\ accepted = "off" /\ verdict = "off"
  /\ calm = FALSE /\ changes = "off"

OffRt ==
  /\ file = "off" /\ seen = "off" /\ queue = "off" /\ findings = "off"
  /\ ordered = "off"

OffCov ==
  /\ tree = Tree /\ merged = Tree /\ edits = 0

OffText ==
  /\ lint = "off" /\ text = "off" /\ at = "off" /\ keptText = "off" /\ prev = "off"

OffDoc ==
  /\ place = "off" /\ clone = "off" /\ asked = "off" /\ page = "off"
  /\ check = "off" /\ pageText = "off" /\ pageFindings = "off" /\ exit = "off"

Init ==
  \/ /\ program = "artifacts" /\ GatesInit
     /\ OffIcon /\ OffWarn /\ OffRt /\ OffCov /\ OffText /\ OffDoc
  \/ /\ program = "icons" /\ (IconInit \/ RleInit)
     /\ OffGate /\ OffWarn /\ OffRt /\ OffCov /\ OffText /\ OffDoc
  \/ /\ program = "warnings" /\ WarnInit
     /\ OffGate /\ OffIcon /\ OffRt /\ OffCov /\ OffText /\ OffDoc
  \/ /\ program = "realtime" /\ Rt!RtInit
     /\ OffGate /\ OffIcon /\ OffWarn /\ OffCov /\ OffText /\ OffDoc
  \/ /\ program = "coverage" /\ CovInit
     /\ OffGate /\ OffIcon /\ OffWarn /\ OffRt /\ OffText /\ OffDoc
  \/ /\ program = "text" /\ Text!TextInit
     /\ OffGate /\ OffIcon /\ OffWarn /\ OffRt /\ OffCov /\ OffDoc
  \/ /\ program = "doc_links" /\ Doc!DocInit
     /\ OffGate /\ OffIcon /\ OffWarn /\ OffRt /\ OffCov /\ OffText

Next ==
  \/ /\ program = "artifacts" /\ GatesNext
     /\ UNCHANGED <<program, iconVars, warnVars, rtVars, covVars, textVars, docVars>>
  \/ /\ program = "icons" /\ IconNext
     /\ UNCHANGED <<program, gateVars, warnVars, rtVars, covVars, textVars, docVars>>
  \/ /\ program = "warnings" /\ WarnNext
     /\ UNCHANGED <<program, gateVars, iconVars, rtVars, covVars, textVars, docVars>>
  \/ /\ program = "realtime" /\ Rt!RtNext
     /\ UNCHANGED <<program, gateVars, iconVars, warnVars, covVars, textVars, docVars>>
  \/ /\ program = "coverage" /\ CovNext
     /\ UNCHANGED <<program, gateVars, iconVars, warnVars, rtVars, textVars, docVars>>
  \/ /\ program = "text" /\ Text!TextNext
     /\ UNCHANGED <<program, gateVars, iconVars, warnVars, rtVars, covVars, docVars>>
  \/ /\ program = "doc_links" /\ Doc!DocNext
     /\ UNCHANGED <<program, gateVars, iconVars, warnVars, rtVars, covVars, textVars>>

vars == <<program, gateVars, iconVars, warnVars, rtVars, covVars, textVars, docVars>>

Spec == Init /\ [][Next]_vars

-----------------------------------------------------------------------------
(* Properties. *)

(***************************************************************************)
(* The realtime lint reports every forbidden construct the audio thread    *)
(* can reach in a file, and no other (check-realtime.py).                  *)
(***************************************************************************)
FindingsAreReached == program = "realtime" => Rt!FindingsAreReached

(***************************************************************************)
(* Of the constructs each fragment is given to it for, a lint reads the    *)
(* code of a file, all of it and nothing else, on the lines it stands on   *)
(* (the strippers of the four C++ lints and of check-docs.py). Not so      *)
(* check-realtime.py after a literal continued over lines, whose newline   *)
(* it drops: that fragment is not among its own.                           *)
(***************************************************************************)
CodeIsSeen == program = "text" => Text!CodeIsSeen

(***************************************************************************)
(* A run of the prose checks reports each defect of a page on its line and *)
(* nothing else, and exit 0 means that a page was read and has none        *)
(* (check-docs.py), whatever the order of the pieces. Not so when a        *)
(* quote's line, or the line directly after it, begins with a code span:   *)
(* no piece has one.                                                       *)
(***************************************************************************)
DefectsAreFound == program = "doc_links" => Doc!DefectsAreFound
=============================================================================
