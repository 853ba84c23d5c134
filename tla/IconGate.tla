------------------------------- MODULE IconGate -----------------------------
(***************************************************************************)
(* check-icons.py, which a build runs before it is trusted and again on    *)
(* what was staged for packing: the pinned inputs, the icon container that *)
(* was generated, each product that should carry it, and on macOS the      *)
(* pixels the system draws for it, measured by a program that the check    *)
(* compiles and keeps next to its measurements.  Builds, stagings and      *)
(* earlier checks may have been stopped halfway, and what they left stays. *)
(*                                                                         *)
(* An icon is a number into Icons; 0 is no file.  A part is a format with  *)
(* its "binary", its "icon" file or the "frames" inside its binary.        *)
(* Pixels are compared by the renderer: an icon is `near` the approved art *)
(* or not.  A behaviour may instead be one call of icns_rle on some bytes. *)
(***************************************************************************)
EXTENDS Integers, Sequences, FiniteSetsExt, TLC

CONSTANTS Icons,       \* icon -> its entries, and whether its pixels are near
          Bytes,       \* the strings of bytes handed to icns_rle
          Pixels, Channels,   \* how many it has to decode
          MaxAltered   \* bound: what happens between checks

ASSUME IconAssumption ==
    /\ 0 \notin DOMAIN Icons /\ \A i \in DOMAIN Icons : Icons[i].near \in BOOLEAN
    /\ MaxAltered \in Nat

VARIABLES platform, standalone,   \* where, and the policy of the build
          inputs,                 \* digest of the inputs, and the one recorded
          generated,              \* the container the build generated
          built, staged,          \* part -> the icon in it
          swift,                  \* the renderer's source, by its time
          renderer, evidence,     \* place -> the program, the measurements kept there
          ipc, where, iconExit,   \* the check: where it stands, on what, its answer
          rle,                    \* bytes to decode
          altered                 \* history: counter of the bound

treeVars == <<inputs, generated, built, staged, swift>>
keptVars == <<renderer, evidence>>
iconVars == <<platform, standalone, treeVars, keptVars, ipc, where, iconExit, rle, altered>>

-----------------------------------------------------------------------------
(* The container. *)

PixelsOf ==
    [ic07 |-> 128, ic08 |-> 256, ic09 |-> 512, ic10 |-> 1024, ic11 |-> 32, ic12 |-> 64,
     ic13 |-> 256, ic14 |-> 512, ic04 |-> 16, ic05 |-> 32,
     is32 |-> 16, il32 |-> 32, ih32 |-> 48, it32 |-> 128]
MaskOf == [is32 |-> "s8mk", il32 |-> "l8mk", ih32 |-> "h8mk", it32 |-> "t8mk"]
Metadata == {"info", "TOC", "icnV"}
Known == DOMAIN PixelsOf \cup {MaskOf[k] : k \in DOMAIN MaskOf} \cup Metadata

KindsOf(es) == {es[n].kind : n \in DOMAIN es}

(* icns_images, an entry being ok when its payload fits its kind. *)
icns_images(es) ==
    /\ es # <<>>
    /\ \A n \in DOMAIN es : es[n].kind \in Known /\ es[n].ok
    /\ \A n, m \in DOMAIN es : es[n].kind = es[m].kind => n = m
    /\ \A k \in DOMAIN MaskOf : k \in KindsOf(es) <=> MaskOf[k] \in KindsOf(es)
    /\ LET others == SelectSeq(es, LAMBDA e : e.kind # "TOC")
       IN \A n \in DOMAIN es :
            es[n].kind = "TOC" => es[n].lists = [m \in DOMAIN others |-> others[m].kind]

(* icns_coverage *)
icns_coverage(kinds) ==
    \A alternatives \in { {"ic04", "is32"}, {"ic05", "il32"}, {"ic11"}, {"ic12"}, {"ic07", "it32"},
                          {"ic13"}, {"ic08"}, {"ic14"}, {"ic09"}, {"ic10"} } :
        alternatives \cap kinds # {}

(* icon_images, and the frames the pinned JUCE writes. *)
icon_images(es) ==
    /\ \A n \in DOMAIN es : es[n].ok
    /\ \A n, m \in DOMAIN es : es[n].kind = es[m].kind => n = m
    /\ KindsOf(es) = {"16", "32", "48", "256"}

(* icns_rle: what is decoded from offset o on, with `filled` pixels of the
   c-th channel decoded. *)
Failed == [ok |-> FALSE, bytes |-> <<>>]
icns_rle(data) ==
    LET Decode[o \in 0 .. Len(data), filled \in 0 .. Pixels, c \in 1 .. Channels] ==
          IF filled = Pixels
          THEN IF c < Channels THEN Decode[o, 0, c + 1]
               ELSE [ok |-> o = Len(data), bytes |-> <<>>]
          ELSE IF o = Len(data) THEN Failed
          ELSE LET control == data[o + 1]
                   count == IF control < 128 THEN control + 1 ELSE control - 125
                   length == IF control < 128 THEN count ELSE 1
                   run == IF control < 128 THEN SubSeq(data, o + 2, o + 1 + length)
                          ELSE [n \in 1 .. count |-> data[o + 2]]
               IN IF filled + count > Pixels \/ o + 1 + length > Len(data) THEN Failed
                  ELSE LET more == Decode[o + 1 + length, filled + count, c]
                       IN [more EXCEPT !.bytes = run \o @]
    IN Decode[0, 0, 1]

-----------------------------------------------------------------------------
(* The products. *)

Formats(p) == IF p = "macos" THEN {"VST3", "AU", "Standalone"} ELSE {"VST3", "Standalone"}
AllParts(p) ==
    CASE p = "macos"   -> Formats(p) \X {"binary", "icon"}
      [] p = "windows" -> (Formats(p) \X {"frames"}) \cup {<<"VST3", "icon">>}
      [] OTHER         -> Formats(p) \X {"binary"}

Carries(part) == part[2] # "binary"
Parts    == {q \in AllParts(platform) : standalone \/ q[1] # "Standalone"}
Products == IF where = "staged" THEN staged ELSE built

Of(formats)  == {q \in AllParts(platform) : q[1] \in formats}
Built(parts) == [q \in parts |-> IF Carries(q) THEN generated ELSE 1]

(* check_sources: the digest recorded and the one in the script. *)
check_sources == inputs.actual = inputs.recorded /\ inputs.actual = "approved"

(* A part is there and, if it shows an icon, the icon is the generated one. *)
Matches(products, part) ==
    IF Carries(part) THEN products[part] = generated ELSE products[part] # 0

(* check_native up to the pixels. *)
check_native(products) ==
    /\ CASE platform = "macos"   -> /\ generated # 0
                                    /\ icns_images(Icons[generated].entries)
                                    /\ icns_coverage(KindsOf(Icons[generated].entries))
         [] platform = "windows" -> generated # 0 /\ icon_images(Icons[generated].entries)
         [] OTHER                -> generated = 0
    /\ \A q \in Parts : Matches(products, q)

(* The application the renderer is shown: the product, or a fixture. *)
Shown == IF standalone THEN Products[<<"Standalone", "icon">>] ELSE generated

-----------------------------------------------------------------------------
(* Between checks. *)

Torn == [of |-> 0, by |-> 0]
NoProgram == [time |-> 0, whole |-> FALSE]
Subjects == {"built", "staged"}

IconInit ==
    /\ rle = <<>> /\ ipc = "idle" /\ where = "built" /\ iconExit = "none" /\ altered = 0
    /\ platform \in {"macos", "windows", "linux"} /\ standalone \in BOOLEAN
    /\ inputs = [actual |-> "approved", recorded |-> "approved"]
    /\ generated \in (IF platform = "linux" THEN {0} ELSE DOMAIN Icons)
    /\ built \in {[q \in AllParts(platform) |-> 0], Built(AllParts(platform))}
    /\ staged = built
    /\ swift = 1
    /\ renderer = [w \in Subjects |-> NoProgram] /\ evidence = [w \in Subjects |-> Torn]

(* One call of icns_rle. *)
RleInit ==
    /\ rle \in Bytes /\ ipc = "rle"
    /\ platform = "off" /\ standalone = FALSE /\ inputs = "off" /\ generated = 0
    /\ built = "off" /\ staged = "off" /\ swift = 0 /\ renderer = "off" /\ evidence = "off"
    /\ where = "built" /\ iconExit = "none" /\ altered = 0

Altering ==
    /\ ipc = "idle" /\ altered < MaxAltered
    /\ altered' = altered + 1
    /\ iconExit' = "none"
    /\ UNCHANGED <<platform, standalone, keptVars, ipc, where, rle>>

(* The generator runs again, on other inputs or with another result. *)
Generate(i) ==
    /\ Altering /\ generated' = i
    /\ UNCHANGED <<inputs, built, staged, swift>>

(* A build and a packer, each of which may stop halfway. *)
Rebuild(formats) ==
    /\ Altering
    /\ built' = Built(Of(formats)) @@ built
    /\ UNCHANGED <<inputs, generated, staged, swift>>

Stage(formats) ==
    /\ Altering
    /\ staged' = [q \in Of(formats) |-> built[q]] @@ staged
    /\ UNCHANGED <<inputs, generated, built, swift>>

(* Other art, with its digest recorded beside it or not. *)
EditInputs(recorded) ==
    /\ Altering /\ inputs' = [actual |-> "other", recorded |-> recorded]
    /\ UNCHANGED <<generated, built, staged, swift>>

EditRenderer ==
    /\ Altering /\ swift' = swift + 1
    /\ UNCHANGED <<inputs, generated, built, staged>>

-----------------------------------------------------------------------------
(* The check. *)

Answer(a) == ipc' = "idle" /\ iconExit' = a

NothingCompiled == \A q \in DOMAIN built : q[2] = "icon" \/ built[q] = 0

(* main and preflight_native: a check of the build or of what was staged, or
   of the build if there is one. *)
Start(mode, w) ==
    /\ ipc = "idle" /\ where' = w
    /\ LET products == IF w = "staged" THEN staged ELSE built
       IN IF ~check_sources THEN Answer("red")
          ELSE IF mode = "preflight" /\ NothingCompiled THEN Answer("skipped")
          ELSE IF ~check_native(products) THEN Answer("red")
          ELSE IF platform = "macos" THEN ipc' = "compile" /\ iconExit' = "none"
          ELSE Answer("green")
    /\ UNCHANGED <<platform, standalone, treeVars, keptVars, rle, altered>>

(* render_macos_bundle: compiled if absent or older than its source. *)
Compile(ok) ==
    /\ ipc = "compile"
    /\ IF renderer[where].time >= swift
       THEN ipc' = "render" /\ UNCHANGED <<renderer, iconExit>>
       ELSE IF ok THEN /\ renderer' = [renderer EXCEPT ![where] = [time |-> swift, whole |-> TRUE]]
                       /\ ipc' = "render" /\ UNCHANGED iconExit
       ELSE Answer("red") /\ UNCHANGED renderer
    /\ UNCHANGED <<platform, standalone, treeVars, evidence, where, rle, altered>>

Measured == [of |-> Shown, by |-> renderer[where].time]

(* Mutant: whether the renderer failed is not asked. *)
RenderUnchecked(ok) ==
    /\ ipc = "render"
    /\ ok => renderer[where].whole
    /\ evidence' = IF ok THEN [evidence EXCEPT ![where] = Measured] ELSE evidence
    /\ ipc' = "judge" /\ UNCHANGED iconExit
    /\ UNCHANGED <<platform, standalone, treeVars, renderer, where, rle, altered>>

(* The renderer writes its measurements last; where it fails they may be the
   ones of an earlier check. *)
Render(ok) ==
    /\ ipc = "render"
    /\ IF ok THEN /\ renderer[where].whole
                  /\ evidence' = [evidence EXCEPT ![where] = Measured]
                  /\ ipc' = "judge" /\ UNCHANGED iconExit
       ELSE /\ evidence' \in {evidence, [evidence EXCEPT ![where] = Torn]}
            /\ Answer("red")
    /\ UNCHANGED <<platform, standalone, treeVars, renderer, where, rle, altered>>

(* validate_macos_render *)
Judge ==
    /\ ipc = "judge"
    /\ Answer(IF evidence[where].of # 0 /\ Icons[evidence[where].of].near THEN "green" ELSE "red")
    /\ UNCHANGED <<platform, standalone, treeVars, keptVars, where, rle, altered>>

(* The check is stopped: what it was writing may be torn, and looks new. *)
Kill ==
    /\ ipc \in {"compile", "render", "judge"}
    /\ Answer("none")
    /\ renderer' \in {renderer} \cup
         (IF ipc = "compile" /\ renderer[where].time < swift
          THEN {[renderer EXCEPT ![where] = [time |-> swift, whole |-> FALSE]]} ELSE {})
    /\ evidence' \in {evidence} \cup
         (IF ipc = "render" THEN {[evidence EXCEPT ![where] = Torn]} ELSE {})
    /\ UNCHANGED <<platform, standalone, treeVars, where, rle, altered>>

IconNext ==
    \/ \E i \in DOMAIN Icons : Generate(i)
    \/ \E formats \in SUBSET Formats(platform) : Rebuild(formats) \/ Stage(formats)
    \/ \E recorded \in {"approved", "other"} : EditInputs(recorded)
    \/ EditRenderer
    \/ \E w \in Subjects : Start("platform", w)
    \/ Start("preflight", "built")
    \/ \E ok \in BOOLEAN : Compile(ok) \/ Render(ok)
    \/ Judge \/ Kill

IconSpec == (IconInit \/ RleInit) /\ [][IconNext]_iconVars

-----------------------------------------------------------------------------
(* Properties. *)

(* Some cutting of the bytes into runs fills one channel after the other. *)
WellCoded(data) ==
    \E starts \in SUBSET DOMAIN data :
      LET ends(o) == o + (IF data[o] < 128 THEN data[o] + 2 ELSE 2)
          count(o) == IF data[o] < 128 THEN data[o] + 1 ELSE data[o] - 125
          before(o) == MapThenSumSet(count, {q \in starts : q < o})
          last == Len(data) + 1
      IN /\ 1 \in starts
         /\ \A o \in starts : /\ ends(o) \in starts \cup {last}
                              /\ \A q \in starts : q <= o \/ q >= ends(o)
         /\ before(last) = Channels * Pixels
         /\ \A c \in 1 .. Channels - 1 : \E o \in starts : before(o) = c * Pixels

(* What macOS asks an icon for: a size in points at a density, the second
   density having kinds of its own, and an image without alpha its mask. *)
Retina == {"ic10", "ic11", "ic12", "ic13", "ic14"}
DrawnAs(es, points, scale) ==
    {n \in DOMAIN es : /\ es[n].ok
                       /\ es[n].kind \in DOMAIN PixelsOf
                       /\ PixelsOf[es[n].kind] = points * scale
                       /\ es[n].kind \in Retina <=> scale = 2
                       /\ es[n].kind \in DOMAIN MaskOf =>
                            \E m \in DOMAIN es : es[m].ok /\ es[m].kind = MaskOf[es[n].kind]}

Drawable(es) == \A points \in {16, 32, 128, 256, 512}, scale \in {1, 2} :
                    DrawnAs(es, points, scale) # {}

(***************************************************************************)
(* icns_rle accepts exactly the bytes that fill its channels one by one.   *)
(***************************************************************************)
RleDecodes ==
    ipc = "rle" => LET decoded == icns_rle(rle)
                   IN /\ decoded.ok <=> WellCoded(rle)
                      /\ decoded.ok => Len(decoded.bytes) = Channels * Pixels

(***************************************************************************)
(* A check that answers green was of the approved inputs, and of every     *)
(* product of the configured formats: each carries the very container that *)
(* was generated, which on macOS has an image for every size and density   *)
(* and whose pixels were measured, as the user will see them, by the       *)
(* renderer as it is now and found near; on Linux there is no container.   *)
(* So it is whatever a build, a packer or an earlier check stopped halfway *)
(* left in the tree (check_native, render_macos_bundle).                   *)
(***************************************************************************)
GreenIsMeasured ==
    iconExit = "green" =>
      /\ inputs.actual = "approved"
      /\ \A q \in Parts : IF Carries(q) THEN Products[q] = generated ELSE Products[q] # 0
      /\ platform = "linux" <=> generated = 0
      /\ platform = "macos" => /\ Drawable(Icons[generated].entries)
                               /\ Icons[Shown].near
                               /\ evidence[where] = [of |-> Shown, by |-> swift]

(***************************************************************************)
(* Both: the check of the icons, and of the bytes inside one               *)
(* (check-icons.py).                                                       *)
(***************************************************************************)
IconsHold == RleDecodes /\ GreenIsMeasured
=============================================================================
