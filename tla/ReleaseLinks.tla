---------------------------- MODULE ReleaseLinks ----------------------------
(***************************************************************************)
(* The links of CHANGELOG.md against the git tags (scripts/check-docs.py,  *)
(* read_git_tags and check_changelog_links), over a history that grows:    *)
(* commits on main and on a branch headed for it, merges both ways, tags.  *)
(* Whether a file is clean at a commit turns on which of main's tags bind  *)
(* that commit, and CI asks again at old commits and at branch tips.       *)
(*                                                                         *)
(* Versions are numbers in their order.  A commit's file is the newest     *)
(* entry it has (older ones are all there), whether an [Unreleased]        *)
(* section sits above it, and the links: version -> the version it         *)
(* compares from, Page for a release page.  A file's author writes the     *)
(* links that a set of tags they believe in calls for.                     *)
(***************************************************************************)
EXTENDS Integers, Sequences, FiniteSets, FiniteSetsExt

CONSTANTS
  Releases,      \* versions that may be written up and tagged
  MaxCommits,
  MaxSlips,      \* bound: files written with a wrong idea of what is tagged
  Checkouts,     \* what the check may run in: [remotes, mainFetched, shallow]
  LandsTags      \* may a branch that carries a tag of its own be merged?

Page == 0
Nothing == -1
FirstTagged == 1     \* first_tagged(): the first version that may be tagged
ASSUME ReleasesAssumption == Releases \subseteq Nat \ {0}

VARIABLES
  history,   \* commit -> the commits in its history, itself included
  doc,       \* commit -> its file
  tags,      \* version -> the commit its tag names
  main, branch,   \* tips
  tips,      \* history variable: the commits main has pointed at
  slips

linkVars == <<history, doc, tags, main, branch, tips, slips>>

Newest(S) == IF S = {} THEN Page ELSE Max(S)
Below(S, v) == {t \in S : t < v}

\* The file whose author believes that the versions in "cut" are tagged.
File(top, unreleased, cut) ==
  LET linked == {v \in 1..top : v \in cut \/ (v = top /\ ~unreleased)}
  IN  [top |-> top, unreleased |-> unreleased,
       links |-> [v \in linked |-> IF v = FirstTagged THEN Page ELSE Newest(Below(cut, v))],
       head |-> IF unreleased THEN Newest(cut) ELSE Nothing]

----------------------------------------------------------------------------
(* read_git_tags, run at commit c of a checkout k.                          *)

Present == DOMAIN tags
InHistory(c) == {t \in Present : tags[t] \in history[c]}
\* The refs read as this repository's main: of the remotes that are it by URL, else of a
\* sole origin, else local; otherwise the line is unknown.
LineRefs(k) ==
  IF \/ "canonical" \in k.remotes \/ k.remotes = {"origin"}
     THEN IF k.mainFetched THEN {main} ELSE {}
  ELSE IF k.remotes = {} THEN {main} ELSE {}
Future(c) == {t \in Present : c \in history[tags[t]]} \ InHistory(c)
known(k) == ~k.shallow /\ LineRefs(k) # {}
\* Mutant: all of main's tags bind every commit.
TagsOfMain(c, k) == UNION {InHistory(r) : r \in LineRefs(k)}
\* What main holds, but for what was cut after c.
read_git_tags(c, k) == (UNION {InHistory(r) : r \in LineRefs(k)}) \ Future(c)

----------------------------------------------------------------------------
(* check_changelog_links.                                                   *)

InPrep(d) == IF d.unreleased THEN Nothing ELSE d.top
Past(d) == {v \in 1..d.top : v >= FirstTagged /\ v # InPrep(d)}
Newer(d) == {t \in Present : t >= FirstTagged /\ (InPrep(d) = Nothing \/ t > InPrep(d))}
\* Mutant: a tag the file does not record does not matter where the line is unknown.
VerifiableByFile(d, k) == known(k) \/ ~(d.unreleased \/ Past(d) # {})
Verifiable(d, k) == known(k) \/ ~(d.unreleased \/ Past(d) # {} \/ Newer(d) # {})

\* A definition that names what it should not: an untagged past version, the wrong base, no base.
WrongLink(d, releases, v) ==
  \/ v # InPrep(d) /\ v \notin releases
  \/ v = FirstTagged /\ d.links[v] # Page
  \/ v # FirstTagged /\ \/ Below(releases, v) = {}
                        \/ d.links[v] # Newest(Below(releases, v))
check_changelog_links(c, k) ==
  LET d == doc[c]
      releases == IF known(k) THEN read_git_tags(c, k) ELSE {}
      linked == DOMAIN d.links
  IN  IF ~Verifiable(d, k) THEN FALSE
      ELSE /\ \A t \in releases : t <= d.top
           /\ \A v \in linked : ~WrongLink(d, releases, v)
           /\ \A v \in 1..d.top : v \in releases \cup {InPrep(d)} => v \in linked
           /\ d.unreleased => releases # {} /\ d.head = Newest(releases)

Full == [remotes |-> {"canonical"}, mainFetched |-> TRUE, shallow |-> FALSE]
Clean(c) == check_changelog_links(c, Full)

----------------------------------------------------------------------------
(* The repository.  CI gates what reaches main; a branch may hold anything. *)

Fresh == Len(history) + 1
Commit(parents, d) ==
  /\ Len(history) < MaxCommits
  /\ history' = Append(history, {Fresh} \cup UNION {history[p] : p \in parents})
  /\ doc' = Append(doc, d)
  /\ UNCHANGED tags

\* The author goes on from the file there, right or wrong by one about what is tagged.
Beliefs == {Present} \cup {Present \cup {v} : v \in Releases} \cup {Present \ {v} : v \in Releases}
PushBranch(cut) ==
  LET d == doc[branch]
  IN  /\ \E top \in {d.top, d.top + 1} \cap Releases, u \in BOOLEAN :
            Commit({branch}, File(top, u, cut))
      /\ slips' = IF cut = Present THEN slips ELSE slips + 1
      /\ slips' <= MaxSlips
      /\ branch' = Fresh
      /\ UNCHANGED <<main, tips>>
\* The branch takes main in, keeping either file.
Update ==
  /\ main \notin history[branch]
  /\ \E c \in {main, branch} : Commit({branch, main}, doc[c])
  /\ branch' = Fresh
  /\ UNCHANGED <<main, tips, slips>>
OwnTags == InHistory(branch) \ InHistory(main)
\* A green branch lands as a merge commit with the branch's file, or by fast-forward.
Land ==
  /\ branch \notin history[main]
  /\ Clean(branch)
  /\ LandsTags \/ OwnTags = {}
  /\ \/ /\ Commit({main, branch}, doc[branch])
        /\ main' = Fresh
     \/ /\ main \in history[branch]
        /\ main' = branch
        /\ UNCHANGED <<history, doc, tags>>
  /\ tips' = tips \cup {main'}
  /\ UNCHANGED <<branch, slips>>
\* Another branch, from where main is or was.
Fork ==
  /\ \E c \in tips \ {branch} : branch' = c
  /\ UNCHANGED <<history, doc, tags, main, tips, slips>>

\* The release in preparation at main's tip is tagged.
TagRelease ==
  LET v == InPrep(doc[main])
  IN  /\ v # Nothing /\ v \notin Present
      /\ Clean(main)
      /\ tags' = [t \in Present \cup {v} |-> IF t = v THEN main ELSE tags[t]]
      /\ UNCHANGED <<history, doc, main, branch, tips, slips>>
\* A tag is cut on a branch main does not hold.
TagBranch(v) ==
  /\ v \notin Present /\ branch \notin history[main]
  /\ tags' = [t \in Present \cup {v} |-> IF t = v THEN branch ELSE tags[t]]
  /\ UNCHANGED <<history, doc, main, branch, tips, slips>>

LinksInit ==
  /\ history = <<{1}>>
  /\ doc = <<File(FirstTagged, FALSE, {})>>
  /\ \E cut \in {{}, {FirstTagged}} : tags = [v \in cut |-> 1]
  /\ main = 1 /\ branch = 1 /\ tips = {1} /\ slips = 0

LinksNext ==
  \/ \E cut \in Beliefs : PushBranch(cut)
  \/ Update \/ Land \/ Fork \/ TagRelease
  \/ \E v \in Releases : TagBranch(v)
LinksSpec == LinksInit /\ [][LinksNext]_linkVars

----------------------------------------------------------------------------

(***************************************************************************)
(* What is green as main's tip is green for good: a later merge or tag     *)
(* does not change the answer for a commit of main, releases after it are  *)
(* its future (read_git_tags(), check_changelog_links()).                  *)
(***************************************************************************)
StaysGreen == \A c \in history[main] : Clean(c) => Clean(c)'
MainStaysGreen == [][StaysGreen]_linkVars

(***************************************************************************)
(* A green branch lands green.  Each link of main compares two releases of *)
(* main, the older in the history of the newer, both in the commit's own,  *)
(* and none of main's releases between them; only the release in           *)
(* preparation may lack its tag.  And what passes where the tags cannot be *)
(* placed (a shallow clone, no main) passes with the full history too.     *)
(***************************************************************************)
LinksGoForward ==
  /\ \A c \in tips : Clean(c) /\ \A v \in DOMAIN doc[c].links \ {InPrep(doc[c])} :
       LET base == doc[c].links[v]
           released == {t \in Present : tags[t] \in history[c]}
       IN  /\ v \in released
           /\ base # Page => base \in released /\ tags[base] \in history[tags[v]]
           /\ \A t \in released : t < v => t <= base
  /\ \A c \in {main, branch} : \A k \in Checkouts : check_changelog_links(c, k) => Clean(c)
=============================================================================
