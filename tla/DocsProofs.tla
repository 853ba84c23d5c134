------------------------------ MODULE DocsProofs ------------------------------
(***************************************************************************)
(* Proofs about the documents: the links of the changelog, for any         *)
(* versions and any history of commits and tags; the citation check and    *)
(* its repair, for any documents and any runs on what they wrote; and the  *)
(* release notes, for any lines in any order.                              *)
(***************************************************************************)
EXTENDS ReleaseLinks, Citations, ReleaseNotes, FiniteSetTheorems, SequenceTheorems,
        WellFoundedInduction, TLAPS

LEMMA LeastExists ==
  ASSUME NEW T, T \subseteq Nat, T # {}
  PROVE  \E i \in T : \A j \in T : i <= j
<1>1. IsWellFoundedOn(OpToRel(<, Nat), Nat)
  BY NatLessThanWellFounded
<1>2. PICK i \in T : \A j \in T : ~(<<j, i>> \in OpToRel(<, Nat))
  BY <1>1, WFMin
<1>3. \A j \in T : ~(j < i)
  BY <1>2 DEF OpToRel
<1> QED
  BY <1>3

-----------------------------------------------------------------------------
(* The links between releases.                                              *)

IsFile(d) ==
  /\ d.top \in Nat \ {0} /\ d.unreleased \in BOOLEAN
  /\ DOMAIN d.links \subseteq 1..d.top

LinksTyped ==
  /\ history \in Seq(SUBSET Nat)
  /\ doc \in Seq(Range(doc)) /\ Len(doc) = Len(history)
  /\ \A c \in DOMAIN history : IsFile(doc[c])
  /\ Present \subseteq Nat \ {0} /\ \A t \in Present : tags[t] \in DOMAIN history
  /\ main \in DOMAIN history /\ branch \in DOMAIN history

\* A history holds itself, what each of its commits holds, and nothing younger.
DagInv ==
  \A c \in DOMAIN history :
    /\ c \in history[c] /\ history[c] \subseteq 1..c
    /\ \A p \in history[c] : history[p] \subseteq history[c]

\* Main only grew, and each of its releases was tagged at its tip, in order.
LineInv ==
  /\ main \in tips /\ tips \subseteq history[main]
  /\ \A c, d \in tips : c \in history[d] \/ d \in history[c]
  /\ \A t \in InHistory(main) : tags[t] \in tips
  /\ \A t, u \in InHistory(main) : t < u => tags[t] \in history[tags[u]]

GreenTips == \A c \in tips : Clean(c)

LinksInv == LinksTyped /\ DagInv /\ LineInv /\ GreenTips

\* What a file is held to by a set of releases.
LinksAre(d, releases) ==
  /\ \A t \in releases : t <= d.top
  /\ \A v \in DOMAIN d.links : ~WrongLink(d, releases, v)
  /\ \A v \in 1..d.top : v \in releases \cup {InPrep(d)} => v \in DOMAIN d.links
  /\ d.unreleased => releases # {} /\ d.head = Newest(releases)

\* The releases a commit is held to by a full clone.
Binding(c) == InHistory(main) \ Future(c)

LEMMA LineOfFull == LineRefs(Full) = {main} /\ known(Full)
BY DEF LineRefs, Full, known

LEMMA TagsOf ==
  ASSUME NEW c, NEW k, LineRefs(k) = {main}
  PROVE  read_git_tags(c, k) = Binding(c)
BY DEF read_git_tags, Binding

LEMMA CheckIs ==
  ASSUME NEW c, NEW k, known(k)
  PROVE  check_changelog_links(c, k) <=> LinksAre(doc[c], Binding(c))
<1>1. LineRefs(k) = {main}
  BY DEF known, LineRefs
<1>2. read_git_tags(c, k) = Binding(c)
  BY <1>1, TagsOf
<1>3. Verifiable(doc[c], k)
  BY DEF Verifiable
<1> QED
  BY <1>2, <1>3 DEF check_changelog_links, LinksAre

LEMMA CleanIs == \A c : Clean(c) <=> LinksAre(doc[c], Binding(c))
BY LineOfFull, CheckIs DEF Clean

LEMMA CleanNextIs == \A c : Clean(c)' <=> LinksAre(doc'[c], Binding(c)')
<1>1. (\A c : Clean(c) <=> LinksAre(doc[c], Binding(c)))'
  BY CleanIs, PTL
<1> QED
  BY <1>1

-----------------------------------------------------------------------------
(* The steps of the repository.                                             *)

\* Nothing that was committed changes.
Kept ==
  /\ DOMAIN history \subseteq DOMAIN history'
  /\ \A c \in DOMAIN history : history'[c] = history[c] /\ doc'[c] = doc[c]

\* A commit keeps the others, holds what its parents hold, and leaves the types be.
LEMMA CommitKeeps ==
  ASSUME LinksTyped, DagInv, NEW parents \in SUBSET DOMAIN history, NEW d, IsFile(d),
         Commit(parents, d)
  PROVE  /\ Kept /\ DagInv' /\ tags' = tags
         /\ Fresh \in DOMAIN history' /\ Fresh \notin DOMAIN history
         /\ history'[Fresh] = {Fresh} \cup UNION {history[p] : p \in parents}
         /\ doc'[Fresh] = d
         /\ history' \in Seq(SUBSET Nat) /\ doc' \in Seq(Range(doc')) /\ Len(doc') = Len(history')
         /\ \A c \in DOMAIN history' : IsFile(doc'[c])
<1> DEFINE mine == {Fresh} \cup UNION {history[p] : p \in parents}
<1>1. PICK n \in Nat : n = Len(history) /\ n = Len(doc)
  BY DEF LinksTyped
<1>2. Fresh = n + 1 /\ DOMAIN history = 1..n /\ DOMAIN doc = 1..n
  BY <1>1 DEF Fresh, LinksTyped
<1>3. mine \in SUBSET Nat
  <2>1. \A p \in parents : history[p] \subseteq Nat
    BY DEF LinksTyped
  <2> QED
    BY <1>2, <2>1
<1> HIDE DEF mine
<1>4. /\ history' \in Seq(SUBSET Nat) /\ Len(history') = n + 1
      /\ \A i \in 1..n : history'[i] = history[i]
      /\ history'[n + 1] = mine
  <2>1. history' = Append(history, mine) /\ history \in Seq(SUBSET Nat)
    BY DEF Commit, mine, LinksTyped
  <2>2. /\ Append(history, mine) \in Seq(SUBSET Nat)
        /\ Len(Append(history, mine)) = Len(history) + 1
        /\ \A i \in 1..Len(history) : Append(history, mine)[i] = history[i]
        /\ Append(history, mine)[Len(history) + 1] = mine
    BY <1>3, <2>1, AppendProperties
  <2> QED
    BY <1>1, <2>1, <2>2
<1>5. /\ doc' \in Seq(Range(doc) \cup {d}) /\ Len(doc') = n + 1
      /\ \A i \in 1..n : doc'[i] = doc[i]
      /\ doc'[n + 1] = d
  <2>1. doc' = Append(doc, d) /\ doc \in Seq(Range(doc) \cup {d})
    BY DEF Commit, LinksTyped
  <2> QED
    BY <1>1, <2>1, AppendProperties
<1>6. DOMAIN history' = 1..(n + 1) /\ DOMAIN doc' = 1..(n + 1)
  BY <1>4, <1>5
<1>7. doc' \in Seq(Range(doc'))
  <2>1. \A i \in 1..(n + 1) : doc'[i] \in Range(doc')
    BY <1>6 DEF Range
  <2>2. doc' = [i \in 1..(n + 1) |-> doc'[i]]
    BY <1>5, <1>6
  <2>3. n + 1 \in Nat
    BY <1>1
  <2> QED
    BY <2>1, <2>2, <2>3
<1>8. Kept
  BY <1>2, <1>4, <1>5, <1>6 DEF Kept
<1>9. \A c \in DOMAIN history' : IsFile(doc'[c])
  <2>1. \A c \in 1..n : IsFile(doc'[c])
    BY <1>2, <1>5 DEF LinksTyped
  <2> QED
    BY <1>5, <1>6, <2>1
<1>10. DagInv'
  <2>1. \A c \in 1..n : /\ c \in history'[c] /\ history'[c] \subseteq 1..c
                        /\ \A p \in history'[c] : history'[p] \subseteq history'[c]
    <3>1. TAKE c \in 1..n
    <3>2. c \in history[c] /\ history[c] \subseteq 1..c
      BY <1>2 DEF DagInv
    <3>3. \A p \in history[c] : p \in 1..n /\ history[p] \subseteq history[c]
      BY <1>2, <3>2 DEF DagInv
    <3> QED
      BY <1>4, <3>2, <3>3
  <2>2. n + 1 \in mine /\ mine \subseteq 1..(n + 1)
    <3>1. \A p \in parents : history[p] \subseteq 1..p /\ p \in 1..n
      BY <1>2 DEF DagInv
    <3> QED
      BY <1>2, <3>1 DEF mine
  <2>3. \A p \in mine : history'[p] \subseteq mine
    <3>1. SUFFICES ASSUME NEW p \in mine, p # n + 1 PROVE history'[p] \subseteq mine
      BY <1>4
    <3>2. PICK q \in parents : p \in history[q]
      BY <1>2, <3>1 DEF mine
    <3>3. q \in 1..n /\ history[q] \subseteq 1..q
      BY <1>2, <3>2 DEF DagInv
    <3>4. p \in 1..n /\ history[p] \subseteq history[q]
      BY <1>2, <3>2, <3>3 DEF DagInv
    <3> QED
      BY <1>4, <3>2, <3>4 DEF mine
  <2> QED
    BY <1>4, <1>6, <2>1, <2>2, <2>3 DEF DagInv
<1>11. tags' = tags
  BY DEF Commit
<1> QED
  BY <1>2, <1>4, <1>5, <1>6, <1>7, <1>8, <1>9, <1>10, <1>11 DEF mine

\* Who holds what is a partial order.
LEMMA Held ==
  ASSUME LinksTyped, DagInv, NEW c \in DOMAIN history, NEW p \in history[c]
  PROVE  /\ p \in DOMAIN history
         /\ history[p] \subseteq history[c]
         /\ c \in history[p] => c = p
<1>1. c \in Nat /\ history[c] \subseteq 1..c /\ DOMAIN history = 1..Len(history)
  BY DEF LinksTyped, DagInv
<1>2. p \in 1..c /\ p \in DOMAIN history
  BY <1>1
<1>3. history[p] \subseteq 1..p
  BY <1>2 DEF DagInv
<1> QED
  BY <1>1, <1>2, <1>3 DEF DagInv

\* A release that is new and named here: a file that has it in preparation stays as clean.
LEMMA TaggedStays ==
  ASSUME NEW d, IsFile(d), NEW R \in SUBSET Nat, LinksAre(d, R),
         NEW v, v = InPrep(d), v # Nothing
  PROVE  LinksAre(d, R \cup {v}) /\ v = d.top /\ \A t \in R : t <= v
<1>1. ~d.unreleased /\ v = d.top /\ v \in Nat
  BY DEF InPrep, IsFile, Nothing
<1>2. \A w \in DOMAIN d.links : Below(R \cup {v}, w) = Below(R, w)
  <2>1. \A w \in DOMAIN d.links : w \in Nat /\ w <= v
    BY <1>1 DEF IsFile
  <2> QED
    BY <1>1, <2>1 DEF Below
<1>3. \A w \in DOMAIN d.links : ~WrongLink(d, R \cup {v}, w)
  BY <1>2 DEF LinksAre, WrongLink
<1> QED
  BY <1>1, <1>3 DEF LinksAre

\* As long as main's releases are the same, so is every answer about an old commit.
LEMMA SameAnswers ==
  ASSUME LinksTyped, DagInv, Kept, tags' = tags, InHistory(main)' = InHistory(main),
         NEW c \in DOMAIN history
  PROVE  (Clean(c)' <=> Clean(c)) /\ InHistory(c)' = InHistory(c)
<1>1. Present' = Present /\ \A t \in Present : tags'[t] = tags[t] /\ tags[t] \in DOMAIN history
  BY DEF Present, LinksTyped
<1>2. InHistory(c)' = InHistory(c)
  BY <1>1 DEF InHistory, Kept
<1>3. Future(c)' = Future(c)
  BY <1>1, <1>2 DEF Future, Kept
<1>4. Binding(c)' = Binding(c) /\ doc'[c] = doc[c]
  BY <1>3 DEF Binding, Kept
<1> QED
  BY <1>2, <1>4, CleanIs, CleanNextIs

\* Of a line of commits on main, each is older than the next.
LEMMA TipsAre ==
  ASSUME LinksTyped, DagInv, LineInv, NEW c \in tips
  PROVE  c \in DOMAIN history /\ c \in history[main] /\ history[c] \subseteq history[main]
BY Held DEF LineInv, LinksTyped

\* A step on the branch alone.
LEMMA BranchKeeps ==
  ASSUME LinksInv, Kept, tags' = tags, main' = main, tips' = tips
  PROVE  LineInv' /\ GreenTips' /\ StaysGreen
<1>1. main \in DOMAIN history /\ history'[main] = history[main]
  BY DEF LinksInv, LinksTyped, Kept
<1>2. Present' = Present /\ \A t \in Present : tags'[t] = tags[t] /\ tags[t] \in DOMAIN history
  BY DEF Present, LinksInv, LinksTyped
<1>3. InHistory(main)' = InHistory(main)
  BY <1>1, <1>2 DEF InHistory
<1>4. \A c \in DOMAIN history : Clean(c)' <=> Clean(c)
  BY <1>3, SameAnswers DEF LinksInv
<1>5. StaysGreen
  BY <1>1, <1>4, Held DEF StaysGreen, LinksInv
<1>6. \A c \in tips : c \in DOMAIN history /\ history'[c] = history[c]
  BY TipsAre DEF LinksInv, Kept
<1>7. GreenTips'
  BY <1>4, <1>6 DEF GreenTips, LinksInv
<1>8. LineInv'
  <2>1. main' \in tips' /\ tips' \subseteq history'[main']
    BY <1>1 DEF LinksInv, LineInv
  <2>2. \A c, d \in tips' : c \in history'[d] \/ d \in history'[c]
    BY <1>6 DEF LinksInv, LineInv
  <2>3. \A t \in InHistory(main) : t \in Present /\ tags[t] \in tips
    BY DEF LinksInv, LineInv, InHistory
  <2>4. \A t, u \in InHistory(main) : t < u => tags'[t] \in history'[tags'[u]]
    BY <1>2, <1>6, <2>3 DEF LinksInv, LineInv
  <2> QED
    BY <1>2, <1>3, <2>1, <2>2, <2>3, <2>4 DEF LineInv
<1> QED
  BY <1>5, <1>7, <1>8

LEMMA FileIs ==
  ASSUME NEW top \in Nat \ {0}, NEW unreleased \in BOOLEAN, NEW past
  PROVE  IsFile(File(top, unreleased, past))
BY DEF IsFile, File

LEMMA PushKeepsLinks ==
  ASSUME LinksInv, NEW past, PushBranch(past)
  PROVE  LinksInv' /\ StaysGreen
<1>1. PICK top \in Releases, u \in BOOLEAN : Commit({branch}, File(top, u, past))
  BY DEF PushBranch
<1>2. {branch} \in SUBSET DOMAIN history /\ IsFile(File(top, u, past))
  BY FileIs, ReleasesAssumption DEF LinksInv, LinksTyped
<1>3. branch' = Fresh /\ main' = main /\ tips' = tips
  BY DEF PushBranch
<1>4. /\ Kept /\ DagInv' /\ tags' = tags /\ Fresh \in DOMAIN history'
      /\ history' \in Seq(SUBSET Nat) /\ doc' \in Seq(Range(doc')) /\ Len(doc') = Len(history')
      /\ \A c \in DOMAIN history' : IsFile(doc'[c])
  BY <1>1, <1>2, CommitKeeps DEF LinksInv
<1>5. LineInv' /\ GreenTips' /\ StaysGreen
  BY <1>3, <1>4, BranchKeeps
<1>6. LinksTyped'
  BY <1>3, <1>4 DEF LinksInv, LinksTyped, Kept, Present
<1> QED
  BY <1>4, <1>5, <1>6 DEF LinksInv

LEMMA UpdateKeepsLinks ==
  ASSUME LinksInv, Update
  PROVE  LinksInv' /\ StaysGreen
<1>1. PICK c \in {main, branch} : Commit({branch, main}, doc[c])
  BY DEF Update
<1>2. {branch, main} \in SUBSET DOMAIN history /\ IsFile(doc[c])
  BY DEF LinksInv, LinksTyped
<1>3. branch' = Fresh /\ main' = main /\ tips' = tips
  BY DEF Update
<1>4. /\ Kept /\ DagInv' /\ tags' = tags /\ Fresh \in DOMAIN history'
      /\ history' \in Seq(SUBSET Nat) /\ doc' \in Seq(Range(doc')) /\ Len(doc') = Len(history')
      /\ \A d \in DOMAIN history' : IsFile(doc'[d])
  BY <1>1, <1>2, CommitKeeps DEF LinksInv
<1>5. LineInv' /\ GreenTips' /\ StaysGreen
  BY <1>3, <1>4, BranchKeeps
<1>6. LinksTyped'
  BY <1>3, <1>4 DEF LinksInv, LinksTyped, Kept, Present
<1> QED
  BY <1>4, <1>5, <1>6 DEF LinksInv

LEMMA ForkKeepsLinks ==
  ASSUME LinksInv, Fork
  PROVE  LinksInv' /\ StaysGreen
<1>1. branch' \in tips /\ UNCHANGED <<history, doc, tags, main, tips>>
  BY DEF Fork
<1>2. Kept
  BY <1>1 DEF Kept
<1>3. LineInv' /\ GreenTips' /\ StaysGreen
  BY <1>1, <1>2, BranchKeeps
<1>4. branch' \in DOMAIN history'
  BY <1>1, TipsAre DEF LinksInv
<1>5. LinksTyped' /\ DagInv'
  BY <1>1, <1>4 DEF LinksInv, LinksTyped, DagInv, Present
<1> QED
  BY <1>3, <1>5 DEF LinksInv

\* A green branch without a tag of its own: main's releases are the same, and bind it as before.
LEMMA LandKeepsLinks ==
  ASSUME LinksInv, LandsTags = FALSE, Land
  PROVE  LinksInv' /\ StaysGreen
<1>1. /\ branch \notin history[main] /\ Clean(branch) /\ OwnTags = {}
      /\ tips' = tips \cup {main'} /\ branch' = branch
  BY DEF Land
<1>2. PICK m : m = main'
  OBVIOUS
<1>3. main \in DOMAIN history /\ branch \in DOMAIN history
  BY DEF LinksInv, LinksTyped
<1>4. /\ Kept /\ DagInv' /\ tags' = tags /\ m \in DOMAIN history'
      /\ history' \in Seq(SUBSET Nat) /\ doc' \in Seq(Range(doc')) /\ Len(doc') = Len(history')
      /\ \A c \in DOMAIN history' : IsFile(doc'[c])
      /\ m \notin history[main] /\ doc'[m] = doc[branch]
      /\ m \in history'[m] /\ history[main] \subseteq history'[m]
      /\ \A p \in DOMAIN history : p \in history'[m] => p \in history[main] \cup history[branch]
  <2>1. CASE Commit({main, branch}, doc[branch]) /\ main' = Fresh
    <3>1. {main, branch} \in SUBSET DOMAIN history /\ IsFile(doc[branch])
      BY <1>3 DEF LinksInv, LinksTyped
    <3>2. /\ Kept /\ DagInv' /\ tags' = tags
          /\ m \in DOMAIN history' /\ m \notin DOMAIN history
          /\ history'[m] = {m} \cup UNION {history[p] : p \in {main, branch}}
          /\ doc'[m] = doc[branch]
          /\ history' \in Seq(SUBSET Nat) /\ doc' \in Seq(Range(doc')) /\ Len(doc') = Len(history')
          /\ \A c \in DOMAIN history' : IsFile(doc'[c])
      BY <1>2, <2>1, <3>1, CommitKeeps DEF LinksInv
    <3>3. m \notin history[main]
      BY <1>3, <3>2, Held DEF LinksInv
    <3> QED
      BY <3>2, <3>3
  <2>2. CASE main \in history[branch] /\ main' = branch /\ UNCHANGED <<history, doc, tags>>
    <3>1. Kept /\ DagInv'
      BY <2>2 DEF Kept, LinksInv, DagInv
    <3>2. m \in history[m] /\ history[main] \subseteq history[m]
      BY <1>2, <1>3, <2>2, Held DEF LinksInv, DagInv
    <3>3. /\ history \in Seq(SUBSET Nat) /\ doc \in Seq(Range(doc)) /\ Len(doc) = Len(history)
          /\ \A c \in DOMAIN history : IsFile(doc[c])
      BY DEF LinksInv, LinksTyped
    <3> QED
      BY <1>1, <1>2, <1>3, <2>2, <3>1, <3>2, <3>3
  <2> QED
    BY <2>1, <2>2 DEF Land
<1>5. Present' = Present /\ \A t \in Present : tags'[t] = tags[t] /\ tags[t] \in DOMAIN history
  BY <1>4 DEF Present, LinksInv, LinksTyped
<1>6. InHistory(main)' = InHistory(main)
  <2>1. InHistory(branch) \subseteq InHistory(main)
    BY <1>1 DEF OwnTags
  <2>2. \A t \in Present : tags[t] \in history'[m] <=> tags[t] \in history[main]
    BY <1>4, <1>5, <2>1 DEF InHistory
  <2> QED
    BY <1>2, <1>5, <2>2 DEF InHistory
<1>7. \A c \in DOMAIN history : Clean(c)' <=> Clean(c)
  BY <1>4, <1>6, SameAnswers DEF LinksInv
<1>8. StaysGreen
  BY <1>3, <1>7, Held DEF StaysGreen, LinksInv
<1>9. \A c \in tips : c \in DOMAIN history /\ history'[c] = history[c] /\ c \in history[main]
  BY <1>4, TipsAre DEF LinksInv, Kept
<1>10. Clean(m)'
  <2>1. \A t \in InHistory(main) : /\ t \in Present /\ tags[t] \in DOMAIN history
                                   /\ history[tags[t]] \subseteq history[main]
    BY <1>3, <1>5, Held DEF InHistory, LinksInv
  <2>2. Binding(branch) = InHistory(main)
    BY <1>1, <2>1 DEF Binding, Future
  <2>3. \A t \in InHistory(main) : m \notin history'[tags'[t]]
    BY <1>4, <1>5, <2>1 DEF Kept
  <2>4. Binding(m)' = InHistory(main)
    BY <1>6, <2>3 DEF Binding, Future
  <2>5. LinksAre(doc[branch], Binding(branch))
    BY <1>1, CleanIs
  <2> QED
    BY <1>4, <2>2, <2>4, <2>5, CleanNextIs
<1>11. GreenTips'
  <2>1. \A c \in tips' : Clean(c)'
    BY <1>1, <1>2, <1>7, <1>9, <1>10 DEF LinksInv, GreenTips
  <2> QED
    BY <2>1 DEF GreenTips
<1>12. LineInv'
  <2>1. main' \in tips' /\ tips' \subseteq history'[main']
    BY <1>1, <1>2, <1>4, <1>9
  <2>2. \A c, d \in tips' : c \in history'[d] \/ d \in history'[c]
    BY <1>1, <1>2, <1>4, <1>9 DEF LinksInv, LineInv
  <2>3. \A t \in InHistory(main) : t \in Present /\ tags[t] \in tips
    BY DEF LinksInv, LineInv, InHistory
  <2>4. \A t, u \in InHistory(main) : t < u => tags'[t] \in history'[tags'[u]]
    BY <1>5, <1>9, <2>3 DEF LinksInv, LineInv
  <2> QED
    BY <1>1, <1>5, <1>6, <2>1, <2>2, <2>3, <2>4 DEF LineInv
<1>13. LinksTyped'
  BY <1>1, <1>2, <1>4, <1>5 DEF LinksInv, LinksTyped, Kept
<1> QED
  BY <1>4, <1>8, <1>11, <1>12, <1>13 DEF LinksInv

\* The release in preparation becomes main's newest, and the future of all that came before.
LEMMA TagReleaseKeepsLinks ==
  ASSUME LinksInv, TagRelease
  PROVE  LinksInv' /\ StaysGreen
<1>1. PICK v : v = InPrep(doc[main])
  OBVIOUS
<1>2. /\ v # Nothing /\ v \notin Present /\ Clean(main)
      /\ tags' = [t \in Present \cup {v} |-> IF t = v THEN main ELSE tags[t]]
      /\ UNCHANGED <<history, doc, main, branch, tips>>
  BY <1>1 DEF TagRelease
<1>3. /\ Present' = Present \cup {v} /\ tags'[v] = main
      /\ \A t \in Present : tags'[t] = tags[t] /\ tags[t] \in DOMAIN history
  BY <1>2 DEF Present, LinksInv, LinksTyped
<1>4. main \in DOMAIN history /\ main \in history[main] /\ IsFile(doc[main])
  BY DEF LinksInv, LinksTyped, DagInv
<1>5. InHistory(main)' = InHistory(main) \cup {v} /\ v \notin InHistory(main)
  BY <1>2, <1>3, <1>4 DEF InHistory
<1>6. InHistory(main) \in SUBSET Nat
  BY DEF InHistory, LinksInv, LinksTyped
<1>7. Binding(main) = InHistory(main)
  BY DEF Binding, Future
<1>8. /\ LinksAre(doc[main], InHistory(main) \cup {v}) /\ v = doc[main].top
      /\ \A t \in InHistory(main) : t <= v
  BY <1>1, <1>2, <1>4, <1>6, <1>7, CleanIs, TaggedStays
<1>9. v \in Nat \ {0}
  BY <1>4, <1>8 DEF IsFile
<1>10. ASSUME NEW c \in history[main], Clean(c)
       PROVE  Clean(c)'
  <2>1. c \in DOMAIN history /\ (main \in history[c] => c = main)
    BY <1>4, Held DEF LinksInv
  <2>2. CASE c = main
    <3>1. Binding(c)' = InHistory(main) \cup {v}
      BY <1>2, <1>5, <2>2 DEF Binding, Future, InHistory
    <3> QED
      BY <1>2, <1>8, <2>2, <3>1, CleanNextIs
  <2>3. CASE c # main
    <3>1. InHistory(c)' = InHistory(c)
      BY <1>2, <1>3, <2>1, <2>3 DEF InHistory
    <3>2. Future(c)' = Future(c) \cup {v}
      BY <1>2, <1>3, <2>1, <2>3, <3>1 DEF Future, InHistory
    <3>3. Binding(c)' = Binding(c)
      BY <1>5, <3>2 DEF Binding
    <3> QED
      BY <1>2, <1>10, <3>3, CleanIs, CleanNextIs
  <2> QED
    BY <2>2, <2>3
<1>11. StaysGreen
  BY <1>10 DEF StaysGreen
<1>12. GreenTips'
  <2>1. \A c \in tips : c \in history[main] /\ Clean(c)
    BY DEF LinksInv, LineInv, GreenTips
  <2> QED
    BY <1>2, <1>10, <2>1 DEF GreenTips
<1>13. LineInv'
  <2>1. \A t \in InHistory(main) : t \in Present /\ tags[t] \in tips /\ tags[t] \in history[main]
    BY DEF LinksInv, LineInv, InHistory
  <2>2. \A t \in InHistory(main)' : tags'[t] \in tips'
    BY <1>2, <1>3, <1>5, <2>1 DEF LinksInv, LineInv
  <2>3. \A t, u \in InHistory(main)' : t < u => tags'[t] \in history'[tags'[u]]
    <3>1. SUFFICES ASSUME NEW t \in InHistory(main)', NEW u \in InHistory(main)', t < u
                   PROVE  tags'[t] \in history[tags'[u]]
      BY <1>2
    <3>2. CASE u = v
      BY <1>3, <1>5, <1>9, <2>1, <3>1, <3>2
    <3>3. CASE u # v
      <4>1. u \in InHistory(main) /\ u \in Nat /\ u <= v
        BY <1>5, <1>6, <1>8, <3>1, <3>3
      <4>2. t # v
        BY <1>9, <3>1, <4>1
      <4>3. t \in InHistory(main)
        BY <1>5, <3>1, <4>2
      <4> QED
        BY <1>3, <2>1, <3>1, <4>1, <4>3 DEF LinksInv, LineInv
    <3> QED
      BY <3>2, <3>3
  <2> QED
    BY <1>2, <2>2, <2>3 DEF LinksInv, LineInv
<1>14. LinksTyped' /\ DagInv'
  BY <1>2, <1>3, <1>4, <1>9 DEF LinksInv, LinksTyped, DagInv
<1> QED
  BY <1>11, <1>12, <1>13, <1>14 DEF LinksInv

\* A tag that main does not hold binds nothing of main.
LEMMA TagBranchKeepsLinks ==
  ASSUME LinksInv, NEW v \in Releases, TagBranch(v)
  PROVE  LinksInv' /\ StaysGreen
<1>1. /\ v \notin Present /\ branch \notin history[main]
      /\ tags' = [t \in Present \cup {v} |-> IF t = v THEN branch ELSE tags[t]]
      /\ UNCHANGED <<history, doc, main, branch, tips>>
  BY DEF TagBranch
<1>2. /\ Present' = Present \cup {v} /\ tags'[v] = branch
      /\ \A t \in Present : tags'[t] = tags[t] /\ tags[t] \in DOMAIN history
  BY <1>1 DEF Present, LinksInv, LinksTyped
<1>3. main \in DOMAIN history /\ branch \in DOMAIN history
  BY DEF LinksInv, LinksTyped
<1>4. InHistory(main)' = InHistory(main) /\ v \notin InHistory(main)
  BY <1>1, <1>2 DEF InHistory
<1>5. ASSUME NEW c \in history[main]
      PROVE  Clean(c)' <=> Clean(c)
  <2>1. branch \notin history[c]
    BY <1>1, <1>3, Held DEF LinksInv
  <2>2. InHistory(c)' = InHistory(c)
    BY <1>1, <1>2, <2>1 DEF InHistory
  <2>3. \A t \in InHistory(main) : t \in Future(c)' <=> t \in Future(c)
    BY <1>1, <1>2, <1>4, <2>2 DEF Future, InHistory
  <2>4. Binding(c)' = Binding(c)
    BY <1>4, <2>3 DEF Binding
  <2> QED
    BY <1>1, <2>4, CleanIs, CleanNextIs
<1>6. StaysGreen
  BY <1>5 DEF StaysGreen
<1>7. GreenTips'
  BY <1>1, <1>5 DEF LinksInv, LineInv, GreenTips
<1>8. LineInv'
  <2>1. \A t \in InHistory(main) : tags'[t] = tags[t]
    BY <1>2 DEF InHistory
  <2> QED
    BY <1>1, <1>4, <2>1 DEF LinksInv, LineInv
<1>9. LinksTyped' /\ DagInv'
  BY <1>1, <1>2, <1>3, ReleasesAssumption DEF LinksInv, LinksTyped, DagInv
<1> QED
  BY <1>6, <1>7, <1>8, <1>9 DEF LinksInv

LEMMA FirstCommit == LinksInit => LinksInv
<1>1. SUFFICES ASSUME LinksInit PROVE LinksInv
  OBVIOUS
<1>2. PICK past \in {{}, {FirstTagged}} : tags = [v \in past |-> 1]
  BY <1>1 DEF LinksInit
<1>3. /\ history = <<{1}>> /\ doc = <<File(FirstTagged, FALSE, {})>>
      /\ main = 1 /\ branch = 1 /\ tips = {1}
  BY <1>1 DEF LinksInit
<1>4. /\ Len(history) = 1 /\ DOMAIN history = {1} /\ history[1] = {1}
      /\ Len(doc) = 1 /\ doc[1] = File(FirstTagged, FALSE, {}) /\ DOMAIN doc = {1}
  BY <1>3
<1>5. IsFile(doc[1])
  <2>1. FirstTagged \in Nat \ {0}
    BY DEF FirstTagged
  <2> QED
    BY <1>4, <2>1, FileIs
<1>6. history \in Seq(SUBSET Nat) /\ doc \in Seq(Range(doc))
  <2>1. \A S : \A e \in S : <<e>> \in Seq(S)
    OBVIOUS
  <2>2. {1} \in SUBSET Nat
    OBVIOUS
  <2>3. history \in Seq(SUBSET Nat)
    BY <1>3, <2>1, <2>2
  <2>4. doc = <<doc[1]>> /\ 1 \in DOMAIN doc
    BY <1>3, <1>4
  <2>5. doc[1] \in Range(doc)
    BY <2>4 DEF Range
  <2> QED
    BY <2>1, <2>3, <2>4, <2>5
<1>7. /\ Present = past /\ past \subseteq {1} /\ \A t \in Present : tags[t] = 1
  BY <1>2 DEF Present, FirstTagged
<1>8. LinksTyped /\ DagInv
  <2>1. Present \subseteq Nat \ {0} /\ \A t \in Present : tags[t] \in DOMAIN history
    BY <1>4, <1>7
  <2>2. LinksTyped
    BY <1>3, <1>4, <1>5, <1>6, <2>1 DEF LinksTyped
  <2> QED
    BY <1>4, <2>2 DEF DagInv
<1>9. LineInv
  BY <1>3, <1>4, <1>7 DEF LineInv, InHistory
<1>10. Clean(1)
  <2>1. Binding(1) \subseteq {1}
    BY <1>7 DEF Binding, InHistory
  <2>2. /\ doc[1].top = 1 /\ doc[1].unreleased = FALSE
        /\ DOMAIN doc[1].links = {1} /\ doc[1].links[1] = Page
    BY <1>4 DEF File, FirstTagged
  <2>3. InPrep(doc[1]) = 1
    BY <2>2 DEF InPrep
  <2>4. ~WrongLink(doc[1], Binding(1), 1)
    BY <2>2, <2>3 DEF WrongLink, FirstTagged
  <2>5. LinksAre(doc[1], Binding(1))
    BY <2>1, <2>2, <2>3, <2>4 DEF LinksAre
  <2> QED
    BY <2>5, CleanIs
<1> QED
  BY <1>3, <1>8, <1>9, <1>10 DEF LinksInv, GreenTips

LEMMA LinksStep ==
  ASSUME LandsTags = FALSE, LinksInv, [LinksNext]_linkVars
  PROVE  LinksInv' /\ [StaysGreen]_linkVars
<1>1. CASE LinksNext
  BY <1>1, PushKeepsLinks, UpdateKeepsLinks, LandKeepsLinks, ForkKeepsLinks,
     TagReleaseKeepsLinks, TagBranchKeepsLinks DEF LinksNext
<1>2. CASE UNCHANGED linkVars
  <2>1. UNCHANGED <<history, doc, tags, main, branch, tips>>
    BY <1>2 DEF linkVars
  <2>2. LinksTyped' /\ DagInv' /\ LineInv'
    BY <2>1 DEF LinksInv, LinksTyped, DagInv, LineInv, InHistory, Present
  <2>3. Kept /\ InHistory(main)' = InHistory(main)
    BY <2>1 DEF Kept, InHistory, Present
  <2>4. GreenTips'
    BY <2>1, <2>3, SameAnswers, TipsAre DEF LinksInv, GreenTips
  <2> QED
    BY <1>2, <2>2, <2>4 DEF LinksInv
<1> QED
  BY <1>1, <1>2

(***************************************************************************)
(* For any versions and any number of commits, where no branch lands a tag *)
(* of its own: main is a line of commits that only grows, all green, and   *)
(* its releases were tagged on that line in their order.                   *)
(***************************************************************************)
THEOREM LinksInvariant == LandsTags = FALSE => (LinksSpec => []LinksInv)
<1>1. SUFFICES ASSUME LandsTags = FALSE PROVE LinksSpec => []LinksInv
  OBVIOUS
<1>2. LinksInv /\ [LinksNext]_linkVars => LinksInv'
  BY <1>1, LinksStep
<1> QED
  BY <1>2, FirstCommit, PTL DEF LinksSpec

(***************************************************************************)
(* For the same: no step of anyone turns a commit of main that passes the  *)
(* check into one that fails it (read_git_tags(), check_changelog_links()).*)
(***************************************************************************)
THEOREM MainAlwaysStaysGreen == LandsTags = FALSE => (LinksSpec => MainStaysGreen)
<1>1. SUFFICES ASSUME LandsTags = FALSE PROVE LinksSpec => MainStaysGreen
  OBVIOUS
<1>2. LinksInv /\ [LinksNext]_linkVars => [StaysGreen]_linkVars
  BY <1>1, LinksStep
<1>3. LinksSpec => []LinksInv
  BY <1>1, LinksInvariant
<1> QED
  BY <1>2, <1>3, PTL DEF LinksSpec, MainStaysGreen

\* The newest of some versions below another is one of them, and none is newer.
LEMMA NewestBelow ==
  ASSUME NEW R \in SUBSET Nat, NEW v \in Nat, Below(R, v) # {}
  PROVE  /\ Newest(Below(R, v)) \in Below(R, v)
         /\ \A t \in Below(R, v) : t <= Newest(Below(R, v))
<1> DEFINE B == Below(R, v)
           above == {n \in Nat : \A t \in B : t <= n}
<1>1. B \subseteq Nat /\ \A t \in B : t < v
  BY DEF Below
<1>2. above \subseteq Nat /\ v \in above
  BY <1>1
<1>3. PICK n \in above : \A m \in above : n <= m
  <2> HIDE DEF above
  <2> QED
    BY <1>2, LeastExists
<1>4. n \in B
  <2>1. SUFFICES ASSUME n \notin B PROVE FALSE
    OBVIOUS
  <2>2. PICK b \in B : TRUE
    OBVIOUS
  <2>3. \A t \in B : t < n /\ t \in Nat
    BY <1>1, <1>3, <2>1
  <2>4. n - 1 \in Nat /\ \A t \in B : t <= n - 1
    BY <1>3, <2>2, <2>3
  <2>5. n - 1 \in above
    BY <2>4
  <2>6. n <= n - 1 /\ n \in Nat
    BY <1>3, <2>5
  <2> QED
    BY <2>6
<1>5. Newest(B) = CHOOSE x \in B : \A y \in B : x >= y
  BY DEF Newest, Max
<1>6. \A y \in B : n >= y
  BY <1>1, <1>3, <1>4
<1>7. Newest(B) \in B /\ \A y \in B : Newest(B) >= y
  <2> HIDE DEF B
  <2> QED
    BY <1>4, <1>5, <1>6
<1> QED
  BY <1>1, <1>7

(***************************************************************************)
(* For the same: each link of main goes to the release before, and a check *)
(* that cannot place the tags passes nothing a full clone would fail.      *)
(***************************************************************************)
THEOREM LinksAlwaysForward == LandsTags = FALSE => (LinksSpec => []LinksGoForward)
<1>1. LinksInv => LinksGoForward
  <2>1. SUFFICES ASSUME LinksInv PROVE LinksGoForward
    OBVIOUS
  <2>2. ASSUME NEW c \in tips, NEW v \in DOMAIN doc[c].links \ {InPrep(doc[c])}
        PROVE  /\ v \in InHistory(c)
               /\ doc[c].links[v] # Page => /\ doc[c].links[v] \in InHistory(c)
                                            /\ tags[doc[c].links[v]] \in history[tags[v]]
               /\ \A t \in InHistory(c) : t < v => t <= doc[c].links[v]
    <3>1. c \in DOMAIN history /\ c \in history[main] /\ history[c] \subseteq history[main]
      BY <2>1, TipsAre DEF LinksInv
    <3>2. InHistory(c) \subseteq InHistory(main)
      BY <3>1 DEF InHistory
    <3>3. Binding(c) = InHistory(c)
      <4>1. \A t \in InHistory(main) : c \in history[tags[t]] \/ tags[t] \in history[c]
        BY <2>1 DEF LinksInv, LineInv
      <4> QED
        BY <3>2, <4>1 DEF Binding, Future, InHistory
    <3>4. ~WrongLink(doc[c], InHistory(c), v)
      BY <2>1, <2>2, <3>3, CleanIs DEF LinksInv, GreenTips, LinksAre
    <3>5. v \in InHistory(c) /\ v \in Nat \ {0}
      BY <2>1, <2>2, <3>4 DEF WrongLink, InHistory, LinksInv, LinksTyped
    <3>6. InHistory(c) \in SUBSET (Nat \ {0})
      BY <2>1 DEF InHistory, LinksInv, LinksTyped
    <3>7. CASE v = FirstTagged
      BY <3>4, <3>5, <3>6, <3>7 DEF WrongLink, FirstTagged
    <3>8. CASE v # FirstTagged
      <4>1. /\ Below(InHistory(c), v) # {}
            /\ doc[c].links[v] = Newest(Below(InHistory(c), v))
        BY <3>4, <3>8 DEF WrongLink
      <4>2. /\ doc[c].links[v] \in Below(InHistory(c), v)
            /\ \A t \in Below(InHistory(c), v) : t <= doc[c].links[v]
        BY <3>5, <3>6, <4>1, NewestBelow
      <4>3. doc[c].links[v] \in InHistory(c) /\ doc[c].links[v] < v
        BY <4>2 DEF Below
      <4>4. tags[doc[c].links[v]] \in history[tags[v]]
        BY <2>1, <3>2, <3>5, <4>3 DEF LinksInv, LineInv
      <4> QED
        BY <3>5, <4>2, <4>3, <4>4 DEF Below
    <3> QED
      BY <3>7, <3>8
  <2>3. ASSUME NEW c \in {main, branch}, NEW k \in Checkouts, check_changelog_links(c, k)
        PROVE  Clean(c)
    <3>1. CASE known(k)
      BY <2>3, <3>1, CheckIs, CleanIs
    <3>2. CASE ~known(k)
      <4> DEFINE d == doc[c]
                 R == Binding(c)
      <4>1. IsFile(d) /\ R \subseteq Present /\ Present \subseteq Nat \ {0}
        BY <2>1, <2>3 DEF LinksInv, LinksTyped, Binding, InHistory
      <4>2. Verifiable(d, k) /\ LinksAre(d, {})
        BY <2>3, <3>2 DEF check_changelog_links, LinksAre
      <4>3. ~d.unreleased /\ Past(d) = {} /\ Newer(d) = {}
        BY <3>2, <4>2 DEF Verifiable
      <4> HIDE DEF d, R
      <4>4. InPrep(d) = d.top /\ d.top \in Nat \ {0}
        BY <4>1, <4>3 DEF InPrep, IsFile
      <4>5. d.top = 1
        <5>1. 1 \in 1..d.top /\ 1 >= FirstTagged
          BY <4>4 DEF FirstTagged
        <5> QED
          BY <4>3, <4>4, <5>1 DEF Past
      <4>6. \A t \in R : t = 1
        <5>1. \A t \in Present : ~(t > 1)
          BY <4>1, <4>3, <4>4, <4>5 DEF Newer, FirstTagged, Nothing
        <5> QED
          BY <4>1, <5>1
      <4>7. DOMAIN d.links \subseteq {1}
        BY <4>1, <4>5 DEF IsFile
      <4>8. \A v \in DOMAIN d.links : ~WrongLink(d, R, v)
        BY <4>2, <4>4, <4>5, <4>7 DEF LinksAre, WrongLink, FirstTagged
      <4>9. LinksAre(d, R)
        BY <4>2, <4>3, <4>4, <4>5, <4>6, <4>8 DEF LinksAre
      <4> QED
        BY <4>9, CleanIs DEF d, R
    <3> QED
      BY <3>1, <3>2
  <2> QED
    BY <2>2, <2>3, <2>1 DEF LinksGoForward, InHistory, LinksInv, GreenTips
<1>2. SUFFICES ASSUME LandsTags = FALSE PROVE LinksSpec => []LinksGoForward
  OBVIOUS
<1>3. LinksSpec => []LinksInv
  BY <1>2, LinksInvariant
<1> QED
  BY <1>1, <1>3, PTL

-----------------------------------------------------------------------------
(* The citation check.                                                      *)

CitTyped ==
  /\ nowFile \in NowFiles
  /\ baseDocs \in [Docs -> BaseDocs] /\ docs \in [Docs -> Seq(Citation)]
  /\ mode \in {"check", "fix"}
  /\ phase \in {"idle", "reaims", "glosses", "versioned", "docs"}
  /\ visited \in 0..Len(DocOrder)
  /\ drifted \in Nat /\ unmappable \in Nat

\* The pinned line and its note are there and agree, whatever the documents say.
PinsAgree ==
  /\ HasToken(PinLine, LineOf(nowFile, PinLine)) /\ HasToken(NoteLine, LineOf(nowFile, NoteLine))
  /\ NoteValue[nowFile[NoteLine]] = SourceValue

\* What the three sets of declarations were found to be; of the last two, the documents
\* being as they were.
DeclarationsInv ==
  /\ phase = "docs" => PinsAgree
  /\ mode = "check" =>
       /\ phase \in {"glosses", "versioned", "docs"} => Misaimed = {}
       /\ phase \in {"versioned", "docs"} => \A g \in Glossed : GlossMet(docs[g[1]][g[2]])
       /\ phase = "docs" => ~VersionedProblem

\* What the counters say of the documents visited.
VisitedInv ==
  /\ phase \in {"reaims", "glosses", "versioned"} => visited = 0
  /\ phase = "docs" =>
       /\ mode = "check" /\ drifted = 0 => \A k \in 1..visited : NothingDrifted(DocOrder[k])
       /\ mode = "fix" /\ unmappable = 0 /\ misaimed = {} =>
            \A k \in 1..visited : Paired(DocOrder[k]) => NothingDrifted(DocOrder[k])

CitInv == CitTyped /\ DeclarationsInv /\ VisitedInv /\ GreenIsTrue

LEMMA DocsAre ==
  /\ \A k \in 1..Len(DocOrder) : DocOrder[k] \in Docs
  /\ \A d \in Docs : \E k \in 1..Len(DocOrder) : d = DocOrder[k]
  /\ Len(DocOrder) \in Nat
BY CitationsAssumption DEF Docs

\* How many of some citations there are, and when there is none.
LEMMA CountIs ==
  ASSUME CitTyped, NEW d \in Docs, NEW verdicts
  PROVE  /\ Cardinality(With(d, verdicts)) \in Nat
         /\ Cardinality(With(d, verdicts)) = 0 => With(d, verdicts) = {}
<1>1. baseDocs[d] \in Seq(Citation)
  BY CitationsAssumption DEF CitTyped
<1>2. PICK n \in Nat : DOMAIN baseDocs[d] = 1..n
  BY <1>1
<1>3. IsFiniteSet(1..n)
  BY <1>2, FS_Interval
<1>4. IsFiniteSet(With(d, verdicts))
  BY <1>2, <1>3, FS_Subset DEF With
<1> QED
  BY <1>4, FS_CardinalityType, FS_EmptySet

\* What a citation re-anchored shows is what it showed.
LEMMA RebuiltIsRight ==
  ASSUME CitTyped, PinsAgree, NEW old \in Citation, Mappable(old),
         NEW new, new.anchors = Rebuilt(old)
  PROVE  Rebuilt(old) \in Seq((Nat \ {0}) \X Nat) /\ Len(Rebuilt(old)) = Len(old.anchors) /\ StillRight(old, new)
<1>1. nowFile \in Seq(STRING)
  BY CitationsAssumption DEF CitTyped
<1>2. ASSUME NEW m, MapLine(m) # 0
      PROVE  MapLine(m) \in DOMAIN nowFile /\ LineOf(nowFile, MapLine(m)) = LineOf(BaseFile, m)
  <2> DEFINE at == {k \in DOMAIN nowFile : nowFile[k] = LineOf(BaseFile, m)}
  <2>1. at # {} /\ MapLine(m) = CHOOSE k \in at : TRUE
    BY <1>2 DEF MapLine
  <2>2. MapLine(m) \in at
    BY <2>1
  <2> QED
    BY <2>2 DEF LineOf
<1>3. \A m : MapLine(m) \in Nat /\ (MapLine(m) # 0 => MapLine(m) \in Nat \ {0})
  BY <1>1, <1>2
<1>4. ASSUME NEW m, MapLine(m) # 0
      PROVE  EndStillRight(m, MapLine(m))
  BY <1>2, <1>4 DEF EndStillRight, PinsAgree
<1>5. PICK n \in Nat : n = Len(old.anchors) /\ DOMAIN old.anchors = 1..n
  BY DEF Citation
<1>6. \A i \in 1..n : old.anchors[i] \in (Nat \ {0}) \X Nat
  BY <1>5 DEF Citation
<1>7. Rebuilt(old) = [i \in 1..n |->
        << MapLine(old.anchors[i][1]), IF old.anchors[i][2] = 0 THEN 0 ELSE MapLine(old.anchors[i][2]) >>]
  BY <1>5 DEF Rebuilt
<1>8. Rebuilt(old) \in Seq((Nat \ {0}) \X Nat) /\ Len(Rebuilt(old)) = n
  <2>1. \A i \in 1..n :
          << MapLine(old.anchors[i][1]), IF old.anchors[i][2] = 0 THEN 0 ELSE MapLine(old.anchors[i][2]) >>
             \in (Nat \ {0}) \X Nat
    BY <1>3, <1>5 DEF Mappable
  <2> QED
    BY <1>7, <2>1
<1>9. ASSUME NEW i \in 1..n
      PROVE  AnchorStillRight(old.anchors[i], Rebuilt(old)[i])
  <2>1. /\ MapLine(old.anchors[i][1]) # 0
        /\ old.anchors[i][2] # 0 => MapLine(old.anchors[i][2]) # 0
    BY <1>5 DEF Mappable
  <2>2. /\ Rebuilt(old)[i][1] = MapLine(old.anchors[i][1])
        /\ Rebuilt(old)[i][2] = IF old.anchors[i][2] = 0 THEN 0 ELSE MapLine(old.anchors[i][2])
    BY <1>7
  <2> QED
    BY <1>4, <2>1, <2>2 DEF AnchorStillRight
<1> QED
  BY <1>5, <1>8, <1>9 DEF StillRight

\* Of a paired document, a repair moves what drifted, to where it is right, and nothing else.
LEMMA RepairIs ==
  ASSUME CitTyped, PinsAgree, NEW d \in Docs
  PROVE  /\ Rewritten(d) \in Seq(Citation) /\ Len(Rewritten(d)) = Len(docs[d])
         /\ Paired(d) => \A i \in DOMAIN baseDocs[d] :
              IF Verdict(d, i) # "drifted" THEN Rewritten(d)[i] = docs[d][i]
              ELSE /\ Len(Rewritten(d)[i].anchors) = Len(baseDocs[d][i].anchors)
                   /\ StillRight(baseDocs[d][i], Rewritten(d)[i])
<1>1. baseDocs[d] \in Seq(Citation) /\ docs[d] \in Seq(Citation)
  BY CitationsAssumption DEF CitTyped
<1>2. PICK n \in Nat : n = Len(docs[d]) /\ DOMAIN docs[d] = 1..n
  BY <1>1
<1>3. PICK m \in Nat : m = Len(baseDocs[d]) /\ DOMAIN baseDocs[d] = 1..m
  BY <1>1
<1> DEFINE by(j) == {i \in With(d, {"drifted"}) : j \in Moves(d, i)}
           moved(j) == [docs[d][j] EXCEPT !.anchors = Rebuilt(baseDocs[d][CHOOSE i \in by(j) : TRUE])]
<1>4. Rewritten(d) = [j \in 1..n |-> IF by(j) = {} THEN docs[d][j] ELSE moved(j)]
  BY <1>2 DEF Rewritten
<1>5. \A i \in With(d, {"drifted"}) :
        i \in 1..m /\ Verdict(d, i) = "drifted" /\ Mappable(baseDocs[d][i]) /\ baseDocs[d][i] \in Citation
  BY <1>1, <1>3 DEF With, Verdict, VerdictPaired, VerdictSpelled
<1>6. ASSUME NEW j \in 1..n, by(j) # {}
      PROVE  \E i \in by(j) : /\ moved(j) = [docs[d][j] EXCEPT !.anchors = Rebuilt(baseDocs[d][i])]
                              /\ moved(j) \in Citation
                              /\ Len(moved(j).anchors) = Len(baseDocs[d][i].anchors)
                              /\ StillRight(baseDocs[d][i], moved(j))
  <2>1. PICK i : i = (CHOOSE x \in by(j) : TRUE)
    OBVIOUS
  <2>2. i \in by(j)
    BY <1>6, <2>1
  <2>3. moved(j) = [docs[d][j] EXCEPT !.anchors = Rebuilt(baseDocs[d][i])] /\ docs[d][j] \in Citation
    BY <1>1, <1>2, <2>1
  <2>4. moved(j).anchors = Rebuilt(baseDocs[d][i])
    BY <2>3 DEF Citation
  <2>5. Mappable(baseDocs[d][i]) /\ baseDocs[d][i] \in Citation
    BY <1>5, <2>2
  <2> HIDE DEF moved
  <2>6. /\ Rebuilt(baseDocs[d][i]) \in Seq((Nat \ {0}) \X Nat)
        /\ Len(Rebuilt(baseDocs[d][i])) = Len(baseDocs[d][i].anchors)
        /\ StillRight(baseDocs[d][i], moved(j))
    BY <2>4, <2>5, RebuiltIsRight
  <2>7. moved(j) \in Citation
    BY <2>3, <2>6 DEF Citation
  <2> QED
    BY <2>2, <2>3, <2>4, <2>6, <2>7
<1>7. Rewritten(d) \in Seq(Citation) /\ Len(Rewritten(d)) = n
  <2>1. \A j \in 1..n : (IF by(j) = {} THEN docs[d][j] ELSE moved(j)) \in Citation
    <3> HIDE DEF moved
    <3> QED
      BY <1>1, <1>2, <1>6
  <2> HIDE DEF moved, by
  <2> QED
    BY <1>4, <2>1
<1>8. ASSUME Paired(d), NEW i \in DOMAIN baseDocs[d]
      PROVE  IF Verdict(d, i) # "drifted" THEN Rewritten(d)[i] = docs[d][i]
             ELSE /\ Len(Rewritten(d)[i].anchors) = Len(baseDocs[d][i].anchors)
                  /\ StillRight(baseDocs[d][i], Rewritten(d)[i])
  <2>1. m = n /\ i \in 1..n
    BY <1>2, <1>3, <1>8 DEF Paired
  <2>2. by(i) = IF Verdict(d, i) = "drifted" THEN {i} ELSE {}
    BY <1>3, <1>8, <2>1 DEF With, Moves
  <2> HIDE DEF moved
  <2>3. CASE Verdict(d, i) = "drifted"
    <3>1. Rewritten(d)[i] = moved(i)
      BY <1>4, <2>1, <2>2, <2>3
    <3> QED
      BY <1>6, <2>1, <2>2, <2>3, <3>1
  <2>4. CASE Verdict(d, i) # "drifted"
    BY <1>4, <2>1, <2>2, <2>4
  <2> QED
    BY <2>3, <2>4
<1> QED
  BY <1>2, <1>7, <1>8

\* For citations of as many anchors, the comparison asks what a reader would.
LEMMA ShowsIsRight ==
  ASSUME PinsAgree, NEW old \in Citation, NEW new \in Citation, Len(old.anchors) = Len(new.anchors)
  PROVE  StillRight(old, new) <=> ShowsWhatItDid(old, new)
<1>1. PICK n \in Nat : DOMAIN old.anchors = 1..n /\ DOMAIN new.anchors = 1..n
  BY DEF Citation
<1>2. ASSUME NEW m, NEW k
      PROVE  EndStillRight(m, k) <=>
               LineOf(BaseFile, m) = LineOf(nowFile, k) \/ (k = m /\ k \in {PinLine, NoteLine})
  BY DEF EndStillRight, PinsAgree
<1>3. ASSUME NEW i \in 1..n
      PROVE  AnchorStillRight(old.anchors[i], new.anchors[i]) <=>
               \A e \in {1, 2} :
                 /\ old.anchors[i][e] = 0 <=> new.anchors[i][e] = 0
                 /\ \/ old.anchors[i][e] = 0
                    \/ LineOf(BaseFile, old.anchors[i][e]) = LineOf(nowFile, new.anchors[i][e])
                    \/ /\ new.anchors[i][e] = old.anchors[i][e]
                       /\ new.anchors[i][e] \in {PinLine, NoteLine}
  <2>1. old.anchors[i] \in (Nat \ {0}) \X Nat /\ new.anchors[i] \in (Nat \ {0}) \X Nat
    BY <1>1 DEF Citation
  <2>2. old.anchors[i][1] # 0 /\ new.anchors[i][1] # 0
    BY <2>1
  <2> QED
    BY <1>2, <2>2 DEF AnchorStillRight
<1> QED
  BY <1>1, <1>3 DEF StillRight, ShowsWhatItDid

\* A document that is not written is judged as before.
LEMMA JudgedAsBefore ==
  ASSUME UNCHANGED world, NEW d, docs'[d] = docs[d]
  PROVE  /\ \A verdicts : With(d, verdicts)' = With(d, verdicts)
         /\ Paired(d)' <=> Paired(d)
         /\ NothingDrifted(d)' <=> NothingDrifted(d)
<1>1. UNCHANGED <<nowFile, baseDocs, declared>>
  BY DEF world
<1>2. \A i : VerdictPaired(d, i)' = VerdictPaired(d, i)
  BY <1>1 DEF VerdictPaired, StillRight, AnchorStillRight, EndStillRight, LineOf, HasToken,
              DeclaredReaim, Mappable, MapLine
<1>3. \A i : VerdictSpelled(d, i)' = VerdictSpelled(d, i)
  BY <1>1 DEF VerdictSpelled, StillRight, AnchorStillRight, EndStillRight, LineOf, HasToken,
              Mappable, MapLine, Occurrences
<1>4. Paired(d)' <=> Paired(d)
  BY <1>1 DEF Paired
<1>5. \A i : Verdict(d, i)' = Verdict(d, i)
  BY <1>2, <1>3, <1>4 DEF Verdict
<1>6. \A verdicts : With(d, verdicts)' = With(d, verdicts)
  BY <1>1, <1>5 DEF With
<1> QED
  BY <1>4, <1>6 DEF NothingDrifted

\* A paired document, once repaired, has nothing left to find but what could not be moved.
LEMMA RepairedIsRight ==
  ASSUME CitTyped, PinsAgree, UNCHANGED world, NEW d \in Docs, Paired(d)',
         docs' = [docs EXCEPT ![d] = Rewritten(d)], With(d, {"unmappable", "count"}) = {}
  PROVE  NothingDrifted(d)'
<1>1. UNCHANGED <<nowFile, baseDocs, declared>> /\ docs'[d] = Rewritten(d)
  BY DEF world, CitTyped
<1>2. Paired(d)
  BY <1>1, RepairIs DEF Paired
<1>3. ASSUME NEW i \in DOMAIN baseDocs[d]
      PROVE  Verdict(d, i)' \notin {"drifted", "unmappable", "count"}
  <2>1. Verdict(d, i) = VerdictPaired(d, i) /\ Verdict(d, i)' = VerdictPaired(d, i)'
    BY <1>2 DEF Verdict
  <2>2. Verdict(d, i) \notin {"unmappable", "count"}
    BY DEF With
  <2>3. CASE Verdict(d, i) = "drifted"
    <3>1. /\ Len(docs'[d][i].anchors) = Len(baseDocs[d][i].anchors)
          /\ StillRight(baseDocs[d][i], docs'[d][i])
      BY <1>1, <1>2, <2>3, RepairIs
    <3>2. StillRight(baseDocs[d][i], docs[d][i])' <=> StillRight(baseDocs[d][i], docs'[d][i])
      BY <1>1 DEF StillRight, AnchorStillRight, EndStillRight, LineOf, HasToken
    <3>3. VerdictPaired(d, i)' = "right"
      BY <1>1, <3>1, <3>2 DEF VerdictPaired
    <3> QED
      BY <2>1, <3>3
  <2>4. CASE Verdict(d, i) # "drifted"
    <3>1. docs'[d][i] = docs[d][i]
      BY <1>1, <1>2, <2>4, RepairIs
    <3>2. StillRight(baseDocs[d][i], docs[d][i])' <=> StillRight(baseDocs[d][i], docs[d][i])
      <4>1. PICK old : old = baseDocs[d][i]
        OBVIOUS
      <4>2. PICK new : new = docs[d][i]
        OBVIOUS
      <4>3. nowFile' = nowFile /\ baseDocs'[d][i] = old /\ docs'[d][i] = new
        BY <1>1, <3>1, <4>1, <4>2
      <4>4. StillRight(baseDocs[d][i], docs[d][i]) <=> StillRight(old, new)
        BY <4>1, <4>2
      <4>5. StillRight(baseDocs[d][i], docs[d][i])' <=> StillRight(old, new)
        BY <4>3, ZenonT(60) DEF StillRight, AnchorStillRight, EndStillRight, LineOf, HasToken
      <4> QED
        BY <4>4, <4>5
    <3>3. /\ DeclaredReaim(d, baseDocs[d][i], docs[d][i])' <=> DeclaredReaim(d, baseDocs[d][i], docs[d][i])
          /\ Mappable(baseDocs[d][i])' <=> Mappable(baseDocs[d][i])
      BY <1>1, <3>1 DEF DeclaredReaim, Mappable, MapLine, LineOf
    <3>4. VerdictPaired(d, i)' = VerdictPaired(d, i)
      BY <1>1, <3>1, <3>2, <3>3 DEF VerdictPaired
    <3> QED
      BY <2>1, <2>2, <2>4, <3>4
  <2> QED
    BY <2>3, <2>4
<1> QED
  BY <1>1, <1>3 DEF NothingDrifted, With

-----------------------------------------------------------------------------
(* The steps of a run.                                                      *)

\* Whatever a run does to the documents, what the reader sees of the rest is the same.
LEMMA DeclarationsStand ==
  ASSUME UNCHANGED world
  PROVE  /\ PinsAgree' <=> PinsAgree
         /\ Misaimed' = Misaimed
         /\ docs' = docs => /\ VersionedProblem' <=> VersionedProblem
                            /\ Glossed' = Glossed
                            /\ (\A g \in Glossed : GlossMet(docs[g[1]][g[2]]))'
                                 <=> \A g \in Glossed : GlossMet(docs[g[1]][g[2]])
<1>1. UNCHANGED <<nowFile, baseDocs, declared>>
  BY DEF world
<1>2. PinsAgree' <=> PinsAgree
  BY <1>1 DEF PinsAgree, HasToken, LineOf, SourceValue
<1>3. Misaimed' = Misaimed
  BY <1>1 DEF Misaimed, TargetText, LineOf
<1>4. ASSUME docs' = docs PROVE Glossed' = Glossed
  BY <1>4 DEF Glossed
<1>5. ASSUME docs' = docs PROVE VersionedProblem' <=> VersionedProblem
  BY <1>1, <1>4, <1>5 DEF VersionedProblem, HasToken, LineOf, SourceValue, CoversPin
<1>6. ASSUME docs' = docs
      PROVE  (\A g \in Glossed : GlossMet(docs[g[1]][g[2]]))'
               <=> \A g \in Glossed : GlossMet(docs[g[1]][g[2]])
  <2>1. Glossed' = Glossed /\ docs' = docs
    BY <1>4, <1>6
  <2>2. SourceValue' = SourceValue
    BY <1>1 DEF SourceValue, HasToken, LineOf
  <2>3. \A anchors : TargetText(anchors)' = TargetText(anchors)
    BY <1>1 DEF TargetText, LineOf
  <2>4. \A g : GlossMet(docs[g[1]][g[2]])' <=> GlossMet(docs[g[1]][g[2]])
    <3> TAKE g
    <3>1. PICK c : c = docs[g[1]][g[2]] /\ c = (docs[g[1]][g[2]])'
      BY <2>1
    <3>2. GlossMet(c)' <=> GlossMet(c)
      BY <2>2, <2>3 DEF GlossMet, CoversPin
    <3>3. GlossMet(docs[g[1]][g[2]]) <=> GlossMet(c)
      BY <3>1
    <3>4. GlossMet(docs[g[1]][g[2]])' <=> GlossMet(c)'
      BY <3>1 DEF GlossMet, CoversPin, TargetText, LineOf
    <3> QED
      BY <3>2, <3>3, <3>4
  <2> QED
    BY <2>1, <2>4
<1> QED
  BY <1>2, <1>3, <1>4, <1>5, <1>6

LEMMA BeginKeeps ==
  ASSUME CitInv, NEW m \in {"check", "fix"}, Begin(m)
  PROVE  CitInv' /\ LeavesRight
<1>1. /\ phase' = "reaims" /\ UNCHANGED <<nowFile, baseDocs, docs>>
      /\ mode' = m /\ visited' = 0 /\ drifted' = 0 /\ unmappable' = 0
  BY DEF Begin, world
<1>2. CitTyped'
  BY <1>1, DocsAre DEF CitInv, CitTyped
<1>3. DeclarationsInv' /\ VisitedInv' /\ GreenIsTrue'
  BY <1>1 DEF DeclarationsInv, VisitedInv, GreenIsTrue, CheckIsTrue, RepairHolds
<1> QED
  BY <1>1, <1>2, <1>3 DEF CitInv, LeavesRight

\* A run that ends red has nothing to answer for.
LEMMA RedKeeps ==
  ASSUME CitInv, NEW code, code # 0, Ends(code), UNCHANGED <<world, docs, mode, visited, drifted, unmappable>>
  PROVE  CitInv' /\ LeavesRight
<1>1. /\ phase' = "idle" /\ exit' # 0 /\ repaired' = FALSE
      /\ UNCHANGED <<nowFile, baseDocs, docs, mode, visited, drifted, unmappable>>
  BY DEF Ends, world
<1>2. CitTyped'
  BY <1>1 DEF CitInv, CitTyped
<1>3. DeclarationsInv' /\ VisitedInv' /\ GreenIsTrue'
  BY <1>1 DEF DeclarationsInv, VisitedInv, GreenIsTrue, CheckIsTrue, RepairHolds
<1> QED
  BY <1>1, <1>2, <1>3 DEF CitInv, LeavesRight

LEMMA VerifyKeeps ==
  ASSUME CitInv, VerifyReaims \/ VerifyGlosses \/ VerifyVersioned
  PROVE  CitInv' /\ LeavesRight
<1>1. UNCHANGED <<world, docs, mode, visited, drifted, unmappable>>
  BY DEF VerifyReaims, VerifyGlosses, VerifyVersioned, counters
<1>2. CASE Ends(2)
  BY <1>1, <1>2, RedKeeps
<1>3. CASE ~Ends(2)
  <2>1. UNCHANGED <<nowFile, baseDocs, docs, mode, visited, drifted, unmappable>>
    BY <1>1 DEF world
  <2>2. /\ phase' \in {"glosses", "versioned", "docs"}
        /\ phase' = "glosses" /\ mode = "check" => Misaimed = {}
        /\ phase' = "versioned" => phase = "glosses" /\ (mode = "check" => \A g \in Glossed : GlossMet(docs[g[1]][g[2]]))
        /\ phase' = "docs" => phase = "versioned" /\ ~VersionedProblem
    BY <1>3 DEF VerifyReaims, VerifyGlosses, VerifyVersioned
  <2>3. CitTyped'
    BY <2>1, <2>2 DEF CitInv, CitTyped
  <2>4. ~VersionedProblem => PinsAgree
    BY DEF VersionedProblem, PinsAgree
  <2>5. DeclarationsInv'
    BY <1>1, <2>2, <2>4, DeclarationsStand DEF CitInv, DeclarationsInv
  <2>6. phase \in {"reaims", "glosses", "versioned"}
    BY DEF VerifyReaims, VerifyGlosses, VerifyVersioned
  <2>7. visited' = 0
    BY <2>1, <2>6 DEF CitInv, VisitedInv
  <2>8. VisitedInv' /\ GreenIsTrue'
    BY <2>2, <2>7 DEF VisitedInv, GreenIsTrue, CheckIsTrue, RepairHolds
  <2> QED
    BY <2>1, <2>3, <2>5, <2>8 DEF CitInv, LeavesRight
<1> QED
  BY <1>2, <1>3

LEMMA CheckDocKeeps ==
  ASSUME CitInv, CheckDoc
  PROVE  CitInv' /\ LeavesRight
<1>1. PICK d : d = DocOrder[visited + 1]
  OBVIOUS
<1>2. visited + 1 \in 1..Len(DocOrder) /\ d \in Docs /\ CitTyped /\ PinsAgree
  BY <1>1, DocsAre DEF CheckDoc, CitInv, CitTyped, DeclarationsInv
<1>3. PICK moving \in Nat : moving = Cardinality(With(d, {"drifted"}))
  BY <1>2, CountIs
<1>4. PICK stuck \in Nat : stuck = Cardinality(With(d, {"unmappable", "count"}))
  BY <1>2, CountIs
<1>5. /\ phase = "docs" /\ phase' = "docs" /\ visited' = visited + 1
      /\ drifted' = drifted + moving + stuck /\ unmappable' = unmappable + stuck
      /\ docs' = IF mode = "fix" /\ moving > 0 /\ d \notin misaimed
                 THEN [docs EXCEPT ![d] = Rewritten(d)] ELSE docs
      /\ UNCHANGED <<world, mode, misaimed>>
  BY <1>1, <1>3, <1>4 DEF CheckDoc
<1>6. UNCHANGED <<nowFile, baseDocs, declared>>
  BY <1>5 DEF world
<1>7. Rewritten(d) \in Seq(Citation)
  BY <1>2, RepairIs
<1>8. CitTyped'
  <2>1. docs' \in [Docs -> Seq(Citation)]
    BY <1>2, <1>5, <1>7 DEF CitTyped
  <2>2. drifted' \in Nat /\ unmappable' \in Nat /\ visited' \in 0..Len(DocOrder)
    BY <1>2, <1>5 DEF CitTyped
  <2> QED
    BY <1>2, <1>5, <1>6, <2>1, <2>2 DEF CitTyped
<1>9. DeclarationsInv'
  BY <1>5, DeclarationsStand DEF CitInv, DeclarationsInv
<1>10. moving = 0 /\ stuck = 0 => NothingDrifted(d)
  <2>1. SUFFICES ASSUME moving = 0, stuck = 0 PROVE NothingDrifted(d)
    OBVIOUS
  <2>2. With(d, {"drifted"}) = {} /\ With(d, {"unmappable", "count"}) = {}
    BY <1>2, <1>3, <1>4, <2>1, CountIs
  <2> QED
    BY <2>2 DEF NothingDrifted, With
<1>11. \A k \in 1..visited' : DocOrder[k] = d \/ k \in 1..visited
  <2>1. visited \in Nat
    BY <1>2, DocsAre DEF CitTyped
  <2>2. \A k \in 1..(visited + 1) : k = visited + 1 \/ k \in 1..visited
    BY <2>1
  <2> QED
    BY <1>1, <1>5, <2>2
<1>12. VisitedInv'
  <2>1. ASSUME mode = "check", drifted' = 0, NEW k \in 1..visited'
        PROVE  NothingDrifted(DocOrder[k])'
    <3>1. moving = 0 /\ stuck = 0 /\ drifted = 0
      BY <1>2, <1>5, <2>1 DEF CitTyped
    <3>2. NothingDrifted(DocOrder[k])
      BY <1>5, <1>10, <1>11, <2>1, <3>1 DEF CitInv, VisitedInv
    <3> QED
      BY <1>5, <2>1, <3>2, JudgedAsBefore
  <2>2. ASSUME mode = "fix", unmappable' = 0, misaimed = {}, NEW k \in 1..visited', Paired(DocOrder[k])'
        PROVE  NothingDrifted(DocOrder[k])'
    <3>1. stuck = 0 /\ unmappable = 0
      BY <1>2, <1>5, <2>2 DEF CitTyped
    <3>2. With(d, {"unmappable", "count"}) = {}
      BY <1>2, <1>4, <3>1, CountIs
    <3>3. CASE DocOrder[k] = d /\ moving > 0
      <4>1. docs' = [docs EXCEPT ![d] = Rewritten(d)]
        BY <1>5, <2>2, <3>3
      <4> QED
        BY <1>2, <1>5, <2>2, <3>2, <3>3, <4>1, RepairedIsRight
    <3>4. CASE DocOrder[k] = d /\ moving = 0
      <4>1. docs' = docs
        BY <1>5, <3>4
      <4> QED
        BY <1>5, <1>10, <3>1, <3>4, <4>1, JudgedAsBefore
    <3>5. CASE DocOrder[k] # d
      <4>1. docs'[DocOrder[k]] = docs[DocOrder[k]] /\ k \in 1..visited
        BY <1>2, <1>5, <1>11, <2>2, <3>5 DEF CitTyped
      <4>2. Paired(DocOrder[k]) => NothingDrifted(DocOrder[k])
        BY <1>5, <2>2, <3>1, <4>1 DEF CitInv, VisitedInv
      <4> QED
        BY <1>5, <2>2, <4>1, <4>2, JudgedAsBefore
    <3> QED
      BY <1>3, <3>3, <3>4, <3>5
  <2> QED
    BY <1>5, <2>1, <2>2 DEF VisitedInv
<1>13. LeavesRight
  <2>1. SUFFICES ASSUME NEW e \in Docs, Paired(e), NEW i \in DOMAIN docs[e],
                        ShowsWhatItDid(baseDocs[e][i], docs[e][i]), docs'[e] # docs[e]
                 PROVE  docs'[e][i] = docs[e][i]
    BY DEF LeavesRight
  <2>2. e = d /\ docs'[d] = Rewritten(d)
    BY <1>2, <1>5, <2>1 DEF CitTyped
  <2>3. docs[d] \in Seq(Citation) /\ baseDocs[d] \in Seq(Citation)
    BY <1>2, CitationsAssumption DEF CitTyped
  <2>4. i \in DOMAIN baseDocs[d] /\ baseDocs[d][i] \in Citation /\ docs[d][i] \in Citation
    BY <2>1, <2>2, <2>3 DEF Paired
  <2>5. Len(baseDocs[d][i].anchors) = Len(docs[d][i].anchors)
    BY <2>1, <2>2 DEF ShowsWhatItDid
  <2>6. StillRight(baseDocs[d][i], docs[d][i])
    BY <1>2, <2>1, <2>2, <2>4, <2>5, ShowsIsRight
  <2>7. Verdict(d, i) = "right"
    BY <2>1, <2>2, <2>5, <2>6 DEF Verdict, VerdictPaired
  <2> QED
    BY <1>2, <2>1, <2>2, <2>4, <2>7, RepairIs
<1> QED
  BY <1>5, <1>8, <1>9, <1>12, <1>13 DEF CitInv, GreenIsTrue, CheckIsTrue, RepairHolds

\* What a check that found nothing vouches for.
LEMMA NothingFoundIsTrue ==
  ASSUME CitTyped, PinsAgree, Misaimed = {}, ~VersionedProblem,
         \A g \in Glossed : GlossMet(docs[g[1]][g[2]]), NEW d \in Docs, NothingDrifted(d), Paired(d),
         NEW i \in DOMAIN docs[d]
  PROVE  \/ ShowsWhatItDid(baseDocs[d][i], docs[d][i])
         \/ \E r \in declared : /\ r.doc = d /\ r.from = baseDocs[d][i].anchors
                                /\ r.to = docs[d][i].anchors /\ r.expect \in TargetText(r.to)
<1>1. docs[d] \in Seq(Citation) /\ baseDocs[d] \in Seq(Citation)
  BY CitationsAssumption DEF CitTyped
<1>2. i \in DOMAIN baseDocs[d] /\ baseDocs[d][i] \in Citation /\ docs[d][i] \in Citation
  BY <1>1 DEF Paired
<1>3. VerdictPaired(d, i) \notin {"drifted", "unmappable", "count"}
  BY <1>2 DEF NothingDrifted, With, Verdict
<1>4. CASE StillRight(baseDocs[d][i], docs[d][i])
  <2>1. Len(baseDocs[d][i].anchors) = Len(docs[d][i].anchors)
    BY <1>3 DEF VerdictPaired
  <2> QED
    BY <1>2, <1>4, <2>1, ShowsIsRight
<1>5. CASE ~StillRight(baseDocs[d][i], docs[d][i])
  BY <1>3, <1>5 DEF VerdictPaired, DeclaredReaim, Misaimed
<1> QED
  BY <1>4, <1>5

LEMMA HoldsAsBefore ==
  ASSUME UNCHANGED <<nowFile, baseDocs, declared, docs>>, DocumentsHold
  PROVE  DocumentsHold'
<1>1. \A d : Paired(d)' <=> Paired(d)
  BY DEF Paired
<1>2. \A anchors : TargetText(anchors)' = TargetText(anchors)
  BY DEF TargetText, LineOf
<1>3. \A old, new : ShowsWhatItDid(old, new)' <=> ShowsWhatItDid(old, new)
  BY DEF ShowsWhatItDid, LineOf
<1>4. Glossed' = Glossed /\ SourceValue' = SourceValue
  BY DEF Glossed, SourceValue, HasToken, LineOf
<1>5. \A d \in Docs : Paired(d)' => \A i \in DOMAIN docs[d] :
        \/ ShowsWhatItDid(baseDocs[d][i], docs[d][i])'
        \/ \E r \in declared : /\ r.doc = d /\ r.from = baseDocs[d][i].anchors
                               /\ r.to = docs[d][i].anchors /\ (r.expect \in TargetText(r.to))'
  <2>1. SUFFICES ASSUME NEW d \in Docs, Paired(d), NEW i \in DOMAIN docs[d]
                 PROVE  \/ ShowsWhatItDid(baseDocs[d][i], docs[d][i])'
                        \/ \E r \in declared : /\ r.doc = d /\ r.from = baseDocs[d][i].anchors
                                               /\ r.to = docs[d][i].anchors /\ (r.expect \in TargetText(r.to))'
    BY <1>1
  <2>2. ASSUME ShowsWhatItDid(baseDocs[d][i], docs[d][i])
        PROVE  ShowsWhatItDid(baseDocs[d][i], docs[d][i])'
    BY <2>2, ZenonT(60) DEF ShowsWhatItDid, LineOf
  <2>3. ASSUME NEW r \in declared, r.expect \in TargetText(r.to)
        PROVE  (r.expect \in TargetText(r.to))'
    BY <1>2, <2>3
  <2>4. \/ ShowsWhatItDid(baseDocs[d][i], docs[d][i])
        \/ \E r \in declared : /\ r.doc = d /\ r.from = baseDocs[d][i].anchors
                               /\ r.to = docs[d][i].anchors /\ r.expect \in TargetText(r.to)
    BY <2>1 DEF DocumentsHold
  <2> QED
    BY <2>2, <2>3, <2>4
<1> QED
  BY <1>4, <1>5 DEF DocumentsHold

LEMMA ReportKeeps ==
  ASSUME CitInv, Report
  PROVE  CitInv' /\ LeavesRight
<1>1. /\ phase = "docs" /\ visited = Len(DocOrder)
      /\ UNCHANGED <<world, docs, mode, visited, drifted, unmappable>>
      /\ CitTyped /\ PinsAgree
  BY DEF Report, counters, CitInv, DeclarationsInv
<1>2. PICK code : code = IF mode = "fix" THEN (IF unmappable > 0 \/ misaimed # {} \/ badGlosses THEN 2 ELSE 0)
                         ELSE IF drifted > 0 THEN 1 ELSE 0
  OBVIOUS
<1>3. Ends(code)
  BY <1>2 DEF Report
<1>4. CASE code # 0
  BY <1>1, <1>3, <1>4, RedKeeps
<1>5. CASE code = 0
  <2>1. /\ phase' = "idle" /\ exit' = 0 /\ (repaired' <=> mode = "fix")
        /\ UNCHANGED <<nowFile, baseDocs, declared, docs, mode, visited, drifted, unmappable>>
    BY <1>1, <1>3, <1>5 DEF Ends, world
  <2>2. CitTyped'
    BY <1>1, <2>1 DEF CitTyped
  <2>3. DeclarationsInv' /\ VisitedInv'
    BY <2>1 DEF DeclarationsInv, VisitedInv
  <2>4. RepairHolds'
    <3>1. SUFFICES ASSUME mode = "fix", NEW d \in Docs, Paired(d)' PROVE NothingDrifted(d)'
      BY <2>1 DEF RepairHolds
    <3>2. unmappable = 0 /\ misaimed = {}
      BY <1>1, <1>2, <1>5, <3>1 DEF CitTyped
    <3>3. Paired(d) => NothingDrifted(d)
      BY <1>1, <3>1, <3>2, DocsAre DEF CitInv, VisitedInv
    <3> QED
      BY <1>1, <3>1, <3>3, JudgedAsBefore
  <2>5. CheckIsTrue'
    <3>1. CASE mode = "check"
      <4>1. drifted = 0
        BY <1>1, <1>2, <1>5, <3>1 DEF CitTyped
      <4>2. \A d \in Docs : NothingDrifted(d)
        BY <1>1, <3>1, <4>1, DocsAre DEF CitInv, VisitedInv
      <4>3. Misaimed = {} /\ ~VersionedProblem /\ \A g \in Glossed : GlossMet(docs[g[1]][g[2]])
        BY <1>1, <3>1 DEF CitInv, DeclarationsInv
      <4>4. \A d \in Docs : Paired(d) => \A i \in DOMAIN docs[d] :
              \/ ShowsWhatItDid(baseDocs[d][i], docs[d][i])
              \/ \E r \in declared : /\ r.doc = d /\ r.from = baseDocs[d][i].anchors
                                     /\ r.to = docs[d][i].anchors /\ r.expect \in TargetText(r.to)
        BY <1>1, <4>2, <4>3, NothingFoundIsTrue
      <4>5. /\ \A g \in Glossed : CoversPin(docs[g[1]][g[2]]) => docs[g[1]][g[2]].gloss = SourceValue
            /\ \E g \in Glossed : CoversPin(docs[g[1]][g[2]])
            /\ NoteValue[nowFile[NoteLine]] = SourceValue
        BY <4>3 DEF GlossMet, VersionedProblem
      <4>6. DocumentsHold
        BY <4>4, <4>5 DEF DocumentsHold
      <4> QED
        BY <2>1, <4>6, HoldsAsBefore DEF CheckIsTrue
    <3>2. CASE mode # "check"
      BY <2>1, <3>2 DEF CheckIsTrue
    <3> QED
      BY <3>1, <3>2
  <2> QED
    BY <2>1, <2>2, <2>3, <2>4, <2>5 DEF CitInv, GreenIsTrue, LeavesRight
<1> QED
  BY <1>4, <1>5

LEMMA CitStarts == CitInit => CitInv
<1>1. SUFFICES ASSUME CitInit PROVE CitInv
  OBVIOUS
<1>2. CitTyped
  <2>1. docs \in [Docs -> Seq(Citation)]
    <3>1. \A d \in BaseDocs : NowDocs[d] \subseteq Seq(Citation)
      BY CitationsAssumption
    <3> QED
      BY <1>1, <3>1 DEF CitInit
  <2> QED
    BY <1>1, <2>1, DocsAre DEF CitInit, CitTyped
<1> QED
  BY <1>1, <1>2 DEF CitInit, CitInv, DeclarationsInv, VisitedInv, GreenIsTrue, CheckIsTrue, RepairHolds

LEMMA CitStep ==
  ASSUME CitInv, [CitNext]_CitVars
  PROVE  CitInv' /\ [LeavesRight]_CitVars
<1>1. CASE CitNext
  <2>1. ASSUME Killed PROVE CitInv' /\ LeavesRight
    BY <2>1, RedKeeps DEF Killed, counters
  <2> QED
    BY <1>1, <2>1, BeginKeeps, VerifyKeeps, CheckDocKeeps, ReportKeeps DEF CitNext
<1>2. CASE UNCHANGED CitVars
  <2>1. UNCHANGED world /\ UNCHANGED <<nowFile, baseDocs, declared, docs, mode, phase, visited, misaimed,
                                       drifted, unmappable, exit, repaired>>
    BY <1>2 DEF CitVars, world
  <2>2. \A d : (Paired(d)' <=> Paired(d)) /\ (NothingDrifted(d)' <=> NothingDrifted(d))
    BY <2>1, JudgedAsBefore
  <2>3. CitTyped'
    BY <2>1 DEF CitInv, CitTyped
  <2>4. DeclarationsInv'
    BY <2>1, DeclarationsStand DEF CitInv, DeclarationsInv
  <2>5. VisitedInv' /\ RepairHolds'
    BY <2>1, <2>2 DEF CitInv, VisitedInv, GreenIsTrue, RepairHolds
  <2>6. CheckIsTrue'
    BY <2>1, HoldsAsBefore DEF CitInv, GreenIsTrue, CheckIsTrue
  <2> QED
    BY <1>2, <2>3, <2>4, <2>5, <2>6 DEF CitInv, GreenIsTrue
<1> QED
  BY <1>1, <1>2

(***************************************************************************)
(* For any file, documents, declarations and number of runs, checks and    *)
(* repairs, whole or killed: what a run has found of the documents visited *)
(* is so, and what its answers vouch for holds.                            *)
(***************************************************************************)
THEOREM CitationsInvariant == CitSpec => []CitInv
<1>1. CitInv /\ [CitNext]_CitVars => CitInv'
  BY CitStep
<1> QED
  BY <1>1, CitStarts, PTL DEF CitSpec

(***************************************************************************)
(* For the same: a green check vouches for what its readers will find, and *)
(* a repair that says it is done left nothing to repair in a document      *)
(* whose citations can be paired (main, fix_exit_code).                    *)
(***************************************************************************)
THEOREM GreenIsAlwaysTrue == CitSpec => []GreenIsTrue
<1>1. CitInv => GreenIsTrue
  BY DEF CitInv
<1> QED
  BY <1>1, CitationsInvariant, PTL

(***************************************************************************)
(* For the same: no run moves a citation that shows what it did            *)
(* (apply_edits).                                                          *)
(***************************************************************************)
THEOREM RightIsAlwaysLeftAlone == CitSpec => RightIsLeftAlone
<1>1. CitInv /\ [CitNext]_CitVars => [LeavesRight]_CitVars
  BY CitStep
<1> QED
  BY <1>1, CitationsInvariant, PTL DEF CitSpec, RightIsLeftAlone

-----------------------------------------------------------------------------
(* The release notes: what a line is to both programs. *)

Items == Seq(Nat \X (Nat \ {0}))

\* The walk is a function: one for the first n marks exists whatever n is.
IsWalk(l, g, n) ==
  /\ g[0] = NoMarks
  /\ \A i \in 1..n : g[i] = Walked(l, g[i - 1], i)

LEMMA WalkExists ==
  ASSUME NEW l, NEW n \in Nat
  PROVE  \E g : g = [i \in 0..n |-> IF i = 0 THEN NoMarks ELSE Walked(l, g[i - 1], i)]
<1> DEFINE Is(g, m) == g = [i \in 0..m |-> IF i = 0 THEN NoMarks ELSE Walked(l, g[i - 1], i)]
           bad == {m \in Nat : ~ \E g : Is(g, m)}
<1>1. SUFFICES ASSUME bad # {} PROVE FALSE
  OBVIOUS
<1>2. PICK m \in bad : \A k \in bad : m <= k
  <2>1. bad \subseteq Nat
    OBVIOUS
  <2> HIDE DEF bad
  <2> QED
    BY <1>1, <2>1, LeastExists
<1>3. m # 0
  <2>1. SUFFICES ASSUME m = 0 PROVE FALSE
    OBVIOUS
  <2> DEFINE g == [i \in 0..0 |-> NoMarks]
  <2>2. g = [i \in 0..0 |-> IF i = 0 THEN NoMarks ELSE Walked(l, g[i - 1], i)]
    OBVIOUS
  <2>3. Is(g, m)
    BY <2>1, <2>2
  <2> QED
    BY <2>3
<1>4. m - 1 \in Nat /\ m - 1 \notin bad
  <2>1. m \in Nat
    OBVIOUS
  <2> HIDE DEF bad
  <2>2. m - 1 \in Nat /\ ~(m <= m - 1)
    BY <1>3, <2>1
  <2> QED
    BY <1>2, <2>2
<1>5. PICK g : Is(g, m - 1)
  BY <1>4
<1> DEFINE h == [i \in 0..m |-> IF i = m THEN Walked(l, g[m - 1], m) ELSE g[i]]
<1>6. \A i \in 0..m : h[i] = IF i = 0 THEN NoMarks ELSE Walked(l, h[i - 1], i)
  <2> TAKE i \in 0..m
  <2>1. CASE i = 0
    BY <1>3, <1>4, <1>5, <2>1
  <2>2. CASE i = m
    <3>1. m - 1 \in 0..m /\ m - 1 # m /\ m \in 0..m
      BY <1>4
    <3> QED
      BY <1>3, <2>2, <3>1
  <2>3. CASE i \in 1..(m - 1)
    <3>1. i - 1 \in 0..m /\ i - 1 # m /\ i # m /\ i # 0 /\ i \in 0..(m - 1)
      BY <1>4, <2>3
    <3>2. g[i] = Walked(l, g[i - 1], i)
      BY <1>5, <3>1
    <3> QED
      BY <3>1, <3>2
  <2> QED
    BY <1>4, <2>1, <2>2, <2>3
<1>7. Is(h, m)
  <2> HIDE DEF h
  <2>1. h = [i \in 0..m |-> h[i]]
    BY DEF h
  <2> QED
    BY <1>6, <2>1
<1> QED
  BY <1>2, <1>7

LEMMA PrefixIs ==
  ASSUME NEW l, IsLine(l)
  PROVE  IsWalk(l, Prefix(l), Len(l.marks))
<1> DEFINE n == Len(l.marks)
           Is(g) == g = [i \in 0..n |-> IF i = 0 THEN NoMarks ELSE Walked(l, g[i - 1], i)]
<1>1. n \in Nat
  BY DEF IsLine, Marks
<1>2. \E g : Is(g)
  BY <1>1, WalkExists
<1>3. Prefix(l) = CHOOSE g : Is(g)
  BY DEF Prefix
<1>4. Is(Prefix(l))
  <2> HIDE DEF Is
  <2> QED
    BY <1>2, <1>3
<1>5. 0 \in 0..n /\ \A i \in 1..n : i \in 0..n /\ i # 0
  BY <1>1
<1>6. Prefix(l)[0] = NoMarks
  BY <1>4, <1>5
<1>7. \A i \in 1..n : Prefix(l)[i] = Walked(l, Prefix(l)[i - 1], i)
  BY <1>4, <1>5
<1> QED
  BY <1>6, <1>7 DEF IsWalk

\* What holds after the first i marks of a line: types; the spaces that belong to the last mark
\* are there; no item is deeper than the walk; a mark is a quote or an item; and as many quotes
\* have been passed as begin the line.
Walks == [depth : Nat, col : Nat, items : Items, eaten : Nat]
GoodWalk(l, i) ==
  LET w == Prefix(l)[i]
  IN  /\ w \in Walks
      /\ i < Len(l.marks) => w.eaten <= l.marks[i + 1].lead
      /\ \A j \in DOMAIN w.items : w.items[j][1] <= w.depth
      /\ i >= 1 => w.depth >= 1 \/ w.items # <<>>
      /\ \A d \in 0..i : (\A j \in 1..d : l.marks[j].kind = "quote") => w.depth >= d

LEMMA MarksAre ==
  ASSUME NEW l, IsLine(l)
  PROVE  /\ Len(l.marks) \in Nat /\ l.lead \in Nat
         /\ \A k \in 1..Len(l.marks) :
              /\ l.marks[k].kind \in {"quote", "item"}
              /\ l.marks[k].lead \in Nat /\ l.marks[k].width \in Nat \ {0}
<1> DEFINE M == [kind : {"quote", "item"}, lead : Nat, width : Nat \ {0}]
<1>1. l.marks \in Seq(M) /\ l.lead \in Nat
  BY DEF IsLine, Marks
<1>2. \A k \in 1..Len(l.marks) : l.marks[k] \in M
  <2> HIDE DEF M
  <2> QED
    BY <1>1, ElementOfSeq
<1> QED
  BY <1>1, <1>2

LEMMA WalkGoesOn ==
  ASSUME NEW l, IsLine(l), NEW i \in 1..Len(l.marks), GoodWalk(l, i - 1)
  PROVE  GoodWalk(l, i)
<1> DEFINE w == Prefix(l)[i - 1]
           m == l.marks[i]
           gap == Spaces(l, i)
           last == i = Len(l.marks)
           pad == IF gap >= 5 \/ (i = Len(l.marks) /\ l.body.kind = "blank") THEN 1 ELSE gap
           col == w.col + (m.lead - w.eaten) + m.width + pad
           v == Prefix(l)[i]
<1>1. /\ Len(l.marks) \in Nat /\ i \in Nat /\ i >= 1 /\ i <= Len(l.marks) /\ i - 1 \in Nat
      /\ \A k \in 1..Len(l.marks) : l.marks[k].lead \in Nat
      /\ l.lead \in Nat
  BY MarksAre
<1>2. v = Walked(l, w, i)
  BY PrefixIs DEF IsWalk
<1>3. w \in Walks /\ w.eaten <= m.lead /\ \A j \in DOMAIN w.items : w.items[j][1] <= w.depth
  <2>1. i - 1 < Len(l.marks) /\ (i - 1) + 1 = i
    BY <1>1
  <2> QED
    BY <2>1 DEF GoodWalk
<1>4. \A d \in 0..(i - 1) : (\A j \in 1..d : l.marks[j].kind = "quote") => w.depth >= d
  BY DEF GoodWalk
<1>5. m.lead \in Nat /\ m.width \in Nat \ {0} /\ m.kind \in {"quote", "item"}
  BY MarksAre
<1>6. gap \in Nat /\ (i < Len(l.marks) => gap = l.marks[i + 1].lead)
  BY <1>1 DEF Spaces
<1>7. pad \in Nat /\ (i < Len(l.marks) => pad <= gap)
  BY <1>1, <1>6
<1>8. /\ w.depth \in Nat /\ w.col \in Nat /\ w.items \in Items /\ w.eaten \in Nat
      /\ w = [depth |-> w.depth, col |-> w.col, items |-> w.items, eaten |-> w.eaten]
  BY <1>3 DEF Walks
<1>9. col \in Nat \ {0}
  <2>1. m.lead - w.eaten \in Nat
    BY <1>3, <1>5, <1>8
  <2> HIDE DEF w, pad
  <2>2. m.width \in Nat /\ m.width > 0
    BY <1>5
  <2> HIDE DEF m
  <2>3. w.col + (m.lead - w.eaten) \in Nat
    BY <1>8, <2>1
  <2> QED
    BY <1>7, <2>2, <2>3
<1>10. CASE m.kind = "quote"
  <2> DEFINE e == AnyMin(1, gap)
  <2>1. e \in Nat /\ e <= gap
    BY <1>6 DEF AnyMin
  <2>2. v = [w EXCEPT !.depth = @ + 1, !.col = 0, !.eaten = e]
    BY <1>2, <1>10 DEF Walked
  <2> HIDE DEF e, w, gap, v
  <2>3. /\ v = [depth |-> w.depth + 1, col |-> 0, items |-> w.items, eaten |-> e]
        /\ v.depth = w.depth + 1 /\ v.items = w.items /\ v.eaten = e
    BY <1>8, <2>2
  <2>4. v \in Walks
    BY <1>8, <2>1, <2>3 DEF Walks
  <2>5. i < Len(l.marks) => v.eaten <= l.marks[i + 1].lead
    BY <1>6, <2>1, <2>3
  <2>6. \A j \in DOMAIN v.items : v.items[j][1] <= v.depth
    <3> TAKE j \in DOMAIN v.items
    <3>1. w.items[j][1] \in Nat /\ w.items[j][1] <= w.depth
      <4>1. w.items[j] \in Nat \X (Nat \ {0})
        BY <1>8, <2>3, ElementOfSeq DEF Items
      <4> QED
        BY <1>3, <2>3, <4>1
    <3> QED
      BY <1>8, <2>3, <3>1
  <2>7. v.depth >= 1
    BY <1>8, <2>3
  <2>8. \A d \in 0..i : (\A j \in 1..d : l.marks[j].kind = "quote") => v.depth >= d
    <3> TAKE d \in 0..i
    <3> HAVE \A j \in 1..d : l.marks[j].kind = "quote"
    <3>1. CASE d = 0
      BY <1>8, <2>3, <3>1
    <3>2. CASE d > 0
      <4>1. d - 1 \in 0..(i - 1) /\ \A j \in 1..(d - 1) : j \in 1..d
        BY <1>1, <3>2
      <4>2. w.depth >= d - 1
        BY <1>4, <4>1
      <4> QED
        BY <1>1, <1>8, <2>3, <4>1, <4>2
    <3> QED
      BY <1>1, <3>1, <3>2
  <2> QED
    BY <2>4, <2>5, <2>6, <2>7, <2>8 DEF GoodWalk, v
<1>11. CASE m.kind = "item"
  <2> DEFINE it == <<w.depth, col>>
  <2>1. v = [w EXCEPT !.col = col, !.items = Append(@, it), !.eaten = pad]
    <3>1. m.kind # "quote"
      BY <1>11
    <3> QED
      BY <1>2, <3>1 DEF Walked
  <2>2. it \in Nat \X (Nat \ {0}) /\ it[1] = w.depth
    BY <1>8, <1>9
  <2> HIDE DEF it, w, gap, v, col, pad
  <2>3. /\ v = [depth |-> w.depth, col |-> col, items |-> Append(w.items, it), eaten |-> pad]
        /\ v.depth = w.depth /\ v.items = Append(w.items, it) /\ v.eaten = pad
    BY <1>8, <2>1
  <2>4. Append(w.items, it) \in Items
    BY <1>8, <2>2, AppendProperties DEF Items
  <2>5. v \in Walks
    BY <1>7, <1>8, <1>9, <2>3, <2>4 DEF Walks
  <2>6. i < Len(l.marks) => v.eaten <= l.marks[i + 1].lead
    BY <1>6, <1>7, <2>3
  <2>7. \A j \in DOMAIN v.items : v.items[j][1] <= v.depth
    <3> TAKE j \in DOMAIN v.items
    <3>1. /\ Len(v.items) = Len(w.items) + 1 /\ v.items[Len(w.items) + 1] = it
          /\ \A k \in 1..Len(w.items) : v.items[k] = w.items[k]
      BY <1>8, <2>2, <2>3, AppendProperties DEF Items
    <3>2. Len(w.items) \in Nat /\ DOMAIN w.items = 1..Len(w.items) /\ j \in 1..(Len(w.items) + 1)
      BY <1>8, <2>3, <2>4, <3>1 DEF Items
    <3> QED
      BY <1>3, <1>8, <2>2, <2>3, <3>1, <3>2
  <2>8. v.items # <<>>
    <3>1. PICK S : S = Nat \X (Nat \ {0})
      OBVIOUS
    <3>2. w.items \in Seq(S) /\ it \in S
      BY <1>8, <2>2, <3>1 DEF Items
    <3>3. Append(w.items, it) # <<>>
      BY <3>2, AppendProperties
    <3> QED
      BY <2>3, <3>3
  <2>9. \A d \in 0..i : (\A j \in 1..d : l.marks[j].kind = "quote") => v.depth >= d
    <3> TAKE d \in 0..i
    <3> HAVE \A j \in 1..d : l.marks[j].kind = "quote"
    <3>1. d # i
      BY <1>1, <1>11
    <3> QED
      BY <1>1, <1>4, <2>3, <3>1
  <2> QED
    BY <2>5, <2>6, <2>7, <2>8, <2>9 DEF GoodWalk, v
<1> QED
  BY <1>5, <1>10, <1>11

LEMMA WalkIsGood ==
  ASSUME NEW l, IsLine(l)
  PROVE  \A i \in 0..Len(l.marks) : GoodWalk(l, i)
<1> DEFINE bad == {i \in 0..Len(l.marks) : ~GoodWalk(l, i)}
<1>0. Len(l.marks) \in Nat /\ \A k \in 1..Len(l.marks) : l.marks[k].lead \in Nat
  BY MarksAre
<1>1. SUFFICES ASSUME bad # {} PROVE FALSE
  OBVIOUS
<1>2. PICK i \in bad : \A k \in bad : i <= k
  <2>1. bad \subseteq Nat
    BY <1>0
  <2> HIDE DEF bad
  <2> QED
    BY <1>1, <2>1, LeastExists
<1>3. i # 0
  <2>1. Prefix(l)[0] = NoMarks
    BY PrefixIs DEF IsWalk
  <2>2. /\ NoMarks.depth = 0 /\ NoMarks.col = 0 /\ NoMarks.items = <<>> /\ NoMarks.eaten = 0
        /\ NoMarks \in Walks
    BY DEF NoMarks, Walks, Items
  <2>3. 0 < Len(l.marks) => 0 <= l.marks[0 + 1].lead
    BY <1>0
  <2>4. \A d \in 0..0 : d = 0
    OBVIOUS
  <2>5. DOMAIN NoMarks.items = {}
    BY <2>2
  <2>6. GoodWalk(l, 0)
    BY <2>1, <2>2, <2>3, <2>4, <2>5 DEF GoodWalk
  <2> QED
    BY <1>2, <2>6
<1>4. i \in 1..Len(l.marks) /\ i - 1 \in 0..Len(l.marks)
  BY <1>0, <1>2, <1>3
<1>5. GoodWalk(l, i - 1)
  <2>1. i - 1 \notin bad
    BY <1>0, <1>2, <1>4
  <2> QED
    BY <1>4, <2>1
<1> QED
  BY <1>2, <1>4, <1>5, WalkGoesOn

LEMMA RestIs ==
  ASSUME NEW l, IsLine(l)
  PROVE  /\ quote_rest(l, 0) # None
         /\ quote_rest(l, 0).indent = Indented(l) /\ Indented(l) \in Nat
         /\ quote_rest(l, 0).blank <=> BlankLine(l)
         /\ \A d \in Nat : quote_rest(l, d) # None =>
              d <= Len(l.marks) /\ \A j \in 1..d : l.marks[j].kind = "quote"
<1>1. Len(l.marks) \in Nat /\ l.lead \in Nat /\ \A k \in 1..Len(l.marks) : l.marks[k].lead \in Nat
  BY MarksAre
<1>2. Len(l.marks) = 0 <=> l.marks = <<>>
  BY EmptySeq DEF IsLine, Marks
<1>3. Spaces(l, 0) = Indented(l) /\ Indented(l) \in Nat
  BY <1>1, <1>2 DEF Spaces, Indented
<1>4. Prefix(l)[0].eaten = 0
  BY PrefixIs DEF IsWalk, NoMarks
<1>5. quote_rest(l, 0) = [kind |-> "rest", indent |-> Indented(l) - 0,
         bare |-> 0 = Len(l.marks), blank |-> 0 = Len(l.marks) /\ l.body.kind = "blank"]
  BY <1>1, <1>3, <1>4 DEF quote_rest
<1>6. quote_rest(l, 0).kind = "rest" /\ None.kind = "none"
  BY <1>5 DEF None
<1>7. quote_rest(l, 0).indent = Indented(l) /\ (quote_rest(l, 0).blank <=> BlankLine(l))
  <2>1. quote_rest(l, 0).indent = Indented(l) - 0
    BY <1>5
  <2>2. quote_rest(l, 0).blank <=> BlankLine(l)
    <3> DEFINE bare == 0 = Len(l.marks)
               blank == 0 = Len(l.marks) /\ l.body.kind = "blank"
    <3>1. blank <=> BlankLine(l)
      BY <1>1, <1>2 DEF BlankLine
    <3>2. quote_rest(l, 0)
            = [kind |-> "rest", indent |-> Indented(l) - 0, bare |-> bare, blank |-> blank]
      BY <1>5
    <3> HIDE DEF bare, blank
    <3>3. quote_rest(l, 0).blank = blank
      BY <3>2
    <3> QED
      BY <3>1, <3>3, Zenon
  <2> QED
    BY <1>3, <2>1, <2>2
<1>8. \A d \in Nat : quote_rest(l, d) # None =>
        d <= Len(l.marks) /\ \A j \in 1..d : l.marks[j].kind = "quote"
  BY <1>1 DEF quote_rest
<1> QED
  BY <1>3, <1>6, <1>7, <1>8

LEMMA StrippedIs ==
  ASSUME NEW l, IsLine(l)
  PROVE  LET w == strip_containers(l)
         IN  /\ w.depth \in Nat /\ w.items \in Items
             /\ l.marks # <<>> => w.depth >= 1 \/ w.items # <<>>
             /\ l.marks = <<>> => w.depth = 0 /\ w.items = <<>>
             /\ \A j \in DOMAIN w.items : w.items[j][1] <= w.depth
             /\ \A d \in Nat : quote_rest(l, d) # None => w.depth >= d
<1> DEFINE n == Len(l.marks)
           w == strip_containers(l)
           p == Prefix(l)[n]
<1>1. n \in Nat /\ (n = 0 <=> l.marks = <<>>)
  BY MarksAre, EmptySeq DEF IsLine, Marks
<1>2. GoodWalk(l, n)
  BY <1>1, WalkIsGood
<1>3. w.depth = p.depth /\ w.items = p.items
  BY DEF strip_containers
<1>4. p \in Walks
  BY <1>2 DEF GoodWalk
<1>5. w.depth \in Nat /\ w.items \in Items
  BY <1>3, <1>4 DEF Walks
<1>6. l.marks # <<>> => w.depth >= 1 \/ w.items # <<>>
  BY <1>1, <1>2, <1>3 DEF GoodWalk
<1>7. l.marks = <<>> => w.depth = 0 /\ w.items = <<>>
  BY <1>1, <1>3, PrefixIs DEF IsWalk, NoMarks
<1>8. \A j \in DOMAIN w.items : w.items[j][1] <= w.depth
  BY <1>2, <1>3 DEF GoodWalk
<1>9. \A d \in Nat : quote_rest(l, d) # None => w.depth >= d
  <2> TAKE d \in Nat
  <2> HAVE quote_rest(l, d) # None
  <2>1. d \in 0..n /\ \A j \in 1..d : l.marks[j].kind = "quote"
    BY <1>1, RestIs
  <2> QED
    BY <1>2, <1>3, <2>1 DEF GoodWalk
<1> QED
  BY <1>5, <1>6, <1>7, <1>8, <1>9

LEMMA MaxIs ==
  ASSUME NEW n \in Nat, NEW S \in SUBSET (0..n), S # {}
  PROVE  Max(S) \in S /\ \A k \in S : Max(S) >= k
<1> DEFINE above == {m \in Nat : \A k \in S : k <= m}
<1>1. above \subseteq Nat /\ n \in above
  OBVIOUS
<1>2. PICK m \in above : \A k \in above : m <= k
  <2> HIDE DEF above
  <2> QED
    BY <1>1, LeastExists
<1>3. m \in S
  <2>1. SUFFICES ASSUME m \notin S PROVE FALSE
    OBVIOUS
  <2>2. PICK b \in S : TRUE
    OBVIOUS
  <2>3. \A k \in S : k < m /\ k \in Nat
    BY <1>2, <2>1
  <2>4. m - 1 \in Nat /\ \A k \in S : k <= m - 1
    BY <1>2, <2>2, <2>3
  <2>5. m - 1 \in above
    BY <2>4
  <2> QED
    BY <1>2, <2>5
<1>4. \A k \in S : m >= k
  BY <1>2
<1>5. Max(S) = CHOOSE x \in S : \A y \in S : x >= y
  BY DEF Max
<1> HIDE DEF above
<1> QED
  BY <1>3, <1>4, <1>5

\* What the items a line sits in are: typed; no deeper than the line; its own among them; and
\* as many of those carried as it reaches.
LEMMA ChainIs ==
  ASSUME NEW l, IsLine(l), NEW items \in Items, ~BlankLine(l)
  PROVE  LET C == container_chains(items, l)
             w == strip_containers(l)
         IN  /\ C \in Items
             /\ \A i \in DOMAIN C : C[i][1] <= w.depth
             /\ w.items # <<>> => C # <<>>
             /\ \A n \in 0..Len(items) : (\A i \in 1..n : Reaches(l, items[i]))
                  => n <= Len(C) /\ \A i \in 1..n : C[i] = items[i]
<1> DEFINE C == container_chains(items, l)
           w == strip_containers(l)
           Reached == {k \in 0..Len(items) : \A i \in 1..k : Reaches(l, items[i])}
           keep == Max(Reached)
           head == SubSeq(items, 1, keep)
<1>1. Len(items) \in Nat /\ \A i \in 1..Len(items) : items[i] \in Nat \X (Nat \ {0})
  BY ElementOfSeq DEF Items
<1>2. keep \in Reached /\ \A k \in Reached : keep >= k
  <2>1. 0 \in Reached
    BY <1>1
  <2>2. Reached \subseteq 0..Len(items)
    OBVIOUS
  <2> HIDE DEF Reached
  <2> QED
    BY <1>1, <2>1, <2>2, MaxIs
<1>3. keep \in Nat /\ keep <= Len(items) /\ \A i \in 1..keep : Reaches(l, items[i])
  <2>1. \A k \in Reached : k \in 0..Len(items) /\ \A i \in 1..k : Reaches(l, items[i])
    OBVIOUS
  <2> HIDE DEF Reached, keep
  <2> QED
    BY <1>1, <1>2, <2>1
<1>4. C = head \o w.items
  BY DEF container_chains
<1>5. w.depth \in Nat /\ w.items \in Items /\ \A j \in DOMAIN w.items : w.items[j][1] <= w.depth
  BY StrippedIs
<1>6. Len(w.items) \in Nat /\ DOMAIN w.items = 1..Len(w.items)
  BY <1>5 DEF Items
<1> HIDE DEF Reached, keep, w, C
<1>7. head \in Items /\ Len(head) = keep /\ \A i \in 1..keep : head[i] = items[i]
  <2>1. items \in Seq(Nat \X (Nat \ {0}))
    BY DEF Items
  <2>2. 1 \in Nat /\ 1 <= 1 + keep
    BY <1>3
  <2> QED
    BY <1>1, <1>3, <2>1, SubSeqProperties DEF Items
<1>8. C \in Items /\ Len(C) = keep + Len(w.items)
  BY <1>4, <1>5, <1>7, ConcatProperties DEF Items
<1>9. \A i \in 1..(keep + Len(w.items)) : C[i] = IF i <= keep THEN items[i] ELSE w.items[i - keep]
  <2>1. head \in Seq(Nat \X (Nat \ {0})) /\ w.items \in Seq(Nat \X (Nat \ {0}))
    BY <1>5, <1>7 DEF Items
  <2> HIDE DEF head
  <2>2. \A i \in 1..(keep + Len(w.items)) : (head \o w.items)[i] =
          IF i <= keep THEN head[i] ELSE w.items[i - keep]
    BY <1>7, <2>1, ConcatProperties
  <2> QED
    BY <1>3, <1>4, <1>7, <2>2
<1>10. DOMAIN C = 1..(keep + Len(w.items))
  BY <1>8 DEF Items
<1>11. \A i \in DOMAIN C : C[i][1] <= w.depth
  <2> TAKE i \in DOMAIN C
  <2>1. CASE i <= keep
    <3>1. i \in 1..Len(items) /\ i \in 1..keep
      BY <1>1, <1>3, <1>6, <1>10, <2>1
    <3>2. items[i][1] \in Nat /\ quote_rest(l, items[i][1]) # None
      BY <1>1, <1>3, <3>1 DEF Reaches
    <3> QED
      BY <1>3, <1>6, <1>9, <1>10, <2>1, <3>2, StrippedIs DEF w
  <2>2. CASE i > keep
    <3>1. i - keep \in DOMAIN w.items /\ C[i] = w.items[i - keep]
      BY <1>3, <1>6, <1>9, <1>10, <2>2
    <3> QED
      BY <1>5, <3>1
  <2> QED
    BY <1>3, <1>10, <1>6, <2>1, <2>2
<1>12. w.items # <<>> => C # <<>>
  <2>1. w.items # <<>> => Len(w.items) > 0
    BY <1>5, <1>6, EmptySeq DEF Items
  <2> QED
    BY <1>3, <1>6, <1>8, <2>1
<1>13. \A n \in 0..Len(items) : (\A i \in 1..n : Reaches(l, items[i]))
         => n <= Len(C) /\ \A i \in 1..n : C[i] = items[i]
  <2> TAKE n \in 0..Len(items)
  <2> HAVE \A i \in 1..n : Reaches(l, items[i])
  <2>1. n \in Reached
    BY DEF Reached
  <2>2. n <= keep /\ n \in Nat
    BY <1>1, <1>2, <2>1
  <2>3. n <= Len(C)
    BY <1>3, <1>6, <1>8, <2>2
  <2>4. \A i \in 1..n : i \in 1..(keep + Len(w.items)) /\ i <= keep
    BY <1>3, <1>6, <2>2
  <2> QED
    BY <1>9, <2>3, <2>4
<1> QED
  BY <1>8, <1>11, <1>12, <1>13 DEF w, C

-----------------------------------------------------------------------------
(* The release notes: the inductive invariant. *)

FenceTyped(f) == f = None \/ (f.kind = "fence" /\ f.depth \in Nat /\ f.items \in Items)
\* Open at the level of the document: the only kind that a line at column 0 does not leave.
Surfaced(f) == f # None /\ f.depth = 0 /\ f.items = <<>>
\* The items an open fence is in are still those of the line.
StillIn(f, items) ==
  f # None /\ f.depth = 0
    => /\ Len(f.items) <= Len(items)
       /\ \A i \in 1..Len(f.items) : f.items[i] = items[i] /\ f.items[i][1] = 0

FencesInv ==
  /\ chain \in Items /\ FenceTyped(fence) /\ FenceTyped(block)
  /\ Surfaced(fence) \/ Surfaced(block) => fence = block
  /\ StillIn(fence, chain) /\ StillIn(block, chain)

\* The entries of a file without a finding.
Entries == [kind : {"entry", "unreleased", "reconstructed"}, version : Nat]
TheEntry == [kind |-> "entry", version |-> wanted]
PrintInv ==
  /\ entries \in Seq(Entries)
  /\ on \in BOOLEAN /\ cut \in BOOLEAN
  /\ on <=> entries # <<>> /\ Last(entries) = TheEntry
  /\ on => ~cut
  /\ cut => \E i \in 1..Len(entries) : i < Len(entries) /\ entries[i] = TheEntry
  /\ \A i, j \in 1..Len(entries) :
       i < j /\ entries[i].kind = "entry" /\ entries[j].kind = "entry"
         => entries[j].version < entries[i].version

NotesInv == ~dirty => FencesInv /\ PrintInv

\* A line that begins at column 0 leaves every fence that is open in a quote or an item.
LEMMA SurfaceLeaves ==
  ASSUME NEW l, IsLine(l), l.marks = <<>>, l.lead = 0, ~BlankLine(l),
         NEW f, FenceTyped(f), f # None, ~Surfaced(f)
  PROVE  HasLeft(l, f) /\ AwkLeft(l, f)
<1>1. strip_containers(l).depth = 0 /\ Indented(l) = 0
  BY StrippedIs DEF Indented
<1>2. f.depth \in Nat /\ f.items \in Items
  BY DEF FenceTyped
<1>3. CASE f.depth > 0
  BY <1>1, <1>3 DEF HasLeft, AwkLeft
<1>4. CASE f.depth = 0
  <2>1. f.items # <<>>
    BY <1>4 DEF Surfaced
  <2>2. 1 \in DOMAIN f.items /\ f.items[1] \in Nat \X (Nat \ {0})
    BY <1>2, <2>1, EmptySeq, ElementOfSeq DEF Items
  <2> DEFINE rest == quote_rest(l, f.items[1][1])
  <2>3. rest = None \/ (~rest.blank /\ rest.indent < f.items[1][2])
    <3>1. CASE rest = None
      BY <3>1
    <3>2. CASE rest # None
      <4>1. Len(l.marks) = 0
        OBVIOUS
      <4>2. f.items[1][1] = 0
        BY <2>2, <3>2, <4>1, RestIs
      <4>3. rest = quote_rest(l, 0)
        BY <4>2
      <4>4. ~rest.blank
        BY <4>3, RestIs, Zenon
      <4>5. rest.indent = 0
        BY <1>1, <4>3, RestIs
      <4> QED
        BY <2>2, <4>4, <4>5
    <3> QED
      BY <3>1, <3>2
  <2> QED
    BY <2>2, <2>3 DEF HasLeft, AwkLeft
<1> QED
  BY <1>2, <1>3, <1>4

\* A fence the line has not left is in items that the line has reached.
LEMMA HeldIsReached ==
  ASSUME NEW l, IsLine(l), ~BlankLine(l), NEW f, FenceTyped(f), f # None, f.depth = 0,
         NEW items, StillIn(f, items), ~HasLeft(l, f)
  PROVE  \A i \in 1..Len(f.items) : Reaches(l, items[i])
<1> TAKE i \in 1..Len(f.items)
<1>1. f.items \in Items /\ i \in DOMAIN f.items
  BY DEF FenceTyped, Items
<1>2. items[i] = f.items[i] /\ f.items[i][1] = 0
  BY DEF StillIn
<1> DEFINE rest == quote_rest(l, 0)
<1>3. rest # None /\ ~rest.blank
  BY RestIs, Zenon
<1>4. ~(quote_rest(l, f.items[i][1]) = None
        \/ (~quote_rest(l, f.items[i][1]).blank
            /\ quote_rest(l, f.items[i][1]).indent < f.items[i][2]))
  BY <1>1 DEF HasLeft
<1>5. ~(rest.indent < f.items[i][2])
  BY <1>2, <1>3, <1>4
<1>6. f.items[i][2] \in Nat /\ rest.indent \in Nat
  <2>1. f.items[i] \in Nat \X (Nat \ {0})
    BY <1>1, ElementOfSeq DEF Items
  <2> QED
    BY <2>1, RestIs
<1>7. rest.indent >= f.items[i][2]
  BY <1>5, <1>6
<1> QED
  BY <1>2, <1>3, <1>7 DEF Reaches

\* So it is still in them after the line,
LEMMA HeldStays ==
  ASSUME NEW l, IsLine(l), NEW f, FenceTyped(f), f # None,
         NEW items \in Items, StillIn(f, items), ~HasLeft(l, f)
  PROVE  StillIn(f, container_chains(items, l))
<1>1. CASE BlankLine(l)
  BY <1>1 DEF container_chains
<1>2. CASE ~BlankLine(l)
  <2> SUFFICES ASSUME f.depth = 0
               PROVE  StillIn(f, container_chains(items, l))
    BY DEF StillIn
  <2> DEFINE n == Len(f.items)
             C == container_chains(items, l)
  <2>1. n \in 0..Len(items) /\ \A i \in 1..n : f.items[i] = items[i] /\ f.items[i][1] = 0
    <3>1. Len(f.items) \in Nat /\ Len(items) \in Nat
      BY DEF FenceTyped, Items
    <3> QED
      BY <3>1 DEF StillIn
  <2>2. \A i \in 1..n : Reaches(l, items[i])
    BY <1>2, HeldIsReached
  <2>3. n <= Len(C) /\ \A i \in 1..n : C[i] = items[i]
    BY <1>2, <2>1, <2>2, ChainIs
  <2> QED
    BY <2>1, <2>3 DEF StillIn
<1> QED
  BY <1>1, <1>2

\* and what is opened on a line inside it is in a quote or an item too.
LEMMA InsideIsDeep ==
  ASSUME NEW l, IsLine(l), IsFence(l), NEW f, FenceTyped(f), f # None, ~Surfaced(f),
         NEW items \in Items, StillIn(f, items), ~HasLeft(l, f)
  PROVE  ~Surfaced(Opened(l, container_chains(items, l)))
<1> DEFINE C == container_chains(items, l)
           w == strip_containers(l)
<1>1. ~BlankLine(l)
  BY DEF IsFence, BlankLine
<1>2. Opened(l, C).depth = w.depth /\ Opened(l, C).items = C
  BY DEF Opened
<1>3. w.depth \in Nat /\ f.depth \in Nat /\ f.items \in Items
  BY StrippedIs DEF FenceTyped
<1>4. CASE f.depth > 0
  <2>1. ~(w.depth < f.depth)
    BY DEF HasLeft
  <2>2. w.depth # 0
    BY <1>3, <1>4, <2>1
  <2> QED
    BY <1>2, <2>2 DEF Surfaced
<1>5. CASE f.depth = 0
  <2>1. f.items # <<>>
    BY <1>5 DEF Surfaced
  <2>2. Len(f.items) \in Nat /\ Len(f.items) >= 1
    BY <1>3, <2>1, EmptySeq DEF Items
  <2>3. Len(f.items) \in 0..Len(items)
    <3>1. Len(items) \in Nat
      BY DEF Items
    <3> QED
      BY <1>5, <2>2, <3>1 DEF StillIn
  <2>4. Len(f.items) <= Len(C) /\ C \in Items
    BY <1>1, <1>5, <2>3, HeldIsReached, ChainIs
  <2>5. C # <<>>
    BY <2>2, <2>4, EmptySeq DEF Items
  <2> QED
    BY <1>2, <2>5 DEF Surfaced
<1> QED
  BY <1>3, <1>4, <1>5

LEMMA OpenedIs ==
  ASSUME NEW l, IsLine(l), IsFence(l), NEW items \in Items
  PROVE  LET C == container_chains(items, l)
         IN  /\ FenceTyped(Opened(l, C)) /\ Opened(l, C) # None
             /\ StillIn(Opened(l, C), C)
             /\ l.marks # <<>> => ~Surfaced(Opened(l, C))
<1> DEFINE C == container_chains(items, l)
           w == strip_containers(l)
           f == Opened(l, C)
<1>1. ~BlankLine(l)
  BY DEF IsFence, BlankLine
<1>2. C \in Items /\ (\A i \in DOMAIN C : C[i][1] <= w.depth) /\ (w.items # <<>> => C # <<>>)
  BY <1>1, ChainIs
<1>3. w.depth \in Nat /\ (l.marks # <<>> => w.depth >= 1 \/ w.items # <<>>)
  BY StrippedIs
<1>4. f.depth = w.depth /\ f.items = C /\ f.kind = "fence"
  BY DEF Opened
<1> HIDE DEF C, w, f
<1>5. FenceTyped(f) /\ f # None
  BY <1>2, <1>3, <1>4 DEF FenceTyped, None
<1>6. StillIn(f, C)
  <2> SUFFICES ASSUME f.depth = 0, NEW i \in 1..Len(C) PROVE C[i][1] = 0 /\ Len(C) <= Len(C)
    BY <1>4 DEF StillIn
  <2>1. C[i] \in Nat \X (Nat \ {0}) /\ i \in DOMAIN C
    BY <1>2, ElementOfSeq DEF Items
  <2>2. C[i][1] \in Nat /\ C[i][1] <= 0
    BY <1>2, <1>4, <2>1
  <2>3. Len(C) \in Nat
    BY <1>2 DEF Items
  <2> QED
    BY <2>2, <2>3
<1>7. l.marks # <<>> => ~Surfaced(f)
  BY <1>2, <1>3, <1>4 DEF Surfaced
<1> QED
  BY <1>5, <1>6, <1>7 DEF f, C

LEMMA FencesStep ==
  ASSUME NEW l, IsLine(l), FencesInv, Check(l), Extract(l)
  PROVE  FencesInv'
<1> DEFINE C == container_chains(chain, l)
           mine == InFence(l)
           inside == block # None /\ ~AwkLeft(l, block)
           new == Opened(l, C)
<1>1. chain \in Items /\ FenceTyped(fence) /\ FenceTyped(block) /\ StillIn(fence, chain) /\ StillIn(block, chain)
  BY DEF FencesInv
<1>2. Surfaced(fence) \/ Surfaced(block) => fence = block
  BY DEF FencesInv
<1>3. C \in Items
  <2>1. CASE BlankLine(l)
    BY <1>1, <2>1 DEF container_chains
  <2>2. CASE ~BlankLine(l)
    BY <1>1, <2>2, ChainIs
  <2> QED
    BY <2>1, <2>2
<1>4. chain' = C
  BY DEF Check
<1>5. fence' = IF mine THEN IF Closes(l, fence) THEN None ELSE fence
               ELSE IF MayOpen(l, C) THEN new ELSE None
  BY DEF Check, fence_mask
<1>6. block' = IF inside THEN IF AwkCloses(l, block) THEN None ELSE block
               ELSE IF AwkOpens(l, C) THEN new ELSE None
  BY DEF Extract
<1>7. /\ \A f : HasLeft(l, f) <=> AwkLeft(l, f)
      /\ \A f : Closes(l, f) <=> AwkCloses(l, f)
  BY DEF HasLeft, AwkLeft, Closes, AwkCloses
<1>8. /\ MayOpen(l, C) => AwkOpens(l, C)
      /\ AwkOpens(l, C) => IsFence(l)
      /\ AwkOpens(l, C) /\ ~MayOpen(l, C) => l.marks # <<>>
  BY DEF MayOpen, AwkOpens, opens_fence
<1>9. IsFence(l) => FenceTyped(new) /\ new # None /\ StillIn(new, C) /\ (l.marks # <<>> => ~Surfaced(new))
  BY <1>1, OpenedIs
<1>10. FenceTyped(None) /\ StillIn(None, C) /\ ~Surfaced(None)
  BY DEF FenceTyped, StillIn, Surfaced
<1>11. mine => fence # None /\ ~HasLeft(l, fence) /\ StillIn(fence, C)
  BY <1>1, HeldStays DEF InFence
<1>12. inside => block # None /\ ~HasLeft(l, block) /\ StillIn(block, C)
  BY <1>1, <1>7, HeldStays
<1>13. mine /\ ~Surfaced(fence) /\ IsFence(l) => ~Surfaced(new)
  BY <1>1, <1>11, InsideIsDeep
<1>14. inside /\ ~Surfaced(block) /\ IsFence(l) => ~Surfaced(new)
  BY <1>1, <1>12, InsideIsDeep
<1>15. FenceTyped(fence') /\ StillIn(fence', C)
  BY <1>1, <1>5, <1>8, <1>9, <1>10, <1>11
<1>16. FenceTyped(block') /\ StillIn(block', C)
  BY <1>1, <1>6, <1>8, <1>9, <1>10, <1>12
<1>17. Surfaced(fence') \/ Surfaced(block') => fence' = block'
  <2>1. CASE fence = block
    <3>1. mine <=> inside
      BY <1>7, <2>1 DEF InFence
    <3>2. CASE mine
      BY <1>5, <1>6, <1>7, <2>1, <3>1, <3>2
    <3>3. CASE ~mine
      BY <1>5, <1>6, <1>8, <1>9, <1>10, <3>1, <3>3
    <3> QED
      BY <3>2, <3>3
  <2>2. CASE fence # block
    <3>1. ~Surfaced(fence) /\ ~Surfaced(block)
      BY <1>2, <2>2
    <3>2. CASE mine /\ inside
      BY <1>5, <1>6, <1>10, <3>1, <3>2
    <3>3. CASE mine /\ ~inside
      BY <1>5, <1>6, <1>8, <1>10, <1>13, <3>1, <3>3
    <3>4. CASE ~mine /\ inside
      BY <1>5, <1>6, <1>8, <1>10, <1>14, <3>1, <3>4
    <3>5. CASE ~mine /\ ~inside
      BY <1>5, <1>6, <1>8, <1>9, <1>10, <3>5
    <3> QED
      BY <3>2, <3>3, <3>4, <3>5
  <2> QED
    BY <2>1, <2>2
<1> QED
  BY <1>3, <1>4, <1>15, <1>16, <1>17 DEF FencesInv, FenceTyped, StillIn, Surfaced

\* At a line that begins an entry at column 0 both programs are in the same fence, or in none.
LEMMA SameAtSurface ==
  ASSUME NEW l, IsLine(l), FencesInv, l.marks = <<>>, l.lead = 0, ~BlankLine(l)
  PROVE  InFence(l) <=> block # None /\ ~AwkLeft(l, block)
<1>1. FenceTyped(fence) /\ FenceTyped(block) /\ (Surfaced(fence) \/ Surfaced(block) => fence = block)
  BY DEF FencesInv
<1>2. \A f : HasLeft(l, f) <=> AwkLeft(l, f)
  BY DEF HasLeft, AwkLeft
<1>3. InFence(l) => Surfaced(fence)
  BY <1>1, SurfaceLeaves DEF InFence
<1>4. (block # None /\ ~AwkLeft(l, block)) => Surfaced(block)
  BY <1>1, SurfaceLeaves
<1> QED
  BY <1>1, <1>2, <1>3, <1>4 DEF InFence

\* The line begins an entry for the extractor.
Begins(l) == ~(block # None /\ ~AwkLeft(l, block)) /\ Boundary(l)

\* The checker, if it finds nothing, charges the lines below it to that entry,
LEMMA BoundaryIsEntry ==
  ASSUME NEW l, IsLine(l), FencesInv, Check(l), ~dirty', Begins(l)
  PROVE  LET e == [kind |-> l.body.text.is, version |-> l.body.text.version]
         IN  /\ entries' = Append(entries, e) /\ ~OutOfOrder(e)
             /\ e.kind \in {"entry", "unreleased", "reconstructed"}
<1> DEFINE t == l.body.text
           C == container_chains(chain, l)
           masked == Masked(l, C)
           code == indented_code_mask(l, masked)
           skip == masked \/ (code /\ ~BlankLine(l))
<1>1. l.marks = <<>> /\ l.lead = 0 /\ IsHeading(l) /\ l.body.level = 2 /\ t.is \in Bracketed \ {"wide"}
  BY DEF Begins, Boundary
<1>2. ~BlankLine(l) /\ ~IsFence(l) /\ Indented(l) = 0
  BY <1>1 DEF IsHeading, BlankLine, IsFence, Indented
<1>3. ~InFence(l)
  BY <1>1, <1>2, SameAtSurface DEF Begins
<1>4. ~masked
  BY <1>2, <1>3 DEF Masked, fence_mask, MayOpen, opens_fence
<1>5. ~code
  BY <1>2 DEF indented_code_mask
<1>6. ~skip /\ ~DeepRun(l) /\ ~DeepSample(l)
  BY <1>1, <1>4, <1>5 DEF DeepRun, DeepSample
<1>7. classify_heading(l, C) = "column0"
  BY <1>1 DEF classify_heading
<1>8. ReadHeading(l, "column0")
  <2>1. /\ (IF (IF skip \/ (DeepRun(l) \/ DeepSample(l)) THEN "no" ELSE classify_heading(l, C)) # "no"
            THEN ReadHeading(l, IF skip \/ (DeepRun(l) \/ DeepSample(l)) THEN "no"
                                ELSE classify_heading(l, C))
            ELSE /\ dirty' = (~skip /\ ~(DeepRun(l) \/ DeepSample(l)) /\ SetextHeading(l))
                 /\ UNCHANGED <<entries, categories>>)
    BY DEF Check
  <2>2. (IF skip \/ (DeepRun(l) \/ DeepSample(l)) THEN "no" ELSE classify_heading(l, C)) = "column0"
    BY <1>6, <1>7
  <2> QED
    BY <2>1, <2>2
<1>9. release_like(t)
  BY <1>1 DEF release_like
<1> DEFINE entry == [kind |-> KindOf(t), version |-> t.version]
<1>10. /\ entries' = Append(entries, entry)
       /\ dirty' = ("column0" # "column0" \/ t.is \in {"bare", "wide", "undated"} \/ OutOfOrder(entry))
  BY <1>1, <1>8, <1>9 DEF ReadHeading
<1>11. ~(t.is \in {"bare", "wide", "undated"}) /\ ~OutOfOrder(entry)
  BY <1>10
<1>12. t.is \in {"entry", "unreleased", "reconstructed"} /\ KindOf(t) = t.is
  BY <1>1, <1>11 DEF Bracketed, KindOf
<1> QED
  BY <1>10, <1>11, <1>12

\* and it begins none anywhere else.
LEMMA EntryIsBoundary ==
  ASSUME NEW l, IsLine(l), FencesInv, Check(l), ~dirty', ~Begins(l)
  PROVE  entries' = entries
<1> DEFINE t == l.body.text
           C == container_chains(chain, l)
           masked == Masked(l, C)
           code == indented_code_mask(l, masked)
           skip == masked \/ (code /\ ~BlankLine(l))
           sample == DeepRun(l) \/ DeepSample(l)
           place == IF skip \/ sample THEN "no" ELSE classify_heading(l, C)
<1>1. SUFFICES ASSUME entries' # entries PROVE FALSE
  OBVIOUS
<1>2. IF place # "no" THEN ReadHeading(l, place)
      ELSE /\ dirty' = (~skip /\ ~sample /\ SetextHeading(l))
           /\ UNCHANGED <<entries, categories>>
  BY DEF Check
<1>3. place # "no" /\ ReadHeading(l, place)
  <2> HIDE DEF place
  <2> QED
    BY <1>1, <1>2
<1>4. l.body.level = 2 /\ release_like(t) /\ place = "column0"
      /\ ~(t.is \in {"bare", "wide", "undated"})
  <2> HIDE DEF place
  <2> QED
    BY <1>1, <1>3 DEF ReadHeading
<1>5. ~masked /\ classify_heading(l, C) = "column0"
  BY <1>4
<1>6. IsHeading(l) /\ l.marks = <<>> /\ l.lead = 0
  BY <1>5 DEF classify_heading
<1>7. ~BlankLine(l) /\ ~InFence(l)
  BY <1>5, <1>6 DEF IsHeading, BlankLine, Masked
<1>8. Boundary(l)
  BY <1>4, <1>6 DEF Boundary, release_like, Bracketed
<1> QED
  BY <1>6, <1>7, <1>8, SameAtSurface DEF Begins

\* A version that is in order is below every version before it.
LEMMA InOrder ==
  ASSUME NEW e \in Entries, e.kind = "entry", ~OutOfOrder(e), entries \in Seq(Entries),
         \A i, j \in 1..Len(entries) :
           i < j /\ entries[i].kind = "entry" /\ entries[j].kind = "entry"
             => entries[j].version < entries[i].version
  PROVE  \A i \in 1..Len(entries) : entries[i].kind = "entry" => e.version < entries[i].version
<1> TAKE i \in 1..Len(entries)
<1> HAVE entries[i].kind = "entry"
<1> DEFINE previous == {j \in DOMAIN entries : entries[j].kind = "entry"}
           m == Max(previous)
<1>1. Len(entries) \in Nat /\ DOMAIN entries = 1..Len(entries)
  OBVIOUS
<1>2. i \in previous /\ previous \subseteq 0..Len(entries)
  BY <1>1
<1>3. m \in previous /\ m >= i
  <2> HIDE DEF previous
  <2> QED
    BY <1>1, <1>2, MaxIs
<1>4. ~(e.version >= entries[m].version)
  BY <1>2 DEF OutOfOrder
<1>5. m \in 1..Len(entries) /\ entries[m].kind = "entry"
  BY <1>1, <1>3
<1>6. e.version \in Nat /\ entries[m].version \in Nat /\ entries[i].version \in Nat
  <2>1. entries[m] \in Entries /\ entries[i] \in Entries
    BY <1>5, ElementOfSeq
  <2> QED
    BY <2>1 DEF Entries
<1>7. e.version < entries[m].version
  BY <1>4, <1>6
<1>8. CASE m = i
  BY <1>7, <1>8
<1>9. CASE m # i
  <2>1. i < m
    BY <1>3, <1>5, <1>9
  <2>2. entries[m].version < entries[i].version
    BY <1>5, <2>1
  <2> QED
    BY <1>6, <1>7, <2>2
<1> QED
  BY <1>8, <1>9

LEMMA PrintStep ==
  ASSUME NEW l, IsLine(l), FencesInv, PrintInv, Check(l), Extract(l), ~dirty'
  PROVE  PrintInv'
<1> DEFINE t == l.body.text
           inside == block # None /\ ~AwkLeft(l, block)
           opens == ~inside /\ AwkOpens(l, container_chains(chain, l))
           boundary == ~inside /\ ~opens /\ Boundary(l)
           own == boundary /\ t.version = wanted /\ t.is \in {"entry", "undated"}
           n == Len(entries)
<1>1. /\ cut' = (cut \/ (boundary /\ ~own /\ on))
      /\ on' = ((on \/ own) /\ ~cut')
      /\ wanted' = wanted
  BY DEF Extract
<1>2. boundary <=> Begins(l)
  <2>1. Boundary(l) => ~AwkOpens(l, container_chains(chain, l))
    BY DEF Boundary, IsHeading, AwkOpens, opens_fence, IsFence
  <2> QED
    BY <2>1 DEF Begins
<1>3. entries \in Seq(Entries) /\ n \in Nat /\ on \in BOOLEAN /\ cut \in BOOLEAN
  BY DEF PrintInv, Entries
<1>4. TheEntry' = TheEntry
  BY <1>1 DEF TheEntry
<1>5. CASE ~Begins(l)
  <2>1. entries' = entries
    BY <1>5, EntryIsBoundary
  <2>2. cut' = cut /\ on' = on
    BY <1>1, <1>2, <1>3, <1>5 DEF PrintInv
  <2> QED
    BY <1>4, <2>1, <2>2 DEF PrintInv
<1>6. CASE Begins(l)
  <2> DEFINE e == [kind |-> t.is, version |-> t.version]
  <2>1. entries' = Append(entries, e) /\ ~OutOfOrder(e) /\ e.kind \in {"entry", "unreleased", "reconstructed"}
    BY <1>6, BoundaryIsEntry
  <2>2. t.version \in Nat
    BY <1>6 DEF IsLine, Begins, Boundary, IsHeading
  <2>3. e \in Entries /\ e.kind = t.is /\ e.version = t.version
    BY <2>1, <2>2 DEF Entries
  <2>4. own <=> e = TheEntry
    <3>1. own <=> t.version = wanted /\ t.is = "entry"
      BY <1>2, <1>6, <2>1
    <3>2. e = TheEntry => e.kind = "entry" /\ e.version = wanted
      BY DEF TheEntry
    <3> QED
      BY <3>1, <3>2 DEF TheEntry
  <2> HIDE DEF e, own, boundary
  <2>5. /\ Append(entries, e) \in Seq(Entries) /\ Len(Append(entries, e)) = n + 1
        /\ Append(entries, e)[n + 1] = e
        /\ \A i \in 1..n : Append(entries, e)[i] = entries[i]
    BY <1>3, <2>3, AppendProperties
  <2>6. entries' \in Seq(Entries) /\ Len(entries') = n + 1 /\ entries'[n + 1] = e
        /\ \A i \in 1..n : entries'[i] = entries[i]
    BY <2>1, <2>5
  <2>7. entries' # <<>> /\ Last(entries') = e
    BY <1>3, <2>6, EmptySeq DEF Last
  <2>8. own => \A i \in 1..n : entries[i] # TheEntry
    <3> SUFFICES ASSUME own, NEW i \in 1..n, entries[i] = TheEntry PROVE FALSE
      OBVIOUS
    <3>1. e = TheEntry /\ e.kind = "entry" /\ entries[i].kind = "entry" /\ e.version = entries[i].version
      BY <2>4 DEF TheEntry
    <3>2. e.version < entries[i].version
      BY <1>3, <2>1, <2>3, <3>1, InOrder DEF PrintInv, Entries
    <3> QED
      BY <2>2, <2>3, <3>1, <3>2
  <2>9. boundary
    BY <1>2, <1>6
  <2>10. on => n >= 1 /\ entries[n] = TheEntry
    <3>1. on => entries # <<>> /\ Last(entries) = TheEntry
      BY DEF PrintInv
    <3> QED
      BY <1>3, <3>1, EmptySeq DEF Last
  <2>11. (cut' => \E i \in 1..Len(entries') : i < Len(entries') /\ entries'[i] = TheEntry)
    <3> SUFFICES ASSUME cut' PROVE \E i \in 1..n : entries[i] = TheEntry
      BY <1>3, <2>6
    <3>1. CASE cut
      BY <1>3, <3>1 DEF PrintInv
    <3>2. CASE ~cut
      <4>1. on
        BY <1>1, <3>2
      <4> QED
        BY <1>3, <2>10, <4>1
    <3> QED
      BY <3>1, <3>2
  <2>12. on' <=> own
    <3>1. CASE own
      <4>1. ~cut
        BY <1>3, <2>8, <3>1 DEF PrintInv
      <4> QED
        BY <1>1, <3>1, <4>1
    <3>2. CASE ~own
      BY <1>1, <2>9, <3>2
    <3> QED
      BY <3>1, <3>2
  <2>13. on' \in BOOLEAN /\ cut' \in BOOLEAN /\ (on' => ~cut')
    <3>1. on' = TRUE \/ on' = FALSE
      BY <1>1
    <3>2. cut' = TRUE \/ cut' = FALSE
      BY <1>1
    <3> QED
      BY <1>1, <3>1, <3>2
  <2>14. on' <=> entries' # <<>> /\ Last(entries') = TheEntry
    BY <2>4, <2>7, <2>12
  <2>15. \A i, j \in 1..Len(entries') :
           i < j /\ entries'[i].kind = "entry" /\ entries'[j].kind = "entry"
             => entries'[j].version < entries'[i].version
    <3> TAKE i, j \in 1..Len(entries')
    <3> HAVE i < j /\ entries'[i].kind = "entry" /\ entries'[j].kind = "entry"
    <3>1. i \in 1..n
      BY <1>3, <2>6
    <3>2. CASE j = n + 1
      BY <1>3, <2>1, <2>3, <2>6, <3>1, <3>2, InOrder DEF PrintInv, Entries
    <3>3. CASE j # n + 1
      <4>1. j \in 1..n
        BY <1>3, <2>6, <3>3
      <4> QED
        BY <2>6, <3>1, <4>1 DEF PrintInv
    <3> QED
      BY <3>2, <3>3
  <2> QED
    BY <1>4, <2>6, <2>11, <2>13, <2>14, <2>15 DEF PrintInv, Entries
<1> QED
  BY <1>5, <1>6

\* The invariant of the notes: of every document the checker has found nothing in, the two
\* programs agree about the fences open at the level of the document, and print is on exactly
\* in the entry wanted, which comes once.
THEOREM NotesInvariant == NotesSpec => []NotesInv
<1>1. NotesInit => NotesInv
  <2> SUFFICES ASSUME NotesInit PROVE FencesInv /\ PrintInv
    BY DEF NotesInv
  <2>1. FencesInv
    BY DEF NotesInit, FencesInv, FenceTyped, Surfaced, StillIn, Items
  <2>2. PrintInv
    <3>1. entries = <<>> /\ on = FALSE /\ cut = FALSE
      BY DEF NotesInit
    <3>2. Len(entries) = 0 /\ 1..Len(entries) = {}
      BY <3>1
    <3>3. entries \in Seq(Entries)
      BY <3>1
    <3> QED
      BY <3>1, <3>2, <3>3, Zenon DEF PrintInv
  <2> QED
    BY <2>1, <2>2
<1>2. NotesInv /\ [NotesNext]_noteVars => NotesInv'
  <2> SUFFICES ASSUME NotesInv, [NotesNext]_noteVars PROVE NotesInv'
    OBVIOUS
  <2>1. CASE NotesNext
    <3>1. PICK l \in Documents : Line(l)
      BY <2>1 DEF NotesNext
    <3>2. IsLine(l) /\ FencesInv /\ PrintInv /\ Check(l) /\ Extract(l)
      BY <3>1, NotesAssumption DEF Line, NotesInv
    <3> SUFFICES ASSUME ~dirty' PROVE FencesInv' /\ PrintInv'
      BY DEF NotesInv
    <3> QED
      BY <3>2, FencesStep, PrintStep
  <2>2. CASE UNCHANGED noteVars
    BY <2>2 DEF noteVars, checkVars, NotesInv, FencesInv, PrintInv, FenceTyped, Surfaced, StillIn, TheEntry
  <2> QED
    BY <2>1, <2>2
<1> QED
  BY <1>1, <1>2, PTL DEF NotesSpec

\* Of every changelog the checker passes, of any lines, the extractor prints exactly the entry
\* the checker charged them to (check-docs.py, changelog-section.awk).
THEOREM NotesAreAlwaysTheEntry == NotesSpec => []NotesAreTheEntry
<1>1. NotesInv => NotesAreTheEntry
  BY DEF NotesInv, PrintInv, TheEntry, NotesAreTheEntry
<1> QED
  BY <1>1, NotesInvariant, PTL
=============================================================================
