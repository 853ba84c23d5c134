------------------------------- MODULE Receipts -------------------------------
(***************************************************************************)
(* test-macos-receipts.py: the test that installs the real package on a    *)
(* disposable machine and reads back what the installer recorded.          *)
(*                                                                         *)
(* The machine keeps the installed receipts, the bundles on its disk and   *)
(* those of the sibling product; the installer is the part the test does   *)
(* not trust: it may add or lose receipts, record other paths, alter the   *)
(* sibling, or put down other bytes.  A bundle is the set of its entries,  *)
(* files with their bytes and directories; a receipt records its identity, *)
(* version, location and the paths it owns.                                *)
(***************************************************************************)
EXTENDS FiniteSets, Naturals

CONSTANTS Suffixes      \* the components of the package

Own == Suffixes
Existing == {"other", "sibling"}      \* receipts a machine may already hold

Entry(path, kind) == [path |-> path, kind |-> kind]

(* What the customer payload of a component stages. *)
Staged == {Entry("info", "file"), Entry("exec", "file"), Entry("res", "dir")}

(* What may end up on the disk instead, and what a receipt may list. *)
Installs == {Staged, Staged \cup {Entry("extra", "file")},
             Staged \ {Entry("exec", "file")},
             Staged \cup {Entry("other", "dir")},
             (Staged \ {Entry("info", "file")}) \cup {Entry("info", "changed")}}
Owned == {{"info", "exec"}, {"info", "exec", "res"}, {"info"},
          {"info", "exec", "extra"}, {"info", "exec", "other"},
          {"info", "exec", "foreign"}}

VARIABLES hosted,        \* the platform and the environment name a hosted VM
          rstep,         \* where main stands
          machine,       \* receipts, bundles, the sibling's bytes
          before,        \* the snapshot taken before installing
          report,        \* what the report says, "none" until written
          unvalidated    \* components whose receipt is still to be read

receiptVars == <<hosted, rstep, machine, before, report, unvalidated>>

Blank == [failure |-> FALSE, started |-> FALSE, components |-> {}, written |-> FALSE]

NoBundle == {}

ReceiptsInit ==
    /\ hosted \in BOOLEAN
    /\ rstep = "guard"
    /\ \E held \in SUBSET (Existing \cup Own), bundled \in SUBSET Own :
           machine = [receipts |-> held, siblingBytes |-> "before",
                      bundles |-> [s \in Own |-> IF s \in bundled THEN Staged ELSE NoBundle],
                      owned |-> [s \in Own |-> {}],
                      identity |-> [s \in Own |-> TRUE]]
    /\ before = machine
    /\ report = Blank /\ unvalidated = Own

(* The exception leaves through the finally, which writes the report. *)
Fail == rstep' = "finally" /\ report' = [report EXCEPT !.failure = TRUE]

(* disposable_guard, before anything is read or written. *)
disposable_guard ==
    /\ rstep = "guard"
    /\ rstep' = IF hosted THEN "snapshot" ELSE "refused"
    /\ UNCHANGED <<hosted, machine, before, report, unvalidated>>

SnapshotReceipts(answers) ==                   \* a mutant: bundles are not looked at
    /\ rstep = "snapshot"
    /\ before' = machine
    /\ IF answers /\ machine.receipts \cap Own = {}
       THEN rstep' = "install" /\ report' = [report EXCEPT !.started = TRUE]
       ELSE Fail
    /\ UNCHANGED <<hosted, machine, unvalidated>>

(* The receipts are listed; a receipt or a bundle of this product refuses the
   installation, and the sibling's receipts and payload are kept to compare. *)
Snapshot(answers) ==
    /\ rstep = "snapshot"
    /\ before' = machine
    /\ IF answers /\ machine.receipts \cap Own = {}
               /\ \A s \in Own : machine.bundles[s] = NoBundle
       THEN rstep' = "install" /\ report' = [report EXCEPT !.started = TRUE]
       ELSE Fail
    /\ UNCHANGED <<hosted, machine, unvalidated>>

(* The installer, which may do anything a package can. *)
Install ==
    /\ rstep = "install"
    /\ \E lost \in {{}, {"other"}}, added \in {Own, Own \cup {"stray"}} \cup {Own \ {s} : s \in Own},
          bytes \in {"before", "after"}, odd \in Own, put \in Installs, owns \in Owned,
          identified \in BOOLEAN :
           machine' = [machine EXCEPT
               !.receipts = (@ \ lost) \cup added,
               !.siblingBytes = bytes,
               !.bundles = [s \in Own |-> IF s = odd THEN put ELSE Staged],
               !.owned = [s \in Own |-> IF s = odd THEN owns ELSE {"info", "exec"}],
               !.identity = [s \in Own |-> s = odd => identified]]
    /\ \/ rstep' = "after" /\ UNCHANGED report
       \/ Fail                                   \* it returned an error
    /\ UNCHANGED <<hosted, before, unvalidated>>

(* validate_separation, and the sibling's payload as it was. *)
validate_separation ==
    /\ machine.receipts \ before.receipts = Own
    /\ before.receipts \subseteq machine.receipts
    /\ before.siblingBytes = machine.siblingBytes

After(answers) ==
    /\ rstep = "after"
    /\ IF answers /\ validate_separation
       THEN rstep' = "validate" /\ UNCHANGED report
       ELSE Fail
    /\ UNCHANGED <<hosted, machine, before, unvalidated>>

Files(bundle) == {e \in bundle : e.kind # "dir"}
Folders(bundle) == {e.path : e \in bundle \ Files(bundle)}

OwnsItsFiles(paths, installed, staged) ==      \* a mutant: the first half only
    {e.path : e \in Files(installed) \cup Files(staged)} \subseteq paths

(* validate_ownership: every file either side has, and no entry besides but
   the directories both have. *)
validate_ownership(paths, installed, staged) ==
    LET expected == {e.path : e \in Files(installed) \cup Files(staged)}
    IN /\ expected \subseteq paths
       /\ paths \subseteq expected \cup (Folders(installed) \cap Folders(staged))

(* validate_component: tree compares files; directories are compared only
   through the ownership. *)
validate_component(s) ==
    /\ machine.identity[s]
    /\ {"info", "exec"} \subseteq machine.owned[s]
    /\ Files(machine.bundles[s]) = Files(Staged)
    /\ validate_ownership(machine.owned[s], machine.bundles[s], Staged)

Validate(s, answers) ==
    /\ rstep = "validate" /\ s \in unvalidated
    /\ IF answers /\ validate_component(s)
       THEN /\ report' = [report EXCEPT !.components = @ \cup {s}]
            /\ unvalidated' = unvalidated \ {s}
            /\ rstep' = IF unvalidated' = {} THEN "finally" ELSE rstep
       ELSE Fail /\ UNCHANGED unvalidated
    /\ UNCHANGED <<hosted, machine, before>>

WriteReport(written) ==
    /\ rstep = "finally"
    /\ report' = [report EXCEPT !.written = written]
    /\ rstep' = IF written /\ ~report.failure THEN "passed" ELSE "failed"
    /\ UNCHANGED <<hosted, machine, before, unvalidated>>

ReceiptsNext ==
    \/ disposable_guard
    \/ \E ok \in BOOLEAN : Snapshot(ok) \/ After(ok) \/ WriteReport(ok)
    \/ Install
    \/ \E s \in Suffixes, ok \in BOOLEAN : Validate(s, ok)

ReceiptsSpec == ReceiptsInit /\ [][ReceiptsNext]_receiptVars

(***************************************************************************)
(* A pass is earned over the whole machine: it held none of this product   *)
(* before, holds exactly the three receipts more after, the sibling and    *)
(* every other receipt are as they were, each installed component has the  *)
(* staged files byte for byte, and no receipt owns a path its component    *)
(* does not stage, which a later removal by receipt would delete           *)
(* (test-macos-receipts.py main, validate_separation, validate_component). *)
(***************************************************************************)
InstallIsProven ==
    rstep = "passed" =>
        /\ report.written /\ report.components = Suffixes
        /\ before.receipts \cap Own = {}
        /\ machine.receipts = before.receipts \cup Own
        /\ machine.siblingBytes = before.siblingBytes
        /\ \A s \in Suffixes :
               /\ Files(machine.bundles[s]) = Files(Staged)
               /\ machine.owned[s] \subseteq {e.path : e \in Staged}

(***************************************************************************)
(* The machine is changed only by the installer, only on a hosted one, and *)
(* only where nothing of this product was there: whatever fails, nothing   *)
(* that was on the machine before is replaced or removed by the test.      *)
(***************************************************************************)
NeverOverExisting ==
    [][machine' # machine => /\ hosted /\ report.started
                             /\ machine.receipts \cap Own = {}
                             /\ \A s \in Own : machine.bundles[s] = NoBundle]_receiptVars
=============================================================================
