--------------------------- MODULE StatusPublisher ---------------------------
(***************************************************************************)
(* pkg/status/publish.go: reconciling HII's records of withdrawn           *)
(* attestations with the published revocation status.                      *)
(*                                                                         *)
(* A call of Reconcile is one process.  It keeps nothing between calls:    *)
(* what it knows of the past it reads from the object store (the hint at   *)
(* status/latest.json, then the artifact the hint names).  Every call of   *)
(* the Reader, the Writer, the Appender and LogSize is a step of its own,  *)
(* and may fail; a write that fails may have taken effect.                 *)
(***************************************************************************)
EXTENDS StatusLog

CONSTANTS
  Reconcilers,  \* calls of Reconcile that may be in progress at once
  Faults,       \* the kinds of failure that may happen
  MaxFaults,    \* bound: failures in a behaviour
  MaxChanges,   \* bound: changes of HII's records
  MaxOthers     \* bound: leaves appended by others

FaultKinds ==
  {"hintGet",         \* the hint could not be read, or not be parsed
   "artifactGet",     \* the same for the artifact it names
   "logSize",         \* LogSize returned an error
   "artifactPut",     \* the artifact was not stored
   "artifactPutLost", \* it was stored, but Put returned an error
   "append",          \* the anchor was not appended
   "appendLost",      \* it was appended, but Append returned an error
   "hintPut",         \* the hint was not stored
   "hintPutLost",     \* it was stored, but Put returned an error
   "crash",           \* the process died before the anchor was appended
   "crashAnchored"}   \* it died between the anchor and the hint

ASSUME StatusPublisherAssumption ==
  /\ Faults \subseteq FaultKinds
  /\ MaxFaults \in Nat
  /\ MaxChanges \in Nat
  /\ MaxOthers \in Nat

VARIABLES
  records,      \* the attestations HII now holds withdrawn
  artifacts,    \* the object store: version -> artifact (partial function)
  hint,         \* the object at status/latest.json
  log,          \* the transparency log
  pc, input, prev, prevVersion, draft, index,  \* locals of a Reconcile call
  outcome,      \* how the last finished call of a reconciler ended
  faults, changes, others  \* what is left of the bounds

store     == <<artifacts, hint, log>>
locals    == <<prev, prevVersion, draft, index>>
bounds    == <<faults, changes, others>>
vars      == <<records, artifacts, hint, log, pc, input, prev, prevVersion,
               draft, index, outcome, faults, changes, others>>

NoHint   == [version |-> 0, index |-> 0]  \* no object at HintPath
NoDraft  == BuildArtifact({}, 0, CHOOSE s \in Stamps : TRUE)

\* A failure of kind k happens now.
Fault(k) == k \in Faults /\ faults > 0 /\ faults' = faults - 1

Move(p, from, to) == pc[p] = from /\ pc' = [pc EXCEPT ![p] = to]

\* The call returns; its locals are gone.
Return(p, from, how) ==
  /\ Move(p, from, "idle")
  /\ outcome' = [outcome EXCEPT ![p] = how]
  /\ prev' = [prev EXCEPT ![p] = {}]
  /\ prevVersion' = [prevVersion EXCEPT ![p] = 0]
  /\ draft' = [draft EXCEPT ![p] = NoDraft]
  /\ index' = [index EXCEPT ![p] = 0]
  /\ UNCHANGED input

Init ==
  /\ records = {}
  /\ artifacts = [v \in {} |-> NoDraft]
  /\ hint = NoHint
  /\ log = << >>
  /\ pc = [p \in Reconcilers |-> "idle"]
  /\ input = [p \in Reconcilers |-> {}]
  /\ prev = [p \in Reconcilers |-> {}]
  /\ prevVersion = [p \in Reconcilers |-> 0]
  /\ draft = [p \in Reconcilers |-> NoDraft]
  /\ index = [p \in Reconcilers |-> 0]
  /\ outcome = [p \in Reconcilers |-> "none"]
  /\ faults = MaxFaults
  /\ changes = MaxChanges
  /\ others = MaxOthers

----------------------------------------------------------------------------
(* The environment. *)

\* HII withdraws attestations, or reverses withdrawals.
ChangeRecords ==
  /\ changes > 0
  /\ records' \in SUBSET Subjects \ {records}
  /\ changes' = changes - 1
  /\ UNCHANGED <<store, pc, input, locals, outcome, faults, others>>

\* Leaves the publisher does not append: an attestation, or a StatusAnchor
\* signed by another key.
ForeignLeaves ==
  {OtherLeaf} \cup
  {[AnchorOf(NoDraft) EXCEPT !.issuer = k] : k \in Keys \ {Issuer}}

AppendOther ==
  /\ others > 0
  /\ \E leaf \in ForeignLeaves : log' = Append(log, leaf)
  /\ others' = others - 1
  /\ UNCHANGED <<records, artifacts, hint, pc, input, locals, outcome,
                 faults, changes>>

----------------------------------------------------------------------------
(* A call of Reconcile.  prev is {} for the code's nil and {W} for an      *)
(* artifact whose withdrawn set is W.                                      *)

\* The periodic reconciliation hands over the set HII holds now.
Call(p) ==
  /\ Move(p, "idle", "getHint")
  /\ input' = [input EXCEPT ![p] = records]
  /\ UNCHANGED <<records, store, locals, outcome, bounds>>

GetHint(p) ==
  /\ hint # NoHint
  /\ Move(p, "getHint", "getArtifact")
  /\ prevVersion' = [prevVersion EXCEPT ![p] = hint.version]
  /\ UNCHANGED <<records, store, input, prev, draft, index, outcome, bounds>>

\* No hint, an unreadable one or a malformed one: "nothing published yet".
NothingPublished(p) ==
  /\ \/ hint = NoHint /\ UNCHANGED faults
     \/ Fault("hintGet")
  /\ Move(p, "getHint", "compare")
  /\ UNCHANGED <<records, store, input, locals, outcome, changes, others>>

GetArtifact(p) ==
  /\ prevVersion[p] \in DOMAIN artifacts
  /\ Move(p, "getArtifact", "compare")
  /\ prev' = [prev EXCEPT ![p] = {artifacts[prevVersion[p]].withdrawn}]
  /\ UNCHANGED <<records, store, input, prevVersion, draft, index, outcome,
                 bounds>>

\* The artifact is gone or unreadable: its version is kept, its set is not.
MissArtifact(p) ==
  /\ \/ prevVersion[p] \notin DOMAIN artifacts /\ UNCHANGED faults
     \/ Fault("artifactGet")
  /\ Move(p, "getArtifact", "compare")
  /\ UNCHANGED <<records, store, input, locals, outcome, changes, others>>

FailLogSize(p) ==
  /\ Fault("logSize")
  /\ Return(p, "compare", "error")
  /\ UNCHANGED <<records, store, changes, others>>

\* Mutant: sameSet compares only one way.
KeepIfListed(p) ==
  /\ \E W \in prev[p] : input[p] \subseteq W
  /\ Return(p, "compare", "unchanged")
  /\ UNCHANGED <<records, store, bounds>>

\* The published set is the wanted one: nothing is written.
KeepPublished(p) ==
  /\ input[p] \in prev[p]
  /\ Return(p, "compare", "unchanged")
  /\ UNCHANGED <<records, store, bounds>>

\* Mutant: Publish does not compare the sets.
BuildAlways(p) ==
  /\ Move(p, "compare", "putArtifact")
  /\ draft' = [draft EXCEPT ![p] =
                 BuildArtifact(input[p], prevVersion[p] + 1, NoDraft.stamp)]
  /\ UNCHANGED <<records, store, input, prev, prevVersion, index, outcome,
                 bounds>>

BuildNext(p) ==
  /\ input[p] \notin prev[p]
  /\ Move(p, "compare", "putArtifact")
  /\ \E stamp \in Stamps :
       draft' = [draft EXCEPT ![p] =
                   BuildArtifact(input[p], prevVersion[p] + 1, stamp)]
  /\ UNCHANGED <<records, store, input, prev, prevVersion, index, outcome,
                 bounds>>

\* Mutant: Put keeps an object that is already there.
StoreIfAbsent(artifact) ==
  artifacts' = [v \in DOMAIN artifacts \cup {artifact.version} |->
                  IF v \in DOMAIN artifacts THEN artifacts[v] ELSE artifact]

\* Put of the object at ArtifactPath(version): it overwrites.
Store(artifact) ==
  artifacts' = [v \in DOMAIN artifacts \cup {artifact.version} |->
                  IF v = artifact.version THEN artifact ELSE artifacts[v]]

PutArtifact(p) ==
  /\ Move(p, "putArtifact", "append")
  /\ Store(draft[p])
  /\ UNCHANGED <<records, hint, log, input, locals, outcome, bounds>>

\* Mutant: the error of the artifact's Put is not looked at.
IgnorePutArtifact(p) ==
  /\ Fault("artifactPut")
  /\ Move(p, "putArtifact", "append")
  /\ UNCHANGED <<records, store, input, locals, outcome, changes, others>>

FailPutArtifact(p) ==
  /\ \/ Fault("artifactPut") /\ UNCHANGED artifacts
     \/ Fault("artifactPutLost") /\ Store(draft[p])
  /\ Return(p, "putArtifact", "error")
  /\ UNCHANGED <<records, hint, log, changes, others>>

AppendAnchor(p) ==
  /\ Move(p, "append", "putHint")
  /\ log' = Append(log, AnchorOf(draft[p]))
  /\ index' = [index EXCEPT ![p] = Len(log) + 1]
  /\ UNCHANGED <<records, artifacts, hint, input, prev, prevVersion, draft,
                 outcome, bounds>>

\* Mutant: the error of Append is not looked at.
IgnoreAppend(p) ==
  /\ Fault("append")
  /\ Move(p, "append", "putHint")
  /\ UNCHANGED <<records, store, input, locals, outcome, changes, others>>

FailAppend(p) ==
  /\ \/ Fault("append") /\ UNCHANGED log
     \/ Fault("appendLost") /\ log' = Append(log, AnchorOf(draft[p]))
  /\ Return(p, "append", "error")
  /\ UNCHANGED <<records, artifacts, hint, changes, others>>

\* Mutant: the hint carries the version Publish was given.
PreviousHint(p) == [version |-> prevVersion[p], index |-> index[p]]

NextHint(p) == [version |-> draft[p].version, index |-> index[p]]

PutHint(p) ==
  /\ Return(p, "putHint", "changed")
  /\ hint' = NextHint(p)
  /\ UNCHANGED <<records, artifacts, log, bounds>>

FailPutHint(p) ==
  /\ \/ Fault("hintPut") /\ UNCHANGED hint
     \/ Fault("hintPutLost") /\ hint' = NextHint(p)
  /\ Return(p, "putHint", "error")
  /\ UNCHANGED <<records, artifacts, log, changes, others>>

\* The process dies in the middle of a call.
Crash(p) ==
  /\ \/ Fault("crash") /\ pc[p] \notin {"idle", "putHint"}
     \/ Fault("crashAnchored") /\ pc[p] = "putHint"
  /\ Return(p, pc[p], "error")
  /\ UNCHANGED <<records, store, changes, others>>

Step(p) ==
  \/ GetHint(p) \/ NothingPublished(p)
  \/ GetArtifact(p) \/ MissArtifact(p)
  \/ FailLogSize(p) \/ KeepPublished(p) \/ BuildNext(p)
  \/ PutArtifact(p) \/ FailPutArtifact(p)
  \/ AppendAnchor(p) \/ FailAppend(p)
  \/ PutHint(p) \/ FailPutHint(p)
  \/ Crash(p)

Reconcile(p) == Call(p) \/ Step(p)

Next == ChangeRecords \/ AppendOther \/ \E p \in Reconcilers : Reconcile(p)

Spec == Init /\ [][Next]_vars

\* The reconciliation is periodic, and a call that has begun runs to its end.
\* Nothing is promised of HII's records, of other leaves or of failures.
Fairness == \A p \in Reconcilers : WF_vars(Reconcile(p))

FairSpec == Spec /\ Fairness

----------------------------------------------------------------------------
Steps == {"idle", "getHint", "getArtifact", "compare", "putArtifact",
          "append", "putHint"}

Outcomes == {"none", "changed", "unchanged", "error"}

\* Version 0 is "nothing published" (publish.go:86, 90): no artifact is stored under
\* it, no hint names it and nothing is built with it.
VersionsFromOne ==
  /\ 0 \notin DOMAIN artifacts
  /\ hint # NoHint => hint.version # 0
  /\ \A p \in Reconcilers :
       pc[p] \in {"putArtifact", "append", "putHint"} => draft[p].version # 0

Types ==
  /\ records \subseteq Subjects
  /\ DOMAIN artifacts \subseteq Nat
  /\ artifacts \in [DOMAIN artifacts -> Artifact]
  /\ hint \in [version : Nat, index : Nat]
  /\ log \in Seq(Leaf)
  /\ pc \in [Reconcilers -> Steps]
  /\ input \in [Reconcilers -> SUBSET Subjects]
  /\ prev \in [Reconcilers -> SUBSET SUBSET Subjects]
  /\ prevVersion \in [Reconcilers -> Nat]
  /\ draft \in [Reconcilers -> Artifact]
  /\ index \in [Reconcilers -> Nat]
  /\ outcome \in [Reconcilers -> Outcomes]
  /\ faults \in Nat /\ changes \in Nat /\ others \in Nat

\* Every variable holds a value the code can give it, and no version that is one is
\* taken for none.
TypeOK == Types /\ VersionsFromOne

Committed == Commits(log, Len(log))

\* "An anchor never names an object that cannot be fetched" (publish.go:132):
\* the artifact of every anchor HII committed is in the store, whatever
\* failed and however many calls overlapped.
AnchorsNameArtifacts ==
  \A i \in Committed : log[i].version \in DOMAIN artifacts

\* The hint "never points at an unanchored artifact" (publish.go:135): it
\* names the position and the version of an anchor HII committed, whatever
\* failed and however many calls overlapped.
HintNamesAnchor ==
  hint # NoHint => /\ hint.index \in Committed
                   /\ hint.version = log[hint.index].version

\* ArtifactVersion is "strictly monotonic across publications"
\* (leaf/status.go:21): the versions HII commits grow along the log.
VersionsIncrease ==
  \A i, j \in Committed : i < j => log[i].version < log[j].version

\* What is in the store under an anchored version is what the anchor commits
\* to (publish.go:16, "version-addressed artifacts are immutable").
AnchorsMatchArtifacts ==
  \A i \in Committed : /\ log[i].version \in DOMAIN artifacts
                       /\ artifacts[log[i].version] = log[i].hash

\* A call of Reconcile that returns without an error leaves the log's last
\* commitment equal to the set the call was given: HII may then tell the
\* author that the withdrawal, or its reversal, is published.
SuccessIsCommitted ==
  [][\A p \in Reconcilers :
       (pc[p] # "idle" /\ pc'[p] = "idle" /\ outcome'[p] # "error")
         => StatusAt(log', Len(log')) = input[p]]_vars

\* The log does not "fill with identical commitments" (publish.go:127): an
\* anchor is appended only for a set other than the last committed one, by a call
\* that could read the published artifact.
NoRedundantAnchor ==
  [][\A p \in Reconcilers :
       AppendAnchor(p) /\ Committed # {} /\ prev[p] # {}
         => draft[p].withdrawn # StatusAt(log, Len(log))]_vars

\* What a verifier that walks the whole log now would find: a trusted anchor
\* whose stored artifact hash-matches and lists exactly HII's records.
RecordsShown ==
  LET n == NewestIn(log, TrustedIn(log, 1..Len(log)))
  IN  /\ n # 0
      /\ log[n].version \in DOMAIN artifacts
      /\ artifacts[log[n].version] = log[n].hash
      /\ log[n].hash.withdrawn = records

\* Publication is "asynchronous and bounded" (verification-spec.md section
\* 12.4): once HII's records stop changing, verifiers come to see them, and
\* keep seeing them.
RecordsEventuallyShown == <>[]RecordsShown

----------------------------------------------------------------------------
(* The inductive invariants behind the theorems of StatusSystemProofs.  *)

\* What AnchorsNameArtifacts and HintNamesAnchor rest on: the artifact of a
\* draft is stored before its anchor, and its anchor is logged before its hint.
WriteOrderInv ==
  /\ AnchorsNameArtifacts
  /\ HintNamesAnchor
  /\ \A p \in Reconcilers :
       pc[p] = "append" => draft[p].version \in DOMAIN artifacts
  /\ \A p \in Reconcilers :
       pc[p] = "putHint" => /\ index[p] \in Committed
                            /\ log[index[p]] = AnchorOf(draft[p])

OneAtATime == \A p, q \in Reconcilers : p = q

\* The failures after which the hint still names the newest anchor.
HarmlessFaults ==
  FaultKinds \ {"hintGet", "appendLost", "hintPut", "crashAnchored"}

\* The hint has caught up with anchor i.
Announced(i) ==
  hint # NoHint /\ i <= hint.index /\ log[i].version <= hint.version

\* Anchor i is the one a call has appended and not yet announced.
BeingAnnounced(i) ==
  \E p \in Reconcilers : pc[p] = "putHint" /\ i = index[p]

\* What a single call knows of the store, step by step.
LocalsInv(p) ==
  /\ pc[p] \in {"idle", "getHint"} => prevVersion[p] = 0 /\ prev[p] = {}
  /\ pc[p] = "getArtifact" => hint # NoHint /\ prev[p] = {}
  /\ pc[p] \notin {"idle", "getHint"} => prevVersion[p] = hint.version
  /\ \A W \in prev[p] : hint # NoHint /\ W = log[hint.index].hash.withdrawn
  /\ pc[p] \in {"putArtifact", "append", "putHint"} =>
       draft[p].version = hint.version + 1 /\ draft[p].withdrawn = input[p]
  /\ pc[p] = "append" => artifacts[draft[p].version] = draft[p]
  /\ pc[p] = "putHint" => \A i \in Committed : i <= index[p]

SerialInv ==
  /\ WriteOrderInv
  /\ AnchorsMatchArtifacts
  /\ VersionsIncrease
  /\ \A i \in Committed : Announced(i) \/ BeingAnnounced(i)
  /\ \A p \in Reconcilers : LocalsInv(p)
=============================================================================
