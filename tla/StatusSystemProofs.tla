------------------------ MODULE StatusSystemProofs ------------------------
(***************************************************************************)
(* Theorems about the publisher, and about the publisher and a verifier    *)
(* together, for every value of the constants.                             *)
(***************************************************************************)
EXTENDS StatusSystem, TLAPS

----------------------------------------------------------------------------
(* Reading a log that has grown by one leaf. *)

LEMMA NoDraftType == NoDraft \in Artifact
  BY StatusLogAssumption DEF NoDraft, BuildArtifact, Artifact

LEMMA AnchorOfType ==
  ASSUME NEW artifact \in Artifact
  PROVE  AnchorOf(artifact) \in Leaf
  BY StatusLogAssumption DEF AnchorOf, Leaf, StatusAnchor, Artifact

\* Whether leaf is an anchor HII committed.
Ours(leaf) == IsAnchor(leaf) /\ leaf.issuer = Issuer

LEMMA ForeignLeafType ==
  ASSUME NEW leaf \in ForeignLeaves
  PROVE  leaf \in Leaf /\ ~Ours(leaf)
  <1>1. CASE leaf = OtherLeaf
    BY <1>1 DEF Leaf, Ours, IsAnchor, OtherLeaf
  <1>2. ASSUME NEW k \in Keys \ {Issuer},
               leaf = [AnchorOf(NoDraft) EXCEPT !.issuer = k]
        PROVE  leaf \in Leaf /\ ~Ours(leaf)
    <2>1. /\ leaf = [kind |-> "anchor", version |-> NoDraft.version,
                     hash |-> NoDraft, issuer |-> k]
          /\ NoDraft.version \in Nat
      BY <1>2, NoDraftType DEF AnchorOf, Artifact
    <2>. QED
      BY <2>1, NoDraftType DEF Leaf, StatusAnchor, Ours
  <1>. QED
    BY <1>1, <1>2 DEF ForeignLeaves

LEMMA OursAnchor ==
  ASSUME NEW artifact \in Artifact
  PROVE  Ours(AnchorOf(artifact))
  BY DEF Ours, AnchorOf, IsAnchor

LEMMA CommitsOfLonger ==
  ASSUME NEW lg \in Seq(Leaf), NEW leaf \in Leaf
  PROVE  LET longer == Append(lg, leaf)
         IN  /\ Len(longer) = Len(lg) + 1
             /\ longer[Len(lg) + 1] = leaf
             /\ \A i \in 1..Len(lg) : longer[i] = lg[i]
             /\ Commits(lg, Len(lg)) \subseteq Commits(longer, Len(longer))
             /\ \A i \in Commits(longer, Len(longer)) :
                  \/ i \in Commits(lg, Len(lg))
                  \/ i = Len(lg) + 1 /\ Ours(leaf)
             /\ Ours(leaf) => Len(lg) + 1 \in Commits(longer, Len(longer))
  BY DEF Commits, Ours

----------------------------------------------------------------------------
(* Type correctness. *)

LEMMA InitTypeOK == Init => TypeOK
  BY NoDraftType, StatusPublisherAssumption
  DEF Init, TypeOK, Types, VersionsFromOne, NoHint, Steps, Outcomes

LEMMA ReturnTypeOK ==
  ASSUME TypeOK, NEW p \in Reconcilers, NEW from, NEW how \in Outcomes,
         Return(p, from, how)
  PROVE  /\ pc' \in [Reconcilers -> Steps]
         /\ input' \in [Reconcilers -> SUBSET Subjects]
         /\ prev' \in [Reconcilers -> SUBSET SUBSET Subjects]
         /\ prevVersion' \in [Reconcilers -> Nat]
         /\ draft' \in [Reconcilers -> Artifact]
         /\ index' \in [Reconcilers -> Nat]
         /\ outcome' \in [Reconcilers -> Outcomes]
  BY NoDraftType DEF TypeOK, Types, Return, Move, Steps

LEMMA StoreTypeOK ==
  ASSUME TypeOK, NEW artifact \in Artifact, Store(artifact)
  PROVE  /\ DOMAIN artifacts' = DOMAIN artifacts \cup {artifact.version}
         /\ DOMAIN artifacts' \subseteq Nat
         /\ artifacts' \in [DOMAIN artifacts' -> Artifact]
         /\ artifacts'[artifact.version] = artifact
         /\ \A v \in DOMAIN artifacts \ {artifact.version} :
              artifacts'[v] = artifacts[v]
  <1>1. artifact.version \in Nat
    BY DEF Artifact
  <1>. QED
    BY <1>1 DEF TypeOK, Types, Store

LEMMA FaultTypeOK ==
  ASSUME TypeOK, NEW k, Fault(k)
  PROVE  faults' \in Nat
  BY DEF TypeOK, Types, Fault

LEMMA NextTypes ==
  ASSUME TypeOK, [Next]_vars
  PROVE  Types'
  <1>1. CASE ChangeRecords
    BY <1>1 DEF ChangeRecords, TypeOK, Types, store, locals
  <1>2. CASE AppendOther
    BY <1>2, ForeignLeafType DEF AppendOther, TypeOK, Types, locals
  <1>3. ASSUME NEW p \in Reconcilers, Reconcile(p)
        PROVE  Types'
    <2>. USE <1>3
    <2>1. CASE Call(p)
      BY <2>1 DEF Call, Move, TypeOK, Types, store, locals, bounds, Steps
    <2>2. CASE GetHint(p)
      BY <2>2 DEF GetHint, Move, TypeOK, Types, store, bounds, Steps
    <2>3. CASE NothingPublished(p)
      BY <2>3, FaultTypeOK DEF NothingPublished, Move, TypeOK, Types, store, locals, Steps
    <2>4. CASE GetArtifact(p)
      <3>1. artifacts[prevVersion[p]].withdrawn \in SUBSET Subjects
        BY <2>4 DEF GetArtifact, TypeOK, Types, Artifact
      <3>. QED
        BY <2>4, <3>1 DEF GetArtifact, Move, TypeOK, Types, store, bounds, Steps
    <2>5. CASE MissArtifact(p)
      BY <2>5, FaultTypeOK DEF MissArtifact, Move, TypeOK, Types, store, locals, Steps
    <2>6. CASE FailLogSize(p)
      BY <2>6, FaultTypeOK, ReturnTypeOK DEF FailLogSize, TypeOK, Types, store, Outcomes
    <2>7. CASE KeepPublished(p)
      BY <2>7, ReturnTypeOK DEF KeepPublished, TypeOK, Types, store, bounds, Outcomes
    <2>8. CASE BuildNext(p)
      <3>1. \A s \in Stamps :
              BuildArtifact(input[p], prevVersion[p] + 1, s) \in Artifact
        BY DEF TypeOK, Types, BuildArtifact, Artifact
      <3>. QED
        BY <2>8, <3>1 DEF BuildNext, Move, TypeOK, Types, store, bounds, Steps
    <2>9. CASE PutArtifact(p)
      <3>1. /\ DOMAIN artifacts' \subseteq Nat
            /\ artifacts' \in [DOMAIN artifacts' -> Artifact]
        BY <2>9, StoreTypeOK DEF PutArtifact, TypeOK, Types
      <3>2. pc' \in [Reconcilers -> Steps]
        BY <2>9 DEF PutArtifact, Move, TypeOK, Types, Steps
      <3>. QED
        BY <2>9, <3>1, <3>2 DEF PutArtifact, TypeOK, Types, locals, bounds
    <2>10. CASE FailPutArtifact(p)
      <3>1. /\ DOMAIN artifacts' \subseteq Nat
            /\ artifacts' \in [DOMAIN artifacts' -> Artifact]
        BY <2>10, StoreTypeOK DEF FailPutArtifact, TypeOK, Types
      <3>2. faults' \in Nat
        BY <2>10, FaultTypeOK DEF FailPutArtifact
      <3>. QED
        BY <2>10, <3>1, <3>2, ReturnTypeOK DEF FailPutArtifact, TypeOK, Types, Outcomes
    <2>11. CASE AppendAnchor(p)
      <3>1. AnchorOf(draft[p]) \in Leaf
        BY AnchorOfType DEF TypeOK, Types
      <3>. QED
        BY <2>11, <3>1 DEF AppendAnchor, Move, TypeOK, Types, bounds, Steps
    <2>12. CASE FailAppend(p)
      <3>1. AnchorOf(draft[p]) \in Leaf
        BY AnchorOfType DEF TypeOK, Types
      <3>2. log' \in Seq(Leaf)
        <4>1. log' = log \/ log' = Append(log, AnchorOf(draft[p]))
          BY <2>12 DEF FailAppend
        <4>2. CASE log' = log
          BY <4>2 DEF TypeOK, Types
        <4>3. CASE log' = Append(log, AnchorOf(draft[p]))
          BY <3>1, <4>3 DEF TypeOK, Types
        <4>. QED
          BY <4>1, <4>2, <4>3
      <3>3. faults' \in Nat
        BY <2>12, FaultTypeOK DEF FailAppend
      <3>. QED
        BY <2>12, <3>2, <3>3, ReturnTypeOK DEF FailAppend, TypeOK, Types, Outcomes
    <2>13. CASE PutHint(p)
      <3>1. NextHint(p) \in [version : Nat, index : Nat]
        BY DEF NextHint, TypeOK, Types, Artifact
      <3>. QED
        BY <2>13, <3>1, ReturnTypeOK DEF PutHint, TypeOK, Types, bounds, Outcomes
    <2>14. CASE FailPutHint(p)
      <3>1. NextHint(p) \in [version : Nat, index : Nat]
        BY DEF NextHint, TypeOK, Types, Artifact
      <3>. QED
        BY <2>14, <3>1, ReturnTypeOK, FaultTypeOK DEF FailPutHint, TypeOK, Types, Outcomes
    <2>15. CASE Crash(p)
      BY <2>15, ReturnTypeOK, FaultTypeOK DEF Crash, TypeOK, Types, store, Outcomes
    <2>. QED
      BY <2>1, <2>2, <2>3, <2>4, <2>5, <2>6, <2>7, <2>8, <2>9, <2>10, <2>11,
         <2>12, <2>13, <2>14, <2>15 DEF Reconcile, Step
  <1>4. CASE UNCHANGED vars
    BY <1>4 DEF vars, TypeOK, Types
  <1>. QED
    BY <1>1, <1>2, <1>3, <1>4 DEF Next

(* Version 0 stays free for "nothing published". *)

\* The calls other than p keep their locals.
OnlyMoves(p) ==
  \A q \in Reconcilers \ {p} :
    /\ pc'[q] = pc[q] /\ prev'[q] = prev[q] /\ input'[q] = input[q]
    /\ prevVersion'[q] = prevVersion[q]
    /\ draft'[q] = draft[q] /\ index'[q] = index[q]

Writing == {"putArtifact", "append", "putHint"}

LEMMA FromOneKept ==
  ASSUME VersionsFromOne, NEW p \in Reconcilers, OnlyMoves(p),
         artifacts' = artifacts \/ (pc[p] = "putArtifact" /\ Store(draft[p])),
         hint' = hint \/ (pc[p] = "putHint" /\ hint' = NextHint(p)),
         pc'[p] \in Writing => draft'[p].version # 0
  PROVE  VersionsFromOne'
  <1>1. 0 \notin DOMAIN artifacts'
    <2>1. CASE artifacts' = artifacts
      BY <2>1 DEF VersionsFromOne
    <2>2. CASE pc[p] = "putArtifact" /\ Store(draft[p])
      BY <2>2 DEF VersionsFromOne, Store
    <2> QED
      BY <2>1, <2>2
  <1>2. hint' # NoHint => hint'.version # 0
    BY DEF VersionsFromOne, NextHint, NoHint
  <1>3. \A q \in Reconcilers : pc'[q] \in Writing => draft'[q].version # 0
    BY DEF VersionsFromOne, OnlyMoves, Writing
  <1> QED
    BY <1>1, <1>2, <1>3 DEF VersionsFromOne, Writing

LEMMA NextFromOne ==
  ASSUME TypeOK, [Next]_vars
  PROVE  VersionsFromOne'
  <1>0. VersionsFromOne
    BY DEF TypeOK
  <1>1. CASE ChangeRecords \/ AppendOther \/ UNCHANGED vars
    BY <1>0, <1>1 DEF ChangeRecords, AppendOther, vars, store, locals, VersionsFromOne
  <1>2. ASSUME NEW p \in Reconcilers, Reconcile(p)
        PROVE  VersionsFromOne'
    <2>1. OnlyMoves(p)
      BY <1>2 DEF TypeOK, Types, OnlyMoves, Reconcile, Call, Step, GetHint,
         NothingPublished, GetArtifact, MissArtifact, FailLogSize, KeepPublished, BuildNext,
         PutArtifact, FailPutArtifact, AppendAnchor, FailAppend, PutHint, FailPutHint, Crash,
         Return, Move, store, locals
    <2>2. artifacts' = artifacts \/ (pc[p] = "putArtifact" /\ Store(draft[p]))
      BY <1>2 DEF Reconcile, Call, Step, GetHint, NothingPublished, GetArtifact,
         MissArtifact, FailLogSize, KeepPublished, BuildNext, PutArtifact, FailPutArtifact,
         AppendAnchor, FailAppend, PutHint, FailPutHint, Crash, Return, Move, store
    <2>3. hint' = hint \/ (pc[p] = "putHint" /\ hint' = NextHint(p))
      BY <1>2 DEF Reconcile, Call, Step, GetHint, NothingPublished, GetArtifact,
         MissArtifact, FailLogSize, KeepPublished, BuildNext, PutArtifact, FailPutArtifact,
         AppendAnchor, FailAppend, PutHint, FailPutHint, Crash, Return, Move, store
    <2>4. pc'[p] \in Writing => draft'[p].version # 0
      <3>1. CASE BuildNext(p)
        <4>1. PICK stamp \in Stamps :
                draft' = [draft EXCEPT ![p] =
                            BuildArtifact(input[p], prevVersion[p] + 1, stamp)]
          BY <3>1 DEF BuildNext
        <4>2. draft'[p].version = prevVersion[p] + 1
          BY <4>1 DEF TypeOK, Types, BuildArtifact
        <4>3. prevVersion[p] \in Nat
          BY DEF TypeOK, Types
        <4> QED
          BY <4>2, <4>3
      <3>2. CASE PutArtifact(p) \/ AppendAnchor(p)
        BY <1>0, <3>2 DEF PutArtifact, AppendAnchor, Move, locals, VersionsFromOne, Writing
      <3>3. CASE ~BuildNext(p) /\ ~PutArtifact(p) /\ ~AppendAnchor(p)
        <4>1. pc'[p] \notin Writing
          BY <1>2, <3>3 DEF TypeOK, Types, Reconcile, Call, Step, GetHint, NothingPublished,
             GetArtifact, MissArtifact, FailLogSize, KeepPublished, FailPutArtifact,
             FailAppend, PutHint, FailPutHint, Crash, Return, Move, Writing
        <4> QED
          BY <4>1
      <3> QED
        BY <3>1, <3>2, <3>3
    <2> QED
      BY <1>0, <2>1, <2>2, <2>3, <2>4, FromOneKept
  <1> QED
    BY <1>1, <1>2 DEF Next

LEMMA NextTypeOK == TypeOK /\ [Next]_vars => TypeOK'
  BY NextTypes, NextFromOne DEF TypeOK

\* Every variable keeps the type the code gives it, and version 0 keeps meaning that
\* nothing is published.
THEOREM TypeCorrect == Spec => []TypeOK
  BY InitTypeOK, NextTypeOK, PTL DEF Spec

----------------------------------------------------------------------------
(* What each step does, without the detail: the lemmas below let the       *)
(* invariance proofs treat alike the steps that differ only in that.       *)

LEMMA ReturnEffect ==
  ASSUME TypeOK, NEW p \in Reconcilers, NEW from, NEW how, Return(p, from, how)
  PROVE  /\ OnlyMoves(p)
         /\ pc[p] = from /\ pc'[p] = "idle"
         /\ prev'[p] = {} /\ prevVersion'[p] = 0
         /\ outcome'[p] = how
  BY DEF TypeOK, Types, Return, Move, OnlyMoves

LEMMA LogGrows ==
  ASSUME TypeOK, NEW leaf \in Leaf, log' = Append(log, leaf)
  PROVE  /\ Len(log') = Len(log) + 1
         /\ log'[Len(log) + 1] = leaf
         /\ \A i \in Committed : log'[i] = log[i]
         /\ Committed \subseteq Committed'
         /\ \A i \in Committed' : \/ i \in Committed
                                  \/ i = Len(log) + 1 /\ Ours(leaf)
         /\ Ours(leaf) => Len(log) + 1 \in Committed'
         /\ \A i \in Committed : i \in Nat /\ i <= Len(log)
  <1>1. log \in Seq(Leaf)
    BY DEF TypeOK, Types
  <1>2. Committed \subseteq 1..Len(log)
    BY DEF Committed, Commits
  <1>. QED
    BY <1>1, <1>2, CommitsOfLonger DEF Committed

----------------------------------------------------------------------------
(* The write order: artifact, anchor, hint.  It holds for every set of     *)
(* faults and any number of overlapping calls.                             *)

LEMMA InitWriteOrder == Init => WriteOrderInv
  BY DEF Init, WriteOrderInv, AnchorsNameArtifacts, HintNamesAnchor, Committed,
         Commits, NoHint

\* A step of p that writes nothing and neither reaches nor leaves the writes.
LEMMA QuietWriteOrder ==
  ASSUME WriteOrderInv, UNCHANGED store, NEW p \in Reconcilers, OnlyMoves(p),
         pc'[p] \notin {"append", "putHint"}
  PROVE  WriteOrderInv'
  BY DEF WriteOrderInv, AnchorsNameArtifacts, HintNamesAnchor, Committed,
         OnlyMoves, store

LEMMA StoreWriteOrder ==
  ASSUME TypeOK, WriteOrderInv, NEW p \in Reconcilers, Store(draft[p]),
         UNCHANGED <<hint, log>>, OnlyMoves(p), pc'[p] # "putHint",
         pc'[p] = "append" => draft'[p] = draft[p]
  PROVE  WriteOrderInv'
  <1>1. /\ DOMAIN artifacts \subseteq DOMAIN artifacts'
        /\ draft[p].version \in DOMAIN artifacts'
    BY StoreTypeOK DEF TypeOK, Types
  <1>. QED
    BY <1>1 DEF WriteOrderInv, AnchorsNameArtifacts, HintNamesAnchor, Committed,
                OnlyMoves

\* The anchor of p's stored draft enters the log.
LEMMA AppendWriteOrder ==
  ASSUME TypeOK, WriteOrderInv, NEW p \in Reconcilers, pc[p] = "append",
         log' = Append(log, AnchorOf(draft[p])), UNCHANGED <<artifacts, hint>>,
         OnlyMoves(p), pc'[p] # "append",
         pc'[p] = "putHint" => /\ index'[p] = Len(log) + 1
                               /\ draft'[p] = draft[p]
  PROVE  WriteOrderInv'
  <1>1. AnchorOf(draft[p]) \in Leaf /\ Ours(AnchorOf(draft[p]))
    BY AnchorOfType, OursAnchor DEF TypeOK, Types
  <1>2. AnchorOf(draft[p]).version = draft[p].version
    BY DEF AnchorOf
  <1>3. AnchorsNameArtifacts'
    BY <1>1, <1>2, LogGrows DEF WriteOrderInv, AnchorsNameArtifacts
  <1>4. HintNamesAnchor'
    BY <1>1, LogGrows DEF WriteOrderInv, HintNamesAnchor
  <1>5. \A q \in Reconcilers :
          pc'[q] = "append" => draft'[q].version \in DOMAIN artifacts'
    BY DEF WriteOrderInv, OnlyMoves
  <1>6. ASSUME NEW q \in Reconcilers, pc'[q] = "putHint"
        PROVE  index'[q] \in Committed' /\ log'[index'[q]] = AnchorOf(draft'[q])
    <2>1. /\ Committed \subseteq Committed'
          /\ Len(log) + 1 \in Committed'
          /\ log'[Len(log) + 1] = AnchorOf(draft[p])
          /\ \A i \in Committed : log'[i] = log[i]
      BY <1>1, LogGrows
    <2>2. CASE q = p
      BY <1>6, <2>1, <2>2
    <2>3. CASE q # p
      <3>1. pc[q] = "putHint" /\ index'[q] = index[q] /\ draft'[q] = draft[q]
        BY <1>6, <2>3 DEF OnlyMoves
      <3>. QED
        BY <2>1, <3>1 DEF WriteOrderInv
    <2>. QED
      BY <2>2, <2>3
  <1>. QED
    BY <1>3, <1>4, <1>5, <1>6 DEF WriteOrderInv

LEMMA HintWriteOrder ==
  ASSUME TypeOK, WriteOrderInv, NEW p \in Reconcilers, pc[p] = "putHint",
         hint' = NextHint(p), UNCHANGED <<artifacts, log>>, OnlyMoves(p),
         pc'[p] = "idle"
  PROVE  WriteOrderInv'
  <1>1. /\ hint'.index \in Committed'
        /\ hint'.version = log'[hint'.index].version
    <2>1. index[p] \in Committed /\ log[index[p]] = AnchorOf(draft[p])
      BY DEF WriteOrderInv
    <2>2. hint'.version = draft[p].version /\ hint'.index = index[p]
      BY DEF NextHint
    <2>3. AnchorOf(draft[p]).version = draft[p].version
      BY DEF AnchorOf
    <2>. QED
      BY <2>1, <2>2, <2>3 DEF Committed
  <1>. QED
    BY <1>1 DEF WriteOrderInv, AnchorsNameArtifacts, HintNamesAnchor, Committed,
                OnlyMoves

LEMMA ForeignWriteOrder ==
  ASSUME TypeOK, WriteOrderInv, AppendOther
  PROVE  WriteOrderInv'
  <1>1. PICK leaf \in ForeignLeaves : log' = Append(log, leaf)
    BY DEF AppendOther
  <1>2. leaf \in Leaf /\ ~Ours(leaf)
    BY ForeignLeafType
  <1>3. Committed' = Committed /\ \A i \in Committed : log'[i] = log[i]
    BY <1>1, <1>2, LogGrows
  <1>. QED
    BY <1>3 DEF AppendOther, locals, WriteOrderInv, AnchorsNameArtifacts,
                HintNamesAnchor

LEMMA StepWriteOrder ==
  ASSUME TypeOK, WriteOrderInv, NEW p \in Reconcilers, Reconcile(p)
  PROVE  WriteOrderInv'
  <1>1. CASE \/ Call(p) \/ GetHint(p) \/ NothingPublished(p)
             \/ GetArtifact(p) \/ MissArtifact(p) \/ BuildNext(p)
    <2>1. /\ UNCHANGED store /\ OnlyMoves(p)
          /\ pc'[p] \notin {"append", "putHint"}
      BY <1>1 DEF Call, GetHint, NothingPublished, GetArtifact, MissArtifact,
                  BuildNext, Move, TypeOK, Types, OnlyMoves, locals
    <2>. QED
      BY <2>1, QuietWriteOrder
  <1>2. CASE FailLogSize(p) \/ KeepPublished(p) \/ Crash(p)
    <2>1. /\ UNCHANGED store /\ OnlyMoves(p)
          /\ pc'[p] = "idle"
      BY <1>2, ReturnEffect DEF FailLogSize, KeepPublished, Crash
    <2>. QED
      BY <2>1, QuietWriteOrder
  <1>3. CASE PutArtifact(p)
    <2>1. OnlyMoves(p) /\ pc'[p] = "append" /\ draft'[p] = draft[p]
      BY <1>3 DEF PutArtifact, Move, TypeOK, Types, OnlyMoves, locals
    <2>. QED
      BY <1>3, <2>1, StoreWriteOrder DEF PutArtifact
  <1>4. CASE FailPutArtifact(p)
    <2>1. OnlyMoves(p) /\ pc'[p] = "idle" /\ UNCHANGED <<hint, log>>
      BY <1>4, ReturnEffect DEF FailPutArtifact
    <2>2. UNCHANGED artifacts \/ Store(draft[p])
      BY <1>4 DEF FailPutArtifact
    <2>. QED
      BY <2>1, <2>2, StoreWriteOrder, QuietWriteOrder DEF store
  <1>5. CASE AppendAnchor(p)
    <2>1. /\ OnlyMoves(p) /\ pc[p] = "append" /\ pc'[p] = "putHint"
          /\ draft'[p] = draft[p] /\ index'[p] = Len(log) + 1
      BY <1>5 DEF AppendAnchor, Move, TypeOK, Types, OnlyMoves
    <2>. QED
      BY <1>5, <2>1, AppendWriteOrder DEF AppendAnchor
  <1>6. CASE FailAppend(p)
    <2>1. /\ OnlyMoves(p) /\ pc[p] = "append" /\ pc'[p] = "idle"
          /\ UNCHANGED <<artifacts, hint>>
      BY <1>6, ReturnEffect DEF FailAppend
    <2>2. UNCHANGED log \/ log' = Append(log, AnchorOf(draft[p]))
      BY <1>6 DEF FailAppend
    <2>. QED
      BY <2>1, <2>2, AppendWriteOrder, QuietWriteOrder DEF store
  <1>7. CASE PutHint(p) \/ FailPutHint(p)
    <2>1. /\ OnlyMoves(p) /\ pc[p] = "putHint" /\ pc'[p] = "idle"
          /\ UNCHANGED <<artifacts, log>>
      BY <1>7, ReturnEffect DEF PutHint, FailPutHint
    <2>2. UNCHANGED hint \/ hint' = NextHint(p)
      BY <1>7 DEF PutHint, FailPutHint
    <2>. QED
      BY <2>1, <2>2, HintWriteOrder, QuietWriteOrder DEF store
  <1>. QED
    BY <1>1, <1>2, <1>3, <1>4, <1>5, <1>6, <1>7 DEF Reconcile, Step

LEMMA NextWriteOrder == TypeOK /\ WriteOrderInv /\ [Next]_vars => WriteOrderInv'
  <1> SUFFICES ASSUME TypeOK, WriteOrderInv, [Next]_vars
               PROVE  WriteOrderInv'
    OBVIOUS
  <1>1. CASE ChangeRecords
    BY <1>1 DEF ChangeRecords, store, locals, WriteOrderInv,
                AnchorsNameArtifacts, HintNamesAnchor, Committed
  <1>2. CASE UNCHANGED vars
    BY <1>2 DEF vars, WriteOrderInv, AnchorsNameArtifacts, HintNamesAnchor,
                Committed
  <1>. QED
    BY <1>1, <1>2, ForeignWriteOrder, StepWriteOrder DEF Next

LEMMA WriteOrder == Spec => []WriteOrderInv
  BY InitWriteOrder, NextWriteOrder, TypeCorrect, PTL DEF Spec

\* publish.go:132, whatever fails and however many calls overlap: the object
\* an anchor names is in the store.
THEOREM AnchorsAlwaysFetchable == Spec => []AnchorsNameArtifacts
  BY WriteOrder, PTL DEF WriteOrderInv

\* publish.go:135, whatever fails and however many calls overlap: the hint
\* points at an anchor that is in the log.
THEOREM HintAlwaysAnchored == Spec => []HintNamesAnchor
  BY WriteOrder, PTL DEF WriteOrderInv

----------------------------------------------------------------------------
(* One call at a time, and failures that leave the hint at the newest      *)
(* anchor: the versions grow along the log, and the store holds exactly    *)
(* what the log commits to.                                                *)

Serial == OneAtATime /\ Faults \subseteq HarmlessFaults

LEMMA NoHarmfulFault ==
  ASSUME Serial, NEW k, Fault(k)
  PROVE  k \notin {"hintGet", "appendLost", "hintPut", "crashAnchored"}
  BY DEF Serial, HarmlessFaults, Fault

LEMMA InitSerial == Init => SerialInv
  BY InitWriteOrder
  DEF Init, SerialInv, AnchorsMatchArtifacts, VersionsIncrease, Committed,
      Commits, LocalsInv

\* With one call p, what holds of p holds of every call.
LEMMA Alone ==
  ASSUME Serial, NEW p \in Reconcilers
  PROVE  /\ LocalsInv(p) => \A q \in Reconcilers : LocalsInv(q)
         /\ LocalsInv(p)' => \A q \in Reconcilers : LocalsInv(q)'
         /\ \A i : BeingAnnounced(i) <=> pc[p] = "putHint" /\ i = index[p]
         /\ \A i : BeingAnnounced(i)' <=> pc'[p] = "putHint" /\ i = index'[p]
  BY DEF Serial, OneAtATime, BeingAnnounced

LEMMA AllAnnounced ==
  ASSUME Serial, SerialInv, NEW p \in Reconcilers, pc[p] # "putHint"
  PROVE  \A i \in Committed : Announced(i)
  BY Alone DEF SerialInv

\* A step that writes nothing, away from the announcement of an anchor.
LEMMA QuietSerial ==
  ASSUME Serial, SerialInv, WriteOrderInv', UNCHANGED store,
         NEW p \in Reconcilers, pc[p] # "putHint", LocalsInv(p)'
  PROVE  SerialInv'
  <1>1. \A i \in Committed : Announced(i)
    BY AllAnnounced
  <1>2. \A i \in Committed' : Announced(i)'
    BY <1>1 DEF Announced, Committed, store
  <1>. QED
    BY <1>2, Alone DEF SerialInv, AnchorsMatchArtifacts, VersionsIncrease,
                       Committed, store

\* A call that has returned holds nothing that could be wrong.
LEMMA ReturnLocals ==
  ASSUME TypeOK, NEW p \in Reconcilers, NEW from, NEW how, Return(p, from, how)
  PROVE  LocalsInv(p)'
  BY ReturnEffect DEF LocalsInv

LEMMA ReadSerial ==
  ASSUME Serial, TypeOK, SerialInv, WriteOrderInv', NEW p \in Reconcilers,
         \/ Call(p) \/ GetHint(p) \/ NothingPublished(p)
         \/ GetArtifact(p) \/ MissArtifact(p) \/ BuildNext(p)
  PROVE  SerialInv'
  <1>. USE DEF Move
  <1>0. LocalsInv(p)
    BY DEF SerialInv
  <1>1. CASE Call(p)
    <2>1. LocalsInv(p)'
      BY <1>0, <1>1 DEF Call, LocalsInv, TypeOK, Types, locals, store
    <2>. QED
      BY <1>1, <2>1, QuietSerial DEF Call
  <1>2. CASE GetHint(p)
    <2>1. LocalsInv(p)'
      BY <1>0, <1>2 DEF GetHint, LocalsInv, TypeOK, Types, store
    <2>. QED
      BY <1>2, <2>1, QuietSerial DEF GetHint
  <1>3. CASE NothingPublished(p)
    <2>1. hint = NoHint
      BY <1>3, NoHarmfulFault DEF NothingPublished
    <2>2. LocalsInv(p)'
      BY <1>0, <1>3, <2>1 DEF NothingPublished, LocalsInv, TypeOK, Types, locals, store,
                              NoHint
    <2>. QED
      BY <1>3, <2>2, QuietSerial DEF NothingPublished
  <1>4. CASE GetArtifact(p)
    <2>1. /\ hint # NoHint /\ prevVersion[p] = hint.version
          /\ hint.index \in Committed
          /\ hint.version = log[hint.index].version
      BY <1>0, <1>4 DEF GetArtifact, LocalsInv, SerialInv, WriteOrderInv,
                        HintNamesAnchor
    <2>2. artifacts[prevVersion[p]] = log[hint.index].hash
      BY <2>1 DEF SerialInv, AnchorsMatchArtifacts
    <2>3. LocalsInv(p)'
      BY <1>0, <1>4, <2>1, <2>2 DEF GetArtifact, LocalsInv, TypeOK, Types, store
    <2>. QED
      BY <1>4, <2>3, QuietSerial DEF GetArtifact
  <1>5. CASE MissArtifact(p)
    <2>1. LocalsInv(p)'
      BY <1>0, <1>5 DEF MissArtifact, LocalsInv, TypeOK, Types, locals, store
    <2>. QED
      BY <1>5, <2>1, QuietSerial DEF MissArtifact
  <1>6. CASE BuildNext(p)
    <2>1. /\ draft'[p].version = hint.version + 1
          /\ draft'[p].withdrawn = input[p]
      BY <1>0, <1>6 DEF BuildNext, LocalsInv, TypeOK, Types, BuildArtifact
    <2>2. LocalsInv(p)'
      BY <1>0, <1>6, <2>1 DEF BuildNext, LocalsInv, TypeOK, Types, store
    <2>. QED
      BY <1>6, <2>2, QuietSerial DEF BuildNext
  <1>. QED
    BY <1>1, <1>2, <1>3, <1>4, <1>5, <1>6

\* The store gains the next version, which no anchor names yet.
LEMMA StoreSerial ==
  ASSUME Serial, TypeOK, SerialInv, WriteOrderInv', NEW p \in Reconcilers,
         pc[p] = "putArtifact", Store(draft[p]), UNCHANGED <<hint, log>>,
         LocalsInv(p)'
  PROVE  SerialInv'
  <1>1. \A i \in Committed : Announced(i)
    BY AllAnnounced
  <1>2. draft[p].version = hint.version + 1 /\ hint.version \in Nat
    BY DEF SerialInv, LocalsInv, TypeOK, Types
  <1>3. \A i \in Committed : log[i].version # draft[p].version
    <2>1. \A i \in Committed : log[i].version \in Nat
      BY DEF SerialInv, AnchorsMatchArtifacts, TypeOK, Types
    <2>. QED
      BY <1>1, <1>2, <2>1 DEF Announced
  <1>4. AnchorsMatchArtifacts'
    <2>1. draft[p] \in Artifact
      BY DEF TypeOK, Types
    <2>2. /\ DOMAIN artifacts \subseteq DOMAIN artifacts'
          /\ \A v \in DOMAIN artifacts \ {draft[p].version} :
               artifacts'[v] = artifacts[v]
      BY <2>1, StoreTypeOK
    <2>. QED
      BY <1>3, <2>2 DEF SerialInv, AnchorsMatchArtifacts, Committed
  <1>. QED
    BY <1>1, <1>4, Alone DEF SerialInv, VersionsIncrease, Committed, Announced

\* The anchor of the next version enters the log.
LEMMA AppendSerial ==
  ASSUME Serial, TypeOK, SerialInv, WriteOrderInv', NEW p \in Reconcilers,
         AppendAnchor(p)
  PROVE  SerialInv'
  <1>. DEFINE new == Len(log) + 1
  <1>1. /\ pc[p] = "append" /\ pc'[p] = "putHint" /\ index'[p] = new
        /\ draft'[p] = draft[p] /\ input'[p] = input[p] /\ prev'[p] = prev[p]
        /\ prevVersion'[p] = prevVersion[p]
        /\ artifacts' = artifacts /\ hint' = hint
    BY DEF AppendAnchor, Move, TypeOK, Types
  <1>2. /\ LocalsInv(p)
        /\ \A i \in Committed : Announced(i)
    BY <1>1, AllAnnounced DEF SerialInv
  <1>3. /\ Committed \subseteq Committed'
        /\ \A i \in Committed : log'[i] = log[i] /\ i \in Nat /\ i < new
        /\ \A i \in Committed' : i \in Committed \/ i = new
        /\ log'[new] = AnchorOf(draft[p])
        /\ new \in Nat
    <2>1. AnchorOf(draft[p]) \in Leaf
      BY AnchorOfType DEF TypeOK, Types
    <2>2. Len(log) \in Nat
      BY DEF TypeOK, Types
    <2>3. log' = Append(log, AnchorOf(draft[p]))
      BY DEF AppendAnchor
    <2>4. /\ log'[Len(log) + 1] = AnchorOf(draft[p])
          /\ \A i \in Committed : log'[i] = log[i]
          /\ Committed \subseteq Committed'
          /\ \A i \in Committed' : i \in Committed \/ i = Len(log) + 1
          /\ \A i \in Committed : i \in Nat /\ i <= Len(log)
      BY <2>1, <2>3, LogGrows
    <2>. QED
      BY <2>2, <2>4
  <1>4. /\ log'[new].version = draft[p].version
        /\ log'[new].hash = draft[p]
        /\ draft[p].version = hint.version + 1
        /\ hint.version \in Nat
    BY <1>1, <1>2, <1>3 DEF AnchorOf, LocalsInv, TypeOK, Types
  <1>5. \A i \in Committed : log[i].version \in Nat /\ log[i].version <= hint.version
    BY <1>2 DEF Announced, SerialInv, AnchorsMatchArtifacts, TypeOK, Types
  <1>6. AnchorsMatchArtifacts'
    <2>1. /\ draft[p].version \in DOMAIN artifacts
          /\ artifacts[draft[p].version] = draft[p]
      BY <1>1, <1>2 DEF LocalsInv, SerialInv, WriteOrderInv
    <2>. QED
      BY <1>1, <1>3, <1>4, <2>1 DEF SerialInv, AnchorsMatchArtifacts
  <1>7. VersionsIncrease'
    BY <1>3, <1>4, <1>5 DEF SerialInv, VersionsIncrease
  <1>8. \A i \in Committed' : Announced(i)' \/ BeingAnnounced(i)'
    BY <1>1, <1>2, <1>3, Alone DEF Announced
  <1>9. LocalsInv(p)'
    <2>1. hint # NoHint => log'[hint.index] = log[hint.index]
      BY <1>3 DEF SerialInv, WriteOrderInv, HintNamesAnchor
    <2>2. \A i \in Committed' : i <= index'[p]
      BY <1>1, <1>3
    <2>. QED
      BY <1>1, <1>2, <2>1, <2>2 DEF LocalsInv
  <1>. QED
    BY <1>6, <1>7, <1>8, <1>9, Alone DEF SerialInv

\* The hint catches up with the anchor just appended.
LEMMA AnnounceSerial ==
  ASSUME Serial, TypeOK, SerialInv, WriteOrderInv', NEW p \in Reconcilers,
         pc[p] = "putHint", hint' = NextHint(p), UNCHANGED <<artifacts, log>>,
         pc'[p] = "idle", LocalsInv(p)'
  PROVE  SerialInv'
  <1>1. /\ hint'.version = draft[p].version /\ hint'.index = index[p]
        /\ log[index[p]].version = draft[p].version
        /\ draft[p].version = hint.version + 1
        /\ hint.version \in Nat
        /\ \A i \in Committed : i <= index[p]
    <2>1. LocalsInv(p) /\ log[index[p]] = AnchorOf(draft[p])
      BY DEF SerialInv, WriteOrderInv
    <2>2. AnchorOf(draft[p]).version = draft[p].version
      BY DEF AnchorOf
    <2>. QED
      BY <2>1, <2>2 DEF NextHint, LocalsInv, TypeOK, Types
  <1>2. hint' # NoHint
    BY <1>1 DEF NoHint
  <1>3. \A i \in Committed : log[i].version \in Nat
    BY DEF SerialInv, AnchorsMatchArtifacts, TypeOK, Types
  <1>4. \A i \in Committed : Announced(i)'
    <2>1. \A i \in Committed : Announced(i) \/ i = index[p]
      BY Alone DEF SerialInv
    <2>. QED
      BY <1>1, <1>2, <1>3, <2>1 DEF Announced
  <1>. QED
    BY <1>4, Alone DEF SerialInv, AnchorsMatchArtifacts, VersionsIncrease,
                       Committed

LEMMA ForeignSerial ==
  ASSUME Serial, TypeOK, SerialInv, WriteOrderInv', AppendOther
  PROVE  SerialInv'
  <1>1. PICK leaf \in ForeignLeaves : log' = Append(log, leaf)
    BY DEF AppendOther
  <1>2. leaf \in Leaf /\ ~Ours(leaf)
    BY ForeignLeafType
  <1>3. Committed' = Committed /\ \A i \in Committed : log'[i] = log[i]
    BY <1>1, <1>2, LogGrows
  <1>4. UNCHANGED <<artifacts, hint, pc, input, prev, prevVersion, draft, index>>
    BY DEF AppendOther, locals
  <1>5. \A i \in Committed : Announced(i)' <=> Announced(i)
    BY <1>3, <1>4 DEF Announced
  <1>6. \A i : BeingAnnounced(i)' <=> BeingAnnounced(i)
    BY <1>4 DEF BeingAnnounced
  <1>7. ASSUME NEW p \in Reconcilers
        PROVE  LocalsInv(p)'
    <2>1. hint # NoHint => log'[hint.index] = log[hint.index]
      BY <1>3 DEF SerialInv, WriteOrderInv, HintNamesAnchor
    <2>2. LocalsInv(p)
      BY DEF SerialInv
    <2>. QED
      BY <1>3, <1>4, <2>1, <2>2 DEF LocalsInv
  <1>. QED
    BY <1>3, <1>4, <1>5, <1>6, <1>7 DEF SerialInv, AnchorsMatchArtifacts,
                                        VersionsIncrease

LEMMA StepSerial ==
  ASSUME Serial, TypeOK, SerialInv, WriteOrderInv', NEW p \in Reconcilers,
         Reconcile(p)
  PROVE  SerialInv'
  <1>1. CASE \/ Call(p) \/ GetHint(p) \/ NothingPublished(p)
             \/ GetArtifact(p) \/ MissArtifact(p) \/ BuildNext(p)
    BY <1>1, ReadSerial
  <1>2. CASE FailLogSize(p) \/ KeepPublished(p)
    BY <1>2, ReturnLocals, ReturnEffect, QuietSerial DEF FailLogSize, KeepPublished
  <1>3. CASE Crash(p)
    <2>1. pc[p] # "putHint" /\ LocalsInv(p)' /\ UNCHANGED store
      BY <1>3, ReturnLocals, NoHarmfulFault DEF Crash
    <2>. QED
      BY <2>1, QuietSerial
  <1>4. CASE PutArtifact(p)
    <2>1. LocalsInv(p)'
      <3>1. LocalsInv(p)
        BY DEF SerialInv
      <3>2. artifacts'[draft[p].version] = draft[p]
        BY <1>4, StoreTypeOK DEF PutArtifact, TypeOK, Types
      <3>. QED
        BY <1>4, <3>1, <3>2 DEF PutArtifact, Move, LocalsInv, TypeOK, Types, locals
    <2>. QED
      BY <1>4, <2>1, StoreSerial DEF PutArtifact, Move
  <1>5. CASE FailPutArtifact(p)
    <2>1. /\ LocalsInv(p)' /\ pc[p] = "putArtifact" /\ UNCHANGED <<hint, log>>
          /\ UNCHANGED artifacts \/ Store(draft[p])
      BY <1>5, ReturnLocals, ReturnEffect DEF FailPutArtifact
    <2>. QED
      BY <2>1, StoreSerial, QuietSerial DEF store
  <1>6. CASE AppendAnchor(p)
    BY <1>6, AppendSerial
  <1>7. CASE FailAppend(p)
    <2>1. LocalsInv(p)' /\ pc[p] = "append" /\ UNCHANGED store
      BY <1>7, ReturnLocals, ReturnEffect, NoHarmfulFault DEF FailAppend, store
    <2>. QED
      BY <2>1, QuietSerial
  <1>8. CASE PutHint(p) \/ FailPutHint(p)
    <2>1. /\ LocalsInv(p)' /\ pc[p] = "putHint" /\ pc'[p] = "idle"
          /\ UNCHANGED <<artifacts, log>>
      BY <1>8, ReturnLocals, ReturnEffect DEF PutHint, FailPutHint
    <2>2. hint' = NextHint(p)
      BY <1>8, NoHarmfulFault DEF PutHint, FailPutHint
    <2>. QED
      BY <2>1, <2>2, AnnounceSerial
  <1>. QED
    BY <1>1, <1>2, <1>3, <1>4, <1>5, <1>6, <1>7, <1>8 DEF Reconcile, Step

LEMMA NextSerial ==
  ASSUME Serial
  PROVE  TypeOK /\ WriteOrderInv' /\ SerialInv /\ [Next]_vars => SerialInv'
  <1> SUFFICES ASSUME TypeOK, WriteOrderInv', SerialInv, [Next]_vars
               PROVE  SerialInv'
    OBVIOUS
  <1>1. CASE UNCHANGED <<artifacts, hint, log, pc, input, prev, prevVersion,
                         draft, index>>
    BY <1>1 DEF SerialInv, AnchorsMatchArtifacts, VersionsIncrease, Committed,
                Announced, BeingAnnounced, LocalsInv
  <1>. QED
    BY <1>1, ForeignSerial, StepSerial
    DEF Next, ChangeRecords, store, locals, vars

LEMMA SerialInvariant ==
  ASSUME Serial
  PROVE  Spec => []SerialInv
  <1>1. TypeOK /\ WriteOrderInv' /\ SerialInv /\ [Next]_vars => SerialInv'
    BY NextSerial
  <1>. QED
    BY <1>1, InitSerial, TypeCorrect, WriteOrder, PTL DEF Spec

\* leaf/status.go:21, "strictly monotonic across publications": with one call
\* at a time and harmless failures, the versions grow along the log.
THEOREM VersionsAlwaysIncrease ==
  ASSUME OneAtATime, Faults \subseteq HarmlessFaults
  PROVE  Spec => []VersionsIncrease
  <1>1. Serial
    BY DEF Serial
  <1>. QED
    BY <1>1, SerialInvariant, PTL DEF SerialInv

\* publish.go:16, "immutable": with one call at a time and harmless failures,
\* the store holds under every anchored version what the anchor commits to.
THEOREM AnchorsAlwaysMatch ==
  ASSUME OneAtATime, Faults \subseteq HarmlessFaults
  PROVE  Spec => []AnchorsMatchArtifacts
  <1>1. Serial
    BY DEF Serial
  <1>. QED
    BY <1>1, SerialInvariant, PTL DEF SerialInv

----------------------------------------------------------------------------
(* What a successful return promises. *)

LEMMA StatusOfLast ==
  ASSUME NEW lg, NEW n \in Nat, NEW m \in Commits(lg, n),
         \A i \in Commits(lg, n) : i <= m
  PROVE  StatusAt(lg, n) = lg[m].hash.withdrawn
  <1>1. Commits(lg, n) \subseteq 1..n
    BY DEF Commits
  <1>. DEFINE IsLast(i) == \A j \in Commits(lg, n) : j <= i
  <1>2. \A i \in Commits(lg, n) : IsLast(i) <=> i = m
    BY <1>1
  <1>3. (CHOOSE i \in Commits(lg, n) : IsLast(i)) = m
    BY <1>2
  <1>. QED
    BY <1>3 DEF StatusAt

\* The call p returns without an error.
Succeeds(p) == pc[p] # "idle" /\ pc'[p] = "idle" /\ outcome'[p] # "error"

LEMMA KeptIsCommitted ==
  ASSUME Serial, TypeOK, SerialInv, NEW p \in Reconcilers, KeepPublished(p)
  PROVE  StatusAt(log', Len(log')) = input[p]
  <1>1. pc[p] = "compare" /\ input[p] \in prev[p] /\ log' = log
    BY DEF KeepPublished, Return, Move, store
  <1>2. hint # NoHint /\ input[p] = log[hint.index].hash.withdrawn
    BY <1>1 DEF SerialInv, LocalsInv
  <1>3. hint.index \in Committed /\ \A i \in Committed : i <= hint.index
    BY <1>1, <1>2, AllAnnounced
    DEF SerialInv, WriteOrderInv, HintNamesAnchor, Announced
  <1>4. Len(log) \in Nat
    BY DEF TypeOK, Types
  <1>5. StatusAt(log, Len(log)) = log[hint.index].hash.withdrawn
    BY <1>3, <1>4, StatusOfLast DEF Committed
  <1>. QED
    BY <1>1, <1>2, <1>5

LEMMA AnnouncedIsCommitted ==
  ASSUME Serial, TypeOK, SerialInv, NEW p \in Reconcilers, PutHint(p)
  PROVE  StatusAt(log', Len(log')) = input[p]
  <1>1. pc[p] = "putHint" /\ log' = log
    BY DEF PutHint, Return, Move
  <1>2. /\ index[p] \in Committed
        /\ \A i \in Committed : i <= index[p]
        /\ log[index[p]].hash.withdrawn = input[p]
    <2>1. LocalsInv(p) /\ log[index[p]] = AnchorOf(draft[p])
      BY <1>1 DEF SerialInv, WriteOrderInv
    <2>2. AnchorOf(draft[p]).hash = draft[p]
      BY DEF AnchorOf
    <2>. QED
      BY <1>1, <2>1, <2>2 DEF SerialInv, WriteOrderInv, LocalsInv
  <1>. QED
    BY <1>1, <1>2, StatusOfLast DEF Committed, TypeOK, Types

LEMMA StepSucceeds ==
  ASSUME Serial, TypeOK, SerialInv, NEW p \in Reconcilers, Reconcile(p),
         NEW q \in Reconcilers, Succeeds(q)
  PROVE  KeepPublished(q) \/ PutHint(q)
  <1>1. q = p
    BY DEF Serial, OneAtATime
  <1>2. ~ \/ Call(q) \/ GetHint(q) \/ NothingPublished(q)
          \/ GetArtifact(q) \/ MissArtifact(q) \/ BuildNext(q)
          \/ PutArtifact(q) \/ AppendAnchor(q)
    BY DEF Succeeds, Call, GetHint, NothingPublished, GetArtifact, MissArtifact,
           BuildNext, PutArtifact, AppendAnchor, Move, TypeOK, Types
  <1>3. ~ \/ FailLogSize(q) \/ FailPutArtifact(q) \/ FailAppend(q)
          \/ FailPutHint(q) \/ Crash(q)
    BY ReturnEffect DEF Succeeds, FailLogSize, FailPutArtifact, FailAppend,
                        FailPutHint, Crash
  <1>. QED
    BY <1>1, <1>2, <1>3 DEF Reconcile, Step

\* publish.go:125-128: with one call at a time and harmless failures, a call
\* that returns without an error leaves its set as the log's last commitment.
THEOREM SuccessAlwaysCommitted ==
  ASSUME OneAtATime, Faults \subseteq HarmlessFaults
  PROVE  Spec => SuccessIsCommitted
  <1>1. Serial
    BY DEF Serial
  <1>2. TypeOK /\ SerialInv /\ [Next]_vars
          => [\A p \in Reconcilers :
                (pc[p] # "idle" /\ pc'[p] = "idle" /\ outcome'[p] # "error")
                  => StatusAt(log', Len(log')) = input[p]]_vars
    <2> SUFFICES ASSUME TypeOK, SerialInv, [Next]_vars,
                        NEW q \in Reconcilers, Succeeds(q)
                 PROVE  StatusAt(log', Len(log')) = input[q]
      BY DEF Succeeds
    <2>1. ASSUME NEW p \in Reconcilers, Reconcile(p)
          PROVE  StatusAt(log', Len(log')) = input[q]
      BY <1>1, <2>1, StepSucceeds, KeptIsCommitted, AnnouncedIsCommitted
    <2>2. ~(ChangeRecords \/ AppendOther \/ UNCHANGED vars)
      BY DEF ChangeRecords, AppendOther, vars, Succeeds
    <2>. QED
      BY <2>1, <2>2 DEF Next
  <1>. QED
    BY <1>1, <1>2, SerialInvariant, TypeCorrect, PTL DEF Spec, SuccessIsCommitted

----------------------------------------------------------------------------
(* An artifact that was read: nothing is committed twice in a row.         *)

\* A call that has the published set in hand builds only another one.
FreshInv(p) ==
  hint # NoHint /\ prev[p] # {} /\ pc[p] \in {"putArtifact", "append"} =>
    draft[p].withdrawn # log[hint.index].hash.withdrawn

LEMMA StepFresh ==
  ASSUME Serial, TypeOK, SerialInv, NEW p \in Reconcilers, FreshInv(p),
         Reconcile(p)
  PROVE  FreshInv(p)'
  <1>0. LocalsInv(p)
    BY DEF SerialInv
  <1>1. CASE Call(p) \/ GetHint(p)
    BY <1>1 DEF Call, GetHint, Move, FreshInv, TypeOK, Types
  <1>2. CASE NothingPublished(p) \/ MissArtifact(p)
    BY <1>2 DEF NothingPublished, MissArtifact, Move, FreshInv, TypeOK, Types
  <1>3. CASE GetArtifact(p)
    BY <1>3 DEF GetArtifact, Move, FreshInv, TypeOK, Types
  <1>4. CASE BuildNext(p)
    <2>1. /\ pc[p] = "compare" /\ pc'[p] = "putArtifact" /\ input[p] \notin prev[p]
          /\ draft'[p].withdrawn = input[p] /\ UNCHANGED <<hint, log, prev>>
      BY <1>4 DEF BuildNext, Move, BuildArtifact, TypeOK, Types, store
    <2>2. hint # NoHint /\ prev[p] # {} => log[hint.index].hash.withdrawn \in prev[p]
      BY <1>0, <2>1 DEF LocalsInv
    <2> QED
      BY <2>1, <2>2 DEF FreshInv
  <1>5. CASE PutArtifact(p)
    BY <1>5 DEF PutArtifact, Move, locals, FreshInv, TypeOK, Types
  <1>6. CASE AppendAnchor(p)
    BY <1>6 DEF AppendAnchor, Move, FreshInv, TypeOK, Types
  <1>7. CASE \/ FailLogSize(p) \/ KeepPublished(p) \/ FailPutArtifact(p)
             \/ FailAppend(p) \/ PutHint(p) \/ FailPutHint(p) \/ Crash(p)
    <2>1. pc'[p] = "idle"
      BY <1>7, ReturnEffect DEF FailLogSize, KeepPublished, FailPutArtifact, FailAppend,
                                PutHint, FailPutHint, Crash
    <2> QED
      BY <2>1 DEF FreshInv
  <1> QED
    BY <1>1, <1>2, <1>3, <1>4, <1>5, <1>6, <1>7 DEF Reconcile, Step

LEMMA FreshInvariant ==
  ASSUME Serial
  PROVE  Spec => [](\A p \in Reconcilers : FreshInv(p))
  <1> DEFINE AllFresh == \A p \in Reconcilers : FreshInv(p)
  <1>1. Init => AllFresh
    BY DEF Init, FreshInv
  <1>2. TypeOK /\ SerialInv /\ AllFresh /\ [Next]_vars => AllFresh'
    <2> SUFFICES ASSUME TypeOK, SerialInv, AllFresh, [Next]_vars,
                        NEW q \in Reconcilers
                 PROVE  FreshInv(q)'
      OBVIOUS
    <2>1. ASSUME NEW p \in Reconcilers, Reconcile(p)
          PROVE  FreshInv(q)'
      BY <2>1, StepFresh DEF Serial, OneAtATime
    <2>2. CASE ChangeRecords \/ UNCHANGED vars
      BY <2>2 DEF ChangeRecords, vars, store, locals, FreshInv
    <2>3. CASE AppendOther
      <3>1. hint # NoHint => log'[hint.index] = log[hint.index]
        <4>1. hint # NoHint => hint.index \in Committed
          BY DEF SerialInv, WriteOrderInv, HintNamesAnchor
        <4>2. PICK leaf \in ForeignLeaves : log' = Append(log, leaf)
          BY <2>3 DEF AppendOther
        <4> QED
          BY <4>1, <4>2, ForeignLeafType, LogGrows
      <3> QED
        BY <2>3, <3>1 DEF AppendOther, locals, FreshInv
    <2> QED
      BY <2>1, <2>2, <2>3 DEF Next
  <1>3. Spec => []SerialInv
    BY SerialInvariant
  <1> QED
    BY <1>1, <1>2, <1>3, TypeCorrect, PTL DEF Spec

\* publish.go:125-128: with one call at a time and harmless failures, the log does
\* not fill with identical commitments of calls that read the published artifact.
THEOREM NeverRedundant ==
  ASSUME OneAtATime, Faults \subseteq HarmlessFaults
  PROVE  Spec => NoRedundantAnchor
  <1>0. Serial
    BY DEF Serial
  <1> DEFINE AllFresh == \A p \in Reconcilers : FreshInv(p)
             Redundant == \A p \in Reconcilers :
                            AppendAnchor(p) /\ Committed # {} /\ prev[p] # {}
                              => draft[p].withdrawn # StatusAt(log, Len(log))
  <1>1. TypeOK /\ SerialInv /\ AllFresh /\ [Next]_vars => Redundant
    <2> SUFFICES ASSUME TypeOK, SerialInv, AllFresh, NEW p \in Reconcilers,
                        AppendAnchor(p), Committed # {}, prev[p] # {}
                 PROVE  draft[p].withdrawn # StatusAt(log, Len(log))
      OBVIOUS
    <2>1. pc[p] = "append"
      BY DEF AppendAnchor, Move
    <2>2. \A i \in Committed : Announced(i)
      BY <1>0, <2>1, AllAnnounced
    <2>3. hint # NoHint /\ \A i \in Committed : i <= hint.index
      BY <2>2 DEF Announced
    <2>4. hint.index \in Committed
      BY <2>3 DEF SerialInv, WriteOrderInv, HintNamesAnchor
    <2>5. StatusAt(log, Len(log)) = log[hint.index].hash.withdrawn
      BY <2>3, <2>4, StatusOfLast DEF Committed, TypeOK, Types
    <2> QED
      BY <2>1, <2>3, <2>5 DEF FreshInv
  <1>2. Spec => []SerialInv
    BY <1>0, SerialInvariant
  <1>3. Spec => []AllFresh
    BY <1>0, FreshInvariant
  <1> QED
    BY <1>1, <1>2, <1>3, TypeCorrect, PTL DEF Spec, NoRedundantAnchor

----------------------------------------------------------------------------
(* The publisher and a verifier together.  What the verifier's theorems    *)
(* ask of the log and the checkpoints, the publisher's system provides.    *)

VP == INSTANCE StatusVerifierProofs

LEMMA CheckIsCheck == V!Check => VP!Check
  BY DEF V!Check, V!FetchCheckpoint, V!Resolve, V!FetchHint, V!ScanBundle, V!FailScan,
         V!Rescan, V!FindNone, V!FetchArtifact, V!FailArtifact, V!Conclude, V!Scanning,
         V!Scanned, V!Judge, V!ScanAltered, V!KeptInAnyOrder, V!EndsOfBundle, V!NewestIn, V!FirstNewest, V!TrustedIn,
         V!UntrustedIn, V!Trusted, V!IsAnchor, V!isPinned,
         VP!Check, VP!FetchCheckpoint, VP!Resolve, VP!FetchHint, VP!ScanBundle,
         VP!FailScan, VP!Rescan, VP!FindNone, VP!FetchArtifact, VP!FailArtifact,
         VP!Conclude, VP!Scanning, VP!Scanned, VP!Judge, VP!ScanAltered,
         VP!KeptInAnyOrder, VP!EndsOfBundle, VP!NewestIn,
         VP!FirstNewest, VP!TrustedIn, VP!UntrustedIn, VP!Trusted, VP!IsAnchor,
         VP!isPinned

LEMMA LeafIsLeaf == VP!Leaf = Leaf
  BY DEF VP!Leaf, VP!StatusAnchor, VP!OtherLeaf, VP!Artifact, Leaf, StatusAnchor,
         OtherLeaf, Artifact

\* The publisher in the system behaves as the publisher alone.
LEMMA SystemPublishes == SystemSpec => Spec
  <1>1. SystemInit => Init
    BY DEF SystemInit
  <1>2. [SystemNext]_systemVars => [Next]_vars
    BY DEF SystemNext, Publish, PublishCheckpoint, Verify, systemVars
  <1> QED
    BY <1>1, <1>2, PTL DEF SystemSpec, Spec

LEMMA LogSteps ==
  ASSUME TypeOK, [Next]_vars
  PROVE  log' = log \/ \E leaf \in Leaf : log' = Append(log, leaf)
  <1>1. CASE AppendOther
    BY <1>1, ForeignLeafType DEF AppendOther
  <1>2. CASE ChangeRecords
    BY <1>2 DEF ChangeRecords, store
  <1>3. ASSUME NEW p \in Reconcilers, Reconcile(p)
        PROVE  log' = log \/ \E leaf \in Leaf : log' = Append(log, leaf)
    <2>1. AnchorOf(draft[p]) \in Leaf
      BY AnchorOfType DEF TypeOK, Types
    <2>2. log' = log \/ log' = Append(log, AnchorOf(draft[p]))
      BY <1>3 DEF Reconcile, Call, Step, GetHint, NothingPublished, GetArtifact,
           MissArtifact, FailLogSize, KeepPublished, BuildNext, PutArtifact,
           FailPutArtifact, AppendAnchor, FailAppend, PutHint, FailPutHint, Crash, store
    <2> QED
      BY <2>1, <2>2
  <1>4. CASE UNCHANGED vars
    BY <1>4 DEF vars
  <1> QED
    BY <1>1, <1>2, <1>3, <1>4 DEF Next

\* The log only grows, and what is in it stays.
LEMMA LogExtends ==
  ASSUME TypeOK, [Next]_vars
  PROVE  Len(log) <= Len(log') /\ \A i \in 1..Len(log) : log'[i] = log[i]
  <1>1. log \in Seq(Leaf)
    BY DEF TypeOK, Types
  <1>2. CASE log' = log
    BY <1>1, <1>2
  <1>3. ASSUME NEW leaf \in Leaf, log' = Append(log, leaf)
        PROVE  Len(log) <= Len(log') /\ \A i \in 1..Len(log) : log'[i] = log[i]
    BY <1>1, <1>3
  <1> QED
    BY <1>2, <1>3, LogSteps

Covered == checkpoint \in 0..Len(log)

LEMMA AlwaysCovered == SystemSpec => []Covered
  <1>1. SystemInit => Covered
    BY DEF SystemInit, Init, Covered
  <1>2. TypeOK /\ Covered /\ [SystemNext]_systemVars => Covered'
    <2> SUFFICES ASSUME TypeOK, Covered, [SystemNext]_systemVars
                 PROVE  Covered'
      OBVIOUS
    <2>0. log \in Seq(Leaf) /\ Len(log) \in Nat
      BY DEF TypeOK, Types
    <2>1. CASE Publish
      <3>1. Len(log) <= Len(log') /\ checkpoint' = checkpoint
        BY <2>1, LogExtends DEF Publish
      <3>2. Len(log') \in Nat
        BY <2>0, <2>1, LogSteps DEF Publish
      <3> QED
        BY <2>0, <3>1, <3>2 DEF Covered
    <2>2. CASE PublishCheckpoint
      BY <2>0, <2>2 DEF PublishCheckpoint, Covered, vars
    <2>3. CASE Verify \/ UNCHANGED systemVars
      BY <2>3 DEF Verify, systemVars, vars, Covered
    <2> QED
      BY <2>1, <2>2, <2>3 DEF SystemNext
  <1>3. SystemSpec => []TypeOK
    BY SystemPublishes, TypeCorrect, PTL
  <1> QED
    BY <1>1, <1>2, <1>3, PTL DEF SystemSpec

\* To a verifier, all the rest of the system is the log growing.
LEMMA SystemVerifies == SystemSpec => VP!VerifierSpec
  <1>1. SystemInit => VP!ReadInit /\ VP!Init
    BY DEF SystemInit, Init, VP!ReadInit, VP!Init, V!Init
  <1>2. TypeOK /\ TypeOK' /\ Covered' /\ [SystemNext]_systemVars
          => [VP!VerifierNext]_<<VP!read, VP!check>>
    <2> SUFFICES ASSUME TypeOK, TypeOK', Covered', [SystemNext]_systemVars
                 PROVE  [VP!VerifierNext]_<<VP!read, VP!check>>
      OBVIOUS
    <2>1. ASSUME [Next]_vars, UNCHANGED checkVars
          PROVE  VP!Elsewhere
      <3>1. Len(log) <= Len(log') /\ \A i \in 1..Len(log) : log'[i] = log[i]
        BY <2>1, LogExtends
      <3>2. log' \in Seq(VP!Leaf)
        BY LeafIsLeaf DEF TypeOK, Types
      <3>3. UNCHANGED VP!check
        BY <2>1 DEF checkVars, VP!check
      <3> QED
        BY <3>1, <3>2, <3>3 DEF VP!Elsewhere, Covered
    <2>2. CASE Publish
      BY <2>1, <2>2 DEF Publish, VP!VerifierNext
    <2>3. CASE PublishCheckpoint
      BY <2>1, <2>3 DEF PublishCheckpoint, VP!VerifierNext
    <2>4. CASE Verify
      <3>1. VP!Check
        BY <2>4, CheckIsCheck DEF Verify
      <3>2. UNCHANGED VP!read
        BY <2>4 DEF Verify, vars, VP!read
      <3> QED
        BY <3>1, <3>2 DEF VP!VerifierNext
    <2>5. CASE UNCHANGED systemVars
      BY <2>5 DEF systemVars, vars, checkVars, VP!read, VP!check
    <2> QED
      BY <2>2, <2>3, <2>4, <2>5 DEF SystemNext
  <1>3. SystemSpec => []TypeOK
    BY SystemPublishes, TypeCorrect, PTL
  <1> QED
    BY <1>1, <1>2, <1>3, AlwaysCovered, PTL DEF SystemSpec, VP!VerifierSpec

----------------------------------------------------------------------------
(* The promise kept.  With the publisher's key as the only root, the       *)
(* trusted anchors are HII's, and the newest of those seen is the last.    *)

Statement(i) == [at |-> i, withdrawn |-> log[i].hash.withdrawn]

Statements == {[at |-> i, withdrawn |-> log[i].hash.withdrawn] : i \in Committed}

Said == IF vpc \in {"hint", "scan"} THEN "pending" ELSE verdict

SystemInv ==
  /\ TypeOK
  /\ SerialInv
  /\ VP!VerifierInv
  /\ faithful

Setting ==
  /\ Serial
  /\ Roots = {Issuer}
  /\ ReadFaults \subseteq V!ReadFaultKinds \ {"altered"}

LEMMA VerifierSetting ==
  ASSUME Setting
  PROVE  VP!StatusLogAssumption /\ VP!StatusVerifierAssumption
  BY StatusLogAssumption
  DEF VP!StatusLogAssumption, Setting, VP!StatusVerifierAssumption, V!ReadFaultKinds,
      VP!ReadFaultKinds

LEMMA SystemInvariant ==
  ASSUME Setting
  PROVE  SystemSpec => []SystemInv
  <1>1. Serial
    BY DEF Setting
  <1>4. VP!VerifierSpec => []VP!VerifierInv
    BY VerifierSetting, VP!VerifierInvariant
  <1>5. Spec => []SerialInv
    BY <1>1, SerialInvariant
  <1>6. SystemSpec => []faithful
    <2>1. SystemInit => faithful
      BY DEF SystemInit, V!Init
    <2>2. faithful /\ [SystemNext]_systemVars => faithful'
      <3> SUFFICES ASSUME faithful, [SystemNext]_systemVars
                   PROVE  faithful'
        OBVIOUS
      <3>1. ~V!ScanAltered
        BY DEF Setting, V!ScanAltered
      <3> QED
        BY <3>1 DEF SystemNext, Publish, PublishCheckpoint, Verify, systemVars, checkVars,
           V!Check, V!FetchCheckpoint, V!Resolve, V!FetchHint, V!ScanBundle, V!FailScan,
           V!Rescan, V!FindNone, V!FetchArtifact, V!FailArtifact, V!Conclude, V!Judge
    <2> QED
      BY <2>1, <2>2, PTL DEF SystemSpec
  <1> QED
    BY <1>4, <1>5, <1>6, SystemPublishes, SystemVerifies, TypeCorrect, PTL DEF SystemInv

\* What a verifier takes for a trusted anchor is one HII committed.
LEMMA TrustedIsCommitted ==
  ASSUME Setting, NEW S, S \subseteq 1..Len(log)
  PROVE  VP!TrustedIn(log, S) = Committed \cap S
  BY DEF Setting, VP!TrustedIn, VP!Trusted, VP!IsAnchor, VP!isPinned, Committed,
         Commits, IsAnchor

LEMMA CommittedPositions ==
  ASSUME TypeOK
  PROVE  /\ Len(log) \in Nat /\ Committed \subseteq 1..Len(log)
         /\ \A i \in Committed : /\ log[i] \in Leaf
                                 /\ log[i].version \in Nat
                                 /\ log[i].hash.withdrawn \subseteq Subjects
  <1>1. Len(log) \in Nat /\ Committed \subseteq 1..Len(log) /\ log \in Seq(Leaf)
    BY DEF TypeOK, Types, Committed, Commits
  <1>2. ASSUME NEW i \in Committed
        PROVE  /\ log[i] \in Leaf
               /\ log[i].version \in Nat
               /\ log[i].hash.withdrawn \subseteq Subjects
    <2>1. log[i] \in Leaf
      BY <1>1
    <2>2. log[i].kind = "anchor"
      BY DEF Committed, Commits, IsAnchor
    <2>3. log[i] \in StatusAnchor
      BY <2>1, <2>2 DEF Leaf, OtherLeaf
    <2>4. log[i].version \in Nat /\ log[i].hash \in Artifact
      BY <2>3 DEF StatusAnchor
    <2> QED
      BY <2>1, <2>4 DEF Artifact
  <1> QED
    BY <1>1, <1>2

\* The last commitment up to n is the one in effect there.
LEMMA LastIsInEffect ==
  ASSUME NEW k \in Committed, NEW n \in Nat, k <= n, Committed \subseteq Nat,
         \A j \in Committed : j <= n => j <= k,
         NEW x
  PROVE  Promise!WithdrawnAt(x, n) <=> x \in log[k].hash.withdrawn
  <1>1. Promise!InEffect(Statement(k), n)
    BY DEF Promise!InEffect, Statement
  <1>2. ASSUME NEW s \in Statements, Promise!InEffect(s, n)
        PROVE  s = Statement(k)
    <2>1. PICK i \in Committed : s = Statement(i)
      BY DEF Statements, Statement
    <2>2. i <= n /\ k <= i
      <3>1. /\ s.at <= n
            /\ \A t \in Statements : t.at <= n => t.at <= s.at
        BY <1>2 DEF Promise!InEffect, Statements
      <3>2. s.at = i /\ Statement(k) \in Statements /\ Statement(k).at = k
        BY <2>1 DEF Statements, Statement
      <3> QED
        BY <3>1, <3>2
    <2>3. i = k
      BY <2>2
    <2> QED
      BY <2>1, <2>3
  <1>3. Statement(k) \in Statements /\ Statement(k).withdrawn = log[k].hash.withdrawn
    BY DEF Statements, Statement
  <1>4. Promise!WithdrawnAt(x, n) <=>
          \E s \in Statements : Promise!InEffect(s, n) /\ x \in s.withdrawn
    BY DEF Promise!WithdrawnAt, Statements
  <1> QED
    BY <1>1, <1>2, <1>3, <1>4

\* The positions at which the promise lets an answer hold.
From(n) == n >= size /\ n \in {size} \cup {s.at : s \in Statements}

\* A definite answer is what HII had committed to at such a position.
DefiniteIsTrue ==
  vpc = "done" /\ verdict \in {"VERIFIED", "WITHDRAWN"} =>
    \E n : From(n) /\ (verdict = "WITHDRAWN" <=> Promise!WithdrawnAt(subject, n))

LEMMA DefiniteIsPromised ==
  ASSUME Setting, SystemInv
  PROVE  DefiniteIsTrue
  <1> SUFFICES ASSUME vpc = "done", verdict \in {"VERIFIED", "WITHDRAWN"}
               PROVE  \E n : From(n) /\ (verdict = "WITHDRAWN"
                                            <=> Promise!WithdrawnAt(subject, n))
    BY DEF DefiniteIsTrue
  <1>0. /\ Len(log) \in Nat /\ Committed \subseteq 1..Len(log)
        /\ \A i \in Committed : log[i].version \in Nat
    BY CommittedPositions DEF SystemInv
  <1>1. /\ size \in Nat /\ reach \in Nat /\ size <= reach /\ reach <= Len(log)
        /\ log \in Seq(VP!Leaf)
        /\ VP!ResultOK(log, reach, subject, verdict, reason)
    BY DEF SystemInv, VP!VerifierInv, VP!TypeOK
  <1>2. CASE verdict = "VERIFIED" /\ VP!TrustedIn(log, 1..reach) = {}
    <2>1. \A i \in Committed : ~(i <= size)
      <3>1. VP!TrustedIn(log, 1..reach) = Committed \cap (1..reach)
        BY <1>0, <1>1, TrustedIsCommitted
      <3> QED
        BY <1>0, <1>1, <1>2, <3>1
    <2>2. ~Promise!WithdrawnAt(subject, size)
      BY <2>1 DEF Promise!WithdrawnAt, Promise!InEffect
    <2>3. From(size)
      BY <1>1 DEF From
    <2> QED
      BY <1>2, <2>2, <2>3
  <1>3. ASSUME NEW from \in Nat,
               LET T == VP!TrustedIn(log, (from + 1)..reach)
               IN  /\ T # {}
                   /\ verdict = "WITHDRAWN"
                        <=> subject \in log[VP!FirstNewest(log, T)].hash.withdrawn
        PROVE  \E n : From(n) /\ (verdict = "WITHDRAWN" <=> Promise!WithdrawnAt(subject, n))
    <2> DEFINE T == VP!TrustedIn(log, (from + 1)..reach)
               k == VP!FirstNewest(log, T)
               n == IF k >= size THEN k ELSE size
    <2>1. (from + 1)..reach \subseteq 1..Len(log)
      BY <1>1
    <2>2. T = Committed \cap ((from + 1)..reach)
      BY <2>1, TrustedIsCommitted
    <2>3. /\ k \in T
          /\ \A j \in T : \/ log[j].version < log[k].version
                          \/ log[j].version = log[k].version /\ k <= j
      <3>1. VP!StatusLogAssumption /\ VP!StatusVerifierAssumption
        BY VerifierSetting
      <3>2. T # {} /\ log \in Seq(VP!Leaf)
        BY <1>1, <1>3
      <3>3. VP!IsNewest(log, T, k)
        BY <2>1, <3>1, <3>2, VP!NewestTrusted
      <3> HIDE DEF T, k
      <3> QED
        BY <3>3 DEF VP!IsNewest
    <2>4. \A j \in T : j <= k
      <3> SUFFICES ASSUME NEW j \in T, k < j
                   PROVE  FALSE
        BY <1>0, <2>2, <2>3
      <3> HIDE DEF k
      <3>1. j \in Committed /\ k \in Committed
        BY <2>2, <2>3
      <3>2. log[k].version < log[j].version
        BY <3>1 DEF SystemInv, SerialInv, VersionsIncrease
      <3>3. \/ log[j].version < log[k].version
            \/ log[j].version = log[k].version /\ k <= j
        BY <2>3
      <3>4. log[j].version \in Nat /\ log[k].version \in Nat
        BY <1>0, <3>1
      <3> QED
        BY <3>2, <3>3, <3>4
    <2>5. k \in Committed /\ k \in Nat /\ from < k /\ k <= reach
      BY <1>0, <1>1, <2>2, <2>3
    <2>6. \A j \in Committed : j <= reach => j <= k
      BY <1>0, <1>1, <2>2, <2>4, <2>5
    <2> HIDE DEF k, T
    <2>7. /\ n \in Nat /\ k <= n /\ n >= size
          /\ \A j \in Committed : j <= n => j <= k
      BY <1>0, <1>1, <2>5, <2>6
    <2>8. From(n)
      <3>1. Statement(k) \in Statements /\ Statement(k).at = k
        BY <2>5 DEF Statements, Statement
      <3> QED
        BY <2>7, <3>1 DEF From
    <2> HIDE DEF n
    <2>9. Promise!WithdrawnAt(subject, n) <=> subject \in log[k].hash.withdrawn
      BY <1>0, <2>5, <2>7, LastIsInEffect
    <2> QED
      BY <1>3, <2>8, <2>9 DEF k, T
  <1> QED
    BY <1>1, <1>2, <1>3 DEF VP!ResultOK

\* The three kinds of step of a check, as its asker sees them.
LEMMA CheckShape ==
  ASSUME SystemInv, V!Check
  PROVE  \/ /\ vpc \notin {"hint", "scan"} /\ vpc' = "hint"
            /\ subject' \in Subjects /\ size' = checkpoint
         \/ /\ vpc \in {"hint", "scan"} /\ vpc' = "scan"
            /\ UNCHANGED <<subject, size>>
         \/ /\ vpc = "scan" /\ vpc' = "done"
            /\ verdict' \in {"INDETERMINATE", "VERIFIED", "WITHDRAWN"}
            /\ UNCHANGED <<subject, size>>
  BY DEF V!Check, V!FetchCheckpoint, V!Resolve, V!FetchHint, V!ScanBundle, V!FailScan,
         V!Rescan, V!FindNone, V!FetchArtifact, V!FailArtifact, V!Conclude, V!Scanning,
         V!Scanned, V!Judge, V!ScanAltered

PromiseVars == <<Statements, checkpoint, subject, size, Said>>

\* A leaf of the log is a statement of HII's, or nothing to the promise.
LEMMA PublishPromised ==
  ASSUME TypeOK, [Next]_vars, UNCHANGED <<checkpoint, checkVars>>
  PROVE  Promise!State \/ UNCHANGED PromiseVars
  <1>0. UNCHANGED <<checkpoint, subject, size, Said>>
    BY DEF checkVars, Said
  <1>1. CASE log' = log
    BY <1>0, <1>1 DEF PromiseVars, Statements, Committed
  <1>2. ASSUME NEW leaf \in Leaf, log' = Append(log, leaf)
        PROVE  Promise!State \/ UNCHANGED PromiseVars
    <2> DEFINE end == Len(log) + 1
    <2>0. /\ Len(log) \in Nat /\ Committed \subseteq 1..Len(log)
          /\ \A i \in Committed : log[i].hash.withdrawn \subseteq Subjects
      BY CommittedPositions
    <2>1. /\ log'[end] = leaf
          /\ \A i \in Committed : log'[i] = log[i]
          /\ Committed \subseteq Committed'
          /\ \A i \in Committed' : i \in Committed \/ (i = end /\ Ours(leaf))
          /\ Ours(leaf) => end \in Committed'
      BY <1>2, LogGrows
    <2>2. CASE ~Ours(leaf)
      <3>1. Committed' = Committed
        BY <2>1, <2>2
      <3>2. Statements' = Statements
        BY <2>1, <3>1 DEF Statements
      <3> QED
        BY <1>0, <3>2 DEF PromiseVars
    <2>3. CASE Ours(leaf)
      <3> DEFINE new == [at |-> end, withdrawn |-> leaf.hash.withdrawn]
      <3>1. Committed' = Committed \cup {end}
        BY <2>1, <2>3
      <3>2. Statements' = Statements \cup {new}
        BY <2>1, <3>1 DEF Statements
      <3>3. new \in [at : Nat, withdrawn : SUBSET Subjects]
        <4>1. leaf \in StatusAnchor
          BY <2>3 DEF Ours, IsAnchor, Leaf, OtherLeaf
        <4>2. leaf.hash.withdrawn \subseteq Subjects
          BY <4>1 DEF StatusAnchor, Artifact
        <4>3. end \in Nat
          BY <2>0
        <4> QED
          BY <4>2, <4>3
      <3>4. \A s \in Statements : s.at < new.at
        <4> SUFFICES ASSUME NEW s \in Statements
                     PROVE  s.at < end
          OBVIOUS
        <4>1. PICK i \in Committed : s.at = i
          BY DEF Statements
        <4> QED
          BY <2>0, <4>1
      <3> HIDE DEF new
      <3>5. \E any \in Statements' :
               /\ any \in [at : Nat, withdrawn : SUBSET Subjects]
               /\ \A s \in Statements : s.at < any.at
               /\ Statements' = Statements \cup {any}
        BY <3>2, <3>3, <3>4
      <3> QED
        BY <1>0, <3>5 DEF Promise!State, Statements, Said
    <2> QED
      BY <2>2, <2>3
  <1> QED
    BY <1>1, <1>2, LogSteps

\* A step of a check is an Ask, an Answer, or nothing to the promise.
LEMMA VerifyPromised ==
  ASSUME SystemInv, DefiniteIsTrue', Verify
  PROVE  Promise!Ask \/ Promise!Answer \/ UNCHANGED PromiseVars
  <1>0. UNCHANGED <<log, checkpoint>> /\ Committed' = Committed /\ Statements' = Statements
    BY DEF Verify, vars, Committed, Statements
  <1>1. verdict \in {"none", "VERIFIED", "WITHDRAWN", "INDETERMINATE"}
    BY DEF SystemInv, VP!VerifierInv, VP!TypeOK
  <1>2. CASE /\ vpc \notin {"hint", "scan"} /\ vpc' = "hint"
             /\ subject' \in Subjects /\ size' = checkpoint
    <2>1. Said # "pending" /\ Said' = "pending"
      BY <1>1, <1>2 DEF Said
    <2>2. Promise!Ask
      BY <1>0, <1>2, <2>1 DEF Promise!Ask, Said, Statements
    <2> QED
      BY <2>2
  <1>3. CASE /\ vpc \in {"hint", "scan"} /\ vpc' = "scan"
             /\ UNCHANGED <<subject, size>>
    <2>1. Said = "pending" /\ Said' = "pending"
      BY <1>3 DEF Said
    <2> QED
      BY <1>0, <1>3, <2>1 DEF PromiseVars
  <1>4. CASE /\ vpc = "scan" /\ vpc' = "done"
             /\ verdict' \in {"INDETERMINATE", "VERIFIED", "WITHDRAWN"}
             /\ UNCHANGED <<subject, size>>
    <2>1. Said = "pending" /\ Said' = verdict'
      BY <1>4 DEF Said
    <2>2. CASE Said' = "INDETERMINATE"
      BY <1>0, <1>4, <2>1, <2>2 DEF Promise!Answer, Said, Statements
    <2>3. CASE Said' \in {"VERIFIED", "WITHDRAWN"}
      <3>1. \E n : /\ From(n)'
                   /\ verdict' = "WITHDRAWN" <=> Promise!WithdrawnAt(subject, n)'
        BY <1>4, <2>1, <2>3 DEF DefiniteIsTrue
      <3>2. \E n : /\ From(n)
                   /\ Said' = "WITHDRAWN" <=> Promise!WithdrawnAt(subject, n)
        BY <1>0, <1>4, <2>1, <3>1 DEF From, Promise!WithdrawnAt, Promise!InEffect, Statements
      <3> QED
        BY <1>0, <1>4, <2>1, <2>3, <3>2 DEF Promise!Answer, From, Said, Statements
    <2> QED
      BY <1>4, <2>1, <2>2, <2>3
  <1> QED
    BY <1>2, <1>3, <1>4, CheckShape DEF Verify

\* The publisher, the log and a verifier implement what revocation status
\* promises (docs/verification-spec.md section 12), with one call of Reconcile
\* at a time and failures that leave the hint at the newest anchor: a definite
\* answer is what HII had committed to at the verifier's checkpoint or later,
\* whatever the hint said and whatever was written between two fetches.
THEOREM PromiseAlwaysKept ==
  ASSUME OneAtATime, Faults \subseteq HarmlessFaults, Roots = {Issuer},
         ReadFaults \subseteq V!ReadFaultKinds \ {"altered"}
  PROVE  SystemSpec => KeepsPromise
  <1>0. Setting
    BY DEF Setting, Serial
  <1>1. SystemInit => Promise!Init
    BY DEF SystemInit, Init, V!Init, Promise!Init, Committed, Commits
  <1>2. SystemInv /\ DefiniteIsTrue' /\ [SystemNext]_systemVars
          => [Promise!Next]_PromiseVars
    <2> SUFFICES ASSUME SystemInv, DefiniteIsTrue', [SystemNext]_systemVars
                 PROVE  Promise!Next \/ UNCHANGED PromiseVars
      OBVIOUS
    <2>0. TypeOK
      BY DEF SystemInv
    <2>1. CASE Publish
      BY <2>0, <2>1, PublishPromised DEF Publish, Promise!Next
    <2>2. CASE PublishCheckpoint
      <3>1. UNCHANGED <<Statements, subject, size, Said>>
        BY <2>2 DEF PublishCheckpoint, vars, checkVars, Statements, Committed, Said
      <3>2. checkpoint' \in Nat /\ checkpoint' > checkpoint
        <4>1. checkpoint \in Nat /\ Len(log) \in Nat
          BY CommittedPositions DEF SystemInv, VP!VerifierInv
        <4> QED
          BY <2>2, <4>1 DEF PublishCheckpoint
      <3>3. Promise!Cover
        BY <3>1, <3>2 DEF Promise!Cover, Statements, Said
      <3> QED
        BY <3>3 DEF Promise!Next
    <2>3. CASE Verify
      BY <2>3, VerifyPromised DEF Promise!Next
    <2>4. CASE UNCHANGED systemVars
      BY <2>4 DEF systemVars, vars, checkVars, PromiseVars, Statements, Committed, Said
    <2> QED
      BY <2>1, <2>2, <2>3, <2>4 DEF SystemNext
  <1>3. PromiseVars = Promise!vars /\ PromiseVars' = Promise!vars'
    BY DEF PromiseVars, Promise!vars, Statements, Said
  <1>4. SystemInv /\ DefiniteIsTrue' /\ [SystemNext]_systemVars
          => [Promise!Next]_(Promise!vars)
    BY <1>2, <1>3
  <1>5. SystemSpec => []SystemInv
    BY <1>0, SystemInvariant
  <1>6. SystemInv => DefiniteIsTrue
    BY <1>0, DefiniteIsPromised
  <1> QED
    BY <1>1, <1>4, <1>5, <1>6, PTL DEF SystemSpec, KeepsPromise, Promise!Spec

\* While every artifact is served as stored, a check never ends in
\* artifact_hash_mismatch, the sign of corruption or equivocation
\* (resolve.go:54-56): whatever else fails, what is stored under the newest
\* anchor's version is what that anchor commits to.
THEOREM NeverFalseAlarm ==
  ASSUME OneAtATime, Faults \subseteq HarmlessFaults, Roots = {Issuer},
         ReadFaults \subseteq V!ReadFaultKinds \ {"substituted", "altered"}
  PROVE  SystemSpec => []NoFalseAlarm
  <1>0. Setting /\ "substituted" \notin ReadFaults
    BY DEF Setting, Serial
  <1>1. SystemInit => NoFalseAlarm
    BY DEF SystemInit, V!Init, NoFalseAlarm
  <1>2. SystemInv /\ NoFalseAlarm /\ [SystemNext]_systemVars => NoFalseAlarm'
    <2> SUFFICES ASSUME SystemInv, NoFalseAlarm, [SystemNext]_systemVars, ~NoFalseAlarm'
                 PROVE  FALSE
      OBVIOUS
    <2>1. V!FetchArtifact
      BY DEF SystemNext, Publish, PublishCheckpoint, Verify, systemVars, checkVars,
             NoFalseAlarm, V!Check, V!FetchCheckpoint, V!Resolve, V!FetchHint,
             V!ScanBundle, V!ScanAltered, V!FailScan, V!Rescan, V!FindNone,
             V!FailArtifact, V!Conclude
    <2>2. /\ newest # 0 /\ V!Scanned
          /\ artifacts[log[newest].version] # log[newest].hash
      BY <1>0, <2>1 DEF V!FetchArtifact, V!Judge, V!Conclude, NoFalseAlarm
    <2>3. newest \in Committed
      <3>1. VP!Scanned /\ VP!VerifierInv /\ faithful
        BY <2>2 DEF VP!Scanned, V!Scanned, SystemInv
      <3> DEFINE from == (start \div BundleSize) * BundleSize
                 S == (from + 1)..reach
      <3>2. VP!Read(log, from, reach, newest, sawUntrusted)
        BY <1>0, <3>1, VerifierSetting, VP!ScannedAll
      <3>3. from \in Nat /\ reach \in Nat /\ reach <= Len(log) /\ log \in Seq(VP!Leaf)
        <4>1. start \in Nat /\ start \div BundleSize \in Nat
          BY <3>1, StatusLogAssumption DEF VP!VerifierInv, VP!TypeOK
        <4>2. \A b \in Nat : b * BundleSize \in Nat
          BY StatusLogAssumption
        <4> QED
          BY <3>1, <4>1, <4>2 DEF VP!VerifierInv, VP!TypeOK
      <3> HIDE DEF from
      <3>4. S \subseteq 1..Len(log)
        BY <3>3
      <3>5. newest = VP!NewestIn(log, VP!TrustedIn(log, S))
        BY <3>2 DEF VP!Read
      <3> HIDE DEF S
      <3>6. VP!TrustedIn(log, S) # {} /\ newest = VP!FirstNewest(log, VP!TrustedIn(log, S))
        BY <2>2, <3>5 DEF VP!NewestIn
      <3>7. VP!IsNewest(log, VP!TrustedIn(log, S), VP!FirstNewest(log, VP!TrustedIn(log, S)))
        BY <1>0, <3>3, <3>4, <3>6, VerifierSetting, VP!NewestTrusted
      <3>8. newest \in VP!TrustedIn(log, S)
        BY <3>6, <3>7 DEF VP!IsNewest
      <3> QED
        BY <1>0, <3>4, <3>8, TrustedIsCommitted
    <2> QED
      BY <2>2, <2>3 DEF SystemInv, SerialInv, AnchorsMatchArtifacts
  <1>3. SystemSpec => []SystemInv
    BY <1>0, SystemInvariant
  <1> QED
    BY <1>1, <1>2, <1>3, PTL DEF SystemSpec
=============================================================================
