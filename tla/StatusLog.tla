------------------------------ MODULE StatusLog ------------------------------
(***************************************************************************)
(* The data the publisher and the verifier of revocation status share: the *)
(* status artifact, the leaves of the transparency log, and the reading of *)
(* a stretch of the log for its newest trusted StatusAnchor.               *)
(*                                                                         *)
(* A hash is modelled by the bytes it was taken over: two artifacts have   *)
(* the same BLAKE3 hash iff they are the same record.  Everything in an    *)
(* artifact that is neither its version nor its withdrawn set (issued_at,  *)
(* log_size_at_issue) is one field, the stamp; two builds of the same set  *)
(* are the same bytes iff their stamps agree.                              *)
(*                                                                         *)
(* Log positions are 1-based here; leaf i is the code's index i - 1.       *)
(***************************************************************************)
EXTENDS Integers, Sequences

CONSTANTS
  Subjects,    \* attestation leaf hashes HII can withdraw
  Stamps,      \* values of (issued_at, log_size_at_issue)
  Keys,        \* signing keys that appear in StatusAnchors
  Issuer,      \* the publisher's identity-root key
  Roots,       \* the identity roots a verifier pins
  BundleSize   \* leaves per entry bundle (256 in the code)

ASSUME StatusLogAssumption ==
  /\ Stamps # {}
  /\ Issuer \in Keys
  /\ Roots \subseteq Keys
  /\ BundleSize \in Nat \ {0}

Artifact == [version : Nat, withdrawn : SUBSET Subjects, stamp : Stamps]

BuildArtifact(entries, version, stamp) ==
  [version |-> version, withdrawn |-> entries, stamp |-> stamp]

StatusAnchor ==
  [kind : {"anchor"}, version : Nat, hash : Artifact, issuer : Keys]

\* Any leaf that is not a decodable StatusAnchor: an attestation, a binding,
\* bytes of a kind this decoder does not know.
OtherLeaf == [kind |-> "other"]

Leaf == StatusAnchor \cup {OtherLeaf}

\* The anchor Publish signs over an artifact it has just stored.
AnchorOf(artifact) ==
  [kind |-> "anchor", version |-> artifact.version, hash |-> artifact,
   issuer |-> Issuer]

IsAnchor(leaf) == leaf.kind = "anchor"

isPinned(key) == key \in Roots

\* Validly signed by a pinned root.
Trusted(leaf) == IsAnchor(leaf) /\ isPinned(leaf.issuer)

TrustedIn(log, range) == {i \in range : Trusted(log[i])}

UntrustedIn(log, range) == {i \in range : IsAnchor(log[i]) /\ ~Trusted(log[i])}

\* Mutant: the first anchor found is kept, whatever its version.
FirstFound(log, S) == CHOOSE i \in S : \A j \in S : i <= j

(***************************************************************************)
(* The anchor a walk over positions S keeps: `>` on ArtifactVersion, so    *)
(* the first of several anchors with the greatest version.                 *)
(***************************************************************************)
FirstNewest(log, S) ==
  CHOOSE i \in S : \A j \in S : \/ log[j].version < log[i].version
                                \/ log[j].version = log[i].version /\ i <= j

\* 0 when S holds no anchor: the code's nil.
NewestIn(log, S) == IF S = {} THEN 0 ELSE FirstNewest(log, S)

\* What a walk that has kept an anchor (0: none) may keep after leaves S, read in an
\* order of which nothing is known: an anchor of a greater version, if there is one.
KeptInAnyOrder(log, S, kept) ==
  LET better == {i \in S : kept # 0 => log[i].version > log[kept].version}
  IN  IF better = {}
        THEN {kept}
        ELSE {i \in better : \A j \in better : log[j].version <= log[i].version}

\* The positions of anchors HII itself committed up to position n, and the
\* withdrawn set the last of them commits to: what HII has said so far.
Commits(log, n) == {i \in 1..n : IsAnchor(log[i]) /\ log[i].issuer = Issuer}

StatusAt(log, n) ==
  IF Commits(log, n) = {}
    THEN {}
    ELSE LET last == CHOOSE i \in Commits(log, n) :
                       \A j \in Commits(log, n) : j <= i
         IN  log[last].hash.withdrawn
=============================================================================
