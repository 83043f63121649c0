------------------------------- MODULE LogCheck -------------------------------
(***************************************************************************)
(* pkg/cocverify/inclusion.go and identity.go: one check, against a server *)
(* that is not trusted, of whether an attestation is committed in the log  *)
(* and to whom its signing key was bound.                                  *)
(*                                                                         *)
(* The log itself is honest: what it signs is a prefix of one growing      *)
(* sequence.  Everything else a check reads (which checkpoint, bundles,    *)
(* tiles) is what the server chooses to serve, except that a checkpoint    *)
(* cannot be forged and that no inclusion proof verifies for a leaf that   *)
(* is not there.  Log indices count from 0, as in the code.                *)
(***************************************************************************)
EXTENDS Integers, Sequences

CONSTANTS
  PinnedRoots,  \* the pinned identity roots, a sequence of keys
  RootKeys, SignerKeys, Creators, Times,
  MaxLog        \* bound: leaves in the log

Id == INSTANCE Identity WITH
  roots <- [i \in DOMAIN PinnedRoots |->
              [key |-> PinnedRoots[i], notAfter |-> 0]],
  bindings <- << >>, answer <- "none", MaxRoots <- 0, MaxBindings <- 0

ASSUME LogCheckAssumption ==
  /\ PinnedRoots \in Seq(RootKeys) /\ PinnedRoots # << >>
  /\ Times \subseteq Nat \ {0}
  /\ MaxLog \in Nat

\* An attestation is told apart by its signer and its SubmittedAt.
Attestation == [kind : {"attestation"}, signer : SignerKeys, submittedAt : Times]

IdentityBinding == {[kind |-> "binding", binding |-> b] : b \in Id!IdentityBinding}

Leaf == Attestation \cup IdentityBinding

VARIABLES
  log,
  pc, asked,  \* where the check is, and which of the two it is
  leaf,       \* the attestation in hand
  index,      \* the receipt's index of it, or of its signer's binding
  size,       \* the tree size of the verified checkpoint
  served,     \* the binding leaf read, as served: {} until then
  honest,     \* history: all that was served so far is what it should be
  included,   \* the leaf at index is proven
  creators    \* {} or the one creator resolved

locals == <<asked, leaf, index>>
result == <<included, creators>>
vars   == <<log, pc, locals, size, served, honest, result>>

Init ==
  /\ log = << >>
  /\ pc = "idle" /\ asked = "inclusion"
  /\ leaf \in Attestation
  /\ index = 0 /\ size = 0 /\ served = {} /\ honest = TRUE
  /\ included = FALSE /\ creators = {}

Grow ==
  /\ Len(log) < MaxLog
  /\ \E l \in Leaf : log' = Append(log, l)
  /\ UNCHANGED <<pc, locals, size, served, honest, result>>

Move(from, to) == pc = from /\ pc' = to

\* VerifyInclusion and VerifyIdentity share their beginning.
Begin ==
  /\ pc \in {"idle", "done", "error"}
  /\ pc' = "checkpoint"
  /\ asked' \in {"inclusion", "identity"}
  /\ leaf' \in Attestation
  /\ index' \in 0..MaxLog
  /\ size' = 0 /\ served' = {} /\ honest' = TRUE
  /\ included' = FALSE /\ creators' = {}
  /\ UNCHANGED log

\* Any checkpoint the log ever signed verifies, an old one from a cache too.
FetchCheckpoint ==
  /\ Move("checkpoint", "bound")
  /\ size' \in 0..Len(log)
  /\ UNCHANGED <<log, locals, served, honest, result>>

\* An unverifiable checkpoint, a bundle or a tile that cannot be read.
Fail ==
  /\ pc \in {"checkpoint", "bundle", "proof"}
  /\ pc' = "error"
  /\ UNCHANGED <<log, locals, size, served, honest, result>>

BeyondTree ==
  /\ Move("bound", "done")
  /\ index >= size
  /\ UNCHANGED <<log, locals, size, served, honest, result>>

\* Mutant: an index equal to the tree size is let through.
WithinTreeOrAtEnd ==
  /\ Move("bound", IF asked = "identity" THEN "bundle" ELSE "proof")
  /\ index <= size /\ index < Len(log)
  /\ UNCHANGED <<log, locals, size, served, honest, result>>

WithinTree ==
  /\ Move("bound", IF asked = "identity" THEN "bundle" ELSE "proof")
  /\ index < size
  /\ UNCHANGED <<log, locals, size, served, honest, result>>

\* VerifyIdentity reads the leaf at index from its entry bundle.
FetchBundle ==
  /\ Move("bundle", "proof")
  /\ \E l \in Leaf : served' = {l} /\ honest' = (honest /\ l = log[index + 1])
  /\ UNCHANGED <<log, locals, size, result>>

ShortBundle ==
  /\ Move("bundle", "done")
  /\ honest' = FALSE
  /\ UNCHANGED <<log, locals, size, served, result>>

\* The leaf whose inclusion at index is to be proven.
Claimed == IF asked = "identity" THEN served ELSE {leaf}

\* Mutants: the outcome of the proof is not looked at.
ProveBlindly ==
  /\ Move("proof", IF asked = "identity" THEN "resolve" ELSE "done")
  /\ included' = TRUE
  /\ UNCHANGED <<log, locals, size, served, honest, creators>>

\* The proof is assembled from tiles.  Right ones prove the leaf that is there.
Prove ==
  /\ Move("proof", IF asked = "identity" THEN "resolve" ELSE "done")
  /\ Claimed = {log[index + 1]}
  /\ included' = TRUE
  /\ UNCHANGED <<log, locals, size, served, honest, creators>>

\* Nothing proves another leaf, and wrong tiles prove none.
FailProof ==
  /\ Move("proof", "done")
  /\ honest' = (honest /\ Claimed # {log[index + 1]})
  /\ UNCHANGED <<log, locals, size, served, result>>

\* Resolver.Add accepts the binding: a pinned root issued it and signed it.
Accepted(b) == Id!matchRoot(b.issuer) # 0 /\ b.signed

\* Mutants: the binding's signature is not verified, nor whom it authorizes.
AnyCreator(l) == IF l.kind = "binding" THEN {l.binding.creator} ELSE {}

\* What the proven leaf says of the signer at the attestation's time.
CreatorsBy(l) ==
  IF l.kind = "binding" /\ Accepted(l.binding)
    THEN {b.creator : b \in Id!Resolve(<<l.binding>>, leaf.signer, leaf.submittedAt)}
    ELSE {}

Resolve ==
  /\ Move("resolve", "done")
  /\ creators' = UNION {CreatorsBy(l) : l \in served}
  /\ UNCHANGED <<log, locals, size, served, honest, included>>

Next ==
  \/ Grow \/ Begin \/ FetchCheckpoint \/ Fail
  \/ BeyondTree \/ WithinTree \/ FetchBundle \/ ShortBundle
  \/ Prove \/ FailProof \/ Resolve

Spec == Init /\ [][Next]_vars

----------------------------------------------------------------------------
Committed(n) == {log[i] : i \in 1..n}

\* Whatever a server serves, "included" is said only of a leaf the log has
\* committed to, at that index and within that checkpoint.
IncludedIsCommitted ==
  included => /\ index < size /\ size <= Len(log)
              /\ Claimed = {log[index + 1]}

\* Whatever a server serves, a creator is named only on the word of a binding
\* the log has committed to, that a pinned root signed, for that very signer,
\* and that was valid when the attestation was submitted ("a bad pointer simply
\* fails to resolve", verification-spec.md section 9.1).
Vouches(l, c) ==
  /\ l.kind = "binding"
  /\ l.binding.creator = c
  /\ l.binding.key = leaf.signer
  /\ l.binding.validFrom <= leaf.submittedAt
  /\ l.binding.signed
  /\ \E i \in DOMAIN PinnedRoots : PinnedRoots[i] = l.binding.issuer

ResolvedIsVouched ==
  \A c \in creators : \E l \in Committed(size) : Vouches(l, c)

\* A server that serves the truth gets the truth told: the check comes out
\* positive exactly if the leaf is at its index, or the binding speaks for the
\* signer.
HonestMeansComplete ==
  pc = "done" /\ honest =>
    LET there == index < size
    IN  /\ asked = "inclusion" => (included <=> there /\ log[index + 1] = leaf)
        /\ asked = "identity" =>
             (creators # {} <=> there /\ \E c \in Creators : Vouches(log[index + 1], c))
=============================================================================
