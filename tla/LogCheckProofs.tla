---------------------------- MODULE LogCheckProofs ----------------------------
(***************************************************************************)
(* Inclusion and identity checks, for logs of every length and a server    *)
(* that serves anything.                                                   *)
(***************************************************************************)
EXTENDS LogCheck, FirstGreatest

\* Every variable of a check holds a value the code can give it.
TypeOK ==
  /\ log \in Seq(Leaf)
  /\ pc \in {"idle", "checkpoint", "bound", "bundle", "proof", "resolve",
             "done", "error"}
  /\ asked \in {"inclusion", "identity"}
  /\ leaf \in Attestation
  /\ index \in Nat /\ size \in Nat
  /\ served \subseteq Leaf
  /\ honest \in BOOLEAN /\ included \in BOOLEAN
  /\ creators \subseteq Creators

\* What a check has made sure of when it gets to a step.
CheckInv ==
  /\ size <= Len(log)
  /\ pc \in {"bundle", "proof", "resolve"} => index < size
  /\ pc \in {"checkpoint", "bound", "bundle", "proof"} =>
       ~included /\ creators = {}
  /\ pc = "resolve" => asked = "identity" /\ included
  /\ IncludedIsCommitted
  /\ ResolvedIsVouched

----------------------------------------------------------------------------
\* One binding, accepted and found for the signer, vouches for its creator.
LEMMA CreatorsAreVouched ==
  ASSUME NEW l \in Leaf, NEW c \in CreatorsBy(l)
  PROVE  Vouches(l, c) /\ c \in Creators
  <1>1. l.kind = "binding" /\ Accepted(l.binding)
    BY DEF CreatorsBy
  <1>2. l.binding \in Id!IdentityBinding
    BY <1>1 DEF Leaf, Attestation, IdentityBinding
  <1>3. PICK b \in Id!Resolve(<<l.binding>>, leaf.signer, leaf.submittedAt) :
          c = b.creator
    BY <1>1 DEF CreatorsBy
  <1> DEFINE S == Id!Eligible(<<l.binding>>, leaf.signer, leaf.submittedAt)
  <1>4. S # {} /\ b = <<l.binding>>[Id!Best(<<l.binding>>, S)]
    BY <1>3 DEF Id!Resolve
  <1>5. S = {1}
    BY <1>4 DEF Id!Eligible
  <1>6. /\ l.binding.key = leaf.signer
        /\ l.binding.validFrom <= leaf.submittedAt
    BY <1>5 DEF Id!Eligible
  <1>7. Id!Best(<<l.binding>>, S) = 1
    BY <1>5 DEF Id!Best
  <1>8. b = l.binding
    BY <1>4, <1>7
  <1>9. l.binding.signed /\ \E i \in DOMAIN PinnedRoots : PinnedRoots[i] = l.binding.issuer
    BY <1>1 DEF Accepted, Id!matchRoot
  <1> QED
    BY <1>1, <1>2, <1>3, <1>6, <1>8, <1>9 DEF Vouches, Id!IdentityBinding

\* Leaves that are appended leave the committed ones where they are.
LEMMA GrowKeeps ==
  ASSUME TypeOK, CheckInv, Grow
  PROVE  /\ log' \in Seq(Leaf)
         /\ size <= Len(log')
         /\ \A i \in 1..size : log'[i] = log[i]
         /\ Committed(size)' = Committed(size)
  <1>1. PICK l \in Leaf : log' = Append(log, l)
    BY DEF Grow
  <1>2. log' \in Seq(Leaf) /\ Len(log') = Len(log) + 1
    BY <1>1 DEF TypeOK
  <1>3. \A i \in 1..Len(log) : log'[i] = log[i]
    BY <1>1 DEF TypeOK
  <1>4. size' = size
    BY DEF Grow
  <1> QED
    BY <1>2, <1>3, <1>4 DEF TypeOK, CheckInv, Committed

----------------------------------------------------------------------------
LEMMA InitTypeOK == Init => TypeOK
  <1> SUFFICES ASSUME Init
               PROVE  TypeOK
    OBVIOUS
  <1>1. honest \in BOOLEAN /\ included \in BOOLEAN
    BY Zenon DEF Init
  <1> QED
    BY <1>1 DEF Init, TypeOK

LEMMA NextTypeOK == TypeOK /\ [Next]_vars => TypeOK'
  <1> SUFFICES ASSUME TypeOK, [Next]_vars
               PROVE  TypeOK'
    OBVIOUS
  <1> USE DEF TypeOK, Move, locals, result
  <1>1. CASE Grow
    BY <1>1 DEF Grow
  <1>2. CASE Begin
    <2>1. honest' \in BOOLEAN /\ included' \in BOOLEAN
      BY <1>2, Zenon DEF Begin
    <2>2. index' \in Nat
      BY <1>2, LogCheckAssumption DEF Begin
    <2> QED
      BY <1>2, <2>1, <2>2 DEF Begin
  <1>3. CASE FetchCheckpoint
    BY <1>3 DEF FetchCheckpoint
  <1>4. CASE Fail
    BY <1>4 DEF Fail
  <1>5. CASE BeyondTree
    BY <1>5 DEF BeyondTree
  <1>6. CASE WithinTree
    BY <1>6 DEF WithinTree
  <1>7. CASE FetchBundle
    BY <1>7 DEF FetchBundle
  <1>8. CASE ShortBundle
    BY <1>8 DEF ShortBundle
  <1>9. CASE Prove
    BY <1>9 DEF Prove
  <1>10. CASE FailProof
    BY <1>10 DEF FailProof
  <1>11. CASE Resolve
    <2>1. \A l \in served : CreatorsBy(l) \subseteq Creators
      BY CreatorsAreVouched
    <2>2. creators' \subseteq Creators
      BY <1>11, <2>1 DEF Resolve
    <2> QED
      BY <1>11, <2>2 DEF Resolve
  <1>12. CASE UNCHANGED vars
    BY <1>12 DEF vars
  <1> QED
    BY <1>1, <1>2, <1>3, <1>4, <1>5, <1>6, <1>7, <1>8, <1>9, <1>10, <1>11,
       <1>12 DEF Next

\* Every variable of a check keeps its type.
THEOREM TypeCorrect == Spec => []TypeOK
  BY InitTypeOK, NextTypeOK, PTL DEF Spec

----------------------------------------------------------------------------
LEMMA InitCheck == Init => CheckInv
  BY DEF Init, CheckInv, IncludedIsCommitted, ResolvedIsVouched

\* A step that leaves alone the log and what was established keeps it.
LEMMA QuietCheck ==
  ASSUME TypeOK, CheckInv, UNCHANGED <<log, asked, leaf, index, size, included, creators>>,
         included => served' = served
  PROVE  IncludedIsCommitted' /\ ResolvedIsVouched'
  BY DEF CheckInv, IncludedIsCommitted, ResolvedIsVouched, Claimed, Committed,
         Vouches

LEMMA NextCheck == TypeOK /\ CheckInv /\ [Next]_vars => CheckInv'
  <1> SUFFICES ASSUME TypeOK, CheckInv, [Next]_vars
               PROVE  CheckInv'
    OBVIOUS
  <1> USE DEF Move, locals, result
  <1>1. CASE Grow
    <2>1. UNCHANGED <<pc, asked, leaf, index, size, served, included, creators>>
      BY <1>1 DEF Grow
    <2>2. IncludedIsCommitted'
      BY <1>1, <2>1, GrowKeeps DEF TypeOK, CheckInv, IncludedIsCommitted, Claimed
    <2>3. ResolvedIsVouched'
      BY <1>1, <2>1, GrowKeeps DEF CheckInv, ResolvedIsVouched, Vouches
    <2> QED
      BY <1>1, <2>1, <2>2, <2>3, GrowKeeps DEF CheckInv
  <1>2. CASE Begin
    BY <1>2 DEF Begin, TypeOK, CheckInv, IncludedIsCommitted, ResolvedIsVouched
  <1>3. CASE FetchCheckpoint
    BY <1>3 DEF FetchCheckpoint, TypeOK, CheckInv, IncludedIsCommitted,
                ResolvedIsVouched
  <1>4. CASE Fail
    BY <1>4, QuietCheck DEF Fail, CheckInv
  <1>5. CASE BeyondTree
    BY <1>5, QuietCheck DEF BeyondTree, CheckInv
  <1>6. CASE WithinTree
    BY <1>6, QuietCheck DEF WithinTree, CheckInv, TypeOK
  <1>7. CASE FetchBundle
    BY <1>7, QuietCheck DEF FetchBundle, CheckInv
  <1>8. CASE ShortBundle
    BY <1>8, QuietCheck DEF ShortBundle, CheckInv
  <1>9. CASE Prove
    <2>1. IncludedIsCommitted'
      BY <1>9 DEF Prove, CheckInv, IncludedIsCommitted, Claimed, TypeOK
    <2>2. ResolvedIsVouched'
      BY <1>9 DEF Prove, CheckInv, ResolvedIsVouched, Committed, Vouches
    <2> QED
      BY <1>9, <2>1, <2>2 DEF Prove, CheckInv, TypeOK
  <1>10. CASE FailProof
    BY <1>10, QuietCheck DEF FailProof, CheckInv
  <1>11. CASE Resolve
    <2>1. UNCHANGED <<log, asked, leaf, index, size, served, included>>
      BY <1>11 DEF Resolve
    <2>2. served = {log[index + 1]} /\ index < size /\ size <= Len(log)
      BY <1>11 DEF Resolve, CheckInv, IncludedIsCommitted, Claimed
    <2>3. log[index + 1] \in Leaf /\ log[index + 1] \in Committed(size)
      BY <2>2 DEF TypeOK, Committed
    <2>4. \A c \in creators' : Vouches(log[index + 1], c)
      BY <1>11, <2>2, <2>3, CreatorsAreVouched DEF Resolve
    <2>5. ResolvedIsVouched'
      BY <2>1, <2>3, <2>4 DEF ResolvedIsVouched, Committed, Vouches
    <2>6. IncludedIsCommitted'
      BY <2>1 DEF CheckInv, IncludedIsCommitted, Claimed
    <2> QED
      BY <1>11, <2>1, <2>5, <2>6 DEF Resolve, CheckInv
  <1>12. CASE UNCHANGED vars
    BY <1>12, QuietCheck DEF vars, CheckInv
  <1> QED
    BY <1>1, <1>2, <1>3, <1>4, <1>5, <1>6, <1>7, <1>8, <1>9, <1>10, <1>11,
       <1>12 DEF Next

\* What a check relies on at each step always holds.
LEMMA CheckInvariant == Spec => [](TypeOK /\ CheckInv)
  BY InitTypeOK, NextTypeOK, InitCheck, NextCheck, PTL DEF Spec

\* inclusion.go:62-96: whatever is served, "included" is said only of a leaf the
\* log has committed to, at that index and within that checkpoint.
THEOREM InclusionSound == Spec => []IncludedIsCommitted
  BY CheckInvariant, PTL DEF CheckInv

\* identity.go:49-120: whatever is served, a creator is named only on the word
\* of a binding in the log that a pinned root signed, for that signer, valid by
\* the time of submission.
THEOREM IdentitySound == Spec => []ResolvedIsVouched
  BY CheckInvariant, PTL DEF CheckInv

----------------------------------------------------------------------------
(* A server that serves the truth.                                         *)

\* A binding that vouches for a creator is accepted and found.
LEMMA VouchedIsCreator ==
  ASSUME NEW l \in Leaf, NEW c, Vouches(l, c)
  PROVE  c \in CreatorsBy(l)
  <1> DEFINE S == Id!Eligible(<<l.binding>>, leaf.signer, leaf.submittedAt)
  <1>1. Accepted(l.binding)
    <2>1. PICK n \in DOMAIN PinnedRoots : PinnedRoots[n] = l.binding.issuer
      BY DEF Vouches
    <2>2. n \in 1..Len(PinnedRoots) /\ Len(PinnedRoots) \in Nat
      BY LogCheckAssumption
    <2> DEFINE entries == {j \in DOMAIN PinnedRoots : PinnedRoots[j] = l.binding.issuer}
    <2>3. entries \subseteq 1..Len(PinnedRoots) /\ entries # {}
      BY <2>1, LogCheckAssumption
    <2>4. \E j \in entries : \A m \in entries : j <= m
      <3> HIDE DEF entries
      <3> QED
        BY <2>2, <2>3, FirstExists
    <2>5. (CHOOSE j \in entries : \A m \in entries : j <= m) # 0
      <3> HIDE DEF entries
      <3>1. (CHOOSE j \in entries : \A m \in entries : j <= m) \in entries
        BY <2>4, Zenon
      <3>2. 0 \notin entries
        BY <2>2, <2>3
      <3> QED
        BY <3>1, <3>2, Zenon
    <2>6. Id!matchRoot(l.binding.issuer)
            = (IF entries = {} THEN 0
               ELSE CHOOSE j \in entries : \A m \in entries : j <= m)
      <3> DEFINE rs == [i \in DOMAIN PinnedRoots |-> [key |-> PinnedRoots[i], notAfter |-> 0]]
      <3>1. {j \in DOMAIN rs : rs[j].key = l.binding.issuer} = entries
        OBVIOUS
      <3>2. Id!matchRoot(l.binding.issuer)
              = LET found == {j \in DOMAIN rs : rs[j].key = l.binding.issuer}
                IN  IF found = {} THEN 0
                    ELSE CHOOSE j \in found : \A m \in found : j <= m
        BY Zenon DEF Id!matchRoot
      <3> HIDE DEF rs, entries
      <3> QED
        BY <3>1, <3>2, Zenon
    <2> QED
      BY <2>3, <2>5, <2>6 DEF Accepted, Vouches
  <1>2. S = {1}
    BY DEF Vouches, Id!Eligible
  <1>3. Id!Best(<<l.binding>>, S) = 1
    <2>1. l.binding \in Id!IdentityBinding
      BY DEF Vouches, Leaf, Attestation, IdentityBinding
    <2>2. l.binding.validFrom \in Nat
      BY <2>1, LogCheckAssumption DEF Id!IdentityBinding
    <2> QED
      BY <1>2, <2>2 DEF Id!Best
  <1>4. Id!Resolve(<<l.binding>>, leaf.signer, leaf.submittedAt) = {l.binding}
    BY <1>2, <1>3 DEF Id!Resolve
  <1> QED
    BY <1>1, <1>4 DEF CreatorsBy, Vouches

\* While all was served as it is, what was read is what is there.
HonestInv ==
  honest =>
    /\ pc \in {"proof", "resolve"} /\ asked = "identity" => served = {log[index + 1]}
    /\ HonestMeansComplete

LEMMA NextHonest ==
  TypeOK /\ CheckInv /\ CheckInv' /\ HonestInv /\ [Next]_vars => HonestInv'
  <1> SUFFICES ASSUME TypeOK, CheckInv, CheckInv', HonestInv, [Next]_vars, honest'
               PROVE  HonestInv'
    BY DEF HonestInv
  <1> USE DEF Move, locals, result
  <1>1. CASE Grow
    <2>1. UNCHANGED <<pc, asked, leaf, index, size, served, honest, included, creators>>
      BY <1>1 DEF Grow
    <2>2. index < size => log'[index + 1] = log[index + 1]
      BY <1>1, GrowKeeps DEF TypeOK
    <2>3. pc \in {"proof", "resolve"} => index < size
      BY DEF CheckInv
    <2>4. HonestMeansComplete'
      BY <2>1, <2>2 DEF HonestInv, HonestMeansComplete, Vouches
    <2> QED
      BY <2>1, <2>2, <2>3, <2>4 DEF HonestInv
  <1>2. CASE Begin \/ FetchCheckpoint \/ Fail
    <2>1. pc' \in {"checkpoint", "bound", "error"}
      BY <1>2 DEF Begin, FetchCheckpoint, Fail
    <2> QED
      BY <2>1 DEF HonestInv, HonestMeansComplete
  <1>3. CASE BeyondTree
    BY <1>3 DEF BeyondTree, HonestInv, HonestMeansComplete, CheckInv, TypeOK
  <1>4. CASE WithinTree
    BY <1>4 DEF WithinTree, HonestInv, HonestMeansComplete
  <1>5. CASE FetchBundle
    BY <1>5 DEF FetchBundle, HonestInv, HonestMeansComplete
  <1>6. CASE ShortBundle
    BY <1>6 DEF ShortBundle
  <1>7. CASE Prove
    <2>1. /\ UNCHANGED <<log, asked, leaf, index, size, served, honest, creators>>
          /\ Claimed = {log[index + 1]} /\ included'
          /\ pc' = IF asked = "identity" THEN "resolve" ELSE "done"
      BY <1>7 DEF Prove
    <2>2. index < size
      BY <1>7 DEF Prove, CheckInv
    <2> QED
      BY <2>1, <2>2 DEF HonestInv, HonestMeansComplete, Claimed, TypeOK
  <1>8. CASE FailProof
    <2>1. /\ UNCHANGED <<log, asked, leaf, index, size, served, included, creators>>
          /\ Claimed # {log[index + 1]} /\ honest /\ pc = "proof" /\ pc' = "done"
      BY <1>8 DEF FailProof
    <2>2. asked = "inclusion" /\ leaf # log[index + 1]
      BY <2>1 DEF HonestInv, Claimed, TypeOK
    <2>3. ~included /\ creators = {}
      BY <2>1 DEF CheckInv
    <2> QED
      BY <2>1, <2>2, <2>3 DEF HonestInv, HonestMeansComplete
  <1>9. CASE Resolve
    <2> DEFINE l == log[index + 1]
    <2>1. /\ UNCHANGED <<log, asked, leaf, index, size, served, honest, included>>
          /\ creators' = UNION {CreatorsBy(m) : m \in served}
          /\ pc = "resolve" /\ pc' = "done"
      BY <1>9 DEF Resolve
    <2>2. asked = "identity" /\ index < size /\ size <= Len(log) /\ served = {l}
      BY <2>1 DEF CheckInv, HonestInv
    <2>3. l \in Leaf
      BY <2>2 DEF TypeOK
    <2>4. creators' = CreatorsBy(l)
      BY <2>1, <2>2
    <2>5. creators' # {} <=> \E c \in Creators : Vouches(l, c)
      <3> HIDE DEF l
      <3> QED
        BY <2>3, <2>4, CreatorsAreVouched, VouchedIsCreator
    <2> QED
      BY <2>1, <2>2, <2>5 DEF HonestInv, HonestMeansComplete, Vouches
  <1>10. CASE UNCHANGED vars
    BY <1>10 DEF vars, HonestInv, HonestMeansComplete, Vouches
  <1> QED
    BY <1>1, <1>2, <1>3, <1>4, <1>5, <1>6, <1>7, <1>8, <1>9, <1>10 DEF Next

\* Whatever the log holds and however it grows meanwhile, a server that serves
\* the truth gets the truth told: included exactly if the leaf is at its index,
\* a creator exactly if the binding there vouches for one.
THEOREM HonestIsComplete == Spec => []HonestMeansComplete
  <1>1. Init => HonestInv
    BY DEF Init, HonestInv, HonestMeansComplete
  <1>2. HonestInv => HonestMeansComplete
    BY DEF HonestInv, HonestMeansComplete
  <1> QED
    BY <1>1, <1>2, NextHonest, CheckInvariant, PTL DEF Spec
=============================================================================
