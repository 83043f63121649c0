-------------------------- MODULE VerifierPageProofs --------------------------
(***************************************************************************)
(* What the page says, for every number of presses, whatever their forms,  *)
(* whatever the server, and however often HII changes its position.        *)
(*                                                                         *)
(* A press that is under way holds results it has earned; a title is made  *)
(* of them in the step that ends the press, and is never looked at again,  *)
(* so it has to stay true of what has gone on since.  It does because      *)
(* `since` only grows while a press is under way and is kept when it has   *)
(* ended, and because no later step takes a title for its own: each shows  *)
(* the press that makes it.                                                *)
(***************************************************************************)
EXTENDS VerifierPage, TLAPS

Awaits == {"file", "inclusion", "identity", "status"}

Results ==
  [file : {"none", "exact", "skipped", "fuzzy0", "fuzzy", "fuzzyno"},
   inc : {"none", "error", "yes", "no"}, id : {"none", "error", "yes", "no"},
   st : {"none", "error", "INDETERMINATE", "VERIFIED", "WITHDRAWN",
         "artifact_hash_mismatch"}]

IsCopy(rec, file) == rec.fingerprint = "text" => file \in {"same", "near"}

DoesNotMatch(rec, file) ==
  /\ file \in {"near", "far", "blank"}
  /\ ~(file = "near" /\ rec.fingerprint = "text")
  /\ rec.fingerprint # "missing"

\* What fileCard's kind says of the file, for a press on record rec.
FileSays(rec, kind, file) ==
  /\ kind = "exact" => file = "exact"
  /\ kind \in {"fuzzy0", "fuzzy"} => IsCopy(rec, file)
  /\ kind = "fuzzyno" => DoesNotMatch(rec, file)
  /\ kind = "skipped" => file = "unreadable"

\* Results r of a press on rec with file, over which HII's positions were s.
Earned(rec, file, r, s) ==
  /\ r \in Results
  /\ FileSays(rec, r.file, file)
  /\ r.inc = "yes" => rec.committed
  /\ r.id = "yes" => rec.vouched
  /\ r.st = "VERIFIED" /\ server = "honest" => FALSE \in s

TypesOK ==
  /\ record \in Record
  /\ withdrawn \in BOOLEAN /\ server \in {"honest", "any"}
  /\ pc \in [Clicks -> Awaits \cup {"fresh", "ended"}]
  /\ form \in [Clicks -> Form]
  /\ results \in [Clicks -> Results]
  /\ since \in [Clicks -> SUBSET BOOLEAN]

ClickOK(c) ==
  /\ pc[c] = "fresh" => results[c] = NoResults
  /\ pc[c] = "file" => results[c] = NoResults
  /\ Earned(record, form[c].file, results[c], since[c])

OutputOK ==
  \/ output.shows = "nothing" /\ \A c \in Clicks : pc[c] = "fresh"
  \/ /\ output.by \in Clicks
     /\ output.shows = "progress" /\ pc[output.by] \in Awaits
  \/ /\ output.by \in Clicks
     /\ output.shows \in Titles \cup {"error"} /\ pc[output.by] = "ended"

PageInv ==
  /\ TypesOK
  /\ \A c \in Clicks : ClickOK(c)
  /\ OutputOK
  /\ VerifiedMeansVerified
  /\ CopyIsConsistent

----------------------------------------------------------------------------
(* The title.                                                              *)

\* A title that is computed from earned results is true.
LEMMA HeroSays ==
  ASSUME record \in Record, NEW file, NEW s, NEW r, Earned(record, file, r, s)
  PROVE  /\ Hero(r) \in Titles
         /\ Hero(r) \in Affirmative =>
              /\ record.signed /\ record.committed
              /\ record.kind = "attestation" => record.vouched
              /\ server = "honest" => FALSE \in s
         /\ Hero(r) = "authentic" => file = "exact"
         /\ Hero(r) = "verified, a consistent copy" => IsCopy(record, file)
         /\ Hero(r) = "authentic, file does not match" => DoesNotMatch(record, file)
         /\ Hero(r) = "verified, file not fully checked" => file = "unreadable"
  <1>1. r.file \in {"none", "exact", "skipped", "fuzzy0", "fuzzy", "fuzzyno"}
    BY DEF Earned, Results
  <1>2. Hero(r) \in Titles
    BY <1>1 DEF Hero, Titles
  <1>3. ASSUME Hero(r) \in Affirmative
        PROVE  record.signed /\ Proven(r)
    BY <1>3 DEF Hero, Affirmative
  <1>4. Proven(r) => /\ r.inc = "yes"
                     /\ record.kind = "attestation" => r.id = "yes"
                     /\ r.st = "VERIFIED"
    BY DEF Proven, CheckState, StatusState, Earned, Results
  <1>5. /\ Hero(r) = "authentic" => r.file = "exact"
        /\ Hero(r) = "verified, a consistent copy" => r.file \in {"fuzzy0", "fuzzy"}
        /\ Hero(r) = "authentic, file does not match" => r.file = "fuzzyno"
        /\ Hero(r) = "verified, file not fully checked" => r.file = "skipped"
    BY <1>1 DEF Hero
  <1> QED
    BY <1>2, <1>3, <1>4, <1>5 DEF Earned, FileSays

\* fileCard's kind is earned by the file.
LEMMA FileKindSays ==
  ASSUME record \in Record, NEW file \in FileKinds, file # "broken"
  PROVE  LET kind == FileKind(Content(file), file = "unreadable")
         IN  /\ kind \in {"none", "exact", "skipped", "fuzzy0", "fuzzy", "fuzzyno"}
             /\ FileSays(record, kind, file)
  <1>1. record.fingerprint \in {"text", "blank", "missing"}
    BY VerifierPageAssumption DEF Record
  <1> QED
    BY <1>1 DEF FileKind, Content, FileSays, IsCopy, DoesNotMatch, FileKinds

----------------------------------------------------------------------------
(* A step of one press.                                                    *)

\* The step moves press c, with fields f, to p, where it holds r.
Moves(c, f, p, r) ==
  /\ pc' = [pc EXCEPT ![c] = p]
  /\ form' = [form EXCEPT ![c] = f]
  /\ results' = [results EXCEPT ![c] = r]
  /\ output'.by = c
  /\ \/ p \in Awaits /\ output'.shows = "progress"
     \/ p = "ended" /\ output'.shows = "error"
     \/ /\ p = "ended"
        /\ \E q : Earned(record, f.file, q, since'[c]) /\ output'.shows = Hero(q)

LEMMA MovesKeep ==
  ASSUME PageInv, NEW c \in Clicks, NEW f \in Form, NEW p, NEW r,
         Moves(c, f, p, r), UNCHANGED <<record, withdrawn, server>>,
         since' \in [Clicks -> SUBSET BOOLEAN],
         \A d \in Clicks : d # c => since'[d] = since[d],
         Earned(record, f.file, r, since'[c]), p = "file" => r = NoResults
  PROVE  PageInv'
  <1> USE DEF PageInv, TypesOK
  <1>1. r \in Results /\ p \in Awaits \cup {"ended"}
    BY DEF Earned, Moves
  <1>2. TypesOK'
    BY <1>1 DEF Moves, Record
  <1>3. /\ pc'[c] = p /\ form'[c] = f /\ results'[c] = r
        /\ output'.by = c
        /\ \A d \in Clicks : d # c => /\ pc'[d] = pc[d] /\ form'[d] = form[d]
                                      /\ results'[d] = results[d]
    BY DEF Moves
  <1>4. record' = record /\ server' = server
    OBVIOUS
  <1>5. ASSUME NEW d \in Clicks
        PROVE  ClickOK(d)'
    <2>1. CASE d = c
      BY <1>3, <1>4, <2>1 DEF ClickOK, Earned, Moves, Awaits
    <2>2. CASE d # c
      BY <1>3, <1>4, <2>2 DEF ClickOK, Earned
    <2> QED
      BY <2>1, <2>2
  <1>6. CASE \/ p \in Awaits /\ output'.shows = "progress"
             \/ p = "ended" /\ output'.shows = "error"
    <2>1. OutputOK'
      BY <1>3, <1>6 DEF OutputOK
    <2>2. VerifiedMeansVerified' /\ CopyIsConsistent'
      BY <1>6 DEF VerifiedMeansVerified, CopyIsConsistent, Affirmative
    <2> QED
      BY <1>2, <1>5, <2>1, <2>2
  <1>7. ASSUME NEW q, Earned(record, f.file, q, since'[c]),
               output'.shows = Hero(q), p = "ended"
        PROVE  PageInv'
    <2> DEFINE title == output'.shows
    <2>1. /\ title \in Titles
          /\ title \in Affirmative =>
               /\ record.signed /\ record.committed
               /\ record.kind = "attestation" => record.vouched
               /\ server = "honest" => FALSE \in since'[c]
          /\ title = "authentic" => f.file = "exact"
          /\ title = "verified, a consistent copy" => IsCopy(record, f.file)
          /\ title = "authentic, file does not match" =>
               DoesNotMatch(record, f.file)
          /\ title = "verified, file not fully checked" => f.file = "unreadable"
      BY <1>7, HeroSays
    <2>2. OutputOK'
      BY <1>3, <1>7, <2>1 DEF OutputOK
    <2>3. VerifiedMeansVerified'
      BY <1>3, <1>4, <2>1 DEF VerifiedMeansVerified
    <2>4. CopyIsConsistent'
      BY <1>3, <1>4, <2>1 DEF CopyIsConsistent, IsCopy, DoesNotMatch
    <2> QED
      BY <1>2, <1>5, <2>2, <2>3, <2>4
  <1> QED
    BY <1>6, <1>7 DEF Moves

\* Going on with results r, the press moves, and keeps them or makes a title of them.
LEMMA ProceedMoves ==
  ASSUME PageInv, NEW c \in Clicks, NEW f \in Form, NEW n \in 1..4, NEW r,
         Proceed(c, n, f, r), form' = [form EXCEPT ![c] = f],
         Earned(record, f.file, r, since'[c])
  PROVE  \E p, q : /\ Moves(c, f, p, q)
                   /\ Earned(record, f.file, q, since'[c])
                   /\ p # "file"
  <1> DEFINE later == {m \in (n + 1)..4 : Order[m] \in Wanted(f)}
             next  == CHOOSE m \in later : \A k \in later : m <= k
  <1>1. CASE later # {}
    <2>1. later \subseteq {2, 3, 4}
      OBVIOUS
    <2>2. \E m \in later : \A k \in later : m <= k
      <3> HIDE DEF later
      <3>1. CASE 2 \in later
        BY <2>1, <3>1
      <3>2. CASE 2 \notin later /\ 3 \in later
        BY <2>1, <3>2
      <3>3. CASE 2 \notin later /\ 3 \notin later
        <4>1. later = {4}
          BY <1>1, <2>1, <3>3
        <4> QED
          BY <4>1
      <3> QED
        BY <3>1, <3>2, <3>3
    <2>3. next \in later
      <3> HIDE DEF later
      <3> QED
        BY <2>2
    <2>4. Order[next] \in Wanted(f)
      BY <2>3
    <2>5. Order[next] \in Awaits /\ Order[next] # "file"
      <3> HIDE DEF next
      <3> QED
        BY <2>4 DEF Wanted, Awaits
    <2>6. /\ pc' = [pc EXCEPT ![c] = Order[next]]
          /\ results' = [results EXCEPT ![c] = r]
          /\ output' = [shows |-> "progress", by |-> c]
      BY <1>1 DEF Proceed
    <2>7. Moves(c, f, Order[next], r)
      BY <2>5, <2>6 DEF Moves
    <2> QED
      BY <2>5, <2>7
  <1>2. CASE later = {}
    <2>1. /\ pc' = [pc EXCEPT ![c] = "ended"]
          /\ results' = [results EXCEPT ![c] = NoResults]
          /\ output' = [shows |-> Hero(r), by |-> c]
      BY <1>2 DEF Proceed
    <2>2. Moves(c, f, "ended", NoResults)
      BY <2>1 DEF Moves
    <2>3. Earned(record, f.file, NoResults, since'[c])
      BY DEF Earned, NoResults, Results, FileSays
    <2> QED
      BY <2>2, <2>3
  <1> QED
    BY <1>1, <1>2

LEMMA ProceedKeeps ==
  ASSUME PageInv, NEW c \in Clicks, NEW f \in Form, NEW n \in 1..4, NEW r,
         Proceed(c, n, f, r), form' = [form EXCEPT ![c] = f],
         Earned(record, f.file, r, since'[c]), UNCHANGED <<record, withdrawn, server>>,
         since' \in [Clicks -> SUBSET BOOLEAN],
         \A d \in Clicks : d # c => since'[d] = since[d]
  PROVE  PageInv'
  <1>1. PICK p, q : /\ Moves(c, f, p, q)
                    /\ Earned(record, f.file, q, since'[c])
                    /\ p # "file"
    BY ProceedMoves
  <1> QED
    BY <1>1, MovesKeep

\* An error box, of a press that holds what it held.
LEMMA ThrowKeeps ==
  ASSUME PageInv, NEW c \in Clicks, NEW f \in Form,
         Throw(c), form' = [form EXCEPT ![c] = f],
         Earned(record, f.file, results[c], since'[c]),
         UNCHANGED <<record, withdrawn, server>>,
         since' \in [Clicks -> SUBSET BOOLEAN],
         \A d \in Clicks : d # c => since'[d] = since[d]
  PROVE  PageInv'
  <1>1. results' = [results EXCEPT ![c] = results[c]]
    BY DEF Throw, PageInv, TypesOK
  <1>2. Moves(c, f, "ended", results[c])
    BY <1>1 DEF Throw, Moves
  <1> QED
    BY <1>2, MovesKeep

LEMMA NothingEarned ==
  ASSUME NEW file, NEW s
  PROVE  Earned(record, file, NoResults, s)
  BY DEF Earned, NoResults, Results, FileSays

LEMMA VerifyLeafKeeps ==
  ASSUME PageInv, NEW c \in Clicks, NEW f \in Form, f.file # "broken",
         results[c] = NoResults,
         VerifyLeaf(c, f), form' = [form EXCEPT ![c] = f],
         UNCHANGED <<record, withdrawn, server>>,
         since' \in [Clicks -> SUBSET BOOLEAN],
         \A d \in Clicks : d # c => since'[d] = since[d]
  PROVE  PageInv'
  <1>1. CASE Throw(c)
    BY <1>1, ThrowKeeps, NothingEarned
  <1>2. CASE ~Throw(c)
    <2> DEFINE kind == FileKind(Content(f.file), f.file = "unreadable")
               r    == [NoResults EXCEPT !.file = kind]
    <2>1. f.file \in FileKinds /\ record \in Record
      BY DEF Form, PageInv, TypesOK
    <2>2. /\ kind \in {"none", "exact", "skipped", "fuzzy0", "fuzzy", "fuzzyno"}
          /\ FileSays(record, kind, f.file)
      BY <2>1, FileKindSays
    <2>3. Proceed(c, 1, f, r)
      BY <1>2 DEF VerifyLeaf
    <2>4. Earned(record, f.file, r, since'[c])
      <3> HIDE DEF kind
      <3> QED
        BY <2>2 DEF Earned, NoResults, Results
    <2>5. 1 \in 1..4
      OBVIOUS
    <2> HIDE DEF r
    <2> QED
      BY <2>3, <2>4, <2>5, ProceedKeeps
  <1> QED
    BY <1>1, <1>2

----------------------------------------------------------------------------
(* The invariant.                                                          *)

LEMMA PageInit == Init => PageInv
  <1> SUFFICES ASSUME Init PROVE PageInv
    OBVIOUS
  <1>1. TypesOK
    BY DEF Init, TypesOK, Form, EmptyForm, FileKinds, Indices, Results, NoResults
  <1>2. \A c \in Clicks : ClickOK(c)
    BY NothingEarned DEF Init, ClickOK
  <1>3. OutputOK /\ VerifiedMeansVerified /\ CopyIsConsistent
    BY DEF Init, OutputOK, VerifiedMeansVerified, CopyIsConsistent, Affirmative
  <1> QED
    BY <1>1, <1>2, <1>3 DEF PageInv

LEMMA PublishKeeps ==
  ASSUME PageInv, Publish
  PROVE  PageInv'
  <1> USE DEF PageInv, Publish
  <1>1. TypesOK'
    BY DEF TypesOK
  <1>2. \A c \in Clicks : since[c] \subseteq since'[c]
    BY DEF TypesOK
  <1>3. \A c \in Clicks : ClickOK(c)'
    <2> SUFFICES ASSUME NEW c \in Clicks PROVE ClickOK(c)'
      OBVIOUS
    <2>1. CASE pc[c] = "fresh"
      <3>1. results'[c] = NoResults /\ pc'[c] = "fresh"
        BY <2>1 DEF ClickOK
      <3>2. Earned(record, form[c].file, NoResults, since[c])'
        BY DEF Earned, NoResults, Results, FileSays
      <3> QED
        BY <3>1, <3>2 DEF ClickOK
    <2>2. CASE pc[c] # "fresh"
      BY <1>2, <2>2 DEF ClickOK, Earned
    <2> QED
      BY <2>1, <2>2
  <1>4. OutputOK'
    BY DEF OutputOK
  <1>5. CopyIsConsistent'
    BY DEF CopyIsConsistent
  <1>6. VerifiedMeansVerified'
    <2>1. ASSUME output.shows \in Affirmative
          PROVE  output.by \in Clicks /\ pc[output.by] = "ended"
      BY <2>1 DEF OutputOK, Affirmative
    <2> QED
      BY <1>2, <2>1 DEF VerifiedMeansVerified
  <1> QED
    BY <1>1, <1>3, <1>4, <1>5, <1>6

LEMMA ClickKeeps ==
  ASSUME PageInv, NEW c \in Clicks, Click(c)
  PROVE  PageInv'
  <1>1. PICK f \in Forms[c] :
          /\ form' = [form EXCEPT ![c] = f]
          /\ \/ Throw(c)
             \/ /\ pc' = [pc EXCEPT ![c] = "file"]
                /\ output' = [shows |-> "progress", by |-> c]
                /\ UNCHANGED results
             \/ f.file = "none" /\ VerifyLeaf(c, f)
    BY DEF Click
  <1>2. f \in Form
    BY VerifierPageAssumption
  <1>3. results[c] = NoResults /\ results \in [Clicks -> Results]
    BY DEF Click, PageInv, TypesOK, ClickOK
  <1>4. UNCHANGED <<record, withdrawn, server>>
    BY DEF Click
  <1>5. /\ since' \in [Clicks -> SUBSET BOOLEAN]
        /\ \A d \in Clicks : d # c => since'[d] = since[d]
    BY DEF Click, PageInv, TypesOK
  <1>6. CASE Throw(c)
    BY <1>1, <1>2, <1>3, <1>4, <1>5, <1>6, ThrowKeeps, NothingEarned
  <1>7. CASE /\ pc' = [pc EXCEPT ![c] = "file"]
             /\ output' = [shows |-> "progress", by |-> c]
             /\ UNCHANGED results
    <2>1. results' = [results EXCEPT ![c] = NoResults]
      BY <1>3, <1>7
    <2>2. Moves(c, f, "file", NoResults)
      BY <1>1, <1>7, <2>1 DEF Moves, Awaits
    <2> QED
      BY <1>2, <1>4, <1>5, <2>2, MovesKeep, NothingEarned
  <1>8. CASE f.file = "none" /\ VerifyLeaf(c, f)
    BY <1>1, <1>2, <1>3, <1>4, <1>5, <1>8, VerifyLeafKeeps
  <1> QED
    BY <1>1, <1>6, <1>7, <1>8

LEMMA StepKeeps ==
  ASSUME PageInv, NEW c \in Clicks, Step(c)
  PROVE  PageInv'
  <1>1. /\ form[c] \in Form /\ results[c] \in Results
        /\ since[c] \in SUBSET BOOLEAN
    BY DEF PageInv, TypesOK
  <1>2. UNCHANGED <<record, withdrawn, server, form, since>>
    BY DEF Step, ReadFile, CheckInclusion, CheckIdentity, ResolveStatus
  <1>3. /\ form' = [form EXCEPT ![c] = form[c]]
        /\ since' \in [Clicks -> SUBSET BOOLEAN]
        /\ \A d \in Clicks : d # c => since'[d] = since[d]
    BY <1>2 DEF PageInv, TypesOK, ClickOK, Step, ReadFile, CheckInclusion,
                CheckIdentity, ResolveStatus
  <1>4. Earned(record, form[c].file, results[c], since'[c])
    BY <1>2 DEF PageInv, ClickOK
  <1>5. CASE ReadFile(c)
    <2>1. results[c] = NoResults
      BY <1>5 DEF ReadFile, PageInv, ClickOK
    <2>2. CASE Throw(c)
      BY <1>1, <1>2, <1>3, <1>4, <2>2, ThrowKeeps
    <2>3. CASE form[c].file # "broken" /\ VerifyLeaf(c, form[c])
      BY <1>1, <1>2, <1>3, <2>1, <2>3, VerifyLeafKeeps
    <2> QED
      BY <1>5, <2>2, <2>3 DEF ReadFile
  <1>6. CASE CheckInclusion(c)
    <2>1. PICK a \in {"error", "yes", "no"} :
            /\ a = "yes" => record.committed
            /\ Proceed(c, 2, form[c], [results[c] EXCEPT !.inc = a])
      BY <1>6 DEF CheckInclusion, Promise, Reported
    <2> DEFINE r == [results[c] EXCEPT !.inc = a]
    <2>2. Earned(record, form[c].file, r, since'[c])
      BY <1>1, <1>4, <2>1 DEF Earned, Results
    <2>3. Proceed(c, 2, form[c], r) /\ 2 \in 1..4
      BY <2>1
    <2> HIDE DEF r
    <2> QED
      BY <1>1, <1>2, <1>3, <2>2, <2>3, ProceedKeeps
  <1>7. CASE CheckIdentity(c)
    <2>1. PICK a \in {"error", "yes", "no"} :
            /\ a = "yes" => record.vouched
            /\ Proceed(c, 3, form[c], [results[c] EXCEPT !.id = a])
      BY <1>7 DEF CheckIdentity, Promise, Reported
    <2> DEFINE r == [results[c] EXCEPT !.id = a]
    <2>2. Earned(record, form[c].file, r, since'[c])
      BY <1>1, <1>4, <2>1 DEF Earned, Results
    <2>3. Proceed(c, 3, form[c], r) /\ 3 \in 1..4
      BY <2>1
    <2> HIDE DEF r
    <2> QED
      BY <1>1, <1>2, <1>3, <2>2, <2>3, ProceedKeeps
  <1>8. CASE ResolveStatus(c)
    <2>1. PICK a \in {"error", "INDETERMINATE", "artifact_hash_mismatch",
                      "WITHDRAWN", "VERIFIED"} :
            /\ a = "VERIFIED" /\ server = "honest" => FALSE \in since[c]
            /\ Proceed(c, 4, form[c], [results[c] EXCEPT !.st = a])
      <3>1. since[c] \subseteq BOOLEAN
        BY <1>1
      <3>2. \A v \in Verdicts(c) :
              /\ v \in {"VERIFIED", "WITHDRAWN"}
              /\ v = "VERIFIED" /\ server = "honest" => FALSE \in since[c]
        BY <3>1 DEF Verdicts
      <3>3. PICK a \in {"error", "INDETERMINATE", "artifact_hash_mismatch"}
                          \cup Verdicts(c) :
              Proceed(c, 4, form[c], [results[c] EXCEPT !.st = a])
        <4> HIDE DEF Verdicts
        <4> QED
          BY <1>8 DEF ResolveStatus, Promise
      <3>4. a = "VERIFIED" /\ server = "honest" => FALSE \in since[c]
        BY <3>2, <3>3
      <3>5. a \in {"error", "INDETERMINATE", "artifact_hash_mismatch",
                   "WITHDRAWN", "VERIFIED"}
        BY <3>2, <3>3
      <3> QED
        BY <3>3, <3>4, <3>5
    <2> DEFINE r == [results[c] EXCEPT !.st = a]
    <2>2. Earned(record, form[c].file, r, since'[c])
      BY <1>1, <1>2, <1>4, <2>1 DEF Earned, Results
    <2>3. Proceed(c, 4, form[c], r) /\ 4 \in 1..4
      BY <2>1
    <2> HIDE DEF r
    <2> QED
      BY <1>1, <1>2, <1>3, <2>2, <2>3, ProceedKeeps
  <1> QED
    BY <1>5, <1>6, <1>7, <1>8 DEF Step

\* What every state of the page's life satisfies.
THEOREM PageInvariant == Spec => []PageInv
  <1>1. ASSUME PageInv, [Next]_vars PROVE PageInv'
    <2>1. CASE Publish
      BY <1>1, <2>1, PublishKeeps
    <2>2. ASSUME NEW c \in Clicks, Click(c) PROVE PageInv'
      BY <1>1, <2>2, ClickKeeps
    <2>3. ASSUME NEW c \in Clicks, Step(c) PROVE PageInv'
      BY <1>1, <2>3, StepKeeps
    <2>4. CASE UNCHANGED vars
      <3>1. \A c \in Clicks : ClickOK(c)'
        BY <1>1, <2>4 DEF PageInv, ClickOK, Earned, vars
      <3> QED
        BY <1>1, <2>4, <3>1
           DEF vars, PageInv, TypesOK, OutputOK, VerifiedMeansVerified,
               CopyIsConsistent
    <2> QED
      BY <1>1, <2>1, <2>2, <2>3, <2>4 DEF Next
  <1> QED
    BY PageInit, <1>1, PTL DEF Spec

\* A title that affirms the record is earned by every check of the press it is of,
\* whatever that press found in its fields and however many presses ran beside it:
\* with any server the record is signed, committed and vouched for, and with an
\* honest one HII had, by what it had published, not withdrawn it at some moment while
\* that press ran.
THEOREM TitlesAreEarned == Spec => []VerifiedMeansVerified
  <1>1. PageInv => VerifiedMeansVerified
    BY DEF PageInv
  <1> QED
    BY <1>1, PageInvariant, PTL

\* The page never calls a file the work, no match to it or unchecked, but as that
\* press's file deserves; nor a copy of a work with the fingerprint of a text, but one
\* whose text is the work's or near it.
THEOREM FileTitlesAreTrue == Spec => []CopyIsConsistent
  <1>1. PageInv => CopyIsConsistent
    BY DEF PageInv
  <1> QED
    BY <1>1, PageInvariant, PTL

\* With no press in progress the page shows an answer, if there was a press at all:
\* the last to write the output is one that has ended, and it ended with an answer.
THEOREM PageAlwaysSettles == Spec => []SettlesOnAnswer
  <1>1. PageInv => SettlesOnAnswer
    <2> SUFFICES ASSUME PageInv, NEW c \in Clicks, pc[c] = "ended",
                        \A d \in Clicks : pc[d] \in {"fresh", "ended"}
                 PROVE  output.shows \in Titles \cup {"error"}
      BY DEF SettlesOnAnswer
    <2> QED
      BY DEF PageInv, OutputOK, Awaits
  <1> QED
    BY <1>1, PageInvariant, PTL
=============================================================================
