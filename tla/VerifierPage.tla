----------------------------- MODULE VerifierPage -----------------------------
(***************************************************************************)
(* web/index.html with cmd/wasmverify: what the page tells someone who     *)
(* presses "Verify" on a record, with or without a file.                   *)
(*                                                                         *)
(* The handler is asynchronous: it gives way at every await, and nothing   *)
(* keeps a second click from starting before the first has ended.  HII may *)
(* publish that it has withdrawn the record, or reinstated it, at any      *)
(* time.  Whether the record is signed, committed and vouched for is a     *)
(* fact, and no server can have a check report it of a record it is not so *)
(* of (LogCheck).  What the checks report besides depends on the server:   *)
(* an honest one serves its newest checkpoint and what is in its log; any  *)
(* other may serve an old checkpoint, tiles that prove nothing, and entry  *)
(* bundles with anchors left out (StatusVerifier).                         *)
(***************************************************************************)
EXTENDS Naturals

CONSTANTS
  Clicks,        \* presses of the button
  Fingerprints,  \* what certified works' fuzzy digests may be
  Forms,         \* of each press: what the form's fields may hold
  MaxChanges     \* bound: positions HII publishes

FileKinds ==
  {"none",
   "exact",       \* the certified bytes
   "same",        \* the same normalized text in other bytes
   "near", "far", \* a text within the threshold, and one above it
   "blank",       \* no text in it, as in a scanned document
   "unreadable",  \* its text cannot be extracted
   "empty",       \* no bytes at all
   "broken"}      \* its bytes cannot be read

Indices == {"empty", "wrong", "right"}        \* "wrong": of another leaf

Form ==
  [leaf : {"empty", "ill", "well"},           \* "ill": it does not decode
   file : FileKinds,
   index : Indices, bindingIndex : Indices,
   anchors : BOOLEAN,                         \* origin and vkey filled in
   idRoot : {"empty", "ill", "given"}]        \* "ill": not 64 hex digits

ASSUME VerifierPageAssumption ==
  /\ Fingerprints \subseteq
       {"text",     \* of the text
        "blank",    \* all zero: of a work without text
        "missing"}  \* none, or one this build cannot compare
  /\ Forms \in [Clicks -> SUBSET Form]
  /\ MaxChanges \in Nat

VARIABLES
  record,     \* the record: its kind, and what is true of it
  withdrawn,  \* HII's position by its newest published anchor
  published,  \* every position it has published of the record
  server,     \* "honest" if it serves what the log holds, else "any"
  pc, form,   \* of each click: where it is, and the fields it read
  results,    \* of each click in progress: fileCard's kind, and the checks' answers
  output,     \* what the page shows
  since,      \* history, of each click: the published positions while it ran
  changes     \* what is left of the bound

vars == <<record, withdrawn, published, server, pc, form, results, output, since,
          changes>>

Record ==
  [kind : {"attestation", "binding"}, signed : BOOLEAN, committed : BOOLEAN,
   vouched : BOOLEAN, fingerprint : Fingerprints]

EmptyForm ==
  [leaf |-> "empty", file |-> "none", index |-> "empty",
   bindingIndex |-> "empty", anchors |-> FALSE, idRoot |-> "empty"]

NoResults == [file |-> "none", inc |-> "none", id |-> "none", st |-> "none"]

Init ==
  /\ record \in {r \in Record : r.kind = "binding" => ~r.vouched}
  /\ withdrawn \in BOOLEAN /\ server \in {"honest", "any"}
  /\ published \in {p \in SUBSET BOOLEAN : withdrawn \in p}
  /\ pc = [c \in Clicks |-> "fresh"]
  /\ form = [c \in Clicks |-> EmptyForm]
  /\ results = [c \in Clicks |-> NoResults]
  /\ output = [shows |-> "nothing", by |-> "nobody"]
  /\ since = [c \in Clicks |-> {}]
  /\ changes = MaxChanges

\* HII withdraws the record or reverses that, and the anchor of it is committed:
\* from here on an honest server's checkpoint covers it.  (What HII decided and
\* has not published yet is not seen by any check.)
Publish ==
  /\ changes > 0
  /\ withdrawn' = ~withdrawn
  /\ published' = published \cup {withdrawn'}
  /\ changes' = changes - 1
  /\ since' = [c \in Clicks |-> IF pc[c] \in {"fresh", "ended"} THEN since[c]
                                ELSE since[c] \cup {withdrawn'}]
  /\ UNCHANGED <<record, server, pc, form, results, output>>

----------------------------------------------------------------------------
(* The file: MatchMedia through VerifyLeaf, and fileCard.                   *)

\* The content match of a file's bytes and text with the record.  An empty file's
\* base64 is "", which the page takes for no file; a blank text is still digested,
\* and when there is no text the raw bytes are.
Content(file) ==
  LET print == record.fingerprint
  IN  IF record.kind # "attestation" \/ file \in {"none", "empty"} THEN "none"
      ELSE IF file = "exact" THEN "exact"
      ELSE IF print = "missing" THEN "note"
      ELSE IF file = "same" \/ (file = "blank" /\ print = "blank") THEN "zero"
      ELSE IF file = "near" /\ print = "text" THEN "within"
      ELSE "above"

\* Mutant: a distance is shown, and the threshold is not looked at.
AnyDistance(match, extractNote) ==
  IF match \in {"none", "exact"} THEN match
  ELSE IF extractNote THEN "skipped"
  ELSE IF match = "zero" THEN "fuzzy0" ELSE "fuzzy"

\* fileCard's fileKind.  A note in place of a distance makes it "fuzzy" as well.
FileKind(match, extractNote) ==
  IF match \in {"none", "exact"} THEN match
  ELSE IF extractNote THEN "skipped"
  ELSE CASE match = "zero" -> "fuzzy0"
         [] match \in {"within", "note"} -> "fuzzy"
         [] match = "above" -> "fuzzyno"

----------------------------------------------------------------------------
(* The cards' states, as computeHero reads them: green, amber, red, none.  *)

\* inclusionCard and identityCard.
CheckState(answer) ==
  CASE answer = "none" -> "n" [] answer = "error" -> "a"
    [] answer = "yes" -> "g" [] answer = "no" -> "r"

\* statusCard.  Only a mismatch is red among the reasons for INDETERMINATE.
StatusState(answer) ==
  CASE answer = "none" -> "n" [] answer \in {"error", "INDETERMINATE"} -> "a"
    [] answer = "VERIFIED" -> "g"
    [] answer \in {"WITHDRAWN", "artifact_hash_mismatch"} -> "r"

\* Mutant: a status that was not checked does not stand in the way.
ProvenUnlessWithdrawn(r) ==
  /\ CheckState(r.inc) = "g"
  /\ record.kind = "attestation" => CheckState(r.id) = "g"

\* recordProven.  (By then no card is red.)
Proven(r) ==
  /\ CheckState(r.inc) = "g"
  /\ record.kind = "attestation" => CheckState(r.id) = "g"
  /\ StatusState(r.st) = "g"

\* computeHero: the title it settles on.
Hero(r) ==
  IF ~record.signed THEN "signature invalid"
  ELSE IF CheckState(r.inc) = "r" THEN "not committed"
  ELSE IF CheckState(r.id) = "r" THEN "identity not resolved"
  ELSE IF StatusState(r.st) = "r" THEN "withdrawn by HII"
  ELSE IF ~Proven(r) THEN "not fully verified"
  ELSE CASE r.file = "exact" -> "authentic"
         [] r.file \in {"fuzzy0", "fuzzy"} -> "verified, a consistent copy"
         [] r.file = "fuzzyno" -> "authentic, file does not match"
         [] r.file = "skipped" -> "verified, file not fully checked"
         [] r.file = "none" -> "verified record"

----------------------------------------------------------------------------
(* The handler, from await to await.                                       *)

Wanted(f) ==
  (IF f.index # "empty" /\ f.anchors THEN {"inclusion"} ELSE {})
  \cup (IF record.kind = "attestation" /\ f.bindingIndex # "empty"
              /\ f.idRoot # "empty" /\ f.anchors THEN {"identity"} ELSE {})
  \cup (IF f.anchors /\ f.idRoot # "empty" THEN {"status"} ELSE {})

Order == <<"file", "inclusion", "identity", "status">>

\* With results r of the stages up to n, the click runs on to the next await, or
\* to the verdict.  f are the fields it read.
Proceed(c, n, f, r) ==
  LET later == {m \in (n + 1)..4 : Order[m] \in Wanted(f)}
      next  == CHOOSE m \in later : \A k \in later : m <= k
  IN  IF later # {}
        THEN /\ pc' = [pc EXCEPT ![c] = Order[next]]
             /\ results' = [results EXCEPT ![c] = r]
             /\ output' = [shows |-> "progress", by |-> c]
        ELSE /\ pc' = [pc EXCEPT ![c] = "ended"]
             /\ results' = [results EXCEPT ![c] = NoResults]
             /\ output' = [shows |-> Hero(r), by |-> c]

\* Mutant: an exception ends the handler and leaves the page as it is.
ThrowSilently(c) ==
  /\ pc' = [pc EXCEPT ![c] = "ended"]
  /\ UNCHANGED <<results, output>>

\* An error box: of a missing leaf, of one in error, or the outermost catch's.
Throw(c) ==
  /\ pc' = [pc EXCEPT ![c] = "ended"]
  /\ output' = [shows |-> "error", by |-> c]
  /\ UNCHANGED results

\* cocVerifyLeaf: the leaf is decoded, and its signature and the file checked.
VerifyLeaf(c, f) ==
  \/ /\ f.leaf = "ill"
     /\ Throw(c)
  \/ /\ f.leaf = "well"
     /\ LET kind == FileKind(Content(f.file), f.file = "unreadable")
        IN  Proceed(c, 1, f, [NoResults EXCEPT !.file = kind])

\* The fields are read once, here; whatever is typed later is another press's.
Click(c) ==
  /\ pc[c] = "fresh"
  /\ \E f \in Forms[c] :
       /\ form' = [form EXCEPT ![c] = f]
       /\ \/ /\ f.leaf = "empty"
             /\ Throw(c)
          \/ /\ f.leaf # "empty" /\ f.file # "none"
             /\ pc' = [pc EXCEPT ![c] = "file"]
             /\ output' = [shows |-> "progress", by |-> c]
             /\ UNCHANGED results
          \/ /\ f.file = "none"
             /\ VerifyLeaf(c, f)
  /\ since' = [since EXCEPT ![c] = {withdrawn}]
  /\ UNCHANGED <<record, withdrawn, published, server, changes>>

\* fileToBase64 and extractText.  Only a file that cannot be read ends the click.
ReadFile(c) ==
  /\ pc[c] = "file"
  /\ \/ /\ form[c].file = "broken"
        /\ Throw(c)
     \/ /\ form[c].file # "broken"
        /\ VerifyLeaf(c, form[c])
  /\ UNCHANGED <<record, withdrawn, published, server, form, since, changes>>

\* newPromise: it settles once, with the answer or with whatever error stopped
\* the work; arguments that do not parse stop it before it has begun.
Promise(parses, answers) == {"error"} \cup (IF parses THEN answers ELSE {})

\* What a check reports of a fact: "no" also of one that holds, where what the
\* server sent does not prove it.
Reported(fact) ==
  (IF fact THEN {"yes"} ELSE {"no"}) \cup (IF server = "honest" THEN {} ELSE {"no"})

\* inclusionArgs.  What is not a number is index 0, like any index of another leaf.
CheckInclusion(c) ==
  /\ pc[c] = "inclusion"
  /\ LET found == record.committed /\ form[c].index = "right"
     IN  \E answer \in Promise(TRUE, Reported(found)) :
           Proceed(c, 2, form[c], [results[c] EXCEPT !.inc = answer])
  /\ UNCHANGED <<record, withdrawn, published, server, form, since, changes>>

\* parseIndex and parseRoots.
CheckIdentity(c) ==
  /\ pc[c] = "identity"
  /\ LET resolved == record.vouched /\ form[c].bindingIndex = "right"
     IN  \E answer \in Promise(form[c].idRoot = "given", Reported(resolved)) :
           Proceed(c, 3, form[c], [results[c] EXCEPT !.id = answer])
  /\ UNCHANGED <<record, withdrawn, published, server, form, since, changes>>

\* An honest server's checkpoint is of some moment since the click.  With another's,
\* any position ever published may be the newest that is found, and none at all
\* where its anchors are left out, which is VERIFIED.
Verdicts(c) ==
  {IF position THEN "WITHDRAWN" ELSE "VERIFIED" :
     position \in IF server = "honest" THEN since[c] ELSE published \cup {FALSE}}

\* parseRoots, and ResolveStatus.
ResolveStatus(c) ==
  /\ pc[c] = "status"
  /\ \E answer \in Promise(form[c].idRoot = "given",
                          {"INDETERMINATE", "artifact_hash_mismatch"} \cup Verdicts(c)) :
       Proceed(c, 4, form[c], [results[c] EXCEPT !.st = answer])
  /\ UNCHANGED <<record, withdrawn, published, server, form, since, changes>>

Step(c) == ReadFile(c) \/ CheckInclusion(c) \/ CheckIdentity(c) \/ ResolveStatus(c)

Next == Publish \/ \E c \in Clicks : Click(c) \/ Step(c)

Spec == Init /\ [][Next]_vars

----------------------------------------------------------------------------
Titles ==
  {"signature invalid", "not committed", "identity not resolved",
   "withdrawn by HII", "not fully verified", "authentic",
   "verified, a consistent copy", "authentic, file does not match",
   "verified, file not fully checked", "verified record"}

Affirmative ==
  {"authentic", "verified, a consistent copy", "authentic, file does not match",
   "verified, file not fully checked", "verified record"}

\* A title that affirms the record is earned by every check, of the click that
\* shows it.  Whatever the server, the record is signed, committed, and vouched for
\* if it is an attestation; and if the server is honest, there was a moment while
\* that click ran at which HII, by what it had published, had not withdrawn it.
\* (index.html:758-762: mandatory before the page may call anything verified.)
VerifiedMeansVerified ==
  output.shows \in Affirmative =>
    /\ record.signed
    /\ record.committed
    /\ record.kind = "attestation" => record.vouched
    /\ server = "honest" => FALSE \in since[output.by]

\* Whatever clicks overlap and whichever of them fail, once none is in progress
\* the page shows a verdict or an error, never "Verifying...".
SettlesOnAnswer ==
  (\A c \in Clicks : pc[c] \in {"fresh", "ended"})
    /\ (\E c \in Clicks : pc[c] = "ended")
    => output.shows \in Titles \cup {"error"}

\* What the title says of a file is so of the file of that press.  "Authentic" is said
\* of the certified bytes alone; "a consistent copy", where the work has the
\* fingerprint of a text, of a text that is the work's or near it; "does not match"
\* of a text that is not, and never for want of a fingerprint to compare with;
\* "not fully checked" of one that could not be read.  (What "a consistent copy" is
\* worth without the fingerprint of a text is for the next.)
CopyIsConsistent ==
  LET file  == form[output.by].file
      print == record.fingerprint
  IN  CASE output.shows = "authentic" -> file = "exact"
        [] output.shows = "verified, a consistent copy" ->
             print = "text" => file \in {"same", "near"}
        [] output.shows = "authentic, file does not match" ->
             /\ file \in {"near", "far", "blank"}
             /\ ~(file = "near" /\ print = "text") /\ print # "missing"
        [] output.shows = "verified, file not fully checked" -> file = "unreadable"
        [] OTHER -> TRUE

\* A verifier "MUST treat a missing fingerprint as no claim" and "MUST NOT treat an
\* all-zero digest as evidence of a match" (verification-spec.md:288-294): a file is
\* called a copy only of a work with the fingerprint of a text.
CopyHasEvidence ==
  output.shows = "verified, a consistent copy" => record.fingerprint = "text"
=============================================================================
