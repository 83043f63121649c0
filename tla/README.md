# Formal verification of the chain-of-creation verifier

HII certifies works. For each event of a work it appends a signed leaf (an
*attestation*) to a public transparency log; further leaves bind signing keys
to creators (*identity bindings*) and commit to the current set of withdrawn
attestations (*status anchors*). This repository holds the leaf formats, the
publisher of revocation status, and everything a third party runs to check a
record without trusting HII's servers: a Go library, a command-line tool and a
web page.

The TLA+ modules in this directory model that code; TLC checks them on small
instances and TLAPS proves the central ones for instances of every size. Every
definition that stands for code is listed in `PROJECT.json` under `map` with
the lines it was translated from. Definitions introduced by a comment
`Mutant:` are plausible bugs, used to show that each checked property can
tell the code from a broken version of it.

## 1. The system

| Part | State it keeps | Operations | Talks to | What is hard | What makes it correct |
|---|---|---|---|---|---|
| **Status publisher** `pkg/status/publish.go` | none between calls; all it knows is in the object store (`status/latest.json`, the *hint*; `status/v/N.json`, the *artifacts*) and in the log | `Reconcile` = read hint, read artifact, compare, then `Publish` = put artifact, append anchor, put hint | object store, log | three writes to two services without a transaction; every call may fail or fail after taking effect; crash between writes; overlapping HTTP requests; retries that read stale state | an anchor never names a missing object; versions grow; anchored artifacts stay what was anchored; a success means the set is committed; nothing is republished needlessly; changes come to be seen |
| **Status verifier** `pkg/status/resolve.go`, `pkg/cocverify/status.go` | locals of one check | verify checkpoint, read hint, scan entry bundles from the hint, rescan from 0, fetch and hash the artifact | log (tiles), object store, both untrusted | the hint may be stale or a lie; log and store move on during the check; bundle boundaries and the partial last bundle; partial failures; nothing authenticates an entry bundle | shown the log, verdict = newest trusted anchor's, wherever the hint pointed; shown anything, no VERIFIED over an anchor it was shown without a trusted one's word; never inconclusive without a reason |
| **Status artifact** `pkg/status/artifact.go`, `normalise`, `sameSet` | - | sort and compare the withdrawn list, canonical JSON, parse, `Find` | - | records come in any order, with a hash twice, in another base64 spelling, with reasons that are not UTF-8 | an unchanged set is the same bytes; what is withdrawn is found |
| **Identity resolver** `pkg/identity` | trusted roots with cutoffs; accepted bindings in order of arrival | `TrustRoot`, `Add`, `Resolve` | leaves | order of arrival, duplicate roots, ties, times at a cutoff | what is accepted stays vouched for; cutoffs shield resolution; a new binding never rewrites the past; load order is irrelevant |
| **Inclusion and identity checks** `pkg/cocverify/{inclusion,identity}.go` | locals of one check | verify checkpoint, bound the index, read the leaf, build and verify the proof, resolve the creator | log (untrusted tiles) | index = tree size; old checkpoints; a server that serves another leaf or wrong tiles | positives are backed by the log; an honest server gets the right answer |
| **Provenance** `internal/provenance` | index work -> events | `Add`, `Work`, `Analyze`, `Linearize` | leaves | forks, several roots, missing parents, duplicates, all at once | linear means one history, and it is found |
| **Work report** `internal/verify/report.go` | the report's events and verdict | `BuildWorkReport`, `SetEventStatus` | provenance, status | order of leaves; statuses applied in any order, twice, for unknown hashes | deterministic; the verdict is the worst of the events' |
| **Verifier page** `web/index.html`, `cmd/wasmverify` | the output element; per click: the fields read and the results so far | click -> file, inclusion, identity, status -> title | all the checks, through WASM promises | awaits between the steps; a second click while one runs; each check skipped, rejected or inconclusive; HII publishing another position meanwhile; old checkpoints | a title that affirms was earned by every check; what it says of a file is so; a click that ends leaves an answer |
| **Leaf codec** `pkg/leaf` | locals of a decoder | `Marshal`, `Unmarshal*`, `Sign`, `Verify` | - | length prefixes from the input, presence flag, trailing bytes, three kinds under one key | round trip; strictness; a signature covers one leaf only |
| **Attestation builder, fuzzy digests** `pkg/attest`, `pkg/fuzzy`, `MatchMedia` in `internal/verify/verify.go` | registry of algorithms | `Build`, `BuildPrecomputed`; SimHash over shingles or tokens, pHash at the median, distance, tolerance | - | the algorithm is a name, given by one of two builders and looked up years later; short texts, ties, all-zero digests, digests of another size | the certified file is recognised, as far as its digest says anything; a match is earned |
| **Tool trace** `internal/verify/tooltrace.go` | - | `InspectToolTrace`: decode into a map and into a struct, compare the hash | - | repeated and case-folded keys, `null`, trailing bytes: the two decodings differ | a match of a canonical trace names the leaf; what HII writes is understood |
| **Command line** `cmd/hiiverify` | index, resolver, the flags | ingest files and directories, select work and target, print | provenance, identity, report | directory order; one file of many unusable, or refused by the resolver | a report is of everything asked for, or there is none |
| **Corpus generator** `cmd/gencorpus` | - | write test vectors | - | - | - |

A reconciliation reads *records* (what HII holds withdrawn), writes the store
and the log; the log's operator integrates leaves and signs checkpoints;
verifiers read checkpoints, tiles and the store. No process takes part in more
than its own side: publisher and verifier meet only in the log and the store,
which is how the modules are composed.

## 2. The modules

| Module | Models | Notes |
|---|---|---|
| `StatusLog` | the data publisher and verifier share | artifacts, leaves, and "the first of the anchors with the greatest version" (`FirstNewest`). A hash is the bytes it was taken over. |
| `StatusPublisher` | `publish.go` | a call of `Reconcile` is a process; one action per read, comparison and write, and one per way each may fail (`Fault(kind)`). `prev` is `{}` for the code's `nil`, `{W}` otherwise. `Crash` may come at any step. |
| `StatusVerifier` | `resolve.go` driven by `cocverify/status.go` | one action per fetch; `FetchHint` takes any index, which stands for every stale, wrong or dishonest hint; `EndsOfBundle` is the client library's partial-or-full bundle. `ScanBundle` reads a bundle of the log, `ScanAltered` one that is not: any leaves of the log in any order, others left out, and anchors no pinned root has signed; `faithful` and `shown` remember which it was |
| `StatusSystem` | publisher + log + checkpoints + verifier | `EXTENDS StatusPublisher`, `INSTANCE StatusVerifier` on the same `log` and `artifacts` |
| `StatusPromise` | the abstract specification | what revocation status promises, with no store, hint, version or scan; `StatusSystem` implements it under the mapping `Promise` |
| `StatusSystemProofs`, `StatusVerifierProofs` | - | theorems about the publisher, about the composition, and about one check |
| `Identity`, `FirstGreatest`, `IdentityProofs` | `pkg/identity` | `Reject*`/`Accept` follow `Add`'s early returns in order; `matchRoot` is the first entry of a root; `Resolve` is the code's loop, as "first of the greatest" |
| `LogCheck`, `LogCheckProofs` | `VerifyInclusion` and `VerifyIdentity` | the server chooses the checkpoint, the bundle and the tiles; it cannot forge a checkpoint or a proof |
| `Provenance`, `WorkReport`, `WorkReportProofs` | `internal/provenance`, `report.go` | chains as sequences of events in order of arrival; the walk of `Linearize` is a recursive function; `AddLeaf`, `BuildWorkReport` and `SetEventStatus` are the actions |
| `HiiVerify` | `cmd/hiiverify` | `EXTENDS WorkReport`, `INSTANCE Identity`: the command drives an index, a resolver and a report. One action per file ingested, one for selecting and printing. `BuildWorkReport` is a function of the chain and the bindings, so that two orders can be compared |
| `VerifierPage`, `VerifierPageProofs` | the click handler, cards and title of `index.html`, with `VerifyLeaf` and the promises of `cmd/wasmverify` | one process per click, one action from `await` to `await`. Every field of the form is empty, well or ill formed (`Form`), and a promise settles once, with a value or an error. A server is honest or not. An honest one's checkpoint covers what HII has published at the time; before another a committed leaf may come out as not included (`Reported`), and the status is that of any position HII ever published, or VERIFIED (`Verdicts`) |
| `LeafCodec` | `pkg/leaf` | the layouts as tables, the decoder read by read, on leaves with one byte edited. Widths are scaled to one byte |
| `StatusListing` | the withdrawn set as the list it is | a base64 string is a number: `2h` is the encoder's spelling of hash `h`, `2h + 1` another that the decoder accepts |
| `ToolTrace` | `tooltrace.go` | a JSON object as its members in the order written, of three keys, one of which equals another but for its case |
| `ContentMatch` | `pkg/attest`, `pkg/fuzzy`, `MatchMedia` | a text is its normalized words, a picture the coefficients of its transform; digests are sets of bits. `Digest` is the set of what builds may return: a coefficient at the median (`Ties`) falls on either side of it. The same text may be kept in other bytes, a picture in other bytes is another picture |
| `Formats`, `FormatsProofs` | the composition of those four | each behaviour is about one of them: they share no state in the code either |
| `MCPublisher`, `MCVerifier`, `MCLogCheck`, `MCWorkReport`, `MCVerifierPage` | instances for TLC | `MCVerifier` starts from *every* log and store, not only those a publisher can produce; in `MCWorkReport` a behaviour is one of a caller of the library, or one of a run of `hiiverify` |

What is abstracted everywhere: signatures hold or do not (a field of the leaf,
or the issuer's key); hashes do not collide; wording and layout are left out,
except for the page's titles, which properties are about. Positions in
`StatusLog` count from 1, indices in `LogCheck` from 0.

## 3. What is checked

Eight runs pass; four show a disagreement (section 6). States are distinct
states.

| Run | Question | Bounds | States |
|---|---|---|---|
| `PublisherAny` | What does the order of the three writes alone guarantee? | 2 overlapping calls, any one of the 11 kinds of fault, 1 change of the records, 1 foreign leaf; calls are symmetric | 1.5 M |
| `System` | Do publisher and verifier together keep the promise; do changes come to be seen, and withdrawals to bite? | 1 call at a time, any one of the 7 harmless faults, 2 changes, 1 foreign leaf (an attestation or a stranger's anchor), bundles of 2, served as they are or not at all; under fairness | 0.35 M |
| `Verifier` | Is one check sound against anything in log and store, and anything served as its bundles? | logs of up to 3 leaves, 2 versions, both signers; all read faults, bundles with any leaves left out, moved or made up; every hint | 1.37 M |
| `Identity` | Do roots, cutoffs, bindings and load order behave? | 2 root entries, 3 bindings, 3 times, 2 creators | 37 k |
| `LogCheck` | Is a positive backed by the log, and an honest server heard? | logs of 2 leaves, 2 pinned roots and a stranger, 2 times | 0.41 M |
| `WorkReport` | Are analysis, order and verdict right, and is what `hiiverify` prints complete and the same in any order of its files? | every forest over 3 leaves, every sequence of up to 3 loads with repetition, every sequence of answers; and every command line (root absent, ill formed or given; work absent or given; a target, with media only; media absent, unreadable or readable) over up to 3 files out of 2 attestations, 6 bindings and one file that cannot be used | 0.60 M |
| `Page` | Is every title earned, and does the page settle? | 2 clicks; any one field of the first's form not as it should be, the second without a file, with a broken one, or without an identity root; 3 kinds of fingerprint; an honest server or any; 1 more position published | 2.82 M |
| `Codec` | Is what is written read back as it was, and nothing else? | 3 kinds of leaf with up to 2 fields set, every edit of one byte and every cut; 3 withdrawals in every order, with 3 spellings, 2 details (one not UTF-8), 2 versions; traces of 3 members; texts of 4 words, pictures of 4 coefficients with every tie, 4-bit digests | 1.06 M |

### Why the bounds are enough

* *Publisher.* A wrong version, hint or artifact needs one call that stops
  half-way and one more that builds on what it left, or runs beside it: one
  fault and two calls that repeat give each of those; for more of them there
  are the theorems. Withdrawn sets over one subject
  are enough because the code compares sets only for equality.
* *System.* Two changes make versions 1 and 2 (and 3, for a call that repeats
  one), which is what "newest" and "superseded" need; bundles of two make a
  scan that begins in the middle of a bundle, crosses a boundary and ends in a
  partial bundle.
* *Verifier.* Three anchors are the least for which first, newest and hinted
  anchor all differ; two versions give growing, equal and falling pairs. A bundle that
  is not the log's may show any of the log's leaves, so what it could bring
  together over many bundles one of it brings already.
* *Identity.* Three bindings: one in force, one later, one tied or of another
  root.
* *WorkReport.* Three leaves make every shape that `links` tells apart: a
  line, a fork, two roots, a missing parent, a duplicate, and pairs of them.
  For the command two attestations are one of the work and one of another, or
  two of it; the bindings are in force, later, tied, of another key, of a
  foreign root and unsigned, each of which `Add` or `Resolve` treats in a way
  of its own, and three files leave room for an event between two of them.
* *Page.* The handlers of two presses share only the output and HII's position, so
  two show every way in which one may overwrite the other's answer. One field
  at a time is wrong because a check that does not run leaves the others alone.
* *Codec.* Two fields that are not zero show a byte moving from one field to
  another; bytes 0..3 contain every tag, both flags and a flag that is neither,
  and lengths that are too small, right and too large. Three withdrawals are
  the least for a sort to have a middle; the spellings 2, 3, 4 are two of one
  hash and one of the next. Three members of a trace give a pair of repeated
  keys and a third between or after them. Texts of 0 to 4 words have no
  shingle, one short one, one of full length, and two.

### Fairness

`SystemFairness` and `Fairness` assume: a call of `Reconcile` is begun again
and again and runs to its end (docs/verification-spec.md section 12.4: the
reconciliation is periodic), and the log integrates what it has accepted and
signs a checkpoint that covers it. Nothing is assumed of HII's records, of
other leaves, of failures (they are bounded, not forbidden) or of those who
check: `WithdrawalTakesEffect` speaks of the checks that are made.

`CHECK_DEADLOCK FALSE` is set where the modelled program ends: a decoder or
an inspection (`Codec`), a page whose buttons have been pressed (`Page`,
`NoFingerprint`), and a command that has printed or failed (`WorkReport`).

## 4. What is proved

All theorems are about the specification for every value of the constants; the
prover checks them to the last leaf and nothing is assumed but the `ASSUME`s of
the modules (types and ranges of the constants) and what a theorem names. Every
safety invariant and every action property that a passing run checks is stated
by one of them, within the assumptions given here.

`FirstGreatest` holds what the proofs need of loops. A loop `if best == nil ||
x > best` finds the first of the greatest, for any finite set of candidates
(`FirstGreatestExists`). A loop that takes step after step computes a sequence
of values, which exists (`IntervalRecursion`) and keeps what each step keeps
(`IntervalInduction`); both come from `LeastExists`, that a non-empty set of
numbers has a least. Induction is stated on sets throughout, since the
library's theorems on it are about operators.

**`StatusSystemProofs`: the publisher**

* `TypeCorrect`: `Spec => []TypeOK`. (No run is spent on type invariants;
  they are parts of the invariants proved.)
* `AnchorsAlwaysFetchable`, `HintAlwaysAnchored`: for *any* number of
  overlapping calls and *any* faults, crashes included, the artifact of every
  committed anchor is stored, and the hint names a committed anchor. Neither
  is inductive by itself; `WriteOrderInv` adds what a call in the middle of its
  writes has done: before the append, its draft's version is stored; before
  the hint, the log holds its anchor at `index`. This is the code's write
  order (publish.go:130-136) as an invariant. Leaves are only appended and
  objects never deleted, so nothing another call does disturbs it.
* `VersionsAlwaysIncrease`, `AnchorsAlwaysMatch`, `SuccessAlwaysCommitted`:
  under `OneAtATime` (calls do not overlap) and
  `Faults \subseteq HarmlessFaults` (no failure leaves the hint behind the
  newest anchor). `SerialInv` says that every anchor either has been overtaken
  by the hint (`Announced`) or is the one the only call is about to announce
  (`BeingAnnounced`), and what that call's locals are worth at each step
  (`LocalsInv`). The assumptions are necessary: section 6.
* `NeverRedundant`: under the same assumptions a call that could read the hinted
  artifact appends no anchor for the set the log commits to already. `FreshInv`
  keeps what the comparison found until the append: the set the call holds
  differs from that of the newest anchor.

**`StatusSystemProofs`: the composition**

* `PromiseAlwaysKept`: `SystemSpec => KeepsPromise`, that is, `StatusSystem`
  implements `StatusPromise`. Assumed are `OneAtATime`, harmless faults, a
  verifier that trusts the publisher's key alone, and read faults of any kind
  but `"altered"`: the entry bundles are the log's. Without the last it does
  not hold (section 6, `BundleOmits`). The argument: every step of the publisher is a step of its
  specification (`SystemPublishes`) and every step of the whole is one of a
  check beside which log and store change (`SystemVerifies`), so the invariants
  of both hold. Versions grow along the log, hence "newest by version among
  the leaves read", which is what the verifier computes, is "last in the log",
  which is what the promise speaks of; and a stored artifact is what its anchor
  commits to, so a definite verdict is that set's (`DefiniteIsPromised`).
  `PromiseAlwaysKept` maps each action to a step of the promise or a stutter.
* `NeverFalseAlarm`: if, beside that, artifacts are served as stored (`"substituted"`
  is no read fault), no check ends in `artifact_hash_mismatch`.

**`StatusVerifierProofs`** is about `VerifierSpec`: one check, while the log
grows and the store and the checkpoint change in any way between any two of
its steps (`Elsewhere`), for every hint and every bundle size. `VerifierInv`
has two parts: `ScanOK`, that `newest` is the first of the newest trusted
anchors in the bundles read so far, and `ResultOK`, what a result rests on.

* `ReasonAlwaysGiven`: INDETERMINATE comes with a reason, a definite verdict
  with none. `VerdictAlwaysNewest`: the hint cannot change a definite verdict
  of a walk that was shown the log. `AlwaysFailsClosed`: over an anchor
  VERIFIED needs the word of a trusted one, whatever was shown; "over an
  anchor" is over any up to the checkpoint if the walk was shown the log, and
  over any it was shown otherwise. `UntrustedAlwaysNone`: the reason tells the
  absence of a trusted anchor in the log from a failure.
* `ScanAltered` is a step of this specification, and `VerifierInv` keeps both
  kinds of walk: one that is faithful knows of every leaf, any other of those it
  was shown (`Evidence`).

**`IdentityProofs`** (on `FirstGreatestExists`)

* `TypeCorrect`; `BindingsAlwaysStayVouched`: what was accepted stays signed, of a
  trusted root and within the cutoff that root has, whatever is trusted later;
  `PastAlwaysStands`: adding a binding changes nothing at times
  before it is valid; `CutoffAlwaysShields`: no binding past its root's cutoff
  ever becomes what a key resolves to, if no root is trusted twice;
  `OrderAlwaysFree`: without ties, any order of loading resolves alike.

**`LogCheckProofs`**

* `TypeCorrect`; `InclusionSound`, `IdentitySound`: for every log, every
  sequence of pinned roots and a server that serves anything, a positive answer
  is backed by the log. `CheckInv` says what a check has made sure of when it
  gets to a step: the index lies within a checkpoint that the log has signed,
  and a binding is read for its content only after its inclusion was proven.
  The assumption is the model's: checkpoints and inclusion proofs cannot be
  forged, and the log is append-only.
* `HonestIsComplete`: a server that serves the truth has it told, while the log
  grows; `HonestInv` says that then the leaf a check goes on with is the one at
  its index; `CheckInv` adds that the index is covered, and what is covered
  does not change.

**`WorkReportProofs`**

* `VerifiedAlwaysCleared`, `VerdictAlwaysWorst` from `ReportInvariant`: every
  hash of a report has an event, the first with that hash, that carries its
  last answer, and any later duplicate carries none.
* `PrintedAlwaysComplete`, `IdentityAlwaysRootSigned` from `HiiInvariant`: the
  index holds the attestations among the files read, the resolver the bindings
  the root signed, and the report is built of exactly those. The identity of an
  event is "the first of the latest" of them (`FirstGreatest` again).
* `OrderAlwaysFree`: for any number of leaves, any two orders of loading them
  give one report. An event sits at place m of a sorted chain if fewer than m of
  the events come before it, by sequence number and hash, and at least m do not
  come after it: that does not speak of an order of loading, and two events at
  one place have the same hash (`PlaceTells`), though leaves loaded twice may
  have changed places.
  `Analyze` is a matter of sets of positions, which a permutation maps to one
  another (`OneAnalysis`).
* `LinearAlwaysMeansHistory`: for any leaves in any order, with duplicates,
  missing parents, forks and several roots, `Linear` holds exactly if the events
  form one history, and `Linearize` then returns it. From a single root the walk
  visits, step by step, events each the parent of the next (`WalkSteps`), which
  are all different because a parent ranks below its children, and if nothing
  forks and no parent is missing all of them (`LinearWalks`). The other
  way, a history has one root and no fork. Assumed is that a hash cannot be
  contained in what it was taken over (`Acyclic`, which every initial state
  has), and that there are finitely many leaves (`WorkReportAssumption`).
* Both are about callers of the library (`Spec`), and the first about events and
  summary only, without identities. Of `hiiverify` (`HiiSpec`)
  `CommandReadsHistories` says the second, and `PrintedAlwaysOrderFree` the
  first for the whole report, signatures and identities included: it holds
  if no two bindings of a key became valid in the same millisecond, since then
  `Resolve` does not depend on the order of the bindings either
  (`ResolveOrderFree`). Where they tie the order of the files shows.

**`VerifierPageProofs`**

* `TitlesAreEarned`, `FileTitlesAreTrue`, `PageAlwaysSettles` from
  `PageInvariant`, for any number of overlapping presses, any forms, an honest
  server or any, and any positions that HII publishes. What a title says of a
  withdrawal is proved for an honest server only, and of what HII had published
  while the press ran: section 6 says why no more can be. `ClickOK` says of each press what the results it holds
  rest on, and `OutputOK` that the output is a title some press has earned, an
  error, or the notice of a press that is not over.

**`FormatsProofs`**, each about the part of `Formats` it concerns; `FormatsHold`
says all of it of `FormatsSpec`, in which they stand side by side.

* `OneSortedListing`: a set that names no leaf twice has *one* sorted listing,
  the reason why `RepublishedMeansChangedHolds`; `FindTellsRecordsHolds`. Both
  rest on `ListingInvariant` (`ListingSpec`).
* `MatchAlwaysNamesTheLeaf` (`TraceSpec`), for objects of any number of
  members: keys that grow strictly occur once. `ProducedAlwaysUnderstood`: the
  trace HII writes for any certification and hash is read as it was meant.
* `OwnMediaAlwaysMatches`, `MatchesAlwaysEarned` (`MediaSpec`), for every
  feature hash, digest width and tolerance. The first bounds how far a file is
  found from its own attestation by the bits that rounding decides
  (`DigestsClose`), and leaves out attestations whose digest is all zero.
* `AlwaysStrict`, `AlwaysRoundTrips`, `AlwaysTamperEvident` are about
  `AnySpec`, which says more than the run: a decoder is given *any* bytes beside
  *any* leaf, with fields of any length, and not an edit of a leaf of few fields
  (`SpecIsAny` shows that these are among them). The invariant is that what has
  been decoded so far encodes to what has been read so far (`SoFar`), but for
  the one flag the code is lenient about (`Loose`), and that a leaf as it was
  written has its first fields decoded (`Agrees`). Neither is so of a decoder by
  its shape: every read has to take as much as the encoder would write.
* `OneLeafPerEncoding`: no two leaves of whatever kinds have the same encoding,
  so that a LeafHash stands for a leaf. This and `TamperEvident` rest on
  `JoinsTell`: strings of delimited parts, one after the other, that are the
  same string have the same parts. What a signature covers is such a string,
  with the fields it leaves out as empty parts.

Constants of `LeafCodec` are any set of numbers as bytes, if flags, tags and
the lengths of written fields are among them; `Tags` and layouts are the code's.

### Only model-checked

`RecordsEventuallyShown` and `WithdrawalTakesEffect` are liveness properties
under fairness, beyond the prover's reach; the run `System` checks them.

## 5. Mutants

`PROJECT.json` pairs every property of every passing run with a plausible bug
in the code, as a second form of one mapped definition: a dropped error check,
`>` for `>=`, a lost early return, a set compared one way only, and so on. In
each case TLC finds the property violated. A property that survives all such
bugs would say nothing of the code.

## 6. Where code and documents part

Four runs are expected to end in a counterexample:

* `HintReadError`: any failed read of `status/latest.json` is taken for
  "nothing published yet", version 0 (publish.go:100-102). The sequence starts
  over, older anchors keep winning (resolve.go:173), and a withdrawal published
  after that is never seen. publish.go:75-78 calls the worst case "republishing
  an identical set as a new version ... self-correcting".
* `HintWriteError`: if the hint cannot be stored after its anchor was
  committed, the next call takes the same version again and overwrites the
  artifact an anchor commits to; verifiers then report
  `artifact_hash_mismatch`. publish.go:16: "Version-addressed artifacts are
  immutable".
* `BundleOmits`: nothing hashes the leaves of an entry bundle up to the
  checkpoint's root, or counts them against its size (resolve.go:153-177,
  cocverify/status.go:120-126). Served without its one anchor, a log that
  withdraws the record makes a check say VERIFIED; resolve.go:75-79 promises
  that "only the total absence of any trusted anchor permits VERIFIED".
  `FailsClosed` states what is left of that. Inclusion and identity checks
  prove the leaf they read, and are not affected.
* `NoFingerprint`: a fingerprint that cannot be compared makes *any* file "a
  consistent copy" of the work (index.html:686-691 gives a note the same
  `fileKind` as a match, and the title follows that), and a file without text is
  at distance 0 from a work whose fingerprint is all zero, and announced as its
  copy with a text that "matches exactly" (index.html:660-685).
  verification-spec.md:288-294 has the one be no claim at all and forbids to
  take the other as evidence. `CopyIsConsistent` states what is left where the
  work has the fingerprint of a text.

The models show more of them, which no run is kept for; each is the result of
the change named in brackets.

* A crash or a failed Put between anchor and hint, and then a reversal: the
  next call compares with the hinted artifact, finds the set unchanged and
  reports success, while the log's newest anchor still lists the record
  (publish.go:143-145 against 125-127) [`System` with the fault
  "crashAnchored": `SuccessIsCommitted` fails].
* Overlapping calls commit two anchors of one version; leaf/status.go:21 says
  "strictly monotonic" [`VersionsIncrease` with two reconcilers].
* `TrustRoot` of a root that is trusted already has no effect, since
  `matchRoot` returns the first entry: a cutoff given later is not heeded
  (identity.go:89-92 promises it) [`CutoffShieldsResolution` without
  `RootsDistinct`].
* Statuses are resolved one leaf at a time, each with a checkpoint and an
  artifact of its own, so a work may read VERIFIED although at no moment all
  its events were clear; report.go:59-60 says "every event in a report resolves
  against the same artifact fetch". `WorkReport` promises only that each
  event's last answer was VERIFIED.
* Wrong tiles make a committed leaf come out as "not included" without an
  error, while inclusion.go:90-91 calls a failed proof "a legitimate negative
  verdict". `HonestMeansComplete` is therefore about honest servers only.
* `VerifyIdentity` considers the one binding the receipt points at;
  verification-spec.md:513-516 says the one "with the greatest ValidFrom not
  after SubmittedAt wins". `ResolvedIsVouched` promises a binding valid at
  that time, not the latest.
* The page makes a hash mismatch red and any red status "Withdrawn by HII"
  (index.html:873-874), though the verdict was INDETERMINATE and the comments
  say that this title is about "HII's own position" (871-872) and the reason
  means "the log and the server disagree" (835-837) [`Hero`, of a status of
  "artifact_hash_mismatch"].
* The library, too, calls two all-zero digests a match (verify.go:127-137)
  [`MatchIsEarned` says so, and `OwnMediaMatches` claims nothing of an
  attestation with such a digest].
* Any old checkpoint passes that the log has signed (cocverify/status.go:68-71:
  no time in it is checked), and a withdrawal is published at the next
  reconciliation only (verification-spec.md section 12.4). "HII has not
  withdrawn this record" on the page therefore means that it had published no
  withdrawal by the checkpoint that was served [`VerifiedMeansVerified` speaks
  of positions published, and as to withdrawal of honest servers only].
* Of two bindings of a key that became valid in the same millisecond, and of two
  events of a work with the greatest sequence number, the one read first counts:
  the order of files shows in the identity printed, and in the event a media
  file is compared with [`OrderFree` and `PrintedOrderFree` exclude ties of
  bindings; `selectTarget` keeps the first].
* Of two presses of the page's button that overlap the last to end is shown,
  be it the older one [`SettlesOnAnswer` does not tell them apart].
* A file of no bytes is taken for no file (index.html:962-964; the comment at
  949-951 promises an exact check).
* An attestation's presence flag may be any byte but 1 where the
  specification allows 0 and 1 only (verification-spec.md:70): several byte
  strings decode to one leaf, with different hashes. `Strict` says that this
  is the only such case.

* `ValidateLeafHashB64` lets through spellings whose spare bits are not zero
  (publish.go:232-244, "a malformed hash can never match"), and `Find` compares
  strings (artifact.go:59-68): such an entry is published and withdraws nothing
  [`FindTellsRecords` is therefore about the encoder's spelling].
* A reason that is not UTF-8 is written with U+FFFD, so the set read back
  differs from the records and is published again at every call; and two
  entries for one hash may come out in either order, with the same effect
  (publish.go:200-201 says sorting makes an unchanged set produce identical
  bytes) [`RepublishedMeansChanged` without `Plain`].
* A canonical trace is "byte-for-byte" what Python's `sort_keys` writes
  (tooltrace.go:26-30) only of plain contents: Go escapes `<`, `>` and `&`,
  Python what is not ASCII. A key that differs from `exact_hash` by case alone
  is read as `exact_hash`; a trace that is just `null` is parsed and canonical;
  and after a value `dec.More()` takes a `]` or `}` for an end, so these two are
  refused by the second decoding only [`MatchNamesTheLeaf` excludes the second
  case and contains the others].
* The page turns an index that is not a number into NaN, and Go's wasm runtime
  reads that as 0: the check is made of leaf 0, and fails, instead of being
  refused.
* `hiiverify` hands the bytes of a media file to the fuzzy comparison as if
  they were text (main.go:93), where the page extracts the text first: of a
  .docx the two compare different words with one fingerprint.

## 7. Not modelled

* The arithmetic below the digests: normalization of a text, the resizing of an
  image and its transform. Words and coefficients are inputs of `ContentMatch`;
  of rounding it has the ties with the median (phash.go:148), each of which may
  fall on either side.
* How far two extractions of one document, or two encodings of one picture, are
  apart (verification-spec.md:235-255, 305-314): they are different texts or
  pictures here, and nothing is claimed of them but what `MatchIsEarned` says.
* Anchors that HII has signed but that never reached the log: an altered bundle
  shows leaves of the log, or anchors of strangers.
* `cmd/gencorpus`: straight-line code that writes test vectors.
* The page's reading of its address, its extraction of text from documents and
  its layout.
* The HTTP fetcher of `cmd/wasmverify`: its fetches have no deadline, and
  whether a press ever ends is up to the browser. A cache in between is covered
  as far as it serves something old (`FetchHint`, checkpoints that lag,
  `"substituted"` artifacts, `ScanAltered`).
* `Issuer.Issue` and `Sign*`: signing is an input, a leaf that verifies.
* Statuses of several events resolved at one moment: the code does not promise
  it (section 6), so no property does.
* Several HII keys, compromise of a root, and collisions of hashes.

## 8. Plan

Done, in this order: the publisher with its invariants proved; the verifier;
their composition and refinement, with the refinement proved; identity and the
log checks with proofs; provenance and reports, with the command line and
proofs; the page with proofs; the leaf codec; the withdrawn list, the tool
trace and the fingerprints, with proofs; then, for any number of leaves and any
bytes, the order of a report, linear chains, and the codec.

Left:

1. *Page and checks.* `VerifierPage` takes the answers of the checks as
   given; composed with `LogCheck` and `StatusVerifier`, its titles could be
   traced to the log in one theorem.
2. *Page.* What the form is filled with from the address, once that code has
   rules of its own to state.
