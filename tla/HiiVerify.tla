------------------------------- MODULE HiiVerify -------------------------------
(***************************************************************************)
(* cmd/hiiverify: one run of the command-line verifier, over an Index, a   *)
(* Resolver and BuildWorkReport.  It reads leaf files in the order of its  *)
(* arguments and of the directory, picks one work, and prints a report or  *)
(* stops at the first error.  It is offline: it resolves no status.        *)
(***************************************************************************)
EXTENDS WorkReport

CONSTANTS
  RootKeys, SignerKeys, Creators, Times,
  Claims,    \* of each attestation: its signer, its SubmittedAt, and whether
             \* its signature verifies
  Files,     \* the leaf files there are
  Flags,     \* the command lines
  MaxFiles   \* bound: files of one run

VARIABLES
  flags,                    \* the command line
  files,                    \* the files ingested so far, in order
  roots, bindings, answer,  \* the Resolver; no roots when there is none
  outcome                   \* "running", then how it ended

hiiVars == <<flags, files, roots, bindings, answer, outcome>>

Id == INSTANCE Identity WITH MaxRoots <- 1, MaxBindings <- MaxFiles

File ==
  [kind : {"attestation"}, hash : Hashes]
    \cup [kind : {"binding"}, binding : Id!IdentityBinding]
    \cup {[kind |-> "unusable"]}  \* unreadable, or it does not decode to either

\* "none" is a flag that is not given, "ill" one that does not parse.
CommandLine ==
  [root : RootKeys \cup {"none", "ill"}, work : Works \cup {"none", "ill"},
   target : Hashes \cup {0, -1},  \* 0: not given; -1: no event has it
   media : {"none", "unreadable", "readable"}]

ASSUME HiiVerifyAssumption ==
  /\ Id!IdentityAssumption
  /\ Claims \in [Hashes -> [signer : SignerKeys, submittedAt : Times,
                            signed : BOOLEAN]]
  /\ Files \subseteq File
  /\ Flags \subseteq CommandLine
  /\ MaxFiles \in Nat

NoReport == [exit |-> "running", work |-> "none", target |-> 0]

HiiInit ==
  /\ Init
  /\ flags \in Flags
  /\ files = << >>
  /\ roots = IF flags.root \in RootKeys
               THEN <<[key |-> flags.root, notAfter |-> Id!NoCutoff]>> ELSE << >>
  /\ bindings = << >>
  /\ answer = "none"
  /\ outcome = NoReport

----------------------------------------------------------------------------
\* Mutant: a file that cannot be used is passed over.
Overlook == UNCHANGED outcome

\* run's error goes to main, which exits with 1; nothing is printed.
Fail == outcome' = [NoReport EXCEPT !.exit = "error"]

\* ingest: an attestation goes to the index, a binding to the resolver if there
\* is one, and whatever it refuses ends the run.
IngestAttestation(f) ==
  /\ f.kind = "attestation"
  /\ AddLeaf(f.hash)
  /\ UNCHANGED <<roots, bindings, answer, outcome>>

IngestBinding(f) ==
  /\ f.kind = "binding"
  /\ \/ roots = << >> /\ UNCHANGED <<roots, bindings, answer, outcome>>
     \/ roots # << >> /\ Id!Accept(f.binding) /\ UNCHANGED outcome
     \/ roots # << >> /\ Id!Reject(f.binding) /\ Fail
  /\ UNCHANGED vars

IngestUnusable(f) ==
  /\ f.kind = "unusable"
  /\ Fail
  /\ UNCHANGED <<vars, roots, bindings, answer>>

Ingest ==
  /\ outcome.exit = "running" /\ flags.root # "ill"
  /\ Len(files) < MaxFiles
  /\ \E f \in Files :
       /\ files' = Append(files, f)
       /\ IngestAttestation(f) \/ IngestBinding(f) \/ IngestUnusable(f)
  /\ UNCHANGED flags

----------------------------------------------------------------------------
\* selectWork: {} for its errors.
selectWork ==
  LET works == {w \in Works : byWork[w] # << >>}
  IN  IF flags.work # "none" THEN works \cap {flags.work}
      ELSE IF Cardinality(works) = 1 THEN works ELSE {}

\* Mutant: the signer is resolved as of now.
VerifyEventNow(h, bs) ==
  [signature |-> Claims[h].signed,
   identity  |-> IF roots = << >> THEN {}
                 ELSE Id!Resolve(bs, Claims[h].signer,
                                 CHOOSE t \in Times : \A u \in Times : u <= t)]

\* The signature, and the creator the signer was bound to at SubmittedAt by a
\* Resolver that holds the bindings bs.
VerifyEvent(h, bs) ==
  [signature |-> Claims[h].signed,
   identity  |-> IF roots = << >> THEN {}
                 ELSE Id!Resolve(bs, Claims[h].signer, Claims[h].submittedAt)]

\* selectTarget: {} for its errors.  Of events with the greatest sequence number
\* the loop keeps the one loaded first.
selectTarget(chain) ==
  LET first == CHOOSE i \in DOMAIN chain :
                 \A j \in DOMAIN chain :
                   \/ chain[j].seq < chain[i].seq
                   \/ chain[j].seq = chain[i].seq /\ i <= j
  IN  IF flags.target # 0 THEN byHash(chain) \cap {flags.target}
                          ELSE {chain[first].hash}

\* BuildWorkReport with its events' signatures and identities.
BuildWorkReport(chain, bs) ==
  LET reported(e) == LET v == VerifyEvent(e.hash, bs)
                     IN  [hash |-> e.hash, verdict |-> e.verdict,
                          signature |-> v.signature, identity |-> v.identity]
  IN  [ReportOn(chain) EXCEPT !.events = [i \in DOMAIN @ |-> reported(@[i])]]

\* What cannot be gone on with: no files, a root or a work that does not parse or
\* is not there, and, when a media file is given, that file or its target.
Fails ==
  \/ files = << >> \/ flags.root = "ill" \/ selectWork = {}
  \/ \E w \in selectWork :
       \/ flags.media = "unreadable"
       \/ flags.media = "readable" /\ selectTarget(Chain(w)) = {}

Finish ==
  /\ outcome.exit = "running"
  /\ \/ Fails /\ Fail /\ UNCHANGED report
     \/ /\ ~Fails
        /\ \E w \in selectWork :
             /\ report' = {BuildWorkReport(Chain(w), bindings)}
             /\ \/ /\ flags.media = "none"
                   /\ outcome' = [exit |-> "printed", work |-> w, target |-> 0]
                \/ /\ flags.media = "readable"
                   /\ \E h \in selectTarget(Chain(w)) :
                        outcome' = [exit |-> "printed", work |-> w, target |-> h]
  /\ UNCHANGED <<leaves, byWork, answers, flags, files, roots, bindings, answer>>

HiiNext == Ingest \/ Finish

HiiSpec == HiiInit /\ [][HiiNext]_<<vars, hiiVars>>

----------------------------------------------------------------------------
FilesOf(w) ==
  {i \in DOMAIN files : files[i].kind = "attestation" /\ leaves[files[i].hash].work = w}

\* The bindings among the files that the trusted root issued and signed.
Vouching ==
  {files[i].binding : i \in {k \in DOMAIN files :
     files[k].kind = "binding" /\ files[k].binding.issuer = flags.root
       /\ files[k].binding.signed}}

\* A report is printed whole or not at all (main.go:66-74): every file given was
\* used, the events are the work's attestations, each as often as it was given,
\* the work is the one asked for or the only one, the media was matched against
\* the event asked for or one no other event comes after, and no status is claimed.
PrintedIsComplete ==
  /\ outcome.exit = "error" => report = {}
  /\ outcome.exit = "printed" =>
       /\ \A i \in DOMAIN files :
            /\ files[i].kind # "unusable"
            /\ files[i].kind = "binding" /\ flags.root # "none" =>
                 files[i].binding \in Vouching
       /\ \A r \in report :
            /\ r.verdict = "INDETERMINATE"
            /\ \A h \in Hashes :
                 Cardinality({i \in DOMAIN r.events : r.events[i].hash = h})
                   = Cardinality({i \in FilesOf(outcome.work) : files[i].hash = h})
       /\ flags.work \in {outcome.work, "none"}
       /\ flags.work = "none" =>
            \A i \in DOMAIN files :
              files[i].kind = "attestation" => i \in FilesOf(outcome.work)
       /\ flags.media = "readable" =>
            /\ \E i \in FilesOf(outcome.work) : files[i].hash = outcome.target
            /\ flags.target \in {outcome.target, 0}
            /\ flags.target = 0 =>
                 \A i \in FilesOf(outcome.work) :
                   leaves[files[i].hash].seq <= leaves[outcome.target].seq

\* Whatever the order of the files, an event is shown under the identity of the
\* latest binding for its signer, valid when it was submitted, that the trusted
\* root signed and that is among the files; under none only if there is none, or
\* no root.  ("Effective-at-submission", verification-spec.md section 9.4.)
IdentityIsRootSigned ==
  outcome.exit = "printed" =>
    \A r \in report : \A i \in DOMAIN r.events :
      LET claim == Claims[r.events[i].hash]
          valid == {b \in Vouching : b.key = claim.signer
                                       /\ b.validFrom <= claim.submittedAt}
          shown == r.events[i].identity
      IN  /\ shown \subseteq valid
          /\ shown = {} => valid = {}
          /\ \A b \in shown, v \in valid : v.validFrom <= b.validFrom

\* The order of the files, which is that of the arguments and of directories, shows
\* nowhere in a printed report (report.go:91, "deterministic"): not in its events
\* and summary, and not in the identities and signatures of its events as long as no two
\* different bindings of a key became valid in the same millisecond.  Of two that
\* did, the Resolver keeps the first it was given, and there the order shows.
PrintedOrderFree ==
  report = {} /\ (\A i, j \in DOMAIN bindings :
                    bindings[i].key = bindings[j].key
                      /\ bindings[i].validFrom = bindings[j].validFrom
                      => bindings[i] = bindings[j]) =>
    \A w \in Works :
      \A p \in Orders(DOMAIN byWork[w]), q \in Orders(DOMAIN bindings) :
        BuildWorkReport([i \in DOMAIN byWork[w] |-> Chain(w)[p[i]]],
                        Id!Permuted(bindings, q))
          = BuildWorkReport(Chain(w), bindings)
=============================================================================
