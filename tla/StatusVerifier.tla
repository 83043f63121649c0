--------------------------- MODULE StatusVerifier ---------------------------
(***************************************************************************)
(* pkg/status/resolve.go as pkg/cocverify/status.go drives it: one check   *)
(* of whether an attestation has been withdrawn.                           *)
(*                                                                         *)
(* Checks share nothing with each other, so one verifier that checks again *)
(* and again stands for all of them.  Every fetch is a step of its own:    *)
(* the log and the store may move on between two of them.                  *)
(*                                                                         *)
(* Nothing authenticates an entry bundle: the checkpoint's signature covers*)
(* the root of the tree, and the scan neither hashes the leaves it is given*)
(* up to that root nor counts them.  What is served as a bundle may        *)
(* therefore be anything ("altered" below); `faithful' tells whether a     *)
(* walk was shown the log and nothing else, `shown' what it was shown.     *)
(***************************************************************************)
EXTENDS StatusLog

CONSTANT ReadFaults  \* the kinds of bad answer a fetch may get

ReadFaultKinds ==
  {"bundle",       \* an entry bundle could not be read
   "altered",      \* what was served as a bundle is not the log's: leaves are left
                   \* out, or are another place's, or lie in no log
   "artifact",     \* the artifact could not be read
   "malformed",    \* what was served is not an artifact
   "substituted"}  \* what was served is another of the store's artifacts

ASSUME StatusVerifierAssumption == ReadFaults \subseteq ReadFaultKinds

VARIABLES
  log, artifacts,  \* what is read
  checkpoint,      \* the tree size of the checkpoint now served
  vpc, subject, size, start, bundle, newest, sawUntrusted,  \* locals of a check
  reach,           \* how far into the log the check has been shown
  shown,           \* the leaves of the log its last walk was shown, by position
  faithful,        \* whether every bundle of that walk was the log's
  verdict, reason  \* its result

read    == <<log, artifacts, checkpoint>>
check   == <<vpc, subject, size, start, bundle, newest, sawUntrusted, reach,
             shown, faithful, verdict, reason>>

Init ==
  /\ vpc = "idle"
  /\ subject \in Subjects
  /\ size = 0 /\ start = 0 /\ bundle = 0 /\ newest = 0 /\ reach = 0
  /\ sawUntrusted = FALSE
  /\ shown = {} /\ faithful = TRUE
  /\ verdict = "none" /\ reason = "none"

\* The check ends; of its locals only what the result is about is kept.
Conclude(how, why) ==
  /\ vpc' = "done"
  /\ verdict' = how
  /\ reason' = why
  /\ start' = 0 /\ bundle' = 0 /\ newest' = 0 /\ sawUntrusted' = FALSE
  /\ UNCHANGED <<subject, size, reach, shown, faithful>>

\* A checkpoint is fetched and its signature holds: its size bounds the scan.
\* (Without a checkpoint there is no check and no verdict.)
FetchCheckpoint ==
  /\ vpc \in {"idle", "done"}
  /\ vpc' = "hint"
  /\ subject' \in Subjects
  /\ size' = checkpoint
  /\ reach' = checkpoint /\ shown' = {} /\ faithful' = TRUE
  /\ verdict' = "none" /\ reason' = "none"
  /\ UNCHANGED <<start, bundle, newest, sawUntrusted>>

\* The hint is untrusted: whatever was published, a verifier may be served any
\* index, or none.  One at or past the tree size is not used.
FetchHint ==
  /\ vpc = "hint"
  /\ vpc' = "scan"
  /\ start' \in {0} \cup 0..(size - 1)
  /\ bundle' = start' \div BundleSize
  /\ UNCHANGED <<subject, size, newest, sawUntrusted, reach, shown, faithful,
                 verdict, reason>>

\* The client library asks for the bundle as it was at the tree size and, when
\* that partial bundle is gone, takes the full one: the leaves up to there.
EndsOfBundle(b) ==
  LET full == (b + 1) * BundleSize
  IN  IF full <= size
        THEN {full}
        ELSE {size} \cup {n \in {full} : n <= Len(log)}

Scanning == vpc = "scan" /\ bundle * BundleSize < size
Scanned  == vpc = "scan" /\ bundle * BundleSize >= size

ScanBundle ==
  /\ Scanning
  /\ \E end \in EndsOfBundle(bundle) :
       LET range == (bundle * BundleSize + 1)..end
       IN  /\ newest' = NewestIn(log, TrustedIn(log, range)
                                        \cup ({newest} \ {0}))
           /\ sawUntrusted' = (sawUntrusted \/ UntrustedIn(log, range) # {})
           /\ reach' = IF end > reach THEN end ELSE reach
           /\ shown' = shown \cup range
  /\ bundle' = bundle + 1
  /\ UNCHANGED <<vpc, subject, size, start, faithful, verdict, reason>>

\* Served in a bundle's place: leaves of the log, whichever and in any order, and
\* perhaps an anchor of no log, which no pinned root has signed.
ScanAltered ==
  /\ "altered" \in ReadFaults
  /\ Scanning
  /\ \E served \in SUBSET (1..Len(log)), forged \in BOOLEAN :
       /\ newest' \in KeptInAnyOrder(log, TrustedIn(log, served), newest)
       /\ sawUntrusted' = (sawUntrusted \/ forged \/ UntrustedIn(log, served) # {})
       /\ shown' = shown \cup served
  /\ faithful' = FALSE
  /\ bundle' = bundle + 1
  /\ UNCHANGED <<vpc, subject, size, start, reach, verdict, reason>>

FailScan ==
  /\ "bundle" \in ReadFaults
  /\ Scanning
  /\ Conclude("INDETERMINATE", "anchor_scan_failed")

\* The hinted stretch holds no trusted anchor: walk the log from its beginning.
Rescan ==
  /\ Scanned /\ newest = 0 /\ start > 0
  /\ start' = 0 /\ bundle' = 0
  /\ sawUntrusted' = FALSE
  /\ reach' = size /\ shown' = {} /\ faithful' = TRUE
  /\ UNCHANGED <<vpc, subject, size, newest, verdict, reason>>

\* Mutants: a stretch without an anchor is taken for a log without one; a log
\* with untrusted anchors is taken for one without any; no reason is given.
FindNoneEarly ==
  /\ Scanned /\ newest = 0
  /\ IF sawUntrusted THEN Conclude("INDETERMINATE", "anchor_untrusted")
                     ELSE Conclude("VERIFIED", "none")

FindNoneOpen ==
  /\ Scanned /\ newest = 0 /\ start = 0
  /\ Conclude("VERIFIED", "none")

FindNoneSilent ==
  /\ Scanned /\ newest = 0 /\ start = 0
  /\ Conclude(IF sawUntrusted THEN "INDETERMINATE" ELSE "VERIFIED", "none")

FindNone ==
  /\ Scanned /\ newest = 0 /\ start = 0
  /\ IF sawUntrusted THEN Conclude("INDETERMINATE", "anchor_untrusted")
                     ELSE Conclude("VERIFIED", "none")

\* The bytes served for the newest anchor's version are hashed and searched.
Judge(served) ==
  IF served # log[newest].hash
    THEN Conclude("INDETERMINATE", "artifact_hash_mismatch")
    ELSE IF subject \in served.withdrawn THEN Conclude("WITHDRAWN", "none")
                                         ELSE Conclude("VERIFIED", "none")

FetchArtifact ==
  /\ Scanned /\ newest # 0
  /\ log[newest].version \in DOMAIN artifacts
  /\ \E v \in DOMAIN artifacts :
       /\ v = log[newest].version \/ "substituted" \in ReadFaults
       /\ Judge(artifacts[v])

FailArtifact ==
  /\ Scanned /\ newest # 0
  /\ \/ /\ \/ "artifact" \in ReadFaults
           \/ log[newest].version \notin DOMAIN artifacts
        /\ Conclude("INDETERMINATE", "artifact_unreachable")
     \/ /\ "malformed" \in ReadFaults
        /\ Conclude("INDETERMINATE", "artifact_parse_error")

Resolve ==
  \/ FetchHint \/ ScanBundle \/ ScanAltered \/ FailScan \/ Rescan \/ FindNone
  \/ FetchArtifact \/ FailArtifact

Check == FetchCheckpoint \/ Resolve

----------------------------------------------------------------------------
Reasons == {"none", "anchor_scan_failed", "anchor_untrusted",
            "artifact_unreachable", "artifact_parse_error",
            "artifact_hash_mismatch"}

\* Every variable of a check holds a value the code can give it.
TypeOK ==
  /\ vpc \in {"idle", "hint", "scan", "done"}
  /\ subject \in Subjects
  /\ size \in Nat /\ start \in Nat /\ bundle \in Nat /\ newest \in Nat
  /\ reach \in Nat /\ shown \subseteq Nat
  /\ sawUntrusted \in BOOLEAN /\ faithful \in BOOLEAN
  /\ verdict \in {"none", "VERIFIED", "WITHDRAWN", "INDETERMINATE"}
  /\ reason \in Reasons

\* A reason is "empty for VERIFIED and WITHDRAWN, and always set when the verdict is
\* INDETERMINATE" (resolve.go:27), on every path to a verdict: without one a user
\* cannot tell a log that misbehaves from a laptop that is offline.
ReasonIsGiven ==
  vpc = "done" => (verdict = "INDETERMINATE" <=> reason # "none")

\* "Correctness never depends on [the hint]" (resolve.go:60), for a log whose
\* trusted versions grow and a walk that was shown the log: a definite verdict is
\* the one the newest trusted anchor of the stretch shown calls for, wherever the
\* hint pointed.
Growing(n) ==
  \A i, j \in TrustedIn(log, 1..n) : i < j => log[i].version < log[j].version

VerdictIsNewest ==
  faithful /\ verdict \in {"VERIFIED", "WITHDRAWN"} /\ Growing(reach)
    => LET T == TrustedIn(log, 1..reach)
       IN  verdict = "WITHDRAWN" <=>
             T # {} /\ subject \in log[FirstNewest(log, T)].hash.withdrawn

\* "It fails CLOSED" (resolve.go:75), on what it is given.  VERIFIED is said over a
\* status anchor only on the word of a trusted one whose artifact does not list the
\* attestation: over any anchor up to the checkpoint when the walk was shown the
\* log, over any anchor it was shown when it was shown something else.
Evidence == IF faithful THEN 1..reach ELSE shown

FailsClosed ==
  verdict = "VERIFIED" /\ (\E i \in Evidence : IsAnchor(log[i]))
    => \E i \in TrustedIn(log, Evidence) : subject \notin log[i].hash.withdrawn

\* What resolve.go:75-79 says, of the log and not of what was served: where a trusted
\* anchor exists VERIFIED takes an artifact that was hash-matched; "only the total
\* absence of any trusted anchor permits VERIFIED" without one.
AnchorBarsVerified ==
  verdict = "VERIFIED" /\ TrustedIn(log, 1..size) # {}
    => \E i \in TrustedIn(log, 1..Len(log)) : subject \notin log[i].hash.withdrawn

\* The reason tells a log with no trusted anchor at all from a failed read
\* (resolve.go:45): anchor_untrusted is never said of a log that has one, by a walk
\* that was shown the log.
UntrustedMeansNone ==
  faithful /\ reason = "anchor_untrusted" => /\ TrustedIn(log, 1..reach) = {}
                                             /\ UntrustedIn(log, 1..reach) # {}
=============================================================================
