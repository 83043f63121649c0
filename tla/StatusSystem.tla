---------------------------- MODULE StatusSystem ----------------------------
(***************************************************************************)
(* The publisher of revocation status and a verifier of it, joined by the  *)
(* log and the object store.  The publisher writes them, the log's         *)
(* operator publishes checkpoints, the verifier reads.                     *)
(***************************************************************************)
EXTENDS StatusPublisher

CONSTANT ReadFaults

VARIABLES
  checkpoint,  \* the size of the tree the served checkpoint commits to
  vpc, subject, size, start, bundle, newest, sawUntrusted, reach, shown, faithful,
  verdict, reason

V == INSTANCE StatusVerifier

checkVars  == <<vpc, subject, size, start, bundle, newest, sawUntrusted, reach,
                shown, faithful, verdict, reason>>
systemVars == <<vars, checkpoint, checkVars>>

SystemInit == Init /\ V!Init /\ checkpoint = 0

\* Leaves are integrated and the log signs a checkpoint that covers them.
PublishCheckpoint ==
  /\ checkpoint' \in (checkpoint + 1)..Len(log)
  /\ UNCHANGED <<vars, checkVars>>

Publish == Next /\ UNCHANGED <<checkpoint, checkVars>>

Verify == V!Check /\ UNCHANGED <<vars, checkpoint>>

SystemNext == Publish \/ PublishCheckpoint \/ Verify

SystemSpec == SystemInit /\ [][SystemNext]_systemVars

\* The reconciliation is periodic and a call runs to its end; the log
\* integrates what it has accepted and signs it.  Nothing is asked of those who
\* check: they may check seldom, or give up.
SystemFairness ==
  /\ \A p \in Reconcilers : WF_systemVars(Reconcile(p) /\ Publish)
  /\ WF_systemVars(PublishCheckpoint /\ checkpoint' = Len(log))

FairSystemSpec == SystemSpec /\ SystemFairness

----------------------------------------------------------------------------
(* The mapping to StatusPromise: HII's statements are the anchors it has   *)
(* committed, each at its position.                                        *)
Promise == INSTANCE StatusPromise WITH
  statements <- {[at |-> i, withdrawn |-> log[i].hash.withdrawn] : i \in Committed},
  covered    <- checkpoint,
  since      <- size,
  answer     <- IF vpc \in {"hint", "scan"} THEN "pending" ELSE verdict

\* The publisher and the verifier together keep the promise: a definite answer
\* is what HII had committed to at the verifier's checkpoint or later.
KeepsPromise == Promise!Spec

\* While artifacts are served as stored, no verifier reports the sign of
\* "corruption, or equivocation" (resolve.go:54-56): a spurious mismatch is a
\* certificate nobody can check any more.
NoFalseAlarm == reason # "artifact_hash_mismatch"

\* A withdrawal that is not reversed takes effect: from some time on no check
\* of the attestation ends in VERIFIED (verification-spec.md section 12.4, "a
\* withdrawal may lag by up to that interval").
WithdrawalTakesEffect ==
  \A x \in Subjects :
    <>[](x \in records) =>
      <>[][vpc = "scan" /\ vpc' = "done" /\ subject = x
             => verdict' # "VERIFIED"]_systemVars
=============================================================================
