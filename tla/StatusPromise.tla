---------------------------- MODULE StatusPromise ----------------------------
(***************************************************************************)
(* What revocation status promises (docs/verification-spec.md section 12), *)
(* with no store, hint, version or scan in sight.                          *)
(*                                                                         *)
(* HII says, from time to time, which attestations are withdrawn; each     *)
(* statement takes effect at a position of the log and is never taken      *)
(* back.  Someone who asks about an attestation, holding a checkpoint that *)
(* covers the log up to some position, is told what held at that position  *)
(* or at a later one, or that no answer could be had: INDETERMINATE.       *)
(***************************************************************************)
EXTENDS Naturals

CONSTANT Subjects

VARIABLES
  statements,  \* set of [at : position, withdrawn : SUBSET Subjects]
  covered,     \* the position the current checkpoint covers
  subject,     \* the attestation last asked about,
  since,       \*   the position its asker's checkpoint covered,
  answer       \*   and the answer: "none", "pending" or a verdict

vars == <<statements, covered, subject, since, answer>>

Init ==
  /\ statements = {}
  /\ covered = 0
  /\ subject \in Subjects
  /\ since = 0
  /\ answer = "none"

\* HII makes a statement, after all the earlier ones.
State ==
  /\ \E new \in statements' :
       /\ new \in [at : Nat, withdrawn : SUBSET Subjects]
       /\ \A s \in statements : s.at < new.at
       /\ statements' = statements \cup {new}
  /\ UNCHANGED <<covered, subject, since, answer>>

Cover ==
  /\ covered' \in Nat /\ covered' > covered
  /\ UNCHANGED <<statements, subject, since, answer>>

Ask ==
  /\ answer # "pending"
  /\ subject' \in Subjects
  /\ since' = covered
  /\ answer' = "pending"
  /\ UNCHANGED <<statements, covered>>

\* The statement in effect for someone who has seen the log up to n.
InEffect(s, n) ==
  /\ s \in statements /\ s.at <= n
  /\ \A t \in statements : t.at <= n => t.at <= s.at

WithdrawnAt(x, n) == \E s \in statements : InEffect(s, n) /\ x \in s.withdrawn

\* There is some position, since the asker's checkpoint, at which it held.
Answer ==
  /\ answer = "pending"
  /\ \/ answer' = "INDETERMINATE"
     \/ /\ answer' = "WITHDRAWN"
        /\ \E n \in {since} \cup {s.at : s \in statements} :
             n >= since /\ WithdrawnAt(subject, n)
     \/ /\ answer' = "VERIFIED"
        /\ \E n \in {since} \cup {s.at : s \in statements} :
             n >= since /\ ~WithdrawnAt(subject, n)
  /\ UNCHANGED <<statements, covered, subject, since>>

Next == State \/ Cover \/ Ask \/ Answer

Spec == Init /\ [][Next]_vars
=============================================================================
