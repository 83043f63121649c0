------------------------------ MODULE MCVerifier ------------------------------
(***************************************************************************)
(* StatusVerifier alone, against every log of up to MaxLog leaves and every *)
(* store, which then stand still but for the checkpoint: the verifier must  *)
(* answer soundly whatever a publisher, or several, have left there.        *)
(***************************************************************************)
EXTENDS StatusVerifier, TLC

CONSTANTS MaxLog, MaxVersion

vars == <<read, check>>

Artifacts == [version : 1..MaxVersion, withdrawn : SUBSET Subjects, stamp : Stamps]

Anchors == {[AnchorOf(a) EXCEPT !.issuer = k] : a \in Artifacts, k \in Keys}

MCInit ==
  /\ log \in UNION {[1..n -> Anchors \cup {OtherLeaf}] : n \in 0..MaxLog}
  /\ artifacts \in UNION {{f \in [D -> Artifacts] : \A v \in D : f[v].version = v} :
                            D \in SUBSET (1..MaxVersion)}
  /\ checkpoint \in 0..Len(log)
  /\ Init

MCNext == Check /\ UNCHANGED read

MCSpec == MCInit /\ [][MCNext]_vars
=============================================================================
