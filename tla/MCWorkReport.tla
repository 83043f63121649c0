----------------------------- MODULE MCWorkReport -----------------------------
(* Instances of WorkReport and HiiVerify.  A behaviour is one of a caller of     *)
(* the library or one of a run of the command.                                   *)
EXTENDS HiiVerify

VARIABLE caller

\* For the library: every forest over the leaves of one work.  For the command:
\* two leaves without parents, of one work or of two.
MCInit ==
  /\ HiiInit
  /\ leaves[1].work = "v"
  /\ \/ /\ caller = "library"
        /\ flags = CHOOSE f \in Flags : f.root = "none"
        /\ \A h \in Hashes : leaves[h].work = "v"
     \/ /\ caller = "hiiverify"
        /\ \A h \in Hashes : leaves[h].prev = NoPrev
        /\ leaves[3] = leaves[1]

MCNext ==
  /\ UNCHANGED caller
  /\ \/ caller = "library" /\ Next /\ UNCHANGED hiiVars
     \/ caller = "hiiverify" /\ HiiNext

MCSpec == MCInit /\ [][MCNext]_<<vars, hiiVars, caller>>

\* An early event, and a late one that is not signed.
MCClaims ==
  [h \in {1, 2, 3} |-> [signer |-> "k1", submittedAt |-> IF h = 1 THEN 1 ELSE 2,
                        signed |-> h = 1]]

MCBinding(creator, key, from, issuer, signed) ==
  [kind |-> "binding",
   binding |-> [creator |-> creator, key |-> key, validFrom |-> from,
                issuer |-> issuer, signed |-> signed]]

\* Bindings of one key at one time and at another, of another key, by another
\* root, and not signed.
MCFiles ==
  {[kind |-> "attestation", hash |-> 1], [kind |-> "attestation", hash |-> 2],
   MCBinding("ann", "k1", 1, "root", TRUE), MCBinding("bob", "k1", 1, "root", TRUE),
   MCBinding("bob", "k1", 2, "root", TRUE), MCBinding("bob", "k2", 1, "root", TRUE),
   MCBinding("bob", "k1", 1, "other", TRUE), MCBinding("bob", "k1", 1, "root", FALSE),
   [kind |-> "unusable"]}

\* A target is given, or a file cannot be read, only with -media.
MCFlags ==
  {f \in CommandLine :
     /\ f.root # "other" /\ f.work # "ill"
     /\ f.target # 0 => f.media = "readable" /\ f.target # 3
     /\ f.root = "ill" => f.work = "none" /\ f.media = "none"}
=============================================================================
