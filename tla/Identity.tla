------------------------------- MODULE Identity -------------------------------
(***************************************************************************)
(* pkg/identity/identity.go: the Resolver, which maps a signing key to the *)
(* creator HII bound it to at a given time.  Trusted roots and bindings    *)
(* arrive in any order over the life of a Resolver.                        *)
(*                                                                         *)
(* byKey is one sequence here: the bindings of one key are its subsequence *)
(* and keep their order.                                                   *)
(***************************************************************************)
EXTENDS Integers, Sequences

CONSTANTS
  RootKeys,      \* identity-root keys, HII's and others
  SignerKeys,    \* attestation signing keys
  Creators,      \* what a binding says of its key: creator id and key type
  Times,         \* milliseconds since the epoch
  MaxRoots,      \* bound: roots a Resolver is told to trust
  MaxBindings    \* bound: bindings a Resolver accepts

ASSUME IdentityAssumption ==
  /\ Times \subseteq Nat \ {0}
  /\ MaxRoots \in Nat
  /\ MaxBindings \in Nat

NoCutoff == 0

trustedRoot == [key : RootKeys, notAfter : Times \cup {NoCutoff}]

\* signed: the issuer's signature over the binding verifies.
IdentityBinding ==
  [creator : Creators, key : SignerKeys, validFrom : Times,
   issuer : RootKeys, signed : BOOLEAN]

VARIABLES
  roots,     \* the trusted roots, in the order they were given
  bindings,  \* the accepted bindings, in the order they were added
  answer     \* what the last Add returned

vars == <<roots, bindings, answer>>

\* Mutant: the last entry for a key counts.
matchRootLast(k) ==
  LET entries == {i \in DOMAIN roots : roots[i].key = k}
  IN  IF entries = {} THEN 0
                      ELSE CHOOSE i \in entries : \A j \in entries : j <= i

\* The first entry for a key counts; 0 is the code's (_, false).
matchRoot(k) ==
  LET entries == {i \in DOMAIN roots : roots[i].key = k}
  IN  IF entries = {} THEN 0
                      ELSE CHOOSE i \in entries : \A j \in entries : i <= j

\* NewResolver
Init ==
  /\ \E k \in RootKeys : roots = <<[key |-> k, notAfter |-> NoCutoff]>>
  /\ bindings = << >>
  /\ answer = "none"

TrustRoot ==
  /\ Len(roots) < MaxRoots
  /\ \E root \in trustedRoot : roots' = Append(roots, root)
  /\ answer' = "none"
  /\ UNCHANGED bindings

PastCutoff(b, root) == root.notAfter # NoCutoff /\ b.validFrom > root.notAfter

RejectUntrusted(b) ==
  /\ matchRoot(b.issuer) = 0
  /\ answer' = "ErrUntrustedIssuer"

RejectExpired(b) ==
  /\ matchRoot(b.issuer) # 0
  /\ PastCutoff(b, roots[matchRoot(b.issuer)])
  /\ answer' = "ErrRootExpired"

RejectUnsigned(b) ==
  /\ matchRoot(b.issuer) # 0
  /\ ~PastCutoff(b, roots[matchRoot(b.issuer)])
  /\ ~b.signed
  /\ answer' = "ErrBadSignature"

Reject(b) ==
  /\ RejectUntrusted(b) \/ RejectExpired(b) \/ RejectUnsigned(b)
  /\ UNCHANGED <<roots, bindings>>

\* Mutant: the signature is verified, the cutoff is not looked at.
AcceptIgnoringCutoff(b) ==
  /\ matchRoot(b.issuer) # 0
  /\ b.signed
  /\ Len(bindings) < MaxBindings
  /\ bindings' = Append(bindings, b)
  /\ answer' = "ok"
  /\ UNCHANGED roots

Accept(b) ==
  /\ matchRoot(b.issuer) # 0
  /\ ~PastCutoff(b, roots[matchRoot(b.issuer)])
  /\ b.signed
  /\ Len(bindings) < MaxBindings
  /\ bindings' = Append(bindings, b)
  /\ answer' = "ok"
  /\ UNCHANGED roots

Add == \E b \in IdentityBinding : Accept(b) \/ Reject(b)

Next == TrustRoot \/ Add

Spec == Init /\ [][Next]_vars

----------------------------------------------------------------------------
(* Resolve, over any sequence bs of bindings.                              *)

\* Mutants: a binding counts before it is valid; the last one added wins.
EligibleEarly(bs, k, at) == {i \in DOMAIN bs : bs[i].key = k}

Eligible(bs, k, at) == {i \in DOMAIN bs : bs[i].key = k /\ bs[i].validFrom <= at}

Latest(bs, S) == CHOOSE i \in S : \A j \in S : j <= i

\* The loop keeps the first of the bindings with the greatest ValidFrom.
Best(bs, S) ==
  CHOOSE i \in S : \A j \in S : \/ bs[j].validFrom < bs[i].validFrom
                                \/ bs[j].validFrom = bs[i].validFrom /\ i <= j

\* The binding in effect for key k at a time; {} is the code's false.
Resolve(bs, k, at) ==
  LET S == Eligible(bs, k, at)
  IN  IF S = {} THEN {} ELSE {bs[Best(bs, S)]}

----------------------------------------------------------------------------
TypeOK ==
  /\ roots \in Seq(trustedRoot)
  /\ bindings \in Seq(IdentityBinding)
  /\ answer \in {"none", "ok", "ErrUntrustedIssuer", "ErrRootExpired",
                 "ErrBadSignature"}

\* What a Resolver accepted stays vouched for, whatever roots it is told to trust
\* afterwards: a trusted root signed each binding, and the entry that governs that
\* root (identity.go:78-87: the first of its entries) has no cutoff the binding is
\* past.  A later entry for a root neither revokes what the root's earlier entry
\* let in, nor lets in what it kept out.
BindingsStayVouched ==
  \A i \in DOMAIN bindings :
    LET b == bindings[i]
    IN  /\ b.signed
        /\ matchRoot(b.issuer) # 0
        /\ ~PastCutoff(b, roots[matchRoot(b.issuer)])

\* No two entries are for the same root.  (TrustRoot takes a root twice, and
\* matchRoot then heeds the first entry's cutoff only: a later entry that
\* closes an open root changes nothing.)
RootsDistinct ==
  \A i, j \in DOMAIN roots : roots[i].key = roots[j].key => i = j

\* Rotation (identity.go:89-92): once a root with a cutoff is configured, no
\* binding added afterwards makes any key, at any time, resolve to something
\* that root issued past its cutoff.
CutoffShieldsResolution ==
  [][RootsDistinct =>
       \A k \in SignerKeys, at \in Times :
         \A b \in Resolve(bindings', k, at) \ Resolve(bindings, k, at) :
           \A i \in DOMAIN roots :
             roots[i].key = b.issuer => ~PastCutoff(b, roots[i])]_vars

\* Re-registering a key never rewrites the past: a new binding changes no
\* resolution at a time before it is valid, and where it changes one it is
\* the new binding that is found.  ("Effective-at-submission",
\* verification-spec.md section 9.4.)
PastStands ==
  [][\A k \in SignerKeys, at \in Times :
       Resolve(bindings', k, at) # Resolve(bindings, k, at) =>
         LET new == bindings'[Len(bindings')]
         IN  /\ new.validFrom <= at
             /\ Resolve(bindings', k, at) = {new}]_vars

Permuted(bs, perm) == [i \in DOMAIN bs |-> bs[perm[i]]]

Orders(S) == {f \in [S -> S] : \A i, j \in S : f[i] = f[j] => i = j}

\* What a key resolves to does not depend on the order in which leaves were
\* loaded (cmd/hiiverify takes directory order), unless two bindings of the
\* key became valid in the same millisecond.
OrderFree ==
  \A k \in SignerKeys, at \in Times :
    (\A i, j \in DOMAIN bindings :
       bindings[i].key = k /\ bindings[j].key = k
         /\ bindings[i].validFrom = bindings[j].validFrom
         => bindings[i] = bindings[j])
    => \A perm \in Orders(DOMAIN bindings) :
         Resolve(Permuted(bindings, perm), k, at) = Resolve(bindings, k, at)
=============================================================================
