---------------------------- MODULE IdentityProofs ----------------------------
(***************************************************************************)
(* The Resolver of pkg/identity, for every number of roots, bindings, keys *)
(* and times.                                                              *)
(***************************************************************************)
EXTENDS Identity, FirstGreatest

----------------------------------------------------------------------------
(* Resolve finds the first of the latest eligible bindings.                *)

From(bs, S) == [i \in S |-> bs[i].validFrom]

LEMMA FromType ==
  ASSUME NEW bs \in Seq(IdentityBinding), NEW S, S \subseteq DOMAIN bs
  PROVE  /\ IsFiniteSet(S) /\ S \subseteq Nat
         /\ From(bs, S) \in [S -> Nat]
  <1>1. DOMAIN bs = 1..Len(bs) /\ Len(bs) \in Nat
    OBVIOUS
  <1>2. IsFiniteSet(1..Len(bs))
    BY <1>1, FS_Interval
  <1>3. IsFiniteSet(S)
    <2>1. S \in SUBSET (1..Len(bs))
      BY <1>1
    <2> QED
      BY <1>2, <2>1, FS_Subset
  <1>4. \A i \in S : bs[i].validFrom \in Nat
    <2>1. \A i \in S : bs[i] \in IdentityBinding
      BY <1>1
    <2> QED
      BY <2>1, IdentityAssumption DEF IdentityBinding
  <1> QED
    BY <1>1, <1>3, <1>4 DEF From

LEMMA BestIsFirstGreatest ==
  ASSUME NEW bs \in Seq(IdentityBinding), NEW S, S \subseteq DOMAIN bs, S # {}
  PROVE  IsFirstGreatest(Best(bs, S), S, From(bs, S))
  <1>1. \E i \in S : IsFirstGreatest(i, S, From(bs, S))
    BY FromType, FirstGreatestExists
  <1>2. \E i \in S : \A j \in S : \/ bs[j].validFrom < bs[i].validFrom
                                  \/ bs[j].validFrom = bs[i].validFrom /\ i <= j
    BY <1>1 DEF IsFirstGreatest, From
  <1>3. /\ Best(bs, S) \in S
        /\ \A j \in S : \/ bs[j].validFrom < bs[Best(bs, S)].validFrom
                        \/ bs[j].validFrom = bs[Best(bs, S)].validFrom
                             /\ Best(bs, S) <= j
    BY <1>2 DEF Best
  <1> QED
    BY <1>3 DEF IsFirstGreatest, From

LEMMA BestUnique ==
  ASSUME NEW bs \in Seq(IdentityBinding), NEW S, S \subseteq DOMAIN bs,
         NEW i, IsFirstGreatest(i, S, From(bs, S))
  PROVE  Best(bs, S) = i
  <1>1. S # {}
    BY DEF IsFirstGreatest
  <1> QED
    BY <1>1, FromType, BestIsFirstGreatest, FirstGreatestUnique

\* One more binding changes what a key resolves to only if it is valid by
\* then, and only to itself.
LEMMA ResolveAppend ==
  ASSUME NEW bs \in Seq(IdentityBinding), NEW b \in IdentityBinding,
         NEW k, NEW at \in Times,
         Resolve(Append(bs, b), k, at) # Resolve(bs, k, at)
  PROVE  b.validFrom <= at /\ Resolve(Append(bs, b), k, at) = {b}
  <1> DEFINE longer == Append(bs, b)
             n == Len(bs) + 1
             S == Eligible(bs, k, at)
             T == Eligible(longer, k, at)
  <1>1. /\ longer \in Seq(IdentityBinding)
        /\ DOMAIN longer = DOMAIN bs \cup {n} /\ n \notin DOMAIN bs
        /\ longer[n] = b /\ \A i \in DOMAIN bs : longer[i] = bs[i]
    OBVIOUS
  <1>2. T = IF b.key = k /\ b.validFrom <= at THEN S \cup {n} ELSE S
    BY <1>1 DEF Eligible
  <1>3. S \subseteq DOMAIN bs /\ T \subseteq DOMAIN longer /\ n \notin S
    BY <1>1 DEF Eligible
  <1>4. \A i \in S : longer[i] = bs[i]
    BY <1>1, <1>3
  <1>5. ASSUME T # {}, S # {}, Best(longer, T) # n
        PROVE  Best(longer, T) = Best(bs, S)
    <2>1. IsFirstGreatest(Best(longer, T), T, From(longer, T))
      BY <1>1, <1>3, <1>5, BestIsFirstGreatest
    <2>2. Best(longer, T) \in S
      BY <1>2, <1>5, <2>1 DEF IsFirstGreatest
    <2>3. IsFirstGreatest(Best(longer, T), S, From(bs, S))
      BY <1>2, <1>4, <2>1, <2>2 DEF IsFirstGreatest, From
    <2> QED
      BY <1>3, <2>3, BestUnique
  <1>6. T # {}
    BY <1>2 DEF Resolve
  <1>7. Best(longer, T) \in T
    BY <1>1, <1>3, <1>6, BestIsFirstGreatest DEF IsFirstGreatest
  <1>8. Best(longer, T) = n
    <2> SUFFICES ASSUME Best(longer, T) # n
                 PROVE  FALSE
      OBVIOUS
    <2>1. S # {}
      BY <1>2, <1>7
    <2>2. Best(longer, T) = Best(bs, S) /\ Best(bs, S) \in S
      BY <1>2, <1>5, <1>6, <1>7, <2>1
    <2>3. longer[Best(longer, T)] = bs[Best(bs, S)]
      BY <1>4, <2>2
    <2>4. /\ Resolve(longer, k, at) = {longer[Best(longer, T)]}
          /\ Resolve(bs, k, at) = {bs[Best(bs, S)]}
      BY <1>6, <2>1 DEF Resolve
    <2> QED
      BY <2>3, <2>4
  <1>9. b.validFrom <= at
    BY <1>2, <1>3, <1>7, <1>8
  <1>10. Resolve(longer, k, at) = {longer[n]}
    BY <1>6, <1>8 DEF Resolve
  <1> QED
    BY <1>1, <1>9, <1>10

----------------------------------------------------------------------------
LEMMA InitTypeOK == Init => TypeOK
  BY DEF Init, TypeOK, trustedRoot, NoCutoff

LEMMA NextTypeOK == TypeOK /\ [Next]_vars => TypeOK'
  <1> SUFFICES ASSUME TypeOK, [Next]_vars
               PROVE  TypeOK'
    OBVIOUS
  <1>1. CASE TrustRoot
    BY <1>1 DEF TypeOK, TrustRoot
  <1>2. ASSUME NEW b \in IdentityBinding, Accept(b)
        PROVE  TypeOK'
    BY <1>2 DEF TypeOK, Accept
  <1>3. ASSUME NEW b \in IdentityBinding, Reject(b)
        PROVE  TypeOK'
    BY <1>3 DEF TypeOK, Reject, RejectUntrusted, RejectExpired, RejectUnsigned
  <1>4. CASE UNCHANGED vars
    BY <1>4 DEF TypeOK, vars
  <1> QED
    BY <1>1, <1>2, <1>3, <1>4 DEF Next, Add

\* Every variable of a Resolver holds a value the code can give it.
THEOREM TypeCorrect == Spec => []TypeOK
  BY InitTypeOK, NextTypeOK, PTL DEF Spec

\* All that a step can do to the accepted bindings.
LEMMA BindingsGrow ==
  ASSUME [Next]_vars
  PROVE  \/ bindings' = bindings
         \/ \E b \in IdentityBinding : bindings' = Append(bindings, b) /\ Accept(b)
  <1>1. CASE TrustRoot
    BY <1>1 DEF TrustRoot
  <1>2. ASSUME NEW b \in IdentityBinding, Reject(b)
        PROVE  bindings' = bindings
    BY <1>2 DEF Reject
  <1>3. ASSUME NEW b \in IdentityBinding, Accept(b)
        PROVE  bindings' = Append(bindings, b)
    BY <1>3 DEF Accept
  <1>4. CASE UNCHANGED vars
    BY <1>4 DEF vars
  <1> QED
    BY <1>1, <1>2, <1>3, <1>4 DEF Next, Add

----------------------------------------------------------------------------
\* A binding that was accepted stays vouched for by the entry that governs its
\* issuer, whatever roots are trusted later.
THEOREM BindingsAlwaysStayVouched == Spec => []BindingsStayVouched
  <1>1. Init => BindingsStayVouched
    BY DEF Init, BindingsStayVouched
  <1>2. TypeOK /\ BindingsStayVouched /\ [Next]_vars => BindingsStayVouched'
    <2> SUFFICES ASSUME TypeOK, BindingsStayVouched, [Next]_vars
                 PROVE  BindingsStayVouched'
      OBVIOUS
    <2> DEFINE Vouched(b) == /\ b.signed
                             /\ matchRoot(b.issuer) # 0
                             /\ ~PastCutoff(b, roots[matchRoot(b.issuer)])
    <2>1. \A i \in DOMAIN bindings : Vouched(bindings[i])
      BY DEF BindingsStayVouched
    <2>2. \A k : matchRoot(k) # 0 =>
                   matchRoot(k)' = matchRoot(k) /\ roots'[matchRoot(k)] = roots[matchRoot(k)]
      <3>1. CASE TrustRoot
        <4>1. PICK root \in trustedRoot : roots' = Append(roots, root)
          BY <3>1 DEF TrustRoot
        <4> SUFFICES ASSUME NEW k, matchRoot(k) # 0
                     PROVE  /\ matchRoot(k)' = matchRoot(k)
                            /\ roots'[matchRoot(k)] = roots[matchRoot(k)]
          OBVIOUS
        <4> DEFINE entries == {i \in DOMAIN roots : roots[i].key = k}
                   more == {i \in DOMAIN roots' : roots'[i].key = k}
                   n == Len(roots) + 1
        <4>2. /\ Len(roots) \in Nat /\ DOMAIN roots = 1..Len(roots)
              /\ DOMAIN roots' = 1..n
              /\ \A i \in DOMAIN roots : roots'[i] = roots[i]
          BY <4>1 DEF TypeOK
        <4>3. entries # {} /\ entries \subseteq 1..Len(roots)
          BY <4>2 DEF matchRoot
        <4>4. PICK first \in entries : \A j \in entries : first <= j
          <5>1. IsFiniteSet(1..Len(roots))
            BY <4>2, FS_Interval
          <5>2. IsFiniteSet(entries) /\ entries \subseteq Nat
            <6>1. entries \in SUBSET (1..Len(roots))
              BY <4>3
            <6> QED
              BY <4>2, <5>1, <6>1, FS_Subset
          <5> DEFINE same == [i \in entries |-> 0]
          <5>3. \E i \in entries : IsFirstGreatest(i, entries, same)
            <6>1. same \in [entries -> Nat]
              OBVIOUS
            <6> HIDE DEF same, entries
            <6> QED
              BY <4>3, <5>2, <6>1, FirstGreatestExists
          <5>4. \A i \in entries : same[i] = 0
            OBVIOUS
          <5> HIDE DEF same, entries
          <5> QED
            BY <5>2, <5>3, <5>4 DEF IsFirstGreatest
        <4>5. entries \subseteq more /\ \A i \in more : i \in entries \/ i = n
          BY <4>2
        <4>6. first \in more /\ \A j \in more : first <= j
          BY <4>2, <4>3, <4>4, <4>5
        <4> HIDE DEF entries, more
        <4>7. (CHOOSE i \in entries : \A j \in entries : i <= j) = first
          <5>1. \A i \in entries : i \in Nat
            BY <4>2, <4>3
          <5> QED
            BY <4>4, <5>1
        <4>8. (CHOOSE i \in more : \A j \in more : i <= j) = first
          <5>1. \A i \in more : i \in Nat
            BY <4>2 DEF more
          <5> QED
            BY <4>6, <5>1
        <4>9. matchRoot(k) = first /\ matchRoot(k)' = first
          BY <4>3, <4>6, <4>7, <4>8 DEF matchRoot, entries, more
        <4> QED
          BY <4>2, <4>3, <4>4, <4>9
      <3>2. TrustRoot \/ roots' = roots
        BY DEF Next, Add, Accept, Reject, vars
      <3>3. CASE roots' = roots
        BY <3>3 DEF matchRoot
      <3> QED
        BY <3>1, <3>2, <3>3
    <2>3. \A b : Vouched(b) => Vouched(b)'
      BY <2>2 DEF PastCutoff
    <2>4. \A i \in DOMAIN bindings' : Vouched(bindings'[i])
      <3>1. CASE bindings' = bindings
        BY <2>1, <3>1
      <3>2. ASSUME NEW b \in IdentityBinding, bindings' = Append(bindings, b), Accept(b)
            PROVE  \A i \in DOMAIN bindings' : Vouched(bindings'[i])
        <4>1. Vouched(b)
          BY <3>2 DEF Accept
        <4>2. bindings \in Seq(IdentityBinding)
          BY DEF TypeOK
        <4>3. \A i \in DOMAIN bindings' :
                \/ bindings'[i] = b
                \/ i \in DOMAIN bindings /\ bindings'[i] = bindings[i]
          BY <3>2, <4>2
        <4> HIDE DEF Vouched
        <4> QED
          BY <2>1, <4>1, <4>3
      <3> QED
        BY <3>1, <3>2, BindingsGrow
    <2> HIDE DEF Vouched
    <2>5. \A b : (\E i \in DOMAIN bindings' : b = bindings'[i]) => Vouched(b)'
      BY <2>3, <2>4
    <2> QED
      BY <2>5 DEF Vouched, BindingsStayVouched, matchRoot, PastCutoff
  <1> QED
    BY <1>1, <1>2, TypeCorrect, PTL DEF Spec

----------------------------------------------------------------------------
\* Re-registering a key never rewrites the past: resolution of a key at a time
\* changes only to a binding just added, and only if it was valid by then.
THEOREM PastAlwaysStands == Spec => PastStands
  <1> DEFINE Stands ==
        \A k \in SignerKeys, at \in Times :
          Resolve(bindings', k, at) # Resolve(bindings, k, at) =>
            LET new == bindings'[Len(bindings')]
            IN  /\ new.validFrom <= at
                /\ Resolve(bindings', k, at) = {new}
  <1>1. TypeOK /\ [Next]_vars => Stands
    <2> SUFFICES ASSUME TypeOK, [Next]_vars,
                        NEW k \in SignerKeys, NEW at \in Times,
                        Resolve(bindings', k, at) # Resolve(bindings, k, at)
                 PROVE  LET new == bindings'[Len(bindings')]
                        IN  /\ new.validFrom <= at
                            /\ Resolve(bindings', k, at) = {new}
      OBVIOUS
    <2>1. PICK b \in IdentityBinding : bindings' = Append(bindings, b)
      BY BindingsGrow
    <2>2. bindings \in Seq(IdentityBinding)
      BY DEF TypeOK
    <2>3. bindings'[Len(bindings')] = b
      BY <2>1, <2>2
    <2> QED
      BY <2>1, <2>2, <2>3, ResolveAppend
  <1>2. [Next]_vars /\ TypeOK => [Stands]_vars
    BY <1>1
  <1> QED
    BY <1>2, TypeCorrect, PTL DEF Spec, PastStands

\* After a rotation, nothing a rotated-out root issued past its cutoff comes to
\* be what some key resolves to.
THEOREM CutoffAlwaysShields == Spec => CutoffShieldsResolution
  <1> DEFINE Shielded ==
        RootsDistinct =>
          \A k \in SignerKeys, at \in Times :
            \A b \in Resolve(bindings', k, at) \ Resolve(bindings, k, at) :
              \A i \in DOMAIN roots :
                roots[i].key = b.issuer => ~PastCutoff(b, roots[i])
  <1>1. TypeOK /\ [Next]_vars => Shielded
    <2> SUFFICES ASSUME TypeOK, [Next]_vars, RootsDistinct,
                        NEW k \in SignerKeys, NEW at \in Times,
                        NEW b \in Resolve(bindings', k, at) \ Resolve(bindings, k, at),
                        NEW i \in DOMAIN roots, roots[i].key = b.issuer
                 PROVE  ~PastCutoff(b, roots[i])
      OBVIOUS
    <2>1. PICK new \in IdentityBinding :
            bindings' = Append(bindings, new) /\ Accept(new)
      BY BindingsGrow
    <2>2. b = new
      BY <2>1, ResolveAppend DEF TypeOK
    <2>3. matchRoot(b.issuer) = i
      BY DEF matchRoot, RootsDistinct
    <2> QED
      BY <2>1, <2>2, <2>3 DEF Accept
  <1>2. [Next]_vars /\ TypeOK => [Shielded]_vars
    BY <1>1
  <1> QED
    BY <1>2, TypeCorrect, PTL DEF Spec, CutoffShieldsResolution

----------------------------------------------------------------------------
\* An order of finitely many positions leaves none out.
LEMMA OrderIsOnto ==
  ASSUME NEW n \in Nat, NEW perm \in Orders(1..n)
  PROVE  \A j \in 1..n : \E i \in 1..n : perm[i] = j
  <1>1. perm \in Injection(1..n, 1..n)
    BY DEF Orders, Injection, IsInjective
  <1>2. IsFiniteSet(1..n)
    BY FS_Interval
  <1>3. perm \in Surjection(1..n, 1..n)
    BY <1>1, <1>2, FS_Injection
  <1> QED
    BY <1>3 DEF Surjection

\* Where no two bindings of a key became valid in the same millisecond, what the
\* key resolves to does not depend on the order in which leaves were loaded.
THEOREM OrderAlwaysFree == Spec => []OrderFree
  <1>1. TypeOK => OrderFree
    <2> SUFFICES ASSUME TypeOK, NEW k \in SignerKeys, NEW at \in Times,
                        \A i, j \in DOMAIN bindings :
                          bindings[i].key = k /\ bindings[j].key = k
                            /\ bindings[i].validFrom = bindings[j].validFrom
                            => bindings[i] = bindings[j],
                        NEW perm \in Orders(DOMAIN bindings)
                 PROVE  Resolve(Permuted(bindings, perm), k, at) = Resolve(bindings, k, at)
      BY DEF OrderFree
    <2> DEFINE bs == bindings
               ps == Permuted(bindings, perm)
               S == Eligible(bs, k, at)
               P == Eligible(ps, k, at)
    <2>1. bs \in Seq(IdentityBinding) /\ DOMAIN bs = 1..Len(bs) /\ Len(bs) \in Nat
      BY DEF TypeOK
    <2>2. /\ perm \in [DOMAIN bs -> DOMAIN bs]
          /\ \A j \in DOMAIN bs : \E i \in DOMAIN bs : perm[i] = j
      <3>1. perm \in Orders(1..Len(bs))
        BY <2>1
      <3>2. \A j \in 1..Len(bs) : \E i \in 1..Len(bs) : perm[i] = j
        BY <2>1, <3>1, OrderIsOnto
      <3> QED
        BY <2>1, <3>1, <3>2 DEF Orders
    <2>3. /\ DOMAIN ps = DOMAIN bs /\ ps \in Seq(IdentityBinding)
          /\ \A i \in DOMAIN bs : ps[i] = bs[perm[i]]
      <3>1. \A i \in 1..Len(bs) : bs[perm[i]] \in IdentityBinding
        BY <2>1, <2>2
      <3>2. ps = [i \in 1..Len(bs) |-> bs[perm[i]]]
        BY <2>1 DEF Permuted
      <3> QED
        BY <2>1, <3>1, <3>2
    <2>4. S \subseteq DOMAIN bs /\ P \subseteq DOMAIN ps
      BY DEF Eligible
    <2>5. \A i \in DOMAIN bs : i \in P <=> perm[i] \in S
      BY <2>2, <2>3 DEF Eligible
    <2>6. P = {} <=> S = {}
      BY <2>2, <2>3, <2>4, <2>5
    <2> DEFINE i == Best(bs, S)
               j == Best(ps, P)
    <2>7. ASSUME S # {}
          PROVE  ps[j] = bs[i]
      <3>1. IsFirstGreatest(i, S, From(bs, S)) /\ IsFirstGreatest(j, P, From(ps, P))
        <4> HIDE DEF bs, ps, S, P
        <4> QED
          BY <2>1, <2>3, <2>4, <2>6, <2>7, BestIsFirstGreatest
      <3>2. \A a \in S : bs[a].validFrom \in Nat /\ bs[a].key = k
        <4>1. \A a \in S : bs[a] \in IdentityBinding
          BY <2>1, <2>4
        <4>2. \A a \in S : bs[a].key = k
          BY DEF Eligible
        <4> HIDE DEF S, bs
        <4> QED
          BY <4>1, <4>2, IdentityAssumption DEF IdentityBinding
      <3> HIDE DEF bs, ps, S, P, i, j
      <3>3. /\ i \in S /\ j \in P
            /\ \A a \in S : bs[a].validFrom <= bs[i].validFrom
            /\ \A a \in P : ps[a].validFrom <= ps[j].validFrom
        <4>1. i \in S /\ j \in P
          BY <3>1 DEF IsFirstGreatest
        <4>2. \A a \in P : ps[a].validFrom \in Nat
          BY <2>3, <2>4, <2>5, <3>2
        <4>3. \A a \in S : bs[a].validFrom < bs[i].validFrom \/ bs[a].validFrom = bs[i].validFrom
          BY <3>1, <4>1 DEF IsFirstGreatest, From
        <4>4. \A a \in P : ps[a].validFrom < ps[j].validFrom \/ ps[a].validFrom = ps[j].validFrom
          BY <3>1, <4>1 DEF IsFirstGreatest, From
        <4> QED
          BY <3>2, <4>1, <4>2, <4>3, <4>4
      <3>4. PICK b \in DOMAIN bs : perm[b] = i
        BY <2>2, <2>4, <3>3
      <3>5. perm[j] \in S /\ ps[j] = bs[perm[j]] /\ b \in P /\ ps[b] = bs[i]
        BY <2>3, <2>4, <2>5, <3>3, <3>4
      <3>6. bs[perm[j]].validFrom = bs[i].validFrom
        <4>1. bs[perm[j]].validFrom <= bs[i].validFrom
          BY <3>3, <3>5
        <4>2. bs[i].validFrom <= bs[perm[j]].validFrom
          BY <3>3, <3>5
        <4> QED
          BY <3>2, <3>3, <3>5, <4>1, <4>2
      <3>7. bs[perm[j]] = bs[i]
        BY <2>4, <3>2, <3>3, <3>5, <3>6 DEF bs
      <3> QED
        BY <3>5, <3>7
    <2> HIDE DEF i, j, P, S, ps, bs
    <2>8. Resolve(bs, k, at) = IF S = {} THEN {} ELSE {bs[i]}
      BY DEF Resolve, i, S
    <2>9. Resolve(ps, k, at) = IF P = {} THEN {} ELSE {ps[j]}
      BY DEF Resolve, j, P
    <2>10. Resolve(ps, k, at) = Resolve(bs, k, at)
      BY <2>6, <2>7, <2>8, <2>9
    <2> QED
      BY <2>10 DEF ps, bs
  <1> QED
    BY <1>1, TypeCorrect, PTL
=============================================================================
