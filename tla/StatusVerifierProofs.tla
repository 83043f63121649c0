------------------------- MODULE StatusVerifierProofs -------------------------
(***************************************************************************)
(* The status check, for every log, store and hint, and while the log      *)
(* grows, the store is written and checkpoints are published between any   *)
(* two of its fetches.                                                     *)
(***************************************************************************)
EXTENDS StatusVerifier, FirstGreatest

\* All that a check can rely on of what it reads: the log only grows, and no
\* checkpoint runs ahead of it.  The store may be overwritten at will.
ReadInit == log \in Seq(Leaf) /\ checkpoint \in 0..Len(log)

Elsewhere ==
  /\ log' \in Seq(Leaf) /\ Len(log) <= Len(log')
  /\ \A i \in 1..Len(log) : log'[i] = log[i]
  /\ checkpoint' \in 0..Len(log')
  /\ UNCHANGED check

VerifierNext == (Check /\ UNCHANGED read) \/ Elsewhere

VerifierSpec == ReadInit /\ Init /\ [][VerifierNext]_<<read, check>>

----------------------------------------------------------------------------
(* Reading a stretch of the log.                                           *)

LEMMA BundleFacts ==
  /\ BundleSize \in Nat /\ BundleSize > 0
  /\ \A n \in Nat : n \div BundleSize \in Nat
  /\ 0 \div BundleSize = 0
  BY StatusLogAssumption

LEMMA Products ==
  /\ \A b \in Nat : b * BundleSize \in Nat
  /\ \A b \in Nat : (b + 1) * BundleSize = b * BundleSize + BundleSize
  /\ 0 * BundleSize = 0
  BY StatusLogAssumption

LEMMA ProductsGrow ==
  \A a, b \in Nat : a <= b => a * BundleSize <= b * BundleSize
  BY StatusLogAssumption

Versions(lg, S) == [i \in S |-> lg[i].version]

LEMMA TrustedFacts ==
  ASSUME NEW lg \in Seq(Leaf), NEW S, S \subseteq 1..Len(lg)
  PROVE  /\ TrustedIn(lg, S) \subseteq Nat \ {0} /\ IsFiniteSet(TrustedIn(lg, S))
         /\ TrustedIn(lg, S) \subseteq S
         /\ Versions(lg, TrustedIn(lg, S)) \in [TrustedIn(lg, S) -> Nat]
  <1>1. TrustedIn(lg, S) \subseteq S
    BY DEF TrustedIn
  <1>2. Len(lg) \in Nat /\ TrustedIn(lg, S) \in SUBSET (1..Len(lg))
    <2>1. Len(lg) \in Nat
      OBVIOUS
    <2>2. TrustedIn(lg, S) \in SUBSET (1..Len(lg))
      BY <1>1, Zenon
    <2> QED
      BY <2>1, <2>2
  <1>3. IsFiniteSet(TrustedIn(lg, S))
    <2>1. IsFiniteSet(1..Len(lg))
      BY <1>2, FS_Interval
    <2> QED
      BY <1>2, <2>1, FS_Subset
  <1>4. \A i \in TrustedIn(lg, S) : lg[i].version \in Nat
    <2> SUFFICES ASSUME NEW i \in TrustedIn(lg, S)
                 PROVE  lg[i].version \in Nat
      OBVIOUS
    <2>1. lg[i] \in Leaf
      BY <1>2
    <2>2. lg[i].kind = "anchor"
      BY DEF TrustedIn, Trusted, IsAnchor
    <2>3. lg[i] \in StatusAnchor
      BY <2>1, <2>2 DEF Leaf, OtherLeaf
    <2> QED
      BY <2>3 DEF StatusAnchor
  <1> QED
    BY <1>1, <1>2, <1>3, <1>4 DEF Versions

LEMMA FirstNewestIs ==
  ASSUME NEW lg, NEW T, T \subseteq Nat, IsFiniteSet(T), T # {},
         Versions(lg, T) \in [T -> Nat]
  PROVE  IsFirstGreatest(FirstNewest(lg, T), T, Versions(lg, T))
  <1>1. \E i \in T : IsFirstGreatest(i, T, Versions(lg, T))
    BY FirstGreatestExists
  <1>2. \E i \in T : \A j \in T : \/ lg[j].version < lg[i].version
                                  \/ lg[j].version = lg[i].version /\ i <= j
    BY <1>1 DEF IsFirstGreatest, Versions
  <1>3. /\ FirstNewest(lg, T) \in T
        /\ \A j \in T : \/ lg[j].version < lg[FirstNewest(lg, T)].version
                        \/ lg[j].version = lg[FirstNewest(lg, T)].version
                             /\ FirstNewest(lg, T) <= j
    BY <1>2 DEF FirstNewest
  <1> QED
    BY <1>3 DEF IsFirstGreatest, Versions

IsNewest(lg, T, k) ==
  /\ k \in T
  /\ \A j \in T : \/ lg[j].version < lg[k].version
                  \/ lg[j].version = lg[k].version /\ k <= j

LEMMA NewestTrusted ==
  ASSUME NEW lg \in Seq(Leaf), NEW S, S \subseteq 1..Len(lg), TrustedIn(lg, S) # {}
  PROVE  IsNewest(lg, TrustedIn(lg, S), FirstNewest(lg, TrustedIn(lg, S)))
  <1> DEFINE T == TrustedIn(lg, S)
  <1>1. T \subseteq Nat /\ IsFiniteSet(T) /\ Versions(lg, T) \in [T -> Nat]
    BY TrustedFacts
  <1>2. T # {}
    OBVIOUS
  <1> HIDE DEF T
  <1>3. IsFirstGreatest(FirstNewest(lg, T), T, Versions(lg, T))
    BY <1>1, <1>2, FirstNewestIs
  <1>4. IsNewest(lg, T, FirstNewest(lg, T))
    BY <1>3 DEF IsFirstGreatest, Versions, IsNewest
  <1> QED
    BY <1>4 DEF T

LEMMA FirstNewestUnique ==
  ASSUME NEW lg, NEW T, T \subseteq Nat, IsFiniteSet(T),
         Versions(lg, T) \in [T -> Nat],
         NEW i, IsFirstGreatest(i, T, Versions(lg, T))
  PROVE  FirstNewest(lg, T) = i
  <1>1. T # {}
    BY DEF IsFirstGreatest
  <1> QED
    BY <1>1, FirstNewestIs, FirstGreatestUnique

Readable(lg, S) ==
  S \subseteq Nat \ {0} /\ IsFiniteSet(S) /\ Versions(lg, S) \in [S -> Nat]

\* Reading on from the newest of what was read finds the newest of it all.
LEMMA NewestOfBoth ==
  ASSUME NEW lg, NEW S, NEW T, Readable(lg, S \cup T)
  PROVE  NewestIn(lg, T \cup ({NewestIn(lg, S)} \ {0})) = NewestIn(lg, S \cup T)
  <1>0. /\ S \cup T \subseteq Nat \ {0} /\ IsFiniteSet(S \cup T)
        /\ Versions(lg, S \cup T) \in [S \cup T -> Nat]
    BY DEF Readable
  <1>1. CASE S = {}
    <2>1. T \cup ({NewestIn(lg, S)} \ {0}) = S \cup T
      BY <1>1 DEF NewestIn
    <2> QED
      BY <2>1
  <1>2. CASE S # {}
    <2> DEFINE i == FirstNewest(lg, S)
               k == FirstNewest(lg, S \cup T)
               rest == T \cup {i}
    <2>1. /\ S \subseteq Nat /\ IsFiniteSet(S) /\ Versions(lg, S) \in [S -> Nat]
      <3>1. S \in SUBSET (S \cup T)
        OBVIOUS
      <3>2. \A j \in S \cup T : lg[j].version \in Nat
        BY <1>0 DEF Versions
      <3> QED
        BY <1>0, <3>1, <3>2, FS_Subset DEF Versions
    <2>2. IsFirstGreatest(i, S, Versions(lg, S))
      BY <1>2, <2>1, FirstNewestIs
    <2>3. IsFirstGreatest(k, S \cup T, Versions(lg, S \cup T))
      BY <1>0, <1>2, FirstNewestIs
    <2>4. i \in S /\ i # 0
      BY <1>0, <2>2 DEF IsFirstGreatest
    <2>5. rest \subseteq S \cup T /\ rest # {}
      BY <2>4
    <2>6. /\ rest \subseteq Nat /\ IsFiniteSet(rest)
          /\ Versions(lg, rest) \in [rest -> Nat]
      <3>1. rest \in SUBSET (S \cup T)
        BY <2>5
      <3>2. \A j \in S \cup T : lg[j].version \in Nat
        BY <1>0 DEF Versions
      <3> HIDE DEF rest
      <3> QED
        BY <1>0, <3>1, <3>2, FS_Subset DEF Versions
    <2> HIDE DEF i, k
    <2>7. k \in rest
      <3>1. CASE k \in T
        BY <3>1
      <3>2. CASE k \in S
        <4>1. IsFirstGreatest(k, S, Versions(lg, S))
          BY <2>3, <3>2 DEF IsFirstGreatest, Versions
        <4>2. k = i
          BY <2>1, <4>1, FirstNewestUnique DEF i
        <4> QED
          BY <4>2
      <3> QED
        BY <2>3, <3>1, <3>2 DEF IsFirstGreatest
    <2>8. IsFirstGreatest(k, rest, Versions(lg, rest))
      BY <2>3, <2>5, <2>7 DEF IsFirstGreatest, Versions
    <2> HIDE DEF rest
    <2>9. FirstNewest(lg, rest) = k
      BY <2>6, <2>8, FirstNewestUnique
    <2>10. NewestIn(lg, S) = i /\ NewestIn(lg, S \cup T) = k
      BY <1>2 DEF NewestIn, i, k
    <2>11. T \cup ({i} \ {0}) = rest
      BY <2>4 DEF rest
    <2>12. NewestIn(lg, rest) = k
      BY <2>5, <2>9 DEF NewestIn
    <2> QED
      BY <2>10, <2>11, <2>12
  <1> QED
    BY <1>1, <1>2

LEMMA NewestOfRest ==
  \A lg, all, ahead, S, T :
    /\ Readable(lg, all) /\ all = S \cup T
    /\ ahead = T \cup ({NewestIn(lg, S)} \ {0})
    => NewestIn(lg, ahead) = NewestIn(lg, all)
  <1> TAKE lg, all, ahead, S, T
  <1> SUFFICES ASSUME Readable(lg, S \cup T)
               PROVE  NewestIn(lg, T \cup ({NewestIn(lg, S)} \ {0})) = NewestIn(lg, S \cup T)
    OBVIOUS
  <1> QED
    BY NewestOfBoth

\* What lies in a stretch does not change as the log grows.
LEMMA StretchStands ==
  ASSUME NEW lg \in Seq(Leaf), NEW longer, \A i \in 1..Len(lg) : longer[i] = lg[i],
         NEW S, S \subseteq 1..Len(lg)
  PROVE  /\ TrustedIn(longer, S) = TrustedIn(lg, S)
         /\ UntrustedIn(longer, S) = UntrustedIn(lg, S)
         /\ FirstNewest(longer, TrustedIn(longer, S)) = FirstNewest(lg, TrustedIn(lg, S))
         /\ NewestIn(longer, TrustedIn(longer, S)) = NewestIn(lg, TrustedIn(lg, S))
  <1>1. \A i \in S : longer[i] = lg[i]
    OBVIOUS
  <1>2. /\ TrustedIn(longer, S) = TrustedIn(lg, S)
        /\ UntrustedIn(longer, S) = UntrustedIn(lg, S)
    BY <1>1 DEF TrustedIn, UntrustedIn
  <1>3. \A i \in TrustedIn(lg, S) : longer[i] = lg[i]
    BY <1>1 DEF TrustedIn
  <1>4. FirstNewest(longer, TrustedIn(lg, S)) = FirstNewest(lg, TrustedIn(lg, S))
    BY <1>3 DEF FirstNewest
  <1> QED
    BY <1>2, <1>4 DEF NewestIn

----------------------------------------------------------------------------
(* The scan.                                                               *)

\* Of the bundles from `first' on, those before b have been read: up to leaf
\* `end', the newest trusted anchor and whether there was an untrusted one.
Read(lg, from, end, nw, saw) ==
  /\ nw = NewestIn(lg, TrustedIn(lg, (from + 1)..end))
  /\ saw <=> UntrustedIn(lg, (from + 1)..end) # {}

EndRead(sz, rch, b) == IF b * BundleSize <= sz THEN b * BundleSize ELSE rch

ScanOK(lg, sz, rch, first, b, nw, saw) ==
  /\ first <= b
  /\ b * BundleSize <= sz => rch = sz
  /\ Read(lg, first * BundleSize, EndRead(sz, rch, b), nw, saw)

\* What a verdict rests on: a log without anchors, or the newest trusted anchor from
\* some leaf on.
ResultOK(lg, rch, subj, vd, why) ==
  /\ vd \in {"VERIFIED", "WITHDRAWN"} =>
       \/ /\ vd = "VERIFIED"
          /\ TrustedIn(lg, 1..rch) = {} /\ UntrustedIn(lg, 1..rch) = {}
       \/ \E from \in Nat :
            LET T == TrustedIn(lg, (from + 1)..rch)
            IN  /\ T # {}
                /\ vd = "WITHDRAWN" <=> subj \in lg[FirstNewest(lg, T)].hash.withdrawn
  /\ why = "anchor_untrusted" =>
       TrustedIn(lg, 1..rch) = {} /\ UntrustedIn(lg, 1..rch) # {}

\* What a walk knows of the leaves it was shown, whatever it was shown.
ShownOK(lg, seen, nw, saw) ==
  /\ nw # 0 => nw \in TrustedIn(lg, seen)
  /\ nw = 0 => TrustedIn(lg, seen) = {}
  /\ ~saw => UntrustedIn(lg, seen) = {}

\* What VERIFIED rests on among them.
EvidenceOK(lg, seen, subj, vd) ==
  vd = "VERIFIED" =>
    \/ \A i \in seen : ~IsAnchor(lg[i])
    \/ \E i \in TrustedIn(lg, seen) : subj \notin lg[i].hash.withdrawn

VerifierInv ==
  /\ TypeOK
  /\ log \in Seq(Leaf)
  /\ checkpoint \in 0..Len(log)
  /\ size <= reach /\ reach <= Len(log)
  /\ shown \subseteq 1..Len(log)
  /\ vpc # "scan" => newest = 0 /\ ~sawUntrusted
  /\ vpc = "hint" => reach = size /\ shown = {}
  /\ vpc = "scan" => ShownOK(log, shown, newest, sawUntrusted)
  /\ vpc = "scan" /\ faithful =>
       ScanOK(log, size, reach, start \div BundleSize, bundle, newest, sawUntrusted)
  /\ vpc # "done" => verdict = "none" /\ reason = "none"
  /\ vpc = "done" /\ faithful => ResultOK(log, reach, subject, verdict, reason)
  /\ vpc = "done" => EvidenceOK(log, shown, subject, verdict)
  /\ ReasonIsGiven

LEMMA NothingRead ==
  ASSUME NEW lg, NEW sz \in Nat, NEW b \in Nat
  PROVE  ScanOK(lg, sz, sz, b, b, 0, FALSE)
  <1>1. b * BundleSize \in Nat
    BY Products
  <1> DEFINE from == b * BundleSize
  <1> HIDE DEF from
  <1>2. from \in Nat
    BY <1>1 DEF from
  <1>3. (from + 1)..(IF from <= sz THEN from ELSE sz) = {}
    BY <1>2
  <1>4. Read(lg, from, IF from <= sz THEN from ELSE sz, 0, FALSE)
    BY <1>3 DEF Read, TrustedIn, UntrustedIn, NewestIn
  <1>5. Read(lg, b * BundleSize, EndRead(sz, sz, b), 0, FALSE)
    BY <1>4 DEF EndRead, from
  <1>6. b <= b
    OBVIOUS
  <1> QED
    BY <1>5, <1>6 DEF ScanOK

\* Reading on to a later leaf.
LEMMA ReadOn ==
  ASSUME NEW lg \in Seq(Leaf), NEW from \in Nat, NEW mid \in Nat, NEW end \in Nat,
         from <= mid, mid <= end, end <= Len(lg),
         NEW nw, NEW saw \in BOOLEAN, Read(lg, from, mid, nw, saw)
  PROVE  Read(lg, from, end,
              NewestIn(lg, TrustedIn(lg, (mid + 1)..end) \cup ({nw} \ {0})),
              saw \/ UntrustedIn(lg, (mid + 1)..end) # {})
  <1> DEFINE R == (from + 1)..mid
             Q == (mid + 1)..end
             P == (from + 1)..end
  <1>1. P = R \cup Q /\ P \subseteq 1..Len(lg)
    BY SMT
  <1> HIDE DEF P, Q, R
  <1>2. /\ TrustedIn(lg, P) = TrustedIn(lg, R) \cup TrustedIn(lg, Q)
        /\ UntrustedIn(lg, P) = UntrustedIn(lg, R) \cup UntrustedIn(lg, Q)
    BY <1>1 DEF TrustedIn, UntrustedIn
  <1>3. /\ TrustedIn(lg, P) \subseteq Nat \ {0} /\ IsFiniteSet(TrustedIn(lg, P))
        /\ Versions(lg, TrustedIn(lg, P)) \in [TrustedIn(lg, P) -> Nat]
    BY <1>1, TrustedFacts
  <1>4. nw = NewestIn(lg, TrustedIn(lg, R)) /\ (saw <=> UntrustedIn(lg, R) # {})
    BY DEF Read, R
  <1>5. NewestIn(lg, TrustedIn(lg, Q) \cup ({nw} \ {0})) = NewestIn(lg, TrustedIn(lg, P))
    <2> DEFINE TR == TrustedIn(lg, R)
               TQ == TrustedIn(lg, Q)
    <2>1. Readable(lg, TR \cup TQ)
      BY <1>2, <1>3 DEF Readable
    <2> DEFINE all == TR \cup TQ
               ahead == TQ \cup ({NewestIn(lg, TR)} \ {0})
    <2>2. all = TR \cup TQ /\ ahead = TQ \cup ({NewestIn(lg, TR)} \ {0})
      OBVIOUS
    <2>3. Readable(lg, all)
      BY <2>1
    <2> HIDE DEF TR, TQ, all, ahead
    <2>4. NewestIn(lg, ahead) = NewestIn(lg, all)
      BY <2>2, <2>3, NewestOfRest, Zenon
    <2> QED
      BY <1>2, <1>4, <2>4 DEF TR, TQ, all, ahead
  <1>6. (saw \/ UntrustedIn(lg, Q) # {}) <=> UntrustedIn(lg, P) # {}
    BY <1>2, <1>4
  <1> QED
    BY <1>5, <1>6 DEF Read, P, Q

\* Growth of the log between two fetches takes nothing back.
LEMMA ElsewhereKeeps ==
  ASSUME VerifierInv, log' \in Seq(Leaf), Len(log) <= Len(log'),
         \A i \in 1..Len(log) : log'[i] = log[i], checkpoint' \in 0..Len(log'),
         UNCHANGED check
  PROVE  VerifierInv'
  <1>1. /\ log \in Seq(Leaf) /\ reach \in Nat /\ reach <= Len(log) /\ size <= reach
        /\ size \in Nat /\ bundle \in Nat
    BY DEF VerifierInv, TypeOK
  <1>2. UNCHANGED <<vpc, subject, size, start, bundle, newest, sawUntrusted, reach,
                    shown, faithful, verdict, reason>>
    BY DEF check
  <1>3. \A from \in Nat, end \in Nat : end <= reach => (from + 1)..end \subseteq 1..Len(log)
    BY <1>1
  <1>4. ASSUME NEW from \in Nat, NEW end \in Nat, end <= reach
        PROVE  LET S == (from + 1)..end
               IN  /\ TrustedIn(log', S) = TrustedIn(log, S)
                   /\ UntrustedIn(log', S) = UntrustedIn(log, S)
                   /\ FirstNewest(log', TrustedIn(log', S)) = FirstNewest(log, TrustedIn(log, S))
                   /\ NewestIn(log', TrustedIn(log', S)) = NewestIn(log, TrustedIn(log, S))
    BY <1>1, <1>3, <1>4, StretchStands
  <1>5. ASSUME vpc = "scan", faithful
        PROVE  ScanOK(log', size, reach, start \div BundleSize, bundle, newest, sawUntrusted)
    <2> DEFINE first == start \div BundleSize
               from == first * BundleSize
               end == EndRead(size, reach, bundle)
    <2>1. ScanOK(log, size, reach, first, bundle, newest, sawUntrusted)
      BY <1>5 DEF VerifierInv
    <2>2. from \in Nat
      BY BundleFacts, Products DEF VerifierInv, TypeOK
    <2>3. end \in Nat /\ end <= reach
      <3>1. bundle * BundleSize \in Nat
        BY <1>1, Products
      <3> QED
        BY <1>1, <3>1 DEF EndRead
    <2> HIDE DEF end, from, first
    <2>4. Read(log, from, end, newest, sawUntrusted)
      BY <2>1 DEF ScanOK, end, from
    <2>5. Read(log', from, end, newest, sawUntrusted)
      BY <1>4, <2>2, <2>3, <2>4 DEF Read
    <2> QED
      BY <2>1, <2>5 DEF ScanOK, end, from, first
  <1>6. ASSUME vpc = "done", faithful
        PROVE  ResultOK(log', reach, subject, verdict, reason)
    <2>1. ResultOK(log, reach, subject, verdict, reason)
      BY <1>6 DEF VerifierInv
    <2>2. /\ TrustedIn(log', 1..reach) = TrustedIn(log, 1..reach)
          /\ UntrustedIn(log', 1..reach) = UntrustedIn(log, 1..reach)
      <3>1. 0 + 1 = 1 /\ 0 \in Nat /\ reach <= reach
        BY <1>1
      <3> QED
        BY <1>1, <3>1, <1>4, Zenon
    <2>3. ASSUME NEW from \in Nat
          PROVE  LET T == TrustedIn(log, (from + 1)..reach)
                     T2 == TrustedIn(log', (from + 1)..reach)
                 IN  /\ T2 = T
                     /\ T # {} => log'[FirstNewest(log', T2)] = log[FirstNewest(log, T)]
      <3> DEFINE T == TrustedIn(log, (from + 1)..reach)
                 T2 == TrustedIn(log', (from + 1)..reach)
      <3>1. T2 = T /\ FirstNewest(log', T2) = FirstNewest(log, T)
        BY <1>1, <1>4
      <3>2. /\ T \subseteq (from + 1)..reach /\ T \subseteq Nat /\ IsFiniteSet(T)
            /\ Versions(log, T) \in [T -> Nat]
        BY <1>1, <1>3, TrustedFacts
      <3>3. (from + 1)..reach \subseteq 1..Len(log)
        BY <1>1, <1>3
      <3> HIDE DEF T, T2
      <3>4. T # {} => FirstNewest(log, T) \in T
        BY <3>2, FirstNewestIs DEF IsFirstGreatest
      <3>5. T # {} => log'[FirstNewest(log, T)] = log[FirstNewest(log, T)]
        BY <3>2, <3>3, <3>4
      <3> QED
        BY <3>1, <3>5 DEF T, T2
    <2> QED
      BY <2>1, <2>2, <2>3 DEF ResultOK
  <1>7. TypeOK'
    BY <1>2 DEF VerifierInv, TypeOK
  <1>8. Len(log') \in Nat /\ reach <= Len(log')
    <2>1. Len(log') \in Nat /\ Len(log) \in Nat
      BY <1>1
    <2> QED
      BY <1>1, <2>1
  <1>9. shown \subseteq 1..Len(log') /\ \A i \in shown : log'[i] = log[i]
    <2>1. Len(log') \in Nat /\ Len(log) \in Nat /\ shown \subseteq 1..Len(log)
      BY <1>1 DEF VerifierInv
    <2> QED
      BY <2>1
  <1>10. /\ TrustedIn(log', shown) = TrustedIn(log, shown)
         /\ UntrustedIn(log', shown) = UntrustedIn(log, shown)
    BY <1>9 DEF TrustedIn, UntrustedIn
  <1>11. vpc = "scan" => ShownOK(log', shown, newest, sawUntrusted)
    BY <1>10 DEF VerifierInv, ShownOK
  <1>12. vpc = "done" => EvidenceOK(log', shown, subject, verdict)
    <2>1. \A i \in TrustedIn(log, shown) : i \in shown
      BY DEF TrustedIn
    <2> QED
      BY <1>9, <1>10, <2>1 DEF VerifierInv, EvidenceOK
  <1>13. ReasonIsGiven'
    BY <1>2 DEF VerifierInv, ReasonIsGiven
  <1>14. /\ vpc' = "scan" => ShownOK(log', shown', newest', sawUntrusted')
         /\ vpc' = "done" => EvidenceOK(log', shown', subject', verdict')
         /\ shown' \subseteq 1..Len(log')
    BY <1>2, <1>9, <1>11, <1>12
  <1> QED
    BY <1>1, <1>2, <1>5, <1>6, <1>7, <1>8, <1>13, <1>14 DEF VerifierInv

----------------------------------------------------------------------------
(* The steps of a check, which change nothing of what is read.             *)

LEMMA ConcludeKeeps ==
  ASSUME VerifierInv, UNCHANGED read,
         NEW how \in {"VERIFIED", "WITHDRAWN", "INDETERMINATE"}, NEW why \in Reasons,
         Conclude(how, why), how = "INDETERMINATE" <=> why # "none",
         EvidenceOK(log, shown, subject, how),
         faithful => ResultOK(log, reach, subject, how, why)
  PROVE  VerifierInv'
  <1>1. /\ vpc' = "done" /\ verdict' = how /\ reason' = why
        /\ start' = 0 /\ bundle' = 0 /\ newest' = 0 /\ ~sawUntrusted'
        /\ sawUntrusted' \in BOOLEAN
        /\ UNCHANGED <<subject, size, reach, shown, faithful>>
    BY DEF Conclude
  <1>2. UNCHANGED <<log, checkpoint>>
    BY DEF read
  <1>3. TypeOK'
    BY <1>1 DEF VerifierInv, TypeOK
  <1>4. ReasonIsGiven'
    BY <1>1 DEF ReasonIsGiven
  <1> QED
    BY <1>1, <1>2, <1>3, <1>4 DEF VerifierInv

LEMMA Unsure ==
  ASSUME NEW lg, NEW rch, NEW seen, NEW subj, NEW why, why # "anchor_untrusted"
  PROVE  /\ ResultOK(lg, rch, subj, "INDETERMINATE", why)
         /\ EvidenceOK(lg, seen, subj, "INDETERMINATE")
  BY DEF ResultOK, EvidenceOK

\* What has been read once the scan has come to its end.
LEMMA ScannedAll ==
  ASSUME VerifierInv, Scanned, faithful
  PROVE  Read(log, (start \div BundleSize) * BundleSize, reach, newest, sawUntrusted)
  <1>1. bundle \in Nat /\ size \in Nat /\ bundle * BundleSize \in Nat
    BY Products DEF VerifierInv, TypeOK
  <1>2. ScanOK(log, size, reach, start \div BundleSize, bundle, newest, sawUntrusted)
    BY DEF VerifierInv, Scanned
  <1>3. bundle * BundleSize >= size
    BY DEF Scanned
  <1>4. EndRead(size, reach, bundle) = reach
    <2>1. CASE bundle * BundleSize <= size
      <3>1. bundle * BundleSize = size
        BY <1>1, <1>3, <2>1
      <3>2. reach = size
        BY <1>2, <2>1 DEF ScanOK
      <3> QED
        BY <2>1, <3>1, <3>2 DEF EndRead
    <2>2. CASE ~(bundle * BundleSize <= size)
      BY <2>2 DEF EndRead
    <2> QED
      BY <2>1, <2>2
  <1> QED
    BY <1>2, <1>4 DEF ScanOK

LEMMA FetchCheckpointKeeps ==
  ASSUME VerifierInv, FetchCheckpoint, UNCHANGED read
  PROVE  VerifierInv'
  <1>1. /\ vpc' = "hint" /\ subject' \in Subjects
        /\ size' = checkpoint /\ reach' = checkpoint /\ shown' = {} /\ faithful' = TRUE
        /\ verdict' = "none" /\ reason' = "none"
        /\ UNCHANGED <<start, bundle, newest, sawUntrusted>>
    BY DEF FetchCheckpoint
  <1>2. newest = 0 /\ ~sawUntrusted
    BY DEF FetchCheckpoint, VerifierInv
  <1>3. UNCHANGED <<log, checkpoint>>
    BY DEF read
  <1>4. checkpoint \in Nat /\ checkpoint <= Len(log) /\ checkpoint <= checkpoint
    <2>1. Len(log) \in Nat
      BY DEF VerifierInv
    <2> QED
      BY <2>1 DEF VerifierInv
  <1>5. TypeOK'
    BY <1>1, <1>4 DEF VerifierInv, TypeOK, Reasons
  <1> QED
    BY <1>1, <1>2, <1>3, <1>4, <1>5 DEF VerifierInv, ReasonIsGiven

LEMMA FetchHintKeeps ==
  ASSUME VerifierInv, FetchHint, UNCHANGED read
  PROVE  VerifierInv'
  <1>1. /\ vpc = "hint" /\ vpc' = "scan" /\ start' \in {0} \cup 0..(size - 1)
        /\ bundle' = start' \div BundleSize
        /\ UNCHANGED <<subject, size, newest, sawUntrusted, reach, shown, faithful,
                       verdict, reason>>
    BY DEF FetchHint
  <1>2. UNCHANGED <<log, checkpoint>>
    BY DEF read
  <1>3. /\ newest = 0 /\ ~sawUntrusted /\ reach = size /\ size \in Nat
        /\ sawUntrusted \in BOOLEAN /\ shown = {}
    BY <1>1 DEF VerifierInv, TypeOK
  <1>4. start' \in Nat /\ bundle' \in Nat
    <2>1. start' \in Nat
      BY <1>1, <1>3
    <2>2. start' \div BundleSize \in Nat
      BY <2>1, BundleFacts
    <2> QED
      BY <1>1, <2>1, <2>2
  <1>5. ScanOK(log, size, size, bundle', bundle', 0, FALSE)
    BY <1>3, <1>4, NothingRead
  <1>6. sawUntrusted = FALSE
    BY <1>3
  <1>7. ScanOK(log', size', reach', start' \div BundleSize, bundle', newest', sawUntrusted')
    BY <1>1, <1>2, <1>3, <1>5, <1>6
  <1>8. TypeOK'
    BY <1>1, <1>4 DEF VerifierInv, TypeOK
  <1>9. ShownOK(log', shown', newest', sawUntrusted')
    BY <1>1, <1>3 DEF ShownOK, TrustedIn, UntrustedIn
  <1> QED
    BY <1>1, <1>2, <1>7, <1>8, <1>9 DEF VerifierInv, ReasonIsGiven

\* A bundle of the log continues a walk that was shown the log.
LEMMA ScanBundleReads ==
  ASSUME VerifierInv, ScanBundle, UNCHANGED read, faithful
  PROVE  ScanOK(log, size, reach', start \div BundleSize, bundle', newest', sawUntrusted')
  <1> DEFINE mid == bundle * BundleSize
             first == start \div BundleSize
             from == first * BundleSize
  <1>1. PICK end \in EndsOfBundle(bundle) :
          /\ newest' = NewestIn(log, TrustedIn(log, (mid + 1)..end)
                                       \cup ({newest} \ {0}))
          /\ sawUntrusted' = (sawUntrusted \/ UntrustedIn(log, (mid + 1)..end) # {})
          /\ reach' = IF end > reach THEN end ELSE reach
    BY DEF ScanBundle
  <1>2. /\ vpc = "scan" /\ mid < size /\ bundle' = bundle + 1
        /\ UNCHANGED <<vpc, subject, size, start, verdict, reason, log, checkpoint>>
    BY DEF ScanBundle, Scanning, read
  <1>3. /\ log \in Seq(Leaf) /\ Len(log) \in Nat /\ size \in Nat /\ reach \in Nat
        /\ bundle \in Nat /\ size <= reach /\ reach <= Len(log)
        /\ sawUntrusted \in BOOLEAN /\ start \in Nat
    BY DEF VerifierInv, TypeOK
  <1>4. ScanOK(log, size, reach, first, bundle, newest, sawUntrusted)
    BY <1>2 DEF VerifierInv
  <1>5. first \in Nat /\ first <= bundle
    BY <1>3, <1>4, BundleFacts DEF ScanOK
  <1>6. /\ mid \in Nat /\ from \in Nat /\ from <= mid
        /\ (bundle + 1) * BundleSize = mid + BundleSize
        /\ BundleSize \in Nat /\ BundleSize > 0
    <2> HIDE DEF first
    <2> QED
      BY <1>3, <1>5, Products, ProductsGrow, BundleFacts
  <1>7. reach = size
    BY <1>2, <1>3, <1>4, <1>6 DEF ScanOK
  <1>8. Read(log, from, mid, newest, sawUntrusted)
    <2>1. mid <= size
      BY <1>2, <1>3, <1>6
    <2> QED
      BY <1>4, <2>1 DEF ScanOK, EndRead
  <1> DEFINE full == (bundle + 1) * BundleSize
  <1>9. \/ /\ end = full
           /\ full <= size
        \/ /\ full > size
           /\ end = size \/ (end = full /\ full <= Len(log))
    <2>1. full \in Nat
      BY <1>6
    <2> HIDE DEF full
    <2>2. EndsOfBundle(bundle)
            = IF full <= size THEN {full} ELSE {size} \cup {n \in {full} : n <= Len(log)}
      BY DEF EndsOfBundle, full
    <2> QED
      BY <1>3, <2>1, <2>2
  <1> HIDE DEF first
  <1>10. end \in Nat /\ mid <= end /\ end <= Len(log)
    BY <1>2, <1>3, <1>6, <1>9
  <1>11. Read(log, from, end, newest', sawUntrusted')
    <2> HIDE DEF from, mid, full
    <2> QED
      BY <1>1, <1>3, <1>6, <1>8, <1>10, ReadOn
  <1>12. EndRead(size, reach', bundle') = end /\ (full <= size => reach' = size)
    <2>1. CASE full <= size
      <3>1. end = full /\ reach' = reach
        BY <1>1, <1>3, <1>6, <1>7, <1>9, <2>1
      <3> QED
        BY <1>2, <1>7, <2>1, <3>1 DEF EndRead
    <2>2. CASE ~(full <= size)
      <3>1. end >= size
        BY <1>3, <1>6, <1>9, <2>2
      <3>2. reach' = end
        BY <1>1, <1>3, <1>7, <1>10, <3>1
      <3> QED
        BY <1>2, <2>2, <3>2 DEF EndRead
    <2> QED
      BY <2>1, <2>2
  <1>13. first <= bundle'
    BY <1>2, <1>3, <1>5
  <1>14. ScanOK(log, size, reach', first, bundle', newest', sawUntrusted')
    <2> HIDE DEF mid
    <2>1. bundle' * BundleSize <= size => reach' = size
      BY <1>2, <1>12
    <2>2. Read(log, first * BundleSize, EndRead(size, reach', bundle'), newest', sawUntrusted')
      BY <1>11, <1>12
    <2> QED
      BY <1>13, <2>1, <2>2 DEF ScanOK
  <1> QED
    BY <1>14 DEF first

LEMMA ScanBundleKeeps ==
  ASSUME VerifierInv, ScanBundle, UNCHANGED read
  PROVE  VerifierInv'
  <1> DEFINE mid == bundle * BundleSize
             full == (bundle + 1) * BundleSize
  <1>1. PICK end \in EndsOfBundle(bundle) :
          /\ newest' = NewestIn(log, TrustedIn(log, (mid + 1)..end)
                                       \cup ({newest} \ {0}))
          /\ sawUntrusted' = (sawUntrusted \/ UntrustedIn(log, (mid + 1)..end) # {})
          /\ reach' = IF end > reach THEN end ELSE reach
          /\ shown' = shown \cup ((mid + 1)..end)
    BY DEF ScanBundle
  <1>2. /\ vpc = "scan" /\ mid < size /\ bundle' = bundle + 1
        /\ UNCHANGED <<vpc, subject, size, start, faithful, verdict, reason, log, checkpoint>>
    BY DEF ScanBundle, Scanning, read
  <1>3. /\ log \in Seq(Leaf) /\ Len(log) \in Nat /\ size \in Nat /\ reach \in Nat
        /\ bundle \in Nat /\ size <= reach /\ reach <= Len(log)
        /\ shown \subseteq 1..Len(log) /\ sawUntrusted \in BOOLEAN
    BY DEF VerifierInv, TypeOK
  <1>4. mid \in Nat /\ full \in Nat
    BY <1>3, Products
  <1>5. EndsOfBundle(bundle)
          = IF full <= size THEN {full} ELSE {size} \cup {n \in {full} : n <= Len(log)}
    BY DEF EndsOfBundle
  <1> HIDE DEF full, mid
  <1>6. end \in Nat /\ end <= Len(log)
    BY <1>1, <1>3, <1>4, <1>5
  <1> DEFINE range == (mid + 1)..end
             all == shown \cup range
             K == TrustedIn(log, range) \cup ({newest} \ {0})
  <1>7. /\ all \subseteq 1..Len(log) /\ range \subseteq 1..Len(log)
        /\ all \subseteq Nat
    BY <1>3, <1>4, <1>6
  <1>8. /\ shown' = all /\ newest' = NewestIn(log, K)
        /\ sawUntrusted' = (sawUntrusted \/ UntrustedIn(log, range) # {})
    BY <1>1
  <1> HIDE DEF range
  <1>9. /\ TrustedIn(log, all) = TrustedIn(log, shown) \cup TrustedIn(log, range)
        /\ UntrustedIn(log, all) = UntrustedIn(log, shown) \cup UntrustedIn(log, range)
    BY DEF TrustedIn, UntrustedIn
  <1>10. ShownOK(log, shown, newest, sawUntrusted)
    BY <1>2 DEF VerifierInv
  <1>11. K \subseteq TrustedIn(log, all) /\ (K = {} => TrustedIn(log, all) = {})
    BY <1>9, <1>10 DEF ShownOK
  <1> HIDE DEF all, K
  <1>12. /\ K \subseteq Nat \ {0} /\ IsFiniteSet(K) /\ Versions(log, K) \in [K -> Nat]
    <2>1. /\ TrustedIn(log, all) \subseteq Nat \ {0} /\ IsFiniteSet(TrustedIn(log, all))
          /\ Versions(log, TrustedIn(log, all)) \in [TrustedIn(log, all) -> Nat]
      BY <1>3, <1>7, TrustedFacts
    <2>2. K \in SUBSET TrustedIn(log, all)
      BY <1>11
    <2>3. \A i \in TrustedIn(log, all) : log[i].version \in Nat
      BY <2>1 DEF Versions
    <2> QED
      BY <2>1, <2>2, <2>3, FS_Subset DEF Versions
  <1>13. K # {} => newest' \in K
    <2>1. K # {} => FirstNewest(log, K) \in K
      BY <1>12, FirstNewestIs DEF IsFirstGreatest
    <2> QED
      BY <1>8, <2>1 DEF NewestIn
  <1>14. ShownOK(log, shown', newest', sawUntrusted')
    BY <1>8, <1>9, <1>10, <1>11, <1>12, <1>13 DEF ShownOK, NewestIn
  <1>15. newest' \in Nat /\ sawUntrusted' \in BOOLEAN
    BY <1>8, <1>12, <1>13 DEF NewestIn
  <1>16. reach' \in Nat /\ size <= reach' /\ reach' <= Len(log)
    BY <1>1, <1>3, <1>6
  <1>17. TypeOK'
    BY <1>2, <1>3, <1>7, <1>8, <1>15, <1>16 DEF VerifierInv, TypeOK
  <1>18. faithful =>
           ScanOK(log, size, reach', start \div BundleSize, bundle', newest', sawUntrusted')
    BY ScanBundleReads
  <1> QED
    BY <1>2, <1>7, <1>8, <1>14, <1>16, <1>17, <1>18 DEF VerifierInv, ReasonIsGiven

\* Whatever is served in a bundle's place, the walk keeps a trusted anchor of what it
\* was shown if there is one, and remembers an untrusted one.
LEMMA ScanAlteredKeeps ==
  ASSUME VerifierInv, ScanAltered, UNCHANGED read
  PROVE  VerifierInv'
  <1>1. PICK served \in SUBSET (1..Len(log)), forged \in BOOLEAN :
          /\ newest' \in KeptInAnyOrder(log, TrustedIn(log, served), newest)
          /\ sawUntrusted' = (sawUntrusted \/ forged \/ UntrustedIn(log, served) # {})
          /\ shown' = shown \cup served
    BY DEF ScanAltered
  <1>2. /\ vpc = "scan" /\ bundle' = bundle + 1 /\ faithful' = FALSE
        /\ UNCHANGED <<vpc, subject, size, start, reach, verdict, reason, log, checkpoint>>
    BY DEF ScanAltered, Scanning, read
  <1>3. /\ Len(log) \in Nat /\ shown \subseteq 1..Len(log) /\ sawUntrusted \in BOOLEAN
        /\ newest \in Nat /\ bundle \in Nat
        /\ ShownOK(log, shown, newest, sawUntrusted)
    BY <1>2 DEF VerifierInv, TypeOK
  <1>4. /\ TrustedIn(log, shown') = TrustedIn(log, shown) \cup TrustedIn(log, served)
        /\ UntrustedIn(log, shown') = UntrustedIn(log, shown) \cup UntrustedIn(log, served)
    BY <1>1 DEF TrustedIn, UntrustedIn
  <1>5. /\ newest' = newest \/ newest' \in TrustedIn(log, served)
        /\ newest = 0 /\ TrustedIn(log, served) # {} => newest' \in TrustedIn(log, served)
    <2> DEFINE T == TrustedIn(log, served)
               better == {i \in T : newest # 0 => log[i].version > log[newest].version}
    <2>1. KeptInAnyOrder(log, T, newest)
            = IF better = {}
                THEN {newest}
                ELSE {i \in better : \A j \in better : log[j].version <= log[i].version}
      BY DEF KeptInAnyOrder
    <2>2. better \subseteq T /\ (newest = 0 => better = T)
      OBVIOUS
    <2>3. newest' \in KeptInAnyOrder(log, T, newest)
      BY <1>1
    <2> HIDE DEF T, better
    <2>4. (newest' = newest /\ better = {}) \/ newest' \in better
      BY <2>1, <2>3
    <2>5. newest' = newest \/ newest' \in T
      BY <2>2, <2>4
    <2>6. newest = 0 /\ T # {} => newest' \in T
      BY <2>2, <2>4
    <2> QED
      BY <2>5, <2>6 DEF T
  <1>6. TrustedIn(log, served) \subseteq Nat \ {0}
    <2>1. \A i \in 1..Len(log) : i \in Nat \ {0}
      BY <1>3
    <2>2. TrustedIn(log, served) \subseteq 1..Len(log)
      BY DEF TrustedIn
    <2> QED
      BY <2>1, <2>2
  <1>7. newest' \in Nat /\ (newest' = 0 => newest = 0 /\ TrustedIn(log, served) = {})
    BY <1>3, <1>5, <1>6
  <1>8. newest' # 0 => newest' \in TrustedIn(log, shown')
    BY <1>3, <1>4, <1>5 DEF ShownOK
  <1>9. ShownOK(log, shown', newest', sawUntrusted')
    BY <1>1, <1>3, <1>4, <1>7, <1>8 DEF ShownOK
  <1>10. /\ shown' \subseteq 1..Len(log) /\ shown' \subseteq Nat
         /\ sawUntrusted' \in BOOLEAN /\ faithful' \in BOOLEAN
    <2>1. shown' \subseteq 1..Len(log)
      BY <1>1, <1>3
    <2>2. \A i \in 1..Len(log) : i \in Nat
      BY <1>3
    <2>3. sawUntrusted' \in BOOLEAN /\ faithful' \in BOOLEAN
      BY <1>1, <1>2
    <2> QED
      BY <2>1, <2>2, <2>3
  <1>11. TypeOK'
    BY <1>2, <1>3, <1>7, <1>10 DEF VerifierInv, TypeOK
  <1> QED
    BY <1>2, <1>9, <1>10, <1>11 DEF VerifierInv, ReasonIsGiven

LEMMA RescanKeeps ==
  ASSUME VerifierInv, Rescan, UNCHANGED read
  PROVE  VerifierInv'
  <1>1. /\ vpc = "scan" /\ newest = 0 /\ start' = 0 /\ bundle' = 0
        /\ sawUntrusted' = FALSE /\ reach' = size /\ shown' = {} /\ faithful' = TRUE
        /\ UNCHANGED <<vpc, subject, size, newest, verdict, reason, log, checkpoint>>
    BY DEF Rescan, Scanned, read
  <1>2. size \in Nat /\ reach \in Nat /\ size <= reach /\ reach <= Len(log) /\ Len(log) \in Nat
    BY DEF VerifierInv, TypeOK
  <1>3. ScanOK(log, size, size, 0, 0, 0, FALSE)
    BY <1>2, NothingRead
  <1>4. ScanOK(log', size', reach', start' \div BundleSize, bundle', newest', sawUntrusted')
    BY <1>1, <1>3, BundleFacts
  <1>5. TypeOK'
    BY <1>1, <1>2 DEF VerifierInv, TypeOK
  <1>6. size' <= reach' /\ reach' <= Len(log')
    BY <1>1, <1>2
  <1>7. ShownOK(log', shown', newest', sawUntrusted') /\ shown' \subseteq 1..Len(log')
    BY <1>1 DEF ShownOK, TrustedIn, UntrustedIn
  <1> QED
    BY <1>1, <1>4, <1>5, <1>6, <1>7 DEF VerifierInv, ReasonIsGiven

\* A set of leaves holds a trusted anchor just when a newest is found in it.
LEMMA NewestIsNone ==
  ASSUME NEW lg \in Seq(Leaf), NEW S, S \subseteq 1..Len(lg)
  PROVE  NewestIn(lg, TrustedIn(lg, S)) = 0 <=> TrustedIn(lg, S) = {}
  <1> DEFINE T == TrustedIn(lg, S)
  <1>1. T \subseteq Nat \ {0} /\ IsFiniteSet(T) /\ Versions(lg, T) \in [T -> Nat]
    BY TrustedFacts
  <1> HIDE DEF T
  <1>2. T # {} => FirstNewest(lg, T) \in T
    BY <1>1, FirstNewestIs DEF IsFirstGreatest
  <1>3. NewestIn(lg, T) = 0 <=> T = {}
    BY <1>1, <1>2 DEF NewestIn
  <1> QED
    BY <1>3 DEF T

LEMMA FindNoneKeeps ==
  ASSUME VerifierInv, FindNone, UNCHANGED read
  PROVE  VerifierInv'
  <1>1. newest = 0 /\ start = 0 /\ Scanned
    BY DEF FindNone
  <1>2. ASSUME faithful
        PROVE  /\ TrustedIn(log, 1..reach) = {}
               /\ sawUntrusted <=> UntrustedIn(log, 1..reach) # {}
    <2>1. Read(log, (start \div BundleSize) * BundleSize, reach, newest, sawUntrusted)
      BY <1>1, <1>2, ScannedAll
    <2>2. (start \div BundleSize) * BundleSize + 1 = 1
      BY <1>1, BundleFacts, Products
    <2>3. /\ NewestIn(log, TrustedIn(log, 1..reach)) = 0
          /\ sawUntrusted <=> UntrustedIn(log, 1..reach) # {}
      BY <1>1, <2>1, <2>2 DEF Read
    <2>4. log \in Seq(Leaf) /\ 1..reach \subseteq 1..Len(log)
      BY DEF VerifierInv, TypeOK
    <2> QED
      BY <2>3, <2>4, NewestIsNone
  <1>3. CASE sawUntrusted
    <2>1. Conclude("INDETERMINATE", "anchor_untrusted")
      BY <1>3 DEF FindNone
    <2>2. faithful => ResultOK(log, reach, subject, "INDETERMINATE", "anchor_untrusted")
      BY <1>2, <1>3 DEF ResultOK
    <2>3. EvidenceOK(log, shown, subject, "INDETERMINATE")
      BY DEF EvidenceOK
    <2> QED
      BY <2>1, <2>2, <2>3, ConcludeKeeps DEF Reasons
  <1>4. CASE ~sawUntrusted
    <2>1. Conclude("VERIFIED", "none")
      BY <1>4 DEF FindNone
    <2>2. faithful => ResultOK(log, reach, subject, "VERIFIED", "none")
      BY <1>2, <1>4 DEF ResultOK
    <2>3. ShownOK(log, shown, newest, sawUntrusted)
      BY <1>1 DEF VerifierInv, Scanned
    <2>4. EvidenceOK(log, shown, subject, "VERIFIED")
      BY <1>1, <1>4, <2>3 DEF EvidenceOK, ShownOK, TrustedIn, UntrustedIn
    <2> QED
      BY <2>1, <2>2, <2>4, ConcludeKeeps DEF Reasons
  <1> QED
    BY <1>3, <1>4

LEMMA FetchArtifactKeeps ==
  ASSUME VerifierInv, FetchArtifact, UNCHANGED read
  PROVE  VerifierInv'
  <1>1. Scanned /\ newest # 0
    BY DEF FetchArtifact
  <1>2. PICK v \in DOMAIN artifacts : Judge(artifacts[v])
    BY DEF FetchArtifact
  <1> DEFINE from == (start \div BundleSize) * BundleSize
             T == TrustedIn(log, (from + 1)..reach)
             set == log[newest].hash.withdrawn
  <1>3. from \in Nat
    BY BundleFacts, Products DEF VerifierInv, TypeOK
  <1>4. faithful => T # {} /\ newest = FirstNewest(log, T)
    <2>1. faithful => Read(log, from, reach, newest, sawUntrusted)
      BY <1>1, ScannedAll
    <2> QED
      BY <1>1, <2>1 DEF Read, NewestIn
  <1>5. newest \in TrustedIn(log, shown)
    BY <1>1 DEF VerifierInv, Scanned, ShownOK
  <1> HIDE DEF from
  <1>6. ASSUME NEW how \in {"VERIFIED", "WITHDRAWN"}, how = "WITHDRAWN" <=> subject \in set
        PROVE  /\ faithful => ResultOK(log, reach, subject, how, "none")
               /\ EvidenceOK(log, shown, subject, how)
    <2>1. faithful => ResultOK(log, reach, subject, how, "none")
      BY <1>3, <1>4, <1>6 DEF ResultOK
    <2>2. EvidenceOK(log, shown, subject, how)
      BY <1>5, <1>6 DEF EvidenceOK
    <2> QED
      BY <2>1, <2>2
  <1>7. CASE artifacts[v] # log[newest].hash
    <2>1. Conclude("INDETERMINATE", "artifact_hash_mismatch")
      BY <1>2, <1>7 DEF Judge
    <2> QED
      BY <2>1, Unsure, ConcludeKeeps DEF Reasons
  <1>8. CASE artifacts[v] = log[newest].hash /\ subject \in set
    <2>1. Conclude("WITHDRAWN", "none")
      BY <1>2, <1>8 DEF Judge
    <2> QED
      BY <1>6, <1>8, <2>1, ConcludeKeeps DEF Reasons
  <1>9. CASE artifacts[v] = log[newest].hash /\ subject \notin set
    <2>1. Conclude("VERIFIED", "none")
      BY <1>2, <1>9 DEF Judge
    <2> QED
      BY <1>6, <1>9, <2>1, ConcludeKeeps DEF Reasons
  <1> QED
    BY <1>7, <1>8, <1>9

LEMMA InitVerifierInv == ReadInit /\ Init => VerifierInv
  <1> SUFFICES ASSUME ReadInit, Init
               PROVE  VerifierInv
    OBVIOUS
  <1>1. TypeOK
    BY DEF Init, TypeOK, Reasons
  <1>2. log \in Seq(Leaf) /\ checkpoint \in 0..Len(log) /\ Len(log) \in Nat
    BY DEF ReadInit
  <1>3. 0 <= 0 /\ 0 <= Len(log)
    BY <1>2
  <1> QED
    BY <1>1, <1>2, <1>3 DEF Init, VerifierInv, ReasonIsGiven

LEMMA NextVerifierInv == VerifierInv /\ [VerifierNext]_<<read, check>> => VerifierInv'
  <1> SUFFICES ASSUME VerifierInv, [VerifierNext]_<<read, check>>
               PROVE  VerifierInv'
    OBVIOUS
  <1>1. CASE Elsewhere
    BY <1>1, ElsewhereKeeps DEF Elsewhere
  <1>2. CASE UNCHANGED <<read, check>>
    <2>1. log' = log /\ checkpoint' = checkpoint /\ UNCHANGED check
      BY <1>2 DEF read
    <2>2. log \in Seq(Leaf) /\ Len(log) <= Len(log) /\ checkpoint \in 0..Len(log)
      BY DEF VerifierInv
    <2> QED
      BY <2>1, <2>2, ElsewhereKeeps
  <1>3. ASSUME Check, UNCHANGED read
        PROVE  VerifierInv'
    <2> USE <1>3
    <2>1. CASE FetchCheckpoint
      BY <2>1, FetchCheckpointKeeps
    <2>2. CASE FetchHint
      BY <2>2, FetchHintKeeps
    <2>3. CASE ScanBundle
      BY <2>3, ScanBundleKeeps
    <2>4. CASE FailScan
      BY <2>4, Unsure, ConcludeKeeps DEF FailScan, Reasons
    <2>5. CASE Rescan
      BY <2>5, RescanKeeps
    <2>6. CASE FindNone
      BY <2>6, FindNoneKeeps
    <2>7. CASE FetchArtifact
      BY <2>7, FetchArtifactKeeps
    <2>8. CASE FailArtifact
      BY <2>8, Unsure, ConcludeKeeps DEF FailArtifact, Reasons
    <2>9. CASE ScanAltered
      BY <2>9, ScanAlteredKeeps
    <2> QED
      BY <2>1, <2>2, <2>3, <2>4, <2>5, <2>6, <2>7, <2>8, <2>9 DEF Check, Resolve
  <1> QED
    BY <1>1, <1>2, <1>3 DEF VerifierNext

\* Every verdict rests on the newest trusted anchor from some leaf on, or on a log
\* without anchors, whatever was published, hinted and served meanwhile.
THEOREM VerifierInvariant == VerifierSpec => []VerifierInv
  BY InitVerifierInv, NextVerifierInv, PTL DEF VerifierSpec

\* Every INDETERMINATE comes with a reason and no definite verdict does, on every path
\* a check may take.
THEOREM ReasonAlwaysGiven == VerifierSpec => []ReasonIsGiven
  <1>1. VerifierInv => ReasonIsGiven
    BY DEF VerifierInv
  <1> QED
    BY <1>1, VerifierInvariant, PTL

\* Where the trusted versions grow and the bundles are the log's, a definite verdict is
\* the newest trusted anchor's, wherever the hint made the scan start.
THEOREM VerdictAlwaysNewest == VerifierSpec => []VerdictIsNewest
  <1>1. VerifierInv => VerdictIsNewest
    <2> SUFFICES ASSUME VerifierInv, faithful, verdict \in {"VERIFIED", "WITHDRAWN"},
                        Growing(reach)
                 PROVE  verdict = "WITHDRAWN" <=>
                          /\ TrustedIn(log, 1..reach) # {}
                          /\ subject \in log[FirstNewest(log, TrustedIn(log, 1..reach))]
                                           .hash.withdrawn
      BY DEF VerdictIsNewest
    <2> DEFINE all == TrustedIn(log, 1..reach)
    <2>1. ResultOK(log, reach, subject, verdict, reason)
      BY DEF VerifierInv
    <2>2. log \in Seq(Leaf) /\ reach \in Nat /\ reach <= Len(log) /\ Len(log) \in Nat
      BY DEF VerifierInv, TypeOK
    <2>3. CASE verdict = "VERIFIED" /\ all = {}
      BY <2>3
    <2>4. ASSUME NEW from \in Nat, TrustedIn(log, (from + 1)..reach) # {},
                 verdict = "WITHDRAWN" <=>
                   subject \in log[FirstNewest(log, TrustedIn(log, (from + 1)..reach))]
                                 .hash.withdrawn
          PROVE  verdict = "WITHDRAWN" <=>
                   all # {} /\ subject \in log[FirstNewest(log, all)].hash.withdrawn
      <3> DEFINE T == TrustedIn(log, (from + 1)..reach)
                 i == FirstNewest(log, T)
      <3>1. 1..reach \subseteq 1..Len(log) /\ (from + 1)..reach \subseteq 1..Len(log)
        BY <2>2, <2>4
      <3>2. /\ T \subseteq Nat /\ IsFiniteSet(T) /\ Versions(log, T) \in [T -> Nat]
        BY <2>2, <3>1, TrustedFacts
      <3>3. /\ all \subseteq Nat /\ IsFiniteSet(all) /\ Versions(log, all) \in [all -> Nat]
        BY <2>2, <3>1, TrustedFacts
      <3>4. T \subseteq all /\ \A j \in all \ T : \A k \in T : j < k
        BY <2>2, <2>4 DEF TrustedIn
      <3>5. IsFirstGreatest(i, T, Versions(log, T))
        <4> HIDE DEF T
        <4> QED
          BY <2>4, <3>2, FirstNewestIs DEF T
      <3>6. \A j, k \in all : j < k => log[j].version < log[k].version
        BY DEF Growing
      <3> HIDE DEF T, all, i
      <3>7. i \in T /\ i \in all
        BY <3>4, <3>5 DEF IsFirstGreatest
      <3>8. \A j \in all : \/ log[j].version < log[i].version
                           \/ log[j].version = log[i].version /\ i <= j
        <4> SUFFICES ASSUME NEW j \in all
                     PROVE  \/ log[j].version < log[i].version
                            \/ log[j].version = log[i].version /\ i <= j
          OBVIOUS
        <4>1. CASE j \in T
          BY <3>5, <3>7, <4>1 DEF IsFirstGreatest, Versions
        <4>2. CASE j \notin T
          BY <3>4, <3>6, <3>7, <4>2
        <4> QED
          BY <4>1, <4>2
      <3>9. IsFirstGreatest(i, all, Versions(log, all))
        BY <3>7, <3>8 DEF IsFirstGreatest, Versions
      <3>10. FirstNewest(log, all) = i /\ all # {}
        BY <3>3, <3>7, <3>9, FirstNewestUnique
      <3> QED
        BY <2>4, <3>10 DEF i, T
    <2> QED
      BY <2>1, <2>3, <2>4 DEF ResultOK
  <1> QED
    BY <1>1, VerifierInvariant, PTL

\* VERIFIED is never said over an anchor but on the word of a trusted one: over any that
\* lies in the log where the bundles are the log's, over any shown where they are not.
THEOREM AlwaysFailsClosed == VerifierSpec => []FailsClosed
  <1>1. VerifierInv => FailsClosed
    <2> SUFFICES ASSUME VerifierInv, verdict = "VERIFIED",
                        NEW i \in Evidence, IsAnchor(log[i])
                 PROVE  \E j \in TrustedIn(log, Evidence) : subject \notin log[j].hash.withdrawn
      BY DEF FailsClosed
    <2>0. vpc = "done"
      BY DEF VerifierInv
    <2> SUFFICES ASSUME faithful
                 PROVE  \E j \in TrustedIn(log, 1..reach) : subject \notin log[j].hash.withdrawn
      BY <2>0 DEF VerifierInv, EvidenceOK, Evidence
    <2>1. ResultOK(log, reach, subject, verdict, reason)
      BY <2>0 DEF VerifierInv
    <2>2. /\ log \in Seq(Leaf) /\ reach \in Nat /\ reach <= Len(log) /\ Len(log) \in Nat
      BY DEF VerifierInv, TypeOK
    <2>3. i \in 1..reach
      BY DEF Evidence
    <2>4. i \in TrustedIn(log, 1..reach) \/ i \in UntrustedIn(log, 1..reach)
      BY <2>3 DEF TrustedIn, UntrustedIn
    <2>5. PICK from \in Nat :
            LET T == TrustedIn(log, (from + 1)..reach)
            IN  T # {} /\ subject \notin log[FirstNewest(log, T)].hash.withdrawn
      BY <2>1, <2>4 DEF ResultOK
    <2> DEFINE T == TrustedIn(log, (from + 1)..reach)
    <2>6. (from + 1)..reach \subseteq 1..reach /\ (from + 1)..reach \subseteq 1..Len(log)
      BY <2>2
    <2>7. /\ T \subseteq Nat /\ IsFiniteSet(T) /\ Versions(log, T) \in [T -> Nat]
      BY <2>2, <2>6, TrustedFacts
    <2>8. T \subseteq TrustedIn(log, 1..reach)
      BY <2>6 DEF TrustedIn
    <2>9. FirstNewest(log, T) \in T
      <3> HIDE DEF T
      <3> QED
        BY <2>5, <2>7, FirstNewestIs DEF IsFirstGreatest, T
    <2> QED
      BY <2>5, <2>8, <2>9
  <1> QED
    BY <1>1, VerifierInvariant, PTL

\* anchor_untrusted is said of no log that holds a trusted anchor, where the bundles
\* are the log's.
THEOREM UntrustedAlwaysNone == VerifierSpec => []UntrustedMeansNone
  <1>1. VerifierInv => UntrustedMeansNone
    BY DEF VerifierInv, ResultOK, UntrustedMeansNone
  <1> QED
    BY <1>1, VerifierInvariant, PTL
=============================================================================
