--------------------------- MODULE WorkReportProofs ---------------------------
(***************************************************************************)
(* Work reports and the command that prints them, for every set of leaves, *)
(* files, bindings and command lines, and any number of files.             *)
(***************************************************************************)
EXTENDS HiiVerify, FirstGreatest

----------------------------------------------------------------------------
(* Sorting rearranges the events, and loses none.                          *)

\* The events of a chain that come before e, and those e does not come before.
Lesser(chain, e) == {j \in DOMAIN chain : Before(chain[j], e)}
NotGreater(chain, e) == {j \in DOMAIN chain : ~Before(e, chain[j])}

\* The m-th event of a sorted chain: fewer than m are less than it, and at
\* least m are not greater.
Sits(e, m, chain) ==
  /\ e.seq \in Nat /\ e.hash \in Nat
  /\ Cardinality(Lesser(chain, e)) < m
  /\ m <= Cardinality(NotGreater(chain, e))

\* An event's rank, the number of events before it and one more, tells it apart:
\* the ranks of n events are 1..n.
LEMMA SortedPermutes ==
  ASSUME NEW n \in Nat, NEW chain, DOMAIN chain = 1..n,
         \A i \in 1..n : chain[i].seq \in Nat /\ chain[i].hash \in Nat
  PROVE  \E perm \in Bijection(1..n, 1..n) :
           /\ Sorted(chain) = [i \in 1..n |-> chain[perm[i]]]
           /\ \A m \in 1..n : Sits(chain[perm[m]], m, chain)
  <1> DEFINE earlier(i, j) == \/ Before(chain[i], chain[j])
                              \/ ~Before(chain[j], chain[i]) /\ i < j
             below(i) == {j \in 1..n : earlier(j, i)}
             rank == [i \in 1..n |-> Cardinality(below(i)) + 1]
             perm == [m \in 1..n |-> CHOOSE i \in 1..n : rank[i] = m]
  <1>1. \A i, j \in 1..n : i # j => earlier(i, j) \/ earlier(j, i)
    BY DEF Before
  <1>2. \A i \in 1..n : ~earlier(i, i)
    BY DEF Before
  <1>3. \A i, j, k \in 1..n : earlier(i, j) /\ earlier(j, k) => earlier(i, k)
    BY DEF Before
  <1>4. Sorted(chain)
          = [m \in 1..n |-> chain[CHOOSE i \in 1..n : Cardinality(below(i)) + 1 = m]]
    BY DEF Sorted
  <1>14. \A i \in 1..n : /\ Lesser(chain, chain[i]) \subseteq below(i)
                         /\ below(i) \cup {i} \subseteq NotGreater(chain, chain[i])
                         /\ NotGreater(chain, chain[i]) \subseteq 1..n
    BY DEF Lesser, NotGreater, Before
  <1> HIDE DEF earlier
  <1>5. \A i \in 1..n : /\ IsFiniteSet(below(i)) /\ Cardinality(below(i)) \in Nat
                        /\ Cardinality(below(i)) < n
    <2> SUFFICES ASSUME NEW i \in 1..n
                 PROVE  /\ IsFiniteSet(below(i)) /\ Cardinality(below(i)) \in Nat
                        /\ Cardinality(below(i)) < n
      OBVIOUS
    <2>1. IsFiniteSet(1..n) /\ Cardinality(1..n) = n
      BY FS_Interval
    <2>2. below(i) \in SUBSET (1..n) /\ below(i) # 1..n
      BY <1>2
    <2>3. /\ IsFiniteSet(below(i)) /\ Cardinality(below(i)) <= n
          /\ Cardinality(below(i)) # n
      BY <2>1, <2>2, FS_Subset
    <2> QED
      BY <2>3, FS_CardinalityType
  <1>15. \A i \in 1..n : i \notin below(i)
    BY <1>2
  <1> HIDE DEF below
  <1>6. rank \in [1..n -> 1..n]
    BY <1>5
  <1>16. ASSUME NEW i \in 1..n
         PROVE  Sits(chain[i], rank[i], chain)
    <2>1. IsFiniteSet(1..n)
      BY FS_Interval
    <2>2. /\ Lesser(chain, chain[i]) \in SUBSET below(i)
          /\ below(i) \cup {i} \in SUBSET NotGreater(chain, chain[i])
          /\ NotGreater(chain, chain[i]) \in SUBSET (1..n)
      BY <1>14
    <2>3. IsFiniteSet(NotGreater(chain, chain[i]))
      BY <2>1, <2>2, FS_Subset
    <2>4. Cardinality(below(i) \cup {i}) = Cardinality(below(i)) + 1
      BY <1>5, <1>15, FS_AddElement
    <2>5. Cardinality(below(i) \cup {i}) <= Cardinality(NotGreater(chain, chain[i]))
      BY <2>2, <2>3, FS_Subset
    <2>6. /\ Cardinality(Lesser(chain, chain[i])) <= Cardinality(below(i))
          /\ IsFiniteSet(Lesser(chain, chain[i]))
      BY <1>5, <2>2, FS_Subset
    <2>7. /\ Cardinality(Lesser(chain, chain[i])) \in Nat
          /\ Cardinality(NotGreater(chain, chain[i])) \in Nat
          /\ Cardinality(below(i)) \in Nat
      BY <1>5, <2>3, <2>6, FS_CardinalityType
    <2>8. rank[i] = Cardinality(below(i)) + 1
      OBVIOUS
    <2> HIDE DEF rank
    <2> QED
      BY <2>4, <2>5, <2>6, <2>7, <2>8 DEF Sits
  <1>7. ASSUME NEW i \in 1..n, NEW j \in 1..n, earlier(i, j)
        PROVE  rank[i] < rank[j]
    <2>1. below(i) \in SUBSET below(j)
      BY <1>3, <1>7 DEF below
    <2>2. i \in below(j) /\ i \notin below(i)
      BY <1>2, <1>7 DEF below
    <2>3. /\ Cardinality(below(i)) <= Cardinality(below(j))
          /\ Cardinality(below(i)) # Cardinality(below(j))
      BY <1>5, <2>1, <2>2, FS_Subset
    <2> QED
      BY <1>5, <2>3
  <1>8. \A i, j \in 1..n : rank[i] = rank[j] => i = j
    BY <1>1, <1>6, <1>7
  <1> HIDE DEF rank
  <1>9. rank \in Injection(1..n, 1..n)
    BY <1>6, <1>8 DEF Injection, IsInjective
  <1>10. rank \in Surjection(1..n, 1..n)
    BY <1>9, FS_Interval, FS_Injection
  <1>11. \A m \in 1..n : perm[m] \in 1..n /\ rank[perm[m]] = m
    BY <1>10 DEF Surjection
  <1>12. perm \in Bijection(1..n, 1..n)
    <2>1. perm \in [1..n -> 1..n]
      BY <1>11
    <2>2. \A i, j \in 1..n : perm[i] = perm[j] => i = j
      BY <1>11
    <2>3. \A i \in 1..n : \E m \in 1..n : perm[m] = i
      BY <1>6, <1>8, <1>11
    <2> HIDE DEF perm
    <2> QED
      BY <2>1, <2>2, <2>3 DEF Bijection, Injection, Surjection, IsInjective
  <1>13. Sorted(chain) = [m \in 1..n |-> chain[perm[m]]]
    BY <1>4 DEF rank, below
  <1>17. \A m \in 1..n : Sits(chain[perm[m]], m, chain)
    BY <1>11, <1>16
  <1> HIDE DEF perm
  <1> QED
    BY <1>12, <1>13, <1>17

LEMMA SeqFacts ==
  ASSUME NEW S, NEW s \in Seq(S)
  PROVE  Len(s) \in Nat /\ DOMAIN s = 1..Len(s) /\ s \in [1..Len(s) -> S]
  OBVIOUS

LEMMA FunctionIsSeq ==
  ASSUME NEW S, NEW n \in Nat, NEW s \in [1..n -> S]
  PROVE  s \in Seq(S) /\ Len(s) = n
  OBVIOUS

----------------------------------------------------------------------------
(* A report under SetEventStatus.                                          *)

EventReport == [hash : Hashes, verdict : Verdicts \cup {""}]

\* SetEventStatus stops at the first event with its hash: of each hash that one
\* carries the last answer.
FirstCarries(events, given) ==
  \A i \in DOMAIN events :
    (\A j \in DOMAIN events : j < i => events[j].hash # events[i].hash)
      => events[i].verdict = given[events[i].hash]

ReportOK(r, given) ==
  /\ DOMAIN r = {"events", "verdict", "chain"}
  /\ r.events \in Seq(EventReport)
  /\ r.verdict = RollUp(r.events)
  /\ FirstCarries(r.events, given)

Leaves == [Hashes -> [work : Works, prev : Hashes \cup {NoPrev}, seq : Seqs]]

ReportInv ==
  /\ leaves \in Leaves
  /\ byWork \in [Works -> Seq(Hashes)]
  /\ answers \in [Hashes -> Verdicts \cup {""}]
  /\ report = {} => \A h \in Hashes : answers[h] = ""
  /\ \A r \in report : ReportOK(r, answers)

\* What the chain of a work is made of.
LEMMA ChainFacts ==
  ASSUME leaves \in Leaves, byWork \in [Works -> Seq(Hashes)], NEW w \in Works
  PROVE  /\ Len(byWork[w]) \in Nat
         /\ DOMAIN byWork[w] = 1..Len(byWork[w])
         /\ DOMAIN Chain(w) = 1..Len(byWork[w])
         /\ \A i \in 1..Len(byWork[w]) :
              /\ byWork[w][i] \in Hashes
              /\ Chain(w)[i].hash = byWork[w][i]
              /\ Chain(w)[i].seq = leaves[byWork[w][i]].seq
              /\ Chain(w)[i].seq \in Nat /\ Chain(w)[i].hash \in Nat
  <1>1. /\ Len(byWork[w]) \in Nat /\ DOMAIN byWork[w] = 1..Len(byWork[w])
        /\ \A i \in 1..Len(byWork[w]) : byWork[w][i] \in Hashes
    <2>1. byWork[w] \in Seq(Hashes)
      OBVIOUS
    <2> QED
      BY <2>1, SeqFacts
  <1>2. Hashes \subseteq Nat /\ Seqs \subseteq Nat
    BY WorkReportAssumption
  <1>3. \A h \in Hashes : leaves[h].seq \in Seqs
    BY DEF Leaves
  <1> QED
    BY <1>1, <1>2, <1>3 DEF Chain, Event

LEMMA UnresolvedEvent ==
  \A h \in Hashes : LET e == [hash |-> h, verdict |-> ""]
                    IN  e \in EventReport /\ e.verdict = ""
  BY DEF EventReport

\* The events of a report on a work are its leaves, rearranged.
LEMMA ReportEvents ==
  ASSUME leaves \in Leaves, byWork \in [Works -> Seq(Hashes)], NEW w \in Works
  PROVE  LET n == Len(byWork[w])
         IN  \E perm \in Bijection(1..n, 1..n) :
               ReportOn(Chain(w)).events
                 = [i \in 1..n |-> [hash |-> byWork[w][perm[i]], verdict |-> ""]]
  <1> DEFINE n == Len(byWork[w])
             chain == Chain(w)
  <1>1. /\ n \in Nat /\ DOMAIN chain = 1..n
        /\ \A i \in 1..n : chain[i].hash = byWork[w][i]
        /\ \A i \in 1..n : chain[i].seq \in Nat /\ chain[i].hash \in Nat
    BY ChainFacts
  <1> HIDE DEF n, chain
  <1>2. PICK perm \in Bijection(1..n, 1..n) :
          Sorted(chain) = [i \in 1..n |-> chain[perm[i]]]
    <2>1. /\ n \in Nat /\ DOMAIN chain = 1..n
          /\ \A i \in 1..n : chain[i].seq \in Nat /\ chain[i].hash \in Nat
      BY <1>1
    <2> QED
      BY <2>1, SortedPermutes, Zenon
  <1>3. \A i \in 1..n : perm[i] \in 1..n
    BY DEF Bijection, Injection
  <1>4. ReportOn(chain).events
          = [i \in DOMAIN chain |-> [hash |-> Sorted(chain)[i].hash, verdict |-> ""]]
    BY DEF ReportOn
  <1>5. \A i \in 1..n : Sorted(chain)[i].hash = byWork[w][perm[i]]
    BY <1>1, <1>2, <1>3
  <1>6. ReportOn(chain).events
          = [i \in 1..n |-> [hash |-> byWork[w][perm[i]], verdict |-> ""]]
    BY <1>1, <1>4, <1>5
  <1> QED
    BY <1>6 DEF n, chain

LEMMA BuildReports ==
  ASSUME leaves \in Leaves, byWork \in [Works -> Seq(Hashes)], NEW w \in Works,
         NEW given, \A h \in Hashes : given[h] = ""
  PROVE  ReportOK(ReportOn(Chain(w)), given)
  <1> DEFINE n == Len(byWork[w])
             r == ReportOn(Chain(w))
  <1>1. PICK perm \in Bijection(1..n, 1..n) :
          r.events = [i \in 1..n |-> [hash |-> byWork[w][perm[i]], verdict |-> ""]]
    BY ReportEvents
  <1>2. n \in Nat /\ \A i \in 1..n : byWork[w][perm[i]] \in Hashes
    <2>1. n \in Nat /\ \A i \in 1..n : byWork[w][i] \in Hashes
      BY ChainFacts
    <2>2. \A i \in 1..n : perm[i] \in 1..n
      BY DEF Bijection, Injection
    <2> QED
      BY <2>1, <2>2
  <1>3. /\ r.verdict = RollUp(r.events)
        /\ DOMAIN r = {"events", "verdict", "chain"}
    BY DEF ReportOn
  <1> HIDE DEF r, n
  <1>4. DOMAIN r.events = 1..n
    BY <1>1
  <1>5. \A i \in 1..n : r.events[i] \in EventReport /\ r.events[i].verdict = ""
    <2>1. \A i \in 1..n :
            r.events[i] = [hash |-> byWork[w][perm[i]], verdict |-> ""]
      BY <1>1
    <2> QED
      <3> SUFFICES ASSUME NEW i \in 1..n
                   PROVE  r.events[i] \in EventReport /\ r.events[i].verdict = ""
        OBVIOUS
      <3>1. r.events[i] = [hash |-> byWork[w][perm[i]], verdict |-> ""]
        BY <2>1
      <3>2. byWork[w][perm[i]] \in Hashes
        BY <1>2
      <3> QED
        BY <3>1, <3>2, UnresolvedEvent, Zenon
  <1>6. r.events \in Seq(EventReport)
    <2>1. r.events \in [1..n -> EventReport]
      BY <1>1, <1>4, <1>5
    <2> QED
      BY <1>2, <2>1, FunctionIsSeq
  <1>7. FirstCarries(r.events, given)
    <2>1. \A i \in 1..n : r.events[i].hash \in Hashes
      BY <1>5 DEF EventReport
    <2> QED
      BY <1>4, <1>5, <2>1 DEF FirstCarries
  <1> QED
    BY <1>3, <1>6, <1>7 DEF ReportOK, r

LEMMA NotAfter ==
  \A n \in Nat : \A i, j \in 1..n : i <= j /\ ~(i < j) => i = j
  OBVIOUS

\* Of the n events in old and in new only the first with hash h differs.
WritesFirst(old, new, n, first, h, v) ==
  /\ n \in Nat /\ DOMAIN old = 1..n /\ DOMAIN new = 1..n
  /\ first \in 1..n /\ old[first].hash = h
  /\ \A i \in 1..n :
       /\ old[i].hash \in Hashes
       /\ old[i].hash = h => first <= i
       /\ new[i].hash = old[i].hash
       /\ new[i].verdict = IF i = first THEN v ELSE old[i].verdict

LEMMA FirstIsWritten ==
  ASSUME NEW old, NEW new, NEW n, NEW first, NEW h \in Hashes, NEW v,
         NEW given \in [Hashes -> Verdicts \cup {""}],
         WritesFirst(old, new, n, first, h, v), FirstCarries(old, given)
  PROVE  FirstCarries(new, [given EXCEPT ![h] = v])
  <1>1. /\ n \in Nat /\ DOMAIN old = 1..n /\ DOMAIN new = 1..n
        /\ first \in 1..n /\ old[first].hash = h
        /\ \A i \in 1..n : old[i].hash \in Hashes /\ new[i].hash = old[i].hash
    BY DEF WritesFirst
  <1>2. \A i \in 1..n :
          /\ old[i].hash = h => first <= i
          /\ new[i].verdict = IF i = first THEN v ELSE old[i].verdict
    BY DEF WritesFirst
  <1> SUFFICES ASSUME NEW i \in 1..n,
                      \A j \in 1..n : j < i => new[j].hash # new[i].hash
               PROVE  new[i].verdict = [given EXCEPT ![h] = v][new[i].hash]
    BY <1>1 DEF FirstCarries
  <1>3. \A j \in 1..n : j < i => old[j].hash # old[i].hash
    BY <1>1
  <1>4. CASE old[i].hash = h
    <2>1. first <= i
      BY <1>2, <1>4
    <2>2. ~(first < i)
      BY <1>1, <1>3, <1>4
    <2>3. i = first
      BY <1>1, <2>1, <2>2, NotAfter, Zenon
    <2> QED
      BY <1>1, <1>2, <1>4, <2>3
  <1>5. CASE old[i].hash # h
    <2>1. i # first
      BY <1>1, <1>5
    <2>2. old[i].verdict = given[old[i].hash]
      BY <1>1, <1>3 DEF FirstCarries
    <2> QED
      BY <1>1, <1>2, <1>5, <2>1, <2>2
  <1> QED
    BY <1>4, <1>5

LEMMA AppliedKeeps ==
  ASSUME NEW r, NEW given \in [Hashes -> Verdicts \cup {""}], ReportOK(r, given),
         NEW h \in Hashes, NEW v \in Verdicts
  PROVE  ReportOK(Applied(r, h, v), [given EXCEPT ![h] = v])
  <1> DEFINE matches == {i \in DOMAIN r.events : r.events[i].hash = h}
             first   == CHOOSE i \in matches : \A j \in matches : i <= j
             events  == [r.events EXCEPT ![first].verdict = v]
             given2  == [given EXCEPT ![h] = v]
  <1>1. /\ Len(r.events) \in Nat /\ DOMAIN r.events = 1..Len(r.events)
        /\ r.events \in [1..Len(r.events) -> EventReport]
    BY SeqFacts DEF ReportOK
  <1>2. CASE matches = {}
    <2>1. Applied(r, h, v) = r
      BY <1>2 DEF Applied
    <2>2. FirstCarries(r.events, given2)
      BY <1>1, <1>2 DEF ReportOK, FirstCarries, EventReport
    <2> QED
      BY <2>1, <2>2 DEF ReportOK
  <1>3. CASE matches # {}
    <2>1. first \in matches /\ \A j \in matches : first <= j
      <3>1. matches \subseteq 1..Len(r.events)
        BY <1>1
      <3>2. \E i \in matches : \A j \in matches : i <= j
        <4> HIDE DEF matches
        <4> QED
          BY <1>1, <1>3, <3>1, FirstExists
      <3> HIDE DEF matches
      <3> QED
        BY <3>2
    <2>2. /\ Applied(r, h, v) = [r EXCEPT !.events = events, !.verdict = RollUp(events)]
          /\ Applied(r, h, v).events = events
          /\ Applied(r, h, v).verdict = RollUp(events)
          /\ DOMAIN Applied(r, h, v) = DOMAIN r
      <3>1. Applied(r, h, v) = [r EXCEPT !.events = events, !.verdict = RollUp(events)]
        BY <1>3 DEF Applied
      <3>2. DOMAIN r = {"events", "verdict", "chain"}
        BY DEF ReportOK
      <3> HIDE DEF events
      <3> QED
        BY <3>1, <3>2
    <2> HIDE DEF first
    <2>3. /\ events \in [1..Len(r.events) -> EventReport]
          /\ \A i \in 1..Len(r.events) :
               /\ events[i].hash = r.events[i].hash
               /\ events[i].verdict = IF i = first THEN v ELSE r.events[i].verdict
      BY <1>1, <2>1 DEF EventReport
    <2>4. events \in Seq(EventReport)
      <3> HIDE DEF events
      <3> QED
        BY <1>1, <2>3, FunctionIsSeq
    <2>5. FirstCarries(events, given2)
      <3>1. /\ DOMAIN events = 1..Len(r.events)
            /\ \A i \in 1..Len(r.events) : r.events[i].hash \in Hashes
        BY <1>1 DEF EventReport
      <3>2. /\ first \in 1..Len(r.events) /\ r.events[first].hash = h
            /\ \A j \in 1..Len(r.events) : r.events[j].hash = h => first <= j
        BY <1>1, <2>1
      <3>3. FirstCarries(r.events, given)
        BY DEF ReportOK
      <3> HIDE DEF events, first, matches
      <3>4. Len(r.events) \in Nat /\ DOMAIN r.events = 1..Len(r.events)
        BY <1>1
      <3>5. WritesFirst(r.events, events, Len(r.events), first, h, v)
        BY <2>3, <3>1, <3>2, <3>4, Zenon DEF WritesFirst
      <3> QED
        BY <3>3, <3>5, FirstIsWritten, Zenon DEF given2
    <2>6. Applied(r, h, v).verdict = RollUp(Applied(r, h, v).events)
      BY <2>2
    <2>7. DOMAIN Applied(r, h, v) = {"events", "verdict", "chain"}
      BY <2>2 DEF ReportOK
    <2> HIDE DEF events, given2
    <2>8. ReportOK(Applied(r, h, v), given2)
      BY <2>2, <2>4, <2>5, <2>6, <2>7 DEF ReportOK
    <2> QED
      BY <2>8 DEF given2
  <1> QED
    BY <1>2, <1>3

LEMMA InitReportInv == Init => ReportInv
  <1> SUFFICES ASSUME Init
               PROVE  ReportInv
    OBVIOUS
  <1>1. leaves \in Leaves
    BY DEF Init, Leaves
  <1>2. byWork \in [Works -> Seq(Hashes)]
    <2>1. << >> \in Seq(Hashes)
      OBVIOUS
    <2> QED
      BY <2>1 DEF Init
  <1> QED
    BY <1>1, <1>2 DEF Init, ReportInv

LEMMA AddLeafKeeps ==
  ASSUME leaves \in Leaves, byWork \in [Works -> Seq(Hashes)],
         NEW h \in Hashes, AddLeaf(h)
  PROVE  byWork' \in [Works -> Seq(Hashes)] /\ leaves' = leaves
  <1>1. leaves[h].work \in Works
    BY DEF Leaves
  <1>2. Append(byWork[leaves[h].work], h) \in Seq(Hashes)
    BY <1>1
  <1> QED
    BY <1>1, <1>2 DEF AddLeaf

LEMMA NextReportInv == ReportInv /\ [Next]_vars => ReportInv'
  <1> SUFFICES ASSUME ReportInv, [Next]_vars
               PROVE  ReportInv'
    OBVIOUS
  <1>1. ASSUME NEW h \in Hashes, AddLeaf(h)
        PROVE  ReportInv'
    <2>1. byWork' \in [Works -> Seq(Hashes)] /\ leaves' = leaves
      BY <1>1, AddLeafKeeps DEF ReportInv
    <2>2. report' = report /\ answers' = answers
      BY <1>1 DEF AddLeaf
    <2> QED
      BY <2>1, <2>2 DEF ReportInv
  <1>2. CASE Build
    <2>1. PICK w \in Works : report' = {ReportOn(Chain(w))}
      BY <1>2 DEF Build
    <2>2. report = {} /\ UNCHANGED <<leaves, byWork, answers>>
      BY <1>2 DEF Build
    <2>3. \A h \in Hashes : answers[h] = ""
      BY <2>2 DEF ReportInv
    <2>4. ReportOK(ReportOn(Chain(w)), answers)
      BY <2>3, BuildReports DEF ReportInv
    <2> QED
      BY <2>1, <2>2, <2>4 DEF ReportInv
  <1>3. CASE SetEventStatus
    <2>1. PICK r \in report, h \in Hashes, v \in Verdicts :
            /\ report' = {Applied(r, h, v)}
            /\ answers' = [answers EXCEPT ![h] = v]
      BY <1>3 DEF SetEventStatus
    <2>2. UNCHANGED <<leaves, byWork>>
      BY <1>3 DEF SetEventStatus
    <2>3. ReportOK(Applied(r, h, v), answers')
      BY <2>1, AppliedKeeps DEF ReportInv
    <2>4. answers' \in [Hashes -> Verdicts \cup {""}]
      BY <2>1 DEF ReportInv
    <2> QED
      BY <2>1, <2>2, <2>3, <2>4 DEF ReportInv
  <1>4. CASE UNCHANGED vars
    BY <1>4 DEF ReportInv, vars
  <1> QED
    BY <1>1, <1>2, <1>3, <1>4 DEF Next, Add

\* A report's roll-up is that of its events, and of each hash the first event
\* carries the last answer, whatever was loaded and however it was answered.
THEOREM ReportInvariant == Spec => []ReportInv
  BY InitReportInv, NextReportInv, PTL DEF Spec

----------------------------------------------------------------------------
(* The report does not depend on the order of loading.                     *)

\* Two events at one place of a sorted chain are the same.
LEMMA PlaceTells ==
  ASSUME NEW n \in Nat, NEW chain, DOMAIN chain = 1..n,
         \A i \in 1..n : chain[i].seq \in Nat /\ chain[i].hash \in Nat,
         NEW m \in 1..n, NEW d, NEW e, Sits(d, m, chain), Sits(e, m, chain)
  PROVE  d.hash = e.hash
  <1>1. ASSUME NEW a, NEW b, Sits(a, m, chain), Sits(b, m, chain), Before(a, b)
        PROVE  FALSE
    <2>1. NotGreater(chain, a) \in SUBSET Lesser(chain, b)
      BY <1>1 DEF Sits, Before, NotGreater, Lesser
    <2>2. Lesser(chain, b) \in SUBSET (1..n)
      BY DEF Lesser
    <2>3. IsFiniteSet(Lesser(chain, b))
      BY <2>2, FS_Interval, FS_Subset
    <2>4. /\ Cardinality(NotGreater(chain, a)) <= Cardinality(Lesser(chain, b))
          /\ IsFiniteSet(NotGreater(chain, a))
      BY <2>1, <2>3, FS_Subset
    <2>5. Cardinality(NotGreater(chain, a)) \in Nat /\ Cardinality(Lesser(chain, b)) \in Nat
      BY <2>3, <2>4, FS_CardinalityType
    <2> QED
      BY <1>1, <2>4, <2>5 DEF Sits
  <1>2. ~Before(d, e) /\ ~Before(e, d)
    BY <1>1
  <1> QED
    BY <1>2 DEF Before, Sits

\* A set of positions and the set of those taken to it by a rearrangement are
\* of one size.
LEMMA RearrangedSize ==
  ASSUME NEW n \in Nat, NEW perm \in Bijection(1..n, 1..n),
         NEW S, S \subseteq 1..n, NEW T, T \subseteq 1..n,
         \A i \in 1..n : i \in S <=> perm[i] \in T
  PROVE  Cardinality(S) = Cardinality(T)
  <1> DEFINE f == [i \in S |-> perm[i]]
  <1>1. /\ perm \in [1..n -> 1..n]
        /\ \A i, j \in 1..n : perm[i] = perm[j] => i = j
        /\ \A i \in 1..n : \E j \in 1..n : perm[j] = i
    BY DEF Bijection, Injection, Surjection, IsInjective
  <1>2. f \in [S -> T]
    BY <1>1
  <1>3. \A i, j \in S : f[i] = f[j] => i = j
    BY <1>1
  <1>4. \A t \in T : \E i \in S : f[i] = t
    BY <1>1
  <1> HIDE DEF f
  <1>5. f \in Bijection(S, T)
    BY <1>2, <1>3, <1>4 DEF Bijection, Injection, Surjection, IsInjective
  <1>6. IsFiniteSet(S)
    <2>1. S \in SUBSET (1..n) /\ IsFiniteSet(1..n)
      BY FS_Interval
    <2> QED
      BY <2>1, FS_Subset
  <1> QED
    BY <1>5, <1>6, FS_Bijection DEF ExistsBijection

Rearranged(chain, perm) == [i \in DOMAIN chain |-> chain[perm[i]]]

LEMMA OneAnalysis ==
  ASSUME NEW n \in Nat, NEW chain, DOMAIN chain = 1..n,
         NEW perm \in Bijection(1..n, 1..n)
  PROVE  Analyze(Rearranged(chain, perm)) = Analyze(chain)
  <1> DEFINE other == Rearranged(chain, perm)
  <1>1. /\ perm \in [1..n -> 1..n]
        /\ \A i \in 1..n : \E j \in 1..n : perm[j] = i
    BY DEF Bijection, Injection, Surjection
  <1>2. DOMAIN other = 1..n /\ \A i \in 1..n : other[i] = chain[perm[i]]
    BY DEF Rearranged
  <1> HIDE DEF other
  <1>3. byHash(other) = byHash(chain)
    <2>1. ASSUME NEW h \in byHash(other) PROVE h \in byHash(chain)
      <3>1. PICK i \in 1..n : h = other[i].hash
        BY <1>2 DEF byHash
      <3>2. perm[i] \in 1..n /\ chain[perm[i]].hash = h
        BY <1>1, <1>2, <3>1
      <3> QED
        BY <3>2 DEF byHash
    <2>2. ASSUME NEW h \in byHash(chain) PROVE h \in byHash(other)
      <3>1. PICK i \in 1..n : h = chain[i].hash
        BY DEF byHash
      <3>2. PICK j \in 1..n : perm[j] = i
        BY <1>1
      <3> QED
        BY <1>2, <3>1, <3>2 DEF byHash
    <2> QED
      BY <2>1, <2>2
  <1>4. Cardinality(RootsOf(other)) = Cardinality(RootsOf(chain))
    <2>1. \A i \in 1..n : i \in RootsOf(other) <=> perm[i] \in RootsOf(chain)
      BY <1>1, <1>2 DEF RootsOf
    <2>2. RootsOf(other) \subseteq 1..n /\ RootsOf(chain) \subseteq 1..n
      BY <1>2 DEF RootsOf
    <2> QED
      BY <2>1, <2>2, RearrangedSize
  <1>5. /\ Cardinality(DanglingOf(other)) = Cardinality(DanglingOf(chain))
        /\ DanglingOf(other) = {} <=> DanglingOf(chain) = {}
    <2>1. \A i \in 1..n : i \in DanglingOf(other) <=> perm[i] \in DanglingOf(chain)
      BY <1>1, <1>2, <1>3 DEF DanglingOf
    <2>2. DanglingOf(other) \subseteq 1..n /\ DanglingOf(chain) \subseteq 1..n
      BY <1>2 DEF DanglingOf
    <2>3. DanglingOf(other) = {} <=> DanglingOf(chain) = {}
      BY <1>1, <2>1, <2>2
    <2> QED
      BY <2>1, <2>2, <2>3, RearrangedSize
  <1>6. ASSUME NEW h
        PROVE  Cardinality(ChildrenOf(other, h)) = Cardinality(ChildrenOf(chain, h))
    <2>1. \A i \in 1..n : i \in ChildrenOf(other, h) <=> perm[i] \in ChildrenOf(chain, h)
      BY <1>1, <1>2 DEF ChildrenOf
    <2>2. ChildrenOf(other, h) \subseteq 1..n /\ ChildrenOf(chain, h) \subseteq 1..n
      BY <1>2 DEF ChildrenOf
    <2> QED
      BY <2>1, <2>2, RearrangedSize
  <1>7. ForksOf(other) = ForksOf(chain)
    BY <1>3, <1>4, <1>6 DEF ForksOf
  <1> QED
    BY <1>4, <1>5, <1>7 DEF Analyze, other

LEMMA OneSort ==
  ASSUME NEW n \in Nat, NEW chain, DOMAIN chain = 1..n,
         \A i \in 1..n : chain[i].seq \in Nat /\ chain[i].hash \in Nat,
         NEW perm \in Bijection(1..n, 1..n), NEW m \in 1..n
  PROVE  Sorted(Rearranged(chain, perm))[m].hash = Sorted(chain)[m].hash
  <1> DEFINE other == Rearranged(chain, perm)
  <1>1. \A i \in 1..n : perm[i] \in 1..n
    BY DEF Bijection, Injection
  <1>2. DOMAIN other = 1..n /\ \A i \in 1..n : other[i] = chain[perm[i]]
    BY DEF Rearranged
  <1> HIDE DEF other
  <1>3. \A i \in 1..n : other[i].seq \in Nat /\ other[i].hash \in Nat
    BY <1>1, <1>2
  <1>4. PICK p \in Bijection(1..n, 1..n) :
          /\ Sorted(chain) = [i \in 1..n |-> chain[p[i]]]
          /\ \A k \in 1..n : Sits(chain[p[k]], k, chain)
    BY SortedPermutes, Zenon
  <1>5. PICK q \in Bijection(1..n, 1..n) :
          /\ Sorted(other) = [i \in 1..n |-> other[q[i]]]
          /\ \A k \in 1..n : Sits(other[q[k]], k, other)
    BY <1>2, <1>3, SortedPermutes, Zenon
  <1>6. ASSUME NEW e
        PROVE  /\ Cardinality(Lesser(other, e)) = Cardinality(Lesser(chain, e))
               /\ Cardinality(NotGreater(other, e)) = Cardinality(NotGreater(chain, e))
    <2>1. \A i \in 1..n : /\ i \in Lesser(other, e) <=> perm[i] \in Lesser(chain, e)
                          /\ i \in NotGreater(other, e) <=> perm[i] \in NotGreater(chain, e)
      BY <1>1, <1>2 DEF Lesser, NotGreater
    <2>2. /\ Lesser(other, e) \subseteq 1..n /\ Lesser(chain, e) \subseteq 1..n
          /\ NotGreater(other, e) \subseteq 1..n /\ NotGreater(chain, e) \subseteq 1..n
      BY <1>2 DEF Lesser, NotGreater
    <2>3. Cardinality(Lesser(other, e)) = Cardinality(Lesser(chain, e))
      BY <2>1, <2>2, RearrangedSize
    <2>4. Cardinality(NotGreater(other, e)) = Cardinality(NotGreater(chain, e))
      BY <2>1, <2>2, RearrangedSize
    <2> QED
      BY <2>3, <2>4
  <1>7. Sits(Sorted(other)[m], m, chain)
    BY <1>5, <1>6 DEF Sits
  <1>8. Sits(Sorted(chain)[m], m, chain)
    BY <1>4
  <1>9. Sorted(other)[m].hash = Sorted(chain)[m].hash
    BY <1>7, <1>8, PlaceTells
  <1> QED
    BY <1>9 DEF other

LEMMA OneReport ==
  ASSUME NEW n \in Nat, NEW chain, DOMAIN chain = 1..n,
         \A i \in 1..n : chain[i].seq \in Nat /\ chain[i].hash \in Nat,
         NEW perm \in Bijection(1..n, 1..n)
  PROVE  ReportOn(Rearranged(chain, perm)) = ReportOn(chain)
  <1>1. DOMAIN Rearranged(chain, perm) = 1..n
    BY DEF Rearranged
  <1>2. \A m \in 1..n :
          Sorted(Rearranged(chain, perm))[m].hash = Sorted(chain)[m].hash
    BY OneSort
  <1>3. Analyze(Rearranged(chain, perm)) = Analyze(chain)
    BY OneAnalysis
  <1> QED
    BY <1>1, <1>2, <1>3 DEF ReportOn

\* The leaves of a work make one report, rearranged in any way.
LEMMA OneReportAtAll ==
  ASSUME leaves \in Leaves, byWork \in [Works -> Seq(Hashes)]
  PROVE  OrderFree
  <1> SUFFICES ASSUME NEW w \in Works,
                      NEW perm \in Orders(DOMAIN byWork[w])
               PROVE  ReportOn([i \in DOMAIN byWork[w] |-> Chain(w)[perm[i]]])
                        = ReportOn(Chain(w))
    BY DEF OrderFree
  <1> DEFINE n == Len(byWork[w])
             chain == Chain(w)
  <1>1. /\ n \in Nat /\ DOMAIN chain = 1..n /\ DOMAIN byWork[w] = 1..n
        /\ \A i \in 1..n : chain[i].seq \in Nat /\ chain[i].hash \in Nat
    BY ChainFacts
  <1>2. [i \in DOMAIN byWork[w] |-> Chain(w)[perm[i]]] = Rearranged(chain, perm)
    BY <1>1 DEF Rearranged
  <1> HIDE DEF n, chain
  <1>3. perm \in [1..n -> 1..n] /\ \A i, j \in 1..n : perm[i] = perm[j] => i = j
    BY <1>1 DEF Orders
  <1>4. perm \in Injection(1..n, 1..n)
    BY <1>3 DEF Injection, IsInjective
  <1>5. perm \in Bijection(1..n, 1..n)
    <2>1. perm \in Surjection(1..n, 1..n)
      BY <1>1, <1>4, FS_Interval, FS_Injection
    <2> QED
      BY <1>4, <2>1 DEF Bijection
  <1>6. ReportOn(Rearranged(chain, perm)) = ReportOn(chain)
    BY <1>1, <1>5, OneReport
  <1> QED
    BY <1>2, <1>6 DEF chain

\* However the leaves of a work were loaded, there is one report on it.
THEOREM OrderAlwaysFree == Spec => []OrderFree
  <1>1. ReportInv => OrderFree
    BY OneReportAtAll DEF ReportInv
  <1> QED
    BY <1>1, ReportInvariant, PTL

----------------------------------------------------------------------------
(* A chain without forks, gaps and second roots is one history.            *)

\* A chain of n events, each the leaf its hash names, none its own ancestor: a
\* parent ranks below its children.
IsChain(chain, n, rank) ==
  /\ n \in Nat /\ n # 0 /\ DOMAIN chain = 1..n /\ Len(chain) = n
  /\ rank \in [1..n -> Nat]
  /\ \A i \in 1..n : chain[i].hash # NoPrev
  /\ \A i, j \in 1..n : chain[i].hash = chain[j].hash => rank[i] = rank[j]
  /\ \A i, j \in 1..n : chain[i].prev = chain[j].hash => rank[j] < rank[i]

\* Where the walk goes from position i.
NextOf(chain, i) ==
  LET kids == IF i = 0 THEN {} ELSE ChildrenOf(chain, chain[i].hash)
  IN  IF Cardinality(kids) = 1 THEN Only(kids) ELSE 0

LEMMA OnlyOne ==
  ASSUME NEW n \in Nat, NEW S, S \subseteq 1..n, Cardinality(S) = 1
  PROVE  S = {Only(S)} /\ Only(S) \in S
  <1>1. IsFiniteSet(S)
    <2>1. S \in SUBSET (1..n) /\ IsFiniteSet(1..n)
      BY FS_Interval
    <2> QED
      BY <2>1, FS_Subset
  <1>2. PICK x : S = {x}
    BY <1>1, FS_Singleton
  <1> QED
    BY <1>2 DEF Only

LEMMA SingletonOnly ==
  ASSUME NEW x
  PROVE  Cardinality({x}) = 1 /\ Only({x}) = x
  BY FS_Singleton DEF Only

LEMMA NextOfType ==
  ASSUME NEW n \in Nat, NEW chain, DOMAIN chain = 1..n, NEW i \in 0..n
  PROVE  /\ NextOf(chain, i) \in 0..n
         /\ NextOf(chain, i) # 0 =>
              /\ i \in 1..n /\ NextOf(chain, i) \in 1..n
              /\ chain[NextOf(chain, i)].prev = chain[i].hash
  <1> DEFINE kids == IF i = 0 THEN {} ELSE ChildrenOf(chain, chain[i].hash)
  <1>1. kids \subseteq 1..n
    BY DEF ChildrenOf
  <1>2. Cardinality(kids) = 1 => Only(kids) \in kids
    <2> HIDE DEF kids
    <2> QED
      BY <1>1, OnlyOne
  <1>3. NextOf(chain, i) = IF Cardinality(kids) = 1 THEN Only(kids) ELSE 0
    BY DEF NextOf
  <1>4. \A k \in kids : i # 0 /\ chain[k].prev = chain[i].hash
    BY DEF ChildrenOf
  <1> HIDE DEF kids
  <1>5. CASE Cardinality(kids) = 1
    <2>1. NextOf(chain, i) \in kids
      BY <1>2, <1>3, <1>5
    <2>2. i \in 1..n
      BY <1>4, <2>1
    <2>3. NextOf(chain, i) \in 1..n
      BY <1>1, <2>1
    <2>4. chain[NextOf(chain, i)].prev = chain[i].hash
      BY <1>4, <2>1
    <2>5. 1..n \subseteq 0..n
      OBVIOUS
    <2> QED
      BY <2>2, <2>3, <2>4, <2>5
  <1>6. CASE Cardinality(kids) # 1
    BY <1>3, <1>6
  <1> QED
    BY <1>5, <1>6

\* The walk from a single root, step by step.
IsWalk(walk, chain, n, r) ==
  /\ walk \in [1..n -> 0..n]
  /\ walk[1] = r
  /\ \A k \in 1..n : k # n => walk[k + 1] = NextOf(chain, walk[k])

LEMMA WalkSteps ==
  ASSUME NEW n, NEW chain, NEW rank, IsChain(chain, n, rank),
         NEW r, RootsOf(chain) = {r}
  PROVE  IsWalk(Walk(chain), chain, n, r)
  <1> DEFINE Unfolded(f) == [k \in 0..n |->
               IF k = 0 THEN 0
               ELSE IF k = 1 THEN Only(RootsOf(chain)) ELSE NextOf(chain, f[k - 1])]
             walk == CHOOSE f : f = Unfolded(f)
             step == [k \in 0..n |-> [i \in 0..n |-> IF k = 0 THEN r ELSE NextOf(chain, i)]]
  <1> n \in Nat /\ n # 0 /\ DOMAIN chain = 1..n /\ Len(chain) = n
    BY DEF IsChain
  <1>1. r \in 1..n /\ Only(RootsOf(chain)) = r
    BY SingletonOnly DEF RootsOf
  <1>2. step \in [0..n -> [0..n -> 0..n]]
    <2>1. \A i \in 0..n : NextOf(chain, i) \in 0..n
      BY NextOfType
    <2> QED
      BY <1>1, <2>1
  <1>3. PICK f \in [0..n -> 0..n] :
          f[0] = 0 /\ \A k \in 0..n : k # n => f[k + 1] = step[k][f[k]]
    <2>1. 0 \in 0..n
      OBVIOUS
    <2> DEFINE D == 0..n
    <2>2. step \in [0..n -> [D -> D]] /\ 0 \in D
      BY <1>2, <2>1
    <2> HIDE DEF step, D
    <2>3. \E f \in [0..n -> D] : Repeats(f, n, 0, step)
      BY <2>2, IntervalRecursion
    <2> QED
      BY <2>3 DEF Repeats, D
  <1>4. \A k \in 0..n, i \in 0..n : step[k][i] = IF k = 0 THEN r ELSE NextOf(chain, i)
    OBVIOUS
  <1> HIDE DEF step
  <1>5. f = Unfolded(f)
    <2>1. ASSUME NEW k \in 0..n
          PROVE  f[k] = Unfolded(f)[k]
      <3>1. CASE k = 0
        BY <1>3, <3>1
      <3>2. CASE k # 0
        <4>1. k - 1 \in 0..n /\ k - 1 # n /\ (k - 1) + 1 = k
          BY <3>2
        <4>2. f[k] = step[k - 1][f[k - 1]] /\ f[k - 1] \in 0..n
          BY <1>3, <4>1
        <4>3. f[k] = IF k - 1 = 0 THEN r ELSE NextOf(chain, f[k - 1])
          BY <1>4, <4>1, <4>2
        <4>4. k - 1 = 0 <=> k = 1
          OBVIOUS
        <4> QED
          BY <1>1, <3>2, <4>3, <4>4
      <3> QED
        BY <3>1, <3>2
    <2>2. f = [k \in 0..n |-> f[k]]
      OBVIOUS
    <2> QED
      BY <2>1, <2>2
  <1>6. walk = Unfolded(walk)
    <2> HIDE DEF Unfolded
    <2> QED
      BY <1>5
  <1>7. Walk(chain) = [k \in 1..n |-> walk[k]]
    BY DEF Walk, NextOf
  <1>8. \A k \in 0..n : walk[k] = IF k = 0 THEN 0 ELSE IF k = 1 THEN r
                                  ELSE NextOf(chain, walk[k - 1])
    <2> HIDE DEF walk
    <2> QED
      BY <1>1, <1>6
  <1> HIDE DEF walk
  <1>9. \A k \in 0..n : walk[k] \in 0..n
    <2> DEFINE S == {k \in 0..n : walk[k] \in 0..n}
    <2>1. 0 \in S
      BY <1>8
    <2>2. ASSUME NEW k \in 0..n, k # n, k \in S
          PROVE  k + 1 \in S
      <3>1. k + 1 \in 0..n /\ (k + 1) - 1 = k /\ k + 1 # 0
        BY <2>2
      <3>2. walk[k + 1] = IF k + 1 = 1 THEN r ELSE NextOf(chain, walk[k])
        BY <1>8, <3>1
      <3>3. NextOf(chain, walk[k]) \in 0..n
        BY <2>2, NextOfType
      <3>4. walk[k + 1] \in 0..n
        BY <1>1, <3>2, <3>3
      <3> QED
        BY <3>1, <3>4
    <2>3. \A k \in 0..n : k \in S
      <3> HIDE DEF S
      <3> QED
        BY <2>1, <2>2, IntervalInduction
    <2> QED
      BY <2>3
  <1>10. ASSUME NEW k \in 1..n, k # n
         PROVE  walk[k + 1] = NextOf(chain, walk[k])
    <2>1. k + 1 \in 0..n /\ (k + 1) - 1 = k /\ k + 1 # 0 /\ k + 1 # 1
      BY <1>10
    <2> QED
      BY <1>8, <2>1
  <1>11. walk[1] = r
    BY <1>8
  <1> QED
    BY <1>7, <1>9, <1>10, <1>11 DEF IsWalk

\* A walk that does not stop climbs in rank: it meets every event once.
LEMMA WalkIsHistory ==
  ASSUME NEW n, NEW chain, NEW rank, IsChain(chain, n, rank),
         NEW r, RootsOf(chain) = {r}, \A k \in 1..n : Walk(chain)[k] # 0
  PROVE  Walk(chain) \in HistoriesOf(chain)
  <1> DEFINE walk == Walk(chain)
             climb == [k \in 1..n |-> rank[walk[k]]]
  <1>1. n \in Nat /\ n # 0 /\ DOMAIN chain = 1..n /\ Len(chain) = n /\ rank \in [1..n -> Nat]
    BY DEF IsChain
  <1>2. /\ walk \in [1..n -> 0..n] /\ walk[1] = r
        /\ \A k \in 1..n : k # n => walk[k + 1] = NextOf(chain, walk[k])
    <2>1. IsWalk(walk, chain, n, r)
      BY WalkSteps, Zenon
    <2> QED
      BY <2>1 DEF IsWalk
  <1> HIDE DEF walk
  <1>3. walk \in [1..n -> 1..n]
    BY <1>2 DEF walk
  <1>4. \A k \in 1..n : k # n => chain[walk[k + 1]].prev = chain[walk[k]].hash
    <2> SUFFICES ASSUME NEW k \in 1..n, k # n
                 PROVE  chain[walk[k + 1]].prev = chain[walk[k]].hash
      OBVIOUS
    <2>1. k + 1 \in 1..n /\ walk[k + 1] # 0
      BY <1>1, <1>3
    <2>2. walk[k] \in 0..n /\ walk[k + 1] = NextOf(chain, walk[k])
      BY <1>2
    <2>3. NextOf(chain, walk[k]) # 0 =>
            chain[NextOf(chain, walk[k])].prev = chain[walk[k]].hash
      BY <1>1, <2>2, NextOfType, Zenon
    <2> QED
      BY <2>1, <2>2, <2>3
  <1>5. ASSUME NEW k \in 1..n, k # n
        PROVE  climb[k] < climb[k + 1]
    <2>1. k + 1 \in 1..n
      BY <1>1, <1>5
    <2>2. walk[k] \in 1..n /\ walk[k + 1] \in 1..n
      BY <1>3, <2>1
    <2>3. rank[walk[k]] < rank[walk[k + 1]]
      BY <1>4, <1>5, <2>2 DEF IsChain
    <2> QED
      BY <2>1, <2>3
  <1>6. climb \in [1..n -> Nat]
    BY <1>1, <1>3
  <1>7. \A i, j \in 1..n : i < j => climb[i] < climb[j]
    <2> HIDE DEF climb
    <2> QED
      BY <1>1, <1>5, <1>6, StepsGrow
  <1>8. \A i, j \in 1..n : walk[i] = walk[j] => i = j
    BY <1>1, <1>6, <1>7
  <1>9. walk \in Injection(1..n, 1..n)
    BY <1>3, <1>8 DEF Injection, IsInjective
  <1>10. walk \in Surjection(1..n, 1..n)
    BY <1>1, <1>9, FS_Interval, FS_Injection
  <1>11. \A i \in 1..n : \E k \in 1..n : walk[k] = i
    BY <1>10 DEF Surjection
  <1>12. chain[walk[1]].prev = NoPrev
    BY <1>2 DEF RootsOf
  <1>13. \A k \in 1..n : k # 1 => chain[walk[k]].prev = chain[walk[k - 1]].hash
    <2> SUFFICES ASSUME NEW k \in 1..n, k # 1
                 PROVE  chain[walk[k]].prev = chain[walk[k - 1]].hash
      OBVIOUS
    <2>1. k - 1 \in 1..n /\ k - 1 # n /\ (k - 1) + 1 = k
      BY <1>1
    <2> QED
      BY <1>4, <2>1
  <1>14. IsHistory(chain, walk)
    BY <1>1, <1>11, <1>12, <1>13 DEF IsHistory
  <1> QED
    BY <1>1, <1>3, <1>14 DEF HistoriesOf, walk

\* A history is the walk, of a chain that is linear.
LEMMA HistoryIsWalk ==
  ASSUME NEW n, NEW chain, NEW rank, IsChain(chain, n, rank),
         NEW order \in HistoriesOf(chain)
  PROVE  /\ RootsOf(chain) = {order[1]}
         /\ DanglingOf(chain) = {}
         /\ ForksOf(chain) = {}
         /\ Walk(chain) = order
  <1>1. n \in Nat /\ n # 0 /\ DOMAIN chain = 1..n /\ Len(chain) = n /\ rank \in [1..n -> Nat]
    BY DEF IsChain
  <1>2. /\ order \in [1..n -> 1..n]
        /\ \A i \in 1..n : \E k \in 1..n : order[k] = i
        /\ chain[order[1]].prev = NoPrev
        /\ \A k \in 1..n : k # 1 => chain[order[k]].prev = chain[order[k - 1]].hash
    <2>1. order \in [1..n -> 1..n] /\ IsHistory(chain, order)
      BY <1>1 DEF HistoriesOf
    <2>2. 1 \in 1..n
      BY <1>1
    <2> QED
      BY <1>1, <2>1, <2>2 DEF IsHistory
  <1>3. \A i \in 1..n : chain[i].hash # NoPrev
    BY DEF IsChain
  <1> DEFINE climb == [k \in 1..n |-> rank[order[k]]]
  <1>4. \A k \in 1..n : k # n => climb[k] < climb[k + 1]
    <2> SUFFICES ASSUME NEW k \in 1..n, k # n
                 PROVE  climb[k] < climb[k + 1]
      OBVIOUS
    <2>1. k + 1 \in 1..n /\ k + 1 # 1 /\ (k + 1) - 1 = k
      BY <1>1
    <2>2. chain[order[k + 1]].prev = chain[order[k]].hash
      BY <1>2, <2>1
    <2> QED
      BY <1>2, <2>1, <2>2 DEF IsChain
  <1>5. climb \in [1..n -> Nat]
    BY <1>1, <1>2
  <1>6. \A i, j \in 1..n : i < j => climb[i] < climb[j]
    <2> HIDE DEF climb
    <2> QED
      BY <1>1, <1>4, <1>5, StepsGrow
  <1>7. RootsOf(chain) = {order[1]}
    <2>1. 1 \in 1..n /\ \A k \in 1..n : k # 1 => k - 1 \in 1..n
      BY <1>1
    <2>2. ASSUME NEW k \in 1..n, k # 1
          PROVE  chain[order[k]].prev # NoPrev
      <3>1. k - 1 \in 1..n
        BY <2>1, <2>2
      <3>2. order[k - 1] \in 1..n
        BY <1>2, <3>1
      <3>3. chain[order[k]].prev = chain[order[k - 1]].hash
        BY <1>2, <2>2
      <3> QED
        BY <1>3, <3>2, <3>3
    <2>3. \A i \in 1..n : chain[i].prev = NoPrev => i = order[1]
      BY <1>2, <2>2
    <2>4. order[1] \in 1..n /\ chain[order[1]].prev = NoPrev
      BY <1>2, <2>1
    <2>5. DOMAIN chain = 1..n
      BY <1>1
    <2> QED
      BY <2>3, <2>4, <2>5 DEF RootsOf
  <1>8. DanglingOf(chain) = {}
    <2>1. \A k \in 1..n : k # 1 => k - 1 \in 1..n
      BY <1>1
    <2>2. ASSUME NEW k \in 1..n, k # 1
          PROVE  chain[order[k]].prev \in byHash(chain)
      <3>1. order[k - 1] \in 1..n
        BY <1>2, <2>1, <2>2
      <3>2. chain[order[k]].prev = chain[order[k - 1]].hash
        BY <1>2, <2>2
      <3> QED
        BY <1>1, <3>1, <3>2 DEF byHash
    <2>3. \A i \in 1..n : chain[i].prev # NoPrev => chain[i].prev \in byHash(chain)
      BY <1>2, <2>2
    <2> QED
      BY <1>1, <2>3 DEF DanglingOf
  <1>9. ASSUME NEW k \in 1..n, NEW m \in 1..n, chain[order[m]].prev = chain[order[k]].hash
        PROVE  k # n /\ m = k + 1
    <2>1. m # 1
      BY <1>2, <1>3, <1>9
    <2>2. m - 1 \in 1..n
      BY <1>1, <2>1
    <2>3. chain[order[m - 1]].hash = chain[order[k]].hash
      BY <1>2, <1>9, <2>1
    <2>4. climb[m - 1] = climb[k]
      <3>1. order[m - 1] \in 1..n /\ order[k] \in 1..n
        BY <1>2, <2>2
      <3>2. rank[order[m - 1]] = rank[order[k]]
        BY <2>3, <3>1 DEF IsChain
      <3> QED
        BY <2>2, <3>2
    <2>5. ~(m - 1 < k) /\ ~(k < m - 1)
      <3>1. climb[m - 1] \in Nat /\ climb[k] \in Nat
        BY <1>5, <2>2
      <3> HIDE DEF climb
      <3> QED
        BY <1>6, <2>2, <2>4, <3>1
    <2> QED
      BY <1>1, <2>2, <2>5
  <1>10. ASSUME NEW k \in 1..n
         PROVE  /\ k # n => ChildrenOf(chain, chain[order[k]].hash) = {order[k + 1]}
                /\ k = n => ChildrenOf(chain, chain[order[k]].hash) = {}
    <2>1. \A i \in ChildrenOf(chain, chain[order[k]].hash) : k # n /\ i = order[k + 1]
      <3> SUFFICES ASSUME NEW i \in 1..n, chain[i].prev = chain[order[k]].hash
                   PROVE  k # n /\ i = order[k + 1]
        BY <1>1 DEF ChildrenOf
      <3>1. PICK m \in 1..n : order[m] = i
        BY <1>2
      <3> QED
        BY <1>9, <3>1
    <2>2. k # n => order[k + 1] \in ChildrenOf(chain, chain[order[k]].hash)
      <3> SUFFICES ASSUME k # n
                   PROVE  order[k + 1] \in ChildrenOf(chain, chain[order[k]].hash)
        OBVIOUS
      <3>1. k + 1 \in 1..n /\ k + 1 # 1 /\ (k + 1) - 1 = k
        BY <1>1
      <3>2. chain[order[k + 1]].prev = chain[order[k]].hash
        BY <1>2, <3>1
      <3> QED
        BY <1>1, <1>2, <3>1, <3>2 DEF ChildrenOf
    <2> QED
      BY <2>1, <2>2
  <1>11. ForksOf(chain) = {}
    <2>1. ASSUME NEW h \in byHash(chain)
          PROVE  ~(Cardinality(ChildrenOf(chain, h)) > 1)
      <3>1. PICK i \in 1..n : h = chain[i].hash
        BY <1>1 DEF byHash
      <3>2. PICK k \in 1..n : order[k] = i
        BY <1>2
      <3>3. Cardinality(ChildrenOf(chain, h)) = 1 \/ Cardinality(ChildrenOf(chain, h)) = 0
        BY <1>10, <3>1, <3>2, SingletonOnly, FS_EmptySet
      <3> QED
        BY <3>3
    <2>2. Cardinality(RootsOf(chain)) = 1
      BY <1>7, SingletonOnly
    <2> QED
      BY <2>1, <2>2 DEF ForksOf
  <1>12. ASSUME NEW k \in 1..n, k # n
         PROVE  NextOf(chain, order[k]) = order[k + 1]
    <2>1. ChildrenOf(chain, chain[order[k]].hash) = {order[k + 1]}
      BY <1>10, <1>12
    <2>2. order[k] # 0
      BY <1>1, <1>2
    <2> QED
      BY <2>1, <2>2, SingletonOnly DEF NextOf
  <1>13. Walk(chain) = order
    <2> DEFINE walk == Walk(chain)
               S == {k \in 0..n : k # 0 => walk[k] = order[k]}
    <2>1. /\ walk \in [1..n -> 0..n] /\ walk[1] = order[1]
          /\ \A k \in 1..n : k # n => walk[k + 1] = NextOf(chain, walk[k])
      <3>1. IsWalk(walk, chain, n, order[1])
        BY <1>7, WalkSteps, Zenon
      <3> QED
        BY <3>1 DEF IsWalk
    <2> HIDE DEF walk
    <2>2. 0 \in S
      BY <1>1
    <2>3. ASSUME NEW k \in 0..n, k # n, k \in S
          PROVE  k + 1 \in S
      <3>1. CASE k = 0
        BY <1>1, <2>1, <3>1
      <3>2. CASE k # 0
        <4>1. k \in 1..n /\ walk[k] = order[k] /\ k + 1 \in 0..n
          BY <1>1, <2>3, <3>2
        <4> QED
          BY <1>12, <2>1, <2>3, <4>1
      <3> QED
        BY <3>1, <3>2
    <2>4. \A k \in 0..n : k \in S
      <3> HIDE DEF S
      <3> QED
        BY <1>1, <2>2, <2>3, IntervalInduction
    <2>5. \A k \in 1..n : walk[k] = order[k]
      BY <1>1, <2>4
    <2> HIDE DEF S
    <2>6. walk = order
      <3>1. walk = [k \in 1..n |-> walk[k]] /\ order = [k \in 1..n |-> order[k]]
        BY <1>2, <2>1
      <3> QED
        BY <2>5, <3>1
    <2> QED
      BY <2>6 DEF walk
  <1> QED
    BY <1>7, <1>8, <1>11, <1>13

\* The walk of a linear chain does not stop: of the events it has not met, the one
\* of the least rank has its parent on the walk, and is its only child.
LEMMA LinearWalks ==
  ASSUME NEW n, NEW chain, NEW rank, IsChain(chain, n, rank),
         NEW r, RootsOf(chain) = {r}, ForksOf(chain) = {}, DanglingOf(chain) = {}
  PROVE  \A k \in 1..n : Walk(chain)[k] # 0
  <1> DEFINE walk == Walk(chain)
             stops == {k \in 1..n : walk[k] = 0}
  <1>1. n \in Nat /\ n # 0 /\ DOMAIN chain = 1..n /\ Len(chain) = n /\ rank \in [1..n -> Nat]
    BY DEF IsChain
  <1>2. /\ walk \in [1..n -> 0..n] /\ walk[1] = r
        /\ \A k \in 1..n : k # n => walk[k + 1] = NextOf(chain, walk[k])
    <2>1. IsWalk(walk, chain, n, r)
      BY WalkSteps, Zenon
    <2> QED
      BY <2>1 DEF IsWalk
  <1>3. SUFFICES ASSUME stops # {} PROVE FALSE
    OBVIOUS
  <1> HIDE DEF walk
  <1>4. PICK z \in stops : \A k \in stops : z <= k
    <2>1. stops \subseteq Nat
      OBVIOUS
    <2> HIDE DEF stops
    <2> QED
      BY <1>3, <2>1, LeastExists
  <1>5. z \in 1..n /\ walk[z] = 0
    OBVIOUS
  <1>6. r \in 1..n /\ z # 1
    BY <1>1, <1>2, <1>5 DEF RootsOf
  <1>7. \A k \in 1..(z - 1) : k \in 1..n /\ k # n /\ walk[k] \in 1..n
    <2> SUFFICES ASSUME NEW k \in 1..(z - 1)
                 PROVE  k \in 1..n /\ k # n /\ walk[k] \in 1..n
      OBVIOUS
    <2>1. k \in 1..n /\ k # n /\ ~(z <= k)
      BY <1>1, <1>5
    <2>2. walk[k] # 0
      BY <1>4, <2>1
    <2> QED
      BY <1>1, <1>2, <2>1, <2>2
  <1> DEFINE met == {walk[k] : k \in 1..(z - 1)}
             unmet == (1..n) \ met
  <1>8. unmet # {}
    <2> SUFFICES ASSUME unmet = {} PROVE FALSE
      OBVIOUS
    <2> DEFINE f == [k \in 1..(z - 1) |-> walk[k]]
    <2>1. f \in Surjection(1..(z - 1), 1..n)
      BY <1>7 DEF Surjection
    <2>2. z - 1 \in Nat /\ ExistsSurjection(1..(z - 1), 1..n)
      BY <1>5, <1>6, <2>1 DEF ExistsSurjection
    <2>3. Cardinality(1..n) <= z - 1
      BY <2>2, FS_SurjCardinalityBound
    <2>4. Cardinality(1..n) = n
      BY <1>1, FS_Interval
    <2> QED
      BY <1>1, <1>5, <2>3, <2>4
  <1> HIDE DEF stops
  <1>9. PICK u \in unmet : \A i \in unmet : rank[u] <= rank[i]
    <2> DEFINE ranks == {rank[i] : i \in unmet}
    <2>1. ranks \subseteq Nat /\ ranks # {}
      BY <1>1, <1>8
    <2>2. PICK least \in ranks : \A v \in ranks : least <= v
      <3> HIDE DEF ranks
      <3> QED
        BY <2>1, LeastExists
    <2> QED
      BY <2>2
  <1>10. u \in 1..n /\ u \notin met
    OBVIOUS
  <1>11. r \in met
    BY <1>2, <1>5, <1>6
  <1>12. chain[u].prev # NoPrev
    BY <1>1, <1>10, <1>11 DEF RootsOf
  <1>13. PICK p \in 1..n : chain[u].prev = chain[p].hash
    BY <1>1, <1>10, <1>12 DEF DanglingOf, byHash
  <1>14. p \in met
    <2>1. rank[p] < rank[u]
      BY <1>10, <1>13 DEF IsChain
    <2> QED
      BY <1>1, <1>9, <1>10, <2>1
  <1>15. PICK m \in 1..(z - 1) : walk[m] = p
    BY <1>14
  <1> DEFINE kids == ChildrenOf(chain, chain[p].hash)
  <1>16. kids = {u}
    <2>1. u \in kids /\ kids \subseteq 1..n
      BY <1>1, <1>10, <1>13 DEF ChildrenOf
    <2>2. ~(Cardinality(kids) > 1)
      BY <1>1 DEF ForksOf, byHash
    <2> HIDE DEF kids
    <2>3. IsFiniteSet(kids)
      <3>1. kids \in SUBSET (1..n) /\ IsFiniteSet(1..n)
        BY <1>1, <2>1, FS_Interval
      <3> QED
        BY <3>1, FS_Subset
    <2>4. Cardinality(kids) \in Nat /\ Cardinality(kids) # 0
      BY <2>1, <2>3, FS_CardinalityType, FS_EmptySet
    <2>5. Cardinality(kids) = 1
      BY <2>2, <2>4
    <2>6. kids = {Only(kids)}
      <3>1. n \in Nat
        BY <1>1
      <3> QED
        BY <2>1, <2>5, <3>1, OnlyOne
    <2> QED
      BY <2>1, <2>6 DEF kids
  <1>17. NextOf(chain, p) = u
    <2>1. p # 0
      BY <1>1
    <2> QED
      BY <1>16, <2>1, SingletonOnly DEF NextOf
  <1>18. walk[m + 1] = u
    BY <1>2, <1>7, <1>15, <1>17
  <1>19. m + 1 = z \/ m + 1 \in 1..(z - 1)
    BY <1>5, <1>6
  <1> QED
    BY <1>5, <1>10, <1>18, <1>19

\* A history is what Linearize returns, and there is one just when the chain is
\* linear.
LEMMA LinearMeansOneHistory ==
  ASSUME NEW n, NEW chain, NEW rank, IsChain(chain, n, rank)
  PROVE  /\ Linearize(chain) = HistoriesOf(chain)
         /\ Analyze(chain).linear <=> HistoriesOf(chain) # {}
  <1> DEFINE oneRoot == Cardinality(RootsOf(chain)) = 1
             unbroken == DanglingOf(chain) = {}
             unforked == ForksOf(chain) = {}
             endless == \A k \in DOMAIN chain : Walk(chain)[k] # 0
  <1>1. n \in Nat /\ n # 0 /\ DOMAIN chain = 1..n
    BY DEF IsChain
  <1>2. oneRoot => \E r : RootsOf(chain) = {r}
    <2>1. RootsOf(chain) \subseteq 1..n
      BY <1>1 DEF RootsOf
    <2> QED
      BY <1>1, <2>1, OnlyOne
  <1>3. oneRoot /\ endless => Walk(chain) \in HistoriesOf(chain)
    BY <1>1, <1>2, WalkIsHistory
  <1>4. oneRoot /\ unbroken /\ unforked => endless
    BY <1>1, <1>2, LinearWalks
  <1>5. ASSUME NEW order \in HistoriesOf(chain)
        PROVE  oneRoot /\ unbroken /\ unforked /\ endless /\ order = Walk(chain)
    <2>1. /\ RootsOf(chain) = {order[1]} /\ unbroken /\ unforked /\ order = Walk(chain)
      BY HistoryIsWalk
    <2>2. oneRoot
      BY <2>1, SingletonOnly
    <2> QED
      BY <1>4, <2>1, <2>2
  <1>6. Linearize(chain) = IF oneRoot /\ unbroken /\ endless THEN {Walk(chain)} ELSE {}
    BY DEF Linearize
  <1>7. Analyze(chain).linear <=> oneRoot /\ unforked /\ unbroken
    BY DEF Analyze
  <1> HIDE DEF oneRoot, unbroken, unforked, endless
  <1> QED
    BY <1>3, <1>4, <1>5, <1>6, <1>7

\* The leaves of a work are a chain: a leaf's rank is that of its hash.
LEMMA LoadedIsChain ==
  ASSUME leaves \in Leaves, byWork \in [Works -> Seq(Hashes)], Acyclic(leaves),
         NEW w \in Works, byWork[w] # << >>
  PROVE  \E rank : IsChain(Chain(w), Len(byWork[w]), rank)
  <1> DEFINE n == Len(byWork[w])
             chain == Chain(w)
  <1>1. /\ n \in Nat /\ DOMAIN chain = 1..n /\ DOMAIN byWork[w] = 1..n
        /\ \A i \in 1..n : byWork[w][i] \in Hashes /\ chain[i].hash = byWork[w][i]
    BY ChainFacts
  <1>2. n # 0
    <2>1. byWork[w] \in Seq(Hashes)
      OBVIOUS
    <2> QED
      BY <2>1
  <1>3. chain = [i \in 1..n |-> Event(byWork[w][i])]
    BY <1>1 DEF Chain
  <1>4. Len(chain) = n
    <2> DEFINE S == {Event(h) : h \in Hashes}
    <2>1. chain \in [1..n -> S]
      BY <1>1, <1>3
    <2> HIDE DEF S, chain, n
    <2> QED
      BY <1>1, <2>1, FunctionIsSeq
  <1>5. \A i \in 1..n : chain[i].prev = leaves[byWork[w][i]].prev
    BY <1>3 DEF Event
  <1>6. PICK of \in [Hashes -> 1..Cardinality(Hashes)] :
          \A h \in Hashes : leaves[h].prev # NoPrev => of[leaves[h].prev] < of[h]
    BY DEF Acyclic
  <1>7. \A h \in Hashes : of[h] \in Nat /\ h # NoPrev
    <2>1. Cardinality(Hashes) \in Nat
      BY WorkReportAssumption, FS_CardinalityType
    <2> QED
      BY <2>1, WorkReportAssumption
  <1> DEFINE rank == [i \in 1..n |-> of[byWork[w][i]]]
  <1> HIDE DEF n, chain
  <1>8. rank \in [1..n -> Nat]
    BY <1>1, <1>7
  <1>9. ASSUME NEW i \in 1..n, NEW j \in 1..n, chain[i].prev = chain[j].hash
        PROVE  rank[j] < rank[i]
    <2>1. /\ byWork[w][i] \in Hashes /\ byWork[w][j] \in Hashes
          /\ leaves[byWork[w][i]].prev = byWork[w][j]
      BY <1>1, <1>5, <1>9
    <2> QED
      BY <1>6, <1>7, <2>1
  <1>10. \A i, j \in 1..n : chain[i].hash = chain[j].hash => rank[i] = rank[j]
    BY <1>1
  <1>11. \A i \in 1..n : chain[i].hash # NoPrev
    BY <1>1, <1>7
  <1> HIDE DEF rank
  <1>12. IsChain(chain, n, rank)
    BY <1>1, <1>2, <1>4, <1>8, <1>9, <1>10, <1>11 DEF IsChain
  <1> QED
    BY <1>12 DEF chain, n

\* Of leaves none of which is its own ancestor.
LEMMA LinearIsHistory ==
  ASSUME leaves \in Leaves, byWork \in [Works -> Seq(Hashes)], Acyclic(leaves)
  PROVE  LinearMeansHistory
  <1> SUFFICES ASSUME NEW w \in Works, byWork[w] # << >>
               PROVE  /\ Linearize(Chain(w)) = HistoriesOf(Chain(w))
                      /\ Analyze(Chain(w)).linear <=> HistoriesOf(Chain(w)) # {}
    BY DEF LinearMeansHistory
  <1>1. PICK rank : IsChain(Chain(w), Len(byWork[w]), rank)
    BY LoadedIsChain
  <1> QED
    BY <1>1, LinearMeansOneHistory, Zenon

\* Whatever was loaded, Linear and Linearize agree, and mean that the events form
\* one history.
THEOREM LinearAlwaysMeansHistory == Spec => []LinearMeansHistory
  <1>1. Init => Acyclic(leaves)
    BY DEF Init
  <1>2. Acyclic(leaves) /\ [Next]_vars => Acyclic(leaves)'
    <2> SUFFICES ASSUME Acyclic(leaves), [Next]_vars
                 PROVE  Acyclic(leaves')
      OBVIOUS
    <2>1. leaves' = leaves
      BY DEF Next, Add, AddLeaf, Build, SetEventStatus, vars
    <2> QED
      BY <2>1
  <1>3. Spec => []Acyclic(leaves)
    BY <1>1, <1>2, PTL DEF Spec
  <1>4. ReportInv /\ Acyclic(leaves) => LinearMeansHistory
    BY LinearIsHistory DEF ReportInv
  <1> QED
    BY <1>3, <1>4, ReportInvariant, PTL

----------------------------------------------------------------------------
(* The verdict.                                                            *)

\* Each hash of a report has an event that carries its last answer.
LEMMA Carried ==
  ASSUME NEW r, NEW given, ReportOK(r, given), NEW h \in HashesOf(r)
  PROVE  \E i \in DOMAIN r.events :
           r.events[i].hash = h /\ r.events[i].verdict = given[h]
  <1> DEFINE at == {i \in DOMAIN r.events : r.events[i].hash = h}
  <1>1. /\ Len(r.events) \in Nat /\ DOMAIN r.events = 1..Len(r.events)
    BY SeqFacts DEF ReportOK
  <1>2. at \subseteq 1..Len(r.events) /\ at # {}
    BY <1>1 DEF HashesOf
  <1>3. PICK i \in at : \A j \in at : i <= j
    <2> HIDE DEF at
    <2> QED
      BY <1>1, <1>2, FirstExists
  <1>4. \A j \in DOMAIN r.events : j < i => r.events[j].hash # r.events[i].hash
    <2>1. \A j \in 1..Len(r.events) : j < i => ~(i <= j)
      BY <1>1, <1>2
    <2> QED
      BY <1>1, <1>3, <2>1
  <1>5. FirstCarries(r.events, given)
    BY DEF ReportOK
  <1> QED
    BY <1>3, <1>4, <1>5 DEF FirstCarries

\* A work reads VERIFIED only once each of its events was resolved, and each
\* event's last answer was VERIFIED.
THEOREM VerifiedAlwaysCleared == Spec => []VerifiedMeansCleared
  <1>1. ReportInv => VerifiedMeansCleared
    <2> SUFFICES ASSUME ReportInv, NEW r \in report, r.verdict = "VERIFIED",
                        NEW h \in HashesOf(r)
                 PROVE  answers[h] = "VERIFIED"
      BY DEF VerifiedMeansCleared
    <2>1. ReportOK(r, answers)
      BY DEF ReportInv
    <2>2. PICK i \in DOMAIN r.events :
            r.events[i].hash = h /\ r.events[i].verdict = answers[h]
      BY <2>1, Carried
    <2>3. \A j \in DOMAIN r.events : r.events[j].verdict = "VERIFIED"
      BY <2>1 DEF ReportOK, RollUp, Definite
    <2> QED
      BY <2>2, <2>3
  <1> QED
    BY <1>1, ReportInvariant, PTL

\* In a report without duplicates every event carries its hash's last answer.
LEMMA AllCarry ==
  ASSUME NEW r, NEW given, ReportOK(r, given),
         Cardinality(HashesOf(r)) = Len(r.events)
  PROVE  \A i \in DOMAIN r.events : r.events[i].verdict = given[r.events[i].hash]
  <1> DEFINE n == Len(r.events)
             f == [i \in 1..n |-> r.events[i].hash]
  <1>1. n \in Nat /\ DOMAIN r.events = 1..n
    BY SeqFacts DEF ReportOK
  <1>2. f \in Surjection(1..n, HashesOf(r))
    <2>1. f \in [1..n -> HashesOf(r)]
      BY <1>1 DEF HashesOf
    <2>2. \A h \in HashesOf(r) : \E i \in 1..n : f[i] = h
      BY <1>1 DEF HashesOf
    <2> HIDE DEF f
    <2> QED
      BY <2>1, <2>2 DEF Surjection
  <1>3. IsFiniteSet(1..n) /\ Cardinality(1..n) = n
    BY <1>1, FS_Interval
  <1>4. f \in Injection(1..n, HashesOf(r))
    <2> HIDE DEF f
    <2> QED
      BY <1>2, <1>3, FS_Surjection
  <1>5. \A i, j \in 1..n : f[i] = f[j] => i = j
    <2> HIDE DEF f
    <2> QED
      BY <1>4 DEF Injection, IsInjective
  <1>6. \A i, j \in 1..n : j < i => r.events[j].hash # r.events[i].hash
    <2>1. \A i, j \in 1..n : j < i => i # j
      BY <1>1
    <2>2. \A i \in 1..n : f[i] = r.events[i].hash
      OBVIOUS
    <2> HIDE DEF f, n
    <2> QED
      BY <1>5, <2>1, <2>2, Zenon
  <1>7. FirstCarries(r.events, given)
    BY DEF ReportOK
  <1> QED
    BY <1>1, <1>6, <1>7 DEF FirstCarries

\* A work without duplicates is at the worst of its events' last answers.
THEOREM VerdictAlwaysWorst == Spec => []VerdictIsWorst
  <1>1. ReportInv => VerdictIsWorst
    <2> SUFFICES ASSUME ReportInv, NEW r \in report,
                        Cardinality(HashesOf(r)) = Len(r.events)
                 PROVE  LET given == {answers[h] : h \in HashesOf(r)}
                        IN  /\ r.verdict = "INDETERMINATE" <=> ~(given \subseteq Definite)
                            /\ r.verdict = "WITHDRAWN"
                                 <=> "WITHDRAWN" \in given /\ given \subseteq Definite
      BY DEF VerdictIsWorst
    <2> DEFINE given == {answers[h] : h \in HashesOf(r)}
               verdicts == {r.events[i].verdict : i \in DOMAIN r.events}
    <2>1. ReportOK(r, answers)
      BY DEF ReportInv
    <2>2. \A i \in DOMAIN r.events : r.events[i].verdict = answers[r.events[i].hash]
      BY <2>1, AllCarry
    <2>3. given = verdicts
      BY <2>2 DEF HashesOf
    <2>4. r.verdict = IF ~(verdicts \subseteq Definite) THEN "INDETERMINATE"
                      ELSE IF "WITHDRAWN" \in verdicts THEN "WITHDRAWN" ELSE "VERIFIED"
      BY <2>1 DEF ReportOK, RollUp
    <2> HIDE DEF given, verdicts
    <2> QED
      BY <2>3, <2>4 DEF given
  <1> QED
    BY <1>1, ReportInvariant, PTL

----------------------------------------------------------------------------
(* A run of hiiverify.                                                     *)

\* What was loaded of a work with a given hash, and which of the files given it
\* comes from.
Loaded(s, h) == {i \in DOMAIN s : s[i] = h}

Given(fs, lvs, w, h) ==
  {i \in {k \in DOMAIN fs : fs[k].kind = "attestation" /\ lvs[fs[k].hash].work = w} :
     fs[i].hash = h}

VouchingIn(fs, root) ==
  {fs[i].binding : i \in {k \in DOMAIN fs :
     fs[k].kind = "binding" /\ fs[k].binding.issuer = root /\ fs[k].binding.signed}}

Usable(f, root) ==
  /\ f.kind # "unusable"
  /\ f.kind = "binding" /\ root \in RootKeys => f.binding.issuer = root /\ f.binding.signed

Printed ==
  /\ ~Fails
  /\ \E w \in selectWork :
       /\ report = {BuildWorkReport(Chain(w), bindings)}
       /\ outcome.work = w
       /\ flags.media = "readable" => outcome.target \in selectTarget(Chain(w))

HiiInv ==
  /\ leaves \in Leaves
  /\ byWork \in [Works -> Seq(Hashes)]
  /\ flags \in CommandLine
  /\ files \in Seq(Files)
  /\ roots = IF flags.root \in RootKeys
               THEN <<[key |-> flags.root, notAfter |-> Id!NoCutoff]>> ELSE << >>
  /\ bindings \in Seq(Id!IdentityBinding)
  /\ {bindings[i] : i \in DOMAIN bindings} = VouchingIn(files, flags.root)
  /\ \A w \in Works, h \in Hashes :
       Cardinality(Loaded(byWork[w], h)) = Cardinality(Given(files, leaves, w, h))
  /\ outcome.exit # "error" => \A i \in DOMAIN files : Usable(files[i], flags.root)
  /\ outcome.exit # "printed" => report = {}
  /\ outcome.exit = "printed" => Printed

LEMMA FileFacts ==
  ASSUME NEW f \in Files
  PROVE  /\ f.kind = "attestation" => f.hash \in Hashes
         /\ f.kind = "binding" => f.binding \in Id!IdentityBinding
  BY HiiVerifyAssumption DEF File

LEMMA Appended ==
  ASSUME NEW S, NEW s \in Seq(S), NEW e \in S
  PROVE  /\ Append(s, e) \in Seq(S) /\ Len(s) + 1 \notin DOMAIN s
         /\ DOMAIN Append(s, e) = DOMAIN s \cup {Len(s) + 1}
         /\ Append(s, e)[Len(s) + 1] = e
         /\ \A i \in DOMAIN s : Append(s, e)[i] = s[i]
  OBVIOUS

LEMMA LoadedFinite ==
  ASSUME NEW S, NEW s \in Seq(S), NEW h
  PROVE  IsFiniteSet(Loaded(s, h))
  <1>1. Len(s) \in Nat /\ DOMAIN s = 1..Len(s)
    BY SeqFacts
  <1>2. IsFiniteSet(1..Len(s)) /\ Loaded(s, h) \in SUBSET (1..Len(s))
    BY <1>1, FS_Interval DEF Loaded
  <1> QED
    BY <1>2, FS_Subset

LEMMA GivenFinite ==
  ASSUME NEW fs \in Seq(Files), NEW lvs, NEW w, NEW h
  PROVE  IsFiniteSet(Given(fs, lvs, w, h))
  <1>1. Len(fs) \in Nat /\ DOMAIN fs = 1..Len(fs)
    BY SeqFacts
  <1>2. IsFiniteSet(1..Len(fs)) /\ Given(fs, lvs, w, h) \in SUBSET (1..Len(fs))
    BY <1>1, FS_Interval DEF Given
  <1> QED
    BY <1>2, FS_Subset

LEMMA LoadedAppend ==
  ASSUME NEW s \in Seq(Hashes), NEW e \in Hashes, NEW h
  PROVE  Cardinality(Loaded(Append(s, e), h))
           = IF h = e THEN Cardinality(Loaded(s, h)) + 1 ELSE Cardinality(Loaded(s, h))
  <1>1. /\ DOMAIN Append(s, e) = DOMAIN s \cup {Len(s) + 1} /\ Len(s) + 1 \notin DOMAIN s
        /\ Append(s, e)[Len(s) + 1] = e
        /\ \A i \in DOMAIN s : Append(s, e)[i] = s[i]
    BY Appended
  <1>2. Loaded(Append(s, e), h)
          = IF h = e THEN Loaded(s, h) \cup {Len(s) + 1} ELSE Loaded(s, h)
    BY <1>1 DEF Loaded
  <1>3. Len(s) + 1 \notin Loaded(s, h)
    BY <1>1 DEF Loaded
  <1>4. IsFiniteSet(Loaded(s, h))
    BY LoadedFinite
  <1> QED
    BY <1>2, <1>3, <1>4, FS_AddElement

LEMMA GivenAppend ==
  ASSUME NEW fs \in Seq(Files), NEW f \in Files, NEW lvs, NEW w, NEW h
  PROVE  Cardinality(Given(Append(fs, f), lvs, w, h))
           = IF f.kind = "attestation" /\ f.hash = h /\ lvs[f.hash].work = w
               THEN Cardinality(Given(fs, lvs, w, h)) + 1
               ELSE Cardinality(Given(fs, lvs, w, h))
  <1>1. /\ DOMAIN Append(fs, f) = DOMAIN fs \cup {Len(fs) + 1}
        /\ Len(fs) + 1 \notin DOMAIN fs
        /\ Append(fs, f)[Len(fs) + 1] = f
        /\ \A i \in DOMAIN fs : Append(fs, f)[i] = fs[i]
    BY Appended
  <1>2. Given(Append(fs, f), lvs, w, h)
          = IF f.kind = "attestation" /\ f.hash = h /\ lvs[f.hash].work = w
              THEN Given(fs, lvs, w, h) \cup {Len(fs) + 1} ELSE Given(fs, lvs, w, h)
    BY <1>1, Zenon DEF Given
  <1>3. Len(fs) + 1 \notin Given(fs, lvs, w, h)
    BY <1>1 DEF Given
  <1>4. IsFiniteSet(Given(fs, lvs, w, h))
    BY GivenFinite
  <1> QED
    BY <1>2, <1>3, <1>4, FS_AddElement

LEMMA VouchingAppend ==
  ASSUME NEW fs \in Seq(Files), NEW f \in Files, NEW root
  PROVE  VouchingIn(Append(fs, f), root)
           = VouchingIn(fs, root)
               \cup (IF f.kind = "binding" /\ f.binding.issuer = root /\ f.binding.signed
                       THEN {f.binding} ELSE {})
  <1>1. /\ DOMAIN Append(fs, f) = DOMAIN fs \cup {Len(fs) + 1}
        /\ Append(fs, f)[Len(fs) + 1] = f
        /\ \A i \in DOMAIN fs : Append(fs, f)[i] = fs[i]
    BY Appended
  <1> DEFINE vouches(g) == /\ g.kind = "binding" /\ g.binding.issuer = root
                           /\ g.binding.signed
  <1>2. \A gs : VouchingIn(gs, root)
                  = {gs[i].binding : i \in {k \in DOMAIN gs : vouches(gs[k])}}
    BY DEF VouchingIn
  <1> HIDE DEF vouches
  <1> DEFINE kept == {k \in DOMAIN fs : vouches(fs[k])}
             kept2 == {k \in DOMAIN Append(fs, f) : vouches(Append(fs, f)[k])}
             new == IF vouches(f) THEN {f.binding} ELSE {}
  <1>3. kept2 = IF vouches(f) THEN kept \cup {Len(fs) + 1} ELSE kept
    BY <1>1
  <1>4. \A k \in kept : Append(fs, f)[k] = fs[k]
    BY <1>1
  <1>5. /\ VouchingIn(fs, root) = {fs[i].binding : i \in kept}
        /\ VouchingIn(Append(fs, f), root) = {Append(fs, f)[i].binding : i \in kept2}
    BY <1>2
  <1> HIDE DEF kept, kept2
  <1>6. {Append(fs, f)[i].binding : i \in kept2} = {fs[i].binding : i \in kept} \cup new
    BY <1>1, <1>3, <1>4, Zenon
  <1>7. VouchingIn(Append(fs, f), root) = VouchingIn(fs, root) \cup new
    BY <1>5, <1>6
  <1> QED
    BY <1>7 DEF vouches

LEMMA BindingsAppend ==
  ASSUME NEW bs \in Seq(Id!IdentityBinding), NEW b \in Id!IdentityBinding
  PROVE  {Append(bs, b)[i] : i \in DOMAIN Append(bs, b)} = {bs[i] : i \in DOMAIN bs} \cup {b}
  <1>1. /\ DOMAIN Append(bs, b) = DOMAIN bs \cup {Len(bs) + 1}
        /\ Append(bs, b)[Len(bs) + 1] = b
        /\ \A i \in DOMAIN bs : Append(bs, b)[i] = bs[i]
    BY Appended
  <1> QED
    BY <1>1, Zenon

\* The one root of a run has no cutoff: it vouches for what it issued and signed.
LEMMA OneRoot ==
  ASSUME NEW root, roots = <<[key |-> root, notAfter |-> Id!NoCutoff]>>, NEW b
  PROVE  /\ Id!Accept(b) => /\ b.issuer = root /\ b.signed
                            /\ bindings' = Append(bindings, b) /\ roots' = roots
         /\ Id!Reject(b) => /\ ~(b.issuer = root /\ b.signed)
                            /\ bindings' = bindings /\ roots' = roots
  <1>1. DOMAIN roots = {1} /\ roots[1].key = root /\ roots[1].notAfter = Id!NoCutoff
    OBVIOUS
  <1>2. CASE b.issuer = root
    <2>1. {i \in DOMAIN roots : roots[i].key = b.issuer} = {1}
      BY <1>1, <1>2
    <2>2. Id!matchRoot(b.issuer) = 1
      BY <2>1 DEF Id!matchRoot
    <2>3. ~Id!PastCutoff(b, roots[Id!matchRoot(b.issuer)])
      BY <1>1, <2>2 DEF Id!PastCutoff
    <2> QED
      BY <1>2, <2>2, <2>3
      DEF Id!Accept, Id!Reject, Id!RejectUntrusted, Id!RejectExpired, Id!RejectUnsigned
  <1>3. CASE b.issuer # root
    <2>1. {i \in DOMAIN roots : roots[i].key = b.issuer} = {}
      BY <1>1, <1>3
    <2>2. Id!matchRoot(b.issuer) = 0
      BY <2>1 DEF Id!matchRoot
    <2> QED
      BY <1>3, <2>2 DEF Id!Accept, Id!Reject
  <1> QED
    BY <1>2, <1>3

LEMMA InitHiiInv == HiiInit => HiiInv
  <1> SUFFICES ASSUME HiiInit
               PROVE  HiiInv
    OBVIOUS
  <1>1. leaves \in Leaves /\ byWork \in [Works -> Seq(Hashes)] /\ report = {}
    <2>1. Init
      BY DEF HiiInit
    <2> QED
      BY <2>1, InitReportInv DEF Init, ReportInv
  <1>2. /\ files = << >> /\ bindings = << >> /\ flags \in Flags
        /\ outcome.exit = "running"
        /\ roots = IF flags.root \in RootKeys
                     THEN <<[key |-> flags.root, notAfter |-> Id!NoCutoff]>> ELSE << >>
    BY DEF HiiInit, NoReport
  <1>3. /\ files \in Seq(Files) /\ DOMAIN files = {}
        /\ bindings \in Seq(Id!IdentityBinding) /\ DOMAIN bindings = {}
    BY <1>2
  <1>4. flags \in CommandLine
    BY <1>2, HiiVerifyAssumption
  <1>5. {bindings[i] : i \in DOMAIN bindings} = VouchingIn(files, flags.root)
    BY <1>3 DEF VouchingIn
  <1>6. ASSUME NEW w \in Works, NEW h \in Hashes
        PROVE  Cardinality(Loaded(byWork[w], h)) = Cardinality(Given(files, leaves, w, h))
    <2>1. byWork[w] = << >>
      BY DEF HiiInit, Init
    <2>2. DOMAIN byWork[w] = {}
      BY <2>1
    <2>3. Loaded(byWork[w], h) = {} /\ Given(files, leaves, w, h) = {}
      BY <1>3, <2>2 DEF Loaded, Given
    <2> QED
      BY <2>3
  <1> QED
    BY <1>1, <1>2, <1>3, <1>4, <1>5, <1>6 DEF HiiInv

\* What a file does to the resolver.
LEMMA IngestBindings ==
  ASSUME HiiInv, NEW f \in Files, files' = Append(files, f), flags' = flags,
         IngestAttestation(f) \/ IngestBinding(f) \/ IngestUnusable(f)
  PROVE  /\ roots' = roots /\ bindings' \in Seq(Id!IdentityBinding)
         /\ {bindings'[i] : i \in DOMAIN bindings'} = VouchingIn(files', flags'.root)
  <1>1. files \in Seq(Files) /\ bindings \in Seq(Id!IdentityBinding)
    BY DEF HiiInv
  <1>2. VouchingIn(files', flags'.root)
          = VouchingIn(files, flags.root)
              \cup (IF f.kind = "binding" /\ f.binding.issuer = flags.root /\ f.binding.signed
                      THEN {f.binding} ELSE {})
    BY <1>1, VouchingAppend
  <1>3. {bindings[i] : i \in DOMAIN bindings} = VouchingIn(files, flags.root)
    BY DEF HiiInv
  <1>4. ASSUME f.kind # "binding", UNCHANGED <<roots, bindings>>
        PROVE  /\ roots' = roots /\ bindings' \in Seq(Id!IdentityBinding)
               /\ {bindings'[i] : i \in DOMAIN bindings'} = VouchingIn(files', flags'.root)
    BY <1>1, <1>2, <1>3, <1>4
  <1>5. ASSUME f.kind = "binding", roots = << >>, UNCHANGED <<roots, bindings>>
        PROVE  /\ roots' = roots /\ bindings' \in Seq(Id!IdentityBinding)
               /\ {bindings'[i] : i \in DOMAIN bindings'} = VouchingIn(files', flags'.root)
    <2>1. flags.root \notin RootKeys
      <3>1. flags.root \in RootKeys => Len(roots) = 1
        BY DEF HiiInv
      <3> QED
        BY <1>5, <3>1
    <2>2. f.binding.issuer \in RootKeys
      BY <1>5, FileFacts DEF Id!IdentityBinding
    <2> QED
      BY <1>1, <1>2, <1>3, <1>5, <2>1, <2>2
  <1>6. ASSUME f.kind = "binding", roots # << >>, Id!Accept(f.binding) \/ Id!Reject(f.binding)
        PROVE  /\ roots' = roots /\ bindings' \in Seq(Id!IdentityBinding)
               /\ {bindings'[i] : i \in DOMAIN bindings'} = VouchingIn(files', flags'.root)
    <2>1. roots = <<[key |-> flags.root, notAfter |-> Id!NoCutoff]>>
      BY <1>6 DEF HiiInv
    <2>2. f.binding \in Id!IdentityBinding
      BY <1>6, FileFacts
    <2>3. CASE Id!Accept(f.binding)
      <3>1. /\ f.binding.issuer = flags.root /\ f.binding.signed
            /\ bindings' = Append(bindings, f.binding) /\ roots' = roots
        BY <2>1, <2>3, OneRoot
      <3>2. bindings' \in Seq(Id!IdentityBinding)
        BY <1>1, <2>2, <3>1
      <3>3. {bindings'[i] : i \in DOMAIN bindings'}
              = {bindings[i] : i \in DOMAIN bindings} \cup {f.binding}
        BY <1>1, <2>2, <3>1, BindingsAppend
      <3> QED
        BY <1>2, <1>3, <1>6, <3>1, <3>2, <3>3
    <2>4. CASE Id!Reject(f.binding)
      <3>1. /\ ~(f.binding.issuer = flags.root /\ f.binding.signed)
            /\ bindings' = bindings /\ roots' = roots
        BY <2>1, <2>4, OneRoot
      <3> QED
        BY <1>1, <1>2, <1>3, <3>1
    <2> QED
      BY <1>6, <2>3, <2>4
  <1>7. CASE IngestAttestation(f)
    BY <1>4, <1>7 DEF IngestAttestation
  <1>8. CASE IngestBinding(f)
    BY <1>5, <1>6, <1>8 DEF IngestBinding
  <1>9. CASE IngestUnusable(f)
    BY <1>4, <1>9 DEF IngestUnusable
  <1> QED
    BY <1>7, <1>8, <1>9

\* What a file does to the index.
LEMMA IngestCounts ==
  ASSUME HiiInv, NEW f \in Files, files' = Append(files, f),
         IngestAttestation(f) \/ IngestBinding(f) \/ IngestUnusable(f)
  PROVE  /\ leaves' = leaves /\ byWork' \in [Works -> Seq(Hashes)]
         /\ \A w \in Works, h \in Hashes :
              Cardinality(Loaded(byWork'[w], h)) = Cardinality(Given(files', leaves', w, h))
  <1>1. /\ files \in Seq(Files) /\ leaves \in Leaves
        /\ byWork \in [Works -> Seq(Hashes)]
        /\ \A w \in Works, h \in Hashes :
             Cardinality(Loaded(byWork[w], h)) = Cardinality(Given(files, leaves, w, h))
    BY DEF HiiInv
  <1>2. \A w, h : Cardinality(Given(files', leaves, w, h))
                    = IF f.kind = "attestation" /\ f.hash = h /\ leaves[f.hash].work = w
                        THEN Cardinality(Given(files, leaves, w, h)) + 1
                        ELSE Cardinality(Given(files, leaves, w, h))
    BY <1>1, GivenAppend
  <1>3. CASE f.kind # "attestation"
    <2>1. leaves' = leaves /\ byWork' = byWork
      BY <1>3 DEF IngestAttestation, IngestBinding, IngestUnusable, vars
    <2> QED
      BY <1>1, <1>2, <1>3, <2>1
  <1>4. CASE f.kind = "attestation"
    <2> DEFINE work == leaves[f.hash].work
    <2>1. f.hash \in Hashes /\ work \in Works
      BY <1>1, <1>4, FileFacts DEF Leaves
    <2>2. AddLeaf(f.hash)
      BY <1>4 DEF IngestAttestation, IngestBinding, IngestUnusable
    <2>3. byWork' \in [Works -> Seq(Hashes)] /\ leaves' = leaves
      BY <1>1, <2>1, <2>2, AddLeafKeeps
    <2>4. byWork' = [byWork EXCEPT ![work] = Append(byWork[work], f.hash)]
      BY <2>2 DEF AddLeaf
    <2> HIDE DEF work
    <2>5. ASSUME NEW w \in Works, NEW h \in Hashes
          PROVE  Cardinality(Loaded(byWork'[w], h)) = Cardinality(Given(files', leaves, w, h))
      <3>1. CASE w = work
        <4>1. byWork'[w] = Append(byWork[w], f.hash) /\ byWork[w] \in Seq(Hashes)
          BY <1>1, <2>4, <3>1
        <4>2. Cardinality(Loaded(byWork'[w], h))
                = IF h = f.hash THEN Cardinality(Loaded(byWork[w], h)) + 1
                                ELSE Cardinality(Loaded(byWork[w], h))
          BY <2>1, <4>1, LoadedAppend
        <4>3. Cardinality(Loaded(byWork[w], h)) = Cardinality(Given(files, leaves, w, h))
          BY <1>1
        <4>4. leaves[f.hash].work = w
          BY <3>1 DEF work
        <4> QED
          BY <1>2, <1>4, <4>2, <4>3, <4>4
      <3>2. CASE w # work
        <4>1. byWork'[w] = byWork[w]
          BY <1>1, <2>4, <3>2
        <4>2. leaves[f.hash].work # w
          BY <3>2 DEF work
        <4> QED
          BY <1>1, <1>2, <4>1, <4>2
      <3> QED
        BY <3>1, <3>2
    <2> QED
      BY <2>3, <2>5
  <1> QED
    BY <1>3, <1>4

\* A run goes on only with files it could use.
LEMMA IngestUsable ==
  ASSUME HiiInv, NEW f \in Files, files' = Append(files, f), flags' = flags,
         outcome.exit = "running",
         IngestAttestation(f) \/ IngestBinding(f) \/ IngestUnusable(f)
  PROVE  /\ outcome'.exit = "error" \/ outcome' = outcome
         /\ outcome'.exit # "error" =>
              \A i \in DOMAIN files' : Usable(files'[i], flags'.root)
  <1>1. /\ files \in Seq(Files)
        /\ \A i \in DOMAIN files : Usable(files[i], flags.root)
    BY DEF HiiInv
  <1>2. /\ DOMAIN files' = DOMAIN files \cup {Len(files) + 1}
        /\ files'[Len(files) + 1] = f
        /\ \A i \in DOMAIN files : files'[i] = files[i]
    BY <1>1, Appended
  <1>3. Fail => outcome'.exit = "error"
    BY DEF Fail, NoReport
  <1>4. CASE IngestAttestation(f)
    <2>1. outcome' = outcome /\ Usable(f, flags.root)
      BY <1>4 DEF IngestAttestation, Usable
    <2> QED
      BY <1>1, <1>2, <2>1
  <1>5. CASE IngestUnusable(f)
    BY <1>3, <1>5 DEF IngestUnusable
  <1>6. CASE IngestBinding(f) /\ roots = << >>
    <2>1. flags.root \notin RootKeys
      <3>1. flags.root \in RootKeys => Len(roots) = 1
        BY DEF HiiInv
      <3> QED
        BY <1>6, <3>1
    <2>2. outcome' = outcome /\ Usable(f, flags.root)
      BY <1>6, <2>1 DEF IngestBinding, Usable
    <2> QED
      BY <1>1, <1>2, <2>2
  <1>7. CASE IngestBinding(f) /\ roots # << >>
    <2>1. roots = <<[key |-> flags.root, notAfter |-> Id!NoCutoff]>>
      BY <1>7 DEF HiiInv
    <2>2. CASE Id!Accept(f.binding) /\ outcome' = outcome
      <3>1. f.binding.issuer = flags.root /\ f.binding.signed
        BY <2>1, <2>2, OneRoot
      <3>2. Usable(f, flags.root)
        BY <1>7, <3>1 DEF IngestBinding, Usable
      <3> QED
        BY <1>1, <1>2, <2>2, <3>2
    <2>3. CASE Fail
      BY <1>3, <2>3
    <2> QED
      BY <1>7, <2>2, <2>3 DEF IngestBinding
  <1> QED
    BY <1>4, <1>5, <1>6, <1>7

LEMMA NextHiiInv == HiiInv /\ [HiiNext]_<<vars, hiiVars>> => HiiInv'
  <1> SUFFICES ASSUME HiiInv, [HiiNext]_<<vars, hiiVars>>
               PROVE  HiiInv'
    OBVIOUS
  <1>1. CASE Ingest
    <2>1. PICK f \in Files :
            /\ files' = Append(files, f)
            /\ IngestAttestation(f) \/ IngestBinding(f) \/ IngestUnusable(f)
      BY <1>1 DEF Ingest
    <2>2. flags' = flags /\ outcome.exit = "running"
      BY <1>1 DEF Ingest
    <2>3. files' \in Seq(Files)
      BY <2>1 DEF HiiInv
    <2>4. report = {} /\ report' = report
      BY <2>1, <2>2 DEF HiiInv, IngestAttestation, IngestBinding, IngestUnusable, AddLeaf, vars
    <2>5. /\ roots' = roots /\ bindings' \in Seq(Id!IdentityBinding)
          /\ {bindings'[i] : i \in DOMAIN bindings'} = VouchingIn(files', flags'.root)
      BY <2>1, <2>2, IngestBindings
    <2>6. /\ leaves' = leaves /\ byWork' \in [Works -> Seq(Hashes)]
          /\ \A w \in Works, h \in Hashes :
               Cardinality(Loaded(byWork'[w], h)) = Cardinality(Given(files', leaves', w, h))
      BY <2>1, IngestCounts
    <2>7. /\ outcome'.exit = "error" \/ outcome' = outcome
          /\ outcome'.exit # "error" =>
               \A i \in DOMAIN files' : Usable(files'[i], flags'.root)
      BY <2>1, <2>2, IngestUsable
    <2>8. outcome'.exit # "printed"
      BY <2>2, <2>7
    <2> QED
      BY <2>2, <2>3, <2>4, <2>5, <2>6, <2>7, <2>8 DEF HiiInv
  <1>2. CASE Finish
    <2>1. UNCHANGED <<leaves, byWork, flags, files, roots, bindings>>
      BY <1>2 DEF Finish
    <2>2. outcome.exit = "running" /\ report = {}
      BY <1>2 DEF Finish, HiiInv
    <2>3. CASE Fails /\ Fail /\ UNCHANGED report
      <3>1. outcome'.exit = "error"
        BY <2>3 DEF Fail, NoReport
      <3> QED
        BY <2>1, <2>2, <2>3, <3>1 DEF HiiInv
    <2>4. ASSUME ~Fails, NEW w \in selectWork, report' = {BuildWorkReport(Chain(w), bindings)},
                 \/ /\ flags.media = "none"
                    /\ outcome' = [exit |-> "printed", work |-> w, target |-> 0]
                 \/ /\ flags.media = "readable"
                    /\ \E h \in selectTarget(Chain(w)) :
                         outcome' = [exit |-> "printed", work |-> w, target |-> h]
          PROVE  HiiInv'
      <3>1. /\ outcome'.exit = "printed" /\ outcome'.work = w
            /\ flags.media = "readable" => outcome'.target \in selectTarget(Chain(w))
        BY <2>4
      <3>2. Fails' = Fails /\ selectWork' = selectWork
        BY <2>1 DEF Fails, selectWork, selectTarget, Chain, Event
      <3>3. Chain(w)' = Chain(w)
        BY <2>1 DEF Chain, Event
      <3>4. BuildWorkReport(Chain(w), bindings)' = BuildWorkReport(Chain(w), bindings)
        BY <2>1, <3>3 DEF BuildWorkReport, VerifyEvent
      <3>5. selectTarget(Chain(w))' = selectTarget(Chain(w))
        BY <2>1, <3>3 DEF selectTarget
      <3>6. Printed'
        BY <2>1, <2>4, <3>1, <3>2, <3>4, <3>5 DEF Printed
      <3> QED
        BY <2>1, <2>2, <3>1, <3>6 DEF HiiInv
    <2> QED
      BY <1>2, <2>3, <2>4 DEF Finish
  <1>3. CASE UNCHANGED <<vars, hiiVars>>
    <2>1. /\ UNCHANGED <<leaves, byWork, report, flags, files, roots, bindings>>
          /\ outcome' = outcome
      BY <1>3 DEF vars, hiiVars
    <2>2. Fails' = Fails /\ selectWork' = selectWork
      BY <2>1 DEF Fails, selectWork, selectTarget, Chain, Event
    <2>3. \A w : /\ Chain(w)' = Chain(w)
                 /\ BuildWorkReport(Chain(w), bindings)' = BuildWorkReport(Chain(w), bindings)
                 /\ selectTarget(Chain(w))' = selectTarget(Chain(w))
      BY <2>1 DEF Chain, Event, BuildWorkReport, VerifyEvent, selectTarget
    <2>4. Printed' = Printed
      BY <2>1, <2>2, <2>3 DEF Printed
    <2> QED
      BY <2>1, <2>4 DEF HiiInv
  <1> QED
    BY <1>1, <1>2, <1>3 DEF HiiNext

\* Whatever the command line and the files: the bindings of the Resolver are those
\* of the files that the root vouches for, the index holds each work's attestations
\* as often as they were given, and a report is built of them or not at all.
THEOREM HiiInvariant == HiiSpec => []HiiInv
  BY InitHiiInv, NextHiiInv, PTL DEF HiiSpec

\* Resolve finds a latest binding of those in effect, if there is one.
LEMMA ResolveFinds ==
  ASSUME NEW bs \in Seq(Id!IdentityBinding), NEW k, NEW at
  PROVE  LET shown == Id!Resolve(bs, k, at)
             valid == {b \in {bs[i] : i \in DOMAIN bs} : b.key = k /\ b.validFrom <= at}
         IN  /\ shown \subseteq valid
             /\ shown = {} => valid = {}
             /\ \A b \in shown, v \in valid : v.validFrom <= b.validFrom
  <1> DEFINE valid == {b \in {bs[i] : i \in DOMAIN bs} : b.key = k /\ b.validFrom <= at}
             S == Id!Eligible(bs, k, at)
             from == [i \in S |-> bs[i].validFrom]
             best == Id!Best(bs, S)
  <1>1. valid = {bs[i] : i \in S}
    BY DEF Id!Eligible
  <1>2. CASE S = {}
    <2>1. Id!Resolve(bs, k, at) = {}
      BY <1>2 DEF Id!Resolve
    <2> QED
      BY <1>1, <1>2, <2>1
  <1>3. CASE S # {}
    <2>1. Len(bs) \in Nat /\ DOMAIN bs = 1..Len(bs)
      BY SeqFacts
    <2>2. S \subseteq Nat /\ IsFiniteSet(S)
      <3>1. IsFiniteSet(1..Len(bs)) /\ S \in SUBSET (1..Len(bs))
        <4>1. S \in SUBSET (1..Len(bs))
          BY <2>1, Zenon DEF Id!Eligible
        <4>2. IsFiniteSet(1..Len(bs))
          BY <2>1, FS_Interval
        <4> QED
          BY <4>1, <4>2
      <3>2. S \subseteq Nat
        BY <2>1, <3>1
      <3> QED
        BY <3>1, <3>2, FS_Subset
    <2>3. \A i \in S : bs[i].validFrom \in Nat
      <3>1. \A i \in S : bs[i] \in Id!IdentityBinding
        BY DEF Id!Eligible
      <3>2. Times \subseteq Nat
        BY HiiVerifyAssumption DEF Id!IdentityAssumption
      <3> QED
        BY <3>1, <3>2 DEF Id!IdentityBinding
    <2>4. \E i \in S : IsFirstGreatest(i, S, from)
      <3>1. from \in [S -> Nat]
        BY <2>3
      <3> HIDE DEF S, from
      <3> QED
        BY <1>3, <2>2, <3>1, FirstGreatestExists
    <2>5. \E i \in S : \A j \in S : \/ bs[j].validFrom < bs[i].validFrom
                                    \/ bs[j].validFrom = bs[i].validFrom /\ i <= j
      BY <2>4 DEF IsFirstGreatest
    <2>6. /\ best \in S
          /\ \A j \in S : \/ bs[j].validFrom < bs[best].validFrom
                          \/ bs[j].validFrom = bs[best].validFrom /\ best <= j
      <3> HIDE DEF S
      <3> QED
        BY <2>5 DEF Id!Best
    <2>7. Id!Resolve(bs, k, at) = {bs[best]}
      BY <1>3 DEF Id!Resolve
    <2> HIDE DEF best, S, valid
    <2>8. \A j \in S : bs[j].validFrom <= bs[best].validFrom
      BY <2>3, <2>6
    <2>9. /\ {bs[best]} \subseteq valid
          /\ \A b \in {bs[best]}, v \in valid : v.validFrom <= b.validFrom
      BY <1>1, <2>6, <2>8
    <2> QED
      BY <2>7, <2>9 DEF valid
  <1> QED
    BY <1>2, <1>3

\* The order of the bindings does not show in what is resolved, unless two
\* different bindings of a key are valid from the same time.
LEMMA ResolveOrderFree ==
  ASSUME NEW bs \in Seq(Id!IdentityBinding), NEW q \in Orders(DOMAIN bs), NEW k, NEW at,
         \A i, j \in DOMAIN bs :
           bs[i].key = bs[j].key /\ bs[i].validFrom = bs[j].validFrom => bs[i] = bs[j]
  PROVE  Id!Resolve(Id!Permuted(bs, q), k, at) = Id!Resolve(bs, k, at)
  <1> DEFINE n == Len(bs)
             ps == Id!Permuted(bs, q)
             valid(s) == {b \in {s[i] : i \in DOMAIN s} : b.key = k /\ b.validFrom <= at}
  <1>1. n \in Nat /\ DOMAIN bs = 1..n /\ bs \in [1..n -> Id!IdentityBinding]
    BY SeqFacts
  <1>2. q \in [1..n -> 1..n] /\ \A i, j \in 1..n : q[i] = q[j] => i = j
    BY <1>1 DEF Orders
  <1>3. \A j \in 1..n : \E i \in 1..n : q[i] = j
    <2> HIDE DEF n
    <2>1. q \in Injection(1..n, 1..n)
      BY <1>2 DEF Injection, IsInjective
    <2>2. q \in Surjection(1..n, 1..n)
      BY <1>1, <2>1, FS_Interval, FS_Injection
    <2> QED
      BY <2>2 DEF Surjection
  <1>4. ps = [i \in 1..n |-> bs[q[i]]]
    BY <1>1 DEF Id!Permuted
  <1>5. ps \in Seq(Id!IdentityBinding) /\ DOMAIN ps = 1..n
    <2>1. ps \in [1..n -> Id!IdentityBinding]
      BY <1>1, <1>2, <1>4
    <2> HIDE DEF ps, n
    <2> QED
      BY <1>1, <2>1, FunctionIsSeq
  <1> HIDE DEF ps, n
  <1>6. {ps[i] : i \in DOMAIN ps} = {bs[i] : i \in DOMAIN bs}
    <2>1. \A i \in 1..n : ps[i] = bs[q[i]] /\ q[i] \in 1..n
      BY <1>2, <1>4
    <2>2. \A j \in 1..n : \E i \in 1..n : ps[i] = bs[j]
      BY <1>3, <2>1
    <2>3. ASSUME NEW i \in DOMAIN ps
          PROVE  ps[i] \in {bs[j] : j \in DOMAIN bs}
      BY <1>1, <1>5, <2>1
    <2>4. ASSUME NEW j \in DOMAIN bs
          PROVE  bs[j] \in {ps[i] : i \in DOMAIN ps}
      BY <1>1, <1>5, <2>2
    <2> QED
      BY <2>3, <2>4
  <1> DEFINE found == Id!Resolve(bs, k, at)
             other == Id!Resolve(ps, k, at)
  <1>7. /\ found \subseteq valid(bs)
        /\ found = {} => valid(bs) = {}
        /\ \A b \in found, v \in valid(bs) : v.validFrom <= b.validFrom
    BY ResolveFinds
  <1>8. /\ other \subseteq valid(bs)
        /\ other = {} => valid(bs) = {}
        /\ \A b \in other, v \in valid(bs) : v.validFrom <= b.validFrom
    BY <1>5, <1>6, ResolveFinds
  <1>9. /\ found = {} \/ \E b : found = {b}
        /\ other = {} \/ \E b : other = {b}
    BY DEF Id!Resolve
  <1>10. \A v \in valid(bs) : v.validFrom \in Nat
    <2>1. \A v \in valid(bs) : v \in Id!IdentityBinding
      BY <1>1
    <2>2. Times \subseteq Nat
      BY HiiVerifyAssumption DEF Id!IdentityAssumption
    <2> HIDE DEF valid
    <2> QED
      BY <2>1, <2>2 DEF Id!IdentityBinding
  <1>11. \A b, c \in valid(bs) : b.validFrom = c.validFrom => b = c
    BY <1>1
  <1> HIDE DEF found, other, valid
  <1>12. \A b \in found, c \in other : b = c
    BY <1>7, <1>8, <1>10, <1>11
  <1>13. found = {} <=> other = {}
    BY <1>7, <1>8
  <1>14. found = other
    BY <1>9, <1>12, <1>13
  <1> QED
    BY <1>14 DEF found, other, ps

\* However the files of a run are ordered, what it prints of a work is the same, as
\* long as no two different bindings of a key are valid from the same time.
THEOREM PrintedAlwaysOrderFree == HiiSpec => []PrintedOrderFree
  <1>1. HiiInv => PrintedOrderFree
    <2> SUFFICES ASSUME HiiInv, report = {},
                        \A i, j \in DOMAIN bindings :
                          bindings[i].key = bindings[j].key
                            /\ bindings[i].validFrom = bindings[j].validFrom
                            => bindings[i] = bindings[j],
                        NEW w \in Works, NEW p \in Orders(DOMAIN byWork[w]),
                        NEW q \in Orders(DOMAIN bindings)
                 PROVE  BuildWorkReport([i \in DOMAIN byWork[w] |-> Chain(w)[p[i]]],
                                        Id!Permuted(bindings, q))
                          = BuildWorkReport(Chain(w), bindings)
      BY DEF PrintedOrderFree
    <2> DEFINE mixed == [i \in DOMAIN byWork[w] |-> Chain(w)[p[i]]]
               swapped == Id!Permuted(bindings, q)
    <2>1. ReportOn(mixed) = ReportOn(Chain(w))
      BY OneReportAtAll DEF OrderFree, HiiInv
    <2>2. bindings \in Seq(Id!IdentityBinding)
      BY DEF HiiInv
    <2>3. \A k, at : Id!Resolve(swapped, k, at) = Id!Resolve(bindings, k, at)
      BY <2>2, ResolveOrderFree
    <2> HIDE DEF mixed, swapped
    <2>4. \A h : VerifyEvent(h, swapped) = VerifyEvent(h, bindings)
      BY <2>3 DEF VerifyEvent
    <2>5. BuildWorkReport(mixed, swapped) = BuildWorkReport(Chain(w), bindings)
      BY <2>1, <2>4 DEF BuildWorkReport
    <2> QED
      BY <2>5 DEF mixed, swapped
  <1> QED
    BY <1>1, HiiInvariant, PTL

\* The events of a printed report, and what each shows.
LEMMA PrintedEvents ==
  ASSUME leaves \in Leaves, byWork \in [Works -> Seq(Hashes)], NEW w \in Works
  PROVE  LET n == Len(byWork[w])
             r == BuildWorkReport(Chain(w), bindings)
         IN  /\ DOMAIN r.events = 1..n
             /\ r.verdict = ReportOn(Chain(w)).verdict
             /\ \E perm \in Bijection(1..n, 1..n) :
                  \A i \in 1..n :
                    /\ r.events[i].hash = byWork[w][perm[i]]
                    /\ r.events[i].identity = VerifyEvent(byWork[w][perm[i]], bindings).identity
  <1> DEFINE n == Len(byWork[w])
             chain == Chain(w)
             plain == ReportOn(chain)
             r == BuildWorkReport(chain, bindings)
             shown(e) == [hash |-> e.hash, verdict |-> e.verdict,
                          signature |-> VerifyEvent(e.hash, bindings).signature,
                          identity |-> VerifyEvent(e.hash, bindings).identity]
             events == [i \in DOMAIN plain.events |-> shown(plain.events[i])]
  <1>1. PICK perm \in Bijection(1..n, 1..n) :
          plain.events = [i \in 1..n |-> [hash |-> byWork[w][perm[i]], verdict |-> ""]]
    BY ReportEvents
  <1>2. DOMAIN plain = {"events", "verdict", "chain"}
    BY DEF ReportOn
  <1>3. r = [plain EXCEPT !.events = events]
    BY DEF BuildWorkReport
  <1> HIDE DEF plain, n
  <1>4. DOMAIN plain.events = 1..n
    BY <1>1
  <1>5. \A i \in 1..n : plain.events[i].hash = byWork[w][perm[i]]
    <2>1. \A i \in 1..n : plain.events[i] = [hash |-> byWork[w][perm[i]], verdict |-> ""]
      BY <1>1
    <2>2. \A h : [hash |-> h, verdict |-> ""].hash = h
      OBVIOUS
    <2> QED
      BY <2>1, <2>2
  <1>6. \A i \in 1..n : /\ events[i].hash = plain.events[i].hash
                        /\ events[i].identity = VerifyEvent(plain.events[i].hash, bindings).identity
    BY <1>4
  <1>7. DOMAIN events = 1..n
    BY <1>4
  <1> HIDE DEF events, r
  <1>8. r.events = events /\ r.verdict = plain.verdict
    BY <1>2, <1>3
  <1> QED
    BY <1>5, <1>6, <1>7, <1>8 DEF r, plain, n

\* What is known of the report and the work of a run that has printed.
LEMMA PrintedReport ==
  ASSUME HiiInv, outcome.exit = "printed"
  PROVE  /\ ~Fails
         /\ outcome.work \in Works /\ outcome.work \in selectWork
         /\ byWork[outcome.work] # << >>
         /\ report = {BuildWorkReport(Chain(outcome.work), bindings)}
         /\ flags.media = "readable" => outcome.target \in selectTarget(Chain(outcome.work))
  <1>1. Printed
    BY DEF HiiInv
  <1>2. selectWork \subseteq {w \in Works : byWork[w] # << >>}
    BY DEF selectWork
  <1> QED
    BY <1>1, <1>2 DEF Printed

\* An event is shown under the identity the root bound its signer to when it was
\* submitted, whatever the order of the files.
THEOREM IdentityAlwaysRootSigned == HiiSpec => []IdentityIsRootSigned
  <1>1. HiiInv => IdentityIsRootSigned
    <2> SUFFICES ASSUME HiiInv, outcome.exit = "printed",
                        NEW r \in report, NEW i \in DOMAIN r.events
                 PROVE  LET claim == Claims[r.events[i].hash]
                            valid == {b \in Vouching : b.key = claim.signer
                                                         /\ b.validFrom <= claim.submittedAt}
                            shown == r.events[i].identity
                        IN  /\ shown \subseteq valid
                            /\ shown = {} => valid = {}
                            /\ \A b \in shown, v \in valid : v.validFrom <= b.validFrom
      BY DEF IdentityIsRootSigned
    <2> DEFINE work == outcome.work
               n == Len(byWork[work])
    <2>1. work \in Works /\ r = BuildWorkReport(Chain(work), bindings)
      BY PrintedReport
    <2>2. /\ DOMAIN r.events = 1..n
          /\ \E perm \in Bijection(1..n, 1..n) :
               \A j \in 1..n :
                 /\ r.events[j].hash = byWork[work][perm[j]]
                 /\ r.events[j].identity = VerifyEvent(byWork[work][perm[j]], bindings).identity
      BY <2>1, PrintedEvents DEF HiiInv
    <2> HIDE DEF work, n
    <2> DEFINE h == r.events[i].hash
               claim == Claims[h]
               shown == r.events[i].identity
    <2>3. shown = VerifyEvent(h, bindings).identity
      BY <2>2
    <2>4. Vouching = VouchingIn(files, flags.root)
      BY DEF Vouching, VouchingIn
    <2>5. /\ bindings \in Seq(Id!IdentityBinding)
          /\ {bindings[k] : k \in DOMAIN bindings} = Vouching
      BY <2>4 DEF HiiInv
    <2> DEFINE valid == {b \in Vouching : b.key = claim.signer
                                            /\ b.validFrom <= claim.submittedAt}
    <2>6. CASE roots = << >>
      <3>1. flags.root \notin RootKeys
        <4>1. flags.root \in RootKeys => Len(roots) = 1
          BY DEF HiiInv
        <4> QED
          BY <2>6, <4>1
      <3>2. Vouching = {}
        <4>1. \A k \in DOMAIN files :
                files[k].kind = "binding" => files[k].binding.issuer \in RootKeys
          <5>1. \A k \in DOMAIN files : files[k] \in Files
            BY DEF HiiInv
          <5> QED
            BY <5>1, FileFacts DEF Id!IdentityBinding
        <4> QED
          BY <3>1, <4>1 DEF Vouching
      <3>3. shown = {}
        BY <2>3, <2>6 DEF VerifyEvent
      <3> QED
        BY <3>2, <3>3
    <2>7. CASE roots # << >>
      <3>1. shown = Id!Resolve(bindings, claim.signer, claim.submittedAt)
        BY <2>3, <2>7 DEF VerifyEvent
      <3> HIDE DEF shown, claim
      <3>2. /\ shown \subseteq valid
            /\ shown = {} => valid = {}
            /\ \A b \in shown, v \in valid : v.validFrom <= b.validFrom
        BY <2>5, <3>1, ResolveFinds
      <3> QED
        BY <3>2 DEF shown, claim
    <2> QED
      BY <2>6, <2>7
  <1> QED
    BY <1>1, HiiInvariant, PTL

\* Each hash is in a report as often as it was loaded.
LEMMA PrintedCounts ==
  ASSUME leaves \in Leaves, byWork \in [Works -> Seq(Hashes)], NEW w \in Works, NEW h
  PROVE  LET r == BuildWorkReport(Chain(w), bindings)
         IN  Cardinality({i \in DOMAIN r.events : r.events[i].hash = h})
               = Cardinality(Loaded(byWork[w], h))
  <1> DEFINE n == Len(byWork[w])
             s == byWork[w]
             r == BuildWorkReport(Chain(w), bindings)
             shown == {i \in DOMAIN r.events : r.events[i].hash = h}
  <1>1. DOMAIN r.events = 1..n
    BY PrintedEvents
  <1>2. PICK perm \in Bijection(1..n, 1..n) :
          \A i \in 1..n : r.events[i].hash = s[perm[i]]
    BY PrintedEvents
  <1>3. DOMAIN s = 1..n
    BY ChainFacts
  <1>4. IsFiniteSet(Loaded(s, h))
    <2>1. s \in Seq(Hashes)
      OBVIOUS
    <2> QED
      BY <2>1, LoadedFinite
  <1> HIDE DEF n, s, r
  <1>5. /\ \A i \in 1..n : perm[i] \in 1..n
        /\ \A i, j \in 1..n : perm[i] = perm[j] => i = j
        /\ \A m \in 1..n : \E i \in 1..n : perm[i] = m
    BY DEF Bijection, Injection, Surjection, IsInjective
  <1> DEFINE match == [i \in shown |-> perm[i]]
  <1>6. \A i \in shown : i \in 1..n /\ s[perm[i]] = h
    BY <1>1, <1>2
  <1>7. match \in [shown -> Loaded(s, h)]
    BY <1>3, <1>5, <1>6 DEF Loaded
  <1>8. \A i, j \in shown : match[i] = match[j] => i = j
    BY <1>5, <1>6
  <1>9. \A m \in Loaded(s, h) : \E i \in shown : match[i] = m
    <2> SUFFICES ASSUME NEW m \in Loaded(s, h)
                 PROVE  \E i \in shown : match[i] = m
      OBVIOUS
    <2>1. m \in 1..n /\ s[m] = h
      BY <1>3 DEF Loaded
    <2>2. PICK i \in 1..n : perm[i] = m
      BY <1>5, <2>1
    <2>3. i \in shown
      BY <1>1, <1>2, <2>1, <2>2
    <2>4. match[i] = m
      BY <2>2, <2>3
    <2> QED
      BY <2>3, <2>4
  <1> HIDE DEF match, shown
  <1>10. match \in Bijection(shown, Loaded(s, h))
    BY <1>7, <1>8, <1>9 DEF Bijection, Injection, Surjection, IsInjective
  <1>11. match \in Injection(shown, Loaded(s, h)) /\ match \in Surjection(shown, Loaded(s, h))
    BY <1>10 DEF Bijection
  <1>12. Cardinality(shown) = Cardinality(Loaded(s, h))
    BY <1>4, <1>11, FS_Injection
  <1> QED
    BY <1>12 DEF shown, r, s

\* A hash is in the index of a work just when a file of the work has it.
LEMMA LoadedFrom ==
  ASSUME HiiInv, NEW w \in Works, NEW h \in Hashes
  PROVE  (\E k \in DOMAIN byWork[w] : byWork[w][k] = h)
           <=> \E i \in FilesOf(w) : files[i].hash = h
  <1>1. Cardinality(Loaded(byWork[w], h)) = Cardinality(Given(files, leaves, w, h))
    BY DEF HiiInv
  <1>2. IsFiniteSet(Loaded(byWork[w], h))
    <2>1. byWork[w] \in Seq(Hashes)
      BY DEF HiiInv
    <2> QED
      BY <2>1, LoadedFinite
  <1>3. IsFiniteSet(Given(files, leaves, w, h))
    BY GivenFinite DEF HiiInv
  <1>4. Loaded(byWork[w], h) = {} <=> Given(files, leaves, w, h) = {}
    BY <1>1, <1>2, <1>3, FS_EmptySet
  <1>5. Given(files, leaves, w, h) = {i \in FilesOf(w) : files[i].hash = h}
    BY DEF Given, FilesOf
  <1> QED
    BY <1>4, <1>5 DEF Loaded

\* The works there are leaves of are finitely many.
LEMMA WorksFinite ==
  ASSUME HiiInv
  PROVE  IsFiniteSet({w \in Works : byWork[w] # << >>})
  <1> DEFINE att == {i \in DOMAIN files : files[i].kind = "attestation"}
             of == [i \in att |-> leaves[files[i].hash].work]
             T == {of[i] : i \in att}
             works == {w \in Works : byWork[w] # << >>}
  <1>1. IsFiniteSet(att)
    <2>1. Len(files) \in Nat /\ DOMAIN files = 1..Len(files)
      BY SeqFacts DEF HiiInv
    <2>2. att \in SUBSET (1..Len(files))
      BY <2>1, Zenon
    <2>3. IsFiniteSet(1..Len(files))
      BY <2>1, FS_Interval
    <2> QED
      BY <2>2, <2>3, FS_Subset
  <1>2. IsFiniteSet(T)
    <2>1. of \in [att -> T]
      OBVIOUS
    <2>2. \A t \in T : \E i \in att : of[i] = t
      OBVIOUS
    <2> HIDE DEF att, of, T
    <2>3. of \in Surjection(att, T)
      BY <2>1, <2>2 DEF Surjection
    <2> QED
      BY <1>1, <2>3, FS_Surjection
  <1>3. works \in SUBSET T
    <2> SUFFICES ASSUME NEW w \in Works, byWork[w] # << >>
                 PROVE  w \in T
      OBVIOUS
    <2>1. byWork[w] \in Seq(Hashes)
      BY DEF HiiInv
    <2>2. 1 \in DOMAIN byWork[w] /\ byWork[w][1] \in Hashes
      BY <2>1
    <2>3. PICK i \in FilesOf(w) : files[i].hash = byWork[w][1]
      BY <2>2, LoadedFrom
    <2>4. i \in att /\ of[i] = w
      BY <2>3 DEF FilesOf
    <2> QED
      BY <2>4
  <1> HIDE DEF T
  <1> QED
    BY <1>2, <1>3, FS_Subset

\* With no work asked for, every attestation is of the one printed.
LEMMA OnlyWork ==
  ASSUME HiiInv, flags.work = "none", NEW w \in selectWork,
         NEW i \in DOMAIN files, files[i].kind = "attestation"
  PROVE  i \in FilesOf(w)
  <1> DEFINE works == {u \in Works : byWork[u] # << >>}
             v == leaves[files[i].hash].work
  <1>1. Cardinality(works) = 1 /\ w \in works
    BY DEF selectWork
  <1>2. IsFiniteSet(works)
    BY WorksFinite
  <1>3. PICK x : works = {x}
    <2> HIDE DEF works
    <2> QED
      BY <1>1, <1>2, FS_Singleton
  <1>4. files[i] \in Files /\ files[i].hash \in Hashes
    <2>1. files[i] \in Files
      BY DEF HiiInv
    <2> QED
      BY <2>1, FileFacts
  <1>5. v \in Works
    BY <1>4 DEF HiiInv, Leaves
  <1>6. i \in FilesOf(v)
    BY DEF FilesOf
  <1>7. \E k \in DOMAIN byWork[v] : byWork[v][k] = files[i].hash
    <2> HIDE DEF v
    <2> QED
      BY <1>4, <1>5, <1>6, LoadedFrom
  <1>8. byWork[v] # << >>
    <2>1. DOMAIN << >> = {}
      OBVIOUS
    <2> HIDE DEF v
    <2> QED
      BY <1>7, <2>1
  <1>9. v \in works
    BY <1>5, <1>8
  <1> QED
    BY <1>1, <1>3, <1>6, <1>9

\* The event the media is matched against.
LEMMA TargetFound ==
  ASSUME HiiInv, NEW w \in Works, byWork[w] # << >>, NEW h \in selectTarget(Chain(w))
  PROVE  /\ \E i \in FilesOf(w) : files[i].hash = h
         /\ flags.target \in {h, 0}
         /\ flags.target = 0 =>
              \A i \in FilesOf(w) : leaves[files[i].hash].seq <= leaves[h].seq
  <1> DEFINE chain == Chain(w)
             n == Len(byWork[w])
             seq == [i \in 1..n |-> chain[i].seq]
  <1>1. /\ n \in Nat /\ DOMAIN chain = 1..n /\ DOMAIN byWork[w] = 1..n
        /\ \A i \in 1..n : /\ byWork[w][i] \in Hashes
                           /\ chain[i].hash = byWork[w][i]
                           /\ chain[i].seq = leaves[byWork[w][i]].seq
                           /\ chain[i].seq \in Nat
    BY ChainFacts DEF HiiInv
  <1>2. CASE flags.target # 0
    <2>1. h \in byHash(chain) /\ h = flags.target
      BY <1>2 DEF selectTarget
    <2>2. \E k \in DOMAIN byWork[w] : byWork[w][k] = h
      BY <1>1, <2>1 DEF byHash
    <2>3. h \in Hashes
      BY <1>1, <2>2
    <2> QED
      BY <1>2, <2>1, <2>2, <2>3, LoadedFrom
  <1>3. CASE flags.target = 0
    <2> DEFINE IsFirst(i) == \A j \in DOMAIN chain :
                               \/ chain[j].seq < chain[i].seq
                               \/ chain[j].seq = chain[i].seq /\ i <= j
               first == CHOOSE i \in DOMAIN chain : IsFirst(i)
    <2>1. h = chain[first].hash
      BY <1>3 DEF selectTarget
    <2>2. \E i \in 1..n : IsFirstGreatest(i, 1..n, seq)
      <3>1. byWork[w] \in Seq(Hashes)
        BY DEF HiiInv
      <3>2. 1..n # {}
        BY <1>1, <3>1
      <3>3. IsFiniteSet(1..n) /\ 1..n \subseteq Nat
        <4>1. n \in Nat
          BY <1>1
        <4> HIDE DEF n
        <4> QED
          BY <4>1, FS_Interval
      <3>4. seq \in [1..n -> Nat]
        BY <1>1
      <3> HIDE DEF seq, n
      <3> QED
        BY <3>2, <3>3, <3>4, FirstGreatestExists
    <2>3. \E i \in DOMAIN chain : IsFirst(i)
      BY <1>1, <2>2 DEF IsFirstGreatest
    <2>4. first \in DOMAIN chain /\ IsFirst(first)
      <3> HIDE DEF IsFirst
      <3> QED
        BY <2>3
    <2> HIDE DEF first
    <2>5. h = byWork[w][first] /\ h \in Hashes /\ leaves[h].seq = chain[first].seq
      BY <1>1, <2>1, <2>4
    <2>6. \A j \in DOMAIN chain : chain[j].seq <= chain[first].seq
      BY <1>1, <2>4
    <2>7. \A i \in FilesOf(w) : \E j \in DOMAIN byWork[w] : byWork[w][j] = files[i].hash
      <3> SUFFICES ASSUME NEW i \in FilesOf(w)
                   PROVE  \E j \in DOMAIN byWork[w] : byWork[w][j] = files[i].hash
        OBVIOUS
      <3>1. files[i] \in Files /\ files[i].kind = "attestation"
        BY DEF FilesOf, HiiInv
      <3>2. files[i].hash \in Hashes
        BY <3>1, FileFacts
      <3> QED
        BY <3>2, LoadedFrom
    <2>8. \E i \in FilesOf(w) : files[i].hash = h
      BY <1>1, <2>4, <2>5, LoadedFrom
    <2>9. \A i \in FilesOf(w) : leaves[files[i].hash].seq <= leaves[h].seq
      BY <1>1, <2>5, <2>6, <2>7
    <2> QED
      BY <1>3, <2>8, <2>9
  <1> QED
    BY <1>2, <1>3

\* A run prints a report of every file it was given, of the work asked for, with the
\* media matched against the event asked for and no status claimed; or it fails and
\* prints nothing.
THEOREM PrintedAlwaysComplete == HiiSpec => []PrintedIsComplete
  <1>1. HiiInv => PrintedIsComplete
    <2> SUFFICES ASSUME HiiInv
                 PROVE  PrintedIsComplete
      OBVIOUS
    <2>1. outcome.exit = "error" => report = {}
      BY DEF HiiInv
    <2> DEFINE w == outcome.work
    <2>2. ASSUME outcome.exit = "printed", NEW i \in DOMAIN files
          PROVE  /\ files[i].kind # "unusable"
                 /\ files[i].kind = "binding" /\ flags.root # "none" =>
                      files[i].binding \in Vouching
      <3>1. Usable(files[i], flags.root)
        BY <2>2 DEF HiiInv
      <3>2. flags.root \in RootKeys \cup {"none"}
        <4>1. flags.root # "ill"
          BY <2>2, PrintedReport DEF Fails
        <4>2. flags.root \in RootKeys \cup {"none", "ill"}
          BY DEF HiiInv, CommandLine
        <4> QED
          BY <4>1, <4>2
      <3> QED
        BY <3>1, <3>2 DEF Usable, Vouching
    <2>3. ASSUME outcome.exit = "printed", NEW r \in report
          PROVE  r.verdict = "INDETERMINATE"
      <3>1. w \in Works /\ byWork[w] # << >> /\ r = BuildWorkReport(Chain(w), bindings)
        BY <2>3, PrintedReport
      <3>2. r.verdict = ReportOn(Chain(w)).verdict
        BY <3>1, PrintedEvents DEF HiiInv
      <3> DEFINE plain == ReportOn(Chain(w))
                 n == Len(byWork[w])
      <3>3. PICK perm \in Bijection(1..n, 1..n) :
              plain.events = [k \in 1..n |-> [hash |-> byWork[w][perm[k]], verdict |-> ""]]
        BY <3>1, ReportEvents DEF HiiInv
      <3>4. 1 \in 1..n
        <4>1. byWork[w] \in Seq(Hashes)
          BY <3>1 DEF HiiInv
        <4> QED
          BY <3>1, <4>1
      <3>5. plain.verdict = RollUp(plain.events)
        BY DEF ReportOn
      <3> HIDE DEF plain, n, w
      <3>6. 1 \in DOMAIN plain.events /\ plain.events[1].verdict = ""
        <4>1. plain.events[1] = [hash |-> byWork[w][perm[1]], verdict |-> ""]
          BY <3>3, <3>4
        <4>2. DOMAIN plain.events = 1..n
          BY <3>3
        <4>3. \A h : [hash |-> h, verdict |-> ""].verdict = ""
          OBVIOUS
        <4>4. plain.events[1].verdict = ""
          BY <4>1, <4>3
        <4> QED
          BY <3>4, <4>2, <4>4
      <3>7. plain.verdict = "INDETERMINATE"
        BY <3>5, <3>6 DEF RollUp, Definite
      <3> QED
        BY <3>2, <3>7 DEF plain
    <2>4. ASSUME outcome.exit = "printed", NEW r \in report, NEW h \in Hashes
          PROVE  Cardinality({i \in DOMAIN r.events : r.events[i].hash = h})
                   = Cardinality({i \in FilesOf(w) : files[i].hash = h})
      <3>1. w \in Works /\ r = BuildWorkReport(Chain(w), bindings)
        BY <2>4, PrintedReport
      <3>2. Cardinality({i \in DOMAIN r.events : r.events[i].hash = h})
              = Cardinality(Loaded(byWork[w], h))
        BY <3>1, PrintedCounts DEF HiiInv
      <3>3. Cardinality(Loaded(byWork[w], h)) = Cardinality(Given(files, leaves, w, h))
        BY <3>1 DEF HiiInv
      <3>4. Given(files, leaves, w, h) = {i \in FilesOf(w) : files[i].hash = h}
        BY DEF Given, FilesOf
      <3> QED
        BY <3>2, <3>3, <3>4
    <2>5. outcome.exit = "printed" => flags.work \in {w, "none"}
      BY PrintedReport DEF selectWork
    <2>6. ASSUME outcome.exit = "printed", flags.work = "none", NEW i \in DOMAIN files,
                 files[i].kind = "attestation"
          PROVE  i \in FilesOf(w)
      BY <2>6, PrintedReport, OnlyWork
    <2>7. ASSUME outcome.exit = "printed", flags.media = "readable"
          PROVE  /\ \E i \in FilesOf(w) : files[i].hash = outcome.target
                 /\ flags.target \in {outcome.target, 0}
                 /\ flags.target = 0 =>
                      \A i \in FilesOf(w) :
                        leaves[files[i].hash].seq <= leaves[outcome.target].seq
      <3>1. /\ w \in Works /\ byWork[w] # << >>
            /\ outcome.target \in selectTarget(Chain(w))
        BY <2>7, PrintedReport
      <3> QED
        BY <3>1, TargetFound
    <2> HIDE DEF w
    <2> QED
      BY <2>1, <2>2, <2>3, <2>4, <2>5, <2>6, <2>7 DEF PrintedIsComplete, w
  <1> QED
    BY <1>1, HiiInvariant, PTL

\* The chains that hiiverify builds its report from are those of a library's
\* caller: linear means that the work's events form one history.
THEOREM CommandReadsHistories == HiiSpec => []LinearMeansHistory
  <1>1. HiiInit => Acyclic(leaves)
    BY DEF HiiInit, Init
  <1>2. Acyclic(leaves) /\ [HiiNext]_<<vars, hiiVars>> => Acyclic(leaves)'
    <2> SUFFICES ASSUME Acyclic(leaves), [HiiNext]_<<vars, hiiVars>>
                 PROVE  Acyclic(leaves')
      OBVIOUS
    <2>1. leaves' = leaves
      BY DEF HiiNext, Ingest, IngestAttestation, IngestBinding, IngestUnusable,
             AddLeaf, Finish, vars
    <2> QED
      BY <2>1
  <1>3. HiiSpec => []Acyclic(leaves)
    BY <1>1, <1>2, PTL DEF HiiSpec
  <1>4. HiiInv /\ Acyclic(leaves) => LinearMeansHistory
    BY LinearIsHistory DEF HiiInv
  <1> QED
    BY <1>3, <1>4, HiiInvariant, PTL
=============================================================================
