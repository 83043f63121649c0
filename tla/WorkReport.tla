------------------------------ MODULE WorkReport ------------------------------
(***************************************************************************)
(* internal/verify/report.go over internal/provenance: leaves are loaded   *)
(* in some order, a report is built on one work, and its events' statuses  *)
(* are applied one by one, in any order, for hashes of the report or not,  *)
(* and as often as the caller likes.                                       *)
(*                                                                         *)
(* Each status comes from a call of its own (cocverify.ResolveStatus,      *)
(* StatusVerifier's subject), so that events may get different verdicts,   *)
(* and one event several in turn.                                          *)
(***************************************************************************)
EXTENDS Provenance

CONSTANTS
  Hashes,   \* BLAKE3 hashes of the attestations there are
  Works,
  Seqs,     \* values of EventSeq
  MaxLoads  \* bound: leaf files loaded of one work

ASSUME WorkReportAssumption ==
  /\ Hashes \subseteq Nat \ {NoPrev} /\ IsFiniteSet(Hashes)
  /\ Seqs \subseteq Nat
  /\ MaxLoads \in Nat

VARIABLES
  leaves,   \* the attestations: hash -> [work, prev, seq]; never changes
  byWork,   \* the Index: work -> hashes, in the order loaded
  report,   \* {} until BuildWorkReport, then {the Report}
  answers   \* history: the answer last applied for a hash, "" for none

vars == <<leaves, byWork, report, answers>>

Definite == {"VERIFIED", "WITHDRAWN"}
Verdicts == Definite \cup {"INDETERMINATE"}

\* A leaf's hash covers the hash of its parent: no leaf is its own ancestor.
Acyclic(f) ==
  \E rank \in [Hashes -> 1..Cardinality(Hashes)] :
    \A h \in Hashes : f[h].prev # NoPrev => rank[f[h].prev] < rank[h]

Event(h) == [hash |-> h, prev |-> leaves[h].prev, seq |-> leaves[h].seq]

Chain(w) == [i \in DOMAIN byWork[w] |-> Event(byWork[w][i])]

Init ==
  /\ leaves \in {f \in [Hashes -> [work : Works, prev : Hashes \cup {NoPrev},
                                   seq : Seqs]] : Acyclic(f)}
  /\ byWork = [w \in Works |-> << >>]
  /\ report = {}
  /\ answers = [h \in Hashes |-> ""]

\* Index.Add, as hiiverify's ingest calls it: nothing notices a leaf that is
\* loaded twice.
AddLeaf(h) ==
  /\ report = {}
  /\ Len(byWork[leaves[h].work]) < MaxLoads
  /\ byWork' = [byWork EXCEPT ![leaves[h].work] = Append(@, h)]
  /\ UNCHANGED <<leaves, report, answers>>

Add == \E h \in Hashes : AddLeaf(h)

\* Mutants: an event with no verdict yet is passed over; a known withdrawal
\* outweighs an unresolved event.
RollUpResolved(events) ==
  LET verdicts == {events[i].verdict : i \in DOMAIN events}
  IN  IF "INDETERMINATE" \in verdicts THEN "INDETERMINATE"
      ELSE IF "WITHDRAWN" \in verdicts THEN "WITHDRAWN" ELSE "VERIFIED"

RollUpWithdrawn(events) ==
  LET verdicts == {events[i].verdict : i \in DOMAIN events}
  IN  IF "WITHDRAWN" \in verdicts THEN "WITHDRAWN"
      ELSE IF verdicts \subseteq Definite THEN "VERIFIED" ELSE "INDETERMINATE"

\* rollUpVerdict
RollUp(events) ==
  LET verdicts == {events[i].verdict : i \in DOMAIN events}
  IN  IF ~(verdicts \subseteq Definite) THEN "INDETERMINATE"
      ELSE IF "WITHDRAWN" \in verdicts THEN "WITHDRAWN" ELSE "VERIFIED"

\* Mutant: the events stay in the order loaded.
UnsortedReportOn(chain) ==
  LET events == [i \in DOMAIN chain |->
                   [hash |-> chain[i].hash, verdict |-> ""]]
  IN  [events |-> events, verdict |-> RollUp(events), chain |-> Analyze(chain)]

\* BuildWorkReport
ReportOn(chain) ==
  LET events == [i \in DOMAIN chain |->
                   [hash |-> Sorted(chain)[i].hash, verdict |-> ""]]
  IN  [events |-> events, verdict |-> RollUp(events), chain |-> Analyze(chain)]

Build ==
  /\ report = {}
  /\ \E w \in Works : byWork[w] # << >> /\ report' = {ReportOn(Chain(w))}
  /\ UNCHANGED <<leaves, byWork, answers>>

\* The first event with that hash, then the roll-up.
Applied(r, h, v) ==
  LET matches == {i \in DOMAIN r.events : r.events[i].hash = h}
      first   == CHOOSE i \in matches : \A j \in matches : i <= j
      events  == [r.events EXCEPT ![first].verdict = v]
  IN  IF matches = {} THEN r
                      ELSE [r EXCEPT !.events = events, !.verdict = RollUp(events)]

SetEventStatus ==
  /\ \E r \in report, h \in Hashes, v \in Verdicts :
       /\ report' = {Applied(r, h, v)}
       /\ answers' = [answers EXCEPT ![h] = v]
  /\ UNCHANGED <<leaves, byWork>>

Next == Add \/ Build \/ SetEventStatus

Spec == Init /\ [][Next]_vars

----------------------------------------------------------------------------
\* Linear (provenance.go:79-82) and Linearize agree, and mean what they say:
\* the events form one history, each the parent of the next, and Linearize
\* returns it; whatever was loaded, in whatever order, twice or not at all.
LinearMeansHistory ==
  \A w \in Works :
    byWork[w] # << >> =>
      /\ Linearize(Chain(w)) = HistoriesOf(Chain(w))
      /\ Analyze(Chain(w)).linear <=> HistoriesOf(Chain(w)) # {}

Orders(S) == {f \in [S -> S] : \A i, j \in S : f[i] = f[j] => i = j}

\* "A deterministic report" (report.go:91): the order in which the leaves were
\* loaded shows nowhere in it.
OrderFree ==
  report = {} =>
    \A w \in Works :
      \A perm \in Orders(DOMAIN byWork[w]) :
        ReportOn([i \in DOMAIN byWork[w] |-> Chain(w)[perm[i]]])
          = ReportOn(Chain(w))

HashesOf(r) == {r.events[i].hash : i \in DOMAIN r.events}

\* A work "only becomes VERIFIED once status resolution has actually run and
\* cleared every event" (report.go:14-17): each event's last answer was VERIFIED.
VerifiedMeansCleared ==
  \A r \in report :
    r.verdict = "VERIFIED" => \A h \in HashesOf(r) : answers[h] = "VERIFIED"

\* An unresolved event "might be concealing a withdrawal, so it dominates a
\* known one" (report.go:57-58), and nothing else holds a verdict back: when
\* every event of a report without duplicates has a definite answer, so has
\* the work.
VerdictIsWorst ==
  \A r \in report :
    Cardinality(HashesOf(r)) = Len(r.events) =>
      LET given == {answers[h] : h \in HashesOf(r)}
      IN  /\ r.verdict = "INDETERMINATE" <=> ~(given \subseteq Definite)
          /\ r.verdict = "WITHDRAWN" <=> "WITHDRAWN" \in given /\ given \subseteq Definite
=============================================================================
