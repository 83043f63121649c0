------------------------------ MODULE Provenance ------------------------------
(***************************************************************************)
(* internal/provenance: the history of one work, rebuilt from the events   *)
(* (attestations) at hand.  The log refuses nothing, so forks, missing     *)
(* parents, several roots and leaves loaded twice are all to be reckoned   *)
(* with.                                                                   *)
(*                                                                         *)
(* A chain is a sequence of events in the order they were added; an event  *)
(* is [hash, prev, seq].  Hashes are numbers, compared as bytesLess does.  *)
(***************************************************************************)
EXTENDS Integers, FiniteSets, Sequences

NoPrev == 0  \* the code's nil PrevEventHash

\* The hashes present in the chain: byHash's keys.
byHash(chain) == {chain[i].hash : i \in DOMAIN chain}

----------------------------------------------------------------------------
(* links: the chain falls into roots, children of a parent, and dangling   *)
(* events, each a set of positions.                                        *)

RootsOf(chain) == {i \in DOMAIN chain : chain[i].prev = NoPrev}

\* Mutant: a missing parent is not noticed.
NoneDangling(chain) == {}

DanglingOf(chain) ==
  {i \in DOMAIN chain :
     chain[i].prev # NoPrev /\ chain[i].prev \notin byHash(chain)}

ChildrenOf(chain, h) == {i \in DOMAIN chain : chain[i].prev = h}

\* Points of divergence: parents with several children, and several roots.
ForksOf(chain) ==
  {h \in byHash(chain) : Cardinality(ChildrenOf(chain, h)) > 1}
    \cup (IF Cardinality(RootsOf(chain)) > 1 THEN {NoPrev} ELSE {})

Analyze(chain) ==
  [linear   |-> /\ Cardinality(RootsOf(chain)) = 1
                /\ ForksOf(chain) = {}
                /\ DanglingOf(chain) = {},
   roots    |-> Cardinality(RootsOf(chain)),
   forks    |-> Cardinality(ForksOf(chain)),
   dangling |-> Cardinality(DanglingOf(chain))]

(***************************************************************************)
(* Linearize: from the single root, child by child.  walk[n] is the        *)
(* position of the n-th event, 0 where the walk has stopped: at an event   *)
(* with no child, or at one with several, which is ErrNotLinear.           *)
(***************************************************************************)
Only(S) == CHOOSE i \in S : TRUE

Walk(chain) ==
  LET walk[n \in 0..Len(chain)] ==
        IF n = 0 THEN 0
        ELSE IF n = 1 THEN Only(RootsOf(chain))
        ELSE LET last == walk[n - 1]
                 kids == IF last = 0 THEN {} ELSE ChildrenOf(chain, chain[last].hash)
             IN  IF Cardinality(kids) = 1 THEN Only(kids) ELSE 0
  IN  [n \in 1..Len(chain) |-> walk[n]]

\* {} for ErrNotLinear; else the one ordering, as positions.
Linearize(chain) ==
  IF /\ Cardinality(RootsOf(chain)) = 1
     /\ DanglingOf(chain) = {}
     /\ \A n \in DOMAIN chain : Walk(chain)[n] # 0
    THEN {Walk(chain)}
    ELSE {}

\* sortEvents and BuildWorkReport: by sequence number, then by hash.
Before(a, b) == a.seq < b.seq \/ (a.seq = b.seq /\ a.hash < b.hash)

\* The n-th is the event that n - 1 come before.  Leaves loaded twice are alike in
\* all, and may take their order of loading.
Sorted(chain) ==
  LET earlier(i, j) == \/ Before(chain[i], chain[j])
                       \/ ~Before(chain[j], chain[i]) /\ i < j
      rank(i) == Cardinality({j \in DOMAIN chain : earlier(j, i)}) + 1
  IN  [n \in DOMAIN chain |-> chain[CHOOSE i \in DOMAIN chain : rank(i) = n]]

----------------------------------------------------------------------------
(* What the analysis is for.                                               *)

\* A history: each event but the first names the one before it as its parent.
IsHistory(chain, order) ==
  /\ \A i \in DOMAIN chain : \E n \in DOMAIN chain : order[n] = i
  /\ \A n \in DOMAIN chain :
       chain[order[n]].prev = IF n = 1 THEN NoPrev ELSE chain[order[n - 1]].hash

HistoriesOf(chain) ==
  {order \in [DOMAIN chain -> DOMAIN chain] : IsHistory(chain, order)}
=============================================================================
