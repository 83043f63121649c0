---------------------------- MODULE FormatsProofs ----------------------------
(***************************************************************************)
(* Withdrawn lists, tool traces, fingerprints and leaves, for every set of *)
(* hashes, reasons, keys, words, bytes and algorithms' tolerances, any     *)
(* number of entries and members, and fields of any length.  Leaves come   *)
(* last: their encodings are strings one after the other, so what is said  *)
(* of joined strings in general comes before them.                         *)
(***************************************************************************)
EXTENDS Formats, FirstGreatest, SequenceTheorems

----------------------------------------------------------------------------
(* A set has one sorted listing.                                           *)

\* What sort.Slice makes of a list is a sorted listing of the same entries.
LEMMA NormaliseLists ==
  ASSUME NEW S, NEW in \in Listings(S), NEW out \in normalise(in)
  PROVE  out \in Listings(S) /\ SortedByHash(out)
  <1>1. Range(in) = S
    BY DEF Listings, Bijection, Injection, Surjection, Range
  <1> QED
    BY <1>1 DEF normalise

LEMMA ListingFacts ==
  ASSUME NEW S, IsFiniteSet(S), S \subseteq Entry, NEW l \in Listings(S)
  PROVE  /\ Cardinality(S) \in Nat
         /\ DOMAIN l = 1..Cardinality(S)
         /\ \A i \in DOMAIN l : l[i] \in S /\ l[i].leaf_hash \in Nat
         /\ \A e \in S : \E i \in DOMAIN l : l[i] = e
         /\ \A i, j \in DOMAIN l : l[i] = l[j] => i = j
  <1>1. /\ DOMAIN l = 1..Cardinality(S)
        /\ \A i \in DOMAIN l : l[i] \in S
        /\ \A e \in S : \E i \in DOMAIN l : l[i] = e
        /\ \A i, j \in DOMAIN l : l[i] = l[j] => i = j
    BY DEF Listings, Bijection, Injection, Surjection, IsInjective
  <1>2. \A e \in S : e.leaf_hash \in Nat
    BY StatusListingAssumption DEF Entry
  <1> QED
    BY <1>1, <1>2, FS_CardinalityType

\* At the first position where two sorted listings differed, the smaller hash
\* of the two would be missing from the other listing.
LEMMA NoSmaller ==
  ASSUME NEW S, IsFiniteSet(S), S \subseteq Entry, ~Ambiguous(S),
         NEW a \in Listings(S), NEW b \in Listings(S),
         SortedByHash(b),
         NEW i \in DOMAIN a, \A j \in DOMAIN a : j < i => a[j] = b[j]
  PROVE  ~(a[i].leaf_hash < b[i].leaf_hash)
  <1> SUFFICES ASSUME a[i].leaf_hash < b[i].leaf_hash
               PROVE  FALSE
    OBVIOUS
  <1>1. /\ Cardinality(S) \in Nat
        /\ DOMAIN a = 1..Cardinality(S) /\ DOMAIN b = 1..Cardinality(S)
    BY ListingFacts
  <1>2. PICK j \in DOMAIN b : b[j] = a[i]
    BY ListingFacts
  <1>3. CASE j < i
    <2>1. a[j] = a[i]
      BY <1>1, <1>2, <1>3
    <2>2. j = i
      BY <1>1, <2>1, ListingFacts
    <2> QED
      BY <1>1, <1>3, <2>2
  <1>4. CASE i <= j
    <2>1. b[i].leaf_hash <= b[j].leaf_hash
      <3>1. b[i].leaf_hash \in Nat
        BY <1>1, ListingFacts
      <3> QED
        BY <1>1, <1>4, <3>1 DEF SortedByHash
    <2>2. a[i].leaf_hash \in Nat /\ b[i].leaf_hash \in Nat
      BY <1>1, ListingFacts
    <2> QED
      BY <1>2, <2>1, <2>2
  <1> QED
    BY <1>1, <1>3, <1>4

\* A set without two entries for one leaf has one sorted listing.
THEOREM OneSortedListing ==
  ASSUME NEW S, IsFiniteSet(S), S \subseteq Entry, ~Ambiguous(S),
         NEW a \in Listings(S), SortedByHash(a),
         NEW b \in Listings(S), SortedByHash(b)
  PROVE  a = b
  <1> DEFINE differ == {i \in DOMAIN a : a[i] # b[i]}
  <1>1. /\ Cardinality(S) \in Nat
        /\ DOMAIN a = 1..Cardinality(S) /\ DOMAIN b = 1..Cardinality(S)
    BY ListingFacts
  <1>2. a \in [1..Cardinality(S) -> S] /\ b \in [1..Cardinality(S) -> S]
    BY DEF Listings, Bijection, Injection
  <1>3. CASE differ = {}
    BY <1>1, <1>2, <1>3
  <1>4. CASE differ # {}
    <2>1. PICK i \in differ : \A j \in differ : i <= j
      BY <1>1, <1>4, FirstExists
    <2>2. \A j \in 1..Cardinality(S) : j < i => a[j] = b[j]
      BY <1>1, <2>1
    <2>3. ~(a[i].leaf_hash < b[i].leaf_hash)
      BY <1>1, <2>1, <2>2, NoSmaller
    <2>4. ~(b[i].leaf_hash < a[i].leaf_hash)
      BY <1>1, <2>1, <2>2, NoSmaller
    <2>5. /\ a[i] \in S /\ b[i] \in S
          /\ a[i].leaf_hash \in Nat /\ b[i].leaf_hash \in Nat
      BY <1>1, <2>1, ListingFacts
    <2>6. a[i].leaf_hash = b[i].leaf_hash /\ a[i] # b[i]
      BY <2>1, <2>3, <2>4, <2>5
    <2> QED
      BY <2>5, <2>6 DEF Ambiguous
  <1> QED
    BY <1>3, <1>4

----------------------------------------------------------------------------
(* What is published is a sorted listing of the records it was built from. *)

Built(list) ==
  \E src \in Listings(shown) : SortedByHash(src) /\ list = Parsed(src)

ListingInv ==
  /\ records \subseteq Entry /\ IsFiniteSet(records)
  /\ shown \subseteq Entry /\ IsFiniteSet(shown)
  /\ \A list \in published : Built(list)

LEMMA ListingInvInit == ListingInit => ListingInv
  BY FS_EmptySet DEF ListingInit, ListingInv

LEMMA PublishStep ==
  Publish =>
    \E entries \in Listings(records) :
      /\ SortedByHash(entries)
      /\ \/ UNCHANGED listing
         \/ /\ \A prev \in published : prev # entries
            /\ published' = {Parsed(entries)} /\ shown' = records
  <1> SUFFICES ASSUME Publish
               PROVE  \E entries \in Listings(records) :
                        /\ SortedByHash(entries)
                        /\ \/ UNCHANGED listing
                           \/ /\ \A prev \in published : prev # entries
                              /\ published' = {Parsed(entries)}
                              /\ shown' = records
    OBVIOUS
  <1>1. PICK list \in Listings(records) :
          \E entries \in normalise(list) :
            IF \E prev \in published : sameSet(prev, entries)
              THEN UNCHANGED <<published, version, shown>>
              ELSE published' = {Parsed(entries)} /\ shown' = records
    BY DEF Publish
  <1>2. PICK entries \in normalise(list) :
          IF \E prev \in published : sameSet(prev, entries)
            THEN UNCHANGED <<published, version, shown>>
            ELSE published' = {Parsed(entries)} /\ shown' = records
    BY <1>1
  <1>3. entries \in Listings(records) /\ SortedByHash(entries)
    BY NormaliseLists
  <1>4. UNCHANGED records
    BY DEF Publish
  <1> QED
    BY <1>2, <1>3, <1>4 DEF sameSet, listing

LEMMA ListingInvNext == ListingInv /\ [ListingNext]_listing => ListingInv'
  <1> SUFFICES ASSUME ListingInv, [ListingNext]_listing
               PROVE  ListingInv'
    OBVIOUS
  <1>1. CASE ChangeRecords
    BY <1>1 DEF ChangeRecords, ListingInv, Built
  <1>2. CASE Publish
    <2>1. PICK entries \in Listings(records) :
            /\ SortedByHash(entries)
            /\ \/ UNCHANGED listing
               \/ published' = {Parsed(entries)} /\ shown' = records
      BY <1>2, PublishStep
    <2>3. UNCHANGED records
      BY <1>2 DEF Publish
    <2>4. CASE UNCHANGED listing
      BY <2>4 DEF listing, ListingInv, Built
    <2>5. CASE published' = {Parsed(entries)} /\ shown' = records
      BY <2>1, <2>3, <2>5 DEF ListingInv, Built
    <2> QED
      BY <2>1, <2>4, <2>5
  <1>3. CASE UNCHANGED listing
    BY <1>3 DEF listing, ListingInv, Built
  <1> QED
    BY <1>1, <1>2, <1>3 DEF ListingNext

\* Between calls, what is published is what the last records make of it.
THEOREM ListingInvariant == ListingSpec => []ListingInv
  BY ListingInvInit, ListingInvNext, PTL DEF ListingSpec

LEMMA ParsedPlain ==
  ASSUME NEW S, IsFiniteSet(S), S \subseteq Entry, Plain(S), NEW l \in Listings(S)
  PROVE  Parsed(l) = l
  <1>1. \A i \in DOMAIN l : l[i] \in Entry /\ l[i].detail \notin Garbled
    BY ListingFacts DEF Plain
  <1>2. \A i \in DOMAIN l : [l[i] EXCEPT !.detail = l[i].detail] = l[i]
    BY <1>1 DEF Entry
  <1>3. l \in [1..Cardinality(S) -> S]
    BY DEF Listings, Bijection, Injection
  <1> QED
    BY <1>1, <1>2, <1>3 DEF Parsed, Written

\* As many entries, withdrawn or not, in whatever order: an unchanged set is
\* published once.
LEMMA RepublishedStep ==
  ListingInv /\ [ListingNext]_listing
    => [version' # version /\ published # {} /\ Plain(records)
          => records # shown]_listing
  <1> SUFFICES ASSUME ListingInv, ListingNext, version' # version,
                      published # {}, Plain(records), records = shown
               PROVE  FALSE
    OBVIOUS
  <1>1. Publish
    BY DEF ListingNext, ChangeRecords
  <1>2. PICK entries \in Listings(records) :
          SortedByHash(entries) /\ \A prev \in published : prev # entries
    BY <1>1, PublishStep DEF listing
  <1>3. PICK prev \in published : Built(prev)
    BY DEF ListingInv
  <1>4. PICK src \in Listings(records) : SortedByHash(src) /\ prev = Parsed(src)
    BY <1>3 DEF Built
  <1>5. records \subseteq Entry /\ IsFiniteSet(records) /\ ~Ambiguous(records)
    BY DEF ListingInv, Plain
  <1>6. prev = src
    BY <1>4, <1>5, ParsedPlain
  <1>7. src = entries
    BY <1>2, <1>4, <1>5, OneSortedListing
  <1> QED
    BY <1>2, <1>6, <1>7

\* RepublishedMeansChanged: after the first version, an unchanged set of
\* records with one entry for each leaf never makes another.
THEOREM RepublishedMeansChangedHolds == ListingSpec => RepublishedMeansChanged
  BY ListingInvariant, RepublishedStep, PTL
  DEF ListingSpec, RepublishedMeansChanged

LEMMA FindInvariant == ListingInv => FindTellsRecords
  <1> SUFFICES ASSUME ListingInv,
                      NEW list \in published,
                      NEW h \in {s \div 2 : s \in Spellings}
               PROVE  LET naming == {e \in shown : e.leaf_hash = Encoded(h)}
                          told  == Find(list, h)
                      IN  /\ naming = {} <=> told = {}
                          /\ told \subseteq {Written(e) : e \in naming}
    BY DEF FindTellsRecords
  <1> DEFINE naming == {e \in shown : e.leaf_hash = Encoded(h)}
             hits == {i \in DOMAIN list : list[i].leaf_hash = Encoded(h)}
  <1>1. PICK src \in Listings(shown) : list = Parsed(src)
    BY DEF ListingInv, Built
  <1>2. shown \subseteq Entry /\ IsFiniteSet(shown)
    BY DEF ListingInv
  <1>3. /\ Cardinality(shown) \in Nat
        /\ DOMAIN src = 1..Cardinality(shown)
        /\ \A i \in DOMAIN src : src[i] \in shown
        /\ \A e \in shown : \E i \in DOMAIN src : src[i] = e
    BY <1>2, ListingFacts
  <1>4. DOMAIN list = DOMAIN src /\ \A i \in DOMAIN src : list[i] = Written(src[i])
    BY <1>1 DEF Parsed
  <1>6. \A e \in Entry : Written(e).leaf_hash = e.leaf_hash
    BY DEF Entry, Written
  <1>7. \A i \in hits : src[i] \in naming /\ list[i] = Written(src[i])
    BY <1>2, <1>3, <1>4, <1>6
  <1>8. naming # {} => hits # {}
    <2> SUFFICES ASSUME NEW e \in naming
                 PROVE  hits # {}
      OBVIOUS
    <2>1. PICK i \in DOMAIN src : src[i] = e
      BY <1>3
    <2>2. i \in DOMAIN list /\ list[i] = Written(e) /\ e \in Entry
      BY <1>2, <1>4, <2>1
    <2>3. list[i].leaf_hash = Encoded(h)
      BY <1>6, <2>2
    <2> QED
      BY <2>2, <2>3
  <1>9. hits # {} => \E i \in hits : \A j \in hits : i <= j
    <2>1. hits \subseteq 1..Cardinality(shown)
      BY <1>3, <1>4
    <2> HIDE DEF hits
    <2> QED
      BY <1>3, <2>1, FirstExists
  <1>10. Find(list, h) = {list[i] : i \in {j \in hits : \A k \in hits : j <= k}}
    BY DEF Find
  <1>11. naming = {} <=> Find(list, h) = {}
    <2> HIDE DEF naming, hits
    <2> QED
      BY <1>7, <1>8, <1>9, <1>10
  <1>12. Find(list, h) \subseteq {Written(e) : e \in naming}
    <2> HIDE DEF naming, hits
    <2> QED
      BY <1>7, <1>10
  <1> QED
    BY <1>11, <1>12

\* FindTellsRecords: whatever the records, a verifier finds in the published
\* list exactly the leaves they name, and what they say of them.
THEOREM FindTellsRecordsHolds == ListingSpec => []FindTellsRecords
  BY ListingInvariant, FindInvariant, PTL

----------------------------------------------------------------------------
(* Tool traces.                                                             *)

TraceSpec == TraceInit /\ [][Inspect]_inspection

TraceInv ==
  /\ carried \in Traces
  /\ \A r \in trace : r = InspectToolTrace(carried, exact)

LEMMA TraceInvariant == TraceSpec => []TraceInv
  <1>1. TraceInit => TraceInv
    BY DEF TraceInit, TraceInv
  <1>2. TraceInv /\ [Inspect]_inspection => TraceInv'
    BY DEF TraceInv, Inspect, inspection
  <1> QED
    BY <1>1, <1>2, PTL DEF TraceSpec

LEMMA TraceForms ==
  ASSUME NEW t \in Traces
  PROVE  /\ t.form \in {"absent", "garbage", "array", "null", "object"}
         /\ t.form = "object" => t.members \in Seq(Member)
  <1>1. CASE t \in {[form |-> "absent"], [form |-> "garbage"], [form |-> "array"]}
    <2>1. \/ t = [form |-> "absent"] \/ t = [form |-> "garbage"]
          \/ t = [form |-> "array"]
      BY <1>1
    <2> QED
      BY <2>1
  <1>2. CASE t \in [form : {"null"}, spaced : BOOLEAN, tail : {"", "]", "more"}]
    BY <1>2
  <1>3. CASE t \in [form : {"object"}, members : BoundedSeq(Member, MaxMembers),
                    spaced : BOOLEAN, tail : {"", "]", "more"}]
    <2>1. t.form = "object" /\ t.members \in BoundedSeq(Member, MaxMembers)
      BY <1>3
    <2> QED
      BY <2>1 DEF BoundedSeq, SeqOf
  <1> QED
    BY <1>1, <1>2, <1>3 DEF Traces

\* A report of a match comes from the last branch.
LEMMA MatchBranch ==
  ASSUME NEW t \in Traces, NEW h, InspectToolTrace(t, h).matches
  PROVE  /\ InspectToolTrace(t, h).parsed /\ InspectToolTrace(t, h).checked
         /\ InspectToolTrace(t, h).note = ""
         /\ InspectToolTrace(t, h).canonical = IsCanonical(t)
         /\ Decoded(t, "ExactHash") \in {Hex(h), Upper(h)}
         /\ t.form \notin {"absent", "garbage", "array"}
  BY DEF InspectToolTrace, Blank

\* In a canonical object the last member that Go takes for exact_hash is the
\* member of that name, if it is not null.
LEMMA CanonicalDecoded ==
  ASSUME NEW ms \in Seq(Member), NEW i \in DOMAIN ms,
         \A j, k \in DOMAIN ms : j < k => ms[j].key < ms[k].key,
         Keys[ms[i].key] = "exact_hash", ms[i].value # Null,
         NEW t, Members(t) = ms
  PROVE  Decoded(t, "ExactHash") = ms[i].value
  <1> DEFINE given == {j \in DOMAIN ms : Field(ms[j].key) = "ExactHash"
                                          /\ ms[j].value # Null}
             last  == CHOOSE j \in given : \A k \in given : k <= j
  <1>1. DOMAIN ms = 1..Len(ms) /\ Len(ms) \in Nat
    OBVIOUS
  <1>2. \A j \in DOMAIN ms : ms[j].key \in 1..3
    <2>1. DOMAIN Keys = 1..3
      BY DEF Keys
    <2>2. \A j \in DOMAIN ms : ms[j] \in Member
      BY <1>1
    <2> QED
      BY <2>1, <2>2 DEF Member
  <1>3. ms[i].key = 3
    BY <1>2 DEF Keys
  <1>4. \A k \in DOMAIN ms : k <= i
    BY <1>1, <1>2, <1>3
  <1>5. i \in given
    BY <1>3 DEF Field, Keys
  <1>6. \A j \in given : (\A k \in given : k <= j) => j = i
    BY <1>1, <1>4, <1>5
  <1>7. last = i
    <2> HIDE DEF given
    <2>1. \A k \in given : k <= i
      BY <1>4 DEF given
    <2> QED
      BY <1>5, <1>6, <2>1
  <1> QED
    BY <1>5, <1>7 DEF Decoded

\* MatchNamesTheLeaf: whatever JSON a leaf carries, a canonical trace that is
\* reported as a match names this leaf's hash and no other.
THEOREM MatchAlwaysNamesTheLeaf == TraceSpec => []MatchNamesTheLeaf
  <1>1. TraceInv => MatchNamesTheLeaf
    <2> SUFFICES ASSUME TraceInv, NEW r \in trace, r.matches
                 PROVE  /\ r.parsed /\ r.checked /\ r.note = ""
                        /\ r.canonical =>
                             \A i \in DOMAIN carried.members :
                               Keys[carried.members[i].key] = "exact_hash" =>
                                 carried.members[i].value
                                   \in {Hex(exact), Upper(exact), Null}
      BY DEF MatchNamesTheLeaf
    <2>1. carried \in Traces /\ r = InspectToolTrace(carried, exact)
      BY DEF TraceInv
    <2>2. /\ r.parsed /\ r.checked /\ r.note = ""
          /\ r.canonical = IsCanonical(carried)
          /\ Decoded(carried, "ExactHash") \in {Hex(exact), Upper(exact)}
          /\ carried.form \notin {"absent", "garbage", "array"}
      BY <2>1, MatchBranch
    <2>3. CASE carried.form = "object"
      <3> SUFFICES ASSUME IsCanonical(carried), NEW i \in DOMAIN carried.members,
                          Keys[carried.members[i].key] = "exact_hash",
                          carried.members[i].value # Null
                   PROVE  carried.members[i].value \in {Hex(exact), Upper(exact)}
        BY <2>2
      <3>1. carried.members \in Seq(Member)
        BY <2>1, <2>3, TraceForms
      <3>2. \A j, k \in DOMAIN carried.members :
              j < k => carried.members[j].key < carried.members[k].key
        BY <2>3 DEF IsCanonical
      <3>3. Members(carried) = carried.members
        BY <2>3 DEF Members
      <3> QED
        BY <2>2, <3>1, <3>2, <3>3, CanonicalDecoded
    <2>4. CASE carried.form = "null"
      <3>1. Decoded(carried, "ExactHash") = Empty
        BY <2>4 DEF Decoded, Members
      <3>2. /\ Empty.type = "empty"
            /\ Hex(exact).type = "hex" /\ Upper(exact).type = "HEX"
        BY DEF Empty, Hex, Upper
      <3> QED
        BY <2>2, <3>1, <3>2
    <2>5. carried.form \in {"object", "null"}
      BY <2>1, <2>2, TraceForms
    <2> QED
      BY <2>2, <2>3, <2>4, <2>5
  <1> QED
    BY <1>1, TraceInvariant, PTL

\* The values a trace of HII's can have are told apart by their types.
LEMMA ValueTypes ==
  \A x, y : /\ Hex(x).type = "hex" /\ Upper(y).type = "HEX" /\ Hex(x).of = x
            /\ Null.type = "null" /\ Text.type = "text"
            /\ Empty.type = "empty" /\ Number.type = "number"
  BY DEF Hex, Upper, Null, Text, Empty, Number

\* What json.Unmarshal makes of such a trace.
LEMMA ProducedDecoded ==
  ASSUME NEW c, NEW h
  PROVE  LET t == Produced(c, h)
         IN  /\ Members(t) = t.members /\ DOMAIN t.members = 1..2
             /\ t.members[1].value = c /\ t.members[2].value = h
             /\ t.members[1].key = 2 /\ t.members[2].key = 3
             /\ t.form = "object" /\ ~t.spaced
             /\ Decoded(t, "CertificationID") = IF c = Null THEN Empty ELSE c
             /\ Decoded(t, "ExactHash") = IF h = Null THEN Empty ELSE h
  <1> DEFINE t == Produced(c, h)
  <1>1. /\ Members(t) = t.members /\ DOMAIN t.members = 1..2
        /\ t.members[1].value = c /\ t.members[2].value = h
        /\ t.members[1].key = 2 /\ t.members[2].key = 3
        /\ t.form = "object" /\ ~t.spaced
    <2>1. /\ t.form = "object" /\ ~t.spaced
          /\ t.members = <<[key |-> 2, value |-> c], [key |-> 3, value |-> h]>>
      BY Zenon DEF Produced
    <2> HIDE DEF t
    <2> QED
      BY <2>1 DEF Members
  <1> HIDE DEF t
  <1>2. ASSUME NEW field, NEW n \in 1..2, \A i \in 1..2 : Field(t.members[i].key) = field <=> i = n
        PROVE  Decoded(t, field) = IF t.members[n].value = Null THEN Empty
                                                                ELSE t.members[n].value
    <2> DEFINE given == {i \in DOMAIN Members(t) :
                  Field(Members(t)[i].key) = field /\ Members(t)[i].value # Null}
               last  == CHOOSE i \in given : \A j \in given : j <= i
    <2>1. given = IF t.members[n].value = Null THEN {} ELSE {n}
      BY <1>1, <1>2
    <2>2. Decoded(t, field) = IF given = {} THEN Empty ELSE Members(t)[last].value
      BY DEF Decoded
    <2> HIDE DEF given
    <2>3. given = {n} => last = n
      OBVIOUS
    <2> HIDE DEF last
    <2> QED
      BY <1>1, <2>1, <2>2, <2>3
  <1>3. /\ Field(2) = "CertificationID" /\ Field(3) = "ExactHash"
    BY DEF Field, Keys
  <1>4. Decoded(t, "CertificationID") = IF c = Null THEN Empty ELSE c
    <2>1. \A i \in 1..2 : Field(t.members[i].key) = "CertificationID" <=> i = 1
      BY <1>1, <1>3
    <2> QED
      BY <1>1, <1>2, <2>1
  <1>5. Decoded(t, "ExactHash") = IF h = Null THEN Empty ELSE h
    <2>1. \A i \in 1..2 : Field(t.members[i].key) = "ExactHash" <=> i = 2
      BY <1>1, <1>3
    <2> QED
      BY <1>1, <1>2, <2>1
  <1> QED
    BY <1>1, <1>4, <1>5 DEF t

\* A trace as HII writes it is parsed, canonical and remarked on by nothing; it
\* matches just when its hash is the leaf's.
THEOREM ProducedAlwaysUnderstood == TraceSpec => []ProducedIsUnderstood
  <1>1. TraceInv => ProducedIsUnderstood
    <2> SUFFICES ASSUME TraceInv, NEW c \in {Null, Text},
                        NEW h \in {Null} \cup {Hex(x) : x \in LeafHashes},
                        carried = Produced(c, h), NEW r \in trace
                 PROVE  /\ r.parsed /\ r.canonical /\ r.note = ""
                        /\ r.certification = Text <=> c = Text
                        /\ r.checked <=> h # Null
                        /\ r.matches <=> h = Hex(exact)
      BY DEF ProducedIsUnderstood
    <2> DEFINE t == Produced(c, h)
               stated == Decoded(t, "ExactHash")
    <2>1. /\ Members(t) = t.members /\ DOMAIN t.members = 1..2
          /\ t.members[1].value = c /\ t.members[2].value = h
          /\ t.members[1].key = 2 /\ t.members[2].key = 3
          /\ t.form = "object" /\ ~t.spaced
          /\ Decoded(t, "CertificationID") = IF c = Null THEN Empty ELSE c
          /\ stated = IF h = Null THEN Empty ELSE h
      BY ProducedDecoded
    <2>2. r = InspectToolTrace(t, exact)
      BY DEF TraceInv
    <2>3. Null # Text /\ Empty # Text /\ Null # Number /\ Text # Number
      BY ValueTypes
    <2>4. h = Null \/ \E x : h = Hex(x)
      OBVIOUS
    <2>5. /\ h # Number /\ h # Text /\ h # Empty /\ h # Upper(exact)
          /\ Null # Hex(exact)
      BY <2>4, ValueTypes
    <2> HIDE DEF t, stated
    <2>6. ~NotOfSchema(t) /\ t.tail # "more"
      <3>1. t.tail = ""
        BY DEF t, Produced
      <3>2. ~ \E i \in DOMAIN Members(t) : Members(t)[i].value = Number
        BY <2>1, <2>3, <2>5
      <3> QED
        BY <3>1, <3>2, Zenon DEF NotOfSchema
    <2>7. IsCanonical(t)
      BY <2>1 DEF IsCanonical
    <2> DEFINE parsed == [[Blank EXCEPT !.present = TRUE] EXCEPT !.parsed = TRUE,
                            !.certification = Decoded(t, "CertificationID"),
                            !.canonical = IsCanonical(t)]
    <2>8. r = IF stated = Empty THEN parsed
              ELSE [parsed EXCEPT !.checked = TRUE,
                                  !.matches = stated \in {Hex(exact), Upper(exact)}]
      <3>1. stated # Text
        BY <2>1, <2>3, <2>5
      <3>2. t.form # "absent" /\ t.form \notin {"garbage", "array"}
        BY <2>1
      <3> QED
        BY <2>2, <2>6, <3>1, <3>2, Zenon DEF InspectToolTrace, stated
    <2>9. /\ parsed.parsed /\ parsed.canonical = IsCanonical(t)
          /\ parsed.certification = Decoded(t, "CertificationID")
          /\ ~parsed.checked /\ ~parsed.matches
          /\ DOMAIN parsed = DOMAIN Blank
      BY Zenon DEF Blank
    <2>10. parsed.note = ""
      BY Zenon DEF Blank
    <2>11. {"parsed", "canonical", "certification", "checked", "matches", "note"}
             \subseteq DOMAIN Blank
      BY Zenon DEF Blank
    <2> HIDE DEF parsed
    <2>12. r.note = ""
      <3>1. r.note = parsed.note
        BY <2>8, <2>9, <2>11
      <3> QED
        BY <2>10, <3>1, Zenon
    <2>13. /\ r.parsed /\ r.canonical = IsCanonical(t)
           /\ r.certification = Decoded(t, "CertificationID")
           /\ r.checked <=> stated # Empty
           /\ r.matches <=> stated # Empty /\ stated \in {Hex(exact), Upper(exact)}
      BY <2>8, <2>9, <2>11
    <2>14. /\ r.parsed /\ r.canonical
           /\ r.certification = Text <=> c = Text
           /\ r.checked <=> h # Null
           /\ r.matches <=> h = Hex(exact)
      BY <2>1, <2>3, <2>5, <2>7, <2>13
    <2> QED
      BY <2>12, <2>14, Zenon
  <1> QED
    BY <1>1, TraceInvariant, PTL

----------------------------------------------------------------------------
(* Fingerprints.                                                           *)

MediaSpec == MediaInit /\ [][MediaNext]_media

\* What an attestation says of the certified file, whoever built it.
Says(att) ==
  /\ att.exact \in {Hash(certified, "sha256"), Hash(certified, "blake3")}
  /\ honest =>
       /\ att.alg \in Registered /\ att.sized
       /\ att.digest \in Digest(att.alg, certified.work)
       /\ \/ att.exactAlg = "sha256" /\ att.exact = Hash(certified, "sha256")
          \/ att.exactAlg \in {"blake3", ""} /\ att.exact = Hash(certified, "blake3")

Compared ==
  \/ presented = {} /\ found = {}
  \/ \E file \in File : \E att : \E m \in MatchMedia(file, att) :
       attested = {att} /\ presented = {file} /\ found = {m}

MediaInv ==
  /\ \A att \in attested : Says(att) /\ attested = {att}
  /\ Compared

\* Hashes of different files, or by different algorithms, differ.
LEMMA SameHash ==
  \A f, g, a, b : Hash(f, a) = Hash(g, b) => f = g /\ a = b
  <1> SUFFICES ASSUME NEW f, NEW g, NEW a, NEW b, Hash(f, a) = Hash(g, b)
               PROVE  f = g /\ a = b
    OBVIOUS
  <1>1. Hash(f, a).of = f /\ Hash(g, b).of = g
    BY DEF Hash
  <1>2. Hash(f, a).alg = a /\ Hash(g, b).alg = b
    BY DEF Hash
  <1> QED
    BY <1>1, <1>2

LEMMA ExactMeansSame ==
  ASSUME NEW file, NEW c, NEW att, exactMatch(file, att),
         att.exact \in {Hash(c, "sha256"), Hash(c, "blake3")}
  PROVE  file = c
  <1>1. att.exact = Hash(file, "sha256") \/ att.exact = Hash(file, "blake3")
    BY DEF exactMatch
  <1>2. att.exact = Hash(c, "sha256") \/ att.exact = Hash(c, "blake3")
    OBVIOUS
  <1> QED
    BY <1>1, <1>2, SameHash

\* Two digests of a work by one algorithm differ in unstable bits at most.
LEMMA DigestsClose ==
  ASSUME NEW alg \in Registered, NEW work,
         NEW d \in Digest(alg, work), NEW e \in Digest(alg, work)
  PROVE  /\ Distance(d, e) \in Nat
         /\ Distance(d, e) <= Cardinality(Unstable(alg, work))
         /\ Cardinality(Unstable(alg, work)) \in Nat
  <1> DEFINE apart == (d \ e) \cup (e \ d)
             U == Unstable(alg, work)
  <1>1. apart \subseteq U
    <2>1. CASE alg \in {"simhash64-v1", "simhash-text-v1"}
      <3>1. d = e
        BY <2>1 DEF Digest
      <3> QED
        BY <3>1
    <2>2. CASE alg \notin {"simhash64-v1", "simhash-text-v1"} /\ work.kind = "picture"
      <3>1. d \in PHash(work.block) /\ e \in PHash(work.block)
        BY <2>2 DEF Digest
      <3>2. apart \subseteq Ties(work.block)
        BY <3>1 DEF PHash
      <3>3. U = Ties(work.block)
        BY <2>2 DEF Unstable, Registered
      <3> QED
        BY <2>2, <3>2, <3>3
    <2>3. CASE alg \notin {"simhash64-v1", "simhash-text-v1"} /\ work.kind # "picture"
      BY <2>3 DEF Digest
    <2> QED
      BY <2>1, <2>2, <2>3
  <1>2. U \subseteq 1..Bits
    BY DEF Unstable, Ties
  <1> HIDE DEF apart, U
  <1>3. IsFiniteSet(1..Bits)
    BY ContentMatchAssumption, FS_Interval
  <1>4. IsFiniteSet(U) /\ IsFiniteSet(apart) /\ Cardinality(apart) <= Cardinality(U)
    BY <1>1, <1>2, <1>3, FS_Subset
  <1>5. Cardinality(apart) \in Nat /\ Cardinality(U) \in Nat
    BY <1>4, FS_CardinalityType
  <1> QED
    BY <1>4, <1>5 DEF Distance, apart, U

LEMMA AttestMediaSays == MediaInv /\ AttestMedia => MediaInv'
  <1> SUFFICES ASSUME MediaInv, AttestMedia
               PROVE  MediaInv'
    OBVIOUS
  <1>1. UNCHANGED <<certified, honest, presented, found>> /\ attested = {}
    BY DEF AttestMedia
  <1>2. PICK type \in DOMAIN defaultByMedia \cup {"audio"},
             asked \in Registered \cup {"", Other} :
          \/ attested' = {}
          \/ \E att \in Build(certified, type, asked) : attested' = {att}
    BY DEF AttestMedia
  <1>3. ASSUME NEW att \in Build(certified, type, asked)
        PROVE  Says(att)'
    <2> DEFINE default == IF type \in DOMAIN defaultByMedia THEN defaultByMedia[type]
                                                           ELSE Other
               alg     == IF asked = "" THEN default ELSE asked
    <2>1. PICK d \in Digest(alg, certified.work) :
            /\ alg \in Registered
            /\ att = [alg |-> alg, digest |-> d, sized |-> TRUE,
                      exact |-> Hash(certified, "blake3"), exactAlg |-> ""]
      BY <1>3 DEF Build
    <2> HIDE DEF alg
    <2>2. /\ att.exact = Hash(certified, "blake3") /\ att.exactAlg = ""
          /\ att.sized /\ att.alg \in Registered
          /\ att.digest \in Digest(att.alg, certified.work)
      BY <2>1
    <2> QED
      BY <1>1, <2>2 DEF Says
  <1>4. presented = {} /\ found = {}
    BY <1>1 DEF MediaInv, Compared
  <1> QED
    BY <1>1, <1>2, <1>3, <1>4 DEF MediaInv, Compared

LEMMA AttestDigestsSays == MediaInv /\ AttestDigests => MediaInv'
  <1> SUFFICES ASSUME MediaInv, AttestDigests
               PROVE  MediaInv'
    OBVIOUS
  <1>1. PICK hashed \in {"sha256", "blake3"},
             named \in {"sha256", "blake3", "", Other},
             alg \in Registered \cup {Other}, sized \in BOOLEAN,
             d \in Digest("simhash64-v1", certified.work) :
          /\ attested' = {BuildPrecomputed(Hash(certified, hashed), named, d, sized, alg)}
          /\ honest' = /\ sized /\ alg = "simhash64-v1"
                       /\ hashed = (IF named = "" THEN "blake3" ELSE named)
    BY DEF AttestDigests
  <1>2. UNCHANGED <<certified, presented, found>> /\ attested = {}
    BY DEF AttestDigests
  <1>3. presented = {} /\ found = {}
    BY <1>2 DEF MediaInv, Compared
  <1>5. PICK att : /\ att = BuildPrecomputed(Hash(certified, hashed), named, d, sized, alg)
                   /\ attested' = {att}
    BY <1>1
  <1>4. Says(att)'
    <2>1. /\ att.exact = Hash(certified, hashed) /\ att.exactAlg = named
          /\ att.digest = d /\ att.sized = sized /\ att.alg = alg
      BY <1>5 DEF BuildPrecomputed
    <2>2. "simhash64-v1" \in Registered
      BY DEF Registered
    <2>3. honest' => /\ sized /\ alg = "simhash64-v1"
                     /\ hashed = (IF named = "" THEN "blake3" ELSE named)
      BY <1>1
    <2>4. honest' =>
            \/ att.exactAlg = "sha256" /\ att.exact = Hash(certified, "sha256")
            \/ /\ att.exactAlg \in {"blake3", ""}
               /\ att.exact = Hash(certified, "blake3")
      BY <1>1, <2>1, <2>3 DEF Other
    <2>5. att.exact \in {Hash(certified, "sha256"), Hash(certified, "blake3")}
      BY <2>1
    <2>6. honest' => /\ att.alg \in Registered /\ att.sized
                     /\ att.digest \in Digest(att.alg, certified.work)
      BY <2>1, <2>2, <2>3
    <2> QED
      BY <1>2, <2>4, <2>5, <2>6 DEF Says
  <1> QED
    BY <1>2, <1>3, <1>4, <1>5 DEF MediaInv, Compared

LEMMA MediaInvariant == MediaSpec => []MediaInv
  <1>1. MediaInit => MediaInv
    BY DEF MediaInit, MediaInv, Compared
  <1>2. MediaInv /\ [MediaNext]_media => MediaInv'
    <2> SUFFICES ASSUME MediaInv, [MediaNext]_media
                 PROVE  MediaInv'
      OBVIOUS
    <2>1. CASE Compare
      <3>1. UNCHANGED <<certified, attested, honest>>
        BY <2>1 DEF Compare
      <3>2. PICK file \in File, att \in attested : \E m \in MatchMedia(file, att) :
              presented' = {file} /\ found' = {m}
        BY <2>1 DEF Compare
      <3>3. attested' = {att}
        BY <3>1, <3>2 DEF MediaInv
      <3>4. Compared'
        BY <3>2, <3>3 DEF Compared
      <3> QED
        BY <3>1, <3>4 DEF MediaInv, Says
    <2>2. CASE UNCHANGED media
      BY <2>2 DEF media, MediaInv, Says, Compared
    <2> QED
      BY <2>1, <2>2, AttestMediaSays, AttestDigestsSays DEF MediaNext
  <1> QED
    BY <1>1, <1>2, PTL DEF MediaSpec

LEMMA OwnMedia == MediaInv => OwnMediaMatches
  <1> SUFFICES ASSUME MediaInv, honest, NEW file \in presented, NEW att \in attested,
                      NEW m \in found, file.work = certified.work
               PROVE  LET unstable == Cardinality(Unstable(att.alg, certified.work))
                      IN  /\ m.exact <=> file = certified
                          /\ att.digest # {} =>
                               /\ m.checked /\ m.distance <= unstable
                               /\ unstable <= Tolerance[att.alg] => m.match
    BY DEF OwnMediaMatches
  <1> DEFINE unstable == Cardinality(Unstable(att.alg, certified.work))
             exactly == exactMatch(file, att)
  <1>1. m \in MatchMedia(file, att) /\ Says(att)
    BY DEF MediaInv, Compared
  <1>2. /\ att.alg \in Registered /\ att.sized
        /\ att.digest \in Digest(att.alg, file.work)
        /\ \/ att.exactAlg = "sha256" /\ att.exact = Hash(certified, "sha256")
           \/ att.exactAlg \in {"blake3", ""} /\ att.exact = Hash(certified, "blake3")
    BY <1>1 DEF Says
  <1>3. Tolerance[att.alg] \in Nat
    BY <1>2, ContentMatchAssumption
  <1>4. exactly <=> file = certified
    <2>1. exactly => file = certified
      BY <1>2, ExactMeansSame
    <2>2. file = certified => exactly
      BY <1>2 DEF exactMatch
    <2> QED
      BY <2>1, <2>2
  <1> HIDE DEF exactly
  <1>5. PICK d \in Digest(att.alg, file.work) :
          m = Checked(exactly, Distance(d, att.digest), att.alg)
    BY <1>1, <1>2 DEF MatchMedia, exactly
  <1>6. /\ Distance(d, att.digest) \in Nat /\ unstable \in Nat
        /\ Distance(d, att.digest) <= unstable
    BY <1>2, DigestsClose
  <1>7. /\ m.exact = exactly /\ m.checked
        /\ m.distance = Distance(d, att.digest)
        /\ m.match <=> Distance(d, att.digest) <= Tolerance[att.alg]
    BY <1>5 DEF Checked
  <1> HIDE DEF unstable
  <1>8. unstable <= Tolerance[att.alg] => m.match
    BY <1>3, <1>6, <1>7
  <1> QED
    BY <1>4, <1>6, <1>7, <1>8 DEF unstable

\* OwnMediaMatches: whatever the algorithms' features and tolerances, the media
\* an honest attestation was made from are recognised, exactly by their bytes and,
\* unless their digest is all zero, within the bits that rounding decides.
THEOREM OwnMediaAlwaysMatches == MediaSpec => []OwnMediaMatches
  BY MediaInvariant, OwnMedia, PTL

LEMMA Earned == MediaInv => MatchIsEarned
  <1> SUFFICES ASSUME MediaInv, NEW file \in presented, NEW att \in attested,
                      NEW m \in found
               PROVE  /\ m.exact => file = certified
                      /\ m.match =>
                           /\ att.sized
                           /\ \E d \in Digest(att.alg, file.work) :
                                Distance(d, att.digest) <= Tolerance[att.alg]
                      /\ ~m.checked <=> m.note # ""
                      /\ ~m.checked => ~m.match
    BY DEF MatchIsEarned
  <1>1. m \in MatchMedia(file, att) /\ Says(att)
    BY DEF MediaInv, Compared
  <1> DEFINE exactly == exactMatch(file, att)
  <1>2. exactly => file = certified
    BY <1>1, ExactMeansSame DEF Says
  <1> HIDE DEF exactly
  <1>3. \/ \E note \in {"unknown algorithm", "digest failed", "distance failed"} :
             m = Unchecked(exactly, note)
        \/ /\ att.sized
           /\ \E d \in Digest(att.alg, file.work) :
                m = Checked(exactly, Distance(d, att.digest), att.alg)
    BY <1>1 DEF MatchMedia, exactly
  <1>4. ASSUME NEW note \in {"unknown algorithm", "digest failed", "distance failed"},
               m = Unchecked(exactly, note)
        PROVE  /\ m.exact => file = certified
               /\ ~m.match /\ ~m.checked /\ m.note # ""
    <2>1. m.exact = exactly
      BY <1>4 DEF Unchecked
    <2>2. m.match = FALSE /\ m.checked = FALSE /\ m.note = note
      BY <1>4 DEF Unchecked
    <2> QED
      BY <1>2, <2>1, <2>2
  <1>5. ASSUME att.sized, NEW d \in Digest(att.alg, file.work),
               m = Checked(exactly, Distance(d, att.digest), att.alg)
        PROVE  /\ m.exact => file = certified
               /\ m.match =>
                    /\ att.sized
                    /\ \E e \in Digest(att.alg, file.work) :
                         Distance(e, att.digest) <= Tolerance[att.alg]
               /\ ~m.checked <=> m.note # ""
               /\ ~m.checked => ~m.match
    <2>1. /\ m.exact = exactly /\ m.checked /\ m.note = ""
          /\ m.match <=> Distance(d, att.digest) <= Tolerance[att.alg]
      BY <1>5 DEF Checked
    <2> QED
      BY <1>2, <1>5, <2>1
  <1> QED
    BY <1>3, <1>4, <1>5

\* MatchIsEarned: whatever an attestation says, exact matches are of the very
\* bytes, fuzzy ones by its own algorithm, and comparisons that were not made
\* are none.
THEOREM MatchesAlwaysEarned == MediaSpec => []MatchIsEarned
  BY MediaInvariant, Earned, PTL

----------------------------------------------------------------------------
(* Strings one after the other, and what FlattenSeq makes of them.         *)

\* up[k] is the first k of the n strings in s, one after the other.
Joins(up, s, n) ==
  up[0] = << >> /\ \A k \in 0..n : k # n => up[k + 1] = up[k] \o s[k + 1]

LEMMA JoinsExist ==
  ASSUME NEW D, NEW n \in Nat, NEW s \in [1..n -> Seq(D)]
  PROVE  \E up \in [0..n -> Seq(D)] : Joins(up, s, n)
  <1> DEFINE Strings == Seq(D)
             step == [k \in 0..n |-> [v \in Strings |-> IF k = n THEN v ELSE v \o s[k + 1]]]
  <1>1. \A k \in 0..n, v \in Strings : k # n => v \o s[k + 1] \in Strings
    <2> SUFFICES ASSUME NEW k \in 0..n, NEW v \in Strings, k # n
                 PROVE  v \o s[k + 1] \in Strings
      OBVIOUS
    <2>1. s[k + 1] \in Seq(D)
      OBVIOUS
    <2> QED
      BY <2>1, ConcatProperties
  <1>2. << >> \in Strings
    BY EmptySeq
  <1> HIDE DEF Strings
  <1>3. step \in [0..n -> [Strings -> Strings]]
    BY <1>1
  <1>4. \A k \in 0..n, v \in Strings : k # n => step[k][v] = v \o s[k + 1]
    OBVIOUS
  <1> HIDE DEF step
  <1>5. PICK up \in [0..n -> Strings] : Repeats(up, n, << >>, step)
    BY <1>2, <1>3, IntervalRecursion
  <1>6. Joins(up, s, n)
    <2>1. up[0] = << >>
      BY <1>5 DEF Repeats
    <2>2. ASSUME NEW k \in 0..n, k # n
          PROVE  up[k + 1] = up[k] \o s[k + 1]
      <3>1. up[k] \in Strings
        OBVIOUS
      <3>2. up[k + 1] = step[k][up[k]]
        BY <1>5, <2>2 DEF Repeats
      <3> QED
        BY <1>4, <2>2, <3>1, <3>2
    <2> QED
      BY <2>1, <2>2 DEF Joins
  <1> QED
    BY <1>6 DEF Strings

LEMMA FlattenSome ==
  ASSUME NEW D, NEW n \in Nat, n # 0, NEW s \in [1..n -> Seq(D)],
         NEW up \in [0..n -> Seq(D)], Joins(up, s, n)
  PROVE  FlattenSeq(s) = up[n]
  <1> DEFINE Unfolded(f) == [i \in 1..n |-> IF i = 1 THEN s[i] ELSE f[i - 1] \o s[i]]
             flatten == CHOOSE f : f = Unfolded(f)
             joined == [i \in 1..n |-> up[i]]
  <1>1. Len(s) = n
    <2> DEFINE Strings == Seq(D)
    <2>1. s \in Seq(Strings) /\ s \in [1..n -> Strings]
      OBVIOUS
    <2> QED
      BY <2>1, LenProperties
  <1>2. up[1] = s[1]
    <2>1. 0 \in 0..n /\ 0 # n /\ 0 + 1 = 1
      OBVIOUS
    <2>2. up[0 + 1] = up[0] \o s[0 + 1] /\ up[0] = << >>
      BY <2>1 DEF Joins
    <2>3. s[1] \in Seq(D)
      OBVIOUS
    <2> QED
      BY <2>1, <2>2, <2>3, ConcatEmptySeq
  <1>3. ASSUME NEW i \in 1..n, i # 1
        PROVE  up[i] = up[i - 1] \o s[i]
    <2>1. i - 1 \in 0..n /\ i - 1 # n /\ (i - 1) + 1 = i
      BY <1>3
    <2> QED
      BY <2>1 DEF Joins
  <1>4. joined = Unfolded(joined)
    <2>1. ASSUME NEW i \in 1..n
          PROVE  joined[i] = Unfolded(joined)[i]
      <3>1. CASE i = 1
        BY <1>2, <3>1
      <3>2. CASE i # 1
        <4>1. i - 1 \in 1..n
          BY <3>2
        <4> QED
          BY <1>3, <3>2, <4>1
      <3> QED
        BY <3>1, <3>2
    <2> QED
      BY <2>1
  <1>5. flatten = Unfolded(flatten)
    <2> HIDE DEF Unfolded, joined
    <2> QED
      BY <1>4
  <1>6. FlattenSeq(s) = flatten[n]
    BY <1>1 DEF FlattenSeq
  <1>7. \A i \in 1..n : flatten[i] = IF i = 1 THEN s[i] ELSE flatten[i - 1] \o s[i]
    <2> HIDE DEF flatten
    <2> QED
      BY <1>5
  <1> HIDE DEF flatten
  <1> DEFINE S == {k \in 0..n : k # 0 => flatten[k] = up[k]}
  <1>8. 0 \in S
    OBVIOUS
  <1>9. ASSUME NEW k \in 0..n, k # n, k \in S
        PROVE  k + 1 \in S
    <2>1. k + 1 \in 1..n /\ (k + 1) - 1 = k
      BY <1>9
    <2>2. CASE k = 0
      BY <1>2, <1>7, <2>1, <2>2
    <2>3. CASE k # 0
      <3> DEFINE i == k + 1
      <3>1. i \in 1..n /\ i # 1 /\ i - 1 = k
        BY <2>1, <2>3
      <3> HIDE DEF i
      <3>2. flatten[i] = flatten[k] \o s[i] /\ up[i] = up[k] \o s[i]
        BY <1>3, <1>7, <3>1
      <3>3. flatten[k] = up[k]
        BY <1>9, <2>3
      <3>4. flatten[k + 1] = up[k + 1]
        BY <3>2, <3>3 DEF i
      <3> QED
        BY <2>1, <3>4
    <2> QED
      BY <2>2, <2>3
  <1>10. \A k \in 0..n : k \in S
    <2> HIDE DEF S
    <2> QED
      BY <1>8, <1>9, IntervalInduction
  <1> QED
    BY <1>6, <1>10

LEMMA FlattenJoins ==
  ASSUME NEW D, NEW n \in Nat, NEW s \in [1..n -> Seq(D)],
         NEW up \in [0..n -> Seq(D)], Joins(up, s, n)
  PROVE  FlattenSeq(s) = up[n]
  <1>1. CASE n # 0
    BY <1>1, FlattenSome
  <1>2. CASE n = 0
    <2>1. s = << >> /\ Len(s) = 0
      <3>1. s \in [1..0 -> Seq(D)]
        BY <1>2
      <3>2. s \in Seq(Seq(D)) /\ Len(s) = 0
        <4> DEFINE Strings == Seq(D)
        <4>1. s \in [1..0 -> Strings]
          BY <3>1
        <4> HIDE DEF Strings
        <4>2. s \in Seq(Strings) /\ Len(s) = 0
          BY <4>1, SeqDef, LenProperties
        <4> QED
          BY <4>2 DEF Strings
      <3> QED
        BY <3>2, EmptySeq
    <2>2. up[0] = << >>
      BY DEF Joins
    <2> QED
      BY <1>2, <2>1, <2>2 DEF FlattenSeq
  <1> QED
    BY <1>1, <1>2

\* One more string.
LEMMA FlattenAppend ==
  ASSUME NEW D, NEW n \in Nat, NEW s \in [1..n -> Seq(D)], NEW t \in [1..(n + 1) -> Seq(D)],
         \A i \in 1..n : t[i] = s[i]
  PROVE  FlattenSeq(s) \in Seq(D) /\ FlattenSeq(t) = FlattenSeq(s) \o t[n + 1]
  <1>1. PICK up \in [0..(n + 1) -> Seq(D)] : Joins(up, t, n + 1)
    BY JoinsExist
  <1> DEFINE vp == [k \in 0..n |-> up[k]]
  <1>2. vp \in [0..n -> Seq(D)]
    <2>1. \A k \in 0..n : up[k] \in Seq(D)
      OBVIOUS
    <2> QED
      BY <2>1
  <1>3. Joins(vp, s, n)
    <2>1. vp[0] = << >>
      BY <1>1 DEF Joins
    <2>2. ASSUME NEW k \in 0..n, k # n
          PROVE  vp[k + 1] = vp[k] \o s[k + 1]
      <3>1. k + 1 \in 1..n /\ k + 1 \in 0..n /\ k \in 0..(n + 1) /\ k # n + 1
        BY <2>2
      <3>2. up[k + 1] = up[k] \o t[k + 1]
        BY <1>1, <3>1 DEF Joins
      <3>3. t[k + 1] = s[k + 1]
        BY <3>1
      <3>4. vp[k + 1] = up[k + 1] /\ vp[k] = up[k]
        BY <3>1
      <3> QED
        BY <3>2, <3>3, <3>4
    <2> HIDE DEF vp
    <2> QED
      BY <2>1, <2>2 DEF Joins
  <1>4. FlattenSeq(s) = vp[n] /\ FlattenSeq(t) = up[n + 1]
    <2> HIDE DEF vp
    <2>1. FlattenSeq(s) = vp[n]
      BY <1>2, <1>3, FlattenJoins
    <2>2. n + 1 \in Nat
      OBVIOUS
    <2>3. FlattenSeq(t) = up[n + 1]
      BY <1>1, <2>2, FlattenJoins
    <2> QED
      BY <2>1, <2>3
  <1>5. up[n + 1] = up[n] \o t[n + 1]
    <2>1. n \in 0..(n + 1) /\ n # n + 1
      OBVIOUS
    <2> QED
      BY <1>1, <2>1 DEF Joins
  <1>6. vp[n] = up[n] /\ up[n] \in Seq(D)
    <2>1. n \in 0..n /\ n \in 0..(n + 1)
      OBVIOUS
    <2> QED
      BY <2>1
  <1> QED
    BY <1>4, <1>5, <1>6

LEMMA ConcatParts ==
  ASSUME NEW D, NEW u \in Seq(D), NEW v \in Seq(D)
  PROVE  /\ u \o v \in Seq(D) /\ Len(u) \in Nat /\ Len(v) \in Nat
         /\ Len(u \o v) = Len(u) + Len(v)
         /\ \A i \in 1..Len(u) : (u \o v)[i] = u[i]
         /\ \A j \in 1..Len(v) : (u \o v)[Len(u) + j] = v[j]
  <1>1. PICK p \in Nat : p = Len(u)
    BY LenProperties
  <1>2. PICK q \in Nat : q = Len(v)
    BY LenProperties
  <1>3. /\ u \o v \in Seq(D) /\ Len(u \o v) = p + q
        /\ \A i \in 1..(p + q) : (u \o v)[i] = IF i <= p THEN u[i] ELSE v[i - p]
    BY <1>1, <1>2, ConcatProperties
  <1>4. ASSUME NEW i \in 1..p
        PROVE  (u \o v)[i] = u[i]
    <2>1. i \in 1..(p + q) /\ i <= p
      OBVIOUS
    <2> QED
      BY <1>3, <2>1
  <1>5. ASSUME NEW j \in 1..q
        PROVE  (u \o v)[p + j] = v[j]
    <2>1. p + j \in 1..(p + q) /\ ~(p + j <= p) /\ (p + j) - p = j
      OBVIOUS
    <2> QED
      BY <1>3, <2>1
  <1> QED
    BY <1>1, <1>2, <1>3, <1>4, <1>5

\* u is as long as w or shorter, and the same as far as it goes.
Begins(u, w) == Len(u) <= Len(w) /\ \A i \in 1..Len(u) : w[i] = u[i]

LEMMA BeginsBegins ==
  ASSUME NEW u, NEW v, NEW w, Len(u) \in Nat, Len(v) \in Nat, Len(w) \in Nat,
         Begins(u, v), Begins(v, w)
  PROVE  Begins(u, w)
  <1>1. PICK a \in Nat : a = Len(u)
    OBVIOUS
  <1>2. PICK b \in Nat : b = Len(v)
    OBVIOUS
  <1>3. PICK c \in Nat : c = Len(w)
    OBVIOUS
  <1>4. /\ a <= b /\ \A i \in 1..a : v[i] = u[i]
        /\ b <= c /\ \A i \in 1..b : w[i] = v[i]
    BY <1>1, <1>2, <1>3 DEF Begins
  <1>5. a <= c
    BY <1>4
  <1>6. ASSUME NEW i \in 1..a
        PROVE  w[i] = u[i]
    <2>1. i \in 1..b
      BY <1>4
    <2> QED
      BY <1>4, <2>1
  <1> QED
    BY <1>1, <1>3, <1>5, <1>6 DEF Begins

LEMMA JoinsStep ==
  ASSUME NEW D, NEW n \in Nat, NEW s \in [1..n -> Seq(D)],
         NEW up \in [0..n -> Seq(D)], Joins(up, s, n), NEW k \in 0..n, k # n
  PROVE  /\ k + 1 \in 0..n /\ k + 1 \in 1..n
         /\ up[k] \in Seq(D) /\ s[k + 1] \in Seq(D)
         /\ up[k + 1] = up[k] \o s[k + 1]
         /\ Begins(up[k], up[k + 1])
  <1>1. k + 1 \in 0..n /\ k + 1 \in 1..n
    OBVIOUS
  <1>2. up[k] \in Seq(D) /\ s[k + 1] \in Seq(D) /\ up[k + 1] = up[k] \o s[k + 1]
    BY <1>1 DEF Joins
  <1>3. PICK u \in Seq(D) : u = up[k]
    BY <1>2
  <1>4. PICK v \in Seq(D) : v = s[k + 1]
    BY <1>2
  <1>5. Begins(u, u \o v)
    <2>1. /\ Len(u) \in Nat /\ Len(v) \in Nat /\ Len(u \o v) = Len(u) + Len(v)
          /\ \A i \in 1..Len(u) : (u \o v)[i] = u[i]
      BY ConcatParts
    <2>2. Len(u) <= Len(u \o v)
      BY <2>1
    <2> QED
      BY <2>1, <2>2 DEF Begins
  <1> QED
    BY <1>1, <1>2, <1>3, <1>4, <1>5

\* The first k strings begin all of them.
LEMMA JoinsBegin ==
  ASSUME NEW D, NEW n \in Nat, NEW s \in [1..n -> Seq(D)],
         NEW up \in [0..n -> Seq(D)], Joins(up, s, n)
  PROVE  \A k \in 0..n : Begins(up[k], up[n])
  <1> DEFINE S == {d \in 0..n : Begins(up[n - d], up[n])}
  <1>0. \A k \in 0..n : Len(up[k]) \in Nat
    <2> SUFFICES ASSUME NEW k \in 0..n
                 PROVE  Len(up[k]) \in Nat
      OBVIOUS
    <2>1. up[k] \in Seq(D)
      OBVIOUS
    <2> QED
      BY <2>1, LenProperties
  <1>1. 0 \in S
    <2>1. n - 0 = n /\ n \in 0..n
      OBVIOUS
    <2>2. Begins(up[n], up[n])
      BY <1>0, <2>1 DEF Begins
    <2> QED
      BY <2>1, <2>2
  <1>2. ASSUME NEW d \in 0..n, d # n, d \in S
        PROVE  d + 1 \in S
    <2>1. PICK k \in 0..n : k = n - (d + 1)
      BY <1>2
    <2>2. k # n /\ n - d = k + 1 /\ n \in 0..n
      BY <1>2, <2>1
    <2>3. Begins(up[k + 1], up[n])
      BY <1>2, <2>2
    <2>4. Begins(up[k], up[k + 1]) /\ k + 1 \in 0..n
      BY <2>2, JoinsStep
    <2>5. Begins(up[k], up[n])
      BY <1>0, <2>2, <2>3, <2>4, BeginsBegins
    <2> QED
      BY <1>2, <2>1, <2>5
  <1>3. \A d \in 0..n : d \in S
    <2> HIDE DEF S
    <2> QED
      BY <1>1, <1>2, IntervalInduction
  <1>4. ASSUME NEW k \in 0..n
        PROVE  Begins(up[k], up[n])
    <2>1. PICK d \in 0..n : n - d = k
      <3>1. n - k \in 0..n /\ n - (n - k) = k
        OBVIOUS
      <3> QED
        BY <3>1
    <2>2. d \in S
      BY <1>3
    <2> QED
      BY <2>1, <2>2
  <1> QED
    BY <1>4

\* v is found in w after p elements.
Found(w, p, v) ==
  p + Len(v) <= Len(w) /\ \A j \in 1..Len(v) : w[p + j] = v[j]

LEMMA FoundAfter ==
  ASSUME NEW D, NEW u \in Seq(D), NEW v \in Seq(D), NEW w, Begins(u \o v, w)
  PROVE  Found(w, Len(u), v)
  <1>1. PICK p \in Nat : p = Len(u)
    BY LenProperties
  <1>2. PICK q \in Nat : q = Len(v)
    BY LenProperties
  <1>3. Len(u \o v) = p + q /\ \A j \in 1..q : (u \o v)[p + j] = v[j]
    BY <1>1, <1>2, ConcatParts
  <1>4. p + q <= Len(w) /\ \A i \in 1..(p + q) : w[i] = (u \o v)[i]
    BY <1>3 DEF Begins
  <1>5. ASSUME NEW j \in 1..q
        PROVE  w[p + j] = v[j]
    <2>1. p + j \in 1..(p + q)
      OBVIOUS
    <2> QED
      BY <1>3, <1>4, <2>1
  <1> QED
    BY <1>1, <1>2, <1>4, <1>5 DEF Found

\* Where the next string is found.
FoundNext(D, up, s, n, k) ==
  /\ s[k + 1] \in Seq(D) /\ Len(up[k]) \in Nat /\ Len(s[k + 1]) \in Nat
  /\ Len(up[k + 1]) = Len(up[k]) + Len(s[k + 1])
  /\ Found(up[n], Len(up[k]), s[k + 1])

LEMMA JoinsNext ==
  ASSUME NEW D, NEW n \in Nat, NEW s \in [1..n -> Seq(D)],
         NEW up \in [0..n -> Seq(D)], Joins(up, s, n), NEW k \in 0..n, k # n
  PROVE  FoundNext(D, up, s, n, k)
  <1>1. k + 1 \in 0..n
    BY JoinsStep
  <1>2. up[k] \in Seq(D) /\ s[k + 1] \in Seq(D)
    BY JoinsStep
  <1>3. up[k + 1] = up[k] \o s[k + 1]
    BY <1>1 DEF Joins
  <1>4. Begins(up[k + 1], up[n])
    BY <1>1, JoinsBegin
  <1>5. PICK u \in Seq(D) : u = up[k]
    BY <1>2
  <1>6. PICK v \in Seq(D) : v = s[k + 1]
    BY <1>2
  <1>7. Found(up[n], Len(u), v)
    BY <1>3, <1>4, <1>5, <1>6, FoundAfter
  <1>8. Len(u) \in Nat /\ Len(v) \in Nat /\ Len(u \o v) = Len(u) + Len(v)
    BY ConcatParts
  <1> QED
    BY <1>3, <1>5, <1>6, <1>7, <1>8 DEF FoundNext

\* Of two rows of strings, how long the k-th ones are is told by their first
\* element.
Delimited(s, t, n) ==
  \A k \in 1..n :
    \/ s[k] = << >> /\ t[k] = << >>
    \/ /\ Len(s[k]) # 0 /\ Len(t[k]) # 0
       /\ s[k][1] = t[k][1] => Len(s[k]) = Len(t[k])

LEMMA HeldAlike ==
  ASSUME NEW D, NEW w, NEW p, NEW d \in Seq(D), NEW e \in Seq(D),
         Found(w, p, d), Found(w, p, e),
         Len(d) # 0, Len(e) # 0, d[1] = e[1] => Len(d) = Len(e)
  PROVE  d = e
  <1>1. Len(d) \in Nat /\ Len(e) \in Nat
    BY LenProperties
  <1>2. 1 \in 1..Len(d) /\ 1 \in 1..Len(e)
    BY <1>1
  <1>3. w[p + 1] = d[1] /\ w[p + 1] = e[1]
    BY <1>2 DEF Found
  <1>4. Len(d) = Len(e)
    BY <1>3
  <1>5. \A j \in 1..Len(d) : d[j] = e[j]
    BY <1>4 DEF Found
  <1> QED
    BY <1>4, <1>5, SeqEqual

\* Such rows are told apart by what they make together.
LEMMA JoinsTell ==
  ASSUME NEW D, NEW n \in Nat, NEW s \in [1..n -> Seq(D)], NEW t \in [1..n -> Seq(D)],
         NEW up \in [0..n -> Seq(D)], Joins(up, s, n),
         NEW vp \in [0..n -> Seq(D)], Joins(vp, t, n),
         up[n] = vp[n], Delimited(s, t, n)
  PROVE  s = t
  <1> DEFINE S == {k \in 0..n : Len(up[k]) = Len(vp[k]) /\ \A j \in 1..k : s[j] = t[j]}
  <1>1. 0 \in S
    BY DEF Joins
  <1>2. ASSUME NEW k \in 0..n, k # n, k \in S
        PROVE  k + 1 \in S
    <2>1. Len(vp[k]) = Len(up[k]) /\ \A j \in 1..k : s[j] = t[j]
      BY <1>2
    <2> HIDE DEF S
    <2>2. k + 1 \in 1..n
      BY <1>2
    <2>3. /\ s[k + 1] \in Seq(D) /\ Len(up[k]) \in Nat /\ Len(s[k + 1]) \in Nat
          /\ Len(up[k + 1]) = Len(up[k]) + Len(s[k + 1])
          /\ Found(up[n], Len(up[k]), s[k + 1])
      <3>1. FoundNext(D, up, s, n, k)
        BY <1>2, JoinsNext, Zenon
      <3> QED
        BY <3>1 DEF FoundNext
    <2>4. /\ t[k + 1] \in Seq(D) /\ Len(t[k + 1]) \in Nat
          /\ Len(vp[k + 1]) = Len(vp[k]) + Len(t[k + 1])
          /\ Found(vp[n], Len(vp[k]), t[k + 1])
      <3>1. FoundNext(D, vp, t, n, k)
        BY <1>2, JoinsNext, Zenon
      <3> QED
        BY <3>1 DEF FoundNext
    <2>5. PICK d \in Seq(D) : d = s[k + 1]
      BY <2>3
    <2>6. PICK e \in Seq(D) : e = t[k + 1]
      BY <2>4
    <2>7. d = e
      <3>1. Found(up[n], Len(up[k]), d) /\ Found(up[n], Len(up[k]), e)
        BY <2>1, <2>3, <2>4, <2>5, <2>6
      <3>2. \/ d = << >> /\ e = << >>
            \/ /\ Len(d) # 0 /\ Len(e) # 0
               /\ d[1] = e[1] => Len(d) = Len(e)
        BY <2>2, <2>5, <2>6 DEF Delimited
      <3> QED
        BY <3>1, <3>2, HeldAlike
    <2>8. Len(up[k + 1]) = Len(vp[k + 1])
      BY <2>1, <2>3, <2>4, <2>5, <2>6, <2>7
    <2>9. ASSUME NEW j \in 1..(k + 1)
          PROVE  s[j] = t[j]
      <3>1. j = k + 1 \/ j \in 1..k
        OBVIOUS
      <3> QED
        BY <2>1, <2>5, <2>6, <2>7, <3>1
    <2> QED
      BY <1>2, <2>2, <2>8, <2>9 DEF S
  <1>3. \A k \in 0..n : k \in S
    <2> HIDE DEF S
    <2> QED
      BY <1>1, <1>2, IntervalInduction
  <1>4. \A j \in 1..n : s[j] = t[j]
    <2>1. n \in S
      BY <1>3
    <2> QED
      BY <2>1
  <1> QED
    BY <1>4

----------------------------------------------------------------------------
(* The fields of a leaf.                                                   *)

\* What a field of a form can hold.
IsField(form, v) ==
  /\ v \in Seq(Bytes) /\ Len(v) \in Bytes
  /\ form = "fixed" => Len(v) = 1
  /\ form = "opt" => Len(v) \in {0, 1}

LEMMA ByteTypes == Bytes \subseteq Nat /\ 0 \in Bytes /\ 1 \in Bytes
  BY LeafCodecAssumption

\* An encoded field: itself, or its length and itself.
LEMMA FieldEncoded ==
  ASSUME NEW form, NEW v, IsField(form, v)
  PROVE  /\ Encode(form, v) \in Seq(Bytes)
         /\ form = "fixed" => Encode(form, v) = v
         /\ form # "fixed" => /\ Len(Encode(form, v)) = 1 + Len(v)
                              /\ Encode(form, v)[1] = Len(v)
                              /\ \A j \in 1..Len(v) : Encode(form, v)[1 + j] = v[j]
  <1>1. CASE form = "fixed"
    BY <1>1 DEF Encode, IsField
  <1>2. CASE form # "fixed"
    <2>1. PICK b \in Bytes : b = Len(v)
      BY DEF IsField
    <2>2. <<b>> \in Seq(Bytes) /\ Len(<<b>>) = 1 /\ <<b>>[1] = b
      OBVIOUS
    <2>3. v \in Seq(Bytes)
      BY DEF IsField
    <2>4. /\ <<b>> \o v \in Seq(Bytes) /\ Len(<<b>> \o v) = 1 + Len(v)
          /\ \A i \in 1..1 : (<<b>> \o v)[i] = <<b>>[i]
          /\ \A j \in 1..Len(v) : (<<b>> \o v)[1 + j] = v[j]
      BY <2>2, <2>3, ConcatParts
    <2>5. (<<b>> \o v)[1] = b
      BY <2>2, <2>4
    <2>6. Encode(form, v) = <<b>> \o v
      BY <1>2, <2>1 DEF Encode
    <2> QED
      BY <1>2, <2>1, <2>4, <2>5, <2>6
  <1> QED
    BY <1>1, <1>2

\* Its first byte tells how long it is, and it tells the field.
LEMMA FieldsTell ==
  ASSUME NEW form, NEW v, NEW w, IsField(form, v), IsField(form, w)
  PROVE  /\ Len(Encode(form, v)) # 0
         /\ Encode(form, v)[1] = Encode(form, w)[1]
              => Len(Encode(form, v)) = Len(Encode(form, w))
         /\ Encode(form, v) = Encode(form, w) => v = w
  <1>1. Len(v) \in Nat /\ Len(w) \in Nat /\ v \in Seq(Bytes) /\ w \in Seq(Bytes)
    BY LenProperties DEF IsField
  <1>2. CASE form = "fixed"
    BY <1>2, FieldEncoded DEF IsField
  <1>3. CASE form # "fixed"
    <2>1. /\ Len(Encode(form, v)) = 1 + Len(v) /\ Encode(form, v)[1] = Len(v)
          /\ \A j \in 1..Len(v) : Encode(form, v)[1 + j] = v[j]
      BY <1>3, FieldEncoded
    <2>2. /\ Len(Encode(form, w)) = 1 + Len(w) /\ Encode(form, w)[1] = Len(w)
          /\ \A j \in 1..Len(w) : Encode(form, w)[1 + j] = w[j]
      BY <1>3, FieldEncoded
    <2>3. ASSUME Encode(form, v) = Encode(form, w)
          PROVE  v = w
      <3>1. Len(v) = Len(w) /\ \A j \in 1..Len(v) : v[j] = w[j]
        BY <2>1, <2>2, <2>3
      <3> QED
        BY <1>1, <3>1, SeqEqual
    <2> QED
      BY <1>1, <2>1, <2>2, <2>3
  <1> QED
    BY <1>2, <1>3

----------------------------------------------------------------------------
(* What the tables of fields say.                                          *)

Tags == DOMAIN Tag

Width(kind) == Len(Layout[kind])

LEMMA KindsAre ==
  /\ Tags = {"attestation", "binding", "anchor"}
  /\ DOMAIN Layout = Tags
  /\ Kinds \subseteq Tags
  /\ \A kind \in Tags : Tag[kind] \in Bytes /\ Tag[kind] \in Nat
  /\ \A kind, other \in Tags : Tag[kind] = Tag[other] => kind = other
  BY LeafCodecAssumption DEF Tags, Tag, Layout

\* What the tables say.
LEMMA LayoutFacts ==
  ASSUME NEW kind \in Tags
  PROVE  /\ Width(kind) \in Nat /\ Width(kind) >= 6
         /\ DOMAIN Layout[kind] = 1..Width(kind)
         /\ kind = "attestation" => Width(kind) = 14
         /\ \A i \in 1..Width(kind) :
              /\ Form(kind, i) \in {"fixed", "opt", "var"}
              /\ Form(kind, i) = "opt" => kind = "attestation" /\ i = 4
              /\ kind = "attestation" /\ i <= 3 => Form(kind, i) = "fixed"
              /\ Layout[kind][i][1] = "ToolTrace" => kind = "attestation" /\ i = 14
  <1>1. CASE kind = "attestation"
    <2>1. Layout[kind] = AttestationLayout
      BY <1>1 DEF Layout
    <2>2. Width(kind) = 14 /\ DOMAIN Layout[kind] = 1..14
      BY <2>1 DEF Width, AttestationLayout
    <2>3. ASSUME NEW i \in 1..14
          PROVE  /\ Form(kind, i) \in {"fixed", "opt", "var"}
                 /\ Form(kind, i) = "opt" => i = 4
                 /\ i <= 3 => Form(kind, i) = "fixed"
                 /\ Layout[kind][i][1] = "ToolTrace" => i = 14
      BY <2>1 DEF Form, AttestationLayout
    <2> QED
      BY <1>1, <2>2, <2>3
  <1>2. CASE kind = "binding"
    <2>1. Layout[kind] = BindingLayout
      BY <1>2 DEF Layout
    <2>2. Width(kind) = 6 /\ DOMAIN Layout[kind] = 1..6
      BY <2>1 DEF Width, BindingLayout
    <2>3. ASSUME NEW i \in 1..6
          PROVE  /\ Form(kind, i) \in {"fixed", "var"}
                 /\ Layout[kind][i][1] # "ToolTrace"
      BY <2>1 DEF Form, BindingLayout
    <2> QED
      BY <1>2, <2>2, <2>3
  <1>3. CASE kind = "anchor"
    <2>1. Layout[kind] = AnchorLayout
      BY <1>3 DEF Layout
    <2>2. Width(kind) = 6 /\ DOMAIN Layout[kind] = 1..6
      BY <2>1 DEF Width, AnchorLayout
    <2>3. ASSUME NEW i \in 1..6
          PROVE  /\ Form(kind, i) \in {"fixed", "var"}
                 /\ Layout[kind][i][1] # "ToolTrace"
      BY <2>1 DEF Form, AnchorLayout
    <2> QED
      BY <1>3, <2>2, <2>3
  <1> QED
    BY <1>1, <1>2, <1>3, KindsAre

----------------------------------------------------------------------------
(* Leaves of so many fields, and their encodings.                          *)

\* The first m fields of a leaf.
IsPart(l, m) ==
  /\ l.kind \in Tags /\ m \in 0..Width(l.kind)
  /\ l = [kind |-> l.kind, fields |-> l.fields]
  /\ l.fields \in [1..m -> Seq(Bytes)]
  /\ \A i \in 1..m : IsField(Form(l.kind, i), l.fields[i])

IsLeaf(l) == IsPart(l, Width(l.kind))

\* What EncodeAll puts together.
Parts(l, fields) ==
  [i \in DOMAIN l.fields |->
     IF i \in fields THEN Encode(Form(l.kind, i), l.fields[i]) ELSE << >>]

LEMMA PartsAre ==
  ASSUME NEW l, NEW m, IsPart(l, m), NEW fields
  PROVE  /\ m \in Nat /\ DOMAIN l.fields = 1..m
         /\ Parts(l, fields) \in [1..m -> Seq(Bytes)]
         /\ EncodeAll(l, fields) = FlattenSeq(Parts(l, fields))
  <1>1. m \in Nat /\ DOMAIN l.fields = 1..m
    BY LayoutFacts DEF IsPart
  <1>2. ASSUME NEW i \in 1..m
        PROVE  Parts(l, fields)[i] \in Seq(Bytes)
    <2>1. Encode(Form(l.kind, i), l.fields[i]) \in Seq(Bytes)
      BY FieldEncoded DEF IsPart
    <2>2. << >> \in Seq(Bytes)
      BY EmptySeq
    <2> QED
      BY <1>1, <2>1, <2>2 DEF Parts
  <1>3. Parts(l, fields) \in [1..m -> Seq(Bytes)]
    BY <1>1, <1>2 DEF Parts
  <1> QED
    BY <1>1, <1>3 DEF EncodeAll, Parts

LEMMA EncodedAll ==
  ASSUME NEW l, NEW m, IsPart(l, m), NEW fields
  PROVE  EncodeAll(l, fields) \in Seq(Bytes)
  <1>1. /\ m \in Nat /\ Parts(l, fields) \in [1..m -> Seq(Bytes)]
        /\ EncodeAll(l, fields) = FlattenSeq(Parts(l, fields))
    BY PartsAre
  <1>2. PICK s \in [1..m -> Seq(Bytes)] : s = Parts(l, fields)
    BY <1>1
  <1>3. PICK up \in [0..m -> Seq(Bytes)] : Joins(up, s, m)
    BY <1>1, JoinsExist
  <1>4. FlattenSeq(s) = up[m]
    BY <1>1, <1>3, FlattenJoins
  <1>5. m \in 0..m
    BY <1>1
  <1> QED
    BY <1>1, <1>2, <1>4, <1>5

\* The tag, and the fields one after the other.
Whole(l) == Parts(l, DOMAIN l.fields)

LEMMA MarshalJoins ==
  ASSUME NEW l, NEW m, IsPart(l, m),
         NEW up \in [0..m -> Seq(Bytes)], Joins(up, Whole(l), m)
  PROVE  Marshal(l) = <<Tag[l.kind]>> \o up[m]
  <1>1. EncodeAll(l, DOMAIN l.fields) = FlattenSeq(Whole(l))
    BY PartsAre DEF Whole
  <1>2. m \in Nat /\ Whole(l) \in [1..m -> Seq(Bytes)]
    BY PartsAre DEF Whole
  <1>3. FlattenSeq(Whole(l)) = up[m]
    BY <1>2, FlattenJoins
  <1> QED
    BY <1>1, <1>3 DEF Marshal

LEMMA TagOf ==
  ASSUME NEW l, NEW m, IsPart(l, m)
  PROVE  /\ Tag[l.kind] \in Bytes /\ <<Tag[l.kind]>> \in Seq(Bytes)
         /\ Len(<<Tag[l.kind]>>) = 1 /\ <<Tag[l.kind]>>[1] = Tag[l.kind]
  <1>1. Tag[l.kind] \in Bytes
    BY KindsAre DEF IsPart
  <1> QED
    BY <1>1

LEMMA MarshalTypes ==
  ASSUME NEW l, NEW m, IsPart(l, m)
  PROVE  /\ Marshal(l) \in Seq(Bytes) /\ Len(Marshal(l)) \in Nat /\ Len(Marshal(l)) >= 1
         /\ Marshal(l)[1] = Tag[l.kind]
  <1>1. m \in Nat /\ Whole(l) \in [1..m -> Seq(Bytes)]
    BY PartsAre DEF Whole
  <1>2. PICK up \in [0..m -> Seq(Bytes)] : Joins(up, Whole(l), m)
    BY <1>1, JoinsExist
  <1>3. Marshal(l) = <<Tag[l.kind]>> \o up[m]
    BY <1>2, MarshalJoins
  <1>4. PICK u \in Seq(Bytes) : u = up[m]
    <2>1. m \in 0..m
      BY <1>1
    <2> QED
      BY <2>1
  <1>5. /\ <<Tag[l.kind]>> \o u \in Seq(Bytes) /\ Len(u) \in Nat
        /\ Len(<<Tag[l.kind]>> \o u) = 1 + Len(u)
        /\ \A i \in 1..1 : (<<Tag[l.kind]>> \o u)[i] = <<Tag[l.kind]>>[i]
    BY TagOf, ConcatParts
  <1>6. (<<Tag[l.kind]>> \o u)[1] = Tag[l.kind]
    BY <1>5, TagOf
  <1> QED
    BY <1>3, <1>4, <1>5, <1>6

\* One more field.
LEMMA MarshalGrows ==
  ASSUME NEW l, NEW m, IsPart(l, m), NEW k, IsPart(k, m + 1), k.kind = l.kind,
         \A i \in 1..m : k.fields[i] = l.fields[i]
  PROVE  Marshal(k) = Marshal(l) \o Encode(Form(k.kind, m + 1), k.fields[m + 1])
  <1>1. /\ m \in Nat /\ Whole(l) \in [1..m -> Seq(Bytes)] /\ DOMAIN l.fields = 1..m
        /\ EncodeAll(l, DOMAIN l.fields) = FlattenSeq(Whole(l))
    BY PartsAre DEF Whole
  <1>2. /\ Whole(k) \in [1..(m + 1) -> Seq(Bytes)] /\ DOMAIN k.fields = 1..(m + 1)
        /\ EncodeAll(k, DOMAIN k.fields) = FlattenSeq(Whole(k))
    BY PartsAre DEF Whole
  <1>3. ASSUME NEW i \in 1..m
        PROVE  Whole(k)[i] = Whole(l)[i]
    <2>1. i \in 1..(m + 1)
      BY <1>1
    <2> QED
      BY <1>1, <1>2, <2>1 DEF Whole, Parts
  <1>4. PICK e \in Seq(Bytes) : e = Whole(k)[m + 1]
    <2>1. m + 1 \in 1..(m + 1)
      BY <1>1
    <2> QED
      BY <1>2, <2>1
  <1>5. e = Encode(Form(k.kind, m + 1), k.fields[m + 1])
    <2>1. m + 1 \in 1..(m + 1)
      BY <1>1
    <2> QED
      BY <1>2, <1>4, <2>1 DEF Whole, Parts
  <1>6. /\ FlattenSeq(Whole(l)) \in Seq(Bytes)
        /\ FlattenSeq(Whole(k)) = FlattenSeq(Whole(l)) \o e
    <2>1. PICK s \in [1..m -> Seq(Bytes)] : s = Whole(l)
      BY <1>1
    <2>2. PICK t \in [1..(m + 1) -> Seq(Bytes)] : t = Whole(k)
      BY <1>2
    <2>3. \A i \in 1..m : t[i] = s[i]
      BY <1>3, <2>1, <2>2
    <2>4. FlattenSeq(s) \in Seq(Bytes) /\ FlattenSeq(t) = FlattenSeq(s) \o t[m + 1]
      BY <1>1, <2>3, FlattenAppend
    <2> QED
      BY <1>4, <2>1, <2>2, <2>4
  <1>7. PICK u \in Seq(Bytes) : u = FlattenSeq(Whole(l))
    BY <1>6
  <1>8. (<<Tag[l.kind]>> \o u) \o e = <<Tag[l.kind]>> \o (u \o e)
    BY TagOf, ConcatAssociative
  <1>9. Marshal(l) = <<Tag[l.kind]>> \o u
    BY <1>1, <1>7 DEF Marshal
  <1>10. Marshal(k) = <<Tag[l.kind]>> \o (u \o e)
    BY <1>2, <1>6, <1>7 DEF Marshal
  <1> QED
    BY <1>5, <1>8, <1>9, <1>10

----------------------------------------------------------------------------
(* What a decoder is given.                                                *)

\* What is written, and what a decoder is given, are bytes.
LEMMA WrittenIs ==
  ASSUME NEW kind \in Kinds, NEW w \in LeavesOf(kind)
  PROVE  w.kind = kind /\ IsLeaf(w)
  <1>1. kind \in Tags
    BY KindsAre
  <1>2. /\ Width(kind) \in Nat /\ DOMAIN Layout[kind] = 1..Width(kind)
        /\ \A i \in 1..Width(kind) : Form(kind, i) \in {"fixed", "opt", "var"}
    BY <1>1, LayoutFacts
  <1>3. Values \subseteq Bytes /\ 0 \in Bytes /\ 1 \in Bytes /\ Bytes \subseteq Nat
        /\ MaxLen \in Nat /\ 0..MaxLen \subseteq Bytes
    BY LeafCodecAssumption
  <1>4. ASSUME NEW form \in {"fixed", "opt", "var"}
        PROVE  /\ IsField(form, Zero(form))
               /\ \A v \in ValuesOf(form) : IsField(form, v)
    <2>1. IsField(form, Zero(form))
      BY <1>3 DEF IsField, Zero
    <2>2. ASSUME NEW v \in Values, form # "var"
          PROVE  IsField(form, <<v>>)
      BY <1>3, <2>2 DEF IsField
    <2>3. ASSUME NEW v \in BoundedSeq(Values, MaxLen), form = "var"
          PROVE  IsField(form, v)
      <3>1. PICK m \in 0..MaxLen : v \in [1..m -> Values]
        BY DEF BoundedSeq, SeqOf
      <3>2. m \in Nat /\ v \in [1..m -> Bytes]
        BY <1>3, <3>1
      <3>3. v \in Seq(Bytes) /\ Len(v) = m
        BY <3>2, SeqDef, LenProperties
      <3> QED
        BY <1>3, <2>3, <3>3 DEF IsField
    <2> QED
      BY <2>1, <2>2, <2>3 DEF ValuesOf
  <1> DEFINE zero == [i \in DOMAIN Layout[kind] |-> Zero(Form(kind, i))]
  <1>5. PICK i \in DOMAIN zero, j \in DOMAIN zero :
          \E v \in ValuesOf(Form(kind, i)), u \in ValuesOf(Form(kind, j)) :
            w = [kind |-> kind, fields |-> [zero EXCEPT ![i] = v, ![j] = u]]
    BY DEF LeavesOf
  <1>6. PICK v \in ValuesOf(Form(kind, i)), u \in ValuesOf(Form(kind, j)) :
          w = [kind |-> kind, fields |-> [zero EXCEPT ![i] = v, ![j] = u]]
    BY <1>5
  <1>7. w.kind = kind /\ w = [kind |-> w.kind, fields |-> w.fields]
    BY <1>6
  <1>8. ASSUME NEW n \in 1..Width(kind)
        PROVE  IsField(Form(kind, n), w.fields[n])
    <2>1. /\ IsField(Form(kind, i), v) /\ IsField(Form(kind, j), u)
          /\ IsField(Form(kind, n), zero[n])
      BY <1>2, <1>4
    <2>2. w.fields[n] = IF n = j THEN u ELSE IF n = i THEN v ELSE zero[n]
      BY <1>2, <1>6
    <2> QED
      BY <2>1, <2>2
  <1>9. w.fields \in [1..Width(kind) -> Seq(Bytes)]
    <2>1. \A n \in 1..Width(kind) : w.fields[n] \in Seq(Bytes)
      BY <1>8 DEF IsField
    <2>2. w.fields = [n \in 1..Width(kind) |-> w.fields[n]]
      BY <1>2, <1>6
    <2> QED
      BY <2>1, <2>2
  <1> HIDE DEF zero
  <1>10. Width(kind) \in 0..Width(kind)
    BY <1>2
  <1> QED
    BY <1>1, <1>7, <1>8, <1>9, <1>10 DEF IsLeaf, IsPart

LEMMA EditsAre ==
  ASSUME NEW b \in Seq(Bytes), NEW e \in Edits(b)
  PROVE  e \in Seq(Bytes)
  <1>1. Len(b) \in Nat /\ DOMAIN b = 1..Len(b) /\ \A i \in 1..Len(b) : b[i] \in Bytes
    BY LenProperties, ElementOfSeq
  <1>2. ASSUME NEW i \in DOMAIN b, NEW x \in Bytes
        PROVE  [b EXCEPT ![i] = x] \in Seq(Bytes)
    BY <1>1, ExceptSeq
  <1>3. ASSUME NEW m \in Nat, NEW n \in Nat, m >= 1, n <= Len(b)
        PROVE  SubSeq(b, m, n) \in Seq(Bytes)
    <2>1. \A i \in m..n : b[i] \in Bytes
      BY <1>1, <1>3
    <2> QED
      BY <2>1, SubSeqProperties
  <1>4. ASSUME NEW i \in DOMAIN b
        PROVE  RemoveAt(b, i) \in Seq(Bytes)
    <2>1. SubSeq(b, 1, i - 1) \in Seq(Bytes) /\ SubSeq(b, i + 1, Len(b)) \in Seq(Bytes)
      BY <1>1, <1>3
    <2> QED
      BY <2>1, ConcatProperties DEF RemoveAt
  <1>5. ASSUME NEW i \in 1..(Len(b) + 1), NEW x \in Bytes
        PROVE  InsertAt(b, i, x) \in Seq(Bytes)
    <2>1. SubSeq(b, 1, i - 1) \in Seq(Bytes) /\ SubSeq(b, i, Len(b)) \in Seq(Bytes)
      BY <1>1, <1>3
    <2>2. <<x>> \in Seq(Bytes)
      OBVIOUS
    <2>3. SubSeq(b, 1, i - 1) \o <<x>> \in Seq(Bytes)
      BY <2>1, <2>2, ConcatProperties
    <2> QED
      BY <2>1, <2>3, ConcatProperties DEF InsertAt
  <1>6. ASSUME NEW n \in 0..Len(b)
        PROVE  SubSeq(b, 1, n) \in Seq(Bytes)
    BY <1>1, <1>3
  <1>7. \/ e = b
        \/ \E i \in DOMAIN b, x \in Bytes : e = [b EXCEPT ![i] = x]
        \/ \E i \in DOMAIN b : e = RemoveAt(b, i)
        \/ \E i \in 1..(Len(b) + 1), x \in Bytes : e = InsertAt(b, i, x)
        \/ \E n \in 0..Len(b) : e = SubSeq(b, 1, n)
    BY DEF Edits
  <1> QED
    BY <1>2, <1>4, <1>5, <1>6, <1>7

----------------------------------------------------------------------------
(* One read.                                                               *)

\* How many bytes a read skips, and how many it takes.
Skip(form) == IF form = "fixed" THEN 0 ELSE 1

Count(form) ==
  CASE form = "fixed" -> 1
    [] form = "opt" -> (IF Holds(1) /\ buf[pos + 1] = 1 THEN 1 ELSE 0)
    [] form = "var" -> (IF Holds(1) THEN buf[pos + 1] ELSE 0)

Taken(form) == SubSeq(buf, pos + Skip(form) + 1, pos + Skip(form) + Count(form))

LEMMA ReadsAre ==
  ASSUME ReadFixed \/ ReadOptional \/ ReadVariable
  PROVE  Reading /\ Read(Skip(NextForm), Count(NextForm))
  <1>1. CASE ReadFixed
    BY <1>1 DEF ReadFixed, Skip, Count
  <1>2. CASE ReadOptional
    BY <1>2 DEF ReadOptional, Skip, Count
  <1>3. CASE ReadVariable
    BY <1>3 DEF ReadVariable, Skip, Count
  <1> QED
    BY <1>1, <1>2, <1>3

LEMMA CountIs ==
  ASSUME buf \in Seq(Bytes), pos \in Nat, NEW form \in {"fixed", "opt", "var"},
         Holds(Skip(form) + Count(form))
  PROVE  /\ Skip(form) \in {0, 1} /\ Count(form) \in Bytes /\ Count(form) \in Nat
         /\ Len(buf) \in Nat /\ pos + Skip(form) + Count(form) <= Len(buf)
         /\ form = "fixed" => Skip(form) = 0 /\ Count(form) = 1
         /\ form # "fixed" => Skip(form) = 1 /\ pos + 1 <= Len(buf) /\ buf[pos + 1] \in Bytes
         /\ form = "opt" => Count(form) = IF buf[pos + 1] = 1 THEN 1 ELSE 0
         /\ form = "var" => Count(form) = buf[pos + 1]
  <1>1. Len(buf) \in Nat /\ 0 \in Bytes /\ 1 \in Bytes /\ Bytes \subseteq Nat
    BY ByteTypes, LenProperties
  <1>2. ASSUME pos + 1 <= Len(buf)
        PROVE  buf[pos + 1] \in Bytes
    <2>1. pos + 1 \in 1..Len(buf)
      BY <1>1, <1>2
    <2> QED
      BY <2>1, ElementOfSeq
  <1>3. CASE form = "fixed"
    BY <1>1, <1>3 DEF Skip, Count, Holds
  <1>4. CASE form = "opt"
    <2>1. Skip(form) = 1 /\ Count(form) \in {0, 1}
      BY <1>4 DEF Skip, Count
    <2>2. pos + 1 <= Len(buf) /\ Holds(1)
      BY <1>1, <2>1 DEF Holds
    <2>3. Count(form) = IF buf[pos + 1] = 1 THEN 1 ELSE 0
      BY <1>4, <2>2 DEF Count
    <2> QED
      BY <1>1, <1>2, <1>4, <2>1, <2>2, <2>3 DEF Holds
  <1>5. CASE form = "var"
    <2>1. Skip(form) = 1
      BY <1>5 DEF Skip
    <2>2. CASE Holds(1)
      <3>1. pos + 1 <= Len(buf) /\ Count(form) = buf[pos + 1]
        BY <1>5, <2>2 DEF Count, Holds
      <3>2. PICK n \in Nat : n = Count(form)
        BY <1>1, <1>2, <3>1
      <3>3. pos + Skip(form) + n <= Len(buf)
        BY <1>1, <2>1, <3>2 DEF Holds
      <3> QED
        BY <1>1, <1>2, <1>5, <2>1, <3>1, <3>2, <3>3
    <2>3. CASE ~Holds(1)
      <3>1. Count(form) = 0
        BY <1>5, <2>3 DEF Count
      <3> QED
        BY <1>1, <2>1, <2>3, <3>1 DEF Holds
    <2> QED
      BY <2>2, <2>3
  <1> QED
    BY <1>3, <1>4, <1>5

\* A field that is read is what is encoded there, but for the flag of an absent
\* hash.
LEMMA TakesField ==
  ASSUME buf \in Seq(Bytes), pos \in Nat, NEW form \in {"fixed", "opt", "var"},
         Holds(Skip(form) + Count(form))
  PROVE  /\ IsField(form, Taken(form))
         /\ Len(Encode(form, Taken(form))) = Skip(form) + Count(form)
         /\ \A j \in 1..Len(Encode(form, Taken(form))) :
              \/ Encode(form, Taken(form))[j] = buf[pos + j]
              \/ /\ form = "opt" /\ j = 1 /\ Encode(form, Taken(form))[1] = 0
                 /\ buf[pos + 1] \in Bytes \ {0, 1}
  <1>1. PICK n \in Nat : n = Count(form)
    BY CountIs
  <1>2. PICK skip \in {0, 1} : skip = Skip(form)
    BY CountIs
  <1>3. PICK v : v = Taken(form)
    OBVIOUS
  <1>4. Len(buf) \in Nat /\ pos + skip + n <= Len(buf)
    BY <1>1, <1>2, CountIs
  <1>5. /\ v \in Seq(Bytes) /\ Len(v) = n
        /\ \A i \in 1..n : v[i] = buf[pos + skip + i]
    <2>1. v = SubSeq(buf, pos + skip + 1, pos + skip + n)
      BY <1>1, <1>2, <1>3 DEF Taken
    <2>2. ASSUME NEW i \in (pos + skip + 1)..(pos + skip + n)
          PROVE  buf[i] \in Bytes
      <3>1. i \in 1..Len(buf)
        BY <1>4
      <3> QED
        BY <3>1, ElementOfSeq
    <2>3. PICK from \in Int : from = pos + skip + 1
      OBVIOUS
    <2>4. PICK to \in Int : to = pos + skip + n
      OBVIOUS
    <2>5. /\ v \in Seq(Bytes) /\ Len(v) = (IF from <= to THEN to - from + 1 ELSE 0)
          /\ \A i \in 1..(to - from + 1) : v[i] = buf[from + i - 1]
      BY <2>1, <2>2, <2>3, <2>4, SubSeqProperties
    <2>6. to - from + 1 = n /\ (from <= to <=> n # 0)
      BY <2>3, <2>4
    <2>7. ASSUME NEW i \in 1..n
          PROVE  v[i] = buf[pos + skip + i]
      <3>1. from + i - 1 = pos + skip + i
        BY <2>3
      <3> QED
        BY <2>5, <2>6, <3>1
    <2> QED
      BY <2>5, <2>6, <2>7
  <1>6. IsField(form, v)
    BY <1>1, <1>5, CountIs DEF IsField
  <1>7. CASE form = "fixed"
    <2>1. skip = 0 /\ n = 1 /\ Encode(form, v) = v
      BY <1>1, <1>2, <1>6, <1>7, CountIs, FieldEncoded
    <2>2. \A j \in 1..n : v[j] = buf[pos + j]
      BY <1>5, <2>1
    <2>3. Len(Encode(form, v)) = skip + n
      BY <1>5, <2>1
    <2> QED
      BY <1>1, <1>2, <1>3, <1>5, <1>6, <2>1, <2>2, <2>3
  <1>8. CASE form # "fixed"
    <2>1. skip = 1 /\ buf[pos + 1] \in Bytes
      BY <1>2, <1>8, CountIs
    <2>2. /\ Len(Encode(form, v)) = 1 + n /\ Encode(form, v)[1] = n
          /\ \A j \in 1..n : Encode(form, v)[1 + j] = v[j]
      <3>1. /\ Len(Encode(form, v)) = 1 + Len(v) /\ Encode(form, v)[1] = Len(v)
            /\ \A j \in 1..Len(v) : Encode(form, v)[1 + j] = v[j]
        BY <1>6, <1>8, FieldEncoded
      <3> QED
        BY <1>5, <3>1
    <2>3. \/ n = buf[pos + 1]
          \/ form = "opt" /\ n = 0 /\ buf[pos + 1] \in Bytes \ {0, 1}
      BY <1>1, <1>8, <2>1, CountIs
    <2>4. ASSUME NEW j \in 1..(1 + n), j # 1
          PROVE  Encode(form, v)[j] = buf[pos + j]
      <3>1. PICK i \in 1..n : j = 1 + i
        <4>1. j - 1 \in 1..n /\ j = 1 + (j - 1)
          BY <2>4
        <4> QED
          BY <4>1
      <3>2. Encode(form, v)[1 + i] = v[i] /\ v[i] = buf[pos + 1 + i]
        BY <1>5, <2>1, <2>2
      <3>3. pos + 1 + i = pos + j
        BY <3>1
      <3> QED
        BY <3>1, <3>2, <3>3
    <2>5. \A j \in 1..(1 + n) :
            \/ Encode(form, v)[j] = buf[pos + j]
            \/ /\ form = "opt" /\ j = 1 /\ Encode(form, v)[1] = 0
               /\ buf[pos + 1] \in Bytes \ {0, 1}
      BY <2>2, <2>3, <2>4
    <2> QED
      BY <1>1, <1>2, <1>3, <1>6, <2>1, <2>2, <2>5
  <1> QED
    BY <1>7, <1>8

\* Where a field is encoded, that field is read.
LEMMA FindsField ==
  ASSUME buf \in Seq(Bytes), pos \in Nat, NEW form \in {"fixed", "opt", "var"},
         NEW v, IsField(form, v), Found(buf, pos, Encode(form, v))
  PROVE  Holds(Skip(form) + Count(form)) /\ Taken(form) = v
  <1>1. Len(buf) \in Nat /\ v \in Seq(Bytes) /\ Len(v) \in Nat
    BY LenProperties DEF IsField
  <1>2. PICK e : e = Encode(form, v)
    OBVIOUS
  <1>3. pos + Len(e) <= Len(buf) /\ \A j \in 1..Len(e) : buf[pos + j] = e[j]
    BY <1>2 DEF Found
  <1>4. /\ Skip(form) \in {0, 1} /\ Skip(form) + Count(form) = Len(e)
        /\ Count(form) = Len(v)
        /\ \A i \in 1..Len(v) : v[i] = buf[pos + Skip(form) + i]
    <2>1. CASE form = "fixed"
      <3>1. e = v /\ Len(v) = 1 /\ Skip(form) = 0 /\ Count(form) = 1
        BY <1>2, <2>1, FieldEncoded DEF IsField, Skip, Count
      <3>2. \A i \in 1..Len(v) : v[i] = buf[pos + 0 + i]
        BY <1>3, <3>1
      <3> QED
        BY <3>1, <3>2
    <2>2. CASE form # "fixed"
      <3>1. /\ Len(e) = 1 + Len(v) /\ e[1] = Len(v)
            /\ \A j \in 1..Len(v) : e[1 + j] = v[j]
        BY <1>2, <2>2, FieldEncoded
      <3>2. buf[pos + 1] = Len(v) /\ Holds(1)
        <4>1. 1 \in 1..Len(e) /\ pos + 1 <= Len(buf)
          BY <1>1, <1>3, <3>1
        <4>2. buf[pos + 1] = Len(v)
          BY <1>3, <3>1, <4>1
        <4> QED
          BY <4>1, <4>2 DEF Holds
      <3>3. Skip(form) = 1
        BY <2>2 DEF Skip
      <3>4. Count(form) = Len(v)
        <4>1. CASE form = "opt"
          <5>1. Len(v) \in {0, 1}
            BY <4>1 DEF IsField
          <5>2. Count(form) = IF Holds(1) /\ buf[pos + 1] = 1 THEN 1 ELSE 0
            BY <4>1 DEF Count
          <5> QED
            BY <3>2, <5>1, <5>2
        <4>2. CASE form = "var"
          BY <3>2, <4>2 DEF Count
        <4> QED
          BY <2>2, <4>1, <4>2
      <3>5. ASSUME NEW i \in 1..Len(v)
            PROVE  v[i] = buf[pos + 1 + i]
        <4>1. 1 + i \in 1..Len(e) /\ pos + (1 + i) = pos + 1 + i
          <5>1. PICK n \in Nat : n = Len(v)
            BY <1>1
          <5>2. i \in 1..n /\ Len(e) = 1 + n
            BY <3>1, <5>1
          <5> QED
            BY <5>2
        <4>2. buf[pos + (1 + i)] = e[1 + i]
          BY <1>3, <4>1
        <4> QED
          BY <3>1, <4>1, <4>2
      <3> QED
        BY <3>1, <3>3, <3>4, <3>5
    <2> QED
      BY <2>1, <2>2
  <1>5. Holds(Skip(form) + Count(form))
    BY <1>3, <1>4 DEF Holds
  <1>6. PICK n \in Nat : n = Len(v)
    BY <1>1
  <1>7. PICK skip \in {0, 1} : skip = Skip(form)
    BY <1>4
  <1>8. Taken(form) = SubSeq(buf, pos + skip + 1, pos + skip + n)
    BY <1>4, <1>6, <1>7 DEF Taken
  <1>9. Taken(form) = v
    <2>1. PICK from \in Int : from = pos + skip + 1
      OBVIOUS
    <2>2. PICK to \in Int : to = pos + skip + n
      OBVIOUS
    <2>3. pos + skip + n <= Len(buf)
      BY <1>3, <1>4, <1>6, <1>7
    <2>4. ASSUME NEW i \in from..to
          PROVE  buf[i] \in Bytes
      <3>1. i \in 1..Len(buf)
        BY <1>1, <2>1, <2>2, <2>3
      <3> QED
        BY <3>1, ElementOfSeq
    <2>5. PICK s : s = SubSeq(buf, from, to)
      OBVIOUS
    <2>6. /\ s \in Seq(Bytes) /\ Len(s) = (IF from <= to THEN to - from + 1 ELSE 0)
          /\ \A i \in 1..(to - from + 1) : s[i] = buf[from + i - 1]
      BY <2>4, <2>5, SubSeqProperties
    <2>7. to - from + 1 = n /\ (from <= to <=> n # 0)
      BY <2>1, <2>2
    <2>8. ASSUME NEW i \in 1..n
          PROVE  s[i] = v[i]
      <3>1. from + i - 1 = pos + skip + i
        BY <2>1
      <3> QED
        BY <1>4, <1>6, <1>7, <2>6, <2>7, <3>1
    <2>9. Len(s) = n
      BY <2>6, <2>7
    <2>10. s = v
      BY <1>1, <1>6, <2>6, <2>8, <2>9, SeqEqual
    <2> QED
      BY <1>8, <2>1, <2>2, <2>5, <2>10
  <1> QED
    BY <1>5, <1>9

----------------------------------------------------------------------------
(* What has been decoded encodes to what has been read.                    *)

\* The byte at j is not what the leaf is encoded to: a flag that is not 1, of a
\* hash that is absent.
Loose(j) ==
  /\ leaf.kind = "attestation" /\ j = FlagAt
  /\ Marshal(leaf)[j] = 0 /\ buf[j] \in Bytes \ {0, 1}

\* What has been decoded encodes to what has been read.
SoFar(m) ==
  /\ IsPart(leaf, m)
  /\ pos = Len(Marshal(leaf)) /\ pos <= Len(buf)
  /\ \A j \in 1..pos : Marshal(leaf)[j] = buf[j] \/ Loose(j)
  /\ leaf.kind = "attestation" /\ m <= 3 => pos = 1 + m
  /\ how = "ok" => m = Width(leaf.kind) /\ pos = Len(buf)

LeafInv ==
  /\ buf \in Seq(Bytes) /\ IsLeaf(written) /\ pos \in Nat
  /\ how \in {"peek", "reading", "ok", "error"}
  /\ how = "peek" => pos = 0
  /\ how \in {"reading", "ok"} => \E m \in Nat : SoFar(m)

LEMMA PartLen ==
  ASSUME NEW l, NEW m, IsPart(l, m)
  PROVE  m \in Nat /\ Len(l.fields) = m /\ l.fields \in Seq(Seq(Bytes))
  <1>1. m \in Nat /\ l.fields \in [1..m -> Seq(Bytes)]
    BY PartsAre DEF IsPart
  <1> DEFINE D == Seq(Bytes)
  <1>2. l.fields \in [1..m -> D]
    BY <1>1
  <1> HIDE DEF D
  <1>3. l.fields \in Seq(D) /\ Len(l.fields) = m
    BY <1>1, <1>2, SeqDef, LenProperties
  <1> QED
    BY <1>1, <1>3 DEF D

\* A decoder is given any bytes, beside any leaf.
AnyInit ==
  /\ IsLeaf(written) /\ buf \in Seq(Bytes)
  /\ pos = 0 /\ how = "peek"

AnySpec == AnyInit /\ [][Next]_vars

LEMMA InitIsAny == Init => AnyInit
  <1> SUFFICES ASSUME Init
               PROVE  AnyInit
    OBVIOUS
  <1>1. PICK kind \in Kinds : written \in LeavesOf(kind)
    BY DEF Init
  <1>2. IsLeaf(written)
    BY <1>1, WrittenIs
  <1>3. Marshal(written) \in Seq(Bytes)
    BY <1>2, MarshalTypes DEF IsLeaf
  <1>4. buf \in Seq(Bytes)
    BY <1>3, EditsAre DEF Init
  <1> QED
    BY <1>2, <1>4 DEF Init, AnyInit

LEMMA SpecIsAny == Spec => AnySpec
  BY InitIsAny DEF Spec, AnySpec

LEMMA LeafInvInit == AnyInit => LeafInv
  BY DEF AnyInit, LeafInv

\* A leaf of no fields.
Bare(kind) == [kind |-> kind, fields |-> << >>]

LEMMA BareIsPart ==
  ASSUME NEW kind \in Tags
  PROVE  IsPart(Bare(kind), 0) /\ Marshal(Bare(kind)) = <<Tag[kind]>>
  <1>1. << >> \in [1..0 -> Seq(Bytes)]
    OBVIOUS
  <1>2. IsPart(Bare(kind), 0)
    BY <1>1, LayoutFacts DEF IsPart, Bare
  <1>3. PICK up \in [0..0 -> Seq(Bytes)] : Joins(up, Whole(Bare(kind)), 0)
    <2>1. Whole(Bare(kind)) \in [1..0 -> Seq(Bytes)] /\ 0 \in Nat
      BY <1>2, PartsAre DEF Whole
    <2> QED
      BY <2>1, JoinsExist
  <1>4. Marshal(Bare(kind)) = <<Tag[kind]>> \o up[0] /\ up[0] = << >>
    BY <1>2, <1>3, MarshalJoins DEF Joins, Bare
  <1>5. <<Tag[kind]>> \o << >> = <<Tag[kind]>>
    <2>1. <<Tag[kind]>> \in Seq(Bytes)
      BY KindsAre
    <2> QED
      BY <2>1, ConcatEmptySeq
  <1> QED
    BY <1>2, <1>4, <1>5

LEMMA PeekStep ==
  ASSUME LeafInv, Peek, how' # "error"
  PROVE  /\ \E kind \in Tags : buf[1] = Tag[kind] /\ leaf' = Bare(kind)
         /\ Len(buf) >= 1 /\ pos' = 1 /\ how' = "reading"
         /\ UNCHANGED <<written, buf>>
  <1>1. /\ pos = 0 /\ Holds(1)
        /\ \E kind \in DOMAIN Tag : Tag[kind] = buf[1]
        /\ leaf' = [kind |-> CHOOSE kind \in DOMAIN Tag : Tag[kind] = buf[1],
                    fields |-> << >>]
        /\ pos' = 1 /\ how' = "reading" /\ UNCHANGED <<written, buf>>
    BY DEF Peek, LeafInv
  <1>2. PICK kind : kind = CHOOSE k \in DOMAIN Tag : Tag[k] = buf[1]
    OBVIOUS
  <1>3. kind \in Tags /\ Tag[kind] = buf[1]
    BY <1>1, <1>2 DEF Tags
  <1>4. leaf' = Bare(kind)
    BY <1>1, <1>2 DEF Bare
  <1>5. Len(buf) >= 1
    <2>1. Len(buf) \in Nat
      BY LenProperties DEF LeafInv
    <2> QED
      BY <1>1, <2>1 DEF Holds
  <1> QED
    BY <1>1, <1>3, <1>4, <1>5

LEMMA PeekDecodes ==
  ASSUME LeafInv, Peek
  PROVE  LeafInv'
  <1>1. CASE how' = "error"
    <2>1. UNCHANGED <<written, buf, pos>>
      BY <1>1 DEF Peek
    <2> QED
      BY <1>1, <2>1 DEF LeafInv
  <1>2. CASE how' # "error"
    <2>1. PICK kind \in Tags : buf[1] = Tag[kind] /\ leaf' = Bare(kind)
      BY <1>2, PeekStep
    <2>2. Len(buf) >= 1 /\ pos' = 1 /\ how' = "reading" /\ UNCHANGED <<written, buf>>
      BY <1>2, PeekStep
    <2>3. IsPart(leaf', 0) /\ Marshal(leaf') = <<Tag[kind]>>
      BY <2>1, BareIsPart
    <2>4. Len(Marshal(leaf')) = 1 /\ Marshal(leaf')[1] = buf[1]
      BY <2>1, <2>3, KindsAre
    <2>5. SoFar(0)'
      BY <2>2, <2>3, <2>4 DEF SoFar
    <2> QED
      BY <2>2, <2>5 DEF LeafInv
  <1> QED
    BY <1>1, <1>2

\* A read that succeeds adds a field.
LEMMA ReadGrows ==
  ASSUME LeafInv, ReadFixed \/ ReadOptional \/ ReadVariable, how' # "error",
         NEW m \in Nat, SoFar(m)
  PROVE  /\ m + 1 \in 1..Width(leaf.kind) /\ how = "reading" /\ how' = "reading"
         /\ NextForm = Form(leaf.kind, m + 1) /\ NextForm \in {"fixed", "opt", "var"}
         /\ Holds(Skip(NextForm) + Count(NextForm))
         /\ leaf' = [kind |-> leaf.kind, fields |-> Append(leaf.fields, Taken(NextForm))]
         /\ pos' = pos + Skip(NextForm) + Count(NextForm)
         /\ UNCHANGED <<written, buf>>
  <1>1. Reading /\ Read(Skip(NextForm), Count(NextForm))
    BY ReadsAre
  <1>2. Len(leaf.fields) = m /\ leaf = [kind |-> leaf.kind, fields |-> leaf.fields]
        /\ leaf.kind \in Tags
    BY PartLen DEF SoFar, IsPart
  <1>3. Width(leaf.kind) \in Nat /\ m < Width(leaf.kind) /\ how = "reading"
    BY <1>1, <1>2, LayoutFacts DEF Reading, Width
  <1>4. m + 1 \in 1..Width(leaf.kind)
    BY <1>3
  <1>5. NextForm = Form(leaf.kind, m + 1) /\ NextForm \in {"fixed", "opt", "var"}
    BY <1>2, <1>4, LayoutFacts DEF NextForm
  <1>6. /\ Holds(Skip(NextForm) + Count(NextForm))
        /\ leaf' = [leaf EXCEPT !.fields = Append(@, Taken(NextForm))]
        /\ pos' = pos + Skip(NextForm) + Count(NextForm)
        /\ how' = how /\ UNCHANGED <<written, buf>>
    BY <1>1 DEF Read, Taken
  <1>7. leaf' = [kind |-> leaf.kind, fields |-> Append(leaf.fields, Taken(NextForm))]
    BY <1>2, <1>6
  <1> QED
    BY <1>3, <1>4, <1>5, <1>6, <1>7

\* A leaf and one more field.
Longer(l, v) == [kind |-> l.kind, fields |-> Append(l.fields, v)]

LEMMA Grown ==
  ASSUME NEW l, NEW m, IsPart(l, m), m + 1 \in 1..Width(l.kind),
         NEW v, IsField(Form(l.kind, m + 1), v)
  PROVE  /\ IsPart(Longer(l, v), m + 1) /\ Longer(l, v).kind = l.kind
         /\ Marshal(Longer(l, v)) = Marshal(l) \o Encode(Form(l.kind, m + 1), v)
  <1>0. PICK k : k = Longer(l, v)
    OBVIOUS
  <1>1. m \in Nat /\ Len(l.fields) = m /\ l.fields \in Seq(Seq(Bytes)) /\ l.kind \in Tags
    BY PartLen DEF IsPart
  <1>2. v \in Seq(Bytes)
    BY DEF IsField
  <1>3. PICK f : f = Append(l.fields, v)
    OBVIOUS
  <1> DEFINE D == Seq(Bytes)
  <1>4. l.fields \in Seq(D) /\ v \in D
    BY <1>1, <1>2
  <1> HIDE DEF D
  <1>5. /\ f \in Seq(D) /\ Len(f) = m + 1
        /\ \A i \in 1..m : f[i] = l.fields[i]
        /\ f[m + 1] = v
    BY <1>1, <1>3, <1>4, AppendProperties
  <1>6. f \in [1..(m + 1) -> Seq(Bytes)]
    BY <1>5, LenProperties DEF D
  <1>7. k.kind = l.kind /\ k.fields = f /\ k = [kind |-> k.kind, fields |-> k.fields]
    BY <1>0, <1>3 DEF Longer
  <1>8. ASSUME NEW i \in 1..(m + 1)
        PROVE  IsField(Form(k.kind, i), k.fields[i])
    <2>1. CASE i = m + 1
      BY <1>5, <1>7, <2>1
    <2>2. CASE i # m + 1
      <3>1. i \in 1..m
        BY <1>1, <2>2
      <3>2. IsField(Form(l.kind, i), l.fields[i])
        BY <3>1 DEF IsPart
      <3> QED
        BY <1>5, <1>7, <3>1, <3>2
    <2> QED
      BY <2>1, <2>2
  <1>9. IsPart(k, m + 1)
    <2>1. m + 1 \in 0..Width(k.kind)
      BY <1>1, <1>7, LayoutFacts
    <2> QED
      BY <1>1, <1>6, <1>7, <1>8, <2>1 DEF IsPart
  <1>10. Marshal(k) = Marshal(l) \o Encode(Form(k.kind, m + 1), k.fields[m + 1])
    <2>1. \A i \in 1..m : k.fields[i] = l.fields[i]
      BY <1>5, <1>7
    <2> QED
      BY <1>7, <1>9, <2>1, MarshalGrows
  <1> QED
    BY <1>0, <1>5, <1>7, <1>9, <1>10

LEMMA ReadDecodes ==
  ASSUME LeafInv, ReadFixed \/ ReadOptional \/ ReadVariable
  PROVE  LeafInv'
  <1>1. CASE how' = "error"
    <2>1. UNCHANGED <<written, buf, pos>>
      BY <1>1, ReadsAre DEF Read, Reading
    <2> QED
      BY <1>1, <2>1 DEF LeafInv
  <1>2. CASE how' # "error"
    <2>1. PICK m \in Nat : SoFar(m)
      BY ReadsAre DEF Reading, LeafInv
    <2>2. PICK form \in {"fixed", "opt", "var"} : form = NextForm
      BY <1>2, <2>1, ReadGrows
    <2>3. /\ m + 1 \in 1..Width(leaf.kind) /\ how' = "reading"
          /\ form = Form(leaf.kind, m + 1)
          /\ Holds(Skip(form) + Count(form))
          /\ leaf' = [kind |-> leaf.kind, fields |-> Append(leaf.fields, Taken(form))]
          /\ pos' = pos + Skip(form) + Count(form)
          /\ UNCHANGED <<written, buf>>
      BY <1>2, <2>1, <2>2, ReadGrows
    <2>4. buf \in Seq(Bytes) /\ pos \in Nat /\ IsPart(leaf, m) /\ leaf.kind \in Tags
      BY <2>1 DEF LeafInv, SoFar, IsPart
    <2>5. PICK e : e = Encode(form, Taken(form))
      OBVIOUS
    <2>6. /\ IsField(form, Taken(form)) /\ e \in Seq(Bytes)
          /\ Len(e) = Skip(form) + Count(form)
          /\ \A j \in 1..Len(e) :
               \/ e[j] = buf[pos + j]
               \/ form = "opt" /\ j = 1 /\ e[1] = 0 /\ buf[pos + 1] \in Bytes \ {0, 1}
      BY <2>3, <2>4, <2>5, TakesField, FieldEncoded
    <2>7. /\ IsPart(leaf', m + 1) /\ leaf'.kind = leaf.kind
          /\ Marshal(leaf') = Marshal(leaf) \o e
      <3>1. leaf' = Longer(leaf, Taken(form))
        BY <2>3 DEF Longer
      <3>2. IsField(Form(leaf.kind, m + 1), Taken(form)) /\ m + 1 \in 1..Width(leaf.kind)
        BY <2>3, <2>6
      <3>3. /\ IsPart(Longer(leaf, Taken(form)), m + 1)
            /\ Longer(leaf, Taken(form)).kind = leaf.kind
            /\ Marshal(Longer(leaf, Taken(form)))
                 = Marshal(leaf) \o Encode(Form(leaf.kind, m + 1), Taken(form))
        BY <2>4, <3>2, Grown
      <3> QED
        BY <2>3, <2>5, <3>1, <3>3
    <2>8. PICK u \in Seq(Bytes) : u = Marshal(leaf)
      BY <2>4, MarshalTypes
    <2>9. pos = Len(u) /\ Len(e) \in Nat
      BY <2>1, <2>6, <2>8, LenProperties DEF SoFar
    <2>10. PICK w : w = Marshal(leaf')
      OBVIOUS
    <2>11. /\ Len(w) = pos + Len(e)
           /\ \A i \in 1..pos : w[i] = u[i]
           /\ \A j \in 1..Len(e) : w[pos + j] = e[j]
      <3>1. e \in Seq(Bytes) /\ w = u \o e
        BY <2>6, <2>7, <2>8, <2>10
      <3>2. /\ Len(u \o e) = Len(u) + Len(e)
            /\ \A i \in 1..Len(u) : (u \o e)[i] = u[i]
            /\ \A j \in 1..Len(e) : (u \o e)[Len(u) + j] = e[j]
        BY <3>1, ConcatParts
      <3> QED
        BY <2>9, <3>1, <3>2
    <2>12. pos' = pos + Len(e)
      BY <2>3, <2>4, <2>6, CountIs
    <2>13. pos' <= Len(buf)
      BY <2>3, <2>4, CountIs
    <2>14. ASSUME NEW j \in 1..pos'
           PROVE  w[j] = buf[j] \/ Loose(j)'
      <3>1. CASE j <= pos
        <4>1. j \in 1..pos /\ w[j] = u[j]
          BY <2>4, <2>11, <3>1
        <4>2. u[j] = buf[j] \/ Loose(j)
          BY <2>1, <2>8, <4>1 DEF SoFar
        <4>3. ASSUME Loose(j)
              PROVE  Loose(j)'
          BY <2>3, <2>7, <2>8, <2>10, <4>1, <4>3 DEF Loose, FlagAt
        <4> QED
          BY <4>1, <4>2, <4>3
      <3>2. CASE ~(j <= pos)
        <4>1. PICK i \in 1..Len(e) : j = pos + i
          <5>1. j - pos \in 1..Len(e) /\ j = pos + (j - pos)
            BY <2>4, <2>9, <2>12, <3>2
          <5> QED
            BY <5>1
        <4>2. w[j] = e[i]
          BY <2>11, <4>1
        <4>3. CASE e[i] = buf[pos + i]
          BY <4>1, <4>2, <4>3
        <4>4. CASE form = "opt" /\ i = 1 /\ e[1] = 0 /\ buf[pos + 1] \in Bytes \ {0, 1}
          <5>1. leaf.kind = "attestation" /\ m + 1 = 4
            BY <2>3, <2>4, <4>4, LayoutFacts
          <5>2. pos = 4 /\ j = 5
            BY <2>1, <4>1, <4>4, <5>1 DEF SoFar
          <5>3. w[j] = 0 /\ buf'[j] \in Bytes \ {0, 1}
            BY <2>3, <4>2, <4>4, <5>2
          <5> QED
            BY <2>7, <2>10, <5>1, <5>2, <5>3 DEF Loose, FlagAt
        <4> QED
          BY <2>6, <4>3, <4>4
      <3> QED
        BY <3>1, <3>2
    <2>15. ASSUME leaf'.kind = "attestation", m + 1 <= 3
           PROVE  pos' = 1 + (m + 1)
      <3>1. m <= 3 /\ form = "fixed"
        BY <2>3, <2>4, <2>7, <2>15, LayoutFacts
      <3>2. pos = 1 + m
        BY <2>1, <2>7, <2>15, <3>1 DEF SoFar
      <3>3. Skip(form) = 0 /\ Count(form) = 1
        BY <3>1 DEF Skip, Count
      <3> QED
        BY <2>3, <3>2, <3>3
    <2>16. SoFar(m + 1)'
      BY <2>3, <2>7, <2>10, <2>11, <2>12, <2>13, <2>14, <2>15 DEF SoFar
    <2>17. pos' \in Nat /\ m + 1 \in Nat
      BY <2>4, <2>9, <2>12
    <2> QED
      BY <2>3, <2>16, <2>17 DEF LeafInv
  <1> QED
    BY <1>1, <1>2

LEMMA AllFields ==
  ASSUME LeafInv, how = "reading", ~Reading, NEW m \in Nat, SoFar(m)
  PROVE  m = Width(leaf.kind)
  <1>1. Len(leaf.fields) = m /\ leaf.kind \in Tags /\ m \in 0..Width(leaf.kind)
    BY PartLen DEF SoFar, IsPart
  <1> QED
    BY <1>1, LayoutFacts DEF Reading, Width

LEMMA FinishDecodes ==
  ASSUME LeafInv, Finish
  PROVE  LeafInv'
  <1>1. PICK m \in Nat : SoFar(m)
    BY DEF Finish, LeafInv
  <1>2. m = Width(leaf.kind)
    BY <1>1, AllFields DEF Finish
  <1>3. /\ UNCHANGED <<written, buf, pos, leaf>> /\ how' \in {"ok", "error"}
        /\ how' = "ok" => pos = Len(buf)
    BY DEF Finish
  <1>4. SoFar(m)'
    BY <1>1, <1>2, <1>3 DEF SoFar, Loose
  <1> QED
    BY <1>3, <1>4 DEF LeafInv

LEMMA LeafInvNext == LeafInv /\ [Next]_vars => LeafInv'
  <1> SUFFICES ASSUME LeafInv, [Next]_vars
               PROVE  LeafInv'
    OBVIOUS
  <1>1. CASE Peek
    BY <1>1, PeekDecodes
  <1>2. CASE ReadFixed \/ ReadOptional \/ ReadVariable
    BY <1>2, ReadDecodes
  <1>3. CASE Finish
    BY <1>3, FinishDecodes
  <1>4. CASE UNCHANGED vars
    <2>1. UNCHANGED <<written, buf, pos, leaf, how>>
      BY <1>4 DEF vars
    <2> QED
      BY <2>1 DEF LeafInv, SoFar, Loose
  <1> QED
    BY <1>1, <1>2, <1>3, <1>4 DEF Next

LEMMA LeafInvariant == AnySpec => []LeafInv
  BY LeafInvInit, LeafInvNext, PTL DEF AnySpec

----------------------------------------------------------------------------
(* Another encoding of a leaf differs in one flag.                         *)

LEMMA Strictly == LeafInv => Strict
  <1> SUFFICES ASSUME LeafInv, how = "ok", Marshal(leaf) # buf
               PROVE  /\ leaf.kind = "attestation" /\ Marshal(leaf)[FlagAt] = 0
                      /\ buf \in {[Marshal(leaf) EXCEPT ![FlagAt] = b] : b \in Bytes \ {0, 1}}
    BY DEF Strict
  <1>1. PICK m \in Nat : SoFar(m)
    BY DEF LeafInv
  <1>2. PICK u \in Seq(Bytes) : u = Marshal(leaf)
    BY <1>1, MarshalTypes DEF SoFar
  <1>3. buf \in Seq(Bytes) /\ Len(u) = Len(buf) /\ Len(u) \in Nat
    BY <1>1, <1>2, LenProperties DEF LeafInv, SoFar
  <1>4. \A j \in 1..Len(u) : u[j] = buf[j] \/ Loose(j)
    BY <1>1, <1>2 DEF SoFar
  <1>5. PICK j \in 1..Len(u) : u[j] # buf[j]
    BY <1>2, <1>3, SeqEqual
  <1>6. Loose(j)
    BY <1>4, <1>5
  <1>7. j = FlagAt /\ u[j] = 0 /\ leaf.kind = "attestation" /\ buf[j] \in Bytes \ {0, 1}
    BY <1>2, <1>6 DEF Loose
  <1>8. buf = [u EXCEPT ![j] = buf[j]]
    <2>1. PICK w : w = [u EXCEPT ![j] = buf[j]]
      OBVIOUS
    <2>2. /\ w \in Seq(Bytes) /\ Len(w) = Len(u)
          /\ \A i \in 1..Len(u) : w[i] = IF i = j THEN buf[j] ELSE u[i]
      BY <1>7, <2>1, ExceptSeq
    <2>3. ASSUME NEW i \in 1..Len(u)
          PROVE  w[i] = buf[i]
      <3>1. CASE i = j
        BY <2>2, <3>1
      <3>2. CASE i # j
        <4>1. ~Loose(i)
          BY <1>7, <3>2 DEF Loose
        <4> QED
          BY <1>4, <2>2, <3>2, <4>1
      <3> QED
        BY <3>1, <3>2
    <2> QED
      BY <1>3, <2>1, <2>2, <2>3, SeqEqual
  <1> QED
    BY <1>2, <1>7, <1>8

\* Any bytes that decode to a leaf are its encoding, but for the flag of an
\* absent PrevEventHash (codec.go:114, attestation.go:148-156).
THEOREM AlwaysStrict == AnySpec => []Strict
  BY LeafInvariant, Strictly, PTL

\* In particular, those that a leaf's bytes are edited to.
THEOREM EditedStrict == Spec => []Strict
  BY AlwaysStrict, SpecIsAny, PTL

----------------------------------------------------------------------------
(* The first fields of a leaf, and of its encoding.                        *)

\* The first m fields of a whole leaf.
Prefix(l, m) == [kind |-> l.kind, fields |-> [i \in 1..m |-> l.fields[i]]]

LEMMA PrefixIsPart ==
  ASSUME NEW l, IsLeaf(l), NEW m \in 0..Width(l.kind)
  PROVE  IsPart(Prefix(l, m), m) /\ Prefix(l, m).kind = l.kind
  <1>1. /\ l.kind \in Tags /\ Width(l.kind) \in Nat
        /\ l.fields \in [1..Width(l.kind) -> Seq(Bytes)]
        /\ \A i \in 1..Width(l.kind) : IsField(Form(l.kind, i), l.fields[i])
    BY LayoutFacts DEF IsLeaf, IsPart
  <1>2. PICK f : f = [i \in 1..m |-> l.fields[i]]
    OBVIOUS
  <1>3. \A i \in 1..m : i \in 1..Width(l.kind) /\ f[i] = l.fields[i]
    BY <1>1, <1>2
  <1>4. f \in [1..m -> Seq(Bytes)]
    BY <1>1, <1>2, <1>3
  <1>5. \A i \in 1..m : IsField(Form(l.kind, i), f[i])
    BY <1>1, <1>3
  <1>6. Prefix(l, m) = [kind |-> l.kind, fields |-> f]
    BY <1>2 DEF Prefix
  <1> QED
    BY <1>1, <1>4, <1>5, <1>6 DEF IsPart

LEMMA PrefixGrows ==
  ASSUME NEW l, IsLeaf(l), NEW m \in 0..Width(l.kind), m # Width(l.kind)
  PROVE  /\ m + 1 \in 1..Width(l.kind) /\ m + 1 \in 0..Width(l.kind)
         /\ IsField(Form(l.kind, m + 1), l.fields[m + 1])
         /\ Prefix(l, m + 1) = Longer(Prefix(l, m), l.fields[m + 1])
  <1>1. m \in Nat /\ m + 1 \in 1..Width(l.kind) /\ m + 1 \in 0..Width(l.kind)
    BY LayoutFacts DEF IsLeaf, IsPart
  <1>2. IsField(Form(l.kind, m + 1), l.fields[m + 1])
    BY <1>1 DEF IsLeaf, IsPart
  <1>3. PICK f : f = [i \in 1..m |-> l.fields[i]]
    OBVIOUS
  <1>4. PICK g : g = [i \in 1..(m + 1) |-> l.fields[i]]
    OBVIOUS
  <1>5. IsPart(Prefix(l, m), m) /\ Prefix(l, m).fields = f
    BY <1>3, PrefixIsPart DEF Prefix
  <1> DEFINE D == Seq(Bytes)
  <1>6. f \in Seq(D) /\ Len(f) = m
    BY <1>5, PartLen
  <1>7. l.fields[m + 1] \in D
    BY <1>2 DEF IsField
  <1> HIDE DEF D
  <1>8. PICK v \in D : v = l.fields[m + 1]
    BY <1>7
  <1>9. PICK a : a = Append(f, v)
    OBVIOUS
  <1>10. /\ a \in Seq(D) /\ Len(a) = m + 1
         /\ \A i \in 1..m : a[i] = f[i]
         /\ a[m + 1] = v
    BY <1>6, <1>9, AppendProperties
  <1>11. ASSUME NEW i \in 1..(m + 1)
         PROVE  a[i] = l.fields[i]
    <2>1. i = m + 1 \/ i \in 1..m
      BY <1>1
    <2> QED
      BY <1>3, <1>8, <1>10, <2>1
  <1>12. a = g
    <2>1. a \in [1..(m + 1) -> D]
      BY <1>10, LenProperties
    <2>2. a = [i \in 1..(m + 1) |-> a[i]]
      BY <2>1
    <2> QED
      BY <1>4, <1>11, <2>2
  <1>13. Prefix(l, m + 1) = [kind |-> l.kind, fields |-> a]
    BY <1>4, <1>12 DEF Prefix
  <1>14. Longer(Prefix(l, m), l.fields[m + 1]) = [kind |-> l.kind, fields |-> a]
    BY <1>5, <1>8, <1>9, PrefixIsPart DEF Longer
  <1> QED
    BY <1>1, <1>2, <1>13, <1>14

LEMMA PrefixEnds ==
  ASSUME NEW l, IsLeaf(l)
  PROVE  /\ Width(l.kind) \in Nat /\ l.kind \in Tags
         /\ Prefix(l, 0) = Bare(l.kind) /\ Prefix(l, Width(l.kind)) = l
  <1>1. /\ Width(l.kind) \in Nat /\ l.kind \in Tags
        /\ l = [kind |-> l.kind, fields |-> l.fields]
        /\ l.fields \in [1..Width(l.kind) -> Seq(Bytes)]
    BY LayoutFacts DEF IsLeaf, IsPart
  <1>2. l.fields = [i \in 1..Width(l.kind) |-> l.fields[i]]
    BY <1>1
  <1>3. [i \in 1..0 |-> l.fields[i]] = << >>
    OBVIOUS
  <1> QED
    BY <1>1, <1>2, <1>3 DEF Prefix, Bare

LEMMA MarshalLonger ==
  ASSUME NEW l, IsLeaf(l), NEW m \in 0..Width(l.kind), m # Width(l.kind)
  PROVE  /\ Marshal(Prefix(l, m)) \in Seq(Bytes)
         /\ Encode(Form(l.kind, m + 1), l.fields[m + 1]) \in Seq(Bytes)
         /\ Marshal(Prefix(l, m + 1))
              = Marshal(Prefix(l, m)) \o Encode(Form(l.kind, m + 1), l.fields[m + 1])
  <1>1. PICK p : p = Prefix(l, m)
    OBVIOUS
  <1>2. PICK v : v = l.fields[m + 1]
    OBVIOUS
  <1>3. IsPart(p, m) /\ p.kind = l.kind
    BY <1>1, PrefixIsPart
  <1>4. /\ m + 1 \in 1..Width(p.kind) /\ IsField(Form(p.kind, m + 1), v)
        /\ Prefix(l, m + 1) = Longer(p, v)
    BY <1>1, <1>2, <1>3, PrefixGrows
  <1>5. Marshal(Longer(p, v)) = Marshal(p) \o Encode(Form(p.kind, m + 1), v)
    BY <1>3, <1>4, Grown
  <1>6. Marshal(p) \in Seq(Bytes) /\ Encode(Form(p.kind, m + 1), v) \in Seq(Bytes)
    BY <1>3, <1>4, MarshalTypes, FieldEncoded
  <1> QED
    BY <1>1, <1>2, <1>3, <1>4, <1>5, <1>6

LEMMA PrefixBegins ==
  ASSUME NEW l, IsLeaf(l)
  PROVE  \A m \in 0..Width(l.kind) : Begins(Marshal(Prefix(l, m)), Marshal(l))
  <1>1. PICK n \in Nat : n = Width(l.kind)
    BY PrefixEnds
  <1>2. \A m \in 0..n : Len(Marshal(Prefix(l, m))) \in Nat
    BY <1>1, PrefixIsPart, MarshalTypes
  <1>3. Prefix(l, n) = l
    BY <1>1, PrefixEnds
  <1> DEFINE S == {d \in 0..n : Begins(Marshal(Prefix(l, n - d)), Marshal(l))}
  <1>4. 0 \in S
    <2>1. n - 0 = n /\ n \in 0..n
      OBVIOUS
    <2>2. Begins(Marshal(l), Marshal(l))
      BY <1>2, <1>3, <2>1 DEF Begins
    <2> QED
      BY <1>3, <2>1, <2>2
  <1>5. ASSUME NEW d \in 0..n, d # n, d \in S
        PROVE  d + 1 \in S
    <2>1. PICK m \in 0..n : m = n - (d + 1)
      BY <1>5
    <2>2. m # n /\ n - d = m + 1 /\ m + 1 \in 0..n /\ n \in 0..n
      BY <1>5, <2>1
    <2>3. Begins(Marshal(Prefix(l, m + 1)), Marshal(l))
      BY <1>5, <2>2
    <2>4. PICK u \in Seq(Bytes) : u = Marshal(Prefix(l, m))
      BY <1>1, <2>2, MarshalLonger
    <2>5. PICK e \in Seq(Bytes) : e = Encode(Form(l.kind, m + 1), l.fields[m + 1])
      BY <1>1, <2>2, MarshalLonger
    <2>6. Marshal(Prefix(l, m + 1)) = u \o e
      BY <1>1, <2>2, <2>4, <2>5, MarshalLonger
    <2>7. Begins(u, u \o e)
      <3>1. /\ Len(u) \in Nat /\ Len(e) \in Nat /\ Len(u \o e) = Len(u) + Len(e)
            /\ \A i \in 1..Len(u) : (u \o e)[i] = u[i]
        BY ConcatParts
      <3>2. Len(u) <= Len(u \o e)
        BY <3>1
      <3> QED
        BY <3>1, <3>2 DEF Begins
    <2>8. Len(u) \in Nat /\ Len(u \o e) \in Nat /\ Len(Marshal(l)) \in Nat
      BY <1>2, <1>3, <2>2, <2>4, <2>6
    <2>9. Begins(u, Marshal(l))
      BY <2>3, <2>6, <2>7, <2>8, BeginsBegins
    <2> QED
      BY <1>5, <2>1, <2>4, <2>9
  <1>6. \A d \in 0..n : d \in S
    <2> HIDE DEF S
    <2> QED
      BY <1>4, <1>5, IntervalInduction
  <1>7. ASSUME NEW m \in 0..n
        PROVE  Begins(Marshal(Prefix(l, m)), Marshal(l))
    <2>1. PICK d \in 0..n : n - d = m
      <3>1. n - m \in 0..n /\ n - (n - m) = m
        OBVIOUS
      <3> QED
        BY <3>1
    <2>2. d \in S
      BY <1>6
    <2> QED
      BY <2>1, <2>2
  <1> QED
    BY <1>1, <1>7

----------------------------------------------------------------------------
(* What was written is decoded as it was.                                  *)

\* Of a leaf as it was written, its first fields have been decoded.
Agrees ==
  buf = Marshal(written) =>
    /\ how # "error"
    /\ how \in {"reading", "ok"} =>
         \E m \in 0..Width(written.kind) : leaf = Prefix(written, m)

LEMMA PeekAgrees ==
  ASSUME LeafInv, Agrees, Peek
  PROVE  Agrees'
  <1> SUFFICES ASSUME buf' = Marshal(written')
               PROVE  /\ how' # "error"
                      /\ \E m \in 0..Width(written.kind)' : leaf' = Prefix(written, m)'
    BY DEF Agrees
  <1>1. UNCHANGED <<written, buf>> /\ buf = Marshal(written) /\ pos = 0
    BY DEF Peek, LeafInv
  <1>2. IsLeaf(written) /\ written.kind \in Tags
    BY DEF LeafInv, IsLeaf, IsPart
  <1>3. Len(buf) \in Nat /\ Len(buf) >= 1 /\ buf[1] = Tag[written.kind]
    BY <1>1, <1>2, MarshalTypes DEF IsLeaf
  <1>4. how' # "error"
    BY <1>1, <1>2, <1>3 DEF Peek, Holds, Tags
  <1>5. PICK kind \in Tags : buf[1] = Tag[kind] /\ leaf' = Bare(kind)
    BY <1>4, PeekStep
  <1>6. kind = written.kind
    BY <1>2, <1>3, <1>5, KindsAre
  <1>7. leaf' = Prefix(written, 0) /\ 0 \in 0..Width(written.kind)
    BY <1>2, <1>5, <1>6, PrefixEnds
  <1> QED
    BY <1>1, <1>4, <1>7

LEMMA ReadAgrees ==
  ASSUME LeafInv, Agrees, ReadFixed \/ ReadOptional \/ ReadVariable
  PROVE  Agrees'
  <1> SUFFICES ASSUME buf' = Marshal(written')
               PROVE  /\ how' # "error"
                      /\ \E m \in 0..Width(written.kind)' : leaf' = Prefix(written, m)'
    BY DEF Agrees
  <1>1. Reading /\ Read(Skip(NextForm), Count(NextForm)) /\ how = "reading"
    BY ReadsAre DEF Reading
  <1>2. UNCHANGED <<written, buf>> /\ buf = Marshal(written)
    BY <1>1 DEF Read
  <1>3. IsLeaf(written) /\ buf \in Seq(Bytes) /\ pos \in Nat
    BY DEF LeafInv
  <1>4. PICK m \in 0..Width(written.kind) : leaf = Prefix(written, m)
    BY <1>1, <1>2 DEF Agrees
  <1>5. PICK k \in Nat : SoFar(k)
    BY <1>1 DEF LeafInv
  <1>6. IsPart(leaf, m) /\ leaf.kind = written.kind
    BY <1>3, <1>4, PrefixIsPart
  <1>7. Len(leaf.fields) = m /\ Len(leaf.fields) = k /\ leaf.kind \in Tags
    BY <1>5, <1>6, PartLen DEF SoFar, IsPart
  <1>8. m # Width(written.kind) /\ SoFar(m)
    BY <1>1, <1>5, <1>6, <1>7, LayoutFacts DEF Reading, Width
  <1>9. PICK v : v = written.fields[m + 1]
    OBVIOUS
  <1>10. PICK form : form = NextForm
    OBVIOUS
  <1>11. /\ m + 1 \in 1..Width(written.kind) /\ m + 1 \in 0..Width(written.kind)
         /\ form = Form(written.kind, m + 1) /\ IsField(form, v)
         /\ Prefix(written, m + 1) = Longer(leaf, v)
    BY <1>3, <1>4, <1>6, <1>7, <1>8, <1>9, <1>10, PrefixGrows DEF NextForm
  <1>12. form \in {"fixed", "opt", "var"}
    BY <1>6, <1>7, <1>11, LayoutFacts
  <1>13. Found(buf, pos, Encode(form, v))
    <2>1. PICK u \in Seq(Bytes) : u = Marshal(leaf)
      BY <1>6, MarshalTypes
    <2>2. PICK e \in Seq(Bytes) : e = Encode(form, v)
      BY <1>11, FieldEncoded
    <2>3. Marshal(Prefix(written, m + 1)) = u \o e
      BY <1>3, <1>4, <1>8, <1>9, <1>11, <2>1, <2>2, MarshalLonger
    <2>4. Begins(u \o e, buf)
      BY <1>2, <1>3, <1>11, <2>3, PrefixBegins
    <2>5. pos = Len(u)
      BY <1>8, <2>1 DEF SoFar
    <2> QED
      BY <2>2, <2>4, <2>5, FoundAfter
  <1>14. Holds(Skip(form) + Count(form)) /\ Taken(form) = v
    BY <1>3, <1>11, <1>12, <1>13, FindsField
  <1>15. how' # "error"
    BY <1>1, <1>10, <1>14 DEF Read
  <1>16. leaf' = [kind |-> leaf.kind, fields |-> Append(leaf.fields, Taken(form))]
    BY <1>8, <1>10, <1>15, ReadGrows
  <1>17. leaf' = Prefix(written, m + 1)
    BY <1>11, <1>14, <1>16 DEF Longer
  <1> QED
    BY <1>2, <1>11, <1>15, <1>17

LEMMA FinishAgrees ==
  ASSUME LeafInv, Agrees, Finish
  PROVE  Agrees'
  <1> SUFFICES ASSUME buf' = Marshal(written')
               PROVE  /\ how' # "error"
                      /\ \E m \in 0..Width(written.kind)' : leaf' = Prefix(written, m)'
    BY DEF Agrees
  <1>1. UNCHANGED <<written, buf, pos, leaf>> /\ how = "reading" /\ ~Reading
    BY DEF Finish
  <1>2. PICK m \in 0..Width(written.kind) : leaf = Prefix(written, m)
    BY <1>1 DEF Agrees
  <1>3. PICK k \in Nat : SoFar(k)
    BY <1>1 DEF LeafInv
  <1>4. IsLeaf(written) /\ IsPart(leaf, m) /\ leaf.kind = written.kind
    BY <1>2, PrefixIsPart DEF LeafInv
  <1>5. m = k
    BY <1>3, <1>4, PartLen DEF SoFar
  <1>6. m = Width(written.kind)
    BY <1>1, <1>3, <1>4, <1>5, AllFields
  <1>7. leaf = written
    BY <1>2, <1>4, <1>6, PrefixEnds
  <1>8. pos = Len(buf)
    BY <1>1, <1>3, <1>7 DEF SoFar
  <1>9. how' = "ok"
    BY <1>8 DEF Finish
  <1> QED
    BY <1>1, <1>2, <1>9

LEMMA AgreesNext == LeafInv /\ Agrees /\ [Next]_vars => Agrees'
  <1> SUFFICES ASSUME LeafInv, Agrees, [Next]_vars
               PROVE  Agrees'
    OBVIOUS
  <1>1. CASE Peek
    BY <1>1, PeekAgrees
  <1>2. CASE ReadFixed \/ ReadOptional \/ ReadVariable
    BY <1>2, ReadAgrees
  <1>3. CASE Finish
    BY <1>3, FinishAgrees
  <1>4. CASE UNCHANGED vars
    <2>1. UNCHANGED <<written, buf, pos, leaf, how>>
      BY <1>4 DEF vars
    <2> QED
      BY <2>1 DEF Agrees
  <1> QED
    BY <1>1, <1>2, <1>3, <1>4 DEF Next

LEMMA AgreesInvariant == AnySpec => [](LeafInv /\ Agrees)
  <1>1. AnyInit => Agrees
    BY DEF AnyInit, Agrees
  <1> QED
    BY <1>1, LeafInvInit, LeafInvNext, AgreesNext, PTL DEF AnySpec

LEMMA RoundTrips == LeafInv /\ Agrees => RoundTrip
  <1> SUFFICES ASSUME LeafInv, Agrees, buf = Marshal(written), how \in {"ok", "error"}
               PROVE  how = "ok" /\ leaf = written
    BY DEF RoundTrip
  <1>1. how = "ok"
    BY DEF Agrees
  <1>2. PICK m \in 0..Width(written.kind) : leaf = Prefix(written, m)
    BY <1>1 DEF Agrees
  <1>3. PICK k \in Nat : SoFar(k)
    BY <1>1 DEF LeafInv
  <1>4. IsLeaf(written) /\ IsPart(leaf, m) /\ leaf.kind = written.kind
    BY <1>2, PrefixIsPart DEF LeafInv
  <1>5. m = Width(written.kind)
    BY <1>1, <1>3, <1>4, PartLen DEF SoFar
  <1> QED
    BY <1>1, <1>2, <1>4, <1>5, PrefixEnds

\* A leaf of any kind with any fields, of any length a prefix can tell, decodes
\* from its encoding as it was (Marshal and Unmarshal of the three kinds).
THEOREM AlwaysRoundTrips == AnySpec => []RoundTrip
  BY AgreesInvariant, RoundTrips, PTL

\* In particular, the leaves with few fields that are not zero.
THEOREM WrittenRoundTrips == Spec => []RoundTrip
  BY AlwaysRoundTrips, SpecIsAny, PTL

----------------------------------------------------------------------------
(* What a signature covers tells the fields it covers.                     *)

\* Two leaves of a kind with the same covered fields in their signed bytes.
LEMMA CoveredTell ==
  ASSUME NEW l, IsLeaf(l), NEW k, IsLeaf(k), l.kind = k.kind,
         NEW fields, EncodeAll(l, fields) = EncodeAll(k, fields)
  PROVE  \A i \in fields \cap (1..Width(l.kind)) : l.fields[i] = k.fields[i]
  <1>1. PICK n \in Nat : n = Width(l.kind)
    BY PrefixEnds
  <1>2. IsPart(l, n) /\ IsPart(k, n)
    BY <1>1 DEF IsLeaf
  <1>3. PICK s \in [1..n -> Seq(Bytes)] : s = Parts(l, fields)
    BY <1>2, PartsAre
  <1>4. PICK t \in [1..n -> Seq(Bytes)] : t = Parts(k, fields)
    BY <1>2, PartsAre
  <1>5. PICK up \in [0..n -> Seq(Bytes)] : Joins(up, s, n)
    BY JoinsExist
  <1>6. PICK vp \in [0..n -> Seq(Bytes)] : Joins(vp, t, n)
    BY JoinsExist
  <1>7. FlattenSeq(s) = up[n] /\ FlattenSeq(t) = vp[n]
    BY <1>5, <1>6, FlattenJoins
  <1>8. up[n] = vp[n]
    BY <1>2, <1>3, <1>4, <1>7, PartsAre
  <1>9. ASSUME NEW i \in 1..n
        PROVE  /\ i \in fields => /\ s[i] = Encode(Form(l.kind, i), l.fields[i])
                                  /\ t[i] = Encode(Form(l.kind, i), k.fields[i])
               /\ i \notin fields => s[i] = << >> /\ t[i] = << >>
               /\ IsField(Form(l.kind, i), l.fields[i])
               /\ IsField(Form(l.kind, i), k.fields[i])
    <2>1. DOMAIN l.fields = 1..n /\ DOMAIN k.fields = 1..n
      BY <1>2, PartsAre
    <2>2. IsField(Form(l.kind, i), l.fields[i]) /\ IsField(Form(l.kind, i), k.fields[i])
      BY <1>2 DEF IsPart
    <2> QED
      BY <1>3, <1>4, <2>1, <2>2 DEF Parts
  <1>10. Delimited(s, t, n)
    <2>1. ASSUME NEW i \in 1..n
          PROVE  \/ s[i] = << >> /\ t[i] = << >>
                 \/ /\ Len(s[i]) # 0 /\ Len(t[i]) # 0
                    /\ s[i][1] = t[i][1] => Len(s[i]) = Len(t[i])
      <3>1. CASE i \notin fields
        BY <1>9, <3>1
      <3>2. CASE i \in fields
        <4>1. PICK form : form = Form(l.kind, i)
          OBVIOUS
        <4>2. PICK v : v = l.fields[i]
          OBVIOUS
        <4>3. PICK w : w = k.fields[i]
          OBVIOUS
        <4>4. /\ IsField(form, v) /\ IsField(form, w)
              /\ s[i] = Encode(form, v) /\ t[i] = Encode(form, w)
          BY <1>9, <3>2, <4>1, <4>2, <4>3
        <4>5. /\ Len(Encode(form, v)) # 0 /\ Len(Encode(form, w)) # 0
              /\ Encode(form, v)[1] = Encode(form, w)[1]
                   => Len(Encode(form, v)) = Len(Encode(form, w))
          BY <4>4, FieldsTell
        <4> QED
          BY <4>4, <4>5
      <3> QED
        BY <3>1, <3>2
    <2> QED
      BY <2>1 DEF Delimited
  <1>11. s = t
    BY <1>5, <1>6, <1>8, <1>10, JoinsTell
  <1>12. ASSUME NEW i \in 1..n, i \in fields
         PROVE  l.fields[i] = k.fields[i]
    BY <1>9, <1>11, <1>12, FieldsTell
  <1> QED
    BY <1>1, <1>12

LEMMA Tampered == LeafInv => TamperEvident
  <1> SUFFICES ASSUME LeafInv, how = "ok", SigningPayload(leaf) = SigningPayload(written),
                      NEW i \in DOMAIN leaf.fields, leaf.fields[i] # written.fields[i]
               PROVE  Layout[leaf.kind][i][1] = "Signature"
    BY DEF TamperEvident
  <1>1. IsLeaf(leaf) /\ IsLeaf(written)
    BY DEF LeafInv, SoFar, IsLeaf
  <1>2. /\ leaf.kind = written.kind
        /\ EncodeAll(leaf, Covered(leaf.kind)) = EncodeAll(written, Covered(leaf.kind))
        /\ TraceHash(leaf) = TraceHash(written)
    BY DEF SigningPayload
  <1>3. PICK n \in Nat : n = Width(leaf.kind)
    BY <1>1, PrefixEnds
  <1>4. /\ leaf.kind \in Tags /\ DOMAIN leaf.fields = 1..n /\ DOMAIN written.fields = 1..n
        /\ DOMAIN Layout[leaf.kind] = 1..n
    BY <1>1, <1>2, <1>3, PartsAre, LayoutFacts DEF IsLeaf, IsPart
  <1>5. i \notin Covered(leaf.kind)
    BY <1>1, <1>2, <1>3, <1>4, CoveredTell
  <1>6. Layout[leaf.kind][i][1] \in {"Signature", "ToolTrace"}
    BY <1>4, <1>5 DEF Covered
  <1>7. Layout[leaf.kind][i][1] # "ToolTrace"
    <2> SUFFICES ASSUME Layout[leaf.kind][i][1] = "ToolTrace"
                 PROVE  FALSE
      OBVIOUS
    <2>1. \A j \in 1..n : Layout[leaf.kind][j][1] = "ToolTrace" => j = i
      BY <1>3, <1>4, LayoutFacts
    <2>2. TraceHash(leaf) = {leaf.fields[i]}
      BY <1>4, <2>1 DEF TraceHash
    <2>3. TraceHash(written) = {written.fields[i]}
      BY <1>2, <1>4, <2>1 DEF TraceHash
    <2> QED
      BY <1>2, <2>2, <2>3
  <1> QED
    BY <1>6, <1>7

\* Whatever bytes are put in the place of a leaf's: where they decode to a leaf
\* with the same signed bytes (signingPayload), the two differ at most in their
\* signatures.
THEOREM AlwaysTamperEvident == AnySpec => []TamperEvident
  BY LeafInvariant, Tampered, PTL

\* In particular, those that a leaf's bytes are edited to.
THEOREM EditedTamperEvident == Spec => []TamperEvident
  BY AlwaysTamperEvident, SpecIsAny, PTL

\* Two leaves are never encoded alike, whatever their kinds: the LeafHash, a
\* hash of the encoding, stands for the leaf (attestation.go:113-118).
THEOREM OneLeafPerEncoding ==
  ASSUME NEW l, IsLeaf(l), NEW k, IsLeaf(k), Marshal(l) = Marshal(k)
  PROVE  l = k
  <1>1. /\ IsPart(l, Width(l.kind)) /\ IsPart(k, Width(k.kind))
        /\ l.kind \in Tags /\ k.kind \in Tags
    BY DEF IsLeaf, IsPart
  <1>2. Tag[l.kind] = Tag[k.kind]
    BY <1>1, MarshalTypes
  <1>3. l.kind = k.kind
    BY <1>1, <1>2, KindsAre
  <1>4. PICK n \in Nat : n = Width(l.kind)
    BY PrefixEnds
  <1>5. /\ DOMAIN l.fields = 1..n /\ DOMAIN k.fields = 1..n
        /\ EncodeAll(l, 1..n) = FlattenSeq(Parts(l, 1..n))
        /\ EncodeAll(k, 1..n) = FlattenSeq(Parts(k, 1..n))
    BY <1>1, <1>3, <1>4, PartsAre
  <1>6. EncodeAll(l, 1..n) = EncodeAll(k, 1..n)
    <2>1. PICK a \in Seq(Bytes) : a = EncodeAll(l, 1..n)
      BY <1>1, <1>3, <1>4, EncodedAll
    <2>2. PICK b \in Seq(Bytes) : b = EncodeAll(k, 1..n)
      BY <1>1, <1>3, <1>4, EncodedAll
    <2>3. <<Tag[l.kind]>> \o a = <<Tag[l.kind]>> \o b
      BY <1>3, <1>5, <2>1, <2>2 DEF Marshal
    <2>4. a = b
      BY <1>1, <2>3, TagOf, ConcatSimplifications
    <2> QED
      BY <2>1, <2>2, <2>4
  <1>7. \A i \in 1..n : l.fields[i] = k.fields[i]
    BY <1>3, <1>4, <1>6, CoveredTell
  <1>8. l.fields = k.fields
    <2>1. /\ l.fields = [i \in 1..n |-> l.fields[i]]
          /\ k.fields = [i \in 1..n |-> k.fields[i]]
      BY <1>1, <1>3, <1>4 DEF IsPart
    <2> QED
      BY <1>7, <2>1
  <1> QED
    BY <1>1, <1>3, <1>8 DEF IsPart

----------------------------------------------------------------------------
(* All of them.                                                            *)

\* Lists, traces and media go their own ways, or stand still.
LEMMA FormatsContain == FormatsSpec => ListingSpec /\ TraceSpec /\ MediaSpec
  <1>1. NoTrace => TraceInit
    <2> SUFFICES ASSUME NoTrace
                 PROVE  TraceInit
      OBVIOUS
    <2>1. carried \in Traces /\ exact \in LeafHashes
      BY ToolTraceAssumption DEF NoTrace, Traces
    <2> QED
      BY <2>1 DEF NoTrace, TraceInit
  <1>2. NoMedia => MediaInit
    <2> SUFFICES ASSUME NoMedia
                 PROVE  MediaInit
      OBVIOUS
    <2>1. << >> \in [1..0 -> Words] /\ 0 \in 0..MaxWords
      BY ContentMatchAssumption
    <2>2. << >> \in BoundedSeq(Words, MaxWords)
      BY <2>1 DEF BoundedSeq, SeqOf
    <2>3. certified \in File /\ certified.bytes = "original"
      BY <2>2 DEF NoMedia, File, Texts
    <2> QED
      BY <2>3 DEF NoMedia, MediaInit
  <1>3. FormatsInit => ListingInit /\ TraceInit /\ MediaInit
    BY <1>1, <1>2 DEF FormatsInit
  <1>4. [FormatsNext]_<<vars, listing, inspection, media, about>>
          => [ListingNext]_listing /\ [Inspect]_inspection /\ [MediaNext]_media
    BY DEF FormatsNext
  <1> QED
    BY <1>3, <1>4, PTL DEF FormatsSpec, ListingSpec, TraceSpec, MediaSpec

\* A leaf is decoded as any bytes are, or there is none.
LEMMA FormatsLeaves == FormatsSpec => [](NoLeaf \/ (LeafInv /\ Agrees))
  <1>1. FormatsInit => NoLeaf \/ (LeafInv /\ Agrees)
    <2>1. Init => LeafInv /\ Agrees
      BY InitIsAny, LeafInvInit DEF AnyInit, Agrees
    <2> QED
      BY <2>1 DEF FormatsInit
  <1>2. [FormatsNext]_<<vars, listing, inspection, media, about>> => [Next]_vars
    BY DEF FormatsNext
  <1>3. NoLeaf /\ [Next]_vars => NoLeaf'
    <2>1. NoLeaf => ~Next
      BY DEF NoLeaf, Next, Peek, Reading, ReadFixed, ReadOptional, ReadVariable, Finish
    <2>2. NoLeaf /\ UNCHANGED vars => NoLeaf'
      BY DEF NoLeaf, vars
    <2> QED
      BY <2>1, <2>2
  <1> QED
    BY <1>1, <1>2, <1>3, LeafInvNext, AgreesNext, PTL DEF FormatsSpec

\* What is written is read back as it was, and nothing else: what all of the
\* above says of pkg/leaf, pkg/status's artifact, the tool trace and the
\* fingerprints, of the specification in which they stand side by side.
THEOREM FormatsHold ==
  FormatsSpec => /\ [](RoundTrip /\ TamperEvident /\ Strict)
                 /\ [](FindTellsRecords /\ ProducedIsUnderstood)
                 /\ [](MatchNamesTheLeaf /\ OwnMediaMatches /\ MatchIsEarned)
                 /\ RepublishedMeansChanged
  <1>1. NoLeaf => RoundTrip /\ TamperEvident /\ Strict
    BY DEF NoLeaf, RoundTrip, TamperEvident, Strict
  <1>2. LeafInv /\ Agrees => RoundTrip /\ TamperEvident /\ Strict
    BY RoundTrips, Tampered, Strictly
  <1> QED
    BY <1>1, <1>2, FormatsLeaves, FormatsContain, FindTellsRecordsHolds,
       ProducedAlwaysUnderstood, MatchAlwaysNamesTheLeaf, OwnMediaAlwaysMatches,
       MatchesAlwaysEarned, RepublishedMeansChangedHolds, PTL
=============================================================================
