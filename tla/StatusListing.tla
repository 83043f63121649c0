---------------------------- MODULE StatusListing ----------------------------
(***************************************************************************)
(* pkg/status: the withdrawn set as a list.  StatusPublisher speaks of     *)
(* sets; the code is handed a list in any order, sorts it, compares it     *)
(* entry by entry with the published one, and writes it out; a verifier    *)
(* looks for a leaf hash in the list it has read.                          *)
(*                                                                         *)
(* A base64 string is a number, compared as strings are: 2h is what Go's   *)
(* encoder makes of leaf hash h, and 2h + 1 another string that its        *)
(* decoder, which is not strict about the last character's spare bits,     *)
(* takes for the same 32 bytes.  Reason and withdrawn_at are one field,    *)
(* the detail.                                                             *)
(***************************************************************************)
EXTENDS Integers, FiniteSets, Sequences, SequencesExt

CONSTANTS
  Spellings,  \* base64 strings that occur in HII's records
  Details,    \* values of (reason, withdrawn_at)
  Garbled,    \* those of them that are not UTF-8
  Replaced,   \* what these are written as, with U+FFFD in them
  MaxListed,  \* bound: entries in the records
  MaxVersion  \* bound: versions published

ASSUME StatusListingAssumption ==
  /\ Spellings \subseteq Nat
  /\ Garbled \subseteq Details /\ Replaced \notin Garbled
  /\ MaxListed \in Nat /\ MaxVersion \in Nat

Entry == [leaf_hash : Spellings, detail : Details]

VARIABLES
  records,    \* HII's records: a set of entries
  published,  \* {} or {the Withdrawn list of the current artifact, parsed}
  version,    \* its version, 0 for none
  shown       \* history: the records it was built from

listing == <<records, published, version, shown>>

\* EncodeToString
Encoded(h) == 2 * h

\* The lists that hold exactly the entries of S, each once: what a query of
\* the records may return.
Listings(S) == Bijection(1..Cardinality(S), S)

SortedByHash(list) ==
  \A i, j \in DOMAIN list : i < j => list[i].leaf_hash <= list[j].leaf_hash

\* Mutant: the list is left in the order given.
normaliseNot(in) == {in}

\* sort.Slice promises no order among entries of one hash: any of the results.
normalise(in) == {out \in Listings(Range(in)) : SortedByHash(out)}

\* Entry by entry, and the lengths: sequences are equal.
sameSet(a, b) == a = b

\* The JSON encoder does not write what is not UTF-8 as it is.
Written(e) == [e EXCEPT !.detail = IF @ \in Garbled THEN Replaced ELSE @]

\* BuildArtifact, and ParseArtifact of that
Parsed(list) == [i \in DOMAIN list |-> Written(list[i])]

\* Mutant: the last entry is not looked at.
FindButLast(list, h) ==
  LET found == {i \in 1..(Len(list) - 1) : list[i].leaf_hash = Encoded(h)}
  IN  {list[i] : i \in {j \in found : \A k \in found : j <= k}}

\* The first entry with the hash, as a set of one; {} for not withdrawn.
Find(list, h) ==
  LET found == {i \in DOMAIN list : list[i].leaf_hash = Encoded(h)}
  IN  {list[i] : i \in {j \in found : \A k \in found : j <= k}}

ListingInit ==
  /\ records = {} /\ published = {} /\ version = 0 /\ shown = {}

ChangeRecords ==
  /\ records' \in {S \in SUBSET Entry : IsFiniteSet(S) /\ Cardinality(S) <= MaxListed}
  /\ UNCHANGED <<published, version, shown>>

\* Publish of one listing of the records, as far as the list goes.
Publish ==
  /\ \E list \in Listings(records) : \E entries \in normalise(list) :
       IF \E prev \in published : sameSet(prev, entries)
         THEN UNCHANGED <<published, version, shown>>
         ELSE /\ version < MaxVersion
              /\ version' = version + 1
              /\ published' = {Parsed(entries)}
              /\ shown' = records
  /\ UNCHANGED records

ListingNext == ChangeRecords \/ Publish

ListingSpec == ListingInit /\ [][ListingNext]_listing

----------------------------------------------------------------------------
\* Two entries for one string, with different details.
Ambiguous(S) == \E d, e \in S : d # e /\ d.leaf_hash = e.leaf_hash

Plain(S) == ~Ambiguous(S) /\ \A e \in S : e.detail \notin Garbled

\* "Sorting is what makes an unchanged set produce identical bytes run after
\* run" (publish.go:200-201): in whatever order the records are listed, a new
\* version after the first means a changed set, unless they name one leaf twice
\* or hold a reason that is not UTF-8.
RepublishedMeansChanged ==
  [][version' # version /\ published # {} /\ Plain(records) => records # shown]_listing

\* A verifier finds a leaf in the published list exactly if HII's records hold
\* its hash as Go's encoder spells it (ValidateLeafHashB64, "a malformed hash
\* can never match", would let other spellings through), and reports what one
\* of the entries for it said.
FindTellsRecords ==
  \A list \in published : \A h \in {s \div 2 : s \in Spellings} :
    LET about == {e \in shown : e.leaf_hash = Encoded(h)}
        told  == Find(list, h)
    IN  /\ about = {} <=> told = {}
        /\ told \subseteq {Written(e) : e \in about}
=============================================================================
