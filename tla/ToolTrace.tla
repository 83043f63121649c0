------------------------------ MODULE ToolTrace ------------------------------
(***************************************************************************)
(* internal/verify/tooltrace.go: what InspectToolTrace reports of the JSON *)
(* an attestation carries.  HII writes an object of four keys in order,    *)
(* without spaces, null for what is absent; a leaf of anyone else may      *)
(* carry anything.                                                         *)
(*                                                                         *)
(* JSON is modelled by its members in the order written.  Of the four keys *)
(* two are kept (nothing is computed from the others but that they are     *)
(* there), and a third that Go takes for exact_hash, as it decodes structs *)
(* without regard to case.                                                 *)
(***************************************************************************)
EXTENDS Integers, Sequences, SequencesExt

CONSTANTS
  LeafHashes,  \* values of an attestation's ExactHash
  MaxMembers   \* bound: members of an object

ASSUME ToolTraceAssumption == LeafHashes # {} /\ MaxMembers \in Nat

\* In the order of their bytes.
Keys == <<"EXACT_HASH", "certification_id", "exact_hash">>

\* JSON values: strings are "", the lower-case hexadecimal of a hash, its
\* upper-case one, or other text.
Hex(h)   == [type |-> "hex", of |-> h]
Upper(h) == [type |-> "HEX", of |-> h]
Empty    == [type |-> "empty"]
Text     == [type |-> "text"]
Null     == [type |-> "null"]
Number   == [type |-> "number"]

JSONValues ==
  {Null, Number, Empty, Text} \cup UNION {{Hex(h), Upper(h)} : h \in LeafHashes}

Member == [key : DOMAIN Keys, value : JSONValues]

\* tail: what follows the value; "]" and "}" look like an end to dec.More.
Traces ==
  {[form |-> "absent"], [form |-> "garbage"], [form |-> "array"]}
    \cup [form : {"null"}, spaced : BOOLEAN, tail : {"", "]", "more"}]
    \cup [form : {"object"}, members : BoundedSeq(Member, MaxMembers),
          spaced : BOOLEAN, tail : {"", "]", "more"}]

VARIABLES
  carried,  \* the ToolTrace carried
  exact,    \* the ExactHash of the attestation
  trace     \* {} or {the ToolTraceReport}

inspection == <<carried, exact, trace>>

\* Mutant: a key may come twice.
IsCanonicalWithTwins(t) ==
  /\ ~t.spaced
  /\ t.form = "object" =>
       \A i, j \in DOMAIN t.members : i < j => t.members[i].key <= t.members[j].key

\* An object has each key once, in order, and nothing but what it needs: the
\* members as a Go map marshals them, and Python with sort_keys.
IsCanonical(t) ==
  /\ ~t.spaced
  /\ t.form = "object" =>
       \A i, j \in DOMAIN t.members : i < j => t.members[i].key < t.members[j].key

Members(t) == IF t.form = "object" THEN t.members ELSE << >>

\* The struct field that a key is decoded into.
Field(k) == IF Keys[k] = "certification_id" THEN "CertificationID" ELSE "ExactHash"

\* json.Unmarshal: the last string for a field stays, null leaves it as it is.
Decoded(t, field) ==
  LET given == {i \in DOMAIN Members(t) :
                  Field(Members(t)[i].key) = field /\ Members(t)[i].value # Null}
      last  == CHOOSE i \in given : \A j \in given : j <= i
  IN  IF given = {} THEN Empty ELSE Members(t)[last].value

\* Mutant: null is taken for a value of the wrong type.
NotOfSchemaStrict(t) ==
  t.tail # "" \/ \E i \in DOMAIN Members(t) : Members(t)[i].value \in {Null, Number}

\* The second decoding fails on trailing bytes and on what is not a string.
NotOfSchema(t) ==
  t.tail # "" \/ \E i \in DOMAIN Members(t) : Members(t)[i].value = Number

Blank ==
  [present |-> FALSE, parsed |-> FALSE, certification |-> Empty,
   canonical |-> FALSE, checked |-> FALSE, matches |-> FALSE, note |-> ""]

\* InspectToolTrace
InspectToolTrace(t, h) ==
  LET present == [Blank EXCEPT !.present = TRUE]
      stated  == Decoded(t, "ExactHash")
      parsed  == [present EXCEPT !.parsed = TRUE,
                    !.certification = Decoded(t, "CertificationID"),
                    !.canonical = IsCanonical(t)]
  IN  IF t.form = "absent" THEN Blank
      ELSE IF t.form \in {"garbage", "array"}
        THEN [present EXCEPT !.note = "not valid JSON"]
      ELSE IF t.tail = "more" THEN [present EXCEPT !.note = "trailing content"]
      ELSE IF NotOfSchema(t) THEN [present EXCEPT !.note = "not of the schema"]
      ELSE IF stated = Empty THEN parsed
      ELSE IF stated = Text THEN [parsed EXCEPT !.note = "not valid hex"]
      ELSE [parsed EXCEPT !.checked = TRUE, !.matches = stated \in {Hex(h), Upper(h)}]

TraceInit == carried \in Traces /\ exact \in LeafHashes /\ trace = {}

Inspect ==
  /\ trace = {}
  /\ trace' = {InspectToolTrace(carried, exact)}
  /\ UNCHANGED <<carried, exact>>

----------------------------------------------------------------------------
\* "Canonical form, as produced by HII" (tooltrace.go:22-30): both keys, in
\* order, null for what is absent.
Produced(certification, hash) ==
  [form |-> "object", spaced |-> FALSE, tail |-> "",
   members |-> <<[key |-> 2, value |-> certification],
                 [key |-> 3, value |-> hash]>>]

\* A trace that HII wrote is read as it was meant: nothing to remark on, and the
\* leaf is its own if and only if the certified hash is the leaf's.
ProducedIsUnderstood ==
  \A c \in {Null, Text}, h \in {Null} \cup {Hex(x) : x \in LeafHashes} :
    carried = Produced(c, h) =>
      \A r \in trace :
        /\ r.parsed /\ r.canonical /\ r.note = ""
        /\ r.certification = Text <=> c = Text
        /\ r.checked <=> h # Null
        /\ r.matches <=> h = Hex(exact)

\* What a report says of a canonical trace does not depend on how a reader
\* treats a key that comes twice: if it matches (tooltrace.go:65-68: "proves
\* the trace describes THIS leaf's media"), the trace names the leaf's hash
\* and no other, unless a key that differs from exact_hash by case alone does.
\* No report calls a trace unreadable and a match at once.
MatchNamesTheLeaf ==
  \A r \in trace :
    r.matches =>
      /\ r.parsed /\ r.checked /\ r.note = ""
      /\ r.canonical =>
           \A i \in DOMAIN carried.members :
             Keys[carried.members[i].key] = "exact_hash" =>
               carried.members[i].value \in {Hex(exact), Upper(exact), Null}
=============================================================================
