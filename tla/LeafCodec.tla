------------------------------- MODULE LeafCodec -------------------------------
(***************************************************************************)
(* pkg/leaf: the canonical encoding of the three kinds of leaf, and their  *)
(* decoders, read by read.  A decoder is given the bytes of a leaf as they *)
(* were written, or with one byte changed, dropped or added, or cut off.   *)
(*                                                                         *)
(* Widths are scaled down: a field of fixed width (u8, u32, u64, fixed(n)) *)
(* is one byte, and so is the length in front of a field of variable       *)
(* width.  A signature is one more field, and covers what signingPayload   *)
(* returns.                                                                *)
(***************************************************************************)
EXTENDS Integers, Sequences, SequencesExt

CONSTANTS
  Kinds,   \* the kinds of leaf considered
  Bytes,   \* the values of a byte
  Values,  \* those of them that occur in the leaves that are written
  MaxLen   \* bound: the length of a written field of variable width

Tag == [attestation |-> 1, binding |-> 2, anchor |-> 3]

ASSUME LeafCodecAssumption ==
  /\ Kinds \subseteq DOMAIN Tag
  /\ Bytes \subseteq Nat /\ Values \subseteq Bytes
  /\ MaxLen \in Nat
  /\ {0, 1, 2, 3} \cup 0..MaxLen \subseteq Bytes  \* a flag, a tag, a length

\* The fields after the kind tag, in order.  "opt" is a hash behind a flag.
AttestationLayout ==
  << <<"SchemaVersion", "fixed">>, <<"WorkID", "fixed">>, <<"EventSeq", "fixed">>,
     <<"PrevEventHash", "opt">>, <<"EventType", "var">>, <<"MediaType", "var">>,
     <<"AlgorithmID", "var">>, <<"FuzzyDigest", "var">>, <<"ExactHash", "fixed">>,
     <<"ExactAlg", "var">>, <<"SignerPubKey", "fixed">>, <<"Signature", "fixed">>,
     <<"SubmittedAt", "fixed">>, <<"ToolTrace", "var">> >>

BindingLayout ==
  << <<"CreatorID", "var">>, <<"AuthorizedKey", "fixed">>, <<"KeyType", "fixed">>,
     <<"ValidFrom", "fixed">>, <<"IssuerPubKey", "fixed">>, <<"Signature", "fixed">> >>

AnchorLayout ==
  << <<"SchemaVersion", "fixed">>, <<"ArtifactVersion", "fixed">>,
     <<"ArtifactHash", "fixed">>, <<"IssuedAt", "fixed">>,
     <<"IssuerPubKey", "fixed">>, <<"Signature", "fixed">> >>

Layout ==
  [attestation |-> AttestationLayout, binding |-> BindingLayout,
   anchor |-> AnchorLayout]

Form(kind, i) == Layout[kind][i][2]

----------------------------------------------------------------------------
(* encoder                                                                 *)

\* A field is a sequence of bytes, of none for an absent hash.
Encode(form, value) ==
  IF form = "fixed" THEN value ELSE <<Len(value)>> \o value

\* Those of the fields, one after the other.
EncodeAll(leaf, fields) ==
  FlattenSeq([i \in DOMAIN leaf.fields |->
                IF i \in fields THEN Encode(Form(leaf.kind, i), leaf.fields[i])
                                ELSE << >>])

Marshal(leaf) == <<Tag[leaf.kind]>> \o EncodeAll(leaf, DOMAIN leaf.fields)

\* The fields the signature covers as they are.
Covered(kind) ==
  {i \in DOMAIN Layout[kind] : Layout[kind][i][1] \notin {"Signature", "ToolTrace"}}

\* A tool trace is covered by its hash, which is of the same width always; of
\* no trace, by the zero hash.
TraceHash(leaf) ==
  {leaf.fields[i] : i \in {j \in DOMAIN leaf.fields :
                             Layout[leaf.kind][j][1] = "ToolTrace"}}

\* Mutant: one domain for all kinds.
OneDomainPayload(leaf) ==
  [domain |-> "leaf", body |-> EncodeAll(leaf, Covered(leaf.kind)),
   hash |-> TraceHash(leaf)]

\* What the signature covers: the domain, every field but the signature.
SigningPayload(leaf) ==
  [domain |-> leaf.kind, body |-> EncodeAll(leaf, Covered(leaf.kind)),
   hash |-> TraceHash(leaf)]

----------------------------------------------------------------------------
(* What is written and what a decoder is given of it.                      *)

Zero(form) == IF form = "fixed" THEN <<0>> ELSE << >>

ValuesOf(form) ==
  IF form = "var" THEN BoundedSeq(Values, MaxLen)
                  ELSE {<<v>> : v \in Values} \cup {Zero(form)}

\* Leaves with at most two fields that are not zero or empty.
LeavesOf(kind) ==
  LET zero == [i \in DOMAIN Layout[kind] |-> Zero(Form(kind, i))]
  IN  {[kind |-> kind, fields |-> f] :
         f \in UNION {{[zero EXCEPT ![i] = v, ![j] = w] :
                          v \in ValuesOf(Form(kind, i)), w \in ValuesOf(Form(kind, j))} :
                        i, j \in DOMAIN zero}}

Edits(bytes) ==
  {bytes}
    \cup {[bytes EXCEPT ![i] = b] : i \in DOMAIN bytes, b \in Bytes}
    \cup {RemoveAt(bytes, i) : i \in DOMAIN bytes}
    \cup {InsertAt(bytes, i, b) : i \in 1..(Len(bytes) + 1), b \in Bytes}
    \cup {SubSeq(bytes, 1, n) : n \in 0..Len(bytes)}

VARIABLES
  written,   \* the leaf that was written
  buf, pos,  \* the decoder
  leaf,      \* what has been decoded so far
  how        \* "peek", "reading", "ok" or "error"

vars == <<written, buf, pos, leaf, how>>

Init ==
  /\ \E kind \in Kinds :
       /\ written \in LeavesOf(kind)
       /\ leaf = [kind |-> kind, fields |-> << >>]
  /\ buf \in Edits(Marshal(written))
  /\ pos = 0
  /\ how = "peek"

----------------------------------------------------------------------------
(* decoder                                                                 *)

\* Mutant: the last byte is out of bounds.
HoldsBeyond(n) == pos + n < Len(buf)

Holds(n) == pos + n <= Len(buf)

\* PeekKind, the dispatch on it, and the decoder's own reading of the tag.
Peek ==
  /\ how = "peek"
  /\ IF Holds(1) /\ \E kind \in DOMAIN Tag : Tag[kind] = buf[1]
       THEN /\ leaf' = [kind   |-> CHOOSE kind \in DOMAIN Tag : Tag[kind] = buf[1],
                        fields |-> << >>]
            /\ pos' = 1
            /\ how' = "reading"
       ELSE /\ how' = "error"
            /\ UNCHANGED <<pos, leaf>>
  /\ UNCHANGED <<written, buf>>

\* One more field, of n bytes from offset skip on; or errTruncated.
Read(skip, n) ==
  /\ IF Holds(skip + n)
       THEN /\ leaf' = [leaf EXCEPT !.fields =
                          Append(@, SubSeq(buf, pos + skip + 1, pos + skip + n))]
            /\ pos' = pos + skip + n
            /\ UNCHANGED how
       ELSE /\ how' = "error"
            /\ UNCHANGED <<pos, leaf>>
  /\ UNCHANGED <<written, buf>>

NextForm == Form(leaf.kind, Len(leaf.fields) + 1)

Reading == how = "reading" /\ Len(leaf.fields) < Len(Layout[leaf.kind])

ReadFixed ==
  /\ Reading /\ NextForm = "fixed"
  /\ Read(0, 1)

\* hasPrev: a hash follows if the flag is 1.
ReadOptional ==
  /\ Reading /\ NextForm = "opt"
  /\ Read(1, IF Holds(1) /\ buf[pos + 1] = 1 THEN 1 ELSE 0)

\* bytes and str
ReadVariable ==
  /\ Reading /\ NextForm = "var"
  /\ Read(1, IF Holds(1) THEN buf[pos + 1] ELSE 0)

\* Mutant: what is left over is not looked at.
FinishEarly ==
  /\ how = "reading" /\ ~Reading
  /\ how' = "ok"
  /\ UNCHANGED <<written, buf, pos, leaf>>

Finish ==
  /\ how = "reading" /\ ~Reading
  /\ how' = IF pos = Len(buf) THEN "ok" ELSE "error"
  /\ UNCHANGED <<written, buf, pos, leaf>>

Next == Peek \/ ReadFixed \/ ReadOptional \/ ReadVariable \/ Finish

Spec == Init /\ [][Next]_vars

----------------------------------------------------------------------------
\* A leaf that is decoded as it was written comes out as it was.
RoundTrip ==
  buf = Marshal(written) /\ how \in {"ok", "error"} => how = "ok" /\ leaf = written

\* Where an attestation's flag is: after the tag and three fields of one byte.
FlagAt == 5

\* "Strict round-trip" (verification-spec.md:52, codec.go:114): one byte string
\* for each leaf, but for the flag of an absent PrevEventHash, which decodes to
\* absent from any byte but 1 (attestation.go:152-153).  The LeafHash a status
\* artifact lists is the hash of a leaf's bytes to cocverify/status.go:76, and
\* of its decoded and re-encoded fields to VerifyLeaf and to provenance: they
\* agree on leaves with one encoding.
Strict ==
  how = "ok" /\ Marshal(leaf) # buf =>
    /\ leaf.kind = "attestation"
    /\ Marshal(leaf)[FlagAt] = 0
    /\ buf \in {[Marshal(leaf) EXCEPT ![FlagAt] = b] : b \in Bytes \ {0, 1}}

\* No edit of a leaf's bytes gives another leaf that the old signature covers,
\* of the same kind or of another ("can never be replayed as another",
\* attestation.go:8-9).
TamperEvident ==
  how = "ok" /\ leaf # written /\ SigningPayload(leaf) = SigningPayload(written)
    => \A i \in DOMAIN leaf.fields :
         leaf.fields[i] # written.fields[i] => Layout[leaf.kind][i][1] = "Signature"
=============================================================================
