----------------------------- MODULE ContentMatch -----------------------------
(***************************************************************************)
(* pkg/fuzzy, pkg/attest and MatchMedia of internal/verify: the            *)
(* fingerprints an attestation is made with, and what a verifier makes of  *)
(* them and of a file, perhaps years later.                                *)
(*                                                                         *)
(* A work is a text or a picture.  A text is its normalized words, a       *)
(* picture the low-frequency coefficients of its transform.  A digest has  *)
(* Bits bits for the code's 64.  Hashes of different bytes differ.  A text *)
(* is compared as it was extracted; that two extractions of one document   *)
(* may differ (verification-spec.md:305-314) is two texts here.            *)
(***************************************************************************)
EXTENDS Integers, Sequences, FiniteSets, SequencesExt

CONSTANTS
  Words,         \* what texts consist of
  MaxWords,      \* bound: words of a text
  Coefficients,  \* values of a picture's coefficients
  Bits,          \* bits of a digest
  Feature,       \* the hash of a sequence of words: a set of bits
  Noise,         \* the words there are in a picture's bytes
  Tolerance      \* algorithm -> bits that may differ in a match

Shingle == 3     \* simhash64Shingle

Registered == {"simhash64-v1", "simhash-text-v1", "phash-dct-64"}
Other == "unregistered"

\* fuzzy.Default: no algorithm is the default for sound or video.
defaultByMedia ==
  [text |-> "simhash64-v1", photo |-> "phash-dct-64", digitalart |-> "phash-dct-64"]

ASSUME ContentMatchAssumption ==
  /\ MaxWords \in Nat /\ Bits \in Nat \ {0}
  /\ Coefficients \subseteq Int
  /\ Noise \in Seq(Words)
  /\ \A s \in BoundedSeq(Words, Shingle) : Feature[s] \subseteq 1..Bits
  /\ Tolerance \in [Registered -> Nat]

Texts    == [kind : {"text"}, words : BoundedSeq(Words, MaxWords)]
Pictures == [kind : {"picture"}, block : [1..Bits -> Coefficients]]

\* A file is a work and the bytes it is kept in: the same normalized text may come
\* from other bytes, a picture in other bytes is another picture.
File == [work : Texts, bytes : {"original", "converted"}]
          \cup [work : Pictures, bytes : {"original"}]

----------------------------------------------------------------------------
(* Digests, as sets of bits.                                               *)

WordsOf(work) == IF work.kind = "text" THEN work.words ELSE Noise

\* simhash64Shingles
Shingles(words) ==
  IF words = << >> THEN << >>
  ELSE IF Len(words) < Shingle THEN <<words>>
  ELSE [i \in 1..(Len(words) - Shingle + 1) |-> SubSeq(words, i, i + Shingle - 1)]

\* tokenize: every occurrence counts.
Tokens(words) == [i \in DOMAIN words |-> <<words[i]>>]

\* A bit is set if more features have it than have not; a tie leaves it clear.
SimHash(features) ==
  {b \in 1..Bits :
     2 * Cardinality({i \in DOMAIN features : b \in Feature[features[i]]})
       > Len(features)}

\* The upper median of all coefficients but the first.
MedianExcludingFirst(block) ==
  LET rest == 2..Bits
      half == (Bits - 1) \div 2
  IN  CHOOSE m \in {block[i] : i \in rest} :
        /\ Cardinality({i \in rest : block[i] < m}) <= half
        /\ Cardinality({i \in rest : block[i] <= m}) > half

\* Coefficients that lie at the median up to rounding: on which side of it one comes
\* out differs between builds of the same code (verification-spec.md:235-255).
Ties(block) == {b \in 1..Bits : block[b] = MedianExcludingFirst(block)}

PHash(block) ==
  {{b \in 1..Bits : block[b] > MedianExcludingFirst(block)} \cup up :
     up \in SUBSET Ties(block)}

\* The bits of a work's digest that the build decides, not the work.
Unstable(alg, work) ==
  IF alg = "phash-dct-64" /\ work.kind = "picture" THEN Ties(work.block) ELSE {}

\* What Digest returns, in one build or another; {} if the work cannot be digested.
Digest(alg, work) ==
  IF alg = "simhash64-v1" THEN {SimHash(Shingles(WordsOf(work)))}
  ELSE IF alg = "simhash-text-v1" THEN {SimHash(Tokens(WordsOf(work)))}
  ELSE IF work.kind = "picture" THEN PHash(work.block) ELSE {}

Distance(a, b) == Cardinality((a \ b) \cup (b \ a))

----------------------------------------------------------------------------
(* The two builders, and the match.                                        *)

Hash(file, alg) == [alg |-> alg, of |-> file]

\* Build, by any build: {} for an error.  A leaf names no exact algorithm; it is BLAKE3.
Build(file, media, asked) ==
  LET default == IF media \in DOMAIN defaultByMedia THEN defaultByMedia[media] ELSE Other
      alg     == IF asked = "" THEN default ELSE asked
  IN  IF alg \notin Registered THEN {}
      ELSE {[alg |-> alg, digest |-> d, sized |-> TRUE,
             exact |-> Hash(file, "blake3"), exactAlg |-> ""] :
              d \in Digest(alg, file.work)}

\* BuildPrecomputed takes anything; sized: the digest has 8 bytes.
BuildPrecomputed(exact, exactAlg, digest, sized, alg) ==
  [alg |-> alg, digest |-> digest, sized |-> sized,
   exact |-> exact, exactAlg |-> exactAlg]

\* Mutant: a leaf that names no algorithm is taken to be HII's.
exactMatchOfHII(file, att) ==
  att.exact = Hash(file, IF att.exactAlg = "blake3" THEN "blake3" ELSE "sha256")

exactMatch(file, att) ==
  \/ att.exactAlg = "sha256" /\ att.exact = Hash(file, "sha256")
  \/ att.exactAlg \in {"blake3", ""} /\ att.exact = Hash(file, "blake3")

Unchecked(exact, note) ==
  [exact |-> exact, checked |-> FALSE, match |-> FALSE, distance |-> 0, note |-> note]

Checked(exact, far, alg) ==
  [exact |-> exact, checked |-> TRUE, note |-> "",
   match |-> far <= Tolerance[alg], distance |-> far]

\* Mutant: a digest of the wrong size is compared as far as it goes.
MatchMediaUnsized(file, att) ==
  LET exact == exactMatch(file, att)
  IN  IF att.alg \notin Registered \/ Digest(att.alg, file.work) = {}
        THEN {Unchecked(exact, "unknown or failed")}
        ELSE {Checked(exact, Distance(d, att.digest), att.alg) :
                d \in Digest(att.alg, file.work)}

\* What a verifier finds, whichever build it is.
MatchMedia(file, att) ==
  LET exact == exactMatch(file, att)
  IN  IF att.alg \notin Registered THEN {Unchecked(exact, "unknown algorithm")}
      ELSE IF Digest(att.alg, file.work) = {} THEN {Unchecked(exact, "digest failed")}
      ELSE IF ~att.sized THEN {Unchecked(exact, "distance failed")}
      ELSE {Checked(exact, Distance(d, att.digest), att.alg) :
              d \in Digest(att.alg, file.work)}

----------------------------------------------------------------------------
VARIABLES
  certified,  \* the file that was certified
  attested,   \* {} or {what its attestation says of it}
  honest,     \* history: these are the certified file's own hash and digest
  presented,  \* {} or {the file a verifier has}
  found       \* {} or {the ContentMatch}

media == <<certified, attested, honest, presented, found>>

MediaInit ==
  /\ certified \in {f \in File : f.bytes = "original"}
  /\ attested = {} /\ honest = TRUE /\ presented = {} /\ found = {}

\* attest.Build, by whoever has the media.
AttestMedia ==
  /\ attested = {}
  /\ \E type \in DOMAIN defaultByMedia \cup {"audio"}, asked \in Registered \cup {"", Other} :
       LET built == Build(certified, type, asked)
       IN  IF built = {} THEN attested' = {} ELSE \E att \in built : attested' = {att}
  /\ UNCHANGED <<certified, honest, presented, found>>

\* BuildPrecomputed, from a caller's hash, digest and names for them; they fit
\* together or do not.
AttestDigests ==
  /\ attested = {}
  /\ \E hashed \in {"sha256", "blake3"}, named \in {"sha256", "blake3", "", Other},
        alg \in Registered \cup {Other}, sized \in BOOLEAN,
        d \in Digest("simhash64-v1", certified.work) :
       /\ attested' = {BuildPrecomputed(Hash(certified, hashed), named, d, sized, alg)}
       /\ honest' = /\ sized /\ alg = "simhash64-v1"
                    /\ hashed = (IF named = "" THEN "blake3" ELSE named)
  /\ UNCHANGED <<certified, presented, found>>

Compare ==
  /\ found = {} /\ attested # {}
  /\ \E file \in File, att \in attested : \E m \in MatchMedia(file, att) :
       presented' = {file} /\ found' = {m}
  /\ UNCHANGED <<certified, attested, honest>>

MediaNext == AttestMedia \/ AttestDigests \/ Compare

----------------------------------------------------------------------------
\* "The same code runs at registration and at verification" (fuzzy.go:6-8):
\* whatever algorithm was chosen at registration, the certified file is recognised
\* byte for byte; and unless its digest is all zero, which is evidence of nothing,
\* it is compared and found no further off than by the bits that rounding decides,
\* and so a match if the tolerance covers those.  A text has none: it is found at
\* distance 0, in whatever bytes the same normalized text is kept.
OwnMediaMatches ==
  honest => \A file \in presented, att \in attested, m \in found :
    file.work = certified.work =>
      LET unstable == Cardinality(Unstable(att.alg, certified.work))
      IN  /\ m.exact <=> file = certified
          /\ att.digest # {} =>
               /\ m.checked /\ m.distance <= unstable
               /\ unstable <= Tolerance[att.alg] => m.match

\* Whatever the attestation says, a file that is not the certified bytes is no
\* exact match; a fuzzy match is one by the algorithm the attestation names,
\* between digests of the right size; and a comparison that was not made says
\* why, and is no match.  (That of two all-zero digests is made, and is a match.)
MatchIsEarned ==
  \A file \in presented, att \in attested, m \in found :
    /\ m.exact => file = certified
    /\ m.match =>
         /\ att.sized
         /\ \E d \in Digest(att.alg, file.work) :
              Distance(d, att.digest) <= Tolerance[att.alg]
    /\ ~m.checked <=> m.note # ""
    /\ ~m.checked => ~m.match
=============================================================================
