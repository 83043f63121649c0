-------------------------------- MODULE Formats --------------------------------
(***************************************************************************)
(* What is written and read back: a leaf, the withdrawn list of a status   *)
(* artifact, a tool trace, the fingerprints of a work.  A behaviour is     *)
(* about one of them, and its kinds share nothing.                         *)
(***************************************************************************)
EXTENDS LeafCodec, StatusListing, ToolTrace, ContentMatch

VARIABLE about  \* "leaf", "listing", "trace" or "media"

\* What is not at hand stands still.
NoLeaf ==
  /\ written = [kind |-> "anchor", fields |-> << >>] /\ leaf = written
  /\ buf = << >> /\ pos = 0 /\ how = "none"

NoTrace ==
  /\ carried = [form |-> "absent"] /\ trace = {}
  /\ exact = (CHOOSE h \in LeafHashes : TRUE)

NoMedia ==
  /\ certified = [work |-> [kind |-> "text", words |-> << >>], bytes |-> "original"]
  /\ attested = {} /\ honest = TRUE /\ presented = {} /\ found = {}

FormatsInit ==
  \/ about = "leaf" /\ Init /\ ListingInit /\ NoTrace /\ NoMedia
  \/ about = "listing" /\ NoLeaf /\ ListingInit /\ NoTrace /\ NoMedia
  \/ about = "trace" /\ NoLeaf /\ ListingInit /\ TraceInit /\ NoMedia
  \/ about = "media" /\ NoLeaf /\ ListingInit /\ NoTrace /\ MediaInit

FormatsNext ==
  /\ UNCHANGED about
  /\ \/ about = "leaf" /\ Next /\ UNCHANGED <<listing, inspection, media>>
     \/ about = "listing" /\ ListingNext /\ UNCHANGED <<vars, inspection, media>>
     \/ about = "trace" /\ Inspect /\ UNCHANGED <<vars, listing, media>>
     \/ about = "media" /\ MediaNext /\ UNCHANGED <<vars, listing, inspection>>

FormatsSpec == FormatsInit /\ [][FormatsNext]_<<vars, listing, inspection, media, about>>

\* For the configuration: words are numbers, and the hash of a few of them the
\* binary digits of a number that depends on each and on their order.
MCFeature ==
  [s \in BoundedSeq({1, 2}, 3) |->
     LET n == FoldLeft(LAMBDA acc, word : 5 * acc + word, 0, s)
     IN  {b \in 1..4 : (n \div 2^(b - 1)) % 2 = 1}]

MCNoise == <<2>>

MCTolerance ==
  [alg \in {"simhash64-v1", "simhash-text-v1", "phash-dct-64"} |->
     IF alg = "phash-dct-64" THEN 2 ELSE 1]
=============================================================================
