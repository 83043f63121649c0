---------------------------- MODULE MCVerifierPage ----------------------------
(* An instance of VerifierPage: one press, and a second that may overlap it.   *)
EXTENDS VerifierPage, TLC

CONSTANTS c1, c2

\* As the page's link fills the form in.
FullForm ==
  [leaf |-> "well", file |-> "none", index |-> "right", bindingIndex |-> "right",
   anchors |-> TRUE, idRoot |-> "given"]

\* Of the first press one field may be not as it should be.  The second comes
\* without a file, or with one that cannot be read, or without an identity root.
MCForms ==
  (c1 :> {f \in Form : \E x \in DOMAIN f : f = [FullForm EXCEPT ![x] = f[x]]})
    @@ (c2 :> {FullForm, [FullForm EXCEPT !.file = "broken"],
               [FullForm EXCEPT !.idRoot = "empty"]})
=============================================================================
