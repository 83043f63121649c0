----------------------------- MODULE MCPublisher -----------------------------
(***************************************************************************)
(* Instances of StatusPublisher for TLC.                                   *)
(***************************************************************************)
EXTENDS StatusPublisher, TLC

\* Calls of Reconcile are interchangeable: nothing in the module tells two of
\* them apart.
CallSymmetry == Permutations(Reconcilers)
=============================================================================
