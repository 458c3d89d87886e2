---------------------------- MODULE MCPublisher ----------------------------
(* Instances of Publisher for TLC.                                         *)
EXTENDS Publisher, TLC

CONSTANTS d1, d2, t1, e1, e2

\* The personal folder carries the personal and the finance bundles.
OneFolder == d1 :> t1 @@ d2 :> t1

\* The shared folder alone.
OneDomain == d1 :> t1

\* The two domains of one folder are alike.
DomainSymmetry == Permutations({d1, d2})
=============================================================================
