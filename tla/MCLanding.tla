----------------------------- MODULE MCLanding ------------------------------
(* Three files: one the base has, one it has not, and one that is junk.    *)
EXTENDS Landing

CONSTANTS page, extra, bundle
=============================================================================
