----------------------------- MODULE MCEndings ------------------------------
(* TLC instance of Endings: two endings, two attempts of each part. *)
EXTENDS Endings

=============================================================================
