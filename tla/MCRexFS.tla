------------------------------ MODULE MCRexFS ------------------------------
(* Instances of RexFS for TLC. *)
EXTENDS RexFS

\* "p" and "q" are longer than 27 characters and agree on the first 27; "r" is
\* that common part.  Shorter names are kept as typed.
Cut(n) == IF n \in {"p", "q"} THEN "r" ELSE n
=============================================================================
