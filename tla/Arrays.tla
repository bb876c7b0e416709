------------------------------ MODULE Arrays ------------------------------
(***************************************************************************)
(* The growing of the dynamic arrays (array.c and the inlines at the end   *)
(* of fildesh.h) in which the key-value maps keep their nodes.  An array   *)
(* keeps the logarithm lg of its allocation: 0 means nothing, otherwise    *)
(* 2^(lg-1) elements.                                                      *)
(***************************************************************************)
EXTENDS Naturals, FiniteSetsExt

SizeOfLgcount(lg) == IF lg = 0 THEN 0 ELSE 2 ^ (lg - 1)

\* The smallest larger allocation that holds count elements.
ReallocMore(lg, count) ==
    LET above == (IF lg = 0 THEN 1 ELSE lg) + 1
    IN  Min({n \in above .. above + count : 2 * count <= 2 ^ n})

Grow(a, difference) ==
    LET count == a.count + difference
    IN  [count |-> count,
         lg    |-> IF 2 * count > 2 ^ a.lg THEN ReallocMore(a.lg, count) ELSE a.lg]
=============================================================================
