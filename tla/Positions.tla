----------------------------- MODULE Positions -----------------------------
(***************************************************************************)
(* The elements of a list that a test selects, in the order of the list:   *)
(* what a list comprehension of the program keeps, and the positions its   *)
(* scans find.                                                             *)
(***************************************************************************)
EXTENDS Naturals, Sequences, FiniteSets

\* The nth of a set of positions, from the left.
Nth(positions, n) ==
    CHOOSE i \in positions : Cardinality({j \in positions : j <= i}) = n

\* The elements at these positions.
At(s, positions) ==
    [n \in 1 .. Cardinality(positions) |-> s[Nth(positions, n)]]
=============================================================================
