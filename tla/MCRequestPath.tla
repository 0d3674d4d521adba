--------------------------- MODULE MCRequestPath ---------------------------
(* RequestPath for TLC: model values for threads, names and addresses.     *)
EXTENDS RequestPath, TLC

CONSTANTS c1, c2, n1, n2, d1, d2, d3

MCClient == {c1, c2}
OneName  == {n1}
TwoNames == {n1, n2}
TwoObj   == {d1, d2}
ThreeObj == {d1, d2, d3}

(* Addresses are interchangeable; so are clients.  Names are too.          *)
Symm2 == Permutations(MCClient) \cup Permutations(TwoNames)
            \cup Permutations(ThreeObj)
=============================================================================
