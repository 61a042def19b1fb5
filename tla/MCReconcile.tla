----------------------------- MODULE MCReconcile -----------------------------
(***************************************************************************)
(* Two reconcilers: the first manages x and y, the second z.  Each name    *)
(* has instances enough for every mount of a behaviour.                    *)
(***************************************************************************)
EXTENDS Reconcile

CONSTANTS x1, x2, x3, y1, y2, y3, z1, z2, z3

AllComps == {x1, x2, x3, y1, y2, y3, z1, z2, z3}
NameOf == [c \in AllComps |->
    IF c \in {x1, x2, x3} THEN "x" ELSE IF c \in {y1, y2, y3} THEN "y" ELSE "z"]
NoneDeclared == <<>>
TwoRecons == <<"backends", "caches">>

\* Three configurations, such that the changes between them add, remove and
\* do both in one function and across functions.
Give(b, c) == [r \in ToSet(TwoRecons) |-> IF r = "backends" THEN b ELSE c]
Settings == {Give({"x", "y"}, {}), Give({"y"}, {"z"}), Give({}, {"z"})}
=============================================================================
