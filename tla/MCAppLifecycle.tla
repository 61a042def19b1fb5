--------------------------- MODULE MCAppLifecycle ---------------------------
(***************************************************************************)
(* Small instances of AppLifecycle.  The runs differ in what they have two *)
(* of: "components" has two declared components, one mounted at run time   *)
(* under the name of the second, and two mounting goroutines; "servers"    *)
(* has two servers, h whose Start ignores its ctx and ends with Stop only, *)
(* and t whose Start watches its ctx.                                      *)
(***************************************************************************)
EXTENDS AppLifecycle

CONSTANTS c1, c2, d

AllComps == {c1, c2, d}
TwoDeclared == <<c1, c2>>
NameOf == [c \in AllComps |-> IF c = c1 THEN "a" ELSE "b"]

FewComps == {c1}
OneDeclared == <<c1>>
=============================================================================
