------------------------------ MODULE TriLogic ------------------------------
(* The three-valued logic of package/config/expr.h: n < m < y, conjunction   *)
(* is the minimum, disjunction the maximum and negation the mirror image.    *)
EXTENDS Integers

no  == 0
mod == 1
yes == 2

Tri == {no, mod, yes}

And3(a, b) == IF a < b THEN a ELSE b

Or3(a, b) == IF a > b THEN a ELSE b

Not3(a) == 2 - a

\* `m' becomes `y' wherever only two values make sense.
Promote(t, boolean) == IF t = mod /\ boolean THEN yes ELSE t
=============================================================================
