----------------------------- MODULE ExprPasses -----------------------------
(* The passes of expr.c over one condition, in the orders menu_finalize puts *)
(* them: expr_transform comes first, expr_eliminate_dups runs again whenever *)
(* the condition becomes part of another entry's, expr_trans_bool may follow *)
(* and expr_eliminate_eq compares it with what another entry depends on.     *)
EXTENDS Expr

CONSTANTS
    Exprs,       \* the conditions that are rewritten
    Others,      \* the conditions that they are compared with
    Valuations   \* a value for every symbol that is no literal

ASSUME PassAssumption ==
    \A v \in Valuations : \A s \in DOMAIN v :
        /\ Type(s) = "bool" => v[s] \in {no, yes}
        /\ Type(s) = "tristate" => v[s] \in Tri

VARIABLES
    source,      \* the condition as it was written
    cond,        \* what has become of it
    other,       \* the condition to compare with, as it was written
    rest,        \* what expr_eliminate_eq leaves of other
    stage        \* "written", "normal", "bool" or "compared"

vars == <<source, cond, other, rest, stage>>

Init ==
    /\ source \in Exprs
    /\ cond = source
    /\ other \in Others
    /\ rest = Null
    /\ stage = "written"

TransformPass ==
    /\ stage = "written"
    /\ cond' = Transform(cond)
    /\ stage' = "normal"
    /\ UNCHANGED <<source, other, rest>>

DupsPass ==
    /\ stage \in {"normal", "bool"}
    /\ cond' = EliminateDups(cond)
    /\ UNCHANGED <<source, other, rest, stage>>

BoolPass ==
    /\ stage = "normal"
    /\ cond' = TransBool(cond)
    /\ stage' = "bool"
    /\ UNCHANGED <<source, other, rest>>

\* The superset test of menu_finalize, which takes both apart.
ComparePass ==
    /\ stage \in {"normal", "bool"}
    /\ LET Plain(e) == EliminateDups(Transform(TransCompare(e, "!=", "n")))
           p == EliminateEq(Plain(cond), Plain(other))
       IN cond' = p[1] /\ rest' = p[2]
    /\ stage' = "compared"
    /\ UNCHANGED <<source, other>>

Next == TransformPass \/ DupsPass \/ BoolPass \/ ComparePass

Spec == Init /\ [][Next]_vars
-----------------------------------------------------------------------------
\* Simplifying a condition does not change what it says: it has the value the
\* written one has, whatever the symbols are.  expr_trans_bool may turn a
\* `y' into an `m', which a bool makes `y' again, but never into an `n'.
SameMeaning ==
    stage # "compared" => \A v \in Valuations :
        LET was == Eval(source, v)
            is  == Eval(cond, v)
        IN IF stage = "bool" THEN (was = no) = (is = no) ELSE was = is

\* No tristate is `m', as in a tree without modules: expr_trans_compare takes
\* `!T' for `T=n', which `m' would tell apart.
TwoValued(v) == \A s \in DOMAIN v : IsTri(s) => v[s] # mod

\* What menu_finalize takes for a superset is one: when nothing is left of
\* the other condition, the first one only holds where the other does.
SupersetImplies ==
    rest = Y => \A v \in Valuations :
        TwoValued(v) /\ Eval(source, v) # no => Eval(other, v) # no

\* Comparing with `n' tells exactly whether a condition holds, two conditions
\* that expr_eq calls equal have the same value, and one that depends on a
\* symbol does not hold while the symbol is `n'.
Compared ==
    stage # "compared" => \A v \in Valuations :
        /\ TwoValued(v) /\ "m" \notin SymsOf(cond) =>
             Eval(TransCompare(cond, "!=", "n"), v) = (IF Eval(cond, v) = no THEN no ELSE yes)
        /\ Equal(cond, other) => Eval(cond, v) = Eval(other, v)
        /\ \A s \in DOMAIN v :
             IsTri(s) /\ DependsSymbol(cond, s) /\ v[s] = no => Eval(cond, v) = no

\* The help text shows the condition: read as the parser reads it, what is
\* printed has the same value, and every alternative of a reverse dependency
\* is listed once, below the value it has.
Printed ==
    stage # "compared" => \A v \in Valuations :
        /\ Eval(Parse(PrintExpr(cond, "none")), v) = Eval(cond, v)
        /\ LET lines == [t \in Tri |-> RevDepLines(cond, t, v)]
           IN Eval(cond, v) = CHOOSE t \in Tri : lines[t] # <<>> /\ \A u \in Tri : u > t => lines[u] = <<>>
=============================================================================
