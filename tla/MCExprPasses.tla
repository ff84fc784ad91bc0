---------------------------- MODULE MCExprPasses ----------------------------
(* Conditions of up to three operands over a bool A, a tristate T, an int I  *)
(* and the literals, and what menus above an entry ask for.                  *)
EXTENDS ExprPasses

MCType(s) == CASE s = "A" -> "bool" [] s = "T" -> "tristate" [] s = "I" -> "int"
               [] OTHER -> "unknown"

MCDigit == [x \in {"3"} |-> 3]

MCValuations == {[A |-> a, T |-> t, I |-> i] : a \in {no, yes}, t \in Tri, i \in {2, 3}}

\* T compared with a letter, A compared with a letter, I with a number.
Comparisons == {Comp(op, "T", x) : op \in {"=", "!="}, x \in Letters}
                 \cup {Comp("=", "A", x) : x \in Letters} \cup {Comp("!=", "A", "n")}
                 \cup {Comp("<", "I", "3"), Comp(">=", "I", "3"), Comp("<=", "A", "T")}

Atoms == {SymE("A"), SymE("T"), SymE("m")} \cup Comparisons

Few == {SymE("A"), NotE(SymE("A")), SymE("T"), Comp("=", "T", "m"), Comp("!=", "T", "n")}

Pairs(X, Z) == {Two(op, a, b) : op \in Junction, a \in X, b \in Z}

Signed == Atoms \cup {NotE(a) : a \in Atoms} \cup {Y, N}

MCExprs == Signed \cup Pairs(Signed, Atoms) \cup Pairs(Pairs(Few, Few), Few)
             \cup {NotE(e) : e \in Pairs(Few, Few)}

MCOthers == {SymE("T"), Two("and", SymE("A"), SymE("T")), Comp("!=", "T", "n"),
             Two("or", SymE("A"), Comp("=", "T", "m"))}
=============================================================================
