-------------------------------- MODULE Expr --------------------------------
(* Kconfig expressions (package/config/expr.c): trees over symbols, their    *)
(* value, and the rewriting that the parser and menu_finalize put them       *)
(* through.  A tree is a record with the fields of struct expr that its      *)
(* type uses; Null is the missing expression, which stands for `y'.          *)
(*                                                                           *)
(* The code rewrites in place through struct expr **.  A rewriting of two    *)
(* trees is a pair here, and one of a tree against itself                    *)
(* (expr_eliminate_dups1) names the two places by their paths.               *)
EXTENDS TriLogic, Sequences, FiniteSets

CONSTANTS
    Type(_),     \* the type of a symbol: "bool", "tristate", "int", "string", "unknown"
    Digit        \* the number that a numeral stands for; values have one character

Null == [op |-> "none"]

Letters == {"y", "m", "n"}

SymE(s) == [op |-> "sym", s |-> s]
NotE(e) == [op |-> "not", l |-> e]
Two(op, l, r) == [op |-> op, l |-> l, r |-> r]
Comp(op, s, t) == [op |-> op, s |-> s, t |-> t]

Y == SymE("y")
N == SymE("n")

Junction == {"and", "or"}
Relation == {"=", "!=", "<", "<=", ">", ">="}

AllocAnd(a, b) == IF a = Null THEN b ELSE IF b = Null THEN a ELSE Two("and", a, b)
AllocOr(a, b)  == IF a = Null THEN b ELSE IF b = Null THEN a ELSE Two("or", a, b)

RECURSIVE SymsOf(_)
SymsOf(e) ==
    CASE e.op = "none" -> {}
      [] e.op = "sym" -> {e.s}
      [] e.op = "not" -> SymsOf(e.l)
      [] e.op \in Junction -> SymsOf(e.l) \cup SymsOf(e.r)
      [] e.op \in Relation -> {e.s, e.t}
-----------------------------------------------------------------------------
(* The value of an expression under a valuation v of the symbols.            *)

\* A string value is its one character, which strcmp places: numerals come
\* before the letters.
Char(x) == CASE x = "m" -> 10 [] x = "n" -> 11 [] x = "y" -> 12 [] OTHER -> Digit[x]

Letter(t) == CASE t = no -> "n" [] t = mod -> "m" [] t = yes -> "y"

IsTri(s) == Type(s) \in {"bool", "tristate"}

\* sym_get_string_value, as a place in the order of strcmp.
Text(s, v) ==
    IF Type(s) = "unknown" THEN Char(s) ELSE IF IsTri(s) THEN Char(Letter(v[s])) ELSE v[s]

\* expr_parse_string: does the value of s read as a number of its type?
IsNumber(s, v) == Type(s) # "unknown" \/ s \notin Letters

\* ... and which one.
Number(s, v) == IF Type(s) = "unknown" THEN Digit[s] ELSE v[s]

\* Less than, equal to or greater than nought as the left side is than the right.
Compare(s, t, v) ==
    LET text == \/ Type(s) = "string" /\ Type(t) = "string"
                \/ ~ IsNumber(s, v) \/ ~ IsNumber(t, v)
    IN IF text THEN Text(s, v) - Text(t, v) ELSE Number(s, v) - Number(t, v)

Holds(op, d) == CASE op = "="  -> d = 0
                  [] op = "!=" -> d # 0
                  [] op = "<"  -> d < 0
                  [] op = "<=" -> d <= 0
                  [] op = ">"  -> d > 0
                  [] op = ">=" -> d >= 0

\* curr.tri of a symbol; one that is no bool or tristate has none.
TriOf(s, v) == CASE s = "y" -> yes [] s = "m" -> mod [] s = "n" -> no
                 [] OTHER -> IF IsTri(s) THEN v[s] ELSE no

\* expr_calc_value
RECURSIVE Eval(_, _)
Eval(e, v) ==
    CASE e.op = "none" -> yes
      [] e.op = "sym"  -> TriOf(e.s, v)
      [] e.op = "not"  -> Not3(Eval(e.l, v))
      [] e.op = "and"  -> And3(Eval(e.l, v), Eval(e.r, v))
      [] e.op = "or"   -> Or3(Eval(e.l, v), Eval(e.r, v))
      [] e.op \in Relation -> IF Holds(e.op, Compare(e.s, e.t, v)) THEN yes ELSE no
-----------------------------------------------------------------------------
(* Elimination of constants and of common operands.                          *)

Is(e, c) == e.op = "sym" /\ e.s = c

\* What a junction of two trees is once its constants are gone.
Absorb(op, l, r) ==
    LET zero == IF op = "and" THEN "n" ELSE "y"
        unit == IF op = "and" THEN "y" ELSE "n"
    IN CASE Is(l, zero) -> SymE(zero)
         [] Is(l, unit) -> r
         [] Is(r, zero) /\ ~ Is(l, unit) -> SymE(zero)
         [] Is(r, unit) /\ ~ Is(l, zero) -> l
         [] OTHER -> Two(op, l, r)

\* expr_eliminate_yn; it does not look below a negation.
RECURSIVE EliminateYN(_)
EliminateYN(e) ==
    IF e.op \in Junction THEN Absorb(e.op, EliminateYN(e.l), EliminateYN(e.r)) ELSE e

\* Mutant: a common operand becomes what the junction absorbs.
UnitSwapped(type) == IF type = "and" THEN N ELSE Y

Unit(type) == IF type = "and" THEN Y ELSE N

RECURSIVE Equal(_, _), EliminateEq1(_, _, _), EliminateEq(_, _)

\* The second call of expr_eliminate_eq, when the other tree is a junction, too.
OtherWay(p) ==
    IF p[2].op \in Junction /\ p[1].op # p[2].op THEN EliminateEq1(p[2].op, p[1], p[2]) ELSE p

YNOfBoth(p) == <<EliminateYN(p[1]), EliminateYN(p[2])>>

\* __expr_eliminate_eq: operands of `type' that both trees have become units.
EliminateEq1(type, a, b) ==
    CASE a.op = type ->
           LET left  == EliminateEq1(type, a.l, b)
               right == EliminateEq1(type, a.r, left[2])
           IN <<Two(type, left[1], right[1]), right[2]>>
      [] a.op # type /\ b.op = type ->
           LET left  == EliminateEq1(type, a, b.l)
               right == EliminateEq1(type, left[1], b.r)
           IN <<right[1], Two(type, left[2], right[2])>>
      [] a.op # type /\ b.op # type ->
           IF (a = b /\ (a = Y \/ a = N)) \/ ~ Equal(a, b)
           THEN <<a, b>> ELSE <<Unit(type), Unit(type)>>

\* expr_eliminate_eq
EliminateEq(a, b) ==
    IF a = Null \/ b = Null THEN <<a, b>>
    ELSE YNOfBoth(OtherWay(IF a.op \in Junction THEN EliminateEq1(a.op, a, b) ELSE <<a, b>>))

\* expr_eq: the same operands, in any order and any number.
Equal(a, b) ==
    /\ a.op = b.op
    /\ CASE a.op = "not" -> Equal(a.l, b.l)
         [] a.op \in Junction ->
              LET p == EliminateEq(a, b)
              IN p[1].op = "sym" /\ p[2].op = "sym" /\ p[1].s = p[2].s
         [] OTHER -> a = b
-----------------------------------------------------------------------------
(* Joining of two operands that say something of one symbol.                 *)

\* The symbol that expr_join_or and expr_join_and take an operand to be
\* about; only the first operand may be a negated comparison.
About(e, first) ==
    CASE e.op \in {"sym", "=", "!="} -> {e.s}
      [] e.op = "not" ->
           IF e.l.op = "sym" \/ (first /\ e.l.op \in {"=", "!="}) THEN {e.l.s} ELSE {}
      [] OTHER -> {}

Joinable(a, b) == About(a, TRUE) \cap About(b, FALSE) \cap {s \in SymsOf(a) : IsTri(s)}

\* Is one of the two operands a and the other b?
Pair(a, b, p, q) == (a = p /\ b = q) \/ (a = q /\ b = p)

\* expr_join_or: what a || b becomes when both are about s, Null when the two
\* are left alone.
JoinOr(a, b, s) ==
    LET Is2(op, p, q) == Pair(a, b, Comp(op, s, p), Comp(op, s, q))
    IN CASE Type(s) = "tristate" /\ Is2("=", "y", "m") -> Comp("!=", s, "n")
         [] Type(s) = "tristate" /\ Is2("=", "y", "n") -> Comp("!=", s, "m")
         [] Type(s) = "tristate" /\ Is2("=", "m", "n") -> Comp("!=", s, "y")
         [] Type(s) = "bool" /\ Pair(a, b, SymE(s), NotE(SymE(s))) -> Y
         [] OTHER -> Null

\* expr_join_and; the tests of a tristate for two values ask for constants,
\* and y, m and n are those that a tristate is compared with.
JoinAnd(a, b, s) ==
    LET With(op, p) == Pair(a, b, SymE(s), Comp(op, s, p))
        Unequal(p, q) == Pair(a, b, Comp("!=", s, p), Comp("!=", s, q))
        equals == {e \in {a, b} : e.op = "="}
        both == /\ {a.op, b.op} = {"=", "!="}
                /\ {a.t, b.t} \subseteq Letters
    IN CASE With("=", "y") -> Comp("=", s, "y")
         [] With("!=", "n") -> SymE(s)
         [] With("!=", "m") -> Comp("=", s, "y")
         [] Type(s) = "tristate" /\ both ->
              IF a.t # b.t THEN CHOOSE e \in equals : TRUE ELSE N
         [] Type(s) = "tristate" /\ Unequal("y", "n") -> Comp("=", s, "m")
         [] Type(s) = "tristate" /\ Unequal("y", "m") -> Comp("=", s, "n")
         [] Type(s) = "tristate" /\ Unequal("m", "n") -> Comp("=", s, "y")
         [] OTHER -> Null

JoinAbout(type, a, b, about) ==
    IF about = {} THEN Null
    ELSE LET s == CHOOSE x \in about : TRUE
         IN IF type = "or" THEN JoinOr(a, b, s) ELSE JoinAnd(a, b, s)

\* Equal operands are one.
Join(type, a, b) == IF Equal(a, b) THEN a ELSE JoinAbout(type, a, b, Joinable(a, b))

\* The subtree of e at a path of "l"s and "r"s, and e with another one there.
RECURSIVE At(_, _), Put(_, _, _)
At(e, p) == IF p = <<>> THEN e ELSE At(IF Head(p) = "l" THEN e.l ELSE e.r, Tail(p))
Put(e, p, x) ==
    IF p = <<>> THEN x
    ELSE IF Head(p) = "l" THEN [e EXCEPT !.l = Put(@, Tail(p), x)]
    ELSE [e EXCEPT !.r = Put(@, Tail(p), x)]

\* A join is put at the second place and a unit at the first one.
JoinPlaces(type, p, q, r) ==
    LET join == Join(type, At(r[1], p), At(r[1], q))
    IN IF join = Null THEN r ELSE <<Put(Put(r[1], p, Unit(type)), q, join), TRUE>>

\* expr_eliminate_dups1 of the places p and q of one tree; the second result
\* says whether trans_count went up.
RECURSIVE Dups1(_, _, _, _)
Dups1(type, e, p, q) ==
    LET a == At(e, p)
        b == At(e, q)
        Both(p1, q1, p2, q2) ==
            LET left  == Dups1(type, e, p1, q1)
                right == Dups1(type, left[1], p2, q2)
            IN <<right[1], left[2] \/ right[2]>>
    IN IF a.op = type THEN Both(Append(p, "l"), q, Append(p, "r"), q)
       ELSE IF b.op = type THEN Both(p, Append(q, "l"), p, Append(q, "r"))
       ELSE IF p = q THEN <<e, FALSE>>
       ELSE JoinPlaces(type, p, q, IF a.op \in Junction THEN Dups1(a.op, e, p, p) ELSE <<e, FALSE>>)

\* expr_eliminate_dups: passes until one finds nothing to join.
RECURSIVE EliminateDups(_), NextPass(_)
NextPass(r) == IF r[2] THEN EliminateDups(EliminateYN(r[1])) ELSE r[1]
EliminateDups(e) == IF e.op \notin Junction THEN e ELSE NextPass(Dups1(e.op, e, <<>>, <<>>))
-----------------------------------------------------------------------------
(* Normalisation, and the rewriting that menu_finalize asks for.             *)

\* Mutant: the sides are swapped instead of the order negated.
OppositeMirrored == [x \in Relation |->
    CASE x = "=" -> "!=" [] x = "!=" -> "=" [] x = "<=" -> ">="
      [] x = ">" -> "<" [] x = ">=" -> "<=" [] x = "<" -> ">"]

Opposite == [x \in Relation |->
    CASE x = "=" -> "!=" [] x = "!=" -> "=" [] x = "<=" -> ">"
      [] x = ">" -> "<=" [] x = ">=" -> "<" [] x = "<" -> ">="]

\* A bool compared with a letter is the bool, its negation or a constant.
TransformBool(e) ==
    LET same == e.op = "="
    IN CASE e.t = "n" -> IF same THEN NotE(SymE(e.s)) ELSE SymE(e.s)
         [] e.t = "m" -> IF same THEN N ELSE Y
         [] e.t = "y" -> IF same THEN SymE(e.s) ELSE NotE(SymE(e.s))

\* expr_transform: negations move down to the symbols.
RECURSIVE Transform(_)
Transform(e) ==
    CASE e.op \in {"=", "!="} /\ Type(e.s) = "bool" /\ e.t \in Letters -> TransformBool(e)
      [] e.op \in Junction -> Two(e.op, Transform(e.l), Transform(e.r))
      [] e.op = "not" ->
           LET l == Transform(e.l)
           IN (CASE l.op = "not" -> Transform(l.l)
                [] l.op \in Relation -> Comp(Opposite[l.op], l.s, l.t)
                [] l.op = "or"  -> Transform(Two("and", NotE(l.l), NotE(l.r)))
                [] l.op = "and" -> Transform(Two("or", NotE(l.l), NotE(l.r)))
                [] l.op = "sym" -> CASE l.s = "y" -> N [] l.s = "n" -> Y
                                     [] l.s = "m" -> l [] OTHER -> NotE(l))
      [] OTHER -> e

\* expr_trans_bool
RECURSIVE TransBool(_)
TransBool(e) ==
    CASE e.op \in Junction -> Two(e.op, TransBool(e.l), TransBool(e.r))
      [] e.op = "not" -> NotE(TransBool(e.l))
      [] e.op = "!=" /\ Type(e.s) = "tristate" /\ e.t = "n" -> SymE(e.s)
      [] OTHER -> e

\* expr_trans_compare: the comparison of e with the letter s, for y and n.
RECURSIVE TransCompare(_, _, _)
TransCompare(e, type, s) ==
    LET Negated(x) == IF type = "!=" THEN NotE(x) ELSE x
        dual == IF e.op = "and" THEN "or" ELSE "and"
    IN CASE e.op = "none" -> Negated(SymE(s))
         [] e.op \in Junction ->
              Negated(Two(IF s = "y" THEN e.op ELSE dual,
                          TransCompare(e.l, "=", s), TransCompare(e.r, "=", s)))
         [] e.op = "not" -> TransCompare(e.l, IF type = "=" THEN "!=" ELSE "=", s)
         [] e.op \in Relation -> IF (type = "=") = (s = "y") THEN e ELSE NotE(e)
         [] e.op = "sym" -> Comp(type, e.s, s)

\* rewrite_m: a bare `m' asks for modules, too.
RECURSIVE RewriteM(_, _)
RewriteM(e, modules) ==
    CASE e.op \in Junction -> Two(e.op, RewriteM(e.l, modules), RewriteM(e.r, modules))
      [] e.op = "not" -> NotE(RewriteM(e.l, modules))
      [] e.op = "sym" /\ e.s = "m" -> AllocAnd(e, SymE(modules))
      [] OTHER -> e

ContainsSymbol(e, s) == s \in SymsOf(e)

\* Mutant: to mention a symbol is to depend on it.
DependsSymbolLoose(e, s) == s \in SymsOf(e)

\* expr_depends_symbol: e cannot hold while s is `n', as far as is looked.
RECURSIVE DependsSymbol(_, _)
DependsSymbol(e, s) ==
    CASE e.op = "and" -> DependsSymbol(e.l, s) \/ DependsSymbol(e.r, s)
      [] e.op = "sym" -> e.s = s
      [] e.op = "="  -> e.s = s /\ e.t \in {"y", "m"}
      [] e.op = "!=" -> e.s = s /\ e.t = "n"
      [] OTHER -> FALSE
-----------------------------------------------------------------------------
(* What the help texts print, and how the parser reads it.                   *)

\* Mutant: alternatives and conjunctions are printed alike.
RankFlat(op) == CASE op = "none" -> 0 [] op \in Junction -> 1 [] op = "not" -> 3 [] OTHER -> 4

Rank(op) == CASE op = "none" -> 0 [] op = "or" -> 1 [] op = "and" -> 2 [] op = "not" -> 3
              [] op \in {"=", "!="} -> 4 [] OTHER -> 5

\* expr_print with expr_compare_type: parentheses where the operator around e
\* binds more tightly than its own.
RECURSIVE PrintExpr(_, _)
PrintExpr(e, around) ==
    LET body == CASE e.op = "none" -> <<"y">>
                  [] e.op = "sym" -> <<e.s>>
                  [] e.op = "not" -> <<"!">> \o PrintExpr(e.l, "not")
                  [] e.op \in Junction -> PrintExpr(e.l, e.op) \o <<e.op>> \o PrintExpr(e.r, e.op)
                  [] e.op \in Relation -> <<e.s, e.op, e.t>>
    IN IF Rank(around) > Rank(e.op) /\ e # Null THEN <<"(">> \o body \o <<")">> ELSE body

Nesting(q, i) == Cardinality({j \in 1 .. i : q[j] = "("}) - Cardinality({j \in 1 .. i : q[j] = ")"})

\* The parser: the loosest operator outside parentheses, from the right.
RECURSIVE Parse(_)
Parse(q) ==
    LET Outside(op) == {i \in DOMAIN q : q[i] = op /\ Nesting(q, i) = 0}
        Split(op) == LET i == CHOOSE k \in Outside(op) : \A j \in Outside(op) : j <= k
                     IN Two(op, Parse(SubSeq(q, 1, i - 1)), Parse(SubSeq(q, i + 1, Len(q))))
    IN CASE Outside("or") # {} -> Split("or")
         [] Outside("or") = {} /\ Outside("and") # {} -> Split("and")
         [] OTHER -> IF q[1] = "!" THEN NotE(Parse(Tail(q)))
                     ELSE IF q[1] = "(" THEN Parse(SubSeq(q, 2, Len(q) - 1))
                     ELSE IF Len(q) = 1 THEN SymE(q[1]) ELSE Comp(q[2], q[1], q[3])

\* expr_print_revdep: the alternatives of e whose value is t.
RECURSIVE RevDepLines(_, _, _)
RevDepLines(e, t, v) ==
    IF e.op = "or" THEN RevDepLines(e.l, t, v) \o RevDepLines(e.r, t, v)
    ELSE IF Eval(e, v) = t THEN <<e>> ELSE <<>>
=============================================================================
