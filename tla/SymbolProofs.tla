---------------------------- MODULE SymbolProofs ----------------------------
(* The symbol engine keeps its types, for every menu: whatever symbols,      *)
(* expressions, choices and configuration files it is given.                 *)
EXTENDS Symbol, WellFoundedInduction, TLAPS

\* A non-empty set of naturals has a least element.
LEMMA LeastNat ==
    ASSUME NEW T, T \subseteq Nat, T # {}
    PROVE  \E x \in T : \A y \in T : x <= y
  <1>1. PICK x \in T : \A y \in T : ~ (<<y, x>> \in OpToRel(<, Nat))
    BY NatLessThanWellFounded, WFMin, Zenon
  <1>2. \A y \in T : <<y, x>> \in OpToRel(<, Nat) <=> y < x
    <2> TAKE y \in T
    <2> QED
      BY DEF OpToRel
  <1>3. \A y \in T : ~ (y < x)
    BY <1>1, <1>2, Zenon
  <1> QED
    BY <1>3

\* A non-empty set of positions has a greatest element.
LEMMA GreatestNat ==
    ASSUME NEW n \in Nat, NEW T, T \subseteq 1 .. n, T # {}
    PROVE  \E x \in T : \A y \in T : y <= x
  <1> DEFINE R == {i \in Nat : n - i \in T}
  <1>1. R # {}
    <2> PICK t \in T : TRUE
      OBVIOUS
    <2>1. n - t \in Nat /\ n - (n - t) = t
      OBVIOUS
    <2> QED
      BY <2>1
  <1>2. PICK r \in R : \A q \in R : r <= q
    BY <1>1, LeastNat
  <1>3. n - r \in T
    OBVIOUS
  <1>4. \A y \in T : y <= n - r
    <2> TAKE y \in T
    <2>1. n - y \in Nat /\ n - (n - y) = y
      OBVIOUS
    <2>2. n - y \in R
      BY <2>1
    <2> QED
      BY <1>2, <2>1, <2>2
  <1> QED
    BY <1>3, <1>4
-----------------------------------------------------------------------------
(* What the helpers return.                                                  *)

\* The three-valued connectives stay in Tri.
LEMMA TriClosed ==
    \A a, b \in Tri :
        And3(a, b) \in Tri /\ Or3(a, b) \in Tri /\ \A c \in BOOLEAN : Promote(a, c) \in Tri
  BY DEF Tri, no, mod, yes, And3, Or3, Promote

\* The three values are among the numbers of the model.
LEMMA TriIsVal == Tri \subseteq Val /\ no \in Tri /\ yes \in Tri /\ Unset \notin Val
  BY SortAssumption DEF Tri, Val, no, mod, yes, Unset

\* What the expressions of a symbol evaluate to.
LEMMA AttrTypes ==
    ASSUME NEW s \in Sym, NEW v \in Valuation
    PROVE  /\ Attr(s, v).prompt \in Tri /\ Attr(s, v).dir \in Tri
           /\ Attr(s, v).rev \in Tri /\ Attr(s, v).imp \in Tri
           /\ Attr(s, v).dflt \in Val /\ (s \notin Ints => Attr(s, v).dflt \in Tri)
           /\ Attr(s, v).lo \in Val /\ Attr(s, v).hi \in Val
           /\ Attr(s, v).order \in Seq(Sym)
  BY AttrAssumption DEF AttrType

\* sym_calc_visibility calculates three tristates.
LEMMA VisibilityTypes ==
    ASSUME NEW s \in Sym, NEW v \in Valuation
    PROVE  Visibility(s, v) \in Tri /\ RevDep(s, v) \in Tri /\ Implied(s, v) \in Tri
  <1>1. Visibility(s, v) \in Tri
    BY AttrTypes, TriClosed, TriIsVal DEF Visibility
  <1>2. RevDep(s, v) \in Tri
    BY AttrTypes, TriClosed, TriIsVal DEF RevDep, IsTristate
  <1>3. Implied(s, v) \in Tri
    BY AttrTypes, TriClosed, TriIsVal DEF Implied, IsTristate
  <1> QED
    BY <1>1, <1>2, <1>3

\* A calculated value has the type of its symbol.
LEMMA ValueTypes ==
    ASSUME def \in Valuation, NEW s \in Sym, NEW v \in Valuation
    PROVE  /\ Value(s, v) \in Val
           /\ s \notin Ints => Value(s, v) \in Tri /\ TriValue(s, v) \in Tri
  <1>1. def[s] \in Val /\ (s \notin Ints => def[s] \in Tri)
    BY DEF Valuation
  <1>2. IntValue(s, v) \in Val
    BY <1>1, AttrTypes DEF IntValue, Clamp
  <1>3. ASSUME s \notin Ints PROVE TriValue(s, v) \in Tri
    <2>1. OwnValue(s, v) \in Tri
      BY <1>1, <1>3, AttrTypes, VisibilityTypes, TriClosed, TriIsVal DEF OwnValue
    <2>2. ChosenValue(s) \in Tri
      BY TriIsVal DEF ChosenValue
    <2>3. Or3(OwnValue(s, v), RevDep(s, v)) \in Tri
      BY <2>1, VisibilityTypes, TriClosed
    <2> DEFINE two == ~ IsTristate(s, Visibility(s, v), v) \/ Implied(s, v) = yes
    <2>4. two \in BOOLEAN
      BY DEF IsTristate
    <2>5. Promote(Or3(OwnValue(s, v), RevDep(s, v)), two) \in Tri
      BY <2>3, <2>4, TriIsVal DEF Promote
    <2> QED
      BY <2>2, <2>5 DEF TriValue
  <1> QED
    BY <1>2, <1>3, TriIsVal DEF Value

\* The first visible value is one of those that are looked at.
LEMMA FirstVisibleType ==
    ASSUME NEW V, NEW q \in Seq(V), NEW vis
    PROVE  FirstVisible(q, vis) \in V \cup {NoSym}
  <1> DEFINE seen == {i \in DOMAIN q : vis[q[i]] # no}
  <1>1. CASE seen = {}
    BY <1>1 DEF FirstVisible
  <1>2. CASE seen # {}
    <2>1. seen \subseteq Nat
      OBVIOUS
    <2>2. \E i \in seen : \A j \in seen : i <= j
      BY <1>2, <2>1, LeastNat
    <2>3. (CHOOSE i \in seen : \A j \in seen : i <= j) \in seen
      BY <2>2
    <2>4. q[CHOOSE i \in seen : \A j \in seen : i <= j] \in V
      BY <2>3
    <2> QED
      BY <1>2, <2>4 DEF FirstVisible
  <1> QED
    BY <1>1, <1>2

\* sym_calc_choice picks one of the values of the choice, or none.
LEMMA ChoicePickType ==
    ASSUME NEW c \in Choice, NEW v \in Valuation, NEW vis,
           userPick[c] \in Values(c) \cup {NoSym}
    PROVE  ChoicePick(c, vis, v) \in Values(c) \cup {NoSym}
  <1>1. Attr(c, v).order \in Seq(Values(c))
    <2>1. Attr(c, v).order \in Seq(Sym)
      BY SortAssumption, AttrTypes
    <2>2. \A i \in DOMAIN Attr(c, v).order : Attr(c, v).order[i] \in Values(c)
      BY SortAssumption, AttrAssumption
    <2> HIDE DEF Values
    <2> QED
      BY <2>1, <2>2
  <1>2. Members(c) \in Seq(Values(c))
    <2>1. Members(c) \in Seq(Sym)
      BY ChoiceAssumption
    <2>2. \A i \in DOMAIN Members(c) : Members(c)[i] \in Values(c)
      BY DEF Values
    <2> QED
      BY <2>1, <2>2
  <1>3. Attr(c, v).order \o Members(c) \in Seq(Values(c))
    BY <1>1, <1>2
  <1> QED
    BY <1>3, FirstVisibleType DEF ChoicePick
-----------------------------------------------------------------------------
(* What a configuration file makes of the symbols.                           *)

\* What conf_set_sym_val takes from a file is a value of the symbol's type.
LEMMA DefOfType ==
    ASSUME NEW f \in ConfigFile
    PROVE  DefOf(f) \in Valuation
  <1>1. ASSUME NEW s \in Sym
        PROVE  DefOf(f)[s] \in Val /\ (s \notin Ints => DefOf(f)[s] \in Tri)
    <2>1. CASE s \in Choice
      BY <2>1, TriIsVal, Zenon DEF DefOf, Tri
    <2>2. CASE s \notin Choice
      <3>1. f[s] \in Val \cup {Unset} /\ (s \notin Ints => f[s] \in Tri \cup {Unset})
        BY <2>2 DEF ConfigFile, Named
      <3>2. DefOf(f)[s] = IF f[s] = Unset THEN no ELSE f[s]
        BY <2>2 DEF DefOf
      <3> QED
        BY <3>1, <3>2, TriIsVal
    <2> QED
      BY <2>1, <2>2
  <1>2. DefOf(f) \in [Sym -> Val]
    <2>1. DefOf(f) = [s \in Sym |-> DefOf(f)[s]]
      BY DEF DefOf
    <2> QED
      BY <1>1, <2>1
  <1> QED
    BY <1>1, <1>2 DEF Valuation

\* The last `y' line of a choice is that of one of its values.
LEMMA PickOfType ==
    ASSUME NEW f, NEW c \in Choice
    PROVE  /\ PickOf(f)[c] \in Values(c) \cup {NoSym}
           /\ Lines(c, f, yes) # {} => PickOf(f)[c] \in Values(c) /\ f[PickOf(f)[c]] = yes
  <1> DEFINE ys == Lines(c, f, yes)
  <1>1. CASE ys = {}
    BY <1>1 DEF PickOf
  <1>2. CASE ys # {}
    <2>1. Members(c) \in Seq(Sym) /\ ys \subseteq DOMAIN Members(c)
      BY ChoiceAssumption DEF Lines
    <2>2. Len(Members(c)) \in Nat /\ ys \subseteq 1 .. Len(Members(c))
      BY <2>1
    <2> HIDE DEF ys
    <2>3. \E i \in ys : \A j \in ys : j <= i
      BY <1>2, <2>2, GreatestNat
    <2>4. (CHOOSE i \in ys : \A j \in ys : j <= i) \in ys
      BY <2>3
    <2>5. PickOf(f)[c] = Members(c)[CHOOSE i \in ys : \A j \in ys : j <= i]
      BY <1>2 DEF PickOf, ys
    <2>6. \E i \in ys : PickOf(f)[c] = Members(c)[i]
      BY <2>4, <2>5
    <2>7. \A i \in ys : f[Members(c)[i]] = yes
      BY DEF ys, Lines
    <2> QED
      BY <2>1, <2>6, <2>7 DEF Values
  <1> QED
    BY <1>1, <1>2
-----------------------------------------------------------------------------
(* Every action keeps the types.                                             *)

\* Zeroed symbols and an empty file have their types.
LEMMA InitType == Init => TypeOK
  <1> SUFFICES ASSUME Init PROVE TypeOK
    OBVIOUS
  <1>1. [s \in Sym |-> no] \in Valuation /\ [s \in Sym |-> no] \in [Sym -> Tri]
    BY TriIsVal DEF Valuation
  <1>2. [s \in Named |-> Unset] \in ConfigFile
    BY DEF ConfigFile
  <1> QED
    BY <1>1, <1>2 DEF Init, TypeOK

\* sym_calc_value of a symbol that is not a choice.
LEMMA CalcSymbolType ==
    ASSUME TypeOK, NEW s \in Sym, CalcSymbol(s)
    PROVE  TypeOK'
  <1>1. def \in Valuation /\ curr \in Valuation
    BY DEF TypeOK
  <1>2. curr' \in Valuation
    <2>1. Value(s, curr) \in Val /\ (s \notin Ints => Value(s, curr) \in Tri)
      BY <1>1, ValueTypes
    <2>2. curr' = [curr EXCEPT ![s] = Value(s, curr)]
      BY DEF CalcSymbol
    <2> QED
      BY <1>1, <2>1, <2>2 DEF Valuation
  <1>3. /\ visible' \in [Sym -> Tri]
        /\ revDep' \in [Sym -> Tri]
        /\ implied' \in [Sym -> Tri]
    BY <1>1, VisibilityTypes DEF CalcSymbol, Store, TypeOK
  <1>4. valid' \subseteq Sym /\ write' \subseteq Sym
    BY DEF CalcSymbol, Store, TypeOK
  <1> QED
    BY <1>2, <1>3, <1>4 DEF CalcSymbol, TypeOK, userVars, fileVars, histVars

\* sym_calc_value of a choice.
LEMMA CalcChoiceType ==
    ASSUME TypeOK, NEW c \in Sym, CalcChoice(c)
    PROVE  TypeOK'
  <1>1. c \in Choice /\ c \notin Ints /\ Values(c) \subseteq Sym
    BY SortAssumption, ChoiceAssumption DEF CalcChoice
  <1>2. def \in Valuation /\ curr \in Valuation
    BY DEF TypeOK
  <1> DEFINE tri  == TriValue(c, curr)
             v    == [curr EXCEPT ![c] = tri]
             vis  == [s \in Sym |->
                        IF s = c THEN Visibility(c, curr)
                        ELSE IF s \in Values(c) /\ tri = yes THEN Visibility(s, v)
                        ELSE visible[s]]
             p    == IF tri = yes THEN ChoicePick(c, vis, v) ELSE NoSym
             seen == {s \in Values(c) : vis[s] # no}
  <1>3. /\ visible' = vis
        /\ curr' = [curr EXCEPT ![c] = IF tri = yes /\ p = NoSym THEN no ELSE tri]
        /\ pick' = [pick EXCEPT ![c] = p]
        /\ user' = IF tri = yes /\ ~ (seen \subseteq user) THEN user \ {c} ELSE user
        /\ write' = IF Written(c, curr) THEN write \cup {c} \cup seen ELSE write \ {c}
    BY DEF CalcChoice
  <1>4. tri \in Tri
    BY <1>1, <1>2, ValueTypes
  <1>5. v \in Valuation
    BY <1>1, <1>2, <1>4, TriIsVal DEF Valuation
  <1>6. vis \in [Sym -> Tri]
    BY <1>2, <1>5, VisibilityTypes DEF TypeOK
  <1>7. p \in Values(c) \cup {NoSym}
    BY <1>1, <1>5, ChoicePickType DEF TypeOK
  <1>8. seen \subseteq Sym
    BY <1>1
  <1> HIDE DEF tri, v, vis, p, seen
  <1>9. curr' \in Valuation
    BY <1>1, <1>2, <1>3, <1>4, TriIsVal DEF Valuation
  <1>10. /\ pick' \in [Choice -> Sym \cup {NoSym}]
         /\ \A d \in Choice : pick'[d] \in Values(d) \cup {NoSym}
    BY <1>1, <1>3, <1>7 DEF TypeOK
  <1>11. user' \subseteq Sym /\ write' \subseteq Sym /\ visible' \in [Sym -> Tri]
    BY <1>3, <1>6, <1>8 DEF TypeOK
  <1>12. valid' \subseteq Sym /\ revDep' \in [Sym -> Tri] /\ implied' \in [Sym -> Tri]
    BY <1>2, VisibilityTypes DEF CalcChoice, Store, TypeOK
  <1> QED
    BY <1>9, <1>10, <1>11, <1>12 DEF CalcChoice, TypeOK, fileVars, histVars

\* The changes of sym_set_tristate_value.
LEMMA PutTristateType ==
    ASSUME TypeOK, NEW s \in Sym \ Ints, NEW t \in Tri, PutTristate(s, t)
    PROVE  TypeOK'
  <1>1. def' \in Valuation
    BY TriIsVal DEF PutTristate, TypeOK, Valuation
  <1>2. asked' \in {<<>>} \cup (Sym \X Val) /\ saved' \in {<<>>} \cup [Named -> Val]
    BY TriIsVal DEF PutTristate
  <1>3. valid' \subseteq Sym /\ changed' \in BOOLEAN
    BY DEF PutTristate, ClearAllValid, TypeOK
  <1>4. /\ user' \subseteq Sym
        /\ userPick' \in [Choice -> Sym \cup {NoSym}]
        /\ \A c \in Choice : userPick'[c] \in Values(c) \cup {NoSym}
    <2>1. CASE IsChoiceValue(s) /\ t = yes
      <3> DEFINE c == ChoiceOf(s)
      <3>1. c \in Choice /\ s \in Values(c)
        BY <2>1 DEF IsChoiceValue, ChoiceOf
      <3>2. Values(c) \subseteq Sym /\ c \in Sym
        BY <3>1, ChoiceAssumption, SortAssumption
      <3>3. /\ userPick' = [userPick EXCEPT ![c] = s]
            /\ user' = user \cup {s, c} \cup {x \in Values(c) : visible[x] # no}
        BY <2>1 DEF PutTristate
      <3> HIDE DEF c
      <3> QED
        BY <3>1, <3>2, <3>3 DEF TypeOK
    <2>2. CASE ~ (IsChoiceValue(s) /\ t = yes)
      <3>1. user' = user \cup {s} /\ userPick' = userPick
        BY <2>2, Zenon DEF PutTristate
      <3> QED
        BY <3>1 DEF TypeOK
    <2> QED
      BY <2>1, <2>2
  <1> QED
    BY <1>1, <1>2, <1>3, <1>4 DEF PutTristate, TypeOK, cacheVars

\* sym_toggle_tristate_value finds a value that is accepted: after n, m and y
\* it is back at the present one.
LEMMA ToggleValue ==
    ASSUME TypeOK, NEW s \in Sym, Toggle(s)
    PROVE  \E t \in Tri : Accepts(s, t) /\ PutTristate(s, t)
  <1> DEFINE step(k) == (curr[s] + k) % 3
             Ok(k) == Accepts(s, step(k)) /\ \A j \in 1 .. (k - 1) : ~ Accepts(s, step(j))
             k0 == CHOOSE i \in 1 .. 3 : Ok(i)
  <1>1. s \in Sym \ Ints /\ PutTristate(s, step(k0))
    BY DEF Toggle
  <1>2. curr[s] \in 0 .. 2
    BY <1>1 DEF TypeOK, Valuation, Tri, no, mod, yes
  <1>3. step(3) = curr[s]
    BY <1>2
  <1>4. Accepts(s, step(3))
    BY <1>3 DEF Accepts
  <1>5. \E i \in 1 .. 3 : Ok(i)
    <2> HIDE DEF step
    <2>1. CASE Accepts(s, step(1))
      BY <2>1
    <2>2. CASE ~ Accepts(s, step(1)) /\ Accepts(s, step(2))
      <3>1. \A j \in 1 .. (2 - 1) : j = 1
        OBVIOUS
      <3> QED
        BY <2>2, <3>1
    <2>3. CASE ~ Accepts(s, step(1)) /\ ~ Accepts(s, step(2))
      <3>1. \A j \in 1 .. (3 - 1) : j = 1 \/ j = 2
        OBVIOUS
      <3> QED
        BY <1>4, <2>3, <3>1
    <2> QED
      BY <2>1, <2>2, <2>3
  <1>6. k0 \in 1 .. 3 /\ Accepts(s, step(k0))
    <2>1. k0 \in 1 .. 3 /\ Ok(k0)
      <3> HIDE DEF Ok
      <3> QED
        BY <1>5
    <2> HIDE DEF k0
    <2> QED
      BY <2>1
  <1>7. step(k0) \in Tri
    <2> HIDE DEF k0
    <2> QED
      BY <1>2, <1>6 DEF Tri, no, mod, yes
  <1> HIDE DEF step, k0
  <1> QED
    BY <1>1, <1>6, <1>7

\* Every request keeps the types.
LEMMA EditType == TypeOK /\ Edit => TypeOK'
  <1> SUFFICES ASSUME TypeOK, Edit PROVE TypeOK'
    OBVIOUS
  <1>1. PICK s \in Sym : \/ \E t \in Tri : SetTristate(s, t)
                        \/ Toggle(s)
                        \/ \E n \in Val : SetString(s, n)
    BY DEF Edit
  <1>2. ASSUME NEW t \in Tri, SetTristate(s, t) PROVE TypeOK'
    BY <1>2, PutTristateType DEF SetTristate, TypeOK
  <1>3. CASE Toggle(s)
    <2>1. s \in Sym \ Ints
      BY <1>3 DEF Toggle
    <2> QED
      BY <1>3, <2>1, ToggleValue, PutTristateType
  <1>4. ASSUME NEW n \in Val, SetString(s, n) PROVE TypeOK'
    <2>1. s \in Ints
      BY <1>4 DEF SetString
    <2>2. def' \in Valuation
      BY <1>4, <2>1 DEF SetString, TypeOK, Valuation
    <2>3. /\ user' \subseteq Sym /\ valid' \subseteq Sym /\ changed' \in BOOLEAN
          /\ asked' \in {<<>>} \cup (Sym \X Val)
          /\ saved' \in {<<>>} \cup [Named -> Val]
      BY <1>4 DEF SetString, ClearAllValid, TypeOK
    <2> QED
      BY <1>4, <2>2, <2>3 DEF SetString, TypeOK, cacheVars
  <1> QED
    BY <1>1, <1>2, <1>3, <1>4

\* conf_read and conf_write keep the types.
LEMMA FileType ==
    ASSUME TypeOK, ReadAny \/ ReadMissing \/ FinishRead \/ Write \/ FinishWrite \/ FailWrite
    PROVE  TypeOK'
  <1>1. CASE ReadAny
    <2>1. PICK f \in Files \cup {disk} : Read(f)
      BY <1>1 DEF ReadAny
    <2>2. f \in ConfigFile
      BY FileAssumption DEF TypeOK
    <2>3. def' \in Valuation /\ disk' \in ConfigFile
      BY <2>1, <2>2, DefOfType DEF Read
    <2>4. user' \subseteq Sym /\ valid' \subseteq Sym
      BY <2>1, SortAssumption DEF Read, UserOf, Named
    <2>5. /\ userPick' \in [Choice -> Sym \cup {NoSym}]
          /\ \A c \in Choice : userPick'[c] \in Values(c) \cup {NoSym}
      <3>1. userPick' = PickOf(f)
        BY <2>1 DEF Read
      <3>2. \A c \in Choice : PickOf(f)[c] \in Values(c) \cup {NoSym}
        BY PickOfType
      <3>3. \A c \in Choice : Values(c) \subseteq Sym
        BY ChoiceAssumption
      <3>4. PickOf(f) = [c \in Choice |-> PickOf(f)[c]]
        BY DEF PickOf
      <3> QED
        BY <3>1, <3>2, <3>3, <3>4
    <2>6. /\ changed' \in BOOLEAN /\ pc' = "read" /\ asked' = <<>>
          /\ saved' \in {<<>>} \cup [Named -> Val]
      BY <2>1 DEF Read, Warned, TypeOK
    <2> QED
      BY <2>1, <2>3, <2>4, <2>5, <2>6 DEF Read, TypeOK, cacheVars
  <1>2. CASE ReadMissing
    BY <1>2 DEF ReadMissing, TypeOK, userVars, cacheVars, histVars
  <1>3. CASE FinishRead
    <2>1. user' \subseteq Sym /\ valid' \subseteq Sym
      BY <1>3 DEF FinishRead, TypeOK
    <2>2. changed' \in BOOLEAN
      BY <1>3 DEF FinishRead, Unsaved, TypeOK
    <2> QED
      BY <1>3, <2>1, <2>2 DEF FinishRead, TypeOK, cacheVars, histVars
  <1>4. CASE Write
    <2>1. valid' \subseteq Sym /\ changed' \in BOOLEAN
      BY <1>4 DEF Write, ClearAllValid, TypeOK
    <2> QED
      BY <1>4, <2>1 DEF Write, TypeOK, userVars, cacheVars, histVars
  <1>5. CASE FinishWrite
    <2>1. Content \in ConfigFile
      BY SortAssumption DEF Content, ConfigFile, TypeOK, Valuation, Named
    <2>2. [s \in Named |-> curr[s]] \in [Named -> Val]
      BY DEF TypeOK, Valuation, Named
    <2> QED
      BY <1>5, <2>1, <2>2 DEF FinishWrite, TypeOK, userVars, cacheVars
  <1>6. CASE FailWrite
    BY <1>6 DEF FailWrite, TypeOK, userVars, cacheVars, fileVars, histVars
  <1> QED
    BY <1>1, <1>2, <1>3, <1>4, <1>5, <1>6

\* Every step keeps the types.
LEMMA TypeStep == TypeOK /\ [Next]_vars => TypeOK'
  <1> SUFFICES ASSUME TypeOK, [Next]_vars PROVE TypeOK'
    OBVIOUS
  <1>1. CASE Calc
    BY <1>1, CalcSymbolType, CalcChoiceType DEF Calc
  <1>2. CASE Edit
    BY <1>2, EditType
  <1>3. CASE ReadAny \/ ReadMissing \/ FinishRead \/ Write \/ FinishWrite \/ FailWrite
    BY <1>3, FileType
  <1>4. CASE UNCHANGED vars
    BY <1>4 DEF vars, userVars, cacheVars, fileVars, histVars, TypeOK
  <1> QED
    BY <1>1, <1>2, <1>3, <1>4 DEF Next

\* Every variable of the symbol engine keeps its type, for every menu: a
\* tristate never takes an int's value, a choice never picks what is not one
\* of its values, and the file never holds what conf_set_sym_val would drop.
THEOREM TypeCorrect == Spec => []TypeOK
  BY InitType, TypeStep, PTL DEF Spec
-----------------------------------------------------------------------------
(* What the symbol engine promises on menus of the kind this tree has: the   *)
(* cache tells the truth, values keep their bounds, choices are made,        *)
(* requests are honoured, and files lose nothing.                            *)

\* What is valid was calculated from valid symbols.
Closed == \A s \in valid : Operands(s) \subseteq valid

AllFresh == \A s \in valid : Fresh(s)

Within(s, n) == \A v \in Valuation : Attr(s, v).lo <= n /\ n <= Attr(s, v).hi

\* No value of an int is ever dropped for its range.
Ranges ==
    \A s \in Ints : /\ s \in user => Within(s, def[s])
                    /\ disk[s] = Unset \/ Within(s, disk[s])

CacheInv == TypeOK /\ Closed /\ AllFresh /\ Ranges

\* The string that is kept of an int which does not count as set is what its
\* default is wherever it can be seen: conf_read drops the flag of an int that
\* is hidden, and has its default, and SteadyDefaults does the rest.
StringsKept ==
    \A s \in Ints \ user :
        def[s] = no \/ \A w \in Valuation : Visibility(s, w) # no => IntDefault(s, w) = def[s]
-----------------------------------------------------------------------------
(* What the values depend on.                                                *)

\* Two valuations that agree on what a symbol mentions are the same to it.
LEMMA Local ==
    ASSUME NEW s \in Sym, NEW v \in Valuation, NEW w \in Valuation,
           \A u \in Uses(s) : v[u] = w[u]
    PROVE  Attr(s, v) = Attr(s, w)
  <1>1. [u \in Sym |-> IF u \in Uses(s) THEN v[u] ELSE no] =
        [u \in Sym |-> IF u \in Uses(s) THEN w[u] ELSE no]
    OBVIOUS
  <1>2. Attr(s, v) = Attr(s, [u \in Sym |-> IF u \in Uses(s) THEN v[u] ELSE no])
    BY LocalityAssumption
  <1>3. Attr(s, w) = Attr(s, [u \in Sym |-> IF u \in Uses(s) THEN w[u] ELSE no])
    BY LocalityAssumption
  <1> QED
    BY <1>1, <1>2, <1>3

\* Without tristates every value is `n' or `y'.
LEMMA TwoValued ==
    ASSUME BoolMenu, NEW s \in Sym, NEW v \in Valuation
    PROVE  /\ Visibility(s, v) = Promote(Attr(s, v).prompt, TRUE)
           /\ Visibility(s, v) \in {no, yes}
           /\ RevDep(s, v) = IF IsChoiceValue(s) THEN no ELSE Promote(Attr(s, v).rev, TRUE)
           /\ Implied(s, v) = IF IsChoiceValue(s) \/ Attr(s, v).dir = no THEN no
                              ELSE Promote(Attr(s, v).imp, TRUE)
           /\ TriValue(s, v) = IF IsChoiceValue(s) /\ Visibility(s, v) = yes
                               THEN ChosenValue(s)
                               ELSE Promote(Or3(OwnValue(s, v), RevDep(s, v)), TRUE)
  <1>1. Tristate = {}
    BY DEF BoolMenu
  <1>2. \A x : ~ IsTristate(s, x, v)
    BY <1>1 DEF IsTristate
  <1>3. Visibility(s, v) = Promote(Attr(s, v).prompt, TRUE)
    BY <1>1 DEF Visibility, Promote
  <1>4. Visibility(s, v) \in {no, yes}
    BY <1>3, AttrTypes DEF Promote, Tri
  <1>5. RevDep(s, v) = IF IsChoiceValue(s) THEN no ELSE Promote(Attr(s, v).rev, TRUE)
    BY <1>2 DEF RevDep, Promote
  <1>6. Implied(s, v) = IF IsChoiceValue(s) \/ Attr(s, v).dir = no THEN no
                        ELSE Promote(Attr(s, v).imp, TRUE)
    BY <1>2 DEF Implied, Promote
  <1>7. TriValue(s, v) = IF IsChoiceValue(s) /\ Visibility(s, v) = yes THEN ChosenValue(s)
                         ELSE Promote(Or3(OwnValue(s, v), RevDep(s, v)), TRUE)
    BY <1>2 DEF TriValue, Promote
  <1> QED
    BY <1>3, <1>4, <1>5, <1>6, <1>7

\* The calculated fields depend on what the symbol mentions only.
LEMMA SameFields ==
    ASSUME BoolMenu, NEW s \in Sym, NEW v \in Valuation, NEW w \in Valuation,
           \A u \in Uses(s) : v[u] = w[u]
    PROVE  /\ Visibility(s, v) = Visibility(s, w)
           /\ RevDep(s, v) = RevDep(s, w)
           /\ Implied(s, v) = Implied(s, w)
           /\ OwnValue(s, v) = OwnValue(s, w)
           /\ TriValue(s, v) = TriValue(s, w)
           /\ Value(s, v) = Value(s, w)
  <1>1. Attr(s, v) = Attr(s, w)
    BY Local
  <1>2. /\ Visibility(s, v) = Visibility(s, w)
        /\ RevDep(s, v) = RevDep(s, w)
        /\ Implied(s, v) = Implied(s, w)
    BY <1>1, TwoValued
  <1>3. OwnValue(s, v) = OwnValue(s, w)
    BY <1>1, <1>2 DEF OwnValue
  <1>4. TriValue(s, v) = TriValue(s, w)
    BY <1>2, <1>3, TwoValued
  <1>5. IntValue(s, v) = IntValue(s, w)
    BY <1>1, <1>2 DEF IntValue, Clamp
  <1> QED
    BY <1>2, <1>3, <1>4, <1>5 DEF Value
-----------------------------------------------------------------------------
(* The values as functions of all they depend on: the valuation v, the       *)
(* user's value d and whether there is one (u), and whether the choice of s  *)
(* picks it (k).                                                             *)

Tri0(s, v, d, u, k) ==
    IF IsChoiceValue(s) /\ Visibility(s, v) = yes THEN IF k THEN yes ELSE no
    ELSE Promote(Or3(IF Visibility(s, v) # no /\ u THEN And3(d, Visibility(s, v))
                     ELSE IF s \in Choice THEN no
                     ELSE Or3(Attr(s, v).dflt, Implied(s, v)), RevDep(s, v)),
                 ~ IsTristate(s, Visibility(s, v), v) \/ Implied(s, v) = yes)

Int0(s, v, d, u) ==
    LET a == Attr(s, v)
        n == IF Visibility(s, v) # no /\ u THEN d ELSE a.dflt
    IN IF n < a.lo THEN a.lo ELSE IF n > a.hi THEN a.hi ELSE n

Pick0(c, vis, v, u) ==
    IF u # NoSym /\ vis[u] # no THEN u
    ELSE FirstVisible(Attr(c, v).order \o Members(c), vis)

\* What Fresh says of a choice with value tri, pick k and user's choice u.
ChoiceFresh(c, tri, v, k, u) ==
    LET w == [v EXCEPT ![c] = yes]
        p == Pick0(c, [x \in Sym |-> Visibility(x, w)], w, u)
    IN IF tri = yes THEN k = p /\ v[c] = (IF p = NoSym THEN no ELSE yes)
                    ELSE k = NoSym /\ v[c] = tri

\* The values of the model are these, before and after a step.
LEMMA NowThen ==
    ASSUME NEW s \in Sym
    PROVE  /\ TriValue(s, curr) = Tri0(s, curr, def[s], s \in user, pick[ChoiceOf(s)] = s)
           /\ TriValue(s, curr)' = Tri0(s, curr', def'[s], s \in user', pick'[ChoiceOf(s)] = s)
           /\ IntValue(s, curr) = Int0(s, curr, def[s], s \in user)
           /\ IntValue(s, curr)' = Int0(s, curr', def'[s], s \in user')
  <1>1. TriValue(s, curr) = Tri0(s, curr, def[s], s \in user, pick[ChoiceOf(s)] = s)
    BY Zenon DEF TriValue, OwnValue, ChosenValue, Tri0
  <1>2. TriValue(s, curr)' = Tri0(s, curr', def'[s], s \in user', pick'[ChoiceOf(s)] = s)
    BY Zenon DEF TriValue, OwnValue, ChosenValue, Tri0
  <1>3. IntValue(s, curr) = Int0(s, curr, def[s], s \in user)
    BY DEF IntValue, Clamp, Int0
  <1>4. IntValue(s, curr)' = Int0(s, curr', def'[s], s \in user')
    BY DEF IntValue, Clamp, Int0
  <1> QED
    BY <1>1, <1>2, <1>3, <1>4

\* A symbol is fresh, before and after a step, in these terms.
LEMMA FreshNow ==
    ASSUME NEW s \in Sym
    PROVE  Fresh(s) <=>
             /\ visible[s] = Visibility(s, curr)
             /\ revDep[s] = RevDep(s, curr)
             /\ implied[s] = Implied(s, curr)
             /\ s \notin Choice => curr[s] = IF s \in Ints THEN IntValue(s, curr) ELSE TriValue(s, curr)
             /\ s \in Choice => ChoiceFresh(s, TriValue(s, curr), curr, pick[s], userPick[s])
  BY Zenon DEF Fresh, ChoicePick, Pick0, Value, ChoiceFresh

\* The same after a step.
LEMMA FreshThen ==
    ASSUME NEW s \in Sym
    PROVE  Fresh(s)' <=>
             /\ visible'[s] = Visibility(s, curr')
             /\ revDep'[s] = RevDep(s, curr')
             /\ implied'[s] = Implied(s, curr')
             /\ s \notin Choice => curr'[s] = IF s \in Ints THEN IntValue(s, curr)' ELSE TriValue(s, curr)'
             /\ s \in Choice => ChoiceFresh(s, TriValue(s, curr)', curr', pick'[s], userPick'[s])
  BY Zenon DEF Fresh, ChoicePick, Pick0, Value, ChoiceFresh
-----------------------------------------------------------------------------
(* When these functions stay the same.                                       *)

\* Valuations that agree on what a symbol mentions give it the same value.
LEMMA SameValuation ==
    ASSUME BoolMenu, NEW s \in Sym, NEW v \in Valuation, NEW w \in Valuation,
           \A u \in Uses(s) : v[u] = w[u]
    PROVE  \A d, u, k : /\ Tri0(s, v, d, u, k) = Tri0(s, w, d, u, k)
                        /\ Int0(s, v, d, u) = Int0(s, w, d, u)
  <1>1. Attr(s, v) = Attr(s, w)
    BY Local
  <1>2. /\ Visibility(s, v) = Visibility(s, w)
        /\ RevDep(s, v) = RevDep(s, w)
        /\ Implied(s, v) = Implied(s, w)
    BY SameFields
  <1>3. ~ IsTristate(s, Visibility(s, v), v) /\ ~ IsTristate(s, Visibility(s, w), w)
    BY DEF BoolMenu, IsTristate
  <1> QED
    BY <1>1, <1>2, <1>3, Zenon DEF Tri0, Int0

\* Without tristates the last step of a value is a promotion.
LEMMA TriTwo ==
    ASSUME BoolMenu, NEW s \in Sym, NEW v \in Valuation, NEW d, NEW u, NEW k,
           ~ (IsChoiceValue(s) /\ Visibility(s, v) = yes)
    PROVE  Tri0(s, v, d, u, k) =
             Promote(Or3(IF Visibility(s, v) # no /\ u THEN And3(d, Visibility(s, v))
                         ELSE IF s \in Choice THEN no
                         ELSE Or3(Attr(s, v).dflt, Implied(s, v)), RevDep(s, v)), TRUE)
  <1>1. ~ IsTristate(s, Visibility(s, v), v)
    BY DEF BoolMenu, IsTristate
  <1> QED
    BY <1>1 DEF Tri0, Promote

\* A choice that can be seen is selected.
LEMMA SeenIsSelected ==
    ASSUME BoolMenu, NEW c \in Choice, NEW v \in Valuation, Visibility(c, v) # no
    PROVE  RevDep(c, v) = yes
  <1>1. c \in Sym /\ ~ IsChoiceValue(c)
    BY SortAssumption, ChoiceAssumption DEF IsChoiceValue
  <1>2. Attr(c, v).prompt # no
    BY <1>1, TwoValued DEF Promote, no, mod, yes
  <1>3. Attr(c, v).rev # no /\ Attr(c, v).rev \in Tri
    BY <1>1, <1>2, AttrTypes DEF BoolMenu
  <1> QED
    BY <1>1, <1>3, TwoValued DEF Promote, Tri

\* The value of a choice that can be seen is `y', whatever the user set.
LEMMA ChoiceAnyUser ==
    ASSUME BoolMenu, NEW c \in Choice, NEW v \in Valuation,
           NEW d \in Tri, NEW e \in Tri, NEW u, NEW w, NEW k, NEW l
    PROVE  Tri0(c, v, d, u, k) = Tri0(c, v, e, w, l)
  <1>1. c \in Sym /\ ~ IsChoiceValue(c)
    BY SortAssumption, ChoiceAssumption DEF IsChoiceValue
  <1>2. CASE Visibility(c, v) = no
    BY <1>1, <1>2, TriTwo
  <1>3. CASE Visibility(c, v) # no
    <2>3. RevDep(c, v) = yes
      BY <1>3, SeenIsSelected
    <2>4. \A x \in Tri : Promote(Or3(x, yes), TRUE) = yes
      BY DEF Tri, no, mod, yes, Or3, Promote
    <2>5. \A x \in Tri : And3(x, Visibility(c, v)) \in Tri
      BY <1>1, VisibilityTypes, TriClosed
    <2>6. \A x \in Tri : \A a, b : Tri0(c, v, x, a, b) = yes
      <3> TAKE x \in Tri
      <3> TAKE a, b
      <3> DEFINE own == IF Visibility(c, v) # no /\ a THEN And3(x, Visibility(c, v))
                        ELSE IF c \in Choice THEN no
                        ELSE Or3(Attr(c, v).dflt, Implied(c, v))
      <3>1. own \in Tri
        <4>1. own = And3(x, Visibility(c, v)) \/ own = no
          BY Zenon
        <4> HIDE DEF own
        <4> QED
          BY <2>5, <4>1, TriIsVal
      <3>2. Tri0(c, v, x, a, b) = Promote(Or3(own, RevDep(c, v)), TRUE)
        BY <1>1, TriTwo, Zenon
      <3> HIDE DEF own
      <3> QED
        BY <2>3, <2>4, <3>1, <3>2
    <2> QED
      BY <2>6, Zenon
  <1> QED
    BY <1>2, <1>3

\* A choice value does not look at the user's value of its own.
LEMMA ChoiceValueAnyUser ==
    ASSUME BoolMenu, NEW s \in Sym, IsChoiceValue(s), NEW v \in Valuation,
           NEW d, NEW e, NEW u, NEW w, NEW k
    PROVE  Tri0(s, v, d, u, k) = Tri0(s, v, e, w, k)
  <1>1. CASE Visibility(s, v) = yes
    BY <1>1 DEF Tri0
  <1>2. CASE Visibility(s, v) # yes
    <2>1. Visibility(s, v) = no
      BY <1>2, TwoValued
    <2> QED
      BY <1>2, <2>1, TriTwo
  <1> QED
    BY <1>1, <1>2

\* A symbol nobody can see does not look at the user's value.
LEMMA HiddenAnyUser ==
    ASSUME NEW s \in Sym, NEW v \in Valuation, Visibility(s, v) = no,
           NEW d, NEW e, NEW u, NEW w, NEW k
    PROVE  Tri0(s, v, d, u, k) = Tri0(s, v, e, w, k) /\ Int0(s, v, d, u) = Int0(s, v, e, w)
  BY Zenon DEF Tri0, Int0

\* Asking for the value that a symbol has anyway changes nothing.
LEMMA SameRequest ==
    ASSUME BoolMenu, NEW s \in Sym, s \notin Ints \cup Choice, NEW v \in Valuation,
           NEW d \in Tri, NEW u, NEW k, NEW t \in Tri, Tri0(s, v, d, u, k) = t
    PROVE  \A A, x : x \in A => Tri0(s, v, t, x \in A, k) = t
  <1>1. CASE IsChoiceValue(s)
    <2>1. \A w : Tri0(s, v, d, u, k) = Tri0(s, v, t, w, k)
      BY <1>1, ChoiceValueAnyUser
    <2> QED
      BY <2>1, Zenon
  <1>2. CASE ~ IsChoiceValue(s)
    <2>1. CASE Visibility(s, v) = no
      <3>1. \A w : Tri0(s, v, d, u, k) = Tri0(s, v, t, w, k)
        BY <2>1, HiddenAnyUser
      <3> QED
        BY <3>1, Zenon
    <2>2. CASE Visibility(s, v) # no
      <3>1. Visibility(s, v) = yes
        BY <2>2, TwoValued
      <3> DEFINE own == IF u THEN And3(d, yes) ELSE Or3(Attr(s, v).dflt, Implied(s, v))
                 rev == RevDep(s, v)
      <3>2. own \in Tri /\ rev \in Tri
        <4>1. And3(d, yes) \in Tri /\ Or3(Attr(s, v).dflt, Implied(s, v)) \in Tri
          BY AttrTypes, VisibilityTypes, TriClosed, TriIsVal
        <4>2. own = And3(d, yes) \/ own = Or3(Attr(s, v).dflt, Implied(s, v))
          BY Zenon
        <4> HIDE DEF own
        <4> QED
          BY <4>1, <4>2, VisibilityTypes
      <3>3. t = Promote(Or3(own, rev), TRUE)
        BY <1>2, <2>2, <3>1, TriTwo, Zenon
      <3>4. \A A, x : x \in A => Tri0(s, v, t, x \in A, k) = Promote(Or3(And3(t, yes), rev), TRUE)
        BY <1>2, <2>2, <3>1, TriTwo, Zenon
      <3>5. \A a, b \in Tri :
              LET x == Promote(Or3(a, b), TRUE) IN Promote(Or3(And3(x, yes), b), TRUE) = x
        BY DEF Tri, no, mod, yes, And3, Or3, Promote
      <3> HIDE DEF own, rev
      <3> QED
        BY <3>2, <3>3, <3>4, <3>5, Zenon
    <2> QED
      BY <2>1, <2>2
  <1> QED
    BY <1>1, <1>2

\* The first visible value depends on the visibility of those looked at.
LEMMA SamePick ==
    ASSUME NEW c \in Choice, NEW v \in Valuation, NEW w \in Valuation, NEW vis, NEW wis,
           Attr(c, v).order = Attr(c, w).order,
           \A x \in Values(c) : vis[x] = wis[x],
           NEW u \in Values(c) \cup {NoSym}
    PROVE  Pick0(c, vis, v, u) = Pick0(c, wis, w, u)
  <1> DEFINE q == Attr(c, v).order \o Members(c)
  <1>1. \A i \in DOMAIN q : q[i] \in Values(c)
    <2>1. Attr(c, v).order \in Seq(Sym) /\ Members(c) \in Seq(Sym)
      BY SortAssumption, AttrTypes, ChoiceAssumption
    <2>2. \A i \in DOMAIN Attr(c, v).order : Attr(c, v).order[i] \in Values(c)
      BY SortAssumption, AttrAssumption
    <2>3. \A i \in DOMAIN Members(c) : Members(c)[i] \in Values(c)
      BY DEF Values
    <2> QED
      BY <2>1, <2>2, <2>3
  <1>2. {i \in DOMAIN q : vis[q[i]] # no} = {i \in DOMAIN q : wis[q[i]] # no}
    BY <1>1
  <1>3. FirstVisible(q, vis) = FirstVisible(q, wis)
    <2> HIDE DEF q
    <2> DEFINE S == {i \in DOMAIN q : vis[q[i]] # no}
               T == {i \in DOMAIN q : wis[q[i]] # no}
               First(A) == IF A = {} THEN NoSym ELSE q[CHOOSE i \in A : \A j \in A : i <= j]
    <2>1. FirstVisible(q, vis) = First(S)
      BY Zenon DEF FirstVisible
    <2>2. FirstVisible(q, wis) = First(T)
      BY Zenon DEF FirstVisible
    <2>3. S = T
      BY <1>2
    <2> HIDE DEF S, T, First
    <2> QED
      BY <2>1, <2>2, <2>3, Zenon
  <1>4. q = Attr(c, w).order \o Members(c)
    OBVIOUS
  <1> QED
    BY <1>3, <1>4 DEF Pick0
-----------------------------------------------------------------------------
(* A symbol that is not calculated stays fresh.                              *)

\* The symbols a value is calculated from.
LEMMA OperandsOf ==
    ASSUME NEW s \in Sym
    PROVE  /\ Uses(s) \subseteq Operands(s)
           /\ s \notin Operands(s)
           /\ s \in Choice => \A x \in Values(s) : x \in Sym /\ Uses(x) \ {s} \subseteq Operands(s)
           /\ IsChoiceValue(s) => /\ ChoiceOf(s) \in Choice /\ s \in Values(ChoiceOf(s))
                                  /\ ChoiceOf(s) \in Operands(s)
                                  /\ s \notin Choice /\ s \notin Ints
  <1>1. Uses(s) \subseteq Sym \ {s}
    BY AttrAssumption
  <1>2. Uses(s) \subseteq Operands(s) /\ s \notin Operands(s)
    BY <1>1 DEF Operands
  <1>3. ASSUME s \in Choice, NEW x \in Values(s)
        PROVE  x \in Sym /\ Uses(x) \ {s} \subseteq Operands(s)
    <2>1. x \in Sym
      BY <1>3, ChoiceAssumption
    <2>2. Uses(x) \subseteq UNION {Uses(y) : y \in Values(s)}
      BY <1>3
    <2> QED
      BY <1>3, <2>1, <2>2 DEF Operands
  <1>4. ASSUME IsChoiceValue(s)
        PROVE  /\ ChoiceOf(s) \in Choice /\ s \in Values(ChoiceOf(s))
               /\ ChoiceOf(s) \in Operands(s)
               /\ s \notin Choice /\ s \notin Ints
    <2>1. ChoiceOf(s) \in Choice /\ s \in Values(ChoiceOf(s))
      BY <1>4 DEF IsChoiceValue, ChoiceOf
    <2>2. ChoiceOf(s) \in Uses(s) /\ s \notin Choice /\ s \notin Ints
      BY <2>1, ChoiceAssumption
    <2> QED
      BY <1>2, <2>1, <2>2
  <1> QED
    BY <1>2, <1>3, <1>4

\* The pick of a choice does not change with symbols it does not read.
LEMMA PickKept ==
    ASSUME BoolMenu, NEW c \in Choice, NEW v \in Valuation, NEW w \in Valuation,
           v[c] = w[c], \A u \in Operands(c) : v[u] = w[u],
           NEW p \in Values(c) \cup {NoSym}
    PROVE  Pick0(c, [x \in Sym |-> Visibility(x, v)], v, p) =
           Pick0(c, [x \in Sym |-> Visibility(x, w)], w, p)
  <1>1. c \in Sym
    BY SortAssumption
  <1>2. Attr(c, v).order = Attr(c, w).order
    BY <1>1, OperandsOf, Local
  <1> DEFINE vis == [x \in Sym |-> Visibility(x, v)]
             wis == [x \in Sym |-> Visibility(x, w)]
  <1>3. ASSUME NEW x \in Values(c) PROVE vis[x] = wis[x]
    <2>1. x \in Sym /\ \A u \in Uses(x) : v[u] = w[u]
      BY <1>1, OperandsOf
    <2>2. Visibility(x, v) = Visibility(x, w)
      BY <2>1, SameFields
    <2> QED
      BY <2>1, <2>2
  <1> HIDE DEF vis, wis
  <1>4. Pick0(c, vis, v, p) = Pick0(c, wis, w, p)
    BY <1>2, <1>3, SamePick
  <1> QED
    BY <1>4 DEF vis, wis

\* A symbol stays fresh through a step that keeps its calculated fields, the
\* values it reads, and what its value or its pick makes of the user's wish.
LEMMA Kept ==
    ASSUME BoolMenu, TypeOK, TypeOK', NEW t \in Sym, Fresh(t),
           visible'[t] = visible[t], revDep'[t] = revDep[t], implied'[t] = implied[t],
           curr'[t] = curr[t], \A u \in Operands(t) : curr'[u] = curr[u],
           t \in Ints => Int0(t, curr, def'[t], t \in user') = Int0(t, curr, def[t], t \in user),
           t \notin Ints \cup Choice =>
             Tri0(t, curr, def'[t], t \in user', pick'[ChoiceOf(t)] = t)
               = Tri0(t, curr, def[t], t \in user, pick[ChoiceOf(t)] = t),
           t \in Choice => /\ pick'[t] = pick[t]
                           /\ userPick'[t] = userPick[t] \/ (curr' = curr /\ userPick'[t] = pick[t])
    PROVE  Fresh(t)'
  <1>1. curr \in Valuation /\ curr' \in Valuation /\ def[t] \in Val /\ def'[t] \in Val
    BY DEF TypeOK, Valuation
  <1>2. \A u \in Uses(t) : curr'[u] = curr[u]
    BY OperandsOf
  <1>3. /\ visible'[t] = Visibility(t, curr')
        /\ revDep'[t] = RevDep(t, curr')
        /\ implied'[t] = Implied(t, curr')
    BY <1>1, <1>2, SameFields, FreshNow
  <1>4. ASSUME t \in Ints PROVE curr'[t] = IntValue(t, curr)'
    <2>1. \A d, u : Int0(t, curr', d, u) = Int0(t, curr, d, u)
      BY <1>1, <1>2, SameValuation
    <2>2. curr[t] = IntValue(t, curr)
      BY <1>4, FreshNow, SortAssumption
    <2> QED
      BY <1>4, <2>1, <2>2, NowThen
  <1>5. ASSUME t \notin Ints PROVE TriValue(t, curr)' = TriValue(t, curr)
    <2>1. \A d, u, k : Tri0(t, curr', d, u, k) = Tri0(t, curr, d, u, k)
      BY <1>1, <1>2, SameValuation
    <2>2. Tri0(t, curr, def'[t], t \in user', pick'[ChoiceOf(t)] = t)
            = Tri0(t, curr, def[t], t \in user, pick[ChoiceOf(t)] = t)
      <3>1. CASE t \in Choice
        <4>1. def[t] \in Tri /\ def'[t] \in Tri
          BY <1>5 DEF TypeOK, Valuation
        <4> QED
          BY <1>1, <3>1, <4>1, ChoiceAnyUser
      <3> QED
        BY <1>5, <3>1
    <2> QED
      BY <2>1, <2>2, NowThen
  <1>6. ASSUME t \in Choice
        PROVE  ChoiceFresh(t, TriValue(t, curr)', curr', pick'[t], userPick'[t])
    <2> DEFINE v == [curr EXCEPT ![t] = yes]
               w == [curr' EXCEPT ![t] = yes]
               P(x, p) == Pick0(t, [y \in Sym |-> Visibility(y, x)], x, p)
    <2>1. t \notin Ints /\ TriValue(t, curr)' = TriValue(t, curr)
      BY <1>5, <1>6, SortAssumption
    <2>2. ChoiceFresh(t, TriValue(t, curr), curr, pick[t], userPick[t])
      BY <1>6, FreshNow
    <2>3. v \in Valuation /\ w \in Valuation
      BY <1>1, <2>1, TriIsVal DEF Valuation
    <2>4. v[t] = w[t] /\ \A u \in Operands(t) : v[u] = w[u]
      BY <1>1 DEF Valuation
    <2>5. userPick[t] \in Values(t) \cup {NoSym}
      BY <1>6 DEF TypeOK
    <2>6. P(v, userPick[t]) = P(w, userPick[t])
      BY <1>6, <2>3, <2>4, <2>5, PickKept
    <2>7. CASE userPick'[t] = userPick[t]
      <3>1. P(w, userPick'[t]) = P(v, userPick[t])
        BY <2>6, <2>7
      <3>2. ChoiceFresh(t, TriValue(t, curr), curr, pick[t], userPick[t]) <=>
              IF TriValue(t, curr) = yes
              THEN pick[t] = P(v, userPick[t])
                   /\ curr[t] = (IF P(v, userPick[t]) = NoSym THEN no ELSE yes)
              ELSE pick[t] = NoSym /\ curr[t] = TriValue(t, curr)
        BY Zenon DEF ChoiceFresh
      <3>3. ChoiceFresh(t, TriValue(t, curr)', curr', pick'[t], userPick'[t]) <=>
              IF TriValue(t, curr)' = yes
              THEN pick'[t] = P(w, userPick'[t])
                   /\ curr'[t] = (IF P(w, userPick'[t]) = NoSym THEN no ELSE yes)
              ELSE pick'[t] = NoSym /\ curr'[t] = TriValue(t, curr)'
        BY Zenon DEF ChoiceFresh
      <3> HIDE DEF P, v, w
      <3> QED
        BY <1>6, <2>1, <2>2, <3>1, <3>2, <3>3
    <2>8. CASE curr' = curr /\ userPick'[t] = pick[t]
      <3>1. ChoiceFresh(t, TriValue(t, curr), curr, pick[t], pick[t])
        <4>1. ASSUME TriValue(t, curr) = yes
              PROVE  P(v, pick[t]) = P(v, userPick[t])
          <5>1. pick[t] = P(v, userPick[t])
            BY <2>2, <4>1, Zenon DEF ChoiceFresh
          <5> QED
            BY <5>1, Zenon DEF Pick0
        <4> QED
          BY <2>2, <4>1, Zenon DEF ChoiceFresh
      <3> QED
        BY <1>6, <2>1, <2>8, <3>1
    <2> QED
      BY <1>6, <2>7, <2>8
  <1> QED
    BY <1>3, <1>4, <1>5, <1>6, FreshThen, FreshNow
-----------------------------------------------------------------------------
(* Every step keeps the cache true.                                          *)

\* Calculating a symbol, its operands being valid, makes it fresh and changes
\* nothing that is valid.
LEMMA CalcSymbolFresh ==
    ASSUME BoolMenu, CacheInv, TypeOK', NEW s \in Sym, CalcSymbol(s)
    PROVE  CacheInv'
  <1>1. /\ s \notin valid /\ s \notin Choice /\ Operands(s) \subseteq valid
        /\ valid' = valid \cup {s}
        /\ visible' = [visible EXCEPT ![s] = Visibility(s, curr)]
        /\ revDep' = [revDep EXCEPT ![s] = RevDep(s, curr)]
        /\ implied' = [implied EXCEPT ![s] = Implied(s, curr)]
        /\ curr' = [curr EXCEPT ![s] = Value(s, curr)]
        /\ def' = def /\ user' = user /\ userPick' = userPick /\ pick' = pick
        /\ disk' = disk
    BY DEF CalcSymbol, Store, Named, userVars, fileVars
  <1>2. Closed'
    BY <1>1 DEF CacheInv, Closed
  <1>3. ASSUME NEW t \in valid PROVE Fresh(t)'
    <2>1. t \in Sym /\ t # s /\ s \notin Operands(t) /\ Operands(t) \subseteq Sym /\ Fresh(t)
      BY <1>1, <1>3 DEF CacheInv, TypeOK, Closed, AllFresh
    <2>2. /\ visible'[t] = visible[t] /\ revDep'[t] = revDep[t] /\ implied'[t] = implied[t]
          /\ curr'[t] = curr[t] /\ \A u \in Operands(t) : curr'[u] = curr[u]
      BY <1>1, <2>1 DEF CacheInv, TypeOK, Valuation
    <2>3. TypeOK
      BY DEF CacheInv
    <2> QED
      BY <1>1, <2>1, <2>2, <2>3, Kept
  <1>4. Fresh(s)'
    <2>1. curr \in Valuation /\ curr' \in Valuation
      BY DEF CacheInv, TypeOK
    <2>2. \A u \in Uses(s) : curr'[u] = curr[u]
      BY <1>1, <2>1, OperandsOf, AttrAssumption DEF Valuation
    <2>3. /\ visible'[s] = Visibility(s, curr')
          /\ revDep'[s] = RevDep(s, curr')
          /\ implied'[s] = Implied(s, curr')
      <3>1. /\ visible'[s] = Visibility(s, curr)
            /\ revDep'[s] = RevDep(s, curr)
            /\ implied'[s] = Implied(s, curr)
        BY <1>1 DEF CacheInv, TypeOK
      <3> QED
        BY <2>1, <2>2, <3>1, SameFields
    <2>4. curr'[s] = IF s \in Ints THEN IntValue(s, curr) ELSE TriValue(s, curr)
      BY <1>1, <2>1 DEF Value, Valuation
    <2>5. \A d, u, k : /\ Tri0(s, curr', d, u, k) = Tri0(s, curr, d, u, k)
                       /\ Int0(s, curr', d, u) = Int0(s, curr, d, u)
      BY <2>1, <2>2, SameValuation
    <2>6. IntValue(s, curr)' = IntValue(s, curr) /\ TriValue(s, curr)' = TriValue(s, curr)
      <3>1. /\ IntValue(s, curr)' = Int0(s, curr', def[s], s \in user)
            /\ TriValue(s, curr)' = Tri0(s, curr', def[s], s \in user, pick[ChoiceOf(s)] = s)
        <4>1. def'[s] = def[s] /\ (s \in user') = (s \in user)
              /\ (pick'[ChoiceOf(s)] = s) = (pick[ChoiceOf(s)] = s)
          BY <1>1
        <4> QED
          BY <4>1, NowThen
      <3> QED
        BY <2>5, <3>1, NowThen
    <2> QED
      BY <1>1, <2>3, <2>4, <2>6, FreshThen
  <1>5. AllFresh'
    BY <1>1, <1>3, <1>4 DEF AllFresh
  <1>6. Ranges'
    BY <1>1 DEF CacheInv, Ranges, Within
  <1> QED
    BY <1>2, <1>5, <1>6 DEF CacheInv

\* Calculating a choice touches its values' visibility, but none of them is
\* valid before their choice is.
LEMMA CalcChoiceFresh ==
    ASSUME BoolMenu, CacheInv, TypeOK', NEW c \in Sym, CalcChoice(c)
    PROVE  CacheInv'
  <1> DEFINE tri  == TriValue(c, curr)
             v    == [curr EXCEPT ![c] = tri]
             vis  == [s \in Sym |->
                        IF s = c THEN Visibility(c, curr)
                        ELSE IF s \in Values(c) /\ tri = yes THEN Visibility(s, v)
                        ELSE visible[s]]
             p    == IF tri = yes THEN ChoicePick(c, vis, v) ELSE NoSym
             seen == {s \in Values(c) : vis[s] # no}
  <1>1. /\ c \in Choice /\ c \notin valid /\ Operands(c) \subseteq valid
        /\ valid' = valid \cup {c}
        /\ revDep' = [revDep EXCEPT ![c] = RevDep(c, curr)]
        /\ implied' = [implied EXCEPT ![c] = Implied(c, curr)]
        /\ def' = def /\ userPick' = userPick /\ disk' = disk
    BY DEF CalcChoice, Store, fileVars
  <1>2. /\ visible' = vis
        /\ curr' = [curr EXCEPT ![c] = IF tri = yes /\ p = NoSym THEN no ELSE tri]
        /\ pick' = [pick EXCEPT ![c] = p]
        /\ user' = IF tri = yes /\ ~ (seen \subseteq user) THEN user \ {c} ELSE user
    BY DEF CalcChoice
  <1>3. TypeOK /\ curr \in Valuation /\ curr' \in Valuation /\ pick \in [Choice -> Sym \cup {NoSym}]
    BY DEF CacheInv, TypeOK
  <1>4. c \notin Ints /\ tri \in Tri
    BY <1>1, <1>3, ValueTypes, SortAssumption DEF TypeOK
  <1>5. Closed'
    BY <1>1 DEF CacheInv, Closed
  <1>6. \A t : t # c => (t \in user' <=> t \in user)
    BY <1>2
  <1>7. ASSUME NEW t \in valid PROVE Fresh(t)'
    <2>1. t \in Sym /\ t # c /\ c \notin Operands(t) /\ Operands(t) \subseteq Sym /\ Fresh(t)
      BY <1>1, <1>7 DEF CacheInv, TypeOK, Closed, AllFresh
    <2>2. t \notin Values(c)
      BY <1>1, <2>1, ChoiceAssumption, OperandsOf
    <2>3. vis[t] = visible[t]
      BY <2>1, <2>2
    <2>4. /\ visible'[t] = visible[t] /\ revDep'[t] = revDep[t] /\ implied'[t] = implied[t]
      BY <1>1, <1>2, <2>1, <2>3 DEF TypeOK
    <2> HIDE DEF tri, v, vis, p, seen
    <2>5. curr'[t] = curr[t] /\ \A u \in Operands(t) : curr'[u] = curr[u]
      BY <1>2, <1>3, <2>1 DEF Valuation
    <2>6. t \in Ints => Int0(t, curr, def'[t], t \in user') = Int0(t, curr, def[t], t \in user)
      <3>1. (t \in user') = (t \in user)
        BY <1>6, <2>1
      <3> QED
        BY <1>1, <3>1
    <2>7. ASSUME t \notin Ints \cup Choice
          PROVE  Tri0(t, curr, def'[t], t \in user', pick'[ChoiceOf(t)] = t)
                   = Tri0(t, curr, def[t], t \in user, pick[ChoiceOf(t)] = t)
      <3>1. (t \in user') = (t \in user)
        BY <1>6, <2>1
      <3>2. CASE IsChoiceValue(t)
        <4>1. ChoiceOf(t) \in Choice /\ ChoiceOf(t) # c
          BY <2>1, <3>2, OperandsOf
        <4>2. pick'[ChoiceOf(t)] = pick[ChoiceOf(t)]
          BY <1>2, <1>3, <4>1
        <4> QED
          BY <1>1, <3>1, <4>2
      <3>3. CASE ~ IsChoiceValue(t)
        <4>1. \A d, u, k, l : Tri0(t, curr, d, u, k) = Tri0(t, curr, d, u, l)
          BY <3>3, Zenon DEF Tri0
        <4> QED
          BY <1>1, <3>1, <4>1
      <3> QED
        BY <3>2, <3>3
    <2>8. t \in Choice => pick'[t] = pick[t] /\ userPick'[t] = userPick[t]
      BY <1>1, <1>2, <1>3, <2>1
    <2> QED
      BY <1>3, <2>1, <2>4, <2>5, <2>6, <2>7, <2>8, Kept
  <1>8. Fresh(c)'
    <2>1. vis[c] = Visibility(c, curr)
      OBVIOUS
    <2>2. \A u \in Operands(c) : u \in Sym /\ curr'[u] = curr[u]
      BY <1>1, <1>2, <1>3, OperandsOf DEF TypeOK, Valuation
    <2>3. \A u \in Uses(c) : curr'[u] = curr[u]
      BY <2>2, OperandsOf
    <2>4. /\ visible'[c] = Visibility(c, curr')
          /\ revDep'[c] = RevDep(c, curr')
          /\ implied'[c] = Implied(c, curr')
      <3>1. /\ visible'[c] = Visibility(c, curr)
            /\ revDep'[c] = RevDep(c, curr)
            /\ implied'[c] = Implied(c, curr)
        BY <1>1, <1>2, <2>1 DEF TypeOK
      <3> QED
        BY <1>3, <2>3, <3>1, SameFields
    <2>5. TriValue(c, curr)' = tri
      <3>1. \A d, u, k : Tri0(c, curr', d, u, k) = Tri0(c, curr, d, u, k)
        BY <1>3, <2>3, SameValuation
      <3>2. def[c] \in Tri /\ def'[c] = def[c]
        BY <1>1, <1>4 DEF CacheInv, TypeOK, Valuation
      <3>3. \A u, w, k, l : Tri0(c, curr, def[c], u, k) = Tri0(c, curr, def[c], w, l)
        BY <1>1, <1>3, <3>2, ChoiceAnyUser
      <3>4. TriValue(c, curr)' = Tri0(c, curr, def[c], c \in user', pick'[ChoiceOf(c)] = c)
        BY <3>1, <3>2, NowThen
      <3>5. TriValue(c, curr) = Tri0(c, curr, def[c], c \in user, pick[ChoiceOf(c)] = c)
        BY NowThen
      <3> QED
        BY <3>3, <3>4, <3>5
    <2>6. /\ curr'[c] = (IF tri = yes /\ p = NoSym THEN no ELSE tri)
          /\ pick'[c] = p
      BY <1>1, <1>2, <1>3 DEF Valuation
    <2> DEFINE w == [curr' EXCEPT ![c] = yes]
               q == Pick0(c, [x \in Sym |-> Visibility(x, w)], w, userPick'[c])
    <2>7. ASSUME tri = yes PROVE p = q
      <3>1. v \in Valuation /\ w \in Valuation /\ v[c] = yes /\ w[c] = yes
        BY <1>1, <1>3, <1>4, <2>7, TriIsVal DEF Valuation
      <3>2. \A u \in Operands(c) : v[u] = w[u]
        BY <1>3, <2>2, OperandsOf DEF Valuation
      <3>3. userPick[c] \in Values(c) \cup {NoSym}
        BY <1>1, <1>3 DEF TypeOK
      <3>4. ASSUME NEW x \in Values(c) PROVE vis[x] = Visibility(x, w)
        <4>1. x \in Sym /\ x # c
          BY <1>1, ChoiceAssumption
        <4>2. vis[x] = Visibility(x, v)
          BY <2>7, <4>1
        <4>3. \A u \in Uses(x) : v[u] = w[u]
          BY <1>1, <3>1, <3>2, OperandsOf
        <4> QED
          BY <3>1, <4>1, <4>2, <4>3, SameFields
      <3>5. Attr(c, v).order = Attr(c, w).order
        BY <3>1, <3>2, OperandsOf, Local
      <3> DEFINE wis == [x \in Sym |-> Visibility(x, w)]
      <3>6. \A x \in Values(c) : vis[x] = wis[x]
        BY <1>1, <3>4, ChoiceAssumption
      <3>7. p = Pick0(c, vis, v, userPick[c])
        BY <2>7, Zenon DEF ChoicePick, Pick0
      <3>8. q = Pick0(c, wis, w, userPick[c])
        BY <1>1
      <3> HIDE DEF tri, v, w, vis, wis, p, q
      <3> QED
        BY <1>1, <3>1, <3>3, <3>5, <3>6, <3>7, <3>8, SamePick
    <2>8. ChoiceFresh(c, tri, curr', pick'[c], userPick'[c]) <=>
            IF tri = yes THEN pick'[c] = q /\ curr'[c] = (IF q = NoSym THEN no ELSE yes)
                         ELSE pick'[c] = NoSym /\ curr'[c] = tri
      BY Zenon DEF ChoiceFresh
    <2>9. ~ (tri = yes) => p = NoSym
      BY Zenon
    <2>10. ChoiceFresh(c, tri, curr', pick'[c], userPick'[c])
      <3> HIDE DEF tri, v, vis, p, seen, w, q
      <3> QED
        BY <2>6, <2>7, <2>8, <2>9
    <2> HIDE DEF tri, v, vis, p, seen, w, q
    <2> QED
      BY <1>1, <2>4, <2>5, <2>10, FreshThen
  <1>9. AllFresh'
    BY <1>1, <1>7, <1>8 DEF AllFresh
  <1>10. Ranges'
    BY <1>1, <1>4, <1>6 DEF CacheInv, Ranges, Within
  <1> QED
    BY <1>5, <1>9, <1>10 DEF CacheInv

\* A step that leaves alone what values are calculated from keeps all fresh.
LEMMA AllKept ==
    ASSUME BoolMenu, TypeOK, TypeOK', AllFresh, valid' = valid,
           def' = def, userPick' = userPick, curr' = curr, pick' = pick,
           visible' = visible, revDep' = revDep, implied' = implied,
           \A t \in valid :
              \/ (t \in user') = (t \in user) \/ Visibility(t, curr) = no
              \/ (t \in Ints /\ Int0(t, curr, def[t], TRUE) = Int0(t, curr, def[t], FALSE))
    PROVE  AllFresh'
  <1>1. ASSUME NEW t \in valid PROVE Fresh(t)'
    <2>1. t \in Sym /\ Fresh(t) /\ curr \in Valuation
      BY DEF TypeOK, AllFresh
    <2>2. /\ Int0(t, curr, def'[t], t \in user') = Int0(t, curr, def[t], t \in user)
          /\ t \notin Ints => Tri0(t, curr, def'[t], t \in user', pick'[ChoiceOf(t)] = t)
                             = Tri0(t, curr, def[t], t \in user, pick[ChoiceOf(t)] = t)
      <3>1. CASE (t \in user') = (t \in user)
        BY <3>1
      <3>2. CASE Visibility(t, curr) = no
        <4>1. \A d, e, u, w, k : /\ Tri0(t, curr, d, u, k) = Tri0(t, curr, e, w, k)
                                 /\ Int0(t, curr, d, u) = Int0(t, curr, e, w)
          BY <2>1, <3>2, HiddenAnyUser
        <4> QED
          BY <4>1
      <3>3. CASE t \in Ints /\ Int0(t, curr, def[t], TRUE) = Int0(t, curr, def[t], FALSE)
        <4>1. \A u \in BOOLEAN : Int0(t, curr, def[t], u) = Int0(t, curr, def[t], TRUE)
          BY <3>3
        <4>2. (t \in user) \in BOOLEAN /\ (t \in user') \in BOOLEAN
          OBVIOUS
        <4> QED
          BY <3>3, <4>1, <4>2
      <3> QED
        BY <3>1, <3>2, <3>3
    <2> QED
      BY <2>1, <2>2, Kept
  <1> QED
    BY <1>1 DEF AllFresh

\* A choice value that cannot be seen is `n'.
LEMMA HiddenValueIsNo ==
    ASSUME BoolMenu, NEW s \in Sym, IsChoiceValue(s), NEW v \in Valuation, Visibility(s, v) # yes
    PROVE  \A d, u, k : Tri0(s, v, d, u, k) = no
  <1>1. s \notin Choice /\ ChoiceOf(s) \in Choice /\ s \in Values(ChoiceOf(s))
    BY OperandsOf
  <1>2. Visibility(s, v) = no /\ RevDep(s, v) = no /\ Implied(s, v) = no
    BY TwoValued
  <1>3. Attr(s, v).dflt = no
    BY <1>1 DEF BoolMenu
  <1>4. \A d, u, k : Tri0(s, v, d, u, k) = Promote(Or3(Or3(no, no), no), TRUE)
    BY <1>1, <1>2, <1>3, TriTwo
  <1> QED
    BY <1>4 DEF Promote, Or3, no, mod, yes

\* A choice value that is `y' is the one its choice picked.
LEMMA ChosenIsPicked ==
    ASSUME BoolMenu, TypeOK, NEW s \in Sym, IsChoiceValue(s), Fresh(s), curr[s] = yes
    PROVE  pick[ChoiceOf(s)] = s
  <1>1. s \notin Choice /\ s \notin Ints /\ ChoiceOf(s) \in Choice /\ s \in Values(ChoiceOf(s))
    BY OperandsOf
  <1>2. curr \in Valuation
    BY DEF TypeOK
  <1>3. TriValue(s, curr) = yes
    BY <1>1, FreshNow
  <1>4. CASE Visibility(s, curr) = yes
    <2>1. ChosenValue(s) = yes
      BY <1>2, <1>3, <1>4, TwoValued
    <2>2. pick[ChoiceOf(s)] # s => ChosenValue(s) = no
      BY Zenon DEF ChosenValue
    <2> QED
      BY <2>1, <2>2 DEF yes, no
  <1>5. CASE Visibility(s, curr) # yes
    BY <1>2, <1>3, <1>5, HiddenValueIsNo, NowThen DEF no, yes
  <1> QED
    BY <1>4, <1>5

\* Values are numbers.
LEMMA ValIsInt == Val \subseteq Int
  BY SortAssumption DEF Val

\* conf_read finds no user's value outside its range.
LEMMA NothingOutside ==
    ASSUME TypeOK, Ranges
    PROVE  {s \in user \cap Ints : def[s] < Attr(s, curr).lo \/ def[s] > Attr(s, curr).hi} = {}
  <1> SUFFICES ASSUME NEW s \in user \cap Ints
               PROVE  ~ (def[s] < Attr(s, curr).lo \/ def[s] > Attr(s, curr).hi)
    OBVIOUS
  <1>1. s \in Sym /\ curr \in Valuation /\ def[s] \in Val
    BY SortAssumption DEF TypeOK, Valuation
  <1>2. Attr(s, curr).lo <= def[s] /\ def[s] <= Attr(s, curr).hi
    BY <1>1 DEF Ranges, Within
  <1>3. def[s] \in Int /\ Attr(s, curr).lo \in Int /\ Attr(s, curr).hi \in Int
    BY <1>1, AttrTypes, ValIsInt
  <1> QED BY <1>2, <1>3

\* Ranges are constants: what is within one now is always.
LEMMA WithinNow ==
    ASSUME FixedRanges, NEW s \in Ints, NEW v \in Valuation, NEW n,
           Attr(s, v).lo <= n /\ n <= Attr(s, v).hi
    PROVE  Within(s, n)
  BY DEF FixedRanges, Within

\* A calculated int is within its range.
LEMMA IntWithin ==
    ASSUME FixedRanges, TypeOK, NEW s \in Ints
    PROVE  Within(s, IntValue(s, curr))
  <1>1. s \in Sym /\ curr \in Valuation /\ def[s] \in Val
    BY SortAssumption DEF TypeOK, Valuation
  <1> DEFINE a == Attr(s, curr)
             n == IF Visibility(s, curr) # no /\ s \in user THEN def[s] ELSE a.dflt
  <1>2. a.lo \in Int /\ a.hi \in Int /\ a.lo <= a.hi /\ n \in Int
    <2>1. a.lo \in Val /\ a.hi \in Val /\ a.dflt \in Val
      BY <1>1, AttrTypes
    <2>2. a.lo <= a.hi
      BY <1>1, AttrAssumption
    <2> HIDE DEF a
    <2>3. n \in Val
      BY <1>1, <2>1
    <2> QED
      BY <2>1, <2>2, <2>3, ValIsInt
  <1>3. IntValue(s, curr) = IF n < a.lo THEN a.lo ELSE IF n > a.hi THEN a.hi ELSE n
    BY DEF IntValue, Clamp
  <1> HIDE DEF n
  <1>4. a.lo <= IntValue(s, curr) /\ IntValue(s, curr) <= a.hi
    BY <1>2, <1>3
  <1> QED
    BY <1>1, <1>4, WithinNow

\* What a request leaves alone: other values, other symbols that are in no
\* choice, and the picks of other choices.
LEMMA PutOthers ==
    ASSUME TypeOK, NEW s \in Sym, NEW t, PutTristate(s, t), NEW x \in Sym, x # s
    PROVE  /\ def'[x] = def[x]
           /\ x \notin Choice /\ ~ IsChoiceValue(x) => (x \in user') = (x \in user)
           /\ x \in Choice =>
                \/ userPick'[x] = userPick[x]
                \/ (IsChoiceValue(s) /\ t = yes /\ x = ChoiceOf(s) /\ userPick'[x] = s)
  <1>1. def'[x] = def[x]
    BY DEF PutTristate, TypeOK, Valuation
  <1>2. CASE IsChoiceValue(s) /\ t = yes
    <2>1. ChoiceOf(s) \in Choice
      BY <1>2, OperandsOf
    <2>2. userPick' = [userPick EXCEPT ![ChoiceOf(s)] = s]
      BY <1>2, Zenon DEF PutTristate
    <2>3. user' = user \cup {s, ChoiceOf(s)} \cup {y \in Values(ChoiceOf(s)) : visible[y] # no}
      BY <1>2, Zenon DEF PutTristate
    <2>4. ASSUME x \notin Choice, ~ IsChoiceValue(x) PROVE (x \in user') = (x \in user)
      <3>1. x \notin Values(ChoiceOf(s)) /\ x # ChoiceOf(s)
        BY <2>1, <2>4 DEF IsChoiceValue
      <3> QED BY <2>3, <3>1
    <2>5. ASSUME x \in Choice
          PROVE  \/ userPick'[x] = userPick[x]
                 \/ (x = ChoiceOf(s) /\ userPick'[x] = s)
      BY <2>2, <2>5 DEF TypeOK
    <2> QED BY <1>1, <1>2, <2>4, <2>5
  <1>3. CASE ~ (IsChoiceValue(s) /\ t = yes)
    <2>1. user' = user \cup {s}
      BY <1>3, Zenon DEF PutTristate
    <2>2. userPick' = userPick
      BY <1>3, Zenon DEF PutTristate
    <2> QED BY <1>1, <2>1, <2>2
  <1> QED BY <1>2, <1>3

\* A tristate that is set, and a choice made, leave the ranges alone.
LEMMA PutRanges ==
    ASSUME TypeOK, Ranges, NEW s \in Sym \ Ints, NEW t, PutTristate(s, t)
    PROVE  Ranges'
  <1>1. disk' = disk
    BY DEF PutTristate
  <1>2. ASSUME NEW x \in Ints
        PROVE  def'[x] = def[x] /\ (x \in user' <=> x \in user)
    <2>1. x \in Sym \ Choice /\ x # s /\ ~ IsChoiceValue(x)
      BY SortAssumption, OperandsOf
    <2> QED
      BY <2>1, PutOthers
  <1> QED
    BY <1>1, <1>2 DEF Ranges, Within

\* An accepted request drops every calculated value, unless it asks for the
\* value that is there.
LEMMA PutFresh ==
    ASSUME BoolMenu, CacheInv, TypeOK', NEW s \in valid \ Ints, NEW t \in Tri, PutTristate(s, t)
    PROVE  CacheInv'
  <1>1. /\ TypeOK /\ s \in Sym /\ curr \in Valuation /\ Fresh(s)
        /\ curr' = curr /\ pick' = pick /\ visible' = visible
        /\ revDep' = revDep /\ implied' = implied /\ disk' = disk
        /\ def' = [def EXCEPT ![s] = t] /\ s \in user'
    BY DEF CacheInv, AllFresh, TypeOK, PutTristate, cacheVars
  <1>2. \A x \in Sym : x # s => def'[x] = def[x]
    BY <1>1 DEF TypeOK, Valuation
  <1>3. def'[s] = t
    BY <1>1 DEF TypeOK, Valuation
  <1>4. ASSUME NEW x \in Sym \ Choice, x # s, ~ IsChoiceValue(x)
        PROVE  (x \in user') = (x \in user)
    BY <1>1, <1>4, PutOthers
  <1>5. Ranges'
    BY <1>1, PutRanges DEF CacheInv
  <1>6. CASE curr[s] # t
    <2>1. valid' = {}
      BY <1>6 DEF PutTristate, ClearAllValid
    <2> QED
      BY <1>5, <2>1 DEF CacheInv, Closed, AllFresh
  <1>7. CASE curr[s] = t
    <2>1. valid' = valid
      BY <1>7 DEF PutTristate
    <2>2. ASSUME NEW x \in valid PROVE Fresh(x)'
      <3>1. x \in Sym /\ Fresh(x)
        BY <1>1 DEF TypeOK, CacheInv, AllFresh
      <3>2. x \in Ints => Int0(x, curr, def'[x], x \in user') = Int0(x, curr, def[x], x \in user)
        <4> SUFFICES ASSUME x \in Ints
                     PROVE  Int0(x, curr, def'[x], x \in user') = Int0(x, curr, def[x], x \in user)
          OBVIOUS
        <4>1. x \in Sym \ Choice /\ x # s /\ ~ IsChoiceValue(x)
          BY SortAssumption, OperandsOf
        <4>2. def'[x] = def[x] /\ ((x \in user') = (x \in user))
          BY <1>2, <1>4, <4>1
        <4> QED
          BY <4>2
      <3>3. ASSUME x \notin Ints \cup Choice
            PROVE  Tri0(x, curr, def'[x], x \in user', pick'[ChoiceOf(x)] = x)
                     = Tri0(x, curr, def[x], x \in user, pick[ChoiceOf(x)] = x)
        <4>1. CASE IsChoiceValue(x)
          <5>1. \A d, e, u, w, k : Tri0(x, curr, d, u, k) = Tri0(x, curr, e, w, k)
            BY <1>1, <3>1, <4>1, ChoiceValueAnyUser
          <5> QED
            BY <1>1, <5>1
        <4>2. CASE ~ IsChoiceValue(x) /\ x # s
          <5>1. def'[x] = def[x] /\ ((x \in user') = (x \in user))
            BY <1>2, <1>4, <3>1, <3>3, <4>2
          <5> QED
            BY <1>1, <5>1
        <4>3. CASE x = s
          <5>1. TriValue(s, curr) = t
            BY <1>1, <1>7, <3>3, <4>3, FreshNow
          <5>2. Tri0(s, curr, def[s], s \in user, pick[ChoiceOf(s)] = s) = t
            BY <1>1, <5>1, NowThen
          <5>3. def[s] \in Tri
            BY <1>1 DEF TypeOK, Valuation
          <5>4. \A A, y : y \in A => Tri0(s, curr, t, y \in A, pick[ChoiceOf(s)] = s) = t
            <6> DEFINE u == s \in user
                       k == pick[ChoiceOf(s)] = s
            <6>1. s \notin Ints \cup Choice /\ Tri0(s, curr, def[s], u, k) = t
              BY <3>3, <4>3, <5>2
            <6> HIDE DEF u, k
            <6>2. \A A, y : y \in A => Tri0(s, curr, t, y \in A, k) = t
              BY <1>1, <5>3, <6>1, SameRequest
            <6> QED
              BY <6>2, Zenon DEF k
          <5>5. Tri0(s, curr, t, s \in user', pick[ChoiceOf(s)] = s) = t
            BY <1>1, <5>4
          <5> QED
            BY <1>1, <1>3, <4>3, <5>2, <5>5
        <4> QED
          BY <4>1, <4>2, <4>3
      <3>4. x \in Choice => /\ pick'[x] = pick[x]
                            /\ \/ userPick'[x] = userPick[x]
                               \/ curr' = curr /\ userPick'[x] = pick[x]
        <4> SUFFICES ASSUME x \in Choice, userPick'[x] # userPick[x]
                     PROVE  userPick'[x] = pick[x]
          BY <1>1
        <4>1. IsChoiceValue(s) /\ t = yes
          BY Zenon DEF PutTristate
        <4>2. userPick' = [userPick EXCEPT ![ChoiceOf(s)] = s]
          BY <4>1 DEF PutTristate
        <4>3. x = ChoiceOf(s) /\ userPick'[x] = s
          BY <1>1, <4>2 DEF TypeOK
        <4> QED
          BY <1>1, <1>7, <4>1, <4>3, ChosenIsPicked
      <3> QED
        BY <1>1, <3>1, <3>2, <3>3, <3>4, Kept
    <2>3. Closed' /\ AllFresh'
      BY <2>1, <2>2 DEF CacheInv, Closed, AllFresh
    <2> QED
      BY <1>5, <2>3 DEF CacheInv
  <1> QED
    BY <1>6, <1>7

\* The request for the string that is kept of an int which does not count as
\* set asks for its default.
LEMMA KeptString ==
    ASSUME TypeOK, StringsKept, NEW s \in Ints \ user, Visibility(s, curr) # no,
           Attr(s, curr).lo <= def[s], def[s] <= Attr(s, curr).hi
    PROVE  Int0(s, curr, def[s], TRUE) = Int0(s, curr, def[s], FALSE)
  <1> DEFINE a == Attr(s, curr)
  <1>1. s \in Sym /\ curr \in Valuation /\ def[s] \in Val
    BY SortAssumption DEF TypeOK, Valuation
  <1>2. a.lo \in Int /\ a.hi \in Int /\ no < a.lo /\ def[s] \in Int
    BY <1>1, AttrTypes, AttrAssumption, ValIsInt
  <1>3. IntDefault(s, curr) = def[s]
    <2>1. def[s] # no
      BY <1>2 DEF no
    <2> QED
      BY <1>1, <2>1 DEF StringsKept
  <1>4. Int0(s, curr, def[s], FALSE) = def[s]
    BY <1>3, Zenon DEF Int0, IntDefault, Clamp
  <1>5. Int0(s, curr, def[s], TRUE) = IF def[s] < a.lo THEN a.lo
                                      ELSE IF def[s] > a.hi THEN a.hi ELSE def[s]
    BY Zenon DEF Int0
  <1>6. (IF def[s] < a.lo THEN a.lo ELSE IF def[s] > a.hi THEN a.hi ELSE def[s]) = def[s]
    BY <1>2
  <1> QED
    BY <1>4, <1>5, <1>6, Zenon

\* The requests.
LEMMA EditFresh ==
    ASSUME BoolMenu, CacheInv, StringsKept, TypeOK', Edit
    PROVE  CacheInv'
  <1>1. TypeOK /\ valid \subseteq Sym
    BY DEF CacheInv, TypeOK
  <1>2. PICK s \in Sym : \/ \E t \in Tri : SetTristate(s, t)
                         \/ Toggle(s)
                         \/ \E n \in Val : SetString(s, n)
    BY DEF Edit
  <1>3. ASSUME NEW t \in Tri, SetTristate(s, t) PROVE CacheInv'
    BY <1>3, PutFresh DEF SetTristate
  <1>4. CASE Toggle(s)
    <2>1. s \in valid \ Ints
      BY <1>4 DEF Toggle
    <2>2. PICK t \in Tri : PutTristate(s, t)
      BY <1>1, <1>4, ToggleValue
    <2> QED
      BY <2>1, <2>2, PutFresh
  <1>5. ASSUME NEW n \in Val, SetString(s, n) PROVE CacheInv'
    <2>1. /\ s \in Ints /\ s \in valid /\ Attr(s, curr).lo <= n /\ n <= Attr(s, curr).hi
          /\ def' = [def EXCEPT ![s] = n] /\ user' = user \cup {s}
          /\ userPick' = userPick /\ disk' = disk
          /\ curr' = curr /\ pick' = pick /\ visible' = visible
          /\ revDep' = revDep /\ implied' = implied
          /\ valid' = {} \/ (valid' = valid /\ def[s] = n)
      BY <1>5, Zenon DEF SetString, ClearAllValid, cacheVars
    <2>2. Ranges'
      <3>1. Within(s, n)
        BY <1>1, <2>1, WithinNow DEF BoolMenu, TypeOK
      <3> QED
        BY <1>1, <2>1, <3>1, SortAssumption DEF CacheInv, Ranges, Within, TypeOK, Valuation
    <2>3. CASE valid' = {}
      BY <2>2, <2>3 DEF CacheInv, Closed, AllFresh
    <2>4. CASE valid' = valid /\ def[s] = n
      <3>1. def' = def
        BY <1>1, <2>1, <2>4 DEF TypeOK, Valuation
      <3>3. ASSUME NEW t \in valid
            PROVE  \/ (t \in user') = (t \in user) \/ Visibility(t, curr) = no
                   \/ (t \in Ints /\ Int0(t, curr, def[t], TRUE) = Int0(t, curr, def[t], FALSE))
        <4>1. t # s \/ s \in user => (t \in user') = (t \in user)
          BY <2>1
        <4>2. CASE t = s /\ s \notin user /\ Visibility(s, curr) # no
          BY <1>1, <2>1, <2>4, <4>2, KeptString
        <4> QED
          BY <4>1, <4>2, Zenon
      <3>2. Closed' /\ AllFresh'
        BY <1>1, <2>1, <2>4, <3>1, <3>3, AllKept DEF CacheInv, Closed
      <3> QED
        BY <2>2, <3>2 DEF CacheInv
    <2> QED
      BY <2>1, <2>3, <2>4
  <1> QED
    BY <1>2, <1>3, <1>4, <1>5

\* conf_read and conf_write: a file drops every calculated value, and keeps
\* to the ranges.
LEMMA FileFresh ==
    ASSUME BoolMenu, CacheInv, TypeOK',
           ReadAny \/ ReadMissing \/ FinishRead \/ Write \/ FinishWrite \/ FailWrite
    PROVE  CacheInv'
  <1>1. TypeOK /\ curr \in Valuation
    BY DEF CacheInv, TypeOK
  <1>2. \A s \in Ints : s \in Sym /\ s \in Named /\ s \notin Choice
    BY SortAssumption DEF Named
  <1>3. CASE ReadAny
    <2>1. PICK f \in Files \cup {disk} : Read(f)
      BY <1>3 DEF ReadAny
    <2>2. disk' = f /\ def' = DefOf(f) /\ user' = UserOf(f) /\ valid' = {}
      BY <2>1 DEF Read
    <2>3. \A s \in Ints : f[s] = Unset \/ Within(s, f[s])
      <3>1. CASE f \in Files
        BY <3>1 DEF BoolMenu, FixedRanges, Within
      <3>2. CASE f = disk
        BY <3>2 DEF CacheInv, Ranges
      <3> QED
        BY <3>1, <3>2
    <2>4. \A s \in Ints : s \in UserOf(f) => f[s] # Unset /\ DefOf(f)[s] = f[s]
      BY <1>2 DEF UserOf, DefOf
    <2>5. Ranges'
      BY <2>2, <2>3, <2>4 DEF Ranges, Within
    <2> QED
      BY <2>2, <2>5 DEF CacheInv, Closed, AllFresh
  <1>4. CASE FinishRead
    <2> DEFINE hidden  == {s \in Sym : visible[s] = no /\ ~ IsChoiceValue(s)}
               outside == {s \in user \cap Ints :
                             def[s] < Attr(s, curr).lo \/ def[s] > Attr(s, curr).hi}
    <2>1. /\ user' = (IF Unsaved THEN user ELSE user \ hidden) \ outside
          /\ valid' = valid \ outside
          /\ def' = def /\ userPick' = userPick /\ disk' = disk
          /\ curr' = curr /\ pick' = pick /\ visible' = visible
          /\ revDep' = revDep /\ implied' = implied
      BY <1>4 DEF FinishRead, cacheVars
    <2>2. outside = {}
      BY NothingOutside DEF CacheInv
    <2>3. valid' = valid /\ user' \subseteq user /\ \A t \in user : t \in user' \/ t \in hidden
      BY <2>1, <2>2
    <2>4. ASSUME NEW t \in valid
          PROVE  (t \in user') = (t \in user) \/ Visibility(t, curr) = no
      <3>1. t \in Sym /\ visible[t] = Visibility(t, curr)
        BY <1>1, FreshNow DEF CacheInv, AllFresh, TypeOK
      <3> QED
        BY <2>3, <3>1
    <2> HIDE DEF hidden, outside
    <2>5. AllFresh'
      BY <1>1, <2>1, <2>3, <2>4, AllKept DEF CacheInv
    <2>6. Ranges'
      BY <2>1, <2>3 DEF CacheInv, Ranges, Within
    <2>7. Closed'
      BY <2>3 DEF CacheInv, Closed
    <2> QED
      BY <2>5, <2>6, <2>7 DEF CacheInv
  <1>5. CASE ReadMissing \/ Write \/ FinishWrite \/ FailWrite
    <2>1. /\ valid' = {} \/ valid' = valid
          /\ def' = def /\ user' = user /\ userPick' = userPick
          /\ curr' = curr /\ pick' = pick /\ visible' = visible
          /\ revDep' = revDep /\ implied' = implied
      BY <1>5, Zenon DEF ReadMissing, Write, FinishWrite, FailWrite, ClearAllValid, userVars, cacheVars
    <2>2. ASSUME NEW s \in Ints PROVE disk'[s] = Unset \/ Within(s, disk'[s])
      <3>1. CASE FinishWrite
        <4>1. s \in valid /\ disk'[s] \in {curr[s], Unset}
          BY <1>2, <3>1 DEF FinishWrite, Content
        <4>2. curr[s] = IntValue(s, curr)
          BY <1>2, <4>1, FreshNow DEF CacheInv, AllFresh
        <4>3. Within(s, IntValue(s, curr))
          BY <1>1, IntWithin DEF BoolMenu
        <4> QED
          BY <4>1, <4>2, <4>3 DEF Within
      <3>2. CASE disk' = disk
        BY <3>2 DEF CacheInv, Ranges
      <3> QED
        BY <1>5, <3>1, <3>2 DEF ReadMissing, Write, FailWrite, fileVars
    <2>3. Ranges'
      BY <2>1, <2>2 DEF CacheInv, Ranges, Within
    <2>4. Closed' /\ AllFresh'
      <3>1. CASE valid' = {}
        BY <3>1 DEF Closed, AllFresh
      <3>2. CASE valid' = valid
        BY <1>1, <2>1, <3>2, AllKept DEF CacheInv, Closed
      <3> QED
        BY <2>1, <3>1, <3>2
    <2> QED
      BY <2>3, <2>4 DEF CacheInv
  <1> QED
    BY <1>3, <1>4, <1>5
-----------------------------------------------------------------------------
(* The theorem.                                                              *)

\* Nothing is valid to begin with.
LEMMA InitFresh == Init => CacheInv
  <1> SUFFICES ASSUME Init PROVE CacheInv
    OBVIOUS
  <1>1. TypeOK
    BY InitType
  <1>2. user = {} /\ valid = {} /\ disk = [s \in Named |-> Unset]
    BY DEF Init
  <1>3. Ranges
    BY <1>2, SortAssumption DEF Ranges, Named
  <1> QED
    BY <1>1, <1>2, <1>3 DEF CacheInv, Closed, AllFresh

\* The invariant is inductive: the requests need more than it says.
LEMMA QuietFresh ==
    ASSUME BoolMenu, CacheInv,
           \/ Calc \/ UNCHANGED vars
           \/ ReadAny \/ ReadMissing \/ FinishRead \/ Write \/ FinishWrite \/ FailWrite
    PROVE  CacheInv'
  <1>1. TypeOK'
    BY TypeStep DEF CacheInv, Next
  <1>2. CASE Calc
    BY <1>1, <1>2, CalcSymbolFresh, CalcChoiceFresh DEF Calc
  <1>3. CASE ReadAny \/ ReadMissing \/ FinishRead \/ Write \/ FinishWrite \/ FailWrite
    BY <1>1, <1>3, FileFresh
  <1>4. CASE UNCHANGED vars
    <2>1. /\ valid' = valid /\ def' = def /\ user' = user /\ userPick' = userPick
          /\ curr' = curr /\ pick' = pick /\ visible' = visible
          /\ revDep' = revDep /\ implied' = implied /\ disk' = disk
      BY <1>4 DEF vars, userVars, cacheVars, fileVars
    <2>2. AllFresh'
      BY <1>1, <2>1, AllKept DEF CacheInv
    <2> QED
      BY <1>1, <2>1, <2>2 DEF CacheInv, Closed, Ranges, Within
  <1> QED
    BY <1>2, <1>3, <1>4

LEMMA StepFresh ==
    ASSUME BoolMenu, CacheInv, StringsKept, [Next]_vars
    PROVE  CacheInv'
  <1>1. TypeOK'
    BY TypeStep DEF CacheInv
  <1> QED
    BY <1>1, EditFresh, QuietFresh DEF Next

\* An int without a line in the file has no string.
LEMMA NoString ==
    ASSUME NEW f, def' = DefOf(f), user' = UserOf(f)
    PROVE  StringsKept'
  <1> SUFFICES ASSUME NEW s \in Ints, s \notin UserOf(f) PROVE DefOf(f)[s] = no
    BY DEF StringsKept
  <1>1. s \in Sym /\ s \notin Choice /\ s \in Named
    BY SortAssumption DEF Named
  <1> QED
    BY <1>1 DEF UserOf, DefOf

\* A step that lets the ints keep their strings, and those that count as set.
LEMMA SameStrings ==
    ASSUME StringsKept, \A s \in Ints : def'[s] = def[s] /\ (s \in user => s \in user')
    PROVE  StringsKept'
  BY DEF StringsKept

\* The flag of an int is dropped while it is hidden and has its default.
LEMMA DroppedFlag ==
    ASSUME BoolMenu, CacheInv, StringsKept, FinishRead
    PROVE  StringsKept'
  <1> DEFINE hidden  == {s \in Sym : visible[s] = no /\ ~ IsChoiceValue(s)}
             outside == {s \in user \cap Ints :
                           def[s] < Attr(s, curr).lo \/ def[s] > Attr(s, curr).hi}
  <1>1. /\ user' = (IF Unsaved THEN user ELSE user \ hidden) \ outside
        /\ def' = def /\ valid = Sym
    BY DEF FinishRead
  <1>2. outside = {}
    BY NothingOutside DEF CacheInv
  <1> HIDE DEF outside
  <1> SUFFICES ASSUME NEW s \in Ints, s \notin user'
               PROVE  def[s] = no \/ \A w \in Valuation :
                                        Visibility(s, w) # no => IntDefault(s, w) = def[s]
    BY <1>1 DEF StringsKept
  <1>3. CASE s \notin user
    BY <1>3 DEF StringsKept
  <1>4. CASE s \in user
    <2>1. ~ Unsaved /\ visible[s] = no
      BY <1>1, <1>2, <1>4
    <2>2. s \in Sym /\ s \in Named /\ s \notin Choice /\ curr \in Valuation
      BY SortAssumption DEF Named, CacheInv, TypeOK
    <2>3. def[s] = curr[s]
      BY <1>4, <2>1, <2>2 DEF Unsaved
    <2>4. Visibility(s, curr) = no /\ curr[s] = IntValue(s, curr)
      BY <1>1, <2>1, <2>2, FreshNow DEF CacheInv, AllFresh
    <2>5. IntDefault(s, curr) = def[s]
      BY <2>3, <2>4, Zenon DEF IntValue, IntDefault
    <2> QED
      BY <2>2, <2>4, <2>5 DEF BoolMenu, SteadyDefaults
  <1> QED
    BY <1>3, <1>4

LEMMA StringStep ==
    ASSUME BoolMenu, CacheInv, StringsKept, [Next]_vars
    PROVE  StringsKept'
  <1>1. TypeOK
    BY DEF CacheInv
  <1>2. \A s \in Ints : s \in Sym /\ s \in Named /\ s \notin Choice /\ ~ IsChoiceValue(s)
    BY SortAssumption, OperandsOf DEF Named
  <1>3. CASE Calc
    <2>1. PICK c \in Sym : CalcSymbol(c) \/ CalcChoice(c)
      BY <1>3 DEF Calc
    <2>2. def' = def /\ (user' = user \/ (c \in Choice /\ user' = user \ {c}))
      BY <2>1 DEF CalcSymbol, CalcChoice, userVars
    <2> QED
      BY <1>2, <2>2, SameStrings
  <1>4. CASE Edit
    <2>1. PICK s \in Sym : \/ \E t \in Tri : SetTristate(s, t)
                           \/ Toggle(s)
                           \/ \E n \in Val : SetString(s, n)
      BY <1>4 DEF Edit
    <2>2. ASSUME NEW t, s \in Sym \ Ints, PutTristate(s, t) PROVE StringsKept'
      <3>1. \A x \in Ints : def'[x] = def[x] /\ ((x \in user') = (x \in user))
        BY <1>1, <1>2, <2>2, PutOthers
      <3> QED
        BY <3>1, SameStrings
    <2>3. ASSUME NEW n \in Val, SetString(s, n) PROVE StringsKept'
      <3>1. def' = [def EXCEPT ![s] = n] /\ user' = user \cup {s}
        BY <2>3 DEF SetString
      <3> QED
        BY <1>1, <3>1 DEF StringsKept, TypeOK, Valuation
    <2>4. CASE Toggle(s)
      BY <2>2, <2>4, Zenon DEF Toggle
    <2> QED
      BY <2>1, <2>2, <2>3, <2>4 DEF SetTristate
  <1>5. CASE ReadAny
    <2>1. PICK f : def' = DefOf(f) /\ user' = UserOf(f)
      BY <1>5 DEF ReadAny, Read
    <2> QED
      BY <2>1, NoString
  <1>6. CASE FinishRead
    BY <1>6, DroppedFlag
  <1>7. CASE ReadMissing \/ Write \/ FinishWrite \/ FailWrite \/ UNCHANGED vars
    <2>1. def' = def /\ user' = user
      BY <1>7 DEF ReadMissing, Write, FinishWrite, FailWrite, vars, userVars
    <2> QED
      BY <2>1, SameStrings
  <1> QED
    BY <1>3, <1>4, <1>5, <1>6, <1>7 DEF Next

\* The cache and the strings, from the start and through every step.
LEMMA CacheKept ==
    ASSUME BoolMenu
    PROVE  /\ Init => CacheInv /\ StringsKept
           /\ CacheInv /\ StringsKept /\ [Next]_vars => (CacheInv /\ StringsKept)'
  <1>1. Init => CacheInv /\ StringsKept
    BY InitFresh, SortAssumption DEF Init, StringsKept
  <1> QED
    BY <1>1, StepFresh, StringStep

\* On a menu without tristates whose ranges are constants and whose ints have
\* steady defaults, whatever the user, the menus and the files do, a symbol that carries SYMBOL_VALID has the
\* value that calculating it again would give.
THEOREM ValidIsUpToDate == ASSUME BoolMenu PROVE Spec => []UpToDate
  <1>1. Init => CacheInv /\ StringsKept
    BY CacheKept
  <1>2. CacheInv /\ StringsKept /\ [Next]_vars => (CacheInv /\ StringsKept)'
    BY CacheKept
  <1>3. CacheInv => UpToDate
    BY DEF CacheInv, AllFresh, UpToDate
  <1> QED
    BY <1>1, <1>2, <1>3, PTL DEF Spec
-----------------------------------------------------------------------------
(* Between what selects a symbol and what it can be seen at.                 *)

\* A calculated value lies there.
LEMMA ValueBounds ==
    ASSUME DefaultsSeen, TypeOK, NEW s \in Named \ Ints, ~ IsChoiceValue(s)
    PROVE  /\ RevDep(s, curr) <= Value(s, curr)
           /\ Visibility(s, curr) # no =>
                Value(s, curr) <= Or3(Or3(Visibility(s, curr), RevDep(s, curr)), Implied(s, curr))
  <1>1. s \in Sym /\ s \notin Choice /\ curr \in Valuation /\ def[s] \in Tri
    BY DEF Named, TypeOK, Valuation
  <1>2. PICK vis \in Tri, rev \in Tri, imp \in Tri :
          vis = Visibility(s, curr) /\ rev = RevDep(s, curr) /\ imp = Implied(s, curr)
    BY <1>1, VisibilityTypes
  <1>3. PICK own \in Tri : /\ own = OwnValue(s, curr)
                           /\ vis # no => own <= vis \/ own <= imp
    <2>1. CASE vis # no /\ s \in user
      <3>1. OwnValue(s, curr) = And3(def[s], vis)
        BY <1>2, <2>1, Zenon DEF OwnValue
      <3>2. And3(def[s], vis) \in Tri /\ And3(def[s], vis) <= vis
        BY <1>1 DEF And3, Tri, no, mod, yes
      <3> QED BY <3>1, <3>2
    <2>2. CASE ~ (vis # no /\ s \in user)
      <3>1. OwnValue(s, curr) = Or3(Attr(s, curr).dflt, imp)
        BY <1>1, <1>2, <2>2, Zenon DEF OwnValue
      <3>2. Attr(s, curr).dflt \in Tri /\ (vis # no => Attr(s, curr).dflt <= vis)
        BY <1>1, <1>2, AttrTypes DEF DefaultsSeen
      <3>3. /\ Or3(Attr(s, curr).dflt, imp) \in Tri
            /\ vis # no => Or3(Attr(s, curr).dflt, imp) <= vis \/ Or3(Attr(s, curr).dflt, imp) <= imp
        BY <3>2 DEF Or3, Tri, no, mod, yes
      <3> QED BY <3>1, <3>3
    <2> QED BY <2>1, <2>2
  <1>4. Value(s, curr) = Promote(Or3(own, rev), ~ IsTristate(s, vis, curr) \/ imp = yes)
    BY <1>2, <1>3, Zenon DEF Value, TriValue
  <1>5. IsTristate(s, vis, curr) \/ vis # mod
    <2>1. CASE s \in Tristate /\ ModulesVal(curr) # no
      BY <2>1 DEF IsTristate
    <2>2. CASE ~ (s \in Tristate /\ ModulesVal(curr) # no)
      <3>1. \A x : Promote(x, TRUE) # mod
        BY DEF Promote, mod, yes
      <3>2. vis = Promote(Attr(s, curr).prompt, TRUE)
        <4>1. s \notin Tristate \/ ModulesVal(curr) = no
          BY <2>2
        <4> QED BY <1>2, <4>1 DEF Visibility, Promote
      <3> QED BY <3>1, <3>2
    <2> QED BY <2>1, <2>2
  <1>6. CASE IsTristate(s, vis, curr) /\ imp # yes
    <2>1. Value(s, curr) = Or3(own, rev)
      BY <1>4, <1>6 DEF Promote
    <2> QED BY <1>2, <1>3, <2>1 DEF Or3, Tri, no, mod, yes
  <1>7. CASE ~ (IsTristate(s, vis, curr) /\ imp # yes)
    <2>1. Value(s, curr) = Promote(Or3(own, rev), TRUE)
      BY <1>4, <1>7 DEF Promote
    <2>2. vis # no => vis = yes \/ imp = yes
      BY <1>5, <1>7 DEF Tri
    <2> QED BY <1>2, <2>1, <2>2 DEF Or3, Promote, Tri, no, mod, yes
  <1> QED BY <1>6, <1>7

\* What is valid lies there.
BoundInv ==
    \A s \in valid \ (Choice \cup Ints) : ~ IsChoiceValue(s) =>
        /\ revDep[s] <= curr[s]
        /\ visible[s] # no => curr[s] <= Or3(Or3(visible[s], revDep[s]), implied[s])

LEMMA BoundStep ==
    ASSUME DefaultsSeen, TypeOK, BoundInv, [Next]_vars
    PROVE  BoundInv'
  <1>1. ASSUME NEW s \in Sym, CalcSymbol(s) PROVE BoundInv'
    <2>1. /\ s \in Named /\ valid' = valid \cup {s}
          /\ visible' = [visible EXCEPT ![s] = Visibility(s, curr)]
          /\ revDep' = [revDep EXCEPT ![s] = RevDep(s, curr)]
          /\ implied' = [implied EXCEPT ![s] = Implied(s, curr)]
          /\ curr' = [curr EXCEPT ![s] = Value(s, curr)]
      BY <1>1 DEF CalcSymbol, Store
    <2>2. ASSUME NEW t \in Sym, t # s
          PROVE  /\ visible'[t] = visible[t] /\ revDep'[t] = revDep[t]
                 /\ implied'[t] = implied[t] /\ curr'[t] = curr[t]
      BY <2>1, <2>2 DEF TypeOK, Valuation
    <2>3. /\ visible'[s] = Visibility(s, curr) /\ revDep'[s] = RevDep(s, curr)
          /\ implied'[s] = Implied(s, curr) /\ curr'[s] = Value(s, curr)
      BY <2>1 DEF TypeOK, Valuation
    <2> SUFFICES ASSUME NEW t \in valid' \ (Choice \cup Ints), ~ IsChoiceValue(t)
                 PROVE  /\ revDep'[t] <= curr'[t]
                        /\ visible'[t] # no =>
                             curr'[t] <= Or3(Or3(visible'[t], revDep'[t]), implied'[t])
      BY DEF BoundInv
    <2>4. CASE t = s
      BY <2>1, <2>3, <2>4, ValueBounds
    <2>5. CASE t # s
      <3>1. t \in valid \ (Choice \cup Ints) /\ t \in Sym
        BY <2>1, <2>5 DEF TypeOK
      <3> QED BY <2>2, <2>5, <3>1 DEF BoundInv
    <2> QED BY <2>4, <2>5
  <1>2. ASSUME NEW c \in Sym, CalcChoice(c) PROVE BoundInv'
    <2>1. /\ c \in Choice /\ valid' = valid \cup {c}
          /\ revDep' = [revDep EXCEPT ![c] = RevDep(c, curr)]
          /\ implied' = [implied EXCEPT ![c] = Implied(c, curr)]
          /\ \E x : curr' = [curr EXCEPT ![c] = x]
      BY <1>2, Zenon DEF CalcChoice, Store
    <2>2. \A t \in Sym : t # c /\ t \notin Values(c) => visible'[t] = visible[t]
      BY <1>2 DEF CalcChoice
    <2> SUFFICES ASSUME NEW t \in valid' \ (Choice \cup Ints), ~ IsChoiceValue(t)
                 PROVE  /\ revDep'[t] <= curr'[t]
                        /\ visible'[t] # no =>
                             curr'[t] <= Or3(Or3(visible'[t], revDep'[t]), implied'[t])
      BY DEF BoundInv
    <2>3. t \in valid \ (Choice \cup Ints) /\ t \in Sym /\ t # c /\ t \notin Values(c)
      BY <2>1 DEF TypeOK, IsChoiceValue
    <2>4. /\ visible'[t] = visible[t] /\ revDep'[t] = revDep[t]
          /\ implied'[t] = implied[t] /\ curr'[t] = curr[t]
      BY <2>1, <2>2, <2>3 DEF TypeOK, Valuation
    <2> QED BY <2>3, <2>4 DEF BoundInv
  <1>3. CASE UNCHANGED cacheVars /\ valid' \subseteq valid
    BY <1>3 DEF cacheVars, BoundInv
  <1>4. CASE Edit
    <2>1. \A s \in Sym : \A t : PutTristate(s, t) => UNCHANGED cacheVars /\ valid' \subseteq valid
      BY DEF PutTristate, ClearAllValid
    <2>2. \A s \in Sym, n \in Val : SetString(s, n) => UNCHANGED cacheVars /\ valid' \subseteq valid
      BY DEF SetString, ClearAllValid
    <2>3. \A s \in Sym : Toggle(s) => \E t : PutTristate(s, t)
      BY Zenon DEF Toggle
    <2> QED BY <1>3, <1>4, <2>1, <2>2, <2>3 DEF Edit, SetTristate
  <1>5. CASE ReadAny \/ ReadMissing \/ FinishRead \/ Write \/ FinishWrite \/ FailWrite
             \/ UNCHANGED vars
    <2>1. UNCHANGED cacheVars /\ valid' \subseteq valid
      BY <1>5 DEF ReadAny, Read, ReadMissing, FinishRead, Write, FinishWrite, FailWrite,
                  ClearAllValid, vars, cacheVars
    <2> QED BY <1>3, <2>1
  <1> QED BY <1>1, <1>2, <1>4, <1>5 DEF Next, Calc

\* In every menu whose defaults keep to their prompts, with tristates, implies
\* and modules or without, a symbol never falls below what selects it, and
\* rises above what it can be seen at only by being selected or implied.
THEOREM StaysBounded == ASSUME DefaultsSeen PROVE Spec => []Bounded
  <1>1. Init => TypeOK /\ BoundInv
    BY InitType DEF Init, BoundInv
  <1>2. TypeOK /\ BoundInv /\ [Next]_vars => (TypeOK /\ BoundInv)'
    BY TypeStep, BoundStep
  <1>3. BoundInv => Bounded
    BY DEF BoundInv, Bounded
  <1> QED
    BY <1>1, <1>2, <1>3, PTL DEF Spec
-----------------------------------------------------------------------------
(* One of a choice.                                                          *)

\* What is picked first can be seen, and something is when anything can be.
LEMMA FirstIsVisible ==
    ASSUME NEW q \in Seq(Sym), NEW vis
    PROVE  /\ FirstVisible(q, vis) # NoSym => vis[FirstVisible(q, vis)] # no
           /\ FirstVisible(q, vis) = NoSym => \A i \in DOMAIN q : vis[q[i]] = no
  <1> DEFINE seen == {i \in DOMAIN q : vis[q[i]] # no}
  <1>1. CASE seen = {}
    <2>1. FirstVisible(q, vis) = NoSym
      BY <1>1 DEF FirstVisible
    <2> QED BY <1>1, <2>1
  <1>2. CASE seen # {}
    <2>1. \E i \in seen : \A j \in seen : i <= j
      <3>1. seen \subseteq Nat
        OBVIOUS
      <3> HIDE DEF seen
      <3> QED BY <1>2, <3>1, LeastNat
    <2>2. PICK i \in seen : FirstVisible(q, vis) = q[i]
      <3>1. (CHOOSE i \in seen : \A j \in seen : i <= j) \in seen
        BY <2>1
      <3>2. FirstVisible(q, vis) = q[CHOOSE i \in seen : \A j \in seen : i <= j]
        BY <1>2 DEF FirstVisible
      <3> QED BY <3>1, <3>2, Zenon
    <2>3. q[i] \in Sym /\ vis[q[i]] # no
      OBVIOUS
    <2> QED BY <2>2, <2>3, SortAssumption
  <1> QED BY <1>1, <1>2

\* The same of the pick of a choice, the user's included.
LEMMA PickIsVisible ==
    ASSUME NEW c \in Choice, NEW v \in Valuation, NEW vis, NEW u \in Values(c) \cup {NoSym}
    PROVE  /\ Pick0(c, vis, v, u) # NoSym => vis[Pick0(c, vis, v, u)] # no
           /\ Pick0(c, vis, v, u) = NoSym => \A s \in Values(c) : vis[s] = no
  <1> DEFINE q == Attr(c, v).order \o Members(c)
  <1>1. q \in Seq(Sym) /\ \A s \in Values(c) : \E i \in DOMAIN q : q[i] = s
    <2>1. Attr(c, v).order \in Seq(Sym) /\ Members(c) \in Seq(Sym)
      BY SortAssumption, AttrTypes, ChoiceAssumption
    <2>2. ASSUME NEW s \in Values(c) PROVE \E i \in DOMAIN q : q[i] = s
      <3>1. PICK j \in DOMAIN Members(c) : Members(c)[j] = s
        BY DEF Values
      <3>2. PICK n \in Nat : n = Len(Attr(c, v).order)
        BY <2>1
      <3>3. n + j \in DOMAIN q /\ q[n + j] = s
        BY <2>1, <3>1, <3>2
      <3> QED BY <3>3
    <2> QED BY <2>1, <2>2
  <1> HIDE DEF q
  <1>2. /\ FirstVisible(q, vis) # NoSym => vis[FirstVisible(q, vis)] # no
        /\ FirstVisible(q, vis) = NoSym => \A s \in Values(c) : vis[s] = no
    BY <1>1, FirstIsVisible
  <1>3. CASE u # NoSym /\ vis[u] # no
    <2>1. Pick0(c, vis, v, u) = u
      BY <1>3 DEF Pick0
    <2> QED BY <1>3, <2>1
  <1>4. CASE ~ (u # NoSym /\ vis[u] # no)
    <2>1. Pick0(c, vis, v, u) = FirstVisible(q, vis)
      BY <1>4, Zenon DEF Pick0, q
    <2> QED BY <1>2, <2>1
  <1> QED BY <1>3, <1>4

\* Of the values of a fresh choice the picked one is `y' and no other.
LEMMA FreshChoice ==
    ASSUME BoolMenu, CacheInv, NEW c \in Choice, c \in valid, Values(c) \subseteq valid
    PROVE  LET on == {s \in Values(c) : curr[s] = yes /\ visible[s] # no}
           IN /\ curr[c] = yes => on = {pick[c]}
              /\ (/\ visible[c] # no
                  /\ \E s \in Values(c) : Attr(s, [curr EXCEPT ![c] = yes]).prompt # no)
                 => curr[c] = yes
  <1>1. /\ curr \in Valuation /\ c \in Sym /\ userPick[c] \in Values(c) \cup {NoSym}
        /\ Values(c) \subseteq Sym /\ NoSym \notin Sym
    BY SortAssumption, ChoiceAssumption DEF CacheInv, TypeOK
  <1> DEFINE v == [curr EXCEPT ![c] = yes]
             vis == [x \in Sym |-> Visibility(x, v)]
             p == Pick0(c, vis, v, userPick[c])
  <1>2. v \in Valuation
    BY <1>1, SortAssumption, TriIsVal DEF Valuation
  <1>3. /\ p # NoSym => vis[p] # no
        /\ p = NoSym => \A s \in Values(c) : vis[s] = no
    <2> HIDE DEF v, vis
    <2> QED BY <1>1, <1>2, PickIsVisible
  <1>4. p \in Values(c) \cup {NoSym}
    <2>1. ChoicePick(c, vis, v) \in Values(c) \cup {NoSym}
      BY <1>1, <1>2, ChoicePickType
    <2>2. ChoicePick(c, vis, v) = p
      BY Zenon DEF ChoicePick, Pick0
    <2> QED BY <2>1, <2>2
  <1>5. /\ visible[c] = Visibility(c, curr)
        /\ IF TriValue(c, curr) = yes
           THEN pick[c] = p /\ curr[c] = (IF p = NoSym THEN no ELSE yes)
           ELSE pick[c] = NoSym /\ curr[c] = TriValue(c, curr)
    <2>1. ChoiceFresh(c, TriValue(c, curr), curr, pick[c], userPick[c])
      BY <1>1, FreshNow DEF CacheInv, AllFresh
    <2>2. IF TriValue(c, curr) = yes
          THEN pick[c] = p /\ curr[c] = (IF p = NoSym THEN no ELSE yes)
          ELSE pick[c] = NoSym /\ curr[c] = TriValue(c, curr)
      BY <2>1, Zenon DEF ChoiceFresh
    <2> QED BY <1>1, <2>2, FreshNow DEF CacheInv, AllFresh
  <1>6. ASSUME curr[c] = yes
        PROVE  {s \in Values(c) : curr[s] = yes /\ visible[s] # no} = {pick[c]}
    <2>1. pick[c] = p /\ p # NoSym
      <3>1. no # yes
        BY DEF no, yes
      <3> HIDE DEF p
      <3> QED BY <1>5, <1>6, <3>1, Zenon
    <2>2. v = curr
      BY <1>1, <1>6 DEF Valuation
    <2>3. p \in Values(c) /\ Visibility(p, curr) # no
      BY <1>1, <1>3, <1>4, <2>1, <2>2
    <2> HIDE DEF p, v, vis
    <2>4. ASSUME NEW s \in Values(c)
          PROVE  /\ visible[s] = Visibility(s, curr)
                 /\ visible[s] # no => curr[s] = IF s = p THEN yes ELSE no
      <3>1. s \in Sym /\ Fresh(s) /\ IsChoiceValue(s) /\ s \notin Ints /\ s \notin Choice
        BY <1>1, ChoiceAssumption DEF CacheInv, AllFresh, IsChoiceValue
      <3>2. ChoiceOf(s) = c
        BY <3>1, OperandsOf, ChoiceAssumption
      <3>3. visible[s] = Visibility(s, curr) /\ curr[s] = TriValue(s, curr)
        BY <3>1, FreshNow
      <3>4. visible[s] # no => Visibility(s, curr) = yes
        BY <1>1, <3>1, <3>3, TwoValued
      <3>5. visible[s] # no => TriValue(s, curr) = ChosenValue(s)
        BY <1>1, <3>1, <3>4, TwoValued
      <3>6. ChosenValue(s) = IF p = s THEN yes ELSE no
        BY <2>1, <3>2, Zenon DEF ChosenValue
      <3> QED BY <3>3, <3>5, <3>6
    <2>5. visible[p] # no
      BY <2>3, <2>4
    <2> QED BY <2>1, <2>3, <2>4, <2>5 DEF yes, no
  <1>7. ASSUME visible[c] # no, NEW s \in Values(c), Attr(s, v).prompt # no
        PROVE  curr[c] = yes
    <2>1. TriValue(c, curr) = yes
      <3>1. Visibility(c, curr) # no /\ ~ IsChoiceValue(c)
        BY <1>5, <1>7, ChoiceAssumption DEF IsChoiceValue
      <3>4. RevDep(c, curr) = yes
        BY <1>1, <3>1, SeenIsSelected
      <3>5. OwnValue(c, curr) \in Tri
        <4>1. def[c] \in Tri /\ Visibility(c, curr) \in Tri
          BY <1>1, SortAssumption, VisibilityTypes DEF CacheInv, TypeOK, Valuation
        <4>2. OwnValue(c, curr) = And3(def[c], Visibility(c, curr)) \/ OwnValue(c, curr) = no
          BY Zenon DEF OwnValue
        <4> QED BY <4>1, <4>2, TriClosed, TriIsVal
      <3>6. TriValue(c, curr) = Promote(Or3(OwnValue(c, curr), yes), TRUE)
        BY <1>1, <3>1, <3>4, TwoValued
      <3> QED BY <3>5, <3>6 DEF Promote, Or3, Tri, no, mod, yes
    <2>2. vis[s] # no
      <3>1. s \in Sym /\ vis[s] = Visibility(s, v)
        BY <1>1
      <3>2. Visibility(s, v) = Promote(Attr(s, v).prompt, TRUE)
        BY <1>2, <3>1, TwoValued
      <3> QED BY <1>7, <3>1, <3>2 DEF Promote, no, mod, yes
    <2>3. p # NoSym
      BY <1>3, <2>2
    <2> QED BY <1>5, <2>1, <2>3
  <1> QED BY <1>6, <1>7

\* In every menu without tristates whose choices are not optional, a choice
\* that can be seen is made: exactly one of its visible values is `y', the one
\* it has picked, whatever was asked for, loaded or hidden before.
THEOREM ChoiceIsMade == ASSUME BoolMenu PROVE Spec => []OneOfChoice
  <1>1. Init => CacheInv /\ StringsKept
    BY CacheKept
  <1>2. CacheInv /\ StringsKept /\ [Next]_vars => (CacheInv /\ StringsKept)'
    BY CacheKept
  <1>3. CacheInv => OneOfChoice
    BY FreshChoice, Zenon DEF OneOfChoice
  <1> QED
    BY <1>1, <1>2, <1>3, PTL DEF Spec
-----------------------------------------------------------------------------
(* Nothing unsaved goes unnoticed.                                           *)

\* SYMBOL_WRITE tells which symbols belong into the file.
LinesWritten == \A s \in valid \cap Named : s \in write <=> Written(s, curr)

IntsWithin == \A s \in valid \cap Ints : Within(s, curr[s])

\* The file has what conf_write would put there.
OnDisk == disk = [s \in Named |-> IF Written(s, curr) THEN curr[s] ELSE Unset]

\* The user's values are those of the file.
FromDisk ==
    \A s \in Named : (s \in user <=> disk[s] # Unset) /\ (disk[s] # Unset => def[s] = disk[s])

SaveInv ==
    /\ TypeOK /\ Closed /\ Ranges /\ IntsWithin
    /\ changed \/ pc = "read" => LinesWritten
    /\ pc = "write" => changed
    /\ pc = "read" => FromDisk
    /\ pc = "edit" /\ ~ changed => Named \subseteq valid /\ OnDisk

\* What is calculated of a symbol depends on its operands only.
LEMMA FieldsLocal ==
    ASSUME Modules \notin Tristate, NEW s \in Named, NEW v \in Valuation, NEW w \in Valuation,
           \A u \in Operands(s) : v[u] = w[u]
    PROVE  /\ Attr(s, v) = Attr(s, w) /\ Visibility(s, v) = Visibility(s, w)
           /\ \A x : IsTristate(s, x, v) <=> IsTristate(s, x, w)
           /\ RevDep(s, v) = RevDep(s, w) /\ Implied(s, v) = Implied(s, w)
  <1>1. s \in Sym /\ \A u \in Uses(s) : v[u] = w[u]
    BY OperandsOf DEF Named
  <1>2. Attr(s, v) = Attr(s, w)
    BY <1>1, Local
  <1>3. s \in Tristate => ModulesVal(v) = ModulesVal(w)
    BY <1>1 DEF ModulesVal, Operands
  <1>4. IsChoiceValue(s) => v[ChoiceOf(s)] = w[ChoiceOf(s)]
    BY <1>1, OperandsOf
  <1>5. Visibility(s, v) = Visibility(s, w)
    BY <1>2, <1>3, <1>4 DEF Visibility, Promote
  <1>6. \A x : IsTristate(s, x, v) <=> IsTristate(s, x, w)
    BY <1>3 DEF IsTristate
  <1>7. RevDep(s, v) = RevDep(s, w) /\ Implied(s, v) = Implied(s, w)
    BY <1>2, <1>5, <1>6 DEF RevDep, Implied, Promote
  <1> QED
    BY <1>2, <1>5, <1>6, <1>7

\* Whether a symbol belongs into the file does, too.
LEMMA WrittenLocal ==
    ASSUME Modules \notin Tristate, NEW s \in Named, NEW v \in Valuation, NEW w \in Valuation,
           \A u \in Operands(s) : v[u] = w[u]
    PROVE  Written(s, v) <=> Written(s, w)
  BY FieldsLocal DEF Written

\* A calculation adds one symbol to those that are valid and changes no other
\* value, nor the lines of those that were.
CalcOf(x) ==
    /\ x \in Sym \ valid /\ Operands(x) \subseteq valid /\ valid' = valid \cup {x}
    /\ \A s \in Sym : s # x => curr'[s] = curr[s]
    /\ \A s \in valid \cap Named : s \in write' <=> s \in write
    /\ x \in Named => (x \in write' <=> Written(x, curr))
    /\ x \in Ints => Within(x, curr'[x])
    /\ \A s \in Named : s \in user' <=> s \in user
    /\ def' = def /\ disk' = disk /\ changed' = changed /\ pc' = pc

LEMMA CalcSymbolOf ==
    ASSUME FixedRanges, TypeOK, NEW s \in Sym, CalcSymbol(s)
    PROVE  CalcOf(s)
  <1>1. /\ s \in Named \ valid /\ Operands(s) \subseteq valid /\ valid' = valid \cup {s}
        /\ curr' = [curr EXCEPT ![s] = Value(s, curr)]
        /\ write' = (IF Written(s, curr) THEN write \cup {s} ELSE write \ {s})
        /\ def' = def /\ user' = user /\ disk' = disk /\ changed' = changed /\ pc' = pc
    BY DEF CalcSymbol, Store, userVars, fileVars
  <1>2. \A t \in Sym : curr'[t] = IF t = s THEN Value(s, curr) ELSE curr[t]
    BY <1>1 DEF TypeOK, Valuation
  <1>3. s \in Ints => Within(s, curr'[s])
    BY <1>1, <1>2, IntWithin DEF Value
  <1> QED BY <1>1, <1>2, <1>3 DEF CalcOf

LEMMA CalcChoiceOf ==
    ASSUME TypeOK, Closed, NEW c \in Sym, CalcChoice(c)
    PROVE  CalcOf(c)
  <1>1. /\ c \in Choice \ valid /\ Operands(c) \subseteq valid /\ valid' = valid \cup {c}
        /\ def' = def /\ disk' = disk /\ changed' = changed /\ pc' = pc
        /\ user' \in {user, user \ {c}}
    BY DEF CalcChoice, Store, fileVars
  <1>2. PICK x : curr' = [curr EXCEPT ![c] = x]
    BY Zenon DEF CalcChoice
  <1>3. \A t \in Sym : t # c => curr'[t] = curr[t]
    BY <1>2 DEF TypeOK, Valuation
  <1>4. \E seen \in SUBSET Values(c) :
           write' = write \cup {c} \cup seen \/ write' = write \ {c}
    BY DEF CalcChoice
  <1>5. ASSUME NEW t \in valid PROVE t # c /\ t \notin Values(c)
    <2>1. t \in Sym /\ t # c /\ c \notin Operands(t)
      BY <1>1 DEF TypeOK, Closed
    <2> QED BY <1>1, <2>1, ChoiceAssumption, OperandsOf
  <1>6. c \notin Named /\ c \notin Ints
    BY <1>1, SortAssumption DEF Named
  <1> QED BY <1>1, <1>3, <1>4, <1>5, <1>6 DEF CalcOf

LEMMA CalcLines ==
    ASSUME Modules \notin Tristate, TypeOK, TypeOK', Closed, NEW x, CalcOf(x)
    PROVE  /\ \A s \in Named : s \in valid \/ s = x => (Written(s, curr') <=> Written(s, curr))
           /\ LinesWritten => LinesWritten'
  <1>1. /\ x \in Sym \ valid /\ Operands(x) \subseteq valid /\ valid' = valid \cup {x}
        /\ \A s \in Sym : s # x => curr'[s] = curr[s]
    BY DEF CalcOf
  <1>2. curr \in Valuation /\ curr' \in Valuation /\ valid \subseteq Sym
    BY DEF TypeOK
  <1>3. ASSUME NEW s \in Named, s \in valid \/ s = x
        PROVE  Written(s, curr') <=> Written(s, curr)
    <2>1. x \notin Operands(s) /\ Operands(s) \subseteq Sym
      BY <1>1, <1>2, <1>3, OperandsOf DEF Closed
    <2> QED BY <1>1, <1>2, <2>1, WrittenLocal
  <1>4. LinesWritten => LinesWritten'
    BY <1>1, <1>3 DEF LinesWritten, CalcOf
  <1> QED BY <1>3, <1>4

LEMMA CalcSaves ==
    ASSUME Modules \notin Tristate, SaveInv, TypeOK', NEW x, CalcOf(x)
    PROVE  SaveInv'
  <1>1. /\ x \in Sym \ valid /\ Operands(x) \subseteq valid /\ valid' = valid \cup {x}
        /\ \A s \in Sym : s # x => curr'[s] = curr[s]
        /\ def' = def /\ disk' = disk /\ changed' = changed /\ pc' = pc
    BY DEF CalcOf
  <1>2. TypeOK /\ Closed /\ curr \in Valuation /\ curr' \in Valuation /\ valid \subseteq Sym
    BY DEF SaveInv, TypeOK
  <1>3. Closed'
    BY <1>1, <1>2 DEF Closed
  <1>4. \A s \in Named : s \in valid \/ s = x => (Written(s, curr') <=> Written(s, curr))
    BY <1>2, CalcLines
  <1>5. LinesWritten => LinesWritten'
    BY <1>2, CalcLines
  <1>6. Ranges' /\ IntsWithin'
    <2>1. \A s \in Ints : s \in Named
      BY SortAssumption DEF Named
    <2> QED BY <1>1, <1>2, <2>1 DEF SaveInv, Ranges, IntsWithin, Within, CalcOf
  <1>7. FromDisk => FromDisk'
    BY <1>1 DEF FromDisk, CalcOf
  <1>8. ASSUME Named \subseteq valid, OnDisk PROVE Named \subseteq valid' /\ OnDisk'
    <2>1. \A s \in Named : (Written(s, curr') <=> Written(s, curr)) /\ curr'[s] = curr[s]
      BY <1>1, <1>2, <1>4, <1>8
    <2> QED BY <1>1, <1>8, <2>1 DEF OnDisk
  <1> QED BY <1>1, <1>3, <1>5, <1>6, <1>7, <1>8 DEF SaveInv

\* A request keeps the file in step, or is counted as a change.
LEMMA RequestSaves ==
    ASSUME SaveInv, TypeOK', Ranges', pc = "edit", pc' = "edit",
           curr' = curr, write' = write, disk' = disk,
           (valid' = {} /\ changed') \/ (valid' = valid /\ changed' = changed)
    PROVE  SaveInv'
  <1>1. CASE valid' = {} /\ changed'
    BY <1>1 DEF SaveInv, Closed, IntsWithin, LinesWritten
  <1>2. CASE valid' = valid /\ changed' = changed
    <2>1. Closed' /\ IntsWithin' /\ (LinesWritten => LinesWritten') /\ (OnDisk => OnDisk')
      BY <1>2 DEF SaveInv, Closed, IntsWithin, LinesWritten, OnDisk, Within
    <2> QED BY <1>2, <2>1 DEF SaveInv
  <1> QED BY <1>1, <1>2

LEMMA EditSaves ==
    ASSUME FixedRanges, SaveInv, TypeOK', Edit
    PROVE  SaveInv'
  <1>1. TypeOK /\ Ranges
    BY DEF SaveInv
  <1>2. PICK s \in Sym : \/ \E t \in Tri : SetTristate(s, t)
                         \/ Toggle(s)
                         \/ \E n \in Val : SetString(s, n)
    BY DEF Edit
  <1>3. ASSUME NEW t, s \in Sym \ Ints, pc = "edit", PutTristate(s, t) PROVE SaveInv'
    <2>1. Ranges'
      BY <1>1, <1>3, PutRanges
    <2>2. /\ pc' = pc /\ curr' = curr /\ write' = write /\ disk' = disk
          /\ (valid' = {} /\ changed') \/ (valid' = valid /\ changed' = changed)
      BY <1>3 DEF PutTristate, ClearAllValid, cacheVars
    <2> QED BY <1>3, <2>1, <2>2, RequestSaves
  <1>4. ASSUME NEW n \in Val, SetString(s, n) PROVE SaveInv'
    <2>1. /\ s \in Ints /\ Attr(s, curr).lo <= n /\ n <= Attr(s, curr).hi
          /\ def' = [def EXCEPT ![s] = n] /\ user' = user \cup {s}
          /\ pc = "edit" /\ pc' = pc /\ curr' = curr /\ write' = write /\ disk' = disk
          /\ (valid' = {} /\ changed') \/ (valid' = valid /\ changed' = changed)
      BY <1>4 DEF SetString, ClearAllValid, cacheVars
    <2>2. Within(s, n)
      BY <1>1, <2>1, WithinNow DEF TypeOK
    <2>3. Ranges'
      BY <1>1, <2>1, <2>2, SortAssumption DEF Ranges, Within, TypeOK, Valuation
    <2> QED BY <2>1, <2>3, RequestSaves
  <1>5. CASE Toggle(s)
    BY <1>3, <1>5, Zenon DEF Toggle
  <1> QED BY <1>2, <1>3, <1>4, <1>5 DEF SetTristate

\* conf_read: what it found in the file is what it calculated, or it counts a
\* change.
LEMMA ReadSaves ==
    ASSUME FixedRanges, SaveInv, TypeOK', NEW f \in Files \cup {disk}, Read(f)
    PROVE  SaveInv'
  <1>1. /\ disk' = f /\ def' = DefOf(f) /\ user' = UserOf(f) /\ valid' = {} /\ pc' = "read"
    BY DEF Read
  <1>2. \A s \in Named : s \in Sym \ Choice
    BY DEF Named
  <1>3. \A s \in Ints : s \in Named
    BY SortAssumption DEF Named
  <1>4. FromDisk'
    <2>1. \A s \in Named : s \in UserOf(f) <=> f[s] # Unset
      BY <1>2 DEF UserOf
    <2>2. \A s \in Named : f[s] # Unset => DefOf(f)[s] = f[s]
      BY <1>2 DEF DefOf
    <2> QED BY <1>1, <2>1, <2>2 DEF FromDisk
  <1>5. \A s \in Ints : f[s] = Unset \/ Within(s, f[s])
    <2>1. CASE f \in Files
      BY <2>1 DEF FixedRanges, Within
    <2>2. CASE f = disk
      BY <2>2 DEF SaveInv, Ranges
    <2> QED BY <2>1, <2>2
  <1>6. Ranges'
    BY <1>1, <1>3, <1>4, <1>5 DEF Ranges, FromDisk, Within
  <1> QED BY <1>1, <1>4, <1>6 DEF SaveInv, Closed, IntsWithin, LinesWritten

LEMMA FinishReadSaves ==
    ASSUME SaveInv, TypeOK', FinishRead
    PROVE  SaveInv'
  <1>1. TypeOK /\ Ranges /\ LinesWritten /\ FromDisk /\ valid = Sym /\ pc' = "edit"
    BY DEF SaveInv, FinishRead
  <1> DEFINE outside == {s \in user \cap Ints :
                           def[s] < Attr(s, curr).lo \/ def[s] > Attr(s, curr).hi}
  <1>2. outside = {}
    BY <1>1, NothingOutside
  <1>3. /\ valid' = valid \ outside /\ user' \subseteq user
        /\ changed' = (changed \/ Unsaved)
        /\ def' = def /\ curr' = curr /\ write' = write /\ disk' = disk
    BY DEF FinishRead, cacheVars
  <1> HIDE DEF outside
  <1>4. valid' = valid
    BY <1>2, <1>3
  <1>5. /\ Closed' /\ Ranges' /\ IntsWithin' /\ LinesWritten'
    BY <1>1, <1>3, <1>4 DEF SaveInv, Closed, Ranges, IntsWithin, Within, LinesWritten
  <1>6. ASSUME ~ changed' PROVE Named \subseteq valid' /\ OnDisk'
    <2>1. ~ Unsaved /\ Named \subseteq Sym
      BY <1>3, <1>6 DEF Named
    <2>2. ASSUME NEW s \in Named
          PROVE  disk[s] = IF Written(s, curr) THEN curr[s] ELSE Unset
      <3>1. IF s \in user THEN s \in write /\ def[s] = curr[s] ELSE s \notin write
        BY <2>1 DEF Unsaved
      <3>2. s \in write <=> Written(s, curr)
        BY <1>1, <2>1 DEF LinesWritten
      <3> QED BY <1>1, <3>1, <3>2 DEF FromDisk
    <2>3. disk = [s \in Named |-> disk[s]]
      BY <1>1 DEF TypeOK, ConfigFile
    <2> QED BY <1>1, <1>3, <1>4, <2>1, <2>2, <2>3 DEF OnDisk
  <1> QED BY <1>1, <1>5, <1>6 DEF SaveInv

\* conf_write: what it writes is what is calculated.
LEMMA WriteSaves ==
    ASSUME SaveInv, TypeOK', Write \/ FinishWrite
    PROVE  SaveInv'
  <1>1. CASE Write
    <2>1. /\ pc' = "write" /\ changed' /\ curr' = curr /\ write' = write /\ disk' = disk
          /\ user' = user /\ def' = def
          /\ valid' = {} \/ (valid' = valid /\ changed)
      BY <1>1 DEF Write, ClearAllValid, userVars, cacheVars
    <2>2. Closed' /\ Ranges' /\ IntsWithin' /\ LinesWritten'
      BY <2>1 DEF SaveInv, Closed, Ranges, IntsWithin, Within, LinesWritten
    <2> QED BY <2>1, <2>2 DEF SaveInv
  <1>2. CASE FinishWrite
    <2>1. /\ pc = "write" /\ Named \subseteq valid /\ disk' = Content /\ ~ changed' /\ pc' = "edit"
          /\ valid' = valid /\ curr' = curr /\ user' = user /\ def' = def
      BY <1>2 DEF FinishWrite, userVars, cacheVars
    <2>2. LinesWritten
      BY <2>1 DEF SaveInv
    <2>3. OnDisk'
      BY <2>1, <2>2 DEF OnDisk, Content, LinesWritten
    <2>4. Closed' /\ IntsWithin'
      BY <2>1 DEF SaveInv, Closed, IntsWithin, Within
    <2>5. Ranges'
      <3>1. \A s \in Ints : disk'[s] \in {curr[s], Unset} /\ s \in valid
        BY <2>1, SortAssumption DEF Content, Named
      <3> QED BY <2>1, <3>1 DEF SaveInv, Ranges, IntsWithin, Within
    <2> QED BY <2>1, <2>3, <2>4, <2>5 DEF SaveInv
  <1> QED BY <1>1, <1>2

LEMMA SaveStep ==
    ASSUME FixedRanges, Modules \notin Tristate, Faults = {}, SaveInv, [Next]_vars
    PROVE  SaveInv'
  <1>1. TypeOK'
    BY TypeStep DEF SaveInv
  <1>2. CASE Calc
    BY <1>1, <1>2, CalcSymbolOf, CalcChoiceOf, CalcSaves DEF Calc, SaveInv
  <1>3. CASE Edit
    BY <1>1, <1>3, EditSaves
  <1>4. CASE ReadAny
    BY <1>1, <1>4, ReadSaves DEF ReadAny
  <1>5. CASE FinishRead
    BY <1>1, <1>5, FinishReadSaves
  <1>6. CASE Write \/ FinishWrite
    BY <1>1, <1>6, WriteSaves
  <1>7. ~ ReadMissing /\ ~ FailWrite
    BY DEF ReadMissing, FailWrite
  <1>8. CASE UNCHANGED vars
    <2>1. /\ valid' = valid /\ write' = write /\ curr' = curr /\ user' = user /\ def' = def
          /\ disk' = disk /\ changed' = changed /\ pc' = pc
      BY <1>8 DEF vars, userVars, cacheVars, fileVars
    <2>2. /\ Closed' = Closed /\ Ranges' = Ranges /\ IntsWithin' = IntsWithin
          /\ LinesWritten' = LinesWritten /\ FromDisk' = FromDisk /\ OnDisk' = OnDisk
      BY <2>1 DEF Closed, Ranges, IntsWithin, LinesWritten, FromDisk, OnDisk, Within
    <2> QED BY <1>1, <2>1, <2>2 DEF SaveInv
  <1> QED
    BY <1>2, <1>3, <1>4, <1>5, <1>6, <1>7, <1>8 DEF Next

LEMMA SaveStart == Init => SaveInv
  <1> SUFFICES ASSUME Init PROVE SaveInv
    OBVIOUS
  <1>1. user = {} /\ valid = {} /\ disk = [s \in Named |-> Unset] /\ pc = "start"
    BY DEF Init
  <1>2. Ranges
    BY <1>1, SortAssumption DEF Ranges, Named
  <1> QED
    BY <1>1, <1>2, InitType DEF SaveInv, Closed, IntsWithin, LinesWritten

\* In every menu without tristates whose choices are not optional, whose
\* ranges are constants and whose ints have steady defaults: while
\* conf_get_changed answers no, the file holds exactly what conf_write, which
\* calculates every symbol again, would put there, whatever was edited, loaded
\* and saved, as long as no conf_write fails to rename its file and no
\* conf_read is given a file that does not exist.
THEOREM LeavingLosesNothing ==
    ASSUME BoolMenu, Faults = {}
    PROVE  Spec => []NoLostEdits
  <1>1. Init => CacheInv /\ StringsKept /\ SaveInv
    BY CacheKept, SaveStart
  <1>2. FixedRanges /\ Modules \notin Tristate
    BY DEF BoolMenu
  <1>3. CacheInv /\ StringsKept /\ SaveInv /\ [Next]_vars
          => (CacheInv /\ StringsKept /\ SaveInv)'
    BY <1>2, CacheKept, SaveStep
  <1>4. CacheInv /\ SaveInv => NoLostEdits
    <2> SUFFICES ASSUME CacheInv, SaveInv, ~ changed, pc = "edit", valid = Sym
                 PROVE  disk = [s \in Named |-> IF Written(s, curr) THEN Value(s, curr) ELSE Unset]
      BY DEF NoLostEdits
    <2>1. \A s \in Named : curr[s] = Value(s, curr)
      BY DEF CacheInv, AllFresh, Fresh, Named
    <2> QED
      BY <2>1 DEF SaveInv, OnDisk
  <1> QED
    BY <1>1, <1>3, <1>4, PTL DEF Spec
-----------------------------------------------------------------------------
(* The values that the user's requests determine.                            *)

\* A choice before sym_calc_choice looks whether any of its values can be seen.
ChoiceTri(c, w) == Tri0(c, w, no, FALSE, FALSE)

\* What the values of c see while it is `y'.
AsChosen(c, w) == [w EXCEPT ![c] = yes]

PickIn(c, w, e) ==
    Pick0(c, [x \in Sym |-> Visibility(x, AsChosen(c, w))], AsChosen(c, w), e)

PickOfChoice(c, w, e) == IF ChoiceTri(c, w) = yes THEN PickIn(c, w, e) ELSE NoSym

NoneSeen(c, w) == \A x \in Values(c) : Visibility(x, AsChosen(c, w)) = no

\* The value of s among the values w, where d is the user's value if u holds
\* and e the user's pick of the choice s belongs to.
ValueIn(s, w, d, u, e) ==
    IF s \in Ints THEN Int0(s, w, d, u)
    ELSE IF s \in Choice
         THEN IF ChoiceTri(s, w) = yes /\ NoneSeen(s, w) THEN no ELSE ChoiceTri(s, w)
    ELSE Tri0(s, w, d, u, PickOfChoice(ChoiceOf(s), w, e) = s)

ClosedSet(K) == K \subseteq Sym /\ \A s \in K : Operands(s) \subseteq K

\* The values w of the symbols K are those of the requests D, U and E.
Solves(w, K, D, U, E) ==
    \A s \in K : w[s] = ValueIn(s, w, D[s], s \in U, E[ChoiceOf(s)])

\* A choice and its pick depend on its operands.
LEMMA SeenSame ==
    ASSUME BoolMenu, NEW c \in Choice, NEW v \in Valuation, NEW w \in Valuation,
           \A u \in Operands(c) : v[u] = w[u]
    PROVE  /\ ChoiceTri(c, v) = ChoiceTri(c, w)
           /\ NoneSeen(c, v) <=> NoneSeen(c, w)
           /\ \A e \in Values(c) \cup {NoSym} : PickIn(c, v, e) = PickIn(c, w, e)
  <1>1. c \in Sym /\ c \notin Ints /\ \A u \in Uses(c) : v[u] = w[u]
    BY OperandsOf, SortAssumption
  <1>2. ChoiceTri(c, v) = ChoiceTri(c, w)
    <2>1. \A d, u, k : Tri0(c, v, d, u, k) = Tri0(c, w, d, u, k)
      BY <1>1, SameValuation
    <2> QED BY <2>1 DEF ChoiceTri
  <1>3. PICK x \in Valuation : x = AsChosen(c, v)
    BY <1>1, TriIsVal DEF Valuation, AsChosen
  <1>4. PICK y \in Valuation : y = AsChosen(c, w)
    BY <1>1, TriIsVal DEF Valuation, AsChosen
  <1>5. x[c] = y[c] /\ \A u \in Operands(c) : x[u] = y[u]
    BY <1>1, <1>3, <1>4, OperandsOf DEF Valuation, AsChosen
  <1>6. \A e \in Values(c) \cup {NoSym} : PickIn(c, v, e) = PickIn(c, w, e)
    BY <1>3, <1>4, <1>5, PickKept DEF PickIn
  <1>7. ASSUME NEW s \in Values(c) PROVE Visibility(s, x) = Visibility(s, y)
    <2>1. s \in Sym /\ \A u \in Uses(s) : x[u] = y[u]
      BY <1>1, <1>5, OperandsOf
    <2> QED BY <2>1, SameFields
  <1>8. NoneSeen(c, v) <=> NoneSeen(c, w)
    BY <1>3, <1>4, <1>7 DEF NoneSeen
  <1> QED BY <1>2, <1>6, <1>8

\* Without tristates a choice is `n' or `y'.
LEMMA ChoiceTriTwo ==
    ASSUME BoolMenu, NEW c \in Choice, NEW w \in Valuation
    PROVE  ChoiceTri(c, w) \in {no, yes}
  <1>1. c \in Sym /\ ~ IsChoiceValue(c)
    BY SortAssumption, ChoiceAssumption DEF IsChoiceValue
  <1>2. CASE Visibility(c, w) = no
    <2>1. ChoiceTri(c, w) = Promote(Or3(no, RevDep(c, w)), TRUE)
      BY <1>1, <1>2, TriTwo DEF ChoiceTri
    <2> QED BY <1>1, <2>1, VisibilityTypes DEF Promote, Or3, Tri, no, mod, yes
  <1>3. CASE Visibility(c, w) # no
    <2>1. ChoiceTri(c, w) = Promote(Or3(no, RevDep(c, w)), TRUE)
      BY <1>1, <1>3, TriTwo DEF ChoiceTri
    <2> QED BY <1>3, <2>1, SeenIsSelected DEF Promote, Or3, no, mod, yes
  <1> QED BY <1>2, <1>3

\* A value depends on its operands, and on those of the choice it belongs to.
LEMMA ValueLocal ==
    ASSUME BoolMenu, NEW s \in Sym, NEW v \in Valuation, NEW w \in Valuation,
           \A x \in Operands(s) : v[x] = w[x],
           IsChoiceValue(s) => \A x \in Operands(ChoiceOf(s)) : v[x] = w[x],
           NEW d, NEW u, NEW e,
           IsChoiceValue(s) => e \in Values(ChoiceOf(s)) \cup {NoSym}
    PROVE  ValueIn(s, v, d, u, e) = ValueIn(s, w, d, u, e)
  <1>1. \A D, U, k : /\ Tri0(s, v, D, U, k) = Tri0(s, w, D, U, k)
                     /\ Int0(s, v, D, U) = Int0(s, w, D, U)
    BY OperandsOf, SameValuation
  <1>2. CASE s \in Ints
    BY <1>1, <1>2 DEF ValueIn
  <1>3. CASE s \in Choice
    <2>1. s \notin Ints
      BY <1>3, SortAssumption
    <2>2. ChoiceTri(s, v) = ChoiceTri(s, w) /\ (NoneSeen(s, v) <=> NoneSeen(s, w))
      BY <1>3, SeenSame
    <2> QED BY <1>3, <2>1, <2>2 DEF ValueIn
  <1>4. CASE s \notin Ints /\ s \notin Choice
    <2>1. \A z, k : ValueIn(s, z, d, u, e) = Tri0(s, z, d, u, PickOfChoice(ChoiceOf(s), z, e) = s)
      BY <1>4 DEF ValueIn
    <2>2. CASE IsChoiceValue(s)
      <3>1. ChoiceOf(s) \in Choice
        BY <2>2, OperandsOf
      <3>2. PickOfChoice(ChoiceOf(s), v, e) = PickOfChoice(ChoiceOf(s), w, e)
        BY <2>2, <3>1, SeenSame DEF PickOfChoice
      <3> QED BY <1>1, <2>1, <3>2
    <2>3. CASE ~ IsChoiceValue(s)
      <3>1. \A k, l : Tri0(s, w, d, u, k) = Tri0(s, w, d, u, l)
        BY <2>3, Zenon DEF Tri0
      <3> QED BY <1>1, <2>1, <3>1
    <2> QED BY <2>2, <2>3
  <1> QED BY <1>2, <1>3, <1>4

\* The requests a value does not look at: all of them, for a choice; all but
\* the pick of its choice, for a choice value; all, for a hidden symbol.
LEMMA ValueAny ==
    ASSUME BoolMenu, NEW s \in Sym, NEW w \in Valuation,
           NEW d, NEW u, NEW e, NEW f, NEW x, NEW g,
           IsChoiceValue(s) => e = g,
           s \notin Choice /\ ~ IsChoiceValue(s) /\ Visibility(s, w) # no => d = f /\ u = x
    PROVE  ValueIn(s, w, d, u, e) = ValueIn(s, w, f, x, g)
  <1>1. CASE s \in Choice
    BY <1>1, SortAssumption DEF ValueIn
  <1>2. CASE IsChoiceValue(s)
    <2>1. s \notin Choice /\ s \notin Ints
      BY <1>2, OperandsOf
    <2>2. \A k : Tri0(s, w, d, u, k) = Tri0(s, w, f, x, k)
      BY <1>2, ChoiceValueAnyUser
    <2> QED BY <1>2, <2>1, <2>2 DEF ValueIn
  <1>3. CASE s \notin Choice /\ ~ IsChoiceValue(s)
    <2>1. /\ Int0(s, w, d, u) = Int0(s, w, f, x)
          /\ \A k, l : Tri0(s, w, d, u, k) = Tri0(s, w, f, x, l)
      <3>1. CASE Visibility(s, w) = no
        BY <1>3, <3>1, Zenon DEF Tri0, Int0
      <3>2. CASE Visibility(s, w) # no
        <4>1. d = f /\ u = x
          BY <1>3, <3>2
        <4>2. \A k, l : Tri0(s, w, d, u, k) = Tri0(s, w, d, u, l)
          BY <1>3, Zenon DEF Tri0
        <4> QED BY <4>1, <4>2
      <3> QED BY <3>1, <3>2
    <2> QED BY <1>3, <2>1 DEF ValueIn
  <1> QED BY <1>1, <1>2, <1>3

PickType(E) == \A c \in Choice : E[c] \in Values(c) \cup {NoSym}

\* The same requests have the same values, wherever both were calculated: the
\* symbol of least rank that differs would have the same operands.
LEMMA Unique ==
    ASSUME BoolMenu, NEW rank \in [Sym -> Nat], Acyclic(rank), NEW D, NEW U, NEW E, PickType(E),
           NEW v \in Valuation, NEW K, ClosedSet(K), Solves(v, K, D, U, E),
           NEW w \in Valuation, NEW L, ClosedSet(L), Solves(w, L, D, U, E)
    PROVE  \A s \in K \cap L : v[s] = w[s]
  <1> DEFINE Bad == {s \in K \cap L : v[s] # w[s]}
             Ranks == {n \in Nat : \E s \in Bad : rank[s] = n}
  <1>1. SUFFICES ASSUME Bad # {} PROVE FALSE
    OBVIOUS
  <1>2. K \subseteq Sym /\ L \subseteq Sym
    BY DEF ClosedSet
  <1>3. Ranks # {} /\ Ranks \subseteq Nat
    BY <1>1, <1>2
  <1>4. PICK n \in Ranks : \A m \in Ranks : n <= m
    <2> HIDE DEF Ranks
    <2> QED BY <1>3, LeastNat
  <1>5. PICK s \in Bad : rank[s] = n
    OBVIOUS
  <1>6. \A x \in K \cap L : rank[x] < n => v[x] = w[x]
    <2> SUFFICES ASSUME NEW x \in K \cap L, rank[x] < n, v[x] # w[x] PROVE FALSE
      OBVIOUS
    <2>1. rank[x] \in Ranks
      BY <1>2
    <2> QED BY <1>2, <1>3, <1>4, <2>1
  <1>7. s \in Sym /\ s \in K /\ s \in L /\ v[s] # w[s]
    BY <1>2
  <1> HIDE DEF Bad, Ranks
  <1>8. \A x \in Operands(s) : x \in K \cap L /\ rank[x] < n
    BY <1>5, <1>7 DEF ClosedSet, Acyclic
  <1>9. ASSUME IsChoiceValue(s)
        PROVE  /\ E[ChoiceOf(s)] \in Values(ChoiceOf(s)) \cup {NoSym}
               /\ \A x \in Operands(ChoiceOf(s)) : v[x] = w[x]
    <2>1. ChoiceOf(s) \in Choice /\ ChoiceOf(s) \in Operands(s) /\ ChoiceOf(s) \in Sym
      BY <1>7, <1>9, OperandsOf, SortAssumption
    <2>2. ASSUME NEW x \in Operands(ChoiceOf(s)) PROVE x \in K \cap L /\ rank[x] < n
      <3>1. x \in K \cap L /\ x \in Sym
        BY <1>2, <1>8, <2>1 DEF ClosedSet
      <3>2. rank[x] < rank[ChoiceOf(s)] /\ rank[ChoiceOf(s)] < n
        BY <1>8, <2>1 DEF Acyclic
      <3> QED BY <1>3, <2>1, <3>1, <3>2
    <2> QED BY <1>6, <2>1, <2>2 DEF PickType
  <1>10. ValueIn(s, v, D[s], s \in U, E[ChoiceOf(s)]) = ValueIn(s, w, D[s], s \in U, E[ChoiceOf(s)])
    <2>1. \A x \in Operands(s) : v[x] = w[x]
      BY <1>6, <1>8
    <2> DEFINE u == s \in U
    <2>2. ValueIn(s, v, D[s], u, E[ChoiceOf(s)]) = ValueIn(s, w, D[s], u, E[ChoiceOf(s)])
      <3> HIDE DEF u
      <3> QED BY <1>7, <1>9, <2>1, ValueLocal
    <2> QED BY <2>2, Zenon
  <1> QED BY <1>7, <1>10 DEF Solves
\* A choice whose value can be seen picks one that can be.
LEMMA PickInSeen ==
    ASSUME NEW c \in Choice, NEW w \in Valuation, NEW e \in Values(c) \cup {NoSym}
    PROVE  /\ PickIn(c, w, e) \in Values(c) \cup {NoSym}
           /\ PickIn(c, w, e) # NoSym => Visibility(PickIn(c, w, e), AsChosen(c, w)) # no
           /\ PickIn(c, w, e) = NoSym <=> NoneSeen(c, w)
  <1>1. c \in Sym /\ c \notin Ints /\ Values(c) \subseteq Sym /\ NoSym \notin Sym
    BY SortAssumption, ChoiceAssumption
  <1>2. PICK x \in Valuation : x = AsChosen(c, w)
    BY <1>1, TriIsVal DEF Valuation, AsChosen
  <1> DEFINE vis == [y \in Sym |-> Visibility(y, x)]
             p == Pick0(c, vis, x, e)
  <1>3. PickIn(c, w, e) = p
    BY <1>2 DEF PickIn
  <1>4. p \in Values(c) \cup {NoSym}
    <2> DEFINE q == Attr(c, x).order \o Members(c)
    <2>1. q \in Seq(Values(c))
      <3>1. Attr(c, x).order \in Seq(Sym)
            /\ \A i \in DOMAIN Attr(c, x).order : Attr(c, x).order[i] \in Values(c)
        BY <1>1, AttrTypes, AttrAssumption
      <3>2. Members(c) \in Seq(Sym) /\ \A i \in DOMAIN Members(c) : Members(c)[i] \in Values(c)
        BY ChoiceAssumption DEF Values
      <3> QED BY <3>1, <3>2
    <2> HIDE DEF q, vis
    <2>2. FirstVisible(q, vis) \in Values(c) \cup {NoSym}
      BY <2>1, FirstVisibleType
    <2>3. p = e \/ p = FirstVisible(q, vis)
      BY Zenon DEF Pick0, q
    <2> QED BY <2>2, <2>3
  <1>5. /\ p # NoSym => vis[p] # no
        /\ p = NoSym => \A s \in Values(c) : vis[s] = no
    <2> HIDE DEF vis
    <2> QED BY PickIsVisible
  <1>6. \A y \in Values(c) : vis[y] = Visibility(y, x)
    BY <1>1
  <1> HIDE DEF vis, p
  <1>7. p # NoSym => p \in Values(c) /\ Visibility(p, x) # no
    BY <1>4, <1>5, <1>6
  <1>8. p = NoSym <=> NoneSeen(c, w)
    BY <1>2, <1>5, <1>6, <1>7 DEF NoneSeen
  <1> QED BY <1>2, <1>3, <1>4, <1>7, <1>8

\* What is valid is a solution of the user's present requests.
CurrSolved ==
    /\ curr \in Valuation /\ PickType(userPick)
    /\ ClosedSet(valid) /\ Solves(curr, valid, def, user, userPick)

LEMMA CacheSolves == ASSUME BoolMenu PROVE CacheInv => CurrSolved
  <1> SUFFICES ASSUME CacheInv PROVE CurrSolved
    OBVIOUS
  <1>1. curr \in Valuation /\ def \in Valuation /\ PickType(userPick) /\ ClosedSet(valid)
    BY DEF CacheInv, TypeOK, Closed, ClosedSet, PickType
  <1>2. ASSUME NEW c \in Choice, c \in valid
        PROVE  /\ pick[c] = PickOfChoice(c, curr, userPick[c])
               /\ curr[c] = IF ChoiceTri(c, curr) = yes /\ NoneSeen(c, curr)
                            THEN no ELSE ChoiceTri(c, curr)
    <2>1. c \in Sym /\ def[c] \in Tri /\ userPick[c] \in Values(c) \cup {NoSym}
      BY <1>1, SortAssumption DEF Valuation, PickType
    <2>2. TriValue(c, curr) = ChoiceTri(c, curr)
      <3> DEFINE u == c \in user
                 k == pick[ChoiceOf(c)] = c
      <3>1. TriValue(c, curr) = Tri0(c, curr, def[c], u, k)
        BY <2>1, NowThen
      <3>2. \A w, l : Tri0(c, curr, def[c], u, k) = Tri0(c, curr, no, w, l)
        <4> HIDE DEF u, k
        <4> QED BY <1>1, <2>1, ChoiceAnyUser, TriIsVal
      <3> HIDE DEF u, k
      <3> QED BY <3>1, <3>2, Zenon DEF ChoiceTri
    <2> DEFINE p == PickIn(c, curr, userPick[c])
    <2>3. IF ChoiceTri(c, curr) = yes
          THEN pick[c] = p /\ curr[c] = (IF p = NoSym THEN no ELSE yes)
          ELSE pick[c] = NoSym /\ curr[c] = ChoiceTri(c, curr)
      <3>1. ChoiceFresh(c, ChoiceTri(c, curr), curr, pick[c], userPick[c])
        BY <1>2, <2>1, <2>2, FreshNow DEF CacheInv, AllFresh
      <3> QED BY <3>1, Zenon DEF ChoiceFresh, PickIn, AsChosen
    <2>4. p = NoSym <=> NoneSeen(c, curr)
      BY <1>1, <2>1, PickInSeen
    <2> HIDE DEF p
    <2> QED BY <2>3, <2>4 DEF PickOfChoice, p
  <1>3. ASSUME NEW s \in valid
        PROVE  curr[s] = ValueIn(s, curr, def[s], s \in user, userPick[ChoiceOf(s)])
    <2>1. s \in Sym /\ Fresh(s)
      BY DEF CacheInv, TypeOK, AllFresh
    <2>2. CASE s \in Ints
      <3>1. s \notin Choice
        BY <2>2, SortAssumption
      <3> QED BY <2>1, <2>2, <3>1, FreshNow, NowThen DEF ValueIn
    <2>3. CASE s \in Choice
      <3>1. s \notin Ints
        BY <2>3, SortAssumption
      <3> QED BY <1>2, <2>3, <3>1 DEF ValueIn
    <2>4. CASE s \notin Ints /\ s \notin Choice
      <3> DEFINE u == s \in user
      <3>1. curr[s] = Tri0(s, curr, def[s], u, pick[ChoiceOf(s)] = s)
        BY <2>1, <2>4, FreshNow, NowThen
      <3>2. ValueIn(s, curr, def[s], u, userPick[ChoiceOf(s)]) =
              Tri0(s, curr, def[s], u, PickOfChoice(ChoiceOf(s), curr, userPick[ChoiceOf(s)]) = s)
        BY <2>4 DEF ValueIn
      <3> HIDE DEF u
      <3>3. CASE IsChoiceValue(s)
        <4>1. ChoiceOf(s) \in Choice /\ ChoiceOf(s) \in valid
          BY <2>1, <3>3, OperandsOf DEF CacheInv, Closed
        <4>2. pick[ChoiceOf(s)] = PickOfChoice(ChoiceOf(s), curr, userPick[ChoiceOf(s)])
          BY <1>2, <4>1
        <4> QED BY <3>1, <3>2, <4>2 DEF u
      <3>4. CASE ~ IsChoiceValue(s)
        <4>1. \A k, l : Tri0(s, curr, def[s], u, k) = Tri0(s, curr, def[s], u, l)
          BY <3>4, Zenon DEF Tri0
        <4> QED BY <3>1, <3>2, <4>1 DEF u
      <3> QED BY <3>3, <3>4
    <2> QED BY <2>2, <2>3, <2>4
  <1> QED BY <1>1, <1>3 DEF CurrSolved, Solves

\* The same after a step.
LEMMA CacheSolvesThen == ASSUME BoolMenu PROVE CacheInv' => CurrSolved'
  <1>1. CacheInv => CurrSolved
    BY CacheSolves
  <1> QED BY <1>1, PTL

\* Other values and other requests, where no value sees the difference.
LEMMA OtherRequests ==
    ASSUME BoolMenu, NEW K, ClosedSet(K), NEW D, NEW U, NEW E, PickType(E),
           NEW v \in Valuation, Solves(v, K, D, U, E),
           NEW w \in Valuation, \A s \in K : w[s] = v[s],
           NEW F, NEW V, NEW G,
           \A s \in K :
              /\ IsChoiceValue(s) => G[ChoiceOf(s)] = E[ChoiceOf(s)]
              /\ s \notin Choice /\ ~ IsChoiceValue(s) /\ Visibility(s, v) # no =>
                   F[s] = D[s] /\ (s \in V) = (s \in U)
    PROVE  Solves(w, K, F, V, G)
  <1> SUFFICES ASSUME NEW s \in K
               PROVE  w[s] = ValueIn(s, w, F[s], s \in V, G[ChoiceOf(s)])
    BY DEF Solves
  <1>1. s \in Sym /\ \A x \in Operands(s) : x \in K
    BY DEF ClosedSet
  <1> DEFINE a == s \in U
             b == s \in V
  <1>2. v[s] = ValueIn(s, v, D[s], a, E[ChoiceOf(s)])
    BY DEF Solves
  <1>3. /\ IsChoiceValue(s) => G[ChoiceOf(s)] = E[ChoiceOf(s)]
        /\ s \notin Choice /\ ~ IsChoiceValue(s) /\ Visibility(s, v) # no => F[s] = D[s] /\ b = a
    OBVIOUS
  <1> HIDE DEF a, b
  <1>4. ValueIn(s, v, D[s], a, E[ChoiceOf(s)]) = ValueIn(s, v, F[s], b, G[ChoiceOf(s)])
    BY <1>1, <1>3, ValueAny
  <1>5. ASSUME IsChoiceValue(s)
        PROVE  /\ E[ChoiceOf(s)] \in Values(ChoiceOf(s)) \cup {NoSym}
               /\ \A x \in Operands(ChoiceOf(s)) : x \in K
    <2>1. ChoiceOf(s) \in Choice /\ ChoiceOf(s) \in Operands(s)
      BY <1>1, <1>5, OperandsOf
    <2> QED BY <1>1, <2>1 DEF ClosedSet, PickType
  <1>6. ValueIn(s, v, F[s], b, G[ChoiceOf(s)]) = ValueIn(s, w, F[s], b, G[ChoiceOf(s)])
    <2>1. IsChoiceValue(s) => G[ChoiceOf(s)] \in Values(ChoiceOf(s)) \cup {NoSym}
      BY <1>3, <1>5
    <2> QED BY <1>1, <1>5, <2>1, ValueLocal
  <1> QED BY <1>2, <1>4, <1>6 DEF b
-----------------------------------------------------------------------------
(* A request that is accepted is honoured.                                   *)

\* The requests have a solution in which s is t, or s cannot be seen.
Honoured(s, t) ==
    \E w \in Valuation, K \in SUBSET Sym :
        /\ s \in K /\ ClosedSet(K)
        /\ Solves(w, K, def, user, userPick)
        /\ w[s] = t \/ (s \in Ints /\ Visibility(s, w) = no)

AskedInv == asked # <<>> => pc # "read" /\ Honoured(asked[1], asked[2])

\* One more symbol may be added once its operands are solved.
LEMMA OneMore ==
    ASSUME NEW K, ClosedSet(K), NEW D, NEW U, NEW E, NEW w, Solves(w, K, D, U, E),
           NEW s \in Sym, Operands(s) \subseteq K,
           w[s] = ValueIn(s, w, D[s], s \in U, E[ChoiceOf(s)])
    PROVE  ClosedSet(K \cup {s}) /\ Solves(w, K \cup {s}, D, U, E)
  <1>1. ClosedSet(K \cup {s})
    BY DEF ClosedSet
  <1>2. Solves(w, K \cup {s}, D, U, E)
    BY Zenon DEF Solves
  <1> QED BY <1>1, <1>2

\* What is valid below m stays solved when nothing below m is asked for.
LEMMA SolvedBelow ==
    ASSUME BoolMenu, NEW rank \in [Sym -> Nat], Acyclic(rank), CacheInv, NEW m \in Sym,
           NEW w \in Valuation, NEW F, NEW V, NEW G,
           \A s \in valid : rank[s] < rank[m] =>
              /\ w[s] = curr[s]
              /\ s \in Choice => G[s] = userPick[s]
              /\ s \notin Choice /\ ~ IsChoiceValue(s) => F[s] = def[s] /\ (s \in V) = (s \in user)
    PROVE  \E K \in SUBSET valid :
              /\ \A s \in valid : s \in K <=> rank[s] < rank[m]
              /\ ClosedSet(K) /\ Solves(w, K, F, V, G)
  <1> DEFINE K == {s \in valid : rank[s] < rank[m]}
  <1>1. CurrSolved
    BY CacheSolves
  <1>2. valid \subseteq Sym
    BY DEF CacheInv, TypeOK
  <1>3. ASSUME NEW s \in K, NEW x \in Operands(s) PROVE x \in K
    <2>1. s \in Sym /\ x \in valid
      BY <1>2 DEF CacheInv, Closed
    <2>2. rank[x] < rank[s] /\ rank[s] < rank[m]
      BY <1>2, <2>1 DEF Acyclic
    <2> QED BY <1>2, <2>1, <2>2
  <1>4. ClosedSet(K)
    BY <1>2, <1>3 DEF ClosedSet
  <1>5. Solves(curr, K, def, user, userPick)
    BY <1>1 DEF CurrSolved, Solves
  <1>6. ASSUME NEW s \in K
        PROVE  /\ IsChoiceValue(s) => G[ChoiceOf(s)] = userPick[ChoiceOf(s)]
               /\ s \notin Choice /\ ~ IsChoiceValue(s) =>
                    F[s] = def[s] /\ (s \in V) = (s \in user)
    <2>1. s \in Sym /\ s \in valid /\ rank[s] < rank[m]
      BY <1>2
    <2>2. IsChoiceValue(s) => ChoiceOf(s) \in Choice /\ ChoiceOf(s) \in K
      BY <1>3, <2>1, OperandsOf
    <2> QED BY <2>1, <2>2
  <1>7. \A s \in K : w[s] = curr[s]
    OBVIOUS
  <1> HIDE DEF K
  <1>8. Solves(w, K, F, V, G)
    BY <1>1, <1>4, <1>5, <1>6, <1>7, OtherRequests DEF CurrSolved
  <1> QED BY <1>4, <1>8 DEF K

\* A tristate that is set to another value: a plain bool that is not selected,
\* or the value of a choice that is not picked.
LEMMA SetHonoured ==
    ASSUME BoolMenu, NEW rank \in [Sym -> Nat], Acyclic(rank), CacheInv, TypeOK',
           NEW s \in valid \ Ints, NEW t \in Tri, WithinRange(s, t), PutTristate(s, t)
    PROVE  Honoured(s, t)'
  <1>1. /\ TypeOK /\ s \in Sym /\ curr \in Valuation /\ curr' = curr /\ Fresh(s)
        /\ def'[s] = t /\ s \in user'
    BY DEF CacheInv, AllFresh, TypeOK, Valuation, PutTristate, cacheVars
  <1>2. visible[s] = Visibility(s, curr) /\ revDep[s] = RevDep(s, curr)
    BY <1>1, FreshNow
  <1>3. Visibility(s, curr) = yes
    BY <1>1, <1>2, TwoValued DEF WithinRange
  <1>4. RevDep(s, curr) = no
    <2>1. RevDep(s, curr) \in Tri /\ RevDep(s, curr) < yes /\ RevDep(s, curr) # mod
      BY <1>1, <1>2, <1>3, VisibilityTypes, TwoValued DEF WithinRange, Promote, no, mod, yes
    <2> QED BY <2>1 DEF Tri, no, mod, yes
  <1>5. s \notin Choice
    BY <1>1, <1>3, <1>4, SeenIsSelected DEF no, yes
  <1>6. t \in {no, yes}
    BY DEF WithinRange, IsTristate, BoolMenu, Tri
  <1>7. PICK w \in Valuation : w = [curr EXCEPT ![s] = t]
    BY <1>1, TriIsVal DEF Valuation
  <1>8. w[s] = t /\ \A x \in Sym : x # s => w[x] = curr[x]
    BY <1>1, <1>7 DEF Valuation
  <1>9. /\ \A x \in Uses(s) : x \in Sym /\ w[x] = curr[x]
        /\ Visibility(s, w) = yes /\ RevDep(s, w) = no
    <2>1. \A x \in Uses(s) : x \in Sym /\ w[x] = curr[x]
      BY <1>1, <1>8, OperandsOf, AttrAssumption
    <2> QED BY <1>1, <1>3, <1>4, <2>1, SameFields
  <1>10. \A x \in valid : x \in Sym /\ Operands(x) \subseteq valid
    BY DEF CacheInv, TypeOK, Closed
  <1>11. ASSUME NEW K \in SUBSET Sym, s \in K, ClosedSet(K), Solves(w, K, def', user', userPick')
         PROVE  Honoured(s, t)'
    BY <1>8, <1>11 DEF Honoured, Solves
  <1>12. CASE ~ IsChoiceValue(s)
    <2>1. PICK K \in SUBSET valid :
            /\ \A x \in valid : x \in K <=> rank[x] < rank[s]
            /\ ClosedSet(K) /\ Solves(w, K, def', user', userPick')
      <3>1. ASSUME NEW x \in valid, rank[x] < rank[s]
            PROVE  /\ w[x] = curr[x]
                   /\ x \in Choice => userPick'[x] = userPick[x]
                   /\ x \notin Choice /\ ~ IsChoiceValue(x) =>
                        def'[x] = def[x] /\ (x \in user') = (x \in user)
        <4>1. x \in Sym /\ x # s
          BY <1>1, <1>10, <3>1
        <4> QED BY <1>1, <1>8, <1>12, <4>1, PutOthers
      <3> QED BY <1>1, <3>1, SolvedBelow
    <2>2. Operands(s) \subseteq K
      BY <1>1, <1>10, <2>1 DEF Acyclic
    <2>3. \A A, x, k : x \in A => Tri0(s, w, t, x \in A, k) = t
      <3>1. ~ (IsChoiceValue(s) /\ Visibility(s, w) = yes)
        BY <1>12
      <3>2. \A A, x, k : x \in A => Tri0(s, w, t, x \in A, k) = Promote(Or3(And3(t, yes), no), TRUE)
        <4>1. no # yes
          BY DEF no, yes
        <4> QED BY <1>1, <1>9, <3>1, <4>1, TriTwo, Zenon
      <3>3. Promote(Or3(And3(t, yes), no), TRUE) = t
        BY <1>6 DEF Promote, Or3, And3, no, mod, yes
      <3> QED BY <3>2, <3>3
    <2>4. w[s] = ValueIn(s, w, def'[s], s \in user', userPick'[ChoiceOf(s)])
      <3> DEFINE k == PickOfChoice(ChoiceOf(s), w, userPick'[ChoiceOf(s)]) = s
      <3>1. Tri0(s, w, t, s \in user', k) = t
        <4> HIDE DEF k
        <4> QED BY <1>1, <2>3
      <3>2. ValueIn(s, w, def'[s], s \in user', userPick'[ChoiceOf(s)]) = Tri0(s, w, def'[s], s \in user', k)
        BY <1>5, Zenon DEF ValueIn
      <3> HIDE DEF k
      <3> QED BY <1>1, <1>8, <3>1, <3>2
    <2>5. ClosedSet(K \cup {s}) /\ Solves(w, K \cup {s}, def', user', userPick')
      BY <1>1, <2>1, <2>2, <2>4, OneMore
    <2> QED BY <1>1, <1>10, <1>11, <2>5
  <1>13. CASE IsChoiceValue(s)
    <2>1. PICK c \in Choice : c = ChoiceOf(s)
      BY <1>1, <1>13, OperandsOf
    <2>2. /\ t = yes /\ userPick'[c] = s /\ s # NoSym /\ s \in Values(c)
      <3>1. t = yes
        BY <1>2, <1>3, <1>13 DEF WithinRange
      <3>2. userPick' = [userPick EXCEPT ![ChoiceOf(s)] = s]
        BY <1>13, <3>1, Zenon DEF PutTristate
      <3> QED BY <1>1, <1>13, <2>1, <3>1, <3>2, OperandsOf, SortAssumption DEF TypeOK
    <2>3. /\ c \in valid /\ c \in Sym /\ c # s /\ c \notin Ints /\ rank[c] < rank[s]
          /\ c \in Uses(s)
      BY <1>1, <1>5, <1>10, <1>13, <2>1, <2>2, OperandsOf, SortAssumption, ChoiceAssumption DEF Acyclic
    <2>4. ASSUME NEW x \in valid, rank[x] < rank[c]
          PROVE  /\ w[x] = curr[x]
                 /\ x \in Choice => userPick'[x] = userPick[x]
                 /\ x \notin Choice /\ ~ IsChoiceValue(x) =>
                      def'[x] = def[x] /\ (x \in user') = (x \in user)
      <3>1. x \in Sym /\ x # s /\ x # c
        BY <1>1, <1>10, <2>3, <2>4
      <3> QED BY <1>1, <1>8, <2>1, <3>1, PutOthers
    <2>5. PICK K \in SUBSET valid :
            /\ \A x \in valid : x \in K <=> rank[x] < rank[c]
            /\ ClosedSet(K) /\ Solves(w, K, def', user', userPick')
      BY <2>3, <2>4, SolvedBelow
    <2>6. Operands(c) \subseteq K /\ \A x \in Operands(c) : w[x] = curr[x]
      BY <1>10, <2>3, <2>4, <2>5 DEF Acyclic
    <2>7. Operands(s) \subseteq K \cup {c}
      <3>1. Uses(s) \ {c} \subseteq Operands(c)
        BY <2>2, <2>3, OperandsOf
      <3>2. {Modules} \ {NoSym, s} \subseteq Operands(c) \cup {c}
        BY DEF Operands
      <3>3. Operands(s) = Uses(s) \cup ({Modules} \ {NoSym, s})
        BY <1>5, Zenon DEF Operands
      <3> QED BY <2>6, <3>1, <3>2, <3>3
    <2>8. ChoiceTri(c, w) = yes /\ curr[c] = yes
      <3>1. CurrSolved
        BY CacheSolves
      <3>2. curr[c] = IF ChoiceTri(c, curr) = yes /\ NoneSeen(c, curr) THEN no ELSE ChoiceTri(c, curr)
        BY <2>3, <3>1, Zenon DEF CurrSolved, Solves, ValueIn
      <3>3. curr[c] # no
        <4>1. Attr(s, curr).prompt # no
          BY <1>1, <1>3, TwoValued DEF Promote, no, mod, yes
        <4> QED BY <1>1, <2>2, <4>1, AttrAssumption
      <3>4. ChoiceTri(c, curr) \in {no, yes}
        BY <1>1, ChoiceTriTwo
      <3>5. ChoiceTri(c, w) = ChoiceTri(c, curr)
        BY <1>1, <2>6, SeenSame
      <3> QED BY <3>2, <3>3, <3>4, <3>5
    <2>9. Visibility(s, AsChosen(c, w)) = yes
      <3>1. PICK x \in Valuation : x = AsChosen(c, w)
        BY <1>8, <2>3, TriIsVal DEF Valuation, AsChosen
      <3>2. \A y \in Uses(s) : x[y] = curr[y]
        BY <1>9, <2>3, <2>8, <3>1 DEF AsChosen, Valuation
      <3> QED BY <1>1, <1>3, <3>1, <3>2, SameFields
    <2>10. PickOfChoice(c, w, s) = s
      <3> DEFINE vis == [x \in Sym |-> Visibility(x, AsChosen(c, w))]
      <3>1. vis[s] # no
        BY <1>1, <2>9 DEF no, yes
      <3>2. PickIn(c, w, s) = Pick0(c, vis, AsChosen(c, w), s)
        BY DEF PickIn
      <3> HIDE DEF vis
      <3>3. PickIn(c, w, s) = s
        BY <2>2, <3>1, <3>2, Zenon DEF Pick0
      <3> QED BY <2>8, <3>3 DEF PickOfChoice
    <2>11. w[c] = ValueIn(c, w, def'[c], c \in user', userPick'[ChoiceOf(c)])
      <3>1. ~ NoneSeen(c, w) /\ w[c] = yes
        BY <1>8, <2>2, <2>3, <2>8, <2>9 DEF NoneSeen, no, yes
      <3> QED BY <2>3, <2>8, <3>1, Zenon DEF ValueIn
    <2>12. ClosedSet(K \cup {c}) /\ Solves(w, K \cup {c}, def', user', userPick')
      BY <2>3, <2>5, <2>6, <2>11, OneMore
    <2>13. w[s] = ValueIn(s, w, def'[s], s \in user', userPick'[ChoiceOf(s)])
      BY <1>5, <1>8, <1>9, <1>13, <2>1, <2>2, <2>10, Zenon DEF ValueIn, Tri0
    <2>14. /\ ClosedSet((K \cup {c}) \cup {s})
           /\ Solves(w, (K \cup {c}) \cup {s}, def', user', userPick')
      BY <1>1, <2>7, <2>12, <2>13, OneMore
    <2> QED BY <1>1, <1>10, <1>11, <2>3, <2>5, <2>14
  <1> QED BY <1>12, <1>13
\* A symbol that has the value asked for.
LEMMA SameHonoured ==
    ASSUME BoolMenu, CacheInv', NEW s, s \in valid', NEW t, curr'[s] = t
    PROVE  Honoured(s, t)'
  <1>1. /\ curr' \in Valuation /\ ClosedSet(valid')
        /\ Solves(curr', valid', def', user', userPick')
    BY CacheSolvesThen DEF CurrSolved
  <1>2. valid' \in SUBSET Sym
    BY <1>1 DEF ClosedSet
  <1> QED BY <1>1, <1>2 DEF Honoured, Solves

\* An int that is set.
LEMMA StringHonoured ==
    ASSUME BoolMenu, NEW rank \in [Sym -> Nat], Acyclic(rank), CacheInv, TypeOK',
           NEW s \in Sym, NEW n \in Val, SetString(s, n)
    PROVE  Honoured(s, n)'
  <1>1. /\ TypeOK /\ s \in valid /\ s \in Ints /\ s \notin Choice /\ ~ IsChoiceValue(s)
        /\ curr \in Valuation /\ Attr(s, curr).lo <= n /\ n <= Attr(s, curr).hi
        /\ def' = [def EXCEPT ![s] = n] /\ user' = user \cup {s} /\ userPick' = userPick
    BY SortAssumption, OperandsOf DEF SetString, CacheInv, TypeOK
  <1>2. def'[s] = n /\ \A x \in Sym : x # s => def'[x] = def[x]
    BY <1>1 DEF TypeOK, Valuation
  <1>3. PICK w \in Valuation :
          w = IF Visibility(s, curr) = no THEN curr ELSE [curr EXCEPT ![s] = n]
    BY <1>1 DEF Valuation
  <1>4. /\ \A x \in Sym : x # s => w[x] = curr[x]
        /\ Visibility(s, curr) # no => w[s] = n
        /\ Visibility(s, curr) = no => w = curr
    BY <1>1, <1>3 DEF Valuation
  <1>5. \A x \in valid : x \in Sym /\ Operands(x) \subseteq valid
    BY DEF CacheInv, TypeOK, Closed
  <1>6. Attr(s, w) = Attr(s, curr) /\ Visibility(s, w) = Visibility(s, curr)
    <2>1. \A x \in Uses(s) : w[x] = curr[x]
      BY <1>4, OperandsOf, AttrAssumption
    <2> QED BY <1>1, <2>1, Local, SameFields
  <1>7. PICK K \in SUBSET valid :
          /\ \A x \in valid : x \in K <=> rank[x] < rank[s]
          /\ ClosedSet(K) /\ Solves(w, K, def', user', userPick')
    <2>1. ASSUME NEW x \in valid, rank[x] < rank[s]
          PROVE  /\ w[x] = curr[x]
                 /\ x \in Choice => userPick'[x] = userPick[x]
                 /\ x \notin Choice /\ ~ IsChoiceValue(x) =>
                      def'[x] = def[x] /\ (x \in user') = (x \in user)
      BY <1>1, <1>2, <1>4, <1>5, <2>1
    <2> QED BY <2>1, SolvedBelow
  <1>8. w[s] = ValueIn(s, w, def'[s], s \in user', userPick'[ChoiceOf(s)])
    <2>1. s \in user'
      BY <1>1
    <2>2. ValueIn(s, w, def'[s], s \in user', userPick'[ChoiceOf(s)]) = Int0(s, w, n, s \in user')
      BY <1>1, <1>2 DEF ValueIn
    <2>3. CASE Visibility(s, curr) = no
      <3>1. curr[s] = Int0(s, curr, def[s], s \in user)
        BY <1>1, FreshNow, NowThen DEF CacheInv, AllFresh
      <3>2. \A d, e, u, v : Int0(s, curr, d, u) = Int0(s, curr, e, v)
        BY <2>3, Zenon DEF Int0
      <3> QED BY <1>4, <2>2, <2>3, <3>1, <3>2
    <2>4. CASE Visibility(s, curr) # no
      <3> DEFINE a == Attr(s, curr)
      <3>1. a.lo \in Int /\ a.hi \in Int /\ n \in Int
        BY <1>1, AttrTypes, ValIsInt
      <3>2. Int0(s, w, n, s \in user') = IF n < a.lo THEN a.lo ELSE IF n > a.hi THEN a.hi ELSE n
        BY <1>6, <2>1, <2>4, Zenon DEF Int0
      <3> HIDE DEF a
      <3>3. Int0(s, w, n, s \in user') = n
        BY <1>1, <3>1, <3>2 DEF a
      <3> QED BY <1>4, <2>2, <2>4, <3>3
    <2> QED BY <2>3, <2>4
  <1>9. Operands(s) \subseteq K
    BY <1>1, <1>5, <1>7 DEF Acyclic
  <1>10. PICK L \in SUBSET Sym :
           L = K \cup {s} /\ ClosedSet(L) /\ Solves(w, L, def', user', userPick')
    <2>1. ClosedSet(K \cup {s}) /\ Solves(w, K \cup {s}, def', user', userPick')
      BY <1>7, <1>8, <1>9, OneMore
    <2> QED BY <1>5, <2>1
  <1> QED BY <1>1, <1>4, <1>6, <1>10 DEF Honoured, Solves

\* Forgetting that a choice was set changes no value.
LEMMA StillHonoured ==
    ASSUME BoolMenu, TypeOK, NEW s, NEW t, Honoured(s, t), def' = def, userPick' = userPick,
           \A x \in Sym \ Choice : (x \in user') = (x \in user)
    PROVE  Honoured(s, t)'
  <1>1. PICK w \in Valuation, K \in SUBSET Sym :
          /\ s \in K /\ ClosedSet(K)
          /\ Solves(w, K, def, user, userPick)
          /\ w[s] = t \/ (s \in Ints /\ Visibility(s, w) = no)
    BY Zenon DEF Honoured
  <1>2. PickType(userPick)
    BY DEF TypeOK, PickType
  <1>3. Solves(w, K, def', user', userPick')
    BY <1>1, <1>2, OtherRequests
  <1> QED BY <1>1, <1>3 DEF Honoured, Solves

LEMMA EditAsks ==
    ASSUME BoolMenu, NEW rank \in [Sym -> Nat], Acyclic(rank), CacheInv, CacheInv', Edit
    PROVE  AskedInv'
  <1>1. TypeOK /\ TypeOK' /\ valid \subseteq Sym
    BY DEF CacheInv, TypeOK
  <1>2. PICK s \in Sym : \/ \E t \in Tri : SetTristate(s, t)
                         \/ Toggle(s)
                         \/ \E n \in Val : SetString(s, n)
    BY DEF Edit
  <1>3. ASSUME NEW t \in Tri, s \in valid \ Ints, pc = "edit", Accepts(s, t), PutTristate(s, t)
        PROVE  AskedInv'
    <2>1. asked' = <<s, t>> /\ pc' = "edit" /\ curr' = curr
      BY <1>3 DEF PutTristate, cacheVars
    <2>2. CASE curr[s] = t
      <3>1. valid' = valid
        BY <1>3, <2>2 DEF PutTristate
      <3>2. Honoured(s, t)'
        BY <1>3, <2>1, <2>2, <3>1, SameHonoured
      <3> QED BY <2>1, <3>2 DEF AskedInv
    <2>3. CASE WithinRange(s, t)
      <3>1. Honoured(s, t)'
        BY <1>1, <1>3, <2>3, SetHonoured
      <3> QED BY <2>1, <3>1 DEF AskedInv
    <2> QED BY <1>3, <2>2, <2>3 DEF Accepts
  <1>4. CASE Toggle(s)
    <2>1. PICK t \in Tri : Accepts(s, t) /\ PutTristate(s, t)
      BY <1>1, <1>4, ToggleValue
    <2> QED BY <1>3, <1>4, <2>1 DEF Toggle
  <1>5. ASSUME NEW n \in Val, SetString(s, n) PROVE AskedInv'
    <2>1. asked' = <<s, n>> /\ pc' = "edit"
      BY <1>5 DEF SetString
    <2>2. Honoured(s, n)'
      BY <1>1, <1>5, StringHonoured
    <2> QED BY <2>1, <2>2 DEF AskedInv
  <1> QED BY <1>2, <1>3, <1>4, <1>5 DEF SetTristate

LEMMA AskedStep ==
    ASSUME BoolMenu, NEW rank \in [Sym -> Nat], Acyclic(rank), CacheInv, CacheInv',
           AskedInv, [Next]_vars
    PROVE  AskedInv'
  <1>1. TypeOK
    BY DEF CacheInv
  <1>2. ASSUME asked' = asked, pc' = pc \/ pc' # "read", def' = def, userPick' = userPick,
               \A x \in Sym \ Choice : (x \in user') = (x \in user)
        PROVE  AskedInv'
    <2> SUFFICES ASSUME asked' # <<>> PROVE pc' # "read" /\ Honoured(asked[1], asked[2])'
      BY <1>2, Zenon DEF AskedInv, Honoured
    <2>1. pc # "read" /\ Honoured(asked[1], asked[2])
      BY <1>2 DEF AskedInv
    <2> QED BY <1>1, <1>2, <2>1, StillHonoured
  <1>3. CASE Calc
    <2>1. PICK c \in Sym : CalcSymbol(c) \/ CalcChoice(c)
      BY <1>3 DEF Calc
    <2>2. /\ asked' = asked /\ pc' = pc /\ def' = def /\ userPick' = userPick
          /\ user' = user \/ (c \in Choice /\ user' = user \ {c})
      BY <2>1 DEF CalcSymbol, CalcChoice, histVars, userVars
    <2> QED BY <1>2, <2>2
  <1>4. CASE Edit
    BY <1>4, EditAsks
  <1>5. CASE ReadAny
    BY <1>5 DEF ReadAny, Read, AskedInv
  <1>6. CASE FinishRead
    BY <1>6 DEF FinishRead, histVars, AskedInv
  <1>7. CASE ReadMissing \/ Write \/ FinishWrite \/ FailWrite \/ UNCHANGED vars
    <2>1. /\ asked' = asked /\ (pc' = pc \/ pc' # "read")
          /\ def' = def /\ userPick' = userPick /\ user' = user
      BY <1>7 DEF ReadMissing, Write, FinishWrite, FailWrite, vars, userVars, histVars
    <2> QED BY <1>2, <2>1
  <1> QED BY <1>3, <1>4, <1>5, <1>6, <1>7 DEF Next

\* In every menu without tristates and without circular dependencies whose
\* choices are not optional: a request that is accepted is the value the symbol
\* has whenever it is calculated again, until the next request or conf_read.
THEOREM RequestsAreHonoured ==
    ASSUME BoolMenu, NEW rank \in [Sym -> Nat], Acyclic(rank)
    PROVE  Spec => []RequestHonoured
  <1>1. Init => CacheInv /\ StringsKept /\ AskedInv
    BY CacheKept DEF Init, AskedInv
  <1>2. CacheInv /\ StringsKept /\ AskedInv /\ [Next]_vars => (CacheInv /\ StringsKept /\ AskedInv)'
    BY CacheKept, AskedStep
  <1>3. CacheInv /\ AskedInv => RequestHonoured
    <2> SUFFICES ASSUME CacheInv, AskedInv, asked # <<>>, asked[1] \in valid
                 PROVE  \/ curr[asked[1]] = asked[2]
                        \/ asked[1] \in Ints /\ visible[asked[1]] = no
      BY DEF RequestHonoured
    <2>1. PICK w \in Valuation, K \in SUBSET Sym :
            /\ asked[1] \in K /\ ClosedSet(K)
            /\ Solves(w, K, def, user, userPick)
            /\ w[asked[1]] = asked[2] \/ (asked[1] \in Ints /\ Visibility(asked[1], w) = no)
      BY Zenon DEF AskedInv, Honoured
    <2>2. CurrSolved
      BY CacheSolves
    <2>3. \A s \in valid \cap K : curr[s] = w[s]
      BY <2>1, <2>2, Unique DEF CurrSolved
    <2>4. CASE w[asked[1]] = asked[2]
      BY <2>1, <2>3, <2>4
    <2>5. CASE asked[1] \in Ints /\ Visibility(asked[1], w) = no
      <3>1. PICK s \in valid \cap K : s = asked[1]
        BY <2>1
      <3>2. s \in Sym /\ \A x \in Uses(s) : curr[x] = w[x]
        BY <2>1, <2>2, <2>3, OperandsOf DEF CurrSolved, ClosedSet
      <3>3. Visibility(s, curr) = Visibility(s, w)
        BY <2>2, <3>2, SameFields DEF CurrSolved
      <3>4. visible[s] = Visibility(s, curr)
        BY <3>2, FreshNow DEF CacheInv, AllFresh
      <3> QED BY <2>5, <3>1, <3>3, <3>4
    <2> QED BY <2>1, <2>4, <2>5
  <1> QED BY <1>1, <1>2, <1>3, PTL DEF Spec
-----------------------------------------------------------------------------
(* What is saved is what is read back.                                       *)

\* The file is what conf_write makes of a solution of the user's requests
\* whose named values are g.
FileHolds(g) ==
    \E w \in Valuation, K \in SUBSET Sym :
        /\ Named \subseteq K /\ ClosedSet(K)
        /\ Solves(w, K, def, user, userPick)
        /\ \A s \in Named : /\ w[s] = g[s]
                            /\ disk[s] = IF Written(s, w) THEN w[s] ELSE Unset

SavedInv == saved # <<>> => FileHolds(saved)

LinesInv ==
    /\ changed \/ pc = "read" => LinesWritten
    /\ pc = "write" => changed

LEMMA LinesStep ==
    ASSUME BoolMenu, "rename" \notin Faults, CacheInv, CacheInv', LinesInv, [Next]_vars
    PROVE  LinesInv'
  <1>1. TypeOK /\ TypeOK' /\ Closed /\ FixedRanges /\ Modules \notin Tristate
    BY DEF CacheInv, BoolMenu
  <1>2. ASSUME curr' = curr, write' = write, valid' \subseteq valid,
               (valid' = {}) \/ (changed' \/ pc' = "read" => changed \/ pc = "read"),
               pc' = "write" => changed'
        PROVE  LinesInv'
    BY <1>2 DEF LinesInv, LinesWritten
  <1>3. CASE Calc
    <2>1. PICK x : CalcOf(x)
      BY <1>1, <1>3, CalcSymbolOf, CalcChoiceOf DEF Calc
    <2>2. changed' = changed /\ pc' = pc
      BY <2>1 DEF CalcOf
    <2> QED BY <1>1, <2>1, <2>2, CalcLines DEF LinesInv
  <1>4. CASE Edit
    <2>1. /\ curr' = curr /\ write' = write /\ pc = "edit" /\ pc' = pc
          /\ valid' = {} \/ (valid' = valid /\ changed' = changed)
      BY <1>4, Zenon DEF Edit, SetTristate, Toggle, SetString, PutTristate, ClearAllValid, cacheVars
    <2>2. CASE valid' = {}
      BY <1>2, <2>1, <2>2
    <2>3. CASE valid' = valid /\ changed' = changed
      BY <1>2, <2>1, <2>3
    <2> QED BY <2>1, <2>2, <2>3
  <1>5. CASE ReadAny
    BY <1>2, <1>5 DEF ReadAny, Read, cacheVars
  <1>6. CASE ReadMissing \/ FinishRead
    BY <1>2, <1>6 DEF ReadMissing, FinishRead, cacheVars
  <1>7. CASE Write
    BY <1>2, <1>7 DEF Write, ClearAllValid, cacheVars
  <1>8. CASE FinishWrite
    BY <1>8 DEF FinishWrite, LinesInv
  <1>9. CASE UNCHANGED vars
    BY <1>2, <1>9 DEF vars, cacheVars, fileVars, LinesInv
  <1>10. ~ FailWrite
    BY DEF FailWrite
  <1> QED BY <1>3, <1>4, <1>5, <1>6, <1>7, <1>8, <1>9, <1>10 DEF Next

\* The values of a solved choice: the one it picks is `y', the others `n'.
LEMMA SolvedChoice ==
    ASSUME BoolMenu, NEW w \in Valuation, NEW K, ClosedSet(K), Named \subseteq K,
           NEW D, NEW U, NEW E, PickType(E), Solves(w, K, D, U, E),
           NEW c \in Choice, NEW s \in Values(c), Visibility(s, w) = yes
    PROVE  /\ ChoiceTri(c, w) = yes /\ AsChosen(c, w) = w
           /\ PickIn(c, w, E[c]) \in Values(c)
           /\ Visibility(PickIn(c, w, E[c]), w) = yes
           /\ \A x \in Values(c) : w[x] = yes <=> x = PickIn(c, w, E[c])
  <1>1. /\ Values(c) \subseteq Named /\ Values(c) \cap Ints = {} /\ Values(c) \subseteq Sym
        /\ c \in Sym /\ c \notin Ints /\ E[c] \in Values(c) \cup {NoSym}
        /\ NoSym \notin Values(c) /\ no # yes
    BY SortAssumption, ChoiceAssumption DEF PickType, Named, no, yes
  <1>2. \A x \in Values(c) : IsChoiceValue(x) /\ ChoiceOf(x) = c
    <2> TAKE x \in Values(c)
    <2>1. IsChoiceValue(x) /\ x \in Sym
      BY <1>1 DEF IsChoiceValue
    <2> QED BY <2>1, OperandsOf, ChoiceAssumption
  <1>3. c \in K
    BY <1>1, <1>2, OperandsOf DEF ClosedSet
  <1>4. w[c] = IF ChoiceTri(c, w) = yes /\ NoneSeen(c, w) THEN no ELSE ChoiceTri(c, w)
    BY <1>1, <1>3, Zenon DEF Solves, ValueIn
  <1>5. w[c] # no
    <2>1. Attr(s, w).prompt # no
      BY <1>1, TwoValued DEF Promote, no, mod, yes
    <2> QED BY <2>1, AttrAssumption
  <1>6. ChoiceTri(c, w) = yes /\ w[c] = yes
    <2>1. ChoiceTri(c, w) \in {no, yes}
      BY ChoiceTriTwo
    <2> QED BY <1>4, <1>5, <2>1
  <1>7. AsChosen(c, w) = w
    BY <1>6 DEF AsChosen, Valuation
  <1>8. PICK p \in Values(c) \cup {NoSym} : p = PickIn(c, w, E[c])
    BY <1>1, PickInSeen
  <1>9. p \in Values(c) /\ Visibility(p, w) = yes
    <2>1. ~ NoneSeen(c, w)
      BY <1>1, <1>7 DEF NoneSeen
    <2>2. p # NoSym /\ Visibility(p, w) # no
      BY <1>1, <1>7, <1>8, <2>1, PickInSeen
    <2> QED BY <1>1, <2>2, TwoValued
  <1>10. ASSUME NEW x \in Values(c) PROVE w[x] = yes <=> x = p
    <2> DEFINE u == x \in U
               k == p = x
    <2>1. w[x] = Tri0(x, w, D[x], u, k)
      <3>1. x \in K /\ x \notin Ints /\ x \notin Choice
        BY <1>1 DEF Named
      <3>2. PickOfChoice(ChoiceOf(x), w, E[ChoiceOf(x)]) = p
        BY <1>2, <1>6, <1>8 DEF PickOfChoice
      <3> QED BY <3>1, <3>2, Zenon DEF Solves, ValueIn
    <2>2. CASE Visibility(x, w) = yes
      <3>1. w[x] = IF k THEN yes ELSE no
        BY <1>2, <2>1, <2>2, Zenon DEF Tri0
      <3> QED BY <1>1, <3>1
    <2>3. CASE Visibility(x, w) # yes
      <3> HIDE DEF u, k
      <3>1. w[x] = no
        BY <1>1, <1>2, <2>1, <2>3, HiddenValueIsNo
      <3> QED BY <1>1, <1>9, <2>3, <3>1
    <2> QED BY <2>2, <2>3
  <1> QED BY <1>6, <1>7, <1>8, <1>9, <1>10

\* Reading the file that conf_write makes of a solution asks for the same
\* solution.
LEMMA ReadBack ==
    ASSUME BoolMenu, NEW w \in Valuation, NEW K, ClosedSet(K), Named \subseteq K,
           NEW D \in Valuation, NEW U, NEW E, PickType(E), Solves(w, K, D, U, E),
           NEW f, \A s \in Named : f[s] = IF Written(s, w) THEN w[s] ELSE Unset
    PROVE  Solves(w, K, DefOf(f), UserOf(f), PickOf(f))
  <1> SUFFICES ASSUME NEW s \in K
               PROVE  w[s] = ValueIn(s, w, DefOf(f)[s], s \in UserOf(f), PickOf(f)[ChoiceOf(s)])
    BY DEF Solves
  <1> DEFINE a == s \in U
             b == s \in UserOf(f)
  <1>1. s \in Sym /\ w[s] = ValueIn(s, w, D[s], a, E[ChoiceOf(s)])
    BY DEF Solves, ClosedSet
  <1>2. ASSUME s \notin Choice, Visibility(s, w) # no
        PROVE  f[s] = w[s] /\ DefOf(f)[s] = w[s] /\ b
    <2>1. s \in Named /\ Written(s, w)
      BY <1>1, <1>2 DEF Named, Written
    <2>2. w[s] # Unset /\ f[s] = w[s]
      BY <1>1, <2>1, TriIsVal DEF Valuation
    <2> QED BY <1>1, <1>2, <2>1, <2>2 DEF DefOf, UserOf
  <1> HIDE DEF a, b
  <1>3. CASE s \in Choice \/ (~ IsChoiceValue(s) /\ Visibility(s, w) = no)
    <2>1. ~ IsChoiceValue(s)
      BY <1>1, <1>3, OperandsOf
    <2>2. ValueIn(s, w, D[s], a, E[ChoiceOf(s)])
            = ValueIn(s, w, DefOf(f)[s], b, PickOf(f)[ChoiceOf(s)])
      BY <1>1, <1>3, <2>1, ValueAny
    <2> QED BY <1>1, <2>2 DEF b
  <1>4. CASE s \in Ints /\ Visibility(s, w) # no
    <2> DEFINE r == Attr(s, w)
               n == IF a THEN D[s] ELSE r.dflt
    <2>1. s \notin Choice
      BY <1>4, SortAssumption
    <2>2. r.lo \in Int /\ r.hi \in Int /\ r.lo <= r.hi /\ n \in Int
      BY <1>1, AttrTypes, AttrAssumption, ValIsInt DEF Valuation
    <2>3. w[s] = Int0(s, w, D[s], a)
      BY <1>1, <1>4 DEF ValueIn
    <2>4. w[s] = IF n < r.lo THEN r.lo ELSE IF n > r.hi THEN r.hi ELSE n
      BY <1>4, <2>3, Zenon DEF Int0
    <2>5. Int0(s, w, w[s], TRUE) = IF w[s] < r.lo THEN r.lo ELSE IF w[s] > r.hi THEN r.hi ELSE w[s]
      BY <1>4, Zenon DEF Int0
    <2> HIDE DEF r, n
    <2>6. Int0(s, w, w[s], TRUE) = w[s]
      <3>1. \A x \in Int : x = (IF n < r.lo THEN r.lo ELSE IF n > r.hi THEN r.hi ELSE n) =>
              r.lo <= x /\ x <= r.hi
        BY <2>2
      <3>2. w[s] \in Int
        BY <1>1, ValIsInt DEF Valuation
      <3>3. r.lo <= w[s] /\ w[s] <= r.hi
        BY <2>4, <3>1, <3>2, Zenon
      <3>4. (IF w[s] < r.lo THEN r.lo ELSE IF w[s] > r.hi THEN r.hi ELSE w[s]) = w[s]
        BY <2>2, <3>2, <3>3
      <3> QED BY <2>5, <3>4, Zenon
    <2>7. ValueIn(s, w, w[s], TRUE, PickOf(f)[ChoiceOf(s)]) = w[s]
      BY <1>4, <2>6 DEF ValueIn
    <2>8. b = TRUE
      BY <1>2, <1>4, <2>1
    <2> QED BY <1>2, <1>4, <2>1, <2>7, <2>8 DEF b
  <1>5. CASE s \notin Ints /\ s \notin Choice /\ ~ IsChoiceValue(s) /\ Visibility(s, w) # no
    <2> DEFINE k == PickOfChoice(ChoiceOf(s), w, E[ChoiceOf(s)]) = s
               l == PickOfChoice(ChoiceOf(s), w, PickOf(f)[ChoiceOf(s)]) = s
    <2>1. D[s] \in Tri /\ w[s] \in Tri
      BY <1>1, <1>5 DEF Valuation
    <2>2. Tri0(s, w, D[s], a, k) = w[s]
      BY <1>1, <1>5, Zenon DEF ValueIn
    <2>3. \A x, y : Tri0(s, w, w[s], b, x) = Tri0(s, w, w[s], b, y)
      BY <1>5, Zenon DEF Tri0
    <2>4. ValueIn(s, w, w[s], b, PickOf(f)[ChoiceOf(s)]) = Tri0(s, w, w[s], b, l)
      BY <1>5, Zenon DEF ValueIn
    <2> HIDE DEF k, l
    <2>5. \A A, x : x \in A => Tri0(s, w, w[s], x \in A, k) = w[s]
      BY <1>1, <1>5, <2>1, <2>2, SameRequest
    <2>6. Tri0(s, w, w[s], b, k) = w[s]
      BY <1>2, <1>5, <2>5 DEF b
    <2> QED BY <1>2, <1>5, <2>3, <2>4, <2>6, Zenon DEF b
  <1>6. CASE IsChoiceValue(s) /\ Visibility(s, w) = no
    <2>1. \A d, u, e : ValueIn(s, w, d, u, e) = no
      <3>1. s \notin Ints /\ s \notin Choice
        BY <1>1, <1>6, OperandsOf
      <3>2. Visibility(s, w) # yes
        BY <1>6 DEF no, yes
      <3>3. \A d, u, k : Tri0(s, w, d, u, k) = no
        BY <1>1, <1>6, <3>2, HiddenValueIsNo
      <3> QED BY <3>1, <3>3 DEF ValueIn
    <2> QED BY <1>1, <2>1
  <1>7. CASE IsChoiceValue(s) /\ Visibility(s, w) # no
    <2>1. Visibility(s, w) = yes /\ s \notin Ints /\ s \notin Choice
      BY <1>1, <1>7, TwoValued, OperandsOf
    <2>2. PICK c \in Choice : c = ChoiceOf(s) /\ s \in Values(c)
      BY <1>1, <1>7, OperandsOf
    <2>3. PICK p \in Values(c) : p = PickIn(c, w, E[c])
      BY <2>1, <2>2, SolvedChoice
    <2>4. /\ ChoiceTri(c, w) = yes /\ AsChosen(c, w) = w /\ Visibility(p, w) = yes
          /\ \A x \in Values(c) : w[x] = yes <=> x = p
      BY <2>1, <2>2, <2>3, SolvedChoice
    <2>5. Values(c) \subseteq Named /\ p \in Sym /\ p # NoSym /\ no # yes
      BY ChoiceAssumption, SortAssumption DEF Named, no, yes
    <2>6. f[p] = yes /\ \A x \in Values(c) : f[x] = yes => x = p
      <3>1. Written(p, w)
        BY <2>4, <2>5 DEF Written
      <3>2. yes # Unset
        BY DEF yes, Unset
      <3> QED BY <2>4, <2>5, <3>1, <3>2
    <2>7. PickOf(f)[c] = p
      <3>1. Lines(c, f, yes) # {}
        <4>1. PICK i \in DOMAIN Members(c) : Members(c)[i] = p
          BY DEF Values
        <4> QED BY <2>6, <4>1 DEF Lines
      <3> QED BY <2>6, <3>1, PickOfType
    <2>8. PickIn(c, w, p) = p
      <3> DEFINE vis == [x \in Sym |-> Visibility(x, AsChosen(c, w))]
      <3>1. vis[p] # no
        BY <2>4, <2>5
      <3>2. PickIn(c, w, p) = Pick0(c, vis, AsChosen(c, w), p)
        BY DEF PickIn
      <3> HIDE DEF vis
      <3> QED BY <2>5, <3>1, <3>2, Zenon DEF Pick0
    <2> DEFINE k == p = s
    <2>9. \A d, u : /\ ValueIn(s, w, d, u, E[ChoiceOf(s)]) = Tri0(s, w, d, u, k)
                    /\ ValueIn(s, w, d, u, PickOf(f)[ChoiceOf(s)]) = Tri0(s, w, d, u, k)
      BY <2>1, <2>2, <2>3, <2>4, <2>7, <2>8, Zenon DEF ValueIn, PickOfChoice
    <2> HIDE DEF k
    <2>10. Tri0(s, w, D[s], a, k) = Tri0(s, w, DefOf(f)[s], b, k)
      BY <1>1, <1>7, ChoiceValueAnyUser
    <2> QED BY <1>1, <2>9, <2>10 DEF b
  <1> QED BY <1>3, <1>4, <1>5, <1>6, <1>7
LEMMA SavedStep ==
    ASSUME BoolMenu, NEW rank \in [Sym -> Nat], Acyclic(rank), "rename" \notin Faults,
           CacheInv, CacheInv', LinesInv, SavedInv, [Next]_vars
    PROVE  SavedInv'
  <1>1. TypeOK /\ PickType(userPick) /\ def \in Valuation
    BY DEF CacheInv, TypeOK, PickType
  <1> SUFFICES ASSUME saved' # <<>> PROVE FileHolds(saved)'
    BY DEF SavedInv
  <1>2. ASSUME saved' = saved
        PROVE  \E w \in Valuation, K \in SUBSET Sym :
                 /\ Named \subseteq K /\ ClosedSet(K) /\ Solves(w, K, def, user, userPick)
                 /\ \A s \in Named : /\ w[s] = saved[s]
                                     /\ disk[s] = IF Written(s, w) THEN w[s] ELSE Unset
    BY <1>2, Zenon DEF SavedInv, FileHolds
  <1>3. ASSUME saved' = saved, disk' = disk, NEW w \in Valuation, NEW K \in SUBSET Sym,
               Named \subseteq K, ClosedSet(K), Solves(w, K, def', user', userPick'),
               \A s \in Named : /\ w[s] = saved[s]
                                /\ disk[s] = IF Written(s, w) THEN w[s] ELSE Unset
        PROVE  FileHolds(saved)'
    BY <1>3, Zenon DEF FileHolds, Solves, Written
  <1>4. ASSUME saved' = saved, disk' = disk, def' = def, userPick' = userPick,
               \A x \in Sym \ Choice :
                  (x \in user') = (x \in user) \/ (x \in valid /\ visible[x] = no)
        PROVE  FileHolds(saved)'
    <2>1. PICK w \in Valuation, K \in SUBSET Sym :
            /\ Named \subseteq K /\ ClosedSet(K) /\ Solves(w, K, def, user, userPick)
            /\ \A s \in Named : /\ w[s] = saved[s]
                                /\ disk[s] = IF Written(s, w) THEN w[s] ELSE Unset
      BY <1>2, <1>4
    <2>2. CurrSolved
      BY CacheSolves
    <2>3. \A x \in valid \cap K : curr[x] = w[x]
      BY <2>1, <2>2, Unique DEF CurrSolved
    <2>4. ASSUME NEW x \in K, x \in valid, visible[x] = no PROVE Visibility(x, w) = no
      <3>1. x \in Sym /\ \A y \in Uses(x) : curr[y] = w[y]
        BY <2>1, <2>2, <2>3, <2>4, OperandsOf DEF CurrSolved, ClosedSet
      <3>2. visible[x] = Visibility(x, curr)
        BY <2>4, <3>1, FreshNow DEF CacheInv, AllFresh
      <3> QED BY <2>2, <2>4, <3>1, <3>2, SameFields DEF CurrSolved
    <2>5. Solves(w, K, def', user', userPick')
      BY <1>1, <1>4, <2>1, <2>4, OtherRequests
    <2> QED BY <1>3, <1>4, <2>1, <2>5
  <1>5. CASE Calc
    <2>1. PICK c \in Sym : CalcSymbol(c) \/ CalcChoice(c)
      BY <1>5 DEF Calc
    <2>2. /\ saved' = saved /\ disk' = disk /\ def' = def /\ userPick' = userPick
          /\ user' = user \/ (c \in Choice /\ user' = user \ {c})
      BY <2>1 DEF CalcSymbol, CalcChoice, histVars, userVars, fileVars
    <2> QED BY <1>4, <2>2
  <1>6. CASE Edit
    BY <1>6, Zenon DEF Edit, SetTristate, Toggle, SetString, PutTristate
  <1>7. CASE ReadAny
    <2>1. disk' = disk /\ saved' = saved
          /\ def' = DefOf(disk) /\ user' = UserOf(disk) /\ userPick' = PickOf(disk)
      BY <1>7 DEF ReadAny, Read
    <2>2. PICK w \in Valuation, K \in SUBSET Sym :
            /\ Named \subseteq K /\ ClosedSet(K) /\ Solves(w, K, def, user, userPick)
            /\ \A s \in Named : /\ w[s] = saved[s]
                                /\ disk[s] = IF Written(s, w) THEN w[s] ELSE Unset
      BY <1>2, <2>1
    <2>3. Solves(w, K, def', user', userPick')
      BY <1>1, <2>1, <2>2, ReadBack
    <2> QED BY <1>3, <2>1, <2>2, <2>3
  <1>8. CASE FinishRead
    <2> DEFINE hidden  == {s \in Sym : visible[s] = no /\ ~ IsChoiceValue(s)}
               outside == {s \in user \cap Ints :
                             def[s] < Attr(s, curr).lo \/ def[s] > Attr(s, curr).hi}
    <2>1. /\ user' = (IF Unsaved THEN user ELSE user \ hidden) \ outside /\ valid = Sym
          /\ valid' = valid \ outside
          /\ saved' = saved /\ disk' = disk /\ def' = def /\ userPick' = userPick
      BY <1>8 DEF FinishRead, histVars
    <2>2. outside = {}
      BY NothingOutside DEF CacheInv
    <2>3. \A x \in Sym : (x \in user') = (x \in user) \/ visible[x] = no
      <3>1. user' = user \/ user' = user \ hidden
        <4> HIDE DEF hidden, outside
        <4> QED BY <2>1, <2>2
      <3> QED BY <3>1
    <2> HIDE DEF hidden, outside
    <2> QED BY <1>4, <2>1, <2>3
  <1>9. CASE FinishWrite
    <2>1. /\ pc = "write" /\ Named \subseteq valid /\ disk' = Content
          /\ saved' = [s \in Named |-> curr[s]]
          /\ def' = def /\ user' = user /\ userPick' = userPick
      BY <1>9 DEF FinishWrite, userVars
    <2>2. CurrSolved /\ LinesWritten
      BY <2>1, CacheSolves DEF LinesInv
    <2>3. \A s \in Named : /\ curr[s] = saved'[s]
                           /\ disk'[s] = IF Written(s, curr) THEN curr[s] ELSE Unset
      BY <2>1, <2>2 DEF Content, LinesWritten
    <2>4. PICK w \in Valuation, K \in SUBSET Sym : w = curr /\ K = valid
      BY <2>2 DEF CurrSolved, ClosedSet
    <2>5. /\ ClosedSet(K) /\ Solves(w, K, def', user', userPick')
          /\ \A s \in Named : /\ w[s] = saved'[s]
                              /\ disk'[s] = IF Written(s, w) THEN w[s] ELSE Unset
      BY <2>1, <2>2, <2>3, <2>4 DEF CurrSolved
    <2> QED BY <2>1, <2>4, <2>5, Zenon DEF FileHolds, Solves, Written
  <1>10. CASE ReadMissing \/ Write \/ FailWrite \/ UNCHANGED vars
    <2>1. /\ saved' = saved /\ disk' = disk
          /\ def' = def /\ userPick' = userPick /\ user' = user
      BY <1>10 DEF ReadMissing, Write, FailWrite, vars, userVars, histVars, fileVars
    <2> QED BY <1>4, <2>1
  <1> QED BY <1>5, <1>6, <1>7, <1>8, <1>9, <1>10 DEF Next

\* In every menu without tristates and without circular dependencies whose
\* choices are not optional: reading the file that conf_write wrote gives every
\* named symbol the value it was written with, as long as no conf_write fails
\* to rename its file.
THEOREM SavedIsReadBack ==
    ASSUME BoolMenu, NEW rank \in [Sym -> Nat], Acyclic(rank), "rename" \notin Faults
    PROVE  Spec => []RoundTrip
  <1>1. Init => CacheInv /\ StringsKept /\ LinesInv /\ SavedInv
    BY CacheKept DEF Init, LinesInv, LinesWritten, SavedInv
  <1>2. CacheInv /\ StringsKept /\ LinesInv /\ SavedInv /\ [Next]_vars
          => (CacheInv /\ StringsKept /\ LinesInv /\ SavedInv)'
    BY CacheKept, LinesStep, SavedStep
  <1>3. CacheInv /\ SavedInv => RoundTrip
    <2> SUFFICES ASSUME CacheInv, SavedInv, saved # <<>>, Named \subseteq valid
                 PROVE  \A s \in Named : curr[s] = saved[s]
      BY DEF RoundTrip
    <2>1. PICK w \in Valuation, K \in SUBSET Sym :
            /\ Named \subseteq K /\ ClosedSet(K) /\ Solves(w, K, def, user, userPick)
            /\ \A s \in Named : w[s] = saved[s]
      BY Zenon DEF SavedInv, FileHolds
    <2>2. CurrSolved
      BY CacheSolves
    <2>3. \A s \in valid \cap K : curr[s] = w[s]
      BY <2>1, <2>2, Unique DEF CurrSolved
    <2> QED BY <2>1, <2>3
  <1> QED BY <1>1, <1>2, <1>3, PTL DEF Spec
=============================================================================
