----------------------------- MODULE ConfProofs -----------------------------
(* The line-oriented front end keeps its types, for every menu tree and in   *)
(* every mode; with KCONFIG_NOSILENTUPDATE it neither asks nor writes, and   *)
(* oldconfig and syncconfig ask for everything.                              *)
EXTENDS Conf, SymbolProofs

KidsOf(m) == {Kids(m)[i] : i \in DOMAIN Kids(m)}
-----------------------------------------------------------------------------
(* The recursions over the menu tree.                                        *)

\* What a recursion on sets adds up from below exists: each element adds what
\* is its own (base) and what the ones it goes on with (next) add.
LEMMA Fixpoint ==
    ASSUME NEW E, NEW base, base = [m \in E |-> base[m]], NEW next \in [E -> SUBSET E]
    PROVE  \E f : /\ f = [m \in E |-> f[m]]
                  /\ \A m \in E : f[m] = base[m] \cup UNION {f[k] : k \in next[m]}
<1> DEFINE U == UNION {base[m] : m \in E}
           Holds(g) == \A m \in E : base[m] \subseteq g[m] /\ \A k \in next[m] : g[k] \subseteq g[m]
           f == [m \in E |-> {x \in U : \A g \in [E -> SUBSET U] : Holds(g) => x \in g[m]}]
           h == [m \in E |-> base[m] \cup UNION {f[k] : k \in next[m]}]
<1>1. ASSUME NEW m \in E PROVE base[m] \subseteq f[m] /\ \A k \in next[m] : f[k] \subseteq f[m]
  <2>1. base[m] \subseteq f[m]
    OBVIOUS
  <2>2. ASSUME NEW k \in next[m] PROVE f[k] \subseteq f[m]
    <3>1. k \in E
      OBVIOUS
    <3> QED BY <3>1
  <2> QED BY <2>1, <2>2
<1>2. f \in [E -> SUBSET U]
  OBVIOUS
<1>3. h \in [E -> SUBSET U]
  <2> HIDE DEF f
  <2> QED BY <1>2
<1>4. \A m \in E : h[m] \subseteq f[m]
  <2> HIDE DEF f
  <2> QED BY <1>1
<1>5. Holds(h)
  <2> SUFFICES ASSUME NEW m \in E
               PROVE  base[m] \subseteq h[m] /\ \A k \in next[m] : h[k] \subseteq h[m]
    OBVIOUS
  <2>1. \A k \in next[m] : k \in E /\ f[k] \subseteq h[m]
    <3> HIDE DEF f
    <3> QED OBVIOUS
  <2>2. base[m] \subseteq h[m]
    <3> HIDE DEF f
    <3> QED OBVIOUS
  <2> HIDE DEF f, h
  <2> QED BY <1>4, <2>1, <2>2
<1>6. \A m \in E : f[m] \subseteq h[m]
  <2> HIDE DEF Holds, h
  <2> QED BY <1>3, <1>5
<1>7. \A m \in E : f[m] = base[m] \cup UNION {f[k] : k \in next[m]}
  <2> SUFFICES ASSUME NEW m \in E PROVE f[m] = base[m] \cup UNION {f[k] : k \in next[m]}
    OBVIOUS
  <2>1. f[m] = h[m]
    <3> HIDE DEF f, h
    <3> QED BY <1>4, <1>6
  <2> HIDE DEF f
  <2> QED BY <2>1
<1>8. f = [m \in E |-> f[m]]
  OBVIOUS
<1> HIDE DEF f
<1> QED BY <1>7, <1>8

\* Can an entry be seen through its children?
Carries(m) == SymOf(m) \notin Ints /\ curr[SymOf(m)] # no

\* menu_is_visible, as it is written.
LEMMA VisibleIs ==
    ASSUME NEW m \in Entries
    PROVE  Visible[m] <=>
             /\ Kind(m) # "none" /\ Shown(m, curr)
             /\ \/ OwnPromptVisible(m)
                \/ Carries(m) /\ \E i \in DOMAIN Kids(m) : Visible[Kids(m)[i]]
<1> DEFINE body(f, n) == /\ Kind(n) # "none" /\ Shown(n, curr)
                         /\ \/ OwnPromptVisible(n)
                            \/ Carries(n) /\ \E i \in DOMAIN Kids(n) : f[Kids(n)[i]]
           may(n) == Kind(n) # "none" /\ Shown(n, curr)
           base == [n \in Entries |-> IF may(n) /\ OwnPromptVisible(n) THEN {0} ELSE {}]
           next == [n \in Entries |-> IF may(n) /\ Carries(n) THEN KidsOf(n) ELSE {}]
<1>1. \A n \in Entries : \A i \in DOMAIN Kids(n) : Kids(n)[i] \in Entries
  BY TreeAssumption
<1>2. base = [n \in Entries |-> base[n]] /\ next \in [Entries -> SUBSET Entries]
  BY <1>1 DEF KidsOf
<1>3. PICK up : /\ up = [n \in Entries |-> up[n]]
                /\ \A n \in Entries : up[n] = base[n] \cup UNION {up[k] : k \in next[n]}
  <2> HIDE DEF base, next
  <2> QED BY <1>2, Fixpoint
<1> DEFINE vis == [n \in Entries |-> up[n] # {}]
<1>4. ASSUME NEW n \in Entries PROVE vis[n] <=> body(vis, n)
  <2>1. up[n] = base[n] \cup UNION {up[k] : k \in next[n]}
    BY <1>3
  <2>2. vis[n] <=> (base[n] # {} \/ \E k \in next[n] : up[k] # {})
    <3> HIDE DEF base, next
    <3> QED BY <2>1
  <2>3. \A i \in DOMAIN Kids(n) : vis[Kids(n)[i]] <=> up[Kids(n)[i]] # {}
    BY <1>1
  <2>4. base[n] # {} <=> may(n) /\ OwnPromptVisible(n)
    OBVIOUS
  <2>5. (\E k \in next[n] : up[k] # {}) <=>
           (may(n) /\ Carries(n) /\ \E i \in DOMAIN Kids(n) : up[Kids(n)[i]] # {})
    BY DEF KidsOf
  <2> HIDE DEF vis, base, next
  <2> QED BY <2>2, <2>3, <2>4, <2>5, Zenon
<1>5. vis = [n \in Entries |-> vis[n]] /\ \A n \in Entries : vis[n] \in BOOLEAN
  OBVIOUS
<1>6. Visible = CHOOSE f : f = [n \in Entries |-> body(f, n)]
  BY Zenon DEF Visible, Carries
<1>7. \A n \in Entries : body(vis, n) \in BOOLEAN
  OBVIOUS
<1> HIDE DEF vis, body
<1>8. \A n \in Entries : vis[n] = body(vis, n)
  BY <1>4, <1>5, <1>7
<1>9. vis = [n \in Entries |-> body(vis, n)]
  BY <1>5, <1>8, Zenon
<1>10. Visible = [n \in Entries |-> body(Visible, n)]
  BY <1>6, <1>9, Zenon
<1>11. Visible[m] = body(Visible, m)
  BY <1>10, Zenon
<1> QED BY <1>11 DEF body

\* An entry that is seen without its own prompt marks its symbol and goes on
\* with a child that is seen.
LEMMA TouchedIs ==
    ASSUME NEW m \in Entries
    PROVE  /\ ~ Visible[m] \/ OwnPromptVisible(m) => Touched[m] = {}
           /\ Visible[m] /\ ~ OwnPromptVisible(m) =>
                /\ SymOf(m) \in Sym
                /\ \E i \in DOMAIN Kids(m) : Touched[m] = {SymOf(m)} \cup Touched[Kids(m)[i]]
<1> DEFINE shut(n) == ~ Visible[n] \/ OwnPromptVisible(n)
           first(n) == CHOOSE i \in DOMAIN Kids(n) :
                          Visible[Kids(n)[i]] /\ \A j \in 1 .. (i - 1) : ~ Visible[Kids(n)[j]]
           body(f, n) == IF shut(n) THEN {}
                         ELSE LET i == first(n) IN {SymOf(n)} \cup f[Kids(n)[i]]
           base == [n \in Entries |-> IF shut(n) THEN {} ELSE {SymOf(n)}]
           next == [n \in Entries |-> IF shut(n) THEN {} ELSE {Kids(n)[first(n)]}]
<1>1. ASSUME NEW n \in Entries, ~ shut(n)
      PROVE  first(n) \in DOMAIN Kids(n) /\ Kids(n)[first(n)] \in Entries /\ SymOf(n) \in Sym
  <2>1. Kids(n) \in Seq(Entries) /\ SymOf(n) \in Sym \cup {NoSym}
    BY TreeAssumption
  <2>2. SymOf(n) \in Sym
    BY <1>1, <2>1, Zenon DEF OwnPromptVisible
  <2> DEFINE seen == {i \in DOMAIN Kids(n) : Visible[Kids(n)[i]]}
  <2>3. seen # {}
    BY <1>1, VisibleIs
  <2>4. seen \subseteq Nat
    BY <2>1
  <2>5. PICK i \in seen : \A j \in seen : i <= j
    <3> HIDE DEF seen
    <3> QED BY <2>3, <2>4, LeastNat
  <2>6. \A j \in 1 .. (i - 1) : ~ Visible[Kids(n)[j]]
    <3> SUFFICES ASSUME NEW j \in 1 .. (i - 1), Visible[Kids(n)[j]] PROVE FALSE
      OBVIOUS
    <3>1. i \in 1 .. Len(Kids(n)) /\ Len(Kids(n)) \in Nat /\ DOMAIN Kids(n) = 1 .. Len(Kids(n))
      BY <2>1, <2>5
    <3>2. j \in DOMAIN Kids(n)
      BY <3>1
    <3>3. j \in seen
      BY <3>2
    <3>4. i <= j
      BY <2>5, <3>3
    <3> QED BY <3>1, <3>4
  <2>7. first(n) \in DOMAIN Kids(n)
    BY <2>5, <2>6, Zenon
  <2> HIDE DEF first
  <2> QED BY <2>1, <2>2, <2>7
<1> HIDE DEF first
<1>2. base = [n \in Entries |-> base[n]] /\ next \in [Entries -> SUBSET Entries]
  BY <1>1
<1>3. PICK set : /\ set = [n \in Entries |-> set[n]]
                 /\ \A n \in Entries : set[n] = base[n] \cup UNION {set[k] : k \in next[n]}
  <2> HIDE DEF base, next
  <2> QED BY <1>2, Fixpoint
<1>4. ASSUME NEW n \in Entries PROVE set[n] = body(set, n)
  <2>1. set[n] = base[n] \cup UNION {set[k] : k \in next[n]}
    BY <1>3
  <2> QED BY <2>1
<1>5. set = [n \in Entries |-> set[n]]
  BY <1>3
<1>6. Touched = CHOOSE f : f = [n \in Entries |-> body(f, n)]
  BY Zenon DEF Touched, first
<1> HIDE DEF body
<1>7. set = [n \in Entries |-> body(set, n)]
  BY <1>4, <1>5, Zenon
<1>8. Touched = [n \in Entries |-> body(Touched, n)]
  BY <1>6, <1>7, Zenon
<1>9. Touched[m] = body(Touched, m)
  BY <1>8, Zenon
<1>10. CASE shut(m)
  BY <1>9, <1>10 DEF body
<1>11. CASE ~ shut(m)
  <2>1. Touched[m] = {SymOf(m)} \cup Touched[Kids(m)[first(m)]]
    BY <1>9, <1>11 DEF body
  <2> QED BY <1>1, <1>11, <2>1
<1> QED BY <1>10, <1>11

\* What menu_is_visible marks are symbols.
LEMMA TouchedType == ASSUME NEW m \in Entries PROVE Touched[m] \subseteq Sym
<1> DEFINE Bad == {n \in Entries : ~ (Touched[n] \subseteq Sym)}
<1> SUFFICES ASSUME Bad # {} PROVE FALSE
  OBVIOUS
<1>1. PICK n \in Bad : \A i \in DOMAIN Kids(n) : Kids(n)[i] \notin Bad
  <2>1. Bad \in (SUBSET Entries) \ {{}}
    OBVIOUS
  <2> HIDE DEF Bad
  <2> QED BY <2>1, TreeAssumption, Zenon
<1>2. ~ (~ Visible[n] \/ OwnPromptVisible(n))
  BY <1>1, TouchedIs
<1>3. PICK i \in DOMAIN Kids(n) : Touched[n] = {SymOf(n)} \cup Touched[Kids(n)[i]]
  BY <1>2, TouchedIs
<1>4. SymOf(n) \in Sym
  BY <1>2, TouchedIs
<1>5. Kids(n)[i] \in Entries
  BY TreeAssumption
<1> QED BY <1>1, <1>3, <1>4, <1>5

\* menu_get_parent_menu finds an entry.
LEMMA ParentMenuType == ASSUME NEW m \in Entries PROVE ParentMenu[m] \in Entries
<1> DEFINE top(n) == n = Root \/ Kind(n) = "menu"
           body(f, n) == IF top(n) THEN n ELSE f[Parent(n)]
           base == [n \in Entries |-> IF top(n) THEN {n} ELSE {}]
           next == [n \in Entries |-> IF top(n) THEN {} ELSE {Parent(n)}]
<1>1. ASSUME NEW n \in Entries, ~ top(n) PROVE Parent(n) \in Entries
  <2>1. \E p \in Entries : \E i \in DOMAIN Kids(p) : Kids(p)[i] = n
    BY <1>1, TreeAssumption
  <2> QED BY <2>1, Zenon DEF Parent
<1>2. base = [n \in Entries |-> base[n]] /\ next \in [Entries -> SUBSET Entries]
  BY <1>1
<1>3. PICK up : /\ up = [n \in Entries |-> up[n]]
                /\ \A n \in Entries : up[n] = base[n] \cup UNION {up[k] : k \in next[n]}
  <2> HIDE DEF base, next
  <2> QED BY <1>2, Fixpoint
<1>4. ASSUME NEW n \in Entries
      PROVE  /\ top(n) => up[n] = {n}
             /\ ~ top(n) => up[n] = up[Parent(n)]
  <2>1. up[n] = base[n] \cup UNION {up[k] : k \in next[n]}
    BY <1>3
  <2> QED BY <2>1
<1> DEFINE Bad == {n \in Entries : ~ (up[n] # {} /\ up[n] \subseteq Entries)}
<1>5. Bad = {}
  <2> SUFFICES ASSUME Bad # {} PROVE FALSE
    OBVIOUS
  <2>1. PICK n \in Bad : n = Root \/ Parent(n) \notin Bad
    <3>1. Bad \in (SUBSET Entries) \ {{}}
      OBVIOUS
    <3> HIDE DEF Bad
    <3> QED BY <3>1, TreeAssumption, Zenon
  <2> QED BY <1>1, <1>4, <2>1
<1> DEFINE found == [n \in Entries |-> CHOOSE x : x \in up[n]]
<1>6. ASSUME NEW n \in Entries PROVE found[n] = body(found, n) /\ found[n] \in Entries
  <2>1. found[n] \in up[n]
    BY <1>5
  <2>2. found[n] \in Entries
    <3>1. up[n] \subseteq Entries
      BY <1>5
    <3> HIDE DEF found
    <3> QED BY <2>1, <3>1
  <2>3. CASE top(n)
    BY <1>4, <2>1, <2>3
  <2>4. CASE ~ top(n)
    <3>1. found[n] = (CHOOSE x : x \in up[n])
      OBVIOUS
    <3>2. Parent(n) \in Entries
      BY <1>1, <2>4
    <3>3. found[Parent(n)] = (CHOOSE x : x \in up[Parent(n)])
      BY <3>2
    <3>4. up[n] = up[Parent(n)]
      BY <1>4, <2>4
    <3>5. found[n] = found[Parent(n)]
      <4> HIDE DEF found
      <4> QED BY <3>1, <3>3, <3>4, Zenon
    <3> HIDE DEF found
    <3> QED BY <2>2, <2>4, <3>5
  <2> QED BY <2>3, <2>4
<1>7. found = [n \in Entries |-> found[n]]
  OBVIOUS
<1>8. ParentMenu = CHOOSE f : f = [n \in Entries |-> body(f, n)]
  BY Zenon DEF ParentMenu
<1> HIDE DEF body, found
<1>9. found = [n \in Entries |-> body(found, n)]
  BY <1>6, <1>7, Zenon
<1>10. ParentMenu = [n \in Entries |-> body(ParentMenu, n)]
  BY <1>8, <1>9, Zenon
<1> DEFINE Lost == {n \in Entries : ParentMenu[n] \notin Entries}
<1> SUFFICES ASSUME Lost # {} PROVE FALSE
  OBVIOUS
<1>11. PICK n \in Lost : n = Root \/ Parent(n) \notin Lost
  <2>1. Lost \in (SUBSET Entries) \ {{}}
    OBVIOUS
  <2> HIDE DEF Lost
  <2> QED BY <2>1, TreeAssumption, Zenon
<1>12. ParentMenu[n] = body(ParentMenu, n)
  BY <1>10, Zenon
<1> QED BY <1>1, <1>11, <1>12 DEF body
-----------------------------------------------------------------------------
(* Every step keeps the types.                                               *)

Ops == {"conf", "check", "loop", "while", "write", "explicit", "new", "again",
        "clear", "minimal"}

ChoiceEntries == {m \in Entries : SymOf(m) \in Choice}

\* The calls: of the loop over the choices, of an entry that is a choice, and of
\* any entry.
CallType == [op : {"choice"}, m : Choice, new : BOOLEAN]
              \cup [op : {"pick"}, m : ChoiceEntries, new : BOOLEAN]
              \cup [op : Ops, m : Entries, new : BOOLEAN]

ConfTypeOK ==
    /\ TypeOK
    /\ mode \in InputModes \cup {"none"}
    /\ todo \in Seq(CallType)
    /\ conf_cnt \in BOOLEAN /\ has_changed \in BOOLEAN
    /\ rootEntry \in Entries
    /\ need \subseteq Choice
    /\ minimal \in ConfigFile /\ given \in ConfigFile
    /\ expected = <<>> \/ \E f \in ConfigFile : expected = <<f>>

LEMMA CallIs ==
    ASSUME NEW op \in Ops, NEW m \in Entries
    PROVE  Call(op, m) \in CallType /\ Below(op, m) \in Seq(CallType)
<1>1. \A k \in Entries : Call(op, k) \in CallType
  BY DEF Call, CallType
<1>2. Kids(m) \in Seq(Entries)
  BY TreeAssumption
<1> QED BY <1>1, <1>2 DEF Below

LEMMA CallsType == ASSUME NEW m PROVE Calls(m) \in Seq(CallType)
<1>1. \A op \in Ops : Call(op, Root) \in CallType
  BY TreeAssumption, CallIs
<1>2. /\ Call("conf", Root) \in CallType /\ Call("loop", Root) \in CallType
      /\ Call("write", Root) \in CallType /\ Call("explicit", Root) \in CallType
      /\ Call("clear", Root) \in CallType /\ Call("minimal", Root) \in CallType
      /\ Call("new", Root) \in CallType
  BY <1>1 DEF Ops
<1>3. \A x, y, z \in CallType :
         <<x>> \in Seq(CallType) /\ <<x, y>> \in Seq(CallType) /\ <<x, y, z>> \in Seq(CallType)
  OBVIOUS
<1> HIDE DEF CallType, Call
<1> QED BY <1>2, <1>3 DEF Calls

\* What is left after a call, and what is put before it.
LEMMA RestType ==
    ASSUME ConfTypeOK, todo # <<>>
    PROVE  /\ todo[1] \in CallType /\ Rest \in Seq(CallType)
           /\ \A q \in Seq(CallType) : q \o Rest \in Seq(CallType)
           /\ \A x \in CallType : <<x>> \o Rest \in Seq(CallType)
<1>1. todo \in Seq(CallType)
  BY DEF ConfTypeOK
<1> HIDE DEF CallType
<1>2. todo[1] \in CallType /\ Rest \in Seq(CallType)
  BY <1>1 DEF Rest
<1> QED BY <1>2

LEMMA DoingAt ==
    ASSUME ConfTypeOK, NEW op, Doing(op)
    PROVE  /\ todo # <<>> /\ todo[1].op = op
           /\ op \in Ops => todo[1].m \in Entries
           /\ op = "pick" => todo[1].m \in ChoiceEntries
           /\ op = "choice" => todo[1].m \in Choice
<1>1. todo # <<>> /\ todo[1].op = op
  BY DEF Doing
<1>2. todo[1] \in CallType
  BY <1>1, RestType
<1> QED BY <1>1, <1>2 DEF CallType, Ops

\* An engine that was not calculating keeps its types if what it is told has them.
LEMMA ToldType ==
    ASSUME TypeOK, cacheVars' = cacheVars, def' \in Valuation, user' \subseteq Sym,
           userPick' \in [Choice -> Sym \cup {NoSym}],
           \A c \in Choice : userPick'[c] \in Values(c) \cup {NoSym},
           valid' \subseteq Sym, write' \subseteq Sym, changed' \in BOOLEAN,
           disk' \in ConfigFile, pc' \in {"start", "edit", "read", "write"},
           asked' = asked \/ asked' = <<>>, saved' = saved \/ saved' = <<>>
    PROVE  TypeOK'
  BY DEF TypeOK, cacheVars

\* Every symbol is calculated when the menu is looked at.
LEMMA AllValid ==
    ASSUME TypeOK, NEW op \in {"check", "conf", "pick", "minimal"}, Ready(op)
    PROVE  valid = Sym /\ pc = "edit"
<1>1. Wanted = Sym /\ pc = "edit"
  BY DEF Ready, Wanted, Doing
<1> QED BY <1>1 DEF Ready, TypeOK

\* What the calls of the engine are: steps of Symbol.
LEMMA EngineSteps ==
    ASSUME ConfTypeOK, \/ Calculate \/ EndRead \/ Explicit \/ Loop \/ While \/ BeginWrite
                       \/ EndWrite \/ Again \/ AskSymbol \/ Pick
    PROVE  [Next]_vars
<1>1. TypeOK
  BY DEF ConfTypeOK
<1>2. CASE Calculate
  <2>1. PICK s : CalcSymbol(s) \/ CalcChoice(s)
    BY <1>2, Zenon DEF Calculate
  <2>2. s \in Sym
    BY <2>1, SortAssumption DEF CalcSymbol, CalcChoice, Named
  <2> QED BY <2>1, <2>2 DEF Next, Calc
<1>3. CASE EndRead
  BY <1>3 DEF EndRead, Next
<1>4. CASE Explicit \/ Loop \/ While \/ Again
  BY <1>4, Zenon DEF Explicit, Loop, While, Again
<1>5. CASE BeginWrite
  BY <1>5 DEF BeginWrite, Next
<1>6. CASE EndWrite
  BY <1>6 DEF EndWrite, Next
<1>7. ASSUME NEW s \in Sym, valid = Sym, pc = "edit", NEW t \in Tri, s \notin Ints, Accepts(s, t),
             PutTristate(s, t)
      PROVE  Next
  <2>1. SetTristate(s, t)
    BY <1>7 DEF SetTristate
  <2> QED BY <2>1, Zenon DEF Next, Edit
<1>8. CASE AskSymbol
  <2>1. valid = Sym /\ pc = "edit"
    BY <1>1, <1>8, AllValid DEF AskSymbol
  <2>2. SymOf(todo[1].m) \in Sym
    <3>1. todo[1].m \in Entries /\ SymOf(todo[1].m) # NoSym
      BY <1>8, Zenon DEF AskSymbol, Asked
    <3> QED BY <3>1, TreeAssumption
  <2>3. PICK s \in Sym : \/ \E n \in Val : SetString(s, n)
                         \/ s \notin Ints /\ \E t \in Tri : Accepts(s, t) /\ PutTristate(s, t)
    BY <1>8, <2>2, Zenon DEF AskSymbol
  <2>4. CASE \E n \in Val : SetString(s, n)
    BY <2>4, Zenon DEF Next, Edit
  <2>5. CASE s \notin Ints /\ \E t \in Tri : Accepts(s, t) /\ PutTristate(s, t)
    BY <1>7, <2>1, <2>5
  <2> QED BY <2>3, <2>4, <2>5
<1>9. CASE Pick
  <2>1. valid = Sym /\ pc = "edit" /\ Doing("pick")
    BY <1>1, <1>9, AllValid DEF Pick, Ready
  <2>2. todo[1].m \in Entries /\ SymOf(todo[1].m) \in Choice
    BY <2>1, DoingAt DEF ChoiceEntries
  <2>3. \A i \in DOMAIN Kids(todo[1].m) :
           SymOf(Kids(todo[1].m)[i]) # NoSym => SymOf(Kids(todo[1].m)[i]) \in Values(SymOf(todo[1].m))
    BY <2>2, TreeAssumption
  <2>4. \A i \in DOMAIN Kids(todo[1].m) :
           SymOf(Kids(todo[1].m)[i]) # NoSym => SymOf(Kids(todo[1].m)[i]) \in Sym \ Ints
    BY <2>2, <2>3, ChoiceAssumption
  <2>5. UNCHANGED vars \/ \E s \in Sym \ Ints : Accepts(s, yes) /\ PutTristate(s, yes)
    BY <1>9, <2>4, Zenon DEF Pick
  <2> QED BY <1>7, <2>1, <2>5, TriIsVal
<1> QED BY <1>2, <1>3, <1>4, <1>5, <1>6, <1>8, <1>9

\* What conf() goes on with.
LEMMA AfterType ==
    ASSUME ConfTypeOK, todo # <<>>, NEW m \in Entries
    PROVE  After(m) \in Seq(CallType)
<1>1. CASE SymOf(m) \in Choice
  <2>1. [Call("pick", m) EXCEPT !.new = SymOf(m) \notin user] \in CallType
    BY <1>1 DEF Call, CallType, ChoiceEntries
  <2> QED BY <1>1, <2>1, RestType DEF After
<1>2. CASE SymOf(m) \notin Choice
  <2>1. Below("conf", m) \in Seq(CallType)
    BY CallIs DEF Ops
  <2> HIDE DEF CallType
  <2> QED BY <1>2, <2>1, RestType DEF After
<1> QED BY <1>1, <1>2

LEMMA EngineType ==
    ASSUME ConfTypeOK, \/ Calculate \/ EndRead \/ Explicit \/ Loop \/ While \/ BeginWrite
                       \/ EndWrite \/ Again \/ AskSymbol \/ Pick
    PROVE  ConfTypeOK'
<1>1. TypeOK'
  BY EngineSteps, TypeStep DEF ConfTypeOK
<1>2. /\ Root \in Entries
      /\ \A op \in Ops : Call(op, Root) \in CallType
  BY TreeAssumption, CallIs
<1>3. todo # <<>> => Rest \in Seq(CallType) /\ \A x \in CallType : <<x>> \o Rest \in Seq(CallType)
  BY RestType
<1>4. CASE Calculate \/ EndRead
  BY <1>1, <1>4 DEF Calculate, EndRead, ConfTypeOK, confVars, ghosts
<1>5. ASSUME todo' \in Seq(CallType), mode' \in InputModes \cup {"none"}, conf_cnt' \in BOOLEAN,
             UNCHANGED <<rootEntry, need, has_changed, minimal, ghosts>>
      PROVE  ConfTypeOK'
  BY <1>1, <1>5 DEF ConfTypeOK, ghosts
<1>6. mode \in InputModes \cup {"none"} /\ conf_cnt \in BOOLEAN /\ todo \in Seq(CallType)
  BY DEF ConfTypeOK
<1>7. CASE Explicit
  <2>1. todo' \in Seq(CallType)
    BY <1>3, <1>7 DEF Explicit, Ready, Doing
  <2> QED BY <1>5, <1>6, <1>7, <2>1 DEF Explicit
<1>8. CASE Loop
  <2>1. Call("check", Root) \in CallType /\ Call("while", Root) \in CallType
    BY <1>2 DEF Ops
  <2>2. Rest \in Seq(CallType)
    BY <1>3, <1>8 DEF Loop, Ready, Doing
  <2>3. todo' \in Seq(CallType)
    <3> HIDE DEF CallType
    <3> QED BY <1>8, <2>1, <2>2 DEF Loop
  <2>4. mode' \in InputModes \cup {"none"} /\ conf_cnt' \in BOOLEAN
    BY <1>6, <1>8 DEF Loop, InputModes
  <2> QED BY <1>5, <1>8, <2>3, <2>4 DEF Loop
<1>9. CASE While
  <2>1. Call("loop", Root) \in CallType
    BY <1>2 DEF Ops
  <2>2. todo' \in Seq(CallType)
    BY <1>3, <1>9, <2>1 DEF While, Ready, Doing
  <2> QED BY <1>5, <1>6, <1>9, <2>2 DEF While
<1>10. CASE BeginWrite
  <2>1. todo' \in Seq(CallType)
    BY <1>3, <1>6, <1>10 DEF BeginWrite, Ready, Doing
  <2> QED BY <1>5, <1>6, <1>10, <2>1 DEF BeginWrite
<1>11. CASE EndWrite
  <2>1. todo' \in Seq(CallType)
    <3>1. CASE todo = <<>>
      BY <1>11, <3>1 DEF EndWrite, Rest
    <3> QED BY <1>3, <1>11, <3>1 DEF EndWrite
  <2> QED BY <1>5, <1>6, <1>11, <2>1 DEF EndWrite
<1>12. CASE Again
  <2>1. Call("new", Root) \in CallType
    BY <1>2 DEF Ops
  <2>2. todo' \in Seq(CallType)
    BY <1>3, <1>12, <2>1 DEF Again, Ready, Doing
  <2> QED BY <1>5, <1>6, <1>12, <2>2 DEF Again
<1>13. CASE AskSymbol
  <2>1. todo # <<>> /\ todo[1].m \in Entries
    BY <1>13, DoingAt DEF AskSymbol, Ready, Ops
  <2>2. todo' \in Seq(CallType)
    BY <1>13, <2>1, AfterType, Zenon DEF AskSymbol
  <2> QED BY <1>6, <1>13, <2>2, <1>1 DEF AskSymbol, Asking, ConfTypeOK, ghosts
<1>14. CASE Pick
  <2>1. todo # <<>> /\ todo[1].m \in Entries
    BY <1>14, DoingAt DEF Pick, Ready, ChoiceEntries
  <2>2. \E k \in Entries : todo' = Below("conf", k) \o Rest \/ todo' = Rest
    <3>1. \A i \in DOMAIN Kids(todo[1].m) : Kids(todo[1].m)[i] \in Entries
      BY <2>1, TreeAssumption
    <3> QED BY <1>14, <2>1, <3>1, Zenon DEF Pick
  <2>3. \A k \in Entries : Below("conf", k) \o Rest \in Seq(CallType)
    <3>1. \A k \in Entries : Below("conf", k) \in Seq(CallType)
      BY CallIs DEF Ops
    <3> QED BY <2>1, <3>1, RestType
  <2>4. todo' \in Seq(CallType)
    BY <1>3, <2>1, <2>2, <2>3
  <2> QED BY <1>6, <1>14, <2>4, <1>1 DEF Pick, Asking, ConfTypeOK, ghosts
<1> QED
  BY <1>4, <1>7, <1>8, <1>9, <1>10, <1>11, <1>12, <1>13, <1>14

\* The questions: what is seen through its children becomes the user's.
LEMMA CheckType ==
    ASSUME ConfTypeOK, CheckConf \/ Descend
    PROVE  ConfTypeOK'
<1> DEFINE m == todo[1].m
<1>1. TypeOK /\ todo # <<>> /\ m \in Entries /\ mode \in InputModes \cup {"none"}
  BY DoingAt DEF ConfTypeOK, CheckConf, Descend, Ready, Ops
<1>2. TouchedBelow(m) \subseteq Sym /\ Touched[m] \subseteq Sym
  <2>1. \A i \in DOMAIN Kids(m) : Kids(m)[i] \in Entries
    BY <1>1, TreeAssumption
  <2> HIDE DEF m
  <2> QED BY <1>1, <2>1, TouchedType DEF TouchedBelow
<1>3. user' \subseteq Sym
  <2>1. user \subseteq Sym
    BY <1>1 DEF TypeOK
  <2>2. user' \subseteq user \cup Touched[m] \cup TouchedBelow(m)
    BY DEF CheckConf, Descend
  <2> HIDE DEF m
  <2> QED BY <1>2, <2>1, <2>2
<1>4. TypeOK'
  <2>1. /\ cacheVars' = cacheVars /\ def' = def /\ userPick' = userPick /\ valid' = valid
        /\ write' = write /\ changed' = changed /\ disk' = disk /\ pc' = pc
        /\ asked' = asked /\ saved' = saved
    BY DEF CheckConf, Descend, fileVars, histVars
  <2> QED BY <1>1, <1>3, <2>1, ToldType DEF TypeOK
<1>5. ParentMenu[m] \in Entries
  BY <1>1, ParentMenuType
<1>6. /\ \A k \in Entries : Below("check", k) \in Seq(CallType)
      /\ \A k \in Entries : Call("conf", k) \in CallType /\ Call("check", k) \in CallType
  BY CallIs DEF Ops
<1>7. /\ Rest \in Seq(CallType) /\ \A x \in CallType : <<x>> \o Rest \in Seq(CallType)
      /\ \A q \in Seq(CallType) : q \o Rest \in Seq(CallType)
  BY <1>1, RestType
<1> HIDE DEF CallType, Call, Below, Rest
<1>8. CASE CheckConf
  <2>1. /\ \/ todo' = Rest /\ conf_cnt' = conf_cnt /\ rootEntry' = rootEntry
           \/ /\ conf_cnt' = TRUE /\ rootEntry' = ParentMenu[m]
              /\ todo' = <<Call("conf", ParentMenu[m])>> \o Below("check", m) \o Rest
           \/ todo' = Below("check", m) \o Rest /\ conf_cnt' = conf_cnt /\ rootEntry' = rootEntry
        /\ UNCHANGED Asking
    BY <1>8, Zenon DEF CheckConf
  <2>2. <<Call("conf", ParentMenu[m])>> \o Below("check", m) \o Rest \in Seq(CallType)
    <3>1. <<Call("conf", ParentMenu[m])>> \in Seq(CallType) /\ Below("check", m) \in Seq(CallType)
      BY <1>1, <1>5, <1>6
    <3> QED BY <1>7, <3>1
  <2>3. todo' \in Seq(CallType)
    BY <1>1, <1>6, <1>7, <2>1, <2>2
  <2>4. conf_cnt' \in BOOLEAN /\ rootEntry' \in Entries
    BY <1>5, <2>1 DEF ConfTypeOK
  <2> QED BY <1>1, <1>4, <2>1, <2>3, <2>4 DEF Asking, ConfTypeOK, ghosts
<1>9. CASE Descend
  <2>1. /\ todo' \in {Rest, <<Call("check", m)>> \o Rest, After(m)}
        /\ UNCHANGED <<Asking, conf_cnt, rootEntry>>
    BY <1>9, Zenon DEF Descend
  <2>2. After(m) \in Seq(CallType)
    BY <1>1, AfterType
  <2>3. todo' \in Seq(CallType)
    BY <1>1, <1>6, <1>7, <2>1, <2>2
  <2> QED BY <1>1, <1>4, <2>1, <2>3 DEF Asking, ConfTypeOK, ghosts
<1> QED BY <1>8, <1>9

\* What conf_set_all_new_symbols answers is a value of the symbol's type.
LEMMA SetType ==
    ASSUME ConfTypeOK, \/ SetNew \/ SetChoice \/ \E c \in Unsettled : SetAllChoiceValues(c)
    PROVE  ConfTypeOK'
<1>1. /\ TypeOK /\ mode \in InputModes \cup {"none"} /\ todo \in Seq(CallType)
      /\ Tri \subseteq Val /\ no \in Tri /\ yes \in Tri
      /\ def \in Valuation /\ user \subseteq Sym /\ valid \subseteq Sym /\ need \subseteq Choice
  BY TriIsVal DEF ConfTypeOK, TypeOK
<1>2. Choice \subseteq Sym /\ \A c \in Choice : Values(c) \subseteq Sym \ Ints /\ c \notin Ints
  BY SortAssumption, ChoiceAssumption
<1>3. CASE SetNew
  <2>1. PICK f \in [New -> Tri] : def' = [s \in Sym |-> IF s \in New THEN f[s] ELSE def[s]]
    BY <1>3, Zenon DEF SetNew
  <2>2. New \subseteq Sym
    BY DEF New
  <2>3. def' \in Valuation
    BY <1>1, <2>1, <2>2 DEF Valuation
  <2>4. user' \subseteq Sym
    <3>1. user' \subseteq user \cup New
      BY <1>3 DEF SetNew
    <3> QED BY <1>1, <2>2, <3>1
  <2>5. valid' = {} /\ changed' = TRUE
    BY <1>3 DEF SetNew, ClearAllValid
  <2>6. /\ cacheVars' = cacheVars /\ userPick' = userPick /\ write' = write
        /\ disk' = disk /\ pc' = pc /\ asked' = asked /\ saved' = saved
    BY <1>3 DEF SetNew, histVars
  <2>7. TypeOK'
    BY <1>1, <2>3, <2>4, <2>5, <2>6, ToldType DEF TypeOK
  <2>8. need' \subseteq Choice /\ has_changed' \in BOOLEAN
    BY <1>1, <1>3 DEF SetNew
  <2>9. todo' \in Seq(CallType)
    <3>1. [i \in DOMAIN HashOrder |-> Call("choice", HashOrder[i])] \in Seq(CallType)
      <4>1. \A c \in Choice : Call("choice", c) \in CallType
        BY DEF Call, CallType
      <4>2. HashOrder \in Seq(Choice)
        BY TreeAssumption
      <4> HIDE DEF CallType, Call
      <4> QED BY <4>1, <4>2
    <3>2. Call("again", Root) \in CallType
      BY TreeAssumption, CallIs DEF Ops
    <3>3. Rest \in Seq(CallType)
      BY <1>3, RestType DEF SetNew, Ready, Doing
    <3>4. todo' = [i \in DOMAIN HashOrder |-> Call("choice", HashOrder[i])]
                    \o <<Call("again", Root)>> \o Rest
      BY <1>3 DEF SetNew
    <3>5. <<Call("again", Root)>> \in Seq(CallType)
      BY <3>2
    <3> HIDE DEF CallType, Call, Rest
    <3> QED BY <3>1, <3>3, <3>4, <3>5
  <2> QED BY <1>1, <1>3, <2>7, <2>8, <2>9 DEF SetNew, ConfTypeOK, ghosts
<1>4. CASE SetChoice
  <2>1. todo # <<>> /\ todo[1].m \in Choice
    BY <1>4, DoingAt DEF SetChoice, Ready
  <2>2. \/ UNCHANGED <<def, user, userPick, valid>>
        \/ Randomize(todo[1].m)
    BY <1>4, Zenon DEF SetChoice
  <2>3. /\ cacheVars' = cacheVars /\ write' = write /\ changed' = changed
        /\ disk' = disk /\ pc' = pc /\ asked' = asked /\ saved' = saved
    BY <1>4 DEF SetChoice, histVars, fileVars
  <2>4. /\ def' \in Valuation /\ user' \subseteq Sym /\ valid' \subseteq Sym
        /\ userPick' \in [Choice -> Sym \cup {NoSym}]
        /\ \A c \in Choice : userPick'[c] \in Values(c) \cup {NoSym}
    <3>1. CASE UNCHANGED <<def, user, userPick, valid>>
      BY <1>1, <3>1 DEF TypeOK
    <3>2. ASSUME NEW c \in Choice, Randomize(c)
          PROVE  /\ def' \in Valuation /\ user' \subseteq Sym /\ valid' \subseteq Sym
                 /\ userPick' \in [Choice -> Sym \cup {NoSym}]
                 /\ \A d \in Choice : userPick'[d] \in Values(d) \cup {NoSym}
      <4>1. PICK x \in Values(c) :
               /\ def' = [s \in Sym |-> IF s \in Values(c) THEN IF s = x THEN yes ELSE no ELSE def[s]]
               /\ userPick' = [userPick EXCEPT ![c] = x]
               /\ user' = user \cup Values(c) \cup {c}
               /\ valid' = valid \ (Values(c) \cup {c})
        BY <3>2, Zenon DEF Randomize
      <4>2. def' \in Valuation
        BY <1>1, <1>2, <4>1 DEF Valuation
      <4>3. x \in Sym /\ userPick \in [Choice -> Sym \cup {NoSym}]
            /\ \A d \in Choice : userPick[d] \in Values(d) \cup {NoSym}
        BY <1>1, <1>2 DEF TypeOK
      <4> QED BY <1>1, <1>2, <4>1, <4>2, <4>3
    <3> QED BY <2>1, <2>2, <3>1, <3>2
  <2>5. TypeOK'
    BY <1>1, <2>3, <2>4, ToldType DEF TypeOK
  <2>6. has_changed' \in BOOLEAN /\ todo' \in Seq(CallType)
    <3>1. todo' = Rest
      BY <1>4 DEF SetChoice
    <3>2. has_changed' \in {TRUE, FALSE, has_changed}
      BY <1>4, Zenon DEF SetChoice
    <3> QED BY <2>1, <3>1, <3>2, RestType DEF ConfTypeOK
  <2> QED BY <1>1, <1>4, <2>5, <2>6 DEF SetChoice, ConfTypeOK, ghosts
<1>5. ASSUME NEW c \in Unsettled, SetAllChoiceValues(c) PROVE ConfTypeOK'
  <2>1. c \in Choice
    BY <1>1 DEF Unsettled
  <2>2. def' \in Valuation /\ user' \subseteq Sym /\ valid' \subseteq Sym /\ need' \subseteq Choice
    BY <1>1, <1>2, <1>5, <2>1 DEF SetAllChoiceValues, Valuation
  <2>3. TypeOK'
    BY <1>1, <1>5, <2>2, ToldType DEF TypeOK, SetAllChoiceValues, fileVars, histVars
  <2> QED BY <1>1, <1>5, <2>2, <2>3 DEF SetAllChoiceValues, ConfTypeOK, ghosts
<1> QED BY <1>3, <1>4, <1>5

\* savedefconfig: the minimal file is a configuration file.
LEMMA MinimalType ==
    ASSUME ConfTypeOK, Clear \/ WriteDefconfig
    PROVE  ConfTypeOK'
<1>1. TypeOK /\ todo # <<>>
  BY DEF ConfTypeOK, Clear, WriteDefconfig, Ready, Doing
<1>2. Rest \in Seq(CallType)
  BY <1>1, RestType
<1>3. CASE Clear
  <2>1. TypeOK'
    BY <1>1, <1>3 DEF Clear, ClearAllValid, TypeOK, userVars, cacheVars, histVars
  <2> QED BY <1>2, <1>3, <2>1 DEF Clear, ConfTypeOK, ghosts
<1>4. CASE WriteDefconfig
  <2>1. TypeOK'
    BY <1>1, <1>4 DEF WriteDefconfig, TypeOK, userVars, cacheVars, fileVars, histVars
  <2>2. \A s \in Named : /\ curr[s] \in Val \cup {Unset}
                         /\ s \notin Ints => curr[s] \in Tri \cup {Unset}
    BY <1>1 DEF TypeOK, Valuation, Named
  <2>3. minimal' \in ConfigFile
    BY <1>4, <2>2, Zenon DEF WriteDefconfig, ConfigFile
  <2>4. Content \in ConfigFile
    BY <2>2 DEF Content, ConfigFile
  <2> QED BY <1>2, <1>4, <2>1, <2>3, <2>4 DEF WriteDefconfig, ConfTypeOK
<1> QED BY <1>3, <1>4

\* What a file says has its types.
LEMMA ReadType ==
    ASSUME NEW f \in ConfigFile
    PROVE  /\ DefOf(f) \in Valuation /\ UserOf(f) \subseteq Sym
           /\ PickOf(f) \in [Choice -> Sym \cup {NoSym}]
           /\ \A c \in Choice : PickOf(f)[c] \in Values(c) \cup {NoSym}
           /\ Warned(f) \in BOOLEAN
<1>1. UserOf(f) \subseteq Sym
  BY SortAssumption DEF UserOf, Named
<1>2. \A c \in Choice : PickOf(f)[c] \in Values(c) \cup {NoSym}
  BY PickOfType
<1>3. PickOf(f) = [c \in Choice |-> PickOf(f)[c]]
  BY DEF PickOf
<1>4. \A c \in Choice : Values(c) \subseteq Sym
  BY ChoiceAssumption
<1>5. PickOf(f) \in [Choice -> Sym \cup {NoSym}]
  <2> HIDE DEF PickOf
  <2> QED BY <1>2, <1>3, <1>4
<1> QED BY <1>1, <1>2, <1>5, DefOfType DEF Warned

LEMMA NoFileType == NoFile \in ConfigFile
  BY DEF NoFile, ConfigFile

LEMMA StartType ==
    ASSUME ConfTypeOK, NEW m \in Modes, Start(m)
    PROVE  ConfTypeOK'
<1>1. TypeOK /\ Modes \subseteq InputModes
  BY ModeAssumption DEF ConfTypeOK
<1>2. /\ def' \in Valuation /\ user' \subseteq Sym /\ userPick' \in [Choice -> Sym \cup {NoSym}]
      /\ \A c \in Choice : userPick'[c] \in Values(c) \cup {NoSym}
      /\ changed' \in BOOLEAN /\ given' \in ConfigFile
  <2>1. ASSUME NEW f \in ConfigFile, ReadSimple(f)
        PROVE  /\ def' \in Valuation /\ user' \subseteq Sym
               /\ userPick' \in [Choice -> Sym \cup {NoSym}]
               /\ \A c \in Choice : userPick'[c] \in Values(c) \cup {NoSym}
               /\ changed' \in BOOLEAN /\ given' \in ConfigFile
    BY <2>1, ReadType DEF ReadSimple
  <2>2. ASSUME ReadNothing
        PROVE  /\ def' \in Valuation /\ user' \subseteq Sym
               /\ userPick' \in [Choice -> Sym \cup {NoSym}]
               /\ \A c \in Choice : userPick'[c] \in Values(c) \cup {NoSym}
               /\ changed' \in BOOLEAN /\ given' \in ConfigFile
    BY <2>2, ReadType, NoFileType DEF ReadNothing
  <2>3. ReadNothing \/ \E f \in Seeds \cup {disk, minimal} : ReadSimple(f)
    BY Zenon DEF Start
  <2>4. Seeds \cup {disk, minimal} \subseteq ConfigFile
    BY <1>1, TreeAssumption DEF ConfTypeOK, TypeOK
  <2> QED BY <2>1, <2>2, <2>3, <2>4
<1>3. /\ cacheVars' = cacheVars /\ valid' = {} /\ write' = write /\ disk' = disk
      /\ pc' \in {"edit", "read"} /\ asked' = <<>> /\ saved' \in {<<>>, saved}
  BY DEF Start
<1>4. TypeOK'
  BY <1>1, <1>2, <1>3, ToldType DEF TypeOK
<1>5. /\ minimal' \in {minimal, NoFile} /\ expected' \in {expected, <<>>}
      /\ mode' = m /\ todo' = Calls(m) /\ conf_cnt' = FALSE /\ has_changed' = FALSE
      /\ rootEntry' = Root /\ need' = {}
  BY Zenon DEF Start
<1> QED
  BY <1>1, <1>2, <1>4, <1>5, CallsType, NoFileType, TreeAssumption DEF ConfTypeOK

LEMMA ConfInitType == ConfInit => ConfTypeOK
<1> SUFFICES ASSUME ConfInit PROVE ConfTypeOK
  OBVIOUS
<1>1. /\ [s \in Sym |-> no] \in Valuation /\ [s \in Sym |-> no] \in [Sym -> Tri]
      /\ Files \subseteq ConfigFile
  BY TriIsVal, FileAssumption DEF Valuation
<1>2. TypeOK
  BY <1>1 DEF ConfInit, TypeOK
<1>3. todo \in Seq(CallType)
  <2>1. \A S : <<>> \in Seq(S)
    OBVIOUS
  <2> QED BY <2>1 DEF ConfInit
<1>4. minimal \in ConfigFile /\ given \in ConfigFile
  BY NoFileType DEF ConfInit
<1>5. mode = "none" /\ conf_cnt = FALSE /\ has_changed = FALSE /\ rootEntry \in Entries
      /\ need = {} /\ expected = <<>>
  BY TreeAssumption DEF ConfInit
<1> QED BY <1>2, <1>3, <1>4, <1>5 DEF ConfTypeOK

LEMMA ConfTypeStep ==
    ASSUME ConfTypeOK, [ConfNext]_allVars
    PROVE  ConfTypeOK'
<1>1. CASE UNCHANGED allVars
  <2>1. UNCHANGED vars
    BY <1>1 DEF allVars
  <2>2. TypeOK'
    BY <2>1, TypeStep DEF ConfTypeOK
  <2> QED BY <1>1, <2>2 DEF allVars, confVars, ghosts, ConfTypeOK
<1>2. CASE ConfNext
  BY <1>2, EngineType, CheckType, SetType, MinimalType, StartType DEF ConfNext, Step, Ask
<1> QED BY <1>1, <1>2

\* Every variable of conf keeps its type, for every menu tree, every file and
\* every sequence of processes and answers: a question is only put at an
\* entry, values are looked for in choices, and what is written is a file.
THEOREM ConfTypeCorrect == ConfSpec => []ConfTypeOK
  BY ConfInitType, ConfTypeStep, PTL DEF ConfSpec
-----------------------------------------------------------------------------
(* KCONFIG_NOSILENTUPDATE.  Why syncconfig has no question and nothing to    *)
(* write when conf_read left nothing unsaved: every symbol that the user has *)
(* not set is then one that nobody can see.                                  *)

\* While conf_read calculates: what can be seen gets a line, ints are in their
\* ranges, and a choice is not the user's only if the file was warned about, or
\* if it shows a value that the file says nothing of.
Told == \A s \in valid \cap Named :
            /\ visible[s] # no => s \in write
            /\ IsChoiceValue(s) /\ Visibility(s, curr) # no => s \in write

IntsCut == \A s \in valid \cap Ints : Attr(s, curr).lo <= curr[s] /\ curr[s] <= Attr(s, curr).hi

ShowsNew(c) == c \in valid /\ \E s \in Values(c) \ user : Visibility(s, curr) # no

Dropped == \A c \in Choice \ user : changed \/ ShowsNew(c)

Reading == Closed /\ Told /\ IntsCut /\ Dropped

\* Nothing is left to ask for.
Quiet == valid = Sym /\ \A s \in Sym \ user : visible[s] = no

Looking(q) == \A i \in DOMAIN q : q[i].op \in {"check", "loop", "while", "write"}

Silent ==
    mode = "nosilentupdate" =>
        /\ ~ conf_cnt /\ need = {}
        /\ \/ todo = Calls("nosilentupdate") /\ pc = "read" /\ Reading
           \/ todo = Calls("nosilentupdate") /\ pc = "edit" /\ (changed \/ Quiet)
           \/ todo = <<>> /\ pc = "edit"
           \/ pc = "edit" /\ ~ changed /\ Quiet /\ Looking(todo)

\* A choice value is seen through its choice, what that reads, and modules.
LEMMA ValueOperands ==
    ASSUME NEW c \in Choice, NEW s \in Values(c)
    PROVE  /\ s \in Named /\ IsChoiceValue(s) /\ ChoiceOf(s) = c
           /\ Operands(s) \subseteq Operands(c) \cup {c}
<1>1. s \in Sym /\ s \notin Choice /\ s # Modules /\ c \in Sym
  BY SortAssumption, ChoiceAssumption
<1>2. IsChoiceValue(s)
  BY DEF IsChoiceValue
<1>3. ChoiceOf(s) \in Choice /\ s \in Values(ChoiceOf(s))
  BY <1>1, <1>2, OperandsOf
<1>4. ChoiceOf(s) = c
  BY <1>3, ChoiceAssumption
<1>5. Uses(s) \ {c} \subseteq Operands(c)
  BY <1>1, OperandsOf
<1>6. Operands(s) = Uses(s) \cup ({Modules} \ {NoSym, s})
  BY <1>1 DEF Operands
<1>7. ({Modules} \ {NoSym, s}) \subseteq Operands(c) \cup {c}
  BY DEF Operands
<1> QED BY <1>1, <1>2, <1>4, <1>5, <1>6, <1>7 DEF Named

LEMMA VisibilityLocal ==
    ASSUME NEW c \in Choice, NEW s \in Values(c), NEW v \in Valuation, NEW w \in Valuation,
           \A u \in Operands(s) : v[u] = w[u]
    PROVE  Visibility(s, v) = Visibility(s, w)
<1>1. s \in Sym /\ s # Modules /\ ChoiceOf(s) = c /\ c \in Uses(s)
  BY ChoiceAssumption, ValueOperands
<1>2. Uses(s) \subseteq Operands(s)
  BY <1>1, OperandsOf
<1>3. Attr(s, v) = Attr(s, w)
  BY <1>1, <1>2, Local
<1>4. ModulesVal(v) = ModulesVal(w)
  <2>1. Modules # NoSym => Modules \in Operands(s)
    BY <1>1 DEF Operands
  <2> QED BY <2>1 DEF ModulesVal
<1>5. v[ChoiceOf(s)] = w[ChoiceOf(s)]
  BY <1>1, <1>2
<1> QED BY <1>3, <1>4, <1>5 DEF Visibility

\* What calculating a symbol does to the others.
CalcsOne(x) ==
    /\ x \in Sym \ valid /\ Operands(x) \subseteq valid /\ valid' = valid \cup {x}
    /\ \A s \in Sym : s # x => curr'[s] = curr[s]
    /\ \A s \in valid \cap Named : visible'[s] = visible[s] /\ (s \in write' <=> s \in write)
    /\ x \in Named => /\ visible'[x] = Visibility(x, curr)
                      /\ Visibility(x, curr) # no => x \in write'
    /\ x \in Ints => curr'[x] = IntValue(x, curr)
    /\ \/ user' = user
       \/ /\ x \in Choice /\ user' = user \ {x}
          /\ \E s \in Values(x) \ user : Visibility(s, curr') # no
    /\ changed' = changed /\ pc' = pc

LEMMA CalcSymbolOne == ASSUME TypeOK, NEW s \in Sym, CalcSymbol(s) PROVE CalcsOne(s)
<1>1. /\ s \in Named \ valid /\ Operands(s) \subseteq valid /\ valid' = valid \cup {s}
      /\ curr' = [curr EXCEPT ![s] = Value(s, curr)]
      /\ visible' = [visible EXCEPT ![s] = Visibility(s, curr)]
      /\ write' = (IF Written(s, curr) THEN write \cup {s} ELSE write \ {s})
      /\ user' = user /\ changed' = changed /\ pc' = pc
  BY DEF CalcSymbol, Store, userVars, fileVars
<1>2. \A t \in Sym : curr'[t] = IF t = s THEN Value(s, curr) ELSE curr[t]
  BY <1>1 DEF TypeOK, Valuation
<1>3. \A t \in Sym : visible'[t] = IF t = s THEN Visibility(s, curr) ELSE visible[t]
  BY <1>1 DEF TypeOK
<1>4. valid \subseteq Sym /\ (Visibility(s, curr) # no => Written(s, curr))
  BY DEF TypeOK, Written
<1> QED BY <1>1, <1>2, <1>3, <1>4 DEF CalcsOne, Value

LEMMA CalcChoiceOne == ASSUME TypeOK, Closed, NEW c \in Sym, CalcChoice(c) PROVE CalcsOne(c)
<1> DEFINE tri  == TriValue(c, curr)
           v    == [curr EXCEPT ![c] = tri]
           vis  == [s \in Sym |->
                      IF s = c THEN Visibility(c, curr)
                      ELSE IF s \in Values(c) /\ tri = yes THEN Visibility(s, v)
                      ELSE visible[s]]
           p    == IF tri = yes THEN ChoicePick(c, vis, v) ELSE NoSym
           seen == {s \in Values(c) : vis[s] # no}
<1>1. /\ c \in Choice \ valid /\ Operands(c) \subseteq valid /\ valid' = valid \cup {c}
      /\ visible' = vis
      /\ curr' = [curr EXCEPT ![c] = IF tri = yes /\ p = NoSym THEN no ELSE tri]
      /\ user' = IF tri = yes /\ ~ (seen \subseteq user) THEN user \ {c} ELSE user
      /\ write' = IF Written(c, curr) THEN write \cup {c} \cup seen ELSE write \ {c}
      /\ changed' = changed /\ pc' = pc
  BY DEF CalcChoice, Store, fileVars
<1>2. /\ c \notin Ints /\ c \notin Named /\ Values(c) \subseteq Sym /\ c \notin Values(c)
      /\ curr \in Valuation /\ valid \subseteq Sym
      /\ userPick[c] \in Values(c) \cup {NoSym} /\ NoSym \notin Sym
  BY <1>1, SortAssumption, ChoiceAssumption DEF TypeOK, Named
<1>3. \A s \in valid : s # c /\ s \notin Values(c)
  <2>1. \A s \in Values(c) : c \in Operands(s)
    BY <1>1, <1>2, ChoiceAssumption, OperandsOf
  <2> QED BY <1>1, <2>1 DEF Closed
<1>4. seen \subseteq Values(c)
  OBVIOUS
<1>5. \A s \in valid : visible'[s] = visible[s]
  BY <1>1, <1>2, <1>3
<1>6. \A s \in Sym : s # c => curr'[s] = curr[s]
  <2> HIDE DEF tri, p
  <2> QED BY <1>1, <1>2 DEF Valuation
<1>7. \A s \in valid : s \in write' <=> s \in write
  <2> HIDE DEF seen
  <2> QED BY <1>1, <1>3, <1>4
<1>8. \/ user' = user
      \/ user' = user \ {c} /\ \E s \in Values(c) \ user : Visibility(s, curr') # no
  <2>1. CASE tri = yes /\ ~ (seen \subseteq user)
    <3>1. PICK s \in seen : s \notin user
      BY <2>1
    <3>2. s \in Values(c) /\ vis[s] # no
      BY <3>1
    <3>3. p # NoSym
      <4>1. ChoicePick(c, vis, v) = Pick0(c, vis, v, userPick[c])
        BY Zenon DEF ChoicePick, Pick0
      <4>2. v \in Valuation
        <5>1. def \in Valuation /\ c \in Sym
          BY <1>1, SortAssumption DEF TypeOK
        <5>2. tri \in Tri /\ tri \in Val
          BY <1>2, <5>1, ValueTypes, TriIsVal
        <5> HIDE DEF tri
        <5> QED BY <1>2, <5>2 DEF Valuation
      <4> HIDE DEF vis, v, tri
      <4>3. c \in Choice
        BY <1>1
      <4>4. Pick0(c, vis, v, userPick[c]) # NoSym
        BY <1>2, <3>2, <4>2, <4>3, PickIsVisible
      <4> QED BY <2>1, <4>1, <4>4
    <3>4. curr' = v
      <4> HIDE DEF p, tri
      <4> QED BY <1>1, <2>1, <3>3
    <3>5. vis[s] = Visibility(s, v)
      BY <1>2, <2>1, <3>2
    <3>6. user' = user \ {c}
      <4> HIDE DEF seen, tri
      <4> QED BY <1>1, <2>1
    <3> HIDE DEF vis, v, seen
    <3> QED BY <3>1, <3>2, <3>4, <3>5, <3>6
  <2>2. CASE ~ (tri = yes /\ ~ (seen \subseteq user))
    <3> HIDE DEF seen, tri
    <3> QED BY <1>1, <2>2
  <2> QED BY <2>1, <2>2
<1> HIDE DEF tri, v, vis, p, seen
<1> QED BY <1>1, <1>2, <1>5, <1>6, <1>7, <1>8 DEF CalcsOne

\* conf_read's first loop.
LEMMA CalcReads ==
    ASSUME TypeOK, TypeOK', Reading, NEW x, CalcsOne(x)
    PROVE  Reading'
<1>1. /\ x \in Sym \ valid /\ Operands(x) \subseteq valid /\ valid' = valid \cup {x}
      /\ \A s \in Sym : s # x => curr'[s] = curr[s]
      /\ \A s \in valid \cap Named : visible'[s] = visible[s] /\ (s \in write' <=> s \in write)
      /\ changed' = changed
  BY DEF CalcsOne
<1>2. /\ curr \in Valuation /\ curr' \in Valuation /\ valid \subseteq Sym
      /\ Closed /\ Told /\ IntsCut /\ Dropped
  BY DEF TypeOK, Reading
<1>3. \A s \in valid \cup {x} : x \notin Operands(s) /\ Operands(s) \subseteq valid
  BY <1>1, <1>2, OperandsOf DEF Closed
<1>4. Closed'
  BY <1>1, <1>3 DEF Closed
<1>5. \A s \in valid \cup {x} : \A u \in Operands(s) : curr'[u] = curr[u]
  BY <1>1, <1>2, <1>3
<1>6. ASSUME NEW c \in Choice, NEW s \in Values(c), \A u \in Operands(s) : u # x /\ u \in Sym
      PROVE  Visibility(s, curr') = Visibility(s, curr)
  BY <1>1, <1>2, <1>6, VisibilityLocal
<1>7. Told'
  <2> SUFFICES ASSUME NEW s \in (valid \cup {x}) \cap Named
               PROVE  /\ visible'[s] # no => s \in write'
                      /\ IsChoiceValue(s) /\ Visibility(s, curr') # no => s \in write'
    BY <1>1 DEF Told
  <2>1. IsChoiceValue(s) => Visibility(s, curr') = Visibility(s, curr)
    <3> SUFFICES ASSUME NEW c \in Choice, s \in Values(c)
                 PROVE  Visibility(s, curr') = Visibility(s, curr)
      BY DEF IsChoiceValue
    <3> QED BY <1>2, <1>3, <1>6
  <2>2. CASE s = x
    BY <2>1, <2>2 DEF CalcsOne
  <2>3. CASE s # x
    BY <1>1, <1>2, <2>1, <2>3 DEF Told
  <2> QED BY <2>2, <2>3
<1>8. IntsCut'
  <2> SUFFICES ASSUME NEW s \in (valid \cup {x}) \cap Ints
               PROVE  Attr(s, curr').lo <= curr'[s] /\ curr'[s] <= Attr(s, curr').hi
    BY <1>1 DEF IntsCut
  <2>1. s \in Sym
    BY <1>1, <1>2
  <2>2. Attr(s, curr') = Attr(s, curr)
    BY <1>2, <1>5, <2>1, OperandsOf, Local
  <2>3. CASE s # x
    BY <1>1, <1>2, <2>1, <2>2, <2>3 DEF IntsCut
  <2>4. CASE s = x
    <3>1. curr'[s] = IntValue(s, curr)
      BY <2>4 DEF CalcsOne
    <3>2. Attr(s, curr).lo \in Val /\ Attr(s, curr).hi \in Val /\ Attr(s, curr).lo <= Attr(s, curr).hi
      BY <1>2, <2>1, AttrTypes, AttrAssumption
    <3>3. def[s] \in Val /\ Attr(s, curr).dflt \in Val
      BY <1>2, <2>1, AttrTypes DEF TypeOK, Valuation
    <3>4. Attr(s, curr).lo <= IntValue(s, curr) /\ IntValue(s, curr) <= Attr(s, curr).hi
      BY <3>2, <3>3, SortAssumption DEF IntValue, Clamp, Val
    <3> QED BY <2>2, <3>1, <3>4
  <2> QED BY <2>3, <2>4
<1>9. Dropped'
  <2> SUFFICES ASSUME NEW c \in Choice \ user', ~ changed'
               PROVE  c \in valid' /\ \E s \in Values(c) \ user' : Visibility(s, curr') # no
    BY DEF Dropped, ShowsNew
  <2>1. \A d \in Choice : Values(d) \cap Choice = {}
    BY ChoiceAssumption
  <2>2. user' = user \/ (x \in Choice /\ user' = user \ {x})
    BY DEF CalcsOne
  <2>3. CASE c \in user
    <3>1. c = x /\ user' = user \ {x} /\ \E s \in Values(x) \ user : Visibility(s, curr') # no
      BY <2>3 DEF CalcsOne
    <3> QED BY <1>1, <3>1
  <2>4. CASE c \notin user
    <3>1. c \in valid /\ \E s \in Values(c) \ user : Visibility(s, curr) # no
      BY <1>1, <1>2, <2>4 DEF Dropped, ShowsNew
    <3>2. PICK s \in Values(c) \ user : Visibility(s, curr) # no
      BY <3>1
    <3>3. Operands(s) \subseteq Operands(c) \cup {c}
      BY ValueOperands
    <3>4. \A u \in Operands(s) : u # x /\ u \in Sym
      BY <1>1, <1>2, <1>3, <3>1, <3>3
    <3>5. Visibility(s, curr') # no
      BY <1>6, <3>2, <3>4
    <3>6. s \notin user'
      BY <2>2, <3>2
    <3> QED BY <1>1, <3>1, <3>2, <3>5, <3>6
  <2> QED BY <2>3, <2>4
<1> QED BY <1>4, <1>7, <1>8, <1>9 DEF Reading

\* conf_read_simple warns whenever it leaves a choice without the user's flag.
LEMMA UnsetIsWarned ==
    ASSUME NEW f \in ConfigFile, NEW c \in Choice \ UserOf(f)
    PROVE  Warned(f)
<1>1. PICK i \in Lines(c, f, yes), j \in Lines(c, f, mod) : ~ (j < i)
  BY DEF UserOf
<1>2. f[Members(c)[i]] = yes /\ f[Members(c)[j]] = mod
  BY DEF Lines
<1>3. i # j
  BY <1>2 DEF yes, mod
<1>4. Members(c) \in Seq(Sym)
  BY ChoiceAssumption
<1>5. i \in Nat /\ j \in Nat
  BY <1>4 DEF Lines
<1>6. i < j
  BY <1>1, <1>3, <1>5
<1> QED BY <1>6 DEF Warned

\* conf_read leaves something unsaved, or nothing to ask for.
LEMMA ReadIsQuiet ==
    ASSUME TypeOK, Reading, FinishRead, ~ changed'
    PROVE  Quiet'
<1>1. /\ valid = Sym /\ ~ changed /\ ~ Unsaved
      /\ visible' = visible /\ user \subseteq Sym
      /\ Told /\ IntsCut /\ Dropped
  BY DEF FinishRead, cacheVars, Reading, TypeOK
<1>2. \A s \in Named : IF s \in user THEN s \in write /\ def[s] = curr[s] ELSE s \notin write
  BY <1>1 DEF Unsaved
<1> DEFINE outside == {s \in user \cap Ints :
                         def[s] < Attr(s, curr).lo \/ def[s] > Attr(s, curr).hi}
           hidden == {s \in Sym : visible[s] = no /\ ~ IsChoiceValue(s)}
<1>3. outside = {}
  <2> SUFFICES ASSUME NEW s \in user \cap Ints
               PROVE  ~ (def[s] < Attr(s, curr).lo \/ def[s] > Attr(s, curr).hi)
    OBVIOUS
  <2>1. s \in Named /\ s \in Sym
    BY SortAssumption DEF Named
  <2>2. Attr(s, curr).lo <= def[s] /\ def[s] <= Attr(s, curr).hi
    BY <1>1, <1>2, <2>1 DEF IntsCut
  <2>3. Attr(s, curr).lo \in Val /\ Attr(s, curr).hi \in Val /\ def[s] \in Val
    BY <2>1, AttrTypes DEF TypeOK, Valuation
  <2> QED BY <2>2, <2>3, SortAssumption DEF Val
<1>4. user' = user \ hidden /\ valid' = Sym
  <2>1. user' = (IF Unsaved THEN user ELSE user \ hidden) \ outside /\ valid' = valid \ outside
    BY DEF FinishRead
  <2> HIDE DEF hidden, outside
  <2> QED BY <1>1, <1>3, <2>1
<1>5. ASSUME NEW s \in Sym \ user PROVE visible[s] = no
  <2>1. CASE s \in Named
    BY <1>1, <1>2, <2>1 DEF Told
  <2>2. CASE s \in Choice
    <3>1. PICK x \in Values(s) \ user : Visibility(x, curr) # no
      BY <1>1, <2>2 DEF Dropped, ShowsNew
    <3>2. x \in Named /\ IsChoiceValue(x) /\ x \in valid
      BY <1>1, <2>2, ValueOperands DEF Named
    <3> QED BY <1>1, <1>2, <3>1, <3>2 DEF Told
  <2> QED BY <2>1, <2>2 DEF Named
<1> QED BY <1>1, <1>4, <1>5 DEF Quiet

\* An entry that is seen has a prompt of its own that is, or is marked.
LEMMA NothingNew ==
    ASSUME Quiet, NEW m \in Entries, Visible[m]
    PROVE  ~ IsNew(m, user \cup Touched[m])
<1>1. SymOf(m) \in Sym \cup {NoSym}
  BY TreeAssumption
<1>2. CASE SymOf(m) = NoSym
  BY <1>2 DEF IsNew
<1>3. CASE SymOf(m) \in user
  BY <1>3 DEF IsNew
<1>4. CASE SymOf(m) \in Sym \ user
  <2>1. visible[SymOf(m)] = no
    BY <1>4 DEF Quiet
  <2>2. ~ OwnPromptVisible(m)
    BY <1>4, <2>1, SortAssumption DEF OwnPromptVisible
  <2>3. SymOf(m) \in Touched[m]
    BY <2>2, TouchedIs
  <2> QED BY <2>3 DEF IsNew
<1> QED BY <1>1, <1>2, <1>3, <1>4

LEMMA LookingOn ==
    ASSUME ConfTypeOK, todo # <<>>, Looking(todo)
    PROVE  /\ Looking(Rest)
           /\ \A m \in Entries : Looking(Below("check", m) \o Rest)
           /\ Looking(<<Call("check", Root), Call("while", Root)>> \o Rest)
<1>1. todo \in Seq(CallType)
  BY DEF ConfTypeOK
<1> HIDE DEF CallType
<1>2. Rest \in Seq(CallType) /\ Looking(Rest)
  BY <1>1 DEF Rest, Looking
<1>3. ASSUME NEW q \in Seq(CallType), Looking(q) PROVE Looking(q \o Rest)
  BY <1>2, <1>3 DEF Looking
<1>4. ASSUME NEW m \in Entries PROVE Looking(Below("check", m) \o Rest)
  <2>1. Looking(Below("check", m))
    BY DEF Looking, Below, Call
  <2>2. Below("check", m) \in Seq(CallType)
    BY CallIs DEF Ops
  <2> QED BY <1>3, <2>1, <2>2
<1>5. Looking(<<Call("check", Root), Call("while", Root)>> \o Rest)
  <2>1. Looking(<<Call("check", Root), Call("while", Root)>>)
    BY DEF Looking, Call
  <2>2. Call("check", Root) \in CallType /\ Call("while", Root) \in CallType
    BY CallIs, TreeAssumption DEF Ops
  <2>3. <<Call("check", Root), Call("while", Root)>> \in Seq(CallType)
    BY <2>2
  <2> QED BY <1>3, <2>1, <2>3
<1> QED BY <1>2, <1>4, <1>5

LEMMA SilentStart ==
    ASSUME ConfTypeOK, NEW m \in Modes, Start(m)
    PROVE  Silent'
<1> SUFFICES ASSUME m = "nosilentupdate" PROVE Silent'
  BY DEF Start, Silent
<1>1. /\ mode' = "nosilentupdate" /\ todo' = Calls("nosilentupdate") /\ pc' = "read"
      /\ ReadSimple(disk) /\ valid' = {} /\ need' = {} /\ conf_cnt' = FALSE
  BY DEF Start, AllModes
<1>2. disk \in ConfigFile
  BY DEF ConfTypeOK, TypeOK
<1>3. Dropped'
  BY <1>1, <1>2, UnsetIsWarned DEF ReadSimple, Dropped
<1>4. Closed' /\ Told' /\ IntsCut'
  BY <1>1 DEF Closed, Told, IntsCut
<1> QED BY <1>1, <1>3, <1>4 DEF Silent, Reading

LEMMA SilentStep ==
    ASSUME ConfTypeOK, Silent, [ConfNext]_allVars
    PROVE  Silent'
<1>1. TypeOK /\ TypeOK' /\ valid \subseteq Sym
  BY ConfTypeStep DEF ConfTypeOK, TypeOK
<1>2. CASE UNCHANGED allVars
  <2>1. /\ mode' = mode /\ todo' = todo /\ conf_cnt' = conf_cnt /\ need' = need /\ pc' = pc
        /\ valid' = valid /\ visible' = visible /\ write' = write /\ curr' = curr
        /\ user' = user /\ changed' = changed
    BY <1>2 DEF allVars, vars, userVars, cacheVars, fileVars, confVars
  <2> QED BY <2>1, Zenon DEF Silent, Reading, Closed, Told, IntsCut, Dropped, ShowsNew, Quiet
<1>3. ASSUME NEW m \in Modes, Start(m) PROVE Silent'
  BY <1>3, SilentStart
<1>4. CASE (Step \/ Ask) /\ mode # "nosilentupdate"
  <2>1. mode' = mode \/ mode' = "oldconfig"
    BY <1>4 DEF Step, Ask, Calculate, EndRead, Explicit, Loop, While, BeginWrite, EndWrite,
                CheckConf, Descend, SetNew, SetChoice, Again, Clear, WriteDefconfig,
                SetAllChoiceValues, AskSymbol, Pick, confVars, Asking
  <2> QED BY <1>4, <2>1 DEF Silent
<1>5. CASE (Step \/ Ask) /\ mode = "nosilentupdate"
  <2>1. /\ mode = "nosilentupdate" /\ conf_cnt = FALSE /\ need = {} /\ Unsettled = {}
        /\ todo \in Seq(CallType)
    BY <1>5 DEF Silent, Unsettled, ConfTypeOK
  <2> DEFINE calls == Calls("nosilentupdate")
  <2>2. /\ calls = <<Call("explicit", Root), Call("loop", Root), Call("write", Root)>>
        /\ calls # <<>> /\ calls[1].op = "explicit" /\ Looking(Tail(calls))
    <3>1. calls = <<Call("explicit", Root), Call("loop", Root), Call("write", Root)>>
      BY DEF Calls
    <3>2. \A x, y, z : Tail(<<x, y, z>>) = <<y, z>> /\ <<x, y, z>> # <<>> /\ <<x, y, z>>[1] = x
      OBVIOUS
    <3>3. Looking(<<Call("loop", Root), Call("write", Root)>>)
      BY DEF Looking, Call
    <3>4. Call("explicit", Root).op = "explicit"
      BY DEF Call
    <3> HIDE DEF calls
    <3> QED BY <3>1, <3>2, <3>3, <3>4
  <2>3. \/ todo = calls /\ pc = "read" /\ Reading
        \/ todo = calls /\ pc = "edit" /\ (changed \/ Quiet)
        \/ todo = <<>> /\ pc = "edit"
        \/ pc = "edit" /\ ~ changed /\ Quiet /\ Looking(todo)
    BY <1>5 DEF Silent
  <2> HIDE DEF calls
  <2>4. ASSUME NEW op, Doing(op)
        PROVE  \/ op = "explicit" /\ todo = calls
               \/ /\ op \in {"check", "loop", "while", "write"} /\ ~ changed
                  /\ Quiet /\ Looking(todo) /\ todo # <<>> /\ pc = "edit"
    <3>1. todo # <<>> /\ todo[1].op = op
      BY <2>4 DEF Doing
    <3>2. CASE todo = calls
      BY <2>2, <3>1, <3>2
    <3>3. CASE todo # calls
      <4>1. 1 \in DOMAIN todo
        BY <2>1, <3>1
      <4> QED BY <2>3, <3>1, <3>3, <4>1 DEF Looking
    <3> QED BY <3>2, <3>3
  <2>5. ASSUME mode' = mode, conf_cnt' = conf_cnt, need' = need, pc' = "edit", ~ changed', Quiet',
               Looking(todo')
        PROVE  Silent'
    BY <2>1, <2>5 DEF Silent
  <2>6. CASE Calculate
    <3>1. PICK x : CalcSymbol(x) \/ CalcChoice(x)
      BY <2>6, Zenon DEF Calculate
    <3>2. x \in Sym \ valid
      BY <3>1, SortAssumption DEF CalcSymbol, CalcChoice, Named
    <3>3. ~ Quiet
      BY <3>2 DEF Quiet
    <3>4. /\ mode' = mode /\ todo' = todo /\ conf_cnt' = conf_cnt /\ need' = need
          /\ pc' = pc /\ changed' = changed
      BY <2>6, <3>1 DEF Calculate, confVars, CalcSymbol, CalcChoice, fileVars
    <3>5. Reading => Reading'
      <4> SUFFICES ASSUME Reading PROVE Reading'
        OBVIOUS
      <4>1. CalcsOne(x)
        BY <1>1, <3>1, <3>2, CalcSymbolOne, CalcChoiceOne DEF Reading
      <4> QED BY <1>1, <4>1, CalcReads
    <3> QED BY <2>1, <2>3, <3>3, <3>4, <3>5 DEF Silent, calls
  <2>7. CASE EndRead
    <3>1. /\ mode' = mode /\ todo' = todo /\ conf_cnt' = conf_cnt /\ need' = need
          /\ pc = "read" /\ pc' = "edit" /\ FinishRead
      BY <2>7 DEF EndRead, FinishRead, confVars
    <3>2. todo = calls /\ Reading
      BY <2>3, <3>1
    <3>3. changed' \/ Quiet'
      BY <1>1, <3>1, <3>2, ReadIsQuiet
    <3> QED BY <2>1, <3>1, <3>2, <3>3 DEF Silent, calls
  <2>8. CASE Explicit
    <3>1. /\ UNCHANGED vars /\ mode' = mode /\ conf_cnt' = conf_cnt /\ need' = need
          /\ todo' = (IF changed THEN <<>> ELSE Rest) /\ Doing("explicit") /\ pc = "edit"
      BY <2>8 DEF Explicit, Ready
    <3>2. /\ pc' = pc /\ changed' = changed /\ valid' = valid /\ visible' = visible /\ user' = user
      BY <3>1 DEF vars, userVars, cacheVars, fileVars
    <3>3. todo = calls
      BY <2>4, <3>1
    <3>4. CASE changed
      BY <2>1, <3>1, <3>2, <3>4 DEF Silent
    <3>5. CASE ~ changed
      <4>1. Quiet
        BY <2>3, <3>1, <3>3, <3>5, <2>2
      <4>2. Quiet'
        BY <3>2, <4>1 DEF Quiet
      <4>3. Looking(todo')
        BY <2>2, <3>1, <3>3, <3>5, Zenon DEF Rest
      <4> QED BY <2>5, <3>1, <3>2, <3>5, <4>2, <4>3
    <3> QED BY <3>4, <3>5
  <2>9. CASE Loop
    <3>1. /\ UNCHANGED vars /\ mode' = mode /\ conf_cnt' = FALSE /\ need' = need
          /\ todo' = <<Call("check", Root), Call("while", Root)>> \o Rest /\ Doing("loop")
      BY <2>1, <2>9 DEF Loop, Ready
    <3>2. /\ pc' = pc /\ changed' = changed /\ valid' = valid /\ visible' = visible /\ user' = user
      BY <3>1 DEF vars, userVars, cacheVars, fileVars
    <3>3. ~ changed /\ Quiet /\ Looking(todo) /\ todo # <<>> /\ pc = "edit"
      BY <2>4, <3>1
    <3>4. Quiet' /\ Looking(todo')
      BY <3>1, <3>2, <3>3, LookingOn DEF Quiet
    <3> QED BY <2>1, <2>5, <3>1, <3>2, <3>3, <3>4
  <2>10. CASE While
    <3>1. /\ UNCHANGED vars /\ mode' = mode /\ conf_cnt' = conf_cnt /\ need' = need
          /\ todo' = Rest /\ Doing("while")
      BY <2>1, <2>10 DEF While, Ready
    <3>2. /\ pc' = pc /\ changed' = changed /\ valid' = valid /\ visible' = visible /\ user' = user
      BY <3>1 DEF vars, userVars, cacheVars, fileVars
    <3>3. ~ changed /\ Quiet /\ Looking(todo) /\ todo # <<>> /\ pc = "edit"
      BY <2>4, <3>1
    <3>4. Quiet' /\ Looking(todo')
      BY <3>1, <3>2, <3>3, LookingOn DEF Quiet
    <3> QED BY <2>5, <3>1, <3>2, <3>3, <3>4
  <2>11. CASE BeginWrite
    <3>1. Doing("write") /\ mode' = mode /\ conf_cnt' = conf_cnt /\ need' = need
      BY <2>11 DEF BeginWrite, Ready
    <3>2. ~ changed /\ Quiet /\ Looking(todo) /\ todo # <<>> /\ pc = "edit"
      BY <2>4, <3>1
    <3>3. todo' = Rest /\ UNCHANGED vars
      BY <2>1, <2>11, <3>2 DEF BeginWrite, SyncModes
    <3>4. /\ pc' = pc /\ changed' = changed /\ valid' = valid /\ visible' = visible /\ user' = user
      BY <3>3 DEF vars, userVars, cacheVars, fileVars
    <3>5. Quiet' /\ Looking(todo')
      BY <3>2, <3>3, <3>4, LookingOn DEF Quiet
    <3> QED BY <2>5, <3>1, <3>2, <3>4, <3>5
  <2>12. CASE CheckConf
    <3> DEFINE m == todo[1].m
    <3>1. Doing("check") /\ UNCHANGED <<fileVars, valid, pc, cacheVars, Asking>>
      BY <2>12, Zenon DEF CheckConf, Ready
    <3>2. ~ changed /\ Quiet /\ Looking(todo) /\ todo # <<>> /\ pc = "edit"
      BY <2>4, <3>1
    <3>3. m \in Entries
      BY <3>1, DoingAt DEF Ops
    <3>4. Visible[m] => ~ IsNew(m, user \cup Touched[m])
      <4> HIDE DEF m
      <4> QED BY <3>2, <3>3, NothingNew
    <3>5. /\ user' = user \cup Touched[m] /\ conf_cnt' = conf_cnt
          /\ todo' = Rest \/ todo' = Below("check", m) \o Rest
      BY <2>12, <3>4, Zenon DEF CheckConf
    <3>6. mode' = mode /\ need' = need /\ pc' = pc /\ changed' = changed /\ valid' = valid
          /\ visible' = visible
      BY <3>1 DEF fileVars, cacheVars, Asking
    <3> HIDE DEF m
    <3>7. Quiet'
      BY <3>2, <3>5, <3>6 DEF Quiet
    <3>8. Looking(todo')
      BY <3>2, <3>3, <3>5, LookingOn
    <3> QED BY <2>5, <3>2, <3>5, <3>6, <3>7, <3>8
  <2>13. ~ EndWrite
    BY <2>3 DEF EndWrite, FinishWrite
  <2>14. /\ ~ Descend /\ ~ SetNew /\ ~ SetChoice /\ ~ Again /\ ~ Clear /\ ~ WriteDefconfig
         /\ ~ AskSymbol /\ ~ Pick
    BY <2>4 DEF Descend, SetNew, SetChoice, Again, Clear, WriteDefconfig, AskSymbol, Pick, Ready
  <2>15. ~ \E c \in Unsettled : SetAllChoiceValues(c)
    BY <2>1
  <2> QED
    BY <1>5, <2>6, <2>7, <2>8, <2>9, <2>10, <2>11, <2>12, <2>13, <2>14, <2>15 DEF Step, Ask
<1> QED BY <1>2, <1>3, <1>4, <1>5 DEF ConfNext

\* Whatever the menus and the file are: with KCONFIG_NOSILENTUPDATE in the
\* environment syncconfig asks nothing, and it does not write a configuration
\* that is not the one it read.
THEOREM NeverSilently == ConfSpec => []NotSilently
<1>1. ConfInit => ConfTypeOK /\ Silent
  BY ConfInitType DEF ConfInit, Silent
<1>2. ConfTypeOK /\ Silent /\ [ConfNext]_allVars => (ConfTypeOK /\ Silent)'
  BY ConfTypeStep, SilentStep
<1>3. Silent => NotSilently
  <2> SUFFICES ASSUME Silent, mode = "nosilentupdate", Doing("write"), changed PROVE FALSE
    BY DEF NotSilently, Silent
  <2>1. todo # <<>> /\ todo[1].op = "write"
    BY DEF Doing
  <2>2. todo # Calls("nosilentupdate")
    BY <2>1 DEF Calls, Call
  <2> QED BY <2>1, <2>2 DEF Silent
<1> QED BY <1>1, <1>2, <1>3, PTL DEF ConfSpec
-----------------------------------------------------------------------------
(* oldconfig and syncconfig ask for everything.  Why: the last time that     *)
(* check_conf goes through the menus it finds nothing to ask for, and it     *)
(* goes wherever the user can get to.                                        *)

LoopModes == {"oldaskconfig", "oldconfig", "syncconfig"}

\* The ends of the loop; a process that first asks everything has not begun it.
Looping(md) == IF md = "oldaskconfig" THEN {"loop"} ELSE {"loop", "while"}

\* The calls of check_conf and conf come before the end of the loop, and that
\* before the call that writes.
Placed(q, md) ==
    \A i \in DOMAIN q :
        \/ q[i].op \in {"check", "conf", "pick"} /\ i < Len(q) - 1
        \/ q[i].op \in Looping(md) /\ i = Len(q) - 1
        \/ q[i].op = "write" /\ i = Len(q)

\* Only check_conf is left of the loop.
Looked(q) == \A i \in DOMAIN q : q[i].op \in {"check", "while", "write"}

\* The entries that check_conf has still to go to.
PendingOf(q) == {q[i].m : i \in {j \in DOMAIN q : q[j].op = "check"}}

\* No question is open at m.
Settled(m) == SymOf(m) # NoSym /\ Changable(SymOf(m)) => SymOf(m) \in user

\* With the entries of P to come, those of H are where check_conf has been.
Covers(H, P) ==
    /\ Root \in H \cup P
    /\ \A m \in H : Visible[m] => Settled(m) /\ KidsOf(m) \subseteq H \cup P

Covered(P) == \E H \in SUBSET Entries : Covers(H, P) /\ (H = {} \/ valid = Sym)

\* While check_conf has not met a new option (conf_cnt = 0).
NoneNew ==
    \/ todo = <<>>
    \/ Doing("loop")
    \/ Looked(todo) /\ (pc = "edit" => Covered(PendingOf(todo)))

AskInv ==
    mode \in LoopModes =>
        /\ need = {} /\ Placed(todo, mode)
        /\ pc = "read" => Doing("conf") \/ Doing("loop")
        /\ pc = "write" => Doing("write")
        /\ Doing("write") => mode # "oldaskconfig" /\ ~ conf_cnt
        /\ mode # "oldaskconfig" /\ ~ conf_cnt => NoneNew

\* The user gets to an entry through its parents.
LEMMA ReachIs ==
    ASSUME NEW m \in Entries, Reach(m)
    PROVE  /\ Visible[m]
           /\ m # Root => Parent(m) \in Entries /\ Reach(Parent(m))
                          /\ m \in KidsOf(Parent(m))
<1> DEFINE body(f, k) == Visible[k] /\ (k = Root \/ f[Parent(k)])
           up == CHOOSE f : f = [k \in Entries |-> body(f, k)]
           base == [n \in Entries |-> IF Visible[n] THEN {} ELSE {0}]
           next == [n \in Entries |-> IF n = Root THEN {} ELSE {Parent(n)}]
<1>1. ASSUME NEW n \in Entries, n # Root PROVE Parent(n) \in Entries /\ n \in KidsOf(Parent(n))
  <2>1. \E p \in Entries : \E i \in DOMAIN Kids(p) : Kids(p)[i] = n
    BY <1>1, TreeAssumption
  <2>2. Parent(n) \in Entries /\ \E i \in DOMAIN Kids(Parent(n)) : Kids(Parent(n))[i] = n
    BY <2>1, Zenon DEF Parent
  <2> QED BY <2>2 DEF KidsOf
<1>2. base = [n \in Entries |-> base[n]] /\ next \in [Entries -> SUBSET Entries]
  BY <1>1
<1>3. PICK shut : /\ shut = [n \in Entries |-> shut[n]]
                  /\ \A n \in Entries : shut[n] = base[n] \cup UNION {shut[k] : k \in next[n]}
  <2> HIDE DEF base, next
  <2> QED BY <1>2, Fixpoint
<1> DEFINE open == [n \in Entries |-> shut[n] = {}]
<1>4. ASSUME NEW n \in Entries PROVE open[n] <=> body(open, n)
  <2>1. shut[n] = base[n] \cup UNION {shut[k] : k \in next[n]}
    BY <1>3
  <2>2. CASE n = Root
    <3>1. shut[n] = base[n]
      BY <2>1, <2>2
    <3> QED BY <2>2, <3>1
  <2>3. CASE n # Root
    <3>1. Parent(n) \in Entries /\ next[n] = {Parent(n)}
      BY <1>1, <2>3
    <3>2. shut[n] = base[n] \cup shut[Parent(n)]
      BY <2>1, <3>1
    <3> QED BY <2>3, <3>1, <3>2
  <2> QED BY <2>2, <2>3
<1>5. open = [n \in Entries |-> open[n]] /\ \A n \in Entries : open[n] \in BOOLEAN
  OBVIOUS
<1>6. \A n \in Entries : body(open, n) \in BOOLEAN
  OBVIOUS
<1>7. \A n \in Entries : Reach(n) = up[n]
  BY Zenon DEF Reach
<1> HIDE DEF open, body
<1>8. \A n \in Entries : open[n] = body(open, n)
  BY <1>4, <1>5, <1>6
<1>9. open = [n \in Entries |-> body(open, n)]
  BY <1>5, <1>8, Zenon
<1>10. up = [n \in Entries |-> body(up, n)]
  BY <1>9, Zenon
<1> HIDE DEF up
<1>11. up[m] = body(up, m)
  BY <1>10, Zenon
<1>12. up[m]
  BY <1>7
<1>13. Visible[m] /\ (m = Root \/ up[Parent(m)])
  BY <1>11, <1>12 DEF body
<1> QED BY <1>1, <1>7, <1>13

\* Where check_conf has been when nothing is to come is all that can be got to.
LEMMA CoversAll ==
    ASSUME NEW H \in SUBSET Entries, Covers(H, {}), NEW m \in Entries, Reach(m)
    PROVE  m \in H /\ Settled(m)
<1> DEFINE S == {k \in Entries : Reach(k) /\ k \notin H}
<1>1. S = {}
  <2> SUFFICES ASSUME S # {} PROVE FALSE
    OBVIOUS
  <2>1. PICK k \in S : k = Root \/ Parent(k) \notin S
    <3>1. S \in (SUBSET Entries) \ {{}}
      OBVIOUS
    <3> HIDE DEF S
    <3> QED BY <3>1, TreeAssumption, Zenon
  <2>2. k # Root
    BY <2>1 DEF Covers
  <2>3. Parent(k) \in Entries /\ Reach(Parent(k)) /\ k \in KidsOf(Parent(k))
    BY <2>1, <2>2, ReachIs
  <2>4. Parent(k) \in H /\ Visible[Parent(k)]
    BY <2>1, <2>2, <2>3, ReachIs
  <2>5. k \in H
    BY <2>3, <2>4 DEF Covers
  <2> QED BY <2>1, <2>5
<1>2. m \in H /\ Visible[m]
  BY <1>1, ReachIs
<1> QED BY <1>2 DEF Covers

LEMMA CompleteIs ==
    ASSUME ~ Complete
    PROVE  /\ Doing("write") /\ mode \in {"oldconfig", "syncconfig"} /\ valid = Sym
           /\ \E m \in Entries : Reach(m) /\ ~ Settled(m)
  BY DEF Complete, Settled

\* When only the call that writes is left, nothing is to come.
LEMMA LastIsWrite ==
    ASSUME ConfTypeOK, NEW md, Placed(todo, md), Doing("write")
    PROVE  PendingOf(todo) = {}
<1>1. todo \in Seq(CallType) /\ todo # <<>> /\ todo[1].op = "write"
  BY DEF ConfTypeOK, Doing
<1>2. DOMAIN todo = {1}
  <2> HIDE DEF CallType
  <2>1. 1 \in DOMAIN todo /\ DOMAIN todo = 1 .. Len(todo) /\ Len(todo) \in Nat
    BY <1>1
  <2>2. Len(todo) = 1
    BY <1>1, <2>1 DEF Placed, Looping
  <2> QED BY <2>1, <2>2
<1> QED BY <1>1, <1>2 DEF PendingOf

LEMMA AskedIsComplete ==
    ASSUME ConfTypeOK, AskInv, pc = "edit"
    PROVE  Complete
<1> SUFFICES ASSUME ~ Complete PROVE FALSE
  OBVIOUS
<1>1. Doing("write") /\ mode \in {"oldconfig", "syncconfig"}
  BY CompleteIs
<1>2. PICK m \in Entries : Reach(m) /\ ~ Settled(m)
  BY CompleteIs
<1>3. todo # <<>> /\ todo[1].op = "write" /\ Placed(todo, mode) /\ NoneNew
  BY <1>1 DEF AskInv, LoopModes, Doing
<1>4. PendingOf(todo) = {} /\ Covered(PendingOf(todo))
  <2>1. Covered(PendingOf(todo))
    BY <1>3 DEF NoneNew, Doing
  <2>2. PendingOf(todo) = {}
    BY <1>1, <1>3, LastIsWrite
  <2> QED BY <2>1, <2>2
<1>5. PICK H \in SUBSET Entries : Covers(H, {})
  BY <1>4 DEF Covered
<1> QED BY <1>2, <1>5, CoversAll

\* What is put before the calls that remain.
LEMMA PlacedOn ==
    ASSUME ConfTypeOK, NEW md, Placed(todo, md), todo # <<>>
    PROVE  /\ todo[1].op \in {"check", "conf", "pick"} =>
                /\ Rest # <<>> /\ Rest[1].op # "write" /\ Placed(Rest, md)
                /\ \A q \in Seq(CallType) :
                     (\A i \in DOMAIN q : q[i].op \in {"check", "conf", "pick"}) => Placed(q \o Rest, md)
           /\ todo[1].op \in Looping(md) =>
                \E x \in CallType : Rest = <<x>> /\ x.op = "write"
           /\ todo[1].op = "write" => Rest = <<>>
           /\ todo[1].op \in {"check", "conf", "pick", "write"} \cup Looping(md)
<1>1. /\ todo \in Seq(CallType) /\ Rest \in Seq(CallType) /\ Len(Rest) = Len(todo) - 1
      /\ Len(todo) \in Nat /\ DOMAIN todo = 1 .. Len(todo) /\ 1 \in DOMAIN todo
      /\ DOMAIN Rest = 1 .. Len(Rest) /\ Len(Rest) \in Nat
      /\ \A i \in DOMAIN Rest : i + 1 \in DOMAIN todo /\ Rest[i] = todo[i + 1]
  <2>1. todo \in Seq(CallType)
    BY DEF ConfTypeOK
  <2> HIDE DEF CallType
  <2> QED BY <2>1 DEF Rest
<1>0. "write" \notin Looping(md) /\ Looping(md) \cap {"check", "conf", "pick"} = {}
  BY DEF Looping
<1> HIDE DEF CallType, Rest
<1>2. ASSUME todo[1].op \in {"check", "conf", "pick"}
      PROVE  /\ Rest # <<>> /\ Rest[1].op # "write" /\ Placed(Rest, md)
             /\ \A q \in Seq(CallType) :
                  (\A i \in DOMAIN q : q[i].op \in {"check", "conf", "pick"}) => Placed(q \o Rest, md)
  <2>1. Len(todo) > 2
    BY <1>0, <1>1, <1>2 DEF Placed
  <2>2. Rest # <<>> /\ 1 \in DOMAIN Rest /\ 2 \in DOMAIN todo /\ Rest[1] = todo[2]
    BY <1>1, <2>1
  <2>3. Rest[1].op # "write"
    BY <1>0, <2>1, <2>2 DEF Placed
  <2>4. ASSUME NEW i \in DOMAIN Rest
        PROVE  \/ Rest[i].op \in {"check", "conf", "pick"} /\ i < Len(Rest) - 1
               \/ Rest[i].op \in Looping(md) /\ i = Len(Rest) - 1
               \/ Rest[i].op = "write" /\ i = Len(Rest)
    <3>1. i + 1 \in DOMAIN todo /\ Rest[i] = todo[i + 1] /\ i \in Nat
      BY <1>1
    <3>2. \/ Rest[i].op \in {"check", "conf", "pick"} /\ i + 1 < Len(todo) - 1
          \/ Rest[i].op \in Looping(md) /\ i + 1 = Len(todo) - 1
          \/ Rest[i].op = "write" /\ i + 1 = Len(todo)
      BY <3>1 DEF Placed
    <3> QED BY <1>1, <3>1, <3>2
  <2>5. ASSUME NEW q \in Seq(CallType), \A i \in DOMAIN q : q[i].op \in {"check", "conf", "pick"}
        PROVE  Placed(q \o Rest, md)
    <3> DEFINE t == q \o Rest
    <3> SUFFICES ASSUME NEW i \in DOMAIN t
                 PROVE  \/ t[i].op \in {"check", "conf", "pick"} /\ i < Len(t) - 1
                        \/ t[i].op \in Looping(md) /\ i = Len(t) - 1
                        \/ t[i].op = "write" /\ i = Len(t)
      BY DEF Placed
    <3>1. Len(t) = Len(q) + Len(Rest) /\ i \in 1 .. Len(t) /\ Len(q) \in Nat /\ Len(Rest) > 1
      BY <1>1, <2>1
    <3>2. CASE i <= Len(q)
      <4>1. i \in DOMAIN q /\ t[i] = q[i]
        BY <1>1, <3>1, <3>2
      <4> QED BY <1>1, <2>5, <3>1, <3>2, <4>1
    <3>3. CASE i > Len(q)
      <4>1. i - Len(q) \in DOMAIN Rest /\ t[i] = Rest[i - Len(q)]
        BY <1>1, <3>1, <3>3
      <4>2. \/ t[i].op \in {"check", "conf", "pick"} /\ i - Len(q) < Len(Rest) - 1
            \/ t[i].op \in Looping(md) /\ i - Len(q) = Len(Rest) - 1
            \/ t[i].op = "write" /\ i - Len(q) = Len(Rest)
        BY <2>4, <4>1
      <4>3. /\ i - Len(q) < Len(Rest) - 1 => i < Len(t) - 1
            /\ i - Len(q) = Len(Rest) - 1 => i = Len(t) - 1
            /\ i - Len(q) = Len(Rest) => i = Len(t)
        <5>1. \A a, b, c, n \in Int : (n = a + b) =>
                ((c - a < b - 1 => c < n - 1) /\ (c - a = b - 1 => c = n - 1) /\ (c - a = b => c = n))
          OBVIOUS
        <5>2. Len(q) \in Int /\ Len(Rest) \in Int /\ i \in Int /\ Len(t) \in Int
          <6> HIDE DEF t
          <6> QED BY <1>1, <3>1
        <5> HIDE DEF t
        <5> QED BY <3>1, <5>1, <5>2
      <4> HIDE DEF t
      <4> QED BY <4>2, <4>3, Zenon
    <3> QED BY <1>1, <3>1, <3>2, <3>3
  <2> QED BY <2>2, <2>3, <2>4, <2>5 DEF Placed
<1>3. ASSUME todo[1].op \in Looping(md)
      PROVE  \E x \in CallType : Rest = <<x>> /\ x.op = "write"
  <2>1. Len(todo) = 2
    BY <1>0, <1>1, <1>3 DEF Placed
  <2>2. Len(Rest) = 1 /\ Rest[1] = todo[2] /\ 2 \in DOMAIN todo
    BY <1>1, <2>1
  <2>3. todo[2].op = "write"
    BY <1>0, <2>1, <2>2 DEF Placed
  <2>4. Rest = <<Rest[1]>> /\ Rest[1] \in CallType
    <3>1. \A S : \A t \in Seq(S) : Len(t) = 1 => t = <<t[1]>> /\ t[1] \in S
      OBVIOUS
    <3> QED BY <1>1, <2>2, <3>1
  <2> QED BY <2>2, <2>3, <2>4
<1>4. ASSUME todo[1].op = "write" PROVE Rest = <<>>
  <2>1. Len(Rest) = 0
    BY <1>0, <1>1, <1>4 DEF Placed
  <2> QED BY <1>1, <2>1
<1>5. todo[1].op \in {"check", "conf", "pick", "write"} \cup Looping(md)
  BY <1>1 DEF Placed
<1> QED BY <1>2, <1>3, <1>4, <1>5

\* The calls that make up a loop.
LEMMA PlacedLoop ==
    ASSUME NEW x \in CallType, x.op = "write", NEW md
    PROVE  /\ Placed(<<x>>, md)
           /\ Placed(<<Call("loop", Root)>> \o <<x>>, md)
           /\ LET q == <<Call("check", Root), Call("while", Root)>> \o <<x>>
              IN Placed(q, "oldconfig") /\ Placed(q, "syncconfig") /\ Looked(q) /\ Root \in PendingOf(q)
<1>1. ASSUME NEW S, NEW a \in S, NEW b \in S, NEW c \in S
      PROVE  <<a>> \o <<c>> = <<a, c>> /\ <<a, b>> \o <<c>> = <<a, b, c>>
  <2>1. /\ \A t \in Seq(S) : Len(t) = 2 => t = <<t[1], t[2]>>
        /\ \A t \in Seq(S) : Len(t) = 3 => t = <<t[1], t[2], t[3]>>
    OBVIOUS
  <2>2. /\ <<a>> \o <<c>> \in Seq(S) /\ Len(<<a>> \o <<c>>) = 2
        /\ (<<a>> \o <<c>>)[1] = a /\ (<<a>> \o <<c>>)[2] = c
    OBVIOUS
  <2>3. /\ <<a, b>> \o <<c>> \in Seq(S) /\ Len(<<a, b>> \o <<c>>) = 3
        /\ (<<a, b>> \o <<c>>)[1] = a /\ (<<a, b>> \o <<c>>)[2] = b /\ (<<a, b>> \o <<c>>)[3] = c
    OBVIOUS
  <2> QED BY <2>1, <2>2, <2>3
<1>2. Placed(<<x>>, md)
  BY DEF Placed
<1>3. Placed(<<Call("loop", Root), x>>, md)
  BY DEF Placed, Call, Looping
<1>4. /\ \A mo \in {"oldconfig", "syncconfig"} :
            Placed(<<Call("check", Root), Call("while", Root), x>>, mo)
      /\ Looked(<<Call("check", Root), Call("while", Root), x>>)
      /\ Root \in PendingOf(<<Call("check", Root), Call("while", Root), x>>)
  BY DEF Placed, Looked, PendingOf, Call, Looping
<1>5. /\ <<Call("loop", Root)>> \o <<x>> = <<Call("loop", Root), x>>
      /\ <<Call("check", Root), Call("while", Root)>> \o <<x>>
           = <<Call("check", Root), Call("while", Root), x>>
  <2>1. \A op \in Ops : Call(op, Root) \in CallType
    BY CallIs, TreeAssumption
  <2>2. /\ Call("loop", Root) \in CallType /\ Call("check", Root) \in CallType
        /\ Call("while", Root) \in CallType
    BY <2>1 DEF Ops
  <2> HIDE DEF CallType, Call
  <2> QED BY <1>1, <2>2
<1> HIDE DEF Call
<1> QED BY <1>2, <1>3, <1>4, <1>5, Zenon

\* The entries to come, one call later.
LEMMA PendingOn ==
    ASSUME NEW q \in Seq(CallType), NEW r \in Seq(CallType)
    PROVE  /\ PendingOf(q \o r) = PendingOf(q) \cup PendingOf(r)
           /\ Looked(q) /\ Looked(r) => Looked(q \o r)
           /\ q # <<>> => /\ PendingOf(q) \subseteq PendingOf(Tail(q)) \cup {q[1].m}
                          /\ q[1].op # "check" => PendingOf(q) = PendingOf(Tail(q))
                          /\ Looked(q) => Looked(Tail(q))
<1> HIDE DEF CallType
<1>1. /\ DOMAIN q = 1 .. Len(q) /\ DOMAIN r = 1 .. Len(r) /\ Len(q) \in Nat /\ Len(r) \in Nat
      /\ \A i \in DOMAIN q : i \in DOMAIN (q \o r) /\ (q \o r)[i] = q[i]
      /\ \A i \in DOMAIN r : i + Len(q) \in DOMAIN (q \o r) /\ (q \o r)[i + Len(q)] = r[i]
      /\ \A i \in DOMAIN (q \o r) : i \in DOMAIN q \/ (i - Len(q) \in DOMAIN r /\ (q \o r)[i] = r[i - Len(q)])
  OBVIOUS
<1>2. PendingOf(q \o r) \subseteq PendingOf(q) \cup PendingOf(r)
  BY <1>1 DEF PendingOf
<1>3. PendingOf(q) \subseteq PendingOf(q \o r)
  BY <1>1 DEF PendingOf
<1>4. PendingOf(r) \subseteq PendingOf(q \o r)
  <2> SUFFICES ASSUME NEW i \in DOMAIN r, r[i].op = "check" PROVE r[i].m \in PendingOf(q \o r)
    BY DEF PendingOf
  <2>1. i + Len(q) \in DOMAIN (q \o r) /\ (q \o r)[i + Len(q)] = r[i]
    BY <1>1
  <2> QED BY <2>1, Zenon DEF PendingOf
<1>5. Looked(q) /\ Looked(r) => Looked(q \o r)
  BY <1>1 DEF Looked
<1>6. ASSUME q # <<>>
      PROVE  /\ PendingOf(q) \subseteq PendingOf(Tail(q)) \cup {q[1].m}
             /\ q[1].op # "check" => PendingOf(q) = PendingOf(Tail(q))
             /\ Looked(q) => Looked(Tail(q))
  <2>1. /\ \A i \in DOMAIN Tail(q) : i + 1 \in DOMAIN q /\ Tail(q)[i] = q[i + 1]
        /\ \A i \in DOMAIN q : i = 1 \/ (i - 1 \in DOMAIN Tail(q) /\ q[i] = Tail(q)[i - 1])
    BY <1>6
  <2>2. ASSUME NEW i \in DOMAIN q, q[i].op = "check"
        PROVE  i = 1 \/ q[i].m \in PendingOf(Tail(q))
    <3> SUFFICES ASSUME i # 1 PROVE q[i].m \in PendingOf(Tail(q))
      OBVIOUS
    <3>1. i - 1 \in DOMAIN Tail(q) /\ q[i] = Tail(q)[i - 1]
      BY <2>1
    <3> QED BY <2>2, <3>1, Zenon DEF PendingOf
  <2>3. ASSUME NEW i \in DOMAIN Tail(q), Tail(q)[i].op = "check"
        PROVE  Tail(q)[i].m \in PendingOf(q)
    <3>1. i + 1 \in DOMAIN q /\ q[i + 1] = Tail(q)[i]
      BY <2>1
    <3> QED BY <2>3, <3>1, Zenon DEF PendingOf
  <2>4. /\ PendingOf(q) \subseteq PendingOf(Tail(q)) \cup {q[1].m}
        /\ q[1].op # "check" => PendingOf(q) \subseteq PendingOf(Tail(q))
        /\ PendingOf(Tail(q)) \subseteq PendingOf(q)
    BY <2>2, <2>3 DEF PendingOf
  <2>5. Looked(q) => Looked(Tail(q))
    BY <2>1 DEF Looked
  <2> QED BY <2>4, <2>5
<1> QED BY <1>2, <1>3, <1>4, <1>5, <1>6

LEMMA BelowIs ==
    ASSUME NEW op \in Ops, NEW m \in Entries
    PROVE  /\ Below(op, m) \in Seq(CallType)
           /\ \A i \in DOMAIN Below(op, m) : Below(op, m)[i].op = op
           /\ op = "check" => PendingOf(Below(op, m)) = KidsOf(m) /\ Looked(Below(op, m))
<1>1. Below(op, m) \in Seq(CallType)
  BY CallIs
<1>2. \A i \in DOMAIN Kids(m) : Below(op, m)[i].op = op /\ Below(op, m)[i].m = Kids(m)[i]
  BY DEF Below, Call
<1>3. DOMAIN Below(op, m) = DOMAIN Kids(m)
  BY DEF Below
<1>4. op = "check" => PendingOf(Below(op, m)) = KidsOf(m) /\ Looked(Below(op, m))
  BY <1>2, <1>3 DEF PendingOf, KidsOf, Looked
<1> QED BY <1>1, <1>2, <1>3, <1>4

\* What can be seen of the menu depends on what is calculated only.
LEMMA SameVisible ==
    ASSUME curr' = curr, visible' = visible
    PROVE  Visible' = Visible
  BY Zenon DEF Visible, OwnPromptVisible

LEMMA SameSettled ==
    ASSUME visible' = visible, revDep' = revDep, user \subseteq user', NEW m \in Entries, Settled(m)
    PROVE  Settled(m)'
  BY DEF Settled, Changable

\* check_conf goes on: one entry is behind it, its children are to come.
LEMMA CoversOn ==
    ASSUME curr' = curr, visible' = visible, revDep' = revDep, user \subseteq user',
           NEW H \in SUBSET Entries, NEW P, NEW Q, Covers(H, P), NEW m \in Entries,
           P \subseteq Q \cup {m}, Visible[m] => Settled(m)' /\ KidsOf(m) \subseteq Q
    PROVE  Covers(H \cup {m}, Q)'
<1>1. Visible' = Visible
  BY SameVisible
<1>2. ASSUME NEW k \in H, Visible[k] PROVE Settled(k)' /\ KidsOf(k) \subseteq H \cup Q \cup {m}
  BY <1>2, SameSettled DEF Covers
<1>3. \A k \in H \cup {m} : Visible'[k] => Settled(k)' /\ KidsOf(k) \subseteq (H \cup {m}) \cup Q
  BY <1>1, <1>2
<1>4. Root \in (H \cup {m}) \cup Q
  BY DEF Covers
<1> QED BY <1>3, <1>4 DEF Covers

\* A call of check_conf or conf that others take the place of.
LEMMA AskOn ==
    ASSUME ConfTypeOK, AskInv, mode \in LoopModes, todo # <<>>,
           todo[1].op \in {"check", "conf", "pick"}, mode' = mode, need' = need, pc' = "edit",
           NEW q \in Seq(CallType), \A i \in DOMAIN q : q[i].op \in {"check", "conf", "pick"},
           todo' = Rest \/ todo' = q \o Rest,
           mode # "oldaskconfig" /\ ~ conf_cnt' => NoneNew'
    PROVE  AskInv'
<1>1. need = {} /\ Placed(todo, mode)
  BY DEF AskInv
<1>2. /\ Rest # <<>> /\ Rest[1].op # "write" /\ Placed(Rest, mode) /\ Placed(q \o Rest, mode)
      /\ Rest \in Seq(CallType)
  BY <1>1, PlacedOn, RestType
<1>3. todo'[1].op # "write"
  <2> HIDE DEF CallType, Rest
  <2>1. CASE q = <<>>
    <3>1. \A S : \A t \in Seq(S) : <<>> \o t = t
      OBVIOUS
    <3> QED BY <1>2, <2>1, <3>1
  <2>2. CASE q # <<>>
    <3>1. 1 \in DOMAIN q /\ (q \o Rest)[1] = q[1]
      BY <1>2, <2>2
    <3> QED BY <1>2, <3>1
  <2> QED BY <2>1, <2>2
<1>4. Placed(todo', mode')
  BY <1>2
<1> QED BY <1>1, <1>3, <1>4 DEF AskInv, Doing

\* While conf() asks, check_conf has met a new option, or everything is asked.
LEMMA AskingIs ==
    ASSUME AskInv, mode \in LoopModes, todo # <<>>, todo[1].op \in {"conf", "pick"},
           1 \in DOMAIN todo
    PROVE  mode = "oldaskconfig" \/ conf_cnt
  BY DEF AskInv, NoneNew, Looked, Doing

LEMMA CheckAsk ==
    ASSUME ConfTypeOK, AskInv, mode \in LoopModes, CheckConf
    PROVE  AskInv'
<1>a. PICK m \in Entries : m = todo[1].m
  BY DoingAt DEF CheckConf, Ready, Ops
<1>b. PICK u : u = user \cup Touched[m]
  OBVIOUS
<1>1. /\ Ready("check") /\ todo # <<>> /\ todo[1].op = "check" /\ valid = Sym
      /\ pc = "edit" /\ todo \in Seq(CallType)
  BY DoingAt, AllValid DEF CheckConf, Ready, ConfTypeOK, Ops
<1>2. /\ user' = u /\ curr' = curr /\ visible' = visible /\ revDep' = revDep /\ valid' = Sym
      /\ pc' = "edit" /\ mode' = mode /\ need' = need
  BY <1>a, <1>b, <1>1 DEF CheckConf, cacheVars, Asking
<1>3. /\ Below("check", m) \in Seq(CallType) /\ PendingOf(Below("check", m)) = KidsOf(m)
      /\ Looked(Below("check", m)) /\ \A i \in DOMAIN Below("check", m) : Below("check", m)[i].op = "check"
  BY <1>1, BelowIs DEF Ops
<1>4. Rest \in Seq(CallType)
  BY <1>1, RestType
<1>5. mode # "listnewconfig"
  BY DEF LoopModes
<1> HIDE DEF CallType
<1>6. CASE Visible[m] /\ IsNew(m, u)
  <2>1. /\ conf_cnt' = TRUE
        /\ todo' = <<Call("conf", ParentMenu[m])>> \o Below("check", m) \o Rest
    BY <1>a, <1>b, <1>5, <1>6 DEF CheckConf
  <2> DEFINE c == Call("conf", ParentMenu[m])
  <2>2. c \in CallType /\ c.op = "conf"
    <3>1. ParentMenu[m] \in Entries
      BY <1>1, ParentMenuType
    <3>2. Call("conf", ParentMenu[m]) \in CallType
      BY <3>1, CallIs DEF Ops
    <3> QED BY <3>2 DEF Call
  <2> HIDE DEF c
  <2> DEFINE q == <<c>> \o Below("check", m)
  <2>3. q \in Seq(CallType) /\ \A i \in DOMAIN q : q[i].op \in {"check", "conf", "pick"}
    <3>1. \A b \in Seq(CallType) : /\ <<c>> \o b \in Seq(CallType)
                                   /\ \A i \in DOMAIN (<<c>> \o b) :
                                        (<<c>> \o b)[i] = c \/ \E j \in DOMAIN b : (<<c>> \o b)[i] = b[j]
      BY <2>2
    <3> QED BY <1>3, <2>2, <3>1
  <2>4. todo' = q \o Rest
    BY <2>1 DEF c
  <2> HIDE DEF q
  <2> QED BY <1>1, <1>2, <2>1, <2>3, <2>4, AskOn
<1>7. CASE ~ (Visible[m] /\ IsNew(m, u))
  <2>1. /\ conf_cnt' = conf_cnt
        /\ ~ Visible[m] => todo' = Rest
        /\ Visible[m] => todo' = Below("check", m) \o Rest
    BY <1>a, <1>b, <1>7 DEF CheckConf
  <2>2. ASSUME mode # "oldaskconfig", ~ conf_cnt
        PROVE  NoneNew'
    <3>1. Looked(todo) /\ Covered(PendingOf(todo))
      BY <1>1, <2>2 DEF AskInv, NoneNew, Doing
    <3>2. PICK H \in SUBSET Entries : Covers(H, PendingOf(todo))
      BY <3>1 DEF Covered
    <3>3. PendingOf(todo) \subseteq PendingOf(Rest) \cup {m} /\ Looked(Rest)
      BY <1>a, <1>1, <3>1, PendingOn DEF Rest
    <3>4. ASSUME Visible[m] PROVE Settled(m)'
      <4>1. ~ IsNew(m, u)
        BY <1>7, <3>4
      <4> QED BY <1>2, <4>1 DEF IsNew, Settled, Changable
    <3>5. /\ Looked(todo') /\ PendingOf(todo) \subseteq PendingOf(todo') \cup {m}
          /\ Visible[m] => KidsOf(m) \subseteq PendingOf(todo')
      <4>1. CASE ~ Visible[m]
        BY <2>1, <3>3, <4>1
      <4>2. CASE Visible[m]
        <5>1. /\ PendingOf(Below("check", m) \o Rest) = PendingOf(Below("check", m)) \cup PendingOf(Rest)
              /\ Looked(Below("check", m) \o Rest)
          BY <1>3, <1>4, <3>3, PendingOn
        <5> QED BY <1>3, <2>1, <3>3, <4>2, <5>1
      <4> QED BY <4>1, <4>2
    <3>6. PICK t : t = todo'
      OBVIOUS
    <3>7. Covers(H \cup {m}, PendingOf(t))'
      <4>1. PICK P : P = PendingOf(todo)
        OBVIOUS
      <4>2. PICK Q : Q = PendingOf(t)
        OBVIOUS
      <4>4. P \subseteq Q \cup {m} /\ (Visible[m] => Settled(m)' /\ KidsOf(m) \subseteq Q)
        BY <3>4, <3>5, <3>6, <4>1, <4>2
      <4>5. user \subseteq user' /\ Covers(H, P)
        BY <1>2, <1>b, <3>2, <4>1
      <4>6. Covers(H \cup {m}, Q)'
        BY <1>2, <4>4, <4>5, CoversOn
      <4> QED BY <4>2, <4>6
    <3>8. Covered(PendingOf(t))'
      BY <1>1, <1>2, <3>7 DEF Covered
    <3> QED BY <1>2, <3>5, <3>6, <3>8 DEF NoneNew
  <2>3. /\ Below("check", m) \in Seq(CallType)
        /\ \A i \in DOMAIN Below("check", m) : Below("check", m)[i].op \in {"check", "conf", "pick"}
        /\ todo' = Rest \/ todo' = Below("check", m) \o Rest
    BY <1>3, <2>1
  <2>4. PICK b : b = Below("check", m)
    OBVIOUS
  <2> QED BY <1>1, <1>2, <2>1, <2>2, <2>3, <2>4, AskOn
<1> QED BY <1>6, <1>7

\* conf() and what it goes on with.
LEMMA ConfAsk ==
    ASSUME ConfTypeOK, AskInv, mode \in LoopModes, Descend \/ AskSymbol \/ Pick
    PROVE  AskInv'
<1>1. /\ todo # <<>> /\ todo[1].op \in {"conf", "pick"} /\ todo[1].m \in Entries /\ pc = "edit"
      /\ todo \in Seq(CallType)
  BY DoingAt DEF Descend, AskSymbol, Pick, Ready, ConfTypeOK, Ops, ChoiceEntries
<1>2. mode' = mode /\ need' = need /\ conf_cnt' = conf_cnt
  BY DEF Descend, AskSymbol, Pick, Asking
<1>3. pc' = "edit"
  <2>1. CASE Descend
    BY <1>1, <2>1 DEF Descend
  <2>2. CASE AskSymbol
    BY <1>1, <2>2 DEF AskSymbol, SetString, PutTristate
  <2>3. CASE Pick
    BY <1>1, <2>3 DEF Pick, PutTristate, vars
  <2> QED BY <2>1, <2>2, <2>3
<1>4. mode = "oldaskconfig" \/ conf_cnt
  <2>1. 1 \in DOMAIN todo
    <3> HIDE DEF CallType
    <3> QED BY <1>1
  <2> QED BY <1>1, <2>1, AskingIs
<1> DEFINE Fits(q) == q \in Seq(CallType) /\ \A i \in DOMAIN q : q[i].op \in {"check", "conf", "pick"}
<1>5. \A x \in CallType : x.op \in {"check", "conf", "pick"} => Fits(<<x>>)
  OBVIOUS
<1>6. \A k \in Entries : Fits(Below("conf", k))
  BY BelowIs DEF Ops
<1>7. \A k \in Entries : \E q : Fits(q) /\ After(k) = q \o Rest
  <2> SUFFICES ASSUME NEW k \in Entries PROVE \E q : Fits(q) /\ After(k) = q \o Rest
    OBVIOUS
  <2>1. CASE SymOf(k) \in Choice
    <3> DEFINE x == [Call("pick", k) EXCEPT !.new = SymOf(k) \notin user]
    <3>1. x \in CallType /\ x.op = "pick"
      BY <2>1 DEF Call, CallType, ChoiceEntries
    <3>2. After(k) = <<x>> \o Rest
      BY <2>1 DEF After
    <3> HIDE DEF x, CallType, Fits
    <3> QED BY <1>5, <3>1, <3>2
  <2>2. CASE SymOf(k) \notin Choice
    <3>1. After(k) = Below("conf", k) \o Rest
      BY <2>2 DEF After
    <3> HIDE DEF Fits
    <3> QED BY <1>6, <3>1
  <2> QED BY <2>1, <2>2
<1>8. \E q : Fits(q) /\ (todo' = Rest \/ todo' = q \o Rest)
  <2>1. CASE Descend
    <3>1. \/ todo' = Rest \/ todo' = <<Call("check", todo[1].m)>> \o Rest \/ todo' = After(todo[1].m)
      BY <2>1, Zenon DEF Descend
    <3>2. Fits(<<Call("check", todo[1].m)>>)
      <4>1. Call("check", todo[1].m) \in CallType
        BY <1>1, CallIs DEF Ops
      <4>2. Call("check", todo[1].m).op = "check"
        BY DEF Call
      <4> HIDE DEF CallType, Call, Fits
      <4> QED BY <1>5, <4>1, <4>2
    <3> HIDE DEF Fits
    <3> QED BY <1>1, <1>7, <3>1, <3>2
  <2>2. CASE AskSymbol
    <3>1. todo' = After(todo[1].m)
      BY <2>2, Zenon DEF AskSymbol
    <3> HIDE DEF Fits
    <3> QED BY <1>1, <1>7, <3>1
  <2>3. CASE Pick
    <3>1. \E k \in Entries : todo' = Below("conf", k) \o Rest \/ todo' = Rest
      <4>1. \A i \in DOMAIN Kids(todo[1].m) : Kids(todo[1].m)[i] \in Entries
        BY <1>1, TreeAssumption
      <4> QED BY <1>1, <2>3, <4>1, Zenon DEF Pick
    <3> HIDE DEF Fits
    <3> QED BY <1>6, <3>1
  <2> QED BY <2>1, <2>2, <2>3
<1>9. PICK q : Fits(q) /\ (todo' = Rest \/ todo' = q \o Rest)
  BY <1>8
<1> QED BY <1>1, <1>2, <1>3, <1>4, <1>9, AskOn

\* The loop, and the call that writes.
LEMMA LoopAsk ==
    ASSUME ConfTypeOK, AskInv, mode \in LoopModes,
           Loop \/ While \/ BeginWrite \/ EndWrite
    PROVE  AskInv'
<1>1. need = {} /\ Placed(todo, mode) /\ todo # <<>> /\ todo \in Seq(CallType)
  BY DEF AskInv, Loop, While, BeginWrite, EndWrite, Ready, Doing, FinishWrite, ConfTypeOK
<1>2. /\ todo[1].op \in Looping(mode) => \E x \in CallType : Rest = <<x>> /\ x.op = "write"
      /\ todo[1].op = "write" => Rest = <<>>
  BY <1>1, PlacedOn
<1>3. Placed(<<>>, mode)
  BY DEF Placed
<1>4. CASE Loop
  <2>1. todo[1].op = "loop" /\ pc = "edit"
    BY <1>4 DEF Loop, Ready, Doing
  <2>2. PICK x \in CallType : Rest = <<x>> /\ x.op = "write"
    BY <1>2, <2>1 DEF Looping
  <2>3. PICK t : t = <<Call("check", Root), Call("while", Root)>> \o <<x>>
    OBVIOUS
  <2>4. todo' = t
    BY <1>4, <2>2, <2>3 DEF Loop
  <2>5. /\ Placed(t, "oldconfig") /\ Placed(t, "syncconfig") /\ Looked(t) /\ Root \in PendingOf(t)
        /\ t # <<>> /\ t[1].op # "write"
    <3>1. t # <<>> /\ t[1].op # "write"
      <4>1. \A S : \A a, b, c \in S : <<a, b>> \o <<c>> # <<>> /\ (<<a, b>> \o <<c>>)[1] = a
        OBVIOUS
      <4>2. Call("check", Root).op = "check"
        BY DEF Call
      <4>3. Call("check", Root) \in CallType /\ Call("while", Root) \in CallType
        BY CallIs, TreeAssumption DEF Ops
      <4> HIDE DEF CallType, Call
      <4> QED BY <2>3, <4>1, <4>2, <4>3
    <3> QED BY <2>2, <2>3, <3>1, PlacedLoop, Zenon
  <2>6. mode' \in {"oldconfig", "syncconfig"} /\ need' = {} /\ pc' = "edit"
    BY <1>1, <1>4, <2>1 DEF Loop, LoopModes, vars
  <2>7. Covered(PendingOf(t))'
    <3>1. PICK P : P = PendingOf(t)
      OBVIOUS
    <3>2. Covers({}, P)'
      BY <2>5, <3>1 DEF Covers
    <3>3. Covered(P)'
      BY <3>2 DEF Covered
    <3> QED BY <3>1, <3>3
  <2> QED BY <2>4, <2>5, <2>6, <2>7 DEF AskInv, NoneNew, Doing
<1>5. CASE While
  <2>1. todo[1].op = "while" /\ pc = "edit"
    BY <1>5 DEF While, Ready, Doing
  <2>2. mode # "oldaskconfig" /\ todo[1].op \in Looping(mode)
    BY <1>1, <2>1, PlacedOn DEF Looping
  <2>3. PICK x \in CallType : Rest = <<x>> /\ x.op = "write"
    BY <1>2, <2>2
  <2>4. /\ mode' = mode /\ need' = {} /\ pc' = "edit" /\ conf_cnt' = conf_cnt
        /\ user' = user /\ valid' = valid /\ curr' = curr /\ visible' = visible /\ revDep' = revDep
    BY <1>1, <1>5, <2>1 DEF While, vars, userVars, cacheVars
  <2>5. CASE conf_cnt
    <3>1. PICK t : t = <<Call("loop", Root)>> \o <<x>>
      OBVIOUS
    <3>2. todo' = t
      BY <1>5, <2>3, <2>5, <3>1 DEF While
    <3>3. t # <<>> /\ t[1].op # "write"
      <4>1. \A S : \A a, c \in S : <<a>> \o <<c>> # <<>> /\ (<<a>> \o <<c>>)[1] = a
        OBVIOUS
      <4>2. Call("loop", Root).op = "loop"
        BY DEF Call
      <4>3. Call("loop", Root) \in CallType
        BY CallIs, TreeAssumption DEF Ops
      <4> HIDE DEF CallType, Call
      <4> QED BY <3>1, <4>1, <4>2, <4>3
    <3>4. Placed(t, mode)
      BY <2>3, <3>1, PlacedLoop, Zenon
    <3> QED BY <2>4, <2>5, <3>2, <3>3, <3>4 DEF AskInv, Doing
  <2>6. CASE ~ conf_cnt
    <3>1. Looked(todo) /\ Covered(PendingOf(todo))
      BY <1>1, <2>1, <2>2, <2>6 DEF AskInv, NoneNew, Doing
    <3>2. PendingOf(todo) = PendingOf(Rest) /\ Looked(Rest)
      BY <1>1, <2>1, <3>1, PendingOn DEF Rest
    <3>3. PICK r : r = Rest
      OBVIOUS
    <3>4. todo' = r /\ r # <<>> /\ r[1].op = "write"
      BY <1>5, <2>3, <2>6, <3>3 DEF While
    <3>5. Placed(r, mode)
      BY <2>3, <3>3, PlacedLoop, Zenon
    <3>6. Covered(PendingOf(r))'
      <4>1. PICK P : P = PendingOf(r)
        OBVIOUS
      <4>2. PICK H \in SUBSET Entries : Covers(H, P) /\ (H = {} \/ valid = Sym)
        BY <3>1, <3>2, <3>3, <4>1 DEF Covered
      <4>3. Visible' = Visible /\ \A k \in Entries : Settled(k) => Settled(k)'
        BY <2>4, SameVisible, SameSettled
      <4>4. Covers(H, P)'
        BY <4>2, <4>3 DEF Covers
      <4>5. Covered(P)'
        BY <2>4, <4>2, <4>4 DEF Covered
      <4> QED BY <4>1, <4>5
    <3> QED BY <2>2, <2>4, <2>6, <3>2, <3>3, <3>4, <3>5, <3>6 DEF AskInv, NoneNew, Doing
  <2> QED BY <2>5, <2>6
<1>6. CASE BeginWrite
  <2>1. todo[1].op = "write" /\ pc = "edit" /\ mode' = mode /\ need' = {} /\ conf_cnt' = conf_cnt
    BY <1>1, <1>6 DEF BeginWrite, Ready, Doing
  <2>2. CASE todo' = Rest /\ UNCHANGED vars
    BY <1>2, <1>3, <2>1, <2>2 DEF AskInv, NoneNew, Doing, vars
  <2>3. CASE Write /\ UNCHANGED todo
    <3>1. pc' = "write"
      BY <2>3 DEF Write
    <3>2. Doing("write")' /\ mode # "oldaskconfig" /\ ~ conf_cnt
      BY <1>1, <2>1, <2>3 DEF AskInv, Doing
    <3>3. NoneNew' /\ Placed(todo', mode')
      <4>1. NoneNew
        BY <3>2 DEF AskInv
      <4>2. ~ Doing("loop")
        BY <2>1 DEF Doing
      <4> QED BY <1>1, <2>1, <2>3, <3>1, <4>1, <4>2 DEF NoneNew
    <3> QED BY <2>1, <3>1, <3>2, <3>3 DEF AskInv
  <2> QED BY <1>6, <2>2, <2>3 DEF BeginWrite
<1>7. CASE EndWrite
  <2>1. todo[1].op = "write" /\ mode' = mode /\ need' = {} /\ pc' = "edit"
    BY <1>1, <1>7 DEF EndWrite, FinishWrite, AskInv, Doing
  <2>2. todo' = <<>>
    BY <1>2, <1>7, <2>1 DEF EndWrite
  <2> QED BY <1>3, <2>1, <2>2 DEF AskInv, NoneNew, Doing
<1> QED BY <1>4, <1>5, <1>6, <1>7

\* The mode changes at the start, and when the loop begins.
LEMMA OtherMode ==
    ASSUME mode \notin LoopModes, Step \/ Ask
    PROVE  mode' = mode
  BY DEF Step, Ask, Calculate, EndRead, Explicit, Loop, While, BeginWrite, EndWrite, CheckConf,
         Descend, SetNew, SetChoice, Again, Clear, WriteDefconfig, SetAllChoiceValues,
         AskSymbol, Pick, Asking, confVars, LoopModes

\* The steps of the modes that ask in a loop.
LEMMA LoopSteps ==
    ASSUME ConfTypeOK, AskInv, mode \in LoopModes, Step \/ Ask
    PROVE  \/ Calculate \/ EndRead \/ Loop \/ While \/ BeginWrite \/ EndWrite \/ AskSymbol \/ Pick
           \/ CheckConf \/ Descend
<1>1. need = {} /\ Placed(todo, mode)
  BY DEF AskInv
<1>2. todo # <<>> => todo[1].op \in {"check", "conf", "pick", "write", "loop", "while"}
  BY <1>1, PlacedOn DEF Looping
<1>3. ~ \E c \in Unsettled : SetAllChoiceValues(c)
  BY <1>1 DEF Unsettled
<1>4. ~ (Explicit \/ SetNew \/ SetChoice \/ Again \/ Clear \/ WriteDefconfig)
  BY <1>2 DEF Explicit, SetNew, SetChoice, Again, Clear, WriteDefconfig, Ready, Doing
<1> QED BY <1>3, <1>4 DEF Step, Ask

LEMMA AskStep ==
    ASSUME ConfTypeOK, AskInv, [ConfNext]_allVars
    PROVE  AskInv'
<1>1. CASE UNCHANGED allVars
  <2>1. /\ UNCHANGED <<mode, todo, conf_cnt, need, pc, valid, user>>
        /\ curr' = curr /\ visible' = visible /\ revDep' = revDep
    BY <1>1 DEF allVars, vars, confVars, userVars, cacheVars
  <2>2. Visible' = Visible /\ \A k \in Entries : Settled(k) => Settled(k)'
    BY <2>1, SameVisible, SameSettled
  <2>3. PICK P : P = PendingOf(todo)
    OBVIOUS
  <2>4. Covered(P) => Covered(P)'
    BY <2>1, <2>2 DEF Covered, Covers
  <2> QED BY <2>1, <2>3, <2>4 DEF AskInv, NoneNew, Doing
<1>2. ASSUME NEW m \in Modes, Start(m) PROVE AskInv'
  <2>1. mode' = m /\ todo' = Calls(m) /\ need' = {} /\ ~ conf_cnt'
        /\ pc' = IF m \in AllModes THEN "edit" ELSE "read"
    BY <1>2 DEF Start
  <2> SUFFICES ASSUME m \in LoopModes PROVE AskInv'
    BY <2>1 DEF AskInv
  <2>2. pc' = "read"
    BY <2>1 DEF LoopModes, AllModes
  <2>3. Placed(Calls(m), m) /\ Calls(m) # <<>>
        /\ Calls(m)[1].op = IF m = "oldaskconfig" THEN "conf" ELSE "loop"
    BY DEF Calls, Placed, Looping, Call, LoopModes
  <2> HIDE DEF Calls
  <2> QED BY <2>1, <2>2, <2>3 DEF AskInv, NoneNew, Doing, LoopModes
<1>3. CASE mode \notin LoopModes /\ (Step \/ Ask)
  <2>1. mode' = mode
    BY <1>3, OtherMode
  <2> QED BY <1>3, <2>1 DEF AskInv
<1>4. CASE mode \in LoopModes /\ (Step \/ Ask)
  <2>1. \/ Calculate \/ EndRead \/ Loop \/ While \/ BeginWrite \/ EndWrite \/ AskSymbol \/ Pick
        \/ CheckConf \/ Descend
    BY <1>4, LoopSteps
  <2>2. CASE Calculate
    <3>1. valid # Sym /\ todo' = todo /\ mode' = mode /\ conf_cnt' = conf_cnt /\ need' = need
          /\ pc' = pc
      <4>1. \E s \in Sym : s \notin valid
        BY <2>2, SortAssumption DEF Calculate, CalcSymbol, CalcChoice, Named
      <4> QED BY <2>2, <4>1 DEF Calculate, confVars, CalcSymbol, CalcChoice
    <3>2. PICK P : P = PendingOf(todo)
      OBVIOUS
    <3>3. Covered(P) => Covered(P)'
      BY <3>1 DEF Covered, Covers
    <3> QED BY <3>1, <3>2, <3>3 DEF AskInv, NoneNew, Doing
  <2>3. CASE EndRead
    <3>1. /\ pc = "read" /\ pc' = "edit" /\ todo' = todo /\ mode' = mode /\ conf_cnt' = conf_cnt
          /\ need' = need
      BY <2>3 DEF EndRead, FinishRead, confVars
    <3>2. Doing("loop") \/ Doing("conf")
      BY <1>4, <3>1 DEF AskInv
    <3>3. Doing("conf") => mode = "oldaskconfig" \/ conf_cnt
      <4>1. Doing("conf") => 1 \in DOMAIN todo
        <5>1. todo \in Seq(CallType)
          BY DEF ConfTypeOK
        <5> HIDE DEF CallType
        <5> QED BY <5>1 DEF Doing
      <4> QED BY <1>4, <4>1, AskingIs DEF Doing
    <3> QED BY <3>1, <3>2, <3>3 DEF AskInv, NoneNew, Doing
  <2> QED BY <1>4, <2>1, <2>2, <2>3, CheckAsk, ConfAsk, LoopAsk
<1> QED BY <1>1, <1>2, <1>3, <1>4 DEF ConfNext

\* Nothing that the user can get to and can change is left without a value when
\* oldconfig and syncconfig have no more to ask, in whatever order the answers
\* made options visible.
THEOREM EverythingAsked == ConfSpec => [](pc = "edit" => Complete)
<1> DEFINE Safe == pc = "edit" => Complete
<1>1. ConfInit => AskInv
  BY DEF ConfInit, AskInv, LoopModes
<1>2. ConfTypeOK /\ AskInv /\ [ConfNext]_allVars => AskInv'
  BY AskStep
<1>3. ConfTypeOK /\ AskInv => Safe
  BY AskedIsComplete
<1>4. ConfSpec => []ConfTypeOK
  BY ConfTypeCorrect
<1> HIDE DEF Safe
<1>5. ConfSpec => []Safe
  BY <1>1, <1>2, <1>3, <1>4, PTL DEF ConfSpec
<1> QED BY <1>5 DEF Safe
-----------------------------------------------------------------------------
(* While .config is written everything is calculated again.  Why nothing     *)
(* becomes a question then: in the menus of this tree (BoolMenu) that leaves *)
(* every value where it was.                                                 *)

\* Ints stay in their ranges, in .config and in the engine, in every mode.
FilesInv ==
    /\ \A s \in Ints : disk[s] = Unset \/ Within(s, disk[s])
    /\ IntsWithin
    /\ pc = "start" => todo = <<>>

LoopCache == mode \in LoopModes => CacheInv /\ StringsKept

\* While the loop over its symbols runs, conf_write finds all as it was.
WriteSame ==
    mode \in LoopModes /\ pc = "write" =>
        (\A s \in Sym : Fresh(s)) /\ \E H \in SUBSET Entries : Covers(H, {})

\* The steps that calculate nothing and write no file.
LEMMA Quietly ==
    ASSUME \/ \E m \in Modes : Start(m)
           \/ EndRead \/ Explicit \/ Loop \/ While \/ BeginWrite \/ CheckConf \/ Descend
           \/ SetNew \/ SetChoice \/ Again \/ Clear \/ WriteDefconfig \/ AskSymbol \/ Pick
           \/ \E c \in Unsettled : SetAllChoiceValues(c)
    PROVE  /\ disk' = disk /\ curr' = curr /\ (valid' \subseteq valid)
           /\ pc' = "start" => pc = "start" /\ todo' = todo
<1>1. CASE \E m \in Modes : Start(m)
  BY <1>1 DEF Start, cacheVars
<1>2. CASE EndRead
  BY <1>2 DEF EndRead, FinishRead, cacheVars
<1>3. CASE Explicit \/ Loop \/ While \/ Again
  BY <1>3 DEF Explicit, Loop, While, Again, Ready, vars, cacheVars, fileVars
<1>4. CASE BeginWrite
  BY <1>4 DEF BeginWrite, Ready, Write, ClearAllValid, vars, cacheVars, fileVars
<1>5. CASE CheckConf
  BY <1>5 DEF CheckConf, Ready, cacheVars, fileVars
<1>6. CASE Descend
  BY <1>6 DEF Descend, Ready, cacheVars, fileVars
<1>7. CASE SetNew
  BY <1>7 DEF SetNew, Ready, ClearAllValid, cacheVars
<1>8. CASE SetChoice
  BY <1>8, Zenon DEF SetChoice, Ready, Randomize, cacheVars, fileVars
<1>9. CASE Clear \/ WriteDefconfig
  BY <1>9 DEF Clear, WriteDefconfig, Ready, ClearAllValid, cacheVars, fileVars
<1>10. CASE AskSymbol
  BY <1>10 DEF AskSymbol, Ready, SetString, PutTristate, ClearAllValid, cacheVars
<1>11. CASE Pick
  BY <1>11 DEF Pick, Ready, PutTristate, ClearAllValid, vars, cacheVars, fileVars
<1>12. CASE \E c \in Unsettled : SetAllChoiceValues(c)
  BY <1>12 DEF SetAllChoiceValues, cacheVars, fileVars
<1> QED BY <1>1, <1>2, <1>3, <1>4, <1>5, <1>6, <1>7, <1>8, <1>9, <1>10, <1>11, <1>12

LEMMA FilesStep ==
    ASSUME FixedRanges, ConfTypeOK, FilesInv, [ConfNext]_allVars
    PROVE  FilesInv'
<1>1. TypeOK /\ Ints \subseteq Named /\ Ints \cap Choice = {}
  BY SortAssumption DEF ConfTypeOK, Named
<1>2. ASSUME disk' = disk, curr' = curr, valid' \subseteq valid,
             pc' = "start" => pc = "start" /\ todo' = todo
      PROVE  FilesInv'
  BY <1>2 DEF FilesInv, IntsWithin, Within
<1>3. CASE Calculate
  <2>1. disk' = disk /\ pc' = pc /\ todo' = todo
    BY <1>3 DEF Calculate, CalcSymbol, CalcChoice, fileVars, confVars
  <2>2. PICK x : CalcSymbol(x) \/ CalcChoice(x)
    BY <1>3, Zenon DEF Calculate
  <2>3. valid' = valid \cup {x} /\ \A s \in Ints : s # x => curr'[s] = curr[s]
    <3>1. \E y : curr' = [curr EXCEPT ![x] = y]
      BY <2>2, Zenon DEF CalcSymbol, CalcChoice
    <3>2. \A s \in Ints : s \in Sym
      BY SortAssumption
    <3>3. valid' = valid \cup {x}
      BY <2>2 DEF CalcSymbol, CalcChoice, Store
    <3> QED BY <1>1, <3>1, <3>2, <3>3 DEF TypeOK, Valuation
  <2>4. x \in Ints => curr'[x] = IntValue(x, curr)
    <3>1. x \in Ints => CalcSymbol(x) /\ x \in Sym
      BY <1>1, <2>2 DEF CalcChoice, Named
    <3> QED BY <1>1, <3>1 DEF CalcSymbol, Value, TypeOK, Valuation
  <2>5. x \in Ints => Within(x, IntValue(x, curr))
    BY <1>1, IntWithin
  <2> QED BY <2>1, <2>3, <2>4, <2>5 DEF FilesInv, IntsWithin, Within
<1>4. CASE EndWrite
  <2>1. /\ disk' = Content /\ Named \subseteq valid /\ pc' = "edit" /\ curr' = curr /\ valid' = valid
    BY <1>4 DEF EndWrite, FinishWrite, cacheVars
  <2>2. \A s \in Ints : disk'[s] \in {curr[s], Unset} /\ Within(s, curr[s])
    BY <1>1, <2>1 DEF Content, FilesInv, IntsWithin
  <2> QED BY <2>1, <2>2 DEF FilesInv, IntsWithin, Within
<1>5. CASE UNCHANGED allVars
  BY <1>2, <1>5 DEF allVars, vars, confVars, cacheVars, fileVars
<1> QED BY <1>2, <1>3, <1>4, <1>5, Quietly DEF ConfNext, Step, Ask

\* What menu_is_visible marks cannot be seen itself, and is no int.
LEMMA TouchedHidden ==
    ASSUME NEW m \in Entries
    PROVE  Touched[m] \subseteq {s \in Sym \ Ints : visible[s] = no}
<1> DEFINE Good == {s \in Sym \ Ints : visible[s] = no}
           Bad == {n \in Entries : ~ (Touched[n] \subseteq Good)}
<1> SUFFICES ASSUME Bad # {} PROVE FALSE
  OBVIOUS
<1>1. PICK n \in Bad : \A i \in DOMAIN Kids(n) : Kids(n)[i] \notin Bad
  <2>1. Bad \in (SUBSET Entries) \ {{}}
    OBVIOUS
  <2> HIDE DEF Bad
  <2> QED BY <2>1, TreeAssumption, Zenon
<1>2. Visible[n] /\ ~ OwnPromptVisible(n)
  BY <1>1, TouchedIs
<1>3. PICK i \in DOMAIN Kids(n) : Touched[n] = {SymOf(n)} \cup Touched[Kids(n)[i]]
  BY <1>2, TouchedIs
<1>4. SymOf(n) \in Good
  <2>1. SymOf(n) \in Sym /\ visible[SymOf(n)] = no
    BY <1>2, TouchedIs, Zenon DEF OwnPromptVisible
  <2>2. SymOf(n) \notin Ints
    BY <1>2, VisibleIs DEF Carries
  <2> QED BY <2>1, <2>2
<1>5. Kids(n)[i] \in Entries
  BY TreeAssumption
<1> QED BY <1>1, <1>3, <1>4, <1>5

\* Whatever conf does in its loop, the cache of the engine stays true.
LEMMA LoopFresh ==
    ASSUME BoolMenu, ConfTypeOK, FilesInv, AskInv, LoopCache, [ConfNext]_allVars
    PROVE  LoopCache'
<1>1. TypeOK /\ TypeOK'
  BY ConfTypeStep DEF ConfTypeOK
<1>2. ASSUME NEW m \in Modes, Start(m) PROVE LoopCache'
  <2> SUFFICES ASSUME m \in LoopModes PROVE CacheInv' /\ StringsKept'
    BY <1>2 DEF LoopCache, Start
  <2>1. /\ def' = DefOf(disk) /\ user' = UserOf(disk) /\ disk' = disk /\ valid' = {}
    BY <1>2 DEF Start, LoopModes, AllModes, ReadSimple
  <2>2. \A s \in Ints : s \in Sym /\ s \in Named /\ s \notin Choice
    BY SortAssumption DEF Named
  <2>3. \A s \in Ints : s \in UserOf(disk) => disk[s] # Unset /\ DefOf(disk)[s] = disk[s]
    BY <2>2 DEF UserOf, DefOf
  <2>4. Ranges'
    BY <2>1, <2>3 DEF FilesInv, Ranges, Within
  <2>5. StringsKept'
    BY <2>1, NoString
  <2> QED BY <1>1, <2>1, <2>4, <2>5 DEF CacheInv, Closed, AllFresh
<1>3. CASE mode \notin LoopModes /\ (Step \/ Ask)
  <2>1. mode' = mode
    BY <1>3, OtherMode
  <2> QED BY <1>3, <2>1 DEF LoopCache
<1>4. CASE mode \in LoopModes /\ (Step \/ Ask)
  <2>1. \/ Calculate \/ EndRead \/ Loop \/ While \/ BeginWrite \/ EndWrite \/ AskSymbol \/ Pick
        \/ CheckConf \/ Descend
    BY <1>4, LoopSteps
  <2>2. CASE \/ Calculate \/ EndRead \/ Loop \/ While \/ BeginWrite \/ EndWrite \/ AskSymbol \/ Pick
    <3>1. [Next]_vars
      BY <2>2, EngineSteps
    <3> QED BY <1>4, <3>1, CacheKept DEF LoopCache
  <2>3. CASE CheckConf \/ Descend
    <3>1. /\ def' = def /\ userPick' = userPick /\ valid' = valid /\ disk' = disk
          /\ curr' = curr /\ pick' = pick /\ visible' = visible /\ revDep' = revDep
          /\ implied' = implied
      BY <2>3 DEF CheckConf, Descend, cacheVars, fileVars
    <3>2. PICK U \in SUBSET {s \in Sym \ Ints : visible[s] = no} : user' = user \cup U
      <4>1. PICK m \in Entries : m = todo[1].m
        BY <2>3, DoingAt DEF CheckConf, Descend, Ready, Ops
      <4>2. Touched[m] \in SUBSET {s \in Sym \ Ints : visible[s] = no}
        BY TouchedHidden
      <4>3. TouchedBelow(m) \in SUBSET {s \in Sym \ Ints : visible[s] = no}
        <5>1. \A i \in DOMAIN Kids(m) : Kids(m)[i] \in Entries
          BY TreeAssumption
        <5> QED BY <5>1, TouchedHidden DEF TouchedBelow
      <4>4. \/ user' = user \cup Touched[m] \/ user' = user \cup Touched[m] \cup TouchedBelow(m)
        BY <2>3, <4>1, Zenon DEF CheckConf, Descend
      <4>5. user' = user \cup Touched[m] \/ user' = user \cup (Touched[m] \cup TouchedBelow(m))
        BY <4>4
      <4>6. Touched[m] \cup TouchedBelow(m) \in SUBSET {s \in Sym \ Ints : visible[s] = no}
        BY <4>2, <4>3
      <4> QED BY <4>2, <4>5, <4>6
    <3>3. CacheInv /\ StringsKept
      BY <1>4 DEF LoopCache
    <3>4. AllFresh'
      <4>1. ASSUME NEW t \in valid
            PROVE  (t \in user') = (t \in user) \/ Visibility(t, curr) = no
        <5>1. t \in Sym /\ visible[t] = Visibility(t, curr)
          BY <1>1, <3>3, FreshNow DEF CacheInv, AllFresh, TypeOK
        <5> QED BY <3>2, <5>1
      <4> QED BY <1>1, <3>1, <3>3, <4>1, AllKept DEF CacheInv
    <3>5. Ranges'
      BY <3>1, <3>2, <3>3 DEF CacheInv, Ranges, Within
    <3>6. CacheInv'
      BY <1>1, <3>1, <3>3, <3>4, <3>5 DEF CacheInv, Closed
    <3>7. StringsKept'
      BY <3>1, <3>2, <3>3, SameStrings
    <3> QED BY <3>6, <3>7 DEF LoopCache
  <2> QED BY <2>1, <2>2, <2>3
<1>5. CASE UNCHANGED allVars
  <2>1. UNCHANGED vars /\ mode' = mode
    BY <1>5 DEF allVars, confVars
  <2>2. CacheInv /\ StringsKept => CacheInv' /\ StringsKept'
    BY <2>1, CacheKept
  <2> QED BY <2>1, <2>2 DEF LoopCache
<1> QED BY <1>2, <1>3, <1>4, <1>5 DEF ConfNext

\* Calculating a choice that is what it should be changes nothing but, perhaps,
\* that the user has set it.
LEMMA ChoiceAgain ==
    ASSUME BoolMenu, TypeOK, \A s \in Sym : Fresh(s), NEW c, CalcChoice(c)
    PROVE  /\ c \in Choice /\ curr' = curr /\ visible' = visible /\ pick' = pick
           /\ user' = user \/ user' = user \ {c}
<1> DEFINE tri == TriValue(c, curr)
           v   == [curr EXCEPT ![c] = tri]
           vis == [s \in Sym |->
                     IF s = c THEN Visibility(c, curr)
                     ELSE IF s \in Values(c) /\ tri = yes THEN Visibility(s, v)
                     ELSE visible[s]]
           p   == IF tri = yes THEN ChoicePick(c, vis, v) ELSE NoSym
           w   == [curr EXCEPT ![c] = yes]
           wis == [x \in Sym |-> Visibility(x, w)]
           q   == Pick0(c, wis, w, userPick[c])
<1>1. /\ c \in Choice /\ visible' = vis
      /\ curr' = [curr EXCEPT ![c] = IF tri = yes /\ p = NoSym THEN no ELSE tri]
      /\ pick' = [pick EXCEPT ![c] = p]
      /\ user' = user \/ user' = user \ {c}
  BY Zenon DEF CalcChoice
<1>2. /\ c \in Sym /\ c \notin Ints /\ c \notin Values(c) /\ Values(c) \subseteq Sym
      /\ NoSym \notin Sym
  BY <1>1, SortAssumption, ChoiceAssumption
<1>3. /\ curr \in Valuation /\ visible \in [Sym -> Tri] /\ pick \in [Choice -> Sym \cup {NoSym}]
      /\ userPick[c] \in Values(c) \cup {NoSym}
  BY <1>1 DEF TypeOK
<1>4. w \in Valuation /\ w[c] = yes
  BY <1>2, <1>3, TriIsVal DEF Valuation
<1>5. \A s \in Sym : visible[s] = Visibility(s, curr)
  BY FreshNow
<1>6. IF tri = yes THEN pick[c] = q /\ curr[c] = (IF q = NoSym THEN no ELSE yes)
      ELSE pick[c] = NoSym /\ curr[c] = tri
  <2>1. ChoiceFresh(c, TriValue(c, curr), curr, pick[c], userPick[c])
    BY <1>1, <1>2, FreshNow
  <2> QED BY <2>1, Zenon DEF ChoiceFresh
<1>7. /\ q # NoSym => wis[q] # no
      /\ q = NoSym => \A s \in Values(c) : wis[s] = no
  <2> HIDE DEF w, wis
  <2> QED BY <1>1, <1>3, <1>4, PickIsVisible
<1>8. ASSUME tri = yes
      PROVE  p = q /\ \A s \in Values(c) : Visibility(s, w) = visible[s]
  <2>1. v = w
    BY <1>8
  <2>2. p = Pick0(c, vis, w, userPick[c])
    BY <1>8, <2>1, Zenon DEF ChoicePick, Pick0
  <2>3. \A s \in Values(c) : vis[s] = wis[s]
    BY <1>2, <1>8, <2>1
  <2>4. p = q
    <3> HIDE DEF vis, wis, w, p
    <3> QED BY <1>1, <1>3, <1>4, <2>2, <2>3, SamePick
  <2>5. CASE q = NoSym
    <3>1. curr[c] = no
      BY <1>6, <1>8, <2>5
    <3>2. ASSUME NEW s \in Values(c) PROVE Visibility(s, w) = visible[s]
      <4>1. s \in Sym /\ Visibility(s, w) = no
        BY <1>2, <1>7, <2>5
      <4>2. Attr(s, curr).prompt = no
        BY <1>1, <1>3, <3>1, AttrAssumption
      <4>3. Visibility(s, curr) = no
        BY <1>3, <4>1, <4>2, TwoValued DEF Promote, no, mod, yes
      <4> QED BY <1>5, <4>1, <4>3
    <3> QED BY <2>4, <3>2
  <2>6. CASE q # NoSym
    <3>1. curr[c] = yes
      BY <1>6, <1>8, <2>6
    <3>2. w = curr
      BY <1>2, <1>3, <3>1 DEF Valuation
    <3> QED BY <1>2, <1>5, <2>4, <3>2
  <2> QED BY <2>5, <2>6
<1>9. visible' = visible
  <2>1. \A s \in Sym : vis[s] = visible[s]
    <3>1. tri = yes => v = w
      OBVIOUS
    <3> QED BY <1>5, <1>8, <3>1
  <2>2. vis = [s \in Sym |-> vis[s]] /\ visible = [s \in Sym |-> visible[s]]
    BY <1>3
  <2> HIDE DEF vis
  <2> QED BY <1>1, <2>1, <2>2
<1>10. pick' = pick
  <2>1. p = pick[c]
    <3> HIDE DEF q
    <3> QED BY <1>6, <1>8
  <2> HIDE DEF p
  <2> QED BY <1>1, <1>3, <2>1
<1>11. curr' = curr
  <2>1. (IF tri = yes /\ p = NoSym THEN no ELSE tri) = curr[c]
    <3> HIDE DEF q, tri, p
    <3> QED BY <1>6, <1>8
  <2>2. \A x : x = curr[c] => [curr EXCEPT ![c] = x] = curr
    BY <1>2, <1>3 DEF Valuation
  <2> HIDE DEF tri, p
  <2> QED BY <1>1, <2>1, <2>2
<1> QED BY <1>1, <1>9, <1>10, <1>11

\* The same of any symbol.
LEMMA CalcAgain ==
    ASSUME BoolMenu, TypeOK, \A s \in Sym : Fresh(s), NEW x, CalcSymbol(x) \/ CalcChoice(x)
    PROVE  /\ curr' = curr /\ visible' = visible /\ pick' = pick /\ revDep' = revDep
           /\ implied' = implied /\ def' = def /\ userPick' = userPick /\ pc' = pc
           /\ user' = user \/ (x \in Choice /\ user' = user \ {x})
<1>1. x \in Sym /\ Store(x) /\ def' = def /\ userPick' = userPick /\ pc' = pc
  BY SortAssumption DEF CalcSymbol, CalcChoice, Named, userVars
<1>2. revDep' = revDep /\ implied' = implied
  <2>1. revDep[x] = RevDep(x, curr) /\ implied[x] = Implied(x, curr)
    BY <1>1, FreshNow
  <2> QED BY <1>1, <2>1 DEF Store, TypeOK
<1>3. CASE CalcSymbol(x)
  <2>1. x \notin Choice
    BY <1>3 DEF CalcSymbol, Named
  <2>2. visible[x] = Visibility(x, curr) /\ curr[x] = Value(x, curr)
    BY <1>1, <2>1 DEF Fresh
  <2> QED BY <1>1, <1>2, <1>3, <2>2 DEF CalcSymbol, TypeOK, Valuation, userVars
<1> QED BY <1>1, <1>2, <1>3, ChoiceAgain

\* What is fresh stays fresh when nothing is different, or when a choice is not
\* the user's any more.
LEMMA FreshAgain ==
    ASSUME BoolMenu, TypeOK, TypeOK', \A s \in Sym : Fresh(s),
           curr' = curr, visible' = visible, pick' = pick, revDep' = revDep, implied' = implied,
           def' = def, userPick' = userPick,
           user' = user \/ \E x \in Choice : user' = user \ {x}
    PROVE  \A s \in Sym : Fresh(s)'
<1> SUFFICES ASSUME NEW t \in Sym PROVE Fresh(t)'
  OBVIOUS
<1>1. t \notin Choice => (t \in user') = (t \in user)
  OBVIOUS
<1>2. Ints \cap Choice = {}
  BY SortAssumption
<1> QED BY <1>1, <1>2, Kept

\* A choice that can be seen is selected: it is none of what can be changed.
LEMMA CoversAgain ==
    ASSUME BoolMenu, TypeOK, \A s \in Sym : Fresh(s),
           curr' = curr, visible' = visible, revDep' = revDep,
           user' = user \/ \E x \in Choice : user' = user \ {x},
           NEW H \in SUBSET Entries, Covers(H, {})
    PROVE  Covers(H, {})'
<1>1. Visible' = Visible
  BY SameVisible
<1>2. ASSUME NEW m \in Entries, Settled(m) PROVE Settled(m)'
  <2>1. CASE SymOf(m) \in Choice
    <3>1. SymOf(m) \in Sym /\ curr \in Valuation
      BY <2>1, SortAssumption DEF TypeOK
    <3>2. visible[SymOf(m)] = Visibility(SymOf(m), curr) /\ revDep[SymOf(m)] = RevDep(SymOf(m), curr)
      BY <3>1, FreshNow
    <3>3. visible[SymOf(m)] \in Tri
      BY <3>1 DEF TypeOK
    <3>4. visible[SymOf(m)] # no => revDep[SymOf(m)] = yes
      BY <2>1, <3>1, <3>2, SeenIsSelected
    <3>5. revDep[SymOf(m)] \in Tri
      BY <3>1 DEF TypeOK
    <3>6. ~ Changable(SymOf(m))
      BY <3>3, <3>4, <3>5 DEF Changable, Tri, no, mod, yes
    <3> QED BY <3>6 DEF Settled, Changable
  <2>2. CASE SymOf(m) \notin Choice
    BY <1>2, <2>2 DEF Settled, Changable
  <2> QED BY <2>1, <2>2
<1> QED BY <1>1, <1>2 DEF Covers

LEMMA WriteStep ==
    ASSUME BoolMenu, ConfTypeOK, FilesInv, AskInv, LoopCache, WriteSame, [ConfNext]_allVars
    PROVE  WriteSame'
<1>1. TypeOK /\ TypeOK'
  BY ConfTypeStep DEF ConfTypeOK
<1>2. CASE \E m \in Modes : Start(m)
  <2>1. pc' # "write"
    BY <1>2 DEF Start
  <2> QED BY <2>1 DEF WriteSame
<1>3. CASE mode \notin LoopModes /\ (Step \/ Ask)
  <2>1. mode' = mode
    BY <1>3, OtherMode
  <2> QED BY <1>3, <2>1 DEF WriteSame
<1>4. ASSUME mode \in LoopModes, \A s \in Sym : Fresh(s), \E H \in SUBSET Entries : Covers(H, {}),
             curr' = curr, visible' = visible, pick' = pick, revDep' = revDep, implied' = implied,
             def' = def, userPick' = userPick,
             user' = user \/ \E x \in Choice : user' = user \ {x}
      PROVE  WriteSame'
  <2>1. \A s \in Sym : Fresh(s)'
    BY <1>1, <1>4, FreshAgain
  <2>2. PICK H \in SUBSET Entries : Covers(H, {})
    BY <1>4
  <2>3. Covers(H, {})'
    BY <1>1, <1>4, <2>2, CoversAgain
  <2> QED BY <2>1, <2>3 DEF WriteSame
<1>5. CASE mode \in LoopModes /\ (Step \/ Ask)
  <2>1. \/ Calculate \/ EndRead \/ Loop \/ While \/ BeginWrite \/ EndWrite \/ AskSymbol \/ Pick
        \/ CheckConf \/ Descend
    BY <1>5, LoopSteps
  <2>2. CASE Calculate
    <3>1. PICK x : CalcSymbol(x) \/ CalcChoice(x)
      BY <2>2, Zenon DEF Calculate
    <3>2. pc' = pc
      BY <3>1 DEF CalcSymbol, CalcChoice
    <3>3. CASE pc = "write"
      <4>1. (\A s \in Sym : Fresh(s)) /\ \E H \in SUBSET Entries : Covers(H, {})
        BY <1>5, <3>3 DEF WriteSame
      <4> QED BY <1>1, <1>4, <1>5, <3>1, <4>1, CalcAgain
    <3> QED BY <3>2, <3>3 DEF WriteSame
  <2>3. CASE BeginWrite
    <3>1. todo # <<>> /\ todo[1].op = "write" /\ Doing("write") /\ pc = "edit"
      BY <2>3 DEF BeginWrite, Ready, Doing
    <3>2. Covered(PendingOf(todo))
      <4>1. NoneNew
        BY <1>5, <3>1 DEF AskInv
      <4> QED BY <3>1, <4>1 DEF NoneNew, Doing
    <3>3. PendingOf(todo) = {}
      BY <1>5, <3>1, LastIsWrite DEF AskInv
    <3>4. PICK H \in SUBSET Entries : Covers(H, {}) /\ (H = {} \/ valid = Sym)
      BY <3>2, <3>3 DEF Covered
    <3>5. valid = Sym
      BY <3>4 DEF Covers
    <3>6. \A s \in Sym : Fresh(s)
      BY <1>5, <3>5 DEF LoopCache, CacheInv, AllFresh
    <3>7. UNCHANGED <<userVars, cacheVars>>
      BY <2>3 DEF BeginWrite, Write, vars
    <3> QED BY <1>4, <1>5, <3>4, <3>6, <3>7 DEF userVars, cacheVars
  <2>4. CASE EndRead \/ EndWrite
    BY <2>4 DEF WriteSame, EndRead, EndWrite, FinishRead, FinishWrite
  <2>5. CASE Loop \/ While \/ AskSymbol \/ Pick \/ CheckConf \/ Descend
    <3>1. pc = "edit"
      BY <2>5 DEF Loop, While, AskSymbol, Pick, CheckConf, Descend, Ready
    <3>2. pc' = pc
      <4>1. CASE Loop \/ While
        BY <4>1 DEF Loop, While, vars
      <4>2. CASE AskSymbol \/ Pick
        BY <4>2 DEF AskSymbol, Pick, SetString, PutTristate, vars
      <4>3. CASE CheckConf \/ Descend
        BY <4>3 DEF CheckConf, Descend
      <4> QED BY <2>5, <4>1, <4>2, <4>3
    <3> QED BY <3>1, <3>2 DEF WriteSame
  <2> QED BY <2>1, <2>2, <2>3, <2>4, <2>5
<1>6. CASE UNCHANGED allVars
  <2>1. mode' = mode /\ pc' = pc /\ UNCHANGED <<userVars, cacheVars>>
    BY <1>6 DEF allVars, vars, confVars
  <2>2. CASE mode \in LoopModes /\ pc = "write"
    BY <1>4, <2>1, <2>2 DEF WriteSame, userVars, cacheVars
  <2> QED BY <2>1, <2>2 DEF WriteSame
<1> QED BY <1>2, <1>3, <1>5, <1>6 DEF ConfNext

\* The same while the file is written.
LEMMA WriteIsComplete ==
    ASSUME ConfTypeOK, FilesInv, AskInv, WriteSame
    PROVE  Complete
<1>1. CASE pc = "edit"
  BY <1>1, AskedIsComplete
<1>2. CASE pc # "edit"
  <2> SUFFICES ASSUME ~ Complete PROVE FALSE
    OBVIOUS
  <2>1. Doing("write") /\ mode \in {"oldconfig", "syncconfig"}
    BY CompleteIs
  <2>2. PICK m \in Entries : Reach(m) /\ ~ Settled(m)
    BY CompleteIs
  <2>3. pc = "write"
    <3>1. pc \in {"start", "edit", "read", "write"}
      BY DEF ConfTypeOK, TypeOK
    <3>2. pc # "start"
      BY <2>1 DEF FilesInv, Doing
    <3>3. pc # "read"
      BY <2>1 DEF AskInv, LoopModes, Doing
    <3> QED BY <1>2, <3>1, <3>2, <3>3
  <2>4. PICK H \in SUBSET Entries : Covers(H, {})
    BY <2>1, <2>3 DEF WriteSame, LoopModes
  <2> QED BY <2>2, <2>4, CoversAll
<1> QED BY <1>1, <1>2

LEMMA FilesStart == ASSUME BoolMenu PROVE ConfInit => FilesInv
  BY SortAssumption DEF ConfInit, FilesInv, IntsWithin, BoolMenu, FixedRanges, Within

\* In the menus of this tree that holds until the file is written: calculating
\* everything for it makes no option new again.
THEOREM NothingLeftToAsk == ASSUME BoolMenu PROVE ConfSpec => []Complete
<1> DEFINE Inv == FilesInv /\ AskInv /\ LoopCache /\ WriteSame
<1>1. ConfInit => Inv
  <2>1. ConfInit => AskInv /\ LoopCache /\ WriteSame
    BY DEF ConfInit, AskInv, LoopCache, WriteSame, LoopModes
  <2> QED BY <2>1, FilesStart
<1>2. ConfTypeOK /\ Inv /\ [ConfNext]_allVars => Inv'
  <2>1. FixedRanges
    BY DEF BoolMenu
  <2>2. ConfTypeOK /\ FilesInv /\ [ConfNext]_allVars => FilesInv'
    BY <2>1, FilesStep
  <2>3. ConfTypeOK /\ AskInv /\ [ConfNext]_allVars => AskInv'
    BY AskStep
  <2>4. ConfTypeOK /\ Inv /\ [ConfNext]_allVars => LoopCache' /\ WriteSame'
    BY LoopFresh, WriteStep
  <2> QED BY <2>2, <2>3, <2>4
<1>3. ConfTypeOK /\ Inv => Complete
  BY WriteIsComplete
<1>4. ConfSpec => []ConfTypeOK
  BY ConfTypeCorrect
<1> HIDE DEF Inv
<1> QED BY <1>1, <1>2, <1>3, <1>4, PTL DEF ConfSpec
-----------------------------------------------------------------------------
(* allnoconfig, allmodconfig and allyesconfig.  Nothing is calculated before *)
(* every option has an answer: neither the loop over the choices nor the one *)
(* over the symbols finds one that it has to look at.                        *)

AnswerModes == {"allnoconfig", "allmodconfig", "allyesconfig"}

\* The requests are those of the file that was given.
AsGiven ==
    /\ \A s \in Named \ Ints : s \in user <=> given[s] # Unset
    /\ \A s \in Named \ Ints : s \in user => def[s] = given[s]
    /\ userPick = PickOf(given)

\* Every option has its answer.
AllAnswered ==
    /\ \A s \in Named \ Ints : s \in user /\ def[s] = Answer(s)
    /\ userPick = PickOf(given)

\* The calls between the answers and conf_write, which is the last.
Answering(q) ==
    /\ q # <<>>
    /\ \A i \in DOMAIN q : IF i = Len(q) THEN q[i].op = "write" ELSE q[i].op \in {"choice", "again"}

\* While conf_write calculates: what a symbol was calculated from does not
\* change, and a choice picks what the file says if that can be seen.
ValuesFresh ==
    /\ Closed
    /\ \A s \in valid \cap Named :
         /\ visible[s] = Visibility(s, curr) /\ revDep[s] = RevDep(s, curr)
         /\ implied[s] = Implied(s, curr) /\ curr[s] = Value(s, curr)
    /\ \A c \in valid \cap Choice : \A s \in Values(c) :
         curr[c] = yes /\ userPick[c] = s /\ Visibility(s, curr) # no => pick[c] = s

AnswerInv ==
    mode \in AnswerModes =>
        /\ need = {}
        /\ \/ todo = Calls(mode) /\ pc = "edit" /\ valid = {} /\ AsGiven
           \/ Answering(todo) /\ pc = "edit" /\ valid = {} /\ AllAnswered /\ Choice \subseteq user
           \/ Answering(todo) /\ Doing("write") /\ pc = "write" /\ AllAnswered /\ ValuesFresh
           \/ todo = <<>> /\ pc = "edit"

\* A calculation keeps all of that.
LEMMA ValuesStep ==
    ASSUME Modules \notin Tristate, TypeOK, TypeOK', ValuesFresh, NEW x, CalcSymbol(x) \/ CalcChoice(x)
    PROVE  /\ ValuesFresh' /\ pc' = pc /\ def' = def /\ userPick' = userPick
           /\ \A s \in Named : s \in user' <=> s \in user
<1>1. x \in Sym /\ Closed
  BY SortAssumption DEF CalcSymbol, CalcChoice, Named, ValuesFresh
<1>2. CalcsOne(x)
  BY <1>1, CalcSymbolOne, CalcChoiceOne
<1>3. /\ x \in Sym \ valid /\ Operands(x) \subseteq valid /\ valid' = valid \cup {x}
      /\ \A s \in Sym : s # x => curr'[s] = curr[s]
      /\ \A s \in valid \cap Named : visible'[s] = visible[s]
      /\ user' = user \/ (x \in Choice /\ user' = user \ {x})
      /\ pc' = pc
  BY <1>2 DEF CalcsOne
<1>4. def' = def /\ userPick' = userPick /\ Store(x)
  BY DEF CalcSymbol, CalcChoice, userVars
<1>5. \A s \in Named : s \in user' <=> s \in user
  BY <1>3 DEF Named
<1>6. /\ curr \in Valuation /\ curr' \in Valuation /\ valid \subseteq Sym
      /\ revDep \in [Sym -> Tri] /\ implied \in [Sym -> Tri]
      /\ pick \in [Choice -> Sym \cup {NoSym}]
  BY DEF TypeOK
<1>7. \A s \in valid \cup {x} : s \in Sym /\ x \notin Operands(s) /\ Operands(s) \subseteq valid
  BY <1>1, <1>3, <1>6, OperandsOf DEF Closed
<1>8. Closed'
  BY <1>3, <1>7 DEF Closed
<1>9. ASSUME NEW s \in valid \cup {x}, s \in Named
      PROVE  /\ Visibility(s, curr') = Visibility(s, curr) /\ RevDep(s, curr') = RevDep(s, curr)
             /\ Implied(s, curr') = Implied(s, curr)
             /\ \A d, u, k : /\ Tri0(s, curr', d, u, k) = Tri0(s, curr, d, u, k)
                             /\ Int0(s, curr', d, u) = Int0(s, curr, d, u)
  <2>1. \A u \in Operands(s) : curr'[u] = curr[u]
    BY <1>3, <1>6, <1>7
  <2>2. /\ Attr(s, curr') = Attr(s, curr) /\ Visibility(s, curr') = Visibility(s, curr)
        /\ \A y : IsTristate(s, y, curr') <=> IsTristate(s, y, curr)
        /\ RevDep(s, curr') = RevDep(s, curr) /\ Implied(s, curr') = Implied(s, curr)
    BY <1>6, <1>9, <2>1, FieldsLocal
  <2>3. \A y : IsTristate(s, y, curr') = IsTristate(s, y, curr)
    BY <2>2 DEF IsTristate
  <2> QED BY <2>2, <2>3, Zenon DEF Tri0, Int0
<1>10. ASSUME NEW c \in Choice, c # x PROVE pick'[c] = pick[c]
  BY <1>6, <1>10 DEF CalcSymbol, CalcChoice
<1>11. ASSUME NEW s \in valid' \cap Named
       PROVE  /\ visible'[s] = Visibility(s, curr') /\ revDep'[s] = RevDep(s, curr')
              /\ implied'[s] = Implied(s, curr') /\ curr'[s] = Value(s, curr)'
  <2>1. s \in valid \cup {x} /\ s \in Named /\ s \in Sym
    BY <1>3, <1>6
  <2>2. CASE s = x
    <3>1. CalcSymbol(x)
      BY <2>1, <2>2 DEF CalcChoice, Named
    <3>2. /\ visible'[s] = Visibility(s, curr) /\ revDep'[s] = RevDep(s, curr)
          /\ implied'[s] = Implied(s, curr) /\ curr'[s] = Value(s, curr)
      BY <1>6, <2>1, <2>2, <3>1 DEF CalcSymbol, Store, TypeOK, Valuation
    <3>3. pick' = pick /\ user' = user
      BY <3>1 DEF CalcSymbol, userVars
    <3>4. Value(s, curr)' = Value(s, curr)
      <4> DEFINE u == s \in user
                 k == pick[ChoiceOf(s)] = s
      <4>1. /\ TriValue(s, curr) = Tri0(s, curr, def[s], u, k)
            /\ TriValue(s, curr)' = Tri0(s, curr', def[s], u, k)
            /\ IntValue(s, curr) = Int0(s, curr, def[s], u)
            /\ IntValue(s, curr)' = Int0(s, curr', def[s], u)
        BY <1>4, <2>1, <3>3, NowThen
      <4> HIDE DEF u, k
      <4>2. TriValue(s, curr)' = TriValue(s, curr) /\ IntValue(s, curr)' = IntValue(s, curr)
        BY <1>9, <2>1, <4>1
      <4> QED BY <4>2 DEF Value
    <3> QED BY <1>9, <2>1, <3>2, <3>4
  <2>3. CASE s # x
    <3>1. s \in valid
      BY <2>1, <2>3
    <3>2. /\ visible[s] = Visibility(s, curr) /\ revDep[s] = RevDep(s, curr)
          /\ implied[s] = Implied(s, curr) /\ curr[s] = Value(s, curr)
      BY <2>1, <3>1 DEF ValuesFresh
    <3>3. visible'[s] = visible[s] /\ revDep'[s] = revDep[s] /\ implied'[s] = implied[s] /\ curr'[s] = curr[s]
      BY <1>3, <1>4, <1>6, <2>1, <2>3, <3>1 DEF Store
    <3>4. Value(s, curr)' = Value(s, curr)
      <4> DEFINE u == s \in user
                 k == pick[ChoiceOf(s)] = s
                 l == pick'[ChoiceOf(s)] = s
      <4>1. (s \in user') = u
        BY <1>5, <2>1
      <4>2. /\ TriValue(s, curr) = Tri0(s, curr, def[s], u, k)
            /\ TriValue(s, curr)' = Tri0(s, curr', def[s], u, l)
            /\ IntValue(s, curr) = Int0(s, curr, def[s], u)
            /\ IntValue(s, curr)' = Int0(s, curr', def[s], u)
        BY <1>4, <2>1, <4>1, NowThen
      <4>3. IsChoiceValue(s) => l = k
        <5> SUFFICES ASSUME IsChoiceValue(s) PROVE pick'[ChoiceOf(s)] = pick[ChoiceOf(s)]
          OBVIOUS
        <5>1. ChoiceOf(s) \in Choice /\ ChoiceOf(s) # x
          BY <1>7, <2>1, OperandsOf
        <5> QED BY <1>10, <5>1
      <4> HIDE DEF u, k, l
      <4>4. Tri0(s, curr, def[s], u, k) = Tri0(s, curr, def[s], u, l)
        <5>1. CASE IsChoiceValue(s)
          BY <4>3, <5>1
        <5>2. CASE ~ IsChoiceValue(s)
          BY <5>2, Zenon DEF Tri0
        <5> QED BY <5>1, <5>2
      <4>5. TriValue(s, curr)' = TriValue(s, curr) /\ IntValue(s, curr)' = IntValue(s, curr)
        BY <1>9, <2>1, <4>2, <4>4
      <4> QED BY <4>5 DEF Value
    <3> QED BY <1>9, <2>1, <3>2, <3>3, <3>4
  <2> QED BY <2>2, <2>3
<1>12. ASSUME NEW c \in valid' \cap Choice, NEW s \in Values(c),
              curr'[c] = yes, userPick'[c] = s, Visibility(s, curr') # no
       PROVE  pick'[c] = s
  <2>1. s \in Named /\ Operands(s) \subseteq Operands(c) \cup {c} /\ s \in Sym /\ s # NoSym /\ c \in Sym
    BY ValueOperands, SortAssumption DEF Named
  <2>2. CASE c # x
    <3>1. c \in valid /\ curr[c] = yes /\ userPick[c] = s
      BY <1>3, <1>4, <1>6, <1>12, <2>2
    <3>2. \A u \in Operands(s) : curr'[u] = curr[u]
      BY <1>3, <1>6, <1>7, <2>1, <2>2, <3>1
    <3>3. Visibility(s, curr') = Visibility(s, curr)
      BY <1>6, <3>2, VisibilityLocal
    <3>4. pick[c] = s
      BY <1>12, <3>1, <3>3 DEF ValuesFresh
    <3> QED BY <1>10, <2>2, <3>4
  <2>3. CASE c = x
    <3> DEFINE tri == TriValue(c, curr)
               v   == [curr EXCEPT ![c] = tri]
               vis == [y \in Sym |->
                         IF y = c THEN Visibility(c, curr)
                         ELSE IF y \in Values(c) /\ tri = yes THEN Visibility(y, v)
                         ELSE visible[y]]
               p   == IF tri = yes THEN ChoicePick(c, vis, v) ELSE NoSym
    <3>1. /\ curr' = [curr EXCEPT ![c] = IF tri = yes /\ p = NoSym THEN no ELSE tri]
          /\ pick' = [pick EXCEPT ![c] = p]
      BY <2>3, Zenon DEF CalcSymbol, CalcChoice, Named
    <3>2. tri = yes /\ curr' = v
      <4>1. curr'[c] = IF tri = yes /\ p = NoSym THEN no ELSE tri
        <5> HIDE DEF p, tri
        <5> QED BY <1>6, <2>1, <3>1 DEF Valuation
      <4> HIDE DEF p, tri
      <4> QED BY <1>12, <3>1, <4>1 DEF no, yes
    <3>3. vis[s] = Visibility(s, curr')
      <4>1. s # c
        BY <2>1 DEF Named
      <4> HIDE DEF v, tri
      <4> QED BY <2>1, <3>2, <4>1
    <3>4. ChoicePick(c, vis, v) = s
      <4> HIDE DEF vis, v
      <4> QED BY <1>4, <1>12, <2>1, <3>3 DEF ChoicePick
    <3>5. p = s
      <4> HIDE DEF vis, v, tri
      <4> QED BY <3>2, <3>4
    <3> HIDE DEF p
    <3> QED BY <1>6, <3>1, <3>5
  <2> QED BY <2>2, <2>3
<1>13. ValuesFresh'
  BY <1>8, <1>11, <1>12, Zenon DEF ValuesFresh
<1> QED BY <1>3, <1>4, <1>5, <1>13

\* What is left after a call of these.
LEMMA RestOne ==
    ASSUME ConfTypeOK, Answering(todo)
    PROVE  /\ Doing("write") => Rest = <<>>
           /\ ~ Doing("write") => Answering(Rest)
           /\ Doing("write") \/ Doing("choice") \/ Doing("again")
<1>1. todo \in Seq(CallType) /\ todo # <<>>
  BY DEF ConfTypeOK, Answering
<1> HIDE DEF CallType
<1>2. PICK n \in Nat : n = Len(todo) /\ n >= 1 /\ DOMAIN todo = 1 .. n
  BY <1>1
<1>3. /\ \A i \in 1 .. n : IF i = n THEN todo[i].op = "write" ELSE todo[i].op \in {"choice", "again"}
  BY <1>2 DEF Answering
<1>4. Rest \in Seq(CallType) /\ Len(Rest) = n - 1 /\ \A i \in 1 .. n - 1 : Rest[i] = todo[i + 1]
  BY <1>1, <1>2 DEF Rest
<1>5. Doing("write") => n = 1
  BY <1>1, <1>2, <1>3 DEF Doing
<1>6. ~ Doing("write") => n # 1
  BY <1>1, <1>2, <1>3 DEF Doing
<1>7. ASSUME n # 1 PROVE Answering(Rest)
  <2>1. DOMAIN Rest = 1 .. n - 1 /\ Rest # <<>>
    BY <1>2, <1>4, <1>7
  <2>2. ASSUME NEW i \in 1 .. n - 1
        PROVE  IF i = n - 1 THEN Rest[i].op = "write" ELSE Rest[i].op \in {"choice", "again"}
    <3>1. i + 1 \in 1 .. n /\ (i + 1 = n <=> i = n - 1) /\ Rest[i] = todo[i + 1]
      BY <1>2, <1>4
    <3> QED BY <1>3, <3>1
  <2> QED BY <1>4, <2>1, <2>2 DEF Answering
<1>8. n = 1 => Rest = <<>>
  BY <1>4
<1>9. todo[1].op = "write" \/ todo[1].op \in {"choice", "again"}
  BY <1>2, <1>3
<1> QED BY <1>1, <1>5, <1>6, <1>7, <1>8, <1>9 DEF Doing

\* The calls that conf_set_all_new_symbols puts before conf_write.
LEMMA LoopAnswers ==
    ASSUME NEW q, q = [i \in DOMAIN HashOrder |-> Call("choice", HashOrder[i])]
                        \o <<Call("again", Root)>> \o <<Call("write", Root)>>
    PROVE  Answering(q)
<1> DEFINE f == [i \in DOMAIN HashOrder |-> Call("choice", HashOrder[i])]
           a == Call("again", Root)
           w == Call("write", Root)
<1>1. HashOrder \in Seq(Choice)
  BY TreeAssumption
<1>2. PICK n \in Nat : DOMAIN HashOrder = 1 .. n
  BY <1>1
<1>3. f \in Seq({f[i] : i \in 1 .. n}) /\ Len(f) = n
  BY <1>2
<1>4. \A i \in 1 .. n : f[i].op = "choice"
  BY <1>2 DEF Call
<1>5. a.op = "again" /\ w.op = "write"
  BY DEF Call
<1> HIDE DEF f, a, w
<1>6. /\ Len(f \o <<a>> \o <<w>>) = n + 2 /\ DOMAIN (f \o <<a>> \o <<w>>) = 1 .. n + 2
      /\ \A i \in 1 .. n : (f \o <<a>> \o <<w>>)[i] = f[i]
      /\ (f \o <<a>> \o <<w>>)[n + 1] = a /\ (f \o <<a>> \o <<w>>)[n + 2] = w
  BY <1>3
<1>7. q = f \o <<a>> \o <<w>>
  BY DEF f, a, w
<1>8. q # <<>>
  BY <1>6, <1>7
<1>9. ASSUME NEW i \in 1 .. n + 2
      PROVE  IF i = n + 2 THEN q[i].op = "write" ELSE q[i].op \in {"choice", "again"}
  <2>1. i \in 1 .. n \/ i = n + 1 \/ i = n + 2
    OBVIOUS
  <2> QED BY <1>4, <1>5, <1>6, <1>7, <2>1
<1> QED BY <1>6, <1>7, <1>8, <1>9 DEF Answering

\* A process starts with the requests of its file.
LEMMA AnswerStart ==
    ASSUME NEW m \in Modes, Start(m)
    PROVE  AnswerInv'
<1> SUFFICES ASSUME m \in AnswerModes PROVE AnswerInv'
  BY DEF Start, AnswerInv
<1>1. /\ mode' = m /\ todo' = Calls(m) /\ pc' = "edit" /\ valid' = {} /\ need' = {}
      /\ ReadNothing \/ \E f \in Seeds : ReadSimple(f)
  BY DEF Start, AnswerModes, AllModes
<1>2. \A s \in Named : s \in Sym \ Choice
  BY DEF Named
<1>3. CASE ReadNothing
  <2>1. /\ user' = {} /\ userPick' = PickOf(NoFile) /\ given' = NoFile
    BY <1>3 DEF ReadNothing
  <2> QED BY <1>1, <2>1 DEF AnswerInv, AsGiven, NoFile
<1>4. ASSUME NEW f \in Seeds, ReadSimple(f) PROVE AnswerInv'
  <2>1. def' = DefOf(f) /\ user' = UserOf(f) /\ userPick' = PickOf(f) /\ given' = f
    BY <1>4 DEF ReadSimple
  <2>2. \A s \in Named : s \in UserOf(f) <=> f[s] # Unset
    BY <1>2 DEF UserOf
  <2>3. \A s \in Named : f[s] # Unset => DefOf(f)[s] = f[s]
    BY <1>2 DEF DefOf
  <2> QED BY <1>1, <2>1, <2>2, <2>3 DEF AnswerInv, AsGiven
<1> QED BY <1>1, <1>3, <1>4

\* conf_set_all_new_symbols gives every option its answer.
LEMMA NewAnswers ==
    ASSUME ConfTypeOK, mode \in AnswerModes, need = {}, todo = Calls(mode), valid = {}, AsGiven, SetNew
    PROVE  AnswerInv'
<1>1. /\ mode' = mode /\ pc' = pc /\ pc = "edit" /\ userPick' = userPick /\ given' = given
      /\ valid' = {} /\ need' = need \cup (Choice \ user')
      /\ \E f \in [New -> Tri] : /\ \A s \in New : f[s] \in NewValue(s)
                               /\ def' = [s \in Sym |-> IF s \in New THEN f[s] ELSE def[s]]
      /\ todo' = [i \in DOMAIN HashOrder |-> Call("choice", HashOrder[i])]
                    \o <<Call("again", Root)>> \o Rest
  BY Zenon DEF SetNew, Ready, ClearAllValid, AnswerModes, ghosts
<1>2. user' = user \cup New
  BY DEF SetNew, AnswerModes
<1>3. todo = <<Call("new", Root), Call("write", Root)>>
  BY DEF Calls, AnswerModes
<1>4. Rest = <<Call("write", Root)>>
  <2>1. \A x, y : Tail(<<x, y>>) = <<y>>
    OBVIOUS
  <2> QED BY <1>3, <2>1 DEF Rest
<1>5. Answering(todo')
  BY <1>1, <1>4, LoopAnswers
<1>6. Choice \subseteq user' /\ need' = {}
  <2>1. Choice \subseteq Sym \ Ints
    BY SortAssumption
  <2>2. Choice \subseteq user'
    BY <1>2, <2>1 DEF New
  <2> QED BY <1>1, <2>2
<1>7. ASSUME NEW s \in Named \ Ints PROVE s \in user' /\ def'[s] = Answer(s)'
  <2>1. s \in Sym \ Ints
    BY DEF Named
  <2>2. s \in New <=> given[s] = Unset
    BY <2>1 DEF New, AsGiven
  <2>3. s \in user'
    BY <1>2, <2>1 DEF New
  <2>4. CASE s \in New
    <3>1. def'[s] \in NewValue(s)
      BY <1>1, <2>1, <2>4
    <3>2. NewValue(s) = {Answer(s)}
      BY <2>2, <2>4 DEF NewValue, Answer, AnswerModes
    <3>3. Answer(s)' = Answer(s)
      BY <1>1 DEF Answer
    <3> QED BY <2>3, <3>1, <3>2, <3>3
  <2>5. CASE s \notin New
    <3>1. def'[s] = def[s]
      BY <1>1, <2>1, <2>5
    <3>2. def[s] = given[s] /\ given[s] # Unset
      BY <2>1, <2>2, <2>5 DEF AsGiven
    <3> QED BY <1>1, <2>3, <3>1, <3>2 DEF Answer
  <2> QED BY <2>4, <2>5
<1>8. AllAnswered'
  BY <1>1, <1>7 DEF AllAnswered, AsGiven
<1> QED BY <1>1, <1>5, <1>6, <1>8 DEF AnswerInv

\* Every step keeps the answers.
LEMMA AnswerStep ==
    ASSUME Modules \notin Tristate, ConfTypeOK, AnswerInv, [ConfNext]_allVars
    PROVE  AnswerInv'
<1>1. TypeOK /\ TypeOK'
  BY ConfTypeStep DEF ConfTypeOK
<1>2. ASSUME NEW m \in Modes, Start(m) PROVE AnswerInv'
  BY <1>2, AnswerStart
<1>3. CASE (Step \/ Ask) /\ mode \notin AnswerModes
  <2>1. mode' = mode \/ mode' = "oldconfig"
    BY <1>3 DEF Step, Ask, Calculate, EndRead, Explicit, Loop, While, BeginWrite, EndWrite,
                CheckConf, Descend, SetNew, SetChoice, Again, Clear, WriteDefconfig,
                SetAllChoiceValues, AskSymbol, Pick, confVars, Asking
  <2> QED BY <1>3, <2>1 DEF AnswerInv, AnswerModes
<1>4. CASE (Step \/ Ask) /\ mode \in AnswerModes
  <2>1. need = {} /\ Unsettled = {} /\ mode # "randconfig" /\ mode \notin SyncModes
    BY <1>4 DEF AnswerInv, AnswerModes, Unsettled, SyncModes
  <2>2. \/ todo = Calls(mode) /\ pc = "edit" /\ valid = {} /\ AsGiven
        \/ Answering(todo) /\ pc = "edit" /\ valid = {} /\ AllAnswered /\ Choice \subseteq user
        \/ Answering(todo) /\ Doing("write") /\ pc = "write" /\ AllAnswered /\ ValuesFresh
        \/ todo = <<>> /\ pc = "edit"
    BY <1>4 DEF AnswerInv
  <2>3. todo = Calls(mode) => Doing("new") /\ \A op : Doing(op) => op = "new"
    <3>1. Calls(mode) = <<Call("new", Root), Call("write", Root)>>
      BY <1>4 DEF Calls, AnswerModes
    <3>2. \A x, y : <<x, y>> # <<>> /\ <<x, y>>[1] = x
      OBVIOUS
    <3>3. Call("new", Root).op = "new"
      BY DEF Call
    <3> QED BY <3>1, <3>2, <3>3 DEF Doing
  <2>4. Answering(todo) => Doing("write") \/ Doing("choice") \/ Doing("again")
    BY RestOne
  <2>5. \A op, o : Doing(op) /\ Doing(o) => op = o
    BY DEF Doing
  <2>6. todo = <<>> => \A op : ~ Doing(op)
    BY DEF Doing
  <2>7. ASSUME pc = "edit", Wanted # {} PROVE FALSE
    <3>1. ~ \E op \in {"check", "conf", "pick", "minimal"} : Doing(op)
      BY <2>2, <2>3, <2>4, <2>5, <2>6, <2>7
    <3>2. CASE Doing("choice")
      <4>1. Wanted = {todo[1].m} \ user
        BY <2>7, <3>2 DEF Wanted
      <4>2. todo[1].m \in Choice
        BY <3>2, DoingAt
      <4>3. Choice \subseteq user
        BY <2>2, <2>3, <2>6, <2>7, <3>2
      <4> QED BY <2>7, <4>1, <4>2, <4>3
    <3>3. CASE ~ Doing("choice")
      BY <2>7, <3>1, <3>3 DEF Wanted
    <3> QED BY <3>2, <3>3
  <2>8. ASSUME mode' = mode, need' = need, pc' = "edit", valid' = {}, given' = given, def' = def,
               user' = user, userPick' = userPick, Answering(todo'), AllAnswered, Choice \subseteq user
        PROVE  AnswerInv'
    <3>1. AllAnswered'
      BY <2>8 DEF AllAnswered, Answer
    <3> QED BY <2>1, <2>8, <3>1 DEF AnswerInv
  <2>9. CASE Calculate
    <3>1. /\ mode' = mode /\ need' = need /\ todo' = todo /\ given' = given
          /\ {s \in (UNION {Under[t] : t \in Wanted}) \ valid : Operands(s) \subseteq valid} # {}
      <4>1. {s \in (UNION {Under[t] : t \in Wanted}) \ valid : Operands(s) \subseteq valid} # {}
        BY <2>9, Zenon DEF Calculate
      <4> QED BY <2>9, <4>1 DEF Calculate, confVars, ghosts
    <3>2. pc = "write"
      <4>1. Wanted # {}
        BY <3>1
      <4> QED BY <2>2, <2>7, <4>1
    <3>3. Answering(todo) /\ Doing("write") /\ AllAnswered /\ ValuesFresh
      BY <2>2, <3>2
    <3>4. PICK x : CalcSymbol(x) \/ CalcChoice(x)
      BY <2>9, Zenon DEF Calculate
    <3>5. /\ ValuesFresh' /\ pc' = pc /\ def' = def /\ userPick' = userPick
          /\ \A s \in Named : s \in user' <=> s \in user
      BY <1>1, <3>3, <3>4, ValuesStep
    <3>6. AllAnswered'
      BY <3>1, <3>3, <3>5 DEF AllAnswered, Answer
    <3> QED BY <2>1, <3>1, <3>2, <3>3, <3>5, <3>6 DEF AnswerInv, Doing
  <2>10. CASE SetNew
    <3>1. Doing("new") /\ pc = "edit"
      BY <2>10 DEF SetNew, Ready
    <3>2. todo = Calls(mode) /\ valid = {} /\ AsGiven
      BY <2>2, <2>4, <2>5, <2>6, <3>1
    <3> QED BY <1>4, <2>1, <2>10, <3>2, NewAnswers
  <2>11. CASE SetChoice
    <3>1. Doing("choice") /\ pc = "edit" /\ todo' = Rest /\ mode' = mode /\ need' = need
          /\ given' = given /\ pc' = pc
      BY <2>11 DEF SetChoice, Ready, ghosts
    <3>2. Answering(todo) /\ valid = {} /\ AllAnswered /\ Choice \subseteq user
      BY <2>2, <2>3, <2>6, <3>1
    <3>3. UNCHANGED <<def, user, userPick, valid>>
      BY <2>1, <2>11 DEF SetChoice
    <3>4. Answering(todo')
      BY <2>5, <3>1, <3>2, RestOne
    <3> QED BY <2>8, <3>1, <3>2, <3>3, <3>4
  <2>12. CASE Again
    <3>1. Doing("again") /\ pc = "edit" /\ todo' = Rest /\ mode' = mode /\ need' = need
          /\ given' = given /\ UNCHANGED vars
      BY <2>1, <2>12 DEF Again, Ready, ghosts
    <3>2. Answering(todo) /\ valid = {} /\ AllAnswered /\ Choice \subseteq user
      BY <2>2, <2>3, <2>6, <3>1
    <3>3. Answering(todo')
      BY <2>5, <3>1, <3>2, RestOne
    <3> QED BY <2>8, <3>1, <3>2, <3>3 DEF vars, userVars
  <2>13. CASE BeginWrite
    <3>1. Doing("write") /\ pc = "edit" /\ mode' = mode /\ need' = need /\ given' = given
          /\ Write /\ todo' = todo
      BY <2>1, <2>13 DEF BeginWrite, Ready, ghosts
    <3>2. Answering(todo) /\ valid = {} /\ AllAnswered
      BY <2>2, <2>3, <2>5, <2>6, <3>1
    <3>3. valid' = {} /\ pc' = "write" /\ UNCHANGED userVars
      BY <3>1, <3>2 DEF Write, ClearAllValid
    <3>4. ValuesFresh' /\ AllAnswered'
      BY <3>1, <3>2, <3>3 DEF ValuesFresh, Closed, AllAnswered, Answer, userVars
    <3> QED BY <2>1, <3>1, <3>2, <3>3, <3>4 DEF AnswerInv, Doing
  <2>14. CASE EndWrite
    <3>1. pc = "write" /\ pc' = "edit" /\ todo' = Rest /\ mode' = mode /\ need' = need
      BY <2>14 DEF EndWrite, FinishWrite
    <3>2. todo' = <<>>
      BY <2>2, <3>1, RestOne
    <3> QED BY <2>1, <3>1, <3>2 DEF AnswerInv
  <2>15. ~ EndRead
    BY <2>2 DEF EndRead, FinishRead
  <2>16. /\ ~ Explicit /\ ~ Loop /\ ~ While /\ ~ CheckConf /\ ~ Descend /\ ~ Clear
         /\ ~ WriteDefconfig /\ ~ AskSymbol /\ ~ Pick
    <3>1. \A op \in {"explicit", "loop", "while", "check", "conf", "clear", "minimal", "pick"} : ~ Doing(op)
      BY <2>2, <2>3, <2>4, <2>5, <2>6
    <3> QED BY <3>1, Zenon DEF Explicit, Loop, While, CheckConf, Descend, Clear, WriteDefconfig, AskSymbol,
                        Pick, Ready
  <2>17. ~ \E c \in Unsettled : SetAllChoiceValues(c)
    BY <2>1
  <2> QED
    BY <1>4, <2>9, <2>10, <2>11, <2>12, <2>13, <2>14, <2>15, <2>16, <2>17 DEF Step, Ask
<1>5. CASE UNCHANGED allVars
  <2>1. /\ mode' = mode /\ todo' = todo /\ need' = need /\ pc' = pc /\ valid' = valid /\ given' = given
        /\ def' = def /\ user' = user /\ userPick' = userPick /\ UNCHANGED cacheVars
    BY <1>5 DEF allVars, vars, userVars, confVars, ghosts
  <2>2. /\ visible' = visible /\ curr' = curr /\ pick' = pick /\ revDep' = revDep /\ implied' = implied
    BY <2>1 DEF cacheVars
  <2>3. AsGiven' = AsGiven /\ AllAnswered' = AllAnswered /\ (Doing("write"))' = Doing("write")
    BY <2>1 DEF AsGiven, AllAnswered, Answer, Doing
  <2>4. ASSUME ValuesFresh PROVE ValuesFresh'
    <3>1. \A s \in Named : Value(s, curr)' = Value(s, curr)
      BY <2>1, <2>2, Zenon DEF Value, IntValue, Clamp, TriValue, OwnValue, ChosenValue
    <3> QED BY <2>1, <2>2, <2>4, <3>1, Zenon DEF ValuesFresh, Closed
  <2> QED BY <2>1, <2>3, <2>4 DEF AnswerInv
<1> QED BY <1>2, <1>3, <1>4, <1>5 DEF ConfNext

\* What is fresh and answered is what is promised.
LEMMA AnswersHold ==
    ASSUME ConfTypeOK, AnswerInv
    PROVE  Answered
<1> SUFFICES ASSUME mode \in AnswerModes, pc = "write", valid = Sym,
                    NEW s \in Named \ Ints, visible[s] # no
             PROVE  IF IsChoiceValue(s) /\ visible[s] = yes
                    THEN s = PickOf(given)[ChoiceOf(s)] /\ curr[ChoiceOf(s)] = yes => curr[s] = yes
                    ELSE curr[s] = Promote(Or3(And3(Answer(s), visible[s]), revDep[s]),
                                           ~ IsTristate(s, visible[s], curr) \/ implied[s] = yes)
  BY DEF Answered, AnswerModes
<1>1. AllAnswered /\ ValuesFresh /\ s \in Sym
  BY DEF AnswerInv, Named
<1>2. /\ visible[s] = Visibility(s, curr) /\ revDep[s] = RevDep(s, curr)
      /\ implied[s] = Implied(s, curr) /\ curr[s] = TriValue(s, curr)
      /\ s \in user /\ def[s] = Answer(s)
  BY <1>1 DEF ValuesFresh, AllAnswered, Value
<1>3. CASE IsChoiceValue(s) /\ visible[s] = yes
  <2> SUFFICES ASSUME s = PickOf(given)[ChoiceOf(s)], curr[ChoiceOf(s)] = yes PROVE curr[s] = yes
    BY <1>3
  <2>1. ChoiceOf(s) \in Choice /\ s \in Values(ChoiceOf(s)) /\ ChoiceOf(s) \in valid
    BY <1>1, <1>3, OperandsOf, SortAssumption
  <2>2. userPick[ChoiceOf(s)] = s
    BY <1>1 DEF AllAnswered
  <2>3. pick[ChoiceOf(s)] = s
    BY <1>1, <1>2, <2>1, <2>2, Zenon DEF ValuesFresh
  <2> QED BY <1>2, <1>3, <2>3, Zenon DEF TriValue, ChosenValue
<1>4. CASE ~ (IsChoiceValue(s) /\ visible[s] = yes)
  <2>1. OwnValue(s, curr) = And3(Answer(s), visible[s])
    BY <1>2, Zenon DEF OwnValue
  <2> QED BY <1>2, <1>4, <2>1, Zenon DEF TriValue
<1> QED BY <1>3, <1>4

\* Whatever the menus and the file are: allnoconfig, allmodconfig and
\* allyesconfig write every option that can be seen as they answer it, and let
\* stand what the file says.
THEOREM AnswersAreGiven == ASSUME Modules \notin Tristate PROVE ConfSpec => []Answered
<1>1. ConfInit => AnswerInv
  BY DEF ConfInit, AnswerInv, AnswerModes
<1>2. ConfTypeOK /\ AnswerInv /\ [ConfNext]_allVars => AnswerInv'
  BY AnswerStep
<1>3. ConfTypeOK /\ AnswerInv => Answered
  BY AnswersHold
<1>4. ConfSpec => []ConfTypeOK
  BY ConfTypeCorrect
<1> QED BY <1>1, <1>2, <1>3, <1>4, PTL DEF ConfSpec
-----------------------------------------------------------------------------
(* savedefconfig and defconfig.  What the minimal file leaves out is what a  *)
(* symbol would be without a request of its own, so its requests have the    *)
(* same solution as those it was made from.                                  *)

\* What a visible bool is without a request is what sym_get_string_default says.
LEMMA DefaultIs ==
    ASSUME BoolMenu, NEW s \in Sym, s \notin Ints \cup Choice, ~ IsChoiceValue(s),
           NEW v \in Valuation, NEW d, NEW k
    PROVE  Tri0(s, v, d, FALSE, k) =
             LET val == Or3(Attr(s, v).dflt, RevDep(s, v))
             IN Or3(Promote(val, TRUE), Implied(s, v))
<1> DEFINE x == Attr(s, v).dflt
           r == RevDep(s, v)
           i == Implied(s, v)
<1>1. x \in Tri /\ r \in {no, yes} /\ i \in {no, yes}
  <2>1. x \in Tri /\ Attr(s, v).rev \in Tri /\ Attr(s, v).imp \in Tri
    BY AttrTypes
  <2>2. \A y \in Tri : Promote(y, TRUE) \in {no, yes}
    BY DEF Promote, Tri, no, mod, yes
  <2> QED BY <2>1, <2>2, TwoValued
<1>2. Tri0(s, v, d, FALSE, k) = Promote(Or3(Or3(x, i), r), TRUE)
  BY TriTwo, Zenon
<1>3. \A a \in Tri, b, c \in {no, yes} :
        Promote(Or3(Or3(a, c), b), TRUE) = Or3(Promote(Or3(a, b), TRUE), c)
  BY DEF Promote, Or3, Tri, no, mod, yes
<1> HIDE DEF x, r, i
<1>4. Tri0(s, v, d, FALSE, k) = Or3(Promote(Or3(x, r), TRUE), i)
  BY <1>1, <1>2, <1>3
<1> QED BY <1>4 DEF x, r, i

\* The same for what the engine holds.
LEMMA StringDefaultIs ==
    ASSUME BoolMenu, NEW s \in Sym, s \notin Ints, revDep[s] = RevDep(s, curr),
           implied[s] = Implied(s, curr)
    PROVE  StringDefault(s) =
             LET val == Or3(Attr(s, curr).dflt, RevDep(s, curr))
             IN Or3(Promote(val, TRUE), Implied(s, curr))
<1>1. s \notin Tristate
  BY DEF BoolMenu
<1>2. \A a : Promote(Promote(a, TRUE), TRUE) = Promote(a, TRUE)
  BY DEF Promote, no, mod, yes
<1> QED BY <1>1, <1>2 DEF StringDefault

\* The values of a visible choice: what the default of sym_get_string_default
\* says of them is `n'.
LEMMA ValueDefaultIs ==
    ASSUME BoolMenu, NEW s \in Sym, IsChoiceValue(s), curr \in Valuation,
           revDep[s] = RevDep(s, curr), implied[s] = Implied(s, curr)
    PROVE  StringDefault(s) = no
<1>1. s \notin Ints /\ ChoiceOf(s) \in Choice /\ s \in Values(ChoiceOf(s))
  BY OperandsOf
<1>2. Attr(s, curr).dflt = no
  BY <1>1 DEF BoolMenu
<1>3. RevDep(s, curr) = no /\ Implied(s, curr) = no
  BY DEF RevDep, Implied
<1>4. Or3(Promote(Or3(no, no), TRUE), no) = no
  BY DEF Or3, Promote, no, mod, yes
<1> QED BY <1>1, <1>2, <1>3, <1>4, StringDefaultIs

\* Reading the minimal file asks for the values it was made from.
LEMMA ReadMinimal ==
    ASSUME BoolMenu, IntsUnselected, CacheInv, LinesWritten, IntsWithin, valid = Sym,
           NEW f, \A s \in Named : f[s] = IF Redundant(s) THEN Unset ELSE curr[s]
    PROVE  Solves(curr, Sym, DefOf(f), UserOf(f), PickOf(f))
<1> SUFFICES ASSUME NEW s \in Sym
             PROVE  curr[s] = ValueIn(s, curr, DefOf(f)[s], s \in UserOf(f), PickOf(f)[ChoiceOf(s)])
  BY DEF Solves
<1> DEFINE a == s \in user
           b == s \in UserOf(f)
<1>1. /\ curr \in Valuation /\ def \in Valuation /\ PickType(userPick) /\ ClosedSet(Sym)
      /\ Solves(curr, Sym, def, user, userPick)
  BY CacheSolves DEF CurrSolved, CacheInv, TypeOK
<1>2. curr[s] = ValueIn(s, curr, def[s], a, userPick[ChoiceOf(s)])
  BY <1>1 DEF Solves
<1>3. \A x \in Sym : /\ visible[x] = Visibility(x, curr) /\ revDep[x] = RevDep(x, curr)
                     /\ implied[x] = Implied(x, curr)
  BY FreshNow DEF CacheInv, AllFresh
<1>4. ASSUME NEW x \in Named
      PROVE  /\ Redundant(x) => f[x] = Unset /\ x \notin UserOf(f)
             /\ ~ Redundant(x) => f[x] = curr[x] /\ x \in UserOf(f) /\ DefOf(f)[x] = curr[x]
  <2>1. x \in Sym /\ x \notin Choice /\ curr[x] # Unset
    BY <1>1, TriIsVal DEF Named, Valuation
  <2> QED BY <1>4, <2>1 DEF UserOf, DefOf
<1>5. \A x \in Named : Visibility(x, curr) # no => x \in write
  BY DEF LinesWritten, Written, Named
<1> HIDE DEF a, b
<1>6. CASE s \in Choice \/ (~ IsChoiceValue(s) /\ Visibility(s, curr) = no)
  <2>1. ~ IsChoiceValue(s)
    BY <1>6, OperandsOf
  <2>2. ValueIn(s, curr, def[s], a, userPick[ChoiceOf(s)])
          = ValueIn(s, curr, DefOf(f)[s], b, PickOf(f)[ChoiceOf(s)])
    BY <1>1, <1>6, <2>1, ValueAny
  <2> QED BY <1>2, <2>2 DEF b
<1>7. CASE s \in Ints /\ Visibility(s, curr) # no
  <2> DEFINE r == Attr(s, curr)
  <2>1. s \notin Choice /\ s \in Named /\ ~ IsChoiceValue(s)
    BY <1>7, SortAssumption, OperandsOf DEF Named
  <2>2. /\ r.lo \in Int /\ r.hi \in Int /\ r.lo <= r.hi /\ curr[s] \in Int
        /\ r.lo <= curr[s] /\ curr[s] <= r.hi
    BY <1>1, <1>7, AttrTypes, AttrAssumption, ValIsInt DEF Valuation, IntsWithin, Within
  <2>3. RevDep(s, curr) = no
    <3>1. Promote(no, TRUE) = no
      BY DEF Promote, no, mod
    <3> QED BY <1>1, <1>7, <2>1, <3>1, TwoValued DEF IntsUnselected
  <2>4. Changable(s)
    <3>1. visible[s] = yes /\ revDep[s] = no
      BY <1>1, <1>3, <1>7, <2>3, TwoValued
    <3> QED BY <3>1 DEF Changable, yes, no
  <2>5. Redundant(s) <=> curr[s] = r.dflt
    BY <1>5, <1>7, <2>1, <2>4 DEF Redundant, StringDefault
  <2>6. \A d, u : Int0(s, curr, d, u) = LET n == IF u THEN d ELSE r.dflt
                                        IN IF n < r.lo THEN r.lo ELSE IF n > r.hi THEN r.hi ELSE n
    BY <1>7, Zenon DEF Int0
  <2>7. (IF curr[s] < r.lo THEN r.lo ELSE IF curr[s] > r.hi THEN r.hi ELSE curr[s]) = curr[s]
    BY <2>2
  <2>8. ValueIn(s, curr, DefOf(f)[s], b, PickOf(f)[ChoiceOf(s)]) = Int0(s, curr, DefOf(f)[s], b)
    BY <1>7 DEF ValueIn
  <2> HIDE DEF r
  <2>9. CASE Redundant(s)
    <3>1. b = FALSE
      BY <1>4, <2>1, <2>9 DEF b
    <3>2. \A d : Int0(s, curr, d, FALSE)
            = IF r.dflt < r.lo THEN r.lo ELSE IF r.dflt > r.hi THEN r.hi ELSE r.dflt
      BY <1>7, Zenon DEF Int0, r
    <3>3. Int0(s, curr, DefOf(f)[s], b) = curr[s]
      BY <2>5, <2>7, <2>9, <3>1, <3>2
    <3> QED BY <2>8, <3>3 DEF b
  <2>10. CASE ~ Redundant(s)
    <3>1. b /\ DefOf(f)[s] = curr[s]
      BY <1>4, <2>1, <2>10 DEF b
    <3> QED BY <2>6, <2>7, <2>8, <3>1, Zenon DEF b
  <2> QED BY <2>9, <2>10
<1>8. CASE s \notin Ints /\ s \notin Choice /\ ~ IsChoiceValue(s) /\ Visibility(s, curr) # no
  <2> DEFINE k == PickOfChoice(ChoiceOf(s), curr, userPick[ChoiceOf(s)]) = s
             l == PickOfChoice(ChoiceOf(s), curr, PickOf(f)[ChoiceOf(s)]) = s
  <2>1. def[s] \in Tri /\ curr[s] \in Tri /\ s \in Named
    BY <1>1, <1>8 DEF Valuation, Named
  <2>2. Tri0(s, curr, def[s], a, k) = curr[s]
    BY <1>2, <1>8, Zenon DEF ValueIn
  <2>3. \A d, u, x, y : Tri0(s, curr, d, u, x) = Tri0(s, curr, d, u, y)
    BY <1>8, Zenon DEF Tri0
  <2>4. ValueIn(s, curr, DefOf(f)[s], b, PickOf(f)[ChoiceOf(s)]) = Tri0(s, curr, DefOf(f)[s], b, l)
    BY <1>8, Zenon DEF ValueIn
  <2> HIDE DEF k, l
  <2>5. CASE ~ Redundant(s)
    <3>1. b /\ DefOf(f)[s] = curr[s]
      BY <1>4, <2>1, <2>5 DEF b
    <3>2. \A A, x : x \in A => Tri0(s, curr, curr[s], x \in A, k) = curr[s]
      BY <1>1, <1>8, <2>1, <2>2, SameRequest
    <3>3. Tri0(s, curr, curr[s], b, k) = curr[s]
      BY <3>1, <3>2 DEF b
    <3>4. Tri0(s, curr, DefOf(f)[s], b, k) = curr[s]
      BY <3>1, <3>3
    <3>5. Tri0(s, curr, DefOf(f)[s], b, l) = curr[s]
      BY <2>3, <3>4, Zenon
    <3> QED BY <2>4, <3>5 DEF b
  <2>6. CASE Redundant(s)
    <3>1. ~ b
      BY <1>4, <2>1, <2>6 DEF b
    <3>2. \A d : Tri0(s, curr, d, FALSE, k) = curr[s]
      <4>1. CASE curr[s] = StringDefault(s)
        BY <1>1, <1>3, <1>8, <4>1, StringDefaultIs, DefaultIs
      <4>2. CASE curr[s] # StringDefault(s)
        <5>1. ~ Changable(s)
          BY <1>5, <1>8, <2>1, <2>6, <4>2 DEF Redundant
        <5>2. RevDep(s, curr) = yes
          <6>1. visible[s] = yes /\ RevDep(s, curr) \in Tri
            BY <1>1, <1>3, <1>8, TwoValued, VisibilityTypes
          <6>2. ~ (visible[s] > RevDep(s, curr))
            BY <1>3, <5>1 DEF Changable
          <6> QED BY <6>1, <6>2 DEF Tri, no, mod, yes
        <5>3. \A x \in Tri : Promote(Or3(x, yes), TRUE) = yes
          BY DEF Promote, Or3, Tri, no, mod, yes
        <5>4. \A d \in Tri : And3(d, Visibility(s, curr)) \in Tri
          BY <1>1, VisibilityTypes, TriClosed
        <5>5. Or3(Attr(s, curr).dflt, Implied(s, curr)) \in Tri
          BY <1>1, <1>8, AttrTypes, VisibilityTypes, TriClosed
        <5>6. \A d \in Tri : \A u : Tri0(s, curr, d, u, k) = yes
          <6> TAKE d \in Tri
          <6> TAKE u
          <6> DEFINE own == IF Visibility(s, curr) # no /\ u THEN And3(d, Visibility(s, curr))
                            ELSE IF s \in Choice THEN no
                            ELSE Or3(Attr(s, curr).dflt, Implied(s, curr))
          <6>1. own \in Tri
            <7>1. own = And3(d, Visibility(s, curr)) \/ own = Or3(Attr(s, curr).dflt, Implied(s, curr))
              BY <1>8, Zenon
            <7> HIDE DEF own
            <7> QED BY <5>4, <5>5, <7>1
          <6>2. Tri0(s, curr, d, u, k) = Promote(Or3(own, RevDep(s, curr)), TRUE)
            BY <1>1, <1>8, TriTwo, Zenon
          <6> HIDE DEF own
          <6> QED BY <5>2, <5>3, <6>1, <6>2
        <5>7. \A d, e : Tri0(s, curr, d, FALSE, k) = Tri0(s, curr, e, FALSE, k)
          BY Zenon DEF Tri0
        <5>8. curr[s] = yes
          BY <2>1, <2>2, <5>6, Zenon
        <5> QED BY <5>6, <5>7, <5>8, TriIsVal, Zenon
      <4> QED BY <4>1, <4>2
    <3>3. b = FALSE
      BY <3>1 DEF b
    <3>4. Tri0(s, curr, DefOf(f)[s], b, k) = curr[s]
      BY <3>2, <3>3
    <3>5. Tri0(s, curr, DefOf(f)[s], b, l) = curr[s]
      BY <2>3, <3>4, Zenon
    <3> QED BY <2>4, <3>5 DEF b
  <2> QED BY <2>5, <2>6
<1>9. CASE IsChoiceValue(s) /\ Visibility(s, curr) = no
  <2>1. \A d, u, e : ValueIn(s, curr, d, u, e) = no
    <3>1. s \notin Ints /\ s \notin Choice
      BY <1>9, OperandsOf
    <3>2. Visibility(s, curr) # yes
      BY <1>9 DEF no, yes
    <3>3. \A d, u, k : Tri0(s, curr, d, u, k) = no
      BY <1>1, <1>9, <3>2, HiddenValueIsNo
    <3> QED BY <3>1, <3>3 DEF ValueIn
  <2> QED BY <1>2, <2>1
<1>10. CASE IsChoiceValue(s) /\ Visibility(s, curr) # no
  <2>1. Visibility(s, curr) = yes /\ s \notin Ints /\ s \notin Choice
    BY <1>1, <1>10, TwoValued, OperandsOf
  <2>2. PICK c \in Choice : c = ChoiceOf(s) /\ s \in Values(c)
    BY <1>10, OperandsOf
  <2>3. Named \subseteq Sym
    BY DEF Named
  <2>4. PICK p \in Values(c) : p = PickIn(c, curr, userPick[c])
    BY <1>1, <2>1, <2>2, <2>3, SolvedChoice
  <2>5. /\ ChoiceTri(c, curr) = yes /\ AsChosen(c, curr) = curr /\ Visibility(p, curr) = yes
        /\ \A x \in Values(c) : curr[x] = yes <=> x = p
    BY <1>1, <2>1, <2>2, <2>3, <2>4, SolvedChoice
  <2>6. /\ Values(c) \subseteq Named /\ p \in Sym /\ p # NoSym /\ no # yes /\ c \in Sym
        /\ \A x \in Values(c) : IsChoiceValue(x) /\ x \in Sym
    BY ChoiceAssumption, SortAssumption DEF Named, no, yes, IsChoiceValue
  <2>7. \A x \in Values(c) : ChoiceOf(x) = c
    BY <2>6, OperandsOf, ChoiceAssumption
  <2>8. \A x \in Values(c) : f[x] = yes => x = p
    BY <1>4, <2>5, <2>6 DEF yes, Unset
  <2>9. PickIn(c, curr, PickOf(f)[c]) = p
    <3> DEFINE vis == [x \in Sym |-> Visibility(x, AsChosen(c, curr))]
    <3>1. \A e : PickIn(c, curr, e) = Pick0(c, vis, AsChosen(c, curr), e)
      BY DEF PickIn
    <3>2. vis = visible
      BY <1>3, <2>5 DEF CacheInv, TypeOK
    <3>3. vis[p] # no
      BY <2>5, <2>6
    <3> HIDE DEF vis
    <3>4. CASE ~ Redundant(p)
      <4>1. f[p] = yes
        BY <1>4, <2>5, <2>6, <3>4
      <4>2. Lines(c, f, yes) # {}
        <5>1. PICK i \in DOMAIN Members(c) : Members(c)[i] = p
          BY DEF Values
        <5> QED BY <4>1, <5>1 DEF Lines
      <4>3. PickOf(f)[c] = p
        BY <2>8, <4>2, PickOfType
      <4> QED BY <2>6, <3>1, <3>3, <4>3, Zenon DEF Pick0
    <3>5. CASE Redundant(p)
      <4>1. p = ChoiceDefault(c)
        <5>1. StringDefault(p) = no
          BY <1>1, <1>3, <2>6, ValueDefaultIs
        <5>2. p \in write
          BY <1>5, <2>5, <2>6
        <5>3. Changable(p)
          <6>1. visible[p] = yes /\ revDep[p] = no
            BY <1>3, <2>5, <2>6 DEF RevDep
          <6> QED BY <6>1 DEF Changable, no, yes
        <5> QED BY <2>5, <2>6, <2>7, <3>5, <5>1, <5>2, <5>3 DEF Redundant
      <4>2. PickOf(f)[c] = NoSym
        <5>1. f[p] = Unset
          BY <1>4, <2>6, <3>5
        <5>2. Lines(c, f, yes) = {}
          <6>1. \A i \in DOMAIN Members(c) : f[Members(c)[i]] # yes
            BY <2>8, <5>1 DEF Values, yes, Unset
          <6> QED BY <6>1 DEF Lines
        <5> QED BY <5>2, Zenon DEF PickOf
      <4>3. PickIn(c, curr, NoSym) = FirstVisible(Attr(c, curr).order \o Members(c), vis)
        BY <2>5, <3>1, Zenon DEF Pick0
      <4> QED BY <3>2, <4>1, <4>2, <4>3 DEF ChoiceDefault
    <3> QED BY <3>4, <3>5
  <2> DEFINE k == p = s
  <2>10. \A d, u : /\ ValueIn(s, curr, d, u, userPick[ChoiceOf(s)]) = Tri0(s, curr, d, u, k)
                   /\ ValueIn(s, curr, d, u, PickOf(f)[ChoiceOf(s)]) = Tri0(s, curr, d, u, k)
    BY <2>1, <2>2, <2>4, <2>5, <2>9, Zenon DEF ValueIn, PickOfChoice
  <2> HIDE DEF k
  <2>11. Tri0(s, curr, def[s], a, k) = Tri0(s, curr, DefOf(f)[s], b, k)
    BY <1>1, <1>10, ChoiceValueAnyUser
  <2> QED BY <1>2, <2>10, <2>11 DEF b
<1> QED BY <1>6, <1>7, <1>8, <1>9, <1>10

\* No minimal file is written by the calls of q.
Plain(q) == \A i \in DOMAIN q : q[i].op # "minimal"

\* What calls are left: what was, less the call that is made, with those it
\* makes before them, and none of those writes a minimal file.
LEMMA CallsOn ==
    ASSUME ConfTypeOK, Step \/ Ask
    PROVE  \/ todo' = todo \/ todo' = <<>>
           \/ todo # <<>> /\ todo' = Rest
           \/ todo # <<>> /\ \E q \in Seq(CallType) : Plain(q) /\ todo' = q \o Rest
<1> DEFINE More == todo # <<>> /\ \E q \in Seq(CallType) : Plain(q) /\ todo' = q \o Rest
<1>1. ASSUME NEW q \in Seq(CallType), Plain(q), todo # <<>>, todo' = q \o Rest PROVE More
  BY <1>1
<1>2. /\ \A op \in Ops, m \in Entries : Call(op, m) \in CallType /\ Call(op, m).op = op
      /\ Root \in Entries
  BY CallIs, TreeAssumption DEF Call
<1>3. \A op \in Ops, m \in Entries : op # "minimal" =>
         Below(op, m) \in Seq(CallType) /\ Plain(Below(op, m))
  BY BelowIs DEF Plain
<1>4. \A x \in CallType : x.op # "minimal" => <<x>> \in Seq(CallType) /\ Plain(<<x>>)
  <2> TAKE x \in CallType
  <2> HAVE x.op # "minimal"
  <2> HIDE DEF CallType
  <2>1. <<x>> \in Seq(CallType) /\ \A i \in DOMAIN <<x>> : <<x>>[i] = x
    OBVIOUS
  <2> QED BY <2>1 DEF Plain
<1>5. \A p, q \in Seq(CallType) : Plain(p) /\ Plain(q) => p \o q \in Seq(CallType) /\ Plain(p \o q)
  <2> TAKE p, q \in Seq(CallType)
  <2> HAVE Plain(p) /\ Plain(q)
  <2> HIDE DEF CallType
  <2>1. PICK m, n \in Nat : DOMAIN p = 1 .. m /\ DOMAIN q = 1 .. n /\ Len(p) = m /\ Len(q) = n
    OBVIOUS
  <2>2. /\ p \o q \in Seq(CallType) /\ DOMAIN (p \o q) = 1 .. m + n
        /\ \A i \in 1 .. m + n : (p \o q)[i] = IF i <= m THEN p[i] ELSE q[i - m]
    BY <2>1
  <2>3. ASSUME NEW i \in 1 .. m + n PROVE (p \o q)[i].op # "minimal"
    <3>1. CASE i <= m
      <4>1. i \in DOMAIN p /\ (p \o q)[i] = p[i]
        BY <2>1, <2>2, <3>1
      <4> QED BY <4>1 DEF Plain
    <3>2. CASE ~ (i <= m)
      <4>1. i - m \in DOMAIN q /\ (p \o q)[i] = q[i - m]
        BY <2>1, <2>2, <3>2
      <4> QED BY <4>1 DEF Plain
    <3> QED BY <3>1, <3>2
  <2> QED BY <2>2, <2>3 DEF Plain
<1>6. ASSUME NEW m \in Entries, todo # <<>>, todo' = After(m) PROVE More
  <2>1. CASE SymOf(m) \in Choice
    <3> DEFINE x == [Call("pick", m) EXCEPT !.new = SymOf(m) \notin user]
    <3>1. x \in CallType /\ x.op = "pick"
      BY <2>1 DEF Call, CallType, ChoiceEntries
    <3>2. todo' = <<x>> \o Rest
      BY <1>6, <2>1 DEF After
    <3> HIDE DEF x
    <3>3. <<x>> \in Seq(CallType) /\ Plain(<<x>>)
      BY <1>4, <3>1
    <3> QED BY <1>1, <1>6, <3>2, <3>3
  <2>2. CASE SymOf(m) \notin Choice
    <3>1. Below("conf", m) \in Seq(CallType) /\ Plain(Below("conf", m))
      BY <1>3 DEF Ops
    <3> QED BY <1>1, <1>6, <2>2, <3>1 DEF After
  <2> QED BY <2>1, <2>2
<1>7. CASE Calculate \/ EndRead \/ \E c \in Unsettled : SetAllChoiceValues(c)
  BY <1>7 DEF Calculate, EndRead, SetAllChoiceValues, confVars
<1>8. CASE Explicit \/ SetChoice \/ Clear \/ WriteDefconfig
  BY <1>8 DEF Explicit, SetChoice, Clear, WriteDefconfig, Ready, Doing
<1>9. CASE BeginWrite
  BY <1>9 DEF BeginWrite, Ready, Doing
<1>10. CASE EndWrite
  <2>1. CASE todo = <<>>
    <3>1. Tail(<<>>) = <<>>
      OBVIOUS
    <3> QED BY <1>10, <2>1, <3>1, Zenon DEF EndWrite, Rest
  <2> QED BY <1>10, <2>1, Zenon DEF EndWrite
<1> HIDE DEF More
<1>11. CASE Loop
  <2> DEFINE x == Call("check", Root)
             y == Call("while", Root)
  <2>1. x \in CallType /\ x.op = "check" /\ y \in CallType /\ y.op = "while"
    BY <1>2 DEF Ops
  <2>2. todo # <<>> /\ todo' = <<x, y>> \o Rest
    BY <1>11 DEF Loop, Ready, Doing
  <2> HIDE DEF x, y
  <2>3. \A i \in DOMAIN <<x, y>> : <<x, y>>[i] = x \/ <<x, y>>[i] = y
    OBVIOUS
  <2>4. <<x, y>> \in Seq(CallType)
    <3> HIDE DEF CallType
    <3> QED BY <2>1
  <2>5. Plain(<<x, y>>)
    BY <2>1, <2>3 DEF Plain
  <2> QED BY <1>1, <2>2, <2>4, <2>5 DEF More
<1>12. CASE While
  <2>1. <<Call("loop", Root)>> \in Seq(CallType) /\ Plain(<<Call("loop", Root)>>)
    BY <1>2, <1>4 DEF Ops
  <2> QED BY <1>1, <1>12, <2>1 DEF While, Ready, Doing, More
<1>13. CASE Again
  <2>1. <<Call("new", Root)>> \in Seq(CallType) /\ Plain(<<Call("new", Root)>>)
    BY <1>2, <1>4 DEF Ops
  <2> QED BY <1>1, <1>13, <2>1 DEF Again, Ready, Doing, More
<1>14. CASE CheckConf
  <2>1. todo # <<>> /\ todo[1].m \in Entries
    BY <1>14, DoingAt DEF CheckConf, Ready, Ops
  <2>2. PICK m \in Entries : m = todo[1].m
    BY <2>1
  <2>3. \/ todo' = Rest \/ todo' = Below("check", m) \o Rest
        \/ todo' = <<Call("conf", ParentMenu[m])>> \o Below("check", m) \o Rest
    BY <1>14, <2>2, Zenon DEF CheckConf
  <2>4. Below("check", m) \in Seq(CallType) /\ Plain(Below("check", m))
    BY <1>3 DEF Ops
  <2>5. <<Call("conf", ParentMenu[m])>> \in Seq(CallType) /\ Plain(<<Call("conf", ParentMenu[m])>>)
    BY <1>2, <1>4, ParentMenuType DEF Ops
  <2>6. /\ <<Call("conf", ParentMenu[m])>> \o Below("check", m) \in Seq(CallType)
        /\ Plain(<<Call("conf", ParentMenu[m])>> \o Below("check", m))
    BY <1>5, <2>4, <2>5
  <2> QED BY <1>1, <2>1, <2>3, <2>4, <2>6 DEF More
<1>15. CASE Descend
  <2>1. todo # <<>> /\ todo[1].m \in Entries
    BY <1>15, DoingAt DEF Descend, Ready, Ops
  <2>2. PICK m \in Entries : m = todo[1].m
    BY <2>1
  <2>3. \/ todo' = Rest \/ todo' = <<Call("check", m)>> \o Rest \/ todo' = After(m)
    BY <1>15, <2>2, Zenon DEF Descend
  <2>4. <<Call("check", m)>> \in Seq(CallType) /\ Plain(<<Call("check", m)>>)
    BY <1>2, <1>4 DEF Ops
  <2> QED BY <1>1, <1>6, <2>1, <2>3, <2>4 DEF More
<1>16. CASE AskSymbol
  <2>1. todo # <<>> /\ todo[1].m \in Entries
    BY <1>16, DoingAt DEF AskSymbol, Ready, Ops
  <2>2. todo' = After(todo[1].m)
    BY <1>16 DEF AskSymbol
  <2> QED BY <1>6, <2>1, <2>2 DEF More
<1>17. CASE Pick
  <2>1. todo # <<>> /\ todo[1].m \in Entries
    BY <1>17, DoingAt DEF Pick, Ready, ChoiceEntries
  <2>2. todo' = Rest \/ \E k \in Entries : todo' = Below("conf", k) \o Rest
    <3>1. \A i \in DOMAIN Kids(todo[1].m) : Kids(todo[1].m)[i] \in Entries
      BY <2>1, TreeAssumption
    <3> QED BY <1>17, <2>1, <3>1, Zenon DEF Pick
  <2>3. \A k \in Entries : Below("conf", k) \in Seq(CallType) /\ Plain(Below("conf", k))
    BY <1>3 DEF Ops
  <2> QED BY <1>1, <2>1, <2>2, <2>3 DEF More
<1>18. CASE SetNew
  <2> DEFINE f == [i \in DOMAIN HashOrder |-> Call("choice", HashOrder[i])]
             a == <<Call("again", Root)>>
  <2>1. todo # <<>> /\ todo' = f \o a \o Rest
    BY <1>18 DEF SetNew, Ready, Doing
  <2>2. a \in Seq(CallType) /\ Plain(a)
    BY <1>2, <1>4 DEF Ops
  <2>3. f \in Seq(CallType) /\ Plain(f)
    <3>1. \A c \in Choice : Call("choice", c) \in CallType /\ Call("choice", c).op = "choice"
      BY DEF Call, CallType
    <3>2. HashOrder \in Seq(Choice)
      BY TreeAssumption
    <3> HIDE DEF CallType, Call
    <3>3. f \in Seq(CallType)
      BY <3>1, <3>2
    <3>4. \A i \in DOMAIN f : f[i].op = "choice"
      BY <3>1, <3>2
    <3> HIDE DEF f
    <3> QED BY <3>3, <3>4 DEF Plain
  <2> HIDE DEF f, a
  <2>4. f \o a \in Seq(CallType) /\ Plain(f \o a)
    BY <1>5, <2>2, <2>3
  <2> QED BY <1>1, <2>1, <2>4 DEF More
<1> QED
  BY <1>7, <1>8, <1>9, <1>10, <1>11, <1>12, <1>13, <1>14, <1>15, <1>16, <1>17, <1>18
     DEF Step, Ask, More

\* Only savedefconfig writes a minimal file.
PlainInv == mode # "savedefconfig" => Plain(todo)

\* No step adds the call that writes one.
LEMMA PlainStep ==
    ASSUME ConfTypeOK, PlainInv, [ConfNext]_allVars
    PROVE  PlainInv'
<1>1. ASSUME NEW m \in Modes, Start(m) PROVE PlainInv'
  <2> SUFFICES ASSUME m # "savedefconfig" PROVE Plain(Calls(m))
    BY <1>1 DEF Start, PlainInv, Plain
  <2>1. \A op, k : Call(op, k).op = op
    BY DEF Call
  <2>2. \A x, y, z :
          /\ DOMAIN <<x>> = {1} /\ <<x>>[1] = x
          /\ DOMAIN <<x, y>> = {1, 2} /\ <<x, y>>[1] = x /\ <<x, y>>[2] = y
          /\ DOMAIN <<x, y, z>> = {1, 2, 3} /\ <<x, y, z>>[1] = x /\ <<x, y, z>>[2] = y
          /\ <<x, y, z>>[3] = z
    OBVIOUS
  <2>3. \E a, b, c \in {"conf", "loop", "write", "explicit", "new"} :
           \/ Calls(m) = <<Call(a, Root)>> \/ Calls(m) = <<Call(a, Root), Call(b, Root)>>
           \/ Calls(m) = <<Call(a, Root), Call(b, Root), Call(c, Root)>>
    BY DEF Calls
  <2> HIDE DEF Call, Calls
  <2> QED BY <2>1, <2>2, <2>3 DEF Plain
<1>2. CASE Step \/ Ask
  <2> SUFFICES ASSUME mode' # "savedefconfig" PROVE Plain(todo')
    BY DEF PlainInv, Plain
  <2>1. mode # "savedefconfig"
    BY <1>2, OtherMode DEF LoopModes
  <2>2. Plain(todo)
    BY <2>1 DEF PlainInv
  <2>3. todo # <<>> => Rest \in Seq(CallType) /\ Plain(Rest)
    <3> SUFFICES ASSUME todo # <<>> PROVE Rest \in Seq(CallType) /\ Plain(Rest)
      OBVIOUS
    <3>1. todo \in Seq(CallType) /\ Rest \in Seq(CallType)
      BY RestType DEF ConfTypeOK
    <3> HIDE DEF CallType
    <3>2. \A i \in DOMAIN Rest : i + 1 \in DOMAIN todo /\ Rest[i] = todo[i + 1]
      BY <3>1 DEF Rest
    <3> QED BY <2>2, <3>1, <3>2 DEF Plain
  <2>4. ASSUME NEW q \in Seq(CallType), NEW r \in Seq(CallType), Plain(q), Plain(r)
        PROVE  Plain(q \o r)
    <3> HIDE DEF CallType
    <3>1. \A i \in DOMAIN (q \o r) :
             \/ i \in DOMAIN q /\ (q \o r)[i] = q[i]
             \/ i - Len(q) \in DOMAIN r /\ (q \o r)[i] = r[i - Len(q)]
      BY <2>4
    <3> QED BY <2>4, <3>1 DEF Plain
  <2>5. Plain(<<>>)
    BY DEF Plain
  <2> QED BY <1>2, <2>2, <2>3, <2>4, <2>5, CallsOn
<1>3. CASE UNCHANGED allVars
  BY <1>3 DEF allVars, confVars, PlainInv, Plain
<1> QED BY <1>1, <1>2, <1>3 DEF ConfNext

\* The modes between which a minimal file passes.
MinModes == {"savedefconfig", "defconfig"}

\* Where a process is that makes a minimal file or reads one.
SavePlace ==
    mode = "savedefconfig" =>
        /\ need = {}
        /\ \/ todo = Calls("savedefconfig") /\ pc \in {"read", "edit"}
           \/ todo = <<Call("minimal", Root)>> /\ pc = "edit"
           \/ todo = <<>> /\ pc = "edit"

DefPlace ==
    mode = "defconfig" =>
        \/ todo = Calls("defconfig") /\ need = {} /\ (pc = "edit" => valid = Sym) /\ pc \in {"read", "edit"}
        \/ Answering(todo) /\ pc \in {"edit", "write"} /\ (pc = "write" => Doing("write"))
        \/ todo = <<>> /\ pc = "edit"

\* No calculated symbol depends on a choice whose values are still to be set.
NeedOpen == \A x \in valid : Operands(x) \cap need = {}

\* What has been calculated is right as long as there is something to do.
MinCache == mode \in MinModes /\ todo # <<>> => CacheInv /\ LinesWritten /\ NeedOpen

\* What is done at each of these places.
LEMMA SaveSteps ==
    ASSUME ConfTypeOK, SavePlace, mode = "savedefconfig", Step \/ Ask
    PROVE  /\ mode' = mode
           /\ Calculate \/ EndRead \/ Clear \/ WriteDefconfig
           /\ Clear => todo = Calls("savedefconfig") /\ Rest = <<Call("minimal", Root)>>
           /\ WriteDefconfig => todo = <<Call("minimal", Root)>> /\ Rest = <<>>
           /\ Calculate \/ EndRead => todo' = todo /\ need' = need
<1>1. Calls("savedefconfig") = <<Call("clear", Root), Call("minimal", Root)>>
  BY DEF Calls, SyncModes
<1>2. Call("clear", Root).op = "clear" /\ Call("minimal", Root).op = "minimal"
  BY DEF Call
<1>3. \A x, y : /\ <<x>>[1] = x /\ <<x, y>>[1] = x /\ <<x>> # <<>> /\ <<x, y>> # <<>>
                /\ Tail(<<x, y>>) = <<y>> /\ Tail(<<x>>) = <<>>
  OBVIOUS
<1>4. /\ todo = Calls("savedefconfig") => Rest = <<Call("minimal", Root)>> /\ todo[1].op = "clear"
      /\ todo = <<Call("minimal", Root)>> => Rest = <<>> /\ todo[1].op = "minimal"
  <2> DEFINE c == Call("clear", Root)
             m == Call("minimal", Root)
  <2> HIDE DEF c, m
  <2>1. todo = <<c, m>> => Rest = <<m>> /\ todo[1] = c
    BY <1>3, Zenon DEF Rest
  <2>2. todo = <<m>> => Rest = <<>> /\ todo[1] = m
    BY <1>3, Zenon DEF Rest
  <2> QED BY <1>1, <1>2, <2>1, <2>2, Zenon DEF c, m
<1>5. mode' = mode
  BY OtherMode DEF LoopModes
<1>6. need = {} /\ pc # "write" /\ \A op : Doing(op) => op \in {"clear", "minimal"}
  BY <1>4 DEF SavePlace, Doing
<1>7. \A op \in {"explicit", "loop", "while", "write", "check", "conf", "new", "choice", "again", "pick"} :
        ~ Ready(op)
  BY <1>6 DEF Ready
<1>8. Calculate \/ EndRead \/ Clear \/ WriteDefconfig
  <2>1. Unsettled = {}
    BY <1>6 DEF Unsettled
  <2>2. ~ EndWrite
    BY <1>6 DEF EndWrite, FinishWrite
  <2>3. /\ ~ Explicit /\ ~ Loop /\ ~ While /\ ~ BeginWrite /\ ~ CheckConf /\ ~ Descend /\ ~ SetNew
        /\ ~ SetChoice /\ ~ Again /\ ~ AskSymbol /\ ~ Pick
    BY <1>7, Zenon DEF Explicit, Loop, While, BeginWrite, CheckConf, Descend, SetNew, SetChoice,
                       Again, AskSymbol, Pick
  <2> QED BY <2>1, <2>2, <2>3 DEF Step, Ask
<1>9. Clear => todo = Calls("savedefconfig")
  <2>1. Clear => Doing("clear")
    BY DEF Clear, Ready
  <2> QED BY <1>4, <2>1 DEF SavePlace, Doing
<1>10. WriteDefconfig => todo = <<Call("minimal", Root)>>
  <2>1. WriteDefconfig => Doing("minimal")
    BY DEF WriteDefconfig, Ready
  <2> QED BY <1>4, <2>1 DEF SavePlace, Doing
<1>11. Calculate \/ EndRead => todo' = todo /\ need' = need
  BY DEF Calculate, EndRead, confVars
<1> QED BY <1>4, <1>5, <1>8, <1>9, <1>10, <1>11

\* The same for defconfig.
LEMMA DefSteps ==
    ASSUME ConfTypeOK, DefPlace, mode = "defconfig", Step \/ Ask
    PROVE  /\ mode' = mode
           /\ \/ Calculate \/ EndRead \/ SetNew \/ SetChoice \/ Again \/ BeginWrite \/ EndWrite
              \/ \E c \in Unsettled : SetAllChoiceValues(c)
           /\ EndRead => todo = Calls("defconfig") /\ need = {} /\ todo' = todo
           /\ SetNew => todo = Calls("defconfig") /\ need = {} /\ valid = Sym /\ Rest = <<Call("write", Root)>>
           /\ SetChoice \/ Again => Answering(todo) /\ todo' = Rest /\ Answering(Rest)
           /\ BeginWrite => Write /\ todo' = todo /\ Answering(todo)
           /\ EndWrite => todo # <<>> /\ todo' = <<>>
<1>1. Calls("defconfig") = <<Call("new", Root), Call("write", Root)>>
  BY DEF Calls, SyncModes
<1>2. Call("new", Root).op = "new"
  BY DEF Call
<1>3. \A x, y : <<x, y>>[1] = x /\ <<x, y>> # <<>> /\ Tail(<<x, y>>) = <<y>>
  OBVIOUS
<1>4. todo = Calls("defconfig") =>
        Rest = <<Call("write", Root)>> /\ todo[1].op = "new" /\ todo # <<>>
  BY <1>1, <1>2, <1>3 DEF Rest
<1>5. mode' = mode
  BY OtherMode DEF LoopModes
<1>6. Answering(todo) => Doing("write") \/ Doing("choice") \/ Doing("again")
  BY RestOne
<1>7. \A op : Doing(op) => todo # <<>> /\ op = todo[1].op /\ op \in {"new", "write", "choice", "again"}
  BY <1>4, <1>6 DEF DefPlace, Doing
<1>8. /\ \A op \in {"explicit", "loop", "while", "check", "conf", "pick", "clear", "minimal"} : ~ Ready(op)
      /\ \A op : Ready(op) => Doing(op) /\ pc = "edit"
  BY <1>7 DEF Ready
<1>9. /\ Doing("new") => todo = Calls("defconfig")
      /\ Doing("choice") \/ Doing("again") => Answering(todo) /\ ~ Doing("write")
      /\ Doing("write") => Answering(todo)
  BY <1>4, <1>6, <1>7 DEF DefPlace, Doing
<1>10. /\ ~ Explicit /\ ~ Loop /\ ~ While /\ ~ CheckConf /\ ~ Descend /\ ~ Clear
       /\ ~ WriteDefconfig /\ ~ AskSymbol /\ ~ Pick
  BY <1>8, Zenon DEF Explicit, Loop, While, CheckConf, Descend, Clear, WriteDefconfig, AskSymbol, Pick
<1>11. EndRead => todo = Calls("defconfig") /\ need = {} /\ todo' = todo
  <2>1. EndRead => pc = "read" /\ todo' = todo
    BY DEF EndRead, FinishRead, confVars
  <2> QED BY <2>1 DEF DefPlace
<1>12. SetNew => todo = Calls("defconfig") /\ need = {} /\ valid = Sym
  <2>1. SetNew => Doing("new") /\ pc = "edit"
    BY <1>8, Zenon DEF SetNew
  <2>2. todo = Calls("defconfig") => ~ Answering(todo)
    BY <1>4, <1>6 DEF Doing
  <2> QED BY <1>4, <1>9, <2>1, <2>2 DEF DefPlace
<1>13. SetChoice \/ Again => Answering(todo) /\ todo' = Rest /\ Answering(Rest)
  <2>1. SetChoice \/ Again => (Doing("choice") \/ Doing("again")) /\ todo' = Rest
    BY <1>8 DEF SetChoice, Again
  <2> QED BY <1>9, <2>1, RestOne
<1>14. BeginWrite => Write /\ todo' = todo /\ Answering(todo)
  <2>1. BeginWrite => Doing("write") /\ Write /\ todo' = todo
    BY <1>8 DEF BeginWrite, SyncModes
  <2> QED BY <1>9, <2>1
<1>15. EndWrite => todo # <<>> /\ todo' = <<>>
  <2>1. EndWrite => pc = "write" /\ todo' = Rest
    BY DEF EndWrite, FinishWrite
  <2>2. pc = "write" => Answering(todo) /\ Doing("write")
    BY DEF DefPlace
  <2> QED BY <1>7, <2>1, <2>2, RestOne
<1> QED BY <1>4, <1>5, <1>10, <1>11, <1>12, <1>13, <1>14, <1>15 DEF Step, Ask

\* set_all_choice_values takes back nothing but the calculation of its choice,
\* and asks for nothing that a solution of the requests depends on.
LEMMA SettleFresh ==
    ASSUME BoolMenu, ConfTypeOK, TypeOK', CacheInv, LinesWritten, NeedOpen,
           NEW c \in Unsettled, SetAllChoiceValues(c)
    PROVE  CacheInv' /\ LinesWritten' /\ NeedOpen'
<1>1. /\ def' = [s \in Sym |-> IF s \in Values(c) \ user THEN no ELSE def[s]]
      /\ user' = user \cup {c} /\ valid' = valid \ {c} /\ need' = need \ {c}
      /\ userPick' = userPick /\ curr' = curr /\ pick' = pick /\ visible' = visible
      /\ revDep' = revDep /\ implied' = implied /\ disk' = disk /\ write' = write
  BY DEF SetAllChoiceValues, cacheVars, fileVars
<1>2. c \in need /\ c \in Choice /\ c \in Sym /\ TypeOK
  BY SortAssumption DEF Unsettled, ConfTypeOK, CacheInv
<1>3. \A s \in valid : s \in Sym /\ c \notin Operands(s)
  BY <1>2 DEF NeedOpen, TypeOK
<1>4. \A s \in Values(c) : c \in Operands(s) /\ s \notin Ints /\ s \notin Choice
  BY <1>2, ValueOperands, OperandsOf
<1>5. Closed'
  BY <1>1, <1>3 DEF CacheInv, Closed
<1>6. Ranges'
  BY <1>1, <1>2, <1>4, SortAssumption DEF CacheInv, Ranges, Within
<1>7. ASSUME NEW t \in valid, t # c PROVE Fresh(t)'
  <2>1. t \in Sym /\ t \notin Values(c) /\ Fresh(t)
    BY <1>3, <1>4 DEF CacheInv, AllFresh
  <2>2. def'[t] = def[t] /\ (t \in user') = (t \in user)
    BY <1>1, <1>7, <2>1
  <2>3. /\ visible'[t] = visible[t] /\ revDep'[t] = revDep[t] /\ implied'[t] = implied[t]
        /\ curr'[t] = curr[t] /\ \A u \in Operands(t) : curr'[u] = curr[u]
        /\ pick'[ChoiceOf(t)] = pick[ChoiceOf(t)] /\ pick'[t] = pick[t] /\ userPick'[t] = userPick[t]
    BY <1>1
  <2>4. /\ Int0(t, curr, def'[t], t \in user') = Int0(t, curr, def[t], t \in user)
        /\ Tri0(t, curr, def'[t], t \in user', pick'[ChoiceOf(t)] = t)
             = Tri0(t, curr, def[t], t \in user, pick[ChoiceOf(t)] = t)
    BY <2>2, <2>3, Zenon
  <2> QED BY <1>2, <2>1, <2>3, <2>4, Kept
<1>8. AllFresh'
  <2>1. \A t \in valid' : t \in valid /\ t # c
    BY <1>1
  <2> QED BY <1>7, <2>1, Zenon DEF AllFresh
<1>9. LinesWritten'
  BY <1>1 DEF LinesWritten
<1>10. NeedOpen'
  BY <1>1 DEF NeedOpen
<1> QED BY <1>5, <1>6, <1>8, <1>9, <1>10 DEF CacheInv

\* A process that has just read its file has calculated nothing.
LEMMA StartFresh ==
    ASSUME ConfTypeOK, TypeOK', FilesInv, NEW m \in Modes, Start(m), m \in MinModes,
           \A s \in Ints : minimal[s] = Unset \/ Within(s, minimal[s])
    PROVE  CacheInv' /\ LinesWritten' /\ NeedOpen'
<1>1. PICK f : /\ def' = DefOf(f) /\ user' = UserOf(f) /\ valid' = {} /\ disk' = disk
               /\ f = minimal \/ f = disk
  BY DEF Start, MinModes, AllModes, ReadSimple
<1>2. \A s \in Ints : s \in Sym /\ s \in Named /\ s \notin Choice
  BY SortAssumption DEF Named
<1>3. \A s \in Ints : f[s] = Unset \/ Within(s, f[s])
  BY <1>1 DEF FilesInv
<1>4. \A s \in Ints : s \in UserOf(f) => f[s] # Unset /\ DefOf(f)[s] = f[s]
  BY <1>2 DEF UserOf, DefOf
<1>5. \A s \in Ints : (s \in user' => Within(s, def'[s])) /\ (disk'[s] = Unset \/ Within(s, disk'[s]))
  BY <1>1, <1>3, <1>4 DEF FilesInv
<1> QED BY <1>1, <1>5 DEF CacheInv, Closed, AllFresh, Ranges, Within, LinesWritten, NeedOpen

\* Each step keeps what has been calculated right.
LEMMA MinCacheStep ==
    ASSUME BoolMenu, ConfTypeOK, FilesInv, SavePlace, DefPlace, MinCache,
           \A s \in Ints : minimal[s] = Unset \/ Within(s, minimal[s]), [ConfNext]_allVars
    PROVE  MinCache'
<1>1. TypeOK /\ TypeOK' /\ ConfTypeOK'
  BY ConfTypeStep DEF ConfTypeOK
<1>2. ASSUME NEW m \in Modes, Start(m) PROVE MinCache'
  <2>1. m \in MinModes => CacheInv' /\ LinesWritten' /\ NeedOpen'
    BY <1>1, <1>2, StartFresh
  <2> QED BY <1>2, <2>1 DEF Start, MinCache
<1>3. CASE UNCHANGED allVars
  <2>1. /\ UNCHANGED vars /\ mode' = mode /\ todo' = todo /\ curr' = curr /\ write' = write
        /\ valid' = valid /\ need' = need
    BY <1>3 DEF allVars, confVars, vars, cacheVars
  <2>2. CacheInv => CacheInv'
    BY <2>1, QuietFresh
  <2> QED BY <2>1, <2>2 DEF MinCache, LinesWritten, NeedOpen
<1>4. CASE mode \notin MinModes /\ (Step \/ Ask)
  <2>1. mode' = mode \/ mode' = "oldconfig"
    BY <1>4 DEF Step, Ask, Calculate, EndRead, Explicit, Loop, While, BeginWrite, EndWrite,
                CheckConf, Descend, SetNew, SetChoice, Again, Clear, WriteDefconfig,
                SetAllChoiceValues, AskSymbol, Pick, confVars, Asking
  <2> QED BY <1>4, <2>1 DEF MinCache, MinModes
<1>5. CASE mode \in MinModes /\ (Step \/ Ask)
  <2> SUFFICES ASSUME todo' # <<>> PROVE CacheInv' /\ LinesWritten' /\ NeedOpen'
    BY DEF MinCache
  <2>1. /\ \/ Calculate \/ EndRead \/ Clear \/ SetNew \/ SetChoice \/ Again \/ BeginWrite
           \/ \E c \in Unsettled : SetAllChoiceValues(c)
        /\ Again => UNCHANGED vars
        /\ mode # "randconfig"
    <3>1. CASE mode = "savedefconfig"
      <4>1. ~ WriteDefconfig
        BY <1>5, <3>1, SaveSteps DEF WriteDefconfig
      <4> QED BY <1>5, <3>1, <4>1, SaveSteps DEF Again
    <3>2. CASE mode = "defconfig"
      <4>1. ~ EndWrite
        BY <1>5, <3>2, DefSteps
      <4> QED BY <1>5, <3>2, <4>1, DefSteps DEF Again
    <3> QED BY <1>5, <3>1, <3>2 DEF MinModes
  <2>2. todo # <<>>
    <3>1. todo = <<>> => ~ Clear /\ ~ SetNew /\ ~ SetChoice /\ ~ Again /\ ~ BeginWrite
      BY Zenon DEF Clear, SetNew, SetChoice, Again, BeginWrite, Ready, Doing
    <3>2. Calculate \/ EndRead \/ (\E c \in Unsettled : SetAllChoiceValues(c)) => todo' = todo
      BY DEF Calculate, EndRead, SetAllChoiceValues, confVars
    <3> QED BY <2>1, <3>1, <3>2
  <2>3. CacheInv /\ LinesWritten /\ NeedOpen
    BY <1>5, <2>2 DEF MinCache
  <2>4. ASSUME FinishRead \/ Write \/ UNCHANGED vars,
               curr' = curr, write' = write, valid' \subseteq valid, need' = need
        PROVE  CacheInv' /\ LinesWritten' /\ NeedOpen'
    <3>1. CacheInv'
      BY <2>3, <2>4, QuietFresh
    <3> QED BY <2>3, <2>4, <3>1 DEF LinesWritten, NeedOpen
  <2>5. CASE Calculate
    <3>1. PICK x : CalcSymbol(x) \/ CalcChoice(x)
      BY <2>5, Zenon DEF Calculate
    <3>2. x \in Sym
      BY <3>1, SortAssumption DEF CalcSymbol, CalcChoice, Named
    <3>3. CacheInv'
      BY <2>3, <3>1, <3>2, QuietFresh DEF Calc
    <3>4. CalcOf(x) /\ Closed
      BY <1>1, <2>3, <3>1, <3>2, CalcSymbolOf, CalcChoiceOf DEF BoolMenu, CacheInv
    <3>5. LinesWritten'
      BY <1>1, <2>3, <3>4, CalcLines DEF BoolMenu
    <3>6. need' = need /\ Unsettled = {}
      BY <2>5 DEF Calculate, confVars
    <3>7. NeedOpen'
      BY <2>3, <3>4, <3>6 DEF NeedOpen, Unsettled, CalcOf
    <3> QED BY <3>3, <3>5, <3>7
  <2>6. CASE EndRead \/ BeginWrite \/ Again
    <3>1. FinishRead \/ Write \/ UNCHANGED vars
      BY <2>6 DEF EndRead, BeginWrite, Again
    <3>2. curr' = curr /\ write' = write /\ (valid' \subseteq valid) /\ need' = need
      <4>1. CASE EndRead
        BY <4>1 DEF EndRead, FinishRead, cacheVars, confVars
      <4>2. CASE BeginWrite
        BY <4>2 DEF BeginWrite, Write, ClearAllValid, vars, cacheVars
      <4>3. CASE Again
        BY <4>3 DEF Again, vars, cacheVars
      <4> QED BY <2>6, <4>1, <4>2, <4>3
    <3> QED BY <2>4, <3>1, <3>2
  <2>7. CASE Clear \/ SetNew
    <3>1. valid' = {} /\ disk' = disk
      BY <2>7 DEF Clear, SetNew, ClearAllValid
    <3>2. \A s \in Ints : s \in Sym /\ s \notin New /\ s \notin Choice
      BY SortAssumption DEF New
    <3>3. \A s \in Ints : def'[s] = def[s] /\ (s \in user' => s \in user)
      <4>1. CASE Clear
        BY <4>1 DEF Clear, userVars
      <4>2. CASE SetNew
        <5>1. PICK f : def' = [s \in Sym |-> IF s \in New THEN f[s] ELSE def[s]]
          BY <4>2, Zenon DEF SetNew
        <5>2. user' \subseteq user \cup New
          BY <4>2 DEF SetNew
        <5> QED BY <3>2, <5>1, <5>2
      <4> QED BY <2>7, <4>1, <4>2
    <3>4. Ranges'
      BY <2>3, <3>1, <3>3 DEF CacheInv, Ranges, Within
    <3> QED BY <1>1, <3>1, <3>4 DEF CacheInv, Closed, AllFresh, LinesWritten, NeedOpen
  <2>8. CASE SetChoice
    <3>1. UNCHANGED vars /\ need' = need
      BY <2>1, <2>8 DEF SetChoice, vars, userVars
    <3> QED BY <2>4, <3>1 DEF vars, cacheVars
  <2>9. CASE \E c \in Unsettled : SetAllChoiceValues(c)
    BY <1>1, <2>3, <2>9, SettleFresh
  <2> QED BY <2>1, <2>5, <2>6, <2>7, <2>8, <2>9
<1> QED BY <1>2, <1>3, <1>4, <1>5 DEF ConfNext

\* An int in the minimal file is one that it may be.
MinimalInts == \A s \in Ints : minimal[s] = Unset \/ Within(s, minimal[s])

\* conf_write_defconfig writes ints that were calculated.
LEMMA MinimalIntsStep ==
    ASSUME ConfTypeOK, FilesInv, MinimalInts, [ConfNext]_allVars
    PROVE  MinimalInts'
<1>1. \A s \in Ints : s \in Sym /\ s \in Named
  BY SortAssumption DEF Named
<1>2. ASSUME NEW m \in Modes, Start(m) PROVE MinimalInts'
  <2>1. minimal' = minimal \/ minimal' = NoFile
    BY <1>2 DEF Start
  <2> QED BY <1>1, <2>1 DEF MinimalInts, NoFile, Within
<1>3. CASE WriteDefconfig
  <2>1. Ready("minimal")
    BY <1>3 DEF WriteDefconfig
  <2>2. valid = Sym
    BY <2>1, AllValid DEF ConfTypeOK
  <2>3. \A s \in Ints : Within(s, curr[s])
    BY <1>1, <2>2 DEF FilesInv, IntsWithin
  <2>4. \A s \in Ints : minimal'[s] \in {Unset, curr[s]}
    BY <1>1, <1>3 DEF WriteDefconfig
  <2> QED BY <2>3, <2>4 DEF MinimalInts, Within
<1>4. CASE (Step \/ Ask) /\ ~ WriteDefconfig
  <2>1. minimal' = minimal
    BY <1>4 DEF Step, Ask, Calculate, EndRead, Explicit, Loop, While, BeginWrite, EndWrite,
                CheckConf, Descend, SetNew, SetChoice, Again, Clear,
                SetAllChoiceValues, AskSymbol, Pick, confVars, Asking
  <2> QED BY <2>1 DEF MinimalInts, Within
<1>5. CASE UNCHANGED allVars
  BY <1>5 DEF allVars, confVars, MinimalInts, Within
<1> QED BY <1>2, <1>3, <1>4, <1>5 DEF ConfNext

\* Each step leads from one of these places to the next.
LEMMA PlaceStep ==
    ASSUME BoolMenu, ConfTypeOK, SavePlace, DefPlace, MinCache, [ConfNext]_allVars
    PROVE  SavePlace' /\ DefPlace'
<1>1. TypeOK /\ TypeOK'
  BY ConfTypeStep DEF ConfTypeOK
<1>2. ASSUME NEW m \in Modes, Start(m) PROVE SavePlace' /\ DefPlace'
  <2>1. mode' = m /\ todo' = Calls(m) /\ need' = {} /\ (m \in MinModes => pc' = "read")
    BY <1>2 DEF Start, MinModes, AllModes
  <2>2. SavePlace'
    <3> SUFFICES ASSUME m = "savedefconfig" PROVE todo' = Calls("savedefconfig") /\ need' = {} /\ pc' = "read"
      BY <2>1, Zenon DEF SavePlace
    <3> QED BY <2>1 DEF MinModes
  <2>3. DefPlace'
    <3> SUFFICES ASSUME m = "defconfig" PROVE todo' = Calls("defconfig") /\ need' = {} /\ pc' = "read"
      BY <2>1, Zenon DEF DefPlace
    <3> QED BY <2>1 DEF MinModes
  <2> QED BY <2>2, <2>3
<1>3. CASE UNCHANGED allVars
  <2>1. mode' = mode /\ todo' = todo /\ need' = need /\ pc' = pc /\ valid' = valid
    BY <1>3 DEF allVars, vars, confVars
  <2> QED BY <2>1 DEF SavePlace, DefPlace, Doing
<1>4. CASE mode \notin MinModes /\ (Step \/ Ask)
  <2>1. mode' = mode \/ mode' = "oldconfig"
    BY <1>4 DEF Step, Ask, Calculate, EndRead, Explicit, Loop, While, BeginWrite, EndWrite,
                CheckConf, Descend, SetNew, SetChoice, Again, Clear, WriteDefconfig,
                SetAllChoiceValues, AskSymbol, Pick, confVars, Asking
  <2> QED BY <1>4, <2>1 DEF SavePlace, DefPlace, MinModes
<1>5. CASE mode = "savedefconfig" /\ (Step \/ Ask)
  <2>1. DefPlace'
    BY <1>5, SaveSteps DEF DefPlace
  <2>2. CASE Calculate
    <3>1. mode' = mode /\ todo' = todo /\ need' = need /\ pc' = pc
      BY <2>2 DEF Calculate, CalcSymbol, CalcChoice, confVars
    <3> QED BY <1>5, <2>1, <3>1 DEF SavePlace
  <2>3. CASE EndRead
    <3>1. mode' = mode /\ todo' = todo /\ need' = need /\ pc = "read" /\ pc' = "edit"
      BY <2>3 DEF EndRead, FinishRead, confVars
    <3> QED BY <1>5, <2>1, <3>1 DEF SavePlace
  <2>4. CASE Clear
    <3>1. mode' = mode /\ todo' = Rest /\ need' = need /\ pc = "edit" /\ pc' = pc
      BY <2>4 DEF Clear, Ready
    <3>2. todo' = <<Call("minimal", Root)>> /\ need = {}
      BY <1>5, <2>4, <3>1, SaveSteps DEF SavePlace
    <3> QED BY <1>5, <2>1, <3>1, <3>2 DEF SavePlace
  <2>5. CASE WriteDefconfig
    <3>1. mode' = mode /\ todo' = Rest /\ need' = need /\ pc = "edit" /\ pc' = pc
      BY <2>5 DEF WriteDefconfig, Ready
    <3>2. todo' = <<>> /\ need = {}
      BY <1>5, <2>5, <3>1, SaveSteps DEF SavePlace
    <3> QED BY <1>5, <2>1, <3>1, <3>2 DEF SavePlace
  <2> QED BY <1>5, <2>2, <2>3, <2>4, <2>5, SaveSteps
<1>6. CASE mode = "defconfig" /\ (Step \/ Ask)
  <2>1. SavePlace' /\ mode' = mode
    BY <1>6, DefSteps DEF SavePlace
  <2>2. CASE Calculate
    <3>1. todo' = todo /\ need' = need /\ pc' = pc
      BY <2>2 DEF Calculate, CalcSymbol, CalcChoice, confVars
    <3>2. valid \subseteq valid' /\ (valid' \subseteq Sym)
      <4>1. PICK x : CalcSymbol(x) \/ CalcChoice(x)
        BY <2>2, Zenon DEF Calculate
      <4>2. valid' = valid \cup {x}
        BY <4>1 DEF CalcSymbol, CalcChoice, Store
      <4> QED BY <1>1, <4>2 DEF TypeOK
    <3> QED BY <1>6, <2>1, <3>1, <3>2 DEF DefPlace, Doing
  <2>3. CASE EndRead
    <3>1. FinishRead /\ pc' = "edit" /\ todo' = todo /\ need' = need /\ need = {}
          /\ todo = Calls("defconfig")
      BY <1>6, <2>3, DefSteps DEF EndRead, FinishRead, confVars
    <3>2. todo # <<>>
      <4>1. \A x, y : <<x, y>> # <<>>
        OBVIOUS
      <4> QED BY <3>1, <4>1 DEF Calls, SyncModes
    <3>3. Ranges
      BY <1>6, <3>2 DEF MinCache, MinModes, CacheInv
    <3>4. valid' = Sym
      <4>1. {s \in user \cap Ints : def[s] < Attr(s, curr).lo \/ def[s] > Attr(s, curr).hi} = {}
        BY <1>1, <3>3, NothingOutside
      <4> QED BY <3>1, <4>1 DEF FinishRead
    <3> QED BY <2>1, <3>1, <3>4 DEF DefPlace
  <2>4. CASE SetNew
    <3>1. Rest = <<Call("write", Root)>>
      BY <1>6, <2>4, DefSteps
    <3>2. /\ todo' = [i \in DOMAIN HashOrder |-> Call("choice", HashOrder[i])]
                        \o <<Call("again", Root)>> \o Rest
          /\ pc' = pc /\ pc = "edit"
      BY <2>4 DEF SetNew, Ready
    <3>3. Answering(todo')
      BY <3>1, <3>2, LoopAnswers
    <3> QED BY <2>1, <3>2, <3>3 DEF DefPlace
  <2>5. CASE SetChoice \/ Again
    <3>1. Answering(Rest) /\ todo' = Rest
      BY <1>6, <2>5, DefSteps
    <3>2. pc' = "edit"
      BY <2>5 DEF SetChoice, Again, Ready, vars
    <3> QED BY <2>1, <3>1, <3>2 DEF DefPlace
  <2>6. CASE BeginWrite
    <3>1. Write /\ todo' = todo /\ Answering(todo) /\ Doing("write") /\ pc' = "write"
      BY <1>6, <2>6, DefSteps DEF BeginWrite, Ready, Write
    <3> QED BY <2>1, <3>1 DEF DefPlace, Doing
  <2>7. CASE EndWrite
    <3>1. todo' = <<>> /\ pc' = "edit"
      BY <1>6, <2>7, DefSteps DEF EndWrite, FinishWrite
    <3> QED BY <2>1, <3>1 DEF DefPlace
  <2>8. CASE \E c \in Unsettled : SetAllChoiceValues(c)
    <3>1. need # {} /\ todo' = todo /\ pc' = pc
      BY <2>8 DEF SetAllChoiceValues, Unsettled
    <3> QED BY <1>6, <2>1, <3>1 DEF DefPlace, Doing
  <2> QED BY <1>6, <2>2, <2>3, <2>4, <2>5, <2>6, <2>7, <2>8, DefSteps
<1> QED BY <1>2, <1>3, <1>4, <1>5, <1>6 DEF ConfNext, MinModes

\* Nothing outside the symbols is calculated.
LEMMA AllClosed == ClosedSet(Sym)
<1>1. \A s \in Sym : Operands(s) \subseteq Sym
  <2> TAKE s \in Sym
  <2>1. Uses(s) \subseteq Sym /\ \A x \in Sym : Uses(x) \subseteq Sym
    BY AttrAssumption
  <2>2. s \in Choice => Values(s) \subseteq Sym
    BY ChoiceAssumption
  <2>3. {Modules} \ {NoSym, s} \subseteq Sym
    BY SortAssumption
  <2> QED BY <2>1, <2>2, <2>3 DEF Operands
<1> QED BY <1>1 DEF ClosedSet

\* A solution of the requests stays one when only what the hidden symbols, the
\* choices and their values are asked for changes.
LEMMA StillSolved ==
    ASSUME BoolMenu, NEW rank \in [Sym -> Nat], Acyclic(rank), CacheInv,
           NEW w \in Valuation, Solves(w, Sym, def, user, userPick), userPick' = userPick,
           \A x \in Sym : x \notin Choice /\ ~ IsChoiceValue(x) =>
              \/ def'[x] = def[x] /\ (x \in user') = (x \in user)
              \/ x \in valid /\ visible[x] = no
    PROVE  Solves(w, Sym, def', user', userPick')
<1>1. PickType(userPick) /\ CurrSolved
  BY CacheSolves DEF CurrSolved
<1>2. \A x \in valid : curr[x] = w[x]
  BY <1>1, AllClosed, Unique DEF CurrSolved, ClosedSet
<1>3. ASSUME NEW x \in valid, visible[x] = no PROVE Visibility(x, w) = no
  <2>1. x \in Sym /\ \A y \in Uses(x) : curr[y] = w[y]
    BY <1>1, <1>2, OperandsOf DEF CurrSolved, ClosedSet
  <2>2. visible[x] = Visibility(x, curr)
    BY <2>1, FreshNow DEF CacheInv, AllFresh
  <2> QED BY <1>1, <1>3, <2>1, <2>2, SameFields DEF CurrSolved
<1> QED BY <1>1, <1>3, AllClosed, OtherRequests

\* The minimal file is a file of the values w: reading it asks for them, and
\* they are what .config is to hold.
FileAsks(w) ==
    /\ expected[1] = [s \in Named |-> IF Written(s, w) THEN w[s] ELSE Unset]
    /\ Solves(w, Sym, DefOf(minimal), UserOf(minimal), PickOf(minimal))

\* That is known from savedefconfig on, while a defconfig has not yet written
\* what it has read; then .config holds it.
ExpectedInv ==
    expected # <<>> =>
        /\ mode \in MinModes /\ (mode = "savedefconfig" => todo = <<>>)
        /\ \E w \in Valuation :
             /\ FileAsks(w)
             /\ mode = "defconfig" /\ todo # <<>> => Solves(w, Sym, def, user, userPick)
        /\ mode = "defconfig" /\ todo = <<>> => disk = expected[1]

\* savedefconfig writes a file that asks for what was calculated.
LEMMA SaveExpected ==
    ASSUME BoolMenu, IntsUnselected, ConfTypeOK, FilesInv, SavePlace, MinCache, ExpectedInv,
           mode = "savedefconfig", Step \/ Ask
    PROVE  ExpectedInv'
<1>1. mode' = mode
  BY SaveSteps
<1>2. CASE WriteDefconfig
  <2>1. todo = <<Call("minimal", Root)>> /\ todo' = <<>> /\ valid = Sym
    <3>1. Ready("minimal") /\ todo' = Rest
      BY <1>2 DEF WriteDefconfig
    <3> QED BY <1>2, <3>1, SaveSteps, AllValid DEF ConfTypeOK
  <2>2. todo # <<>>
    <3>1. \A x : <<x>> # <<>>
      OBVIOUS
    <3> QED BY <2>1, <3>1
  <2>3. CacheInv /\ LinesWritten /\ curr \in Valuation
    BY <2>2 DEF MinCache, MinModes, CacheInv, TypeOK
  <2>4. /\ minimal' = [s \in Named |-> IF Redundant(s) THEN Unset ELSE curr[s]]
        /\ expected' = <<Content>>
    BY <1>2 DEF WriteDefconfig
  <2>5. Solves(curr, Sym, DefOf(minimal'), UserOf(minimal'), PickOf(minimal'))
    <3>1. \A s \in Named : minimal'[s] = IF Redundant(s) THEN Unset ELSE curr[s]
      BY <2>4
    <3> QED BY <2>1, <2>3, <3>1, ReadMinimal DEF FilesInv
  <2>6. expected'[1] = [s \in Named |-> IF Written(s, curr) THEN curr[s] ELSE Unset]
    <3>1. expected'[1] = Content
      BY <2>4
    <3>2. \A s \in Named : s \in write <=> Written(s, curr)
      BY <2>1, <2>3 DEF LinesWritten, Named
    <3> QED BY <3>1, <3>2 DEF Content
  <2>7. PICK w \in Valuation : w = curr
    BY <2>3
  <2>8. FileAsks(w)'
    BY <2>5, <2>6, <2>7, Zenon DEF FileAsks, Solves, Written
  <2> QED BY <1>1, <2>1, <2>8 DEF ExpectedInv, MinModes
<1>3. CASE Calculate \/ EndRead \/ Clear
  <2> SUFFICES ASSUME expected' # <<>> PROVE ExpectedInv'
    BY DEF ExpectedInv
  <2>1. expected' = expected /\ minimal' = minimal
    BY <1>3 DEF Calculate, EndRead, Clear, confVars, ghosts
  <2>2. todo = <<>>
    BY <2>1 DEF ExpectedInv
  <2>3. todo' = <<>>
    <3>1. ~ Clear
      BY <2>2 DEF Clear, Ready, Doing
    <3> QED BY <1>3, <2>2, <3>1, SaveSteps
  <2>4. PICK w \in Valuation : FileAsks(w)
    BY <2>1 DEF ExpectedInv
  <2>5. FileAsks(w)'
    BY <2>1, <2>4, Zenon DEF FileAsks, Solves, Written
  <2> QED BY <1>1, <2>3, <2>5 DEF ExpectedInv, MinModes
<1> QED BY <1>2, <1>3, SaveSteps

\* defconfig keeps to the requests it has read, and writes their solution.
LEMMA DefExpected ==
    ASSUME BoolMenu, NEW rank \in [Sym -> Nat], Acyclic(rank), ConfTypeOK, DefPlace, MinCache,
           ExpectedInv, mode = "defconfig", Step \/ Ask
    PROVE  ExpectedInv'
<1>1. /\ mode' = mode /\ expected' = expected /\ minimal' = minimal
      /\ \/ Calculate \/ EndRead \/ SetNew \/ SetChoice \/ Again \/ BeginWrite \/ EndWrite
         \/ \E c \in Unsettled : SetAllChoiceValues(c)
  <2>1. \/ Calculate \/ EndRead \/ SetNew \/ SetChoice \/ Again \/ BeginWrite \/ EndWrite
        \/ \E c \in Unsettled : SetAllChoiceValues(c)
    BY DefSteps
  <2>2. expected' = expected /\ minimal' = minimal
    BY <2>1 DEF Calculate, EndRead, SetNew, SetChoice, Again, BeginWrite, EndWrite,
                SetAllChoiceValues, confVars, ghosts
  <2> QED BY <2>1, <2>2, DefSteps
<1> SUFFICES ASSUME expected # <<>> PROVE ExpectedInv'
  BY <1>1 DEF ExpectedInv
<1>2. PICK w \in Valuation :
        FileAsks(w) /\ (todo # <<>> => Solves(w, Sym, def, user, userPick))
  BY DEF ExpectedInv
<1>3. FileAsks(w)'
  BY <1>1, <1>2, Zenon DEF FileAsks, Solves, Written
<1>4. ASSUME todo' # <<>>, Solves(w, Sym, def', user', userPick') PROVE ExpectedInv'
  <2>1. Solves(w, Sym, def, user, userPick)'
    BY <1>4, Zenon DEF Solves
  <2> QED BY <1>1, <1>3, <1>4, <2>1 DEF ExpectedInv, MinModes
<1>5. CASE todo = <<>>
  <2>1. ~ SetNew /\ ~ SetChoice /\ ~ Again /\ ~ BeginWrite
    BY <1>5, Zenon DEF SetNew, SetChoice, Again, BeginWrite, Ready, Doing
  <2>2. ~ EndWrite
    BY <1>5, DefSteps
  <2>3. todo' = todo /\ disk' = disk
    BY <1>1, <2>1, <2>2 DEF Calculate, EndRead, SetAllChoiceValues, confVars, CalcSymbol, CalcChoice,
                            FinishRead, fileVars
  <2> QED BY <1>1, <1>3, <1>5, <2>3 DEF ExpectedInv, MinModes
<1>6. CASE todo # <<>>
  <2>1. /\ CacheInv /\ LinesWritten /\ TypeOK /\ CurrSolved
        /\ Solves(w, Sym, def, user, userPick)
    BY <1>2, <1>6, CacheSolves DEF MinCache, MinModes, CacheInv
  <2>2. ASSUME todo' # <<>>, userPick' = userPick,
               \A x \in Sym : x \notin Choice /\ ~ IsChoiceValue(x) =>
                 \/ def'[x] = def[x] /\ (x \in user') = (x \in user)
                 \/ x \in valid /\ visible[x] = no
        PROVE  ExpectedInv'
    BY <1>4, <2>1, <2>2, StillSolved
  <2>3. ASSUME todo' # <<>>, def' = def, user' = user, userPick' = userPick PROVE ExpectedInv'
    BY <2>2, <2>3
  <2>4. CASE Calculate
    <3>1. PICK x : CalcSymbol(x) \/ CalcChoice(x)
      BY <2>4, Zenon DEF Calculate
    <3>2. def' = def /\ userPick' = userPick /\ (user' = user \/ (x \in Choice /\ user' = user \ {x}))
      BY <3>1 DEF CalcSymbol, CalcChoice, userVars
    <3>3. todo' = todo
      BY <2>4 DEF Calculate, confVars
    <3> QED BY <1>6, <2>2, <3>2, <3>3
  <2>5. CASE EndRead
    <3> DEFINE hidden  == {s \in Sym : visible[s] = no /\ ~ IsChoiceValue(s)}
               outside == {s \in user \cap Ints :
                             def[s] < Attr(s, curr).lo \/ def[s] > Attr(s, curr).hi}
    <3>1. /\ user' = (IF Unsaved THEN user ELSE user \ hidden) \ outside /\ valid = Sym
          /\ def' = def /\ userPick' = userPick /\ todo' = todo
      BY <2>5 DEF EndRead, FinishRead, confVars
    <3>2. outside = {}
      BY <2>1, NothingOutside DEF CacheInv
    <3>3. \A x \in Sym : (x \in user') = (x \in user) \/ visible[x] = no
      <4>1. user' = user \/ user' = user \ hidden
        <5> HIDE DEF hidden, outside
        <5> QED BY <3>1, <3>2
      <4> QED BY <4>1
    <3> HIDE DEF hidden, outside
    <3> QED BY <1>6, <2>2, <3>1, <3>3
  <2>6. CASE SetNew
    <3>1. valid = Sym /\ Rest = <<Call("write", Root)>>
      BY <2>6, DefSteps
    <3>2. todo' # <<>>
      <4>1. Answering(todo')
        BY <2>6, <3>1, LoopAnswers DEF SetNew
      <4> QED BY <4>1 DEF Answering
    <3>3. New = {}
      BY <3>1 DEF New
    <3>4. userPick' = userPick /\ user' = user
      BY <2>6, <3>3 DEF SetNew
    <3>5. \A x \in Sym : def'[x] = def[x]
      <4>1. PICK f : def' = [s \in Sym |-> IF s \in New THEN f[s] ELSE def[s]]
        BY <2>6, Zenon DEF SetNew
      <4> QED BY <3>3, <4>1
    <3> QED BY <2>2, <3>2, <3>4, <3>5
  <2>7. CASE SetChoice
    <3>1. Answering(todo') /\ UNCHANGED <<def, user, userPick>>
      BY <2>7, DefSteps DEF SetChoice
    <3> QED BY <2>3, <3>1 DEF Answering
  <2>8. CASE Again
    <3>1. Answering(todo') /\ UNCHANGED <<def, user, userPick>>
      BY <2>8, DefSteps DEF Again, vars, userVars
    <3> QED BY <2>3, <3>1 DEF Answering
  <2>9. CASE BeginWrite
    <3>1. todo' = todo /\ UNCHANGED <<def, user, userPick>>
      BY <2>9, DefSteps DEF Write, userVars
    <3> QED BY <1>6, <2>3, <3>1
  <2>10. CASE \E c \in Unsettled : SetAllChoiceValues(c)
    <3>1. PICK c \in Unsettled : SetAllChoiceValues(c)
      BY <2>10
    <3>2. /\ def' = [s \in Sym |-> IF s \in Values(c) \ user THEN no ELSE def[s]]
          /\ user' = user \cup {c} /\ userPick' = userPick /\ todo' = todo
      BY <3>1 DEF SetAllChoiceValues
    <3>3. c \in Choice /\ \A x \in Values(c) : IsChoiceValue(x)
      <4>1. c \in Choice
        BY DEF Unsettled, ConfTypeOK
      <4> QED BY <4>1, ValueOperands
    <3>4. \A x \in Sym : x \notin Choice /\ ~ IsChoiceValue(x) =>
            def'[x] = def[x] /\ (x \in user') = (x \in user)
      BY <3>2, <3>3
    <3> QED BY <1>6, <2>2, <3>2, <3>4
  <2>11. CASE EndWrite
    <3>1. todo' = <<>> /\ Named \subseteq valid /\ disk' = Content
      BY <2>11, DefSteps DEF EndWrite, FinishWrite
    <3>2. \A s \in valid : curr[s] = w[s]
      BY <2>1, AllClosed, Unique DEF CurrSolved, ClosedSet
    <3>3. \A s \in Named : Written(s, curr) <=> Written(s, w)
      <4> TAKE s \in Named
      <4>1. \A u \in Operands(s) : curr[u] = w[u]
        BY <3>1, <3>2, <2>1 DEF CurrSolved, ClosedSet
      <4>2. Modules \notin Tristate
        BY DEF BoolMenu
      <4> QED BY <2>1, <4>1, <4>2, WrittenLocal DEF CurrSolved
    <3>4. \A s \in Named : (s \in write <=> Written(s, w)) /\ curr[s] = w[s]
      BY <2>1, <3>1, <3>2, <3>3 DEF LinesWritten
    <3>5. disk' = expected'[1]
      BY <1>1, <1>2, <3>1, <3>4 DEF FileAsks, Content
    <3> QED BY <1>1, <1>3, <3>1, <3>5 DEF ExpectedInv, MinModes
  <2> QED BY <1>1, <2>4, <2>5, <2>6, <2>7, <2>8, <2>9, <2>10, <2>11
<1> QED BY <1>5, <1>6

\* From one process to the next, and whatever else is started in between.
LEMMA ExpectedStep ==
    ASSUME BoolMenu, IntsUnselected, NEW rank \in [Sym -> Nat], Acyclic(rank),
           ConfTypeOK, FilesInv, PlainInv, SavePlace, DefPlace, MinCache, ExpectedInv,
           [ConfNext]_allVars
    PROVE  ExpectedInv'
<1>1. ASSUME NEW m \in Modes, Start(m) PROVE ExpectedInv'
  <2> SUFFICES ASSUME expected' # <<>> PROVE ExpectedInv'
    BY DEF ExpectedInv
  <2>1. /\ m = "defconfig" /\ mode' = m /\ expected' = expected /\ minimal' = minimal
        /\ todo' = Calls("defconfig")
        /\ def' = DefOf(minimal) /\ user' = UserOf(minimal) /\ userPick' = PickOf(minimal)
    BY <1>1 DEF Start, AllModes, ReadSimple
  <2>2. todo' # <<>>
    <3>1. \A x, y : <<x, y>> # <<>>
      OBVIOUS
    <3> QED BY <2>1, <3>1 DEF Calls, SyncModes
  <2>3. PICK w \in Valuation : FileAsks(w)
    BY <2>1 DEF ExpectedInv
  <2>4. FileAsks(w)' /\ Solves(w, Sym, def, user, userPick)'
    BY <2>1, <2>3, Zenon DEF FileAsks, Solves, Written
  <2> QED BY <2>1, <2>2, <2>4 DEF ExpectedInv, MinModes
<1>2. CASE mode \notin MinModes /\ (Step \/ Ask)
  <2>1. ~ WriteDefconfig
    <3>1. todo # <<>> => 1 \in DOMAIN todo
      <4>1. todo \in Seq(CallType)
        BY DEF ConfTypeOK
      <4> HIDE DEF CallType
      <4> QED BY <4>1
    <3>2. Plain(todo)
      BY <1>2 DEF PlainInv, MinModes
    <3>3. ~ Doing("minimal")
      BY <3>1, <3>2 DEF Plain, Doing
    <3> QED BY <3>3 DEF WriteDefconfig, Ready
  <2>2. expected' = expected
    BY <1>2, <2>1 DEF Step, Ask, Calculate, EndRead, Explicit, Loop, While, BeginWrite, EndWrite,
                CheckConf, Descend, SetNew, SetChoice, Again, Clear,
                SetAllChoiceValues, AskSymbol, Pick, ghosts, Asking
  <2>3. expected = <<>>
    BY <1>2 DEF ExpectedInv
  <2> QED BY <2>2, <2>3 DEF ExpectedInv
<1>3. CASE mode \in MinModes /\ (Step \/ Ask)
  BY <1>3, SaveExpected, DefExpected DEF MinModes
<1>4. CASE UNCHANGED allVars
  <2> SUFFICES ASSUME expected # <<>> PROVE ExpectedInv'
    BY <1>4 DEF ExpectedInv, allVars, ghosts
  <2>1. /\ mode' = mode /\ todo' = todo /\ expected' = expected /\ minimal' = minimal
        /\ def' = def /\ user' = user /\ userPick' = userPick /\ disk' = disk
    BY <1>4 DEF allVars, vars, userVars, fileVars, confVars, ghosts
  <2>2. PICK w \in Valuation :
          FileAsks(w) /\ (mode = "defconfig" /\ todo # <<>> => Solves(w, Sym, def, user, userPick))
    BY DEF ExpectedInv
  <2>3. FileAsks(w)'
    BY <2>1, <2>2, Zenon DEF FileAsks, Solves, Written
  <2>4. (Solves(w, Sym, def, user, userPick))' <=> Solves(w, Sym, def, user, userPick)
    BY <2>1, Zenon DEF Solves
  <2> QED BY <2>1, <2>2, <2>3, <2>4 DEF ExpectedInv
<1> QED BY <1>1, <1>2, <1>3, <1>4 DEF ConfNext

\* In the menus of this tree, when they have no circular dependencies and
\* nothing selects an int: defconfig writes the .config that a savedefconfig
\* was made of, though the minimal file leaves out all that a default says.
THEOREM MinimalIsEnough ==
    ASSUME BoolMenu, IntsUnselected, NEW rank \in [Sym -> Nat], Acyclic(rank)
    PROVE  ConfSpec => []MinimalSuffices
<1> DEFINE Inv == /\ FilesInv /\ PlainInv /\ MinimalInts /\ SavePlace /\ DefPlace
                  /\ MinCache /\ ExpectedInv
<1>1. ConfInit => Inv
  <2>1. ConfInit => PlainInv /\ SavePlace /\ DefPlace /\ MinCache /\ ExpectedInv
    BY DEF ConfInit, PlainInv, Plain, SavePlace, DefPlace, MinCache, MinModes, ExpectedInv
  <2>2. ConfInit => MinimalInts
    BY SortAssumption DEF ConfInit, MinimalInts, NoFile, Named
  <2> QED BY <2>1, <2>2, FilesStart
<1>2. ConfTypeOK /\ Inv /\ [ConfNext]_allVars => Inv'
  <2> SUFFICES ASSUME ConfTypeOK, Inv, [ConfNext]_allVars PROVE Inv'
    OBVIOUS
  <2>1. FilesInv' /\ PlainInv' /\ MinimalInts'
    BY FilesStep, PlainStep, MinimalIntsStep DEF BoolMenu
  <2>2. SavePlace' /\ DefPlace'
    BY PlaceStep
  <2>3. MinCache'
    BY MinCacheStep DEF MinimalInts
  <2>4. ExpectedInv'
    BY ExpectedStep
  <2> QED BY <2>1, <2>2, <2>3, <2>4
<1>3. Inv => MinimalSuffices
  BY DEF ExpectedInv, MinimalSuffices
<1>4. ConfSpec => []ConfTypeOK
  BY ConfTypeCorrect
<1> HIDE DEF Inv
<1> QED BY <1>1, <1>2, <1>3, <1>4, PTL DEF ConfSpec
=============================================================================
