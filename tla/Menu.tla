-------------------------------- MODULE Menu --------------------------------
(* The menu tree (package/config/menu.c): what the parser's actions build    *)
(* from a Kconfig file, what menu_finalize makes of it, and the check for    *)
(* recursive dependencies that ends conf_parse (symbol.c).                   *)
(*                                                                           *)
(* Entries are numbered in the order of the file; entry 1 is rootmenu and    *)
(* Nil the null pointer.  The lists of struct menu are kept as they are,     *)
(* first child and next sibling, because menu_finalize changes them while it *)
(* walks them.  A property (struct property) is a record of `props'.         *)
EXTENDS Expr

CONSTANTS
    Order,       \* the symbols a file defines, in the order of their first entry
    NoSym,       \* the null symbol
    ChoiceSym,   \* the symbol of the file's choice
    OptionalChoice, \* is the choice `optional'?
    Modules,     \* modules_sym, the literal n when there is none
    Languages    \* bounds: what statements and options a file may have, and how many

Symbols == {Order[i] : i \in DOMAIN Order} \cup {ChoiceSym}

\* The prompt of an entry that has none.
NoPrompt == [op |-> "no prompt"]

Nil  == 0
Root == 1

VARIABLES
    menus,       \* the entries: symbol, pointers, depends on, visible if, prompt
    props,       \* every property, in the order the parser met them
    current,     \* current_menu
    hole,        \* last_entry_ptr: <<entry, field>>
    rev, implied, dir, \* rev_dep.expr, implied.expr and dir_dep.expr of a symbol
    values,      \* the values of the choice, in order
    phase,       \* "parse", "check" (menu_finalize has run) or "done"
    lang,        \* which of the Languages the file is written in
    checked,     \* the symbols that carry SYMBOL_CHECKED
    recursive,   \* has a recursive dependency been printed?
    yynerrs,     \* has conf_parse counted an error?
    written      \* history: the entries and properties before menu_finalize

treeVars  == <<menus, props, current, hole>>
symVars   == <<rev, implied, dir, values>>
checkVars == <<checked, recursive, yynerrs>>
vars == <<treeVars, symVars, checkVars, phase, lang, written>>

Entry(sym, kind, parent) ==
    [sym |-> sym, kind |-> kind, parent |-> parent, next |-> Nil, list |-> Nil,
     dep |-> Null, vis |-> Null, prompt |-> 0]

Last == Len(menus)

IsChoice(s) == s = ChoiceSym
-----------------------------------------------------------------------------
(* The parser's actions.                                                     *)

\* menu_add_entry and menu_add_symbol(P_SYMBOL): the entry and its property.
Added(sym, kind) ==
    Append([menus EXCEPT ![hole[1]][hole[2]] = Last + 1], Entry(sym, kind, current))

SymbolProp(sym, n) ==
    IF sym = NoSym THEN <<>>
    ELSE <<[kind |-> "symbol", sym |-> sym, menu |-> n, arg |-> SymE(sym), cond |-> Null]>>

\* The visibilities of the menus around an entry (menu_add_prop).
RECURSIVE UpperVisibility(_, _)
UpperVisibility(n, e) ==
    IF n = Nil THEN e ELSE UpperVisibility(menus[n].parent, AllocAnd(e, menus[n].vis))

Room == phase = "parse" /\ Last <= lang.entries

\* A new entry has its symbol property and then, when it has one, its prompt.
NewEntry(sym, kind, prompts) ==
    LET ps == props \o SymbolProp(sym, Last + 1)
    IN /\ menus' = IF prompts = <<>> THEN Added(sym, kind)
                   ELSE [Added(sym, kind) EXCEPT ![Last + 1].prompt = Len(ps) + 1]
       /\ props' = ps \o prompts

Prompt(sym, kind, cond) ==
    <<[kind |-> kind, sym |-> sym, menu |-> Last + 1, arg |-> Null, cond |-> cond]>>

Defined == {menus[n].sym : n \in DOMAIN menus} \ {NoSym}

\* `config FOO' with or without a prompt; files name their symbols in order.
Config(s, prompts) ==
    /\ Room /\ "config" \in lang.statements
    /\ \/ s \in lang.twice /\ Cardinality({n \in DOMAIN menus : menus[n].sym = s}) = 1
       \/ \E i \in DOMAIN Order : /\ s = Order[i] /\ s \notin Defined
                                  /\ \A j \in 1 .. (i - 1) : Order[j] \in Defined
    /\ NewEntry(s, "config", prompts)
    /\ hole' = <<Last + 1, "next">>
    /\ UNCHANGED <<current, symVars, checkVars, phase, lang, written>>

ConfigAny == \E s \in Symbols \ {ChoiceSym}, c \in lang.prompts :
                Config(s, IF c = NoPrompt THEN <<>>
                          ELSE Prompt(s, "prompt", UpperVisibility(current, c)))

\* `comment': a prompt without a symbol.
Comment ==
    /\ Room /\ "comment" \in lang.statements
    /\ NewEntry(NoSym, "comment", Prompt(NoSym, "comment", Null))
    /\ hole' = <<Last + 1, "next">>
    /\ UNCHANGED <<current, symVars, checkVars, phase, lang, written>>

\* An entry whose block has been opened: menu_add_menu.
Opened == hole' = <<Last + 1, "list">> /\ current' = Last + 1

\* `menu' with its `visible if'; `depends on' may follow.
OpenMenu(vis) ==
    /\ Room /\ "menu" \in lang.statements /\ menus[current].kind # "choice"
    /\ LET ps == Prompt(NoSym, "menu", Null)
       IN /\ menus' = [Added(NoSym, "menu") EXCEPT ![Last + 1].prompt = Len(props) + 1,
                                                   ![Last + 1].vis = vis]
          /\ props' = props \o ps
    /\ Opened
    /\ UNCHANGED <<symVars, checkVars, phase, lang, written>>

OpenIf(e) ==
    /\ Room /\ "if" \in lang.statements
    /\ menus' = [Added(NoSym, "if") EXCEPT ![Last + 1].dep = e]
    /\ Opened
    /\ UNCHANGED <<props, symVars, checkVars, phase, lang, written>>

OpenChoice ==
    /\ Room /\ "choice" \in lang.statements /\ ChoiceSym \notin Defined
    /\ menus[current].kind # "choice"
    /\ NewEntry(ChoiceSym, "choice", Prompt(ChoiceSym, "prompt", UpperVisibility(current, Null)))
    /\ Opened
    /\ UNCHANGED <<symVars, checkVars, phase, lang, written>>

\* `endmenu', `endif', `endchoice': menu_end_menu.
Close ==
    /\ phase = "parse" /\ current # Root
    /\ menus[current].list # Nil
    /\ hole' = <<current, "next">>
    /\ current' = menus[current].parent
    /\ UNCHANGED <<menus, props, symVars, checkVars, phase, lang, written>>

\* The options follow the entry that was added last.
HasOption == phase = "parse" /\ Last > Root /\ hole[1] = Last
             /\ Len(SelectSeq(props, LAMBDA p : p.kind \in {"select", "imply", "default"}))
                  + Cardinality({n \in DOMAIN menus : menus[n].dep # Null /\ menus[n].kind # "if"})
                < lang.options

\* `depends on': menu_add_dep.
DependsOn(e) ==
    /\ HasOption /\ menus[Last].kind # "if" /\ menus[Last].dep = Null
    /\ menus' = [menus EXCEPT ![Last].dep = AllocAnd(@, e)]
    /\ UNCHANGED <<props, current, hole, symVars, checkVars, phase, lang, written>>

\* `select', `imply' and `default': menu_add_symbol and menu_add_expr.
SymbolOption(kind, arg) ==
    /\ HasOption /\ kind \in lang.kinds /\ menus[Last].kind = "config"
    /\ props' = Append(props, [kind |-> kind, sym |-> menus[Last].sym, menu |-> Last,
                               arg |-> arg, cond |-> Null])
    /\ UNCHANGED <<menus, current, hole, symVars, checkVars, phase, lang, written>>
-----------------------------------------------------------------------------
(* menu_finalize, on a record of everything it changes.                      *)

Tree == [menus |-> menus, props |-> props, rev |-> rev, implied |-> implied,
         dir |-> dir, values |-> values]

\* What the entries in a menu, a choice or an `if' inherit.
ParentDep(st, n) ==
    LET m == st.menus[n]
    IN IF IsChoice(m.sym) THEN SymE(m.sym)
       ELSE IF m.prompt # 0 THEN st.props[m.prompt].cond ELSE m.dep

\* A condition below what it inherits, rewritten and simplified.
Inherit(above, e) == EliminateDups(AllocAnd(above, Transform(RewriteM(e, Modules))))

\* A condition of a symbol that is no tristate asks for `n' or not.
ForType(sym, e) == IF sym # NoSym /\ Type(sym) # "tristate" THEN TransBool(e) ELSE e

\* Mutant: the condition of a property replaces what the entry depends on.
PropertyCondAlone(st, n, i) == ForType(st.menus[n].sym, Inherit(Null, st.props[i].cond))

PropertyCond(st, n, i) ==
    ForType(st.menus[n].sym, Inherit(st.menus[n].dep, st.props[i].cond))

\* A select or an imply becomes a reverse dependency of its symbol.
Reverse(st, kind, old, i) ==
    LET p == st.props[i]
        s == p.arg.s
    IN IF p.kind = kind
       THEN [old EXCEPT ![s] = AllocOr(@, AllocAnd(SymE(p.sym), p.cond))] ELSE old

ReverseBoth(st, i) ==
    [st EXCEPT !.rev = Reverse(st, "select", @, i), !.implied = Reverse(st, "imply", @, i)]

\* The properties that entry n has given its symbol, in order, from the i-th.
RECURSIVE PropagateProps(_, _, _)
PropagateProps(st, n, i) ==
    IF i > Len(st.props) THEN st
    ELSE IF st.props[i].menu # n THEN PropagateProps(st, n, i + 1)
    ELSE LET a == [st EXCEPT !.props[i].cond = PropertyCond(st, n, i)]
         IN PropagateProps(ReverseBoth(a, i), n, i + 1)

\* The first loop of menu_finalize: every child inherits from its parent.
RECURSIVE Propagate(_, _, _)
Propagate(st, above, n) ==
    IF n = Nil THEN st
    ELSE LET a == [st EXCEPT !.menus[n].dep = Inherit(above, @)]
         IN Propagate(PropagateProps(a, n, 1), above, st.menus[n].next)

\* `visible when not n', as the submenu test compares it.
Shown(e) == EliminateDups(Transform(TransCompare(e, "!=", "n")))

VisibleExpr(st, n) ==
    IF st.menus[n].prompt # 0 THEN st.props[st.menus[n].prompt].cond ELSE Null

\* Mutant: whatever mentions the symbol goes into its submenu.
BelongsBelowAny(st, n, m) ==
    LET dep == IF st.menus[m].prompt # 0 THEN VisibleExpr(st, m) ELSE st.menus[m].dep
    IN ContainsSymbol(dep, st.menus[n].sym)

\* Does entry m go into the automatic submenu of entry n?  It must depend on
\* the symbol, or mention it and ask for everything the symbol's prompt does.
BelongsBelow(st, n, m) ==
    LET sym == st.menus[n].sym
        dep == IF st.menus[m].prompt # 0 THEN VisibleExpr(st, m) ELSE st.menus[m].dep
        rest == EliminateEq(Shown(dep), Shown(VisibleExpr(st, n)))[2]
    IN ContainsSymbol(dep, sym) /\ (DependsSymbol(dep, sym) \/ rest \in {Null, Y})

\* The values of a choice: `depends on the choice being y' for those of a
\* tristate choice that are bool, and the list of the choice.
NewValue(st, n, m) ==
    LET c == st.menus[n].sym
        s == st.menus[m].sym
        only == Comp("=", c, "y")
        base == IF Type(c) = "tristate" /\ Type(s) # "tristate"
                THEN [st EXCEPT !.menus[m].dep = AllocAnd(only, @),
                                !.props = [i \in DOMAIN @ |->
                                             IF @[i].menu # m THEN @[i]
                                             ELSE [@[i] EXCEPT !.cond = AllocAnd(only, @)]]]
                ELSE st
    IN [base EXCEPT !.values = Append(@, s)]

IsValueNow(st, s) == \E i \in DOMAIN st.values : st.values[i] = s

\* Every entry of the list that starts at m, now with parent n.
RECURSIVE Adopt(_, _, _), EndOf(_, _)
Adopt(st, m, n) ==
    IF m = Nil THEN st ELSE Adopt([st EXCEPT !.menus[m].parent = n], st.menus[m].next, n)
EndOf(st, m) == IF st.menus[m].next = Nil THEN m ELSE EndOf(st, st.menus[m].next)

\* Mutant: what follows the `if' is lost.
FlattenLose(st, n, m) ==
    LET first == st.menus[m].list
    IN [Adopt(st, first, n) EXCEPT !.menus[m].next = first, !.menus[m].list = Nil]

\* An `if' and an entry without a prompt give their children to the list
\* they are in themselves.
Flatten(st, n, m) ==
    LET first == st.menus[m].list
    IN [Adopt(st, first, n) EXCEPT !.menus[EndOf(st, first)].next = st.menus[m].next,
                                   !.menus[m].next = first,
                                   !.menus[m].list = Nil]

Valued(st, n, m) ==
    LET s == st.menus[m].sym
    IN IF IsChoice(st.menus[n].sym) /\ s # NoSym /\ ~ IsValueNow(st, s)
       THEN NewValue(st, n, m) ELSE st

Flattened(st, n, m) ==
    IF st.menus[m].list # Nil /\ st.menus[m].prompt = 0 THEN Flatten(st, n, m) ELSE st

\* The second loop of menu_finalize, from child m on.
RECURSIVE Settle(_, _, _)
Settle(st, n, m) ==
    IF m = Nil THEN st
    ELSE LET a == Flattened(Valued(st, n, m), n, m) IN Settle(a, n, a.menus[m].next)

\* A choice that is not optional selects itself to `m' while it can be seen.
SelectItself(st, n) ==
    LET m == st.menus[n]
    IN IF IsChoice(m.sym) /\ ~ OptionalChoice /\ m.prompt # 0
       THEN [st EXCEPT !.rev[m.sym] = AllocOr(@, AllocAnd(VisibleExpr(st, n), SymE("m")))]
       ELSE st

\* What menu_finalize does once the children are finalized.
SettleAll(st, n) == SelectItself(Settle(st, n, st.menus[n].list), n)

RECURSIVE Finalize(_, _), FinalizeList(_, _), Submenu(_, _, _, _)

\* The children of a menu, each finalized before the next one is looked at.
FinalizeList(st, m) ==
    IF m = Nil THEN st
    ELSE LET a == Finalize(st, m) IN FinalizeList(a, a.menus[m].next)

\* Automatic submenus: entry m and what follows it move below entry n.
Submenu(st, n, m, last) ==
    IF m # Nil /\ BelongsBelow(st, n, m)
    THEN LET a == Finalize(st, m)
         IN Submenu([a EXCEPT !.menus[m].parent = n], n, a.menus[m].next, m)
    ELSE IF last = Nil THEN st
    ELSE [st EXCEPT !.menus[n].list = st.menus[n].next,
                    !.menus[n].next = st.menus[last].next,
                    !.menus[last].next = Nil]

\* menu_finalize
Finalize(st, n) ==
    LET m == st.menus[n]
        a == IF m.list # Nil
             THEN FinalizeList(Propagate(st, ParentDep(st, n), m.list), m.list)
             ELSE IF m.sym # NoSym
             THEN [Submenu(st, n, m.next, Nil) EXCEPT !.dir[m.sym] = AllocOr(@, m.dep)]
             ELSE st
    IN SettleAll(a, n)

\* conf_parse, after the parser.
FinalizeAll ==
    /\ phase = "parse" /\ current = Root
    /\ \E st \in {Finalize(Tree, Root)} :
          /\ menus' = st.menus /\ props' = st.props
          /\ rev' = st.rev /\ implied' = st.implied /\ dir' = st.dir
          /\ values' = st.values
    /\ written' = [menus |-> menus, props |-> props]
    /\ phase' = "check"
    /\ UNCHANGED <<current, hole, checkVars, lang>>
-----------------------------------------------------------------------------
(* The check for recursive dependencies (symbol.c).  A search is a record:   *)
(* the symbol it returns, the symbols that carry SYMBOL_CHECK and            *)
(* SYMBOL_CHECKED, and whether it has printed anything.                      *)

\* Mutant: what selects a symbol is not looked at.
ReadsNoRev(s) ==
    LET Of(p) == IF p.kind = "select" THEN <<>>
                 ELSE IF p.kind = "default" /\ ~ IsChoice(s) THEN <<p.cond, p.arg>>
                 ELSE <<p.cond>>
        f[i \in 0 .. Len(props)] ==
            IF i = 0 THEN <<>>
            ELSE IF props[i].sym = s THEN f[i - 1] \o Of(props[i]) ELSE f[i - 1]
    IN f[Len(props)]

\* The expressions sym_check_sym_deps follows, in order: what selects the
\* symbol, the conditions of its properties, and its defaults.
Reads(s) ==
    LET Of(p) == IF p.kind = "select" THEN <<>>
                 ELSE IF p.kind = "default" /\ ~ IsChoice(s) THEN <<p.cond, p.arg>>
                 ELSE <<p.cond>>
        f[i \in 0 .. Len(props)] ==
            IF i = 0 THEN <<rev[s]>>
            ELSE IF props[i].sym = s THEN f[i - 1] \o Of(props[i]) ELSE f[i - 1]
    IN f[Len(props)]

IsValue(s) == \E i \in DOMAIN values : values[i] = s

ValueSet == {values[i] : i \in DOMAIN values}

RECURSIVE CheckDeps(_, _), CheckExpr(_, _), CheckReads(_, _), CheckValues(_, _)

\* sym_check_expr_deps
CheckExpr(e, c) ==
    CASE c.result # NoSym \/ e.op = "none" -> c
      [] OTHER ->
           IF e.op \in Junction THEN CheckExpr(e.r, CheckExpr(e.l, c))
           ELSE IF e.op = "not" THEN CheckExpr(e.l, c)
           ELSE IF e.op = "sym" THEN CheckDeps(e.s, c)
           ELSE LET l == CheckDeps(e.s, c) IN IF l.result # NoSym THEN l ELSE CheckDeps(e.t, l)

\* sym_check_sym_deps, over the expressions it follows.
CheckReads(q, c) == IF q = <<>> THEN c ELSE CheckReads(Tail(q), CheckExpr(Head(q), c))

CheckValues(q, c) ==
    IF q = <<>> \/ c.result # NoSym THEN c
    ELSE CheckValues(Tail(q), CheckReads(Reads(Head(q)), c))

\* sym_check_choice_deps: the values count as visited while the choice is.
CheckChoice(s, c) ==
    LET a == CheckReads(Reads(s), [c EXCEPT !.mark = @ \cup ValueSet \cup {s},
                                            !.checked = @ \cup ValueSet \cup {s}])
        b == CheckValues(values, [a EXCEPT !.mark = @ \ {s}])
    IN [b EXCEPT !.mark = @ \ ValueSet, !.result = IF @ \in ValueSet THEN s ELSE @]

\* sym_check_deps: a symbol that is met again while it is being looked at
\* depends on itself.  A literal has nothing to follow.
CheckDeps(s, c) ==
    IF s \in c.mark THEN [c EXCEPT !.result = s, !.printed = TRUE]
    ELSE IF s \in c.checked \/ s \notin Symbols THEN c
    ELSE LET a == IF IsValue(s) THEN CheckDeps(ChoiceSym, c)
                  ELSE IF IsChoice(s) THEN CheckChoice(s, c)
                  ELSE LET b == CheckReads(Reads(s), [c EXCEPT !.mark = @ \cup {s},
                                                               !.checked = @ \cup {s}])
                       IN [b EXCEPT !.mark = @ \ {s}]
         IN [a EXCEPT !.result = IF @ = s THEN NoSym ELSE @]

\* conf_parse asks for every symbol, in the order of their hash.
Check(s) ==
    /\ phase = "check"
    /\ s \notin checked
    /\ \E c \in {CheckDeps(s, [result |-> NoSym, mark |-> {}, checked |-> checked,
                               printed |-> FALSE])} :
          /\ checked' = c.checked
          /\ recursive' = (recursive \/ c.printed)
          /\ yynerrs' = (yynerrs \/ c.result # NoSym)
    /\ UNCHANGED <<treeVars, symVars, phase, lang, written>>

FinishCheck ==
    /\ phase = "check"
    /\ Defined \subseteq checked
    /\ phase' = "done"
    /\ UNCHANGED <<treeVars, symVars, checkVars, lang, written>>
-----------------------------------------------------------------------------
Init ==
    /\ menus = <<[Entry(NoSym, "menu", Nil) EXCEPT !.prompt = 1]>>
    /\ props = <<[kind |-> "menu", sym |-> NoSym, menu |-> Root, arg |-> Null, cond |-> Null]>>
    /\ current = Root
    /\ hole = <<Root, "list">>
    /\ rev = [s \in Symbols |-> Null]
    /\ implied = [s \in Symbols |-> Null]
    /\ dir = [s \in Symbols |-> Null]
    /\ values = <<>>
    /\ phase = "parse"
    /\ lang \in Languages
    /\ checked = {}
    /\ recursive = FALSE
    /\ yynerrs = FALSE
    /\ written = <<>>

Parse1 == \/ ConfigAny \/ Comment \/ OpenChoice \/ Close
          \/ \E e \in lang.conds : OpenIf(e) \/ DependsOn(e)
          \/ \E e \in lang.visible : OpenMenu(e)
          \/ \E kind \in {"select", "imply", "default"}, e \in lang.args : SymbolOption(kind, e)

Next == Parse1 \/ FinalizeAll \/ (\E s \in Defined : Check(s)) \/ FinishCheck

Spec == Init /\ [][Next]_vars
-----------------------------------------------------------------------------
(* What the file says, and what the tree and the symbols say.                *)

\* Every value the symbols may have: `m' for tristates and choices of them.
Valuations == {v \in [Symbols -> Tri] : \A s \in Symbols : Type(s) = "bool" => v[s] # mod}

Final == phase = "check" /\ checked = {}

\* The written conditions an entry inherits, and its own.
RECURSIVE Inherits(_, _)
Inherits(n, v) ==
    LET m == written.menus[n]
    IN IF n = Root THEN yes
       ELSE And3(Eval(m.dep, v), IF IsChoice(written.menus[m.parent].sym)
                                 THEN v[ChoiceSym] ELSE Inherits(m.parent, v))

Agree(s, a, b) == IF s # NoSym /\ Type(s) # "tristate" THEN (a = no) = (b = no) ELSE a = b

Active(kind, s, v) ==
    {i \in DOMAIN written.props :
        LET p == written.props[i]
        IN p.kind = kind /\ p.arg.s = s /\ v[p.sym] # no /\ Inherits(p.menu, v) # no}

\* Nothing that is written gets lost or comes from somewhere else: a prompt,
\* a default, a select can take effect when what it is written under allows
\* it, and a symbol is selected or implied when some entry that is set says so.
ConditionsKept ==
    Final => \A v \in Valuations :
        /\ \A i \in DOMAIN props :
             LET p == props[i]
                 q == written.props[i]
             IN p.menu # Root =>
                  Agree(p.sym, Eval(p.cond, v), And3(Eval(q.cond, v), Inherits(q.menu, v)))
        /\ \A s \in Symbols \ {ChoiceSym} :
             /\ (rev[s] # Null /\ Eval(rev[s], v) # no) = (Active("select", s, v) # {})
             /\ (implied[s] # Null /\ Eval(implied[s], v) # no) = (Active("imply", s, v) # {})

\* The entries of a list and what is below them, top down.
RECURSIVE Walk(_)
Walk(n) ==
    IF n = Nil THEN <<>>
    ELSE <<n>> \o Walk(menus[n].list) \o Walk(menus[n].next)

\* However entries move between lists, the menu shows every one of them once,
\* in the order of the file, and a child knows its parent.
InOrder ==
    Final => /\ Walk(Root) = [i \in DOMAIN menus |-> i]
             /\ \A n \in DOMAIN menus :
                  LET Siblings[m \in DOMAIN menus] ==
                          IF menus[m].next = Nil THEN {m} ELSE {m} \cup Siblings[menus[m].next]
                  IN menus[n].list # Nil =>
                       \A m \in Siblings[menus[n].list] : menus[m].parent = n

\* menu_is_visible
RECURSIVE IsVisible(_, _)
IsVisible(n, v) ==
    LET m == menus[n]
        Child[c \in DOMAIN menus] ==
            IsVisible(c, v) \/ (menus[c].next # Nil /\ Child[menus[c].next])
    IN /\ m.prompt # 0
       /\ m.vis # Null => Eval(m.vis, v) # no
       /\ \/ Eval(props[m.prompt].cond, v) # no
          \/ m.sym # NoSym /\ v[m.sym] # no /\ m.list # Nil /\ Child[m.list]

RECURSIVE Above(_)
Above(n) == IF n = Root THEN {} ELSE {menus[n].parent} \cup Above(menus[n].parent)

\* No symbol is set, by a select, against its dependencies (the engine warns
\* of those), and a choice that cannot be seen is off.
Met(v) ==
    \A n \in DOMAIN menus :
        LET s == menus[n].sym
        IN s # NoSym /\ v[s] # no =>
             Eval(IF IsChoice(s) THEN VisibleExpr(Tree, n) ELSE dir[s], v) # no

\* An option that can be set can be reached: while its prompt may be seen, so
\* may every entry above it, whichever submenus were made on the way.  Of a
\* symbol with two entries either may be the one that a submenu is made of.
Reachable ==
    Final /\ lang.twice = {} => \A v \in Valuations : \A n \in DOMAIN menus :
        /\ Met(v) /\ menus[n].sym # NoSym /\ menus[n].prompt # 0
        /\ Eval(VisibleExpr(Tree, n), v) # no
        => \A m \in Above(n) : IsVisible(m, v)

\* The symbols that the calculation of s reads: what selects it, what it
\* depends on, its prompts and defaults.  (What implies it is read too, but
\* the check leaves that out.)
ReadBy(s) ==
    LET own == {i \in DOMAIN props : props[i].sym = s /\ props[i].kind \in {"prompt", "default"}}
    IN SymsOf(rev[s]) \cup SymsOf(dir[s])
         \cup UNION {SymsOf(props[i].cond) \cup SymsOf(props[i].arg) : i \in own}

\* A choice and its values are calculated together.
Group(s) == IF IsValue(s) THEN ChoiceSym ELSE s

Needs ==
    LET reads == {e \in Symbols \X Symbols :
                    e[2] \in ReadBy(e[1]) /\ ~ (IsValue(e[1]) /\ IsChoice(e[2]))}
    IN {<<Group(e[1]), Group(e[2])>> : e \in reads}

RECURSIVE Closure(_)
Closure(r) ==
    LET more == r \cup {e \in Symbols \X Symbols :
                          \E m \in Symbols : <<e[1], m>> \in r /\ <<m, e[2]>> \in r}
    IN IF more = r THEN r ELSE Closure(more)

\* "recursive dependency detected!" is printed exactly when some symbol needs
\* itself, in whatever order the symbols are looked at.
RecursionFound ==
    phase = "done" => (recursive = \E s \in Symbols : <<s, s>> \in Closure(Needs))
=============================================================================
