-------------------------------- MODULE Conf --------------------------------
(* The line-oriented front end (package/config/conf.c) on top of the symbol  *)
(* engine, with what it calls of confdata.c: conf_set_all_new_symbols and    *)
(* conf_write_defconfig.                                                     *)
(*                                                                           *)
(* A process is a run of conf in one of its modes; .config (`disk') and the  *)
(* minimal configuration outlive it.  conf() and check_conf() recurse over   *)
(* the menu tree with the user's answers in between: `todo' holds the calls  *)
(* that are still to be made, innermost first.  A call is made when what it  *)
(* reads is calculated; in what order symbols are calculated makes no        *)
(* difference (UpToDate of Symbol), so they are taken in some fixed order.   *)
EXTENDS Symbol, FiniteSets

CONSTANTS
    Entries,     \* the entries of the menu tree
    Root,        \* &rootmenu
    Kids(_),     \* the children of an entry, in order
    SymOf(_),    \* its symbol, NoSym when it has none
    Kind(_),     \* "menu", "comment", "prompt", or "none" without a prompt
    Shown(_, _), \* do its conditions other than its symbol's prompt hold?
    HashOrder,   \* the choices in the order of for_all_symbols
    AllNoY,      \* the symbols marked `option allnoconfig_y'
    Modes,       \* what conf may be started as
    Seeds        \* the files KCONFIG_ALLCONFIG may name

VARIABLES
    mode,        \* input_mode
    todo,        \* the calls of main that remain
    conf_cnt,    \* has check_conf restarted the questions (conf_cnt # 0)?
    rootEntry,   \* the menu whose options are being asked
    need,        \* the choices that carry SYMBOL_NEED_SET_CHOICE_VALUES
    has_changed, \* what conf_set_all_new_symbols returns
    minimal,     \* the file of savedefconfig and defconfig
    given,       \* history: the file the process has read
    expected     \* history: what .config stood for when the minimal file was saved

confVars == <<mode, todo, conf_cnt, rootEntry, need, has_changed, minimal>>
ghosts   == <<given, expected>>
allVars  == <<vars, confVars, ghosts>>

NoFile == [s \in Named |-> Unset]

Call(op, m) == [op |-> op, m |-> m, new |-> FALSE]

Below(op, m) == [i \in DOMAIN Kids(m) |-> Call(op, Kids(m)[i])]

Doing(op) == todo # <<>> /\ todo[1].op = op

Rest == Tail(todo)

Parent(m) == CHOOSE p \in Entries : \E i \in DOMAIN Kids(p) : Kids(p)[i] = m

\* The entries are a tree below rootmenu; what a choice lists is its values, or
\* has no symbol.
ASSUME TreeAssumption ==
    /\ Root \in Entries
    /\ \A m \in Entries : Kids(m) \in Seq(Entries) /\ SymOf(m) \in Sym \cup {NoSym}
    /\ \A m \in Entries \ {Root} : \E p \in Entries : \E i \in DOMAIN Kids(p) : Kids(p)[i] = m
    /\ \A S \in (SUBSET Entries) \ {{}} :
        /\ \E m \in S : m = Root \/ Parent(m) \notin S
        /\ \E m \in S : \A i \in DOMAIN Kids(m) : Kids(m)[i] \notin S
    /\ \A m \in Entries : SymOf(m) \in Choice =>
        \A i \in DOMAIN Kids(m) : SymOf(Kids(m)[i]) \in Values(SymOf(m)) \cup {NoSym}
    /\ HashOrder \in Seq(Choice) /\ Seeds \subseteq ConfigFile

\* menu_get_parent_menu
ParentMenu[m \in Entries] ==
    IF m = Root \/ Kind(m) = "menu" THEN m ELSE ParentMenu[Parent(m)]
-----------------------------------------------------------------------------
(* menu_is_visible also marks a symbol that can only be seen through its     *)
(* children as set by the user.                                              *)

OwnPromptVisible(m) == SymOf(m) = NoSym \/ visible[SymOf(m)] # no

Visible[m \in Entries] ==
    /\ Kind(m) # "none" /\ Shown(m, curr)
    /\ \/ OwnPromptVisible(m)
       \/ /\ SymOf(m) \notin Ints /\ curr[SymOf(m)] # no  \* an int's curr.tri is no
          /\ \E i \in DOMAIN Kids(m) : Visible[Kids(m)[i]]

Touched[m \in Entries] ==
    IF ~ Visible[m] \/ OwnPromptVisible(m) THEN {}
    ELSE LET i == CHOOSE i \in DOMAIN Kids(m) :
                     Visible[Kids(m)[i]] /\ \A j \in 1 .. (i - 1) : ~ Visible[Kids(m)[j]]
         IN {SymOf(m)} \cup Touched[Kids(m)[i]]

TouchedBelow(m) == UNION {Touched[Kids(m)[i]] : i \in DOMAIN Kids(m)}

\* sym_is_changable
Changable(s) == visible[s] > revDep[s]
-----------------------------------------------------------------------------
(* What a call waits for.  The questions read the whole menu; the loop over  *)
(* the choices in conf_set_all_new_symbols calculates one of them.           *)

Wanted ==
    IF pc \in {"read", "write"} THEN Sym
    ELSE IF Doing("choice") THEN {todo[1].m} \ user
    ELSE IF \E op \in {"check", "conf", "pick", "minimal"} : Doing(op) THEN Sym
    ELSE {}

\* A symbol and everything that calculating it calculates.
Under[s \in Sym] == {s} \cup UNION {Under[t] : t \in Operands(s)}

\* A calculated choice that still needs its values set: set_all_choice_values.
Unsettled == need \cap valid

SetAllChoiceValues(c) ==
    /\ def' = [s \in Sym |-> IF s \in Values(c) \ user THEN no ELSE def[s]]
    /\ user' = user \cup {c}
    /\ valid' = valid \ {c}
    /\ need' = need \ {c}
    /\ UNCHANGED <<userPick, cacheVars, fileVars, histVars, write, pc,
                   mode, todo, conf_cnt, rootEntry, has_changed, minimal, ghosts>>

Calculate ==
    /\ Unsettled = {}
    /\ LET below == UNION {Under[t] : t \in Wanted}
           ready == {s \in below \ valid : Operands(s) \subseteq valid}
       IN /\ ready # {}
          /\ LET s == CHOOSE s \in ready : TRUE IN CalcSymbol(s) \/ CalcChoice(s)
    /\ UNCHANGED <<confVars, ghosts>>

\* A call is made.
Ready(op) == /\ Doing(op) /\ pc = "edit" /\ Unsettled = {} /\ Wanted \subseteq valid
-----------------------------------------------------------------------------
(* main: a process starts, reads a file, and has its calls before it.        *)

\* The modes that start from no file but what KCONFIG_ALLCONFIG may name.
AllModes == {"allnoconfig", "allyesconfig", "allmodconfig", "alldefconfig", "randconfig"}

\* syncconfig, without and with KCONFIG_NOSILENTUPDATE in the environment.
SyncModes == {"syncconfig", "nosilentupdate"}

\* enum input_mode; "nosilentupdate" is syncconfig with that variable set.
InputModes == AllModes \cup SyncModes \cup
    {"oldaskconfig", "oldconfig", "listnewconfig", "olddefconfig", "savedefconfig", "defconfig"}

ASSUME ModeAssumption == Modes \subseteq InputModes

\* The calls of a mode after its file was read.
Calls(m) ==
    CASE m = "oldaskconfig" -> <<Call("conf", Root), Call("loop", Root), Call("write", Root)>>
      [] m \in {"oldconfig", "syncconfig"} -> <<Call("loop", Root), Call("write", Root)>>
      [] m = "nosilentupdate" -> <<Call("explicit", Root), Call("loop", Root), Call("write", Root)>>
      [] m = "listnewconfig" -> <<Call("loop", Root)>>
      [] m = "olddefconfig" -> <<Call("write", Root)>>
      [] m = "savedefconfig" -> <<Call("clear", Root), Call("minimal", Root)>>
      [] OTHER -> <<Call("new", Root), Call("write", Root)>>

\* conf_read_simple(f); .config is left alone.
ReadSimple(f) ==
    /\ def' = DefOf(f) /\ user' = UserOf(f) /\ userPick' = PickOf(f)
    /\ changed' = Warned(f)
    /\ given' = f

\* No file is read: conf_parse has left every symbol without a value.
ReadNothing ==
    /\ def' = DefOf(NoFile) /\ user' = {} /\ userPick' = PickOf(NoFile)
    /\ changed' = FALSE
    /\ given' = NoFile

\* (Bounds: a minimal file is followed into the next process only, and the
\* modes that do not read .config start beside an empty one.)
Start(m) ==
    /\ m \in AllModes => disk = NoFile
    /\ todo = <<>> /\ pc \in {"start", "edit"}
    /\ mode' = m
    /\ todo' = Calls(m)
    /\ IF m \in AllModes
       THEN (ReadNothing \/ \E f \in Seeds : ReadSimple(f)) /\ pc' = "edit"
       ELSE ReadSimple(IF m = "defconfig" THEN minimal ELSE disk) /\ pc' = "read"
    /\ valid' = {} /\ need' = {} /\ conf_cnt' = FALSE /\ rootEntry' = Root
    /\ has_changed' = FALSE
    /\ asked' = <<>> /\ saved' = IF m \in AllModes \cup {"defconfig"} THEN <<>> ELSE saved
    /\ IF m = "defconfig" THEN UNCHANGED <<minimal, expected>>
       ELSE minimal' = NoFile /\ expected' = <<>>
    /\ UNCHANGED <<cacheVars, write, disk>>

\* conf_read, once everything is calculated.
EndRead == FinishRead /\ UNCHANGED <<confVars, ghosts>>

\* Mutant: what changed while .config was read is not looked at.
ExplicitNever ==
    /\ Ready("explicit")
    /\ todo' = Rest
    /\ UNCHANGED <<vars, mode, conf_cnt, rootEntry, need, has_changed, minimal, ghosts>>

\* KCONFIG_NOSILENTUPDATE: "The configuration requires explicit update".
Explicit ==
    /\ Ready("explicit")
    /\ todo' = IF changed THEN <<>> ELSE Rest
    /\ UNCHANGED <<vars, mode, conf_cnt, rootEntry, need, has_changed, minimal, ghosts>>

\* Mutant: the questions are gone through once.
LoopOnce ==
    /\ Ready("loop")
    /\ mode' = IF mode = "oldaskconfig" THEN "oldconfig" ELSE mode
    /\ conf_cnt' = FALSE
    /\ todo' = <<Call("check", Root)>> \o Rest
    /\ UNCHANGED <<vars, rootEntry, need, has_changed, minimal, ghosts>>

\* do { conf_cnt = 0; check_conf(&rootmenu); } while (conf_cnt);
Loop ==
    /\ Ready("loop")
    /\ mode' = IF mode = "oldaskconfig" THEN "oldconfig" ELSE mode
    /\ conf_cnt' = FALSE
    /\ todo' = <<Call("check", Root), Call("while", Root)>> \o Rest
    /\ UNCHANGED <<vars, rootEntry, need, has_changed, minimal, ghosts>>

While ==
    /\ Ready("while")
    /\ todo' = IF conf_cnt THEN <<Call("loop", Root)>> \o Rest ELSE Rest
    /\ UNCHANGED <<vars, mode, conf_cnt, rootEntry, need, has_changed, minimal, ghosts>>

\* conf_write, of .config; syncconfig writes only what has changed.
BeginWrite ==
    /\ Ready("write")
    /\ IF mode \in SyncModes /\ ~ changed
       THEN todo' = Rest /\ UNCHANGED vars
       ELSE Write /\ UNCHANGED todo
    /\ UNCHANGED <<mode, conf_cnt, rootEntry, need, has_changed, minimal, ghosts>>

EndWrite ==
    /\ Unsettled = {} /\ FinishWrite
    /\ todo' = Rest
    /\ UNCHANGED <<mode, conf_cnt, rootEntry, need, has_changed, minimal, ghosts>>
-----------------------------------------------------------------------------
(* The questions: check_conf, conf, conf_sym, conf_string, conf_choice.      *)

Asking == <<mode, need, has_changed, minimal, ghosts>>

\* Mutant: what cannot be changed is asked for, too.
IsNewAny(m, u) == SymOf(m) \notin u \cup {NoSym}

\* Does check_conf have something to ask at m?
IsNew(m, u) ==
    LET s == SymOf(m)
    IN /\ s \notin u \cup {NoSym}
       /\ Changable(s) \/ (s \in Choice /\ curr[s] = yes)

\* check_conf: a new option that can be changed restarts the questions of its
\* menu; listnewconfig only prints it.
CheckConf ==
    /\ Ready("check")
    /\ LET m == todo[1].m
           u == user \cup Touched[m]
       IN /\ user' = u
          /\ IF ~ Visible[m] THEN todo' = Rest /\ UNCHANGED <<conf_cnt, rootEntry>>
             ELSE IF IsNew(m, u) /\ mode # "listnewconfig"
             THEN /\ conf_cnt' = TRUE
                  /\ rootEntry' = ParentMenu[m]
                  /\ todo' = <<Call("conf", ParentMenu[m])>> \o Below("check", m) \o Rest
             ELSE todo' = Below("check", m) \o Rest /\ UNCHANGED <<conf_cnt, rootEntry>>
    /\ UNCHANGED <<def, userPick, cacheVars, fileVars, histVars, valid, write, pc, Asking>>

\* A menu that is not being asked is only looked through for new options.
OtherMenu(m) == Kind(m) = "menu" /\ mode # "oldaskconfig" /\ rootEntry # m

\* The entries for whose symbol conf() would ask the user (conf_askvalue).
Asked ==
    {m \in Entries : /\ Visible[m] /\ ~ OtherMenu(m) /\ SymOf(m) # NoSym
                     /\ Changable(SymOf(m))
                     /\ mode = "oldaskconfig" \/ SymOf(m) \notin user}

\* What conf() goes on with after the symbol of m.
After(m) ==
    IF SymOf(m) \in Choice
    THEN <<[Call("pick", m) EXCEPT !.new = SymOf(m) \notin user]>> \o Rest
    ELSE Below("conf", m) \o Rest

\* conf() at an entry that is not asked for.
Descend ==
    /\ Ready("conf") /\ todo[1].m \notin Asked
    /\ LET m == todo[1].m
       IN /\ user' = user \cup Touched[m]
                      \cup (IF Visible[m] /\ SymOf(m) \in Choice THEN TouchedBelow(m) ELSE {})
          /\ todo' = IF ~ Visible[m] THEN Rest
                     ELSE IF OtherMenu(m) THEN <<Call("check", m)>> \o Rest
                     ELSE After(m)
    /\ UNCHANGED <<def, userPick, cacheVars, fileVars, histVars, valid, write, pc, Asking,
                   conf_cnt, rootEntry>>

\* conf_sym and conf_string: an answer that sym_set_*_value accepts; after any
\* other the question is put again.
AskSymbol ==
    /\ Ready("conf") /\ todo[1].m \in Asked
    /\ LET s == SymOf(todo[1].m)
       IN \/ \E n \in Val : SetString(s, n)
          \/ s \notin Ints /\ \E t \in Tri : Accepts(s, t) /\ PutTristate(s, t)
    /\ todo' = After(todo[1].m)
    /\ UNCHANGED <<Asking, conf_cnt, rootEntry>>

\* conf_choice for a choice that is `y': one of its visible values is picked,
\* by the user when it is new, and only what is below that value is asked.
Pick ==
    /\ Ready("pick")
    /\ LET m == todo[1].m
           c == SymOf(m)
           shown == {k \in {Kids(m)[i] : i \in DOMAIN Kids(m)} : SymOf(k) # NoSym /\ Visible[k]}
           free == Cardinality(shown) > 1 /\ (mode = "oldaskconfig" \/ todo[1].new)
       IN IF curr[c] # yes
          THEN /\ todo' = IF curr[c] = mod THEN Below("conf", m) \o Rest ELSE Rest
               /\ UNCHANGED vars
          ELSE \E k \in shown :
                  LET s == SymOf(k)
                  IN /\ free \/ Cardinality(shown) = 1 \/ s = pick[c]
                     /\ IF Accepts(s, yes) THEN PutTristate(s, yes) ELSE UNCHANGED vars
                     /\ todo' = Below("conf", k) \o Rest
    /\ UNCHANGED <<Asking, conf_cnt, rootEntry>>
-----------------------------------------------------------------------------
(* conf_set_all_new_symbols                                                  *)

\* Mutant: what the seed file says is answered again.
NewAny == {s \in Sym \ Ints : s \notin valid}

\* The symbols that have neither a value nor a calculated one.
New == {s \in Sym \ Ints : s \notin user \cup valid}

NewValue(s) ==
    CASE mode = "allyesconfig" -> {yes}
      [] mode = "allmodconfig" -> {mod}
      [] mode = "allnoconfig" -> {IF s \in AllNoY THEN yes ELSE no}
      [] mode = "randconfig" -> IF s \in Tristate THEN Tri ELSE {no, yes}
      [] OTHER -> {def[s]}

\* Its loop over every symbol, and sym_clear_all_valid.
SetNew ==
    /\ Ready("new")
    /\ \E f \in [New -> Tri] :
          /\ \A s \in New : f[s] \in NewValue(s)
          /\ def' = [s \in Sym |-> IF s \in New THEN f[s] ELSE def[s]]
    /\ user' = user \cup (CASE mode \in {"allyesconfig", "allmodconfig", "allnoconfig"} -> New
                           [] mode = "randconfig" -> New \ Choice
                           [] OTHER -> {})
    /\ need' = IF mode = "randconfig" THEN need ELSE need \cup (Choice \ user')
    /\ has_changed' = (New # {})
    /\ ClearAllValid
    /\ todo' = [i \in DOMAIN HashOrder |-> Call("choice", HashOrder[i])]
                 \o <<Call("again", Root)>> \o Rest
    /\ UNCHANGED <<userPick, cacheVars, disk, histVars, write, pc, mode, conf_cnt, rootEntry,
                   minimal, ghosts>>

\* randomize_choice_values
Randomize(c) ==
    \E x \in Values(c) :
        /\ def' = [s \in Sym |-> IF s \in Values(c) THEN IF s = x THEN yes ELSE no ELSE def[s]]
        /\ userPick' = [userPick EXCEPT ![c] = x]
        /\ user' = user \cup Values(c) \cup {c}
        /\ valid' = valid \ (Values(c) \cup {c})

\* The loop over the choices that have no value yet.
SetChoice ==
    /\ Ready("choice")
    /\ todo' = Rest
    /\ LET c == todo[1].m
       IN IF c \in user \/ mode # "randconfig"
          THEN UNCHANGED <<def, user, userPick, valid, has_changed>>
          ELSE IF curr[c] # yes
          THEN has_changed' = FALSE /\ UNCHANGED <<def, user, userPick, valid>>
          ELSE Randomize(c) /\ has_changed' = TRUE
    /\ UNCHANGED <<cacheVars, fileVars, histVars, write, pc, mode, conf_cnt, rootEntry, need,
                   minimal, ghosts>>

\* while (conf_set_all_new_symbols(def_random)) ;
Again ==
    /\ Ready("again")
    /\ todo' = IF mode = "randconfig" /\ has_changed THEN <<Call("new", Root)>> \o Rest ELSE Rest
    /\ UNCHANGED <<vars, mode, conf_cnt, rootEntry, need, has_changed, minimal, ghosts>>
-----------------------------------------------------------------------------
(* conf_write_defconfig                                                      *)

\* sym_get_string_default: the value of s if the user had never set it.
StringDefault(s) ==
    IF s \in Ints THEN Attr(s, curr).dflt
    ELSE LET val == Or3(Attr(s, curr).dflt, revDep[s])
             a == IF ~ IsChoiceValue(s) /\ ModulesVal(curr) = no THEN Promote(val, TRUE) ELSE val
         IN Or3(Promote(a, s \notin Tristate), implied[s])

\* sym_choice_default
ChoiceDefault(c) == FirstVisible(Attr(c, curr).order \o Members(c), visible)

\* Mutant: the default of an optional choice is left out, too.
RedundantOptional(s) ==
    \/ s \notin write \/ ~ Changable(s)
    \/ curr[s] = StringDefault(s)
    \/ IsChoiceValue(s) /\ s = ChoiceDefault(ChoiceOf(s)) /\ s \notin Tristate /\ curr[s] = yes

\* A symbol the minimal file leaves out.
Redundant(s) ==
    \/ s \notin write \/ ~ Changable(s)
    \/ curr[s] = StringDefault(s)
    \/ /\ IsChoiceValue(s) /\ ChoiceOf(s) \notin Optional
       /\ s = ChoiceDefault(ChoiceOf(s)) /\ s \notin Tristate /\ curr[s] = yes

Clear ==
    /\ Ready("clear")
    /\ todo' = Rest
    /\ ClearAllValid
    /\ UNCHANGED <<userVars, cacheVars, disk, histVars, write, pc, mode, conf_cnt, rootEntry,
                   need, has_changed, minimal, ghosts>>

WriteDefconfig ==
    /\ Ready("minimal")
    /\ todo' = Rest
    /\ minimal' = [s \in Named |-> IF Redundant(s) THEN Unset ELSE curr[s]]
    /\ expected' = <<Content>>
    /\ write' = write \ Named
    /\ UNCHANGED <<userVars, cacheVars, fileVars, histVars, valid, pc, mode, conf_cnt, rootEntry,
                   need, has_changed, given>>
-----------------------------------------------------------------------------
ConfInit ==
    /\ def = [s \in Sym |-> no] /\ user = {} /\ userPick = [c \in Choice |-> NoSym]
    /\ curr = [s \in Sym |-> no] /\ pick = [c \in Choice |-> NoSym]
    /\ visible = [s \in Sym |-> no] /\ revDep = [s \in Sym |-> no]
    /\ implied = [s \in Sym |-> no]
    /\ valid = {} /\ write = {} /\ changed = TRUE
    /\ disk \in Files
    /\ pc = "start" /\ asked = <<>> /\ saved = <<>>
    /\ mode = "none"
    /\ todo = <<>>
    /\ conf_cnt = FALSE
    /\ rootEntry = Root
    /\ need = {}
    /\ has_changed = FALSE
    /\ minimal = NoFile
    /\ given = NoFile
    /\ expected = <<>>

Ask == AskSymbol \/ Pick

Step == \/ Calculate \/ EndRead \/ Explicit \/ Loop \/ While
        \/ BeginWrite \/ EndWrite
        \/ CheckConf \/ Descend
        \/ SetNew \/ SetChoice \/ Again \/ Clear \/ WriteDefconfig
        \/ \E c \in Unsettled : SetAllChoiceValues(c)

ConfNext == (\E m \in Modes : Start(m)) \/ Step \/ Ask

\* A process runs until it needs an answer, and the user gives one in the end:
\* weak fairness of Step \/ Ask, stated without ENABLED because one of the two
\* is enabled as long as a call is left (TLC finds no deadlock).
Fair == []<>(todo = <<>>) \/ []<><<Step \/ Ask>>_allVars

ConfSpec == ConfInit /\ [][ConfNext]_allVars /\ Fair
-----------------------------------------------------------------------------
\* Can the user get to entry m?
Reach(m) == LET up[k \in Entries] == Visible[k] /\ (k = Root \/ up[Parent(k)]) IN up[m]

\* When oldconfig and syncconfig have no more questions, every option that
\* can be changed has a value, in whatever order the answers made options
\* visible.
Complete ==
    Doing("write") /\ mode \in {"oldconfig", "syncconfig"} /\ valid = Sym =>
        \A m \in Entries : SymOf(m) # NoSym /\ Reach(m) /\ Changable(SymOf(m)) => SymOf(m) \in user

\* "Update until a loop caused no more changes": conf ends when the user
\* answers, whatever the answers are.
Ends == todo # <<>> ~> todo = <<>>

\* KCONFIG_NOSILENTUPDATE: syncconfig asks nothing and writes nothing.
NotSilently == mode = "nosilentupdate" => ~ conf_cnt /\ ~ (Doing("write") /\ changed)

\* defconfig makes of a minimal configuration what savedefconfig made it of.
MinimalSuffices == mode = "defconfig" /\ todo = <<>> /\ expected # <<>> => disk = expected[1]

\* What one of the modes below answers, unless the file it was given does.
Answer(s) ==
    IF given[s] # Unset THEN given[s]
    ELSE IF mode = "allmodconfig" THEN mod
    ELSE IF mode = "allyesconfig" \/ s \in AllNoY THEN yes ELSE no

\* allnoconfig, allmodconfig and allyesconfig answer every new option with n, m
\* and y as far as it can have that; what the seed file says stays, and it
\* decides between the values of a choice.
Answered ==
    mode \in {"allnoconfig", "allmodconfig", "allyesconfig"} /\ pc = "write" /\ valid = Sym =>
        \A s \in Named \ Ints : visible[s] # no =>
            IF IsChoiceValue(s) /\ visible[s] = yes
            THEN s = PickOf(given)[ChoiceOf(s)] /\ curr[ChoiceOf(s)] = yes => curr[s] = yes
            ELSE curr[s] = Promote(Or3(And3(Answer(s), visible[s]), revDep[s]),
                                   ~ IsTristate(s, visible[s], curr) \/ implied[s] = yes)
=============================================================================
