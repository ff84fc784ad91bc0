-------------------------------- MODULE Mconf -------------------------------
(* menuconfig (package/config/mconf.c): menus, choices, strings, the search  *)
(* and the files, over the dialog boxes of lxdialog.  The functions call one *)
(* another and wait in a box for the user: `stack' holds the calls that are  *)
(* open, innermost last.  A box appears here by what it returns.             *)
(*                                                                           *)
(* The symbol engine is reduced to bools, choices of bools and strings whose *)
(* visibility depends on the values; Symbol has the rest of it.              *)
EXTENDS Integers, Sequences, FiniteSets

CONSTANTS
    Entries, Root, \* the menu tree
    Kids(_),       \* the children of an entry, in order
    Sym, NoSym,    \* the symbols
    SymOf(_),      \* the symbol of an entry
    Kind(_),       \* "menu", "comment" or "prompt"
    Choice,        \* the symbols that are choices
    Strings,       \* the symbols that are strings or numbers
    Values(_),     \* the values of a choice
    Dep(_, _),     \* can a symbol be seen, its own value aside?  Both with the
    Open(_, _),    \* conditions of the menus around, as menu_finalize leaves them
    Paths,         \* the files
    DotConfig,     \* conf_get_configname()
    Default,       \* the values without a file
    Absent,        \* there is no such file
    MaxDepth,      \* bound: how many calls are open at once
    MaxEdits       \* bound: how many values are set

VARIABLES
    cfg,              \* the values the user has set
    changed,          \* conf_get_changed()
    files,            \* what the files hold
    filename,         \* the file that the title names
    stack,            \* the open calls
    show_all_options, \* 'z'
    single_menu_mode,
    expanded,         \* the menus with menu->data set in single menu mode
    exiting,          \* handle_exit asks: "no", "exit" or "signal"
    ended,            \* has the process ended?
    told,             \* did it say that the changes were not saved? (-s keeps it silent)
    missed,           \* history: was a file to load missing, and nothing set or saved since?
    edits             \* how many values have been set

confVars == <<cfg, changed, missed, edits>>
fileVars == <<files, filename>>
viewVars == <<show_all_options, single_menu_mode, expanded>>
exitVars == <<exiting, ended, told>>
vars == <<confVars, fileVars, stack, viewVars, exitVars>>

\* What is calculated and saved.
Config(c) == [s \in Sym |-> IF Dep(s, c) THEN c[s] ELSE 0]

\* The values without a file are calculated, too: what has none of its own
\* and cannot be seen has nothing to be saved.
ASSUME MconfAssumption == DotConfig \in Paths /\ Config(Default) = Default

val(s) == Config(cfg)[s]

\* A call; active is the item that a jump led to, Root without one.  (After
\* the first key in a menu active_menu is the item that was acted on, which
\* is listed because it was.)
Frame(op, m, active) == [op |-> op, m |-> m, active |-> active]

Top == stack[Len(stack)]

Running == ~ ended /\ exiting = "no"

In(op) == Running /\ stack # <<>> /\ Top.op = op

Back == SubSeq(stack, 1, Len(stack) - 1)

\* dialog_menu returned with something to do in the innermost menu.
Acted == Append(Back, [Top EXCEPT !.active = Root])

Call(rest, f) == Len(rest) < MaxDepth /\ stack' = Append(rest, f)

-----------------------------------------------------------------------------
ChildrenOf(m) == {Kids(m)[i] : i \in DOMAIN Kids(m)}

ParentOf(m) == CHOOSE p \in Entries : m \in ChildrenOf(p)

\* Do the conditions of an entry hold for the values c?
Seen(m, c) == IF SymOf(m) = NoSym THEN Open(m, c) ELSE Dep(SymOf(m), c)

\* What symbols may be set to.
Valuation == [Sym -> {0, 1}]

\* The entries are a tree below rootmenu, and what menu_finalize makes of the
\* conditions of an entry holds only if those of the entry above it do.  (The
\* `visible if' of a menu, which no Config.in of this tree has, is added to the
\* prompts below it, but not to the menus.)
ASSUME TreeAssumption ==
    /\ Root \in Entries
    /\ \A m \in Entries : SymOf(m) \in Sym \cup {NoSym} /\ ChildrenOf(m) \subseteq Entries
    /\ \A m \in Entries \ {Root} : \E p \in Entries : m \in ChildrenOf(p)
    /\ \A S \in (SUBSET Entries) \ {{}} : \E m \in S : m = Root \/ ParentOf(m) \notin S
    /\ \A m \in Entries, c \in Valuation : Seen(m, c) \in BOOLEAN
    /\ \A m \in Entries \ {Root}, c \in Valuation : Seen(m, c) => Seen(ParentOf(m), c)
    /\ Default \in Valuation

\* menu_is_visible
Visible[m \in Entries] ==
    IF SymOf(m) = NoSym THEN Open(m, cfg)
    ELSE Dep(SymOf(m), cfg) \/ (val(SymOf(m)) # 0 /\ \E k \in ChildrenOf(m) : Visible[k])

IsChoice(m) == SymOf(m) \in Choice

IsValue(m) == \E c \in Choice : SymOf(m) \in Values(c)

\* def_menu: the entry of the value that a choice has.
Chosen(m) == {k \in ChildrenOf(m) : Visible[k] /\ SymOf(k) # NoSym /\ val(SymOf(k)) # 0}

\* build_conf(m) for the menu cur: the entries that are listed.
Listed(cur) ==
    LET list[m \in Entries] ==
            LET below == UNION {list[k] : k \in ChildrenOf(m)}
            IN IF ~ show_all_options /\ ~ Visible[m] THEN {}
               ELSE IF SymOf(m) = NoSym
               THEN IF m = cur THEN below
                    ELSE {m} \cup (IF Kind(m) = "menu" /\ ~ (single_menu_mode /\ m \in expanded)
                                   THEN {} ELSE below)
               ELSE IF IsChoice(m) /\ val(SymOf(m)) # 0
               THEN {m} \cup UNION {list[k] : k \in {k \in Chosen(m) : Kids(k) # <<>>}}
               ELSE {m} \cup (IF m # cur /\ Kind(m) = "menu" THEN {} ELSE below)
    IN list[cur]

\* item_tag()
Tag(m, cur) ==
    IF SymOf(m) = NoSym THEN IF Kind(m) = "menu" THEN "m" ELSE ":"
    ELSE IF IsChoice(m) THEN IF Dep(SymOf(m), cfg) \/ Chosen(m) # {} THEN "t" ELSE ":"
    ELSE IF m = cur \/ (IsValue(m) /\ val(SymOf(m)) # 0) THEN ":"
    ELSE IF SymOf(m) \in Strings THEN "s" ELSE "t"

\* sym_set_tristate_value and sym_set_string_value: refused for what cannot
\* be changed; the first value of a symbol counts as a change as well.
SetValue(s, v) ==
    /\ Dep(s, cfg)
    /\ cfg' = [t \in Sym |->
                 IF t = s THEN v
                 ELSE IF v # 0 /\ \E c \in Choice : {s, t} \subseteq Values(c) THEN 0
                 ELSE cfg[t]]
    /\ IF cfg' = cfg THEN changed' \in {changed, TRUE} ELSE changed' = TRUE
    /\ missed' = (missed /\ ~ changed')
    /\ edits < MaxEdits /\ edits' = edits + 1
-----------------------------------------------------------------------------
(* conf(): what dialog_menu returns for one of the listed items.             *)

\* The user does something with item m of the open menu.
At(m) == In("conf") /\ m \in Listed(Top.m)

TagAt(m) == Tag(m, Top.m)

\* Enter
Select(m) ==
    /\ At(m)
    /\ \/ /\ TagAt(m) = "m" /\ single_menu_mode
          /\ expanded' = (IF m \in expanded THEN expanded \ {m} ELSE expanded \cup {m})
          /\ stack' = Acted
       \/ /\ TagAt(m) = "m" /\ ~ single_menu_mode
          /\ Call(Acted, Frame("conf", m, Root)) /\ UNCHANGED expanded
       \/ /\ TagAt(m) = "t" /\ IsChoice(m) /\ val(SymOf(m)) # 0
          /\ Call(Acted, Frame("choice", m, Root)) /\ UNCHANGED expanded
       \/ /\ TagAt(m) = "t" /\ ~ (IsChoice(m) /\ val(SymOf(m)) # 0) /\ Kind(m) = "menu"
          /\ Call(Acted, Frame("conf", m, Root)) /\ UNCHANGED expanded
       \/ /\ TagAt(m) = "s"
          /\ Call(Acted, Frame("string", m, Root)) /\ UNCHANGED expanded
    /\ UNCHANGED <<confVars, fileVars, show_all_options, single_menu_mode, exitVars>>

\* `y', `n' and space
SetItem(m) ==
    /\ At(m) /\ TagAt(m) = "t"
    /\ \E v \in {0, 1} : (IsValue(m) => v = 1) /\ SetValue(SymOf(m), v)
    /\ stack' = Acted
    /\ UNCHANGED <<fileVars, viewVars, exitVars>>

\* Space enters a menu, in single menu mode, too.
Enter(m) ==
    /\ At(m) /\ TagAt(m) = "m"
    /\ Call(Acted, Frame("conf", m, Root))
    /\ UNCHANGED <<confVars, fileVars, viewVars, exitVars>>

\* `z'
ToggleShowAll ==
    /\ In("conf")
    /\ show_all_options' = ~ show_all_options
    /\ stack' = Acted
    /\ UNCHANGED <<confVars, fileVars, single_menu_mode, expanded, exitVars>>

\* `/', Save and Load
Ask(op) ==
    /\ In("conf")
    /\ Call(Acted, Frame(op, Root, Root))
    /\ UNCHANGED <<confVars, fileVars, viewVars, exitVars>>

\* Exit, ESC, or nothing more to do in a box.
Leave ==
    /\ Running /\ stack # <<>>
    /\ stack' = Back
    /\ UNCHANGED <<confVars, fileVars, viewVars, exitVars>>

\* conf_choice: a visible value is picked.
PickValue(k) ==
    /\ In("choice") /\ k \in ChildrenOf(Top.m) /\ Visible[k] /\ SymOf(k) # NoSym
    /\ IF Dep(SymOf(k), cfg) THEN SetValue(SymOf(k), 1) ELSE UNCHANGED confVars
    /\ stack' = Back
    /\ UNCHANGED <<fileVars, viewVars, exitVars>>

\* conf_string: a refused entry is asked for again.
EnterString(v) ==
    /\ In("string")
    /\ SetValue(SymOf(Top.m), v)
    /\ stack' = Back
    /\ UNCHANGED <<fileVars, viewVars, exitVars>>
-----------------------------------------------------------------------------
(* search_conf() and get_prompt_str() of menu.c                              *)

Above[m \in Entries] == IF m = Root THEN {} ELSE {ParentOf(m)} \cup Above[ParentOf(m)]

\* Mutant: the nearest menu above is the target, seen or not.
TargetNearest(m) == IF ParentOf(m) = Root THEN {} ELSE {IF Visible[m] THEN m ELSE ParentOf(m)}

\* Where the key beside a found symbol's prompt leads: to it when it can be
\* seen, and else to the nearest menu above it that can.  (get_prompt_str
\* climbs eight menus at most; this one climbs to the root.)
Target(m) ==
    LET seen == {p \in Above[m] \ {Root} : Visible[p]}
    IN IF seen = {} THEN {}
       ELSE IF Visible[m] THEN {m}
       ELSE {p \in seen : \A q \in seen : q \notin Above[m] \/ q = p \/ q \in Above[p]}

\* conf(targets[i]->parent, targets[i]); the results are made anew afterwards.
Jump(m) ==
    /\ In("search") /\ SymOf(m) # NoSym
    /\ \E t \in Target(m) :
          Call(stack, Frame("conf", ParentOf(t), t))
    /\ UNCHANGED <<confVars, fileVars, viewVars, exitVars>>
-----------------------------------------------------------------------------
(* conf_load(), conf_save() and handle_exit()                                *)

\* A profile is loaded: its path is where the configuration will be saved.
\* conf_read drops the count of changes before it opens the file.
Load(p) ==
    /\ In("load")
    /\ IF files[p] = Absent
       THEN /\ changed' = FALSE /\ missed' = TRUE
            /\ UNCHANGED <<cfg, filename, stack>>
       ELSE /\ cfg' = files[p] /\ changed' = TRUE /\ missed' = FALSE
            /\ filename' = p
            /\ stack' = Back
    /\ UNCHANGED <<edits, files, viewVars, exitVars>>

\* Mutant: the title keeps the old name.
SaveKeep(p) ==
    /\ In("save")
    /\ files' = [files EXCEPT ![p] = Config(cfg)]
    /\ changed' = FALSE /\ missed' = FALSE
    /\ stack' = Back
    /\ UNCHANGED <<cfg, edits, filename, viewVars, exitVars>>

\* (conf_write may also fail; then it is asked for again.)
Save(p) ==
    /\ In("save")
    /\ files' = [files EXCEPT ![p] = Config(cfg)]
    /\ changed' = FALSE /\ missed' = FALSE
    /\ filename' = p
    /\ stack' = Back
    /\ UNCHANGED <<cfg, edits, viewVars, exitVars>>

\* handle_exit when the main menu was left or at SIGINT, which may come in
\* any box, the question included.
HandleExit(how) ==
    /\ ~ ended
    /\ IF how = "exit" THEN exiting = "no" /\ stack = <<>> ELSE TRUE
    /\ exiting' = (IF changed THEN how ELSE "no")
    /\ ended' = ~ changed
    /\ UNCHANGED <<confVars, fileVars, stack, viewVars, told>>

\* "Do you wish to save your new configuration?"
AnswerYes ==
    /\ exiting # "no"
    /\ ended' = TRUE /\ exiting' = "no"
    /\ \/ /\ files' = [files EXCEPT ![filename] = Config(cfg)]
          /\ changed' = FALSE /\ missed' = FALSE /\ UNCHANGED told
       \/ told' = TRUE /\ UNCHANGED <<files, changed, missed>>
    /\ UNCHANGED <<cfg, edits, filename, stack, viewVars>>

AnswerNo ==
    /\ exiting # "no"
    /\ ended' = TRUE /\ exiting' = "no" /\ told' = TRUE
    /\ UNCHANGED <<confVars, fileVars, stack, viewVars>>

\* ESC goes on with the main menu, but a signal ends the program all the same.
AnswerEsc ==
    /\ exiting # "no"
    /\ exiting' = "no"
    /\ IF exiting = "signal"
       THEN ended' = TRUE /\ told' = TRUE /\ UNCHANGED stack
       ELSE stack' = <<Frame("conf", Root, Root)>> /\ UNCHANGED <<ended, told>>
    /\ UNCHANGED <<confVars, fileVars, viewVars>>
-----------------------------------------------------------------------------
Init ==
    /\ files \in [Paths -> {Default, Absent}]
    /\ cfg = Default
    /\ changed = (files[DotConfig] = Absent)
    /\ filename = DotConfig
    /\ stack = <<Frame("conf", Root, Root)>>
    /\ show_all_options = FALSE
    /\ single_menu_mode \in BOOLEAN
    /\ expanded = {}
    /\ exiting = "no" /\ ended = FALSE /\ told = FALSE
    /\ missed = FALSE /\ edits = 0

Next ==
    \/ \E m \in Entries : Select(m) \/ SetItem(m) \/ Enter(m) \/ PickValue(m) \/ Jump(m)
    \/ \E v \in {0, 1} : EnterString(v)
    \/ ToggleShowAll \/ Leave
    \/ \E op \in {"search", "load", "save"} : Ask(op)
    \/ \E p \in Paths : Load(p) \/ Save(p)
    \/ HandleExit("exit") \/ HandleExit("signal")
    \/ AnswerYes \/ AnswerNo \/ AnswerEsc

Spec == Init /\ [][Next]_vars
-----------------------------------------------------------------------------
\* However menuconfig ends, from the main menu or by a signal in any box, the
\* configuration on the screen is in the file that the title names, or the
\* user was told that it is not.  (Loading a file that is missing drops the
\* count of changes; what is set after it is counted again.)
NothingLost == ended /\ ~ told /\ ~ missed => files[filename] = Config(cfg)

\* A jump from the search results opens a menu that lists what was found, or
\* the menu above it that can be seen; a value is listed by its choice.
JumpShown ==
    In("conf") /\ Top.active # Root =>
        Top.active \in Listed(Top.m) \/ (IsChoice(Top.m) /\ Top.m \in Listed(Top.m))
=============================================================================
