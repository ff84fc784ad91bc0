------------------------------- MODULE Symbol -------------------------------
(* The symbol engine of package/config: values that the user asks for, the   *)
(* lazily calculated values behind the SYMBOL_VALID cache, choices, and the  *)
(* round trip of both through the configuration file (symbol.c, and          *)
(* conf_read and conf_write of confdata.c).                                  *)
(*                                                                           *)
(* sym_calc_value recurses into every symbol its expressions read before it  *)
(* uses it, so a calculation is modelled leaves first: CalcSymbol and        *)
(* CalcChoice take one symbol whose operands are valid.  The handlers that   *)
(* calculate every symbol (conf_read, conf_write) are split at that loop and *)
(* `pc' keeps everything else out until they finish.                         *)
EXTENDS TriLogic, Sequences

CONSTANTS
    Sym,         \* every symbol; a choice is a nameless symbol
    Tristate,    \* the symbols of type tristate
    Ints,        \* the symbols of type int or hex; the rest are bool
    Choice,      \* the choice symbols
    Optional,    \* the choices marked `optional'
    Members(_),  \* the values of a choice, in menu order
    Modules,     \* the `option modules' symbol, NoSym when there is none
    NoSym,       \* stands for a null symbol
    Uses(_),     \* the symbols that the expressions of a symbol mention
    Attr(_, _),  \* the values of a symbol's expressions under a valuation
    MaxInt,      \* bound on the values of int symbols, which start at 1
    Files,       \* the configuration files that conf_read may be given
    Faults       \* what may go wrong: "rename" in conf_write, "missing" in conf_read

Unset == -1

Val == 0 .. MaxInt

Named == Sym \ Choice

Values(c) == {Members(c)[i] : i \in DOMAIN Members(c)}

IsChoiceValue(s) == \E c \in Choice : s \in Values(c)

ChoiceOf(s) == CHOOSE c \in Choice : s \in Values(c)

\* What the expressions are read in: a value of its type for every symbol.
Valuation == {v \in [Sym -> Val] : \A s \in Sym \ Ints : v[s] \in Tri}

AttrType == [prompt : Tri, dir : Tri, rev : Tri, imp : Tri, dflt : Val,
             lo : Val, hi : Val, order : Seq(Sym)]

ASSUME SortAssumption ==
    /\ Tristate \subseteq Sym /\ Choice \subseteq Sym /\ Optional \subseteq Choice
    /\ Ints \subseteq Sym \ (Tristate \cup Choice)
    /\ NoSym \notin Sym
    /\ Modules \in Sym \cup {NoSym}
    /\ MaxInt \in Nat /\ MaxInt >= yes
    /\ Faults \subseteq {"rename", "missing"}

ASSUME ChoiceAssumption ==
    \A c \in Choice :
        /\ Members(c) \in Seq(Sym)
        /\ Values(c) \subseteq Sym \ (Choice \cup Ints \cup {Modules})
        /\ \A d \in Choice : d # c => Values(c) \cap Values(d) = {}
        /\ \A s \in Values(c) : c \in Uses(s)

ASSUME AttrAssumption ==
    /\ \A s \in Sym : Uses(s) \subseteq Sym \ {s}
    /\ \A s \in Sym, v \in Valuation :
        /\ Attr(s, v) \in AttrType
        /\ s \notin Ints => Attr(s, v).dflt \in Tri
        /\ Attr(s, v).lo <= Attr(s, v).hi
        /\ s \in Ints => no < Attr(s, v).lo
        /\ s \in Choice =>
             \A i \in DOMAIN Attr(s, v).order : Attr(s, v).order[i] \in Values(s)
    /\ \A c \in Choice : \A s \in Values(c), v \in Valuation :
        v[c] = no => Attr(s, v).prompt = no

\* What an expression evaluates to depends on the symbols it mentions only.
ASSUME LocalityAssumption ==
    \A s \in Sym, v \in Valuation :
        Attr(s, v) = Attr(s, [u \in Sym |-> IF u \in Uses(s) THEN v[u] ELSE no])

\* What a configuration file says: a value for some of the symbols.
ConfigFile == {f \in [Named -> Val \cup {Unset}] : \A s \in Named \ Ints : f[s] \in Tri \cup {Unset}}

\* A line that is no value of its symbol's type is dropped by conf_set_sym_val.
ASSUME FileAssumption ==
    /\ Files \subseteq ConfigFile
    /\ \A f \in Files, s \in Named \ (Ints \cup Tristate) : f[s] # mod
    /\ \A f \in Files, s \in Ints : f[s] # no

VARIABLES
    def,         \* def[S_DEF_USER].tri, or .val of an int symbol (0: null)
    user,        \* the symbols that carry SYMBOL_DEF_USER
    userPick,    \* def[S_DEF_USER].val of a choice
    curr,        \* curr.tri, or curr.val of an int symbol
    pick,        \* curr.val of a choice
    visible, revDep, implied,  \* the other calculated fields of a symbol
    valid,       \* the symbols that carry SYMBOL_VALID
    write,       \* the symbols that carry SYMBOL_WRITE
    changed,     \* conf_get_changed(): sym_change_count # 0
    disk,        \* the configuration file
    pc,          \* which of conf_read and conf_write is running
    asked,       \* history: the request sym_set_* accepted last
    saved        \* history: the values at the last conf_write, until an edit

userVars  == <<def, user, userPick>>
cacheVars == <<curr, pick, visible, revDep, implied>>
fileVars  == <<changed, disk>>
histVars  == <<asked, saved>>
vars == <<userVars, cacheVars, fileVars, histVars, valid, write, pc>>
-----------------------------------------------------------------------------
(* Calculating a symbol.  v is the valuation its expressions are read in.    *)

ModulesVal(v) == IF Modules = NoSym THEN no ELSE v[Modules]

\* sym_get_type: does s count as a tristate at visibility vis?
IsTristate(s, vis, v) ==
    /\ s \in Tristate
    /\ ~ (IsChoiceValue(s) /\ vis = yes)
    /\ ModulesVal(v) # no

\* sym_calc_visibility, the prompt: a tristate choice value at `m' is hidden
\* while its choice is `y'.
Visibility(s, v) ==
    LET hidden == /\ IsChoiceValue(s) /\ s \in Tristate
                  /\ Attr(s, v).prompt = mod
                  /\ v[ChoiceOf(s)] = yes
        prompt == IF hidden THEN no ELSE Attr(s, v).prompt
    IN Promote(prompt, s \notin Tristate \/ ModulesVal(v) = no)

\* Menus in which no default goes beyond what a visible prompt offers, as
\* where prompts have no condition that is `m'.
DefaultsSeen ==
    \A s \in Named \ Ints, v \in Valuation :
        ~ IsChoiceValue(s) /\ Visibility(s, v) # no => Attr(s, v).dflt <= Visibility(s, v)

\* sym_calc_visibility returns before the dependencies of a choice value.
RevDep(s, v) ==
    IF IsChoiceValue(s) THEN no
    ELSE Promote(Attr(s, v).rev, ~ IsTristate(s, Visibility(s, v), v))

Implied(s, v) ==
    IF IsChoiceValue(s) \/ Attr(s, v).dir = no THEN no
    ELSE Promote(Attr(s, v).imp, ~ IsTristate(s, Visibility(s, v), v))

\* Mutant: the visibility does not cut the user's value.
OwnValueUncut(s, v) ==
    IF Visibility(s, v) # no /\ s \in user THEN def[s]
    ELSE IF s \in Choice THEN no
    ELSE Or3(Attr(s, v).dflt, Implied(s, v))

\* The user's value, cut to what can be seen, else the default.
OwnValue(s, v) ==
    LET vis == Visibility(s, v)
    IN IF vis # no /\ s \in user THEN And3(def[s], vis)
       ELSE IF s \in Choice THEN no
       ELSE Or3(Attr(s, v).dflt, Implied(s, v))

\* Mutant: a choice value has its own user value.
ChosenValueOwn(s) == def[s]

ChosenValue(s) == IF pick[ChoiceOf(s)] = s THEN yes ELSE no

\* The bool and tristate branch of sym_calc_value.
TriValue(s, v) ==
    LET vis == Visibility(s, v)
        two == ~ IsTristate(s, vis, v) \/ Implied(s, v) = yes
    IN IF IsChoiceValue(s) /\ vis = yes THEN ChosenValue(s)
       ELSE Promote(Or3(OwnValue(s, v), RevDep(s, v)), two)

\* sym_validate_range
Clamp(s, v, n) ==
    LET a == Attr(s, v) IN IF n < a.lo THEN a.lo ELSE IF n > a.hi THEN a.hi ELSE n

IntDefault(s, v) == Clamp(s, v, Attr(s, v).dflt)

\* The int and hex branch.
IntValue(s, v) ==
    Clamp(s, v, IF Visibility(s, v) # no /\ s \in user THEN def[s] ELSE Attr(s, v).dflt)

Value(s, v) == IF s \in Ints THEN IntValue(s, v) ELSE TriValue(s, v)

\* Ranges are constants, and the files respect them.
FixedRanges ==
    /\ \A s \in Ints : \E lo, hi \in Val :
          \A v \in Valuation : Attr(s, v).lo = lo /\ Attr(s, v).hi = hi
    /\ \A f \in Files, s \in Ints, v \in Valuation :
          f[s] = Unset \/ (Attr(s, v).lo <= f[s] /\ f[s] <= Attr(s, v).hi)

\* The default of an int that is hidden now and then is the same wherever it
\* can be seen.
SteadyDefaults ==
    \A s \in Ints :
        LET hidden == {v \in Valuation : Visibility(s, v) = no}
        IN \A m \in {IntDefault(s, v) : v \in hidden},
              n \in {IntDefault(s, v) : v \in Valuation \ hidden} : m = n

\* The menus of this tree: no tristate, choices that menu_finalize selects
\* while they can be seen, no defaults for choice values, steady defaults,
\* ranges that are constants, and files that respect them.
BoolMenu ==
    /\ Tristate = {}
    /\ \A c \in Choice, v \in Valuation : Attr(c, v).prompt # no => Attr(c, v).rev # no
    /\ \A c \in Choice : \A s \in Values(c), v \in Valuation : Attr(s, v).dflt = no
    /\ SteadyDefaults
    /\ FixedRanges

\* Only bools are selected: sym_check_prop warns of a select of another type,
\* which conf_write_defconfig would leave out (sym_is_changable).
IntsUnselected == \A s \in Ints, v \in Valuation : Attr(s, v).rev = no

\* Would sym_calc_value raise SYMBOL_WRITE?
Written(s, v) ==
    \/ Visibility(s, v) # no
    \/ s \in Ints   \* an int symbol has a default without a condition
    \/ RevDep(s, v) # no
    \/ s \notin Choice /\ (Attr(s, v).dflt # no \/ Implied(s, v) # no)

FirstVisible(q, vis) ==
    LET seen == {i \in DOMAIN q : vis[q[i]] # no}
    IN IF seen = {} THEN NoSym
       ELSE q[CHOOSE i \in seen : \A j \in seen : i <= j]

\* Mutant: an enabled default comes before the user's choice.
ChoicePickDefault(c, vis, v) == FirstVisible(Attr(c, v).order \o Members(c), vis)

\* sym_calc_choice: the user's choice when it is visible, else the first
\* enabled default that is, else the first visible value.
ChoicePick(c, vis, v) ==
    IF userPick[c] # NoSym /\ vis[userPick[c]] # no THEN userPick[c]
    ELSE FirstVisible(Attr(c, v).order \o Members(c), vis)

\* Mutant: the modules symbol is not calculated before the others.
OperandsNoModules(s) == Uses(s)

\* Every symbol sym_calc_value(s) calculates on its way.
Operands(s) ==
    LET own == IF s \in Choice
               THEN (Uses(s) \cup UNION {Uses(x) : x \in Values(s)}) \ {s}
               ELSE Uses(s)
    IN own \cup ({Modules} \ {NoSym, s})

\* No symbol depends on itself (sym_check_deps).
Acyclic(rank) == \A s \in Sym : \A u \in Operands(s) : rank[u] < rank[s]
-----------------------------------------------------------------------------
\* SYMBOL_WRITE and the calculated fields of s.
Store(s) ==
    /\ revDep' = [revDep EXCEPT ![s] = RevDep(s, curr)]
    /\ implied' = [implied EXCEPT ![s] = Implied(s, curr)]
    /\ valid' = valid \cup {s}

\* sym_calc_value of a symbol that is not a choice.
CalcSymbol(s) ==
    /\ s \in Named \ valid
    /\ Operands(s) \subseteq valid
    /\ Store(s)
    /\ visible' = [visible EXCEPT ![s] = Visibility(s, curr)]
    /\ curr' = [curr EXCEPT ![s] = Value(s, curr)]
    /\ write' = IF Written(s, curr) THEN write \cup {s} ELSE write \ {s}
    /\ UNCHANGED <<userVars, fileVars, histVars, pick, pc>>

\* sym_calc_value of a choice with sym_calc_choice: a visible value that the
\* user never set makes the choice new again (SYMBOL_DEF_USER is dropped).
CalcChoice(c) ==
    /\ c \in Choice \ valid
    /\ Operands(c) \subseteq valid
    /\ Store(c)
    /\ LET tri  == TriValue(c, curr)
           v    == [curr EXCEPT ![c] = tri]
           vis  == [s \in Sym |->
                      IF s = c THEN Visibility(c, curr)
                      ELSE IF s \in Values(c) /\ tri = yes THEN Visibility(s, v)
                      ELSE visible[s]]
           p    == IF tri = yes THEN ChoicePick(c, vis, v) ELSE NoSym
           seen == {s \in Values(c) : vis[s] # no}
       IN /\ visible' = vis
          /\ curr' = [curr EXCEPT ![c] = IF tri = yes /\ p = NoSym THEN no ELSE tri]
          /\ pick' = [pick EXCEPT ![c] = p]
          /\ user' = IF tri = yes /\ ~ (seen \subseteq user) THEN user \ {c} ELSE user
          /\ write' = IF Written(c, curr) THEN write \cup {c} \cup seen ELSE write \ {c}
    /\ UNCHANGED <<def, userPick, fileVars, histVars, pc>>

\* sym_clear_all_valid; what it recalculates at once, the modules symbol, is
\* an operand of every symbol.
ClearAllValid ==
    /\ valid' = {}
    /\ changed' = TRUE

\* Mutant: what selects the symbol is not looked at.
WithinRangeNoSelect(s, t) ==
    /\ visible[s] # no
    /\ t = mod => IsTristate(s, visible[s], curr) /\ implied[s] # yes
    /\ IF IsChoiceValue(s) /\ visible[s] = yes THEN t = yes ELSE t <= visible[s]

\* Mutant: what implies the symbol is not looked at.
WithinRangeNoImply(s, t) ==
    /\ visible[s] # no
    /\ t = mod => IsTristate(s, visible[s], curr)
    /\ visible[s] > revDep[s]
    /\ IF IsChoiceValue(s) /\ visible[s] = yes THEN t = yes
       ELSE revDep[s] <= t /\ t <= visible[s]

\* sym_tristate_within_range
WithinRange(s, t) ==
    /\ visible[s] # no
    /\ t = mod => IsTristate(s, visible[s], curr) /\ implied[s] # yes
    /\ visible[s] > revDep[s]
    /\ IF IsChoiceValue(s) /\ visible[s] = yes THEN t = yes
       ELSE revDep[s] <= t /\ t <= visible[s]

Accepts(s, t) == curr[s] = t \/ WithinRange(s, t)

\* Mutant: the calculated values are kept.
PutTristateKeep(s, t) ==
    /\ def' = [def EXCEPT ![s] = t]
    /\ user' = user \cup {s}
    /\ changed' = (changed \/ curr[s] # t)
    /\ asked' = <<s, t>>
    /\ saved' = <<>>
    /\ UNCHANGED <<userPick, cacheVars, valid, write, disk, pc>>

\* The changes sym_set_tristate_value makes once it accepts the request.
PutTristate(s, t) ==
    /\ def' = [def EXCEPT ![s] = t]
    /\ IF IsChoiceValue(s) /\ t = yes
       THEN LET c == ChoiceOf(s)
            IN /\ userPick' = [userPick EXCEPT ![c] = s]
               /\ user' = user \cup {s, c} \cup {x \in Values(c) : visible[x] # no}
       ELSE user' = user \cup {s} /\ UNCHANGED userPick
    /\ IF curr[s] # t THEN ClearAllValid ELSE UNCHANGED <<valid, changed>>
    /\ asked' = <<s, t>>
    /\ saved' = <<>>
    /\ UNCHANGED <<cacheVars, write, disk, pc>>

\* The callers look at a symbol, which calculates it, before they set it.
SetTristate(s, t) ==
    /\ pc = "edit"
    /\ s \in valid \ Ints
    /\ Accepts(s, t)
    /\ PutTristate(s, t)

\* sym_toggle_tristate_value: the next value in the cycle n, m, y that is
\* accepted, which in the end is the present one.
Toggle(s) ==
    /\ pc = "edit"
    /\ s \in valid \ Ints
    /\ LET step(k) == (curr[s] + k) % 3
           k == CHOOSE i \in 1..3 : /\ Accepts(s, step(i))
                                    /\ \A j \in 1..(i - 1) : ~ Accepts(s, step(j))
       IN PutTristate(s, step(k))

\* sym_set_string_value: the range is checked, the visibility is not.  When
\* the string is the one that is kept nothing is calculated again, although
\* the symbol need not have counted as set: conf_read drops the flag alone.
SetString(s, n) ==
    /\ pc = "edit"
    /\ s \in valid \cap Ints
    /\ Attr(s, curr).lo <= n /\ n <= Attr(s, curr).hi
    /\ def' = [def EXCEPT ![s] = n]
    /\ user' = user \cup {s}
    /\ IF def[s] = n THEN UNCHANGED <<valid, changed>> ELSE ClearAllValid
    /\ asked' = <<s, n>>
    /\ saved' = <<>>
    /\ UNCHANGED <<userPick, cacheVars, write, disk, pc>>
-----------------------------------------------------------------------------
(* The configuration file.  A file gives every named symbol a value or none; *)
(* its lines are in menu order.                                              *)

\* The values of c that file f sets to t, as positions in the menu.
Lines(c, f, t) == {i \in DOMAIN Members(c) : f[Members(c)[i]] = t}

\* conf_read_simple warns about a second value of a choice that is not `n'.
Warned(f) ==
    \E c \in Choice :
        \/ \E j \in Lines(c, f, yes) :
             \E i \in Lines(c, f, yes) \cup Lines(c, f, mod) : i < j
        \/ \E i \in Lines(c, f, yes), j \in Lines(c, f, mod) : i < j

\* Mutant: a symbol without a line keeps no value.
DefOfUnset(f) == [s \in Sym |-> IF s \in Choice THEN no ELSE f[s]]

DefOf(f) ==
    [s \in Sym |->
       IF s \in Choice
       THEN IF Lines(s, f, yes) # {} THEN yes ELSE IF Lines(s, f, mod) # {} THEN mod ELSE no
       ELSE IF f[s] = Unset THEN no ELSE f[s]]

\* A choice counts as set unless a `y' line precedes an `m' line.
UserOf(f) ==
    {s \in Named : f[s] # Unset} \cup
    {c \in Choice : \A i \in Lines(c, f, yes), j \in Lines(c, f, mod) : j < i}

\* Mutant: reading a choice value does not set the choice.
PickOfNone(f) == [c \in Choice |-> NoSym]

\* The last `y' line of a choice names the user's choice.
PickOf(f) ==
    [c \in Choice |->
       LET ys == Lines(c, f, yes)
       IN IF ys = {} THEN NoSym ELSE Members(c)[CHOOSE i \in ys : \A j \in ys : j <= i]]

\* conf_read up to its first loop over the symbols.
Read(f) ==
    /\ pc \in {"start", "edit"}
    /\ disk' = f
    /\ def' = DefOf(f)
    /\ user' = UserOf(f)
    /\ userPick' = PickOf(f)
    /\ valid' = {}
    /\ changed' = Warned(f)
    /\ pc' = "read"
    /\ asked' = <<>>
    /\ saved' = IF f = disk THEN saved ELSE <<>>
    /\ UNCHANGED <<cacheVars, write>>

\* conf_read of a file that does not exist: the count of unsaved changes is
\* already reset when conf_read_simple fails to open the file.
ReadMissing ==
    /\ pc = "edit"
    /\ "missing" \in Faults
    /\ changed' = FALSE
    /\ UNCHANGED <<userVars, cacheVars, histVars, disk, valid, write, pc>>

\* Does the file disagree with what was calculated from it?
Unsaved ==
    \E s \in Named :
        IF s \in user THEN s \notin write \/ def[s] # curr[s] ELSE s \in write

\* The rest of conf_read: values nobody can see become new, and an int out of
\* its range is dropped.
FinishRead ==
    /\ pc = "read"
    /\ valid = Sym
    /\ LET hidden  == {s \in Sym : visible[s] = no /\ ~ IsChoiceValue(s)}
           outside == {s \in user \cap Ints :
                         def[s] < Attr(s, curr).lo \/ def[s] > Attr(s, curr).hi}
       IN /\ user' = (IF Unsaved THEN user ELSE user \ hidden) \ outside
          /\ valid' = valid \ outside
    /\ changed' = (changed \/ Unsaved)
    /\ pc' = "edit"
    /\ UNCHANGED <<def, userPick, cacheVars, histVars, write, disk>>

\* Mutant: the calculated values are never dropped.
WriteKeep ==
    /\ pc = "edit"
    /\ pc' = "write"
    /\ UNCHANGED <<userVars, cacheVars, histVars, valid, write, changed, disk>>

\* conf_write up to its loop: the calculated values are dropped when nothing
\* has changed, because the previous conf_write has eaten SYMBOL_WRITE.
Write ==
    /\ pc = "edit"
    /\ IF changed THEN UNCHANGED <<valid, changed>> ELSE ClearAllValid
    /\ pc' = "write"
    /\ UNCHANGED <<userVars, cacheVars, histVars, write, disk>>

\* Mutant: a symbol that is `n' gets no line.
ContentSkipUnset == [s \in Named |-> IF s \in write /\ curr[s] # no THEN curr[s] ELSE Unset]

Content == [s \in Named |-> IF s \in write THEN curr[s] ELSE Unset]

\* The loop of conf_write has visited every named symbol.
FinishWrite ==
    /\ pc = "write"
    /\ Named \subseteq valid
    /\ disk' = Content
    /\ write' = write \ Named
    /\ changed' = FALSE
    /\ pc' = "edit"
    /\ saved' = [s \in Named |-> curr[s]]
    /\ UNCHANGED <<userVars, cacheVars, valid, asked>>

\* The new file is complete but cannot be renamed to its name, that of another
\* file than the one that was read.  Without KCONFIG_OVERWRITECONFIG only.
FailWrite ==
    /\ pc = "write"
    /\ "rename" \in Faults
    /\ Named \subseteq valid
    /\ write' = write \ Named
    /\ pc' = "edit"
    /\ UNCHANGED <<userVars, cacheVars, fileVars, histVars, valid>>
-----------------------------------------------------------------------------
Init ==
    /\ def = [s \in Sym |-> no]
    /\ user = {}
    /\ userPick = [c \in Choice |-> NoSym]
    /\ curr = [s \in Sym |-> no]
    /\ pick = [c \in Choice |-> NoSym]
    /\ visible = [s \in Sym |-> no]
    /\ revDep = [s \in Sym |-> no]
    /\ implied = [s \in Sym |-> no]
    /\ valid = {}
    /\ write = {}
    /\ changed = TRUE
    /\ disk = [s \in Named |-> Unset]
    /\ pc = "start"
    /\ asked = <<>>
    /\ saved = <<>>

Calc == \E s \in Sym : CalcSymbol(s) \/ CalcChoice(s)

Edit == \E s \in Sym :
            \/ \E t \in Tri : SetTristate(s, t)
            \/ Toggle(s)
            \/ \E n \in Val : SetString(s, n)

ReadAny == \E f \in Files \cup {disk} : Read(f)

Next == \/ Calc \/ Edit
        \/ ReadAny \/ ReadMissing \/ FinishRead
        \/ Write \/ FinishWrite \/ FailWrite

Spec == Init /\ [][Next]_vars
-----------------------------------------------------------------------------
TypeOK ==
    /\ def \in Valuation /\ curr \in Valuation
    /\ user \subseteq Sym /\ valid \subseteq Sym /\ write \subseteq Sym
    /\ userPick \in [Choice -> Sym \cup {NoSym}]
    /\ pick \in [Choice -> Sym \cup {NoSym}]
    /\ \A c \in Choice : /\ userPick[c] \in Values(c) \cup {NoSym}
                         /\ pick[c] \in Values(c) \cup {NoSym}
    /\ visible \in [Sym -> Tri] /\ revDep \in [Sym -> Tri] /\ implied \in [Sym -> Tri]
    /\ changed \in BOOLEAN
    /\ disk \in ConfigFile
    /\ pc \in {"start", "edit", "read", "write"}
    /\ asked \in {<<>>} \cup (Sym \X Val)
    /\ saved \in {<<>>} \cup [Named -> Val]

\* Are the calculated fields of s what calculating s again would give?
Fresh(s) ==
    /\ visible[s] = Visibility(s, curr)
    /\ revDep[s] = RevDep(s, curr)
    /\ implied[s] = Implied(s, curr)
    /\ IF s \in Choice
       THEN LET v   == [curr EXCEPT ![s] = yes]
                p   == ChoicePick(s, [x \in Sym |-> Visibility(x, v)], v)
                tri == TriValue(s, curr)
            IN IF tri = yes THEN pick[s] = p /\ curr[s] = (IF p = NoSym THEN no ELSE yes)
                            ELSE pick[s] = NoSym /\ curr[s] = tri
       ELSE curr[s] = Value(s, curr)

\* A symbol that carries SYMBOL_VALID has the value that a calculation from
\* the user's present requests would give it ("set when up to date").
UpToDate == \A s \in valid : Operands(s) \subseteq valid => Fresh(s)

\* A request that sym_set_tristate_value or sym_set_string_value accepted for
\* a symbol the user can see is the value the symbol has once it is
\* calculated again, whatever else is calculated or saved in between.
RequestHonoured ==
    asked # <<>> /\ asked[1] \in valid =>
        \/ curr[asked[1]] = asked[2]
        \/ asked[1] \in Ints /\ visible[asked[1]] = no

\* While conf_get_changed answers no, the file holds exactly what conf_write
\* would put there, which calculates every symbol again: leaving without
\* saving loses nothing.
NoLostEdits ==
    ~ changed /\ pc = "edit" /\ valid = Sym =>
        disk = [s \in Named |-> IF Written(s, curr) THEN Value(s, curr) ELSE Unset]

\* Of the visible values of a calculated choice in `y' mode one is chosen,
\* and a bool choice that can be seen and is not optional always has one.
OneOfChoice ==
    \A c \in Choice : c \in valid /\ Values(c) \subseteq valid =>
        LET on == {s \in Values(c) : curr[s] = yes /\ visible[s] # no}
        IN /\ curr[c] = yes => on = {pick[c]}
           /\ (/\ c \notin Optional \cup Tristate /\ visible[c] # no
               /\ \E s \in Values(c) : Attr(s, [curr EXCEPT ![c] = yes]).prompt # no)
              => curr[c] = yes

\* A symbol never falls below what selects it, and rises above what it can be
\* seen at only by being selected, implied or a default.
Bounded ==
    \A s \in valid \ (Choice \cup Ints) : ~ IsChoiceValue(s) =>
        /\ revDep[s] <= curr[s]
        /\ visible[s] # no /\ s \in user =>
             curr[s] <= Or3(Or3(visible[s], revDep[s]), implied[s])

\* What is saved is what is read back: reading the file that conf_write wrote
\* makes every named symbol what it was when it was written.
RoundTrip ==
    saved # <<>> /\ pc = "edit" /\ Named \subseteq valid => \A s \in Named : curr[s] = saved[s]

=============================================================================
