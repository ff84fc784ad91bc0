------------------------------ MODULE AutoConf ------------------------------
(* syncconfig: what `make' does before a build to bring the files generated  *)
(* from .config up to date (main of conf.c, conf_split_config and            *)
(* conf_write_autoconf of confdata.c, the auto.conf rule of the Makefile),   *)
(* and what a build may rely on when make was interrupted on the way.        *)
EXTENDS Naturals, Sequences

CONSTANTS
    Sym,         \* the configuration symbols
    Bool,        \* the symbols of type bool
    Val,         \* their values; "n" is one of them
    Settle(_),   \* the configuration that conf_read calculates from a file
    MaxCrashes   \* bound on the runs that are interrupted

Unset == "unset"   \* no line in a file

None == [s \in Sym |-> "none"]   \* no such file, or an unfinished one

Config == [Sym -> Val \cup {Unset}]

\* conf_write_autoconf renames its files in this order.
Generated == <<"autoconf.h", "tristate.config", "auto.conf", "auto.cmake", "auto.json">>

File == {Generated[i] : i \in DOMAIN Generated} \cup {"staging/autoconf.h"}

ASSUME ConfigAssumption ==
    /\ Bool \subseteq Sym
    /\ "n" \in Val /\ {Unset, "none"} \cap Val = {}
    /\ \A c \in Config : Settle(c) \in Config
    /\ MaxCrashes \in Nat

VARIABLES
    config,   \* .config
    gen,      \* gen[f]: the configuration that file f was generated from
    fresh,    \* auto.conf is not older than .config
    touched,  \* the symbols whose .h was touched since the last build
    pc,       \* what syncconfig does next
    new,      \* the values in the memory of conf
    todo,     \* the symbols conf_split_config has not looked at
    next,     \* the file conf_write_autoconf renames next
    built,    \* history: the value of a symbol that its objects were built with
    forgotten,  \* history: the symbols that had a line in an auto.conf that make
                \* removed, and were not touched since
    crashes

confVars == <<new, todo, next>>
histVars == <<built, forgotten>>
vars == <<config, gen, fresh, touched, pc, confVars, histVars, crashes>>
-----------------------------------------------------------------------------
\* The line of a symbol in auto.conf: `n' has none.
Line(s, v) == IF s \in Bool /\ v = "n" THEN Unset ELSE v

\* What conf_split_config reads back from auto.conf; no file, no lines.
Old(s) == IF gen["auto.conf"] = None THEN Unset ELSE Line(s, gen["auto.conf"][s])

\* Mutant: a symbol that lost its value is passed over.
DiffersNoLoss(s) ==
    /\ new[s] # Unset
    /\ IF Old(s) # Unset THEN new[s] # Old(s) ELSE s \in Bool => new[s] # "n"

\* Does conf_split_config touch the .h of s?
Differs(s) ==
    IF new[s] = Unset THEN Old(s) # Unset
    ELSE IF Old(s) # Unset THEN new[s] # Old(s)
    ELSE s \in Bool => new[s] # "n"

\* A configurator or an editor has written .config.
Save(c) ==
    /\ pc = "idle"
    /\ config' = c
    /\ fresh' = FALSE
    /\ UNCHANGED <<gen, touched, pc, confVars, histVars, crashes>>

\* make finds auto.conf older than .config, and conf reads .config.
Start ==
    /\ pc = "idle"
    /\ ~ fresh
    /\ new' = Settle(config)
    /\ pc' = "write"
    /\ UNCHANGED <<config, gen, fresh, touched, todo, next, histVars, crashes>>

\* .config is written again, in its place, when it is not what was calculated.
Rewrite ==
    /\ pc = "write"
    /\ config' = new
    /\ todo' = Sym
    /\ pc' = "split"
    /\ UNCHANGED <<gen, fresh, touched, new, next, histVars, crashes>>

\* conf_split_config, one symbol.
Touch(s) ==
    /\ pc = "split"
    /\ s \in todo
    /\ todo' = todo \ {s}
    /\ IF Differs(s) THEN touched' = touched \cup {s} /\ forgotten' = forgotten \ {s}
       ELSE UNCHANGED <<touched, forgotten>>
    /\ UNCHANGED <<config, gen, fresh, pc, new, next, built, crashes>>

\* The .tmpconfig files are written.
WriteTmp ==
    /\ pc = "split"
    /\ todo = {}
    /\ next' = 1
    /\ pc' = "rename"
    /\ UNCHANGED <<config, gen, fresh, touched, new, todo, histVars, crashes>>

\* Mutant: auto.conf gets its name first.
RenameAutoFirst ==
    /\ pc = "rename"
    /\ next \in DOMAIN Generated
    /\ LET f == <<"auto.conf", "autoconf.h", "tristate.config", "auto.cmake", "auto.json">>[next]
       IN /\ gen' = [gen EXCEPT ![f] = new]
          /\ fresh' = (fresh \/ f = "auto.conf")
    /\ next' = next + 1
    /\ UNCHANGED <<config, touched, pc, new, todo, histVars, crashes>>

\* The next file gets its name.
Rename ==
    /\ pc = "rename"
    /\ next \in DOMAIN Generated
    /\ gen' = [gen EXCEPT ![Generated[next]] = new]
    /\ fresh' = (fresh \/ Generated[next] = "auto.conf")
    /\ next' = next + 1
    /\ UNCHANGED <<config, touched, pc, new, todo, histVars, crashes>>

\* Mutant: .config is written after auto.conf.
CopyHeaderRewrite ==
    /\ pc = "rename"
    /\ next \notin DOMAIN Generated
    /\ gen' = [gen EXCEPT !["staging/autoconf.h"] = gen["autoconf.h"]]
    /\ pc' = "idle"
    /\ fresh' = FALSE
    /\ UNCHANGED <<config, touched, confVars, histVars, crashes>>

\* conf is through, and the recipe of syncconfig copies the header.
CopyHeader ==
    /\ pc = "rename"
    /\ next \notin DOMAIN Generated
    /\ gen' = [gen EXCEPT !["staging/autoconf.h"] = gen["autoconf.h"]]
    /\ pc' = "idle"
    /\ UNCHANGED <<config, fresh, touched, confVars, histVars, crashes>>

\* What the end of a run may take with it: auto.json is not flushed before conf
\* exits, and make, when a signal ends it, removes the target of the rule it is
\* in, auto.conf, if that was changed (it is not .PRECIOUS).
Removable == {f \in {"auto.conf", "auto.json"} : \E i \in 1 .. (next - 1) : Generated[i] = f}

\* make is interrupted or killed, or a step of conf fails.  A .config being
\* written in place keeps a part of its lines.
Crash ==
    /\ pc # "idle"
    /\ crashes < MaxCrashes
    /\ \/ UNCHANGED <<config, fresh, gen, forgotten>>
       \/ /\ pc = "write" /\ new # config
          /\ \E kept \in SUBSET Sym :
                config' = [s \in Sym |-> IF s \in kept THEN new[s] ELSE Unset]
          /\ fresh' = FALSE
          /\ UNCHANGED <<gen, forgotten>>
       \/ /\ pc = "rename"
          /\ \E gone \in SUBSET Removable :
                /\ gen' = [f \in File |-> IF f \in gone THEN None ELSE gen[f]]
                /\ IF "auto.conf" \in gone
                   THEN /\ fresh' = FALSE
                        /\ forgotten' = forgotten \cup {s \in Sym : Old(s) # Unset}
                   ELSE UNCHANGED <<fresh, forgotten>>
          /\ UNCHANGED config
    /\ pc' = "idle"
    /\ crashes' = crashes + 1
    /\ UNCHANGED <<touched, confVars, built>>

\* make finds auto.conf up to date, and what depends on a touched .h is built.
Build ==
    /\ pc = "idle"
    /\ fresh
    /\ built' = [s \in Sym |-> IF s \in touched THEN Line(s, gen["auto.conf"][s]) ELSE built[s]]
    /\ touched' = {}
    /\ forgotten' = forgotten \ touched
    /\ UNCHANGED <<config, gen, fresh, pc, confVars, crashes>>
-----------------------------------------------------------------------------
Init ==
    /\ config \in Config
    /\ gen = [f \in File |-> None]
    /\ fresh = FALSE
    /\ touched = {}
    /\ pc = "idle"
    /\ new = [s \in Sym |-> Unset]
    /\ todo = {}
    /\ next = 1
    /\ built = [s \in Sym |-> Unset]
    /\ forgotten = {}
    /\ crashes = 0

Sync == Start \/ Rewrite \/ (\E s \in Sym : Touch(s)) \/ WriteTmp \/ Rename \/ CopyHeader

Next == Sync \/ Crash \/ Build \/ \E c \in Config : Save(c)

\* A user who wants a build runs make again until syncconfig has succeeded.
Fairness == WF_vars(Sync)

Spec == Init /\ [][Next]_vars /\ Fairness
-----------------------------------------------------------------------------
TypeOK ==
    /\ config \in Config
    /\ gen \in [File -> Config \cup {None}]
    /\ fresh \in BOOLEAN
    /\ touched \subseteq Sym /\ todo \subseteq Sym /\ forgotten \subseteq Sym
    /\ pc \in {"idle", "write", "split", "rename"}
    /\ new \in Config
    /\ next \in 1 .. Len(Generated) + 1
    /\ built \in [Sym -> Val \cup {Unset}]
    /\ crashes \in 0 .. MaxCrashes

\* An auto.conf that make takes for up to date, whatever was interrupted
\* before, was generated from .config, and the files whose place is before it
\* were generated with it.
UpToDateMeansSynced ==
    fresh /\ pc = "idle" =>
        \A f \in {"autoconf.h", "tristate.config", "auto.conf"} : gen[f] = config

\* auto.conf `marks the successful completion of the previous steps': when make
\* takes it for up to date every file conf_write_autoconf writes is.
LastStep ==
    fresh /\ pc = "idle" => \A i \in DOMAIN Generated : gen[Generated[i]] = config

\* No object outlives its configuration, wherever syncconfig was interrupted:
\* what was not built with the present value of a symbol will be built again.
\* Only a symbol that lost its line after make removed the auto.conf that had
\* it is passed over.
NoStaleObject ==
    fresh /\ pc = "idle" =>
        \A s \in Sym : \/ built[s] = Line(s, config[s]) \/ s \in touched
                       \/ s \in forgotten /\ Line(s, config[s]) = Unset

\* `There is neither an old nor a new value': what conf_split_config passes over
\* for that was not built with a value.
NeitherOldNorNew ==
    fresh /\ pc = "idle" =>
        \A s \in Sym : Line(s, config[s]) = Unset => built[s] = Unset \/ s \in touched

\* A configuration that was saved is in the generated files in the end.
Synced == ~ fresh ~> (fresh /\ pc = "idle")
=============================================================================
