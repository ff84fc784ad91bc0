---------------------------- MODULE PackageStamps ----------------------------
(* The package infrastructure of package/Makefile.package.in.  Every step of *)
(* a package build leaves a stamp file in its build directory, and make runs *)
(* the steps that have none.  The rules are data here (Prereqs, Recipe), and *)
(* what make does with them is Descend, Command and Finish: the top Makefile *)
(* asks for .NOTPARALLEL, so make walks the prerequisites of a target in     *)
(* their order, takes up a target once per run, and then runs its recipe.    *)
EXTENDS Naturals, Sequences

CONSTANTS
    Pkg,          \* the packages
    Deps(_),      \* <PKG>_DEPENDENCIES, a sequence
    Installs(_),  \* where a package is installed: <PKG>_INSTALL_*, its _TYPE
    Override,     \* the packages with an <PKG>_OVERRIDE_SRCDIR
    Goals,        \* the targets a user may give to make
    ByHand,       \* the stamps a user may remove by hand
    Breakable     \* the targets whose recipes may fail or be interrupted

InstallStep == {"staging", "target", "images", "host"}

Fetch == {"downloaded", "extracted", "patched", "rsynced"}

Step == Fetch \cup {"configured", "built"} \cup InstallStep

Phony == {"install", "install-host", "install-staging", "install-target", "install-images",
          "build", "configure", "depends", "patch", "extract", "source",
          "rebuild", "reconfigure", "clean-for-rebuild", "clean-for-reconfigure",
          "uninstalled", "clean", "cleaned", "dircleaned"}

\* What a user may name: a file of its own only by its path.
Named == (Phony \ {"cleaned"}) \X Pkg

Target == (Step \cup Phony) \X Pkg

Elements(q) == {q[i] : i \in DOMAIN q}

DepsOf(p) == Elements(Deps(p))

\* What p needs to be installed, directly or not.
Below(p) ==
    {q \in Pkg : \A D \in SUBSET Pkg :
        DepsOf(p) \subseteq D /\ (\A d \in D : DepsOf(d) \subseteq D) => q \in D}

ASSUME PackageAssumption ==
    /\ Override \subseteq Pkg
    /\ \A p \in Pkg : Deps(p) \in Seq(Pkg) /\ Installs(p) \subseteq InstallStep
    /\ \A p \in Pkg : "host" \in Installs(p) => Installs(p) = {"host"}
    /\ \A p \in Pkg : p \notin Below(p)
    /\ Goals \subseteq Named
    /\ ByHand \subseteq Step
    /\ Breakable \subseteq Step \cup Phony

VARIABLES
    stamp,   \* stamp[p]: the steps of p whose stamp file exists
    made,    \* history: the steps of p whose result is there and made from
             \* the present results of the steps before
    edited,  \* history: the override packages with sources not synced yet
    stack,   \* the targets make is considering, the innermost last
    at,      \* the command of the innermost target that is next
    done,    \* the targets this run of make is through with
    goal,    \* the goal of the last run, <<>> before the first
    ok       \* did the last run succeed, and has nothing been touched since?

diskVars == <<stamp, made, edited>>
vars == <<stamp, made, edited, stack, at, done, goal, ok>>
-----------------------------------------------------------------------------
(* The rules.                                                                *)

On(q, p) == [i \in DOMAIN q |-> <<q[i], p>>]

\* <pkg>-install of a host package and of a target package.
InstallPrereqs(p) ==
    On(IF "host" \in Installs(p) THEN <<"install-host">>
       ELSE <<"install-staging", "install-target", "install-images">>, p)

\* The install step behind one of them.  A package that is installed nowhere is
\* not built either.
InstallStepPrereqs(s, p) == IF s \in Installs(p) THEN On(<<"build", s>>, p) ELSE <<>>

\* Mutant: the dependencies come after the configuration.
ConfigurePrereqsLate(p) ==
    On(IF p \in Override THEN <<"configured", "depends">>
       ELSE <<"patch", "configured", "depends">>, p)

ConfigurePrereqs(p) ==
    On(IF p \in Override THEN <<"depends", "configured">>
       ELSE <<"patch", "depends", "configured">>, p)

\* An override package syncs its sources before its dependencies are built.
DependsPrereqs(p) ==
    On(IF p \in Override THEN <<"rsynced">> ELSE <<>>, p)
      \o [i \in DOMAIN Deps(p) |-> <<"install", Deps(p)[i]>>]

\* The prerequisites of a target, in the order make takes them.  A package with
\* an override directory has no rule for patch and extract.
Prereqs(t) ==
    LET k == t[1]
        p == t[2]
    IN CASE k = "install" -> InstallPrereqs(p)
         [] k = "install-host" -> InstallStepPrereqs("host", p)
         [] k = "install-staging" -> InstallStepPrereqs("staging", p)
         [] k = "install-target" -> InstallStepPrereqs("target", p)
         [] k = "install-images" -> InstallStepPrereqs("images", p)
         [] k = "build" -> On(<<"configure", "built">>, p)
         [] k = "configure" -> ConfigurePrereqs(p)
         [] k = "depends" -> DependsPrereqs(p)
         [] k = "patch" /\ p \notin Override -> On(<<"extract", "patched">>, p)
         [] k = "extract" /\ p \notin Override -> On(<<"source", "extracted">>, p)
         [] k = "source" /\ p \notin Override -> On(<<"downloaded">>, p)
         [] k = "rebuild" -> On(<<"clean-for-rebuild", "install">>, p)
         [] k = "reconfigure" -> On(<<"clean-for-reconfigure", "install">>, p)
         [] k = "clean-for-reconfigure" -> On(<<"clean-for-rebuild">>, p)
         [] k = "clean" -> On(<<"uninstalled", "cleaned">>, p)
         [] OTHER -> <<>>

Rm(q) == [i \in DOMAIN q |-> <<"rm", q[i]>>]

\* Mutant: the sources of an override package are not synced again.
CleanForRebuildKeepRsync(p) == Rm(<<"built", "staging", "target", "images", "host">>)

CleanForRebuild(p) ==
    Rm((IF p \in Override THEN <<"rsynced">> ELSE <<>>)
         \o <<"built", "staging", "target", "images", "host">>)

\* Mutant: the stamps are removed after the commands that undo what they stand for.
UninstallStampsLast ==
    <<<<"undo", "staging">>, <<"undo", "target">>>> \o Rm(<<"staging", "target", "host">>)

\* `Uninstall commands tend to fail, so remove the stamp files first'.
Uninstall ==
    << <<"rm", "staging">>, <<"rm", "target">>, <<"rm", "host">>,
       <<"undo", "staging">>, <<"undo", "target">> >>

\* The commands of a target.  The steps' stamps are touched last; removing the
\* build directory removes the stamps in it.
Recipe(t) ==
    CASE t[1] \in Step -> <<<<"run", t[1]>>, <<"touch", t[1]>>>>
      [] t[1] = "clean-for-rebuild" -> CleanForRebuild(t[2])
      [] t[1] = "clean-for-reconfigure" -> Rm(<<"configured">>)
      [] t[1] = "uninstalled" -> Uninstall
      [] t[1] = "cleaned" -> <<<<"undo", "built">>, <<"rm", "built">>>>
      [] t[1] = "dircleaned" -> <<<<"rmdir", "built">>>>
      [] OTHER -> <<>>
-----------------------------------------------------------------------------
(* What the commands do to the results.                                      *)

\* The results a step reads.  An override package has no patches.
Reads(p, s) ==
    CASE s = "extracted" -> {"downloaded"}
      [] s = "patched" -> {"extracted"}
      [] s = "configured" -> IF p \in Override THEN {"rsynced"} ELSE {"patched"}
      [] s = "built" -> {"configured"} \cup (IF p \in Override THEN {"rsynced"} ELSE {})
      [] s \in InstallStep -> {"built"}
      [] OTHER -> {}

\* The results that running s leaves behind the times.  Sources synced again
\* ask for a build; whether they ask for a configuration is for the user to
\* say, with <pkg>-reconfigure.
Outdates(s) ==
    CASE s = "downloaded" -> {"extracted", "patched", "configured", "built"} \cup InstallStep
      [] s = "extracted" -> {"patched", "configured", "built"} \cup InstallStep
      [] s = "patched" -> {"configured", "built"} \cup InstallStep
      [] s \in {"rsynced", "configured"} -> {"built"} \cup InstallStep
      [] s = "built" -> InstallStep
      [] OTHER -> {}

\* The results of p once command c has run to its end.
MadeBy(p, c) ==
    CASE c[1] = "run" -> (made[p] \ (Outdates(c[2]) \cup {c[2]}))
                           \cup (IF Reads(p, c[2]) \subseteq made[p] THEN {c[2]} ELSE {})
      [] c[1] = "undo" -> made[p] \ {c[2]}
      [] c[1] = "rmdir" -> made[p] \cap (InstallStep \cup {"downloaded"})
      [] OTHER -> made[p]

\* The results of p once c has been broken off.
MadeByHalf(p, c) ==
    IF c[1] = "run" THEN made[p] \ (Outdates(c[2]) \cup {c[2]}) ELSE MadeBy(p, c)

StampBy(p, c) ==
    CASE c[1] = "touch" -> stamp[p] \cup {c[2]}
      [] c[1] = "rm" -> stamp[p] \ {c[2]}
      [] c[1] = "rmdir" -> {}
      [] OTHER -> stamp[p]
-----------------------------------------------------------------------------
Top == stack[Len(stack)]

\* The prerequisites make has not taken up, by their places; one that is under
\* way is a circular dependency, which make drops.
Unmet(t) == {i \in DOMAIN Prereqs(t) : Prereqs(t)[i] \notin done \cup Elements(stack)}

\* Is there a command of the innermost target left to run?  A stamp file has
\* only order-only prerequisites: it is up to date when it exists.
HasCommand ==
    /\ stack # <<>>
    /\ Unmet(Top) = {}
    /\ at \in DOMAIN Recipe(Top)
    /\ Top[1] \in Step => Top[1] \notin stamp[Top[2]]

Make(t) ==
    /\ stack = <<>>
    /\ stack' = <<t>>
    /\ at' = 1
    /\ goal' = t
    /\ ok' = FALSE
    /\ UNCHANGED <<diskVars, done>>

Descend ==
    /\ stack # <<>>
    /\ \E i \in Unmet(Top) :
          /\ \A j \in Unmet(Top) : i <= j
          /\ stack' = Append(stack, Prereqs(Top)[i])
    /\ UNCHANGED <<diskVars, at, done, goal, ok>>

Command ==
    /\ HasCommand
    /\ LET p == Top[2]
           c == Recipe(Top)[at]
       IN /\ made' = [made EXCEPT ![p] = MadeBy(p, c)]
          /\ stamp' = [stamp EXCEPT ![p] = StampBy(p, c)]
          /\ edited' = IF c = <<"run", "rsynced">> THEN edited \ {p} ELSE edited
    /\ at' = at + 1
    /\ UNCHANGED <<stack, done, goal, ok>>

\* A command fails, or the user interrupts make before, in or after a command:
\* the run is over.  `rm -Rf' leaves any of the stamps behind.
Break ==
    /\ stack # <<>>
    /\ HasCommand => Top[1] \in Breakable
    /\ \/ UNCHANGED diskVars
       \/ /\ HasCommand
          /\ LET p == Top[2]
                 c == Recipe(Top)[at]
             IN /\ made' = [made EXCEPT ![p] = MadeByHalf(p, c)]
                /\ UNCHANGED edited
                /\ IF c[1] = "rmdir"
                   THEN \E left \in SUBSET stamp[p] : stamp' = [stamp EXCEPT ![p] = left]
                   ELSE UNCHANGED stamp
    /\ stack' = <<>>
    /\ at' = 1
    /\ done' = {}
    /\ UNCHANGED <<goal, ok>>

\* Make is through with the innermost target.
Finish ==
    /\ stack # <<>>
    /\ Unmet(Top) = {}
    /\ ~ HasCommand
    /\ stack' = SubSeq(stack, 1, Len(stack) - 1)
    /\ at' = 1
    /\ done' = IF Len(stack) = 1 THEN {} ELSE done \cup {Top}
    /\ ok' = (Len(stack) = 1)
    /\ UNCHANGED <<diskVars, goal>>

\* The user changes the sources that an override package is synced from.
EditSource(p) ==
    /\ stack = <<>>
    /\ p \in Override
    /\ edited' = edited \cup {p}
    /\ ok' = FALSE
    /\ UNCHANGED <<stamp, made, stack, at, done, goal>>

RemoveStamp(p, s) ==
    /\ stack = <<>>
    /\ s \in ByHand \cap stamp[p]
    /\ stamp' = [stamp EXCEPT ![p] = @ \ {s}]
    /\ ok' = FALSE
    /\ UNCHANGED <<made, edited, stack, at, done, goal>>
-----------------------------------------------------------------------------
Init ==
    /\ stamp = [p \in Pkg |-> {}]
    /\ made = [p \in Pkg |-> {}]
    /\ edited = {}
    /\ stack = <<>>
    /\ at = 1
    /\ done = {}
    /\ goal = <<>>
    /\ ok = FALSE

User == \/ \E t \in Goals : Make(t)
        \/ \E p \in Pkg : EditSource(p) \/ \E s \in Step : RemoveStamp(p, s)

Next == User \/ Descend \/ Command \/ Finish \/ Break

Spec == Init /\ [][Next]_vars
-----------------------------------------------------------------------------
TypeOK ==
    /\ stamp \in [Pkg -> SUBSET Step]
    /\ made \in [Pkg -> SUBSET Step]
    /\ edited \subseteq Override
    /\ stack \in Seq(Target)
    /\ at \in Nat \ {0}
    /\ done \subseteq Target
    /\ goal \in Target \cup {<<>>}
    /\ ok \in BOOLEAN

\* A stamp tells that its step has been done, to what is there now: outside a
\* recipe, where make looks at the stamps, the result of a step it would skip is
\* made from the present results of the steps before.
StampsTrue == at = 1 => \A p \in Pkg : stamp[p] \subseteq made[p]

\* When `make <pkg>', <pkg>-rebuild or <pkg>-reconfigure succeeds, the package
\* and everything below it are installed from what is there now; the last two
\* take in sources that were edited.
Delivered ==
    ok /\ goal[1] \in {"install", "rebuild", "reconfigure"} =>
        /\ \A q \in Below(goal[2]) \cup {goal[2]} : Installs(q) \subseteq stamp[q]
        /\ \A q \in Below(goal[2]) \cup {goal[2]} : Installs(q) \subseteq made[q]
        /\ goal[1] # "install" => goal[2] \notin edited

\* A package is configured, built and installed only while everything below it
\* is installed, whatever was cleaned, uninstalled or failed before.
DepsFirst ==
    stack # <<>> /\ at > 1 /\ Top[1] \in {"configured", "built"} \cup InstallStep =>
        \A q \in Below(Top[2]) : Installs(q) \subseteq stamp[q]

\* Once `make <pkg>' succeeds the package is compiled from its configuration.
Recompiled ==
    ok /\ goal[1] = "install" =>
        LET p == goal[2] IN "built" \in stamp[p] => "built" \in made[p]
=============================================================================
