------------------------- MODULE PackageStampsProofs --------------------------
(* Packages of any number and any dependencies without a cycle: a stamp      *)
(* stands for a result that is there and current, a package is built on what *)
(* it needs, and a run of make that succeeds delivers.                       *)
EXTENDS PackageStamps, SequenceTheorems, TLAPS

\* What the runs leave out, each a disagreement or a hazard of its own: a clean
\* that keeps the stamp of images, a removal of stamps that is broken off, a
\* stamp removed by hand that later stamps rest on.
Careful ==
    /\ \A p \in Pkg : <<"clean", p>> \in Goals => "images" \notin Installs(p)
    /\ Breakable \subseteq Step \cup {"uninstalled"}
    /\ ByHand \subseteq InstallStep

\* <PKG>_INSTALL_TARGET is YES unless a package says where else it goes.
InstalledSomewhere == \A p \in Pkg : Installs(p) # {}
-----------------------------------------------------------------------------
(* The rules lead downwards, so that there is no circular dependency.        *)

Cleaning == {"clean-for-rebuild", "clean-for-reconfigure", "uninstalled", "cleaned", "dircleaned"}

Again == {"rebuild", "reconfigure"}

InstallPhony == {"install-host", "install-staging", "install-target", "install-images"}

Rank(k) ==
    CASE k \in {"source", "clean-for-reconfigure", "clean"} -> 1
      [] k = "extract" -> 2
      [] k = "patch" -> 3
      [] k = "depends" -> 4
      [] k = "configure" -> 5
      [] k = "build" -> 6
      [] k \in InstallPhony -> 7
      [] k = "install" -> 8
      [] k \in Again -> 9
      [] OTHER -> 0

Lower(u, t) == u[2] \in Below(t[2]) \/ (u[2] = t[2] /\ Rank(u[1]) < Rank(t[1]))

\* u is a prerequisite of t, and those before it are in D.
Taken(u, t, D) ==
    \E i \in DOMAIN Prereqs(t) :
        Prereqs(t)[i] = u /\ \A j \in 1 .. (i - 1) : Prereqs(t)[j] \in D

\* The stack is a path down the rules.
PathInv ==
    /\ stack # <<>> => stack[1] = goal /\ goal \in Goals
    /\ \A i \in 1 .. (Len(stack) - 1) : Taken(stack[i + 1], stack[i], done)
    /\ \A i, j \in 1 .. Len(stack) : i < j => Lower(stack[j], stack[i])
    /\ stack = <<>> => done = {} /\ at = 1

\* What is done is done with all its prerequisites, and so is a target whose
\* recipe runs.
DoneInv ==
    /\ \A t \in done : Elements(Prereqs(t)) \subseteq done
    /\ \A i \in 1 .. Len(stack) : stack[i] \notin done
    /\ at > 1 => Elements(Prereqs(Top)) \subseteq done /\ at <= Len(Recipe(Top)) + 1
-----------------------------------------------------------------------------
(* Stamps are removed before anything is made.                               *)

Cleaned == done \subseteq Cleaning \X Pkg

CleanInv ==
    /\ \A i \in 1 .. Len(stack) : stack[i][1] \in Cleaning => Cleaned
    /\ \A i, j \in 1 .. Len(stack) :
          i < j /\ stack[i][1] \in Cleaning \cup {"clean"} => stack[j][1] \in Cleaning
    /\ stack # <<>> /\ stack[1][1] = "clean" => Cleaned
    /\ stack # <<>> /\ stack[1][1] \in Again /\ Prereqs(stack[1])[1] \notin done => Cleaned

\* The stamps that a recipe removes.
Wiped(t) == {s \in Step : <<"rm", s>> \in Elements(Recipe(t))}

\* The stamps removed so far are gone; after a recipe, all of them.
WipeInv ==
    /\ stack # <<>> /\ Top[1] \in Cleaning =>
          \A i \in 1 .. (at - 1) :
              Recipe(Top)[i][1] = "rm" => Recipe(Top)[i][2] \notin stamp[Top[2]]
    /\ stack # <<>> /\ Top[1] \in Cleaning \cup Again \cup {"clean"} /\ Cleaned =>
          \A t \in done : stamp[t[2]] \cap Wiped(t) = {}
-----------------------------------------------------------------------------
(* Stamps and results.                                                       *)

\* The steps on the way to an installation.
Chain(p) ==
    IF p \in Override THEN {"rsynced", "configured", "built"}
    ELSE {"downloaded", "extracted", "patched", "configured", "built"}

\* The steps in S are made, and no step is in S without those before it.
Sound(p, S) ==
    /\ S \subseteq Chain(p) \cup Installs(p)
    /\ S \subseteq made[p]
    /\ \A r \in Chain(p) : Outdates(r) \cap S # {} => r \in S

\* The recipe that runs takes back stamps for results that may be gone already.
Wiping(p) ==
    /\ stack # <<>> /\ at > 1 /\ Top[2] = p
    /\ Top[1] \in {"clean-for-rebuild", "clean-for-reconfigure", "cleaned"}

Valid(p) == IF Wiping(p) THEN stamp[p] \ Wiped(Top) ELSE stamp[p]

SoundInv == \A p \in Pkg : Sound(p, Valid(p))

\* A step that is done has its stamp.
StepInv ==
    /\ \A t \in done : t[1] \in Step => t[1] \in stamp[t[2]]
    /\ stack # <<>> /\ Top[1] \in Step /\ at = 3 => Top[1] \in stamp[Top[2]]

\* A step that has been run has its result.
MadeInv == stack # <<>> /\ Top[1] \in Step /\ at = 2 => Top[1] \in made[Top[2]]
-----------------------------------------------------------------------------
(* What a rebuild takes in, and what a success leaves.                       *)

FreshInv ==
    stack # <<>> /\ stack[1][1] \in Again =>
        LET p == stack[1][2]
        IN /\ <<"clean-for-rebuild", p>> \in done /\ "rsynced" \in stamp[p] => p \notin edited
           /\ Top = <<"rsynced", p>> /\ at = 2 => p \notin edited

OkInv ==
    /\ ok => stack = <<>> /\ goal \in Target
    /\ ok /\ goal[1] \in {"install"} \cup Again =>
          /\ \A q \in Below(goal[2]) \cup {goal[2]} : Installs(q) \subseteq stamp[q]
          /\ goal[1] # "install" => goal[2] \notin edited
-----------------------------------------------------------------------------
(* The rules.                                                                *)

\* What p needs is below it, and below what is below.
LEMMA BelowClosed ==
    ASSUME NEW p \in Pkg
    PROVE  /\ Below(p) \subseteq Pkg /\ DepsOf(p) \subseteq Below(p)
           /\ \A q \in Below(p) : Below(q) \subseteq Below(p)
           /\ p \notin Below(p)
<1>1. DepsOf(p) \subseteq Pkg
  BY PackageAssumption DEF PackageAssumption, DepsOf, Elements
<1>2. Below(p) \subseteq Pkg /\ DepsOf(p) \subseteq Below(p)
  BY <1>1 DEF Below
<1>3. ASSUME NEW q \in Below(p), NEW r \in Below(q) PROVE r \in Below(p)
  <2>1. r \in Pkg
    BY <1>3 DEF Below
  <2>2. ASSUME NEW D \in SUBSET Pkg, DepsOf(p) \subseteq D, \A d \in D : DepsOf(d) \subseteq D
        PROVE  r \in D
    <3>1. q \in D
      BY <2>2 DEF Below
    <3> QED BY <2>2, <3>1 DEF Below
  <2> QED BY <2>1, <2>2 DEF Below
<1> QED
  BY <1>2, <1>3, PackageAssumption DEF PackageAssumption

\* One, two and three targets of a package.
LEMMA OnOne ==
    ASSUME NEW a, NEW p PROVE On(<<a>>, p) = <<<<a, p>>>>
BY DEF On

LEMMA OnTwo ==
    ASSUME NEW a, NEW b, NEW p PROVE On(<<a, b>>, p) = <<<<a, p>>, <<b, p>>>>
BY DEF On

LEMMA OnThree ==
    ASSUME NEW a, NEW b, NEW c, NEW p
    PROVE  On(<<a, b, c>>, p) = <<<<a, p>>, <<b, p>>, <<c, p>>>>
BY DEF On

LEMMA ElementsOf ==
    /\ Elements(<<>>) = {}
    /\ \A a : Elements(<<a>>) = {a}
    /\ \A a, b : Elements(<<a, b>>) = {a, b}
    /\ \A a, b, c : Elements(<<a, b, c>>) = {a, b, c}
<1>1. Elements(<<>>) = {}
  BY DEF Elements
<1>2. ASSUME NEW a PROVE Elements(<<a>>) = {a}
  BY DEF Elements
<1>3. ASSUME NEW a, NEW b PROVE Elements(<<a, b>>) = {a, b}
  <2>1. DOMAIN <<a, b>> = 1 .. 2 /\ 1 .. 2 = {1, 2}
    OBVIOUS
  <2> QED BY <2>1 DEF Elements
<1>4. ASSUME NEW a, NEW b, NEW c PROVE Elements(<<a, b, c>>) = {a, b, c}
  <2>1. DOMAIN <<a, b, c>> = 1 .. 3 /\ 1 .. 3 = {1, 2, 3}
    OBVIOUS
  <2> QED BY <2>1 DEF Elements
<1> QED
  BY <1>1, <1>2, <1>3, <1>4

\* The rules of a package, one by one.
RulesOf(p) ==
    /\ Prereqs(<<"install", p>>) =
         IF "host" \in Installs(p) THEN <<<<"install-host", p>>>>
         ELSE <<<<"install-staging", p>>, <<"install-target", p>>, <<"install-images", p>>>>
    /\ Prereqs(<<"install-host", p>>) = InstallStepPrereqs("host", p)
    /\ Prereqs(<<"install-staging", p>>) = InstallStepPrereqs("staging", p)
    /\ Prereqs(<<"install-target", p>>) = InstallStepPrereqs("target", p)
    /\ Prereqs(<<"install-images", p>>) = InstallStepPrereqs("images", p)
    /\ Prereqs(<<"build", p>>) = <<<<"configure", p>>, <<"built", p>>>>
    /\ Prereqs(<<"configure", p>>) =
         IF p \in Override THEN <<<<"depends", p>>, <<"configured", p>>>>
         ELSE <<<<"patch", p>>, <<"depends", p>>, <<"configured", p>>>>
    /\ Prereqs(<<"depends", p>>) = DependsPrereqs(p)
    /\ Prereqs(<<"patch", p>>) =
         IF p \in Override THEN <<>> ELSE <<<<"extract", p>>, <<"patched", p>>>>
    /\ Prereqs(<<"extract", p>>) =
         IF p \in Override THEN <<>> ELSE <<<<"source", p>>, <<"extracted", p>>>>
    /\ Prereqs(<<"source", p>>) =
         IF p \in Override THEN <<>> ELSE <<<<"downloaded", p>>>>
    /\ Prereqs(<<"rebuild", p>>) = <<<<"clean-for-rebuild", p>>, <<"install", p>>>>
    /\ Prereqs(<<"reconfigure", p>>) = <<<<"clean-for-reconfigure", p>>, <<"install", p>>>>
    /\ Prereqs(<<"clean-for-reconfigure", p>>) = <<<<"clean-for-rebuild", p>>>>
    /\ Prereqs(<<"clean", p>>) = <<<<"uninstalled", p>>, <<"cleaned", p>>>>
    /\ \A k \in Step \cup {"clean-for-rebuild", "uninstalled", "cleaned", "dircleaned"} :
          Prereqs(<<k, p>>) = <<>>

LEMMA Rules ==
    ASSUME NEW p \in Pkg
    PROVE  RulesOf(p)
<1> USE OnOne, OnTwo, OnThree DEF Prereqs
<1>1. Prereqs(<<"install", p>>) = InstallPrereqs(p)
  OBVIOUS
<1>2. InstallPrereqs(p) = IF "host" \in Installs(p) THEN <<<<"install-host", p>>>>
        ELSE <<<<"install-staging", p>>, <<"install-target", p>>, <<"install-images", p>>>>
  BY DEF InstallPrereqs
<1>3. /\ Prereqs(<<"install-host", p>>) = InstallStepPrereqs("host", p)
      /\ Prereqs(<<"install-staging", p>>) = InstallStepPrereqs("staging", p)
      /\ Prereqs(<<"install-target", p>>) = InstallStepPrereqs("target", p)
      /\ Prereqs(<<"install-images", p>>) = InstallStepPrereqs("images", p)
  OBVIOUS
<1>4. Prereqs(<<"build", p>>) = <<<<"configure", p>>, <<"built", p>>>>
  OBVIOUS
<1>5. Prereqs(<<"configure", p>>) = ConfigurePrereqs(p)
  OBVIOUS
<1>6. ConfigurePrereqs(p) =
        IF p \in Override THEN <<<<"depends", p>>, <<"configured", p>>>>
        ELSE <<<<"patch", p>>, <<"depends", p>>, <<"configured", p>>>>
  BY DEF ConfigurePrereqs
<1>7. Prereqs(<<"depends", p>>) = DependsPrereqs(p)
  OBVIOUS
<1>8. /\ Prereqs(<<"patch", p>>) =
            IF p \in Override THEN <<>> ELSE <<<<"extract", p>>, <<"patched", p>>>>
      /\ Prereqs(<<"extract", p>>) =
            IF p \in Override THEN <<>> ELSE <<<<"source", p>>, <<"extracted", p>>>>
      /\ Prereqs(<<"source", p>>) =
            IF p \in Override THEN <<>> ELSE <<<<"downloaded", p>>>>
  OBVIOUS
<1>9. /\ Prereqs(<<"rebuild", p>>) = <<<<"clean-for-rebuild", p>>, <<"install", p>>>>
      /\ Prereqs(<<"reconfigure", p>>) = <<<<"clean-for-reconfigure", p>>, <<"install", p>>>>
  OBVIOUS
<1>10. /\ Prereqs(<<"clean-for-reconfigure", p>>) = <<<<"clean-for-rebuild", p>>>>
       /\ Prereqs(<<"clean", p>>) = <<<<"uninstalled", p>>, <<"cleaned", p>>>>
  OBVIOUS
<1>11. \A k \in Step \cup {"clean-for-rebuild", "uninstalled", "cleaned", "dircleaned"} :
         Prereqs(<<k, p>>) = <<>>
  BY DEF Step, Fetch, InstallStep
<1> QED
  BY <1>1, <1>2, <1>3, <1>4, <1>5, <1>6, <1>7, <1>8, <1>9, <1>10, <1>11, Zenon DEF RulesOf

LEMMA InstallStepRule ==
    ASSUME NEW p \in Pkg, NEW s \in InstallStep
    PROVE  InstallStepPrereqs(s, p) =
              IF s \in Installs(p) THEN <<<<"build", p>>, <<s, p>>>> ELSE <<>>
BY OnTwo DEF InstallStepPrereqs

\* An override package is synced, and then every package it depends on is
\* installed.
LEMMA DependsRule ==
    ASSUME NEW p \in Pkg
    PROVE  /\ DependsPrereqs(p) \in Seq(Target)
           /\ Elements(DependsPrereqs(p)) =
                (IF p \in Override THEN {<<"rsynced", p>>} ELSE {})
                  \cup {<<"install", q>> : q \in DepsOf(p)}
<1> DEFINE own == On(IF p \in Override THEN <<"rsynced">> ELSE <<>>, p)
           others == [i \in DOMAIN Deps(p) |-> <<"install", Deps(p)[i]>>]
<1>1. own = IF p \in Override THEN <<<<"rsynced", p>>>> ELSE <<>>
  BY OnOne DEF On
<1>2. Deps(p) \in Seq(Pkg)
  BY PackageAssumption DEF PackageAssumption
<1>3. own \in Seq(Target) /\ others \in Seq(Target) /\ DependsPrereqs(p) = own \o others
  <2>1. {<<"rsynced", p>>} \cup {<<"install", q>> : q \in Pkg} \subseteq Target
    BY DEF Target, Step, Fetch, Phony
  <2>2. own \in Seq(Target)
    <3>1. <<<<"rsynced", p>>>> \in Seq(Target) /\ <<>> \in Seq(Target)
      BY <2>1
    <3> QED BY <1>1, <3>1
  <2>3. others \in Seq(Target)
    BY <1>2, <2>1
  <2> QED BY <2>2, <2>3 DEF DependsPrereqs
<1>4. Elements(own) = IF p \in Override THEN {<<"rsynced", p>>} ELSE {}
  BY <1>1 DEF Elements
<1>5. Elements(others) = {<<"install", q>> : q \in DepsOf(p)}
  BY <1>2 DEF Elements, DepsOf
<1>6. Elements(own \o others) = Elements(own) \cup Elements(others)
  <2>1. Elements(own \o others) = Range(own \o others)
    BY DEF Elements, Range
  <2>2. Elements(own) = Range(own) /\ Elements(others) = Range(others)
    BY DEF Elements, Range
  <2> HIDE DEF own, others
  <2> QED BY <1>3, <2>1, <2>2, RangeConcatenation
<1> QED
  BY <1>3, <1>4, <1>5, <1>6

\* A prerequisite is lower: of the same package and of a lower rank, or of a
\* package below.
LEMMA Down ==
    ASSUME NEW p \in Pkg, NEW k \in Step \cup Phony
    PROVE  /\ Prereqs(<<k, p>>) \in Seq(Target)
           /\ \A i \in DOMAIN Prereqs(<<k, p>>) : Lower(Prereqs(<<k, p>>)[i], <<k, p>>)
<1> DEFINE Good(q) ==
        q \in Seq(Target) /\ \A i \in DOMAIN q : Lower(q[i], <<k, p>>)
<1>0. RulesOf(p)
  BY Rules
<1>1. \A a \in Step \cup Phony : <<a, p>> \in Target
  BY DEF Target
<1>2. \A a : Rank(a) < Rank(k) => Lower(<<a, p>>, <<k, p>>)
  BY DEF Lower
<1>3. Good(<<>>)
  OBVIOUS
<1>4. \A a \in Step \cup Phony : Rank(a) < Rank(k) => Good(<<<<a, p>>>>)
  BY <1>1, <1>2
<1>5. \A a, b \in Step \cup Phony :
        Rank(a) < Rank(k) /\ Rank(b) < Rank(k) => Good(<<<<a, p>>, <<b, p>>>>)
  BY <1>1, <1>2
<1>6. \A a, b, c \in Step \cup Phony :
        Rank(a) < Rank(k) /\ Rank(b) < Rank(k) /\ Rank(c) < Rank(k) =>
            Good(<<<<a, p>>, <<b, p>>, <<c, p>>>>)
  BY <1>1, <1>2
<1>7. Good(DependsPrereqs(p)) \/ k # "depends"
  <2> SUFFICES ASSUME k = "depends" PROVE Good(DependsPrereqs(p))
    OBVIOUS
  <2>1. ASSUME NEW u \in Elements(DependsPrereqs(p)) PROVE Lower(u, <<k, p>>)
    <3>1. CASE u = <<"rsynced", p>>
      BY <3>1 DEF Lower, Rank, Again, InstallPhony
    <3>2. CASE \E q \in DepsOf(p) : u = <<"install", q>>
      BY <3>2, BelowClosed DEF Lower
    <3> QED BY <2>1, <3>1, <3>2, DependsRule
  <2> QED BY <2>1, DependsRule DEF Elements
<1> HIDE DEF Good
<1>8. /\ \A a \in Step \cup {"clean-for-rebuild", "uninstalled", "cleaned", "dircleaned"} :
            Rank(a) = 0 /\ a \in Step \cup Phony
      /\ \A a \in {"source", "clean-for-reconfigure", "clean"} : Rank(a) = 1 /\ a \in Phony
      /\ Rank("extract") = 2 /\ Rank("patch") = 3 /\ Rank("depends") = 4
      /\ Rank("configure") = 5 /\ Rank("build") = 6 /\ Rank("install") = 8
      /\ \A a \in InstallPhony : Rank(a) = 7 /\ a \in Phony
      /\ \A a \in Again : Rank(a) = 9 /\ a \in Phony
      /\ {"extract", "patch", "depends", "configure", "build", "install"} \subseteq Phony
      /\ {"downloaded", "extracted", "patched", "configured", "built"} \subseteq Step
      /\ InstallStep \subseteq Step
  BY DEF Rank, Phony, Step, Fetch, InstallStep, Again, InstallPhony
<1> HIDE DEF Rank
<1>9. Good(Prereqs(<<k, p>>))
  <2>1. CASE k = "install"
    <3>1. /\ Good(<<<<"install-host", p>>>>)
          /\ Good(<<<<"install-staging", p>>, <<"install-target", p>>, <<"install-images", p>>>>)
      BY <2>1, <1>4, <1>6, <1>8 DEF InstallPhony
    <3> QED BY <2>1, <3>1, <1>0 DEF RulesOf
  <2>2. CASE k \in InstallPhony
    <3>1. ASSUME NEW s \in InstallStep PROVE Good(InstallStepPrereqs(s, p))
      <4>1. Good(<<<<"build", p>>, <<s, p>>>>)
        BY <2>2, <1>5, <1>8
      <4> QED BY <4>1, <1>3, InstallStepRule
    <3> QED BY <2>2, <3>1, <1>0 DEF RulesOf, InstallPhony, InstallStep
  <2>3. CASE k = "build"
    <3>1. Good(<<<<"configure", p>>, <<"built", p>>>>)
      BY <2>3, <1>5, <1>8
    <3> QED BY <2>3, <3>1, <1>0 DEF RulesOf
  <2>4. CASE k = "configure"
    <3>1. Good(<<<<"depends", p>>, <<"configured", p>>>>)
      BY <2>4, <1>5, <1>8
    <3>2. Good(<<<<"patch", p>>, <<"depends", p>>, <<"configured", p>>>>)
      BY <2>4, <1>6, <1>8
    <3> QED BY <2>4, <3>1, <3>2, <1>0 DEF RulesOf
  <2>5. CASE k = "depends"
    BY <2>5, <1>7, <1>0 DEF RulesOf
  <2>6. CASE k \in {"patch", "extract", "source"}
    <3>1. k = "patch" => Good(<<<<"extract", p>>, <<"patched", p>>>>)
      BY <1>5, <1>8
    <3>2. k = "extract" => Good(<<<<"source", p>>, <<"extracted", p>>>>)
      BY <1>5, <1>8
    <3>3. k = "source" => Good(<<<<"downloaded", p>>>>)
      BY <1>4, <1>8
    <3> QED BY <2>6, <1>3, <3>1, <3>2, <3>3, <1>0 DEF RulesOf
  <2>7. CASE k \in Again
    <3>1. \A a \in {"clean-for-rebuild", "clean-for-reconfigure"} :
            Good(<<<<a, p>>, <<"install", p>>>>)
      BY <2>7, <1>5, <1>8
    <3> QED BY <2>7, <3>1, <1>0 DEF RulesOf, Again
  <2>8. CASE k \in {"clean-for-reconfigure", "clean"}
    <3>1. Good(<<<<"clean-for-rebuild", p>>>>) /\ Good(<<<<"uninstalled", p>>, <<"cleaned", p>>>>)
      BY <2>8, <1>4, <1>5, <1>8
    <3> QED BY <2>8, <3>1, <1>0 DEF RulesOf
  <2>9. CASE k \in Step \cup {"clean-for-rebuild", "uninstalled", "cleaned", "dircleaned"}
    BY <2>9, <1>3, <1>0 DEF RulesOf
  <2> QED BY <2>1, <2>2, <2>3, <2>4, <2>5, <2>6, <2>7, <2>8, <2>9 DEF Phony, InstallPhony, Again
<1> QED
  BY <1>9 DEF Good

\* Whose prerequisite a target is.
Parent(u, t, i) ==
    LET s == u[1]
        p == u[2]
        q == Prereqs(t)
    IN /\ p \in Pkg /\ (t[2] = p \/ (s = "install" /\ t[1] = "depends"))
       /\ s = "downloaded" => t = <<"source", p>> /\ p \notin Override
       /\ s = "extracted" =>
            t = <<"extract", p>> /\ p \notin Override /\ i = 2 /\ q[1] = <<"source", p>>
       /\ s = "patched" =>
            t = <<"patch", p>> /\ p \notin Override /\ i = 2 /\ q[1] = <<"extract", p>>
       /\ s = "rsynced" => t = <<"depends", p>> /\ p \in Override
       /\ s = "configured" =>
            /\ t = <<"configure", p>>
            /\ p \in Override => i = 2 /\ q[1] = <<"depends", p>>
            /\ p \notin Override => i = 3 /\ q[1] = <<"patch", p>> /\ q[2] = <<"depends", p>>
       /\ s = "built" => t = <<"build", p>> /\ i = 2 /\ q[1] = <<"configure", p>>
       /\ s \in InstallStep => s \in Installs(p) /\ i = 2 /\ q[1] = <<"build", p>>
       /\ s \in Cleaning => t[1] \in Cleaning \cup Again \cup {"clean"}
       /\ s = "clean-for-reconfigure" => t = <<"reconfigure", p>>
       /\ s = "cleaned" => t = <<"clean", p>> /\ i = 2 /\ q[1] = <<"uninstalled", p>>
       /\ s \notin Again \cup {"clean"}
       /\ t[1] \in Cleaning \cup {"clean"} => s \in Cleaning
       /\ t[1] \in Again => (i = 1 /\ s \in Cleaning) \/ (i = 2 /\ s = "install")

LEMMA Parents ==
    ASSUME NEW p \in Pkg, NEW k \in Step \cup Phony, NEW i \in DOMAIN Prereqs(<<k, p>>)
    PROVE  Parent(Prereqs(<<k, p>>)[i], <<k, p>>, i)
<1> DEFINE t == <<k, p>>
           P(u) == Parent(u, t, i)
<1>0. RulesOf(p)
  BY Rules
<1> USE DEF Parent, Cleaning, Again, InstallStep
<1>1. CASE k = "install"
  <2>1. CASE "host" \in Installs(p)
    <3>1. Prereqs(t) = <<<<"install-host", p>>>> /\ i = 1
      BY <1>1, <2>1, <1>0 DEF RulesOf
    <3> QED BY <1>1, <3>1
  <2>2. CASE "host" \notin Installs(p)
    <3>1. /\ Prereqs(t) = <<<<"install-staging", p>>, <<"install-target", p>>, <<"install-images", p>>>>
          /\ i \in 1 .. 3
      BY <1>1, <2>2, <1>0 DEF RulesOf
    <3> QED BY <1>1, <3>1
  <2> QED BY <2>1, <2>2
<1>2. CASE k \in InstallPhony
  <2>1. PICK s \in InstallStep : Prereqs(t) = InstallStepPrereqs(s, p)
    BY <1>2, <1>0 DEF RulesOf, InstallPhony
  <2>2. s \in Installs(p) /\ Prereqs(t) = <<<<"build", p>>, <<s, p>>>>
    BY <2>1, InstallStepRule
  <2>3. i \in 1 .. 2
    BY <2>2
  <2> QED BY <1>2, <2>2, <2>3 DEF InstallPhony
<1>3. CASE k = "build"
  <2>1. Prereqs(t) = <<<<"configure", p>>, <<"built", p>>>> /\ i \in 1 .. 2
    BY <1>3, <1>0 DEF RulesOf
  <2> QED BY <1>3, <2>1
<1>4. CASE k = "configure"
  <2>1. CASE p \in Override
    <3>1. Prereqs(t) = <<<<"depends", p>>, <<"configured", p>>>> /\ i \in 1 .. 2
      BY <1>4, <2>1, <1>0 DEF RulesOf
    <3> QED BY <1>4, <2>1, <3>1
  <2>2. CASE p \notin Override
    <3>1. /\ Prereqs(t) = <<<<"patch", p>>, <<"depends", p>>, <<"configured", p>>>>
          /\ i \in 1 .. 3
      BY <1>4, <2>2, <1>0 DEF RulesOf
    <3> QED BY <1>4, <2>2, <3>1
  <2> QED BY <2>1, <2>2
<1>5. CASE k = "depends"
  <2>1. Prereqs(t)[i] \in Elements(DependsPrereqs(p))
    BY <1>5, <1>0 DEF RulesOf, Elements
  <2>2. CASE p \in Override /\ Prereqs(t)[i] = <<"rsynced", p>>
    BY <1>5, <2>2
  <2>3. CASE \E q \in DepsOf(p) : Prereqs(t)[i] = <<"install", q>>
    <3>1. PICK q \in Pkg : Prereqs(t)[i] = <<"install", q>>
      BY <2>3, BelowClosed
    <3> QED BY <1>5, <3>1
  <2> QED BY <2>1, <2>2, <2>3, DependsRule
<1>6. CASE k \in {"patch", "extract", "source"}
  <2>1. p \notin Override
    BY <1>6, <1>0 DEF RulesOf
  <2>2. CASE k = "patch"
    <3>1. Prereqs(t) = <<<<"extract", p>>, <<"patched", p>>>> /\ i \in 1 .. 2
      BY <2>1, <2>2, <1>0 DEF RulesOf
    <3> QED BY <2>1, <2>2, <3>1
  <2>3. CASE k = "extract"
    <3>1. Prereqs(t) = <<<<"source", p>>, <<"extracted", p>>>> /\ i \in 1 .. 2
      BY <2>1, <2>3, <1>0 DEF RulesOf
    <3> QED BY <2>1, <2>3, <3>1
  <2>4. CASE k = "source"
    <3>1. Prereqs(t) = <<<<"downloaded", p>>>> /\ i = 1
      BY <2>1, <2>4, <1>0 DEF RulesOf
    <3> QED BY <2>1, <2>4, <3>1
  <2> QED BY <1>6, <2>2, <2>3, <2>4
<1>7. CASE k \in Again
  <2>1. PICK a \in {"clean-for-rebuild", "clean-for-reconfigure"} :
            /\ Prereqs(t) = <<<<a, p>>, <<"install", p>>>>
            /\ a = "clean-for-reconfigure" => k = "reconfigure"
    BY <1>7, <1>0 DEF RulesOf
  <2>2. i \in 1 .. 2
    BY <2>1
  <2> QED BY <1>7, <2>1, <2>2
<1>8. CASE k \in {"clean-for-reconfigure", "clean"}
  <2>1. CASE k = "clean-for-reconfigure"
    <3>1. Prereqs(t) = <<<<"clean-for-rebuild", p>>>> /\ i = 1
      BY <2>1, <1>0 DEF RulesOf
    <3> QED BY <2>1, <3>1
  <2>2. CASE k = "clean"
    <3>1. Prereqs(t) = <<<<"uninstalled", p>>, <<"cleaned", p>>>> /\ i \in 1 .. 2
      BY <2>2, <1>0 DEF RulesOf
    <3> QED BY <2>2, <3>1
  <2> QED BY <1>8, <2>1, <2>2
<1>9. CASE k \in Step \cup {"clean-for-rebuild", "uninstalled", "cleaned", "dircleaned"}
  <2>1. Prereqs(t) = <<>>
    BY <1>9, <1>0 DEF RulesOf
  <2> QED BY <2>1
<1> QED
  BY <1>1, <1>2, <1>3, <1>4, <1>5, <1>6, <1>7, <1>8, <1>9 DEF Phony, InstallPhony

Closed(D) == \A t \in D : Elements(Prereqs(t)) \subseteq D

\* A package that is configured in this run of make has been through the steps
\* before, and what it depends on is installed.
Through(p, D) ==
    /\ <<"source", p>> \in D /\ p \notin Override => <<"downloaded", p>> \in D
    /\ <<"extract", p>> \in D /\ p \notin Override =>
          {<<"downloaded", p>>, <<"extracted", p>>} \subseteq D
    /\ <<"patch", p>> \in D /\ p \notin Override =>
          {<<"downloaded", p>>, <<"extracted", p>>, <<"patched", p>>} \subseteq D
    /\ <<"depends", p>> \in D =>
          /\ p \in Override => <<"rsynced", p>> \in D
          /\ \A q \in DepsOf(p) : <<"install", q>> \in D
    /\ <<"configure", p>> \in D =>
          /\ <<"depends", p>> \in D
          /\ \A r \in Chain(p) \ {"built"} : <<r, p>> \in D
    /\ <<"build", p>> \in D =>
          /\ <<"depends", p>> \in D
          /\ \A r \in Chain(p) : <<r, p>> \in D
    /\ <<"install", p>> \in D =>
          /\ \A s \in Installs(p) : <<s, p>> \in D
          /\ Installs(p) # {} => <<"build", p>> \in D

LEMMA ConfigureDone ==
    ASSUME NEW D, Closed(D), NEW p \in Pkg
    PROVE  Through(p, D)
<1>0. RulesOf(p)
  BY Rules
<1>1. <<"source", p>> \in D /\ p \notin Override => <<"downloaded", p>> \in D
  BY <1>0, ElementsOf DEF RulesOf, Closed
<1>2. <<"extract", p>> \in D /\ p \notin Override =>
        {<<"source", p>>, <<"extracted", p>>} \subseteq D
  <2>1. p \notin Override => Elements(Prereqs(<<"extract", p>>)) = {<<"source", p>>, <<"extracted", p>>}
    BY <1>0, ElementsOf DEF RulesOf
  <2> QED BY <2>1 DEF Closed
<1>3. <<"patch", p>> \in D /\ p \notin Override =>
        {<<"extract", p>>, <<"patched", p>>} \subseteq D
  <2>1. p \notin Override => Elements(Prereqs(<<"patch", p>>)) = {<<"extract", p>>, <<"patched", p>>}
    BY <1>0, ElementsOf DEF RulesOf
  <2> QED BY <2>1 DEF Closed
<1>4. <<"depends", p>> \in D =>
        /\ p \in Override => <<"rsynced", p>> \in D
        /\ \A q \in DepsOf(p) : <<"install", q>> \in D
  <2>1. Prereqs(<<"depends", p>>) = DependsPrereqs(p)
    BY <1>0 DEF RulesOf
  <2> QED BY <2>1, DependsRule DEF Closed
<1>5. <<"configure", p>> \in D =>
        /\ {<<"depends", p>>, <<"configured", p>>} \subseteq D
        /\ p \notin Override => <<"patch", p>> \in D
  <2>1. CASE p \in Override
    <3>1. Elements(Prereqs(<<"configure", p>>)) = {<<"depends", p>>, <<"configured", p>>}
      BY <1>0, <2>1, ElementsOf DEF RulesOf
    <3> QED BY <2>1, <3>1 DEF Closed
  <2>2. CASE p \notin Override
    <3>1. Prereqs(<<"configure", p>>) = <<<<"patch", p>>, <<"depends", p>>, <<"configured", p>>>>
      BY <1>0, <2>2 DEF RulesOf
    <3>2. Elements(<<<<"patch", p>>, <<"depends", p>>, <<"configured", p>>>>) =
            {<<"patch", p>>, <<"depends", p>>, <<"configured", p>>}
      BY ElementsOf
    <3>3. Elements(Prereqs(<<"configure", p>>)) =
            {<<"patch", p>>, <<"depends", p>>, <<"configured", p>>}
      BY <3>1, <3>2
    <3> QED BY <3>3 DEF Closed
  <2> QED BY <2>1, <2>2
<1>6. <<"build", p>> \in D => {<<"configure", p>>, <<"built", p>>} \subseteq D
  <2>1. Elements(Prereqs(<<"build", p>>)) = {<<"configure", p>>, <<"built", p>>}
    <3>1. Prereqs(<<"build", p>>) = <<<<"configure", p>>, <<"built", p>>>>
      BY <1>0 DEF RulesOf
    <3>2. Elements(<<<<"configure", p>>, <<"built", p>>>>) = {<<"configure", p>>, <<"built", p>>}
      BY ElementsOf
    <3> QED BY <3>1, <3>2
  <2> QED BY <2>1 DEF Closed
<1>7. ASSUME <<"install", p>> \in D, NEW s \in Installs(p)
      PROVE  <<s, p>> \in D /\ <<"build", p>> \in D
  <2>1. s \in InstallStep /\ ("host" \in Installs(p) => s = "host")
    BY PackageAssumption DEF PackageAssumption
  <2>2. PICK k \in InstallPhony :
            <<k, p>> \in D /\ Prereqs(<<k, p>>) = InstallStepPrereqs(s, p)
    <3>1. CASE "host" \in Installs(p)
      <4>1. Elements(Prereqs(<<"install", p>>)) = {<<"install-host", p>>}
        BY <1>0, <3>1, ElementsOf DEF RulesOf
      <4> QED BY <1>0, <1>7, <2>1, <3>1, <4>1 DEF RulesOf, Closed, InstallPhony
    <3>2. CASE "host" \notin Installs(p)
      <4>0. Prereqs(<<"install", p>>) =
              <<<<"install-staging", p>>, <<"install-target", p>>, <<"install-images", p>>>>
        BY <1>0, <3>2 DEF RulesOf
      <4>01. Elements(<<<<"install-staging", p>>, <<"install-target", p>>, <<"install-images", p>>>>)
               = {<<"install-staging", p>>, <<"install-target", p>>, <<"install-images", p>>}
        BY ElementsOf
      <4>1. Elements(Prereqs(<<"install", p>>)) =
              {<<"install-staging", p>>, <<"install-target", p>>, <<"install-images", p>>}
        BY <4>0, <4>01
      <4>2. {<<"install-staging", p>>, <<"install-target", p>>, <<"install-images", p>>} \subseteq D
        BY <1>7, <4>1 DEF Closed
      <4>3. s \in {"staging", "target", "images"}
        BY <2>1, <3>2 DEF InstallStep
      <4> QED BY <1>0, <4>2, <4>3 DEF RulesOf, InstallPhony
    <3> QED BY <3>1, <3>2
  <2>3. Elements(Prereqs(<<k, p>>)) = {<<"build", p>>, <<s, p>>}
    BY <2>1, <2>2, InstallStepRule, ElementsOf
  <2> QED BY <2>2, <2>3 DEF Closed
<1> QED
  BY <1>1, <1>2, <1>3, <1>4, <1>5, <1>6, <1>7 DEF Through, Chain

\* When make takes up a step, the steps before it are done in this run, and
\* what a configuration, a build or an installation needs is installed.
Ready(p, s) ==
    /\ s \in Chain(p) \cup Installs(p)
    /\ \A r \in Chain(p) : s \in Outdates(r) => <<r, p>> \in done
    /\ \A r \in Reads(p, s) : r \in Chain(p) /\ <<r, p>> \in done
    /\ s \in {"configured", "built"} \cup InstallStep =>
          \A q \in DepsOf(p) : <<"install", q>> \in done

LEMMA StepReady ==
    ASSUME Closed(done), NEW t \in Target, NEW p, NEW s \in Step, Taken(<<s, p>>, t, done)
    PROVE  p \in Pkg /\ Ready(p, s)
<1>1. PICK i \in DOMAIN Prereqs(t) :
          Prereqs(t)[i] = <<s, p>> /\ \A j \in 1 .. (i - 1) : Prereqs(t)[j] \in done
  BY DEF Taken
<1>2. Parent(<<s, p>>, t, i)
  <2>1. PICK k \in Step \cup Phony, q \in Pkg : t = <<k, q>>
    BY DEF Target
  <2> QED BY <1>1, <2>1, Parents
<1>3. p \in Pkg
  BY <1>2 DEF Parent
<1>T. Through(p, done)
  BY <1>3, ConfigureDone
<1>4. i = 2 => Prereqs(t)[1] \in done
  BY <1>1
<1>5. i = 3 => Prereqs(t)[1] \in done /\ Prereqs(t)[2] \in done
  BY <1>1
<1>6. CASE s = "downloaded"
  BY <1>2, <1>3, <1>6 DEF Parent, Ready, Chain, Outdates, Reads, InstallStep
<1>7. CASE s = "extracted"
  <2>1. p \notin Override /\ <<"downloaded", p>> \in done
    BY <1>2, <1>3, <1>4, <1>7, <1>T DEF Parent, Through
  <2> QED BY <1>3, <1>7, <2>1 DEF Ready, Chain, Outdates, Reads, InstallStep
<1>8. CASE s = "patched"
  <2>1. p \notin Override /\ {<<"downloaded", p>>, <<"extracted", p>>} \subseteq done
    BY <1>2, <1>3, <1>4, <1>8, <1>T DEF Parent, Through
  <2> QED BY <1>3, <1>8, <2>1 DEF Ready, Chain, Outdates, Reads, InstallStep
<1>9. CASE s = "rsynced"
  <2>1. p \in Override
    BY <1>2, <1>9 DEF Parent
  <2> QED BY <1>3, <1>9, <2>1 DEF Ready, Chain, Outdates, Reads, InstallStep
<1>10. CASE s = "configured"
  <2>1. /\ <<"depends", p>> \in done
        /\ p \notin Override => <<"patch", p>> \in done
    BY <1>2, <1>3, <1>4, <1>5, <1>10 DEF Parent
  <2>2. /\ \A q \in DepsOf(p) : <<"install", q>> \in done
        /\ p \in Override => <<"rsynced", p>> \in done
        /\ p \notin Override =>
             {<<"downloaded", p>>, <<"extracted", p>>, <<"patched", p>>} \subseteq done
    BY <2>1, <1>T DEF Through
  <2> QED BY <1>3, <1>10, <2>2 DEF Ready, Chain, Outdates, Reads, InstallStep
<1>11. CASE s = "built"
  <2>1. <<"configure", p>> \in done
    BY <1>2, <1>4, <1>11 DEF Parent
  <2>2. /\ \A q \in DepsOf(p) : <<"install", q>> \in done
        /\ \A r \in Chain(p) \ {"built"} : <<r, p>> \in done
    BY <2>1, <1>T DEF Through
  <2> QED BY <1>3, <1>11, <2>2 DEF Ready, Chain, Outdates, Reads, InstallStep
<1>12. CASE s \in InstallStep
  <2>1. <<"build", p>> \in done /\ s \in Installs(p)
    BY <1>2, <1>4, <1>12 DEF Parent
  <2>2. /\ \A q \in DepsOf(p) : <<"install", q>> \in done
        /\ \A r \in Chain(p) : <<r, p>> \in done
    BY <2>1, <1>T DEF Through
  <2>3. Reads(p, s) = {"built"} /\ "built" \in Chain(p)
    BY <1>12 DEF Reads, InstallStep, Chain
  <2> QED BY <1>3, <2>1, <2>2, <2>3 DEF Ready
<1> QED
  BY <1>6, <1>7, <1>8, <1>9, <1>10, <1>11, <1>12 DEF Step, Fetch
-----------------------------------------------------------------------------
(* Types.                                                                    *)

LEMMA PrereqTarget ==
    ASSUME NEW t \in Target
    PROVE  /\ Prereqs(t) \in Seq(Target)
           /\ \A i \in DOMAIN Prereqs(t) :
                Prereqs(t)[i] \in Target /\ Lower(Prereqs(t)[i], t) /\ Parent(Prereqs(t)[i], t, i)
<1>1. PICK k \in Step \cup Phony, p \in Pkg : t = <<k, p>>
  BY DEF Target
<1>2. Prereqs(t) \in Seq(Target)
  BY <1>1, Down
<1>3. \A i \in DOMAIN Prereqs(t) : Prereqs(t)[i] \in Target
  BY <1>2
<1> QED
  BY <1>1, <1>2, <1>3, Down, Parents

LEMMA TopTarget ==
    ASSUME TypeOK, stack # <<>>
    PROVE  /\ Top \in Target /\ Top[1] \in Step \cup Phony /\ Top[2] \in Pkg
           /\ Len(stack) \in Nat /\ Len(stack) > 0 /\ Top = <<Top[1], Top[2]>>
BY DEF TypeOK, Top, Target

\* The recipes, command by command.
CleanRecipe(k, p) ==
    CASE k = "clean-for-rebuild" ->
            IF p \in Override
            THEN << <<"rm", "rsynced">>, <<"rm", "built">>, <<"rm", "staging">>,
                    <<"rm", "target">>, <<"rm", "images">>, <<"rm", "host">> >>
            ELSE << <<"rm", "built">>, <<"rm", "staging">>,
                    <<"rm", "target">>, <<"rm", "images">>, <<"rm", "host">> >>
      [] k = "clean-for-reconfigure" -> << <<"rm", "configured">> >>
      [] k = "uninstalled" ->
            << <<"rm", "staging">>, <<"rm", "target">>, <<"rm", "host">>,
               <<"undo", "staging">>, <<"undo", "target">> >>
      [] k = "cleaned" -> << <<"undo", "built">>, <<"rm", "built">> >>
      [] OTHER -> << <<"rmdir", "built">> >>

LEMMA Recipes ==
    ASSUME NEW t \in Target
    PROVE  Recipe(t) = IF t[1] \in Step THEN << <<"run", t[1]>>, <<"touch", t[1]>> >>
                       ELSE IF t[1] \in Cleaning THEN CleanRecipe(t[1], t[2])
                       ELSE <<>>
<1>1. CASE t[1] \in Step
  <2>1. Recipe(t) = << <<"run", t[1]>>, <<"touch", t[1]>> >>
    BY <1>1 DEF Recipe, Step, Fetch, InstallStep
  <2> QED BY <1>1, <2>1
<1>2. CASE t[1] = "clean-for-rebuild"
  <2>1. <<"built", "staging", "target", "images", "host">> =
            <<>> \o <<"built", "staging", "target", "images", "host">>
    OBVIOUS
  <2>2. <<"rsynced", "built", "staging", "target", "images", "host">> =
            <<"rsynced">> \o <<"built", "staging", "target", "images", "host">>
    OBVIOUS
  <2>3. Rm(<<"built", "staging", "target", "images", "host">>) =
          << <<"rm", "built">>, <<"rm", "staging">>,
             <<"rm", "target">>, <<"rm", "images">>, <<"rm", "host">> >>
    BY DEF Rm
  <2>4. Rm(<<"rsynced", "built", "staging", "target", "images", "host">>) =
          << <<"rm", "rsynced">>, <<"rm", "built">>, <<"rm", "staging">>,
             <<"rm", "target">>, <<"rm", "images">>, <<"rm", "host">> >>
    BY DEF Rm
  <2>5. Recipe(t) = CleanForRebuild(t[2]) /\ t[1] \notin Step /\ t[1] \in Cleaning
    BY <1>2 DEF Recipe, Step, Fetch, InstallStep, Cleaning
  <2>6. CASE t[2] \in Override
    BY <1>2, <2>2, <2>4, <2>5, <2>6 DEF CleanForRebuild, CleanRecipe
  <2>7. CASE t[2] \notin Override
    BY <1>2, <2>1, <2>3, <2>5, <2>7 DEF CleanForRebuild, CleanRecipe
  <2> QED BY <2>6, <2>7
<1>3. CASE t[1] = "clean-for-reconfigure"
  BY <1>3 DEF Recipe, CleanRecipe, Rm, Step, Fetch, InstallStep, Cleaning
<1>4. CASE t[1] = "uninstalled"
  <2>1. Recipe(t) = Uninstall /\ t[1] \notin Step /\ t[1] \in Cleaning
    BY <1>4 DEF Recipe, Step, Fetch, InstallStep, Cleaning
  <2> QED BY <1>4, <2>1 DEF Uninstall, CleanRecipe
<1>5. CASE t[1] \in {"cleaned", "dircleaned"}
  BY <1>5 DEF Recipe, CleanRecipe, Step, Fetch, InstallStep, Cleaning
<1>6. CASE t[1] \notin Step \cup Cleaning
  BY <1>6 DEF Recipe, Cleaning
<1> QED
  BY <1>1, <1>2, <1>3, <1>4, <1>5, <1>6 DEF Cleaning

\* A command is a tuple whose name is one of these, and what it names is a step.
LEMMA Commands ==
    ASSUME NEW t \in Target, NEW i \in DOMAIN Recipe(t)
    PROVE  /\ Recipe(t)[i] \in ({"run", "touch", "rm", "undo"} \X Step) \cup {<<"rmdir", "built">>}
           /\ Len(Recipe(t)) \in Nat /\ DOMAIN Recipe(t) = 1 .. Len(Recipe(t))
           /\ t[1] \in Step => Recipe(t) = <<<<"run", t[1]>>, <<"touch", t[1]>>>>
           /\ t[1] \notin Step => t[1] \in Cleaning /\ Recipe(t)[i][1] \in {"rm", "undo", "rmdir"}
<1>1. CASE t[1] \in Step
  BY <1>1, Recipes
<1>2. CASE t[1] \in Cleaning /\ t[1] \notin Step
  <2>1. Recipe(t) = CleanRecipe(t[1], t[2])
    BY <1>2, Recipes
  <2>2. Recipe(t) \in Seq(({"rm", "undo"} \X Step) \cup {<<"rmdir", "built">>})
    <3> DEFINE Cmd == ({"rm", "undo"} \X Step) \cup {<<"rmdir", "built">>}
    <3>1. /\ \A s \in Step : <<"rm", s>> \in Cmd /\ <<"undo", s>> \in Cmd
          /\ <<"rmdir", "built">> \in Cmd
      OBVIOUS
    <3>2. {"rsynced", "configured", "built", "staging", "target", "images", "host"} \subseteq Step
      BY DEF Step, Fetch, InstallStep
    <3> HIDE DEF Cmd
    <3>3. CleanRecipe(t[1], t[2]) \in Seq(Cmd)
      <4>1. \A a, b, c, d, e, f \in Cmd :
              /\ <<a>> \in Seq(Cmd) /\ <<a, b>> \in Seq(Cmd)
              /\ <<a, b, c, d, e>> \in Seq(Cmd) /\ <<a, b, c, d, e, f>> \in Seq(Cmd)
        OBVIOUS
      <4>2. CASE t[1] = "clean-for-rebuild"
        <5>1. << <<"rm", "rsynced">>, <<"rm", "built">>, <<"rm", "staging">>,
                 <<"rm", "target">>, <<"rm", "images">>, <<"rm", "host">> >> \in Seq(Cmd)
          BY <3>1, <3>2, <4>1
        <5>2. << <<"rm", "built">>, <<"rm", "staging">>,
                 <<"rm", "target">>, <<"rm", "images">>, <<"rm", "host">> >> \in Seq(Cmd)
          BY <3>1, <3>2, <4>1
        <5> QED BY <4>2, <5>1, <5>2, Zenon DEF CleanRecipe
      <4>3. CASE t[1] = "uninstalled"
        <5>1. << <<"rm", "staging">>, <<"rm", "target">>, <<"rm", "host">>,
                 <<"undo", "staging">>, <<"undo", "target">> >> \in Seq(Cmd)
          BY <3>1, <3>2, <4>1
        <5>2. CleanRecipe(t[1], t[2]) =
                << <<"rm", "staging">>, <<"rm", "target">>, <<"rm", "host">>,
                   <<"undo", "staging">>, <<"undo", "target">> >>
          BY <4>3 DEF CleanRecipe
        <5> QED BY <5>1, <5>2
      <4>4. CASE t[1] \in {"clean-for-reconfigure", "cleaned", "dircleaned"}
        <5>1. /\ << <<"rm", "configured">> >> \in Seq(Cmd)
              /\ << <<"undo", "built">>, <<"rm", "built">> >> \in Seq(Cmd)
              /\ << <<"rmdir", "built">> >> \in Seq(Cmd)
          BY <3>1, <3>2, <4>1
        <5> QED BY <4>4, <5>1 DEF CleanRecipe
      <4> QED BY <1>2, <4>2, <4>3, <4>4 DEF Cleaning
    <3> QED BY <2>1, <3>3 DEF Cmd
  <2> QED BY <1>2, <2>2
<1>3. CASE t[1] \notin Step \cup Cleaning
  BY <1>3, Recipes
<1> QED
  BY <1>1, <1>2, <1>3

LEMMA TypeStep ==
    ASSUME TypeOK, [Next]_vars
    PROVE  TypeOK'
<1> USE DEF TypeOK
<1>1. ASSUME NEW t \in Goals, Make(t) PROVE TypeOK'
  <2>1. t \in Target
    BY PackageAssumption DEF PackageAssumption, Named, Target
  <2>2. stack' = <<t>> /\ at' = 1 /\ goal' = t /\ ok' = FALSE /\ UNCHANGED <<stamp, made, edited, done>>
    BY <1>1 DEF Make, diskVars
  <2>3. <<t>> \in Seq(Target)
    BY <2>1
  <2>4. stack' \in Seq(Target)
    BY <2>2, <2>3
  <2>5. goal' \in Target \cup {<<>>} /\ at' \in Nat \ {0}
    BY <2>1, <2>2
  <2>6. ok' \in BOOLEAN
    BY <2>2, Zenon
  <2>7. stamp' \in [Pkg -> SUBSET Step] /\ made' \in [Pkg -> SUBSET Step]
        /\ edited' \subseteq Override /\ done' \subseteq Target
    BY <2>2
  <2> QED BY <2>4, <2>5, <2>6, <2>7
<1>2. CASE Descend
  <2>1. PICK i \in Unmet(Top) : stack' = Append(stack, Prereqs(Top)[i])
    BY <1>2 DEF Descend
  <2>2. Prereqs(Top)[i] \in Target
    BY <1>2, <2>1, TopTarget, PrereqTarget DEF Descend, Unmet
  <2>3. stack' \in Seq(Target)
    BY <2>1, <2>2
  <2> QED BY <1>2, <2>3 DEF Descend, diskVars
<1>3. CASE Command
  <2> DEFINE p == Top[2]
             c == Recipe(Top)[at]
  <2>1. Top \in Target /\ p \in Pkg
    BY <1>3, TopTarget DEF Command, HasCommand
  <2>2. c \in ({"run", "touch", "rm", "undo"} \X Step) \cup {<<"rmdir", "built">>}
    BY <1>3, <2>1, Commands DEF Command, HasCommand
  <2>3. MadeBy(p, c) \subseteq Step /\ StampBy(p, c) \subseteq Step
    <3> HIDE DEF p, c
    <3>1. made[p] \subseteq Step /\ stamp[p] \subseteq Step
      BY <2>1
    <3> QED BY <2>1, <2>2, <3>1 DEF MadeBy, StampBy
  <2>4. made' = [made EXCEPT ![p] = MadeBy(p, c)] /\ stamp' = [stamp EXCEPT ![p] = StampBy(p, c)]
    BY <1>3 DEF Command
  <2>5. edited' \subseteq Override /\ at' \in Nat \ {0}
    BY <1>3 DEF Command
  <2>6. UNCHANGED <<stack, done, goal, ok>>
    BY <1>3 DEF Command
  <2>7. ok' \in BOOLEAN
    BY <2>6, Zenon
  <2>8. stack' \in Seq(Target) /\ done' \subseteq Target /\ goal' \in Target \cup {<<>>}
    BY <2>6
  <2> HIDE DEF p, c
  <2>9. made' \in [Pkg -> SUBSET Step] /\ stamp' \in [Pkg -> SUBSET Step]
    BY <2>1, <2>3, <2>4
  <2> QED BY <2>5, <2>7, <2>8, <2>9
<1>4. CASE Break
  <2>1. made' \in [Pkg -> SUBSET Step] /\ stamp' \in [Pkg -> SUBSET Step] /\ edited' \subseteq Override
    <3>1. CASE UNCHANGED diskVars
      BY <3>1 DEF diskVars
    <3>2. CASE ~ UNCHANGED diskVars
      <4> DEFINE p == Top[2]
                 c == Recipe(Top)[at]
      <4>1. /\ HasCommand /\ made' = [made EXCEPT ![p] = MadeByHalf(p, c)]
            /\ edited' = edited
            /\ stamp' = stamp \/ \E left \in SUBSET stamp[p] : stamp' = [stamp EXCEPT ![p] = left]
        BY <1>4, <3>2 DEF Break
      <4>2. Top \in Target /\ p \in Pkg
        BY <4>1, TopTarget DEF HasCommand
      <4>3. c \in ({"run", "touch", "rm", "undo"} \X Step) \cup {<<"rmdir", "built">>}
        BY <4>1, <4>2, Commands DEF HasCommand
      <4> HIDE DEF p, c
      <4>4. MadeByHalf(p, c) \subseteq Step
        <5>1. made[p] \subseteq Step
          BY <4>2
        <5> QED BY <4>3, <5>1 DEF MadeByHalf, MadeBy
      <4> QED BY <4>1, <4>2, <4>4
    <3> QED BY <3>1, <3>2
  <2> QED BY <1>4, <2>1 DEF Break
<1>5. CASE Finish
  <2>1. Top \in Target
    BY <1>5, TopTarget DEF Finish
  <2>2. stack' \in Seq(Target)
    BY <1>5 DEF Finish
  <2> QED BY <1>5, <2>1, <2>2 DEF Finish, diskVars
<1>6. ASSUME NEW p \in Pkg, EditSource(p) PROVE TypeOK'
  BY <1>6 DEF EditSource
<1>7. ASSUME NEW p \in Pkg, NEW s \in Step, RemoveStamp(p, s) PROVE TypeOK'
  BY <1>7 DEF RemoveStamp
<1>8. CASE UNCHANGED vars
  BY <1>8 DEF vars
<1> QED
  BY <1>1, <1>2, <1>3, <1>4, <1>5, <1>6, <1>7, <1>8 DEF Next, User
-----------------------------------------------------------------------------
(* The stack and what is done.                                               *)

LEMMA LowerOrder ==
    ASSUME NEW t \in Target, NEW u \in Target, NEW v \in Target
    PROVE  /\ ~ Lower(t, t)
           /\ Lower(v, u) /\ Lower(u, t) => Lower(v, t)
<1>1. t[2] \in Pkg /\ u[2] \in Pkg /\ v[2] \in Pkg
  BY DEF Target
<1>2. Rank(t[1]) \in Nat /\ Rank(u[1]) \in Nat /\ Rank(v[1]) \in Nat
  BY DEF Rank
<1>3. ~ Lower(t, t)
  BY <1>1, <1>2, BelowClosed DEF Lower
<1>4. ASSUME Lower(v, u), Lower(u, t) PROVE Lower(v, t)
  <2>1. CASE v[2] \in Below(u[2])
    BY <1>1, <1>4, <2>1, BelowClosed DEF Lower
  <2>2. CASE v[2] = u[2] /\ Rank(v[1]) < Rank(u[1])
    BY <1>1, <1>2, <1>4, <2>2 DEF Lower
  <2> QED BY <1>4, <2>1, <2>2 DEF Lower
<1> QED
  BY <1>3, <1>4

\* No prerequisite of the innermost target is under way.
LEMMA NoCycle ==
    ASSUME TypeOK, PathInv, stack # <<>>
    PROVE  /\ Unmet(Top) = {i \in DOMAIN Prereqs(Top) : Prereqs(Top)[i] \notin done}
           /\ \A i \in DOMAIN Prereqs(Top) : \A j \in 1 .. Len(stack) :
                Lower(Prereqs(Top)[i], stack[j])
           /\ Unmet(Top) = {} <=> Elements(Prereqs(Top)) \subseteq done
<1>1. Top \in Target /\ Len(stack) \in Nat /\ Len(stack) > 0 /\ Top = stack[Len(stack)]
  BY TopTarget DEF Top
<1>2. \A j \in 1 .. Len(stack) : stack[j] \in Target /\ (j = Len(stack) \/ Lower(Top, stack[j]))
  BY <1>1 DEF TypeOK, PathInv
<1>3. ASSUME NEW i \in DOMAIN Prereqs(Top), NEW j \in 1 .. Len(stack)
      PROVE  Lower(Prereqs(Top)[i], stack[j]) /\ Prereqs(Top)[i] # stack[j]
  <2>1. Prereqs(Top)[i] \in Target /\ Lower(Prereqs(Top)[i], Top)
    BY <1>1, PrereqTarget
  <2>2. stack[j] \in Target /\ (j = Len(stack) \/ Lower(Top, stack[j]))
    BY <1>2
  <2>3. Lower(Prereqs(Top)[i], stack[j])
    <3>1. CASE j = Len(stack)
      BY <1>1, <2>1, <3>1
    <3>2. CASE Lower(Top, stack[j])
      BY <1>1, <2>1, <2>2, <3>2, LowerOrder
    <3> QED BY <2>2, <3>1, <3>2
  <2> QED BY <2>1, <2>2, <2>3, LowerOrder
<1>4. \A i \in DOMAIN Prereqs(Top) : Prereqs(Top)[i] \notin Elements(stack)
  BY <1>3 DEF Elements, TypeOK
<1> QED
  BY <1>3, <1>4 DEF Unmet, Elements

\* Descend pushes a target whose elder siblings are done.
LEMMA DescendStep ==
    ASSUME TypeOK, PathInv, DoneInv, Descend
    PROVE  /\ at = 1 /\ stack # <<>>
           /\ \E i \in DOMAIN Prereqs(Top) :
                /\ stack' = Append(stack, Prereqs(Top)[i])
                /\ Prereqs(Top)[i] \notin done
                /\ \A j \in 1 .. (i - 1) : Prereqs(Top)[j] \in done
<1>1. stack # <<>> /\ Top \in Target /\ Unmet(Top) # {}
  BY TopTarget DEF Descend
<1>2. PICK i \in Unmet(Top) :
          (\A j \in Unmet(Top) : i <= j) /\ stack' = Append(stack, Prereqs(Top)[i])
  BY DEF Descend
<1>3. Prereqs(Top) \in Seq(Target)
  BY <1>1, PrereqTarget
<1>4. i \in DOMAIN Prereqs(Top) /\ Prereqs(Top)[i] \notin done
  BY <1>1, <1>2, NoCycle
<1>5. ASSUME NEW j \in 1 .. (i - 1) PROVE Prereqs(Top)[j] \in done
  <2>1. j \in DOMAIN Prereqs(Top) /\ ~ (i <= j)
    BY <1>3, <1>4
  <2> QED BY <1>1, <1>2, <2>1, NoCycle
<1>6. at = 1
  <2>1. ~ (Elements(Prereqs(Top)) \subseteq done)
    BY <1>1, NoCycle
  <2> QED BY <2>1 DEF DoneInv, TypeOK
<1> QED
  BY <1>1, <1>2, <1>4, <1>5, <1>6

LEMMA OneOrMore == \A n \in Nat : n > 0 => n = 1 \/ n > 1
OBVIOUS

\* Before and after Finish.
LEMMA FinishStep ==
    ASSUME TypeOK, PathInv, DoneInv, Finish
    PROVE  /\ stack # <<>> /\ Elements(Prereqs(Top)) \subseteq done
           /\ at' = 1 /\ UNCHANGED diskVars
           /\ \/ Len(stack) = 1 /\ stack' = <<>> /\ done' = {}
              \/ /\ Len(stack) > 1 /\ stack' = SubSeq(stack, 1, Len(stack) - 1)
                 /\ Len(stack') = Len(stack) - 1 /\ stack' # <<>>
                 /\ \A i \in 1 .. Len(stack') : stack'[i] = stack[i]
                 /\ done' = done \cup {Top}
                 /\ Top' = stack[Len(stack) - 1]
<1>0. Len(stack) \in Nat /\ Len(stack) > 0
  BY TopTarget DEF Finish
<1>1. stack # <<>> /\ Len(stack) \in Nat /\ Len(stack) > 0 /\ Unmet(Top) = {}
  BY <1>0 DEF Finish
<1>2. Elements(Prereqs(Top)) \subseteq done
  BY <1>1, NoCycle
<1>3. /\ stack' = SubSeq(stack, 1, Len(stack) - 1) /\ at' = 1 /\ UNCHANGED diskVars
      /\ done' = IF Len(stack) = 1 THEN {} ELSE done \cup {Top}
  BY DEF Finish
<1>4. CASE Len(stack) = 1
  <2>1. SubSeq(stack, 1, 0) = <<>>
    BY SubSeqEmpty DEF TypeOK
  <2> QED BY <1>1, <1>2, <1>3, <1>4, <2>1
<1>5. CASE Len(stack) > 1
  <2>1. /\ Len(stack') = Len(stack) - 1
        /\ \A i \in 1 .. Len(stack') : stack'[i] = stack[i]
    BY <1>1, <1>3, <1>5 DEF TypeOK
  <2>2. stack' # <<>> /\ Top' = stack[Len(stack) - 1]
    BY <1>1, <1>5, <2>1 DEF Top
  <2>3. done' = done \cup {Top}
    BY <1>3, <1>5
  <2> QED BY <1>1, <1>2, <1>3, <1>5, <2>1, <2>2, <2>3, Zenon
<1>6. Len(stack) = 1 \/ Len(stack) > 1
  BY <1>0, OneOrMore, Zenon
<1> QED
  BY <1>4, <1>5, <1>6, Zenon

\* A command leaves the stack alone, and a broken run leaves no stack.
LEMMA CommandStep ==
    ASSUME TypeOK, PathInv, DoneInv, Command
    PROVE  /\ UNCHANGED <<stack, done, goal, ok>> /\ Top' = Top
           /\ stack # <<>> /\ Top \in Target /\ at' = at + 1
           /\ Elements(Prereqs(Top)) \subseteq done
           /\ at \in DOMAIN Recipe(Top)
           /\ Top[1] \in Step => Top[1] \notin stamp[Top[2]]
<1>1. HasCommand /\ at' = at + 1 /\ UNCHANGED <<stack, done, goal, ok>>
  BY DEF Command
<1>2. stack # <<>> /\ Unmet(Top) = {} /\ Top \in Target
  BY <1>1, TopTarget DEF HasCommand
<1> QED
  BY <1>1, <1>2, NoCycle DEF HasCommand, Top

LEMMA PathStep ==
    ASSUME TypeOK, PathInv, DoneInv, [Next]_vars
    PROVE  PathInv'
<1>1. TypeOK'
  BY TypeStep
<1>2. ASSUME NEW t \in Goals, Make(t) PROVE PathInv'
  <2>1. stack' = <<t>> /\ goal' = t
    BY <1>2 DEF Make
  <2> QED BY <2>1 DEF PathInv
<1>3. CASE Descend
  <2>1. PICK i \in DOMAIN Prereqs(Top) :
            /\ stack' = Append(stack, Prereqs(Top)[i])
            /\ \A j \in 1 .. (i - 1) : Prereqs(Top)[j] \in done
    BY <1>3, DescendStep
  <2> DEFINE u == Prereqs(Top)[i]
             n == Len(stack)
  <2>2. stack # <<>> /\ n \in Nat /\ n > 0 /\ Top = stack[n] /\ done' = done /\ goal' = goal
    BY <1>3, TopTarget DEF Descend, Top
  <2>3. /\ Len(stack') = n + 1 /\ stack'[n + 1] = u
        /\ \A j \in 1 .. n : stack'[j] = stack[j]
    BY <2>1, <2>2 DEF TypeOK
  <2>4. Taken(u, stack[n], done)
    BY <2>1, <2>2 DEF Taken
  <2>5. \A j \in 1 .. n : Lower(u, stack[j])
    BY <2>2, NoCycle
  <2> HIDE DEF u, n
  <2>6. \A j \in 1 .. (Len(stack') - 1) : Taken(stack'[j + 1], stack'[j], done')
    <3> SUFFICES ASSUME NEW j \in 1 .. n PROVE Taken(stack'[j + 1], stack'[j], done')
      BY <2>2, <2>3
    <3>1. Taken(stack'[j + 1], stack[j], done)
      BY <2>2, <2>3, <2>4 DEF PathInv, n
    <3> QED BY <2>2, <2>3, <3>1 DEF Taken
  <2>7. \A j, k \in 1 .. Len(stack') : j < k => Lower(stack'[k], stack'[j])
    BY <2>2, <2>3, <2>5 DEF PathInv, n
  <2>8. stack' # <<>> /\ stack'[1] = stack[1]
    BY <2>2, <2>3
  <2> QED BY <2>2, <2>6, <2>7, <2>8 DEF PathInv
<1>4. CASE Command
  BY <1>4, CommandStep DEF PathInv, Taken
<1>5. CASE Break
  BY <1>5 DEF Break, PathInv
<1>6. CASE Finish
  <2>1. CASE stack' = <<>> /\ done' = {}
    <3>1. Len(stack') = 0 /\ at' = 1
      BY <1>6, <2>1 DEF Finish
    <3> QED BY <2>1, <3>1 DEF PathInv
  <2>2. CASE Len(stack) > 1 /\ stack' # <<>>
    <3>1. /\ Len(stack') = Len(stack) - 1 /\ Len(stack) \in Nat
          /\ \A i \in 1 .. Len(stack') : stack'[i] = stack[i]
          /\ done' = done \cup {Top} /\ goal' = goal
      BY <1>6, <2>2, FinishStep, TopTarget DEF Finish
    <3>2. \A i \in 1 .. (Len(stack') - 1) : Taken(stack'[i + 1], stack'[i], done')
      <4> SUFFICES ASSUME NEW i \in 1 .. (Len(stack') - 1) PROVE Taken(stack'[i + 1], stack'[i], done')
        OBVIOUS
      <4>1. Taken(stack[i + 1], stack[i], done)
        BY <3>1 DEF PathInv
      <4>2. stack'[i] = stack[i] /\ stack'[i + 1] = stack[i + 1] /\ done \subseteq done'
        BY <3>1
      <4> QED BY <4>1, <4>2 DEF Taken
    <3>3. \A j, k \in 1 .. Len(stack') : j < k => Lower(stack'[k], stack'[j])
      BY <3>1 DEF PathInv
    <3>4. stack'[1] = stack[1] /\ stack # <<>>
      BY <2>2, <3>1
    <3> QED BY <2>2, <3>1, <3>2, <3>3, <3>4 DEF PathInv
  <2> QED BY <1>6, <2>1, <2>2, FinishStep
<1>7. ASSUME NEW p \in Pkg, EditSource(p) \/ \E s \in Step : RemoveStamp(p, s) PROVE PathInv'
  BY <1>7 DEF EditSource, RemoveStamp, PathInv, Taken
<1>8. CASE UNCHANGED vars
  BY <1>8 DEF vars, PathInv, Taken
<1> QED
  BY <1>2, <1>3, <1>4, <1>5, <1>6, <1>7, <1>8 DEF Next, User

LEMMA DoneStep ==
    ASSUME TypeOK, PathInv, DoneInv, [Next]_vars
    PROVE  DoneInv'
<1>1. ASSUME NEW t \in Goals, Make(t) PROVE DoneInv'
  <2>1. stack' = <<t>> /\ done' = {} /\ at' = 1
    BY <1>1 DEF Make, PathInv
  <2> QED BY <2>1 DEF DoneInv
<1>2. CASE Descend
  <2>1. PICK i \in DOMAIN Prereqs(Top) :
            stack' = Append(stack, Prereqs(Top)[i]) /\ Prereqs(Top)[i] \notin done
    BY <1>2, DescendStep
  <2>2. done' = done /\ at' = 1
    BY <1>2, DescendStep DEF Descend
  <2>3. \A j \in 1 .. Len(stack') : stack'[j] \notin done
    <3> DEFINE u == Prereqs(Top)[i]
    <3> HIDE DEF u
    <3>1. Len(stack') = Len(stack) + 1 /\ stack'[Len(stack) + 1] = u
      BY <2>1 DEF TypeOK, u
    <3>2. Len(stack) \in Nat /\ \A j \in 1 .. Len(stack) : stack'[j] = stack[j]
      BY <2>1 DEF TypeOK
    <3> QED BY <2>1, <3>1, <3>2 DEF DoneInv, u
  <2> QED BY <2>2, <2>3 DEF DoneInv
<1>3. CASE Command
  <2>1. at' <= Len(Recipe(Top)) + 1
    BY <1>3, CommandStep, Commands
  <2> QED BY <1>3, <2>1, CommandStep DEF DoneInv
<1>4. CASE Break
  BY <1>4 DEF Break, DoneInv
<1>5. CASE Finish
  <2>1. CASE stack' = <<>> /\ done' = {}
    <3>1. Len(stack') = 0 /\ at' = 1
      BY <1>5, <2>1 DEF Finish
    <3> QED BY <2>1, <3>1 DEF DoneInv
  <2>2. CASE Len(stack) > 1 /\ stack' # <<>>
    <3>1. /\ Len(stack') = Len(stack) - 1 /\ Len(stack) \in Nat
          /\ \A i \in 1 .. Len(stack') : stack'[i] = stack[i]
          /\ done' = done \cup {Top} /\ at' = 1 /\ Elements(Prereqs(Top)) \subseteq done
      BY <1>5, <2>2, FinishStep, TopTarget
    <3>2. \A i \in 1 .. Len(stack') : stack[i] # Top
      <4> TAKE i \in 1 .. Len(stack')
      <4>1. Lower(Top, stack[i]) /\ stack[i] \in Target
        BY <3>1 DEF PathInv, Top, TypeOK
      <4> QED BY <4>1, LowerOrder
    <3>3. \A i \in 1 .. Len(stack') : stack'[i] \notin done'
      BY <3>1, <3>2 DEF DoneInv
    <3>4. \A t \in done' : Elements(Prereqs(t)) \subseteq done'
      BY <3>1 DEF DoneInv
    <3> QED BY <3>1, <3>3, <3>4 DEF DoneInv
  <2> QED BY <1>5, <2>1, <2>2, FinishStep
<1>6. ASSUME NEW p \in Pkg, EditSource(p) \/ \E s \in Step : RemoveStamp(p, s) PROVE DoneInv'
  BY <1>6 DEF EditSource, RemoveStamp, DoneInv, Top
<1>7. CASE UNCHANGED vars
  BY <1>7 DEF vars, DoneInv, Top
<1> QED
  BY <1>1, <1>2, <1>3, <1>4, <1>5, <1>6, <1>7 DEF Next, User
-----------------------------------------------------------------------------
(* Removing comes first.                                                     *)

LEMMA CleanStep ==
    ASSUME TypeOK, PathInv, DoneInv, CleanInv, [Next]_vars
    PROVE  CleanInv'
<1>0. TypeOK'
  BY TypeStep
<1>1. ASSUME NEW t \in Goals, Make(t) PROVE CleanInv'
  <2>1. stack' = <<t>> /\ done' = {} /\ Len(stack') = 1
    BY <1>1 DEF Make, PathInv
  <2>2. Cleaned'
    BY <2>1 DEF Cleaned
  <2> QED BY <2>1, <2>2 DEF CleanInv
<1>2. CASE Descend
  <2>1. PICK i \in DOMAIN Prereqs(Top) :
            /\ stack' = Append(stack, Prereqs(Top)[i])
            /\ \A j \in 1 .. (i - 1) : Prereqs(Top)[j] \in done
    BY <1>2, DescendStep
  <2> DEFINE u == Prereqs(Top)[i]
             n == Len(stack)
  <2>2. /\ stack # <<>> /\ n \in Nat /\ n > 0 /\ Top = stack[n] /\ Top \in Target
        /\ done' = done /\ Cleaned' = Cleaned
    BY <1>2, TopTarget DEF Descend, Top, Cleaned
  <2>3. /\ Len(stack') = n + 1 /\ stack'[n + 1] = u
        /\ \A j \in 1 .. n : stack'[j] = stack[j]
    BY <2>1, <2>2 DEF TypeOK
  <2>4. Parent(u, Top, i) /\ Top[1] \in Step \cup Phony
    BY <2>2, PrereqTarget, TopTarget
  <2>5. n > 1 => Top[1] \notin Again \cup {"clean"}
    <3> SUFFICES ASSUME n > 1 PROVE Top[1] \notin Again \cup {"clean"}
      OBVIOUS
    <3>1. Taken(stack[(n - 1) + 1], stack[n - 1], done)
      BY <2>2 DEF PathInv
    <3>2. PICK j \in DOMAIN Prereqs(stack[n - 1]) : Prereqs(stack[n - 1])[j] = Top
      BY <2>2, <3>1 DEF Taken
    <3>3. stack[n - 1] \in Target
      BY <2>2 DEF TypeOK
    <3>4. Parent(Top, stack[n - 1], j)
      BY <3>2, <3>3, PrereqTarget
    <3> QED BY <3>4 DEF Parent
  <2>51. Top[1] \in Again \cup {"clean"} => n = 1
    <3>1. \A m \in Nat : m > 0 /\ ~ (m > 1) => m = 1
      OBVIOUS
    <3> HIDE DEF n
    <3> QED BY <2>2, <2>5, <3>1
  <2>6. u[1] \in Cleaning => Cleaned
    <3> SUFFICES ASSUME u[1] \in Cleaning PROVE Cleaned
      OBVIOUS
    <3>1. CASE Top[1] \in Cleaning
      BY <2>2, <3>1 DEF CleanInv
    <3>2. CASE Top[1] = "clean"
      <4>1. n = 1
        BY <2>51, <3>2
      <4> QED BY <2>2, <3>2, <4>1 DEF CleanInv
    <3>3. CASE Top[1] \in Again
      <4>1. n = 1
        BY <2>51, <3>3
      <4>2. i = 1
        BY <2>4, <3>3 DEF Parent, Cleaning
      <4>3. Prereqs(Top)[1] \notin done
        BY <1>2, <2>1, <4>2, DescendStep
      <4> QED BY <2>2, <3>3, <4>1, <4>3 DEF CleanInv
    <3> QED BY <2>4, <3>1, <3>2, <3>3 DEF Parent
  <2>7. Top[1] \in Cleaning \cup {"clean"} => u[1] \in Cleaning
    BY <2>4 DEF Parent
  <2> HIDE DEF u, n
  <2>8. \A j \in 1 .. Len(stack') : stack'[j][1] \in Cleaning => Cleaned
    BY <2>2, <2>3, <2>6 DEF CleanInv, n
  <2>9. \A j, k \in 1 .. Len(stack') :
          j < k /\ stack'[j][1] \in Cleaning \cup {"clean"} => stack'[k][1] \in Cleaning
    <3> SUFFICES ASSUME NEW j \in 1 .. Len(stack'), NEW k \in 1 .. Len(stack'),
                        j < k, stack'[j][1] \in Cleaning \cup {"clean"}
                 PROVE  stack'[k][1] \in Cleaning
      OBVIOUS
    <3>1. CASE k <= n
      BY <2>2, <2>3, <3>1 DEF CleanInv, n
    <3>2. CASE k = n + 1
      <4>1. j \in 1 .. n /\ stack'[j] = stack[j]
        BY <2>2, <2>3, <3>2
      <4>2. stack[n][1] \in Cleaning \cup {"clean"}
        BY <2>2, <4>1 DEF CleanInv, n
      <4> QED BY <2>2, <2>3, <2>7, <3>2, <4>2
    <3> QED BY <2>2, <2>3, <3>1, <3>2
  <2>10. stack'[1] = stack[1] /\ stack' # <<>>
    BY <2>2, <2>3
  <2> QED BY <2>2, <2>8, <2>9, <2>10 DEF CleanInv
<1>3. CASE Command
  BY <1>3, CommandStep DEF CleanInv, Cleaned
<1>4. CASE Break
  <2>1. Len(stack') = 0 /\ stack' = <<>>
    BY <1>4 DEF Break
  <2> QED BY <2>1 DEF CleanInv
<1>5. CASE Finish
  <2>1. CASE stack' = <<>>
    <3>1. Len(stack') = 0
      BY <2>1
    <3> QED BY <2>1, <3>1 DEF CleanInv
  <2>2. CASE Len(stack) > 1 /\ stack' # <<>>
    <3> DEFINE n == Len(stack)
    <3>1. /\ Len(stack') = n - 1 /\ n \in Nat /\ n > 1 /\ Top = stack[n] /\ Top \in Target
          /\ \A i \in 1 .. Len(stack') : stack'[i] = stack[i]
          /\ done' = done \cup {Top}
      BY <1>5, <2>2, FinishStep, TopTarget DEF Top
    <3>2. Cleaned /\ Top[1] \in Cleaning => Cleaned'
      BY <3>1 DEF Cleaned, Target
    <3> HIDE DEF n
    <3>3. \A i \in 1 .. Len(stack') : stack'[i][1] \in Cleaning => Cleaned'
      <4> SUFFICES ASSUME NEW i \in 1 .. Len(stack'), stack'[i][1] \in Cleaning PROVE Cleaned'
        OBVIOUS
      <4>1. i \in 1 .. n /\ n \in 1 .. n /\ i < n /\ stack[i][1] \in Cleaning
        BY <3>1
      <4> QED BY <3>1, <3>2, <4>1 DEF CleanInv, n
    <3>4. \A i, j \in 1 .. Len(stack') :
            i < j /\ stack'[i][1] \in Cleaning \cup {"clean"} => stack'[j][1] \in Cleaning
      BY <3>1 DEF CleanInv, n
    <3>5. stack'[1] = stack[1] /\ stack # <<>> /\ 1 \in 1 .. n /\ n \in 1 .. n /\ 1 < n
      BY <3>1 DEF n
    <3>6. stack[1][1] = "clean" => Cleaned'
      BY <3>1, <3>2, <3>5 DEF CleanInv, n
    <3>7. ASSUME stack[1][1] \in Again, Prereqs(stack[1])[1] \notin done' PROVE Cleaned'
      <4>1. Taken(stack[1 + 1], stack[1], done)
        BY <3>1, <3>5 DEF PathInv, n
      <4>2. PICK i \in DOMAIN Prereqs(stack[1]) :
                /\ Prereqs(stack[1])[i] = stack[2]
                /\ \A j \in 1 .. (i - 1) : Prereqs(stack[1])[j] \in done
        BY <4>1 DEF Taken
      <4>3. stack[1] \in Target
        BY <3>5 DEF TypeOK, n
      <4>4. Parent(stack[2], stack[1], i)
        BY <4>2, <4>3, PrereqTarget
      <4>5. i # 2
        <5> SUFFICES ASSUME i = 2 PROVE FALSE
          OBVIOUS
        <5>1. Prereqs(stack[1])[1] \in done
          BY <4>2
        <5> QED BY <3>1, <3>7, <5>1
      <4>6. stack[2][1] \in Cleaning
        BY <3>7, <4>4, <4>5 DEF Parent, Again, Cleaning
      <4>7. Top[1] \in Cleaning
        <5>1. CASE n = 2
          BY <3>1, <4>6, <5>1
        <5>2. CASE n > 2
          <6>1. 2 \in 1 .. n /\ n \in 1 .. n
            BY <3>1, <5>2
          <6> QED BY <3>1, <4>6, <5>2, <6>1 DEF CleanInv, n
        <5> QED BY <3>1, <5>1, <5>2
      <4>8. Cleaned
        <5>1. Prereqs(stack[1])[1] \notin done
          BY <3>1, <3>7
        <5> QED BY <3>5, <3>7, <5>1 DEF CleanInv
      <4> QED BY <3>2, <4>7, <4>8
    <3> QED BY <3>3, <3>4, <3>5, <3>6, <3>7 DEF CleanInv
  <2> QED BY <1>5, <2>1, <2>2, FinishStep
<1>6. ASSUME NEW p \in Pkg, EditSource(p) \/ \E s \in Step : RemoveStamp(p, s) PROVE CleanInv'
  BY <1>6 DEF EditSource, RemoveStamp, CleanInv, Cleaned
<1>7. CASE UNCHANGED vars
  BY <1>7 DEF vars, CleanInv, Cleaned
<1> QED
  BY <1>1, <1>2, <1>3, <1>4, <1>5, <1>6, <1>7 DEF Next, User

\* No recipe both makes and removes.
LEMMA Disjoint ==
    /\ Cleaning \cap Step = {} /\ (Again \cup {"clean"}) \cap (Step \cup Cleaning) = {}
    /\ Cleaning \subseteq Phony
BY DEF Cleaning, Again, Step, Fetch, InstallStep, Phony

\* A command of a recipe that removes stamps only removes stamps.
LEMMA RemovingCommand ==
    ASSUME TypeOK, PathInv, DoneInv, Command, Top[1] \notin Step
    PROVE  /\ Top[1] \in Cleaning
           /\ \A p \in Pkg : stamp'[p] \subseteq stamp[p]
           /\ Recipe(Top)[at][1] = "rm" => Recipe(Top)[at][2] \notin stamp'[Top[2]]
<1> DEFINE p == Top[2]
           c == Recipe(Top)[at]
<1>1. Top \in Target /\ at \in DOMAIN Recipe(Top) /\ p \in Pkg
  BY CommandStep, TopTarget
<1>2. Top[1] \in Cleaning /\ c[1] \in {"rm", "undo", "rmdir"}
  BY <1>1, Commands
<1>3. stamp' = [stamp EXCEPT ![p] = StampBy(p, c)]
  BY DEF Command
<1> HIDE DEF p, c
<1>4. StampBy(p, c) \subseteq stamp[p] /\ (c[1] = "rm" => c[2] \notin StampBy(p, c))
  BY <1>2 DEF StampBy
<1>5. stamp'[p] = StampBy(p, c) /\ \A q \in Pkg : q # p => stamp'[q] = stamp[q]
  BY <1>1, <1>3 DEF TypeOK
<1> QED
  BY <1>2, <1>4, <1>5 DEF p, c

\* When no command is left, what the recipe removes is gone.
LEMMA RecipeOver ==
    ASSUME TypeOK, WipeInv, stack # <<>>, Top[1] \in Cleaning, Unmet(Top) = {}, ~ HasCommand
    PROVE  stamp[Top[2]] \cap Wiped(Top) = {}
<1> SUFFICES ASSUME NEW s \in Wiped(Top) PROVE s \notin stamp[Top[2]]
  OBVIOUS
<1>1. PICK i \in DOMAIN Recipe(Top) : Recipe(Top)[i] = <<"rm", s>>
  BY DEF Wiped, Elements
<1>2. Len(Recipe(Top)) \in Nat /\ DOMAIN Recipe(Top) = 1 .. Len(Recipe(Top))
  BY <1>1, TopTarget, Commands
<1>3. at \notin DOMAIN Recipe(Top)
  BY Disjoint DEF HasCommand
<1>4. i \in 1 .. (at - 1)
  BY <1>2, <1>3 DEF TypeOK
<1>5. Recipe(Top)[i][1] = "rm" /\ Recipe(Top)[i][2] = s
  BY <1>1
<1> QED BY <1>4, <1>5 DEF WipeInv

LEMMA WipeStep ==
    ASSUME TypeOK, PathInv, DoneInv, WipeInv, [Next]_vars
    PROVE  WipeInv'
<1>1. ASSUME NEW t \in Goals, Make(t) PROVE WipeInv'
  <2>1. done' = {} /\ at' = 1
    BY <1>1 DEF Make, PathInv
  <2> QED BY <2>1 DEF WipeInv
<1>2. CASE Descend
  <2>1. PICK i \in DOMAIN Prereqs(Top) : stack' = Append(stack, Prereqs(Top)[i])
    BY <1>2, DescendStep
  <2>2. at' = 1 /\ done' = done /\ stamp' = stamp /\ stack # <<>> /\ Top \in Target
    BY <1>2, DescendStep, TopTarget DEF Descend, diskVars
  <2>3. Top' = Prereqs(Top)[i]
    BY <2>1 DEF Top, TypeOK
  <2>4. Parent(Prereqs(Top)[i], Top, i)
    BY <2>2, PrereqTarget
  <2>5. Top'[1] \in Cleaning \cup Again \cup {"clean"} => Top[1] \in Cleaning \cup Again \cup {"clean"}
    BY <2>3, <2>4 DEF Parent
  <2>6. Cleaned' = Cleaned
    BY <2>2 DEF Cleaned
  <2> QED BY <2>2, <2>5, <2>6 DEF WipeInv
<1>3. CASE Command
  <2>1. CASE Top[1] \in Step
    BY <1>3, <2>1, CommandStep, Disjoint DEF WipeInv
  <2>2. CASE Top[1] \notin Step
    <3>1. /\ Top' = Top /\ done' = done /\ stack' = stack /\ stack # <<>> /\ at' = at + 1
          /\ at \in Nat \ {0} /\ Top[2] \in Pkg
      BY <1>3, CommandStep, TopTarget DEF TypeOK
    <3>2. /\ Top[1] \in Cleaning
          /\ \A p \in Pkg : stamp'[p] \subseteq stamp[p]
          /\ Recipe(Top)[at][1] = "rm" => Recipe(Top)[at][2] \notin stamp'[Top[2]]
      BY <1>3, <2>2, RemovingCommand
    <3>3. ASSUME NEW i \in 1 .. (at' - 1), Recipe(Top)[i][1] = "rm"
          PROVE  Recipe(Top)[i][2] \notin stamp'[Top[2]]
      <4>1. i = at \/ i \in 1 .. (at - 1)
        BY <3>1
      <4> QED BY <3>1, <3>2, <3>3, <4>1 DEF WipeInv
    <3>4. ASSUME Cleaned, NEW t \in done PROVE stamp'[t[2]] \cap Wiped(t) = {}
      <4>1. t[2] \in Pkg
        BY <3>4 DEF TypeOK, Target
      <4> QED BY <3>1, <3>2, <3>4, <4>1 DEF WipeInv
    <3>5. Cleaned' = Cleaned
      BY <3>1 DEF Cleaned
    <3> QED BY <3>1, <3>3, <3>4, <3>5 DEF WipeInv
  <2> QED BY <2>1, <2>2
<1>4. CASE Break
  BY <1>4 DEF Break, WipeInv
<1>5. CASE Finish
  <2>1. CASE stack' = <<>>
    BY <2>1 DEF WipeInv
  <2>2. CASE Len(stack) > 1 /\ stack' # <<>>
    <3>1. /\ stack # <<>> /\ at' = 1 /\ done' = done \cup {Top} /\ stamp' = stamp
          /\ Top \in Target /\ Top[2] \in Pkg
      BY <1>5, <2>2, FinishStep, TopTarget DEF diskVars
    <3>2. ASSUME Cleaned' PROVE \A t \in done' : stamp'[t[2]] \cap Wiped(t) = {}
      <4>1. Cleaned /\ Top[1] \in Cleaning
        BY <3>1, <3>2 DEF Cleaned
      <4>2. stamp[Top[2]] \cap Wiped(Top) = {}
        BY <1>5, <3>1, <4>1, RecipeOver DEF Finish
      <4>3. \A t \in done : stamp[t[2]] \cap Wiped(t) = {}
        BY <3>1, <4>1 DEF WipeInv
      <4> QED BY <3>1, <4>2, <4>3
    <3> QED BY <3>1, <3>2 DEF WipeInv
  <2> QED BY <1>5, <2>1, <2>2, FinishStep
<1>6. ASSUME NEW p \in Pkg, EditSource(p) \/ \E s \in Step : RemoveStamp(p, s) PROVE WipeInv'
  BY <1>6 DEF EditSource, RemoveStamp, WipeInv
<1>7. CASE UNCHANGED vars
  BY <1>7 DEF vars, WipeInv, Cleaned, Top
<1> QED
  BY <1>1, <1>2, <1>3, <1>4, <1>5, <1>6, <1>7 DEF Next, User
-----------------------------------------------------------------------------
(* Stamps and results.                                                       *)

LEMMA ElementsOfMore ==
    /\ \A a, b, c, d, e : Elements(<<a, b, c, d, e>>) = {a, b, c, d, e}
    /\ \A a, b, c, d, e, f : Elements(<<a, b, c, d, e, f>>) = {a, b, c, d, e, f}
<1>1. ASSUME NEW a, NEW b, NEW c, NEW d, NEW e
      PROVE  Elements(<<a, b, c, d, e>>) = {a, b, c, d, e}
  <2>1. DOMAIN <<a, b, c, d, e>> = 1 .. 5 /\ 1 .. 5 = {1, 2, 3, 4, 5}
    OBVIOUS
  <2> QED BY <2>1 DEF Elements
<1>2. ASSUME NEW a, NEW b, NEW c, NEW d, NEW e, NEW f
      PROVE  Elements(<<a, b, c, d, e, f>>) = {a, b, c, d, e, f}
  <2>1. DOMAIN <<a, b, c, d, e, f>> = 1 .. 6 /\ 1 .. 6 = {1, 2, 3, 4, 5, 6}
    OBVIOUS
  <2> QED BY <2>1 DEF Elements
<1> QED
  BY <1>1, <1>2

\* What the recipes remove.
LEMMA WipedOf ==
    ASSUME NEW p \in Pkg
    PROVE  /\ Wiped(<<"clean-for-rebuild", p>>) =
                {"built"} \cup InstallStep \cup (IF p \in Override THEN {"rsynced"} ELSE {})
           /\ Wiped(<<"clean-for-reconfigure", p>>) = {"configured"}
           /\ Wiped(<<"uninstalled", p>>) = {"staging", "target", "host"}
           /\ Wiped(<<"cleaned", p>>) = {"built"}
<1>1. ASSUME NEW k \in Cleaning
      PROVE  Recipe(<<k, p>>) = CleanRecipe(k, p)
  <2>1. <<k, p>> \in Target /\ k \notin Step
    BY Disjoint DEF Target
  <2> QED BY <2>1, Recipes
<1>2. /\ {"rsynced", "configured", "built"} \cup InstallStep \subseteq Step
      /\ InstallStep = {"staging", "target", "images", "host"}
  BY DEF Step, Fetch, InstallStep
<1>3. \A s : /\ <<"rm", s>> # <<"undo", "staging">> /\ <<"rm", s>> # <<"undo", "target">>
             /\ <<"rm", s>> # <<"undo", "built">>
             /\ \A r : <<"rm", s>> = <<"rm", r>> <=> s = r
  OBVIOUS
<1>4. Wiped(<<"clean-for-rebuild", p>>) =
        {"built"} \cup InstallStep \cup (IF p \in Override THEN {"rsynced"} ELSE {})
  <2>1. Recipe(<<"clean-for-rebuild", p>>) = CleanRecipe("clean-for-rebuild", p)
    BY <1>1 DEF Cleaning
  <2>2. CASE p \in Override
    <3>1. Elements(Recipe(<<"clean-for-rebuild", p>>)) =
            {<<"rm", "rsynced">>, <<"rm", "built">>, <<"rm", "staging">>,
             <<"rm", "target">>, <<"rm", "images">>, <<"rm", "host">>}
      BY <2>1, <2>2, ElementsOfMore DEF CleanRecipe
    <3> QED BY <1>2, <1>3, <2>2, <3>1 DEF Wiped
  <2>3. CASE p \notin Override
    <3>1. Elements(Recipe(<<"clean-for-rebuild", p>>)) =
            {<<"rm", "built">>, <<"rm", "staging">>,
             <<"rm", "target">>, <<"rm", "images">>, <<"rm", "host">>}
      BY <2>1, <2>3, ElementsOfMore DEF CleanRecipe
    <3> QED BY <1>2, <1>3, <2>3, <3>1 DEF Wiped
  <2> QED BY <2>2, <2>3
<1>5. Wiped(<<"clean-for-reconfigure", p>>) = {"configured"}
  <2>1. Elements(Recipe(<<"clean-for-reconfigure", p>>)) = {<<"rm", "configured">>}
    BY <1>1, ElementsOf DEF Cleaning, CleanRecipe
  <2> QED BY <1>2, <1>3, <2>1 DEF Wiped
<1>6. Wiped(<<"uninstalled", p>>) = {"staging", "target", "host"}
  <2>1. Recipe(<<"uninstalled", p>>) = CleanRecipe("uninstalled", p)
    BY <1>1 DEF Cleaning
  <2>2. Elements(Recipe(<<"uninstalled", p>>)) =
          {<<"rm", "staging">>, <<"rm", "target">>, <<"rm", "host">>,
           <<"undo", "staging">>, <<"undo", "target">>}
    BY <2>1, ElementsOfMore DEF CleanRecipe
  <2> QED BY <1>2, <1>3, <2>2 DEF Wiped
<1>7. Wiped(<<"cleaned", p>>) = {"built"}
  <2>1. Recipe(<<"cleaned", p>>) = CleanRecipe("cleaned", p)
    BY <1>1 DEF Cleaning
  <2>2. Elements(Recipe(<<"cleaned", p>>)) = {<<"undo", "built">>, <<"rm", "built">>}
    BY <2>1, ElementsOf DEF CleanRecipe
  <2> QED BY <1>2, <1>3, <2>2 DEF Wiped
<1> QED
  BY <1>4, <1>5, <1>6, <1>7

\* A step that is under way is ready, with all that it reads done in this run.
LEMMA RunningStep ==
    ASSUME TypeOK, PathInv, DoneInv, stack # <<>>, Top[1] \in Step
    PROVE  Ready(Top[2], Top[1])
<1>1. Len(stack) \in Nat /\ Len(stack) > 0 /\ Top = stack[Len(stack)] /\ Top = <<Top[1], Top[2]>>
  BY TopTarget DEF Top
<1>2. Len(stack) # 1
  <2> SUFFICES ASSUME Len(stack) = 1 PROVE FALSE
    OBVIOUS
  <2>1. Top \in Named
    BY <1>1, PackageAssumption DEF PathInv, PackageAssumption
  <2> QED BY <2>1 DEF Named, Phony, Step, Fetch, InstallStep
<1> DEFINE m == Len(stack) - 1
<1>3. m \in 1 .. (Len(stack) - 1) /\ m + 1 = Len(stack) /\ stack[m] \in Target
  <2>1. \A l \in Nat : l > 0 /\ l # 1 =>
          l - 1 \in 1 .. (l - 1) /\ (l - 1) + 1 = l /\ l - 1 \in 1 .. l
    OBVIOUS
  <2>2. m \in 1 .. (Len(stack) - 1) /\ m + 1 = Len(stack) /\ m \in 1 .. Len(stack)
    BY <1>1, <1>2, <2>1
  <2> QED BY <2>2 DEF TypeOK
<1> HIDE DEF m
<1>4. Taken(Top, stack[m], done)
  <2>1. Taken(stack[m + 1], stack[m], done)
    BY <1>3 DEF PathInv
  <2> QED BY <1>1, <1>3, <2>1
<1>5. Closed(done)
  BY DEF DoneInv, Closed
<1> QED
  BY <1>1, <1>3, <1>4, <1>5, StepReady

\* Who cleans a package has undone its installation in this run, and the user
\* has asked for it.
LEMMA CleanedParent ==
    ASSUME TypeOK, PathInv, stack # <<>>, Top[1] = "cleaned"
    PROVE  <<"uninstalled", Top[2]>> \in done /\ <<"clean", Top[2]>> \in Goals
<1> DEFINE n == Len(stack)
           p == Top[2]
<1>1. n \in Nat /\ n > 0 /\ Top = stack[n] /\ Top = <<"cleaned", p>> /\ p \in Pkg
  BY TopTarget DEF Top
<1>2. \A k \in 1 .. n : stack[k] \in Target
  BY DEF TypeOK
<1>3. ASSUME NEW k \in 1 .. n, k > 1
      PROVE  \E i \in DOMAIN Prereqs(stack[k - 1]) :
                /\ Parent(stack[k], stack[k - 1], i)
                /\ \A j \in 1 .. (i - 1) : Prereqs(stack[k - 1])[j] \in done
  <2>1. k - 1 \in 1 .. (n - 1) /\ (k - 1) + 1 = k /\ stack[k - 1] \in Target
    BY <1>1, <1>2, <1>3
  <2>2. Taken(stack[(k - 1) + 1], stack[k - 1], done)
    BY <2>1 DEF PathInv, n
  <2>3. PICK i \in DOMAIN Prereqs(stack[k - 1]) :
            /\ Prereqs(stack[k - 1])[i] = stack[k]
            /\ \A j \in 1 .. (i - 1) : Prereqs(stack[k - 1])[j] \in done
    BY <2>1, <2>2 DEF Taken
  <2>4. Parent(stack[k], stack[k - 1], i)
    BY <2>1, <2>3, PrereqTarget
  <2> QED BY <2>3, <2>4
<1> HIDE DEF n, p
<1>4. stack[1] \in Named /\ stack[1] \in Goals
  BY PackageAssumption DEF PathInv, PackageAssumption
<1>5. n # 1
  BY <1>1, <1>4 DEF Named
<1>6. n \in 1 .. n /\ n > 1 /\ n - 1 \in 1 .. n
  BY <1>1, <1>5
<1>7. PICK i \in DOMAIN Prereqs(stack[n - 1]) :
          /\ Parent(Top, stack[n - 1], i)
          /\ \A j \in 1 .. (i - 1) : Prereqs(stack[n - 1])[j] \in done
  BY <1>1, <1>3, <1>6
<1>8. stack[n - 1] = <<"clean", p>> /\ Prereqs(stack[n - 1])[1] = <<"uninstalled", p>> /\ i = 2
  <2>1. "cleaned" \in Cleaning
    BY DEF Cleaning
  <2> QED BY <1>1, <1>7 DEF Parent
<1>9. <<"uninstalled", p>> \in done
  BY <1>7, <1>8
<1>10. n - 1 = 1
  <2> SUFFICES ASSUME n - 1 > 1 PROVE FALSE
    BY <1>6
  <2>1. PICK j : Parent(stack[n - 1], stack[(n - 1) - 1], j)
    BY <1>3, <1>6
  <2> QED BY <1>8, <2>1 DEF Parent
<1> QED
  BY <1>4, <1>8, <1>9, <1>10 DEF p

\* A command works on the package of its target alone.
LEMMA CommandDisk ==
    ASSUME TypeOK, PathInv, DoneInv, Command
    PROVE  /\ made'[Top[2]] = MadeBy(Top[2], Recipe(Top)[at])
           /\ stamp'[Top[2]] = StampBy(Top[2], Recipe(Top)[at])
           /\ \A q \in Pkg : q # Top[2] => made'[q] = made[q] /\ stamp'[q] = stamp[q]
<1> DEFINE c == Recipe(Top)[at]
           p == Top[2]
<1>1. p \in Pkg
  BY CommandStep, TopTarget
<1>2. made' = [made EXCEPT ![p] = MadeBy(p, c)] /\ stamp' = [stamp EXCEPT ![p] = StampBy(p, c)]
  BY DEF Command
<1> HIDE DEF c, p
<1>3. /\ made'[p] = MadeBy(p, c) /\ stamp'[p] = StampBy(p, c)
      /\ \A q \in Pkg : q # p => made'[q] = made[q] /\ stamp'[q] = stamp[q]
  BY <1>1, <1>2 DEF TypeOK
<1> QED
  BY <1>3 DEF c, p

\* A step of a package that is about to be redone has no stamp, and nor has one
\* that it leaves behind the times.
LEMMA NothingStale ==
    ASSUME TypeOK, NEW p \in Pkg, NEW s, Ready(p, s), Sound(p, stamp[p]), s \notin stamp[p]
    PROVE  stamp[p] \cap (Outdates(s) \cup {s}) = {}
<1>1. s \in Chain(p) \/ s \in InstallStep
  BY PackageAssumption DEF Ready, PackageAssumption
<1>2. CASE s \in Chain(p)
  BY <1>2 DEF Sound
<1>3. CASE s \in InstallStep
  BY <1>3 DEF Outdates, InstallStep
<1> QED
  BY <1>1, <1>2, <1>3

\* Removing the stamps of what is installed, or with them those of the steps
\* before, leaves the others sound.
LEMMA SoundLess ==
    ASSUME NEW p \in Pkg, NEW S, Sound(p, S)
    PROVE  /\ \A R : R \subseteq InstallStep => Sound(p, S \ R)
           /\ \A R : S \cap InstallStep \subseteq R /\ R \subseteq {"built"} \cup InstallStep =>
                Sound(p, S \ R)
           /\ S \cap ({"built"} \cup InstallStep) = {} => Sound(p, S \ {"configured"})
           /\ \A R : R = {"built"} \cup InstallStep \cup (IF p \in Override THEN {"rsynced"} ELSE {})
                => Sound(p, S \ R)
<1>1. /\ Chain(p) \cap InstallStep = {}
      /\ "rsynced" \in Chain(p) => p \in Override
  BY DEF Chain, InstallStep
<1>2. /\ Outdates("built") = InstallStep /\ Outdates("configured") = {"built"} \cup InstallStep
      /\ Outdates("rsynced") = {"built"} \cup InstallStep
  BY DEF Outdates, InstallStep
<1>3. ASSUME NEW R, R \subseteq InstallStep PROVE Sound(p, S \ R)
  BY <1>1, <1>3 DEF Sound
<1>4. ASSUME NEW R, S \cap InstallStep \subseteq R, R \subseteq {"built"} \cup InstallStep
      PROVE  Sound(p, S \ R)
  <2>1. S \ R \subseteq Chain(p) \cup Installs(p) /\ S \ R \subseteq made[p]
    BY DEF Sound
  <2>2. ASSUME NEW r \in Chain(p), Outdates(r) \cap (S \ R) # {} PROVE r \in S \ R
    <3>1. r \in S
      BY <2>2 DEF Sound
    <3>2. r # "built"
      BY <1>2, <1>4, <2>2
    <3> QED BY <1>1, <1>4, <3>1, <3>2
  <2> QED BY <2>1, <2>2 DEF Sound
<1>5. ASSUME S \cap ({"built"} \cup InstallStep) = {} PROVE Sound(p, S \ {"configured"})
  <2>1. S \ {"configured"} \subseteq Chain(p) \cup Installs(p) /\ S \ {"configured"} \subseteq made[p]
    BY DEF Sound
  <2>2. ASSUME NEW r \in Chain(p), Outdates(r) \cap (S \ {"configured"}) # {}
        PROVE  r \in S \ {"configured"}
    BY <1>2, <1>5, <2>2 DEF Sound
  <2> QED BY <2>1, <2>2 DEF Sound
<1>6. ASSUME NEW R, R = {"built"} \cup InstallStep \cup (IF p \in Override THEN {"rsynced"} ELSE {})
      PROVE  Sound(p, S \ R)
  <2>1. S \ R \subseteq Chain(p) \cup Installs(p) /\ S \ R \subseteq made[p]
    BY DEF Sound
  <2>2. ASSUME NEW r \in Chain(p), Outdates(r) \cap (S \ R) # {} PROVE r \in S \ R
    <3>1. r \in S
      BY <2>2 DEF Sound
    <3>2. r \notin R
      BY <1>1, <1>2, <1>6, <2>2
    <3> QED BY <3>1, <3>2
  <2> QED BY <2>1, <2>2 DEF Sound
<1> QED
  BY <1>3, <1>4, <1>5, <1>6

\* Running a recipe that installs, removes or undoes.
LEMMA SoundCommand ==
    ASSUME Careful, TypeOK, PathInv, DoneInv, CleanInv, WipeInv, SoundInv, StepInv, MadeInv, Command
    PROVE  SoundInv'
<1>01. PICK p \in Pkg : p = Top[2]
  BY CommandStep, TopTarget
<1>02. PICK c : c = Recipe(Top)[at]
  OBVIOUS
<1>0. p = Top[2] /\ c = Recipe(Top)[at]
  BY <1>01, <1>02
<1>1. /\ Top \in Target /\ at \in DOMAIN Recipe(Top) /\ stack # <<>>
      /\ Top' = Top /\ stack' = stack /\ at' = at + 1 /\ done' = done
      /\ at \in Nat \ {0} /\ at' > 1 /\ Top = <<Top[1], p>> /\ Top[2] = p
  BY <1>0, CommandStep, TopTarget DEF TypeOK
<1>2. /\ made'[p] = MadeBy(p, c) /\ stamp'[p] = StampBy(p, c)
      /\ \A q \in Pkg : q # p => made'[q] = made[q] /\ stamp'[q] = stamp[q]
  BY <1>0, CommandDisk
<1>3. ASSUME NEW q \in Pkg, q # p PROVE Sound(q, Valid(q))'
  <2>1. ~ Wiping(q) /\ ~ Wiping(q)'
    BY <1>1, <1>3 DEF Wiping
  <2>2. Valid(q)' = Valid(q) /\ made'[q] = made[q]
    BY <1>2, <1>3, <2>1 DEF Valid
  <2> QED BY <2>2 DEF SoundInv, Sound
<1>4. Sound(p, Valid(p))'
  <2>0. Sound(p, Valid(p))
    BY <1>1 DEF SoundInv
  <2>1. CASE Top[1] \in Step
    <3> DEFINE s == Top[1]
    <3>1. Ready(p, s) /\ s \notin stamp[p]
      BY <1>1, <2>1, RunningStep, CommandStep
    <3>2. ~ Wiping(p) /\ ~ Wiping(p)'
      BY <1>1, <2>1, Disjoint DEF Wiping, Cleaning
    <3>3. Sound(p, stamp[p]) /\ Valid(p)' = stamp'[p]
      BY <2>0, <3>2 DEF Valid
    <3>4. Recipe(Top) = << <<"run", s>>, <<"touch", s>> >>
      BY <1>1, <2>1, Commands
    <3>5. at = 1 \/ at = 2
      BY <1>1, <3>4
    <3>6. CASE at = 1
      <4>1. c = <<"run", s>>
        BY <1>0, <3>4, <3>6
      <4>2. stamp'[p] = stamp[p] /\ made[p] \ (Outdates(s) \cup {s}) \subseteq made'[p]
        BY <1>2, <4>1 DEF MadeBy, StampBy
      <4>3. stamp[p] \cap (Outdates(s) \cup {s}) = {}
        BY <1>1, <3>1, <3>3, NothingStale
      <4> QED BY <3>3, <4>2, <4>3 DEF Sound
    <3>7. CASE at = 2
      <4>1. c = <<"touch", s>>
        BY <1>0, <3>4, <3>7
      <4>2. stamp'[p] = stamp[p] \cup {s} /\ made'[p] = made[p]
        BY <1>2, <4>1 DEF MadeBy, StampBy
      <4>3. s \in made[p]
        BY <1>1, <2>1, <3>7 DEF MadeInv
      <4>4. \A r \in Chain(p) : s \in Outdates(r) => r \in stamp[p]
        <5> TAKE r \in Chain(p)
        <5>1. s \in Outdates(r) => <<r, p>> \in done
          BY <3>1 DEF Ready
        <5>2. r \in Step
          BY DEF Chain, Step, Fetch
        <5> QED BY <5>1, <5>2 DEF StepInv
      <4>5. s \in Chain(p) \cup Installs(p)
        BY <3>1 DEF Ready
      <4> HIDE DEF s
      <4> QED BY <3>3, <4>2, <4>3, <4>4, <4>5 DEF Sound
    <3> QED BY <3>5, <3>6, <3>7
  <2>2. CASE Top[1] \notin Step
    <3>1. Top[1] \in Cleaning /\ c[1] \in {"rm", "undo", "rmdir"}
      BY <1>0, <1>1, <2>2, Commands
    <3>2. Cleaned /\ \A t \in done : stamp[t[2]] \cap Wiped(t) = {}
      <4>1. Len(stack) \in 1 .. Len(stack) /\ Top = stack[Len(stack)]
        BY <1>1, TopTarget DEF Top
      <4> QED BY <1>1, <3>1, <4>1 DEF CleanInv, WipeInv
    <3>3. Recipe(Top) = CleanRecipe(Top[1], p)
      BY <1>1, <2>2, <3>1, Recipes
    <3>4. Sound(p, stamp[p]) \/ (Wiping(p) /\ Sound(p, stamp[p] \ Wiped(Top)))
      BY <2>0 DEF Valid
    <3>5. CASE Top[1] \in {"clean-for-rebuild", "clean-for-reconfigure"}
      <4>1. c[1] = "rm" /\ c[2] \in Wiped(Top)
        <5>1. c \in ({"run", "touch", "rm", "undo"} \X Step) \cup {<<"rmdir", "built">>}
          BY <1>0, <1>1, Commands
        <5>2. c[1] = "rm"
          <6>1. CASE Top[1] = "clean-for-rebuild" /\ p \in Override
            BY <1>0, <1>1, <3>3, <6>1 DEF CleanRecipe
          <6>2. CASE Top[1] = "clean-for-rebuild" /\ p \notin Override
            BY <1>0, <1>1, <3>3, <6>2 DEF CleanRecipe
          <6>3. CASE Top[1] = "clean-for-reconfigure"
            BY <1>0, <1>1, <3>3, <6>3 DEF CleanRecipe
          <6> QED BY <3>5, <6>1, <6>2, <6>3
        <5>3. c = <<"rm", c[2]>> /\ c[2] \in Step
          BY <5>1, <5>2
        <5> QED BY <1>0, <1>1, <5>3 DEF Wiped, Elements
      <4>2. stamp'[p] = stamp[p] \ {c[2]} /\ made'[p] = made[p]
        BY <1>2, <4>1 DEF MadeBy, StampBy
      <4>3. Valid(p)' = stamp'[p] \ Wiped(Top)
        <5>1. Wiping(p)'
          BY <1>1, <3>5 DEF Wiping
        <5>2. Wiped(Top)' = Wiped(Top)
          BY <1>1 DEF Wiped
        <5> QED BY <5>1, <5>2 DEF Valid
      <4>4. Sound(p, stamp[p] \ Wiped(Top))
        <5>1. CASE Sound(p, stamp[p]) /\ Top[1] = "clean-for-rebuild"
          BY <1>1, <5>1, WipedOf, SoundLess
        <5>2. CASE Sound(p, stamp[p]) /\ Top[1] = "clean-for-reconfigure"
          <6>1. <<"clean-for-rebuild", p>> \in done
            <7>1. Elements(Prereqs(Top)) \subseteq done
              BY CommandStep
            <7>2. Elements(Prereqs(Top)) = {<<"clean-for-rebuild", p>>}
              <8>1. Prereqs(<<"clean-for-reconfigure", p>>) = <<<<"clean-for-rebuild", p>>>>
                BY Rules DEF RulesOf
              <8>2. Top = <<"clean-for-reconfigure", p>>
                BY <1>1, <5>2
              <8> QED BY <8>1, <8>2, ElementsOf
            <7> QED BY <7>1, <7>2
          <6>2. stamp[p] \cap Wiped(<<"clean-for-rebuild", p>>) = {}
            BY <3>2, <6>1
          <6>3. stamp[p] \cap ({"built"} \cup InstallStep) = {}
            BY <1>1, <6>2, WipedOf
          <6> QED BY <1>1, <5>2, <6>3, WipedOf, SoundLess
        <5> QED BY <3>4, <3>5, <5>1, <5>2
      <4>5. stamp'[p] \ Wiped(Top) = stamp[p] \ Wiped(Top)
        BY <4>1, <4>2
      <4> QED BY <4>2, <4>3, <4>4, <4>5 DEF Sound
    <3>6. CASE Top[1] = "uninstalled"
      <4>1. ~ Wiping(p) /\ ~ Wiping(p)'
        BY <1>1, <3>6 DEF Wiping
      <4>2. Sound(p, stamp[p]) /\ Valid(p)' = stamp'[p]
        BY <3>4, <4>1 DEF Valid
      <4>3. Recipe(Top) = << <<"rm", "staging">>, <<"rm", "target">>, <<"rm", "host">>,
                             <<"undo", "staging">>, <<"undo", "target">> >>
        BY <3>3, <3>6 DEF CleanRecipe
      <4>4. at \in 1 .. 5
        BY <1>1, <4>3
      <4>5. CASE at \in 1 .. 3
        <5>1. c[1] = "rm" /\ c[2] \in InstallStep
          BY <1>0, <4>3, <4>5 DEF InstallStep
        <5>2. stamp'[p] = stamp[p] \ {c[2]} /\ made'[p] = made[p]
          BY <1>2, <5>1 DEF MadeBy, StampBy
        <5>3. Sound(p, stamp[p] \ {c[2]})
          BY <1>1, <4>2, <5>1, SoundLess
        <5> QED BY <4>2, <5>2, <5>3 DEF Sound
      <4>6. CASE at \in 4 .. 5
        <5>1. c[1] = "undo" /\ c[2] \in {"staging", "target"}
          BY <1>0, <4>3, <4>6
        <5>2. stamp[p] \cap {"staging", "target"} = {}
          <6>1. 1 \in 1 .. (at - 1) /\ 2 \in 1 .. (at - 1)
            BY <4>6
          <6>2. /\ Recipe(Top)[1][1] = "rm" /\ Recipe(Top)[1][2] = "staging"
                /\ Recipe(Top)[2][1] = "rm" /\ Recipe(Top)[2][2] = "target"
            BY <4>3
          <6>3. \A i \in 1 .. (at - 1) :
                  Recipe(Top)[i][1] = "rm" => Recipe(Top)[i][2] \notin stamp[p]
            BY <1>1, <3>1 DEF WipeInv
          <6> QED BY <6>1, <6>2, <6>3
        <5>3. stamp'[p] = stamp[p] /\ made'[p] = made[p] \ {c[2]}
          BY <1>2, <5>1 DEF MadeBy, StampBy
        <5> QED BY <4>2, <5>1, <5>2, <5>3 DEF Sound
      <4> QED BY <4>4, <4>5, <4>6
    <3>7. CASE Top[1] = "cleaned"
      <4>1. Wiping(p)' /\ Wiped(Top) = {"built"} /\ Wiped(Top)' = Wiped(Top)
        BY <1>1, <3>7, WipedOf DEF Wiping, Wiped
      <4>2. Valid(p)' = stamp'[p] \ {"built"}
        BY <4>1 DEF Valid
      <4>3. Recipe(Top) = << <<"undo", "built">>, <<"rm", "built">> >>
        BY <3>3, <3>7 DEF CleanRecipe
      <4>4. Sound(p, stamp[p] \ {"built"})
        <5>1. <<"uninstalled", p>> \in done /\ <<"clean", p>> \in Goals
          BY <1>1, <3>7, CleanedParent
        <5>2. stamp[p] \cap {"staging", "target", "host"} = {}
          BY <1>1, <3>2, <5>1, WipedOf
        <5>3. "images" \notin Installs(p)
          BY <1>1, <5>1 DEF Careful
        <5>4. CASE Sound(p, stamp[p])
          <6>1. "images" \notin stamp[p]
            BY <5>3, <5>4 DEF Sound, Chain
          <6>2. stamp[p] \cap InstallStep \subseteq {"built"}
            BY <5>2, <6>1 DEF InstallStep
          <6> QED BY <1>1, <5>4, <6>2, SoundLess
        <5> QED BY <3>4, <4>1, <5>4
      <4>5. (c = <<"undo", "built">> /\ at = 1) \/ (c = <<"rm", "built">> /\ at = 2)
        BY <1>0, <1>1, <4>3
      <4>6. made[p] \ {"built"} \subseteq made'[p] /\ stamp'[p] \ {"built"} = stamp[p] \ {"built"}
        BY <1>2, <4>5 DEF MadeBy, StampBy
      <4> QED BY <4>2, <4>4, <4>6 DEF Sound
    <3>8. CASE Top[1] = "dircleaned"
      <4>1. c[1] = "rmdir"
        BY <1>0, <1>1, <3>3, <3>8 DEF CleanRecipe
      <4>2. stamp'[p] = {}
        BY <1>2, <4>1 DEF StampBy
      <4>3. Valid(p)' = {}
        BY <4>2 DEF Valid
      <4> QED BY <4>3 DEF Sound
    <3> QED BY <3>1, <3>5, <3>6, <3>7, <3>8 DEF Cleaning
  <2> QED BY <2>1, <2>2
<1> QED
  BY <1>3, <1>4 DEF SoundInv

\* A command that is broken off harms no result that has a stamp.
LEMMA SoundBreak ==
    ASSUME Careful, TypeOK, PathInv, DoneInv, WipeInv, SoundInv, Break, HasCommand
    PROVE  \A q \in Pkg : Sound(q, stamp[q])'
<1>01. PICK p \in Pkg : p = Top[2]
  BY TopTarget DEF HasCommand
<1>02. PICK c : c = Recipe(Top)[at]
  OBVIOUS
<1>0. p = Top[2] /\ c = Recipe(Top)[at]
  BY <1>01, <1>02
<1>1. /\ Top \in Target /\ stack # <<>> /\ at \in DOMAIN Recipe(Top) /\ Top = <<Top[1], p>>
      /\ at \in Nat \ {0} /\ Top[1] \in Breakable /\ Top[1] \in Step \cup {"uninstalled"}
  BY <1>0, TopTarget DEF HasCommand, Break, TypeOK, Careful
<1>2. \A q \in Pkg : ~ Wiping(q) /\ Sound(q, stamp[q])
  BY <1>1 DEF SoundInv, Valid, Wiping, Step, Fetch, InstallStep
<1>3. CASE UNCHANGED diskVars
  BY <1>2, <1>3 DEF diskVars, Sound
<1>4. CASE ~ UNCHANGED diskVars
  <2>1. made' = [made EXCEPT ![p] = MadeByHalf(p, c)]
    BY <1>0, <1>4 DEF Break
  <2>2. made'[p] = MadeByHalf(p, c) /\ \A q \in Pkg : q # p => made'[q] = made[q]
    BY <2>1 DEF TypeOK
  <2>3. c[1] # "rmdir" => stamp' = stamp
    BY <1>0, <1>4 DEF Break
  <2>4. CASE Top[1] \in Step
    <3> DEFINE s == Top[1]
    <3>1. Ready(p, s) /\ s \notin stamp[p]
      BY <1>0, <1>1, <2>4, RunningStep DEF HasCommand
    <3>2. Recipe(Top) = << <<"run", s>>, <<"touch", s>> >>
      BY <1>1, <2>4, Commands
    <3>3. c = <<"run", s>> \/ c = <<"touch", s>>
      BY <1>0, <1>1, <3>2
    <3>4. stamp' = stamp /\ made[p] \ (Outdates(s) \cup {s}) \subseteq made'[p]
      BY <2>2, <2>3, <3>3 DEF MadeByHalf, MadeBy
    <3>5. stamp[p] \cap (Outdates(s) \cup {s}) = {}
      BY <1>2, <3>1, NothingStale
    <3>6. \A q \in Pkg : stamp[q] \subseteq made'[q]
      BY <1>2, <2>2, <3>4, <3>5 DEF Sound
    <3> QED BY <1>2, <3>4, <3>6 DEF Sound
  <2>5. CASE Top[1] = "uninstalled"
    <3>1. Recipe(Top) = << <<"rm", "staging">>, <<"rm", "target">>, <<"rm", "host">>,
                           <<"undo", "staging">>, <<"undo", "target">> >>
      BY <1>1, <2>5, Recipes, Disjoint DEF CleanRecipe, Cleaning
    <3>2. at \in 1 .. 5
      BY <1>1, <3>1
    <3>3. CASE at \in 1 .. 3
      <4>1. c[1] = "rm"
        BY <1>0, <3>1, <3>3
      <4>2. stamp' = stamp /\ made'[p] = made[p]
        BY <2>2, <2>3, <4>1 DEF MadeByHalf, MadeBy
      <4>3. \A q \in Pkg : stamp[q] \subseteq made'[q]
        BY <1>2, <2>2, <4>2 DEF Sound
      <4> QED BY <1>2, <4>2, <4>3 DEF Sound
    <3>4. CASE at \in 4 .. 5
      <4>1. c[1] = "undo" /\ c[2] \in {"staging", "target"}
        BY <1>0, <3>1, <3>4
      <4>2. stamp[p] \cap {"staging", "target"} = {}
        <5>1. 1 \in 1 .. (at - 1) /\ 2 \in 1 .. (at - 1)
          BY <3>4
        <5>2. /\ Recipe(Top)[1][1] = "rm" /\ Recipe(Top)[1][2] = "staging"
              /\ Recipe(Top)[2][1] = "rm" /\ Recipe(Top)[2][2] = "target"
          BY <3>1
        <5>3. \A i \in 1 .. (at - 1) :
                Recipe(Top)[i][1] = "rm" => Recipe(Top)[i][2] \notin stamp[p]
          BY <1>0, <1>1, <2>5 DEF WipeInv, Cleaning
        <5> QED BY <5>1, <5>2, <5>3
      <4>3. stamp' = stamp /\ made'[p] = made[p] \ {c[2]}
        BY <2>2, <2>3, <4>1 DEF MadeByHalf, MadeBy
      <4>4. \A q \in Pkg : stamp[q] \subseteq made'[q]
        BY <1>2, <2>2, <4>1, <4>2, <4>3 DEF Sound
      <4> QED BY <1>2, <4>3, <4>4 DEF Sound
    <3> QED BY <3>2, <3>3, <3>4
  <2> QED BY <1>1, <2>4, <2>5
<1> QED
  BY <1>3, <1>4

\* With no command left, no stamp is to be taken back.
LEMMA SoundOver ==
    ASSUME TypeOK, PathInv, DoneInv, WipeInv, SoundInv, stack # <<>>, ~ HasCommand
    PROVE  \A q \in Pkg : Sound(q, stamp[q])
<1> SUFFICES ASSUME NEW q \in Pkg PROVE Sound(q, stamp[q])
  OBVIOUS
<1>1. CASE Wiping(q)
  <2>1. Top[1] \in Cleaning /\ Top[2] = q /\ at > 1
    BY <1>1 DEF Wiping, Cleaning
  <2>2. Unmet(Top) = {}
    BY <2>1, NoCycle DEF DoneInv
  <2>3. stamp[q] \cap Wiped(Top) = {}
    BY <2>1, <2>2, RecipeOver
  <2>4. Valid(q) = stamp[q]
    BY <1>1, <2>3 DEF Valid
  <2> QED BY <2>4 DEF SoundInv
<1>2. CASE ~ Wiping(q)
  BY <1>2 DEF SoundInv, Valid
<1> QED
  BY <1>1, <1>2

LEMMA SoundStep ==
    ASSUME Careful, TypeOK, PathInv, DoneInv, CleanInv, WipeInv, SoundInv, StepInv, MadeInv, [Next]_vars
    PROVE  SoundInv'
<1>0. ASSUME at' = 1 \/ stack' = <<>>, \A q \in Pkg : Sound(q, stamp[q])' PROVE SoundInv'
  <2>1. \A q \in Pkg : Valid(q)' = stamp'[q]
    BY <1>0 DEF Valid, Wiping
  <2> QED BY <1>0, <2>1 DEF SoundInv, Sound
<1>1. ASSUME stack = <<>> \/ at = 1 PROVE \A q \in Pkg : Sound(q, stamp[q])
  <2>1. \A q \in Pkg : Valid(q) = stamp[q]
    BY <1>1 DEF Valid, Wiping
  <2> QED BY <2>1 DEF SoundInv
<1>2. UNCHANGED <<stamp, made>> /\ (\A q \in Pkg : Sound(q, stamp[q])) =>
        \A q \in Pkg : Sound(q, stamp[q])'
  BY DEF Sound
<1>3. ASSUME NEW t \in Goals, Make(t) PROVE SoundInv'
  <2>1. stack = <<>> /\ at' = 1 /\ UNCHANGED <<stamp, made>>
    BY <1>3 DEF Make, diskVars
  <2> QED BY <1>0, <1>1, <1>2, <2>1
<1>4. CASE Descend
  <2>1. at = 1 /\ at' = 1 /\ UNCHANGED <<stamp, made>>
    BY <1>4, DescendStep DEF Descend, diskVars
  <2> QED BY <1>0, <1>1, <1>2, <2>1
<1>5. CASE Command
  BY <1>5, SoundCommand
<1>6. CASE Break
  <2>1. CASE HasCommand
    <3>1. stack' = <<>>
      BY <1>6 DEF Break
    <3>2. \A q \in Pkg : Sound(q, stamp[q])'
      BY <1>6, <2>1, SoundBreak
    <3> QED BY <1>0, <3>1, <3>2
  <2>2. CASE ~ HasCommand
    <3>1. stack' = <<>> /\ stack # <<>> /\ UNCHANGED <<stamp, made>>
      BY <1>6, <2>2 DEF Break, diskVars
    <3>2. \A q \in Pkg : Sound(q, stamp[q])
      BY <2>2, <3>1, SoundOver
    <3> QED BY <1>0, <1>2, <3>1, <3>2
  <2> QED BY <2>1, <2>2
<1>7. CASE Finish
  <2>1. at' = 1 /\ stack # <<>> /\ UNCHANGED <<stamp, made>> /\ ~ HasCommand
    BY <1>7 DEF Finish, diskVars
  <2>2. \A q \in Pkg : Sound(q, stamp[q])
    BY <2>1, SoundOver
  <2> QED BY <1>0, <1>2, <2>1, <2>2
<1>8. ASSUME NEW p \in Pkg, EditSource(p) PROVE SoundInv'
  <2>1. stack = <<>> /\ stack' = <<>> /\ UNCHANGED <<stamp, made>>
    BY <1>8 DEF EditSource
  <2> QED BY <1>0, <1>1, <1>2, <2>1
<1>9. ASSUME NEW p \in Pkg, NEW s \in Step, RemoveStamp(p, s) PROVE SoundInv'
  <2>1. /\ stack = <<>> /\ stack' = <<>> /\ made' = made
        /\ s \in InstallStep /\ stamp' = [stamp EXCEPT ![p] = @ \ {s}]
    BY <1>9 DEF RemoveStamp, Careful
  <2>2. stamp'[p] = stamp[p] \ {s} /\ \A q \in Pkg : q # p => stamp'[q] = stamp[q]
    BY <2>1 DEF TypeOK
  <2>3. \A q \in Pkg : Sound(q, stamp[q])
    BY <1>1, <2>1
  <2>4. Sound(p, stamp[p] \ {s})
    BY <2>1, <2>3, SoundLess
  <2>5. \A q \in Pkg : Sound(q, stamp'[q])
    BY <2>2, <2>3, <2>4
  <2>6. \A q \in Pkg : Sound(q, stamp[q])'
    BY <2>1, <2>5 DEF Sound
  <2> QED BY <1>0, <2>1, <2>6
<1>10. CASE UNCHANGED vars
  <2>1. /\ \A q \in Pkg : Valid(q)' = Valid(q)
        /\ made' = made
    BY <1>10 DEF vars, Valid, Wiping, Wiped, Top
  <2> QED BY <2>1 DEF SoundInv, Sound
<1> QED
  BY <1>3, <1>4, <1>5, <1>6, <1>7, <1>8, <1>9, <1>10 DEF Next, User

\* Running a step: first its command, then its stamp.
LEMMA RunStep ==
    ASSUME TypeOK, PathInv, DoneInv, Command, Top[1] \in Step
    PROVE  /\ at \in {1, 2} /\ Top[2] \in Pkg /\ stack # <<>>
           /\ at = 1 => /\ Recipe(Top)[at] = <<"run", Top[1]>>
                        /\ stamp' = stamp
           /\ at = 2 => /\ Recipe(Top)[at] = <<"touch", Top[1]>>
                        /\ stamp'[Top[2]] = stamp[Top[2]] \cup {Top[1]}
           /\ \A q \in Pkg : q # Top[2] => stamp'[q] = stamp[q]
<1>0. PICK p \in Pkg, s \in Step : Top = <<s, p>>
  BY CommandStep DEF Target
<1>1. /\ at \in DOMAIN Recipe(Top) /\ stack # <<>> /\ at \in Nat \ {0}
      /\ Recipe(Top) = << <<"run", s>>, <<"touch", s>> >>
  BY <1>0, CommandStep, Commands DEF TypeOK
<1>2. at = 1 \/ at = 2
  BY <1>1
<1>3. /\ stamp'[p] = StampBy(p, Recipe(Top)[at])
      /\ \A q \in Pkg : q # p => stamp'[q] = stamp[q]
      /\ stamp' = [stamp EXCEPT ![p] = StampBy(p, Recipe(Top)[at])]
  BY <1>0, CommandDisk DEF Command
<1>4. CASE at = 1
  <2>1. Recipe(Top)[at] = <<"run", s>>
    BY <1>1, <1>4
  <2>2. stamp' = stamp
    BY <1>3, <2>1 DEF StampBy, TypeOK
  <2> QED BY <1>0, <1>1, <1>3, <1>4, <2>1, <2>2
<1>5. CASE at = 2
  <2>1. Recipe(Top)[at] = <<"touch", s>>
    BY <1>1, <1>5
  <2>2. stamp'[p] = stamp[p] \cup {s}
    BY <1>3, <2>1 DEF StampBy
  <2> QED BY <1>0, <1>1, <1>3, <1>5, <2>1, <2>2
<1> QED
  BY <1>2, <1>4, <1>5

\* No step is done while a recipe removes stamps.
LEMMA RemovingFirst ==
    ASSUME TypeOK, PathInv, DoneInv, CleanInv, Command, Top[1] \notin Step
    PROVE  \A t \in done : t[1] \notin Step
<1>1. Top[1] \in Cleaning /\ stack # <<>>
  BY RemovingCommand, CommandStep
<1>2. Len(stack) \in 1 .. Len(stack) /\ Top = stack[Len(stack)]
  BY <1>1, TopTarget DEF Top
<1>3. Cleaned
  BY <1>1, <1>2 DEF CleanInv
<1> QED
  BY <1>3, Disjoint DEF Cleaned

LEMMA StepStep ==
    ASSUME TypeOK, PathInv, DoneInv, CleanInv, StepInv, [Next]_vars
    PROVE  StepInv'
<1>1. ASSUME NEW t \in Goals, Make(t) PROVE StepInv'
  <2>1. done' = {} /\ at' = 1
    BY <1>1 DEF Make, PathInv
  <2> QED BY <2>1 DEF StepInv
<1>2. CASE Descend
  <2>1. at' = 1 /\ done' = done /\ stamp' = stamp
    BY <1>2, DescendStep DEF Descend, diskVars
  <2> QED BY <2>1 DEF StepInv
<1>3. CASE Command
  <2>1. Top' = Top /\ at' = at + 1 /\ done' = done /\ \A t \in done : t[2] \in Pkg
    BY <1>3, CommandStep DEF TypeOK, Target
  <2>2. CASE Top[1] \in Step
    <3>1. /\ at \in {1, 2} /\ Top[2] \in Pkg
          /\ at = 1 => stamp' = stamp
          /\ at = 2 => stamp'[Top[2]] = stamp[Top[2]] \cup {Top[1]}
          /\ \A q \in Pkg : q # Top[2] => stamp'[q] = stamp[q]
      BY <1>3, <2>2, RunStep
    <3>2. \A q \in Pkg : stamp[q] \subseteq stamp'[q]
      BY <3>1
    <3>3. \A t \in done' : t[1] \in Step => t[1] \in stamp'[t[2]]
      BY <2>1, <3>2 DEF StepInv
    <3>4. at' = 3 => Top[1] \in stamp'[Top[2]]
      BY <2>1, <3>1
    <3> QED BY <2>1, <3>3, <3>4 DEF StepInv
  <2>3. CASE Top[1] \notin Step
    BY <1>3, <2>1, <2>3, RemovingFirst DEF StepInv
  <2> QED BY <2>2, <2>3
<1>4. CASE Break
  BY <1>4 DEF Break, StepInv
<1>5. CASE Finish
  <2>1. /\ stack # <<>> /\ Top \in Target /\ at' = 1 /\ stamp' = stamp
        /\ done' = {} \/ done' = done \cup {Top}
    BY <1>5, FinishStep, TopTarget DEF diskVars
  <2>2. Top[1] \in Step => Top[1] \in stamp[Top[2]]
    <3> SUFFICES ASSUME Top[1] \in Step, Top[1] \notin stamp[Top[2]] PROVE FALSE
      OBVIOUS
    <3>1. Recipe(Top) = << <<"run", Top[1]>>, <<"touch", Top[1]>> >>
      BY <2>1, Recipes
    <3>2. at \notin 1 .. 2
      BY <1>5, <3>1 DEF Finish, HasCommand
    <3>3. at = 3
      BY <3>1, <3>2 DEF DoneInv, TypeOK
    <3> QED BY <2>1, <3>3 DEF StepInv
  <2> QED BY <2>1, <2>2 DEF StepInv
<1>6. ASSUME NEW p \in Pkg, EditSource(p) \/ \E s \in Step : RemoveStamp(p, s) PROVE StepInv'
  <2>1. stack' = <<>> /\ done' = {}
    BY <1>6 DEF EditSource, RemoveStamp, PathInv
  <2> QED BY <2>1 DEF StepInv
<1>7. CASE UNCHANGED vars
  BY <1>7 DEF vars, StepInv, Top
<1> QED
  BY <1>1, <1>2, <1>3, <1>4, <1>5, <1>6, <1>7 DEF Next, User

\* What a step reads is there, for it has a stamp.
LEMMA MadeStep ==
    ASSUME TypeOK, PathInv, DoneInv, SoundInv, StepInv, MadeInv, [Next]_vars
    PROVE  MadeInv'
<1>1. ASSUME at' = 1 \/ stack' = <<>> PROVE MadeInv'
  BY <1>1 DEF MadeInv
<1>2. ASSUME NEW t \in Goals, Make(t) PROVE MadeInv'
  BY <1>1, <1>2 DEF Make
<1>3. CASE Descend
  BY <1>1, <1>3, DescendStep DEF Descend
<1>4. CASE Command
  <2> SUFFICES ASSUME at' = 2, Top'[1] \in Step PROVE Top'[1] \in made'[Top'[2]]
    BY DEF MadeInv
  <2>1. Top' = Top /\ at' = at + 1 /\ at \in Nat /\ stack # <<>>
    BY <1>4, CommandStep DEF TypeOK
  <2>2. PICK p \in Pkg, s \in Step : Top = <<s, p>>
    BY <1>4, <2>1, CommandStep DEF Target
  <2>3. at = 1 /\ Recipe(Top)[at] = <<"run", s>>
    BY <1>4, <2>1, <2>2, RunStep
  <2>4. Reads(p, s) \subseteq made[p]
    <3>1. Ready(p, s)
      BY <2>1, <2>2, RunningStep
    <3>2. ASSUME NEW r \in Reads(p, s) PROVE r \in stamp[p]
      <4>1. <<r, p>> \in done /\ r \in Step
        BY <3>1 DEF Ready, Chain, Step, Fetch
      <4> QED BY <4>1 DEF StepInv
    <3>3. Valid(p) = stamp[p]
      BY <2>3 DEF Valid, Wiping
    <3> QED BY <3>2, <3>3 DEF SoundInv, Sound
  <2>5. made'[p] = MadeBy(p, Recipe(Top)[at])
    BY <1>4, <2>2, CommandDisk
  <2>6. s \in made'[p]
    BY <2>3, <2>4, <2>5 DEF MadeBy
  <2> QED BY <2>1, <2>2, <2>6
<1>5. CASE Break
  BY <1>1, <1>5 DEF Break
<1>6. CASE Finish
  BY <1>1, <1>6 DEF Finish
<1>7. ASSUME NEW p \in Pkg, EditSource(p) \/ \E s \in Step : RemoveStamp(p, s) PROVE MadeInv'
  BY <1>1, <1>7 DEF EditSource, RemoveStamp
<1>8. CASE UNCHANGED vars
  BY <1>8 DEF vars, MadeInv, Top
<1> QED
  BY <1>2, <1>3, <1>4, <1>5, <1>6, <1>7, <1>8 DEF Next, User
-----------------------------------------------------------------------------
(* What a success means.                                                     *)

\* Whatever is below an installed package is installed.
LEMMA InstalledBelow ==
    ASSUME InstalledSomewhere, NEW D, Closed(D), NEW p \in Pkg, <<"install", p>> \in D
    PROVE  \A q \in Below(p) \cup {p} :
              <<"install", q>> \in D /\ \A s \in Installs(q) : <<s, q>> \in D
<1> DEFINE I == {q \in Pkg : <<"install", q>> \in D}
<1>1. ASSUME NEW q \in I PROVE DepsOf(q) \subseteq I /\ \A s \in Installs(q) : <<s, q>> \in D
  <2>1. Through(q, D) /\ q \in Pkg /\ <<"install", q>> \in D
    BY ConfigureDone
  <2>2. <<"build", q>> \in D
    BY <2>1 DEF Through, InstalledSomewhere
  <2>3. DepsOf(q) \subseteq Pkg
    BY <2>1, BelowClosed
  <2> QED BY <2>1, <2>2, <2>3 DEF Through
<1>2. Below(p) \subseteq I
  <2>1. p \in I /\ I \in SUBSET Pkg
    OBVIOUS
  <2> HIDE DEF I
  <2> QED BY <1>1, <2>1 DEF Below
<1> QED
  BY <1>1, <1>2

\* Sources that a rebuild syncs again stay synced until it ends.
LEMMA FreshStep ==
    ASSUME TypeOK, PathInv, DoneInv, CleanInv, WipeInv, FreshInv, [Next]_vars
    PROVE  FreshInv'
<1>1. ASSUME NEW t \in Goals, Make(t) PROVE FreshInv'
  <2>1. done' = {} /\ at' = 1
    BY <1>1 DEF Make, PathInv
  <2> QED BY <2>1 DEF FreshInv
<1>2. CASE Descend
  <2>1. /\ at' = 1 /\ stack # <<>> /\ stack'[1] = stack[1]
        /\ done' = done /\ stamp' = stamp /\ edited' = edited
    BY <1>2, DescendStep DEF Descend, diskVars, TypeOK
  <2> QED BY <2>1 DEF FreshInv
<1>3. CASE Command
  <2> SUFFICES ASSUME stack[1][1] \in Again
               PROVE  LET p == stack[1][2]
                      IN /\ <<"clean-for-rebuild", p>> \in done' /\ "rsynced" \in stamp'[p] =>
                              p \notin edited'
                         /\ Top' = <<"rsynced", p>> /\ at' = 2 => p \notin edited'
    BY <1>3, CommandStep DEF FreshInv
  <2>1. /\ Top' = Top /\ at' = at + 1 /\ done' = done /\ stack # <<>> /\ at \in Nat
        /\ edited' \subseteq edited /\ Top \in Target
    BY <1>3, CommandStep DEF Command, TypeOK
  <2>2. PICK p \in Pkg : p = stack[1][2]
    <3>1. Len(stack) \in Nat /\ Len(stack) > 0
      BY <2>1, TopTarget
    <3>2. stack[1] \in Target
      BY <3>1 DEF TypeOK
    <3> QED BY <3>2 DEF Target
  <2>3. /\ <<"clean-for-rebuild", p>> \in done /\ "rsynced" \in stamp[p] => p \notin edited
        /\ Top = <<"rsynced", p>> /\ at = 2 => p \notin edited
    BY <2>1, <2>2 DEF FreshInv
  <2>4. CASE Top[1] \in Step
    <3>0. /\ at \in {1, 2}
          /\ at = 1 => Recipe(Top)[at] = <<"run", Top[1]>> /\ stamp' = stamp
          /\ at = 2 => stamp'[Top[2]] = stamp[Top[2]] \cup {Top[1]}
          /\ \A q \in Pkg : q # Top[2] => stamp'[q] = stamp[q]
      BY <1>3, <2>4, RunStep
    <3>1. Top = <<"rsynced", p>> /\ at = 1 => p \notin edited'
      BY <1>3, <3>0 DEF Command
    <3>2. "rsynced" \in stamp'[p] => "rsynced" \in stamp[p] \/ (Top = <<"rsynced", p>> /\ at = 2)
      BY <2>1, <3>0 DEF Target
    <3> QED BY <2>1, <2>2, <2>3, <3>1, <3>2
  <2>5. CASE Top[1] \notin Step
    <3>1. stamp'[p] \subseteq stamp[p] /\ Top[1] # "rsynced"
      BY <1>3, <2>5, RemovingCommand DEF Step, Fetch
    <3> QED BY <2>1, <2>2, <2>3, <3>1
  <2> QED BY <2>4, <2>5
<1>4. CASE Break
  BY <1>4 DEF Break, FreshInv
<1>5. CASE Finish
  <2> SUFFICES ASSUME stack' # <<>>, stack'[1][1] \in Again,
                      <<"clean-for-rebuild", stack'[1][2]>> \in done',
                      "rsynced" \in stamp'[stack'[1][2]]
               PROVE  stack'[1][2] \notin edited'
    BY <1>5 DEF FreshInv, Finish
  <2>1. /\ Len(stack) > 1 /\ Len(stack') = Len(stack) - 1 /\ stack # <<>>
        /\ \A i \in 1 .. Len(stack') : stack'[i] = stack[i]
        /\ done' = done \cup {Top} /\ stamp' = stamp /\ edited' = edited
    BY <1>5, FinishStep DEF diskVars
  <2>2. Len(stack) \in Nat /\ stack[1] \in Target
    BY <2>1, TopTarget DEF TypeOK
  <2>3. stack'[1] = stack[1]
    BY <2>1, <2>2
  <2>4. PICK p \in Pkg : p = stack[1][2]
    BY <2>2 DEF Target
  <2>5. CASE <<"clean-for-rebuild", p>> \in done
    BY <2>1, <2>3, <2>4, <2>5 DEF FreshInv
  <2>6. CASE Top = <<"clean-for-rebuild", p>>
    <3>1. stamp[p] \cap Wiped(<<"clean-for-rebuild", p>>) = {}
      BY <1>5, <2>1, <2>6, RecipeOver DEF Finish, Cleaning
    <3>2. p \notin Override
      BY <2>1, <2>3, <2>4, <3>1, WipedOf
    <3> QED BY <2>1, <2>3, <2>4, <3>2 DEF TypeOK
  <2> QED BY <2>1, <2>3, <2>4, <2>5, <2>6
<1>6. ASSUME NEW p \in Pkg, EditSource(p) \/ \E s \in Step : RemoveStamp(p, s) PROVE FreshInv'
  BY <1>6 DEF EditSource, RemoveStamp, FreshInv
<1>7. CASE UNCHANGED vars
  BY <1>7 DEF vars, FreshInv, Top
<1> QED
  BY <1>1, <1>2, <1>3, <1>4, <1>5, <1>6, <1>7 DEF Next, User

LEMMA OkStep ==
    ASSUME InstalledSomewhere, TypeOK, PathInv, DoneInv, StepInv, FreshInv, OkInv, [Next]_vars
    PROVE  OkInv'
<1>1. ASSUME ok' = FALSE PROVE OkInv'
  BY <1>1 DEF OkInv
<1>2. stack # <<>> => ok = FALSE
  BY DEF OkInv, TypeOK
<1>3. ASSUME NEW t \in Goals, Make(t) PROVE OkInv'
  BY <1>1, <1>3 DEF Make
<1>4. CASE Descend \/ Command \/ Break
  BY <1>1, <1>2, <1>4 DEF Descend, Command, HasCommand, Break
<1>5. CASE Finish
  <2>1. CASE Len(stack) # 1
    BY <1>1, <1>5, <2>1 DEF Finish
  <2>2. CASE Len(stack) = 1
    <3>1. /\ stack # <<>> /\ stack' = <<>> /\ UNCHANGED <<stamp, made, edited, goal>>
          /\ Elements(Prereqs(Top)) \subseteq done /\ Top = goal /\ stack[1] = goal
          /\ goal \in Target
      BY <1>5, <2>2, FinishStep, TopTarget DEF Finish, diskVars, Top, PathInv
    <3> SUFFICES ASSUME goal[1] \in {"install"} \cup Again
                 PROVE  /\ \A q \in Below(goal[2]) \cup {goal[2]} : Installs(q) \subseteq stamp[q]
                        /\ goal[1] # "install" => goal[2] \notin edited
      BY <3>1 DEF OkInv
    <3> DEFINE D == done \cup {Top}
    <3>2. Closed(D)
      BY <3>1 DEF DoneInv, Closed
    <3>3. PICK p \in Pkg : p = goal[2] /\ goal = <<goal[1], p>>
      BY <3>1, TopTarget
    <3>4. /\ Prereqs(<<"rebuild", p>>) = <<<<"clean-for-rebuild", p>>, <<"install", p>>>>
          /\ Prereqs(<<"reconfigure", p>>) = <<<<"clean-for-reconfigure", p>>, <<"install", p>>>>
          /\ Prereqs(<<"clean-for-reconfigure", p>>) = <<<<"clean-for-rebuild", p>>>>
      BY Rules DEF RulesOf
    <3>5. /\ Elements(Prereqs(<<"rebuild", p>>)) = {<<"clean-for-rebuild", p>>, <<"install", p>>}
          /\ Elements(Prereqs(<<"reconfigure", p>>)) =
                {<<"clean-for-reconfigure", p>>, <<"install", p>>}
          /\ Elements(Prereqs(<<"clean-for-reconfigure", p>>)) = {<<"clean-for-rebuild", p>>}
      BY <3>4, ElementsOf
    <3>6. <<"install", p>> \in D
      BY <3>1, <3>3, <3>5 DEF Again
    <3>7. \A t \in D : t[1] \in Step => t[1] \in stamp[t[2]]
      BY <3>1, Disjoint DEF StepInv, Step, Fetch, InstallStep
    <3> HIDE DEF D
    <3>8. ASSUME NEW q \in Below(p) \cup {p} PROVE Installs(q) \subseteq stamp[q]
      <4>1. \A s \in Installs(q) : <<s, q>> \in D
        BY <3>2, <3>6, <3>8, InstalledBelow
      <4>2. Installs(q) \subseteq Step
        BY <3>8, BelowClosed, PackageAssumption DEF PackageAssumption, Step
      <4> QED BY <3>7, <4>1, <4>2
    <3>9. ASSUME goal[1] # "install" PROVE p \notin edited
      <4>1. <<"clean-for-rebuild", p>> \in done
        <5>1. CASE goal[1] = "rebuild"
          BY <3>1, <3>3, <3>5, <5>1
        <5>2. CASE goal[1] = "reconfigure"
          BY <3>1, <3>3, <3>5, <5>2 DEF DoneInv
        <5> QED BY <3>9, <5>1, <5>2 DEF Again
      <4>2. CASE p \in Override
        <5>1. Through(p, D)
          BY <3>2, ConfigureDone
        <5>2. <<"rsynced", p>> \in D
          BY <3>6, <4>2, <5>1 DEF Through, InstalledSomewhere
        <5>3. "rsynced" \in stamp[p]
          BY <3>7, <5>2 DEF Step, Fetch
        <5> QED BY <3>1, <3>3, <3>9, <4>1, <5>3 DEF FreshInv
      <4>3. CASE p \notin Override
        BY <4>3 DEF TypeOK
      <4> QED BY <4>2, <4>3
    <3> QED BY <3>3, <3>8, <3>9
  <2> QED BY <2>1, <2>2
<1>6. ASSUME NEW p \in Pkg, EditSource(p) \/ \E s \in Step : RemoveStamp(p, s) PROVE OkInv'
  BY <1>1, <1>6 DEF EditSource, RemoveStamp
<1>7. CASE UNCHANGED vars
  BY <1>7 DEF vars, OkInv
<1> QED
  BY <1>3, <1>4, <1>5, <1>6, <1>7 DEF Next, User
-----------------------------------------------------------------------------
(* The theorems.                                                             *)

\* Every variable keeps its type, and make a stack that leads down the rules,
\* so that it drops no circular dependency.
THEOREM TypeCorrect == Spec => [](TypeOK /\ PathInv)
<1> DEFINE Inv == TypeOK /\ PathInv /\ DoneInv
<1>1. Init => Inv
  <2> SUFFICES ASSUME Init PROVE Inv
    OBVIOUS
  <2>1. TypeOK
    <3>1. <<>> \in Seq(Target)
      OBVIOUS
    <3>2. ok \in BOOLEAN
      BY Zenon DEF Init
    <3>3. goal \in Target \cup {<<>>} /\ at \in Nat \ {0} /\ done \subseteq Target /\ stack \in Seq(Target)
      BY <3>1 DEF Init
    <3>4. /\ stamp \in [Pkg -> SUBSET Step] /\ made \in [Pkg -> SUBSET Step] /\ edited \subseteq Override
      BY DEF Init
    <3> QED BY <3>2, <3>3, <3>4 DEF TypeOK
  <2>2. Len(<<>>) = 0
    OBVIOUS
  <2> QED BY <2>1, <2>2 DEF Init, PathInv, DoneInv
<1>2. Inv /\ [Next]_vars => Inv'
  BY TypeStep, PathStep, DoneStep
<1> QED
  BY <1>1, <1>2, PTL DEF Spec

LEMMA RunInv == Spec => [](TypeOK /\ PathInv /\ DoneInv /\ CleanInv /\ WipeInv /\ StepInv /\ FreshInv)
<1> DEFINE Inv == DoneInv /\ CleanInv /\ WipeInv /\ StepInv /\ FreshInv
<1>1. Init => Inv
  <2> SUFFICES ASSUME Init PROVE Inv
    OBVIOUS
  <2>1. Len(<<>>) = 0 /\ stack = <<>> /\ at = 1 /\ done = {}
    BY DEF Init
  <2> QED BY <2>1 DEF DoneInv, CleanInv, WipeInv, StepInv, FreshInv
<1>2. TypeOK /\ PathInv /\ Inv /\ [Next]_vars => Inv'
  BY DoneStep, CleanStep, WipeStep, StepStep, FreshStep
<1> QED
  BY <1>1, <1>2, TypeCorrect, PTL DEF Spec

\* A package is configured, built and installed only while everything below it
\* is installed, whatever users clean, uninstall or edit and whatever fails.
THEOREM DependenciesFirst == ASSUME InstalledSomewhere PROVE Spec => []DepsFirst
<1>1. TypeOK /\ PathInv /\ DoneInv /\ StepInv => DepsFirst
  <2> SUFFICES ASSUME TypeOK, PathInv, DoneInv, StepInv, stack # <<>>,
                      Top[1] \in {"configured", "built"} \cup InstallStep,
                      NEW q \in Below(Top[2])
               PROVE  Installs(q) \subseteq stamp[q]
    BY DEF DepsFirst
  <2>1. PICK p \in Pkg : p = Top[2]
    BY TopTarget
  <2>2. Top[1] \in Step
    BY DEF Step
  <2>3. Ready(p, Top[1])
    BY <2>1, <2>2, RunningStep
  <2>4. \A d \in DepsOf(p) : <<"install", d>> \in done
    BY <2>3 DEF Ready
  <2>5. Closed(done)
    BY DEF DoneInv, Closed
  <2> DEFINE I == {d \in Pkg : <<"install", d>> \in done}
  <2>6. DepsOf(p) \subseteq I /\ \A d \in I : DepsOf(d) \subseteq I
    <3>1. DepsOf(p) \subseteq I
      BY <2>4, BelowClosed
    <3>2. ASSUME NEW d \in I, NEW e \in DepsOf(d) PROVE e \in I
      <4>1. e \in Below(d) /\ e \in Pkg
        BY BelowClosed
      <4>2. <<"install", e>> \in done
        BY <2>5, <4>1, InstalledBelow
      <4> QED BY <4>1, <4>2
    <3> QED BY <3>1, <3>2
  <2>7. q \in I
    <3>1. I \in SUBSET Pkg
      OBVIOUS
    <3> HIDE DEF I
    <3> QED BY <2>1, <2>6, <3>1 DEF Below
  <2>8. \A s \in Installs(q) : <<s, q>> \in done
    BY <2>5, <2>7, InstalledBelow
  <2>9. Installs(q) \subseteq Step
    BY <2>7, PackageAssumption DEF PackageAssumption, Step
  <2> QED BY <2>8, <2>9 DEF StepInv
<1> QED
  BY <1>1, RunInv, PTL

\* Outside a recipe the result of a step that make would skip is there and made
\* from the present results of the steps before.
THEOREM StampsAreTrue == ASSUME Careful PROVE Spec => []StampsTrue
<1> DEFINE Inv == SoundInv /\ MadeInv
<1>1. Init => Inv
  BY DEF Init, SoundInv, Sound, Valid, Wiping, MadeInv
<1>2. TypeOK /\ PathInv /\ DoneInv /\ CleanInv /\ WipeInv /\ StepInv /\ Inv /\ [Next]_vars => Inv'
  BY SoundStep, MadeStep
<1>3. Inv => StampsTrue
  <2> SUFFICES ASSUME SoundInv, at = 1, NEW p \in Pkg PROVE stamp[p] \subseteq made[p]
    BY DEF StampsTrue
  <2>1. Valid(p) = stamp[p]
    BY DEF Valid, Wiping
  <2> QED BY <2>1 DEF SoundInv, Sound
<1> QED
  BY <1>1, <1>2, <1>3, RunInv, PTL DEF Spec

\* A success of `make <pkg>', <pkg>-rebuild or <pkg>-reconfigure leaves the
\* package and all it needs installed from what is there, the last two with the
\* edited sources.
THEOREM SuccessDelivers == ASSUME Careful, InstalledSomewhere PROVE Spec => []Delivered
<1>1. Init => OkInv
  BY DEF Init, OkInv
<1>2. TypeOK /\ PathInv /\ DoneInv /\ StepInv /\ FreshInv /\ OkInv /\ [Next]_vars => OkInv'
  BY OkStep
<1>3. TypeOK /\ PathInv /\ OkInv /\ StampsTrue => Delivered
  <2> SUFFICES ASSUME TypeOK, PathInv, OkInv, StampsTrue, ok, goal[1] \in {"install"} \cup Again
               PROVE  /\ \A q \in Below(goal[2]) \cup {goal[2]} : Installs(q) \subseteq stamp[q]
                      /\ \A q \in Below(goal[2]) \cup {goal[2]} : Installs(q) \subseteq made[q]
                      /\ goal[1] # "install" => goal[2] \notin edited
    BY DEF Delivered, Again
  <2>1. at = 1
    BY DEF OkInv, PathInv
  <2>2. goal[2] \in Pkg
    BY DEF OkInv, Target
  <2>3. Below(goal[2]) \subseteq Pkg
    BY <2>2, BelowClosed
  <2> QED BY <2>1, <2>2, <2>3 DEF OkInv, StampsTrue
<1> QED
  BY <1>1, <1>2, <1>3, RunInv, StampsAreTrue, PTL DEF Spec
=============================================================================
