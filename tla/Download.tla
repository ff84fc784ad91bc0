------------------------------ MODULE Download ------------------------------
(* How the sources of a package are fetched (package/Makefile.package.in):   *)
(* the rule of .stamp_downloaded, DOWNLOAD with its three sources and the    *)
(* helpers DOWNLOAD_*, the other two spider modes, and a user who runs make  *)
(* again after a failure.  wget, git and the other tools are external: a     *)
(* helper is the set of outcomes that its commands can have.                 *)
EXTENDS Naturals

CONSTANTS
    Files,       \* <PKG>_ALL_DOWNLOADS are 1 .. Files; <PKG>_SOURCE is the first
    Methods,     \* what <PKG>_SITE_METHOD may be
    Primaries,   \* the scheme of BR2_PRIMARY_SITE, "none" if there is none
    MaxCleans    \* bound on the runs of distclean

\* The methods that fetch the file they are asked for; the others make an
\* archive of a working copy, or copy one file, and call it <PKG>_SOURCE.
PerFile == {"http", "scp"}

ASSUME DownloadAssumption ==
    /\ Files \in Nat \ {0}
    /\ Methods \subseteq PerFile \cup {"git", "sparse", "svn", "hg", "bzr", "file"}
    /\ Primaries \subseteq {"none"} \cup PerFile
    /\ MaxCleans \in Nat

VARIABLES
    method, primary, backup,  \* the configuration: is there a backup site?
    dl,       \* dl[f]: what is in DL_DIR under the name of f
    tree,     \* what is where a working copy would go: "none" or "clone"
    stamp,    \* is there a .stamp_downloaded?
    mode,     \* DL_MODE of the last make
    at,       \* the file that is fetched
    place,    \* the source that is tried, "touch" behind the last, or "idle"
    result,   \* of the last make
    asked,    \* history: the files that the last make asked a source for
    cut,      \* history: was a make interrupted?  (Bound: one is.)
    cleans

config == <<method, primary, backup>>
disk == <<dl, tree, stamp>>
vars == <<config, disk, mode, at, place, result, asked, cut, cleans>>

File == 1 .. Files

\* "page" is what a web server answers for a directory.
Content == {"absent", "part", "page", "whole"}

NoFiles == [f \in File |-> "absent"]
-----------------------------------------------------------------------------
(* The helpers, for a file that is not there.                                *)

Delivered(c, t) == [file |-> c, tree |-> t, status |-> "ok"]

Failed(c, t) == [file |-> c, tree |-> t, status |-> "failed"]

\* Mutant: the file that wget has created is not removed.
WgetKeeps(c) == {Delivered(c, tree), Failed("part", tree)}

\* `If the download fails, remove the file'.
Wget(c) == {Delivered(c, tree), Failed("absent", tree)}

\* scp, cp and bzr export leave what they have written.
Copy == {Delivered("whole", tree), Failed("absent", tree), Failed("part", tree)}

\* Once there is a clone: the commands that follow may fail; gzip may; and
\* when git archive fails the pipe has the status of gzip.
FromClone ==
    {Failed("absent", "clone"), Failed("part", "clone"),
     Delivered("part", "clone"), Delivered("whole", "clone")}

\* Mutant: a refused clone ends the helper.
GitRefused ==
    IF tree = "clone" THEN {Failed("absent", "clone")}
    ELSE FromClone \cup {Failed("absent", "none")}

\* git clone refuses a directory that is not empty, but the `;' behind it takes
\* the helper on into that directory, and the clone there is archived.  Without
\* a directory pushd fails.  (A sparse repository is initialised again, and
\* whether it could be pulled is not looked at.)
Git == FromClone \cup (IF tree = "clone" THEN {} ELSE {Failed("absent", "none")})

\* svn export and hg clone refuse a directory as well.  Theirs is removed once
\* the archive is made.
Export ==
    IF tree = "clone" THEN {Failed("absent", "clone")}
    ELSE {Failed("absent", "none"), Failed("absent", "clone"), Failed("part", "clone"),
          Delivered("whole", "none")}

Helper(m) ==
    CASE m = "http" -> Wget("whole")
      [] m = "git" -> Git
      [] m = "sparse" -> FromClone
      [] m \in {"svn", "hg"} -> Export
      [] OTHER -> Copy

\* The source whose turn it is.
Tool == CASE place = "primary" -> primary [] place = "site" -> method [] OTHER -> "http"

\* The primary site is asked for its own URL, a directory, and not for the
\* file in it; scp copies none.
Outcomes ==
    IF place # "primary" THEN Helper(Tool)
    ELSE IF Tool = "http" THEN Wget("page") ELSE {Failed("absent", tree)}

\* The name under which it stores a file.
Stored == IF place = "site" /\ method \notin PerFile THEN 1 ELSE at

\* Mutant: a file that is there is fetched again.
AttemptAgain == Outcomes

\* `Only download the file if it doesn't already exist'.
Attempt == IF dl[Stored] = "absent" THEN Outcomes ELSE {Delivered(dl[Stored], tree)}
-----------------------------------------------------------------------------
(* make <pkg>-source.                                                        *)

Used == CASE place = "primary" -> primary # "none" [] place = "backup" -> backup [] OTHER -> TRUE

Behind == [primary |-> "site", site |-> "backup", backup |-> "idle"]

\* The next source after a failure, the next file after a success; without
\* another source make stops.
GoOn(ok) ==
    /\ place' = (IF ~ ok THEN Behind[place] ELSE IF at < Files THEN "primary" ELSE "touch")
    /\ at' = (IF ok /\ at < Files THEN at + 1 ELSE at)
    /\ result' = (IF ~ ok /\ place = "backup" THEN "failed" ELSE result)

\* DOWNLOAD_INNER, one source.  SHOW_EXTERNAL_DEPS only prints.
Skip == ~ Used /\ GoOn(FALSE) /\ UNCHANGED <<dl, tree, asked>>

Fetch ==
    /\ Used /\ mode = "DOWNLOAD"
    /\ \E o \in Attempt :
          dl' = [dl EXCEPT ![Stored] = o.file] /\ tree' = o.tree /\ GoOn(o.status = "ok")
    /\ asked' = asked \cup {at}

Check ==
    /\ Used /\ mode = "SOURCE_CHECK"
    /\ \E ok \in BOOLEAN : GoOn(ok)
    /\ asked' = asked \cup {at} /\ UNCHANGED <<dl, tree>>

Show == Used /\ mode = "SHOW_EXTERNAL_DEPS" /\ GoOn(TRUE) /\ UNCHANGED <<dl, tree, asked>>

Source ==
    /\ place \in DOMAIN Behind
    /\ Skip \/ Fetch \/ Check \/ Show
    /\ UNCHANGED <<config, stamp, mode, cut, cleans>>

\* Mutant: the stamp is touched whatever the mode.
FinishAlways ==
    /\ place = "touch"
    /\ stamp' = TRUE
    /\ place' = "idle" /\ result' = "ok"
    /\ UNCHANGED <<config, dl, tree, mode, at, asked, cut, cleans>>

Finish ==
    /\ place = "touch"
    /\ stamp' = (stamp \/ mode = "DOWNLOAD")
    /\ place' = "idle" /\ result' = "ok"
    /\ UNCHANGED <<config, dl, tree, mode, at, asked, cut, cleans>>

\* `make source', _source-check and external-deps.  What has a stamp is made,
\* except for the -B of external-deps.
Make(m) ==
    /\ place = "idle"
    /\ mode' = m /\ at' = 1 /\ asked' = {}
    /\ LET made == stamp /\ m # "SHOW_EXTERNAL_DEPS"
       IN /\ place' = (IF made THEN "idle" ELSE "primary")
          /\ result' = (IF made THEN "ok" ELSE "none")
    /\ UNCHANGED <<config, disk, cut, cleans>>

\* make and the helper are interrupted; what wget has written stays then.
Interrupt ==
    /\ place # "idle" /\ ~ cut
    /\ \/ UNCHANGED <<dl, tree>>
       \/ /\ place # "touch" /\ Used /\ mode = "DOWNLOAD" /\ dl[Stored] = "absent"
          /\ \E o \in {x \in Outcomes : x.status = "failed"} :
                /\ tree' = o.tree
                /\ dl' = [dl EXCEPT ![Stored] = IF Tool = "http" THEN "part" ELSE o.file]
    /\ cut' = TRUE
    /\ place' = "idle" /\ result' = "failed"
    /\ UNCHANGED <<config, stamp, mode, at, asked, cleans>>

\* <pkg>-dirclean: the build directory, where git has its clone.
Dirclean ==
    /\ place = "idle"
    /\ stamp' = FALSE
    /\ tree' = (IF method \in {"svn", "hg"} THEN tree ELSE "none")
    /\ UNCHANGED <<config, dl, mode, at, place, result, asked, cut, cleans>>

\* distclean, with DL_DIR where it is by default.
Distclean ==
    /\ place = "idle" /\ cleans < MaxCleans
    /\ dl' = NoFiles /\ tree' = "none" /\ stamp' = FALSE
    /\ cleans' = cleans + 1
    /\ UNCHANGED <<config, mode, at, place, result, asked, cut>>
-----------------------------------------------------------------------------
Init ==
    /\ method \in Methods /\ primary \in Primaries /\ backup \in BOOLEAN
    /\ dl = NoFiles /\ tree = "none" /\ stamp = FALSE
    /\ mode = "DOWNLOAD" /\ at = 1 /\ place = "idle" /\ result = "none" /\ asked = {}
    /\ cut = FALSE /\ cleans = 0

Next ==
    \/ \E m \in {"DOWNLOAD", "SOURCE_CHECK", "SHOW_EXTERNAL_DEPS"} : Make(m)
    \/ Source \/ Finish \/ Interrupt \/ Dirclean \/ Distclean

\* A site that is asked again and again answers in the end.
Answered == place = "site" /\ Source /\ dl[Stored] # "whole" /\ dl'[Stored] = "whole"

\* make runs to its end, and the user runs it again.
Fairness ==
    /\ WF_vars(Source \/ Finish) /\ SF_vars(Answered) /\ SF_vars(Make("DOWNLOAD"))

Spec == Init /\ [][Next]_vars /\ Fairness
-----------------------------------------------------------------------------
TypeOK ==
    /\ method \in Methods /\ primary \in Primaries /\ backup \in BOOLEAN
    /\ dl \in [File -> Content] /\ tree \in {"none", "clone"} /\ stamp \in BOOLEAN
    /\ mode \in {"DOWNLOAD", "SOURCE_CHECK", "SHOW_EXTERNAL_DEPS"}
    /\ at \in File /\ place \in DOMAIN Behind \cup {"touch", "idle"}
    /\ result \in {"none", "ok", "failed"} /\ asked \subseteq File
    /\ cut \in BOOLEAN /\ cleans \in 0 .. MaxCleans

\* Nothing but wget, from places that have the file, and no interruption.
Plain == method = "http" /\ primary # "http" /\ ~ cut

\* A package that counts as downloaded has its archive, and if its method
\* fetches single files all of them; fetched by wget they are whole, whatever
\* failed on the way and however often make was run again.
StampsTrue ==
    stamp =>
        /\ dl[1] # "absent"
        /\ method \in PerFile => \A f \in File : dl[f] # "absent"
        /\ Plain => \A f \in File : dl[f] = "whole"

\* No source, no failure and no interruption destroys an archive that was
\* fetched, though a make that goes on after a failure has its turn again.
KeptFiles == [][Distclean \/ \A f \in File : dl[f] = "whole" => dl'[f] = "whole"]_vars

\* Whatever failed before, running make again is enough for the download to
\* succeed in the end.  Only svn and hg may be stuck for good: a working copy
\* that a failure leaves in DL_DIR is in their way until distclean.
Obtained == []<>stamp \/ (method \in {"svn", "hg"} /\ <>[](tree = "clone" /\ ~ stamp))

\* `Will try to download source from: 1) BR2_PRIMARY_SITE 2) Download site
\* 3) BR2_BACKUP_SITE': when the turn of the backup site comes the file is not
\* there, so that it is tried.
InTurn == place = "backup" /\ backup /\ mode = "DOWNLOAD" => dl[at] = "absent"

\* `check all packages for valid download URLs': a source-check that succeeds
\* has asked for every file.
ChecksAll == place = "idle" /\ mode = "SOURCE_CHECK" /\ result = "ok" => asked = File
=============================================================================
