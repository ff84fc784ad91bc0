--------------------------- MODULE DownloadProofs ---------------------------
(* A package that counts as downloaded has been: for every number of files,  *)
(* every configuration of methods and mirrors, and every sequence of makes.  *)
EXTENDS Download, TLAPS

USE DownloadAssumption DEF DownloadAssumption, File, PerFile

\* What DOWNLOAD has dealt with is there.
Progress ==
    place # "idle" /\ mode = "DOWNLOAD" =>
        \A f \in File :
            (f < at \/ place = "touch") /\ (f = 1 \/ method \in PerFile) => dl[f] # "absent"

\* wget alone leaves nothing that is not whole.
Clean == Plain => \A f \in File : dl[f] \in {"absent", "whole"}

\* The invariant is inductive: a stamp is touched when Progress has reached
\* the last file, and files do not go away but with the stamp.
DownloadInv == TypeOK /\ StampsTrue /\ Progress /\ Clean
-----------------------------------------------------------------------------
LEMMA StoredFile == ASSUME TypeOK PROVE Stored \in File
BY DEF TypeOK, Stored

\* What an outcome is; wget's are clean.
Good(o) ==
    /\ o.file \in Content /\ o.tree \in {"none", "clone"} /\ o.status \in {"ok", "failed"}
    /\ o.status = "ok" => o.file # "absent"

LEMMA Records ==
    ASSUME NEW c \in Content, NEW t \in {"none", "clone"}
    PROVE  /\ c # "absent" => Good(Delivered(c, t))
           /\ Good(Failed(c, t))
           /\ Delivered(c, t).file = c /\ Failed(c, t).file = c
BY DEF Good, Delivered, Failed, Content

LEMMA HelperTypes ==
    ASSUME TypeOK, NEW m, NEW o \in Helper(m)
    PROVE  Good(o) /\ (m = "http" => o.file \in {"absent", "whole"})
<1> tree \in {"none", "clone"} BY DEF TypeOK
<1> {"absent", "part", "page", "whole"} \subseteq Content BY DEF Content
<1>1. CASE m = "http"
  <2>1. o \in {Delivered("whole", tree), Failed("absent", tree)} BY <1>1 DEF Helper, Wget
  <2> QED BY <2>1, Records
<1>2. CASE m = "git"
  <2>1. o \in {Failed("absent", "clone"), Failed("absent", "none"), Failed("part", "clone"),
               Delivered("part", "clone"), Delivered("whole", "clone")}
        BY <1>2 DEF Helper, Git, FromClone
  <2> QED BY <1>2, <2>1, Records
<1>3. CASE m = "sparse"
  <2>1. o \in {Failed("absent", "clone"), Failed("part", "clone"),
               Delivered("part", "clone"), Delivered("whole", "clone")}
        BY <1>3 DEF Helper, FromClone
  <2> QED BY <1>3, <2>1, Records
<1>4. CASE m \in {"svn", "hg"}
  <2>1. o \in {Failed("absent", "none"), Failed("absent", "clone"), Failed("part", "clone"),
               Delivered("whole", "none")}
        BY <1>4 DEF Helper, Export
  <2> QED BY <1>4, <2>1, Records
<1>5. CASE m \notin {"http", "git", "sparse", "svn", "hg"}
  <2>1. o \in {Delivered("whole", tree), Failed("absent", tree), Failed("part", tree)}
        BY <1>5 DEF Helper, Copy
  <2> QED BY <1>5, <2>1, Records
<1> QED BY <1>1, <1>2, <1>3, <1>4, <1>5

LEMMA OutcomeTypes ==
    ASSUME TypeOK, place \in DOMAIN Behind, NEW o \in Outcomes
    PROVE  Good(o) /\ (Plain => o.file \in {"absent", "whole"})
<1> tree \in {"none", "clone"} BY DEF TypeOK
<1> {"absent", "part", "page", "whole"} \subseteq Content BY DEF Content
<1>1. CASE place = "primary"
  <2>1. \/ primary = "http" /\ o \in {Delivered("page", tree), Failed("absent", tree)}
        \/ o = Failed("absent", tree)
        BY <1>1 DEF Outcomes, Tool, Wget
  <2> QED BY <2>1, Records DEF Plain
<1>2. CASE place # "primary"
  <2>1. o \in Helper(Tool) BY <1>2 DEF Outcomes
  <2>2. Plain => Tool = "http" BY <1>2 DEF Tool, Plain
  <2> QED BY <2>1, <2>2, HelperTypes
<1> QED BY <1>1, <1>2

\* So is every outcome of an attempt, and it keeps a file that is there.
LEMMA AttemptTypes ==
    ASSUME TypeOK, Clean, place \in DOMAIN Behind, NEW o \in Attempt
    PROVE  /\ Good(o)
           /\ Plain => o.file \in {"absent", "whole"}
           /\ dl[Stored] # "absent" => o.file = dl[Stored]
<1>1. CASE dl[Stored] = "absent"
      BY <1>1, OutcomeTypes DEF Attempt
<1>2. CASE dl[Stored] # "absent"
  <2>1. o = Delivered(dl[Stored], tree) BY <1>2 DEF Attempt
  <2>2. dl[Stored] \in Content /\ tree \in {"none", "clone"} BY StoredFile DEF TypeOK
  <2>3. Plain => dl[Stored] \in {"absent", "whole"} BY StoredFile DEF Clean
  <2> QED BY <1>2, <2>1, <2>2, <2>3, Records
<1> QED BY <1>1, <1>2

\* Going on keeps at and place what they are declared to be.
LEMMA GoOnTypes ==
    ASSUME TypeOK, place \in DOMAIN Behind, NEW ok \in BOOLEAN, GoOn(ok)
    PROVE  /\ at' \in File /\ place' \in DOMAIN Behind \cup {"touch", "idle"}
           /\ result' \in {"none", "ok", "failed"}
           /\ ok /\ place' # "touch" => at' = at + 1
           /\ ok /\ place' = "touch" => at = Files
           /\ ~ ok => at' = at /\ place' # "touch"
BY DEF TypeOK, GoOn, Behind
-----------------------------------------------------------------------------
\* One source fetches: what was there stays there, and the file is there when
\* the next one is begun.
LEMMA FetchStep ==
    ASSUME DownloadInv, place \in DOMAIN Behind, Fetch,
           UNCHANGED <<config, stamp, mode, cut, cleans>>
    PROVE  DownloadInv'
<1> PICK o \in Attempt :
        dl' = [dl EXCEPT ![Stored] = o.file] /\ tree' = o.tree /\ GoOn(o.status = "ok")
    BY DEF Fetch
<1> USE DEF DownloadInv
<1>1. /\ o.file \in Content /\ o.tree \in {"none", "clone"}
      /\ o.status = "ok" => o.file # "absent"
      /\ Plain => o.file \in {"absent", "whole"}
      /\ dl[Stored] # "absent" => o.file = dl[Stored]
      BY AttemptTypes DEF Good
<1>2. Stored \in File /\ Stored = (IF place = "site" /\ method \notin PerFile THEN 1 ELSE at)
      BY StoredFile DEF Stored
<1>3. /\ dl' \in [File -> Content] /\ dl'[Stored] = o.file
      /\ \A f \in File : f # Stored => dl'[f] = dl[f]
      /\ \A f \in File : dl[f] # "absent" => dl'[f] = dl[f]
      BY <1>1, <1>2 DEF TypeOK
<1>4. /\ at' \in File /\ place' \in DOMAIN Behind \cup {"touch", "idle"}
      /\ result' \in {"none", "ok", "failed"}
      /\ o.status = "ok" /\ place' # "touch" => at' = at + 1
      /\ o.status = "ok" /\ place' = "touch" => at = Files
      /\ o.status # "ok" => at' = at /\ place' # "touch"
      BY <1>1, GoOnTypes
<1>5. TypeOK'
      BY <1>1, <1>3, <1>4 DEF TypeOK, config, Fetch
<1>6. Plain' = Plain /\ method' = method /\ stamp' = stamp
      BY DEF Plain, config
<1>7. StampsTrue'
      BY <1>3, <1>6 DEF StampsTrue, TypeOK
<1>8. Clean'
      BY <1>1, <1>2, <1>3, <1>6 DEF Clean
<1>9. Progress'
  <2> SUFFICES ASSUME NEW f \in File, f < at' \/ place' = "touch", f = 1 \/ method \in PerFile
               PROVE  dl'[f] # "absent"
      BY <1>6 DEF Progress
  <2>1. place # "idle" /\ mode = "DOWNLOAD" BY DEF Behind, Fetch
  <2>2. CASE f < at BY <1>3, <2>1, <2>2 DEF Progress
  <2>3. CASE ~ (f < at)
    <3>1. o.status = "ok" /\ f = at BY <1>1, <1>4, <2>3 DEF TypeOK
    <3>2. f = Stored BY <1>2, <3>1
    <3> QED BY <1>1, <1>3, <3>1, <3>2
  <2> QED BY <2>2, <2>3
<1> QED BY <1>5, <1>7, <1>8, <1>9

\* The steps of a source: only Fetch touches files.
LEMMA SourceStep == ASSUME DownloadInv, Source PROVE DownloadInv'
<1> USE DEF DownloadInv
<1>0. place \in DOMAIN Behind /\ UNCHANGED <<config, stamp, mode, cut, cleans>>
      BY DEF Source
<1>1. CASE Fetch BY <1>0, <1>1, FetchStep
<1>2. ASSUME NEW ok \in BOOLEAN, GoOn(ok), UNCHANGED <<dl, tree>>, asked' \subseteq File,
             mode = "DOWNLOAD" => ~ ok
      PROVE  DownloadInv'
  <2>1. TypeOK' BY <1>0, <1>2, GoOnTypes DEF TypeOK, config
  <2>2. StampsTrue' /\ Clean'
        BY <1>0, <1>2 DEF StampsTrue, Clean, Plain, config
  <2>3. Progress'
        BY <1>0, <1>2, GoOnTypes DEF Progress, Behind, config
  <2> QED BY <2>1, <2>2, <2>3
<1>3. CASE Skip BY <1>2, <1>3 DEF Skip, TypeOK
<1>4. CASE Check BY <1>2, <1>4 DEF Check, TypeOK
<1>5. CASE Show BY <1>2, <1>5 DEF Show, TypeOK
<1> QED BY <1>1, <1>3, <1>4, <1>5 DEF Source
-----------------------------------------------------------------------------
LEMMA InterruptStep == ASSUME DownloadInv, Interrupt PROVE DownloadInv'
<1> USE DEF DownloadInv
<1>1. UNCHANGED <<config, stamp, mode, at, asked, cleans>> /\ cut' = TRUE /\ place' = "idle"
      BY DEF Interrupt
<1>2. /\ dl' \in [File -> Content] /\ tree' \in {"none", "clone"}
      /\ \A f \in File : dl[f] # "absent" => dl'[f] = dl[f]
  <2>1. CASE UNCHANGED <<dl, tree>> BY <2>1 DEF TypeOK
  <2>2. CASE ~ UNCHANGED <<dl, tree>>
    <3>1. /\ place # "touch" /\ dl[Stored] = "absent"
          /\ \E o \in {x \in Outcomes : x.status = "failed"} :
                /\ tree' = o.tree
                /\ dl' = [dl EXCEPT ![Stored] = IF Tool = "http" THEN "part" ELSE o.file]
          BY <2>2 DEF Interrupt
    <3>2. PICK o \in Outcomes :
                /\ tree' = o.tree
                /\ dl' = [dl EXCEPT ![Stored] = IF Tool = "http" THEN "part" ELSE o.file]
          BY <3>1
    <3>3. place \in DOMAIN Behind BY <3>1 DEF TypeOK, Interrupt
    <3>4. o.file \in Content /\ o.tree \in {"none", "clone"} BY <3>3, OutcomeTypes DEF Good
    <3> QED BY <3>1, <3>2, <3>4, StoredFile DEF TypeOK, Content
  <2> QED BY <2>1, <2>2
<1>3. TypeOK' BY <1>1, <1>2 DEF TypeOK, config, Interrupt
<1>4. StampsTrue' BY <1>1, <1>2 DEF StampsTrue, Plain, config, TypeOK
<1>5. Progress' /\ Clean' BY <1>1 DEF Progress, Clean, Plain
<1> QED BY <1>3, <1>4, <1>5

LEMMA NoFilesType == NoFiles \in [File -> Content] /\ \A f \in File : NoFiles[f] = "absent"
BY DEF NoFiles, Content

LEMMA InitInv == ASSUME Init PROVE DownloadInv
<1>1. dl = NoFiles /\ stamp = FALSE /\ place = "idle" BY DEF Init
<1>2. TypeOK
  <2>1. dl \in [File -> Content] BY <1>1, NoFilesType
  <2>2. tree \in {"none", "clone"} /\ stamp \in BOOLEAN BY DEF Init
  <2>3. method \in Methods /\ primary \in Primaries /\ backup \in BOOLEAN BY DEF Init
  <2>4. /\ at \in File /\ place \in DOMAIN Behind \cup {"touch", "idle"}
        /\ mode \in {"DOWNLOAD", "SOURCE_CHECK", "SHOW_EXTERNAL_DEPS"}
        BY DEF Init
  <2>5. result \in {"none", "ok", "failed"} /\ asked \subseteq File /\ cut \in BOOLEAN
        BY DEF Init
  <2>6. cleans \in 0 .. MaxCleans BY DEF Init
  <2> QED BY <2>1, <2>2, <2>3, <2>4, <2>5, <2>6 DEF TypeOK
<1>3. StampsTrue /\ Progress /\ Clean
      BY <1>1, NoFilesType DEF StampsTrue, Progress, Clean
<1> QED BY <1>2, <1>3 DEF DownloadInv

LEMMA NextInv == ASSUME DownloadInv, [Next]_vars PROVE DownloadInv'
<1> USE DEF DownloadInv
<1>1. ASSUME NEW m \in {"DOWNLOAD", "SOURCE_CHECK", "SHOW_EXTERNAL_DEPS"}, Make(m)
      PROVE  DownloadInv'
  <2>1. TypeOK' BY <1>1 DEF Make, TypeOK, config, disk, Behind
  <2>2. StampsTrue' /\ Clean' BY <1>1 DEF Make, StampsTrue, Clean, Plain, config, disk
  <2>3. Progress' BY <1>1 DEF Make, Progress, config, disk, TypeOK
  <2> QED BY <2>1, <2>2, <2>3
<1>2. CASE Source BY <1>2, SourceStep
<1>3. CASE Finish
  <2>1. TypeOK' BY <1>3 DEF Finish, TypeOK, config
  <2>2. Clean' BY <1>3 DEF Finish, Clean, Plain, config
  <2>3. StampsTrue' BY <1>3 DEF Finish, StampsTrue, Progress, Clean, Plain, config, TypeOK
  <2>4. Progress' BY <1>3 DEF Finish, Progress
  <2> QED BY <2>1, <2>2, <2>3, <2>4
<1>4. CASE Interrupt BY <1>4, InterruptStep
<1>5. CASE Dirclean
      BY <1>5 DEF Dirclean, TypeOK, StampsTrue, Progress, Clean, Plain, config
<1>6. CASE Distclean
  <2>1. dl' \in [File -> Content] BY <1>6, NoFilesType DEF Distclean
  <2>2. cleans' \in 0 .. MaxCleans BY <1>6 DEF Distclean, TypeOK
  <2>4. TypeOK'
        BY <1>6, <2>1, <2>2 DEF Distclean, TypeOK, config
  <2>3. StampsTrue' /\ Progress' /\ Clean'
        BY <1>6, NoFilesType DEF Distclean, StampsTrue, Progress, Clean
  <2> QED BY <2>3, <2>4
<1>7. CASE UNCHANGED vars
      BY <1>7 DEF vars, config, disk, TypeOK, StampsTrue, Progress, Clean, Plain
<1> QED BY <1>1, <1>2, <1>3, <1>4, <1>5, <1>6, <1>7 DEF Next

\* Whatever fails, is interrupted or is cleaned away: a stamp means that the
\* archive is there, and for plain downloads that every file is whole.
THEOREM DownloadStampsTrue == Spec => []StampsTrue
<1>1. Init => DownloadInv BY InitInv
<1>2. DownloadInv /\ [Next]_vars => DownloadInv' BY NextInv
<1>3. DownloadInv => StampsTrue BY DEF DownloadInv
<1> QED BY <1>1, <1>2, <1>3, PTL DEF Spec

\* The types of the variables.
THEOREM DownloadTypeOK == Spec => []TypeOK
<1>1. Init => DownloadInv BY InitInv
<1>2. DownloadInv /\ [Next]_vars => DownloadInv' BY NextInv
<1>3. DownloadInv => TypeOK BY DEF DownloadInv
<1> QED BY <1>1, <1>2, <1>3, PTL DEF Spec
-----------------------------------------------------------------------------
\* A file that is there, whatever it holds, stays until distclean.
LEMMA KeepStep ==
    ASSUME DownloadInv, [Next]_vars
    PROVE  Distclean \/ \A f \in File : dl[f] # "absent" => dl'[f] = dl[f]
<1> USE DEF DownloadInv
<1>1. CASE Source
  <2>1. place \in DOMAIN Behind BY <1>1 DEF Source
  <2>2. CASE Fetch
    <3>1. PICK o \in Attempt : dl' = [dl EXCEPT ![Stored] = o.file] BY <2>2 DEF Fetch
    <3>2. dl[Stored] # "absent" => o.file = dl[Stored] BY <2>1, AttemptTypes
    <3> QED BY <3>1, <3>2, StoredFile DEF TypeOK
  <2>3. CASE ~ Fetch BY <1>1, <2>3 DEF Source, Skip, Check, Show
  <2> QED BY <2>2, <2>3
<1>2. CASE Interrupt BY <1>2, StoredFile DEF Interrupt, TypeOK
<1>3. CASE Finish \/ Dirclean BY <1>3 DEF Finish, Dirclean
<1>4. ASSUME NEW m \in {"DOWNLOAD", "SOURCE_CHECK", "SHOW_EXTERNAL_DEPS"}, Make(m)
      PROVE  dl' = dl
      BY <1>4 DEF Make, disk
<1>5. CASE UNCHANGED vars BY <1>5 DEF vars, disk
<1> QED BY <1>1, <1>2, <1>3, <1>4, <1>5 DEF Next

\* No source and no failure destroys an archive that was fetched.
THEOREM DownloadKeeps == Spec => KeptFiles
<1>1. Init => DownloadInv BY InitInv
<1>2. DownloadInv /\ [Next]_vars => DownloadInv' BY NextInv
<1>3. DownloadInv /\ [Next]_vars =>
        [Distclean \/ \A f \in File : dl[f] = "whole" => dl'[f] = "whole"]_vars
      BY KeepStep
<1> QED BY <1>1, <1>2, <1>3, PTL DEF Spec, KeptFiles
=============================================================================
