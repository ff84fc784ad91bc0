--------------------------- MODULE AutoConfProofs ---------------------------
(* syncconfig, for every set of symbols and however often it is interrupted. *)
EXTENDS AutoConf, TLAPS

\* The five files and the copy of the header, without the sequence.
LEMMA Files ==
    /\ Len(Generated) = 5 /\ DOMAIN Generated = 1 .. 5
    /\ File = {"autoconf.h", "tristate.config", "auto.conf", "auto.cmake", "auto.json",
               "staging/autoconf.h"}
    /\ \A i \in 1 .. 5 : Generated[i] \in File
  <1>1. Len(Generated) = 5 /\ DOMAIN Generated = 1 .. 5
    BY DEF Generated
  <1>2. {Generated[i] : i \in 1 .. 5} =
          {"autoconf.h", "tristate.config", "auto.conf", "auto.cmake", "auto.json"}
    <2>1. 1 .. 5 = {1, 2, 3, 4, 5}
      OBVIOUS
    <2> QED
      BY <2>1 DEF Generated
  <1> QED
    BY <1>1, <1>2 DEF File

\* Where syncconfig stands: .config is what conf has in memory, and the files
\* that have been renamed were generated from it.
Progress ==
    /\ pc \in {"split", "rename"} => config = new
    /\ pc = "rename" => \A i \in 1 .. 5 : i < next => gen[Generated[i]] = new
    /\ pc \in {"write", "split"} => ~ fresh
    /\ pc = "rename" /\ fresh => next > 3

\* What was not built with the value in auto.conf is touched, or had its line in
\* an auto.conf that is gone and has none now.
BuiltOrTouched ==
    \A s \in Sym : \/ built[s] = Old(s) \/ s \in touched
                   \/ s \in forgotten /\ Old(s) = Unset

\* What conf_split_config has passed over is the same in auto.conf.
Compared ==
    \/ pc = "split"
    \/ pc = "rename" /\ next <= 3
    => \A s \in Sym : Old(s) = Line(s, new[s]) \/ s \in touched \/ (pc = "split" /\ s \in todo)

IInv == TypeOK /\ Progress /\ UpToDateMeansSynced /\ BuiltOrTouched /\ Compared

\* A symbol whose .h is not touched has the line it had.
LEMMA NotDiffers ==
    ASSUME TypeOK, NEW s \in Sym, ~ Differs(s)
    PROVE  Old(s) = Line(s, new[s])
  BY ConfigAssumption DEF TypeOK, Differs, Old, Line, Config, Unset

\* A tree that was never configured satisfies the invariant.
LEMMA InitInv == Init => IInv
  <1> SUFFICES ASSUME Init PROVE IInv
    OBVIOUS
  <1>1. TypeOK
    <2>1. gen \in [File -> Config \cup {None}]
      BY DEF Init
    <2>2. new \in Config /\ built \in [Sym -> Val \cup {Unset}]
      BY DEF Init, Config
    <2>3. next \in 1 .. Len(Generated) + 1 /\ crashes \in 0 .. MaxCrashes
      BY Files, ConfigAssumption DEF Init
    <2> QED
      BY <2>1, <2>2, <2>3 DEF Init, TypeOK
  <1>2. Progress /\ UpToDateMeansSynced /\ Compared
    BY DEF Init, Progress, UpToDateMeansSynced, Compared
  <1>3. BuiltOrTouched
    BY Files DEF Init, BuiltOrTouched, Old
  <1> QED
    BY <1>1, <1>2, <1>3 DEF IInv

\* Every step keeps the types; a build reads an auto.conf that exists.
LEMMA TypeStep == TypeOK /\ UpToDateMeansSynced /\ [Next]_vars => TypeOK'
  <1> SUFFICES ASSUME TypeOK, UpToDateMeansSynced, [Next]_vars PROVE TypeOK'
    OBVIOUS
  <1> USE ConfigAssumption, Files DEF TypeOK, Config
  <1>1. CASE \E c \in Config : Save(c)
    BY <1>1 DEF Save, confVars, histVars
  <1>2. CASE Start
    BY <1>2 DEF Start, histVars
  <1>3. CASE Rewrite
    BY <1>3 DEF Rewrite, histVars
  <1>4. CASE \E s \in Sym : Touch(s)
    BY <1>4 DEF Touch
  <1>5. CASE WriteTmp
    BY <1>5 DEF WriteTmp, histVars
  <1>6. CASE Rename
    BY <1>6 DEF Rename, File, histVars
  <1>7. CASE CopyHeader
    BY <1>7 DEF CopyHeader, confVars, histVars, File
  <1>8. CASE Crash
    <2>1. crashes' \in 0 .. MaxCrashes /\ pc' = "idle"
      BY <1>8 DEF Crash
    <2>2. config' \in Config /\ fresh' \in BOOLEAN
      BY <1>8 DEF Crash, Unset
    <2>3. gen' \in [File -> Config \cup {None}] /\ forgotten' \subseteq Sym
      BY <1>8 DEF Crash
    <2> QED
      BY <1>8, <2>1, <2>2, <2>3 DEF Crash, confVars
  <1>9. CASE Build
    <2>1. gen["auto.conf"] \in Config
      BY <1>9 DEF Build, UpToDateMeansSynced
    <2>2. \A s \in Sym : Line(s, gen["auto.conf"][s]) \in Val \cup {Unset}
      BY <2>1 DEF Line
    <2> QED
      BY <1>9, <2>2 DEF Build, confVars
  <1>10. CASE UNCHANGED vars
    BY <1>10 DEF vars, confVars, histVars
  <1> QED
    BY <1>1, <1>2, <1>3, <1>4, <1>5, <1>6, <1>7, <1>8, <1>9, <1>10 DEF Next, Sync

\* Every step keeps what relates the phases of syncconfig to the files.
LEMMA ProgressStep ==
    TypeOK /\ Progress /\ UpToDateMeansSynced /\ [Next]_vars
      => Progress' /\ UpToDateMeansSynced'
  <1> SUFFICES ASSUME TypeOK, Progress, UpToDateMeansSynced, [Next]_vars
               PROVE  Progress' /\ UpToDateMeansSynced'
    OBVIOUS
  <1> USE Files DEF TypeOK, Progress, UpToDateMeansSynced
  <1>1. CASE \E c \in Config : Save(c)
    BY <1>1 DEF Save, confVars, histVars
  <1>2. CASE Start
    BY <1>2 DEF Start, histVars
  <1>3. CASE Rewrite
    BY <1>3 DEF Rewrite, histVars
  <1>4. CASE \E s \in Sym : Touch(s)
    BY <1>4 DEF Touch
  <1>5. CASE WriteTmp
    BY <1>5 DEF WriteTmp, histVars
  <1>6. CASE Rename
    <2>1. \A i, j \in 1 .. 5 : Generated[i] = Generated[j] => i = j
      BY DEF Generated
    <2>2. pc' = "rename" /\ next \in 1 .. 5 /\ next' = next + 1 /\ config' = new /\ new' = new
      BY <1>6 DEF Rename
    <2>3. \A i \in 1 .. 5 : i < next' => gen'[Generated[i]] = new
      BY <1>6, <2>2 DEF Rename
    <2>4. fresh' => next' > 3
      <3>1. Generated[next] = "auto.conf" => next = 3
        BY <2>1, <2>2 DEF Generated
      <3> QED
        BY <1>6, <2>2, <3>1 DEF Rename
    <2> QED
      BY <2>2, <2>3, <2>4
  <1>7. CASE CopyHeader
    <2>1. next > 5 /\ pc' = "idle" /\ fresh' = fresh /\ config' = new
      BY <1>7 DEF CopyHeader
    <2>2. \A i \in 1 .. 5 : gen'[Generated[i]] = new
      BY <1>7, <2>1 DEF CopyHeader, Generated
    <2> QED
      BY <2>1, <2>2 DEF Generated
  <1>8. CASE Crash
    <2>1. pc' = "idle"
      BY <1>8 DEF Crash
    <2>2. CASE fresh'
      <3>1. fresh /\ pc = "rename" /\ next > 3 /\ config' = config /\ config = new
        BY <1>8, <2>2 DEF Crash
      <3>2. \A f \in {"autoconf.h", "tristate.config", "auto.conf"} : gen'[f] = gen[f]
        BY <1>8, <2>2, <3>1 DEF Crash, Removable
      <3>3. \A i \in 1 .. 3 : gen[Generated[i]] = new
        BY <3>1
      <3> QED
        BY <2>1, <3>1, <3>2, <3>3 DEF Generated
    <2> QED
      BY <2>1, <2>2
  <1>9. CASE Build
    BY <1>9 DEF Build, confVars
  <1>10. CASE UNCHANGED vars
    BY <1>10 DEF vars, confVars, histVars
  <1> QED
    BY <1>1, <1>2, <1>3, <1>4, <1>5, <1>6, <1>7, <1>8, <1>9, <1>10 DEF Next, Sync

\* Every step keeps the record of what has to be built again.
LEMMA TouchedStep ==
    IInv /\ [Next]_vars => BuiltOrTouched' /\ Compared'
  <1> SUFFICES ASSUME IInv, [Next]_vars PROVE BuiltOrTouched' /\ Compared'
    OBVIOUS
  <1> USE Files DEF IInv
  <1>1. CASE \E c \in Config : Save(c)
    BY <1>1 DEF Save, confVars, histVars, BuiltOrTouched, Compared, Old
  <1>2. CASE Start
    BY <1>2 DEF Start, histVars, BuiltOrTouched, Compared, Old
  <1>3. CASE Rewrite
    BY <1>3 DEF Rewrite, histVars, BuiltOrTouched, Compared, Old
  <1>4. CASE \E s \in Sym : Touch(s)
    <2> PICK t \in Sym : Touch(t)
      BY <1>4
    <2> USE DEF Touch
    <2>1. BuiltOrTouched'
      BY DEF BuiltOrTouched, Old
    <2>2. ~ Differs(t) => Old(t) = Line(t, new[t])
      BY NotDiffers
    <2> QED
      BY <2>1, <2>2 DEF Compared, Old
  <1>5. CASE WriteTmp
    BY <1>5 DEF WriteTmp, histVars, BuiltOrTouched, Compared, Old
  <1>6. CASE Rename
    <2> USE DEF Rename, histVars
    <2>1. next \in 1 .. 5 /\ pc' = "rename" /\ next' = next + 1
      BY <1>6
    <2>2. CASE next = 3
      <3>1. gen' = [gen EXCEPT !["auto.conf"] = new] /\ new \in Config
        BY <1>6, <2>2 DEF Generated, TypeOK
      <3>2. \A s \in Sym : Old(s)' = Line(s, new[s])
        <4>1. gen'["auto.conf"] = new
          BY <3>1 DEF TypeOK
        <4>2. \A s \in Sym : new # None
          BY <3>1, ConfigAssumption DEF Config, None, Unset
        <4> QED
          BY <4>1, <4>2 DEF Old
      <3>3. \A s \in Sym : Old(s) = Line(s, new[s]) \/ s \in touched
        BY <1>6, <2>2 DEF Compared
      <3>4. BuiltOrTouched'
        BY <1>6, <3>2, <3>3 DEF BuiltOrTouched
      <3> QED
        BY <2>1, <2>2, <3>4 DEF Compared
    <2>3. CASE next # 3
      <3>1. gen'["auto.conf"] = gen["auto.conf"]
        <4>1. Generated[next] # "auto.conf"
          BY <2>1, <2>3 DEF Generated
        <4> QED
          BY <1>6, <4>1 DEF TypeOK
      <3> QED
        BY <1>6, <2>1, <3>1 DEF BuiltOrTouched, Compared, Old
    <2> QED
      BY <2>2, <2>3
  <1>7. CASE CopyHeader
    <2>1. gen'["auto.conf"] = gen["auto.conf"] /\ pc' = "idle"
      BY <1>7 DEF CopyHeader, TypeOK
    <2> QED
      BY <1>7, <2>1 DEF CopyHeader, histVars, BuiltOrTouched, Compared, Old
  <1>8. CASE Crash
    <2>1. pc' = "idle" /\ built' = built /\ touched' = touched
      BY <1>8 DEF Crash
    <2>2. CASE gen'["auto.conf"] = gen["auto.conf"] /\ forgotten' = forgotten
      BY <2>1, <2>2 DEF BuiltOrTouched, Compared, Old
    <2>3. CASE /\ gen'["auto.conf"] = None
               /\ forgotten' = forgotten \cup {s \in Sym : Old(s) # Unset}
      BY <2>1, <2>3 DEF BuiltOrTouched, Compared, Old
    <2>4. \/ gen'["auto.conf"] = gen["auto.conf"] /\ forgotten' = forgotten
          \/ /\ gen'["auto.conf"] = None
             /\ forgotten' = forgotten \cup {s \in Sym : Old(s) # Unset}
      BY <1>8 DEF Crash
    <2> QED
      BY <2>2, <2>3, <2>4
  <1>9. CASE Build
    <2>1. gen["auto.conf"] \in Config
      BY <1>9 DEF Build, UpToDateMeansSynced, TypeOK
    <2>2. \A s \in Sym : Old(s) = Line(s, gen["auto.conf"][s])
      BY <2>1, ConfigAssumption DEF Old, Config, None, Unset
    <2>3. \A s \in Sym : built'[s] = Old(s)' \/ (s \in forgotten' /\ Old(s)' = Unset)
      BY <1>9, <2>2 DEF Build, BuiltOrTouched, Old
    <2> QED
      BY <1>9, <2>3 DEF Build, BuiltOrTouched, Compared
  <1>10. CASE UNCHANGED vars
    BY <1>10 DEF vars, confVars, histVars, BuiltOrTouched, Compared, Old
  <1> QED
    BY <1>1, <1>2, <1>3, <1>4, <1>5, <1>6, <1>7, <1>8, <1>9, <1>10 DEF Next, Sync

\* The inductive invariant holds in every state.
LEMMA Invariance == Spec => []IInv
  <1>1. IInv /\ [Next]_vars => IInv'
    BY TypeStep, ProgressStep, TouchedStep DEF IInv
  <1> QED
    BY InitInv, <1>1, PTL DEF Spec

\* Every variable keeps its type.
THEOREM TypeCorrect == Spec => []TypeOK
  <1>1. IInv => TypeOK
    BY DEF IInv
  <1> QED
    BY Invariance, <1>1, PTL

\* However often conf and make are interrupted, and whatever .config becomes
\* in between, an auto.conf that is not older than .config and the files
\* renamed before it were generated from this .config (conf_write_autoconf,
\* the auto.conf rule of the Makefile).
THEOREM SyncedWhenUpToDate == Spec => []UpToDateMeansSynced
  <1>1. IInv => UpToDateMeansSynced
    BY DEF IInv
  <1> QED
    BY Invariance, <1>1, PTL

\* conf_split_config touches enough: an object that was not built with the
\* present value of a symbol finds the symbol's file touched, unless make
\* removed the auto.conf that had its line, and it has none any more.
THEOREM NothingStale == Spec => []NoStaleObject
  <1>1. IInv => NoStaleObject
    <2> SUFFICES ASSUME IInv, fresh, pc = "idle", NEW s \in Sym
                 PROVE  \/ built[s] = Line(s, config[s]) \/ s \in touched
                        \/ s \in forgotten /\ Line(s, config[s]) = Unset
      BY DEF NoStaleObject
    <2>1. gen["auto.conf"] = config /\ config \in Config
      BY DEF IInv, UpToDateMeansSynced, TypeOK
    <2>2. Old(s) = Line(s, config[s])
      BY <2>1, ConfigAssumption DEF Old, Config, None, Unset
    <2> QED
      BY <2>2 DEF IInv, BuiltOrTouched
  <1> QED
    BY Invariance, <1>1, PTL
=============================================================================
