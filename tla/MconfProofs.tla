---------------------------- MODULE MconfProofs -----------------------------
(* For every menu tree and every way through it: when menuconfig ends        *)
(* without a word, what was on the screen is in the file, and a jump from    *)
(* the search results leads to what its menu lists.                          *)
EXTENDS Mconf, TLAPS

(* Why nothing is lost: a configuration counts as unchanged only while the   *)
(* file that the title names holds it, and menuconfig ends unchanged or it   *)
(* says what it did not save.                                                *)

FilesOK == files = [p \in Paths |-> files[p]] /\ filename \in Paths

Saved == ~ changed /\ ~ missed => files[filename] = Config(cfg)

Ended == ended => exiting = "no" /\ (told \/ ~ changed)

\* No step makes the title name another configuration than the one that is
\* saved without counting it as changed, and none follows the end.
LEMMA StepSaves ==
    ASSUME FilesOK, Saved, Ended, Next PROVE FilesOK' /\ Saved' /\ Ended'
<1>1. ASSUME NEW s, NEW v, SetValue(s, v), Running, UNCHANGED <<fileVars, exitVars>>
      PROVE  FilesOK' /\ Saved' /\ Ended'
  <2>1. changed' \/ (cfg' = cfg /\ changed' = changed /\ (~ missed' => ~ missed))
    BY <1>1 DEF SetValue
  <2>2. Saved'
    BY <1>1, <2>1 DEF Saved, fileVars, Config
  <2> QED
    BY <1>1, <2>2 DEF FilesOK, Ended, Running, fileVars, exitVars
<1>2. ASSUME UNCHANGED <<confVars, fileVars, exitVars>> PROVE FilesOK' /\ Saved' /\ Ended'
  BY <1>2 DEF FilesOK, Saved, Ended, Config, confVars, fileVars, exitVars
<1>3. ASSUME NEW m \in Entries, SetItem(m) PROVE FilesOK' /\ Saved' /\ Ended'
  BY <1>1, <1>3 DEF SetItem, At, In
<1>4. ASSUME NEW m \in Entries, PickValue(m) PROVE FilesOK' /\ Saved' /\ Ended'
  BY <1>1, <1>2, <1>4 DEF PickValue, In
<1>5. ASSUME NEW v \in {0, 1}, EnterString(v) PROVE FilesOK' /\ Saved' /\ Ended'
  BY <1>1, <1>5 DEF EnterString, In
<1>6. ASSUME NEW p \in Paths, Load(p) PROVE FilesOK' /\ Saved' /\ Ended'
  <2>1. FilesOK' /\ Ended'
    BY <1>6 DEF Load, In, Running, FilesOK, Ended, exitVars
  <2>2. Saved'
    BY <1>6 DEF Load, Saved
  <2> QED BY <2>1, <2>2
<1>7. ASSUME NEW p \in Paths, Save(p) PROVE FilesOK' /\ Saved' /\ Ended'
  <2>1. files'[p] = Config(cfg)' /\ FilesOK'
    BY <1>7 DEF Save, FilesOK, Config
  <2>2. Saved' /\ Ended'
    BY <1>7, <2>1 DEF Save, In, Running, Saved, Ended, exitVars
  <2> QED BY <2>1, <2>2
<1>8. ASSUME NEW how \in {"exit", "signal"}, HandleExit(how)
      PROVE  FilesOK' /\ Saved' /\ Ended'
  BY <1>8 DEF HandleExit, FilesOK, Saved, Ended, Config, confVars, fileVars
<1>9. ASSUME AnswerYes PROVE FilesOK' /\ Saved' /\ Ended'
  <2>1. CASE /\ files' = [files EXCEPT ![filename] = Config(cfg)]
             /\ changed' = FALSE /\ missed' = FALSE /\ told' = told
    <3>1. files'[filename'] = Config(cfg)' /\ FilesOK'
      BY <1>9, <2>1 DEF AnswerYes, FilesOK, Config
    <3> QED BY <1>9, <2>1, <3>1 DEF AnswerYes, Saved, Ended
  <2>2. CASE told' = TRUE /\ UNCHANGED <<files, changed, missed>>
    BY <1>9, <2>2 DEF AnswerYes, FilesOK, Saved, Ended, Config
  <2> QED BY <1>9, <2>1, <2>2 DEF AnswerYes
<1>10. ASSUME AnswerNo \/ AnswerEsc PROVE FilesOK' /\ Saved' /\ Ended'
  BY <1>10 DEF AnswerNo, AnswerEsc, FilesOK, Saved, Ended, Config, confVars, fileVars
<1>11. CASE \/ \E m \in Entries : Select(m) \/ Enter(m) \/ Jump(m)
            \/ ToggleShowAll \/ Leave \/ \E op \in {"search", "load", "save"} : Ask(op)
  BY <1>2, <1>11 DEF Select, Enter, Jump, ToggleShowAll, Leave, Ask
<1> QED
  BY <1>3, <1>4, <1>5, <1>6, <1>7, <1>8, <1>9, <1>10, <1>11 DEF Next

\* Whatever the menus, the symbols and the files are: when menuconfig ends
\* without a word, what was on the screen is in the file.
THEOREM NothingIsLost == Spec => []NothingLost
<1>1. Init => FilesOK /\ Saved /\ Ended
  <2> SUFFICES ASSUME Init PROVE FilesOK /\ Saved /\ Ended
    OBVIOUS
  <2>1. FilesOK
    BY MconfAssumption DEF Init, FilesOK
  <2>2. files[DotConfig] \in {Default, Absent}
    BY MconfAssumption DEF Init
  <2>3. Saved
    BY <2>2, MconfAssumption DEF Init, Saved
  <2> QED BY <2>1, <2>3 DEF Init, Ended
<1>2. FilesOK /\ Saved /\ Ended /\ [Next]_vars => FilesOK' /\ Saved' /\ Ended'
  <2>1. ASSUME FilesOK, Saved, Ended, UNCHANGED vars PROVE FilesOK' /\ Saved' /\ Ended'
    BY <2>1 DEF vars, confVars, fileVars, exitVars, FilesOK, Saved, Ended, Config
  <2> QED BY StepSaves, <2>1
<1>3. FilesOK /\ Saved /\ Ended => NothingLost
  BY DEF Saved, Ended, NothingLost
<1> QED
  BY <1>1, <1>2, <1>3, PTL DEF Spec
-----------------------------------------------------------------------------
(* Where a jump leads.  The recursions over the menu tree come first.        *)

\* What can be seen is what its conditions allow: a value is only calculated
\* for a symbol that can be seen.
LEMMA VisibleIsSeen ==
    ASSUME cfg \in Valuation, NEW m \in Entries
    PROVE  Visible[m] = Seen(m, cfg)
<1> DEFINE body(f, n) ==
             IF SymOf(n) = NoSym THEN Open(n, cfg)
             ELSE Dep(SymOf(n), cfg) \/ (val(SymOf(n)) # 0 /\ \E k \in ChildrenOf(n) : f[k])
           seen == [n \in Entries |-> Seen(n, cfg)]
<1>1. Visible = CHOOSE f : f = [n \in Entries |-> body(f, n)]
  BY Zenon DEF Visible
<1>2. ASSUME NEW f, NEW n \in Entries PROVE body(f, n) = Seen(n, cfg)
  <2>1. CASE SymOf(n) = NoSym
    BY <2>1, Zenon DEF Seen
  <2>2. CASE SymOf(n) # NoSym
    <3>1. SymOf(n) \in Sym
      BY <2>2, TreeAssumption
    <3>2. ~ Dep(SymOf(n), cfg) => val(SymOf(n)) = 0
      BY <3>1 DEF val, Config
    <3>3. Dep(SymOf(n), cfg) \in BOOLEAN
      BY <2>2, TreeAssumption DEF Seen
    <3>4. body(f, n) = Dep(SymOf(n), cfg)
      BY <2>2, <3>2, <3>3, Zenon
    <3> QED BY <2>2, <3>4, Zenon DEF Seen
  <2> QED BY <2>1, <2>2, Zenon
<1>3. \A f : [n \in Entries |-> body(f, n)] = seen
  BY <1>2, Zenon
<1> HIDE DEF body
<1>4. Visible = seen
  BY <1>1, <1>3, Zenon
<1> QED BY <1>4

\* What a recursion on sets adds up from below exists: each element adds what
\* is its own (base) and what the ones it goes on with (next) add.
LEMMA Fixpoint ==
    ASSUME NEW E, NEW base \in [E -> SUBSET E], NEW next \in [E -> SUBSET E]
    PROVE  \E f \in [E -> SUBSET E] :
               \A m \in E : f[m] = base[m] \cup UNION {f[k] : k \in next[m]}
<1> DEFINE Closed(g) == \A m \in E : base[m] \subseteq g[m] /\ \A k \in next[m] : g[k] \subseteq g[m]
           f == [m \in E |-> {x \in E : \A g \in [E -> SUBSET E] : Closed(g) => x \in g[m]}]
           h == [m \in E |-> base[m] \cup UNION {f[k] : k \in next[m]}]
<1>1. ASSUME NEW m \in E PROVE base[m] \subseteq f[m] /\ \A k \in next[m] : f[k] \subseteq f[m]
  <2>1. base[m] \subseteq f[m]
    OBVIOUS
  <2>2. ASSUME NEW k \in next[m] PROVE f[k] \subseteq f[m]
    <3>1. k \in E
      OBVIOUS
    <3> QED BY <3>1
  <2> QED BY <2>1, <2>2
<1>2. f \in [E -> SUBSET E]
  OBVIOUS
<1>3. h \in [E -> SUBSET E]
  <2> HIDE DEF f
  <2> QED BY <1>2
<1>4. \A m \in E : h[m] \subseteq f[m]
  <2> HIDE DEF f
  <2> QED BY <1>1
<1>5. Closed(h)
  <2> SUFFICES ASSUME NEW m \in E
               PROVE  base[m] \subseteq h[m] /\ \A k \in next[m] : h[k] \subseteq h[m]
    OBVIOUS
  <2>1. \A k \in next[m] : k \in E /\ f[k] \subseteq h[m]
    <3> HIDE DEF f
    <3> QED OBVIOUS
  <2>2. base[m] \subseteq h[m]
    <3> HIDE DEF f
    <3> QED OBVIOUS
  <2> HIDE DEF f, h
  <2> QED BY <1>4, <2>1, <2>2
<1>6. \A m \in E : f[m] \subseteq h[m]
  <2> HIDE DEF Closed, h
  <2> QED BY <1>3, <1>5
<1>7. \A m \in E : f[m] = base[m] \cup UNION {f[k] : k \in next[m]}
  <2> SUFFICES ASSUME NEW m \in E PROVE f[m] = base[m] \cup UNION {f[k] : k \in next[m]}
    OBVIOUS
  <2>1. f[m] = h[m]
    <3> HIDE DEF f, h
    <3> QED BY <1>4, <1>6
  <2> HIDE DEF f
  <2> QED BY <2>1
<1> HIDE DEF f
<1> QED BY <1>2, <1>7

\* The entries above an entry: its parent and those above that.
LEMMA AboveIs ==
    ASSUME NEW m \in Entries
    PROVE  /\ m = Root => Above[m] = {}
           /\ m # Root => Above[m] = {ParentOf(m)} \cup Above[ParentOf(m)]
           /\ m # Root => ParentOf(m) \in Entries /\ m \in ChildrenOf(ParentOf(m))
<1> DEFINE body(f, n) == IF n = Root THEN {} ELSE {ParentOf(n)} \cup f[ParentOf(n)]
           parent == [n \in Entries |-> IF n = Root THEN {} ELSE {ParentOf(n)}]
<1>1. ASSUME NEW n \in Entries \ {Root}
      PROVE  ParentOf(n) \in Entries /\ n \in ChildrenOf(ParentOf(n))
  BY TreeAssumption, Zenon DEF ParentOf
<1>2. parent \in [Entries -> SUBSET Entries]
  BY <1>1
<1>3. PICK up \in [Entries -> SUBSET Entries] :
         \A n \in Entries : up[n] = parent[n] \cup UNION {up[k] : k \in parent[n]}
  <2> HIDE DEF parent
  <2> QED BY <1>2, Fixpoint
<1>4. ASSUME NEW n \in Entries PROVE up[n] = body(up, n)
  <2>1. up[n] = parent[n] \cup UNION {up[k] : k \in parent[n]}
    BY <1>3
  <2> QED BY <2>1
<1>5. Above = CHOOSE f : f = [n \in Entries |-> body(f, n)]
  BY Zenon DEF Above
<1>6. up = [n \in Entries |-> up[n]]
  OBVIOUS
<1> HIDE DEF body
<1>7. up = [n \in Entries |-> body(up, n)]
  BY <1>4, <1>6, Zenon
<1>8. Above = [n \in Entries |-> body(Above, n)]
  BY <1>5, <1>7, Zenon
<1>9. Above[m] = body(Above, m)
  BY <1>8, Zenon
<1> QED BY <1>1, <1>9 DEF body

LEMMA AboveInTree ==
    ASSUME NEW m \in Entries
    PROVE  Above[m] \subseteq Entries
<1> DEFINE Bad == {n \in Entries : ~ (Above[n] \subseteq Entries)}
<1> SUFFICES ASSUME Bad # {} PROVE FALSE
  OBVIOUS
<1>1. PICK n \in Bad : n = Root \/ ParentOf(n) \notin Bad
  <2>1. Bad \in (SUBSET Entries) \ {{}}
    OBVIOUS
  <2> HIDE DEF Bad
  <2> QED BY <2>1, TreeAssumption, Zenon
<1>2. CASE n = Root
  BY <1>2, AboveIs
<1>3. CASE n # Root
  <2>1. ParentOf(n) \in Entries /\ Above[n] = {ParentOf(n)} \cup Above[ParentOf(n)]
    BY <1>3, AboveIs
  <2> QED BY <1>1, <1>3, <2>1
<1> QED BY <1>2, <1>3

\* build_conf() lists what can be seen in the menu that it is in; of a choice
\* that has a value it lists the choice.
LEMMA ListedBelow ==
    ASSUME cfg \in Valuation, NEW t \in Entries \ {Root}, Seen(t, cfg)
    PROVE  LET p == ParentOf(t)
           IN t \in Listed(p) \/ (IsChoice(p) /\ p \in Listed(p))
<1> DEFINE cur == ParentOf(t)
           hidden(m) == ~ show_all_options /\ ~ Visible[m]
           folded(m) == Kind(m) = "menu" /\ ~ (single_menu_mode /\ m \in expanded)
           made(m) == IsChoice(m) /\ val(SymOf(m)) # 0
           body(g, m) ==
               LET below == UNION {g[k] : k \in ChildrenOf(m)}
               IN IF ~ show_all_options /\ ~ Visible[m] THEN {}
                  ELSE IF SymOf(m) = NoSym
                  THEN IF m = cur THEN below
                       ELSE {m} \cup (IF Kind(m) = "menu" /\ ~ (single_menu_mode /\ m \in expanded)
                                      THEN {} ELSE below)
                  ELSE IF IsChoice(m) /\ val(SymOf(m)) # 0
                  THEN {m} \cup UNION {g[k] : k \in {k \in Chosen(m) : Kids(k) # <<>>}}
                  ELSE {m} \cup (IF m # cur /\ Kind(m) = "menu" THEN {} ELSE below)
           base == [m \in Entries |->
                      IF hidden(m) \/ (SymOf(m) = NoSym /\ m = cur) THEN {} ELSE {m}]
           next == [m \in Entries |->
                      IF hidden(m) THEN {}
                      ELSE IF SymOf(m) = NoSym
                      THEN IF m # cur /\ folded(m) THEN {} ELSE ChildrenOf(m)
                      ELSE IF made(m) THEN {k \in Chosen(m) : Kids(k) # <<>>}
                      ELSE IF m # cur /\ Kind(m) = "menu" THEN {} ELSE ChildrenOf(m)]
<1>1. /\ cur \in Entries /\ t \in ChildrenOf(cur) /\ t # cur
      /\ Visible[t] /\ Visible[cur]
  <2>1. cur \in Entries /\ t \in ChildrenOf(cur)
    BY AboveIs
  <2>2. {t} \in (SUBSET Entries) \ {{}}
    OBVIOUS
  <2>3. t # cur
    BY <2>2, TreeAssumption
  <2>4. Seen(cur, cfg)
    BY TreeAssumption
  <2> QED BY <2>1, <2>3, <2>4, VisibleIsSeen
<1>2. base \in [Entries -> SUBSET Entries]
  OBVIOUS
<1>3. next \in [Entries -> SUBSET Entries]
  <2>1. \A m \in Entries : ChildrenOf(m) \subseteq Entries /\ Chosen(m) \subseteq Entries
    BY TreeAssumption DEF Chosen
  <2> QED BY <2>1
<1>4. PICK list \in [Entries -> SUBSET Entries] :
         \A m \in Entries : list[m] = base[m] \cup UNION {list[k] : k \in next[m]}
  <2> HIDE DEF base, next
  <2> QED BY <1>2, <1>3, Fixpoint
<1>5. ASSUME NEW m \in Entries PROVE list[m] = body(list, m)
  <2>1. list[m] = base[m] \cup UNION {list[k] : k \in next[m]}
    BY <1>4
  <2>2. CASE hidden(m)
    BY <2>1, <2>2
  <2>3. CASE ~ hidden(m) /\ SymOf(m) = NoSym
    BY <2>1, <2>3
  <2>4. CASE ~ hidden(m) /\ SymOf(m) # NoSym
    BY <2>1, <2>4
  <2> QED BY <2>2, <2>3, <2>4
<1> HIDE DEF base, next
<1>6. Listed(cur) = (CHOOSE g : g = [m \in Entries |-> body(g, m)])[cur]
  BY Zenon DEF Listed
<1>7. list = [m \in Entries |-> list[m]]
  OBVIOUS
<1>8. PICK g : g = [m \in Entries |-> body(g, m)] /\ Listed(cur) = g[cur]
  <2> HIDE DEF body
  <2>1. list = [m \in Entries |-> body(list, m)]
    BY <1>5, <1>7, Zenon
  <2> QED BY <1>6, <2>1, Zenon
<1>9. g[cur] = body(g, cur) /\ g[t] = body(g, t)
  <2> HIDE DEF body
  <2> QED BY <1>1, <1>8, Zenon
<1>10. t \in g[t]
  BY <1>1, <1>9
<1>11. t \in g[cur] \/ (IsChoice(cur) /\ cur \in g[cur])
  BY <1>1, <1>9, <1>10
<1> QED BY <1>8, <1>11
-----------------------------------------------------------------------------
(* A jump is the innermost call and leads to what can be seen; nothing that  *)
(* this depends on is changed before the call does something or ends.        *)

Frames == [op : {"conf", "choice", "string", "search", "load", "save"},
           m : Entries, active : Entries]

ValuesOK == /\ cfg \in Valuation
            /\ files \in [Paths -> Valuation \cup {Absent}] /\ filename \in Paths

Still(st) == st \in Seq(Frames) /\ \A i \in 1 .. Len(st) : st[i].active = Root

Leads(f) == f.active # Root => f.op = "conf" /\ f.m = ParentOf(f.active) /\ Seen(f.active, cfg)

Jumps == stack \in Seq(Frames)
         /\ \A i \in 1 .. Len(stack) : Leads(stack[i]) /\ (i # Len(stack) => stack[i].active = Root)

\* What can be saved is a value for every symbol.
LEMMA Calculated == ASSUME NEW c \in Valuation PROVE Config(c) \in Valuation
  BY DEF Config, Valuation

\* The stack after a call has returned, and after one has done something.
LEMMA Returned ==
    ASSUME Jumps, stack # <<>>
    PROVE  Top \in Frames /\ Still(Back) /\ Still(Acted)
<1>1. Len(stack) \in Nat \ {0} /\ Top \in Frames
  BY DEF Jumps, Top
<1>2. Back \in Seq(Frames) /\ Len(Back) = Len(stack) - 1
      /\ \A i \in 1 .. Len(Back) : Back[i] = stack[i]
  <2>1. PICK n \in Nat : n = Len(stack) - 1
    BY <1>1
  <2>2. stack \in Seq(Frames) /\ n <= Len(stack)
    BY <1>1, <2>1 DEF Jumps
  <2>3. SubSeq(stack, 1, n) \in Seq(Frames) /\ Len(SubSeq(stack, 1, n)) = n
    BY <2>2
  <2>4. \A i \in 1 .. n : SubSeq(stack, 1, n)[i] = stack[i]
    BY <2>2
  <2>5. Back = SubSeq(stack, 1, n)
    BY <2>1, Zenon DEF Back
  <2> QED BY <2>1, <2>3, <2>4, <2>5, Zenon
<1>3. Still(Back)
  <2>1. ASSUME NEW i \in 1 .. Len(Back) PROVE Back[i].active = Root
    <3>1. i \in 1 .. Len(stack) /\ i # Len(stack) /\ Back[i] = stack[i]
      BY <1>1, <1>2
    <3> QED BY <3>1 DEF Jumps
  <2> QED BY <1>2, <2>1 DEF Still
<1>4. PICK f : f = [Top EXCEPT !.active = Root]
  OBVIOUS
<1>5. f \in Frames /\ f.active = Root
  BY <1>1, <1>4, TreeAssumption DEF Frames
<1>6. Still(Append(Back, f))
  <2>1. PICK b \in Seq(Frames) : b = Back /\ \A i \in 1 .. Len(b) : b[i].active = Root
    BY <1>2, <1>3 DEF Still
  <2>2. Still(Append(b, f))
    BY <1>5, <2>1 DEF Still
  <2> QED BY <2>1, <2>2, Zenon
<1>7. Acted = Append(Back, f)
  BY <1>4, Zenon DEF Acted
<1> QED BY <1>1, <1>3, <1>6, <1>7

LEMMA Called ==
    ASSUME NEW st, Still(st), NEW f \in Frames, f.active = Root, Call(st, f)
    PROVE  Still(stack')
  BY DEF Still, Call

\* A stack without jumps may stand beside any values.
LEMMA StillJumps == ASSUME Still(stack') PROVE Jumps'
  BY DEF Still, Jumps, Leads

LEMMA SameJumps == ASSUME Jumps, UNCHANGED <<cfg, stack>> PROVE Jumps'
  BY DEF Jumps, Leads, Seen

LEMMA JumpsStep ==
    ASSUME ValuesOK, Jumps, Next PROVE ValuesOK' /\ Jumps'
<1> USE DEF Running, In
<1>1. ASSUME NEW s, NEW v \in {0, 1}, SetValue(s, v), UNCHANGED fileVars PROVE ValuesOK'
  <2>1. cfg' \in Valuation
    BY <1>1 DEF SetValue, ValuesOK, Valuation
  <2> QED BY <1>1, <2>1 DEF ValuesOK, fileVars
<1>2. ASSUME UNCHANGED <<confVars, fileVars>> PROVE ValuesOK'
  BY <1>2 DEF ValuesOK, confVars, fileVars
<1>3. ASSUME NEW op \in {"conf", "choice", "string", "search", "load", "save"}, NEW m \in Entries
      PROVE  Frame(op, m, Root) \in Frames /\ Frame(op, m, Root).active = Root
  BY TreeAssumption DEF Frame, Frames
<1>4. ASSUME NEW m \in Entries, Select(m) \/ Enter(m) PROVE ValuesOK' /\ Jumps'
  <2>1. stack # <<>> /\ UNCHANGED <<confVars, fileVars>>
    BY <1>4 DEF Select, Enter, At
  <2>2. stack' = Acted \/ \E op \in {"conf", "choice", "string"} : Call(Acted, Frame(op, m, Root))
    BY <1>4 DEF Select, Enter
  <2>3. Still(stack')
    BY <1>3, <2>1, <2>2, Returned, Called
  <2> QED BY <1>2, <2>1, <2>3, StillJumps
<1>5. ASSUME NEW m \in Entries, SetItem(m) PROVE ValuesOK' /\ Jumps'
  <2>1. stack # <<>> /\ stack' = Acted /\ ValuesOK'
    BY <1>1, <1>5 DEF SetItem, At
  <2> QED BY <2>1, Returned, StillJumps
<1>6. ASSUME NEW m \in Entries, PickValue(m) PROVE ValuesOK' /\ Jumps'
  <2>1. stack # <<>> /\ stack' = Back /\ ValuesOK'
    BY <1>1, <1>2, <1>6 DEF PickValue
  <2> QED BY <2>1, Returned, StillJumps
<1>7. ASSUME NEW v \in {0, 1}, EnterString(v) PROVE ValuesOK' /\ Jumps'
  <2>1. stack # <<>> /\ stack' = Back /\ ValuesOK'
    BY <1>1, <1>7 DEF EnterString
  <2> QED BY <2>1, Returned, StillJumps
<1>8. ASSUME ToggleShowAll \/ Leave PROVE ValuesOK' /\ Jumps'
  <2>1. stack # <<>> /\ (stack' = Acted \/ stack' = Back) /\ ValuesOK'
    BY <1>2, <1>8 DEF ToggleShowAll, Leave
  <2> QED BY <2>1, Returned, StillJumps
<1>9. ASSUME NEW op \in {"search", "load", "save"}, Ask(op) PROVE ValuesOK' /\ Jumps'
  <2>1. stack # <<>> /\ Call(Acted, Frame(op, Root, Root)) /\ ValuesOK'
    BY <1>2, <1>9 DEF Ask
  <2>2. Still(stack')
    BY <1>3, <2>1, Returned, Called, TreeAssumption
  <2> QED BY <2>1, <2>2, StillJumps
<1>10. ASSUME NEW m \in Entries, Jump(m) PROVE ValuesOK' /\ Jumps'
  <2>1. PICK t \in Target(m) : Call(stack, Frame("conf", ParentOf(t), t))
    BY <1>10 DEF Jump
  <2>2. stack # <<>> /\ Top.op = "search" /\ UNCHANGED <<confVars, fileVars>>
    BY <1>10 DEF Jump
  <2>3. t \in Entries \ {Root} /\ Visible[t]
    BY <2>1, AboveIs, AboveInTree DEF Target
  <2>4. ParentOf(t) \in Entries /\ Seen(t, cfg)
    BY <2>3, AboveIs, VisibleIsSeen DEF ValuesOK
  <2>5. PICK f \in Frames : f = Frame("conf", ParentOf(t), t)
    BY <2>3, <2>4 DEF Frame, Frames
  <2>6. stack' = Append(stack, f) /\ cfg' = cfg
    BY <2>1, <2>2, <2>5 DEF Call, confVars
  <2>7. f.op = "conf" /\ f.m = ParentOf(f.active) /\ Seen(f.active, cfg)
    BY <2>4, <2>5 DEF Frame
  <2>8. \A i \in 1 .. Len(stack) : stack[i].active = Root
    BY <2>2 DEF Jumps, Leads, Top
  <2>9. stack' \in Seq(Frames) /\ Len(stack') = Len(stack) + 1
        /\ stack'[Len(stack) + 1] = f
        /\ \A i \in 1 .. Len(stack) : stack'[i] = stack[i]
    BY <2>6 DEF Jumps
  <2>10. \A i \in 1 .. Len(stack') :
             /\ i # Len(stack') => stack'[i].active = Root
             /\ stack'[i].active # Root => stack'[i] = f
    BY <2>8, <2>9 DEF Jumps
  <2>11. Jumps'
    BY <2>6, <2>7, <2>9, <2>10 DEF Jumps, Leads, Seen
  <2> QED BY <1>2, <2>2, <2>11
<1>11. ASSUME NEW p \in Paths, Load(p) PROVE ValuesOK' /\ Jumps'
  <2>1. CASE files[p] = Absent
    <3>1. UNCHANGED <<cfg, files, filename, stack>>
      BY <1>11, <2>1 DEF Load
    <3> QED BY <3>1, SameJumps DEF ValuesOK
  <2>2. CASE files[p] # Absent
    <3>1. stack # <<>> /\ stack' = Back /\ cfg' = files[p] /\ files' = files /\ filename' = p
      BY <1>11, <2>2 DEF Load
    <3>2. ValuesOK'
      BY <2>2, <3>1 DEF ValuesOK
    <3> QED BY <3>1, <3>2, Returned, StillJumps
  <2> QED BY <2>1, <2>2
<1>12. ASSUME NEW p \in Paths, Save(p) PROVE ValuesOK' /\ Jumps'
  <2>1. stack # <<>> /\ stack' = Back /\ cfg' = cfg /\ filename' = p
        /\ files' = [files EXCEPT ![p] = Config(cfg)]
    BY <1>12 DEF Save
  <2>2. ValuesOK'
    BY <2>1, Calculated DEF ValuesOK
  <2> QED BY <2>1, <2>2, Returned, StillJumps
<1>13. ASSUME NEW how \in {"exit", "signal"}, HandleExit(how) PROVE ValuesOK' /\ Jumps'
  <2>1. UNCHANGED <<confVars, fileVars, stack>>
    BY <1>13 DEF HandleExit
  <2> QED BY <1>2, <2>1, SameJumps DEF confVars
<1>14. ASSUME AnswerYes PROVE ValuesOK' /\ Jumps'
  <2>1. cfg' = cfg /\ filename' = filename /\ stack' = stack
        /\ (files' = files \/ files' = [files EXCEPT ![filename] = Config(cfg)])
    BY <1>14 DEF AnswerYes
  <2>2. ValuesOK'
    BY <2>1, Calculated DEF ValuesOK
  <2> QED BY <2>1, <2>2, SameJumps
<1>15. ASSUME AnswerNo \/ AnswerEsc PROVE ValuesOK' /\ Jumps'
  <2>1. UNCHANGED <<confVars, fileVars>> /\ (stack' = stack \/ stack' = <<Frame("conf", Root, Root)>>)
    BY <1>15 DEF AnswerNo, AnswerEsc
  <2>2. CASE stack' = stack
    BY <1>2, <2>1, <2>2, SameJumps DEF confVars
  <2>3. CASE stack' = <<Frame("conf", Root, Root)>>
    <3>1. PICK f \in Frames : f = Frame("conf", Root, Root) /\ f.active = Root
      BY <1>3, TreeAssumption
    <3>2. Still(stack')
      BY <2>3, <3>1 DEF Still
    <3> QED BY <1>2, <2>1, <3>2, StillJumps
  <2> QED BY <2>1, <2>2, <2>3
<1> QED
  BY <1>4, <1>5, <1>6, <1>7, <1>8, <1>9, <1>10, <1>11, <1>12, <1>13, <1>14, <1>15 DEF Next

\* For every tree of menus in which an entry can only be seen inside what can
\* be seen, and every way through it: the menu that a jump from the search
\* results opens lists what was found, or the choice around it.
THEOREM JumpsAreShown == Spec => []JumpShown
<1>1. Init => ValuesOK /\ Jumps
  <2> SUFFICES ASSUME Init PROVE ValuesOK /\ Jumps
    OBVIOUS
  <2>0. cfg \in Valuation /\ files \in [Paths -> {Default, Absent}] /\ filename \in Paths
    BY TreeAssumption, MconfAssumption DEF Init
  <2>1. ValuesOK
    <3>1. files \in [Paths -> Valuation \cup {Absent}]
      BY <2>0, TreeAssumption
    <3> QED BY <2>0, <3>1 DEF ValuesOK
  <2>2. PICK f \in Frames : f = Frame("conf", Root, Root) /\ f.active = Root
    <3>1. Frame("conf", Root, Root) \in Frames /\ Frame("conf", Root, Root).active = Root
      BY TreeAssumption DEF Frame, Frames
    <3> QED BY <3>1, Zenon
  <2>3. stack = <<f>>
    BY <2>2 DEF Init
  <2>4. Jumps
    <3>1. stack \in Seq(Frames) /\ Len(stack) = 1 /\ stack[1] = f
      BY <2>2, <2>3
    <3> QED BY <2>2, <3>1 DEF Jumps, Leads
  <2> QED BY <2>1, <2>4
<1>2. ValuesOK /\ Jumps /\ [Next]_vars => ValuesOK' /\ Jumps'
  <2>1. ASSUME ValuesOK, Jumps, UNCHANGED vars PROVE ValuesOK' /\ Jumps'
    BY <2>1, SameJumps DEF vars, confVars, fileVars, ValuesOK
  <2> QED BY JumpsStep, <2>1
<1>3. ValuesOK /\ Jumps => JumpShown
  <2> SUFFICES ASSUME ValuesOK, Jumps, In("conf"), Top.active # Root
               PROVE  Top.active \in Listed(Top.m) \/ (IsChoice(Top.m) /\ Top.m \in Listed(Top.m))
    BY DEF JumpShown
  <2>1. stack # <<>> /\ Top \in Frames /\ Leads(Top)
    BY DEF In, Jumps, Top
  <2>2. PICK t \in Entries \ {Root} : t = Top.active
    BY <2>1 DEF Frames
  <2>3. Top.m = ParentOf(t) /\ Seen(t, cfg)
    BY <2>1, <2>2 DEF Leads
  <2>4. cfg \in Valuation
    BY DEF ValuesOK
  <2> QED BY <2>2, <2>3, <2>4, ListedBelow, Zenon
<1> QED
  BY <1>1, <1>2, <1>3, PTL DEF Spec
=============================================================================
