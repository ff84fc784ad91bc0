--------------------------- MODULE LxdialogProofs ---------------------------
(* The boxes, each of them and one after the other, for lists, texts, fields *)
(* and windows of every size: menus and checklists show what their keys act  *)
(* on and are selectors as long as the terminal keeps its size while a saved *)
(* scroll is used, the field of an input box shows its text, and a text box  *)
(* knows where in its text it is.                                            *)
EXTENDS Lxdialog, WellFoundedInduction, FiniteSetTheorems, SequenceTheorems, TLAPS

-----------------------------------------------------------------------------
(* The menu box (menubox.c)                                                  *)

\* Where the window and the highlight are.
Window ==
    /\ items \in Nat /\ height \in Nat /\ scroll \in Nat /\ choice \in Nat
    /\ s_scroll \in Nat
    /\ selected \in {NoItem} \cup 0 .. (items - 1)
    /\ scroll + MaxChoice <= items
    /\ items # 0 => height # 0 /\ choice < MaxChoice
    /\ items = 0 => scroll = 0 /\ choice = 0
    /\ box \in {"closed", "menu"}
    /\ box = "closed" => items = 0

\* What is drawn there.
Picture == box = "menu" => rows = [r \in Rows |-> Line(scroll + r, r = choice)]
-----------------------------------------------------------------------------
\* A non-empty set of naturals has a least element.
LEMMA LeastNat ==
    ASSUME NEW T, T \subseteq Nat, T # {}
    PROVE  \E x \in T : \A y \in T : x <= y
  <1>1. PICK x \in T : \A y \in T : ~ (<<y, x>> \in OpToRel(<, Nat))
    BY NatLessThanWellFounded, WFMin, Zenon
  <1>2. \A y \in T : <<y, x>> \in OpToRel(<, Nat) <=> y < x
    <2> TAKE y \in T
    <2> QED
      BY DEF OpToRel
  <1>3. \A y \in T : ~ (y < x)
    BY <1>1, <1>2, Zenon
  <1> QED
    BY <1>3

\* Drawing a menu puts the item to begin with into the window, and the window
\* into the list, whatever scroll was saved (menubox.c, from do_resize to the
\* first wrefresh).
LEMMA DrawWindow ==
  ASSUME NEW n \in Nat, NEW h \in Nat \ {0}, NEW sel \in {NoItem} \cup 0 .. (n - 1),
         NEW c0 \in Nat, NEW f0, NEW saved \in Nat,
         c0 < n \/ c0 = 0, Draw(n, h, sel, c0, f0, saved)
  PROVE  /\ items' = n /\ height' = h /\ scroll' \in Nat /\ choice' \in Nat
         /\ scroll' + MaxChoice' <= items'
         /\ items' # 0 => choice' < MaxChoice'
         /\ items' = 0 => scroll' = 0 /\ choice' = 0
<1> DEFINE mc == MinOf(h, n)
           c == IF sel # NoItem THEN sel ELSE c0
           keep == saved <= c /\ c < saved + mc /\ saved + mc <= n
           half == mc \div 2
           s == IF keep THEN saved
                ELSE IF c < mc THEN 0
                ELSE IF c >= n - half THEN n - mc ELSE c - half
<1>1. items' = n /\ height' = h /\ scroll' = s /\ choice' = c - s
  BY Zenon DEF Draw
<1>2. mc \in Nat /\ mc <= n /\ (n # 0 => mc # 0) /\ MaxChoice' = mc
  BY <1>1 DEF MinOf, MaxChoice
<1>3. half \in Nat /\ 2 * half <= mc /\ mc <= 2 * half + 1
  <2> HIDE DEF mc
  <2> QED BY <1>2
<1>4. c \in Nat /\ (n # 0 => c < n) /\ (n = 0 => c = 0)
  BY DEF NoItem
<1> HIDE DEF mc, c, half
<1>5. s \in Nat /\ c - s \in Nat /\ s + mc <= n
  BY <1>2, <1>3, <1>4
<1>6. (n # 0 => c - s < mc) /\ (n = 0 => s = 0 /\ c - s = 0)
  BY <1>2, <1>3, <1>4
<1> QED
  BY <1>1, <1>2, <1>5, <1>6

\* It draws the items that belong there when no scroll is saved or the first
\* item to draw has not been set before.
LEMMA DrawPicture ==
  ASSUME NEW n \in Nat, NEW h \in Nat \ {0}, NEW sel \in {NoItem} \cup 0 .. (n - 1),
         NEW c0 \in Nat, NEW f0, NEW saved \in Nat,
         c0 < n \/ c0 = 0, Draw(n, h, sel, c0, f0, saved),
         saved = 0 \/ f0 = 0
  PROVE  rows' = [r \in Rows' |-> Line(scroll' + r, r = choice')]
<1> DEFINE mc == MinOf(h, n)
           c == IF sel # NoItem THEN sel ELSE c0
           keep == saved <= c /\ c < saved + mc /\ saved + mc <= n
           s == IF keep THEN saved
                ELSE IF c < mc THEN 0
                ELSE IF c >= n - mc \div 2 THEN n - mc ELSE c - mc \div 2
           f == IF keep THEN saved ELSE IF c < mc THEN f0 ELSE s
<1>1. /\ items' = n /\ height' = h /\ scroll' = s /\ choice' = c - s
      /\ rows' = [r \in 0 .. (mc - 1) |-> Line(f + r, r = c - s)]
  BY Zenon DEF Draw
<1>2. c \in Nat /\ mc \in Nat /\ mc <= n
  BY DEF NoItem, MinOf
<1>3. Rows' = 0 .. (mc - 1)
  BY <1>1 DEF Rows, MaxChoice
<1>4. f = s
  <2>1. ~ keep /\ c < mc => saved # 0
    <3> HIDE DEF mc, c
    <3> QED BY <1>2
  <2> HIDE DEF mc, c, keep
  <2> QED BY <2>1
<1> HIDE DEF mc, c, keep, s, f
<1> QED
  BY <1>1, <1>3, <1>4

\* Scrolling by k lines and highlighting line c leaves the window as it would
\* be drawn anew (print_item, do_scroll).
LEMMA GoToPicture ==
  ASSUME items \in Nat, height \in Nat, scroll \in Nat,
         rows = [r \in Rows |-> Line(scroll + r, r = choice)],
         NEW k \in Int, NEW c \in Int, GoTo(k, c)
  PROVE  rows' = [r \in Rows' |-> Line(scroll' + r, r = choice')]
<1>1. Rows' = Rows /\ scroll' = scroll + k /\ choice' = c
  BY DEF GoTo, Rows, MaxChoice
<1>2. Rows \subseteq Int /\ scroll \in Int
  BY DEF Rows, MaxChoice, MinOf
<1> DEFINE plain == [rows EXCEPT ![choice] = Line(scroll + choice, FALSE)]
<1>3. plain = [r \in Rows |-> Line(scroll + r, FALSE)]
  OBVIOUS
<1>4. Scrolled(k) = [r \in Rows |-> Line(scroll + k + r, FALSE)]
  <2>1. Scrolled(k) = [r \in Rows |-> IF r + k \in Rows THEN plain[r + k]
                                      ELSE Line(scroll + k + r, FALSE)]
    BY Zenon DEF Scrolled
  <2>2. ASSUME NEW r \in Rows, r + k \in Rows
        PROVE  plain[r + k] = Line(scroll + k + r, FALSE)
    <3>1. plain[r + k] = Line(scroll + (r + k), FALSE)
      BY <1>3, <2>2
    <3>2. scroll + (r + k) = scroll + k + r
      BY <1>2
    <3> QED BY <3>1, <3>2
  <2> HIDE DEF plain
  <2> QED BY <2>1, <2>2
<1>5. rows' = [Scrolled(k) EXCEPT ![c] = Line(scroll + k + c, TRUE)]
  BY DEF GoTo
<1> QED
  BY <1>1, <1>2, <1>4, <1>5
\* A step inside the list keeps the window in the list.
LEMMA GoToWindow ==
  ASSUME Window, box' = box, UNCHANGED menuVars, NEW k \in Int, NEW c \in Rows,
         GoTo(k, c), scroll + k >= 0, scroll + k + MaxChoice <= items
  PROVE  Window'
<1>1. items' = items /\ height' = height /\ scroll' = scroll + k /\ choice' = c
  BY DEF GoTo
<1>2. MaxChoice' = MaxChoice /\ MaxChoice \in Nat /\ (items # 0 => MaxChoice # 0)
  BY <1>1 DEF MaxChoice, MinOf, Window
<1>3. c \in Nat /\ c < MaxChoice /\ scroll' \in Nat
  BY <1>1, <1>2 DEF Rows, Window
<1>4. items # 0
  BY <1>2, <1>3 DEF Window
<1> QED
  BY <1>1, <1>2, <1>3, <1>4 DEF Window, menuVars

\* The keys that move the highlight do so by scrolling within the list and
\* highlighting a line of the window.
Moves(k, c) ==
    /\ k \in Int /\ c \in Rows /\ scroll + k >= 0 /\ scroll + k + MaxChoice <= items
    /\ GoTo(k, c)

\* Where KEY_UP, KEY_DOWN, KEY_PPAGE, KEY_NPAGE and the letters move it to
\* (dialog_menu, the key loop).
LEMMA UpMoves ==
  ASSUME Window, MenuUp
  PROVE  \E k, c : Moves(k, c) /\ scroll + k + c = MaxOf(Item - 1, 0)
<1>1. items # 0 /\ Item = scroll + choice
  BY DEF MenuUp, MenuKey, Item
<1>2. MaxChoice \in Nat /\ choice < MaxChoice /\ choice \in Nat /\ scroll \in Nat
  BY <1>1 DEF Window, MaxChoice, MinOf
<1>3. CASE choice < 2 /\ scroll > 0
  <2>1. Moves(-1, choice)
    BY <1>1, <1>2, <1>3 DEF MenuUp, Moves, Rows, Window
  <2> QED BY <1>1, <1>2, <1>3, <2>1 DEF MaxOf
<1>4. CASE ~ (choice < 2 /\ scroll > 0)
  <2>1. Moves(0, MaxOf(choice - 1, 0))
    BY <1>1, <1>2, <1>4 DEF MenuUp, Moves, Rows, Window, MaxOf
  <2> QED BY <1>1, <1>2, <1>4, <2>1 DEF MaxOf
<1> QED
  BY <1>3, <1>4

\* KEY_DOWN: one item down, by a line of scrolling or of highlight.
LEMMA DownMoves ==
  ASSUME Window, MenuDown
  PROVE  \E k, c : Moves(k, c) /\ scroll + k + c = MinOf(Item + 1, items - 1)
<1>1. items # 0 /\ Item = scroll + choice
  BY DEF MenuDown, MenuKey, Item
<1>2. /\ MaxChoice \in Nat /\ choice < MaxChoice /\ choice \in Nat /\ scroll \in Nat
      /\ items \in Nat /\ scroll + MaxChoice <= items
  BY <1>1 DEF Window, MaxChoice, MinOf
<1>3. CASE choice > MaxChoice - 3 /\ scroll + MaxChoice < items
  <2>1. Moves(1, choice)
    BY <1>1, <1>2, <1>3 DEF MenuDown, Moves, Rows
  <2> QED BY <1>1, <1>2, <1>3, <2>1 DEF MinOf
<1>4. CASE ~ (choice > MaxChoice - 3 /\ scroll + MaxChoice < items)
  <2>1. Moves(0, MinOf(choice + 1, MaxChoice - 1))
    BY <1>1, <1>2, <1>4 DEF MenuDown, Moves, Rows, MinOf
  <2> QED BY <1>1, <1>2, <1>4, <2>1 DEF MinOf
<1> QED
  BY <1>3, <1>4

\* KEY_PPAGE: a page up, first by scrolling, then by the highlight.
LEMMA PageUpMoves ==
  ASSUME Window, MenuPageUp
  PROVE  \E k, c : Moves(k, c) /\ scroll + k + c = MaxOf(Item - MaxChoice, 0)
<1>1. items # 0 /\ Item = scroll + choice
  BY DEF MenuPageUp, MenuKey, Item
<1>2. /\ MaxChoice \in Nat /\ choice < MaxChoice /\ choice \in Nat /\ scroll \in Nat
      /\ items \in Nat /\ scroll + MaxChoice <= items
  BY <1>1 DEF Window, MaxChoice, MinOf
<1> DEFINE k == MinOf(scroll, MaxChoice)
           c == MaxOf(choice - (MaxChoice - k), 0)
<1>3. k \in Nat /\ k <= scroll /\ k <= MaxChoice /\ (k = scroll \/ k = MaxChoice)
  BY <1>2 DEF MinOf
<1>4. GoTo(- k, c)
  BY DEF MenuPageUp
<1> HIDE DEF k
<1>5. c \in Rows /\ scroll + (- k) + c = MaxOf(scroll + choice - MaxChoice, 0)
  BY <1>2, <1>3 DEF MaxOf, Rows
<1> HIDE DEF c
<1> QED
  BY <1>1, <1>2, <1>3, <1>4, <1>5 DEF Moves

\* KEY_NPAGE: a page down, likewise.
LEMMA PageDownMoves ==
  ASSUME Window, MenuPageDown
  PROVE  \E k, c : Moves(k, c) /\ scroll + k + c = MinOf(Item + MaxChoice, items - 1)
<1>1. items # 0 /\ Item = scroll + choice
  BY DEF MenuPageDown, MenuKey, Item
<1>2. /\ MaxChoice \in Nat /\ choice < MaxChoice /\ choice \in Nat /\ scroll \in Nat
      /\ items \in Nat /\ scroll + MaxChoice <= items
  BY <1>1 DEF Window, MaxChoice, MinOf
<1> DEFINE left == items - MaxChoice - scroll
           k == MinOf(MaxChoice, left)
           c == MinOf(choice + (MaxChoice - k), MaxChoice - 1)
<1>3. k \in Nat /\ k <= left /\ k <= MaxChoice /\ (k = left \/ k = MaxChoice)
  BY <1>2 DEF MinOf
<1>4. GoTo(k, c)
  BY DEF MenuPageDown
<1> HIDE DEF k
<1>5. c \in Rows /\ scroll + k + c = MinOf(scroll + choice + MaxChoice, items - 1)
  BY <1>2, <1>3 DEF MinOf, Rows
<1> HIDE DEF c
<1> QED
  BY <1>1, <1>2, <1>3, <1>4, <1>5 DEF Moves

\* A letter: to a line of the window whose item has it.
LEMMA HotKeyMoves ==
  ASSUME Window, NEW key0 \in HotKeys, MenuHotKey(key0)
  PROVE  \E k, c : Moves(k, c) /\ Letter(scroll + k + c) = key0
<1> DEFINE next == {r \in Hits(key0) : r > choice}
<1>1. items # 0 /\ Hits(key0) # {} /\ Hits(key0) \subseteq Rows
  BY DEF MenuHotKey, MenuKey, Shadowed, Hits
<1>2. ASSUME NEW S, S \subseteq Nat, S # {}
      PROVE  First(S) \in S
  BY <1>2, LeastNat DEF First
<1>3. Rows \subseteq Nat
  BY DEF Window, Rows, MaxChoice, MinOf
<1>4. next # {} => First(next) \in Hits(key0)
  BY <1>1, <1>2, <1>3
<1>5. First(Hits(key0)) \in Hits(key0)
  BY <1>1, <1>2, <1>3
<1>6. PICK r \in Hits(key0) : GoTo(0, r)
  BY <1>4, <1>5 DEF MenuHotKey
<1>7. Moves(0, r)
  BY <1>1, <1>6 DEF Moves, Window, MaxChoice, MinOf
<1>8. Letter(scroll + r) = key0 /\ scroll + r = scroll + 0 + r
  BY <1>1, <1>3 DEF Hits, Window
<1> QED
  BY <1>7, <1>8
-----------------------------------------------------------------------------
\* The three kinds of steps other than a move: what closes the box, what only
\* reads a key, and what draws the box.
Closed == box' = "closed" /\ items' = 0 /\ Forget /\ s_scroll' \in Nat /\ selected' = NoItem

Only(k) == Read("menu", k) /\ UNCHANGED <<listVars, menuVars>>

\* One step of dialog_menu is one of these, or a move.
LEMMA Steps ==
  ASSUME Window, MenuNext
  PROVE  \/ OpenMenu
         \/ \E k, c : Moves(k, c) /\ (MenuUp \/ MenuDown \/ MenuPageUp \/ MenuPageDown
                                       \/ \E key0 \in HotKeys : MenuHotKey(key0))
         \/ Closed
         \/ \E k \in {"esc", "left", "right"} : Only(k)
         \/ MenuResize
<1>1. CASE OpenMenu
  BY <1>1
<1>2. CASE MenuUp
  BY <1>2, UpMoves
<1>3. CASE MenuDown
  BY <1>3, DownMoves
<1>4. CASE MenuPageUp
  BY <1>4, PageUpMoves
<1>5. CASE MenuPageDown
  BY <1>5, PageDownMoves
<1>6. CASE \E key0 \in HotKeys : MenuHotKey(key0)
  BY <1>6, HotKeyMoves
<1>7. CASE MenuCommand
  BY <1>7 DEF MenuCommand, Return, Done, Choose, Closed, Forget, Window
<1>8. CASE MenuEscape
  BY <1>8 DEF MenuEscape, Return, Dismiss, Closed, Forget, Only
<1>9. CASE MenuTurn
  BY <1>9 DEF MenuTurn, Turn, Read, Only
<1>10. CASE MenuResize
  BY <1>10
<1> QED
  BY <1>1, <1>2, <1>3, <1>4, <1>5, <1>6, <1>7, <1>8, <1>9, <1>10 DEF MenuNext, MenuKeys

\* A move is made in the open box.
LEMMA MoveStep ==
  ASSUME Window, NEW k, NEW c, Moves(k, c),
         \E key0 : MenuKey(key0)
  PROVE  /\ Window' /\ box' = box /\ box = "menu" /\ items # 0
         /\ items' = items /\ MaxChoice' = MaxChoice /\ Item' = scroll + k + c
<1>1. box = "menu" /\ box' = box /\ UNCHANGED menuVars /\ items # 0
  BY DEF MenuKey, Read
<1>2. items' = items /\ height' = height /\ scroll' = scroll + k /\ choice' = c
  BY DEF Moves, GoTo
<1>3. Window'
  BY <1>1, GoToWindow DEF Moves
<1> QED
  BY <1>1, <1>2, <1>3 DEF MaxChoice, Item

\* The box opens with a window that lies in its list and shows it.
LEMMA OpenStep ==
  ASSUME Window, OpenMenu
  PROVE  /\ Window' /\ box' = "menu" /\ key' = "none" /\ box = "closed"
         /\ rows' = [r \in Rows' |-> Line(scroll' + r, r = choice')]
<1> USE MenuAssumption
<1>1. PICK n \in Counts, h \in Heights, saved \in {0, s_scroll} :
             \E sel \in {NoItem} \cup 0 .. (n - 1) :
                selected' = sel /\ s_scroll' = saved /\ Draw(n, h, sel, 0, 0, saved)
  BY DEF OpenMenu
<1> PICK sel \in {NoItem} \cup 0 .. (n - 1) :
        selected' = sel /\ s_scroll' = saved /\ Draw(n, h, sel, 0, 0, saved)
  BY <1>1
<1>2. n \in Nat /\ h \in Nat \ {0} /\ saved \in Nat /\ 0 \in Nat
  BY DEF Window
<1>3. box = "closed" /\ box' = "menu" /\ key' = "none"
  BY DEF OpenMenu, OpenBox
<1>4. /\ items' = n /\ height' = h /\ scroll' \in Nat /\ choice' \in Nat
      /\ scroll' + MaxChoice' <= items'
      /\ items' # 0 => choice' < MaxChoice'
      /\ items' = 0 => scroll' = 0 /\ choice' = 0
  BY <1>1, <1>2, DrawWindow
<1>5. rows' = [r \in Rows' |-> Line(scroll' + r, r = choice')]
  BY <1>1, <1>2, DrawPicture
<1> QED
  BY <1>1, <1>2, <1>3, <1>4, <1>5 DEF Window

\* goto do_resize keeps the window in the list, and shows it when no scroll
\* was saved.
LEMMA ResizeStep ==
  ASSUME Window, MenuResize
  PROVE  /\ Window' /\ box = "menu" /\ box' = "menu" /\ key' = "resize" /\ items' = items
         /\ ~ ResizeAfterScroll => rows' = [r \in Rows' |-> Line(scroll' + r, r = choice')]
<1> USE MenuAssumption
<1>1. PICK h \in Heights : Draw(items, h, selected, choice, first_item, s_scroll)
  BY DEF MenuResize
<1>2. /\ box = "menu" /\ box' = "menu" /\ key' = "resize"
      /\ selected' = selected /\ s_scroll' = s_scroll
  BY DEF MenuResize, Read
<1>3. /\ items \in Nat /\ h \in Nat \ {0} /\ s_scroll \in Nat /\ choice \in Nat
      /\ selected \in {NoItem} \cup 0 .. (items - 1)
      /\ choice < items \/ choice = 0
  BY DEF Window, MaxChoice, MinOf
<1>4. /\ items' = items /\ height' = h /\ scroll' \in Nat /\ choice' \in Nat
      /\ scroll' + MaxChoice' <= items'
      /\ items' # 0 => choice' < MaxChoice'
      /\ items' = 0 => scroll' = 0 /\ choice' = 0
  BY <1>1, <1>3, DrawWindow
<1>5. ASSUME ~ ResizeAfterScroll
      PROVE  rows' = [r \in Rows' |-> Line(scroll' + r, r = choice')]
  <2>1. s_scroll = 0
    BY <1>5 DEF MenuResize
  <2> QED BY <1>1, <1>3, <2>1, DrawPicture
<1> QED
  BY <1>2, <1>3, <1>4, <1>5 DEF Window

\* The keys that move are read in the open box.
LEMMA StepMoves ==
  ASSUME NEW k, NEW c,
         Moves(k, c) /\ (MenuUp \/ MenuDown \/ MenuPageUp \/ MenuPageDown
                         \/ \E key0 \in HotKeys : MenuHotKey(key0))
  PROVE  Moves(k, c) /\ \E key0 : MenuKey(key0)
BY DEF MenuUp, MenuDown, MenuPageUp, MenuPageDown, MenuHotKey

\* Every step keeps the window in the list.
LEMMA WindowStep ==
  ASSUME Window, [MenuNext]_MenuboxVars
  PROVE  Window'
<1>1. CASE OpenMenu
  BY <1>1, OpenStep
<1>2. ASSUME NEW k, NEW c,
             Moves(k, c) /\ (MenuUp \/ MenuDown \/ MenuPageUp \/ MenuPageDown
                             \/ \E key0 \in HotKeys : MenuHotKey(key0))
      PROVE  Window'
  BY <1>2, StepMoves, MoveStep
<1>3. CASE Closed
  BY <1>3 DEF Closed, Forget, Window, MaxChoice, MinOf
<1>4. CASE \E k \in {"esc", "left", "right"} : Only(k)
  BY <1>4 DEF Only, Read, listVars, menuVars, Window, MaxChoice
<1>5. CASE MenuResize
  BY <1>5, ResizeStep
<1>6. CASE UNCHANGED MenuboxVars
  BY <1>6 DEF MenuboxVars, dialogVars, listVars, menuVars, Window, MaxChoice
<1> QED
  BY <1>1, <1>2, <1>3, <1>4, <1>5, <1>6, Steps

\* Every step keeps the picture true, unless a box with a saved scroll is
\* resized.
LEMMA PictureStep ==
  ASSUME Window, Picture, [MenuNext]_MenuboxVars, ~ ResizeAfterScroll
  PROVE  Picture'
<1>1. CASE OpenMenu
  BY <1>1, OpenStep DEF Picture
<1>2. ASSUME NEW k, NEW c,
             Moves(k, c) /\ (MenuUp \/ MenuDown \/ MenuPageUp \/ MenuPageDown
                             \/ \E key0 \in HotKeys : MenuHotKey(key0))
      PROVE  Picture'
  <2>1. box = "menu" /\ k \in Int /\ c \in Rows /\ GoTo(k, c)
    BY <1>2, StepMoves, MoveStep DEF Moves
  <2>2. items \in Nat /\ height \in Nat /\ scroll \in Nat /\ c \in Int
    BY <2>1 DEF Window, Rows, MaxChoice, MinOf
  <2> QED BY <2>1, <2>2, GoToPicture DEF Picture
<1>3. CASE Closed
  BY <1>3 DEF Closed, Picture
<1>4. CASE \E k \in {"esc", "left", "right"} : Only(k)
  BY <1>4 DEF Only, Read, listVars, Picture, Rows, MaxChoice
<1>5. CASE MenuResize
  BY <1>5, ResizeStep DEF Picture
<1>6. CASE UNCHANGED MenuboxVars
  BY <1>6 DEF MenuboxVars, dialogVars, listVars, Picture, Rows, MaxChoice
<1> QED
  BY <1>1, <1>2, <1>3, <1>4, <1>5, <1>6, Steps

\* Each of these keys takes the selector where it promises.
LEMMA KeyReaches ==
  ASSUME Window, NEW k, NEW c, Moves(k, c),
         \/ MenuUp /\ scroll + k + c = MaxOf(Item - 1, 0)
         \/ MenuDown /\ scroll + k + c = MinOf(Item + 1, items - 1)
         \/ MenuPageUp /\ scroll + k + c = MaxOf(Item - MaxChoice, 0)
         \/ MenuPageDown /\ scroll + k + c = MinOf(Item + MaxChoice, items - 1)
         \/ \E key0 \in HotKeys : MenuHotKey(key0) /\ Letter(scroll + k + c) = key0
  PROVE  Sel!Press
<1>1. /\ Window' /\ items' = items /\ items # 0 /\ MaxChoice' = MaxChoice
      /\ Item' = scroll + k + c
  BY MoveStep DEF MenuUp, MenuDown, MenuPageUp, MenuPageDown, MenuHotKey
<1>2. Item # -1 /\ Item \in Int /\ MaxChoice \in Int /\ items \in Nat
  BY <1>1 DEF Item, Window, MaxChoice, MinOf
<1>3. SUFFICES key' # "resize" /\ Item' \in Sel!Reached(key')
  BY <1>1 DEF Sel!Press
<1>4. CASE MenuUp /\ scroll + k + c = MaxOf(Item - 1, 0)
  <2>1. key' = "up" /\ "up" \notin HotKeys
    BY <1>4, HotKeyAssumption DEF MenuUp, MenuKey, Read
  <2> QED BY <1>1, <1>2, <1>4, <2>1 DEF Sel!Reached, Sel!AtLeast, MaxOf
<1>5. CASE MenuDown /\ scroll + k + c = MinOf(Item + 1, items - 1)
  <2>1. key' = "down" /\ "down" \notin HotKeys
    BY <1>5, HotKeyAssumption DEF MenuDown, MenuKey, Read
  <2> QED BY <1>1, <1>2, <1>5, <2>1 DEF Sel!Reached, Sel!AtMost, MinOf
<1>6. CASE MenuPageUp /\ scroll + k + c = MaxOf(Item - MaxChoice, 0)
  <2>1. key' = "ppage" /\ "ppage" \notin HotKeys
    BY <1>6, HotKeyAssumption DEF MenuPageUp, MenuKey, Read
  <2> QED BY <1>1, <1>2, <1>6, <2>1 DEF Sel!Reached, Sel!AtLeast, MaxOf
<1>7. CASE MenuPageDown /\ scroll + k + c = MinOf(Item + MaxChoice, items - 1)
  <2>1. key' = "npage" /\ "npage" \notin HotKeys
    BY <1>7, HotKeyAssumption DEF MenuPageDown, MenuKey, Read
  <2> QED BY <1>1, <1>2, <1>7, <2>1 DEF Sel!Reached, Sel!AtMost, MinOf
<1>8. ASSUME NEW key0 \in HotKeys, MenuHotKey(key0), Letter(scroll + k + c) = key0
      PROVE  key' # "resize" /\ Item' \in Sel!Reached(key')
  <2>1. key' = key0 /\ key0 \notin {"up", "down", "ppage", "npage", "resize"}
    BY <1>8, HotKeyAssumption DEF MenuHotKey, MenuKey, Read
  <2>2. scroll + k + c \in Sel!Items
    BY <1>1, <1>2 DEF Moves, Rows, Window, MaxChoice, MinOf, Sel!Items
  <2> QED BY <1>1, <1>2, <1>8, <2>1, <2>2 DEF Sel!Reached
<1> QED
  BY <1>4, <1>5, <1>6, <1>7, <1>8

\* There is a current item when there are any, and a page is no longer than
\* the list.
Current ==
    /\ items \in Nat /\ MaxChoice \in 0 .. items
    /\ Item \in {-1} \cup 0 .. (items - 1)
    /\ Item = -1 <=> items = 0

LEMMA ItemInList == Window => Current
<1> SUFFICES ASSUME Window PROVE Current
  OBVIOUS
<1>1. items \in Nat /\ MaxChoice \in 0 .. items
  BY DEF Window, MaxChoice, MinOf
<1>2. CASE items = 0
  BY <1>1, <1>2 DEF Current, Item, NoItem
<1>3. CASE items # 0
  BY <1>1, <1>3 DEF Current, Item, Window
<1> QED
  BY <1>2, <1>3

\* The same after a step.
LEMMA ItemInListNext == Window' => Current'
BY ItemInList, PTL

\* Every step of a menu box is a step of a selector or leaves it alone.
LEMMA SelectorStep ==
  ASSUME Window, [MenuNext]_MenuboxVars
  PROVE  [Sel!Next]_(Sel!vars)
<1> DEFINE K == IF items = 0 THEN "none" ELSE key
<1>1. Window'
  BY WindowStep
<1>2. CASE OpenMenu
  <2>1. box = "closed" /\ key' = "none" /\ items = 0 /\ K' = "none"
    BY <1>2, OpenStep DEF Window
  <2>2. /\ items' \in Nat /\ MaxChoice' \in 0 .. items'
        /\ Item' \in {-1} \cup 0 .. (items' - 1)
        /\ (Item' = -1 <=> items' = 0)
    BY <1>1, ItemInListNext DEF Current
  <2>3. Sel!Show
    BY <2>1, <2>2 DEF Sel!Show
  <2> QED BY <2>3 DEF Sel!Next
<1>3. CASE Closed
  <2>1. items' = 0 /\ MaxChoice' = 0 /\ Item' = -1
    BY <1>3 DEF Closed, Forget, MaxChoice, MinOf, Item, NoItem
  <2>2. Sel!Close
    BY <2>1 DEF Sel!Close
  <2> QED BY <2>2 DEF Sel!Next
<1>4. CASE \E k \in {"esc", "left", "right"} : Only(k)
  <2>1. /\ items' = items /\ MaxChoice' = MaxChoice /\ Item' = Item
        /\ key' \in {"esc", "left", "right"}
    BY <1>4 DEF Only, Read, listVars, MaxChoice, Item
  <2>2. K' # "resize" /\ Item' \in Sel!Reached(K')
    <3>1. CASE items = 0
      BY <2>1, <3>1 DEF Sel!Reached, Item, NoItem
    <3>2. CASE items # 0
      BY <2>1, <3>2 DEF Sel!Reached, Item, Window
    <3> QED BY <3>1, <3>2
  <2>3. Sel!Press
    BY <2>1, <2>2 DEF Sel!Press
  <2> QED BY <2>3 DEF Sel!Next
<1>5. CASE MenuResize
  <2>1. items' = items /\ key' = "resize"
    BY <1>5, ResizeStep
  <2>2. CASE items = 0
    <3>1. MaxChoice = 0 /\ MaxChoice' = 0 /\ Item = -1 /\ Item' = -1 /\ K = K'
      BY <1>1, <2>1, <2>2 DEF MaxChoice, MinOf, Item, Window, NoItem
    <3> QED BY <2>1, <3>1 DEF Sel!vars
  <2>3. CASE items # 0
    <3>1. /\ items' \in Nat /\ MaxChoice' \in 0 .. items'
          /\ Item' \in {-1} \cup 0 .. (items' - 1)
          /\ (Item' = -1 <=> items' = 0)
      BY <1>1, ItemInListNext DEF Current
    <3>2. Sel!Redraw
      BY <2>1, <2>3, <3>1 DEF Sel!Redraw, Sel!Items
    <3> QED BY <3>2 DEF Sel!Next
  <2> QED BY <2>2, <2>3
<1>6. CASE UNCHANGED MenuboxVars
  BY <1>6 DEF MenuboxVars, dialogVars, listVars, Sel!vars, MaxChoice, Item
<1>7. CASE MenuUp
  <2>1. Sel!Press
    BY <1>7, UpMoves, KeyReaches DEF Moves
  <2> QED BY <2>1 DEF Sel!Next
<1>8. CASE MenuDown
  <2>1. Sel!Press
    BY <1>8, DownMoves, KeyReaches DEF Moves
  <2> QED BY <2>1 DEF Sel!Next
<1>9. CASE MenuPageUp
  <2>1. Sel!Press
    BY <1>9, PageUpMoves, KeyReaches DEF Moves
  <2> QED BY <2>1 DEF Sel!Next
<1>10. CASE MenuPageDown
  <2>1. Sel!Press
    BY <1>10, PageDownMoves, KeyReaches DEF Moves
  <2> QED BY <2>1 DEF Sel!Next
<1>11. CASE \E key0 \in HotKeys : MenuHotKey(key0)
  <2>1. Sel!Press
    BY <1>11, HotKeyMoves, KeyReaches DEF Moves
  <2> QED BY <2>1 DEF Sel!Next
<1> QED
  BY <1>2, <1>3, <1>4, <1>5, <1>6, <1>7, <1>8, <1>9, <1>10, <1>11, Steps

\* Before the first call there is no window and nothing to select.
LEMMA Start ==
  ASSUME MenuInit
  PROVE  Window /\ Picture /\ Sel!Init
BY DEF MenuInit, ListInit, Window, Picture, MaxChoice, MinOf, NoItem, Item, Sel!Init
-----------------------------------------------------------------------------
\* The window stays in the list and the highlight in the window, whatever the
\* keys, the saved scroll and the size of the terminal (dialog_menu).
THEOREM WindowInList == MenuSpec => []Window
<1>1. MenuInit => Window
  BY Start
<1>2. Window /\ [MenuNext]_MenuboxVars => Window'
  BY WindowStep
<1> QED
  BY <1>1, <1>2, PTL DEF MenuSpec

\* A menu box shows what its keys act on, for every number of items and every
\* height, as long as the terminal keeps its size once a scroll was saved.
THEOREM MenuOnScreen ==
  ASSUME ~ ResizeAfterScroll
  PROVE  MenuSpec => []OnScreen
<1>1. MenuInit => Window /\ Picture
  BY Start
<1>2. Window /\ Picture /\ [MenuNext]_MenuboxVars => (Window /\ Picture)'
  BY WindowStep, PictureStep
<1>3. Window /\ Picture => OnScreen
  <2> SUFFICES ASSUME Window, Picture, box = "menu" PROVE OnScreen
    BY DEF OnScreen, Window
  <2>1. Rows = 0 .. (MaxChoice - 1) /\ MaxChoice \in Nat
    BY DEF Rows, MaxChoice, MinOf, Window
  <2>2. items # 0 => choice \in Rows
    BY <2>1 DEF Window
  <2>3. DOMAIN rows = Rows /\ \A r \in Rows : rows[r] = Line(scroll + r, r = choice)
    BY DEF Picture
  <2>4. \A r \in Rows : rows[r].item < items
    <3> TAKE r \in Rows
    <3>1. rows[r].item = scroll + r
      BY <2>3 DEF Line
    <3> QED BY <2>1, <3>1 DEF Window
  <2> QED BY <2>2, <2>3, <2>4 DEF OnScreen, Window
<1> QED
  BY <1>1, <1>2, <1>3, PTL DEF MenuSpec

\* A menu box is a selector: every key moves the current item as it says,
\* however the window scrolls to show it.
THEOREM MenuIsSelector == MenuSpec => Selects
<1>1. MenuInit => Window /\ Sel!Init
  BY Start
<1>2. Window /\ [MenuNext]_MenuboxVars => Window'
  BY WindowStep
<1>3. Window /\ [MenuNext]_MenuboxVars => [Sel!Next]_(Sel!vars)
  BY SelectorStep
<1> QED
  BY <1>1, <1>2, <1>3, PTL DEF MenuSpec, Selects, Sel!Spec
-----------------------------------------------------------------------------
(* The input box (inputbox.c)                                                *)

\* The field is what would be drawn of the text from show_x on.
Field ==
    /\ instr \in Seq(Chars) /\ Len(instr) <= MaxLen
    /\ show_x \in Nat /\ input_x \in Columns
    /\ pos = show_x + input_x /\ pos <= Len(instr)
    /\ field = [x \in Columns |-> Cell(instr, show_x + x + 1)]

\* Drawn from nothing it is.
LEMMA PutField ==
    ASSUME NEW t \in Seq(Chars), Len(t) <= MaxLen, Put(t) PROVE Field'
<1>1. PICK n \in Nat : n = Len(t)
  BY DEF Put
<1> DEFINE first == IF n >= BoxWidth THEN n - BoxWidth + 1 ELSE 0
<1>2. first \in Nat /\ n - first \in Columns
  BY <1>1, InputAssumption DEF Columns
<1>3. /\ instr' = t /\ pos' = n /\ show_x' = first /\ input_x' = n - first
      /\ field' = [x \in Columns |-> Cell(t, first + x + 1)]
  BY <1>1, <1>2 DEF Put
<1> HIDE DEF first
<1>4. n = first + (n - first)
  BY <1>1, <1>2
<1>5. field' = [x \in Columns |-> Cell(instr', show_x' + x + 1)]
  BY <1>3
<1> QED
  BY <1>1, <1>2, <1>3, <1>4, <1>5 DEF Field, Columns

\* And so it is when only the characters that may have changed are printed
\* again: what is behind them was blank.
LEMMA ReprintField ==
    ASSUME Field, NEW t \in Seq(Chars), NEW first \in Nat,
           Reprint(t, first), Len(t) - first >= Len(instr) - show_x - 1
    PROVE  field' = [x \in Columns |-> Cell(t, first + x + 1)]
<1>1. field' = [x \in Columns |->
                   IF first + x <= Len(t) THEN Cell(t, first + x + 1) ELSE field[x]]
  BY DEF Reprint
<1>2. ASSUME NEW x \in Columns, ~ first + x <= Len(t)
      PROVE  field[x] = Cell(t, first + x + 1)
  <2>1. x \in Nat /\ Len(t) \in Nat /\ Len(instr) \in Nat /\ show_x \in Nat
    BY DEF Columns, Field
  <2>2. first + x + 1 \notin DOMAIN t /\ show_x + x + 1 \notin DOMAIN instr
    BY <1>2, <2>1 DEF Field
  <2>3. field[x] = Cell(instr, show_x + x + 1)
    BY DEF Field
  <2> QED BY <2>2, <2>3 DEF Cell
<1> QED
  BY <1>1, <1>2

\* A character more or less is a text one longer or shorter.
LEMMA Edited ==
    ASSUME NEW s \in Seq(Chars), NEW p \in 0 .. Len(s)
    PROVE  /\ \A c \in Chars : /\ InsertAt(s, p + 1, c) \in Seq(Chars)
                              /\ Len(InsertAt(s, p + 1, c)) = Len(s) + 1
           /\ p > 0 => RemoveAt(s, p) \in Seq(Chars) /\ Len(RemoveAt(s, p)) = Len(s) - 1
<1>1. ASSUME NEW m \in Nat \ {0}, NEW n \in Nat, m <= n + 1, n <= Len(s)
      PROVE  \E u \in Seq(Chars) : u = SubSeq(s, m, n) /\ Len(u) = n - m + 1
  <2>1. \A i \in m .. n : s[i] \in Chars
    BY <1>1
  <2>2. SubSeq(s, m, n) \in Seq(Chars) /\ Len(SubSeq(s, m, n)) = IF m <= n THEN n - m + 1 ELSE 0
    BY <1>1, <2>1, SubSeqProperties
  <2>3. (IF m <= n THEN n - m + 1 ELSE 0) = n - m + 1
    BY <1>1
  <2> QED BY <2>2, <2>3, Zenon
<1>2. p \in Nat /\ Len(s) \in Nat /\ p <= Len(s)
  OBVIOUS
<1>3. PICK e \in Nat \ {0} : e = p + 1
  BY <1>2
<1>7. e <= Len(s) + 1 /\ 1 <= p + 1 /\ 1 \in Nat \ {0} /\ Len(s) <= Len(s)
  BY <1>2, <1>3
<1>4. PICK v \in Seq(Chars) : v = SubSeq(s, e, Len(s)) /\ Len(v) = Len(s) - e + 1
  BY <1>1, <1>2, <1>7, Zenon
<1>5. ASSUME NEW c \in Chars
      PROVE  InsertAt(s, p + 1, c) \in Seq(Chars) /\ Len(InsertAt(s, p + 1, c)) = Len(s) + 1
  <2>1. PICK u \in Seq(Chars) : u = SubSeq(s, 1, p) /\ Len(u) = p - 1 + 1
    BY <1>1, <1>2, <1>7, Zenon
  <2>2. e - 1 = p
    BY <1>2, <1>3
  <2>3. InsertAt(s, e, c) = u \o <<c>> \o v
    BY <1>4, <2>1, <2>2, Zenon DEF InsertAt
  <2>4. u \o <<c>> \o v \in Seq(Chars) /\ Len(u \o <<c>> \o v) = Len(u) + 1 + Len(v)
    OBVIOUS
  <2>5. Len(u) = p - 1 + 1 /\ Len(v) = Len(s) - e + 1
    BY <1>4, <2>1, Zenon
  <2>6. Len(u) + 1 + Len(v) = Len(s) + 1
    BY <1>2, <1>3, <2>5
  <2> QED BY <1>3, <2>3, <2>4, <2>6, Zenon
<1>6. ASSUME p > 0
      PROVE  RemoveAt(s, p) \in Seq(Chars) /\ Len(RemoveAt(s, p)) = Len(s) - 1
  <2>1. PICK q \in Nat : q = p - 1 /\ 1 <= q + 1 /\ q <= Len(s)
    BY <1>2, <1>6
  <2>2. PICK u \in Seq(Chars) : u = SubSeq(s, 1, q) /\ Len(u) = q - 1 + 1
    BY <1>1, <1>7, <2>1, Zenon
  <2>3. RemoveAt(s, p) = u \o v
    BY <1>3, <1>4, <2>1, <2>2, Zenon DEF RemoveAt
  <2>4. u \o v \in Seq(Chars) /\ Len(u \o v) = Len(u) + Len(v)
    OBVIOUS
  <2>5. q = p - 1 /\ Len(u) = q - 1 + 1 /\ Len(v) = Len(s) - e + 1
    BY <1>4, <2>1, <2>2, Zenon
  <2>6. Len(u) + Len(v) = Len(s) - 1
    BY <1>2, <1>3, <2>5
  <2> QED BY <2>3, <2>4, <2>6, Zenon
<1> QED BY <1>5, <1>6

\* A key edits the text and moves the cursor, and the field follows both.
LEMMA FieldStep ==
    ASSUME box = "input" => Field, InputKeys, box' = "input" PROVE Field'
<1> USE InputAssumption
<1>1. box = "input"
  BY DEF InputKeys, Type, Backspace, FieldLeft, FieldRight, FieldKey, InputTurn, InputDone,
         InputEscape, InputResize, Read, Return
<1>2. Field
  BY <1>1
<1>3. /\ instr \in Seq(Chars) /\ Len(instr) \in Nat /\ Len(instr) <= MaxLen
      /\ show_x \in Nat /\ input_x \in Columns /\ input_x \in Nat /\ pos \in Nat
      /\ pos = show_x + input_x /\ pos <= Len(instr)
      /\ field = [x \in Columns |-> Cell(instr, show_x + x + 1)]
  BY <1>2 DEF Field, Columns
<1>4. ASSUME NEW c \in Chars, Type(c) PROVE Field'
  <2>1. instr' = InsertAt(instr, pos + 1, c) /\ pos \in 0 .. Len(instr)
    BY <1>3, <1>4 DEF Type
  <2>2. instr' \in Seq(Chars) /\ Len(instr') = Len(instr) + 1
    BY <1>3, <2>1, Edited
  <2>3. /\ pos' = pos + 1 /\ Reprint(instr', show_x') /\ Len(instr) < MaxLen
        /\ \/ input_x = BoxWidth - 1 /\ show_x' = show_x + 1 /\ input_x' = input_x
           \/ input_x # BoxWidth - 1 /\ input_x' = input_x + 1 /\ show_x' = show_x
    BY <1>4 DEF Type, len
  <2>5. /\ show_x' \in Nat /\ input_x' \in Columns /\ pos' = show_x' + input_x'
        /\ show_x' <= show_x + 1
    BY <1>3, <2>3 DEF Columns
  <2>4. field' = [x \in Columns |-> Cell(instr', show_x' + x + 1)]
    BY <1>2, <1>3, <2>2, <2>3, <2>5, ReprintField
  <2>6. Len(instr') <= MaxLen /\ pos' <= Len(instr')
    BY <1>3, <2>2, <2>3
  <2> QED BY <2>2, <2>4, <2>5, <2>6 DEF Field
<1>5. ASSUME Backspace PROVE Field'
  <2>1. instr' = RemoveAt(instr, pos) /\ pos > 0 /\ pos \in 0 .. Len(instr)
    BY <1>3, <1>5 DEF Backspace
  <2>2. instr' \in Seq(Chars) /\ Len(instr') = Len(instr) - 1
    BY <1>3, <2>1, Edited
  <2>3. /\ pos' = pos - 1 /\ Reprint(instr', show_x')
        /\ \/ input_x = 0 /\ show_x' = show_x - 1 /\ input_x' = input_x
           \/ input_x # 0 /\ input_x' = input_x - 1 /\ show_x' = show_x
    BY <1>5 DEF Backspace
  <2>0. pos \in Nat /\ show_x \in Nat /\ input_x \in Nat /\ input_x <= BoxWidth - 1
        /\ pos = show_x + input_x /\ pos > 0
    BY <1>3, <2>1 DEF Columns
  <2>5. /\ show_x' \in Nat /\ input_x' \in Columns /\ pos' = show_x' + input_x'
        /\ show_x' <= show_x
    <3>1. CASE input_x = 0
      <4>1. show_x' = show_x - 1 /\ input_x' = 0 /\ pos' = pos - 1
        BY <2>3, <3>1
      <4> QED BY <2>0, <3>1, <4>1 DEF Columns
    <3>2. CASE input_x # 0
      <4>1. show_x' = show_x /\ input_x' = input_x - 1 /\ pos' = pos - 1
        BY <2>3, <3>2
      <4> QED BY <2>0, <3>2, <4>1 DEF Columns
    <3> QED BY <3>1, <3>2
  <2>7. Len(instr') - show_x' >= Len(instr) - show_x - 1
    <3>1. PICK n \in Nat : n = Len(instr)
      BY <1>3
    <3>2. n - 1 - show_x' >= n - show_x - 1
      BY <1>3, <2>5, <3>1
    <3> QED BY <2>2, <3>1, <3>2
  <2>4. field' = [x \in Columns |-> Cell(instr', show_x' + x + 1)]
    BY <1>2, <2>2, <2>3, <2>5, <2>7, ReprintField
  <2>6. Len(instr') <= MaxLen /\ pos' <= Len(instr')
    BY <1>3, <2>2, <2>3
  <2> QED BY <2>2, <2>4, <2>5, <2>6 DEF Field
<1>6. ASSUME FieldLeft PROVE Field'
  <2>1. CASE input_x > 0
    BY <1>3, <1>6, <2>1 DEF FieldLeft, Field, Columns
  <2>2. CASE ~ input_x > 0
    <3>1. /\ show_x' = show_x - 1 /\ show_x - 1 \in Nat /\ Reprint(instr, show_x - 1)
          /\ instr' = instr /\ input_x' = input_x /\ pos' = pos - 1
      BY <1>3, <1>6, <2>2 DEF FieldLeft
    <3>2. field' = [x \in Columns |-> Cell(instr, (show_x - 1) + x + 1)]
      BY <1>2, <1>3, <3>1, ReprintField
    <3> QED BY <1>3, <3>1, <3>2 DEF Field, Columns
  <2> QED BY <2>1, <2>2
<1>7. ASSUME FieldRight PROVE Field'
  <2>1. CASE input_x < BoxWidth - 1
    BY <1>3, <1>7, <2>1 DEF FieldRight, Field, Columns, len
  <2>2. CASE ~ input_x < BoxWidth - 1
    <3>1. /\ show_x' = show_x + 1 /\ Reprint(instr, show_x + 1) /\ pos < Len(instr)
          /\ instr' = instr /\ input_x' = input_x /\ pos' = pos + 1
      BY <1>3, <1>7, <2>2 DEF FieldRight, len
    <3>2. field' = [x \in Columns |-> Cell(instr, (show_x + 1) + x + 1)]
      BY <1>2, <1>3, <3>1, ReprintField
    <3> QED BY <1>3, <3>1, <3>2 DEF Field, Columns
  <2> QED BY <2>1, <2>2
<1>8. ASSUME InputResize PROVE Field'
  BY <1>3, <1>8, PutField DEF InputResize
<1>9. ASSUME UNCHANGED inputVars PROVE Field'
  BY <1>2, <1>9 DEF inputVars, Field, Columns, Cell
<1>10. ~ InputDone /\ (InputEscape => UNCHANGED inputVars)
  BY DEF InputDone, InputEscape, Return
<1> QED
  BY <1>4, <1>5, <1>6, <1>7, <1>8, <1>9, <1>10 DEF InputKeys, InputTurn

\* A text that is drawn when its box opens, or of which nothing is known when
\* another box is open.
FieldInv == box = "input" => Field

LEMMA FieldInvStep ==
    ASSUME TextsFit, FieldInv, [LxNext]_lxVars PROVE FieldInv'
<1>1. CASE OpenInput
  BY <1>1, InputAssumption, PutField DEF OpenInput, FieldInv, TextsFit
<1>2. CASE InputKeys
  BY <1>2, FieldStep DEF FieldInv
<1>3. ASSUME OpenMenu \/ MenuKeys \/ OpenList \/ ListKeys \/ OpenText \/ TextKeys
             \/ OpenYesno \/ YesnoKeys
      PROVE  box' # "input"
  <2>1. CASE OpenMenu \/ OpenList \/ OpenText \/ OpenYesno
    BY <2>1 DEF OpenMenu, OpenList, OpenText, OpenYesno, OpenBox
  <2>2. CASE MenuKeys
    BY <2>2 DEF MenuKeys, MenuUp, MenuDown, MenuPageUp, MenuPageDown, MenuHotKey, MenuCommand,
                MenuEscape, MenuTurn, MenuResize, MenuKey, Turn, Read, Return
  <2>3. CASE ListKeys
    BY <2>3 DEF ListKeys, ListUp, ListDown, ListHotKey, ListCommand, ListEscape, ListTurn,
                ListResize, ListKey, Turn, Read, Return
  <2>4. CASE TextKeys
    BY <2>4 DEF TextKeys, TextHome, TextEnd, TextUp, TextPageUp, TextDown, TextPageDown,
                TextSideways, TextResize, TextDone, TextKey, Read, Return
  <2>5. CASE YesnoKeys
    BY <2>5 DEF YesnoKeys, Turn, Escape, Read, Return
  <2> QED BY <1>3, <2>1, <2>2, <2>3, <2>4, <2>5
<1>4. CASE Drop
  BY <1>4 DEF Drop, FieldInv, dialogVars
<1>5. CASE UNCHANGED lxVars
  BY <1>5 DEF lxVars, dialogVars, inputVars, FieldInv, Field, Columns, Cell
<1> QED
  BY <1>1, <1>2, <1>3, <1>4, <1>5 DEF LxNext, FieldInv

\* Where every text a field begins with fits its buffer (dialog_inputbox
\* copies it unchecked), the field shows the text around the cursor, the
\* cursor is where the next character goes and no typing makes the text
\* longer than the buffer, for a field of any width and however often it is
\* drawn again.
THEOREM FieldIsTrue ==
    ASSUME TextsFit PROVE LxSpec => []FieldTrue
<1>1. LxInit => FieldInv
  BY DEF LxInit, MenuInit, ListInit, FieldInv
<1>2. FieldInv /\ [LxNext]_lxVars => FieldInv'
  BY FieldInvStep
<1>3. FieldInv => FieldTrue
  BY DEF FieldInv, Field, FieldTrue, len
<1> QED
  BY <1>1, <1>2, <1>3, PTL DEF LxSpec
-----------------------------------------------------------------------------
(* The text box (textbox.c)                                                  *)

\* Where a text box that shows a text with a last newline is in its text.
Placed ==
    /\ top \in 0 .. (text.lines - 1) /\ boxh \in Nat \ {0}
    /\ page = MinOf(top + boxh, text.lines - 1)
    /\ begin_reached = (top = 0)
    /\ end_reached = (top + boxh >= text.lines)
    /\ page_length = MinOf(boxh, text.lines - top)
    /\ text.jumps => targets = Targets(top, MinOf(top + boxh, text.lines - 1))

\* A text with a last newline has two lines at least.
LEMMA Lines ==
    ASSUME NEW t \in Text
    PROVE  /\ t.lines \in Nat \ {0} /\ t.ended \in BOOLEAN /\ t.jumps \in BOOLEAN
           /\ t.ended => t.lines - 1 \in Nat \ {0} /\ End(t) = t.lines - 1
           /\ t.jumps => t.ended
<1>1. t.lines \in Nat \ {0} /\ t.ended \in BOOLEAN /\ t.jumps \in BOOLEAN
  BY TextAssumption DEF Text
<1>2. (t.lines = 1 => ~ t.ended) /\ (t.jumps => t.ended)
  BY DEF Text
<1>3. t.ended => End(t) = t.lines - 1
  BY DEF End
<1> QED BY <1>1, <1>2, <1>3

\* What reading lines and going back over them give for such a text.
LEMMA AfterIs ==
    ASSUME NEW t \in Text, t.ended, NEW p \in Nat, NEW n \in Nat
    PROVE  /\ After(t, p, n).page = MinOf(p + n, t.lines - 1)
           /\ After(t, p, n).end = (p + n >= t.lines)
<1>1. End(t) = t.lines - 1
  BY Lines
<1>2. After(t, p, n).page = MinOf(p + n, t.lines - 1)
  BY <1>1 DEF After
<1>3. After(t, p, n).end = (p + n >= t.lines)
  BY DEF After
<1> QED BY <1>2, <1>3, Zenon

LEMMA BackIs ==
    ASSUME NEW t \in Text, t.ended, NEW p \in 0 .. (t.lines - 1), NEW end \in BOOLEAN,
           NEW n \in Nat, NEW k \in Int,
           k = (IF n > 0 /\ p = t.lines - 1 /\ end THEN n - 1 ELSE n)
    PROVE  /\ Back(t, p, end, n).page = MaxOf(p - k, 0)
           /\ Back(t, p, end, n).begin = (k > 0 /\ p - k <= 0)
           /\ Back(t, p, end, n).page \in 0 .. (t.lines - 1)
<1>1. End(t) = t.lines - 1
  BY Lines
<1>2. Back(t, p, end, n) = [page |-> MaxOf(p - k, 0), begin |-> k > 0 /\ p - k <= 0,
                            end |-> end /\ ~ (n > 0 /\ p = t.lines - 1 /\ end)]
  BY <1>1, Zenon DEF Back
<1>3. Back(t, p, end, n).page = MaxOf(p - k, 0)
  BY <1>2
<1>4. Back(t, p, end, n).begin = (k > 0 /\ p - k <= 0)
  BY <1>2
<1>5. MaxOf(p - k, 0) \in 0 .. (t.lines - 1)
  BY Lines DEF MaxOf
<1> QED
  BY <1>3, <1>4, <1>5, Zenon

\* The two ways in which going back counts its lines.
LEMMA BackOver ==
    ASSUME NEW t \in Text, t.ended, NEW p \in 0 .. (t.lines - 1), NEW end \in BOOLEAN,
           NEW n \in Nat, n > 0, p = t.lines - 1, end
    PROVE  /\ Back(t, p, end, n).page = MaxOf(p - (n - 1), 0)
           /\ Back(t, p, end, n).page \in 0 .. (t.lines - 1)
<1>1. PICK k \in Int : k = n - 1
  OBVIOUS
<1>2. k = (IF n > 0 /\ p = t.lines - 1 /\ end THEN n - 1 ELSE n)
  BY <1>1
<1>3. /\ Back(t, p, end, n).page = MaxOf(p - k, 0)
      /\ Back(t, p, end, n).page \in 0 .. (t.lines - 1)
  BY <1>2, BackIs, Zenon
<1> QED BY <1>1, <1>3, Zenon

LEMMA BackShort ==
    ASSUME NEW t \in Text, t.ended, NEW p \in 0 .. (t.lines - 1), NEW end \in BOOLEAN,
           NEW n \in Nat, ~ end
    PROVE  /\ Back(t, p, end, n).page = MaxOf(p - n, 0)
           /\ Back(t, p, end, n).page \in 0 .. (t.lines - 1)
<1>1. PICK k \in Int : k = n
  OBVIOUS
<1>2. k = (IF n > 0 /\ p = t.lines - 1 /\ end THEN n - 1 ELSE n)
  BY <1>1
<1>3. /\ Back(t, p, end, n).page = MaxOf(p - k, 0)
      /\ Back(t, p, end, n).page \in 0 .. (t.lines - 1)
  BY <1>2, BackIs, Zenon
<1> QED BY <1>1, <1>3, Zenon

\* Going back knows whether it has come to the first line, unless it goes
\* back over nothing from there.
LEMMA BackKnows ==
    ASSUME NEW t \in Text, t.ended, NEW p \in 0 .. (t.lines - 1), NEW end \in BOOLEAN,
           NEW n \in Nat, p # 0 \/ n # 0
    PROVE  Back(t, p, end, n).begin = (Back(t, p, end, n).page = 0)
<1>1. PICK k \in Nat : /\ k = (IF n > 0 /\ p = t.lines - 1 /\ end THEN n - 1 ELSE n)
                       /\ p # 0 \/ k # 0
  <2>1. CASE n > 0 /\ p = t.lines - 1 /\ end
    <3>1. n - 1 \in Nat /\ p # 0
      BY <2>1, Lines
    <3> QED BY <2>1, <3>1
  <2>2. CASE ~ (n > 0 /\ p = t.lines - 1 /\ end)
    BY <2>2
  <2> QED BY <2>1, <2>2
<1>2. /\ Back(t, p, end, n).page = MaxOf(p - k, 0)
      /\ Back(t, p, end, n).begin = (k > 0 /\ p - k <= 0)
  BY <1>1, BackIs
<1>3. (k > 0 /\ p - k <= 0) <=> MaxOf(p - k, 0) = 0
  BY <1>1, Lines DEF MaxOf
<1> QED
  BY <1>2, <1>3, Zenon

\* Search results are printed from the line from which their last page is
\* full, or from the line they were left at when that comes first.
LEMMA BackFromAhead ==
    ASSUME NEW t \in Text, t.ended, NEW p \in 0 .. (t.lines - 1), NEW h \in Nat \ {0}
    PROVE  LET ahead == After(t, p, h)
               back == Back(t, ahead.page, ahead.end, h)
           IN /\ back.page \in 0 .. (t.lines - 1)
              /\ back.begin = (back.page = 0)
              /\ ahead.page = MinOf(back.page + h, t.lines - 1)
<1> DEFINE b(q, end) == Back(t, q, end, h)
<1>1. PICK e \in Nat \ {0} : e = t.lines - 1 /\ t.lines = e + 1
  BY Lines
<1>2. PICK q : q = After(t, p, h).page
  OBVIOUS
<1>3. PICK end : end = After(t, p, h).end
  OBVIOUS
<1>4. p \in Nat /\ h \in Nat
  OBVIOUS
<1>5. q = MinOf(p + h, t.lines - 1) /\ end = (p + h >= t.lines)
  BY <1>2, <1>3, <1>4, AfterIs, Zenon
<1>6. q \in 0 .. (t.lines - 1) /\ q # 0
  BY <1>1, <1>4, <1>5 DEF MinOf
<1>7. CASE p + h >= t.lines
  <2>1. end = TRUE
    BY <1>5, <1>7, Zenon
  <2>2. PICK k \in Nat : k = h - 1
    OBVIOUS
  <2>3. q = t.lines - 1
    BY <1>1, <1>4, <1>5, <1>7 DEF MinOf
  <2>4. end \in BOOLEAN /\ end /\ h \in Nat /\ h > 0 /\ q \in 0 .. (t.lines - 1)
    BY <1>4, <1>6, <2>1
  <2>5. b(q, end).page = MaxOf(q - k, 0) /\ b(q, end).page \in 0 .. (t.lines - 1)
    <3>1. b(q, end).page = MaxOf(q - (h - 1), 0) /\ b(q, end).page \in 0 .. (t.lines - 1)
      BY <2>3, <2>4, BackOver, Zenon
    <3> QED BY <2>2, <3>1, Zenon
  <2>6. b(q, end).begin = (b(q, end).page = 0)
    <3>1. end \in BOOLEAN /\ h \in Nat /\ q \in 0 .. (t.lines - 1) /\ q # 0
      BY <1>4, <1>6, <2>1
    <3> QED BY <3>1, BackKnows, Zenon
  <2>7. q = MinOf(MaxOf(q - k, 0) + h, t.lines - 1)
    BY <1>1, <1>4, <2>2, <2>3 DEF MinOf, MaxOf
  <2> QED BY <1>2, <1>3, <2>5, <2>6, <2>7, Zenon
<1>8. CASE ~ p + h >= t.lines
  <2>0. (p + h >= t.lines) = FALSE
    BY <1>8
  <2>1. end = FALSE
    BY <1>5, <2>0, Zenon
  <2>2. ~ end
    BY <2>1, Zenon
  <2>3. q = p + h
    BY <1>1, <1>4, <1>5, <1>8 DEF MinOf
  <2>4. end \in BOOLEAN /\ h \in Nat /\ q \in 0 .. (t.lines - 1) /\ q # 0
    BY <1>4, <1>6, <2>1
  <2>5. b(q, end).page = MaxOf(q - h, 0) /\ b(q, end).page \in 0 .. (t.lines - 1)
    BY <2>2, <2>4, BackShort, Zenon
  <2>6. b(q, end).begin = (b(q, end).page = 0)
    BY <2>4, BackKnows, Zenon
  <2>7. q = MinOf(MaxOf(q - h, 0) + h, t.lines - 1)
    BY <1>1, <1>4, <1>8, <2>3 DEF MinOf, MaxOf
  <2> QED BY <1>2, <1>3, <2>5, <2>6, <2>7, Zenon
<1> QED
  BY <1>7, <1>8

\* A page printed from a line is placed there, and search results that do not
\* fill the window from there on are moved back.
LEMMA ShowPlaces ==
    ASSUME NEW t \in Text, t.ended, text' = t, NEW p \in 0 .. (t.lines - 1),
           NEW begin, begin = (p = 0), NEW h \in Nat \ {0}, Show(t, p, begin, h)
    PROVE  Placed'
<1> DEFINE ahead == After(t, p, h)
           back == Back(t, ahead.page, ahead.end, h)
           till(from) == After(t, from, h)
<1>1. PICK e \in Nat \ {0} : e = t.lines - 1 /\ t.lines = e + 1
  BY Lines
<1>2. /\ back.page \in 0 .. (t.lines - 1) /\ back.begin = (back.page = 0)
      /\ ahead.page = MinOf(back.page + h, t.lines - 1)
  BY BackFromAhead, Zenon
<1>3. PICK from \in 0 .. (t.lines - 1) : from = IF t.jumps THEN back.page ELSE p
  BY <1>2, Zenon
<1>4. /\ page' = till(from).page /\ end_reached' = till(from).end /\ top' = from
      /\ boxh' = h /\ begin_reached' = (IF t.jumps THEN back.begin ELSE begin)
      /\ page_length' = MaxOf(MinOf(h, t.lines - from), 1)
      /\ targets' = (IF t.jumps THEN Targets(from, ahead.page) ELSE <<>>)
  BY <1>3, Zenon DEF Show
<1>5. from \in Nat /\ h \in Nat
  OBVIOUS
<1>6. /\ till(from).page = MinOf(from + h, t.lines - 1)
      /\ till(from).end = (from + h >= t.lines)
  BY <1>5, AfterIs, Zenon
<1>7. begin_reached' = (from = 0)
  BY <1>2, <1>3, <1>4, Zenon
<1>8. t.jumps => targets' = Targets(from, MinOf(from + h, t.lines - 1))
  BY <1>2, <1>3, <1>4, Zenon
<1> HIDE DEF ahead, back, till
<1>9. MaxOf(MinOf(h, t.lines - from), 1) = MinOf(h, t.lines - from)
  BY <1>1, <1>3 DEF MinOf, MaxOf
<1>10. end_reached' = (from + h >= t.lines)
  BY <1>4, <1>6, Zenon
<1> QED
  BY <1>3, <1>4, <1>6, <1>7, <1>8, <1>9, <1>10, Zenon DEF Placed
-----------------------------------------------------------------------------
(* The jump keys: the numbers go round, and a page has only so many.         *)

\* Two numbers that are less than n apart go round n to different ones.
LEMMA Apart ==
    ASSUME NEW n \in Nat \ {0}, NEW a \in Nat, NEW b \in Nat, a < b, b - a < n
    PROVE  a % n # b % n
<1> SUFFICES ASSUME a % n = b % n PROVE FALSE
  OBVIOUS
<1>1. PICK q \in Int : a = (n * q) + (a % n)
  <2>1. a \div n \in Int /\ a = (n * (a \div n)) + (a % n)
    OBVIOUS
  <2> QED BY <2>1
<1>2. PICK r \in Int : b = (n * r) + (b % n)
  <2>1. b \div n \in Int /\ b = (n * (b \div n)) + (b % n)
    OBVIOUS
  <2> QED BY <2>1
<1>3. PICK d \in Int : d = r - q
  OBVIOUS
<1>4. b - a = n * d
  <2>1. n * (r - q) = n * r - n * q /\ a % n \in Int
    OBVIOUS
  <2> QED BY <1>1, <1>2, <1>3, <2>1
<1>5. CASE d >= 1
  <2>1. n * d >= n
    BY <1>5
  <2> QED BY <1>4, <2>1
<1>6. CASE d <= 0
  <2>1. n * d <= 0
    BY <1>6
  <2> QED BY <1>4, <2>1
<1> QED BY <1>5, <1>6

\* How many members of a finite set of numbers come before one of it.
Rank(S, l) == Cardinality({j \in S : j < l})

LEMMA RankGrows ==
    ASSUME NEW S \in SUBSET Nat, IsFiniteSet(S)
    PROVE  /\ \A l \in S : Rank(S, l) \in Nat /\ Rank(S, l) < Cardinality(S)
           /\ \A l, m \in S : l < m => Rank(S, l) < Rank(S, m)
<1> DEFINE before(l) == {j \in S : j < l}
<1>1. ASSUME NEW l \in S
      PROVE  /\ IsFiniteSet(before(l)) /\ Cardinality(before(l)) \in Nat
             /\ Cardinality(before(l)) < Cardinality(S)
  <2>1. before(l) \in SUBSET S /\ l \notin before(l)
    OBVIOUS
  <2>2. /\ IsFiniteSet(before(l)) /\ Cardinality(before(l)) <= Cardinality(S)
        /\ Cardinality(S) = Cardinality(before(l)) => S = before(l)
    BY <2>1, FS_Subset
  <2>3. Cardinality(before(l)) \in Nat /\ Cardinality(S) \in Nat
    BY <2>2, FS_CardinalityType
  <2> QED BY <2>1, <2>2, <2>3
<1>2. ASSUME NEW l \in S, NEW m \in S, l < m
      PROVE  Cardinality(before(l)) < Cardinality(before(m))
  <2>0. \A j \in S : j < l => j < m
    BY <1>2
  <2>a. \A j \in before(l) : j \in before(m)
    BY <2>0, Zenon
  <2>b. l \in before(m) /\ l \notin before(l)
    BY <1>2
  <2>1. before(l) \in SUBSET before(m) /\ l \in before(m) /\ l \notin before(l)
    BY <2>a, <2>b, Zenon
  <2>2. /\ Cardinality(before(l)) <= Cardinality(before(m))
        /\ Cardinality(before(m)) = Cardinality(before(l)) => before(m) = before(l)
    BY <1>1, <2>1, FS_Subset
  <2> QED BY <1>1, <2>1, <2>2
<1> QED
  BY <1>1, <1>2 DEF Rank

\* The members that fewer than n others come before are n, or all of them.
LEMMA FirstOnes ==
    ASSUME NEW S \in SUBSET Nat, IsFiniteSet(S), NEW n \in Nat
    PROVE  LET T == {l \in S : Rank(S, l) < n}
           IN  IsFiniteSet(T) /\ Cardinality(T) = MinOf(Cardinality(S), n)
<1> DEFINE T == {l \in S : Rank(S, l) < n}
<1>1. PICK N \in Nat : N = Cardinality(S)
  BY FS_CardinalityType
<1> DEFINE f == [l \in S |-> Rank(S, l)]
<1>2. f \in Injection(S, 0 .. (N - 1))
  <2>1. \A l \in S : Rank(S, l) \in 0 .. (N - 1)
    BY <1>1, RankGrows
  <2>2. \A l, m \in S : Rank(S, l) = Rank(S, m) => l = m
    <3> SUFFICES ASSUME NEW l \in S, NEW m \in S, Rank(S, l) = Rank(S, m), l # m PROVE FALSE
      OBVIOUS
    <3>1. l < m \/ m < l
      OBVIOUS
    <3> QED BY <3>1, RankGrows
  <2> QED BY <2>1, <2>2 DEF Injection, IsInjective
<1>3. IsFiniteSet(0 .. (N - 1)) /\ Cardinality(0 .. (N - 1)) = N
  <2>1. N - 1 \in Int /\ 0 \in Int
    OBVIOUS
  <2> QED BY <2>1, FS_Interval
<1>4. f \in Surjection(S, 0 .. (N - 1))
  BY <1>1, <1>2, <1>3, FS_Injection
<1>5. PICK k \in Nat : k = MinOf(N, n) /\ k - 1 \in Int
  BY <1>1 DEF MinOf
<1> DEFINE g == [l \in T |-> Rank(S, l)]
<1>6. \A l \in S : f[l] = Rank(S, l) /\ Rank(S, l) \in 0 .. (N - 1)
  BY <1>1, RankGrows
<1>7. g \in Bijection(T, 0 .. (k - 1))
  <2>0. ASSUME NEW l \in T PROVE Rank(S, l) \in 0 .. (k - 1)
    <3>1. l \in S /\ Rank(S, l) < n /\ Rank(S, l) \in 0 .. (N - 1)
      BY <1>6
    <3> QED BY <1>5, <3>1 DEF MinOf
  <2>1. g \in [T -> 0 .. (k - 1)]
    BY <2>0
  <2>2. g \in Injection(T, 0 .. (k - 1))
    <3>1. \A l, m \in T : g[l] = g[m] => f[l] = f[m]
      BY <1>6
    <3>2. \A l, m \in S : f[l] = f[m] => l = m
      BY <1>2 DEF Injection, IsInjective
    <3> QED BY <2>1, <3>1, <3>2 DEF Injection, IsInjective
  <2>3. ASSUME NEW i \in 0 .. (k - 1) PROVE \E l \in T : g[l] = i
    <3>1. i \in 0 .. (N - 1) /\ i < n
      BY <1>5 DEF MinOf
    <3>2. PICK l \in S : f[l] = i
      BY <1>4, <3>1 DEF Surjection
    <3> QED BY <1>6, <3>1, <3>2
  <2> QED BY <2>1, <2>2, <2>3 DEF Bijection, Surjection
<1>8. IsFiniteSet(T)
  <2>1. T \in SUBSET S
    OBVIOUS
  <2> QED BY <2>1, FS_Subset
<1>9. Cardinality(T) = Cardinality(0 .. (k - 1))
  <2>1. ExistsBijection(T, 0 .. (k - 1))
    BY <1>7 DEF ExistsBijection
  <2> QED BY <1>8, <2>1, FS_Bijection
<1>10. Cardinality(0 .. (k - 1)) = k
  BY <1>5, FS_Interval
<1> QED
  BY <1>1, <1>5, <1>8, <1>9, <1>10

\* The jumps on a page, and those of them that get a key.
ShownJumps(from, to) == {l \in JumpAt : from <= l /\ l < to}

KeyedJumps(from, to) == {l \in ShownJumps(from, to) : Rank(ShownJumps(from, to), l) < JUMP_NB}

LEMMA TargetsIs ==
    ASSUME NEW from, NEW to
    PROVE  Targets(from, to) =
             [k \in {KeyOf(l) : l \in KeyedJumps(from, to)} |->
                 CHOOSE l \in KeyedJumps(from, to) : KeyOf(l) = k]
BY Zenon DEF Targets, KeyedJumps, ShownJumps, Rank

\* The number of a jump is its rank on the page behind all those above.
LEMMA IndexOnPage ==
    ASSUME NEW from \in Nat, NEW to \in Nat, NEW l \in ShownJumps(from, to)
    PROVE  /\ Index(l) = Index(from) + Rank(ShownJumps(from, to), l)
           /\ Index(from) \in Nat /\ Index(l) \in Nat
<1> USE TextAssumption
<1> DEFINE A == {j \in JumpAt : j < from}
           B == {j \in ShownJumps(from, to) : j < l}
<1>1. l \in Nat /\ from <= l /\ l < to /\ \A j \in JumpAt : j \in Nat
  BY DEF ShownJumps
<1>2. {j \in JumpAt : j < l} = A \cup B /\ A \cap B = {}
  <2>1. \A j \in JumpAt : j < l <=> (j < from \/ (from <= j /\ j < to /\ j < l))
    BY <1>1
  <2>2. \A j \in JumpAt : ~ (j < from /\ from <= j)
    BY <1>1
  <2> QED BY <2>1, <2>2, Zenon DEF ShownJumps
<1>3. IsFiniteSet(A) /\ IsFiniteSet(B)
  <2>a. \A j \in JumpAt : j < from => j \in 0 .. from
    BY <1>1
  <2>b. \A j \in JumpAt : j < l => j \in 0 .. l
    BY <1>1
  <2>1. A \in SUBSET (0 .. from) /\ B \in SUBSET (0 .. l)
    BY <2>a, <2>b, Zenon DEF ShownJumps
  <2>2. IsFiniteSet(0 .. from) /\ IsFiniteSet(0 .. l)
    BY <1>1, FS_Interval
  <2> QED BY <2>1, <2>2, FS_Subset
<1>4. Cardinality(A \cup B) = Cardinality(A) + Cardinality(B) - Cardinality({})
  BY <1>2, <1>3, FS_Union
<1>5. Cardinality(A) \in Nat /\ Cardinality(B) \in Nat /\ Cardinality({}) = 0
  BY <1>3, FS_CardinalityType, FS_EmptySet
<1> QED
  BY <1>2, <1>4, <1>5 DEF Index, Rank

\* A key of a page leads to a jump of the page that has this key, and as many
\* jumps as there are keys for have one, no two the same.
LEMMA KeysTrue ==
    ASSUME NEW from \in Nat, NEW to \in Nat
    PROVE  /\ \A k \in DOMAIN Targets(from, to) :
                  /\ Targets(from, to)[k] \in ShownJumps(from, to)
                  /\ KeyOf(Targets(from, to)[k]) = k
           /\ Cardinality(DOMAIN Targets(from, to)) =
                 MinOf(Cardinality(ShownJumps(from, to)), JUMP_NB)
<1> USE TextAssumption
<1> DEFINE S == ShownJumps(from, to)
           T == KeyedJumps(from, to)
           D == {KeyOf(l) : l \in T}
<1>1. S \in SUBSET Nat /\ S \in SUBSET (from .. to)
  <2>1. \A l \in JumpAt : l \in Nat
    OBVIOUS
  <2>2. \A l \in JumpAt : from <= l /\ l < to => l \in from .. to
    BY <2>1
  <2> QED BY <2>1, <2>2, Zenon DEF ShownJumps
<1>2. IsFiniteSet(S)
  <2>1. IsFiniteSet(from .. to)
    BY FS_Interval
  <2> QED BY <1>1, <2>1, FS_Subset
<1>3. IsFiniteSet(T) /\ Cardinality(T) = MinOf(Cardinality(S), JUMP_NB)
  BY <1>1, <1>2, FirstOnes DEF KeyedJumps
<1>4. ASSUME NEW l \in T, NEW m \in T, l < m PROVE KeyOf(l) # KeyOf(m)
  <2>1. l \in S /\ m \in S /\ Rank(S, l) < JUMP_NB /\ Rank(S, m) < JUMP_NB
    BY DEF KeyedJumps
  <2>2. Rank(S, l) \in Nat /\ Rank(S, m) \in Nat /\ Rank(S, l) < Rank(S, m)
    BY <1>1, <1>2, <1>4, <2>1, RankGrows
  <2>3. /\ Index(l) = Index(from) + Rank(S, l) /\ Index(m) = Index(from) + Rank(S, m)
        /\ Index(from) \in Nat /\ Index(l) \in Nat /\ Index(m) \in Nat
    BY <2>1, IndexOnPage
  <2>4. Index(l) < Index(m) /\ Index(m) - Index(l) < JUMP_NB
    BY <2>1, <2>2, <2>3
  <2>5. Index(l) % JUMP_NB # Index(m) % JUMP_NB
    BY <2>3, <2>4, Apart
  <2>6. Index(l) % JUMP_NB \in Int /\ Index(m) % JUMP_NB \in Int
    BY <2>3
  <2> QED BY <2>5, <2>6 DEF KeyOf
<1>5. ASSUME NEW l \in T, NEW m \in T, KeyOf(l) = KeyOf(m) PROVE l = m
  <2>1. l \in Nat /\ m \in Nat
    BY <1>1 DEF KeyedJumps
  <2> QED BY <1>4, <1>5, <2>1
<1>6. DOMAIN Targets(from, to) = D
  BY TargetsIs
<1>7. ASSUME NEW k \in D
      PROVE  Targets(from, to)[k] \in S /\ KeyOf(Targets(from, to)[k]) = k
  <2>1. \E l \in T : KeyOf(l) = k
    OBVIOUS
  <2>2. Targets(from, to)[k] = CHOOSE l \in T : KeyOf(l) = k
    BY TargetsIs
  <2>3. Targets(from, to)[k] \in T /\ KeyOf(Targets(from, to)[k]) = k
    BY <2>1, <2>2, Zenon
  <2> QED BY <2>3 DEF KeyedJumps
<1>8. Cardinality(D) = Cardinality(T)
  <2> DEFINE f == [l \in T |-> KeyOf(l)]
  <2>1. f \in Bijection(T, D)
    BY <1>5 DEF Bijection, Injection, Surjection, IsInjective
  <2>2. ExistsBijection(T, D)
    BY <2>1 DEF ExistsBijection
  <2> QED BY <1>3, <2>2, FS_Bijection
<1> QED
  BY <1>3, <1>6, <1>7, <1>8

\* What holds of a text box between two keys, and of the place where search
\* results were left while another box is open.
TextInv ==
    /\ vscroll \in Nat
    /\ box # "text" => vscroll = top
    /\ box = "text" => text \in Text /\ boxh \in Nat \ {0} /\ (text.ended => Placed)

\* The box opens where the search results were left.
LEMMA TextOpens == ASSUME TextInv, OpenText PROVE TextInv'
<1> USE TextAssumption
<1>1. PICK t \in Text, h \in TextHeights :
          /\ text' = t
          /\ vscroll' = (IF t.jumps THEN vscroll ELSE 0)
          /\ Show(t, After(t, 0, vscroll').page, vscroll' = 0, h)
  BY DEF OpenText
<1>2. vscroll' \in Nat /\ h \in Nat \ {0} /\ boxh' = h
  BY <1>1 DEF TextInv, Show
<1>3. box' = "text"
  BY DEF OpenText, OpenBox
<1>4. ASSUME t.ended PROVE Placed'
  <2>1. PICK v \in Nat : v = vscroll'
    BY <1>2
  <2>2. PICK p : p = After(t, 0, v).page
    OBVIOUS
  <2>3. p = MinOf(0 + v, t.lines - 1)
    BY <1>4, <2>2, AfterIs
  <2>4. p \in 0 .. (t.lines - 1) /\ (v = 0 <=> p = 0)
    BY <1>4, <2>3, Lines DEF MinOf
  <2>5. (v = 0) = (p = 0)
    BY <2>4
  <2>6. Show(t, p, v = 0, h)
    BY <1>1, <2>1, <2>2, Zenon
  <2> QED BY <1>1, <1>2, <1>4, <2>4, <2>5, <2>6, ShowPlaces
<1> QED
  BY <1>1, <1>2, <1>3, <1>4 DEF TextInv

\* A key that goes back over n lines and prints a page.
LEMMA GoBackPlaces ==
    ASSUME text \in Text, text.ended, text' = text, NEW p \in 0 .. (text.lines - 1),
           NEW end \in BOOLEAN, NEW n \in Nat, p # 0 \/ n # 0, NEW h \in Nat \ {0},
           GoBack(p, end, n, h)
    PROVE  Placed'
<1>1. PICK t \in Text : t = text /\ t.ended
  OBVIOUS
<1>2. PICK b : b = Back(t, p, end, n)
  OBVIOUS
<1>3. PICK k \in Int : k = (IF n > 0 /\ p = t.lines - 1 /\ end THEN n - 1 ELSE n)
  <2>1. n - 1 \in Int /\ n \in Int
    OBVIOUS
  <2> QED BY <2>1
<1>4. p \in 0 .. (t.lines - 1)
  BY <1>1
<1>5. b.page \in 0 .. (t.lines - 1)
  BY <1>1, <1>2, <1>3, <1>4, BackIs, Zenon
<1>6. b.begin = (b.page = 0)
  BY <1>1, <1>2, <1>4, BackKnows, ZenonT(30)
<1>7. Show(t, b.page, b.begin, h)
  BY <1>1, <1>2, Zenon DEF GoBack
<1> QED
  BY <1>1, <1>5, <1>6, <1>7, ShowPlaces, Zenon

\* Every key that leaves the box open leaves it placed.
LEMMA TextKeyPlaces ==
    ASSUME TextInv, TextKeys, ~ TextDone, text.ended PROVE Placed'
<1> USE TextAssumption
<1>1. /\ box = "text" /\ text' = text /\ text \in Text /\ Placed
  BY DEF TextKeys, TextHome, TextEnd, TextUp, TextPageUp, TextDown, TextPageDown,
         TextSideways, TextResize, TextKey, Read, TextInv
<1>2. PICK e \in Nat \ {0} : e = text.lines - 1 /\ End(text) = e /\ text.lines = e + 1
  BY <1>1, Lines
<1>3. PICK h \in Nat \ {0} : h = boxh
  BY <1>1 DEF Placed
<1>4. PICK from \in 0 .. e : from = top
  BY <1>1, <1>2 DEF Placed
<1>5. page = MinOf(from + h, text.lines - 1) /\ page_length = MinOf(h, text.lines - from)
  BY <1>1, <1>3, <1>4, Zenon DEF Placed
<1>6. end_reached = (from + h >= text.lines)
  BY <1>1, <1>3, <1>4, Zenon DEF Placed
<1>7. /\ page \in 0 .. (text.lines - 1) /\ page # 0
      /\ page_length \in Nat \ {0} /\ page_length - 1 \in Nat
      /\ end_reached \in BOOLEAN /\ h \in Nat
  <2>1. (from + h >= text.lines) \in BOOLEAN
    OBVIOUS
  <2>2. end_reached \in BOOLEAN
    BY <1>6, <2>1, Zenon
  <2> QED BY <1>2, <1>5, <2>2 DEF MinOf
<1>8. CASE TextHome
  <2>1. 0 \in 0 .. (text.lines - 1) /\ TRUE = (0 = 0)
    BY <1>2
  <2>2. Show(text, 0, TRUE, h)
    BY <1>3, <1>8, Zenon DEF TextHome
  <2> QED BY <1>1, <2>1, <2>2, ShowPlaces, Zenon
<1>9. CASE TextPageDown
  <2>1. Show(text, page, FALSE, h) /\ FALSE = (page = 0)
    BY <1>3, <1>7, <1>9 DEF TextPageDown
  <2> QED BY <1>1, <1>7, <2>1, ShowPlaces, Zenon
<1>10. CASE TextEnd
  <2>1. e \in 0 .. (text.lines - 1) /\ e # 0 /\ TRUE \in BOOLEAN
    BY <1>2
  <2>2. GoBack(e, TRUE, h, h)
    BY <1>2, <1>3, <1>10, Zenon DEF TextEnd
  <2> QED BY <1>1, <1>7, <2>1, <2>2, GoBackPlaces
<1>11. CASE TextUp \/ TextPageUp \/ TextSideways
  <2>1. PICK n \in {page_length + 1, page_length + h, page_length} :
            GoBack(page, end_reached, n, h)
    BY <1>3, <1>11 DEF TextUp, TextPageUp, TextSideways
  <2>2. n \in Nat
    BY <1>7
  <2> QED BY <1>1, <1>7, <2>1, <2>2, GoBackPlaces
<1>12. CASE TextDown
  <2>1. GoBack(page, end_reached, page_length - 1, h)
    BY <1>3, <1>12 DEF TextDown
  <2> QED BY <1>1, <1>7, <2>1, GoBackPlaces
<1>13. CASE TextResize
  <2>1. PICK hh \in TextHeights : GoBack(page, end_reached, h + 4, hh)
    BY <1>3, <1>13 DEF TextResize
  <2>2. hh \in Nat \ {0} /\ h + 4 \in Nat
    OBVIOUS
  <2> QED BY <1>1, <1>7, <2>1, <2>2, GoBackPlaces
<1> QED
  BY <1>8, <1>9, <1>10, <1>11, <1>12, <1>13 DEF TextKeys

\* Going back over a page leads to its first line.
LEMMA PageBack ==
    ASSUME text \in Text, text.ended, Placed
    PROVE  Back(text, page, end_reached, page_length).page = top
<1>2. PICK e \in Nat \ {0} : e = text.lines - 1 /\ text.lines = e + 1
  BY Lines
<1>3. PICK h \in Nat \ {0} : h = boxh
  BY DEF Placed
<1>4. PICK from \in 0 .. e : from = top
  BY <1>2 DEF Placed
<1>5. PICK p \in 0 .. e : p = page /\ p = MinOf(from + h, e)
  <2>1. page = MinOf(from + h, e)
    BY <1>2, <1>3, <1>4, Zenon DEF Placed
  <2>2. MinOf(from + h, e) \in 0 .. e
    BY DEF MinOf
  <2> QED BY <2>1, <2>2
<1>6. PICK n \in Nat \ {0} : n = page_length /\ n = MinOf(h, e + 1 - from)
  <2>1. page_length = MinOf(h, text.lines - from)
    BY <1>3, <1>4, Zenon DEF Placed
  <2>2. text.lines - from = e + 1 - from
    BY <1>2
  <2>3. MinOf(h, e + 1 - from) \in Nat \ {0}
    BY DEF MinOf
  <2> QED BY <2>1, <2>2, <2>3, Zenon
<1>7. end_reached = (from + h >= e + 1)
  BY <1>2, <1>3, <1>4, Zenon DEF Placed
<1>8. p \in 0 .. (text.lines - 1) /\ n - 1 \in Int /\ n \in Nat /\ n \in Int
  BY <1>2
<1>9. CASE from + h >= e + 1
  <2>1. end_reached = TRUE
    BY <1>7, <1>9, Zenon
  <2>2. n - 1 = (IF n > 0 /\ p = text.lines - 1 /\ TRUE THEN n - 1 ELSE n)
    BY <1>2, <1>5, <1>9 DEF MinOf
  <2>3. Back(text, p, TRUE, n).page = MaxOf(p - (n - 1), 0)
    BY <1>8, <2>2, BackIs
  <2>4. MaxOf(p - (n - 1), 0) = from
    BY <1>5, <1>6, <1>9 DEF MinOf, MaxOf
  <2> QED BY <1>4, <1>5, <1>6, <2>1, <2>3, <2>4, Zenon
<1>10. CASE ~ from + h >= e + 1
  <2>0. (from + h >= e + 1) = FALSE
    BY <1>10
  <2>1. end_reached = FALSE
    BY <1>7, <2>0, Zenon
  <2>2. n = (IF n > 0 /\ p = text.lines - 1 /\ FALSE THEN n - 1 ELSE n)
    OBVIOUS
  <2>3. Back(text, p, FALSE, n).page = MaxOf(p - n, 0)
    BY <1>8, <2>2, BackIs
  <2>4. MaxOf(p - n, 0) = from
    BY <1>5, <1>6, <1>10 DEF MinOf, MaxOf
  <2> QED BY <1>4, <1>5, <1>6, <2>1, <2>3, <2>4, Zenon
<1> QED BY <1>9, <1>10

LEMMA TextInvStep ==
    ASSUME TextInv, [LxNext]_lxVars PROVE TextInv'
<1> USE TextAssumption
<1>1. CASE OpenText
  BY <1>1, TextOpens
<1>2. CASE TextDone
  <2>1. box = "text" /\ box' = "closed" /\ Leave /\ text \in Text
    BY <1>2 DEF TextDone, Return, TextInv
  <2>2. CASE text.jumps
    <3>1. text.ended /\ Placed
      BY <2>1, <2>2, Lines DEF TextInv
    <3>2. vscroll' = top' /\ top' = top
      BY <2>1, <2>2, <3>1, PageBack DEF Leave
    <3>3. top \in Nat
      BY <2>1, <3>1, Lines DEF Placed
    <3> QED BY <2>1, <3>2, <3>3 DEF TextInv
  <2>3. CASE ~ text.jumps
    BY <2>1, <2>3 DEF Leave, TextInv
  <2> QED BY <2>2, <2>3
<1>3. CASE TextKeys /\ ~ TextDone
  <2>1. box = "text" /\ box' = "text" /\ text' = text /\ vscroll' = vscroll /\ text \in Text
    BY <1>3 DEF TextKeys, TextHome, TextEnd, TextUp, TextPageUp, TextDown, TextPageDown,
           TextSideways, TextResize, TextKey, Read, TextInv
  <2>2. boxh' \in Nat \ {0}
    <3>1. boxh' \in {boxh} \cup TextHeights
      BY <1>3 DEF TextKeys, TextHome, TextEnd, TextUp, TextPageUp, TextDown, TextPageDown,
             TextSideways, TextResize, GoBack, Show
    <3> QED BY <2>1, <3>1 DEF TextInv
  <2>3. text.ended => Placed'
    BY <1>3, TextKeyPlaces
  <2> QED BY <2>1, <2>2, <2>3 DEF TextInv
<1>4. CASE Drop
  BY <1>4 DEF Drop, TextInv, dialogVars
<1>5. ASSUME UNCHANGED textVars, box' = "text" <=> box = "text" PROVE TextInv'
  <2>1. /\ text' = text /\ boxh' = boxh /\ page' = page /\ begin_reached' = begin_reached
        /\ end_reached' = end_reached /\ page_length' = page_length /\ top' = top
        /\ targets' = targets /\ vscroll' = vscroll
    BY <1>5 DEF textVars
  <2>2. Placed => Placed'
    BY <2>1, Zenon DEF Placed
  <2> QED BY <1>5, <2>1, <2>2 DEF TextInv
<1>6. ASSUME OpenMenu \/ MenuKeys \/ OpenList \/ ListKeys \/ OpenInput \/ InputKeys
             \/ OpenYesno \/ YesnoKeys
      PROVE  box # "text" /\ box' # "text"
  <2>1. CASE OpenMenu \/ OpenList \/ OpenInput \/ OpenYesno
    BY <2>1 DEF OpenMenu, OpenList, OpenInput, OpenYesno, OpenBox
  <2>2. CASE MenuKeys
    BY <2>2 DEF MenuKeys, MenuUp, MenuDown, MenuPageUp, MenuPageDown, MenuHotKey, MenuCommand,
                MenuEscape, MenuTurn, MenuResize, MenuKey, Turn, Read, Return
  <2>3. CASE ListKeys
    BY <2>3 DEF ListKeys, ListUp, ListDown, ListHotKey, ListCommand, ListEscape, ListTurn,
                ListResize, ListKey, Turn, Read, Return
  <2>4. CASE InputKeys
    BY <2>4 DEF InputKeys, Type, Backspace, FieldLeft, FieldRight, FieldKey, InputTurn,
                InputDone, InputEscape, InputResize, Read, Return
  <2>5. CASE YesnoKeys
    BY <2>5 DEF YesnoKeys, Turn, Escape, Read, Return
  <2> QED BY <1>6, <2>1, <2>2, <2>3, <2>4, <2>5
<1>7. CASE UNCHANGED lxVars
  BY <1>5, <1>7 DEF lxVars, dialogVars
<1>8. LxNext => OpenText \/ TextKeys \/ Drop
                \/ (/\ OpenMenu \/ MenuKeys \/ OpenList \/ ListKeys \/ OpenInput \/ InputKeys
                       \/ OpenYesno \/ YesnoKeys
                    /\ UNCHANGED textVars)
  BY DEF LxNext
<1> QED
  BY <1>1, <1>2, <1>3, <1>4, <1>5, <1>6, <1>7, <1>8

\* A box that is placed has what the user may rely on.
LEMMA PlacedIsTrue == TextInv => PageTrue
<1> SUFFICES ASSUME TextInv PROVE PageTrue
  OBVIOUS
<1>1. box = "closed" => vscroll = top
  BY DEF TextInv
<1>2. ASSUME box = "text", text.ended
      PROVE  /\ begin_reached = (top = 0)
             /\ end_reached = (top + page_length = text.lines)
             /\ page_length = MinOf(boxh, text.lines - top)
             /\ Back(text, page, end_reached, page_length).page = top
  <2>1. text \in Text /\ Placed
    BY <1>2 DEF TextInv
  <2>2. Back(text, page, end_reached, page_length).page = top
    BY <1>2, <2>1, PageBack
  <2>3. /\ begin_reached = (top = 0) /\ page_length = MinOf(boxh, text.lines - top)
        /\ end_reached = (top + boxh >= text.lines)
    BY <2>1, Zenon DEF Placed
  <2>4. (top + boxh >= text.lines) = (top + page_length = text.lines)
    <3>1. text.lines \in Nat /\ top \in 0 .. (text.lines - 1) /\ boxh \in Nat
      BY <2>1, Lines DEF Placed
    <3>2. page_length = MinOf(boxh, text.lines - top)
      BY <2>3
    <3> QED BY <3>1, <3>2 DEF MinOf
  <2> QED BY <2>2, <2>3, <2>4, Zenon
<1>3. JumpsTrue
  <2> SUFFICES ASSUME box = "text", text.jumps PROVE JumpsTrue
    BY DEF JumpsTrue
  <2>1. text \in Text /\ text.ended /\ Placed
    BY Lines DEF TextInv
  <2> DEFINE to == MinOf(top + boxh, text.lines - 1)
  <2>2. top \in Nat /\ to \in Nat
    BY <2>1, Lines DEF Placed, MinOf
  <2>3. targets = Targets(top, to)
    BY <2>1, Zenon DEF Placed
  <2>4. /\ \A k \in DOMAIN targets : targets[k] \in ShownJumps(top, to) /\ KeyOf(targets[k]) = k
        /\ Cardinality(DOMAIN targets) = MinOf(Cardinality(ShownJumps(top, to)), JUMP_NB)
    BY <2>2, <2>3, KeysTrue, Zenon
  <2> QED BY <2>4, Zenon DEF JumpsTrue, ShownJumps
<1> QED
  BY <1>1, <1>2, <1>3, Zenon DEF PageTrue

\* A text box refuses keys at the first and at the last line and nowhere else,
\* its jump keys lead where the screen says, and search results come back
\* where they were left, for every text and every window (dialog_textbox).
THEOREM PageIsTrue == LxSpec => []PageTrue
<1>1. LxInit => TextInv
  BY DEF LxInit, MenuInit, ListInit, TextInit, TextInv
<1>2. TextInv /\ [LxNext]_lxVars => TextInv'
  BY TextInvStep
<1> QED
  BY <1>1, <1>2, PlacedIsTrue, PTL DEF LxSpec
-----------------------------------------------------------------------------
(* The checklist (checklist.c), and the menu box with other boxes between.   *)

\* Where the window and the highlight of a checklist are, and what is drawn.
ListWindow ==
    /\ items \in Nat /\ height = ListHeight /\ scroll \in Nat /\ choice \in Nat
    /\ s_scroll \in Nat /\ selected = NoItem
    /\ items # 0 => scroll + MaxChoice <= items /\ choice < MaxChoice
    /\ rows = [r \in Rows |-> Line(scroll + r, r = choice)]

\* What is left of the lists while none is shown.
Idle ==
    /\ items = 0 /\ height \in Nat /\ scroll = 0 /\ choice = 0
    /\ s_scroll \in Nat /\ selected = NoItem

BoxWindow ==
    /\ box = "menu" => Window
    /\ box = "list" => ListWindow
    /\ box \notin {"menu", "list"} => Idle

LEMMA IdleWindow == box = "closed" => (Idle <=> Window)
BY DEF Idle, Window, MaxChoice, MinOf, NoItem

\* A checklist is drawn with its highlight in the window and its window in
\* the list, a choice below the window included.
LEMMA DrawListWindow ==
    ASSUME NEW n \in Nat, NEW c \in Nat, NEW s \in Nat, DrawList(n, c, s),
           n # 0 => s + c < n /\ (s = 0 \/ (s + MinOf(ListHeight, n) <= n /\ c < ListHeight)),
           s_scroll' \in Nat, selected' = NoItem
    PROVE  ListWindow'
<1> USE ListAssumption
<1> DEFINE s2 == IF c >= ListHeight THEN c - ListHeight + 1 ELSE s
           c2 == IF c >= ListHeight THEN ListHeight - 1 ELSE c
<1>1. /\ items' = n /\ height' = ListHeight /\ scroll' = s2 /\ choice' = c2
      /\ rows' = [r \in 0 .. (MinOf(ListHeight, n) - 1) |-> Line(s2 + r, r = c2)]
  BY Zenon DEF DrawList
<1>2. s2 \in Nat /\ c2 \in Nat
  OBVIOUS
<1>3. n # 0 => s2 + MinOf(ListHeight, n) <= n /\ c2 < MinOf(ListHeight, n)
  BY DEF MinOf
<1>4. MaxChoice' = MinOf(ListHeight, n) /\ Rows' = 0 .. (MinOf(ListHeight, n) - 1)
  BY <1>1 DEF MaxChoice, Rows
<1> HIDE DEF s2, c2
<1>5. rows' = [r \in Rows' |-> Line(scroll' + r, r = choice')]
  BY <1>1, <1>4
<1> QED
  BY <1>1, <1>2, <1>3, <1>4, <1>5 DEF ListWindow

\* Scrolling by k lines and highlighting line c.
LEMMA ListMoves ==
    ASSUME ListWindow, UNCHANGED menuVars, NEW k \in Int, NEW c \in Nat, GoTo(k, c),
           scroll + k >= 0, items # 0 => scroll + k + MaxChoice <= items /\ c < MaxChoice
    PROVE  ListWindow' /\ items' = items /\ MaxChoice' = MaxChoice /\ Item' =
              IF items = 0 THEN NoItem ELSE scroll + k + c
<1> USE ListAssumption
<1>1. items' = items /\ height' = height /\ scroll' = scroll + k /\ choice' = c
  BY DEF GoTo
<1>2. MaxChoice' = MaxChoice /\ Rows' = Rows
  BY <1>1 DEF MaxChoice, Rows
<1>3. items \in Nat /\ height \in Nat /\ scroll \in Nat /\ c \in Int
  BY DEF ListWindow
<1>4. rows' = [r \in Rows' |-> Line(scroll' + r, r = choice')]
  BY <1>3, GoToPicture DEF ListWindow
<1> QED
  BY <1>1, <1>2, <1>3, <1>4 DEF ListWindow, menuVars, Item

LEMMA ListItem == ListWindow => Current
<1> SUFFICES ASSUME ListWindow PROVE Current
  OBVIOUS
<1> USE ListAssumption
<1>1. items \in Nat /\ MaxChoice \in 0 .. items
  BY DEF ListWindow, MaxChoice, MinOf
<1>2. CASE items = 0
  BY <1>1, <1>2 DEF Current, Item, NoItem
<1>3. CASE items # 0
  BY <1>1, <1>3 DEF Current, Item, ListWindow
<1> QED BY <1>2, <1>3

\* The same after a step.
LEMMA ListItemNext == ListWindow' => Current'
BY ListItem, PTL

\* A key that takes the item to where the selector promises.
LEMMA ListPress ==
    ASSUME items' = items, MaxChoice' = MaxChoice, key' # "resize",
           items = 0 => Item' = Item, items # 0 => Item' \in Sel!Reached(key')
    PROVE  [Sel!Next]_(Sel!vars)
<1>1. CASE items = 0
  BY <1>1 DEF Sel!vars
<1>2. CASE items # 0
  <2>1. Sel!Press
    BY <1>2 DEF Sel!Press
  <2> QED BY <2>1 DEF Sel!Next
<1> QED BY <1>1, <1>2

\* A checklist keeps its window, and does what a selector promises.
LEMMA ListStep ==
    ASSUME ListWindow, ListKeys, UNCHANGED menuVars
    PROVE  /\ box = "list" /\ box' \in {"list", "closed"}
           /\ box' = "list" => ListWindow'
           /\ box' = "closed" => Idle'
           /\ [Sel!Next]_(Sel!vars)
<1> USE ListAssumption
<1> DEFINE P == /\ box = "list" /\ box' \in {"list", "closed"}
                /\ box' = "list" => ListWindow'
                /\ box' = "closed" => Idle'
                /\ [Sel!Next]_(Sel!vars)
<1>1. /\ items \in Nat /\ MaxChoice \in 0 .. items /\ scroll \in Nat /\ choice \in Nat
      /\ items # 0 => /\ scroll + MaxChoice <= items /\ choice < MaxChoice
                      /\ Item = scroll + choice
      /\ items = 0 => Item = NoItem
  BY ListItem DEF Current, ListWindow, Item
<1>2. HotKeys \cap {"up", "down", "ppage", "npage", "resize"} = {}
  BY HotKeyAssumption
\* The highlight moves to line c, the window by k lines.
<1>3. ASSUME NEW k \in Int, NEW c \in Nat, GoTo(k, c), scroll + k >= 0,
             items # 0 => scroll + k + MaxChoice <= items /\ c < MaxChoice,
             Read("list", key'), key' # "resize",
             items # 0 => scroll + k + c \in Sel!Reached(key')
      PROVE  P
  <2>1. ListWindow' /\ items' = items /\ MaxChoice' = MaxChoice
        /\ Item' = IF items = 0 THEN NoItem ELSE scroll + k + c
    BY <1>3, ListMoves
  <2>2. [Sel!Next]_(Sel!vars)
    BY <1>1, <1>3, <2>1, ListPress
  <2> QED BY <1>3, <2>1, <2>2 DEF Read
\* Nothing but the key changes.
<1>4. ASSUME Read("list", key'), key' # "resize", UNCHANGED listVars,
             items # 0 => Item \in Sel!Reached(key')
      PROVE  P
  <2>1. /\ items' = items /\ MaxChoice' = MaxChoice /\ Item' = Item /\ Rows' = Rows
        /\ height' = height /\ scroll' = scroll /\ choice' = choice /\ rows' = rows
    BY <1>4 DEF listVars, MaxChoice, Item, Rows
  <2>2. ListWindow'
    BY <2>1 DEF ListWindow, menuVars
  <2>3. [Sel!Next]_(Sel!vars)
    BY <1>4, <2>1, ListPress
  <2> QED BY <1>4, <2>2, <2>3 DEF Read
<1>5. ASSUME NEW k, NEW r, Return("list", k, r), Forget PROVE P
  <2>1. Idle'
    BY <1>5 DEF Forget, Idle, ListWindow, menuVars
  <2>2. items' = 0 /\ MaxChoice' = 0 /\ Item' = -1
    BY <1>5 DEF Forget, MaxChoice, MinOf, Item, NoItem
  <2>3. Sel!Close
    BY <2>2 DEF Sel!Close
  <2> QED BY <1>5, <2>1, <2>3 DEF Return, Sel!Next
<1>6. CASE ListUp
  <2>0. Read("list", key') /\ key' = "up"
    BY <1>6 DEF ListUp, ListKey, Read
  <2>1. items # 0 => MaxOf(Item - 1, 0) \in Sel!Reached("up")
    <3>1. items # 0 => Item \in Int /\ Item # -1
      BY <1>1
    <3>2. "up" \notin HotKeys
      BY <1>2
    <3> QED BY <3>1, <3>2 DEF Sel!Reached, Sel!AtLeast, MaxOf
  <2>2. CASE choice > 0
    <3>1. GoTo(0, choice - 1)
      BY <1>6, <2>2 DEF ListUp
    <3>2. items # 0 => scroll + 0 + (choice - 1) = MaxOf(Item - 1, 0)
      BY <1>1, <2>2 DEF MaxOf
    <3> QED BY <1>1, <1>3, <2>0, <2>1, <2>2, <3>1, <3>2
  <2>3. CASE ~ choice > 0 /\ scroll > 0
    <3>1. GoTo(-1, 0)
      BY <1>6, <2>3 DEF ListUp
    <3>2. items # 0 => scroll + -1 + 0 = MaxOf(Item - 1, 0)
      BY <1>1, <2>3 DEF MaxOf
    <3> QED BY <1>1, <1>3, <2>0, <2>1, <2>3, <3>1, <3>2
  <2>4. CASE ~ choice > 0 /\ ~ scroll > 0
    <3>1. UNCHANGED listVars
      BY <1>6, <2>4 DEF ListUp, Still
    <3>2. items # 0 => Item = MaxOf(Item - 1, 0)
      BY <1>1, <2>4 DEF MaxOf
    <3> QED BY <1>4, <2>0, <2>1, <3>1, <3>2
  <2> QED BY <2>2, <2>3, <2>4
<1>7. CASE ListDown
  <2>0. Read("list", key') /\ key' = "down"
    BY <1>7 DEF ListDown, ListKey, Read
  <2>1. items # 0 => MinOf(Item + 1, items - 1) \in Sel!Reached("down")
    <3>1. items # 0 => Item \in Int /\ Item # -1 /\ items \in Nat
      BY <1>1
    <3>2. "down" \notin HotKeys
      BY <1>2
    <3> QED BY <3>1, <3>2 DEF Sel!Reached, Sel!AtMost, MinOf
  <2>2. CASE choice # MaxChoice - 1
    <3>1. GoTo(0, choice + 1)
      BY <1>7, <2>2 DEF ListDown
    <3>2. items # 0 => scroll + 0 + (choice + 1) = MinOf(Item + 1, items - 1)
      BY <1>1, <2>2 DEF MinOf
    <3> QED BY <1>1, <1>3, <2>0, <2>1, <2>2, <3>1, <3>2
  <2>3. CASE choice = MaxChoice - 1 /\ scroll + choice < items - 1
    <3>1. GoTo(1, choice)
      BY <1>7, <2>3 DEF ListDown
    <3>2. items # 0 => scroll + 1 + choice = MinOf(Item + 1, items - 1)
      BY <1>1, <2>3 DEF MinOf
    <3> QED BY <1>1, <1>3, <2>0, <2>1, <2>3, <3>1, <3>2
  <2>4. CASE choice = MaxChoice - 1 /\ ~ scroll + choice < items - 1
    <3>1. UNCHANGED listVars
      BY <1>7, <2>4 DEF ListDown, Still
    <3>2. items # 0 => Item = MinOf(Item + 1, items - 1)
      BY <1>1, <2>4 DEF MinOf
    <3> QED BY <1>4, <2>0, <2>1, <3>1, <3>2
  <2> QED BY <2>2, <2>3, <2>4
<1>8. ASSUME NEW k \in HotKeys, ListHotKey(k) PROVE P
  <2>1. Hits(k) # {} /\ Hits(k) \subseteq Rows /\ Rows \subseteq Nat
    BY <1>1, <1>8 DEF ListHotKey, Hits, Rows
  <2>2. PICK r \in Hits(k) : GoTo(0, r)
    <3>1. First(Hits(k)) \in Hits(k)
      <4>1. \E x \in Hits(k) : \A y \in Hits(k) : x <= y
        BY <2>1, LeastNat
      <4> QED BY <4>1 DEF First
    <3> QED BY <1>8, <3>1 DEF ListHotKey
  <2>3. Read("list", key') /\ key' = k /\ k # "resize"
    BY <1>2, <1>8 DEF ListHotKey, ListKey, Read
  <2>4. r \in Nat /\ r < MaxChoice /\ items # 0 /\ Letter(scroll + r) = k
    BY <1>1, <2>1, <2>2 DEF Rows, Hits
  <2>5. scroll + 0 + r = scroll + r /\ scroll + r \in 0 .. (items - 1)
    BY <1>1, <2>4
  <2>6. scroll + r \in Sel!Reached(k)
    BY <1>1, <1>2, <2>4, <2>5 DEF Sel!Reached, Sel!Items, NoItem
  <2> QED BY <1>1, <1>3, <2>2, <2>3, <2>4, <2>5, <2>6
<1>9. CASE ListCommand
  BY <1>5, <1>9 DEF ListCommand, Choose
<1>10. CASE ListEscape
  <2>1. CASE Return("list", "esc", KEY_ESC) /\ Dismiss
    BY <1>5, <2>1 DEF Dismiss
  <2>2. CASE Read("list", "esc") /\ Still
    <3>1. items # 0 => Item \in Sel!Reached("esc")
      BY <1>1 DEF Sel!Reached, NoItem
    <3>2. Read("list", key') /\ key' = "esc"
      BY <2>2 DEF Read
    <3> QED BY <1>4, <2>2, <3>1, <3>2 DEF Still
  <2> QED BY <1>10, <2>1, <2>2 DEF ListEscape
<1>11. CASE ListTurn
  <2>1. Read("list", key') /\ key' \in {"left", "right"} /\ UNCHANGED listVars
    BY <1>11 DEF ListTurn, Turn, Read, Still
  <2>2. items # 0 => Item \in Sel!Reached(key')
    BY <1>1, <2>1 DEF Sel!Reached, NoItem
  <2> QED BY <1>4, <2>1, <2>2
<1>12. CASE ListResize
  <2>1. DrawList(items, choice, scroll) /\ Read("list", "resize")
    BY <1>12 DEF ListResize, ListKey
  <2>2. ListWindow'
    <3>1. items # 0 => scroll + choice < items /\ scroll + MinOf(ListHeight, items) <= items
                       /\ choice < ListHeight
      BY <1>1 DEF MaxChoice, MinOf, ListWindow
    <3>2. s_scroll' \in Nat /\ selected' = NoItem
      BY DEF ListWindow, menuVars
    <3> QED BY <1>1, <2>1, <3>1, <3>2, DrawListWindow
  <2>3. items' = items
    BY <2>1 DEF DrawList
  <2>4. /\ items' \in Nat /\ MaxChoice' \in 0 .. items'
        /\ Item' \in {-1} \cup 0 .. (items' - 1)
        /\ Item' = -1 <=> items' = 0
    BY <2>2, ListItemNext DEF Current
  <2>5. [Sel!Next]_(Sel!vars)
    <3>1. CASE items = 0
      <4>1. MaxChoice = MaxChoice' /\ Item = Item'
        BY <1>1, <2>3, <2>4, <3>1 DEF NoItem
      <4> QED BY <2>3, <3>1, <4>1 DEF Sel!vars
    <3>2. CASE items # 0
      <4>1. Sel!Redraw
        BY <2>1, <2>3, <2>4, <3>2 DEF Sel!Redraw, Sel!Items, Read
      <4> QED BY <4>1 DEF Sel!Next
    <3> QED BY <3>1, <3>2
  <2> QED BY <2>1, <2>2, <2>5 DEF Read
<1> QED
  BY <1>6, <1>7, <1>8, <1>9, <1>10, <1>11, <1>12 DEF ListKeys

-----------------------------------------------------------------------------
\* One box after the other: what is left of a list when its box closes, and
\* what the next box makes of it.
LEMMA IdleWindowNext == box' = "closed" => (Idle' <=> Window')
BY DEF Idle, Window, MaxChoice, MinOf, NoItem

\* The boxes without a list leave the lists alone.
Other ==
    /\ box \notin {"menu", "list"} /\ box' \notin {"menu", "list"}
    /\ UNCHANGED <<items, height, scroll, choice, selected>> /\ s_scroll' \in {0, s_scroll}

LEMMA OtherSteps ==
    ASSUME LxNext
    PROVE  \/ OpenMenu \/ MenuKeys
           \/ OpenList /\ UNCHANGED menuVars
           \/ ListKeys /\ UNCHANGED menuVars
           \/ Other
<1>1. CASE (OpenInput \/ OpenYesno) /\ UNCHANGED <<listVars, menuVars>>
  BY <1>1 DEF OpenInput, OpenYesno, OpenBox, Other, listVars, menuVars
<1>2. CASE OpenText /\ UNCHANGED <<listVars, menuVars>>
  BY <1>2 DEF OpenText, OpenBox, Other, listVars, menuVars
<1>3. CASE InputKeys /\ UNCHANGED <<listVars, menuVars>>
  <2>1. box \notin {"menu", "list"} /\ box' \notin {"menu", "list"}
    BY <1>3 DEF InputKeys, Type, Backspace, FieldLeft, FieldRight, FieldKey, InputTurn,
                InputDone, InputEscape, InputResize, Read, Return
  <2> QED BY <1>3, <2>1 DEF Other, listVars, menuVars
<1>4. CASE TextKeys /\ UNCHANGED <<listVars, menuVars>>
  <2>1. box \notin {"menu", "list"} /\ box' \notin {"menu", "list"}
    BY <1>4 DEF TextKeys, TextHome, TextEnd, TextUp, TextPageUp, TextDown, TextPageDown,
                TextSideways, TextResize, TextDone, TextKey, Read, Return
  <2> QED BY <1>4, <2>1 DEF Other, listVars, menuVars
<1>5. CASE YesnoKeys /\ UNCHANGED <<listVars, menuVars>>
  <2>1. box \notin {"menu", "list"} /\ box' \notin {"menu", "list"}
    BY <1>5 DEF YesnoKeys, Turn, Escape, Read, Return
  <2> QED BY <1>5, <2>1 DEF Other, listVars, menuVars
<1>6. CASE Drop
  BY <1>6 DEF Drop, Other, dialogVars
<1> QED
  BY <1>1, <1>2, <1>3, <1>4, <1>5, <1>6 DEF LxNext

\* Such a step leaves the selector as it was: not shown.
LEMMA OtherStep ==
    ASSUME BoxWindow, Other
    PROVE  BoxWindow' /\ [Sel!Next]_(Sel!vars)
<1>1. Idle'
  BY DEF BoxWindow, Idle, Other
<1>2. items = 0 /\ items' = 0 /\ MaxChoice = MaxChoice' /\ Item = Item'
  BY DEF BoxWindow, Idle, Other, MaxChoice, Item
<1> QED
  BY <1>1, <1>2 DEF BoxWindow, Other, Sel!vars

\* A menu box between others.
LEMMA MenuStep ==
    ASSUME BoxWindow, MenuNext
    PROVE  BoxWindow' /\ [Sel!Next]_(Sel!vars) /\ Window /\ box' \in {"menu", "closed"}
<1>1. box \in {"menu", "closed"} /\ box' \in {"menu", "closed"}
  <2>1. CASE OpenMenu
    BY <2>1 DEF OpenMenu, OpenBox
  <2>2. CASE MenuKeys
    BY <2>2 DEF MenuKeys, MenuUp, MenuDown, MenuPageUp, MenuPageDown, MenuHotKey, MenuCommand,
                MenuEscape, MenuTurn, MenuResize, MenuKey, Turn, Read, Return
  <2> QED BY <2>1, <2>2 DEF MenuNext
<1>2. Window
  BY <1>1, IdleWindow DEF BoxWindow
<1>3. Window' /\ [Sel!Next]_(Sel!vars)
  BY <1>2, WindowStep, SelectorStep
<1>4. box' = "closed" => Idle'
  BY <1>3, IdleWindowNext
<1> QED
  BY <1>1, <1>2, <1>3, <1>4 DEF BoxWindow

\* A checklist opens on one of its items.
LEMMA OpenListStep ==
    ASSUME BoxWindow, OpenList, UNCHANGED menuVars
    PROVE  BoxWindow' /\ [Sel!Next]_(Sel!vars) /\ box' = "list"
<1> USE ListAssumption
<1>1. box = "closed" /\ box' = "list" /\ key' = "none" /\ Idle
  BY DEF OpenList, OpenBox, BoxWindow
<1>2. PICK n \in ListCounts : \E c \in {0} \cup 0 .. (n - 1) : DrawList(n, c, 0)
  BY DEF OpenList
<1> PICK c \in {0} \cup 0 .. (n - 1) : DrawList(n, c, 0)
  BY <1>2
<1>3. n \in Nat /\ c \in Nat /\ 0 \in Nat /\ (n # 0 => 0 + c < n)
  OBVIOUS
<1>4. s_scroll' \in Nat /\ selected' = NoItem
  BY <1>1 DEF Idle, menuVars
<1>5. ListWindow'
  BY <1>2, <1>3, <1>4, DrawListWindow
<1>6. items = 0
  BY <1>1 DEF Idle
<1>7. /\ items' \in Nat /\ MaxChoice' \in 0 .. items'
      /\ Item' \in {-1} \cup 0 .. (items' - 1)
      /\ (Item' = -1 <=> items' = 0)
  BY <1>5, ListItemNext DEF Current
<1>8. Sel!Show
  BY <1>1, <1>6, <1>7 DEF Sel!Show
<1> QED
  BY <1>1, <1>5, <1>8 DEF BoxWindow, Sel!Next

\* Every step keeps the window of the list that is shown, and is one of a
\* selector or leaves it alone.
LEMMA LxStep ==
    ASSUME BoxWindow, [LxNext]_lxVars
    PROVE  BoxWindow' /\ [Sel!Next]_(Sel!vars)
<1>1. CASE OpenMenu \/ MenuKeys
  BY <1>1, MenuStep DEF MenuNext
<1>2. CASE OpenList /\ UNCHANGED menuVars
  BY <1>2, OpenListStep
<1>3. CASE ListKeys /\ UNCHANGED menuVars
  <2>1. box = "list"
    BY <1>3 DEF ListKeys, ListUp, ListDown, ListHotKey, ListCommand, ListEscape, ListTurn,
                ListResize, ListKey, Turn, Read, Return
  <2>2. /\ box' \in {"list", "closed"} /\ [Sel!Next]_(Sel!vars)
        /\ box' = "list" => ListWindow'
        /\ box' = "closed" => Idle'
    BY <1>3, <2>1, ListStep DEF BoxWindow
  <2> QED BY <2>2 DEF BoxWindow
<1>4. CASE Other
  BY <1>4, OtherStep
<1>5. CASE UNCHANGED lxVars
  <2>1. /\ box' = box /\ key' = key /\ items' = items /\ height' = height /\ scroll' = scroll
        /\ choice' = choice /\ rows' = rows /\ s_scroll' = s_scroll /\ selected' = selected
        /\ MaxChoice' = MaxChoice /\ Item' = Item /\ Rows' = Rows
    BY <1>5 DEF lxVars, dialogVars, listVars, menuVars, MaxChoice, Item, Rows
  <2> QED BY <2>1 DEF BoxWindow, Window, ListWindow, Idle, Sel!vars
<1> QED
  BY <1>1, <1>2, <1>3, <1>4, <1>5, OtherSteps

\* What is drawn in a menu box stays what belongs there.
LEMMA LxPicture ==
    ASSUME BoxWindow, Picture, [LxNext]_lxVars, ~ ResizeAfterScroll
    PROVE  Picture'
<1>1. CASE OpenMenu \/ MenuKeys
  <2>1. Window
    BY <1>1, MenuStep DEF MenuNext
  <2> QED BY <1>1, <2>1, PictureStep DEF MenuNext
<1>2. CASE OpenList /\ UNCHANGED menuVars
  BY <1>2, OpenListStep DEF Picture
<1>3. CASE ListKeys
  BY <1>3 DEF ListKeys, ListUp, ListDown, ListHotKey, ListCommand, ListEscape, ListTurn,
              ListResize, ListKey, Turn, Read, Return, Picture
<1>4. CASE Other
  BY <1>4 DEF Other, Picture
<1>5. CASE UNCHANGED lxVars
  BY <1>5 DEF lxVars, dialogVars, listVars, Picture, Rows, MaxChoice
<1> QED
  BY <1>1, <1>2, <1>3, <1>4, <1>5, OtherSteps

\* A window that shows its list, and the highlight in it.
LEMMA ShownIsTrue ==
    ASSUME items \in Nat, height \in Nat, scroll \in Nat, choice \in Nat,
           items # 0 => scroll + MaxChoice <= items /\ choice < MaxChoice,
           rows = [r \in Rows |-> Line(scroll + r, r = choice)]
    PROVE  OnScreen
<1>1. Rows = 0 .. (MaxChoice - 1) /\ MaxChoice \in 0 .. items
  BY DEF Rows, MaxChoice, MinOf
<1>2. items # 0 => choice \in Rows
  BY <1>1
<1>3. DOMAIN rows = Rows /\ \A r \in Rows : rows[r] = Line(scroll + r, r = choice)
  OBVIOUS
<1>4. \A r \in Rows : rows[r].item < items
  <2> TAKE r \in Rows
  <2>1. rows[r].item = scroll + r
    BY <1>3 DEF Line
  <2> QED BY <1>1, <2>1
<1> QED
  BY <1>2, <1>3, <1>4 DEF OnScreen

LEMMA BoxIsTrue == BoxWindow /\ Picture => OnScreen
<1> SUFFICES ASSUME BoxWindow, Picture PROVE OnScreen
  OBVIOUS
<1>1. CASE box = "menu"
  BY <1>1, ShownIsTrue DEF BoxWindow, Window, Picture
<1>2. CASE box = "list"
  BY <1>2, ShownIsTrue, ListAssumption DEF BoxWindow, ListWindow
<1>3. CASE box \notin {"menu", "list"}
  BY <1>3 DEF OnScreen
<1> QED BY <1>1, <1>2, <1>3

LEMMA LxStart == LxInit => BoxWindow /\ Picture /\ Sel!Init
BY Start DEF LxInit, MenuInit, ListInit, BoxWindow, Idle, Window, Picture

\* Menus and checklists show what their keys act on, whatever boxes come
\* between and whatever is left of the last one, for every number of items and
\* every height, as long as the terminal keeps its size once the scroll of a
\* menu was saved (dialog_menu, dialog_checklist).
THEOREM BoxesOnScreen ==
    ASSUME ~ ResizeAfterScroll
    PROVE  LxSpec => []OnScreen
<1>1. LxInit => BoxWindow /\ Picture
  BY LxStart
<1>2. BoxWindow /\ Picture /\ [LxNext]_lxVars => (BoxWindow /\ Picture)'
  BY LxStep, LxPicture
<1> QED
  BY <1>1, <1>2, BoxIsTrue, PTL DEF LxSpec

\* Menus and checklists are selectors, one after the other: every key moves
\* the current item as it says, however the window scrolls to show it.
THEOREM BoxesAreSelectors == LxSpec => Selects
<1>1. LxInit => BoxWindow /\ Sel!Init
  BY LxStart
<1>2. BoxWindow /\ [LxNext]_lxVars => BoxWindow'
  BY LxStep
<1>3. BoxWindow /\ [LxNext]_lxVars => [Sel!Next]_(Sel!vars)
  BY LxStep
<1> QED
  BY <1>1, <1>2, <1>3, PTL DEF LxSpec, Selects, Sel!Spec
=============================================================================
