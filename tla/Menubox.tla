------------------------------ MODULE Menubox -------------------------------
(* dialog_menu (package/config/lxdialog/menubox.c) as mconf's conf() calls   *)
(* it: again and again for one menu, with the scroll of the last call saved  *)
(* in s_scroll and the item acted upon as `selected'.                        *)
EXTENDS ListBox

CONSTANTS
    Counts,            \* how many items a menu may have
    Heights,           \* how high its window may be
    ResizeAfterScroll  \* may the terminal change while a saved scroll is used?

ASSUME MenuAssumption == Counts \subseteq Nat /\ Heights \subseteq Nat \ {0}

VARIABLES
    selected,    \* the item to begin with, NoItem when it is not in the menu
    s_scroll,    \* the saved scroll
    first_item   \* the first item to draw

menuVars == <<selected, s_scroll, first_item>>

MenuboxVars == <<dialogVars, listVars, menuVars>>

\* From do_resize to the first key: n items in a window of h lines; c0 is the
\* value of choice before, f0 that of first_item.
Draw(n, h, sel, c0, f0, saved) ==
    LET mc == MinOf(h, n)
        c == IF sel # NoItem THEN sel ELSE c0
        keep == saved <= c /\ c < saved + mc /\ saved + mc <= n
        s == IF keep THEN saved
             ELSE IF c < mc THEN 0
             ELSE IF c >= n - mc \div 2 THEN n - mc
             ELSE c - mc \div 2
        f == IF keep THEN saved ELSE IF c < mc THEN f0 ELSE s
    IN /\ items' = n /\ height' = h
       /\ scroll' = s /\ choice' = c - s /\ first_item' = f
       /\ rows' = [r \in 0 .. (mc - 1) |-> Line(f + r, r = c - s)]

\* The first call for a menu, or the next one of the same conf(): what was
\* done in between may have changed the items.
OpenMenu ==
    /\ OpenBox("menu", 0)
    /\ \E n \in Counts, h \in Heights, saved \in {0, s_scroll} :
          \E sel \in {NoItem} \cup 0 .. (n - 1) :
             /\ selected' = sel /\ s_scroll' = saved
             /\ Draw(n, h, sel, 0, 0, saved)
    /\ active' = NoItem

MenuKey(k) == items # 0 /\ Read("menu", k) /\ UNCHANGED <<button, menuVars>>

\* Mutant: scrolling moves the highlight, too.
MenuUpTwice ==
    /\ MenuKey("up")
    /\ IF choice < 2 /\ scroll > 0
       THEN GoTo(-1, MaxOf(choice - 1, 0))
       ELSE GoTo(0, MaxOf(choice - 1, 0))

\* KEY_UP, '-'
MenuUp ==
    /\ MenuKey("up")
    /\ IF choice < 2 /\ scroll > 0 THEN GoTo(-1, choice) ELSE GoTo(0, MaxOf(choice - 1, 0))

\* KEY_DOWN, '+'
MenuDown ==
    /\ MenuKey("down")
    /\ IF choice > MaxChoice - 3 /\ scroll + MaxChoice < items
       THEN GoTo(1, choice)
       ELSE GoTo(0, MinOf(choice + 1, MaxChoice - 1))

\* KEY_PPAGE: max_choice times one line up.
MenuPageUp ==
    LET k == MinOf(scroll, MaxChoice)
    IN MenuKey("ppage") /\ GoTo(- k, MaxOf(choice - (MaxChoice - k), 0))

\* KEY_NPAGE
MenuPageDown ==
    LET k == MinOf(MaxChoice, items - MaxChoice - scroll)
    IN MenuKey("npage") /\ GoTo(k, MinOf(choice + (MaxChoice - k), MaxChoice - 1))

\* The keys that never stand for an item.
Reserved == {"y", "n", "m", "h", "space"}

Shadowed(k) == k \notin Reserved /\ Hits(k) # {}

\* A letter goes to the next item on the page that has it, or round to the
\* first one.
MenuHotKey(k) ==
    LET next == {r \in Hits(k) : r > choice}
    IN /\ MenuKey(k) /\ Shadowed(k)
       /\ GoTo(0, IF next # {} THEN First(next) ELSE First(Hits(k)))

\* What the keys return that end the box; Enter returns the button.
Command == [h |-> 2, s |-> 5, y |-> 5, n |-> 6, m |-> 7, space |-> 8, slash |-> 9, z |-> 10]

Done == s_scroll' = scroll /\ selected' = NoItem /\ first_item' = 0 /\ Choose

MenuCommand ==
    \/ \E k \in DOMAIN Command : ~ Shadowed(k) /\ Return("menu", k, Command[k]) /\ Done
    \/ Return("menu", "enter", button) /\ Done

\* ESC, and `e' and `x' unless they stand for an item.
MenuEscape ==
    \/ /\ Return("menu", "esc", KEY_ESC)
       /\ s_scroll' = 0 /\ selected' = NoItem /\ first_item' = 0 /\ Dismiss
    \/ Read("menu", "esc") /\ UNCHANGED <<button, listVars, menuVars>>

MenuTurn == Turn("menu", 5) /\ UNCHANGED <<listVars, menuVars>>

\* goto do_resize
MenuResize ==
    /\ Read("menu", "resize")
    /\ ResizeAfterScroll \/ s_scroll = 0
    /\ \E h \in Heights : Draw(items, h, selected, choice, first_item, s_scroll)
    /\ UNCHANGED <<button, active, selected, s_scroll>>

MenuKeys ==
    \/ MenuUp \/ MenuDown \/ MenuPageUp \/ MenuPageDown
    \/ \E k \in HotKeys : MenuHotKey(k)
    \/ MenuCommand \/ MenuEscape \/ MenuTurn \/ MenuResize
-----------------------------------------------------------------------------
ListInit ==
    /\ box = "closed" /\ key = "none" /\ button = 0 /\ result = -1
    /\ items = 0 /\ height = 0 /\ scroll = 0 /\ choice = 0 /\ rows = <<>> /\ active = NoItem

MenuInit == ListInit /\ selected = NoItem /\ s_scroll = 0 /\ first_item = 0

MenuNext == OpenMenu \/ MenuKeys

MenuSpec == MenuInit /\ [][MenuNext]_MenuboxVars
=============================================================================
