----------------------------- MODULE Checklist ------------------------------
(* dialog_checklist (package/config/lxdialog/checklist.c): one of a choice's *)
(* values is picked from a list of a fixed height.                           *)
EXTENDS ListBox

CONSTANTS
    ListCounts,  \* how many values of a choice may be seen
    ListHeight,  \* list_height
    MaxEmpty     \* bound: how far down the highlight goes where there is none

ASSUME ListAssumption == ListCounts \subseteq Nat /\ ListHeight \in Nat \ {0}

\* From do_resize to the first key: a choice below the window scrolls it.
DrawList(n, c, s) ==
    LET s2 == IF c >= ListHeight THEN c - ListHeight + 1 ELSE s
        c2 == IF c >= ListHeight THEN ListHeight - 1 ELSE c
    IN /\ items' = n /\ height' = ListHeight
       /\ scroll' = s2 /\ choice' = c2
       /\ rows' = [r \in 0 .. (MinOf(ListHeight, n) - 1) |-> Line(s2 + r, r = c2)]

\* It begins with the item marked as selected, or else with the one tagged X.
OpenList ==
    /\ OpenBox("list", 0)
    /\ \E n \in ListCounts : \E c \in {0} \cup 0 .. (n - 1) : DrawList(n, c, 0)
    /\ active' = NoItem

ListKey(k) == Read("list", k) /\ UNCHANGED button

Still == UNCHANGED listVars

ListUp ==
    /\ ListKey("up")
    /\ IF choice > 0 THEN GoTo(0, choice - 1)
       ELSE IF scroll > 0 THEN GoTo(-1, 0)
       ELSE Still

\* (Below no values at all the highlight moves on and on, drawing nothing.)
ListDown ==
    /\ ListKey("down")
    /\ items = 0 => choice < MaxEmpty
    /\ IF choice # MaxChoice - 1 THEN GoTo(0, choice + 1)
       ELSE IF scroll + choice < items - 1 THEN GoTo(1, choice)
       ELSE Still

\* Every letter may stand for a value, `h', `s' and `x' included; it goes to
\* the first one in the window.
ListHotKey(k) == ListKey(k) /\ Hits(k) # {} /\ GoTo(0, First(Hits(k)))

ListCommand ==
    \/ Hits("h") = {} /\ Return("list", "h", 1) /\ Choose
    \/ Hits("s") = {} /\ Return("list", "s", button) /\ Choose
    \/ Return("list", "enter", button) /\ Choose

ListEscape ==
    \/ Return("list", "esc", KEY_ESC) /\ Dismiss
    \/ Read("list", "esc") /\ UNCHANGED button /\ Still

ListTurn == Turn("list", 2) /\ Still

ListResize == ListKey("resize") /\ DrawList(items, choice, scroll) /\ UNCHANGED active

ListKeys ==
    \/ ListUp \/ ListDown \/ ListCommand \/ ListEscape \/ ListTurn \/ ListResize
    \/ \E k \in HotKeys : ListHotKey(k)
=============================================================================
