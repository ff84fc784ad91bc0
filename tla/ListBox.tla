------------------------------ MODULE ListBox -------------------------------
(* The list in a menu box or a checklist: a window onto the items, redrawn   *)
(* line by line as it scrolls and as the highlight moves.  Keys act on item  *)
(* scroll + choice; the user sees `rows'.                                    *)
EXTENDS Dialog

CONSTANTS
    Letter(_), \* the key that stands for an item
    HotKeys    \* the keys that may stand for items

VARIABLES
    items,   \* item_count()
    height,  \* the lines of the window
    scroll,  \* the item on its first line
    choice,  \* the line that is highlighted
    rows,    \* what is drawn
    active   \* the item that the last box has marked as selected

listVars == <<items, height, scroll, choice, rows, active>>

NoItem == -1

MaxChoice == MinOf(height, items)

Rows == 0 .. (MaxChoice - 1)

Line(i, lit) == [item |-> i, lit |-> lit]

\* Mutant: the line that was highlighted is not printed again.
ScrolledLit(k) ==
    [r \in Rows |-> IF r + k \in Rows THEN rows[r + k] ELSE Line(scroll + k + r, FALSE)]

\* The window after the highlighted line was printed plainly and the window
\* was scrolled by k lines, the new ones printed.
Scrolled(k) ==
    LET plain == [rows EXCEPT ![choice] = Line(scroll + choice, FALSE)]
    IN [r \in Rows |-> IF r + k \in Rows THEN plain[r + k] ELSE Line(scroll + k + r, FALSE)]

\* Scroll by k lines and highlight line c.
GoTo(k, c) ==
    /\ scroll' = scroll + k
    /\ choice' = c
    /\ rows' = [Scrolled(k) EXCEPT ![c] = Line(scroll + k + c, TRUE)]
    /\ UNCHANGED <<items, height, active>>

\* The lines whose item answers to key k.
Hits(k) == {r \in Rows : Letter(scroll + r) = k}

First(s) == CHOOSE r \in s : \A q \in s : r <= q

Forget == items' = 0 /\ height' = 0 /\ scroll' = 0 /\ choice' = 0 /\ rows' = <<>>

\* item_set(scroll + choice), item_set_selected(1)
Choose == active' = (IF items = 0 THEN NoItem ELSE scroll + choice) /\ Forget

Dismiss == active' = NoItem /\ Forget
-----------------------------------------------------------------------------
ASSUME HotKeyAssumption ==
    HotKeys \cap {"up", "down", "ppage", "npage", "resize"} = {}

\* The item that the keys act on.
Item == IF items = 0 THEN NoItem ELSE scroll + choice

\* The user sees what the keys act on: every line shows the item of the list
\* that belongs there, and the highlight is on the item that Enter takes,
\* through scrolling, jumping and redrawing in another size.
OnScreen ==
    box \in {"menu", "list"} =>
        /\ items > 0 => choice \in Rows
        /\ DOMAIN rows = Rows
        /\ \A r \in Rows : rows[r] = Line(scroll + r, r = choice) /\ rows[r].item < items

\* What a list promises: see there.
Sel == INSTANCE Selector WITH count <- items, page <- MaxChoice, item <- Item,
                              key <- IF items = 0 THEN "none" ELSE key

\* A menu and a checklist are selectors: every key moves the current item as
\* it says, however the window scrolls to show it.
Selects == Sel!Spec
=============================================================================
