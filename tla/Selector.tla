------------------------------ MODULE Selector ------------------------------
(* What a list of items promises its user: there is one current item, and    *)
(* every key moves it the way the key says, whatever part of the list the    *)
(* window happens to show.                                                   *)
EXTENDS Integers

CONSTANTS
    Letter(_), \* the key that stands for an item
    HotKeys

VARIABLES
    count, \* how many items there are, 0 when no list is shown
    page,  \* how far the page keys go
    item,  \* the current item, -1 when there is none
    key    \* the last key

vars == <<count, page, item, key>>

Init == count = 0 /\ page = 0 /\ item = -1 /\ key = "none"

Items == 0 .. (count - 1)

AtLeast(a, b) == IF a < b THEN b ELSE a
AtMost(a, b) == IF a > b THEN b ELSE a

\* Where a key goes.  A letter that is on none of the items shown may do
\* something else, but never goes to an item with another letter.
Reached(k) ==
    CASE item = -1     -> {-1}
      [] k = "up"      -> {AtLeast(item - 1, 0)}
      [] k = "down"    -> {AtMost(item + 1, count - 1)}
      [] k = "ppage"   -> {AtLeast(item - page, 0)}
      [] k = "npage"   -> {AtMost(item + page, count - 1)}
      [] k \in HotKeys -> {item} \cup {i \in Items : Letter(i) = k}
      [] OTHER         -> {item}

Press == key' # "resize" /\ item' \in Reached(key') /\ UNCHANGED <<count, page>>

\* Shown in another size, the list may have another current item.
Redraw ==
    /\ key' = "resize" /\ count' = count
    /\ page' \in 0 .. count /\ item' \in {-1} \cup Items
    /\ (item' = -1) = (count = 0)

Show ==
    /\ count = 0 /\ key' = "none"
    /\ count' \in Nat /\ page' \in 0 .. count'
    /\ item' \in {-1} \cup 0 .. (count' - 1)
    /\ item' = -1 <=> count' = 0

Close == count' = 0 /\ page' = 0 /\ item' = -1

Next == Press \/ Redraw \/ Show \/ Close

Spec == Init /\ [][Next]_vars
=============================================================================
