------------------------------ MODULE Textbox -------------------------------
(* dialog_textbox (package/config/lxdialog/textbox.c): pages of a text, and  *)
(* for search results the keys that jump from it (update_text of mconf.c).   *)
(*                                                                           *)
(* `page' points into the text; here it is the number of the line that       *)
(* starts there.  A text that ends with a newline has an empty last line;    *)
(* one that does not has the end of its last line as a place of its own.     *)
EXTENDS Dialog, FiniteSets

CONSTANTS
    Lengths,     \* how many lines a text may have, its last one included
    TextHeights, \* boxh
    JumpAt,      \* the lines that carry a jump key, a set
    JUMP_NB      \* how many keys there are

ASSUME TextAssumption ==
    /\ Lengths \subseteq Nat \ {0} /\ TextHeights \subseteq Nat \ {0}
    /\ JumpAt \subseteq Nat /\ JUMP_NB \in Nat \ {0}

VARIABLES
    text,          \* its lines, whether it ends with a newline, and whether
                   \* it is shown with jump keys
    boxh,          \* the lines of the window
    page,          \* page: the line that get_line reads next
    begin_reached,
    end_reached,
    page_length,
    top,           \* the first line on the screen
    targets,       \* the line that each jump key leads to
    vscroll        \* the line at which the box was left

textVars == <<text, boxh, page, begin_reached, end_reached, page_length, top, targets, vscroll>>

\* No caller shows an empty text; search results end with a newline.
Text ==
    {t \in [lines : Lengths, ended : BOOLEAN, jumps : BOOLEAN] :
        /\ t.lines = 1 => ~ t.ended
        /\ t.jumps => t.ended}

NoText == [lines |-> 1, ended |-> TRUE, jumps |-> FALSE]

\* Where `\0' is.
End(t) == IF t.ended THEN t.lines - 1 ELSE t.lines

\* n lines read from line p by get_line.
After(t, p, n) == [page |-> MinOf(p + n, End(t)), end |-> p + n >= t.lines]

\* Mutant: the end of the text counts as a line to go back over.
BackPlain(t, p, end, n) ==
    [page |-> MaxOf(p - n, 0), begin |-> n > 0 /\ p - n <= 0, end |-> end]

\* back_lines(n) from line p; having read the end once makes up for one line.
Back(t, p, end, n) ==
    LET at == n > 0 /\ p = End(t) /\ end
        k == IF at THEN n - 1 ELSE n
    IN [page |-> MaxOf(p - k, 0), begin |-> k > 0 /\ p - k <= 0, end |-> end /\ ~ at]

\* The keys for the jumps between the lines from and to: their numbers go
\* round, and only the first JUMP_NB of a page get one.
Index(l) == Cardinality({j \in JumpAt : j < l})

KeyOf(l) == (Index(l) % JUMP_NB) + 1

Targets(from, to) ==
    LET shown == {l \in JumpAt : from <= l /\ l < to}
        keyed == {l \in shown : Cardinality({j \in shown : j < l}) < JUMP_NB}
    IN [k \in {KeyOf(l) : l \in keyed} |-> CHOOSE l \in keyed : KeyOf(l) = k]

\* print_page of text t from line p in h lines.  For update_text the page is
\* read and gone back over first, which moves a page that is not full back.
Show(t, p, begin, h) ==
    LET ahead == After(t, p, h)
        back == Back(t, ahead.page, ahead.end, h)
        from == IF t.jumps THEN back.page ELSE p
        till == After(t, from, h)
    IN /\ page' = till.page /\ end_reached' = till.end
       /\ begin_reached' = (IF t.jumps THEN back.begin ELSE begin)
       /\ page_length' = MaxOf(MinOf(h, t.lines - from), 1)
       /\ top' = from
       /\ targets' = (IF t.jumps THEN Targets(from, ahead.page) ELSE <<>>)
       /\ boxh' = h

\* A text without jumps begins at its first line, search results where they
\* were left; the results are made anew, so that their length may differ.
OpenText ==
    /\ OpenBox("text", 0)
    /\ \E t \in Text, h \in TextHeights :
          /\ text' = t
          /\ vscroll' = (IF t.jumps THEN vscroll ELSE 0)
          /\ Show(t, After(t, 0, vscroll').page, vscroll' = 0, h)

TextKey(k) == Read("text", k) /\ UNCHANGED <<button, text, vscroll>>

\* back_lines(n) from line p, and refresh_text_box
GoBack(p, end, n, h) == LET b == Back(text, p, end, n) IN Show(text, b.page, b.begin, h)

TextHome == ~ begin_reached /\ TextKey("home") /\ Show(text, 0, TRUE, boxh)

TextEnd == TextKey("end") /\ GoBack(End(text), TRUE, boxh, boxh)

TextUp == ~ begin_reached /\ TextKey("up") /\ GoBack(page, end_reached, page_length + 1, boxh)

TextPageUp ==
    ~ begin_reached /\ TextKey("ppage") /\ GoBack(page, end_reached, page_length + boxh, boxh)

TextDown == ~ end_reached /\ TextKey("down") /\ GoBack(page, end_reached, page_length - 1, boxh)

TextPageDown == ~ end_reached /\ TextKey("npage") /\ Show(text, page, FALSE, boxh)

\* KEY_LEFT, KEY_RIGHT and `0': "Reprint current page to scroll horizontally".
TextSideways == TextKey("sideways") /\ GoBack(page, end_reached, page_length, boxh)

\* back_lines(height), with the height of the dialog around the window.
TextResize ==
    /\ TextKey("resize")
    /\ \E h \in TextHeights : GoBack(page, end_reached, boxh + 4, h)

\* Only the search results save where they were left.
Leave ==
    /\ vscroll' = (IF text.jumps THEN Back(text, page, end_reached, page_length).page ELSE 0)
    /\ top' = (IF text.jumps THEN top ELSE 0)
    /\ page' = 0 /\ begin_reached' = TRUE /\ end_reached' = FALSE /\ page_length' = 0
    /\ text' = NoText /\ boxh' = 0 /\ targets' = <<>>

\* A jump key is returned as such.
TextDone ==
    /\ \/ Return("text", "enter", 0) \/ Return("text", "esc", KEY_ESC)
       \/ \E k \in DOMAIN targets : Return("text", "jump", k)
    /\ Leave

TextKeys ==
    \/ TextHome \/ TextEnd \/ TextUp \/ TextPageUp \/ TextDown \/ TextPageDown
    \/ TextSideways \/ TextResize \/ TextDone

TextInit ==
    /\ text = NoText /\ boxh = 0
    /\ page = 0 /\ begin_reached = TRUE /\ end_reached = FALSE /\ page_length = 0
    /\ top = 0 /\ targets = <<>> /\ vscroll = 0
-----------------------------------------------------------------------------
\* A key shown on the screen leads to what stands beside it, no two jumps of
\* a page share a key, and without too many of them each has one.
JumpsTrue ==
    LET shown == {l \in JumpAt : top <= l /\ l < MinOf(top + boxh, text.lines - 1)}
    IN box = "text" /\ text.jumps =>
          /\ \A k \in DOMAIN targets : targets[k] \in shown /\ KeyOf(targets[k]) = k
          /\ Cardinality(DOMAIN targets) = MinOf(Cardinality(shown), JUMP_NB)

\* For a text that ends with a newline: keys are refused at the first and at
\* the last line and nowhere else, going back a page's length leads to the
\* page's first line, search results come back where they were left, and
\* their keys lead where the screen says.
PageTrue ==
    /\ box = "text" /\ text.ended =>
          /\ begin_reached = (top = 0)
          /\ end_reached = (top + page_length = text.lines)
          /\ page_length = MinOf(boxh, text.lines - top)
          /\ Back(text, page, end_reached, page_length).page = top
    /\ box = "closed" => vscroll = top
    /\ JumpsTrue
=============================================================================
