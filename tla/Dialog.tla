------------------------------- MODULE Dialog -------------------------------
(* What the dialog boxes of lxdialog have in common: a function draws its    *)
(* box, reads keys until one ends it and returns a number.  One box is open  *)
(* at a time.  dialog_yesno is here, too: it has nothing but its buttons.    *)
EXTENDS Integers

VARIABLES
    box,     \* the box that is open, or "closed"
    key,     \* the last key it has read
    button,  \* the button that Enter presses
    result   \* what the last box returned

dialogVars == <<box, key, button, result>>

KEY_ESC == 27

MinOf(a, b) == IF a < b THEN a ELSE b
MaxOf(a, b) == IF a > b THEN a ELSE b

OpenBox(b, default) ==
    /\ box = "closed" /\ box' = b
    /\ key' = "none" /\ button' = default /\ result' = -1

\* A key that leaves the box open.
Read(b, k) == box = b /\ key' = k /\ UNCHANGED <<box, result>>

Return(b, k, r) ==
    /\ box = b /\ box' = "closed"
    /\ key' = k /\ button' = 0 /\ result' = r

\* KEY_LEFT, TAB and KEY_RIGHT go round the n buttons.
Turn(b, n) ==
    \/ Read(b, "left") /\ button' = (button + n - 1) % n
    \/ Read(b, "right") /\ button' = (button + 1) % n

\* on_key_esc: a second ESC right after the first ends the box; a lone one,
\* or an escape sequence, leaves it open.
Escape(b) == Return(b, "esc", KEY_ESC) \/ (Read(b, "esc") /\ UNCHANGED button)
-----------------------------------------------------------------------------
OpenYesno == OpenBox("yesno", 0)

YesnoKeys ==
    \/ Turn("yesno", 2) \/ Escape("yesno")
    \/ Return("yesno", "y", 0) \/ Return("yesno", "n", 1)
    \/ Return("yesno", "enter", button)
    \/ Read("yesno", "resize") /\ UNCHANGED button
=============================================================================
