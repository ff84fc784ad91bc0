------------------------------ MODULE Inputbox ------------------------------
(* dialog_inputbox (package/config/lxdialog/inputbox.c): a line of text is   *)
(* edited in a field that shows box_width characters of it.                  *)
EXTENDS Dialog, Sequences, SequencesExt

CONSTANTS
    Chars,    \* the characters a user may type
    Blank,    \* an empty cell
    Texts,    \* what the field may begin with
    BoxWidth, \* box_width
    MaxLen    \* MAX_LEN

ASSUME InputAssumption ==
    BoxWidth \in Nat \ {0} /\ MaxLen \in Nat /\ Texts \subseteq Seq(Chars)

\* Every text the field begins with fits the MAX_LEN + 1 bytes of
\* dialog_input_result: it is copied there unchecked, and a longer one is
\* undefined behaviour.
TextsFit == \A text \in Texts : Len(text) <= MaxLen

VARIABLES
    instr,    \* dialog_input_result
    pos,      \* where the next character goes
    show_x,   \* the first character shown
    input_x,  \* the column of the cursor
    field     \* the cells of the field as they are drawn

inputVars == <<instr, pos, show_x, input_x, field>>

len == Len(instr)

Columns == 0 .. (BoxWidth - 1)

Cell(text, i) == IF i \in DOMAIN text THEN text[i] ELSE Blank

\* The whole field is drawn as it is after do_resize.
Put(text) ==
    LET n == Len(text)
        first == IF n >= BoxWidth THEN n - BoxWidth + 1 ELSE 0
    IN /\ instr' = text /\ pos' = n
       /\ show_x' = first /\ input_x' = n - first
       /\ field' = [x \in Columns |-> Cell(text, first + x + 1)]

\* From the first column the text is printed until it ends, and then one
\* blank; the cells behind stay as they are.
Reprint(text, first) ==
    field' = [x \in Columns |->
                IF first + x <= Len(text) THEN Cell(text, first + x + 1) ELSE field[x]]

OpenInput == OpenBox("input", -1) /\ \E text \in Texts : Put(text)

\* A key while the cursor is in the field.
FieldKey(k) == button = -1 /\ Read("input", k) /\ UNCHANGED button

\* A full line only flashes the screen.
Type(c) ==
    /\ FieldKey("char")
    /\ len < MaxLen
    /\ instr' = InsertAt(instr, pos + 1, c)
    /\ pos' = pos + 1
    /\ IF input_x = BoxWidth - 1
       THEN show_x' = show_x + 1 /\ UNCHANGED input_x
       ELSE input_x' = input_x + 1 /\ UNCHANGED show_x
    /\ Reprint(instr', show_x')

\* Mutant: the field does not follow the cursor out of its first column.
BackspaceStay ==
    /\ FieldKey("backspace")
    /\ pos > 0
    /\ instr' = RemoveAt(instr, pos)
    /\ pos' = pos - 1
    /\ input_x' = MaxOf(input_x - 1, 0)
    /\ UNCHANGED show_x
    /\ Reprint(instr', show_x')

Backspace ==
    /\ FieldKey("backspace")
    /\ pos > 0
    /\ instr' = RemoveAt(instr, pos)
    /\ pos' = pos - 1
    /\ IF input_x = 0
       THEN show_x' = show_x - 1 /\ UNCHANGED input_x
       ELSE input_x' = input_x - 1 /\ UNCHANGED show_x
    /\ Reprint(instr', show_x')

FieldLeft ==
    /\ FieldKey("left")
    /\ pos > 0
    /\ pos' = pos - 1
    /\ IF input_x > 0
       THEN input_x' = input_x - 1 /\ UNCHANGED <<show_x, field>>
       ELSE show_x' = show_x - 1 /\ Reprint(instr, show_x - 1) /\ UNCHANGED input_x
    /\ UNCHANGED instr

FieldRight ==
    /\ FieldKey("right")
    /\ pos < len
    /\ pos' = pos + 1
    /\ IF input_x < BoxWidth - 1
       THEN input_x' = input_x + 1 /\ UNCHANGED <<show_x, field>>
       ELSE show_x' = show_x + 1 /\ Reprint(instr, show_x + 1) /\ UNCHANGED input_x
    /\ UNCHANGED instr

\* KEY_UP and KEY_DOWN, and outside of the field KEY_LEFT and KEY_RIGHT: the
\* field (-1), Ok (0) and Help (1) in turn.
InputTurn ==
    /\ \/ /\ Read("input", "up") \/ (button # -1 /\ Read("input", "left"))
          /\ button' = (IF button = -1 THEN 1 ELSE button - 1)
       \/ /\ Read("input", "down") \/ (button # -1 /\ Read("input", "right"))
          /\ button' = (IF button = 1 THEN -1 ELSE button + 1)
    /\ UNCHANGED inputVars

\* The result stays in dialog_input_result; the field is gone.
Gone == pos' = 0 /\ show_x' = 0 /\ input_x' = 0 /\ field' = [x \in Columns |-> Blank]

\* `o' and `h' are characters while the cursor is in the field.
InputDone ==
    /\ \/ Return("input", "enter", IF button = -1 THEN 0 ELSE button)
       \/ button # -1 /\ Return("input", "o", 0)
       \/ button # -1 /\ Return("input", "h", 1)
    /\ Gone /\ UNCHANGED instr

InputEscape ==
    \/ Return("input", "esc", KEY_ESC) /\ Gone /\ UNCHANGED instr
    \/ Read("input", "esc") /\ UNCHANGED <<button, inputVars>>

\* What was typed is kept, the cursor goes to its end.
InputResize == Read("input", "resize") /\ Put(instr) /\ UNCHANGED button

InputKeys ==
    \/ \E c \in Chars : Type(c)
    \/ Backspace \/ FieldLeft \/ FieldRight
    \/ InputTurn \/ InputDone \/ InputEscape \/ InputResize

InputInit ==
    /\ instr = <<>> /\ pos = 0 /\ show_x = 0 /\ input_x = 0
    /\ field = [x \in Columns |-> Blank]
-----------------------------------------------------------------------------
\* The field shows the text around the cursor, and the cursor is where the
\* next character goes: what is drawn piece by piece is what would be drawn
\* from the text, blanks included.
FieldTrue ==
    box = "input" =>
        /\ input_x \in Columns
        /\ pos = show_x + input_x /\ pos <= len /\ len <= MaxLen
        /\ \A x \in Columns : field[x] = Cell(instr, show_x + x + 1)
=============================================================================
