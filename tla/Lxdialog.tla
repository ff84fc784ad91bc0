------------------------------ MODULE Lxdialog ------------------------------
(* The dialog boxes one after the other, as a program calls them.            *)
EXTENDS Menubox, Checklist, Inputbox, Textbox

lxVars == <<dialogVars, listVars, menuVars, inputVars, textVars>>

LxInit == MenuInit /\ InputInit /\ TextInit

\* What a box leaves to its next call: the scroll of a menu, the place in the
\* search results, the text that was typed.  (Bound: another box is opened
\* only when these are gone.)
Kept == <<s_scroll, active, vscroll, instr>>

Fresh == Kept = <<0, NoItem, 0, <<>>>>

Drop ==
    /\ box = "closed" /\ ~ Fresh
    /\ s_scroll' = 0 /\ active' = NoItem /\ vscroll' = 0 /\ top' = 0 /\ instr' = <<>>
    /\ UNCHANGED <<dialogVars, items, height, scroll, choice, rows, selected, first_item,
                   pos, show_x, input_x, field,
                   text, boxh, page, begin_reached, end_reached, page_length, targets>>

LxNext ==
    \/ OpenMenu /\ vscroll = 0 /\ instr = <<>> /\ UNCHANGED <<inputVars, textVars>>
    \/ MenuKeys /\ UNCHANGED <<inputVars, textVars>>
    \/ OpenList /\ Fresh /\ UNCHANGED <<menuVars, inputVars, textVars>>
    \/ ListKeys /\ UNCHANGED <<menuVars, inputVars, textVars>>
    \/ OpenInput /\ Fresh /\ UNCHANGED <<listVars, menuVars, textVars>>
    \/ InputKeys /\ UNCHANGED <<listVars, menuVars, textVars>>
    \/ OpenText /\ s_scroll = 0 /\ active = NoItem /\ instr = <<>>
                /\ UNCHANGED <<listVars, menuVars, inputVars>>
    \/ TextKeys /\ UNCHANGED <<listVars, menuVars, inputVars>>
    \/ OpenYesno /\ Fresh /\ UNCHANGED <<listVars, menuVars, inputVars, textVars>>
    \/ YesnoKeys /\ UNCHANGED <<listVars, menuVars, inputVars, textVars>>
    \/ Drop

LxSpec == LxInit /\ [][LxNext]_lxVars
=============================================================================
