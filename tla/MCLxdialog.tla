----------------------------- MODULE MCLxdialog -----------------------------
(* Menus of up to six items in windows of three and four lines, a checklist  *)
(* of five in three, a field of two characters and texts of up to eight      *)
(* lines in windows of one to four.  Two items share the letter `a', one has *)
(* `s', which is a command as well.                                          *)
EXTENDS Lxdialog

MCTexts == {<<>>, <<"p">>, <<"p", "q", "q">>}

MCLetter(i) == <<"a", "s", "b", "a", "c", "b">>[i + 1]
=============================================================================
