----------------------------- MODULE MCConfLoop -----------------------------
(* A choice with an option that menu_finalize puts below one of the values   *)
(* although it can be seen with either.                                      *)
(*                                                                           *)
(*   choice C  bool "c"                                                      *)
(*     config V1  bool "v1"                                                  *)
(*     config W   bool "w" depends on V1 || V2                               *)
(*     config V2  bool "v2"                                                  *)
(*   endchoice                                                               *)
EXTENDS Conf

CONSTANTS C, V1, V2, W

MCSym == {C, V1, V2, W}

Plain == [prompt |-> yes, dir |-> yes, rev |-> no, imp |-> no, dflt |-> no,
          lo |-> 0, hi |-> MaxInt, order |-> <<>>]

MCMembers(c) == <<V1, V2>>

MCUses(s) == CASE s = C -> {} [] s = W -> {C, V1, V2} [] OTHER -> {C}

Depends(e) == [Plain EXCEPT !.prompt = e, !.dir = e]

MCAttr(s, v) ==
    CASE s = C -> [Plain EXCEPT !.rev = mod]
      [] s = W -> Depends(And3(v[C], Or3(v[V1], v[V2])))
      [] OTHER -> Depends(v[C])

MCKids(m) == CASE m = "root" -> <<C>> [] m = C -> <<V1, V2>> [] m = V1 -> <<W>> [] OTHER -> <<>>

MCEntries == MCSym \cup {"root"}

MCSymOf(m) == IF m = "root" THEN NoSym ELSE m

MCKind(m) == IF m = "root" THEN "menu" ELSE "prompt"

MCShown(m, v) == TRUE

MCHashOrder == <<C>>

\* A file from before there was W.
MCFiles == {[s \in MCSym \ {C} |-> IF s = V2 THEN yes ELSE IF s = V1 THEN no ELSE Unset]}

\* ConfSpec, with its fairness as the weak fairness that Fair stands for.
LoopSpec == ConfInit /\ [][ConfNext]_allVars /\ WF_allVars(Step \/ Ask)
=============================================================================
