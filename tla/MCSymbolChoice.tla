--------------------------- MODULE MCSymbolChoice ---------------------------
(* Choices, as this tree's Config.in files use them: bool and not optional.  *)
(*                                                                           *)
(*   config A   bool "a"                                                     *)
(*   choice C   bool "c"   default V2                                        *)
(*     config V1  bool "v1"                                                  *)
(*     config V2  bool "v2" depends on A                                     *)
(*   endchoice                                                               *)
(*   config E   bool  default y if V2                                        *)
EXTENDS Symbol

CONSTANTS A, C, V1, V2, E

MCSym == {A, C, V1, V2, E}

Plain == [prompt |-> yes, dir |-> yes, rev |-> no, imp |-> no, dflt |-> no,
          lo |-> 0, hi |-> MaxInt, order |-> <<>>]

MCUses(s) == CASE s = V1 -> {C}
               [] s = V2 -> {A, C}
               [] s = E -> {V2}
               [] OTHER -> {}

\* menu_finalize gives a choice that is not optional a select of
\* `visibility && m', and its values the choice as a dependency.
MCAttr(s, v) ==
    CASE s = C -> [Plain EXCEPT !.rev = IF C \in Optional THEN no ELSE mod,
                                !.order = <<V2>>]
      [] s = V1 -> [Plain EXCEPT !.prompt = v[C]]
      [] s = V2 -> [Plain EXCEPT !.prompt = And3(v[C], v[A])]
      [] s = E -> [Plain EXCEPT !.prompt = no, !.dflt = v[V2]]
      [] OTHER -> Plain

MCMembers(c) == <<V1, V2>>

File(a, v1, v2) ==
    [s \in MCSym \ {C} |->
       CASE s = A -> a [] s = V1 -> v1 [] s = V2 -> v2 [] s = E -> Unset]

\* An empty file, one from before V2 could be seen, one that chooses both of
\* them.
MCFiles == {File(Unset, Unset, Unset), File(no, yes, Unset),
            File(yes, yes, yes)}

\* The menu is of the kind the theorems are about.
ASSUME MenuAssumption == BoolMenu /\ \E rank \in [MCSym -> 0 .. 4] : Acyclic(rank)
=============================================================================
