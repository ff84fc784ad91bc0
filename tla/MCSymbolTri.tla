---------------------------- MODULE MCSymbolTri -----------------------------
(* What the engine keeps from the Linux build: modules, tristates, implies   *)
(* and choices that may be left empty or take several values.                *)
(*                                                                           *)
(*   config M  bool "m"      option modules                                  *)
(*   config T  tristate "t"                      imply U                     *)
(*   config U  tristate "u"  if T (prompt only)  default y                   *)
(*   choice C  tristate "c"  optional                                        *)
(*     config V  tristate "v"                                                *)
(*     config W  tristate "w" depends on T                                   *)
(*   endchoice                                                               *)
EXTENDS Symbol

CONSTANTS M, T, U, C, V, W

MCSymImply  == {M, T, U}
MCSymChoice == {M, T, C, V, W}

Plain == [prompt |-> yes, dir |-> yes, rev |-> no, imp |-> no, dflt |-> no,
          lo |-> 0, hi |-> MaxInt, order |-> <<>>]

MCUses(s) == CASE s = U -> {T}
               [] s = V -> {C}
               [] s = W -> {C, T}
               [] OTHER -> {}

MCAttr(s, v) ==
    CASE s = U -> [Plain EXCEPT !.prompt = v[T], !.imp = v[T], !.dflt = v[T]]
      [] s = V -> [Plain EXCEPT !.prompt = v[C]]
      [] s = W -> [Plain EXCEPT !.prompt = And3(v[C], v[T])]
      [] OTHER -> Plain

MCMembers(c) == <<V, W>>

\* An empty file and one that conf_write makes.
MCFiles == {[s \in Named |-> Unset],
            [s \in Named |-> IF s = M THEN yes ELSE IF s = W THEN Unset ELSE mod]}

\* The menu is of the kind the theorem about bounds is about.
ASSUME MenuAssumption == DefaultsSeen
=============================================================================
