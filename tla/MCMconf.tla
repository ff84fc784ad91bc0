------------------------------- MODULE MCMconf ------------------------------
(* A main menu with a symbol that opens a submenu, a menu with a symbol in   *)
(* it and below that another one, a choice and a number.                     *)
EXTENDS Mconf

CONSTANTS A, B, C, D, I, V1, V2

MCSym == {A, B, C, D, I, V1, V2}

MCEntries == {"root", "a", "m", "b", "d", "c", "v1", "v2", "i"}

MCKids(m) ==
    CASE m = "root" -> <<"a", "m", "c">>
      [] m = "m"    -> <<"b">>
      [] m = "b"    -> <<"d">>
      [] m = "c"    -> <<"v1", "v2">>
      [] m = "v2"   -> <<"i">>
      [] OTHER      -> <<>>

MCSymOf(m) ==
    CASE m = "a" -> A [] m = "b" -> B [] m = "d" -> D [] m = "c" -> C
      [] m = "v1" -> V1 [] m = "v2" -> V2 [] m = "i" -> I [] OTHER -> NoSym

MCKind(m) == IF m \in {"root", "m", "b"} THEN "menu" ELSE "prompt"

MCValues(c) == {V1, V2}

MCDep(s, x) ==
    CASE s = B -> x[A] = 1 /\ x[C] = 1
      [] s = D -> x[A] = 1 /\ x[B] = 1 /\ x[C] = 1
      [] s \in {V1, V2} -> x[C] = 1
      [] s = I -> x[C] = 1 /\ x[V2] = 1
      [] OTHER -> TRUE

MCOpen(m, x) == m # "m" \/ x[C] = 1

MCDefault == [s \in MCSym |-> IF s \in {C, V1} THEN 1 ELSE 0]
=============================================================================
