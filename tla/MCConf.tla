------------------------------- MODULE MCConf -------------------------------
(* conf on a small menu: an option that depends on a later one, a submenu, a *)
(* menu with a choice one of whose values has an option of its own, an       *)
(* optional choice with one value, an int and a select.                      *)
(*                                                                           *)
(*   config D  bool "d" depends on B                                         *)
(*   choice O  bool "o"  optional                                            *)
(*     config A  bool "a"                                                    *)
(*   endchoice                                                               *)
(*   config B  bool "b" depends on A                                         *)
(*   menu "M"                                                                *)
(*     choice C  bool "c"  default V2                                        *)
(*       config V1  bool "v1"                                                *)
(*       config V2  bool "v2" depends on B  select D                         *)
(*       config W   bool "w" depends on V2  default y                        *)
(*     endchoice                                                             *)
(*     config I  int "i"  range 2 3  default 2                               *)
(*   endmenu                                                                 *)
EXTENDS Conf

CONSTANTS A, B, C, D, I, O, V1, V2, W

MCSym == {A, B, C, D, I, O, V1, V2, W}

Plain == [prompt |-> yes, dir |-> yes, rev |-> no, imp |-> no, dflt |-> no,
          lo |-> 0, hi |-> MaxInt, order |-> <<>>]

MCUses(s) == CASE s = A -> {O} [] s = B -> {A} [] s = V1 -> {C} [] s = V2 -> {B, C}
               [] s = W -> {V2, C} [] s = D -> {B, V2} [] OTHER -> {}

Depends(e) == [Plain EXCEPT !.prompt = e, !.dir = e]

MCAttr(s, v) ==
    CASE s = B -> Depends(v[A])
      [] s = C -> [Plain EXCEPT !.rev = mod, !.order = <<V2>>]
      [] s = A -> Depends(v[O])
      [] s = V1 -> Depends(v[C])
      [] s = V2 -> Depends(And3(v[C], v[B]))
      [] s = W -> [Depends(And3(v[C], v[V2])) EXCEPT !.dflt = And3(v[C], v[V2])]
      [] s = D -> [Depends(v[B]) EXCEPT !.rev = v[V2]]
      [] s = I -> [Plain EXCEPT !.lo = 2, !.hi = 3, !.dflt = 2]
      [] OTHER -> Plain

MCMembers(c) == IF c = O THEN <<A>> ELSE <<V1, V2>>

MCEntries == MCSym \cup {"root", "M"}

MCKids(m) == CASE m = "root" -> <<D, O, B, "M">>
               [] m = O -> <<A>>
               [] m = "M" -> <<C, I>>
               [] m = C -> <<V1, V2>>
               [] m = V2 -> <<W>>
               [] OTHER -> <<>>

MCSymOf(m) == IF m \in MCSym THEN m ELSE NoSym

MCKind(m) == IF m \in MCSym THEN "prompt" ELSE "menu"

MCShown(m, v) == TRUE

\* Nameless symbols are looked up last made first.
MCHashOrder == <<C, O>>

File(a, b, v1, v2, d, i) ==
    [s \in MCSym \ {C, O} |->
       CASE s = A -> a [] s = B -> b [] s = V1 -> v1 [] s = V2 -> v2 [] s = D -> d
         [] s = I -> i [] OTHER -> Unset]

\* No file; one from before there were B, D, W and I; one that disagrees with
\* the menu, since B needs A and I is out of its range.
MCFiles == {File(Unset, Unset, Unset, Unset, Unset, Unset),
            File(yes, Unset, yes, no, Unset, Unset),
            File(no, yes, no, yes, no, 1)}

MCSeeds == {File(Unset, no, Unset, Unset, Unset, 3), File(yes, Unset, no, yes, Unset, Unset)}
=============================================================================
