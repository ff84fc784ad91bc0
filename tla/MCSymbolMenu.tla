---------------------------- MODULE MCSymbolMenu ----------------------------
(* A menu of the kinds this tree's Config.in files use: bools, a select, an  *)
(* int with a range, and a symbol that compares it.                          *)
(*                                                                           *)
(*   config A   bool "a"                        select L                     *)
(*   config L   bool "l"                                                     *)
(*   config N   int "n" depends on A            range 1 2, default 1         *)
(*   config D   bool "d" if N = 2               default y                    *)
EXTENDS Symbol

CONSTANTS A, L, N, D

MCSym == {A, L, N, D}

Plain == [prompt |-> yes, dir |-> yes, rev |-> no, imp |-> no, dflt |-> no,
          lo |-> 0, hi |-> MaxInt, order |-> <<>>]

MCUses(s) == CASE s \in {L, N} -> {A}
               [] s = D -> {N}
               [] OTHER -> {}

MCAttr(s, v) ==
    CASE s = L -> [Plain EXCEPT !.rev = v[A]]
      [] s = N -> [Plain EXCEPT !.prompt = v[A], !.dir = v[A], !.dflt = 1, !.lo = 1, !.hi = 2]
      [] s = D -> [Plain EXCEPT !.prompt = IF v[N] = 2 THEN yes ELSE no, !.dflt = yes]
      [] OTHER -> Plain

\* The same with two defaults of N: `default 1 if !A' and `default 2'.
MCAttrTwo(s, v) ==
    IF s = N /\ v[A] # no THEN [MCAttr(s, v) EXCEPT !.dflt = 2] ELSE MCAttr(s, v)

MCMembers(c) == <<>>

File(a, l, n, d) == [s \in MCSym |-> CASE s = A -> a [] s = L -> l [] s = N -> n [] s = D -> d]

\* An empty file, one that conf_write makes, one with a value that the select
\* overrules, one with values of hidden symbols.
MCFiles == {File(Unset, Unset, Unset, Unset), File(yes, yes, 2, no),
            File(yes, no, 1, yes), File(no, Unset, 2, no)}

\* The same, and a file whose int lies outside its range.
MCFilesOutside == MCFiles \cup {File(yes, yes, 3, no)}

\* A file that conf_write makes of the menu with two defaults.
MCFilesKept == {File(no, no, 1, yes)}

\* The menu is of the kind the theorems are about, but for these two.
ASSUME MenuAssumption ==
    /\ Files = MCFiles => BoolMenu
    /\ IntsUnselected
    /\ \E rank \in [MCSym -> 0 .. 3] : Acyclic(rank)
=============================================================================
