------------------------------- MODULE MCMenu -------------------------------
(* Small Kconfig files over the bools A, B and C and a choice.  A file is    *)
(* written in one of several languages, each with a bound on its entries and *)
(* options: the free ones would be too many for every file to be looked at.  *)
EXTENDS Menu

MCType(s) == IF s \in {"A", "B", "C", "Ch"} THEN "bool" ELSE "unknown"

MCOrder == <<"A", "B", "C">>

A == SymE("A")
B == SymE("B")

Lang(statements, entries, prompts, conds, visible, options, kinds, args, twice) ==
    [statements |-> statements, entries |-> entries, prompts |-> prompts, conds |-> conds,
     visible |-> visible, options |-> options, kinds |-> kinds, args |-> args, twice |-> twice]

MCLanguages ==
    { \* submenus: ifs, entries without a prompt, conditions that mention A
      Lang({"config", "if"}, 4, {NoPrompt, Null}, {A, Two("or", A, B)}, {}, 1, {}, {}, {}),
      Lang({"config"}, 3, {NoPrompt, Null, B},
           {A, Two("or", A, B), Two("and", Two("or", A, B), NotE(B))}, {}, 2, {}, {}, {}),
      \* menus with `visible if', comments
      Lang({"config", "menu", "comment"}, 4, {Null}, {A}, {Null, B}, 1, {}, {}, {}),
      \* a choice
      Lang({"config", "choice", "if"}, 4, {NoPrompt, Null}, {A}, {}, 1, {}, {}, {}),
      \* selects, implies and defaults
      Lang({"config", "choice"}, 3, {NoPrompt, Null}, {A, B}, {}, 2,
           {"select", "imply", "default"}, {A, B}, {"A"}) }
=============================================================================
