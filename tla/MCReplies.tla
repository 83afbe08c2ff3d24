----------------------------- MODULE MCReplies -----------------------------
(***************************************************************************)
(* The finite instance of Replies: every kind of notice that the tools     *)
(* tell apart, ids over the edges of the range, two groups of lines.       *)
(***************************************************************************)
EXTENDS Replies

On(line, mode) == [line |-> line, mode |-> mode]
Cat(form, group, type, name) == [form |-> form, group |-> group, type |-> type, name |-> name]
Notice(readable, scope, from, upto, categories) ==
    [readable |-> readable, scope |-> scope, from |-> from, upto |-> upto, categories |-> categories]

Lift == Cat("object", "FACILITY", "LIFT", "")
MCEntries == {
    Notice("all", <<On("1", "BUS")>>, 1, 1, <<>>),
    Notice("all", <<On("1", "BUS")>>, 2, 3, <<Cat("object", "TRAFFIC", "", "")>>),
    Notice("all", <<On("1", "SHIP"), On("1", "BUS")>>, 1, 2, <<>>),
    Notice("all", <<On("1", "BUS"), On("1", "BUS")>>, 2, Missing, <<>>),
    Notice("all", <<On("", "BUS"), On("1", "")>>, 1, 3, <<>>),
    Notice("index", <<On("1", "BUS")>>, Garbled, 1, <<>>),
    Notice("none", <<On("1", "BUS")>>, 1, 3, <<>>),
    Notice("all", <<On("1", "BUS")>>, 1, 3, <<Lift>>),
    Notice("all", <<>>, 1, 3, <<Cat("object", "TRAFFIC", "", ""), Cat("object", "FACILITY", "", "")>>),
    Notice("all", <<>>, 1, 3, <<Cat("string", "FACILITY", "ESCALATOR", "")>>),
    Notice("all", <<>>, 1, 3, <<Cat("string", "FACILITY", "", "")>>),
    Notice("all", <<>>, 1, 3, <<Cat("object", "FACILITY", "", "LIFT")>>),
    Notice("all", <<On("1", "SHIP")>>, 1, 3, <<Cat("string", "FACILITY", "", ""), Lift>>)}

MCHeads == {<<3, 0, 0, 1>>, <<3, 9, 9, 9>>}
MCSiteNumbers == (0..1200) \cup (8990..9010) \cup (9690..10200) \cup (90990..91010) \cup {99999}
=============================================================================
