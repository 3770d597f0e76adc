--------------------------- MODULE MCKconfigSymbol ---------------------------
(* Databases for KconfigSymbol, each a Kconfig tree of a few lines. *)
EXTENDS KconfigSymbol

S(s) == <<"sym", s>>
(* A database from the symbols that differ from a plain hidden bool. *)
Base(order, prompts, defaults, rev, type, members, range, optional, files, shown) ==
    LET Of(f, other) == [s \in {order[i] : i \in DOMAIN order} |->
                            IF s \in DOMAIN f THEN f[s] ELSE other]
    IN [order |-> order, type |-> Of(type, "bool"), prompts |-> Of(prompts, << >>),
        defaults |-> Of(defaults, << >>), dir |-> Of(<< >>, None), rev |-> Of(rev, None),
        members |-> Of(members, << >>), range |-> Of(range, << >>),
        optional |-> optional, modules |-> order[1], files |-> files, shown |-> shown]
Nothing == [s \in {} |-> None]

(* Booleans without modules: B depends on A, C selects B, H follows C. *)
Selects == Base(<<"M", "A", "B", "C", "H">>,
    [A |-> <<None>>, B |-> <<S("A")>>, C |-> <<None>>],
    [H |-> << <<S("C"), None>> >>], [B |-> S("C")], Nothing, Nothing, Nothing, {},
    { << <<"B", no>>, <<"C", yes>>, <<"H", no>> >> }, {"B", "H"})

(* Tristates: T, U under T and selected by V, W with a default beyond its prompt. *)
Tristates == Base(<<"M", "T", "U", "V">>,
    [M |-> <<None>>, T |-> <<None>>, U |-> <<S("T")>>, V |-> <<None>>],
    [T |-> << <<S("y"), <<"eq", "M", "y">> >> >>], [U |-> S("V")],
    [T |-> "tri", U |-> "tri", V |-> "tri"], Nothing, Nothing, {}, {}, {"T", "U"})

(* A choice, its last value only with P, and before it a number under one value. *)
BoolChoice == Base(<<"M", "N", "P", "CH", "X", "Y", "Z">>,
    [P |-> <<None>>, CH |-> <<None>>, X |-> <<S("CH")>>, Y |-> <<S("CH")>>,
     Z |-> << <<"and", S("CH"), S("P")>> >>, N |-> <<S("X")>>],
    [CH |-> << <<S("Z"), None>> >>, N |-> << << <<"num", 5>>, None>> >>],
    [CH |-> S("m")], [N |-> "int"], [CH |-> <<"X", "Y", "Z">>], [N |-> <<1, 3>>], {},
    { << <<"X", yes>>, <<"Y", yes>>, <<"N", <<7>> >> >> }, {"X", "N"})

(* A choice of tristates. *)
TriChoice == Base(<<"M", "CH", "X", "Y">>,
    [M |-> <<None>>, CH |-> <<None>>, X |-> <<S("CH")>>, Y |-> <<S("CH")>>],
    Nothing, [CH |-> S("m")], [CH |-> "tri", X |-> "tri", Y |-> "tri"],
    [CH |-> <<"X", "Y">>], Nothing, {}, { << <<"M", yes>>, <<"X", yes>>, <<"Y", mod>> >> }, {"CH", "X"})

(* A choice under a value of another one. *)
Nested == Base(<<"M", "C1", "X", "Y", "C2", "Z", "W">>,
    [C1 |-> <<None>>, X |-> <<S("C1")>>, Y |-> <<S("C1")>>,
     C2 |-> <<S("X")>>, Z |-> <<S("C2")>>, W |-> <<S("C2")>>],
    Nothing, [C1 |-> S("m"), C2 |-> <<"and", S("X"), S("m")>>], Nothing,
    [C1 |-> <<"X", "Y">>, C2 |-> <<"Z", "W">>], Nothing, {}, {}, {"X", "Z"})

DBs == {Selects, Tristates, BoolChoice, TriChoice, Nested}
=============================================================================
