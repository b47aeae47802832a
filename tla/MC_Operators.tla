---------------------------- MODULE MC_Operators ----------------------------
EXTENDS Operators

\* Column b: "a" and "a\x00b", one a proper prefix of the other; cut to
\* StringLength = 2 bytes the second is "a\x00" and reads back as "a".
MCStrVals == {<<97>>, <<97, 0, 98>>}

\* Both ends of the 3-bit range and a value in between.
MCIntVals == {MinInt, 1, MaxInt}

MCSelectLists == {<<"b">>, <<"a", "b">>}

\* One key (ties on b), and two keys with b first.
MCOrderLists == {<<"a">>, <<"b", "a">>}

\* Every single target: each name, no qualifier or either alias, each
\* type; and two two-field lists whose targets fail differently.
MCFieldTypes == {FieldType(n, q, t) : n \in {"a", "b"}, q \in {"", "t", "u"},
                                      t \in {"int", "string", "unknown"}}
MCResolveLists == {<<f>> : f \in MCFieldTypes}
                  \cup {<<FieldType("b", "", "unknown"), FieldType("a", "t", "string")>>,
                        <<FieldType("a", "t", "string"), FieldType("b", "", "unknown")>>}

=============================================================================
