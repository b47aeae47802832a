---------------------------- MODULE MC_CsvLoader ----------------------------
EXTENDS FieldSum

\* The table (a int, b string).
MCDesc == <<FieldType("a", "", "int"), FieldType("b", "", "string")>>

\* The two tuples the lines below parse to: (1, "xy") and (-2, "x").
T1 == <<IntField(1), StringField(<<120, 121>>)>>
T2 == <<IntField(-2), StringField(<<120>>)>>

MCVals == {T1, T2}

\* INSERT INTO t VALUES T1, T2, T1
MCSrc == <<T1, T2, T1>>

\* Lines and the meaning spec.md 6 gives each as a data line.
LH == <<97, 44, 98>>                        \* "a,b": "a" is no number
L1 == <<32, 49, 46, 57, 44, 120, 121, 122>>  \* " 1.9,xyz" -> T1
L2 == <<45, 50, 46, 53, 44, 120>>            \* "-2.5,x"   -> T2
L3 == <<49>>                                 \* "1": one field
L4 == <<120, 44, 49>>                        \* "x,1": "x" is no number
L5 == L2 \o <<44>>                           \* "-2.5,x,"  -> T2 without its last field

Row(t) == [kind |-> "row", row |-> t]
Bad(e) == [kind |-> e, row |-> <<>>]
File(h, s, ls, ms) == [hasHeader |-> h, skipLastField |-> s, lines |-> ls, meanings |-> ms]

MCFiles ==
  { File(TRUE,  FALSE, <<LH, L1, L2>>, <<Bad("TypeMismatch"), Row(T1), Row(T2)>>),
    File(TRUE,  FALSE, <<LH, L1, L4>>, <<Bad("TypeMismatch"), Row(T1), Bad("TypeMismatch")>>),
    File(FALSE, FALSE, <<L2, L4>>,     <<Row(T2), Bad("TypeMismatch")>>),
    File(TRUE,  FALSE, <<LH, L3>>,     <<Bad("TypeMismatch"), Bad("MalformedData")>>),
    File(FALSE, FALSE, <<LH>>,         <<Bad("TypeMismatch")>>),
    File(FALSE, TRUE,  <<L5>>,         <<Row(T2)>>) }

=============================================================================
