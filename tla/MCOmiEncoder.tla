---------------------------- MODULE MCOmiEncoder ----------------------------
(* Inputs for OmiEncoder.  Each .cfg picks its class names, element names, *)
(* types, values and embedded instances from the definitions below.        *)
EXTENDS OmiEncoder

\* Provider strings over every character string_to_json treats specially,
\* a plain one, and the empty string.
MCNames == {<<"a">>, <<"a", "\\">>}
MCPlainClasses == {<<"a">>}
MCQuoteClasses == {<<"a", "\"">>}
MCStrings == {<<>>, <<"\"", "/">>, <<"\\", "NL">>, <<"a", "TAB", "CR">>,
              <<"BS", "FF">>}
MCControlStrings == {<<"CTL">>}

\* A timestamp (the spec's example) and an interval with a negative field.
MCTimestamp == [isTimestamp |-> TRUE,
                f |-> [year |-> 2015, month |-> 8, day |-> 19, hour |-> 10,
                       minute |-> 57, second |-> 14, microseconds |-> 0,
                       utc |-> -300]]
MCInterval == [isTimestamp |-> FALSE,
               f |-> [days |-> 1, hours |-> 0, minutes |-> 1, seconds |-> 30,
                      microseconds |-> 0]]

\* An embedded instance with one string element, and one that refers to
\* itself.
MCLeaf == [class |-> <<"a">>, ok |-> TRUE,
           elems |-> <<[name |-> <<"a">>, ok |-> TRUE, null |-> FALSE,
                        type |-> "STRING", value |-> <<"a">>]>>]
MCWorld == [n1 |-> MCLeaf]
MCCycle == [n1 |-> [class |-> <<"a">>, ok |-> TRUE,
                    elems |-> <<[name |-> <<"a">>, ok |-> TRUE, null |-> FALSE,
                                 type |-> "REFERENCE", value |-> "n1"]>>]]

MCValues(strings, reals, dt) ==
    ("BOOLEAN" :> {FALSE, TRUE}) @@ ("UINT8" :> {0, 255})
    @@ ("SINT32" :> {-2147483647, 7}) @@ ("REAL64" :> reals)
    @@ ("STRING" :> strings) @@ ("DATETIME" :> dt)
    @@ ("INSTANCE" :> {"n1"}) @@ ("REFERENCE" :> {"n1"})

\* The values the code encodes faithfully.
MCGoodValues == MCValues(MCStrings, {0, -25, 999999}, {MCTimestamp})
MCGoodTypes == {"BOOLEAN", "UINT8", "SINT32", "REAL64", "STRING", "DATETIME",
                "STRINGA", "SINT32A"}

MCIntervalValues == MCValues(MCStrings, {0}, {MCInterval})
MCControlValues == MCValues(MCControlStrings, {0}, {MCTimestamp})
MCRealValues == MCValues(MCStrings, {1234567}, {MCTimestamp})
=============================================================================
