----------------------------- MODULE OmiEncoder -----------------------------
(***************************************************************************)
(* The JSON encoder of omi_interface.cpp: char_to_json, string_to_json,    *)
(* array_to_json, the operator<< for MI_Timestamp and MI_Interval,         *)
(* value_to_json and instance_to_json, as operators from an MI instance   *)
(* to the sequence of characters the functions write to the stream.        *)
(*                                                                         *)
(* Data abstraction.  A character of the output is a token: the JSON       *)
(* punctuation { } [ ] , : and the quote "\"", the backslash "\\", digits, *)
(* "-" "." "e" "+", the letters that follow a backslash in an escape, and  *)
(* characters of provider strings: "a" (any character JSON takes as it     *)
(* is), "\"", "\\", "/", and the control characters "BS" "FF" "NL" "CR"    *)
(* "TAB" and "CTL" (a control character without a short escape, such as   *)
(* U+0001).  The constant key names (ClassName, MI_Type, year, ...) and    *)
(* the words true and false are each one token, of plain characters.       *)
(* Real values are the integral ones, below 2^53 so that a double holds    *)
(* them exactly.                                                           *)
(*                                                                         *)
(* The encoder recurses through embedded and referenced instances; the    *)
(* provider's instances are the function World from instance ids to       *)
(* instance records.  The recursion carries a depth; a depth of zero       *)
(* stands for the exhausted stack and writes the token "OVERFLOW".         *)
(*                                                                         *)
(* This module is for TLC only: its operators are RECURSIVE.              *)
(***************************************************************************)
EXTENDS Integers, Sequences, SequencesExt

CONSTANTS
    ClassNames,    \* class names of instances, as sequences of characters
    ElemNames,     \* element names, as sequences of characters
    Types,         \* the MI_Type tags of elements that inputs use
    BaseValues,    \* BaseValues[t]: the values of scalar type t inputs use
    World,         \* embedded and referenced instances, by id
    MaxElems,      \* bound on the elements of an instance
    MaxArray,      \* bound on the length of an array value
    MaxDepth       \* the depth of recursion the stack allows

\* The array types and the scalar type of their elements (type & ~MI_ARRAY).
ArrayBase == [BOOLEANA |-> "BOOLEAN", UINT8A |-> "UINT8", SINT32A |-> "SINT32",
              REAL64A |-> "REAL64", STRINGA |-> "STRING",
              DATETIMEA |-> "DATETIME", INSTANCEA |-> "INSTANCE",
              REFERENCEA |-> "REFERENCE"]
IsArray(t) == t \in DOMAIN ArrayBase

\* The integer types, all written by operator<< of a decimal integer
\* (MI_UINT8 and MI_SINT8 after a cast to int).
IntTypes == {"UINT8", "SINT8", "UINT16", "SINT16", "UINT32", "SINT32",
             "UINT64", "SINT64", "CHAR16"}

\* The fields of MI_Timestamp and MI_Interval in the order they are written.
TimestampKeys == <<"year", "month", "day", "hour", "minute", "second",
                   "microseconds", "utc">>
IntervalKeys == <<"days", "hours", "minutes", "seconds", "microseconds">>

\* char_to_json: the escape sequence of a character, for the eight
\* characters it replaces; every other character is written as it is.
Escape == [c \in {"\"", "\\", "/", "BS", "FF", "NL", "CR", "TAB"} |->
              <<"\\", CASE c = "\"" -> "\""  [] c = "\\" -> "\\"
                        [] c = "/"  -> "/"   [] c = "BS" -> "b"
                        [] c = "FF" -> "f"   [] c = "NL" -> "n"
                        [] c = "CR" -> "r"   [] c = "TAB" -> "t">>]

\* string_to_json: every character, replaced by its escape if it has one.
StringToJson(s) ==
    FlattenSeq([k \in DOMAIN s |->
                  IF s[k] \in DOMAIN Escape THEN Escape[s[k]] ELSE <<s[k]>>])

Digit == [d \in 0..9 |-> CASE d = 0 -> "0" [] d = 1 -> "1" [] d = 2 -> "2"
                           [] d = 3 -> "3" [] d = 4 -> "4" [] d = 5 -> "5"
                           [] d = 6 -> "6" [] d = 7 -> "7" [] d = 8 -> "8"
                           [] d = 9 -> "9"]

\* The decimal digits of a natural number, most significant first.
RECURSIVE Digits(_)
Digits(n) == IF n < 10 THEN <<Digit[n]>>
                       ELSE Digits(n \div 10) \o <<Digit[n % 10]>>

\* operator<< of an integer: an optional minus sign and the digits.
Decimal(n) == IF n < 0 THEN <<"-">> \o Digits(-n) ELSE Digits(n)

\* n / q rounded to nearest, ties to even (the rounding of printf).
RoundDiv(n, q) ==
    LET r == n \div q
        m == n % q
    IN  IF 2 * m > q \/ (2 * m = q /\ r % 2 = 1) THEN r + 1 ELSE r

\* operator<< of an integral double with the stream's default format
\* (%g, precision 6): below 10^6 the integer itself, otherwise six
\* significant digits, trailing zeros dropped, and an exponent e+XX.
RealToJson(x) ==
    LET a    == IF x < 0 THEN -x ELSE x
        sign == IF x < 0 THEN <<"-">> ELSE <<>>
        e0   == Len(Digits(a)) - 1
        m0   == IF e0 >= 6 THEN RoundDiv(a, 10 ^ (e0 - 5)) ELSE 0
        m    == IF m0 = 10 ^ 6 THEN 10 ^ 5 ELSE m0
        e    == IF m0 = 10 ^ 6 THEN e0 + 1 ELSE e0
        ds   == Digits(m)
        keep == CHOOSE k \in 1..6 : /\ \A j \in k + 1..6 : ds[j] = "0"
                                    /\ (k = 1 \/ ds[k] # "0")
        frac == IF keep = 1 THEN <<>> ELSE <<".">> \o SubSeq(ds, 2, keep)
        ex   == IF e < 10 THEN <<"0">> \o Digits(e) ELSE Digits(e)
    IN  IF a < 10 ^ 6 THEN Decimal(x)
        ELSE sign \o <<ds[1]>> \o frac \o <<"e", "+">> \o ex

\* A quoted constant key or word.
Quoted(w) == <<"\"", w, "\"">>

\* The operator<< of MI_Timestamp and of MI_Interval: a dictionary that
\* starts with the MI_Type key, then each field as a quoted key and a
\* quoted decimal value, each followed by a separator except the last,
\* which is followed by `last`.
DateTimeJson(miType, keys, d, last) ==
    <<"{">> \o Quoted("MI_Type") \o <<":">> \o Quoted(miType) \o <<",">>
    \o FlattenSeq([k \in DOMAIN keys |->
                     Quoted(keys[k]) \o <<":", "\"">> \o Decimal(d[keys[k]])
                     \o <<"\"", IF k < Len(keys) THEN "," ELSE last>>])

TimestampJson(d) == DateTimeJson("MI_Timestamp", TimestampKeys, d, "}")

\* The interval form ends its last field with JSON_SEPARATOR, as line 250
\* writes, and never writes JSON_DICT_END.
IntervalJson(d) == DateTimeJson("MI_Interval", IntervalKeys, d, ",")

RECURSIVE ValueToJson(_, _, _), ArrayToJson(_, _, _), InstanceToJson(_, _)

\* Mutant of ArrayToJson: the separator is written before every element
\* (the test 0 != i dropped).
ArrayToJsonSepAlways(a, t, depth) ==
    FlattenSeq([k \in DOMAIN a |-> <<",">> \o ValueToJson(a[k], t, depth)])

\* array_to_json: the elements, encoded as values of the element type,
\* with a separator before every element but the first.
ArrayToJson(a, t, depth) ==
    FlattenSeq([k \in DOMAIN a |->
                  (IF k # 1 THEN <<",">> ELSE <<>>) \o ValueToJson(a[k], t, depth)])

\* value_to_json: a list for an array type, the value between string quotes
\* for every other type but MI_DATETIME, whose dictionary is written bare.
\* An embedded or referenced instance is written by instance_to_json, one
\* level deeper in the stack, inside those quotes.
ValueToJson(v, t, depth) ==
    LET open  == IF IsArray(t) THEN <<"[">>
                 ELSE IF t # "DATETIME" THEN <<"\"">> ELSE <<>>
        close == IF IsArray(t) THEN <<"]">>
                 ELSE IF t # "DATETIME" THEN <<"\"">> ELSE <<>>
        body  == CASE t = "BOOLEAN" -> <<IF v THEN "true" ELSE "false">>
                   [] t \in IntTypes -> Decimal(v)
                   [] t = "REAL64" -> RealToJson(v)
                   [] t = "DATETIME" -> IF v.isTimestamp THEN TimestampJson(v.f)
                                                        ELSE IntervalJson(v.f)
                   [] t = "STRING" -> StringToJson(v)
                   [] t \in {"INSTANCE", "REFERENCE"} ->
                          InstanceToJson(World[v], depth - 1)
                   [] IsArray(t) -> ArrayToJson(v, ArrayBase[t], depth)
    IN  open \o body \o close

\* The JSON text of one element of an instance: separator, escaped name,
\* pair token, value.
ElementJson(e, depth) ==
    <<",", "\"">> \o StringToJson(e.name) \o <<"\"", ":">>
    \o ValueToJson(e.value, e.type, depth)

\* Mutant of InstanceToJson: elements flagged MI_FLAG_NULL are written too.
InstanceToJsonKeepNull(inst, depth) ==
    IF depth = 0 THEN <<"OVERFLOW">>
    ELSE IF ~inst.ok THEN <<>>
    ELSE <<"{">> \o Quoted("ClassName") \o <<":", "\"">> \o inst.class \o <<"\"">>
         \o FlattenSeq([k \in DOMAIN inst.elems |->
                          IF inst.elems[k].ok
                          THEN ElementJson(inst.elems[k], depth) ELSE <<>>])
         \o <<"}">>

\* instance_to_json: nothing if the class name or the element count cannot
\* be read; otherwise a dictionary of the class name, written without
\* string_to_json, then every element that MI_Instance_GetElementAt returns
\* and that is not flagged MI_FLAG_NULL.
InstanceToJson(inst, depth) ==
    IF depth = 0 THEN <<"OVERFLOW">>
    ELSE IF ~inst.ok THEN <<>>
    ELSE <<"{">> \o Quoted("ClassName") \o <<":", "\"">> \o inst.class \o <<"\"">>
         \o FlattenSeq([k \in DOMAIN inst.elems |->
                          IF inst.elems[k].ok /\ ~inst.elems[k].null
                          THEN ElementJson(inst.elems[k], depth) ELSE <<>>])
         \o <<"}">>

-----------------------------------------------------------------------------
(***************************************************************************)
(* Reference: a parser of the output format of the spec (section 6: JSON   *)
(* objects, arrays and strings), yielding the decoded value, and the       *)
(* decoding a faithful encoding of an instance must have.                  *)
(***************************************************************************)

\* A decoded JSON value: a string (its characters), an object (its
\* key/value pairs in order) or an array (its items).
JStr(c) == [kind |-> "str", chars |-> c, pairs |-> <<>>, items |-> <<>>]
JObj(p) == [kind |-> "obj", chars |-> <<>>, pairs |-> p, items |-> <<>>]
JArr(x) == [kind |-> "arr", chars |-> <<>>, pairs |-> <<>>, items |-> x]

Fail == [ok |-> FALSE, next |-> 0, val |-> JStr(<<>>)]
Done(k, v) == [ok |-> TRUE, next |-> k, val |-> v]

\* The letter after a backslash, and the character the escape stands for.
Unescape == [l \in {"\"", "\\", "/", "b", "f", "n", "r", "t"} |->
               CASE l = "b" -> "BS" [] l = "f" -> "FF" [] l = "n" -> "NL"
                 [] l = "r" -> "CR" [] l = "t" -> "TAB" [] OTHER -> l]

\* Characters that may not appear unescaped inside a JSON string.
Control == {"BS", "FF", "NL", "CR", "TAB", "CTL"}

RECURSIVE ParseValue(_, _), ParseString(_, _, _), ParseMembers(_, _, _),
          ParseItems(_, _, _)

ParseString(s, k, acc) ==
    IF k > Len(s) THEN Fail
    ELSE IF s[k] = "\"" THEN Done(k + 1, JStr(acc))
    ELSE IF s[k] = "\\"
         THEN IF k + 1 <= Len(s) /\ s[k + 1] \in DOMAIN Unescape
              THEN ParseString(s, k + 2, Append(acc, Unescape[s[k + 1]]))
              ELSE Fail
    ELSE IF s[k] \in Control \cup {"OVERFLOW"} THEN Fail
    ELSE ParseString(s, k + 1, Append(acc, s[k]))

\* The members of an object, after its "{" or after a ",".
ParseMembers(s, k, acc) ==
    IF acc = <<>> /\ k <= Len(s) /\ s[k] = "}" THEN Done(k + 1, JObj(acc))
    ELSE IF k > Len(s) \/ s[k] # "\"" THEN Fail
    ELSE LET key == ParseString(s, k + 1, <<>>)
         IN  IF ~key.ok \/ key.next > Len(s) \/ s[key.next] # ":" THEN Fail
             ELSE LET v    == ParseValue(s, key.next + 1)
                      acc2 == Append(acc, <<key.val.chars, v.val>>)
                  IN  IF ~v.ok \/ v.next > Len(s) THEN Fail
                      ELSE IF s[v.next] = "," THEN ParseMembers(s, v.next + 1, acc2)
                      ELSE IF s[v.next] = "}" THEN Done(v.next + 1, JObj(acc2))
                      ELSE Fail

\* The items of an array, after its "[" or after a ",".
ParseItems(s, k, acc) ==
    IF acc = <<>> /\ k <= Len(s) /\ s[k] = "]" THEN Done(k + 1, JArr(acc))
    ELSE LET v    == ParseValue(s, k)
             acc2 == Append(acc, v.val)
         IN  IF ~v.ok \/ v.next > Len(s) THEN Fail
             ELSE IF s[v.next] = "," THEN ParseItems(s, v.next + 1, acc2)
             ELSE IF s[v.next] = "]" THEN Done(v.next + 1, JArr(acc2))
             ELSE Fail

ParseValue(s, k) ==
    IF k > Len(s) THEN Fail
    ELSE IF s[k] = "{" THEN ParseMembers(s, k + 1, <<>>)
    ELSE IF s[k] = "[" THEN ParseItems(s, k + 1, <<>>)
    ELSE IF s[k] = "\"" THEN ParseString(s, k + 1, <<>>)
    ELSE Fail

\* The whole text is one JSON value.
Parse(s) == LET r == ParseValue(s, 1)
            IN  IF r.ok /\ r.next = Len(s) + 1 THEN r ELSE Fail

IsJson(s) == Parse(s).ok

TokDigit == [t \in Range(Digit) |-> CHOOSE d \in 0..9 : Digit[d] = t]
IsDigits(ds) == ds # <<>> /\ \A k \in DOMAIN ds : ds[k] \in DOMAIN TokDigit
DigitsValue(ds) ==
    FoldLeft(LAMBDA acc, t : 10 * acc + (IF t \in DOMAIN TokDigit
                                         THEN TokDigit[t] ELSE 0), 0, ds)

\* The integer a decimal or exponent-form number denotes, read back as
\* strtod would, when it is one: [ok, n].
NumberValue(cs) ==
    LET neg   == cs # <<>> /\ cs[1] = "-"
        body  == IF neg THEN Tail(cs) ELSE cs
        ePos  == SelectInSeq(body, LAMBDA c : c = "e")
        mant  == IF ePos = 0 THEN body ELSE SubSeq(body, 1, ePos - 1)
        expo  == IF ePos = 0 THEN <<>> ELSE SubSeq(body, ePos + 1, Len(body))
        dPos  == SelectInSeq(mant, LAMBDA c : c = ".")
        ip    == IF dPos = 0 THEN mant ELSE SubSeq(mant, 1, dPos - 1)
        fp    == IF dPos = 0 THEN <<>> ELSE SubSeq(mant, dPos + 1, Len(mant))
        eNeg  == expo # <<>> /\ expo[1] = "-"
        eDs   == IF expo # <<>> /\ expo[1] \in {"+", "-"} THEN Tail(expo) ELSE expo
        scale == (IF eNeg THEN -1 ELSE 1) * DigitsValue(eDs) - Len(fp)
        mv    == DigitsValue(ip \o fp)
        sgn   == IF neg THEN -1 ELSE 1
        ok    == /\ IsDigits(ip)
                 /\ dPos = 0 \/ IsDigits(fp)
                 /\ ePos = 0 \/ IsDigits(eDs)
                 /\ scale >= 0 \/ mv % (10 ^ (-scale)) = 0
    IN  [ok |-> ok,
         n  |-> IF ~ok THEN 0
                ELSE IF scale >= 0 THEN sgn * mv * 10 ^ scale
                ELSE sgn * (mv \div 10 ^ (-scale))]

\* A decoded string denotes the integer n.
DenotesInt(jv, n) == jv.kind = "str" /\ NumberValue(jv.chars) = [ok |-> TRUE, n |-> n]

RECURSIVE ValueDecodes(_, _, _, _), InstanceDecodes(_, _, _)

\* What the spec asks of the encoding of a value: booleans as the strings
\* true and false, numbers as strings that read back to the value, strings
\* as themselves, date/times as objects with MI_Type and their fields,
\* arrays as JSON arrays, embedded and referenced instances as nested
\* objects of the same shape.
ValueDecodes(jv, v, t, depth) ==
    CASE t = "BOOLEAN" -> jv = JStr(<<IF v THEN "true" ELSE "false">>)
      [] t \in IntTypes \cup {"REAL64"} -> DenotesInt(jv, v)
      [] t = "STRING" -> jv = JStr(v)
      [] t = "DATETIME" ->
           LET keys == IF v.isTimestamp THEN TimestampKeys ELSE IntervalKeys
               ty   == IF v.isTimestamp THEN "MI_Timestamp" ELSE "MI_Interval"
           IN  /\ jv.kind = "obj"
               /\ Len(jv.pairs) = Len(keys) + 1
               /\ jv.pairs[1] = <<<<"MI_Type">>, JStr(<<ty>>)>>
               /\ \A k \in DOMAIN keys :
                     /\ jv.pairs[k + 1][1] = <<keys[k]>>
                     /\ DenotesInt(jv.pairs[k + 1][2], v.f[keys[k]])
      [] t \in {"INSTANCE", "REFERENCE"} -> InstanceDecodes(jv, World[v], depth - 1)
      [] IsArray(t) ->
           /\ jv.kind = "arr"
           /\ Len(jv.items) = Len(v)
           /\ \A k \in DOMAIN v : ValueDecodes(jv.items[k], v[k], ArrayBase[t], depth)

\* An instance decodes to an object: its class name, then its non-null
\* elements in order, each under its own name.
InstanceDecodes(jv, i, depth) ==
    LET present == SelectSeq(i.elems, LAMBDA e : e.ok /\ ~e.null)
    IN  /\ depth > 0
        /\ jv.kind = "obj"
        /\ Len(jv.pairs) = Len(present) + 1
        /\ jv.pairs[1] = <<<<"ClassName">>, JStr(i.class)>>
        /\ \A k \in DOMAIN present :
              /\ jv.pairs[k + 1][1] = present[k].name
              /\ ValueDecodes(jv.pairs[k + 1][2], present[k].value,
                              present[k].type, depth)

-----------------------------------------------------------------------------
(***************************************************************************)
(* One instance pulled by handle_results and written by instance_to_json.  *)
(***************************************************************************)

\* The values an element of type t can hold.
ValuesOf(t) ==
    IF IsArray(t) THEN UNION {[1..n -> BaseValues[ArrayBase[t]]] : n \in 0..MaxArray}
                  ELSE BaseValues[t]

\* An element as MI_Instance_GetElementAt reports it: name, value, type,
\* MI_FLAG_NULL, and whether the call succeeded.
Elements ==
    UNION {[name : ElemNames, ok : BOOLEAN, null : BOOLEAN, type : {t},
            value : ValuesOf(t)] : t \in Types}

\* An instance: class name, elements, and whether MI_Instance_GetClassName
\* and MI_Instance_GetElementCount succeed.
Inputs ==
    [class : ClassNames, ok : BOOLEAN,
     elems : UNION {[1..n -> Elements] : n \in 0..MaxElems}]

VARIABLES
    inst,    \* the instance handed to instance_to_json
    out,     \* the characters written to the stream
    phase    \* "pulled" or "written"

vars == <<inst, out, phase>>

Init ==
    /\ inst \in Inputs
    /\ out = <<>>
    /\ phase = "pulled"

\* The call instance_to_json (strm, *pInstance) of handle_results.
Encode ==
    /\ phase = "pulled"
    /\ out' = InstanceToJson(inst, MaxDepth)
    /\ phase' = "written"
    /\ UNCHANGED inst

Spec == Init /\ [][Encode]_vars

-----------------------------------------------------------------------------

\* What instance_to_json writes for a readable instance is one JSON value
\* (spec section 6: one object per instance, its element values JSON
\* strings, objects or arrays); this is about the quoting decisions of
\* value_to_json, the separators of array_to_json and instance_to_json,
\* the escaping of string_to_json and the date/time dictionaries.
OutputIsJson ==
    phase = "written" /\ inst.ok => IsJson(out)

\* Reading back what instance_to_json wrote gives the instance: the class
\* name, then exactly the non-null elements in their order, each name and
\* string reproduced by unescaping, each number read back to its value
\* (spec section 8: escaping and numeric round trips, null elements never
\* appear).
RoundTrip ==
    phase = "written" /\ inst.ok =>
        LET r == Parse(out) IN r.ok /\ InstanceDecodes(r.val, inst, MaxDepth)

\* instance_to_json returns for every instance the provider can hand out:
\* the recursion through embedded and referenced instances never exhausts
\* the stack.
NoOverflow ==
    \A k \in DOMAIN out : out[k] # "OVERFLOW"

=============================================================================
