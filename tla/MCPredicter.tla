----------------------------- MODULE MCPredicter ----------------------------
(***************************************************************************)
(* Small instances of Predicter.  An int has 8 bits and a size_t 16, and   *)
(* units shift by 2, 5, 7 and 10 bits instead of 10, 20, 30 and 40: as in  *)
(* the program t is out of bounds for an int, and k, m and g leave a       *)
(* size_t more bits than an int has.                                       *)
(***************************************************************************)
EXTENDS Predicter, TLC

MCUnitBits == [k |-> 2, m |-> 5, g |-> 7, t |-> 10]

Text(number, unit) == [minus |-> FALSE, number |-> number, unit |-> unit]
MinusText == [minus |-> TRUE, number |-> 1, unit |-> ""]

\* A start that serves: options [k |-> v] as pairs.
Line(help, test, noFile, given) ==
  [help |-> help, test |-> test, noFile |-> noFile, given |-> given]

\* What check-signature, which is on by default, needs.
Signed == [o \in {"manage-key", "manage-secret"} |-> "k"]

\* Numbers around every bound toInteger has on this scale.
SizeTexts ==
  {MinusText} \cup
  {Text(n, u) : n \in {0, 1, 2, 7, 8, 9, 63, 64, 255, 256, 511, 512, 2047, 2048, 16383, 16384,
                       65535, 65536},
                u \in {"", "k", "m", "g", "t", "x"}}

MCCommandLines ==
  {Line(FALSE, TRUE, FALSE, o :> s) : o \in {"default-matches", "query-data-max-bytes"},
                                      s \in SizeTexts}
  \cup {Line(FALSE, FALSE, FALSE, "max-matches" :> Text(0, "")),
        Line(FALSE, FALSE, FALSE, "check-signature" :> TRUE),
        Line(FALSE, FALSE, TRUE,  Signed),
        Line(FALSE, FALSE, TRUE,  "manage-key" :> "k"),
        Line(TRUE,  FALSE, FALSE, "connection-max-idle" :> 60)}

MCFiles ==
  { ("manage-key" :> "k") @@ ("check-signature" :> FALSE),
    [o \in {"manage-key", "manage-secret"} |-> IF o = "manage-key" THEN "k" ELSE ""],
    Signed,
    Signed @@ ("query-visible-fields" :> <<"id", "name">>)
           @@ ("default-matches" :> Text(0, "")),
    Signed @@ ("default-matches" :> Text(3, "")),
    Signed @@ ("query-invisible-fields" :> <<"secret", "name">>)
           @@ ("check-signature" :> TRUE)
           @@ ("items-allocate-step" :> Text(3, "k")) @@ ("connection-max-idle" :> 9),
    Signed @@ ("query-visible-fields" :> <<"*">>) @@ ("max-matches" :> Text(1, "x")) }

String(s) == [t |-> "string", v |-> s]
Uint(s)   == [t |-> "uint", v |-> s]
Double(s) == [t |-> "double", v |-> s]
NullValue == [t |-> "null", v |-> ""]
Array(l)  == [t |-> "array", list |-> l]
Object(m) == [t |-> "object", members |-> m]

MCPrefixes ==
  {Null, [t |-> "uint"]} \cup
  {[t |-> "string", len |-> p[1], cut |-> p[2]] :
     p \in {<<0, 0>>, <<1, 0>>, <<1, 1>>, <<2, 1>>, <<2, 2>>, <<3, 3>>}}

MCConditions ==
  {Null, NullValue, String("a"), Uint("1"), Array(<<>>), Object(<<>>),
   Array(<<Uint("1"), NullValue>>),
   Object(<< <<"name", Array(<<String("a"), NullValue>>)>>, <<"id", Uint("1")>>,
             <<"secret", String("s")>> >>),
   Object(<< <<"id", Object(<<>>)>>, <<"name", NullValue>> >>),
   Object(<< <<"id", Double("1")>>, <<"name", Object(<<>>)>>, <<"secret", String("s")>> >>)}

MCFieldLists ==
  {Null, Uint("1"), String("secret"), Array(<<>>), Array(<<String("id"), Uint("1")>>),
   Array(<<String("name"), String("id")>>),
   Array(<<String("secret"), String("id"), String("other")>>),
   Array(<<String("secret"), String("name"), String("other"), String("extra")>>)}

MCNums == {Null, String("1"), [t |-> "uint", v |-> 0], [t |-> "uint", v |-> 1],
           [t |-> "uint", v |-> 3]}

MCStored ==
  {[id |-> Uint("1"), name |-> String("a"), secret |-> String("s")],
   [id |-> Uint("2"), name |-> String("a"), secret |-> String("s")],
   [id |-> Double("1"), secret |-> String("s")],
   [id |-> Uint("2"), name |-> NullValue]}

\* Starts and queries with nothing out of the way: a file with the keys, and maybe
\* one more option; prefixes that are strings, and no conditions.
PlainLines == {Line(FALSE, FALSE, FALSE, [o \in {} |-> ""])}
PlainFiles ==
  { Signed,
    Signed @@ ("default-matches" :> Text(3, "")),
    Signed @@ ("connection-max-idle" :> 60),
    Signed @@ ("query-invisible-fields" :> <<"secret", "name">>) }
PlainPrefixes == {Null, [t |-> "string", len |-> 2, cut |-> 2]}
PlainConditions == {Null}
=============================================================================
