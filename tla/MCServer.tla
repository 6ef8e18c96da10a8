------------------------------ MODULE MCServer ------------------------------
(***************************************************************************)
(* Small instances of Server: two connections of one server, and requests  *)
(* of every kind, some with values that come in two pieces.                *)
(***************************************************************************)
EXTENDS Server

CONSTANTS zero, one, two, list, odd, blank, item, array, object, query, hiding, junk

V(a) == <<a>>

MCNumerals == {<<zero>>, <<one>>, <<one, two>>}
MCLists    == {<<list>>, <<list, two>>, <<odd>>, <<blank>>}
MCOddLists == {<<odd>>}
MCBlankLists == {<<blank>>}
MCItems    == {<<item>>, <<item, two>>}
MCNoObjects == {<<array>>, <<one>>}
MCObjects  == {<<object>>}
MCQueries  == {<<query>>, <<query, two>>, <<odd>>}
MCOddQueries == {<<odd>>}
MCFatalQueries == {<<odd>>, <<hiding>>}

\* A client's request: its parameters by name, its body signed or not.
Unsigned(method, uri, args, body) ==
  [method |-> method, uri |-> uri, form |-> TRUE, args |-> args, body |-> body]

Signed(uri, fields, params) ==
  Unsigned("POST", uri, <<>>,
           fields \o << <<"sign", Signature(uri, "POST", params)>> >>)

AttachFields(items, ups) ==
  << <<"key", V(one)>>, <<"prefixes", V(list)>>, <<"item", items>>, <<"upsert", ups>> >>
AttachParams(items, ups) ==
  [key |-> V(one), prefixes |-> V(list), item |-> items, upsert |-> ups]

TokenFields(tid, filters) == << <<"tid", tid>>, <<"filters", filters>> >>
TokenParams(tid, filters) == [tid |-> tid, filters |-> filters]

MCSigned ==
  {Signed("/manage/attach", AttachFields(<<item, two>>, u), AttachParams(<<item, two>>, u)) :
     u \in {<<>>, V(zero)}}
  \cup {Signed("/manage/get_access_token",
               TokenFields(<<one, two>>, V(object)), TokenParams(<<one, two>>, V(object)))}
  \cup {Signed("/manage/attach",
               << <<"key", V(one)>>, <<"prefixes", <<blank, two>>>>, <<"item", V(item)>> >>,
               [key |-> V(one), prefixes |-> <<blank, two>>, item |-> V(item)])}
  \cup {Signed("/manage/erase", <<>>, [k \in {} |-> <<>>])}

MCUnsigned ==
  {Unsigned("POST", "/manage/attach", <<>>, AttachFields(V(junk), V(one))),
   Unsigned("GET", "/manage/attach",
            << <<"key", V(one)>>, <<"prefixes", V(junk)>>, <<"item", V(item)>> >>, <<>>),
   Unsigned("GET", "/manage/get_access_token",
            << <<"tid", V(one)>>, <<"expire", V(two)>> >>, <<>>),
   Unsigned("GET", "/manage/get_access_token", << <<"filters", V(junk)>> >>, <<>>),
   Unsigned("GET", "/manage/status", << <<"sign", V(junk)>> >>, <<>>),
   Unsigned("GET", "/manage/status", << <<"pretty", Null>> >>, <<>>),
   Unsigned("GET", "/manage/attach",
            << <<"key", V(one)>>, <<"prefixes", V(odd)>>, <<"item", V(array)>> >>, <<>>),
   Unsigned("GET", "/manage/attach",
            << <<"key", V(one)>>, <<"prefixes", V(blank)>>, <<"item", V(item)>> >>, <<>>),
   Unsigned("POST", "/query/predict", <<>>, << <<Null, V(query)>> >>),
   Unsigned("GET", "/query/predict", << <<"data", V(hiding)>> >>, <<>>),
   Unsigned("GET", "/query/predict", << <<"data", V(odd)>> >>, <<>>),
   Unsigned("GET", "/query/predict", <<>>, << <<"data", V(query)>> >>),
   Unsigned("POST", "/query/predict", <<>>, << <<"data", <<query, two>>>> >>),
   [Unsigned("POST", "/query/predict", <<>>, << <<"data", V(query)>> >>) EXCEPT !.form = FALSE],
   Unsigned("POST", "/favicon.ico", << <<"v", V(one)>> >>, <<>>)}

MCRequests == MCSigned \cup MCUnsigned

MCText ==
  {zero, one, two, list, odd, blank, item, array, object, query, hiding, junk}
    \cup UNION {Range(p[2]) : p \in UNION {Range(r.body) : r \in MCSigned}}
=============================================================================
