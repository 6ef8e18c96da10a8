--------------------------- MODULE PredicterProofs --------------------------
(***************************************************************************)
(* Theorems about Predicter for any options, queries and filters: what     *)
(* reviseFields, which erases from the set it runs over, can still be      *)
(* trusted with, and what a query hands to the index.                      *)
(***************************************************************************)
EXTENDS OptionsProofs, SequenceTheorems, WellFoundedInduction

\* The records are the records they were made as.
ShapeInv ==
  /\ body = [prefix |-> body.prefix, filters |-> body.filters, excludes |-> body.excludes,
             fields |-> body.fields, num |-> body.num]
  /\ query = [prefix |-> query.prefix, filters |-> query.filters, excludes |-> query.excludes,
              fields |-> query.fields, fieldsAll |-> query.fieldsAll, num |-> query.num]

\* The loops only ever take away what is hidden.
LoopInv ==
  /\ ahead \subseteq query.fields \cap Asked(body.fields)
  /\ \A f \in Asked(body.fields) : Hidden(f) \/ f \in query.fields

InLoop == {"loop"} \cup Revised

FieldsInv ==
  /\ ShapeInv
  /\ stage # "payload" => startup = "ready"
  /\ stage = "revise" => body.fields \in FieldLists /\ query.fields = Asked(body.fields)
  /\ stage \in InLoop => LoopInv
  /\ stage \in Revised => ahead = {}
  /\ DiesOnlyWhereUndefined

LEMMA InitFields == Init => FieldsInv
<1> SUFFICES ASSUME Init PROVE FieldsInv
  OBVIOUS
<1>1. stage = "payload"
  BY DEF Init, QueryInit
<1>2. ShapeInv
  BY DEF Init, QueryInit, ShapeInv
<1>3. QED
  BY <1>1, <1>2 DEF FieldsInv, InLoop, Revised, DiesOnlyWhereUndefined

\* Queries are taken when the options are there, and the options stay.
LEMMA ConfigKept ==
  ASSUME FieldsInv, Next, stage # "payload"
  PROVE  startup' = "ready" /\ UNCHANGED <<options, config>>
<1>1. startup = "ready"
  BY DEF FieldsInv
<1>2. ~ Startup
  BY <1>1 DEF Startup, StartupNext, StoreCommandLine, loadFile, loadOptions
<1>3. UNCHANGED optionVars
  BY <1>2 DEF Next, Parse, Build, predict
<1>4. QED
  BY <1>1, <1>3 DEF optionVars
-----------------------------------------------------------------------------
(* The loops of reviseFields *)

\* reviseFields begins with all the fields asked for ahead, or leaves them alone.
LEMMA ReviseStartKeeps ==
  ASSUME FieldsInv, ReviseStart, UNCHANGED <<options, config>>
  PROVE  LoopInv'
<1> DEFINE fill == ~ config.queryVisibleAll /\ queryInvisibleFields = {} /\ query.fields = {}
           A == Asked(body.fields)
<1>1. /\ body' = body /\ query.fields = A /\ body.fields \in FieldLists
      /\ query'.fields = IF fill THEN queryVisibleFields ELSE A
      /\ ahead' = IF config.queryVisibleAll \/ fill THEN {} ELSE A
  BY DEF FieldsInv, ShapeInv, ReviseStart
<1>2. \A f : Hidden(f)' = Hidden(f)
  BY DEF Hidden, queryInvisibleFields, queryVisibleFields
<1>3. fill => A = {}
  BY <1>1
<1> HIDE DEF A, fill
<1>4. ahead' \subseteq query'.fields \cap A
  BY <1>1
<1>5. \A f \in A : Hidden(f)' \/ f \in query'.fields
  BY <1>1, <1>3
<1>6. QED
  BY <1>1, <1>4, <1>5 DEF LoopInv, A

\* A round takes away nothing but a hidden field, and ends the process only then.
LEMMA ReviseRoundKeeps ==
  ASSUME FieldsInv, ReviseRound, UNCHANGED <<options, config>>
  PROVE  /\ stage' = "loop" => LoopInv'
         /\ stage' \in {"loop", "died"}
         /\ stage' = "died" => \E f \in Asked(body'.fields) : Hidden(f)' /\ f \notin query'.fields
<1> DEFINE A == Asked(body.fields)
<1>1. /\ stage = "loop" /\ LoopInv /\ body' = body
  BY DEF FieldsInv, ReviseRound, InLoop
<1>2. \A f : Hidden(f)' = Hidden(f)
  BY DEF Hidden, queryInvisibleFields, queryVisibleFields
<1>3. PICK f \in ahead :
        IF Hidden(f)
          THEN /\ query' = [query EXCEPT !.fields = @ \ {f}]
               /\ \/ ahead = {f} /\ stage' = "died" /\ ahead' = {}
                  \/ \E g \in ahead \ {f} : ahead' = ahead \ {f, g} /\ UNCHANGED stage
          ELSE ahead' = ahead \ {f} /\ UNCHANGED <<stage, query>>
  BY DEF ReviseRound
<1>4. f \in A /\ f \in query.fields /\ body'.fields = body.fields
  BY <1>1 DEF LoopInv
<1>5. CASE ~ Hidden(f)
  <2>1. ahead' = ahead \ {f} /\ query' = query /\ stage' = "loop"
    BY <1>1, <1>3, <1>5
  <2>2. LoopInv'
    BY <1>1, <1>2, <1>4, <2>1 DEF LoopInv
  <2>3. QED
    BY <2>1, <2>2
<1>6. CASE Hidden(f)
  <2>1. query'.fields = query.fields \ {f}
    BY <1>3, <1>6 DEF FieldsInv, ShapeInv
  <2>2. CASE stage' = "died"
    BY <1>2, <1>4, <1>6, <2>1, <2>2
  <2>3. CASE \E g \in ahead \ {f} : ahead' = ahead \ {f, g} /\ UNCHANGED stage
    <3>1. PICK g \in ahead \ {f} : ahead' = ahead \ {f, g} /\ stage' = "loop"
      BY <1>1, <2>3
    <3>2. /\ ahead' \subseteq query'.fields \cap A
          /\ \A e \in A : Hidden(e)' \/ e \in query'.fields
      BY <1>1, <1>2, <1>6, <2>1, <3>1 DEF LoopInv
    <3>3. LoopInv'
      BY <1>4, <3>2 DEF LoopInv
    <3>4. QED
      BY <3>1, <3>3
  <2>4. QED
    BY <1>3, <1>6, <2>2, <2>3
<1>7. QED
  BY <1>5, <1>6

-----------------------------------------------------------------------------
(* The other steps *)

\* A query that has not come to its fields, or has no more to do with them.
LEMMA BeforeFields ==
  ASSUME FieldsInv, NEW s, stage' = s, s \notin InLoop \cup {"revise", "died"},
         ShapeInv', stage' # "payload" => startup' = "ready"
  PROVE  FieldsInv'
BY DEF FieldsInv, InLoop, DiesOnlyWhereUndefined

\* The members before fields.
LEMMA ReadKeeps ==
  ASSUME FieldsInv, startup' = "ready",
         ReadPayload \/ ReadPrefix \/ ReadFilters \/ ReadExcludes
  PROVE  FieldsInv'
<1> USE DEF FieldsInv
<1>1. ShapeInv'
  BY DEF ShapeInv, ReadPayload, ReadPrefix, ReadFilters, ReadExcludes
<1>2. stage' \in {"prefix", "filters", "excludes", "fields", "no_query", "bad_query", "died"}
  BY DEF ReadPayload, ReadPrefix, ReadFilters, ReadExcludes
<1>3. CASE stage' # "died"
  BY <1>1, <1>2, <1>3, BeforeFields DEF InLoop, Revised
<1>4. CASE stage' = "died"
  <2>1. PICK p \in Prefixes : /\ body' = [body EXCEPT !.prefix = p]
                             /\ p # Null /\ p.t # "string"
    BY <1>4 DEF ReadPayload, ReadPrefix, ReadFilters, ReadExcludes
  <2>2. body'.prefix = p
    BY <2>1 DEF ShapeInv
  <2>3. DiesOnlyWhereUndefined'
    BY <2>1, <2>2 DEF DiesOnlyWhereUndefined
  <2>4. QED
    BY <1>1, <1>4, <2>3 DEF InLoop, Revised
<1>5. QED
  BY <1>3, <1>4

LEMMA ReadFieldsKeeps ==
  ASSUME FieldsInv, startup' = "ready", ReadFields
  PROVE  FieldsInv'
<1>1. PICK f \in FieldLists :
        /\ body' = [body EXCEPT !.fields = f]
        /\ \/ stage' = "bad_query" /\ UNCHANGED query
           \/ stage' = "revise" /\ query' = [query EXCEPT !.fields = Asked(f)]
  BY DEF ReadFields
<1>2. ShapeInv'
  BY <1>1 DEF FieldsInv, ShapeInv
<1>3. CASE stage' = "bad_query"
  BY <1>2, <1>3, BeforeFields DEF InLoop, Revised
<1>4. CASE stage' = "revise" /\ query' = [query EXCEPT !.fields = Asked(f)]
  <2>1. body'.fields = f /\ query'.fields = Asked(f)
    BY <1>1, <1>4 DEF FieldsInv, ShapeInv
  <2>2. QED
    BY <1>2, <1>4, <2>1 DEF FieldsInv, InLoop, Revised, DiesOnlyWhereUndefined
<1>5. QED
  BY <1>1, <1>3, <1>4

LEMMA ReviseKeeps ==
  ASSUME FieldsInv, startup' = "ready", UNCHANGED <<options, config>>,
         ReviseStart \/ ReviseRound \/ ReviseEnd
  PROVE  FieldsInv'
<1>1. ShapeInv'
  BY DEF FieldsInv, ShapeInv, ReviseStart, ReviseRound, ReviseEnd
<1>2. CASE ReviseStart
  <2>1. stage' = "loop"
    BY <1>2 DEF ReviseStart
  <2>2. QED
    BY <1>1, <1>2, <2>1, ReviseStartKeeps
    DEF FieldsInv, InLoop, Revised, DiesOnlyWhereUndefined
<1>3. CASE ReviseRound
  <2>1. /\ stage' = "loop" => LoopInv'
        /\ stage' \in {"loop", "died"}
        /\ stage' = "died" => \E f \in Asked(body'.fields) : Hidden(f)' /\ f \notin query'.fields
    BY <1>3, ReviseRoundKeeps
  <2>2. DiesOnlyWhereUndefined'
    BY <2>1 DEF DiesOnlyWhereUndefined
  <2>3. QED
    BY <1>1, <2>1, <2>2 DEF FieldsInv, InLoop, Revised
<1>4. CASE ReviseEnd
  <2>1. /\ stage = "loop" /\ ahead = {} /\ stage' \in {"bad_query", "num"}
        /\ UNCHANGED <<body, query, ahead>>
    BY <1>4 DEF ReviseEnd
  <2>2. LoopInv
    BY <2>1 DEF FieldsInv, InLoop
  <2>3. \A f : Hidden(f)' = Hidden(f)
    BY DEF Hidden, queryInvisibleFields, queryVisibleFields
  <2>4. LoopInv'
    BY <2>1, <2>2, <2>3 DEF LoopInv
  <2>5. QED
    BY <1>1, <2>1, <2>4 DEF FieldsInv, InLoop, Revised, DiesOnlyWhereUndefined
<1>5. QED
  BY <1>2, <1>3, <1>4

\* After the loops nothing touches the fields.
LEMMA LaterKeeps ==
  ASSUME FieldsInv, startup' = "ready", UNCHANGED <<options, config>>,
         ReadNum \/ Build \/ predict
  PROVE  FieldsInv'
<1>1. stage \in Revised /\ stage' \in Revised
  BY DEF ReadNum, Build, predict, RebuildFilter, RebuildExclude, Rebuild, ByCond, Revised
<1>2. ahead = {} /\ ahead' = {} /\ LoopInv
  BY <1>1 DEF FieldsInv, InLoop, ReadNum, Build, predict, RebuildFilter, RebuildExclude,
              Rebuild, ByCond
<1>3. ShapeInv' /\ body'.fields = body.fields /\ query'.fields = query.fields
  <2>1. CASE ReadNum
    BY <2>1 DEF FieldsInv, ShapeInv, ReadNum
  <2>2. CASE Build \/ predict
    <3>1. body' = body /\ query' = query
      BY <2>2 DEF Build, predict, RebuildFilter, RebuildExclude, ByCond
    <3>2. QED
      BY <3>1 DEF FieldsInv, ShapeInv
  <2>3. QED
    BY <2>1, <2>2
<1>4. \A f : Hidden(f)' = Hidden(f)
  BY DEF Hidden, queryInvisibleFields, queryVisibleFields
<1>5. LoopInv'
  BY <1>2, <1>3, <1>4 DEF LoopInv
<1>6. QED
  BY <1>1, <1>2, <1>3, <1>5 DEF FieldsInv, Revised, DiesOnlyWhereUndefined

\* Starting up has nothing to do with queries.
LEMMA StartupKeeps ==
  ASSUME FieldsInv, Startup
  PROVE  FieldsInv'
<1>1. startup # "ready" /\ UNCHANGED queryVars
  BY DEF Startup, StartupNext, StoreCommandLine, loadFile, loadOptions
<1>2. stage = "payload" /\ stage' = "payload"
  BY <1>1 DEF FieldsInv, queryVars
<1>3. ShapeInv'
  BY <1>1 DEF FieldsInv, ShapeInv, queryVars
<1>4. QED
  BY <1>2, <1>3, BeforeFields DEF InLoop, Revised

LEMMA NextFields == FieldsInv /\ [Next]_vars => FieldsInv'
<1> SUFFICES ASSUME FieldsInv, [Next]_vars PROVE FieldsInv'
  OBVIOUS
<1>1. CASE UNCHANGED vars
  <2>1. UNCHANGED <<startup, options, config, stage, body, query, ahead>>
    BY <1>1 DEF vars, optionVars, queryVars
  <2>2. \A f : Hidden(f)' = Hidden(f)
    BY <2>1 DEF Hidden, queryInvisibleFields, queryVisibleFields
  <2>3. LoopInv' = LoopInv
    BY <2>1, <2>2 DEF LoopInv
  <2>4. QED
    BY <2>1, <2>2, <2>3 DEF FieldsInv, ShapeInv, DiesOnlyWhereUndefined
<1>2. CASE Startup
  BY <1>2, StartupKeeps
<1>3. CASE Next /\ stage # "payload" /\ ~ Startup
  BY <1>3, ConfigKept, ReadKeeps, ReadFieldsKeeps, ReviseKeeps, LaterKeeps
  DEF Next, Parse, QueryNext
<1>4. CASE Parse /\ stage = "payload"
  <2>1. ReadPayload /\ startup' = "ready"
    BY <1>4 DEF Parse, QueryNext, ReadPrefix, ReadFilters, ReadExcludes, ReadFields,
                ReviseStart, ReviseRound, ReviseEnd, ReadNum, optionVars
  <2>2. QED
    BY <2>1, ReadKeeps
<1>5. (Build \/ predict) => stage # "payload"
  BY DEF Build, predict, RebuildFilter, RebuildExclude, ByCond
<1>6. QED
  BY <1>1, <1>2, <1>3, <1>4, <1>5 DEF Next

LEMMA FieldsInvariance == Spec => []FieldsInv
BY InitFields, NextFields, PTL DEF Spec

\* The loops of reviseFields never take away a field the client may see.
THEOREM FieldsKept == Spec => []AllowedFieldsKept
<1>1. FieldsInv => AllowedFieldsKept
  BY DEF FieldsInv, LoopInv, InLoop, AllowedFieldsKept
<1>2. QED
  BY <1>1, FieldsInvariance, PTL

\* No other query ends the process.
THEOREM QueryDeathsExplained == Spec => []DiesOnlyWhereUndefined
<1>1. FieldsInv => DiesOnlyWhereUndefined
  BY DEF FieldsInv
<1>2. QED
  BY <1>1, FieldsInvariance, PTL
-----------------------------------------------------------------------------
(* What a query hands to the index *)

\* Stages past the prefix, and past the number of items.
Prefixed == Stages \ ({"payload", "prefix", "died"} \cup Refusals)
Numbered == {"chain", "filter", "chain2", "exclude", "seek", "replied"}

BeforeFieldsRead == {"payload", "prefix", "filters", "excludes", "fields"}

NumOK ==
  query.num = config.defaultMatches \/ (query.num > 0 /\ query.num <= config.maxMatches)

FlowInv ==
  /\ stage \in Stages
  /\ query.prefix \in Nat /\ query.num \in Nat /\ query.fieldsAll \in BOOLEAN
  /\ ahead \subseteq query.fields
  /\ stage \in BeforeFieldsRead => ahead = {}
  /\ stage \in Prefixed => query.prefix > 0
  /\ stage \in Numbered => NumOK

QueryInv == OptionsInv /\ FieldsInv /\ FlowInv

LEMMA InitFlow == Init => FlowInv
BY DEF Init, QueryInit, FlowInv, Stages, Prefixed, Numbered, Ended, Refusals, BeforeFieldsRead

\* The prefix is what comes before its first NUL, and never empty.
LEMMA ReadPrefixFlow ==
  ASSUME ShapeInv, FlowInv, ReadPrefix
  PROVE  FlowInv'
<1>1. PICK p \in Prefixes :
        /\ body' = [body EXCEPT !.prefix = p]
        /\ \/ stage' \in {"bad_query", "died"} /\ (query' = query \/ query' = [query EXCEPT !.prefix = 0])
           \/ stage' = "filters" /\ query' = [query EXCEPT !.prefix = 1]
           \/ /\ p # Null /\ p.t = "string" /\ p.cut > 0
              /\ stage' = "filters" /\ query' = [query EXCEPT !.prefix = p.cut]
  BY DEF ReadPrefix
<1>2. \A p1 \in Prefixes : p1 # Null /\ p1.t = "string" => p1.cut \in Nat
  <2>1. \A p1 \in Prefixes \ {Null} : p1.t = "string" => p1.len \in Nat /\ p1.cut \in 0 .. p1.len
    BY InputsAssumption
  <2>2. QED
    BY <2>1
<1>3. /\ query'.prefix \in Nat /\ (stage' = "filters" => query'.prefix > 0)
      /\ query'.num = query.num /\ query'.fieldsAll = query.fieldsAll
      /\ query'.fields = query.fields /\ ahead' = ahead
      /\ stage = "prefix" /\ stage' \in {"bad_query", "died", "filters"}
  BY <1>1, <1>2 DEF ShapeInv, FlowInv, ReadPrefix
<1>4. QED
  BY <1>3 DEF FlowInv, Stages, Prefixed, Numbered, Ended, Refusals, BeforeFieldsRead

\* The other members before num leave the prefix and the number alone.
LEMMA ReadFlow ==
  ASSUME ShapeInv, FlowInv, ReadPayload \/ ReadFilters \/ ReadExcludes \/ ReviseEnd
  PROVE  FlowInv'
<1>1. /\ query'.prefix = query.prefix /\ query'.num = query.num
      /\ query'.fieldsAll = query.fieldsAll /\ query'.fields = query.fields
      /\ ahead' = ahead
  BY DEF ShapeInv, ReadPayload, ReadFilters, ReadExcludes, ReviseEnd
<1>2. \/ stage = "payload" /\ stage' \in {"prefix", "no_query", "bad_query"}
      \/ /\ stage \in {"filters", "excludes"}
         /\ stage' \in {"excludes", "fields", "bad_query"}
      \/ stage = "loop" /\ stage' \in {"num", "bad_query"}
  BY DEF ReadPayload, ReadFilters, ReadExcludes, ReviseEnd
<1>3. QED
  BY <1>1, <1>2 DEF FlowInv, Stages, Prefixed, Numbered, Ended, Refusals, BeforeFieldsRead

\* Nor do the fields, of which those not looked at yet are among those kept.
LEMMA FieldsFlow ==
  ASSUME ShapeInv, FlowInv, FieldsInv', ReadFields \/ ReviseStart \/ ReviseRound
  PROVE  FlowInv'
<1>1. /\ query'.prefix = query.prefix /\ query'.num = query.num
  BY DEF ShapeInv, ReadFields, ReviseStart, ReviseRound
<1>2. /\ stage \in {"fields", "revise", "loop"}
      /\ stage' \in {"revise", "loop", "died", "bad_query"}
  BY DEF ReadFields, ReviseStart, ReviseRound
<1>3. query'.fieldsAll \in BOOLEAN
  <2>1. CASE ReviseStart
    <3>1. query'.fieldsAll = (config.queryVisibleAll /\ query.fields = {})
      BY <2>1 DEF ShapeInv, ReviseStart
    <3>2. QED
      BY <3>1
  <2>2. CASE ReadFields \/ ReviseRound
    BY <2>2 DEF ShapeInv, FlowInv, ReadFields, ReviseRound
  <2>3. QED
    BY <2>1, <2>2
<1>4. ahead' \subseteq query'.fields
  <2>1. CASE ReadFields
    BY <2>1 DEF ReadFields, FlowInv, BeforeFieldsRead
  <2>2. CASE ReviseStart \/ ReviseRound
    <3>1. stage' \in {"loop", "died"} /\ (stage' = "died" => ahead' = {})
      BY <2>2 DEF ReviseStart, ReviseRound
    <3>2. QED
      BY <3>1 DEF FieldsInv, InLoop, LoopInv
  <2>3. QED
    BY <2>1, <2>2
<1>5. QED
  BY <1>1, <1>2, <1>3, <1>4 DEF FlowInv, Stages, Prefixed, Numbered, Ended, Refusals, BeforeFieldsRead

\* No number asked for is handed on as 0 or above the option.
LEMMA ReadNumFlow ==
  ASSUME ShapeInv, FlowInv, ReadNum, UNCHANGED config,
         config.maxMatches \in Nat, config.defaultMatches \in Nat
  PROVE  FlowInv'
<1>1. PICK n \in Nums :
        LET asked == IF n # Null /\ n.t = "uint"
                       THEN IF n.v < config.maxMatches THEN n.v ELSE config.maxMatches
                       ELSE config.defaultMatches
        IN  query' = [query EXCEPT !.num = IF asked < 1 THEN config.defaultMatches ELSE asked]
  BY DEF ReadNum
<1> DEFINE asked == IF n # Null /\ n.t = "uint"
                      THEN IF n.v < config.maxMatches THEN n.v ELSE config.maxMatches
                      ELSE config.defaultMatches
<1>2. n # Null /\ n.t = "uint" => n.v \in Nat
  <2>1. \A m \in Nums \ {Null} : m.t = "uint" => m.v \in Nat
    BY InputsAssumption
  <2>2. QED
    BY <2>1
<1>3. asked \in Nat /\ (asked = config.defaultMatches \/ asked <= config.maxMatches)
  BY <1>2
<1>4. query' = [query EXCEPT !.num = IF asked < 1 THEN config.defaultMatches ELSE asked]
  BY <1>1
<1> HIDE DEF asked
<1>5. /\ query'.num = IF asked < 1 THEN config.defaultMatches ELSE asked
      /\ query'.prefix = query.prefix /\ query'.fieldsAll = query.fieldsAll
      /\ query'.fields = query.fields /\ ahead' = ahead
      /\ stage = "num" /\ stage' = "chain"
  BY <1>4 DEF ShapeInv, ReadNum
<1>6. query'.num \in Nat /\ NumOK'
  BY <1>3, <1>5 DEF NumOK
<1>7. QED
  BY <1>5, <1>6 DEF FlowInv, Stages, Prefixed, Numbered, Ended, Refusals, BeforeFieldsRead

\* Building filters and listing items change nothing of it.
LEMMA SeekFlow ==
  ASSUME FlowInv, Build \/ predict
  PROVE  FlowInv'
<1>1. UNCHANGED <<query, ahead, config>>
  BY DEF Build, predict, RebuildFilter, RebuildExclude, ByCond, optionVars
<1>2. stage \in Numbered /\ stage' \in Numbered
  BY DEF Build, predict, RebuildFilter, RebuildExclude, Rebuild, ByCond, Numbered
<1>3. Numbered \subseteq Prefixed /\ Numbered \subseteq Stages /\ Numbered \cap BeforeFieldsRead = {}
  BY DEF Stages, Prefixed, Numbered, Ended, Refusals, BeforeFieldsRead
<1>4. QED
  BY <1>1, <1>2, <1>3 DEF FlowInv, NumOK

LEMMA NextFlow == QueryInv /\ [Next]_vars => FlowInv'
<1> SUFFICES ASSUME QueryInv, [Next]_vars PROVE FlowInv'
  OBVIOUS
<1>1. FieldsInv' /\ ShapeInv /\ FlowInv
  BY NextFields DEF QueryInv, FieldsInv
<1>2. CASE UNCHANGED <<queryVars, config>>
  BY <1>1, <1>2 DEF queryVars, FlowInv, NumOK
<1>3. CASE Startup
  <2>1. UNCHANGED queryVars /\ stage = "payload"
    BY <1>3 DEF Startup, StartupNext, StoreCommandLine, loadFile, loadOptions, QueryInv, FieldsInv
  <2>2. QED
    BY <1>1, <2>1 DEF queryVars, FlowInv, Stages, Prefixed, Numbered, Ended, Refusals, BeforeFieldsRead
<1>4. CASE Parse
  <2>1. UNCHANGED config /\ Ready
    BY <1>4 DEF Parse, optionVars, Ready
  <2>2. config.maxMatches \in Nat /\ config.defaultMatches \in Nat
    BY <2>1, MatchesAreNat DEF QueryInv
  <2>3. QED
    BY <1>1, <1>4, <2>1, <2>2, ReadPrefixFlow, ReadFlow, FieldsFlow, ReadNumFlow
    DEF Parse, QueryNext
<1>5. CASE Build \/ predict
  BY <1>1, <1>5, SeekFlow
<1>6. QED
  BY <1>2, <1>3, <1>4, <1>5 DEF Next, vars, optionVars

LEMMA QueryInvariance == Spec => []QueryInv
<1>1. QueryInv /\ [Next]_vars => QueryInv'
  BY NextOptions, NextFields, NextFlow DEF QueryInv
<1>2. Init => QueryInv
  BY InitOptions, InitFields, InitFlow DEF QueryInv
<1>3. QED
  BY <1>1, <1>2, PTL DEF Spec

\* Whatever a query says, the index is handed a prefix that is not empty and a
\* number of items within the options.
THEOREM SeekerFed == Spec => []FeedsSeeker
<1>1. QueryInv => FeedsSeeker
  <2> SUFFICES ASSUME QueryInv, stage \in {"seek", "replied"}, config.defaultMatches > 0
               PROVE  /\ query.prefix > 0 /\ query.num > 0
                      /\ query.num <= config.maxMatches \/ query.num = config.defaultMatches
    BY DEF FeedsSeeker
  <2>1. stage \in Prefixed /\ stage \in Numbered
    BY DEF Prefixed, Numbered, Stages, Ended, Refusals
  <2>2. QED
    BY <2>1 DEF QueryInv, FlowInv, NumOK
<1>2. QED
  BY <1>1, QueryInvariance, PTL

-----------------------------------------------------------------------------
(* The lists of filters: the cursor that byCond moves along leaves one
   chain through all the filters made, in the order they were made, and an
   item passes the chain when it meets the conditions. *)

Sides == {"filter", "exclude"}

\* A list whose successors are the places themselves, in order.
Chained(list) ==
  /\ list.nodes \in Seq(Range(list.nodes))
  /\ list.next = [i \in 1 .. Len(list.nodes) |-> IF i < Len(list.nodes) THEN i + 1 ELSE 0]
  /\ list.head = IF Len(list.nodes) = 0 THEN 0 ELSE 1

\* The filters of a list let an item pass, read off its nodes.
AllPass(list, item) == \A i \in 1 .. Len(list.nodes) : Passes(list.nodes[i], item)

\* The members byCond has not come to yet hold for an item.
LeftHold(item) == \A i \in 1 .. Len(left) : Holds(left[i][1], left[i][2], item)

\* Stages in which a side's list is not begun, and in which it is done.
Unbegun(side) ==
  IF side = "filter" THEN Stages \ {"filter", "chain2", "exclude", "seek", "replied"}
                     ELSE Stages \ {"exclude", "seek", "replied"}

Done(side) ==
  IF side = "filter" THEN {"chain2", "exclude", "seek", "replied"} ELSE {"seek", "replied"}

IsSource(cond) ==
  cond = Null \/ (cond \in Conditions \ {Null} /\ cond.t \in {"object", "array", "uint"})

\* What holds of one side in every state.  While byCond is at work, its cursor
\* is at the last filter made, and the filters made together with the members
\* left mean what the condition does.
SideInv(side) ==
  /\ Chained(chain[side])
  /\ IsSource(Source(side))
  /\ stage \in Unbegun(side) => chain[side] = NoFilters
  /\ stage = side =>
       /\ cursor = Len(chain[side].nodes)
       /\ left \in Seq(Range(left))
       /\ \A i \in 1 .. Len(left) : Comparable(left[i][2])
       /\ \A item \in Stored :
            AllPass(chain[side], item) /\ LeftHold(item) <=> Meets(Source(side), item)
  /\ stage \in Done(side) =>
       \A item \in Stored : AllPass(chain[side], item) <=> Meets(Source(side), item)

\* The chain has these two lists and no more.
Record == chain = [filter |-> chain.filter, exclude |-> chain.exclude]

ChainInv == Record /\ \A side \in Sides : SideInv(side)
-----------------------------------------------------------------------------
(* Passing a list *)

LEMMA LeastNatural ==
  ASSUME NEW T, T \subseteq Nat, T # {}
  PROVE  \E x \in T : \A y \in T : x <= y
<1>1. \E x \in T : \A y \in T : ~ (<<y, x>> \in OpToRel(<, Nat))
  BY NatLessThanWellFounded, WFMin, Zenon
<1>2. \E x \in T : \A y \in T : ~ (y < x)
  <2>1. ASSUME NEW x \in T, NEW y \in T, y < x
        PROVE  <<y, x>> \in OpToRel(<, Nat)
    BY <2>1, Zenon DEF OpToRel
  <2>2. QED
    BY <1>1, <2>1, Zenon
<1>3. QED
  BY <1>2

\* A function that says at each place whether the filters from there on let the
\* item pass, as PassesList defines it from the successor's, says so of all.
LEMMA FromUnique ==
  ASSUME NEW list, Chained(list), NEW item, NEW from,
         from = [i \in 0 .. Len(list.nodes) |->
                   IF i = 0 THEN TRUE
                            ELSE Passes(list.nodes[i], item) /\ from[list.next[i]]]
  PROVE  from[list.head] <=> AllPass(list, item)
<1> DEFINE n == Len(list.nodes)
           P(i) == Passes(list.nodes[i], item)
           w(i) == \A j \in i .. n : P(j)
<1>1. n \in Nat
  BY DEF Chained
<1>2. \A i \in 1 .. n : list.next[i] = IF i < n THEN i + 1 ELSE 0
  BY DEF Chained
<1> HIDE DEF P
<1>3. \A i \in 0 .. n : from[i] = IF i = 0 THEN TRUE ELSE P(i) /\ from[list.next[i]]
  <2> SUFFICES ASSUME NEW i \in 0 .. n
               PROVE  from[i] = IF i = 0 THEN TRUE ELSE P(i) /\ from[list.next[i]]
    OBVIOUS
  <2> DEFINE g(k) == IF k = 0 THEN TRUE ELSE P(k) /\ from[list.next[k]]
  <2>1. from = [k \in 0 .. n |-> g(k)]
    BY DEF P
  <2> HIDE DEF g
  <2>2. from[i] = g(i)
    BY <2>1
  <2>3. QED
    BY <2>2 DEF g
<1> HIDE DEF n
<1>4. from[0]
  BY <1>1, <1>3
<1>w. /\ w(n) <=> \A j \in n .. n : P(j)
      /\ \A i \in 1 .. n : i < n => (w(i) <=> P(i) /\ w(i + 1))
  <2> SUFFICES ASSUME NEW i \in 1 .. n, i < n PROVE w(i) <=> P(i) /\ w(i + 1)
    OBVIOUS
  <2>1. i .. n = {i} \cup ((i + 1) .. n)
    BY <1>1
  <2>2. QED
    BY <2>1
<1>6. AllPass(list, item) <=> w(1)
  BY DEF AllPass, n, P
<1> HIDE DEF w
<1>5. \A i \in 1 .. n : from[i] <=> w(i)
  <2> DEFINE B(k) == k < n /\ ~ (from[n - k] <=> w(n - k))
             Bad == {k \in 0 .. n : B(k)}
  <2>1. Bad = {}
    <3> SUFFICES ASSUME Bad # {} PROVE FALSE
      OBVIOUS
    <3>1. PICK k \in Bad : \A l \in Bad : k <= l
      <4> HIDE DEF B
      <4>1. Bad \subseteq Nat
        BY <1>1
      <4> HIDE DEF Bad
      <4>2. QED
        BY <4>1, LeastNatural
    <3>2. PICK i \in 1 .. n : i = n - k
      BY <1>1, <3>1
    <3>3. k \in Nat /\ k = n - i /\ ~ (from[i] <=> w(i))
      BY <1>1, <3>1, <3>2
    <3>4. from[i] <=> P(i) /\ from[list.next[i]]
      <4>1. i \in 0 .. n /\ i # 0
        BY <1>1
      <4>2. from[i] = IF i = 0 THEN TRUE ELSE P(i) /\ from[list.next[i]]
        BY <1>3, <4>1
      <4>3. QED
        BY <4>1, <4>2
    <3>5. CASE i = n
      <4>1. w(i) <=> P(i)
        BY <1>1, <1>w, <3>5
      <4>2. list.next[i] = 0
        BY <1>2, <3>5
      <4>3. QED
        BY <1>4, <3>3, <3>4, <4>1, <4>2
    <3>6. CASE i < n
      <4>1. k - 1 \in 0 .. n /\ k - 1 < n /\ ~ (k <= k - 1) /\ n - (k - 1) = i + 1
        BY <1>1, <3>3, <3>6
      <4>2. k - 1 \notin Bad
        BY <3>1, <4>1
      <4>3. from[i + 1] <=> w(i + 1)
        BY <4>1, <4>2
      <4>4. list.next[i] = i + 1
        BY <1>2, <3>6
      <4>5. w(i) <=> P(i) /\ w(i + 1)
        BY <1>w, <3>6
      <4>6. QED
        BY <3>3, <3>4, <4>3, <4>4, <4>5
    <3>7. QED
      BY <1>1, <3>5, <3>6
  <2>2. SUFFICES ASSUME NEW i \in 1 .. n PROVE from[i] <=> w(i)
    OBVIOUS
  <2>3. n - i \in 0 .. n /\ n - i < n /\ n - (n - i) = i
    BY <1>1
  <2>4. n - i \notin Bad
    BY <2>1
  <2>5. QED
    BY <2>3, <2>4
<1>7. CASE n = 0
  <2>1. list.head = 0 /\ AllPass(list, item)
    BY <1>7 DEF Chained, AllPass, n
  <2>2. QED
    BY <1>4, <2>1
<1>8. CASE n # 0
  <2>1. list.head = 1 /\ 1 \in 1 .. n
    BY <1>1, <1>8 DEF Chained, n
  <2>2. QED
    BY <1>5, <1>6, <2>1
<1>9. QED
  BY <1>7, <1>8

\* Such a function exists, so that PassesList is what it says.
LEMMA PassesAll ==
  ASSUME NEW list, Chained(list), NEW item
  PROVE  PassesList(list, item) <=> AllPass(list, item)
<1> DEFINE n == Len(list.nodes)
           P(i) == Passes(list.nodes[i], item)
           Eq(f) == f = [i \in 0 .. n |-> IF i = 0 THEN TRUE ELSE P(i) /\ f[list.next[i]]]
           v == [i \in 0 .. n |-> IF i = 0 THEN TRUE ELSE \A j \in i .. n : P(j)]
           F == CHOOSE f : Eq(f)
<1>1. n \in Nat
  BY DEF Chained
<1>2. \A i \in 1 .. n : list.next[i] = IF i < n THEN i + 1 ELSE 0
  BY DEF Chained
<1>3. Eq(v)
  <2> HIDE DEF P, n
  <2>1. ASSUME NEW i \in 1 .. n
        PROVE  (\A j \in i .. n : P(j)) <=> P(i) /\ v[list.next[i]]
    <3>1. CASE i = n
      <4>1. list.next[i] = 0 /\ i .. n = {i}
        BY <1>1, <1>2, <3>1
      <4>2. v[0]
        BY <1>1
      <4>3. QED
        BY <4>1, <4>2
    <3>2. CASE i < n
      <4>1. list.next[i] = i + 1 /\ i + 1 \in 0 .. n /\ i + 1 # 0
        BY <1>1, <1>2, <3>2
      <4>2. v[i + 1] <=> \A j \in (i + 1) .. n : P(j)
        BY <4>1
      <4>3. i .. n = {i} \cup ((i + 1) .. n)
        BY <1>1
      <4>4. QED
        BY <4>1, <4>2, <4>3
    <3>3. QED
      BY <1>1, <3>1, <3>2
  <2> DEFINE a(i) == IF i = 0 THEN TRUE ELSE \A j \in i .. n : P(j)
             b(i) == IF i = 0 THEN TRUE ELSE P(i) /\ v[list.next[i]]
  <2>2. \A i \in 0 .. n : a(i) = b(i)
    <3> SUFFICES ASSUME NEW i \in 0 .. n PROVE a(i) = b(i)
      OBVIOUS
    <3>1. CASE i = 0
      BY <3>1
    <3>2. CASE i # 0
      <4>1. i \in 1 .. n
        BY <1>1, <3>2
      <4> HIDE DEF v
      <4>2. QED
        BY <2>1, <3>2, <4>1
    <3>3. QED
      BY <3>1, <3>2
  <2>3. v = [i \in 0 .. n |-> a(i)]
    OBVIOUS
  <2> HIDE DEF a, v
  <2>4. v = [i \in 0 .. n |-> b(i)]
    <3> HIDE DEF b
    <3>1. QED
      BY <2>2, <2>3
  <2>5. QED
    BY <2>4
<1>4. Eq(F)
  <2> HIDE DEF Eq, v
  <2>1. QED
    BY <1>3
<1>5. F[list.head] <=> AllPass(list, item)
  <2> HIDE DEF F
  <2>1. QED
    BY <1>4, FromUnique
<1>6. PassesList(list, item) = F[list.head]
  BY DEF PassesList
<1>7. QED
  BY <1>5, <1>6
-----------------------------------------------------------------------------
(* Making a list *)

LEMMA SeqOfElements ==
  ASSUME NEW S, NEW s \in Seq(S)
  PROVE  s \in Seq(Range(s)) /\ Len(s) \in Nat /\ DOMAIN s = 1 .. Len(s)
<1>1. s \in [1 .. Len(s) -> S] /\ Len(s) \in Nat /\ DOMAIN s = 1 .. Len(s)
  BY LenProperties
<1>2. s \in [1 .. Len(s) -> Range(s)]
  BY <1>1 DEF Range
<1>3. \A T : \A n \in Nat : [1 .. n -> T] \subseteq Seq(T)
  BY SeqDef
<1>4. QED
  BY <1>1, <1>2, <1>3

\* A filter attached where the last one is comes last.
LEMMA AttachChained ==
  ASSUME NEW list, Chained(list), NEW node, NEW made,
         made = Attach(list, Len(list.nodes), node)
  PROVE  /\ Chained(made)
         /\ Len(made.nodes) = Len(list.nodes) + 1
         /\ \A item : AllPass(made, item) <=> AllPass(list, item) /\ Passes(node, item)
<1> DEFINE n == Len(list.nodes)
           S == Range(list.nodes) \cup {node}
<1>1. n \in Nat
  BY DEF Chained
<1>2. list.nodes \in Seq(S) /\ node \in S
  <2>1. list.nodes \in Seq(Range(list.nodes)) /\ Range(list.nodes) \subseteq S
    BY DEF Chained
  <2>2. QED
    BY <2>1
<1>3. made.nodes = Append(list.nodes, node)
  BY DEF Attach
<1> HIDE DEF S
<1>4. /\ made.nodes \in Seq(S) /\ Len(made.nodes) = n + 1
      /\ \A i \in 1 .. n : made.nodes[i] = list.nodes[i]
      /\ made.nodes[n + 1] = node
  BY <1>2, <1>3, AppendProperties
<1>5. made.nodes \in Seq(Range(made.nodes))
  BY <1>4, SeqOfElements
<1>6. made.head = 1
  BY <1>1 DEF Attach, Chained
<1>7. made.next = [i \in 1 .. n + 1 |-> IF i < n + 1 THEN i + 1 ELSE 0]
  <2> DEFINE a(i) == IF i = n + 1 THEN 0
                     ELSE IF list.head # 0 /\ i = n THEN n + 1 ELSE list.next[i]
             b(i) == IF i < n + 1 THEN i + 1 ELSE 0
  <2>1. made.next = [i \in 1 .. n + 1 |-> a(i)]
    BY DEF Attach
  <2>2. \A i \in 1 .. n + 1 : a(i) = b(i)
    BY <1>1 DEF Chained
  <2> HIDE DEF a, b
  <2>3. made.next = [i \in 1 .. n + 1 |-> b(i)]
    BY <2>1, <2>2
  <2>4. QED
    BY <2>3 DEF b
<1>8. Chained(made)
  BY <1>1, <1>4, <1>5, <1>6, <1>7 DEF Chained
<1>9. ASSUME NEW item
      PROVE  AllPass(made, item) <=> AllPass(list, item) /\ Passes(node, item)
  <2>1. 1 .. n + 1 = (1 .. n) \cup {n + 1}
    BY <1>1
  <2>2. QED
    BY <1>4, <2>1 DEF AllPass
<1>10. QED
  BY <1>4, <1>8, <1>9

LEMMA NoFiltersChained ==
  /\ Chained(NoFilters) /\ Len(NoFilters.nodes) = 0
  /\ \A item : AllPass(NoFilters, item)
BY DEF NoFilters, Chained, AllPass

\* The filter made of a member lets pass what the member holds for; hashing
\* apart integers and doubles is what makes a list of values compare as it is
\* written.
LEMMA MemberMeans ==
  ASSUME NEW name, NEW value, Comparable(value), NEW item \in Stored
  PROVE  /\ value.t = "array" =>
              (Passes(InFilter(name, value.list), item) <=> Holds(name, value, item))
         /\ value.t \in {"object", "null"} => Holds(name, value, item)
         /\ value.t \notin {"array", "object", "null"} =>
              (Passes(EqualFilter(name, value), item) <=> Holds(name, value, item))
<1>1. CASE value.t = "array"
  <2> DEFINE node == InFilter(name, value.list)
  <2>1. Holds(name, value, item) <=>
          \E w \in Range(value.list) :
            IF name \in DOMAIN item THEN w.t # "null" /\ w = item[name] ELSE w.t = "null"
    BY <1>1 DEF Holds
  <2>2. /\ node.attr = name /\ node.op = "in"
        /\ node.values = {v \in Range(value.list) : v.t # "null"}
        /\ node.allowMiss = \E v \in Range(value.list) : v.t = "null"
    BY DEF InFilter
  <2> HIDE DEF node
  <2>3. CASE name \in DOMAIN item
    <3>1. IsScalar(item[name]) /\ item[name].t \notin {"array", "object"}
      BY <2>3, StoredAssumption
    <3>2. \A w \in Range(value.list) : w.t \in {"array", "object"} \/ IsScalar(w)
      BY <1>1 DEF Comparable
    <3>3. ASSUME NEW w \in Range(value.list)
          PROVE  w = item[name] <=> w.t = item[name].t /\ Same(item[name], w)
      <4>1. CASE w.t = item[name].t /\ Same(item[name], w)
        BY <3>1, <3>2, <4>1 DEF IsScalar, Same
      <4>2. CASE w = item[name]
        BY <4>2 DEF Same
      <4>3. QED
        BY <4>1, <4>2
    <3>4. Passes(node, item) <=> Contains(node.values, item[name])
      BY <2>2, <2>3 DEF Passes
    <3>5. QED
      BY <1>1, <2>1, <2>2, <2>3, <3>3, <3>4 DEF Contains, node
  <2>4. CASE name \notin DOMAIN item
    BY <1>1, <2>1, <2>2, <2>4 DEF Passes, node
  <2>5. QED
    BY <2>3, <2>4
<1>2. CASE value.t \in {"object", "null"}
  BY <1>2 DEF Holds
<1>3. CASE value.t \notin {"array", "object", "null"}
  BY <1>3 DEF Holds, EqualFilter, Passes
<1>4. QED
  BY <1>1, <1>2, <1>3
-----------------------------------------------------------------------------
(* Every step *)

\* A side nobody is at work on keeps what it has.
LEMMA SideRests ==
  ASSUME NEW side \in Sides, SideInv(side),
         chain'[side] = chain[side], IsSource(Source(side))', stage' # side,
         stage' \in Unbegun(side) => stage \in Unbegun(side),
         stage' \in Done(side) => stage \in Done(side) /\ Source(side)' = Source(side)
  PROVE  SideInv(side)'
BY DEF SideInv, Chained, AllPass

\* One filter is all there is to a condition that is an array or a number.
LEMMA RebuildSide ==
  ASSUME NEW side \in Sides, NEW next \in Done(side) \ Sides, Record, SideInv(side),
         stage \in Unbegun(side), Rebuild(side, next), UNCHANGED query
  PROVE  /\ SideInv(side)' /\ Record' /\ stage' \in {side, next}
         /\ \A other \in Sides \ {side} : chain'[other] = chain[other]
<1> DEFINE cond == Source(side)
<1>1. chain[side] = NoFilters /\ IsSource(cond) /\ cond' = cond
  BY DEF SideInv, Source
<1>2. next \notin Unbegun(side) /\ side \notin Unbegun(side) /\ side \notin Done(side)
  BY DEF Sides, Unbegun, Done
<1>3. cond # Null => (cond.t \in {"object", "array", "uint"} /\ Comparable(cond)
                      /\ (cond.t = "object" => /\ cond.members \in Seq(Range(cond.members))
                                               /\ \A i \in DOMAIN cond.members :
                                                    Comparable(cond.members[i][2])))
  BY <1>1, ConditionsAssumption DEF IsSource
<1>4. CASE cond = Null
  <2>1. stage' = next /\ UNCHANGED <<chain, cursor, left>>
    BY <1>4 DEF Rebuild, filterVars
  <2>2. \A item \in Stored : AllPass(chain[side], item) <=> Meets(cond, item)
    BY <1>1, <1>4, NoFiltersChained DEF Meets
  <2>3. QED
    BY <1>1, <1>2, <2>1, <2>2 DEF SideInv, Record, Chained, AllPass
<1>5. CASE cond # Null /\ cond.t \in {"array", "uint"}
  <2> DEFINE node == IF cond.t = "array" THEN InFilter(KeyId, cond.list)
                                         ELSE EqualFilter(KeyId, cond)
             made == Attach(NoFilters, 0, node)
  <2>1. stage' = next /\ chain' = [chain EXCEPT ![side] = made]
    BY <1>5 DEF Rebuild
  <2>2. /\ Chained(made)
        /\ \A item : AllPass(made, item) <=> AllPass(NoFilters, item) /\ Passes(node, item)
    <3> HIDE DEF node
    <3>1. QED
      BY NoFiltersChained, AttachChained
  <2>3. ASSUME NEW item \in Stored
        PROVE  Passes(node, item) <=> Meets(cond, item)
    <3>1. Meets(cond, item) <=> Holds(KeyId, cond, item)
      BY <1>5 DEF Meets
    <3>2. Passes(node, item) <=> Holds(KeyId, cond, item)
      BY <1>3, <1>5, MemberMeans
    <3>3. QED
      BY <3>1, <3>2
  <2> HIDE DEF made, node
  <2>4. /\ chain'[side] = made /\ Record'
        /\ \A other \in Sides \ {side} : chain'[other] = chain[other]
    BY <2>1 DEF Record, Sides
  <2>5. \A item \in Stored : AllPass(made, item) <=> Meets(cond, item)
    BY <2>2, <2>3, NoFiltersChained
  <2>6. SideInv(side)'
    <3>1. Chained(chain[side])' /\ IsSource(cond)' /\ stage' = next
      BY <1>1, <2>1, <2>2, <2>4 DEF Chained
    <3>2. \A item \in Stored : AllPass(chain[side], item)' <=> Meets(cond, item)'
      BY <1>1, <2>4, <2>5 DEF AllPass
    <3>3. QED
      BY <1>2, <3>1, <3>2 DEF SideInv
  <2>7. QED
    BY <2>1, <2>4, <2>6
<1>6. CASE cond # Null /\ cond.t = "object"
  <2>1. left' = cond.members /\ cursor' = 0 /\ stage' = side /\ chain' = chain
    BY <1>6 DEF Rebuild
  <2>2. left' \in Seq(Range(left')) /\ DOMAIN left' = 1 .. Len(left')
    BY <1>3, <1>6, <2>1, SeqOfElements
  <2>3. \A item \in Stored : Meets(cond, item) <=> LeftHold(item)'
    <3> SUFFICES ASSUME NEW item \in Stored
                 PROVE  Meets(cond, item) <=> LeftHold(item)'
      OBVIOUS
    <3>1. Meets(cond, item) <=>
            \A i \in DOMAIN cond.members :
              Holds(cond.members[i][1], cond.members[i][2], item)
      BY <1>6 DEF Meets
    <3>2. QED
      BY <2>1, <2>2, <3>1 DEF LeftHold
  <2>4. \A item \in Stored :
          AllPass(chain[side], item)' /\ LeftHold(item)' <=> Meets(cond, item)'
    BY <1>1, <2>1, <2>3, NoFiltersChained DEF AllPass
  <2>5. SideInv(side)'
    <3>1. Chained(chain[side])' /\ cursor' = Len(chain'[side].nodes)
      BY <1>1, <2>1, NoFiltersChained DEF Chained
    <3>2. \A i \in 1 .. Len(left') : Comparable(left'[i][2])
      BY <1>3, <1>6, <2>1, <2>2
    <3>3. stage' = side /\ IsSource(cond)'
      BY <1>1, <2>1
    <3>4. QED
      BY <1>2, <2>2, <2>4, <3>1, <3>2, <3>3 DEF SideInv
  <2>6. QED
    BY <2>1, <2>5 DEF Record
<1>7. QED
  BY <1>3, <1>4, <1>5, <1>6

\* A member adds the filter that means what it does, or none and is no more
\* left; after the last member the filters mean what the condition does.
LEMMA ByCondSide ==
  ASSUME NEW side \in Sides, NEW next \in Done(side) \ Sides, Record, SideInv(side),
         ByCond(side, next)
  PROVE  /\ SideInv(side)' /\ Record' /\ stage' \in {side, next}
         /\ \A other \in Sides \ {side} : chain'[other] = chain[other]
<1> DEFINE cond == Source(side)
<1>1. /\ stage = side /\ query' = query /\ IsSource(cond) /\ cond' = cond
      /\ Chained(chain[side]) /\ cursor = Len(chain[side].nodes)
      /\ left \in Seq(Range(left)) /\ \A i \in 1 .. Len(left) : Comparable(left[i][2])
      /\ \A item \in Stored :
           AllPass(chain[side], item) /\ LeftHold(item) <=> Meets(cond, item)
  BY DEF ByCond, SideInv, Source
<1>2. next \notin Unbegun(side) /\ side \notin Unbegun(side) /\ side \notin Done(side)
  BY DEF Sides, Unbegun, Done
<1>3. CASE left = <<>>
  <2>1. stage' = next /\ UNCHANGED <<chain, cursor, left>>
    BY <1>3 DEF ByCond, filterVars
  <2>2. \A item : LeftHold(item)
    BY <1>3 DEF LeftHold
  <2>3. \A item \in Stored : AllPass(chain[side], item)' <=> Meets(cond, item)'
    BY <1>1, <2>1, <2>2 DEF AllPass
  <2>4. Chained(chain[side])'
    BY <1>1, <2>1 DEF Chained
  <2>5. QED
    BY <1>1, <1>2, <2>1, <2>3, <2>4 DEF SideInv, Record
<1>4. CASE left # <<>>
  <2> DEFINE name == left[1][1]
             value == left[1][2]
             node == IF value.t = "array" THEN InFilter(name, value.list)
                                          ELSE EqualFilter(name, value)
             made == Attach(chain[side], cursor, node)
             dropped == value.t \in {"object", "null"}
  <2>1. /\ Head(left) = left[1] /\ Len(left) \in Nat \ {0}
        /\ left' \in Seq(Range(left)) /\ Len(left') = Len(left) - 1
        /\ \A i \in 1 .. Len(left') : left'[i] = left[i + 1]
        /\ stage' = side
    <3>1. Head(left) = left[1] /\ left' = Tail(left) /\ stage' = stage
      BY <1>1, <1>4 DEF ByCond
    <3>2. Len(left) \in Nat \ {0}
      BY <1>1, <1>4, EmptySeq
    <3>3. QED
      BY <1>1, <1>4, <3>1, <3>2, HeadTailProperties
  <2>2. left' \in Seq(Range(left')) /\ \A i \in 1 .. Len(left') : Comparable(left'[i][2])
    <3>1. \A i \in 1 .. Len(left') : i + 1 \in 1 .. Len(left)
      BY <2>1
    <3>2. QED
      BY <1>1, <2>1, <3>1, SeqOfElements
  <2>3. \A item : LeftHold(item) <=> Holds(name, value, item) /\ LeftHold(item)'
    <3> SUFFICES ASSUME NEW item
                 PROVE  LeftHold(item) <=> Holds(name, value, item) /\ LeftHold(item)'
      OBVIOUS
    <3> DEFINE H(i) == Holds(left[i][1], left[i][2], item)
    <3>1. LeftHold(item)' <=> \A i \in 1 .. Len(left') : H(i + 1)
      BY <2>1 DEF LeftHold
    <3>2. LeftHold(item) <=> \A i \in 1 .. Len(left) : H(i)
      BY DEF LeftHold
    <3> HIDE DEF H
    <3>3. \A i \in 1 .. Len(left) : i = 1 \/ (i - 1 \in 1 .. Len(left') /\ (i - 1) + 1 = i)
      BY <2>1
    <3>4. (\A i \in 1 .. Len(left) : H(i)) <=> H(1) /\ \A i \in 1 .. Len(left') : H(i + 1)
      <4>1. ASSUME \A i \in 1 .. Len(left) : H(i)
            PROVE  H(1) /\ \A i \in 1 .. Len(left') : H(i + 1)
        BY <2>1, <4>1
      <4>2. ASSUME H(1), \A i \in 1 .. Len(left') : H(i + 1), NEW i \in 1 .. Len(left)
            PROVE  H(i)
        BY <3>3, <4>2
      <4>3. QED
        BY <4>1, <4>2
    <3>5. QED
      BY <3>1, <3>2, <3>4 DEF H
  <2>4. /\ Comparable(value)
        /\ dropped => UNCHANGED <<chain, cursor>>
        /\ ~ dropped => /\ chain' = [chain EXCEPT ![side] = made]
                        /\ cursor' = Len(chain[side].nodes) + 1
    <3>1. Comparable(value)
      BY <1>1, <2>1
    <3>2. Head(left)[1] = name /\ Head(left)[2] = value
      BY <2>1
    <3>3. QED
      BY <1>4, <3>1, <3>2 DEF ByCond
  <2>5. CASE dropped
    <3>1. UNCHANGED <<chain, cursor>> /\ \A item \in Stored : Holds(name, value, item)
      BY <2>4, <2>5, MemberMeans
    <3>2. \A item \in Stored :
            AllPass(chain[side], item)' /\ LeftHold(item)' <=> Meets(cond, item)'
      BY <1>1, <2>3, <3>1 DEF AllPass
    <3>3. Chained(chain[side])' /\ cursor' = Len(chain'[side].nodes)
      BY <1>1, <3>1 DEF Chained
    <3>4. QED
      BY <1>1, <1>2, <2>1, <2>2, <3>1, <3>2, <3>3 DEF SideInv, Record
  <2>6. CASE ~ dropped
    <3>1. \A item \in Stored : Passes(node, item) <=> Holds(name, value, item)
      BY <2>4, <2>6, MemberMeans
    <3>2. /\ Chained(made) /\ Len(made.nodes) = Len(chain[side].nodes) + 1
          /\ \A item : AllPass(made, item) <=> AllPass(chain[side], item) /\ Passes(node, item)
      <4> HIDE DEF node
      <4>1. QED
        BY <1>1, AttachChained
    <3> HIDE DEF made, node
    <3>3. /\ chain'[side] = made /\ Record'
          /\ \A other \in Sides \ {side} : chain'[other] = chain[other]
      BY <2>4, <2>6 DEF Record, Sides
    <3>4. \A item \in Stored :
            AllPass(chain[side], item)' /\ LeftHold(item)' <=> Meets(cond, item)'
      <4>1. \A item : AllPass(chain[side], item)' <=> AllPass(made, item)
        BY <3>3 DEF AllPass
      <4>2. QED
        BY <1>1, <2>3, <3>1, <3>2, <4>1
    <3>5. Chained(chain[side])' /\ cursor' = Len(chain'[side].nodes)
      BY <2>4, <2>6, <3>2, <3>3 DEF Chained
    <3>6. QED
      BY <1>1, <1>2, <2>1, <2>2, <3>3, <3>4, <3>5 DEF SideInv
  <2>7. QED
    BY <2>5, <2>6
<1>5. QED
  BY <1>3, <1>4

\* Members are read before there is a chain; what a condition points to is one
\* of the conditions, and neither null nor empty.
LEMMA ParseSide ==
  ASSUME NEW side \in Sides, ShapeInv, SideInv(side), QueryNext, UNCHANGED filterVars
  PROVE  SideInv(side)'
<1> DEFINE early == {"payload", "prefix", "filters", "excludes", "fields", "revise", "loop",
                     "num", "chain", "no_query", "bad_query", "died"}
<1>1. /\ stage \in early \ {"chain"} /\ stage' \in early
  BY DEF QueryNext, ReadPayload, ReadPrefix, ReadFilters, ReadExcludes, ReadFields,
         ReviseStart, ReviseRound, ReviseEnd, ReadNum
<1>2. early \subseteq Unbegun(side) /\ early \cap Done(side) = {} /\ side \notin early
  BY DEF Sides, Unbegun, Done, Stages, Ended, Refusals
<1>3. \A cond \in Conditions : IsSource(Condition(cond))
  BY DEF Condition, IsSource
<1>4. IsSource(Source(side))'
  <2>1. CASE ReadFilters
    <3>1. PICK cond \in Conditions : query' = [query EXCEPT !.filters = Condition(cond)]
      BY <2>1 DEF ReadFilters
    <3> USE DEF ShapeInv
    <3>2. query'.filters = query.filters \/ query'.filters = Condition(cond)
      BY <3>1
    <3>3. query'.excludes = query.excludes
      BY <3>1
    <3>4. QED
      BY <1>3, <3>2, <3>3 DEF SideInv, Source, IsSource
  <2>2. CASE ReadExcludes
    <3>1. PICK cond \in Conditions : query' = [query EXCEPT !.excludes = Condition(cond)]
      BY <2>2 DEF ReadExcludes
    <3> USE DEF ShapeInv
    <3>2. query'.excludes = query.excludes \/ query'.excludes = Condition(cond)
      BY <3>1
    <3>3. query'.filters = query.filters
      BY <3>1
    <3>4. QED
      BY <1>3, <3>2, <3>3 DEF SideInv, Source, IsSource
  <2>3. CASE /\ ~ ReadFilters /\ ~ ReadExcludes
    <3>1. query'.filters = query.filters /\ query'.excludes = query.excludes
      <4>1. CASE ReadPrefix
        <5>1. \E n : query' = [query EXCEPT !.prefix = n]
          <6>1. query' = query => query' = [query EXCEPT !.prefix = query.prefix]
            BY DEF ShapeInv
          <6>2. QED
            BY <4>1, <6>1 DEF ReadPrefix
        <5>2. QED
          BY <5>1 DEF ShapeInv
      <4>2. CASE ~ ReadPrefix
        BY <2>3, <4>2 DEF ShapeInv, QueryNext, ReadPayload, ReadFields,
                          ReviseStart, ReviseRound, ReviseEnd, ReadNum
      <4>3. QED
        BY <4>1, <4>2
    <3>2. QED
      BY <3>1 DEF SideInv, Source, IsSource
  <2>4. QED
    BY <2>1, <2>2, <2>3
<1> HIDE DEF early
<1>5. QED
  BY <1>1, <1>2, <1>4, SideRests DEF filterVars

LEMMA InitChain == Init => ChainInv
<1> SUFFICES ASSUME Init PROVE ChainInv
  OBVIOUS
<1>1. /\ chain = [filter |-> NoFilters, exclude |-> NoFilters] /\ stage = "payload"
      /\ query.filters = Null /\ query.excludes = Null
  BY DEF Init, FilterInit, QueryInit
<1>2. ASSUME NEW side \in Sides PROVE SideInv(side)
  <2>1. chain[side] = NoFilters /\ Source(side) = Null
    BY <1>1 DEF Sides, Source
  <2>2. stage # side /\ stage \notin Done(side)
    BY <1>1 DEF Sides, Done
  <2>3. QED
    BY <2>1, <2>2, NoFiltersChained DEF SideInv, IsSource
<1>3. QED
  BY <1>1, <1>2 DEF ChainInv, Record

LEMMA NextChain == QueryInv /\ ChainInv /\ [Next]_vars => ChainInv'
<1> SUFFICES ASSUME QueryInv, ChainInv, [Next]_vars PROVE ChainInv'
  OBVIOUS
<1>1. Record /\ \A side \in Sides : SideInv(side)
  BY DEF ChainInv
<1>2. CASE UNCHANGED <<stage, query, filterVars>>
  <2>1. \A side \in Sides : IsSource(Source(side))
    BY <1>1 DEF SideInv
  <2>2. ASSUME NEW side \in Sides PROVE SideInv(side)'
    <3>1. Source(side)' = Source(side) /\ IsSource(Source(side))'
      BY <1>2, <2>1 DEF Source, IsSource
    <3>2. SideInv(side)
      BY <1>1
    <3>3. \A item : AllPass(chain[side], item)' <=> AllPass(chain[side], item)
      BY <1>2 DEF filterVars, AllPass
    <3>4. \A item : LeftHold(item)' <=> LeftHold(item)
      BY <1>2 DEF filterVars, LeftHold
    <3>5. Chained(chain[side])'
      BY <1>2, <3>2 DEF filterVars, SideInv, Chained
    <3>6. QED
      BY <1>2, <3>1, <3>2, <3>3, <3>4, <3>5 DEF SideInv, filterVars
  <2>3. QED
    BY <1>1, <1>2, <2>2 DEF ChainInv, Record, filterVars
<1>3. CASE UNCHANGED vars
  BY <1>2, <1>3 DEF vars, queryVars
<1>4. CASE Startup
  BY <1>2, <1>4 DEF Startup, queryVars
<1>5. CASE Parse
  <2>1. ShapeInv /\ QueryNext /\ UNCHANGED filterVars
    BY <1>5 DEF Parse, QueryInv, FieldsInv
  <2>2. \A side \in Sides : SideInv(side)'
    BY <1>1, <2>1, ParseSide
  <2>3. QED
    BY <1>1, <2>1, <2>2 DEF ChainInv, Record, filterVars
<1>6. CASE predict
  <2>1. stage = "seek" /\ stage' = "replied" /\ UNCHANGED <<query, chain, cursor, left>>
    BY <1>6 DEF predict, filterVars
  <2>2. ASSUME NEW side \in Sides PROVE SideInv(side)'
    <3>1. Source(side)' = Source(side) /\ IsSource(Source(side))' /\ SideInv(side)
      BY <1>1, <2>1 DEF Source, SideInv, IsSource
    <3>2. /\ stage' # side /\ stage' \notin Unbegun(side) /\ stage \in Done(side)
          /\ chain'[side] = chain[side]
      BY <2>1 DEF Sides, Unbegun, Done
    <3>3. QED
      BY <3>1, <3>2, SideRests
  <2>3. QED
    BY <1>1, <2>1, <2>2 DEF ChainInv, Record
<1>7. ASSUME NEW side \in Sides, NEW other \in Sides \ {side}, NEW next \in Done(side) \ Sides,
             UNCHANGED query,
             \/ stage \in Unbegun(side) /\ Rebuild(side, next)
             \/ ByCond(side, next),
             \A s \in {side, next} : /\ s # other
                                     /\ s \in Unbegun(other) => stage \in Unbegun(other)
                                     /\ s \in Done(other) => stage \in Done(other)
      PROVE  ChainInv'
  <2>1. SideInv(side) /\ SideInv(other)
    BY <1>1
  <2>2. /\ SideInv(side)' /\ Record' /\ stage' \in {side, next}
        /\ chain'[other] = chain[other]
    BY <1>1, <1>7, <2>1, RebuildSide, ByCondSide
  <2>3. Source(other)' = Source(other) /\ IsSource(Source(other))'
    BY <1>7, <2>1 DEF Source, SideInv, IsSource
  <2>4. SideInv(other)'
    BY <1>7, <2>1, <2>2, <2>3, SideRests
  <2>5. Sides = {side, other}
    BY DEF Sides
  <2>6. QED
    BY <2>2, <2>4, <2>5 DEF ChainInv
<1>8. CASE Build
  <2>1. UNCHANGED query
    BY <1>8 DEF Build, RebuildFilter, RebuildExclude, ByCond
  <2>2. CASE RebuildFilter \/ ByCond("filter", "chain2")
    <3>1. /\ stage \in {"chain", "filter"}
          /\ \/ stage \in Unbegun("filter") /\ Rebuild("filter", "chain2")
             \/ ByCond("filter", "chain2")
      BY <2>2 DEF RebuildFilter, ByCond, Unbegun, Stages
    <3>2. \A s \in {"filter", "chain2"} :
            /\ s # "exclude"
            /\ s \in Unbegun("exclude") => stage \in Unbegun("exclude")
            /\ s \in Done("exclude") => stage \in Done("exclude")
      BY <3>1 DEF Unbegun, Done, Stages
    <3>3. /\ "filter" \in Sides /\ "exclude" \in Sides \ {"filter"}
          /\ "chain2" \in Done("filter") \ Sides
      BY DEF Sides, Done
    <3>4. QED
      BY <1>7, <2>1, <3>1, <3>2, <3>3
  <2>3. CASE RebuildExclude \/ ByCond("exclude", "seek")
    <3>1. /\ stage \in {"chain2", "exclude"}
          /\ \/ stage \in Unbegun("exclude") /\ Rebuild("exclude", "seek")
             \/ ByCond("exclude", "seek")
      BY <2>3 DEF RebuildExclude, ByCond, Unbegun, Stages
    <3>2. \A s \in {"exclude", "seek"} :
            /\ s # "filter"
            /\ s \in Unbegun("filter") => stage \in Unbegun("filter")
            /\ s \in Done("filter") => stage \in Done("filter")
      BY <3>1 DEF Unbegun, Done
    <3>3. /\ "exclude" \in Sides /\ "filter" \in Sides \ {"exclude"}
          /\ "seek" \in Done("exclude") \ Sides
      BY DEF Sides, Done
    <3>4. QED
      BY <1>7, <2>1, <3>1, <3>2, <3>3
  <2>4. QED
    BY <1>8, <2>2, <2>3 DEF Build
<1>9. QED
  BY <1>3, <1>4, <1>5, <1>6, <1>8 DEF Next

LEMMA ChainInvariance == Spec => [](QueryInv /\ ChainInv)
<1>1. QueryInv /\ [Next]_vars => QueryInv'
  BY NextOptions, NextFields, NextFlow DEF QueryInv
<1>2. Init => QueryInv /\ ChainInv
  BY InitOptions, InitFields, InitFlow, InitChain DEF QueryInv
<1>3. QED
  BY <1>1, <1>2, NextChain, PTL DEF Spec
-----------------------------------------------------------------------------
(* The theorems *)

\* The state has its type, and lists of filters have no loose ends.
THEOREM TypeCorrect == Spec => []TypeOK
<1>1. QueryInv /\ ChainInv => TypeOK
  <2> SUFFICES ASSUME QueryInv, ChainInv PROVE TypeOK
    OBVIOUS
  <2>1. ASSUME NEW side \in Sides
        PROVE  LET list == chain[side]
                   n == Len(list.nodes)
               IN  /\ list.next \in [1 .. n -> 0 .. n] /\ list.head \in 0 .. n
                   /\ list.head = 0 <=> n = 0
    <3>1. Chained(chain[side])
      BY DEF ChainInv, SideInv
    <3>2. Len(chain[side].nodes) \in Nat
      BY <3>1 DEF Chained
    <3>3. QED
      BY <3>1, <3>2 DEF Chained
  <2>2. /\ startup \in {"command_line", "file", "load", "ready", "exit_success", "exit_failure"}
        /\ DOMAIN options = OptionNames /\ DOMAIN config = Fields
        /\ \A o \in OptionNames : options[o].from \in {"default", "command_line", "file"}
    BY DEF QueryInv, OptionsInv
  <2>3. /\ stage \in Stages /\ ahead \subseteq query.fields
        /\ query.prefix \in Nat /\ query.num \in Nat /\ query.fieldsAll \in BOOLEAN
    BY DEF QueryInv, FlowInv
  <2>4. QED
    BY <2>1, <2>2, <2>3 DEF TypeOK, Sides
<1>2. QED
  BY <1>1, ChainInvariance, PTL

\* The lists built by moving a cursor accept exactly the items that meet all the
\* conditions, whatever the conditions and however many.
THEOREM ChainsMeanConditions == Spec => []ChainMeansConditions
<1>1. ChainInv => ChainMeansConditions
  <2> SUFFICES ASSUME ChainInv, stage = "seek", NEW item \in Stored
               PROVE  /\ PassesList(chain.filter, item) <=> Meets(query.filters, item)
                      /\ PassesList(chain.exclude, item) <=> Meets(query.excludes, item)
    BY DEF ChainMeansConditions
  <2>1. ASSUME NEW side \in Sides
        PROVE  PassesList(chain[side], item) <=> Meets(Source(side), item)
    <3>1. SideInv(side) /\ stage \in Done(side)
      BY DEF ChainInv, Done
    <3>2. Chained(chain[side]) /\ (AllPass(chain[side], item) <=> Meets(Source(side), item))
      BY <3>1 DEF SideInv
    <3>3. QED
      BY <3>2, PassesAll
  <2>2. Source("filter") = query.filters /\ Source("exclude") = query.excludes
    BY DEF Source
  <2>3. QED
    BY <2>1, <2>2 DEF Sides
<1>2. QED
  BY <1>1, ChainInvariance, PTL
=============================================================================
