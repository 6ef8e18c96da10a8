-------------------------------- MODULE Query -------------------------------
(***************************************************************************)
(* taboo::Query: what becomes of the body of one query.  Members of the    *)
(* body are read in the order of rebuild and chosen when they are read, so *)
(* that whatever a client may send is met.  A step is a member, or a round *)
(* of one of the loops of reviseFields, whose order is that of a hash set. *)
(***************************************************************************)
EXTENDS Options

CONSTANTS
  Null,           \* the null pointer; of a member of the body: it is absent
  PrefixMinLen, PrefixMaxLen,              \* options of these names
  Prefixes, Conditions, FieldLists, Nums   \* members a body may have

\* A JSON value: scalars [t, v]; strings as prefixes [t, len, cut], cut being
\* where their first NUL is; arrays [t, list], objects [t, members].
ASSUME InputsAssumption ==
  /\ Null \in Prefixes \cap Conditions \cap FieldLists \cap Nums
  /\ \A p \in Prefixes \ {Null} : p.t = "string" => p.len \in Nat /\ p.cut \in 0 .. p.len
  /\ \A n \in Nums \ {Null} : n.t = "uint" => n.v \in Nat
  /\ \A f \in FieldLists \ {Null} : f.t = "array" => f.list \in Seq(Range(f.list))

IsScalar(v) == v = [t |-> v.t, v |-> v.v]

IsArray(v) == v.list \in Seq(Range(v.list))

\* The elements of an array are compared with what an item has.
Comparable(v) ==
  v.t = "array" => IsArray(v) /\ \A w \in Range(v.list) : w.t \in {"array", "object"} \/ IsScalar(w)

\* Members of an object are pairs of a name and a value.
ASSUME ConditionsAssumption ==
  \A cond \in Conditions \ {Null} :
    /\ Comparable(cond)
    /\ cond.t = "object" =>
         /\ cond.members \in Seq(Range(cond.members))
         /\ \A i \in DOMAIN cond.members : Comparable(cond.members[i][2])

VARIABLES
  stage,    \* next member to read, or how the query has ended
  body,     \* what has been read of the body
  query,    \* Query's members
  ahead     \* fields the loop of reviseFields has not come to yet

queryVars == <<stage, body, query, ahead>>

QueryInit ==
  /\ stage = "payload"
  /\ body = [prefix |-> Null, filters |-> Null, excludes |-> Null,
             fields |-> Null, num |-> Null]
  /\ query = [prefix |-> 0, filters |-> Null, excludes |-> Null,
              fields |-> {}, fieldsAll |-> FALSE, num |-> 0]
  /\ ahead = {}

Refusals == {"no_query", "bad_query"}

\* HttpPredicter::process and WsPredicter::process: an empty message is no query
\* for the one, and a bad one for the other, which looks for the parameter.
ReadPayload ==
  /\ stage = "payload"
  /\ \E endpoint \in {"http", "websocket"},
        payload \in {"absent", "empty", "long", "no object", "object"} :
       /\ endpoint = "websocket" => payload # "absent"
       /\ stage' = CASE payload = "object" -> "prefix"
                     [] payload = "absent" \/ (payload = "empty" /\ endpoint = "websocket") -> "no_query"
                     [] OTHER -> "bad_query"
  /\ UNCHANGED <<body, query, ahead>>

Between(n, min, max) == min <= n /\ n <= max

\* Slip: the member is used whether or not it was found.
ReadPrefixUnguarded ==
  /\ stage = "prefix"
  /\ \E p \in Prefixes :
       /\ body' = [body EXCEPT !.prefix = p]
       /\ IF p # Null /\ p.t = "string" /\ Between(p.len, PrefixMinLen, PrefixMaxLen) /\ p.cut > 0
            THEN stage' = "filters" /\ query' = [query EXCEPT !.prefix = p.cut]
            ELSE stage' = (IF p = Null THEN "died" ELSE "bad_query") /\ UNCHANGED query
  /\ UNCHANGED ahead

\* The length of any other value is taken from bytes that are not one: the query
\* is refused, goes on with whatever is there, or (in debug) the process ends.
ReadPrefix ==
  /\ stage = "prefix"
  /\ \E p \in Prefixes :
       /\ body' = [body EXCEPT !.prefix = p]
       /\ \/ /\ p = Null
             /\ stage' = "bad_query" /\ UNCHANGED query
          \/ /\ p # Null /\ p.t # "string"
             /\ stage' \in {"bad_query", "died", "filters"}
             /\ query' = [query EXCEPT !.prefix = IF stage' = "filters" THEN 1 ELSE 0]
          \/ /\ p # Null /\ p.t = "string"
             /\ IF Between(p.len, PrefixMinLen, PrefixMaxLen) /\ p.cut > 0
                  THEN stage' = "filters" /\ query' = [query EXCEPT !.prefix = p.cut]
                  ELSE stage' = "bad_query" /\ UNCHANGED query
  /\ UNCHANGED ahead

IsEmpty(cond) ==
  \/ cond.t = "array" /\ cond.list = <<>>
  \/ cond.t = "object" /\ cond.members = <<>>

\* What filters or excludes points to.
Condition(cond) ==
  IF cond # Null /\ cond.t \in {"object", "array", "uint"} /\ ~ IsEmpty(cond)
    THEN cond ELSE Null

IsCondition(cond) == cond = Null \/ cond.t \in {"object", "array", "uint", "null"}

ReadFilters ==
  /\ stage = "filters"
  /\ \E cond \in Conditions :
       /\ body' = [body EXCEPT !.filters = cond]
       /\ query' = [query EXCEPT !.filters = Condition(cond)]
       /\ stage' = IF IsCondition(cond) THEN "excludes" ELSE "bad_query"
  /\ UNCHANGED ahead

ReadExcludes ==
  /\ stage = "excludes"
  /\ \E cond \in Conditions :
       /\ body' = [body EXCEPT !.excludes = cond]
       /\ query' = [query EXCEPT !.excludes = Condition(cond)]
       /\ stage' = IF IsCondition(cond) THEN "fields" ELSE "bad_query"
  /\ UNCHANGED ahead

\* The names in a "fields" member; one that is neither list nor string is ignored.
Asked(f) ==
  CASE f = Null -> {}
    [] f # Null /\ f.t = "array" -> {x.v : x \in Range(f.list)}
    [] f # Null /\ f.t = "string" -> {f.v}
    [] OTHER -> {}

ReadFields ==
  /\ stage = "fields"
  /\ \E f \in FieldLists :
       /\ body' = [body EXCEPT !.fields = f]
       /\ IF f # Null /\ f.t = "array" /\ \E x \in Range(f.list) : x.t # "string"
            THEN stage' = "bad_query" /\ UNCHANGED query
            ELSE stage' = "revise" /\ query' = [query EXCEPT !.fields = Asked(f)]
  /\ UNCHANGED ahead

\* Whether the loops of reviseFields erase a field.
Hidden(f) ==
  IF queryInvisibleFields = {} THEN f \notin queryVisibleFields
                               ELSE f \in queryInvisibleFields

\* reviseFields up to its loops.
ReviseStart ==
  /\ stage = "revise"
  /\ LET fill == ~ config.queryVisibleAll /\ queryInvisibleFields = {} /\ query.fields = {}
     IN  /\ query' = [query EXCEPT
                        !.fieldsAll = config.queryVisibleAll /\ query.fields = {},
                        !.fields = IF fill THEN queryVisibleFields ELSE @]
         /\ ahead' = IF config.queryVisibleAll \/ fill THEN {} ELSE query.fields
         /\ stage' = "loop"
  /\ UNCHANGED body

\* Slip: the element after the erased one is erased too.
ReviseRoundErasesTwo ==
  /\ stage = "loop"
  /\ \E f \in ahead :
       IF Hidden(f)
         THEN \E g \in ahead \ {f} :
                /\ query' = [query EXCEPT !.fields = @ \ {f, g}]
                /\ ahead' = ahead \ {f, g}
         ELSE ahead' = ahead \ {f} /\ UNCHANGED query
  /\ UNCHANGED <<stage, body>>

\* A round of either loop.  erase returns the iterator to the next element, and
\* the loop increments it: that element is not looked at; if the erased one was
\* the last, the end is incremented, which dereferences null.
ReviseRound ==
  /\ stage = "loop"
  /\ \E f \in ahead :
       IF Hidden(f)
         THEN /\ query' = [query EXCEPT !.fields = @ \ {f}]
              /\ \/ /\ ahead = {f}
                    /\ stage' = "died" /\ ahead' = {}
                 \/ \E g \in ahead \ {f} : ahead' = ahead \ {f, g} /\ UNCHANGED stage
         ELSE ahead' = ahead \ {f} /\ UNCHANGED <<stage, query>>
  /\ UNCHANGED body

ReviseEnd ==
  /\ stage = "loop"
  /\ ahead = {}
  /\ stage' = IF ~ query.fieldsAll /\ query.fields = {} THEN "bad_query" ELSE "num"
  /\ UNCHANGED <<body, query, ahead>>

\* Slip: 0 is not looked for after the minimum is taken.
ReadNumUnchecked ==
  /\ stage = "num"
  /\ \E n \in Nums :
       /\ body' = [body EXCEPT !.num = n]
       /\ query' = [query EXCEPT !.num =
            IF n # Null /\ n.t = "uint"
              THEN IF n.v < config.maxMatches THEN n.v ELSE config.maxMatches
              ELSE config.defaultMatches]
       /\ stage' = "chain"
  /\ UNCHANGED ahead

ReadNum ==
  /\ stage = "num"
  /\ \E n \in Nums :
       LET asked == IF n # Null /\ n.t = "uint"
                      THEN IF n.v < config.maxMatches THEN n.v ELSE config.maxMatches
                      ELSE config.defaultMatches
       IN  /\ body' = [body EXCEPT !.num = n]
           /\ query' = [query EXCEPT !.num = IF asked < 1 THEN config.defaultMatches ELSE asked]
  /\ stage' = "chain"
  /\ UNCHANGED ahead

QueryNext ==
  \/ ReadPayload \/ ReadPrefix \/ ReadFilters \/ ReadExcludes \/ ReadFields
  \/ ReviseStart \/ ReviseRound \/ ReviseEnd \/ ReadNum
=============================================================================
