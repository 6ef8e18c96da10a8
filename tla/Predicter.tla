------------------------------- MODULE Predicter ----------------------------
(***************************************************************************)
(* A predict handler from start-up to reply: the configuration it runs     *)
(* under, the query it takes apart, the filters it hands to the index, and *)
(* the fields of the items it lists.  What the index finds is any choice   *)
(* of items the filters let pass, no more than were asked for.             *)
(***************************************************************************)
EXTENDS Filter

CONSTANT Stored    \* documents of the items in the index

\* An item is a function from names to scalars.
ASSUME StoredAssumption ==
  \A item \in Stored : \A name \in DOMAIN item :
    IsScalar(item[name]) /\ item[name].t \notin {"array", "object"}

VARIABLE shown     \* the reply: item -> the names listed of it

vars == <<optionVars, queryVars, filterVars, shown>>

Init == OptionsInit /\ QueryInit /\ FilterInit /\ shown = [i \in {} |-> {}]

Startup == StartupNext /\ UNCHANGED <<queryVars, filterVars, shown>>

Parse == startup = "ready" /\ QueryNext /\ UNCHANGED <<optionVars, filterVars, shown>>

Build ==
  /\ \/ RebuildFilter \/ ByCond("filter", "chain2")
     \/ RebuildExclude \/ ByCond("exclude", "seek")
  /\ UNCHANGED <<optionVars, shown>>

\* formReply and addItems: the names listed of an item.
addItems(item) == IF query.fieldsAll THEN DOMAIN item ELSE query.fields \cap DOMAIN item

predict ==
  /\ stage = "seek"
  /\ \E found \in SUBSET {i \in Stored : apply(i)} :
       /\ Cardinality(found) <= query.num
       /\ shown' = [i \in found |-> addItems(i)]
  /\ stage' = "replied"
  /\ UNCHANGED <<optionVars, body, query, ahead, filterVars>>

Next == Startup \/ Parse \/ Build \/ predict

Spec == Init /\ [][Next]_vars

-----------------------------------------------------------------------------
(* Properties *)

Ended == Refusals \cup {"died", "replied"}

Stages == {"payload", "prefix", "filters", "excludes", "fields", "revise", "loop", "num",
           "chain", "filter", "chain2", "exclude", "seek"} \cup Ended

\* The state has its type, and lists of filters have no loose ends.
TypeOK ==
  /\ startup \in {"command_line", "file", "load", "ready", "exit_success", "exit_failure"}
  /\ DOMAIN options = OptionNames
  /\ \A o \in OptionNames : options[o].from \in {"default", "command_line", "file"}
  /\ DOMAIN config = Fields
  /\ stage \in Stages
  /\ query.prefix \in Nat /\ query.num \in Nat /\ query.fieldsAll \in BOOLEAN
  /\ ahead \subseteq query.fields
  /\ \A side \in {"filter", "exclude"} :
       LET list == chain[side]
           n == Len(list.nodes)
       IN  list.next \in [1 .. n -> 0 .. n] /\ list.head \in 0 .. n /\ (list.head = 0 <=> n = 0)

Ready == startup = "ready"

\* The option a field is named after.
OwnOption ==
  [connectionMaxIdle  |-> "connection-max-idle",
   itemsAllocStep     |-> "items-allocate-step",
   keyMDPayload       |-> "key-manage-response-payload",
   keyMDToken         |-> "key-manage-response-token",
   keyMDTokenExpire   |-> "key-manage-response-expire",
   checkSign          |-> "check-signature",
   defaultMatches     |-> "default-matches",
   maxMatches         |-> "max-matches",
   queryDataMaxSize   |-> "query-data-max-bytes",
   manageKey          |-> "manage-key",
   manageSecret       |-> "manage-secret"]

\* What a start asks of an option: command line, else file, else table.
Given(o) ==
  o \in DOMAIN invocation.line.given \/ (~ invocation.line.noFile /\ o \in DOMAIN invocation.file)

Effective(o) ==
  IF o \in DOMAIN invocation.line.given THEN invocation.line.given[o]
  ELSE IF ~ invocation.line.noFile /\ o \in DOMAIN invocation.file THEN invocation.file[o]
  ELSE RowOf(o).default

\* A field holds what the option it is named after was given.
TakesEffect(f) ==
  LET o == OwnOption[f]
  IN  IF RowOf(o).kind \in DOMAIN Widths /\ Given(o)
        THEN config[f] \in toInteger(Effective(o), Widths[RowOf(o).kind])
        ELSE config[f] = Effective(o)

\* Once started, these fields hold what their own options were given, the command
\* line before the file, however often options were stored and notified, and though
\* another option writes to itemsAllocStep first.
OptionsTakeEffect ==
  Ready => \A f \in {"checkSign", "itemsAllocStep", "defaultMatches", "maxMatches",
                     "queryDataMaxSize", "manageKey", "manageSecret"} : TakesEffect(f)

\* Options connection-max-idle, "max idle time for each connection", and
\* key-manage-response-payload, -token and -expire, "key name for 'payload'", "for
\* 'token'" and "for 'token-expire' of manage responses": what each is given, or its
\* default, is in the field of its own.
EachHasItsField ==
  Ready => \A f \in {"connectionMaxIdle", "keyMDPayload", "keyMDToken", "keyMDTokenExpire"} :
    TakesEffect(f)

Exactly(text) == IF text.unit = "" THEN text.number ELSE text.number * 2^UnitBits[text.unit]

\* Quantities: what toInteger returns is the quantity written, never one that
\* wrapped; a 32-bit option takes every quantity that fits, but for 0 in a unit out
\* of bounds; a 64-bit one may also refuse what has a unit, taking it for too large.
SizesExact ==
  \A o \in DOMAIN invocation.line.given :
    RowOf(o).kind \in DOMAIN Widths =>
      LET text  == invocation.line.given[o]
          width == Widths[RowOf(o).kind]
          fits  == /\ ~ text.minus /\ text.number \in Nat
                   /\ text.unit \in DOMAIN UnitBits \cup {""} /\ Exactly(text) < 2^width
      IN  \A v \in validate(o, text) :
            /\ v # Refused => fits /\ v = Exactly(text)
            /\ v = Refused /\ fits =>
                 text.unit # "" /\ (RowOf(o).kind = "size" \/ text.number = 0)

\* The meaning of one member of a condition, for an item.
Holds(name, c, item) ==
  CASE c.t = "array" ->
         \E w \in Range(c.list) :
           IF name \in DOMAIN item THEN w.t # "null" /\ w = item[name] ELSE w.t = "null"
    [] c.t \in {"object", "null"} -> TRUE
    [] OTHER -> name \in DOMAIN item /\ Same(item[name], c)

\* The meaning of one side's conditions, read off the body.
Meets(cond, item) ==
  CASE cond = Null -> TRUE
    [] cond # Null /\ cond.t = "object" ->
         \A i \in DOMAIN cond.members : Holds(cond.members[i][1], cond.members[i][2], item)
    [] OTHER -> Holds(KeyId, cond, item)

\* The lists built by moving a cursor accept exactly the items that meet all
\* the conditions, except that conditions which all are objects or null are none.
ChainMeansConditions ==
  stage = "seek" => \A i \in Stored :
    /\ PassesList(chain.filter, i) <=> Meets(query.filters, i)
    /\ chain.exclude.head # 0 => (PassesList(chain.exclude, i) <=> Meets(query.excludes, i))

Revised == {"num", "chain", "filter", "chain2", "exclude", "seek", "replied"}

\* A field the client asked for and may see is listed.
AllowedFieldsKept ==
  stage \in Revised /\ ~ query.fieldsAll =>
    \A f \in Asked(body.fields) : Hidden(f) \/ f \in query.fields

\* What option query-invisible-fields calls invisible: its fields; and all but
\* those of query-visible-fields, when that names some.
Invisible(f) ==
  \/ f \in Range(config.queryInvisibleFields)
  \/ config.queryVisibleFields # << "*" >> /\ f \notin Range(config.queryVisibleFields)

\* No reply lists an invisible field, whatever fields the client asks for and in
\* whatever order the hash set has them.
InvisibleNotListed == \A item \in DOMAIN shown : \A f \in shown[item] : ~ Invisible(f)

\* The index is handed a prefix that is not empty and a number of items that is
\* not 0, as long as default-matches is not; it is at most max-matches, or else
\* default-matches, which need not be.
FeedsSeeker ==
  stage \in {"seek", "replied"} /\ config.defaultMatches > 0 =>
    /\ query.prefix > 0
    /\ query.num > 0
    /\ query.num <= config.maxMatches \/ query.num = config.defaultMatches

\* A query ends the process only where the last field met is hidden, or where
\* the prefix is not a string.
DiesOnlyWhereUndefined ==
  stage = "died" =>
    \/ body.prefix # Null /\ body.prefix.t # "string"
    \/ \E f \in Asked(body.fields) : Hidden(f) /\ f \notin query.fields

\* Option query-visible-fields: "default is '*', means all fields are visible".
\* Then a query that names no fields asks for all of them.
AllVisibleByDefault ==
  /\ stage \in Revised \cup {"loop"}
  /\ body.fields = Null
  /\ options["query-visible-fields"].from = "default"
  /\ options["query-invisible-fields"].from = "default"
  => query.fieldsAll
=============================================================================
