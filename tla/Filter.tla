-------------------------------- MODULE Filter ------------------------------
(***************************************************************************)
(* taboo::FilterChain: the two lists of filters Seeker::seek builds from a *)
(* query's conditions, one condition at a time, and how an item passes     *)
(* them.  Conditions that are objects or null are dropped on the way.      *)
(***************************************************************************)
EXTENDS Query

CONSTANT KeyId     \* option key-item-id

VARIABLES
  chain,    \* "filter", "exclude" -> the list built for it
  cursor,   \* byCond's cursor into the list it builds, 0 if null
  left      \* members of the condition byCond has not come to yet

filterVars == <<chain, cursor, left>>

\* A list of filters: the nodes as they were made, the place of each one's
\* successor among them (0: none), and of the first.
NoFilters == [nodes |-> <<>>, next |-> <<>>, head |-> 0]

FilterInit ==
  /\ chain = [filter |-> NoFilters, exclude |-> NoFilters]
  /\ cursor = 0
  /\ left = <<>>

EqualFilter(attr, value) ==
  [op |-> "equal", attr |-> attr, values |-> {value}, allowMiss |-> FALSE]

\* A null in the list is no value: it lets the name miss.
InFilter(attr, list) ==
  [op |-> "in", attr |-> attr, values |-> {v \in Range(list) : v.t # "null"},
   allowMiss |-> \E v \in Range(list) : v.t = "null"]

\* Slip: nothing becomes the head.
AttachHeadless(list, at, node) ==
  LET new == Len(list.nodes) + 1
  IN  [nodes |-> Append(list.nodes, node),
       next  |-> [i \in 1 .. new |-> IF i = at THEN new ELSE IF i < new THEN list.next[i] ELSE 0],
       head  |-> list.head]

\* Slip: cursor stays at the filter it was at.
AttachAtHead(list, at, node) ==
  LET new == Len(list.nodes) + 1
  IN  [nodes |-> Append(list.nodes, node),
       next  |-> [i \in 1 .. new |-> IF at # 0 /\ i = list.head THEN new
                                     ELSE IF i < new THEN list.next[i] ELSE 0],
       head  |-> IF list.head = 0 THEN new ELSE list.head]

\* attach: the list with a node after the one the cursor is at; the cursor then
\* is at the new node.
Attach(list, at, node) ==
  LET new == Len(list.nodes) + 1
  IN  [nodes |-> Append(list.nodes, node),
       next  |-> [i \in 1 .. new |-> IF i = new THEN 0
                                     ELSE IF list.head # 0 /\ i = at THEN new ELSE list.next[i]],
       head  |-> IF list.head = 0 THEN new ELSE list.head]

Source(side) == IF side = "filter" THEN query.filters ELSE query.excludes

\* FilterChain::rebuild for one side; byCond when the condition is an object.
Rebuild(side, next) ==
  LET cond == Source(side)
      single(node) == chain' = [chain EXCEPT ![side] = Attach(NoFilters, 0, node)]
  IN  CASE cond = Null -> UNCHANGED <<filterVars>> /\ stage' = next
        [] cond # Null /\ cond.t = "array" ->
             single(InFilter(KeyId, cond.list)) /\ stage' = next /\ UNCHANGED <<cursor, left>>
        [] cond # Null /\ cond.t = "uint" ->
             single(EqualFilter(KeyId, cond)) /\ stage' = next /\ UNCHANGED <<cursor, left>>
        [] OTHER ->
             /\ left' = cond.members /\ cursor' = 0
             /\ stage' = side /\ UNCHANGED chain

RebuildFilter  == stage = "chain" /\ Rebuild("filter", "chain2") /\ UNCHANGED <<body, query, ahead>>
RebuildExclude == stage = "chain2" /\ Rebuild("exclude", "seek") /\ UNCHANGED <<body, query, ahead>>

\* A round of byCond's loop: one member <<name, value>> of the condition.
ByCond(side, next) ==
  /\ stage = side
  /\ UNCHANGED <<body, query, ahead>>
  /\ IF left = <<>>
       THEN stage' = next /\ UNCHANGED <<filterVars>>
       ELSE LET attr == Head(left)[1]
                value == Head(left)[2]
                add(node) == /\ chain' = [chain EXCEPT ![side] = Attach(@, cursor, node)]
                             /\ cursor' = Len(chain[side].nodes) + 1
            IN  /\ left' = Tail(left)
                /\ CASE value.t = "array" -> add(InFilter(attr, value.list))
                     [] value.t \in {"object", "null"} -> UNCHANGED <<chain, cursor>>
                     [] OTHER -> add(EqualFilter(attr, value))
                /\ UNCHANGED stage

-----------------------------------------------------------------------------
(* Items pass filters.  An item is a function from names to scalars. *)

Numeric == {"uint", "double"}

\* rapidjson's ==: an integer equals the double of the same value.
Same(v, w) == (v.t = w.t \/ {v.t, w.t} \subseteq Numeric) /\ v.v = w.v

\* Membership in a ValuePtrSet goes by the hash first, and ValuePtrHasher tells
\* integers from doubles (but for 0 from 0.0, which no value here stands for).
Contains(set, v) == \E w \in set : w.t = v.t /\ Same(v, w)

\* _apply of one filter.
Passes(node, item) ==
  IF node.attr \in DOMAIN item
    THEN IF node.op = "equal" THEN \E w \in node.values : Same(item[node.attr], w)
                              ELSE Contains(node.values, item[node.attr])
    ELSE node.allowMiss

\* BaseFilter::apply from the first filter on: all of a list must let it pass.
PassesList(list, item) ==
  LET from[i \in 0 .. Len(list.nodes)] ==
        IF i = 0 THEN TRUE ELSE Passes(list.nodes[i], item) /\ from[list.next[i]]
  IN  from[list.head]

\* FilterChain::apply.
apply(item) ==
  /\ chain.exclude.head = 0 \/ ~ PassesList(chain.exclude, item)
  /\ chain.filter.head = 0 \/ PassesList(chain.filter, item)
=============================================================================
