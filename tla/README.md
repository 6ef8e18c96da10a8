# taboo in TLA+

taboo is a prefix-prediction server: clients *attach* an item (a JSON document
with an `id`) to a list of strings over HTTP, and *query* for the items attached
to any string that starts with a given prefix, over HTTP or WebSocket. This
directory holds TLA+ modules translated from `src/src` and from the trie in
`src/libs/cedar`, the TLC configurations that check them on small instances, and
proofs that TLAPS checks for every instance.

## The system

| Component | State | Operations | Talks to |
|---|---|---|---|
| `Keeper` (Keeper.hpp) | none of its own | `attach`, `update_item`, `detach` (a stub) | trie and farm, under a WriteLock on `Aside::accessMutex` |
| `Seeker` (Seeker.hpp) | items found, filter chain; one per request | `seek` | trie and farm, under a ReadLock |
| `Trie` (Trie.hpp) | double array `da`, `funnelIdCursor` | `attach`, `traverse`, `operator[]`; `detach` and `erase` are stubs | cedar; calls back `AttachCallback`, `ItemCallback` |
| `Farm` (Farm.hpp) | `funnelDict`, `itemDict` (owned by `Aside`) | `attach`, `detach` (no caller), `funnel`, `item` | none |
| cedar (libs/cedar/cedar.h, vendored and changed) | nodes, blocks, siblings | `update`, `traverse`, `begin`, `next`, `exactMatchSearch` | none |
| `SessionManager` (Session.hpp) | `tokens`, `sessions`, a mutex | `ensure`, `auth` (no caller) | the clock, MD5 |
| `Query` (Query.hpp) | a parsed request | `rebuild`, `reviseFields` | `Aside`, `Config` |
| `FilterChain` (Filter.hpp) | two chains | `rebuild`, `apply` | `Query`, `Item` |
| `Manager` (Manager.hpp) | one `Closure` per HTTP request, `ClosurePool` | callbacks of libmicrohttpd | `Router`, handlers |
| handlers (manager/, query/) | parameters of one request | `addParam`, `process` | `Keeper`, `Seeker`, `SessionManager` |
| `Router` (Router.*) | table of URIs, tables of replies | `route` | handlers |
| `Portal`, singletons | none | start-up | everything |
| `Config` (Config.*) | options | parsing | everything |
| `Signer` (Signer.hpp) | MD5 state | signatures | handlers |

Requests reach the handlers from two places: the thread pool of libmicrohttpd
(`Manager::handleReqpest`) and the single WebSocket thread (`Portal::onMessage`),
which only ever makes predicters. What they share is the index behind
`accessMutex`, the session maps behind `SessionManager::mutex`, and the pool the
closures come from.

### What is hard about it

* **Interleaving.** An attach changes trie and farm in one pass per string;
  everything a reader relies on holds only between passes or under the lock.
* **Gaps between locks.** `update_item` and `ensure` read under a ReadLock, drop
  it, and act later under a WriteLock.
* **Use after unlock.** A reply is written from items, a token is copied from a
  reference, after the lock is gone.
* **Progress.** Readers can overlap for ever; both two-lock calls would deadlock
  if the first lock outlived its block.
* **Nodes that move.** An update of the double array takes nodes from rings it is
  adding nodes to, takes blocks out of lists it goes round, and may move the node
  it stands at.
* **Requests in pieces.** A value may come in several calls, none of which says
  so; a request may end after any of them.
* **Failure where nothing may fail.** Exceptions in functions declared `throw()`,
  replies that are null, iterators past the end.
* **Edges.** A counter of callbacks that is off by one by design, a traversal that
  meets the prefix twice, a list that fills in the middle of a funnel, sentinels
  that share their range with funnel ids, `insert` that never overwrites, shifts
  in `int` for quantities that are wider.

`PROJECT.json` lists each at its line under `hazards`, with the properties that
would catch it going wrong.

### What makes each component correct

* Index: a query lists distinct accepted items attached below its prefix, leaves
  one out only when full or out of iterations, and all requests behave as if
  executed one at a time.
* Trie and farm: funnels and strings correspond one to one, no funnel is empty or
  orphaned, every entry has its document, ids never meet the sentinels.
* Double array: it is the map from strings to ids that the trie takes it for, at
  every step of an update; a walk meets every string below its root; updates end.
* Sessions: a registered token always has its session, a client always gets a
  token that stands for its identity, spare tokens are bounded.
* HTTP server: every closure is destroyed exactly once, requests do not mix, and
  what is signed and acted on is what the client sent.
* Queries: what is listed is what the filters, the fields, the number and the
  options mean.
* All: exclusion, nothing once there is lost or changed, no request waits for
  ever, and the ways to end the process are known.

## Modules

| Module | Models | State and actions |
|---|---|---|
| `Strings` | the strings that are indexed | `KeysUnder[p]` is the set of strings that start with `p` |
| `Domain` | items, documents, requests of the index | constants and their assumptions; a query carries the set of documents its filters accept |
| `SharedMutex` | boost::shared_mutex (external) | `readers`, `writers`, `blocked`; a waiting writer keeps new readers out |
| `Trie` | Trie.hpp, and cedar as a map with a traversal order | `da`, `funnelIdCursor`; `TrieAttach` is one iteration of `Trie::attach`, `NextKeys` what `begin`/`next` may yield |
| `Farm` | Farm.hpp | `funnelDict`, `itemDict`; `FarmAttach`, `Funnel` |
| `TabooIndex` | Keeper and Seeker over these four | `pc` and `req` of each thread, `write` (locals of attach and update), `seek` (locals of a query) |
| `PrefixStore` | what the index promises | a relation of strings and items; attach, update and query are atomic |
| `DoubleArray` | cedar.h as Trie calls it | `da` (arrays, blocks, heads), `job` (the update or walk in progress); implements `Trie` |
| `Session` | Session.hpp, the get_access_token handler's call | `tokens`, `sessions`, the clock, `pc`, `req`, `token`, `granted` |
| `Server` | Manager.hpp, BaseHandler.hpp, manager/, Router.*, HttpPredicter | `stage`, `request`, `rest` of each connection, its `conClosure`, the `pool`, `reply` and `call` |
| `Options` | Config.cpp, the constructor of Aside | `startup`, `options` (po::variables_map), `config` (the fields) |
| `Query` | Query.hpp | `stage`, `body`, `query`, `ahead` (what the loop of reviseFields has still to visit) |
| `Filter` | Filter.hpp | `chain`, `cursor`, `left` |
| `Predicter` | a predict handler from start-up to reply: Options, Query, Filter, BasePredicter.hpp | `shown`; composes the three |
| `MCTabooIndex`, `MCSession`, `MCServer`, `MCPredicter`, `MCDoubleArray` | the instances | |
| `TabooIndexProofs` | theorems | the index, and that it implements `PrefixStore` |
| `DoubleArraySpace`, `DoubleArrayTree`, `DoubleArrayProofs` | theorems | one on top of the other: the invariant, places and blocks; nodes, and the steps of an update that move none; moves, and the theorems |
| `SessionProofs`, `ServerProofs` | theorems | sessions; the server |
| `OptionsProofs`, `PredicterProofs` | theorems | start-up; on top of it fields, what the seeker is given, and filters |

In `TabooIndex` an action is what a thread does between two points where another
could run and see the difference if the lock did not forbid it:

* attach: `AttachLock` (the WriteLock), `AttachKey` once per string (the trie
  lookup, `da.update` and the callback into the farm), `AttachUnlock` (the result
  and the release);
* update_item: `FindLock`, `Find` (the id and the release), `UpdateLock`,
  `UpdateItem`;
* query: `SeekLock`, `SeekExact` (the callback on the prefix itself), `SeekNext`
  (one step of `begin`/`next`), `PumpEntry` (one funnel entry), `PumpEnd`,
  `SeekEnd`, `SeekUnlock`; the items stay in `seek` until `Reply`, as formReply
  reads them after the release;
* `Receive` and `Reply` begin and end a handler. `WriterWaits` is a thread that
  goes to sleep in `lock()`.

`update_item` has no caller in the repository; it is part of `Keeper`'s interface
and modelled as such. `Keeper::detach` only calls a stub and changes nothing.
`auth` likewise has no caller.

In `DoubleArray` a step of an update is a call of `_follow` that takes a label, or
one round of the loop over candidate blocks (`TryBlock`) or over the children to be
moved (`Move`). Nothing interleaves with it, as the WriteLock is held; it is cut up
so that the invariants are checked at every round. `TabooIndex` uses `Trie`, whose
`da` is a map; `ImplementsTrie` is what entitles it to.

In `Server` an action is a call of libmicrohttpd into `Manager`: the first one
(`FirstCall`, `AddGetParam` once per parameter, `CreatePostProcessor`), those with
data (`Upload`, `UploadRefused`), the last (`Process`, then `Respond` from the
return of `process()` on), and `Completed`. `Abort` is a client that goes away or
is timed out. Data is a sequence of pieces; `Upload` may deliver any number of
them. `died` is set where the code would call `exit`, read what is not there or throw
out of a function declared `throw()`; nothing happens after that.
The index and the sessions appear as what `process()` asks of them (`call`).

In `Predicter` start-up (`Options`) comes first, then the members of a query in the
order of `Query::rebuild`, each chosen when it is read; then the chains, one
condition at a time; then a choice of items the filters let pass. The branches on
memory that holds no length (a prefix that is not a string) are choices.

The definitions marked "Slip" are plausible mistakes, used by the mutants of
`PROJECT.json` and by nothing else: each replaces a definition of the model, and
the property it belongs to must then fail.

## Runs

| Run | Shows | Instance |
|---|---|---|
| `index_core` | types; `LockInv`; `FunnelsOwned`, `ItemsReachable`, `CursorBounded` (trie and farm agree); `FoundFunnelStays` (the gap in `update_item`); `SeekSound`, `SeekComplete`; `AttachmentsPersist` | three threads, one of them the WebSocket thread; strings a, ab, b; two items, one of which comes with two documents; max-iterations 2 |
| `index_store` | `ImplementsStore`: TabooIndex implements PrefixStore; `EveryRequestAnswered` under `FairSpec` | three threads, one of them the WebSocket thread; two attaches, one of which lists a string twice, an update and a query; max-iterations 3 |
| `index_already_exists` | violation of `AlreadyExistsMeansExists` | two threads |
| `index_upsert` | violation of `UpsertReplacesDocument` | two threads |
| `session_core` | types; `RegisteredIsLive`, `IssuedIsLive`, `SparesBounded`; `SessionsPersist`; `EveryRequestAnswered` under `FairSpec` | two threads, two identities, four tokens, two instants |
| `session_expire` | violation of `EnsureHonoursExpire` | two threads, one identity |
| `server_core` | types; `ClosureOwned`, `NoMixing`; `ActedAsMeant` (pieces of values are not acted on when signatures are checked); `DiesOnlyOfFatalRequests`; `EveryClosureFreed` under fairness | two connections, two cells, 20 requests of all routes, values of up to two pieces |
| `predict_core` | types; `OptionsTakeEffect`, `SizesExact` (options); `AllowedFieldsKept` (fields); `ChainMeansConditions` (filters); `FeedsSeeker`; `DiesOnlyWhereUndefined` | every command line with every file, every query, four documents |
| `predict_visible` | violation of `AllVisibleByDefault` | files that give the keys and at most one more option; queries without conditions, with a prefix that is a string |
| `predict_options` | violation of `EachHasItsField` | the same |
| `predict_invisible` | violation of `InvisibleNotListed` | the same |
| `double_array` | types; `RingsSound`, `BlocksListed`, `TreeSound`; `WalkComplete`; `ImplementsTrie` (refinement of Trie); `UpdateAdvances` (a measure that shows that updates end) | seven strings over three letters, blocks of four nodes |

**Bounds.** Three strings are the least that has a prefix with something below it
and something beside it; the requests cover an attach in both orders of a prefix
and its extension, one that lists a string twice, one that brings a second
document for a known id, and queries that can be filled, exhausted and cut off.
MaxIterations 2 is reached by a query for "a", which calls back three times once
"ab" is there ("a" twice); the 3 of `index_store` lets the whole list through. Three
threads are enough for a writer, a reader and a second writer or a reader that
overtakes. The four tokens of
`session_core` are what two threads can use up for two identities
(`SparesBounded`), so that `createToken` never runs dry; clients come with one of
them (`Presented`), which any of the draws may have produced, or none so far. What
a filter is does not matter to `ensure`, so there is one. `NoPath` and `NoValue`
stand for 0x7ffffffd and 0x7ffffffe. The states are finite without further
bounds; MaxTime bounds the clock. `num` and max-iterations are at least one, as
`Query::rebuild` and the defaults make them.

Two connections of `server_core` are enough to share a cell, one after the other
or at once; a value in two pieces is the least that can be taken for two; the
requests are signed and unsigned ones for every route, with and without what
each check asks for, and one for each way to end the process: prefixes that are no
strings or empty, an item and a query that are no object or hide fields, numbers that
are none, parameters without a value or a name. `QueryDataMaxSize` 1 lies between the query in one piece and
the one in two. `predict_core` scales integers down: `int` has 8 bits, `size_t` 16,
and the units shift by 2, 5, 7 and 10 (instead of 10, 20, 30 and 40), which keeps
every order relation `toInteger` depends on: t exceeds an `int`; k, m and g
leave a `size_t` more bits than an `int` has, t fewer than it has. The numbers lie around each bound.
Four fields, two of them hidden, reach every branch of the loops, erasures in a row
and one at the end. Blocks of four nodes (`Width` 2, the code's 8) make blocks fill,
close and open again with a handful of strings; the seven strings were chosen so
that both directions of a move (the newcomer's siblings, the owner's), the move of
the node the update stands at, a block tried in vain and a second block all happen.

**Symmetry** is used in `index_core` (the HTTP threads), which checks no liveness.

**Fairness.** A handler runs to its end without being asked, so `Step(t)` is
weakly fair. Taking a lock is strongly fair: a mutex that is free again and
again goes to each waiting thread some time. That alone would not save a
writer from readers that overlap for ever, in whose behaviours the mutex is never
free; what does is boost's `exclusive_waiting_blocked`, which is `blocked` in
`SharedMutex`. Nothing is assumed of `Receive`: clients need not come. (The
assumption is about the operating system's scheduler, not a promise of boost.)
In `Server` what the server does next for a connection (`ServerStep`) is weakly
fair, as each worker serves its connections in turn, and so is what the client
does (`ClientStep`: it sends or leaves), because of the receive timeout, which is
30 s by default; with `manage-receive-timeout` 0 a silent client keeps its closure.
`DoubleArray` needs no fairness: `UpdateAdvances` is a measure that falls with
every step. `predict_core` and `server_core` do not check deadlock: a query ends,
and so does a process.

### Disagreements found

* An attach with `upsert=0` that lists a string twice files its item and answers
  "all keys already exist or item already exists" (`index_already_exists`).
  `Keeper.hpp:59` has a note that repeated prefixes are a problem, on `detach`.
* An upsert never replaces the document of a known id (`index_upsert`).
* A request for a token that gives an expiry gets the identity's old token with
  its old expiry, also after that token has expired (`session_expire`).
* With both field options at their defaults nothing is visible unless it is named:
  the empty list of invisible fields is a list of one empty name
  (`predict_visible`). `etc/taboo.conf` names its fields and hides this.
* `connection-max-idle`, "max idle time for each connection", is written to the
  field of `items-allocate-step`, and its own is never set; the keys of manage
  responses for payload, token and expiry are written to one field, where `token`
  wins (`predict_options`).
* `reviseFields` steps over the field after an erased one in the order of the hash
  set: of two invisible fields in a row the second is listed (`predict_invisible`).
* `max-matches`, "max count of items to match for query" (`Config.cpp:353`), bounds the
  number a query gives but not `default-matches`. `FeedsSeeker` allows for this.

Where no doc, comment or test says what should happen, the properties state what
the code does:

* The loops of `reviseFields` step past the end when the last field they meet is
  hidden, and a prefix is asked for its length before its type
  (`DiesOnlyWhereUndefined`; in a build with assertions the process ends).
* A request can end the process (`DiesOnlyOfFatalRequests` lists the ways): `status`
  and `detach` have no reply for their codes; a token request with a number that is
  none throws; a parameter without "=" or a part without a name makes a string from
  null; of an attach the elements of `prefixes` are read as strings and the members of
  `item` looked up without a look at their types, and an empty string among the
  prefixes meets `exit(1)` in cedar; and so do the queries of the last item. Where what
  follows is undefined, going on as if nothing had happened is an outcome, too.
* Of a value that comes in pieces the handlers keep the first piece, of `sign` and
  `filters` the last. With signatures on, such a request is refused as wrongly
  signed; with `check-signature` off it is acted on, which is why `ActedAsMeant` is
  restricted to the former.
* A 64-bit option refuses quantities with a unit that would fit, because the bound
  is computed in `int`; it never takes one that does not (`SizesExact`).

## Proofs

The proof modules hold for any sets of threads, strings, items, tokens,
connections, requests, options and queries. They assume what the modules name:

* the index: `KeysAssumption` and `ShortestAssumption` ("starts with" is a partial
  order, and among strings one is shortest), `SentinelAssumption` (fewer strings than
  `NoPath`: the 31 bits of a funnel id are not used up, so `CursorBounded` says that
  ids are spent only on new strings and not that memory suffices),
  `NoDocAssumption`, `RequestsAssumption`, `MaxIterationsAssumption`;
* sessions: `TokenAssumption`, `RequestAssumption`, `TimeAssumption` and
  `ThreadsAssumption` (finitely many threads);
* the server: `NullAssumption`, its `RequestsAssumption` (requests have their type),
  `ParseAssumption` (which of the sets of texts contain which), `CellsAssumption` (the
  pool does not run out) and `SignersAssumption` (a client that
  signs signs what it sends, names each parameter once, and its signature is not also
  one of other parts of its values: the digest has no collisions);
* options: `OptionsAssumption` (units shift; what is given for an option is
  something), `SwitchAssumption` (a switch takes no value on the command line, so that
  `check-signature` can only be turned off in the file) and `PowersAssumption` (2^n = 2^m * 2^(n-m) for the widths and shifts
  there are: the provers know no law of `^`, and TLC evaluates this one);
* queries: `InputsAssumption`, `ConditionsAssumption` (what JSON values are made of)
  and `StoredAssumption` (so are the documents);
* the double array: `LabelsAssumption` (strings are not empty and have no NUL, and a
  block has at least two nodes), `PrefixAssumption` (a string is below another if the
  other's labels are its first), `IdsAssumption` (what `SentinelAssumption` says for
  the index) and `XorAssumption` (exclusive or is symmetric, undoes itself and has 0 as
  its unit: laws of bits, of which the provers know none).

TLC evaluates them all.

**The index.** `Inv == BaseInv /\ LockInv /\ \A t : Collecting(t)` is inductive.

1. `BaseInv` = types and stages + `IndexInv` + `FoundFunnelStays`. The lemma the
   rest hangs on is `IndexAction`: every step leaves trie and farm alone or
   attaches *one string to one item*. `UpdateItem` is such a step only because of
   `FoundFunnelStays` (the id it uses still belongs to its string), and
   `FoundFunnelStays` holds only because `IndexGrows` says that no step changes
   the id of a stored string: the two are proved together. That new funnel ids
   collide with nothing rests on `CursorBounded` (the cursor counts the stored
   strings), which is why it is part of `IndexInv`.
2. `LockInv` ties `writers` and `readers` to the stages of the threads.
3. `Collecting(t)` strengthens `SeekSound` and `SeekComplete` so that each step
   of a traversal preserves them: `Recorded` (recorded = listed), `Near` (the
   funnel at hand is below the prefix), `Scanned` (what was visited is listed
   unless it is still to come or the list is full) and `Counted` (the callbacks
   spent). The first is needed because the code checks `recorded` and not the
   list, the last because the code stops on a count and not on a set. While a
   query reads, `IndexFrozen` (from `LockInv`) keeps the index still; after it,
   `IndexGrows` keeps what was listed true.

Theorems: `TypeCorrect`, `IndexConsistent` and its parts `ItemsStayReachable` and
`CursorStaysBounded`, `UpdateFindsItsFunnel`, `NothingLost`, `IndexGuarded`,
`QuerySound`, `QueryComplete`.

**The refinement.** `StoreInv == Inv /\ FreshLocals`: before a handler writes its
locals they are new, so that a thread that has just been called maps to `NoAnswer`.
A step of `t` leaves the abstract view of the others alone (`OthersMapped`). With no
thread attaching, the abstract relation is what the index holds; while one attaches
it is what it held when the WriteLock was taken, with the whole attach applied at
`AttachLock`. So `Receive`, `Reply`, `AttachLock`, `UpdateItem`, `SeekUnlock` and a
`Find` that finds nothing map to steps of `PrefixStore`, and all others stutter. The
hard ones are `AttachKey`, which must keep what is still to be answered equal to what
was promised at the lock although strings may repeat and the item may come to exist on
the way, and `SeekUnlock`, which needs `SeekSound`, `SeekComplete` and `Scanned`
together. Theorem: `IndexImplementsStore`.

**Sessions.** The invariant adds `LockInv` and `PublishInv` to the types: a token
without a session is held by a thread in `publish`, and its identity is that
thread's. `RegisteredIsLive` follows for readers because such a thread holds the
WriteLock. For `SparesBounded`, `SpareInv` counts with the sessions of an identity
the threads that are about to make one: a thread joins them only while no token is
registered, and each leaves by making one session, so that the sum never exceeds
the threads. Theorems: `TypeCorrect`, `ElseIsImpossible`, `TokensIssued`,
`NothingRevoked`, `SparesStayBounded`.

**The server.** `TypeOK /\ ClosureOwned` is inductive; that a free cell is left for
`FirstCall`'s choice needs no proof, as the action waits for one. `NoMixing` is proved
from `OwnRequest(c)`: the handler of `c`, the data still to come and a null reply are all
accounted for by the request of `c`. Each step changes what belongs to one connection
(`OthersKept`, from `ClosureOwned`), and what `Upload` splits are parts of parts
(`PartOfPart`). Theorems: `ServerTypeCorrect`, `ClosuresOwned`, `RequestsDoNotMix`,
`DeathsExplained`.

`ActedAsMeant` is about histories: `MeantInv` says that what a handler has been given
so far is, for each name, the whole value its client sent or a shorter part of it
(`PartIsShorter`), and that what is still to come is the rest. A handler whose
signature is right was given parts that are signed as the client's values are; by
`SignersAssumption` they are those values, and none is missing. Theorem:
`OnlyActedAsMeant`.

`DiesOnlyOfFatalRequests` says which requests end the process, in terms of what their
clients sent: with signatures checked, of manage requests only those that carry a
signature for the whole. It follows from the same invariant. `FatesKept` looks at the
steps at which the process can end; for `Process` (`ProcessFated`) the values the
handler has are parts of those sent, and with a right signature the whole ones.

**Options.** `OptionsInv` follows start-up step by step. `Kept` says what an option
holds: what the command line gave, once the file was read what that gave, else the
default. `po::store` reads only what no earlier store has a value for (`OpenIs`), so
that what the file says is not even parsed where the command line has spoken. `Written`
says what a field holds: the option of the last row that names it, also after the
second `notify`, which begins with the fields of the first (only rows write fields, and
the same rows each time). `SizesExact` is arithmetic: what passes
the bound is below 2^width once it is shifted, also where the bound was computed in an
`int` and wrapped. Theorems: `QuantitiesReadExactly`, `OptionsHeld`.

**Queries.** `LoopInv` is what the loops of `reviseFields` keep: only hidden fields are
erased, and what lies ahead is still there. It does not mention the order of the hash
set. `FlowInv` follows the members a query is made
of from the stage that reads them to the one that seeks. Theorems: `FieldsKept`,
`QueryDeathsExplained`, `SeekerFed`.

**Filters.** `ChainInv` ties the list, the cursor and the conditions not yet read:
the nodes are `Chained` (a path from the head on which nothing repeats), the cursor is at
the last one, and passing the filters made so far *and* meeting the members that are
left is the same as meeting the whole condition. Each round moves one condition from
the second part to the first. That the recursive `PassesFrom` over the list is a
conjunction over its nodes is proved by least counterexample (`LeastNatural`), as
the library's induction theorems cannot be instantiated. Theorems: `TypeCorrect`,
`ChainsMeanConditions`.

**The double array.** The invariant `Inv` is `Holds(da, job, view)`, that is `SpaceInv`
and, for some labelling `P` of the nodes with the strings that lead to them, `TreeInv`;
and `Numbered`: the ids in use are those up to the cursor, each of one string.

1. `SpaceInv`: the empty nodes of each block are a `Cycle` (next and prev are each
   other's inverses, and nothing less than all of it is closed under next), `ehead` is
   on it and `num` counts it, in block 0 one too many; blocks are on the cycle of the
   list their `num` and `trial` call for. `Cycle` is what the pointer operations
   preserve without induction: `CycleInsert` and `CycleRemove` do for rings of nodes
   and lists of blocks alike, and `CycleWalk` (by least counterexample) says that one
   who follows the links meets everything, which is what `RingsSound` and
   `BlocksListed` state. `PopEnodeSpace`, `PushEnodeSpace`, `AddBlockSpace`,
   `TransferBlockLists` and `TriedSpace` carry it through every method.
2. `TreeInv`: `Paths` (every node hangs from its `check` at a label from its base, and
   no two have one path), `Bases`, `Chains` (the labels of the children of a node are
   a list from `child` along `sibling`, the terminal first). Inside an update three
   things are out of order, and the invariant says exactly how: the node just made has
   no base yet (`ComingOf`); of a node whose children are being moved some hang from
   the old base and some from the new (`Hang`, `Unmoved`); and its list of children
   is the one it will have (`MoveInv`). `P` is why moves are harmless: they change
   places and leave paths alone.
3. One lemma per step: `FollowNewHolds`, `FollowFreeHolds`, `FollowEdgeHolds`,
   `ResolveHolds`, `TryBlockHolds`, and `MoveHolds`, which turns on what becomes of the
   place a child leaves: empty, or at once the newcomer's.
4. `Values`, a part of `TreeInv`: the terminal of a string holds the id that `view`
   gives it, and a string without one has no terminal. Only the string that is being
   updated is excepted: its terminal, once it is there, holds 0. `ValuesGrafted`,
   `ValuesCarried` and `ValuesKept` say what a new node, a moved one and a new base do
   to it; `ValuesEnd` gives the exception its value.

For the refinement of `Trie`, `LookupsAre` says that what a search finds in such a tree
is `view`: `FindIs` follows the labelling down to the node that is asked for or to the
first that is missing, and `Numbered` keeps ids apart from what says "no path" and "no
value". The last step of an update is `TrieAttach` (`UpdateEnds`); every other step
leaves `view` and the cursor `Trie` sees alone, moves of nodes included
(`OtherSteps`).

That an update advances is plain for a label taken and a child moved. In the search for
a block it is not: the measure is how far the last open block is from the next to try,
along links that change when the block just tried, having failed too often, leaves for
the list of the closed. `TransferNext` says that its neighbours are then linked to each
other and that no other link changes; on such a list whoever goes on past it gets to
the last one in fewer steps (`WalkShorter`, `NearerLast`).

`WalkComplete` is about the order of a whole depth-first walk, on paths of any length.
`Ranks` numbers the children of each node in the order of their list, the terminal
first; `After` compares two nodes by the ranks of the children at which their paths
part. `WalkHolds` says that of the terminals under the prefix the walk has seen those
that do not come after the one it is at, each once and in order, but for the prefix's
own. A round keeps it because `begin` ends at the first terminal below a node
(`BeginIs`) and the climb at the first sibling that comes after what it left (`UpIs`).
Both are proved by a measure, the length of the path: a step of `begin` makes it
longer, a step of the climb shorter. Two facts about the whole array are needed and so
are part of `Inv`: terminals end strings that have ids (`Ended`, in `Values`), and no
two strings have the same id (`Apart`, in `Numbered`), else a callback would not tell
which string was met.

What a recursive function returns (`Ring`, `Children`, the walk along a list) is proved
by least counterexample too. Theorems: `SpaceAndTree`, `TypeCorrect`, `RingsAreSound`,
`BlocksAreListed`, `TreeIsSound`, `RefinesTrie`, `UpdatesAdvance`, `WalksAreComplete`.

**Only model-checked:** the liveness properties (`EveryRequestAnswered` of the index
and of the sessions, `EveryClosureFreed`), which are out of the prover's reach. Every
invariant, action property and refinement the passing runs check is stated by a
theorem.

## Not modelled

* `Farm::detach`: it has no caller. `Keeper::detach` asks `Trie::erase`, a stub that
  returns false and changes nothing.
* cedar's `erase`, prefix searches, `suffix`, `dump`, `save`, `open` and `restore`,
  and `cedarpp.h`: the program does not call or include them.
* The empty string and strings with a NUL among the strings of an attach, in the
  modules of the index: cedar ends the process at the one (`cedar.h:168`) and takes the
  NUL for the end of a string. `Server` has requests with both (`BlankLists`,
  `OddLists`); the strings of `Domain` and `DoubleArray` have neither
  (`LabelsAssumption`).
* 0 and 0.0 in one list of values: they are equal and hash alike, whereas `Contains`
  tells every integer from every double, as the hash does with all others.
* `RangeFilter`, `AttrFilter` and `EmptyFilter`: nothing builds them.
* JSON and URL syntax, logging, the text of replies, `echoData` (passed through).
  What parses is a set; what is written is abstract.
* MD5: signatures and tokens are taken for free of collisions, though
  `IssuedIsLive` says what a colliding token would do.
* Options that only go from the table to a field of their own (some 70 rows of
  `initDesc`).
* What websocketpp and libmicrohttpd do inside; only their calls are modelled.
* Memory: allocation does not fail, the array of the trie does not reach 2^31 nodes.
