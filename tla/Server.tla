------------------------------- MODULE Server -------------------------------
(***************************************************************************)
(* The HTTP server of taboo: libmicrohttpd's connections, the closure that *)
(* Manager::handleReqpest keeps for each request in ClosurePool, the       *)
(* handler routed into it, and what that handler asks of the index and of  *)
(* the session manager.  libmicrohttpd calls back for one connection at a  *)
(* time; its workers serve several connections at once, and what they share*)
(* is the pool.                                                            *)
(***************************************************************************)
EXTENDS Naturals, Sequences, FiniteSets, Functions

CONSTANTS
  Connections,
  Cells,             \* memory of ClosurePool
  Null,              \* the null pointer
  Text,              \* pieces of text; the server may get a value piece by piece
  Zero,              \* a piece that starts with '0'
  Requests,          \* what clients send
  Lists, Items, Numerals, Objects, Queries, \* the values that parse as such
  OddLists,          \* lists with an element that is no string, or has a NUL in it
  BlankLists,        \* lists of strings, one of which is empty
  NoObjects,         \* values that parse as something else than an object
  FatalQueries,      \* values in which Query::rebuild can end the process,
  OddQueries,        \*   by their prefix, which is no string, or by hidden fields
  QueryDataMaxSize   \* option query-data-max-bytes

Value == Seq(Text)

\* libmicrohttpd has no name for a part of a multipart body that is sent without.
Name == STRING \cup {Null}

\* Parameters of the URI (Null: a name without "="), of the body, and either.
UriParams  == STRING \X (Value \cup {Null})
BodyParams == Name \X Value
AnyParams  == Name \X (Value \cup {Null})

\* form: whether the body has a content type libmicrohttpd can take apart.
RequestType ==
  [method : STRING, uri : STRING, form : BOOLEAN,
   args : Seq(UriParams), body : Seq(BodyParams)]

ASSUME NullAssumption == Null \notin Cells \cup Connections \cup Value \cup Requests

ASSUME RequestsAssumption == Requests \subseteq RequestType

\* How values parse.  A query whose fields have a hidden one among others may be
\* answered, too: that is for the order of a hash set.
ASSUME ParseAssumption ==
  /\ OddLists \cup BlankLists \subseteq Lists
  /\ Items \cap NoObjects = {}
  /\ OddQueries \subseteq Queries \cap FatalQueries

\* ClosurePool takes memory from the heap: every connection gets its cell.
ASSUME CellsAssumption ==
  /\ IsFiniteSet(Connections) /\ IsFiniteSet(Cells)
  /\ Cardinality(Connections) <= Cardinality(Cells)

VARIABLES
  stage,        \* where each connection is
  request,      \* the request being served, Null between requests
  rest,         \* parameters the handler has not been given yet
  conClosure,   \* the closure libmicrohttpd keeps for the request
  pool,         \* cell -> the handler of the closure in it, NoHandler if free
  reply,        \* the code of what process() returned, "null" if no Reply
  call,         \* what process() asked of the index or of the sessions
  checkSign,    \* option check-signature
  died          \* the connection whose handler ended the process

vars == <<stage, request, rest, conClosure, pool, reply, call, checkSign, died>>

Stages == {"idle", "started", "args", "upload", "processed", "queued", "aborted"}

Manages == {"status", "attach", "detach", "token"}
Kinds   == Manages \cup {"predict", "no_route"}

NoCall    == [op |-> "none"]
NoReply   == "none"
NoHandler == [kind |-> "none"]

Init ==
  /\ stage = [c \in Connections |-> "idle"]
  /\ request = [c \in Connections |-> Null]
  /\ rest = [c \in Connections |-> <<>>]
  /\ conClosure = [c \in Connections |-> Null]
  /\ pool = [m \in Cells |-> NoHandler]
  /\ reply = [c \in Connections |-> NoReply]
  /\ call = [c \in Connections |-> NoCall]
  /\ checkSign \in BOOLEAN
  /\ died = Null

-----------------------------------------------------------------------------
(* Router and handlers *)

handlerCreator(uri) ==
  CASE uri = "/manage/status"                      -> "status"
    [] uri = "/manage/attach"                      -> "attach"
    [] uri \in {"/manage/detach", "/manage/erase"} -> "detach"
    [] uri = "/manage/get_access_token"            -> "token"
    [] uri = "/query/predict"                      -> "predict"
    [] OTHER                                       -> "no_route"

\* A handler without a route is not told its method: it is never a POST one.
route(method, uri) ==
  LET kind == handlerCreator(uri)
  IN  [kind    |-> kind,
       method  |-> IF kind = "no_route" THEN "" ELSE method,
       uri     |-> IF kind = "no_route" THEN "" ELSE uri,
       params  |-> [k \in {} |-> <<>>],
       sign    |-> <<>>,
       filters |-> Null,      \* TokenHandler::filters
       post    |-> FALSE]     \* whether the closure has a post processor

isPost(h) == h.method = "POST"

\* map::insert keeps the value that is there.
Insert(params, key, value) ==
  [k \in DOMAIN params \cup {key} |-> IF k \in DOMAIN params THEN params[k] ELSE value]

\* sign is set aside; filters, for a token, must parse as an object.
reviewParam(h, key, value) ==
  /\ h.kind \in Manages => key # "sign"
  /\ h.kind = "token" /\ key = "filters" => value \in Objects

\* Each call is taken for a whole parameter; of one that comes in pieces the
\* params keep the first, sign and filters the last.
addParam(h, key, value) ==
  [h EXCEPT
     !.sign    = IF h.kind \in Manages /\ key = "sign" THEN value ELSE @,
     !.filters = IF h.kind = "token" /\ key = "filters" /\ value \in Objects THEN value ELSE @,
     !.params  = IF h.kind # "no_route" /\ reviewParam(h, key, value)
                   THEN Insert(@, key, value) ELSE @]

\* What MD5Stream digests, in two pieces; no two digests are alike.
Signature(uri, method, params) ==
  << <<"head", uri, method, params>>, <<"tail", uri, method, params>> >>

checkParams(h) ==
  IF \/ checkSign /\ h.sign = <<>>
     \/ h.kind = "attach" /\ ~ {"key", "prefixes", "item"} \subseteq DOMAIN h.params
    THEN "bad_param"
    ELSE "ok"

\* Slip: the signature is not looked at.
validateParamsOnly(h) == checkParams(h)

validate(h) ==
  CASE checkParams(h) # "ok"                            -> "bad_param"
    [] checkParams(h) = "ok" /\ checkSign /\ h.sign # Signature(h.uri, h.method, h.params)
         -> "bad_sign"
    [] OTHER                                            -> "ok"

\* Slip: Router::initHandlerRelyMap leaves out manager::BaseHandler.
replysOfAttach == {"no_keys", "create_item", "already_exists", "attach_keys", "attach_item"}

\* Codes fillReply was called for; nothing calls taboo::BaseHandler::initReplys.
replys == {"bad_request_method", "bad_request", "bad_sign", "bad_param",
           "no_keys", "create_item", "already_exists", "attach_keys", "attach_item"}

\* errUnknownReply is never set.
getReply(code) == IF code \in replys THEN code ELSE "null"

\* A way process() can go: the reply's code, "dies" if it does not return, and
\* what it has asked for.
Outcome(code, asked) == [reply |-> code, call |-> asked]

upsert(params) ==
  "upsert" \in DOMAIN params /\ params["upsert"] # <<>> => Head(params["upsert"]) # Zero

AttachCall(h) ==
  [op |-> "attach", keys |-> h.params["prefixes"], item |-> h.params["item"],
   upsert |-> upsert(h.params)]

\* Keeper::attach: always succeeds with upsert; the double array takes no empty
\* string, and exits.
attach(h) ==
  IF h.params["prefixes"] \in BlankLists
    THEN {Outcome("dies", AttachCall(h))}
    ELSE {Outcome(code, AttachCall(h)) :
            code \in {"ok"} \cup (IF upsert(h.params) THEN {} ELSE {getReply("already_exists")})}

\* makeItem looks for the id among the members of whatever has parsed: of another
\* value than an object it finds any or none in bytes that are none, or (in debug)
\* the process ends.
createItem(h) ==
  LET refused == Outcome(getReply("create_item"), NoCall)
  IN  CASE h.params["item"] \in Items     -> attach(h)
        [] h.params["item"] \in NoObjects -> {Outcome("dies", NoCall), refused} \cup attach(h)
        [] OTHER                          -> {refused}

\* getKeys reads other elements as if they were strings; with a NUL inside, the
\* double array takes the end of a shorter string for a node: both may go well.
dealAttach(h) ==
  CASE h.params["prefixes"] \notin Lists -> {Outcome(getReply("no_keys"), NoCall)}
    [] h.params["prefixes"] \in OddLists -> {Outcome("dies", NoCall)} \cup createItem(h)
    [] OTHER                             -> createItem(h)

\* expire Null: the time the code computes itself.
TokenCall(h) ==
  [op |-> "ensure", identy |-> h.params["tid"], filters |-> h.filters,
   expire |-> IF "expire" \in DOMAIN h.params THEN h.params["expire"] ELSE Null]

\* lexical_cast throws out of a function declared throw().
dealToken(h) ==
  CASE "tid" \notin DOMAIN h.params -> {Outcome(getReply("bad_param"), NoCall)}
    [] /\ "tid" \in DOMAIN h.params
       /\ \E k \in {"tid", "expire"} \cap DOMAIN h.params : h.params[k] \notin Numerals ->
         {Outcome("dies", NoCall)}
    [] OTHER -> {Outcome("ok", TokenCall(h))}

\* The ways Query::rebuild can go, under the options the server runs with.
rebuild(text) ==
  {way \in {"ok", "bad_query", "dies"} :
     CASE way = "ok"   -> text \in Queries
       [] way = "dies" -> text \in FatalQueries
       [] OTHER        -> text \in OddQueries \/ text \notin Queries \cup FatalQueries}

\* HttpPredicter::process
predict(h) ==
  CASE "data" \notin DOMAIN h.params -> {Outcome("no_query", NoCall)}
    [] "data" \in DOMAIN h.params /\ Len(h.params["data"]) > QueryDataMaxSize ->
         {Outcome("bad_query", NoCall)}
    [] OTHER ->
         {Outcome(way, IF way = "ok" THEN [op |-> "seek", query |-> h.params["data"]] ELSE NoCall) :
            way \in rebuild(h.params["data"])}

\* status has no result, detach one without a reply.
deal(h) ==
  CASE h.kind = "attach" -> dealAttach(h)
    [] h.kind = "token"  -> dealToken(h)
    [] h.kind = "status" -> {Outcome(getReply("unknown"), NoCall)}
    [] h.kind = "detach" -> {Outcome(getReply("detach"), NoCall)}

process(h) ==
  CASE h.kind = "no_route" -> {Outcome("no_route", NoCall)}
    [] h.kind = "predict"  -> predict(h)
    [] OTHER -> IF validate(h) = "ok" THEN deal(h)
                                      ELSE {Outcome(getReply(validate(h)), NoCall)}

-----------------------------------------------------------------------------
(* libmicrohttpd and Manager::handleReqpest *)

Handler(c) == pool[conClosure[c]]

Free == {m \in Cells : pool[m] = NoHandler}

Goto(c, s) == stage' = [stage EXCEPT ![c] = s]

\* Closure::destroy for the closure of c.
Destroy(c) == pool' = [pool EXCEPT ![conClosure[c]] = NoHandler]

Accept(c) ==
  /\ stage[c] = "idle"
  /\ \E r \in Requests : request' = [request EXCEPT ![c] = r]
  /\ Goto(c, "started")
  /\ UNCHANGED <<rest, conClosure, pool, reply, call, died>>

\* First call for a request: Closure::create.
FirstCall(c) ==
  /\ stage[c] = "started"
  /\ \E m \in Free :
       /\ conClosure' = [conClosure EXCEPT ![c] = m]
       /\ pool' = [pool EXCEPT ![m] = route(request[c].method, request[c].uri)]
  /\ rest' = [rest EXCEPT ![c] = request[c].args]
  /\ Goto(c, "args")
  /\ UNCHANGED <<request, reply, call, died>>

\* Slip: no value is passed on like any other.
AddGetParamUnchecked(c) ==
  /\ stage[c] = "args"
  /\ rest[c] # <<>>
  /\ pool' = [pool EXCEPT ![conClosure[c]] =
                addParam(@, Head(rest[c])[1], Head(rest[c])[2])]
  /\ rest' = [rest EXCEPT ![c] = Tail(@)]
  /\ UNCHANGED <<stage, request, conClosure, reply, call, died>>

\* getParamIterator; a std::string cannot be made from the null pointer.
AddGetParam(c) ==
  /\ stage[c] = "args"
  /\ rest[c] # <<>>
  /\ LET key == Head(rest[c])[1]
         value == Head(rest[c])[2]
     IN  IF value = Null
           THEN died' = c /\ UNCHANGED <<rest, pool>>
           ELSE /\ pool' = [pool EXCEPT ![conClosure[c]] = addParam(@, key, value)]
                /\ rest' = [rest EXCEPT ![c] = Tail(@)]
                /\ UNCHANGED died
  /\ UNCHANGED <<stage, request, conClosure, reply, call>>

\* The first call goes on: a POST request needs a post processor.
CreatePostProcessor(c) ==
  /\ stage[c] = "args"
  /\ rest[c] = <<>>
  /\ IF isPost(Handler(c)) /\ ~ request[c].form
       THEN Goto(c, "aborted") /\ UNCHANGED <<pool, rest>>
       ELSE /\ Goto(c, "upload")
            /\ pool' = [pool EXCEPT ![conClosure[c]].post = isPost(Handler(c))]
            /\ rest' = [rest EXCEPT ![c] = request[c].body]
  /\ UNCHANGED <<request, conClosure, reply, call, died>>

\* A call with data: postParamIterator gets the next n pieces of a value; a
\* std::string cannot be made from a name that is null.
Upload(c) ==
  /\ stage[c] = "upload"
  /\ rest[c] # <<>>
  /\ Handler(c).post
  /\ LET key == Head(rest[c])[1]
         value == Head(rest[c])[2]
     IN  IF key = Null
           THEN died' = c /\ UNCHANGED <<rest, pool>>
           ELSE \E n \in 0 .. Len(value) :
                  /\ n = 0 => value = <<>>
                  /\ pool' = [pool EXCEPT ![conClosure[c]] =
                                addParam(@, key, SubSeq(value, 1, n))]
                  /\ rest' = [rest EXCEPT ![c] =
                                IF n = Len(value)
                                  THEN Tail(@)
                                  ELSE << <<key, SubSeq(value, n + 1, Len(value))>> >> \o Tail(@)]
                  /\ UNCHANGED died
  /\ UNCHANGED <<stage, request, conClosure, reply, call>>

\* MHD_post_process without a post processor answers MHD_NO.
UploadRefused(c) ==
  /\ stage[c] = "upload"
  /\ rest[c] # <<>>
  /\ ~ Handler(c).post
  /\ Goto(c, "aborted")
  /\ UNCHANGED <<request, rest, conClosure, pool, reply, call, died>>

\* The last call, without data: the handler's process().
Process(c) ==
  /\ stage[c] = "upload"
  /\ rest[c] = <<>>
  /\ \E o \in process(Handler(c)) :
       /\ reply' = [reply EXCEPT ![c] = o.reply]
       /\ call' = [call EXCEPT ![c] = o.call]
       /\ died' = IF o.reply = "dies" THEN c ELSE died
  /\ Goto(c, "processed")
  /\ UNCHANGED <<request, rest, conClosure, pool>>

\* Slip: *conClosure is left as it was.
RespondKeepsClosure(c) ==
  /\ stage[c] = "processed"
  /\ Destroy(c)
  /\ Goto(c, "queued")
  /\ died' = IF reply[c] = "null" THEN c ELSE died
  /\ UNCHANGED <<request, rest, conClosure, reply, call>>

\* It goes on: the closure is destroyed and the reply read and queued.
Respond(c) ==
  /\ stage[c] = "processed"
  /\ Destroy(c)
  /\ conClosure' = [conClosure EXCEPT ![c] = Null]
  /\ Goto(c, "queued")
  /\ died' = IF reply[c] = "null" THEN c ELSE died
  /\ UNCHANGED <<request, rest, reply, call>>

\* The client goes away, or the receive timeout passes, between two calls.
Abort(c) ==
  /\ stage[c] = "upload"
  /\ Goto(c, "aborted")
  /\ UNCHANGED <<request, rest, conClosure, pool, reply, call, died>>

\* Slip: the closure of a request that was cut short is not destroyed.
CompletedLeaks(c) ==
  /\ stage[c] \in {"queued", "aborted"}
  /\ conClosure' = [conClosure EXCEPT ![c] = Null]
  /\ Goto(c, "idle")
  /\ request' = [request EXCEPT ![c] = Null]
  /\ rest' = [rest EXCEPT ![c] = <<>>]
  /\ reply' = [reply EXCEPT ![c] = NoReply]
  /\ call' = [call EXCEPT ![c] = NoCall]
  /\ UNCHANGED <<pool, died>>

\* Slip: only requests that were answered are seen to.
CompletedWhenAnswered(c) ==
  /\ stage[c] \in {"queued", "aborted"}
  /\ Goto(c, IF conClosure[c] # Null THEN "aborted" ELSE "idle")
  /\ request' = [request EXCEPT ![c] = IF conClosure[c] # Null THEN @ ELSE Null]
  /\ UNCHANGED <<rest, conClosure, pool, reply, call, died>>

\* onRequestCompleted; libmicrohttpd then forgets the request.
Completed(c) ==
  /\ stage[c] \in {"queued", "aborted"}
  /\ IF conClosure[c] # Null THEN Destroy(c) ELSE UNCHANGED pool
  /\ conClosure' = [conClosure EXCEPT ![c] = Null]
  /\ Goto(c, "idle")
  /\ request' = [request EXCEPT ![c] = Null]
  /\ rest' = [rest EXCEPT ![c] = <<>>]
  /\ reply' = [reply EXCEPT ![c] = NoReply]
  /\ call' = [call EXCEPT ![c] = NoCall]
  /\ UNCHANGED died

ServerStep(c) ==
  \/ FirstCall(c) \/ AddGetParam(c) \/ CreatePostProcessor(c) \/ UploadRefused(c)
  \/ Process(c) \/ Respond(c) \/ Completed(c)

ClientStep(c) == Upload(c) \/ Abort(c)

Next ==
  /\ died = Null
  /\ \E c \in Connections : Accept(c) \/ ServerStep(c) \/ ClientStep(c)
  /\ UNCHANGED checkSign

Running(step) == died = Null /\ step /\ UNCHANGED checkSign

\* The workers go on serving a connection as long as there is something to do,
\* and a client that neither sends nor leaves meets option manage-receive-timeout.
Fairness ==
  \A c \in Connections :
    WF_vars(Running(ServerStep(c))) /\ WF_vars(Running(ClientStep(c)))

Spec == Init /\ [][Next]_vars /\ Fairness

-----------------------------------------------------------------------------
(* Properties *)

Replies ==
  replys \cup {"ok", "no_query", "bad_query", "no_route", "null", "dies", NoReply}

\* A key-to-value map as its handler has it.
IsParams(p) ==
  p \in [DOMAIN p -> Value] /\ DOMAIN p \subseteq STRING

IsHandler(h) ==
  /\ h = [kind |-> h.kind, method |-> h.method, uri |-> h.uri, params |-> h.params,
          sign |-> h.sign, filters |-> h.filters, post |-> h.post]
  /\ h.kind \in Kinds
  /\ IsParams(h.params) /\ h.sign \in Value
  /\ h.filters \in Value \cup {Null} /\ h.post \in BOOLEAN

RestOK ==
  /\ rest \in [Connections -> Seq(AnyParams)]
  /\ \A c \in Connections : stage[c] = "args" => rest[c] \in Seq(UriParams)
  /\ \A c \in Connections : stage[c] = "upload" => rest[c] \in Seq(BodyParams)

PoolOK ==
  /\ pool = [m \in Cells |-> pool[m]]
  /\ \A m \in Cells : pool[m] = NoHandler \/ IsHandler(pool[m])

\* The state has its type; what is left are parameters of the URI in "args", and
\* of the body in "upload".
TypeOK ==
  /\ stage \in [Connections -> Stages]
  /\ request \in [Connections -> Requests \cup {Null}]
  /\ \A c \in Connections : request[c] = Null <=> stage[c] = "idle"
  /\ RestOK /\ PoolOK
  /\ conClosure \in [Connections -> Cells \cup {Null}]
  /\ reply \in [Connections -> Replies]
  /\ checkSign \in BOOLEAN
  /\ died \in Connections \cup {Null}

Serving == {"args", "upload", "processed", "aborted"}

\* While a request is served its closure is in a cell no other connection has,
\* and a cell is in use only while its request is served: whatever way a request
\* ends (answered, refused, cut short), its closure is destroyed exactly once.
ClosureOwned ==
  /\ \A c \in Connections :
       /\ conClosure[c] # Null <=> stage[c] \in Serving
       /\ conClosure[c] # Null => pool[conClosure[c]] # NoHandler
  /\ \A c, d \in Connections : conClosure[c] = conClosure[d] /\ conClosure[c] # Null => c = d
  /\ \A m \in Cells : pool[m] # NoHandler => \E c \in Connections : conClosure[c] = m

\* The values a request carries under a name, and their parts.
Given(r, key) == {p[2] : p \in {q \in Range(r.args) \cup Range(r.body) : q[1] = key}}
Parts(v) == {SubSeq(v, i, j) : i \in 1 .. Len(v) + 1, j \in 0 .. Len(v)}

\* The handler that serves a connection is the one its own request was routed
\* to, and holds nothing but parts of values that request carries: requests
\* served at once, and one after the other in the same cell, do not mix.
NoMixing ==
  \A c \in Connections : conClosure[c] # Null /\ Handler(c) # NoHandler =>
    LET h == Handler(c)
        r == request[c]
    IN  /\ h.kind = handlerCreator(r.uri)
        /\ \A k \in DOMAIN h.params :
             \E v \in Given(r, k) : v # Null /\ h.params[k] \in Parts(v)

Names(r) == {p[1] : p \in Range(r.args) \cup Range(r.body)}

\* What the client that sent r asks for, each parameter taken whole.
Meant(r) ==
  LET sent(k) == CHOOSE v \in Given(r, k) : TRUE
      names == Names(r) \ {"sign"}
  IN  [params  |-> [k \in names |-> sent(k)],
       filters |-> IF "filters" \in names /\ sent("filters") \in Objects
                     THEN sent("filters") ELSE Null]

NamesOnce(r) ==
  LET all == r.args \o r.body
  IN  \A i, j \in 1 .. Len(all) : all[i][1] = all[j][1] => i = j

\* Maps of parts of the values that r carries, each under a name of its own.
PartsOf(r) ==
  LET given(k) == Given(r, k) \ {Null}
      parts    == UNION {UNION {Parts(v) : v \in given(k)} : k \in Names(r)}
  IN  UNION {{p \in [names -> parts] : \A k \in names : \E v \in given(k) : p[k] \in Parts(v)} :
               names \in SUBSET (Names(r) \ {"sign"})}

\* Clients sign what they send.  What is signed is a map: a request made of one has
\* each name once, and carries no signature of other parts of its values.
ASSUME SignersAssumption ==
  \A r \in Requests : \A sign \in Given(r, "sign") \ {Null} :
    /\ NamesOnce(r)
    /\ \A p \in PartsOf(r) :
         Signature(r.uri, r.method, p) \in Parts(sign) => p = Meant(r).params

\* With signatures checked the index and the sessions are only ever asked for
\* what a client asked for, though postParamIterator takes each piece of a value
\* for a parameter: the pieces of a value that came in several are not acted on.
ActedAsMeant ==
  \A c \in Connections : checkSign =>
    /\ call[c].op = "attach" => call[c] = AttachCall(Meant(request[c]))
    /\ call[c].op = "ensure" => call[c] = TokenCall(Meant(request[c]))

\* The signature of what is meant, on the request.
SignedWhole(r) ==
  \E sign \in Given(r, "sign") \ {Null} :
    Signature(r.uri, r.method, Meant(r).params) \in Parts(sign)

\* What the handler may take for a parameter: any part of its value, but with
\* signatures checked the whole.
Taken(r, key) ==
  IF checkSign /\ handlerCreator(r.uri) \in Manages
    THEN {Meant(r).params[k] : k \in {key} \cap DOMAIN Meant(r).params}
    ELSE UNION {Parts(v) : v \in Given(r, key) \ {Null}}

FatalManage(r) ==
  LET kind  == handlerCreator(r.uri)
      lists == Taken(r, "prefixes") \cap Lists
  IN  \/ kind \in {"status", "detach"}
      \/ kind = "token" /\ ~ Taken(r, "tid") \cup Taken(r, "expire") \subseteq Numerals
      \/ /\ kind = "attach"
         /\ \/ lists \cap OddLists # {}
            \/ lists # {} /\ Taken(r, "item") \cap NoObjects # {}
            \/ lists \cap BlankLists # {} /\ Taken(r, "item") \cap Items # {}

\* Requests the process may end with.
Fatal(r) ==
  \/ \E p \in Range(r.args) : p[2] = Null
  \/ \E p \in Range(r.body) : p[1] = Null
  \/ handlerCreator(r.uri) = "predict" /\ Taken(r, "data") \cap FatalQueries # {}
  \/ /\ handlerCreator(r.uri) \in Manages /\ FatalManage(r)
     /\ checkSign => SignedWhole(r)

\* Nothing but these requests ends the process: a parameter without a value or
\* without a name; a query with a prefix that is no string or with hidden fields;
\* and, of those to /manage, status and detach (erase), which have no reply, a token
\* whose numbers cannot be read, and an attach with prefixes that are no strings or
\* empty, or an item that is no object.  With signatures checked it takes one that
\* is right for the whole: what arrives in pieces, or unsigned, ends nothing.
\* Every other code has its reply.
DiesOnlyOfFatalRequests ==
  died # Null =>
    /\ Fatal(request[died])
    /\ reply[died] = "null" => handlerCreator(request[died].uri) \in {"status", "detach"}

\* A closure is destroyed in the end, however much its client sends and however
\* slowly: each call with data consumes it.
EveryClosureFreed ==
  \A c \in Connections : conClosure[c] # Null ~> (conClosure[c] = Null \/ died # Null)
=============================================================================
