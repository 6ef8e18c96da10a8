---------------------------- MODULE ServerProofs ----------------------------
(***************************************************************************)
(* Theorems about Server for any number of connections and any requests.   *)
(***************************************************************************)
EXTENDS Server, SequenceTheorems, TLAPS

LEMMA ParamsAreAny == Seq(UriParams) \subseteq Seq(AnyParams) /\ Seq(BodyParams) \subseteq Seq(AnyParams)
<1>1. UriParams \subseteq AnyParams /\ BodyParams \subseteq AnyParams
  BY DEF UriParams, BodyParams, AnyParams, Name
<1>2. QED
  BY <1>1

\* The fields of a request.
LEMMA RequestFields ==
  ASSUME NEW r \in Requests
  PROVE  /\ r # Null
         /\ r.method \in STRING /\ r.uri \in STRING /\ r.form \in BOOLEAN
         /\ r.args \in Seq(UriParams) /\ r.args \in Seq(AnyParams)
         /\ r.body \in Seq(BodyParams) /\ r.body \in Seq(AnyParams)
<1>1. /\ r # Null
      /\ r.method \in STRING /\ r.uri \in STRING /\ r.form \in BOOLEAN
      /\ r.args \in Seq(UriParams) /\ r.body \in Seq(BodyParams)
  BY RequestsAssumption, NullAssumption DEF RequestType, UriParams, BodyParams
<1>2. QED
  BY <1>1, ParamsAreAny

-----------------------------------------------------------------------------
(* Handlers stay handlers *)

\* A free cell holds no handler.
LEMMA NoHandlerIsNone ==
  ASSUME NEW h, IsHandler(h)
  PROVE  h # NoHandler
<1>1. h.kind # "none"
  BY DEF IsHandler, Kinds, Manages
<1>2. QED
  BY <1>1 DEF NoHandler

\* The router makes a handler.
LEMMA RouteIsHandler ==
  ASSUME NEW method, NEW uri
  PROVE  IsHandler(route(method, uri)) /\ route(method, uri).kind = handlerCreator(uri)
<1>1. handlerCreator(uri) \in Kinds
  BY DEF handlerCreator, Kinds, Manages
<1>2. <<>> \in Value
  BY DEF Value
<1> DEFINE none == [k \in {} |-> <<>>]
           kind == handlerCreator(uri)
           itsMethod == IF kind = "no_route" THEN "" ELSE method
           itsUri == IF kind = "no_route" THEN "" ELSE uri
<1>3. IsParams(none)
  BY DEF IsParams
<1>4. route(method, uri) =
        [kind |-> kind, method |-> itsMethod, uri |-> itsUri, params |-> none,
         sign |-> <<>>, filters |-> Null, post |-> FALSE]
  BY DEF route
<1> HIDE DEF none, kind, itsMethod, itsUri
<1>5. IsHandler(route(method, uri)) /\ route(method, uri).kind = kind
  BY <1>1, <1>2, <1>3, <1>4 DEF IsHandler, kind
<1>6. QED
  BY <1>5 DEF kind

\* The parameters after an insertion.
LEMMA InsertIsParams ==
  ASSUME NEW p, IsParams(p), NEW key \in STRING, NEW value \in Value
  PROVE  /\ IsParams(Insert(p, key, value))
         /\ \A k \in DOMAIN Insert(p, key, value) :
              \/ k \in DOMAIN p /\ Insert(p, key, value)[k] = p[k]
              \/ k = key /\ Insert(p, key, value)[k] = value
BY DEF IsParams, Insert

\* A parameter changes nothing of a handler but what it has been given.
LEMMA AddParamIsHandler ==
  ASSUME NEW h, IsHandler(h), NEW key \in STRING, NEW value \in Value
  PROVE  /\ IsHandler(addParam(h, key, value))
         /\ addParam(h, key, value).kind = h.kind
         /\ \A k \in DOMAIN addParam(h, key, value).params :
              \/ k \in DOMAIN h.params /\ addParam(h, key, value).params[k] = h.params[k]
              \/ k = key /\ addParam(h, key, value).params[k] = value
<1> DEFINE sign == IF h.kind \in Manages /\ key = "sign" THEN value ELSE h.sign
           filters == IF h.kind = "token" /\ key = "filters" /\ value \in Objects
                        THEN value ELSE h.filters
           params == IF h.kind # "no_route" /\ reviewParam(h, key, value)
                       THEN Insert(h.params, key, value) ELSE h.params
<1>1. h = [kind |-> h.kind, method |-> h.method, uri |-> h.uri, params |-> h.params,
           sign |-> h.sign, filters |-> h.filters, post |-> h.post]
  BY DEF IsHandler
<1>2. addParam(h, key, value) =
        [h EXCEPT !.sign = sign, !.filters = filters, !.params = params]
  BY <1>1, Zenon DEF addParam
<1>3. sign \in Value /\ filters \in Value \cup {Null}
  BY DEF IsHandler
<1>4. /\ IsParams(params)
      /\ \A k \in DOMAIN params : \/ k \in DOMAIN h.params /\ params[k] = h.params[k]
                                  \/ k = key /\ params[k] = value
  BY InsertIsParams DEF IsHandler
<1> HIDE DEF sign, filters, params
<1>5. addParam(h, key, value) =
        [kind |-> h.kind, method |-> h.method, uri |-> h.uri, params |-> params,
         sign |-> sign, filters |-> filters, post |-> h.post]
  BY <1>1, <1>2
<1>6. QED
  BY <1>3, <1>4, <1>5 DEF IsHandler

\* Nor does a post processor.
LEMMA PostIsHandler ==
  ASSUME NEW h, IsHandler(h), NEW post \in BOOLEAN
  PROVE  /\ IsHandler([h EXCEPT !.post = post])
         /\ [h EXCEPT !.post = post].kind = h.kind
         /\ [h EXCEPT !.post = post].params = h.params
<1>1. h = [kind |-> h.kind, method |-> h.method, uri |-> h.uri, params |-> h.params,
           sign |-> h.sign, filters |-> h.filters, post |-> h.post]
  BY DEF IsHandler
<1>2. [h EXCEPT !.post = post] =
        [kind |-> h.kind, method |-> h.method, uri |-> h.uri, params |-> h.params,
         sign |-> h.sign, filters |-> h.filters, post |-> post]
  BY <1>1
<1>3. QED
  BY <1>2 DEF IsHandler

-----------------------------------------------------------------------------
(* Closures: what the connections keep and what the pool holds agree       *)

Inv == TypeOK /\ ClosureOwned

\* A connection that is served has a handler in its cell.
LEMMA ServedHasHandler ==
  ASSUME Inv, NEW c \in Connections, stage[c] \in Serving
  PROVE  conClosure[c] \in Cells /\ IsHandler(Handler(c))
<1>1. conClosure[c] # Null /\ pool[conClosure[c]] # NoHandler
  BY Zenon DEF Inv, ClosureOwned
<1>2. conClosure \in [Connections -> Cells \cup {Null}]
  BY Zenon DEF Inv, TypeOK
<1>3. \A m \in Cells : pool[m] = NoHandler \/ IsHandler(pool[m])
  BY Zenon DEF Inv, TypeOK, PoolOK, RestOK
<1>4. conClosure[c] \in Cells
  BY <1>1, <1>2
<1>5. QED
  BY <1>1, <1>3, <1>4, Zenon DEF Handler

\* A step that puts another handler where there was one keeps the pool typed.
LEMMA PoolKept ==
  ASSUME PoolOK, NEW m \in Cells, NEW h, IsHandler(h) \/ h = NoHandler,
         pool' = [pool EXCEPT ![m] = h]
  PROVE  PoolOK' /\ pool'[m] = h /\ \A n \in Cells : n # m => pool'[n] = pool[n]
<1>1. pool'[m] = h /\ \A n \in Cells : n # m => pool'[n] = pool[n]
  BY DEF PoolOK
<1>2. pool' = [n \in Cells |-> pool'[n]]
  BY DEF PoolOK
<1>3. QED
  BY <1>1, <1>2 DEF PoolOK

\* Ownership is kept by a step that moves no connection into or out of service
\* and neither fills nor empties a cell.
LEMMA OwnedKept ==
  ASSUME ClosureOwned, conClosure' = conClosure,
         \A m \in Cells : pool'[m] = NoHandler <=> pool[m] = NoHandler,
         \A c \in Connections : stage'[c] \in Serving <=> stage[c] \in Serving,
         conClosure \in [Connections -> Cells \cup {Null}]
  PROVE  ClosureOwned'
BY DEF ClosureOwned

\* The invariant holds when no connection is served.
LEMMA InitInv == Init => Inv
<1> SUFFICES ASSUME Init PROVE Inv
  OBVIOUS
<1>1. TypeOK
  <2>1. <<>> \in Seq(Name \X (Value \cup {Null}))
    OBVIOUS
  <2>2. QED
    BY <2>1 DEF Init, TypeOK, PoolOK, RestOK, Stages, Replies
<1>2. ClosureOwned
  BY NullAssumption DEF Init, ClosureOwned, Serving
<1>3. QED
  BY <1>1, <1>2 DEF Inv

\* The next request of a connection is taken.
LEMMA AcceptInv ==
  ASSUME Inv, NEW c \in Connections, Accept(c), UNCHANGED checkSign
  PROVE  Inv'
<1>1. TypeOK'
  BY RequestFields DEF Inv, TypeOK, PoolOK, RestOK, Accept, Goto, Stages
<1>2. ClosureOwned'
  BY OwnedKept DEF Inv, TypeOK, Accept, Goto, Serving
<1>3. QED
  BY <1>1, <1>2 DEF Inv

\* A new closure is put into a cell that was free, so that no one has it.
LEMMA FirstCallInv ==
  ASSUME Inv, NEW c \in Connections, FirstCall(c), UNCHANGED checkSign
  PROVE  Inv'
<1> USE DEF Inv
<1>1. request[c] \in Requests
  BY DEF TypeOK, FirstCall
<1> DEFINE h == route(request[c].method, request[c].uri)
<1>2. IsHandler(h) /\ h # NoHandler
  BY RouteIsHandler, NoHandlerIsNone
<1>3. PICK m \in Free : /\ conClosure' = [conClosure EXCEPT ![c] = m]
                        /\ pool' = [pool EXCEPT ![m] = h]
  BY DEF FirstCall
<1> HIDE DEF h
<1>4. PoolOK' /\ pool'[m] = h /\ \A n \in Cells : n # m => pool'[n] = pool[n]
  BY <1>2, <1>3, PoolKept DEF TypeOK, PoolOK, Free
<1>5. TypeOK'
  <2>1. request[c].args \in Seq(UriParams) /\ request[c].args \in Seq(AnyParams)
    BY <1>1, RequestFields
  <2>2. RestOK
    BY DEF TypeOK
  <2>3. /\ stage' = [stage EXCEPT ![c] = "args"] /\ rest' = [rest EXCEPT ![c] = request[c].args]
        /\ UNCHANGED <<request, reply, died, checkSign>>
    BY DEF FirstCall, Goto
  <2>4. RestOK'
    BY <2>1, <2>2, <2>3 DEF RestOK, TypeOK
  <2>5. /\ stage' \in [Connections -> Stages] /\ conClosure' \in [Connections -> Cells \cup {Null}]
        /\ \A d \in Connections : request'[d] = Null <=> stage'[d] = "idle"
    BY <1>1, <1>3, <2>3, RequestFields DEF TypeOK, Stages, Free
  <2>6. QED
    BY <1>4, <2>3, <2>4, <2>5 DEF TypeOK
<1>6. stage' = [stage EXCEPT ![c] = "args"] /\ stage[c] = "started" /\ m \in Cells
      /\ pool[m] = NoHandler
  BY <1>3 DEF FirstCall, Goto, Free
<1>7. ClosureOwned'
  <2>1. conClosure'[c] = m /\ m # Null /\ stage'[c] = "args"
    BY <1>3, <1>6, NullAssumption DEF TypeOK
  <2>2. \A d \in Connections : d # c => conClosure'[d] = conClosure[d] /\ stage'[d] = stage[d]
    BY <1>3, <1>6 DEF TypeOK
  <2>3. \A d \in Connections : conClosure[d] # m
    BY <1>6, <2>1 DEF ClosureOwned
  <2>4. \A d \in Connections : conClosure[d] # Null => conClosure[d] \in Cells
    BY DEF TypeOK
  <2>5. \A d \in Connections :
          /\ conClosure'[d] # Null <=> stage'[d] \in Serving
          /\ conClosure'[d] # Null => pool'[conClosure'[d]] # NoHandler
    BY <1>2, <1>4, <2>1, <2>2, <2>3, <2>4 DEF ClosureOwned, Serving
  <2>6. \A d, e \in Connections :
          conClosure'[d] = conClosure'[e] /\ conClosure'[d] # Null => d = e
    BY <2>1, <2>2, <2>3 DEF ClosureOwned
  <2>7. \A n \in Cells : pool'[n] # NoHandler => \E d \in Connections : conClosure'[d] = n
    <3>1. conClosure[c] = Null
      BY <1>6 DEF ClosureOwned, Serving
    <3>2. ASSUME NEW n \in Cells, pool'[n] # NoHandler, n # m
          PROVE  \E d \in Connections : conClosure'[d] = n
      <4>1. PICK d \in Connections : conClosure[d] = n
        BY <1>4, <3>2 DEF ClosureOwned
      <4>2. d # c
        BY <3>1, <4>1, NullAssumption
      <4>3. QED
        BY <2>2, <4>1, <4>2
    <3>3. QED
      BY <2>1, <3>2
  <2>8. QED
    BY <2>5, <2>6, <2>7 DEF ClosureOwned
<1>8. QED
  BY <1>5, <1>7

\* A parameter leaves the closure where it is.
LEMMA ParamInv ==
  ASSUME Inv, NEW c \in Connections,
         UNCHANGED <<stage, request, conClosure, reply, checkSign, died>>,
         stage[c] \in Serving, NEW key \in STRING, NEW value \in Value,
         pool' = [pool EXCEPT ![conClosure[c]] = addParam(@, key, value)],
         RestOK'
  PROVE  Inv'
<1> USE DEF Inv
<1> DEFINE m == conClosure[c]
           h == addParam(pool[m], key, value)
<1>1. m \in Cells /\ IsHandler(pool[m])
  BY ServedHasHandler DEF Handler
<1>2. IsHandler(h)
  BY <1>1, AddParamIsHandler
<1>3. pool' = [pool EXCEPT ![m] = h]
  OBVIOUS
<1> HIDE DEF h
<1>4. PoolOK' /\ pool'[m] = h /\ \A n \in Cells : n # m => pool'[n] = pool[n]
  BY <1>1, <1>2, <1>3, PoolKept DEF TypeOK, PoolOK
<1>5. TypeOK'
  BY <1>4 DEF TypeOK
<1>6. \A n \in Cells : pool'[n] = NoHandler <=> pool[n] = NoHandler
  BY <1>1, <1>2, <1>4, NoHandlerIsNone
<1>7. ClosureOwned'
  BY <1>6, OwnedKept DEF TypeOK
<1>8. QED
  BY <1>5, <1>7

\* What is left in "args" are parameters of the URI.
LEMMA ArgsTyped ==
  ASSUME Inv, NEW c \in Connections, stage[c] = "args"
  PROVE  rest[c] \in Seq(UriParams) /\ rest[c] \in Seq(AnyParams)
BY Zenon DEF Inv, TypeOK, RestOK

\* A parameter of the URI.
LEMMA AddGetParamInv ==
  ASSUME Inv, NEW c \in Connections, AddGetParam(c), UNCHANGED checkSign
  PROVE  Inv'
<1> USE DEF Inv
<1> DEFINE first == Head(rest[c])
<1>1. /\ rest[c] \in Seq(UriParams) /\ rest[c] \in Seq(AnyParams) /\ rest[c] # <<>>
      /\ stage[c] = "args"
  <2>1. stage[c] = "args" /\ rest[c] # <<>>
    BY DEF AddGetParam
  <2>2. QED
    BY <2>1, ArgsTyped
<1>2. first[1] \in STRING /\ first[2] \in Value \cup {Null}
  BY <1>1 DEF UriParams
<1>3. CASE first[2] = Null
  <2>1. /\ UNCHANGED <<stage, request, rest, conClosure, pool, reply>>
        /\ died' \in Connections \cup {Null}
    BY <1>3 DEF AddGetParam
  <2>2. QED
    BY <2>1 DEF TypeOK, PoolOK, RestOK, ClosureOwned
<1>4. CASE first[2] # Null
  <2>1. /\ pool' = [pool EXCEPT ![conClosure[c]] = addParam(@, first[1], first[2])]
        /\ rest' = [rest EXCEPT ![c] = Tail(@)]
        /\ UNCHANGED <<stage, request, conClosure, reply, died>>
    BY <1>4 DEF AddGetParam
  <2>2. Tail(rest[c]) \in Seq(UriParams) /\ Tail(rest[c]) \in Seq(AnyParams)
    BY <1>1
  <2>3. RestOK'
    BY <1>1, <2>1, <2>2 DEF TypeOK, RestOK
  <2>4. first[2] \in Value /\ stage[c] \in Serving
    BY <1>1, <1>2, <1>4 DEF Serving
  <2> HIDE DEF first
  <2>5. QED
    BY <1>2, <2>1, <2>3, <2>4, ParamInv
<1>5. QED
  BY <1>3, <1>4

\* What is left of a value is a value.
LEMMA PieceIsValue ==
  ASSUME NEW value \in Value, NEW i \in 1 .. Len(value) + 1, NEW j \in 0 .. Len(value)
  PROVE  SubSeq(value, i, j) \in Value
<1>1. \A k \in i .. j : value[k] \in Text
  BY DEF Value
<1>2. QED
  BY <1>1 DEF Value

\* The data that is left once a call has taken n pieces of the first value.
Left(data, n) ==
  IF n = Len(Head(data)[2])
    THEN Tail(data)
    ELSE << <<Head(data)[1], SubSeq(Head(data)[2], n + 1, Len(Head(data)[2]))>> >> \o Tail(data)

LEMMA LeftIsData ==
  ASSUME NEW data \in Seq(BodyParams), data # <<>>, NEW n \in 0 .. Len(Head(data)[2])
  PROVE  Left(data, n) \in Seq(BodyParams)
<1>1. Head(data) \in BodyParams /\ Tail(data) \in Seq(BodyParams)
  OBVIOUS
<1> DEFINE key == Head(data)[1]
           value == Head(data)[2]
<1>2. key \in Name /\ value \in Value
  BY <1>1 DEF BodyParams
<1>3. CASE n # Len(value)
  <2>1. n + 1 \in 1 .. Len(value) + 1 /\ Len(value) \in 0 .. Len(value)
    BY <1>2, <1>3 DEF Value
  <2>2. SubSeq(value, n + 1, Len(value)) \in Value
    BY <1>2, <2>1, PieceIsValue
  <2>3. <<key, SubSeq(value, n + 1, Len(value))>> \in BodyParams
    BY <1>2, <2>2 DEF BodyParams
  <2>4. QED
    BY <1>1, <1>3, <2>3 DEF Left
<1>4. QED
  BY <1>1, <1>3 DEF Left

\* A part of a parameter of the body.
LEMMA UploadInv ==
  ASSUME Inv, NEW c \in Connections, Upload(c), UNCHANGED checkSign
  PROVE  Inv'
<1> USE DEF Inv
<1> DEFINE key == Head(rest[c])[1]
           value == Head(rest[c])[2]
<1>1. rest[c] \in Seq(BodyParams) /\ rest[c] # <<>> /\ stage[c] = "upload"
  BY DEF TypeOK, RestOK, Upload
<1>2. key \in Name /\ value \in Value
  BY <1>1 DEF BodyParams
<1>3. UNCHANGED <<stage, request, conClosure, reply, checkSign>>
  BY DEF Upload
<1>4. CASE key = Null
  <2>1. UNCHANGED <<rest, pool>> /\ died' \in Connections \cup {Null}
    BY <1>4 DEF Upload
  <2>2. QED
    BY <1>3, <2>1 DEF TypeOK, PoolOK, RestOK, ClosureOwned
<1>5. CASE key # Null
  <2>1. PICK n \in 0 .. Len(value) :
          /\ pool' = [pool EXCEPT ![conClosure[c]] = addParam(@, key, SubSeq(value, 1, n))]
          /\ rest' = [rest EXCEPT ![c] = Left(rest[c], n)]
    BY <1>5 DEF Upload, Left
  <2>2. Left(rest[c], n) \in Seq(BodyParams) /\ Left(rest[c], n) \in Seq(AnyParams)
    BY <1>1, <2>1, LeftIsData, ParamsAreAny
  <2>3. SubSeq(value, 1, n) \in Value
    BY <1>2, PieceIsValue DEF Value
  <2>4. UNCHANGED died /\ stage[c] \in Serving /\ key \in STRING
    BY <1>1, <1>2, <1>5 DEF Upload, Serving, Name
  <2> HIDE DEF key, value
  <2>5. RestOK'
    BY <1>1, <1>3, <2>1, <2>2 DEF TypeOK, RestOK
  <2>6. QED
    BY <1>3, <2>1, <2>3, <2>4, <2>5, ParamInv
<1>6. QED
  BY <1>4, <1>5

\* The first call goes on to the body.
LEMMA CreatePostProcessorInv ==
  ASSUME Inv, NEW c \in Connections, CreatePostProcessor(c), UNCHANGED checkSign
  PROVE  Inv'
<1> USE DEF Inv
<1>1. /\ stage[c] = "args" /\ stage[c] \in Serving /\ request[c] \in Requests
      /\ UNCHANGED <<request, conClosure, reply, died>>
  BY DEF TypeOK, CreatePostProcessor, Serving
<1>2. CASE isPost(Handler(c)) /\ ~ request[c].form
  <2>1. stage' = [stage EXCEPT ![c] = "aborted"] /\ UNCHANGED <<pool, rest>>
    BY <1>2 DEF CreatePostProcessor, Goto
  <2>2. TypeOK'
    BY <1>1, <2>1 DEF TypeOK, PoolOK, RestOK, Stages
  <2>3. ClosureOwned'
    BY <1>1, <2>1, OwnedKept DEF TypeOK, Serving
  <2>4. QED
    BY <2>2, <2>3
<1>3. CASE ~ (isPost(Handler(c)) /\ ~ request[c].form)
  <2> DEFINE m == conClosure[c]
             h == [pool[m] EXCEPT !.post = isPost(Handler(c))]
  <2>1. /\ stage' = [stage EXCEPT ![c] = "upload"]
        /\ pool' = [pool EXCEPT ![m] = h]
        /\ rest' = [rest EXCEPT ![c] = request[c].body]
    BY <1>3 DEF CreatePostProcessor, Goto
  <2>2. m \in Cells /\ IsHandler(pool[m])
    BY <1>1, ServedHasHandler DEF Handler
  <2>3. IsHandler(h)
    BY <2>2, PostIsHandler DEF isPost
  <2> HIDE DEF h
  <2>4. PoolOK' /\ pool'[m] = h /\ \A n \in Cells : n # m => pool'[n] = pool[n]
    BY <2>1, <2>2, <2>3, PoolKept DEF TypeOK, PoolOK
  <2>5. request[c].body \in Seq(BodyParams) /\ request[c].body \in Seq(AnyParams)
    BY <1>1, RequestFields
  <2>6. TypeOK'
    <3>1. RestOK'
      BY <1>1, <2>1, <2>5 DEF TypeOK, RestOK
    <3>2. QED
      BY <1>1, <2>1, <2>4, <3>1 DEF TypeOK, Stages
  <2>7. \A n \in Cells : pool'[n] = NoHandler <=> pool[n] = NoHandler
    BY <2>2, <2>3, <2>4, NoHandlerIsNone
  <2>8. ClosureOwned'
    BY <1>1, <2>1, <2>7, OwnedKept DEF TypeOK, Serving
  <2>9. QED
    BY <2>6, <2>8
<1>4. QED
  BY <1>2, <1>3

\* The replies of what process() can do.
LEMMA ProcessReplies ==
  ASSUME NEW h, IsHandler(h), NEW o \in process(h)
  PROVE  o.reply \in Replies
<1>1. \A code : getReply(code) \in Replies
  BY DEF getReply, Replies
<1>2. ASSUME h.kind = "attach", o \in dealAttach(h) PROVE o.reply \in Replies
  <2>1. ASSUME o \in attach(h) PROVE o.reply \in Replies
    BY <1>1, <2>1 DEF attach, Outcome, Replies
  <2>2. ASSUME o \in createItem(h) PROVE o.reply \in Replies
    BY <1>1, <2>1, <2>2 DEF createItem, Outcome, Replies
  <2>3. QED
    BY <1>1, <1>2, <2>2 DEF dealAttach, Outcome, Replies
<1>3. ASSUME h.kind = "token", o \in dealToken(h) PROVE o.reply \in Replies
  BY <1>1, <1>3 DEF dealToken, Outcome, Replies
<1>4. ASSUME h.kind \in Manages, o \in deal(h) PROVE o.reply \in Replies
  BY <1>1, <1>2, <1>3, <1>4 DEF deal, Outcome, Manages
<1>5. ASSUME o \in predict(h) PROVE o.reply \in Replies
  BY <1>5 DEF predict, rebuild, Outcome, Replies
<1>6. h.kind \in Manages \cup {"predict", "no_route"}
  BY DEF IsHandler, Kinds
<1>7. CASE h.kind = "no_route"
  BY <1>7 DEF process, Outcome, Replies
<1>8. CASE h.kind = "predict"
  BY <1>5, <1>8 DEF process
<1>9. CASE h.kind \in Manages
  BY <1>1, <1>4, <1>9 DEF process, Outcome, Manages
<1>10. QED
  BY <1>6, <1>7, <1>8, <1>9

\* The request is refused, cut short or processed.
LEMMA StageInv ==
  ASSUME Inv, NEW c \in Connections, UploadRefused(c) \/ Abort(c) \/ Process(c),
         UNCHANGED checkSign
  PROVE  Inv'
<1> USE DEF Inv
<1>1. PICK s \in {"aborted", "processed"} : stage' = [stage EXCEPT ![c] = s]
  BY DEF UploadRefused, Abort, Process, Goto
<1>2. /\ stage[c] = "upload" /\ UNCHANGED <<request, rest, conClosure, pool>>
      /\ died' \in {died, c}
  BY DEF UploadRefused, Abort, Process
<1>3. reply' \in [Connections -> Replies]
  <2>1. CASE Process(c)
    <3>1. PICK o \in process(Handler(c)) : reply' = [reply EXCEPT ![c] = o.reply]
      BY <2>1 DEF Process
    <3>2. o.reply \in Replies
      BY <1>2, ProcessReplies, ServedHasHandler DEF Serving
    <3>3. QED
      BY <3>1, <3>2 DEF TypeOK
  <2>2. CASE UNCHANGED reply
    BY <2>2 DEF TypeOK
  <2>3. QED
    BY <2>1, <2>2 DEF UploadRefused, Abort
<1>4. TypeOK'
  BY <1>1, <1>2, <1>3 DEF TypeOK, PoolOK, RestOK, Stages
<1>5. ClosureOwned'
  BY <1>1, <1>2, OwnedKept DEF TypeOK, Serving
<1>6. QED
  BY <1>4, <1>5

\* A closure is destroyed together with the one pointer to it.
LEMMA DestroyOwned ==
  ASSUME Inv, NEW c \in Connections, conClosure[c] # Null, Destroy(c),
         conClosure' = [conClosure EXCEPT ![c] = Null],
         NEW s \in {"queued", "idle"}, stage' = [stage EXCEPT ![c] = s]
  PROVE  PoolOK' /\ ClosureOwned'
<1> USE DEF Inv
<1> DEFINE m == conClosure[c]
<1>1. m \in Cells
  BY DEF TypeOK
<1>2. PoolOK' /\ pool'[m] = NoHandler /\ \A n \in Cells : n # m => pool'[n] = pool[n]
  BY <1>1, PoolKept DEF TypeOK, PoolOK, Destroy
<1>3. conClosure'[c] = Null /\ stage'[c] = s
  BY DEF TypeOK
<1>4. \A d \in Connections : d # c => /\ conClosure'[d] = conClosure[d] /\ stage'[d] = stage[d]
                                      /\ conClosure[d] # m
  BY DEF TypeOK, ClosureOwned
<1>5. \A d \in Connections : conClosure[d] # Null => conClosure[d] \in Cells
  BY DEF TypeOK
<1>6. \A d \in Connections :
        /\ conClosure'[d] # Null <=> stage'[d] \in Serving
        /\ conClosure'[d] # Null => pool'[conClosure'[d]] # NoHandler
  BY <1>2, <1>3, <1>4, <1>5 DEF ClosureOwned, Serving
<1>7. \A d, e \in Connections :
        conClosure'[d] = conClosure'[e] /\ conClosure'[d] # Null => d = e
  BY <1>3, <1>4 DEF ClosureOwned
<1>8. \A n \in Cells : pool'[n] # NoHandler => \E d \in Connections : conClosure'[d] = n
  <2>1. ASSUME NEW n \in Cells, pool'[n] # NoHandler
        PROVE  \E d \in Connections : conClosure'[d] = n
    <3>1. n # m /\ pool[n] # NoHandler
      BY <1>2, <2>1
    <3>2. PICK d \in Connections : conClosure[d] = n
      BY <3>1 DEF ClosureOwned
    <3>3. QED
      BY <1>4, <3>1, <3>2
  <2>2. QED
    BY <2>1
<1>9. QED
  BY <1>2, <1>6, <1>7, <1>8 DEF ClosureOwned

\* The reply is queued.
LEMMA RespondInv ==
  ASSUME Inv, NEW c \in Connections, Respond(c), UNCHANGED checkSign
  PROVE  Inv'
<1> USE DEF Inv
<1>1. /\ stage[c] = "processed" /\ stage' = [stage EXCEPT ![c] = "queued"]
      /\ conClosure' = [conClosure EXCEPT ![c] = Null] /\ Destroy(c)
      /\ died' \in {died, c} /\ UNCHANGED <<request, rest, reply>>
  BY DEF Respond, Goto
<1>2. conClosure[c] # Null
  BY <1>1 DEF ClosureOwned, Serving
<1>3. PoolOK' /\ ClosureOwned'
  BY <1>1, <1>2, DestroyOwned
<1>4. TypeOK'
  BY <1>1, <1>3 DEF TypeOK, RestOK, PoolOK, Stages
<1>5. QED
  BY <1>3, <1>4

\* libmicrohttpd is done with the request.
LEMMA CompletedInv ==
  ASSUME Inv, NEW c \in Connections, Completed(c), UNCHANGED checkSign
  PROVE  Inv'
<1> USE DEF Inv
<1>1. /\ stage[c] \in {"queued", "aborted"} /\ stage' = [stage EXCEPT ![c] = "idle"]
      /\ conClosure' = [conClosure EXCEPT ![c] = Null] /\ UNCHANGED died
      /\ request' = [request EXCEPT ![c] = Null] /\ rest' = [rest EXCEPT ![c] = <<>>]
      /\ reply' = [reply EXCEPT ![c] = NoReply]
  BY DEF Completed, Goto
<1>2. PoolOK' /\ ClosureOwned'
  <2>1. CASE conClosure[c] # Null
    BY <1>1, <2>1, DestroyOwned DEF Completed
  <2>2. CASE conClosure[c] = Null
    <3>1. UNCHANGED pool /\ conClosure' = conClosure
      BY <1>1, <2>2 DEF Completed, TypeOK
    <3>2. stage[c] = "queued"
      BY <1>1, <2>2 DEF ClosureOwned, Serving
    <3>3. ClosureOwned'
      BY <1>1, <3>1, <3>2, OwnedKept DEF TypeOK, Serving
    <3>4. QED
      BY <3>1, <3>3 DEF TypeOK, PoolOK
  <2>3. QED
    BY <2>1, <2>2
<1>3. <<>> \in Seq(AnyParams)
  OBVIOUS
<1>4. TypeOK'
  <2>1. /\ stage' \in [Connections -> Stages] /\ request' \in [Connections -> Requests \cup {Null}]
        /\ rest' \in [Connections -> Seq(AnyParams)]
        /\ conClosure' \in [Connections -> Cells \cup {Null}]
        /\ reply' \in [Connections -> Replies]
    <3>1. rest \in [Connections -> Seq(AnyParams)]
      BY Zenon DEF TypeOK, RestOK
    <3>2. QED
      BY <1>1, <1>3, <3>1 DEF TypeOK, Stages, Replies
  <2>2. \A d \in Connections :
          /\ request'[d] = Null <=> stage'[d] = "idle"
          /\ stage'[d] = "args" => rest'[d] \in Seq(UriParams)
          /\ stage'[d] = "upload" => rest'[d] \in Seq(BodyParams)
    <3> SUFFICES ASSUME NEW d \in Connections
                 PROVE  /\ request'[d] = Null <=> stage'[d] = "idle"
                        /\ stage'[d] = "args" => rest'[d] \in Seq(UriParams)
                        /\ stage'[d] = "upload" => rest'[d] \in Seq(BodyParams)
      OBVIOUS
    <3>1. CASE d = c
      BY <1>1, <3>1 DEF TypeOK, RestOK
    <3>2. CASE d # c
      <4>1. stage'[d] = stage[d] /\ request'[d] = request[d] /\ rest'[d] = rest[d]
        BY <1>1, <3>2 DEF TypeOK, RestOK
      <4>2. /\ request[d] = Null <=> stage[d] = "idle"
            /\ stage[d] = "args" => rest[d] \in Seq(UriParams)
            /\ stage[d] = "upload" => rest[d] \in Seq(BodyParams)
        BY Zenon DEF TypeOK, RestOK
      <4>3. QED
        BY <4>1, <4>2, Zenon
    <3>3. QED
      BY <3>1, <3>2
  <2>3. RestOK'
    BY <2>1, <2>2 DEF RestOK
  <2>4. QED
    BY <1>1, <1>2, <2>1, <2>2, <2>3 DEF TypeOK
<1>5. QED
  BY <1>2, <1>4

\* Every step keeps the invariant.
LEMMA NextInv == Inv /\ [Next]_vars => Inv'
<1> SUFFICES ASSUME Inv, [Next]_vars PROVE Inv'
  OBVIOUS
<1>1. CASE UNCHANGED vars
  BY <1>1 DEF vars, Inv, TypeOK, PoolOK, RestOK, ClosureOwned
<1>2. ASSUME NEW c \in Connections, UNCHANGED checkSign,
             Accept(c) \/ ServerStep(c) \/ ClientStep(c)
      PROVE  Inv'
  BY <1>2, AcceptInv, FirstCallInv, AddGetParamInv, UploadInv, CreatePostProcessorInv,
     StageInv, RespondInv, CompletedInv DEF ServerStep, ClientStep
<1>3. QED
  BY <1>1, <1>2 DEF Next

LEMMA Invariance == Spec => []Inv
BY InitInv, NextInv, PTL DEF Spec

\* The state has its type in every behaviour.
THEOREM ServerTypeCorrect == Spec => []TypeOK
<1>1. Inv => TypeOK
  BY DEF Inv
<1>2. QED
  BY <1>1, Invariance, PTL

\* However many connections are served at once, and however their requests end,
\* each closure belongs to one of them and is destroyed exactly once.
THEOREM ClosuresOwned == Spec => []ClosureOwned
<1>1. Inv => ClosureOwned
  BY DEF Inv
<1>2. QED
  BY <1>1, Invariance, PTL

-----------------------------------------------------------------------------
(* What a handler holds is what its own request brought it                 *)

\* A part of a value that the request carries under that name.
FromRequest(r, key, value) == \E v \in Given(r, key) : v # Null /\ value \in Parts(v)

\* A connection's handler, what it has still to be given, and what it answered,
\* seen from the connection's request.
OwnRequest(c) ==
  /\ stage[c] \in Serving =>
       /\ Handler(c).kind = handlerCreator(request[c].uri)
       /\ \A k \in DOMAIN Handler(c).params :
            FromRequest(request[c], k, Handler(c).params[k])
  /\ stage[c] = "args" =>
       \A i \in 1 .. Len(rest[c]) : rest[c][i] \in Range(request[c].args)
  /\ stage[c] = "upload" =>
       \A i \in 1 .. Len(rest[c]) :
         /\ FromRequest(request[c], rest[c][i][1], rest[c][i][2])
         /\ rest[c][i][1] \in {p[1] : p \in Range(request[c].body)}

OwnInv ==
  /\ Inv
  /\ \A c \in Connections : OwnRequest(c)

\* A value is a part of itself.
LEMMA WholeIsPart ==
  ASSUME NEW v \in Value
  PROVE  v \in Parts(v)
<1>1. SubSeq(v, 1, Len(v)) = v
  BY SubSeqFull DEF Value
<1>2. 1 \in 1 .. Len(v) + 1 /\ Len(v) \in 0 .. Len(v)
  BY DEF Value
<1>3. QED
  BY <1>1, <1>2 DEF Parts

LEMMA SubSeqIsPart ==
  ASSUME NEW v \in Value, NEW i \in 1 .. Len(v) + 1, NEW j \in 0 .. Len(v)
  PROVE  SubSeq(v, i, j) \in Parts(v)
<1> SUFFICES \E a \in 1 .. Len(v) + 1, b \in 0 .. Len(v) : SubSeq(v, i, j) = SubSeq(v, a, b)
  BY DEF Parts
<1>1. QED
  OBVIOUS

\* A part of a part is a part.
LEMMA PartOfPart ==
  ASSUME NEW v \in Value, NEW u \in Parts(v),
         NEW i \in 1 .. Len(u) + 1, NEW j \in 0 .. Len(u)
  PROVE  SubSeq(u, i, j) \in Parts(v)
<1>1. PICK a \in 1 .. Len(v) + 1, b \in 0 .. Len(v) : u = SubSeq(v, a, b)
  BY DEF Parts
<1>2. Len(v) \in Nat /\ \A k \in a .. b : v[k] \in Text
  BY <1>1 DEF Value
<1>3. u \in Seq(Text) /\ Len(u) = IF a <= b THEN b - a + 1 ELSE 0
  BY <1>1, <1>2, SubSeqProperties
<1>4. CASE j < i
  <2>1. SubSeq(u, i, j) = <<>> /\ SubSeq(v, 1, 0) = <<>>
    BY <1>3, <1>4, SubSeqEmpty
  <2>2. 1 \in 1 .. Len(v) + 1 /\ 0 \in 0 .. Len(v)
    BY <1>2
  <2>3. SubSeq(v, 1, 0) \in Parts(v)
    BY <2>2, SubSeqIsPart
  <2>4. QED
    BY <2>1, <2>3
<1>5. CASE i <= j
  <2>1. /\ a \in 1 .. Len(v) /\ b \in 1 .. Len(v)
        /\ i \in 1 .. b - a + 1 /\ j \in 1 .. b - a + 1
    BY <1>1, <1>2, <1>3, <1>5
  <2>2. SubSeq(u, i, j) = SubSeq(v, a + i - 1, a + j - 1)
    BY <1>1, <2>1, SubSeqOfSubSeq DEF Value
  <2>3. a + i - 1 \in 1 .. Len(v) + 1 /\ a + j - 1 \in 0 .. Len(v)
    BY <1>2, <2>1
  <2>4. SubSeq(v, a + i - 1, a + j - 1) \in Parts(v)
    BY <2>3, SubSeqIsPart
  <2>5. QED
    BY <2>2, <2>4
<1>6. QED
  BY <1>3, <1>4, <1>5

\* The values a request carries, of the URI or of the body.
LEMMA GivenValue ==
  ASSUME NEW r \in Requests, NEW key, NEW v \in Given(r, key), v # Null
  PROVE  v \in Value
<1>1. PICK q \in Range(r.args) \cup Range(r.body) : v = q[2]
  BY DEF Given
<1>2. \A p \in Range(r.args) : p[2] \in Value \cup {Null}
  BY RequestFields DEF Range, UriParams
<1>3. \A p \in Range(r.body) : p[2] \in Value
  BY RequestFields DEF Range, BodyParams
<1>4. QED
  BY <1>1, <1>2, <1>3

LEMMA GivenInArgs ==
  ASSUME NEW r \in Requests, NEW p \in Range(r.args), p[2] \in Value
  PROVE  FromRequest(r, p[1], p[2])
<1>1. p[2] \in Given(r, p[1])
  BY DEF Given
<1>2. QED
  BY <1>1, WholeIsPart, NullAssumption DEF FromRequest

LEMMA GivenInBody ==
  ASSUME NEW r \in Requests, NEW i \in 1 .. Len(r.body)
  PROVE  FromRequest(r, r.body[i][1], r.body[i][2])
<1> DEFINE p == r.body[i]
<1>1. p \in Range(r.body) /\ p[2] \in Value
  BY RequestFields DEF Range, BodyParams
<1> HIDE DEF p
<1>2. p[2] \in Given(r, p[1])
  BY <1>1 DEF Given
<1>3. QED
  BY <1>1, <1>2, WholeIsPart, NullAssumption DEF FromRequest, p

\* A part of what a request carries is carried too.
LEMMA PartFromRequest ==
  ASSUME NEW r \in Requests, NEW key, NEW u, FromRequest(r, key, u),
         NEW i \in 1 .. Len(u) + 1, NEW j \in 0 .. Len(u)
  PROVE  FromRequest(r, key, SubSeq(u, i, j))
BY GivenValue, PartOfPart DEF FromRequest

-----------------------------------------------------------------------------
(* A step of one connection does not touch what the others have            *)

Others(c) ==
  \A d \in Connections \ {c} :
    /\ stage'[d] = stage[d] /\ request'[d] = request[d]
    /\ rest'[d] = rest[d] /\ reply'[d] = reply[d]
    /\ stage[d] \in Serving => Handler(d)' = Handler(d)

\* Nor does a step of c that changes at most its own cell.
LEMMA HandlersKept ==
  ASSUME Inv, NEW c \in Connections, NEW m \in Cells,
         m = conClosure[c] \/ pool[m] = NoHandler,
         \E h : pool' = [pool EXCEPT ![m] = h],
         \A d \in Connections \ {c} : conClosure'[d] = conClosure[d]
  PROVE  \A d \in Connections \ {c} : stage[d] \in Serving => Handler(d)' = Handler(d)
<1>1. \A n \in Cells : n # m => pool'[n] = pool[n]
  BY DEF Inv, TypeOK
<1>2. \A d \in Connections \ {c} : stage[d] \in Serving =>
        conClosure[d] \in Cells /\ conClosure[d] # m
  <2> SUFFICES ASSUME NEW d \in Connections \ {c}, stage[d] \in Serving
               PROVE  conClosure[d] \in Cells /\ conClosure[d] # m
    OBVIOUS
  <2>1. conClosure[d] # Null /\ conClosure[d] \in Cells
    BY ServedHasHandler, NullAssumption
  <2>2. pool[conClosure[d]] # NoHandler
    BY <2>1 DEF Inv, ClosureOwned
  <2>3. conClosure[d] # conClosure[c]
    BY <2>1 DEF Inv, ClosureOwned
  <2>4. QED
    BY <2>1, <2>2, <2>3
<1>3. QED
  BY <1>1, <1>2 DEF Handler

LEMMA OthersKept ==
  ASSUME Inv, NEW c \in Connections, Accept(c) \/ ServerStep(c) \/ ClientStep(c)
  PROVE  Others(c)
<1> USE DEF Inv
<1>1. \A d \in Connections \ {c} :
        /\ stage'[d] = stage[d] /\ request'[d] = request[d]
        /\ rest'[d] = rest[d] /\ reply'[d] = reply[d]
        /\ conClosure'[d] = conClosure[d]
  BY DEF TypeOK, PoolOK, RestOK, Accept, ServerStep, ClientStep, FirstCall, AddGetParam, CreatePostProcessor,
         Upload, UploadRefused, Process, Respond, Abort, Completed, Goto
<1>2. CASE UNCHANGED pool
  <2>1. \A d \in Connections \ {c} : Handler(d)' = Handler(d)
    BY <1>1, <1>2 DEF Handler
  <2>2. QED
    BY <1>1, <2>1 DEF Others
<1>3. CASE FirstCall(c)
  <2>1. PICK m \in Free : pool' = [pool EXCEPT ![m] = route(request[c].method, request[c].uri)]
    BY <1>3 DEF FirstCall
  <2>2. m \in Cells /\ pool[m] = NoHandler /\ \E h : pool' = [pool EXCEPT ![m] = h]
    BY <2>1 DEF Free
  <2>3. QED
    BY <1>1, <2>2, HandlersKept DEF Others
<1>4. CASE conClosure[c] # Null /\ \E h : pool' = [pool EXCEPT ![conClosure[c]] = h]
  <2>1. conClosure[c] \in Cells
    BY <1>4 DEF TypeOK
  <2>2. QED
    BY <1>1, <1>4, <2>1, HandlersKept DEF Others
<1>5. CASE AddGetParam(c) \/ Upload(c) \/ CreatePostProcessor(c)
  <2>1. conClosure[c] # Null
    BY <1>5 DEF AddGetParam, Upload, CreatePostProcessor, ClosureOwned, Serving
  <2>2. UNCHANGED pool \/ \E h : pool' = [pool EXCEPT ![conClosure[c]] = h]
    BY <1>5 DEF AddGetParam, Upload, CreatePostProcessor
  <2>3. QED
    BY <1>2, <1>4, <2>1, <2>2
<1>6. CASE Respond(c) \/ Completed(c)
  <2>1. Respond(c) => conClosure[c] # Null
    BY DEF Respond, ClosureOwned, Serving
  <2>2. \/ UNCHANGED pool
        \/ conClosure[c] # Null /\ \E h : pool' = [pool EXCEPT ![conClosure[c]] = h]
    BY <1>6, <2>1 DEF Respond, Completed, Destroy
  <2>3. QED
    BY <1>2, <1>4, <2>2
<1>7. CASE Accept(c) \/ UploadRefused(c) \/ Abort(c) \/ Process(c)
  BY <1>2, <1>7 DEF Accept, UploadRefused, Abort, Process
<1>8. QED
  BY <1>3, <1>5, <1>6, <1>7 DEF ServerStep, ClientStep

\* So it is enough to see to the connection that moved.
LEMMA OwnEnough ==
  ASSUME OwnInv, NEW c \in Connections, Accept(c) \/ ServerStep(c) \/ ClientStep(c),
         OwnRequest(c)'
  PROVE  \A d \in Connections : OwnRequest(d)'
<1>1. SUFFICES ASSUME NEW d \in Connections \ {c} PROVE OwnRequest(d)'
  BY <1>1
<1>2. OwnRequest(d) /\ Others(c)
  BY OthersKept DEF OwnInv
<1>3. /\ stage'[d] = stage[d] /\ request'[d] = request[d]
      /\ rest'[d] = rest[d] /\ reply'[d] = reply[d]
      /\ stage[d] \in Serving => Handler(d)' = Handler(d)
  BY <1>2 DEF Others
<1>4. QED
  BY <1>2, <1>3 DEF OwnRequest

-----------------------------------------------------------------------------
(* The steps of a connection keep what it has to its own request           *)

LEMMA AcceptOwn ==
  ASSUME OwnInv, NEW c \in Connections, Accept(c)
  PROVE  OwnRequest(c)'
<1>1. stage'[c] = "started"
  BY DEF OwnInv, Inv, TypeOK, Accept, Goto
<1>2. QED
  BY <1>1 DEF OwnRequest, Serving

LEMMA FirstCallOwn ==
  ASSUME OwnInv, NEW c \in Connections, FirstCall(c)
  PROVE  OwnRequest(c)'
<1> USE DEF OwnInv, Inv
<1>1. request'[c] = request[c] /\ request[c] \in Requests
  BY DEF TypeOK, FirstCall
<1> DEFINE h == route(request[c].method, request[c].uri)
<1>2. h.kind = handlerCreator(request[c].uri) /\ DOMAIN h.params = {}
  BY RouteIsHandler DEF route
<1>3. Handler(c)' = h
  BY DEF TypeOK, PoolOK, RestOK, FirstCall, Handler, Free
<1>4. stage'[c] = "args" /\ rest'[c] = request[c].args
  BY DEF TypeOK, PoolOK, RestOK, FirstCall, Goto
<1>5. rest'[c] \in Seq(UriParams)
  BY <1>1, <1>4, RequestFields
<1>6. \A i \in 1 .. Len(rest'[c]) : rest'[c][i] \in Range(request'[c].args)
  BY <1>1, <1>4, <1>5 DEF Range
<1> HIDE DEF h
<1>7. QED
  BY <1>1, <1>2, <1>3, <1>4, <1>6 DEF OwnRequest, Serving

\* A handler that is given a part of what its request carries still holds
\* nothing else.
LEMMA ParamOwn ==
  ASSUME OwnInv, NEW c \in Connections, stage[c] \in Serving,
         UNCHANGED <<request, conClosure>>,
         NEW key \in STRING, NEW value \in Value, FromRequest(request[c], key, value),
         pool' = [pool EXCEPT ![conClosure[c]] = addParam(@, key, value)]
  PROVE  /\ Handler(c)'.kind = handlerCreator(request'[c].uri)
         /\ \A k \in DOMAIN Handler(c)'.params :
              FromRequest(request'[c], k, Handler(c)'.params[k])
<1> DEFINE h == addParam(Handler(c), key, value)
<1>1. conClosure[c] \in Cells /\ IsHandler(Handler(c))
  BY ServedHasHandler DEF OwnInv
<1>2. Handler(c)' = h
  BY <1>1 DEF OwnInv, Inv, TypeOK, PoolOK, RestOK, Handler
<1>3. /\ h.kind = Handler(c).kind
      /\ \A k \in DOMAIN h.params :
           \/ k \in DOMAIN Handler(c).params /\ h.params[k] = Handler(c).params[k]
           \/ k = key /\ h.params[k] = value
  BY <1>1, AddParamIsHandler
<1> HIDE DEF h
<1>4. /\ Handler(c).kind = handlerCreator(request[c].uri)
      /\ \A k \in DOMAIN Handler(c).params :
           FromRequest(request[c], k, Handler(c).params[k])
  BY DEF OwnInv, OwnRequest
<1>5. QED
  BY <1>2, <1>3, <1>4

LEMMA AddGetParamOwn ==
  ASSUME OwnInv, NEW c \in Connections, AddGetParam(c)
  PROVE  /\ OwnRequest(c)'
         /\ died' # died => died' = c /\ \E p \in Range(request[c].args) : p[2] = Null
<1> DEFINE first == Head(rest[c])
<1>1. /\ rest[c] \in Seq(UriParams) /\ rest[c] # <<>>
      /\ stage[c] = "args" /\ request[c] \in Requests
  <2>1. stage[c] = "args" /\ rest[c] # <<>>
    BY DEF AddGetParam
  <2>2. request[c] \in Requests
    BY <2>1 DEF OwnInv, Inv, TypeOK
  <2>3. QED
    BY <2>1, <2>2, ArgsTyped DEF OwnInv
<1>2. \A i \in 1 .. Len(rest[c]) : rest[c][i] \in Range(request[c].args)
  BY <1>1 DEF OwnInv, OwnRequest
<1>3. first \in Range(request[c].args) /\ first[1] \in STRING /\ first[2] \in Value \cup {Null}
  BY <1>1, <1>2 DEF UriParams
<1>4. UNCHANGED <<stage, request, conClosure, reply, call>>
  BY DEF AddGetParam
<1>5. CASE first[2] = Null
  <2>1. died' = c /\ UNCHANGED <<rest, pool>>
    BY <1>5 DEF AddGetParam
  <2>2. OwnRequest(c)'
    BY <1>4, <2>1 DEF OwnInv, OwnRequest, Handler
  <2>3. QED
    BY <1>3, <1>5, <2>1, <2>2
<1>6. CASE first[2] # Null
  <2>1. /\ pool' = [pool EXCEPT ![conClosure[c]] = addParam(@, first[1], first[2])]
        /\ rest' = [rest EXCEPT ![c] = Tail(@)] /\ died' = died
    BY <1>6 DEF AddGetParam
  <2>2. FromRequest(request[c], first[1], first[2]) /\ first[2] \in Value
    BY <1>1, <1>3, <1>6, GivenInArgs
  <2>3. \A i \in 1 .. Len(Tail(rest[c])) : Tail(rest[c])[i] \in Range(request[c].args)
    BY <1>1, <1>2
  <2>4. rest'[c] = Tail(rest[c])
    BY <2>1 DEF OwnInv, Inv, TypeOK, PoolOK, RestOK
  <2> HIDE DEF first
  <2>5. /\ Handler(c)'.kind = handlerCreator(request'[c].uri)
        /\ \A k \in DOMAIN Handler(c)'.params :
             FromRequest(request'[c], k, Handler(c)'.params[k])
    BY <1>1, <1>3, <1>4, <2>1, <2>2, ParamOwn DEF Serving
  <2>6. OwnRequest(c)'
    BY <1>1, <1>4, <2>3, <2>4, <2>5 DEF OwnRequest
  <2>7. QED
    BY <2>1, <2>6
<1>7. QED
  BY <1>5, <1>6

\* What is left of the data comes from the request as the data did.
LEMMA LeftFromRequest ==
  ASSUME NEW r \in Requests, NEW data \in Seq(BodyParams), data # <<>>,
         NEW n \in 0 .. Len(Head(data)[2]),
         \A i \in 1 .. Len(data) : FromRequest(r, data[i][1], data[i][2])
  PROVE  \A i \in 1 .. Len(Left(data, n)) :
           FromRequest(r, Left(data, n)[i][1], Left(data, n)[i][2])
<1> DEFINE key == data[1][1]
           value == data[1][2]
           piece == SubSeq(value, n + 1, Len(value))
<1>1. Head(data) = data[1] /\ 1 \in 1 .. Len(data) /\ data[1] \in BodyParams
  OBVIOUS
<1>2. value \in Value /\ FromRequest(r, key, value)
  BY <1>1 DEF BodyParams
<1>3. Tail(data) \in Seq(BodyParams) /\ Len(Tail(data)) = Len(data) - 1
      /\ \A i \in 1 .. Len(Tail(data)) : Tail(data)[i] = data[i + 1]
  OBVIOUS
<1>4. \A i \in 1 .. Len(Tail(data)) : FromRequest(r, Tail(data)[i][1], Tail(data)[i][2])
  BY <1>3
<1>5. CASE n = Len(value)
  BY <1>1, <1>4, <1>5 DEF Left
<1>6. CASE n # Len(value)
  <2>1. n + 1 \in 1 .. Len(value) + 1 /\ Len(value) \in 0 .. Len(value)
    BY <1>1, <1>2, <1>6 DEF Value
  <2>2. FromRequest(r, key, piece)
    BY <1>2, <2>1, PartFromRequest
  <2>3. Left(data, n) = << <<key, piece>> >> \o Tail(data)
    BY <1>1, <1>6 DEF Left
  <2> HIDE DEF key, piece
  <2>4. \A i \in 1 .. Len(Left(data, n)) :
          Left(data, n)[i] = IF i = 1 THEN <<key, piece>> ELSE Tail(data)[i - 1]
    BY <1>3, <2>3
  <2>5. Len(Left(data, n)) = Len(Tail(data)) + 1
    BY <1>3, <2>3
  <2>6. ASSUME NEW i \in 1 .. Len(Left(data, n))
        PROVE  FromRequest(r, Left(data, n)[i][1], Left(data, n)[i][2])
    <3>1. CASE i = 1
      BY <2>2, <2>4, <3>1
    <3>2. CASE i # 1
      <4>1. i - 1 \in 1 .. Len(Tail(data)) /\ Left(data, n)[i] = Tail(data)[i - 1]
        BY <1>3, <2>4, <2>5, <3>2
      <4>2. QED
        BY <1>4, <4>1
    <3>3. QED
      BY <3>1, <3>2
  <2>7. QED
    BY <2>6
<1>7. QED
  BY <1>5, <1>6

\* The names that are left were there before.
LEMMA LeftNames ==
  ASSUME NEW data \in Seq(BodyParams), data # <<>>, NEW n \in 0 .. Len(Head(data)[2])
  PROVE  \A i \in 1 .. Len(Left(data, n)) :
           \E j \in 1 .. Len(data) : Left(data, n)[i][1] = data[j][1]
<1> DEFINE key == Head(data)[1]
           piece == SubSeq(Head(data)[2], n + 1, Len(Head(data)[2]))
<1>1. /\ Head(data) = data[1] /\ 1 \in 1 .. Len(data)
      /\ Tail(data) \in Seq(BodyParams) /\ Len(Tail(data)) = Len(data) - 1
      /\ \A i \in 1 .. Len(Tail(data)) : i + 1 \in 1 .. Len(data) /\ Tail(data)[i] = data[i + 1]
  OBVIOUS
<1>2. CASE Left(data, n) = Tail(data)
  BY <1>1, <1>2
<1>3. CASE Left(data, n) = << <<key, piece>> >> \o Tail(data)
  <2> HIDE DEF piece
  <2>1. /\ Len(Left(data, n)) = Len(Tail(data)) + 1
        /\ \A i \in 1 .. Len(Left(data, n)) :
             Left(data, n)[i] = IF i = 1 THEN <<key, piece>> ELSE Tail(data)[i - 1]
    BY <1>1, <1>3
  <2>2. \A i \in 2 .. Len(Left(data, n)) : i - 1 \in 1 .. Len(Tail(data)) /\ (i - 1) + 1 = i
    BY <1>1, <2>1
  <2>3. ASSUME NEW i \in 1 .. Len(Left(data, n))
        PROVE  \E j \in 1 .. Len(data) : Left(data, n)[i][1] = data[j][1]
    <3>1. CASE i = 1
      BY <1>1, <2>1, <3>1
    <3>2. CASE i # 1
      <4>1. i \in 2 .. Len(Left(data, n))
        BY <1>1, <2>1, <3>2
      <4>2. Left(data, n)[i] = data[i] /\ i \in 1 .. Len(data)
        BY <1>1, <2>1, <2>2, <3>2, <4>1
      <4>3. QED
        BY <4>2
    <3>3. QED
      BY <3>1, <3>2
  <2>4. QED
    BY <2>3
<1>4. QED
  BY <1>2, <1>3 DEF Left

LEMMA UploadOwn ==
  ASSUME OwnInv, NEW c \in Connections, Upload(c)
  PROVE  /\ OwnRequest(c)'
         /\ died' # died => died' = c /\ \E p \in Range(request[c].body) : p[1] = Null
<1> DEFINE key == Head(rest[c])[1]
           value == Head(rest[c])[2]
           names == {p[1] : p \in Range(request[c].body)}
<1>1. /\ rest[c] \in Seq(BodyParams) /\ rest[c] # <<>> /\ stage[c] = "upload"
      /\ request[c] \in Requests /\ UNCHANGED <<stage, request, conClosure>>
  BY DEF OwnInv, Inv, TypeOK, RestOK, Upload
<1>2. key \in Name /\ value \in Value
  BY <1>1 DEF BodyParams
<1>3. \A i \in 1 .. Len(rest[c]) :
        FromRequest(request[c], rest[c][i][1], rest[c][i][2]) /\ rest[c][i][1] \in names
  BY <1>1 DEF OwnInv, OwnRequest
<1>4. FromRequest(request[c], key, value) /\ key \in names
  BY <1>1, <1>3
<1>5. CASE key = Null
  <2>1. died' = c /\ UNCHANGED <<rest, pool>>
    BY <1>5 DEF Upload
  <2>2. OwnRequest(c)'
    BY <1>1, <2>1 DEF OwnInv, OwnRequest, Handler
  <2>3. QED
    BY <1>4, <1>5, <2>1, <2>2
<1>6. CASE key # Null
  <2>1. PICK n \in 0 .. Len(value) :
          /\ pool' = [pool EXCEPT ![conClosure[c]] = addParam(@, key, SubSeq(value, 1, n))]
          /\ rest' = [rest EXCEPT ![c] = Left(rest[c], n)]
    BY <1>6 DEF Upload, Left
  <2>2. /\ 1 \in 1 .. Len(value) + 1 /\ key \in STRING
        /\ died' = died
    <3>1. died' = died
      BY <1>6 DEF Upload
    <3>2. key \in STRING
      BY ONLY <1>2, <1>6 DEF Name
    <3>3. 1 \in 1 .. Len(value) + 1
      <4> HIDE DEF value
      <4>1. value \in Seq(Text)
        BY <1>2 DEF Value
      <4>2. QED
        BY ONLY <4>1
    <3>4. QED
      BY <3>1, <3>2, <3>3
  <2>3. \A i \in 1 .. Len(Left(rest[c], n)) :
          FromRequest(request[c], Left(rest[c], n)[i][1], Left(rest[c], n)[i][2])
    BY <1>1, <1>3, <2>1, LeftFromRequest
  <2>4. \A i \in 1 .. Len(Left(rest[c], n)) : Left(rest[c], n)[i][1] \in names
    BY <1>1, <1>3, <2>1, LeftNames
  <2> HIDE DEF key, value
  <2>5. SubSeq(value, 1, n) \in Value /\ FromRequest(request[c], key, SubSeq(value, 1, n))
    BY <1>1, <1>2, <1>4, <2>1, <2>2, PieceIsValue, PartFromRequest
  <2>6. /\ Handler(c)'.kind = handlerCreator(request'[c].uri)
        /\ \A k \in DOMAIN Handler(c)'.params :
             FromRequest(request'[c], k, Handler(c)'.params[k])
    BY <1>1, <2>1, <2>2, <2>5, ParamOwn DEF Serving
  <2>7. rest'[c] = Left(rest[c], n)
    BY <2>1 DEF OwnInv, Inv, TypeOK, PoolOK, RestOK
  <2>8. OwnRequest(c)'
    BY <1>1, <2>3, <2>4, <2>6, <2>7 DEF OwnRequest
  <2>9. QED
    BY <2>2, <2>8
<1>7. QED
  BY <1>5, <1>6

LEMMA CreatePostProcessorOwn ==
  ASSUME OwnInv, NEW c \in Connections, CreatePostProcessor(c)
  PROVE  OwnRequest(c)'
<1>1. /\ stage[c] = "args" /\ stage[c] \in Serving /\ request[c] \in Requests
      /\ UNCHANGED <<request, conClosure, reply>>
  BY DEF OwnInv, Inv, TypeOK, CreatePostProcessor, Serving
<1>2. conClosure[c] \in Cells /\ IsHandler(Handler(c))
  BY <1>1, ServedHasHandler DEF OwnInv
<1>3. /\ Handler(c).kind = handlerCreator(request[c].uri)
      /\ \A k \in DOMAIN Handler(c).params :
           FromRequest(request[c], k, Handler(c).params[k])
  BY <1>1 DEF OwnInv, OwnRequest
<1>4. CASE isPost(Handler(c)) /\ ~ request[c].form
  <2>1. stage' = [stage EXCEPT ![c] = "aborted"] /\ UNCHANGED pool
    BY <1>4 DEF CreatePostProcessor, Goto
  <2>2. stage'[c] = "aborted" /\ Handler(c)' = Handler(c)
    BY <1>1, <2>1 DEF OwnInv, Inv, TypeOK, Handler
  <2>3. QED
    BY <1>1, <1>3, <2>2 DEF OwnRequest
<1>5. CASE ~ (isPost(Handler(c)) /\ ~ request[c].form)
  <2> DEFINE h == [Handler(c) EXCEPT !.post = isPost(Handler(c))]
  <2>1. /\ stage' = [stage EXCEPT ![c] = "upload"]
        /\ pool' = [pool EXCEPT ![conClosure[c]] = h]
        /\ rest' = [rest EXCEPT ![c] = request[c].body]
    BY <1>5 DEF CreatePostProcessor, Goto, Handler
  <2>2. h.kind = Handler(c).kind /\ h.params = Handler(c).params
    BY <1>2, PostIsHandler DEF isPost
  <2> HIDE DEF h
  <2>3. stage'[c] = "upload" /\ rest'[c] = request[c].body /\ Handler(c)' = h
    BY <1>1, <1>2, <2>1 DEF OwnInv, Inv, TypeOK, PoolOK, RestOK, Handler
  <2>4. \A i \in 1 .. Len(rest'[c]) :
          /\ FromRequest(request'[c], rest'[c][i][1], rest'[c][i][2])
          /\ rest'[c][i][1] \in {p[1] : p \in Range(request'[c].body)}
    BY <1>1, <2>3, GivenInBody, RequestFields DEF Range
  <2>5. QED
    BY <1>1, <1>3, <2>2, <2>3, <2>4 DEF OwnRequest
<1>6. QED
  BY <1>4, <1>5

LEMMA CutShortOwn ==
  ASSUME OwnInv, NEW c \in Connections, UploadRefused(c) \/ Abort(c)
  PROVE  OwnRequest(c)'
<1>1. /\ stage[c] = "upload" /\ stage' = [stage EXCEPT ![c] = "aborted"]
      /\ UNCHANGED <<request, conClosure, pool>>
  BY DEF UploadRefused, Abort, Goto
<1>2. stage'[c] = "aborted" /\ Handler(c)' = Handler(c)
  BY <1>1 DEF OwnInv, Inv, TypeOK, Handler
<1>3. QED
  BY <1>1, <1>2 DEF OwnInv, OwnRequest, Serving

LEMMA EndOwn ==
  ASSUME OwnInv, NEW c \in Connections, Process(c) \/ Respond(c)
  PROVE  OwnRequest(c)'
<1>1. CASE Process(c)
  <2>1. /\ stage[c] = "upload" /\ stage' = [stage EXCEPT ![c] = "processed"]
        /\ UNCHANGED <<request, conClosure, pool>>
    BY <1>1 DEF Process, Goto
  <2>2. stage'[c] = "processed" /\ Handler(c)' = Handler(c)
    BY <2>1 DEF OwnInv, Inv, TypeOK, Handler
  <2>3. QED
    BY <2>1, <2>2 DEF OwnInv, OwnRequest, Serving
<1>2. CASE Respond(c)
  <2>1. stage'[c] = "queued"
    BY <1>2 DEF OwnInv, Inv, TypeOK, Respond, Goto
  <2>2. QED
    BY <2>1 DEF OwnRequest, Serving
<1>3. QED
  BY <1>1, <1>2

LEMMA CompletedOwn ==
  ASSUME OwnInv, NEW c \in Connections, Completed(c)
  PROVE  OwnRequest(c)'
<1>1. stage'[c] = "idle"
  BY DEF OwnInv, Inv, TypeOK, Completed, Goto
<1>2. QED
  BY <1>1 DEF OwnRequest, Serving

LEMMA OwnInvariance == Spec => []OwnInv
<1>1. Init => OwnInv
  <2> SUFFICES ASSUME Init PROVE OwnInv
    OBVIOUS
  <2>1. \A c \in Connections : stage[c] = "idle"
    BY DEF Init
  <2>2. QED
    BY <2>1, InitInv DEF OwnInv, OwnRequest, Serving
<1>2. OwnInv /\ [Next]_vars => OwnInv'
  <2> SUFFICES ASSUME OwnInv, [Next]_vars PROVE OwnInv'
    OBVIOUS
  <2>1. Inv'
    BY NextInv DEF OwnInv
  <2>2. CASE UNCHANGED vars
    <3>1. \A c \in Connections : OwnRequest(c)'
      BY <2>2 DEF vars, OwnInv, OwnRequest, Handler
    <3>2. QED
      BY <2>1, <3>1 DEF OwnInv
  <2>3. ASSUME NEW c \in Connections, Accept(c) \/ ServerStep(c) \/ ClientStep(c)
        PROVE  OwnInv'
    <3>1. OwnRequest(c)'
      BY <2>3, AcceptOwn, FirstCallOwn, AddGetParamOwn, UploadOwn, CreatePostProcessorOwn,
         CutShortOwn, EndOwn, CompletedOwn DEF ServerStep, ClientStep
    <3>2. QED
      BY <2>1, <2>3, <3>1, OwnEnough DEF OwnInv
  <2>4. QED
    BY <2>2, <2>3 DEF Next
<1>3. QED
  BY <1>1, <1>2, PTL DEF Spec

\* Requests served at once, or one after the other in the same cell, do not mix:
\* a handler holds only parts of what its own request carries.
THEOREM RequestsDoNotMix == Spec => []NoMixing
<1>1. OwnInv => NoMixing
  BY DEF OwnInv, Inv, ClosureOwned, OwnRequest, FromRequest, NoMixing
<1>2. QED
  BY <1>1, OwnInvariance, PTL

-----------------------------------------------------------------------------
(* What is asked of the index and the sessions is what the client meant    *)

Once(data) == \A i, j \in 1 .. Len(data) : data[i][1] = data[j][1] => i = j

Has(data, key) == \E i \in 1 .. Len(data) : data[i][1] = key

\* What the handler of a connection has not been given yet.
ToCome(c) == IF stage[c] = "args" THEN rest[c] \o request[c].body ELSE rest[c]

\* What a handler h has of a request r, with data still to come.  A token's
\* filters are what params have under that name, unless the value came in pieces:
\* then params have no more than the first, which is shorter.
HandlerMeans(h, r, data) ==
  /\ h.kind \in Manages => /\ h.uri = r.uri /\ h.method = r.method
                           /\ "sign" \notin DOMAIN h.params
  /\ h.sign = <<>> \/ FromRequest(r, "sign", h.sign)
  /\ NamesOnce(r) => Once(data)
  /\ h.kind = "token" =>
       /\ h.filters # Null <=> "filters" \in DOMAIN h.params
       /\ h.filters # Null => h.filters \in Objects
       /\ NamesOnce(r) /\ "filters" \in DOMAIN h.params =>
            \/ \A v \in Given(r, "filters") \ {Null} : Len(h.params["filters"]) < Len(v)
            \/ h.params["filters"] = h.filters /\ ~ Has(data, "filters")

CallMeant(r, asked) ==
  /\ asked.op = "attach" => asked = AttachCall(Meant(r))
  /\ asked.op = "ensure" => asked = TokenCall(Meant(r))

MeansRequest(c) ==
  /\ stage[c] \in {"args", "upload"} => HandlerMeans(Handler(c), request[c], ToCome(c))
  /\ stage[c] = "idle" => call[c] = NoCall
  /\ checkSign => CallMeant(request[c], call[c])

MeantInv ==
  /\ OwnInv
  /\ call = [c \in Connections |-> call[c]]
  /\ \A c \in Connections : MeansRequest(c)

\* Taking data, whole or in part, leaves names that occur once.
LEMMA LeftOnce ==
  ASSUME NEW data \in Seq(AnyParams), data # <<>>, Head(data)[2] \in Value,
         NEW n \in 0 .. Len(Head(data)[2])
  PROVE  /\ Once(data) => Once(Left(data, n))
         /\ Once(data) /\ n = Len(Head(data)[2]) => ~ Has(Left(data, n), Head(data)[1])
         /\ \A key : Has(Left(data, n), key) => Has(data, key)
<1> DEFINE key == Head(data)[1]
           value == Head(data)[2]
           piece == SubSeq(value, n + 1, Len(value))
           tail == Tail(data)
<1>1. /\ Len(data) \in Nat \ {0} /\ Head(data) = data[1] /\ tail \in Seq(AnyParams)
      /\ Len(tail) = Len(data) - 1 /\ \A i \in 1 .. Len(tail) : tail[i] = data[i + 1]
      /\ 1 \in 1 .. Len(data) /\ \A i \in 1 .. Len(tail) : i + 1 \in 1 .. Len(data)
  BY HeadTailProperties, EmptySeq
<1>2. CASE n = Len(value)
  <2>1. Left(data, n) = tail
    BY <1>2 DEF Left
  <2> HIDE DEF tail
  <2>2. Once(data) => Once(tail)
    <3> SUFFICES ASSUME Once(data), NEW i \in 1 .. Len(tail), NEW j \in 1 .. Len(tail),
                        tail[i][1] = tail[j][1]
                 PROVE  i = j
      BY DEF Once
    <3>1. /\ i + 1 \in 1 .. Len(data) /\ j + 1 \in 1 .. Len(data)
          /\ data[i + 1][1] = data[j + 1][1]
      BY <1>1
    <3>2. i + 1 = j + 1
      BY ONLY <3>1, Once(data) DEF Once
    <3>3. QED
      BY <1>1, <3>2
  <2>3. Once(data) => ~ Has(tail, key)
    <3> SUFFICES ASSUME Once(data), NEW i \in 1 .. Len(tail), tail[i][1] = data[1][1]
                 PROVE  FALSE
      BY <1>1 DEF Has
    <3>1. i + 1 = 1
      BY <1>1 DEF Once
    <3>2. QED
      BY <1>1, <3>1
  <2>4. \A k : Has(tail, k) => Has(data, k)
    BY <1>1 DEF Has
  <2>5. QED
    BY <2>1, <2>2, <2>3, <2>4
<1>3. CASE n # Len(value)
  <2> DEFINE new == << <<key, piece>> >> \o tail
  <2>1. Left(data, n) = new
    BY <1>3 DEF Left
  <2>2. Len(new) = Len(data) /\ \A i \in 1 .. Len(new) : new[i][1] = data[i][1]
    <3>1. piece \in Value
      <4>1. n + 1 \in 1 .. Len(value) + 1 /\ Len(value) \in 0 .. Len(value)
        BY <1>3 DEF Value
      <4>2. QED
        BY <4>1, PieceIsValue
    <3>2. Head(data) \in AnyParams
      BY <1>1
    <3>3. <<key, piece>> \in AnyParams
      BY <3>1, <3>2 DEF AnyParams
    <3> DEFINE first == <<key, piece>>
    <3>4. first \in AnyParams /\ first[1] = data[1][1]
      BY <1>1, <3>3
    <3> HIDE DEF first
    <3>5. << first >> \in Seq(AnyParams) /\ Len(<< first >>) = 1 /\ << first >>[1] = first
      BY <3>4
    <3>6. /\ Len(<< first >> \o tail) = 1 + Len(tail)
          /\ \A i \in 1 .. 1 + Len(tail) :
               (<< first >> \o tail)[i] = IF i <= 1 THEN << first >>[i] ELSE tail[i - 1]
      BY <1>1, <3>5, ConcatProperties
    <3>7. ASSUME NEW i \in 1 .. Len(data) PROVE (<< first >> \o tail)[i][1] = data[i][1]
      <4>1. CASE i = 1
        BY <1>1, <3>4, <3>5, <3>6, <4>1
      <4>2. CASE i # 1
        <5>1. i - 1 \in 1 .. Len(tail) /\ (i - 1) + 1 = i
          BY <1>1, <4>2
        <5>2. QED
          BY <1>1, <3>6, <4>2, <5>1
      <4>3. QED
        BY <4>1, <4>2
    <3>8. QED
      BY <1>1, <3>6, <3>7 DEF first
  <2> HIDE DEF new
  <2>3. QED
    BY <1>3, <2>1, <2>2 DEF Once, Has
<1>4. QED
  BY <1>2, <1>3

\* A part is no longer than the whole.
LEMMA PartIsShorter ==
  ASSUME NEW v \in Value, NEW u \in Parts(v)
  PROVE  Len(u) \in Nat /\ Len(u) <= Len(v)
<1>1. PICK a \in 1 .. Len(v) + 1, b \in 0 .. Len(v) : u = SubSeq(v, a, b)
  BY DEF Parts
<1>2. Len(v) \in Nat /\ \A k \in a .. b : v[k] \in Text
  BY <1>1 DEF Value
<1>3. Len(u) = IF a <= b THEN b - a + 1 ELSE 0
  BY <1>1, <1>2, SubSeqProperties
<1>4. QED
  BY <1>2, <1>3

\* Where names occur once, a name has one value.
LEMMA GivenOnce ==
  ASSUME NEW r \in Requests, NamesOnce(r), NEW key,
         NEW v \in Given(r, key), NEW w \in Given(r, key)
  PROVE  v = w
<1> DEFINE all == r.args \o r.body
<1>1. r.args \in Seq(AnyParams) /\ r.body \in Seq(AnyParams)
  BY RequestFields
<1>2. /\ Len(all) = Len(r.args) + Len(r.body) /\ Len(r.args) \in Nat /\ Len(r.body) \in Nat
      /\ \A i \in 1 .. Len(r.args) + Len(r.body) :
           all[i] = IF i <= Len(r.args) THEN r.args[i] ELSE r.body[i - Len(r.args)]
  BY <1>1, ConcatProperties, LenProperties
<1>3. \A q \in Range(r.args) \cup Range(r.body) : \E i \in 1 .. Len(all) : q = all[i]
  <2> SUFFICES ASSUME NEW q \in Range(r.args) \cup Range(r.body)
               PROVE  \E i \in 1 .. Len(all) : q = all[i]
    OBVIOUS
  <2> HIDE DEF all
  <2>1. CASE q \in Range(r.args)
    <3>1. PICK i \in 1 .. Len(r.args) : q = r.args[i]
      BY <1>1, <2>1 DEF Range
    <3>2. i \in 1 .. Len(r.args) + Len(r.body) /\ i <= Len(r.args)
      <4> DEFINE m == Len(r.args)
                 k == Len(r.body)
      <4>1. m \in Nat /\ k \in Nat /\ i \in 1 .. m
        BY <1>2, <3>1
      <4> HIDE DEF m, k
      <4>2. i \in 1 .. m + k /\ i <= m
        BY <4>1
      <4>3. QED
        BY <4>2 DEF m, k
    <3>3. all[i] = r.args[i]
      BY <1>2, <3>2
    <3>4. QED
      BY <1>2, <3>1, <3>2, <3>3
  <2>2. CASE q \in Range(r.body)
    <3>1. PICK i \in 1 .. Len(r.body) : q = r.body[i]
      BY <1>1, <2>2 DEF Range
    <3> DEFINE j == i + Len(r.args)
    <3>2. /\ j \in 1 .. Len(r.args) + Len(r.body) /\ ~ (j <= Len(r.args))
          /\ j - Len(r.args) = i
      <4> DEFINE m == Len(r.args)
                 k == Len(r.body)
      <4>1. m \in Nat /\ k \in Nat /\ i \in 1 .. k
        BY <1>2, <3>1
      <4> HIDE DEF m, k
      <4>2. i + m \in 1 .. m + k /\ ~ (i + m <= m) /\ (i + m) - m = i
        BY <4>1
      <4>3. QED
        BY <4>2 DEF m, k
    <3> HIDE DEF j
    <3>3. all[j] = r.body[i]
      BY <1>2, <3>2
    <3>4. QED
      BY <1>2, <3>1, <3>2, <3>3
  <2>3. QED
    BY <2>1, <2>2
<1>4. \A i, j \in 1 .. Len(all) : all[i][1] = all[j][1] => i = j
  BY DEF NamesOnce
<1> HIDE DEF all
<1>5. PICK q \in Range(r.args) \cup Range(r.body) : q[1] = key /\ v = q[2]
  BY DEF Given
<1>6. PICK p \in Range(r.args) \cup Range(r.body) : p[1] = key /\ w = p[2]
  BY DEF Given
<1>7. QED
  BY <1>3, <1>4, <1>5, <1>6

\* What a handler is after it has been given a parameter.
LEMMA AddParamFields ==
  ASSUME NEW h, IsHandler(h), NEW key, NEW value
  PROVE  LET g == addParam(h, key, value)
         IN  /\ g.kind = h.kind /\ g.uri = h.uri /\ g.method = h.method
             /\ g.sign = IF h.kind \in Manages /\ key = "sign" THEN value ELSE h.sign
             /\ g.filters = IF h.kind = "token" /\ key = "filters" /\ value \in Objects
                              THEN value ELSE h.filters
             /\ g.params = IF h.kind # "no_route" /\ reviewParam(h, key, value)
                             THEN Insert(h.params, key, value) ELSE h.params
<1> DEFINE sign == IF h.kind \in Manages /\ key = "sign" THEN value ELSE h.sign
           filters == IF h.kind = "token" /\ key = "filters" /\ value \in Objects
                        THEN value ELSE h.filters
           params == IF h.kind # "no_route" /\ reviewParam(h, key, value)
                       THEN Insert(h.params, key, value) ELSE h.params
<1>1. h = [kind |-> h.kind, method |-> h.method, uri |-> h.uri, params |-> h.params,
           sign |-> h.sign, filters |-> h.filters, post |-> h.post]
  BY DEF IsHandler
<1>2. addParam(h, key, value) =
        [h EXCEPT !.sign = sign, !.filters = filters, !.params = params]
  BY <1>1, Zenon DEF addParam
<1> HIDE DEF sign, filters, params
<1>3. addParam(h, key, value) =
        [kind |-> h.kind, method |-> h.method, uri |-> h.uri, params |-> params,
         sign |-> sign, filters |-> filters, post |-> h.post]
  BY <1>1, <1>2
<1>4. QED
  BY <1>3 DEF sign, filters, params

\* A parameter, or a piece of one, leaves a handler with what it should have: the
\* first piece of a token's filters is all there is or shorter than the value.
LEMMA AddParamMeans ==
  ASSUME NEW h, IsHandler(h), NEW r \in Requests,
         NEW data \in Seq(AnyParams), data # <<>>, HandlerMeans(h, r, data),
         Head(data)[2] \in Value, FromRequest(r, Head(data)[1], Head(data)[2]),
         NEW n \in 0 .. Len(Head(data)[2])
  PROVE  HandlerMeans(addParam(h, Head(data)[1], SubSeq(Head(data)[2], 1, n)), r, Left(data, n))
<1> DEFINE key == Head(data)[1]
           whole == Head(data)[2]
           value == SubSeq(whole, 1, n)
           g == addParam(h, key, value)
           left == Left(data, n)
<1>1. /\ Len(whole) \in Nat /\ value \in Value /\ Len(value) = n
      /\ FromRequest(r, key, value)
  <2>1. Len(whole) \in Nat /\ 1 \in 1 .. Len(whole) + 1 /\ \A i \in 1 .. n : whole[i] \in Text
    BY DEF Value
  <2>2. value \in Value /\ FromRequest(r, key, value)
    BY <2>1, PieceIsValue, PartFromRequest
  <2>3. Len(value) = n
    BY <2>1, SubSeqProperties
  <2>4. QED
    BY <2>1, <2>2, <2>3
<1>2. /\ NamesOnce(r) => Once(left)
      /\ NamesOnce(r) /\ n = Len(whole) => ~ Has(left, key)
      /\ \A k : Has(left, k) => Has(data, k)
  BY LeftOnce DEF HandlerMeans
<1>3. Has(data, key)
  <2>1. Head(data) = data[1] /\ 1 \in 1 .. Len(data)
    BY EmptySeq
  <2>2. QED
    BY <2>1 DEF Has
<1>4. /\ g.kind = h.kind /\ g.uri = h.uri /\ g.method = h.method
      /\ g.sign = IF h.kind \in Manages /\ key = "sign" THEN value ELSE h.sign
      /\ g.filters = IF h.kind = "token" /\ key = "filters" /\ value \in Objects
                       THEN value ELSE h.filters
      /\ g.params = IF h.kind # "no_route" /\ reviewParam(h, key, value)
                      THEN Insert(h.params, key, value) ELSE h.params
  BY AddParamFields
<1>5. \A v \in Given(r, key) \ {Null} : NamesOnce(r) => Len(whole) <= Len(v)
  <2> SUFFICES ASSUME NEW v \in Given(r, key) \ {Null}, NamesOnce(r) PROVE Len(whole) <= Len(v)
    OBVIOUS
  <2>1. PICK w \in Given(r, key) : w # Null /\ whole \in Parts(w)
    BY DEF FromRequest
  <2>2. w = v
    BY GivenOnce
  <2>3. QED
    BY <2>1, <2>2, GivenValue, PartIsShorter
<1> HIDE DEF key, value, g, left
<1>6. g.sign = <<>> \/ FromRequest(r, "sign", g.sign)
  BY <1>1, <1>4 DEF HandlerMeans
<1>7. g.kind \in Manages => /\ g.uri = r.uri /\ g.method = r.method
                           /\ "sign" \notin DOMAIN g.params
  BY <1>4 DEF HandlerMeans, reviewParam, Insert
<1>8. ASSUME h.kind = "token"
      PROVE  /\ g.filters # Null <=> "filters" \in DOMAIN g.params
             /\ g.filters # Null => g.filters \in Objects
             /\ NamesOnce(r) /\ "filters" \in DOMAIN g.params =>
                  \/ \A v \in Given(r, "filters") \ {Null} : Len(g.params["filters"]) < Len(v)
                  \/ g.params["filters"] = g.filters /\ ~ Has(left, "filters")
  <2>1. /\ h.filters # Null <=> "filters" \in DOMAIN h.params
        /\ h.filters # Null => h.filters \in Objects
        /\ NamesOnce(r) /\ "filters" \in DOMAIN h.params =>
             \/ \A v \in Given(r, "filters") \ {Null} : Len(h.params["filters"]) < Len(v)
             \/ h.params["filters"] = h.filters /\ ~ Has(data, "filters")
    BY <1>8 DEF HandlerMeans
  <2>2. g.params = Insert(h.params, key, value) \/ g.params = h.params
    BY <1>4
  <2>3. CASE key # "filters"
    <3>1. g.filters = h.filters
      BY <1>4, <2>3
    <3>2. /\ "filters" \in DOMAIN g.params <=> "filters" \in DOMAIN h.params
          /\ "filters" \in DOMAIN h.params => g.params["filters"] = h.params["filters"]
      BY <2>2, <2>3 DEF Insert
    <3>3. Has(left, "filters") => Has(data, "filters")
      BY <1>2
    <3>4. QED
      BY <2>1, <3>1, <3>2, <3>3
  <2>4. CASE key = "filters" /\ value \notin Objects
    <3>1. g.filters = h.filters /\ g.params = h.params
      BY <1>4, <1>8, <2>4 DEF reviewParam
    <3>2. QED
      BY <1>2, <2>1, <3>1
  <2>5. CASE key = "filters" /\ value \in Objects
    <3>1. g.filters = value /\ g.params = Insert(h.params, key, value)
      BY <1>4, <1>8, <2>5 DEF reviewParam, Manages
    <3>2. value # Null
      BY <1>1, NullAssumption
    <3>3. "filters" \in DOMAIN g.params
      BY <2>5, <3>1 DEF Insert
    <3>4. CASE "filters" \in DOMAIN h.params
      <4>1. g.params["filters"] = h.params["filters"]
        BY <3>1, <3>4 DEF Insert
      <4>2. QED
        BY <1>3, <2>1, <2>5, <3>1, <3>2, <3>3, <3>4, <4>1
    <3>5. CASE "filters" \notin DOMAIN h.params
      <4>1. g.params["filters"] = value
        BY <2>5, <3>1, <3>5 DEF Insert
      <4>2. NamesOnce(r) /\ n # Len(whole) =>
              \A v \in Given(r, "filters") \ {Null} : Len(value) < Len(v)
        <5> SUFFICES ASSUME NamesOnce(r), n # Len(whole), NEW v \in Given(r, "filters") \ {Null}
                     PROVE  Len(value) < Len(v)
          OBVIOUS
        <5>1. Len(v) \in Nat
          BY GivenValue DEF Value
        <5>2. Len(whole) <= Len(v) /\ Len(value) < Len(whole)
          BY <1>1, <1>5, <2>5
        <5>3. QED
          BY <1>1, <5>1, <5>2
      <4>3. NamesOnce(r) /\ n = Len(whole) => ~ Has(left, "filters")
        BY <1>2, <2>5
      <4>4. QED
        BY <2>5, <3>1, <3>2, <3>3, <4>1, <4>2, <4>3
    <3>6. QED
      BY <3>4, <3>5
  <2>6. QED
    BY <2>3, <2>4, <2>5
<1>9. HandlerMeans(g, r, left)
  BY <1>2, <1>4, <1>6, <1>7, <1>8 DEF HandlerMeans
<1>10. QED
  BY <1>9 DEF g, key, value, left

\* A request whose signature is right is taken for what its client sent: the
\* digest is of the parameters there are, and no client signs mere parts of them.
LEMMA SignedMeans ==
  ASSUME NEW h, IsHandler(h), NEW r \in Requests, NEW data, HandlerMeans(h, r, data),
         h.kind \in Manages, checkSign, validate(h) = "ok",
         \A k \in DOMAIN h.params : FromRequest(r, k, h.params[k])
  PROVE  NamesOnce(r) /\ h.params = Meant(r).params /\ SignedWhole(r)
<1>1. h.sign = Signature(r.uri, r.method, h.params)
  <2>1. h.sign = Signature(h.uri, h.method, h.params)
    BY DEF validate
  <2>2. QED
    BY <2>1 DEF HandlerMeans
<1>2. Signature(r.uri, r.method, h.params) # <<>>
  BY DEF Signature
<1>3. PICK sign \in Given(r, "sign") \ {Null} : h.sign \in Parts(sign)
  BY <1>1, <1>2 DEF HandlerMeans, FromRequest
<1> DEFINE p == h.params
           names == DOMAIN p
           given(k) == Given(r, k) \ {Null}
           parts == UNION {UNION {Parts(v) : v \in given(k)} : k \in Names(r)}
<1>4. \A k \in names : \E v \in given(k) : p[k] \in Parts(v)
  BY DEF FromRequest
<1>5. names \in SUBSET (Names(r) \ {"sign"})
  <2>1. \A k \in names : k \in Names(r)
    BY <1>4 DEF Given, Names
  <2>2. "sign" \notin names
    BY DEF HandlerMeans
  <2>3. QED
    BY <2>1, <2>2
<1>6. p \in [names -> parts]
  <2>1. \A k \in names : p[k] \in parts
    BY <1>4, <1>5
  <2>2. p \in [names -> Value]
    BY DEF IsHandler, IsParams
  <2> HIDE DEF p, parts
  <2>3. p = [k \in names |-> p[k]]
    BY <2>2
  <2>4. QED
    BY <2>1, <2>3
<1>7. p \in PartsOf(r)
  <2>1. p \in {q \in [names -> parts] : \A k \in names : \E v \in given(k) : q[k] \in Parts(v)}
    BY <1>4, <1>6
  <2>2. QED
    BY <1>5, <2>1, Zenon DEF PartsOf
<1> HIDE DEF p
<1>8. /\ NamesOnce(r)
      /\ Signature(r.uri, r.method, p) \in Parts(sign) => p = Meant(r).params
  BY <1>3, <1>7, SignersAssumption
<1>9. p = Meant(r).params /\ Signature(r.uri, r.method, Meant(r).params) \in Parts(sign)
  BY <1>1, <1>3, <1>8 DEF p
<1>10. SignedWhole(r)
  BY <1>3, <1>9, Zenon DEF SignedWhole
<1>11. QED
  BY <1>8, <1>9, <1>10 DEF p

\* Then a token's filters are what the client sent, too.
LEMMA FiltersMeant ==
  ASSUME NEW h, IsHandler(h), NEW r \in Requests, NEW data, HandlerMeans(h, r, data),
         h.kind = "token", NamesOnce(r), h.params = Meant(r).params,
         \A k \in DOMAIN h.params : FromRequest(r, k, h.params[k])
  PROVE  h.filters = Meant(r).filters
<1> DEFINE names == Names(r) \ {"sign"}
           sent == CHOOSE v \in Given(r, "filters") : TRUE
<1>1. /\ DOMAIN h.params = names
      /\ Meant(r).filters = IF "filters" \in names /\ sent \in Objects THEN sent ELSE Null
  BY DEF Meant
<1>2. "filters" \in names => h.params["filters"] = sent
  BY DEF Meant
<1>3. CASE "filters" \in names
  <2>1. PICK v \in Given(r, "filters") : v # Null
    BY <1>1, <1>3 DEF FromRequest
  <2>2. sent = v
    BY GivenOnce
  <2>3. Len(v) \in Nat
    BY <2>1, GivenValue DEF Value
  <2> HIDE DEF sent, names
  <2>4. ~ (Len(h.params["filters"]) < Len(v))
    BY <1>2, <1>3, <2>2, <2>3
  <2>5. h.params["filters"] = h.filters /\ h.filters \in Objects
    BY <1>1, <1>3, <2>1, <2>4 DEF HandlerMeans
  <2>6. QED
    BY <1>1, <1>2, <1>3, <2>5
<1>4. CASE "filters" \notin names
  BY <1>1, <1>4 DEF HandlerMeans
<1>5. QED
  BY <1>3, <1>4

LEMMA ProcessMeans ==
  ASSUME NEW h, IsHandler(h), NEW r \in Requests, NEW data, HandlerMeans(h, r, data),
         checkSign, NEW o \in process(h),
         \A k \in DOMAIN h.params : FromRequest(r, k, h.params[k])
  PROVE  CallMeant(r, o.call)
<1>1. CallMeant(r, NoCall)
  BY DEF CallMeant, NoCall
<1>2. CASE h.kind \in Manages /\ validate(h) = "ok"
  <2>1. NamesOnce(r) /\ h.params = Meant(r).params
    BY <1>2, SignedMeans
  <2>2. o \in deal(h)
    BY <1>2 DEF process, Manages
  <2>3. CASE h.kind = "attach"
    <3>1. o \in dealAttach(h)
      BY <2>2, <2>3 DEF deal
    <3>2. o.call \in {NoCall, AttachCall(h)}
      <4>1. \A w \in attach(h) : w.call = AttachCall(h)
        BY DEF attach, Outcome
      <4>2. \A w \in createItem(h) : w.call \in {NoCall, AttachCall(h)}
        BY <4>1 DEF createItem, Outcome
      <4>3. QED
        BY <3>1, <4>2 DEF dealAttach, Outcome
    <3>3. AttachCall(h) = AttachCall(Meant(r)) /\ AttachCall(h).op = "attach"
      BY <2>1 DEF AttachCall
    <3>4. QED
      BY <1>1, <3>2, <3>3 DEF CallMeant
  <2>4. CASE h.kind = "token"
    <3>1. o \in dealToken(h)
      BY <2>2, <2>4 DEF deal
    <3>2. o.call \in {NoCall, TokenCall(h)}
      BY <3>1 DEF dealToken, Outcome
    <3>3. h.filters = Meant(r).filters
      BY <2>1, <2>4, FiltersMeant
    <3>4. TokenCall(h) = TokenCall(Meant(r)) /\ TokenCall(h).op = "ensure"
      BY <2>1, <3>3 DEF TokenCall
    <3>5. QED
      BY <1>1, <3>2, <3>4 DEF CallMeant
  <2>5. CASE h.kind \in {"status", "detach"}
    <3>1. o.call = NoCall
      BY <2>2, <2>5 DEF deal, Outcome
    <3>2. QED
      BY <1>1, <3>1
  <2>6. QED
    BY <1>2, <2>3, <2>4, <2>5 DEF Manages
<1>3. CASE h.kind \in Manages /\ validate(h) # "ok"
  <2>1. o.call = NoCall
    BY <1>3 DEF process, Manages, Outcome
  <2>2. QED
    BY <1>1, <2>1
<1>4. CASE h.kind \notin Manages
  <2>1. h.kind \in {"predict", "no_route"}
    BY <1>4 DEF IsHandler, Kinds
  <2>2. o.call.op \in {"none", "seek"}
    BY <2>1 DEF process, predict, rebuild, Outcome, NoCall
  <2>3. QED
    BY <2>2 DEF CallMeant
<1>5. QED
  BY <1>2, <1>3, <1>4

-----------------------------------------------------------------------------
(* The steps of a connection keep to what its client meant                 *)

LEMMA MeantEnough ==
  ASSUME MeantInv, NEW c \in Connections, Accept(c) \/ ServerStep(c) \/ ClientStep(c),
         UNCHANGED checkSign, MeansRequest(c)'
  PROVE  \A d \in Connections : MeansRequest(d)'
<1>1. SUFFICES ASSUME NEW d \in Connections \ {c} PROVE MeansRequest(d)'
  BY <1>1
<1>2. MeansRequest(d) /\ Others(c)
  BY OthersKept DEF MeantInv, OwnInv
<1>3. /\ stage'[d] = stage[d] /\ request'[d] = request[d] /\ rest'[d] = rest[d]
      /\ stage[d] \in Serving => Handler(d)' = Handler(d)
  BY <1>2 DEF Others
<1>4. call'[d] = call[d]
  BY DEF MeantInv, Accept, ServerStep, ClientStep, FirstCall, AddGetParam, CreatePostProcessor,
         Upload, UploadRefused, Process, Respond, Abort, Completed
<1>5. ToCome(d)' = ToCome(d)
  BY <1>3 DEF ToCome
<1>6. QED
  BY <1>2, <1>3, <1>4, <1>5 DEF MeansRequest, Serving

\* A step that is not process() leaves the call as it is; it matters where data is
\* still to come.
LEMMA ServedMeans ==
  ASSUME MeantInv, NEW c \in Connections, UNCHANGED <<call, checkSign>>,
         request'[c] = request[c], stage'[c] # "idle",
         stage'[c] \in {"args", "upload"} =>
           HandlerMeans(Handler(c)', request'[c], ToCome(c)')
  PROVE  MeansRequest(c)'
BY DEF MeantInv, MeansRequest

LEMMA AcceptMeans ==
  ASSUME MeantInv, NEW c \in Connections, Accept(c), UNCHANGED checkSign
  PROVE  MeansRequest(c)'
<1>1. stage[c] = "idle" /\ stage'[c] = "started" /\ call' = call
  BY DEF MeantInv, OwnInv, Inv, TypeOK, Accept, Goto
<1>2. call'[c] = NoCall
  BY <1>1 DEF MeantInv, MeansRequest
<1>3. QED
  BY <1>1, <1>2 DEF MeansRequest, CallMeant, NoCall

LEMMA FirstCallMeans ==
  ASSUME MeantInv, NEW c \in Connections, FirstCall(c), UNCHANGED checkSign
  PROVE  MeansRequest(c)'
<1> USE DEF MeantInv, OwnInv, Inv
<1> DEFINE r == request[c]
           h == route(r.method, r.uri)
<1>1. /\ request' = request /\ r \in Requests /\ UNCHANGED call
      /\ stage'[c] = "args" /\ rest'[c] = r.args /\ Handler(c)' = h
  BY DEF TypeOK, PoolOK, RestOK, FirstCall, Goto, Handler, Free
<1>2. /\ h.kind \in Manages => h.uri = r.uri /\ h.method = r.method
      /\ DOMAIN h.params = {} /\ h.sign = <<>> /\ h.filters = Null
  BY DEF route, Manages
<1>3. NamesOnce(r) => Once(r.args \o r.body)
  BY DEF NamesOnce, Once
<1> HIDE DEF h
<1>4. HandlerMeans(h, r, r.args \o r.body)
  BY <1>2, <1>3 DEF HandlerMeans
<1>5. ToCome(c)' = r.args \o r.body
  BY <1>1 DEF ToCome
<1>6. QED
  BY <1>1, <1>4, <1>5, ServedMeans

\* Taking the first of two sequences one after the other.
LEMMA HeadTailConcat ==
  ASSUME NEW S, NEW s \in Seq(S), NEW t \in Seq(S), s # <<>>
  PROVE  /\ s \o t \in Seq(S) /\ s \o t # <<>>
         /\ Head(s \o t) = Head(s) /\ Tail(s \o t) = Tail(s) \o t
<1>1. /\ Len(s) \in Nat \ {0} /\ Len(t) \in Nat /\ Tail(s) \in Seq(S)
      /\ Len(Tail(s)) = Len(s) - 1 /\ \A i \in 1 .. Len(Tail(s)) : Tail(s)[i] = s[i + 1]
      /\ Head(s) = s[1]
  BY EmptySeq, HeadTailProperties, LenProperties
<1> DEFINE u == s \o t
           v == Tail(s) \o t
           k == Len(s)
           m == Len(t)
<1>2. /\ u \in Seq(S) /\ Len(u) = k + m
      /\ \A i \in 1 .. k + m : u[i] = IF i <= k THEN s[i] ELSE t[i - k]
  BY ConcatProperties
<1>3. /\ v \in Seq(S) /\ Len(v) = (k - 1) + m
      /\ \A i \in 1 .. (k - 1) + m : v[i] = IF i <= k - 1 THEN Tail(s)[i] ELSE t[i - (k - 1)]
  <2>1. /\ v \in Seq(S) /\ Len(v) = Len(Tail(s)) + m
        /\ \A i \in 1 .. Len(Tail(s)) + m :
             v[i] = IF i <= Len(Tail(s)) THEN Tail(s)[i] ELSE t[i - Len(Tail(s))]
    BY <1>1, ConcatProperties
  <2>2. Len(Tail(s)) = k - 1
    BY <1>1
  <2> HIDE DEF v, k, m
  <2>3. QED
    BY <2>1, <2>2
<1>4. k \in Nat \ {0} /\ m \in Nat
  BY <1>1
<1> HIDE DEF u, v, m
<1>5. u # <<>> /\ Head(u) = u[1] /\ u[1] = s[1]
  <2> HIDE DEF k
  <2>1. Len(u) > 0 /\ 1 \in 1 .. k + m /\ 1 <= k
    BY <1>2, <1>4
  <2>2. QED
    BY <1>2, <2>1
<1>6. /\ Tail(u) \in Seq(S) /\ Len(Tail(u)) = Len(u) - 1
      /\ \A i \in 1 .. Len(Tail(u)) : Tail(u)[i] = u[i + 1]
  BY <1>2, <1>5, HeadTailProperties
<1>7. ASSUME NEW i \in 1 .. Len(Tail(u)) PROVE Tail(u)[i] = v[i]
  <2>1. Len(Tail(s)) = k - 1
    BY <1>1
  <2> HIDE DEF k
  <2>2. /\ i \in 1 .. (k - 1) + m /\ i + 1 \in 1 .. k + m /\ (i + 1) - k = i - (k - 1)
        /\ i + 1 <= k <=> i <= k - 1
    BY <1>2, <1>4, <1>6
  <2>3. Tail(u)[i] = IF i <= k - 1 THEN s[i + 1] ELSE t[i - (k - 1)]
    BY <1>2, <1>6, <2>2
  <2>4. i <= k - 1 => Tail(s)[i] = s[i + 1]
    BY <1>1, <2>1, <2>2
  <2>5. QED
    BY <1>3, <2>2, <2>3, <2>4
<1>8. Len(Tail(u)) = Len(v)
  <2> HIDE DEF k
  <2>1. QED
    BY <1>2, <1>3, <1>4, <1>6
<1>9. Tail(u) = v
  BY <1>3, <1>6, <1>7, <1>8, SeqEqual
<1>10. QED
  BY <1>1, <1>2, <1>5, <1>9 DEF u, v

\* Whether the parameter is of the URI or a piece of the body.
LEMMA ParamMeans ==
  ASSUME MeantInv, NEW c \in Connections, UNCHANGED <<stage, request, conClosure, call, checkSign>>,
         stage[c] \in {"args", "upload"},
         NEW data \in Seq(AnyParams), data = ToCome(c), data # <<>>, Head(data)[2] \in Value,
         FromRequest(request[c], Head(data)[1], Head(data)[2]),
         NEW n \in 0 .. Len(Head(data)[2]),
         pool' = [pool EXCEPT ![conClosure[c]] =
                    addParam(@, Head(data)[1], SubSeq(Head(data)[2], 1, n))],
         ToCome(c)' = Left(data, n)
  PROVE  MeansRequest(c)'
<1> USE DEF MeantInv, OwnInv
<1> DEFINE g == addParam(Handler(c), Head(data)[1], SubSeq(Head(data)[2], 1, n))
<1>1. /\ conClosure[c] \in Cells /\ IsHandler(Handler(c)) /\ request[c] \in Requests
  <2>1. stage[c] \in Serving /\ stage[c] # "idle"
    BY DEF Serving
  <2>2. QED
    BY <2>1, ServedHasHandler DEF Inv, TypeOK
<1>2. HandlerMeans(Handler(c), request[c], data)
  BY DEF MeansRequest
<1>3. HandlerMeans(g, request[c], Left(data, n))
  BY <1>1, <1>2, AddParamMeans
<1>4. Handler(c)' = g
  BY <1>1 DEF Inv, TypeOK, PoolOK, RestOK, Handler
<1> HIDE DEF g
<1>5. stage'[c] # "idle" /\ request'[c] = request[c]
  OBVIOUS
<1>6. QED
  BY <1>3, <1>4, <1>5, ServedMeans

LEMMA AddGetParamMeans ==
  ASSUME MeantInv, NEW c \in Connections, AddGetParam(c), UNCHANGED checkSign
  PROVE  MeansRequest(c)'
<1> USE DEF MeantInv, OwnInv, Inv
<1> DEFINE first == Head(rest[c])
           r == request[c]
           data == rest[c] \o r.body
<1>1. /\ rest[c] \in Seq(AnyParams) /\ rest[c] \in Seq(UriParams) /\ rest[c] # <<>>
      /\ stage[c] = "args" /\ r \in Requests
      /\ UNCHANGED <<stage, request, conClosure, call>>
  <2>1. stage[c] = "args" /\ rest[c] # <<>> /\ UNCHANGED <<stage, request, conClosure, call>>
    BY DEF AddGetParam
  <2>2. r \in Requests
    BY <2>1 DEF TypeOK
  <2>3. QED
    BY <2>1, <2>2, ArgsTyped
<1>2. r.body \in Seq(AnyParams)
  BY <1>1, RequestFields
<1>3. first \in Range(r.args) /\ first[1] \in STRING /\ first[2] \in Value \cup {Null}
  <2>1. \A i \in 1 .. Len(rest[c]) : rest[c][i] \in Range(r.args)
    BY <1>1 DEF OwnRequest
  <2>2. first = rest[c][1] /\ 1 \in 1 .. Len(rest[c]) /\ first \in UriParams
    BY <1>1
  <2>3. QED
    BY <2>1, <2>2 DEF UriParams
<1>4. CASE first[2] = Null
  <2>1. UNCHANGED <<rest, pool>>
    BY <1>4 DEF AddGetParam
  <2>2. Handler(c)' = Handler(c) /\ ToCome(c)' = ToCome(c)
    BY <1>1, <2>1 DEF Handler, ToCome
  <2>3. HandlerMeans(Handler(c), request[c], ToCome(c)) /\ stage'[c] # "idle"
    BY <1>1 DEF MeansRequest
  <2>4. QED
    BY <1>1, <2>2, <2>3, ServedMeans
<1>5. CASE first[2] # Null
  <2> DEFINE n == Len(first[2])
  <2>1. /\ pool' = [pool EXCEPT ![conClosure[c]] = addParam(@, first[1], first[2])]
        /\ rest' = [rest EXCEPT ![c] = Tail(@)]
    BY <1>5 DEF AddGetParam
  <2>2. /\ data \in Seq(AnyParams) /\ data # <<>>
        /\ Head(data) = first /\ Tail(data) = Tail(rest[c]) \o r.body
    <3>1. ASSUME NEW s \in Seq(AnyParams), NEW t \in Seq(AnyParams), s # <<>>
          PROVE  /\ s \o t \in Seq(AnyParams) /\ s \o t # <<>>
                 /\ Head(s \o t) = Head(s) /\ Tail(s \o t) = Tail(s) \o t
      BY ONLY <3>1, HeadTailConcat, Zenon
    <3>2. rest[c] \in Seq(AnyParams) /\ rest[c] # <<>>
      BY <1>1, Zenon
    <3>3. QED
      BY ONLY <1>2, <3>1, <3>2, Zenon
  <2>3. first[2] \in Value /\ FromRequest(r, first[1], first[2])
    BY <1>1, <1>3, <1>5, GivenInArgs
  <2>4. n \in 0 .. n /\ SubSeq(first[2], 1, n) = first[2]
    BY <2>3, SubSeqFull DEF Value
  <2>5. rest'[c] = Tail(rest[c])
    BY <1>1, <2>1 DEF TypeOK, PoolOK, RestOK
  <2>6. data = ToCome(c) /\ ToCome(c)' = Tail(rest[c]) \o r.body
    BY <1>1, <2>5 DEF ToCome
  <2> HIDE DEF data, first
  <2>7. Left(data, n) = Tail(data)
    BY <2>2 DEF Left
  <2>8. /\ Head(data)[2] \in Value /\ FromRequest(r, Head(data)[1], Head(data)[2])
        /\ n \in 0 .. Len(Head(data)[2])
        /\ pool' = [pool EXCEPT ![conClosure[c]] =
                      addParam(@, Head(data)[1], SubSeq(Head(data)[2], 1, n))]
    BY <2>1, <2>2, <2>3, <2>4
  <2> HIDE DEF n
  <2>9. QED
    BY <1>1, <2>2, <2>6, <2>7, <2>8, ParamMeans
<1>6. QED
  BY <1>4, <1>5

LEMMA UploadMeans ==
  ASSUME MeantInv, NEW c \in Connections, Upload(c), UNCHANGED checkSign
  PROVE  MeansRequest(c)'
<1> USE DEF MeantInv, OwnInv, Inv
<1> DEFINE data == rest[c]
<1>1. /\ data \in Seq(BodyParams) /\ data \in Seq(AnyParams) /\ data # <<>>
      /\ stage[c] = "upload" /\ request[c] \in Requests
      /\ UNCHANGED <<stage, request, conClosure, call>>
  BY DEF TypeOK, RestOK, Upload
<1>2. Head(data)[2] \in Value
  BY <1>1 DEF BodyParams
<1>3. CASE Head(data)[1] = Null
  <2>1. UNCHANGED <<rest, pool>>
    BY <1>3 DEF Upload
  <2>2. Handler(c)' = Handler(c) /\ ToCome(c)' = ToCome(c)
    BY <1>1, <2>1 DEF Handler, ToCome
  <2>3. HandlerMeans(Handler(c), request[c], ToCome(c)) /\ stage'[c] # "idle"
    BY <1>1 DEF MeansRequest
  <2>4. QED
    BY <1>1, <2>2, <2>3, ServedMeans
<1>4. CASE Head(data)[1] # Null
  <2>1. FromRequest(request[c], Head(data)[1], Head(data)[2])
    <3>1. \A i \in 1 .. Len(data) : FromRequest(request[c], data[i][1], data[i][2])
      BY <1>1 DEF OwnRequest
    <3>2. Head(data) = data[1] /\ 1 \in 1 .. Len(data)
      BY <1>1
    <3>3. QED
      BY <3>1, <3>2
  <2>2. PICK n \in 0 .. Len(Head(data)[2]) :
          /\ pool' = [pool EXCEPT ![conClosure[c]] =
                        addParam(@, Head(data)[1], SubSeq(Head(data)[2], 1, n))]
          /\ rest' = [rest EXCEPT ![c] = Left(data, n)]
    BY <1>4 DEF Upload, Left
  <2>3. data = ToCome(c) /\ ToCome(c)' = Left(data, n)
    <3>1. rest'[c] = Left(data, n)
      BY <2>2 DEF TypeOK, PoolOK, RestOK
    <3>2. QED
      BY <1>1, <3>1 DEF ToCome
  <2> HIDE DEF data
  <2>4. QED
    BY <1>1, <1>2, <2>1, <2>2, <2>3, ParamMeans
<1>5. QED
  BY <1>3, <1>4

LEMMA CreatePostProcessorMeans ==
  ASSUME MeantInv, NEW c \in Connections, CreatePostProcessor(c), UNCHANGED checkSign
  PROVE  MeansRequest(c)'
<1> USE DEF MeantInv, OwnInv, Inv
<1>1. /\ stage[c] = "args" /\ rest[c] = <<>> /\ request[c] \in Requests
      /\ UNCHANGED <<request, conClosure, call>>
  BY DEF TypeOK, CreatePostProcessor
<1>2. conClosure[c] \in Cells /\ IsHandler(Handler(c))
  BY <1>1, ServedHasHandler DEF Serving
<1>3. CASE isPost(Handler(c)) /\ ~ request[c].form
  <2>1. stage'[c] = "aborted"
    BY <1>3 DEF TypeOK, CreatePostProcessor, Goto
  <2>2. QED
    BY <1>1, <2>1, ServedMeans
<1>4. CASE ~ (isPost(Handler(c)) /\ ~ request[c].form)
  <2> DEFINE h == [Handler(c) EXCEPT !.post = isPost(Handler(c))]
  <2>1. stage'[c] = "upload" /\ rest'[c] = request[c].body /\ Handler(c)' = h
    BY <1>1, <1>2, <1>4 DEF TypeOK, PoolOK, RestOK, CreatePostProcessor, Goto, Handler
  <2>2. /\ h.kind = Handler(c).kind /\ h.params = Handler(c).params
        /\ h.uri = Handler(c).uri /\ h.method = Handler(c).method
        /\ h.sign = Handler(c).sign /\ h.filters = Handler(c).filters
    BY <1>2 DEF IsHandler
  <2>3. <<>> \o request[c].body = request[c].body
    BY <1>1, RequestFields, ConcatEmptySeq
  <2>4. HandlerMeans(Handler(c), request[c], request[c].body)
    BY <1>1, <2>3 DEF MeansRequest, ToCome
  <2> HIDE DEF h
  <2>5. HandlerMeans(h, request[c], request[c].body)
    BY <2>2, <2>4 DEF HandlerMeans
  <2>6. ToCome(c)' = request[c].body /\ stage'[c] # "idle"
    BY <2>1 DEF ToCome
  <2>7. QED
    BY <1>1, <2>1, <2>5, <2>6, ServedMeans
<1>5. QED
  BY <1>3, <1>4

LEMMA EndMeans ==
  ASSUME MeantInv, NEW c \in Connections, UNCHANGED checkSign,
         UploadRefused(c) \/ Abort(c) \/ Respond(c) \/ Completed(c)
  PROVE  MeansRequest(c)'
<1> USE DEF MeantInv, OwnInv, Inv
<1>1. CASE UploadRefused(c) \/ Abort(c) \/ Respond(c)
  <2>1. /\ stage'[c] \in {"aborted", "queued"} /\ UNCHANGED <<call, request>>
    BY <1>1 DEF TypeOK, UploadRefused, Abort, Respond, Goto
  <2>2. QED
    BY <2>1, ServedMeans
<1>2. CASE Completed(c)
  <2>1. stage'[c] = "idle" /\ call'[c] = NoCall
    BY <1>2 DEF TypeOK, Completed, Goto
  <2>2. QED
    BY <2>1 DEF MeansRequest, CallMeant, NoCall
<1>3. QED
  BY <1>1, <1>2

LEMMA ProcessStepMeans ==
  ASSUME MeantInv, NEW c \in Connections, Process(c), UNCHANGED checkSign
  PROVE  MeansRequest(c)'
<1> USE DEF MeantInv, OwnInv, Inv
<1>1. /\ stage[c] = "upload" /\ stage'[c] = "processed" /\ request' = request
      /\ request[c] \in Requests
  BY DEF TypeOK, Process, Goto
<1>2. PICK o \in process(Handler(c)) : call' = [call EXCEPT ![c] = o.call]
  BY DEF Process
<1>3. /\ IsHandler(Handler(c)) /\ HandlerMeans(Handler(c), request[c], ToCome(c))
      /\ \A k \in DOMAIN Handler(c).params : FromRequest(request[c], k, Handler(c).params[k])
  BY <1>1, ServedHasHandler DEF MeansRequest, OwnRequest, Serving
<1>4. checkSign => CallMeant(request[c], o.call)
  BY <1>1, <1>3, ProcessMeans
<1>5. call'[c] = o.call
  BY <1>2
<1>6. QED
  BY <1>1, <1>4, <1>5 DEF MeansRequest

LEMMA MeantInvariance == Spec => []MeantInv
<1>1. Init => MeantInv
  <2> SUFFICES ASSUME Init PROVE MeantInv
    OBVIOUS
  <2>1. /\ died = Null /\ call = [c \in Connections |-> NoCall]
        /\ \A c \in Connections : stage[c] = "idle"
    BY DEF Init
  <2>2. OwnInv
    BY <2>1, InitInv DEF OwnInv, OwnRequest, Serving
  <2>3. QED
    BY <2>1, <2>2 DEF MeantInv, MeansRequest, CallMeant, NoCall
<1>2. MeantInv /\ OwnInv' /\ [Next]_vars => MeantInv'
  <2> SUFFICES ASSUME MeantInv, OwnInv', [Next]_vars PROVE MeantInv'
    OBVIOUS
  <2>1. CASE UNCHANGED vars
    <3>1. \A c \in Connections : MeansRequest(c)'
      BY <2>1 DEF vars, MeantInv, MeansRequest, Handler, ToCome
    <3>2. QED
      BY <2>1, <3>1 DEF vars, MeantInv
  <2>2. ASSUME NEW c \in Connections, Accept(c) \/ ServerStep(c) \/ ClientStep(c),
               UNCHANGED checkSign
        PROVE  MeantInv'
    <3>1. MeansRequest(c)'
      BY <2>2, AcceptMeans, FirstCallMeans, AddGetParamMeans, UploadMeans,
         CreatePostProcessorMeans, EndMeans, ProcessStepMeans DEF ServerStep, ClientStep
    <3>2. \A d \in Connections : MeansRequest(d)'
      BY <2>2, <3>1, MeantEnough
    <3>3. call' = [d \in Connections |-> call'[d]]
      BY <2>2 DEF MeantInv, Accept, ServerStep, ClientStep, FirstCall, AddGetParam,
                  CreatePostProcessor, Upload, UploadRefused, Process, Respond, Abort, Completed
    <3>4. QED
      BY <3>2, <3>3 DEF MeantInv
  <2>3. QED
    BY <2>1, <2>2 DEF Next
<1>3. QED
  BY <1>1, <1>2, OwnInvariance, PTL DEF Spec

\* With signatures checked the index and the sessions are only ever asked for what
\* a client asked for: a value that came in pieces has another digest, and filters,
\* which of several pieces are the last, then are what was signed.
THEOREM OnlyActedAsMeant == Spec => []ActedAsMeant
<1>1. MeantInv => ActedAsMeant
  BY DEF MeantInv, MeansRequest, CallMeant, ActedAsMeant
<1>2. QED
  BY <1>1, MeantInvariance, PTL

-----------------------------------------------------------------------------
(* Which requests the process ends with                                    *)

\* Whether a request is fatal is for the option, which stays.
LEMMA FatalStays ==
  ASSUME UNCHANGED checkSign, NEW r
  PROVE  Fatal(r)' <=> Fatal(r)
<1>1. \A key : Taken(r, key)' = Taken(r, key)
  BY DEF Taken
<1>2. FatalManage(r)' <=> FatalManage(r)
  BY <1>1 DEF FatalManage
<1>3. QED
  BY <1>1, <1>2 DEF Fatal

\* What a handler goes by may be taken for the value of the parameter.
LEMMA TakenByHandler ==
  ASSUME NEW h, IsHandler(h), NEW r \in Requests, NEW data, HandlerMeans(h, r, data),
         h.kind = handlerCreator(r.uri), h.kind = "predict" \/ validate(h) = "ok",
         \A k \in DOMAIN h.params : FromRequest(r, k, h.params[k])
  PROVE  /\ \A k \in DOMAIN h.params : h.params[k] \in Taken(r, k)
         /\ h.kind \in Manages => (checkSign => SignedWhole(r))
<1>1. CASE checkSign /\ h.kind \in Manages
  <2>1. h.params = Meant(r).params /\ SignedWhole(r)
    <3>1. validate(h) = "ok"
      BY <1>1 DEF Manages
    <3>2. QED
      BY <1>1, <3>1, SignedMeans
  <2>2. QED
    BY <1>1, <2>1 DEF Taken
<1>2. CASE ~ (checkSign /\ h.kind \in Manages)
  <2>1. \A k \in DOMAIN h.params : h.params[k] \in UNION {Parts(v) : v \in Given(r, k) \ {Null}}
    BY DEF FromRequest
  <2>2. QED
    BY <1>2, <2>1 DEF Taken
<1>3. QED
  BY <1>1, <1>2

\* Of an attach the lists and the item decide.
LEMMA AttachEnds ==
  ASSUME NEW h, NEW o \in dealAttach(h)
  PROVE  /\ o.reply # "null"
         /\ o.reply = "dies" =>
              /\ h.params["prefixes"] \in Lists
              /\ \/ h.params["prefixes"] \in OddLists
                 \/ h.params["item"] \in NoObjects
                 \/ h.params["prefixes"] \in BlankLists /\ h.params["item"] \in Items
<1>1. /\ getReply("no_keys") = "no_keys" /\ getReply("create_item") = "create_item"
      /\ getReply("already_exists") = "already_exists"
  BY DEF getReply, replys
<1>2. \A w \in attach(h) :
        w.reply # "null" /\ (w.reply = "dies" => h.params["prefixes"] \in BlankLists)
  BY <1>1 DEF attach, Outcome
<1>3. \A w \in createItem(h) :
        /\ w.reply # "null"
        /\ w.reply = "dies" =>
             \/ h.params["item"] \in NoObjects
             \/ h.params["prefixes"] \in BlankLists /\ h.params["item"] \in Items
  BY <1>1, <1>2 DEF createItem, Outcome
<1>4. CASE h.params["prefixes"] \notin Lists
  <2>1. o = Outcome(getReply("no_keys"), NoCall)
    BY <1>4, ParseAssumption DEF dealAttach
  <2>2. QED
    BY <1>1, <2>1 DEF Outcome
<1>5. CASE h.params["prefixes"] \in Lists
  <2>1. h.params["prefixes"] \notin OddLists => o \in createItem(h)
    BY <1>5 DEF dealAttach
  <2>2. o \in createItem(h) \/ o = Outcome("dies", NoCall)
    BY <1>5 DEF dealAttach
  <2>3. QED
    BY <1>3, <1>5, <2>1, <2>2 DEF Outcome
<1>6. QED
  BY <1>4, <1>5

\* Of a token its numbers.
LEMMA TokenEnds ==
  ASSUME NEW h, NEW o \in dealToken(h)
  PROVE  /\ o.reply # "null"
         /\ o.reply = "dies" =>
              \E k \in {"tid", "expire"} \cap DOMAIN h.params : h.params[k] \notin Numerals
<1>1. getReply("bad_param") = "bad_param"
  BY DEF getReply, replys
<1>2. QED
  BY <1>1 DEF dealToken, Outcome

\* A handler that does not return, or has no reply, serves a fatal request.
LEMMA ProcessEnds ==
  ASSUME NEW h, IsHandler(h), NEW r \in Requests, NEW data, HandlerMeans(h, r, data),
         h.kind = handlerCreator(r.uri), NEW o \in process(h), o.reply \in {"dies", "null"},
         \A k \in DOMAIN h.params : FromRequest(r, k, h.params[k])
  PROVE  Fatal(r) /\ (o.reply = "null" => h.kind \in {"status", "detach"})
<1>1. h.kind # "no_route"
  BY DEF process, Outcome
<1>2. CASE h.kind = "predict"
  <2>1. /\ o.reply = "dies" /\ "data" \in DOMAIN h.params
        /\ h.params["data"] \in FatalQueries
    BY <1>2 DEF process, predict, rebuild, Outcome
  <2>2. h.params["data"] \in Taken(r, "data")
    BY <1>2, <2>1, TakenByHandler
  <2>3. Fatal(r)
    BY <1>2, <2>1, <2>2 DEF Fatal
  <2>4. QED
    BY <2>1, <2>3
<1>3. CASE h.kind \in Manages
  <2>1. validate(h) = "ok"
    <3> SUFFICES ASSUME validate(h) # "ok" PROVE FALSE
      OBVIOUS
    <3>1. o = Outcome(getReply(validate(h)), NoCall)
      BY <1>3 DEF process, Manages
    <3>2. validate(h) \in {"bad_param", "bad_sign"}
      BY DEF validate
    <3>3. getReply("bad_param") = "bad_param" /\ getReply("bad_sign") = "bad_sign"
      BY DEF getReply, replys
    <3>4. QED
      BY <3>1, <3>2, <3>3 DEF Outcome
  <2>2. o \in deal(h)
    BY <1>3, <2>1 DEF process, Manages
  <2>3. /\ \A k \in DOMAIN h.params : h.params[k] \in Taken(r, k)
        /\ checkSign => SignedWhole(r)
    BY <1>3, <2>1, TakenByHandler
  <2>4. CASE h.kind \in {"status", "detach"}
    BY <1>3, <2>3, <2>4 DEF Fatal, FatalManage
  <2>5. CASE h.kind = "token"
    <3>1. o \in dealToken(h)
      BY <2>2, <2>5 DEF deal
    <3>2. /\ o.reply = "dies"
          /\ \E k \in {"tid", "expire"} \cap DOMAIN h.params : h.params[k] \notin Numerals
      BY <3>1, TokenEnds
    <3>3. ~ Taken(r, "tid") \cup Taken(r, "expire") \subseteq Numerals
      BY <2>3, <3>2
    <3>4. Fatal(r)
      BY <1>3, <2>3, <2>5, <3>3 DEF Fatal, FatalManage
    <3>5. QED
      BY <3>2, <3>4
  <2>6. CASE h.kind = "attach"
    <3>1. {"prefixes", "item"} \subseteq DOMAIN h.params
      BY <2>1, <2>6 DEF validate, checkParams
    <3>2. h.params["prefixes"] \in Taken(r, "prefixes") /\ h.params["item"] \in Taken(r, "item")
      BY <2>3, <3>1
    <3>3. o \in dealAttach(h)
      BY <2>2, <2>6 DEF deal
    <3>4. /\ o.reply = "dies" /\ h.params["prefixes"] \in Lists
          /\ \/ h.params["prefixes"] \in OddLists
             \/ h.params["item"] \in NoObjects
             \/ h.params["prefixes"] \in BlankLists /\ h.params["item"] \in Items
      BY <3>3, AttachEnds
    <3>5. FatalManage(r)
      BY <2>6, <3>2, <3>4, Zenon DEF FatalManage
    <3>6. QED
      BY <1>3, <2>3, <3>4, <3>5 DEF Fatal
  <2>7. QED
    BY <1>3, <2>4, <2>5, <2>6 DEF Manages
<1>4. QED
  BY <1>1, <1>2, <1>3 DEF IsHandler, Kinds

Answerless(r) == Fatal(r) /\ handlerCreator(r.uri) \in {"status", "detach"}

Fated(c) == reply[c] = "null" => stage[c] # "idle" /\ Answerless(request[c])

\* The invariant: the requests the process would end with for want of a reply are
\* fatal already while they wait for it.
FatesOK ==
  /\ DiesOnlyOfFatalRequests
  /\ \A c \in Connections : Fated(c)

\* Only four steps end the process, and only process() leaves no reply.
LEMMA ProcessFated ==
  ASSUME MeantInv, NEW c \in Connections, Process(c), died = Null, UNCHANGED checkSign
  PROVE  /\ request[c]' = request[c] /\ Fated(c)'
         /\ died' # Null => died' = c /\ Fatal(request[c]) /\ reply'[c] # "null"
<1> USE DEF MeantInv, OwnInv, Inv
<1>1. /\ stage[c] = "upload" /\ stage'[c] = "processed" /\ request' = request
      /\ request[c] \in Requests
  BY DEF TypeOK, Process, Goto
<1>2. PICK o \in process(Handler(c)) :
        /\ reply' = [reply EXCEPT ![c] = o.reply]
        /\ died' = IF o.reply = "dies" THEN c ELSE died
  BY DEF Process
<1>3. reply'[c] = o.reply
  BY <1>2 DEF TypeOK
<1>4. /\ IsHandler(Handler(c)) /\ HandlerMeans(Handler(c), request[c], ToCome(c))
      /\ Handler(c).kind = handlerCreator(request[c].uri)
      /\ \A k \in DOMAIN Handler(c).params : FromRequest(request[c], k, Handler(c).params[k])
  BY <1>1, ServedHasHandler DEF MeansRequest, OwnRequest, Serving
<1>5. o.reply \in {"dies", "null"} =>
        /\ Fatal(request[c])
        /\ o.reply = "null" => handlerCreator(request[c].uri) \in {"status", "detach"}
  BY <1>1, <1>4, ProcessEnds
<1>6. Answerless(request[c])' <=> Answerless(request[c])
  BY <1>1, FatalStays DEF Answerless
<1>7. Fated(c)'
  <2>1. reply'[c] = "null" => Answerless(request[c])'
    BY <1>3, <1>5, <1>6 DEF Answerless
  <2>2. QED
    BY <1>1, <2>1 DEF Fated
<1>8. QED
  BY <1>1, <1>2, <1>3, <1>5, <1>7

\* The others leave the reply, or forget it with the request.
LEMMA OthersFated ==
  ASSUME Inv, NEW c \in Connections, ~ Process(c), Fated(c), UNCHANGED checkSign,
         Accept(c) \/ ServerStep(c) \/ ClientStep(c)
  PROVE  Fated(c)'
<1> USE DEF Inv
<1>1. CASE Accept(c)
  <2>1. stage[c] = "idle" /\ reply' = reply
    BY <1>1 DEF Accept
  <2>2. QED
    BY <2>1 DEF Fated
<1>2. CASE Completed(c)
  <2>1. reply'[c] = NoReply
    BY <1>2 DEF Completed, TypeOK
  <2>2. QED
    BY <2>1 DEF Fated, NoReply
<1>3. CASE \/ FirstCall(c) \/ AddGetParam(c) \/ CreatePostProcessor(c) \/ UploadRefused(c)
           \/ Respond(c) \/ Upload(c) \/ Abort(c)
  <2>1. reply' = reply /\ request' = request /\ stage[c] # "idle" /\ stage'[c] # "idle"
    BY <1>3 DEF FirstCall, AddGetParam, CreatePostProcessor, UploadRefused, Respond, Upload,
                Abort, Goto, TypeOK
  <2>2. Answerless(request[c])' <=> Answerless(request[c])
    BY <2>1, FatalStays DEF Answerless
  <2>3. QED
    BY <2>1, <2>2 DEF Fated
<1>4. QED
  BY <1>1, <1>2, <1>3 DEF ServerStep, ClientStep

LEMMA FatesKept ==
  ASSUME MeantInv, FatesOK, died = Null, NEW c \in Connections,
         Accept(c) \/ ServerStep(c) \/ ClientStep(c), UNCHANGED checkSign
  PROVE  FatesOK'
<1> USE DEF MeantInv, OwnInv, Inv
<1>1. ASSUME NEW d \in Connections PROVE Fated(d)'
  <2>1. CASE d = c
    BY <2>1, ProcessFated, OthersFated DEF FatesOK
  <2>2. CASE d # c
    <3>1. stage'[d] = stage[d] /\ request'[d] = request[d] /\ reply'[d] = reply[d]
      BY <2>2, OthersKept DEF Others
    <3>2. Answerless(request[d])' <=> Answerless(request[d])
      BY <3>1, FatalStays DEF Answerless
    <3>3. QED
      BY <3>1, <3>2 DEF FatesOK, Fated
  <2>3. QED
    BY <2>1, <2>2
<1>2. died' # Null =>
        /\ died' = c /\ request'[c] = request[c] /\ Fatal(request[c])
        /\ reply'[c] = "null" => Answerless(request[c])
  <2>1. CASE AddGetParam(c)
    <3>1. UNCHANGED <<request, reply>>
      BY <2>1 DEF AddGetParam
    <3>2. died' # died => died' = c /\ Fatal(request[c])
      BY <2>1, AddGetParamOwn DEF Fatal
    <3>3. QED
      BY <3>1, <3>2 DEF FatesOK, Fated
  <2>2. CASE Upload(c)
    <3>1. UNCHANGED <<request, reply>>
      BY <2>2 DEF Upload
    <3>2. died' # died => died' = c /\ Fatal(request[c])
      BY <2>2, UploadOwn DEF Fatal
    <3>3. QED
      BY <3>1, <3>2 DEF FatesOK, Fated
  <2>3. CASE Process(c)
    BY <2>3, ProcessFated
  <2>4. CASE Respond(c)
    <3>1. UNCHANGED <<request, reply>> /\ (died' # Null => died' = c /\ reply[c] = "null")
      BY <2>4 DEF Respond
    <3>2. QED
      BY <3>1 DEF FatesOK, Fated, Answerless
  <2>5. CASE ~ (AddGetParam(c) \/ Upload(c) \/ Process(c) \/ Respond(c))
    BY <2>5 DEF ServerStep, ClientStep, Accept, FirstCall, CreatePostProcessor,
                UploadRefused, Abort, Completed
  <2>6. QED
    BY <2>1, <2>2, <2>3, <2>4, <2>5
<1>3. DiesOnlyOfFatalRequests'
  <2> SUFFICES ASSUME died' # Null
               PROVE  /\ Fatal(request[died])'
                      /\ reply'[died'] = "null" =>
                           handlerCreator(request'[died'].uri) \in {"status", "detach"}
    BY DEF DiesOnlyOfFatalRequests
  <2>1. died' = c /\ request'[died'] = request[c]
    BY <1>2
  <2>2. Fatal(request[died])' <=> Fatal(request[c])
    BY <2>1, FatalStays
  <2>3. QED
    BY <1>2, <2>1, <2>2 DEF Answerless
<1>4. QED
  BY <1>1, <1>3 DEF FatesOK

\* The process ends with no other request than one that can end it as a whole: with
\* signatures checked, it takes one that is right.
THEOREM DeathsExplained == Spec => []DiesOnlyOfFatalRequests
<1>1. Init => FatesOK
  BY DEF Init, FatesOK, Fated, DiesOnlyOfFatalRequests, NoReply
<1>2. MeantInv /\ FatesOK /\ [Next]_vars => FatesOK'
  <2> SUFFICES ASSUME MeantInv, FatesOK, [Next]_vars PROVE FatesOK'
    OBVIOUS
  <2>1. CASE UNCHANGED vars
    <3>1. \A r : (Fatal(r)' <=> Fatal(r)) /\ (Answerless(r)' <=> Answerless(r))
      BY <2>1, FatalStays DEF vars, Answerless
    <3>2. QED
      BY <2>1, <3>1 DEF vars, FatesOK, Fated, DiesOnlyOfFatalRequests
  <2>2. CASE Next
    BY <2>2, FatesKept DEF Next
  <2>3. QED
    BY <2>1, <2>2
<1>3. FatesOK => DiesOnlyOfFatalRequests
  BY DEF FatesOK
<1>4. QED
  BY <1>1, <1>2, <1>3, MeantInvariance, PTL DEF Spec
=============================================================================
