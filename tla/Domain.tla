------------------------------- MODULE Domain -------------------------------
(***************************************************************************)
(* The values taboo works on, shared by the abstract store and by the      *)
(* modules of the implementation: item ids, documents, and the requests    *)
(* the two servers hand to the index.                                      *)
(***************************************************************************)
EXTENDS Strings

CONSTANTS
  Threads,          \* threads that run request handlers
  WsThreads,        \* those that serve the WebSocket endpoint (queries only)
  Ids,              \* values of an item's "id" field
  Docs,             \* item documents, as far as filters tell them apart
  NoDoc,            \* the null SharedItem
  NoRequest,        \* an idle thread has no request
  MaxIterations,    \* option max-iterations
  AttachRequests,   \* calls of Keeper::attach
  UpdateRequests,   \* calls of Keeper::update_item
  QueryRequests     \* calls of Seeker::seek

Item == [id : Ids, doc : Docs]

AttachRequest ==
  [op : {"attach"}, keys : Seq(Keys) \ {<<>>}, item : Item, upsert : BOOLEAN]
UpdateRequest == [op : {"update"}, key : Keys, item : Item]
QueryRequest  ==
  [op : {"query"}, prefix : Keys, num : Nat \ {0}, accept : SUBSET Docs]

Requests == AttachRequests \cup UpdateRequests \cup QueryRequests

\* Router::route(message) makes a WsPredicter whatever the message is.
RequestsOf(t) == IF t \in WsThreads THEN QueryRequests ELSE Requests

ASSUME ThreadsAssumption == WsThreads \subseteq Threads

ASSUME NoDocAssumption == NoDoc \notin Docs

ASSUME RequestsAssumption ==
  /\ AttachRequests \subseteq AttachRequest
  /\ UpdateRequests \subseteq UpdateRequest
  /\ QueryRequests \subseteq QueryRequest
  /\ NoRequest \notin Requests

ASSUME MaxIterationsAssumption == MaxIterations \in Nat \ {0}
=============================================================================
