----------------------------- MODULE TabooIndex -----------------------------
(***************************************************************************)
(* The shared index of taboo under concurrent requests: Keeper and Seeker  *)
(* over Aside's trie, farm and accessMutex.  The threads of libmicrohttpd  *)
(* attach and query, the WebSocket thread queries.  A step is what a       *)
(* thread does between two points where another thread could be scheduled  *)
(* and see a difference if the lock did not forbid it.                     *)
(***************************************************************************)
EXTENDS Trie, Farm, SharedMutex

VARIABLES
  pc,      \* where each thread is in its handler
  req,     \* the request it handles
  write,   \* locals of Keeper::attach and Keeper::update_item
  seek     \* locals of Seeker::seek and its ItemCallback

indexVars == <<da, funnelIdCursor, funnelDict, itemDict>>
vars == <<indexVars, mutexVars, pc, req, write, seek>>

Writing == {"attaching", "updating"}
Reading == {"find", "descend", "iterate", "pump", "found"}
Waiting == {"attach_lock", "find_lock", "update_lock", "seek_lock"}
Stages  == Writing \cup Reading \cup Waiting \cup {"idle", "reply"}

FirstStage(op) ==
  CASE op = "attach" -> "attach_lock"
    [] op = "update" -> "find_lock"
    [] op = "query"  -> "seek_lock"

\* pos: next string to attach; isNew: Trie::attach's result so far;
\* attached: AttachCallback::attached; id: update_item's funnel id; ok: result.
NewWrite == [pos |-> 1, isNew |-> FALSE, attached |-> FALSE, id |-> 0, ok |-> FALSE]

\* visited: strings the traversal has yielded; funnel: entries of the funnel
\* being pumped that are still ahead; recorded, iterated, items: as in the code.
NewSeek == [visited |-> {}, funnel |-> {}, recorded |-> {}, iterated |-> 0, items |-> <<>>]

Init ==
  /\ TrieInit /\ FarmInit /\ MutexInit
  /\ pc = [t \in Threads |-> "idle"]
  /\ req = [t \in Threads |-> NoRequest]
  /\ write = [t \in Threads |-> NewWrite]
  /\ seek = [t \in Threads |-> NewSeek]

Goto(t, stage) == pc' = [pc EXCEPT ![t] = stage]

-----------------------------------------------------------------------------
Receive(t) ==
  /\ pc[t] = "idle"
  /\ \E r \in RequestsOf(t) :
       /\ req' = [req EXCEPT ![t] = r]
       /\ Goto(t, FirstStage(r.op))
  /\ UNCHANGED <<indexVars, mutexVars, write, seek>>

\* The reply is sent and the handler, with its locals, is gone.
Reply(t) ==
  /\ pc[t] = "reply"
  /\ Goto(t, "idle")
  /\ req' = [req EXCEPT ![t] = NoRequest]
  /\ write' = [write EXCEPT ![t] = NewWrite]
  /\ seek' = [seek EXCEPT ![t] = NewSeek]
  /\ UNCHANGED <<indexVars, mutexVars>>

-----------------------------------------------------------------------------
(* Keeper::attach *)

\* Slip: a ReadLock where a WriteLock is needed.
AttachReadLock(t) ==
  /\ pc[t] = "attach_lock"
  /\ LockShared(t)
  /\ Goto(t, "attaching")
  /\ UNCHANGED <<indexVars, req, write, seek>>

AttachLock(t) ==
  /\ pc[t] = "attach_lock"
  /\ Lock(t)
  /\ Goto(t, "attaching")
  /\ UNCHANGED <<indexVars, req, write, seek>>

AttachKey(t) ==
  /\ pc[t] = "attaching"
  /\ write[t].pos <= Len(req[t].keys)
  /\ LET k == req[t].keys[write[t].pos]
         f == AttachedFunnel(k)
     IN  /\ TrieAttach(k)
         /\ FarmAttach(f, req[t].item, req[t].upsert)
         /\ write' = [write EXCEPT ![t] =
              [pos |-> @.pos + 1,
               isNew |-> @.isNew \/ IsSentinel(da[k]),
               attached |-> Attaches(f, req[t].item.id, req[t].upsert),
               id |-> @.id, ok |-> @.ok]]
  /\ UNCHANGED <<mutexVars, pc, req, seek>>

AttachUnlock(t) ==
  /\ pc[t] = "attaching"
  /\ write[t].pos > Len(req[t].keys)
  /\ write' = [write EXCEPT
       ![t].ok = (write[t].isNew /\ write[t].attached) \/ req[t].upsert]
  /\ Unlock(t)
  /\ Goto(t, "reply")
  /\ UNCHANGED <<indexVars, req, seek>>

-----------------------------------------------------------------------------
(* Keeper::update_item: the funnel id is read under a ReadLock and used    *)
(* under a WriteLock taken later.                                          *)

FindLock(t) ==
  /\ pc[t] = "find_lock"
  /\ LockShared(t)
  /\ Goto(t, "find")
  /\ UNCHANGED <<indexVars, req, write, seek>>

\* Slip: the ReadLock lives to the end of update_item.
FindKeepsLock(t) ==
  /\ pc[t] = "find"
  /\ write' = [write EXCEPT ![t].id = FunnelIdOf(req[t].key)]
  /\ IF FunnelIdOf(req[t].key) = 0
       THEN UnlockShared(t) /\ Goto(t, "reply")
       ELSE UNCHANGED mutexVars /\ Goto(t, "update_lock")
  /\ UNCHANGED <<indexVars, req, seek>>

Find(t) ==
  /\ pc[t] = "find"
  /\ write' = [write EXCEPT ![t].id = FunnelIdOf(req[t].key)]
  /\ UnlockShared(t)
  /\ Goto(t, IF FunnelIdOf(req[t].key) = 0 THEN "reply" ELSE "update_lock")
  /\ UNCHANGED <<indexVars, req, seek>>

UpdateLock(t) ==
  /\ pc[t] = "update_lock"
  /\ Lock(t)
  /\ Goto(t, "updating")
  /\ UNCHANGED <<indexVars, req, write, seek>>

\* farm.attach with its default upsert = true, then the WriteLock goes.
UpdateItem(t) ==
  /\ pc[t] = "updating"
  /\ FarmAttach(write[t].id, req[t].item, TRUE)
  /\ write' = [write EXCEPT ![t].ok = Attaches(write[t].id, req[t].item.id, TRUE)]
  /\ Unlock(t)
  /\ Goto(t, "reply")
  /\ UNCHANGED <<trieVars, req, seek>>

-----------------------------------------------------------------------------
(* Seeker::seek *)

\* Slip: the index is read without a lock.
SeekNoLock(t) ==
  /\ pc[t] = "seek_lock"
  /\ Goto(t, "descend")
  /\ UNCHANGED <<indexVars, mutexVars, req, write, seek>>

SeekLock(t) ==
  /\ pc[t] = "seek_lock"
  /\ LockShared(t)
  /\ Goto(t, "descend")
  /\ UNCHANGED <<indexVars, req, write, seek>>

\* Slip: <= for < in the test of max-iterations.
CallbackStopsEarly(t, k, yielded) ==
  IF MaxIterations <= seek[t].iterated + 1
    THEN /\ seek' = [seek EXCEPT ![t].iterated = @ + 1]
         /\ Goto(t, "found")
    ELSE /\ seek' = [seek EXCEPT ![t] =
              [visited |-> @.visited \cup yielded,
               funnel |-> Funnel(da[k]),
               iterated |-> @.iterated + 1,
               recorded |-> @.recorded, items |-> @.items]]
         /\ Goto(t, "pump")

\* ItemCallback::operator() on the funnel of k; yielded is {} when the
\* traversal has not reached k itself yet.
Callback(t, k, yielded) ==
  IF MaxIterations < seek[t].iterated + 1
    THEN /\ seek' = [seek EXCEPT ![t].iterated = @ + 1]
         /\ Goto(t, "found")
    ELSE /\ seek' = [seek EXCEPT ![t] =
              [visited |-> @.visited \cup yielded,
               funnel |-> Funnel(da[k]),
               iterated |-> @.iterated + 1,
               recorded |-> @.recorded, items |-> @.items]]
         /\ Goto(t, "pump")

\* Trie::traverse calls back on the prefix itself first ...
SeekExact(t) ==
  /\ pc[t] = "descend"
  /\ IF req[t].prefix \in Stored
       THEN Callback(t, req[t].prefix, {})
       ELSE Goto(t, "iterate") /\ UNCHANGED seek
  /\ UNCHANGED <<indexVars, mutexVars, req, write>>

\* ... and then on everything below it, which is the prefix once more.
SeekNext(t) ==
  /\ pc[t] = "iterate"
  /\ \E k \in NextKeys(req[t].prefix, seek[t].visited) : Callback(t, k, {k})
  /\ UNCHANGED <<indexVars, mutexVars, req, write>>

SeekEnd(t) ==
  /\ pc[t] = "iterate"
  /\ NextKeys(req[t].prefix, seek[t].visited) = {}
  /\ Goto(t, "found")
  /\ UNCHANGED <<indexVars, mutexVars, req, write, seek>>

\* Slip: recorded is not consulted.
WantedAgain(t, i) ==
  /\ Len(seek[t].items) < req[t].num
  /\ itemDict[i] # NoDoc /\ itemDict[i] \in req[t].accept

Wanted(t, i) ==
  /\ Len(seek[t].items) < req[t].num
  /\ i \notin seek[t].recorded
  /\ itemDict[i] # NoDoc /\ itemDict[i] \in req[t].accept

\* One entry of the funnel, in the order of an unordered_map.
PumpEntry(t) ==
  /\ pc[t] = "pump"
  /\ \E i \in seek[t].funnel :
       seek' = IF Wanted(t, i)
                 THEN [seek EXCEPT ![t] =
                        [funnel |-> @.funnel \ {i},
                         recorded |-> @.recorded \cup {i},
                         items |-> Append(@.items, [id |-> i, doc |-> itemDict[i]]),
                         visited |-> @.visited, iterated |-> @.iterated]]
                 ELSE [seek EXCEPT ![t].funnel = @ \ {i}]
  /\ UNCHANGED <<indexVars, mutexVars, pc, req, write>>

PumpEnd(t) ==
  /\ pc[t] = "pump"
  /\ seek[t].funnel = {}
  /\ Goto(t, IF Len(seek[t].items) < req[t].num THEN "iterate" ELSE "found")
  /\ UNCHANGED <<indexVars, mutexVars, req, write, seek>>

SeekUnlock(t) ==
  /\ pc[t] = "found"
  /\ UnlockShared(t)
  /\ Goto(t, "reply")
  /\ UNCHANGED <<indexVars, req, write, seek>>

-----------------------------------------------------------------------------
\* Keeper's WriteLock constructors when the mutex is taken.
WriterWaits(t) ==
  /\ pc[t] \in {"attach_lock", "update_lock"}
  /\ AwaitLock
  /\ UNCHANGED <<indexVars, pc, req, write, seek>>

Acquire(t) == AttachLock(t) \/ FindLock(t) \/ UpdateLock(t) \/ SeekLock(t)

Attach(t) == AttachLock(t) \/ AttachKey(t) \/ AttachUnlock(t)
Update(t) == FindLock(t) \/ Find(t) \/ UpdateLock(t) \/ UpdateItem(t)
Query(t)  == \/ SeekLock(t) \/ SeekExact(t) \/ SeekNext(t) \/ SeekEnd(t)
             \/ PumpEntry(t) \/ PumpEnd(t) \/ SeekUnlock(t)

Step(t) == Attach(t) \/ Update(t) \/ Query(t) \/ WriterWaits(t) \/ Reply(t)

Next == \E t \in Threads : Receive(t) \/ Step(t)

Spec == Init /\ [][Next]_vars

\* A handler runs on; a thread that keeps finding the mutex free gets it.
Fairness == \A t \in Threads : WF_vars(Step(t)) /\ SF_vars(Acquire(t))

FairSpec == Spec /\ Fairness

-----------------------------------------------------------------------------
(* Properties *)

\* Every local and every shared variable holds a value of its C++ type.
TypeOK ==
  /\ TrieTypeOK /\ FarmTypeOK /\ HeldAmong(Threads)
  /\ pc \in [Threads -> Stages]
  /\ req \in [Threads -> Requests \cup {NoRequest}]
  /\ write \in [Threads -> [pos : Nat \ {0}, isNew : BOOLEAN, attached : BOOLEAN,
                            id : Nat, ok : BOOLEAN]]
  /\ seek \in [Threads -> [visited : SUBSET Keys, funnel : SUBSET Ids,
                           recorded : SUBSET Ids, iterated : Nat, items : Seq(Item)]]

AttachStages == {"attach_lock", "attaching"}
UpdateStages == {"find_lock", "find", "update_lock", "updating"}
QueryStages  == {"seek_lock", "descend", "iterate", "pump", "found"}

\* A thread runs the handler of the request it has.
StageInv ==
  \A t \in Threads :
    /\ pc[t] \in AttachStages => req[t] \in AttachRequests
    /\ pc[t] \in UpdateStages => req[t] \in UpdateRequests
    /\ pc[t] \in QueryStages => req[t] \in QueryRequests

\* Keeper and Seeker are inside the index exactly while they hold
\* accessMutex, and no query runs while an attach or an update does.
LockInv ==
  /\ writers = {t \in Threads : pc[t] \in Writing}
  /\ readers = {t \in Threads : pc[t] \in Reading}
  /\ Exclusion

\* What has been attached to what.
Attached == {a \in Keys \X Ids : a[1] \in Stored /\ a[2] \in Funnel(da[a[1]])}

\* Trie and farm agree: a funnel belongs to one string, every stored string
\* has a funnel that is not empty, and no funnel is orphaned.
FunnelsOwned ==
  /\ \A k, l \in Stored : da[k] = da[l] => k = l
  /\ \A k \in Stored : da[k] \in DOMAIN funnelDict /\ funnelDict[da[k]] # {}
  /\ \A f \in DOMAIN funnelDict : \E k \in Stored : da[k] = f

\* No funnel entry lacks its document, and no document is out of reach.
ItemsReachable ==
  \A i \in Ids : itemDict[i] # NoDoc <=> \E k \in Keys : <<k, i>> \in Attached

\* Funnel ids are dense and stay below the values the trie keeps for itself.
CursorBounded ==
  /\ funnelIdCursor = Cardinality(Stored)
  /\ \A k \in Stored : da[k] \in 1 .. funnelIdCursor
  /\ funnelIdCursor < NoPath

\* The funnel id update_item read under its ReadLock is still the funnel of
\* the same string when it takes the WriteLock.
FoundFunnelStays ==
  \A t \in Threads : pc[t] \in {"update_lock", "updating"} =>
    req[t].key \in Stored /\ write[t].id = da[req[t].key]

Sound(t) ==
  LET s == seek[t].items
  IN  s # <<>> =>
        /\ Len(s) <= req[t].num
        /\ \A m, n \in DOMAIN s : s[m].id = s[n].id => m = n
        /\ \A n \in DOMAIN s :
             /\ itemDict[s[n].id] = s[n].doc /\ s[n].doc \in req[t].accept
             /\ \E k \in KeysUnder[req[t].prefix] : <<k, s[n].id>> \in Attached

\* The items a query has collected, under the lock and after its release while
\* the reply is written: distinct, accepted, still attached below the prefix
\* with the same document, and no more than asked for.
SeekSound == \A t \in Threads : Sound(t)

\* The prefix costs one callback more than the strings below it.
Twice(t) == IF req[t].prefix \in Stored THEN 1 ELSE 0

Complete(t) ==
  pc[t] = "found" /\ Len(seek[t].items) < req[t].num =>
    /\ \/ seek[t].visited = StoredUnder(req[t].prefix)
       \/ Cardinality(seek[t].visited) + Twice(t) >= MaxIterations
    /\ \A k \in seek[t].visited, i \in Ids :
         <<k, i>> \in Attached /\ itemDict[i] \in req[t].accept
           => \E n \in DOMAIN seek[t].items : seek[t].items[n].id = i

\* A traversal ends with a list that is not full only when nothing is left or
\* the max-iterations callbacks are spent, one of them on meeting an attached
\* prefix twice; and the list then holds all it should from what was visited.
SeekComplete == \A t \in Threads : Complete(t)

\* Nothing attached is ever lost and no document ever changes: what lets
\* formReply read the items after the ReadLock is gone.
AttachmentsPersist ==
  [][/\ Attached \subseteq Attached'
     /\ \A i \in Ids : itemDict[i] # NoDoc => itemDict'[i] = itemDict[i]]_vars

\* No request waits for ever (under FairSpec).
EveryRequestAnswered == \A t \in Threads : req[t] # NoRequest ~> pc[t] = "reply"

-----------------------------------------------------------------------------
(* Refinement: an attach takes effect when it gets the WriteLock, a query   *)
(* when it drops its ReadLock, an update when it has its result.            *)

\* Positions of the strings a writer has yet to attach.
Ahead(t) == IF pc[t] = "attaching" THEN write[t].pos .. Len(req[t].keys) ELSE {}

assocBar == Attached \cup
  UNION {{<<req[t].keys[n], req[t].item.id>> : n \in Ahead(t)} : t \in Threads}

docsBar == [i \in Ids |->
  LET adding == {t \in Threads : Ahead(t) # {} /\ req[t].item.id = i}
  IN  IF itemDict[i] = NoDoc /\ adding # {}
        THEN req[CHOOSE t \in adding : TRUE].item.doc
        ELSE itemDict[i]]

\* What an attach that holds the lock is going to return.
WillReturn(t) ==
  LET keys == req[t].keys
      last == keys[Len(keys)]
  IN  \/ req[t].upsert
      \/ /\ write[t].isNew \/ \E n \in Ahead(t) : keys[n] \notin Stored
         /\ IF Ahead(t) = {}
              THEN write[t].attached
              ELSE /\ <<last, req[t].item.id>> \notin Attached
                   /\ \A n \in Ahead(t) : keys[n] = last => n = Len(keys)

phaseBar == [t \in Threads |->
  CASE pc[t] = "idle" -> "idle"
    [] pc[t] \in {"attaching", "reply"} -> "done"
    [] OTHER -> "called"]

answerBar == [t \in Threads |->
  CASE pc[t] = "reply" -> [ok |-> write[t].ok, items |-> seek[t].items]
    [] pc[t] = "attaching" -> [ok |-> WillReturn(t), items |-> <<>>]
    [] OTHER -> [ok |-> FALSE, items |-> <<>>]]

Store == INSTANCE PrefixStore WITH
  assoc <- assocBar, docs <- docsBar, phase <- phaseBar, call <- req, answer <- answerBar

\* Concurrent requests on the index behave as some one-at-a-time order of
\* atomic attaches, updates and queries on a relation of strings and items.
ImplementsStore == Store!Spec

-----------------------------------------------------------------------------
(* Claims of the repository the code does not keep *)

\* AttachHandler's message for a failed attach: "all keys already exist or
\* item already exists".
AlreadyExistsMeansExists ==
  [][\A t \in Threads : AttachLock(t) /\ ~ WillReturn(t)' =>
       \/ \A n \in DOMAIN req[t].keys : req[t].keys[n] \in Stored
       \/ itemDict[req[t].item.id] # NoDoc]_vars

\* The parameter is named "upsert-item": an attach with it leaves the item it
\* was given in the index, whether or not the id was there before.
UpsertReplacesDocument ==
  \A t \in Threads :
    pc[t] = "attaching" /\ write[t].pos > Len(req[t].keys) /\ req[t].upsert
      => itemDict[req[t].item.id] = req[t].item.doc
=============================================================================
