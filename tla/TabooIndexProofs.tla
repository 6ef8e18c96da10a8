-------------------------- MODULE TabooIndexProofs --------------------------
(***************************************************************************)
(* Theorems about TabooIndex for any number of threads, strings, items and *)
(* requests.                                                               *)
(***************************************************************************)
EXTENDS TabooIndex, FiniteSetTheorems, TLAPS

\* The fields of the requests the handlers can be given.
LEMMA RequestFields ==
  /\ \A r \in AttachRequests :
       /\ r.op = "attach" /\ r.keys \in Seq(Keys) /\ r.keys # <<>>
       /\ r.item \in Item /\ r.upsert \in BOOLEAN
  /\ \A r \in UpdateRequests : r.op = "update" /\ r.key \in Keys /\ r.item \in Item
  /\ \A r \in QueryRequests :
       r.op = "query" /\ r.prefix \in Keys /\ r.num \in Nat \ {0} /\ r.accept \subseteq Docs
BY RequestsAssumption DEF AttachRequest, UpdateRequest, QueryRequest

\* No thread gets a request that is not one of Requests.
LEMMA RequestsOfThread == \A t : RequestsOf(t) \subseteq Requests
BY DEF RequestsOf, Requests

-----------------------------------------------------------------------------
(* Types and the stages of a handler. *)

TypeInv == TypeOK /\ StageInv

\* The index starts empty, with every thread idle.
LEMMA TypeInit == Init => TypeInv
<1> SUFFICES ASSUME Init PROVE TypeInv
  OBVIOUS
<1>1. TrieTypeOK
  BY SentinelAssumption DEF Init, TrieInit, TrieTypeOK
<1>2. FarmTypeOK
  BY DEF Init, FarmInit, FarmTypeOK
<1>3. HeldAmong(Threads)
  BY DEF Init, MutexInit, HeldAmong
<1>4. pc \in [Threads -> Stages] /\ req \in [Threads -> Requests \cup {NoRequest}]
  BY DEF Init, Stages
<1>5. NewWrite \in [pos : Nat \ {0}, isNew : BOOLEAN, attached : BOOLEAN, id : Nat, ok : BOOLEAN]
  BY DEF NewWrite
<1>6. NewSeek \in [visited : SUBSET Keys, funnel : SUBSET Ids,
                   recorded : SUBSET Ids, iterated : Nat, items : Seq(Item)]
  BY DEF NewSeek
<1>7. StageInv
  BY DEF Init, StageInv, AttachStages, UpdateStages, QueryStages
<1>8. QED
  BY <1>1, <1>2, <1>3, <1>4, <1>5, <1>6, <1>7 DEF Init, TypeInv, TypeOK

\* Farm::funnel answers item ids, whatever funnel id it is asked for.
LEMMA FunnelType ==
  ASSUME FarmTypeOK, NEW f PROVE Funnel(f) \subseteq Ids
BY DEF FarmTypeOK, Funnel

\* Trie::attach's work on one string keeps the trie's types.
LEMMA TrieAttachType ==
  ASSUME TrieTypeOK, NEW k \in Keys, TrieAttach(k)
  PROVE  TrieTypeOK' /\ AttachedFunnel(k) \in Nat
BY DEF TrieTypeOK, TrieAttach, AttachedFunnel, newFunnelId, trieVars

\* Farm::attach keeps the farm's types.
LEMMA FarmAttachType ==
  ASSUME FarmTypeOK, NEW f \in Nat, NEW item \in Item, NEW upsert \in BOOLEAN,
         FarmAttach(f, item, upsert)
  PROVE  FarmTypeOK'
<1>1. item.id \in Ids /\ item.doc \in Docs
  BY DEF Item
<1>2. Funnel(f) \subseteq Ids
  BY FunnelType
<1>3. DOMAIN funnelDict' = DOMAIN funnelDict \cup {f}
  BY DEF FarmAttach
<1>4. funnelDict' \in [DOMAIN funnelDict' -> SUBSET Ids]
  BY <1>1, <1>2, <1>3 DEF FarmAttach, FarmTypeOK
<1>5. itemDict' \in [Ids -> Docs \cup {NoDoc}]
  BY <1>1 DEF FarmAttach, FarmTypeOK, InsertItem
<1>6. QED
  BY <1>3, <1>4, <1>5 DEF FarmTypeOK

\* Every operation of the mutex keeps it held by threads only.
LEMMA LockShapes ==
  ASSUME NEW t \in Threads, HeldAmong(Threads)
  PROVE  /\ LockShared(t) => HeldAmong(Threads)'
         /\ UnlockShared(t) => HeldAmong(Threads)'
         /\ Lock(t) => HeldAmong(Threads)'
         /\ Unlock(t) => HeldAmong(Threads)'
         /\ AwaitLock => HeldAmong(Threads)'
BY DEF HeldAmong, LockShared, UnlockShared, Lock, Unlock, AwaitLock

\* Counting an iteration keeps the type of the query's locals.
LEMMA IteratedType ==
  ASSUME NEW T, NEW V, NEW F, NEW R, NEW I, NEW t \in T,
         NEW f \in [T -> [visited : V, funnel : F, recorded : R, iterated : Nat, items : I]]
  PROVE  [f EXCEPT ![t].iterated = @ + 1]
           \in [T -> [visited : V, funnel : F, recorded : R, iterated : Nat, items : I]]
OBVIOUS

\* No step leaves the types or the stages of a request.
LEMMA TypeStep == TypeInv /\ [Next]_vars => TypeInv'
<1> SUFFICES ASSUME TypeInv, [Next]_vars PROVE TypeInv'
  OBVIOUS
<1> USE DEF TypeInv, TypeOK
<1> DEFINE WriteType == [pos : Nat \ {0}, isNew : BOOLEAN, attached : BOOLEAN,
                         id : Nat, ok : BOOLEAN]
           SeekType == [visited : SUBSET Keys, funnel : SUBSET Ids,
                        recorded : SUBSET Ids, iterated : Nat, items : Seq(Item)]
<1>1. CASE UNCHANGED vars
  BY <1>1 DEF vars, indexVars, mutexVars, TrieTypeOK, FarmTypeOK, HeldAmong, StageInv
<1>2. ASSUME NEW t \in Threads, Receive(t) PROVE TypeInv'
  <2>1. PICK r \in RequestsOf(t) : req' = [req EXCEPT ![t] = r] /\ Goto(t, FirstStage(r.op))
    BY <1>2 DEF Receive
  <2>2. r \in Requests
    BY <2>1, RequestsOfThread
  <2>3. \/ r \in AttachRequests /\ FirstStage(r.op) = "attach_lock"
        \/ r \in UpdateRequests /\ FirstStage(r.op) = "find_lock"
        \/ r \in QueryRequests /\ FirstStage(r.op) = "seek_lock"
    BY <2>2, RequestFields DEF Requests, FirstStage
  <2>4. pc' \in [Threads -> Stages] /\ req' \in [Threads -> Requests \cup {NoRequest}]
    BY <2>1, <2>2, <2>3 DEF Goto, Stages, Waiting
  <2>5. StageInv'
    BY <2>1, <2>3 DEF Goto, StageInv, AttachStages, UpdateStages, QueryStages
  <2>6. QED
    BY <1>2, <2>4, <2>5 DEF Receive, indexVars, mutexVars, TrieTypeOK, FarmTypeOK, HeldAmong
<1>3. ASSUME NEW t \in Threads, Reply(t) PROVE TypeInv'
  <2>1. NewWrite \in WriteType /\ NewSeek \in SeekType
    BY DEF NewWrite, NewSeek
  <2>2. write' \in [Threads -> WriteType] /\ seek' \in [Threads -> SeekType]
    BY <1>3, <2>1 DEF Reply
  <2>3. pc' \in [Threads -> Stages] /\ req' \in [Threads -> Requests \cup {NoRequest}]
    BY <1>3 DEF Reply, Goto, Stages
  <2>4. StageInv'
    BY <1>3 DEF Reply, Goto, StageInv, AttachStages, UpdateStages, QueryStages
  <2>5. QED
    BY <1>3, <2>2, <2>3, <2>4 DEF Reply, indexVars, mutexVars, TrieTypeOK, FarmTypeOK, HeldAmong
<1>4. ASSUME NEW t \in Threads, AttachKey(t) PROVE TypeInv'
  <2> DEFINE k == req[t].keys[write[t].pos]
  <2>1. req[t] \in AttachRequests /\ write[t].pos \in 1 .. Len(req[t].keys)
    BY <1>4 DEF AttachKey, StageInv, AttachStages
  <2>2. k \in Keys /\ req[t].item \in Item /\ req[t].upsert \in BOOLEAN
    BY <2>1, RequestFields
  <2>3. TrieTypeOK' /\ AttachedFunnel(k) \in Nat
    BY <1>4, <2>2, TrieAttachType DEF AttachKey
  <2>4. FarmTypeOK'
    BY <1>4, <2>2, <2>3, FarmAttachType DEF AttachKey
  <2>5. Attaches(AttachedFunnel(k), req[t].item.id, req[t].upsert) \in BOOLEAN
        /\ IsSentinel(da[k]) \in BOOLEAN
    BY <2>2 DEF Attaches, IsSentinel
  <2>6. write' \in [Threads -> WriteType]
    BY <1>4, <2>5 DEF AttachKey
  <2>7. QED
    BY <1>4, <2>3, <2>4, <2>6 DEF AttachKey, mutexVars, HeldAmong, StageInv
<1>5. ASSUME NEW t \in Threads, AttachUnlock(t) PROVE TypeInv'
  <2>1. req[t].upsert \in BOOLEAN
    BY <1>5, RequestFields DEF AttachUnlock, StageInv, AttachStages
  <2>2. write' \in [Threads -> WriteType]
    BY <1>5, <2>1 DEF AttachUnlock
  <2>3. pc' \in [Threads -> Stages] /\ StageInv'
    BY <1>5 DEF AttachUnlock, Goto, Stages, StageInv, AttachStages, UpdateStages, QueryStages
  <2>4. QED
    BY <1>5, <2>2, <2>3, LockShapes DEF AttachUnlock, indexVars, TrieTypeOK, FarmTypeOK
<1>6. ASSUME NEW t \in Threads, Find(t) PROVE TypeInv'
  <2>1. FunnelIdOf(req[t].key) \in Nat
    BY <1>6, RequestFields DEF Find, FunnelIdOf, TrieTypeOK, StageInv, UpdateStages
  <2>2. write' \in [Threads -> WriteType]
    BY <1>6, <2>1 DEF Find
  <2>3. pc' \in [Threads -> Stages] /\ StageInv'
    BY <1>6 DEF Find, Goto, Stages, Waiting, StageInv, AttachStages, UpdateStages, QueryStages
  <2>4. QED
    BY <1>6, <2>2, <2>3, LockShapes DEF Find, indexVars, TrieTypeOK, FarmTypeOK
<1>7. ASSUME NEW t \in Threads, UpdateItem(t) PROVE TypeInv'
  <2>1. req[t].item \in Item
    BY <1>7, RequestFields DEF UpdateItem, StageInv, UpdateStages
  <2>2. FarmTypeOK'
    BY <1>7, <2>1, FarmAttachType DEF UpdateItem
  <2>3. write' \in [Threads -> WriteType]
    BY <1>7 DEF UpdateItem, Attaches
  <2>4. pc' \in [Threads -> Stages] /\ StageInv'
    BY <1>7 DEF UpdateItem, Goto, Stages, StageInv, AttachStages, UpdateStages, QueryStages
  <2>5. QED
    BY <1>7, <2>2, <2>3, <2>4, LockShapes DEF UpdateItem, trieVars, TrieTypeOK
<1>8. ASSUME NEW t \in Threads, Acquire(t) \/ WriterWaits(t) \/ SeekUnlock(t) PROVE TypeInv'
  <2>1. HeldAmong(Threads)'
    BY <1>8, LockShapes DEF Acquire, AttachLock, FindLock, UpdateLock, SeekLock, WriterWaits, SeekUnlock
  <2>2. pc' \in [Threads -> Stages] /\ StageInv'
    BY <1>8 DEF Acquire, AttachLock, FindLock, UpdateLock, SeekLock, WriterWaits, SeekUnlock, Goto,
      Stages, Reading, Writing, StageInv, AttachStages, UpdateStages, QueryStages
  <2>3. UNCHANGED <<indexVars, req, write, seek>>
    BY <1>8 DEF Acquire, AttachLock, FindLock, UpdateLock, SeekLock, WriterWaits, SeekUnlock
  <2>4. QED
    BY <2>1, <2>2, <2>3 DEF indexVars, TrieTypeOK, FarmTypeOK
<1>9. ASSUME NEW t \in Threads, SeekExact(t) \/ SeekNext(t) \/ SeekEnd(t) \/ PumpEnd(t) PROVE TypeInv'
  <2>1. req[t].prefix \in Keys
    BY <1>9, RequestFields DEF SeekExact, SeekNext, SeekEnd, PumpEnd, StageInv, QueryStages
  <2>2. ASSUME NEW k \in Keys, NEW yielded \in SUBSET Keys, Callback(t, k, yielded)
        PROVE  seek' \in [Threads -> SeekType]
    <3>1. Funnel(da[k]) \in SUBSET Ids
      BY FunnelType
    <3>2. seek[t] \in SeekType
      OBVIOUS
    <3>3. CASE MaxIterations < seek[t].iterated + 1
      <4>1. seek' = [seek EXCEPT ![t].iterated = @ + 1]
        BY <2>2, <3>3 DEF Callback
      <4>2. seek \in [Threads -> SeekType]
        OBVIOUS
      <4>3. QED
        BY <4>1, <4>2, IteratedType
    <3>4. CASE ~ (MaxIterations < seek[t].iterated + 1)
      <4> DEFINE next == [visited |-> seek[t].visited \cup yielded, funnel |-> Funnel(da[k]),
                          iterated |-> seek[t].iterated + 1,
                          recorded |-> seek[t].recorded, items |-> seek[t].items]
      <4>1. seek' = [seek EXCEPT ![t] = next]
        BY <2>2, <3>4 DEF Callback
      <4>2. next \in SeekType
        BY <2>2, <3>1, <3>2
      <4> HIDE DEF next
      <4>3. QED
        BY <4>1, <4>2
    <3>5. QED
      BY <3>3, <3>4
  <2>3. seek' \in [Threads -> SeekType]
    <3>1. CASE SeekExact(t)
      <4>1. CASE req[t].prefix \in Stored
        <5>1. Callback(t, req[t].prefix, {})
          BY <3>1, <4>1 DEF SeekExact
        <5>2. QED
          BY <2>1, <2>2, <5>1
      <4>2. CASE req[t].prefix \notin Stored
        BY <3>1, <4>2 DEF SeekExact
      <4>3. QED
        BY <4>1, <4>2
    <3>2. CASE SeekNext(t)
      <4>1. PICK k \in NextKeys(req[t].prefix, seek[t].visited) : Callback(t, k, {k})
        BY <3>2 DEF SeekNext
      <4>2. k \in Keys
        BY DEF NextKeys, StoredUnder, Stored
      <4>3. QED
        BY <2>2, <4>1, <4>2
    <3>3. CASE SeekEnd(t) \/ PumpEnd(t)
      BY <3>3 DEF SeekEnd, PumpEnd
    <3>4. QED
      BY <1>9, <3>1, <3>2, <3>3
  <2>4. pc' \in [Threads -> Stages] /\ StageInv'
    BY <1>9 DEF SeekExact, SeekNext, SeekEnd, PumpEnd, Callback, Goto, Stages, Reading, StageInv,
      AttachStages, UpdateStages, QueryStages
  <2>5. QED
    BY <1>9, <2>3, <2>4 DEF SeekExact, SeekNext, SeekEnd, PumpEnd, indexVars, mutexVars,
      TrieTypeOK, FarmTypeOK, HeldAmong
<1>10. ASSUME NEW t \in Threads, PumpEntry(t) PROVE TypeInv'
  <2>1. PICK i \in seek[t].funnel :
          seek' = IF Wanted(t, i)
                    THEN [seek EXCEPT ![t] =
                           [funnel |-> @.funnel \ {i},
                            recorded |-> @.recorded \cup {i},
                            items |-> Append(@.items, [id |-> i, doc |-> itemDict[i]]),
                            visited |-> @.visited, iterated |-> @.iterated]]
                    ELSE [seek EXCEPT ![t].funnel = @ \ {i}]
    BY <1>10 DEF PumpEntry
  <2>2. i \in Ids
    BY <2>1
  <2>3. Wanted(t, i) => [id |-> i, doc |-> itemDict[i]] \in Item
    BY <2>2 DEF Wanted, Item, FarmTypeOK
  <2>4. seek' \in [Threads -> SeekType]
    <3>1. CASE Wanted(t, i)
      <4> DEFINE item == [id |-> i, doc |-> itemDict[i]]
                 next == [funnel |-> seek[t].funnel \ {i}, recorded |-> seek[t].recorded \cup {i},
                          items |-> Append(seek[t].items, item),
                          visited |-> seek[t].visited, iterated |-> seek[t].iterated]
      <4>1. seek' = [seek EXCEPT ![t] = next]
        BY <2>1, <3>1
      <4>2. seek[t] \in SeekType
        OBVIOUS
      <4>3. Append(seek[t].items, item) \in Seq(Item)
        BY <2>3, <3>1, <4>2
      <4> HIDE DEF item
      <4>4. next \in SeekType
        BY <2>2, <4>2, <4>3
      <4> HIDE DEF next
      <4>5. QED
        BY <4>1, <4>4
    <3>2. CASE ~ Wanted(t, i)
      BY <2>1, <3>2
    <3>3. QED
      BY <3>1, <3>2
  <2>5. QED
    BY <1>10, <2>4 DEF PumpEntry, indexVars, mutexVars, TrieTypeOK, FarmTypeOK, HeldAmong, StageInv
<1>11. QED
  BY <1>1, <1>2, <1>3, <1>4, <1>5, <1>6, <1>7, <1>8, <1>9, <1>10
     DEF Next, Step, Attach, Update, Query, Acquire

\* Types are never left, whatever the interleaving.
THEOREM TypeCorrect == Spec => [](TypeOK /\ StageInv)
BY TypeInit, TypeStep, PTL DEF Spec, TypeInv

-----------------------------------------------------------------------------
(* Trie and farm stay consistent. *)

IndexInv == FunnelsOwned /\ ItemsReachable /\ CursorBounded

\* The empty index is consistent.
LEMMA IndexInit == Init => IndexInv
<1> SUFFICES ASSUME Init PROVE IndexInv
  OBVIOUS
<1>1. Stored = {}
  BY DEF Init, TrieInit, Stored, IsSentinel
<1>2. DOMAIN funnelDict = {} /\ Attached = {}
  BY <1>1 DEF Init, FarmInit, Attached
<1>3. FunnelsOwned
  BY <1>1, <1>2 DEF FunnelsOwned
<1>4. ItemsReachable
  BY <1>2 DEF Init, FarmInit, ItemsReachable
<1>5. CursorBounded
  <2>1. Cardinality(Stored) = 0
    BY <1>1, FS_EmptySet
  <2>2. Cardinality(Keys) \in Nat /\ NoPath \in Nat /\ Cardinality(Keys) < NoPath
    BY SentinelAssumption, FS_CardinalityType
  <2>3. funnelIdCursor = 0
    BY DEF Init, TrieInit
  <2>4. QED
    BY <1>1, <2>1, <2>2, <2>3 DEF CursorBounded
<1>6. QED
  BY <1>3, <1>4, <1>5 DEF IndexInv

\* A new string gets an id that is neither a sentinel nor in use.
LEMMA FreshFunnelId ==
  ASSUME TrieTypeOK, CursorBounded, NEW k \in Keys, k \notin Stored
  PROVE  /\ newFunnelId \in Nat /\ newFunnelId > 0
         /\ newFunnelId < NoPath /\ ~ IsSentinel(newFunnelId)
         /\ \A l \in Stored : da[l] # newFunnelId
         /\ Cardinality(Stored \cup {k}) = newFunnelId
<1>1. Stored \in SUBSET Keys /\ IsFiniteSet(Keys)
  BY SentinelAssumption DEF Stored
<1>2. IsFiniteSet(Stored) /\ Cardinality(Stored) \in Nat
  BY <1>1, FS_Subset, FS_CardinalityType
<1>3. Cardinality(Stored \cup {k}) = Cardinality(Stored) + 1
  BY <1>2, FS_AddElement
<1>4. Cardinality(Stored \cup {k}) <= Cardinality(Keys)
  BY <1>1, FS_Subset
<1>5. Cardinality(Keys) \in Nat /\ Cardinality(Keys) < NoPath /\ NoPath \in Nat /\ NoPath < NoValue
      /\ NoValue \in Nat
  BY <1>1, SentinelAssumption, FS_CardinalityType
<1>6. funnelIdCursor = Cardinality(Stored) /\ \A l \in Stored : da[l] \in 1 .. funnelIdCursor
  BY DEF CursorBounded
<1>7. newFunnelId = Cardinality(Stored) + 1
  BY <1>6 DEF newFunnelId
<1>8. newFunnelId \in Nat /\ newFunnelId > 0 /\ newFunnelId < NoPath
  BY <1>2, <1>3, <1>4, <1>5, <1>7
<1>9. QED
  BY <1>2, <1>3, <1>5, <1>6, <1>7, <1>8 DEF IsSentinel

\* One string attached to one item: the only way the index ever changes.
AttachPair(k, item, upsert) ==
  TrieAttach(k) /\ FarmAttach(AttachedFunnel(k), item, upsert)

\* What attaching one string does to the trie: ids stay dense and their own.
LEMMA AttachPairTrie ==
  ASSUME TrieTypeOK, CursorBounded, NEW k \in Keys, TrieAttach(k)
  PROVE  /\ CursorBounded'
         /\ Stored' = Stored \cup {k}
         /\ \A l \in Stored : da'[l] = da[l]
         /\ da'[k] = AttachedFunnel(k)
         /\ k \notin Stored => \A l \in Stored : da[l] # AttachedFunnel(k)
<1>1. CASE k \in Stored
  <2>1. ~ IsSentinel(da[k])
    BY <1>1 DEF Stored
  <2>2. UNCHANGED trieVars /\ AttachedFunnel(k) = da[k]
    BY <2>1 DEF TrieAttach, AttachedFunnel
  <2>3. Stored' = Stored
    BY <2>2 DEF trieVars, Stored, IsSentinel
  <2>4. QED
    BY <1>1, <2>2, <2>3 DEF trieVars, CursorBounded
<1>2. CASE k \notin Stored
  <2>1. IsSentinel(da[k])
    BY <1>2 DEF Stored
  <2>2. funnelIdCursor' = newFunnelId /\ da' = [da EXCEPT ![k] = newFunnelId]
        /\ AttachedFunnel(k) = newFunnelId
    BY <2>1 DEF TrieAttach, AttachedFunnel
  <2>3. da \in [Keys -> Nat] /\ funnelIdCursor \in Nat
    BY DEF TrieTypeOK
  <2>4. da'[k] = newFunnelId /\ \A l \in Keys : l # k => da'[l] = da[l]
    BY <2>2, <2>3
  <2>5. Stored' = Stored \cup {k}
    BY <1>2, <2>4, FreshFunnelId DEF Stored, IsSentinel
  <2>6. \A l \in Stored : da'[l] = da[l]
    BY <1>2, <2>4 DEF Stored
  <2>7. \A l \in Stored : da[l] \in 1 .. funnelIdCursor
    BY DEF CursorBounded
  <2>8. \A l \in Stored' : da'[l] \in 1 .. funnelIdCursor'
    BY <1>2, <2>2, <2>3, <2>4, <2>5, <2>6, <2>7, FreshFunnelId DEF newFunnelId
  <2>9. CursorBounded'
    BY <1>2, <2>2, <2>5, <2>8, FreshFunnelId DEF CursorBounded
  <2>10. QED
    BY <1>2, <2>2, <2>4, <2>5, <2>6, <2>9, FreshFunnelId
<1>3. QED
  BY <1>1, <1>2

\* Attaching one string to one item keeps trie and farm consistent, and adds
\* just that pair.
LEMMA AttachPairIndex ==
  ASSUME TrieTypeOK, FarmTypeOK, IndexInv,
         NEW k \in Keys, NEW item \in Item, NEW upsert \in BOOLEAN,
         AttachPair(k, item, upsert)
  PROVE  /\ IndexInv'
         /\ Attached' = Attached \cup {<<k, item.id>>}
         /\ itemDict' = IF itemDict[item.id] = NoDoc
                           THEN [itemDict EXCEPT ![item.id] = item.doc] ELSE itemDict
         /\ \A i \in Ids : itemDict[i] # NoDoc => itemDict'[i] = itemDict[i]
         /\ Stored' = Stored \cup {k}
         /\ \A l \in Stored : da'[l] = da[l]
<1> DEFINE f == AttachedFunnel(k)
<1>1. /\ CursorBounded' /\ Stored' = Stored \cup {k}
      /\ \A l \in Stored : da'[l] = da[l]
      /\ da'[k] = f
      /\ k \notin Stored => \A l \in Stored : da[l] # f
  BY AttachPairTrie DEF AttachPair, IndexInv
<1>2. item.id \in Ids /\ item.doc \in Docs /\ item.doc # NoDoc
  BY NoDocAssumption DEF Item
<1>3. funnelDict' = [g \in DOMAIN funnelDict \cup {f} |->
                       IF g = f THEN Funnel(f) \cup {item.id} ELSE funnelDict[g]]
  BY DEF AttachPair, FarmAttach
<1>4. \A l \in Stored, m \in Stored : da[l] = da[m] => l = m
  BY DEF IndexInv, FunnelsOwned
<1>5. k \in Stored => da[k] = f
  BY DEF AttachedFunnel, Stored
<1>6. \A l \in Stored : l # k => da[l] # f
  BY <1>1, <1>4, <1>5
<1>7. k \notin Stored => f \notin DOMAIN funnelDict
  BY <1>1 DEF IndexInv, FunnelsOwned
<1> HIDE DEF f
<1>8. FunnelsOwned'
  <2>1. \A l, m \in Stored' : da'[l] = da'[m] => l = m
    BY <1>1, <1>4, <1>6
  <2>2. \A l \in Stored' : da'[l] \in DOMAIN funnelDict' /\ funnelDict'[da'[l]] # {}
    BY <1>1, <1>3, <1>6 DEF IndexInv, FunnelsOwned
  <2>3. \A g \in DOMAIN funnelDict' : \E l \in Stored' : da'[l] = g
    BY <1>1, <1>3 DEF IndexInv, FunnelsOwned
  <2>4. QED
    BY <2>1, <2>2, <2>3 DEF FunnelsOwned
<1>9. \A l \in Stored : l # k => Funnel(da[l])' = Funnel(da[l])
  BY <1>1, <1>3, <1>6 DEF Funnel
<1>10. Funnel(da[k])' = IF k \in Stored THEN Funnel(da[k]) \cup {item.id} ELSE {item.id}
  BY <1>1, <1>3, <1>5, <1>7 DEF Funnel
<1>11. Attached' = Attached \cup {<<k, item.id>>}
  <2>1. ASSUME NEW l \in Keys, NEW i \in Ids
        PROVE  <<l, i>> \in Attached' <=> <<l, i>> \in Attached \/ (l = k /\ i = item.id)
    BY <1>1, <1>9, <1>10 DEF Attached
  <2>2. Attached \subseteq Keys \X Ids /\ Attached' \subseteq Keys \X Ids
    BY DEF Attached
  <2>3. QED
    BY <1>2, <2>1, <2>2
<1>12. itemDict' = IF itemDict[item.id] = NoDoc
                     THEN [itemDict EXCEPT ![item.id] = item.doc] ELSE itemDict
  <2>1. CASE Attaches(f, item.id, upsert)
    BY <2>1 DEF AttachPair, FarmAttach, InsertItem, f
  <2>2. CASE ~ Attaches(f, item.id, upsert)
    <3>1. item.id \in Funnel(f) /\ itemDict' = itemDict
      BY <2>2 DEF Attaches, AttachPair, FarmAttach, f
    <3>2. k \in Stored
      BY <1>7, <3>1 DEF Funnel
    <3>3. <<k, item.id>> \in Attached
      BY <1>2, <1>5, <3>1, <3>2 DEF Attached
    <3>4. itemDict[item.id] # NoDoc
      BY <1>2, <3>3 DEF IndexInv, ItemsReachable
    <3>5. QED
      BY <3>1, <3>4
  <2>3. QED
    BY <2>1, <2>2
<1>13. /\ \A i \in Ids : i # item.id => itemDict'[i] = itemDict[i]
       /\ itemDict'[item.id] # NoDoc
       /\ itemDict[item.id] # NoDoc => itemDict'[item.id] = itemDict[item.id]
  BY <1>2, <1>12 DEF FarmTypeOK
<1>14. ItemsReachable'
  <2>1. ASSUME NEW i \in Ids
        PROVE  itemDict'[i] # NoDoc <=> \E l \in Keys : <<l, i>> \in Attached'
    <3>1. CASE i = item.id
      BY <1>11, <1>13, <3>1
    <3>2. CASE i # item.id
      BY <1>11, <1>13, <3>2 DEF IndexInv, ItemsReachable
    <3>3. QED
      BY <3>1, <3>2
  <2>2. QED
    BY <2>1 DEF ItemsReachable
<1>15. QED
  <2>1. \A i \in Ids : itemDict[i] # NoDoc => itemDict'[i] = itemDict[i]
    BY <1>13
  <2>2. QED
    BY <1>1, <1>8, <1>11, <1>12, <1>14, <2>1 DEF IndexInv

BaseInv == TypeInv /\ IndexInv /\ FoundFunnelStays

\* AttachKey and UpdateItem are the only actions that touch trie or farm.
LEMMA IndexAction ==
  ASSUME BaseInv, [Next]_vars
  PROVE  \/ UNCHANGED indexVars
         \/ \E k \in Keys, item \in Item, upsert \in BOOLEAN : AttachPair(k, item, upsert)
<1> USE DEF BaseInv
<1>1. ASSUME NEW t \in Threads, AttachKey(t)
      PROVE  \E k \in Keys, item \in Item, upsert \in BOOLEAN : AttachPair(k, item, upsert)
  <2> DEFINE k == req[t].keys[write[t].pos]
  <2>1. req[t] \in AttachRequests /\ write[t].pos \in 1 .. Len(req[t].keys)
    BY <1>1 DEF AttachKey, TypeInv, TypeOK, StageInv, AttachStages
  <2>2. k \in Keys /\ req[t].item \in Item /\ req[t].upsert \in BOOLEAN
    BY <2>1, RequestFields
  <2>3. AttachPair(k, req[t].item, req[t].upsert)
    BY <1>1 DEF AttachKey, AttachPair
  <2>4. QED
    BY <2>2, <2>3
<1>2. ASSUME NEW t \in Threads, UpdateItem(t)
      PROVE  \E k \in Keys, item \in Item, upsert \in BOOLEAN : AttachPair(k, item, upsert)
  <2> DEFINE k == req[t].key
  <2>1. k \in Keys /\ req[t].item \in Item
    BY <1>2, RequestFields DEF UpdateItem, TypeInv, StageInv, UpdateStages
  <2>2. k \in Stored /\ write[t].id = da[k]
    BY <1>2 DEF UpdateItem, FoundFunnelStays
  <2>3. AttachPair(k, req[t].item, TRUE)
    BY <1>2, <2>2 DEF UpdateItem, AttachPair, TrieAttach, AttachedFunnel, Stored
  <2>4. QED
    BY <2>1, <2>3
<1>3. CASE UNCHANGED vars
  BY <1>3 DEF vars, indexVars
<1>4. ASSUME NEW t \in Threads, Receive(t) \/ Step(t), ~ AttachKey(t), ~ UpdateItem(t)
      PROVE  UNCHANGED indexVars
  BY <1>4 DEF Receive, Step, Attach, Update, Query, AttachLock, AttachUnlock, FindLock, Find,
    UpdateLock, SeekLock, SeekExact, SeekNext, SeekEnd, PumpEntry, PumpEnd, SeekUnlock,
    WriterWaits, Reply
<1>5. QED
  BY <1>1, <1>2, <1>3, <1>4 DEF Next

\* Every step keeps the index consistent and loses nothing of it.
LEMMA IndexGrows ==
  ASSUME BaseInv, [Next]_vars
  PROVE  /\ IndexInv'
         /\ Attached \subseteq Attached'
         /\ \A i \in Ids : itemDict[i] # NoDoc => itemDict'[i] = itemDict[i]
         /\ Stored \subseteq Stored'
         /\ \A l \in Stored : da'[l] = da[l]
<1>1. CASE UNCHANGED indexVars
  <2>1. Stored' = Stored /\ Attached' = Attached
    BY <1>1 DEF indexVars, Stored, Attached, Funnel, IsSentinel
  <2>2. IndexInv'
    BY <1>1, <2>1 DEF BaseInv, indexVars, IndexInv, FunnelsOwned, ItemsReachable, CursorBounded
  <2>3. QED
    BY <1>1, <2>1, <2>2 DEF indexVars
<1>2. ASSUME NEW k \in Keys, NEW item \in Item, NEW upsert \in BOOLEAN, AttachPair(k, item, upsert)
      PROVE  /\ IndexInv'
             /\ Attached \subseteq Attached'
             /\ \A i \in Ids : itemDict[i] # NoDoc => itemDict'[i] = itemDict[i]
             /\ Stored \subseteq Stored'
             /\ \A l \in Stored : da'[l] = da[l]
  BY <1>2, AttachPairIndex DEF BaseInv, TypeInv, TypeOK
<1>3. QED
  BY <1>1, <1>2, IndexAction

\* What update_item has found is still so after any step.
LEMMA FoundStep == BaseInv /\ [Next]_vars => FoundFunnelStays'
<1> SUFFICES ASSUME BaseInv, [Next]_vars,
                    NEW u \in Threads, pc'[u] \in {"update_lock", "updating"}
             PROVE  req'[u].key \in Stored' /\ write'[u].id = da'[req'[u].key]
  BY DEF FoundFunnelStays
<1>1. CASE pc[u] \in {"update_lock", "updating"} /\ req'[u] = req[u] /\ write'[u] = write[u]
  BY <1>1, IndexGrows DEF BaseInv, FoundFunnelStays
<1>2. CASE Find(u)
  <2>1. req' = req /\ write'[u].id = FunnelIdOf(req[u].key) /\ UNCHANGED indexVars
    BY <1>2 DEF Find, BaseInv, TypeInv, TypeOK
  <2>2. FunnelIdOf(req[u].key) # 0
    BY <1>2 DEF Find, Goto, BaseInv, TypeInv, TypeOK
  <2>3. req[u].key \in Keys
    BY <1>2, RequestFields DEF Find, BaseInv, TypeInv, StageInv, UpdateStages
  <2>4. req[u].key \in Stored /\ FunnelIdOf(req[u].key) = da[req[u].key]
    BY <2>2, <2>3 DEF FunnelIdOf, Stored
  <2>5. QED
    BY <2>1, <2>4, IndexGrows DEF indexVars
<1>3. ASSUME ~ Find(u)
      PROVE  pc[u] \in {"update_lock", "updating"} /\ req'[u] = req[u] /\ write'[u] = write[u]
  <2> USE DEF BaseInv, TypeInv, TypeOK
  <2>1. CASE UNCHANGED vars
    BY <2>1 DEF vars
  <2>2. ASSUME NEW t \in Threads, Receive(t)
        PROVE  pc[u] \in {"update_lock", "updating"} /\ req'[u] = req[u] /\ write'[u] = write[u]
    <3>1. PICK r \in RequestsOf(t) : req' = [req EXCEPT ![t] = r] /\ Goto(t, FirstStage(r.op))
      BY <2>2 DEF Receive
    <3>2. FirstStage(r.op) \in {"attach_lock", "find_lock", "seek_lock"}
      BY <3>1, RequestsOfThread, RequestFields DEF Requests, FirstStage
    <3>3. QED
      BY <2>2, <3>1, <3>2 DEF Receive, Goto
  <2>3. ASSUME NEW t \in Threads, Attach(t) \/ WriterWaits(t) \/ Reply(t)
        PROVE  pc[u] \in {"update_lock", "updating"} /\ req'[u] = req[u] /\ write'[u] = write[u]
    BY <2>3 DEF Attach, AttachLock, AttachKey, AttachUnlock, WriterWaits, Reply, Goto
  <2>4. ASSUME NEW t \in Threads, Update(t)
        PROVE  pc[u] \in {"update_lock", "updating"} /\ req'[u] = req[u] /\ write'[u] = write[u]
    BY <1>3, <2>4 DEF Update, FindLock, Find, UpdateLock, UpdateItem, Goto
  <2>5. ASSUME NEW t \in Threads, Query(t)
        PROVE  pc[u] \in {"update_lock", "updating"} /\ req'[u] = req[u] /\ write'[u] = write[u]
    BY <2>5 DEF Query, SeekLock, SeekExact, SeekNext, SeekEnd, PumpEntry, PumpEnd, SeekUnlock,
      Callback, Goto
  <2>6. QED
    BY <2>1, <2>2, <2>3, <2>4, <2>5 DEF Next, Step
<1>4. QED
  BY <1>1, <1>2, <1>3

\* Types, consistency of the index, and what updates found, hold together.
LEMMA BaseInvariant == Spec => []BaseInv
<1>1. Init => BaseInv
  BY TypeInit, IndexInit DEF BaseInv, Init, FoundFunnelStays
<1>2. BaseInv /\ [Next]_vars => BaseInv'
  BY TypeStep, IndexGrows, FoundStep DEF BaseInv
<1>3. QED
  BY <1>1, <1>2, PTL DEF Spec

\* Funnels, strings and documents belong together after any number of
\* concurrent attaches and updates, and no id ever reaches a sentinel.
THEOREM IndexConsistent ==
  Spec => [](FunnelsOwned /\ ItemsReachable /\ CursorBounded)
BY BaseInvariant, PTL DEF BaseInv, IndexInv

\* Farm::attach leaves no document out of reach and no id without its document,
\* and empties no funnel.
THEOREM ItemsStayReachable == Spec => []ItemsReachable
BY BaseInvariant, PTL DEF BaseInv, IndexInv

\* Trie::newFunnelId draws no id for a string that has one.
THEOREM CursorStaysBounded == Spec => []CursorBounded
BY BaseInvariant, PTL DEF BaseInv, IndexInv

\* The gap between the two locks of update_item is harmless.
THEOREM UpdateFindsItsFunnel == Spec => []FoundFunnelStays
BY BaseInvariant, PTL DEF BaseInv

\* No step loses an attachment or changes a document.
THEOREM NothingLost == Spec => AttachmentsPersist
<1>1. BaseInv /\ [Next]_vars =>
        [/\ Attached \subseteq Attached'
         /\ \A i \in Ids : itemDict[i] # NoDoc => itemDict'[i] = itemDict[i]]_vars
  BY IndexGrows
<1>2. QED
  BY <1>1, BaseInvariant, PTL DEF Spec, AttachmentsPersist

-----------------------------------------------------------------------------
(* accessMutex and the stages of its holders. *)

\* Every step keeps the mutex in line with the stages of the threads.
LEMMA LockStep == TypeInv /\ LockInv /\ [Next]_vars => LockInv'
<1> SUFFICES ASSUME TypeInv, LockInv, [Next]_vars PROVE LockInv'
  OBVIOUS
<1> USE DEF Writing, Reading
<1>0. pc \in [Threads -> Stages]
  BY DEF TypeInv, TypeOK
<1>1. ASSUME UNCHANGED mutexVars,
             \A u \in Threads : /\ pc'[u] \in Writing <=> pc[u] \in Writing
                                /\ pc'[u] \in Reading <=> pc[u] \in Reading
      PROVE  LockInv'
  BY <1>1 DEF LockInv, mutexVars, Exclusion, Free
<1>2. CASE UNCHANGED vars
  BY <1>1, <1>2 DEF vars
<1>3. ASSUME NEW t \in Threads, Receive(t) PROVE LockInv'
  <2>1. PICK r \in RequestsOf(t) : Goto(t, FirstStage(r.op))
    BY <1>3 DEF Receive
  <2>2. FirstStage(r.op) \in {"attach_lock", "find_lock", "seek_lock"}
    BY <2>1, RequestsOfThread, RequestFields DEF Requests, FirstStage
  <2>3. QED
    BY <1>0, <1>1, <1>3, <2>1, <2>2 DEF Receive, Goto
<1>4. ASSUME NEW t \in Threads, Reply(t) \/ AttachKey(t) PROVE LockInv'
  BY <1>0, <1>1, <1>4 DEF Reply, AttachKey, Goto
<1>5. ASSUME NEW t \in Threads, SeekExact(t) \/ SeekNext(t) \/ SeekEnd(t) \/ PumpEntry(t) \/ PumpEnd(t)
      PROVE  LockInv'
  BY <1>0, <1>1, <1>5 DEF SeekExact, SeekNext, SeekEnd, PumpEntry, PumpEnd, Callback, Goto
<1>6. ASSUME NEW t \in Threads, WriterWaits(t) PROVE LockInv'
  BY <1>6 DEF WriterWaits, AwaitLock, LockInv, Exclusion, Free
<1>7. ASSUME NEW t \in Threads, AttachLock(t) \/ UpdateLock(t) PROVE LockInv'
  <2>1. Free /\ writers' = {t} /\ readers' = {} /\ blocked' = blocked
    BY <1>7 DEF AttachLock, UpdateLock, Lock, Free
  <2>2. pc'[t] \in Writing /\ \A u \in Threads \ {t} : pc'[u] = pc[u]
    BY <1>0, <1>7 DEF AttachLock, UpdateLock, Goto
  <2>3. \A u \in Threads : pc[u] \notin Writing /\ pc[u] \notin Reading
    BY <2>1 DEF LockInv, Free
  <2>4. writers' = {u \in Threads : pc'[u] \in Writing}
    BY <2>1, <2>2, <2>3
  <2>5. readers' = {u \in Threads : pc'[u] \in Reading}
    BY <2>1, <2>2, <2>3
  <2>6. QED
    BY <2>1, <2>4, <2>5 DEF LockInv, Exclusion, Free
<1>8. ASSUME NEW t \in Threads, FindLock(t) \/ SeekLock(t) PROVE LockInv'
  <2>1. writers = {} /\ writers' = {} /\ readers' = readers \cup {t} /\ ~ blocked'
    BY <1>8 DEF FindLock, SeekLock, LockShared
  <2>2. pc'[t] \in Reading /\ pc'[t] \notin Writing /\ \A u \in Threads \ {t} : pc'[u] = pc[u]
    BY <1>0, <1>8 DEF FindLock, SeekLock, Goto
  <2>3. writers' = {u \in Threads : pc'[u] \in Writing}
    BY <2>1, <2>2 DEF LockInv
  <2>4. readers' = {u \in Threads : pc'[u] \in Reading}
    BY <2>1, <2>2 DEF LockInv
  <2>5. QED
    BY <2>1, <2>3, <2>4 DEF LockInv, Exclusion
<1>9. ASSUME NEW t \in Threads, AttachUnlock(t) \/ UpdateItem(t) PROVE LockInv'
  <2>1. writers' = writers \ {t} /\ readers' = readers /\ ~ blocked'
    BY <1>9 DEF AttachUnlock, UpdateItem, Unlock
  <2>2. pc'[t] = "reply" /\ \A u \in Threads \ {t} : pc'[u] = pc[u]
    BY <1>0, <1>9 DEF AttachUnlock, UpdateItem, Goto
  <2>3. pc[t] \in Writing /\ pc[t] \notin Reading
    BY <1>9 DEF AttachUnlock, UpdateItem
  <2>4. writers' = {u \in Threads : pc'[u] \in Writing}
    BY <2>1, <2>2 DEF LockInv
  <2>5. readers' = {u \in Threads : pc'[u] \in Reading}
    BY <2>1, <2>2, <2>3 DEF LockInv
  <2>6. QED
    BY <2>1, <2>4, <2>5 DEF LockInv, Exclusion
<1>10. ASSUME NEW t \in Threads, Find(t) \/ SeekUnlock(t) PROVE LockInv'
  <2>1. writers' = writers /\ readers' = readers \ {t} /\ (blocked' => readers' # {})
    BY <1>10 DEF Find, SeekUnlock, UnlockShared
  <2>2. pc'[t] \in {"reply", "update_lock"} /\ \A u \in Threads \ {t} : pc'[u] = pc[u]
    BY <1>0, <1>10 DEF Find, SeekUnlock, Goto
  <2>3. pc[t] \in Reading /\ pc[t] \notin Writing
    BY <1>10 DEF Find, SeekUnlock
  <2>4. writers' = {u \in Threads : pc'[u] \in Writing}
    BY <2>1, <2>2, <2>3 DEF LockInv
  <2>5. readers' = {u \in Threads : pc'[u] \in Reading}
    BY <2>1, <2>2 DEF LockInv
  <2>6. QED
    BY <2>1, <2>4, <2>5 DEF LockInv, Exclusion, Free
<1>11. QED
  BY <1>2, <1>3, <1>4, <1>5, <1>6, <1>7, <1>8, <1>9, <1>10
     DEF Next, Step, Attach, Update, Query

\* Nobody holds the mutex at the start.
LEMMA LockInit == Init => LockInv
BY DEF Init, MutexInit, LockInv, Writing, Reading, Exclusion

\* At most one thread changes the index, and none reads it meanwhile.
THEOREM IndexGuarded == Spec => []LockInv
<1>1. TypeInv /\ LockInv /\ [Next]_vars => (TypeInv /\ LockInv)'
  BY TypeStep, LockStep
<1>2. QED
  BY <1>1, TypeInit, LockInit, PTL DEF Spec

-----------------------------------------------------------------------------
(* What a query collects. *)

\* A handler that has not begun its traversal has fresh locals.
Ready(t) == pc[t] \in {"idle", "seek_lock", "descend"} => seek[t] = NewSeek

\* Entries of the funnel being pumped belong below the prefix.
Near(t) ==
  \A i \in seek[t].funnel : \E k \in KeysUnder[req[t].prefix] : <<k, i>> \in Attached

Listed(t, i) == \E n \in DOMAIN seek[t].items : seek[t].items[n].id = i

Recorded(t) == \A i \in Ids : i \in seek[t].recorded <=> Listed(t, i)

\* Whatever was visited is listed, unless the list is full or it is its turn.
Scanned(t) ==
  pc[t] \in {"iterate", "pump", "found"} =>
    /\ seek[t].visited \subseteq StoredUnder(req[t].prefix)
    /\ \A k \in seek[t].visited, i \in Ids :
         <<k, i>> \in Attached /\ itemDict[i] \in req[t].accept
           => \/ Listed(t, i)
              \/ Len(seek[t].items) >= req[t].num
              \/ pc[t] = "pump" /\ i \in seek[t].funnel

Counted(t) ==
  pc[t] \in {"iterate", "pump"} =>
    seek[t].iterated <= Cardinality(seek[t].visited) + Twice(t)

Collecting(t) ==
  /\ Ready(t) /\ Near(t) /\ Recorded(t) /\ Sound(t)
  /\ Scanned(t) /\ Counted(t) /\ Complete(t)

Inv == BaseInv /\ LockInv /\ \A t \in Threads : Collecting(t)

\* While a query holds its ReadLock the index does not change.
LEMMA IndexFrozen ==
  ASSUME BaseInv, LockInv, [Next]_vars, NEW u \in Threads, pc[u] \in Reading
  PROVE  UNCHANGED indexVars
<1>1. writers = {}
  BY DEF LockInv, Exclusion
<1>2. \A t \in Threads : pc[t] \notin Writing
  BY <1>1 DEF LockInv
<1>3. CASE UNCHANGED vars
  BY <1>3 DEF vars, indexVars
<1>4. ASSUME NEW t \in Threads, Receive(t) \/ Step(t) PROVE UNCHANGED indexVars
  BY <1>2, <1>4 DEF Receive, Step, Attach, Update, Query, AttachLock, AttachKey, AttachUnlock,
    FindLock, Find, UpdateLock, UpdateItem, SeekLock, SeekExact, SeekNext, SeekEnd, PumpEntry,
    PumpEnd, SeekUnlock, WriterWaits, Reply, Writing
<1>5. QED
  BY <1>3, <1>4 DEF Next

\* If trie and farm do not change, nor does anything read off them.
LEMMA FrozenViews ==
  ASSUME UNCHANGED indexVars
  PROVE  /\ Stored' = Stored /\ Attached' = Attached /\ itemDict' = itemDict /\ da' = da
         /\ \A p : StoredUnder(p)' = StoredUnder(p)
         /\ \A f : Funnel(f)' = Funnel(f)
BY DEF indexVars, Stored, Attached, StoredUnder, Funnel, IsSentinel

\* A step that leaves a thread's request and locals alone, and takes it to no
\* stage of a query, leaves what it has collected as good as it was.
LEMMA CollectingFrame ==
  ASSUME BaseInv, LockInv, [Next]_vars, NEW u \in Threads, Collecting(u),
         req'[u] = req[u], seek'[u] = seek[u],
         pc'[u] = pc[u] \/ pc'[u] \notin QueryStages \cup {"idle"}
  PROVE  Collecting(u)'
<1>1. /\ Attached \subseteq Attached'
      /\ \A i \in Ids : itemDict[i] # NoDoc => itemDict'[i] = itemDict[i]
  BY IndexGrows
<1>2. seek[u].items \in Seq(Item) /\ \A n \in DOMAIN seek[u].items : seek[u].items[n] \in Item
  BY DEF BaseInv, TypeInv, TypeOK
<1>3. Ready(u)'
  BY DEF Collecting, Ready, QueryStages
<1>4. Near(u)'
  BY <1>1 DEF Collecting, Near
<1>5. Recorded(u)'
  BY DEF Collecting, Recorded, Listed
<1>6. Sound(u)'
  <2>1. ASSUME NEW n \in DOMAIN seek[u].items, Sound(u)
        PROVE  itemDict'[seek[u].items[n].id] = itemDict[seek[u].items[n].id]
    <3>1. seek[u].items[n].id \in Ids /\ seek[u].items[n].doc # NoDoc
      BY <1>2, NoDocAssumption DEF Item
    <3>2. itemDict[seek[u].items[n].id] = seek[u].items[n].doc
      BY <1>2, <2>1 DEF Sound
    <3>3. QED
      BY <1>1, <3>1, <3>2
  <2>2. QED
    BY <1>1, <2>1 DEF Collecting, Sound
<1>7. CASE pc'[u] = pc[u] /\ pc[u] \in {"iterate", "pump", "found"}
  <2>1. UNCHANGED indexVars
    BY <1>7, IndexFrozen DEF Reading
  <2>2. Scanned(u)'
    BY <1>7, <2>1, FrozenViews DEF Collecting, Scanned, Listed
  <2>3. Counted(u)'
    BY <1>7, <2>1, FrozenViews DEF Collecting, Counted, Twice
  <2>4. Complete(u)'
    BY <1>7, <2>1, FrozenViews DEF Collecting, Complete, Twice
  <2>5. QED
    BY <1>3, <1>4, <1>5, <1>6, <2>2, <2>3, <2>4 DEF Collecting
<1>8. CASE pc'[u] \notin {"iterate", "pump", "found"}
  <2>1. Scanned(u)' /\ Counted(u)' /\ Complete(u)'
    BY <1>8 DEF Scanned, Counted, Complete
  <2>2. QED
    BY <1>3, <1>4, <1>5, <1>6, <2>1 DEF Collecting
<1>9. QED
  BY <1>7, <1>8 DEF QueryStages

\* A thread with fresh locals has collected nothing yet.
LEMMA CollectingFresh ==
  ASSUME NEW t, seek[t] = NewSeek, pc[t] \notin {"iterate", "pump", "found"}
  PROVE  Collecting(t)
<1>1. seek[t].items = <<>> /\ seek[t].funnel = {} /\ seek[t].recorded = {}
  BY DEF NewSeek
<1>2. Ready(t) /\ Near(t)
  BY <1>1 DEF Ready, Near
<1>3. Recorded(t)
  BY <1>1 DEF Recorded, Listed
<1>4. Sound(t)
  BY <1>1 DEF Sound
<1>5. Scanned(t) /\ Counted(t) /\ Complete(t)
  BY DEF Scanned, Counted, Complete
<1>6. QED
  BY <1>2, <1>3, <1>4, <1>5 DEF Collecting

\* The same for the state after a step.
LEMMA FreshNext ==
  ASSUME NEW t, seek'[t] = NewSeek, pc'[t] \notin {"iterate", "pump", "found"}
  PROVE  Collecting(t)'
<1>1. seek'[t].items = <<>> /\ seek'[t].funnel = {} /\ seek'[t].recorded = {}
  BY DEF NewSeek
<1>2. Ready(t)' /\ Near(t)'
  BY <1>1 DEF Ready, Near
<1>3. Recorded(t)'
  BY <1>1 DEF Recorded, Listed
<1>4. Sound(t)'
  BY <1>1 DEF Sound
<1>5. Scanned(t)' /\ Counted(t)' /\ Complete(t)'
  BY DEF Scanned, Counted, Complete
<1>6. QED
  BY <1>2, <1>3, <1>4, <1>5 DEF Collecting

\* A traversal that starts below a string nobody attached has nothing to show.
LEMMA StartsEmpty ==
  ASSUME NEW t, seek'[t] = NewSeek, pc'[t] = "iterate"
  PROVE  Collecting(t)'
<1>1. /\ seek'[t].items = <<>> /\ seek'[t].funnel = {} /\ seek'[t].recorded = {}
      /\ seek'[t].visited = {} /\ seek'[t].iterated = 0
  BY DEF NewSeek
<1>2. Ready(t)' /\ Near(t)' /\ Complete(t)'
  BY <1>1 DEF Ready, Near, Complete
<1>3. Recorded(t)'
  BY <1>1 DEF Recorded, Listed
<1>4. Sound(t)'
  BY <1>1 DEF Sound
<1>5. Scanned(t)'
  BY <1>1 DEF Scanned
<1>6. Counted(t)'
  BY <1>1, FS_EmptySet DEF Counted, Twice
<1>7. QED
  BY <1>2, <1>3, <1>4, <1>5, <1>6 DEF Collecting

\* ItemCallback::operator() on a stored string below the prefix that the
\* traversal has not yielded yet, or on the prefix ahead of the traversal.
LEMMA CallbackCollects ==
  ASSUME Inv, NEW t \in Threads, NEW k \in StoredUnder(req[t].prefix), NEW yielded,
         UNCHANGED <<indexVars, req>>, Callback(t, k, yielded),
         req[t] \in QueryRequests,
         \/ /\ pc[t] = "descend" /\ yielded = {} /\ k = req[t].prefix
         \/ pc[t] = "iterate" /\ yielded = {k} /\ k \notin seek[t].visited
  PROVE  Collecting(t)'
<1> DEFINE old == seek[t]
<1>1. /\ pc \in [Threads -> Stages] /\ Collecting(t) /\ FarmTypeOK
      /\ seek \in [Threads -> [visited : SUBSET Keys, funnel : SUBSET Ids,
                               recorded : SUBSET Ids, iterated : Nat, items : Seq(Item)]]
  BY DEF Inv, BaseInv, TypeInv, TypeOK
<1>2. k \in Stored /\ k \in KeysUnder[req[t].prefix] /\ k \in Keys
  BY DEF StoredUnder, Stored
<1>3. \A l \in Keys, i \in Ids : <<l, i>> \in Attached <=> l \in Stored /\ i \in Funnel(da[l])
  BY DEF Attached
<1>4. IsFiniteSet(old.visited) /\ Cardinality(old.visited) \in Nat
  <2>1. old.visited \in SUBSET Keys
    BY <1>1
  <2>2. QED
    BY <2>1, SentinelAssumption, FS_Subset, FS_CardinalityType
<1>5. Twice(t) \in {0, 1} /\ Twice(t)' = Twice(t)
  BY FrozenViews DEF Twice
<1>6. old.iterated <= Cardinality(old.visited) + Twice(t)
  <2>1. CASE pc[t] = "descend"
    <3>1. old.iterated = 0
      BY <1>1, <2>1 DEF Collecting, Ready, NewSeek
    <3>2. QED
      BY <1>4, <1>5, <3>1
  <2>2. CASE pc[t] = "iterate"
    BY <1>1, <2>2 DEF Collecting, Counted
  <2>3. QED
    BY <2>1, <2>2
<1>7. CASE MaxIterations < old.iterated + 1
  <2>1. seek' = [seek EXCEPT ![t].iterated = @ + 1] /\ pc' = [pc EXCEPT ![t] = "found"]
    BY <1>7 DEF Callback, Goto
  <2>2. /\ seek'[t].visited = old.visited /\ seek'[t].funnel = old.funnel
        /\ seek'[t].recorded = old.recorded /\ seek'[t].items = old.items /\ pc'[t] = "found"
    BY <1>1, <2>1
  <2>3. Ready(t)' /\ Counted(t)'
    BY <2>2 DEF Ready, Counted
  <2>4. Near(t)' /\ Recorded(t)' /\ Sound(t)'
    <3>1. Near(t)'
      BY <1>1, <2>2, FrozenViews DEF Collecting, Near
    <3>2. Recorded(t)'
      BY <1>1, <2>2 DEF Collecting, Recorded, Listed
    <3>3. Sound(t)'
      BY <1>1, <2>2, FrozenViews DEF Collecting, Sound
    <3>4. QED
      BY <3>1, <3>2, <3>3
  <2>5. Scanned(t)'
    <3>1. CASE pc[t] = "descend"
      <4>1. old.visited = {}
        BY <1>1, <3>1 DEF Collecting, Ready, NewSeek
      <4>2. QED
        BY <2>2, <4>1 DEF Scanned
    <3>2. CASE pc[t] = "iterate"
      BY <1>1, <2>2, <3>2, FrozenViews DEF Collecting, Scanned, Listed
    <3>3. QED
      BY <3>1, <3>2
  <2>6. Cardinality(seek'[t].visited) + Twice(t)' >= MaxIterations
    <3>1. old.iterated \in Nat /\ MaxIterations \in Nat
      BY <1>1, MaxIterationsAssumption
    <3>2. QED
      BY <1>4, <1>5, <1>6, <1>7, <2>2, <3>1
  <2>7. Complete(t)'
    <3>1. Len(old.items) \in Nat /\ req[t].num \in Nat
      BY <1>1, RequestFields
    <3>2. Len(seek'[t].items) < req'[t].num => ~ (Len(seek'[t].items) >= req'[t].num)
      BY <2>2, <3>1
    <3>3. QED
      BY <2>2, <2>5, <2>6, <3>2 DEF Complete, Scanned, Listed
  <2>8. QED
    BY <2>3, <2>4, <2>5, <2>7 DEF Collecting
<1>8. CASE ~ (MaxIterations < old.iterated + 1)
  <2>1. /\ seek' = [seek EXCEPT ![t] =
                     [visited |-> @.visited \cup yielded, funnel |-> Funnel(da[k]),
                      iterated |-> @.iterated + 1,
                      recorded |-> @.recorded, items |-> @.items]]
        /\ pc' = [pc EXCEPT ![t] = "pump"]
    BY <1>8 DEF Callback, Goto
  <2>2. /\ seek'[t].visited = old.visited \cup yielded /\ seek'[t].funnel = Funnel(da[k])
        /\ seek'[t].recorded = old.recorded /\ seek'[t].items = old.items
        /\ seek'[t].iterated = old.iterated + 1 /\ pc'[t] = "pump"
    BY <1>1, <2>1
  <2>3. Ready(t)' /\ Complete(t)'
    BY <2>2 DEF Ready, Complete
  <2>4. Recorded(t)' /\ Sound(t)'
    BY <1>1, <2>2, FrozenViews DEF Collecting, Recorded, Sound, Listed
  <2>5. Near(t)'
    <3>1. \A i \in Funnel(da[k]) : <<k, i>> \in Attached
      BY <1>1, <1>2, <1>3, FunnelType
    <3>2. QED
      BY <1>2, <2>2, <3>1, FrozenViews DEF Near
  <2>6. Scanned(t)'
    <3>1. CASE pc[t] = "descend"
      <4>1. seek'[t].visited = {}
        BY <1>1, <2>2, <3>1 DEF Collecting, Ready, NewSeek
      <4>2. QED
        BY <4>1 DEF Scanned
    <3>2. CASE pc[t] = "iterate"
      <4>1. seek'[t].visited = old.visited \cup {k}
        BY <2>2, <3>2
      <4>2. \A i \in Ids : <<k, i>> \in Attached => i \in seek'[t].funnel
        BY <1>2, <1>3, <2>2
      <4>3. \A l \in old.visited, i \in Ids :
              <<l, i>> \in Attached /\ itemDict[i] \in req[t].accept
                => Listed(t, i) \/ Len(old.items) >= req[t].num
        BY <1>1, <3>2 DEF Collecting, Scanned
      <4>4. old.visited \subseteq StoredUnder(req[t].prefix)
        BY <1>1, <3>2 DEF Collecting, Scanned
      <4>5. \A i : Listed(t, i)' <=> Listed(t, i)
        BY <2>2 DEF Listed
      <4>6. QED
        BY <2>2, <4>1, <4>2, <4>3, <4>4, <4>5, FrozenViews DEF Scanned
    <3>3. QED
      BY <3>1, <3>2
  <2>7. Counted(t)'
    <3>1. old.iterated \in Nat
      BY <1>1
    <3>2. CASE pc[t] = "descend"
      <4>1. old.iterated = 0 /\ seek'[t].visited = {}
        BY <1>1, <2>2, <3>2 DEF Collecting, Ready, NewSeek
      <4>2. Twice(t)' = 1
        BY <1>2, <1>5, <3>2 DEF Twice
      <4>3. QED
        BY <2>2, <4>1, <4>2, FS_EmptySet DEF Counted
    <3>3. CASE pc[t] = "iterate"
      <4>1. Cardinality(seek'[t].visited) = Cardinality(old.visited) + 1
        <5>1. Cardinality(old.visited \cup {k}) = Cardinality(old.visited) + 1
          BY <1>4, <3>3, FS_AddElement
        <5>2. QED
          BY <2>2, <3>3, <5>1
      <4>2. QED
        BY <1>4, <1>5, <1>6, <2>2, <3>1, <4>1 DEF Counted
    <3>4. QED
      BY <3>2, <3>3
  <2>8. QED
    BY <2>3, <2>4, <2>5, <2>6, <2>7 DEF Collecting
<1>9. QED
  BY <1>7, <1>8

\* One entry of a funnel is listed if it should be and forgotten otherwise.
LEMMA PumpEntryCollects ==
  ASSUME Inv, NEW t \in Threads, PumpEntry(t)
  PROVE  Collecting(t)'
<1> DEFINE old == seek[t]
<1>1. /\ pc[t] = "pump" /\ pc' = pc /\ req' = req /\ UNCHANGED indexVars
      /\ req[t] \in QueryRequests
  BY DEF PumpEntry, Inv, BaseInv, TypeInv, StageInv, QueryStages
<1>2. /\ Collecting(t) /\ FarmTypeOK
      /\ seek \in [Threads -> [visited : SUBSET Keys, funnel : SUBSET Ids,
                               recorded : SUBSET Ids, iterated : Nat, items : Seq(Item)]]
  BY DEF Inv, BaseInv, TypeInv, TypeOK
<1>3. PICK i \in old.funnel :
        seek' = IF Wanted(t, i)
                  THEN [seek EXCEPT ![t] =
                         [funnel |-> @.funnel \ {i},
                          recorded |-> @.recorded \cup {i},
                          items |-> Append(@.items, [id |-> i, doc |-> itemDict[i]]),
                          visited |-> @.visited, iterated |-> @.iterated]]
                  ELSE [seek EXCEPT ![t].funnel = @ \ {i}]
  BY DEF PumpEntry
<1>4. i \in Ids /\ old.items \in Seq(Item) /\ Len(old.items) \in Nat
  BY <1>2
<1>5. req[t].num \in Nat
  BY <1>1, RequestFields
<1>6. \A l \in old.visited, j \in Ids :
        <<l, j>> \in Attached /\ itemDict[j] \in req[t].accept
          => Listed(t, j) \/ Len(old.items) >= req[t].num \/ j \in old.funnel
  BY <1>1, <1>2 DEF Collecting, Scanned
<1>7. Ready(t)' /\ Complete(t)'
  BY <1>1 DEF Ready, Complete
<1>8. CASE ~ Wanted(t, i)
  <2>1. /\ seek'[t].visited = old.visited /\ seek'[t].funnel = old.funnel \ {i}
        /\ seek'[t].recorded = old.recorded /\ seek'[t].items = old.items
        /\ seek'[t].iterated = old.iterated
    BY <1>2, <1>3, <1>8
  <2>2. Near(t)'
    BY <1>1, <1>2, <2>1, FrozenViews DEF Collecting, Near
  <2>3. Recorded(t)'
    BY <1>2, <2>1 DEF Collecting, Recorded, Listed
  <2>4. Sound(t)'
    BY <1>1, <1>2, <2>1, FrozenViews DEF Collecting, Sound
  <2>5. Counted(t)'
    BY <1>1, <1>2, <2>1, FrozenViews DEF Collecting, Counted, Twice
  <2>6. ASSUME NEW l \in old.visited, <<l, i>> \in Attached, itemDict[i] \in req[t].accept
        PROVE  Listed(t, i) \/ Len(old.items) >= req[t].num
    <3>1. itemDict[i] # NoDoc
      <4>1. req[t].accept \subseteq Docs
        BY <1>1, RequestFields
      <4>2. QED
        BY <2>6, <4>1, NoDocAssumption
    <3>2. i \in old.recorded \/ ~ (Len(old.items) < req[t].num)
      BY <1>8, <2>6, <3>1 DEF Wanted
    <3>3. QED
      BY <1>2, <1>4, <1>5, <3>2 DEF Collecting, Recorded
  <2>7. Scanned(t)'
    <3>1. \A j : Listed(t, j)' <=> Listed(t, j)
      BY <2>1 DEF Listed
    <3>2. old.visited \subseteq StoredUnder(req[t].prefix)
      BY <1>1, <1>2 DEF Collecting, Scanned
    <3>3. QED
      BY <1>1, <1>6, <2>1, <2>6, <3>1, <3>2, FrozenViews DEF Scanned
  <2>8. QED
    BY <1>7, <2>2, <2>3, <2>4, <2>5, <2>7 DEF Collecting
<1>9. CASE Wanted(t, i)
  <2> DEFINE item == [id |-> i, doc |-> itemDict[i]]
  <2>1. /\ seek'[t].visited = old.visited /\ seek'[t].funnel = old.funnel \ {i}
        /\ seek'[t].recorded = old.recorded \cup {i} /\ seek'[t].items = Append(old.items, item)
        /\ seek'[t].iterated = old.iterated
    BY <1>2, <1>3, <1>9
  <2>2. /\ Len(old.items) < req[t].num /\ i \notin old.recorded
        /\ itemDict[i] \in req[t].accept
    BY <1>9 DEF Wanted
  <2>3. item \in Item /\ item.id = i /\ item.doc = itemDict[i]
    BY <1>2, <1>4, <1>9 DEF Wanted, Item, FarmTypeOK
  <2> HIDE DEF item
  <2>4. /\ Len(seek'[t].items) = Len(old.items) + 1
        /\ seek'[t].items[Len(old.items) + 1] = item
        /\ DOMAIN seek'[t].items = 1 .. Len(old.items) + 1
        /\ \A n \in 1 .. Len(old.items) : seek'[t].items[n] = old.items[n]
        /\ DOMAIN old.items = 1 .. Len(old.items)
    BY <1>4, <2>1, <2>3
  <2>5. \A n \in DOMAIN seek'[t].items : n \in DOMAIN old.items \/ n = Len(old.items) + 1
    BY <1>4, <2>4
  <2>6. DOMAIN old.items \subseteq DOMAIN seek'[t].items
        /\ Len(old.items) + 1 \in DOMAIN seek'[t].items
    BY <1>4, <2>4
  <2>7. Near(t)'
    BY <1>1, <1>2, <2>1, FrozenViews DEF Collecting, Near
  <2>8. \A j : Listed(t, j)' <=> Listed(t, j) \/ j = i
    BY <2>3, <2>4, <2>5, <2>6 DEF Listed
  <2>9. Recorded(t)'
    BY <1>2, <2>1, <2>8 DEF Collecting, Recorded
  <2>10. ~ Listed(t, i)
    BY <1>2, <1>4, <2>2 DEF Collecting, Recorded
  <2>11. Sound(t)'
    <3>1. \A m, n \in DOMAIN seek'[t].items :
            seek'[t].items[m].id = seek'[t].items[n].id => m = n
      <4>1. \A m, n \in DOMAIN old.items : old.items[m].id = old.items[n].id => m = n
        BY <1>2 DEF Collecting, Sound
      <4>2. \A n \in DOMAIN old.items : old.items[n].id # i
        BY <2>10 DEF Listed
      <4>3. QED
        BY <2>3, <2>4, <2>5, <4>1, <4>2
    <3>2. \A n \in DOMAIN old.items :
            /\ itemDict[old.items[n].id] = old.items[n].doc /\ old.items[n].doc \in req[t].accept
            /\ \E k \in KeysUnder[req[t].prefix] : <<k, old.items[n].id>> \in Attached
      <4>1. \A n \in DOMAIN old.items : old.items # <<>>
        OBVIOUS
      <4>2. Sound(t)
        BY <1>2 DEF Collecting
      <4>3. QED
        BY <4>1, <4>2 DEF Sound
    <3>3. \E k \in KeysUnder[req[t].prefix] : <<k, i>> \in Attached
      BY <1>2 DEF Collecting, Near
    <3>4. \A n \in DOMAIN seek'[t].items :
            /\ itemDict[seek'[t].items[n].id] = seek'[t].items[n].doc
            /\ seek'[t].items[n].doc \in req[t].accept
            /\ \E k \in KeysUnder[req[t].prefix] : <<k, seek'[t].items[n].id>> \in Attached
      BY <2>2, <2>3, <2>4, <2>5, <3>2, <3>3
    <3>5. Len(seek'[t].items) <= req[t].num
      BY <1>4, <1>5, <2>2, <2>4
    <3>6. QED
      BY <1>1, <3>1, <3>4, <3>5, FrozenViews DEF Sound
  <2>12. Counted(t)'
    BY <1>1, <1>2, <2>1, FrozenViews DEF Collecting, Counted, Twice
  <2>13. Scanned(t)'
    <3>1. old.visited \subseteq StoredUnder(req[t].prefix)
      BY <1>1, <1>2 DEF Collecting, Scanned
    <3>2. \A l \in old.visited, j \in Ids :
            <<l, j>> \in Attached /\ itemDict[j] \in req[t].accept
              => Listed(t, j)' \/ j \in seek'[t].funnel
      BY <1>4, <1>5, <1>6, <2>1, <2>2, <2>8
    <3>3. QED
      BY <1>1, <2>1, <3>1, <3>2, FrozenViews DEF Scanned
  <2>14. QED
    BY <1>7, <2>7, <2>9, <2>11, <2>12, <2>13 DEF Collecting
<1>10. QED
  BY <1>8, <1>9

\* PumpEnd and SeekEnd only move on.
LEMMA StageCollects ==
  ASSUME Inv, NEW t \in Threads, PumpEnd(t) \/ SeekEnd(t)
  PROVE  Collecting(t)'
<1>1. /\ req' = req /\ seek' = seek /\ UNCHANGED indexVars /\ req[t] \in QueryRequests
      /\ pc[t] \in {"pump", "iterate"} /\ pc'[t] \in {"iterate", "found"}
  BY DEF PumpEnd, SeekEnd, Goto, Inv, BaseInv, TypeInv, TypeOK, StageInv, QueryStages
<1>2. /\ Collecting(t)
      /\ seek[t].visited \subseteq Keys /\ seek[t].items \in Seq(Item)
  BY DEF Inv, BaseInv, TypeInv, TypeOK
<1>3. Len(seek[t].items) \in Nat /\ req[t].num \in Nat /\ req[t].prefix \in Keys
  BY <1>1, <1>2, RequestFields
<1>4. Ready(t)'
  BY <1>1 DEF Ready
<1>5. Near(t)'
  BY <1>1, <1>2, FrozenViews DEF Collecting, Near
<1>6. Recorded(t)'
  BY <1>1, <1>2 DEF Collecting, Recorded, Listed
<1>7. Sound(t)'
  BY <1>1, <1>2, FrozenViews DEF Collecting, Sound
<1>8. Counted(t)'
  BY <1>1, <1>2, FrozenViews DEF Collecting, Counted, Twice
<1>9. /\ seek[t].visited \subseteq StoredUnder(req[t].prefix)
      /\ \A k \in seek[t].visited, i \in Ids :
           <<k, i>> \in Attached /\ itemDict[i] \in req[t].accept
             => Listed(t, i) \/ Len(seek[t].items) >= req[t].num
  <2>1. CASE PumpEnd(t)
    <3>1. pc[t] = "pump" /\ seek[t].funnel = {}
      BY <2>1 DEF PumpEnd
    <3>2. QED
      BY <1>2, <3>1 DEF Collecting, Scanned
  <2>2. CASE SeekEnd(t)
    <3>1. pc[t] = "iterate"
      BY <2>2 DEF SeekEnd
    <3>2. QED
      BY <1>2, <3>1 DEF Collecting, Scanned
  <2>3. QED
    BY <2>1, <2>2
<1>10. Scanned(t)'
  BY <1>1, <1>9, FrozenViews DEF Scanned, Listed
<1>11. Complete(t)'
  <2>1. CASE PumpEnd(t)
    <3>1. pc'[t] = "found" => ~ (Len(seek[t].items) < req[t].num)
      BY <2>1 DEF PumpEnd, Goto, Inv, BaseInv, TypeInv, TypeOK
    <3>2. QED
      BY <1>1, <3>1 DEF Complete
  <2>2. CASE SeekEnd(t)
    <3>1. seek[t].visited = StoredUnder(req[t].prefix)
      <4> DEFINE rest == StoredUnder(req[t].prefix) \ seek[t].visited
      <4>1. {k \in rest : \A j \in rest : k \in KeysUnder[j] => j = k} = {}
        BY <2>2 DEF SeekEnd, NextKeys
      <4>2. rest \in SUBSET Keys
        BY DEF StoredUnder, Stored
      <4> HIDE DEF rest
      <4>3. rest = {}
        BY <4>1, <4>2, ShortestAssumption
      <4>4. QED
        BY <1>9, <4>3 DEF rest
    <3>2. Len(seek[t].items) < req[t].num => ~ (Len(seek[t].items) >= req[t].num)
      BY <1>3
    <3>3. QED
      BY <1>1, <1>9, <3>1, <3>2, FrozenViews DEF Complete, Listed
  <2>3. QED
    BY <2>1, <2>2
<1>12. QED
  BY <1>4, <1>5, <1>6, <1>7, <1>8, <1>10, <1>11 DEF Collecting

\* No step of any thread spoils what a query has collected.
LEMMA CollectingStep == Inv /\ [Next]_vars => \A u \in Threads : Collecting(u)'
<1> SUFFICES ASSUME Inv, [Next]_vars, NEW u \in Threads PROVE Collecting(u)'
  OBVIOUS
<1>1. /\ Collecting(u) /\ BaseInv /\ LockInv
      /\ pc \in [Threads -> Stages] /\ req \in [Threads -> Requests \cup {NoRequest}]
  BY DEF Inv, BaseInv, TypeInv, TypeOK
<1>2. ASSUME req'[u] = req[u], seek'[u] = seek[u],
             pc'[u] = pc[u] \/ pc'[u] \notin QueryStages \cup {"idle"}
      PROVE  Collecting(u)'
  BY <1>1, <1>2, CollectingFrame
<1>3. CASE UNCHANGED vars
  BY <1>2, <1>3 DEF vars
<1>4. ASSUME NEW t \in Threads, t # u, Receive(t) \/ Step(t)
      PROVE  Collecting(u)'
  <2> USE DEF Inv, BaseInv, TypeInv, TypeOK
  <2>1. CASE Receive(t) \/ Reply(t)
    BY <1>2, <1>4, <2>1 DEF Receive, Reply, Goto
  <2>2. CASE Attach(t) \/ Update(t) \/ WriterWaits(t)
    BY <1>2, <1>4, <2>2 DEF Attach, AttachLock, AttachKey, AttachUnlock, Update, FindLock, Find,
      UpdateLock, UpdateItem, WriterWaits, Goto
  <2>3. CASE Query(t)
    <3>1. req' = req /\ seek'[u] = seek[u] /\ pc'[u] = pc[u]
      BY <1>4, <2>3 DEF Query, SeekLock, SeekExact, SeekNext, SeekEnd, PumpEntry, PumpEnd,
        SeekUnlock, Callback, Goto
    <3>2. QED
      BY <1>2, <3>1
  <2>4. QED
    BY <1>4, <2>1, <2>2, <2>3 DEF Step
<1>5. CASE Receive(u)
  <2>1. seek'[u] = NewSeek
    BY <1>1, <1>5 DEF Receive, Collecting, Ready
  <2>2. PICK r \in RequestsOf(u) : Goto(u, FirstStage(r.op))
    BY <1>5 DEF Receive
  <2>3. FirstStage(r.op) \in {"attach_lock", "find_lock", "seek_lock"}
    BY <2>2, RequestsOfThread, RequestFields DEF Requests, FirstStage
  <2>4. pc'[u] \notin {"iterate", "pump", "found"}
    BY <1>1, <2>2, <2>3 DEF Goto
  <2>5. QED
    BY <2>1, <2>4, FreshNext
<1>6. CASE Reply(u)
  <2>1. seek'[u] = NewSeek /\ pc'[u] = "idle"
    BY <1>1, <1>6 DEF Reply, Goto, Inv, BaseInv, TypeInv, TypeOK
  <2>2. QED
    BY <2>1, FreshNext
<1>7. CASE Attach(u) \/ Update(u) \/ WriterWaits(u) \/ SeekUnlock(u)
  <2>1. req' = req /\ seek' = seek
    BY <1>7 DEF Attach, AttachLock, AttachKey, AttachUnlock, Update, FindLock, Find, UpdateLock,
      UpdateItem, WriterWaits, SeekUnlock
  <2>2. pc'[u] = pc[u] \/ pc'[u] \in AttachStages \cup UpdateStages \cup {"reply"}
    BY <1>1, <1>7 DEF Attach, AttachLock, AttachKey, AttachUnlock, Update, FindLock, Find,
      UpdateLock, UpdateItem, WriterWaits, SeekUnlock, Goto, AttachStages, UpdateStages
  <2>3. QED
    BY <1>2, <2>1, <2>2 DEF AttachStages, UpdateStages, QueryStages
<1>8. CASE SeekLock(u)
  <2>1. seek'[u] = NewSeek /\ pc'[u] = "descend"
    BY <1>1, <1>8 DEF SeekLock, Goto, Collecting, Ready
  <2>2. QED
    BY <2>1, FreshNext
<1>9. CASE SeekExact(u) \/ SeekNext(u)
  <2>1. /\ UNCHANGED <<indexVars, req>> /\ req[u] \in QueryRequests
        /\ pc[u] \in {"descend", "iterate"}
    BY <1>1, <1>9 DEF SeekExact, SeekNext, BaseInv, TypeInv, StageInv, QueryStages
  <2>2. req[u].prefix \in Keys
    BY <2>1, RequestFields
  <2>3. CASE SeekExact(u) /\ req[u].prefix \in Stored
    <3>1. req[u].prefix \in StoredUnder(req[u].prefix)
      BY <2>2, <2>3, KeysAssumption DEF StoredUnder
    <3>2. Callback(u, req[u].prefix, {}) /\ pc[u] = "descend"
      BY <2>3 DEF SeekExact
    <3>3. QED
      BY <2>1, <3>1, <3>2, CallbackCollects
  <2>4. CASE SeekExact(u) /\ req[u].prefix \notin Stored
    <3>1. seek' = seek /\ pc'[u] = "iterate" /\ pc[u] = "descend"
      BY <1>1, <2>4 DEF SeekExact, Goto
    <3>2. seek'[u] = NewSeek
      BY <1>1, <3>1 DEF Collecting, Ready
    <3>3. QED
      BY <3>1, <3>2, StartsEmpty
  <2>5. CASE SeekNext(u)
    <3>1. PICK k \in NextKeys(req[u].prefix, seek[u].visited) : Callback(u, k, {k})
      BY <2>5 DEF SeekNext
    <3>2. k \in StoredUnder(req[u].prefix) /\ k \notin seek[u].visited
      BY DEF NextKeys
    <3>3. pc[u] = "iterate"
      BY <2>5 DEF SeekNext
    <3>4. QED
      BY <2>1, <3>1, <3>2, <3>3, CallbackCollects
  <2>6. QED
    BY <1>9, <2>3, <2>4, <2>5
<1>10. CASE SeekEnd(u) \/ PumpEnd(u)
  BY <1>10, StageCollects
<1>11. CASE PumpEntry(u)
  BY <1>11, PumpEntryCollects
<1>12. QED
  BY <1>3, <1>4, <1>5, <1>6, <1>7, <1>8, <1>9, <1>10, <1>11 DEF Next, Step, Query

\* The inductive invariant holds in every behaviour.
LEMMA Invariance == Spec => []Inv
<1>1. Init => Inv
  <2>1. Init => BaseInv
    BY TypeInit, IndexInit DEF BaseInv, Init, FoundFunnelStays
  <2>2. Init => \A t \in Threads : Collecting(t)
    BY CollectingFresh DEF Init
  <2>3. QED
    BY <2>1, <2>2, LockInit DEF Inv
<1>2. Inv /\ [Next]_vars => Inv'
  <2>1. Inv /\ [Next]_vars => BaseInv'
    BY TypeStep, IndexGrows, FoundStep DEF Inv, BaseInv
  <2>2. Inv /\ [Next]_vars => LockInv'
    BY LockStep DEF Inv, BaseInv
  <2>3. QED
    BY <2>1, <2>2, CollectingStep DEF Inv
<1>3. QED
  BY <1>1, <1>2, PTL DEF Spec

\* Every item a query lists, also after its ReadLock is gone, is one the
\* client may see: accepted, attached below the prefix, not listed twice.
THEOREM QuerySound == Spec => []SeekSound
<1>1. Inv => SeekSound
  BY DEF Inv, Collecting, SeekSound
<1>2. QED
  BY <1>1, Invariance, PTL

\* A query leaves out an item it should list only when its list is full or
\* its max-iterations callbacks are spent.
THEOREM QueryComplete == Spec => []SeekComplete
<1>1. Inv => SeekComplete
  BY DEF Inv, Collecting, SeekComplete
<1>2. QED
  BY <1>1, Invariance, PTL

-----------------------------------------------------------------------------
(* TabooIndex implements PrefixStore: whatever the interleaving, the clients
   see attaches, updates and queries that take effect one at a time. *)

\* Locals that a handler has not written yet.

BeforeWriting == {"idle", "attach_lock", "find_lock", "find"} \cup QueryStages
BeforeSeeking == {"idle"} \cup AttachStages \cup UpdateStages

Fresh(t) ==
  /\ pc[t] \in BeforeWriting => write[t] = NewWrite
  /\ pc[t] \in BeforeSeeking => seek[t] = NewSeek

FreshLocals == \A t \in Threads : Fresh(t)

\* A step of t is nothing to the other threads: their stages, requests and
\* locals stay, and so does the index as long as one of them is attaching.
LEMMA OthersStay ==
  ASSUME TypeInv, LockInv, NEW t \in Threads, Receive(t) \/ Step(t),
         NEW u \in Threads, u # t
  PROVE  /\ pc'[u] = pc[u] /\ req'[u] = req[u] /\ write'[u] = write[u] /\ seek'[u] = seek[u]
         /\ pc[u] = "attaching" => UNCHANGED indexVars
<1> USE DEF TypeInv, TypeOK
<1>1. ASSUME pc[u] = "attaching" PROVE pc[t] \notin Writing
  BY <1>1 DEF LockInv, Exclusion, Writing
<1>2. CASE Receive(t) \/ Reply(t) \/ WriterWaits(t)
  BY <1>2 DEF Receive, Reply, WriterWaits, Goto
<1>3. CASE Attach(t)
  BY <1>1, <1>3 DEF Attach, AttachLock, AttachKey, AttachUnlock, Goto, Writing
<1>4. CASE Update(t)
  BY <1>1, <1>4 DEF Update, FindLock, Find, UpdateLock, UpdateItem, Goto, Writing
<1>5. CASE Query(t)
  BY <1>5 DEF Query, SeekLock, SeekExact, SeekNext, SeekEnd, PumpEntry, PumpEnd, SeekUnlock,
    Callback, Goto
<1>6. QED
  BY <1>2, <1>3, <1>4, <1>5 DEF Step

\* Every step writes only the locals of the handler it belongs to.
LEMMA FreshStep == TypeInv /\ LockInv /\ FreshLocals /\ [Next]_vars => FreshLocals'
<1> SUFFICES ASSUME TypeInv, LockInv, FreshLocals, [Next]_vars, NEW u \in Threads
             PROVE  Fresh(u)'
  BY DEF FreshLocals
<1> USE DEF BeforeWriting, BeforeSeeking, AttachStages, UpdateStages, QueryStages
<1>1. /\ pc \in [Threads -> Stages] /\ req \in [Threads -> Requests \cup {NoRequest}]
      /\ DOMAIN write = Threads /\ DOMAIN seek = Threads
      /\ Fresh(u)
  BY DEF TypeInv, TypeOK, FreshLocals
<1>2. CASE UNCHANGED vars
  BY <1>1, <1>2 DEF vars, Fresh
<1>3. ASSUME NEW t \in Threads, t # u, Receive(t) \/ Step(t) PROVE Fresh(u)'
  BY <1>1, <1>3, OthersStay DEF Fresh
<1>4. CASE Receive(u)
  <2>1. PICK r \in RequestsOf(u) : Goto(u, FirstStage(r.op))
    BY <1>4 DEF Receive
  <2>2. FirstStage(r.op) \in {"attach_lock", "find_lock", "seek_lock"}
    BY <2>1, RequestsOfThread, RequestFields DEF Requests, FirstStage
  <2>3. QED
    BY <1>1, <1>4, <2>1, <2>2 DEF Receive, Goto, Fresh
<1>5. CASE Reply(u)
  BY <1>1, <1>5 DEF Reply, Goto, Fresh
<1>6. CASE Attach(u) \/ WriterWaits(u)
  BY <1>1, <1>6 DEF Attach, AttachLock, AttachKey, AttachUnlock, WriterWaits, Goto, Fresh
<1>7. CASE Update(u)
  BY <1>1, <1>7 DEF Update, FindLock, Find, UpdateLock, UpdateItem, Goto, Fresh
<1>8. CASE Query(u)
  BY <1>1, <1>8 DEF Query, SeekLock, SeekExact, SeekNext, SeekEnd, PumpEntry, PumpEnd, SeekUnlock,
    Callback, Goto, Fresh
<1>9. QED
  BY <1>2, <1>3, <1>4, <1>5, <1>6, <1>7, <1>8 DEF Next, Step

StoreInv == Inv /\ FreshLocals

\* What the refinement rests on holds in every behaviour.
LEMMA StoreInvariance == Spec => []StoreInv
<1>1. Init => FreshLocals
  BY DEF Init, FreshLocals, Fresh
<1>2. Inv /\ FreshLocals /\ [Next]_vars => FreshLocals'
  BY FreshStep DEF Inv, BaseInv
<1>3. QED
  BY <1>1, <1>2, Invariance, PTL DEF Spec, StoreInv

-----------------------------------------------------------------------------
(* The mapped variables, where the lock says who is attaching. *)

\* With nobody attaching the store is what trie and farm hold.
LEMMA BarsIdle ==
  (\A u \in Threads : pc[u] # "attaching")
    => assocBar = Attached /\ docsBar = [i \in Ids |-> itemDict[i]]
<1> SUFFICES ASSUME \A u \in Threads : pc[u] # "attaching"
             PROVE  assocBar = Attached /\ docsBar = [i \in Ids |-> itemDict[i]]
  OBVIOUS
<1>1. \A u \in Threads : Ahead(u) = {}
  BY DEF Ahead
<1>2. assocBar = Attached
  BY <1>1 DEF assocBar
<1>3. docsBar = [i \in Ids |-> itemDict[i]]
  BY <1>1 DEF docsBar
<1>4. QED
  BY <1>2, <1>3

\* With one thread attaching its pairs still to come are there already.
LEMMA BarsAttaching ==
  \A t \in Threads :
    (\A u \in Threads : pc[u] = "attaching" => u = t)
      => /\ assocBar = Attached \cup {<<req[t].keys[n], req[t].item.id>> : n \in Ahead(t)}
         /\ docsBar = [i \in Ids |->
              IF itemDict[i] = NoDoc /\ Ahead(t) # {} /\ req[t].item.id = i
                THEN req[t].item.doc ELSE itemDict[i]]
<1> SUFFICES ASSUME NEW t \in Threads, \A u \in Threads : pc[u] = "attaching" => u = t
             PROVE  /\ assocBar = Attached \cup {<<req[t].keys[n], req[t].item.id>> : n \in Ahead(t)}
                    /\ docsBar = [i \in Ids |->
                         IF itemDict[i] = NoDoc /\ Ahead(t) # {} /\ req[t].item.id = i
                           THEN req[t].item.doc ELSE itemDict[i]]
  OBVIOUS
<1>1. \A u \in Threads : u # t => Ahead(u) = {}
  BY DEF Ahead
<1>2. UNION {{<<req[u].keys[n], req[u].item.id>> : n \in Ahead(u)} : u \in Threads}
        = {<<req[t].keys[n], req[t].item.id>> : n \in Ahead(t)}
  BY <1>1
<1>3. ASSUME NEW i \in Ids
      PROVE  docsBar[i] = IF itemDict[i] = NoDoc /\ Ahead(t) # {} /\ req[t].item.id = i
                            THEN req[t].item.doc ELSE itemDict[i]
  <2> DEFINE adding == {u \in Threads : Ahead(u) # {} /\ req[u].item.id = i}
  <2>1. docsBar[i] = IF itemDict[i] = NoDoc /\ adding # {}
                       THEN req[CHOOSE u \in adding : TRUE].item.doc ELSE itemDict[i]
    BY DEF docsBar
  <2>2. adding \subseteq {t}
    BY <1>1
  <2>3. adding # {} <=> Ahead(t) # {} /\ req[t].item.id = i
    BY <2>2
  <2> HIDE DEF adding
  <2>4. adding # {} => (CHOOSE u \in adding : TRUE) = t
    BY <2>2
  <2>5. QED
    BY <2>1, <2>3, <2>4
<1>4. docsBar = [i \in Ids |-> docsBar[i]]
  BY DEF docsBar
<1>5. QED
  BY <1>2, <1>3, <1>4 DEF assocBar

\* The same two facts about the state after a step.
LEMMA BarsIdleNext ==
  (\A u \in Threads : pc'[u] # "attaching")
    => assocBar' = Attached' /\ docsBar' = [i \in Ids |-> itemDict'[i]]
<1>1. ((\A u \in Threads : pc[u] # "attaching")
         => assocBar = Attached /\ docsBar = [i \in Ids |-> itemDict[i]])'
  BY BarsIdle, PTL
<1>2. QED
  BY <1>1

LEMMA BarsAttachingNext ==
  \A t \in Threads :
    (\A u \in Threads : pc'[u] = "attaching" => u = t)
      => /\ assocBar' = Attached' \cup {<<req'[t].keys[n], req'[t].item.id>> : n \in Ahead(t)'}
         /\ docsBar' = [i \in Ids |->
              IF itemDict'[i] = NoDoc /\ Ahead(t)' # {} /\ req'[t].item.id = i
                THEN req'[t].item.doc ELSE itemDict'[i]]
<1>1. (\A t \in Threads :
         (\A u \in Threads : pc[u] = "attaching" => u = t)
           => /\ assocBar = Attached \cup {<<req[t].keys[n], req[t].item.id>> : n \in Ahead(t)}
              /\ docsBar = [i \in Ids |->
                   IF itemDict[i] = NoDoc /\ Ahead(t) # {} /\ req[t].item.id = i
                     THEN req[t].item.doc ELSE itemDict[i]])'
  BY BarsAttaching, PTL
<1>2. QED
  BY <1>1

\* Whoever holds the mutex keeps attaches out.
LEMMA NobodyElseAttaches ==
  ASSUME LockInv, NEW t \in Threads, pc[t] \in Writing \cup Reading
  PROVE  \A u \in Threads : pc[u] = "attaching" => u = t
BY DEF LockInv, Exclusion, Writing, Reading

\* A string has been attached to something exactly when the trie stores it.
LEMMA KnownIsStored ==
  ASSUME FarmTypeOK, FunnelsOwned, assocBar = Attached, NEW k \in Keys
  PROVE  Store!Known(k) <=> k \in Stored
<1>1. ASSUME k \in Stored PROVE \E i \in Ids : <<k, i>> \in Attached
  <2>1. da[k] \in DOMAIN funnelDict /\ funnelDict[da[k]] # {}
    BY <1>1 DEF FunnelsOwned
  <2>2. Funnel(da[k]) # {}
    BY <2>1 DEF Funnel
  <2>3. PICK i \in Funnel(da[k]) : TRUE
    BY <2>2
  <2>4. i \in Ids
    BY FunnelType
  <2>5. QED
    BY <1>1, <2>3, <2>4 DEF Attached
<1>2. ASSUME NEW i \in Ids, <<k, i>> \in Attached PROVE k \in Stored
  BY <1>2 DEF Attached
<1>3. QED
  BY <1>1, <1>2 DEF Store!Known

-----------------------------------------------------------------------------
(* What a step of one thread does to the mapped variables of the others. *)

\* What a thread returns depends on its own locals, and on the index while it
\* attaches, when nobody else may change it.
LEMMA OthersMapped ==
  ASSUME TypeInv, LockInv, NEW t \in Threads, Receive(t) \/ Step(t)
  PROVE  /\ phaseBar' = [phaseBar EXCEPT ![t] = phaseBar'[t]]
         /\ answerBar' = [answerBar EXCEPT ![t] = answerBar'[t]]
         /\ \A u \in Threads \ {t} : Ahead(u)' = Ahead(u) /\ req'[u] = req[u]
<1>1. ASSUME NEW u \in Threads, u # t
      PROVE  /\ phaseBar'[u] = phaseBar[u] /\ answerBar'[u] = answerBar[u]
             /\ Ahead(u)' = Ahead(u) /\ req'[u] = req[u]
  <2>1. /\ pc'[u] = pc[u] /\ req'[u] = req[u] /\ write'[u] = write[u] /\ seek'[u] = seek[u]
        /\ pc[u] = "attaching" => UNCHANGED indexVars
    BY <1>1, OthersStay
  <2>2. Ahead(u)' = Ahead(u)
    BY <2>1 DEF Ahead
  <2>3. pc[u] = "attaching" => WillReturn(u)' = WillReturn(u)
    <3> HAVE pc[u] = "attaching"
    <3>1. Stored' = Stored /\ Attached' = Attached
      BY <2>1, FrozenViews
    <3>2. QED
      BY <2>1, <2>2, <3>1 DEF WillReturn
  <2>4. phaseBar'[u] = phaseBar[u]
    BY <2>1 DEF phaseBar
  <2>5. answerBar'[u] = answerBar[u]
    BY <2>1, <2>3, Zenon DEF answerBar
  <2>6. QED
    BY <2>1, <2>2, <2>4, <2>5
<1>2. /\ phaseBar = [u \in Threads |-> phaseBar[u]] /\ phaseBar' = [u \in Threads |-> phaseBar'[u]]
      /\ answerBar = [u \in Threads |-> answerBar[u]] /\ answerBar' = [u \in Threads |-> answerBar'[u]]
  BY DEF phaseBar, answerBar
<1>3. QED
  BY <1>1, <1>2

\* A step that leaves the index and the pairs of its attaches alone leaves the
\* relation and the documents alone.
LEMMA StoreStays ==
  ASSUME UNCHANGED indexVars,
         \A u \in Threads : Ahead(u)' = Ahead(u) /\ (Ahead(u) # {} => req'[u] = req[u])
  PROVE  assocBar' = assocBar /\ docsBar' = docsBar
<1>1. Attached' = Attached /\ itemDict' = itemDict
  BY FrozenViews
<1>2. \A u \in Threads : {<<req'[u].keys[n], req'[u].item.id>> : n \in Ahead(u)'}
                           = {<<req[u].keys[n], req[u].item.id>> : n \in Ahead(u)}
  OBVIOUS
<1>3. assocBar' = assocBar
  BY <1>1, <1>2 DEF assocBar
<1>4. ASSUME NEW i \in Ids PROVE docsBar'[i] = docsBar[i]
  <2> DEFINE adding == {u \in Threads : Ahead(u) # {} /\ req[u].item.id = i}
             still == {u \in Threads : Ahead(u)' # {} /\ req'[u].item.id = i}
  <2>1. docsBar[i] = IF itemDict[i] = NoDoc /\ adding # {}
                       THEN req[CHOOSE u \in adding : TRUE].item.doc ELSE itemDict[i]
    BY DEF docsBar
  <2>2. docsBar'[i] = IF itemDict'[i] = NoDoc /\ still # {}
                        THEN req'[CHOOSE u \in still : TRUE].item.doc ELSE itemDict'[i]
    BY DEF docsBar
  <2>3. still = adding
    OBVIOUS
  <2>4. \A u \in adding : req'[u] = req[u]
    OBVIOUS
  <2> HIDE DEF adding, still
  <2>5. adding # {} => (CHOOSE u \in adding : TRUE) \in adding
    OBVIOUS
  <2>6. QED
    BY <1>1, <2>1, <2>2, <2>3, <2>4, <2>5
<1>5. docsBar = [i \in Ids |-> docsBar[i]] /\ docsBar' = [i \in Ids |-> docsBar'[i]]
  BY DEF docsBar
<1>6. QED
  BY <1>3, <1>4, <1>5

-----------------------------------------------------------------------------
(* Each action maps to an action of the store, or to none. *)

Called == Stages \ {"idle", "attaching", "reply"}

\* Taking a lock other than for an attach, waiting, and every part of a
\* traversal are invisible to the client.
LEMMA UnseenStep ==
  ASSUME StoreInv, NEW t \in Threads, Step(t), UNCHANGED <<indexVars, req>>,
         pc[t] \in Called, pc'[t] \in Called
  PROVE  UNCHANGED Store!vars
<1> USE DEF Called, Stages, Writing, Reading, Waiting
<1>1. TypeInv /\ LockInv
  BY DEF StoreInv, Inv, BaseInv
<1>2. Ahead(t) = {} /\ Ahead(t)' = {}
  BY DEF Ahead
<1>3. /\ phaseBar' = [phaseBar EXCEPT ![t] = phaseBar'[t]]
      /\ answerBar' = [answerBar EXCEPT ![t] = answerBar'[t]]
      /\ \A u \in Threads : Ahead(u)' = Ahead(u)
  BY <1>1, <1>2, OthersMapped
<1>4. assocBar' = assocBar /\ docsBar' = docsBar
  BY <1>3, StoreStays
<1>5. phaseBar[t] = "called" /\ phaseBar'[t] = "called"
  BY DEF phaseBar
<1>6. answerBar[t] = Store!NoAnswer /\ answerBar'[t] = Store!NoAnswer
  BY DEF answerBar, Store!NoAnswer
<1>7. phaseBar = [u \in Threads |-> phaseBar[u]] /\ answerBar = [u \in Threads |-> answerBar[u]]
  BY DEF phaseBar, answerBar
<1>8. phaseBar' = phaseBar /\ answerBar' = answerBar
  BY <1>3, <1>5, <1>6, <1>7
<1>9. QED
  BY <1>4, <1>8 DEF Store!vars

\* A request comes in.
LEMMA ReceiveInvokes ==
  ASSUME StoreInv, NEW t \in Threads, Receive(t) PROVE Store!Invoke(t)
<1>1. TypeInv /\ LockInv /\ pc \in [Threads -> Stages] /\ req \in [Threads -> Requests \cup {NoRequest}]
  BY DEF StoreInv, Inv, BaseInv, TypeInv, TypeOK
<1>2. PICK r \in RequestsOf(t) : req' = [req EXCEPT ![t] = r] /\ Goto(t, FirstStage(r.op))
  BY DEF Receive
<1>3. pc[t] = "idle" /\ pc'[t] \in {"attach_lock", "find_lock", "seek_lock"}
  <2>1. FirstStage(r.op) \in {"attach_lock", "find_lock", "seek_lock"}
    BY <1>2, RequestsOfThread, RequestFields DEF Requests, FirstStage
  <2>2. QED
    BY <1>1, <1>2, <2>1 DEF Receive, Goto
<1>4. Ahead(t) = {} /\ Ahead(t)' = {}
  BY <1>3 DEF Ahead
<1>5. /\ phaseBar' = [phaseBar EXCEPT ![t] = phaseBar'[t]]
      /\ answerBar' = [answerBar EXCEPT ![t] = answerBar'[t]]
      /\ \A u \in Threads : Ahead(u)' = Ahead(u) /\ (Ahead(u) # {} => req'[u] = req[u])
  BY <1>1, <1>4, OthersMapped
<1>6. assocBar' = assocBar /\ docsBar' = docsBar
  BY <1>5, StoreStays DEF Receive
<1>7. phaseBar[t] = "idle" /\ phaseBar'[t] = "called"
  BY <1>3 DEF phaseBar
<1>8. answerBar[t] = Store!NoAnswer /\ answerBar'[t] = Store!NoAnswer
  BY <1>3 DEF answerBar, Store!NoAnswer
<1>9. answerBar' = answerBar
  <2>1. answerBar = [u \in Threads |-> answerBar[u]]
    BY DEF answerBar
  <2>2. QED
    BY <1>5, <1>8, <2>1
<1>10. r \in Store!RequestsOf(t)
  BY <1>2 DEF RequestsOf, Requests, Store!RequestsOf, Store!Requests
<1>11. QED
  BY <1>2, <1>5, <1>6, <1>7, <1>9, <1>10 DEF Store!Invoke

\* The reply is sent.
LEMMA ReplyReturns ==
  ASSUME StoreInv, NEW t \in Threads, Reply(t) PROVE Store!Return(t)
<1>1. TypeInv /\ LockInv /\ pc \in [Threads -> Stages] /\ req \in [Threads -> Requests \cup {NoRequest}]
  BY DEF StoreInv, Inv, BaseInv, TypeInv, TypeOK
<1>2. pc[t] = "reply" /\ pc'[t] = "idle"
  BY <1>1 DEF Reply, Goto
<1>3. Ahead(t) = {} /\ Ahead(t)' = {}
  BY <1>2 DEF Ahead
<1>4. /\ phaseBar' = [phaseBar EXCEPT ![t] = phaseBar'[t]]
      /\ answerBar' = [answerBar EXCEPT ![t] = answerBar'[t]]
      /\ \A u \in Threads : Ahead(u)' = Ahead(u) /\ (Ahead(u) # {} => req'[u] = req[u])
  BY <1>1, <1>3, OthersMapped DEF Step
<1>5. assocBar' = assocBar /\ docsBar' = docsBar
  BY <1>4, StoreStays DEF Reply
<1>6. phaseBar[t] = "done" /\ phaseBar'[t] = "idle"
  BY <1>2 DEF phaseBar
<1>7. answerBar'[t] = Store!NoAnswer
  BY <1>2 DEF answerBar, Store!NoAnswer
<1>8. req' = [req EXCEPT ![t] = NoRequest]
  BY DEF Reply
<1>9. QED
  BY <1>4, <1>5, <1>6, <1>7, <1>8 DEF Store!Return

\* The WriteLock of an attach is where it takes effect, for all its strings.
LEMMA AttachLockAttaches ==
  ASSUME StoreInv, NEW t \in Threads, AttachLock(t) PROVE Store!Attach(t)
<1> DEFINE keys == req[t].keys
           id == req[t].item.id
<1>1. /\ TypeInv /\ LockInv /\ pc \in [Threads -> Stages] /\ FarmTypeOK /\ FunnelsOwned
      /\ pc[t] = "attach_lock" /\ pc' = [pc EXCEPT ![t] = "attaching"]
      /\ UNCHANGED <<indexVars, req, write, seek>>
  BY DEF StoreInv, Inv, BaseInv, IndexInv, TypeInv, TypeOK, AttachLock, Goto
<1>2. pc'[t] = "attaching"
  BY <1>1
<1>3. /\ req[t].op = "attach" /\ keys \in Seq(Keys) /\ keys # <<>> /\ id \in Ids
      /\ req[t].upsert \in BOOLEAN
  BY <1>1, RequestFields DEF TypeInv, StageInv, AttachStages, Item
<1>4. Len(keys) \in Nat \ {0} /\ DOMAIN keys = 1 .. Len(keys)
  BY <1>3
<1>5. write[t] = NewWrite /\ seek[t] = NewSeek
  BY <1>1 DEF StoreInv, FreshLocals, Fresh, BeforeWriting, BeforeSeeking, AttachStages
<1>6. Ahead(t)' = 1 .. Len(keys) /\ Ahead(t)' # {}
  <2>1. Ahead(t)' = write'[t].pos .. Len(req'[t].keys)
    BY <1>2 DEF Ahead
  <2>2. write'[t].pos = 1
    BY <1>1, <1>5 DEF NewWrite
  <2>3. Ahead(t)' = 1 .. Len(keys)
    BY <1>1, <2>1, <2>2
  <2> HIDE DEF keys
  <2>4. 1 \in 1 .. Len(keys)
    BY <1>4
  <2>5. QED
    BY <2>3, <2>4
<1>7. \A u \in Threads : pc[u] # "attaching"
  BY DEF AttachLock, Lock, Free, StoreInv, Inv, LockInv, Writing
<1>8. \A u \in Threads : pc'[u] = "attaching" => u = t
  BY <1>1, <1>7
<1>9. assocBar = Attached /\ docsBar = [i \in Ids |-> itemDict[i]]
  BY <1>7, BarsIdle
<1>10. Stored' = Stored /\ Attached' = Attached /\ itemDict' = itemDict
  BY <1>1, FrozenViews
<1>11. assocBar' = assocBar \cup {<<k, id>> : k \in Store!ToSet(keys)}
  <2>1. assocBar' = Attached \cup {<<keys[n], id>> : n \in 1 .. Len(keys)}
    BY <1>1, <1>6, <1>8, <1>10, BarsAttachingNext
  <2>2. {<<keys[n], id>> : n \in 1 .. Len(keys)} = {<<k, id>> : k \in Store!ToSet(keys)}
    BY <1>4 DEF Store!ToSet
  <2>3. QED
    BY <1>9, <2>1, <2>2
<1>12. Store!AddItem(req[t].item)
  <2>1. docsBar' = [i \in Ids |-> IF itemDict[i] = NoDoc /\ id = i
                                     THEN req[t].item.doc ELSE itemDict[i]]
    BY <1>1, <1>6, <1>8, <1>10, BarsAttachingNext
  <2>2. QED
    BY <1>3, <1>9, <2>1 DEF Store!AddItem
<1>13. WillReturn(t)' <=> Store!AttachOk(keys, id, req[t].upsert)
  <2>1. \A n \in 1 .. Len(keys) : Store!Known(keys[n]) <=> keys[n] \in Stored
    BY <1>1, <1>3, <1>4, <1>9, KnownIsStored
  <2>2. Store!Last(keys) = keys[Len(keys)]
    BY DEF Store!Last
  <2>3. Store!ToSet(Store!Front(keys)) = {keys[n] : n \in 1 .. Len(keys) - 1}
    <3> HIDE DEF keys
    <3>1. Store!Front(keys) = [n \in 1 .. Len(keys) - 1 |-> keys[n]]
      BY <1>3, <1>4 DEF Store!Front
    <3>2. QED
      BY <3>1 DEF Store!ToSet
  <2>4. keys[Len(keys)] \notin {keys[n] : n \in 1 .. Len(keys) - 1}
          <=> \A n \in 1 .. Len(keys) : keys[n] = keys[Len(keys)] => n = Len(keys)
    BY <1>4
  <2>5. WillReturn(t)' <=>
          \/ req[t].upsert
          \/ /\ \E n \in 1 .. Len(keys) : keys[n] \notin Stored
             /\ <<keys[Len(keys)], id>> \notin Attached
             /\ \A n \in 1 .. Len(keys) : keys[n] = keys[Len(keys)] => n = Len(keys)
    BY <1>1, <1>5, <1>6, <1>10 DEF WillReturn, NewWrite
  <2> HIDE DEF keys, id
  <2>6. QED
    BY <1>9, <2>1, <2>2, <2>3, <2>4, <2>5 DEF Store!AttachOk
<1>14. answerBar'[t] = [ok |-> Store!AttachOk(keys, id, req[t].upsert), items |-> <<>>]
  <2>1. answerBar'[t] = [ok |-> WillReturn(t)', items |-> <<>>]
    BY <1>2 DEF answerBar
  <2>2. WillReturn(t)' \in BOOLEAN /\ Store!AttachOk(keys, id, req[t].upsert) \in BOOLEAN
    BY <1>1, <1>3 DEF WillReturn, Store!AttachOk
  <2>3. QED
    BY <1>13, <2>1, <2>2
<1>15. phaseBar[t] = "called" /\ phaseBar'[t] = "done"
  BY <1>1, <1>2 DEF phaseBar
<1>16. /\ phaseBar' = [phaseBar EXCEPT ![t] = phaseBar'[t]]
       /\ answerBar' = [answerBar EXCEPT ![t] = answerBar'[t]]
  BY <1>1, OthersMapped DEF Step, Attach
<1>17. QED
  BY <1>1, <1>3, <1>11, <1>12, <1>14, <1>15, <1>16 DEF Store!Attach, Store!Finish

\* The answer of an attach is settled when it begins: attaching the strings one
\* by one, it finds what it would have found by looking at all of them at once.
LEMMA AnswerSettled ==
  ASSUME StoreInv, NEW t \in Threads, AttachKey(t)
  PROVE  WillReturn(t)' <=> WillReturn(t)
<1> DEFINE keys == req[t].keys
           id == req[t].item.id
           upsert == req[t].upsert
           pos == write[t].pos
           k == keys[pos]
           f == AttachedFunnel(k)
<1>1. /\ pc[t] = "attaching" /\ pc' = pc /\ req' = req /\ pos <= Len(keys)
      /\ write \in [Threads -> [pos : Nat \ {0}, isNew : BOOLEAN, attached : BOOLEAN,
                                id : Nat, ok : BOOLEAN]]
      /\ TrieTypeOK /\ FarmTypeOK /\ IndexInv
  BY DEF AttachKey, StoreInv, Inv, BaseInv, TypeInv, TypeOK
<1>2. keys \in Seq(Keys) /\ req[t].item \in Item /\ id \in Ids /\ upsert \in BOOLEAN
  BY <1>1, RequestFields DEF StoreInv, Inv, BaseInv, TypeInv, StageInv, AttachStages, Item
<1>3. Len(keys) \in Nat /\ pos \in 1 .. Len(keys) /\ \A n \in 1 .. Len(keys) : keys[n] \in Keys
  BY <1>1, <1>2
<1>4. AttachPair(k, req[t].item, upsert)
  BY DEF AttachKey, AttachPair
<1>5. Stored' = Stored \cup {k} /\ Attached' = Attached \cup {<<k, id>>}
  BY <1>1, <1>2, <1>3, <1>4, AttachPairIndex
<1>6. /\ write'[t].pos = pos + 1
      /\ write'[t].isNew = (write[t].isNew \/ k \notin Stored)
      /\ write'[t].attached = (id \notin Funnel(f) \/ upsert)
  BY <1>1, <1>3 DEF AttachKey, Attaches, Stored
<1>7. Ahead(t) = pos .. Len(keys) /\ Ahead(t)' = pos + 1 .. Len(keys)
  BY <1>1, <1>6 DEF Ahead
<1>8. id \in Funnel(f) <=> <<k, id>> \in Attached
  <2>1. CASE k \in Stored
    BY <1>2, <1>3, <2>1 DEF Attached, AttachedFunnel, Stored
  <2>2. CASE k \notin Stored
    <3>1. f = newFunnelId
      BY <1>3, <2>2 DEF AttachedFunnel, Stored
    <3>2. f \notin DOMAIN funnelDict
      BY <1>1, <1>3, <2>2, <3>1, FreshFunnelId DEF IndexInv, FunnelsOwned
    <3>3. QED
      BY <2>2, <3>2 DEF Funnel, Attached
  <2>3. QED
    BY <2>1, <2>2
<1> DEFINE last == keys[Len(keys)]
           new == write[t].isNew \/ \E n \in pos .. Len(keys) : keys[n] \notin Stored
           absent == /\ <<last, id>> \notin Attached
                     /\ \A n \in pos .. Len(keys) : keys[n] = last => n = Len(keys)
<1> HIDE DEF keys, id, upsert, k, f
<1>9. WillReturn(t) <=> upsert \/ (new /\ absent)
  <2>1. pos .. Len(keys) # {}
    BY <1>3
  <2>2. QED
    BY <1>7, <2>1 DEF WillReturn, keys, id, upsert
<1>10. write'[t].isNew \/ (\E n \in pos + 1 .. Len(keys) : keys[n] \notin Stored') <=> new
  <2>1. \A n \in pos .. Len(keys) : n = pos \/ n \in pos + 1 .. Len(keys)
    BY <1>3
  <2>2. pos \in pos .. Len(keys) /\ pos + 1 .. Len(keys) \subseteq pos .. Len(keys)
    BY <1>3
  <2>3. keys[pos] = k
    BY DEF k, keys
  <2>4. QED
    BY <1>1, <1>5, <1>6, <2>1, <2>2, <2>3
<1>11. CASE pos = Len(keys)
  <2>1. Ahead(t)' = {}
    BY <1>3, <1>7, <1>11
  <2>2. last = k /\ (absent <=> <<k, id>> \notin Attached)
    BY <1>3, <1>11 DEF k, keys
  <2>3. WillReturn(t)' <=> upsert \/ (write'[t].isNew /\ write'[t].attached)
    BY <1>1, <2>1 DEF WillReturn, upsert
  <2>4. pos + 1 .. Len(keys) = {}
    BY <1>3, <1>11
  <2>5. write'[t].isNew <=> new
    BY <1>10, <2>4
  <2>6. QED
    BY <1>6, <1>8, <1>9, <2>2, <2>3, <2>5
<1>12. CASE pos < Len(keys)
  <2>1. Ahead(t)' # {}
    BY <1>3, <1>7, <1>12
  <2>2. WillReturn(t)' <=>
          \/ upsert
          \/ /\ new
             /\ <<last, id>> \notin Attached'
             /\ \A n \in pos + 1 .. Len(keys) : keys[n] = last => n = Len(keys)
    BY <1>1, <1>7, <1>10, <2>1 DEF WillReturn, upsert, keys, id
  <2>3. <<last, id>> \notin Attached' <=> <<last, id>> \notin Attached /\ keys[pos] # last
    BY <1>5 DEF k, keys
  <2>4. absent <=>
          /\ <<last, id>> \notin Attached /\ keys[pos] # last
          /\ \A n \in pos + 1 .. Len(keys) : keys[n] = last => n = Len(keys)
    BY <1>3, <1>12
  <2>5. QED
    BY <1>9, <2>2, <2>3, <2>4
<1>13. QED
  BY <1>3, <1>11, <1>12

\* Attaching a string moves its pair from those to come to those that are there.
LEMMA AttachKeyUnseen ==
  ASSUME StoreInv, NEW t \in Threads, AttachKey(t) PROVE UNCHANGED Store!vars
<1> DEFINE keys == req[t].keys
           id == req[t].item.id
           pos == write[t].pos
           k == keys[pos]
<1>1. /\ TypeInv /\ LockInv
      /\ pc[t] = "attaching" /\ pc' = pc /\ req' = req /\ pos <= Len(keys)
      /\ write \in [Threads -> [pos : Nat \ {0}, isNew : BOOLEAN, attached : BOOLEAN,
                                id : Nat, ok : BOOLEAN]]
      /\ TrieTypeOK /\ FarmTypeOK /\ IndexInv
  BY DEF AttachKey, StoreInv, Inv, BaseInv, TypeInv, TypeOK
<1>2. /\ keys \in Seq(Keys) /\ req[t].item \in Item /\ id \in Ids /\ req[t].upsert \in BOOLEAN
      /\ req[t].item.doc # NoDoc
  BY <1>1, RequestFields, NoDocAssumption DEF TypeInv, StageInv, AttachStages, Item
<1>3. Len(keys) \in Nat /\ pos \in 1 .. Len(keys) /\ \A n \in 1 .. Len(keys) : keys[n] \in Keys
  BY <1>1, <1>2
<1>4. AttachPair(k, req[t].item, req[t].upsert)
  BY DEF AttachKey, AttachPair
<1>5. /\ Attached' = Attached \cup {<<k, id>>}
      /\ itemDict' = IF itemDict[id] = NoDoc
                       THEN [itemDict EXCEPT ![id] = req[t].item.doc] ELSE itemDict
  BY <1>1, <1>2, <1>3, <1>4, AttachPairIndex
<1>6. Ahead(t) = pos .. Len(keys) /\ Ahead(t)' = pos + 1 .. Len(keys)
  BY <1>1 DEF Ahead, AttachKey
<1>7. pos .. Len(keys) = {pos} \cup (pos + 1 .. Len(keys))
  BY <1>3
<1>8. \A u \in Threads : pc[u] = "attaching" => u = t
  BY <1>1, NobodyElseAttaches DEF Writing
<1> HIDE DEF keys, id, pos, k
<1>9. assocBar' = assocBar
  <2> DEFINE rest == {<<keys[n], id>> : n \in pos + 1 .. Len(keys)}
  <2>1. assocBar = Attached \cup {<<keys[n], id>> : n \in pos .. Len(keys)}
    BY <1>6, <1>8, BarsAttaching DEF keys, id
  <2>2. assocBar' = Attached' \cup rest
    <3>1. assocBar' = Attached' \cup {<<req'[t].keys[n], req'[t].item.id>> : n \in Ahead(t)'}
      BY <1>1, <1>8, BarsAttachingNext
    <3>2. {<<req'[t].keys[n], req'[t].item.id>> : n \in Ahead(t)'} = rest
      BY <1>1, <1>6 DEF keys, id
    <3> HIDE DEF rest
    <3>3. QED
      BY <3>1, <3>2
  <2>3. {<<keys[n], id>> : n \in pos .. Len(keys)} = {<<k, id>>} \cup rest
    BY <1>7 DEF k
  <2> HIDE DEF rest
  <2>4. QED
    BY <1>5, <2>1, <2>2, <2>3
<1>10. docsBar' = docsBar
  <2>1. docsBar = [i \in Ids |-> IF itemDict[i] = NoDoc /\ id = i THEN req[t].item.doc ELSE itemDict[i]]
    BY <1>6, <1>7, <1>8, BarsAttaching DEF id
  <2>2. docsBar' = [i \in Ids |-> IF itemDict'[i] = NoDoc /\ Ahead(t)' # {} /\ id = i
                                    THEN req[t].item.doc ELSE itemDict'[i]]
    BY <1>1, <1>8, BarsAttachingNext DEF id
  <2>3. /\ itemDict'[id] = IF itemDict[id] = NoDoc THEN req[t].item.doc ELSE itemDict[id]
        /\ \A i \in Ids : i # id => itemDict'[i] = itemDict[i]
    BY <1>1, <1>2, <1>5 DEF FarmTypeOK
  <2>4. QED
    BY <1>2, <2>1, <2>2, <2>3
<1>11. phaseBar' = phaseBar
  BY <1>1 DEF phaseBar
<1>12. answerBar' = answerBar
  <2>1. answerBar' = [answerBar EXCEPT ![t] = answerBar'[t]]
    BY <1>1, OthersMapped DEF Step, Attach
  <2>2. answerBar'[t] = [ok |-> WillReturn(t)', items |-> <<>>]
        /\ answerBar[t] = [ok |-> WillReturn(t), items |-> <<>>]
    BY <1>1 DEF answerBar
  <2>3. WillReturn(t)' = WillReturn(t)
    <3>1. WillReturn(t) \in BOOLEAN /\ WillReturn(t)' \in BOOLEAN
      BY <1>1, <1>2 DEF WillReturn
    <3>2. QED
      BY <3>1, AnswerSettled
  <2>4. answerBar = [u \in Threads |-> answerBar[u]]
    BY DEF answerBar
  <2>5. QED
    BY <2>1, <2>2, <2>3, <2>4
<1>13. QED
  BY <1>1, <1>9, <1>10, <1>11, <1>12 DEF Store!vars

\* When all strings are attached the lock goes, and the answer is the one due.
LEMMA AttachUnlockUnseen ==
  ASSUME StoreInv, NEW t \in Threads, AttachUnlock(t) PROVE UNCHANGED Store!vars
<1>1. /\ TypeInv /\ LockInv
      /\ pc[t] = "attaching" /\ pc' = [pc EXCEPT ![t] = "reply"] /\ pc \in [Threads -> Stages]
      /\ UNCHANGED <<indexVars, req, seek>>
      /\ write[t].pos > Len(req[t].keys)
      /\ write' = [write EXCEPT
           ![t].ok = (write[t].isNew /\ write[t].attached) \/ req[t].upsert]
      /\ write \in [Threads -> [pos : Nat \ {0}, isNew : BOOLEAN, attached : BOOLEAN,
                                id : Nat, ok : BOOLEAN]]
  BY DEF AttachUnlock, Goto, StoreInv, Inv, BaseInv, TypeInv, TypeOK
<1>2. req[t].keys \in Seq(Keys) /\ req[t].upsert \in BOOLEAN
  BY <1>1, RequestFields DEF TypeInv, StageInv, AttachStages
<1>3. seek[t].items = <<>> /\ pc'[t] = "reply"
  BY <1>1 DEF StoreInv, FreshLocals, Fresh, BeforeSeeking, AttachStages, NewSeek
<1>4. Ahead(t) = {} /\ Ahead(t)' = {}
  BY <1>1, <1>2, <1>3 DEF Ahead
<1>5. /\ phaseBar' = [phaseBar EXCEPT ![t] = phaseBar'[t]]
      /\ answerBar' = [answerBar EXCEPT ![t] = answerBar'[t]]
      /\ \A u \in Threads : Ahead(u)' = Ahead(u)
  BY <1>1, <1>4, OthersMapped DEF Step, Attach
<1>6. assocBar' = assocBar /\ docsBar' = docsBar
  BY <1>1, <1>5, StoreStays
<1>7. phaseBar[t] = "done" /\ phaseBar'[t] = "done"
  BY <1>1, <1>3 DEF phaseBar
<1>8. answerBar'[t] = answerBar[t]
  <2>1. answerBar[t] = [ok |-> WillReturn(t), items |-> <<>>]
    BY <1>1 DEF answerBar
  <2>2. answerBar'[t] = [ok |-> write'[t].ok, items |-> <<>>]
    BY <1>1, <1>3 DEF answerBar
  <2>3. write'[t].ok = ((write[t].isNew /\ write[t].attached) \/ req[t].upsert)
    BY <1>1
  <2>4. WillReturn(t) = ((write[t].isNew /\ write[t].attached) \/ req[t].upsert)
    BY <1>1, <1>2, <1>4 DEF WillReturn
  <2>5. QED
    BY <2>1, <2>2, <2>3, <2>4
<1>9. phaseBar = [u \in Threads |-> phaseBar[u]] /\ answerBar = [u \in Threads |-> answerBar[u]]
  BY DEF phaseBar, answerBar
<1>10. phaseBar' = phaseBar /\ answerBar' = answerBar
  BY <1>5, <1>7, <1>8, <1>9
<1>11. QED
  BY <1>1, <1>6, <1>10 DEF Store!vars

\* An update of a string nobody has attached ends where it looks the string up.
LEMMA FindUpdates ==
  ASSUME StoreInv, NEW t \in Threads, Find(t), pc'[t] = "reply" PROVE Store!Update(t)
<1>1. /\ TypeInv /\ LockInv /\ TrieTypeOK /\ FarmTypeOK /\ IndexInv
      /\ pc[t] = "find" /\ UNCHANGED <<indexVars, req, seek>>
      /\ pc \in [Threads -> Stages]
      /\ write' = [write EXCEPT ![t].id = FunnelIdOf(req[t].key)]
      /\ write \in [Threads -> [pos : Nat \ {0}, isNew : BOOLEAN, attached : BOOLEAN,
                                id : Nat, ok : BOOLEAN]]
  BY DEF Find, StoreInv, Inv, BaseInv, TypeInv, TypeOK
<1>2. req[t].op = "update" /\ req[t].key \in Keys
  BY <1>1, RequestFields DEF TypeInv, StageInv, UpdateStages
<1>3. write[t] = NewWrite /\ seek[t] = NewSeek
  BY <1>1 DEF StoreInv, FreshLocals, Fresh, BeforeWriting, BeforeSeeking, UpdateStages
<1>4. req[t].key \notin Stored
  <2>1. FunnelIdOf(req[t].key) = 0
    BY <1>1 DEF Find, Goto
  <2>2. QED
    BY <1>1, <2>1 DEF FunnelIdOf, IndexInv, CursorBounded, Stored, TrieTypeOK
<1>5. assocBar = Attached
  <2>1. \A u \in Threads : pc[u] # "attaching"
    BY <1>1, NobodyElseAttaches DEF Reading
  <2>2. QED
    BY <2>1, BarsIdle
<1>6. ~ Store!Known(req[t].key)
  BY <1>1, <1>2, <1>4, <1>5, KnownIsStored DEF IndexInv
<1>7. Ahead(t) = {} /\ Ahead(t)' = {}
  BY <1>1 DEF Ahead
<1>8. /\ phaseBar' = [phaseBar EXCEPT ![t] = phaseBar'[t]]
      /\ answerBar' = [answerBar EXCEPT ![t] = answerBar'[t]]
      /\ \A u \in Threads : Ahead(u)' = Ahead(u)
  BY <1>1, <1>7, OthersMapped DEF Step, Update
<1>9. assocBar' = assocBar /\ docsBar' = docsBar
  BY <1>1, <1>8, StoreStays
<1>10. phaseBar[t] = "called" /\ phaseBar'[t] = "done"
  BY <1>1 DEF phaseBar
<1>11. answerBar'[t] = Store!NoAnswer
  <2>1. write'[t].ok = FALSE /\ seek'[t].items = <<>>
    BY <1>1, <1>3 DEF NewWrite, NewSeek
  <2>2. QED
    BY <2>1 DEF answerBar, Store!NoAnswer
<1>12. req' = req
  BY <1>1
<1>13. QED
  BY <1>2, <1>6, <1>8, <1>9, <1>10, <1>11, <1>12 DEF Store!Update, Store!Finish

\* Any other update takes effect under its WriteLock, and succeeds.
LEMMA UpdateItemUpdates ==
  ASSUME StoreInv, NEW t \in Threads, UpdateItem(t) PROVE Store!Update(t)
<1> DEFINE key == req[t].key
           id == req[t].item.id
<1>1. /\ TypeInv /\ LockInv /\ TrieTypeOK /\ FarmTypeOK /\ IndexInv
      /\ pc[t] = "updating" /\ pc' = [pc EXCEPT ![t] = "reply"]
      /\ pc \in [Threads -> Stages] /\ UNCHANGED <<req, seek>>
      /\ write' = [write EXCEPT ![t].ok = Attaches(write[t].id, id, TRUE)]
      /\ write \in [Threads -> [pos : Nat \ {0}, isNew : BOOLEAN, attached : BOOLEAN,
                                id : Nat, ok : BOOLEAN]]
  BY DEF UpdateItem, Goto, StoreInv, Inv, BaseInv, TypeInv, TypeOK
<1>2. req[t].op = "update" /\ key \in Keys /\ req[t].item \in Item /\ id \in Ids
  BY <1>1, RequestFields DEF TypeInv, StageInv, UpdateStages, Item
<1>3. key \in Stored /\ write[t].id = da[key]
  BY <1>1 DEF StoreInv, Inv, BaseInv, FoundFunnelStays
<1>4. AttachPair(key, req[t].item, TRUE)
  BY <1>3 DEF UpdateItem, AttachPair, TrieAttach, AttachedFunnel, Stored
<1>5. /\ Attached' = Attached \cup {<<key, id>>}
      /\ itemDict' = IF itemDict[id] = NoDoc
                       THEN [itemDict EXCEPT ![id] = req[t].item.doc] ELSE itemDict
  BY <1>1, <1>2, <1>4, AttachPairIndex
<1>6. \A u \in Threads : pc[u] # "attaching" /\ pc'[u] # "attaching"
  BY <1>1, NobodyElseAttaches DEF Writing
<1>7. assocBar = Attached /\ docsBar = [i \in Ids |-> itemDict[i]]
  BY <1>6, BarsIdle
<1>8. assocBar' = Attached' /\ docsBar' = [i \in Ids |-> itemDict'[i]]
  BY <1>6, BarsIdleNext
<1>9. Store!Known(key)
  BY <1>1, <1>2, <1>3, <1>7, KnownIsStored DEF IndexInv
<1>10. Store!AddItem(req[t].item)
  <2>1. itemDict \in [Ids -> Docs \cup {NoDoc}]
    BY <1>1 DEF FarmTypeOK
  <2>2. QED
    BY <1>2, <1>5, <1>7, <1>8, <2>1 DEF Store!AddItem
<1>11. answerBar'[t] = [ok |-> TRUE, items |-> <<>>]
  <2>1. seek'[t].items = <<>>
    BY <1>1 DEF StoreInv, FreshLocals, Fresh, BeforeSeeking, UpdateStages, NewSeek
  <2>2. write'[t].ok = TRUE
    BY <1>1 DEF Attaches
  <2>3. QED
    BY <1>1, <2>1, <2>2 DEF answerBar
<1>12. phaseBar[t] = "called" /\ phaseBar'[t] = "done"
  BY <1>1 DEF phaseBar
<1>13. /\ phaseBar' = [phaseBar EXCEPT ![t] = phaseBar'[t]]
       /\ answerBar' = [answerBar EXCEPT ![t] = answerBar'[t]]
  BY <1>1, OthersMapped DEF Step, Update
<1>14. QED
  BY <1>1, <1>2, <1>5, <1>7, <1>8, <1>9, <1>10, <1>11, <1>12, <1>13
     DEF Store!Update, Store!Finish

\* A list that is sound is a choice of distinct items from those that match.
LEMMA SoundIsChoice ==
  ASSUME FarmTypeOK, FunnelsOwned, assocBar = Attached, docsBar = [i \in Ids |-> itemDict[i]],
         NEW t \in Threads, req[t] \in QueryRequests, seek[t].items \in Seq(Item), Sound(t)
  PROVE  /\ seek[t].items \in
              Store!SeqOf(Store!Matches(Store!KnownUnder(req[t].prefix), req[t].accept), req[t].num)
         /\ Store!IsInjective(seek[t].items)
<1> DEFINE s == seek[t].items
           r == req[t]
           found == Store!Matches(Store!KnownUnder(r.prefix), r.accept)
<1>1. r.prefix \in Keys /\ r.num \in Nat
  BY RequestFields
<1>2. /\ Len(s) \in Nat /\ DOMAIN s = 1 .. Len(s) /\ s = [n \in 1 .. Len(s) |-> s[n]]
      /\ \A n \in 1 .. Len(s) : s[n] \in Item
  OBVIOUS
<1>3. Len(s) <= r.num
  BY <1>1, <1>2 DEF Sound
<1>4. ASSUME NEW n \in DOMAIN s
      PROVE  /\ itemDict[s[n].id] = s[n].doc /\ s[n].doc \in r.accept
             /\ \E k \in KeysUnder[r.prefix] : <<k, s[n].id>> \in Attached
  <2>1. s # <<>>
    BY <1>4
  <2>2. QED
    BY <1>4, <2>1 DEF Sound
<1>5. \A m, n \in DOMAIN s : s[m].id = s[n].id => m = n
  BY DEF Sound
<1> HIDE DEF s, r
<1>6. ASSUME NEW n \in 1 .. Len(s) PROVE s[n] \in found
  <2>1. s[n] \in Item /\ s[n].id \in Ids /\ s[n] = [id |-> s[n].id, doc |-> s[n].doc]
    BY <1>2, <1>6 DEF Item
  <2>2. PICK k \in KeysUnder[r.prefix] : <<k, s[n].id>> \in Attached
    BY <1>2, <1>4, <1>6
  <2>3. k \in Store!KnownUnder(r.prefix)
    BY <2>1, <2>2 DEF Store!KnownUnder, Store!Known
  <2>4. docsBar[s[n].id] = s[n].doc /\ s[n].doc \in r.accept
    BY <1>2, <1>4, <1>6, <2>1
  <2>5. QED
    BY <2>1, <2>2, <2>3, <2>4 DEF Store!Matches
<1>7. s \in [1 .. Len(s) -> found]
  BY <1>2, <1>6
<1>8. s \in Store!SeqOf(found, r.num)
  <2> HIDE DEF found
  <2>1. Len(s) \in 0 .. r.num
    BY <1>1, <1>2, <1>3
  <2>2. QED
    BY <1>7, <2>1 DEF Store!SeqOf
<1>9. Store!IsInjective(s)
  BY <1>5 DEF Store!IsInjective
<1>10. QED
  BY <1>8, <1>9 DEF s, r

\* A list that is complete is as long as it may be, or has everything there is
\* under the strings the callbacks reached.
LEMMA CompleteIsFull ==
  ASSUME FarmTypeOK, FunnelsOwned, assocBar = Attached, docsBar = [i \in Ids |-> itemDict[i]],
         NEW t \in Threads, req[t] \in QueryRequests, seek[t].items \in Seq(Item),
         seek[t].visited \in SUBSET Keys, pc[t] = "found",
         Sound(t), Scanned(t), Complete(t)
  PROVE  Store!Full(req[t], seek[t].items)
<1> DEFINE s == seek[t].items
           r == req[t]
           V == seek[t].visited
<1>1. r.prefix \in Keys /\ r.num \in Nat
  BY RequestFields
<1>2. Len(s) \in Nat /\ DOMAIN s = 1 .. Len(s) /\ \A n \in DOMAIN s : s[n] \in Item
  OBVIOUS
<1>3. Len(s) <= r.num
  BY <1>1, <1>2 DEF Sound
<1>4. Store!KnownUnder(r.prefix) = StoredUnder(r.prefix)
  <2>1. KeysUnder[r.prefix] \subseteq Keys
    BY <1>1, KeysAssumption
  <2>2. \A k \in KeysUnder[r.prefix] : Store!Known(k) <=> k \in Stored
    BY <2>1, KnownIsStored
  <2>3. QED
    BY <2>2 DEF Store!KnownUnder, StoredUnder
<1>5. V \subseteq StoredUnder(r.prefix)
  BY DEF Scanned
<1>6. CASE Len(s) = r.num
  BY <1>6 DEF Store!Full
<1>7. CASE Len(s) < r.num
  <2>1. /\ V = StoredUnder(r.prefix) \/ Cardinality(V) + Twice(t) >= MaxIterations
        /\ \A k \in V, i \in Ids : <<k, i>> \in Attached /\ itemDict[i] \in r.accept
             => \E n \in DOMAIN s : s[n].id = i
    BY <1>7 DEF Complete
  <2>2. Cardinality(V) \in Nat
    BY SentinelAssumption, FS_Subset, FS_CardinalityType
  <2>3. Cardinality(V) + Twice(t) >= MaxIterations => Cardinality(V) >= Store!Budget(r.prefix)
    <3>1. Store!Known(r.prefix) <=> r.prefix \in Stored
      BY <1>1, KnownIsStored
    <3> HIDE DEF V
    <3>2. QED
      BY <2>2, <3>1, MaxIterationsAssumption DEF Twice, Store!Budget
  <2>4. ASSUME NEW x \in Store!Matches(V, r.accept) PROVE x \in Store!ToSet(s)
    <3>1. PICK i \in Ids : /\ x = [id |-> i, doc |-> docsBar[i]] /\ docsBar[i] \in r.accept
                           /\ \E k \in V : <<k, i>> \in assocBar
      BY <2>4 DEF Store!Matches
    <3>2. PICK n \in DOMAIN s : s[n].id = i
      BY <2>1, <3>1
    <3>3. s[n].doc = itemDict[i]
      <4>1. s # <<>>
        BY <3>2
      <4>2. QED
        BY <3>2, <4>1 DEF Sound
    <3>4. s[n] = [id |-> i, doc |-> itemDict[i]]
      BY <1>2, <3>2, <3>3 DEF Item
    <3>5. QED
      BY <3>1, <3>2, <3>4 DEF Store!ToSet
  <2>5. /\ V \in SUBSET Store!KnownUnder(r.prefix)
        /\ V = Store!KnownUnder(r.prefix) \/ Cardinality(V) >= Store!Budget(r.prefix)
        /\ Store!Matches(V, r.accept) \subseteq Store!ToSet(s)
    BY <1>4, <1>5, <2>1, <2>3, <2>4
  <2> HIDE DEF V, s, r
  <2>6. Store!Cardinality(V) = Cardinality(V)
    BY DEF Store!Cardinality, Cardinality
  <2>7. QED
    BY <2>5, <2>6 DEF Store!Full, s, r
<1>8. QED
  BY <1>1, <1>2, <1>3, <1>6, <1>7

\* A query takes effect where it drops its ReadLock.
LEMMA SeekUnlockQueries ==
  ASSUME StoreInv, NEW t \in Threads, SeekUnlock(t) PROVE Store!Query(t)
<1>1. /\ TypeInv /\ LockInv /\ FarmTypeOK /\ FunnelsOwned /\ Collecting(t)
      /\ pc[t] = "found" /\ pc' = [pc EXCEPT ![t] = "reply"]
      /\ pc \in [Threads -> Stages] /\ UNCHANGED <<indexVars, req, write, seek>>
      /\ seek[t].visited \in SUBSET Keys /\ seek[t].items \in Seq(Item)
  BY DEF SeekUnlock, Goto, StoreInv, Inv, BaseInv, IndexInv, TypeInv, TypeOK
<1>2. req[t] \in QueryRequests /\ req[t].op = "query"
  BY <1>1, RequestFields DEF TypeInv, StageInv, QueryStages
<1>3. assocBar = Attached /\ docsBar = [i \in Ids |-> itemDict[i]]
  <2>1. \A u \in Threads : pc[u] # "attaching"
    BY <1>1, NobodyElseAttaches DEF Reading
  <2>2. QED
    BY <2>1, BarsIdle
<1>4. /\ seek[t].items \in
           Store!SeqOf(Store!Matches(Store!KnownUnder(req[t].prefix), req[t].accept), req[t].num)
      /\ Store!IsInjective(seek[t].items)
  BY <1>1, <1>2, <1>3, SoundIsChoice DEF Collecting
<1>5. Store!Full(req[t], seek[t].items)
  BY <1>1, <1>2, <1>3, CompleteIsFull DEF Collecting
<1>6. Ahead(t) = {} /\ Ahead(t)' = {}
  BY <1>1 DEF Ahead
<1>7. /\ phaseBar' = [phaseBar EXCEPT ![t] = phaseBar'[t]]
      /\ answerBar' = [answerBar EXCEPT ![t] = answerBar'[t]]
      /\ \A u \in Threads : Ahead(u)' = Ahead(u)
  BY <1>1, <1>6, OthersMapped DEF Step, Query
<1>8. assocBar' = assocBar /\ docsBar' = docsBar
  BY <1>1, <1>7, StoreStays
<1>9. phaseBar[t] = "called" /\ phaseBar'[t] = "done"
  BY <1>1 DEF phaseBar
<1>10. answerBar'[t] = [ok |-> FALSE, items |-> seek[t].items]
  <2>1. write'[t].ok = FALSE
    BY <1>1 DEF StoreInv, FreshLocals, Fresh, BeforeWriting, QueryStages, NewWrite
  <2>2. QED
    BY <1>1, <2>1 DEF answerBar
<1>11. Store!Finish(t, [ok |-> FALSE, items |-> seek[t].items])
  BY <1>1, <1>7, <1>9, <1>10 DEF Store!Finish
<1>12. QED
  BY <1>2, <1>4, <1>5, <1>8, <1>9, <1>11 DEF Store!Query

-----------------------------------------------------------------------------
(* The refinement. *)

\* The empty index with idle threads is the empty store.
LEMMA InitImplements == Init => Store!Init
<1> SUFFICES ASSUME Init PROVE Store!Init
  OBVIOUS
<1>1. \A u \in Threads : pc[u] = "idle"
  BY DEF Init
<1>2. assocBar = Attached /\ docsBar = [i \in Ids |-> itemDict[i]]
  BY <1>1, BarsIdle
<1>3. Attached = {}
  BY DEF Init, TrieInit, Attached, Stored, IsSentinel
<1>4. docsBar = [i \in Ids |-> NoDoc]
  BY <1>2 DEF Init, FarmInit
<1>5. phaseBar = [u \in Threads |-> "idle"] /\ answerBar = [u \in Threads |-> Store!NoAnswer]
  BY <1>1 DEF phaseBar, answerBar, Store!NoAnswer
<1>6. QED
  BY <1>2, <1>3, <1>4, <1>5 DEF Init, Store!Init

\* Every step is a step of the store or is not seen.
LEMMA StepImplements == StoreInv /\ [Next]_vars => [Store!Next]_(Store!vars)
<1> SUFFICES ASSUME StoreInv, [Next]_vars
             PROVE  Store!Next \/ UNCHANGED Store!vars
  OBVIOUS
<1>1. CASE UNCHANGED vars
  <2>1. Stored' = Stored /\ Attached' = Attached
    BY <1>1, FrozenViews DEF vars
  <2>2. \A u \in Threads : Ahead(u)' = Ahead(u) /\ WillReturn(u)' = WillReturn(u)
    BY <1>1, <2>1 DEF vars, Ahead, WillReturn
  <2>3. assocBar' = assocBar /\ docsBar' = docsBar
    BY <1>1, <2>2, StoreStays DEF vars
  <2>4. phaseBar' = phaseBar
    BY <1>1 DEF vars, phaseBar
  <2>5. answerBar' = answerBar
    BY <1>1, <2>2 DEF vars, answerBar
  <2>6. QED
    BY <1>1, <2>3, <2>4, <2>5 DEF vars, Store!vars
<1>2. ASSUME NEW t \in Threads, Receive(t) \/ Step(t)
      PROVE  Store!Next \/ UNCHANGED Store!vars
  <2>1. pc \in [Threads -> Stages]
    BY DEF StoreInv, Inv, BaseInv, TypeInv, TypeOK
  <2>2. CASE Receive(t)
    BY <2>2, ReceiveInvokes DEF Store!Next
  <2>3. CASE Reply(t)
    BY <2>3, ReplyReturns DEF Store!Next
  <2>4. CASE Attach(t)
    BY <2>4, AttachLockAttaches, AttachKeyUnseen, AttachUnlockUnseen DEF Attach, Store!Next
  <2>5. CASE UpdateItem(t)
    BY <2>5, UpdateItemUpdates DEF Store!Next
  <2>6. CASE Find(t) /\ pc'[t] = "reply"
    BY <2>6, FindUpdates DEF Store!Next
  <2>7. CASE SeekUnlock(t)
    BY <2>7, SeekUnlockQueries DEF Store!Next
  <2>8. CASE \/ FindLock(t) \/ UpdateLock(t) \/ WriterWaits(t) \/ SeekLock(t)
             \/ SeekExact(t) \/ SeekNext(t) \/ SeekEnd(t) \/ PumpEntry(t) \/ PumpEnd(t)
             \/ Find(t) /\ pc'[t] # "reply"
    <3>1. Step(t)
      BY <2>8 DEF Step, Update, Query
    <3>2. UNCHANGED <<indexVars, req>>
      BY <2>8 DEF FindLock, UpdateLock, WriterWaits, SeekLock, SeekExact, SeekNext, SeekEnd,
        PumpEntry, PumpEnd, Find
    <3>3. pc[t] \in Called /\ pc'[t] \in Called
      BY <2>1, <2>8 DEF FindLock, UpdateLock, WriterWaits, SeekLock, SeekExact, SeekNext, SeekEnd,
        PumpEntry, PumpEnd, Find, Callback, Goto, Called, Stages, Writing, Reading, Waiting
    <3>4. QED
      BY <3>1, <3>2, <3>3, UnseenStep
  <2>9. QED
    BY <1>2, <2>2, <2>3, <2>4, <2>5, <2>6, <2>7, <2>8 DEF Step, Update, Query
<1>3. QED
  BY <1>1, <1>2 DEF Next

\* Keeper and Seeker under accessMutex do for their clients what the store
\* does: each attach, update and query takes effect at one instant.
THEOREM IndexImplementsStore == Spec => ImplementsStore
BY StoreInvariance, InitImplements, StepImplements, PTL DEF Spec, ImplementsStore, Store!Spec
=============================================================================
