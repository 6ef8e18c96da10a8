---------------------------- MODULE SessionProofs ---------------------------
(***************************************************************************)
(* Theorems about Session for any number of threads, identities, tokens    *)
(* and filters.                                                            *)
(***************************************************************************)
EXTENDS Session, FiniteSetTheorems, TLAPS

\* The maps are touched exactly while the mutex is held.
LockInv ==
  /\ writers = {t \in Threads : pc[t] \in {"create", "publish"}}
  /\ readers = {t \in Threads : pc[t] \in {"find", "auth"}}
  /\ Exclusion

\* A token waits for its session only while its maker holds the WriteLock.
Publishing(t, i, k) == pc[t] = "publish" /\ token[t] = k /\ req[t].identy = i

PublishInv ==
  /\ \A t \in Threads : pc[t] = "publish" => token[t] \in Tokens \ DOMAIN sessions
  /\ \A i \in Identities : tokens[i] # NoToken =>
       HasSession(i, tokens[i]) \/ \E t \in Threads : Publishing(t, i, tokens[i])

Inv == TypeOK /\ LockInv /\ PublishInv /\ IssuedIsLive

\* The fields of a request for a token.
LEMMA EnsureFields ==
  \A r \in EnsureRequest :
    r.op = "ensure" /\ r.identy \in Identities /\ r.filters \in Filters /\ r.expire \in Times
BY DEF EnsureRequest

\* The fields of a request for the session of a token.
LEMMA AuthFields == \A r \in AuthRequest : r.op = "auth" /\ r.token \in Presented
BY DEF AuthRequest

\* The invariant holds of the empty maps.
LEMMA InitInv == Init => Inv
<1> SUFFICES ASSUME Init PROVE Inv
  OBVIOUS
<1>1. TypeOK
  <2>1. DOMAIN sessions = {} /\ sessions \in [DOMAIN sessions -> SessionType]
    BY DEF Init
  <2>2. HeldAmong(Threads)
    BY DEF Init, MutexInit, HeldAmong
  <2>3. QED
    BY <2>1, <2>2, TimeAssumption DEF Init, TypeOK, Stages, Times
<1>2. LockInv
  BY DEF Init, LockInv, MutexInit, Exclusion, Free
<1>3. PublishInv /\ IssuedIsLive
  BY DEF Init, PublishInv, IssuedIsLive
<1>4. QED
  BY <1>1, <1>2, <1>3 DEF Inv

-----------------------------------------------------------------------------
(* Publish is the one action that changes sessions, Create the one that    *)
(* changes tokens, and Tick the one that changes the clock.                *)

\* Publish adds the session of its token and leaves the others as they are.
LEMMA PublishShape ==
  ASSUME Inv, NEW t \in Threads, Publish(t)
  PROVE  /\ DOMAIN sessions' = DOMAIN sessions \cup {token[t]}
         /\ \A k \in DOMAIN sessions : sessions'[k] = sessions[k]
         /\ sessions' \in [DOMAIN sessions' -> SessionType]
         /\ sessions'[token[t]].identy = req[t].identy
         /\ token[t] \in Tokens \ DOMAIN sessions
<1>1. token[t] \in Tokens \ DOMAIN sessions
  BY DEF Inv, PublishInv, Publish
<1>2. req[t] \in EnsureRequest
  BY DEF Inv, TypeOK, Publish
<1> DEFINE s == NewSession(req[t])
<1>3. s \in SessionType
  BY <1>2, EnsureFields DEF NewSession, SessionType
<1>4. sessions \in [DOMAIN sessions -> SessionType]
  BY DEF Inv, TypeOK
<1>5. sessions' = [k \in DOMAIN sessions \cup {token[t]} |->
                     IF k \in DOMAIN sessions THEN sessions[k] ELSE s]
  BY DEF Publish
<1>6. sessions'[token[t]] = s
  BY <1>1, <1>5
<1> HIDE DEF s
<1>7. sessions' \in [DOMAIN sessions' -> SessionType]
  BY <1>3, <1>4, <1>5
<1>8. s.identy = req[t].identy
  BY DEF s, NewSession
<1>9. QED
  BY <1>1, <1>5, <1>6, <1>7, <1>8

\* No step changes a registered token or a session, or turns the clock back.
LEMMA Persist ==
  ASSUME Inv, [Next]_vars
  PROVE  /\ \A i \in Identities : tokens[i] # NoToken => tokens'[i] = tokens[i]
         /\ \A k \in DOMAIN sessions : k \in DOMAIN sessions' /\ sessions'[k] = sessions[k]
         /\ now \in Nat /\ now' \in Nat /\ now <= now'
<1> USE DEF Inv, TypeOK, Times
<1>1. CASE UNCHANGED vars
  BY <1>1 DEF vars
<1>2. CASE Tick
  BY <1>2 DEF Tick
<1>3. ASSUME NEW t \in Threads, Create(t) PROVE tokens' \in [Identities -> Tokens \cup {NoToken}]
        /\ \A i \in Identities : tokens[i] # NoToken => tokens'[i] = tokens[i]
  <2>1. PICK k \in FreshTokens : Register(req[t].identy, k)
    BY <1>3 DEF Create
  <2>2. req[t].identy \in Identities
    BY <1>3, EnsureFields DEF Create
  <2>3. QED
    BY <2>1, <2>2 DEF Register, FreshTokens
<1>4. ASSUME NEW t \in Threads, Create(t) PROVE sessions' = sessions /\ now' = now
  BY <1>4 DEF Create
<1>5. ASSUME NEW t \in Threads, Publish(t)
      PROVE  \A k \in DOMAIN sessions : k \in DOMAIN sessions' /\ sessions'[k] = sessions[k]
  BY <1>5, PublishShape
<1>6. ASSUME NEW t \in Threads, Publish(t) PROVE tokens' = tokens /\ now' = now
  BY <1>6 DEF Publish
<1>7. ASSUME NEW t \in Threads, Receive(t) \/ Reply(t) \/ Acquire(t) \/ WriterWaits(t)
                                \/ Find(t) \/ Auth(t)
      PROVE  UNCHANGED <<tokens, sessions, now>>
  BY <1>7 DEF Receive, Reply, Acquire, FindLock, CreateLock, AuthLock, WriterWaits, Find, Auth
<1>8. QED
  BY <1>1, <1>2, <1>3, <1>4, <1>5, <1>6, <1>7 DEF Next, Step

-----------------------------------------------------------------------------

\* Every operation of the mutex keeps it held by threads only.
LEMMA LockShapes ==
  ASSUME NEW t \in Threads, HeldAmong(Threads)
  PROVE  /\ LockShared(t) => HeldAmong(Threads)'
         /\ UnlockShared(t) => HeldAmong(Threads)'
         /\ Lock(t) => HeldAmong(Threads)'
         /\ Unlock(t) => HeldAmong(Threads)'
         /\ AwaitLock => HeldAmong(Threads)'
BY DEF HeldAmong, LockShared, UnlockShared, Lock, Unlock, AwaitLock

\* No step leaves the types.
LEMMA TypeStep == Inv /\ [Next]_vars => TypeOK'
<1> SUFFICES ASSUME Inv, [Next]_vars PROVE TypeOK'
  OBVIOUS
<1> USE DEF Inv, TypeOK
<1>1. CASE UNCHANGED vars
  BY <1>1 DEF vars, mutexVars, HeldAmong
<1>2. CASE Tick
  BY <1>2, TimeAssumption DEF Tick, Times, mutexVars, HeldAmong
<1>3. ASSUME NEW t \in Threads, Receive(t) PROVE TypeOK'
  <2>1. PICK r \in Requests :
          /\ req' = [req EXCEPT ![t] = r]
          /\ Goto(t, IF r.op = "ensure" THEN "find_lock" ELSE "auth_lock")
    BY <1>3 DEF Receive
  <2>2. \/ r \in EnsureRequest /\ Goto(t, "find_lock")
        \/ r \in AuthRequest /\ Goto(t, "auth_lock")
    BY <2>1, EnsureFields, AuthFields DEF Requests
  <2>3. QED
    BY <1>3, <2>1, <2>2 DEF Receive, Goto, Stages, mutexVars, HeldAmong
<1>4. ASSUME NEW t \in Threads, Reply(t) PROVE TypeOK'
  BY <1>4 DEF Reply, Goto, Stages, mutexVars, HeldAmong
<1>5. ASSUME NEW t \in Threads, Acquire(t) \/ WriterWaits(t) PROVE TypeOK'
  <2>1. HeldAmong(Threads)'
    BY <1>5, LockShapes DEF Acquire, FindLock, CreateLock, AuthLock, WriterWaits
  <2>2. /\ UNCHANGED <<tokens, sessions, now, req, token, granted>>
        /\ \/ UNCHANGED pc
           \/ pc[t] \in {"find_lock", "create_lock"} /\ Goto(t, "find")
           \/ pc[t] \in {"find_lock", "create_lock"} /\ Goto(t, "create")
           \/ pc[t] = "auth_lock" /\ Goto(t, "auth")
    BY <1>5 DEF Acquire, FindLock, CreateLock, AuthLock, WriterWaits
  <2>3. QED
    BY <2>1, <2>2 DEF Goto, Stages
<1>6. ASSUME NEW t \in Threads, Find(t) PROVE TypeOK'
  <2>1. req[t] \in EnsureRequest /\ req[t].identy \in Identities
    BY <1>6, EnsureFields DEF Find
  <2>2. HeldAmong(Threads)'
    BY <1>6, LockShapes DEF Find
  <2>3. token' \in [Threads -> Tokens \cup {NoToken}]
    BY <1>6, <2>1 DEF Find
  <2>4. QED
    BY <1>6, <2>1, <2>2, <2>3 DEF Find, Goto, Stages
<1>7. ASSUME NEW t \in Threads, Create(t) PROVE TypeOK'
  <2>1. PICK k \in FreshTokens :
          token' = [token EXCEPT ![t] = k] /\ Register(req[t].identy, k)
    BY <1>7 DEF Create
  <2>2. req[t].identy \in Identities
    BY <1>7, EnsureFields DEF Create
  <2>3. tokens' \in [Identities -> Tokens \cup {NoToken}]
        /\ token' \in [Threads -> Tokens \cup {NoToken}]
    BY <2>1, <2>2 DEF Register, FreshTokens
  <2>4. QED
    BY <1>7, <2>3 DEF Create, Goto, Stages, mutexVars, HeldAmong
<1>8. ASSUME NEW t \in Threads, Publish(t) PROVE TypeOK'
  <2>1. DOMAIN sessions' \subseteq Tokens /\ sessions' \in [DOMAIN sessions' -> SessionType]
    BY <1>8, PublishShape
  <2>2. HeldAmong(Threads)'
    BY <1>8, LockShapes DEF Publish
  <2>3. QED
    BY <1>8, <2>1, <2>2 DEF Publish, Goto, Stages
<1>9. ASSUME NEW t \in Threads, Auth(t) PROVE TypeOK'
  <2>1. HeldAmong(Threads)'
    BY <1>9, LockShapes DEF Auth
  <2>2. (req[t].token \in DOMAIN sessions /\ now < sessions[req[t].token].expire) \in BOOLEAN
    OBVIOUS
  <2>3. granted' \in [Threads -> BOOLEAN]
    BY <1>9, <2>2, Zenon DEF Auth
  <2>4. QED
    BY <1>9, <2>1, <2>3 DEF Auth, Goto, Stages
<1>10. QED
  BY <1>1, <1>2, <1>3, <1>4, <1>5, <1>6, <1>7, <1>8, <1>9 DEF Next, Step

\* Every step keeps the mutex in line with the stages of the threads.
LEMMA LockStep == Inv /\ [Next]_vars => LockInv'
<1> SUFFICES ASSUME Inv, [Next]_vars PROVE LockInv'
  OBVIOUS
<1> USE DEF Inv, TypeOK, LockInv, Exclusion, Free
<1>1. CASE UNCHANGED vars \/ Tick
  BY <1>1 DEF vars, mutexVars, Tick
<1>2. ASSUME NEW t \in Threads, Receive(t) PROVE LockInv'
  <2>1. Goto(t, "find_lock") \/ Goto(t, "auth_lock")
    BY <1>2 DEF Receive
  <2>2. QED
    BY <1>2, <2>1 DEF Receive, Goto, mutexVars
<1>3. ASSUME NEW t \in Threads, Reply(t) PROVE LockInv'
  BY <1>3 DEF Reply, Goto, mutexVars
<1>4. ASSUME NEW t \in Threads, FindLock(t) \/ AuthLock(t) PROVE LockInv'
  BY <1>4 DEF FindLock, AuthLock, LockShared, Goto
<1>5. ASSUME NEW t \in Threads, CreateLock(t) PROVE LockInv'
  BY <1>5 DEF CreateLock, Lock, Goto
<1>6. ASSUME NEW t \in Threads, WriterWaits(t) PROVE LockInv'
  BY <1>6 DEF WriterWaits, AwaitLock
<1>7. ASSUME NEW t \in Threads, Find(t) \/ Auth(t) PROVE LockInv'
  <2>1. UnlockShared(t) /\ pc[t] \in {"find", "auth"}
        /\ (Goto(t, "create_lock") \/ Goto(t, "reply"))
    BY <1>7 DEF Find, Auth
  <2>2. QED
    BY <2>1 DEF UnlockShared, Goto
<1>8. ASSUME NEW t \in Threads, Create(t) PROVE LockInv'
  BY <1>8 DEF Create, Goto, mutexVars
<1>9. ASSUME NEW t \in Threads, Publish(t) PROVE LockInv'
  BY <1>9 DEF Publish, Unlock, Goto
<1>10. QED
  BY <1>1, <1>2, <1>3, <1>4, <1>5, <1>6, <1>7, <1>8, <1>9 DEF Next, Step, Acquire

-----------------------------------------------------------------------------
(* Tokens and sessions. *)

\* Steps that change neither map, and no thread about to publish, keep
\* PublishInv.
LEMMA PublishFrame ==
  ASSUME PublishInv, UNCHANGED <<tokens, sessions>>,
         \A u \in Threads :
           /\ pc[u] = "publish" <=> pc'[u] = "publish"
           /\ pc[u] = "publish" => token'[u] = token[u] /\ req'[u] = req[u]
  PROVE  PublishInv'
BY DEF PublishInv, Publishing, HasSession

\* A registered token has its session, or its maker is about to publish it.
LEMMA PublishStep == Inv /\ [Next]_vars => PublishInv'
<1> SUFFICES ASSUME Inv, [Next]_vars PROVE PublishInv'
  OBVIOUS
<1>1. PublishInv /\ pc \in [Threads -> Stages] /\ token \in [Threads -> Tokens \cup {NoToken}]
      /\ req \in [Threads -> Requests \cup {NoRequest}]
  BY DEF Inv, TypeOK
<1>2. CASE UNCHANGED vars \/ Tick
  BY <1>1, <1>2, PublishFrame DEF vars, Tick
<1>3. ASSUME NEW t \in Threads,
             Receive(t) \/ Reply(t) \/ Acquire(t) \/ WriterWaits(t) \/ Find(t) \/ Auth(t)
      PROVE  PublishInv'
  <2>1. UNCHANGED <<tokens, sessions>>
    BY <1>3 DEF Receive, Reply, Acquire, FindLock, CreateLock, AuthLock, WriterWaits, Find, Auth
  <2>2. \A u \in Threads :
          /\ pc[u] = "publish" <=> pc'[u] = "publish"
          /\ pc[u] = "publish" => token'[u] = token[u] /\ req'[u] = req[u]
    BY <1>1, <1>3 DEF Receive, Reply, Acquire, FindLock, CreateLock, AuthLock, WriterWaits,
      Find, Auth, Goto
  <2>3. QED
    BY <1>1, <2>1, <2>2, PublishFrame
<1>4. ASSUME NEW t \in Threads, pc[t] \in {"create", "publish"}, NEW u \in Threads, u # t
      PROVE  pc[u] # "publish"
  BY <1>4 DEF Inv, LockInv, Exclusion
<1>5. ASSUME NEW t \in Threads, Create(t) PROVE PublishInv'
  <2>1. PICK k \in FreshTokens :
          token' = [token EXCEPT ![t] = k] /\ Register(req[t].identy, k)
    BY <1>5 DEF Create
  <2>2. /\ pc[t] = "create" /\ pc' = [pc EXCEPT ![t] = "publish"]
        /\ UNCHANGED <<sessions, req>>
    BY <1>5 DEF Create, Goto
  <2>3. \A u \in Threads : pc'[u] = "publish" => token'[u] \in Tokens \ DOMAIN sessions'
    BY <1>1, <1>4, <2>1, <2>2 DEF FreshTokens
  <2>4. ASSUME NEW i \in Identities, tokens'[i] # NoToken
        PROVE  HasSession(i, tokens[i])' \/ \E u \in Threads : Publishing(u, i, tokens[i])'
    <3>1. CASE tokens[i] # NoToken
      <4>1. tokens'[i] = tokens[i]
        BY <3>1, Persist
      <4>2. HasSession(i, tokens[i])
        BY <1>1, <1>4, <2>2, <3>1 DEF PublishInv, Publishing
      <4>3. QED
        BY <2>2, <4>1, <4>2 DEF HasSession
    <3>2. CASE tokens[i] = NoToken
      <4>1. i = req[t].identy /\ tokens'[i] = k
        BY <2>1, <2>4, <3>2 DEF Register, Inv, TypeOK
      <4>2. Publishing(t, i, tokens[i])'
        BY <1>1, <2>1, <2>2, <4>1 DEF Publishing
      <4>3. QED
        BY <4>2
    <3>3. QED
      BY <3>1, <3>2
  <2>5. QED
    BY <2>3, <2>4 DEF PublishInv
<1>6. ASSUME NEW t \in Threads, Publish(t) PROVE PublishInv'
  <2>1. /\ pc[t] = "publish" /\ pc' = [pc EXCEPT ![t] = "reply"]
        /\ UNCHANGED <<tokens, req, token>>
    BY <1>6 DEF Publish, Goto
  <2>2. \A u \in Threads : pc'[u] # "publish"
    BY <1>1, <1>4, <2>1
  <2>3. ASSUME NEW i \in Identities, tokens[i] # NoToken
        PROVE  HasSession(i, tokens[i])'
    <3>1. CASE HasSession(i, tokens[i])
      BY <2>1, <3>1, Persist DEF HasSession
    <3>2. CASE Publishing(t, i, tokens[i])
      BY <1>6, <2>1, <3>2, PublishShape DEF Publishing, HasSession
    <3>3. QED
      BY <1>1, <1>4, <2>1, <2>3, <3>1, <3>2 DEF PublishInv, Publishing
  <2>4. QED
    BY <2>1, <2>2, <2>3 DEF PublishInv, HasSession
<1>7. QED
  BY <1>2, <1>3, <1>5, <1>6 DEF Next, Step

\* While nobody holds the WriteLock no publication is pending.
LEMMA ReadersSee == Inv => RegisteredIsLive
BY DEF Inv, LockInv, PublishInv, Publishing, RegisteredIsLive

\* A token is issued with its session in place, and keeps it.
LEMMA IssuedStep == Inv /\ [Next]_vars => IssuedIsLive'
<1> SUFFICES ASSUME Inv, [Next]_vars, NEW u \in Threads,
                    pc'[u] = "reply", req'[u] \in EnsureRequest
             PROVE  token'[u] # NoToken /\ HasSession(req[u].identy, token[u])'
                    /\ req'[u] = req[u]
  BY DEF IssuedIsLive, HasSession
<1>1. pc \in [Threads -> Stages] /\ token \in [Threads -> Tokens \cup {NoToken}]
      /\ req \in [Threads -> Requests \cup {NoRequest}]
  BY DEF Inv, TypeOK
<1>2. ASSUME pc[u] = "reply", token'[u] = token[u], req'[u] = req[u]
      PROVE  token'[u] # NoToken /\ HasSession(req[u].identy, token[u])'
  BY <1>2, Persist DEF Inv, IssuedIsLive, HasSession
<1>3. CASE UNCHANGED vars \/ Tick
  BY <1>2, <1>3 DEF vars, Tick
<1>4. ASSUME NEW t \in Threads, t # u, Receive(t) \/ Step(t)
      PROVE  token'[u] # NoToken /\ HasSession(req[u].identy, token[u])' /\ req'[u] = req[u]
  <2>1. pc'[u] = pc[u] /\ token'[u] = token[u] /\ req'[u] = req[u]
    BY <1>1, <1>4 DEF Receive, Step, Reply, Acquire, FindLock, CreateLock, AuthLock, WriterWaits,
      Find, Auth, Create, Publish, Goto
  <2>2. QED
    BY <1>2, <2>1
<1>5. CASE Find(u)
  <2>1. tokens[req[u].identy] # NoToken /\ token'[u] = tokens[req[u].identy]
        /\ UNCHANGED <<req, sessions>>
    BY <1>1, <1>5 DEF Find, Goto
  <2>2. req[u].identy \in Identities
    BY <2>1, EnsureFields
  <2>3. writers = {}
    BY <1>5 DEF Find, Inv, LockInv, Exclusion
  <2>4. QED
    BY <2>1, <2>2, <2>3, ReadersSee DEF RegisteredIsLive, HasSession
<1>6. CASE Publish(u)
  <2>1. UNCHANGED <<token, req>>
    BY <1>6 DEF Publish
  <2>2. QED
    BY <1>6, <2>1, PublishShape, TokenAssumption DEF HasSession
<1>7. CASE Auth(u)
  BY <1>7, EnsureFields, AuthFields DEF Auth, Inv, TypeOK
<1>8. CASE Receive(u) \/ Reply(u) \/ Acquire(u) \/ Create(u)
  BY <1>1, <1>8 DEF Receive, Reply, Acquire, FindLock, CreateLock, AuthLock, Create, Goto
<1>9. CASE WriterWaits(u)
  BY <1>1, <1>9 DEF WriterWaits
<1>10. QED
  BY <1>3, <1>4, <1>5, <1>6, <1>7, <1>8, <1>9 DEF Next, Step

\* The inductive invariant holds in every behaviour.
LEMMA Invariance == Spec => []Inv
<1>1. Inv /\ [Next]_vars => Inv'
  BY TypeStep, LockStep, PublishStep, IssuedStep DEF Inv
<1>2. QED
  BY <1>1, InitInv, PTL DEF Spec

\* Every variable keeps its type, whatever the threads do.
THEOREM TypeCorrect == Spec => []TypeOK
<1>1. Inv => TypeOK
  BY DEF Inv
<1>2. QED
  BY <1>1, Invariance, PTL

\* The case ensure's comment rules out, a registered token without a session,
\* is indeed never seen under the ReadLock.
THEOREM ElseIsImpossible == Spec => []RegisteredIsLive
<1>1. QED
  BY ReadersSee, Invariance, PTL

\* Whichever thread wins the race between ensure's two locks, every client
\* gets a token that stands for its identity.
THEOREM TokensIssued == Spec => []IssuedIsLive
<1>1. Inv => IssuedIsLive
  BY DEF Inv
<1>2. QED
  BY <1>1, Invariance, PTL

\* Tokens and sessions, once there, stay: references to them never dangle.
THEOREM NothingRevoked == Spec => SessionsPersist
<1>1. Inv /\ [Next]_vars =>
        [/\ \A i \in Identities : tokens[i] # NoToken => tokens'[i] = tokens[i]
         /\ \A k \in DOMAIN sessions :
              /\ k \in DOMAIN sessions' /\ sessions'[k] = sessions[k]
              /\ now >= sessions[k].expire => now' >= sessions'[k].expire]_vars
  <2> SUFFICES ASSUME Inv, [Next]_vars, NEW k \in DOMAIN sessions
               PROVE  now >= sessions[k].expire => now' >= sessions[k].expire
    BY Persist
  <2>1. sessions[k].expire \in Nat
    BY DEF Inv, TypeOK, SessionType, Times
  <2>2. QED
    BY <2>1, Persist
<1>2. QED
  BY <1>1, Invariance, PTL DEF Spec, SessionsPersist

-----------------------------------------------------------------------------
(* Spare sessions: every thread makes one for an identity at most, since it  *)
(* must have found no token, and finds the one it has registered ever after. *)

Making(i) == {t \in Threads : pc[t] \in {"create_lock", "create", "publish"} /\ req[t].identy = i}
Made(i)   == {k \in DOMAIN sessions : sessions[k].identy = i}

SpareInv ==
  /\ \A t \in Threads : pc[t] = "publish" => tokens[req[t].identy] # NoToken
  /\ \A i \in Identities :
       /\ IsFiniteSet(Made(i))
       /\ tokens[i] = NoToken => Made(i) = {}
       /\ Cardinality(Made(i)) + Cardinality(Making(i)) <= Cardinality(Threads)

\* There are at most as many makers as threads.
LEMMA MakersFinite ==
  ASSUME NEW S, S \subseteq Threads
  PROVE  /\ IsFiniteSet(S) /\ Cardinality(S) \in Nat /\ Cardinality(Threads) \in Nat
         /\ Cardinality(S) <= Cardinality(Threads)
BY ThreadsAssumption, FS_Subset, FS_CardinalityType

\* Only who finds no token goes on to make one, and only Publish makes it.
LEMMA SpareShapes ==
  ASSUME Inv, [Next]_vars, NEW i \in Identities
  PROVE  /\ tokens[i] # NoToken => Making(i)' \subseteq Making(i)
         /\ \/ Made(i)' = Made(i)
            \/ \E t \in Making(i) : /\ Publish(t) /\ Making(i)' \subseteq Making(i) \ {t}
                                    /\ Made(i)' = Made(i) \cup {token[t]}
                                    /\ token[t] \notin Made(i)
<1>1. CASE UNCHANGED vars \/ Tick
  <2>1. UNCHANGED <<pc, req, sessions>>
    BY <1>1 DEF vars, Tick
  <2>2. QED
    BY <2>1 DEF Making, Made
<1>2. ASSUME NEW u \in Threads, Publish(u)
      PROVE  /\ Making(i)' \subseteq Making(i) \ {u}
             /\ \/ Made(i)' = Made(i)
                \/ u \in Making(i) /\ Made(i)' = Made(i) \cup {token[u]} /\ token[u] \notin Made(i)
  <2>1. /\ pc[u] = "publish" /\ pc' = [pc EXCEPT ![u] = "reply"] /\ req' = req
        /\ pc \in [Threads -> Stages]
    BY <1>2 DEF Publish, Goto, Inv, TypeOK
  <2>2. Making(i)' \subseteq Making(i) \ {u}
    BY <2>1 DEF Making
  <2>3. /\ DOMAIN sessions' = DOMAIN sessions \cup {token[u]}
        /\ \A k \in DOMAIN sessions : sessions'[k] = sessions[k]
        /\ sessions'[token[u]].identy = req[u].identy
        /\ token[u] \notin DOMAIN sessions
    BY <1>2, PublishShape
  <2>4. CASE req[u].identy = i
    <3>1. u \in Making(i) /\ token[u] \notin Made(i)
      BY <2>1, <2>3, <2>4 DEF Making, Made
    <3>2. Made(i)' = Made(i) \cup {token[u]}
      BY <2>3, <2>4 DEF Made
    <3>3. QED
      BY <2>2, <3>1, <3>2
  <2>5. CASE req[u].identy # i
    <3>1. Made(i)' = Made(i)
      BY <2>3, <2>5 DEF Made
    <3>2. QED
      BY <2>2, <3>1
  <2>6. QED
    BY <2>4, <2>5
<1>3. ASSUME NEW u \in Threads,
             Receive(u) \/ Reply(u) \/ Acquire(u) \/ WriterWaits(u) \/ Find(u) \/ Create(u) \/ Auth(u)
      PROVE  /\ tokens[i] # NoToken => Making(i)' \subseteq Making(i)
             /\ Made(i)' = Made(i)
  <2>1. sessions' = sessions
    BY <1>3 DEF Receive, Reply, Acquire, FindLock, CreateLock, AuthLock, WriterWaits, Find, Create, Auth
  <2>2. Made(i)' = Made(i)
    BY <2>1 DEF Made
  <2>3. \A t \in Threads \ {u} : pc'[t] = pc[t] /\ req'[t] = req[t]
    BY <1>3 DEF Receive, Reply, Acquire, FindLock, CreateLock, AuthLock, WriterWaits, Find, Create,
                Auth, Goto, Inv, TypeOK
  <2>4. tokens[i] # NoToken /\ u \in Making(i)' => u \in Making(i)
    <3>1. CASE Find(u)
      <4>1. /\ pc'[u] = IF tokens[req[u].identy] = NoToken THEN "create_lock" ELSE "reply"
            /\ req' = req
        BY <3>1 DEF Find, Goto, Inv, TypeOK
      <4>2. QED
        BY <4>1 DEF Making
    <3>2. CASE Receive(u) \/ Reply(u) \/ Auth(u)
      <4>1. pc'[u] \in {"idle", "find_lock", "auth_lock", "reply"}
        BY <3>2 DEF Receive, Reply, Auth, Goto, Inv, TypeOK
      <4>2. QED
        BY <4>1 DEF Making
    <3>3. CASE FindLock(u) \/ AuthLock(u)
      <4>1. pc'[u] \in {"find", "auth"}
        BY <3>3 DEF FindLock, AuthLock, Goto, Inv, TypeOK
      <4>2. QED
        BY <4>1 DEF Making
    <3>4. CASE CreateLock(u) \/ WriterWaits(u) \/ Create(u)
      <4>1. pc[u] \in {"create_lock", "create"} /\ req' = req
        BY <3>4 DEF CreateLock, WriterWaits, Create
      <4>2. QED
        BY <4>1 DEF Making
    <3>5. QED
      BY <1>3, <3>1, <3>2, <3>3, <3>4 DEF Acquire
  <2>5. tokens[i] # NoToken => Making(i)' \subseteq Making(i)
    BY <2>3, <2>4 DEF Making
  <2>6. QED
    BY <2>2, <2>5
<1>4. CASE Next
  BY <1>1, <1>2, <1>3, <1>4 DEF Next, Step
<1>5. QED
  BY <1>1, <1>4

\* Once past Create a thread's identity has a token.
LEMMA RegisteredBeforePublish ==
  ASSUME Inv, SpareInv, [Next]_vars, NEW t \in Threads, pc'[t] = "publish"
  PROVE  tokens'[req'[t].identy] # NoToken
<1>1. CASE pc[t] = "publish" /\ pc'[t] = pc[t] /\ req'[t] = req[t]
  <2>1. req[t].identy \in Identities /\ tokens[req[t].identy] # NoToken
    BY <1>1, EnsureFields DEF SpareInv, Inv, TypeOK
  <2>2. QED
    BY <1>1, <2>1, Persist
<1>2. CASE UNCHANGED vars \/ Tick
  BY <1>1, <1>2 DEF vars, Tick
<1>3. ASSUME NEW u \in Threads, Receive(u) \/ Step(u), u # t
      PROVE  tokens'[req'[t].identy] # NoToken
  <2>1. pc'[t] = pc[t] /\ req'[t] = req[t]
    BY <1>3 DEF Receive, Step, Reply, Acquire, FindLock, CreateLock, AuthLock, WriterWaits, Find,
                Create, Publish, Auth, Goto, Inv, TypeOK
  <2>2. QED
    BY <1>1, <2>1
<1>4. ASSUME Receive(t) \/ Step(t)
      PROVE  tokens'[req'[t].identy] # NoToken
  <2>1. Create(t)
    BY <1>4 DEF Receive, Step, Reply, Acquire, FindLock, CreateLock, AuthLock, WriterWaits, Find,
                Publish, Auth, Goto, Inv, TypeOK
  <2>2. PICK k \in FreshTokens : Register(req[t].identy, k)
    BY <2>1 DEF Create
  <2>3. req[t].identy \in Identities /\ req' = req
    BY <2>1, EnsureFields DEF Create, Inv, TypeOK
  <2>4. k # NoToken
    BY TokenAssumption DEF FreshTokens
  <2>5. QED
    BY <2>2, <2>3, <2>4 DEF Register, Inv, TypeOK
<1>5. QED
  BY <1>2, <1>3, <1>4 DEF Next

LEMMA SpareStep ==
  ASSUME Inv, SpareInv, [Next]_vars
  PROVE  SpareInv'
<1>1. SUFFICES ASSUME NEW i \in Identities
               PROVE  /\ IsFiniteSet(Made(i)')
                      /\ tokens'[i] = NoToken => Made(i)' = {}
                      /\ Cardinality(Made(i)') + Cardinality(Making(i)') <= Cardinality(Threads)
  BY RegisteredBeforePublish DEF SpareInv, Made, Making
<1>2. /\ IsFiniteSet(Made(i))
      /\ tokens[i] = NoToken => Made(i) = {}
      /\ Cardinality(Made(i)) + Cardinality(Making(i)) <= Cardinality(Threads)
  BY DEF SpareInv
<1>3. tokens[i] # NoToken => tokens'[i] # NoToken
  BY Persist
<1>4. Making(i) \subseteq Threads /\ Making(i)' \subseteq Threads
  BY DEF Making
<1>5. /\ IsFiniteSet(Making(i)) /\ Cardinality(Making(i)) \in Nat
      /\ Cardinality(Making(i)') \in Nat /\ Cardinality(Making(i)') <= Cardinality(Threads)
      /\ Cardinality(Threads) \in Nat
  BY <1>4, MakersFinite
<1>6. CASE Made(i)' = Made(i)
  <2>1. CASE tokens[i] = NoToken
    BY <1>2, <1>5, <1>6, <2>1, FS_EmptySet
  <2>2. CASE tokens[i] # NoToken
    <3>1. Cardinality(Making(i)') <= Cardinality(Making(i))
      BY <1>5, <2>2, SpareShapes, FS_Subset
    <3>2. Cardinality(Made(i)) \in Nat
      BY <1>2, FS_CardinalityType
    <3>3. QED
      BY <1>2, <1>3, <1>5, <1>6, <2>2, <3>1, <3>2
  <2>3. QED
    BY <2>1, <2>2
<1>7. ASSUME NEW t \in Making(i), Publish(t), Making(i)' \subseteq Making(i) \ {t},
             Made(i)' = Made(i) \cup {token[t]}, token[t] \notin Made(i)
      PROVE  /\ IsFiniteSet(Made(i)') /\ tokens'[i] # NoToken
             /\ Cardinality(Made(i)') + Cardinality(Making(i)') <= Cardinality(Threads)
  <2>1. tokens[i] # NoToken
    BY <1>7 DEF SpareInv, Making, Publish
  <2>2. IsFiniteSet(Made(i)') /\ Cardinality(Made(i)') = Cardinality(Made(i)) + 1
    BY <1>2, <1>7, FS_AddElement
  <2>3. /\ IsFiniteSet(Making(i) \ {t})
        /\ Cardinality(Making(i) \ {t}) = Cardinality(Making(i)) - 1
    BY <1>5, <1>7, FS_RemoveElement
  <2>4. Cardinality(Making(i)') <= Cardinality(Making(i) \ {t})
    BY <1>7, <2>3, FS_Subset
  <2>5. Cardinality(Made(i)) \in Nat
    BY <1>2, FS_CardinalityType
  <2>6. QED
    BY <1>2, <1>3, <1>5, <2>1, <2>2, <2>3, <2>4, <2>5
<1>8. QED
  BY <1>6, <1>7, SpareShapes

\* An identity never has more sessions than there are threads to race for it.
THEOREM SparesStayBounded == Spec => []SparesBounded
<1>1. Init => SpareInv
  <2> SUFFICES ASSUME Init PROVE SpareInv
    OBVIOUS
  <2>1. \A i \in Identities : Made(i) = {} /\ Making(i) \subseteq Threads
    BY DEF Init, Made, Making
  <2>2. QED
    BY <2>1, MakersFinite, FS_EmptySet DEF Init, SpareInv
<1>2. Inv /\ SpareInv /\ [Next]_vars => SpareInv'
  BY SpareStep
<1>3. SpareInv => SparesBounded
  <2> SUFFICES ASSUME SpareInv, NEW i \in Identities
               PROVE  Cardinality(Made(i)) <= Cardinality(Threads)
    BY DEF SparesBounded, Made
  <2>1. /\ IsFiniteSet(Made(i))
        /\ Cardinality(Made(i)) + Cardinality(Making(i)) <= Cardinality(Threads)
    BY DEF SpareInv
  <2>2. Making(i) \subseteq Threads
    BY DEF Making
  <2>3. QED
    BY <2>1, <2>2, MakersFinite, FS_CardinalityType
<1>4. QED
  BY <1>1, <1>2, <1>3, Invariance, PTL DEF Spec
=============================================================================
