------------------------------- MODULE Session ------------------------------
(***************************************************************************)
(* taboo::SessionManager: the tokens handed out by /manage/get_access_token*)
(* and the sessions they stand for, under concurrent handlers.  ensure     *)
(* looks for the identity's token under a ReadLock, drops it, and if there *)
(* was none makes one under a WriteLock without looking again.  auth has   *)
(* no caller in the repository; it is modelled as the class offers it.     *)
(***************************************************************************)
EXTENDS Naturals, FiniteSets, SharedMutex

CONSTANTS
  Threads,
  Identities,
  Tokens,       \* what _createToken can produce
  NoToken,
  Presented,    \* tokens that clients come with
  Filters,      \* filters a token restricts its queries to
  MaxTime,      \* bound on std::time
  NoRequest

ASSUME TokenAssumption == NoToken \notin Tokens

ASSUME TimeAssumption == MaxTime \in Nat

ASSUME ThreadsAssumption == IsFiniteSet(Threads)

Times == 0 .. MaxTime

\* expire is what the client asked for, or now plus Config::tokenDefaultExpire,
\* a field nothing initialises: any time at all.
EnsureRequest == [op : {"ensure"}, identy : Identities, filters : Filters, expire : Times]
AuthRequest   == [op : {"auth"}, token : Presented]
Requests == EnsureRequest \cup AuthRequest

ASSUME RequestAssumption == NoRequest \notin Requests

SessionType == [identy : Identities, filters : Filters, expire : Times]

VARIABLES
  tokens,     \* identity -> its token, NoToken if it has none
  sessions,   \* token -> session, for the tokens made so far
  now,        \* the system clock
  pc, req,
  token,      \* thread -> the token ensure returns, NoToken before that
  granted     \* thread -> whether auth found a session that had not expired

vars == <<tokens, sessions, now, pc, req, token, granted, mutexVars>>

Stages == {"idle", "find_lock", "find", "create_lock", "create", "publish",
           "auth_lock", "auth", "reply"}

Init ==
  /\ tokens = [i \in Identities |-> NoToken]
  /\ sessions = [k \in {} |-> {}]
  /\ now = 0
  /\ pc = [t \in Threads |-> "idle"]
  /\ req = [t \in Threads |-> NoRequest]
  /\ token = [t \in Threads |-> NoToken]
  /\ granted = [t \in Threads |-> FALSE]
  /\ MutexInit

Goto(t, stage) == pc' = [pc EXCEPT ![t] = stage]

Tick ==
  /\ now < MaxTime
  /\ now' = now + 1
  /\ UNCHANGED <<tokens, sessions, pc, req, token, granted, mutexVars>>

Receive(t) ==
  /\ pc[t] = "idle"
  /\ \E r \in Requests :
       /\ req' = [req EXCEPT ![t] = r]
       /\ Goto(t, IF r.op = "ensure" THEN "find_lock" ELSE "auth_lock")
  /\ UNCHANGED <<tokens, sessions, now, token, granted, mutexVars>>

Reply(t) ==
  /\ pc[t] = "reply"
  /\ Goto(t, "idle")
  /\ req' = [req EXCEPT ![t] = NoRequest]
  /\ token' = [token EXCEPT ![t] = NoToken]
  /\ granted' = [granted EXCEPT ![t] = FALSE]
  /\ UNCHANGED <<tokens, sessions, now, mutexVars>>

-----------------------------------------------------------------------------
(* ensure *)

FindLock(t) ==
  /\ pc[t] = "find_lock"
  /\ LockShared(t)
  /\ Goto(t, "find")
  /\ UNCHANGED <<tokens, sessions, now, req, token, granted>>

\* Slip: the ReadLock lives to the end of ensure.
FindKeepsLock(t) ==
  /\ pc[t] = "find"
  /\ token' = [token EXCEPT ![t] = tokens[req[t].identy]]
  /\ IF tokens[req[t].identy] = NoToken
       THEN UNCHANGED mutexVars /\ Goto(t, "create_lock")
       ELSE UnlockShared(t) /\ Goto(t, "reply")
  /\ UNCHANGED <<tokens, sessions, now, req, granted>>

Find(t) ==
  /\ pc[t] = "find"
  /\ token' = [token EXCEPT ![t] = tokens[req[t].identy]]
  /\ UnlockShared(t)
  /\ Goto(t, IF tokens[req[t].identy] = NoToken THEN "create_lock" ELSE "reply")
  /\ UNCHANGED <<tokens, sessions, now, req, granted>>

\* Slip: the WriteLock is forgotten.
CreateNoLock(t) ==
  /\ pc[t] = "create_lock"
  /\ Goto(t, "create")
  /\ UNCHANGED <<tokens, sessions, now, req, token, granted, mutexVars>>

CreateLock(t) ==
  /\ pc[t] = "create_lock"
  /\ Lock(t)
  /\ Goto(t, "create")
  /\ UNCHANGED <<tokens, sessions, now, req, token, granted>>

WriterWaits(t) ==
  /\ pc[t] = "create_lock"
  /\ AwaitLock
  /\ UNCHANGED <<tokens, sessions, now, pc, req, token, granted>>

\* Slip: createToken does not look for collisions.
AnyTokens == Tokens

\* createToken draws until the token is not in sessions.
FreshTokens == Tokens \ DOMAIN sessions

\* Slip: tokens[identy] = token.
RegisterOverwrites(i, k) == tokens' = [tokens EXCEPT ![i] = k]

\* Slip: the token is made and never entered under its identity.
RegisterForgotten(i, k) == UNCHANGED tokens

\* unordered_map::insert leaves the token that is already there.
Register(i, k) ==
  tokens' = IF tokens[i] = NoToken THEN [tokens EXCEPT ![i] = k] ELSE tokens

Create(t) ==
  /\ pc[t] = "create"
  /\ \E k \in FreshTokens :
       /\ token' = [token EXCEPT ![t] = k]
       /\ Register(req[t].identy, k)
  /\ Goto(t, "publish")
  /\ UNCHANGED <<sessions, now, req, granted, mutexVars>>

\* Slip: the session is made by Session().
DefaultSession(r) == [identy |-> 0, filters |-> r.filters, expire |-> 0]

NewSession(r) == [identy |-> r.identy, filters |-> r.filters, expire |-> r.expire]

\* The session itself, then the WriteLock goes.
Publish(t) ==
  /\ pc[t] = "publish"
  /\ sessions' = [k \in DOMAIN sessions \cup {token[t]} |->
       IF k \in DOMAIN sessions THEN sessions[k] ELSE NewSession(req[t])]
  /\ Unlock(t)
  /\ Goto(t, "reply")
  /\ UNCHANGED <<tokens, now, req, token, granted>>

-----------------------------------------------------------------------------
(* auth *)

AuthLock(t) ==
  /\ pc[t] = "auth_lock"
  /\ LockShared(t)
  /\ Goto(t, "auth")
  /\ UNCHANGED <<tokens, sessions, now, req, token, granted>>

Auth(t) ==
  /\ pc[t] = "auth"
  /\ granted' = [granted EXCEPT ![t] =
       req[t].token \in DOMAIN sessions /\ now < sessions[req[t].token].expire]
  /\ UnlockShared(t)
  /\ Goto(t, "reply")
  /\ UNCHANGED <<tokens, sessions, now, req, token>>
-----------------------------------------------------------------------------
Acquire(t) == FindLock(t) \/ CreateLock(t) \/ AuthLock(t)

Step(t) ==
  \/ Acquire(t) \/ WriterWaits(t)
  \/ Find(t) \/ Create(t) \/ Publish(t) \/ Auth(t) \/ Reply(t)

Next == Tick \/ \E t \in Threads : Receive(t) \/ Step(t)

Spec == Init /\ [][Next]_vars

\* A handler runs on; a thread that keeps finding the mutex free gets it.
Fairness == \A t \in Threads : WF_vars(Step(t)) /\ SF_vars(Acquire(t))

FairSpec == Spec /\ Fairness

-----------------------------------------------------------------------------
(* Properties *)

\* Every local and every shared variable holds a value of its C++ type, and a
\* thread runs the handler of the request it has.
TypeOK ==
  /\ tokens \in [Identities -> Tokens \cup {NoToken}]
  /\ DOMAIN sessions \subseteq Tokens
  /\ sessions \in [DOMAIN sessions -> SessionType]
  /\ now \in Times
  /\ pc \in [Threads -> Stages]
  /\ req \in [Threads -> Requests \cup {NoRequest}]
  /\ token \in [Threads -> Tokens \cup {NoToken}]
  /\ granted \in [Threads -> BOOLEAN]
  /\ HeldAmong(Threads)
  /\ \A t \in Threads :
       /\ pc[t] \in {"find_lock", "find", "create_lock", "create", "publish"}
            => req[t] \in EnsureRequest
       /\ pc[t] \in {"auth_lock", "auth"} => req[t] \in AuthRequest

HasSession(i, k) == k \in DOMAIN sessions /\ sessions[k].identy = i

\* Whoever may read the maps finds a session of the same identity behind each
\* registered token; ensure says of the contrary "else is impossible".
RegisteredIsLive ==
  writers = {} => \A i \in Identities : tokens[i] # NoToken => HasSession(i, tokens[i])

\* ensure answers with a token that stands for the identity that asked, even
\* when another thread registered a token between its two locks.
IssuedIsLive ==
  \A t \in Threads : pc[t] = "reply" /\ req[t] \in EnsureRequest
    => token[t] # NoToken /\ HasSession(req[t].identy, token[t])

\* The gap between the locks costs at most one session per thread: an identity
\* has spare tokens, but never more than there are threads to race for it.
SparesBounded ==
  \A i \in Identities :
    Cardinality({k \in DOMAIN sessions : sessions[k].identy = i}) <= Cardinality(Threads)

\* A registered token is registered for good, a session stays as it was made,
\* and one that has expired stays so: the references that ensure and auth
\* return after their locks are gone stay good.
SessionsPersist ==
  [][/\ \A i \in Identities : tokens[i] # NoToken => tokens'[i] = tokens[i]
     /\ \A k \in DOMAIN sessions :
          /\ k \in DOMAIN sessions' /\ sessions'[k] = sessions[k]
          /\ now >= sessions[k].expire => now' >= sessions'[k].expire]_vars

\* No request waits for ever (under FairSpec).
EveryRequestAnswered == \A t \in Threads : req[t] # NoRequest ~> pc[t] = "reply"

-----------------------------------------------------------------------------
(* A claim of the repository the code does not keep *)

\* A request for a token states when the token is to expire
\* ("key-manage-request-expire"), and the token it gets expires then.
EnsureHonoursExpire ==
  \A t \in Threads : pc[t] = "reply" /\ req[t] \in EnsureRequest
    => sessions[token[t]].expire = req[t].expire
=============================================================================
