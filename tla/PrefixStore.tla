---------------------------- MODULE PrefixStore -----------------------------
(***************************************************************************)
(* What taboo promises its clients: a relation between strings and items.  *)
(* Every request takes effect at one instant between its call and its      *)
(* return.  An attach adds its item under all of its strings at once, the  *)
(* first document of an id stays, and a query lists distinct accepted      *)
(* items attached below its prefix: as many as it may, unless the server   *)
(* stopped after max-iterations funnels.                                   *)
(***************************************************************************)
EXTENDS Domain, SequencesExt

VARIABLES
  assoc,    \* pairs <<string, item id>>
  docs,     \* item id -> document or NoDoc
  phase,    \* thread -> "idle", "called", "done"
  call,     \* thread -> its request
  answer    \* thread -> what its request returns

vars == <<assoc, docs, phase, call, answer>>

NoAnswer == [ok |-> FALSE, items |-> <<>>]

Init ==
  /\ assoc = {}
  /\ docs = [i \in Ids |-> NoDoc]
  /\ phase = [t \in Threads |-> "idle"]
  /\ call = [t \in Threads |-> NoRequest]
  /\ answer = [t \in Threads |-> NoAnswer]

Known(k) == \E i \in Ids : <<k, i>> \in assoc

AddItem(item) ==
  docs' = IF docs[item.id] = NoDoc THEN [docs EXCEPT ![item.id] = item.doc] ELSE docs

Invoke(t) ==
  /\ phase[t] = "idle"
  /\ \E r \in RequestsOf(t) : call' = [call EXCEPT ![t] = r]
  /\ phase' = [phase EXCEPT ![t] = "called"]
  /\ UNCHANGED <<assoc, docs, answer>>

Finish(t, a) ==
  /\ answer' = [answer EXCEPT ![t] = a]
  /\ phase' = [phase EXCEPT ![t] = "done"]
  /\ UNCHANGED call

\* The answer to an attach: without upsert, success needs a string nobody has
\* attached before, and the item must be new under the last string listed.
AttachOk(keys, id, upsert) ==
  \/ upsert
  \/ /\ \E i \in 1 .. Len(keys) : ~ Known(keys[i])
     /\ <<Last(keys), id>> \notin assoc
     /\ Last(keys) \notin ToSet(Front(keys))

Attach(t) ==
  /\ phase[t] = "called" /\ call[t].op = "attach"
  /\ LET r == call[t]
     IN  /\ assoc' = assoc \cup {<<k, r.item.id>> : k \in ToSet(r.keys)}
         /\ AddItem(r.item)
         /\ Finish(t, [ok |-> AttachOk(r.keys, r.item.id, r.upsert), items |-> <<>>])

Update(t) ==
  /\ phase[t] = "called" /\ call[t].op = "update"
  /\ LET r == call[t]
     IN  IF Known(r.key)
           THEN /\ assoc' = assoc \cup {<<r.key, r.item.id>>}
                /\ AddItem(r.item)
                /\ Finish(t, [ok |-> TRUE, items |-> <<>>])
           ELSE /\ Finish(t, NoAnswer)
                /\ UNCHANGED <<assoc, docs>>

KnownUnder(p) == {k \in KeysUnder[p] : Known(k)}

Matches(V, accept) ==
  {[id |-> i, doc |-> docs[i]] :
     i \in {j \in Ids : docs[j] \in accept /\ \E k \in V : <<k, j>> \in assoc}}

\* Strings the iteration budget reaches; the prefix itself is met twice.
Budget(p) == IF Known(p) THEN MaxIterations - 1 ELSE MaxIterations

Full(r, s) ==
  \/ Len(s) = r.num
  \/ \E V \in SUBSET KnownUnder(r.prefix) :
       /\ V = KnownUnder(r.prefix) \/ Cardinality(V) >= Budget(r.prefix)
       /\ Matches(V, r.accept) \subseteq ToSet(s)

Query(t) ==
  /\ phase[t] = "called" /\ call[t].op = "query"
  /\ LET r == call[t]
     IN  \E s \in SeqOf(Matches(KnownUnder(r.prefix), r.accept), r.num) :
           /\ IsInjective(s)
           /\ Full(r, s)
           /\ Finish(t, [ok |-> FALSE, items |-> s])
  /\ UNCHANGED <<assoc, docs>>

Return(t) ==
  /\ phase[t] = "done"
  /\ phase' = [phase EXCEPT ![t] = "idle"]
  /\ call' = [call EXCEPT ![t] = NoRequest]
  /\ answer' = [answer EXCEPT ![t] = NoAnswer]
  /\ UNCHANGED <<assoc, docs>>

Next == \E t \in Threads : Invoke(t) \/ Attach(t) \/ Update(t) \/ Query(t) \/ Return(t)

Spec == Init /\ [][Next]_vars
=============================================================================
