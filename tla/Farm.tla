-------------------------------- MODULE Farm --------------------------------
(***************************************************************************)
(* taboo::Farm: funnels (the sets of item ids attached to one string, by   *)
(* funnel id) and the dictionary of items.                                 *)
(***************************************************************************)
EXTENDS Domain

VARIABLES
  funnelDict,   \* funnel id -> ids of the items in that funnel
  itemDict      \* item id -> document, NoDoc if there is no such item

farmVars == <<funnelDict, itemDict>>

FarmTypeOK ==
  /\ DOMAIN funnelDict \subseteq Nat
  /\ funnelDict \in [DOMAIN funnelDict -> SUBSET Ids]
  /\ itemDict \in [Ids -> Docs \cup {NoDoc}]

FarmInit ==
  /\ funnelDict = [f \in {} |-> {}]
  /\ itemDict = [i \in Ids |-> NoDoc]

\* Farm::funnel, which answers an empty funnel for an unknown id.
Funnel(f) == IF f \in DOMAIN funnelDict THEN funnelDict[f] ELSE {}

\* What Farm::attach returns.
Attaches(f, id, upsert) == id \notin Funnel(f) \/ upsert

\* Slip: itemDict[item->id] = item.
InsertItemOverwrites(item) == itemDict' = [itemDict EXCEPT ![item.id] = item.doc]

\* unordered_map::insert leaves the item that is already there.
InsertItem(item) ==
  itemDict' = IF itemDict[item.id] = NoDoc
                THEN [itemDict EXCEPT ![item.id] = item.doc]
                ELSE itemDict

\* Slip: the item is filed only when its funnel is created.
FarmAttachNewFunnelOnly(f, item, upsert) ==
  /\ funnelDict' = [g \in DOMAIN funnelDict \cup {f} |->
                      IF g = f THEN Funnel(f) \cup {item.id} ELSE funnelDict[g]]
  /\ IF f \notin DOMAIN funnelDict THEN InsertItem(item) ELSE UNCHANGED itemDict

FarmAttach(f, item, upsert) ==
  /\ funnelDict' = [g \in DOMAIN funnelDict \cup {f} |->
                      IF g = f THEN Funnel(f) \cup {item.id} ELSE funnelDict[g]]
  /\ IF Attaches(f, item.id, upsert) THEN InsertItem(item) ELSE UNCHANGED itemDict
=============================================================================
