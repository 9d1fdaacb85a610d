------------------------------ MODULE TokenCache ------------------------------
(***************************************************************************)
(* RequireAuth (internal/auth/middleware.go) and its cache of tokens       *)
(* (internal/cache/cache.go) over instances that are deleted and created   *)
(* again under the same name.  The cache call and the store call of a      *)
(* request are steps of their own, and nobody calls InvalidateToken.       *)
(*                                                                         *)
(* A token is named by the row it was made for: there is one per row.      *)
(***************************************************************************)
EXTENDS Integers, FiniteSets

CONSTANTS
  Requests,    \* requests that can be under way (bound)
  MaxRows,     \* creations of the instance (bound)
  None

ASSUME TokenAssumption ==
  /\ IsFiniteSet(Requests)
  /\ MaxRows \in Nat \ {0}
  /\ None \notin Int

Rows == 1..MaxRows

VARIABLES
  row,      \* the instances table: the id of the name's row, or None
  made,     \* rows created so far
  entries,  \* instanceCache by token: "none", "live" or "expired"
  req       \* requests under way: [pc, token]

vars == <<row, made, entries, req>>

Idle == [pc |-> "idle", token |-> None]
At(q, pc) == req[q].pc = pc
Goto(q, pc) == req' = [req EXCEPT ![q].pc = pc]

-----------------------------------------------------------------------------
(* RequireAuth *)

\* extractToken, and a token that is not the global key.
Arrive(q, r) ==
  /\ At(q, "idle") /\ r <= made
  /\ req' = [req EXCEPT ![q] = [pc |-> "get", token |-> r]]
  /\ UNCHANGED <<row, made, entries>>

\* Mutant: Get does not look at ExpiresAt.
GetIgnoresExpiry(q) ==
  /\ At(q, "get")
  /\ Goto(q, IF entries[req[q].token] = "none" THEN "lookup" ELSE "next")
  /\ UNCHANGED <<row, made, entries>>

\* Cache.Get
Get(q) ==
  /\ At(q, "get")
  /\ Goto(q, IF entries[req[q].token] = "live" THEN "next" ELSE "lookup")
  /\ UNCHANGED <<row, made, entries>>

\* Mutant: whatever the lookup says is cached.
LookupCachesAny(q) ==
  /\ At(q, "lookup")
  /\ Goto(q, "set")
  /\ UNCHANGED <<row, made, entries>>

\* GetInstanceByToken: no row, or a store that fails, ends the request here.
Lookup(q) ==
  /\ At(q, "lookup")
  /\ \/ row = req[q].token /\ Goto(q, "set")
     \/ req' = [req EXCEPT ![q] = Idle]
  /\ UNCHANGED <<row, made, entries>>

\* Cache.Set, with what the lookup found.
Set(q) ==
  /\ At(q, "set")
  /\ entries' = [entries EXCEPT ![req[q].token] = "live"]
  /\ Goto(q, "next")
  /\ UNCHANGED <<row, made>>

\* next.ServeHTTP: the handler runs with the instance of the cache or the store.
ServeHTTP(q) ==
  /\ At(q, "next")
  /\ req' = [req EXCEPT ![q] = Idle]
  /\ UNCHANGED <<row, made, entries>>

-----------------------------------------------------------------------------
(* Time, Cleanup and the instances table *)

Expire(r) ==
  /\ entries[r] = "live"
  /\ entries' = [entries EXCEPT ![r] = "expired"]
  /\ UNCHANGED <<row, made, req>>

Cleanup ==
  /\ \E r \in Rows : entries[r] = "expired"
  /\ entries' = [r \in Rows |-> IF entries[r] = "expired" THEN "none" ELSE entries[r]]
  /\ UNCHANGED <<row, made, req>>

\* Mutant: the row gets the number of the one before.
CreateInstanceOldId ==
  /\ row = None /\ made < MaxRows
  /\ made' = made + 1 /\ row' = made
  /\ UNCHANGED <<entries, req>>

CreateInstance ==
  /\ row = None /\ made < MaxRows
  /\ made' = made + 1 /\ row' = made + 1
  /\ UNCHANGED <<entries, req>>

DeleteInstance ==
  /\ row # None
  /\ row' = None
  /\ UNCHANGED <<made, entries, req>>

-----------------------------------------------------------------------------
Init ==
  /\ row = None /\ made = 0
  /\ entries = [r \in Rows |-> "none"]
  /\ req = [q \in Requests |-> Idle]

Step(q) == Get(q) \/ Lookup(q) \/ Set(q) \/ ServeHTTP(q)

Next ==
  \/ \E q \in Requests : Step(q) \/ \E r \in Rows : Arrive(q, r)
  \/ \E r \in Rows : Expire(r)
  \/ Cleanup \/ CreateInstance \/ DeleteInstance

Spec == Init /\ [][Next]_vars

\* Requests go on and time passes; the cleanup is not needed.
Fairness ==
  /\ \A q \in Requests : WF_vars(Step(q))
  /\ \A r \in Rows : WF_vars(Expire(r))

FairSpec == Spec /\ Fairness

-----------------------------------------------------------------------------
(* Properties *)

\* Every variable has its type.
TypeOK ==
  /\ row \in Rows \cup {None} /\ made \in 0..MaxRows
  /\ entries \in [Rows -> {"none", "live", "expired"}]
  /\ req \in [Requests -> [pc : {"idle", "get", "lookup", "set", "next"},
                           token : Rows \cup {None}]]

Deleted(r) == r <= made /\ row # r

\* Nothing remembers the token any more: no live entry, no lookup on its way to
\* the cache and no handler running with it.
Forgotten(r) ==
  /\ Deleted(r) /\ entries[r] # "live"
  /\ \A q \in Requests : req[q].token = r => req[q].pc \notin {"set", "next"}

\* A token that is forgotten stays so: no order of requests, creations of the
\* name and expiries brings it back (middleware.go:61-75, cache.go:30-48).
StaysForgotten == [][\A r \in Rows : Forgotten(r) => Forgotten(r)']_vars

\* The token of an instance that was deleted stops working, although nobody
\* invalidates it and a lookup from before the deletion may put it into the cache
\* afterwards (middleware.go:36-39, 61-75).
TokenDies == \A r \in Rows : Deleted(r) ~> []Forgotten(r)

=============================================================================
