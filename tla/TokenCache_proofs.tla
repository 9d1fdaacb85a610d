--------------------------- MODULE TokenCache_proofs ---------------------------
(* Theorems about TokenCache, for any number of requests and rows. *)
EXTENDS TokenCache, TLAPS

-----------------------------------------------------------------------------
LEMMA NoneIsNoRow == None \notin Rows
BY TokenAssumption DEF Rows

\* A step of a request moves it and nothing but the cache.
LEMMA StepKeepsTypes ==
  ASSUME TypeOK, NEW q \in Requests, Step(q)
  PROVE  TypeOK'
<1> USE DEF TypeOK, At, Goto, Idle
<1>1. CASE Get(q)  BY <1>1 DEF Get
<1>2. CASE Lookup(q)
  <2>1. CASE Goto(q, "set")  BY <1>2, <2>1 DEF Lookup
  <2>2. CASE req' = [req EXCEPT ![q] = Idle]  BY <1>2, <2>2 DEF Lookup
  <2> QED BY <1>2, <2>1, <2>2 DEF Lookup
<1>3. CASE Set(q)
  <2>1. entries' \in [Rows -> {"none", "live", "expired"}]  BY <1>3 DEF Set
  <2>2. req' \in [Requests -> [pc : {"idle", "get", "lookup", "set", "next"},
                               token : Rows \cup {None}]]
    BY <1>3 DEF Set
  <2> QED BY <1>3, <2>1, <2>2 DEF Set
<1>4. CASE ServeHTTP(q)  BY <1>4 DEF ServeHTTP
<1> QED BY <1>1, <1>2, <1>3, <1>4 DEF Step

LEMMA NextKeepsTypes == TypeOK /\ [Next]_vars => TypeOK'
<1> SUFFICES ASSUME TypeOK, [Next]_vars PROVE TypeOK'
  OBVIOUS
<1>1. ASSUME NEW q \in Requests, Step(q) PROVE TypeOK'
  BY <1>1, StepKeepsTypes
<1>2. ASSUME NEW q \in Requests, NEW r \in Rows, Arrive(q, r) PROVE TypeOK'
  BY <1>2 DEF TypeOK, Arrive, At
<1>3. ASSUME NEW r \in Rows, Expire(r) PROVE TypeOK'
  BY <1>3 DEF TypeOK, Expire
<1>4. CASE Cleanup
  BY <1>4 DEF TypeOK, Cleanup
<1>5. CASE CreateInstance
  BY <1>5, TokenAssumption DEF TypeOK, CreateInstance, Rows
<1>6. CASE DeleteInstance
  BY <1>6 DEF TypeOK, DeleteInstance
<1>7. CASE UNCHANGED vars
  BY <1>7 DEF TypeOK, vars
<1> QED BY <1>1, <1>2, <1>3, <1>4, <1>5, <1>6, <1>7 DEF Next

\* Every variable of the middleware and its cache keeps its type.
THEOREM TypeCorrect == Spec => []TypeOK
<1>1. Init => TypeOK
  BY TokenAssumption DEF Init, TypeOK, Idle, Rows
<1> QED BY <1>1, NextKeepsTypes, PTL DEF Spec

-----------------------------------------------------------------------------
\* One step cannot bring a forgotten token back: the cache is only filled by a
\* lookup that has found the row, and a row that is gone is never found again.
LEMMA StepStaysForgotten ==
  ASSUME TypeOK, NEW r \in Rows, Forgotten(r), [Next]_vars
  PROVE  Forgotten(r)'
<1> USE DEF Forgotten, Deleted, TypeOK, At, Goto, Idle
<1>1. ASSUME NEW q \in Requests, Get(q) PROVE Forgotten(r)'
  BY <1>1 DEF Get
<1>2. ASSUME NEW q \in Requests, Lookup(q) PROVE Forgotten(r)'
  BY <1>2, NoneIsNoRow DEF Lookup
<1>3. ASSUME NEW q \in Requests, Set(q) PROVE Forgotten(r)'
  <2>1. req[q].token # r  BY <1>3 DEF Set
  <2>2. entries'[r] = entries[r]  BY <1>3, <2>1 DEF Set
  <2> QED BY <1>3, <2>1, <2>2 DEF Set
<1>4. ASSUME NEW q \in Requests, ServeHTTP(q) PROVE Forgotten(r)'
  BY <1>4, NoneIsNoRow DEF ServeHTTP
<1>5. ASSUME NEW q \in Requests, NEW n \in Rows, Arrive(q, n) PROVE Forgotten(r)'
  BY <1>5 DEF Arrive
<1>6. ASSUME NEW n \in Rows, Expire(n) PROVE Forgotten(r)'
  BY <1>6 DEF Expire
<1>7. CASE Cleanup
  BY <1>7 DEF Cleanup
<1>8. CASE CreateInstance
  BY <1>8, TokenAssumption DEF CreateInstance, Rows
<1>9. CASE DeleteInstance
  BY <1>9, NoneIsNoRow DEF DeleteInstance
<1>10. CASE UNCHANGED vars
  BY <1>10 DEF vars
<1> QED
  BY <1>1, <1>2, <1>3, <1>4, <1>5, <1>6, <1>7, <1>8, <1>9, <1>10 DEF Next, Step

\* StaysForgotten: a token that is forgotten stays so, whatever order requests,
\* creations of the name and expiries come in.
THEOREM ForgottenForGood == Spec => StaysForgotten
<1>1. TypeOK /\ [Next]_vars => [\A r \in Rows : Forgotten(r) => Forgotten(r)']_vars
  BY StepStaysForgotten
<1> QED BY <1>1, TypeCorrect, PTL DEF Spec, StaysForgotten

=============================================================================
