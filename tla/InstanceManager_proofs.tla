----------------------- MODULE InstanceManager_proofs -----------------------
(***************************************************************************)
(* Proofs about InstanceManager for every value of its constants: any      *)
(* number of names, rows, objects and concurrent requests, any faults.     *)
(***************************************************************************)
EXTENDS InstanceManager, TLAPS

-----------------------------------------------------------------------------
(* What the operators the actions are built from keep of the types *)

LEMMA LocalType ==
  ASSUME NEW n \in Maybe(Names), NEW i \in Maybe(Ids), NEW j \in Maybe(Jids), NEW o \in Maybe(Objs)
  PROVE  Local(n, i, j, o) \in OpType
  BY DEF Local, OpType

LEMMA HoldsType ==
  ASSUME TypeOK, NEW p \in Workers, NEW l \in OpType, Holds(p, l)
  PROVE  op' \in [Workers -> OpType]
  BY DEF TypeOK, Holds

LEMMA GotoType ==
  ASSUME TypeOK, NEW p, NEW l \in Labels, Goto(p, l)
  PROVE  pc' \in [Workers -> Labels]
  BY DEF TypeOK, Goto

LEMMA FinishType ==
  ASSUME TypeOK, NEW p \in Workers, Finish(p)
  PROVE  pc' \in [Workers -> Labels] /\ op' \in [Workers -> OpType]
<1>1. NoOp \in OpType
  BY LocalType DEF NoOp, Maybe
<1>2. "idle" \in Labels
  BY DEF Labels
<1>3. QED
  BY <1>1, <1>2, HoldsType, GotoType DEF Finish

LEMMA OpOfWorker ==
  ASSUME TypeOK, NEW p \in Workers
  PROVE  /\ op[p].name \in Maybe(Names) /\ op[p].row \in Maybe(Ids)
         /\ op[p].jid \in Maybe(Jids) /\ op[p].obj \in Maybe(Objs)
  BY DEF TypeOK, OpType

LEMMA StatusType ==
  ASSUME TypeOK, NEW i, NEW s \in {"close", "connecting", "open"}, UpdateInstanceStatus(i, s)
  PROVE  row' \in [Ids -> RowType]
<1>1. CASE i \in Rows /\ row' = [row EXCEPT ![i].status = s]
  BY <1>1 DEF TypeOK, Rows, RowType
<1>2. CASE UNCHANGED row
  BY <1>2 DEF TypeOK
<1>3. QED
  BY <1>1, <1>2 DEF UpdateInstanceStatus, Update

LEMMA PhoneType ==
  ASSUME TypeOK, NEW i, NEW j \in Maybe(Jids), UpdateInstancePhone(i, j)
  PROVE  row' \in [Ids -> RowType]
<1>1. CASE i \in Rows /\ row' = [row EXCEPT ![i].jid = j]
  BY <1>1 DEF TypeOK, Rows, RowType
<1>2. CASE UNCHANGED row
  BY <1>2 DEF TypeOK
<1>3. QED
  BY <1>1, <1>2 DEF UpdateInstancePhone, Update

LEMMA FoundType ==
  ASSUME TypeOK, NEW n, NEW i \in Found(n)
  PROVE  i \in Ids /\ row[i].jid \in Maybe(Jids) /\ row[i].name \in Maybe(Names)
  BY DEF TypeOK, Found, Rows, RowType

LEMMA StoppedType ==
  ASSUME TypeOK, NEW o
  PROVE  Stopped(o) \in [Objs -> {"none", "new", "socket", "in", "retry", "down"}]
  BY DEF TypeOK, Stopped

LEMMA EntryType ==
  ASSUME TypeOK, NEW o, DisconnectEntry(o)
  PROVE  client' \in [Objs -> {"none", "new", "socket", "in", "retry", "down"}]
  BY StoppedType DEF TypeOK, DisconnectEntry

LEMMA ExcuseType ==
  ASSUME TypeOK, NEW n \in Maybe(Names), NEW c, Excuse(n, c)
  PROVE  excused' \subseteq Maybe(Names)
  BY DEF TypeOK, Excuse

-----------------------------------------------------------------------------
(* Each action keeps the types *)

LEMMA TypeRequest ==
  ASSUME TypeOK, NEW p \in Procs, NEW n \in Names, Request(p, n)
  PROVE  TypeOK'
<1> p \in Workers /\ n \in Maybe(Names) /\ None \in Maybe(Ids) /\ None \in Maybe(Jids) /\ None \in Maybe(Objs)
  BY DEF Workers, Maybe
<1> USE DEF dbVars, waVars, hdlVars, procVars, srvVars
<1>1. CASE Create(p, n)
  <2>1. pc' \in [Workers -> Labels] /\ op' \in [Workers -> OpType]
    BY <1>1, LocalType, HoldsType, GotoType DEF Create, TypeOK, Labels
  <2>2. excused' \subseteq Maybe(Names)
    BY <1>1, ExcuseType DEF Create
  <2>3. QED
    BY <1>1, <2>1, <2>2 DEF Create, TypeOK
<1>2. CASE Connect(p, n)
  <2>1. pc' \in [Workers -> Labels] /\ op' \in [Workers -> OpType]
    <3>1. CASE UNCHANGED procVars
      BY <3>1 DEF TypeOK
    <3>2. ASSUME NEW i \in Found(n), Goto(p, "co_evict"), Holds(p, Local(n, i, row[i].jid, None))
          PROVE  pc' \in [Workers -> Labels] /\ op' \in [Workers -> OpType]
      <4>1. i \in Maybe(Ids) /\ row[i].jid \in Maybe(Jids)
        BY FoundType DEF Maybe
      <4>2. Local(n, i, row[i].jid, None) \in OpType
        BY <4>1, LocalType
      <4>3. QED
        BY <3>2, <4>2, HoldsType, GotoType DEF Labels
    <3>3. QED
      BY <1>2, <3>1, <3>2 DEF Connect
  <2>2. excused' \subseteq Maybe(Names)
    BY <1>2, ExcuseType DEF Connect
  <2>3. QED
    BY <1>2, <2>1, <2>2 DEF Connect, TypeOK
<1>3. CASE Restart(p, n)
  <2>1. pc' \in [Workers -> Labels] /\ op' \in [Workers -> OpType]
    BY <1>3, LocalType, HoldsType, GotoType DEF Restart, Labels
  <2>2. client' \in [Objs -> {"none", "new", "socket", "in", "retry", "down"}]
    BY <1>3, EntryType DEF Restart
  <2>3. excused' \subseteq Maybe(Names)
    BY <1>3, ExcuseType DEF Restart
  <2>4. QED
    BY <1>3, <2>1, <2>2, <2>3 DEF Restart, TypeOK, Maybe
<1>4. ASSUME NEW kind, NEW found \in Labels, NEW missing \in Labels, Take(p, n, kind, found, missing)
      PROVE  TypeOK'
  <2>1. instances[n] \in Maybe(Objs)
    BY DEF TypeOK
  <2>2. pc' \in [Workers -> Labels] /\ op' \in [Workers -> OpType]
    BY <1>4, <2>1, LocalType, HoldsType, GotoType DEF Take
  <2>3. excused' \subseteq Maybe(Names)
    BY <1>4, ExcuseType DEF Take
  <2>4. QED
    BY <1>4, <2>2, <2>3 DEF Take, TypeOK, Maybe
<1>5. CASE Logout(p, n) \/ Delete(p, n)
  BY <1>4, <1>5 DEF Logout, Delete, Labels
<1>6. CASE Disconnect(p, n)
  <2>1. instances[n] \in Maybe(Objs)
    BY DEF TypeOK
  <2>2. instances[n] \in Objs => Local(n, info[instances[n]].row, None, instances[n]) \in OpType
    BY <2>1, LocalType DEF TypeOK, InfoType
  <2>3. pc' \in [Workers -> Labels] /\ op' \in [Workers -> OpType]
    BY <1>6, <2>2, HoldsType, GotoType DEF Disconnect, Labels, TypeOK
  <2>4. excused' \subseteq Maybe(Names)
    BY <1>6, ExcuseType DEF Disconnect
  <2>5. QED
    BY <1>6, <2>3, <2>4 DEF Disconnect, TypeOK, Maybe
<1>7. QED
  BY <1>1, <1>2, <1>3, <1>5, <1>6 DEF Request

LEMMA TypeStep ==
  ASSUME TypeOK, NEW p \in Workers, Step(p)
  PROVE  TypeOK'
<1> DEFINE n == op[p].name
<1>a. n \in Maybe(Names) /\ op[p].row \in Maybe(Ids) /\ op[p].jid \in Maybe(Jids) /\ op[p].obj \in Maybe(Objs)
  BY OpOfWorker
<1>b. None \in Maybe(Names) /\ None \in Maybe(Ids) /\ None \in Maybe(Jids) /\ None \in Maybe(Objs)
  BY DEF Maybe
<1> USE DEF dbVars, waVars, hdlVars, procVars, srvVars
<1>1. CASE CreateInsert(p)
  <2>1. row' \in [Ids -> RowType]
    BY <1>1, <1>a, <1>b DEF CreateInsert, TypeOK, RowType
  <2>2. pc' \in [Workers -> Labels] /\ op' \in [Workers -> OpType]
    BY <1>1, FinishType DEF CreateInsert
  <2>3. QED
    BY <1>1, <2>1, <2>2 DEF CreateInsert, TypeOK
<1>2. CASE ConnectEvict(p)
  <2>1. pc' \in [Workers -> Labels]
    BY <1>2, GotoType DEF ConnectEvict, Labels
  <2>2. client' \in [Objs -> {"none", "new", "socket", "in", "retry", "down"}]
    BY <1>2, EntryType DEF ConnectEvict
  <2>3. excused' \subseteq Maybe(Names)
    BY <1>2, <1>a, ExcuseType DEF ConnectEvict
  <2>4. QED
    BY <1>2, <2>1, <2>2, <2>3 DEF ConnectEvict, TypeOK, Maybe
<1>3. CASE RestartLookup(p)
  <2>1. pc' \in [Workers -> Labels] /\ op' \in [Workers -> OpType]
    <3>1. ASSUME NEW i \in Found(n), Goto(p, "new"), Holds(p, Local(n, i, row[i].jid, None))
          PROVE  pc' \in [Workers -> Labels] /\ op' \in [Workers -> OpType]
      <4>1. i \in Maybe(Ids) /\ row[i].jid \in Maybe(Jids)
        BY FoundType DEF Maybe
      <4>2. Local(n, i, row[i].jid, None) \in OpType
        BY <4>1, <1>a, <1>b, LocalType
      <4>3. QED
        BY <3>1, <4>2, HoldsType, GotoType DEF Labels
    <3>2. QED
      BY <1>3, <3>1, FinishType DEF RestartLookup
  <2>2. QED
    BY <1>3, <2>1 DEF RestartLookup, TypeOK
<1>4. CASE NewInstance(p)
  <2>1. pc' \in [Workers -> Labels]
    BY <1>4, GotoType DEF NewInstance, Labels
  <2>2. PICK o \in Objs :
           /\ client' = [client EXCEPT ![o] = "new"]
           /\ \/ op[p].jid \in sessions /\ dev' = [dev EXCEPT ![o] = op[p].jid]
              \/ UNCHANGED dev
           /\ info' = [info EXCEPT ![o] = [row |-> op[p].row, name |-> n]]
           /\ Holds(p, Local(n, op[p].row, None, o))
    BY <1>4 DEF NewInstance
  <2>3. op' \in [Workers -> OpType]
    <3>1. o \in Maybe(Objs)
      BY DEF Maybe
    <3>2. QED
      BY <2>2, <3>1, <1>a, <1>b, LocalType, HoldsType
  <2>4. info' \in [Objs -> InfoType]
    BY <2>2, <1>a DEF InfoType, TypeOK
  <2>5. dev' \in [Objs -> Maybe(Jids)]
    BY <2>2, <1>a DEF TypeOK
  <2>6. QED
    BY <1>4, <2>1, <2>2, <2>3, <2>4, <2>5 DEF NewInstance, TypeOK
<1>5. CASE MarkConnecting(p)
  <2>1. row' \in [Ids -> RowType]
    BY <1>5, StatusType DEF MarkConnecting
  <2>2. pc' \in [Workers -> Labels]
    BY <1>5, GotoType DEF MarkConnecting, Labels
  <2>3. QED
    BY <1>5, <2>1, <2>2 DEF MarkConnecting, TypeOK
<1>6. CASE Dial(p)
  <2>1. pc' \in [Workers -> Labels] /\ op' \in [Workers -> OpType]
    <3>1. CASE Goto(p, "put") /\ UNCHANGED op
      BY <3>1, GotoType DEF Labels, TypeOK
    <3>2. QED
      BY <1>6, <3>1, FinishType DEF Dial
  <2>2. QED
    BY <1>6, <2>1 DEF Dial, TypeOK
<1>7. CASE PutInstance(p)
  <2>1. pc' \in [Workers -> Labels] /\ op' \in [Workers -> OpType]
    BY <1>7, FinishType DEF PutInstance
  <2>2. QED
    BY <1>7, <2>1, <1>a DEF PutInstance, TypeOK
<1>8. ASSUME NEW at \in Labels, NEW next \in Labels, LogoutClient(p, at, next)
      PROVE  TypeOK'
  <2>1. pc' \in [Workers -> Labels] /\ op' \in [Workers -> OpType]
    BY <1>8, <1>a, <1>b, LocalType, HoldsType, GotoType DEF LogoutClient
  <2>2. client' \in [Objs -> {"none", "new", "socket", "in", "retry", "down"}]
    <3>1. \/ client' = [client EXCEPT ![op[p].obj] = "down"]
          \/ client' = Stopped(op[p].obj)
          \/ UNCHANGED client
      BY <1>8 DEF LogoutClient, InstanceLogout
    <3>2. QED
      BY <3>1, StoppedType DEF TypeOK
  <2>3. sessions' \subseteq Jids /\ dev' \in [Objs -> Maybe(Jids)]
    <3>1. \/ /\ sessions' = sessions \ {dev[op[p].obj]}
             /\ dev' = [dev EXCEPT ![op[p].obj] = None]
          \/ UNCHANGED <<sessions, dev>>
      BY <1>8 DEF LogoutClient, InstanceLogout
    <3>2. QED
      BY <3>1, <1>b DEF TypeOK
  <2>4. excused' \subseteq Maybe(Names)
    BY <1>8, <1>a, ExcuseType DEF LogoutClient, InstanceLogout, TypeOK
  <2>5. QED
    BY <1>8, <2>1, <2>2, <2>3, <2>4 DEF LogoutClient, TypeOK
<1>9. ASSUME NEW at \in Labels, NEW next \in Labels, LookupRow(p, at, next)
      PROVE  TypeOK'
  <2>1. pc' \in [Workers -> Labels] /\ op' \in [Workers -> OpType]
    <3>1. ASSUME NEW i \in Found(n), Goto(p, next), Holds(p, Local(n, i, None, None))
          PROVE  pc' \in [Workers -> Labels] /\ op' \in [Workers -> OpType]
      <4>1. i \in Maybe(Ids)
        BY FoundType DEF Maybe
      <4>2. QED
        BY <3>1, <4>1, <1>a, <1>b, LocalType, HoldsType, GotoType
    <3>2. QED
      BY <1>9, <3>1, FinishType DEF LookupRow
  <2>2. QED
    BY <1>9, <2>1 DEF LookupRow, TypeOK
<1>10. CASE LogoutStatus(p)
  <2>1. row' \in [Ids -> RowType]
    BY <1>10, StatusType DEF LogoutStatus
  <2>2. pc' \in [Workers -> Labels]
    BY <1>10, GotoType DEF LogoutStatus, Labels
  <2>3. QED
    BY <1>10, <2>1, <2>2 DEF LogoutStatus, TypeOK
<1>11. CASE LogoutPhone(p)
  <2>1. row' \in [Ids -> RowType]
    BY <1>11, <1>b, PhoneType DEF LogoutPhone
  <2>2. pc' \in [Workers -> Labels] /\ op' \in [Workers -> OpType]
    BY <1>11, FinishType DEF LogoutPhone
  <2>3. QED
    BY <1>11, <2>1, <2>2 DEF LogoutPhone, TypeOK
<1>12. CASE DeleteRow(p)
  <2>1. row' \in [Ids -> RowType]
    BY <1>12, <1>b DEF DeleteRow, Update, Rows, TypeOK, RowType
  <2>2. pc' \in [Workers -> Labels] /\ op' \in [Workers -> OpType]
    BY <1>12, FinishType DEF DeleteRow
  <2>3. QED
    BY <1>12, <2>1, <2>2 DEF DeleteRow, TypeOK
<1>13. CASE DisconnectClient(p)
  <2>1. pc' \in [Workers -> Labels]
    BY <1>13, GotoType DEF DisconnectClient, Labels
  <2>2. client' \in [Objs -> {"none", "new", "socket", "in", "retry", "down"}]
    BY <1>13, EntryType DEF DisconnectClient
  <2>3. excused' \subseteq Maybe(Names)
    BY <1>13, <1>a, ExcuseType DEF DisconnectClient
  <2>4. op' \in [Workers -> OpType]
    BY <1>13, <1>a, <1>b, LocalType, HoldsType DEF DisconnectClient
  <2>5. QED
    BY <1>13, <2>1, <2>2, <2>3, <2>4 DEF DisconnectClient, TypeOK
<1>14. CASE DisconnectStatus(p)
  <2>1. row' \in [Ids -> RowType]
    BY <1>14, StatusType DEF DisconnectStatus
  <2>2. pc' \in [Workers -> Labels] /\ op' \in [Workers -> OpType]
    BY <1>14, FinishType DEF DisconnectStatus
  <2>3. QED
    BY <1>14, <2>1, <2>2 DEF DisconnectStatus, TypeOK
<1>15. CASE LogoutClient(p, "lo_client", "lo_lookup") \/ LogoutClient(p, "de_client", "de_lookup")
  BY <1>8, <1>15 DEF Labels
<1>16. CASE LookupRow(p, "lo_lookup", "lo_status") \/ LookupRow(p, "de_lookup", "de_row")
  BY <1>9, <1>16 DEF Labels
<1>17. QED
  BY <1>1, <1>2, <1>3, <1>4, <1>5, <1>6, <1>7, <1>10, <1>11, <1>12, <1>13, <1>14, <1>15, <1>16 DEF Step

LEMMA TypeHandler ==
  ASSUME TypeOK, NEW o \in Objs, Handler(o)
  PROVE  TypeOK'
<1> USE DEF waVars, procVars, srvVars
<1>1. CASE HandleConnected(o)
  BY <1>1 DEF HandleConnected, TypeOK, dbVars
<1>0. CASE HandleConnectedStatus(o)
  <2>1. row' \in [Ids -> RowType]
    BY <1>0, StatusType DEF HandleConnectedStatus, TypeOK
  <2>2. QED
    BY <1>0, <2>1 DEF HandleConnectedStatus, TypeOK
<1>2. CASE HandleConnectedPhone(o)
  <2>1. row' \in [Ids -> RowType]
    BY <1>2, PhoneType DEF HandleConnectedPhone, TypeOK
  <2>2. QED
    BY <1>2, <2>1 DEF HandleConnectedPhone, TypeOK, Maybe
<1>3. CASE HandleLoggedOut(o)
  <2>1. row' \in [Ids -> RowType]
    BY <1>3, StatusType DEF HandleLoggedOut
  <2>2. QED
    BY <1>3, <2>1 DEF HandleLoggedOut, TypeOK
<1>4. CASE HandleLoggedOutPhone(o)
  <2>1. row' \in [Ids -> RowType]
    BY <1>4, PhoneType DEF HandleLoggedOutPhone, Maybe
  <2>2. QED
    BY <1>4, <2>1 DEF HandleLoggedOutPhone, TypeOK
<1>5. QED
  BY <1>0, <1>1, <1>2, <1>3, <1>4 DEF Handler

LEMMA TypeOutside ==
  ASSUME TypeOK, NEW o \in Objs, Outside(o)
  PROVE  TypeOK'
<1> USE DEF TypeOK, dbVars, hdlVars, procVars, srvVars
<1>1. CASE Pair(o)
  <2>1. owner' \in [Jids -> Maybe(Ids)]
    BY <1>1 DEF Pair, InfoType
  <2>2. QED
    BY <1>1, <2>1 DEF Pair, Maybe
<1>2. CASE Login(o)
  BY <1>2 DEF Login
<1>3. CASE RemoteLogout(o)
  BY <1>3 DEF RemoteLogout, Maybe
<1>4. CASE Drop(o)
  BY <1>4 DEF Drop
<1>5. CASE AutoReconnect(o)
  BY <1>5 DEF AutoReconnect
<1>6. CASE QRTimeout(o)
  BY <1>6 DEF QRTimeout
<1>7. QED
  BY <1>1, <1>2, <1>3, <1>4, <1>5, <1>6 DEF Outside

LEMMA TypeProcess ==
  ASSUME TypeOK, LoadAll \/ DisconnectAll \/ StopServing \/ Reboot \/ \E o \in Objs : DisconnectOne(o)
  PROVE  TypeOK'
<1> USE DEF dbVars, waVars, hdlVars, procVars, srvVars
<1>1. CASE LoadAll
  <2>1. op' \in [Workers -> OpType]
    <3>1. \A i \in Listed : Local(row[i].name, i, row[i].jid, None) \in OpType
      BY DEF Listed, Rows, TypeOK, RowType, OpType, Local, Maybe
    <3>2. QED
      BY <1>1, <3>1 DEF LoadAll, TypeOK
  <2>2. pc' \in [Workers -> Labels]
    BY <1>1 DEF LoadAll, TypeOK, Labels
  <2>3. QED
    BY <1>1, <2>1, <2>2 DEF LoadAll, TypeOK, Maybe
<1>2. CASE DisconnectAll
  BY <1>2 DEF DisconnectAll, TypeOK, Unregistered, Maybe
<1>3. CASE StopServing
  BY <1>3 DEF StopServing, TypeOK
<1>4. CASE Reboot
  <2>1. op' \in [Workers -> OpType]
    BY <1>4, LocalType DEF Reboot, EachWorker, NoOp, Maybe
  <2>2. info' \in [Objs -> InfoType]
    BY <1>4 DEF Reboot, EachObj, NoInfo, InfoType, Maybe
  <2>3. pc' \in [Workers -> Labels]
    BY <1>4 DEF Reboot, EachWorker, Labels
  <2>4. QED
    BY <1>4, <2>1, <2>2, <2>3 DEF Reboot, EachObj, Unregistered, TypeOK, Maybe
<1>5. CASE \E o \in Objs : DisconnectOne(o)
  <2>1. PICK o \in Objs : DisconnectOne(o)
    BY <1>5
  <2>2. client' \in [Objs -> {"none", "new", "socket", "in", "retry", "down"}]
    BY <2>1, EntryType DEF DisconnectOne
  <2>3. excused' \subseteq Maybe(Names)
    BY <2>1, ExcuseType DEF DisconnectOne, TypeOK, InfoType
  <2>4. QED
    BY <2>1, <2>2, <2>3 DEF DisconnectOne, TypeOK
<1>6. QED
  BY <1>1, <1>2, <1>3, <1>4, <1>5

LEMMA TypeInit == Init => TypeOK
<1> SUFFICES ASSUME Init PROVE TypeOK
  OBVIOUS
<1>1. op \in [Workers -> OpType]
  BY LocalType DEF Init, EachWorker, NoOp, Maybe
<1>2. info \in [Objs -> InfoType] /\ row \in [Ids -> RowType]
  BY DEF Init, EachObj, NoInfo, InfoType, NoRow, RowType, Maybe
<1>3. pc \in [Workers -> Labels]
  BY DEF Init, EachWorker, Labels
<1>4. QED
  BY <1>1, <1>2, <1>3 DEF Init, EachObj, Unregistered, TypeOK, Maybe

\* Type correctness: no interleaving of requests, goroutines and events stores
\* a value of the wrong kind.
THEOREM TypeCorrect == Spec => []TypeOK
<1>1. TypeOK /\ [Next]_vars => TypeOK'
  <2> SUFFICES ASSUME TypeOK, [Next]_vars PROVE TypeOK'
    OBVIOUS
  <2>1. CASE Next
    BY <2>1, TypeRequest, TypeStep, TypeHandler, TypeOutside, TypeProcess DEF Next
  <2>2. CASE UNCHANGED vars
    BY <2>2 DEF vars, TypeOK
  <2>3. QED
    BY <2>1, <2>2
<1>2. QED
  BY TypeInit, <1>1, PTL DEF Spec

-----------------------------------------------------------------------------
(* What Instance.Disconnect and Instance.Logout leave alone *)

LEMMA DisconnectKeeps ==
  ASSUME TypeOK, NEW o, DisconnectEntry(o)
  PROVE  \A x \in Objs : /\ client'[x] = "none" <=> client[x] = "none"
                         /\ client'[x] = "new" <=> client[x] = "new"
  BY DEF TypeOK, DisconnectEntry, Stopped, IsConnected

LEMMA LogoutKeeps ==
  ASSUME TypeOK, NEW o, NEW n, InstanceLogout(o, n)
  PROVE  \A x \in Objs : /\ client'[x] = "none" <=> client[x] = "none"
                         /\ client'[x] = "new" <=> client[x] = "new"
                         /\ dev'[x] \in {dev[x], None}
<1>1. \/ client[o] = "in" /\ client' = [client EXCEPT ![o] = "down"]
      \/ client' = [client EXCEPT ![o] = IF IsConnected(o) THEN "down" ELSE @]
      \/ UNCHANGED client
  BY DEF InstanceLogout, Stopped
<1>2. dev' = [dev EXCEPT ![o] = None] \/ UNCHANGED dev
  BY DEF InstanceLogout
<1>3. QED
  BY <1>1, <1>2 DEF TypeOK, IsConnected

\* Nor do the two UPDATE statements of the sessions of other rows.
LEMMA StatusKeeps ==
  ASSUME TypeOK, NEW i, NEW s, UpdateInstanceStatus(i, s)
  PROVE  \A x \in Ids : row'[x].jid = row[x].jid
<1>1. CASE i \in Rows /\ row' = [row EXCEPT ![i].status = s]
  BY <1>1 DEF TypeOK, Rows, RowType
<1>2. QED
  BY <1>1 DEF UpdateInstanceStatus, Update

LEMMA PhoneSets ==
  ASSUME TypeOK, NEW i, NEW j, UpdateInstancePhone(i, j)
  PROVE  \A x \in Ids : row'[x].jid = row[x].jid \/ (x = i /\ row'[x].jid = j)
<1>1. CASE i \in Rows /\ row' = [row EXCEPT ![i].jid = j]
  BY <1>1 DEF TypeOK, Rows, RowType
<1>2. QED
  BY <1>1 DEF UpdateInstancePhone, Update

-----------------------------------------------------------------------------
(* What is in the map has been dialled *)

\* A worker between newInstance and the map holds an object of its own name,
\* which has been dialled by the time the worker reaches the map.
WorkerObject ==
  \A p \in Workers :
    /\ pc[p] \in {"status", "dial", "put"} =>
         /\ op[p].obj \in Objs
         /\ client[op[p].obj] # "none"
         /\ info[op[p].obj].name = op[p].name
    /\ pc[p] = "put" => client[op[p].obj] # "new"

MapInv == MapReady /\ WorkerObject

LEMMA MapRequest ==
  ASSUME TypeOK, TypeOK', MapInv, NEW p \in Procs, NEW n \in Names, Request(p, n)
  PROVE  MapInv'
<1> USE DEF MapInv
<1>1. CASE Create(p, n)
  BY <1>1, ConstantsAssumption DEF TypeOK, MapReady, WorkerObject, Maybe, Workers, Create, Goto,
     Holds, Local, Found, procVars, dbVars, waVars, hdlVars, srvVars, Rows
<1>2. CASE Connect(p, n)
  BY <1>2, ConstantsAssumption DEF TypeOK, MapReady, WorkerObject, Maybe, Workers, Connect,
     procVars, Found, Goto, Holds, Local, dbVars, waVars, hdlVars, srvVars, Rows
<1>3. CASE Restart(p, n)
  BY <1>3, ConstantsAssumption, DisconnectKeeps DEF TypeOK, MapReady, WorkerObject, Maybe,
     Workers, Restart, Goto, Holds, Local, dbVars, hdlVars, srvVars
<1>4. CASE Logout(p, n)
  BY <1>4, ConstantsAssumption DEF TypeOK, MapReady, WorkerObject, Maybe, Workers, Logout, Take,
     Holds, Local, Goto, dbVars, waVars, hdlVars, srvVars
<1>5. CASE Delete(p, n)
  BY <1>5, ConstantsAssumption DEF TypeOK, MapReady, WorkerObject, Maybe, Workers, Delete, Take,
     Holds, Local, Goto, dbVars, waVars, hdlVars, srvVars
<1>6. CASE Disconnect(p, n)
  BY <1>6, ConstantsAssumption DEF TypeOK, MapReady, WorkerObject, Maybe, Workers, Disconnect,
     Goto, Holds, Local, procVars, dbVars, waVars, hdlVars, srvVars
<1>7. QED
  BY <1>1, <1>2, <1>3, <1>4, <1>5, <1>6 DEF Request

LEMMA MapStep ==
  ASSUME TypeOK, TypeOK', MapInv, NEW p \in Workers, Step(p)
  PROVE  MapInv'
<1> USE DEF MapInv
<1>1. CASE CreateInsert(p)
  BY <1>1, ConstantsAssumption DEF TypeOK, MapReady, WorkerObject, Maybe, Workers, CreateInsert,
     Found, Finish, waVars, hdlVars, srvVars, Rows, Goto, Holds, NoOp, Local
<1>2. CASE ConnectEvict(p)
  BY <1>2, ConstantsAssumption, DisconnectKeeps DEF TypeOK, MapReady, WorkerObject, Maybe,
     Workers, ConnectEvict, Goto, dbVars, hdlVars, srvVars
<1>3. CASE RestartLookup(p)
  BY <1>3, ConstantsAssumption DEF TypeOK, MapReady, WorkerObject, Maybe, Workers,
     RestartLookup, Finish, Found, Goto, Holds, Local, dbVars, waVars, hdlVars, srvVars, NoOp,
     Rows
<1>4. CASE NewInstance(p)
  BY <1>4, ConstantsAssumption DEF TypeOK, MapReady, WorkerObject, Maybe, Workers, NewInstance,
     Holds, Local, Goto, dbVars, hdlVars, srvVars
<1>5. CASE MarkConnecting(p)
  BY <1>5, ConstantsAssumption DEF TypeOK, MapReady, WorkerObject, Maybe, Workers,
     MarkConnecting, Goto, waVars, hdlVars, srvVars
<1>6. CASE Dial(p)
  BY <1>6, ConstantsAssumption DEF TypeOK, MapReady, WorkerObject, Maybe, Workers, Dial, Goto,
     Finish, dbVars, hdlVars, srvVars, Holds, NoOp, Local
<1>7. CASE PutInstance(p)
  BY <1>7, ConstantsAssumption DEF TypeOK, MapReady, WorkerObject, Maybe, Workers, PutInstance,
     Finish, dbVars, waVars, hdlVars, srvVars, Goto, Holds, NoOp, Local
<1>8. CASE LogoutClient(p, "lo_client", "lo_lookup")
  BY <1>8, ConstantsAssumption, LogoutKeeps DEF TypeOK, MapReady, WorkerObject, Maybe, Workers,
     LogoutClient, Holds, Local, Goto, hdlVars, srvVars
<1>9. CASE LookupRow(p, "lo_lookup", "lo_status")
  BY <1>9, ConstantsAssumption DEF TypeOK, MapReady, WorkerObject, Maybe, Workers, LookupRow,
     Finish, Found, Goto, Holds, Local, dbVars, waVars, hdlVars, srvVars, NoOp, Rows
<1>10. CASE LogoutStatus(p)
  BY <1>10, ConstantsAssumption DEF TypeOK, MapReady, WorkerObject, Maybe, Workers,
     LogoutStatus, Goto, waVars, hdlVars, srvVars
<1>11. CASE LogoutPhone(p)
  BY <1>11, ConstantsAssumption DEF TypeOK, MapReady, WorkerObject, Maybe, Workers, LogoutPhone,
     Finish, waVars, hdlVars, srvVars, Goto, Holds, NoOp, Local
<1>12. CASE LogoutClient(p, "de_client", "de_lookup")
  BY <1>12, ConstantsAssumption, LogoutKeeps DEF TypeOK, MapReady, WorkerObject, Maybe, Workers,
     LogoutClient, Holds, Local, Goto, hdlVars, srvVars
<1>13. CASE LookupRow(p, "de_lookup", "de_row")
  BY <1>13, ConstantsAssumption DEF TypeOK, MapReady, WorkerObject, Maybe, Workers, LookupRow,
     Finish, Found, Goto, Holds, Local, dbVars, waVars, hdlVars, srvVars, NoOp, Rows
<1>14. CASE DeleteRow(p)
  BY <1>14, ConstantsAssumption DEF TypeOK, MapReady, WorkerObject, Maybe, Workers, DeleteRow,
     Update, Finish, waVars, hdlVars, srvVars, Rows, Goto, Holds, NoOp, Local
<1>15. CASE DisconnectClient(p)
  BY <1>15, ConstantsAssumption, DisconnectKeeps DEF TypeOK, MapReady, WorkerObject, Maybe,
     Workers, DisconnectClient, Holds, Local, Goto, dbVars, hdlVars, srvVars
<1>16. CASE DisconnectStatus(p)
  BY <1>16, ConstantsAssumption DEF TypeOK, MapReady, WorkerObject, Maybe, Workers,
     DisconnectStatus, Finish, waVars, hdlVars, srvVars, Goto, Holds, NoOp, Local
<1>17. QED
  BY <1>1, <1>2, <1>3, <1>4, <1>5, <1>6, <1>7, <1>8, <1>9, <1>10, <1>11, <1>12, <1>13, <1>14,
     <1>15, <1>16 DEF Step

LEMMA MapHandler ==
  ASSUME TypeOK, TypeOK', MapInv, NEW o \in Objs, Handler(o)
  PROVE  MapInv'
<1> USE DEF MapInv
<1>1. CASE HandleConnected(o)
  BY <1>1, ConstantsAssumption DEF TypeOK, MapReady, WorkerObject, Maybe, Workers,
     HandleConnected, waVars, procVars, srvVars
<1>0. CASE HandleConnectedStatus(o)
  BY <1>0, ConstantsAssumption DEF TypeOK, MapReady, WorkerObject, Maybe, Workers,
     HandleConnectedStatus, waVars, procVars, srvVars
<1>2. CASE HandleConnectedPhone(o)
  BY <1>2, ConstantsAssumption DEF TypeOK, MapReady, WorkerObject, Maybe, Workers,
     HandleConnectedPhone, waVars, procVars, srvVars
<1>3. CASE HandleLoggedOut(o)
  BY <1>3, ConstantsAssumption DEF TypeOK, MapReady, WorkerObject, Maybe, Workers,
     HandleLoggedOut, waVars, procVars, srvVars
<1>4. CASE HandleLoggedOutPhone(o)
  BY <1>4, ConstantsAssumption DEF TypeOK, MapReady, WorkerObject, Maybe, Workers,
     HandleLoggedOutPhone, waVars, procVars, srvVars
<1>5. QED
  BY <1>0, <1>1, <1>2, <1>3, <1>4 DEF Handler

LEMMA MapOutside ==
  ASSUME TypeOK, TypeOK', MapInv, NEW o \in Objs, Outside(o)
  PROVE  MapInv'
<1> USE DEF MapInv
<1>1. CASE Pair(o)
  BY <1>1, ConstantsAssumption DEF TypeOK, MapReady, WorkerObject, Maybe, Workers, Pair,
     hdlVars, procVars, srvVars
<1>2. CASE Login(o)
  BY <1>2, ConstantsAssumption DEF TypeOK, MapReady, WorkerObject, Maybe, Workers, Login,
     dbVars, procVars, srvVars
<1>3. CASE RemoteLogout(o)
  BY <1>3, ConstantsAssumption DEF TypeOK, MapReady, WorkerObject, Maybe, Workers, RemoteLogout,
     procVars, srvVars
<1>4. CASE Drop(o)
  BY <1>4, ConstantsAssumption DEF TypeOK, MapReady, WorkerObject, Maybe, Workers, Drop, dbVars,
     hdlVars, procVars, srvVars
<1>5. CASE AutoReconnect(o)
  BY <1>5, ConstantsAssumption DEF TypeOK, MapReady, WorkerObject, Maybe, Workers,
     AutoReconnect, dbVars, hdlVars, procVars, srvVars
<1>6. CASE QRTimeout(o)
  BY <1>6, ConstantsAssumption DEF TypeOK, MapReady, WorkerObject, Maybe, Workers, QRTimeout,
     dbVars, hdlVars, procVars, srvVars
<1>7. QED
  BY <1>1, <1>2, <1>3, <1>4, <1>5, <1>6 DEF Outside

LEMMA MapProcess ==
  ASSUME TypeOK, TypeOK', MapInv, LoadAll \/ DisconnectAll \/ StopServing \/ Reboot \/ \E o \in
         Objs : DisconnectOne(o)
  PROVE  MapInv'
<1> USE DEF MapInv
<1>1. CASE LoadAll
  BY <1>1, ConstantsAssumption DEF TypeOK, MapReady, WorkerObject, Maybe, Workers, LoadAll,
     Listed, Local, procVars, dbVars, waVars, hdlVars, Rows
<1>2. CASE DisconnectAll
  BY <1>2, ConstantsAssumption DEF TypeOK, MapReady, WorkerObject, Maybe, Workers,
     DisconnectAll, Unregistered, dbVars, waVars, hdlVars, procVars
<1>3. CASE StopServing
  BY <1>3, ConstantsAssumption DEF TypeOK, MapReady, WorkerObject, Maybe, Workers, StopServing,
     dbVars, waVars, hdlVars, procVars
<1>4. CASE Reboot
  BY <1>4, ConstantsAssumption DEF TypeOK, MapReady, WorkerObject, Maybe, Workers, Reboot,
     Unregistered, EachObj, NoInfo, EachWorker, NoOp, dbVars, Local
<1>5. CASE \E o \in Objs : DisconnectOne(o)
  BY <1>5, ConstantsAssumption, DisconnectKeeps DEF TypeOK, MapReady, WorkerObject, Maybe,
     Workers, DisconnectOne, dbVars, hdlVars, procVars
<1>6. QED
  BY <1>1, <1>2, <1>3, <1>4, <1>5

LEMMA MapInvariant == Spec => []MapInv
<1>1. Init => MapInv
  BY ConstantsAssumption DEF Init, MapInv, MapReady, WorkerObject, Unregistered, EachWorker
<1>2. TypeOK /\ TypeOK' /\ MapInv /\ [Next]_vars => MapInv'
  <2> SUFFICES ASSUME TypeOK, TypeOK', MapInv, [Next]_vars PROVE MapInv'
    OBVIOUS
  <2>1. CASE Next
    BY <2>1, MapRequest, MapStep, MapHandler, MapOutside, MapProcess DEF Next
  <2>2. CASE UNCHANGED vars
    BY <2>2 DEF vars, MapInv, MapReady, WorkerObject
  <2>3. QED
    BY <2>1, <2>2
<1>3. QED
  BY <1>1, <1>2, TypeCorrect, PTL DEF Spec

\* Manager.Get only returns instances whose client exists and was dialled, each
\* under its own name: the invariant adds what a worker on its way from
\* newInstance to the map knows of its object.
THEOREM MapIsReady == Spec => []MapReady
<1>1. MapInv => MapReady
  BY DEF MapInv
<1>2. QED
  BY <1>1, MapInvariant, PTL

-----------------------------------------------------------------------------
(* A session stays with the row it was paired for *)

\* The row a worker read exists in the table's history, and the session it
\* read from it belongs to that row.
WorkerRow ==
  \A p \in Workers :
    /\ pc[p] \in {"co_evict", "new"} => op[p].row \in Ids
    /\ op[p].jid # None => op[p].row \in Ids /\ owner[op[p].jid] = op[p].row

\* An object has a session, in its client or in its handler's hands, only once
\* it is built, and then for the row it was built for.
ObjectRow ==
  \A o \in Objs :
    /\ client[o] = "none" => dev[o] = None /\ connJid[o] = None
    /\ client[o] # "none" => info[o].row \in Ids
    /\ connJid[o] # None => owner[connJid[o]] = info[o].row

SessionInv == SessionOfRow /\ WorkerRow /\ ObjectRow

LEMMA SessionRequest ==
  ASSUME TypeOK, TypeOK', MapInv, SessionInv, NEW p \in Procs, NEW n \in Names, Request(p, n)
  PROVE  SessionInv'
<1> USE DEF SessionInv
<1>1. CASE Create(p, n)
  BY <1>1, ConstantsAssumption DEF TypeOK, SessionOfRow, WorkerRow, ObjectRow, RowType,
     InfoType, OpType, Maybe, Workers, Create, Goto, Holds, Local, Found, procVars, dbVars,
     waVars, hdlVars, srvVars, Rows
<1>2. CASE Connect(p, n)
  BY <1>2, ConstantsAssumption DEF TypeOK, SessionOfRow, WorkerRow, ObjectRow, RowType,
     InfoType, OpType, Maybe, Workers, Connect, procVars, Found, Goto, Holds, Local, dbVars,
     waVars, hdlVars, srvVars, Rows
<1>3. CASE Restart(p, n)
  BY <1>3, ConstantsAssumption, DisconnectKeeps DEF TypeOK, SessionOfRow, WorkerRow, ObjectRow,
     RowType, InfoType, OpType, Maybe, Workers, Restart, Goto, Holds, Local, dbVars, hdlVars,
     srvVars
<1>4. CASE Logout(p, n)
  BY <1>4, ConstantsAssumption DEF TypeOK, SessionOfRow, WorkerRow, ObjectRow, RowType,
     InfoType, OpType, Maybe, Workers, Logout, Take, Holds, Local, Goto, dbVars, waVars,
     hdlVars, srvVars
<1>5. CASE Delete(p, n)
  BY <1>5, ConstantsAssumption DEF TypeOK, SessionOfRow, WorkerRow, ObjectRow, RowType,
     InfoType, OpType, Maybe, Workers, Delete, Take, Holds, Local, Goto, dbVars, waVars,
     hdlVars, srvVars
<1>6. CASE Disconnect(p, n)
  BY <1>6, ConstantsAssumption DEF TypeOK, SessionOfRow, WorkerRow, ObjectRow, RowType,
     InfoType, OpType, Maybe, Workers, Disconnect, Goto, Holds, Local, procVars, dbVars, waVars,
     hdlVars, srvVars
<1>7. QED
  BY <1>1, <1>2, <1>3, <1>4, <1>5, <1>6 DEF Request

LEMMA SessionStep ==
  ASSUME TypeOK, TypeOK', MapInv, SessionInv, NEW p \in Workers, Step(p)
  PROVE  SessionInv'
<1> USE DEF SessionInv
<1>1. CASE CreateInsert(p)
  BY <1>1, ConstantsAssumption DEF TypeOK, SessionOfRow, WorkerRow, ObjectRow, RowType,
     InfoType, OpType, Maybe, Workers, CreateInsert, Found, Finish, waVars, hdlVars, srvVars,
     Rows, Goto, Holds, NoOp, Local
<1>2. CASE ConnectEvict(p)
  BY <1>2, ConstantsAssumption, DisconnectKeeps DEF TypeOK, SessionOfRow, WorkerRow, ObjectRow,
     RowType, InfoType, OpType, Maybe, Workers, ConnectEvict, Goto, dbVars, hdlVars, srvVars
<1>3. CASE RestartLookup(p)
  <2>1. WorkerRow'
    <3>1. ASSUME NEW i \in Found(op[p].name), Goto(p, "new"),
                 Holds(p, Local(op[p].name, i, row[i].jid, None)), UNCHANGED owner
          PROVE  WorkerRow'
      <4>1. i \in Ids
        BY FoundType
      <4>2. row[i].jid # None => owner[row[i].jid] = i
        BY <4>1 DEF SessionOfRow
      <4>3. QED
        BY <3>1, <4>1, <4>2 DEF WorkerRow, Goto, Holds, Local, TypeOK
    <3>2. ASSUME Finish(p), UNCHANGED owner
          PROVE  WorkerRow'
      BY <3>2, ConstantsAssumption DEF WorkerRow, Finish, Goto, Holds, NoOp, Local, TypeOK
    <3>3. QED
      BY <1>3, <3>1, <3>2 DEF RestartLookup, dbVars
  <2>2. SessionOfRow' /\ ObjectRow'
    BY <1>3 DEF RestartLookup, SessionOfRow, ObjectRow, dbVars, waVars, hdlVars
  <2>3. QED
    BY <2>1, <2>2
<1>4. CASE NewInstance(p)
  BY <1>4, ConstantsAssumption DEF TypeOK, SessionOfRow, WorkerRow, ObjectRow, RowType,
     InfoType, OpType, Maybe, Workers, NewInstance, Holds, Local, Goto, dbVars, hdlVars, srvVars
<1>5. CASE MarkConnecting(p)
  BY <1>5, ConstantsAssumption, StatusKeeps DEF TypeOK, SessionOfRow, WorkerRow, ObjectRow,
     RowType, InfoType, OpType, Maybe, Workers, MarkConnecting, Goto, waVars, hdlVars, srvVars
<1>6. CASE Dial(p)
  <2>1. op[p].obj \in Objs /\ client[op[p].obj] # "none"
    BY <1>6 DEF Dial, MapInv, WorkerObject
  <2>2. \A x \in Objs : client'[x] = "none" <=> client[x] = "none"
    BY <1>6, <2>1 DEF Dial, TypeOK
  <2>3. ObjectRow'
    BY <1>6, <2>2 DEF Dial, ObjectRow, dbVars, hdlVars
  <2>4. WorkerRow'
    BY <1>6, ConstantsAssumption DEF Dial, WorkerRow, Goto, Finish, Holds, NoOp, Local, dbVars, TypeOK
  <2>5. SessionOfRow'
    BY <1>6 DEF Dial, SessionOfRow, dbVars
  <2>6. QED
    BY <2>3, <2>4, <2>5
<1>7. CASE PutInstance(p)
  BY <1>7, ConstantsAssumption DEF TypeOK, SessionOfRow, WorkerRow, ObjectRow, RowType,
     InfoType, OpType, Maybe, Workers, PutInstance, Finish, dbVars, waVars, hdlVars, srvVars,
     Goto, Holds, NoOp, Local
<1>8. CASE LogoutClient(p, "lo_client", "lo_lookup")
  BY <1>8, ConstantsAssumption, LogoutKeeps DEF TypeOK, SessionOfRow, WorkerRow, ObjectRow,
     RowType, InfoType, OpType, Maybe, Workers, LogoutClient, Holds, Local, Goto, hdlVars,
     srvVars
<1>9. CASE LookupRow(p, "lo_lookup", "lo_status")
  BY <1>9, ConstantsAssumption DEF TypeOK, SessionOfRow, WorkerRow, ObjectRow, RowType,
     InfoType, OpType, Maybe, Workers, LookupRow, Finish, Found, Goto, Holds, Local, dbVars,
     waVars, hdlVars, srvVars, NoOp, Rows
<1>10. CASE LogoutStatus(p)
  BY <1>10, ConstantsAssumption, StatusKeeps DEF TypeOK, SessionOfRow, WorkerRow, ObjectRow,
     RowType, InfoType, OpType, Maybe, Workers, LogoutStatus, Goto, waVars, hdlVars, srvVars
<1>11. CASE LogoutPhone(p)
  BY <1>11, ConstantsAssumption, PhoneSets DEF TypeOK, SessionOfRow, WorkerRow, ObjectRow,
     RowType, InfoType, OpType, Maybe, Workers, LogoutPhone, Finish, waVars, hdlVars, srvVars,
     Goto, Holds, NoOp, Local
<1>12. CASE LogoutClient(p, "de_client", "de_lookup")
  BY <1>12, ConstantsAssumption, LogoutKeeps DEF TypeOK, SessionOfRow, WorkerRow, ObjectRow,
     RowType, InfoType, OpType, Maybe, Workers, LogoutClient, Holds, Local, Goto, hdlVars,
     srvVars
<1>13. CASE LookupRow(p, "de_lookup", "de_row")
  BY <1>13, ConstantsAssumption DEF TypeOK, SessionOfRow, WorkerRow, ObjectRow, RowType,
     InfoType, OpType, Maybe, Workers, LookupRow, Finish, Found, Goto, Holds, Local, dbVars,
     waVars, hdlVars, srvVars, NoOp, Rows
<1>14. CASE DeleteRow(p)
  <2>1. SessionOfRow'
    BY <1>14, ConstantsAssumption DEF TypeOK, SessionOfRow, WorkerRow, ObjectRow, RowType,
      InfoType, OpType, Maybe, Workers, DeleteRow, Update, Finish, waVars, hdlVars, srvVars,
      Rows, Goto, Holds, NoOp, Local
  <2>2. WorkerRow'
    BY <1>14, ConstantsAssumption DEF TypeOK, SessionOfRow, WorkerRow, ObjectRow, RowType,
      InfoType, OpType, Maybe, Workers, DeleteRow, Update, Finish, waVars, hdlVars, srvVars,
      Rows, Goto, Holds, NoOp, Local
  <2>3. ObjectRow'
    BY <1>14, ConstantsAssumption DEF TypeOK, SessionOfRow, WorkerRow, ObjectRow, RowType,
      InfoType, OpType, Maybe, Workers, DeleteRow, Update, Finish, waVars, hdlVars, srvVars,
      Rows, Goto, Holds, NoOp, Local
  <2>4. QED
    BY <2>1, <2>2, <2>3
<1>15. CASE DisconnectClient(p)
  BY <1>15, ConstantsAssumption, DisconnectKeeps DEF TypeOK, SessionOfRow, WorkerRow, ObjectRow,
     RowType, InfoType, OpType, Maybe, Workers, DisconnectClient, Holds, Local, Goto, dbVars,
     hdlVars, srvVars
<1>16. CASE DisconnectStatus(p)
  BY <1>16, ConstantsAssumption, StatusKeeps DEF TypeOK, SessionOfRow, WorkerRow, ObjectRow,
     RowType, InfoType, OpType, Maybe, Workers, DisconnectStatus, Finish, waVars, hdlVars,
     srvVars, Goto, Holds, NoOp, Local
<1>17. QED
  BY <1>1, <1>2, <1>3, <1>4, <1>5, <1>6, <1>7, <1>8, <1>9, <1>10, <1>11, <1>12, <1>13, <1>14,
     <1>15, <1>16 DEF Step

LEMMA SessionHandler ==
  ASSUME TypeOK, TypeOK', MapInv, SessionInv, NEW o \in Objs, Handler(o)
  PROVE  SessionInv'
<1> USE DEF SessionInv
<1>1. CASE HandleConnected(o)
  BY <1>1, ConstantsAssumption DEF TypeOK, SessionOfRow, WorkerRow, ObjectRow,
     RowType, InfoType, OpType, Maybe, Workers, HandleConnected, dbVars, waVars, procVars, srvVars
<1>0. CASE HandleConnectedStatus(o)
  BY <1>0, ConstantsAssumption, StatusKeeps DEF TypeOK, SessionOfRow, WorkerRow, ObjectRow,
     RowType, InfoType, OpType, Maybe, Workers, HandleConnectedStatus, waVars, procVars, srvVars
<1>2. CASE HandleConnectedPhone(o)
  <2>1. SessionOfRow'
    <3>1. UNCHANGED <<owner, dev, info>>
      BY <1>2 DEF HandleConnectedPhone, waVars
    <3>2. ASSUME NEW i \in Ids, row'[i].jid # None
          PROVE  owner[row'[i].jid] = i
      <4>1. \/ row'[i].jid = row[i].jid
            \/ i = info[o].row /\ row'[i].jid = connJid[o]
        BY <1>2, PhoneSets DEF HandleConnectedPhone
      <4>2. CASE row'[i].jid = row[i].jid
        BY <3>2, <4>2 DEF SessionOfRow
      <4>3. CASE i = info[o].row /\ row'[i].jid = connJid[o]
        BY <3>2, <4>3 DEF ObjectRow
      <4>4. QED
        BY <4>1, <4>2, <4>3
    <3>3. QED
      BY <3>1, <3>2 DEF SessionOfRow
  <2>2. WorkerRow' /\ ObjectRow'
    BY <1>2 DEF HandleConnectedPhone, WorkerRow, ObjectRow, waVars, procVars, TypeOK
  <2>3. QED
    BY <2>1, <2>2
<1>3. CASE HandleLoggedOut(o)
  BY <1>3, ConstantsAssumption, StatusKeeps DEF TypeOK, SessionOfRow, WorkerRow, ObjectRow,
     RowType, InfoType, OpType, Maybe, Workers, HandleLoggedOut, waVars, procVars, srvVars
<1>4. CASE HandleLoggedOutPhone(o)
  BY <1>4, ConstantsAssumption, PhoneSets DEF TypeOK, SessionOfRow, WorkerRow, ObjectRow,
     RowType, InfoType, OpType, Maybe, Workers, HandleLoggedOutPhone, waVars, procVars, srvVars
<1>5. QED
  BY <1>0, <1>1, <1>2, <1>3, <1>4 DEF Handler

LEMMA SessionOutside ==
  ASSUME TypeOK, TypeOK', MapInv, SessionInv, NEW o \in Objs, Outside(o)
  PROVE  SessionInv'
<1> USE DEF SessionInv
<1>1. CASE Pair(o)
  BY <1>1, ConstantsAssumption DEF TypeOK, SessionOfRow, WorkerRow, ObjectRow, RowType,
     InfoType, OpType, Maybe, Workers, Pair, hdlVars, procVars, srvVars
<1>2. CASE Login(o)
  BY <1>2, ConstantsAssumption DEF TypeOK, SessionOfRow, WorkerRow, ObjectRow, RowType,
     InfoType, OpType, Maybe, Workers, Login, dbVars, procVars, srvVars
<1>3. CASE RemoteLogout(o)
  BY <1>3, ConstantsAssumption DEF TypeOK, SessionOfRow, WorkerRow, ObjectRow, RowType,
     InfoType, OpType, Maybe, Workers, RemoteLogout, procVars, srvVars
<1>4. CASE Drop(o)
  BY <1>4, ConstantsAssumption DEF TypeOK, SessionOfRow, WorkerRow, ObjectRow, RowType,
     InfoType, OpType, Maybe, Workers, Drop, dbVars, hdlVars, procVars, srvVars
<1>5. CASE AutoReconnect(o)
  BY <1>5, ConstantsAssumption DEF TypeOK, SessionOfRow, WorkerRow, ObjectRow, RowType,
     InfoType, OpType, Maybe, Workers, AutoReconnect, dbVars, hdlVars, procVars, srvVars
<1>6. CASE QRTimeout(o)
  BY <1>6, ConstantsAssumption DEF TypeOK, SessionOfRow, WorkerRow, ObjectRow, RowType,
     InfoType, OpType, Maybe, Workers, QRTimeout, dbVars, hdlVars, procVars, srvVars
<1>7. QED
  BY <1>1, <1>2, <1>3, <1>4, <1>5, <1>6 DEF Outside

LEMMA SessionProcess ==
  ASSUME TypeOK, TypeOK', MapInv, SessionInv, LoadAll \/ DisconnectAll \/ StopServing \/ Reboot
         \/ \E o \in Objs : DisconnectOne(o)
  PROVE  SessionInv'
<1> USE DEF SessionInv
<1>1. CASE LoadAll
  BY <1>1, ConstantsAssumption DEF TypeOK, SessionOfRow, WorkerRow, ObjectRow, RowType,
     InfoType, OpType, Maybe, Workers, LoadAll, Listed, Local, procVars, dbVars, waVars,
     hdlVars, Rows
<1>2. CASE DisconnectAll
  BY <1>2, ConstantsAssumption DEF TypeOK, SessionOfRow, WorkerRow, ObjectRow, RowType,
     InfoType, OpType, Maybe, Workers, DisconnectAll, Unregistered, dbVars, waVars, hdlVars,
     procVars
<1>3. CASE StopServing
  BY <1>3, ConstantsAssumption DEF TypeOK, SessionOfRow, WorkerRow, ObjectRow, RowType,
     InfoType, OpType, Maybe, Workers, StopServing, dbVars, waVars, hdlVars, procVars
<1>4. CASE Reboot
  BY <1>4, ConstantsAssumption DEF TypeOK, SessionOfRow, WorkerRow, ObjectRow, RowType,
     InfoType, OpType, Maybe, Workers, Reboot, Unregistered, EachObj, NoInfo, EachWorker, NoOp,
     dbVars, Local
<1>5. CASE \E o \in Objs : DisconnectOne(o)
  BY <1>5, ConstantsAssumption, DisconnectKeeps DEF TypeOK, SessionOfRow, WorkerRow, ObjectRow,
     RowType, InfoType, OpType, Maybe, Workers, DisconnectOne, dbVars, hdlVars, procVars
<1>6. QED
  BY <1>1, <1>2, <1>3, <1>4, <1>5

\* An instance never takes up the session of another one.  The invariant adds
\* the sessions in transit: those a worker read from a row before it builds the
\* client, and those a handler read from the client before it writes the row.
THEOREM SessionsStay == Spec => []SessionOfRow
<1>1. Init => SessionInv
  BY ConstantsAssumption DEF Init, SessionInv, SessionOfRow, WorkerRow, ObjectRow, EachObj,
     EachWorker, NoRow, NoOp, Local, NoInfo
<1>2. TypeOK /\ TypeOK' /\ MapInv /\ SessionInv /\ [Next]_vars => SessionInv'
  <2> SUFFICES ASSUME TypeOK, TypeOK', MapInv, SessionInv, [Next]_vars PROVE SessionInv'
    OBVIOUS
  <2>1. CASE Next
    BY <2>1, SessionRequest, SessionStep, SessionHandler, SessionOutside, SessionProcess DEF Next
  <2>2. CASE UNCHANGED vars
    BY <2>2 DEF vars, SessionInv, SessionOfRow, WorkerRow, ObjectRow
  <2>3. QED
    BY <2>1, <2>2
<1>3. SessionInv => SessionOfRow
  BY DEF SessionInv
<1>4. QED
  BY <1>1, <1>2, <1>3, TypeCorrect, MapInvariant, PTL DEF Spec

=============================================================================
