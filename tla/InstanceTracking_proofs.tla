----------------------- MODULE InstanceTracking_proofs -----------------------
(***************************************************************************)
(* That the manager loses track of no client and no row, for every value   *)
(* of the constants: a connected client is in the map, in DisconnectAll's  *)
(* snapshot or in the hands of an operation (NoStray), and a registered    *)
(* instance has its row (RunningHasRow).                                   *)
(*                                                                         *)
(* The argument is by the operations under way: a name that is not excused *)
(* has at most one, and what that one has taken from the map is its own.   *)
(***************************************************************************)
EXTENDS InstanceManager_proofs

-----------------------------------------------------------------------------
(* What a step does to the rows *)

\* A row that was ever inserted stays inserted and keeps its name.
NamesKept ==
  \A i \in Ids : row[i].status # "unused" =>
    row'[i].status # "unused" /\ row'[i].name = row[i].name

LEMMA StatusKeepsNames ==
  ASSUME TypeOK, NEW i, NEW s \in {"close", "connecting", "open"}, UpdateInstanceStatus(i, s)
  PROVE  NamesKept /\ Rows' = Rows
<1>1. CASE i \in Rows /\ row' = [row EXCEPT ![i].status = s]
  BY <1>1 DEF TypeOK, Rows, RowType, NamesKept
<1>2. CASE UNCHANGED row
  BY <1>2 DEF Rows, NamesKept
<1>3. QED
  BY <1>1, <1>2 DEF UpdateInstanceStatus, Update

LEMMA PhoneKeepsNames ==
  ASSUME TypeOK, NEW i, NEW j, UpdateInstancePhone(i, j)
  PROVE  NamesKept /\ Rows' = Rows
<1>1. CASE i \in Rows /\ row' = [row EXCEPT ![i].jid = j]
  BY <1>1 DEF TypeOK, Rows, RowType, NamesKept
<1>2. CASE UNCHANGED row
  BY <1>2 DEF Rows, NamesKept
<1>3. QED
  BY <1>1, <1>2 DEF UpdateInstancePhone, Update

LEMMA DeleteKeepsNames ==
  ASSUME TypeOK, NEW p \in Workers, DeleteRow(p)
  PROVE  NamesKept /\ Rows' \subseteq Rows /\ Rows \ {op[p].row} \subseteq Rows'
<1>1. CASE UNCHANGED row
  BY <1>1 DEF Rows, NamesKept
<1>2. CASE row' = [row EXCEPT ![op[p].row].status = "deleted", ![op[p].row].jid = None]
  <2>1. ASSUME NEW i \in Ids
        PROVE  /\ row'[i].name = row[i].name
               /\ i # op[p].row => row'[i] = row[i]
               /\ i = op[p].row => row'[i].status = "deleted"
    <3>1. row[i] \in RowType
      BY DEF TypeOK
    <3>2. QED
      BY <1>2, <3>1 DEF TypeOK, RowType
  <2>2. QED
    BY <2>1 DEF Rows, NamesKept
<1>3. QED
  BY <1>1, <1>2 DEF DeleteRow, Update

LEMMA InsertKeepsNames ==
  ASSUME TypeOK, NEW p \in Workers, CreateInsert(p)
  PROVE  /\ NamesKept /\ Rows \subseteq Rows'
         /\ \A i \in Rows' \ Rows : /\ row'[i].name = op[p].name /\ Found(op[p].name) = {}
                                    /\ \A k \in Rows' \ Rows : k = i
BY DEF CreateInsert, TypeOK, Rows, RowType, NamesKept

\* Only CreateInsert adds a row, only DeleteRow removes one.
LEMMA NextRows ==
  ASSUME TypeOK, Next
  PROVE  /\ NamesKept
         /\ Rows' \subseteq Rows \/ \E p \in Workers : CreateInsert(p)
         /\ Rows \subseteq Rows' \/ \E p \in Workers : DeleteRow(p)
<1>1. CASE UNCHANGED row
  BY <1>1 DEF NamesKept, Rows
<1>2. ASSUME NEW p \in Workers, CreateInsert(p) \/ DeleteRow(p)
      PROVE  /\ NamesKept
             /\ Rows' \subseteq Rows \/ \E q \in Workers : CreateInsert(q)
             /\ Rows \subseteq Rows' \/ \E q \in Workers : DeleteRow(q)
  BY <1>2, InsertKeepsNames, DeleteKeepsNames
<1>3. ASSUME NEW p \in Workers,
             MarkConnecting(p) \/ LogoutStatus(p) \/ LogoutPhone(p) \/ DisconnectStatus(p)
      PROVE  NamesKept /\ Rows' = Rows
  BY <1>3, StatusKeepsNames, PhoneKeepsNames
  DEF MarkConnecting, LogoutStatus, LogoutPhone, DisconnectStatus
<1>4. ASSUME NEW o \in Objs, Handler(o)
      PROVE  NamesKept /\ Rows' = Rows
  <2>1. CASE UNCHANGED row
    BY <2>1 DEF NamesKept, Rows
  <2>2. QED
    BY <1>4, <2>1, StatusKeepsNames, PhoneKeepsNames
    DEF Handler, HandleConnected, HandleConnectedStatus, HandleConnectedPhone, HandleLoggedOut,
        HandleLoggedOutPhone, dbVars
<1>5. ASSUME NEW p \in Procs, NEW n \in Names, Request(p, n) PROVE UNCHANGED row
  BY <1>5 DEF Request, Create, Connect, Restart, Logout, Delete, Take, Disconnect, dbVars
<1>6. ASSUME NEW p \in Workers, Step(p)
      PROVE  \/ CreateInsert(p) \/ DeleteRow(p)
             \/ MarkConnecting(p) \/ LogoutStatus(p) \/ LogoutPhone(p) \/ DisconnectStatus(p)
             \/ UNCHANGED row
  BY <1>6 DEF Step, ConnectEvict, RestartLookup, NewInstance, Dial, PutInstance, LogoutClient,
              LookupRow, DisconnectClient, dbVars
<1>7. ASSUME NEW o \in Objs, Outside(o) \/ DisconnectOne(o) PROVE UNCHANGED row
  BY <1>7 DEF Outside, Pair, Login, RemoteLogout, Drop, AutoReconnect, QRTimeout, DisconnectOne,
              dbVars
<1>8. ASSUME LoadAll \/ DisconnectAll \/ StopServing \/ Reboot PROVE UNCHANGED row
  BY <1>8 DEF LoadAll, DisconnectAll, StopServing, Reboot, dbVars
<1>9. CASE \E p \in Procs, n \in Names : Request(p, n)
  BY <1>1, <1>5, <1>9
<1>10. CASE \E p \in Workers : Step(p)
  BY <1>1, <1>2, <1>3, <1>6, <1>10
<1>11. CASE \E o \in Objs : DisconnectOne(o) \/ Handler(o) \/ Outside(o)
  BY <1>1, <1>4, <1>7, <1>11
<1>12. QED
  BY <1>1, <1>8, <1>9, <1>10, <1>11 DEF Next

-----------------------------------------------------------------------------
(* What a step does to the workers *)

\* Only worker p moves, and no name is excused no longer.
Alone(p) ==
  /\ \A q \in Workers \ {p} : pc'[q] = pc[q] /\ op'[q] = op[q]
  /\ excused \subseteq excused'
  /\ UNCHANGED srvVars

\* A request starts a worker on its name, which is excused if it is in use.
LEMMA RequestShape ==
  ASSUME TypeOK, NEW p \in Procs, NEW n \in Names, Request(p, n)
  PROVE  /\ p \in Workers /\ Alone(p) /\ pc[p] = "idle"
         /\ pc'[p] # "idle" => op'[p].name = n
         /\ InFlight(n) => n \in excused'
<1> p \in Workers
  BY DEF Workers
<1> USE DEF Alone, TypeOK, Goto, Holds, Local, Excuse, Starts
<1>1. CASE Create(p, n)
  BY <1>1 DEF Create, procVars
<1>2. CASE Connect(p, n)
  BY <1>2 DEF Connect, procVars
<1>3. CASE Restart(p, n)
  BY <1>3 DEF Restart
<1>4. CASE Logout(p, n) \/ Delete(p, n)
  BY <1>4 DEF Logout, Delete, Take
<1>5. CASE Disconnect(p, n)
  BY <1>5 DEF Disconnect, procVars
<1>6. QED
  BY <1>1, <1>2, <1>3, <1>4, <1>5 DEF Request

\* A worker under way keeps its name until it is done.
LEMMA StepShape ==
  ASSUME TypeOK, NEW p \in Workers, Step(p)
  PROVE  /\ Alone(p) /\ pc[p] # "idle"
         /\ pc'[p] # "idle" => op'[p].name = op[p].name
<1> USE DEF Alone, TypeOK, Goto, Holds, Finish, NoOp, Local, Excuse
<1>1. CASE CreateInsert(p)
  BY <1>1 DEF CreateInsert
<1>2. CASE ConnectEvict(p) \/ RestartLookup(p)
  BY <1>2 DEF ConnectEvict, RestartLookup
<1>3. CASE NewInstance(p)
  BY <1>3 DEF NewInstance
<1>4. CASE MarkConnecting(p) \/ Dial(p) \/ PutInstance(p)
  BY <1>4 DEF MarkConnecting, Dial, PutInstance
<1>5. CASE LogoutClient(p, "lo_client", "lo_lookup") \/ LogoutClient(p, "de_client", "de_lookup")
  BY <1>5 DEF LogoutClient, InstanceLogout
<1>6. CASE LookupRow(p, "lo_lookup", "lo_status") \/ LookupRow(p, "de_lookup", "de_row")
  BY <1>6 DEF LookupRow
<1>7. CASE LogoutStatus(p) \/ LogoutPhone(p) \/ DeleteRow(p)
  BY <1>7 DEF LogoutStatus, LogoutPhone, DeleteRow
<1>8. CASE DisconnectClient(p) \/ DisconnectStatus(p)
  BY <1>8 DEF DisconnectClient, DisconnectStatus
<1>9. QED
  BY <1>1, <1>2, <1>3, <1>4, <1>5, <1>6, <1>7, <1>8 DEF Step

\* The clients' own steps leave the workers alone.
LEMMA ClientShape ==
  ASSUME TypeOK, NEW o \in Objs, Handler(o) \/ Outside(o) \/ DisconnectOne(o)
  PROVE  /\ UNCHANGED <<pc, op, instances, info, srv, loader, boots>>
         /\ excused \subseteq excused'
         /\ closing' = closing \/ DisconnectOne(o)
<1> USE DEF procVars, srvVars, waVars
<1>1. CASE Handler(o)
  BY <1>1 DEF Handler, HandleConnected, HandleConnectedStatus, HandleConnectedPhone,
             HandleLoggedOut, HandleLoggedOutPhone
<1>2. CASE Outside(o)
  BY <1>2 DEF Outside, Pair, Login, RemoteLogout, Drop, AutoReconnect, QRTimeout
<1>3. CASE DisconnectOne(o)
  BY <1>3 DEF DisconnectOne, Excuse
<1>4. QED
  BY <1>1, <1>2, <1>3

-----------------------------------------------------------------------------
(* Names *)

\* Rows and workers have names, no two rows the same; LoadAll's goroutines do not
\* run before it, and the snapshot of DisconnectAll is taken once.
RowsNamed == \A i \in Rows : row[i].name \in Names
UniqueNames == \A i, j \in Rows : row[i].name = row[j].name => i = j
WorkersNamed == \A p \in Workers : pc[p] # "idle" => op[p].name \in Names
LoaderFirst == loader = "pending" => \A p \in Ids : pc[p] = "idle"
ClosingAfter == srv = "up" => closing = {}

NameInv == UniqueNames /\ RowsNamed /\ WorkersNamed /\ LoaderFirst /\ ClosingAfter

LEMMA RowNamesStep ==
  ASSUME TypeOK, NameInv, Next
  PROVE  UniqueNames' /\ RowsNamed'
<1>1. CASE Rows' \subseteq Rows
  <2>1. \A i \in Rows' : row'[i].name = row[i].name
    BY <1>1, NextRows DEF NamesKept, Rows
  <2>2. QED
    BY <1>1, <2>1 DEF NameInv, UniqueNames, RowsNamed
<1>2. ASSUME NEW p \in Workers, CreateInsert(p)
      PROVE  UniqueNames' /\ RowsNamed'
  <2>1. \A i \in Rows : row'[i].name = row[i].name
    BY <1>2, InsertKeepsNames DEF NamesKept, Rows
  <2>2. op[p].name \in Names
    BY <1>2 DEF CreateInsert, NameInv, WorkersNamed
  <2>3. \A i \in Rows' \ Rows : /\ row'[i].name = op[p].name
                                /\ \A k \in Rows : row[k].name # op[p].name
                                /\ \A k \in Rows' \ Rows : k = i
    BY <1>2, InsertKeepsNames DEF Found
  <2>4. QED
    BY <2>1, <2>2, <2>3 DEF NameInv, UniqueNames, RowsNamed
<1>3. QED
  BY <1>1, <1>2, NextRows

LEMMA NamesStep ==
  ASSUME TypeOK, NameInv, Next
  PROVE  NameInv'
<1> USE DEF NameInv
<1>1. UniqueNames' /\ RowsNamed'
  BY RowNamesStep
<1>2. ASSUME NEW p \in Procs, NEW n \in Names, Request(p, n)
      PROVE  WorkersNamed' /\ LoaderFirst' /\ ClosingAfter'
  <2>1. /\ Alone(p)
        /\ pc'[p] # "idle" => op'[p].name = n
        /\ p \notin Ids
    BY <1>2, RequestShape, ConstantsAssumption
  <2>2. QED
    BY <2>1 DEF Alone, WorkersNamed, LoaderFirst, ClosingAfter, srvVars, Workers
<1>3. ASSUME NEW p \in Workers, Step(p)
      PROVE  WorkersNamed' /\ LoaderFirst' /\ ClosingAfter'
  <2>1. /\ Alone(p) /\ pc[p] # "idle"
        /\ pc'[p] # "idle" => op'[p].name = op[p].name
    BY <1>3, StepShape
  <2>2. QED
    BY <2>1 DEF Alone, WorkersNamed, LoaderFirst, ClosingAfter, srvVars, Workers
<1>4. ASSUME NEW o \in Objs, DisconnectOne(o) \/ Handler(o) \/ Outside(o)
      PROVE  WorkersNamed' /\ LoaderFirst' /\ ClosingAfter'
  <2>1. UNCHANGED <<pc, op, srv, loader>> /\ (closing' = closing \/ closing' = closing \ {o})
    BY <1>4, ClientShape DEF DisconnectOne
  <2>2. QED
    BY <2>1 DEF WorkersNamed, LoaderFirst, ClosingAfter
<1>5. CASE LoadAll
  <2>1. \A p \in Workers : pc'[p] # "idle" => op'[p].name \in Names
    BY <1>5 DEF LoadAll, WorkersNamed, RowsNamed, Listed, Local, procVars, TypeOK
  <2>2. QED
    BY <1>1, <1>5, <2>1 DEF LoadAll, WorkersNamed, LoaderFirst, ClosingAfter
<1>6. CASE DisconnectAll \/ StopServing
  BY <1>1, <1>6 DEF DisconnectAll, StopServing, WorkersNamed, LoaderFirst, ClosingAfter, procVars
<1>7. CASE Reboot
  BY <1>1, <1>7 DEF Reboot, WorkersNamed, LoaderFirst, ClosingAfter, EachWorker, Workers
<1>8. QED
  BY <1>1, <1>2, <1>3, <1>4, <1>5, <1>6, <1>7 DEF Next

LEMMA NameInvariant == Spec => []NameInv
<1>1. Init => NameInv
  BY DEF Init, NameInv, UniqueNames, RowsNamed, WorkersNamed, LoaderFirst, ClosingAfter, Rows,
         NoRow, EachWorker, Workers
<1>2. TypeOK /\ NameInv /\ [Next]_vars => NameInv'
  <2>1. ASSUME NameInv, UNCHANGED vars PROVE NameInv'
    BY <2>1 DEF vars, NameInv, UniqueNames, RowsNamed, WorkersNamed, LoaderFirst, ClosingAfter, Rows
  <2>2. QED
    BY <2>1, NamesStep
<1>3. QED
  BY <1>1, <1>2, TypeCorrect, PTL DEF Spec

-----------------------------------------------------------------------------
(* A name that is not excused has one operation under way at most *)

\* Two workers of one name overlap, which excuses it.
Sole ==
  \A p, q \in Workers :
    p # q /\ pc[p] # "idle" /\ pc[q] # "idle" /\ op[p].name = op[q].name
      => op[p].name \in excused

\* The operation has taken its name's entry out of the map and nobody has put
\* another one there.
EntryGone ==
  \A p \in Workers :
    pc[p] \notin {"idle", "cr_insert", "co_evict"} /\ op[p].name \notin excused
      => instances[op[p].name] = None

\* The object a worker holds was made for the worker's name.
Held ==
  \A p \in Workers : op[p].obj # None =>
    /\ pc[p] \in {"status", "dial", "put", "lo_client", "de_client", "di_client"}
    /\ client[op[p].obj] # "none"
    /\ info[op[p].obj].name = op[p].name

\* Every object was made for some name.
ObjectsNamed == \A x \in Objs : client[x] # "none" => info[x].name \in Names

SoleInv == Sole /\ EntryGone /\ Held /\ ObjectsNamed

LEMMA SoleRequest ==
  ASSUME TypeOK, MapInv, NameInv, SoleInv, NEW p \in Procs, NEW n \in Names, Request(p, n)
  PROVE  SoleInv'
<1>1. /\ p \in Workers /\ Alone(p) /\ pc[p] = "idle"
      /\ pc'[p] # "idle" => op'[p].name = n
      /\ InFlight(n) => n \in excused'
  BY RequestShape
<1>2. Sole'
  BY <1>1 DEF SoleInv, Sole, Alone, InFlight
<1>3. \A m \in Names : instances'[m] \in {instances[m], None}
  BY DEF Request, Create, Connect, Restart, Logout, Delete, Take, Disconnect, TypeOK
<1>4. pc'[p] \notin {"idle", "cr_insert", "co_evict"} => instances'[n] = None
  BY <1>1 DEF Request, Create, Connect, Restart, Logout, Delete, Take, Disconnect, TypeOK, Goto,
              procVars
<1>5. EntryGone'
  BY <1>1, <1>3, <1>4 DEF SoleInv, EntryGone, Alone, NameInv, WorkersNamed
<1>6. /\ UNCHANGED info
      /\ \A x \in Objs : client'[x] = "none" <=> client[x] = "none"
  BY DisconnectKeeps
  DEF Request, Create, Connect, Restart, Logout, Delete, Take, Disconnect, waVars
<1>7. op'[p].obj # None =>
        /\ op'[p].obj = instances[n] /\ op'[p].name = n
        /\ pc'[p] \in {"lo_client", "de_client", "di_client"}
  <2>1. op[p].obj = None
    BY <1>1 DEF SoleInv, Held
  <2>2. QED
    BY <1>1, <2>1, ConstantsAssumption
    DEF Request, Create, Connect, Restart, Logout, Delete, Take, Disconnect, TypeOK, Goto, Holds,
        Local, procVars, Maybe
<1>8. ASSUME NEW q \in Workers, op'[q].obj # None
      PROVE  /\ pc'[q] \in {"status", "dial", "put", "lo_client", "de_client", "di_client"}
             /\ client'[op'[q].obj] # "none"
             /\ info'[op'[q].obj].name = op'[q].name
  <2>1. CASE q = p
    <3>1. op'[p].obj = instances[n] /\ instances[n] \in Objs
      BY <1>7, <1>8, <2>1 DEF TypeOK, Maybe
    <3>2. client[instances[n]] # "none" /\ info[instances[n]].name = n
      BY <1>8, <2>1, <3>1 DEF MapInv, MapReady
    <3>3. QED
      BY <1>6, <1>7, <1>8, <2>1, <3>1, <3>2
  <2>2. CASE q # p
    <3>1. op'[q] = op[q] /\ pc'[q] = pc[q] /\ op[q].obj \in Objs
      BY <1>1, <1>8, <2>2, OpOfWorker DEF Alone, Maybe
    <3>2. QED
      BY <1>6, <1>8, <3>1 DEF SoleInv, Held
  <2>3. QED
    BY <2>1, <2>2
<1>9. ObjectsNamed'
  BY <1>6 DEF SoleInv, ObjectsNamed
<1>10. QED
  BY <1>2, <1>5, <1>8, <1>9 DEF SoleInv, Held

\* What a step of a worker does to the map.
LEMMA StepMap ==
  ASSUME TypeOK, NEW p \in Workers, Step(p)
  PROVE  /\ \A m \in Names : \/ instances'[m] \in {instances[m], None}
                             \/ PutInstance(p) /\ m = op[p].name /\ instances'[m] = op[p].obj
         /\ pc'[p] \notin {"idle", "cr_insert", "co_evict"} =>
              ~PutInstance(p) /\ (pc[p] \in {"cr_insert", "co_evict"} => ConnectEvict(p))
<1> USE DEF TypeOK, Goto, Finish
<1>1. CASE CreateInsert(p)
  BY <1>1 DEF CreateInsert, PutInstance
<1>2. CASE ConnectEvict(p)
  BY <1>2 DEF ConnectEvict, PutInstance
<1>3. CASE PutInstance(p)
  BY <1>3 DEF PutInstance
<1>4. CASE RestartLookup(p) \/ NewInstance(p) \/ MarkConnecting(p) \/ Dial(p)
  BY <1>4 DEF RestartLookup, NewInstance, MarkConnecting, Dial, PutInstance
<1>5. CASE LogoutClient(p, "lo_client", "lo_lookup") \/ LogoutClient(p, "de_client", "de_lookup")
  BY <1>5 DEF LogoutClient, PutInstance
<1>6. CASE LookupRow(p, "lo_lookup", "lo_status") \/ LookupRow(p, "de_lookup", "de_row")
  BY <1>6 DEF LookupRow, PutInstance
<1>7. CASE LogoutStatus(p) \/ LogoutPhone(p) \/ DeleteRow(p)
  BY <1>7 DEF LogoutStatus, LogoutPhone, DeleteRow, PutInstance
<1>8. CASE DisconnectClient(p) \/ DisconnectStatus(p)
  BY <1>8 DEF DisconnectClient, DisconnectStatus, PutInstance
<1>9. QED
  BY <1>1, <1>2, <1>3, <1>4, <1>5, <1>6, <1>7, <1>8 DEF Step

\* What a step of a worker does to the objects: only newInstance makes one, and
\* the worker then holds it.
LEMMA StepObjects ==
  ASSUME TypeOK, SoleInv, NEW p \in Workers, Step(p)
  PROVE  /\ \A x \in Objs : client[x] # "none" => client'[x] # "none" /\ info'[x] = info[x]
         /\ \A x \in Objs : client[x] = "none" /\ client'[x] # "none" =>
              info'[x].name = op[p].name
         /\ op'[p].obj # None =>
              /\ pc'[p] \in {"status", "dial", "put"}
              /\ client'[op'[p].obj] # "none"
              /\ info'[op'[p].obj].name = op'[p].name
<1> USE DEF TypeOK, Goto, Holds, Local, Finish, NoOp
<1>1. CASE CreateInsert(p)
  BY <1>1 DEF CreateInsert, waVars
<1>2. CASE ConnectEvict(p)
  BY <1>2, DisconnectKeeps DEF ConnectEvict, SoleInv, Held
<1>3. CASE RestartLookup(p)
  BY <1>3 DEF RestartLookup, waVars
<1>4. CASE NewInstance(p)
  BY <1>4 DEF NewInstance
<1>5. CASE MarkConnecting(p)
  BY <1>5 DEF MarkConnecting, waVars, SoleInv, Held
<1>6. CASE Dial(p)
  BY <1>6, ConstantsAssumption DEF Dial, SoleInv, Held
<1>7. CASE PutInstance(p)
  BY <1>7 DEF PutInstance, waVars
<1>8. CASE LogoutClient(p, "lo_client", "lo_lookup") \/ LogoutClient(p, "de_client", "de_lookup")
  BY <1>8, LogoutKeeps DEF LogoutClient
<1>9. CASE LookupRow(p, "lo_lookup", "lo_status") \/ LookupRow(p, "de_lookup", "de_row")
  BY <1>9 DEF LookupRow, waVars
<1>10. CASE LogoutPhone(p) \/ DeleteRow(p) \/ DisconnectStatus(p)
  BY <1>10 DEF LogoutPhone, DeleteRow, DisconnectStatus, waVars
<1>11. CASE LogoutStatus(p)
  BY <1>11 DEF LogoutStatus, waVars, SoleInv, Held
<1>12. CASE DisconnectClient(p)
  BY <1>12, DisconnectKeeps DEF DisconnectClient
<1>13. QED
  BY <1>1, <1>2, <1>3, <1>4, <1>5, <1>6, <1>7, <1>8, <1>9, <1>10, <1>11, <1>12 DEF Step

LEMMA SoleStep ==
  ASSUME TypeOK, NameInv, SoleInv, NEW p \in Workers, Step(p)
  PROVE  SoleInv'
<1>1. /\ Alone(p) /\ pc[p] # "idle"
      /\ pc'[p] # "idle" => op'[p].name = op[p].name
  BY StepShape
<1>2. Sole'
  BY <1>1 DEF SoleInv, Sole, Alone
<1>3. ASSUME NEW q \in Workers, pc'[q] \notin {"idle", "cr_insert", "co_evict"},
             op'[q].name \notin excused'
      PROVE  instances'[op'[q].name] = None
  <2>1. op'[q].name = op[q].name /\ op[q].name \in Names /\ op[q].name \notin excused
    BY <1>1, <1>3 DEF Alone, NameInv, WorkersNamed
  <2>2. CASE q = p /\ ConnectEvict(p)
    BY <2>1, <2>2 DEF ConnectEvict, TypeOK
  <2>3. CASE q = p /\ ~ConnectEvict(p)
    <3>1. pc[p] \notin {"idle", "cr_insert", "co_evict"} /\ ~PutInstance(p)
      BY <1>1, <1>3, <2>3, StepMap
    <3>2. instances[op[p].name] = None
      BY <2>1, <2>3, <3>1 DEF SoleInv, EntryGone
    <3>3. QED
      BY <2>1, <2>3, <3>1, <3>2, StepMap
  <2>4. CASE q # p
    <3>1. pc[q] = pc'[q] /\ op[q].name # op[p].name
      BY <1>1, <1>3, <2>1, <2>4 DEF Alone, SoleInv, Sole
    <3>2. instances[op[q].name] = None
      BY <1>3, <2>1, <3>1 DEF SoleInv, EntryGone
    <3>3. QED
      BY <2>1, <3>1, <3>2, StepMap
  <2>5. QED
    BY <2>2, <2>3, <2>4
<1>4. ASSUME NEW q \in Workers, op'[q].obj # None
      PROVE  /\ pc'[q] \in {"status", "dial", "put", "lo_client", "de_client", "di_client"}
             /\ client'[op'[q].obj] # "none"
             /\ info'[op'[q].obj].name = op'[q].name
  <2>1. CASE q = p
    BY <1>4, <2>1, StepObjects
  <2>2. CASE q # p
    <3>1. op'[q] = op[q] /\ pc'[q] = pc[q] /\ op[q].obj \in Objs
      BY <1>1, <1>4, <2>2, OpOfWorker DEF Alone, Maybe
    <3>2. QED
      BY <1>4, <3>1, StepObjects DEF SoleInv, Held
  <2>3. QED
    BY <2>1, <2>2
<1>5. ObjectsNamed'
  <2>1. op[p].name \in Names
    BY <1>1 DEF NameInv, WorkersNamed
  <2>2. QED
    BY <2>1, StepObjects DEF SoleInv, ObjectsNamed
<1>6. QED
  BY <1>2, <1>3, <1>4, <1>5 DEF SoleInv, EntryGone, Held

LEMMA SoleClient ==
  ASSUME TypeOK, SoleInv, NEW o \in Objs, Handler(o) \/ Outside(o) \/ DisconnectOne(o)
  PROVE  SoleInv'
<1>1. UNCHANGED <<pc, op, instances, info>> /\ excused \subseteq excused'
  BY ClientShape
<1>2. \A x \in Objs : client[x] # "none" <=> client'[x] # "none"
  <2>1. CASE Handler(o)
    BY <2>1 DEF Handler, HandleConnected, HandleConnectedStatus, HandleConnectedPhone, HandleLoggedOut,
                HandleLoggedOutPhone, waVars
  <2>2. CASE Outside(o)
    BY <2>2
    DEF Outside, Pair, Login, RemoteLogout, Drop, AutoReconnect, QRTimeout, IsConnected, TypeOK
  <2>3. CASE DisconnectOne(o)
    BY <2>3, DisconnectKeeps DEF DisconnectOne
  <2>4. QED
    BY <2>1, <2>2, <2>3
<1>3. Sole' /\ EntryGone'
  BY <1>1 DEF SoleInv, Sole, EntryGone
<1>4. Held'
  BY <1>1, <1>2, OpOfWorker DEF SoleInv, Held, Maybe
<1>5. ObjectsNamed'
  BY <1>1, <1>2 DEF SoleInv, ObjectsNamed
<1>6. QED
  BY <1>3, <1>4, <1>5 DEF SoleInv

\* LoadAll gives every row that was running a worker, which was idle before, and
\* excuses the names that were in use already.
LEMMA SoleLoadAll ==
  ASSUME TypeOK, NameInv, SoleInv, LoadAll
  PROVE  SoleInv'
<1>1. ObjectsNamed'
  BY DEF LoadAll, SoleInv, ObjectsNamed, waVars
<1>2. CASE UNCHANGED <<pc, op, excused>>
  BY <1>1, <1>2 DEF LoadAll, SoleInv, Sole, EntryGone, Held, waVars
<1>3. CASE /\ pc' = [p \in Workers |-> IF p \in Listed THEN "new" ELSE pc[p]]
           /\ op' = [p \in Workers |->
                IF p \in Listed THEN Local(row[p].name, p, row[p].jid, None) ELSE op[p]]
           /\ excused' = excused \cup {n \in Names : Busy(n) /\ \E i \in Listed : row[i].name = n}
  <2>1. \A p \in Workers \ Listed : pc'[p] = pc[p] /\ op'[p] = op[p]
    BY <1>3
  <2>2. \A p \in Listed : /\ p \in Workers /\ pc[p] = "idle" /\ pc'[p] = "new"
                          /\ op'[p].name = row[p].name /\ op'[p].obj = None
                          /\ row[p].name \in Names
                          /\ Busy(row[p].name) => row[p].name \in excused'
    BY <1>3 DEF LoadAll, NameInv, LoaderFirst, RowsNamed, Listed, Rows, Workers, Local
  <2>3. Sole'
    <3>1. SUFFICES ASSUME NEW p \in Workers, NEW q \in Workers, p # q, pc'[p] # "idle",
                          pc'[q] # "idle", op'[p].name = op'[q].name
                   PROVE  op'[p].name \in excused'
      BY DEF Sole
    <3>2. CASE p \in Listed /\ q \in Listed
      BY <2>2, <3>1, <3>2 DEF NameInv, UniqueNames, Listed
    <3>3. CASE p \in Listed /\ q \notin Listed
      BY <2>1, <2>2, <3>1, <3>3 DEF Busy, InFlight
    <3>4. CASE p \notin Listed /\ q \in Listed
      BY <2>1, <2>2, <3>1, <3>4 DEF Busy, InFlight
    <3>5. CASE p \notin Listed /\ q \notin Listed
      BY <1>3, <2>1, <3>1, <3>5 DEF SoleInv, Sole
    <3>6. QED
      BY <3>2, <3>3, <3>4, <3>5
  <2>4. EntryGone'
    BY <1>3, <2>1, <2>2 DEF LoadAll, SoleInv, EntryGone, Busy
  <2>5. Held'
    BY <2>1, <2>2 DEF LoadAll, SoleInv, Held, waVars
  <2>6. QED
    BY <1>1, <2>3, <2>4, <2>5 DEF SoleInv
<1>4. QED
  BY <1>2, <1>3 DEF LoadAll, procVars

LEMMA SoleNext ==
  ASSUME TypeOK, MapInv, NameInv, SoleInv, Next
  PROVE  SoleInv'
<1>1. CASE DisconnectAll \/ StopServing
  <2>1. /\ UNCHANGED <<pc, op, info, client, excused>>
        /\ \A n \in Names : instances'[n] \in {instances[n], None}
    BY <1>1 DEF DisconnectAll, StopServing, Unregistered, procVars, waVars
  <2>2. QED
    BY <2>1 DEF SoleInv, Sole, EntryGone, Held, ObjectsNamed, NameInv, WorkersNamed
<1>2. CASE Reboot
  BY <1>2 DEF Reboot, EachObj, EachWorker, NoOp, Local, SoleInv, Sole, EntryGone, Held, ObjectsNamed
<1>3. QED
  BY <1>1, <1>2, SoleRequest, SoleStep, SoleClient, SoleLoadAll DEF Next

LEMMA SoleInvariant == Spec => []SoleInv
<1>1. Init => SoleInv
  BY DEF Init, EachObj, EachWorker, NoOp, Local, SoleInv, Sole, EntryGone, Held, ObjectsNamed
<1>2. TypeOK /\ MapInv /\ NameInv /\ SoleInv /\ [Next]_vars => SoleInv'
  <2>1. ASSUME SoleInv, UNCHANGED vars PROVE SoleInv'
    BY <2>1 DEF vars, SoleInv, Sole, EntryGone, Held, ObjectsNamed
  <2>2. QED
    BY <2>1, SoleNext
<1>3. QED
  BY <1>1, <1>2, TypeCorrect, MapInvariant, NameInvariant, PTL DEF Spec

-----------------------------------------------------------------------------
(* No client is lost *)

LEMMA DisconnectStops ==
  ASSUME TypeOK, NEW o, DisconnectEntry(o)
  PROVE  \A x \in Objs : Live(x)' => Live(x) /\ (x = o => Retrying(o))
BY DEF TypeOK, DisconnectEntry, Stopped, IsConnected, Live, Retrying

LEMMA LogoutStops ==
  ASSUME TypeOK, NEW o, NEW n, InstanceLogout(o, n)
  PROVE  \A x \in Objs : Live(x)' => Live(x) /\ (x = o => n \in excused')
BY DEF TypeOK, InstanceLogout, Stopped, IsConnected, Live, Retrying, Excuse

LEMMA TrackRequest ==
  ASSUME TypeOK, MapInv, NameInv, SoleInv, NoStray, NEW p \in Procs, NEW n \in Names,
         Request(p, n)
  PROVE  NoStray'
<1>1. /\ p \in Workers /\ Alone(p) /\ pc[p] = "idle"
  BY RequestShape
<1>2. /\ UNCHANGED info
      /\ \A x \in Objs : Live(x)' => Live(x)
  BY DisconnectStops
  DEF Request, Create, Connect, Restart, Logout, Delete, Take, Disconnect, waVars, Live
<1>3. ASSUME NEW x \in Objs, Live(x)', instances[info[x].name] = x, info[x].name \in Names,
             info[x].name \notin excused'
      PROVE  \/ instances'[info[x].name] = x
             \/ pc'[p] # "idle" /\ op'[p].obj = x
  <2>1. CASE info[x].name # n
    BY <1>3, <2>1
    DEF Request, Create, Connect, Restart, Logout, Delete, Take, Disconnect, TypeOK
  <2>2. CASE info[x].name = n
    <3>1. CASE Restart(p, n)
      BY <1>3, <2>2, <3>1, DisconnectStops DEF Restart, Excuse
    <3>2. CASE Create(p, n) \/ Connect(p, n)
      BY <1>3, <2>2, <3>2 DEF Create, Connect
    <3>3. CASE Logout(p, n) \/ Delete(p, n) \/ Disconnect(p, n)
      BY <1>1, <1>3, <2>2, <3>3 DEF Logout, Delete, Take, Disconnect, Goto, Holds, Local, TypeOK
    <3>4. QED
      BY <3>1, <3>2, <3>3 DEF Request
  <2>3. QED
    BY <2>1, <2>2
<1>4. QED
  BY <1>1, <1>2, <1>3 DEF NoStray, Alone, srvVars, Live, SoleInv, ObjectsNamed

\* A worker starts no client but the one it holds, and keeps hold of it ...
LEMMA StepLive ==
  ASSUME TypeOK, SoleInv, NEW p \in Workers, Step(p)
  PROVE  \A x \in Objs : Live(x)' => Live(x) \/ (pc'[p] = "put" /\ op'[p].obj = x)
<1> USE DEF TypeOK, Live
<1>1. CASE ConnectEvict(p) \/ DisconnectClient(p)
  BY <1>1, DisconnectStops DEF ConnectEvict, DisconnectClient
<1>2. CASE Dial(p)
  BY <1>2 DEF Dial, Goto
<1>3. CASE LogoutClient(p, "lo_client", "lo_lookup") \/ LogoutClient(p, "de_client", "de_lookup")
  BY <1>3, LogoutStops DEF LogoutClient
<1>4. CASE NewInstance(p)
  BY <1>4 DEF NewInstance
<1>5. CASE UNCHANGED client
  BY <1>5
<1>6. QED
  BY <1>1, <1>2, <1>3, <1>4, <1>5
  DEF Step, CreateInsert, RestartLookup, MarkConnecting, PutInstance, LookupRow, LogoutStatus,
      LogoutPhone, DeleteRow, DisconnectStatus, waVars

\* ... until it is in the map or stopped.
LEMMA StepHolds ==
  ASSUME TypeOK, NameInv, SoleInv, NEW p \in Workers, Step(p), NEW x \in Objs, op[p].obj = x,
         Live(x)', info[x].name \notin excused'
  PROVE  instances'[info[x].name] = x \/ (pc'[p] # "idle" /\ op'[p].obj = x)
<1>1. /\ pc[p] \in {"status", "dial", "put", "lo_client", "de_client", "di_client"}
      /\ info[x].name = op[p].name /\ op[p].name \in Names
  BY ConstantsAssumption DEF SoleInv, Held, NameInv, WorkersNamed
<1>2. CASE pc[p] = "status"
  <2>1. MarkConnecting(p)
    BY <1>2 DEF Step, CreateInsert, ConnectEvict, RestartLookup, NewInstance, Dial, PutInstance,
                LogoutClient, LookupRow, LogoutStatus, LogoutPhone, DeleteRow, DisconnectClient,
                DisconnectStatus
  <2>2. QED
    BY <2>1 DEF MarkConnecting, Goto, TypeOK
<1>3. CASE pc[p] = "dial"
  <2>1. Dial(p)
    BY <1>3 DEF Step, CreateInsert, ConnectEvict, RestartLookup, NewInstance, MarkConnecting,
                PutInstance, LogoutClient, LookupRow, LogoutStatus, LogoutPhone, DeleteRow,
                DisconnectClient, DisconnectStatus
  <2>2. QED
    BY <2>1 DEF Dial, Goto, Live, TypeOK
<1>4. CASE pc[p] = "put"
  <2>1. PutInstance(p)
    BY <1>4 DEF Step, CreateInsert, ConnectEvict, RestartLookup, NewInstance, MarkConnecting,
                Dial, LogoutClient, LookupRow, LogoutStatus, LogoutPhone, DeleteRow,
                DisconnectClient, DisconnectStatus
  <2>2. QED
    BY <1>1, <2>1 DEF PutInstance, TypeOK
<1>5. CASE pc[p] \in {"lo_client", "de_client"}
  <2>1. InstanceLogout(x, op[p].name)
    BY <1>5 DEF Step, CreateInsert, ConnectEvict, RestartLookup, NewInstance, MarkConnecting,
                Dial, PutInstance, LogoutClient, LookupRow, LogoutStatus, LogoutPhone, DeleteRow,
                DisconnectClient, DisconnectStatus
  <2>2. QED
    BY <1>1, <2>1, LogoutStops
<1>6. CASE pc[p] = "di_client"
  <2>1. DisconnectEntry(x) /\ Excuse(op[p].name, Retrying(x))
    BY <1>6 DEF Step, CreateInsert, ConnectEvict, RestartLookup, NewInstance, MarkConnecting,
                Dial, PutInstance, LogoutClient, LookupRow, LogoutStatus, LogoutPhone, DeleteRow,
                DisconnectClient, DisconnectStatus
  <2>2. QED
    BY <1>1, <2>1, DisconnectStops DEF Excuse
<1>7. QED
  BY <1>1, <1>2, <1>3, <1>4, <1>5, <1>6

LEMMA TrackStep ==
  ASSUME TypeOK, NameInv, SoleInv, NoStray, NEW p \in Workers, Step(p)
  PROVE  NoStray'
<1>1. /\ Alone(p) /\ pc[p] # "idle"
      /\ pc'[p] # "idle" => op'[p].name = op[p].name
  BY StepShape
<1>2. SUFFICES ASSUME NEW x \in Objs, Live(x)', info'[x].name \notin excused'
               PROVE  \/ instances'[info'[x].name] = x
                      \/ x \in closing'
                      \/ \E q \in Workers : pc'[q] # "idle" /\ op'[q].obj = x
  BY DEF NoStray
<1>3. CASE pc'[p] = "put" /\ op'[p].obj = x
  BY <1>3
<1>4. CASE Live(x)
  <2>1. info'[x] = info[x] /\ info[x].name \in Names /\ info[x].name \notin excused
    BY <1>1, <1>2, <1>4, StepObjects DEF Live, SoleInv, ObjectsNamed, Alone
  <2>2. CASE instances[info[x].name] = x
    <3>1. CASE ConnectEvict(p) /\ op[p].name = info[x].name
      BY <1>2, <2>1, <2>2, <3>1, DisconnectStops DEF ConnectEvict, Excuse
    <3>2. CASE PutInstance(p) /\ op[p].name = info[x].name
      BY <2>1, <2>2, <3>2, ConstantsAssumption DEF PutInstance, SoleInv, EntryGone
    <3>3. CASE ~(ConnectEvict(p) /\ op[p].name = info[x].name)
                 /\ ~(PutInstance(p) /\ op[p].name = info[x].name)
      <4>1. instances'[info[x].name] = instances[info[x].name]
        BY <2>1, <3>3
        DEF Step, CreateInsert, ConnectEvict, RestartLookup, NewInstance, MarkConnecting, Dial,
            PutInstance, LogoutClient, LookupRow, LogoutStatus, LogoutPhone, DeleteRow,
            DisconnectClient, DisconnectStatus, TypeOK
      <4>2. QED
        BY <2>1, <2>2, <4>1
    <3>4. QED
      BY <3>1, <3>2, <3>3
  <2>3. CASE x \in closing
    BY <1>1, <2>3 DEF Alone, srvVars
  <2>4. ASSUME NEW q \in Workers, pc[q] # "idle", op[q].obj = x
        PROVE  \/ instances'[info'[x].name] = x
               \/ \E r \in Workers : pc'[r] # "idle" /\ op'[r].obj = x
    <3>1. CASE q = p
      BY <1>2, <2>1, <2>4, <3>1, StepHolds
    <3>2. CASE q # p
      BY <1>1, <2>4, <3>2 DEF Alone
    <3>3. QED
      BY <3>1, <3>2
  <2>5. QED
    BY <1>4, <2>1, <2>2, <2>3, <2>4 DEF NoStray
<1>5. QED
  BY <1>2, <1>3, <1>4, StepLive

LEMMA TrackClient ==
  ASSUME TypeOK, NoStray, NEW o \in Objs, Handler(o) \/ Outside(o) \/ DisconnectOne(o)
  PROVE  NoStray'
<1>1. /\ UNCHANGED <<pc, op, instances, info>> /\ excused \subseteq excused'
      /\ closing' = closing \/ DisconnectOne(o)
  BY ClientShape
<1>2. CASE DisconnectOne(o)
  <2>1. \A x \in Objs : Live(x)' => Live(x) /\ (x = o => info[o].name \in excused')
    BY <1>2, DisconnectStops DEF DisconnectOne, Excuse
  <2>2. closing' = closing \ {o}
    BY <1>2 DEF DisconnectOne
  <2>3. QED
    BY <1>1, <2>1, <2>2 DEF NoStray
<1>3. CASE Handler(o) \/ Outside(o)
  <2>1. \A x \in Objs : Live(x)' => Live(x)
    BY <1>3
    DEF Handler, HandleConnected, HandleConnectedStatus, HandleConnectedPhone,
             HandleLoggedOut, HandleLoggedOutPhone,
        Outside, Pair, Login, RemoteLogout, Drop, AutoReconnect, QRTimeout, IsConnected, waVars,
        Live, TypeOK
  <2>2. closing' = closing
    BY <1>3
    DEF Handler, HandleConnected, HandleConnectedStatus, HandleConnectedPhone,
             HandleLoggedOut, HandleLoggedOutPhone,
        Outside, Pair, Login, RemoteLogout, Drop, AutoReconnect, QRTimeout, srvVars
  <2>3. QED
    BY <1>1, <2>1, <2>2 DEF NoStray
<1>4. QED
  BY <1>2, <1>3

LEMMA TrackProcess ==
  ASSUME TypeOK, NameInv, SoleInv, NoStray, LoadAll \/ DisconnectAll \/ StopServing \/ Reboot
  PROVE  NoStray'
<1>1. CASE LoadAll
  <2>1. UNCHANGED <<instances, client, info, closing>> /\ excused \subseteq excused'
    BY <1>1 DEF LoadAll, waVars
  <2>2. \A q \in Workers : pc[q] # "idle" => pc'[q] # "idle" /\ op'[q] = op[q]
    BY <1>1 DEF LoadAll, NameInv, LoaderFirst, Listed, Rows, procVars
  <2>3. QED
    BY <2>1, <2>2 DEF NoStray, Live
<1>2. CASE DisconnectAll
  BY <1>2
  DEF DisconnectAll, NoStray, Live, NameInv, ClosingAfter, SoleInv, ObjectsNamed, procVars, waVars
<1>3. CASE StopServing
  BY <1>3 DEF StopServing, NoStray, Live, procVars, waVars
<1>4. CASE Reboot
  BY <1>4 DEF Reboot, EachObj, NoStray, Live
<1>5. QED
  BY <1>1, <1>2, <1>3, <1>4

\* Every client that is connected or trying to is in the map, in the snapshot
\* DisconnectAll works through, or in the hands of the operation that is about to
\* register or stop it, for any number of names, requests, objects and faults:
\* what the three conditions of Excuse leave to happen is all that can go wrong.
THEOREM NoneIsStray == Spec => []NoStray
<1>1. Init => NoStray
  BY DEF Init, EachObj, NoStray, Live
<1>2. TypeOK /\ MapInv /\ NameInv /\ SoleInv /\ NoStray /\ [Next]_vars => NoStray'
  <2>1. ASSUME NoStray, UNCHANGED vars PROVE NoStray'
    BY <2>1 DEF vars, NoStray, Live
  <2>2. QED
    BY <2>1, TrackRequest, TrackStep, TrackClient, TrackProcess DEF Next
<1>3. QED
  BY <1>1, <1>2, TypeCorrect, MapInvariant, NameInvariant, SoleInvariant, PTL DEF Spec

-----------------------------------------------------------------------------
(* What runs has its row *)

\* A worker on its way to the map works for a row of its name, which is there as
\* long as the name is not excused, and so does the object it holds; a worker
\* about to delete a row has found it by its name.
WorksForRow(p) ==
  /\ pc[p] \in {"co_evict", "new", "status", "dial", "put"} /\ op[p].name \notin excused =>
       op[p].row \in Rows /\ row[op[p].row].name = op[p].name
  /\ pc[p] \in {"status", "dial", "put"} => info[op[p].obj].row = op[p].row
  /\ pc[p] = "de_row" => /\ op[p].row \in Ids
                         /\ row[op[p].row].status # "unused"
                         /\ row[op[p].row].name = op[p].name

RowInv == RunningHasRow /\ \A p \in Workers : WorksForRow(p)

\* A row only goes when an operation on its own name deletes it.
LEMMA RowGone ==
  ASSUME TypeOK, RowInv, Next, NEW i \in Rows, i \notin Rows'
  PROVE  \E p \in Workers : pc[p] = "de_row" /\ op[p].name = row[i].name /\ pc'[p] = "idle"
<1>1. PICK p \in Workers : DeleteRow(p)
  BY NextRows
<1>2. op[p].row = i
  BY <1>1, DeleteKeepsNames
<1>3. QED
  BY <1>1, <1>2 DEF DeleteRow, Finish, Goto, RowInv, WorksForRow, TypeOK

LEMMA UnmovedWorks ==
  ASSUME TypeOK, MapInv, SoleInv, RowInv, Next, NEW p \in Workers,
         pc'[p] = pc[p], op'[p] = op[p], excused \subseteq excused',
         \A x \in Objs : client[x] # "none" => info'[x] = info[x]
  PROVE  WorksForRow(p)'
<1>1. WorksForRow(p) /\ NamesKept
  BY NextRows DEF RowInv
<1>2. ASSUME pc[p] \in {"co_evict", "new", "status", "dial", "put"}, op[p].name \notin excused'
      PROVE  op[p].row \in Rows' /\ row'[op[p].row].name = op[p].name
  <2>1. op[p].row \in Rows /\ row[op[p].row].name = op[p].name /\ op[p].name \notin excused
    BY <1>1, <1>2 DEF WorksForRow
  <2>2. ASSUME op[p].row \notin Rows' PROVE FALSE
    <3>1. PICK q \in Workers : pc[q] = "de_row" /\ op[q].name = op[p].name /\ pc'[q] = "idle"
      BY <2>1, <2>2, RowGone
    <3>2. QED
      BY <1>2, <2>1, <3>1 DEF SoleInv, Sole
  <2>3. QED
    BY <1>1, <2>1, <2>2 DEF NamesKept, Rows
<1>3. pc[p] \in {"status", "dial", "put"} => info'[op[p].obj].row = op[p].row
  BY <1>1 DEF WorksForRow, MapInv, WorkerObject
<1>4. pc[p] = "de_row" => /\ op[p].row \in Ids
                          /\ row'[op[p].row].status # "unused"
                          /\ row'[op[p].row].name = op[p].name
  BY <1>1 DEF WorksForRow, NamesKept
<1>5. QED
  BY <1>2, <1>3, <1>4 DEF WorksForRow

LEMMA UnmovedEntry ==
  ASSUME TypeOK, MapInv, SoleInv, RowInv, Next, NEW n \in Names,
         instances'[n] = instances[n], instances[n] # None, n \notin excused',
         excused \subseteq excused',
         \A x \in Objs : client[x] # "none" => info'[x] = info[x]
  PROVE  /\ info'[instances[n]].row \in Rows'
         /\ row'[info'[instances[n]].row].name = n
<1> DEFINE i == info[instances[n]].row
<1>1. i \in Rows /\ row[i].name = n
  BY DEF RowInv, RunningHasRow
<1>2. info'[instances[n]] = info[instances[n]]
  BY DEF MapInv, MapReady, TypeOK, Maybe
<1>3. ASSUME i \notin Rows' PROVE FALSE
  <2>1. PICK q \in Workers : pc[q] = "de_row" /\ op[q].name = n
    BY <1>1, <1>3, RowGone
  <2>2. QED
    BY <2>1 DEF SoleInv, EntryGone
<1>4. row'[i].name = n
  BY <1>1, NextRows DEF NamesKept, Rows
<1>5. QED
  BY <1>2, <1>3, <1>4

LEMMA RowRequest ==
  ASSUME TypeOK, MapInv, NameInv, SoleInv, RowInv, Next, NEW p \in Procs, NEW n \in Names,
         Request(p, n)
  PROVE  RowInv'
<1>1. /\ p \in Workers /\ Alone(p) /\ pc[p] = "idle"
  BY RequestShape
<1>2. UNCHANGED <<row, info>> /\ \A m \in Names : instances'[m] \in {instances[m], None}
  BY DEF Request, Create, Connect, Restart, Logout, Delete, Take, Disconnect, TypeOK, dbVars, waVars
<1>3. WorksForRow(p)'
  <2>1. CASE Connect(p, n)
    BY <1>1, <1>2, <2>1
    DEF Connect, Goto, Holds, Local, Found, Rows, procVars, WorksForRow, TypeOK
  <2>2. CASE pc'[p] \notin {"co_evict", "new", "status", "dial", "put", "de_row"}
    BY <2>2 DEF WorksForRow
  <2>3. QED
    BY <1>1, <2>1, <2>2
    DEF Request, Create, Restart, Logout, Delete, Take, Disconnect, Goto, procVars, TypeOK
<1>4. \A q \in Workers \ {p} : WorksForRow(q)'
  BY <1>1, <1>2, UnmovedWorks DEF Alone
<1>5. RunningHasRow'
  BY <1>1, <1>2, UnmovedEntry DEF Alone, RunningHasRow
<1>6. QED
  BY <1>3, <1>4, <1>5 DEF RowInv

LEMMA RowStep ==
  ASSUME TypeOK, MapInv, NameInv, SoleInv, RowInv, Next, NEW p \in Workers, Step(p)
  PROVE  RowInv'
<1>1. /\ Alone(p) /\ pc[p] # "idle"
      /\ pc'[p] # "idle" => op'[p].name = op[p].name
  BY StepShape
<1>2. \A x \in Objs : client[x] # "none" => info'[x] = info[x]
  BY StepObjects
<1>3. WorksForRow(p)'
  <2>1. NamesKept /\ WorksForRow(p)
    BY NextRows DEF RowInv
  <2>2. CASE RestartLookup(p)
    BY <2>2
    DEF RestartLookup, Finish, Goto, Holds, Local, Found, Rows, WorksForRow, TypeOK, dbVars
  <2>3. CASE LookupRow(p, "lo_lookup", "lo_status") \/ LookupRow(p, "de_lookup", "de_row")
    BY <2>3 DEF LookupRow, Finish, Goto, Holds, Local, Found, Rows, WorksForRow, TypeOK, dbVars
  <2>4. CASE ConnectEvict(p) \/ NewInstance(p)
    <3>1. UNCHANGED row /\ excused \subseteq excused' /\ op'[p].row = op[p].row
          /\ op'[p].name = op[p].name /\ pc[p] \in {"co_evict", "new"}
          /\ pc'[p] \in {"new", "status"}
      BY <2>4 DEF ConnectEvict, NewInstance, Goto, Holds, Local, Excuse, TypeOK, dbVars
    <3>2. pc'[p] = "status" => info'[op'[p].obj].row = op'[p].row
      BY <2>4 DEF ConnectEvict, NewInstance, Goto, Holds, Local, TypeOK
    <3>3. QED
      BY <2>1, <3>1, <3>2 DEF WorksForRow, Rows
  <2>5. CASE MarkConnecting(p)
    <3>1. Rows' = Rows /\ UNCHANGED <<info, op, excused>> /\ pc[p] = "status" /\ pc'[p] = "dial"
      BY <2>5, StatusKeepsNames DEF MarkConnecting, Goto, TypeOK, waVars
    <3>2. QED
      BY <2>1, <3>1 DEF WorksForRow, NamesKept, Rows
  <2>6. CASE Dial(p) /\ pc'[p] = "put"
    BY <2>1, <2>6 DEF Dial, Finish, Goto, Holds, WorksForRow, Rows, TypeOK, dbVars
  <2>7. CASE pc'[p] \notin {"co_evict", "new", "status", "dial", "put", "de_row"}
    BY <2>7 DEF WorksForRow
  <2>8. QED
    BY <2>2, <2>3, <2>4, <2>5, <2>6, <2>7
    DEF Step, CreateInsert, Dial, PutInstance, LogoutClient, LogoutStatus, LogoutPhone, DeleteRow,
        DisconnectClient, DisconnectStatus, Finish, Goto, TypeOK
<1>4. \A q \in Workers \ {p} : WorksForRow(q)'
  BY <1>1, <1>2, UnmovedWorks DEF Alone
<1>5. ASSUME NEW n \in Names, n \notin excused', instances'[n] # None
      PROVE  info'[instances'[n]].row \in Rows' /\ row'[info'[instances'[n]].row].name = n
  <2>1. CASE instances'[n] = instances[n]
    BY <1>1, <1>2, <1>5, <2>1, UnmovedEntry DEF Alone
  <2>2. CASE PutInstance(p) /\ n = op[p].name /\ instances'[n] = op[p].obj
    BY <1>5, <2>2 DEF PutInstance, RowInv, WorksForRow, Rows, dbVars, waVars
  <2>3. QED
    BY <1>5, <2>1, <2>2, StepMap
<1>6. QED
  BY <1>1, <1>3, <1>4, <1>5 DEF RowInv, RunningHasRow

LEMMA RowClient ==
  ASSUME TypeOK, MapInv, SoleInv, RowInv, Next, NEW o \in Objs,
         Handler(o) \/ Outside(o) \/ DisconnectOne(o)
  PROVE  RowInv'
<1>1. UNCHANGED <<pc, op, instances, info>> /\ excused \subseteq excused'
  BY ClientShape
<1>2. \A p \in Workers : WorksForRow(p)'
  BY <1>1, UnmovedWorks
<1>3. RunningHasRow'
  BY <1>1, UnmovedEntry DEF RunningHasRow
<1>4. QED
  BY <1>2, <1>3 DEF RowInv

LEMMA RowProcess ==
  ASSUME TypeOK, MapInv, NameInv, SoleInv, RowInv, Next,
         LoadAll \/ DisconnectAll \/ StopServing \/ Reboot
  PROVE  RowInv'
<1>1. CASE LoadAll
  <2>1. UNCHANGED <<row, instances, info>> /\ excused \subseteq excused'
    BY <1>1 DEF LoadAll, dbVars, waVars
  <2>2. \A p \in Workers : \/ pc'[p] = pc[p] /\ op'[p] = op[p]
                           \/ /\ pc'[p] = "new" /\ p \in Rows
                              /\ op'[p].row = p /\ op'[p].name = row[p].name
    BY <1>1 DEF LoadAll, Listed, Local, procVars
  <2>3. \A p \in Workers : WorksForRow(p)'
    <3>1. ASSUME NEW p \in Workers, pc'[p] = "new", p \in Rows, op'[p].row = p,
                 op'[p].name = row[p].name
          PROVE  WorksForRow(p)'
      BY <2>1, <3>1 DEF WorksForRow, Rows
    <3>2. QED
      BY <2>1, <2>2, <3>1, UnmovedWorks
  <2>4. RunningHasRow'
    BY <2>1, UnmovedEntry DEF RunningHasRow
  <2>5. QED
    BY <2>3, <2>4 DEF RowInv
<1>2. CASE DisconnectAll \/ StopServing
  <2>1. /\ UNCHANGED <<pc, op, info, excused>>
        /\ \A n \in Names : instances'[n] \in {instances[n], None}
    BY <1>2 DEF DisconnectAll, StopServing, Unregistered, procVars, waVars
  <2>2. \A p \in Workers : WorksForRow(p)'
    BY <2>1, UnmovedWorks
  <2>3. RunningHasRow'
    BY <2>1, UnmovedEntry DEF RunningHasRow
  <2>4. QED
    BY <2>2, <2>3 DEF RowInv
<1>3. CASE Reboot
  BY <1>3 DEF Reboot, Unregistered, EachWorker, RowInv, RunningHasRow, WorksForRow
<1>4. QED
  BY <1>1, <1>2, <1>3

\* A registered instance has the row of its name in the table: however Delete,
\* Connect, Restart and a Create of the same name follow each other, no instance
\* outlives its row unless two of them overlap.
THEOREM RunningRowsExist == Spec => []RunningHasRow
<1>1. Init => RowInv
  BY DEF Init, Unregistered, EachWorker, RowInv, RunningHasRow, WorksForRow
<1>2. TypeOK /\ MapInv /\ NameInv /\ SoleInv /\ RowInv /\ [Next]_vars => RowInv'
  <2>1. ASSUME RowInv, UNCHANGED vars PROVE RowInv'
    BY <2>1 DEF vars, RowInv, RunningHasRow, WorksForRow, Rows
  <2>2. QED
    BY <2>1, RowRequest, RowStep, RowClient, RowProcess DEF Next
<1>3. RowInv => RunningHasRow
  BY DEF RowInv
<1>4. QED
  BY <1>1, <1>2, <1>3, TypeCorrect, MapInvariant, NameInvariant, SoleInvariant, PTL DEF Spec

=============================================================================
