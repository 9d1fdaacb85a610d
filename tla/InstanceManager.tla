--------------------------- MODULE InstanceManager ---------------------------
(***************************************************************************)
(* The lifecycle of WhatsApp instances: whatsapp.Manager (manager.go), the *)
(* Instance it wraps around one whatsmeow client (instance.go) and the     *)
(* handlers of the client's connection events (events.go), over the        *)
(* instances table (store/*.go) and the session container.                 *)
(*                                                                         *)
(* A worker is a goroutine: an HTTP request that calls one operation of    *)
(* the manager (Procs) or the goroutine LoadAll starts for a row (Ids).    *)
(* One action is one critical section of m.mu, one call to the store or    *)
(* one call to the client, so operations interleave where the code lets    *)
(* them.  The client (whatsmeow), the phone and the network are external.  *)
(***************************************************************************)
EXTENDS FiniteSets, Integers

CONSTANTS
  Names,          \* instance names
  Ids,            \* row ids: uuid.New() never repeats one
  Objs,           \* Instance objects a process can allocate (bound)
  Jids,           \* device sessions the phones can create (bound)
  Procs,          \* request goroutines that can be in flight (bound)
  Ops,            \* the operations requests call
  Faults,         \* what may fail: "store" (any call to it), "dial", "logout", "drop"
  MaxBoots,       \* processes started one after the other (bound)
  None

OpKinds == {"create", "connect", "restart", "logout", "delete", "disconnect"}

Workers == Procs \cup Ids

ASSUME ConstantsAssumption ==
  /\ IsFiniteSet(Ids) /\ IsFiniteSet(Objs) /\ IsFiniteSet(Procs)
  /\ Procs \cap Ids = {}
  /\ None \notin Names \cup Ids \cup Objs \cup Jids \cup Procs
  /\ Ops \subseteq OpKinds
  /\ MaxBoots \in Nat \ {0}

VARIABLES
  row,        \* instances table: id -> [name, status, jid]
  sessions,   \* devices in the session container, linked on their phone
  owner,      \* history: the row a session was paired for
  instances,  \* Manager.instances
  client,     \* state of the client of each Instance object
  dev,        \* client.Store.ID
  info,       \* the object's dbInst: its row id and name
  conn,       \* where the object's handleConnected stands
  connJid,    \* the jid it read from client.Store
  out,        \* where the object's handleLoggedOut stands
  pc, op,     \* each worker's next step and its local variables
  srv,        \* "up", "closing" (in DisconnectAll), "drained"
  loader,     \* has LoadAll listed the rows yet
  closing,    \* DisconnectAll's snapshot
  boots,      \* processes started so far
  excused     \* history: names a known leak condition has hit (see Excuse)

dbVars   == <<row, sessions, owner>>
waVars   == <<client, dev, info>>
hdlVars  == <<conn, connJid, out>>
procVars == <<pc, op>>
srvVars  == <<srv, loader, closing, boots>>
vars == <<row, sessions, owner, instances, client, dev, info, conn, connJid, out,
          pc, op, srv, loader, closing, boots, excused>>

-----------------------------------------------------------------------------
(* The instances table *)

NoRow == [name |-> None, status |-> "unused", jid |-> None]

Rows == {i \in Ids : row[i].status \in {"close", "connecting", "open"}}

\* GetInstanceByName: the rows of that name; a query that fails is taken for
\* one that finds nothing.
Found(n) == {i \in Rows : row[i].name = n}
Missed(n) == Found(n) = {} \/ "store" \in Faults

\* An UPDATE by id of a row that is gone changes nothing, and the callers
\* ignore the error of one that fails.
Update(i, row1) ==
  \/ i \in Rows /\ row' = row1
  \/ (i \notin Rows \/ "store" \in Faults) /\ UNCHANGED row

UpdateInstanceStatus(i, s) == Update(i, [row EXCEPT ![i].status = s])
UpdateInstancePhone(i, j) == Update(i, [row EXCEPT ![i].jid = j])

-----------------------------------------------------------------------------
(* Workers *)

\* What a worker holds: the name it works on, the row it read (id and jid), and
\* an Instance object.
Local(n, i, j, o) == [name |-> n, row |-> i, jid |-> j, obj |-> o]
NoOp == Local(None, None, None, None)
Holds(p, l) == op' = [op EXCEPT ![p] = l]

Labels == {"idle", "cr_insert", "co_evict", "new", "status", "dial", "put",
           "rs_lookup", "lo_client", "lo_lookup", "lo_status", "lo_phone",
           "de_client", "de_lookup", "de_row", "di_client", "di_status"}

Goto(p, l) == pc' = [pc EXCEPT ![p] = l]

Finish(p) == Goto(p, "idle") /\ Holds(p, NoOp)

InFlight(n) == \E q \in Workers : pc[q] # "idle" /\ op[q].name = n

\* The conditions under which the code is known to lose track of a client of
\* n: two operations on n overlap, or a client is told to stop while it is
\* between two connections, or its Logout call fails.
Excuse(n, cond) == excused' = IF cond THEN excused \cup {n} ELSE excused

\* Objects still free, less those the workers on their way to newInstance and
\* a LoadAll yet to come will take: keeps the bound Objs from blocking one.
ObjectsLeft ==
  /\ Cardinality({o \in Objs : client[o] = "none"})
       > Cardinality({q \in Workers : pc[q] \in {"co_evict", "rs_lookup", "new"}})
         + (IF loader = "pending" THEN Cardinality(Rows) ELSE 0)

Starts(p, n, kind) ==
  /\ kind \in Ops
  /\ kind = "create" \/ \E i \in Ids : row[i].name = n   \* RequireInstance found it, maybe long ago
  /\ pc[p] = "idle"
  /\ srv \in {"up", "closing"}      \* httpServer.Shutdown comes after DisconnectAll
  /\ kind \in {"connect", "restart"} => ObjectsLeft

-----------------------------------------------------------------------------
(* Instance.Disconnect and Instance.Logout *)

\* client.IsConnected() is false while the client waits to reconnect.
IsConnected(o) == client[o] \in {"socket", "in"}
Retrying(o) == o \in Objs /\ client[o] = "retry"

Stopped(o) == [client EXCEPT ![o] = IF IsConnected(o) THEN "down" ELSE @]

\* Disconnect of the object a map entry or a local variable holds, if any.
DisconnectEntry(o) == client' = IF o \in Objs THEN Stopped(o) ELSE client

\* Logout: a client that is logged in is unlinked (client.Logout removes the
\* session), or the call fails and its error is dropped; one that only has a
\* socket is closed.
InstanceLogout(o, n) ==
  \/ /\ client[o] = "in"
     /\ client' = [client EXCEPT ![o] = "down"]
     /\ sessions' = sessions \ {dev[o]}
     /\ dev' = [dev EXCEPT ![o] = None]
     /\ UNCHANGED excused
  \/ /\ client[o] = "in" /\ "logout" \in Faults
     /\ Excuse(n, TRUE)
     /\ UNCHANGED <<client, sessions, dev>>
  \/ /\ client[o] # "in"
     /\ client' = Stopped(o)
     /\ Excuse(n, Retrying(o))
     /\ UNCHANGED <<sessions, dev>>

-----------------------------------------------------------------------------
(* Manager.Create *)

Create(p, n) ==
  /\ Starts(p, n, "create")
  /\ \/ Missed(n) /\ Goto(p, "cr_insert") /\ Holds(p, Local(n, None, None, None))
     \/ Found(n) # {} /\ UNCHANGED procVars
  /\ Excuse(n, InFlight(n))
  /\ UNCHANGED <<dbVars, instances, waVars, hdlVars, srvVars>>

NoIdLeft == \A i \in Ids : row[i].status # "unused"     \* the bound Ids is used up

\* INSERT under UNIQUE (name): the error of a name taken meanwhile is returned.
\* (The default settings row that follows is not part of this model.)
CreateInsert(p) ==
  /\ pc[p] = "cr_insert"
  /\ \/ \E i \in Ids :
          /\ row[i].status = "unused" /\ Found(op[p].name) = {}
          /\ row' = [row EXCEPT ![i] = [name |-> op[p].name, status |-> "close", jid |-> None]]
     \/ (Found(op[p].name) # {} \/ NoIdLeft \/ "store" \in Faults) /\ UNCHANGED row
  /\ Finish(p)
  /\ UNCHANGED <<sessions, owner, instances, waVars, hdlVars, srvVars, excused>>

-----------------------------------------------------------------------------
(* Manager.Connect, Restart, reconnect and createAndConnect *)

Connect(p, n) ==
  /\ Starts(p, n, "connect")
  /\ \/ Missed(n) /\ UNCHANGED procVars
     \/ \E i \in Found(n) :
          Goto(p, "co_evict") /\ Holds(p, Local(n, i, row[i].jid, None))
  /\ Excuse(n, InFlight(n))
  /\ UNCHANGED <<dbVars, instances, waVars, hdlVars, srvVars>>

\* Mutant: drops the running instance without disconnecting it.
ConnectEvictKeepsClient(p) ==
  /\ pc[p] = "co_evict"
  /\ instances' = [instances EXCEPT ![op[p].name] = None]
  /\ Goto(p, "new")
  /\ UNCHANGED <<dbVars, waVars, hdlVars, op, srvVars, excused>>

\* "If already running, disconnect first", under m.mu.
ConnectEvict(p) ==
  LET n == op[p].name IN
  /\ pc[p] = "co_evict"
  /\ DisconnectEntry(instances[n])
  /\ instances' = [instances EXCEPT ![n] = None]
  /\ Excuse(n, Retrying(instances[n]))
  /\ Goto(p, "new")
  /\ UNCHANGED <<dbVars, dev, info, hdlVars, op, srvVars>>

Restart(p, n) ==
  /\ Starts(p, n, "restart")
  /\ DisconnectEntry(instances[n])
  /\ instances' = [instances EXCEPT ![n] = None]
  /\ Excuse(n, InFlight(n) \/ Retrying(instances[n]))
  /\ Goto(p, "rs_lookup")
  /\ Holds(p, Local(n, None, None, None))
  /\ UNCHANGED <<dbVars, dev, info, hdlVars, srvVars>>

RestartLookup(p) ==
  /\ pc[p] = "rs_lookup"
  /\ \/ Missed(op[p].name) /\ Finish(p)
     \/ \E i \in Found(op[p].name) :
          Goto(p, "new") /\ Holds(p, Local(op[p].name, i, row[i].jid, None))
  /\ UNCHANGED <<dbVars, instances, waVars, hdlVars, srvVars, excused>>

\* Mutant: registers the instance before Instance.Connect has run.
NewInstanceRegisters(p) ==
  /\ pc[p] = "new"
  /\ \E o \in Objs :
       /\ client[o] = "none"
       /\ client' = [client EXCEPT ![o] = "new"]
       /\ dev' = [dev EXCEPT ![o] = IF op[p].jid \in sessions THEN op[p].jid ELSE None]
       /\ info' = [info EXCEPT ![o] = [row |-> op[p].row, name |-> op[p].name]]
       /\ instances' = [instances EXCEPT ![op[p].name] = o]
       /\ Holds(p, Local(op[p].name, op[p].row, None, o))
  /\ Goto(p, "status")
  /\ UNCHANGED <<dbVars, hdlVars, srvVars, excused>>

\* newInstance, GetDevice by the jid the row had when it was read, or else
\* NewDevice, then NewClient.
NewInstance(p) ==
  /\ pc[p] = "new"
  /\ \E o \in Objs :
       /\ client[o] = "none"
       /\ client' = [client EXCEPT ![o] = "new"]
       /\ \/ op[p].jid \in sessions /\ dev' = [dev EXCEPT ![o] = op[p].jid]
          \/ (op[p].jid \notin sessions \/ "store" \in Faults) /\ UNCHANGED dev
       /\ info' = [info EXCEPT ![o] = [row |-> op[p].row, name |-> op[p].name]]
       /\ Holds(p, Local(op[p].name, op[p].row, None, o))
  /\ Goto(p, "status")
  /\ UNCHANGED <<dbVars, instances, hdlVars, srvVars, excused>>

\* Mutant: a state types.go does not define.
MarkConnectingTypo(p) ==
  /\ pc[p] = "status"
  /\ UpdateInstanceStatus(op[p].row, "connect")
  /\ Goto(p, "dial")
  /\ UNCHANGED <<sessions, owner, instances, waVars, hdlVars, op, srvVars, excused>>

MarkConnecting(p) ==
  /\ pc[p] = "status"
  /\ UpdateInstanceStatus(op[p].row, "connecting")
  /\ Goto(p, "dial")
  /\ UNCHANGED <<sessions, owner, instances, waVars, hdlVars, op, srvVars, excused>>

\* client.Connect, after GetQRChannel when there is no session; an error ends
\* the operation.
Dial(p) ==
  /\ pc[p] = "dial"
  /\ \/ client' = [client EXCEPT ![op[p].obj] = "socket"] /\ Goto(p, "put") /\ UNCHANGED op
     \/ "dial" \in Faults /\ client' = [client EXCEPT ![op[p].obj] = "down"] /\ Finish(p)
  /\ UNCHANGED <<dbVars, instances, dev, info, hdlVars, srvVars, excused>>

PutInstance(p) ==
  /\ pc[p] = "put"
  /\ instances' = [instances EXCEPT ![op[p].name] = op[p].obj]
  /\ Finish(p)
  /\ UNCHANGED <<dbVars, waVars, hdlVars, srvVars, excused>>

-----------------------------------------------------------------------------
(* Manager.Logout, Delete and Disconnect *)

\* The first critical section of Logout and Delete: the entry, if any, moves
\* from the map to the worker.
Take(p, n, kind, found, missing) ==
  /\ Starts(p, n, kind)
  /\ instances' = [instances EXCEPT ![n] = None]
  /\ Holds(p, Local(n, None, None, instances[n]))
  /\ Goto(p, IF instances[n] \in Objs THEN found ELSE missing)
  /\ Excuse(n, InFlight(n))
  /\ UNCHANGED <<dbVars, waVars, hdlVars, srvVars>>

Logout(p, n) == Take(p, n, "logout", "lo_client", "lo_lookup")

\* Mutant: Delete looks the instance up but leaves it in the map.
DeleteKeepsEntry(p, n) ==
  /\ Starts(p, n, "delete")
  /\ Holds(p, Local(n, None, None, instances[n]))
  /\ Goto(p, IF instances[n] \in Objs THEN "de_client" ELSE "de_lookup")
  /\ Excuse(n, InFlight(n))
  /\ UNCHANGED <<dbVars, instances, waVars, hdlVars, srvVars>>

Delete(p, n) == Take(p, n, "delete", "de_client", "de_lookup")

LogoutClient(p, at, next) ==
  /\ pc[p] = at
  /\ InstanceLogout(op[p].obj, op[p].name)
  /\ Holds(p, Local(op[p].name, None, None, None))
  /\ Goto(p, next)
  /\ UNCHANGED <<row, owner, instances, info, hdlVars, srvVars>>

LookupRow(p, at, next) ==
  /\ pc[p] = at
  /\ \/ Missed(op[p].name) /\ Finish(p)
     \/ \E i \in Found(op[p].name) :
          Goto(p, next) /\ Holds(p, Local(op[p].name, i, None, None))
  /\ UNCHANGED <<dbVars, instances, waVars, hdlVars, srvVars, excused>>

LogoutStatus(p) ==
  /\ pc[p] = "lo_status"
  /\ UpdateInstanceStatus(op[p].row, "close")
  /\ Goto(p, "lo_phone")
  /\ UNCHANGED <<sessions, owner, instances, waVars, hdlVars, op, srvVars, excused>>

LogoutPhone(p) ==
  /\ pc[p] = "lo_phone"
  /\ UpdateInstancePhone(op[p].row, None)
  /\ Finish(p)
  /\ UNCHANGED <<sessions, owner, instances, waVars, hdlVars, srvVars, excused>>

\* DELETE by id; the row's settings and webhook go with it (ON DELETE CASCADE).
DeleteRow(p) ==
  /\ pc[p] = "de_row"
  /\ LET i == op[p].row IN Update(i, [row EXCEPT ![i].status = "deleted", ![i].jid = None])
  /\ Finish(p)
  /\ UNCHANGED <<sessions, owner, instances, waVars, hdlVars, srvVars, excused>>

\* Manager.Disconnect, which no handler of the API calls.
Disconnect(p, n) ==
  /\ Starts(p, n, "disconnect")
  /\ instances' = [instances EXCEPT ![n] = None]
  /\ IF instances[n] \in Objs
     THEN Goto(p, "di_client") /\ Holds(p, Local(n, info[instances[n]].row, None, instances[n]))
     ELSE UNCHANGED procVars
  /\ Excuse(n, InFlight(n))
  /\ UNCHANGED <<dbVars, waVars, hdlVars, srvVars>>

DisconnectClient(p) ==
  /\ pc[p] = "di_client"
  /\ DisconnectEntry(op[p].obj)
  /\ Excuse(op[p].name, Retrying(op[p].obj))
  /\ Holds(p, Local(op[p].name, op[p].row, None, None))
  /\ Goto(p, "di_status")
  /\ UNCHANGED <<dbVars, instances, dev, info, hdlVars, srvVars>>

DisconnectStatus(p) ==
  /\ pc[p] = "di_status"
  /\ UpdateInstanceStatus(op[p].row, "close")
  /\ Finish(p)
  /\ UNCHANGED <<sessions, owner, instances, waVars, hdlVars, srvVars, excused>>

-----------------------------------------------------------------------------
(* The process: LoadAll at its start, DisconnectAll at its end, its death *)

Unregistered == [n \in Names |-> None]
EachObj(v) == [o \in Objs |-> v]
EachWorker(v) == [p \in Workers |-> v]
NoInfo == [row |-> None, name |-> None]

\* One goroutine per row that was open or connecting; the request workers are
\* already running, so the row may be in use by the time it is listed.
Busy(n) == instances[n] # None \/ InFlight(n)
\* Mutant: forgets the rows that were open.
ListedConnecting == {i \in Rows : row[i].status = "connecting"}

Listed == {i \in Rows : row[i].status \in {"open", "connecting"}}

LoadAll ==
  /\ loader = "pending"
  /\ loader' = "done"
  /\ \/ /\ pc' = [p \in Workers |-> IF p \in Listed THEN "new" ELSE pc[p]]
        /\ op' = [p \in Workers |->
             IF p \in Listed
             THEN Local(row[p].name, p, row[p].jid, None)
             ELSE op[p]]
        /\ excused' = excused \cup {n \in Names : Busy(n) /\ \E i \in Listed : row[i].name = n}
     \/ "store" \in Faults /\ UNCHANGED <<procVars, excused>>
  /\ UNCHANGED <<dbVars, instances, waVars, hdlVars, srv, closing, boots>>

\* Mutant: clears the map before it copies it.
DisconnectAllClearsFirst ==
  /\ srv = "up" /\ boots < MaxBoots
  /\ srv' = "closing"
  /\ closing' = {}
  /\ instances' = Unregistered
  /\ UNCHANGED <<dbVars, waVars, hdlVars, procVars, loader, boots, excused>>

\* Server.Shutdown: DisconnectAll's critical section ...
DisconnectAll ==
  /\ srv = "up" /\ boots < MaxBoots
  /\ srv' = "closing"
  /\ closing' = {o \in Objs : \E n \in Names : instances[n] = o}
  /\ instances' = Unregistered
  /\ UNCHANGED <<dbVars, waVars, hdlVars, procVars, loader, boots, excused>>

\* ... and its loop over the snapshot, in any order.
DisconnectOne(o) ==
  /\ o \in closing
  /\ DisconnectEntry(o)
  /\ closing' = closing \ {o}
  /\ Excuse(info[o].name, Retrying(o))
  /\ UNCHANGED <<dbVars, instances, dev, info, hdlVars, procVars, srv, loader, boots>>

\* httpServer.Shutdown: no request starts from here on.
StopServing ==
  /\ srv = "closing" /\ closing = {}
  /\ srv' = "drained"
  /\ UNCHANGED <<dbVars, instances, waVars, hdlVars, procVars, loader, closing, boots, excused>>

\* The process dies, at any step, and is started again: rows and sessions stay.
Reboot ==
  /\ boots < MaxBoots
  /\ boots' = boots + 1
  /\ instances' = Unregistered
  /\ client' = EachObj("none") /\ dev' = EachObj(None) /\ info' = EachObj(NoInfo)
  /\ conn' = EachObj("idle") /\ connJid' = EachObj(None) /\ out' = EachObj("idle")
  /\ pc' = EachWorker("idle") /\ op' = EachWorker(NoOp)
  /\ srv' = "up" /\ loader' = "pending" /\ closing' = {}
  /\ excused' = {}
  /\ UNCHANGED dbVars

-----------------------------------------------------------------------------
(* Event handlers, each in its own goroutine of the client *)

\* handleConnected reads the session, and is done if it is gone by now.
HandleConnected(o) ==
  /\ conn[o] = "begin"
  /\ conn' = [conn EXCEPT ![o] = IF dev[o] # None THEN "status" ELSE "idle"]
  /\ connJid' = [connJid EXCEPT ![o] = dev[o]]
  /\ UNCHANGED <<dbVars, instances, waVars, out, procVars, srvVars, excused>>

HandleConnectedStatus(o) ==
  /\ conn[o] = "status"
  /\ UpdateInstanceStatus(info[o].row, "open")
  /\ conn' = [conn EXCEPT ![o] = "phone"]
  /\ UNCHANGED <<sessions, owner, instances, waVars, connJid, out, procVars, srvVars, excused>>

\* Mutant: writes the row that has the instance's name now, not its own row.
HandleConnectedPhoneByName(o) ==
  /\ conn[o] = "phone"
  /\ \/ \E i \in Found(info[o].name) : UpdateInstancePhone(i, connJid[o])
     \/ Found(info[o].name) = {} /\ UNCHANGED row
  /\ conn' = [conn EXCEPT ![o] = "idle"]
  /\ connJid' = [connJid EXCEPT ![o] = None]
  /\ UNCHANGED <<sessions, owner, instances, waVars, out, procVars, srvVars, excused>>

HandleConnectedPhone(o) ==
  /\ conn[o] = "phone"
  /\ UpdateInstancePhone(info[o].row, connJid[o])
  /\ conn' = [conn EXCEPT ![o] = "idle"]
  /\ connJid' = [connJid EXCEPT ![o] = None]
  /\ UNCHANGED <<sessions, owner, instances, waVars, out, procVars, srvVars, excused>>

HandleLoggedOut(o) ==
  /\ out[o] = "status"
  /\ UpdateInstanceStatus(info[o].row, "close")
  /\ out' = [out EXCEPT ![o] = "phone"]
  /\ UNCHANGED <<sessions, owner, instances, waVars, conn, connJid, procVars, srvVars, excused>>

HandleLoggedOutPhone(o) ==
  /\ out[o] = "phone"
  /\ UpdateInstancePhone(info[o].row, None)
  /\ out' = [out EXCEPT ![o] = "idle"]
  /\ UNCHANGED <<sessions, owner, instances, waVars, conn, connJid, procVars, srvVars, excused>>

-----------------------------------------------------------------------------
(* External: the whatsmeow client, the phone and the network *)

\* The phone scans the QR code or enters the pairing code: a new session.
Pair(o) ==
  /\ client[o] = "socket" /\ dev[o] = None
  /\ \E j \in Jids :
       /\ owner[j] = None
       /\ owner' = [owner EXCEPT ![j] = info[o].row]
       /\ dev' = [dev EXCEPT ![o] = j]
       /\ sessions' = sessions \cup {j}
  /\ UNCHANGED <<row, instances, client, info, hdlVars, procVars, srvVars, excused>>

\* The server accepts a session that is still linked: Connected is dispatched.
\* (At most one handleConnected per client is pending: a login takes longer.)
Login(o) ==
  /\ client[o] = "socket" /\ dev[o] \in sessions /\ conn[o] = "idle"
  /\ client' = [client EXCEPT ![o] = "in"]
  /\ conn' = [conn EXCEPT ![o] = "begin"]
  /\ UNCHANGED <<dbVars, instances, dev, info, connJid, out, procVars, srvVars, excused>>

\* The phone unlinks the device: the client drops the session, LoggedOut.
RemoteLogout(o) ==
  /\ IsConnected(o) /\ dev[o] # None /\ out[o] = "idle"
  /\ sessions' = sessions \ {dev[o]}
  /\ dev' = [dev EXCEPT ![o] = None]
  /\ client' = [client EXCEPT ![o] = "down"]
  /\ out' = [out EXCEPT ![o] = "status"]
  /\ UNCHANGED <<row, owner, instances, info, conn, connJid, procVars, srvVars, excused>>

\* The connection is lost; EnableAutoReconnect keeps the client trying.
\* handleDisconnected changes no state kept here.
Drop(o) ==
  /\ "drop" \in Faults
  /\ IsConnected(o) /\ dev[o] # None
  /\ client' = [client EXCEPT ![o] = "retry"]
  /\ UNCHANGED <<dbVars, instances, dev, info, hdlVars, procVars, srvVars, excused>>

AutoReconnect(o) ==
  /\ client[o] = "retry"
  /\ client' = [client EXCEPT ![o] = "socket"]
  /\ UNCHANGED <<dbVars, instances, dev, info, hdlVars, procVars, srvVars, excused>>

\* Nobody scans the QR code: the client closes the socket.
QRTimeout(o) ==
  /\ client[o] = "socket" /\ dev[o] = None
  /\ client' = [client EXCEPT ![o] = "down"]
  /\ UNCHANGED <<dbVars, instances, dev, info, hdlVars, procVars, srvVars, excused>>

-----------------------------------------------------------------------------
Init ==
  /\ row = [i \in Ids |-> NoRow]
  /\ sessions = {}
  /\ owner = [j \in Jids |-> None]
  /\ instances = Unregistered
  /\ client = EachObj("none") /\ dev = EachObj(None) /\ info = EachObj(NoInfo)
  /\ conn = EachObj("idle") /\ connJid = EachObj(None) /\ out = EachObj("idle")
  /\ pc = EachWorker("idle") /\ op = EachWorker(NoOp)
  /\ srv = "up" /\ loader = "pending" /\ closing = {} /\ boots = 1
  /\ excused = {}

Request(p, n) ==
  \/ Create(p, n) \/ Connect(p, n) \/ Restart(p, n)
  \/ Logout(p, n) \/ Delete(p, n) \/ Disconnect(p, n)

Step(p) ==
  \/ CreateInsert(p)
  \/ ConnectEvict(p) \/ RestartLookup(p)
  \/ NewInstance(p) \/ MarkConnecting(p) \/ Dial(p) \/ PutInstance(p)
  \/ LogoutClient(p, "lo_client", "lo_lookup") \/ LookupRow(p, "lo_lookup", "lo_status")
  \/ LogoutStatus(p) \/ LogoutPhone(p)
  \/ LogoutClient(p, "de_client", "de_lookup") \/ LookupRow(p, "de_lookup", "de_row")
  \/ DeleteRow(p)
  \/ DisconnectClient(p) \/ DisconnectStatus(p)

Handler(o) ==
  \/ HandleConnected(o) \/ HandleConnectedStatus(o) \/ HandleConnectedPhone(o)
  \/ HandleLoggedOut(o) \/ HandleLoggedOutPhone(o)

Outside(o) ==
  \/ Pair(o) \/ Login(o) \/ RemoteLogout(o) \/ Drop(o) \/ AutoReconnect(o) \/ QRTimeout(o)

Next ==
  \/ \E p \in Procs, n \in Names : Request(p, n)
  \/ \E p \in Workers : Step(p)
  \/ \E o \in Objs : DisconnectOne(o) \/ Handler(o) \/ Outside(o)
  \/ LoadAll \/ DisconnectAll \/ StopServing \/ Reboot

Spec == Init /\ [][Next]_vars

\* A goroutine that can take its next step is scheduled eventually; nothing is
\* assumed of requests, the outside or the moments at which processes die.
Fairness ==
  /\ WF_vars(LoadAll)
  /\ \A p \in Workers : WF_vars(Step(p))
  /\ \A o \in Objs : WF_vars(Handler(o)) /\ WF_vars(DisconnectOne(o))

FairSpec == Spec /\ Fairness

-----------------------------------------------------------------------------
(* Properties *)

Maybe(S) == S \cup {None}

RowType == [name : Maybe(Names), status : {"unused", "close", "connecting", "open", "deleted"},
            jid : Maybe(Jids)]
InfoType == [row : Maybe(Ids), name : Maybe(Names)]
OpType == [name : Maybe(Names), row : Maybe(Ids), jid : Maybe(Jids), obj : Maybe(Objs)]

\* Every variable has its type.
TypeOK ==
  /\ row \in [Ids -> RowType]
  /\ sessions \subseteq Jids
  /\ owner \in [Jids -> Maybe(Ids)]
  /\ instances \in [Names -> Maybe(Objs)]
  /\ client \in [Objs -> {"none", "new", "socket", "in", "retry", "down"}]
  /\ dev \in [Objs -> Maybe(Jids)]
  /\ info \in [Objs -> InfoType]
  /\ conn \in [Objs -> {"idle", "begin", "status", "phone"}]
  /\ connJid \in [Objs -> Maybe(Jids)]
  /\ out \in [Objs -> {"idle", "status", "phone"}]
  /\ pc \in [Workers -> Labels]
  /\ op \in [Workers -> OpType]
  /\ srv \in {"up", "closing", "drained"}
  /\ loader \in {"pending", "done"}
  /\ closing \subseteq Objs
  /\ boots \in Nat
  /\ excused \subseteq Maybe(Names)

Live(o) == client[o] \in {"socket", "in", "retry"}

\* Manager.Get never hands out an instance whose Connect has not run: its
\* client exists and it is registered under its own name (manager.go:145-156;
\* every API handler uses the client of what Get returns without a nil check).
MapReady ==
  \A n \in Names : instances[n] # None =>
    /\ client[instances[n]] \notin {"none", "new"}
    /\ info[instances[n]].name = n

\* A row only ever holds the session its own instance was paired for, and so
\* does a client: whatever Connect, Restart, LoadAll, late handlers and
\* re-created names do, an instance never resumes the session of another one
\* (events.go:52-60, instance.go:70-78).
SessionOfRow ==
  /\ \A i \in Ids : row[i].jid # None => owner[row[i].jid] = i
  /\ \A o \in Objs : dev[o] # None => owner[dev[o]] = info[o].row

\* Unless a known leak condition has hit the name, a client that is connected
\* or trying to is in the map, in DisconnectAll's snapshot or in the hands of
\* the operation that will register or stop it (manager.go:114-258).
NoStray ==
  \A o \in Objs : Live(o) /\ info[o].name \notin excused =>
    \/ instances[info[o].name] = o
    \/ o \in closing
    \/ \E p \in Workers : pc[p] # "idle" /\ op[p].obj = o

\* Under the same proviso a registered instance has its row in the table: no
\* instance outlives Delete of its name (manager.go:224-242).
RunningHasRow ==
  \A n \in Names \ excused : instances[n] # None =>
    /\ info[instances[n]].row \in Rows
    /\ row[info[instances[n]].row].name = n

\* A row that was open when the process started is dialled again, unless it is
\* closed or deleted first (LoadAll, manager.go:64-82).
Resumed(i) ==
  \/ i \notin Rows \/ row[i].status = "close"
  \/ \E o \in Objs : info[o].row = i /\ client[o] \notin {"none", "new"}

OpenRowsResume ==
  \A i \in Ids : (loader = "pending" /\ row[i].status = "open") ~> Resumed(i)

AllIdle == \A p \in Workers : pc[p] = "idle"

\* "DisconnectAll disconnects all running instances (used during shutdown)"
\* (manager.go:244): nothing is connected once it and every request are done.
ShutdownStopsAll ==
  srv = "drained" /\ loader = "done" /\ AllIdle => \A o \in Objs : ~Live(o)

\* "Logout logs out from WhatsApp and clears the session" (manager.go:201): no
\* session of the row is left when it returns.
LogoutClears ==
  [][\A p \in Procs : pc[p] = "lo_phone" /\ pc'[p] = "idle" /\ boots' = boots =>
       \A j \in sessions' : owner[j] # op[p].row]_vars

\* "Delete deletes an instance completely" (manager.go:223): with no operation
\* under way no client of a deleted row is running.
DeleteIsComplete ==
  AllIdle => \A o \in Objs : Live(o) => info[o].row \in Rows

=============================================================================
