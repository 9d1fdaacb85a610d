-------------------------------- MODULE QRLogin --------------------------------
(***************************************************************************)
(* HandleConnect's wait for a QR code (internal/api/instance.go) and the   *)
(* goroutine of loginWithQR that passes the codes of the client's QR       *)
(* channel to the observers (internal/whatsapp/instance.go): the observer  *)
(* comes after the goroutine, leaves while it runs, and its channel is     *)
(* closed then.                                                            *)
(*                                                                         *)
(* Every HandleConnect makes an instance of its own and evicts the one     *)
(* before, so a request stands for its instance, its goroutine and its     *)
(* observer's channel too.  Steps under qrMu are steps of their own.       *)
(***************************************************************************)
EXTENDS Integers, Sequences

CONSTANTS
  Requests,    \* requests to connect the instance
  MaxCodes,    \* codes a client is given (bound)
  BufCap,      \* capacity of an observer's channel
  None

\* A QREvent, and an answer of the handler: n tells the codes apart.
Result(t) == [type |-> t, n |-> 0]
Code(i) == [type |-> "code", n |-> i]
Ends == {Result(t) : t \in {"success", "timeout", "err"}}
QREvents == {Code(i) : i \in 1..MaxCodes} \cup Ends

ASSUME QRAssumption ==
  /\ MaxCodes \in Nat /\ BufCap \in Nat \ {0}
  /\ None \notin Requests /\ None \notin QREvents /\ None \notin {"loop", "handler"}

VARIABLES
  pc,         \* where HandleConnect is
  answer,     \* what it has answered
  entry,      \* Manager.instances: the request whose instance is in the map
  source,     \* the client's QR channel: "none", "open" or "closed"
  codes,      \* codes the client has been given
  qrChan,     \* events in that channel
  looping,    \* the goroutine's place: "off", "recv", "lock", "send"
  evt,        \* the event it has received
  ranged,     \* is the observer in the list its range has evaluated
  qrMu,       \* who holds it: None, "loop" or "handler"
  observing,  \* is the observer in qrObservers
  buf,        \* events in the observer's channel
  open,       \* is the observer's channel open
  since,      \* history: events notified since SubscribeQR
  panicked    \* history: a send on a closed channel

handlerVars == <<pc, answer, entry>>
clientVars == <<source, codes, qrChan>>
loopVars == <<looping, evt, ranged>>
chanVars == <<observing, buf, open>>
vars == <<handlerVars, clientVars, loopVars, qrMu, chanVars, since, panicked>>

At(c, p) == pc[c] = p
Goto(c, p) == pc' = [pc EXCEPT ![c] = p]
Reply(c, t) == answer' = [answer EXCEPT ![c] = Result(t)]
Done(c, t) == Goto(c, "done") /\ Reply(c, t)

-----------------------------------------------------------------------------
(* HandleConnect *)

\* Manager.Connect: the instance before is evicted, the new one dials and is put
\* into the map.  With a stored session there are no codes and no goroutine.
Connect(c) ==
  /\ At(c, "connect")
  /\ \/ entry' = c /\ Goto(c, "ready") /\ UNCHANGED <<answer, source, looping>>
     \/ /\ entry' = c /\ Goto(c, "ready") /\ UNCHANGED answer
        /\ source' = [source EXCEPT ![c] = "open"]
        /\ looping' = [looping EXCEPT ![c] = "recv"]
     \/ entry' = None /\ Done(c, "failed") /\ UNCHANGED <<source, looping>>
  /\ UNCHANGED <<codes, qrChan, evt, ranged, qrMu, chanVars, since, panicked>>

\* With a phone number, ConnectWithPairingCode answers at once.
Pair(c) ==
  /\ At(c, "ready")
  /\ \E a \in {"pairing_code", "failed"} : Done(c, a)
  /\ UNCHANGED <<entry, clientVars, loopVars, qrMu, chanVars, since, panicked>>

SubscribeQR(c) ==
  /\ At(c, "ready") /\ qrMu[c] = None
  /\ observing' = [observing EXCEPT ![c] = TRUE]
  /\ open' = [open EXCEPT ![c] = TRUE]
  /\ Goto(c, "select")
  /\ UNCHANGED <<answer, entry, clientVars, loopVars, qrMu, buf, since, panicked>>

\* The three cases of the select; the deferred unsub comes next.
Receive(c) ==
  /\ At(c, "select") /\ buf[c] # <<>>
  /\ answer' = [answer EXCEPT ![c] = Head(buf[c])]
  /\ buf' = [buf EXCEPT ![c] = Tail(@)]
  /\ Goto(c, "unsub")
  /\ UNCHANGED <<entry, clientVars, loopVars, qrMu, observing, open, since, panicked>>

TimeOut(c) ==
  /\ At(c, "select")
  /\ Reply(c, "504")
  /\ Goto(c, "unsub")
  /\ UNCHANGED <<entry, clientVars, loopVars, qrMu, chanVars, since, panicked>>

ClientGone(c) ==
  /\ At(c, "select")
  /\ Reply(c, "gone")
  /\ Goto(c, "unsub")
  /\ UNCHANGED <<entry, clientVars, loopVars, qrMu, chanVars, since, panicked>>

\* Mutant: unsub does not take qrMu.
UnsubUnlocked(c) ==
  /\ At(c, "unsub")
  /\ Goto(c, "remove")
  /\ UNCHANGED <<answer, entry, clientVars, loopVars, qrMu, chanVars, since, panicked>>

\* Mutant: unsub keeps qrMu.
CloseKeepsLock(c) ==
  /\ At(c, "close")
  /\ open' = [open EXCEPT ![c] = FALSE]
  /\ Goto(c, "done")
  /\ UNCHANGED <<answer, entry, clientVars, loopVars, qrMu, observing, buf, since, panicked>>

\* unsub: takes qrMu,
Unsub(c) ==
  /\ At(c, "unsub") /\ qrMu[c] = None
  /\ qrMu' = [qrMu EXCEPT ![c] = "handler"]
  /\ Goto(c, "remove")
  /\ UNCHANGED <<answer, entry, clientVars, loopVars, chanVars, since, panicked>>

\* removes the observer,
Remove(c) ==
  /\ At(c, "remove")
  /\ observing' = [observing EXCEPT ![c] = FALSE]
  /\ Goto(c, "close")
  /\ UNCHANGED <<answer, entry, clientVars, loopVars, qrMu, buf, open, since, panicked>>

\* closes its channel and gives qrMu back.
Close(c) ==
  /\ At(c, "close")
  /\ open' = [open EXCEPT ![c] = FALSE]
  /\ qrMu' = [qrMu EXCEPT ![c] = None]
  /\ Goto(c, "done")
  /\ UNCHANGED <<answer, entry, clientVars, loopVars, observing, buf, since, panicked>>

-----------------------------------------------------------------------------
(* The goroutine of loginWithQR *)

RecvEvent(c) ==
  /\ looping[c] = "recv" /\ qrChan[c] # <<>>
  /\ evt' = [evt EXCEPT ![c] = Head(qrChan[c])]
  /\ qrChan' = [qrChan EXCEPT ![c] = Tail(@)]
  /\ looping' = [looping EXCEPT ![c] = "lock"]
  /\ UNCHANGED <<handlerVars, source, codes, ranged, qrMu, chanVars, since, panicked>>

\* Mutant: a receive that does not notice that the channel is closed.
RecvClosedZero(c) ==
  /\ looping[c] = "recv" /\ qrChan[c] = <<>> /\ source[c] = "closed"
  /\ looping' = [looping EXCEPT ![c] = "lock"]
  /\ UNCHANGED <<handlerVars, clientVars, evt, ranged, qrMu, chanVars, since, panicked>>

\* The range over the channel ends when it is closed and empty.
RecvClosed(c) ==
  /\ looping[c] = "recv" /\ qrChan[c] = <<>> /\ source[c] = "closed"
  /\ looping' = [looping EXCEPT ![c] = "off"]
  /\ UNCHANGED <<handlerVars, clientVars, evt, ranged, qrMu, chanVars, since, panicked>>

\* notifyQR: takes qrMu and evaluates the list of observers,
NotifyLock(c) ==
  /\ looping[c] = "lock" /\ qrMu[c] = None
  /\ qrMu' = [qrMu EXCEPT ![c] = "loop"]
  /\ ranged' = [ranged EXCEPT ![c] = observing[c]]
  /\ looping' = [looping EXCEPT ![c] = "send"]
  /\ UNCHANGED <<handlerVars, clientVars, evt, chanVars, since, panicked>>

Notified(c) ==
  /\ since' = IF ranged[c] THEN [since EXCEPT ![c] = Append(@, evt[c])] ELSE since
  /\ evt' = [evt EXCEPT ![c] = None]
  /\ qrMu' = [qrMu EXCEPT ![c] = None]
  /\ looping' = [looping EXCEPT ![c] = "recv"]
  /\ UNCHANGED <<handlerVars, clientVars, ranged, observing, open>>

\* Mutant: a full channel loses its oldest event instead of the new one.
NotifySendLatest(c) ==
  /\ looping[c] = "send"
  /\ buf' = IF ~ranged[c] THEN buf
            ELSE [buf EXCEPT ![c] = Append(IF Len(@) < BufCap THEN @ ELSE Tail(@), evt[c])]
  /\ panicked' = (panicked \/ (ranged[c] /\ ~open[c]))
  /\ Notified(c)

\* sends what the channel has room for, drops the rest, and unlocks.
NotifySend(c) ==
  /\ looping[c] = "send"
  /\ buf' = IF ranged[c] /\ Len(buf[c]) < BufCap
            THEN [buf EXCEPT ![c] = Append(@, evt[c])] ELSE buf
  /\ panicked' = (panicked \/ (ranged[c] /\ ~open[c]))
  /\ Notified(c)

-----------------------------------------------------------------------------
(* The client: external, as its uses here require *)

GiveCode(c) ==
  /\ source[c] = "open" /\ codes[c] < MaxCodes
  /\ codes' = [codes EXCEPT ![c] = @ + 1]
  /\ qrChan' = [qrChan EXCEPT ![c] = Append(@, Code(codes[c] + 1))]
  /\ UNCHANGED <<handlerVars, source, loopVars, qrMu, chanVars, since, panicked>>

\* The login has succeeded, failed or run out of codes.
EndLogin(c) ==
  /\ source[c] = "open"
  /\ \E e \in Ends : qrChan' = [qrChan EXCEPT ![c] = Append(@, e)]
  /\ source' = [source EXCEPT ![c] = "closed"]
  /\ UNCHANGED <<handlerVars, codes, loopVars, qrMu, chanVars, since, panicked>>

\* The request's context is over, or the instance was evicted and disconnected:
\* the channel may just end.
CutLogin(c) ==
  /\ source[c] = "open"
  /\ At(c, "done") \/ entry # c
  /\ source' = [source EXCEPT ![c] = "closed"]
  /\ UNCHANGED <<handlerVars, codes, qrChan, loopVars, qrMu, chanVars, since, panicked>>

\* Another request, a Logout or a Delete takes the instance out of the map and
\* disconnects it (InstanceManager).
Evict(c) ==
  /\ entry = c
  /\ entry' = None
  /\ UNCHANGED <<pc, answer, clientVars, loopVars, qrMu, chanVars, since, panicked>>

-----------------------------------------------------------------------------
Init ==
  /\ pc = [c \in Requests |-> "connect"]
  /\ answer = [c \in Requests |-> None]
  /\ entry = None
  /\ source = [c \in Requests |-> "none"]
  /\ codes = [c \in Requests |-> 0]
  /\ qrChan = [c \in Requests |-> <<>>]
  /\ looping = [c \in Requests |-> "off"]
  /\ evt = [c \in Requests |-> None]
  /\ ranged = [c \in Requests |-> FALSE]
  /\ qrMu = [c \in Requests |-> None]
  /\ observing = [c \in Requests |-> FALSE]
  /\ buf = [c \in Requests |-> <<>>]
  /\ open = [c \in Requests |-> FALSE]
  /\ since = [c \in Requests |-> <<>>]
  /\ panicked = FALSE

Handler(c) ==
  \/ Connect(c) \/ Pair(c) \/ SubscribeQR(c)
  \/ Receive(c) \/ TimeOut(c) \/ ClientGone(c)
  \/ Unsub(c) \/ Remove(c) \/ Close(c)

Loop(c) == RecvEvent(c) \/ RecvClosed(c) \/ NotifyLock(c) \/ NotifySend(c)

Client(c) == GiveCode(c) \/ EndLogin(c) \/ CutLogin(c)

Next == \E c \in Requests : Handler(c) \/ Loop(c) \/ Client(c) \/ Evict(c)

Spec == Init /\ [][Next]_vars

\* Goroutines go on, a mutex that is given back again and again is got in the
\* end, the timer of the select fires, and the client ends its QR channel.
Fairness == \A c \in Requests :
  /\ WF_vars(Connect(c) \/ SubscribeQR(c)) /\ WF_vars(TimeOut(c))
  /\ SF_vars(Unsub(c)) /\ WF_vars(Remove(c) \/ Close(c))
  /\ WF_vars(RecvEvent(c) \/ RecvClosed(c) \/ NotifySend(c)) /\ SF_vars(NotifyLock(c))
  /\ WF_vars(EndLogin(c))

FairSpec == Spec /\ Fairness

-----------------------------------------------------------------------------
(* Properties *)

Answers == QREvents \cup {Result(t) : t \in {"failed", "pairing_code", "504", "gone"}}

\* Every variable has its type.
TypeOK ==
  /\ pc \in [Requests -> {"connect", "ready", "select", "unsub", "remove", "close", "done"}]
  /\ answer \in [Requests -> Answers \cup {None}]
  /\ entry \in Requests \cup {None}
  /\ source \in [Requests -> {"none", "open", "closed"}]
  /\ codes \in [Requests -> 0..MaxCodes]
  /\ looping \in [Requests -> {"off", "recv", "lock", "send"}]
  /\ evt \in [Requests -> QREvents \cup {None}]
  /\ ranged \in [Requests -> BOOLEAN]
  /\ qrMu \in [Requests -> {None, "loop", "handler"}]
  /\ observing \in [Requests -> BOOLEAN] /\ open \in [Requests -> BOOLEAN]
  /\ qrChan \in [Requests -> Seq(QREvents)]
  /\ buf \in [Requests -> Seq(QREvents)] /\ since \in [Requests -> Seq(QREvents)]
  /\ panicked \in BOOLEAN

\* The goroutine never sends on the channel unsub has closed, whenever the
\* handler leaves: it would take the whole process down (instance.go:184-208).
NoSendOnClosed == ~panicked

\* The handler answers with the first event notified since it subscribed: the
\* channel's buffer keeps it while the handler is not yet in its select, and the
\* events after it do not push it out (instance.go:178, 199-208).
FirstEvent ==
  \A c \in Requests :
    /\ At(c, "select") /\ since[c] # <<>> => buf[c] # <<>> /\ Head(buf[c]) = Head(since[c])
    /\ answer[c] \in QREvents => answer[c] = Head(since[c])

\* Every connect ends, whatever its client does, and so does the goroutine once
\* its client is done, although they share a mutex (instance.go:112-131, 184-208).
ConnectEnds == \A c \in Requests : <>[](At(c, "done") /\ looping[c] = "off")

=============================================================================
