----------------------------- MODULE QRLogin_proofs -----------------------------
(***************************************************************************)
(* Theorems about QRLogin, for any number of requests and codes and any    *)
(* capacity of the observer's channel.                                     *)
(***************************************************************************)
EXTENDS QRLogin, TLAPS

-----------------------------------------------------------------------------
(* Types *)

LEMMA EventTypes ==
  /\ Ends \subseteq QREvents
  /\ \A i \in 1..MaxCodes : Code(i) \in QREvents
  /\ QREvents \subseteq Answers
  /\ \A t \in {"failed", "pairing_code", "504", "gone"} : Result(t) \in Answers
BY DEF QREvents, Answers

LEMMA HandlerKeepsTypes ==
  ASSUME TypeOK, NEW c \in Requests, Handler(c)
  PROVE  TypeOK'
<1>1. CASE Connect(c)
  <2>1. /\ pc' \in [Requests -> {"connect", "ready", "select", "unsub", "remove", "close", "done"}]
        /\ entry' \in Requests \cup {None}
    BY <1>1 DEF Connect, Done, Goto, TypeOK
  <2>2. answer' \in [Requests -> Answers \cup {None}]
    BY <1>1, EventTypes DEF Connect, Done, Reply, TypeOK
  <2>3. /\ source' \in [Requests -> {"none", "open", "closed"}]
        /\ looping' \in [Requests -> {"off", "recv", "lock", "send"}]
    BY <1>1 DEF Connect, TypeOK
  <2> QED BY <1>1, <2>1, <2>2, <2>3 DEF Connect, TypeOK, chanVars
<1>2. CASE Pair(c)
  BY <1>2, EventTypes
  DEF Pair, Done, Goto, Reply, At, TypeOK, clientVars, loopVars, chanVars
<1>3. CASE SubscribeQR(c)
  BY <1>3 DEF SubscribeQR, Goto, At, TypeOK, clientVars, loopVars
<1>4. CASE Receive(c)
  <2>1. buf[c] \in Seq(QREvents) /\ buf[c] # <<>>
    BY <1>4 DEF Receive, TypeOK
  <2>2. Head(buf[c]) \in QREvents /\ Tail(buf[c]) \in Seq(QREvents)
    BY <2>1
  <2>3. answer' = [answer EXCEPT ![c] = Head(buf[c])] /\ answer' \in [Requests -> Answers \cup {None}]
    BY <1>4, <2>2, EventTypes DEF Receive, TypeOK
  <2>4. pc' \in [Requests -> {"connect", "ready", "select", "unsub", "remove", "close", "done"}]
    BY <1>4 DEF Receive, Goto, TypeOK
  <2>5. buf' \in [Requests -> Seq(QREvents)]
    BY <1>4, <2>2 DEF Receive, TypeOK
  <2> QED BY <1>4, <2>3, <2>4, <2>5 DEF Receive, TypeOK, clientVars, loopVars
<1>5. CASE TimeOut(c) \/ ClientGone(c)
  <2>1. answer' \in [Requests -> Answers \cup {None}]
    BY <1>5, EventTypes DEF TimeOut, ClientGone, Reply, TypeOK
  <2>2. pc' = [pc EXCEPT ![c] = "unsub"]
    BY <1>5 DEF TimeOut, ClientGone, Goto
  <2> QED BY <1>5, <2>1, <2>2
          DEF TimeOut, ClientGone, TypeOK, clientVars, loopVars, chanVars
<1>6. CASE Unsub(c)
  BY <1>6 DEF Unsub, Goto, At, TypeOK, clientVars, loopVars, chanVars
<1>7. CASE Remove(c)
  BY <1>7 DEF Remove, Goto, At, TypeOK, clientVars, loopVars
<1>8. CASE Close(c)
  BY <1>8 DEF Close, Goto, At, TypeOK, clientVars, loopVars
<1> QED BY <1>1, <1>2, <1>3, <1>4, <1>5, <1>6, <1>7, <1>8 DEF Handler

LEMMA LoopKeepsTypes ==
  ASSUME TypeOK, NEW c \in Requests, Loop(c), looping[c] = "send" => evt[c] \in QREvents
  PROVE  TypeOK'
<1>1. CASE RecvEvent(c)
  <2>1. Head(qrChan[c]) \in QREvents /\ Tail(qrChan[c]) \in Seq(QREvents)
    BY <1>1 DEF RecvEvent, TypeOK
  <2> QED BY <1>1, <2>1 DEF RecvEvent, TypeOK, handlerVars, chanVars
<1>2. CASE RecvClosed(c)
  BY <1>2 DEF RecvClosed, TypeOK, handlerVars, clientVars, chanVars
<1>3. CASE NotifyLock(c)
  BY <1>3 DEF NotifyLock, TypeOK, handlerVars, clientVars, chanVars
<1>4. CASE NotifySend(c)
  <2>1. \A s \in Seq(QREvents) : Append(s, evt[c]) \in Seq(QREvents)
    BY <1>4 DEF NotifySend
  <2>2. buf' \in [Requests -> Seq(QREvents)] /\ since' \in [Requests -> Seq(QREvents)]
    BY <1>4, <2>1 DEF NotifySend, Notified, TypeOK
  <2>3. panicked' \in BOOLEAN
    BY <1>4 DEF NotifySend
  <2>4. /\ evt' \in [Requests -> QREvents \cup {None}]
        /\ qrMu' \in [Requests -> {None, "loop", "handler"}]
        /\ looping' \in [Requests -> {"off", "recv", "lock", "send"}]
    BY <1>4 DEF NotifySend, Notified, TypeOK
  <2> QED
    BY <1>4, <2>2, <2>3, <2>4
    DEF NotifySend, Notified, TypeOK, handlerVars, clientVars
<1> QED BY <1>1, <1>2, <1>3, <1>4 DEF Loop

LEMMA ClientKeepsTypes ==
  ASSUME TypeOK, NEW c \in Requests, Client(c) \/ Evict(c)
  PROVE  TypeOK'
<1>1. CASE GiveCode(c)
  <2>1. codes[c] + 1 \in 1..MaxCodes
    BY <1>1, QRAssumption DEF GiveCode, TypeOK
  <2>2. Append(qrChan[c], Code(codes[c] + 1)) \in Seq(QREvents)
    BY <2>1, EventTypes DEF TypeOK
  <2> QED BY <1>1, <2>1, <2>2 DEF GiveCode, TypeOK, handlerVars, loopVars, chanVars
<1>2. CASE EndLogin(c)
  <2>1. \A e \in Ends : Append(qrChan[c], e) \in Seq(QREvents)
    BY EventTypes DEF TypeOK
  <2>2. qrChan' \in [Requests -> Seq(QREvents)]
    BY <1>2, <2>1 DEF EndLogin, TypeOK
  <2> QED BY <1>2, <2>2 DEF EndLogin, TypeOK, handlerVars, loopVars, chanVars
<1>3. CASE CutLogin(c)
  BY <1>3 DEF CutLogin, TypeOK, handlerVars, loopVars, chanVars
<1>4. CASE Evict(c)
  BY <1>4 DEF Evict, TypeOK, clientVars, loopVars, chanVars
<1> QED BY <1>1, <1>2, <1>3, <1>4 DEF Client

-----------------------------------------------------------------------------
(* What keeps a send from a closed channel and the first event in the buffer:  *)
(* qrMu is held where its holders are, the list a range has evaluated is the   *)
(* list there is while it is held, and nothing is taken from the buffer before *)
(* the handler answers.                                                        *)

MutexInv(c) ==
  /\ pc[c] = "connect" => looping[c] = "off"
  /\ looping[c] = "send" <=> qrMu[c] = "loop"
  /\ pc[c] \in {"remove", "close"} <=> qrMu[c] = "handler"
  /\ observing[c] <=> pc[c] \in {"select", "unsub", "remove"}
  /\ observing[c] => open[c]
  /\ looping[c] = "send" /\ ranged[c] => observing[c]
  /\ looping[c] \in {"lock", "send"} => evt[c] \in QREvents

BufferInv(c) ==
  /\ pc[c] \in {"connect", "ready"} => buf[c] = <<>> /\ since[c] = <<>>
  /\ pc[c] \in {"connect", "ready", "select"} => answer[c] = None
  /\ pc[c] = "select" =>
       \/ since[c] = <<>> /\ buf[c] = <<>>
       \/ since[c] # <<>> /\ buf[c] # <<>> /\ Head(buf[c]) = Head(since[c])
  /\ answer[c] \in QREvents => since[c] # <<>> /\ answer[c] = Head(since[c])

LoginInv == ~panicked /\ \A c \in Requests : MutexInv(c) /\ BufferInv(c)

\* A step of one request leaves the others alone.
LEMMA OthersUntouched ==
  ASSUME TypeOK, NEW c \in Requests, Handler(c) \/ Loop(c) \/ Client(c) \/ Evict(c),
         NEW d \in Requests, d # c
  PROVE  /\ pc'[d] = pc[d] /\ answer'[d] = answer[d] /\ looping'[d] = looping[d]
         /\ evt'[d] = evt[d] /\ ranged'[d] = ranged[d] /\ qrMu'[d] = qrMu[d]
         /\ observing'[d] = observing[d] /\ buf'[d] = buf[d] /\ open'[d] = open[d]
         /\ since'[d] = since[d]
<1>1. CASE Handler(c)
  BY <1>1 DEF Handler, Connect, Pair, SubscribeQR, Receive, TimeOut, ClientGone, Unsub, Remove,
              Close, Done, Goto, Reply, TypeOK, loopVars, chanVars
<1>2. CASE Loop(c)
  BY <1>2 DEF Loop, RecvEvent, RecvClosed, NotifyLock, NotifySend, Notified, TypeOK, handlerVars,
              loopVars, chanVars
<1>3. CASE Client(c) \/ Evict(c)
  BY <1>3 DEF Client, GiveCode, EndLogin, CutLogin, Evict, handlerVars, loopVars, chanVars
<1> QED BY <1>1, <1>2, <1>3

LEMMA OthersKeep ==
  ASSUME TypeOK, LoginInv, NEW c \in Requests, Handler(c) \/ Loop(c) \/ Client(c) \/ Evict(c),
         NEW d \in Requests, d # c
  PROVE  MutexInv(d)' /\ BufferInv(d)'
BY OthersUntouched DEF LoginInv, MutexInv, BufferInv

LEMMA AnswersAreNoEvents ==
  \A t \in {"failed", "pairing_code", "504", "gone"} : Result(t) \notin QREvents
BY DEF Result, QREvents, Ends, Code

LEMMA HandlerKeepsOwn ==
  ASSUME TypeOK, LoginInv, NEW c \in Requests, Handler(c)
  PROVE  ~panicked' /\ MutexInv(c)' /\ BufferInv(c)'
<1>0. MutexInv(c) /\ BufferInv(c) /\ ~panicked /\ None \notin {"loop", "handler"}
  BY QRAssumption DEF LoginInv
<1>1. CASE Connect(c)
  <2>1. /\ UNCHANGED <<evt, ranged, qrMu, observing, buf, open, since, panicked>>
        /\ looping'[c] \in {looping[c], "recv"}
        /\ \/ pc'[c] = "ready" /\ answer'[c] = answer[c]
           \/ pc'[c] = "done" /\ answer'[c] = Result("failed") /\ looping' = looping
    BY <1>1 DEF Connect, Done, Goto, Reply, TypeOK, chanVars
  <2>2. looping[c] # "send"
    BY <1>0, <1>1 DEF Connect, At, MutexInv
  <2> QED BY <1>0, <1>1, <2>1, <2>2, AnswersAreNoEvents DEF Connect, At, MutexInv, BufferInv
<1>2. CASE Pair(c)
  BY <1>0, <1>2, AnswersAreNoEvents
  DEF Pair, Done, Goto, Reply, At, TypeOK, MutexInv, BufferInv, loopVars, chanVars
<1>3. CASE SubscribeQR(c)
  BY <1>0, <1>3, QRAssumption
  DEF SubscribeQR, Goto, At, TypeOK, MutexInv, BufferInv, loopVars
<1>4. CASE Receive(c)
  BY <1>0, <1>4
  DEF Receive, Goto, At, TypeOK, MutexInv, BufferInv, loopVars
<1>5. CASE TimeOut(c) \/ ClientGone(c)
  BY <1>0, <1>5, AnswersAreNoEvents
  DEF TimeOut, ClientGone, Goto, Reply, At, TypeOK, MutexInv, BufferInv, loopVars, chanVars
<1>6. CASE Unsub(c)
  BY <1>0, <1>6 DEF Unsub, Goto, At, TypeOK, MutexInv, BufferInv, loopVars, chanVars
<1>7. CASE Remove(c)
  BY <1>0, <1>7 DEF Remove, Goto, At, TypeOK, MutexInv, BufferInv, loopVars
<1>8. CASE Close(c)
  BY <1>0, <1>8 DEF Close, Goto, At, TypeOK, MutexInv, BufferInv, loopVars
<1> QED BY <1>1, <1>2, <1>3, <1>4, <1>5, <1>6, <1>7, <1>8 DEF Handler

LEMMA AppendHead ==
  ASSUME NEW s \in Seq(QREvents), NEW e \in QREvents
  PROVE  Append(s, e) # <<>> /\ Head(Append(s, e)) = IF s = <<>> THEN e ELSE Head(s)
<1>1. CASE s = <<>>
  BY <1>1
<1>2. CASE s # <<>>
  <2>1. Len(s) \in Nat /\ Len(s) > 0 /\ Len(Append(s, e)) = Len(s) + 1 /\ Append(s, e)[1] = s[1]
    BY <1>2
  <2>2. Append(s, e) # <<>>
    BY <2>1
  <2> QED BY <1>2, <2>1, <2>2
<1> QED BY <1>1, <1>2

LEMMA LoopKeepsOwn ==
  ASSUME TypeOK, LoginInv, NEW c \in Requests, Loop(c)
  PROVE  ~panicked' /\ MutexInv(c)' /\ BufferInv(c)'
<1>0. MutexInv(c) /\ BufferInv(c) /\ ~panicked /\ None \notin {"loop", "handler"}
  BY QRAssumption DEF LoginInv
<1>1. CASE RecvEvent(c)
  <2>1. Head(qrChan[c]) \in QREvents
    BY <1>1 DEF RecvEvent, TypeOK
  <2> QED
    BY <1>0, <1>1, <2>1 DEF RecvEvent, TypeOK, MutexInv, BufferInv, handlerVars, chanVars
<1>2. CASE RecvClosed(c)
  BY <1>0, <1>2 DEF RecvClosed, TypeOK, MutexInv, BufferInv, handlerVars, chanVars
<1>3. CASE NotifyLock(c)
  BY <1>0, <1>3 DEF NotifyLock, TypeOK, MutexInv, BufferInv, handlerVars, chanVars
<1>4. CASE NotifySend(c)
  <2>1. UNCHANGED <<pc, answer, ranged, observing, open>> /\ looping'[c] = "recv" /\ qrMu'[c] = None
    BY <1>4 DEF NotifySend, Notified, handlerVars, TypeOK
  <2>2. ~panicked' /\ MutexInv(c)'
    BY <1>0, <1>4, <2>1 DEF NotifySend, MutexInv
  <2>3. CASE ~ranged[c]
    BY <1>0, <1>4, <2>1, <2>2, <2>3 DEF NotifySend, Notified, BufferInv
  <2>4. CASE ranged[c]
    <3>1. since'[c] = Append(since[c], evt[c]) /\ evt[c] \in QREvents /\ pc[c] \notin {"connect", "ready"}
      BY <1>0, <1>4, <2>4 DEF NotifySend, Notified, MutexInv, TypeOK
    <3>2. buf'[c] = IF Len(buf[c]) < BufCap THEN Append(buf[c], evt[c]) ELSE buf[c]
      BY <1>4, <2>4 DEF NotifySend, TypeOK
    <3>3. /\ since[c] \in Seq(QREvents) /\ buf[c] \in Seq(QREvents)
          /\ since'[c] # <<>> /\ Head(since'[c]) = IF since[c] = <<>> THEN evt[c] ELSE Head(since[c])
      <4>1. since[c] \in Seq(QREvents) /\ buf[c] \in Seq(QREvents)
        BY DEF TypeOK
      <4>2. /\ Append(since[c], evt[c]) # <<>>
            /\ Head(Append(since[c], evt[c])) = IF since[c] = <<>> THEN evt[c] ELSE Head(since[c])
        BY <3>1, <4>1, AppendHead
      <4> QED BY <3>1, <4>1, <4>2, Zenon
    <3>4. buf[c] = <<>> => buf'[c] # <<>> /\ Head(buf'[c]) = evt[c]
      BY <3>1, <3>2, <3>3, AppendHead, QRAssumption
    <3>5. buf[c] # <<>> => buf'[c] # <<>> /\ Head(buf'[c]) = Head(buf[c])
      BY <3>1, <3>2, <3>3, AppendHead
    <3> QED BY <1>0, <2>1, <2>2, <3>1, <3>3, <3>4, <3>5 DEF BufferInv
  <2> QED BY <2>3, <2>4
<1> QED BY <1>1, <1>2, <1>3, <1>4 DEF Loop

LEMMA ClientKeepsOwn ==
  ASSUME TypeOK, LoginInv, NEW c \in Requests, Client(c) \/ Evict(c)
  PROVE  ~panicked' /\ MutexInv(c)' /\ BufferInv(c)'
<1>1. UNCHANGED <<pc, answer, looping, evt, ranged, qrMu, observing, buf, open, since, panicked>>
  BY DEF Client, GiveCode, EndLogin, CutLogin, Evict, handlerVars, loopVars, chanVars
<1> QED BY <1>1 DEF LoginInv, MutexInv, BufferInv

LEMMA NextKeepsLogin ==
  ASSUME TypeOK, LoginInv, [Next]_vars
  PROVE  TypeOK' /\ LoginInv'
<1>1. ASSUME NEW c \in Requests, Handler(c) \/ Loop(c) \/ Client(c) \/ Evict(c)
      PROVE  TypeOK' /\ LoginInv'
  <2>1. TypeOK'
    BY <1>1, HandlerKeepsTypes, LoopKeepsTypes, ClientKeepsTypes DEF LoginInv, MutexInv
  <2>2. ~panicked' /\ MutexInv(c)' /\ BufferInv(c)'
    BY <1>1, HandlerKeepsOwn, LoopKeepsOwn, ClientKeepsOwn
  <2>3. ASSUME NEW d \in Requests, d # c PROVE MutexInv(d)' /\ BufferInv(d)'
    BY <1>1, <2>3, OthersKeep
  <2> QED BY <2>1, <2>2, <2>3 DEF LoginInv
<1>2. CASE UNCHANGED vars
  BY <1>2 DEF vars, handlerVars, clientVars, loopVars, chanVars, TypeOK, LoginInv, MutexInv,
              BufferInv
<1> QED BY <1>1, <1>2 DEF Next

LEMMA InitLogin == Init => TypeOK /\ LoginInv
<1> SUFFICES ASSUME Init PROVE TypeOK /\ LoginInv
  OBVIOUS
<1>1. TypeOK
  <2>1. 0 \in 0..MaxCodes /\ <<>> \in Seq(QREvents)
    BY QRAssumption
  <2>2. /\ qrChan \in [Requests -> Seq(QREvents)]
        /\ buf \in [Requests -> Seq(QREvents)] /\ since \in [Requests -> Seq(QREvents)]
    BY <2>1 DEF Init
  <2>3. codes \in [Requests -> 0..MaxCodes]
    BY <2>1 DEF Init
  <2> QED BY <2>2, <2>3 DEF Init, TypeOK
<1>2. LoginInv
  BY QRAssumption DEF Init, LoginInv, MutexInv, BufferInv
<1> QED BY <1>1, <1>2

LEMMA LoginAlways == Spec => [](TypeOK /\ LoginInv)
BY InitLogin, NextKeepsLogin, PTL DEF Spec

-----------------------------------------------------------------------------
(* The theorems *)

\* Every variable keeps its type.
THEOREM TypeCorrect == Spec => []TypeOK
BY LoginAlways, PTL

\* Whenever the handler leaves, the goroutine does not send on the channel it
\* closes.
THEOREM SendsAreSafe == Spec => []NoSendOnClosed
<1>1. LoginInv => NoSendOnClosed  BY DEF LoginInv, NoSendOnClosed
<1> QED BY <1>1, LoginAlways, PTL

\* The handler answers with the first event notified since it subscribed, for
\* every capacity of its channel but zero.
THEOREM AnswerIsFirst == Spec => []FirstEvent
<1>1. LoginInv => FirstEvent  BY DEF LoginInv, BufferInv, FirstEvent, At
<1> QED BY <1>1, LoginAlways, PTL

=============================================================================
