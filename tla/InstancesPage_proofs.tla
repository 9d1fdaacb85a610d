------------------------- MODULE InstancesPage_proofs -------------------------
(***************************************************************************)
(* Theorems about InstancesPage, for any number of instances, of requests  *)
(* in flight, of clicks, of changes by others and of failures.             *)
(***************************************************************************)
EXTENDS InstancesPage, TLAPS

-----------------------------------------------------------------------------
(* Types *)

CallType ==
  [kind : Kinds \cup {"none"}, name : Names \cup {None}, live : BOOLEAN, answer : Answers,
   list : Tables \cup {None}]

\* Whoever asks for a code asks for the code of an instance.
ConnectNamed == \A c \in Calls : call[c].kind = "connect" => call[c].name \in Names

LEMMA NoCallIsCall == NoCall \in CallType
BY DEF NoCall, CallType, Answers

LEMMA RequestIsCall ==
  ASSUME NEW k \in Kinds, NEW n \in Names \cup {None}
  PROVE  Request(k, n) \in CallType
BY DEF Request, CallType, Answers

LEMMA AnsweredIsCall ==
  ASSUME NEW e \in CallType, NEW a \in Answers, NEW l \in Tables \cup {None}
  PROVE  /\ [e EXCEPT !.answer = a] \in CallType
         /\ [e EXCEPT !.answer = a].kind = e.kind /\ [e EXCEPT !.answer = a].name = e.name
         /\ [e EXCEPT !.list = l] \in CallType
         /\ [e EXCEPT !.list = l].kind = e.kind /\ [e EXCEPT !.list = l].name = e.name
BY DEF CallType

LEMMA OneCall ==
  ASSUME call \in [Calls -> CallType], ConnectNamed, NEW c \in Calls, NEW e \in CallType,
         e.kind = "connect" => e.name \in Names, call' = [call EXCEPT ![c] = e]
  PROVE  call' \in [Calls -> CallType] /\ ConnectNamed'
BY DEF ConnectNamed

\* The ways a step changes one call.
LEMMA CallSteps ==
  ASSUME TypeOK, ConnectNamed, NEW c \in Calls,
         \/ \E k \in Kinds, n \in Names \cup {None} :
              Send(c, k, n) /\ (k = "connect" => n \in Names)
         \/ Return(c)
         \/ \E a \in Answers : Reply(c, a)
         \/ ReplyList(c)
         \/ call' = [call EXCEPT ![c].answer = "error", ![c].list = None]
  PROVE  call' \in [Calls -> CallType] /\ ConnectNamed'
<1>1. /\ call \in [Calls -> CallType] /\ call[c] \in CallType
      /\ call[c].kind = "connect" => call[c].name \in Names
      /\ table \in Tables /\ {"error", "done"} \subseteq Answers
  BY DEF TypeOK, CallType, ConnectNamed, Answers
<1>2. ASSUME NEW k \in Kinds, NEW n \in Names \cup {None}, Send(c, k, n), k = "connect" => n \in Names
      PROVE  call' \in [Calls -> CallType] /\ ConnectNamed'
  <2>1. /\ Request(k, n) \in CallType
        /\ Request(k, n).kind = k /\ Request(k, n).name = n
    BY RequestIsCall DEF Request
  <2>2. QED
    BY <1>1, <1>2, <2>1, OneCall DEF Send
<1>3. CASE Return(c)
  BY <1>1, <1>3, NoCallIsCall, OneCall DEF Return, NoCall
<1>4. ASSUME NEW a \in Answers, Reply(c, a)
      PROVE  call' \in [Calls -> CallType] /\ ConnectNamed'
  <2>1. call' = [call EXCEPT ![c] = [call[c] EXCEPT !.answer = a]]
    BY <1>4 DEF Reply
  <2>2. QED
    BY <1>1, <2>1, AnsweredIsCall, OneCall
<1>5. ASSUME NEW a \in Answers, NEW l \in Tables \cup {None},
             call' = [call EXCEPT ![c].answer = a, ![c].list = l]
      PROVE  call' \in [Calls -> CallType] /\ ConnectNamed'
  <2> DEFINE d == [call[c] EXCEPT !.answer = a]
             e == [d EXCEPT !.list = l]
  <2>1. call' = [call EXCEPT ![c] = e]
    BY <1>1, <1>5
  <2>2. d \in CallType /\ d.kind = call[c].kind /\ d.name = call[c].name
    BY <1>1, AnsweredIsCall
  <2> HIDE DEF d
  <2>3. e \in CallType /\ e.kind = d.kind /\ e.name = d.name
    BY <2>2, AnsweredIsCall
  <2> HIDE DEF e
  <2>4. QED
    BY <1>1, <2>1, <2>2, <2>3, OneCall
<1>6. QED
  BY <1>1, <1>2, <1>3, <1>4, <1>5 DEF ReplyList

\* What a served request does to the table and to itself.
LEMMA ServeShape ==
  ASSUME TypeOK, NEW c \in Calls, Serve(c)
  PROVE  /\ table' \in Tables
         /\ \/ call[c].kind \in {"list", "relist"} /\ ReplyList(c)
            \/ /\ call[c].kind \notin {"list", "relist"}
               /\ \E a \in Answers : Reply(c, a)
         /\ UNCHANGED <<pageVars, apiVars, formVars, modal, boundVars, historyVars>>
<1>1. ASSUME NEW s \in Status, NEW n, table' = [table EXCEPT ![n] = s]
      PROVE  table' \in Tables
  BY <1>1 DEF TypeOK, Tables
<1>2. {"absent", "close", "open"} = Status /\ {"error", "done", "code"} \subseteq Answers
  BY DEF Status, Answers
<1>3. CASE call[c].kind \in {"list", "relist"} /\ ReplyList(c) /\ UNCHANGED table
  BY <1>3 DEF Serve, TypeOK
<1>4. CASE /\ call[c].kind = "create"
           /\ \/ Refuse(c)
              \/ table' = [table EXCEPT ![call[c].name] = "close"] /\ Reply(c, "done")
  BY <1>1, <1>2, <1>4 DEF Serve, Refuse, TypeOK
<1>5. CASE call[c].kind \in {"connect", "logout", "delete"} /\ Refuse(c)
  BY <1>2, <1>5 DEF Serve, Refuse, TypeOK
<1>6. CASE /\ call[c].kind = "connect"
           /\ \E s \in Status, a \in Answers : table' = [table EXCEPT ![call[c].name] = s] /\ Reply(c, a)
  BY <1>1, <1>6 DEF Serve
<1>7. CASE /\ call[c].kind \in {"logout", "delete"}
           /\ \E s \in Status : table' = [table EXCEPT ![call[c].name] = s]
           /\ Reply(c, "done")
  BY <1>1, <1>2, <1>7 DEF Serve
<1>8. QED
  BY <1>2, <1>3, <1>4, <1>5, <1>6, <1>7 DEF Serve

LEMMA ClickCounts ==
  ASSUME TypeOK, Click \/ UNCHANGED clicks
  PROVE  clicks' \in 0..MaxClicks
BY PageAssumption DEF TypeOK, Click

LEMMA TypeStep ==
  ASSUME TypeOK, ConnectNamed, [Next]_vars
  PROVE  TypeOK' /\ ConnectNamed'
<1> USE DEF pageVars, apiVars, formVars, boundVars, historyVars
<1>1. ASSUME NEW c \in Calls, Effect(c) \/ Poll(c) \/ Create(c) \/ CloseModal(c)
      PROVE  TypeOK' /\ ConnectNamed'
  <2>1. call' \in [Calls -> CallType] /\ ConnectNamed'
    <3>1. \E k \in Kinds \ {"connect"}, n \in Names \cup {None} : Send(c, k, n)
      BY <1>1 DEF Effect, Poll, Create, CloseModal, Load, Kinds, TypeOK
    <3>2. QED
      BY <3>1, CallSteps
  <2>2. CASE Effect(c)
    BY <2>1, <2>2 DEF Effect, Load, Execute, TypeOK, CallType
  <2>3. CASE Poll(c) \/ CloseModal(c)
    BY <2>1, <2>3 DEF Poll, CloseModal, Load, Execute, TypeOK, CallType
  <2>4. CASE Create(c)
    BY <2>1, <2>4, ClickCounts DEF Create, TypeOK, CallType
  <2>5. QED
    BY <1>1, <2>2, <2>3, <2>4
<1>2. ASSUME NEW c \in Calls, NEW n \in Names, Connect(c, n) \/ Logout(c, n) \/ Delete(c, n)
      PROVE  TypeOK' /\ ConnectNamed'
  <2>1. call' \in [Calls -> CallType] /\ ConnectNamed'
    <3>1. \E k \in Kinds : Send(c, k, n)
      BY <1>2 DEF Connect, Logout, Delete, Kinds
    <3>2. QED
      BY <3>1, CallSteps
  <2>2. CASE Connect(c, n)
    <3>1. crossed' = (\E d \in Calls : Asks(d)) /\ last' = c /\ modal' = Waits(n)
      BY <2>2 DEF Connect
    <3>2. crossed' \in BOOLEAN
      BY <3>1
    <3>3. modal' \in Modals
      BY <3>1 DEF Waits, Modals
    <3>4. UNCHANGED <<table, pageVars, apiVars, formVars, changes, fails>>
      BY <2>2 DEF Connect
    <3>5. clicks' \in 0..MaxClicks
      BY <2>2, ClickCounts DEF Connect
    <3>6. QED
      BY <2>1, <3>1, <3>2, <3>3, <3>4, <3>5 DEF TypeOK, CallType
  <2>3. CASE Logout(c, n) \/ Delete(c, n)
    BY <2>1, <2>3, ClickCounts DEF Logout, Delete, TypeOK, CallType
  <2>4. QED
    BY <1>2, <2>2, <2>3
<1>3. ASSUME NEW c \in Calls, Resume(c)
      PROVE  TypeOK' /\ ConnectNamed'
  <2>1. call' \in [Calls -> CallType] /\ ConnectNamed'
    <3>1. Return(c) \/ Send(c, "list", None) \/ Send(c, "relist", None)
      BY <1>3 DEF Resume, Listed, CreateFailed, Created, CreatedListed, ConnectCode, ConnectDone,
                  ConnectFailed, LoggedOutOrDeleted, Discard, Load
    <3>2. QED
      BY <3>1, CallSteps DEF Kinds
  <2>2. CASE Listed(c) \/ CreatedListed(c)
    BY <2>1, <2>2 DEF Listed, CreatedListed, Executed, TypeOK, CallType
  <2>3. CASE ConnectCode(c)
    <3>1. call[c].name \in Names
      BY <2>3 DEF ConnectCode, Answered, ConnectNamed
    <3>2. QED
      BY <2>1, <2>3, <3>1 DEF ConnectCode, Shows, Modals, TypeOK, CallType
  <2>4. CASE CreateFailed(c) \/ Created(c) \/ ConnectDone(c) \/ ConnectFailed(c)
             \/ LoggedOutOrDeleted(c) \/ Discard(c)
    BY <2>1, <2>4 DEF CreateFailed, Created, ConnectDone, ConnectFailed, LoggedOutOrDeleted,
                      Discard, Load, Execute, TypeOK, CallType
  <2>5. QED
    BY <1>3, <2>2, <2>3, <2>4 DEF Resume
<1>4. ASSUME NEW c \in Calls, Serve(c)
      PROVE  TypeOK' /\ ConnectNamed'
  <2>1. call' \in [Calls -> CallType] /\ ConnectNamed'
    BY <1>4, ServeShape, CallSteps
  <2>2. QED
    BY <1>4, <2>1, ServeShape DEF TypeOK, CallType
<1>5. ASSUME NEW c \in Calls, Lose(c)
      PROVE  TypeOK' /\ ConnectNamed'
  <2>1. call' \in [Calls -> CallType] /\ ConnectNamed'
    BY <1>5, CallSteps DEF Lose
  <2>2. QED
    BY <1>5, <2>1, PageAssumption DEF Lose, TypeOK, CallType
<1>6. CASE Unmount
  <2>1. call' \in [Calls -> CallType] /\ ConnectNamed'
    <3>1. \A c \in Calls : call[c] \in CallType
      BY DEF TypeOK, CallType
    <3>2. ASSUME NEW e \in CallType
          PROVE  /\ [e EXCEPT !.live = FALSE] \in CallType
                 /\ [e EXCEPT !.live = FALSE].kind = e.kind
                 /\ [e EXCEPT !.live = FALSE].name = e.name
      BY DEF CallType
    <3>3. call' = [c \in Calls |-> [call[c] EXCEPT !.live = FALSE]]
      BY <1>6 DEF Unmount
    <3>4. QED
      BY <3>1, <3>2, <3>3 DEF ConnectNamed
  <2>2. QED
    BY <1>6, <2>1 DEF Unmount, TypeOK, CallType
<1>7. ASSUME NEW n \in Names, TypeName(n) \/ Others(n)
      PROVE  TypeOK' /\ ConnectNamed'
  <2>1. UNCHANGED call /\ table' \in Tables
    BY <1>7 DEF TypeName, Others, TypeOK, Tables
  <2>2. ConnectNamed'
    BY <2>1 DEF ConnectNamed
  <2>3. QED
    BY <1>7, <2>1, <2>2, PageAssumption DEF TypeName, Others, TypeOK
<1>8. CASE Mount
  BY <1>8, ClickCounts DEF Mount, TypeOK, ConnectNamed
<1>9. CASE UNCHANGED vars
  BY <1>9 DEF vars, TypeOK, ConnectNamed
<1>10. QED
  BY <1>1, <1>2, <1>3, <1>4, <1>5, <1>6, <1>7, <1>8, <1>9 DEF Next, User

LEMMA TypeInvariant == Spec => [](TypeOK /\ ConnectNamed)
<1>1. ASSUME Init PROVE TypeOK /\ ConnectNamed
  <2>1. call \in [Calls -> CallType] /\ ConnectNamed
    <3>1. NoCall \in CallType /\ NoCall.kind # "connect"
      BY NoCallIsCall DEF NoCall
    <3>2. QED
      BY <1>1, <3>1 DEF Init, ConnectNamed
  <2>2. clicks \in 0..MaxClicks /\ changes \in 0..MaxChanges /\ fails \in 0..MaxFails
    BY <1>1, PageAssumption DEF Init
  <2>3. QED
    BY <1>1, <2>1, <2>2 DEF Init, TypeOK, CallType
<1>2. QED
  BY <1>1, TypeStep, PTL DEF Spec

\* Every variable keeps its type, for any number of overlapping requests.
THEOREM TypeCorrect == Spec => []TypeOK
BY TypeInvariant, PTL

-----------------------------------------------------------------------------
(* The page is never blank *)

\* The answer to a load is a failure or brings a list.
ListsArrive ==
  \A c \in Calls :
    call[c].kind \in {"list", "relist"} /\ call[c].answer \notin {None, "error"}
      => call[c].list \in Tables

\* A step that sends a request, drops one or loses its answer leaves the others.
LEMMA ListsStay ==
  ASSUME TypeOK, ListsArrive, NEW c \in Calls,
         \/ \E k, n : Send(c, k, n)
         \/ Return(c)
         \/ call[c].kind \notin {"list", "relist"} /\ \E a : Reply(c, a)
         \/ ReplyList(c)
         \/ call' = [call EXCEPT ![c].answer = "error", ![c].list = None]
  PROVE  ListsArrive'
<1>1. ASSUME NEW d \in Calls, d # c PROVE call'[d] = call[d]
  BY <1>1 DEF Send, Return, Reply, ReplyList, TypeOK
<1>2. call'[c].kind \in {"list", "relist"} /\ call'[c].answer \notin {None, "error"}
        => call'[c].list \in Tables
  BY DEF Send, Return, Reply, ReplyList, TypeOK, Request, NoCall
<1>3. QED
  BY <1>1, <1>2 DEF ListsArrive

LEMMA BlankStep ==
  ASSUME TypeOK, ListsArrive, NeverBlank, [Next]_vars
  PROVE  ListsArrive' /\ NeverBlank'
<1> USE DEF pageVars, apiVars
<1>1. ASSUME NEW c \in Calls, User(c) \/ Effect(c) \/ Poll(c)
      PROVE  ListsArrive' /\ NeverBlank'
  <2>1. ListsArrive'
    <3>1. \E k, n : Send(c, k, n)
      BY <1>1 DEF User, Effect, Poll, Create, CloseModal, Connect, Logout, Delete, Load
    <3>2. QED
      BY <3>1, ListsStay
  <2>2. NeverBlank'
    BY <1>1 DEF User, Effect, Poll, Create, CloseModal, Connect, Logout, Delete, Load, Execute,
                NeverBlank
  <2>3. QED
    BY <2>1, <2>2
<1>2. ASSUME NEW c \in Calls, Resume(c)
      PROVE  ListsArrive' /\ NeverBlank'
  <2>1. ListsArrive'
    <3>1. Return(c) \/ Send(c, "list", None) \/ Send(c, "relist", None)
      BY <1>2 DEF Resume, Listed, CreateFailed, Created, CreatedListed, ConnectCode, ConnectDone,
                  ConnectFailed, LoggedOutOrDeleted, Discard, Load
    <3>2. QED
      BY <3>1, ListsStay
  <2>2. CASE Listed(c) \/ CreatedListed(c)
    <3>1. ~Failed(c) => instances' \in Tables
      BY <2>2 DEF Listed, CreatedListed, Executed, Answered, Failed, ListsArrive
    <3>2. Failed(c) => error' = TRUE
      BY <2>2 DEF Listed, CreatedListed, Executed
    <3>3. QED
      BY <2>1, <3>1, <3>2, PageAssumption DEF NeverBlank
  <2>3. CASE ~(Listed(c) \/ CreatedListed(c))
    <3>1. UNCHANGED pageVars /\ (Execute \/ UNCHANGED apiVars)
      BY <1>2, <2>3 DEF Resume, CreateFailed, Created, ConnectCode, ConnectDone, ConnectFailed,
                        LoggedOutOrDeleted, Discard, Load
    <3>2. QED
      BY <2>1, <3>1 DEF Execute, NeverBlank
  <2>4. QED
    BY <2>2, <2>3
<1>3. ASSUME NEW c \in Calls, Serve(c)
      PROVE  ListsArrive' /\ NeverBlank'
  BY <1>3, ServeShape, ListsStay DEF NeverBlank
<1>4. ASSUME NEW c \in Calls, Lose(c)
      PROVE  ListsArrive' /\ NeverBlank'
  BY <1>4, ListsStay DEF Lose, NeverBlank
<1>5. CASE Mount \/ Unmount
  BY <1>5 DEF Mount, Unmount, TypeOK, ListsArrive, NeverBlank
<1>6. CASE UNCHANGED vars \/ \E n \in Names : TypeName(n) \/ Others(n)
  BY <1>6 DEF TypeName, Others, vars, ListsArrive, NeverBlank
<1>7. QED
  BY <1>1, <1>2, <1>3, <1>4, <1>5, <1>6 DEF Next

\* Once its effect has run the page shows a list, the spinner or an error, however many loads overlap and
\* in whatever order their answers arrive or fail to: as useApi clears the error
\* when a load begins and the spinner when any of them ends.
THEOREM NeverIsBlank == Spec => []NeverBlank
<1>1. Init => ListsArrive /\ NeverBlank
  BY DEF Init, NoCall, ListsArrive, NeverBlank
<1>2. QED
  BY <1>1, BlankStep, TypeCorrect, PTL DEF Spec

-----------------------------------------------------------------------------
(* The code in the modal *)

\* Only a component that is there waits for answers.
LiveIsMounted == \A c \in Calls : call[c].live => mounted

\* Unless the latest connect met an earlier one, no other is under way.
OneAsks == ~crossed => \A c \in Calls : Asks(c) => c = last

ModalInv == LiveIsMounted /\ OneAsks /\ ModalIsOwn /\ SpinnerWaits

\* A step that asks for no code makes nobody ask, and a component that sends is
\* there.
LEMMA AskersStay ==
  ASSUME TypeOK, LiveIsMounted, NEW c \in Calls, mounted => mounted',
         \/ \E k \in Kinds \ {"connect"} : \E n : Send(c, k, n) /\ mounted'
         \/ Return(c)
         \/ \E a : Reply(c, a)
         \/ ReplyList(c)
         \/ call' = [call EXCEPT ![c].answer = "error", ![c].list = None]
  PROVE  /\ LiveIsMounted'
         /\ \A d \in Calls : Asks(d)' => Asks(d)
<1>1. ASSUME NEW d \in Calls, d # c PROVE call'[d] = call[d]
  BY <1>1 DEF Send, Return, Reply, ReplyList, TypeOK
<1>2. /\ Asks(c)' => Asks(c)
      /\ call'[c].live => call[c].live \/ mounted'
  BY DEF Send, Return, Reply, ReplyList, TypeOK, Request, NoCall, Asks
<1>3. QED
  BY <1>1, <1>2 DEF Asks, LiveIsMounted

\* Whoever asks goes on asking, for the same instance.
AskersKept == \A d \in Calls : Asks(d) => Asks(d)' /\ call'[d].name = call[d].name

\* Only a connect that is answered stops asking: other requests begin and end in
\* places of their own, and serving or losing a request changes its answer only.
LEMMA AskersGoOn ==
  ASSUME TypeOK, NEW c \in Calls,
         \/ ~Asks(c) /\ \E e : call' = [call EXCEPT ![c] = e]
         \/ \E a : Reply(c, a)
         \/ ReplyList(c)
         \/ call' = [call EXCEPT ![c].answer = "error", ![c].list = None]
  PROVE  AskersKept
<1>1. ASSUME NEW d \in Calls, d # c PROVE call'[d] = call[d]
  BY <1>1 DEF Reply, ReplyList, TypeOK
<1>2. Asks(c) => Asks(c)' /\ call'[c].name = call[c].name
  BY DEF Reply, ReplyList, TypeOK, Asks
<1>3. QED
  BY <1>1, <1>2 DEF Asks, AskersKept

\* Then, if nothing happens to the modal, the invariant stays.
LEMMA ModalStays ==
  ASSUME TypeOK, ModalInv, LiveIsMounted', \A d \in Calls : Asks(d)' => Asks(d), AskersKept,
         UNCHANGED <<mounted, modal, last, crossed>>
  PROVE  ModalInv'
<1>1. OneAsks' /\ ModalIsOwn'
  BY DEF ModalInv, OneAsks, ModalIsOwn, Asks
<1>2. SpinnerWaits'
  BY DEF ModalInv, SpinnerWaits, AskersKept, TypeOK, Asks
<1>3. QED
  BY <1>1, <1>2 DEF ModalInv

LEMMA ModalUser ==
  ASSUME TypeOK, ModalInv, NEW c \in Calls, User(c) \/ Effect(c) \/ Poll(c)
  PROVE  ModalInv'
<1>1. ~Asks(c)
  <2>1. Free(c)
    BY DEF User, Effect, Poll, Create, CloseModal, Connect, Logout, Delete
  <2>2. QED
    BY <2>1 DEF Free, NoCall, Asks
<1>2. CASE Effect(c) \/ Poll(c) \/ Create(c) \/ \E n \in Names : Logout(c, n) \/ Delete(c, n)
  <2>1. mounted' /\ \E k \in Kinds \ {"connect"} : \E n : Send(c, k, n)
    BY <1>2 DEF Effect, Poll, Create, Logout, Delete, Load, Kinds, TypeOK, pageVars
  <2>2. LiveIsMounted' /\ \A d \in Calls : Asks(d)' => Asks(d)
    BY <2>1, AskersStay DEF ModalInv
  <2>3. AskersKept
    BY <1>1, <2>1, AskersGoOn DEF Send
  <2>4. UNCHANGED <<mounted, modal, last, crossed>>
    BY <1>2 DEF Effect, Poll, Create, Logout, Delete, pageVars, formVars, historyVars
  <2>5. QED
    BY <2>2, <2>3, <2>4, ModalStays
<1>3. CASE CloseModal(c)
  <2>1. LiveIsMounted' /\ \A d \in Calls : Asks(d)' => Asks(d)
    BY <1>3, AskersStay DEF CloseModal, Load, Kinds, ModalInv, pageVars
  <2>2. OneAsks'
    BY <1>3, <2>1 DEF CloseModal, ModalInv, OneAsks, Asks, historyVars
  <2>3. ModalIsOwn' /\ SpinnerWaits'
    BY <1>3 DEF CloseModal, ModalIsOwn, SpinnerWaits
  <2>4. QED
    BY <2>1, <2>2, <2>3 DEF ModalInv
<1>4. ASSUME NEW n \in Names, Connect(c, n)
      PROVE  ModalInv'
  <2>1. /\ mounted /\ mounted' /\ last' = c /\ crossed' = \E d \in Calls : Asks(d)
        /\ modal' = Waits(n) /\ call' = [call EXCEPT ![c] = Request("connect", n)]
    BY <1>4 DEF Connect, Send, TypeOK, pageVars
  <2>2. /\ modal'.by = None /\ modal'.name = n
        /\ Asks(c)' /\ call'[c].name = n
    BY <2>1 DEF Waits, TypeOK, Request, Asks
  <2>3. \A d \in Calls : d # c => (Asks(d)' <=> Asks(d))
    BY <2>1 DEF TypeOK, Asks
  <2>4. OneAsks'
    BY <2>1, <2>3 DEF OneAsks
  <2>5. LiveIsMounted' /\ ModalIsOwn'
    BY <2>1, <2>2 DEF LiveIsMounted, ModalIsOwn
  <2>6. SpinnerWaits'
    BY <2>1, <2>2, PageAssumption DEF SpinnerWaits
  <2>7. QED
    BY <2>4, <2>5, <2>6 DEF ModalInv
<1>5. QED
  BY <1>2, <1>3, <1>4 DEF User

LEMMA ModalResume ==
  ASSUME TypeOK, ModalInv, NEW c \in Calls, Resume(c)
  PROVE  ModalInv'
<1>1. /\ mounted' = mounted /\ UNCHANGED historyVars
      /\ Discard(c) \/ call[c].live
      /\ Return(c) \/ Send(c, "list", None) \/ Send(c, "relist", None)
  BY DEF Resume, Listed, CreateFailed, Created, CreatedListed, ConnectCode, ConnectDone,
         ConnectFailed, LoggedOutOrDeleted, Discard, Load, Answered, pageVars
<1>2. LiveIsMounted' /\ \A d \in Calls : Asks(d)' => Asks(d)
  <2>1. CASE Return(c)
    BY <1>1, <2>1, AskersStay DEF ModalInv
  <2>2. CASE ~Return(c)
    <3>1. mounted' /\ (Send(c, "list", None) \/ Send(c, "relist", None))
      BY <1>1, <2>2 DEF Discard, ModalInv, LiveIsMounted
    <3>2. QED
      BY <3>1, AskersStay DEF Kinds, ModalInv
  <2>3. QED
    BY <2>1, <2>2
<1>3. CASE ConnectCode(c) \/ ConnectDone(c) \/ ConnectFailed(c)
  <2>1. Asks(c)
    BY <1>3 DEF ConnectCode, ConnectDone, ConnectFailed, Answered, Asks
  <2>2. modal' = None \/ modal' = Shows(call[c].name, c)
    BY <1>3 DEF ConnectCode, ConnectDone, ConnectFailed
  <2>3. OneAsks'
    BY <1>1, <1>2 DEF ModalInv, OneAsks, Asks, historyVars
  <2>4. ModalIsOwn'
    BY <1>1, <2>1, <2>2 DEF ModalInv, OneAsks, ModalIsOwn, Shows, historyVars
  <2>5. SpinnerWaits'
    BY <2>2, PageAssumption DEF SpinnerWaits, Shows
  <2>6. QED
    BY <1>2, <2>3, <2>4, <2>5 DEF ModalInv
<1>4. CASE ~(ConnectCode(c) \/ ConnectDone(c) \/ ConnectFailed(c))
  <2>1. modal' = modal /\ ~Asks(c)
    BY <1>4 DEF Resume, Listed, CreateFailed, Created, CreatedListed, LoggedOutOrDeleted, Discard,
                Answered, Asks
  <2>2. AskersKept
    BY <1>1, <2>1, AskersGoOn DEF Return, Send
  <2>3. QED
    BY <1>1, <1>2, <2>1, <2>2, ModalStays DEF historyVars
<1>5. QED
  BY <1>3, <1>4

LEMMA ModalInvariant == Spec => []ModalInv
<1>1. Init => ModalInv
  BY DEF Init, NoCall, ModalInv, LiveIsMounted, OneAsks, ModalIsOwn, SpinnerWaits, Asks
<1>2. TypeOK /\ ModalInv /\ [Next]_vars => ModalInv'
  <2> SUFFICES ASSUME TypeOK, ModalInv, [Next]_vars PROVE ModalInv'
    OBVIOUS
  <2>1. ASSUME NEW c \in Calls, Serve(c) \/ Lose(c)
        PROVE  ModalInv'
    <3>1. UNCHANGED <<mounted, modal, last, crossed>>
      BY <2>1 DEF Serve, Lose, pageVars, historyVars
    <3>2. LiveIsMounted' /\ \A d \in Calls : Asks(d)' => Asks(d)
      BY <2>1, <3>1, ServeShape, AskersStay DEF Lose, ModalInv
    <3>3. AskersKept
      BY <2>1, ServeShape, AskersGoOn DEF Lose
    <3>4. QED
      BY <3>1, <3>2, <3>3, ModalStays
  <2>2. CASE Unmount
    <3>1. LiveIsMounted' /\ \A d \in Calls : ~Asks(d)'
      BY <2>2 DEF Unmount, TypeOK, LiveIsMounted, Asks
    <3>2. OneAsks' /\ ModalIsOwn' /\ SpinnerWaits'
      BY <2>2, <3>1 DEF Unmount, ModalInv, OneAsks, ModalIsOwn, SpinnerWaits, historyVars, Asks
    <3>3. QED
      BY <3>1, <3>2 DEF ModalInv
  <2>3. CASE Mount
    <3>1. \A d \in Calls : ~call[d].live
      BY <2>3 DEF Mount, ModalInv, LiveIsMounted
    <3>2. QED
      BY <2>3, <3>1 DEF Mount, ModalInv, LiveIsMounted, OneAsks, ModalIsOwn, SpinnerWaits, Asks
  <2>4. CASE UNCHANGED vars \/ \E n \in Names : TypeName(n) \/ Others(n)
    <3>1. UNCHANGED <<call, mounted, modal, last, crossed>>
      BY <2>4 DEF TypeName, Others, vars, pageVars, historyVars
    <3>2. /\ LiveIsMounted' /\ \A d \in Calls : Asks(d)' => Asks(d)
          /\ AskersKept
      BY <3>1 DEF ModalInv, LiveIsMounted, AskersKept, Asks
    <3>3. QED
      BY <3>1, <3>2, ModalStays
  <2>5. QED
    BY <2>1, <2>2, <2>3, <2>4, ModalUser, ModalResume DEF Next
<1>3. QED
  BY <1>1, <1>2, TypeCorrect, PTL DEF Spec

\* A code that is shown is the one last asked for, for any number of requests
\* whose answers arrive in any order, unless an earlier connect was under way when
\* it was asked for.
THEOREM ModalShowsOwn == Spec => []ModalIsOwn
BY ModalInvariant, PTL DEF ModalInv

\* A waiting modal has the latest connect under way behind it, for any number of
\* connects that overlap: each answer of an earlier one ends the waiting.
THEOREM SpinnerIsServed == Spec => []SpinnerWaits
BY ModalInvariant, PTL DEF ModalInv

=============================================================================
