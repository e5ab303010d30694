------------------------ MODULE CommandChannelProofs ------------------------
(***************************************************************************)
(* Proofs about CommandChannel, for every number of commands, server       *)
(* threads and connections and every value of the bounds.                  *)
(***************************************************************************)
EXTENDS CommandChannel, FiniteSetTheorems, FunctionTheorems, TLAPS

USE DEF vars, tableVars, serverVars, linkVars, cVars, hVars, NoCmd,
        TableTypes, ServerTypes, LinkTypes, AgentTypes

-----------------------------------------------------------------------------
(* What the shared pieces of the actions write. *)

\* The values the program starts from and sends are well typed.
LEMMA ValueTypes ==
    /\ NotLoaded \in [Commands -> Statuses]
    /\ Idle \in Requests
    /\ Hello \in Frames
    /\ <<>> \in Seq(Frames) /\ <<Hello>> \in Seq(Frames) /\ <<>> \in Seq(Commands)
    /\ \A op \in {"cancel", "pull", "ack", "result"}, c \in Commands \cup {NoCmd}, v \in Verdicts :
         Request(op, c, v) \in Requests
    /\ \A t \in {"ack", "result"}, c \in Commands \cup {NoCmd}, v \in Verdicts : Frame(t, c, v) \in Frames
  BY DEF NotLoaded, Statuses, Idle, Requests, Hello, Frame, Frames, Verdicts, Request

LEMMA StageType ==
    ASSUME NEW r \in Requests, NEW stage \in {"idle", "sent", "loaded", "done"}
    PROVE  [r EXCEPT !.stage = stage] \in Requests
  BY DEF Requests

LEMMA RowsType ==
    ASSUME status \in [Commands -> Statuses], NEW rows
    PROVE  Rows(rows) \in [Commands -> Statuses]
  BY DEF Rows, Statuses

LEMMA DeliverType ==
    ASSUME TypeOK, NEW x \in Sessions, Deliver(x)
    PROVE  /\ status' \in [Commands -> Statuses]
           /\ expired' \in [Commands -> BOOLEAN]
           /\ deliveries' \in [Commands -> Nat]
           /\ DeliveredRows(x) \in [Commands -> Statuses]
<1>1. status' \in [Commands -> Statuses]
  BY DEF TypeOK, Deliver, Written, Statuses
<1>2. expired' \in [Commands -> BOOLEAN]
  BY DEF TypeOK, Deliver
<1>3. deliveries' \in [Commands -> Nat]
  BY DEF TypeOK, Deliver
<1>4. DeliveredRows(x) \in [Commands -> Statuses]
  BY DEF DeliveredRows, Statuses
<1>5. QED
  BY <1>1, <1>2, <1>3, <1>4

LEMMA SetStatusType ==
    ASSUME TypeOK, NEW x \in Sessions, NEW c, NEW new, c \in Commands => new \in Statuses,
           SetStatus(x, c, new)
    PROVE  /\ status' \in [Commands -> Statuses]
           /\ expired' \in [Commands -> BOOLEAN]
           /\ deliveries' \in [Commands -> Nat]
  BY DEF TypeOK, SetStatus, Written

LEMMA ReplyType ==
    ASSUME TypeOK, NEW s \in Slots, NEW rows \in [Commands -> Statuses], Reply(s, rows)
    PROVE  req' \in [Slots -> Requests] /\ view' \in [Sessions -> [Commands -> Statuses]]
<1>1. [req[s] EXCEPT !.stage = "done"] \in Requests
  BY StageType DEF TypeOK
<1>2. QED
  BY <1>1, ValueTypes DEF TypeOK, Reply

\* A reply changes one session and one request, and the request keeps its content.
LEMMA ReplyFrame ==
    ASSUME TypeOK, NEW s \in Slots, NEW rows, Reply(s, rows)
    PROVE  /\ \A x \in Sessions : view'[x] = view[x] \/ (x = s /\ view'[x] \in {rows, NotLoaded})
           /\ \A t \in Slots : \/ req'[t] \in {req[t], Idle}
                               \/ /\ req'[t].op = req[t].op /\ req'[t].cmd = req[t].cmd
                                  /\ req'[t].verdict = req[t].verdict /\ req'[t].stage = "done"
<1>1. \A t \in Slots : req[t] \in Requests
  BY DEF TypeOK
<1>2. \A x \in Sessions : view'[x] = view[x] \/ (x = s /\ view'[x] \in {rows, NotLoaded})
  BY DEF Reply, TypeOK, Sessions
<1>3. CASE s = hSlot
  BY <1>1, <1>2, <1>3 DEF Reply, TypeOK, Requests
<1>4. CASE s # hSlot
  BY <1>2, <1>4 DEF Reply, TypeOK
<1>5. QED
  BY <1>3, <1>4

\* A reply in full: it is kept for an agent that waits, else the session ends.
LEMMA ReplyEffect ==
    ASSUME TypeOK, NEW s \in Slots, NEW rows, Reply(s, rows)
    PROVE  /\ \A x \in Sessions : x # s => view'[x] = view[x]
           /\ \A t \in Slots : t # s => req'[t] = req[t]
           /\ s = hSlot => /\ req'[s].op = req[s].op /\ req'[s].stage = "done"
                           /\ view'[s] = rows
           /\ s # hSlot => req'[s] = Idle /\ view'[s] = NotLoaded
<1>1. req[s] \in Requests /\ s \in Sessions
  BY DEF TypeOK, Sessions
<1>2. CASE s = hSlot
  BY <1>1, <1>2 DEF Reply, TypeOK, Requests
<1>3. CASE s # hSlot
  BY <1>1, <1>3 DEF Reply, TypeOK
<1>4. QED
  BY <1>2, <1>3

LEMMA AnsweredType ==
    ASSUME TypeOK, Answered
    PROVE  /\ req' \in [Slots -> Requests] /\ view' \in [Sessions -> [Commands -> Statuses]]
           /\ hSlot' \in Slots \cup {NoSlot} /\ hRetried' \in BOOLEAN
  BY ValueTypes DEF TypeOK, Answered

LEMMA ForgetType ==
    ASSUME TypeOK, Forget
    PROVE  /\ req' \in [Slots -> Requests] /\ view' \in [Sessions -> [Commands -> Statuses]]
           /\ hSlot' \in Slots \cup {NoSlot}
  BY ValueTypes DEF TypeOK, Forget

LEMMA SendType ==
    ASSUME TypeOK, NEW m \in Frames, Send(m)
    PROVE  up' \in [Conns -> Seq(Frames)]
<1>1. CASE cConn \in Conns
  <2>1. Append(up[cConn], m) \in Seq(Frames)
    BY <1>1 DEF TypeOK
  <2>2. QED
    BY <1>1, <2>1 DEF TypeOK, Send
<1>2. CASE cConn \notin Conns
  BY <1>2 DEF TypeOK, Send
<1>3. QED
  BY <1>1, <1>2

LEMMA CountType ==
    ASSUME TypeOK, NEW c \in Commands \cup {NoCmd}
    PROVE  [dispatches EXCEPT ![c] = @ + 1] \in [Commands -> Nat]
<1>1. CASE c \in Commands
  BY <1>1 DEF TypeOK
<1>2. CASE c \notin Commands
  BY <1>2 DEF TypeOK
<1>3. QED
  BY <1>1, <1>2

LEMMA HSendType ==
    ASSUME TypeOK, NEW s \in Slots, NEW r \in Requests, HSend(s, r)
    PROVE  req' \in [Slots -> Requests] /\ hSlot' \in Slots \cup {NoSlot}
  BY DEF TypeOK, HSend

LEMMA DecideType ==
    ASSUME TypeOK, NEW s \in Slots, NEW seen \in Statuses
    PROVE  Decide(s, seen) \in Statuses
  BY DEF TypeOK, Decide, Requests, Verdicts, Statuses, Terminal

-----------------------------------------------------------------------------
(* Type correctness. *)

LEMMA TypeInit == Init => TypeOK
  <1> SUFFICES ASSUME Init PROVE TypeOK
  OBVIOUS
<1>1. /\ status \in [Commands -> Statuses]
      /\ expired \in [Commands -> BOOLEAN]
      /\ deliveries \in [Commands -> Nat]
      /\ dispatches \in [Commands -> Nat]
      /\ asked \in SUBSET Commands
  BY DEF Init, Statuses
<1>2. /\ view \in [Sessions -> [Commands -> Statuses]]
      /\ req \in [Slots -> Requests]
      /\ wsMsg \in [Conns -> Frames]
      /\ down \in [Conns -> Seq(Commands)]
      /\ up \in [Conns -> Seq(Frames)]
  BY ValueTypes DEF Init
<1>3. QED
  BY <1>1, <1>2 DEF Init, TypeOK, Verdicts

\* A group of variables an action leaves alone stays well typed.
LEMMA TypesKept ==
    ASSUME TypeOK
    PROVE  /\ UNCHANGED <<tableVars, dispatches, asked, faults>> => TableTypes'
           /\ UNCHANGED serverVars => ServerTypes'
           /\ UNCHANGED linkVars => LinkTypes'
           /\ UNCHANGED <<cVars, hVars>> => AgentTypes'
<1>1. UNCHANGED <<tableVars, dispatches, asked, faults>> => TableTypes'
  BY DEF TypeOK
<1>2. UNCHANGED serverVars => ServerTypes'
  BY DEF TypeOK
<1>3. UNCHANGED linkVars => LinkTypes'
  BY DEF TypeOK
<1>4. UNCHANGED <<cVars, hVars>> => AgentTypes'
  BY DEF TypeOK
<1>5. QED
  BY <1>1, <1>2, <1>3, <1>4

LEMMA TypeStep == TypeOK /\ [Next]_vars => TypeOK'
<1> SUFFICES ASSUME TypeOK, [Next]_vars PROVE TypeOK'
  OBVIOUS
<1> USE ValueTypes
<1>1. ASSUME NEW c \in Commands, Create(c) PROVE TypeOK'
  BY <1>1 DEF TypeOK, Create, Statuses
<1>2. ASSUME NEW c \in Commands, ExpireLease(c) PROVE TypeOK'
  BY <1>2 DEF TypeOK, ExpireLease
<1>3. ASSUME NEW s \in Slots, NEW c \in Commands, Cancel(s, c) PROVE TypeOK'
  BY <1>3 DEF TypeOK, Cancel, Verdicts
<1>4. ASSUME NEW s \in Slots, HttpLoad(s) PROVE TypeOK'
  <2>1. [req[s] EXCEPT !.stage = "loaded"] \in Requests
    BY StageType DEF TypeOK
  <2>2. view' \in [Sessions -> [Commands -> Statuses]]
    BY <1>4, RowsType DEF TypeOK, HttpLoad, Sessions
  <2>3. QED
    <3>1. TableTypes'
      BY <1>4, TypesKept DEF HttpLoad
    <3>2. ServerTypes'
      BY <1>4, <2>1, <2>2 DEF TypeOK, HttpLoad
    <3>3. LinkTypes'
      BY <1>4, TypesKept DEF HttpLoad
    <3>4. AgentTypes'
      BY <1>4, TypesKept DEF HttpLoad
    <3> HIDE DEF TableTypes, ServerTypes, LinkTypes, AgentTypes
    <3>5. QED
      BY <3>1, <3>2, <3>3, <3>4 DEF TypeOK
<1>5. ASSUME NEW s \in Slots, PullCommit(s) PROVE TypeOK'
  <2>1. /\ status' \in [Commands -> Statuses]
        /\ expired' \in [Commands -> BOOLEAN]
        /\ deliveries' \in [Commands -> Nat]
        /\ DeliveredRows(s) \in [Commands -> Statuses]
    BY <1>5, DeliverType DEF PullCommit, Sessions
  <2>2. req' \in [Slots -> Requests] /\ view' \in [Sessions -> [Commands -> Statuses]]
    BY <1>5, <2>1, ReplyType DEF PullCommit
  <2>3. QED
    <3>1. TableTypes'
      BY <1>5, <2>1, <2>2 DEF TypeOK, PullCommit
    <3>2. ServerTypes'
      BY <1>5, <2>1, <2>2 DEF TypeOK, PullCommit
    <3>3. LinkTypes'
      BY <1>5, TypesKept DEF PullCommit
    <3>4. AgentTypes'
      BY <1>5, TypesKept DEF PullCommit
    <3> HIDE DEF TableTypes, ServerTypes, LinkTypes, AgentTypes
    <3>5. QED
      BY <3>1, <3>2, <3>3, <3>4 DEF TypeOK
<1>6. ASSUME NEW s \in Slots, CommandCommit(s) PROVE TypeOK'
  <2> DEFINE c == req[s].cmd
             new == Decide(s, view[s][c])
  <2>1. view[s] \in [Commands -> Statuses]
    BY DEF TypeOK, Sessions
  <2>2. c \in Commands => new \in Statuses
    BY <2>1, DecideType
  <2>3. /\ status' \in [Commands -> Statuses]
        /\ expired' \in [Commands -> BOOLEAN]
        /\ deliveries' \in [Commands -> Nat]
    BY <1>6, <2>2, SetStatusType DEF CommandCommit, Sessions
  <2>4. [view[s] EXCEPT ![c] = new] \in [Commands -> Statuses]
    BY <2>1, <2>2
  <2>5. req' \in [Slots -> Requests] /\ view' \in [Sessions -> [Commands -> Statuses]]
    BY <1>6, <2>4, ReplyType DEF CommandCommit
  <2>6. QED
    <3>1. TableTypes'
      BY <1>6, <2>3, <2>5 DEF TypeOK, CommandCommit
    <3>2. ServerTypes'
      BY <1>6, <2>3, <2>5 DEF TypeOK, CommandCommit
    <3>3. LinkTypes'
      BY <1>6, TypesKept DEF CommandCommit
    <3>4. AgentTypes'
      BY <1>6, TypesKept DEF CommandCommit
    <3> HIDE DEF TableTypes, ServerTypes, LinkTypes, AgentTypes
    <3>5. QED
      BY <3>1, <3>2, <3>3, <3>4 DEF TypeOK
<1>7. ASSUME NEW s \in Slots, DropRequest(s) PROVE TypeOK'
  BY <1>7 DEF TypeOK, DropRequest
<1>8. ASSUME NEW w \in Conns, WsPoll(w) PROVE TypeOK'
  BY <1>8, RowsType DEF TypeOK, WsPoll, Sessions
<1>9. ASSUME NEW w \in Conns, WsDeliver(w) PROVE TypeOK'
  <2>1. TableTypes'
    BY <1>9, DeliverType DEF TypeOK, WsDeliver, Sessions, Loaded
  <2>2. ServerTypes'
    BY <1>9, DeliverType DEF TypeOK, WsDeliver, Sessions, Loaded
  <2>3. LinkTypes'
    BY <1>9, TypesKept DEF WsDeliver
  <2>4. AgentTypes'
    BY <1>9, TypesKept DEF WsDeliver
  <2> HIDE DEF TableTypes, ServerTypes, LinkTypes, AgentTypes
  <2>5. QED
    BY <2>1, <2>2, <2>3, <2>4 DEF TypeOK
<1>10. ASSUME NEW w \in Conns, WsSend(w) PROVE TypeOK'
  <2>1. PICK c \in wsOut[w] :
          /\ wsOut' = [wsOut EXCEPT ![w] = @ \ {c}]
          /\ wsPc' = [wsPc EXCEPT ![w] = IF wsOut[w] = {c} THEN "wait" ELSE "send"]
          /\ down' = IF w \in cut THEN down ELSE [down EXCEPT ![w] = Append(@, c)]
    BY <1>10 DEF WsSend
  <2>2. c \in Commands /\ down[w] \in Seq(Commands)
    BY <2>1 DEF TypeOK
  <2>3. down' \in [Conns -> Seq(Commands)]
    BY <2>1, <2>2 DEF TypeOK
  <2>4. wsOut' \in [Conns -> SUBSET Commands]
    BY <2>1 DEF TypeOK
  <2>5. wsPc' \in [Conns -> {"closed", "poll", "loaded", "send", "wait", "handle"}]
    BY <2>1 DEF TypeOK
  <2>6. UNCHANGED <<tableVars, dispatches, asked, view, req, wsMsg, cut, up, cVars, hVars, faults>>
    BY <1>10 DEF WsSend
  <2>7. TableTypes' /\ AgentTypes'
    BY <2>6, TypesKept
  <2>8. ServerTypes' /\ LinkTypes'
    BY <2>3, <2>4, <2>5, <2>6 DEF TypeOK
  <2> HIDE DEF TableTypes, ServerTypes, LinkTypes, AgentTypes
  <2>9. QED
    BY <2>7, <2>8 DEF TypeOK
<1>11. ASSUME NEW w \in Conns, WsReceive(w) PROVE TypeOK'
  <2>1. Head(up[w]) \in Frames /\ Tail(up[w]) \in Seq(Frames)
    BY <1>11 DEF TypeOK, WsReceive
  <2>2. up' \in [Conns -> Seq(Frames)] /\ wsMsg' \in [Conns -> Frames]
    BY <1>11, <2>1 DEF TypeOK, WsReceive
  <2> DEFINE c == Head(up[w]).cmd
             loaded == [view EXCEPT ![w][c] = status[c]]
  <2>3. loaded \in [Sessions -> [Commands -> Statuses]]
    BY DEF TypeOK, Sessions
  <2>4. view' \in [Sessions -> [Commands -> Statuses]]
    <3>1. CASE Head(up[w]).type = "hello"
      BY <1>11, <3>1, ValueTypes DEF TypeOK, WsReceive
    <3>2. CASE Head(up[w]).type # "hello"
      <4>1. view' = view \/ view' = loaded
        BY <1>11, <3>2 DEF WsReceive
      <4>2. QED
        BY <2>3, <4>1 DEF TypeOK
    <3>3. QED
      BY <3>1, <3>2
  <2>5. wsPc' \in [Conns -> {"closed", "poll", "loaded", "send", "wait", "handle"}]
    BY <1>11 DEF TypeOK, WsReceive
  <2>6. QED
    <3>1. TableTypes'
      BY <1>11, TypesKept DEF WsReceive
    <3>2. ServerTypes'
      BY <1>11, <2>2, <2>4, <2>5 DEF TypeOK, WsReceive
    <3>3. LinkTypes'
      BY <1>11, <2>2, <2>4, <2>5 DEF TypeOK, WsReceive
    <3>4. AgentTypes'
      BY <1>11, TypesKept DEF WsReceive
    <3> HIDE DEF TableTypes, ServerTypes, LinkTypes, AgentTypes
    <3>5. QED
      BY <3>1, <3>2, <3>3, <3>4 DEF TypeOK
<1>12. ASSUME NEW w \in Conns, WsHandle(w) PROVE TypeOK'
  <2> DEFINE c == wsMsg[w].cmd
             new == IF view[w][c] \in Terminal THEN view[w][c]
                    ELSE IF wsMsg[w].type = "ack" THEN "RUNNING" ELSE wsMsg[w].verdict
  <2>1. new \in Statuses
    BY DEF TypeOK, Frames, Verdicts, Statuses, Terminal
  <2>2. /\ status' \in [Commands -> Statuses]
        /\ expired' \in [Commands -> BOOLEAN]
        /\ deliveries' \in [Commands -> Nat]
    BY <1>12, <2>1, SetStatusType DEF WsHandle, Sessions
  <2>3. QED
    <3>1. TableTypes'
      BY <1>12, <2>2 DEF TypeOK, WsHandle
    <3>2. ServerTypes'
      BY <1>12, <2>2 DEF TypeOK, WsHandle
    <3>3. LinkTypes'
      BY <1>12, TypesKept DEF WsHandle
    <3>4. AgentTypes'
      BY <1>12, TypesKept DEF WsHandle
    <3> HIDE DEF TableTypes, ServerTypes, LinkTypes, AgentTypes
    <3>5. QED
      BY <3>1, <3>2, <3>3, <3>4 DEF TypeOK
<1>13. ASSUME NEW w \in Conns, WsTimeout(w) PROVE TypeOK'
  BY <1>13 DEF TypeOK, WsTimeout, Sessions
<1>14. ASSUME NEW w \in Conns, WsClose(w) PROVE TypeOK'
  <2>1. up' \in [Conns -> Seq(Frames)]
    BY <1>14 DEF TypeOK, WsClose
  <2>2. QED
    <3>1. TableTypes'
      BY <1>14, TypesKept DEF WsClose
    <3>2. ServerTypes'
      BY <1>14, <2>1 DEF TypeOK, WsClose
    <3>3. LinkTypes'
      BY <1>14, <2>1 DEF TypeOK, WsClose
    <3>4. AgentTypes'
      BY <1>14, TypesKept DEF WsClose
    <3> HIDE DEF TableTypes, ServerTypes, LinkTypes, AgentTypes
    <3>5. QED
      BY <3>1, <3>2, <3>3, <3>4 DEF TypeOK
<1>15. ASSUME NEW w \in Conns, CConnect(w) PROVE TypeOK'
  BY <1>15 DEF TypeOK, CConnect
<1>16. ASSUME CReceive PROVE TypeOK'
  <2>1. cConn \in Conns
    BY <1>16 DEF TypeOK, CReceive
  <2>2. Head(down[cConn]) \in Commands /\ Tail(down[cConn]) \in Seq(Commands)
    BY <1>16, <2>1 DEF TypeOK, CReceive
  <2>3. Frame("ack", Head(down[cConn]), "FAILED") \in Frames
    BY <2>2 DEF Frame, Frames, Verdicts
  <2>4. up' \in [Conns -> Seq(Frames)]
    BY <1>16, <2>3, SendType DEF CReceive
  <2>5. down' \in [Conns -> Seq(Commands)]
    BY <1>16, <2>2 DEF TypeOK, CReceive
  <2>6. QED
    BY <1>16, <2>1, <2>2, <2>4, <2>5 DEF TypeOK, CReceive
<1>17. ASSUME CDispatch PROVE TypeOK'
  <2>1. dispatches' \in [Commands -> Nat]
    BY <1>17, CountType DEF TypeOK, CDispatch
  <2>2. QED
    BY <1>17, <2>1 DEF TypeOK, CDispatch
<1>18. ASSUME CReport PROVE TypeOK'
  BY <1>18, SendType DEF TypeOK, CReport, Verdicts
<1>19. ASSUME CReceiveFails PROVE TypeOK'
  BY <1>19 DEF TypeOK, CReceiveFails
<1>20. ASSUME CSendFails PROVE TypeOK'
  BY <1>20 DEF TypeOK, CSendFails, Verdicts
<1>21. ASSUME NEW s \in Slots, HPull(s) PROVE TypeOK'
  BY <1>21, HSendType DEF TypeOK, HPull, Verdicts
<1>22. ASSUME HPulled PROVE TypeOK'
  BY <1>22, AnsweredType DEF TypeOK, HPulled, Loaded
<1>23. ASSUME NEW s \in Slots, HAck(s) PROVE TypeOK'
  BY <1>23, HSendType DEF TypeOK, HAck, Verdicts
<1>24. ASSUME HAcked PROVE TypeOK'
  BY <1>24, AnsweredType DEF TypeOK, HAcked
<1>25. ASSUME HDispatch PROVE TypeOK'
  <2>1. dispatches' \in [Commands -> Nat]
    BY <1>25, CountType DEF TypeOK, HDispatch
  <2>2. QED
    BY <1>25, <2>1 DEF TypeOK, HDispatch
<1>26. ASSUME NEW s \in Slots, HReport(s) PROVE TypeOK'
  BY <1>26, HSendType DEF TypeOK, HReport, Verdicts
<1>27. ASSUME HReported PROVE TypeOK'
  BY <1>27, AnsweredType DEF TypeOK, HReported, Verdicts
<1>27a. ASSUME NEW s \in Slots, HResend(s) PROVE TypeOK'
  <2>1. Request(hPc, hCmd, IF hPc = "result" THEN hVerdict ELSE "FAILED") \in Requests
    BY <1>27a DEF HResend, TypeOK, Verdicts
  <2>2. QED
    BY <1>27a, <2>1, HSendType DEF TypeOK, HResend
<1>28. ASSUME HTimeout PROVE TypeOK'
  <2>1. TableTypes'
    BY <1>28, ForgetType DEF TypeOK, HTimeout, RequestFails, GiveUp, Fault
  <2>2. ServerTypes'
    BY <1>28, ForgetType DEF TypeOK, HTimeout, RequestFails, GiveUp, Fault
  <2>3. LinkTypes'
    BY <1>28, TypesKept DEF HTimeout
  <2>4. AgentTypes'
    <3>1. UNCHANGED <<cVars, hQueue, blocked>>
      BY <1>28 DEF HTimeout
    <3>2. /\ hPc' \in {"idle", hPc} /\ hCmd' \in {NoCmd, hCmd}
          /\ hVerdict' \in {"FAILED", hVerdict} /\ hRetried' \in {TRUE, FALSE, hRetried}
      BY <1>28 DEF HTimeout, RequestFails, GiveUp
    <3>3. hSlot' \in Slots \cup {NoSlot}
      BY <1>28, ForgetType DEF HTimeout
    <3>4. hRetried' \in BOOLEAN /\ blocked' \in BOOLEAN /\ wsFlag' \in BOOLEAN
      BY <3>1, <3>2 DEF TypeOK
    <3>5. hVerdict' \in Verdicts /\ cVerdict' \in Verdicts
      BY <3>1, <3>2 DEF TypeOK, Verdicts
    <3>6. /\ hPc' \in {"idle", "pull", "ack", "dispatch", "report", "result"}
          /\ hCmd' \in Commands \cup {NoCmd} /\ hQueue' \in SUBSET Commands
      BY <3>1, <3>2 DEF TypeOK
    <3>7. /\ cPc' \in {"offline", "recv", "dispatch", "report", "dead"}
          /\ cConn' \in Conns \cup {NoConn} /\ cCmd' \in Commands \cup {NoCmd}
          /\ cPc' \in {"recv", "dispatch", "report"} => cConn' \in Conns
      BY <3>1 DEF TypeOK
    <3>8. QED
      BY <3>3, <3>4, <3>5, <3>6, <3>7
  <2> HIDE DEF TableTypes, ServerTypes, LinkTypes, AgentTypes
  <2>5. QED
    BY <2>1, <2>2, <2>3, <2>4 DEF TypeOK
<1>29. ASSUME NEW w \in Conns, Cut(w) PROVE TypeOK'
  <2>1. down' \in [Conns -> Seq(Commands)] /\ up' \in [Conns -> Seq(Frames)]
    <3>1. PICK d \in {<<>>, down[w]} : down' = [down EXCEPT ![w] = d]
      BY <1>29 DEF Cut
    <3>2. PICK u \in {<<>>, up[w]} : up' = [up EXCEPT ![w] = u]
      BY <1>29 DEF Cut
    <3>3. d \in Seq(Commands) /\ u \in Seq(Frames)
      <4>1. down[w] \in Seq(Commands) /\ up[w] \in Seq(Frames)
        BY DEF TypeOK
      <4>2. QED
        BY <3>1, <3>2, <4>1
    <3>4. QED
      BY <3>1, <3>2, <3>3 DEF TypeOK
  <2>2. cut' \in SUBSET Conns
    BY <1>29 DEF TypeOK, Cut
  <2>3. faults' \in Nat
    BY <1>29 DEF TypeOK, Cut, Fault
  <2>4. QED
    <3>1. TableTypes'
      BY <1>29, <2>1, <2>2, <2>3 DEF TypeOK, Cut
    <3>2. ServerTypes'
      BY <1>29, TypesKept DEF Cut
    <3>3. LinkTypes'
      BY <1>29, <2>1, <2>2, <2>3 DEF TypeOK, Cut
    <3>4. AgentTypes'
      BY <1>29, TypesKept DEF Cut
    <3> HIDE DEF TableTypes, ServerTypes, LinkTypes, AgentTypes
    <3>5. QED
      BY <3>1, <3>2, <3>3, <3>4 DEF TypeOK
<1>30. ASSUME AgentRestart PROVE TypeOK'
  <2>1. /\ req' \in [Slots -> Requests] /\ view' \in [Sessions -> [Commands -> Statuses]]
        /\ hSlot' \in Slots \cup {NoSlot}
    BY <1>30, ForgetType DEF AgentRestart
  <2>2. cut' \in SUBSET Conns
    BY <1>30 DEF TypeOK, AgentRestart
  <2>3. faults' \in Nat
    BY <1>30 DEF TypeOK, AgentRestart, Fault
  <2>4. QED
    BY <1>30, <2>1, <2>2, <2>3 DEF TypeOK, AgentRestart, GiveUp, Verdicts
<1>31. ASSUME ServerRestart PROVE TypeOK'
  <2>1. TableTypes'
    BY <1>31 DEF TypeOK, ServerRestart, RequestFails, GiveUp, Fault
  <2>2. ServerTypes'
    BY <1>31 DEF TypeOK, ServerRestart, RequestFails, GiveUp, Fault
  <2>3. LinkTypes'
    BY <1>31 DEF TypeOK, ServerRestart, RequestFails, GiveUp, Fault
  <2>4. AgentTypes'
    <3>1. UNCHANGED <<cVars, hQueue, blocked>>
      BY <1>31 DEF ServerRestart
    <3>2. /\ hPc' \in {"idle", hPc} /\ hCmd' \in {NoCmd, hCmd}
          /\ hVerdict' \in {"FAILED", hVerdict} /\ hRetried' \in {TRUE, FALSE, hRetried}
      BY <1>31 DEF ServerRestart, RequestFails, GiveUp
    <3>3. hSlot' \in Slots \cup {NoSlot}
      BY <1>31 DEF ServerRestart
    <3>4. hRetried' \in BOOLEAN /\ blocked' \in BOOLEAN /\ wsFlag' \in BOOLEAN
      BY <3>1, <3>2 DEF TypeOK
    <3>5. hVerdict' \in Verdicts /\ cVerdict' \in Verdicts
      BY <3>1, <3>2 DEF TypeOK, Verdicts
    <3>6. /\ hPc' \in {"idle", "pull", "ack", "dispatch", "report", "result"}
          /\ hCmd' \in Commands \cup {NoCmd} /\ hQueue' \in SUBSET Commands
      BY <3>1, <3>2 DEF TypeOK
    <3>7. /\ cPc' \in {"offline", "recv", "dispatch", "report", "dead"}
          /\ cConn' \in Conns \cup {NoConn} /\ cCmd' \in Commands \cup {NoCmd}
          /\ cPc' \in {"recv", "dispatch", "report"} => cConn' \in Conns
      BY <3>1 DEF TypeOK
    <3>8. QED
      BY <3>3, <3>4, <3>5, <3>6, <3>7
  <2> HIDE DEF TableTypes, ServerTypes, LinkTypes, AgentTypes
  <2>5. QED
    BY <2>1, <2>2, <2>3, <2>4 DEF TypeOK
<1>32. CASE UNCHANGED vars
  BY <1>32 DEF TypeOK
<1>32a. ASSUME CycleBlocked \/ CycleCleared PROVE TypeOK'
  <2>1. faults' \in Nat
    BY <1>32a DEF TypeOK, CycleBlocked, CycleCleared, Fault
  <2>1a. blocked' \in BOOLEAN
    BY <1>32a DEF CycleBlocked, CycleCleared
  <2>2. QED
    BY <1>32a, <2>1, <2>1a DEF TypeOK, CycleBlocked, CycleCleared
<1>33. QED
  BY <1>1, <1>2, <1>3, <1>4, <1>5, <1>6, <1>7, <1>8, <1>9, <1>10, <1>11, <1>12, <1>13, <1>14, <1>15, <1>16, <1>17, <1>18, <1>19, <1>20, <1>21, <1>22, <1>23, <1>24, <1>25, <1>26, <1>27, <1>27a, <1>28, <1>29, <1>30, <1>31, <1>32, <1>32a DEF Next, Server, CommandThread, ServiceLoop, User, Environment

\* The variables hold what their declarations say in every reachable state.
THEOREM TypeCorrect == Spec => []TypeOK
  BY TypeInit, TypeStep, PTL DEF Spec

-----------------------------------------------------------------------------
(* Elements of the frame queues. *)

LEMMA AppendElements ==
    ASSUME NEW S, NEW q \in Seq(S), NEW e \in S, NEW i \in DOMAIN Append(q, e)
    PROVE  \/ Append(q, e)[i] = e
           \/ i \in DOMAIN q /\ Append(q, e)[i] = q[i]
  OBVIOUS

LEMMA TailElements ==
    ASSUME NEW S, NEW q \in Seq(S), q # <<>>, NEW i \in DOMAIN Tail(q)
    PROVE  i + 1 \in DOMAIN q /\ Tail(q)[i] = q[i + 1]
  OBVIOUS

LEMMA HeadElement ==
    ASSUME NEW S, NEW q \in Seq(S), q # <<>>
    PROVE  1 \in DOMAIN q /\ Head(q) = q[1]
  OBVIOUS

-----------------------------------------------------------------------------
(* Names are created: nothing works on a row that does not exist. *)

\* A row, once inserted, stays.
LEMMA CreatedGrows == TypeOK /\ [Next]_vars => Created \subseteq Created'
<1> SUFFICES ASSUME TypeOK, [Next]_vars PROVE Created \subseteq Created'
  OBVIOUS
<1> USE DEF Created
<1>1. ASSUME UNCHANGED status PROVE Created \subseteq Created'
  BY <1>1
<1>2. ASSUME NEW c \in Commands, Create(c) PROVE Created \subseteq Created'
  BY <1>2 DEF Create, TypeOK
<1>3. ASSUME NEW x \in Sessions, Deliver(x) PROVE Created \subseteq Created'
  BY <1>3 DEF Deliver, Written
<1>4. ASSUME NEW s \in Slots, CommandCommit(s) PROVE Created \subseteq Created'
  BY <1>4 DEF CommandCommit, SetStatus, Written, Decide, TypeOK, Requests, Verdicts
<1>5. ASSUME NEW w \in Conns, WsHandle(w) PROVE Created \subseteq Created'
  BY <1>5 DEF WsHandle, SetStatus, Written, TypeOK, Frames, Verdicts, Terminal
<1>6. QED
  BY <1>1, <1>2, <1>3, <1>4, <1>5
     DEF Next, Server, CommandThread, ServiceLoop, User, Environment, Sessions,
         ExpireLease, Cancel, HttpLoad, PullCommit, DropRequest, WsPoll, WsDeliver, WsSend, WsReceive, WsTimeout, WsClose, CConnect, CReceive, CDispatch, CReport, CReceiveFails, CSendFails, HPull, HPulled, HAck, HAcked, HDispatch, HReport, HReported, HResend, HTimeout, CycleBlocked, CycleCleared, Cut, AgentRestart, ServerRestart

LEMMA NamesInit == Init => NamesAreCreated
  BY DEF Init, NamesAreCreated, NotLoaded, Loaded, Idle, Hello, Frame

LEMMA NamesStep == TypeOK /\ NamesAreCreated /\ [Next]_vars => NamesAreCreated'
<1> SUFFICES ASSUME TypeOK, NamesAreCreated, [Next]_vars PROVE NamesAreCreated'
  OBVIOUS
<1>0. Created \subseteq Created'
  BY CreatedGrows
<1> USE <1>0 DEF NamesAreCreated
<1>1. ASSUME NEW c \in Commands, Create(c) PROVE NamesAreCreated'
  BY <1>1 DEF Create, TypeOK, Loaded
<1>2. ASSUME NEW c \in Commands, ExpireLease(c) PROVE NamesAreCreated'
  BY <1>2 DEF ExpireLease, TypeOK, Loaded
<1>3. ASSUME NEW s \in Slots, NEW c \in Commands, Cancel(s, c) PROVE NamesAreCreated'
  BY <1>3 DEF Cancel, TypeOK, Loaded, Request, Requests, Idle, Sessions, Created
<1>4. ASSUME NEW s \in Slots, HttpLoad(s) PROVE NamesAreCreated'
  BY <1>4 DEF HttpLoad, TypeOK, Loaded, Rows, Requests, Sessions, Batch, Due, Created
<1>5. ASSUME NEW s \in Slots, PullCommit(s) PROVE NamesAreCreated'
  <2>1. \A x \in Sessions : Loaded(x)' \subseteq Created
    BY <1>5, ReplyFrame DEF PullCommit, Loaded, DeliveredRows, NotLoaded, Sessions
  <2>2. \A t \in Slots : req'[t].op \in {"cancel", "ack", "result"} => req'[t].cmd \in Created
    BY <1>5, ReplyFrame DEF PullCommit, Idle
  <2>3. QED
    BY <1>5, <2>1, <2>2 DEF PullCommit
<1>6. ASSUME NEW s \in Slots, CommandCommit(s) PROVE NamesAreCreated'
  <2> DEFINE c == req[s].cmd
             new == Decide(s, view[s][c])
  <2>1. c \in Created
    BY <1>6 DEF CommandCommit
  <2>2. \A x \in Sessions : Loaded(x)' \subseteq Created
    <3>1. \A d \in Commands : view[s][d] # "ABSENT" => d \in Created
      BY DEF Loaded, Sessions
    <3>2. \A d \in Commands : [view[s] EXCEPT ![c] = new][d] # "ABSENT" => d \in Created
      BY <2>1, <3>1 DEF TypeOK, Sessions
    <3>3. QED
      <4> DEFINE rows == [view[s] EXCEPT ![c] = new]
      <4>1. Reply(s, rows)
        BY <1>6 DEF CommandCommit
      <4> HIDE DEF rows
      <4>2. \A x \in Sessions : view'[x] \in {view[x], rows, NotLoaded}
        BY <4>1, ReplyFrame
      <4>3. \A d \in Commands : rows[d] # "ABSENT" => d \in Created
        BY <3>2 DEF rows
      <4>4. QED
        BY <4>2, <4>3 DEF Loaded, NotLoaded
  <2>3. \A t \in Slots : req'[t].op \in {"cancel", "ack", "result"} => req'[t].cmd \in Created
    BY <1>6, ReplyFrame DEF CommandCommit, Idle
  <2>4. QED
    BY <1>6, <2>2, <2>3 DEF CommandCommit
<1>7. ASSUME NEW s \in Slots, DropRequest(s) PROVE NamesAreCreated'
  BY <1>7 DEF DropRequest, TypeOK, Loaded, Requests, Idle, Sessions
<1>8. ASSUME NEW w \in Conns, WsPoll(w) PROVE NamesAreCreated'
  BY <1>8 DEF WsPoll, TypeOK, Loaded, Rows, Requests, Sessions, Batch, Due, Created
<1>9. ASSUME NEW w \in Conns, WsDeliver(w) PROVE NamesAreCreated'
  BY <1>9 DEF WsDeliver, TypeOK, Loaded, Rows, DeliveredRows, Requests, Sessions
<1>10. ASSUME NEW w \in Conns, WsSend(w) PROVE NamesAreCreated'
  <2>1. PICK c \in wsOut[w] :
            /\ wsOut' = [wsOut EXCEPT ![w] = @ \ {c}]
            /\ down' = IF w \in cut THEN down ELSE [down EXCEPT ![w] = Append(@, c)]
    BY <1>10 DEF WsSend
  <2>2. c \in Commands /\ c \in Created /\ down[w] \in Seq(Commands)
    BY <2>1 DEF TypeOK
  <2>3. \A i \in DOMAIN Append(down[w], c) : Append(down[w], c)[i] \in Created
    BY <2>2, AppendElements
  <2>4. \A v \in Conns : \A i \in DOMAIN down'[v] : down'[v][i] \in Created
    BY <2>1, <2>3 DEF TypeOK
  <2>5. \A v \in Conns : wsOut'[v] \subseteq Created
    BY <2>1 DEF TypeOK
  <2>6. \A v \in Conns : wsPc'[v] = "handle" => wsPc[v] = "handle"
    BY <1>10 DEF WsSend, TypeOK
  <2>7. QED
    BY <1>10, <2>4, <2>5, <2>6 DEF WsSend, Loaded
<1>11. ASSUME NEW w \in Conns, WsReceive(w) PROVE NamesAreCreated'
  <2> DEFINE m == Head(up[w])
             c == m.cmd
             loaded == [view EXCEPT ![w][c] = status[c]]
  <2>1. up[w] \in Seq(Frames) /\ up[w] # <<>>
    BY <1>11 DEF WsReceive, TypeOK
  <2>2. m.type # "hello" => c \in Created
    BY <2>1, HeadElement
  <2>3. \A i \in DOMAIN Tail(up[w]) : Tail(up[w])[i].type # "hello" => Tail(up[w])[i].cmd \in Created
    BY <2>1, TailElements
  <2>4. \A v \in Conns : \A i \in DOMAIN up'[v] : up'[v][i].type # "hello" => up'[v][i].cmd \in Created
    BY <1>11, <2>3 DEF WsReceive, TypeOK
  <2>5. \A x \in Sessions : Loaded(x)' \subseteq Created
    <3>1. CASE m.type = "hello"
      <4>1. view' = [view EXCEPT ![w] = NotLoaded]
        BY <1>11, <3>1 DEF WsReceive
      <4>2. QED
        BY <4>1 DEF Loaded, NotLoaded, TypeOK, Sessions
    <3>2. CASE m.type # "hello"
      <4>1. view' = view \/ view' = loaded
        BY <1>11, <3>2 DEF WsReceive
      <4>2. \A x \in Sessions, d \in Commands : loaded[x][d] # "ABSENT" => d = c \/ view[x][d] # "ABSENT"
        BY DEF TypeOK, Sessions
      <4>3. QED
        BY <2>2, <3>2, <4>1, <4>2 DEF Loaded
    <3>3. QED
      BY <3>1, <3>2
  <2>6. \A v \in Conns : wsPc'[v] = "handle" => wsMsg'[v].cmd \in Created
    BY <1>11, <2>2 DEF WsReceive, TypeOK
  <2>7. QED
    BY <1>11, <2>4, <2>5, <2>6 DEF WsReceive
<1>12. ASSUME NEW w \in Conns, WsHandle(w) PROVE NamesAreCreated'
  BY <1>12 DEF WsHandle, TypeOK, Loaded, NotLoaded, Requests, Frame, Frames, Hello, Sessions
<1>13. ASSUME NEW w \in Conns, WsTimeout(w) PROVE NamesAreCreated'
  BY <1>13 DEF WsTimeout, TypeOK, Loaded, NotLoaded, Requests, Sessions
<1>14. ASSUME NEW w \in Conns, WsClose(w) PROVE NamesAreCreated'
  BY <1>14 DEF WsClose, TypeOK, Loaded, NotLoaded, Requests, Sessions
<1>15. ASSUME NEW w \in Conns, CConnect(w) PROVE NamesAreCreated'
  BY <1>15 DEF CConnect, TypeOK, Loaded, Requests, Frame, Frames, Hello, Sessions
<1>16. ASSUME CReceive PROVE NamesAreCreated'
  <2> DEFINE c == Head(down[cConn])
             ack == Frame("ack", c, "FAILED")
  <2>1. /\ cConn \in Conns /\ down[cConn] \in Seq(Commands) /\ down[cConn] # <<>>
        /\ up[cConn] \in Seq(Frames)
    BY <1>16 DEF CReceive, TypeOK
  <2>2. c \in Created
    BY <2>1, HeadElement
  <2>3. ack \in Frames /\ ack.cmd = c
    BY <2>2, ValueTypes DEF Created, Verdicts, Frame
  <2>4. \A i \in DOMAIN Tail(down[cConn]) : Tail(down[cConn])[i] \in Created
    BY <2>1, TailElements
  <2>5. \A v \in Conns : \A i \in DOMAIN down'[v] : down'[v][i] \in Created
    BY <1>16, <2>4 DEF CReceive, TypeOK
  <2>6. \A i \in DOMAIN Append(up[cConn], ack) :
          Append(up[cConn], ack)[i].type # "hello" => Append(up[cConn], ack)[i].cmd \in Created
    BY <2>1, <2>2, <2>3, AppendElements
  <2>7. \A v \in Conns : \A i \in DOMAIN up'[v] : up'[v][i].type # "hello" => up'[v][i].cmd \in Created
    BY <1>16, <2>6 DEF CReceive, Send, TypeOK
  <2>8. QED
    BY <1>16, <2>2, <2>5, <2>7 DEF CReceive, Loaded
<1>17. ASSUME CDispatch PROVE NamesAreCreated'
  BY <1>17 DEF CDispatch, TypeOK, Loaded
<1>18. ASSUME CReport PROVE NamesAreCreated'
  BY <1>18 DEF CReport, TypeOK, Loaded, Frame, Frames, Send
<1>19. ASSUME CReceiveFails PROVE NamesAreCreated'
  BY <1>19 DEF CReceiveFails, TypeOK, Loaded
<1>20. ASSUME CSendFails PROVE NamesAreCreated'
  BY <1>20 DEF CSendFails, TypeOK, Loaded
<1>21. ASSUME NEW s \in Slots, HPull(s) PROVE NamesAreCreated'
  BY <1>21 DEF HPull, TypeOK, Loaded, Request, Requests, Idle, HSend, Sessions
<1>22. ASSUME HPulled PROVE NamesAreCreated'
  BY <1>22 DEF HPulled, TypeOK, Loaded, Rows, NotLoaded, Idle, Answered, Sessions
<1>23. ASSUME NEW s \in Slots, HAck(s) PROVE NamesAreCreated'
  BY <1>23 DEF HAck, TypeOK, Loaded, Request, Requests, Idle, HSend, Sessions
<1>24. ASSUME HAcked PROVE NamesAreCreated'
  BY <1>24 DEF HAcked, TypeOK, Loaded, NotLoaded, Idle, Answered, Sessions
<1>25. ASSUME HDispatch PROVE NamesAreCreated'
  BY <1>25 DEF HDispatch, TypeOK, Loaded
<1>26. ASSUME NEW s \in Slots, HReport(s) PROVE NamesAreCreated'
  BY <1>26 DEF HReport, TypeOK, Loaded, Request, Requests, Idle, HSend, Sessions
<1>27. ASSUME HReported PROVE NamesAreCreated'
  BY <1>27 DEF HReported, TypeOK, Loaded, NotLoaded, Idle, Answered
<1>27a. ASSUME NEW s \in Slots, HResend(s) PROVE NamesAreCreated'
  BY <1>27a DEF HResend, TypeOK, Loaded, Request, Requests, Idle, HSend, Sessions
<1>28. ASSUME HTimeout PROVE NamesAreCreated'
  BY <1>28 DEF HTimeout, TypeOK, Loaded, NotLoaded, Idle, Forget, RequestFails, GiveUp
<1>29. ASSUME NEW w \in Conns, Cut(w) PROVE NamesAreCreated'
  <2>1. \A v \in Conns : down'[v] \in {<<>>, down[v]} /\ up'[v] \in {<<>>, up[v]}
    BY <1>29 DEF Cut, TypeOK
  <2>2. \A v \in Conns : /\ \A i \in DOMAIN down'[v] : down'[v][i] \in Created
                         /\ \A i \in DOMAIN up'[v] : up'[v][i].type # "hello" => up'[v][i].cmd \in Created
    BY <2>1
  <2>3. UNCHANGED <<serverVars, cVars, hVars>>
    BY <1>29 DEF Cut
  <2>4. QED
    BY <2>2, <2>3 DEF Loaded
<1>30. ASSUME AgentRestart PROVE NamesAreCreated'
  BY <1>30 DEF AgentRestart, TypeOK, Loaded, NotLoaded, Requests, Idle, Forget, GiveUp
<1>31. ASSUME ServerRestart PROVE NamesAreCreated'
  BY <1>31 DEF ServerRestart, TypeOK, Loaded, NotLoaded, Requests, Idle, Frame, Frames, Hello, Sessions, RequestFails, GiveUp
<1>32. CASE UNCHANGED vars
  BY <1>32 DEF Loaded
<1>32a. ASSUME CycleBlocked \/ CycleCleared PROVE NamesAreCreated'
  BY <1>32a DEF Loaded, CycleBlocked, CycleCleared
<1>33. QED
  BY <1>1, <1>2, <1>3, <1>4, <1>5, <1>6, <1>7, <1>8, <1>9, <1>10, <1>11, <1>12, <1>13, <1>14, <1>15, <1>16, <1>17, <1>18, <1>19, <1>20, <1>21, <1>22, <1>23, <1>24, <1>25, <1>26, <1>27, <1>27a, <1>28, <1>29, <1>30, <1>31, <1>32, <1>32a DEF Next, Server, CommandThread, ServiceLoop, User, Environment

-----------------------------------------------------------------------------
(* Success is evidence: whoever claims it, claims it of a dispatched command. *)

\* The agent's counts only grow.
LEMMA DispatchedGrows == TypeOK /\ [Next]_vars => Dispatched \subseteq Dispatched'
<1> SUFFICES ASSUME TypeOK, [Next]_vars PROVE Dispatched \subseteq Dispatched'
  OBVIOUS
<1>1. ASSUME UNCHANGED dispatches PROVE Dispatched \subseteq Dispatched'
  BY <1>1 DEF Dispatched
<1>2. ASSUME NEW c, dispatches' = [dispatches EXCEPT ![c] = @ + 1] PROVE Dispatched \subseteq Dispatched'
  BY <1>2 DEF Dispatched, TypeOK
<1>3. QED
  BY <1>1, <1>2
     DEF Next, Server, CommandThread, ServiceLoop, User, Environment,
         Create, ExpireLease, Cancel, HttpLoad, PullCommit, CommandCommit, DropRequest,
         WsPoll, WsDeliver, WsSend, WsReceive, WsHandle, WsTimeout, WsClose,
         CConnect, CReceive, CDispatch, CReport, CReceiveFails, CSendFails,
         HPull, HPulled, HAck, HAcked, HDispatch, HReport, HReported, HResend,
         HTimeout, CycleBlocked, CycleCleared, Cut, AgentRestart, ServerRestart

LEMMA EvidenceInit == Init => SuccessIsEvidence
  BY DEF Init, SuccessIsEvidence, NotLoaded, Idle, Hello, Frame

\* Delivering rows never makes one successful.
LEMMA DeliverKeepsSuccess ==
    ASSUME NEW x \in Sessions, Deliver(x)
    PROVE  \A c \in Commands : status'[c] = "SUCCESS" => status[c] = "SUCCESS"
  BY DEF Deliver, Written

LEMMA EvidenceStep ==
    TypeOK /\ NamesAreCreated /\ SuccessIsEvidence /\ [Next]_vars => SuccessIsEvidence'
<1> SUFFICES ASSUME TypeOK, NamesAreCreated, SuccessIsEvidence, [Next]_vars
             PROVE  SuccessIsEvidence'
  OBVIOUS
<1>0. Dispatched \subseteq Dispatched'
  BY DispatchedGrows
<1> USE <1>0 DEF SuccessIsEvidence
<1>1. ASSUME NEW c \in Commands, Create(c) PROVE SuccessIsEvidence'
  BY <1>1 DEF Create, TypeOK, Sessions
<1>2. ASSUME NEW c \in Commands, ExpireLease(c) PROVE SuccessIsEvidence'
  BY <1>2 DEF ExpireLease, TypeOK, Sessions
<1>3. ASSUME NEW s \in Slots, NEW c \in Commands, Cancel(s, c) PROVE SuccessIsEvidence'
  BY <1>3 DEF Cancel, TypeOK, Request, Requests, Idle, Sessions
<1>4. ASSUME NEW s \in Slots, HttpLoad(s) PROVE SuccessIsEvidence'
  BY <1>4 DEF HttpLoad, TypeOK, Requests, Rows, Sessions
<1>5. ASSUME NEW s \in Slots, PullCommit(s) PROVE SuccessIsEvidence'
  <2>1. \A c \in Commands : status'[c] = "SUCCESS" => c \in Dispatched
    BY <1>5, DeliverKeepsSuccess DEF PullCommit, Sessions
  <2>2. \A x \in Sessions, c \in Commands : view'[x][c] = "SUCCESS" => c \in Dispatched
    BY <1>5, ReplyFrame DEF PullCommit, DeliveredRows, NotLoaded
  <2>3. \A t \in Slots : req'[t].verdict = "SUCCESS" => req'[t].cmd \in Dispatched
    BY <1>5, ReplyFrame DEF PullCommit, Idle
  <2>4. QED
    BY <1>5, <2>1, <2>2, <2>3 DEF PullCommit, Dispatched
<1>6. ASSUME NEW s \in Slots, CommandCommit(s) PROVE SuccessIsEvidence'
  <2> DEFINE c == req[s].cmd
             new == Decide(s, view[s][c])
             rows == [view[s] EXCEPT ![c] = new]
  <2>1. c \in Commands
    BY <1>6 DEF CommandCommit, Created, NamesAreCreated
  <2>2. new = "SUCCESS" => c \in Dispatched
    BY <2>1 DEF Decide, Sessions
  <2>3. \A d \in Commands : status'[d] = "SUCCESS" => d \in Dispatched
    BY <1>6, <2>1, <2>2 DEF CommandCommit, SetStatus, Written, TypeOK
  <2>4. \A d \in Commands : rows[d] = "SUCCESS" => d \in Dispatched
    BY <2>1, <2>2 DEF TypeOK, Sessions
  <2>5. Reply(s, rows)
    BY <1>6 DEF CommandCommit
  <2> HIDE DEF rows
  <2>6. \A x \in Sessions, d \in Commands : view'[x][d] = "SUCCESS" => d \in Dispatched
    BY <2>4, <2>5, ReplyFrame DEF NotLoaded
  <2>7. \A t \in Slots : req'[t].verdict = "SUCCESS" => req'[t].cmd \in Dispatched
    BY <2>5, ReplyFrame DEF Idle
  <2>8. QED
    BY <1>6, <2>3, <2>6, <2>7 DEF CommandCommit, Dispatched
<1>7. ASSUME NEW s \in Slots, DropRequest(s) PROVE SuccessIsEvidence'
  BY <1>7 DEF DropRequest, TypeOK, Requests, Idle, Sessions
<1>8. ASSUME NEW w \in Conns, WsPoll(w) PROVE SuccessIsEvidence'
  BY <1>8 DEF WsPoll, TypeOK, Requests, Rows, Sessions
<1>9. ASSUME NEW w \in Conns, WsDeliver(w) PROVE SuccessIsEvidence'
  <2>1. \A c \in Commands : status'[c] = "SUCCESS" => c \in Dispatched
    BY <1>9, DeliverKeepsSuccess DEF WsDeliver, Sessions
  <2>2. QED
    BY <1>9, <2>1 DEF WsDeliver, DeliveredRows, TypeOK, Dispatched
<1>10. ASSUME NEW w \in Conns, WsSend(w) PROVE SuccessIsEvidence'
  BY <1>10 DEF WsSend, TypeOK, Requests, Sessions
<1>11. ASSUME NEW w \in Conns, WsReceive(w) PROVE SuccessIsEvidence'
  <2> DEFINE m == Head(up[w])
             c == m.cmd
             loaded == [view EXCEPT ![w][c] = status[c]]
  <2>1. up[w] \in Seq(Frames) /\ up[w] # <<>>
    BY <1>11 DEF WsReceive, TypeOK
  <2>2. m.verdict = "SUCCESS" => c \in Dispatched
    BY <2>1, HeadElement
  <2>3. \A i \in DOMAIN Tail(up[w]) : Tail(up[w])[i].verdict = "SUCCESS" => Tail(up[w])[i].cmd \in Dispatched
    BY <2>1, TailElements
  <2>4. \A v \in Conns : \A i \in DOMAIN up'[v] : up'[v][i].verdict = "SUCCESS" => up'[v][i].cmd \in Dispatched
    BY <1>11, <2>3 DEF WsReceive, TypeOK
  <2>5. \A v \in Conns : wsMsg'[v].verdict = "SUCCESS" => wsMsg'[v].cmd \in Dispatched
    BY <1>11, <2>2 DEF WsReceive, TypeOK
  <2>6. \A x \in Sessions, d \in Commands : view'[x][d] = "SUCCESS" => d \in Dispatched
    <3> DEFINE forgotten == [view EXCEPT ![w] = NotLoaded]
    <3>1. view' \in {view, loaded, forgotten}
      BY <1>11 DEF WsReceive
    <3>2. \A x \in Sessions, d \in Commands : loaded[x][d] = "SUCCESS" => d \in Dispatched
      BY DEF TypeOK, Sessions
    <3>3. \A x \in Sessions, d \in Commands : forgotten[x][d] = "SUCCESS" => d \in Dispatched
      BY DEF NotLoaded, TypeOK, Sessions
    <3> HIDE DEF loaded, forgotten
    <3>4. QED
      BY <3>1, <3>2, <3>3
  <2>7. QED
    BY <1>11, <2>4, <2>5, <2>6 DEF WsReceive, Dispatched
<1>12. ASSUME NEW w \in Conns, WsHandle(w) PROVE SuccessIsEvidence'
  <2> DEFINE c == wsMsg[w].cmd
             new == IF view[w][c] \in Terminal THEN view[w][c]
                    ELSE IF wsMsg[w].type = "ack" THEN "RUNNING" ELSE wsMsg[w].verdict
  <2>1. c \in Commands
    BY <1>12 DEF WsHandle, Created, NamesAreCreated
  <2>2. new = "SUCCESS" => c \in Dispatched
    BY <2>1 DEF Sessions
  <2>3. \A d \in Commands : status'[d] = "SUCCESS" => d \in Dispatched
    BY <1>12, <2>1, <2>2 DEF WsHandle, SetStatus, Written, TypeOK
  <2>4. QED
    BY <1>12, <2>3 DEF WsHandle, NotLoaded, Hello, Frame, TypeOK, Dispatched
<1>13. ASSUME NEW w \in Conns, WsTimeout(w) PROVE SuccessIsEvidence'
  BY <1>13 DEF WsTimeout, TypeOK, NotLoaded, Requests, Sessions
<1>14. ASSUME NEW w \in Conns, WsClose(w) PROVE SuccessIsEvidence'
  BY <1>14 DEF WsClose, TypeOK, NotLoaded, Requests, Sessions
<1>15. ASSUME NEW w \in Conns, CConnect(w) PROVE SuccessIsEvidence'
  BY <1>15 DEF CConnect, TypeOK, Requests, Frame, Frames, Hello, Sessions
<1>16. ASSUME CReceive PROVE SuccessIsEvidence'
  <2> DEFINE c == Head(down[cConn])
             ack == Frame("ack", c, "FAILED")
  <2>1. /\ cConn \in Conns /\ down[cConn] \in Seq(Commands) /\ down[cConn] # <<>>
        /\ up[cConn] \in Seq(Frames)
    BY <1>16 DEF CReceive, TypeOK
  <2>2. ack \in Frames /\ ack.verdict = "FAILED"
    <3>1. c \in Commands
      BY <2>1
    <3>2. QED
      BY <3>1 DEF Verdicts, Frame, Frames
  <2>3. \A v \in Conns : \A i \in DOMAIN up'[v] : up'[v][i].verdict = "SUCCESS" => up'[v][i].cmd \in Dispatched
    <3>1. \A i \in DOMAIN Append(up[cConn], ack) :
            Append(up[cConn], ack)[i].verdict = "SUCCESS" => Append(up[cConn], ack)[i].cmd \in Dispatched
      BY <2>1, <2>2, AppendElements
    <3>2. QED
      BY <1>16, <3>1 DEF CReceive, Send, TypeOK
  <2>4. QED
    BY <1>16, <2>3 DEF CReceive, Dispatched
<1>17. ASSUME CDispatch PROVE SuccessIsEvidence'
  <2>1. cCmd \in Commands /\ dispatches'[cCmd] > 0
    BY <1>17 DEF CDispatch, Created, NamesAreCreated, TypeOK
  <2>2. QED
    BY <1>17, <2>1 DEF CDispatch, Dispatched
<1>18. ASSUME CReport PROVE SuccessIsEvidence'
  BY <1>18 DEF CReport, TypeOK, Frame, Frames, Sessions, Send
<1>19. ASSUME CReceiveFails PROVE SuccessIsEvidence'
  BY <1>19 DEF CReceiveFails, TypeOK, Sessions
<1>20. ASSUME CSendFails PROVE SuccessIsEvidence'
  BY <1>20 DEF CSendFails, TypeOK, Sessions
<1>21. ASSUME NEW s \in Slots, HPull(s) PROVE SuccessIsEvidence'
  BY <1>21 DEF HPull, TypeOK, Request, Idle, HSend, Sessions
<1>22. ASSUME HPulled PROVE SuccessIsEvidence'
  BY <1>22 DEF HPulled, TypeOK, NotLoaded, Idle, Answered, Rows, Sessions
<1>23. ASSUME NEW s \in Slots, HAck(s) PROVE SuccessIsEvidence'
  BY <1>23 DEF HAck, TypeOK, Request, Idle, HSend, Sessions
<1>24. ASSUME HAcked PROVE SuccessIsEvidence'
  BY <1>24 DEF HAcked, TypeOK, NotLoaded, Idle, Answered, Sessions
<1>25. ASSUME HDispatch PROVE SuccessIsEvidence'
  <2>1. hCmd \in Commands /\ dispatches'[hCmd] > 0
    BY <1>25 DEF HDispatch, Created, NamesAreCreated, TypeOK
  <2>2. QED
    BY <1>25, <2>1 DEF HDispatch, Dispatched
<1>26. ASSUME NEW s \in Slots, HReport(s) PROVE SuccessIsEvidence'
  BY <1>26 DEF HReport, TypeOK, Request, Idle, HSend, Sessions
<1>27. ASSUME HReported PROVE SuccessIsEvidence'
  BY <1>27 DEF HReported, TypeOK, NotLoaded, Idle, Answered, Sessions
<1>27a. ASSUME NEW s \in Slots, HResend(s) PROVE SuccessIsEvidence'
  BY <1>27a DEF HResend, TypeOK, Request, Requests, Idle, HSend, Sessions
<1>28. ASSUME HTimeout PROVE SuccessIsEvidence'
  BY <1>28 DEF HTimeout, TypeOK, NotLoaded, Idle, Forget, RequestFails, GiveUp, Sessions
<1>29. ASSUME NEW w \in Conns, Cut(w) PROVE SuccessIsEvidence'
  BY <1>29 DEF Cut, TypeOK, Sessions
<1>30. ASSUME AgentRestart PROVE SuccessIsEvidence'
  BY <1>30 DEF AgentRestart, TypeOK, NotLoaded, Requests, Idle, Forget, GiveUp, Sessions
<1>31. ASSUME ServerRestart PROVE SuccessIsEvidence'
  BY <1>31 DEF ServerRestart, TypeOK, NotLoaded, Requests, Idle, Frame, Frames, Hello, Sessions, RequestFails, GiveUp
<1>32. CASE UNCHANGED vars
  BY <1>32 DEF Dispatched
<1>32a. ASSUME CycleBlocked \/ CycleCleared PROVE SuccessIsEvidence'
  BY <1>32a DEF Dispatched, CycleBlocked, CycleCleared
<1>33. QED
  BY <1>1, <1>2, <1>3, <1>4, <1>5, <1>6, <1>7, <1>8, <1>9, <1>10, <1>11, <1>12, <1>13, <1>14, <1>15, <1>16, <1>17, <1>18, <1>19, <1>20, <1>21, <1>22, <1>23, <1>24, <1>25, <1>26, <1>27, <1>27a, <1>28, <1>29, <1>30, <1>31, <1>32, <1>32a DEF Next, Server, CommandThread, ServiceLoop, User, Environment

-----------------------------------------------------------------------------
(* Sessions hold what they load. *)

LEMMA SessionsInit == Init => SessionsHoldWhatTheyLoad
  BY DEF Init, SessionsHoldWhatTheyLoad, Idle

LEMMA SessionsStep ==
    TypeOK /\ NamesAreCreated /\ SessionsHoldWhatTheyLoad /\ [Next]_vars => SessionsHoldWhatTheyLoad'
<1> SUFFICES ASSUME TypeOK, NamesAreCreated, SessionsHoldWhatTheyLoad, [Next]_vars
             PROVE  SessionsHoldWhatTheyLoad'
  OBVIOUS
<1> USE ChannelAssumption DEF SessionsHoldWhatTheyLoad, Deliverable
<1>1. ASSUME NEW c \in Commands, Create(c) PROVE SessionsHoldWhatTheyLoad'
  BY <1>1 DEF Create, TypeOK, Loaded, Sessions
<1>2. ASSUME NEW c \in Commands, ExpireLease(c) PROVE SessionsHoldWhatTheyLoad'
  BY <1>2 DEF ExpireLease, TypeOK, Loaded, Sessions
<1>3. ASSUME NEW s \in Slots, NEW c \in Commands, Cancel(s, c) PROVE SessionsHoldWhatTheyLoad'
  BY <1>3 DEF Cancel, TypeOK, Request, Idle, Loaded, Sessions
<1>4. ASSUME NEW s \in Slots, HttpLoad(s) PROVE SessionsHoldWhatTheyLoad'
  <2>1. /\ \A x \in Sessions : x # s => view'[x] = view[x]
        /\ view'[s] = Rows(IF req[s].op = "pull" THEN Batch ELSE {req[s].cmd})
    BY <1>4 DEF HttpLoad, TypeOK, Sessions
  <2>2. /\ \A t \in Slots : t # s => req'[t] = req[t]
        /\ req'[s].op = req[s].op /\ req'[s].cmd = req[s].cmd /\ req[s].stage = "sent"
    BY <1>4 DEF HttpLoad, TypeOK, Requests
  <2>3. req[s].op = "pull" => \A c \in Commands : view'[s][c] \in Deliverable
    BY <2>1 DEF Rows, Batch, Due, Deliverable
  <2>4. req[s].op \in {"cancel", "ack", "result"} => req'[s].cmd \in Loaded(s)'
    BY <2>1, <2>2 DEF Rows, Loaded, NamesAreCreated, Created
  <2>5. QED
    BY <1>4, <2>1, <2>2, <2>3, <2>4 DEF HttpLoad, Loaded, Sessions
<1>5. ASSUME NEW s \in Slots, PullCommit(s) PROVE SessionsHoldWhatTheyLoad'
  <2>1. Reply(s, DeliveredRows(s)) /\ req[s].op = "pull"
    BY <1>5 DEF PullCommit
  <2>2. \A c \in Commands : DeliveredRows(s)[c] \in Deliverable
    BY DEF DeliveredRows
  <2>3. hSlot # NoSlot => hSlot \in Slots
    BY DEF TypeOK
  <2>4. hSlot' # NoSlot => hPc' \in {"pull", "ack", "result"} /\ req'[hSlot'].op = hPc'
    BY <1>5, <2>1, <2>3, ReplyEffect DEF PullCommit
  <2>5. UNCHANGED <<wsPc, wsMsg>> /\ \A w \in Conns : view'[w] = view[w]
    BY <1>5, <2>1, ReplyEffect DEF PullCommit, Sessions
  <2>6. \A t \in Slots :
          /\ req'[t].op = "pull" /\ req'[t].stage \in {"loaded", "done"}
               => \A c \in Commands : view'[t][c] \in Deliverable
          /\ req'[t].op \in {"cancel", "ack", "result"} /\ req'[t].stage = "loaded"
               => req'[t].cmd \in Loaded(t)'
    BY <2>1, <2>2, ReplyEffect DEF Loaded, Sessions, Idle
  <2>7. QED
    BY <2>4, <2>5, <2>6 DEF Loaded
<1>6. ASSUME NEW s \in Slots, CommandCommit(s) PROVE SessionsHoldWhatTheyLoad'
  <2>1. PICK rows : Reply(s, rows)
    BY <1>6 DEF CommandCommit
  <2>2. req[s].op # "pull"
    BY <1>6 DEF CommandCommit
  <2>3. hSlot # NoSlot => hSlot \in Slots
    BY DEF TypeOK
  <2>4. hSlot' # NoSlot => hPc' \in {"pull", "ack", "result"} /\ req'[hSlot'].op = hPc'
    BY <1>6, <2>1, <2>3, ReplyEffect DEF CommandCommit
  <2>5. UNCHANGED <<wsPc, wsMsg>> /\ \A w \in Conns : view'[w] = view[w]
    BY <1>6, <2>1, ReplyEffect DEF CommandCommit, Sessions
  <2>6. \A t \in Slots :
          /\ req'[t].op = "pull" /\ req'[t].stage \in {"loaded", "done"}
               => \A c \in Commands : view'[t][c] \in Deliverable
          /\ req'[t].op \in {"cancel", "ack", "result"} /\ req'[t].stage = "loaded"
               => req'[t].cmd \in Loaded(t)'
    BY <2>1, <2>2, ReplyEffect DEF Loaded, Sessions, Idle
  <2>7. QED
    BY <2>4, <2>5, <2>6 DEF Loaded
<1>7. ASSUME NEW s \in Slots, DropRequest(s) PROVE SessionsHoldWhatTheyLoad'
  BY <1>7 DEF DropRequest, TypeOK, Idle, Loaded, Sessions
<1>8. ASSUME NEW w \in Conns, WsPoll(w) PROVE SessionsHoldWhatTheyLoad'
  BY <1>8 DEF WsPoll, TypeOK, Rows, Batch, Due, Loaded, Sessions
<1>9. ASSUME NEW w \in Conns, WsDeliver(w) PROVE SessionsHoldWhatTheyLoad'
  BY <1>9 DEF WsDeliver, TypeOK, Rows, DeliveredRows, Loaded, Sessions
<1>10. ASSUME NEW w \in Conns, WsSend(w) PROVE SessionsHoldWhatTheyLoad'
  BY <1>10 DEF WsSend, TypeOK, Loaded, Sessions
<1>11. ASSUME NEW w \in Conns, WsReceive(w) PROVE SessionsHoldWhatTheyLoad'
  <2> DEFINE m == Head(up[w])
             c == m.cmd
             loaded == [view EXCEPT ![w][c] = status[c]]
  <2>1. up[w] \in Seq(Frames) /\ up[w] # <<>>
    BY <1>11 DEF WsReceive, TypeOK
  <2>2. m.type # "hello" => c \in Created
    BY <2>1, HeadElement DEF NamesAreCreated
  <2>3. \A x \in Sessions : x # w => view'[x] = view[x]
    <3>1. view' \in {view, loaded, [view EXCEPT ![w] = NotLoaded]}
      BY <1>11 DEF WsReceive
    <3>2. \A x \in Sessions : x # w => loaded[x] = view[x]
      BY DEF TypeOK
    <3>3. QED
      BY <3>1, <3>2 DEF TypeOK
  <2>4. /\ \A v \in Conns : v # w => wsPc'[v] = wsPc[v] /\ wsMsg'[v] = wsMsg[v]
        /\ m.type = "hello" => wsPc'[w] = "poll"
        /\ m.type # "hello" => wsPc'[w] = "handle" /\ wsMsg'[w] = m
    BY <1>11 DEF WsReceive, TypeOK
  <2>5. m.type # "hello" => c \in Loaded(w)'
    <3>1. SUFFICES ASSUME m.type # "hello" PROVE c \in Commands /\ view'[w][c] # "ABSENT"
      BY DEF Loaded
    <3>2. c \in Commands /\ status[c] # "ABSENT"
      BY <2>2, <3>1 DEF Created
    <3>3. loaded[w][c] = status[c]
      BY <3>2 DEF TypeOK, Sessions
    <3>4. view' = IF view[w][c] # "ABSENT" THEN view ELSE loaded
      BY <1>11, <3>1 DEF WsReceive
    <3>5. QED
      BY <3>2, <3>3, <3>4
  <2>6. QED
    BY <1>11, <2>3, <2>4, <2>5 DEF WsReceive, Loaded, Sessions
<1>12. ASSUME NEW w \in Conns, WsHandle(w) PROVE SessionsHoldWhatTheyLoad'
  BY <1>12 DEF WsHandle, TypeOK, NotLoaded, Loaded, Sessions
<1>13. ASSUME NEW w \in Conns, WsTimeout(w) PROVE SessionsHoldWhatTheyLoad'
  BY <1>13 DEF WsTimeout, TypeOK, NotLoaded, Loaded, Sessions
<1>14. ASSUME NEW w \in Conns, WsClose(w) PROVE SessionsHoldWhatTheyLoad'
  BY <1>14 DEF WsClose, TypeOK, NotLoaded, Loaded, Sessions
<1>15. ASSUME NEW w \in Conns, CConnect(w) PROVE SessionsHoldWhatTheyLoad'
  BY <1>15 DEF CConnect, TypeOK, Loaded, Sessions
<1>16. ASSUME CReceive PROVE SessionsHoldWhatTheyLoad'
  BY <1>16 DEF CReceive, TypeOK, Loaded, Sessions
<1>17. ASSUME CDispatch PROVE SessionsHoldWhatTheyLoad'
  BY <1>17 DEF CDispatch, TypeOK, Loaded, Sessions
<1>18. ASSUME CReport PROVE SessionsHoldWhatTheyLoad'
  BY <1>18 DEF CReport, TypeOK, Loaded, Sessions
<1>19. ASSUME CReceiveFails PROVE SessionsHoldWhatTheyLoad'
  BY <1>19 DEF CReceiveFails, TypeOK, Loaded, Sessions
<1>20. ASSUME CSendFails PROVE SessionsHoldWhatTheyLoad'
  BY <1>20 DEF CSendFails, TypeOK, Loaded, Sessions
<1>21. ASSUME NEW s \in Slots, HPull(s) PROVE SessionsHoldWhatTheyLoad'
  BY <1>21 DEF HPull, TypeOK, Request, Idle, HSend, Loaded, Sessions
<1>22. ASSUME HPulled PROVE SessionsHoldWhatTheyLoad'
  BY <1>22 DEF HPulled, TypeOK, NotLoaded, Idle, Answered, Rows, Loaded, Sessions
<1>23. ASSUME NEW s \in Slots, HAck(s) PROVE SessionsHoldWhatTheyLoad'
  BY <1>23 DEF HAck, TypeOK, Request, Idle, HSend, Loaded, Sessions
<1>24. ASSUME HAcked PROVE SessionsHoldWhatTheyLoad'
  BY <1>24 DEF HAcked, TypeOK, NotLoaded, Idle, Answered, Loaded, Sessions
<1>25. ASSUME HDispatch PROVE SessionsHoldWhatTheyLoad'
  BY <1>25 DEF HDispatch, TypeOK, Loaded, Sessions
<1>26. ASSUME NEW s \in Slots, HReport(s) PROVE SessionsHoldWhatTheyLoad'
  BY <1>26 DEF HReport, TypeOK, Request, Idle, HSend, Loaded, Sessions
<1>27. ASSUME HReported PROVE SessionsHoldWhatTheyLoad'
  BY <1>27 DEF HReported, TypeOK, NotLoaded, Idle, Answered, Loaded, Sessions
<1>27a. ASSUME NEW s \in Slots, HResend(s) PROVE SessionsHoldWhatTheyLoad'
  BY <1>27a DEF HResend, TypeOK, Request, Idle, HSend, Loaded, Sessions
<1>28. ASSUME HTimeout PROVE SessionsHoldWhatTheyLoad'
  BY <1>28 DEF HTimeout, TypeOK, NotLoaded, Idle, Forget, RequestFails, GiveUp, Loaded, Sessions
<1>29. ASSUME NEW w \in Conns, Cut(w) PROVE SessionsHoldWhatTheyLoad'
  BY <1>29 DEF Cut, TypeOK, Loaded, Sessions
<1>30. ASSUME AgentRestart PROVE SessionsHoldWhatTheyLoad'
  BY <1>30 DEF AgentRestart, TypeOK, NotLoaded, Idle, Forget, GiveUp, Loaded, Sessions
<1>31. ASSUME ServerRestart PROVE SessionsHoldWhatTheyLoad'
  BY <1>31 DEF ServerRestart, TypeOK, NotLoaded, Idle, Loaded, Sessions, RequestFails, GiveUp
<1>32. CASE UNCHANGED vars
  BY <1>32 DEF Loaded
<1>32a. ASSUME CycleBlocked \/ CycleCleared PROVE SessionsHoldWhatTheyLoad'
  BY <1>32a DEF Loaded, CycleBlocked, CycleCleared
<1>33. QED
  BY <1>1, <1>2, <1>3, <1>4, <1>5, <1>6, <1>7, <1>8, <1>9, <1>10, <1>11, <1>12, <1>13, <1>14, <1>15, <1>16, <1>17, <1>18, <1>19, <1>20, <1>21, <1>22, <1>23, <1>24, <1>25, <1>26, <1>27, <1>27a, <1>28, <1>29, <1>30, <1>31, <1>32, <1>32a DEF Next, Server, CommandThread, ServiceLoop, User, Environment

-----------------------------------------------------------------------------
(* The safety theorems. *)

\* The inductive invariant holds in every reachable state.
THEOREM InvariantHolds == Spec => []ChannelInv
<1>1. Init => ChannelInv
  BY TypeInit, NamesInit, EvidenceInit, SessionsInit DEF ChannelInv
<1>2. ChannelInv /\ [Next]_vars => ChannelInv'
  BY TypeStep, NamesStep, EvidenceStep, SessionsStep DEF ChannelInv
<1>3. QED
  BY <1>1, <1>2, PTL DEF Spec

\* A command the server records as successful has been dispatched by the agent.
THEOREM SuccessIsDispatched == Spec => []SuccessWasDispatched
<1>1. ChannelInv => SuccessWasDispatched
  BY DEF ChannelInv, SuccessIsEvidence, SuccessWasDispatched, Dispatched
<1>2. QED
  BY <1>1, InvariantHolds, PTL

-----------------------------------------------------------------------------
(* One dispatch per delivery. *)

\* How often a command stands in a queue of frames is a number.
LEMMA PlacesCount ==
    ASSUME NEW q \in Seq(Commands), NEW c
    PROVE  IsFiniteSet(Places(q, c)) /\ Cardinality(Places(q, c)) \in Nat
<1>1. DOMAIN q = 1..Len(q) /\ Len(q) \in Nat
  OBVIOUS
<1>2. IsFiniteSet(1..Len(q))
  BY <1>1, FS_Interval
<1>3. Places(q, c) \in SUBSET (1..Len(q))
  BY <1>1 DEF Places
<1>4. IsFiniteSet(Places(q, c))
  BY <1>2, <1>3, FS_Subset
<1>5. QED
  BY <1>4, FS_CardinalityType

LEMMA PlacesEmpty ==
    ASSUME NEW c
    PROVE  Cardinality(Places(<<>>, c)) = 0
<1>1. Places(<<>>, c) = {}
  BY DEF Places
<1>2. QED
  BY <1>1, FS_EmptySet

\* Appending a frame adds one place to the command it carries.
LEMMA PlacesAppend ==
    ASSUME NEW q \in Seq(Commands), NEW d \in Commands, NEW c
    PROVE  Cardinality(Places(Append(q, d), c)) = Cardinality(Places(q, c)) + Bit(c = d)
<1> DEFINE n == Len(q) + 1
<1>1. /\ DOMAIN q = 1..Len(q) /\ Len(q) \in Nat
      /\ DOMAIN Append(q, d) = 1..n
      /\ Append(q, d)[n] = d
      /\ \A i \in 1..Len(q) : Append(q, d)[i] = q[i]
  OBVIOUS
<1>2. n \notin Places(q, c)
  BY <1>1 DEF Places
<1>3. CASE c = d
  <2>1. Places(Append(q, d), c) = Places(q, c) \cup {n}
    BY <1>1, <1>3 DEF Places
  <2>2. QED
    BY <1>2, <1>3, <2>1, PlacesCount, FS_AddElement DEF Bit
<1>4. CASE c # d
  <2>1. Places(Append(q, d), c) = Places(q, c)
    BY <1>1, <1>4 DEF Places
  <2>2. QED
    BY <1>4, <2>1, PlacesCount DEF Bit
<1>5. QED
  BY <1>3, <1>4

\* Receiving a frame takes one place from the command it carries.
LEMMA PlacesTail ==
    ASSUME NEW q \in Seq(Commands), q # <<>>, NEW c
    PROVE  Cardinality(Places(q, c)) = Cardinality(Places(Tail(q), c)) + Bit(c = Head(q))
<1> DEFINE rest == {i \in Places(q, c) : i # 1}
           f == [i \in Places(Tail(q), c) |-> i + 1]
<1>1. /\ DOMAIN q = 1..Len(q) /\ Len(q) \in Nat /\ Len(q) > 0
      /\ Tail(q) \in Seq(Commands)
      /\ DOMAIN Tail(q) = 1..(Len(q) - 1)
      /\ \A i \in 1..(Len(q) - 1) : Tail(q)[i] = q[i + 1]
      /\ Head(q) = q[1]
  OBVIOUS
<1>2. f \in Bijection(Places(Tail(q), c), rest)
  <2>1. \A i \in Places(Tail(q), c) : i \in 1..(Len(q) - 1) /\ q[i + 1] = c
    BY <1>1 DEF Places
  <2>2. \A j \in rest : /\ j \in 1..Len(q) /\ j # 1 /\ q[j] = c
    BY <1>1 DEF Places
  <2>3. \A i \in Places(Tail(q), c) : f[i] \in rest
    <3>1. SUFFICES ASSUME NEW i \in Places(Tail(q), c) PROVE i + 1 \in rest
      OBVIOUS
    <3>2. i + 1 \in 1..Len(q) /\ i + 1 # 1 /\ q[i + 1] = c
      BY <1>1, <2>1
    <3>3. QED
      BY <1>1, <3>2 DEF Places
  <2>4. \A i, j \in Places(Tail(q), c) : f[i] = f[j] => i = j
    <3>1. SUFFICES ASSUME NEW i \in Places(Tail(q), c), NEW j \in Places(Tail(q), c), i + 1 = j + 1
                   PROVE i = j
      OBVIOUS
    <3>2. i \in Int /\ j \in Int
      BY <1>1, <2>1
    <3>3. QED
      BY <3>1, <3>2
  <2>5. \A j \in rest : \E i \in Places(Tail(q), c) : f[i] = j
    <3>1. SUFFICES ASSUME NEW j \in rest PROVE \E i \in Places(Tail(q), c) : f[i] = j
      OBVIOUS
    <3>2. j - 1 \in 1..(Len(q) - 1) /\ (j - 1) + 1 = j
      BY <1>1, <2>2
    <3>3. Tail(q)[j - 1] = c
      BY <1>1, <2>2, <3>2
    <3>4. j - 1 \in Places(Tail(q), c)
      BY <1>1, <3>2, <3>3 DEF Places
    <3>5. f[j - 1] = j
      BY <3>2, <3>4
    <3>6. QED
      BY <3>4, <3>5
  <2>6. f \in Injection(Places(Tail(q), c), rest)
    BY <2>3, <2>4, Fun_IsInj
  <2>7. f \in Surjection(Places(Tail(q), c), rest)
    BY <2>3, <2>5, Fun_IsSurj
  <2>8. QED
    BY <2>6, <2>7, Fun_IsBij
<1>3. Cardinality(rest) = Cardinality(Places(Tail(q), c)) /\ IsFiniteSet(rest)
  <2>1. ExistsBijection(Places(Tail(q), c), rest)
    BY <1>2, Fun_ExistsBij
  <2>2. IsFiniteSet(Places(Tail(q), c))
    BY <1>1, PlacesCount
  <2>3. QED
    BY <2>1, <2>2, FS_Bijection
<1>4. CASE c = Head(q)
  <2>1. Places(q, c) = rest \cup {1} /\ 1 \notin rest
    BY <1>1, <1>4 DEF Places
  <2>2. Cardinality(rest \cup {1}) = Cardinality(rest) + 1
    BY <1>3, <2>1, FS_AddElement
  <2>3. Bit(c = Head(q)) = 1
    BY <1>4 DEF Bit
  <2> HIDE DEF rest
  <2>4. QED
    BY <1>3, <2>1, <2>2, <2>3
<1>5. CASE c # Head(q)
  <2>1. Places(q, c) = rest
    BY <1>1, <1>5 DEF Places
  <2>2. Bit(c = Head(q)) = 0 /\ Cardinality(Places(Tail(q), c)) \in Nat
    BY <1>1, <1>5, PlacesCount DEF Bit
  <2> HIDE DEF rest
  <2>3. QED
    BY <1>3, <2>1, <2>2
<1>6. QED
  BY <1>4, <1>5

\* What the agent may still dispatch is a number.
LEMMA CopiesAreCounted ==
    ASSUME TypeOK, NEW c \in Commands
    PROVE  OnSocket(c) \in Nat /\ OverHttp(c) \in Nat
<1>1. OnSocket(c) \in Nat
  <2>1. CASE cPc \in {"recv", "dispatch", "report"}
    <3>1. down[cConn] \in Seq(Commands)
      BY <2>1 DEF TypeOK
    <3>2. QED
      BY <3>1, PlacesCount DEF OnSocket, Bit
  <2>2. CASE cPc \notin {"recv", "dispatch", "report"}
    BY <2>2 DEF OnSocket
  <2>3. QED
    BY <2>1, <2>2
<1>2. OverHttp(c) \in Nat
  BY DEF OverHttp, Bit
<1>3. QED
  BY <1>1, <1>2

LEMMA CopiesAreCountedNext ==
    ASSUME TypeOK', NEW c \in Commands
    PROVE  OnSocket(c)' \in Nat /\ OverHttp(c)' \in Nat
<1>1. OnSocket(c)' \in Nat
  <2>1. CASE cPc' \in {"recv", "dispatch", "report"}
    <3>1. down'[cConn'] \in Seq(Commands)
      BY <2>1 DEF TypeOK, Commands
    <3>2. Cardinality(Places(down'[cConn'], c)) \in Nat
      BY <3>1, PlacesCount
    <3>3. Places(down[cConn], c)' = Places(down'[cConn'], c)
      BY DEF Places
    <3>4. QED
      BY <3>2, <3>3 DEF OnSocket, Bit
  <2>2. CASE cPc' \notin {"recv", "dispatch", "report"}
    BY <2>2 DEF OnSocket
  <2>3. QED
    BY <2>1, <2>2
<1>2. OverHttp(c)' \in Nat
  BY DEF OverHttp, Bit
<1>3. QED
  BY <1>1, <1>2

\* Only a handler that is sending holds delivered commands.
LEMMA SendersStep == TypeOK /\ OnlySendersHoldCopies /\ [Next]_vars => OnlySendersHoldCopies'
<1> SUFFICES ASSUME TypeOK, OnlySendersHoldCopies, [Next]_vars PROVE OnlySendersHoldCopies'
  OBVIOUS
<1> USE DEF OnlySendersHoldCopies
<1>1. ASSUME UNCHANGED <<wsPc, wsOut>> PROVE OnlySendersHoldCopies'
  BY <1>1
<1>2. ASSUME NEW w \in Conns, WsPoll(w) PROVE OnlySendersHoldCopies'
  BY <1>2 DEF TypeOK, WsPoll
<1>3. ASSUME NEW w \in Conns, WsDeliver(w) PROVE OnlySendersHoldCopies'
  BY <1>3 DEF TypeOK, WsDeliver, Loaded
<1>4. ASSUME NEW w \in Conns, WsSend(w) PROVE OnlySendersHoldCopies'
  BY <1>4 DEF TypeOK, WsSend
<1>5. ASSUME NEW w \in Conns, WsReceive(w) PROVE OnlySendersHoldCopies'
  BY <1>5 DEF TypeOK, WsReceive
<1>6. ASSUME NEW w \in Conns, WsHandle(w) PROVE OnlySendersHoldCopies'
  BY <1>6 DEF TypeOK, WsHandle
<1>7. ASSUME NEW w \in Conns, WsTimeout(w) PROVE OnlySendersHoldCopies'
  BY <1>7 DEF TypeOK, WsTimeout
<1>8. ASSUME NEW w \in Conns, WsClose(w) PROVE OnlySendersHoldCopies'
  BY <1>8 DEF TypeOK, WsClose
<1>9. ASSUME NEW w \in Conns, CConnect(w) PROVE OnlySendersHoldCopies'
  BY <1>9 DEF TypeOK, CConnect
<1>10. ASSUME ServerRestart PROVE OnlySendersHoldCopies'
  BY <1>10 DEF ServerRestart
<1>11. QED
  BY <1>1, <1>2, <1>3, <1>4, <1>5, <1>6, <1>7, <1>8, <1>9, <1>10
     DEF Next, Server, CommandThread, ServiceLoop, User, Environment,
         Create, ExpireLease, Cancel, HttpLoad, PullCommit, CommandCommit, DropRequest, CReceive, CDispatch, CReport, CReceiveFails, CSendFails, HPull, HPulled, HAck, HAcked, HDispatch, HReport, HReported, HResend, HTimeout, CycleBlocked, CycleCleared, Cut, AgentRestart

\* A step that leaves the socket and the channel thread alone leaves their copies.
LEMMA SocketKept ==
    ASSUME UNCHANGED <<wsOut, down, cPc, cConn, cCmd>>, NEW c
    PROVE  OnSocket(c)' = OnSocket(c)
  BY DEF OnSocket, Places

\* A step that leaves the service loop and its request alone leaves its copies.
LEMMA HttpKept ==
    ASSUME UNCHANGED <<hPc, hSlot, hCmd, hQueue>>, NEW c,
           hSlot # NoSlot => req'[hSlot] = req[hSlot] /\ view'[hSlot] = view[hSlot]
    PROVE  OverHttp(c)' = OverHttp(c)
<1>1. hPc' = hPc /\ hSlot' = hSlot /\ hCmd' = hCmd /\ hQueue' = hQueue
  OBVIOUS
<1>2. CASE hSlot = NoSlot
  BY <1>1, <1>2 DEF OverHttp
<1>3. CASE hSlot # NoSlot
  <2>1. (c \in Loaded(hSlot))' <=> c \in Loaded(hSlot)
    BY <1>1, <1>3 DEF Loaded
  <2>2. (req[hSlot].stage)' = req[hSlot].stage
    BY <1>1, <1>3
  <2>3. QED
    BY <1>1, <1>3, <2>1, <2>2 DEF OverHttp
<1>4. QED
  BY <1>2, <1>3

\* A command is dispatched only as often as it has been delivered, what may still be
\* dispatched included.
LEMMA DeliveredStep ==
    ChannelInv /\ OnlySendersHoldCopies /\ DispatchesAreDelivered /\ [Next]_vars
      => DispatchesAreDelivered'
<1> SUFFICES ASSUME ChannelInv, OnlySendersHoldCopies, DispatchesAreDelivered, [Next]_vars,
                    NEW c \in Commands
             PROVE  (dispatches[c] + OnSocket(c) + OverHttp(c) <= deliveries[c])'
  BY DEF DispatchesAreDelivered
<1> DEFINE Paid == dispatches[c] + OnSocket(c) + OverHttp(c) <= deliveries[c]
<1>0. /\ TypeOK /\ Paid
      /\ dispatches[c] \in Nat /\ deliveries[c] \in Nat
      /\ OnSocket(c) \in Nat /\ OverHttp(c) \in Nat
      /\ hSlot # NoSlot => hSlot \in Slots /\ hSlot \in Sessions /\ req[hSlot].op = hPc
  BY CopiesAreCounted DEF ChannelInv, DispatchesAreDelivered, SessionsHoldWhatTheyLoad, TypeOK, Sessions
<1>0a. TypeOK'
  BY <1>0, TypeStep
<1>0b. OnSocket(c)' \in Nat /\ OverHttp(c)' \in Nat
  BY <1>0a, CopiesAreCountedNext
<1>1. ASSUME NEW d \in Commands, Create(d) PROVE Paid'
  BY <1>1, <1>0, SocketKept, HttpKept DEF Create
<1>2. ASSUME NEW d \in Commands, ExpireLease(d) PROVE Paid'
  BY <1>2, <1>0, SocketKept, HttpKept DEF ExpireLease
<1>3. ASSUME NEW s \in Slots, NEW d \in Commands, Cancel(s, d) PROVE Paid'
  <2>1. OnSocket(c)' = OnSocket(c)
    BY <1>3, SocketKept DEF Cancel
  <2>2. s # hSlot
    BY <1>3, <1>0, ChannelAssumption DEF ChannelInv, SessionsHoldWhatTheyLoad, Cancel, Idle
  <2>3. OverHttp(c)' = OverHttp(c)
    BY <1>3, <1>0, <2>2, HttpKept DEF Cancel, TypeOK
  <2>4. QED
    BY <1>3, <1>0, <2>1, <2>3 DEF Cancel
<1>4. ASSUME NEW s \in Slots, HttpLoad(s) PROVE Paid'
  <2>1. OnSocket(c)' = OnSocket(c)
    BY <1>4, SocketKept DEF HttpLoad
  <2>2. OverHttp(c)' <= OverHttp(c)
    <3>1. CASE s = hSlot
      <4>1. (req[hSlot].stage)' = "loaded"
        BY <1>4, <1>0, <3>1 DEF HttpLoad, TypeOK, Requests
      <4>2. QED
        BY <1>4, <4>1 DEF HttpLoad, OverHttp, Bit
    <3>2. CASE s # hSlot
      <4>1. hSlot # NoSlot => req'[hSlot] = req[hSlot] /\ view'[hSlot] = view[hSlot]
        BY <1>4, <1>0, <3>2 DEF HttpLoad, TypeOK
      <4>2. OverHttp(c)' = OverHttp(c)
        BY <1>4, <4>1, HttpKept DEF HttpLoad
      <4>3. QED
        BY <1>0, <4>2
    <3>3. QED
      BY <3>1, <3>2
  <2>3. QED
    BY <1>4, <1>0, <1>0b, <2>1, <2>2 DEF HttpLoad
<1>5. ASSUME NEW s \in Slots, PullCommit(s) PROVE Paid'
  <2>1. OnSocket(c)' = OnSocket(c)
    BY <1>5, SocketKept DEF PullCommit
  <2>2. /\ \A x \in Sessions : x # s => view'[x] = view[x]
        /\ \A t \in Slots : t # s => req'[t] = req[t]
        /\ s = hSlot => view'[s] = DeliveredRows(s)
    BY <1>5, <1>0, ReplyEffect DEF PullCommit
  <2>3. deliveries'[c] = IF c \in Loaded(s) THEN deliveries[c] + 1 ELSE deliveries[c]
    BY <1>5 DEF PullCommit, Deliver
  <2>4. CASE s # hSlot
    <3>1. OverHttp(c)' = OverHttp(c)
      BY <1>5, <1>0, <2>2, <2>4, HttpKept DEF PullCommit
    <3>2. QED
      BY <1>5, <1>0, <2>1, <2>3, <3>1 DEF PullCommit
  <2>5. CASE s = hSlot
    <3>1. (c \in Loaded(hSlot))' <=> c \in Loaded(s)
      BY <1>5, <2>2, <2>5 DEF PullCommit, Loaded, DeliveredRows
    <3>2. req[hSlot].stage = "loaded"
      BY <1>5, <2>5 DEF PullCommit
    <3>3. OverHttp(c)' <= OverHttp(c) + Bit(c \in Loaded(s))
      BY <1>5, <3>1, <3>2 DEF PullCommit, OverHttp, Bit
    <3>4. QED
      BY <1>5, <1>0, <1>0b, <2>1, <2>3, <3>3 DEF PullCommit, Bit
  <2>6. QED
    BY <2>4, <2>5
<1>6. ASSUME NEW s \in Slots, CommandCommit(s) PROVE Paid'
  <2>1. OnSocket(c)' = OnSocket(c)
    BY <1>6, SocketKept DEF CommandCommit
  <2>2. /\ \A x \in Sessions : x # s => view'[x] = view[x]
        /\ \A t \in Slots : t # s => req'[t] = req[t]
    BY <1>6, <1>0, ReplyEffect DEF CommandCommit
  <2>3. OverHttp(c)' = OverHttp(c)
    <3>1. CASE s # hSlot
      BY <1>6, <1>0, <2>2, <3>1, HttpKept DEF CommandCommit
    <3>2. CASE s = hSlot
      <4>1. hPc # "pull"
        BY <1>6, <1>0, <3>2, ChannelAssumption DEF CommandCommit
      <4>2. QED
        BY <1>6, <4>1 DEF CommandCommit, OverHttp
    <3>3. QED
      BY <3>1, <3>2
  <2>4. QED
    BY <1>6, <1>0, <2>1, <2>3 DEF CommandCommit, SetStatus
<1>7. ASSUME NEW s \in Slots, DropRequest(s) PROVE Paid'
  <2>1. OverHttp(c)' = OverHttp(c)
    BY <1>7, <1>0, HttpKept DEF DropRequest, TypeOK
  <2>2. QED
    BY <1>7, <1>0, <2>1, SocketKept DEF DropRequest
<1>8. ASSUME NEW w \in Conns, WsPoll(w) PROVE Paid'
  <2>1. OverHttp(c)' = OverHttp(c)
    BY <1>8, <1>0, ChannelAssumption, HttpKept DEF WsPoll, TypeOK
  <2>2. QED
    BY <1>8, <1>0, <2>1, SocketKept DEF WsPoll
<1>9. ASSUME NEW w \in Conns, WsDeliver(w) PROVE Paid'
  <2>1. OverHttp(c)' = OverHttp(c)
    BY <1>9, <1>0, ChannelAssumption, HttpKept DEF WsDeliver, TypeOK
  <2>2. deliveries'[c] = IF c \in Loaded(w) THEN deliveries[c] + 1 ELSE deliveries[c]
    BY <1>9 DEF WsDeliver, Deliver
  <2>3. OnSocket(c)' <= OnSocket(c) + Bit(c \in Loaded(w))
    <3>1. CASE cPc \in {"recv", "dispatch", "report"}
      <4>1. cConn \in Conns /\ down[cConn] \in Seq(Commands)
        BY <1>0, <3>1 DEF TypeOK
      <4>2. Cardinality(Places(down[cConn], c)) \in Nat
        BY <4>1, PlacesCount
      <4>3. /\ wsOut'[cConn] = IF cConn = w THEN Loaded(w) ELSE wsOut[cConn]
            /\ cConn' = cConn /\ cPc' = cPc /\ cCmd' = cCmd /\ down' = down
        BY <1>9, <1>0, <4>1 DEF WsDeliver, TypeOK
      <4>4. Cardinality(Places(down[cConn], c))' = Cardinality(Places(down[cConn], c))
        BY <4>3 DEF Places
      <4>5. QED
        BY <3>1, <4>2, <4>3, <4>4 DEF OnSocket, Bit
    <3>2. CASE cPc \notin {"recv", "dispatch", "report"}
      BY <1>9, <3>2 DEF WsDeliver, OnSocket, Bit
    <3>3. QED
      BY <3>1, <3>2
  <2>4. QED
    BY <1>9, <1>0, <1>0b, <2>1, <2>2, <2>3 DEF WsDeliver, Bit
<1>10. ASSUME NEW w \in Conns, WsSend(w) PROVE Paid'
  <2>1. OverHttp(c)' = OverHttp(c)
    BY <1>10, <1>0, HttpKept DEF WsSend
  <2>2. OnSocket(c)' <= OnSocket(c)
    <3>1. PICK d \in wsOut[w] : /\ wsOut' = [wsOut EXCEPT ![w] = wsOut[w] \ {d}]
                                /\ down' = IF w \in cut THEN down ELSE [down EXCEPT ![w] = Append(down[w], d)]
      BY <1>10 DEF WsSend
    <3>2. CASE cPc \in {"recv", "dispatch", "report"}
      <4>1. cConn \in Conns /\ down[cConn] \in Seq(Commands) /\ d \in Commands
        BY <1>0, <3>1, <3>2 DEF TypeOK
      <4>2. /\ Cardinality(Places(down[cConn], c)) \in Nat
            /\ Cardinality(Places(Append(down[cConn], d), c)) = Cardinality(Places(down[cConn], c)) + Bit(c = d)
        BY <4>1, PlacesCount, PlacesAppend
      <4>3. cConn' = cConn /\ cPc' = cPc /\ cCmd' = cCmd
        BY <1>10 DEF WsSend
      <4>4. CASE w # cConn
        <5>1. wsOut'[cConn] = wsOut[cConn] /\ down'[cConn] = down[cConn]
          BY <1>0, <3>1, <4>4, <4>1 DEF TypeOK
        <5>2. Places(down[cConn], c)' = Places(down[cConn], c)
          BY <4>3, <5>1 DEF Places
        <5>3. OnSocket(c)' = OnSocket(c)
          BY <4>3, <5>1, <5>2 DEF OnSocket
        <5>4. QED
          BY <1>0, <5>3
      <4>5. CASE w = cConn
        <5>1. wsOut'[cConn] = wsOut[cConn] \ {d}
          BY <1>0, <3>1, <4>1, <4>5 DEF TypeOK
        <5>2. down'[cConn] \in {down[cConn], Append(down[cConn], d)}
          BY <1>0, <3>1, <4>1, <4>5 DEF TypeOK
        <5>3. \/ Cardinality(Places(down[cConn], c))' = Cardinality(Places(down[cConn], c))
              \/ Cardinality(Places(down[cConn], c))' = Cardinality(Places(down[cConn], c)) + Bit(c = d)
          <6>1. CASE down'[cConn] = down[cConn]
            BY <4>3, <6>1 DEF Places
          <6>2. CASE down'[cConn] = Append(down[cConn], d)
            <7>1. Places(down[cConn], c)' = Places(Append(down[cConn], d), c)
              BY <4>3, <6>2 DEF Places
            <7>2. QED
              BY <4>2, <7>1
          <6>3. QED
            BY <5>2, <6>1, <6>2
        <5>4. QED
          BY <3>1, <3>2, <4>2, <4>3, <4>5, <5>1, <5>3 DEF OnSocket, Bit
      <4>6. QED
        BY <4>4, <4>5
    <3>3. CASE cPc \notin {"recv", "dispatch", "report"}
      BY <1>10, <3>3 DEF WsSend, OnSocket
    <3>4. QED
      BY <3>2, <3>3
  <2>3. QED
    BY <1>10, <1>0, <1>0b, <2>1, <2>2 DEF WsSend
<1>11. ASSUME NEW w \in Conns, WsReceive(w) PROVE Paid'
  <2>1. OverHttp(c)' = OverHttp(c)
    <3>1. \A x \in Slots : view'[x] = view[x]
      BY <1>11, <1>0, ChannelAssumption DEF WsReceive, TypeOK, Sessions
    <3>2. QED
      BY <1>11, <1>0, <3>1, HttpKept DEF WsReceive
  <2>2. QED
    BY <1>11, <1>0, <2>1, SocketKept DEF WsReceive
<1>12. ASSUME NEW w \in Conns, WsHandle(w) PROVE Paid'
  <2>1. OverHttp(c)' = OverHttp(c)
    BY <1>12, <1>0, ChannelAssumption, HttpKept DEF WsHandle, TypeOK
  <2>2. QED
    BY <1>12, <1>0, <2>1, SocketKept DEF WsHandle, SetStatus
<1>13. ASSUME NEW w \in Conns, WsTimeout(w) PROVE Paid'
  <2>1. OverHttp(c)' = OverHttp(c)
    BY <1>13, <1>0, ChannelAssumption, HttpKept DEF WsTimeout, TypeOK
  <2>2. QED
    BY <1>13, <1>0, <2>1, SocketKept DEF WsTimeout
<1>14. ASSUME NEW w \in Conns, WsClose(w) PROVE Paid'
  <2>1. OverHttp(c)' = OverHttp(c)
    BY <1>14, <1>0, ChannelAssumption, HttpKept DEF WsClose, TypeOK
  <2>2. OnSocket(c)' <= OnSocket(c)
    <3>1. CASE cPc \in {"recv", "dispatch", "report"}
      <4>1. cConn \in Conns /\ down[cConn] \in Seq(Commands)
        BY <1>0, <3>1 DEF TypeOK
      <4>2. Cardinality(Places(down[cConn], c)) \in Nat
        BY <4>1, PlacesCount
      <4>3. /\ wsOut'[cConn] \subseteq wsOut[cConn]
            /\ cConn' = cConn /\ cPc' = cPc /\ cCmd' = cCmd /\ down' = down
        BY <1>14, <1>0, <4>1 DEF WsClose, TypeOK
      <4>4. Cardinality(Places(down[cConn], c))' = Cardinality(Places(down[cConn], c))
        BY <4>3 DEF Places
      <4>5. QED
        BY <3>1, <4>2, <4>3, <4>4 DEF OnSocket, Bit
    <3>2. CASE cPc \notin {"recv", "dispatch", "report"}
      BY <1>14, <3>2 DEF WsClose, OnSocket
    <3>3. QED
      BY <3>1, <3>2
  <2>3. QED
    BY <1>14, <1>0, <1>0b, <2>1, <2>2 DEF WsClose
<1>15. ASSUME NEW w \in Conns, CConnect(w) PROVE Paid'
  <2>1. OverHttp(c)' = OverHttp(c)
    BY <1>15, <1>0, HttpKept DEF CConnect
  <2>2. OnSocket(c)' = 0
    <3>1. wsOut'[w] = {} /\ down'[w] = <<>> /\ cConn' = w /\ cPc' = "recv"
      BY <1>15, <1>0 DEF CConnect, OnlySendersHoldCopies, TypeOK
    <3>2. Cardinality(Places(down[cConn], c))' = 0
      <4>1. Places(down[cConn], c)' = Places(<<>>, c)
        BY <3>1 DEF Places
      <4>2. QED
        BY <4>1, PlacesEmpty
    <3>3. QED
      BY <3>1, <3>2 DEF OnSocket, Bit
  <2>3. QED
    BY <1>15, <1>0, <1>0b, <2>1, <2>2 DEF CConnect
<1>16. ASSUME CReceive PROVE Paid'
  <2>1. OverHttp(c)' = OverHttp(c)
    BY <1>16, <1>0, HttpKept DEF CReceive
  <2>2. OnSocket(c)' = OnSocket(c)
    <3>1. cConn \in Conns /\ down[cConn] \in Seq(Commands) /\ down[cConn] # <<>>
      BY <1>16, <1>0 DEF CReceive, TypeOK
    <3>2. Tail(down[cConn]) \in Seq(Commands)
      BY <3>1
    <3>3. /\ Cardinality(Places(Tail(down[cConn]), c)) \in Nat
          /\ Cardinality(Places(down[cConn], c)) \in Nat
          /\ Cardinality(Places(down[cConn], c))
               = Cardinality(Places(Tail(down[cConn]), c)) + Bit(c = Head(down[cConn]))
      BY <3>1, <3>2, PlacesCount, PlacesTail
    <3>4. /\ down'[cConn] = Tail(down[cConn]) /\ wsOut' = wsOut /\ cConn' = cConn
          /\ cPc = "recv" /\ cPc' = "dispatch" /\ cCmd' = Head(down[cConn])
      BY <1>16, <1>0, <3>1 DEF CReceive, TypeOK
    <3>5. Places(down[cConn], c)' = Places(Tail(down[cConn]), c)
      BY <3>4 DEF Places
    <3>6. QED
      BY <3>3, <3>4, <3>5 DEF OnSocket, Bit
  <2>3. QED
    BY <1>16, <1>0, <2>1, <2>2 DEF CReceive
<1>17. ASSUME CDispatch PROVE Paid'
  <2>1. OverHttp(c)' = OverHttp(c)
    BY <1>17, <1>0, HttpKept DEF CDispatch
  <2>2. OnSocket(c)' + Bit(c = cCmd) = OnSocket(c)
    <3>1. down[cConn] \in Seq(Commands)
      BY <1>17, <1>0 DEF CDispatch, TypeOK
    <3>2. Cardinality(Places(down[cConn], c)) \in Nat
      BY <3>1, PlacesCount
    <3>3. Cardinality(Places(down[cConn], c))' = Cardinality(Places(down[cConn], c))
      BY <1>17 DEF CDispatch, Places
    <3>4. QED
      BY <1>17, <3>2, <3>3 DEF CDispatch, OnSocket, Bit
  <2>3. dispatches'[c] = dispatches[c] + Bit(c = cCmd)
    BY <1>17, <1>0 DEF CDispatch, TypeOK, Bit
  <2>4. QED
    BY <1>17, <1>0, <1>0b, <2>1, <2>2, <2>3 DEF CDispatch, Bit
<1>18. ASSUME CReport PROVE Paid'
  <2>1. OverHttp(c)' = OverHttp(c)
    BY <1>18, <1>0, HttpKept DEF CReport
  <2>2. OnSocket(c)' = OnSocket(c)
    BY <1>18 DEF CReport, OnSocket, Places, Bit
  <2>3. QED
    BY <1>18, <1>0, <2>1, <2>2 DEF CReport
<1>19. ASSUME CReceiveFails PROVE Paid'
  <2>1. OverHttp(c)' = OverHttp(c)
    BY <1>19, <1>0, HttpKept DEF CReceiveFails
  <2>2. OnSocket(c)' = 0
    BY <1>19 DEF CReceiveFails, OnSocket
  <2>3. QED
    BY <1>19, <1>0, <1>0b, <2>1, <2>2 DEF CReceiveFails
<1>20. ASSUME CSendFails PROVE Paid'
  <2>1. OverHttp(c)' = OverHttp(c)
    BY <1>20, <1>0, HttpKept DEF CSendFails
  <2>2. OnSocket(c)' = 0
    BY <1>20 DEF CSendFails, OnSocket
  <2>3. QED
    BY <1>20, <1>0, <1>0b, <2>1, <2>2 DEF CSendFails
<1>21. ASSUME NEW s \in Slots, HPull(s) PROVE Paid'
  <2>1. (req[hSlot].stage)' = "sent"
    BY <1>21, <1>0 DEF HPull, HSend, Request, TypeOK
  <2>2. OverHttp(c)' <= OverHttp(c)
    BY <1>21, <1>0, <2>1 DEF HPull, OverHttp, Bit
  <2>3. QED
    BY <1>21, <1>0, <1>0b, <2>2, SocketKept DEF HPull
<1>22. ASSUME HPulled PROVE Paid'
  <2>1. OverHttp(c)' <= OverHttp(c)
    BY <1>22, <1>0 DEF HPulled, Answered, OverHttp, Bit
  <2>2. QED
    BY <1>22, <1>0, <1>0b, <2>1, SocketKept DEF HPulled
<1>23. ASSUME NEW s \in Slots, HAck(s) PROVE Paid'
  <2>1. OverHttp(c)' <= OverHttp(c)
    BY <1>23, <1>0 DEF HAck, OverHttp, Bit
  <2>2. QED
    BY <1>23, <1>0, <1>0b, <2>1, SocketKept DEF HAck
<1>24. ASSUME HAcked PROVE Paid'
  <2>1. OverHttp(c)' <= OverHttp(c)
    BY <1>24, <1>0 DEF HAcked, OverHttp, Bit
  <2>2. QED
    BY <1>24, <1>0, <1>0b, <2>1, SocketKept DEF HAcked
<1>25. ASSUME HDispatch PROVE Paid'
  <2>1. OverHttp(c)' + Bit(c = hCmd) = OverHttp(c)
    BY <1>25, <1>0 DEF HDispatch, OverHttp, Bit
  <2>2. dispatches'[c] = dispatches[c] + Bit(c = hCmd)
    BY <1>25, <1>0 DEF HDispatch, TypeOK, Bit
  <2>3. QED
    BY <1>25, <1>0, <1>0b, <2>1, <2>2, SocketKept DEF HDispatch, Bit
<1>26. ASSUME NEW s \in Slots, HReport(s) PROVE Paid'
  <2>1. OverHttp(c)' <= OverHttp(c)
    BY <1>26, <1>0 DEF HReport, OverHttp, Bit
  <2>2. QED
    BY <1>26, <1>0, <1>0b, <2>1, SocketKept DEF HReport
<1>27. ASSUME HReported PROVE Paid'
  <2>1. OverHttp(c)' <= OverHttp(c)
    BY <1>27, <1>0 DEF HReported, OverHttp, Bit
  <2>2. QED
    BY <1>27, <1>0, <1>0b, <2>1, SocketKept DEF HReported
<1>28. ASSUME NEW s \in Slots, HResend(s) PROVE Paid'
  <2>1. (req[hSlot].stage)' = "sent"
    BY <1>28, <1>0 DEF HResend, HSend, Request, TypeOK
  <2>2. OverHttp(c)' <= OverHttp(c)
    BY <1>28, <1>0, <2>1 DEF HResend, OverHttp, Bit
  <2>3. QED
    BY <1>28, <1>0, <1>0b, <2>2, SocketKept DEF HResend
<1>29. ASSUME HTimeout PROVE Paid'
  <2>1. OverHttp(c)' <= OverHttp(c)
    BY <1>29, <1>0 DEF HTimeout, Forget, RequestFails, GiveUp, OverHttp, Bit
  <2>2. QED
    BY <1>29, <1>0, <1>0b, <2>1, SocketKept DEF HTimeout
<1>30. ASSUME NEW w \in Conns, Cut(w) PROVE Paid'
  <2>1. OverHttp(c)' = OverHttp(c)
    BY <1>30, <1>0, HttpKept DEF Cut
  <2>2. OnSocket(c)' <= OnSocket(c)
    <3>1. CASE cPc \in {"recv", "dispatch", "report"}
      <4>1. cConn \in Conns /\ down[cConn] \in Seq(Commands)
        BY <1>0, <3>1 DEF TypeOK
      <4>2. Cardinality(Places(down[cConn], c)) \in Nat /\ Cardinality(Places(<<>>, c)) = 0
        BY <4>1, PlacesCount, PlacesEmpty
      <4>3. down'[cConn] \in {<<>>, down[cConn]}
        BY <1>30, <1>0, <4>1 DEF Cut, TypeOK
      <4>4. wsOut' = wsOut /\ cConn' = cConn /\ cPc' = cPc /\ cCmd' = cCmd
        BY <1>30 DEF Cut
      <4>5. Places(down[cConn], c)' \in {Places(<<>>, c), Places(down[cConn], c)}
        BY <4>3, <4>4 DEF Places
      <4>6. QED
        BY <3>1, <4>2, <4>4, <4>5 DEF OnSocket, Bit
    <3>2. CASE cPc \notin {"recv", "dispatch", "report"}
      BY <1>30, <3>2 DEF Cut, OnSocket
    <3>3. QED
      BY <3>1, <3>2
  <2>3. QED
    BY <1>30, <1>0, <1>0b, <2>1, <2>2 DEF Cut
<1>31. ASSUME AgentRestart PROVE Paid'
  <2>1. OnSocket(c)' = 0
    BY <1>31 DEF AgentRestart, OnSocket
  <2>2. OverHttp(c)' = 0
    BY <1>31 DEF AgentRestart, GiveUp, Forget, OverHttp, Bit
  <2>3. QED
    BY <1>31, <1>0, <2>1, <2>2 DEF AgentRestart
<1>32. ASSUME ServerRestart PROVE Paid'
  <2>1. OverHttp(c)' <= OverHttp(c)
    <3>1. hSlot' = NoSlot /\ hQueue' = hQueue
      BY <1>32 DEF ServerRestart
    <3>2. (hPc' = hPc /\ hCmd' = hCmd) \/ hPc' = "idle"
      BY <1>32 DEF ServerRestart, RequestFails, GiveUp
    <3>3. QED
      BY <3>1, <3>2 DEF OverHttp, Bit
  <2>2. OnSocket(c)' <= OnSocket(c)
    <3>1. CASE cPc \in {"recv", "dispatch", "report"}
      <4>1. cConn \in Conns /\ down[cConn] \in Seq(Commands)
        BY <1>0, <3>1 DEF TypeOK
      <4>2. Cardinality(Places(down[cConn], c)) \in Nat
        BY <4>1, PlacesCount
      <4>3. wsOut'[cConn] = {} /\ cConn' = cConn /\ cPc' = cPc /\ cCmd' = cCmd /\ down' = down
        BY <1>32, <4>1 DEF ServerRestart
      <4>4. Cardinality(Places(down[cConn], c))' = Cardinality(Places(down[cConn], c))
        BY <4>3 DEF Places
      <4>5. QED
        BY <3>1, <4>2, <4>3, <4>4 DEF OnSocket, Bit
    <3>2. CASE cPc \notin {"recv", "dispatch", "report"}
      BY <1>32, <3>2 DEF ServerRestart, OnSocket
    <3>3. QED
      BY <3>1, <3>2
  <2>3. QED
    BY <1>32, <1>0, <1>0b, <2>1, <2>2 DEF ServerRestart
<1>33. CASE UNCHANGED vars
  BY <1>33, <1>0, SocketKept, HttpKept
<1>33a. ASSUME CycleBlocked \/ CycleCleared PROVE Paid'
  BY <1>33a, <1>0, SocketKept, HttpKept DEF CycleBlocked, CycleCleared
<1>34. QED
  BY <1>1, <1>2, <1>3, <1>4, <1>5, <1>6, <1>7, <1>8, <1>9, <1>10, <1>11, <1>12, <1>13, <1>14, <1>15, <1>16, <1>17, <1>18, <1>19, <1>20, <1>21, <1>22, <1>23, <1>24, <1>25, <1>26, <1>27, <1>28, <1>29, <1>30, <1>31, <1>32, <1>33, <1>33a
     DEF Next, Server, CommandThread, ServiceLoop, User, Environment

\* The agent dispatches no command more often than the server has delivered it.
THEOREM DispatchNeedsDelivery == Spec => []OneDispatchPerDelivery
<1>1. Init => OnlySendersHoldCopies /\ DispatchesAreDelivered
  <2>1. SUFFICES ASSUME Init, NEW c \in Commands
                 PROVE  OnlySendersHoldCopies /\ dispatches[c] + OnSocket(c) + OverHttp(c) <= deliveries[c]
    BY DEF OnlySendersHoldCopies, DispatchesAreDelivered, Init
  <2>2. OnSocket(c) = 0
    BY <2>1 DEF Init, OnSocket
  <2>3. OverHttp(c) = 0
    BY <2>1 DEF Init, OverHttp, Bit
  <2>4. QED
    BY <2>1, <2>2, <2>3 DEF Init, OnlySendersHoldCopies
<1>2. ChannelInv /\ OnlySendersHoldCopies /\ DispatchesAreDelivered /\ [Next]_vars
        => (OnlySendersHoldCopies /\ DispatchesAreDelivered)'
  BY SendersStep, DeliveredStep DEF ChannelInv
<1>3. TypeOK /\ DispatchesAreDelivered => OneDispatchPerDelivery
  <2>1. SUFFICES ASSUME TypeOK, DispatchesAreDelivered, NEW c \in Commands
                 PROVE  dispatches[c] <= deliveries[c]
    BY DEF OneDispatchPerDelivery
  <2>2. dispatches[c] \in Nat /\ deliveries[c] \in Nat /\ OnSocket(c) \in Nat /\ OverHttp(c) \in Nat
    BY <2>1, CopiesAreCounted DEF TypeOK
  <2>3. QED
    BY <2>1, <2>2 DEF DispatchesAreDelivered
<1>4. Spec => [](OnlySendersHoldCopies /\ DispatchesAreDelivered)
  BY <1>1, <1>2, InvariantHolds, PTL DEF Spec
<1>5. QED
  BY <1>3, <1>4, TypeCorrect, PTL

-----------------------------------------------------------------------------
(* A settled command stays as it is. *)

LEMMA SettledIsKept ==
    ASSUME ChannelInv, [Next]_vars, NEW c \in Commands, Settled(c)
    PROVE  Settled(c)' /\ status'[c] = status[c] /\ dispatches'[c] = dispatches[c]
<1> DEFINE Kept == Settled(c)' /\ status'[c] = status[c] /\ dispatches'[c] = dispatches[c]
<1> SUFFICES Kept
  OBVIOUS
<1>a. \A x \in Sessions : view[x][c] \in Terminal \cup {"ABSENT"}
  BY DEF ChannelInv, TypeOK, Statuses, Settled, Exposed
<1>b. status[c] \in Terminal /\ status[c] # "ABSENT"
  BY DEF Settled, Terminal
<1> USE ChannelAssumption DEF ChannelInv, Settled, Exposed, Terminal
<1>1. ASSUME NEW d \in Commands, Create(d) PROVE Kept
  BY <1>1 DEF Create, TypeOK, Sessions
<1>2. ASSUME NEW d \in Commands, ExpireLease(d) PROVE Kept
  BY <1>2 DEF ExpireLease, TypeOK, Sessions
<1>3. ASSUME NEW s \in Slots, NEW d \in Commands, Cancel(s, d) PROVE Kept
  BY <1>3 DEF Cancel, TypeOK, Sessions
<1>4. ASSUME NEW s \in Slots, HttpLoad(s) PROVE Kept
  BY <1>4 DEF HttpLoad, TypeOK, Rows, Batch, Due, Sessions
<1>5. ASSUME NEW s \in Slots, PullCommit(s) PROVE Kept
  <2>1. c \notin Loaded(s)
    BY <1>5, <1>a DEF PullCommit, Loaded, Sessions, SessionsHoldWhatTheyLoad, Deliverable
  <2>2. status'[c] = status[c]
    BY <1>5, <2>1 DEF PullCommit, Deliver
  <2>3. DeliveredRows(s)[c] = "ABSENT"
    BY <2>1 DEF DeliveredRows
  <2>4. \A x \in Sessions : view'[x][c] \in Terminal \cup {"ABSENT"}
    BY <1>5, <1>a, <2>3, ReplyFrame DEF PullCommit, NotLoaded
  <2>5. QED
    BY <1>5, <2>2, <2>4 DEF PullCommit
<1>6. ASSUME NEW s \in Slots, CommandCommit(s) PROVE Kept
  <2> DEFINE e == req[s].cmd
             new == Decide(s, view[s][e])
             rows == [view[s] EXCEPT ![e] = new]
  <2>1. SetStatus(s, e, new) /\ Reply(s, rows)
    BY <1>6 DEF CommandCommit
  <2>2. e = c => new = view[s][c] /\ view[s][c] \in Terminal
    BY <1>6, <1>a DEF CommandCommit, Decide, SessionsHoldWhatTheyLoad, Loaded, Sessions
  <2>3. status'[c] = status[c]
    BY <2>1, <2>2 DEF SetStatus, Written, TypeOK
  <2>4. rows[c] \in Terminal \cup {"ABSENT"}
    BY <1>a, <2>2 DEF TypeOK, Sessions
  <2> HIDE DEF rows, new
  <2>5. \A x \in Sessions : view'[x][c] \in Terminal \cup {"ABSENT"}
    BY <1>a, <2>1, <2>4, ReplyFrame DEF NotLoaded
  <2>6. QED
    BY <1>6, <2>3, <2>5 DEF CommandCommit
<1>7. ASSUME NEW s \in Slots, DropRequest(s) PROVE Kept
  BY <1>7 DEF DropRequest, TypeOK, Sessions
<1>8. ASSUME NEW w \in Conns, WsPoll(w) PROVE Kept
  BY <1>8 DEF WsPoll, TypeOK, Rows, Batch, Due, Sessions
<1>9. ASSUME NEW w \in Conns, WsDeliver(w) PROVE Kept
  <2>1. c \notin Loaded(w)
    BY <1>9, <1>a DEF WsDeliver, Loaded, Sessions, SessionsHoldWhatTheyLoad, Deliverable
  <2>2. status'[c] = status[c]
    BY <1>9, <2>1 DEF WsDeliver, Deliver
  <2>3. \A x \in Sessions : view'[x][c] \in Terminal \cup {"ABSENT"}
    BY <1>9, <1>a, <2>1 DEF WsDeliver, DeliveredRows, TypeOK
  <2>4. \A v \in Conns : c \notin wsOut'[v]
    BY <1>9, <2>1 DEF WsDeliver, TypeOK
  <2>5. QED
    BY <1>9, <2>2, <2>3, <2>4 DEF WsDeliver
<1>10. ASSUME NEW w \in Conns, WsSend(w) PROVE Kept
  <2>1. PICK d \in wsOut[w] :
            /\ wsOut' = [wsOut EXCEPT ![w] = @ \ {d}]
            /\ down' = IF w \in cut THEN down ELSE [down EXCEPT ![w] = Append(@, d)]
    BY <1>10 DEF WsSend
  <2>2. d \in Commands /\ d # c /\ down[w] \in Seq(Commands)
    BY <2>1 DEF TypeOK
  <2>3. w = cConn => \A i \in DOMAIN Append(down[w], d) : Append(down[w], d)[i] # c
    BY <2>2, AppendElements
  <2>4. \A v \in Conns : v = cConn => \A i \in DOMAIN down'[v] : down'[v][i] # c
    BY <2>1, <2>3 DEF TypeOK
  <2>5. \A v \in Conns : c \notin wsOut'[v]
    BY <2>1 DEF TypeOK
  <2>6. QED
    BY <1>10, <1>a, <2>4, <2>5 DEF WsSend
<1>11. ASSUME NEW w \in Conns, WsReceive(w) PROVE Kept
  <2> DEFINE e == Head(up[w]).cmd
             loaded == [view EXCEPT ![w][e] = status[e]]
             forgotten == [view EXCEPT ![w] = NotLoaded]
  <2>1. view' \in {view, loaded, forgotten}
    BY <1>11 DEF WsReceive
  <2>2. \A x \in Sessions : loaded[x][c] \in Terminal \cup {"ABSENT"}
    BY <1>a, <1>b DEF TypeOK, Sessions
  <2>3. \A x \in Sessions : forgotten[x][c] \in Terminal \cup {"ABSENT"}
    BY <1>a DEF NotLoaded, TypeOK
  <2> HIDE DEF loaded, forgotten
  <2>3a. \A x \in Sessions : view'[x][c] \in Terminal \cup {"ABSENT"}
    BY <1>a, <2>1, <2>2, <2>3
  <2>4. QED
    BY <1>11, <2>3a DEF WsReceive
<1>12. ASSUME NEW w \in Conns, WsHandle(w) PROVE Kept
  <2> DEFINE e == wsMsg[w].cmd
             new == IF view[w][e] \in Terminal THEN view[w][e]
                    ELSE IF wsMsg[w].type = "ack" THEN "RUNNING" ELSE wsMsg[w].verdict
  <2>1. SetStatus(w, e, new)
    BY <1>12 DEF WsHandle
  <2>2. e = c => new = view[w][c]
    BY <1>12, <1>a DEF WsHandle, SessionsHoldWhatTheyLoad, Loaded, Sessions
  <2> HIDE DEF new
  <2>3. status'[c] = status[c]
    BY <2>1, <2>2 DEF SetStatus, Written, TypeOK
  <2>4. \A x \in Sessions : view'[x][c] \in Terminal \cup {"ABSENT"}
    BY <1>12, <1>a DEF WsHandle, NotLoaded, TypeOK
  <2>5. QED
    BY <1>12, <2>3, <2>4 DEF WsHandle
<1>13. ASSUME NEW w \in Conns, WsTimeout(w) PROVE Kept
  BY <1>13 DEF WsTimeout, TypeOK, NotLoaded, Sessions
<1>14. ASSUME NEW w \in Conns, WsClose(w) PROVE Kept
  BY <1>14 DEF WsClose, TypeOK, NotLoaded, Sessions
<1>15. ASSUME NEW w \in Conns, CConnect(w) PROVE Kept
  BY <1>15 DEF CConnect, TypeOK, Sessions
<1>16. ASSUME CReceive PROVE Kept
  <2>1. cConn \in Conns /\ down[cConn] \in Seq(Commands) /\ down[cConn] # <<>>
    BY <1>16 DEF CReceive, TypeOK
  <2>2. Head(down[cConn]) # c
    BY <2>1, HeadElement
  <2>3. \A i \in DOMAIN Tail(down[cConn]) : Tail(down[cConn])[i] # c
    BY <2>1, TailElements
  <2>4. \A v \in Conns : v = cConn => \A i \in DOMAIN down'[v] : down'[v][i] # c
    BY <1>16, <2>3 DEF CReceive, TypeOK
  <2>5. QED
    BY <1>16, <2>2, <2>4 DEF CReceive
<1>17. ASSUME CDispatch PROVE Kept
  BY <1>17 DEF CDispatch, TypeOK, Sessions
<1>18. ASSUME CReport PROVE Kept
  BY <1>18 DEF CReport, TypeOK, Send, Sessions
<1>19. ASSUME CReceiveFails PROVE Kept
  BY <1>19 DEF CReceiveFails, TypeOK, Sessions
<1>20. ASSUME CSendFails PROVE Kept
  BY <1>20 DEF CSendFails, TypeOK, Sessions
<1>21. ASSUME NEW s \in Slots, HPull(s) PROVE Kept
  BY <1>21 DEF HPull, TypeOK, Sessions
<1>22. ASSUME HPulled PROVE Kept
  <2>1. hSlot \in Slots /\ req[hSlot].op = "pull" /\ req[hSlot].stage = "done"
    BY <1>22 DEF HPulled, Answered, TypeOK, SessionsHoldWhatTheyLoad
  <2>2. c \notin Loaded(hSlot)
    BY <1>a, <2>1 DEF Loaded, Sessions, SessionsHoldWhatTheyLoad, Deliverable
  <2>3. \A x \in Sessions : view'[x][c] \in Terminal \cup {"ABSENT"}
    BY <1>22, <1>a DEF HPulled, Answered, NotLoaded, TypeOK
  <2>4. QED
    BY <1>22, <2>2, <2>3 DEF HPulled, Answered
<1>23. ASSUME NEW s \in Slots, HAck(s) PROVE Kept
  BY <1>23 DEF HAck, TypeOK, Sessions
<1>24. ASSUME HAcked PROVE Kept
  BY <1>24 DEF HAcked, TypeOK, NotLoaded, Answered, Sessions
<1>25. ASSUME HDispatch PROVE Kept
  BY <1>25 DEF HDispatch, TypeOK, Sessions
<1>26. ASSUME NEW s \in Slots, HReport(s) PROVE Kept
  BY <1>26 DEF HReport, TypeOK, Sessions
<1>27. ASSUME HReported PROVE Kept
  BY <1>27 DEF HReported, TypeOK, NotLoaded, Answered, Sessions
<1>27a. ASSUME NEW s \in Slots, HResend(s) PROVE Kept
  BY <1>27a DEF HResend, TypeOK, Request, Idle, HSend, Sessions
<1>28. ASSUME HTimeout PROVE Kept
  BY <1>28 DEF HTimeout, TypeOK, NotLoaded, Forget, RequestFails, GiveUp, Sessions
<1>29. ASSUME NEW w \in Conns, Cut(w) PROVE Kept
  BY <1>29 DEF Cut, TypeOK, Sessions
<1>30. ASSUME AgentRestart PROVE Kept
  BY <1>30 DEF AgentRestart, TypeOK, NotLoaded, Forget, GiveUp, Sessions
<1>31. ASSUME ServerRestart PROVE Kept
  BY <1>31 DEF ServerRestart, TypeOK, NotLoaded, Sessions, RequestFails, GiveUp
<1>32. CASE UNCHANGED vars
  BY <1>32
<1>32a. ASSUME CycleBlocked \/ CycleCleared PROVE Kept
  BY <1>32a DEF CycleBlocked, CycleCleared
<1>33. QED
  BY <1>1, <1>2, <1>3, <1>4, <1>5, <1>6, <1>7, <1>8, <1>9, <1>10, <1>11, <1>12, <1>13, <1>14, <1>15, <1>16, <1>17, <1>18, <1>19, <1>20, <1>21, <1>22, <1>23, <1>24, <1>25, <1>26, <1>27, <1>27a, <1>28, <1>29, <1>30, <1>31, <1>32, <1>32a DEF Next, Server, CommandThread, ServiceLoop, User, Environment

-----------------------------------------------------------------------------
(* The channel implements the lifecycle. *)

\* Only Create inserts a row, and only the two dispatching steps count.
LEMMA RowsAreInserted ==
    ASSUME ChannelInv, [Next]_vars, \A c \in Commands : ~Create(c)
    PROVE  Created' = Created
<1>1. Created \subseteq Created'
  BY CreatedGrows DEF ChannelInv
<1>2. ASSUME NEW c \in Commands, status[c] = "ABSENT" PROVE status'[c] = "ABSENT"
  <2>1. \A x \in Sessions : c \notin Loaded(x)
    BY <1>2 DEF ChannelInv, NamesAreCreated, Created
  <2>2. ASSUME NEW x \in Sessions, Deliver(x) PROVE status'[c] = "ABSENT"
    BY <1>2, <2>1, <2>2 DEF Deliver
  <2>3. ASSUME NEW s \in Slots, CommandCommit(s) PROVE status'[c] = "ABSENT"
    BY <1>2, <2>3 DEF CommandCommit, SetStatus, ChannelInv, TypeOK, NamesAreCreated, Created
  <2>4. ASSUME NEW w \in Conns, WsHandle(w) PROVE status'[c] = "ABSENT"
    BY <1>2, <2>4 DEF WsHandle, SetStatus, ChannelInv, TypeOK, NamesAreCreated, Created
  <2>5. ASSUME UNCHANGED status PROVE status'[c] = "ABSENT"
    BY <1>2, <2>5
  <2>6. QED
    BY <2>2, <2>3, <2>4, <2>5
     DEF Next, Server, CommandThread, ServiceLoop, User, Environment, Sessions,
         CDispatch, HDispatch,
         ExpireLease, Cancel, HttpLoad, PullCommit, DropRequest, WsPoll, WsDeliver, WsSend, WsReceive, WsTimeout,
         WsClose, CConnect, CReceive, CReport, CReceiveFails, CSendFails, HPull, HPulled, HAck,
         HAcked, HReport, HReported, HResend, HTimeout, CycleBlocked, CycleCleared, Cut, AgentRestart, ServerRestart
<1>3. QED
  BY <1>1, <1>2 DEF Created

LEMMA PhaseValues ==
    ASSUME ChannelInv, NEW c \in Commands
    PROVE  /\ Phase[c] = "absent" <=> c \notin Created
           /\ Phase[c] = "open" <=> c \in Created /\ ~Settled(c)
           /\ Settled(c) => Phase[c] = status[c] /\ c \in Created
  BY DEF Phase, Created, Settled, Terminal

\* A step that neither creates nor dispatches settles the commands nobody works
\* on any more, if any.
LEMMA QuietStepSettles ==
    ASSUME ChannelInv, ChannelInv', [Next]_vars, Created' = Created, UNCHANGED dispatches
    PROVE  \E settling \in SUBSET Commands : Lifecycle!Settle(settling)
<1> DEFINE settling == {c \in Commands : Phase[c] = "open" /\ Settled(c)'}
           outcome == [c \in settling |-> status'[c]]
<1>1. outcome \in [settling -> Terminal]
  BY DEF Settled
<1>2. ASSUME NEW c \in Commands
      PROVE  Phase'[c] = IF c \in settling THEN outcome[c] ELSE Phase[c]
  <2>1. CASE Settled(c)
    <3>1. Settled(c)' /\ status'[c] = status[c]
      BY <2>1, SettledIsKept
    <3>2. QED
      BY <2>1, <3>1, PhaseValues DEF Phase, Settled, Terminal
  <2>2. CASE ~Settled(c) /\ Settled(c)'
    <3>1. c \in Created' /\ Phase'[c] = status'[c]
      BY <2>2 DEF Phase, Settled, Terminal, Created
    <3>2. Phase[c] = "open"
      BY <2>2, <3>1, PhaseValues
    <3>3. QED
      BY <2>2, <3>1, <3>2
  <2>3. CASE ~Settled(c) /\ ~Settled(c)'
    <3>1. Phase'[c] = IF c \in Created' THEN "open" ELSE "absent"
      BY <2>3 DEF Phase, Created
    <3>2. QED
      BY <2>3, <3>1 DEF Phase, Created
  <2>4. QED
    BY <2>1, <2>2, <2>3
<1>3. Phase' = [c \in Commands |-> IF c \in settling THEN outcome[c] ELSE Phase[c]]
  <2> HIDE DEF settling, outcome
  <2>1. Phase' = [c \in Commands |-> Phase'[c]]
    BY DEF Phase
  <2>2. QED
    BY <1>2, <2>1
<1>4. Lifecycle!Settle(settling)
  <2>1. \A c \in settling : Phase[c] = "open"
    OBVIOUS
  <2> HIDE DEF settling, outcome
  <2>2. QED
    BY <1>1, <1>3, <2>1 DEF Lifecycle!Settle
<1>5. QED
  BY <1>4

LEMMA CreateCreates ==
    ASSUME ChannelInv, NEW c \in Commands, Create(c)
    PROVE  Lifecycle!Create(c)
<1>1. Phase[c] = "absent"
  BY DEF Create, Phase
<1>2. \A d \in Commands : Exposed(d)' <=> Exposed(d)
  BY DEF Create, Exposed
<1>3. \A d \in Commands \ {c} : status'[d] = status[d]
  BY DEF Create, ChannelInv, TypeOK
<1>4. status'[c] = "PENDING"
  BY DEF Create, ChannelInv, TypeOK
<1>5. ASSUME NEW d \in Commands PROVE Phase'[d] = IF d = c THEN "open" ELSE Phase[d]
  BY <1>2, <1>3, <1>4 DEF Phase, Settled, Terminal
<1>6. Phase' = [Phase EXCEPT ![c] = "open"]
  BY <1>5 DEF Phase
<1>7. QED
  BY <1>1, <1>6 DEF Lifecycle!Create, Create

LEMMA DispatchDispatches ==
    ASSUME ChannelInv, CDispatch \/ HDispatch
    PROVE  \E c \in Commands : Lifecycle!Dispatch(c)
<1> DEFINE c == IF CDispatch THEN cCmd ELSE hCmd
<1>1. c \in Created /\ dispatches' = [dispatches EXCEPT ![c] = @ + 1]
  BY DEF CDispatch, HDispatch, ChannelInv, NamesAreCreated
<1>2. Exposed(c)
  BY DEF CDispatch, HDispatch, Exposed
<1>3. UNCHANGED status /\ \A d \in Commands : Exposed(d)' <=> Exposed(d)
  BY DEF CDispatch, HDispatch, Exposed
<1> HIDE DEF c
<1>4. Phase[c] = "open" /\ c \in Commands
  BY <1>1, <1>2 DEF Phase, Settled, Created
<1>5. UNCHANGED Phase
  BY <1>3 DEF Phase, Settled
<1>6. QED
  BY <1>1, <1>4, <1>5 DEF Lifecycle!Dispatch

\* The abstract specification of the command channel is implemented: a settled
\* command never changes its outcome and is never dispatched again.
THEOREM ChannelImplementsLifecycle == Spec => ImplementsLifecycle
<1>1. Init => Lifecycle!Init
  BY DEF Init, Lifecycle!Init, Phase
<1>2. ChannelInv /\ ChannelInv' /\ [Next]_vars => [Lifecycle!Next]_(Lifecycle!lifecycleVars)
  <2> SUFFICES ASSUME ChannelInv, ChannelInv', [Next]_vars
               PROVE  [Lifecycle!Next]_(Lifecycle!lifecycleVars)
    OBVIOUS
  <2>1. ASSUME NEW c \in Commands, Create(c) PROVE Lifecycle!Next
    BY <2>1, CreateCreates DEF Lifecycle!Next
  <2>2. ASSUME CDispatch \/ HDispatch PROVE Lifecycle!Next
    BY <2>2, DispatchDispatches DEF Lifecycle!Next
  <2>3. ASSUME \A c \in Commands : ~Create(c), ~(CDispatch \/ HDispatch) PROVE Lifecycle!Next
    <3>1. Created' = Created
      BY <2>3, RowsAreInserted
    <3>2. UNCHANGED dispatches
      BY <2>3
         DEF Next, Server, CommandThread, ServiceLoop, User, Environment, CommandCommit, WsHandle,
         ExpireLease, Cancel, HttpLoad, PullCommit, DropRequest, WsPoll, WsDeliver, WsSend, WsReceive, WsTimeout,
         WsClose, CConnect, CReceive, CReport, CReceiveFails, CSendFails, HPull, HPulled, HAck,
         HAcked, HReport, HReported, HResend, HTimeout, CycleBlocked, CycleCleared, Cut, AgentRestart, ServerRestart
    <3>3. QED
      BY <3>1, <3>2, QuietStepSettles DEF Lifecycle!Next
  <2>4. QED
    BY <2>1, <2>2, <2>3
<1>3. QED
  BY <1>1, <1>2, InvariantHolds, PTL DEF Spec, ImplementsLifecycle, Lifecycle!Spec
=============================================================================
