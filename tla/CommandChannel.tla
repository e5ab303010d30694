--------------------------- MODULE CommandChannel ---------------------------
(***************************************************************************)
(* The remote command channel of one agent: the server's command table     *)
(* (server/command_api.py), the HTTP handlers and the WebSocket handler    *)
(* (server/main.py) that read and write it, and the two threads of the     *)
(* agent that fetch, dispatch and report commands (agent/agent_service.py, *)
(* agent/server_client.py).                                                *)
(*                                                                         *)
(* A handler works on an ORM session: it loads rows into the session's     *)
(* identity map, decides on what it loaded, and a commit writes the        *)
(* changed attributes back.  Nothing locks the rows, so two sessions may   *)
(* hold the same row.  view[x] is the identity map of session x.           *)
(***************************************************************************)
EXTENDS Integers, Sequences, FiniteSets

CONSTANTS N,              \* commands 1..N, numbered in creation order
          Slots,          \* worker threads of the server, one HTTP request each
          Conns,          \* WebSocket connections the server may hold at once
          NoSlot, NoConn, \* "no request outstanding", "no connection"
          BatchLimit,     \* rows one poll delivers (LIMIT of the query)
          MaxDeliveries,  \* bound: a lease overtakes a live delivery, or a cut
                          \* connection swallows one, only up to this count
          MaxFaults       \* bound: timeouts, cuts, crashes, restarts, blockades

ASSUME ChannelAssumption ==
    /\ N \in Nat
    /\ Slots \cap Conns = {}
    /\ NoSlot \notin Slots
    /\ NoConn \notin Conns
    /\ BatchLimit \in Nat \ {0}
    /\ MaxDeliveries \in Nat
    /\ MaxFaults \in Nat

VARIABLES
    status,       \* commands.status, "ABSENT" before the row exists
    expired,      \* delivered_at is older than the 60 s lease
    deliveries,   \* deliveries made of each command (ghost)
    dispatches,   \* dispatches the agent has made of each command (ghost)
    asked,        \* commands whose cancellation the user has requested
    view,         \* identity map of each session, "ABSENT" = row not loaded
    req,          \* the HTTP request each server thread works on
    wsPc,         \* where the WebSocket handler of each connection stands
    wsOut,        \* delivered commands it has still to send
    wsMsg,        \* the message it is handling
    cut,          \* connections the network has broken
    down, up,     \* frames in flight: server to agent, agent to server
    wsFlag,       \* AgentService._websocket_connected
    cPc, cConn, cCmd, cVerdict,         \* the command-channel thread
    hPc, hSlot, hCmd, hQueue, hVerdict, hRetried, \* the service-loop thread
    blocked,      \* what comes first in its cycle fails each time
    faults        \* faults so far

tableVars  == <<status, expired, deliveries>>
serverVars == <<view, req, wsPc, wsOut, wsMsg>>
linkVars   == <<cut, down, up>>
cVars      == <<wsFlag, cPc, cConn, cCmd, cVerdict>>
hVars      == <<hPc, hSlot, hCmd, hQueue, hVerdict, hRetried, blocked>>
vars == <<tableVars, dispatches, asked, serverVars, linkVars, cVars, hVars, faults>>

Commands  == 1..N
NoCmd     == 0
Sessions  == Slots \cup Conns
Verdicts  == {"SUCCESS", "FAILED"}
Terminal  == {"SUCCESS", "FAILED", "CANCELLED"}
Statuses  == {"ABSENT", "PENDING", "DELIVERED", "RUNNING"} \cup Terminal
NotLoaded == [c \in Commands |-> "ABSENT"]

Idle == [op |-> "none", stage |-> "idle", cmd |-> NoCmd, verdict |-> "FAILED"]
Request(op, c, v) == [op |-> op, stage |-> "sent", cmd |-> c, verdict |-> v]
Requests == [op : {"none", "cancel", "pull", "ack", "result"},
             stage : {"idle", "sent", "loaded", "done"},
             cmd : Commands \cup {NoCmd}, verdict : Verdicts]

Frame(type, c, v) == [type |-> type, cmd |-> c, verdict |-> v]
Frames == [type : {"hello", "ack", "result"},
           cmd : Commands \cup {NoCmd}, verdict : Verdicts]
Hello == Frame("hello", NoCmd, "FAILED")

TableTypes ==
    /\ status \in [Commands -> Statuses]
    /\ expired \in [Commands -> BOOLEAN]
    /\ deliveries \in [Commands -> Nat]
    /\ dispatches \in [Commands -> Nat]
    /\ asked \in SUBSET Commands
    /\ faults \in Nat

ServerTypes ==
    /\ view \in [Sessions -> [Commands -> Statuses]]
    /\ req \in [Slots -> Requests]
    /\ wsPc \in [Conns -> {"closed", "poll", "loaded", "send", "wait", "handle"}]
    /\ wsOut \in [Conns -> SUBSET Commands]
    /\ wsMsg \in [Conns -> Frames]

LinkTypes ==
    /\ cut \in SUBSET Conns
    /\ down \in [Conns -> Seq(Commands)]
    /\ up \in [Conns -> Seq(Frames)]

AgentTypes ==
    /\ wsFlag \in BOOLEAN
    /\ cPc \in {"offline", "recv", "dispatch", "report", "dead"}
    /\ cConn \in Conns \cup {NoConn}
    /\ cPc \in {"recv", "dispatch", "report"} => cConn \in Conns
    /\ cCmd \in Commands \cup {NoCmd}
    /\ cVerdict \in Verdicts
    /\ hPc \in {"idle", "pull", "ack", "dispatch", "report", "result"}
    /\ hSlot \in Slots \cup {NoSlot}
    /\ hCmd \in Commands \cup {NoCmd}
    /\ hQueue \in SUBSET Commands
    /\ hVerdict \in Verdicts
    /\ hRetried \in BOOLEAN
    /\ blocked \in BOOLEAN

TypeOK == TableTypes /\ ServerTypes /\ LinkTypes /\ AgentTypes

Init ==
    /\ status = [c \in Commands |-> "ABSENT"]
    /\ expired = [c \in Commands |-> FALSE]
    /\ deliveries = [c \in Commands |-> 0]
    /\ dispatches = [c \in Commands |-> 0]
    /\ asked = {}
    /\ view = [x \in Sessions |-> NotLoaded]
    /\ req = [s \in Slots |-> Idle]
    /\ wsPc = [w \in Conns |-> "closed"]
    /\ wsOut = [w \in Conns |-> {}]
    /\ wsMsg = [w \in Conns |-> Hello]
    /\ cut = {}
    /\ down = [w \in Conns |-> <<>>]
    /\ up = [w \in Conns |-> <<>>]
    /\ wsFlag = FALSE
    /\ cPc = "offline" /\ cConn = NoConn /\ cCmd = NoCmd /\ cVerdict = "FAILED"
    /\ hPc = "idle" /\ hSlot = NoSlot /\ hCmd = NoCmd /\ hQueue = {} /\ hVerdict = "FAILED"
    /\ hRetried = FALSE /\ blocked = FALSE
    /\ faults = 0

-----------------------------------------------------------------------------
(* The table, as a session sees and writes it. *)

Loaded(x) == {c \in Commands : view[x][c] # "ABSENT"}

\* Mutant of Due: an expired lease is enough, whatever the status.
DueByLeaseAlone == {c \in Commands : status[c] = "PENDING" \/ expired[c]}

\* Mutant of Due: a lease never runs out.
DueOnce == {c \in Commands : status[c] = "PENDING"}

\* Rows a poll delivers: pending, or delivered with an expired lease.
Due == {c \in Commands : \/ status[c] = "PENDING"
                         \/ status[c] = "DELIVERED" /\ expired[c]}
Batch == {c \in Due : Cardinality({d \in Due : d < c}) < BatchLimit}

\* The identity map after SELECT returned the given rows.
Rows(rows) == [c \in Commands |-> IF c \in rows THEN status[c] ELSE "ABSENT"]

\* The ORM writes an attribute only when it differs from what was loaded.
Written(x, c, new) == IF view[x][c] = new THEN status[c] ELSE new

\* The commit of a poll: every loaded row becomes DELIVERED with a new lease.
Deliver(x) ==
    /\ status' = [c \in Commands |->
                    IF c \in Loaded(x) THEN Written(x, c, "DELIVERED") ELSE status[c]]
    /\ expired' = [c \in Commands |-> c \notin Loaded(x) /\ expired[c]]
    /\ deliveries' = [c \in Commands |->
                        IF c \in Loaded(x) THEN deliveries[c] + 1 ELSE deliveries[c]]

\* The identity map keeps the delivered rows: sessions do not expire on commit.
DeliveredRows(x) == [c \in Commands |-> IF c \in Loaded(x) THEN "DELIVERED" ELSE "ABSENT"]

\* The commit of a handler that sets the status of one row it has loaded.
SetStatus(x, c, new) ==
    /\ status' = [status EXCEPT ![c] = Written(x, c, new)]
    /\ UNCHANGED <<expired, deliveries>>

Create(c) ==
    /\ status[c] = "ABSENT"
    /\ \A d \in Commands : d < c => status[d] # "ABSENT"
    /\ status' = [status EXCEPT ![c] = "PENDING"]
    /\ UNCHANGED <<expired, deliveries, dispatches, asked, serverVars, linkVars, cVars, hVars, faults>>

\* Somebody may still overwrite or dispatch c: a session holds the row with a
\* status that is not terminal, or c is on its way to, or in, the agent.
Exposed(c) ==
    \/ \E x \in Sessions : view[x][c] \in {"PENDING", "DELIVERED", "RUNNING"}
    \/ \E w \in Conns : \/ c \in wsOut[w]
                        \/ w = cConn /\ \E i \in DOMAIN down[w] : down[w][i] = c
    \/ cPc \in {"dispatch", "report"} /\ cCmd = c
    \/ hPc \in {"ack", "dispatch", "report"} /\ hCmd = c
    \/ c \in hQueue

\* So is an answer that may still reach the server.
Alive(c) ==
    \/ Exposed(c)
    \/ \E s \in Slots : req[s].op \in {"ack", "result"} /\ req[s].cmd = c
    \/ hPc = "result" /\ hCmd = c
    \/ \E w \in Conns : wsMsg[w].cmd = c \/ \E i \in DOMAIN up[w] : up[w][i].cmd = c

\* Sixty seconds pass without an acknowledgement.  The lease of a delivery that is
\* lost always runs out; one that is alive is overtaken only below the bound.
ExpireLease(c) ==
    /\ status[c] = "DELIVERED" /\ ~expired[c]
    /\ Alive(c) => deliveries[c] < MaxDeliveries
    /\ expired' = [expired EXCEPT ![c] = TRUE]
    /\ UNCHANGED <<status, deliveries, dispatches, asked, serverVars, linkVars, cVars, hVars, faults>>

-----------------------------------------------------------------------------
(* HTTP handlers.  A request is sent, its handler loads the rows and then  *)
(* commits; the session ends with the reply.                               *)

Cancel(s, c) ==
    /\ status[c] # "ABSENT" /\ c \notin asked
    /\ req[s] = Idle
    /\ asked' = asked \cup {c}
    /\ req' = [req EXCEPT ![s] = Request("cancel", c, "FAILED")]
    /\ UNCHANGED <<tableVars, dispatches, view, wsPc, wsOut, wsMsg, linkVars, cVars, hVars, faults>>

HttpLoad(s) ==
    /\ req[s].stage = "sent"
    /\ req' = [req EXCEPT ![s].stage = "loaded"]
    /\ view' = [view EXCEPT ![s] = Rows(IF req[s].op = "pull" THEN Batch ELSE {req[s].cmd})]
    /\ UNCHANGED <<tableVars, dispatches, asked, wsPc, wsOut, wsMsg, linkVars, cVars, hVars, faults>>

\* The session ends unless the agent still waits for the reply, which carries
\* what the session holds.
Reply(s, rows) ==
    IF s = hSlot
    THEN /\ req' = [req EXCEPT ![s].stage = "done"]
         /\ view' = [view EXCEPT ![s] = rows]
    ELSE /\ req' = [req EXCEPT ![s] = Idle]
         /\ view' = [view EXCEPT ![s] = NotLoaded]

PullCommit(s) ==
    /\ req[s].op = "pull" /\ req[s].stage = "loaded"
    /\ Deliver(s)
    /\ Reply(s, DeliveredRows(s))
    /\ UNCHANGED <<dispatches, asked, wsPc, wsOut, wsMsg, linkVars, cVars, hVars, faults>>

\* Mutant of Decide: an acknowledgement does not look at the status first.
DecideAckBlindly(s, seen) ==
    CASE req[s].op = "cancel" /\ seen \notin Terminal -> "CANCELLED"
      [] req[s].op = "ack" -> "RUNNING"
      [] req[s].op = "result" /\ seen \in {"DELIVERED", "RUNNING"} -> req[s].verdict
      [] OTHER -> seen

\* What a handler does with the status it has loaded: the new status, or the
\* same one when it answers without writing (already terminal, or refused).
Decide(s, seen) ==
    CASE req[s].op = "cancel" /\ seen \notin Terminal -> "CANCELLED"
      [] req[s].op = "ack" /\ seen \in {"DELIVERED", "RUNNING"} -> "RUNNING"
      [] req[s].op = "result" /\ seen \in {"DELIVERED", "RUNNING"} -> req[s].verdict
      [] OTHER -> seen

CommandCommit(s) ==
    /\ req[s].op \in {"cancel", "ack", "result"} /\ req[s].stage = "loaded"
    /\ LET c == req[s].cmd
           new == Decide(s, view[s][c])
       IN /\ SetStatus(s, c, new)
          /\ Reply(s, [view[s] EXCEPT ![c] = new])
    /\ UNCHANGED <<dispatches, asked, wsPc, wsOut, wsMsg, linkVars, cVars, hVars, faults>>

\* A request whose sender has given up never arrives.
DropRequest(s) ==
    /\ req[s].op \in {"pull", "ack", "result"} /\ req[s].stage = "sent"
    /\ s # hSlot
    /\ req' = [req EXCEPT ![s] = Idle]
    /\ UNCHANGED <<tableVars, dispatches, asked, view, wsPc, wsOut, wsMsg, linkVars, cVars, hVars, faults>>

-----------------------------------------------------------------------------
(* The WebSocket handler of connection w: poll, deliver, send, wait for    *)
(* one message, handle it, and start over with an empty identity map.      *)

WsPoll(w) ==
    /\ wsPc[w] = "poll"
    /\ view' = [view EXCEPT ![w] = Rows(Batch)]
    /\ wsPc' = [wsPc EXCEPT ![w] = "loaded"]
    /\ UNCHANGED <<tableVars, dispatches, asked, req, wsOut, wsMsg, linkVars, cVars, hVars, faults>>

WsDeliver(w) ==
    /\ wsPc[w] = "loaded"
    /\ Deliver(w)
    /\ view' = [view EXCEPT ![w] = DeliveredRows(w)]
    /\ wsOut' = [wsOut EXCEPT ![w] = Loaded(w)]
    /\ wsPc' = [wsPc EXCEPT ![w] = IF Loaded(w) = {} THEN "wait" ELSE "send"]
    /\ UNCHANGED <<dispatches, asked, req, wsMsg, linkVars, cVars, hVars, faults>>

\* A frame sent over a cut connection is lost; below the bound the server does
\* not notice.
WsSend(w) ==
    /\ wsPc[w] = "send"
    /\ \E c \in wsOut[w] :
         /\ \A d \in wsOut[w] : c <= d
         /\ w \in cut => deliveries[c] <= MaxDeliveries
         /\ wsOut' = [wsOut EXCEPT ![w] = @ \ {c}]
         /\ wsPc' = [wsPc EXCEPT ![w] = IF wsOut[w] = {c} THEN "wait" ELSE "send"]
         /\ down' = IF w \in cut THEN down ELSE [down EXCEPT ![w] = Append(@, c)]
    /\ UNCHANGED <<tableVars, dispatches, asked, view, req, wsMsg, cut, up, cVars, hVars, faults>>

\* db.get answers from the identity map when the row is there.
WsReceive(w) ==
    /\ wsPc[w] = "wait" /\ up[w] # <<>>
    /\ up' = [up EXCEPT ![w] = Tail(@)]
    /\ LET m == Head(up[w])
           c == m.cmd
       IN IF m.type = "hello"
          THEN /\ wsPc' = [wsPc EXCEPT ![w] = "poll"]
               /\ view' = [view EXCEPT ![w] = NotLoaded]
               /\ UNCHANGED wsMsg
          ELSE /\ wsPc' = [wsPc EXCEPT ![w] = "handle"]
               /\ view' = IF view[w][c] # "ABSENT" THEN view
                          ELSE [view EXCEPT ![w][c] = status[c]]
               /\ wsMsg' = [wsMsg EXCEPT ![w] = m]
    /\ UNCHANGED <<tableVars, dispatches, asked, req, wsOut, cut, down, cVars, hVars, faults>>

WsHandle(w) ==
    /\ wsPc[w] = "handle"
    /\ LET c == wsMsg[w].cmd
           new == IF view[w][c] \in Terminal THEN view[w][c]
                  ELSE IF wsMsg[w].type = "ack" THEN "RUNNING" ELSE wsMsg[w].verdict
       IN SetStatus(w, c, new)
    /\ wsPc' = [wsPc EXCEPT ![w] = "poll"]
    /\ wsMsg' = [wsMsg EXCEPT ![w] = Hello]
    /\ view' = [view EXCEPT ![w] = NotLoaded]
    /\ UNCHANGED <<dispatches, asked, req, wsOut, linkVars, cVars, hVars, faults>>

\* No message within ten seconds: poll again.
WsTimeout(w) ==
    /\ wsPc[w] = "wait"
    /\ wsPc' = [wsPc EXCEPT ![w] = "poll"]
    /\ view' = [view EXCEPT ![w] = NotLoaded]
    /\ UNCHANGED <<tableVars, dispatches, asked, req, wsOut, wsMsg, linkVars, cVars, hVars, faults>>

\* Sending or receiving on a cut connection ends the handler.
WsClose(w) ==
    /\ wsPc[w] \in {"send", "wait"} /\ w \in cut
    /\ wsPc' = [wsPc EXCEPT ![w] = "closed"]
    /\ wsOut' = [wsOut EXCEPT ![w] = {}]
    /\ view' = [view EXCEPT ![w] = NotLoaded]
    /\ up' = [up EXCEPT ![w] = <<>>]
    /\ UNCHANGED <<tableVars, dispatches, asked, req, wsMsg, cut, down, cVars, hVars, faults>>

-----------------------------------------------------------------------------
(* The command-channel thread of the agent. *)

CConnect(w) ==
    /\ cPc = "offline" /\ wsPc[w] = "closed"
    /\ wsPc' = [wsPc EXCEPT ![w] = "poll"]
    /\ cut' = cut \ {w}
    /\ down' = [down EXCEPT ![w] = <<>>]
    /\ up' = [up EXCEPT ![w] = <<Hello>>]
    /\ cConn' = w /\ cPc' = "recv" /\ wsFlag' = TRUE
    /\ UNCHANGED <<tableVars, dispatches, asked, view, req, wsOut, wsMsg, cCmd, cVerdict, hVars, faults>>

\* What the thread sends vanishes when the connection is cut.
Send(m) == up' = IF cConn \in cut THEN up ELSE [up EXCEPT ![cConn] = Append(@, m)]

\* Mutant of CReceive: the acknowledgement already reports success.
CReceiveReportsSuccess ==
    /\ cPc = "recv" /\ down[cConn] # <<>>
    /\ cCmd' = Head(down[cConn])
    /\ down' = [down EXCEPT ![cConn] = Tail(@)]
    /\ Send(Frame("result", Head(down[cConn]), "SUCCESS"))
    /\ cPc' = "dispatch"
    /\ UNCHANGED <<tableVars, dispatches, asked, serverVars, cut, wsFlag, cConn, cVerdict, hVars, faults>>

\* A command is acknowledged as soon as it is received, whatever its state.
CReceive ==
    /\ cPc = "recv" /\ down[cConn] # <<>>
    /\ cCmd' = Head(down[cConn])
    /\ down' = [down EXCEPT ![cConn] = Tail(@)]
    /\ Send(Frame("ack", Head(down[cConn]), "FAILED"))
    /\ cPc' = "dispatch"
    /\ UNCHANGED <<tableVars, dispatches, asked, serverVars, cut, wsFlag, cConn, cVerdict, hVars, faults>>

CDispatch ==
    /\ cPc = "dispatch"
    /\ dispatches' = [dispatches EXCEPT ![cCmd] = @ + 1]
    /\ cVerdict' \in Verdicts
    /\ cPc' = "report"
    /\ UNCHANGED <<tableVars, asked, serverVars, linkVars, wsFlag, cConn, cCmd, hVars, faults>>

CReport ==
    /\ cPc = "report"
    /\ Send(Frame("result", cCmd, cVerdict))
    /\ cPc' = "recv" /\ cCmd' = NoCmd /\ cVerdict' = "FAILED"
    /\ UNCHANGED <<tableVars, dispatches, asked, serverVars, cut, down, wsFlag, cConn, hVars, faults>>

\* A failed receive is turned into a ServerClientError, which the loop handles:
\* it clears the flag and reconnects later.
CReceiveFails ==
    /\ cPc = "recv" /\ cConn \in cut
    /\ cPc' = "offline" /\ cConn' = NoConn /\ wsFlag' = FALSE
    /\ UNCHANGED <<tableVars, dispatches, asked, serverVars, linkVars, cCmd, cVerdict, hVars, faults>>

\* A failed send is not: it leaves the loop, ends the thread and keeps the flag.
CSendFails ==
    /\ cConn \in cut
    /\ \/ cPc = "report"
       \/ cPc = "recv" /\ down[cConn] # <<>>
    /\ cPc' = "dead" /\ cConn' = NoConn /\ cCmd' = NoCmd /\ cVerdict' = "FAILED"
    /\ UNCHANGED <<tableVars, dispatches, asked, serverVars, linkVars, wsFlag, hVars, faults>>

-----------------------------------------------------------------------------
(* The service loop of the agent: pull over HTTP unless the WebSocket is   *)
(* connected, then acknowledge, dispatch and report command by command.    *)
(* The pull is the last part of a cycle: heartbeat, account sync, metrics  *)
(* and tasks come first, and an error in one of them ends the cycle.       *)

HSend(s, r) == /\ req[s] = Idle
               /\ req' = [req EXCEPT ![s] = r]
               /\ hSlot' = s

HPull(s) ==
    /\ hPc = "idle" /\ hQueue = {} /\ ~wsFlag /\ ~blocked
    /\ HSend(s, Request("pull", NoCmd, "FAILED"))
    /\ hPc' = "pull"
    /\ UNCHANGED <<tableVars, dispatches, asked, view, wsPc, wsOut, wsMsg, linkVars, cVars,
                   hCmd, hQueue, hVerdict, hRetried, blocked, faults>>

\* The reply arrives and the server thread is free again.
Answered == /\ hSlot # NoSlot /\ req[hSlot].stage = "done"
            /\ req' = [req EXCEPT ![hSlot] = Idle]
            /\ view' = [view EXCEPT ![hSlot] = NotLoaded]
            /\ hSlot' = NoSlot /\ hRetried' = FALSE

HPulled ==
    /\ hPc = "pull" /\ Answered
    /\ hQueue' = Loaded(hSlot)
    /\ hPc' = "idle"
    /\ UNCHANGED <<tableVars, dispatches, asked, wsPc, wsOut, wsMsg, linkVars, cVars,
                   hCmd, hVerdict, blocked, faults>>

HAck(s) ==
    /\ hPc = "idle"
    /\ \E c \in hQueue :
         /\ \A d \in hQueue : c <= d
         /\ hQueue' = hQueue \ {c}
         /\ hCmd' = c
         /\ HSend(s, Request("ack", c, "FAILED"))
    /\ hPc' = "ack"
    /\ UNCHANGED <<tableVars, dispatches, asked, view, wsPc, wsOut, wsMsg, linkVars, cVars,
                   hVerdict, hRetried, blocked, faults>>

\* A refused acknowledgement (409) skips the command; any other reply, one for
\* a command that is already terminal included, lets it run.
HAcked ==
    /\ hPc = "ack" /\ Answered
    /\ IF view[hSlot][hCmd] = "PENDING"
       THEN hPc' = "idle" /\ hCmd' = NoCmd
       ELSE hPc' = "dispatch" /\ UNCHANGED hCmd
    /\ UNCHANGED <<tableVars, dispatches, asked, wsPc, wsOut, wsMsg, linkVars, cVars,
                   hQueue, hVerdict, blocked, faults>>

HDispatch ==
    /\ hPc = "dispatch"
    /\ dispatches' = [dispatches EXCEPT ![hCmd] = @ + 1]
    /\ hVerdict' \in Verdicts
    /\ hPc' = "report"
    /\ UNCHANGED <<tableVars, asked, serverVars, linkVars, cVars, hSlot, hCmd, hQueue, hRetried, blocked, faults>>

HReport(s) ==
    /\ hPc = "report"
    /\ HSend(s, Request("result", hCmd, hVerdict))
    /\ hPc' = "result"
    /\ UNCHANGED <<tableVars, dispatches, asked, view, wsPc, wsOut, wsMsg, linkVars, cVars,
                   hCmd, hQueue, hVerdict, hRetried, blocked, faults>>

HReported ==
    /\ hPc = "result" /\ Answered
    /\ hPc' = "idle" /\ hCmd' = NoCmd /\ hVerdict' = "FAILED"
    /\ UNCHANGED <<tableVars, dispatches, asked, wsPc, wsOut, wsMsg, linkVars, cVars,
                   hQueue, blocked, faults>>

\* A request that failed on the direct route is sent again over the system proxy,
\* once; its first copy may still reach the server.
HResend(s) ==
    /\ hPc \in {"pull", "ack", "result"} /\ hSlot = NoSlot
    /\ HSend(s, Request(hPc, hCmd, IF hPc = "result" THEN hVerdict ELSE "FAILED"))
    /\ UNCHANGED <<tableVars, dispatches, asked, view, wsPc, wsOut, wsMsg, linkVars, cVars,
                   hPc, hCmd, hQueue, hVerdict, hRetried, blocked, faults>>

-----------------------------------------------------------------------------
(* Faults. *)

Fault == faults < MaxFaults /\ faults' = faults + 1

\* Nobody waits for the reply any more; the handler, if it has not finished,
\* runs on.
Forget ==
    LET done == {s \in Slots : s = hSlot /\ req[s].stage = "done"}
    IN /\ req' = [s \in Slots |-> IF s \in done THEN Idle ELSE req[s]]
       /\ view' = [x \in Sessions |-> IF x \in done THEN NotLoaded ELSE view[x]]
       /\ hSlot' = NoSlot

GiveUp == hPc' = "idle" /\ hCmd' = NoCmd /\ hVerdict' = "FAILED" /\ hRetried' = FALSE

\* The outstanding request fails: the second route is tried, or fails as well.
RequestFails ==
    \/ ~hRetried /\ hRetried' = TRUE /\ UNCHANGED <<hPc, hCmd, hVerdict>>
    \/ GiveUp

\* Mutant of HTimeout: a command whose result did not get through runs again.
HTimeoutRedispatches ==
    /\ hSlot # NoSlot /\ Fault
    /\ Forget
    /\ IF hPc = "result" THEN hPc' = "dispatch" /\ hRetried' = FALSE /\ UNCHANGED <<hCmd, hVerdict>>
                         ELSE RequestFails
    /\ UNCHANGED <<tableVars, dispatches, asked, wsPc, wsOut, wsMsg, linkVars, cVars,
                   hQueue, blocked>>

\* A request or its reply is lost, or comes too late.  A pull that failed on both
\* routes is repeated on the next cycle, an acknowledgement or a result is not.
HTimeout ==
    /\ hSlot # NoSlot /\ Fault
    /\ Forget
    /\ RequestFails
    /\ UNCHANGED <<tableVars, dispatches, asked, wsPc, wsOut, wsMsg, linkVars, cVars,
                   hQueue, blocked>>

\* The cycles begin to end before the pull: the server refuses the token, or a
\* result or an account list it is sent first (for good, possibly).
CycleBlocked ==
    /\ ~blocked /\ Fault
    /\ blocked' = TRUE
    /\ UNCHANGED <<tableVars, dispatches, asked, serverVars, linkVars, cVars,
                   hPc, hSlot, hCmd, hQueue, hVerdict, hRetried>>

\* What came first succeeds again; nothing obliges it to.
CycleCleared ==
    /\ blocked /\ blocked' = FALSE
    /\ UNCHANGED <<tableVars, dispatches, asked, serverVars, linkVars, cVars,
                   hPc, hSlot, hCmd, hQueue, hVerdict, hRetried, faults>>

\* The network breaks a connection and may lose what is in flight.
Cut(w) ==
    /\ wsPc[w] # "closed" /\ w \notin cut /\ Fault
    /\ cut' = cut \cup {w}
    /\ \E d \in {<<>>, down[w]} : down' = [down EXCEPT ![w] = d]
    /\ \E u \in {<<>>, up[w]} : up' = [up EXCEPT ![w] = u]
    /\ UNCHANGED <<tableVars, dispatches, asked, serverVars, cVars, hVars>>

\* The agent process ends and a new one starts with empty memory.
AgentRestart ==
    /\ Fault /\ Forget /\ GiveUp
    /\ cut' = cut \cup (Conns \cap {cConn})
    /\ cPc' = "offline" /\ cConn' = NoConn /\ cCmd' = NoCmd /\ cVerdict' = "FAILED" /\ wsFlag' = FALSE
    /\ hQueue' = {}
    /\ UNCHANGED <<tableVars, dispatches, asked, wsPc, wsOut, wsMsg, down, up, blocked>>

\* Handlers and sessions are gone, committed rows stay; the agent's request fails.
ServerRestart ==
    /\ Fault
    /\ req' = [s \in Slots |-> Idle]
    /\ view' = [x \in Sessions |-> NotLoaded]
    /\ cut' = cut \cup {w \in Conns : wsPc[w] # "closed"}
    /\ wsPc' = [w \in Conns |-> "closed"]
    /\ wsOut' = [w \in Conns |-> {}]
    /\ wsMsg' = [w \in Conns |-> Hello]
    /\ up' = [w \in Conns |-> <<>>]
    /\ hSlot' = NoSlot
    /\ IF hSlot = NoSlot THEN UNCHANGED <<hPc, hCmd, hVerdict, hRetried>> ELSE RequestFails
    /\ UNCHANGED <<tableVars, dispatches, asked, down, cVars, hQueue, blocked>>

-----------------------------------------------------------------------------
Server == \/ \E s \in Slots : HttpLoad(s) \/ PullCommit(s) \/ CommandCommit(s) \/ DropRequest(s)
          \/ \E w \in Conns : \/ WsPoll(w) \/ WsDeliver(w) \/ WsSend(w) \/ WsReceive(w)
                              \/ WsHandle(w) \/ WsTimeout(w) \/ WsClose(w)

CommandThread == \/ \E w \in Conns : CConnect(w)
                 \/ CReceive \/ CDispatch \/ CReport \/ CReceiveFails \/ CSendFails

ServiceLoop == \/ \E s \in Slots : HPull(s) \/ HAck(s) \/ HReport(s) \/ HResend(s)
               \/ HPulled \/ HAcked \/ HDispatch \/ HReported

User == \E c \in Commands : Create(c) \/ \E s \in Slots : Cancel(s, c)

Environment == \/ \E c \in Commands : ExpireLease(c)
               \/ HTimeout \/ AgentRestart \/ ServerRestart
               \/ CycleBlocked \/ CycleCleared
               \/ \E w \in Conns : Cut(w)

Next == Server \/ CommandThread \/ ServiceLoop \/ User \/ Environment

Spec == Init /\ [][Next]_vars

\* Every thread that can take a step takes one, clocks run on, and a frame that
\* keeps waiting is received.  Users and faults owe nothing, nor does a blocked
\* cycle: that the service loop reaches the pull is not assumed.
Fairness ==
    /\ \A s \in Slots : WF_vars(HttpLoad(s)) /\ WF_vars(PullCommit(s)) /\ WF_vars(CommandCommit(s))
    /\ \A w \in Conns : /\ WF_vars(WsPoll(w)) /\ WF_vars(WsDeliver(w)) /\ WF_vars(WsSend(w))
                        /\ SF_vars(WsReceive(w)) /\ WF_vars(WsHandle(w)) /\ WF_vars(WsTimeout(w))
                        /\ WF_vars(WsClose(w))
    /\ WF_vars(CReceive \/ CDispatch \/ CReport \/ CReceiveFails \/ CSendFails)
    /\ WF_vars(ServiceLoop)
    /\ \A c \in Commands : WF_vars(ExpireLease(c))

FairSpec == Spec /\ Fairness

-----------------------------------------------------------------------------
(* Properties. *)

Settled(c) == status[c] \in Terminal /\ ~Exposed(c)

Phase == [c \in Commands |-> IF status[c] = "ABSENT" THEN "absent"
                             ELSE IF Settled(c) THEN status[c] ELSE "open"]

Lifecycle == INSTANCE CommandLifecycle
                 WITH Outcomes <- Terminal, phase <- Phase, dispatched <- dispatches

\* Once a command is terminal and nobody works on it any more, its outcome never
\* changes and the agent never dispatches it again, whatever is delayed, lost or
\* restarted (the terminal checks of the ack, result and poll handlers).
ImplementsLifecycle == Lifecycle!Spec

Created == {c \in Commands : status[c] # "ABSENT"}

\* The inductive invariant, part one: whatever names a command names one that
\* was created, and a thread that works on a command has one.
NamesAreCreated ==
    /\ \A x \in Sessions : Loaded(x) \subseteq Created
    /\ \A s \in Slots : req[s].op \in {"cancel", "ack", "result"} => req[s].cmd \in Created
    /\ \A w \in Conns : /\ wsOut[w] \subseteq Created
                        /\ wsPc[w] = "handle" => wsMsg[w].cmd \in Created
                        /\ \A i \in DOMAIN down[w] : down[w][i] \in Created
                        /\ \A i \in DOMAIN up[w] : up[w][i].type # "hello" => up[w][i].cmd \in Created
    /\ cPc \in {"dispatch", "report"} => cCmd \in Created
    /\ hPc \in {"ack", "dispatch", "report", "result"} => hCmd \in Created
    /\ hQueue \subseteq Created

Dispatched == {c \in Commands : dispatches[c] > 0}

\* Part two: whoever says "SUCCESS" about a command, in a row, in a session or in
\* a message, says it of a command that was dispatched.
SuccessIsEvidence ==
    /\ \A c \in Commands : status[c] = "SUCCESS" => c \in Dispatched
    /\ \A x \in Sessions, c \in Commands : view[x][c] = "SUCCESS" => c \in Dispatched
    /\ \A s \in Slots : req[s].verdict = "SUCCESS" => req[s].cmd \in Dispatched
    /\ \A w \in Conns : /\ wsMsg[w].verdict = "SUCCESS" => wsMsg[w].cmd \in Dispatched
                        /\ \A i \in DOMAIN up[w] :
                             up[w][i].verdict = "SUCCESS" => up[w][i].cmd \in Dispatched
    /\ cPc = "report" => cCmd \in Dispatched
    /\ hPc \in {"report", "result"} => hCmd \in Dispatched

Deliverable == {"ABSENT", "PENDING", "DELIVERED"}

\* Part three: a session holds what its handler has loaded, and the request the
\* service loop waits for is the one its own step has sent.
SessionsHoldWhatTheyLoad ==
    /\ \A s \in Slots :
         /\ req[s].op = "pull" /\ req[s].stage \in {"loaded", "done"}
              => \A c \in Commands : view[s][c] \in Deliverable
         /\ req[s].op \in {"cancel", "ack", "result"} /\ req[s].stage = "loaded"
              => req[s].cmd \in Loaded(s)
    /\ \A w \in Conns :
         /\ wsPc[w] = "loaded" => \A c \in Commands : view[w][c] \in Deliverable
         /\ wsPc[w] = "handle" => wsMsg[w].cmd \in Loaded(w)
    /\ hSlot # NoSlot => hPc \in {"pull", "ack", "result"} /\ req[hSlot].op = hPc

\* TypeOK and the three parts together are inductive.
ChannelInv == TypeOK /\ NamesAreCreated /\ SuccessIsEvidence /\ SessionsHoldWhatTheyLoad

\* A command is recorded as successful only if the agent has dispatched it: no
\* timeout, lost connection or restart makes the server claim a success.
SuccessWasDispatched == \A c \in Commands : status[c] = "SUCCESS" => dispatches[c] > 0

\* The agent dispatches a command at most once for each delivery the server has
\* committed: losses and restarts never make the agent repeat work on its own.
OneDispatchPerDelivery == \A c \in Commands : dispatches[c] <= deliveries[c]

\* Why it holds: every copy of c that may still be dispatched, on the socket the
\* agent listens to, in a reply it waits for or in its hands, is a delivery of
\* which no dispatch has been made yet.
Bit(b) == IF b THEN 1 ELSE 0
Places(q, c) == {i \in DOMAIN q : q[i] = c}

OnSocket(c) ==
    IF cPc \in {"recv", "dispatch", "report"}
    THEN Bit(c \in wsOut[cConn]) + Cardinality(Places(down[cConn], c))
           + Bit(cPc = "dispatch" /\ cCmd = c)
    ELSE 0

OverHttp(c) ==
    Bit(hPc = "pull" /\ hSlot # NoSlot /\ req[hSlot].stage = "done" /\ c \in Loaded(hSlot))
      + Bit(c \in hQueue) + Bit(hPc \in {"ack", "dispatch"} /\ hCmd = c)

OnlySendersHoldCopies == \A w \in Conns : wsOut[w] # {} => wsPc[w] = "send"

DispatchesAreDelivered ==
    \A c \in Commands : dispatches[c] + OnSocket(c) + OverHttp(c) <= deliveries[c]

\* c is acknowledged, but nobody is left who will report its result.
Abandoned(c) == status[c] = "RUNNING" /\ ~Alive(c)

\* From some point on one of the channels works: the socket has its thread, or
\* without a socket the cycles of the service loop reach the pull.
ChannelServes == cPc # "dead" /\ (wsFlag \/ ~blocked)

\* Every command that is created settles, cancelled or not, over whichever channel
\* it travels and however often it is delivered again, unless its result is lost
\* after the acknowledgement, or both channels are out of service: the channel
\* thread has died with the pull held back, or the cycles end before the pull
\* (cycle_once) while there is no socket.
CommandsSettle ==
    <>[]ChannelServes =>
        \A c \in Commands : status[c] # "ABSENT" ~> Settled(c) \/ Abandoned(c)

\* Claimed by deploy/ubuntu/STAGE10C5_DEPLOY_ZH_CN.md: an acknowledgement or a
\* result for a command that is terminal leaves its outcome as it is.
AcksAndResultsKeepTerminal ==
    [][ (\/ \E w \in Conns : wsPc[w] = "handle" /\ wsPc'[w] # "handle"
         \/ \E s \in Slots : /\ req[s].op \in {"ack", "result"}
                             /\ req[s].stage = "loaded" /\ req'[s].stage # "loaded")
        => \A c \in Commands : status[c] \in Terminal => status'[c] = status[c] ]_vars

\* Claimed by deploy/ubuntu/STAGE10C2_DEPLOY_ZH_CN.md: a command an interruption
\* leaves unfinished is delivered again and ends.
InterruptedIsRecovered == \A c \in Commands : status[c] = "RUNNING" ~> status[c] \in Terminal

\* Claimed by deploy/ubuntu/STAGE10C4_DEPLOY_ZH_CN.md: when the WebSocket breaks the
\* agent falls back to HTTP pull, so the pull is held back only while the
\* command-channel thread is there to serve the socket.
PullIsHeldBackByALiveSocket == wsFlag => cPc # "dead"
=============================================================================
