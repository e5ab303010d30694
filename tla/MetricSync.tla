----------------------------- MODULE MetricSync -----------------------------
(***************************************************************************)
(* The counters of automation runs: the agent keeps one row per run in       *)
(* SQLite (agent/automation_statistics.py), the service loop and the         *)
(* completion callbacks send the rows that are not marked as uploaded        *)
(* (agent_service.py, server_client.py), and the server stores the first     *)
(* payload of a run (server/main.py).                                        *)
(*                                                                         *)
(* A payload is known by its run and by its time, its finished_at.           *)
(***************************************************************************)
EXTENDS Naturals

CONSTANTS Runs,       \* automation runs, each of one profile
          Foreign,    \* runs of an X account the server may never have for their profile
          Loop,       \* the thread of the service loop
          Callbacks,  \* threads of completion callbacks
          MaxTime     \* bound: upserts into the local table

Threads == {Loop} \cup Callbacks

ASSUME MetricAssumption == Runs # {} /\ Foreign \subseteq Runs /\ MaxTime \in Nat

VARIABLES
    time,       \* upserts so far: the clock of finished_at
    phase,      \* of each run
    local,      \* finished_at of the row of each run, 0 without a row
    uploaded,   \* runs whose row is marked
    synced,     \* runs whose profile and X account the server knows
    stored,     \* what the server stored of each run, 0 for nothing
    batch,      \* rows each thread has read and not sent
    row,        \* the row each thread is sending
    call,       \* where its request stands
    fallback,   \* threads whose request already goes through the system proxy
    late        \* requests whose client has given up on them

agentVars  == <<time, phase, local, uploaded>>
serverVars == <<synced, stored>>
sendVars   == <<batch, row, call, fallback>>
vars == <<agentVars, serverVars, sendVars, late>>

Rows     == [run : Runs, at : Nat]
Requests == [run : Runs, at : Nat, checked : BOOLEAN]

TypeOK ==
    /\ time \in Nat
    /\ phase \in [Runs -> {"new", "running", "over"}]
    /\ local \in [Runs -> Nat] /\ stored \in [Runs -> Nat]
    /\ uploaded \in SUBSET Runs /\ synced \in SUBSET Runs
    /\ batch \in [Threads -> SUBSET Rows]
    /\ row \in [Threads -> Rows]
    /\ call \in [Threads -> {"none", "sent", "checked", "accepted", "refused"}]
    /\ fallback \in SUBSET Threads
    /\ late \in SUBSET Requests

NoRow == [run |-> CHOOSE r \in Runs : TRUE, at |-> 0]

Init ==
    /\ time = 0
    /\ phase = [r \in Runs |-> "new"]
    /\ local = [r \in Runs |-> 0] /\ stored = [r \in Runs |-> 0]
    /\ uploaded = {} /\ synced = {}
    /\ batch = [t \in Threads |-> {}]
    /\ row = [t \in Threads |-> NoRow]
    /\ call = [t \in Threads |-> "none"]
    /\ fallback = {} /\ late = {}

-----------------------------------------------------------------------------
(* The local table. *)

\* _upsert_payload
Upsert(r) ==
    /\ time < MaxTime
    /\ time' = time + 1
    /\ local' = [local EXCEPT ![r] = time + 1]
    /\ uploaded' = uploaded \ {r}

\* record_progress, first before the engine is submitted, then from its thread
RecordProgress(r) ==
    /\ phase[r] # "over"
    /\ phase' = [phase EXCEPT ![r] = "running"]
    /\ Upsert(r)
    /\ UNCHANGED <<serverVars, sendVars, late>>

RecordResult(r) ==
    /\ phase[r] = "running"
    /\ phase' = [phase EXCEPT ![r] = "over"]
    /\ Upsert(r)
    /\ UNCHANGED <<serverVars, sendVars, late>>

\* pending()
Pending(t) ==
    /\ batch[t] = {} /\ call[t] = "none"
    /\ batch' = [batch EXCEPT ![t] = {[run |-> r, at |-> local[r]] :
                                         r \in {q \in Runs : local[q] # 0} \ uploaded}]
    /\ UNCHANGED <<agentVars, serverVars, row, call, fallback, late>>

-----------------------------------------------------------------------------
(* flush_automation_metrics and the request it makes for each row. *)

\* The earliest row first.
Send(t) ==
    /\ call[t] = "none"
    /\ \E x \in batch[t] : /\ \A y \in batch[t] : x.at <= y.at
                           /\ row' = [row EXCEPT ![t] = x]
                           /\ batch' = [batch EXCEPT ![t] = @ \ {x}]
    /\ call' = [call EXCEPT ![t] = "sent"]
    /\ UNCHANGED <<agentVars, serverVars, fallback, late>>

\* Mutant of Lookup: a run that is stored is refused like any other conflict.
LookupRefusingKnown(t) ==
    /\ call[t] = "sent"
    /\ call' = [call EXCEPT ![t] = IF stored[row[t].run] = 0 /\ row[t].run \in synced
                                   THEN "checked" ELSE "refused"]
    /\ UNCHANGED <<agentVars, serverVars, batch, row, fallback, late>>

\* sync_automation_metric: a run that is stored is answered with success, one whose
\* profile or account is missing, or has another X account, is refused with 409.
Lookup(t) ==
    /\ call[t] = "sent"
    /\ call' = [call EXCEPT ![t] = IF stored[row[t].run] # 0 THEN "accepted"
                                   ELSE IF row[t].run \in synced THEN "checked" ELSE "refused"]
    /\ UNCHANGED <<agentVars, serverVars, batch, row, fallback, late>>

\* Mutant of Insert: the insert that meets a row of the run replaces it.
Overwrite(t) ==
    /\ call[t] = "checked"
    /\ stored' = [stored EXCEPT ![row[t].run] = row[t].at]
    /\ call' = [call EXCEPT ![t] = "accepted"]
    /\ UNCHANGED <<agentVars, synced, batch, row, fallback, late>>

\* run_id is unique: who comes second gets an error of the database, a 500.
Insert(t) ==
    /\ call[t] = "checked"
    /\ IF stored[row[t].run] = 0
       THEN /\ stored' = [stored EXCEPT ![row[t].run] = row[t].at]
            /\ call' = [call EXCEPT ![t] = "accepted"]
       ELSE /\ call' = [call EXCEPT ![t] = "refused"]
            /\ UNCHANGED stored
    /\ UNCHANGED <<agentVars, synced, batch, row, fallback, late>>

\* The request as it stands at the server, which does not know that nobody waits.
InFlight(t) == IF call[t] \in {"sent", "checked"}
               THEN {[run |-> row[t].run, at |-> row[t].at, checked |-> call[t] = "checked"]}
               ELSE {}

\* A timeout or a broken connection: _request sends it again through the system proxy,
\* and only then gives up.
CallFails(t) ==
    /\ call[t] \in {"sent", "checked", "accepted"}
    /\ late' = late \cup InFlight(t)
    /\ call' = [call EXCEPT ![t] = IF t \in fallback THEN "refused" ELSE "sent"]
    /\ fallback' = fallback \cup {t}
    /\ UNCHANGED <<agentVars, serverVars, batch, row>>

\* Mutant of MarkUploaded: a row is marked whatever the answer was.
MarkAnyway(t) ==
    /\ call[t] \in {"accepted", "refused"}
    /\ uploaded' = uploaded \cup {row[t].run}
    /\ call' = [call EXCEPT ![t] = "none"]
    /\ row' = [row EXCEPT ![t] = NoRow]
    /\ fallback' = fallback \ {t}
    /\ UNCHANGED <<time, phase, local, serverVars, batch, late>>

MarkUploaded(t) ==
    /\ call[t] = "accepted"
    /\ uploaded' = uploaded \cup {row[t].run}
    /\ call' = [call EXCEPT ![t] = "none"]
    /\ row' = [row EXCEPT ![t] = NoRow]
    /\ fallback' = fallback \ {t}
    /\ UNCHANGED <<time, phase, local, serverVars, batch, late>>

\* An error ends the flush; the rows stay pending.
Break(t) ==
    /\ call[t] = "refused"
    /\ batch' = [batch EXCEPT ![t] = {}]
    /\ call' = [call EXCEPT ![t] = "none"]
    /\ row' = [row EXCEPT ![t] = NoRow]
    /\ fallback' = fallback \ {t}
    /\ UNCHANGED <<agentVars, serverVars, late>>

-----------------------------------------------------------------------------
(* Late requests, the synchronisation of accounts, restarts. *)

LateLookup(q) ==
    /\ q \in late /\ ~q.checked
    /\ stored[q.run] = 0 /\ q.run \in synced
    /\ late' = (late \ {q}) \cup {[q EXCEPT !.checked = TRUE]}
    /\ UNCHANGED <<agentVars, serverVars, sendVars>>

LateInsert(q) ==
    /\ q \in late /\ q.checked /\ stored[q.run] = 0
    /\ stored' = [stored EXCEPT ![q.run] = q.at]
    /\ late' = late \ {q}
    /\ UNCHANGED <<agentVars, synced, sendVars>>

\* It was lost on the way, or ends without a change.
LateEnds(q) ==
    /\ q \in late
    /\ late' = late \ {q}
    /\ UNCHANGED <<agentVars, serverVars, sendVars>>

\* sync_accounts_once; for a foreign run, its account is back on the profile.
SyncProfile(r) ==
    /\ r \notin synced
    /\ synced' = synced \cup {r}
    /\ UNCHANGED <<agentVars, stored, sendVars, late>>

\* The application ends: a run that was going on gets no result any more.
Restart ==
    /\ phase' = [r \in Runs |-> IF phase[r] = "running" THEN "over" ELSE phase[r]]
    /\ batch' = [t \in Threads |-> {}]
    /\ call' = [t \in Threads |-> "none"]
    /\ row' = [t \in Threads |-> NoRow]
    /\ fallback' = {}
    /\ late' = late \cup UNION {InFlight(t) : t \in Threads}
    /\ UNCHANGED <<time, local, uploaded, serverVars>>

-----------------------------------------------------------------------------
Next == \/ \E r \in Runs : RecordProgress(r) \/ RecordResult(r) \/ SyncProfile(r)
        \/ \E t \in Threads : \/ Pending(t) \/ Send(t) \/ Lookup(t) \/ Insert(t)
                              \/ MarkUploaded(t) \/ Break(t) \/ CallFails(t)
        \/ \E q \in late : LateLookup(q) \/ LateInsert(q) \/ LateEnds(q)
        \/ Restart

Spec == Init /\ [][Next]_vars

\* The service loop flushes in every cycle, after it has synchronised the accounts, and
\* a network that fails at any moment does not fail for ever.  The callbacks, each of
\* which flushes once, owe nothing.
Fairness ==
    /\ \A r \in Runs \ Foreign : WF_vars(SyncProfile(r))
    /\ SF_vars(Pending(Loop) \/ Break(Loop)) /\ SF_vars(Send(Loop))
    /\ SF_vars(Lookup(Loop)) /\ SF_vars(Insert(Loop)) /\ SF_vars(MarkUploaded(Loop))

FairSpec == Spec /\ Fairness

-----------------------------------------------------------------------------
(* Properties. *)

\* A row is marked only when the server has the run, though answers are lost, requests
\* are repeated and run on after their client has given up, and a second flush runs at
\* the same time; and the server never has counters that were not recorded.
MarkedIsStored == \A r \in uploaded : stored[r] # 0

FlushInv ==
    /\ MarkedIsStored
    /\ \A r \in Runs : local[r] <= time /\ stored[r] <= local[r]
    /\ \A t \in Threads : \A x \in batch[t] : x.at # 0 /\ x.at <= local[x.run]
    /\ \A t \in Threads : call[t] # "none" => row[t].at # 0 /\ row[t].at <= local[row[t].run]
    /\ \A t \in Threads : call[t] = "accepted" => stored[row[t].run] # 0
    /\ \A q \in late : q.at # 0 /\ q.at <= local[q.run]

MetricInv == TypeOK /\ FlushInv

\* A run is counted once, with the counters of one payload: no repeated, concurrent or
\* late request changes what the server has stored.
CountedOnce == [][\A r \in Runs : stored[r] # 0 => stored'[r] = stored[r]]_vars

\* A refused row that is first in the queue: the flush ends there in every cycle.
Blocks(f, r) == f \notin uploaded /\ local[f] \in 1..local[r]

\* Some payload of every run, not always its last, reaches the server's table and the
\* row is marked, whatever calls fail in between and whichever rows are refused at
\* first; only a row that is refused for good, and is older, keeps those behind it.
RunsAreReported ==
    \A r \in Runs \ Foreign :
        local[r] # 0 ~> (r \in uploaded \/ \E f \in Foreign : Blocks(f, r))

\* flush_automation_metrics uploads "locally persisted counters" and retains those it
\* did not deliver: when a run is over and its row marked, the server has that row.
UploadedIsCurrent == \A r \in uploaded : phase[r] = "over" => stored[r] = local[r]
=============================================================================
