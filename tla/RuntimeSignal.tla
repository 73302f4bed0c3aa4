----------------------------- MODULE RuntimeSignal -----------------------------
(***************************************************************************)
(* query cancel and session terminate, from the connection they open to    *)
(* what the service makes of the row that comes back.  The guard against   *)
(* signalling the wrong backend is written twice: as the CASE of the       *)
(* statement, on a snapshot of pg_stat_activity, and as the tests of       *)
(* _enforce_signal_result, on the returned row.  The signal itself goes to *)
(* whatever process holds the pid when it is sent.                         *)
(*                                                                         *)
(* The server is live: backends start, end, become idle, and take over the *)
(* pid of one that ended; a statement of ours runs on a backend of its own *)
(* which another operator may signal.                                      *)
(***************************************************************************)
EXTENDS Naturals

CONSTANTS
  Invocations,   \* the commands under way
  Pids,          \* process identifiers of the server, reused
  MaxBackends,   \* bound: how many backends are ever started
  Nobody         \* no backend, no row

ASSUME MaxBackendsAssumption == MaxBackends \in Nat

\* "shown" is whether our role may read the row of the backend: to a role
\* without pg_read_all_stats its backend_type and state are NULL.
Backend ==
  [id : 1 .. MaxBackends, client : BOOLEAN, active : BOOLEAN, shown : BOOLEAN]

BackendSignalResult ==
  [target_exists : BOOLEAN, self_target : BOOLEAN, client_backend : BOOLEAN,
   active_query : BOOLEAN, changed : BOOLEAN]

ExecutionBackend == [pid : Pids, id : 1 .. MaxBackends]

ASSUME NobodyAssumption ==
  Nobody \notin Backend \cup BackendSignalResult \cup ExecutionBackend

Operation == {"query.cancel", "session.terminate"}

SignalCommand == [operation : Operation, pid : Pids]

Ending ==
  {"none", "succeeded", "blocked", "not_found", "not_delivered", "failed"}

VARIABLES
  backend,   \* pid -> the backend that holds it, or Nobody
  born,      \* how many backends have been started
  pending,   \* the signals sent and not yet taken: backend id and operation
  command,   \* invocation -> what it asks
  at,        \* invocation -> how far it is
  own,       \* invocation -> its execution backend
  seen,      \* invocation -> the row of the target in its snapshot
  row,       \* invocation -> the row its statement returns
  hit,       \* invocation -> the backend it signalled, as it was then
  ending     \* invocation -> what the service makes of it

server == <<backend, born, pending>>
vars == <<server, command, at, own, seen, row, hit, ending>>

TypeOK ==
  /\ backend \in [Pids -> Backend \cup {Nobody}]
  /\ born \in 0 .. MaxBackends
  /\ pending \subseteq [id : 1 .. MaxBackends, operation : Operation]
  /\ command \in [Invocations -> SignalCommand]
  /\ at \in [Invocations ->
       {"ready", "looking", "signalling", "returning", "ended"}]
  /\ own \in [Invocations -> ExecutionBackend \cup {Nobody}]
  /\ seen \in [Invocations -> Backend \cup {Nobody}]
  /\ row \in [Invocations -> BackendSignalResult \cup {Nobody}]
  /\ hit \in [Invocations -> Backend \cup {Nobody}]
  /\ ending \in [Invocations -> Ending]

Init ==
  /\ backend = [pid \in Pids |-> Nobody]
  /\ born = 0
  /\ pending = {}
  /\ command \in [Invocations -> SignalCommand]
  /\ at = [i \in Invocations |-> "ready"]
  /\ own = [i \in Invocations |-> Nobody]
  /\ seen = [i \in Invocations |-> Nobody]
  /\ row = [i \in Invocations |-> Nobody]
  /\ hit = [i \in Invocations |-> Nobody]
  /\ ending = [i \in Invocations |-> "none"]

-----------------------------------------------------------------------------
(* The server and its other clients.                                        *)

\* The execution backend of i is there.
Alive(i) ==
  /\ own[i] # Nobody
  /\ backend[own[i].pid] # Nobody
  /\ backend[own[i].pid].id = own[i].id

Ours(pid) == \E i \in Invocations : Alive(i) /\ own[i].pid = pid

Start(pid, client, active, shown) ==
  /\ backend[pid] = Nobody
  /\ born < MaxBackends
  /\ born' = born + 1
  /\ backend' = [backend EXCEPT ![pid] =
       [id |-> born + 1, client |-> client, active |-> active,
        shown |-> shown]]

\* Another client connects, or a background worker is launched.
OthersStart(pid) ==
  /\ \E client, shown \in BOOLEAN : Start(pid, client, client, shown)
  /\ UNCHANGED <<pending, command, at, own, seen, row, hit, ending>>

OthersEnd(pid) ==
  /\ backend[pid] # Nobody /\ ~Ours(pid)
  /\ backend' = [backend EXCEPT ![pid] = Nobody]
  /\ UNCHANGED <<born, pending, command, at, own, seen, row, hit, ending>>

\* A client's query ends, or it sends the next one.
OthersQuery(pid) ==
  /\ backend[pid] # Nobody /\ backend[pid].client /\ ~Ours(pid)
  /\ backend' = [backend EXCEPT ![pid].active = ~@]
  /\ UNCHANGED <<born, pending, command, at, own, seen, row, hit, ending>>

\* A backend takes a signal: a termination ends it, a cancellation ends its
\* query, and a signal to a process that is gone is lost.
TakeSignal(signal) ==
  /\ signal \in pending
  /\ pending' = pending \ {signal}
  /\ backend' = [pid \in Pids |->
       IF backend[pid] = Nobody \/ backend[pid].id # signal.id THEN backend[pid]
       ELSE IF signal.operation = "session.terminate" THEN Nobody
       ELSE [backend[pid] EXCEPT !.active = FALSE]]
  /\ UNCHANGED <<born, command, at, own, seen, row, hit, ending>>

-----------------------------------------------------------------------------
(* One invocation: connect, run the statement, classify the row.            *)

Finish(i, result) ==
  /\ at' = [at EXCEPT ![i] = "ended"]
  /\ ending' = [ending EXCEPT ![i] = result]

\* The executor opens a connection for the statement: a client backend on a
\* pid nobody holds, which may be the very pid that was asked for.
Connect(i, pid) ==
  /\ at[i] = "ready"
  /\ Start(pid, TRUE, TRUE, TRUE)
  /\ own' = [own EXCEPT ![i] = [pid |-> pid, id |-> born + 1]]
  /\ at' = [at EXCEPT ![i] = "looking"]
  /\ UNCHANGED <<pending, command, seen, row, hit, ending>>

ConnectFails(i) ==
  /\ at[i] = "ready"
  /\ Finish(i, "failed")
  /\ UNCHANGED <<server, command, own, seen, row, hit>>

\* The statement still has its backend, and its query is not cancelled.
Running(i) == Alive(i) /\ backend[own[i].pid].active

\* The CTEs args and target: one snapshot of the row of the target.
Look(i) ==
  /\ at[i] = "looking" /\ Running(i)
  /\ seen' = [seen EXCEPT ![i] = backend[command[i].pid]]
  /\ at' = [at EXCEPT ![i] = "signalling"]
  /\ UNCHANGED <<server, command, own, row, hit, ending>>

TargetExists(i) == seen[i] # Nobody
SelfTarget(i) == command[i].pid = own[i].pid
ClientBackend(i) == TargetExists(i) /\ seen[i].shown /\ seen[i].client
ActiveQuery(i) == TargetExists(i) /\ seen[i].shown /\ seen[i].active

\* Faulty: the statement forgets that only an active query may be cancelled.
SparedUnlessIdle(i) == SelfTarget(i) \/ ~TargetExists(i) \/ ~ClientBackend(i)

\* Faulty: the statement leaves the test for its own backend to the service.
SparedUnlessSelf(i) ==
  \/ ~TargetExists(i)
  \/ ~ClientBackend(i)
  \/ command[i].operation = "query.cancel" /\ ~ActiveQuery(i)

\* The branches of the CASE that come before the ELSE.  TERMINATE_SESSION
\* does not look at the state.
Spared(i) ==
  \/ SelfTarget(i)
  \/ ~TargetExists(i)
  \/ ~ClientBackend(i)
  \/ command[i].operation = "query.cancel" /\ ~ActiveQuery(i)

Answer(i, changed) ==
  /\ row' = [row EXCEPT ![i] =
       [target_exists |-> TargetExists(i), self_target |-> SelfTarget(i),
        client_backend |-> ClientBackend(i),
        active_query |-> command[i].operation = "query.cancel" /\ ActiveQuery(i),
        changed |-> changed]]
  /\ at' = [at EXCEPT ![i] = "returning"]

\* One of the first branches: nothing is sent, changed is false.
Spare(i) ==
  /\ at[i] = "signalling" /\ Running(i)
  /\ Spared(i)
  /\ Answer(i, FALSE)
  /\ UNCHANGED <<server, command, own, seen, hit, ending>>

\* Faulty: both statements call pg_cancel_backend.
SignalCancelling(i) ==
  LET target == backend[command[i].pid]
  IN /\ at[i] = "signalling" /\ Running(i)
     /\ ~Spared(i)
     /\ target # Nobody
     /\ pending' = pending \cup {[id |-> target.id, operation |-> "query.cancel"]}
     /\ hit' = [hit EXCEPT ![i] = target]
     /\ Answer(i, TRUE)
     /\ UNCHANGED <<backend, born, command, own, seen, ending>>

\* ELSE: pg_cancel_backend or pg_terminate_backend, on the holder of the pid.
Signal(i) ==
  LET target == backend[command[i].pid]
  IN /\ at[i] = "signalling" /\ Running(i)
     /\ ~Spared(i)
     /\ target # Nobody
     /\ pending' = pending \cup
          {[id |-> target.id, operation |-> command[i].operation]}
     /\ hit' = [hit EXCEPT ![i] = target]
     /\ Answer(i, TRUE)
     /\ UNCHANGED <<backend, born, command, own, seen, ending>>

\* The function finds no such process any more and returns false.
SignalMisses(i) ==
  /\ at[i] = "signalling" /\ Running(i)
  /\ ~Spared(i)
  /\ backend[command[i].pid] = Nobody
  /\ Answer(i, FALSE)
  /\ UNCHANGED <<server, command, own, seen, hit, ending>>

\* Leaving the with block closes the connection; its backend and what the
\* statement held are gone.
Close(i) ==
  /\ backend' = [pid \in Pids |->
       IF Alive(i) /\ own[i].pid = pid THEN Nobody ELSE backend[pid]]
  /\ own' = [own EXCEPT ![i] = Nobody]
  /\ seen' = [seen EXCEPT ![i] = Nobody]
  /\ row' = [row EXCEPT ![i] = Nobody]

\* The role may not signal the process (42501), the connection breaks, or the
\* row cannot be mapped: FAILED, whatever was or was not sent.
StatementFails(i) ==
  /\ at[i] \in {"looking", "signalling", "returning"}
  /\ Finish(i, "failed")
  /\ Close(i)
  /\ UNCHANGED <<born, pending, command, hit>>

\* _enforce_signal_result, in the order of its tests.
SignalResult(i) ==
  LET r == row[i]
  IN CASE ~r.target_exists -> "not_found"
       [] r.target_exists /\ (r.self_target \/ ~r.client_backend) -> "blocked"
       [] r.target_exists /\ ~r.self_target /\ r.client_backend
            /\ command[i].operation = "query.cancel" /\ ~r.active_query
            -> "blocked"
       [] OTHER -> IF r.changed THEN "succeeded" ELSE "not_delivered"

\* The row arrives, the connection is closed and the result classified.
Conclude(i) ==
  /\ at[i] = "returning" /\ Running(i)
  /\ Finish(i, SignalResult(i))
  /\ Close(i)
  /\ UNCHANGED <<born, pending, command, hit>>

Advance(i) ==
  \/ Look(i) \/ Spare(i) \/ Signal(i) \/ SignalMisses(i)
  \/ StatementFails(i) \/ Conclude(i)

Step(i) == (\E pid \in Pids : Connect(i, pid)) \/ ConnectFails(i) \/ Advance(i)

Next ==
  \/ \E i \in Invocations : Step(i)
  \/ \E pid \in Pids : OthersStart(pid) \/ OthersEnd(pid) \/ OthersQuery(pid)
  \/ \E signal \in pending : TakeSignal(signal)

\* A live backend takes the signals sent to it.
Fairness ==
  \A signal \in [id : 1 .. MaxBackends, operation : Operation] :
    WF_vars(TakeSignal(signal))

Spec == Init /\ [][Next]_vars

FairSpec == Spec /\ Fairness

-----------------------------------------------------------------------------
(* Properties.                                                              *)

\* What the service reports agrees with what the server did: a command that
\* is audited BLOCKED, not found or not delivered has signalled nobody, and a
\* command that is audited SUCCEEDED has.  The two copies of the guard, the
\* CASE of the statement and _enforce_signal_result, must agree on every row.
ResultTellsTheSignal ==
  \A i \in Invocations :
    /\ ending[i] \in {"blocked", "not_found", "not_delivered"} => hit[i] = Nobody
    /\ ending[i] = "succeeded" => hit[i] # Nobody

\* Nobody signals the backend that runs their own statement, even when that
\* backend took over the pid the operator had in mind; and what is signalled
\* is a client backend unless another process took the pid after the look.
SignalIsAdmissible ==
  \A i \in Invocations : at[i] = "returning" /\ hit[i] # Nobody =>
    /\ hit[i].id # own[i].id
    /\ hit[i].client \/ hit[i].id # seen[i].id

Gone(target) ==
  \A pid \in Pids : backend[pid] = Nobody \/ backend[pid].id # target.id

\* A termination that is reported as done ends the session it was sent to.
TerminatedSessionsEnd ==
  \A i \in Invocations :
    (ending[i] = "succeeded" /\ command[i].operation = "session.terminate")
      ~> (hit[i] # Nobody /\ Gone(hit[i]))
===============================================================================
