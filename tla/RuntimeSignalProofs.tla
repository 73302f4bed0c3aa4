--------------------------- MODULE RuntimeSignalProofs ---------------------------
(***************************************************************************)
(* Theorems about RuntimeSignal, for any number of invocations, any set of *)
(* pids and any number of backends that come and go.                       *)
(***************************************************************************)
EXTENDS RuntimeSignal, TLAPS

-----------------------------------------------------------------------------
(* The server: who holds which pid.                                         *)

(***************************************************************************)
(* No backend is older than the count of those started, no two pids hold   *)
(* the same backend, and what an invocation remembers of a backend agrees  *)
(* with the backend, as long as it is there.                               *)
(***************************************************************************)
Distinct ==
  \A p, q \in Pids : backend[p] # Nobody /\ backend[q] # Nobody
                       /\ backend[p].id = backend[q].id => p = q

Remembered ==
  \A i \in Invocations : seen[i] # Nobody =>
    /\ seen[i].id <= born
    /\ \A p \in Pids : backend[p] # Nobody /\ backend[p].id = seen[i].id
                         => backend[p].client = seen[i].client

ServerInv ==
  /\ backend \in [Pids -> Backend \cup {Nobody}]
  /\ born \in 0 .. MaxBackends
  /\ \A p \in Pids : backend[p] # Nobody => backend[p].id <= born
  /\ Distinct
  /\ seen \in [Invocations -> Backend \cup {Nobody}]
  /\ command \in [Invocations -> SignalCommand]
  /\ Remembered

\* Nothing is added: every backend that is left is the one it was, but for
\* its activity; seen may have been forgotten.
Shrinks ==
  /\ backend' \in [Pids -> Backend \cup {Nobody}]
  /\ \A p \in Pids : backend'[p] # Nobody =>
       /\ backend[p] # Nobody
       /\ backend'[p].id = backend[p].id /\ backend'[p].client = backend[p].client
  /\ born' = born /\ command' = command
  /\ seen' \in [Invocations -> Backend \cup {Nobody}]
  /\ \A i \in Invocations : seen'[i] \in {seen[i], Nobody}

LEMMA ShrinkingServer == ASSUME ServerInv, Shrinks PROVE ServerInv'
<1>1. Distinct'
  BY DEF ServerInv, Shrinks, Distinct
<1>2. Remembered'
  BY DEF ServerInv, Shrinks, Remembered
<1>3. \A p \in Pids : backend'[p] # Nobody => backend'[p].id <= born'
  BY DEF ServerInv, Shrinks
<1>. QED BY <1>1, <1>2, <1>3 DEF ServerInv, Shrinks

LEMMA StartingServer ==
  ASSUME ServerInv, NEW pid \in Pids, NEW client \in BOOLEAN,
         NEW active \in BOOLEAN, NEW shown \in BOOLEAN,
         Start(pid, client, active, shown), UNCHANGED <<seen, command>>
  PROVE  ServerInv'
<1> DEFINE new == [id |-> born + 1, client |-> client, active |-> active,
                   shown |-> shown]
<1>1. born \in Nat /\ born < MaxBackends /\ born' = born + 1
      /\ born + 1 \in 1 .. MaxBackends
  BY MaxBackendsAssumption DEF ServerInv, Start
<1>2. new \in Backend /\ new # Nobody /\ new.id = born + 1
  BY <1>1, NobodyAssumption DEF Backend
<1>3. backend' = [backend EXCEPT ![pid] = new]
  BY DEF Start
<1> HIDE DEF new
<1>4. backend' \in [Pids -> Backend \cup {Nobody}]
      /\ \A p \in Pids : backend'[p] = IF p = pid THEN new ELSE backend[p]
  BY <1>2, <1>3 DEF ServerInv
<1>5. \A p \in Pids : backend[p] # Nobody => backend[p].id \in Nat /\ backend[p].id <= born
  BY DEF ServerInv, Backend
<1>6. \A p \in Pids : backend'[p] # Nobody => backend'[p].id <= born'
  BY <1>1, <1>2, <1>4, <1>5
<1>7. Distinct'
  BY <1>1, <1>2, <1>4, <1>5 DEF Distinct, ServerInv
<1>8. \A i \in Invocations : seen[i] # Nobody => seen[i].id \in Nat
  BY DEF ServerInv, Backend
<1>9. Remembered'
  BY <1>1, <1>2, <1>4, <1>8 DEF Remembered, ServerInv
<1>. QED BY <1>1, <1>4, <1>6, <1>7, <1>9 DEF ServerInv

LEMMA SameServer ==
  ASSUME ServerInv, UNCHANGED <<backend, born, seen, command>> PROVE ServerInv'
BY DEF ServerInv, Distinct, Remembered

\* Closing a connection ends at most a backend.
LEMMA ClosingServer ==
  ASSUME ServerInv, NEW i \in Invocations, Close(i), UNCHANGED <<born, command>>
  PROVE  ServerInv'
<1>1. Shrinks
  BY DEF Close, Shrinks, ServerInv
<1>. QED BY <1>1, ShrinkingServer

\* A look remembers a backend as it is.
LEMMA LookingServer ==
  ASSUME ServerInv, NEW i \in Invocations,
         seen' = [seen EXCEPT ![i] = backend[command[i].pid]],
         UNCHANGED <<backend, born, command>>
  PROVE  ServerInv'
<1>1. command[i].pid \in Pids
  BY DEF ServerInv, SignalCommand
<1>2. /\ seen' \in [Invocations -> Backend \cup {Nobody}]
      /\ \A j \in Invocations :
           seen'[j] = IF j = i THEN backend[command[i].pid] ELSE seen[j]
  BY <1>1 DEF ServerInv
<1>3. Remembered'
  BY <1>1, <1>2 DEF ServerInv, Remembered, Distinct
<1>. QED BY <1>2, <1>3 DEF ServerInv, Distinct

\* Whoever moves, the server stays as ServerInv says.
LEMMA StepServer == TypeOK /\ ServerInv /\ [Next]_vars => ServerInv'
<1> SUFFICES ASSUME TypeOK, ServerInv, [Next]_vars PROVE ServerInv'
  OBVIOUS
<1>1. ASSUME NEW i \in Invocations, Step(i) PROVE ServerInv'
  <2>1. CASE \E pid \in Pids : Connect(i, pid)
    <3>1. PICK pid \in Pids : Connect(i, pid)
      BY <2>1
    <3>. QED BY <3>1, StartingServer DEF Connect
  <2>2. CASE Look(i)
    BY <2>2, LookingServer DEF Look, server
  <2>3. CASE ConnectFails(i) \/ Spare(i) \/ Signal(i) \/ SignalMisses(i)
    BY <2>3, SameServer DEF ConnectFails, Spare, Signal, SignalMisses, server
  <2>4. CASE StatementFails(i) \/ Conclude(i)
    BY <2>4, ClosingServer DEF StatementFails, Conclude
  <2>. QED BY <1>1, <2>1, <2>2, <2>3, <2>4 DEF Step, Advance
<1>2. ASSUME NEW pid \in Pids, OthersStart(pid) PROVE ServerInv'
  BY <1>2, StartingServer DEF OthersStart
<1>3. ASSUME NEW pid \in Pids, OthersEnd(pid) PROVE ServerInv'
  <2>1. Shrinks
    BY <1>3 DEF OthersEnd, Shrinks, ServerInv
  <2>. QED BY <2>1, ShrinkingServer
<1>4. ASSUME NEW pid \in Pids, OthersQuery(pid) PROVE ServerInv'
  <2>1. backend[pid] \in Backend
    BY <1>4 DEF OthersQuery, ServerInv
  <2> DEFINE turned == [backend[pid] EXCEPT !.active = ~@]
  <2>2. turned \in Backend /\ turned.id = backend[pid].id
        /\ turned.client = backend[pid].client
    BY <2>1 DEF Backend
  <2>3. backend' = [backend EXCEPT ![pid] = turned]
    BY <1>4 DEF OthersQuery
  <2> HIDE DEF turned
  <2>4. Shrinks
    BY <1>4, <2>2, <2>3 DEF OthersQuery, Shrinks, ServerInv
  <2>. QED BY <2>4, ShrinkingServer
<1>5. ASSUME NEW signal \in pending, TakeSignal(signal) PROVE ServerInv'
  <2> DEFINE calmed(p) == [backend[p] EXCEPT !.active = FALSE]
  <2>1. \A p \in Pids : backend[p] # Nobody =>
          /\ calmed(p) \in Backend /\ calmed(p).id = backend[p].id
          /\ calmed(p).client = backend[p].client
    BY DEF ServerInv, Backend
  <2>2. backend' = [p \in Pids |->
          IF backend[p] = Nobody \/ backend[p].id # signal.id THEN backend[p]
          ELSE IF signal.operation = "session.terminate" THEN Nobody
          ELSE calmed(p)]
    BY <1>5 DEF TakeSignal
  <2> HIDE DEF calmed
  <2>3. backend' \in [Pids -> Backend \cup {Nobody}]
    BY <2>1, <2>2 DEF ServerInv
  <2>4. \A p \in Pids : backend'[p] # Nobody =>
          /\ backend[p] # Nobody
          /\ backend'[p].id = backend[p].id /\ backend'[p].client = backend[p].client
    BY <2>1, <2>2
  <2>5. Shrinks
    BY <1>5, <2>3, <2>4 DEF TakeSignal, Shrinks, ServerInv
  <2>. QED BY <2>5, ShrinkingServer
<1>6. CASE UNCHANGED vars
  BY <1>6, SameServer DEF vars, server
<1>. QED BY <1>1, <1>2, <1>3, <1>4, <1>5, <1>6 DEF Next

-----------------------------------------------------------------------------
(* Type correctness.                                                        *)

LEMMA InitSignals == Init => TypeOK /\ ServerInv
BY MaxBackendsAssumption, NobodyAssumption
   DEF Init, TypeOK, ServerInv, Distinct, Remembered, SignalCommand, Ending

\* What the statement answers is a row of five truth values.
LEMMA AnswerTyped ==
  ASSUME TypeOK, NEW i \in Invocations, NEW changed \in BOOLEAN, Answer(i, changed)
  PROVE  /\ row' \in [Invocations -> BackendSignalResult \cup {Nobody}]
         /\ at' \in [Invocations ->
              {"ready", "looking", "signalling", "returning", "ended"}]
         /\ at' = [at EXCEPT ![i] = "returning"]
         /\ \A j \in Invocations \ {i} : row'[j] = row[j]
         /\ row'[i] \in BackendSignalResult
         /\ row'[i].target_exists <=> TargetExists(i)
         /\ row'[i].self_target <=> SelfTarget(i)
         /\ row'[i].client_backend <=> ClientBackend(i)
         /\ row'[i].active_query <=>
              command[i].operation = "query.cancel" /\ ActiveQuery(i)
         /\ row'[i].changed <=> changed
<1> DEFINE e == TargetExists(i)
           s == SelfTarget(i)
           c == ClientBackend(i)
           a == command[i].operation = "query.cancel" /\ ActiveQuery(i)
           r == [target_exists |-> e, self_target |-> s, client_backend |-> c,
                 active_query |-> a, changed |-> changed]
<1>1. row' = [row EXCEPT ![i] = r] /\ at' = [at EXCEPT ![i] = "returning"]
  BY DEF Answer
<1>2. e \in BOOLEAN /\ s \in BOOLEAN /\ c \in BOOLEAN /\ a \in BOOLEAN
  <2>1. seen[i] # Nobody => seen[i] \in Backend
    BY DEF TypeOK
  <2>2. seen[i] # Nobody => seen[i].shown \in BOOLEAN /\ seen[i].client \in BOOLEAN
                             /\ seen[i].active \in BOOLEAN
    BY <2>1 DEF Backend
  <2>3. e \in BOOLEAN /\ s \in BOOLEAN
    BY Zenon DEF TargetExists, SelfTarget
  <2>4. c \in BOOLEAN
    BY <2>2, Zenon DEF ClientBackend, TargetExists
  <2>5. a \in BOOLEAN
    BY <2>2, Zenon DEF ActiveQuery, TargetExists
  <2>. QED BY <2>3, <2>4, <2>5
<1> HIDE DEF e, s, c, a
<1>3. r \in BackendSignalResult
  BY <1>2 DEF BackendSignalResult
<1>4. /\ r.target_exists = e /\ r.self_target = s /\ r.client_backend = c
      /\ r.active_query = a /\ r.changed = changed
  BY Zenon
<1> HIDE DEF r
<1>5. /\ row' \in [Invocations -> BackendSignalResult \cup {Nobody}]
      /\ row'[i] = r /\ \A j \in Invocations \ {i} : row'[j] = row[j]
  BY <1>1, <1>3 DEF TypeOK
<1>6. at' \in [Invocations ->
        {"ready", "looking", "signalling", "returning", "ended"}]
  BY <1>1 DEF TypeOK
<1>7. /\ e <=> TargetExists(i)
      /\ s <=> SelfTarget(i)
      /\ c <=> ClientBackend(i)
      /\ a <=> command[i].operation = "query.cancel" /\ ActiveQuery(i)
  BY Zenon DEF e, s, c, a
<1>. QED BY <1>1, <1>3, <1>4, <1>5, <1>6, <1>7, Zenon

\* The rows of the others stay.
LEMMA AnswerMoves ==
  ASSUME TypeOK, NEW i \in Invocations, NEW changed \in BOOLEAN, Answer(i, changed)
  PROVE  /\ at'[i] = "returning"
         /\ \A j \in Invocations \ {i} : at'[j] = at[j] /\ row'[j] = row[j]
<1>1. at' = [at EXCEPT ![i] = "returning"]
      /\ \A j \in Invocations \ {i} : row'[j] = row[j]
  BY AnswerTyped
<1>. QED BY <1>1 DEF TypeOK

LEMMA ResultTyped == ASSUME NEW i \in Invocations PROVE SignalResult(i) \in Ending
BY DEF SignalResult, Ending

LEMMA CloseTyped ==
  ASSUME TypeOK, NEW i \in Invocations, Close(i)
  PROVE  /\ backend' \in [Pids -> Backend \cup {Nobody}]
         /\ own' \in [Invocations -> ExecutionBackend \cup {Nobody}]
         /\ seen' \in [Invocations -> Backend \cup {Nobody}]
         /\ row' \in [Invocations -> BackendSignalResult \cup {Nobody}]
BY DEF TypeOK, Close

LEMMA FinishTyped ==
  ASSUME TypeOK, NEW i \in Invocations, NEW result \in Ending, Finish(i, result)
  PROVE  /\ at' \in [Invocations ->
              {"ready", "looking", "signalling", "returning", "ended"}]
         /\ ending' \in [Invocations -> Ending]
         /\ at'[i] = "ended" /\ ending'[i] = result
         /\ \A j \in Invocations \ {i} : at'[j] = at[j] /\ ending'[j] = ending[j]
BY DEF TypeOK, Finish

LEMMA StepTyped == TypeOK /\ ServerInv /\ [Next]_vars => TypeOK'
<1> SUFFICES ASSUME TypeOK, ServerInv, [Next]_vars PROVE TypeOK'
  OBVIOUS
<1>0. /\ backend' \in [Pids -> Backend \cup {Nobody}]
      /\ born' \in 0 .. MaxBackends
      /\ seen' \in [Invocations -> Backend \cup {Nobody}]
      /\ command' \in [Invocations -> SignalCommand]
  BY StepServer DEF ServerInv
<1>1. ASSUME NEW i \in Invocations, Step(i) PROVE TypeOK'
  <2>1. CASE \E pid \in Pids : Connect(i, pid)
    <3>1. PICK pid \in Pids : Connect(i, pid)
      BY <2>1
    <3>2. born + 1 \in 1 .. MaxBackends
      BY <3>1, MaxBackendsAssumption DEF Connect, Start, TypeOK
    <3>3. own' \in [Invocations -> ExecutionBackend \cup {Nobody}]
      BY <3>1, <3>2 DEF Connect, TypeOK, ExecutionBackend
    <3>. QED BY <1>0, <3>1, <3>3 DEF Connect, TypeOK
  <2>2. CASE ConnectFails(i)
    BY <1>0, <2>2, FinishTyped DEF ConnectFails, TypeOK, server, Ending
  <2>3. CASE Look(i)
    BY <1>0, <2>3 DEF Look, TypeOK, server
  <2>4. CASE Spare(i) \/ SignalMisses(i)
    BY <1>0, <2>4, AnswerTyped DEF Spare, SignalMisses, TypeOK, server
  <2>5. CASE Signal(i)
    <3> DEFINE target == backend[command[i].pid]
               sent == [id |-> target.id, operation |-> command[i].operation]
    <3>1. target \in Backend /\ target # Nobody
      BY <2>5 DEF Signal, TypeOK, SignalCommand
    <3>2. sent \in [id : 1 .. MaxBackends, operation : Operation]
      BY <3>1 DEF TypeOK, SignalCommand, Backend
    <3>3. pending' = pending \cup {sent} /\ hit' = [hit EXCEPT ![i] = target]
          /\ Answer(i, TRUE) /\ UNCHANGED <<backend, born, command, own, seen, ending>>
      BY <2>5 DEF Signal
    <3> HIDE DEF target, sent
    <3>4. pending' \subseteq [id : 1 .. MaxBackends, operation : Operation]
      BY <3>2, <3>3 DEF TypeOK
    <3>5. hit' \in [Invocations -> Backend \cup {Nobody}]
      BY <3>1, <3>3 DEF TypeOK
    <3>. QED BY <1>0, <3>3, <3>4, <3>5, AnswerTyped DEF TypeOK
  <2>6. CASE StatementFails(i)
    BY <1>0, <2>6, CloseTyped, FinishTyped DEF StatementFails, TypeOK, Ending
  <2>7. CASE Conclude(i)
    <3>1. SignalResult(i) \in Ending /\ Finish(i, SignalResult(i)) /\ Close(i)
      BY <2>7, ResultTyped DEF Conclude
    <3>2. ending' \in [Invocations -> Ending]
      BY <3>1, FinishTyped
    <3>. QED BY <1>0, <2>7, <3>1, <3>2, CloseTyped, FinishTyped DEF Conclude, TypeOK
  <2>. QED BY <1>1, <2>1, <2>2, <2>3, <2>4, <2>5, <2>6, <2>7 DEF Step, Advance
<1>2. CASE \E pid \in Pids : OthersStart(pid) \/ OthersEnd(pid) \/ OthersQuery(pid)
  BY <1>0, <1>2 DEF OthersStart, OthersEnd, OthersQuery, TypeOK
<1>3. CASE \E signal \in pending : TakeSignal(signal)
  BY <1>0, <1>3 DEF TakeSignal, TypeOK
<1>4. CASE UNCHANGED vars
  BY <1>0, <1>4 DEF vars, server, TypeOK
<1>. QED BY <1>1, <1>2, <1>3, <1>4 DEF Next

\* Every variable of the signal commands keeps its type, and the server never
\* has one backend on two pids.
THEOREM TypeCorrect == Spec => []TypeOK
<1>1. TypeOK /\ ServerInv /\ [Next]_vars => (TypeOK /\ ServerInv)'
  BY StepTyped, StepServer
<1>. QED BY <1>1, InitSignals, PTL DEF Spec

-----------------------------------------------------------------------------
(* What the row tells of the signal.                                        *)

(***************************************************************************)
(* Until the statement answers nobody was signalled.  From the answer on   *)
(* the row says of whom the statement took the target for exactly what the *)
(* CASE demanded before it signalled, so that _enforce_signal_result finds *)
(* nothing to object to in a row whose signal went out.                    *)
(***************************************************************************)
Answered(i) ==
  /\ row[i] \in BackendSignalResult
  /\ row[i].changed <=> hit[i] # Nobody
  /\ hit[i] # Nobody =>
       /\ row[i].target_exists /\ ~row[i].self_target /\ row[i].client_backend
       /\ command[i].operation = "query.cancel" => row[i].active_query
       /\ hit[i].id # own[i].id
       /\ hit[i].client \/ hit[i].id # seen[i].id

Told(i) ==
  /\ ending[i] \in {"blocked", "not_found", "not_delivered"} => hit[i] = Nobody
  /\ ending[i] = "succeeded" => hit[i] # Nobody

SignalInv ==
  \A i \in Invocations :
    /\ at[i] \in {"ready", "looking", "signalling"} =>
         hit[i] = Nobody /\ ending[i] = "none"
    /\ at[i] = "returning" => ending[i] = "none" /\ Answered(i)
    /\ Told(i)

IInv == TypeOK /\ ServerInv /\ SignalInv

LEMMA InitInv == Init => IInv
BY InitSignals DEF Init, IInv, SignalInv, Told

\* The row of a signal that went out passes every test of the service.
LEMMA ConcludedTells ==
  ASSUME IInv, NEW i \in Invocations, at[i] = "returning",
         ending'[i] = SignalResult(i), hit' = hit
  PROVE  Told(i)'
<1>1. Answered(i)
  BY DEF IInv, SignalInv
<1> DEFINE r == row[i]
<1>2. /\ r.target_exists \in BOOLEAN /\ r.self_target \in BOOLEAN
      /\ r.client_backend \in BOOLEAN /\ r.active_query \in BOOLEAN
      /\ r.changed \in BOOLEAN
  BY <1>1 DEF Answered, BackendSignalResult
<1>3. CASE hit[i] = Nobody
  <2>1. ~r.changed
    BY <1>1, <1>3 DEF Answered
  <2>2. SignalResult(i) # "succeeded"
    BY <1>2, <2>1 DEF SignalResult
  <2>. QED BY <1>3, <2>2 DEF Told
<1>4. CASE hit[i] # Nobody
  <2>1. /\ r.target_exists /\ ~r.self_target /\ r.client_backend /\ r.changed
        /\ command[i].operation = "query.cancel" => r.active_query
    BY <1>1, <1>4 DEF Answered
  <2>2. SignalResult(i) = "succeeded"
    BY <1>2, <2>1 DEF SignalResult
  <2>. QED BY <1>4, <2>2 DEF Told
<1>. QED BY <1>3, <1>4

\* What is signalled is not our own backend, and is a client unless another
\* process has taken the pid since the look.
LEMMA SignalledIsAdmissible ==
  ASSUME IInv, NEW i \in Invocations, Signal(i)
  PROVE  LET target == backend[command[i].pid]
         IN /\ target # Nobody /\ target.id # own[i].id
            /\ target.client \/ target.id # seen[i].id
<1> DEFINE target == backend[command[i].pid]
<1>1. command[i].pid \in Pids /\ target # Nobody
  BY DEF Signal, IInv, TypeOK, SignalCommand
<1>2. own[i] # Nobody /\ own[i].pid \in Pids /\ command[i].pid # own[i].pid
  BY DEF Signal, Running, Alive, Spared, SelfTarget, IInv, TypeOK, ExecutionBackend
<1>3. backend[own[i].pid] # Nobody /\ backend[own[i].pid].id = own[i].id
  BY DEF Signal, Running, Alive
<1>4. target.id # own[i].id
  BY <1>1, <1>2, <1>3 DEF IInv, ServerInv, Distinct
<1>5. seen[i] # Nobody /\ seen[i].client
  BY DEF Signal, Spared, ClientBackend, TargetExists
<1>6. target.client \/ target.id # seen[i].id
  BY <1>1, <1>5 DEF IInv, ServerInv, Remembered
<1>. QED BY <1>1, <1>4, <1>6

LEMMA StepInv == IInv /\ [Next]_vars => IInv'
<1> SUFFICES ASSUME IInv, [Next]_vars PROVE IInv'
  OBVIOUS
<1>0. TypeOK' /\ ServerInv' /\ TypeOK /\ ServerInv
  BY StepTyped, StepServer DEF IInv
<1> SUFFICES SignalInv'
  BY <1>0 DEF IInv
<1>k. ASSUME NEW j \in Invocations,
             at'[j] = at[j], ending'[j] = ending[j], row'[j] = row[j],
             hit'[j] = hit[j], own'[j] = own[j], seen'[j] = seen[j],
             command' = command
      PROVE  /\ at'[j] \in {"ready", "looking", "signalling"} =>
                  hit'[j] = Nobody /\ ending'[j] = "none"
             /\ at'[j] = "returning" => ending'[j] = "none" /\ Answered(j)'
             /\ Told(j)'
  BY <1>k DEF IInv, SignalInv, Answered, Told
<1>1. ASSUME NEW i \in Invocations, Step(i) PROVE SignalInv'
  <2>k. \A j \in Invocations \ {i} :
          /\ at'[j] = at[j] /\ ending'[j] = ending[j] /\ row'[j] = row[j]
          /\ hit'[j] = hit[j] /\ own'[j] = own[j] /\ seen'[j] = seen[j]
          /\ command' = command
    <3>1. CASE \/ \E pid \in Pids : Connect(i, pid)
               \/ ConnectFails(i) \/ Look(i)
      BY <1>0, <3>1 DEF Connect, ConnectFails, Look, Finish, TypeOK, server
    <3>2. CASE Spare(i) \/ SignalMisses(i) \/ Signal(i)
      <4>1. PICK changed \in BOOLEAN : Answer(i, changed)
        BY <3>2 DEF Spare, SignalMisses, Signal
      <4>2. UNCHANGED <<own, seen, ending, command>>
        BY <3>2 DEF Spare, SignalMisses, Signal
      <4>3. \A j \in Invocations \ {i} : hit'[j] = hit[j]
        BY <1>0, <3>2 DEF Spare, SignalMisses, Signal, TypeOK
      <4>. QED BY <1>0, <4>1, <4>2, <4>3, AnswerMoves
    <3>3. CASE StatementFails(i) \/ Conclude(i)
      BY <1>0, <3>3 DEF StatementFails, Conclude, Finish, Close, TypeOK
    <3>. QED BY <1>1, <3>1, <3>2, <3>3 DEF Step, Advance
  <2> SUFFICES /\ at'[i] \in {"ready", "looking", "signalling"} =>
                    hit'[i] = Nobody /\ ending'[i] = "none"
               /\ at'[i] = "returning" => ending'[i] = "none" /\ Answered(i)'
               /\ Told(i)'
    BY <1>k, <2>k DEF SignalInv
  <2>1. CASE (\E pid \in Pids : Connect(i, pid)) \/ Look(i)
    <3>1. hit'[i] = Nobody /\ ending'[i] = "none" /\ at'[i] \in {"looking", "signalling"}
      BY <1>0, <2>1 DEF Connect, Look, TypeOK, IInv, SignalInv, server
    <3>. QED BY <3>1 DEF Told
  <2>2. CASE ConnectFails(i) \/ StatementFails(i)
    <3>1. at'[i] = "ended" /\ ending'[i] = "failed"
      BY <1>0, <2>2, FinishTyped DEF ConnectFails, StatementFails, Ending
    <3>. QED BY <3>1 DEF Told
  <2>3. CASE Spare(i) \/ SignalMisses(i)
    <3>1. /\ hit'[i] = Nobody /\ ending'[i] = "none" /\ Answer(i, FALSE)
          /\ at'[i] = "returning"
      <4>1. at[i] = "signalling" /\ Answer(i, FALSE) /\ UNCHANGED <<hit, ending>>
        BY <2>3 DEF Spare, SignalMisses
      <4>. QED BY <1>0, <4>1, AnswerMoves DEF IInv, SignalInv
    <3>2. Answered(i)'
      BY <1>0, <3>1, AnswerTyped DEF Answered
    <3>. QED BY <3>1, <3>2 DEF Told
  <2>4. CASE Signal(i)
    <3> DEFINE target == backend[command[i].pid]
    <3>1. /\ target # Nobody /\ target.id # own[i].id
          /\ target.client \/ target.id # seen[i].id
      BY <2>4, SignalledIsAdmissible
    <3>2. /\ hit' = [hit EXCEPT ![i] = target] /\ Answer(i, TRUE)
          /\ UNCHANGED <<command, own, seen, ending>>
          /\ at[i] = "signalling" /\ ~Spared(i)
      BY <2>4 DEF Signal
    <3> HIDE DEF target
    <3>3. hit'[i] = target /\ ending'[i] = "none" /\ at'[i] = "returning"
      <4>1. hit'[i] = target
        BY <1>0, <3>2 DEF TypeOK
      <4>2. ending'[i] = "none"
        BY <3>2 DEF IInv, SignalInv
      <4>. QED BY <1>0, <3>2, <4>1, <4>2, AnswerMoves
    <3>4. /\ TargetExists(i) /\ ~SelfTarget(i) /\ ClientBackend(i)
          /\ command[i].operation = "query.cancel" => ActiveQuery(i)
      BY <3>2 DEF Spared
    <3>5. /\ row'[i] \in BackendSignalResult /\ row'[i].changed
          /\ row'[i].target_exists /\ ~row'[i].self_target /\ row'[i].client_backend
          /\ command[i].operation = "query.cancel" => row'[i].active_query
      BY <1>0, <3>2, <3>4, AnswerTyped
    <3>6. Answered(i)'
      BY <3>1, <3>2, <3>3, <3>5 DEF Answered
    <3>. QED BY <3>3, <3>6 DEF Told
  <2>5. CASE Conclude(i)
    <3>1. at'[i] = "ended" /\ ending'[i] = SignalResult(i) /\ hit' = hit
          /\ at[i] = "returning"
      BY <1>0, <2>5, FinishTyped, ResultTyped DEF Conclude
    <3>2. Told(i)'
      BY <3>1, ConcludedTells
    <3>. QED BY <3>1, <3>2
  <2>. QED BY <1>1, <2>1, <2>2, <2>3, <2>4, <2>5 DEF Step, Advance
<1>2. CASE \/ \E pid \in Pids : OthersStart(pid) \/ OthersEnd(pid) \/ OthersQuery(pid)
           \/ \E signal \in pending : TakeSignal(signal)
           \/ UNCHANGED vars
  <2>1. UNCHANGED <<command, at, own, seen, row, hit, ending>>
    BY <1>2 DEF OthersStart, OthersEnd, OthersQuery, TakeSignal, vars
  <2>. QED BY <1>k, <2>1 DEF SignalInv
<1>. QED BY <1>1, <1>2 DEF Next

\* The audit outcome tells whether a signal was sent: the CASE of the statement
\* and _enforce_signal_result agree on every row, for every number of
\* operators and whatever the backends do meanwhile.
THEOREM OutcomeTells == Spec => []ResultTellsTheSignal
<1>1. IInv => ResultTellsTheSignal
  BY DEF IInv, SignalInv, Told, ResultTellsTheSignal
<1>. QED BY <1>1, InitInv, StepInv, PTL DEF Spec

\* No statement signals its own backend, nor what it saw to be no client.
THEOREM Admissible == Spec => []SignalIsAdmissible
<1>1. IInv => SignalIsAdmissible
  BY DEF IInv, SignalInv, Answered, SignalIsAdmissible
<1>. QED BY <1>1, InitInv, StepInv, PTL DEF Spec
===============================================================================
