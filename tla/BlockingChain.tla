----------------------------- MODULE BlockingChain -----------------------------
(***************************************************************************)
(* session blocking: the recursive query LIST_BLOCKING, row by row.  The   *)
(* query starts from the sessions its filters admit and follows            *)
(* pg_blocking_pids, which reads the lock table as it is at that instant,  *)
(* so who waits for whom may change between two calls of one query.  A     *)
(* waits-for graph may have cycles (a deadlock not yet broken), sessions   *)
(* blocked by several others, and prepared transactions, which have no     *)
(* session and appear as pid 0.                                            *)
(***************************************************************************)
EXTENDS Naturals, Sequences

CONSTANTS
  Sessions,    \* pids of the sessions
  Prepared,    \* the pid of every prepared transaction: 0
  Asked,       \* the sets of sessions a filter on database and user may admit
  MaxChanges   \* bound: how often the lock table changes during the query

ASSUME PreparedAssumption == Prepared \notin Sessions
ASSUME AskedAssumption == Asked \subseteq SUBSET Sessions
ASSUME MaxChangesAssumption == MaxChanges \in Nat

VARIABLES
  waits,     \* session -> the result of pg_blocking_pids for it
  changes,   \* how often the lock table has changed since the query began
  roots,     \* the sessions the filters on database and user admit
  todo,      \* the roots whose blockers are still to be read
  chain,     \* the rows of blocking_chain
  working    \* the rows of blocking_chain not yet extended

chainVars == <<waits, changes, roots, todo, chain, working>>

Graph == [Sessions -> SUBSET (Sessions \cup {Prepared})]

\* One row.  The path holds the pids from the root to the last blocker.
Row(root, blocked, blocking, path) ==
  [root_pid |-> root, blocked_pid |-> blocked, blocking_pid |-> blocking,
   path |-> path]

Depth(row) == Len(row.path) - 1

\* Faulty: only the way back to the root is barred.
OnPathAsRoot(pid, path) == pid = path[1]

OnPath(pid, path) == \E n \in 1 .. Len(path) : path[n] = pid

\* No session waits for itself.
ChainInit ==
  /\ waits \in {graph \in Graph : \A s \in Sessions : s \notin graph[s]}
  /\ changes = 0
  /\ roots \in Asked
  /\ todo = roots
  /\ chain = {}
  /\ working = {}

\* Locks are granted, released and requested by everybody else.
LockTableChanges ==
  /\ changes < MaxChanges
  /\ changes' = changes + 1
  /\ \E s \in Sessions, blockers \in SUBSET (Sessions \cup {Prepared}) :
       /\ s \notin blockers
       /\ blockers # waits[s]
       /\ waits' = [waits EXCEPT ![s] = blockers]
  /\ UNCHANGED <<roots, todo, chain, working>>

\* The base case, for one session: a row for each of its blockers.
StartChain(root) ==
  LET rows == {Row(root, root, b, <<root, b>>) : b \in waits[root]}
  IN /\ root \in todo
     /\ todo' = todo \ {root}
     /\ chain' = chain \cup rows
     /\ working' = working \cup rows
     /\ UNCHANGED <<waits, changes, roots>>

\* pg_blocking_pids of a prepared transaction's pid 0 is empty.
Blockers(pid) == IF pid \in Sessions THEN waits[pid] ELSE {}

\* Faulty: a blocker already shown, for whichever root, is not followed again.
ExtendChainOnce(row) ==
  LET fresh == {p \in Blockers(row.blocking_pid) :
                  ~OnPath(p, row.path) /\ \A shown \in chain : shown.blocking_pid # p}
      next == {Row(row.root_pid, row.blocking_pid, b, Append(row.path, b)) :
                 b \in fresh}
  IN /\ todo = {}
     /\ row \in working
     /\ \A other \in working : Depth(row) <= Depth(other)
     /\ working' = (working \ {row}) \cup next
     /\ chain' = chain \cup next
     /\ UNCHANGED <<waits, changes, roots, todo>>

\* Faulty: a row that leads nowhere stays in the working table.
ExtendChainAgain(row) ==
  LET next == {Row(row.root_pid, row.blocking_pid, b, Append(row.path, b)) :
                 b \in {p \in Blockers(row.blocking_pid) : ~OnPath(p, row.path)}}
  IN /\ todo = {}
     /\ row \in working
     /\ next # {}
     /\ working' = (working \ {row}) \cup (next \ chain)
     /\ chain' = chain \cup next
     /\ UNCHANGED <<waits, changes, roots, todo>>

\* The recursive case, for one row: the blockers of its blocker that are not
\* on its path already.  UNION drops a row that is there.
ExtendChain(row) ==
  LET next == {Row(row.root_pid, row.blocking_pid, b, Append(row.path, b)) :
                 b \in {p \in Blockers(row.blocking_pid) : ~OnPath(p, row.path)}}
  IN /\ todo = {}
     /\ row \in working
     /\ \A other \in working : Depth(row) <= Depth(other)
     /\ working' = (working \ {row}) \cup (next \ chain)
     /\ chain' = chain \cup next
     /\ UNCHANGED <<waits, changes, roots, todo>>

ChainDone == todo = {} /\ working = {}

Unfold ==
  \/ \E root \in todo : StartChain(root)
  \/ \E row \in working : ExtendChain(row)

ChainNext == Unfold \/ LockTableChanges

ChainSpec == ChainInit /\ [][ChainNext]_chainVars

\* The server goes on with a query it has begun.
FairChainSpec == ChainSpec /\ WF_chainVars(Unfold)

-----------------------------------------------------------------------------
(* Properties.                                                              *)

\* No chain visits a pid twice, however the lock table changes while it is
\* followed, so a chain is never longer than the sessions and one prepared
\* transaction; each row continues a chain from its root.
ChainsAreSimple ==
  \A row \in chain :
    /\ \A m, n \in 1 .. Len(row.path) : row.path[m] = row.path[n] => m = n
    /\ row.path[1] = row.root_pid
    /\ row.path[Len(row.path)] = row.blocking_pid
    /\ row.path[Len(row.path) - 1] = row.blocked_pid
    /\ row.blocked_pid \in Sessions

\* A set of pids that nobody in it waits outside of.
Closed(pids) == \A p \in pids : Blockers(p) \subseteq pids

\* The pids a session waits for, directly or through others: the least closed
\* set that holds its own blockers.
Reachable(root) ==
  {p \in Sessions \cup {Prepared} :
     \A pids \in SUBSET (Sessions \cup {Prepared}) :
       waits[root] \subseteq pids /\ Closed(pids) => p \in pids}

\* On a lock table that stayed still the listing is exact: each session that
\* was asked for is shown with everybody it waits for, directly or through
\* others, itself excepted, and every edge shown is an edge of the graph.
NoBlockerIsLost ==
  ChainDone /\ changes = 0 =>
    /\ \A root \in roots :
         {row.blocking_pid : row \in {r \in chain : r.root_pid = root}}
           = Reachable(root) \ {root}
    /\ \A row \in chain : row.blocking_pid \in waits[row.blocked_pid]

\* The query ends, on every waits-for graph and while it changes.
ChainEnds == <>ChainDone
===============================================================================
