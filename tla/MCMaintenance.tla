----------------------------- MODULE MCMaintenance -----------------------------
(* A database with two schemas, both on the search_path of the role.          *)
EXTENDS Maintenance

AppFirst == <<"app", "public">>

\* Timeouts: none, of two milliseconds, below the resolution of the server, of
\* 100.00005 seconds, which is written as 100, and too long.
Limits == {<<None, None>>, <<20, None>>, <<None, 20>>, <<4, 4>>,
           <<1000001, None>>, <<9000000, None>>}

Given(operation, target, concurrently, limits) ==
  [operation |-> operation, target |-> target, concurrently |-> concurrently,
   statement_timeout |-> limits[1], lock_timeout |-> limits[2]]

Names == {[schema |-> s, database |-> FALSE] : s \in {"app", None}}
Elsewhere == [schema |-> "app", database |-> TRUE]

MCCommands ==
  {Given(o, t, FALSE, l) : o \in {"vacuum", "reindex index"}, t \in Names,
                           l \in Limits}
  \cup {Given("vacuum", t, FALSE, <<20, None>>) : t \in {None, Elsewhere}}
  \cup {Given("analyze", t, FALSE, <<20, 4>>) : t \in Names}
  \cup {Given("reindex table", t, TRUE, <<20, None>>) : t \in Names}
===============================================================================
