-------------------------- MODULE MCQueryScheduler --------------------------
(* QueryScheduler for TLC: two default queries on a fresh installation, or  *)
(* one of them and a query in snapshot mode on an old one.                  *)
EXTENDS QueryScheduler

MCDefaults == <<"processes", "users">>
MCTables == {{}, {"processes", "disks"}}
MCHosts == {[q \in Query |-> {1}]}

=============================================================================
