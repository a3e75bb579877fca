---------------------------- MODULE MCLogSummary ----------------------------
(***************************************************************************)
(* An instance of LogSummary for TLC: two paths besides a health check,    *)
(* two methods of one of them, dated and undated records, and a line for   *)
(* every way the engine turns one down.                                    *)
(***************************************************************************)
EXTENDS LogSummary

\* "/a", "/health/live" and "/healthy", in ascending order.
MCPaths == << <<"", "a">>, <<"", "health", "live">>, <<"", "healthy">> >>

Good(path, method, stamp) ==
  [long |-> FALSE, fault |-> "none", path |-> path, method |-> method, stamp |-> stamp]

MCLines ==
  {Good(1, 1, s) : s \in 0..2} \cup {Good(1, 2, 2), Good(3, 1, 1), Good(3, 1, 3)}
    \cup {Good(2, 1, 1)}
    \cup {[Good(2, 1, 0) EXCEPT !.fault = "timestamp"], [Good(1, 1, 1) EXCEPT !.long = TRUE]}
=============================================================================
