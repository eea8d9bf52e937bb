---------------------------- MODULE MCServerRun ----------------------------
(***************************************************************************)
(* A configuration of every kind: usable, and refused at each place.       *)
(***************************************************************************)
EXTENDS ServerRun

Usable == [grpcPort |-> 1, restPort |-> 2, ttl |-> 1, sweepInterval |-> 1,
           backend |-> "sqlite", auth |-> "none", secret |-> FALSE]

MCConfigs ==
  {Usable, [Usable EXCEPT !.restPort = 1], [Usable EXCEPT !.grpcPort = 0],
   [Usable EXCEPT !.restPort = 3], [Usable EXCEPT !.ttl = 0], [Usable EXCEPT !.sweepInterval = 0],
   [Usable EXCEPT !.backend = "mysql"], [Usable EXCEPT !.auth = "key"],
   [Usable EXCEPT !.auth = "basic", !.secret = TRUE]}

=============================================================================
