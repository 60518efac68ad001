--------------------------- MODULE MCSessionLock ---------------------------
(* SessionLock with the users of one or two replicas.  A user is a pair of  *)
(* its replica and what it is: the ticker of a job, the HTTP handler that   *)
(* starts a job, or the health check.                                       *)
EXTENDS SessionLock

MCReplicaOf == [u \in Users |-> u[1]]

MCJobOf == [r \in Runs |-> IF r[2] = "cdb ticker" THEN "cdb" ELSE "portin"]

\* The portin ticker of both replicas and POST /jobs/portin/run of A.
TickersAndHandlerOfTwo ==
  {<<"A", "portin ticker">>, <<"A", "portin handler">>, <<"B", "portin ticker">>}

\* The two tickers of one replica.
TwoTickers == {"A"} \X {"portin ticker", "cdb ticker"}

\* The ticker and POST /jobs/portin/run of one replica.
TickerAndHandler == {"A"} \X {"portin ticker", "portin handler"}

\* The callers that nobody but their clients repeats.
MCTickers == {r \in Runs : r[2] # "portin handler"}

ProbeOfA == {<<"A", "probe">>}
=============================================================================
