---------------------------- MODULE StatusCodes ----------------------------
(***************************************************************************)
(* internal/model/statuscodes.go of portin-requests: the states of an      *)
(* order by name (in messages and in Consul) and by code (in orders.state).*)
(* "transfered" is a state of a NUMBER only; it has no code.               *)
(***************************************************************************)
EXTENDS Integers

\* A map of the code, from its entries.
MapOf(entries) ==
  [k \in {e[1] : e \in entries} |-> (CHOOSE e \in entries : e[1] = k)[2]]

NameCodes ==
  {<<"cancel-rejected", -51>>, <<"arbitation-timeout", -4>>,
   <<"donor-rejected", -3>>, <<"canceled", -2>>, <<"cdb-rejected", -1>>,
   <<"created", 0>>, <<"sent-cdb", 1>>, <<"arbitration", 2>>,
   <<"donor-verification", 3>>, <<"arbitation-pending", 4>>,
   <<"debt-checking", 5>>, <<"debt-collection", 6>>,
   <<"portation-waitng", 7>>, <<"portation-due", 8>>,
   <<"portation-ready", 9>>, <<"portation-exec", 20>>,
   <<"portation-complete", 21>>, <<"closed", 22>>, <<"duedate-changed", 23>>,
   <<"cancel-request", 50>>, <<"cancel-confirmed", 51>>}

StatusNameToCode == MapOf(NameCodes)

CodeNamePairs ==
  {<<-51, "cancel-rejected">>, <<-4, "arbitation-timeout">>,
   <<-3, "donor-rejected">>, <<-2, "canceled">>, <<-1, "cdb-rejected">>,
   <<0, "created">>, <<1, "sent-cdb">>, <<2, "arbitration">>,
   <<3, "donor-verification">>, <<4, "arbitation-pending">>,
   <<5, "debt-checking">>, <<6, "debt-collection">>,
   <<7, "portation-waitng">>, <<8, "portation-due">>,
   <<9, "portation-ready">>, <<20, "portation-exec">>,
   <<21, "portation-complete">>, <<22, "closed">>, <<23, "duedate-changed">>,
   <<50, "cancel-request">>, <<51, "cancel-confirmed">>}

StatusCodeToName == MapOf(CodeNamePairs)

\* ValidCodeName
CodeNames == DOMAIN StatusNameToCode

StateCodes == {StatusNameToCode[n] : n \in CodeNames}

Transfered == "transfered"

\* StateCodeNamesToInts of names that are all known.
StateCodeNamesToInts(names) == {StatusNameToCode[n] : n \in names}

DefaultAllowedStatusesForNewOrder == {-1, -2, -3, -4, 4, 6, 22}

\* State of a number -> the states all numbers of the order must lie in, and
\* the state the order then takes.
DefaultPortationNumbersStatesAgregateMap == MapOf(
  {<<"portation-complete", [targets |-> {"portation-complete", Transfered},
                            state |-> "portation-complete"]>>,
   <<Transfered, [targets |-> {Transfered}, state |-> "closed"]>>})
=============================================================================
