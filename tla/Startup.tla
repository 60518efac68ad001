------------------------------ MODULE Startup ------------------------------
(***************************************************************************)
(* How portin-requests comes up: the settings from Consul, the database,   *)
(* the clients and then the message processor and the HTTP server          *)
(* (cmd/main.go, cmd/dependencies, config).  The datamart connects to each *)
(* of its databases by the same MustInitDB and pingWithRetry.              *)
(*                                                                         *)
(* Time is counted in units of 100 ms, the first pause between two pings.  *)
(***************************************************************************)
EXTENDS StatusCodes, FiniteSets

CONSTANTS
  ConsulAnswers, \* what Consul may answer: parsed settings, or Unreachable
  Unreachable,   \* no connection, no such key, or a value that is not JSON
  Retries,       \* MaxConnectionRetries
  MaxOutage      \* bound: the database is back by then

\* consulSettings, with the aggregate map as a function.
IsSettings(s) ==
  /\ s.disable \in BOOLEAN
  /\ \A a \in DOMAIN s.aggregate : DOMAIN s.aggregate[a] = {"targets", "state"}

ASSUME StartupAssumption ==
  /\ \A s \in ConsulAnswers \ {Unreachable} : IsSettings(s)
  /\ Retries \in Nat /\ MaxOutage \in Nat

VARIABLES
  phase,   \* of runApplication
  cfg,     \* Config.PortInOrders
  attempt, \* pings sent so far
  elapsed, \* time since the first ping
  back     \* when the database answers again

bootVars == <<phase, cfg, attempt, elapsed, back>>

NoConfig == [disable |-> FALSE, allowed |-> {}, aggregate |-> <<>>]

StartupInit ==
  /\ phase = "consul" /\ cfg = NoConfig
  /\ attempt = 0 /\ elapsed = 0
  /\ back \in 0..MaxOutage

-----------------------------------------------------------------------------

NumberStateKnown(name) == name \in CodeNames \/ name = Transfered

\* Mutant: the name of the aggregated state is not looked up.
AggregateTargetsValid(aggregate) ==
  \A a \in DOMAIN aggregate :
    /\ NumberStateKnown(a)
    /\ aggregate[a].targets # {}
    /\ \A n \in aggregate[a].targets : NumberStateKnown(n)

\* buildAndValidatePortationNumberStateAgregate
AggregateIsValid(aggregate) ==
  \A a \in DOMAIN aggregate :
    /\ NumberStateKnown(a)
    /\ aggregate[a].targets # {}
    /\ \A n \in aggregate[a].targets : NumberStateKnown(n)
    /\ aggregate[a].state \in CodeNames

\* validateAndBuildPortInOrdersCfg accepts the settings, when there are any.
SettingsAreValid(s) ==
  s # Unreachable /\ s.allowed \subseteq CodeNames /\ AggregateIsValid(s.aggregate)

\* validateAndBuildPortInOrdersCfg, then ApplyDefaults.
WithDefaults(s) ==
  [disable |-> s.disable,
   allowed |-> IF s.allowed = {} THEN DefaultAllowedStatusesForNewOrder
               ELSE StateCodeNamesToInts(s.allowed),
   aggregate |-> IF DOMAIN s.aggregate = {}
                   THEN DefaultPortationNumbersStatesAgregateMap
                   ELSE s.aggregate]

\* EnrichConfig with usable settings.
EnrichConfig(s) ==
  /\ phase = "consul"
  /\ SettingsAreValid(s)
  /\ cfg' = WithDefaults(s)
  /\ phase' = "database"
  /\ UNCHANGED <<attempt, elapsed, back>>

\* EnrichConfig fails and runApplication panics.
EnrichFails(s) ==
  /\ phase = "consul"
  /\ ~SettingsAreValid(s)
  /\ phase' = "dead"
  /\ UNCHANGED <<cfg, attempt, elapsed, back>>

\* A ping of pingWithRetry is answered, or there is none to send: err is nil.
\* How long it took does not matter any more, and a database that fails later
\* makes statements fail.
Connected ==
  /\ phase = "database"
  /\ Retries = 0 \/ (attempt < Retries /\ elapsed >= back)
  /\ phase' = "clients"
  /\ attempt' = 0 /\ elapsed' = 0 /\ back' = 0
  /\ UNCHANGED cfg

\* Mutant: the pause does not grow.
ConstantBackoff(n) == 1

PowerOf2[n \in Nat] == IF n = 0 THEN 1 ELSE 2 * PowerOf2[n - 1]

\* The pause after the failed ping number n (from 0).
Backoff(n) == PowerOf2[n]

\* Mutant: one ping too many.
PingFailsOnceMore ==
  /\ phase = "database" /\ attempt =< Retries /\ elapsed < back
  /\ attempt' = attempt + 1
  /\ elapsed' = elapsed + Backoff(attempt)
  /\ UNCHANGED <<phase, cfg, back>>

\* The ping fails: pause, also after the last one.
PingFails ==
  /\ phase = "database" /\ attempt < Retries /\ elapsed < back
  /\ attempt' = attempt + 1
  /\ elapsed' = elapsed + Backoff(attempt)
  /\ UNCHANGED <<phase, cfg, back>>

\* The pings are used up: MustInitDB panics.
ConnectFails ==
  /\ phase = "database" /\ attempt = Retries /\ Retries > 0
  /\ phase' = "dead"
  /\ UNCHANGED <<cfg, attempt, elapsed, back>>

\* Kafka and SFTP clients are made; the consumers and the server are started.
StartServing ==
  /\ phase = "clients"
  /\ phase' = "serving"
  /\ UNCHANGED <<cfg, attempt, elapsed, back>>

\* One of the clients cannot be made: its mustInit panics.
ClientsFail ==
  /\ phase = "clients"
  /\ phase' = "dead"
  /\ UNCHANGED <<cfg, attempt, elapsed, back>>

StartupNext ==
  \/ \E s \in ConsulAnswers : EnrichConfig(s) \/ EnrichFails(s)
  \/ Connected \/ PingFails \/ ConnectFails
  \/ StartServing \/ ClientsFail

-----------------------------------------------------------------------------

StartupTypeOK ==
  /\ phase \in {"consul", "database", "clients", "serving", "dead"}
  /\ cfg.disable \in BOOLEAN /\ cfg.allowed \subseteq StateCodes
  /\ attempt \in 0..Retries /\ elapsed \in Nat /\ back \in 0..MaxOutage

\* The configuration the patches and the creations work with is one they can
\* use.  With an empty list of allowed states every old order would block its
\* number for ever.  An aggregated state without a code would make each patch
\* that reaches it fail; a key or a target that is no state of a number, or no
\* target at all, would keep the order from ever taking that state
\* (config.go:46-54, consul.go:105-140).
ConfigIsUsable ==
  phase = "serving" =>
    /\ cfg.allowed # {} /\ DOMAIN cfg.aggregate # {}
    /\ \A a \in DOMAIN cfg.aggregate :
         /\ cfg.aggregate[a].state \in CodeNames
         /\ cfg.aggregate[a].targets # {}
         /\ {a} \cup cfg.aggregate[a].targets \subseteq CodeNames \cup {Transfered}

\* Starting is given up for the database only when it stayed away for the sum
\* of the pauses before the last ping, 2^(Retries-1) - 1 of them in all
\* (dependencies.go:129-154).
OutageSurvived ==
  phase = "dead" /\ attempt = Retries /\ Retries > 0 =>
    back > PowerOf2[Retries - 1] - 1
=============================================================================
