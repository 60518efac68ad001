--------------------------- MODULE StartupProofs ---------------------------
(***************************************************************************)
(* What holds of the start of portin-requests, for every answer of Consul, *)
(* number of retries and outage.  The first part proves induction over the *)
(* naturals from their well-foundedness, as a fact about sets, and with it *)
(* that PowerOf2 is what its recursive definition says.                    *)
(***************************************************************************)
EXTENDS PortInRequests, WellFoundedInduction, TLAPS

LEMMA SmallestOf ==
  ASSUME NEW T \in SUBSET Nat, T # {}
  PROVE  \E x \in T : \A y \in T : x =< y
<1>1. IsWellFoundedOn(OpToRel(<, Nat), Nat)
  BY NatLessThanWellFounded
<1>2. \E x \in T : \A y \in T : ~(<<y, x>> \in OpToRel(<, Nat))
  BY <1>1, WFMin
<1>3. OpToRel(<, Nat) = {ss \in Nat \X Nat : ss[1] < ss[2]}
  BY Zenon DEF OpToRel
<1>4. PICK x \in T : \A y \in T : ~(<<y, x>> \in OpToRel(<, Nat))
  BY <1>2
<1>5. ASSUME NEW y \in T PROVE x =< y
  <2>1. ~(<<y, x>> \in {ss \in Nat \X Nat : ss[1] < ss[2]})
    BY <1>3, <1>4, Zenon
  <2> QED BY <2>1
<1> QED BY <1>5

LEMMA InductionOn ==
  ASSUME NEW S \in SUBSET Nat, 0 \in S, \A n \in S : n + 1 \in S
  PROVE  S = Nat
<1>1. SUFFICES ASSUME Nat \ S # {} PROVE FALSE
  OBVIOUS
<1>2. PICK x \in Nat \ S : \A y \in Nat \ S : x =< y
  BY <1>1, SmallestOf
<1>3. x # 0 /\ x - 1 \in Nat /\ x - 1 \in S
  BY <1>2
<1>4. (x - 1) + 1 \in S
  BY <1>3
<1> QED BY <1>2, <1>4

\* A non-empty set of naturals with an upper bound has a largest element.
LEMMA LargestOf ==
  ASSUME NEW T \in SUBSET Nat, T # {}, NEW b \in Nat, \A x \in T : x =< b
  PROVE  \E x \in T : \A y \in T : y =< x
<1> DEFINE D == {b - x : x \in T}
<1>1. D \in SUBSET Nat /\ D # {}
  <2>1. \A x \in T : b - x \in Nat
    OBVIOUS
  <2> QED BY <2>1
<1>2. PICK d \in D : \A e \in D : d =< e
  BY <1>1, SmallestOf
<1>3. PICK x \in T : d = b - x
  BY <1>2
<1>4. ASSUME NEW y \in T PROVE y =< x
  <2>1. b - y \in D
    OBVIOUS
  <2>2. d =< b - y
    BY <1>2, <2>1
  <2> QED BY <1>3, <2>2
<1> QED BY <1>4

-----------------------------------------------------------------------------

\* The beginnings of the function up to n.
Powers(n) ==
  {g \in [0..n -> Nat] : g[0] = 1 /\ \A i \in 1..n : g[i] = 2 * g[i - 1]}

LEMMA PowersExist == \A n \in Nat : Powers(n) # {}
<1> DEFINE S == {n \in Nat : Powers(n) # {}}
<1>1. 0 \in S
  <2> DEFINE g == [i \in 0..0 |-> 1]
  <2>1. g \in Powers(0)
    BY DEF Powers
  <2> QED BY <2>1
<1>2. ASSUME NEW n \in S PROVE n + 1 \in S
  <2>1. PICK g \in [0..n -> Nat] : g[0] = 1 /\ \A i \in 1..n : g[i] = 2 * g[i - 1]
    BY DEF Powers
  <2> DEFINE h == [i \in 0..(n + 1) |-> IF i = n + 1 THEN 2 * g[n] ELSE g[i]]
  <2>2. n \in Nat
    OBVIOUS
  <2>3. h \in [0..(n + 1) -> Nat]
    BY <2>1, <2>2
  <2>4. h[0] = 1
    BY <2>1, <2>2
  <2>5. ASSUME NEW i \in 1..(n + 1) PROVE h[i] = 2 * h[i - 1]
    <3>1. CASE i = n + 1
      BY <2>2, <3>1
    <3>2. CASE i # n + 1
      BY <2>1, <2>2, <3>2
    <3> QED BY <3>1, <3>2
  <2> HIDE DEF h
  <2>6. h \in Powers(n + 1)
    BY <2>3, <2>4, <2>5 DEF Powers
  <2> QED BY <2>2, <2>6
<1> HIDE DEF S
<1>3. S = Nat
  <2>1. S \in SUBSET Nat
    BY DEF S
  <2> QED BY <1>1, <1>2, <2>1, InductionOn
<1> QED BY <1>3 DEF S

LEMMA PowersAgree ==
  ASSUME NEW n \in Nat, NEW m \in Nat, NEW g \in Powers(n), NEW h \in Powers(m)
  PROVE  \A i \in Nat : i =< n /\ i =< m => g[i] = h[i]
<1> DEFINE S == {i \in Nat : i =< n /\ i =< m => g[i] = h[i]}
<1>1. 0 \in S
  BY DEF Powers
<1>2. ASSUME NEW i \in S PROVE i + 1 \in S
  <2> SUFFICES ASSUME i + 1 =< n, i + 1 =< m PROVE g[i + 1] = h[i + 1]
    OBVIOUS
  <2>1. g[i] = h[i] /\ i + 1 \in 1..n /\ i + 1 \in 1..m /\ (i + 1) - 1 = i
    OBVIOUS
  <2> QED BY <2>1 DEF Powers
<1> HIDE DEF S
<1>3. S = Nat
  <2>1. S \in SUBSET Nat
    BY DEF S
  <2> QED BY <1>1, <1>2, <2>1, InductionOn
<1> QED BY <1>3 DEF S

\* The recursive definition has a solution, so PowerOf2 is one.
LEMMA PowerOf2Doubles ==
  /\ PowerOf2[0] = 1
  /\ \A n \in Nat : PowerOf2[n] \in Nat /\ PowerOf2[n + 1] = 2 * PowerOf2[n]
<1> DEFINE first(n) == CHOOSE g \in Powers(n) : TRUE
           f == [n \in Nat |-> first(n)[n]]
<1>1. \A n \in Nat : first(n) \in Powers(n)
  BY PowersExist
<1> HIDE DEF first
<1>2. \A n \in Nat : f[n] \in Nat
  BY <1>1 DEF Powers
<1>3. f[0] = 1
  BY <1>1 DEF Powers
<1>4. ASSUME NEW n \in Nat \ {0} PROVE f[n] = 2 * f[n - 1]
  <2>1. n - 1 \in Nat /\ n \in 1..n /\ n - 1 =< n
    OBVIOUS
  <2>2. first(n)[n] = 2 * first(n)[n - 1]
    BY <1>1, <2>1 DEF Powers
  <2>3. first(n)[n - 1] = first(n - 1)[n - 1]
    BY <1>1, <2>1, PowersAgree
  <2> QED BY <2>1, <2>2, <2>3
<1>5. f = [n \in Nat |-> IF n = 0 THEN 1 ELSE 2 * f[n - 1]]
  BY <1>3, <1>4
<1> HIDE DEF f
<1>6. PowerOf2 = [n \in Nat |-> IF n = 0 THEN 1 ELSE 2 * PowerOf2[n - 1]]
  BY <1>5, Zenon DEF PowerOf2
<1> DEFINE S == {n \in Nat : PowerOf2[n] = f[n]}
<1>7. 0 \in S
  BY <1>3, <1>6
<1>8. ASSUME NEW n \in S PROVE n + 1 \in S
  BY <1>4, <1>6
<1>9. S = Nat
  <2>1. S \in SUBSET Nat
    BY DEF S
  <2> QED BY <1>7, <1>8, <2>1, InductionOn
<1>10. \A n \in Nat : PowerOf2[n] \in Nat
  BY <1>2, <1>9
<1> QED BY <1>6, <1>10

-----------------------------------------------------------------------------
\* The tables.

LEMMA MapOfEntries ==
  ASSUME NEW entries, \A e, f \in entries : e[1] = f[1] => e = f
  PROVE  /\ DOMAIN MapOf(entries) = {e[1] : e \in entries}
         /\ \A e \in entries : MapOf(entries)[e[1]] = e[2]
  BY DEF MapOf

\* Every name has a code, and its code gives the name back.
LEMMA NamesAndCodes ==
  /\ DOMAIN StatusCodeToName = StateCodes /\ StateCodes \subseteq Int
  /\ \A n \in CodeNames :
       /\ StatusNameToCode[n] \in StateCodes
       /\ StatusCodeToName[StatusNameToCode[n]] = n
  /\ \A c \in StateCodes :
       StatusCodeToName[c] \in CodeNames /\ StatusNameToCode[StatusCodeToName[c]] = c
  /\ "created" \in CodeNames /\ StatusNameToCode["created"] = 0
  /\ "portation-complete" \in CodeNames /\ "closed" \in CodeNames
  /\ DefaultAllowedStatusesForNewOrder \subseteq StateCodes
<1>1. \A e, f \in NameCodes : e[1] = f[1] => e = f
  BY DEF NameCodes
<1>2. \A e, f \in CodeNamePairs : e[1] = f[1] => e = f
  BY DEF CodeNamePairs
<1>3. /\ CodeNames = {e[1] : e \in NameCodes}
      /\ \A e \in NameCodes : StatusNameToCode[e[1]] = e[2]
  BY <1>1, MapOfEntries DEF CodeNames, StatusNameToCode
<1>4. /\ DOMAIN StatusCodeToName = {e[1] : e \in CodeNamePairs}
      /\ \A e \in CodeNamePairs : StatusCodeToName[e[1]] = e[2]
  BY <1>2, MapOfEntries DEF StatusCodeToName
<1>5. StateCodes = {e[2] : e \in NameCodes}
  BY <1>3 DEF StateCodes
<1>6. \A e \in NameCodes : <<e[2], e[1]>> \in CodeNamePairs
  BY DEF NameCodes, CodeNamePairs
<1>7. \A e \in CodeNamePairs : <<e[2], e[1]>> \in NameCodes
  BY DEF NameCodes, CodeNamePairs
<1>8. \A e \in NameCodes : StatusNameToCode[e[1]] = e[2] /\ StatusCodeToName[e[2]] = e[1]
  BY <1>3, <1>4, <1>6
<1>9. DOMAIN StatusCodeToName = StateCodes
  <2>1. ASSUME NEW e \in NameCodes PROVE \E f \in CodeNamePairs : f[1] = e[2]
    <3>1. <<e[2], e[1]>> \in CodeNamePairs /\ <<e[2], e[1]>>[1] = e[2]
      BY <1>6
    <3> QED BY <3>1
  <2>2. ASSUME NEW f \in CodeNamePairs PROVE \E e \in NameCodes : e[2] = f[1]
    <3>1. <<f[2], f[1]>> \in NameCodes /\ <<f[2], f[1]>>[2] = f[1]
      BY <1>7
    <3> QED BY <3>1
  <2> QED BY <1>4, <1>5, <2>1, <2>2
<1>10. StateCodes \subseteq Int
  BY <1>5 DEF NameCodes
<1>11. /\ <<"created", 0>> \in NameCodes /\ <<"closed", 22>> \in NameCodes
       /\ <<"portation-complete", 21>> \in NameCodes
  BY DEF NameCodes
<1>12. DefaultAllowedStatusesForNewOrder \subseteq StateCodes
  BY <1>5 DEF NameCodes, DefaultAllowedStatusesForNewOrder
<1> QED BY <1>3, <1>5, <1>8, <1>9, <1>10, <1>11, <1>12

-----------------------------------------------------------------------------
\* Start-up, of which the rest of the service changes nothing.

BootStep == StartupNext \/ UNCHANGED bootVars

LEMMA NextBoots ==
  [Next]_vars => BootStep
  BY DEF vars, Next, Boot, Consume, Serve, BootStep

\* Once the service serves, its configuration stays.
LEMMA ServingStays ==
  phase = "serving" /\ [Next]_vars => UNCHANGED <<phase, cfg>>
<1> SUFFICES ASSUME phase = "serving", [Next]_vars PROVE UNCHANGED <<phase, cfg>>
  OBVIOUS
<1>1. CASE Boot
  BY <1>1 DEF Boot, StartupNext, EnrichConfig, EnrichFails, Connected, PingFails,
              ConnectFails, StartServing, ClientsFail
<1>2. CASE Consume \/ Serve \/ UNCHANGED vars
  BY <1>2 DEF Consume, Serve, vars, bootVars
<1> QED BY <1>1, <1>2 DEF Next

\* What the configuration is good for, from the moment there is one.
Usable ==
  /\ cfg.allowed # {} /\ DOMAIN cfg.aggregate # {}
  /\ AggregateIsValid(cfg.aggregate)

\* The time that has passed is the sum of the pauses, and the ping before the
\* last pause was not answered.
PingInv ==
  /\ phase \in {"consul", "database"} => elapsed = PowerOf2[attempt] - 1
  /\ attempt > 0 => back > PowerOf2[attempt - 1] - 1

StartInv ==
  /\ StartupTypeOK
  /\ phase \in {"database", "clients", "serving"} => Usable
  /\ PingInv

LEMMA SettingsUsable ==
  ASSUME NEW s \in ConsulAnswers, SettingsAreValid(s)
  PROVE  LET c == WithDefaults(s)
         IN  /\ c.disable \in BOOLEAN
             /\ c.allowed \subseteq StateCodes /\ c.allowed # {}
             /\ DOMAIN c.aggregate # {} /\ AggregateIsValid(c.aggregate)
<1> DEFINE entries == {<<"portation-complete",
                         [targets |-> {"portation-complete", Transfered},
                          state |-> "portation-complete"]>>,
                       <<Transfered, [targets |-> {Transfered}, state |-> "closed"]>>}
           agg == DefaultPortationNumbersStatesAgregateMap
<1>1. \A e, f \in entries : e[1] = f[1] => e = f
  BY DEF Transfered
<1>2. /\ DOMAIN agg = {e[1] : e \in entries}
      /\ \A e \in entries : agg[e[1]] = e[2]
  <2> HIDE DEF entries
  <2>1. agg = MapOf(entries)
    BY DEF DefaultPortationNumbersStatesAgregateMap, entries
  <2> QED BY <1>1, <2>1, MapOfEntries
<1>3. /\ DOMAIN agg = {"portation-complete", Transfered}
      /\ agg["portation-complete"] = [targets |-> {"portation-complete", Transfered},
                                      state |-> "portation-complete"]
      /\ agg[Transfered] = [targets |-> {Transfered}, state |-> "closed"]
  BY <1>2
<1> HIDE DEF agg
<1>4. AggregateIsValid(agg)
  BY <1>3, NamesAndCodes DEF AggregateIsValid, NumberStateKnown
<1>5. -1 \in DefaultAllowedStatusesForNewOrder
  BY DEF DefaultAllowedStatusesForNewOrder
<1>6. s.disable \in BOOLEAN
  BY StartupAssumption DEF SettingsAreValid, IsSettings
<1>7. StateCodeNamesToInts(s.allowed) \subseteq StateCodes
  BY NamesAndCodes DEF SettingsAreValid, StateCodeNamesToInts
<1>8. s.allowed # {} => StateCodeNamesToInts(s.allowed) # {}
  BY DEF StateCodeNamesToInts
<1>9. AggregateIsValid(s.aggregate)
  BY DEF SettingsAreValid
<1> QED BY <1>3, <1>4, <1>5, <1>6, <1>7, <1>8, <1>9, NamesAndCodes DEF WithDefaults, agg

LEMMA StartInit == Init => StartInv
  BY StartupAssumption, PowerOf2Doubles
     DEF Init, StartupInit, StartInv, StartupTypeOK, PingInv, NoConfig

LEMMA StartStep == StartInv /\ [Next]_vars => StartInv'
<1> SUFFICES ASSUME StartInv, BootStep PROVE StartInv'
  BY NextBoots
<1>1. ASSUME NEW s \in ConsulAnswers, EnrichConfig(s) PROVE StartInv'
  <2>1. /\ cfg' = WithDefaults(s) /\ SettingsAreValid(s)
        /\ phase = "consul" /\ phase' = "database"
        /\ UNCHANGED <<attempt, elapsed, back>>
    BY <1>1 DEF EnrichConfig
  <2>2. /\ cfg'.disable \in BOOLEAN
        /\ cfg'.allowed \subseteq StateCodes /\ cfg'.allowed # {}
        /\ DOMAIN cfg'.aggregate # {} /\ AggregateIsValid(cfg'.aggregate)
    BY <2>1, SettingsUsable
  <2>3. StartupTypeOK'
    BY <2>1, <2>2 DEF StartInv, StartupTypeOK
  <2>4. Usable'
    BY <2>2 DEF Usable, AggregateIsValid
  <2>5. PingInv'
    BY <2>1 DEF StartInv, PingInv
  <2> QED BY <2>3, <2>4, <2>5 DEF StartInv
<1>2. ASSUME NEW s \in ConsulAnswers, EnrichFails(s) PROVE StartInv'
  BY <1>2 DEF EnrichFails, StartInv, StartupTypeOK, PingInv
<1>3. CASE Connected
  BY <1>3, StartupAssumption DEF Connected, StartInv, StartupTypeOK, PingInv, Usable,
                                 AggregateIsValid
<1>4. CASE PingFails
  <2>1. /\ phase = "database" /\ attempt \in Nat /\ attempt < Retries
        /\ elapsed < back /\ attempt' = attempt + 1
        /\ elapsed' = elapsed + PowerOf2[attempt]
        /\ elapsed = PowerOf2[attempt] - 1
        /\ UNCHANGED <<phase, cfg, back>>
    BY <1>4, StartupAssumption DEF PingFails, Backoff, StartInv, StartupTypeOK, PingInv
  <2>2. PowerOf2[attempt] \in Nat /\ PowerOf2[attempt + 1] = 2 * PowerOf2[attempt]
    BY <2>1, PowerOf2Doubles
  <2>3. elapsed' = PowerOf2[attempt'] - 1 /\ elapsed' \in Nat
    BY <2>1, <2>2 DEF StartInv, StartupTypeOK
  <2>4. attempt' - 1 = attempt
    BY <2>1
  <2>5. PingInv'
    BY <2>1, <2>3, <2>4 DEF PingInv
  <2>6. StartupTypeOK'
    BY <2>1, <2>3, StartupAssumption DEF StartInv, StartupTypeOK
  <2>7. Usable'
    BY <2>1 DEF StartInv, Usable, AggregateIsValid
  <2> QED BY <2>5, <2>6, <2>7 DEF StartInv
<1>5. CASE ConnectFails \/ StartServing \/ ClientsFail \/ UNCHANGED bootVars
  BY <1>5 DEF ConnectFails, StartServing, ClientsFail, bootVars, StartInv,
              StartupTypeOK, PingInv, Usable, AggregateIsValid
<1> QED BY <1>1, <1>2, <1>3, <1>4, <1>5 DEF BootStep, StartupNext

LEMMA Started == Spec => []StartInv
  BY StartInit, StartStep, PTL DEF Spec

\* Whatever Consul answers, the service only serves with a configuration its
\* handlers can use (config.go:46-54, consul.go:105-132).
THEOREM ConfigUsable == Spec => []ConfigIsUsable
<1>1. StartInv => ConfigIsUsable
  BY DEF StartInv, Usable, AggregateIsValid, NumberStateKnown, ConfigIsUsable
<1> QED BY <1>1, Started, PTL

\* Starting is given up for the database only when it stayed away for the sum
\* of the pauses before the last ping, for every number of retries
\* (dependencies.go:129-154).
THEOREM OutagesSurvived == Spec => []OutageSurvived
<1>1. StartInv => OutageSurvived
  BY DEF StartInv, PingInv, OutageSurvived
<1> QED BY <1>1, Started, PTL
=============================================================================
