-------------------------- MODULE MCPortInRequests --------------------------
(* PortInRequests on a small instance: one request for the number n1 next   *)
(* to one for n1 and n2, and patches of the order that gets the id 1.       *)
EXTENDS PortInRequests, TLC

Number(n, status) == [msisdn |-> n, telco |-> "t", temp |-> "9", status |-> status]

\* A person's request that nothing is wrong with.
Body(nums) ==
  [numbers |-> nums, customers |-> {"person"}, docs |-> TRUE, ref |-> TRUE,
   url |-> ".pdf", process |-> Null, due |-> 9]

Single == Body(<<Number("n1", Null)>>)

Pair == Body(<<Number("n1", "created"), Number("n2", "created")>>)

NoStatus == Body(<<Number("n1", Null), Number("n2", Null)>>)

\* What the database refuses: a number without temp_msisdn, a number given twice.
Unstorable ==
  {[Pair EXCEPT !.numbers[2].temp = Null], [Pair EXCEPT !.numbers[2].msisdn = "n1"]}

\* What the service refuses.
Refused ==
  {[Pair EXCEPT !.numbers[2].temp = Null, !.numbers[2].telco = Null],
   [Pair EXCEPT !.customers = {"company"}, !.docs = FALSE],
   [Pair EXCEPT !.customers = {"company", "person"}],
   [Pair EXCEPT !.ref = FALSE],
   [Pair EXCEPT !.process = "Fast"],
   [Pair EXCEPT !.url = ".exe"],
   [Pair EXCEPT !.url = ""]}

MCBodiesOf == [r \in Requests |-> IF r = "single" THEN {Single}
                                  ELSE {Pair, NoStatus} \cup Unstorable]

MCOneBodyOf == [r \in Requests |-> {Pair, NoStatus} \cup Refused]
\* A patch that changes nothing.
Patch(order, cdb, date) ==
  [order |-> order, cdb |-> cdb, date |-> date, state |-> Null, due |-> Null,
   numbers |-> <<>>, malformed |-> FALSE]

Status(n, code) == [msisdn |-> n, code |-> code]

\* Of one number; of both, with entries that ask for different aggregations, of
\* which the first decides.
One == <<Status("n1", "portation-complete")>>

Both == <<Status("n2", "transfered"), Status("n1", "portation-complete")>>

MCPatchOf ==
  [m \in Patches |->
     CASE m = "moved" -> [Patch(1, 77, 2) EXCEPT !.state = "debt-collection",
                                                 !.due = 8]
       [] m = "ported" -> [Patch(1, Null, 3) EXCEPT !.numbers = Both]
       [] m = "garbled" -> [Patch(1, NotANumber, 3) EXCEPT !.numbers = One]
       [] m = "resent" -> [Patch(Null, 77, 4) EXCEPT !.due = 8,
                                                      !.numbers = One]
       [] m = "unknown" -> [Patch(1, Null, 4) EXCEPT !.state = "ported"]
       [] OTHER -> Patch(1, Null, 4)]

NothingSet == [disable |-> FALSE, allowed |-> {}, aggregate |-> <<>>]

\* One aggregated state.
Aggregates(key, targets, state) ==
  key :> [targets |-> targets, state |-> state]

\* Nothing set; allowed states that no state has the name of; and an aggregate
\* that is wrong in each way it can be.
MCConsulAnswers ==
  {Unreachable, NothingSet,
   [NothingSet EXCEPT !.allowed = {"complete"}]}
  \cup
  {[NothingSet EXCEPT !.aggregate = a] : a \in
     {Aggregates("ported", {"closed"}, "closed"),
      Aggregates("transfered", {}, "closed"),
      Aggregates("transfered", {"transfered", "ported"}, "closed"),
      Aggregates("transfered", {"transfered"}, "transfered")}}

\* The check disabled, and one aggregated state.
MCOwnSettings ==
  {[disable |-> TRUE, allowed |-> {"closed"},
    aggregate |-> Aggregates("portation-complete", {"portation-complete"}, "closed")]}

\* The consumers are interchangeable: no definition names one of them.
ConsumerSymmetry == Permutations(Consumers)
=============================================================================
