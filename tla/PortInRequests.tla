--------------------------- MODULE PortInRequests ---------------------------
(***************************************************************************)
(* The service portin-requests: it starts, then handlers of requests create*)
(* orders while consumers of the topic portin-patch change them.  They meet*)
(* only in the database and in the topic of events.                        *)
(***************************************************************************)
EXTENDS OrderCreate, PortInPatch

vars == <<storeVars, bootVars, patchVars, createVars>>

Init == StoreInit /\ StartupInit /\ PatchInit /\ CreateInit

\* runApplication before the goroutines are started.
Boot == StartupNext /\ UNCHANGED <<storeVars, patchVars, createVars>>

\* The consumers of the message processor.
Consume ==
  phase = "serving" /\ PatchNext /\ UNCHANGED <<bootVars, createVars>>

\* The HTTP server.
Serve ==
  phase = "serving" /\ CreateNext /\ UNCHANGED <<bootVars, patchVars>>

Next == Boot \/ Consume \/ Serve

Spec == Init /\ [][Next]_vars

-----------------------------------------------------------------------------

\* A consumer that has a message goes on with it: statements are answered, and
\* a row lock ends with the transaction that holds it.
HandleStep(c) ==
  phase = "serving" /\ Handle(c) /\ UNCHANGED <<bootVars, createVars>>

\* Kafka delivers what is not acknowledged to some consumer.
ReceiveStep(m) ==
  /\ phase = "serving"
  /\ \E c \in Consumers : Receive(c, m)
  /\ UNCHANGED <<bootVars, createVars>>

FairSpec ==
  /\ Spec
  /\ \A c \in Consumers : WF_vars(HandleStep(c))
  /\ \A m \in Patches : WF_vars(ReceiveStep(m))

-----------------------------------------------------------------------------

TypeOK ==
  /\ StartupTypeOK /\ PatchTypeOK /\ CreateTypeOK
  /\ orders \in [Orders -> OrderRow \cup {Null}]
  /\ numbers \subseteq Orders \X Msisdns /\ nextId \in Nat
  /\ failures \in 0..MaxFailures
=============================================================================
