---------------------------- MODULE MCPortInJob ----------------------------
(* PortInJob on small instances.  Order 1 carries an empty msisdn besides a *)
(* real one, the others have one number.                                    *)
EXTENDS PortInJob, TLC

\* Every order is a person's.
MCKind == [o \in Orders |-> "person"]

\* Two orders of persons, one of a legal entity, one with a bad payload.
MCMixedKind ==
  [o \in Orders |-> CASE o = 2 -> "filtered" [] o = 3 -> "broken"
                      [] OTHER -> "person"]

MCNumbers == [o \in Orders |-> IF o = 1 THEN {"", "n1"} ELSE {"n2"}]

\* orders_log as the migration of portin-requests creates it.
MigratedColumns ==
  {"order_id", "version_date", "changed_by_user", "state", "order_data_log"}

\* orders_log with the columns that the job reads, too.
ReadColumns ==
  MigratedColumns
    \cup {"creation_date", "due_date", "cdb_process_id", "order_type"}

ReadableHistory == {ReadColumns}

AnySchema == {MigratedColumns, ReadColumns}

\* The runs are interchangeable: no definition names one of them.
RunSymmetry == Permutations(Runs)
=============================================================================
