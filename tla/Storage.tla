------------------------------ MODULE Storage -------------------------------
(***************************************************************************)
(* The two databases a KeyLore server may run on.  createDatabase gives    *)
(* the embedded one, "local", when no database is configured: it queues    *)
(* its statements and transactions and runs one at a time.  Over           *)
(* "postgres" the statements of different connections interleave, those    *)
(* of a transaction with those of others included.                         *)
(***************************************************************************)

CONSTANT Databases  \* those of "local" and "postgres" it may run on

ASSUME StorageAssumption == Databases \subseteq {"local", "postgres"}

VARIABLE database   \* that of this deployment

=============================================================================
