--------------------------- MODULE CheckpointStore ---------------------------
(***************************************************************************)
(* The SQLite table `checkpoints` (checkpoint_store.go): one row per dump  *)
(* identity.  SQLite serialises the writers and each statement is durable  *)
(* when it returns (synchronous=FULL), so a table is one value and every   *)
(* operation on it is one step of whoever calls it.                        *)
(***************************************************************************)
EXTENDS Integers

(* No row: sql.ErrNoRows, which Get returns as nil. *)
NoCp == [off |-> -1]

EmptyStore(Idents) == [id \in Idents |-> NoCp]

Get(store, id) == store[id]

(* Mutant: dsn among the columns of DO UPDATE SET. *)
UpsertWithDsn(store, id, off, mode, dsn) ==
  [store EXCEPT ![id] = [off |-> off, mode |-> mode, dsn |-> dsn]]

(* INSERT ... ON CONFLICT DO UPDATE: the conflict branch leaves dsn as the *)
(* first insert of the row set it.                                         *)
Upsert(store, id, off, mode, dsn) ==
  [store EXCEPT ![id] = [off  |-> off,
                         mode |-> mode,
                         dsn  |-> IF @ = NoCp THEN dsn ELSE @.dsn]]

Delete(store, id) == [store EXCEPT ![id] = NoCp]
==============================================================================
