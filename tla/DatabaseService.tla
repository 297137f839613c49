---------------------------- MODULE DatabaseService ----------------------------
(***************************************************************************)
(* DatabaseService (services/database.py): one in-memory SQLite connection *)
(* shared by the gateway and the test program, and the CREATE TABLE        *)
(* statements that reset() replays.  A table is a set of primary keys.     *)
(*                                                                         *)
(* The sqlite3 module opens a transaction before a statement that writes   *)
(* rows; DDL joins an open one and opens none.  Nothing but commit() and a *)
(* ROLLBACK given to execute() ends it: an operation that raises in        *)
(* between leaves it open to the next.  Every operation holds self._lock   *)
(* throughout and is one step, but for reset(), which is one step per      *)
(* statement it replays: the others wait for the lock.                     *)
(*                                                                         *)
(* UPDATE, and whatever else execute() may be given, writes or reads like  *)
(* the statements modelled.  Nobody in the repository uses `connection`    *)
(* past the lock.                                                          *)
(***************************************************************************)
EXTENDS Integers, Sequences

CONSTANTS
  Tables,     \* names of tables
  Ddls,       \* CREATE TABLE statements
  TableOf,    \* the table each makes
  Tolerant,   \* those with IF NOT EXISTS
  Keys,       \* primary keys
  Batches,    \* the sequences of keys given to executemany()
  NoTable,
  MaxSchemas  \* bound on the length of _schemas

ASSUME DatabaseOK ==
  /\ TableOf \in [Ddls -> Tables]
  /\ Tolerant \subseteq Ddls /\ NoTable \notin Ddls
  /\ Batches \subseteq Seq(Keys)
  /\ MaxSchemas \in Nat

VARIABLES
  made,     \* the connection's tables: the statement they were made by, or NoTable
  rows,     \* and their rows
  saved,    \* both, as a rollback would leave them
  open,     \* whether a transaction is open
  schemas,  \* self._schemas
  replay,   \* the statement reset() is at, 0 if nobody is in reset()
  \* History, read by no action:
  outcome,  \* of the last operation
  kept,     \* rows written by operations that returned, until they are removed
  tidy      \* no table was made or dropped by execute() since the last reset

database == <<made, rows, saved, open>>
vars     == <<database, schemas, replay, outcome, kept, tidy>>

Nothing == [t \in Tables |-> NoTable]
NoRows  == [t \in Tables |-> {}]

Init ==
  /\ made = Nothing
  /\ rows = NoRows
  /\ saved = [made |-> Nothing, rows |-> NoRows]
  /\ open = FALSE
  /\ schemas = <<>>
  /\ replay = 0
  /\ outcome = "returned"
  /\ kept = {}
  /\ tidy = TRUE

LockFree == replay = 0

Exists(t) == made[t] # NoTable

\* The database becomes m and r, with commit().
Commit(m, r) ==
  /\ made' = m
  /\ rows' = r
  /\ saved' = [made |-> m, rows |-> r]
  /\ open' = FALSE

\* The rows become r in a transaction that stays open.
Pend(r) ==
  /\ rows' = r
  /\ open' = TRUE
  /\ UNCHANGED <<made, saved>>

Returns == outcome' = "returned"
Raises  == outcome' = "raised"

With(t, ks)    == [rows EXCEPT ![t] = @ \cup ks]
Without(t, ks) == [rows EXCEPT ![t] = @ \ ks]

-------------------------------------------------------------------------------
(* create_table()                                                          *)

MakeTable(d) == ~Exists(TableOf[d]) /\ Commit([made EXCEPT ![TableOf[d]] = d], rows)
KeepTable(d) == d \in Tolerant /\ Exists(TableOf[d]) /\ Commit(made, rows)

\* Mutant: the statement is not recorded.
CreateUnrecorded(d) ==
  /\ LockFree
  /\ MakeTable(d) \/ KeepTable(d)
  /\ Returns
  /\ UNCHANGED <<schemas, replay, kept, tidy>>

CreateTable(d) ==
  /\ LockFree
  /\ MakeTable(d) \/ KeepTable(d)
  /\ Len(schemas) < MaxSchemas
  /\ schemas' = Append(schemas, d)
  /\ Returns
  /\ UNCHANGED <<replay, kept, tidy>>

\* create_table(), execute() or executemany() of what SQLite refuses before it
\* does anything: a table that is there already, one that is not, no SQL.
Refused ==
  /\ LockFree
  /\ Raises
  /\ UNCHANGED <<database, schemas, replay, kept, tidy>>

-------------------------------------------------------------------------------
(* execute()                                                               *)

MakeUnrecorded(d) ==
  /\ LockFree
  /\ MakeTable(d)
  /\ tidy' = FALSE
  /\ Returns
  /\ UNCHANGED <<schemas, replay, kept>>

DropTable(t) ==
  /\ LockFree
  /\ Exists(t)
  /\ Commit([made EXCEPT ![t] = NoTable], [rows EXCEPT ![t] = {}])
  /\ kept' = kept \ ({t} \X Keys)
  /\ tidy' = FALSE
  /\ Returns
  /\ UNCHANGED <<schemas, replay>>

Insert(t, k) ==
  /\ LockFree
  /\ Exists(t) /\ k \notin rows[t]
  /\ Commit(made, With(t, {k}))
  /\ kept' = kept \cup {<<t, k>>}
  /\ Returns
  /\ UNCHANGED <<schemas, replay, tidy>>

InsertDuplicate(t, k) ==
  /\ LockFree
  /\ Exists(t) /\ k \in rows[t]
  /\ Pend(rows)
  /\ Raises
  /\ UNCHANGED <<schemas, replay, kept, tidy>>

Delete(t, k) ==
  /\ LockFree
  /\ Exists(t)
  /\ Commit(made, Without(t, {k}))
  /\ kept' = kept \ {<<t, k>>}
  /\ Returns
  /\ UNCHANGED <<schemas, replay, tidy>>

\* INSERT or DELETE ... RETURNING that affects a row: commit() comes before
\* fetchall(), and raises while the statement has rows to return.
Returning(t, k) ==
  /\ LockFree
  /\ Exists(t)
  /\ Pend(IF k \in rows[t] THEN Without(t, {k}) ELSE With(t, {k}))
  /\ kept' = kept \ {<<t, k>>}
  /\ outcome' = "not fetched"
  /\ UNCHANGED <<schemas, replay, tidy>>

\* SELECT, tables(), CREATE TABLE IF NOT EXISTS of one that is there: they commit
\* as well.
Select ==
  /\ LockFree
  /\ Commit(made, rows)
  /\ Returns
  /\ UNCHANGED <<schemas, replay, kept, tidy>>

Rollback ==
  /\ LockFree
  /\ open
  /\ Commit(saved.made, saved.rows)
  /\ Returns
  /\ UNCHANGED <<schemas, replay, kept, tidy>>

-------------------------------------------------------------------------------
(* executemany() of an INSERT                                              *)

\* The first n keys of the batch go in.
Fits(t, batch, n) == \A i \in 1..n : /\ batch[i] \notin rows[t]
                                     /\ \A j \in 1..i - 1 : batch[j] # batch[i]
Firsts(batch, n) == {batch[i] : i \in 1..n}

\* Mutant: executemany() does not commit.
ManyUncommitted(t, batch) ==
  /\ LockFree
  /\ Exists(t) /\ Fits(t, batch, Len(batch))
  /\ Pend(With(t, Firsts(batch, Len(batch))))
  /\ kept' = kept \cup ({t} \X Firsts(batch, Len(batch)))
  /\ Returns
  /\ UNCHANGED <<schemas, replay, tidy>>

InsertMany(t, batch) ==
  /\ LockFree
  /\ Exists(t) /\ Fits(t, batch, Len(batch))
  /\ Commit(made, With(t, Firsts(batch, Len(batch))))
  /\ kept' = kept \cup ({t} \X Firsts(batch, Len(batch)))
  /\ Returns
  /\ UNCHANGED <<schemas, replay, tidy>>

\* The key after the first n is a duplicate.
InsertManyFails(t, batch, n) ==
  /\ LockFree
  /\ Exists(t) /\ n < Len(batch) /\ Fits(t, batch, n) /\ ~Fits(t, batch, n + 1)
  /\ Pend(With(t, Firsts(batch, n)))
  /\ Raises
  /\ UNCHANGED <<schemas, replay, kept, tidy>>

-------------------------------------------------------------------------------
(* reset() and hard_reset()                                                *)

\* Mutant: reset() deletes the rows over the connection it has.
DeleteRows ==
  /\ LockFree
  /\ made' = Nothing
  /\ rows' = NoRows
  /\ saved' = [made |-> Nothing, rows |-> NoRows]
  /\ replay' = 1
  /\ kept' = {}
  /\ UNCHANGED <<open, schemas, outcome, tidy>>

\* _close() and _open(): a new connection, an empty database.
Reopen ==
  /\ LockFree
  /\ Commit(Nothing, NoRows)
  /\ replay' = 1
  /\ kept' = {}
  /\ UNCHANGED <<schemas, outcome, tidy>>

\* Mutant: the replay ends with the first statement that fails.
ReplayOrStop ==
  /\ replay \in DOMAIN schemas
  /\ IF Exists(TableOf[schemas[replay]])
     THEN replay' = Len(schemas) + 1 /\ UNCHANGED database
     ELSE replay' = replay + 1 /\ MakeTable(schemas[replay])
  /\ UNCHANGED <<schemas, outcome, kept, tidy>>

\* A statement that fails is passed over.
Replay ==
  /\ replay \in DOMAIN schemas
  /\ \/ MakeTable(schemas[replay])
     \/ Exists(TableOf[schemas[replay]]) /\ UNCHANGED database
  /\ replay' = replay + 1
  /\ UNCHANGED <<schemas, outcome, kept, tidy>>

ResetReturns ==
  /\ replay = Len(schemas) + 1
  /\ Commit(made, rows)
  /\ replay' = 0
  /\ tidy' = TRUE
  /\ Returns
  /\ UNCHANGED <<schemas, kept>>

HardReset ==
  /\ LockFree
  /\ Commit(Nothing, NoRows)
  /\ schemas' = <<>>
  /\ kept' = {}
  /\ tidy' = TRUE
  /\ Returns
  /\ UNCHANGED replay

-------------------------------------------------------------------------------

Execute == \/ \E d \in Ddls : MakeUnrecorded(d)
           \/ \E t \in Tables : DropTable(t)
           \/ \E t \in Tables, k \in Keys :
                Insert(t, k) \/ InsertDuplicate(t, k) \/ Delete(t, k) \/ Returning(t, k)
           \/ Select
           \/ Rollback

ExecuteMany == \E t \in Tables, batch \in Batches :
                 \/ InsertMany(t, batch)
                 \/ \E n \in 0..Len(batch) : InsertManyFails(t, batch, n)

Next == \/ \E d \in Ddls : CreateTable(d)
        \/ Refused
        \/ Execute
        \/ ExecuteMany
        \/ Reopen \/ Replay \/ ResetReturns
        \/ HardReset

Spec == Init /\ [][Next]_vars

-------------------------------------------------------------------------------
(* Properties.                                                             *)

RowsOf(m) == {r \in [Tables -> SUBSET Keys] : \A t \in Tables : m[t] = NoTable => r[t] = {}}

\* Each table was made by a statement for it, one that is not there has no rows,
\* and without a transaction there is nothing to roll back.
TypeOK ==
  /\ made \in [Tables -> Ddls \cup {NoTable}]
  /\ \A t \in Tables : Exists(t) => TableOf[made[t]] = t
  /\ rows \in RowsOf(made)
  /\ saved.made = made /\ saved.rows \in RowsOf(made)
  /\ open \in BOOLEAN
  /\ ~open => saved.rows = rows
  /\ schemas \in Seq(Ddls) /\ Len(schemas) <= MaxSchemas
  /\ replay \in 0..Len(schemas) + 1
  /\ replay # 0 => ~open
  /\ outcome \in {"returned", "raised", "not fetched"}
  /\ kept \subseteq Tables \X Keys
  /\ tidy \in BOOLEAN

\* What an operation that returned has written cannot be rolled back: it is there
\* and committed until it is deleted, dropped with its table, or reset.
Durable == \A p \in kept : p[2] \in saved.rows[p[1]] \cap rows[p[1]]

\* Of the statements for a table reset() gives effect to the first.
IsFirst(s, i, t) == /\ i \in DOMAIN s /\ TableOf[s[i]] = t
                    /\ \A j \in 1..i - 1 : TableOf[s[j]] # t
MadeBy(s) == [t \in Tables |-> IF \E i \in DOMAIN s : IsFirst(s, i, t)
                               THEN s[CHOOSE i \in DOMAIN s : IsFirst(s, i, t)]
                               ELSE NoTable]
Registered == MadeBy(schemas)

\* Where execute() has made and dropped no table, reset() changes none: those that
\* are there are those it would make ("wipe all rows but keep the registered schema").
ResetKeepsTables == tidy /\ LockFree => made = Registered

\* While reset() runs nobody sees the database, so it may count as done already.
Seen     == IF LockFree THEN made ELSE Registered
SeenTidy == IF LockFree THEN tidy ELSE TRUE

Promise == INSTANCE TestDatabase WITH tables <- Seen, registered <- Registered,
                                      tidy <- SeenTidy

\* The service does what TestDatabase says, reset() in one step.
KeepsPromise == Promise!Spec

\* "Run any SQL. Returns rows as dicts" (services/database.py:87).
AnySqlReturns == outcome # "not fetched"
===============================================================================
