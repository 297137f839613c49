------------------------------ MODULE TestDatabase ------------------------------
(***************************************************************************)
(* What DatabaseService (services/database.py) promises a test: tables,    *)
(* their rows, and the tables it is set up with.  Every operation is one   *)
(* step; reset() gives back exactly the tables it is set up with, empty.   *)
(* Which rows a statement writes is of no concern here.                    *)
(***************************************************************************)
CONSTANTS Tables, Ddls, TableOf, Keys, NoTable

VARIABLES
  tables,     \* the statement each table was made by, or NoTable
  rows,       \* the keys in each table
  registered, \* the statement reset() makes each table by, or NoTable
  tidy        \* no table was made or dropped by execute() since the last reset

vars == <<tables, rows, registered, tidy>>

Nothing == [t \in Tables |-> NoTable]
NoRows  == [t \in Tables |-> {}]

Init == tables = Nothing /\ rows = NoRows /\ registered = Nothing /\ tidy = TRUE

Make(d) == /\ tables[TableOf[d]] = NoTable
           /\ tables' = [tables EXCEPT ![TableOf[d]] = d]
           /\ UNCHANGED rows

Keep(d) == tables[TableOf[d]] # NoTable /\ UNCHANGED <<tables, rows>>

\* The first statement for a table counts.
Register(d) ==
  /\ Make(d) \/ Keep(d)
  /\ registered' = IF registered[TableOf[d]] = NoTable
                   THEN [registered EXCEPT ![TableOf[d]] = d] ELSE registered
  /\ UNCHANGED tidy

MakeUnregistered(d) == Make(d) /\ tidy' = FALSE /\ UNCHANGED registered

Drop(t) == /\ tables' = [tables EXCEPT ![t] = NoTable]
           /\ rows' = [rows EXCEPT ![t] = {}]
           /\ tidy' = FALSE
           /\ UNCHANGED registered

Write == /\ rows' \in [Tables -> SUBSET Keys]
         /\ \A t \in Tables : tables[t] = NoTable => rows'[t] = {}
         /\ UNCHANGED <<tables, registered, tidy>>

Reset == tables' = registered /\ rows' = NoRows /\ tidy' = TRUE /\ UNCHANGED registered

HardReset == tables' = Nothing /\ rows' = NoRows /\ registered' = Nothing /\ tidy' = TRUE

Next == \/ \E d \in Ddls : Register(d) \/ MakeUnregistered(d)
        \/ \E t \in Tables : Drop(t)
        \/ Write \/ Reset \/ HardReset

Spec == Init /\ [][Next]_vars
===============================================================================
