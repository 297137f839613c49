------------------------- MODULE DatabaseServiceProofs -------------------------
(***************************************************************************)
(* Theorems about DatabaseService: types, what cannot be rolled back, and  *)
(* that a reset() of many steps does what TestDatabase does in one.        *)
(***************************************************************************)
EXTENDS DatabaseService, TLAPS

\* The parts of TypeOK that are about the database, and those about the service.
StoreType ==
  /\ made \in [Tables -> Ddls \cup {NoTable}]
  /\ \A t \in Tables : Exists(t) => TableOf[made[t]] = t
  /\ rows \in RowsOf(made)
  /\ saved.made = made /\ saved.rows \in RowsOf(made)
  /\ open \in BOOLEAN
  /\ ~open => saved.rows = rows
ServiceType ==
  /\ schemas \in Seq(Ddls) /\ Len(schemas) <= MaxSchemas
  /\ replay \in 0..Len(schemas) + 1
  /\ outcome \in {"returned", "raised", "not fetched"}
  /\ kept \subseteq Tables \X Keys
  /\ tidy \in BOOLEAN

LEMMA TypeParts == TypeOK <=> StoreType /\ ServiceType /\ (replay # 0 => ~open)
BY DEF TypeOK, StoreType, ServiceType

LEMMA TypePartsNext ==
  StoreType' /\ ServiceType' /\ (replay' # 0 => ~open') => TypeOK'
BY DEF TypeOK, StoreType, ServiceType

-------------------------------------------------------------------------------
(* The shapes of the steps.                                                *)

RowsTable(m, r) == /\ m \in [Tables -> Ddls \cup {NoTable}]
                   /\ \A t \in Tables : m[t] # NoTable => TableOf[m[t]] = t
                   /\ r \in RowsOf(m)

LEMMA CommitTypes ==
  ASSUME NEW m, NEW r, RowsTable(m, r), Commit(m, r)
  PROVE  StoreType' /\ open' = FALSE
BY DEF RowsTable, Commit, StoreType, Exists

LEMMA PendTypes ==
  ASSUME StoreType, NEW r, r \in RowsOf(made), Pend(r)
  PROVE  StoreType'
BY DEF Pend, StoreType, Exists

LEMMA Empty == RowsTable(Nothing, NoRows)
BY DEF RowsTable, Nothing, NoRows, RowsOf

LEMMA Same == ASSUME StoreType PROVE RowsTable(made, rows) /\ RowsTable(saved.made, saved.rows)
BY DEF RowsTable, StoreType, Exists

LEMMA WithRows ==
  ASSUME StoreType, NEW t \in Tables, Exists(t), NEW ks \in SUBSET Keys
  PROVE  /\ With(t, ks) \in RowsOf(made) /\ Without(t, ks) \in RowsOf(made)
         /\ RowsTable(made, With(t, ks)) /\ RowsTable(made, Without(t, ks))
<1>1. With(t, ks) \in RowsOf(made) /\ Without(t, ks) \in RowsOf(made)
  BY DEF With, Without, RowsOf, StoreType, Exists
<1> QED BY <1>1 DEF RowsTable, StoreType, Exists

LEMMA MakeTypes ==
  ASSUME StoreType, NEW d \in Ddls, MakeTable(d)
  PROVE  /\ TableOf[d] \in Tables /\ ~Exists(TableOf[d])
         /\ made' = [made EXCEPT ![TableOf[d]] = d]
         /\ rows' = rows /\ saved' = [made |-> made', rows |-> rows'] /\ open' = FALSE
         /\ StoreType'
<1>1. TableOf[d] \in Tables /\ ~Exists(TableOf[d])
  BY DatabaseOK DEF MakeTable
<1> DEFINE m == [made EXCEPT ![TableOf[d]] = d]
<1>2. Commit(m, rows)
  BY DEF MakeTable
<1>3. RowsTable(m, rows)
  BY <1>1 DEF RowsTable, StoreType, Exists, RowsOf
<1> HIDE DEF m
<1>4. StoreType'
  BY <1>2, <1>3, CommitTypes
<1> QED BY <1>1, <1>2, <1>4 DEF Commit, m

LEMMA KeepTypes ==
  ASSUME StoreType, NEW d \in Ddls, KeepTable(d)
  PROVE  /\ Exists(TableOf[d]) /\ UNCHANGED <<made, rows>>
         /\ saved' = [made |-> made', rows |-> rows'] /\ open' = FALSE
         /\ StoreType'
<1>1. RowsTable(made, rows) /\ Commit(made, rows)
  BY Same DEF KeepTable
<1> QED BY <1>1, CommitTypes DEF KeepTable, Commit

LEMMA DropTypes ==
  ASSUME StoreType, NEW t \in Tables,
         Commit([made EXCEPT ![t] = NoTable], [rows EXCEPT ![t] = {}])
  PROVE  StoreType' /\ open' = FALSE
<1>1. RowsTable([made EXCEPT ![t] = NoTable], [rows EXCEPT ![t] = {}])
  BY DEF RowsTable, StoreType, Exists, RowsOf
<1> QED BY <1>1, CommitTypes

LEMMA BatchKeys ==
  ASSUME NEW batch \in Batches, NEW n \in 0..Len(batch)
  PROVE  Firsts(batch, n) \in SUBSET Keys
<1>1. batch \in Seq(Keys)
  BY DatabaseOK
<1> QED BY <1>1 DEF Firsts

\* Statements that write rows, or none: the tables stay.
Statement == \/ \E t \in Tables, k \in Keys :
                  Insert(t, k) \/ InsertDuplicate(t, k) \/ Delete(t, k) \/ Returning(t, k)
             \/ Select
             \/ Rollback
             \/ ExecuteMany

LEMMA StatementTypes ==
  ASSUME StoreType, ServiceType, Statement
  PROVE  /\ StoreType' /\ LockFree /\ made' = made
         /\ UNCHANGED <<schemas, replay, tidy>>
         /\ outcome' \in {"returned", "raised", "not fetched"}
         /\ kept' \subseteq Tables \X Keys
<1>1. ASSUME NEW t \in Tables, NEW k \in Keys, Insert(t, k)
      PROVE  StoreType' /\ made' = made
  <2>1. RowsTable(made, With(t, {k})) /\ Commit(made, With(t, {k}))
    BY <1>1, WithRows DEF Insert
  <2> QED BY <2>1, CommitTypes DEF Commit
<1>2. ASSUME NEW t \in Tables, NEW k \in Keys, InsertDuplicate(t, k)
      PROVE  StoreType' /\ made' = made
  <2>1. rows \in RowsOf(made) /\ Pend(rows)
    BY <1>2 DEF InsertDuplicate, StoreType
  <2> QED BY <2>1, PendTypes DEF Pend
<1>3. ASSUME NEW t \in Tables, NEW k \in Keys, Delete(t, k)
      PROVE  StoreType' /\ made' = made
  <2>1. RowsTable(made, Without(t, {k})) /\ Commit(made, Without(t, {k}))
    BY <1>3, WithRows DEF Delete
  <2> QED BY <2>1, CommitTypes DEF Commit
<1>4. ASSUME NEW t \in Tables, NEW k \in Keys, Returning(t, k)
      PROVE  StoreType' /\ made' = made
  <2>1. \E r \in RowsOf(made) : Pend(r)
    <3>1. With(t, {k}) \in RowsOf(made) /\ Without(t, {k}) \in RowsOf(made)
      BY <1>4, WithRows DEF Returning
    <3> QED BY <1>4, <3>1 DEF Returning
  <2> QED BY <2>1, PendTypes DEF Pend
<1>5. CASE Select
  <2>1. RowsTable(made, rows) /\ Commit(made, rows)
    BY <1>5, Same DEF Select
  <2>2. StoreType' /\ made' = made
    BY <2>1, CommitTypes DEF Commit
  <2> QED BY <1>5, <2>2 DEF Select, Returns, ServiceType
<1>6. CASE Rollback
  <2>1. /\ RowsTable(saved.made, saved.rows) /\ Commit(saved.made, saved.rows)
        /\ saved.made = made
    BY <1>6, Same DEF Rollback, StoreType
  <2>2. StoreType' /\ made' = made
    BY <2>1, CommitTypes DEF Commit
  <2> QED BY <1>6, <2>2 DEF Rollback, Returns, ServiceType
<1>7. ASSUME NEW t \in Tables, NEW batch \in Batches, InsertMany(t, batch)
      PROVE  /\ StoreType' /\ made' = made
             /\ kept' = kept \cup ({t} \X Firsts(batch, Len(batch)))
             /\ Firsts(batch, Len(batch)) \subseteq Keys
  <2> DEFINE ks == Firsts(batch, Len(batch))
  <2>1. ks \in SUBSET Keys
    <3>1. Len(batch) \in 0..Len(batch)
      BY DatabaseOK
    <3> QED BY <3>1, BatchKeys
  <2>2. Exists(t) /\ Commit(made, With(t, ks)) /\ kept' = kept \cup ({t} \X ks)
    BY <1>7 DEF InsertMany
  <2> HIDE DEF ks
  <2>3. RowsTable(made, With(t, ks))
    BY <2>1, <2>2, WithRows
  <2>4. StoreType' /\ made' = made
    BY <2>2, <2>3, CommitTypes DEF Commit
  <2> QED BY <2>1, <2>2, <2>4 DEF ks
<1>8. ASSUME NEW t \in Tables, NEW batch \in Batches, NEW n \in 0..Len(batch),
             InsertManyFails(t, batch, n)
      PROVE  StoreType' /\ made' = made
  <2> DEFINE ks == Firsts(batch, n)
  <2>1. ks \in SUBSET Keys
    BY BatchKeys
  <2>2. Exists(t) /\ Pend(With(t, ks))
    BY <1>8 DEF InsertManyFails
  <2> HIDE DEF ks
  <2>3. With(t, ks) \in RowsOf(made)
    BY <2>1, <2>2, WithRows
  <2> QED BY <2>2, <2>3, PendTypes DEF Pend
<1>9. CASE ExecuteMany
  <2>1. /\ LockFree /\ UNCHANGED <<schemas, replay, tidy>>
        /\ outcome' \in {"returned", "raised", "not fetched"}
    BY <1>9 DEF ExecuteMany, InsertMany, InsertManyFails, Returns, Raises
  <2>2. StoreType' /\ made' = made
    BY <1>7, <1>8, <1>9 DEF ExecuteMany
  <2>3. kept' \subseteq Tables \X Keys
    <3>1. ASSUME NEW t \in Tables, NEW batch \in Batches, InsertMany(t, batch)
          PROVE  kept' \subseteq Tables \X Keys
      <4>1. /\ kept' = kept \cup ({t} \X Firsts(batch, Len(batch)))
            /\ Firsts(batch, Len(batch)) \subseteq Keys
        BY <1>7, <3>1
      <4>2. ({t} \X Firsts(batch, Len(batch))) \subseteq Tables \X Keys
        <5> HIDE DEF Firsts
        <5> QED BY <4>1
      <4> QED BY <4>1, <4>2 DEF ServiceType
    <3>2. ASSUME NEW t \in Tables, NEW batch \in Batches, NEW n \in 0..Len(batch),
                 InsertManyFails(t, batch, n)
          PROVE  kept' \subseteq Tables \X Keys
      BY <3>2 DEF InsertManyFails, ServiceType
    <3> QED BY <1>9, <3>1, <3>2 DEF ExecuteMany
  <2> QED BY <2>1, <2>2, <2>3
<1>10. ASSUME NEW t \in Tables, NEW k \in Keys,
              Insert(t, k) \/ InsertDuplicate(t, k) \/ Delete(t, k) \/ Returning(t, k)
       PROVE  /\ LockFree /\ UNCHANGED <<schemas, replay, tidy>>
              /\ outcome' \in {"returned", "raised", "not fetched"}
              /\ kept' \subseteq Tables \X Keys
  <2>1. LockFree /\ UNCHANGED <<schemas, replay, tidy>>
    BY <1>10 DEF Insert, InsertDuplicate, Delete, Returning
  <2>2. outcome' \in {"returned", "raised", "not fetched"}
    BY <1>10 DEF Insert, InsertDuplicate, Delete, Returning, Returns, Raises
  <2>3. \/ kept' = kept \cup {<<t, k>>}
        \/ kept' = kept
        \/ kept' = kept \ {<<t, k>>}
    BY <1>10 DEF Insert, InsertDuplicate, Delete, Returning
  <2>4. <<t, k>> \in Tables \X Keys
    OBVIOUS
  <2> QED BY <2>1, <2>2, <2>3, <2>4 DEF ServiceType
<1> QED BY <1>1, <1>2, <1>3, <1>4, <1>5, <1>6, <1>9, <1>10 DEF Statement

-------------------------------------------------------------------------------
(* Types.                                                                  *)

LEMMA TypeInit == Init => TypeOK
<1>1. <<>> \in Seq(Ddls) /\ Len(<<>>) = 0
  OBVIOUS
<1> SUFFICES ASSUME Init PROVE TypeOK
  OBVIOUS
<1>2. StoreType
  BY Empty DEF Init, StoreType, RowsTable, Exists
<1>3. ServiceType
  BY <1>1, DatabaseOK DEF Init, ServiceType
<1> QED BY <1>2, <1>3, TypeParts DEF Init

LEMMA TypeStep == TypeOK /\ [Next]_vars => TypeOK'
<1> SUFFICES ASSUME TypeOK, [Next]_vars PROVE TypeOK'
  OBVIOUS
<1>0. /\ StoreType /\ ServiceType /\ (replay # 0 => ~open)
      /\ schemas \in Seq(Ddls) /\ Len(schemas) \in Nat /\ replay \in 0..Len(schemas) + 1
  <2>1. StoreType /\ ServiceType /\ (replay # 0 => ~open)
    BY TypeParts
  <2>2. schemas \in Seq(Ddls) /\ replay \in 0..Len(schemas) + 1
    BY <2>1 DEF ServiceType
  <2> QED BY <2>1, <2>2
<1>1. ASSUME NEW d \in Ddls, CreateTable(d) PROVE TypeOK'
  <2>1. StoreType' /\ open' = FALSE
    BY <1>0, <1>1, MakeTypes, KeepTypes DEF CreateTable
  <2>2. schemas' \in Seq(Ddls) /\ Len(schemas') = Len(schemas) + 1
        /\ Len(schemas) < MaxSchemas /\ replay' = 0
    <3>1. schemas' = Append(schemas, d) /\ Len(schemas) < MaxSchemas /\ replay' = 0
      BY <1>1 DEF CreateTable, LockFree
    <3> QED BY <1>0, <3>1
  <2>3. ServiceType'
    <3>1. Len(schemas') <= MaxSchemas /\ replay' \in 0..Len(schemas') + 1
      BY <1>0, <2>2, DatabaseOK
    <3> QED BY <1>0, <1>1, <2>2, <3>1 DEF CreateTable, ServiceType, Returns
  <2> QED BY <2>1, <2>3, TypePartsNext
<1>2. CASE Refused
  BY <1>0, <1>2, TypePartsNext DEF Refused, database, StoreType, ServiceType, Raises, Exists
<1>3. ASSUME NEW d \in Ddls, MakeUnrecorded(d) PROVE TypeOK'
  <2>1. StoreType' /\ open' = FALSE
    BY <1>0, <1>3, MakeTypes DEF MakeUnrecorded
  <2>2. ServiceType'
    BY <1>0, <1>3 DEF MakeUnrecorded, ServiceType, Returns
  <2> QED BY <2>1, <2>2, TypePartsNext
<1>4. ASSUME NEW t \in Tables, DropTable(t) PROVE TypeOK'
  <2>1. StoreType' /\ open' = FALSE
    BY <1>0, <1>4, DropTypes DEF DropTable
  <2>2. ServiceType'
    BY <1>0, <1>4 DEF DropTable, ServiceType, Returns
  <2> QED BY <2>1, <2>2, TypePartsNext
<1>5. CASE Statement
  <2>1. StoreType' /\ replay' = 0
    BY <1>0, <1>5, StatementTypes DEF LockFree
  <2>2. ServiceType'
    BY <1>0, <1>5, StatementTypes DEF ServiceType
  <2> QED BY <2>1, <2>2, TypePartsNext
<1>6. CASE Reopen
  <2>1. StoreType' /\ open' = FALSE
    BY <1>6, Empty, CommitTypes DEF Reopen
  <2>2. ServiceType'
    <3>1. UNCHANGED <<schemas, outcome, tidy>> /\ replay' = 1 /\ kept' = {}
      BY <1>6 DEF Reopen
    <3>2. 1 \in 0..Len(schemas) + 1
      BY <1>0
    <3> QED BY <1>0, <3>1, <3>2 DEF ServiceType
  <2> QED BY <2>1, <2>2, TypePartsNext
<1>7. CASE Replay
  <2>1. schemas[replay] \in Ddls /\ replay \in 1..Len(schemas)
    BY <1>0, <1>7 DEF Replay
  <2>2. StoreType' /\ open' = FALSE
    <3>1. CASE MakeTable(schemas[replay])
      BY <1>0, <2>1, <3>1, MakeTypes
    <3>2. CASE UNCHANGED database
      BY <1>0, <2>1, <3>2 DEF database, StoreType, Exists
    <3> QED BY <1>7, <3>1, <3>2 DEF Replay
  <2>3. ServiceType'
    <3>1. replay' \in 0..Len(schemas') + 1
      BY <1>0, <1>7, <2>1 DEF Replay
    <3> QED BY <1>0, <1>7, <3>1 DEF Replay, ServiceType
  <2> QED BY <2>2, <2>3, TypePartsNext
<1>8. CASE ResetReturns
  <2>1. StoreType' /\ open' = FALSE
    BY <1>0, <1>8, Same, CommitTypes DEF ResetReturns
  <2>2. ServiceType'
    <3>1. UNCHANGED <<schemas, kept>> /\ replay' = 0 /\ tidy' = TRUE /\ outcome' = "returned"
      BY <1>8 DEF ResetReturns, Returns
    <3>2. 0 \in 0..Len(schemas) + 1
      BY <1>0
    <3> QED BY <1>0, <3>1, <3>2 DEF ServiceType
  <2> QED BY <2>1, <2>2, TypePartsNext
<1>9. CASE HardReset
  <2>1. StoreType' /\ open' = FALSE
    BY <1>9, Empty, CommitTypes DEF HardReset
  <2>2. schemas' \in Seq(Ddls) /\ Len(schemas') = 0 /\ replay' = 0
    BY <1>9 DEF HardReset, LockFree
  <2>3. ServiceType'
    BY <1>9, <2>2, DatabaseOK DEF HardReset, ServiceType, Returns
  <2> QED BY <2>1, <2>3, TypePartsNext
<1>10. CASE UNCHANGED vars
  BY <1>0, <1>10, TypePartsNext DEF vars, database, StoreType, ServiceType, Exists
<1> QED BY <1>1, <1>2, <1>3, <1>4, <1>5, <1>6, <1>7, <1>8, <1>9, <1>10
        DEF Next, Execute, Statement

\* Each table was made by a statement for it, one that is not there has no rows,
\* and without a transaction there is nothing to roll back.
THEOREM TypeCorrect == Spec => []TypeOK
<1> QED BY TypeInit, TypeStep, PTL DEF Spec

-------------------------------------------------------------------------------
(* What has returned cannot be rolled back.                                *)

LEMMA DurableStep == TypeOK /\ Durable /\ [Next]_vars => Durable'
<1> SUFFICES ASSUME TypeOK, Durable, [Next]_vars, NEW p \in kept'
             PROVE  p[2] \in saved'.rows[p[1]] \cap rows'[p[1]]
  BY DEF Durable
<1>0. StoreType /\ ServiceType /\ schemas \in Seq(Ddls)
  BY TypeParts DEF ServiceType
<1>1. p \in Tables \X Keys
  BY TypeStep DEF TypeOK
<1>2. p \in kept => p[2] \in saved.rows[p[1]] /\ p[2] \in rows[p[1]]
  BY DEF Durable
<1>3. rows \in [Tables -> SUBSET Keys]
  BY <1>0 DEF StoreType, RowsOf
<1>4. ASSUME NEW d \in Ddls, CreateTable(d) \/ MakeUnrecorded(d)
      PROVE  p[2] \in saved'.rows[p[1]] \cap rows'[p[1]]
  <2>1. MakeTable(d) \/ KeepTable(d)
    BY <1>4 DEF CreateTable, MakeUnrecorded
  <2>2. rows' = rows /\ saved'.rows = rows
    <3>1. rows' = rows /\ saved' = [made |-> made', rows |-> rows']
      BY <1>0, <2>1, MakeTypes, KeepTypes
    <3> QED BY <3>1
  <2> QED BY <1>2, <1>4, <2>2 DEF CreateTable, MakeUnrecorded
<1>5. CASE Refused
  BY <1>2, <1>5 DEF Refused, database
<1>6. ASSUME NEW t \in Tables, DropTable(t)
      PROVE  p[2] \in saved'.rows[p[1]] \cap rows'[p[1]]
  <2>1. p \in kept /\ p[1] # t
    BY <1>1, <1>6 DEF DropTable
  <2> QED BY <1>1, <1>2, <1>3, <1>6, <2>1 DEF DropTable, Commit
<1>7. ASSUME NEW t \in Tables, NEW k \in Keys, Insert(t, k)
      PROVE  p[2] \in saved'.rows[p[1]] \cap rows'[p[1]]
  <2>1. p \in kept \/ (p[1] = t /\ p[2] = k)
    BY <1>7 DEF Insert
  <2> QED BY <1>1, <1>2, <1>3, <1>7, <2>1 DEF Insert, Commit, With
<1>8. ASSUME NEW t \in Tables, NEW k \in Keys, InsertDuplicate(t, k)
      PROVE  p[2] \in saved'.rows[p[1]] \cap rows'[p[1]]
  BY <1>2, <1>8 DEF InsertDuplicate, Pend
<1>9. ASSUME NEW t \in Tables, NEW k \in Keys, Delete(t, k) \/ Returning(t, k)
      PROVE  p[2] \in saved'.rows[p[1]] \cap rows'[p[1]]
  <2>1. p \in kept /\ ~(p[1] = t /\ p[2] = k)
    <3>1. kept' = kept \ {<<t, k>>}
      BY <1>9 DEF Delete, Returning
    <3> QED BY <1>1, <3>1
  <2>2. p[2] \in Without(t, {k})[p[1]] /\ p[2] \in With(t, {k})[p[1]]
    BY <1>1, <1>2, <1>3, <2>1 DEF Without, With
  <2>3. CASE Delete(t, k)
    BY <2>2, <2>3 DEF Delete, Commit
  <2>4. CASE Returning(t, k)
    BY <1>2, <2>1, <2>2, <2>4 DEF Returning, Pend
  <2> QED BY <1>9, <2>3, <2>4
<1>10. CASE Select
  BY <1>2, <1>10 DEF Select, Commit
<1>11. CASE Rollback
  BY <1>2, <1>11 DEF Rollback, Commit
<1>12. ASSUME NEW t \in Tables, NEW batch \in Batches, InsertMany(t, batch)
       PROVE  p[2] \in saved'.rows[p[1]] \cap rows'[p[1]]
  <2> DEFINE ks == Firsts(batch, Len(batch))
  <2>1. kept' = kept \cup ({t} \X ks) /\ Commit(made, With(t, ks))
    BY <1>12 DEF InsertMany
  <2> HIDE DEF ks
  <2>2. p \in kept \/ (p[1] = t /\ p[2] \in ks)
    BY <2>1
  <2> QED BY <1>1, <1>2, <1>3, <2>1, <2>2 DEF Commit, With
<1>13. ASSUME NEW t \in Tables, NEW batch \in Batches, NEW n \in 0..Len(batch),
              InsertManyFails(t, batch, n)
       PROVE  p[2] \in saved'.rows[p[1]] \cap rows'[p[1]]
  <2> DEFINE ks == Firsts(batch, n)
  <2>1. kept' = kept /\ Pend(With(t, ks))
    BY <1>13 DEF InsertManyFails
  <2> HIDE DEF ks
  <2> QED BY <1>1, <1>2, <1>3, <2>1 DEF Pend, With
<1>14. CASE Reopen \/ HardReset
  BY <1>14 DEF Reopen, HardReset
<1>15. CASE Replay
  <2>1. schemas[replay] \in Ddls /\ kept' = kept
    BY <1>0, <1>15 DEF Replay
  <2>2. CASE MakeTable(schemas[replay])
    <3>1. rows' = rows /\ saved'.rows = rows
      <4>1. rows' = rows /\ saved' = [made |-> made', rows |-> rows']
        BY <1>0, <2>1, <2>2, MakeTypes
      <4> QED BY <4>1
    <3> QED BY <1>2, <2>1, <3>1
  <2>3. CASE UNCHANGED database
    BY <1>2, <2>1, <2>3 DEF database
  <2> QED BY <1>15, <2>2, <2>3 DEF Replay
<1>16. CASE ResetReturns
  BY <1>2, <1>16 DEF ResetReturns, Commit
<1>17. CASE UNCHANGED vars
  BY <1>2, <1>17 DEF vars, database
<1> QED BY <1>4, <1>5, <1>6, <1>7, <1>8, <1>9, <1>10, <1>11, <1>12, <1>13, <1>14, <1>15,
           <1>16, <1>17 DEF Next, Execute, ExecuteMany

\* Rows written by an operation that returned are committed, whatever operations
\* raise afterwards and leave a transaction open, and whatever ROLLBACK follows.
THEOREM DurableCorrect == Spec => []Durable
<1>1. Init => Durable
  BY DEF Init, Durable
<1> QED BY <1>1, DurableStep, TypeCorrect, PTL DEF Spec

-------------------------------------------------------------------------------
(* Which statement counts.                                                 *)

\* Whatever a statement makes has a first statement.
HaveFirst(s) == \A j \in DOMAIN s : \E i \in 1..j : IsFirst(s, i, TableOf[s[j]])

LEMMA FirstIsUnique ==
  ASSUME NEW s \in Seq(Ddls), NEW t, NEW i, NEW j, IsFirst(s, i, t), IsFirst(s, j, t)
  PROVE  i = j
<1>1. i \in 1..Len(s) /\ j \in 1..Len(s)
  BY DEF IsFirst
<1>2. ~(i < j) /\ ~(j < i)
  BY <1>1 DEF IsFirst
<1> QED BY <1>1, <1>2

LEMMA MadeByFirst ==
  ASSUME NEW s \in Seq(Ddls), NEW t \in Tables
  PROVE  /\ \A i : IsFirst(s, i, t) => MadeBy(s)[t] = s[i] /\ MadeBy(s)[t] \in Ddls
         /\ (~\E i \in DOMAIN s : IsFirst(s, i, t)) => MadeBy(s)[t] = NoTable
<1>1. ASSUME NEW i, IsFirst(s, i, t)
      PROVE  MadeBy(s)[t] = s[i] /\ MadeBy(s)[t] \in Ddls
  <2> DEFINE c == CHOOSE k \in DOMAIN s : IsFirst(s, k, t)
  <2>1. i \in DOMAIN s
    BY <1>1 DEF IsFirst
  <2>2. c \in DOMAIN s /\ IsFirst(s, c, t)
    BY <1>1, <2>1
  <2>3. MadeBy(s)[t] = s[c]
    BY <1>1, <2>1 DEF MadeBy
  <2> HIDE DEF c
  <2>4. c = i
    BY <1>1, <2>2, FirstIsUnique
  <2> QED BY <2>1, <2>3, <2>4
<1>2. (~\E i \in DOMAIN s : IsFirst(s, i, t)) => MadeBy(s)[t] = NoTable
  BY DEF MadeBy
<1> QED BY <1>1, <1>2

\* A statement that is recorded counts if none for its table was.
LEMMA AppendMakes ==
  ASSUME NEW s \in Seq(Ddls), HaveFirst(s), NEW d \in Ddls
  PROVE  /\ HaveFirst(Append(s, d))
         /\ MadeBy(Append(s, d)) = IF MadeBy(s)[TableOf[d]] = NoTable
                                   THEN [MadeBy(s) EXCEPT ![TableOf[d]] = d] ELSE MadeBy(s)
<1> DEFINE n == Len(s) + 1
           t == TableOf[d]
           r == Append(s, d)
<1>1. /\ r \in Seq(Ddls) /\ n \in Nat \ {0}
      /\ DOMAIN s = 1..n - 1 /\ DOMAIN r = 1..n
      /\ \A i \in 1..n - 1 : r[i] = s[i]
      /\ r[n] = d
  OBVIOUS
<1> HIDE DEF n, r
<1>2. ASSUME NEW u, NEW i \in 1..n - 1 PROVE IsFirst(r, i, u) <=> IsFirst(s, i, u)
  <2>1. i \in 1..n /\ \A j \in 1..i - 1 : r[j] = s[j]
    BY <1>1
  <2> QED BY <1>1, <2>1 DEF IsFirst
<1>3. IsFirst(r, n, t) <=> \A j \in 1..n - 1 : TableOf[s[j]] # t
  BY <1>1 DEF IsFirst
<1>4. (\E i \in 1..n - 1 : IsFirst(s, i, t)) \/ IsFirst(r, n, t)
  <2>1. CASE \E j \in 1..n - 1 : TableOf[s[j]] = t
    <3>1. PICK j \in 1..n - 1 : TableOf[s[j]] = t
      BY <2>1
    <3>2. PICK i \in 1..j : IsFirst(s, i, t)
      BY <1>1, <3>1 DEF HaveFirst
    <3>3. i \in 1..n - 1
      BY <1>1, <3>1, <3>2
    <3> QED BY <3>2, <3>3
  <2> QED BY <1>3, <2>1
<1>5. HaveFirst(r)
  <2> SUFFICES ASSUME NEW j \in 1..n
               PROVE  \E i \in 1..j : IsFirst(r, i, TableOf[r[j]])
    BY <1>1 DEF HaveFirst
  <2>1. CASE j = n
    <3>1. 1..n - 1 \subseteq 1..n /\ n \in 1..n
      BY <1>1
    <3> QED BY <1>1, <1>2, <1>4, <2>1, <3>1
  <2>2. CASE j # n
    <3>1. j \in 1..n - 1 /\ r[j] = s[j]
      BY <1>1, <2>2
    <3>2. PICK i \in 1..j : IsFirst(s, i, TableOf[s[j]])
      BY <1>1, <3>1 DEF HaveFirst
    <3>3. i \in 1..n - 1
      BY <1>1, <3>1, <3>2
    <3> QED BY <1>2, <3>1, <3>2, <3>3
  <2> QED BY <2>1, <2>2
<1>6. t \in Tables /\ d # NoTable
  BY DatabaseOK
<1>7. ASSUME NEW u \in Tables, u # t PROVE MadeBy(r)[u] = MadeBy(s)[u]
  <2>1. ~IsFirst(r, n, u)
    BY <1>1, <1>7 DEF IsFirst
  <2>2. CASE \E i \in 1..n - 1 : IsFirst(s, i, u)
    <3>1. PICK i \in 1..n - 1 : IsFirst(s, i, u)
      BY <2>2
    <3>2. IsFirst(r, i, u) /\ r[i] = s[i]
      BY <1>1, <1>2, <3>1
    <3> QED BY <1>1, <3>1, <3>2, MadeByFirst
  <2>3. CASE ~\E i \in 1..n - 1 : IsFirst(s, i, u)
    <3>1. ~\E i \in 1..n : IsFirst(r, i, u)
      BY <1>1, <1>2, <2>1, <2>3
    <3> QED BY <1>1, <2>3, <3>1, MadeByFirst
  <2> QED BY <2>2, <2>3
<1>8. MadeBy(r)[t] = IF MadeBy(s)[t] = NoTable THEN d ELSE MadeBy(s)[t]
  <2>1. CASE \E i \in 1..n - 1 : IsFirst(s, i, t)
    <3>1. PICK i \in 1..n - 1 : IsFirst(s, i, t)
      BY <2>1
    <3>2. IsFirst(r, i, t) /\ r[i] = s[i]
      BY <1>1, <1>2, <3>1
    <3>3. MadeBy(s)[t] = s[i] /\ MadeBy(s)[t] \in Ddls /\ MadeBy(r)[t] = r[i]
      BY <1>1, <1>6, <3>1, <3>2, MadeByFirst
    <3> QED BY <3>2, <3>3, DatabaseOK
  <2>2. CASE ~\E i \in 1..n - 1 : IsFirst(s, i, t)
    <3>1. IsFirst(r, n, t)
      BY <1>4, <2>2
    <3>2. MadeBy(r)[t] = d /\ MadeBy(s)[t] = NoTable
      BY <1>1, <1>6, <2>2, <3>1, MadeByFirst
    <3> QED BY <3>2
  <2> QED BY <2>1, <2>2
<1> HIDE DEF t
<1>9. MadeBy(r) = IF MadeBy(s)[t] = NoTable THEN [MadeBy(s) EXCEPT ![t] = d] ELSE MadeBy(s)
  <2>1. /\ MadeBy(s) = [u \in Tables |-> MadeBy(s)[u]]
        /\ MadeBy(r) = [u \in Tables |-> MadeBy(r)[u]]
    BY DEF MadeBy
  <2> QED BY <1>6, <1>7, <1>8, <2>1
<1> QED BY <1>5, <1>9 DEF r, t

-------------------------------------------------------------------------------
(* reset() keeps the tables.                                               *)

\* The replay has made what the statements it has passed say.
Replayed == replay # 0 =>
  /\ \A j \in 1..replay - 1 : Exists(TableOf[schemas[j]])
  /\ \A t \in Tables : Exists(t) =>
       \E i \in 1..replay - 1 : IsFirst(schemas, i, t) /\ made[t] = schemas[i]

SchemaInv == HaveFirst(schemas) /\ Replayed /\ ResetKeepsTables

\* At the end of the replay the tables are those registered.
LEMMA ReplayedAll ==
  ASSUME TypeOK, Replayed, replay = Len(schemas) + 1
  PROVE  made = Registered
<1>1. schemas \in Seq(Ddls) /\ Len(schemas) \in Nat /\ replay # 0
      /\ made \in [Tables -> Ddls \cup {NoTable}]
  <2>1. schemas \in Seq(Ddls) /\ made \in [Tables -> Ddls \cup {NoTable}]
    BY DEF TypeOK
  <2> QED BY <2>1
<1>2. /\ \A j \in DOMAIN schemas : Exists(TableOf[schemas[j]])
      /\ \A t \in Tables : Exists(t) =>
           \E i \in DOMAIN schemas : IsFirst(schemas, i, t) /\ made[t] = schemas[i]
  BY <1>1 DEF Replayed
<1>3. ASSUME NEW t \in Tables PROVE made[t] = Registered[t]
  <2>1. CASE Exists(t)
    BY <1>1, <1>2, <2>1, MadeByFirst DEF Registered
  <2>2. CASE ~Exists(t)
    <3>1. ~\E i \in DOMAIN schemas : IsFirst(schemas, i, t)
      BY <1>2, <2>2 DEF IsFirst
    <3> QED BY <1>1, <2>2, <3>1, MadeByFirst DEF Exists, Registered
  <2> QED BY <2>1, <2>2
<1>4. Registered = [t \in Tables |-> Registered[t]]
  BY DEF Registered, MadeBy
<1> QED BY <1>1, <1>3, <1>4

\* The statement replayed is the first for its table if the table is not there.
LEMMA ReplayStep ==
  ASSUME TypeOK, Replayed, Replay
  PROVE  Replayed'
<1> DEFINE d == schemas[replay]
<1>1. /\ schemas \in Seq(Ddls) /\ replay \in 1..Len(schemas) /\ Len(schemas) \in Nat
      /\ d \in Ddls /\ schemas' = schemas /\ replay' = replay + 1 /\ StoreType
  <2>1. schemas \in Seq(Ddls) /\ StoreType
    BY TypeParts DEF TypeOK
  <2> QED BY <2>1 DEF Replay
<1>2. /\ \A j \in 1..replay - 1 : Exists(TableOf[schemas[j]])
      /\ \A t \in Tables : Exists(t) =>
           \E i \in 1..replay - 1 : IsFirst(schemas, i, t) /\ made[t] = schemas[i]
  BY <1>1 DEF Replayed
<1> DEFINE Made(m) == /\ \A j \in 1..replay : m[TableOf[schemas[j]]] # NoTable
                      /\ \A t \in Tables : m[t] # NoTable =>
                           \E i \in 1..replay : IsFirst(schemas, i, t) /\ m[t] = schemas[i]
<1>3. Made(made')
  <2>1. CASE MakeTable(d)
    <3>1. /\ made' = [made EXCEPT ![TableOf[d]] = d] /\ TableOf[d] \in Tables
          /\ ~Exists(TableOf[d]) /\ d # NoTable
          /\ made \in [Tables -> Ddls \cup {NoTable}]
      BY <1>1, <2>1, MakeTypes, DatabaseOK DEF StoreType
    <3>2. IsFirst(schemas, replay, TableOf[d])
      BY <1>1, <1>2, <3>1 DEF IsFirst
    <3>3. /\ made'[TableOf[d]] = d
          /\ \A t \in Tables : t # TableOf[d] => made'[t] = made[t]
      BY <3>1
    <3>4. \A j \in 1..replay : TableOf[schemas[j]] \in Tables
      BY <1>1, DatabaseOK
    <3>5. \A j \in 1..replay : j = replay \/ j \in 1..replay - 1
      BY <1>1
    <3>6. \A j \in 1..replay : made'[TableOf[schemas[j]]] # NoTable
      BY <1>2, <3>1, <3>3, <3>4, <3>5 DEF Exists
    <3>7. replay \in 1..replay /\ 1..replay - 1 \subseteq 1..replay
      BY <1>1
    <3>8. ASSUME NEW t \in Tables, made'[t] # NoTable
          PROVE  \E i \in 1..replay : IsFirst(schemas, i, t) /\ made'[t] = schemas[i]
      BY <1>2, <3>2, <3>3, <3>7, <3>8 DEF Exists
    <3> QED BY <3>6, <3>8
  <2>2. CASE Exists(TableOf[d]) /\ UNCHANGED database
    <3>1. \A j \in 1..replay : j = replay \/ j \in 1..replay - 1
      BY <1>1
    <3>2. 1..replay - 1 \subseteq 1..replay /\ made' = made
      BY <1>1, <2>2 DEF database
    <3> QED BY <1>2, <2>2, <3>1, <3>2 DEF Exists
  <2> QED BY <2>1, <2>2 DEF Replay
<1>4. replay' - 1 = replay
  BY <1>1
<1> QED BY <1>1, <1>3, <1>4 DEF Replayed, Exists

LEMMA SchemaInit == Init => SchemaInv
<1> SUFFICES ASSUME Init PROVE SchemaInv
  OBVIOUS
<1>1. schemas = <<>> /\ made = Nothing /\ replay = 0
  BY DEF Init
<1>2. HaveFirst(schemas)
  BY <1>1 DEF HaveFirst
<1>3. Registered = Nothing
  BY <1>1 DEF Registered, MadeBy, Nothing
<1> QED BY <1>1, <1>2, <1>3 DEF SchemaInv, Replayed, ResetKeepsTables

\* create_table() registers the statement, unless one for the table is registered.
LEMMA CreateRegisters ==
  ASSUME TypeOK, HaveFirst(schemas), NEW d \in Ddls, CreateTable(d)
  PROVE  /\ HaveFirst(schemas')
         /\ Registered' = IF Registered[TableOf[d]] = NoTable
                          THEN [Registered EXCEPT ![TableOf[d]] = d] ELSE Registered
<1>1. schemas \in Seq(Ddls) /\ schemas' = Append(schemas, d)
  BY DEF TypeOK, CreateTable
<1>2. Registered' = MadeBy(schemas')
  BY DEF Registered, MadeBy, IsFirst
<1> QED BY <1>1, <1>2, AppendMakes DEF Registered

LEMMA RegisteredSame == schemas' = schemas => Registered' = Registered
BY DEF Registered, MadeBy, IsFirst

LEMMA SchemaStep == TypeOK /\ SchemaInv /\ [Next]_vars => SchemaInv'
<1> SUFFICES ASSUME TypeOK, SchemaInv, [Next]_vars PROVE SchemaInv'
  OBVIOUS
<1>0. StoreType /\ ServiceType /\ schemas \in Seq(Ddls) /\ made \in [Tables -> Ddls \cup {NoTable}]
  BY TypeParts DEF StoreType, ServiceType
<1>1. schemas' = schemas => HaveFirst(schemas)' /\ Registered' = Registered
  BY RegisteredSame DEF SchemaInv, HaveFirst, IsFirst
<1>2. ASSUME NEW d \in Ddls, CreateTable(d) PROVE SchemaInv'
  <2> DEFINE t == TableOf[d]
  <2>1. /\ HaveFirst(schemas')
        /\ Registered' = IF Registered[t] = NoTable
                         THEN [Registered EXCEPT ![t] = d] ELSE Registered
    BY <1>2, CreateRegisters DEF SchemaInv
  <2>2. /\ \/ t \in Tables /\ ~Exists(t) /\ made' = [made EXCEPT ![t] = d]
           \/ Exists(t) /\ made' = made
        /\ LockFree /\ replay' = 0 /\ tidy' = tidy
    BY <1>0, <1>2, MakeTypes, KeepTypes DEF CreateTable, LockFree
  <2>3. tidy => made' = Registered'
    <3>1. tidy => made = Registered /\ (Exists(t) <=> Registered[t] # NoTable)
      BY <2>2 DEF SchemaInv, ResetKeepsTables, Exists
    <3> QED BY <2>1, <2>2, <3>1
  <2>4. HaveFirst(schemas)'
    BY <2>1 DEF HaveFirst, IsFirst
  <2> QED BY <2>2, <2>3, <2>4 DEF SchemaInv, Replayed, ResetKeepsTables
<1>3. CASE Refused
  BY <1>1, <1>3 DEF Refused, database, SchemaInv, Replayed, ResetKeepsTables, LockFree
<1>4. ASSUME NEW d \in Ddls, MakeUnrecorded(d) PROVE SchemaInv'
  BY <1>1, <1>4 DEF MakeUnrecorded, SchemaInv, Replayed, ResetKeepsTables, LockFree
<1>5. ASSUME NEW t \in Tables, DropTable(t) PROVE SchemaInv'
  BY <1>1, <1>5 DEF DropTable, SchemaInv, Replayed, ResetKeepsTables, LockFree
<1>6. CASE Statement
  <2>1. LockFree /\ made' = made /\ UNCHANGED <<schemas, replay, tidy>>
    BY <1>0, <1>6, StatementTypes
  <2> QED BY <1>1, <2>1 DEF SchemaInv, Replayed, ResetKeepsTables, LockFree
<1>7. CASE Reopen
  <2>1. made' = Nothing /\ replay' = 1 /\ schemas' = schemas
    BY <1>7 DEF Reopen, Commit
  <2>2. Replayed'
    BY <2>1 DEF Replayed, Exists, Nothing
  <2> QED BY <1>1, <2>1, <2>2 DEF SchemaInv, ResetKeepsTables, LockFree
<1>8. CASE Replay
  <2>1. Replayed'
    BY <1>8, ReplayStep DEF SchemaInv
  <2>2. replay \in 1..Len(schemas) /\ replay' = replay + 1 /\ schemas' = schemas
    BY <1>0, <1>8 DEF Replay
  <2>3. ~LockFree'
    BY <1>0, <2>2 DEF LockFree
  <2> QED BY <1>1, <2>1, <2>2, <2>3 DEF SchemaInv, ResetKeepsTables
<1>9. CASE ResetReturns
  <2>1. made = Registered /\ made' = made /\ schemas' = schemas /\ replay' = 0
    BY <1>9, ReplayedAll DEF ResetReturns, Commit, SchemaInv
  <2> QED BY <1>1, <2>1 DEF SchemaInv, Replayed, ResetKeepsTables
<1>10. CASE HardReset
  <2>1. schemas' = <<>> /\ made' = Nothing /\ replay' = 0
    BY <1>10 DEF HardReset, Commit, LockFree
  <2>2. HaveFirst(schemas)' /\ Registered' = Nothing
    BY <2>1 DEF HaveFirst, Registered, MadeBy, Nothing
  <2> QED BY <2>1, <2>2 DEF SchemaInv, Replayed, ResetKeepsTables
<1>11. CASE UNCHANGED vars
  BY <1>1, <1>11 DEF vars, database, SchemaInv, Replayed, ResetKeepsTables, LockFree, Exists
<1> QED BY <1>2, <1>3, <1>4, <1>5, <1>6, <1>7, <1>8, <1>9, <1>10, <1>11
        DEF Next, Execute, Statement

\* Unless execute() has made or dropped a table, the tables that are there are
\* those reset() makes, so it changes none: however the statements recorded
\* conflict, and whatever the operations in between have left behind.
THEOREM ResetKeeps == Spec => []ResetKeepsTables
<1>1. SchemaInv => ResetKeepsTables
  BY DEF SchemaInv
<1> QED BY <1>1, SchemaInit, SchemaStep, TypeCorrect, PTL DEF Spec
-------------------------------------------------------------------------------
(* DatabaseService implements TestDatabase.                                *)

LEMMA PromiseNames == Promise!Nothing = Nothing /\ Promise!NoRows = NoRows
BY DEF Promise!Nothing, Promise!NoRows, Nothing, NoRows

LEMMA PromiseInit == Init => Promise!Init
<1> SUFFICES ASSUME Init PROVE Promise!Init
  OBVIOUS
<1>1. Registered = Nothing
  BY DEF Init, Registered, MadeBy, Nothing
<1> QED BY <1>1, PromiseNames DEF Init, Promise!Init, Seen, SeenTidy, LockFree

\* Outside of reset() the tables seen are those that are there.
LEMMA SeenFree == /\ LockFree => Seen = made
                  /\ LockFree' => Seen' = made'
                  /\ ~LockFree => Seen = Registered
                  /\ ~LockFree' => Seen' = Registered'
BY DEF Seen, LockFree

LEMMA TidyFree == /\ LockFree => SeenTidy = tidy
                  /\ LockFree' => SeenTidy' = tidy'
                  /\ ~LockFree => SeenTidy = TRUE
                  /\ ~LockFree' => SeenTidy' = TRUE
BY DEF SeenTidy, LockFree

\* reset() counts as done when it has reopened the connection; its other steps are
\* stutters.
LEMMA PromiseStep == TypeOK /\ SchemaInv /\ [Next]_vars => [Promise!Next]_Promise!vars
<1> SUFFICES ASSUME TypeOK, SchemaInv, [Next]_vars PROVE [Promise!Next]_Promise!vars
  OBVIOUS
<1>0. StoreType /\ ServiceType /\ schemas \in Seq(Ddls)
  BY TypeParts DEF ServiceType
<1> USE SeenFree, TidyFree
<1>1. ASSUME UNCHANGED <<Seen, rows, Registered, SeenTidy>> PROVE [Promise!Next]_Promise!vars
  BY <1>1 DEF Promise!vars
<1>2. ASSUME NEW d \in Ddls, CreateTable(d) PROVE [Promise!Next]_Promise!vars
  <2>1. Registered' = IF Registered[TableOf[d]] = NoTable
                      THEN [Registered EXCEPT ![TableOf[d]] = d] ELSE Registered
    BY <1>2, CreateRegisters DEF SchemaInv
  <2>2. Seen = made /\ Seen' = made' /\ SeenTidy' = SeenTidy
    BY <1>2 DEF CreateTable, LockFree
  <2>3. CASE MakeTable(d)
    <3>1. Promise!Make(d)
      BY <1>0, <2>2, <2>3, MakeTypes DEF Promise!Make, Exists
    <3> QED BY <2>1, <2>2, <3>1 DEF Promise!Register, Promise!Next
  <2>4. CASE KeepTable(d)
    <3>1. Promise!Keep(d)
      BY <1>0, <2>2, <2>4, KeepTypes DEF Promise!Keep, Exists
    <3> QED BY <2>1, <2>2, <3>1 DEF Promise!Register, Promise!Next
  <2> QED BY <1>2, <2>3, <2>4 DEF CreateTable
<1>3. CASE Refused
  BY <1>1, <1>3, RegisteredSame DEF Refused, database, LockFree
<1>4. ASSUME NEW d \in Ddls, MakeUnrecorded(d) PROVE [Promise!Next]_Promise!vars
  <2>1. /\ Seen = made /\ Seen' = made' /\ SeenTidy' = FALSE
        /\ Registered' = Registered /\ MakeTable(d)
    BY <1>4, RegisteredSame DEF MakeUnrecorded, LockFree
  <2>2. Promise!Make(d)
    BY <1>0, <2>1, MakeTypes DEF Promise!Make, Exists
  <2> QED BY <2>1, <2>2 DEF Promise!MakeUnregistered, Promise!Next
<1>5. ASSUME NEW t \in Tables, DropTable(t) PROVE [Promise!Next]_Promise!vars
  <2>1. Seen = made /\ Seen' = made' /\ SeenTidy' = FALSE /\ Registered' = Registered
    BY <1>5, RegisteredSame DEF DropTable, LockFree
  <2> QED BY <1>5, <2>1 DEF DropTable, Commit, Promise!Drop, Promise!Next
<1>6. CASE Statement
  <2>1. LockFree /\ made' = made /\ UNCHANGED <<schemas, replay, tidy>> /\ StoreType'
    BY <1>0, <1>6, StatementTypes
  <2>2. Seen = made /\ Seen' = made' /\ SeenTidy' = SeenTidy /\ Registered' = Registered
    BY <2>1, RegisteredSame DEF LockFree
  <2>3. rows' \in RowsOf(made)
    BY <2>1 DEF StoreType
  <2> QED BY <2>1, <2>2, <2>3 DEF RowsOf, Promise!Write, Promise!Next
<1>7. CASE Reopen
  <2>1. ~LockFree' /\ Registered' = Registered /\ rows' = NoRows
    BY <1>7, RegisteredSame DEF Reopen, Commit, LockFree
  <2>2. Seen' = Registered /\ SeenTidy' = TRUE
    BY <2>1
  <2> QED BY <2>1, <2>2, PromiseNames DEF Promise!Reset, Promise!Next
<1>8. CASE Replay
  <2>1. schemas[replay] \in Ddls /\ replay \in 1..Len(schemas)
    BY <1>0, <1>8 DEF Replay
  <2>2. ~LockFree /\ ~LockFree' /\ Registered' = Registered
    BY <1>0, <1>8, <2>1, RegisteredSame DEF Replay, LockFree
  <2>3. rows' = rows
    BY <1>0, <1>8, <2>1, MakeTypes DEF Replay, database
  <2> QED BY <1>1, <2>2, <2>3
<1>9. CASE ResetReturns
  <2>1. made = Registered
    BY <1>9, ReplayedAll DEF ResetReturns, SchemaInv
  <2>2. /\ ~LockFree /\ LockFree' /\ made' = made /\ rows' = rows
        /\ Registered' = Registered /\ tidy' = TRUE
    BY <1>0, <1>9, RegisteredSame DEF ResetReturns, Commit, LockFree
  <2> QED BY <1>1, <2>1, <2>2
<1>10. CASE HardReset
  <2>1. schemas' = <<>> /\ Seen' = Nothing /\ SeenTidy' = TRUE /\ rows' = NoRows
    BY <1>10 DEF HardReset, Commit, LockFree
  <2>2. Registered' = Nothing
    BY <2>1 DEF Registered, MadeBy, Nothing
  <2> QED BY <2>1, <2>2, PromiseNames DEF Promise!HardReset, Promise!Next
<1>11. CASE UNCHANGED vars
  BY <1>1, <1>11, RegisteredSame DEF vars, database, LockFree
<1> QED BY <1>2, <1>3, <1>4, <1>5, <1>6, <1>7, <1>8, <1>9, <1>10, <1>11
        DEF Next, Execute, Statement

\* Each operation has the effect TestDatabase gives it, reset() in one step: once
\* it has the lock, nobody can tell how far its replay has come, and when it
\* returns the tables are those registered, empty.
THEOREM ImplementsPromise == Spec => KeepsPromise
<1>1. Spec => []TypeOK /\ []SchemaInv
  BY TypeCorrect, SchemaInit, SchemaStep, PTL DEF Spec
<1>2. Spec => Promise!Init /\ [][Promise!Next]_Promise!vars
  BY <1>1, PromiseInit, PromiseStep, PTL DEF Spec
<1> QED BY <1>2, PTL DEF KeepsPromise, Promise!Spec
===============================================================================
