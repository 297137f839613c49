\* The same, for INSERT and DELETE with a RETURNING clause.
SPECIFICATION Spec
CONSTANTS
  users = users
  orders = orders
  users1 = users1
  users2 = users2
  orders1 = orders1
  one = one
  two = two
  NoTable = NoTable
  Tables = {users, orders}
  Ddls = {users1, users2, orders1}
  TableOf <- SomeTableOf
  Tolerant = {users2}
  Keys = {one, two}
  Batches <- SomeBatches
  MaxSchemas = 3
INVARIANT
  AnySqlReturns
