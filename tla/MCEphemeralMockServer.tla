------------------------- MODULE MCEphemeralMockServer -------------------------
(* Small instances of EphemeralMockServer for TLC. *)
EXTENDS EphemeralMockServer, TLC

CONSTANTS http, database, bogus

\* Two services are enough for a loop over them to be interrupted half-way.
TwoServices == {http, database}

\* Lists with and without a name that _create_service rejects.
Lists == {{http, database}, {http, bogus}}
AllNames == {http, database, bogus}

\* The services are interchangeable: no action looks at a name.
Symmetry == Permutations(TwoServices)

OneList == {TwoServices}
================================================================================
