-------------------------- MODULE MCEvidenceChain --------------------------
(* Instances of EvidenceChain for TLC. *)
EXTENDS EvidenceChain

Setting(mutex, anchored, started) ==
    [mutex |-> mutex, anchored |-> anchored, started |-> started]

\* One process on SQLite or DuckDB; PostgreSQL once the genesis row is there.
SerialSettings ==
    {Setting(TRUE, TRUE, FALSE), Setting(TRUE, FALSE, FALSE),
     Setting(FALSE, TRUE, TRUE)}

\* SQLite or DuckDB, the invocation recorded before its evidence.
Anchored == {Setting(TRUE, TRUE, FALSE)}

\* PostgreSQL, the first writers of a chain.
PostgresFirst == {Setting(FALSE, TRUE, FALSE)}
=============================================================================
