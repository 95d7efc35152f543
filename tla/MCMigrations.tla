------------------------------- MODULE MCMigrations ------------------------------
(* Migrations: scripts of each kind, two of them rebuilding a table that holds  *)
(* rows, and a last one that adds a column.                                     *)
EXTENDS Migrations

ScriptsMC ==
  <<RebuildAndCreate("journal", "assets"), RebuildAtOnce("accounts"),
    InTransaction(<<Create(Old("centers")), Create(Old("column"))>>)>>

==================================================================================
