------------------------------- MODULE Migrations --------------------------------
(***************************************************************************)
(* Migrations (src/db.rs migrate and migrations/): every command opens the *)
(* database and first runs the scripts whose version is above the one it   *)
(* reads.  A script is run in one transaction together with its version,   *)
(* unless it switches foreign keys off: then its statements commit one by  *)
(* one and the version is set last.  Several commands may start at once,   *)
(* any may die, and a program that is open already goes on writing.        *)
(*                                                                         *)
(* Of the schema only the tables matter, of a table only its rows.         *)
(***************************************************************************)
EXTENDS Integers, Sequences, SequencesExt, FiniteSetsExt

CONSTANTS
  Starters,  \* processes that open the database
  Scripts,   \* in order of version, the position is the version: whether the
             \* script runs outside a transaction, and its commits
  Tables,    \* tables there are before the first of them
  Rows,
  Writes,    \* may a program that is open already write meanwhile
  Fragile    \* processes that may die

VARIABLES
  tables,    \* from names of tables to their rows
  version,   \* PRAGMA user_version
  starter,   \* per process the version it read, the script it is at and the
             \* next of its commits
  written,   \* rows ever committed, per table
  trouble    \* starts overlapped or a row came while one ran; one died or
             \* failed while a table was gone; one died in a script that does
             \* more than rebuild; a start failed

migrationVars == <<tables, version, starter, written, trouble>>

Old(t) == <<"old", t>>

New(t) == <<"new", t>>

----------------------------------------------------------------------------------
(* Statements and scripts. *)

DropIfExists(name) == [does |-> "drop if exists", name |-> name, from |-> name]

Create(name) == [does |-> "create", name |-> name, from |-> name]

CopyRows(name, from) == [does |-> "copy", name |-> name, from |-> from]

Drop(name) == [does |-> "drop", name |-> name, from |-> name]

RenameTable(from, name) == [does |-> "rename", name |-> name, from |-> from]

SetVersion == [does |-> "version", name |-> Old("none"), from |-> Old("none")]

\* A table cannot be altered: it is copied to a new one that takes its name.
RebuildStatements(t) == <<Create(New(t)), CopyRows(New(t), Old(t)), Drop(Old(t)), RenameTable(New(t), Old(t))>>

OneByOne(statements) == [k \in DOMAIN statements |-> <<statements[k]>>]

\* 008, 016 and 025: what an earlier attempt left of the copy goes first.
Rebuild(t) == [outside |-> TRUE, commits |-> OneByOne(<<DropIfExists(New(t))>> \o RebuildStatements(t))]

\* 009: tables of its own after the rebuild.
RebuildAndCreate(t, u) == [Rebuild(t) EXCEPT !.commits = @ \o OneByOne(<<Create(Old(u))>>)]

\* 023 and 024: a transaction within the script.
RebuildAtOnce(t) == [outside |-> TRUE, commits |-> <<RebuildStatements(t)>>]

\* The others.
InTransaction(statements) == [outside |-> FALSE, commits |-> OneByOne(statements)]

\* Faulty: the version is set before the script is run.
CommitsVersionFirst(script) ==
  IF script.outside THEN <<<<SetVersion>>>> \o script.commits ELSE <<FlattenSeq(script.commits) \o <<SetVersion>>>>

\* What a start commits for a script.
Commits(script) ==
  IF script.outside THEN script.commits \o <<<<SetVersion>>>> ELSE <<FlattenSeq(script.commits) \o <<SetVersion>>>>

Has(ts, name) == name \in DOMAIN ts

Allowed(ts, s) ==
  CASE s.does = "create" -> ~Has(ts, s.name)
    [] s.does = "copy" -> Has(ts, s.name) /\ Has(ts, s.from) /\ ts[s.name] \cap ts[s.from] = {}
    [] s.does = "drop" -> Has(ts, s.name)
    [] s.does = "rename" -> Has(ts, s.from) /\ ~Has(ts, s.name)
    [] OTHER -> TRUE

Without(ts, name) == [t \in DOMAIN ts \ {name} |-> ts[t]]

With(ts, name, rows) == [t \in DOMAIN ts \cup {name} |-> IF t = name THEN rows ELSE ts[t]]

Applied(ts, s) ==
  CASE s.does \in {"drop if exists", "drop"} -> Without(ts, s.name)
    [] s.does = "create" -> With(ts, s.name, {})
    [] s.does = "copy" -> With(ts, s.name, ts[s.name] \cup ts[s.from])
    [] s.does = "rename" -> With(Without(ts, s.from), s.name, ts[s.from])
    [] OTHER -> ts

\* The tables after the first k statements of a commit.
After(ts, statements, k) == FoldLeft(Applied, ts, SubSeq(statements, 1, k))

Succeeds(statements) ==
  \A k \in DOMAIN statements : Allowed(After(tables, statements, k - 1), statements[k])

----------------------------------------------------------------------------------

NotRunning == [read |-> -1, script |-> 0, commit |-> 0]

MigrationInit ==
  /\ tables = [name \in {Old(t) : t \in Tables} |-> {}]
  /\ version = 0
  /\ starter = [p \in Starters |-> NotRunning]
  /\ written = [t \in Tables |-> {}]
  /\ trouble = [overlap |-> FALSE, gone |-> FALSE, half |-> FALSE, failed |-> FALSE]

Starting(p) == starter[p].read # -1

\* Two starts that both have something to do.
Crowded(p) == version < Len(Scripts) /\ \E q \in Starters \ {p} : Starting(q)

OpenDb(p) ==
  /\ ~Starting(p)
  /\ starter' = [starter EXCEPT ![p] = [read |-> version, script |-> version + 1, commit |-> 1]]
  /\ trouble' = [trouble EXCEPT !.overlap = @ \/ Crowded(p)]
  /\ UNCHANGED <<tables, version, written>>

ScriptOf(p) == Scripts[starter[p].script]

NextCommit(p) == Commits(ScriptOf(p))[starter[p].commit]

Migrating(p) == Starting(p) /\ starter[p].script <= Len(Scripts)

\* A commit of the script at hand, and on to the next commit or script.  The
\* version read at the start decides, not what another start did since.
Commit(p) ==
  /\ Migrating(p) /\ Succeeds(NextCommit(p))
  /\ tables' = After(tables, NextCommit(p), Len(NextCommit(p)))
  /\ version' = IF SetVersion \in ToSet(NextCommit(p)) THEN starter[p].script ELSE version
  /\ starter' = [starter EXCEPT ![p] =
       IF @.commit < Len(Commits(ScriptOf(p))) THEN [@ EXCEPT !.commit = @ + 1]
       ELSE [@ EXCEPT !.script = @ + 1, !.commit = 1]]
  /\ UNCHANGED <<written, trouble>>

Opened(p) ==
  /\ Starting(p) /\ ~Migrating(p)
  /\ starter' = [starter EXCEPT ![p] = NotRunning]
  /\ UNCHANGED <<tables, version, written, trouble>>

Gone == \E t \in Tables : ~Has(tables, Old(t))

\* Past the rebuild, in a script that does more.
Halfway(p) ==
  /\ Migrating(p) /\ ScriptOf(p).outside
  /\ \E k \in 1..starter[p].commit - 1 : \E s \in ToSet(Commits(ScriptOf(p))[k]) :
       s.does = "create" /\ s.name[1] = "old"

Stops(p, failed) ==
  /\ starter' = [starter EXCEPT ![p] = NotRunning]
  /\ trouble' = [trouble EXCEPT !.gone = @ \/ Gone, !.half = @ \/ Halfway(p), !.failed = @ \/ failed]
  /\ UNCHANGED <<tables, version, written>>

\* A statement fails: the command reports it and ends.
FailToOpen(p) == Migrating(p) /\ ~Succeeds(NextCommit(p)) /\ Stops(p, TRUE)

DieStarting(p) == p \in Fragile /\ Migrating(p) /\ Stops(p, FALSE)

\* A program that is open already writes a row.
WriteRow(t, row) ==
  /\ Has(tables, Old(t)) /\ row \notin written[t]
  /\ (\E p \in Starters : Migrating(p)) => Writes
  /\ tables' = [tables EXCEPT ![Old(t)] = @ \cup {row}]
  /\ written' = [written EXCEPT ![t] = @ \cup {row}]
  /\ trouble' = [trouble EXCEPT !.overlap = @ \/ \E p \in Starters : Migrating(p)]
  /\ UNCHANGED <<version, starter>>

StartStep(p) == OpenDb(p) \/ Commit(p) \/ Opened(p) \/ FailToOpen(p) \/ DieStarting(p)

MigrationNext ==
  \/ \E p \in Starters : StartStep(p)
  \/ \E t \in Tables, row \in Rows : WriteRow(t, row)

MigrationSpec == MigrationInit /\ [][MigrationNext]_migrationVars

----------------------------------------------------------------------------------
(* Properties. *)

\* What the scripts lead to when nothing comes between.
Intended ==
  LET All == FlattenSeq([k \in DOMAIN Scripts |-> FlattenSeq(Commits(Scripts[k]))])
      empty == [name \in {Old(t) : t \in Tables} |-> {}]
  IN  DOMAIN After(empty, All, Len(All))

Migrated == version = Len(Scripts) /\ \A p \in Starters : ~Migrating(p)

(***************************************************************************)
(* However often a start dies and the next one repeats the script, the     *)
(* database at the last version has the tables the scripts intend and all  *)
(* rows, and no start fails.  Not if it died between dropping a table and  *)
(* renaming its copy (or past the rebuild of 009), or if another start or  *)
(* writer came between: the rebuilds hold no lock.                         *)
(***************************************************************************)
MigratedWhole ==
  ~trouble.overlap /\ ~trouble.gone /\ ~trouble.half =>
    /\ ~trouble.failed
    /\ Migrated => DOMAIN tables = Intended /\ \A t \in Tables : tables[Old(t)] = written[t]

(***************************************************************************)
(* A crash in the middle of a rebuild rolls back atomically                *)
(* (025_invoice_language_full_localization.sql:16-18): whatever a start    *)
(* that dies leaves behind, no row is lost.                                *)
(***************************************************************************)
RebuildIsAtomic ==
  ~trouble.overlap => \A t \in Tables :
    written[t] \subseteq UNION {tables[name] : name \in DOMAIN tables \cap {Old(t), New(t)}}

==================================================================================
