# Formal verification of bukio-cli

TLA+ specifications of bukio-cli, the TLC configurations that model-check them on
small instances, and TLAPS proofs of what matters most for every value of the
constants. bukio is a bookkeeping program: one SQLite file holds a company's
books, and command-line runs, MCP servers and a remote server's child processes
all open it, possibly at the same time.

Run `tlc -config MCLedger.cfg MCLedger` (and likewise the other configurations)
to check, `tlapm LedgerProofs.tla` to prove. "README:n" below is a line of the
repository's own README, other files are named with their lines.

Contents: 1 the system, 2 the plan, 3 what is modelled and checked, 4 where the
code and its documentation part, 5 what is proved, 6 what is not modelled.

## 1. The system

### How processes share the books

Every command is a process of its own (`src/bin/bukio.rs`); the MCP server
(`src/mcp.rs`) is a long-lived one and the remote server (`src/server.rs`) has a
thread per connection that starts a command-line child. They share

- the SQLite database, opened by `open_db` in WAL mode with a busy timeout of
  5 s (`src/db.rs`);
- a few files: the nonce store (locked), the enrol tokens (not locked), key and
  session files, backups, file-mode attachments.

Outside a transaction each statement commits alone. `unchecked_transaction()` is
BEGIN DEFERRED: the first read fixes a snapshot, and the first write of a
transaction whose snapshot is no longer the last commit fails with
SQLITE_BUSY_SNAPSHOT. Only the posting engine, the bank import and links, the
payment of an invoice, depreciation runs and disposals and the switching on of
VAT use a transaction. Everything else is a sequence of reads and autocommitted
writes, so its hard behaviour is the interleaving with other processes and a
death between two statements.

### Inventory

| Component | State | Operations | What is hard | What makes it correct |
|---|---|---|---|---|
| Posting engine (`entries.rs`, triggers of migrations 001, 016) | `journal_entries`, `postings` | create, post, reverse | checks before the transaction, stale snapshots, SQL edits of drafts, sums that wrap | posted entries balance and never change (but for one UPDATE the triggers let pass); one exact reversal per entry; the audit log tells the same story |
| Accounts, cost centers (`accounts.rs`) | `accounts`, `cost_centers` | create, deactivate, reactivate, rename, roles, chart import | an account switched off while an entry is posted; roles inferred from names that change | no posting to an inactive account; a default account of the right kind |
| Year-end (`year_end.rs`) | entries with source `closing` | `year_end_close`, status | five reads and four transactions; cut off halves; the documented undo | a year is closed once; its result is what was earned |
| Recurring (`recurring.rs`) | `recurring_templates` | add, depreciation add, pause, resume, run, preview | no transaction around a period; the row is read, used and written back | no period skipped or booked twice; a preview tells the run; others run when one fails |
| Payments (`payments.rs`) | `payables`, `payment_batches`, lines, `mandates` | add, pay, create batch, export, delete batch | four tables written without a transaction | a payable is handed out once; a batch is whole or gone |
| Invoices (`invoice.rs`) | `invoices`, lines, payments | create, finalize, credit, mark paid, pay from bank; totals and VAT | number allocation, entry posted before the invoice knows it; rounding | gap-free unique numbers; revenue booked; never overpaid; cents add up |
| Bank (`bank.rs`) | `bank_transactions`, `reconciliations` | import, link, ignore, post from, auto-match | three commits for one booking | a bank line is booked once; an invoice is settled by one line |
| Assets (`assets.rs`) | `assets`, `asset_depreciation_runs` | add, run due, dispose, pause, resume, register | disposal between runs; rounding | runs follow the schedule; the register is the ledger's |
| Actors, signing, roles (`actor.rs`, `actor_cli.rs`, `sign_gate.rs`, `authz.rs`) | `actor_keys`, `actor_roles`, enforce and authz flags, nonce file, sessions | keygen, register, revoke, grant, enforce, the gate of every command | order of the checks; nonce check and memory are two locked sections | no replay; an owner remains; the trail stays provable |
| Remote server (`server.rs`) | enrol tokens | mint, register, rpc | a thread per connection; envelopes late or twice | a token enrols once |
| Audit (`audit.rs`) | `audit_log` | record, verify | recorded inside or outside the transaction; keys rotated since | one row per effect; classification agrees with the registry |
| VAT (`vat.rs`) | VAT codes, `vat_returns`, settlement entries | enable, book, return, file, settle | filing and settling as separate commits; rounding | the return is what the accounts say; filing empties them; a line pays once |
| Migrations (`db.rs`) | `user_version`, schema | migrate | four scripts outside a transaction | a migration is applied once and loses nothing, whatever died |
| Backup (`backup.rs`) | backup files | backup, rotate, restore | a WAL left behind | a restore is the books as backed up |
| Attachments (`attachments.rs`) | rows, copies on disk | add, remove, show | a copy shared by rows with one digest | a row's bytes exist |
| Imports (`import_mod.rs`) | none of its own | opening balances, journal, XAF, chart, contacts, e-invoices | entry after entry in transactions of their own | nothing booked twice; what is done is complete |
| Reports (`reports.rs`, `month_end.rs`, `compliance.rs`, `export.rs`) | filing marks | read-only | reversals, closes, rounding, dates; two statements without a snapshot | every report agrees with the journal and with the others |
| Currency (`fx.rs`) | `fx_rates` | set, fetch, book in a currency | a rate found depends on what was stored before | a day has one rate |
| Master data (`company.rs`, `contacts.rs`, `items.rs`) | single rows | upserts | none | as importers and compliance checks read them |
| MCP, command line (`mcp.rs`, `bin/bukio.rs`) | none | dispatch | order of the gates | as signing |
| Documents (`ubl.rs`, `pdf.rs`, `peppol.rs`, `smtp.rs`) | none | format, send | none | not modelled |

Calls between components: year-end, recurring, invoices, bank, assets, VAT and
the imports all book through `create_entry`, `post_entry` and `reverse_entry`.
A reversal calls back: it voids the invoice whose `entry_id` it undoes. Recurring
calls `create_invoice`. Auto-match and payments of invoices tie bank and invoices.
Every command passes the gate first and the migrations before that.

The hazards, each at its line with the properties that cover it, are listed in
PROJECT.json under `hazards`. Where the property of a hazard excepts just the case that
goes wrong, because the code has no guard against it, the hazard's note says so.

## 2. Plan

Done, in the order of what the program is trusted for: Ledger (with Books),
YearEnd, Recurring, Payments, Invoices, Bank; then Assets, Gate,
Vat; the reports and amounts (Totals, Calendar, Compliance, Rates, Trade,
Statements); and what comes in and out of the data directory (Chart, Imports,
Store, Migrations). The proofs follow the same order of importance: Ledger (and
Store and Gate in one module), Invoices, Bank, Recurring, Statements (with YearEnd, and
Payments in one module), Assets (with the amounts of Trade, and Imports, in one module), Vat;
`SumTheorems` serves the last four.

How the modules build on one another:

    Books <== Ledger          implements (INSTANCE, proved and checked)
    Entries                   instantiated by Ledger, YearEnd, Recurring, Invoices,
                              Bank, Vat, Imports: the statements on the journal
    YearEnd, Calendar         -> Statements
    Totals, Compliance, Rates -> Trade      (Compliance and Rates extend Calendar)
    Calendar                  -> Recurring, Compliance, Rates
    Recurring                 -> Overlap    (a second runner, by INSTANCE)
    Sums                      -> YearEnd, Assets, Vat, Totals
    Chart                     -> Imports
    Bank, Imports             -> MCIntake    (one run, one of the two moves)
    Gate, Store, Migrations   -> MCDatabase  (one run, one of the three moves)

`Entries` holds the statements on the journal, each with the triggers that may
refuse it; the components that book take them from there, so what the engine
refuses in one model it refuses in all. Components are composed where they share
a table; the engine's own interleavings are checked once, in Ledger, and the
others use its transactions as single steps, which ImplementsBooks and the proofs
justify. Assets has its own small journal, since a run's and a disposal's postings
are inside their own transaction (Tx::Ambient).

The theorem to prove next is `ReportsMatchLedger` of Trade; it needs the journal tied to
the rows of the invoices, entries reversed in any order included.

Checks stay small on purpose: one passing run per component, or per family of
components that share an instance, and one run for the disagreement with a comment that
is worth a counterexample of its own, the migration that dies halfway.

## 3. What is modelled and checked

General conventions. A process is a record (`work[w]`, `pc[p]`, `command[p]`) that
says at which statement it is and what it has read. A refusal changes nothing and
is an action that is not enabled, or ends the command. Amounts are integers of
cents. History variables, which no step reads, say which excuses apply: `clean`,
`overlapped`, `troubled`, `stale`, `crossed`, `stripped`, `shared`, `revived`. Operators whose comment begins with
"Faulty" are the mistakes the checks are tested against; no specification uses
them. A constant `Scenarios` of several modules is a set of bounds of which a
behaviour picks one: each is an instance of its own, and together they stay small
where one instance with all of them would not. A module's type invariant (`TypeOK`
or `...TypeOK`) is named by no run, as the properties would fail first; section 5
says which are proved.

### Entries and Books

`Entries` models the two journal tables as a sequence of rows (AUTOINCREMENT and
no DELETE: the id is the index) and their statements. A posting list is opaque:
the code tells two lists apart by their sum, their length and their accounts,
which are operators of the list. `MarkPosted` is enabled exactly when
`trg_entries_posted_immutable` and `trg_entries_post_requires_balance` let the
UPDATE pass.

`Books` is the abstract journal of the README's "Entry lifecycle": enter, edit a
draft, post, reverse; and `MoveRows`, the hole the triggers leave in it.

### Ledger (run **ledger**)

| Model | Code |
|---|---|
| `pc[p]`, `arg[p]` | where a process is in create/post/reverse/deactivate/reactivate, and on what |
| `fresh` | processes whose open deferred transaction still reads the last commit |
| `CreateCheck`, `CreateWrite` | `create_entry` before and in its transaction; the sum is taken modulo `Modulus` (i64 wraps in a release build; 8 stands for 2^64 in the check) |
| `PostCheck`, `PostSnapshot`, `PostInactive`, `PostWrite`, `PostRefused` | `post_entry`: state read, accounts read in the transaction, the UPDATE |
| `ReverseCheck`, `ReverseSnapshot`, `ReverseTwice`, `ReverseWrite`, `ReverseRefused` | `reverse_entry` with its second count inside the transaction and the voiding of the invoice |
| `DeactivateCheck` ... `ReactivateWrite` | account deactivate, reactivate |
| `Crash` | the process dies; its transaction rolls back |
| `RawEdit` | a person edits a draft's postings by SQL (INSERT, DELETE, UPDATE), as README:223 allows |
| `MoveRows`, `stripped` | `UPDATE postings SET entry_id = <draft>`: `trg_postings_entry_draft_update` looks at the entry the row goes to only; `stripped` remembers the posted entries that lost a row |
| `LinkInvoice` | the last write of `finalize_invoice`, which asks nothing of the invoice |

Callers that pass their own open transaction (Tx::Ambient) are not modelled here:
the caller's transaction then is the step.

Two processes, one account, three entries; lists that balance, are empty, wrap,
and their negations; processes are symmetric, and so are a list and its negation. No
step asks anything of the invoices, so the states are compared without them.

- `PostedBalanced`, `ReversedOnce`, `AuditTellsJournal`: the promises of the
  README, under any interleaving and crash; entries in `stripped` are excepted from
  the first;
- `PostedIsFinal`, `PostsToActiveAccounts`: no step changes a posted entry, but that
  `MoveRows` may take rows of it, or posts to an inactive account;
- `ImplementsBooks`: the refinement of Books, hole included.

So what README:1026 of the repository says of the postings of a posted entry is not
promised: one UPDATE (`MoveRows`) takes a row from it. SQL on `journal_entries` itself,
which only an UPDATE trigger guards, is not modelled.

Two processes are enough for every race in the code (each is a check and a write
of one process around a write of another); three entries give an original, its
reversal and a competing one. `ReversalNegates` and `SnapshotHolds`, the parts of
the inductive invariant that no run names, are proved.

### YearEnd and Statements (run **statements**)

One entry is a posting list over income and expense accounts, assets, liabilities,
the result account and equity. `year_end_close` is followed statement by statement: `CheckDrafts`,
`CheckOpen`, `ReadNets` (or `GiveUp`), `EnsureResultAccount`, `CreateClosing`,
`PostClosing`, `CreateAppropriation`, `PostAppropriation`; `Stop` is a death or a
failing call. `Book`, `Post` and `Reverse` are other commands, one transaction
each.

`Statements` extends it with dates and cost centers and defines the reports as
functions of the journal: `TrialBalance`, the sections of balance sheet and P&L
(`Sectionize`), the Dutch statutory forms (`ByLines`, `Klein`), the Luxembourg
ones (`ByPrefixes`), `CostCenters`, `MonthClose`, the audit files (`Boekingen`,
`XafFile`, `FaiaAccount`, `FaiaEntries`) and `YearEndStatus`. The balance sheet
is two SELECTs without a transaction, so a reader is a process of its own:
`ReadRows`, `ReadResult`, `EndReport`, with commands in between.

A fiscal year that ends in March; three scenarios: a close cut off anywhere and
undone by halves (five entries: a sale or barter, a complete close, its partial
undo, a second attempt); a balance sheet read while a year is booked, with sales and a
loan, and closed;
every kind of account, in two months and on two cost centers.

- `ClosedOnce`: one closing entry stands, a close and an appropriation that both
  stand are two halves of one result, and no close, whole or half, changes what a
  later one reads;
- `SheetBalances`: the sheet balances in each of its three layouts, unless a
  command moved the books between its two statements;
- `PartsAddUp`: statutory results, months, cost centers and audit files all give
  the P&L's result, stated of the moments nobody closes.

With two closers `ClosedOnce` does not hold: no transaction spans the check and
the writes (`year_end.rs:179`; a hazard with a note, which no run shows). Reduced: an entry has one center.

### Recurring (run **recurring**)

Dates are calendar dates (`Calendar`). `runner` is the process in `run_due`: the
rows it selected, the head being the one it works on, and the statement it is at.
The row is a copy: `Advance` writes its status back, as the UPDATE does. `clerk` is
a second process: `Add`, `AddFinal` (depreciation add writes its remainder in a
second statement), `CheckStatus`/`WriteStatus` (pause, resume). `Switch` turns a
template's accounts off and on, `Crash` kills the runner. `Preview` is the dry run,
taken (in `plan`) at the moment the run begins. Creating and posting an entry are
one transaction each.

A two-month depreciation, an accrual that reverses its previous entry until an
end date, a quarterly subscription invoiced once, a template that would first run
after its end; runs on two days, 2023-12-31 and 2024-02-16; one crash, one
change; at most 2 periods per template and run, for 120.

- `NoPeriodSkipped`: of a template's dates none before `next_run_date` is without
  its posted entry or draft invoice, and nothing is booked off its dates or past
  its end;
- `PreviewTellsRun`: a run books what its preview listed, and all of it unless it
  failed;
- `CatchesUp`: what is due is caught up with, unless paused or its own account is
  off.

More periods than the cap of two make a backlog that needs a second run. The module
has one runner, and what it says of one run holds while no two overlap.
`CatchesUp` assumes weak fairness of the runner (`Run`): whoever schedules
`recurring run` does so while anything is due, and the process is not suspended
forever. The crash is not fair, pausing and switching are not fair. Deadlock is
not checked: past the last day with nothing due the model rests.

**Two runs at once** (`Overlap`, run **overlap**). `run_due` takes
no lock. `Overlap` extends Recurring with a second runner, an instance of the module
over `other` in place of `runner`; the clerk, the books and the crashes are shared.
`shared` collects the templates both runs held at once. Two templates (the depreciation
and the accrual), two days, one crash, five entries.

- `PeriodsSurviveOverlap`: `NoPeriodSkipped` holds with two runners too, although one run
  may set a template back to a period the other has already booked; and a template
  neither run held together with the other is booked beyond its record only by a death
  between posting and advancing (`TwiceOnlyIfShared`). With one runner that is
  `TwiceOnlyByCrash`: the surplus of all templates together is at most the crashes,
  which is proved.

What README:629 and README:1100 of the repository say ("idempotent, one transaction per
template") does not hold of the templates in `shared`: both runs read the row, and both
book it.

Not run with two: the preview and catching up, which are said of one run, and the
switching of accounts and statuses.

Reduced: the choices `--as-of` and `--template` of a run to "all, today"; which
final posting set a preview shows; the amounts of a depreciation are posting
lists.

### Payments (run **payments**)

The four tables are sequences of rows in id order. `work[w]` is what a process is
doing: the statement it is at (`at`), the batch it writes, exports or deletes, the
payments still to be written (`plan`), the row it has just written and the payments
it has read for a file (`pays`).

| Model | Code |
|---|---|
| `AddPayable`, `AddMandate`, `RemoveMandate` | one statement each; a removed mandate leaves NULL in its lines |
| `PayCheck`, `PayWrite` | `mark_payable_paid` |
| `CreateCheck`, `InsertBatch`, `NextLine`, `InsertLine`, `LinkPayable`, `CreateFails` | `create_payment_batch` from payables and rows of `--lines` (payable 0): everything is validated, the mandate (`Collected`) and the sequence types of a direct debit are fixed, then one statement at a time |
| `CreateFromRows` | `create_payment_batch_from_csv`: transfers of rows without a payable, one bad row of which refuses all |
| `ExportCheck`, `ExportWrite` | `export_payment_batch`: the file holds what was read first (`pays`, by line) |
| `DeleteCheck`, `Release`, `DeleteLines`, `DeleteBatch`, `DeleteFails` | `delete_payment_batch` |
| `LineRefs`, `LinkRef`, `NotReferred` | the foreign keys that may refuse a statement |
| `files` | what the bank was handed |
| `clean` | a history variable: no command so far was killed, overlapped another or named a payable twice |

Two symmetric processes, two direct debits of one debtor, two batches, two lines,
two mandates; lists of one payable, and of a row of `--lines` and
a payable; sheets of one payment, and with a row that cannot be read.

- `HandedOnce`: a payable is handed to the bank once;
- `BatchesWhole`: a payable's link leads to a live line that pays it, under every
  interleaving and death (`LinksLead`, thanks to the foreign keys); a file carries
  every payment of its batch, and a batch at rest holds what it was made for;
- `RecurringFollowsFirst`: a recurring collection follows an earlier one under the
  very mandate.

All but `LinksLead` are stated while `clean`: nothing in the code keeps overlapping
commands apart, and the hazards list what then happens. Commands run in sequence,
each reading what the last one left, still make many ways to go wrong: a batch
deleted and made again, a mandate removed and added again, a payable batched, paid
by hand and exported. Two batches are the least for a payable in both, two lines
under two mandates the least for a sequence type that counts the wrong one. A
transfer differs only in having no mandate, as the batches from sheets do. The view of
the run leaves out `files` and `pays` once not clean: no step then decides on them,
and no property reads them.

### Invoices (run **invoices**)

A line is one unit of money, so an invoice's gross amount is the number of its
lines; all invoices are of one year. `work[w]` is the statement a process is at,
the invoice it works on and what it has read: the number to give, the entry it
made, the amounts a payment was checked against.

| Model | Code |
|---|---|
| `Create`, `InsertInvoice`, `InsertLine` | `create_invoice`: everything is validated, then the row and its lines one by one |
| `Credit`, `MakeCredit` | `credit_invoice`: copies the lines by `create_invoice`, then makes the copy a credit note |
| `Finalize`, `TakeNumber`, `CreateEntry`, `PostEntry`, `MarkSent`, `Collide` | `finalize_invoice` and its retry; the entry's two transactions and the UPDATE commit one by one |
| `Pay`, `RecordPayment` | `mark_paid`: checked outside, written in one transaction |
| `Reverse` | `reverse_entry` of another command, which voids the invoice |
| `Crash` | the process dies |
| `overlapped` | a history variable: invoices two commands worked on at the same time |

Two symmetric processes, two invoices of up to two lines, three entries, one retry
for the code's five.

- `NumbersGapFree`: numbers are 1 to n, each given once;
- `SentIsBooked`: a sent or paid invoice has its own posted, unreversed entry, a
  void one never comes back, and a credit note takes back what its invoice booked;
- `PaidIsCovered`: never paid beyond its amount, and `paid` exactly when nothing
  is open.

They are about invoices that no two commands ever worked on at once: no statement
looks at the status again, so two commands on one invoice can do anything, as the
hazards list. What remains is what the UNIQUE number is there for: two commands on
*different* invoices that take the same number, retries, deaths at every statement,
and partial payments, credits and reversals in every order. Two invoices make a
collision; three entries are the two bookings and either the retry or a reversal.
Deadlock is not checked: the run ends when the bounds are used up.

### Bank (run **intake**)

One bank account; all dates lie within the match window, and which of several
entries is the nearest in time, and in which order automatic matching takes its lines
(`queue`), is left open. An entry is what it puts on the bank's
ledger account. The finalized invoices are given with their open amounts; bank and
invoices meet in `payment_from_bank`, whose checks are those of `mark_paid`.

| Model | Code |
|---|---|
| `Import` | `import_transactions`, one transaction; a hash known already, or repeated in the statement, is skipped |
| `SetState` | `bank ignore`, `bank unignore`: any state is overwritten |
| `BookLine`, `CreateEntry`, `PostEntry`, `MarkMatched` | `post_from_transaction`, three commits |
| `Link`, `WriteLink` | `link_transaction`; `PairFails` is UNIQUE of `reconciliations` |
| `AutoMatch`, `MatchLine`, `ApplyMatches`, `AutoEnds` | `auto_match`: the lines are read once, each is matched by reads of its own, all matches are written in one transaction or none |
| `StillPays`, `StillOpen`, `PaymentEntries` | `payment_from_bank` inside that transaction |
| `Book`, `ReverseEntry` | `entry add --post` and `entry reverse` |
| `troubled`, `reopened` | history variables: lines two commands worked on at once or whose booking died; lines set by hand after they were matched |

The transaction of `ApplyMatches` starts with a write, or with reads whose snapshot
must still be the last commit when it writes; so it is one step, and one that fails
is `AutoEnds`, or a death, with nothing written.

Two symmetric processes, two lines of one amount, an invoice of that amount and one
within the tolerance, entries by hand, two entries; statements of one line, and of both
with the first repeated.

- `PaysOnce`: under every interleaving and death an invoice is settled by one line,
  and a line not reopened by hand settles one invoice;
- `MatchedOnce`: a line that is neither troubled nor reopened is reconciled once when
  matched, never before, booked by at most one entry of its own, and automatic
  matching never reconciles two such lines with the same entry (`ClaimedOnce`). The
  entry by which a line paid an invoice is in no reconciliation row and is excepted: a
  line pays an invoice, and the next line of its amount is matched to the entry of that
  payment. The test of `bank.rs`, that of two equal lines and one entry the second stays
  unmatched, is of entries booked by hand.

`ByHand` bounds the lines whose state a person sets to the first of the two: the
other is then the line it competes with. Two lines of one amount are what makes
matching ambiguous; the invoice within the tolerance is the one the second line
falls back on. `MCIntake` composes this with the imports, one of which a behaviour
moves; its view leaves out which command by hand reconciled a
line and whether a reopened line is also troubled: no step and no property tells
them apart. Deadlock is not checked: the run ends when everything is matched.

### Assets (run **assets**)

A month is a number and a date is two a month: the first day, or a later one, which
is all the module asks of a day.

| Model | Code |
|---|---|
| `Residual`, `Depreciable`, `Monthly`, `Remains`, `Schedule` | the schedule, linear and declining, with its rounding and the last month that takes the rest |
| `CreateScheme`, `AddAsset`, `RefuseAsset` | schemes and the register, taken over fully depreciated or in mid-life |
| `PauseAsset`, `ResumeAsset`, `WriteStatus` | the status is read, and written later by an UPDATE that does not look again |
| `DeactivateAccount`, `ReactivateAccount` | one statement each |
| `RunDue`, `BookRuns` | `run_due`: what is due is read first, then all of it is booked in one transaction; `NoneBooked` is UNIQUE (asset, period) |
| `DisposeAsset`, `BookDisposal` | `dispose`, likewise |
| `Abandon` | a rollback, a refused step or a death |
| `Register`, `BookValue`, `Remaining`, `NextRun` | `assets list` and `show` as of a day |

Two processes, a linear asset whose price does not divide evenly, a declining one
taken over in mid-life that depreciates on its own account, one that is refused and
one that arrives fully depreciated; two assets at most, of which one is paused and
resumed, four entries.

- `RunsFollowSchedule`: the runs of an asset are an unbroken beginning of its
  schedule and end exactly at its residual;
- `RegisterMatchesLedger`: as of every month the register shows what the ledger
  holds, and the month it names next is one that a run books;
- `DisposalClears`: a disposal leaves nothing of the asset on the books but the runs
  of its own month and later, and the asset stays disposed, unless another command
  worked on it meanwhile.

What is excepted there happens: a pause or a resumption that read the asset before its
disposal and writes after it sets it back to paused or active (`revived`), and it
depreciates again.

### Gate (run **database**)

| Model | Code |
|---|---|
| `SignCommand`, `SignToolCall`, `RunUnsigned` | `sign_command` on the command line, `sign_tool_call` in the MCP server, and what passes without a key while signing is not enforced |
| `Unseen`, `SignUnchecked` | the arm of `sign_command` without a database, or with one that cannot be opened: the command is signed, counts as verified and no registry is asked |
| `OpenEmpty`, `NoDatabase`, `InitCompany`, `BookEntry` | the database is made by whichever command opens it first, `init` puts the company in it, a booking without one is refused |
| `PostEnvelope`, `Deliver` | the client signs and posts; an envelope may arrive late, twice or never |
| `VerifyBundle`, `RememberNonce` | `verify_signature_bundle`: window, key, nonce; the nonce file is read and written under a lock, but in two sections |
| `AuthzExempt`, `HasTarget`, `Authorise`, `RecordSigned` | `check_authz`, which knows `actor roles grant` as `actor roles` and is told of every envelope that it names no target; and the audit row with its digest |
| `Register`, `Enrol`, `Keygen`, `Unlock`, `Lock` | keys, their history and sessions |
| `RevokeKey`, `GrantRole`, `RevokeRole`, `DeleteRole`, `SetEnforce`, `AuthzOn`, `ImplyEnforce`, `OwnFlipper`, `AuthzOff` | the registry's commands, `authz on` in its three commits |
| `MintToken`, `WriteMinted`, `RedeemToken`, `SpendToken` | the token file, read and written back without a lock |
| `Tick`, `Die` | time in halves of the window; a death |
| `Classify`, `Trail` | `audit verify` |

Cryptography is perfect: a signature is the key, a digest what it covers. Two
processes, six scenarios: owners granted and revoked with `authz` on and off;
envelopes delayed and repeated; a human's key rotated under an unlocked session; a
key enrolled by token; roles changed by envelope; a database that is yet to be made
and one that may be locked.

- `OwnerRemains`: while roles decide, someone can turn them off again, also where
  roles are changed by envelope, which nobody checks;
- `RunsOnce`: a signature runs one command;
- `TrailVerifies`: what the gate asked the registry about stays provable, however keys
  were rotated; a command that was signed with nobody to ask may be of a key nobody
  enrolled;
- `EnrolledOnce`: an actor has one active key and a token enrols one.

Each but `TrailVerifies` excepts what two processes worked on at once (`troubled`): the
checks and the writes share no transaction and no lock. Two statements of the
repository's README are not promised, because the model refutes them: that only owners
change roles (README:314), by an actor who owns nothing and posts `actor roles grant`,
and that every verified row is proved again by the registry (README:254-256), by the row
that `init` writes. The instance remembers a
nonce for the length of the window, from its earliest to its latest moment, which is
the least that is safe (`Retention >= 2 * Window`); the code remembers it for 24 hours,
far longer than its window of five minutes either way.

### Vat (run **vat**)

| Model | Code |
|---|---|
| `EnableVatModule` | one transaction |
| `Expand`, `VatOf`, `Absorber` | a list with VAT codes becomes legs with the VAT beside them, and the user's other leg takes up the rounding |
| `BookVatEntry`, `TagPosting`, `EndTagging`, `PostBooked` | the entry is created, its legs found again and tagged one by one, then posted |
| `ReadReturn`, `StoreReturn`, `Readout` | `vat_readout`, `vat_file`'s stored fields |
| `ReadInput`, `ReadOutput`, `EnsureAccount`, `CreateFiling`, `PostFiling` | moving the position to the settlement account, which is found or created |
| `CheckLine`, `ReadBalance`, `CreateSettlement`, `PostSettlement`, `MarkLine`, `MarkNothing` | `cmd_vat_settle` |
| `Post`, `Reverse`, `TakeCode`, `MatchLine`, `Stop` | other commands, and a death |

Two processes, the NL codes, three scenarios: booking in two periods while returns
are filed; two filings while somebody takes the settlement account's code; one
filing and two settlements.

- `ReadoutMatchesBooks`: what a return says is owed is what the period's bookings
  put on the clearing accounts, unless an entry was posted before its codes were set;
- `PositionCleared`: a filing no command overtook empties the clearing accounts on an
  account of VAT's own, and a settlement empties the account it settles;
- `LineSettledOnce`: a bank line pays VAT once, and is marked, unless its settlement
  was left half-way or another command worked on it.

### Totals, Calendar, Compliance, Rates and Trade (run **trade**)

`Totals` is `compute_invoice_totals` and `build_invoice_postings` as functions: line
discounts, a discount on the whole, `allocate_largest_remainder`, VAT per group and
per line, the posting list. `Calendar` is the date arithmetic: fiscal years, month
ends, the day count. `Compliance` is the table of filing types of 31 jurisdictions
with their deadline rules, the marks and what `compliance status --year` shows.
`Rates` is the table of exchange rates, the European Central Bank's observations
(`Published`, external) and entries booked in a currency. `Trade` puts them on one
day: invoices with lines, discounts and dates, here one step per command, beside
the legs their entries put in the journal (each with its `kind`, and `turn`, the entry
it undoes); `ReverseEntry`, of any entry, which voids an invoice only if it was the
invoice's own; payables; and the reports (`Items`,
`BucketAmounts`, `StatementRows`, `SalesByContact`, `SalesByItem`, `Icp`).

Seven scenarios: one invoice of every shape; two invoices and a credit note over
the end of a quarter and of a fiscal year; two contacts; filings while the days go
by; payables; entries in dollars; a supplier whose data are incomplete.

- `TotalsAddUp`: an invoice's postings sum to nothing, its VAT per rate, per line and
  in total agree, discounts that are discounts keep every group between nothing and
  its net; and a day has one exchange rate, in whatever order days were asked for,
  which a dry run tells too (`OneRateADay`). It is promised of lines whose groups are
  not below nothing (`NoGroupBelowZero`, of which the run's own scenarios are an
  instance): a group below nothing has VAT, and no positive line to give it to;
- `ReportsMatchLedger`: the debtors list and the statement of a contact are the
  debtors account less what was marked paid by hand, the ICP listing is field 2a of
  the VAT return, the sales report is the year's revenue and VAT. The reports do not
  hear of the reversal of a payment's entry, after which the invoice stays paid and the
  account has it open, of the reversal of a reversal, of an invoice reversed after it
  was paid, or of entries by hand on these accounts (which are left out of the model):
  these are excepted, and so are invoices of less than nothing and those with two groups
  of reverse-charge lines;
- `OverdueIsShown`: a filing that is overdue and not filed is shown as overdue in the
  view of its year or of the next, and deadlines lie after their period and in order.

Reduced: quotients are exact where the code uses floating point; one part-payment
by hand per invoice; a contact's details are constants; invoices are not dated
after today; one currency; the order of a statement's rows.

### Chart and Imports (run **intake**), Store and Migrations (run **database**)

`Chart` is the chart of accounts as a function from codes to accounts, with the
roles and taxonomy codes inferred from a name's keywords (`InferRole`, `InferRgs`,
`ResolveSpecial`, `AssignFreeRole`).

`Imports`: a file is what the parsers make of it.

| Model | Code |
|---|---|
| `Accepts` and its parts, `Fresh`, `ToCreate`, `StartImport` | each importer's checks of the whole file and its reads of what is there |
| `SyncAccount`, `AddRow` | the chart of an XAF file, `account import` |
| `BeginRename`, `RenameAccount`, `ClearRole`, `AssignRole` | what `sync_account_from_file` does to an account with another name, statement after statement: the name and type, the role it was read with (`held`) if it no longer fits, and every role given out again (`turn`) |
| `SkipDoc`, `CreateMissing`, `CreateDoc`, `PostDoc` | entry after entry, two transactions each |
| `RegisterInvoice`, `NextParty` | contacts, and an e-invoice's payable |
| `Fail`, `Die`, `EndImport` | an error midway, a death, the end |
| `Toggle`, `SetRole`, `PostByHand`, `ReverseByHand` | other commands |

`Store`: the database is a main file and a WAL; a commit appends pages, the last
connection to close writes them back. `Add`, `Copy`, `Insert`, `Detach`, `Delete`,
`Unlink` are attachments; `Backup`, `Prune`, `Restore`, `Truncate`, `Overwrite` and
`RecordBackup` backups. `Kill` leaves the WAL behind, and a main file that opens no more
if it strikes between `Truncate` and `Overwrite`, the two ends of `fs::copy`: until a
further restore nothing else can be done (`Readable`). A process that has the books open
at that time goes on in the model, where SQLite may also fail it; that the pages of two
restores at once may mix is left out, and `RestoredAsTaken` promises nothing of them.

`Migrations`: a script is a list of commits, one when it runs in a transaction, a
commit per statement when it switches foreign keys off (008, 009, 016, 025).
`OpenDb`, `Commit`, `Opened`, `FailToOpen`, `DieStarting`, `WriteRow`.

`MCIntake` composes Bank and Imports, `MCDatabase` composes Gate, Store and Migrations:
a behaviour moves one component and leaves the others as they began. They share no
table, so nothing is lost by that, and each keeps the bounds given with it.

- `ImportedOnce`: importing a file again, after it was broken off, or another with
  the same content, books nothing twice;
- `FilesBooked`: a file whose import was finished is in the books with its amounts;
- `RolesRight`: wherever the chart has an account of a kind, the engine's default is
  an account of that kind. Excepted are roles set by hand, the moment between an
  account's new name and the clearing of its role (`Loose`), and the roles left there
  by an import that died in it or that read the account before it got the role
  (`history.left`). Looking for an account to take a role and the UPDATE that gives it
  are one step;
- `CopiesKept`: a document stored as a file has a copy exactly as long as some row
  points to it;
- `RestoredAsTaken`: a restore no other process is open for, after no death that left a
  WAL, brings the books back as they were at the backup, also over a file that a killed
  restore left half copied;
- `MigratedWhole`: a database at its last version has the tables the scripts intend
  and all its rows, unless a start died inside a rebuild or another overlapped it.

Four scenarios of files (XAF of both layouts with colliding numbers; opening
balances and a journal that are reversed; contacts and invoices whose supplier is
written in different ways; roles while accounts are renamed), three of files beside
the books, two starts of which one may die. Two processes, one of them mortal: a
second death adds nothing that a repetition of the first does not.

One run beside them expects a violation. `RebuildIsAtomic` (run **migration_crash**)
states the comment of migration 025 (lines 16-18), and a start that dies between DROP
TABLE and RENAME loses every row of the table at the next start.

## 4. Where the code and its documentation part

Found while modelling. The last is shown by a run that expects a violation, and listed
in PROJECT.json under `findings`; the others are described with the steps that lead
there. The models follow the code. Where it parts from the documentation in a way
that touches a property, the property is stated with the exception, in its comment or in
the one its group begins with. None of them is fixed by the models.

Journal and year-end

- An UPDATE that gives a posted entry's row to a draft passes the trigger, which looks at
  the entry the row goes to (016_journal_entries_state.sql:59-64; README:224, 1026).
- A reversal books on a deactivated account (`entries.rs:566`), although README:560
  says deactivating blocks new postings; `PostsToActiveAccounts` is about
  `post_entry`.
- After the documented undo of a close (README:703) the reversals, whose source is
  `reversal`, are counted although the entries they undo are not, so a second close
  books the result twice (`year_end.rs:57`). `year_end_status` says closed even then.

Recurring and payments

- Two runs of `recurring run` at once book a period twice (`recurring.rs:821`; README:629,
  1100).
- The first period a run books never takes the final posting set: the SELECT of
  `run_due` drops that column, and a depreciation run month by month books its last
  month at the normal amount (`recurring.rs:829`, README:630).
- Pausing or resuming while a run completes a template revives it, and it books past
  its end (`recurring.rs:600`).
- A payable that is batched, paid by hand, and whose batch is deleted is unpaid again
  (`payments.rs:1181`).
- The pain.008 file carries no FRST or RCUR, though `mandate_seq` is stored
  (README:33, 828).

Invoices and bank

- Without any death, the process that meets a taken number leaves the entry of its
  first attempt posted and books a second (`invoice.rs:1440`, CHANGELOG:643-645).
- A discount on the whole is not validated (`bukio.rs:2652-2670`, `mcp.rs:919`;
  README:669): a negative or too large one loses cents in the division, though the
  entry still balances. Line and item texts that do not parse are dropped silently.
- `payment_from_bank`'s entry is not in `reconciliations`, so a second line of the
  same amount is matched to it: every line is matched and the ledger holds one of the
  two amounts (`bank.rs:715`, README:590-592). `unignore` also reopens matched lines.

Assets

- A pause or resumption that read the asset before it was disposed of writes its status
  over the disposal's, and the asset depreciates again (`assets.rs:997`; README:1216).

VAT, reports, currency

- `vat settle` is four commits (`bukio.rs:2155`; README:601, "commit atomically"); an
  error of its last UPDATE is ignored; its default account is not looked up again. The
  dry run of `vat book` asks the user's legs to sum to zero, the command takes up the
  difference. `vat book --currency` (README:728) is never read.
- `entry reverse` of a payment's entry leaves the invoice paid, so the debtors list misses
  what the account has open again (`entries.rs:595`).
- ICP takes only the first reverse-charge group of an invoice (`reports.rs:1958-1962`;
  README:705).
- The compliance view of a year leaves out a filing that is due in it but belongs to
  the year before, for some fiscal years (`compliance.rs:504-506`); marking a filing
  does not validate its period.
- An income account without a known taxonomy code counts as a cost in the Dutch
  statutory result. FAIA exports the calendar year, XAF the fiscal year.
- `fx fetch` does not store the rate (`bukio.rs:2844-2848`; README:726). Each amount is
  converted by itself, so a balanced list in a currency may be refused as unbalanced
  after its fetched rate was stored. Once any rate is stored, later days never fetch.

Signing

- Under authorisation an actor who is no owner changes roles by posting the command as an
  envelope: the server tells the check that it names no target, and without one `actor
  roles` is exempt (`authz.rs:360`, `server.rs:238`; README:314).
- A command signed with no database to ask counts as verified, so the row `init` writes is
  stamped with a key nobody enrolled (`sign_gate.rs:563`, `bukio.rs:682`; README:254-256).
- Two overlapping revocations take the last two owners away (README:328-329), two
  connections redeem one token, two copies of an envelope under verification both run.
- Rows of an envelope that is tolerated while signing is not enforced are stamped
  verified although the gate answered unsigned (`sign_gate.rs:441-443`); a stale one is
  tolerated before its nonce is looked at. A session keeps the old key after
  `keygen --force`. A client cannot use an encrypted key file, and posts once.

Imports, files, migrations

- An XAF import commits an account's new name before it takes its role away; dying in
  between it leaves the role, and the next import returns early since the name is right
  (`import_mod.rs:1670`, 1692, 1704, against its comment at 1700-1701).
- The validation of an XAF file looks neither at inactive accounts nor at an empty
  TegenrekeningCode, so the import fails midway with its earlier entries committed
  (README:805-806). A boekstuknummer that occurs twice in a file, or in another year's
  file, is skipped silently; a taxonomy code is filled in on accounts with postings
  (README:815). A death between creating and posting an entry leaves a draft every
  further import skips. `account import --dry-run` reads an empty database.
- A supplier is matched by name even when the VAT ids differ; a name without ASCII
  letters is an empty key; the contact of a duplicate invoice is created all the same;
  another company's file only warns, and only an eight-digit CompanyID is compared.
- MCP's `import_file` and `import_contacts` execute when no mode is given (README:724).
- `backup --keep N` with fewer than N backups panics after the backup is written
  (`backup.rs:217`; README:882). An encrypted backup leaves its plain temporary file
  behind on an error. A restore leaves a WAL whose pages show through
  (`backup.rs:406`), and one that dies in the copy leaves a file that opens no more. Backups hold no copies of attachments, and two in one second share
  a name. Removing one of two rows that share a copy deletes the copy of both.
- A start that dies between DROP TABLE and RENAME of migration 008, 009, 016 or 025
  loses the table at the next start; after CREATE TABLE depreciation_schemes of 009
  every later start fails; two starts, or a start and a writer, can lose rows
  (`db.rs:35`; 025_invoice_language_full_localization.sql:16-18; run **migration_crash**).

Two overlapping commands on one payable, batch, invoice, template, asset or year have no
transaction between them; each has a hazard of its own, whose note says what the
properties leave uncaught.

## 5. What is proved

`LedgerProofs` proves, for any number of processes, accounts, posting lists,
invoices and entries, under the named assumptions of `Entries` and `Ledger`
(negating a list negates its sum and keeps its length and accounts; "manual" and
"reversal" are sources):

| Theorem | States |
|---|---|
| `TypeCorrect` | `[]TypeOK` |
| `InductiveInvariant` | `[]IInv` |
| `BooksBalance` | `[]PostedBalanced` |
| `ReversalsAreSafe` | `[](ReversedOnce /\ ReversalNegates)` |
| `AuditIsComplete` | `[]AuditTellsJournal` |
| `PostedRowsAreFinal` | `PostedIsFinal` |
| `PostingsHitActiveAccounts` | `PostsToActiveAccounts` |
| `Refinement` | `ImplementsBooks` |

`ReversedOnce` is not inductive by itself: a process about to write its
reversal must be known to have counted none. The count is true only while nobody
has committed, so the strengthening is `SnapshotHolds`: what a process in `fresh`
read still holds. Every commit empties `fresh`, every write of a transaction
requires membership, so the conjunct is preserved: `SnapshotStep`. `IInv` is the
conjunction of TypeOK, SnapshotHolds and the four invariants. A step changes the
journal in one of five ways (`JournalSteps`: append a draft, post, append a reversal,
edit a draft, move rows of a posted entry to a draft) and the invariants about rows are
proved from these; the refinement maps the same five to the actions of Books. That a
posted entry balances, that its reversal negates it and that it never changes is proved
of every entry no row was moved out of (`stripped`), which only SQL by hand does.

`LedgerProofs` also has the proofs about Store, the files beside the books: for any processes, documents, rows, backups and passphrases, under
`StoreAssumption` (which names the bounds' ranges):

| Theorem | States |
|---|---|
| `StoreTypeCorrect` | `[]StoreTypeOK` |
| `CopiesStayWithRows` | `[]CopiesKept` |
| `RestoresBringBack` | `RestoredAsTaken` |

`StoreIInv` is `Types`, under which row ids are unique in whatever is seen through the WAL
and in every backup, a backup holds what was taken, and a WAL remains only while
somebody has the database open or after one died who had; and `CopiesOK`: a document that is
not excused is as it should be or one process has it half done, two processes have
only torn documents in hand, a row about to be inserted has its copy, and a row about
to be deleted is stored in the way its process read. Unique ids matter to a removal,
which deletes by id: after a restore the id may belong to another document, and that
one is excused. `RestoresBringBack` is the WAL clause put to use.

And it has those about Gate, the signing of every command, for any processes, actors,
roles, commands, scenarios and bounds, under `GateAssumption` (a nonce is remembered for at least two windows; 24 hours and
five minutes in the code):

| Theorem | States |
|---|---|
| `GateTypeCorrect` | `[]GateTypeOK` |
| `OwnerAlwaysRemains` | `[]OwnerRemains` |
| `TrailAlwaysVerifies` | `[]TrailVerifies` |
| `EverySignatureRunsOnce` | `[]RunsOnce` |
| `EverybodyEnrolledOnce` | `[]EnrolledOnce` |

Each property has its own strengthening over one invariant of types, which also says
that a process holds an envelope that was signed for its very actor and command.
`OwnersStay`: a process that dismisses an owner knows of another, and no second one
does; who may give the command plays no part, so it holds although changes of roles by
envelope are not checked. `Provable`: a verified job's key has a row in the registry, or
its signature was made with nobody to ask (`"unchecked"` in `troubled`), and rows are
revoked but never go. `BundlesOnce`: an envelope that is verified at all is under
verification once, and after that it is remembered or too old for the window, and either
it ran or one process has it.
`ActorsOnce` and `TokensOnce`: who enrols found no active key; a token read from the
file is as the file has it, and one in hand is marked spent.

`SumTheorems` has the laws of sums the proofs share. A sum is a fold over a set, of
which the library gives one step: that the terms may be taken in any order is proved
from a least set for which they may not, and from it the rest: sums of sums and of
concatenated lists, that rows add up as columns do (`SumSwap`), that a sum sorted into
disjoint groups is the same sum (`SumSorted`) and so is one over renamed terms
(`SumRenamed`).

`InvoicesProofs`, for any processes, invoices, lines, entries and attempts:

| Theorem | States |
|---|---|
| `TypeCorrect` | `[]TypeOK` |
| `NeverOverpaid` | `[]PaidIsCovered` |
| `ReceivableIsBooked` | `[]SentIsBooked` |
| `NumbersHaveNoGap` | `[]NumbersGapFree` |

`IInv` is types, `Linked` (an entry is made for one invoice and only a posted one is
reversed, whoever works on what) and `AloneOK`: of an invoice no two commands worked
on at once, the row agrees with its entry and payments, at most one process works on
it, and what that process read still holds. The numbers need more (`NumbersOK`):
while nothing overlapped, the numbers given are 1 to some n, each once, and the one a
process is about to write is at most the next, so it extends them or is taken already,
and then UNIQUE refuses it. `NextNumber` is a maximum, which exists because the numbers
are bounded (`NumbersBounded`, by the least id at which they would not be: the one place
where well-founded induction is cited).

`BankProofs`, for any processes, statements, bank lines, invoices and amounts:

| Theorem | States |
|---|---|
| `TypeCorrect` | `[]TypeOK` |
| `InvoicesPaidOnce` | `[]PaysOnce` |
| `LinesMatchedOnce` | `[]MatchedOnce` |

`PaysOnce` is about all lines, under every interleaving: it is inductive with
`PaidMatched`, a paid line is matched until a person reopens it, and with what a
process in `auto_match` holds (`PlanOK`: each line once, each target once), because
`payment_from_bank` checks again in the transaction that writes. `MatchedOnce` is about
`Calm` lines, for which `CalmOK` says that one process at most works on a line, that
the line is unmatched meanwhile, and that an entry made from it belongs to that process
or to its reconciliation; `OneMatcher` and `ClaimedOnce` keep two calm lines from
being reconciled with one entry. The entry of an invoice's payment is in no such row,
and a second line may be matched to it (section 3, Bank).

`RecurringProofs`, for any templates, start and end dates, days of runs, cap, crashes
and changes, under `RecurringAssumption` (a template's frequency is 1, 3 or 12 months;
runs start on later and later days):

| Theorem | States |
|---|---|
| `TypeCorrect` | `[]TypeOK` |
| `PeriodsNotSkipped` | `[]NoPeriodSkipped` |
| `RunDoesAsPreviewed` | `[]PreviewTellsRun` |
| `BookedTwiceOnlyByCrash` | `[]TwiceOnlyByCrash`, of one runner |

The dates of a template are numbered by the months since year 0: `DateAt` grows with
the month (`DatesGrow`), `AddPeriod` steps from one to the next (`NextDate`), the first
run is the first of them (`FirstIsScheduled`), and those up to next year are the `Grid`
of the property (`GridIsScheduled`). `IInv` says that a listed template stands at one of
them with all earlier ones booked (`TemplateOK`), that what is booked lies on them and
within the end (`JournalOK`), and that the runner's rows are those of the tables but for
the one it has just advanced (`RowsOK`, `HeadOK`): so an advance, which writes back what
was read, moves a template on by one date, and that one is booked. `PlanOK` counts the
turns: after n of them the template is n dates and n runs past where the preview found
it. For the last theorem the bookings of a template are its `done`, one more while the
runner stands between booking and advance, and an `Excess`: no step but a crash changes
an excess, and a crash raises one by one. Their sum is a fold over a set, which the
library defines by recursion; `AddsGrow`, that a sum grows by no more than its one
growing term, is proved with the least set at which it would not (`LeastSet`).

`StatementsProofs`, for any chart of accounts, posting lists, days, centers, taxonomy
codes, statutory lines and bounds, under `YearEndAssumption` (finitely many accounts,
each of one kind), `StatementsAssumption` (finitely many lines, an account on one of
them) and `DaysAssumption` (the year ends on a day MM-DD names, as bukio.rs:586-609 has
it, and entries are dated in the year, on days there are, as entries.rs:218 has it; a
year that ends on 29 February is one in leap years only: in others `create_entry`
refuses the close for its date):

| Theorem | States |
|---|---|
| `CloseTypeCorrect` | `CloseSpec => []CloseTypeOK` |
| `YearClosedOnce` | `OneCloser /\ AllSpec => []ClosedOnce` |
| `StatementsTypeCorrect` | `AllSpec => []StatementsTypeOK` |
| `SheetsBalance` | `AllSpec => []SheetBalances` |
| `OneResultEverywhere` | `KindsAgree /\ AllSpec => []PartsAddUp` |

`OneCloser` says that `Closers` has one member, as `ClosedOnce` needs; the others
hold for any number. `KindsAgree` says of the chart and the statutory lines that an
account a line sums is of the line's kind, income on a revenue line and expense on a
cost line; a chart that mixes them is reported wrong by the statutory forms. TLC
evaluates it for the instance of MCStatements.

`YearIInv` goes with the closer (`CloseOK`). After it found the year open and until its
`create` no closing entry stands. While it is at `post` or `create_2` none stands but
its own, which still has the postings it wrote from what it read: so the appropriation
matches the entry it appropriates, and a pair that stands cancels. Others can take a
standing entry away, by reversing it, but only a closer adds one (`StandingKept`). And
a close never changes what a later one reads: its entries are closing entries, which
`Net` leaves out; a reversal of one it counts, which the property excuses.

`SheetIInv` goes with the reader. A posted entry balances (`PostedBalances`:
the trigger's guard), so by `SumSwap` the accounts as of any day do; rows and result
are those of the books of one moment as long as nothing `moved`; and each layout sorts
the accounts into sections, lines or prefixes, of which `SumSorted` says that they lose
none (`SectionsTotal`, `LinesTotal`, `PrefixesTotal`, `RaisedTotal`).

`OneResultEverywhere` follows from `SheetIInv`, and at every moment: TLC evaluates
`PartsAddUp` while nobody closes, the proof does not use that. The P&L is a sum over
entries of what each earned (`PnlIs`). A date of the year is in one of its months
(`MonthIs`, `MonthFits`) and an entry on one center, so months and centers sort that sum
(`MonthsAdd`, `CentersAdd`). The statutory forms sum the same accounts, each with the
sign of its kind (`KleinResult`, `LscShows`). For the XAF file, the debit and the credit
legs of an entry that balances are two lines of one length (`SidesMeet`); a leg on one is
cut at the ends of those on the other, and its pieces telescope to its length
(`Telescopes`, `Overlays`), so what is booked back on an account is its own posting
(`Rebooks`). The days of a FAIA file follow those before it without gap or overlap
(`YearsFollow`).

The same module has the proofs about Payments, for any processes, payables, batches,
lines, mandates, orders and sheets:

| Theorem | States |
|---|---|
| `TypeCorrect` | `[]TypeOK` |
| `HandsOnce` | `[]HandedOnce` |
| `BatchesAreWhole` | `[]BatchesWhole` |
| `CollectsInOrder` | `RecurringFollowsFirst` |

`LinksLead` and the existence of what a line refers to are inductive with `Types`
whatever interleaves: the foreign keys are guards of the statements. The rest holds
while `clean`, and then one process at most is in a command: `Tidy(k)` says how the
tables stand when its job is k, with exceptions for just what k has half done. Lines
and payables point at each other (`LinesLinked`) but for the line about to be linked
and the batch being released; a batch has all its lines (`BatchesFull`) but for the
one being written or deleted; files are of exported batches, one each, and hold their
lines (`FilesWhole`); the payables still to be written are unpaid and named once, a
collection marked RCUR has its predecessor (`PlanHolds`); and the batch in hand is a
draft with as many lines as were written (`BatchHolds`). A payable handed out twice
would be linked to two lines.

`AssetsProofs`, for any processes, schemes, requests, accounts, dates, proceeds and
bounds, under `AssetsAssumption` (the accounts exist, amounts are integers, dates are
days):

| Theorem | States |
|---|---|
| `TypeCorrect` | `[]TypeOK` |
| `RunsAreTheSchedule` | `[]RunsFollowSchedule` |
| `RegisterIsTheLedger` | `[]RegisterMatchesLedger` |
| `DisposalTakesOff` | `[]DisposalClears` |

Nothing is assumed of schemes and amounts but what `create_asset` checks
(`RequestIsSound`). What remains of an asset falls every month and is nothing after the
last (`RemainsFalls`, by the least month at which it would not): so a schedule is a set
of months with positive amounts that add up to what there is to depreciate, rounding
included (`FullAdds`), and months that add up to all of it are all of them (`RowsAdd`).
`IInv` then needs no arithmetic: runs are months of the schedule (`RunsOK`) without a
gap (`UnbrokenOK`), and a plan closes the gap between them and its own last month,
whatever was booked since it was made (`PlansOK`). A run that completes an asset books
all that was left (`WholeOK`): that the amounts reach the residual tells that the months
are whole. `JournalOK` ties each run to an entry of its own. Of assets no two commands
worked on at once, `Alone`, `ReadOK` and `BooksOK` say that a disposal in hand holds the
postings that its asset has at that moment, and that the asset's entries are its runs
and the disposal. The last two theorems are sums over these entries: `DepreciationIs`
and `DisposalIs` say what each puts on the asset's accounts, `SumRenamed` that summing
over entries is summing over runs.

`AssetsProofs` also has the proofs about the amounts of Trade, for any lines, discounts,
rates, days and bounds, under `TradeAssumption` and `RatesAssumption` (lines and
discounts have the fields they have, rates are published of finitely many days):

| Theorem | States |
|---|---|
| `AllocateAddsUp` | what `allocate_largest_remainder` divides over weights that are not all nothing comes back to the cent, and no share is negative |
| `AmountsAddUp` | `NoGroupBelowZero /\ TradeSpec => []TotalsAddUp` |

Shares are rounded down first; what is lost that way is less than a cent per place
(`LeftIs`), and the ranks of the remainders are one to one (`RanksBelow`), so exactly as
many places as cents were lost get one more. Groups are classes of lines: a group is
known by its first line (`MembersAre`), and sums over groups are sums over lines
(`NetByGroup`, from `KeySums`). VAT per line adds up to VAT per group by exchanging two
sums (`LineVatsAddUp`), and the breakdown per rate to the total (`BreakdownAddsUp`). That
the booked legs sum to nothing needs no hypothesis (`PostingsBalance`). The inductive
invariant, `TradeInv`, says that a row of an invoice carries the sums of its own lines and
discount (`RowsRight`: crediting, paying and reversing copy or keep them), and that the
day of each entry in a foreign currency converted automatically has a stored rate, which
is the entry's (`RatesRight`; a rate fetched later is of another day, `FetchedIsApart`).

`AssetsProofs` has those about Imports as well, for any files, importers, scenarios and
bounds, under `FilesAssumption` (a file of opening balances is one item; charts are lists
of accounts with codes; names that are equal in lower case have the same letters and
digits) and `ChartAssumption` (codes are positive numbers, no role is NULL):

| Theorem | States |
|---|---|
| `NothingTwice` | `ImportSpec => []ImportedOnce` |
| `RolesStayRight` | `ImportSpec => []RolesRight` |

An importer reads what is there once, before it writes for minutes. The invariant,
`ImportIInv`, therefore says what its old knowledge is still worth (`RightAt`): every
document, party and payable it has yet to write is missing still, or is the one it has
just written, or is noted in `refs`, or another importer that may write it is at work,
and then the key is in `overlapped` (`OverlapsKnown`). What it has to write are different
things of its file (`Listing`): a journal's documents differ in number, because lines with
one number became one entry; new parties differ in name; the layouts of XAF may repeat a
number, which is why they note what they wrote. A write then cannot be the second of its
kind (`Drafted`, `PartyStep`, `InvoiceStep`), and for others it is another's key or on
record. That a source and the kind of its reference go together (`TablesRight`) is what
makes the lookup by source complete (`DocsFound`). Deaths and failures need nothing:
what they leave is read by the next start. Commands by hand may add reversals, which only
ever make a row of opening balances count less (`RowsKept`).

`RolesStayRight` adds an invariant of the chart (`FineChart`, in `ChartIInv`): a role has
one holder, and unless an excuse is about the role or about that very account
(`RoleJustified`, `About`) the holder is of the role's kind. An account may lose its meaning while it keeps its role only in the step
that renames it; what then excuses it is the import that renamed it, as long as it is at
the clearing (`Loose`), or `history.left` if the role came after the import had read the
account or the import died; `ExcusesGrow` and `ExcusesKept` say that no other step takes
an excuse from an account that needs it. Giving out roles (`FineAssigned`) and creating
accounts only ever add holders of the right kind.

`VatProofs`, for any processes, accounts, VAT codes, rates, bank lines, scenarios and
bounds, under `VatAssumption` (the clearing accounts differ, the settlement accounts are
none of the other four and differ among themselves, rates are natural numbers, codes are
of the five types the table allows, and the exempt ones, which only come from the
profile's seeds, have rate 0):

| Theorem | States |
|---|---|
| `TypeCorrect` | `[]TypeOK` |
| `PaidOnce` | `[]LineSettledOnce` |
| `PositionIsCleared` | `PositionCleared` |
| `ReadoutMatches` | `BooksElsewhere /\ Spec => []ReadoutMatchesBooks` |

`Known` says what a process knows of the entry it holds: that it is in the journal for
the command at hand, that a filing or settlement about to be posted still has the
postings written from what was read, that each code still to be set has a posting it
fits, and that no two processes hold one entry. `Calm`, of a line that is not crossed:
one process works on it, it is not matched meanwhile, and its settlement, once posted,
is in that process's hands or the line is matched. `FreshJob`, of a process nobody
overtook: the balances it read are those of the journal (drafts do not count:
`BalanceSame`), and the account it named is VAT's from the moment it was ensured, since
resolving it again gives the same code (`ResolveIs`). What an entry adds when it is
posted (`BalancePosted`) then is the opposite of what there was: of both clearing
accounts (`FilingClears`) or of the account settled (`SettlementClears`).

`ReadoutMatches` has a hypothesis on the scenarios: no list given to the command names a
clearing or a settlement account (`BooksElsewhere`; `MCVat` assumes it of its scenarios,
and TLC evaluates it). The command does not refuse them, and a user who books on 2500
himself changes its balance and no return. The property alone is not inductive: it says
nothing of an entry while its codes are being set. `Reads` does. An entry is `Sound` when
its codes say the opposite of what it puts on the clearing accounts, or, for a filing or
settlement, say nothing (`ClearingIs` finds the VAT legs that `Expand` adds to be the VAT
of the rows, with nothing else on those accounts). Until then it is `loose`, and as far
as its codes are set each is that of a row, on the first posting the row fits
(`Explained`; `WrittenExplained` for one more code). When as many postings have a code
as there are rows, rows and postings go one to one (`AllCodedIs`, by counting), so the
entry is sound (`AllCodedSound`): this is what `EndTagging` compares. Two equal rows set
one code, and the entry stays loose. A reversal is sound if what it reverses was, or else
was made of an entry posted while loose (`Vouched`). Where no such entry exists, every
posted one is sound, and the sum of the return is sorted by entry (`OwedByEntry`, from
`SumSorted`).

Only model-checked are `ReportsMatchLedger` and `OverdueIsShown` of Trade and its parts, `FilesBooked` of Imports, and `MigratedWhole`
of Migrations. Out of the prover's reach and left to TLC: liveness
(`CatchesUp`), and what `SetToSortSeq`, `SelectSeq` and folds over sequences
compute, which are defined by recursion.

## 6. What is not modelled, and why

- Parsing and formatting: money, dates, CSV, XML (CAMT, XAF, pain, UBL, ECB), PDF,
  languages, help. They hold no state, and the models start from what parsers yield.
- Documents and their delivery (UBL, PDF, Peppol, SMTP) and HTTP, TLS and limits of
  the remote server: external protocols.
- Cryptography and encryption: taken as perfect.
- Validation of single fields (IBANs, names, VAT numbers), suggestions for matching,
  several bank accounts, the list of commands that never run remotely, the schemas of
  MCP tools, editing of company, contacts, items and cost centers: single statements
  without a lifecycle.
- The small business scheme, under which VAT cannot be enabled; the VAT rubrics of
  profiles other than the Dutch; exchange differences; restoring to another path.
- Triggers, indexes and columns in migrations, of which only tables and rows matter.
- The SQLite engine itself: WAL, snapshot and trigger semantics are taken as documented.
