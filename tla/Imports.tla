--------------------------------- MODULE Imports ---------------------------------
(***************************************************************************)
(* The importers (src/import_mod.rs and `account import'): opening         *)
(* balances, a journal CSV, the two XAF layouts, a chart, contacts and an  *)
(* e-invoice.  Each checks its whole file and reads what is there already, *)
(* and then writes one account, entry or contact after another, each in a  *)
(* transaction of its own.  Other importers and commands run in between,   *)
(* and a process may die anywhere.                                         *)
(*                                                                         *)
(* A file is what the parsers make of it: rows of its chart, items (lines  *)
(* of a journal, mutaties or transactions) with their bookings, and        *)
(* parties.  XML, CSV and number formats, and the reports, are left out.   *)
(***************************************************************************)
EXTENDS Chart

CONSTANTS
  Importers,    \* processes that import
  Files,
  NoFile,
  NoCode,       \* an empty TegenrekeningCode
  NoVat,        \* no VAT id
  Dates,
  RefNames,     \* boekstuknummers, transaction ids and invoice numbers
  Lower(_),     \* a name in lower case
  Plain(_),     \* normalize_import_name: its letters and digits in lower case
  Registration, \* company.registration_id
  IsKvk(_),     \* a registration of eight digits
  MaxImported,  \* bound
  ImportScenarios  \* bounds, one of which a behaviour keeps to

VARIABLES
  chart,
  booked,       \* the journal entries
  contacts,     \* contacts in id order: name and vat
  inbound,      \* payables in id order: contact, supplier, number, key
                \* and amount
  imports,      \* what each process is importing
  history,      \* files finished, files broken off, keys two importers worked
                \* on at once, roles set by hand, roles left on an account that
                \* was renamed, and how many were started
  limits        \* the scenario: the first chart, the files, who may die, the
                \* accounts and roles changed by hand, reversals, the number of imports
                \* and of entries

importVars == <<chart, booked, contacts, inbound, imports, history, limits>>

Leg == [code : Codes, amount : Int \ {0}]

Booking == [code : Codes, contra : Codes \cup {NoCode}, amount : Int]

LegsTotal(l) == MapThenSumSet(LAMBDA k : l.legs[k].amount, DOMAIN l.legs)

LegCount(l) == Len(l.legs)

NegatedLegs(l) == [l EXCEPT !.legs = [k \in DOMAIN l.legs |-> [l.legs[k] EXCEPT !.amount = -@]]]

Journal == INSTANCE Entries WITH
  PostingLists <- [date : Dates, legs : Seq(Leg)], Total <- LegsTotal, Legs <- LegCount, Neg <- NegatedLegs,
  Sources <- {"import", "xaf", "manual", "reversal"},
  Refs <- {"opening", "journal", "xaf", "none"} \X RefNames, NoRef <- <<"none", "">>,
  MaxEntries <- MaxImported, entries <- booked

----------------------------------------------------------------------------------
(* What a file comes to. *)

IsXaf(f) == f.kind \in {"xaf", "audit"}

IsBookings(f) == IsXaf(f) \/ f.kind \in {"opening", "journal"}

\* A line of a journal and a Boeking name two accounts, the others one.
LegsOf(f, booking) ==
  LET own == [code |-> booking.code, amount |-> booking.amount]
  IN  IF f.kind \in {"audit", "opening"} THEN <<own>>
      ELSE <<own, [code |-> booking.contra, amount |-> -booking.amount]>>

ItemLegs(f, items) ==
  FlattenSeq([k \in DOMAIN items |->
    FlattenSeq([b \in DOMAIN items[k].bookings |-> LegsOf(f, items[k].bookings[b])])])

\* Positions whose boekstuknummer has not occurred before.
Firsts(items) == {k \in DOMAIN items : \A j \in 1..k - 1 : items[j].ref # items[k].ref}

\* Positions in the order of the file.
InOrder(S) == [n \in 1..Cardinality(S) |-> CHOOSE k \in S : Cardinality({j \in S : j < k}) = n - 1]

\* Faulty: a number that comes back starts a new entry.
DocsAsListed(f) ==
  [d \in DOMAIN f.items |-> [ref |-> f.items[d].ref, date |-> f.items[d].date, legs |-> ItemLegs(f, <<f.items[d]>>)]]

\* The lines of a journal with one boekstuknummer become one entry, in the
\* order in which the numbers first occur; a mutatie is an entry.
Docs(f) ==
  LET grouped == f.kind = "journal"
      starts == InOrder(IF grouped THEN Firsts(f.items) ELSE DOMAIN f.items)
      Of(k) == IF grouped THEN SelectSeq(f.items, LAMBDA item : item.ref = f.items[k].ref)
                          ELSE <<f.items[k]>>
  IN  [d \in DOMAIN starts |->
        [ref |-> f.items[starts[d]].ref, date |-> f.items[starts[d]].date, legs |-> ItemLegs(f, Of(starts[d]))]]

SourceOf(f) == IF IsXaf(f) THEN "xaf" ELSE "import"

RefOf(f, ref) == <<IF IsXaf(f) THEN "xaf" ELSE f.kind, ref>>

\* The movement of an account over the whole file.
NetOf(f, code) ==
  LET legs == ItemLegs(f, f.items)
  IN  MapThenSumSet(LAMBDA k : IF legs[k].code = code THEN legs[k].amount ELSE 0, DOMAIN legs)

InferAccountType(net) == IF net < 0 THEN "income" ELSE "expense"

\* rekening_type, and the AccountType of the other layout if it has one.
TypeHint(f, row) ==
  LET net == NetOf(f, row.code)
  IN  CASE row.type \in Types -> row.type
        [] row.type = "Balans" -> IF net < 0 THEN "liability" ELSE "asset"
        [] OTHER -> InferAccountType(net)

\* Faulty: the name as written.
SupplierKeyAsWritten(party) == IF party.vat # NoVat THEN party.vat ELSE party.name

SupplierKey(party) == IF party.vat # NoVat THEN party.vat ELSE Plain(party.name)

\* What is read of the supplier: the name of PartyName or else the registered
\* one, and the number of the first tax scheme that is VAT and has one.
Supplier(f) ==
  LET vats == SelectSeq(f.supplier.schemes, LAMBDA s : s.id = "VAT" /\ s.number # NoVat)
  IN  [name |-> IF f.supplier.name # "" THEN f.supplier.name ELSE f.supplier.legal,
       vat |-> IF vats = << >> THEN NoVat ELSE Head(vats).number]

PayableKey(f) == <<SupplierKey(Supplier(f)), f.ref>>

NamesIn(f) == {f.parties[k].name : k \in DOMAIN f.parties} \cup {Supplier(f).name}

IsChart(f) == IsXaf(f) \/ f.kind = "accounts"

\* A chart is a list of accounts with codes.
IsList(rows) == rows \in Seq({rows[k] : k \in DOMAIN rows}) /\ \A k \in DOMAIN rows : rows[k].code \in Codes

\* A file of opening balances is one item, lists are lists, and names that are
\* the same in lower case have the same letters and digits.
ASSUME FilesAssumption ==
  /\ NoFile \notin Files
  /\ \A f \in Files :
       /\ f.kind \in {"opening", "journal", "xaf", "audit", "accounts", "contacts", "invoice"}
       /\ f.items \in Seq([ref : RefNames, date : Dates, bookings : Seq(Booking)])
       /\ Len(f.parties) \in Nat /\ DOMAIN f.parties = 1 .. Len(f.parties)
       /\ f.kind = "opening" => Len(f.items) = 1
       /\ IsChart(f) => IsList(f.rows)
  /\ \A a, b \in UNION {NamesIn(f) : f \in Files} : Lower(a) = Lower(b) => Plain(a) = Plain(b)
  /\ \A b \in ImportScenarios : IsList(b.profile)

----------------------------------------------------------------------------------
(* Checking a file against the books. *)

Usable(code) == code \in DOMAIN chart /\ chart[code].active

CodesIn(legs) == {legs[k].code : k \in DOMAIN legs}

TotalOf(legs) == MapThenSumSet(LAMBDA k : legs[k].amount, DOMAIN legs)

ExistingRefs(f) == {booked[i].ref : i \in {j \in Journal!Ids : booked[j].source = SourceOf(f)}}

Unreversed(i) == \A r \in Journal!Ids : booked[r].reversedFrom # i

\* Drafts count too.
OpeningTaken == \E i \in Journal!Ids : booked[i].ref[1] = "opening" /\ Unreversed(i)

RowsDiffer(f) == \A j, k \in DOMAIN f.rows : f.rows[j].code = f.rows[k].code => j = k

InFile(f) == {f.rows[k].code : k \in DOMAIN f.rows}

\* The contact an e-invoice is from: --contact, or by VAT id, or by name; 0 is none.
ContactOf(f) ==
  LET party == Supplier(f)
      byVat == {k \in DOMAIN contacts : party.vat # NoVat /\ contacts[k].vat = party.vat}
      byName == {k \in DOMAIN contacts : Plain(contacts[k].name) = Plain(party.name)}
  IN  CASE f.contact # 0 -> f.contact
        [] f.contact = 0 /\ byVat # {} -> Min(byVat)
        [] f.contact = 0 /\ byVat = {} /\ byName # {} -> Min(byName)
        [] OTHER -> 0

OpeningAccepted(f) ==
  LET legs == ItemLegs(f, f.items)
  IN  ~OpeningTaken /\ TotalOf(legs) = 0 /\ Len(legs) >= 2 /\ \A c \in CodesIn(legs) : Usable(c)

JournalAccepted(f) ==
  LET codes == CodesIn(ItemLegs(f, f.items))
  IN  /\ \A c \in codes : c # NoCode /\ (c \in DOMAIN chart => Usable(c))
      /\ f.missing \/ codes \subseteq DOMAIN chart
      /\ \A j, k \in DOMAIN f.items :
           f.items[j].ref = f.items[k].ref => f.items[j].date = f.items[k].date

\* Another company's file is refused, a file without its number is not.
SameCompany(f) == f.registration \in {"", Registration}

\* In the other layout the number may be anything, and only eight digits count.
AuditSameCompany(f) == SameCompany(f) \/ ~IsKvk(f.registration)

\* An account need not be active, and the second one may be missing.
XafAccepted(f) ==
  /\ SameCompany(f) /\ RowsDiffer(f)
  /\ CodesIn(ItemLegs(f, f.items)) \subseteq InFile(f) \cup DOMAIN chart \cup {NoCode}

AuditAccepted(f) ==
  /\ AuditSameCompany(f) /\ RowsDiffer(f)
  /\ CodesIn(ItemLegs(f, f.items)) \subseteq InFile(f) \cup DOMAIN chart
  /\ \A k \in DOMAIN f.items : TotalOf(ItemLegs(f, <<f.items[k]>>)) = 0

InvoiceAccepted(f) ==
  /\ f.amount > 0 /\ Supplier(f).name # "" /\ f.contact \in {0} \cup DOMAIN contacts
  /\ f.missing \/ ContactOf(f) # 0

ContactsAccepted(f) == \A k \in DOMAIN f.parties : f.parties[k].name # ""

NothingEmpty(f) ==
  /\ \A k \in DOMAIN f.items : f.items[k].bookings # << >>
  /\ LET legs == ItemLegs(f, f.items) IN \A k \in DOMAIN legs : legs[k].amount # 0

\* Every error of the file is collected, and one is enough to refuse it.
Accepts(f) ==
  /\ NothingEmpty(f)
  /\ CASE f.kind = "opening" -> OpeningAccepted(f) [] f.kind = "journal" -> JournalAccepted(f)
       [] f.kind = "xaf" -> XafAccepted(f) [] f.kind = "audit" -> AuditAccepted(f)
       [] f.kind = "invoice" -> InvoiceAccepted(f) [] f.kind = "contacts" -> ContactsAccepted(f)
       [] OTHER -> TRUE

----------------------------------------------------------------------------------

NoImport == [at |-> "idle", file |-> NoFile, rows |-> << >>, docs |-> << >>, parties |-> << >>,
         refs |-> {}, own |-> 0, held |-> NoRole, turn |-> 0]

NameKeys == {Lower(contacts[k].name) : k \in DOMAIN contacts}

\* Parties whose name neither an earlier party nor a contact has.
Fresh(f) ==
  LET first == {k \in DOMAIN f.parties :
                  /\ Lower(f.parties[k].name) \notin NameKeys
                  /\ \A j \in 1..k - 1 : Lower(f.parties[j].name) # Lower(f.parties[k].name)}
      order == InOrder(first)
  IN  [k \in DOMAIN order |-> f.parties[order[k]]]

\* An e-invoice's supplier becomes a contact with --create-missing.
ToCreate(f) ==
  IF f.kind = "contacts" THEN Fresh(f)
  ELSE IF f.kind = "invoice" /\ ContactOf(f) = 0 THEN <<Supplier(f)>> ELSE << >>

PayableKeys == {inbound[k].key : k \in DOMAIN inbound}

\* The keys by which a file's import finds that something is there already.
KeysOf(f) ==
  CASE f.kind = "contacts" -> {<<"name", Lower(f.parties[k].name)>> : k \in DOMAIN f.parties}
    [] f.kind = "invoice" -> {<<"payable", PayableKey(f)>>, <<"name", Lower(Supplier(f).name)>>}
    [] OTHER -> {RefOf(f, f.items[k].ref) : k \in DOMAIN f.items}

ImportInit ==
  /\ limits \in ImportScenarios
  /\ chart = SeedChart([c \in {} |-> 0], limits.profile)
  /\ booked = << >> /\ contacts = << >> /\ inbound = << >>
  /\ imports = [w \in Importers |-> NoImport]
  /\ history = [done |-> {}, broken |-> {}, overlapped |-> {}, manual |-> {}, left |-> {}, starts |-> 0]

Doing(w, where) == imports[w].at = where

Goto(w, where) == imports' = [imports EXCEPT ![w].at = where]

Doc(w) == Head(imports[w].docs)

Row(w) == Head(imports[w].rows)

Running(f) == \E w \in Importers : imports[w].file = f

Broken(w) == history' = [history EXCEPT !.broken = @ \cup {imports[w].file}]

\* A file that is refused changes nothing.
StartImport(w, f) ==
  /\ Doing(w, "idle") /\ f \in limits.files /\ history.starts < limits.starts
  /\ Accepts(f)
  /\ imports' = [imports EXCEPT ![w] =
       [at |-> "work", file |-> f,
        rows |-> IF IsChart(f) THEN f.rows ELSE << >>,
        docs |-> IF IsBookings(f) THEN Docs(f) ELSE << >>,
        parties |-> ToCreate(f),
        refs |-> CASE f.kind = "invoice" -> PayableKeys \cap {PayableKey(f)}
                   [] f.kind \in {"journal", "xaf", "audit"} -> ExistingRefs(f)
                   [] OTHER -> {},
        own |-> IF f.kind = "invoice" THEN ContactOf(f) ELSE 0,
        held |-> NoRole, turn |-> 0]]
  /\ history' = [history EXCEPT !.starts = @ + 1, !.overlapped =
       @ \cup (KeysOf(f) \cap UNION {KeysOf(imports[v].file) : v \in {u \in Importers : ~Doing(u, "idle")}})]
  /\ UNCHANGED <<chart, booked, contacts, inbound, limits>>

----------------------------------------------------------------------------------
(* The file's chart, account by account. *)

Used(code) == \E i \in Journal!Ids : code \in CodesIn(booked[i].postings.legs)

NextRow(w) ==
  imports' = [imports EXCEPT ![w].rows = Tail(@), ![w].at = "work", ![w].held = NoRole, ![w].turn = 0]

\* The role is that of the account as it was read.
BeginRename(w, role) == imports' = [imports EXCEPT ![w].at = "rename", ![w].held = role]

\* What the account of the row is to be.
Meant(w) == TypeHint(imports[w].file, Row(w))

Unfit(w, role) == role # NoRole /\ ~MatchesRole(Meant(w), Row(w).name, role)

\* The role an account was renamed with, and that is still to be taken away.
Loose(w) == {role \in {imports[w].held} : Doing(w, "role") /\ Unfit(w, role)}

\* sync_account_from_file: an account that is missing is created; the taxonomy
\* code of one that exists is brought up to date, whoever set it and whether
\* or not there are postings, and an unused one with another name is renamed.
SyncAccount(w) ==
  LET row == Row(w)
      account == chart[row.code]
  IN  /\ Doing(w, "work") /\ IsXaf(imports[w].file) /\ imports[w].rows # << >>
      /\ IF row.code \notin DOMAIN chart
         THEN LET type == TypeHint(imports[w].file, row)
              IN  chart' = CreateAccount(chart, row.code, row.name, type, InferRgs(type, row.name))
         ELSE chart' = [chart EXCEPT ![row.code].rgs = InferRgs(account.type, account.name)]
      /\ IF row.code \notin DOMAIN chart \/ Lower(row.name) = Lower(account.name) \/ Used(row.code)
         THEN NextRow(w) ELSE BeginRename(w, account.role)
      /\ UNCHANGED <<booked, contacts, inbound, history, limits>>

\* What is done with the new name, its role and the roles that are free are one
\* statement after another, none in a transaction with another: a role that came
\* to the account after it was read stays, and so does any if the process dies.
RenameAccount(w) ==
  /\ Doing(w, "rename")
  /\ chart' = Renamed(chart, Row(w).code, Row(w).name, Meant(w))
  /\ Goto(w, "role")
  /\ history' = [history EXCEPT !.left =
       @ \cup {role \in {chart[Row(w).code].role} : role # imports[w].held /\ Unfit(w, role)}]
  /\ UNCHANGED <<booked, contacts, inbound, limits>>

ClearRole(w) ==
  /\ Doing(w, "role")
  /\ chart' = IF Loose(w) = {} THEN chart ELSE Unflagged(chart, Row(w).code)
  /\ imports' = [imports EXCEPT ![w].at = "assign", ![w].turn = 1]
  /\ UNCHANGED <<booked, contacts, inbound, history, limits>>

AssignRole(w) ==
  /\ Doing(w, "assign")
  /\ chart' = AssignFreeRole(chart, Roles[imports[w].turn])
  /\ IF imports[w].turn < Len(Roles) THEN imports' = [imports EXCEPT ![w].turn = @ + 1] ELSE NextRow(w)
  /\ UNCHANGED <<booked, contacts, inbound, history, limits>>

\* A row of `account import'.
AddRow(w) ==
  /\ Doing(w, "work") /\ imports[w].file.kind = "accounts" /\ imports[w].rows # << >>
  /\ chart' = ImportRow(chart, Row(w))
  /\ NextRow(w)
  /\ UNCHANGED <<booked, contacts, inbound, history, limits>>

----------------------------------------------------------------------------------
(* The entries, document by document. *)

AtDoc(w) == Doing(w, "work") /\ imports[w].rows = << >> /\ imports[w].docs # << >>

AlreadyThere(w) == RefOf(imports[w].file, Doc(w).ref) \in imports[w].refs

Missing(w) == {k \in DOMAIN Doc(w).legs : Doc(w).legs[k].code \notin DOMAIN chart}

Creates(w) == imports[w].file.kind = "journal" /\ imports[w].file.missing /\ Missing(w) # {}

SkipDoc(w) ==
  /\ AtDoc(w) /\ AlreadyThere(w)
  /\ imports' = [imports EXCEPT ![w].docs = Tail(@)]
  /\ UNCHANGED <<chart, booked, contacts, inbound, history, limits>>

\* --create-missing, under a name without keywords.
CreateMissing(w) ==
  /\ AtDoc(w) /\ ~AlreadyThere(w) /\ Creates(w)
  /\ \E code \in Codes \ DOMAIN chart :
       LET type == InferAccountType(NetOf(imports[w].file, code))
       IN  /\ code = Doc(w).legs[Min(Missing(w))].code
           /\ chart' = CreateAccount(chart, code, "Rekening", type, InferRgs(type, "Rekening"))
  /\ UNCHANGED <<booked, contacts, inbound, imports, history, limits>>

\* create_entry: at least two postings, accounts that exist and are active.
MayCreate(legs) ==
  /\ Len(legs) >= 2 /\ TotalOf(legs) = 0
  /\ \A c \in CodesIn(legs) : Usable(c)

CreateDoc(w) ==
  LET f == imports[w].file
  IN  /\ AtDoc(w) /\ ~AlreadyThere(w) /\ ~Creates(w)
      /\ MayCreate(Doc(w).legs) /\ Journal!LastId < limits.entries
      /\ Journal!InsertDraft([date |-> Doc(w).date, legs |-> Doc(w).legs], SourceOf(f), RefOf(f, Doc(w).ref))
      /\ imports' = [imports EXCEPT ![w].at = "post", ![w].own = Journal!LastId + 1]
      /\ UNCHANGED <<chart, contacts, inbound, history, limits>>

MayPost(i) == Journal!MayMarkPosted(i) /\ \A c \in CodesIn(booked[i].postings.legs) : Usable(c)

RefsNow(w) ==
  IF IsXaf(imports[w].file) THEN imports[w].refs \cup {RefOf(imports[w].file, Doc(w).ref)} ELSE imports[w].refs

PostDoc(w) ==
  /\ Doing(w, "post") /\ MayPost(imports[w].own)
  /\ Journal!MarkPosted(imports[w].own)
  /\ imports' = [imports EXCEPT ![w].at = "work", ![w].docs = Tail(@), ![w].refs = RefsNow(w), ![w].own = 0]
  /\ UNCHANGED <<chart, contacts, inbound, history, limits>>

\* An error ends the import; what it wrote stays.
Fail(w) ==
  /\ \/ AtDoc(w) /\ ~AlreadyThere(w) /\ ~Creates(w) /\ ~MayCreate(Doc(w).legs)
     \/ Doing(w, "post") /\ ~MayPost(imports[w].own)
  /\ imports' = [imports EXCEPT ![w] = NoImport]
  /\ Broken(w)
  /\ UNCHANGED <<chart, booked, contacts, inbound, limits>>

----------------------------------------------------------------------------------
(* Contacts and e-invoices. *)

CreateContact(party) == contacts' = Append(contacts, party)

NextParty(w) ==
  /\ Doing(w, "work") /\ imports[w].parties # << >>
  /\ CreateContact(Head(imports[w].parties))
  /\ imports' = [imports EXCEPT ![w].parties = Tail(@), ![w].own = Len(contacts) + 1]
  /\ UNCHANGED <<chart, booked, inbound, history, limits>>

\* The contact is created even when the invoice turns out to be registered.
RegisterInvoice(w) ==
  /\ Doing(w, "work") /\ imports[w].file.kind = "invoice" /\ imports[w].parties = << >>
  /\ inbound' = IF imports[w].refs # {} THEN inbound
                 ELSE Append(inbound, [contact |-> imports[w].own, supplier |-> Supplier(imports[w].file),
                                        ref |-> imports[w].file.ref, key |-> PayableKey(imports[w].file),
                                        amount |-> imports[w].file.amount])
  /\ imports' = [imports EXCEPT ![w] = NoImport]
  /\ history' = [history EXCEPT !.done = @ \cup {imports[w].file}]
  /\ UNCHANGED <<chart, booked, contacts, limits>>

EndImport(w) ==
  /\ Doing(w, "work") /\ imports[w].file.kind # "invoice"
  /\ imports[w].rows = << >> /\ imports[w].docs = << >> /\ imports[w].parties = << >>
  /\ imports' = [imports EXCEPT ![w] = NoImport]
  /\ history' = [history EXCEPT !.done = @ \cup {imports[w].file}]
  /\ UNCHANGED <<chart, booked, contacts, inbound, limits>>

\* The process dies.
Die(w) ==
  /\ w \in limits.mortal /\ ~Doing(w, "idle")
  /\ imports' = [imports EXCEPT ![w] = NoImport]
  /\ history' = [history EXCEPT !.broken = @ \cup {imports[w].file}, !.left = @ \cup Loose(w)]
  /\ UNCHANGED <<chart, booked, contacts, inbound, limits>>

----------------------------------------------------------------------------------
(* Commands by hand. *)

\* account deactivate and account reactivate.
Toggle(c) ==
  /\ c \in limits.toggled \cap DOMAIN chart
  /\ chart' = [chart EXCEPT ![c].active = ~@]
  /\ UNCHANGED <<booked, contacts, inbound, imports, history, limits>>

\* account set-role, or --clear.
SetRole(c, role) ==
  /\ role \in limits.roles /\ c \in DOMAIN chart
  /\ chart[c].role # role
  /\ role = NoRole \/ MayHold(chart, c, role)
  /\ chart' = [chart EXCEPT ![c].role = role]
  /\ history' = [history EXCEPT !.manual = @ \cup {chart[c].role, role}]
  /\ UNCHANGED <<booked, contacts, inbound, imports, limits>>

PostByHand(i) ==
  /\ MayPost(i) /\ Journal!MarkPosted(i)
  /\ UNCHANGED <<chart, contacts, inbound, imports, history, limits>>

ReverseByHand(i) ==
  /\ limits.reversals /\ Journal!IsPosted(i) /\ ~Journal!HasReversal(i) /\ Journal!LastId < limits.entries
  /\ Journal!InsertReversal(i)
  /\ UNCHANGED <<chart, contacts, inbound, imports, history, limits>>

ImportStep(w) ==
  \/ \E f \in Files : StartImport(w, f)
  \/ SyncAccount(w) \/ RenameAccount(w) \/ ClearRole(w) \/ AssignRole(w) \/ AddRow(w)
  \/ SkipDoc(w) \/ CreateMissing(w) \/ CreateDoc(w) \/ PostDoc(w)
  \/ NextParty(w) \/ RegisterInvoice(w) \/ EndImport(w) \/ Fail(w) \/ Die(w)

ImportNext ==
  \/ \E w \in Importers : ImportStep(w)
  \/ \E c \in Codes : Toggle(c) \/ \E k \in DOMAIN Roles : SetRole(c, Roles[k])
  \/ \E c \in Codes : SetRole(c, NoRole)
  \/ \E i \in Journal!Ids : PostByHand(i) \/ ReverseByHand(i)

ImportSpec == ImportInit /\ [][ImportNext]_importVars

----------------------------------------------------------------------------------
(* Properties. *)

Imported(i) == booked[i].source \in {"import", "xaf"}

Overlapped(ref) == ref \in history.overlapped

\* Suppliers with a VAT id are told apart by it, others by name.
SameSupplier(j, k) ==
  LET p == inbound[j].supplier
      q == inbound[k].supplier
  IN  p.vat = q.vat /\ (p.vat = NoVat => Plain(p.name) = Plain(q.name))

(***************************************************************************)
(* Importing a file again, after it was broken off, or another file with   *)
(* the same content, books nothing twice: one entry per boekstuk, one set  *)
(* of opening balances that is not reversed, one contact per name and one  *)
(* payable per invoice of a supplier, however its name is written.  Only   *)
(* two imports of the same thing at the same time may both miss it.        *)
(***************************************************************************)
ImportedOnce ==
  /\ \A i, j \in Journal!Ids : Imported(i) /\ Imported(j) /\ booked[i].ref = booked[j].ref /\ i # j =>
       Overlapped(booked[i].ref) \/ (booked[i].ref[1] = "opening" /\ ~(Unreversed(i) /\ Unreversed(j)))
  /\ \A j, k \in DOMAIN contacts : Lower(contacts[j].name) = Lower(contacts[k].name) /\ j # k =>
       Overlapped(<<"name", Lower(contacts[j].name)>>)
  /\ \A j, k \in DOMAIN inbound : SameSupplier(j, k) /\ inbound[j].ref = inbound[k].ref /\ j # k =>
       Overlapped(<<"payable", inbound[j].key>>)

\* Boekstukken of a file that no other file's can be taken for.
Own(f) ==
  LET others == UNION {KeysOf(g) : g \in limits.files \ {f}}
  IN  {r \in {f.items[k].ref : k \in DOMAIN f.items} : RefOf(f, r) \notin others \cup history.overlapped}

\* What the file puts on an account under a boekstuknummer; of mutaties with
\* one number the first counts.
FileStates(f, r, code) ==
  LET all == {k \in DOMAIN f.items : f.items[k].ref = r}
      items == IF IsXaf(f) THEN {Min(all)} ELSE all
      On(booking) == (IF booking.code = code THEN booking.amount ELSE 0)
                     - (IF booking.contra = code THEN booking.amount ELSE 0)
  IN  MapThenSumSet(LAMBDA k : MapThenSumSet(LAMBDA b : On(f.items[k].bookings[b]), DOMAIN f.items[k].bookings), items)

OnAccount(i, code) ==
  LET legs == booked[i].postings.legs
  IN  MapThenSumSet(LAMBDA k : IF legs[k].code = code THEN legs[k].amount ELSE 0, DOMAIN legs)

(***************************************************************************)
(* A file that was imported is in the books: what it states under a number *)
(* is one entry with these amounts, and a posted one, unless an earlier    *)
(* import of the file broke off and left it a draft.                       *)
(***************************************************************************)
FilesBooked ==
  \A f \in {g \in history.done : IsBookings(g)} : \A r \in Own(f) : \E i \in Journal!Ids :
    /\ Imported(i) /\ booked[i].ref = RefOf(f, r)
    /\ \A c \in Codes : OnAccount(i, c) = FileStates(f, r, c)
    /\ Journal!IsPosted(i) \/ f \in history.broken

(***************************************************************************)
(* Wherever the chart has an active account of a kind, the engine posts to *)
(* an account of that kind when nobody names one: no import leaves a flag  *)
(* on an account whose meaning it changed.  Excepted are roles set by      *)
(* hand; the moment between an account's new name and the clearing of its  *)
(* role; and the roles left there, by an import that died in that moment   *)
(* or because the account got the role after the import had read it, which *)
(* takes another import.                                                   *)
(***************************************************************************)
RolesRight ==
  \A k \in DOMAIN Roles : \A default \in Codes :
    LET role == Roles[k]
        code == ResolveSpecial(chart, role, default)
        excepted == history.manual \cup history.left \cup UNION {Loose(w) : w \in Importers}
    IN  /\ Cardinality(Holders(chart, role)) <= 1
        /\ Matching(chart, role) # {} /\ role \notin excepted =>
             MatchesRole(chart[code].type, chart[code].name, role)

==================================================================================
