-------------------------------- MODULE MCImports --------------------------------
(* Imports: two processes import the files of one of four scenarios, again and  *)
(* while the other does, and the first may die.                                 *)
EXTENDS Imports

WordsMC(name) ==
  CASE name = "Debiteuren" -> {"debtors", "claim"}
    [] name \in {"Bank", "Bankkosten"} -> {"bank", "liquid", "finance"}
    [] name = "Omzet" -> {"revenue", "sales"}
    [] OTHER -> {}

LowerMC(name) ==
  CASE name \in {"Acme BV", "ACME BV"} -> "acme bv" [] name = "Acme B.V." -> "acme b.v."
    [] name = "Bol" -> "bol" [] OTHER -> name

PlainMC(name) == IF LowerMC(name) = "bol" THEN "bol" ELSE "acmebv"

File(kind) ==
  [kind |-> kind, rows |-> << >>, items |-> << >>, parties |-> << >>, missing |-> FALSE,
   supplier |-> [name |-> "", legal |-> "", schemes |-> << >>], registration |-> "", ref |-> "", amount |-> 0, contact |-> 0]

Account(code, name, type) == [code |-> code, name |-> name, type |-> type]

B(code, contra, amount) == [code |-> code, contra |-> contra, amount |-> amount]

Item(ref, bookings) == [ref |-> ref, date |-> 1, bookings |-> bookings]

Party(name, vat) == [name |-> name, vat |-> vat]

Profile == <<Account(1, "Debiteuren", "asset"), Account(2, "Bank", "asset"), Account(3, "Omzet", "income")>>

\* Renames 1, gives its role to 4, and has boekstuk 1 twice.
Mutaties ==
  [File("xaf") EXCEPT
     !.rows = <<Account(1, "Gebouwen", "Balans"), Account(4, "Debiteuren", "Balans")>>,
     !.items = <<Item("1", <<B(4, 3, 5)>>), Item("1", <<B(2, 3, 2)>>), Item("2", <<B(2, 3, 3)>>)>>]

\* An empty TegenrekeningCode.
Halved == [File("xaf") EXCEPT !.registration = "123", !.items = <<Item("3", <<B(2, NoCode, 1)>>)>>]

\* Another year's file, with its own transaction 2.
Transactions ==
  [File("audit") EXCEPT
     !.registration = "7",
     !.rows = <<Account(2, "Debiteuren", "asset"), Account(1, "Bankkosten", "expense"), Account(3, "Omzet", "none")>>,
     !.items = <<Item("2", <<B(1, NoCode, 4), B(3, NoCode, -4)>>)>>]

Beginbalans == [File("opening") EXCEPT !.items = <<Item("", <<B(2, NoCode, 7), B(1, NoCode, -7)>>)>>]

\* Boekstuk 1 on two lines with 2 in between, and an account 4 to be created.
Journaal ==
  [File("journal") EXCEPT
     !.missing = TRUE,
     !.items = <<Item("1", <<B(2, 4, 3)>>), Item("2", <<B(1, 3, 1)>>), Item("1", <<B(2, 3, 2)>>)>>]

Rekeningschema ==
  [File("accounts") EXCEPT !.rows = <<Account(1, "Gebouwen", "asset"), Account(4, "Bankkosten", "expense")>>]

Relaties == [File("contacts") EXCEPT !.parties = <<Party("Acme BV", NoVat), Party("ACME BV", "NL1"), Party("Bol", NoVat)>>]

Naamloos == [File("contacts") EXCEPT !.parties = <<Party("", "NL2")>>]

Factuur(name, legal, schemes, ref) ==
  [File("invoice") EXCEPT !.supplier = [name |-> name, legal |-> legal, schemes |-> schemes],
                          !.ref = ref, !.amount = 9, !.missing = TRUE]

Scheme(id, number) == [id |-> id, number |-> number]

\* The third has its VAT id in the second scheme, and a registered name only.
Invoices ==
  {Factuur("Acme B.V.", "Bol", << >>, "f1"), Factuur("ACME BV", "", <<Scheme("TAX", "NL3")>>, "f1"),
   Factuur("", "Bol", <<Scheme("TAX", "NL3"), Scheme("VAT", "NL1")>>, "f1")}

\* The registration of the company; the other number is a row of a database.
IsKvkMC(registration) == registration = "123"

Bounds(profile, files, mortal, toggled, roles, reversals, starts, max) ==
  [profile |-> profile, files |-> files, mortal |-> mortal, toggled |-> toggled, roles |-> roles,
   reversals |-> reversals, starts |-> starts, entries |-> max]

XafScenario == Bounds(Profile, {Mutaties, Transactions, Halved}, {1}, {2}, {}, FALSE, 3, 3)

CsvScenario == Bounds(Profile, {Beginbalans, Journaal}, {1}, {2}, {}, TRUE, 3, 3)

PartyScenario == Bounds(<< >>, {Relaties, Naamloos} \cup Invoices, {1}, {}, {}, FALSE, 3, 0)

RoleScenario == Bounds(Profile, {Transactions, Rekeningschema}, {1}, {1}, {"debtors", NoRole}, FALSE, 2, 2)

ScenariosMC == {XafScenario, CsvScenario, PartyScenario, RoleScenario}

FilesMC == UNION {s.files : s \in ScenariosMC}

==================================================================================
