---------------------------------- MODULE MCTrade ----------------------------------
(***************************************************************************)
(* Trade with the filing types of all 31 profiles, invoices whose cents do  *)
(* not divide evenly, discounts of every kind, and days around the ends of  *)
(* months, quarters, fiscal years and a leap February.                      *)
(***************************************************************************)
EXTENDS Trade

QuarterlyMC ==
  {<<"AT.UMSATZSTEUER_VORANMELDUNG", "at-uva-quarterly">>, <<"CY.VAT", "cy-vat-quarterly">>,
   <<"DE.UMSATZSTEUER_VORANMELDUNG", "de-ustva-quarterly">>, <<"DK.VAT", "dk-quarterly">>,
   <<"ES.IVA_TRIMESTRAL", "es-303-quarterly">>, <<"FI.VAT", "fi-quarterly">>,
   <<"IT.LIQUIDAZIONE_IVA", "it-liquidazione-quarterly">>, <<"LU.TVA", "lu-quarterly">>,
   <<"MT.VAT", "mt-vat-quarterly">>, <<"OB", "nl-quarterly">>, <<"ICP", "nl-quarterly">>,
   <<"PT.IVA_DP", "pt-dp-quarterly">>, <<"SE.VAT", "se-quarterly">>, <<"US.PAYROLL_941", "us-941">>}

YearlyMC ==
  {<<"AT.UMSATZSTEUER_JAHRESERKLAERUNG", "at-annual-vat">>, <<"BE.ANNUAL_ACCOUNTS", "be-7-months">>,
   <<"BG.ANNUAL_ACCOUNTS", "bg-annual-accounts">>, <<"BG.CIT", "bg-cit">>,
   <<"CY.ANNUAL_ACCOUNTS", "cy-annual-accounts">>, <<"CY.CIT", "cy-td4">>,
   <<"CZ.ANNUAL_ACCOUNTS", "cz-annual-accounts">>, <<"CZ.CIT", "cz-cit">>,
   <<"DE.UMSATZSTEUER_JAHRESERKLAERUNG", "de-annual-vat">>, <<"DE.ANNUAL_ACCOUNTS", "de-12-months">>,
   <<"DK.ANNUAL_ACCOUNTS", "dk-5-months">>, <<"EE.ANNUAL_ACCOUNTS", "ee-annual-accounts">>,
   <<"ES.IVA_ANUAL", "es-390">>, <<"ES.IMPUESTO_SOCIEDADES", "es-200">>,
   <<"ES.CUENTAS_ANUALES", "es-7-months">>, <<"FI.ANNUAL_ACCOUNTS", "fi-8-months">>,
   <<"GB.ANNUAL_ACCOUNTS", "gb-9-months">>, <<"GB.CT600", "gb-ct600">>,
   <<"GR.ANNUAL_ACCOUNTS", "gr-annual-accounts">>, <<"GR.CIT", "gr-cit">>,
   <<"HR.ANNUAL_ACCOUNTS", "hr-annual-accounts">>, <<"HR.CIT", "hr-cit">>,
   <<"HU.ANNUAL_ACCOUNTS", "hu-annual-accounts">>, <<"HU.CIT", "hu-cit">>,
   <<"IE.ANNUAL_ACCOUNTS", "ie-9-months">>, <<"IE.CT1", "ie-9-months">>,
   <<"IT.DICHIARAZIONE_IVA", "it-dichiarazione-iva">>, <<"IT.BILANCIO", "it-bilancio">>,
   <<"LT.ANNUAL_ACCOUNTS", "lt-annual-accounts">>, <<"LT.CIT", "lt-cit">>,
   <<"LU.COMPTES_ANNUELS", "lu-7-months">>, <<"LV.ANNUAL_ACCOUNTS", "lv-annual-accounts">>,
   <<"MT.ANNUAL_ACCOUNTS", "mt-annual-accounts">>, <<"MT.CIT", "mt-cit">>,
   <<"JAARREKENING", "nl-13-months">>, <<"NO.ANNUAL_ACCOUNTS", "no-7-months">>,
   <<"PL.ANNUAL_ACCOUNTS", "pl-annual-accounts">>, <<"PL.CIT", "pl-cit">>, <<"PT.IRC", "pt-irc">>,
   <<"PT.CONTAS_ANUAIS", "pt-ies">>, <<"RO.ANNUAL_ACCOUNTS", "ro-annual-accounts">>,
   <<"RO.CIT", "ro-cit">>, <<"SE.ANNUAL_ACCOUNTS", "se-7-months">>,
   <<"SI.ANNUAL_ACCOUNTS", "si-annual-accounts">>, <<"SI.CIT", "si-ddpo">>,
   <<"SK.ANNUAL_ACCOUNTS", "sk-annual-accounts">>, <<"SK.CIT", "sk-cit">>,
   <<"US.FEDERAL_INCOME_TAX", "us-1120">>, <<"XK.ANNUAL_ACCOUNTS", "xk-annual-accounts">>,
   <<"XK.CIT", "xk-cit">>}

MonthlyMC ==
  {<<"BE.VAT", "be-vat-monthly">>, <<"BG.VAT", "bg-vat-monthly">>, <<"CZ.VAT", "cz-vat-monthly">>,
   <<"EE.VAT", "ee-vat-monthly">>, <<"GR.VAT", "gr-vat-monthly">>, <<"HR.VAT", "hr-vat-monthly">>,
   <<"HU.VAT", "hu-vat-monthly">>, <<"LT.VAT", "lt-vat-monthly">>, <<"LV.VAT", "lv-vat-monthly">>,
   <<"PL.VAT", "pl-vat-monthly">>, <<"RO.VAT", "ro-vat-monthly">>, <<"SI.VAT", "si-vat-monthly">>,
   <<"SK.VAT", "sk-vat-monthly">>, <<"XK.VAT", "xk-vat-monthly">>}

TwoMonthlyMC ==
  {<<"IE.VAT3", "ie-bimonthly">>, <<"NO.VAT", "no-bimonthly">>}

Typed(pairs, shape) == {[type |-> p[1], rule |-> p[2], shape |-> shape] : p \in pairs}

FilingTypesMC ==
  Typed(QuarterlyMC, "YYYY-Qn") \cup Typed(YearlyMC, "YYYY") \cup Typed(MonthlyMC, "YYYY-MM")
    \cup Typed(TwoMonthlyMC, "YYYY-Pn")

DaysMC == {20240131, 20240201, 20240301, 20240401, 20250213}

FewMC == {t \in FilingTypesMC : t.type \in {"OB", "ICP", "JAARREKENING", "SE.VAT", "NO.VAT", "PL.VAT"}}

Line(item, amount, code, gl) ==
  [item |-> item, amount |-> amount, discount |-> NoDiscount, code |-> code, gl |-> gl,
   rate |-> CASE code = "21" -> 2100 [] code = "9" -> 900 [] OTHER -> 0]

Off(l, d) == [l EXCEPT !.discount = d]

\* Two rates and two revenue accounts; three equal lines; a fixed discount above
\* its line; a line that nets another out; reverse charge beside 21%.
Plain == <<Line("a", 101, "21", "8000")>>
Mixed == <<Line("a", 33, "21", "8000"), Off(Line("b", 50, "9", "8000"), Percent(1050)), Line("a", 7, "21", "8010")>>
Thirds == <<Line("a", 1, "21", "8000"), Line("b", 1, "21", "8010"), Line("c", 1, "9", "8000")>>
Free == <<Off(Line("a", 5, "21", "8000"), Fixed(9)), Line("b", 10, "9", "8000")>>
NetsOut == <<Line("a", 5, "9", "8000"), Line("b", -5, "9", "8000"), Line("c", 8, "21", "8000")>>
ReverseAnd21 == <<Line("a", 40, "21", "8000"), Line("b", 30, "RE", "8000")>>
ReverseTwice == <<Line("a", 40, "RE", "8000"), Line("b", 30, "RE", "8010")>>

ContactsMC == {"ann", "bob"}

\* Bob has no VAT id and cannot be reverse-charged.
DetailsMC(c) == IF c = "ann" THEN {"name", "address", "city", "vat_id"} ELSE {"name", "address", "city"}

CompanyMC == {"name", "registration_id", "address", "postal_code", "city", "tax_id", "vat_module"}

\* Rates of Fridays and a Monday; the tenth day after one, and the eleventh.
PublishedMC == 20240119 :> 10875 @@ 20240126 :> 10824 @@ 20240129 :> 10823 @@ 20240223 :> 10834

PayablesMC ==
  {[contact |-> "ann", date |-> 20240131, due |-> 20240131, amount |-> 50],
   [contact |-> "ann", date |-> 20240201, due |-> 20240229, amount |-> 70],
   [contact |-> "bob", date |-> 20240131, due |-> 20240330, amount |-> 20]}

None ==
  [invoices |-> 0, credits |-> 0, payables |-> 0, filings |-> 0, reversals |-> 0, filed |-> {}, lines |-> {}, discounts |-> {},
   contacts |-> {"ann"}, terms |-> {30}, days |-> {20240131}, fyes |-> {1231}, company |-> CompanyMC,
   foreign |-> 0, fxDays |-> {}, fxAmounts |-> {}, fxRates |-> {}]

\* One invoice of every shape.
AmountsScenario ==
  [None EXCEPT !.invoices = 1,
               !.lines = {Plain, Mixed, Thirds, Free, NetsOut, ReverseAnd21},
               !.discounts = {NoDiscount, Percent(1000), Percent(3333), Percent(15000), Fixed(1), Fixed(500), Fixed(-4)}]

\* Two invoices and a credit note, over the end of a quarter and a fiscal year.
BooksScenario ==
  [None EXCEPT !.invoices = 2, !.credits = 1, !.reversals = 1, !.lines = {ReverseAnd21}, !.discounts = {Fixed(1)},
               !.days = {20240131, 20240401}, !.terms = {0}, !.fyes = {229}]

\* Two contacts.
ContactsScenario ==
  [None EXCEPT !.invoices = 2, !.reversals = 2, !.lines = {ReverseTwice, Plain}, !.discounts = {Percent(1000)},
               !.contacts = ContactsMC]

\* Filings are recorded while the days go by.
FilingScenario == [None EXCEPT !.filings = 1, !.filed = FewMC, !.days = DaysMC, !.fyes = {1231, 229, 630}]

PayableScenario == [None EXCEPT !.payables = 3, !.days = DaysMC]

\* Entries in dollars: on a day with a rate, the day after the weekend, days out
\* of the bank's reach; amounts that keep and that lose their balance in euro.
FxScenario ==
  [None EXCEPT !.foreign = 2,
               !.fxDays = {20240128, 20240129, 20240208, 20240209, 20240224},
               !.fxAmounts = {<<1000, -1000>>, <<333, 333, -666>>}, !.fxRates = {11000}]

\* A supplier without a city can send nothing.
UnnamedScenario ==
  [None EXCEPT !.invoices = 1, !.lines = {Plain}, !.discounts = {NoDiscount}, !.company = CompanyMC \ {"city"}]

ScenariosMC == {FxScenario, UnnamedScenario, AmountsScenario, BooksScenario, ContactsScenario, FilingScenario, PayableScenario}

\* What the theorem about amounts assumes of the lines holds of these.
ASSUME ScenariosAssumption == NoGroupBelowZero

==================================================================================
