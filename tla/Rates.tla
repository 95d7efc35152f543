----------------------------------- MODULE Rates -----------------------------------
(***************************************************************************)
(* Foreign currency (src/fx.rs): the rates stored per day, the European     *)
(* Central Bank's rates fetched when none is stored, and entries whose      *)
(* amounts are given in the currency and booked in euro.  One currency; a   *)
(* rate is units of it to the euro, times 10000; an entry is the list of    *)
(* its amounts.                                                            *)
(***************************************************************************)
EXTENDS Calendar, FiniteSetsExt, Sequences

CONSTANTS
  Published   \* external: the bank's rate by the day it is published for

ASSUME RatesAssumption ==
  /\ IsFiniteSet(DOMAIN Published) /\ DOMAIN Published \subseteq Nat
  /\ \A d \in DOMAIN Published : IsDate(d) /\ Published[d] \in Nat \ {0}

VARIABLES
  rates,     \* fx_rates: the stored rate by day
  foreign,   \* entries booked in the currency: [date, auto, rate, amounts, eur]
  setByHand  \* history: somebody used `fx set'

ratesVars == <<rates, foreign, setByHand>>

RatesTypeOK ==
  /\ \A d \in DOMAIN rates : IsDate(d) /\ rates[d] \in Nat \ {0}
  /\ \A e \in foreign : e.eur \in Seq(Int \ {0}) /\ e.amounts \in Seq(Int) /\ e.auto \in BOOLEAN
  /\ setByHand \in BOOLEAN

RatesInit == rates = << >> /\ foreign = {} /\ setByHand = FALSE

\* convert_fx: (cents * 10000 / rate).round().
Convert(cents, rate) ==
  LET size == IF cents < 0 THEN -cents ELSE cents
      half == (20000 * size + rate) \div (2 * rate)
  IN  IF cents < 0 THEN -half ELSE half

\* The observations fetch_ecb_rate asks for: ten days up to the date.
Observations(date) ==
  {d \in DOMAIN Published : d <= date /\ DayNumber(date) - DayNumber(d) <= 10}

\* get_fx_rate takes the exact day, else the latest one before.
Known(date) == {d \in DOMAIN rates : d <= date}

\* set_fx_rate: a row by day.
Stored(date, rate) == [d \in DOMAIN rates \cup {date} |-> IF d = date THEN rate ELSE rates[d]]

SetRate(date, rate) ==
  /\ IsDate(date)
  /\ rate > 0
  /\ rates' = Stored(date, rate)
  /\ setByHand' = TRUE
  /\ UNCHANGED foreign

\* resolve_rate without --rate: what is used, and what the store then holds.
Resolvable(date) == Known(date) # {} \/ Observations(date) # {}

Resolved(date) ==
  IF Known(date) # {} THEN rates[Max(Known(date))] ELSE Published[Max(Observations(date))]

AfterResolving(date) ==
  IF Known(date) # {} THEN rates
  ELSE LET seen == Max(Observations(date)) IN Stored(seen, Published[seen])

\* to_eur_postings: every amount by itself, so a balanced list may lose its balance.
InEuro(amounts, rate) == [k \in DOMAIN amounts |-> Convert(amounts[k], rate)]

Acceptable(eur) ==
  /\ MapThenSumSet(LAMBDA k : eur[k], DOMAIN eur) = 0
  /\ \A k \in DOMAIN eur : eur[k] # 0

BookAt(date, amounts, rate, auto) ==
  foreign' = IF Acceptable(InEuro(amounts, rate))
               THEN foreign \cup {[date |-> date, auto |-> auto, rate |-> rate,
                                   amounts |-> amounts, eur |-> InEuro(amounts, rate)]}
               ELSE foreign

\* entry add --currency: a fetched rate is stored before the entry is looked at.
BookForeign(date, amounts) ==
  /\ Resolvable(date)
  /\ rates' = AfterResolving(date)
  /\ BookAt(date, amounts, Resolved(date), TRUE)
  /\ UNCHANGED setByHand

\* entry add --currency --rate.
BookForeignAt(date, amounts, rate) ==
  /\ rate > 0
  /\ BookAt(date, amounts, rate, FALSE)
  /\ UNCHANGED <<rates, setByHand>>

(***************************************************************************)
(* A day has one rate: entries of the same day that name none are booked    *)
(* at the same, in whatever order days were asked for and stored, as long   *)
(* as nobody sets one by hand, and a dry run, which stores nothing, tells   *)
(* what is booked (README, `entry add --currency': one call ever per        *)
(* currency and date, CHANGELOG: a dry run no longer stores rates).         *)
(***************************************************************************)
OneRateADay ==
  ~setByHand =>
    /\ \A e, f \in foreign : e.auto /\ f.auto /\ e.date = f.date => e.rate = f.rate
    /\ \A e \in foreign : e.auto => Resolvable(e.date) /\ Resolved(e.date) = e.rate

====================================================================================
