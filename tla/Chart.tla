---------------------------------- MODULE Chart ----------------------------------
(***************************************************************************)
(* The chart of accounts (src/accounts.rs): the roles by which the engine  *)
(* finds the account it posts to when nobody names one, the taxonomy code  *)
(* guessed for an account, and what creating, importing and renaming an    *)
(* account does to both.  A chart is a function from codes to accounts.    *)
(*                                                                         *)
(* Of a name only the keywords in it matter.  The normal balance is left   *)
(* out: a CHECK ties it to the type.                                       *)
(***************************************************************************)
EXTENDS Integers, Sequences, SequencesExt, FiniteSetsExt

CONSTANTS
  Codes,       \* account codes, ordered
  Words(_),    \* the keyword families found in a name
  NoRole       \* accounts.role is NULL

Types == {"asset", "liability", "equity", "income", "expense"}

\* VALID_ROLES, in order of priority.
Roles == <<"debtors", "creditors", "bank", "revenue", "vat_liability", "equity">>

ASSUME ChartAssumption ==
  /\ Codes \subseteq Nat \ {0}
  /\ \A k \in DOMAIN Roles : Roles[k] # NoRole

RoleType(role) ==
  CASE role \in {"debtors", "bank"} -> "asset"
    [] role \in {"creditors", "vat_liability"} -> "liability"
    [] role = "revenue" -> "income"
    [] OTHER -> "equity"

MatchesRole(type, name, role) == type = RoleType(role) /\ role \in Words(name)

InferRole(type, name) ==
  LET matching == {k \in DOMAIN Roles : MatchesRole(type, name, Roles[k])}
  IN  IF matching = {} THEN NoRole ELSE Roles[Min(matching)]

\* The keywords of a type with their codes, the first found decides.
RgsTable(type) ==
  CASE type = "income"  -> << <<"service", "WOVB.82">>, <<"sales", "WOMZ.80">> >>
    [] type = "expense" -> << <<"purchase", "WKPR.70">>, <<"staff", "WPER.40">>,
                              <<"depreciation", "WAFS.41">>, <<"finance", "WFBE.84">> >>
    [] type = "asset"   -> << <<"liquid", "BLIM.10">>, <<"claim", "BVOR.11">>, <<"stock", "BVRD.30">> >>
    [] OTHER            -> << >>

RgsFallback(type) ==
  CASE type = "income" -> "WOVB.82" [] type = "expense" -> "WBED.42" [] type = "asset" -> "BMVA.02"
    [] type = "liability" -> "BSCH.12" [] OTHER -> "BEIV.05"

InferRgs(type, name) ==
  LET found == SelectSeq(RgsTable(type), LAMBDA line : line[1] \in Words(name))
  IN  IF found = << >> THEN RgsFallback(type) ELSE Head(found)[2]

----------------------------------------------------------------------------------
(* Roles in a chart ch. *)

\* The unique index counts inactive accounts too.
Holders(ch, role) == {c \in DOMAIN ch : ch[c].role = role}

Matching(ch, role) == {c \in DOMAIN ch : ch[c].active /\ MatchesRole(ch[c].type, ch[c].name, role)}

\* resolve_special: the flagged account, the profile's default if it is that
\* kind of account (active or not), the first that is, the default.
ResolveSpecial(ch, role, default) ==
  LET flagged == {c \in Holders(ch, role) : ch[c].active}
      looksRight == default \in DOMAIN ch /\ MatchesRole(ch[default].type, ch[default].name, role)
  IN  IF flagged # {} THEN Min(flagged)
      ELSE IF looksRight \/ Matching(ch, role) = {} THEN default
      ELSE Min(Matching(ch, role))

MayHold(ch, code, role) == Holders(ch, role) \subseteq {code}

\* A free role goes to the first match, unless that has a role already.  Each
\* role is a statement of its own.
AssignFreeRole(ch, role) ==
  LET first == Min(Matching(ch, role))
  IN  IF Holders(ch, role) = {} /\ Matching(ch, role) # {} /\ ch[first].role = NoRole
      THEN [ch EXCEPT ![first].role = role] ELSE ch

----------------------------------------------------------------------------------
(* Writing accounts. *)

CreateAccount(ch, code, name, type, rgs) ==
  LET role == InferRole(type, name)
      account == [name |-> name, type |-> type, rgs |-> rgs, active |-> TRUE,
                  role |-> IF Holders(ch, role) = {} THEN role ELSE NoRole]
  IN  [c \in DOMAIN ch \cup {code} |-> IF c = code THEN account ELSE ch[c]]

\* A row of a chart CSV: a code that exists is reported and skipped, and the
\* other rows go on.
ImportRow(ch, row) ==
  IF row.code \in DOMAIN ch THEN ch
  ELSE CreateAccount(ch, row.code, row.name, row.type, InferRgs(row.type, row.name))

\* seed_default_chart.
SeedChart(ch, profile) ==
  LET seeded[k \in 0 .. Len(profile)] == IF k = 0 THEN ch ELSE ImportRow(seeded[k - 1], profile[k])
  IN  seeded[Len(profile)]

\* sync_account_from_file gives an account another meaning ...
Renamed(ch, code, name, type) ==
  [ch EXCEPT ![code] = [@ EXCEPT !.name = name, !.type = type, !.rgs = InferRgs(type, name)]]

\* Faulty: the account keeps a role its new name does not justify.
StillFlagged(ch, code) == ch

\* ... and in another statement takes its role away, whichever that is by then.
Unflagged(ch, code) == [ch EXCEPT ![code].role = NoRole]

==================================================================================
