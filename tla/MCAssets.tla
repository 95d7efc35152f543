-------------------------------- MODULE MCAssets --------------------------------
(***************************************************************************)
(* Assets with a linear asset whose price does not divide evenly, with an  *)
(* account for its depreciation, a declining one taken over in mid-life    *)
(* that depreciates on its own account, and one the module takes over as   *)
(* fully depreciated.                                                      *)
(***************************************************************************)
EXTENDS Assets, TLC

CONSTANTS w1, w2

MCSchemeNames == {"default", "declining"}

MCScheme(s) ==
  IF s = "default" THEN [method |-> "lineair", life_months |-> 3, residual_bp |-> 0]
                   ELSE [method |-> "degressief", life_months |-> 4, residual_bp |-> 1000]

MCAccounts == {"1800", "1890", "4600", "bank", "result"}

MCAccountType(code) ==
  CASE code \in {"1800", "1890", "bank"} -> "asset" [] code = "4600" -> "expense" [] OTHER -> "income"

Laptop == [by |-> "default", scheme |-> "default", residual |-> NoOverride, price |-> 10,
           purchase |-> 2, start |-> 2, recognition |-> 3, recognised |-> 0,
           asset |-> "1800", cum |-> "1890", expense |-> "4600"]

Van == [by |-> "inline", scheme |-> "declining", residual |-> NoOverride, price |-> 20,
        purchase |-> 1, start |-> 2, recognition |-> 4, recognised |-> 7,
        asset |-> "1800", cum |-> "none", expense |-> "4600"]

Old == [Laptop EXCEPT !.by = "id", !.recognition = 9, !.recognised = 6]

MCRequests == {Laptop, Van, Old}

Symmetry == Permutations({w1, w2})

==================================================================================
