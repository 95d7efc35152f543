--------------------------------- MODULE MCIntake --------------------------------
(***************************************************************************)
(* What comes into the books from outside: the lines of bank statements    *)
(* and the files of other programs.  A behaviour is about one of the two,  *)
(* and the other stands still.                                             *)
(***************************************************************************)
EXTENDS MCImports, MCBank

VARIABLE part

AllSeen == <<part, Seen, importVars>>

IntakeInit ==
  /\ part \in {"bank", "imports"}
  /\ Init /\ ImportInit
  /\ part # "imports" => limits = PartyScenario

IntakeNext ==
  \/ part = "bank" /\ Next /\ UNCHANGED <<part, importVars>>
  \/ part = "imports" /\ ImportNext /\ UNCHANGED <<part, vars>>

IntakeSpec == IntakeInit /\ [][IntakeNext]_<<part, vars, importVars>>

==================================================================================
