-------------------------------- MODULE MCDatabase --------------------------------
(***************************************************************************)
(* The database as everybody finds it: the gate in front of it, the files  *)
(* it and its documents are in, and the migrations at every start.  A      *)
(* behaviour is about one of the three, and the others stand still.        *)
(***************************************************************************)
EXTENDS Gate, MCMigrations, Store, TLC

CONSTANTS agent, human, w1, w2, d1, k1

\* The gate: an agent and a human, one of whom makes a second key.
MCHolds(r) == IF r = "bookkeeper" THEN {"entry.post"} ELSE {}

C(verb, target, role) == [verb |-> verb, target |-> target, role |-> role]

Plain(verbs) == {C(v, Nobody, "none") : v \in verbs}

Bounds(who, enrolled, local, posted, keys, signatures, ticks, many) ==
  [actors |-> who, enrolled |-> enrolled, local |-> local, posted |-> posted,
   keys |-> keys, signed |-> signatures, ticks |-> ticks, tokens |-> many,
   fresh |-> FALSE, busy |-> FALSE]

OwnersScenario ==
  Bounds({agent, human}, {},
         Plain({"authz on", "authz off"}) \cup
           {C("grant", human, "owner"), C("ungrant", human, "owner"), C("ungrant", agent, "owner")},
         {}, 0, 0, 0, 0)

ReplayScenario == Bounds({agent}, {agent}, {}, Plain({"book", "enforce on"}), 1, 2, 2, 0)

RotationScenario == Bounds({human}, {}, Plain({"register", "revoke", "book"}), {}, 2, 2, 0, 0)

TokenScenario == Bounds({agent}, {}, Plain({"revoke"}), {}, 2, 0, 0, 2)

\* The agent posts changes of roles while the human is the only owner.
RemoteScenario ==
  Bounds({agent, human}, {agent}, Plain({"authz on"}),
         {C("grant", agent, "owner"), C("ungrant", human, "owner"), C("ungrant", agent, "owner")}, 1, 2, 0, 0)

\* No database yet, and one that may be locked.
FreshScenario ==
  [Bounds({agent}, {}, Plain({"init", "register", "book"}), {}, 2, 2, 0, 0) EXCEPT !.fresh = TRUE, !.busy = TRUE]

MCScenarios ==
  {OwnersScenario, ReplayScenario, RotationScenario, TokenScenario, RemoteScenario, FreshScenario}

Scope(rows, contents, archived, users, mortal) ==
  [rows |-> rows, contents |-> contents, copies |-> archived, users |-> users, mortal |-> mortal]

\* Two processes and two attachments; two processes, backups and restores; one
\* process and everything.
ScopesMC ==
  {Scope(2, 1, 0, {1, 2}, {1}), Scope(0, 2, 3, {1, 2}, {1}), Scope(1, 2, 2, {1}, {1})}

Standing == Scope(2, 1, 0, {1, 2}, {1})

Symmetry == Permutations({w1, w2})

VARIABLE part

DatabaseInit ==
  /\ part \in {"gate", "files", "schema"}
  /\ GateInit /\ StoreInit /\ MigrationInit
  /\ part # "gate" => bounds = TokenScenario
  /\ part # "files" => past.scope = Standing

DatabaseNext ==
  \/ part = "gate" /\ GateNext /\ UNCHANGED <<part, storeVars, migrationVars>>
  \/ part = "files" /\ StoreNext /\ UNCHANGED <<part, gateVars, migrationVars>>
  \/ part = "schema" /\ MigrationNext /\ UNCHANGED <<part, gateVars, storeVars>>

DatabaseSpec == DatabaseInit /\ [][DatabaseNext]_<<part, gateVars, storeVars, migrationVars>>

===================================================================================
