----------------------------------- MODULE Gate -----------------------------------
(***************************************************************************)
(* Who may change the books: the key registry and roles (src/actor.rs,     *)
(* src/actor_cli.rs), the sign gate (src/sign_gate.rs), the capability     *)
(* check (src/authz.rs) and the remote server (src/server.rs).  A command  *)
(* comes in by the command line, an MCP tool call or an envelope a client  *)
(* posted, which may arrive late and more than once.                       *)
(*                                                                         *)
(* A key is the number of the keygen that made it, a nonce the place of    *)
(* its bundle in `signed', the clock counts in halves of the signature     *)
(* window.  A target is written `--for x' or `--target x'.                 *)
(* A refusal changes nothing and is an action that is not enabled          *)
(* or ends the job.  Plans (--dry-run), reports and unsigned audit rows    *)
(* are left out, and so is the end of a session or a token by time (the    *)
(* first is a Lock, the second a token nobody redeems).                    *)
(***************************************************************************)
EXTENDS Integers, Sequences, FiniteSets

CONSTANTS
  Workers,        \* processes, and threads of the server
  Actors,
  Humans,         \* actors whose key file is encrypted
  Roles,
  Holds(_),       \* capabilities of a role
  Scenarios,      \* bounds, one of which a behaviour keeps to
  Nobody,         \* the target of a command without one
  TokenActor,     \* whom enrolment tokens are minted for
  Window,         \* how far a timestamp may be from the clock
  Retention,      \* how long a nonce is remembered
  Skew            \* how far a client's clock may be ahead

\* A role is given to somebody.
Command ==
  {c \in [verb : {"init", "book", "register", "revoke", "enforce on", "enforce off", "authz on", "authz off",
                  "grant", "ungrant"},
          target : Actors \cup {Nobody}, role : Roles \cup {"none"}] :
     c.verb \in {"grant", "ungrant"} => c.target \in Actors /\ c.role \in Roles}

\* What a scenario bounds.
ScenarioOK(s) ==
  /\ s.enrolled \subseteq s.actors /\ s.actors \subseteq Actors
  /\ Cardinality(s.enrolled) <= (IF s.keys = 0 THEN 0 ELSE 1)
  /\ s.local \cup s.posted \subseteq Command
  /\ s.fresh => s.enrolled = {}
  /\ s.keys \in Nat /\ s.signed \in Nat /\ s.ticks \in Nat /\ s.tokens \in Nat

ASSUME GateAssumption ==
  /\ IsFiniteSet(Actors)
  /\ Humans \subseteq Actors /\ TokenActor \in Actors /\ Nobody \notin Actors
  /\ "owner" \in Roles
  /\ Window \in Nat /\ Retention \in Nat /\ Skew \in 0..Window
  /\ Retention >= 2 * Window
  /\ \A s \in Scenarios : ScenarioOK(s)

VARIABLES
  base,       \* the database: "none", "empty" or with its "company"
  registry,   \* actor_keys in order of enrolment
  roles,      \* actor_roles
  enforce,    \* settings.signing_enforce
  authz,      \* settings.authz_mode
  auditLog,      \* signed rows of audit_log
  file,       \* the key file of each actor, 0 is none
  session,    \* the unlocked key of each actor, 0 is none
  nonces,     \* nonces.json
  tokens,     \* server-tokens.json: whether each minted token is used
  signed,     \* every signature made: what it covers, and its key
  sent,       \* bundles a client posts as an envelope
  clock,
  work,       \* what each process is doing
  ran,        \* history: how often each bundle ran as verified
  spent,      \* history: how often each token enrolled a key
  troubled,   \* history: what two processes worked on at once, one died in, or
              \* nobody checked
  bounds      \* the scenario: who acts, who has a key at first (one actor at most),
              \* the commands [verb, target, role] given here, those posted,
              \* how many keys, signatures, ticks and tokens, whether the database
              \* is yet to be made (fresh) and may be locked (busy)

database == <<base, registry, roles, enforce, authz>>
gateVars == <<database, auditLog, file, session, nonces, tokens, signed, sent, clock, work,
          ran, spent, troubled, bounds>>

KeyRow == [actor : Actors, key : 1..bounds.keys, revoked : BOOLEAN]

Bundle == [actor : bounds.actors, cmd : bounds.local \cup bounds.posted, key : 0..bounds.keys,
           ts : 0..bounds.ticks + Skew]

Idle == [at |-> "idle", surface |-> "cli", actor |-> Nobody, cmd |-> [verb |-> "none"],
         bundle |-> 0, enforce |-> FALSE, verified |-> FALSE, key |-> 0, token |-> 0, read |-> << >>]

At(w, where) == work[w].at = where

Go(w, where) == work' = [work EXCEPT ![w].at = where]

Finish(w) == work' = [work EXCEPT ![w] = Idle]

Others(w, where) == {v \in Workers \ {w} : work[v].at \in where}

----------------------------------------------------------------------------------
(* The registry. *)

ActiveKeys(a) == {i \in DOMAIN registry : registry[i].actor = a /\ ~registry[i].revoked}

Latest(rows) == CHOOSE i \in rows : \A j \in rows : j <= i

\* get_actor_key: the latest of the active rows, if there is one.
ActorKey(a) == {i \in ActiveKeys(a) : i = Latest(ActiveKeys(a))}

KeyRows(a) == {i \in DOMAIN registry : registry[i].actor = a}

\* Its latest key is revoked: the actor rotates.
Rotating(a) == KeyRows(a) # {} /\ registry[Latest(KeyRows(a))].revoked

OwnerActors == {a \in Actors : <<a, "owner">> \in roles}

RolesOf(a) == {r \in Roles : <<a, r>> \in roles}

----------------------------------------------------------------------------------
(* check_authz. *)

Capability(c) ==
  IF c.verb = "book" THEN "entry.post" ELSE IF c.verb = "init" THEN "admin.company" ELSE "admin.actor"

CanAct(a, capability) == \E r \in RolesOf(a) : r = "owner" \/ capability \in Holds(r)

\* By the first two words of the command: `actor roles grant' counts as the
\* `actor roles' that lists one's own.
AuthzExempt(c, hasTarget) ==
  c.verb = "register" \/ (c.verb \in {"revoke", "grant", "ungrant"} /\ ~hasTarget)

Authorised(a, c, hasTarget) ==
  IF c.verb = "revoke" /\ hasTarget
  THEN a \in OwnerActors
  ELSE AuthzExempt(c, hasTarget) \/ ~authz \/ CanAct(a, Capability(c))

\* actor can, and actor who-can of everybody with a role or a key.
Can(a, c) == CanAct(a, Capability(c))

WhoCan(c) == {a \in Actors : (RolesOf(a) # {} \/ KeyRows(a) # {}) /\ Can(a, c)}

\* Whether argv names a target; the server does not look.
HasTarget(job) == job.surface = "cli" /\ job.cmd.target # Nobody

----------------------------------------------------------------------------------
(* The key a command is signed with, and the signature. *)

\* resolve_signing_key: 0 is no file, -1 a file nobody unlocked.
Material(a) ==
  IF session[a] # 0 THEN session[a]
  ELSE IF a \in Humans /\ file[a] # 0 THEN -1 ELSE file[a]

\* A client that posts an envelope reads the plain key file only.
RemoteMaterial(a) == IF a \in Humans THEN 0 ELSE file[a]

Sign(a, c, key, ts) == signed' = Append(signed, [actor |-> a, cmd |-> c, key |-> key, ts |-> ts])

Job(at, surface, a, c) ==
  [Idle EXCEPT !.at = at, !.surface = surface, !.actor = a, !.cmd = c, !.enforce = enforce]

Begin(w, job) == At(w, "idle") /\ work' = [work EXCEPT ![w] = job]

\* A command with key material is signed, and then verified like any other.
SignedHere(w, surface, a, c) ==
  /\ base # "none" /\ Material(a) > 0 /\ Len(signed) < bounds.signed
  /\ Sign(a, c, Material(a), clock)
  /\ Begin(w, [Job("verify", surface, a, c) EXCEPT !.bundle = Len(signed) + 1])
  /\ ran' = Append(ran, 0)
  /\ UNCHANGED <<database, auditLog, file, session, nonces, tokens, sent, clock, spent, troubled, bounds>>

SignCommand(w, a, c) == ~(c.verb = "register" /\ Rotating(a)) /\ SignedHere(w, "cli", a, c)

SignToolCall(w, a, c) == SignedHere(w, "mcp", a, c)

\* The command line finds no database, or none it can open: there is nobody to
\* ask, and no mode either.
Unseen == base = "none" \/ bounds.busy

\* It is signed all the same, and counts as verified.
SignUnchecked(w, a, c) ==
  /\ Unseen /\ Material(a) > 0 /\ Len(signed) < bounds.signed
  /\ Sign(a, c, Material(a), clock)
  /\ Begin(w, [Job("run", "cli", a, c) EXCEPT !.bundle = Len(signed) + 1, !.verified = TRUE])
  /\ ran' = Append(ran, 0)
  /\ troubled' = troubled \cup {<<"unchecked", Len(signed) + 1>>}
  /\ UNCHANGED <<database, auditLog, file, session, nonces, tokens, sent, clock, spent, bounds>>

\* Unsigned it runs in record mode; the command line then skips the
\* capability check, and asks for it when only the key file is missing.
RunUnsigned(w, surface, a, c) ==
  /\ surface = "mcp" => base # "none"
  /\ \/ surface = "cli" /\ c.verb = "register" /\ Rotating(a)
     \/ Material(a) <= 0 /\ (~enforce \/ (surface = "cli" /\ Unseen))
     \/ surface = "cli" /\ Material(a) = 0 /\ enforce /\ authz /\ Authorised(a, c, c.target # Nobody)
  /\ Begin(w, Job(IF surface = "mcp" THEN "authorise" ELSE "run", surface, a, c))
  /\ UNCHANGED <<database, auditLog, file, session, nonces, tokens, signed, sent, clock, ran, spent, troubled, bounds>>

\* remote_post: one request on one connection.  Whether it arrives, and when,
\* the client learns from the reply only, and it does not try again.
Post(b) == sent' = sent \cup {b}

\* remote_client_mode: the client signs what it can and posts it.  Its clock
\* may be ahead of the server's.
PostEnvelope(a, c) ==
  /\ c.verb # "register" /\ Len(signed) < bounds.signed
  /\ \E s \in 0..Skew : Sign(a, c, RemoteMaterial(a), clock + s)
  /\ Post(Len(signed) + 1)
  /\ ran' = Append(ran, 0)
  /\ UNCHANGED <<database, auditLog, file, session, nonces, tokens, clock, work, spent, troubled, bounds>>

\* verify_envelope: one without a signature passes in record mode.
Passes(b) == signed[b].key # 0 \/ ~enforce

\* The server takes an envelope, for the first time or again.
Deliver(w, b) ==
  /\ base # "none" /\ b \in sent /\ Passes(b)
  /\ Begin(w, [Job(IF signed[b].key = 0 THEN "run" ELSE "verify", "server", signed[b].actor, signed[b].cmd)
               EXCEPT !.bundle = b])
  /\ troubled' = troubled \cup (IF \E v \in Others(w, {"verify", "remember"}) : work[v].bundle = b
                                THEN {<<"bundle", b>>} ELSE {})
  /\ UNCHANGED <<database, auditLog, file, session, nonces, tokens, signed, sent, clock, ran, spent, bounds>>

----------------------------------------------------------------------------------
(* verify_signature_bundle. *)

Stale(b) == signed[b].ts > clock + Window \/ signed[b].ts < clock - Window

NonceUsed(b, key) == \E n \in nonces : n.bundle = b /\ signed[b].key = key

\* A bundle the registry cannot confirm: record mode runs it as unsigned.
Tolerated(b, rows) ==
  \/ rows = {}
  \/ Stale(b)
  \/ \E i \in rows : registry[i].key # signed[b].key /\ ~NonceUsed(b, registry[i].key)

Confirmed(b, rows) ==
  ~Stale(b) /\ \E i \in rows : registry[i].key = signed[b].key /\ ~NonceUsed(b, registry[i].key)

VerifyBundle(w) ==
  LET b == work[w].bundle
      rows == ActorKey(work[w].actor)
  IN  /\ At(w, "verify")
      /\ IF Confirmed(b, rows) THEN Go(w, "remember")
         ELSE IF Tolerated(b, rows) /\ ~work[w].enforce THEN Go(w, "authorise") ELSE Finish(w)
      /\ UNCHANGED <<database, auditLog, file, session, nonces, tokens, signed, sent, clock, ran, spent, troubled, bounds>>

\* Faulty: nonces are kept as long as a timestamp may be off, not longer.
KeptTooShort == {n \in nonces : n.at >= clock - Window}

KeptNonces == {n \in nonces : n.at >= clock - Retention}

RememberNonce(w) ==
  /\ At(w, "remember")
  /\ nonces' = KeptNonces \cup {[bundle |-> work[w].bundle, at |-> clock]}
  /\ work' = [work EXCEPT ![w].at = "authorise", ![w].verified = TRUE]
  /\ UNCHANGED <<database, auditLog, file, session, tokens, signed, sent, clock, ran, spent, troubled, bounds>>

Authorise(w) ==
  /\ At(w, "authorise")
  /\ IF (work[w].surface = "server" /\ ~authz) \/ Authorised(work[w].actor, work[w].cmd, HasTarget(work[w]))
     THEN Go(w, "run") ELSE Finish(w)
  /\ UNCHANGED <<database, auditLog, file, session, nonces, tokens, signed, sent, clock, ran, spent, troubled, bounds>>

----------------------------------------------------------------------------------
(* The handlers.  Each statement is a transaction of its own; the audit row *)
(* is written right after the last.                                        *)

\* record: the row of a remote command says verified whenever its envelope
\* was signed.
RecordSigned(w) ==
  LET job == work[w]
      stamped == job.verified \/ (job.surface = "server" /\ job.bundle # 0 /\ signed[job.bundle].key # 0)
  IN  /\ auditLog' = IF stamped
                  THEN auditLog \cup {[bundle |-> job.bundle, actor |-> job.actor, cmd |-> job.cmd,
                                    checked |-> job.verified]}
                  ELSE auditLog
      /\ ran' = IF job.verified THEN [ran EXCEPT ![job.bundle] = @ + 1] ELSE ran

Performs(w, verb) == At(w, "run") /\ work[w].cmd.verb = verb /\ base # "none"

\* open_db makes the file that is not there: in a command about actors, in init,
\* in the MCP server or the remote one.
OpenEmpty ==
  /\ base = "none" /\ base' = "empty"
  /\ UNCHANGED <<registry, roles, enforce, authz, auditLog, file, session, nonces, tokens, signed, sent, clock, work,
                 ran, spent, troubled, bounds>>

\* open_existing: NO_DATABASE.
NoDatabase(w) ==
  /\ At(w, "run") /\ work[w].cmd.verb = "book" /\ base = "none"
  /\ Finish(w)
  /\ UNCHANGED <<database, auditLog, file, session, nonces, tokens, signed, sent, clock, ran, spent, troubled, bounds>>

\* cmd_init: the one row of company.
InitCompany(w) ==
  /\ Performs(w, "init") /\ Finish(w)
  /\ IF base = "company" THEN UNCHANGED <<base, auditLog, ran>>
     ELSE base' = "company" /\ RecordSigned(w)
  /\ UNCHANGED <<registry, roles, enforce, authz, file, session, nonces, tokens, signed, sent, clock, spent, troubled, bounds>>

BookEntry(w) ==
  /\ Performs(w, "book")
  /\ RecordSigned(w) /\ Finish(w)
  /\ UNCHANGED <<database, file, session, nonces, tokens, signed, sent, clock, spent, troubled, bounds>>

\* cmd_register, and enrol_actor's look for an active key.
Register(w) ==
  LET a == work[w].actor
  IN  /\ Performs(w, "register")
      /\ IF file[a] = 0 \/ ActiveKeys(a) # {}
         THEN Finish(w) /\ UNCHANGED troubled
         ELSE /\ work' = [work EXCEPT ![w].at = "enrol", ![w].key = file[a]]
              /\ troubled' = troubled \cup (IF \E v \in Others(w, {"enrol"}) : work[v].actor = a
                                            THEN {<<"actor", a>>} ELSE {})
      /\ UNCHANGED <<database, auditLog, file, session, nonces, tokens, signed, sent, clock, ran, spent, bounds>>

\* Faulty: the new row replaces those of the actor.
EnrolledOver(a, k) ==
  Append(SelectSeq(registry, LAMBDA r : r.actor # a), [actor |-> a, key |-> k, revoked |-> FALSE])

Enrolled(a, k) == Append(registry, [actor |-> a, key |-> k, revoked |-> FALSE])

\* The INSERT, which the primary key may refuse.
Enrol(w) ==
  LET a == work[w].actor
      k == work[w].key
  IN  /\ At(w, "enrol")
      /\ Finish(w)
      /\ IF \E i \in KeyRows(a) : registry[i].key = k
         THEN UNCHANGED <<registry, auditLog, ran, spent>>
         ELSE /\ registry' = Enrolled(a, k)
              /\ RecordSigned(w)
              /\ spent' = IF work[w].token = 0 THEN spent ELSE [spent EXCEPT ![work[w].token] = @ + 1]
      /\ UNCHANGED <<base, roles, enforce, authz, file, session, nonces, tokens, signed, sent, clock, troubled, bounds>>

\* revoke_actor_reason: the active key, if there is one.
Revoke(who) ==
  \E i \in ActorKey(who) : registry' = [registry EXCEPT ![i].revoked = TRUE]

\* Of the caller's own key or another's.
RevokeKey(w) ==
  LET who == IF work[w].cmd.target = Nobody THEN work[w].actor ELSE work[w].cmd.target
  IN  /\ Performs(w, "revoke")
      /\ Finish(w)
      /\ \/ Revoke(who) /\ RecordSigned(w)
         \/ ActiveKeys(who) = {} /\ UNCHANGED <<registry, auditLog, ran>>
      /\ UNCHANGED <<base, roles, enforce, authz, file, session, nonces, tokens, signed, sent, clock, spent, troubled, bounds>>

SetEnforce(w) ==
  /\ Performs(w, "enforce on") \/ Performs(w, "enforce off")
  /\ enforce' = (work[w].cmd.verb = "enforce on")
  /\ RecordSigned(w) /\ Finish(w)
  /\ UNCHANGED <<base, registry, roles, authz, file, session, nonces, tokens, signed, sent, clock, spent, troubled, bounds>>

\* cmd_authz: on sets two settings and then grants the flipper owner.
AuthzOn(w) ==
  /\ Performs(w, "authz on")
  /\ authz' = TRUE
  /\ Go(w, "imply")
  /\ UNCHANGED <<base, registry, roles, enforce, auditLog, file, session, nonces, tokens, signed, sent, clock, ran, spent, troubled, bounds>>

ImplyEnforce(w) ==
  /\ At(w, "imply")
  /\ enforce' = TRUE
  /\ Go(w, "own")
  /\ UNCHANGED <<base, registry, roles, authz, auditLog, file, session, nonces, tokens, signed, sent, clock, ran, spent, troubled, bounds>>

Grant(a, r) == roles' = roles \cup {<<a, r>>}

OwnFlipper(w) ==
  /\ At(w, "own")
  /\ Grant(work[w].actor, "owner")
  /\ RecordSigned(w) /\ Finish(w)
  /\ UNCHANGED <<base, registry, enforce, authz, file, session, nonces, tokens, signed, sent, clock, spent, troubled, bounds>>

AuthzOff(w) ==
  /\ Performs(w, "authz off")
  /\ authz' = FALSE
  /\ RecordSigned(w) /\ Finish(w)
  /\ UNCHANGED <<base, registry, roles, enforce, file, session, nonces, tokens, signed, sent, clock, spent, troubled, bounds>>

GrantRole(w) ==
  /\ Performs(w, "grant")
  /\ Grant(work[w].cmd.target, work[w].cmd.role)
  /\ RecordSigned(w) /\ Finish(w)
  /\ UNCHANGED <<base, registry, enforce, authz, file, session, nonces, tokens, signed, sent, clock, spent, troubled, bounds>>

\* Faulty: an owner may go as long as there is one.
LastOwnerOnly(r) == r = "owner" /\ Cardinality(OwnerActors) <= 0

LastOwner(r) == r = "owner" /\ Cardinality(OwnerActors) <= 1

\* revoke_role counts ...
RevokeRole(w) ==
  LET c == work[w].cmd
  IN  /\ Performs(w, "ungrant")
      /\ IF <<c.target, c.role>> \notin roles \/ LastOwner(c.role)
         THEN Finish(w) /\ UNCHANGED troubled
         ELSE /\ Go(w, "unrole")
              /\ troubled' = troubled \cup (IF \E v \in Others(w, {"unrole"}) : c.role = "owner" /\ work[v].cmd.role = "owner"
                                            THEN {<<"owners", 0>>} ELSE {})
      /\ UNCHANGED <<database, auditLog, file, session, nonces, tokens, signed, sent, clock, ran, spent, bounds>>

\* ... and then deletes.
DeleteRole(w) ==
  /\ At(w, "unrole")
  /\ roles' = roles \ {<<work[w].cmd.target, work[w].cmd.role>>}
  /\ RecordSigned(w) /\ Finish(w)
  /\ UNCHANGED <<base, registry, enforce, authz, file, session, nonces, tokens, signed, sent, clock, spent, troubled, bounds>>

----------------------------------------------------------------------------------
(* Enrolment tokens: the file is read whole and written back whole. *)

TokenStep == {"mint", "spend"}

MeetsToken(w) == IF Others(w, TokenStep) = {} THEN {} ELSE {<<"tokens", 0>>}

MintToken(w) ==
  /\ Len(tokens) < bounds.tokens
  /\ Begin(w, [Job("mint", "server", TokenActor, [verb |-> "none"]) EXCEPT !.read = tokens])
  /\ troubled' = troubled \cup MeetsToken(w)
  /\ UNCHANGED <<database, auditLog, file, session, nonces, tokens, signed, sent, clock, ran, spent, bounds>>

WriteMinted(w) ==
  /\ At(w, "mint")
  /\ tokens' = Append(work[w].read, FALSE)
  /\ spent' = IF Len(tokens') > Len(spent) THEN Append(spent, 0) ELSE spent
  /\ Finish(w)
  /\ UNCHANGED <<database, auditLog, file, session, nonces, signed, sent, clock, ran, troubled, bounds>>

\* actor register --server: a client can only use a plain key file.
MayEnrolFrom(a) == RemoteMaterial(a) # 0

\* consume_enrol_token reads: the token is known and unused.
RedeemToken(w, t) ==
  /\ base # "none" /\ t \in DOMAIN tokens /\ ~tokens[t]
  /\ MayEnrolFrom(TokenActor)
  /\ Begin(w, [Job("spend", "server", TokenActor, [verb |-> "register", target |-> Nobody, role |-> "none"])
               EXCEPT !.read = tokens, !.token = t])
  /\ troubled' = troubled \cup MeetsToken(w)
  /\ UNCHANGED <<database, auditLog, file, session, nonces, tokens, signed, sent, clock, ran, spent, bounds>>

\* Faulty: the file is written back as it was read.
NotYetUsed(read, t) == read

Used(read, t) == [read EXCEPT ![t] = TRUE]

\* It is spent before the enrolment, whatever comes of that.
SpendToken(w) ==
  /\ At(w, "spend")
  /\ tokens' = Used(work[w].read, work[w].token)
  /\ work' = [work EXCEPT ![w].at = "run", ![w].read = << >>]
  /\ UNCHANGED <<database, auditLog, file, session, nonces, signed, sent, clock, ran, spent, troubled, bounds>>

----------------------------------------------------------------------------------
(* Keys on the machine, the clock, and a process that dies. *)

Keygen(a) ==
  /\ file[a] < bounds.keys
  /\ file' = [file EXCEPT ![a] = @ + 1]
  /\ UNCHANGED <<database, auditLog, session, nonces, tokens, signed, sent, clock, work, ran, spent, troubled, bounds>>

Unlock(a) ==
  /\ a \in Humans /\ file[a] # 0
  /\ session' = [session EXCEPT ![a] = file[a]]
  /\ UNCHANGED <<database, auditLog, file, nonces, tokens, signed, sent, clock, work, ran, spent, troubled, bounds>>

Lock(a) ==
  /\ session[a] # 0
  /\ session' = [session EXCEPT ![a] = 0]
  /\ UNCHANGED <<database, auditLog, file, nonces, tokens, signed, sent, clock, work, ran, spent, troubled, bounds>>

Tick ==
  /\ clock < bounds.ticks
  /\ clock' = clock + 1
  /\ UNCHANGED <<database, auditLog, file, session, nonces, tokens, signed, sent, work, ran, spent, troubled, bounds>>

\* A process dies; one that was turning authorisation on leaves it without
\* the owner it was to grant.
Die(w) ==
  /\ ~At(w, "idle")
  /\ Finish(w)
  /\ troubled' = troubled \cup (IF work[w].at \in {"imply", "own"} THEN {<<"owners", 0>>} ELSE {})
  /\ UNCHANGED <<database, auditLog, file, session, nonces, tokens, signed, sent, clock, ran, spent, bounds>>

----------------------------------------------------------------------------------

GateInit ==
  /\ bounds \in Scenarios
  /\ base = IF bounds.fresh THEN "none" ELSE "company"
  /\ registry = [i \in 1..Cardinality(bounds.enrolled) |->
                   [actor |-> CHOOSE a \in bounds.enrolled : TRUE, key |-> 1, revoked |-> FALSE]]
  /\ file = [a \in Actors |-> IF a \in bounds.enrolled THEN 1 ELSE 0]
  /\ roles = {} /\ enforce = FALSE /\ authz = FALSE
  /\ auditLog = {} /\ nonces = {} /\ tokens = << >> /\ signed = << >> /\ sent = {} /\ clock = 0
  /\ session = [a \in Actors |-> 0]
  /\ work = [w \in Workers |-> Idle]
  /\ ran = << >> /\ spent = << >> /\ troubled = {}

GateNext ==
  \/ \E w \in Workers, a \in bounds.actors, c \in bounds.local, surface \in {"cli", "mcp"} :
       /\ surface = "mcp" => c.verb = "book"
       /\ RunUnsigned(w, surface, a, c)
  \/ \E w \in Workers, a \in bounds.actors, c \in bounds.local :
       SignCommand(w, a, c) \/ SignUnchecked(w, a, c) \/ (c.verb = "book" /\ SignToolCall(w, a, c))
  \/ \E a \in bounds.actors, c \in bounds.posted : PostEnvelope(a, c)
  \/ \E w \in Workers, b \in sent : Deliver(w, b)
  \/ \E w \in Workers : VerifyBundle(w) \/ RememberNonce(w) \/ Authorise(w)
  \/ OpenEmpty
  \/ \E w \in Workers : NoDatabase(w) \/ InitCompany(w)
  \/ \E w \in Workers : BookEntry(w) \/ Register(w) \/ Enrol(w) \/ RevokeKey(w) \/ SetEnforce(w)
  \/ \E w \in Workers : AuthzOn(w) \/ ImplyEnforce(w) \/ OwnFlipper(w) \/ AuthzOff(w)
  \/ \E w \in Workers : GrantRole(w) \/ RevokeRole(w) \/ DeleteRole(w)
  \/ \E w \in Workers : MintToken(w) \/ WriteMinted(w) \/ SpendToken(w)
  \/ \E w \in Workers, t \in DOMAIN tokens : RedeemToken(w, t)
  \/ \E a \in bounds.actors : Keygen(a) \/ Unlock(a) \/ Lock(a)
  \/ Tick
  \/ \E w \in Workers : Die(w)

GateSpec == GateInit /\ [][GateNext]_gateVars

----------------------------------------------------------------------------------
(* audit verify. *)

\* build_digest: sorted by name, so it covers what is done to whom.  (Lists are
\* sorted too: the order of what is in one is not covered.)
Digest(actor, cmd) == <<actor, cmd.verb, cmd.target, cmd.role>>

\* classify_row, of a row that is not unsigned.
Classify(r) ==
  LET b == signed[r.bundle]
      rows == {i \in KeyRows(b.actor) : registry[i].key = b.key}
  IN  IF Digest(r.actor, r.cmd) # Digest(b.actor, b.cmd) THEN "tampered"
      ELSE IF rows = {} THEN "unknown-key"
      ELSE IF \A i \in rows : registry[i].revoked THEN "revoked" ELSE "ok"

\* verify_trail: what each row of the trail is.
Trail == {[row |-> r, status |-> Classify(r)] : r \in auditLog}

----------------------------------------------------------------------------------
(* Properties. *)

\* Types; an actor's key has one row, whatever becomes of it.
GateTypeOK ==
  /\ base \in {"none", "empty", "company"}
  /\ registry \in Seq(KeyRow)
  /\ \A i, j \in DOMAIN registry :
       registry[i].actor = registry[j].actor /\ registry[i].key = registry[j].key => i = j
  /\ roles \subseteq Actors \X Roles
  /\ signed \in Seq(Bundle) /\ sent \subseteq DOMAIN signed
  /\ \A n \in nonces : n.bundle \in DOMAIN signed /\ n.at \in 0..clock
  /\ \A r \in auditLog : r.bundle \in DOMAIN signed
  /\ tokens \in Seq(BOOLEAN) /\ Len(tokens) <= Len(spent)
  /\ \A a \in Actors : session[a] \in 0..file[a] /\ file[a] \in 0..bounds.keys
  /\ DOMAIN ran = DOMAIN signed

\* While roles decide, someone can turn them off again: who-can names somebody,
\* unless two owners were revoked at once or `authz on' died before it granted
\* one (revoke_role, cmd_authz).
OwnerRemains ==
  (authz /\ <<"owners", 0>> \notin troubled) =>
    \/ WhoCan([verb |-> "authz off", target |-> Nobody, role |-> "none"]) # {}
    \/ \E w \in Workers : work[w].at \in {"imply", "own"}

\* A signature runs one command: an envelope that arrives again, late, early
\* or after other nonces were dropped is refused or not taken for verified,
\* unless two copies were under verification at once.
RunsOnce == \A b \in DOMAIN ran : ran[b] <= 1 \/ <<"bundle", b>> \in troubled

\* The trail stays provable: what the gate verified is ok for ever, or revoked,
\* however keys were rotated since (enrol_actor, classify_row).  A command that
\* was signed without a database to ask, like the one that makes it, counts as
\* verified too, and may be of a key nobody enrolled.
TrailVerifies ==
  \A t \in Trail :
    t.row.checked => \/ t.status \in {"ok", "revoked"}
                     \/ t.status = "unknown-key" /\ <<"unchecked", t.row.bundle>> \in troubled

\* An actor has one active key and a token enrols one, unless two enrolments
\* of the actor, or two uses of the token file, overlapped.
EnrolledOnce ==
  /\ \A a \in Actors : Cardinality(ActiveKeys(a)) <= 1 \/ <<"actor", a>> \in troubled
  /\ \A t \in DOMAIN spent : spent[t] <= 1 \/ <<"tokens", 0>> \in troubled

===================================================================================
