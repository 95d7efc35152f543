-------------------------------- MODULE BankProofs --------------------------------
(***************************************************************************)
(* Proofs about Bank, for any number of processes, lines, invoices and     *)
(* statements.                                                             *)
(***************************************************************************)
EXTENDS Bank, SequenceTheorems, FiniteSetTheorems, TLAPS

(***************************************************************************)
(* The inductive invariant.  First the types of what the processes hold.   *)
(***************************************************************************)
JobRow == [at : {"idle", "create", "post", "mark", "link", "auto"}, line : Nat, entry : Nat,
           queue : SUBSET Nat, links : SUBSET LinkRow, pays : Seq(PayRow)]

ReconRow == [line : Nat, type : {"entry", "invoice"}, target : Nat, by : {"post", "link", "auto"}]

LineRow == [hash : Hashes, state : {"unmatched", "matched", "ignored"}]

\* Automatic matching gives each line one match, and each target to one line.
PlanOK(job) ==
  /\ \A m, n \in job.links : m.line = n.line \/ m.entry = n.entry => m = n
  /\ \A j, k \in DOMAIN job.pays :
       job.pays[j].line = job.pays[k].line \/ job.pays[j].invoice = job.pays[k].invoice => j = k
  /\ \A m \in job.links : m.line \notin job.queue
  /\ \A k \in DOMAIN job.pays : job.pays[k].line \notin job.queue
  /\ \A m \in job.links, k \in DOMAIN job.pays : m.line # job.pays[k].line

JobOK(w) ==
  /\ LinesOf(work[w]) \subseteq Lines
  /\ work[w].at \in {"post", "mark", "link"} => work[w].entry \in Ids
  /\ At(w, "idle") => work[w] = Idle
  /\ work[w].at \in {"create", "post", "mark", "link"} => LinesOf(work[w]) = {work[w].line}
  /\ At(w, "auto") => work[w].line = 0
  /\ \A m \in work[w].links : m.entry \in Ids
  /\ PlanOK(work[w])

JobsOK ==
  /\ work \in [Workers -> JobRow]
  /\ recon \subseteq ReconRow
  /\ \A w \in Workers : JobOK(w)

Types == TypeOK /\ JobsOK

RefsOK == \A e \in Ids : entries[e].source = "bank" => entries[e].ref \in Lines

\* A line an invoice was paid with stays matched unless a person reopens it.
PaidMatched == \A r \in recon : r.type = "invoice" /\ r.line \notin reopened => lines[r.line].state = "matched"

(***************************************************************************)
(* Then what holds of a line as long as one command at a time works on it. *)
(***************************************************************************)
MadeFrom(e, i) == entries[e].source = "bank" /\ entries[e].ref = i

\* The process that books line i, and its entry.
Books(w, i, e) == work[w].at \in {"post", "mark"} /\ work[w].line = i /\ work[w].entry = e

WorksOn(w, i) == i \in LinesOf(work[w])

CalmOK(i) ==
  /\ \A w, v \in Workers : WorksOn(w, i) /\ WorksOn(v, i) => w = v
  /\ \A w \in Workers : WorksOn(w, i) => lines[i].state = "unmatched"
  /\ lines[i].state = "matched" => \E r \in recon : r.line = i /\ \A q \in recon : q.line = i => q = r
  /\ lines[i].state # "matched" => \A r \in recon : r.line # i
  /\ \A e \in Ids : MadeFrom(e, i) => lines[i].state = "matched" \/ \E w \in Workers : Books(w, i, e)
  /\ \A e, f \in Ids : MadeFrom(e, i) /\ MadeFrom(f, i) => e = f

\* Only one process matches such lines automatically, and no entry it chose is
\* given to another of them.
Matches(w, i) == At(w, "auto") /\ WorksOn(w, i)

Claimed(e) == \E r \in recon : r.type = "entry" /\ r.by = "auto" /\ r.line \in Calm /\ r.target = e

OneMatcher ==
  /\ \A w, v \in Workers : \A i, j \in Calm : Matches(w, i) /\ Matches(v, j) => w = v
  /\ \A w \in Workers : \A m \in work[w].links : At(w, "auto") /\ m.line \in Calm => ~Claimed(m.entry)

IInv ==
  /\ Types /\ RefsOK
  /\ PaidMatched /\ PaysOnce
  /\ \A i \in Calm : CalmOK(i)
  /\ OneMatcher /\ ClaimedOnce

----------------------------------------------------------------------------------
(* What the steps do to the work. *)

OthersKept(w) == \A v \in Workers : v # w => work'[v] = work[v]

LEMMA AppendFacts ==
  ASSUME NEW S, NEW s \in Seq(S), NEW m \in S, NEW t, t = Append(s, m)
  PROVE  /\ t \in Seq(S)
         /\ DOMAIN t = DOMAIN s \cup {Len(s) + 1} /\ Len(s) + 1 \notin DOMAIN s /\ Len(s) \in Nat
         /\ \A j \in DOMAIN s : t[j] = s[j]
         /\ t[Len(s) + 1] = m
  <1>1. DOMAIN s = 1 .. Len(s) /\ Len(s) \in Nat
    BY LenProperties
  <1>2. t \in Seq(S) /\ Len(t) = Len(s) + 1 /\ (\A j \in 1 .. Len(s) : t[j] = s[j]) /\ t[Len(s) + 1] = m
    BY AppendProperties
  <1>3. DOMAIN t = 1 .. Len(t)
    BY <1>2, LenProperties
  <1>4. DOMAIN t = DOMAIN s \cup {Len(s) + 1} /\ Len(s) + 1 \notin DOMAIN s
    BY <1>1, <1>2, <1>3
  <1>5. QED
    BY <1>1, <1>2, <1>4

LEMMA IdleFacts ==
  /\ Idle \in JobRow /\ Idle.at = "idle" /\ Idle.line = 0 /\ LinesOf(Idle) = {}
  /\ Idle.links = {} /\ Idle.pays = << >> /\ Idle.queue = {} /\ PlanOK(Idle)
  BY DEF Idle, JobRow, LinesOf, PlanOK

LEMMA TypeFacts ==
  ASSUME Types
  PROVE  /\ Ids = 1..LastId /\ LastId \in Nat /\ \A e \in Ids : entries[e] \in EntryRow
         /\ Lines = 1..Len(lines) /\ Len(lines) \in Nat /\ \A i \in Lines : i # 0 /\ i \in Nat
         /\ lines \in Seq(LineRow) /\ \A i \in Lines : lines[i] \in LineRow /\ AmountOf(i) \in Int
         /\ \A w \in Workers : work[w] \in JobRow /\ LinesOf(work[w]) \subseteq Lines
         /\ \A r \in recon : r \in ReconRow /\ r.line \in Lines
  <1>1. entries \in Seq(EntryRow) /\ work \in [Workers -> JobRow] /\ recon \subseteq ReconRow
    BY DEF Types, TypeOK, JobsOK
  <1>2. lines \in Seq(LineRow)
    BY DEF Types, TypeOK, LineRow
  <1>3. Ids = 1..LastId /\ LastId \in Nat /\ \A e \in Ids : entries[e] \in EntryRow
    BY <1>1 DEF Ids, LastId
  <1>4. Lines = 1..Len(lines) /\ Len(lines) \in Nat
    BY <1>2 DEF Lines
  <1>5. \A i \in Lines : lines[i] \in LineRow
    BY <1>2, <1>4
  <1>6. \A i \in Lines : AmountOf(i) \in Int
    BY <1>5, BankAssumption DEF AmountOf, LineRow
  <1>7. \A i \in Lines : i # 0 /\ i \in Nat
    BY <1>4
  <1>8. \A w \in Workers : LinesOf(work[w]) \subseteq Lines
    BY DEF Types, TypeOK
  <1>9. \A r \in recon : r.line \in Lines
    BY DEF Types, TypeOK
  <1>10. QED
    BY <1>1, <1>2, <1>3, <1>4, <1>5, <1>6, <1>7, <1>8, <1>9

LEMMA GoDoes ==
  ASSUME Types, NEW w \in Workers, NEW job \in JobRow, Go(w, job)
  PROVE  /\ work'[w] = job /\ OthersKept(w) /\ work' \in [Workers -> JobRow]
         /\ reopened' = reopened /\ troubled' = troubled
  BY DEF Go, OthersKept, Types, JobsOK

LEMMA StartDoes ==
  ASSUME Types, NEW w \in Workers, NEW job \in JobRow, Start(w, job)
  PROVE  /\ work'[w] = job /\ OthersKept(w) /\ work' \in [Workers -> JobRow]
         /\ work[w] = Idle /\ LinesOf(work[w]) = {}
         /\ reopened' = reopened /\ troubled' = troubled \cup Contended(LinesOf(job))
  BY IdleFacts DEF Start, OthersKept, Types, JobsOK, JobOK, At

\* The jobs that are begun.
LEMMA JobOfBooking ==
  ASSUME NEW i \in Nat \ {0}
  PROVE  \E job \in JobRow :
           /\ job = [Idle EXCEPT !.at = "create", !.line = i]
           /\ job.at = "create" /\ job.line = i /\ LinesOf(job) = {i} /\ job.links = {} /\ PlanOK(job)
  <1>1. PICK k, job : k = Idle /\ job = [k EXCEPT !.at = "create", !.line = i]
    OBVIOUS
  <1>2. k \in JobRow /\ k.links = {} /\ k.pays = << >> /\ k.queue = {}
    BY <1>1, IdleFacts
  <1>3. job \in JobRow
    BY <1>1, <1>2 DEF JobRow
  <1>4. job.at = "create" /\ job.line = i /\ job.links = {} /\ job.pays = << >> /\ job.queue = {}
    BY <1>1, <1>2 DEF JobRow
  <1>5. LinesOf(job) = {i} /\ PlanOK(job)
    BY <1>4 DEF LinesOf, PlanOK
  <1>6. QED
    BY <1>1, <1>3, <1>4, <1>5

LEMMA JobOfLink ==
  ASSUME NEW i \in Nat \ {0}, NEW e \in Nat
  PROVE  \E job \in JobRow :
           /\ job = [Idle EXCEPT !.at = "link", !.line = i, !.entry = e]
           /\ job.at = "link" /\ job.line = i /\ job.entry = e /\ LinesOf(job) = {i}
           /\ job.links = {} /\ PlanOK(job)
  <1>1. PICK k, job : k = Idle /\ job = [k EXCEPT !.at = "link", !.line = i, !.entry = e]
    OBVIOUS
  <1>2. k \in JobRow /\ k.links = {} /\ k.pays = << >> /\ k.queue = {}
    BY <1>1, IdleFacts
  <1>3. job \in JobRow
    BY <1>1, <1>2 DEF JobRow
  <1>4. /\ job.at = "link" /\ job.line = i /\ job.entry = e
        /\ job.links = {} /\ job.pays = << >> /\ job.queue = {}
    BY <1>1, <1>2 DEF JobRow
  <1>5. LinesOf(job) = {i} /\ PlanOK(job)
    BY <1>4 DEF LinesOf, PlanOK
  <1>6. QED
    BY <1>1, <1>3, <1>4, <1>5

LEMMA JobOfMatching ==
  ASSUME NEW S \in SUBSET (Nat \ {0})
  PROVE  \E job \in JobRow :
           /\ job = [Idle EXCEPT !.at = "auto", !.queue = S]
           /\ job.at = "auto" /\ job.line = 0 /\ LinesOf(job) = S /\ job.links = {} /\ PlanOK(job)
  <1>1. PICK k, job : k = Idle /\ job = [k EXCEPT !.at = "auto", !.queue = S]
    OBVIOUS
  <1>2. k \in JobRow /\ k.links = {} /\ k.pays = << >> /\ k.queue = {} /\ k.line = 0
    BY <1>1, IdleFacts
  <1>3. job \in JobRow
    BY <1>1, <1>2 DEF JobRow
  <1>4. job.at = "auto" /\ job.line = 0 /\ job.links = {} /\ job.pays = << >> /\ job.queue = S
    BY <1>1, <1>2 DEF JobRow
  <1>5. LinesOf(job) = S /\ PlanOK(job)
    BY <1>4 DEF LinesOf, PlanOK
  <1>6. QED
    BY <1>1, <1>3, <1>4, <1>5

\* The next step of a booking keeps its line, and has no plan.
LEMMA NextJobs ==
  ASSUME NEW k \in JobRow, NEW e \in Nat, PlanOK(k)
  PROVE  /\ \E job \in JobRow :
              /\ job = [k EXCEPT !.at = "post", !.entry = e]
              /\ job.at = "post" /\ job.line = k.line /\ job.entry = e /\ LinesOf(job) = LinesOf(k)
              /\ job.links = k.links /\ PlanOK(job)
         /\ \E job \in JobRow :
              /\ job = [k EXCEPT !.at = "mark"]
              /\ job.at = "mark" /\ job.line = k.line /\ job.entry = k.entry /\ LinesOf(job) = LinesOf(k)
              /\ job.links = k.links /\ PlanOK(job)
  <1>1. PICK job : job = [k EXCEPT !.at = "post", !.entry = e]
    OBVIOUS
  <1>2. job \in JobRow
    BY <1>1 DEF JobRow
  <1>3. /\ job.at = "post" /\ job.line = k.line /\ job.entry = e
        /\ job.queue = k.queue /\ job.links = k.links /\ job.pays = k.pays
    BY <1>1 DEF JobRow
  <1>4. LinesOf(job) = LinesOf(k) /\ PlanOK(job)
    BY <1>3 DEF LinesOf, PlanOK
  <1>5. PICK mark : mark = [k EXCEPT !.at = "mark"]
    OBVIOUS
  <1>6. mark \in JobRow
    BY <1>5 DEF JobRow
  <1>7. /\ mark.at = "mark" /\ mark.line = k.line /\ mark.entry = k.entry
        /\ mark.queue = k.queue /\ mark.links = k.links /\ mark.pays = k.pays
    BY <1>5 DEF JobRow
  <1>8. LinesOf(mark) = LinesOf(k) /\ PlanOK(mark)
    BY <1>7 DEF LinesOf, PlanOK
  <1>9. QED
    BY <1>1, <1>2, <1>3, <1>4, <1>5, <1>6, <1>7, <1>8

\* A line of the queue is given an entry, an invoice, or nothing.
SetAside(k, i, rest) ==
  /\ rest.at = k.at /\ rest.line = k.line /\ rest.links = k.links /\ rest.pays = k.pays
  /\ rest.queue = k.queue \ {i}

LEMMA JobWithoutLine ==
  ASSUME NEW k \in JobRow, PlanOK(k), NEW i \in k.queue
  PROVE  \E job \in JobRow :
           /\ job = [k EXCEPT !.queue = @ \ {i}]
           /\ SetAside(k, i, job) /\ LinesOf(job) \subseteq LinesOf(k)
           /\ PlanOK(job)
  <1>1. PICK job : job = [k EXCEPT !.queue = @ \ {i}]
    OBVIOUS
  <1>2. job \in JobRow
    BY <1>1 DEF JobRow
  <1>3. /\ job.at = k.at /\ job.line = k.line /\ job.links = k.links /\ job.pays = k.pays
        /\ job.queue = k.queue \ {i}
    BY <1>1 DEF JobRow
  <1>4. PlanOK(job)
    BY <1>3 DEF PlanOK
  <1>5. LinesOf(job) \subseteq LinesOf(k)
    BY <1>3 DEF LinesOf
  <1>6. QED
    BY <1>1, <1>2, <1>3, <1>4, <1>5 DEF SetAside

LEMMA JobWithLink ==
  ASSUME NEW k \in JobRow, PlanOK(k), NEW i \in k.queue, NEW e \in Nat, \A m \in k.links : m.entry # e,
         NEW rest \in JobRow, SetAside(k, i, rest)
  PROVE  \E job \in JobRow :
           /\ job = [rest EXCEPT !.links = @ \cup {[line |-> i, entry |-> e]}]
           /\ job.at = k.at /\ job.line = k.line /\ LinesOf(job) = LinesOf(k)
           /\ job.links = k.links \cup {[line |-> i, entry |-> e]}
           /\ PlanOK(job)
  <1>1. PICK r \in JobRow :
          /\ r = rest /\ r.at = k.at /\ r.line = k.line /\ r.links = k.links /\ r.pays = k.pays
          /\ r.queue = k.queue \ {i}
    BY DEF SetAside
  <1>2. PICK m : m = [line |-> i, entry |-> e]
    OBVIOUS
  <1>3. m \in LinkRow /\ m.line = i /\ m.entry = e
    BY <1>2 DEF LinkRow, JobRow
  <1>4. PICK job : job = [r EXCEPT !.links = @ \cup {m}]
    OBVIOUS
  <1>5. job \in JobRow
    BY <1>3, <1>4 DEF JobRow
  <1>6. /\ job.at = k.at /\ job.line = k.line /\ job.links = k.links \cup {m} /\ job.pays = k.pays
        /\ job.queue = k.queue \ {i}
    BY <1>1, <1>4 DEF JobRow
  <1>7. \A n \in k.links : n.line # i /\ n.entry # e
    BY DEF PlanOK
  <1>8. \A j \in DOMAIN k.pays : k.pays[j].line # i
    BY DEF PlanOK
  <1>9. PlanOK(job)
    BY <1>3, <1>6, <1>7, <1>8 DEF PlanOK
  <1>10. LinesOf(job) = LinesOf(k)
    BY <1>3, <1>6 DEF LinesOf
  <1>11. QED
    BY <1>1, <1>2, <1>4, <1>5, <1>6, <1>9, <1>10

LEMMA JobWithPay ==
  ASSUME NEW k \in JobRow, PlanOK(k), NEW i \in k.queue, NEW v \in Nat,
         \A j \in DOMAIN k.pays : k.pays[j].invoice # v,
         NEW rest \in JobRow, SetAside(k, i, rest)
  PROVE  \E job \in JobRow :
           /\ job = [rest EXCEPT !.pays = Append(@, [line |-> i, invoice |-> v])]
           /\ job.at = k.at /\ job.line = k.line /\ LinesOf(job) = LinesOf(k)
           /\ job.links = k.links
           /\ PlanOK(job)
  <1>1. PICK r \in JobRow :
          /\ r = rest /\ r.at = k.at /\ r.line = k.line /\ r.links = k.links /\ r.pays = k.pays
          /\ r.queue = k.queue \ {i}
    BY DEF SetAside
  <1>2. PICK m : m = [line |-> i, invoice |-> v]
    OBVIOUS
  <1>3. m \in PayRow /\ m.line = i /\ m.invoice = v
    BY <1>2 DEF PayRow, JobRow
  <1>4. PICK job : job = [r EXCEPT !.pays = Append(@, m)]
    OBVIOUS
  <1>5. k.pays \in Seq(PayRow)
    BY DEF JobRow
  <1>6. PICK s : s = Append(k.pays, m)
    OBVIOUS
  <1>7. /\ s \in Seq(PayRow)
        /\ DOMAIN s = DOMAIN k.pays \cup {Len(k.pays) + 1} /\ Len(k.pays) + 1 \notin DOMAIN k.pays
        /\ \A j \in DOMAIN k.pays : s[j] = k.pays[j]
        /\ s[Len(k.pays) + 1] = m
    BY <1>3, <1>5, <1>6, AppendFacts
  <1>8. job = [r EXCEPT !.pays = s]
    BY <1>1, <1>4, <1>6
  <1>9. job \in JobRow
    BY <1>7, <1>8 DEF JobRow
  <1>10. /\ job.at = k.at /\ job.line = k.line /\ job.links = k.links /\ job.pays = s
         /\ job.queue = k.queue \ {i}
    BY <1>1, <1>8 DEF JobRow
  <1>11. \A n \in k.links : n.line # i
    BY DEF PlanOK
  <1>12. \A j \in DOMAIN k.pays : k.pays[j].line # i /\ k.pays[j].invoice # v
    BY DEF PlanOK
  <1>13. PlanOK(job)
    <2> DEFINE n == Len(k.pays) + 1
    <2>1. DOMAIN s = DOMAIN k.pays \cup {n} /\ s[n].line = i /\ s[n].invoice = v
      BY <1>3, <1>7
    <2>2. \A j \in DOMAIN k.pays : s[j] = k.pays[j]
      BY <1>7
    <2> HIDE DEF n
    <2>3. QED
      BY <1>10, <1>11, <1>12, <2>1, <2>2 DEF PlanOK
  <1>14. {s[j].line : j \in DOMAIN s} = {k.pays[j].line : j \in DOMAIN k.pays} \cup {i}
    <2> DEFINE n == Len(k.pays) + 1
    <2>1. DOMAIN s = DOMAIN k.pays \cup {n} /\ s[n].line = i
      BY <1>3, <1>7
    <2>2. \A j \in DOMAIN k.pays : s[j] = k.pays[j]
      BY <1>7
    <2> HIDE DEF n
    <2>3. QED
      BY <2>1, <2>2
  <1>15. LinesOf(job) = LinesOf(k)
    <2>1. i \in k.queue /\ job.queue \cup {i} = k.queue
      BY <1>10
    <2>2. LinesOf(k) = ({k.line} \ {0}) \cup k.queue \cup {n.line : n \in k.links}
                         \cup {k.pays[j].line : j \in DOMAIN k.pays}
      BY DEF LinesOf
    <2>3. LinesOf(job) = ({k.line} \ {0}) \cup job.queue \cup {n.line : n \in k.links}
                           \cup {s[j].line : j \in DOMAIN s}
      BY <1>10 DEF LinesOf
    <2>4. QED
      BY <1>10, <1>14, <2>1, <2>2, <2>3
  <1>16. QED
    BY <1>1, <1>2, <1>4, <1>9, <1>10, <1>13, <1>15

----------------------------------------------------------------------------------
(* Type correctness. *)

LEMMA JobsKept ==
  ASSUME Types, Lines \subseteq Lines', Ids \subseteq Ids', NEW v \in Workers, work'[v] = work[v]
  PROVE  JobOK(v)'
  BY DEF Types, JobsOK, JobOK, At

LEMMA TypesStep ==
  ASSUME Types, lines' \in Seq(LineRow), entries' \in Seq(EntryRow), open' \subseteq open,
         Lines \subseteq Lines', Ids \subseteq Ids',
         work' \in [Workers -> JobRow], \A v \in Workers : JobOK(v)',
         \A r \in recon' : \/ r \in recon
                           \/ /\ r \in ReconRow /\ r.line \in Lines'
                              /\ IF r.type = "entry" THEN r.target \in Ids' ELSE r.target \in DOMAIN Owed \ open',
         reopened' \subseteq Lines', troubled' \subseteq Lines'
  PROVE  Types'
  <1>1. open' \subseteq DOMAIN Owed
    BY DEF Types, TypeOK
  <1>2. ASSUME NEW r \in recon'
        PROVE  /\ r \in ReconRow /\ r.line \in Lines' /\ r.by \in {"post", "link", "auto"}
               /\ IF r.type = "entry" THEN r.target \in Ids' ELSE r.target \in DOMAIN Owed \ open'
    <2>1. CASE r \in recon
      BY <2>1 DEF Types, TypeOK, JobsOK, ReconRow
    <2>2. CASE r \notin recon
      BY <1>2, <2>2 DEF ReconRow
    <2>3. QED
      BY <2>1, <2>2
  <1>3. ASSUME NEW v \in Workers
        PROVE  /\ work'[v].at \in {"idle", "create", "post", "mark", "link", "auto"}
               /\ work'[v].links \subseteq LinkRow /\ work'[v].pays \in Seq(PayRow)
               /\ LinesOf(work'[v]) \subseteq Lines'
               /\ work'[v].at \in {"post", "mark", "link"} => work'[v].entry \in Ids'
    <2>1. work'[v] \in JobRow
      OBVIOUS
    <2>2. /\ work'[v].at \in {"idle", "create", "post", "mark", "link", "auto"}
          /\ work'[v].links \subseteq LinkRow /\ work'[v].pays \in Seq(PayRow)
      BY <2>1 DEF JobRow
    <2>3. /\ LinesOf(work'[v]) \subseteq Lines'
          /\ work'[v].at \in {"post", "mark", "link"} => work'[v].entry \in Ids'
      BY DEF JobOK
    <2>4. QED
      BY <2>2, <2>3
  <1>4. TypeOK'
    BY <1>1, <1>2, <1>3 DEF TypeOK, LineRow
  <1>5. JobsOK'
    BY <1>2 DEF JobsOK
  <1>6. QED
    BY <1>4, <1>5 DEF Types

LEMMA InitTypes == ASSUME Init PROVE Types /\ RefsOK
  <1>1. lines = << >> /\ entries = << >> /\ Lines = {} /\ Ids = {} /\ recon = {} /\ open = DOMAIN Owed
    BY DEF Init, Lines, Ids
  <1>2. \A w \in Workers : work[w] = Idle
    BY DEF Init
  <1>3. work \in [Workers -> JobRow]
    BY <1>2, IdleFacts DEF Init
  <1>4. \A w \in Workers : JobOK(w)
    BY <1>2, IdleFacts DEF JobOK
  <1>5. \A w \in Workers : /\ work[w].at \in {"idle", "create", "post", "mark", "link", "auto"}
                           /\ work[w].links \subseteq LinkRow /\ work[w].pays \in Seq(PayRow)
                           /\ LinesOf(work[w]) \subseteq Lines
                           /\ work[w].at \in {"post", "mark", "link"} => work[w].entry \in Ids
    BY <1>2, IdleFacts, EmptySeq
  <1>6. TypeOK
    BY <1>1, <1>5 DEF Init, TypeOK
  <1>7. QED
    BY <1>1, <1>3, <1>4, <1>6 DEF Types, JobsOK, RefsOK

LEMMA TypesStutter == ASSUME IInv, UNCHANGED vars PROVE IInv'
  BY DEF IInv, Types, TypeOK, JobsOK, JobOK, RefsOK, PaidMatched, PaysOnce, CalmOK, OneMatcher, ClaimedOnce,
         vars, Lines, Ids, At, Calm, Claimed, Matches, WorksOn, Books, MadeFrom

----------------------------------------------------------------------------------
(* What each step writes. *)

\* A process begins with unmatched lines; those another works on are troubled.
Starts(w) ==
  /\ OthersKept(w) /\ work[w] = Idle /\ JobOK(w)' /\ work' \in [Workers -> JobRow]
  /\ \A i \in LinesOf(work'[w]) : lines[i].state = "unmatched"
  /\ At(w, "auto")' => LinesOf(work'[w]) = Unmatched
  /\ work'[w].links = {}
  /\ troubled' = troubled \cup Contended(LinesOf(work'[w]))
  /\ UNCHANGED <<lines, entries, open, recon, reopened>>

LEMMA StartWrites ==
  ASSUME IInv, NEW w \in Workers
  PROVE  /\ \A i \in Lines : BookLine(w, i) => Starts(w)
         /\ \A i \in Lines, e \in Ids : Link(w, i, e) => Starts(w)
         /\ AutoMatch(w) => Starts(w)
  <1> USE DEF IInv
  <1>1. ASSUME NEW i \in Lines, BookLine(w, i) PROVE Starts(w)
    <2>1. PICK job \in JobRow :
            /\ job = [Idle EXCEPT !.at = "create", !.line = i]
            /\ job.at = "create" /\ job.line = i /\ LinesOf(job) = {i} /\ job.links = {} /\ PlanOK(job)
      BY TypeFacts, JobOfBooking
    <2>2. Start(w, job) /\ UNCHANGED <<lines, entries, open, recon>> /\ lines[i].state = "unmatched"
      BY <1>1, <2>1 DEF BookLine, MayBook
    <2>3. work'[w] = job /\ Ids' = Ids /\ Lines' = Lines
      BY <2>2, StartDoes DEF Ids, Lines
    <2>4. JobOK(w)'
      BY <2>1, <2>3 DEF JobOK, At
    <2>5. QED
      BY <2>1, <2>2, <2>3, <2>4, StartDoes DEF Starts, At
  <1>2. ASSUME NEW i \in Lines, NEW e \in Ids, Link(w, i, e) PROVE Starts(w)
    <2>1. PICK job \in JobRow :
            /\ job = [Idle EXCEPT !.at = "link", !.line = i, !.entry = e]
            /\ job.at = "link" /\ job.line = i /\ job.entry = e /\ LinesOf(job) = {i}
            /\ job.links = {} /\ PlanOK(job)
      <3>1. i \in Nat \ {0} /\ e \in Nat
        BY TypeFacts
      <3>2. QED
        BY <3>1, JobOfLink
    <2>2. Start(w, job) /\ UNCHANGED <<lines, entries, open, recon>> /\ lines[i].state = "unmatched"
      BY <1>2, <2>1 DEF Link
    <2>3. work'[w] = job /\ Ids' = Ids /\ Lines' = Lines
      BY <2>2, StartDoes DEF Ids, Lines
    <2>4. JobOK(w)'
      BY <2>1, <2>3 DEF JobOK, At
    <2>5. QED
      BY <2>1, <2>2, <2>3, <2>4, StartDoes DEF Starts, At
  <1>3. ASSUME AutoMatch(w) PROVE Starts(w)
    <2>0. Unmatched \in SUBSET (Nat \ {0}) /\ Unmatched \subseteq Lines
      BY TypeFacts DEF Unmatched
    <2>1. PICK job \in JobRow :
            /\ job = [Idle EXCEPT !.at = "auto", !.queue = Unmatched]
            /\ job.at = "auto" /\ job.line = 0 /\ LinesOf(job) = Unmatched /\ job.links = {} /\ PlanOK(job)
      BY <2>0, JobOfMatching
    <2>2. Start(w, job) /\ UNCHANGED <<lines, entries, open, recon>>
      BY <1>3, <2>1 DEF AutoMatch
    <2>3. work'[w] = job /\ Ids' = Ids /\ Lines' = Lines
      BY <2>2, StartDoes DEF Ids, Lines
    <2>4. JobOK(w)'
      BY <2>0, <2>1, <2>3 DEF JobOK, At
    <2>5. \A i \in LinesOf(job) : lines[i].state = "unmatched"
      BY <2>1 DEF Unmatched
    <2>6. QED
      BY <2>1, <2>2, <2>3, <2>4, <2>5, StartDoes DEF Starts, At
  <1>4. QED
    BY <1>1, <1>2, <1>3

\* A row more in the journal.
Adds(row) ==
  /\ entries' \in Seq(EntryRow) /\ row \in EntryRow
  /\ Ids' = Ids \cup {LastId + 1} /\ LastId + 1 \notin Ids
  /\ \A e \in Ids : entries'[e] = entries[e]
  /\ entries'[LastId + 1] = row

LEMMA AppendAdds ==
  ASSUME Types, NEW row \in EntryRow, entries' = Append(entries, row)
  PROVE  Adds(row)
  <1>1. entries \in Seq(EntryRow)
    BY DEF Types, TypeOK
  <1>2. QED
    BY <1>1, AppendFacts DEF Adds, Ids, LastId

Creates(w) ==
  /\ OthersKept(w) /\ work' \in [Workers -> JobRow] /\ At(w, "create")
  /\ At(w, "post")' /\ work'[w].line = work[w].line /\ work'[w].entry = LastId + 1
  /\ LinesOf(work'[w]) = LinesOf(work[w]) /\ work'[w].links = work[w].links /\ PlanOK(work'[w])
  /\ \E row : Adds(row) /\ row.source = "bank" /\ row.ref = work[w].line
  /\ UNCHANGED <<lines, open, recon, reopened, troubled>>

LEMMA CreateWrites ==
  ASSUME IInv, NEW w \in Workers, CreateEntry(w)
  PROVE  Creates(w)
  <1>0. Types /\ JobOK(w)
    BY DEF IInv, Types, JobsOK
  <1>1. /\ work[w] \in JobRow /\ LastId + 1 \in Nat /\ At(w, "create")
        /\ work[w].line \in Lines /\ work[w].line \in Nat /\ AmountOf(work[w].line) \in Int
    BY <1>0, TypeFacts DEF CreateEntry, JobOK, At
  <1>2. PICK job \in JobRow :
          /\ job = [work[w] EXCEPT !.at = "post", !.entry = LastId + 1]
          /\ job.at = "post" /\ job.line = work[w].line /\ job.entry = LastId + 1
          /\ LinesOf(job) = LinesOf(work[w]) /\ job.links = work[w].links /\ PlanOK(job)
    <2>1. PICK k \in JobRow, n \in Nat : k = work[w] /\ n = LastId + 1
      BY <1>1
    <2>2. PlanOK(k)
      BY <1>0, <2>1 DEF JobOK
    <2>3. PICK job \in JobRow :
            /\ job = [k EXCEPT !.at = "post", !.entry = n]
            /\ job.at = "post" /\ job.line = k.line /\ job.entry = n /\ LinesOf(job) = LinesOf(k)
            /\ job.links = k.links /\ PlanOK(job)
      BY <2>2, NextJobs
    <2>4. QED
      BY <2>1, <2>3
  <1>3. Go(w, job) /\ UNCHANGED <<lines, open, recon>>
    BY <1>2 DEF CreateEntry
  <1>4. PICK row : row = [state |-> "draft", postings |-> AmountOf(work[w].line), source |-> "bank",
                          ref |-> work[w].line, reversedFrom |-> 0]
    OBVIOUS
  <1>5. row \in EntryRow /\ row.source = "bank" /\ row.ref = work[w].line
    BY <1>1, <1>4 DEF EntryRow
  <1>6. entries' = Append(entries, row)
    BY <1>4 DEF CreateEntry, InsertDraft
  <1>7. Adds(row)
    BY <1>0, <1>5, <1>6, AppendAdds
  <1>8. QED
    BY <1>0, <1>1, <1>2, <1>3, <1>5, <1>7, GoDoes DEF Creates, At

Posts(w) ==
  /\ OthersKept(w) /\ work' \in [Workers -> JobRow] /\ At(w, "post")
  /\ At(w, "mark")' /\ work'[w].line = work[w].line /\ work'[w].entry = work[w].entry
  /\ LinesOf(work'[w]) = LinesOf(work[w]) /\ work'[w].links = work[w].links /\ PlanOK(work'[w])
  /\ entries' \in Seq(EntryRow) /\ Ids' = Ids
  /\ \A e \in Ids : entries'[e].source = entries[e].source /\ entries'[e].ref = entries[e].ref
  /\ UNCHANGED <<lines, open, recon, reopened, troubled>>

LEMMA PostWrites ==
  ASSUME IInv, NEW w \in Workers, PostEntry(w)
  PROVE  Posts(w)
  <1>0. Types /\ JobOK(w)
    BY DEF IInv, Types, JobsOK
  <1>1. /\ work[w] \in JobRow /\ At(w, "post") /\ work[w].entry \in Ids
        /\ work[w].entry \in Nat
    BY <1>0, TypeFacts DEF PostEntry, JobOK, At
  <1>2. PICK job \in JobRow :
          /\ job = [work[w] EXCEPT !.at = "mark"]
          /\ job.at = "mark" /\ job.line = work[w].line /\ job.entry = work[w].entry
          /\ LinesOf(job) = LinesOf(work[w]) /\ job.links = work[w].links /\ PlanOK(job)
    BY <1>0, <1>1, NextJobs DEF JobOK
  <1>3. Go(w, job) /\ UNCHANGED <<lines, open, recon>>
    BY <1>2 DEF PostEntry
  <1>4. PICK e \in Ids : e = work[w].entry
    BY <1>1
  <1>5. entries' = [entries EXCEPT ![e].state = "posted"]
    BY <1>4 DEF PostEntry, MarkPosted
  <1>6. PICK old \in EntryRow : old = entries[e]
    BY <1>0, TypeFacts
  <1>7. PICK row : row = [old EXCEPT !.state = "posted"]
    OBVIOUS
  <1>8. row \in EntryRow /\ row.source = old.source /\ row.ref = old.ref
    BY <1>7 DEF EntryRow
  <1>9. entries' = [entries EXCEPT ![e] = row] /\ entries \in Seq(EntryRow)
    BY <1>0, <1>5, <1>6, <1>7 DEF Types, TypeOK
  <1>10. /\ entries' \in Seq(EntryRow) /\ Ids' = Ids
         /\ \A f \in Ids : entries'[f] = IF f = e THEN row ELSE entries[f]
    BY <1>8, <1>9 DEF Ids
  <1>11. \A f \in Ids : entries'[f].source = entries[f].source /\ entries'[f].ref = entries[f].ref
    BY <1>6, <1>8, <1>10
  <1>12. QED
    BY <1>0, <1>1, <1>2, <1>3, <1>10, <1>11, GoDoes DEF Posts, At

\* The line is reconciled by hand with an entry.
Reconciles(w) ==
  /\ OthersKept(w) /\ work' \in [Workers -> JobRow] /\ work[w].at \in {"mark", "link"} /\ work'[w] = Idle
  /\ lines' \in Seq(LineRow) /\ Lines' = Lines
  /\ lines'[work[w].line].state = "matched"
  /\ \A i \in Lines : i # work[w].line => lines'[i] = lines[i]
  /\ \E r \in ReconRow : /\ r.line = work[w].line /\ r.type = "entry" /\ r.target = work[w].entry
                         /\ r.by \in {"post", "link"} /\ recon' = recon \cup {r}
  /\ UNCHANGED <<entries, open, reopened, troubled>>

LEMMA ReconcileWrites ==
  ASSUME IInv, NEW w \in Workers, MarkMatched(w) \/ WriteLink(w)
  PROVE  Reconciles(w)
  <1>0. Types /\ JobOK(w)
    BY DEF IInv, Types, JobsOK
  <1>1. PICK by \in {"post", "link"} :
          /\ Reconcile(work[w].line, work[w].entry, by) /\ work[w].at \in {"mark", "link"} /\ Go(w, Idle)
          /\ UNCHANGED <<entries, open>>
    BY DEF MarkMatched, WriteLink, At
  <1>2. /\ work[w] \in JobRow /\ work[w].line \in Lines /\ work[w].line \in Nat
        /\ work[w].entry \in Nat
    <2>1. work[w] \in JobRow /\ LinesOf(work[w]) = {work[w].line} /\ LinesOf(work[w]) \subseteq Lines
      BY <1>0, <1>1, TypeFacts DEF JobOK
    <2>2. QED
      BY <2>1 DEF JobRow
  <1>3. PICK i \in Lines : i = work[w].line
    BY <1>2
  <1>4. PICK old \in LineRow : old = lines[i]
    BY <1>0, TypeFacts
  <1>5. PICK row : row = [old EXCEPT !.state = "matched"]
    OBVIOUS
  <1>6. row \in LineRow /\ row.state = "matched"
    BY <1>5 DEF LineRow
  <1>7. lines' = [lines EXCEPT ![i] = row] /\ lines \in Seq(LineRow)
    BY <1>0, <1>1, <1>3, <1>4, <1>5, TypeFacts DEF Reconcile
  <1>8. /\ lines' \in Seq(LineRow) /\ Lines' = Lines
        /\ \A j \in Lines : lines'[j] = IF j = i THEN row ELSE lines[j]
    BY <1>6, <1>7 DEF Lines
  <1>9. PICK r : r = [line |-> work[w].line, type |-> "entry", target |-> work[w].entry, by |-> by]
    OBVIOUS
  <1>10. r \in ReconRow /\ r.line = work[w].line /\ r.type = "entry" /\ r.target = work[w].entry /\ r.by = by
    BY <1>2, <1>9 DEF ReconRow
  <1>11. recon' = recon \cup {r}
    BY <1>1, <1>9 DEF Reconcile
  <1>12. QED
    BY <1>0, <1>1, <1>3, <1>6, <1>8, <1>10, <1>11, IdleFacts, GoDoes DEF Reconciles

Stops(w) ==
  /\ OthersKept(w) /\ work' \in [Workers -> JobRow] /\ work'[w] = Idle
  /\ \/ /\ troubled' = troubled
        /\ \/ work[w].at \in {"auto", "link"}
           \/ At(w, "mark") /\ \E r \in recon : r.line = work[w].line
     \/ troubled' = troubled \cup ({work[w].line} \ {0})
  /\ UNCHANGED <<lines, entries, open, recon, reopened>>

LEMMA StopWrites ==
  ASSUME IInv, NEW w \in Workers, PairFails(w) \/ AutoEnds(w) \/ Crash(w)
  PROVE  Stops(w)
  <1>0. Types
    BY DEF IInv
  <1>1. ASSUME PairFails(w) PROVE Stops(w)
    BY <1>0, <1>1, IdleFacts, GoDoes DEF PairFails, Stops, At, IsNewPair
  <1>2. ASSUME AutoEnds(w) PROVE Stops(w)
    BY <1>0, <1>2, IdleFacts, GoDoes DEF AutoEnds, Stops, At
  <1>3. ASSUME Crash(w) PROVE Stops(w)
    BY <1>0, <1>3, IdleFacts DEF Crash, Stops, OthersKept, Types, JobsOK
  <1>4. QED
    BY <1>1, <1>2, <1>3

\* A line is looked at: it is given an entry nobody has, an invoice, or nothing.
Picks(w) ==
  /\ OthersKept(w) /\ work' \in [Workers -> JobRow] /\ JobOK(w)' /\ At(w, "auto") /\ At(w, "auto")'
  /\ LinesOf(work'[w]) \subseteq LinesOf(work[w])
  /\ \A m \in work'[w].links : m \in work[w].links \/ ~Reconciled(m.entry)
  /\ UNCHANGED <<lines, entries, open, recon, reopened, troubled>>

LEMMA PickWrites ==
  ASSUME IInv, NEW w \in Workers, MatchLine(w)
  PROVE  Picks(w)
  <1>0. Types /\ JobOK(w) /\ work[w] \in JobRow
    BY TypeFacts DEF IInv, Types, JobsOK
  <1>1. PICK i \in work[w].queue :
          LET rest == [work[w] EXCEPT !.queue = @ \ {i}]
          IN  \/ \E e \in Candidates(w, i) :
                   Go(w, [rest EXCEPT !.links = @ \cup {[line |-> i, entry |-> e]}])
              \/ \E v \in Nearest(w, i) :
                   Go(w, [rest EXCEPT !.pays = Append(@, [line |-> i, invoice |-> v])])
              \/ Go(w, rest)
    BY DEF MatchLine
  <1>2. /\ At(w, "auto") /\ UNCHANGED <<lines, entries, open, recon>>
        /\ Ids' = Ids /\ Lines' = Lines /\ PlanOK(work[w])
    BY <1>0 DEF MatchLine, Ids, Lines, JobOK
  <1>3. PICK rest \in JobRow :
          /\ rest = [work[w] EXCEPT !.queue = @ \ {i}]
          /\ SetAside(work[w], i, rest) /\ LinesOf(rest) \subseteq LinesOf(work[w]) /\ PlanOK(rest)
    BY <1>0, <1>2, JobWithoutLine
  <1>4. ASSUME NEW e \in Candidates(w, i),
               Go(w, [rest EXCEPT !.links = @ \cup {[line |-> i, entry |-> e]}])
        PROVE  Picks(w)
    <2>1. e \in Ids /\ e \in Nat /\ ~Reconciled(e) /\ \A m \in work[w].links : m.entry # e
      BY <1>0, TypeFacts DEF Candidates, UsedEntries
    <2>2. PICK job \in JobRow :
            /\ job = [rest EXCEPT !.links = @ \cup {[line |-> i, entry |-> e]}]
            /\ job.at = work[w].at /\ job.line = work[w].line /\ LinesOf(job) = LinesOf(work[w])
            /\ job.links = work[w].links \cup {[line |-> i, entry |-> e]}
            /\ PlanOK(job)
      <3>1. PICK k \in JobRow : k = work[w]
        BY <1>0
      <3>2. SetAside(k, i, rest) /\ PlanOK(k) /\ i \in k.queue
        BY <1>1, <1>2, <1>3, <3>1
      <3>3. \A m \in k.links : m.entry # e
        BY <2>1, <3>1
      <3>4. QED
        BY <2>1, <3>1, <3>2, <3>3, JobWithLink
    <2>3. Go(w, job)
      BY <1>4, <2>2
    <2>4. \A m \in job.links : m.entry \in Ids /\ (m \in work[w].links \/ ~Reconciled(m.entry))
      BY <1>0, <2>1, <2>2 DEF JobOK
    <2>5. work'[w] = job
      BY <1>0, <2>3, GoDoes
    <2>6. JobOK(w)'
      BY <1>0, <1>2, <2>2, <2>4, <2>5 DEF JobOK, At
    <2>7. QED
      BY <1>0, <1>2, <2>2, <2>3, <2>4, <2>5, <2>6, GoDoes DEF Picks, At
  <1>5. ASSUME NEW v \in Nearest(w, i),
               Go(w, [rest EXCEPT !.pays = Append(@, [line |-> i, invoice |-> v])])
        PROVE  Picks(w)
    <2>1. v \in Nat /\ \A j \in DOMAIN work[w].pays : work[w].pays[j].invoice # v
      <3>1. v \in open \ UsedInvoices(w)
        BY DEF Nearest
      <3>2. open \subseteq DOMAIN Owed /\ DOMAIN Owed \subseteq Nat
        BY <1>0, BankAssumption DEF Types, TypeOK
      <3>3. QED
        BY <3>1, <3>2 DEF UsedInvoices
    <2>2. PICK job \in JobRow :
            /\ job = [rest EXCEPT !.pays = Append(@, [line |-> i, invoice |-> v])]
            /\ job.at = work[w].at /\ job.line = work[w].line /\ LinesOf(job) = LinesOf(work[w])
            /\ job.links = work[w].links
            /\ PlanOK(job)
      <3>1. PICK k \in JobRow : k = work[w]
        BY <1>0
      <3>2. SetAside(k, i, rest) /\ PlanOK(k) /\ i \in k.queue
        BY <1>1, <1>2, <1>3, <3>1
      <3>3. \A j \in DOMAIN k.pays : k.pays[j].invoice # v
        BY <2>1, <3>1
      <3>4. QED
        BY <2>1, <3>1, <3>2, <3>3, JobWithPay
    <2>3. Go(w, job)
      BY <1>5, <2>2
    <2>5. work'[w] = job
      BY <1>0, <2>3, GoDoes
    <2>6. JobOK(w)'
      BY <1>0, <1>2, <2>2, <2>5 DEF JobOK, At
    <2>7. QED
      BY <1>0, <1>2, <2>2, <2>3, <2>5, <2>6, GoDoes DEF Picks, At
  <1>6. ASSUME Go(w, rest) PROVE Picks(w)
    <2>5. work'[w] = rest
      BY <1>0, <1>6, GoDoes
    <2>6. JobOK(w)'
      BY <1>0, <1>2, <1>3, <2>5 DEF JobOK, At, SetAside
    <2>7. QED
      BY <1>0, <1>2, <1>3, <1>6, <2>5, <2>6, GoDoes DEF Picks, At, SetAside
  <1>7. QED
    BY <1>1, <1>3, <1>4, <1>5, <1>6

LEMMA RowsOfPlan ==
  ASSUME NEW k \in JobRow, PlanOK(k), k.line = 0, k.queue = {}
  PROVE  /\ \A r \in MatchRows(k) :
              /\ r \in ReconRow /\ r.by = "auto" /\ r.line \in LinesOf(k)
              /\ r.type = "entry" => \E m \in k.links : r.line = m.line /\ r.target = m.entry
              /\ r.type = "invoice" => \E j \in DOMAIN k.pays : r.line = k.pays[j].line /\ r.target = k.pays[j].invoice
         /\ \A i \in LinesOf(k) : \E r \in MatchRows(k) : r.line = i
         /\ \A r, q \in MatchRows(k) : r.line = q.line \/ (r.type = q.type /\ r.target = q.target) => r = q
  <1>1. k.links \subseteq LinkRow /\ k.pays \in Seq(PayRow)
    BY DEF JobRow
  <1>2. \A m \in k.links : m.line \in Nat /\ m.entry \in Nat
    BY <1>1 DEF LinkRow
  <1>3. \A j \in DOMAIN k.pays : k.pays[j].line \in Nat /\ k.pays[j].invoice \in Nat
    <2>1. \A j \in DOMAIN k.pays : k.pays[j] \in PayRow
      BY <1>1, LenProperties, ElementOfSeq
    <2>2. QED
      BY <2>1 DEF PayRow
  <1>4. \A r \in MatchRows(k) :
          \/ \E m \in k.links : r = [line |-> m.line, type |-> "entry", target |-> m.entry, by |-> "auto"]
          \/ \E j \in DOMAIN k.pays :
               r = [line |-> k.pays[j].line, type |-> "invoice", target |-> k.pays[j].invoice, by |-> "auto"]
    BY DEF MatchRows
  <1>5. ASSUME NEW r \in MatchRows(k)
        PROVE  /\ r \in ReconRow /\ r.by = "auto" /\ r.line \in LinesOf(k)
               /\ r.type = "entry" => \E m \in k.links : r.line = m.line /\ r.target = m.entry
               /\ r.type = "invoice" => \E j \in DOMAIN k.pays : r.line = k.pays[j].line /\ r.target = k.pays[j].invoice
    BY <1>2, <1>3, <1>4 DEF ReconRow, LinesOf
  <1>6. \A m \in k.links : [line |-> m.line, type |-> "entry", target |-> m.entry, by |-> "auto"] \in MatchRows(k)
    BY DEF MatchRows
  <1>7. \A j \in DOMAIN k.pays :
          [line |-> k.pays[j].line, type |-> "invoice", target |-> k.pays[j].invoice, by |-> "auto"] \in MatchRows(k)
    BY DEF MatchRows
  <1>8. \A i \in LinesOf(k) : (\E m \in k.links : m.line = i) \/ \E j \in DOMAIN k.pays : k.pays[j].line = i
    BY DEF LinesOf
  <1>9. \A i \in LinesOf(k) : \E r \in MatchRows(k) : r.line = i
    BY <1>6, <1>7, <1>8
  <1>10. ASSUME NEW r \in MatchRows(k), NEW q \in MatchRows(k),
                r.line = q.line \/ (r.type = q.type /\ r.target = q.target)
         PROVE  r = q
    <2>1. ASSUME NEW m \in k.links, NEW n \in k.links,
                 r = [line |-> m.line, type |-> "entry", target |-> m.entry, by |-> "auto"],
                 q = [line |-> n.line, type |-> "entry", target |-> n.entry, by |-> "auto"]
          PROVE  r = q
      <3>1. m.line = n.line \/ m.entry = n.entry
        BY <1>10, <2>1
      <3>2. m = n
        BY <3>1 DEF PlanOK
      <3>3. QED
        BY <2>1, <3>2
    <2>2. ASSUME NEW m \in DOMAIN k.pays, NEW n \in DOMAIN k.pays,
                 r = [line |-> k.pays[m].line, type |-> "invoice", target |-> k.pays[m].invoice, by |-> "auto"],
                 q = [line |-> k.pays[n].line, type |-> "invoice", target |-> k.pays[n].invoice, by |-> "auto"]
          PROVE  r = q
      <3>1. k.pays[m].line = k.pays[n].line \/ k.pays[m].invoice = k.pays[n].invoice
        BY <1>10, <2>2
      <3>2. m = n
        BY <3>1 DEF PlanOK
      <3>3. QED
        BY <2>2, <3>2
    <2>3. \A m \in k.links, n \in DOMAIN k.pays : m.line # k.pays[n].line
      BY DEF PlanOK
    <2>4. QED
      BY <1>4, <1>10, <2>1, <2>2, <2>3
  <1>11. QED
    BY <1>5, <1>9, <1>10

LEMMA ConcatAdds ==
  ASSUME NEW S, NEW s \in Seq(S), NEW t \in Seq(S), NEW n, n = Len(t), NEW u, u = s \o t
  PROVE  /\ u \in Seq(S) /\ Len(s) \in Nat
         /\ DOMAIN s = 1 .. Len(s) /\ DOMAIN u = 1 .. (Len(s) + n)
         /\ \A j \in DOMAIN s : j \in DOMAIN u /\ u[j] = s[j]
         /\ \A j \in DOMAIN u \ DOMAIN s : j - Len(s) \in 1 .. n /\ u[j] = t[j - Len(s)]
  <1>1. n \in Nat
    BY LenProperties
  <1>2. /\ u \in Seq(S) /\ Len(u) = Len(s) + n
        /\ \A j \in 1 .. Len(s) + n : u[j] = IF j <= Len(s) THEN s[j] ELSE t[j - Len(s)]
    BY <1>1, ConcatProperties
  <1>3. DOMAIN s = 1 .. Len(s) /\ Len(s) \in Nat /\ DOMAIN u = 1 .. Len(u)
    BY <1>2, LenProperties
  <1>4. QED
    BY <1>2, <1>3

\* All matches are written: each line gets one row, and each payment an entry.
Writes(w) ==
  /\ OthersKept(w) /\ work' \in [Workers -> JobRow] /\ At(w, "auto") /\ work'[w] = Idle
  /\ work[w].queue = {} /\ Applies(work[w])
  /\ lines' \in Seq(LineRow) /\ Lines' = Lines
  /\ \A i \in Lines : IF i \in LinesOf(work[w]) THEN lines'[i].state = "matched" ELSE lines'[i] = lines[i]
  /\ entries' \in Seq(EntryRow) /\ Ids \subseteq Ids' /\ \A e \in Ids : entries'[e] = entries[e]
  /\ \A e \in Ids' \ Ids : \E k \in DOMAIN work[w].pays : entries'[e].ref = work[w].pays[k].line
  /\ \A e, f \in Ids' \ Ids : entries'[e].ref = entries'[f].ref => e = f
  /\ open' = StillOpen(work[w].pays)
  /\ recon' = recon \cup MatchRows(work[w])
  /\ UNCHANGED <<reopened, troubled>>

LEMMA ApplyWrites ==
  ASSUME IInv, NEW w \in Workers, ApplyMatches(w)
  PROVE  Writes(w)
  <1>0. Types /\ JobOK(w) /\ work[w] \in JobRow
    BY TypeFacts DEF IInv, Types, JobsOK
  <1>1. PICK k \in JobRow : k = work[w]
    BY <1>0
  <1>2. /\ At(w, "auto") /\ k.queue = {} /\ Applies(k) /\ Go(w, Idle)
        /\ open' = StillOpen(k.pays) /\ recon' = recon \cup MatchRows(k)
        /\ entries' = entries \o PaymentEntries(k.pays)
        /\ lines' = [i \in Lines |-> IF i \in LinesOf(k) THEN [lines[i] EXCEPT !.state = "matched"]
                                                         ELSE lines[i]]
    BY <1>1 DEF ApplyMatches
  <1>3. /\ k.pays \in Seq(PayRow) /\ PlanOK(k)
        /\ \A j \in DOMAIN k.pays : k.pays[j].line \in Lines /\ k.pays[j].line \in Nat
    <2>1. k.pays \in Seq(PayRow) /\ PlanOK(k) /\ LinesOf(k) \subseteq Lines
      BY <1>0, <1>1 DEF JobRow, JobOK
    <2>2. \A j \in DOMAIN k.pays : k.pays[j].line \in LinesOf(k)
      BY DEF LinesOf
    <2>3. QED
      BY <1>0, <2>1, <2>2, TypeFacts
  <1>4. /\ lines' \in Seq(LineRow) /\ Lines' = Lines
        /\ \A i \in Lines : IF i \in LinesOf(k) THEN lines'[i].state = "matched" ELSE lines'[i] = lines[i]
    <2>1. Lines = 1 .. Len(lines) /\ Len(lines) \in Nat /\ \A i \in Lines : lines[i] \in LineRow
      BY <1>0, TypeFacts
    <2>2. ASSUME NEW i \in Lines
          PROVE  /\ lines'[i] \in LineRow
                 /\ IF i \in LinesOf(k) THEN lines'[i].state = "matched" ELSE lines'[i] = lines[i]
      <3>1. PICK old \in LineRow : old = lines[i]
        BY <2>1
      <3>2. PICK row : row = [old EXCEPT !.state = "matched"]
        OBVIOUS
      <3>3. row \in LineRow /\ row.state = "matched"
        BY <3>2 DEF LineRow
      <3>4. lines'[i] = IF i \in LinesOf(k) THEN row ELSE old
        BY <1>2, <3>1, <3>2
      <3>5. QED
        BY <3>1, <3>3, <3>4
    <2>3. lines' \in [1 .. Len(lines) -> LineRow]
      BY <1>2, <2>1, <2>2
    <2>4. lines' \in Seq(LineRow) /\ DOMAIN lines' = 1 .. Len(lines)
      BY <2>1, <2>3
    <2>5. QED
      BY <2>1, <2>2, <2>4 DEF Lines
  <1>5. PICK t : t = PaymentEntries(k.pays)
    OBVIOUS
  <1>6. PICK n \in Nat : n = Len(k.pays) /\ DOMAIN k.pays = 1 .. n
    BY <1>3, LenProperties
  <1>7. \A j \in 1 .. n : t[j] \in EntryRow /\ t[j].ref = k.pays[j].line
    <2>1. SUFFICES ASSUME NEW j \in 1 .. n PROVE t[j] \in EntryRow /\ t[j].ref = k.pays[j].line
      OBVIOUS
    <2>2. PICK i, a : i = k.pays[j].line /\ a = AmountOf(k.pays[j].line)
      OBVIOUS
    <2>3. i \in Nat /\ a \in Int
      BY <1>0, <1>3, <1>6, <2>2, TypeFacts
    <2>4. t[j] = [state |-> "posted", postings |-> a, source |-> "bank", ref |-> i, reversedFrom |-> 0]
      BY <1>5, <1>6, <2>2 DEF PaymentEntries
    <2>5. QED
      BY <2>2, <2>3, <2>4 DEF EntryRow
  <1>8. t \in [1 .. n -> EntryRow]
    <2>1. DOMAIN t = 1 .. n /\ t = [j \in 1 .. n |-> t[j]]
      BY <1>5, <1>6 DEF PaymentEntries
    <2>2. QED
      BY <1>7, <2>1
  <1>9. entries \in Seq(EntryRow) /\ entries' = entries \o t
    BY <1>0, <1>2, <1>5 DEF Types, TypeOK
  <1>10. /\ entries' \in Seq(EntryRow) /\ Len(entries) \in Nat
         /\ Ids = 1 .. Len(entries) /\ Ids' = 1 .. (Len(entries) + n)
         /\ \A j \in Ids : j \in Ids' /\ entries'[j] = entries[j]
         /\ \A j \in Ids' \ Ids : j - Len(entries) \in 1 .. n /\ entries'[j] = t[j - Len(entries)]
    <2>1. PICK s, u : s = entries /\ u = s \o t
      OBVIOUS
    <2>5. s \in Seq(EntryRow) /\ t \in Seq(EntryRow) /\ n = Len(t)
      BY <1>8, <1>9, <2>1
    <2>2. /\ u \in Seq(EntryRow) /\ Len(s) \in Nat
          /\ DOMAIN s = 1 .. Len(s) /\ DOMAIN u = 1 .. (Len(s) + n)
          /\ \A j \in DOMAIN s : j \in DOMAIN u /\ u[j] = s[j]
          /\ \A j \in DOMAIN u \ DOMAIN s : j - Len(s) \in 1 .. n /\ u[j] = t[j - Len(s)]
      BY <2>1, <2>5, ConcatAdds
    <2>6. u = entries'
      BY <1>9, <2>1
    <2>3. Ids = DOMAIN s /\ Ids' = DOMAIN u
      BY <2>1, <2>6 DEF Ids
    <2>4. QED
      BY <2>1, <2>2, <2>3, <2>6
  <1>11. \A e \in Ids' \ Ids : \E j \in DOMAIN k.pays : entries'[e].ref = k.pays[j].line
    BY <1>6, <1>7, <1>10, SMTT(30)
  <1>12. ASSUME NEW e \in Ids' \ Ids, NEW f \in Ids' \ Ids, entries'[e].ref = entries'[f].ref
         PROVE  e = f
    <2>1. PICK x \in 1 .. n, y \in 1 .. n : x = e - Len(entries) /\ y = f - Len(entries)
      BY <1>10
    <2>2. k.pays[x].line = k.pays[y].line
      BY <1>7, <1>10, <1>12, <2>1
    <2>3. x = y
      BY <1>3, <1>6, <2>2 DEF PlanOK
    <2>4. e \in Int /\ f \in Int
      BY <1>10
    <2>5. QED
      BY <1>10, <2>1, <2>3, <2>4
  <1>13. work'[w] = Idle /\ OthersKept(w) /\ work' \in [Workers -> JobRow] /\ UNCHANGED <<reopened, troubled>>
    BY <1>0, <1>2, IdleFacts, GoDoes
  <1>14. QED
    BY <1>1, <1>2, <1>4, <1>10, <1>11, <1>12, <1>13 DEF Writes

Imports ==
  /\ lines' \in Seq(LineRow) /\ Lines \subseteq Lines' /\ \A i \in Lines : lines'[i] = lines[i]
  /\ \A i \in Lines' \ Lines : lines'[i].state = "unmatched"
  /\ UNCHANGED <<entries, open, recon, work, reopened, troubled>>

LEMMA ImportWrites ==
  ASSUME IInv, NEW file \in Statements, Import(file)
  PROVE  Imports
  <1>1. PICK new \in [1 .. Cardinality(NewLines(file)) -> NewLines(file)] :
          lines' = lines \o [k \in DOMAIN new |-> [hash |-> file[new[k]], state |-> "unmatched"]]
    BY DEF Import
  <1>2. file \in Seq(Hashes) /\ DOMAIN file = 1 .. Len(file) /\ Len(file) \in Nat
    BY BankAssumption
  <1>3. NewLines(file) \subseteq 1 .. Len(file)
    BY <1>2 DEF NewLines
  <1>4. Cardinality(NewLines(file)) \in Nat
    <2>1. IsFiniteSet(1 .. Len(file))
      BY <1>2, FS_Interval
    <2>2. IsFiniteSet(NewLines(file))
      BY <1>3, <2>1, FS_Subset
    <2>3. QED
      BY <2>2, FS_CardinalityType
  <1>5. PICK n \in Nat : n = Cardinality(NewLines(file))
    BY <1>4
  <1>6. PICK t : t = [k \in 1 .. n |-> [hash |-> file[new[k]], state |-> "unmatched"]]
    OBVIOUS
  <1>7. \A k \in 1 .. n : t[k] \in LineRow /\ t[k].state = "unmatched"
    <2>1. SUFFICES ASSUME NEW k \in 1 .. n PROVE t[k] \in LineRow /\ t[k].state = "unmatched"
      OBVIOUS
    <2>2. new[k] \in 1 .. Len(file)
      BY <1>1, <1>3, <1>5
    <2>3. PICK h \in Hashes : h = file[new[k]]
      BY <1>2, <2>2, ElementOfSeq
    <2>4. t[k] = [hash |-> h, state |-> "unmatched"]
      BY <1>6, <2>3
    <2>5. QED
      BY <2>4 DEF LineRow
  <1>8. t \in Seq(LineRow) /\ n = Len(t)
    <2>1. t \in [1 .. n -> LineRow]
      BY <1>6, <1>7
    <2>2. QED
      BY <2>1
  <1>9. lines \in Seq(LineRow) /\ lines' = lines \o t
    <2>1. DOMAIN new = 1 .. n
      BY <1>1, <1>5
    <2>2. QED
      BY <1>1, <1>6, <2>1, TypeFacts DEF IInv
  <1>10. PICK s, u : s = lines /\ u = s \o t
    OBVIOUS
  <1>11. u = lines'
    BY <1>9, <1>10
  <1>15. s \in Seq(LineRow) /\ t \in Seq(LineRow) /\ n = Len(t) /\ u = s \o t
    BY <1>8, <1>9, <1>10
  <1>12. /\ u \in Seq(LineRow) /\ Len(s) \in Nat
         /\ DOMAIN s = 1 .. Len(s) /\ DOMAIN u = 1 .. (Len(s) + n)
         /\ \A j \in DOMAIN s : j \in DOMAIN u /\ u[j] = s[j]
         /\ \A j \in DOMAIN u \ DOMAIN s : j - Len(s) \in 1 .. n /\ u[j] = t[j - Len(s)]
    BY <1>15, ConcatAdds
  <1>13. Lines = DOMAIN s /\ Lines' = DOMAIN u
    BY <1>10, <1>11 DEF Lines
  <1>14. QED
    <2>1. Lines \subseteq Lines' /\ \A i \in Lines : lines'[i] = lines[i]
      BY <1>10, <1>11, <1>12, <1>13
    <2>2. \A i \in Lines' \ Lines : lines'[i].state = "unmatched"
      BY <1>7, <1>11, <1>12, <1>13
    <2>3. QED
      BY <1>11, <1>12, <2>1, <2>2 DEF Imports, Import

\* A person sets the state of line i.
Sets(i) ==
  /\ lines' \in Seq(LineRow) /\ Lines' = Lines /\ \A j \in Lines : j # i => lines'[j] = lines[j]
  /\ lines'[i].state # "matched"
  /\ reopened' = IF lines[i].state = "matched" THEN reopened \cup {i} ELSE reopened
  /\ troubled' = troubled \cup Contended({i})
  /\ UNCHANGED <<entries, open, recon, work>>

LEMMA SetWrites ==
  ASSUME IInv, NEW i \in Lines, NEW state \in {"unmatched", "ignored"}, SetState(i, state)
  PROVE  Sets(i)
  <1>1. PICK old \in LineRow : old = lines[i]
    BY TypeFacts DEF IInv
  <1>2. PICK row : row = [old EXCEPT !.state = state]
    OBVIOUS
  <1>3. row \in LineRow /\ row.state = state
    BY <1>2 DEF LineRow
  <1>4. lines' = [lines EXCEPT ![i] = row] /\ lines \in Seq(LineRow)
    BY <1>1, <1>2, TypeFacts DEF SetState, IInv
  <1>5. lines' \in Seq(LineRow) /\ Lines' = Lines /\ \A j \in Lines : lines'[j] = IF j = i THEN row ELSE lines[j]
    BY <1>3, <1>4 DEF Lines
  <1>6. QED
    BY <1>3, <1>5 DEF Sets, SetState

\* An entry that no line is the source of.
AddsOther ==
  /\ \E row : Adds(row) /\ row.source # "bank"
  /\ UNCHANGED <<lines, open, recon, work, reopened, troubled>>

LEMMA OtherWrites ==
  ASSUME IInv
  PROVE  /\ \A amount \in Manual : Book(amount) => AddsOther
         /\ \A e \in Ids : ReverseEntry(e) => AddsOther
  <1>0. Types
    BY DEF IInv
  <1>1. ASSUME NEW amount \in Manual, Book(amount) PROVE AddsOther
    <2>1. PICK row : row = [state |-> "posted", postings |-> amount, source |-> "manual", ref |-> 0,
                            reversedFrom |-> 0]
      OBVIOUS
    <2>2. row \in EntryRow /\ row.source = "manual"
      BY <2>1, BankAssumption DEF EntryRow
    <2>3. entries' = Append(entries, row)
      BY <1>1, <2>1 DEF Book
    <2>4. QED
      BY <1>0, <1>1, <2>2, <2>3, AppendAdds DEF AddsOther, Book, Others
  <1>2. ASSUME NEW e \in Ids, ReverseEntry(e) PROVE AddsOther
    <2>1. PICK row : row = [state |-> "posted", postings |-> Minus(entries[e].postings), source |-> "reversal",
                            ref |-> 0, reversedFrom |-> e]
      OBVIOUS
    <2>2. entries[e].postings \in Int /\ e \in Nat
      BY <1>0, TypeFacts DEF EntryRow
    <2>3. Minus(entries[e].postings) \in Int
      BY <2>2 DEF Minus
    <2>4. row \in EntryRow /\ row.source = "reversal"
      BY <2>1, <2>2, <2>3 DEF EntryRow
    <2>5. entries' = Append(entries, row)
      BY <1>2, <2>1 DEF ReverseEntry, InsertReversal
    <2>6. QED
      BY <1>0, <1>2, <2>4, <2>5, AppendAdds DEF AddsOther, ReverseEntry, Others
  <1>3. QED
    BY <1>1, <1>2

----------------------------------------------------------------------------------
(* What a step leaves alone. *)

\* Jobs that do not change remain as they should be.
LEMMA OthersJobs ==
  ASSUME Types, Lines \subseteq Lines', Ids \subseteq Ids', NEW w \in Workers, OthersKept(w), JobOK(w)'
  PROVE  \A v \in Workers : JobOK(v)'
  BY JobsKept DEF OthersKept

LEMMA IdleJob ==
  ASSUME NEW w \in Workers, work'[w] = Idle
  PROVE  JobOK(w)'
  BY IdleFacts DEF JobOK, At

LEMMA LineKept ==
  ASSUME IInv, NEW i \in Calm, lines'[i] = lines[i],
         \A v \in Workers : WorksOn(v, i)' => WorksOn(v, i),
         \A r \in recon' : r.line = i => r \in recon,
         recon \subseteq recon',
         \A e \in Ids' : MadeFrom(e, i)' => e \in Ids /\ MadeFrom(e, i),
         \A v \in Workers : \A e : Books(v, i, e) => Books(v, i, e)'
  PROVE  CalmOK(i)'
  <1>1. CalmOK(i)
    BY DEF IInv
  <1>2. (\A v, u \in Workers : WorksOn(v, i) /\ WorksOn(u, i) => v = u)'
    BY <1>1 DEF CalmOK
  <1>3. (\A v \in Workers : WorksOn(v, i) => lines[i].state = "unmatched")'
    BY <1>1 DEF CalmOK
  <1>4. (lines[i].state = "matched" => \E r \in recon : r.line = i /\ \A q \in recon : q.line = i => q = r)'
    BY <1>1 DEF CalmOK
  <1>5. (lines[i].state # "matched" => \A r \in recon : r.line # i)'
    BY <1>1 DEF CalmOK
  <1>6. (\A e \in Ids : MadeFrom(e, i) => lines[i].state = "matched" \/ \E w \in Workers : Books(w, i, e))'
    BY <1>1 DEF CalmOK
  <1>7. (\A e, f \in Ids : MadeFrom(e, i) /\ MadeFrom(f, i) => e = f)'
    BY <1>1 DEF CalmOK
  <1>8. QED
    BY <1>2, <1>3, <1>4, <1>5, <1>6, <1>7 DEF CalmOK

\* Whatever was troubled or reopened stays so.
Ages == Lines \subseteq Lines' /\ reopened \subseteq reopened' /\ troubled \subseteq troubled'

LEMMA ClaimsKept ==
  ASSUME IInv, Ages, \A r \in recon' : r \in recon \/ r.by # "auto"
  PROVE  /\ \A e : Claimed(e)' => Claimed(e)
         /\ ClaimedOnce'
  <1>1. \A r \in recon : r.line \in Calm' => r.line \in Calm
    BY TypeFacts DEF IInv, Calm, Ages
  <1>2. QED
    BY <1>1 DEF IInv, Claimed, ClaimedOnce

LEMMA MatcherKept ==
  ASSUME IInv, Ages, \A e : Claimed(e)' => Claimed(e),
         \A v \in Workers : At(v, "auto")' => At(v, "auto"),
         \A v \in Workers : \A i : WorksOn(v, i)' => WorksOn(v, i),
         \A v \in Workers : \A m \in work'[v].links : m \in work[v].links \/ ~Claimed(m.entry),
         \A v \in Workers : \A m \in work'[v].links : m.line \in LinesOf(work'[v])
  PROVE  OneMatcher'
  <1>1. \A v \in Workers : \A i \in Calm' : WorksOn(v, i) => i \in Calm
    BY TypeFacts DEF IInv, Calm, Ages, WorksOn
  <1>2. (\A w, v \in Workers : \A i, j \in Calm : Matches(w, i) /\ Matches(v, j) => w = v)'
    BY <1>1 DEF IInv, OneMatcher, Matches
  <1>3. (\A w \in Workers : \A m \in work[w].links : At(w, "auto") /\ m.line \in Calm => ~Claimed(m.entry))'
    <2>1. SUFFICES ASSUME NEW v \in Workers, NEW m \in work'[v].links, At(v, "auto")', m.line \in Calm',
                          Claimed(m.entry)'
                   PROVE  FALSE
      OBVIOUS
    <2>2. Claimed(m.entry) /\ m \in work[v].links /\ At(v, "auto")
      BY <2>1
    <2>3. m.line \in Calm
      BY <1>1, <2>1 DEF WorksOn
    <2>4. QED
      BY <2>2, <2>3 DEF IInv, OneMatcher
  <1>4. QED
    BY <1>2, <1>3 DEF OneMatcher

LEMMA PaysKept ==
  ASSUME IInv, \A r \in recon' : r \in recon \/ r.type # "invoice", reopened \subseteq reopened',
         \A i \in Lines : lines[i].state = "matched" /\ i \notin reopened' => lines'[i].state = "matched"
  PROVE  PaidMatched' /\ PaysOnce'
  BY TypeFacts DEF IInv, PaidMatched, PaysOnce

LEMMA CalmBefore ==
  ASSUME IInv, Ages
  PROVE  \A i \in Calm' : i \in Lines => i \in Calm
  BY DEF Calm, Ages

LEMMA LinesOfLinks == \A job : \A m \in job.links : m.line \in LinesOf(job)
  BY DEF LinesOf

----------------------------------------------------------------------------------
(* Every step keeps the invariant. *)

LEMMA Starting ==
  ASSUME IInv, NEW w \in Workers, Starts(w)
  PROVE  IInv'
  <1>0. Types /\ Lines' = Lines /\ Ids' = Ids /\ Ages /\ UNCHANGED <<lines, entries, open, recon, reopened>>
    BY DEF IInv, Starts, Lines, Ids, Ages
  <1>1. troubled' \subseteq Lines
    BY <1>0, TypeFacts DEF Starts, Types, TypeOK, Contended, JobOK
  <1>2. Types'
    <2>1. \A v \in Workers : JobOK(v)'
      BY <1>0, OthersJobs DEF Starts
    <2>2. lines' \in Seq(LineRow) /\ entries' \in Seq(EntryRow) /\ reopened' \subseteq Lines'
      BY <1>0, TypeFacts DEF Types, TypeOK
    <2>3. QED
      BY <1>0, <1>1, <2>1, <2>2, TypesStep DEF Starts
  <1>3. RefsOK'
    BY <1>0 DEF IInv, RefsOK
  <1>4. PaidMatched' /\ PaysOnce'
    BY <1>0, PaysKept
  <1>5. ClaimedOnce' /\ \A e : Claimed(e)' => Claimed(e)
    BY <1>0, ClaimsKept
  <1>6. LinesOf(work[w]) = {} /\ work[w].at = "idle" /\ OthersKept(w)
    BY IdleFacts DEF Starts
  <1>7. \A i \in LinesOf(work'[w]) : i \in Calm' => \A v \in Workers : ~WorksOn(v, i)
    BY DEF Starts, Calm, Contended, WorksOn
  <1>8. ASSUME NEW i \in Calm' PROVE CalmOK(i)'
    <2>1. i \in Calm /\ i \in Lines
      BY <1>0, CalmBefore DEF Calm
    <2>2. CASE i \notin LinesOf(work'[w])
      <3>1. \A v \in Workers : WorksOn(v, i)' => WorksOn(v, i)
        BY <1>6, <2>2 DEF WorksOn, OthersKept
      <3>2. \A v \in Workers : \A e : Books(v, i, e) => Books(v, i, e)'
        BY <1>6 DEF Books, OthersKept
      <3>3. \A e \in Ids' : MadeFrom(e, i)' => e \in Ids /\ MadeFrom(e, i)
        BY <1>0 DEF MadeFrom
      <3>4. QED
        BY <1>0, <2>1, <3>1, <3>2, <3>3, LineKept
    <2>3. CASE i \in LinesOf(work'[w])
      <3>1. CalmOK(i) /\ lines[i].state = "unmatched" /\ \A v \in Workers : ~WorksOn(v, i)
        BY <1>7, <2>1, <2>3 DEF IInv, Starts
      <3>2. \A v \in Workers : WorksOn(v, i)' => v = w
        BY <3>1 DEF WorksOn, Starts, OthersKept
      <3>3. \A v \in Workers : \A e : ~Books(v, i, e)
        <4>1. SUFFICES ASSUME NEW v \in Workers, NEW e, Books(v, i, e) PROVE FALSE
          OBVIOUS
        <4>2. LinesOf(work[v]) = {work[v].line}
          BY <4>1 DEF Books, IInv, Types, JobsOK, JobOK
        <4>3. QED
          BY <3>1, <4>1, <4>2 DEF Books, WorksOn
      <3>4. \A e \in Ids : ~MadeFrom(e, i)
        BY <3>1, <3>3 DEF CalmOK
      <3>5. \A e \in Ids' : ~MadeFrom(e, i)'
        BY <1>0, <3>4 DEF MadeFrom
      <3>6. \A r \in recon' : r.line # i
        BY <1>0, <3>1 DEF CalmOK
      <3>7. lines'[i].state = "unmatched"
        BY <1>0, <3>1
      <3>8. QED
        BY <3>2, <3>5, <3>6, <3>7 DEF CalmOK
    <2>4. QED
      BY <2>2, <2>3
  <1>9. OneMatcher'
    <2>1. ASSUME NEW v \in Workers, NEW u \in Workers, NEW i \in Calm', NEW j \in Calm',
                 Matches(v, i)', Matches(u, j)'
          PROVE  v = u
      <3>1. \A x \in Workers, k \in Calm' : x # w /\ Matches(x, k)' => Matches(x, k) /\ k \in Calm
        BY <1>0, <1>6, CalmBefore, TypeFacts DEF Matches, WorksOn, At, OthersKept
      <3>2. \A x \in Workers, k \in Calm' : x # w /\ Matches(x, k)' => ~At(w, "auto")'
        <4>1. SUFFICES ASSUME NEW x \in Workers, NEW k \in Calm', x # w, Matches(x, k)', At(w, "auto")'
                       PROVE  FALSE
          OBVIOUS
        <4>2. Matches(x, k) /\ k \in Calm
          BY <3>1, <4>1
        <4>3. lines[k].state = "unmatched" /\ k \in Lines
          BY <4>2 DEF IInv, CalmOK, Matches, Calm
        <4>4. k \in LinesOf(work'[w])
          BY <4>1, <4>3 DEF Starts, Unmatched
        <4>5. QED
          BY <1>7, <4>1, <4>2, <4>4 DEF Matches
      <3>3. v = w \/ u = w => v = u
        BY <2>1, <3>2 DEF Matches
      <3>4. v # w /\ u # w => v = u
        BY <2>1, <3>1 DEF IInv, OneMatcher
      <3>5. QED
        BY <3>3, <3>4
    <2>2. ASSUME NEW v \in Workers, NEW m \in work'[v].links, At(v, "auto")', m.line \in Calm', Claimed(m.entry)'
          PROVE  FALSE
      <3>1. v # w /\ work'[v] = work[v]
        BY DEF Starts, OthersKept
      <3>2. m.line \in LinesOf(work[v]) /\ LinesOf(work[v]) \subseteq Lines
        BY <1>0, <3>1, LinesOfLinks, TypeFacts
      <3>3. m.line \in Calm
        BY <1>0, <2>2, <3>2, CalmBefore
      <3>4. QED
        BY <1>5, <2>2, <3>1, <3>3 DEF IInv, OneMatcher, At
    <2>3. QED
      BY <2>1, <2>2 DEF OneMatcher
  <1>10. QED
    BY <1>2, <1>3, <1>4, <1>5, <1>8, <1>9 DEF IInv

LEMMA Creating ==
  ASSUME IInv, NEW w \in Workers, Creates(w)
  PROVE  IInv'
  <1>0. /\ Types /\ Lines' = Lines /\ Ages /\ JobOK(w)
        /\ UNCHANGED <<lines, open, recon, reopened, troubled>> /\ Calm' = Calm
    BY DEF IInv, Types, JobsOK, Creates, Lines, Ages, Calm
  <1>1. PICK row : Adds(row) /\ row.source = "bank" /\ row.ref = work[w].line
    BY DEF Creates
  <1>2. /\ LinesOf(work[w]) = {work[w].line} /\ work[w].line \in Lines
        /\ LinesOf(work'[w]) = LinesOf(work[w]) /\ work'[w].line = work[w].line
    BY <1>0 DEF Creates, JobOK, At
  <1>3. Types'
    <2>1. JobOK(w)'
      BY <1>0, <1>1, <1>2 DEF Creates, Adds, JobOK, At
    <2>2. \A v \in Workers : JobOK(v)'
      BY <1>0, <1>1, <2>1, OthersJobs DEF Creates, Adds
    <2>3. lines' \in Seq(LineRow) /\ reopened' \subseteq Lines' /\ troubled' \subseteq Lines'
      BY <1>0, TypeFacts DEF Types, TypeOK
    <2>4. QED
      BY <1>0, <1>1, <2>2, <2>3, TypesStep DEF Creates, Adds
  <1>4. RefsOK'
    BY <1>0, <1>1, <1>2 DEF IInv, RefsOK, Adds
  <1>5. PaidMatched' /\ PaysOnce'
    BY <1>0, PaysKept
  <1>6. ClaimedOnce' /\ \A e : Claimed(e)' => Claimed(e)
    BY <1>0, ClaimsKept
  <1>7. \A v \in Workers : \A i : WorksOn(v, i)' => WorksOn(v, i)
    BY <1>2 DEF WorksOn, Creates, OthersKept
  <1>8. ASSUME NEW i \in Calm' PROVE CalmOK(i)'
    <2>1. i \in Calm /\ CalmOK(i)
      BY <1>0 DEF IInv
    <2>2. \A v \in Workers : \A e : Books(v, i, e) => v # w /\ Books(v, i, e)'
      BY DEF Books, Creates, OthersKept, At
    <2>3. CASE i # work[w].line
      <3>1. \A e \in Ids' : MadeFrom(e, i)' => e \in Ids /\ MadeFrom(e, i)
        BY <1>1, <2>3 DEF MadeFrom, Adds
      <3>2. QED
        BY <1>0, <1>7, <2>1, <2>2, <3>1, LineKept
    <2>4. CASE i = work[w].line
      <3>1. WorksOn(w, i)
        BY <1>2, <2>4 DEF WorksOn
      <3>2. lines[i].state = "unmatched"
        BY <2>1, <3>1 DEF CalmOK
      <3>3. \A v \in Workers : \A e : Books(v, i, e) => WorksOn(v, i)
        BY DEF Books, WorksOn, IInv, Types, JobsOK, JobOK
      <3>4. \A v \in Workers : \A e : ~Books(v, i, e)
        BY <2>1, <2>2, <3>1, <3>3 DEF CalmOK
      <3>5. \A e \in Ids : ~MadeFrom(e, i)
        BY <2>1, <3>2, <3>4 DEF CalmOK
      <3>0. PICK n : n = LastId + 1
        OBVIOUS
      <3>6. \A e \in Ids' : MadeFrom(e, i)' => e = n
        BY <1>1, <3>0, <3>5 DEF Adds, MadeFrom
      <3>7. Books(w, i, n)'
        BY <1>2, <2>4, <3>0 DEF Books, Creates, At
      <3>8. (\A e \in Ids : MadeFrom(e, i) => lines[i].state = "matched" \/ \E v \in Workers : Books(v, i, e))'
        BY <3>6, <3>7
      <3>9. (\A e, f \in Ids : MadeFrom(e, i) /\ MadeFrom(f, i) => e = f)'
        BY <3>6
      <3>10. (\A v, u \in Workers : WorksOn(v, i) /\ WorksOn(u, i) => v = u)'
        BY <1>7, <2>1 DEF CalmOK
      <3>11. (\A r \in recon : r.line # i)' /\ lines'[i].state = "unmatched"
        BY <1>0, <2>1, <3>2 DEF CalmOK
      <3>12. QED
        BY <3>8, <3>9, <3>10, <3>11 DEF CalmOK
    <2>5. QED
      BY <2>3, <2>4
  <1>9. OneMatcher'
    <2>1. \A v \in Workers : At(v, "auto")' => At(v, "auto")
      BY DEF Creates, OthersKept, At
    <2>2. \A v \in Workers : work'[v].links = work[v].links
      BY DEF Creates, OthersKept
    <2>3. QED
      BY <1>0, <1>6, <1>7, <2>1, <2>2, MatcherKept, LinesOfLinks
  <1>10. QED
    BY <1>3, <1>4, <1>5, <1>6, <1>8, <1>9 DEF IInv

LEMMA Posting ==
  ASSUME IInv, NEW w \in Workers, Posts(w)
  PROVE  IInv'
  <1>0. /\ Types /\ Lines' = Lines /\ Ids' = Ids /\ Ages /\ JobOK(w)
        /\ UNCHANGED <<lines, open, recon, reopened, troubled>> /\ Calm' = Calm
    BY DEF IInv, Types, JobsOK, Posts, Lines, Ages, Calm
  <1>2. /\ LinesOf(work[w]) = {work[w].line}
        /\ LinesOf(work'[w]) = LinesOf(work[w]) /\ work'[w].line = work[w].line
    BY <1>0 DEF Posts, JobOK, At
  <1>3. Types'
    <2>1. JobOK(w)'
      BY <1>0, <1>2 DEF Posts, JobOK, At
    <2>2. \A v \in Workers : JobOK(v)'
      BY <1>0, <2>1, OthersJobs DEF Posts
    <2>3. lines' \in Seq(LineRow) /\ reopened' \subseteq Lines' /\ troubled' \subseteq Lines'
      BY <1>0, TypeFacts DEF Types, TypeOK
    <2>4. QED
      BY <1>0, <2>2, <2>3, TypesStep DEF Posts
  <1>4. RefsOK'
    BY <1>0 DEF IInv, RefsOK, Posts
  <1>5. PaidMatched' /\ PaysOnce'
    BY <1>0, PaysKept
  <1>6. ClaimedOnce' /\ \A e : Claimed(e)' => Claimed(e)
    BY <1>0, ClaimsKept
  <1>7. \A v \in Workers : \A i : WorksOn(v, i)' => WorksOn(v, i)
    BY <1>2 DEF WorksOn, Posts, OthersKept
  <1>8. ASSUME NEW i \in Calm' PROVE CalmOK(i)'
    <2>1. \A v \in Workers : \A e : Books(v, i, e) => Books(v, i, e)'
      BY DEF Books, Posts, OthersKept, At
    <2>2. \A e \in Ids' : MadeFrom(e, i)' => e \in Ids /\ MadeFrom(e, i)
      BY <1>0 DEF MadeFrom, Posts
    <2>3. QED
      BY <1>0, <1>7, <2>1, <2>2, LineKept
  <1>9. OneMatcher'
    <2>1. \A v \in Workers : At(v, "auto")' => At(v, "auto")
      BY DEF Posts, OthersKept, At
    <2>2. \A v \in Workers : work'[v].links = work[v].links
      BY DEF Posts, OthersKept
    <2>3. QED
      BY <1>0, <1>6, <1>7, <2>1, <2>2, MatcherKept, LinesOfLinks
  <1>10. QED
    BY <1>3, <1>4, <1>5, <1>6, <1>8, <1>9 DEF IInv

LEMMA Reconciling ==
  ASSUME IInv, NEW w \in Workers, Reconciles(w)
  PROVE  IInv'
  <1>0. /\ Types /\ Lines' = Lines /\ Ids' = Ids /\ Ages /\ JobOK(w)
        /\ UNCHANGED <<entries, open, reopened, troubled>> /\ Calm' = Calm
    BY DEF IInv, Types, JobsOK, Reconciles, Ids, Ages, Calm
  <1>1. PICK r \in ReconRow : /\ r.line = work[w].line /\ r.type = "entry" /\ r.target = work[w].entry
                              /\ r.by \in {"post", "link"} /\ recon' = recon \cup {r}
    BY DEF Reconciles
  <1>2. LinesOf(work[w]) = {work[w].line} /\ work[w].line \in Lines /\ r.target \in Ids
    BY <1>0, <1>1 DEF Reconciles, JobOK
  <1>11. LinesOf(work'[w]) = {} /\ work'[w].links = {} /\ work'[w].at = "idle"
    BY IdleFacts DEF Reconciles
  <1>3. Types'
    <2>2. \A v \in Workers : JobOK(v)'
      BY <1>0, IdleJob, OthersJobs DEF Reconciles
    <2>3. reopened' \subseteq Lines' /\ troubled' \subseteq Lines' /\ entries' \in Seq(EntryRow)
      BY <1>0, TypeFacts DEF Types, TypeOK
    <2>5. r.line \in Lines' /\ r.target \in Ids'
      BY <1>0, <1>1, <1>2
    <2>4. QED
      BY <1>0, <1>1, <2>2, <2>3, <2>5, TypesStep DEF Reconciles
  <1>4. RefsOK'
    BY <1>0 DEF IInv, RefsOK
  <1>5. PaidMatched' /\ PaysOnce'
    BY <1>0, <1>1, PaysKept DEF Reconciles
  <1>6. ClaimedOnce' /\ \A e : Claimed(e)' => Claimed(e)
    BY <1>0, <1>1, ClaimsKept
  <1>7. \A v \in Workers : \A i : WorksOn(v, i)' => v # w /\ WorksOn(v, i)
    BY <1>11 DEF WorksOn, Reconciles, OthersKept
  <1>8. ASSUME NEW i \in Calm' PROVE CalmOK(i)'
    <2>1. i \in Calm /\ CalmOK(i)
      BY <1>0 DEF IInv
    <2>2. \A e \in Ids' : MadeFrom(e, i)' => e \in Ids /\ MadeFrom(e, i)
      BY <1>0 DEF MadeFrom
    <2>3. CASE i # work[w].line
      <3>1. \A v \in Workers : \A e : Books(v, i, e) => Books(v, i, e)'
        BY <2>3 DEF Books, Reconciles, OthersKept
      <3>2. lines'[i] = lines[i] /\ recon \subseteq recon' /\ \A q \in recon' : q.line = i => q \in recon
        BY <1>1, <2>1, <2>3 DEF Reconciles, Calm
      <3>3. QED
        BY <1>7, <2>1, <2>2, <3>1, <3>2, LineKept
    <2>4. CASE i = work[w].line
      <3>1. WorksOn(w, i)
        BY <1>2, <2>4 DEF WorksOn
      <3>2. lines[i].state = "unmatched" /\ \A v \in Workers : WorksOn(v, i) => v = w
        BY <2>1, <3>1 DEF CalmOK
      <3>3. \A q \in recon : q.line # i
        BY <2>1, <3>2 DEF CalmOK
      <3>4. lines'[i].state = "matched"
        BY <2>4 DEF Reconciles
      <3>5. \E p \in recon' : p.line = i /\ \A q \in recon' : q.line = i => q = p
        BY <1>1, <2>4, <3>3
      <3>6. (\A v, u \in Workers : WorksOn(v, i) /\ WorksOn(u, i) => v = u)'
        BY <1>7, <3>2
      <3>7. (\A v \in Workers : ~WorksOn(v, i))'
        BY <1>7, <3>2
      <3>8. (\A e, f \in Ids : MadeFrom(e, i) /\ MadeFrom(f, i) => e = f)'
        BY <2>1, <2>2 DEF CalmOK
      <3>9. QED
        BY <3>4, <3>5, <3>6, <3>7, <3>8 DEF CalmOK
    <2>5. QED
      BY <2>3, <2>4
  <1>9. OneMatcher'
    <2>1. \A v \in Workers : At(v, "auto")' => At(v, "auto")
      BY <1>11 DEF Reconciles, OthersKept, At
    <2>2. \A v \in Workers : \A m \in work'[v].links : m \in work[v].links
      BY <1>11 DEF Reconciles, OthersKept
    <2>3. QED
      BY <1>0, <1>6, <1>7, <2>1, <2>2, MatcherKept, LinesOfLinks
  <1>10. QED
    BY <1>3, <1>4, <1>5, <1>6, <1>8, <1>9 DEF IInv

LEMMA Stopping ==
  ASSUME IInv, NEW w \in Workers, Stops(w)
  PROVE  IInv'
  <1>0. /\ Types /\ Lines' = Lines /\ Ids' = Ids /\ Ages /\ JobOK(w)
        /\ UNCHANGED <<lines, entries, open, recon, reopened>>
    BY DEF IInv, Types, JobsOK, Stops, Ids, Lines, Ages
  <1>1. LinesOf(work'[w]) = {} /\ work'[w].links = {} /\ work'[w].at = "idle"
    BY IdleFacts DEF Stops
  <1>2. troubled' \subseteq Lines
    <2>1. {work[w].line} \ {0} \subseteq Lines
      BY <1>0 DEF JobOK, LinesOf
    <2>2. QED
      BY <1>0, <2>1 DEF Stops, Types, TypeOK
  <1>3. Types'
    <2>2. \A v \in Workers : JobOK(v)'
      BY <1>0, IdleJob, OthersJobs DEF Stops
    <2>3. lines' \in Seq(LineRow) /\ reopened' \subseteq Lines' /\ entries' \in Seq(EntryRow)
      BY <1>0, TypeFacts DEF Types, TypeOK
    <2>4. QED
      BY <1>0, <1>2, <2>2, <2>3, TypesStep DEF Stops
  <1>4. RefsOK'
    BY <1>0 DEF IInv, RefsOK
  <1>5. PaidMatched' /\ PaysOnce'
    BY <1>0, PaysKept
  <1>6. ClaimedOnce' /\ \A e : Claimed(e)' => Claimed(e)
    BY <1>0, ClaimsKept
  <1>7. \A v \in Workers : \A i : WorksOn(v, i)' => v # w /\ WorksOn(v, i)
    BY <1>1 DEF WorksOn, Stops, OthersKept
  <1>8. ASSUME NEW i \in Calm' PROVE CalmOK(i)'
    <2>1. i \in Calm /\ CalmOK(i)
      BY <1>0, CalmBefore DEF Calm, IInv
    <2>2. \A e \in Ids' : MadeFrom(e, i)' => e \in Ids /\ MadeFrom(e, i)
      BY <1>0 DEF MadeFrom
    <2>3. \A e : ~Books(w, i, e)
      <3>1. SUFFICES ASSUME NEW e, Books(w, i, e) PROVE FALSE
        OBVIOUS
      <3>2. work[w].at \in {"post", "mark"} /\ i = work[w].line /\ i # 0
        BY <2>1, <3>1, TypeFacts DEF Books, Calm, IInv
      <3>3. LinesOf(work[w]) = {i}
        BY <1>0, <3>2 DEF JobOK
      <3>4. lines[i].state = "unmatched"
        BY <2>1, <3>3 DEF CalmOK, WorksOn
      <3>5. \A r \in recon : r.line # i
        BY <2>1, <3>4 DEF CalmOK
      <3>6. i \in troubled'
        BY <3>2, <3>5 DEF Stops, At
      <3>7. QED
        BY <3>6 DEF Calm
    <2>4. \A v \in Workers : \A e : Books(v, i, e) => Books(v, i, e)'
      BY <2>3 DEF Books, Stops, OthersKept
    <2>5. QED
      BY <1>0, <1>7, <2>1, <2>2, <2>4, LineKept
  <1>9. OneMatcher'
    <2>1. \A v \in Workers : At(v, "auto")' => At(v, "auto")
      BY <1>1 DEF Stops, OthersKept, At
    <2>2. \A v \in Workers : \A m \in work'[v].links : m \in work[v].links
      BY <1>1 DEF Stops, OthersKept
    <2>3. QED
      BY <1>0, <1>6, <1>7, <2>1, <2>2, MatcherKept, LinesOfLinks
  <1>10. QED
    BY <1>3, <1>4, <1>5, <1>6, <1>8, <1>9 DEF IInv

LEMMA Picking ==
  ASSUME IInv, NEW w \in Workers, Picks(w)
  PROVE  IInv'
  <1>0. /\ Types /\ Lines' = Lines /\ Ids' = Ids /\ Ages
        /\ UNCHANGED <<lines, entries, open, recon, reopened, troubled>> /\ Calm' = Calm
    BY DEF IInv, Picks, Ids, Lines, Ages, Calm
  <1>3. Types'
    <2>2. \A v \in Workers : JobOK(v)'
      BY <1>0, OthersJobs DEF Picks
    <2>3. /\ lines' \in Seq(LineRow) /\ reopened' \subseteq Lines' /\ troubled' \subseteq Lines'
          /\ entries' \in Seq(EntryRow)
      BY <1>0, TypeFacts DEF Types, TypeOK
    <2>4. QED
      BY <1>0, <2>2, <2>3, TypesStep DEF Picks
  <1>4. RefsOK'
    BY <1>0 DEF IInv, RefsOK
  <1>5. PaidMatched' /\ PaysOnce'
    BY <1>0, PaysKept
  <1>6. ClaimedOnce' /\ \A e : Claimed(e)' => Claimed(e)
    BY <1>0, ClaimsKept
  <1>7. \A v \in Workers : \A i : WorksOn(v, i)' => WorksOn(v, i)
    BY DEF WorksOn, Picks, OthersKept
  <1>8. ASSUME NEW i \in Calm' PROVE CalmOK(i)'
    <2>1. \A v \in Workers : \A e : Books(v, i, e) => Books(v, i, e)'
      BY DEF Books, Picks, OthersKept, At
    <2>2. \A e \in Ids' : MadeFrom(e, i)' => e \in Ids /\ MadeFrom(e, i)
      BY <1>0 DEF MadeFrom
    <2>3. QED
      BY <1>0, <1>7, <2>1, <2>2, LineKept
  <1>9. OneMatcher'
    <2>1. \A v \in Workers : At(v, "auto")' => At(v, "auto")
      BY DEF Picks, OthersKept, At
    <2>2. \A e : ~Reconciled(e) => ~Claimed(e)
      BY DEF Reconciled, Claimed
    <2>3. \A v \in Workers : \A m \in work'[v].links : m \in work[v].links \/ ~Claimed(m.entry)
      BY <2>2 DEF Picks, OthersKept
    <2>4. QED
      BY <1>0, <1>6, <1>7, <2>1, <2>3, MatcherKept, LinesOfLinks
  <1>10. QED
    BY <1>3, <1>4, <1>5, <1>6, <1>8, <1>9 DEF IInv

LEMMA Writing ==
  ASSUME IInv, NEW w \in Workers, Writes(w)
  PROVE  IInv'
  <1>0. /\ Types /\ Lines' = Lines /\ Ids \subseteq Ids' /\ Ages /\ JobOK(w) /\ work[w] \in JobRow
        /\ UNCHANGED <<reopened, troubled>> /\ Calm' = Calm
    BY TypeFacts DEF IInv, Types, JobsOK, Writes, Ages, Calm
  <1>1. PICK k \in JobRow : k = work[w]
    BY <1>0
  <1>2. /\ PlanOK(k) /\ k.line = 0 /\ k.queue = {} /\ LinesOf(k) \subseteq Lines
        /\ \A m \in k.links : m.entry \in Ids
        /\ recon' = recon \cup MatchRows(k) /\ Applies(k) /\ open' = StillOpen(k.pays)
    BY <1>0, <1>1 DEF Writes, JobOK, At
  <1>3. /\ \A r \in MatchRows(k) :
              /\ r \in ReconRow /\ r.by = "auto" /\ r.line \in LinesOf(k)
              /\ r.type = "entry" => \E m \in k.links : r.line = m.line /\ r.target = m.entry
              /\ r.type = "invoice" => \E j \in DOMAIN k.pays : r.line = k.pays[j].line /\ r.target = k.pays[j].invoice
        /\ \A i \in LinesOf(k) : \E r \in MatchRows(k) : r.line = i
        /\ \A r, q \in MatchRows(k) : r.line = q.line \/ (r.type = q.type /\ r.target = q.target) => r = q
    BY <1>2, RowsOfPlan
  <1>4. LinesOf(work'[w]) = {} /\ work'[w].links = {} /\ work'[w].at = "idle"
    BY IdleFacts DEF Writes
  <1>5. Types'
    <2>1. \A v \in Workers : JobOK(v)'
      BY <1>0, IdleJob, OthersJobs DEF Writes
    <2>2. reopened' \subseteq Lines' /\ troubled' \subseteq Lines' /\ open' \subseteq open
      BY <1>0, <1>2 DEF Types, TypeOK, StillOpen
    <2>3. ASSUME NEW r \in MatchRows(k)
          PROVE  /\ r \in ReconRow /\ r.line \in Lines'
                 /\ IF r.type = "entry" THEN r.target \in Ids' ELSE r.target \in DOMAIN Owed \ open'
      <3>1. r \in ReconRow /\ r.line \in Lines'
        BY <1>0, <1>2, <1>3
      <3>2. r.type = "entry" => r.target \in Ids'
        BY <1>0, <1>2, <1>3
      <3>3. ASSUME r.type = "invoice" PROVE r.target \in DOMAIN Owed \ open'
        <4>1. PICK j \in DOMAIN k.pays : r.target = k.pays[j].invoice
          BY <1>3, <3>3
        <4>2. r.target \in open /\ r.target \notin open'
          BY <1>2, <4>1 DEF Applies, StillPays, StillOpen
        <4>3. QED
          BY <1>0, <4>2 DEF Types, TypeOK
      <3>4. r.type \in {"entry", "invoice"}
        BY <3>1 DEF ReconRow
      <3>5. QED
        BY <3>1, <3>2, <3>3, <3>4
    <2>4. QED
      BY <1>0, <1>2, <2>1, <2>2, <2>3, TypesStep DEF Writes
  <1>6. RefsOK'
    <2>1. ASSUME NEW e \in Ids', entries'[e].source = "bank" PROVE entries'[e].ref \in Lines
      <3>1. CASE e \in Ids
        BY <2>1, <3>1 DEF Writes, IInv, RefsOK
      <3>2. CASE e \notin Ids
        <4>1. PICK j \in DOMAIN k.pays : entries'[e].ref = k.pays[j].line
          BY <1>1, <3>2 DEF Writes
        <4>2. QED
          BY <1>2, <4>1 DEF LinesOf
      <3>3. QED
        BY <3>1, <3>2
    <2>2. QED
      BY <1>0, <2>1 DEF RefsOK
  <1>7. \A v \in Workers : \A i : WorksOn(v, i)' => v # w /\ WorksOn(v, i)
    BY <1>4 DEF WorksOn, Writes, OthersKept
  <1>8. \A i \in Lines : IF i \in LinesOf(k) THEN lines'[i].state = "matched" ELSE lines'[i] = lines[i]
    BY <1>1 DEF Writes
  <1>9. PaidMatched'
    <2>1. SUFFICES ASSUME NEW r \in recon', r.type = "invoice", r.line \notin reopened'
                   PROVE  lines'[r.line].state = "matched"
      BY DEF PaidMatched
    <2>2. CASE r \in recon
      <3>1. lines[r.line].state = "matched" /\ r.line \in Lines
        BY <1>0, <2>1, <2>2, TypeFacts DEF IInv, PaidMatched
      <3>2. QED
        BY <1>8, <3>1
    <2>3. CASE r \in MatchRows(k)
      BY <1>2, <1>3, <1>8, <2>3
    <2>4. QED
      BY <1>2, <2>2, <2>3
  <1>10. PaysOnce'
    <2>1. \A r \in MatchRows(k) : r.type = "invoice" => r.target \in open /\ lines[r.line].state = "unmatched"
      BY <1>2, <1>3 DEF Applies, StillPays
    <2>2. \A r \in recon : r.type = "invoice" => r.target \notin open
      BY <1>0 DEF Types, TypeOK
    <2>3. \A r \in recon : r.type = "invoice" /\ r.line \notin reopened => lines[r.line].state = "matched"
      BY DEF IInv, PaidMatched
    <2>4. SUFFICES ASSUME NEW r \in recon', NEW q \in recon', r.type = "invoice", q.type = "invoice",
                          r.target = q.target \/ (r.line = q.line /\ r.line \notin reopened)
                   PROVE  r = q
      BY <1>0 DEF PaysOnce
    <2>5. CASE r \in recon /\ q \in recon
      BY <2>4, <2>5 DEF IInv, PaysOnce
    <2>6. CASE r \in MatchRows(k) /\ q \in MatchRows(k)
      BY <1>3, <2>4, <2>6
    <2>7. r \in recon => q \notin MatchRows(k)
      BY <2>1, <2>2, <2>3, <2>4
    <2>8. q \in recon => r \notin MatchRows(k)
      BY <2>1, <2>2, <2>3, <2>4
    <2>9. QED
      BY <1>2, <2>5, <2>6, <2>7, <2>8
  <1>11. ASSUME NEW i \in Calm' PROVE CalmOK(i)'
    <2>1. i \in Calm /\ CalmOK(i) /\ i \in Lines
      BY <1>0 DEF IInv, Calm
    <2>2. \A e \in Ids : MadeFrom(e, i)' => MadeFrom(e, i)
      BY DEF MadeFrom, Writes
    <2>3. CASE i \notin LinesOf(k)
      <3>1. \A v \in Workers : \A e : Books(v, i, e) => Books(v, i, e)'
        BY <1>0 DEF Books, Writes, OthersKept, At
      <3>2. lines'[i] = lines[i] /\ recon \subseteq recon' /\ \A q \in recon' : q.line = i => q \in recon
        BY <1>2, <1>3, <1>8, <2>1, <2>3
      <3>3. \A e \in Ids' \ Ids : ~MadeFrom(e, i)'
        <4>1. \A e \in Ids' \ Ids : entries'[e].ref \in LinesOf(k)
          BY <1>1 DEF Writes, LinesOf
        <4>2. QED
          BY <2>3, <4>1 DEF MadeFrom
      <3>4. QED
        BY <1>7, <2>1, <2>2, <3>1, <3>2, <3>3, LineKept
    <2>4. CASE i \in LinesOf(k)
      <3>1. WorksOn(w, i)
        BY <1>1, <2>4 DEF WorksOn
      <3>2. lines[i].state = "unmatched" /\ \A v \in Workers : WorksOn(v, i) => v = w
        BY <2>1, <3>1 DEF CalmOK
      <3>3. \A q \in recon : q.line # i
        BY <2>1, <3>2 DEF CalmOK
      <3>4. lines'[i].state = "matched"
        BY <1>8, <2>1, <2>4
      <3>5. \E p \in recon' : p.line = i /\ \A q \in recon' : q.line = i => q = p
        BY <1>2, <1>3, <2>4, <3>3
      <3>6. (\A v \in Workers : ~WorksOn(v, i))'
        BY <1>7, <3>2
      <3>7. \A e \in Ids : ~MadeFrom(e, i)
        <4>1. \A v \in Workers : \A e : Books(v, i, e) => WorksOn(v, i) /\ v # w
          BY DEF Books, WorksOn, IInv, Types, JobsOK, JobOK, Writes, At
        <4>2. QED
          BY <2>1, <3>2, <4>1 DEF CalmOK
      <3>8. \A e, f \in Ids' : MadeFrom(e, i)' /\ MadeFrom(f, i)' => e = f
        <4>1. \A e \in Ids' : MadeFrom(e, i)' => e \in Ids' \ Ids /\ entries'[e].ref = i
          BY <2>2, <3>7 DEF MadeFrom
        <4>2. QED
          BY <4>1 DEF Writes
      <3>9. QED
        BY <3>4, <3>5, <3>6, <3>8 DEF CalmOK
    <2>5. QED
      BY <2>3, <2>4
  <1>12. ClaimedOnce'
    <2>1. SUFFICES ASSUME NEW r \in recon', NEW q \in recon', r.type = "entry", q.type = "entry",
                          r.by = "auto", q.by = "auto", r.line \in Calm, q.line \in Calm, r.target = q.target
                   PROVE  r = q
      BY <1>0 DEF ClaimedOnce
    <2>2. \A x \in MatchRows(k), y \in recon :
            x.type = "entry" /\ x.line \in Calm /\ y.type = "entry" /\ y.by = "auto" /\ y.line \in Calm
              => x.target # y.target
      <3>1. SUFFICES ASSUME NEW x \in MatchRows(k), NEW y \in recon, x.type = "entry", x.line \in Calm,
                            y.type = "entry", y.by = "auto", y.line \in Calm
                     PROVE  x.target # y.target
        OBVIOUS
      <3>2. PICK m \in k.links : x.line = m.line /\ x.target = m.entry
        BY <1>3, <3>1
      <3>3. ~Claimed(m.entry)
        BY <1>1, <3>1, <3>2 DEF IInv, OneMatcher, Writes
      <3>4. QED
        BY <3>1, <3>2, <3>3 DEF Claimed
    <2>3. CASE r \in recon /\ q \in recon
      BY <2>1, <2>3 DEF IInv, ClaimedOnce
    <2>4. CASE r \in MatchRows(k) /\ q \in MatchRows(k)
      BY <1>3, <2>1, <2>4
    <2>5. QED
      BY <1>2, <2>1, <2>2, <2>3, <2>4
  <1>13. OneMatcher'
    <2>1. \A v \in Workers : \A i : Matches(v, i)' => v # w /\ Matches(v, i)
      BY <1>7 DEF Matches, At, Writes, OthersKept
    <2>2. (\A v, u \in Workers : \A i, j \in Calm : Matches(v, i) /\ Matches(u, j) => v = u)'
      BY <1>0, <2>1 DEF IInv, OneMatcher
    <2>3. ASSUME NEW v \in Workers, NEW m \in work'[v].links, At(v, "auto")', m.line \in Calm', Claimed(m.entry)'
          PROVE  FALSE
      <3>1. v # w /\ work'[v] = work[v] /\ At(v, "auto") /\ m \in work[v].links /\ m.line \in Calm
        BY <1>0, <1>4, <2>3 DEF Writes, OthersKept, At
      <3>2. PICK r \in recon' : r.type = "entry" /\ r.by = "auto" /\ r.line \in Calm /\ r.target = m.entry
        BY <1>0, <2>3 DEF Claimed
      <3>3. CASE r \in recon
        BY <3>1, <3>2, <3>3 DEF IInv, OneMatcher, Claimed
      <3>4. CASE r \in MatchRows(k)
        <4>1. Matches(w, r.line) /\ Matches(v, m.line)
          BY <1>1, <1>3, <3>1, <3>4, LinesOfLinks DEF Matches, WorksOn, Writes
        <4>2. QED
          BY <3>1, <3>2, <4>1 DEF IInv, OneMatcher
      <3>5. QED
        BY <1>2, <3>2, <3>3, <3>4
    <2>4. QED
      BY <2>2, <2>3 DEF OneMatcher
  <1>14. QED
    BY <1>5, <1>6, <1>9, <1>10, <1>11, <1>12, <1>13 DEF IInv

LEMMA Importing ==
  ASSUME IInv, Imports
  PROVE  IInv'
  <1>0. /\ Types /\ Lines \subseteq Lines' /\ Ids' = Ids /\ Ages
        /\ UNCHANGED <<entries, open, recon, work, reopened, troubled>>
    BY DEF IInv, Imports, Ids, Ages
  <1>1. Types'
    <2>1. \A v \in Workers : JobOK(v)'
      BY <1>0, JobsKept
    <2>2. /\ reopened' \subseteq Lines' /\ troubled' \subseteq Lines' /\ entries' \in Seq(EntryRow)
          /\ work' \in [Workers -> JobRow]
      BY <1>0 DEF Types, TypeOK, JobsOK
    <2>3. QED
      BY <1>0, <2>1, <2>2, TypesStep DEF Imports
  <1>2. RefsOK'
    BY <1>0 DEF IInv, RefsOK
  <1>3. PaidMatched' /\ PaysOnce'
    BY <1>0, PaysKept DEF Imports
  <1>4. ClaimedOnce' /\ \A e : Claimed(e)' => Claimed(e)
    BY <1>0, ClaimsKept
  <1>5. ASSUME NEW i \in Calm' PROVE CalmOK(i)'
    <2>1. CASE i \in Lines
      <3>1. i \in Calm
        BY <1>0, <2>1, CalmBefore
      <3>2. lines'[i] = lines[i]
        BY <2>1 DEF Imports
      <3>3. \A e \in Ids' : MadeFrom(e, i)' => e \in Ids /\ MadeFrom(e, i)
        BY <1>0 DEF MadeFrom
      <3>4. \A v \in Workers : WorksOn(v, i)' => WorksOn(v, i)
        BY <1>0 DEF WorksOn
      <3>5. \A v \in Workers : \A e : Books(v, i, e) => Books(v, i, e)'
        BY <1>0 DEF Books
      <3>6. QED
        BY <1>0, <3>1, <3>2, <3>3, <3>4, <3>5, LineKept
    <2>2. CASE i \notin Lines
      <3>1. lines'[i].state = "unmatched"
        BY <2>2 DEF Imports, Calm
      <3>2. \A v \in Workers : ~WorksOn(v, i)'
        BY <1>0, <2>2, TypeFacts DEF WorksOn
      <3>3. \A r \in recon' : r.line # i
        BY <1>0, <2>2, TypeFacts
      <3>4. \A e \in Ids' : ~MadeFrom(e, i)'
        BY <1>0, <2>2 DEF IInv, RefsOK, MadeFrom
      <3>5. QED
        BY <3>1, <3>2, <3>3, <3>4 DEF CalmOK
    <2>3. QED
      BY <2>1, <2>2
  <1>6. OneMatcher'
    BY <1>0, <1>4, MatcherKept, LinesOfLinks DEF WorksOn, At
  <1>7. QED
    BY <1>1, <1>2, <1>3, <1>4, <1>5, <1>6 DEF IInv

LEMMA Setting ==
  ASSUME IInv, NEW i \in Lines, Sets(i)
  PROVE  IInv'
  <1>0. /\ Types /\ Lines' = Lines /\ Ids' = Ids /\ Ages
        /\ UNCHANGED <<entries, open, recon, work>>
    BY DEF IInv, Sets, Ids, Ages
  <1>1. Types'
    <2>1. \A v \in Workers : JobOK(v)'
      BY <1>0, JobsKept
    <2>2. /\ reopened' \subseteq Lines' /\ troubled' \subseteq Lines' /\ entries' \in Seq(EntryRow)
          /\ work' \in [Workers -> JobRow]
      BY <1>0 DEF Types, TypeOK, JobsOK, Sets, Contended
    <2>3. QED
      BY <1>0, <2>1, <2>2, TypesStep DEF Sets
  <1>2. RefsOK'
    BY <1>0 DEF IInv, RefsOK
  <1>3. PaidMatched' /\ PaysOnce'
    BY <1>0, PaysKept DEF Sets
  <1>4. ClaimedOnce' /\ \A e : Claimed(e)' => Claimed(e)
    BY <1>0, ClaimsKept
  <1>5. ASSUME NEW j \in Calm' PROVE CalmOK(j)'
    <2>1. j \in Calm /\ j \in Lines /\ CalmOK(j)
      BY <1>0, CalmBefore DEF Calm, IInv
    <2>2. \A e \in Ids' : MadeFrom(e, j)' => e \in Ids /\ MadeFrom(e, j)
      BY <1>0 DEF MadeFrom
    <2>3. \A v \in Workers : WorksOn(v, j)' => WorksOn(v, j)
      BY <1>0 DEF WorksOn
    <2>4. \A v \in Workers : \A e : Books(v, j, e) => Books(v, j, e)'
      BY <1>0 DEF Books
    <2>5. CASE j # i
      BY <1>0, <2>1, <2>2, <2>3, <2>4, <2>5, LineKept DEF Sets
    <2>6. CASE j = i
      <3>1. \A v \in Workers : ~WorksOn(v, i)
        BY <2>6 DEF Sets, Calm, Contended, WorksOn
      <3>2. lines[i].state # "matched" /\ lines'[i].state # "matched"
        BY <2>6 DEF Sets, Calm
      <3>3. \A v \in Workers : \A e : ~Books(v, i, e)
        BY <3>1 DEF Books, WorksOn, IInv, Types, JobsOK, JobOK
      <3>4. \A e \in Ids : ~MadeFrom(e, i)
        BY <2>1, <2>6, <3>2, <3>3 DEF CalmOK
      <3>5. \A r \in recon' : r.line # i
        BY <1>0, <2>1, <2>6, <3>2 DEF CalmOK
      <3>6. \A v \in Workers : ~WorksOn(v, i)'
        BY <2>3, <2>6, <3>1
      <3>7. \A e \in Ids' : ~MadeFrom(e, i)'
        BY <2>2, <2>6, <3>4
      <3>8. QED
        BY <2>6, <3>2, <3>5, <3>6, <3>7 DEF CalmOK
    <2>7. QED
      BY <2>5, <2>6
  <1>6. OneMatcher'
    BY <1>0, <1>4, MatcherKept, LinesOfLinks DEF WorksOn, At
  <1>7. QED
    BY <1>1, <1>2, <1>3, <1>4, <1>5, <1>6 DEF IInv

LEMMA Adding ==
  ASSUME IInv, AddsOther
  PROVE  IInv'
  <1>0. /\ Types /\ Lines' = Lines /\ Ages
        /\ UNCHANGED <<lines, open, recon, work, reopened, troubled>> /\ Calm' = Calm
    BY DEF IInv, AddsOther, Lines, Ages, Calm
  <1>1. PICK row : Adds(row) /\ row.source # "bank"
    BY DEF AddsOther
  <1>2. Ids \subseteq Ids'
    BY <1>1 DEF Adds
  <1>3. Types'
    <2>1. \A v \in Workers : JobOK(v)'
      BY <1>0, <1>2, JobsKept
    <2>2. /\ reopened' \subseteq Lines' /\ troubled' \subseteq Lines' /\ work' \in [Workers -> JobRow]
          /\ lines' \in Seq(LineRow)
      BY <1>0, TypeFacts DEF Types, TypeOK, JobsOK
    <2>3. QED
      BY <1>0, <1>1, <1>2, <2>1, <2>2, TypesStep DEF Adds
  <1>4. RefsOK'
    BY <1>0, <1>1 DEF IInv, RefsOK, Adds
  <1>5. PaidMatched' /\ PaysOnce'
    BY <1>0, PaysKept
  <1>6. ClaimedOnce' /\ \A e : Claimed(e)' => Claimed(e)
    BY <1>0, ClaimsKept
  <1>7. ASSUME NEW j \in Calm' PROVE CalmOK(j)'
    <2>1. \A e \in Ids' : MadeFrom(e, j)' => e \in Ids /\ MadeFrom(e, j)
      BY <1>1 DEF MadeFrom, Adds
    <2>2. \A v \in Workers : WorksOn(v, j)' => WorksOn(v, j)
      BY <1>0 DEF WorksOn
    <2>3. \A v \in Workers : \A e : Books(v, j, e) => Books(v, j, e)'
      BY <1>0 DEF Books
    <2>4. QED
      BY <1>0, <2>1, <2>2, <2>3, LineKept
  <1>8. OneMatcher'
    BY <1>0, <1>6, MatcherKept, LinesOfLinks DEF WorksOn, At
  <1>9. QED
    BY <1>3, <1>4, <1>5, <1>6, <1>7, <1>8 DEF IInv

----------------------------------------------------------------------------------
(* The invariant and the theorems. *)

LEMMA InitIInv == Init => IInv
  <1> SUFFICES ASSUME Init PROVE IInv
    OBVIOUS
  <1>1. Types /\ RefsOK
    BY InitTypes
  <1>2. recon = {} /\ Calm = {}
    BY DEF Init, Calm, Lines
  <1>3. \A w \in Workers : work[w].links = {}
    BY IdleFacts DEF Init
  <1>4. QED
    BY <1>1, <1>2, <1>3 DEF IInv, PaidMatched, PaysOnce, OneMatcher, ClaimedOnce

LEMMA NextIInv == IInv /\ [Next]_vars => IInv'
  <1> SUFFICES ASSUME IInv, [Next]_vars PROVE IInv'
    OBVIOUS
  <1>1. ASSUME NEW w \in Workers, Step(w) PROVE IInv'
    <2>1. CASE \/ \E i \in Lines : BookLine(w, i) \/ \E e \in Ids : Link(w, i, e)
               \/ AutoMatch(w)
      BY <2>1, StartWrites, Starting
    <2>2. CASE CreateEntry(w)
      BY <2>2, CreateWrites, Creating
    <2>3. CASE PostEntry(w)
      BY <2>3, PostWrites, Posting
    <2>4. CASE MarkMatched(w) \/ WriteLink(w)
      BY <2>4, ReconcileWrites, Reconciling
    <2>5. CASE PairFails(w) \/ AutoEnds(w) \/ Crash(w)
      BY <2>5, StopWrites, Stopping
    <2>6. CASE MatchLine(w)
      BY <2>6, PickWrites, Picking
    <2>7. CASE ApplyMatches(w)
      BY <2>7, ApplyWrites, Writing
    <2>8. QED
      BY <1>1, <2>1, <2>2, <2>3, <2>4, <2>5, <2>6, <2>7 DEF Step
  <1>2. ASSUME NEW file \in Statements, Import(file) PROVE IInv'
    BY <1>2, ImportWrites, Importing
  <1>3. ASSUME NEW i \in Lines, NEW state \in {"unmatched", "ignored"}, SetState(i, state) PROVE IInv'
    BY <1>3, SetWrites, Setting
  <1>4. CASE \/ \E amount \in Manual : Book(amount)
             \/ \E e \in Ids : ReverseEntry(e)
    BY <1>4, OtherWrites, Adding
  <1>5. CASE UNCHANGED vars
    BY <1>5, TypesStutter
  <1>6. QED
    BY <1>1, <1>2, <1>3, <1>4, <1>5 DEF Next

LEMMA Invariance == Spec => []IInv
  BY InitIInv, NextIInv, PTL DEF Spec

(***************************************************************************)
(* Every variable keeps its type, whoever matches, books, links or dies.   *)
(***************************************************************************)
THEOREM TypeCorrect == Spec => []TypeOK
  <1>1. IInv => TypeOK
    BY DEF IInv, Types
  <1>2. QED
    BY <1>1, Invariance, PTL

(***************************************************************************)
(* An invoice is settled by one bank line, and a line settles one invoice  *)
(* unless a person reopened it: what payment_from_bank reads again in the  *)
(* transaction is enough, however many processes match at once.            *)
(***************************************************************************)
THEOREM InvoicesPaidOnce == Spec => []PaysOnce
  <1>1. IInv => PaysOnce
    BY DEF IInv
  <1>2. QED
    BY <1>1, Invariance, PTL

(***************************************************************************)
(* A line that one command at a time worked on, to its end, has exactly    *)
(* one reconciliation when it is matched and none before, at most one      *)
(* entry made from it, and automatic matching reconciled it with no entry  *)
(* that another such line is reconciled with (an entry by which a line     *)
(* paid an invoice is in no row, and excepted).                            *)
(***************************************************************************)
THEOREM LinesMatchedOnce == Spec => []MatchedOnce
  <1>1. ASSUME IInv, NEW i \in Calm
        PROVE  /\ Cardinality({r \in recon : r.line = i}) = IF lines[i].state = "matched" THEN 1 ELSE 0
               /\ Cardinality({e \in Ids : entries[e].source = "bank" /\ entries[e].ref = i}) <= 1
    <2>1. CalmOK(i)
      BY <1>1 DEF IInv
    <2>2. Cardinality({r \in recon : r.line = i}) = IF lines[i].state = "matched" THEN 1 ELSE 0
      <3>1. CASE lines[i].state = "matched"
        <4>1. PICK p \in recon : p.line = i /\ \A q \in recon : q.line = i => q = p
          BY <2>1, <3>1 DEF CalmOK
        <4>2. {r \in recon : r.line = i} = {p}
          BY <4>1
        <4>3. QED
          BY <3>1, <4>2, FS_Singleton
      <3>2. CASE lines[i].state # "matched"
        <4>1. {r \in recon : r.line = i} = {}
          BY <2>1, <3>2 DEF CalmOK
        <4>2. QED
          BY <3>2, <4>1, FS_EmptySet
      <3>3. QED
        BY <3>1, <3>2
    <2>4. Cardinality({e \in Ids : entries[e].source = "bank" /\ entries[e].ref = i}) <= 1
      <3>1. CASE \E e \in Ids : MadeFrom(e, i)
        <4>1. PICK e \in Ids : MadeFrom(e, i)
          BY <3>1
        <4>2. {f \in Ids : entries[f].source = "bank" /\ entries[f].ref = i} = {e}
          BY <2>1, <4>1 DEF CalmOK, MadeFrom
        <4>3. QED
          BY <4>2, FS_Singleton
      <3>2. CASE \A e \in Ids : ~MadeFrom(e, i)
        <4>1. {f \in Ids : entries[f].source = "bank" /\ entries[f].ref = i} = {}
          BY <3>2 DEF MadeFrom
        <4>2. QED
          BY <4>1, FS_EmptySet
      <3>3. QED
        BY <3>1, <3>2
    <2>5. QED
      BY <2>2, <2>4
  <1>2. IInv => MatchedOnce
    BY <1>1 DEF IInv, MatchedOnce
  <1>3. QED
    BY <1>2, Invariance, PTL

==================================================================================
