---------------------------------- MODULE Store ----------------------------------
(***************************************************************************)
(* The files beside the books: attachments (src/attachments.rs), backups   *)
(* and restores (src/backup.rs).  The database is a main file and a WAL:   *)
(* a commit appends pages to the WAL, and the last connection to close     *)
(* writes them back and removes it.  A process that dies leaves its WAL.   *)
(*                                                                         *)
(* A page is the attachments table or the rest of the books, of which only *)
(* matters that a commit changes it.  Digests are documents; paths, sizes and *)
(* MIME types are left out, and of encryption only who holds the key.      *)
(***************************************************************************)
EXTENDS Integers, Sequences

CONSTANTS
  Commands,   \* processes
  Owners,     \* invoices and entries
  Documents,  \* contents of files
  Keys,       \* passphrases, NoKey among them
  NoKey,      \* a backup that is not encrypted
  Keeps,      \* values of --keep, 0 is none
  Scopes      \* bounds, one of which a behaviour keeps to

ASSUME StoreAssumption ==
  /\ "none" \notin Documents
  /\ NoKey \in Keys /\ Keeps \subseteq Nat
  /\ \A scope \in Scopes :
       /\ {scope.rows, scope.copies} \subseteq Nat /\ scope.contents \in Nat \ {0}
       /\ scope.users \cup scope.mortal \subseteq Commands

VARIABLES
  main, wal,  \* the database file and its WAL, from pages to contents
  copies,     \* documents in the attachments directory
  backups,    \* the default folder, oldest first; taken is the books' content
              \* at the time and only remembered
  command,    \* what each process is doing
  past        \* documents whose copy another row's removal took, on which
              \* commands overlapped, died or were set back; whether a
              \* process died since the WAL was removed; whether one died while
              \* it overwrote the main file; backups and restores;
              \* the scope: how many attachments are ever added, how many
              \* contents the rest of the books takes in turn, how many
              \* backups and restores, who runs commands and who may die

storeVars == <<main, wal, copies, backups, command, past>>

Pages == {"attachments", "rest"}

Visible == [page \in Pages |-> IF page \in DOMAIN wal THEN wal[page] ELSE main[page]]

Attached == Visible["attachments"].rows

Free == [at |-> "free", ref |-> 0, document |-> "none", mode |-> "none", id |-> 0, keep |-> 0,
         content |-> << >>, taken |-> << >>]

Does(p, step) == command[p].at = step

Content ==
  [attachments : [rows : SUBSET [id : Nat, ref : Owners, document : Documents, mode : {"db", "file"}], last : Nat],
   rest : Nat]

StoreTypeOK ==
  /\ main \in Content /\ DOMAIN wal \subseteq Pages /\ Visible \in Content
  /\ copies \subseteq Documents
  /\ backups \in Seq([content : Content, taken : Content, key : Keys])
  /\ command \in [Commands ->
       [at : {"free", "copy", "insert", "delete", "unlink", "record", "overwrite", "fill", "restored", "close",
              "prune"},
        ref : Owners \cup {0}, document : Documents \cup {"none"}, mode : {"none", "db", "file"},
        id : Nat, keep : Keeps \cup {0}, content : Content \cup {<< >>}, taken : Content \cup {<< >>}]]
  /\ past \in [shared : SUBSET Documents, torn : SUBSET Documents, died : BOOLEAN, half : BOOLEAN,
               copied : Nat, scope : Scopes]
  /\ \A p \in Commands : Does(p, "free") => command[p] = Free

StoreInit ==
  /\ main = [page \in Pages |-> IF page = "rest" THEN 0 ELSE [rows |-> {}, last |-> 0]]
  /\ wal = << >> /\ copies = {} /\ backups = << >>
  /\ command = [p \in Commands |-> Free]
  /\ \E scope \in Scopes : past = [shared |-> {}, torn |-> {}, died |-> FALSE, half |-> FALSE,
                                  copied |-> 0, scope |-> scope]

Goes(p, step) == command' = [command EXCEPT ![p].at = step]

\* Who has the database open.
Open == {p \in Commands : command[p].at \notin {"free", "overwrite", "fill", "prune"}}

\* SQLite opens no file that is shorter than its first page says.
Readable == ~past.half /\ \A p \in Commands : ~Does(p, "fill")

Write(page, content) == wal' = [x \in DOMAIN wal \cup {page} |-> IF x = page THEN content ELSE wal[x]]

\* The rest of the books after a commit.
NewRest == (Visible["rest"] + 1) % past.scope.contents

\* Documents a process is adding or removing.
Handled(p) == {command[p].document} \cap Documents

\* Two commands on one document.
Torn(p, document) ==
  IF \E q \in Commands \ {p} : document \in Handled(q) THEN past.torn \cup {document} ELSE past.torn

Alone(p) == Open \subseteq {p} /\ ~past.died /\ \A q \in Commands \ {p} : ~Does(q, "fill")

----------------------------------------------------------------------------------
(* attach add and attach remove. *)

\* The same document on the same invoice is refused.
Duplicate(ref, document) == \E row \in Attached : row.ref = ref /\ row.document = document

Add(p, ref, document, mode) ==
  /\ Does(p, "free") /\ Readable /\ Visible["attachments"].last < past.scope.rows
  /\ ~Duplicate(ref, document)
  /\ command' = [command EXCEPT ![p] = [Free EXCEPT !.at = IF mode = "file" THEN "copy" ELSE "insert",
                                                    !.ref = ref, !.document = document, !.mode = mode]]
  /\ past' = [past EXCEPT !.torn = Torn(p, document)]
  /\ UNCHANGED <<main, wal, copies, backups>>

\* A copy that is there already is written again.
Copy(p) ==
  /\ Does(p, "copy")
  /\ copies' = copies \cup {command[p].document}
  /\ Goes(p, "insert")
  /\ UNCHANGED <<main, wal, backups, past>>

Insert(p) ==
  LET id == Visible["attachments"].last + 1
      row == [id |-> id, ref |-> command[p].ref, document |-> command[p].document, mode |-> command[p].mode]
  IN  /\ Does(p, "insert")
      /\ Write("attachments", [rows |-> Attached \cup {row}, last |-> id])
      /\ Goes(p, "record")
      /\ UNCHANGED <<main, copies, backups, past>>

Detach(p, row) ==
  /\ Does(p, "free") /\ Readable
  /\ command' = [command EXCEPT ![p] = [Free EXCEPT !.at = "delete", !.id = row.id, !.document = row.document,
                                                    !.mode = row.mode]]
  /\ past' = [past EXCEPT !.torn = Torn(p, row.document)]
  /\ UNCHANGED <<main, wal, copies, backups>>

\* A restore may have given the id to another document's row.
Delete(p) ==
  LET gone == {row \in Attached : row.id = command[p].id}
  IN  /\ Does(p, "delete")
      /\ Write("attachments", [rows |-> Attached \ gone, last |-> Visible["attachments"].last])
      /\ Goes(p, IF command[p].mode = "file" THEN "unlink" ELSE "record")
      /\ past' = [past EXCEPT !.torn = @ \cup ({row.document : row \in gone} \ {command[p].document})]
      /\ UNCHANGED <<main, copies, backups>>

\* Faulty: the copy stays.
UnlinkedNothing(p) == copies

\* The copy goes although other rows may point to it.
Unlinked(p) == copies \ {command[p].document}

InFileMode(rows) == {row.document : row \in {r \in rows : r.mode = "file"}}

Unlink(p) ==
  /\ Does(p, "unlink")
  /\ copies' = Unlinked(p)
  /\ past' = [past EXCEPT !.shared = @ \cup ({command[p].document} \cap InFileMode(Attached))]
  /\ Goes(p, "record")
  /\ UNCHANGED <<main, wal, backups>>

----------------------------------------------------------------------------------
(* backup and restore. *)

\* Faulty: the file is copied, without the WAL.
SnapshotOfFile == main

\* The backup API copies what a reader sees, and starts over when somebody
\* writes meanwhile.
Snapshot == Visible

\* Encryption is that a backup is read with its own passphrase only.
Sealed(content, key) == [content |-> content, taken |-> Visible, key |-> key]

Unseals(key, k) == backups[k].key \in {NoKey, key}

Backup(p, key, keep) ==
  /\ Does(p, "free") /\ Readable /\ past.copied < past.scope.copies
  /\ backups' = Append(backups, Sealed(Snapshot, key))
  /\ command' = [command EXCEPT ![p] = [Free EXCEPT !.at = "record", !.keep = keep]]
  /\ past' = [past EXCEPT !.copied = @ + 1]
  /\ UNCHANGED <<main, wal, copies>>

\* With fewer backups than are to be kept the slice is out of range.
Panics(keep) == Len(backups) < keep

Pruned(keep) == SubSeq(backups, Len(backups) - keep + 1, Len(backups))

Prune(p) ==
  /\ Does(p, "prune")
  /\ backups' = IF Panics(command[p].keep) THEN backups ELSE Pruned(command[p].keep)
  /\ command' = [command EXCEPT ![p] = Free]
  /\ UNCHANGED <<main, wal, copies, past>>

\* restore --force over the books; a wrong passphrase is refused.
Restore(p, k, key) ==
  /\ Does(p, "free") /\ past.copied < past.scope.copies
  /\ Unseals(key, k)
  /\ command' = [command EXCEPT ![p] = [Free EXCEPT !.at = "overwrite", !.content = backups[k].content,
                                                    !.taken = backups[k].taken]]
  /\ past' = [past EXCEPT !.copied = @ + 1]
  /\ UNCHANGED <<main, wal, copies, backups>>

\* The copy begins by cutting the main file off, and its pages come after.
Truncate(p) ==
  /\ Does(p, "overwrite")
  /\ Goes(p, "fill")
  /\ UNCHANGED <<main, wal, copies, backups, past>>

\* The main file is overwritten, one that was left half copied too, and the
\* WAL beside it is not looked at.
Overwrite(p) ==
  LET before == Attached
      after == command[p].content["attachments"].rows
      differ == {row.document : row \in (before \ after) \cup (after \ before)}
  IN  /\ Does(p, "fill")
      /\ main' = command[p].content
      /\ Goes(p, "restored")
      /\ past' = [past EXCEPT !.torn = @ \cup differ, !.half = FALSE]
      /\ UNCHANGED <<wal, copies, backups>>

----------------------------------------------------------------------------------
(* What every command ends with, and the rest of the books. *)

\* record, in a commit of its own.
RecordBackup(p) ==
  /\ Does(p, "record") \/ Does(p, "restored")
  /\ Write("rest", NewRest)
  /\ Goes(p, "close")
  /\ UNCHANGED <<main, copies, backups, past>>

Close(p) ==
  /\ Does(p, "close")
  /\ command' = [command EXCEPT ![p] = IF @.keep > 0 THEN [@ EXCEPT !.at = "prune"] ELSE Free]
  /\ IF Open = {p}
     THEN main' = Visible /\ wal' = << >> /\ past' = [past EXCEPT !.died = FALSE]
     ELSE UNCHANGED <<main, wal, past>>
  /\ UNCHANGED <<copies, backups>>

\* Any command that books something.
Book(p) ==
  /\ Does(p, "free") /\ Readable /\ past.scope.contents > 1
  /\ Write("rest", NewRest)
  /\ command' = [command EXCEPT ![p].at = "close"]
  /\ UNCHANGED <<main, copies, backups, past>>

Kill(p) ==
  /\ ~Does(p, "free") /\ p \in past.scope.mortal
  /\ command' = [command EXCEPT ![p] = Free]
  /\ past' = [past EXCEPT !.died = @ \/ p \in Open, !.half = @ \/ Does(p, "fill"), !.torn = @ \cup Handled(p)]
  /\ UNCHANGED <<main, wal, copies, backups>>

Run(p) ==
  \/ \E ref \in Owners, document \in Documents, mode \in {"db", "file"} : Add(p, ref, document, mode)
  \/ \E row \in Attached : Detach(p, row)
  \/ Copy(p) \/ Insert(p) \/ Delete(p) \/ Unlink(p)
  \/ \E key \in Keys, keep \in Keeps : Backup(p, key, keep)
  \/ \E k \in DOMAIN backups, key \in Keys : Restore(p, k, key)
  \/ Truncate(p) \/ Overwrite(p) \/ Prune(p) \/ RecordBackup(p) \/ Close(p) \/ Book(p) \/ Kill(p)

StoreNext == \E p \in past.scope.users : Run(p)

StoreSpec == StoreInit /\ [][StoreNext]_storeVars

----------------------------------------------------------------------------------
(* Properties. *)

\* Documents no command is working on and no excuse holds for.
Settled == Documents \ (past.shared \cup past.torn \cup UNION {Handled(p) : p \in Commands})

(***************************************************************************)
(* A document stored as a file has a copy exactly as long as some row      *)
(* points to it, so that `attach show' finds it and a removal leaves no    *)
(* bytes behind.  Lost are only documents whose other row was removed,     *)
(* those two commands had in hand at once or one died with, and those a    *)
(* restore set back: backups hold no copies.  While a restore writes the   *)
(* main file, or after it died in that, there is nothing to look in.       *)
(***************************************************************************)
CopiesKept == Readable => \A d \in Settled : d \in copies <=> d \in InFileMode(Attached)

(***************************************************************************)
(* A restore brings the books back as they were at the time of the backup, *)
(* also where an earlier one died half way.  Not if another process has    *)
(* them open or a killed one left its WAL: its pages show through; nor if  *)
(* two restores write the file at once.                                    *)
(***************************************************************************)
RestoredAsTaken ==
  [][\A p \in Commands : Overwrite(p) /\ Alone(p) => Visible' = command[p].taken]_storeVars

==================================================================================
