------------------------------ MODULE DataTransfer -----------------------------
(***************************************************************************)
(* Moving the data database: GET infra/export-data reads table after table, *)
(* and POST infra/import-data replaces the tables by those of the file,     *)
(* within one transaction (infra.controller.ts), while messages are saved.  *)
(*                                                                         *)
(* SQLite has one connection: what others save during the transaction is a  *)
(* part of it.  PostgreSQL has many, and gives up the whole transaction     *)
(* with the first statement that fails; its COMMIT then rolls back, and     *)
(* says so to nobody.                                                      *)
(***************************************************************************)
EXTENDS Naturals, FiniteSets, Sequences, SequencesExt

CONSTANTS
  WaSessions,     \* sessions of the gateway
  MaxChanges,     \* bound: rows saved and sessions deleted
  MaxFailures     \* bound: statements that fail by themselves

VARIABLES
  database,       \* "sqlite" or "postgres"
  stored,         \* its rows
  export,         \* the export that is under way
  file,           \* the last export that ended
  import,         \* the import that is under way
  answer,         \* what the last import answered, and what it left
  newcomers,      \* history: sessions created since the export of the file began
  changes, failures

transferVars == <<database, stored, export, file, import, answer, newcomers, changes, failures>>

-----------------------------------------------------------------------------
(* A row is known by its table and its session; a table keeps one of each.  *)
(* "templates" stands for the tables that are emptied with the sessions and *)
(* that no export reads: templates, stored messages, saved contacts.        *)
Exported == <<"sessions", "webhooks", "messages", "batches">>
Bound == {"webhooks", "templates"}                 \* ON DELETE CASCADE
Tables == ToSet(Exported) \cup {"templates"}
Row == [table : Tables, session : WaSessions]
Of(t, list) == {r \in list : r.table = t}
SessionRow(s) == [table |-> "sessions", session |-> s]

NoExport == [pc |-> 0]
NoFile == {}
NoImport == [pc |-> 0]
NoAnswer == [told |-> "nothing"]

(* The rows as the import's own statements see them.                        *)
Seen == (stored \ import.gone) \cup import.put

Export == [pc : 1..Len(Exported), rows : SUBSET Row]
Import == [pc : 1..(Len(Exported) + 2), gone : SUBSET Row, put : SUBSET Row, others : SUBSET Row,
           gave : BOOLEAN, counted : SUBSET Row, warned : SUBSET Row, before : SUBSET Row]
Told   == [told : {"imported", "thrown"}, counted : SUBSET Row, warned : SUBSET Row,
           before : SUBSET Row, others : SUBSET Row, after : SUBSET Row]

TypeOK ==
  /\ database \in {"sqlite", "postgres"} /\ stored \subseteq Row /\ file \subseteq Row
  /\ export \in Export \cup {NoExport} /\ import \in Import \cup {NoImport}
  /\ answer \in Told \cup {NoAnswer}
  /\ newcomers \subseteq WaSessions
  /\ changes \in 0..MaxChanges /\ failures \in 0..MaxFailures

Init ==
  /\ database \in {"sqlite", "postgres"}
  /\ \E S \in SUBSET WaSessions : stored = {r \in Row : r.session \in S}
  /\ export = NoExport /\ file = NoFile /\ import = NoImport /\ answer = NoAnswer
  /\ newcomers = {} /\ changes = 0 /\ failures = 0

-----------------------------------------------------------------------------
(* The gateway's own work.  Messages keep coming during an import; sessions *)
(* and their rows come and go before it.                                    *)
Saved(r) ==
  /\ changes < MaxChanges /\ changes' = changes + 1
  /\ r.table = "sessions" \/ SessionRow(r.session) \in stored
  /\ \/ /\ import = NoImport \/ (database = "postgres" /\ r.table = "messages")
        /\ r \notin stored /\ stored' = stored \cup {r}
        /\ UNCHANGED import
     \/ /\ import # NoImport /\ database = "sqlite" /\ r.table = "messages"
        /\ r \notin Seen /\ import' = [import EXCEPT !.put = @ \cup {r}, !.others = @ \cup {r}]
        /\ UNCHANGED stored
  /\ newcomers' = IF r.table = "sessions" THEN newcomers \cup {r.session} ELSE newcomers
  /\ UNCHANGED <<database, export, file, answer, failures>>

(* delete of the session service: what is bound to the session goes along,  *)
(* its messages stay.                                                      *)
Deleted(s) ==
  /\ changes < MaxChanges /\ changes' = changes + 1
  /\ import = NoImport /\ SessionRow(s) \in stored
  /\ stored' = {r \in stored : r.session = s => r.table \notin Bound \cup {"sessions"}}
  /\ UNCHANGED <<database, export, file, import, answer, newcomers, failures>>

-----------------------------------------------------------------------------
(* exportData: one SELECT after the other, in no transaction.  A table that *)
(* cannot be read is left out if it is one of messages or batches, and ends *)
(* the export otherwise.  Bound: nothing is transferred after an import.     *)
ExportBegins ==
  /\ export = NoExport /\ import = NoImport /\ answer = NoAnswer
  /\ export' = [pc |-> 1, rows |-> {}] /\ newcomers' = {} /\ file' = NoFile
  /\ UNCHANGED <<database, stored, import, answer, changes, failures>>

Exports(rows) ==
  IF export.pc = Len(Exported)
  THEN file' = rows /\ export' = NoExport
  ELSE export' = [pc |-> export.pc + 1, rows |-> rows] /\ UNCHANGED file

ExportReads ==
  /\ export # NoExport
  /\ Exports(export.rows \cup Of(Exported[export.pc], stored))
  /\ UNCHANGED <<database, stored, import, answer, newcomers, changes, failures>>

ExportMisses ==
  /\ export # NoExport /\ failures < MaxFailures /\ failures' = failures + 1
  /\ IF Exported[export.pc] \in {"messages", "batches"}
     THEN Exports(export.rows)
     ELSE export' = NoExport /\ UNCHANGED file
  /\ UNCHANGED <<database, stored, import, answer, newcomers, changes>>

(* The restart with the other database, which is empty.                     *)
Moves ==
  /\ file # NoFile /\ export = NoExport /\ import = NoImport /\ answer = NoAnswer
  /\ database = "sqlite" /\ database' = "postgres" /\ stored' = {}
  /\ UNCHANGED <<export, file, import, answer, newcomers, changes, failures>>

-----------------------------------------------------------------------------
(* importData.  pc 1 is the deletes, pc n+1 the inserts into the nth table, *)
(* the last one the commit.                                                *)
ImportBegins ==
  /\ import = NoImport /\ export = NoExport /\ answer = NoAnswer /\ file # NoFile
  /\ import' = [pc |-> 1, gone |-> {}, put |-> {}, others |-> {}, gave |-> FALSE,
                counted |-> {}, warned |-> {}, before |-> stored]
  /\ UNCHANGED <<database, stored, export, file, answer, newcomers, changes, failures>>

(* Mutant: the sessions are left where they are.                            *)
MutantKeepsSessions == {r \in Seen : r.table # "sessions"}

(* What the deletes take: all tables of the file, and what is bound.        *)
Cleared == Seen

Without(rows, gave) ==
  [import EXCEPT !.pc = 2, !.gone = stored \cap rows, !.put = @ \ rows, !.gave = gave]

(* A delete of messages or batches that fails is passed over.               *)
ImportDeletes ==
  /\ import # NoImport /\ import.pc = 1
  /\ \/ /\ import' = Without(Cleared, import.gave)
        /\ UNCHANGED failures
     \/ /\ failures < MaxFailures /\ failures' = failures + 1
        /\ \E t \in {"messages", "batches"} :
             import' = Without(Cleared \ Of(t, Seen), database = "postgres")
  /\ UNCHANGED <<database, stored, export, file, answer, newcomers, changes>>

(* Mutant: webhooks are imported before the sessions they belong to.        *)
MutantOrder == <<"webhooks", "sessions", "messages", "batches">>

ImportOrder == Exported

(* The INSERTs of messages and batches name columns that their tables do    *)
(* not have ("messageId", "content"; "batchId", "sessionId"): none succeeds. *)
Accepted(r) ==
  /\ r.table \notin {"messages", "batches"}
  /\ r \notin Seen
  /\ r.table \in Bound => SessionRow(r.session) \in Seen

NextInTable == Of(ImportOrder[import.pc - 1], file) \ (import.counted \cup import.warned)

(* Mutant: a row is counted before the statement that inserts it.           *)
MutantCountsFirst(r, ok) == [import EXCEPT !.put = IF ok THEN @ \cup {r} ELSE @,
                              !.counted = @ \cup {r},
                              !.warned = IF ok THEN @ ELSE @ \cup {r},
                              !.gave = @ \/ (~ok /\ database = "postgres")]

(* One INSERT, with its count or its warning.                               *)
AfterInsert(r, ok) ==
  IF ok THEN [import EXCEPT !.put = @ \cup {r}, !.counted = @ \cup {r}]
  ELSE [import EXCEPT !.warned = @ \cup {r}, !.gave = @ \/ database = "postgres"]

ImportInserts(r) ==
  /\ import # NoImport /\ import.pc \in 2..(Len(ImportOrder) + 1) /\ r \in NextInTable
  /\ \/ /\ import' = AfterInsert(r, Accepted(r) /\ ~import.gave)
        /\ UNCHANGED failures
     \/ /\ failures < MaxFailures /\ failures' = failures + 1
        /\ import' = AfterInsert(r, FALSE)
  /\ UNCHANGED <<database, stored, export, file, answer, newcomers, changes>>

ImportTableDone ==
  /\ import # NoImport /\ import.pc \in 2..(Len(ImportOrder) + 1) /\ NextInTable = {}
  /\ import' = [import EXCEPT !.pc = @ + 1]
  /\ UNCHANGED <<database, stored, export, file, answer, newcomers, changes, failures>>

Ends(told, after) ==
  /\ stored' = after /\ import' = NoImport
  /\ answer' = [told |-> told, counted |-> import.counted, warned |-> import.warned,
                before |-> import.before, others |-> import.others, after |-> after]
  /\ UNCHANGED <<database, export, file, newcomers, changes>>

(* The COMMIT, which is a ROLLBACK where the transaction was given up.       *)
ImportCommits ==
  /\ import # NoImport /\ import.pc = Len(ImportOrder) + 2
  /\ Ends("imported", IF import.gave THEN stored ELSE Seen)
  /\ UNCHANGED failures

(* Mutant: the error is answered without a ROLLBACK.                        *)
MutantNoRollback == Seen

RolledBack == stored

(* A delete that fails, a lost connection, or a body without tables.        *)
ImportThrows ==
  /\ import # NoImport /\ failures < MaxFailures /\ failures' = failures + 1
  /\ Ends("thrown", RolledBack)

Next ==
  \/ \E r \in Row : Saved(r) \/ ImportInserts(r)
  \/ \E s \in WaSessions : Deleted(s)
  \/ ExportBegins \/ ExportReads \/ ExportMisses \/ Moves
  \/ ImportBegins \/ ImportDeletes \/ ImportTableDone \/ ImportCommits \/ ImportThrows

-----------------------------------------------------------------------------
(* Properties.                                                             *)

Tabular(list) == {r \in list : r.table \in ToSet(Exported)}

(* An import without a warning, none of whose deletes failed, leaves the    *)
(* rows of the file, a message saved meanwhile, and no other.               *)
CleanImportIsExact ==
  answer.told = "imported" /\ answer.warned = {} /\ failures = 0 =>
    /\ file \subseteq answer.after
    /\ \A r \in Tabular(answer.after) \ file : r.table = "messages"

(* On SQLite, a row that the answer counts was imported, and one it warns   *)
(* of is not there unless it was saved meanwhile, or a delete failed.       *)
AnswerTellsTrue ==
  answer.told = "imported" /\ database = "sqlite" =>
    /\ answer.counted \subseteq answer.after
    /\ failures = 0 => answer.warned \cap (answer.after \ answer.others) = {}
    /\ answer.counted \cup answer.warned = file

(* An import that throws leaves the rows that were there.                   *)
ThrownChangesNothing == answer.told = "thrown" => answer.before \subseteq answer.after

(* The webhooks of an export find their sessions in it, unless the session  *)
(* was created while the export ran: an import warns of no other webhook    *)
(* and of no session, as long as no statement failed by itself.             *)
ExportFitsTogether ==
  answer.told = "imported" /\ failures = 0 /\ database = "sqlite" =>
    \A r \in answer.warned :
      r.table \in {"messages", "batches"} \/ (r.table = "webhooks" /\ r.session \in newcomers)

-----------------------------------------------------------------------------
(* What makes them hold of every step.                                     *)

(* One transfer at a time, and an answer is the end.                        *)
AnswerIsLast ==
  /\ import = NoImport \/ export = NoExport
  /\ answer # NoAnswer => import = NoImport /\ export = NoExport

(* A webhook finds its session: in the tables as long as nothing was        *)
(* imported, and in what was read of them, unless the session came since.   *)
FindsIn(r, list) == SessionRow(r.session) \in list \/ r.session \in newcomers
WebhooksFit(list) == \A r \in list : r.table = "webhooks" => FindsIn(r, list)

ExportFollows ==
  /\ answer = NoAnswer => \A r \in stored : r.table \in Bound => SessionRow(r.session) \in stored
  /\ export # NoExport =>
       /\ \A r \in export.rows : r.table \in ToSet(Exported)
       /\ export.pc > 1 => \A s \in WaSessions :
            SessionRow(s) \in stored => SessionRow(s) \in export.rows \/ s \in newcomers
       /\ WebhooksFit(export.rows)
  /\ \A r \in file : r.table \in ToSet(Exported)
  /\ WebhooksFit(file)

(* An import handles the tables in their order, each row of the file once.  *)
(* What it has counted is in, and no other row but a message that was saved *)
(* meanwhile, as long as no statement failed.                              *)
ImportGoes ==
  import # NoImport =>
    /\ import.before \subseteq stored
    /\ import.pc = 1 => import.gone = {} /\ import.counted = {} /\ import.warned = {} /\ ~import.gave
    /\ import.counted \subseteq import.put
    /\ import.counted \cup import.warned \subseteq file
    /\ import.counted \cap import.warned = {}
    /\ \A n \in 1..Len(ImportOrder) : n + 1 < import.pc =>
         Of(ImportOrder[n], file) \subseteq import.counted \cup import.warned
    /\ \A r \in import.others : r.table = "messages"
    /\ database = "sqlite" => ~import.gave

ImportIsClean ==
  import # NoImport /\ failures = 0 =>
    /\ import.put \subseteq import.counted \cup import.others
    /\ import.pc > 1 =>
         \A r \in stored \ import.gone : r.table = "messages" /\ database = "postgres"
    /\ import.warned = {} => ~import.gave
    /\ database = "sqlite" => \A r \in import.warned :
         r.table \in {"messages", "batches"} \/ (r.table = "webhooks" /\ r.session \in newcomers)

TransferInv ==
  /\ TypeOK /\ AnswerIsLast /\ ExportFollows /\ ImportGoes /\ ImportIsClean
  /\ CleanImportIsExact /\ AnswerTellsTrue /\ ThrownChangesNothing /\ ExportFitsTogether
===============================================================================
