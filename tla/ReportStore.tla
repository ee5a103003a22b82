----------------------------- MODULE ReportStore -----------------------------
(***************************************************************************)
(* Where the GC and thread-dump reports of a session are kept               *)
(* (app/routes/gc_reports.py, jstack_reports.py, react_agent/memory_db.py,  *)
(* upload_storage.py): the report's row, the text that was uploaded, in a   *)
(* file, and the record of that file, which says when it expires.  Three    *)
(* places, written one after the other and removed in another order by      *)
(* whoever deletes the report or the session, or finds the record expired.  *)
(*                                                                         *)
(* A step is one transaction or one operation on the file.                  *)
(***************************************************************************)
EXTENDS Integers, FiniteSets

CONSTANTS
    Uploads,      \* each has one report and one file
    Removals,     \* requests that delete a report
    MaxStoreFaults,
    KeepsForeignKeys  \* does the database enforce them?

ASSUME StoreAssumption == MaxStoreFaults \in Nat /\ KeepsForeignKeys \in BOOLEAN

VARIABLES
    session,   \* the session's row
    rows,      \* the reports
    files, records, expired,
    upload,    \* what each upload is doing
    sweeping,  \* the expired records that it has read
    removal,   \* what each removal is doing, and of which report
    ending,    \* the deletion of the session
    doomed,    \* the reports it has seen
    unrecorded,  \* files whose record could not be written
    storeFaults

storeVars == <<session, rows, files, records, expired, upload, sweeping, removal, ending, doomed,
               unrecorded, storeFaults>>

NoUpload == "none"

StoreTypeOK ==
    /\ session \in BOOLEAN
    /\ rows \subseteq Uploads /\ files \subseteq Uploads /\ expired \subseteq Uploads
    /\ \A u \in records : upload[u] = "done"
    /\ \A u \in Uploads :
        /\ upload[u] \in {"idle", "sweep", "parse", "store", "save", "record", "unsaved",
                          "done", "failed"}
        /\ u \in rows \cup files => upload[u] \in {"save", "record", "unsaved", "done"}
        /\ sweeping[u] # {} => upload[u] = "sweep"
    /\ \A d \in Removals : removal[d].pc \in {"idle", "row", "file", "done", "missed"}
    /\ ending \in {"no", "seen", "files", "over"}
    /\ doomed \subseteq Uploads /\ unrecorded \subseteq Uploads

StoreInit ==
    /\ session = TRUE
    /\ rows = {} /\ files = {} /\ records = {} /\ expired = {}
    /\ upload = [u \in Uploads |-> "idle"] /\ sweeping = [u \in Uploads |-> {}]
    /\ removal = [d \in Removals |-> [pc |-> "idle", of |-> NoUpload]]
    /\ ending = "no" /\ doomed = {} /\ unrecorded = {} /\ storeFaults = 0

StoreFault == storeFaults < MaxStoreFaults /\ storeFaults' = storeFaults + 1

GoTo(u, step) == upload' = [upload EXCEPT ![u] = step]

-----------------------------------------------------------------------------
(* upload_gc_log, upload_jstack *)

\* _check_session_owner; the file is read; then _cleanup_expired_uploads.
BeginUpload(u) ==
    /\ upload[u] = "idle" /\ session
    /\ sweeping' = [sweeping EXCEPT ![u] = records \cap expired]
    /\ GoTo(u, "sweep")
    /\ UNCHANGED <<session, rows, files, records, expired, removal, ending, doomed, unrecorded,
                   storeFaults>>

Sweep(u) ==
    /\ upload[u] = "sweep"
    /\ files' = files \ sweeping[u] /\ records' = records \ sweeping[u]
    /\ sweeping' = [sweeping EXCEPT ![u] = {}]
    /\ GoTo(u, "parse")
    /\ UNCHANGED <<session, rows, expired, removal, ending, doomed, unrecorded, storeFaults>>

\* The analysis runs in a thread; what it cannot read is refused.
Parse(u) ==
    /\ upload[u] = "parse"
    /\ GoTo(u, "store") \/ GoTo(u, "failed")
    /\ UNCHANGED <<session, rows, files, records, expired, sweeping, removal, ending, doomed,
                   unrecorded, storeFaults>>

\* add_gc_report, add_jstack_report: nobody looks whether the session is still there.
StoreReport_Unchecked(u) ==
    /\ upload[u] = "store"
    /\ rows' = rows \cup {u} /\ GoTo(u, "save")
    /\ UNCHANGED <<session, files, records, expired, sweeping, removal, ending, doomed, unrecorded,
                   storeFaults>>

StoreReport(u) ==
    /\ upload[u] = "store"
    /\ IF session \/ ~KeepsForeignKeys
       THEN rows' = rows \cup {u} /\ GoTo(u, "save")
       ELSE UNCHANGED rows /\ GoTo(u, "failed")
    /\ UNCHANGED <<session, files, records, expired, sweeping, removal, ending, doomed, unrecorded,
                   storeFaults>>

\* save_uploaded_text, in a thread.  A failure here or in the next step is
\* logged; the report stands.
SaveText(u) ==
    /\ upload[u] = "save"
    /\ \/ files' = files \cup {u} /\ GoTo(u, "record") /\ UNCHANGED storeFaults
       \/ StoreFault /\ GoTo(u, "unsaved") /\ UNCHANGED files
    /\ UNCHANGED <<session, rows, records, expired, sweeping, removal, ending, doomed, unrecorded>>

AddRecord(u) ==
    /\ upload[u] = "record" /\ GoTo(u, "done")
    /\ \/ records' = records \cup {u} /\ UNCHANGED <<unrecorded, storeFaults>>
       \/ StoreFault /\ unrecorded' = unrecorded \cup {u} /\ UNCHANGED records
    /\ UNCHANGED <<session, rows, files, expired, sweeping, removal, ending, doomed>>

\* Thirty days pass.
Expire(u) ==
    /\ u \in records \ expired
    /\ expired' = expired \cup {u}
    /\ UNCHANGED <<session, rows, files, records, upload, sweeping, removal, ending, doomed,
                   unrecorded, storeFaults>>

-----------------------------------------------------------------------------
(* delete_gc_report, delete_jstack_report *)

Remover(d, pc) == removal' = [removal EXCEPT ![d].pc = pc]

FindReport(d, u) ==
    /\ removal[d].pc = "idle" /\ session /\ u \in rows
    /\ removal' = [removal EXCEPT ![d] = [pc |-> "row", of |-> u]]
    /\ UNCHANGED <<session, rows, files, records, expired, upload, sweeping, ending, doomed,
                   unrecorded, storeFaults>>

\* The row count says whether this request has deleted it.

DeleteRow(d) ==
    /\ removal[d].pc = "row"
    /\ IF removal[d].of \in rows THEN Remover(d, "file") ELSE Remover(d, "missed")
    /\ rows' = rows \ {removal[d].of}
    /\ UNCHANGED <<session, files, records, expired, upload, sweeping, ending, doomed, unrecorded,
                   storeFaults>>

\* _delete_uploaded_file_record, _delete_uploaded_file_if_orphan: by way of
\* the record; the file goes first.
RemoveText_RecordFirst(u) ==
    \/ files' = files \ (records \cap {u}) /\ records' = records \ {u} /\ UNCHANGED storeFaults
    \/ u \in records /\ StoreFault /\ records' = records \ {u} /\ UNCHANGED files

RemoveText(u) ==
    \/ files' = files \ (records \cap {u}) /\ records' = records \ {u} /\ UNCHANGED storeFaults
    \/ u \in records /\ StoreFault /\ files' = files \ {u} /\ UNCHANGED records

DeleteText(d) ==
    /\ removal[d].pc = "file"
    /\ RemoveText(removal[d].of)
    /\ Remover(d, "done")
    /\ UNCHANGED <<session, rows, expired, upload, sweeping, ending, doomed, unrecorded>>

-----------------------------------------------------------------------------
(* DatabaseMemory.delete_session *)

SeeReports ==
    /\ ending = "no" /\ session
    /\ doomed' = rows /\ ending' = "seen"
    /\ UNCHANGED <<session, rows, files, records, expired, upload, sweeping, removal, unrecorded,
                   storeFaults>>

\* Reports stored since then are not deleted with the session; where foreign
\* keys are enforced the deletion fails.
DropSession ==
    /\ ending = "seen"
    /\ IF rows \ doomed # {} /\ KeepsForeignKeys
       THEN ending' = "no" /\ doomed' = {} /\ UNCHANGED <<session, rows>>
       ELSE /\ session' = FALSE /\ rows' = rows \ doomed
            /\ ending' = "files" /\ UNCHANGED doomed
    /\ UNCHANGED <<files, records, expired, upload, sweeping, removal, unrecorded, storeFaults>>

DropText(u) ==
    /\ ending = "files" /\ u \in doomed
    /\ IF u \in rows THEN UNCHANGED <<files, records, storeFaults>> ELSE RemoveText(u)
    /\ doomed' = doomed \ {u}
    /\ UNCHANGED <<session, rows, expired, upload, sweeping, removal, ending, unrecorded>>

SessionGone ==
    /\ ending = "files" /\ doomed = {}
    /\ ending' = "over"
    /\ UNCHANGED <<session, rows, files, records, expired, upload, sweeping, removal, doomed,
                   unrecorded, storeFaults>>

UploadStep(u) ==
    BeginUpload(u) \/ Sweep(u) \/ Parse(u) \/ StoreReport(u) \/ SaveText(u) \/ AddRecord(u)

RemovalStep(d) == (\E u \in Uploads : FindReport(d, u)) \/ DeleteRow(d) \/ DeleteText(d)

StoreNext ==
    \/ \E u \in Uploads : UploadStep(u) \/ Expire(u) \/ DropText(u)
    \/ \E d \in Removals : RemovalStep(d)
    \/ SeeReports \/ DropSession \/ SessionGone

StoreSpec == StoreInit /\ [][StoreNext]_storeVars

-----------------------------------------------------------------------------
(* A report in the list still has its text, from the moment it is saved      *)
(* until it expires: no removal of another report, of the session, or sweep  *)
(* takes it, not even if its record could not be written.                    *)
LiveReportHasText ==
    \A u \in rows : upload[u] \in {"record", "done"} /\ u \notin expired => u \in files

(* Every file can be found again by a record, which will expire, unless its  *)
(* upload is about to write the record or could not: a removal at any moment *)
(* of the upload leaves no file that nothing refers to.                      *)
EveryFileHasRecord ==
    \A u \in files : u \in records \/ u \in unrecorded \/ upload[u] = "record"

(* The three places agree, whoever writes and removes in between             *)
(* (gc_reports.py:184-201, helpers.py:415, memory_db.py:128-172).            *)
PlacesAgree == LiveReportHasText /\ EveryFileHasRecord

(* A report is deleted by one request only: the others are told it is gone,  *)
(* and write no second audit entry (gc_reports.py:289).                      *)
DeletedOnce ==
    \A d, e \in Removals : removal[d].pc \in {"file", "done"} /\ removal[e].pc \in {"file", "done"}
        /\ removal[d].of = removal[e].of => d = e

(* Where foreign keys are enforced, a session that is gone has no reports,   *)
(* whatever was being uploaded to it meanwhile.                              *)
NoReportWithoutSession == ~session => rows = {}

(* The text of a report that has been deleted is gone.  It is not, when the  *)
(* report is deleted while its upload is still writing the text: it stays    *)
(* until it expires.                                                         *)
DeletedTextIsGone ==
    \A d \in Removals : removal[d].pc = "done" /\ storeFaults = 0 => removal[d].of \notin files
=============================================================================
