------------------------------ MODULE ChunkUpload ------------------------------
(***************************************************************************)
(* One upload session of a heap dump: chunks are PUT into files of the     *)
(* session's directory and merged by complete into the hprof of a new      *)
(* report (app/routes/heapdump_upload.py).                                 *)
(*                                                                         *)
(* Requests are coroutines of one event loop and interleave at every await; *)
(* the merge runs in a thread.  A chunk's data is a sequence of blocks, the *)
(* same in every attempt to upload it, so a file is known by the set of    *)
(* blocks that are in place: a block that is not is a hole or cut off.     *)
(***************************************************************************)
EXTENDS Integers

CONSTANTS
    Puts,       \* PUT requests, each issued at most once
    Completes,  \* complete requests, likewise
    None,       \* no file of that name
    NumChunks, NumBlocks,
    Overlap,    \* may a client send a chunk again while the server still receives it?
    Crashes     \* how often the web process may die

ASSUME UploadAssumption ==
    /\ NumChunks \in Nat \ {0} /\ NumBlocks \in Nat \ {0}
    /\ None \notin Puts /\ Puts \cap Completes = {}
    /\ Overlap \in BOOLEAN
    /\ Crashes \in Nat

Chunks == 0 .. NumChunks - 1
Blocks == 1 .. NumBlocks

VARIABLES
    session,  \* the session's directory is there
    tmp,      \* <i>.part.tmp: its inode, named after the PUT that created it
    part,     \* <i>.part: likewise
    data,     \* the blocks in place in each inode
    pc,       \* of each request
    chunk, fd, sent,       \* of a PUT: its chunk, its open file, the blocks received
    count, read, merged, dumpDir,  \* of a complete: the parts listed, read so far, and their data; its dump directory
    reports,  \* the completes whose report is in the database
    crashes

files    == <<session, tmp, part, data>>
putVars  == <<chunk, fd, sent>>
compVars == <<count, read, merged, dumpDir, reports>>
vars     == <<files, pc, putVars, compVars, crashes>>

Requests == Puts \cup Completes
Inodes   == Puts \cup {None}

TypeOK ==
    /\ session \in BOOLEAN
    /\ tmp  \in [Chunks -> Inodes]
    /\ part \in [Chunks -> Inodes]
    /\ data \in [Puts -> SUBSET Blocks]
    /\ pc \in [Requests -> {"ready", "receive", "merge", "clean", "ok", "failed"}]
    /\ chunk \in [Puts -> Chunks]
    /\ fd    \in [Puts -> Inodes]
    /\ sent  \in [Puts -> 0 .. NumBlocks]
    /\ count  \in [Completes -> 0 .. NumChunks]
    /\ read   \in [Completes -> 0 .. NumChunks]
    /\ merged \in [Completes -> [Chunks -> SUBSET Blocks]]
    /\ dumpDir \in [Completes -> {"none", "merging", "hprof"}]
    /\ reports \in SUBSET Completes
    /\ crashes \in 0 .. Crashes

Init ==
    /\ session = TRUE
    /\ tmp  = [i \in Chunks |-> None]
    /\ part = [i \in Chunks |-> None]
    /\ data = [p \in Puts |-> {}]
    /\ pc = [q \in Requests |-> "ready"]
    /\ chunk = [p \in Puts |-> 0]
    /\ fd    = [p \in Puts |-> None]
    /\ sent  = [p \in Puts |-> 0]
    /\ count  = [c \in Completes |-> 0]
    /\ read   = [c \in Completes |-> 0]
    /\ merged = [c \in Completes |-> [i \in Chunks |-> {}]]
    /\ dumpDir = [c \in Completes |-> "none"]
    /\ reports = {}
    /\ crashes = 0

-----------------------------------------------------------------------------
(* The event loop is in no coroutine: complete's last stretch, from the insert *)
(* of the row to the removal of the session, holds no await.                  *)
LoopFree == \A c \in Completes : pc[c] # "clean"

Receiving(p, i) == pc[p] = "receive" /\ chunk[p] = i

\* upload_chunk opens <i>.part.tmp: a new file, or the one another PUT of the
\* same chunk is still writing, truncated.  (404 when the session is gone.)
PutOpen(p, i) ==
    /\ LoopFree
    /\ pc[p] = "ready" /\ session
    /\ Overlap \/ \A q \in Puts : ~Receiving(q, i)
    /\ LET inode == IF tmp[i] = None THEN p ELSE tmp[i]
       IN  /\ tmp' = [tmp EXCEPT ![i] = inode]
           /\ data' = [data EXCEPT ![inode] = {}]
           /\ fd' = [fd EXCEPT ![p] = inode]
    /\ chunk' = [chunk EXCEPT ![p] = i]
    /\ pc' = [pc EXCEPT ![p] = "receive"]
    /\ UNCHANGED <<session, part, sent, compVars, crashes>>

\* The next piece of the body is written at the request's own offset.
PutWrite(p) ==
    /\ LoopFree
    /\ pc[p] = "receive" /\ sent[p] < NumBlocks
    /\ sent' = [sent EXCEPT ![p] = @ + 1]
    /\ data' = [data EXCEPT ![fd[p]] = @ \cup {sent[p] + 1}]
    /\ UNCHANGED <<session, tmp, part, pc, chunk, fd, compVars, crashes>>

\* Mutant of PutEnd: the end of the stream is taken for the end of the chunk.
PutEnd_Short(p) ==
    /\ LoopFree
    /\ pc[p] = "receive"
    /\ tmp[chunk[p]] # None
    /\ part' = [part EXCEPT ![chunk[p]] = tmp[chunk[p]]]
    /\ tmp' = [tmp EXCEPT ![chunk[p]] = None]
    /\ pc' = [pc EXCEPT ![p] = "ok"]
    /\ UNCHANGED <<session, data, putVars, compVars, crashes>>

\* The stream is complete and its digest right: os.replace.  Which file has the
\* name by now, and what is in it, is not looked at.
PutEnd(p) ==
    /\ LoopFree
    /\ pc[p] = "receive" /\ sent[p] = NumBlocks
    /\ tmp[chunk[p]] # None
    /\ part' = [part EXCEPT ![chunk[p]] = tmp[chunk[p]]]
    /\ tmp' = [tmp EXCEPT ![chunk[p]] = None]
    /\ pc' = [pc EXCEPT ![p] = "ok"]
    /\ UNCHANGED <<session, data, putVars, compVars, crashes>>

\* os.replace finds no file: another PUT has moved or unlinked it, or the
\* session is gone.
PutEndFails(p) ==
    /\ LoopFree
    /\ pc[p] = "receive" /\ sent[p] = NumBlocks
    /\ tmp[chunk[p]] = None
    /\ pc' = [pc EXCEPT ![p] = "failed"]
    /\ UNCHANGED <<files, putVars, compVars, crashes>>

\* The client disconnects, the disk is full, or the digest is wrong: the name
\* is unlinked, whoever's file it is by now.
PutFails(p) ==
    /\ LoopFree
    /\ pc[p] = "receive"
    /\ tmp' = [tmp EXCEPT ![chunk[p]] = None]
    /\ pc' = [pc EXCEPT ![p] = "failed"]
    /\ UNCHANGED <<session, part, data, putVars, compVars, crashes>>

-----------------------------------------------------------------------------
\* complete_upload lists the parts, which must be 0 .. n-1, and starts the merge.
\* How many there should be it does not know.
CompleteStart(c) ==
    /\ LoopFree
    /\ pc[c] = "ready" /\ session
    /\ \E n \in 1 .. NumChunks :
        /\ \A i \in Chunks : part[i] # None <=> i < n
        /\ count' = [count EXCEPT ![c] = n]
    /\ dumpDir' = [dumpDir EXCEPT ![c] = "merging"]
    /\ pc' = [pc EXCEPT ![c] = "merge"]
    /\ UNCHANGED <<files, putVars, read, merged, reports, crashes>>

\* _merge_parts, in its thread, opens and reads the next part.  The first must
\* begin with the magic number.
MergePart(c) ==
    /\ pc[c] = "merge" /\ read[c] < count[c]
    /\ LET i == read[c] IN
        /\ part[i] # None
        /\ i = 0 => 1 \in data[part[i]]
        /\ merged' = [merged EXCEPT ![c][i] = data[part[i]]]
    /\ read' = [read EXCEPT ![c] = @ + 1]
    /\ UNCHANGED <<files, pc, putVars, count, dumpDir, reports, crashes>>

\* Mutant of CompleteInsert: the row is inserted while the merge still runs.
CompleteInsert_Early(c) ==
    /\ LoopFree
    /\ pc[c] = "merge"
    /\ dumpDir' = [dumpDir EXCEPT ![c] = "hprof"]
    /\ reports' = reports \cup {c}
    /\ pc' = [pc EXCEPT ![c] = "clean"]
    /\ UNCHANGED <<files, putVars, count, read, merged, crashes>>

\* The merged file gets its name and the report its row.
CompleteInsert(c) ==
    /\ LoopFree
    /\ pc[c] = "merge" /\ read[c] = count[c]
    /\ dumpDir' = [dumpDir EXCEPT ![c] = "hprof"]
    /\ reports' = reports \cup {c}
    /\ pc' = [pc EXCEPT ![c] = "clean"]
    /\ UNCHANGED <<files, putVars, count, read, merged, crashes>>

\* rmtree of the session's directory: open files live on, their names do not.
RemoveSession ==
    /\ session' = FALSE
    /\ tmp' = [i \in Chunks |-> None]
    /\ part' = [i \in Chunks |-> None]
    /\ UNCHANGED data

\* Mutant of CompleteClean: the session is not removed.
CompleteClean_Keep(c) ==
    /\ pc[c] = "clean"
    /\ pc' = [pc EXCEPT ![c] = "ok"]
    /\ UNCHANGED <<files, putVars, compVars, crashes>>

CompleteClean(c) ==
    /\ pc[c] = "clean"
    /\ RemoveSession
    /\ pc' = [pc EXCEPT ![c] = "ok"]
    /\ UNCHANGED <<putVars, compVars, crashes>>

\* Mutant of CompleteFails: the dump directory stays behind.
CompleteFails_Keep(c) ==
    /\ LoopFree
    /\ pc[c] = "merge"
    /\ pc' = [pc EXCEPT ![c] = "failed"]
    /\ UNCHANGED <<files, putVars, compVars, crashes>>

\* A part is gone or no heap dump, the disk is full, the row is refused: the
\* dump directory is removed, the parts are left for another attempt.
CompleteFails(c) ==
    /\ LoopFree
    /\ pc[c] = "merge"
    /\ dumpDir' = [dumpDir EXCEPT ![c] = "none"]
    /\ pc' = [pc EXCEPT ![c] = "failed"]
    /\ UNCHANGED <<files, putVars, count, read, merged, reports, crashes>>

\* cancel_upload
CancelUpload ==
    /\ LoopFree
    /\ session
    /\ RemoveSession
    /\ UNCHANGED <<pc, putVars, compVars, crashes>>

\* The web process dies with everything in progress, and is restarted.
Crash ==
    /\ crashes < Crashes
    /\ crashes' = crashes + 1
    /\ pc' = [q \in Requests |-> IF pc[q] \in {"receive", "merge", "clean"} THEN "failed" ELSE pc[q]]
    /\ UNCHANGED <<files, putVars, compVars>>

PutStep(p) ==
    \/ \E i \in Chunks : PutOpen(p, i)
    \/ PutWrite(p) \/ PutEnd(p) \/ PutEndFails(p) \/ PutFails(p)
CompleteStep(c) ==
    CompleteStart(c) \/ MergePart(c) \/ CompleteInsert(c) \/ CompleteClean(c) \/ CompleteFails(c)

Next ==
    \/ \E p \in Puts : PutStep(p)
    \/ \E c \in Completes : CompleteStep(c)
    \/ CancelUpload \/ Crash

Spec == Init /\ [][Next]_vars

-----------------------------------------------------------------------------
\* What the status endpoint reports as received, and complete will merge, is the
\* whole chunk: a client may resume after it.
PartsAreWhole == \A i \in Chunks : part[i] # None => data[part[i]] = Blocks

\* A report's hprof is in place and made of whole chunks, whatever was sent again,
\* cut short, cancelled or completed while it was merged.
ReportIsWhole ==
    \A c \in reports :
        /\ dumpDir[c] = "hprof"
        /\ \A i \in Chunks : i < count[c] => merged[c][i] = Blocks

\* A dump directory without a report is one being merged, or the process died.
NoOrphanedDump ==
    \A c \in Completes :
        dumpDir[c] # "none" => c \in reports \/ pc[c] = "merge" \/ crashes > 0

\* Once a report has been made of it a session cannot be completed again, unless
\* the process died before removing it.  (Two completes that overlap do both make
\* a report.)
CompletesOnce ==
    [][\A c \in Completes :
          pc[c] = "ready" /\ pc'[c] = "merge" => reports = {} \/ crashes > 0]_vars

-----------------------------------------------------------------------------
(* The inductive invariant, for clients that do not send a chunk twice at once *)

\* Every name leads to a file that was created for it; a chunk and the attempt to
\* replace it are different files.
NamesInOrder ==
    \A i \in Chunks :
        /\ tmp[i] # None => chunk[tmp[i]] = i /\ pc[tmp[i]] # "ready" /\ tmp[i] # part[i]
        /\ part[i] # None => chunk[part[i]] = i /\ pc[part[i]] # "ready"

\* Whoever receives a chunk writes, alone, to the file that has its temporary
\* name, as long as the session is there.
ReceivesAlone ==
    \A p \in Puts : pc[p] = "receive" =>
        /\ fd[p] \in Puts /\ chunk[fd[p]] = chunk[p] /\ pc[fd[p]] # "ready"
        /\ fd[p] # part[chunk[p]]
        /\ tmp[chunk[p]] = (IF session THEN fd[p] ELSE None)
        /\ data[fd[p]] = 1 .. sent[p]
        /\ \A q \in Puts : Receiving(q, chunk[p]) => q = p

\* What has been merged so far is whole, and there is a report only when that is all.
MergedAreWhole ==
    \A c \in Completes :
        /\ pc[c] = "ready" => read[c] = 0
        /\ pc[c] \in {"ready", "merge"} => c \notin reports
        /\ read[c] <= count[c]
        /\ \A i \in Chunks : i < read[c] => merged[c][i] = Blocks
        /\ c \in reports => read[c] = count[c] /\ dumpDir[c] = "hprof"

\* After the session nothing has a name.
GoneIsEmpty == ~session => \A i \in Chunks : tmp[i] = None /\ part[i] = None

UInv ==
    /\ TypeOK /\ NamesInOrder /\ ReceivesAlone /\ MergedAreWhole /\ GoneIsEmpty
    /\ PartsAreWhole
    /\ \A p \in Puts : pc[p] = "ready" => sent[p] = 0
=============================================================================
