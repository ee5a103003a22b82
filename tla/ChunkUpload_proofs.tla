--------------------------- MODULE ChunkUpload_proofs ---------------------------
(***************************************************************************)
(* Proofs about ChunkUpload, for any number of requests, chunks and blocks: *)
(* a client that does not send a chunk again while the server still receives *)
(* it gets whole chunks and whole reports.                                  *)
(***************************************************************************)
EXTENDS ChunkUpload, TLAPS

USE UploadAssumption DEF Chunks, Blocks, Requests, Inodes, files, putVars, compVars

\* A request that has not been sent has received nothing.
Unsent == \A p \in Puts : pc[p] = "ready" => sent[p] = 0

-----------------------------------------------------------------------------
LEMMA InitUInv == Init => UInv
BY DEF Init, UInv, TypeOK, NamesInOrder, ReceivesAlone, MergedAreWhole, GoneIsEmpty, PartsAreWhole

LEMMA PutOpenKeeps ==
    ASSUME UInv, ~Overlap, NEW p \in Puts, NEW i \in Chunks, PutOpen(p, i)
    PROVE  UInv'
<1> DEFINE inode == IF tmp[i] = None THEN p ELSE tmp[i]
<1> USE DEF UInv, TypeOK, PutOpen
<1>1. inode \in Puts
  OBVIOUS
<1>2. /\ tmp' = [tmp EXCEPT ![i] = inode] /\ data' = [data EXCEPT ![inode] = {}]
      /\ fd' = [fd EXCEPT ![p] = inode] /\ chunk' = [chunk EXCEPT ![p] = i]
      /\ pc' = [pc EXCEPT ![p] = "receive"]
  OBVIOUS
<1>3. \A q \in Puts : ~Receiving(q, i)
  OBVIOUS
<1>4. chunk'[inode] = i /\ pc'[inode] # "ready" /\ inode # part[i]
  BY <1>1, <1>2 DEF NamesInOrder
<1> HIDE DEF inode
<1>5. TypeOK'
  BY <1>1, <1>2
<1>6. \A q \in Puts : q # inode => data'[q] = data[q]
  BY <1>2
<1>7. data'[inode] = {}
  BY <1>1, <1>2
<1>8. \A j \in Chunks : part[j] # inode
  BY <1>4, <1>2, <1>1 DEF NamesInOrder
<1>9. NamesInOrder'
  BY <1>1, <1>2, <1>4, <1>8 DEF NamesInOrder
<1>10. PartsAreWhole'
  BY <1>6, <1>8 DEF PartsAreWhole
<1>11. ReceivesAlone'
  <2> SUFFICES ASSUME NEW q \in Puts, pc'[q] = "receive"
      PROVE /\ fd'[q] \in Puts /\ chunk'[fd'[q]] = chunk'[q] /\ pc'[fd'[q]] # "ready"
            /\ fd'[q] # part'[chunk'[q]]
            /\ tmp'[chunk'[q]] = (IF session' THEN fd'[q] ELSE None)
            /\ data'[fd'[q]] = 1 .. sent'[q]
            /\ \A r \in Puts : Receiving(r, chunk[q])' => r = q
    BY DEF ReceivesAlone, Receiving
  <2>1. CASE q = p
    BY <2>1, <1>1, <1>2, <1>3, <1>4, <1>7 DEF Receiving
  <2>2. CASE q # p
    <3>1. pc[q] = "receive" /\ chunk[q] # i /\ chunk'[q] = chunk[q] /\ fd'[q] = fd[q]
      BY <2>2, <1>2, <1>3 DEF Receiving
    <3>2. fd[q] \in Puts /\ chunk[fd[q]] = chunk[q] /\ pc[fd[q]] # "ready"
      BY <3>1 DEF ReceivesAlone
    <3>3. fd[q] # p /\ fd[q] # inode
      BY <3>1, <3>2, <1>2, <1>4
    <3>4. \A r \in Puts : Receiving(r, chunk[q])' => r = q
      BY <3>1, <1>2 DEF ReceivesAlone, Receiving
    <3> QED BY <3>1, <3>2, <3>3, <3>4, <1>2, <1>6 DEF ReceivesAlone
  <2> QED BY <2>1, <2>2
<1>12. MergedAreWhole'
  BY <1>2 DEF MergedAreWhole
<1> QED BY <1>2, <1>5, <1>9, <1>10, <1>11, <1>12 DEF GoneIsEmpty

LEMMA PutWriteKeeps ==
    ASSUME UInv, NEW p \in Puts, PutWrite(p)
    PROVE  UInv'
<1> USE DEF UInv, TypeOK, PutWrite
<1>1. fd[p] \in Puts /\ chunk[fd[p]] = chunk[p] /\ pc[fd[p]] # "ready" /\ fd[p] # part[chunk[p]]
  BY DEF ReceivesAlone
<1>2. data'[fd[p]] = 1 .. sent'[p]
  <2>1. data[fd[p]] = 1 .. sent[p]
    BY DEF ReceivesAlone
  <2>2. \A n \in Nat : (1 .. n) \cup {n + 1} = 1 .. n + 1
    OBVIOUS
  <2>3. sent[p] \in Nat /\ sent'[p] = sent[p] + 1 /\ data'[fd[p]] = data[fd[p]] \cup {sent[p] + 1}
    BY <1>1
  <2> QED BY <2>1, <2>2, <2>3
<1>3. \A q \in Puts : q # fd[p] => data'[q] = data[q]
  OBVIOUS
<1>4. TypeOK'
  BY <1>1
<1>5. \A i \in Chunks : part[i] # fd[p]
  <2> SUFFICES ASSUME NEW i \in Chunks, part[i] = fd[p] PROVE FALSE
    OBVIOUS
  <2>1. chunk[part[i]] = i
    BY <1>1, UploadAssumption DEF NamesInOrder
  <2> QED BY <2>1, <1>1
<1>6. PartsAreWhole'
  BY <1>3, <1>5 DEF PartsAreWhole
<1>7. ReceivesAlone'
  <2> SUFFICES ASSUME NEW q \in Puts, pc[q] = "receive"
      PROVE data'[fd[q]] = 1 .. sent'[q]
    BY DEF ReceivesAlone, Receiving
  <2>1. q # p => chunk[q] # chunk[p] /\ fd[q] \in Puts /\ chunk[fd[q]] = chunk[q]
    BY DEF ReceivesAlone, Receiving
  <2>2. CASE q = p
    BY <2>2, <1>2
  <2>3. CASE q # p
    <3>1. fd[q] # fd[p] /\ fd[q] \in Puts
      BY <2>1, <2>3, <1>1
    <3>2. data[fd[q]] = 1 .. sent[q] /\ sent'[q] = sent[q]
      BY <2>3 DEF ReceivesAlone
    <3> QED BY <3>1, <3>2, <1>3
  <2> QED BY <2>2, <2>3
<1> QED BY <1>4, <1>6, <1>7 DEF NamesInOrder, MergedAreWhole, GoneIsEmpty

LEMMA PutEndKeeps ==
    ASSUME UInv, NEW p \in Puts, PutEnd(p)
    PROVE  UInv'
<1> USE DEF UInv, TypeOK, PutEnd
<1>1. /\ fd[p] \in Puts /\ tmp[chunk[p]] = fd[p] /\ chunk[fd[p]] = chunk[p]
      /\ pc[fd[p]] # "ready" /\ data[fd[p]] = Blocks
  BY DEF ReceivesAlone
<1>2. TypeOK'
  OBVIOUS
<1>3. PartsAreWhole'
  BY <1>1 DEF PartsAreWhole
<1>4. NamesInOrder'
  BY <1>1 DEF NamesInOrder
<1>5. ReceivesAlone'
  <2> SUFFICES ASSUME NEW q \in Puts, pc'[q] = "receive"
      PROVE /\ fd[q] \in Puts /\ chunk[fd[q]] = chunk[q] /\ pc'[fd[q]] # "ready"
            /\ fd[q] # part'[chunk[q]]
            /\ tmp'[chunk[q]] = (IF session THEN fd[q] ELSE None)
            /\ data[fd[q]] = 1 .. sent[q]
            /\ \A r \in Puts : Receiving(r, chunk[q])' => r = q
    BY DEF ReceivesAlone, Receiving
  <2>1. pc[q] = "receive" /\ q # p
    OBVIOUS
  <2>2. chunk[q] # chunk[p]
    BY <2>1 DEF ReceivesAlone, Receiving
  <2> QED BY <2>1, <2>2 DEF ReceivesAlone, Receiving
<1>6. MergedAreWhole'
  BY DEF MergedAreWhole
<1> QED BY <1>1, <1>2, <1>3, <1>4, <1>5, <1>6 DEF GoneIsEmpty

LEMMA PutFailsKeeps ==
    ASSUME UInv, NEW p \in Puts, PutFails(p) \/ PutEndFails(p)
    PROVE  UInv'
<1> USE DEF UInv, TypeOK, PutFails, PutEndFails
<1>1. pc[p] = "receive" /\ pc' = [pc EXCEPT ![p] = "failed"]
  OBVIOUS
<1>2. tmp' = [tmp EXCEPT ![chunk[p]] = None]
  OBVIOUS
<1>3. UNCHANGED <<session, part, data, putVars, compVars, crashes>>
  OBVIOUS
<1> HIDE DEF PutFails, PutEndFails
<1>4. TypeOK'
  BY <1>1, <1>2, <1>3
<1>5. NamesInOrder'
  BY <1>1, <1>2, <1>3 DEF NamesInOrder
<1>6. ReceivesAlone'
  <2> SUFFICES ASSUME NEW q \in Puts, pc'[q] = "receive"
      PROVE /\ fd[q] \in Puts /\ chunk[fd[q]] = chunk[q] /\ pc'[fd[q]] # "ready"
            /\ fd[q] # part[chunk[q]]
            /\ tmp'[chunk[q]] = (IF session THEN fd[q] ELSE None)
            /\ data[fd[q]] = 1 .. sent[q]
            /\ \A r \in Puts : Receiving(r, chunk[q])' => r = q
    BY <1>3 DEF ReceivesAlone, Receiving
  <2>1. pc[q] = "receive" /\ q # p
    BY <1>1
  <2>2. chunk[q] # chunk[p]
    BY <2>1, <1>1 DEF ReceivesAlone, Receiving
  <2> QED BY <2>1, <2>2, <1>1, <1>2, <1>3 DEF ReceivesAlone, Receiving
<1>7. MergedAreWhole'
  BY <1>1, <1>3 DEF MergedAreWhole
<1> QED BY <1>1, <1>2, <1>3, <1>4, <1>5, <1>6, <1>7 DEF GoneIsEmpty, PartsAreWhole

-----------------------------------------------------------------------------
(* The steps of a complete leave the PUTs alone *)

LEMMA PutsUntouched ==
    ASSUME UInv, NEW c \in Completes, NEW s, s # "ready",
           pc' = [pc EXCEPT ![c] = s], UNCHANGED <<files, putVars>>
    PROVE  NamesInOrder' /\ ReceivesAlone' /\ GoneIsEmpty' /\ PartsAreWhole' /\ Unsent'
<1>1. \A p \in Puts : pc'[p] = pc[p]
  BY DEF UInv, TypeOK
<1> QED BY <1>1 DEF UInv, TypeOK, NamesInOrder, ReceivesAlone, Receiving, GoneIsEmpty, PartsAreWhole, Unsent

LEMMA CompleteStartKeeps ==
    ASSUME UInv, NEW c \in Completes, CompleteStart(c)
    PROVE  UInv'
<1> USE DEF UInv, TypeOK, CompleteStart
<1>1. NamesInOrder' /\ ReceivesAlone' /\ GoneIsEmpty' /\ PartsAreWhole' /\ Unsent'
  BY PutsUntouched
<1>2. TypeOK'
  <2>1. PICK n \in 1 .. NumChunks : count' = [count EXCEPT ![c] = n]
    OBVIOUS
  <2> QED BY <2>1
<1>3. MergedAreWhole'
  <2>1. read[c] = 0
    BY DEF MergedAreWhole
  <2> QED BY <2>1 DEF MergedAreWhole
<1> QED BY <1>1, <1>2, <1>3 DEF Unsent

LEMMA MergePartKeeps ==
    ASSUME UInv, NEW c \in Completes, MergePart(c)
    PROVE  UInv'
<1> USE DEF UInv, TypeOK, MergePart
<1>1. read[c] \in Chunks /\ part[read[c]] \in Puts /\ data[part[read[c]]] = Blocks
  BY DEF PartsAreWhole, MergedAreWhole
<1>2. merged' = [merged EXCEPT ![c] = [merged[c] EXCEPT ![read[c]] = Blocks]]
  BY <1>1
<1>3. merged' \in [Completes -> [Chunks -> SUBSET Blocks]]
  BY <1>1, <1>2
<1>4. TypeOK'
  BY <1>3, <1>1
<1>5. MergedAreWhole'
  <2> SUFFICES ASSUME NEW d \in Completes
      PROVE /\ pc[d] = "ready" => read'[d] = 0
            /\ pc[d] \in {"ready", "merge"} => d \notin reports
            /\ read'[d] <= count[d]
            /\ \A i \in Chunks : i < read'[d] => merged'[d][i] = Blocks
            /\ d \in reports => read'[d] = count[d] /\ dumpDir[d] = "hprof"
    BY DEF MergedAreWhole
  <2>1. CASE d = c
    <3>1. \A i \in Chunks : merged'[c][i] = (IF i = read[c] THEN Blocks ELSE merged[c][i])
      BY <1>2
    <3>2. read'[c] = read[c] + 1 /\ c \notin reports /\ pc[c] = "merge"
      BY DEF MergedAreWhole
    <3>3. read'[c] <= count[c]
      BY <3>2
    <3>4. \A i \in Chunks : i < read'[c] => merged'[c][i] = Blocks
      <4> SUFFICES ASSUME NEW i \in Chunks, i < read[c] + 1, i # read[c] PROVE merged[c][i] = Blocks
        BY <3>1, <3>2
      <4>1. i < read[c]
        OBVIOUS
      <4> QED BY <4>1 DEF MergedAreWhole
    <3> QED BY <2>1, <3>2, <3>3, <3>4
  <2>2. CASE d # c
    BY <2>2, <1>2 DEF MergedAreWhole
  <2> QED BY <2>1, <2>2
<1> QED BY <1>4, <1>5 DEF NamesInOrder, ReceivesAlone, Receiving, GoneIsEmpty, PartsAreWhole

LEMMA CompleteInsertKeeps ==
    ASSUME UInv, NEW c \in Completes, CompleteInsert(c)
    PROVE  UInv'
<1> USE DEF UInv, TypeOK, CompleteInsert
<1>1. NamesInOrder' /\ ReceivesAlone' /\ GoneIsEmpty' /\ PartsAreWhole' /\ Unsent'
  BY PutsUntouched
<1>2. TypeOK'
  OBVIOUS
<1>3. MergedAreWhole'
  BY DEF MergedAreWhole
<1> QED BY <1>1, <1>2, <1>3 DEF Unsent

LEMMA CompleteFailsKeeps ==
    ASSUME UInv, NEW c \in Completes, CompleteFails(c)
    PROVE  UInv'
<1> USE DEF UInv, TypeOK, CompleteFails
<1>1. NamesInOrder' /\ ReceivesAlone' /\ GoneIsEmpty' /\ PartsAreWhole' /\ Unsent'
  BY PutsUntouched
<1>2. TypeOK'
  OBVIOUS
<1>3. MergedAreWhole'
  BY DEF MergedAreWhole
<1> QED BY <1>1, <1>2, <1>3 DEF Unsent

\* Removing the session takes the names away and leaves the rest.
LEMMA RemoveSessionKeeps ==
    ASSUME UInv, RemoveSession, UNCHANGED <<putVars, compVars, crashes>>,
           pc' = pc \/ \E c \in Completes : pc[c] = "clean" /\ pc' = [pc EXCEPT ![c] = "ok"]
    PROVE  UInv'
<1> USE DEF UInv, TypeOK, RemoveSession
<1>1. \A p \in Puts : pc'[p] = pc[p]
  OBVIOUS
<1>2. pc' \in [Requests -> {"ready", "receive", "merge", "clean", "ok", "failed"}]
  OBVIOUS
<1>3. TypeOK'
  BY <1>2
<1>4. NamesInOrder' /\ GoneIsEmpty' /\ PartsAreWhole'
  BY DEF NamesInOrder, GoneIsEmpty, PartsAreWhole
<1>5. ReceivesAlone'
  <2> SUFFICES ASSUME NEW p \in Puts, pc[p] = "receive"
      PROVE fd[p] # part'[chunk[p]] /\ tmp'[chunk[p]] = None
    BY <1>1 DEF ReceivesAlone, Receiving
  <2>1. fd[p] \in Puts
    BY DEF ReceivesAlone
  <2> QED BY <2>1
<1>6. MergedAreWhole'
  BY DEF MergedAreWhole
<1> QED BY <1>1, <1>3, <1>4, <1>5, <1>6

LEMMA CrashKeeps ==
    ASSUME UInv, Crash
    PROVE  UInv'
<1> USE DEF UInv, TypeOK, Crash
<1>1. \A q \in Requests : /\ pc'[q] = "ready" <=> pc[q] = "ready"
                         /\ pc'[q] \notin {"receive", "merge", "clean"}
  OBVIOUS
<1>2. TypeOK'
  OBVIOUS
<1>3. NamesInOrder'
  BY <1>1 DEF NamesInOrder
<1>4. ReceivesAlone'
  BY <1>1 DEF ReceivesAlone
<1>5. MergedAreWhole'
  BY <1>1 DEF MergedAreWhole
<1> QED BY <1>1, <1>2, <1>3, <1>4, <1>5 DEF GoneIsEmpty, PartsAreWhole

-----------------------------------------------------------------------------
(* A client that sends a chunk again only when the server no longer receives it *)
(* keeps the names, the files and the merges in order, however its requests,    *)
(* the completes, a cancel and a crash of the web process interleave.           *)
THEOREM UploadInvariance ==
    ASSUME ~Overlap PROVE Spec => []UInv
<1>1. UInv /\ [Next]_vars => UInv'
  <2> SUFFICES ASSUME UInv, [Next]_vars PROVE UInv'
    OBVIOUS
  <2>1. CASE UNCHANGED vars
    BY <2>1 DEF vars, UInv, TypeOK, NamesInOrder, ReceivesAlone, Receiving, MergedAreWhole,
       GoneIsEmpty, PartsAreWhole
  <2>2. ASSUME NEW p \in Puts, PutStep(p) PROVE UInv'
    BY <2>2, PutOpenKeeps, PutWriteKeeps, PutEndKeeps, PutFailsKeeps DEF PutStep
  <2>3. ASSUME NEW c \in Completes, CompleteStep(c) PROVE UInv'
    <3>1. CASE CompleteClean(c)
      BY <3>1, RemoveSessionKeeps DEF CompleteClean
    <3> QED
      BY <2>3, <3>1, CompleteStartKeeps, MergePartKeeps, CompleteInsertKeeps,
         CompleteFailsKeeps DEF CompleteStep
  <2>4. CASE CancelUpload
    BY <2>4, RemoveSessionKeeps DEF CancelUpload
  <2>5. CASE Crash
    BY <2>5, CrashKeeps
  <2> QED BY <2>1, <2>2, <2>3, <2>4, <2>5 DEF Next
<1> QED BY InitUInv, <1>1, PTL DEF Spec

(* What the status endpoint lists as received is whole: a client may resume there. *)
THEOREM ResumeIsSafe ==
    ASSUME ~Overlap PROVE Spec => []PartsAreWhole
<1>1. UInv => PartsAreWhole
  BY DEF UInv
<1> QED BY <1>1, UploadInvariance, PTL

(* Every report's hprof is made of whole chunks. *)
THEOREM ReportsWhole ==
    ASSUME ~Overlap PROVE Spec => []ReportIsWhole
<1>1. UInv => ReportIsWhole
  BY DEF UInv, TypeOK, MergedAreWhole, ReportIsWhole
<1> QED BY <1>1, UploadInvariance, PTL

-----------------------------------------------------------------------------
(* One report for a session, and no dump directory without one, also for a    *)
(* client that sends a chunk again while the server still receives it         *)

\* A complete has its row until its last stretch is over, and the session is
\* there only while no complete has gone through it, or the process died.
Kept ==
    /\ pc \in [Requests -> {"ready", "receive", "merge", "clean", "ok", "failed"}]
    /\ dumpDir \in [Completes -> {"none", "merging", "hprof"}]
    /\ crashes \in Nat
    /\ \A c \in Completes : pc[c] = "clean" => c \in reports
    /\ reports = {} \/ ~session \/ crashes > 0 \/ \E c \in Completes : pc[c] = "clean"
    /\ NoOrphanedDump

(* No session has been completed. *)
LEMMA InitKept == Init => Kept
BY DEF Init, Kept, NoOrphanedDump

(* Every step keeps it, whoever sends what when. *)
LEMMA StepKept == Kept /\ [Next]_vars => Kept'
<1> SUFFICES ASSUME Kept, [Next]_vars PROVE Kept'
  OBVIOUS
<1> USE DEF Kept, NoOrphanedDump
<1>1. ASSUME NEW p \in Puts, PutStep(p) PROVE Kept'
  <2>1. \E l \in {"receive", "ok", "failed"} : pc' = pc \/ pc' = [pc EXCEPT ![p] = l]
    BY <1>1 DEF PutStep, PutOpen, PutWrite, PutEnd, PutEndFails, PutFails
  <2>2. UNCHANGED <<session, dumpDir, reports, crashes>>
    BY <1>1 DEF PutStep, PutOpen, PutWrite, PutEnd, PutEndFails, PutFails
  <2>3. pc' \in [Requests -> {"ready", "receive", "merge", "clean", "ok", "failed"}]
        /\ \A c \in Completes : pc'[c] = pc[c]
    BY <2>1
  <2>4. QED
    BY <2>2, <2>3
<1>2. ASSUME NEW c \in Completes, CompleteStart(c) PROVE Kept'
  BY <1>2 DEF CompleteStart, LoopFree
<1>3. ASSUME NEW c \in Completes, MergePart(c) PROVE Kept'
  BY <1>3 DEF MergePart
<1>4. ASSUME NEW c \in Completes, CompleteInsert(c) PROVE Kept'
  BY <1>4 DEF CompleteInsert
<1>5. ASSUME NEW c \in Completes, CompleteClean(c) PROVE Kept'
  BY <1>5 DEF CompleteClean, RemoveSession
<1>6. ASSUME NEW c \in Completes, CompleteFails(c) PROVE Kept'
  BY <1>6 DEF CompleteFails, LoopFree
<1>7. CASE CancelUpload
  BY <1>7 DEF CancelUpload, RemoveSession
<1>8. CASE Crash
  BY <1>8 DEF Crash
<1>9. CASE UNCHANGED vars
  BY <1>9 DEF vars
<1>10. QED
  BY <1>1, <1>2, <1>3, <1>4, <1>5, <1>6, <1>7, <1>8, <1>9 DEF Next, CompleteStep

(* A dump directory without a report is one being merged, or the process died: *)
(* complete_upload removes it on every error path (heapdump_upload.py), for any *)
(* number of requests, also those of a client that sends a chunk twice at once. *)
THEOREM NoDumpOrphaned == Spec => []NoOrphanedDump
<1>1. Kept => NoOrphanedDump
  BY DEF Kept
<1>2. QED
  BY <1>1, InitKept, StepKept, PTL DEF Spec

(* No complete starts on a session of which a report has been made.            *)
THEOREM CompletedOnce == Spec => CompletesOnce
<1>1. Kept /\ [Next]_vars =>
        [\A c \in Completes :
          pc[c] = "ready" /\ pc'[c] = "merge" => reports = {} \/ crashes > 0]_vars
  <2> SUFFICES ASSUME Kept, Next, NEW c \in Completes, pc[c] = "ready", pc'[c] = "merge"
               PROVE  reports = {} \/ crashes > 0
    OBVIOUS
  <2>1. \/ CompleteStart(c)
        \/ pc'[c] # "merge"
        \/ pc'[c] = pc[c]
    <3>1. ASSUME NEW p \in Puts, PutStep(p) PROVE pc'[c] = pc[c] \/ pc'[c] # "merge"
      BY <3>1 DEF Kept, PutStep, PutOpen, PutWrite, PutEnd, PutEndFails, PutFails
    <3>2. ASSUME NEW d \in Completes, CompleteStep(d)
          PROVE  CompleteStart(c) \/ pc'[c] # "merge" \/ pc'[c] = pc[c]
      BY <3>2 DEF Kept, CompleteStep, CompleteStart, MergePart, CompleteInsert, CompleteClean,
                  CompleteFails
    <3>3. CASE CancelUpload \/ Crash
      BY <3>3 DEF Kept, CancelUpload, Crash
    <3>4. QED
      BY <3>1, <3>2, <3>3 DEF Next
  <2>2. session /\ \A d \in Completes : pc[d] # "clean"
    BY <2>1 DEF CompleteStart, LoopFree
  <2>3. QED
    BY <2>2 DEF Kept
<1>2. QED
  BY <1>1, InitKept, StepKept, PTL DEF Spec, CompletesOnce
=============================================================================
