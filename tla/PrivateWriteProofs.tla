------------------------- MODULE PrivateWriteProofs -------------------------
(***************************************************************************)
(* PrivateWrite for any number of calls, readers, temp names, chunks and   *)
(* power losses: the report path is always whole, and write_private        *)
(* implements AtomicReport.                                                *)
(***************************************************************************)
EXTENDS PrivateWrite, TLAPS

(* Before its open, and after a failed one, a call has no file. *)
NoFileYet ==
  \A p \in Writers : pc[p] \in {"idle", "err_open"} =>
    /\ size[p] = 0
    /\ \A n \in Names : dir[n] # p /\ diskDir[n] # p

(* A running call owns the link at its temp name. *)
OwnsTemp ==
  \A p \in Writers : pc[p] \in Running =>
    temporary[p] \in TempNames /\ dir[temporary[p]] = p

(* What a call has written when it gets to each step. *)
Written ==
  \A p \in Writers :
    /\ pc[p] = "write" => size[p] < Chunks
    /\ pc[p] \in {"sync", "commit"} => size[p] = Chunks
    /\ pc[p] = "commit" => diskSize[p] = Chunks

(* The disk is behind the page cache, and whatever the path shows or a     *)
(* reader has open is all on the disk already.                             *)
DiskBehind == \A f \in Files : diskSize[f] <= size[f]

OnDisk(f) == f # None => diskSize[f] = Chunks

PublishedOnDisk ==
  /\ OnDisk(dir[Dest])
  /\ OnDisk(diskDir[Dest])
  /\ \A r \in Readers : OnDisk(reading[r])

IInv ==
  /\ TypeOK
  /\ NoFileYet
  /\ OwnsTemp
  /\ Written
  /\ DiskBehind
  /\ PublishedOnDisk

-----------------------------------------------------------------------------
LEMMA InitIInv == Init => IInv
<1>. SUFFICES ASSUME Init PROVE IInv
  OBVIOUS
<1>. USE ConstantsAssumption DEF Init, Files, Names
<1>1. PICK first \in {None, Old} :
        dir = [n \in Names |-> IF n = Dest THEN first ELSE None]
  OBVIOUS
<1>2. TypeOK
  BY <1>1 DEF TypeOK, Running, Failed
<1>3. NoFileYet
  BY <1>1 DEF NoFileYet
<1>4. OwnsTemp /\ Written
  BY DEF OwnsTemp, Written, Running
<1>5. DiskBehind
  BY DEF DiskBehind
<1>6. PublishedOnDisk
  BY <1>1 DEF PublishedOnDisk, OnDisk
<1>7. QED
  BY <1>2, <1>3, <1>4, <1>5, <1>6 DEF IInv

-----------------------------------------------------------------------------
(* Every step keeps the invariant.  The ones that carry the argument: an   *)
(* open takes a free name, so no running call loses its link; a rename     *)
(* publishes a file that is all on the disk; nothing ever takes chunks of  *)
(* a file away from the disk, so a power loss is harmless.                 *)
LEMMA NextIInv == IInv /\ [Next]_vars => IInv'
<1>. SUFFICES ASSUME IInv, [Next]_vars PROVE IInv'
  OBVIOUS
<1>. USE ConstantsAssumption
     DEF IInv, TypeOK, NoFileYet, OwnsTemp, Written, DiskBehind,
         PublishedOnDisk, OnDisk, Files, Names, Running, Failed
<1>1. ASSUME NEW p \in Writers, Open(p) PROVE IInv'
  BY <1>1 DEF Open, Goto
<1>2. ASSUME NEW p \in Writers, OpenError(p) PROVE IInv'
  BY <1>2 DEF OpenError, Goto
<1>3. ASSUME NEW p \in Writers, WriteChunk(p) PROVE IInv'
  BY <1>3 DEF WriteChunk, Goto
<1>4. ASSUME NEW p \in Writers, IoError(p) PROVE IInv'
  BY <1>4 DEF IoError, Goto
<1>5. ASSUME NEW p \in Writers, SyncAll(p) PROVE IInv'
  BY <1>5 DEF SyncAll, Goto
<1>6. ASSUME NEW p \in Writers, RemoveTemp(p) PROVE IInv'
  BY <1>6 DEF RemoveTemp, Goto
<1>7. ASSUME NEW p \in Writers, RemoveTempError(p) PROVE IInv'
  BY <1>7 DEF RemoveTempError, Goto
<1>8. ASSUME NEW p \in Writers, Rename(p) PROVE IInv'
  BY <1>8 DEF Rename, Goto
<1>9. ASSUME NEW p \in Writers, RenameError(p) PROVE IInv'
  BY <1>9 DEF RenameError, Goto
<1>10. ASSUME NEW p \in Writers, Kill(p) PROVE IInv'
  BY <1>10 DEF Kill, Goto
<1>11. ASSUME NEW r \in Readers, OpenReport(r) PROVE IInv'
  BY <1>11 DEF OpenReport
<1>12. ASSUME NEW r \in Readers, ReadChunk(r) PROVE IInv'
  BY <1>12 DEF ReadChunk
<1>13. ASSUME NEW r \in Readers, CloseReport(r) PROVE IInv'
  BY <1>13 DEF CloseReport, AtEof
<1>14. ASSUME NEW f \in Files, WriteBack(f) PROVE IInv'
  BY <1>14 DEF WriteBack
<1>15. CASE FlushDir
  BY <1>15 DEF FlushDir
<1>16. CASE PowerLoss
  BY <1>16 DEF PowerLoss
<1>17. CASE UNCHANGED vars
  BY <1>17 DEF vars
<1>18. QED
  BY <1>1, <1>2, <1>3, <1>4, <1>5, <1>6, <1>7, <1>8, <1>9, <1>10, <1>11,
     <1>12, <1>13, <1>14, <1>15, <1>16, <1>17
  DEF Next, CallStep, Environment

THEOREM Invariance == Spec => []IInv
  BY InitIInv, NextIInv, PTL DEF Spec

(* Every variable keeps its type. *)
THEOREM TypeCorrect == Spec => []TypeOK
<1>1. IInv => TypeOK
  BY DEF IInv
<1>2. QED
  BY <1>1, Invariance, PTL

(* Whatever the calls, the kernel and the power do, the report path is     *)
(* empty or holds one complete report, now and after a power loss now.     *)
THEOREM DestStaysWhole == Spec => []DestWhole
<1>1. IInv => DestWhole
  BY ConstantsAssumption
  DEF IInv, TypeOK, DiskBehind, PublishedOnDisk, OnDisk, DestWhole, Files, Names
<1>2. QED
  BY <1>1, Invariance, PTL

(* A reader that got to the end of the file it opened has a whole report.  *)
THEOREM ReadersSeeWholeReports == Spec => []ReaderNeverTorn
<1>1. IInv => ReaderNeverTorn
  BY ConstantsAssumption
  DEF IInv, TypeOK, DiskBehind, PublishedOnDisk, OnDisk, ReaderNeverTorn,
      AtEof, Files
<1>2. QED
  BY <1>1, Invariance, PTL

(* Running calls never share a temp file, though their names may coincide. *)
THEOREM TempStaysExclusive == Spec => []TempExclusive
<1>1. IInv => TempExclusive
  BY DEF IInv, OwnsTemp, TempExclusive
<1>2. QED
  BY <1>1, Invariance, PTL


-----------------------------------------------------------------------------
(* Temp files that stay behind.  While no power loss has undone a removal  *)
(* or a rename, a file is linked at most once outside Dest, at the name    *)
(* its call chose.                                                         *)
LinkedByCall ==
  outages = 0 =>
    \A t \in TempNames, p \in Writers :
      dir[t] = p =>
        /\ temporary[p] = t
        /\ pc[p] \in Running \union {"dead", "err_unlink", "err_commit"}

LEMMA NextLinkedByCall ==
  IInv /\ LinkedByCall /\ [Next]_vars => LinkedByCall'
<1>. SUFFICES ASSUME IInv, LinkedByCall, [Next]_vars PROVE LinkedByCall'
  OBVIOUS
<1>. USE ConstantsAssumption
     DEF IInv, TypeOK, NoFileYet, OwnsTemp, LinkedByCall, Files, Names, Running, Failed
<1>1. ASSUME NEW p \in Writers, Open(p) PROVE LinkedByCall'
  BY <1>1 DEF Open, Goto
<1>2. ASSUME NEW p \in Writers, OpenError(p) PROVE LinkedByCall'
  BY <1>2 DEF OpenError, Goto
<1>3. ASSUME NEW p \in Writers, WriteChunk(p) PROVE LinkedByCall'
  BY <1>3 DEF WriteChunk, Goto
<1>4. ASSUME NEW p \in Writers, IoError(p) PROVE LinkedByCall'
  BY <1>4 DEF IoError, Goto
<1>5. ASSUME NEW p \in Writers, SyncAll(p) PROVE LinkedByCall'
  BY <1>5 DEF SyncAll, Goto
<1>6. ASSUME NEW p \in Writers, RemoveTemp(p) PROVE LinkedByCall'
  BY <1>6 DEF RemoveTemp, Goto
<1>7. ASSUME NEW p \in Writers, RemoveTempError(p) PROVE LinkedByCall'
  BY <1>7 DEF RemoveTempError, Goto
<1>8. ASSUME NEW p \in Writers, Rename(p) PROVE LinkedByCall'
  BY <1>8 DEF Rename, Goto
<1>9. ASSUME NEW p \in Writers, RenameError(p) PROVE LinkedByCall'
  BY <1>9 DEF RenameError, Goto
<1>10. ASSUME NEW p \in Writers, Kill(p) PROVE LinkedByCall'
  BY <1>10 DEF Kill, Goto
<1>11. ASSUME NEW r \in Readers, OpenReport(r) PROVE LinkedByCall'
  BY <1>11 DEF OpenReport
<1>12. ASSUME NEW r \in Readers, ReadChunk(r) PROVE LinkedByCall'
  BY <1>12 DEF ReadChunk
<1>13. ASSUME NEW r \in Readers, CloseReport(r) PROVE LinkedByCall'
  BY <1>13 DEF CloseReport, AtEof
<1>14. ASSUME NEW f \in Files, WriteBack(f) PROVE LinkedByCall'
  BY <1>14 DEF WriteBack
<1>15. CASE FlushDir
  BY <1>15 DEF FlushDir
<1>16. CASE PowerLoss
  BY <1>16 DEF PowerLoss
<1>17. CASE UNCHANGED vars
  BY <1>17 DEF vars
<1>18. QED
  BY <1>1, <1>2, <1>3, <1>4, <1>5, <1>6, <1>7, <1>8, <1>9, <1>10, <1>11,
     <1>12, <1>13, <1>14, <1>15, <1>16, <1>17
  DEF Next, CallStep, Environment

(* A temp file that stays behind has one of the causes LeftoverExplained   *)
(* names; a successful call and a write or fsync error leave none.         *)
THEOREM LeftoversHaveACause == Spec => []LeftoverExplained
<1>1. Init => LinkedByCall
  BY ConstantsAssumption DEF Init, LinkedByCall, Files, Names
<1>2. Spec => []LinkedByCall
  BY <1>1, Invariance, NextLinkedByCall, PTL DEF Spec
<1>3. LinkedByCall => LeftoverExplained
  BY DEF LinkedByCall, LeftoverExplained
<1>4. QED
  BY <1>2, <1>3, PTL

-----------------------------------------------------------------------------
(* What a step of one call does to the abstract status of all of them. *)
StatusOf == [p \in Writers |-> Status(pc[p])]

LEMMA StatusStep ==
  ASSUME TypeOK, NEW p \in Writers, NEW to, Goto(p, to)
  PROVE  StatusOf' = [StatusOf EXCEPT ![p] = Status(to)]
<1>1. \A q \in Writers : pc'[q] = IF q = p THEN to ELSE pc[q]
  BY DEF Goto, TypeOK
<1>2. QED
  BY <1>1 DEF StatusOf

(* Every step of write_private, of the readers and of the kernel is a step *)
(* of AtomicReport or leaves what it talks about unchanged.                *)
LEMMA NextRefines == IInv /\ IInv' /\ [Next]_vars => [Abstract!Next]_(Abstract!vars)
<1>. SUFFICES ASSUME IInv, IInv', [Next]_vars
     PROVE  [Abstract!Next]_(Abstract!vars)
  OBVIOUS
<1>. USE ConstantsAssumption
(* While the invariant holds, the path shows the file it is linked to. *)
<1>1. Content(dir, size) = dir[Dest] /\ Content(diskDir, diskSize) = diskDir[Dest]
  BY DEF Content, IInv, TypeOK, DiskBehind, PublishedOnDisk, OnDisk, Files, Names
<1>2. /\ Content(dir, size)' = dir'[Dest]
      /\ Content(diskDir, diskSize)' = diskDir'[Dest]
  BY DEF Content, IInv, TypeOK, DiskBehind, PublishedOnDisk, OnDisk, Files, Names
<1>3. TypeOK
  BY DEF IInv
<1>4. ASSUME NEW p \in Writers, Open(p) PROVE Abstract!Begin(p)
  <2>1. StatusOf' = [StatusOf EXCEPT ![p] = Status("write")]
    BY <1>3, <1>4, StatusStep DEF Open
  <2>2. QED
    BY <1>1, <1>2, <1>3, <1>4, <2>1
    DEF Open, Abstract!Begin, StatusOf, Status, Running, Failed, IInv, TypeOK, OwnsTemp, Names
<1>5. ASSUME NEW p \in Writers, OpenError(p) PROVE Abstract!Abort(p)
  <2>1. StatusOf' = [StatusOf EXCEPT ![p] = Status("err_open")]
    BY <1>3, <1>5, StatusStep DEF OpenError
  <2>2. QED
    BY <1>1, <1>2, <1>3, <1>5, <2>1
    DEF OpenError, Abstract!Abort, StatusOf, Status, Running, Failed, IInv, TypeOK, OwnsTemp, Names
<1>6. ASSUME NEW p \in Writers, WriteChunk(p) PROVE UNCHANGED Abstract!vars
  BY <1>1, <1>2, <1>3, <1>6
  DEF WriteChunk, Goto, Abstract!vars, Status, Running, Failed, TypeOK
<1>7. ASSUME NEW p \in Writers, IoError(p) PROVE UNCHANGED Abstract!vars
  BY <1>1, <1>2, <1>3, <1>7
  DEF IoError, Goto, Abstract!vars, Status, Running, Failed, TypeOK
<1>8. ASSUME NEW p \in Writers, SyncAll(p) PROVE UNCHANGED Abstract!vars
  BY <1>1, <1>2, <1>3, <1>8
  DEF SyncAll, Goto, Abstract!vars, Status, Running, Failed, TypeOK
<1>9. ASSUME NEW p \in Writers, RemoveTemp(p) PROVE Abstract!Abort(p)
  <2>1. StatusOf' = [StatusOf EXCEPT ![p] = Status("err_io")]
    BY <1>3, <1>9, StatusStep DEF RemoveTemp
  <2>2. QED
    BY <1>1, <1>2, <1>3, <1>9, <2>1
    DEF RemoveTemp, Abstract!Abort, StatusOf, Status, Running, Failed, IInv, TypeOK, OwnsTemp, Names
<1>10. ASSUME NEW p \in Writers, RemoveTempError(p) PROVE Abstract!Abort(p)
  <2>1. StatusOf' = [StatusOf EXCEPT ![p] = Status("err_unlink")]
    BY <1>3, <1>10, StatusStep DEF RemoveTempError
  <2>2. QED
    BY <1>1, <1>2, <1>3, <1>10, <2>1
    DEF RemoveTempError, Abstract!Abort, StatusOf, Status, Running, Failed, IInv, TypeOK, OwnsTemp, Names
<1>11. ASSUME NEW p \in Writers, Rename(p) PROVE Abstract!Commit(p)
  <2>1. StatusOf' = [StatusOf EXCEPT ![p] = Status("done")]
    BY <1>3, <1>11, StatusStep DEF Rename
  <2>2. QED
    BY <1>1, <1>2, <1>3, <1>11, <2>1
    DEF Rename, Abstract!Commit, StatusOf, Status, Running, Failed, IInv, TypeOK, OwnsTemp, Names
<1>12. ASSUME NEW p \in Writers, RenameError(p) PROVE Abstract!Abort(p)
  <2>1. StatusOf' = [StatusOf EXCEPT ![p] = Status("err_commit")]
    BY <1>3, <1>12, StatusStep DEF RenameError
  <2>2. QED
    BY <1>1, <1>2, <1>3, <1>12, <2>1
    DEF RenameError, Abstract!Abort, StatusOf, Status, Running, Failed, IInv, TypeOK, OwnsTemp, Names
<1>13. ASSUME NEW p \in Writers, Kill(p) PROVE Abstract!Die(p)
  <2>1. StatusOf' = [StatusOf EXCEPT ![p] = Status("dead")]
    BY <1>3, <1>13, StatusStep DEF Kill
  <2>2. QED
    BY <1>1, <1>2, <1>3, <1>13, <2>1
    DEF Kill, Abstract!Die, StatusOf, Status, Running, Failed, IInv, TypeOK, OwnsTemp, Names
<1>14. ASSUME NEW r \in Readers, OpenReport(r) PROVE UNCHANGED Abstract!vars
  BY <1>1, <1>2, <1>14 DEF OpenReport, Abstract!vars
<1>15. ASSUME NEW r \in Readers, ReadChunk(r) PROVE UNCHANGED Abstract!vars
  BY <1>1, <1>2, <1>15 DEF ReadChunk, Abstract!vars
<1>16. ASSUME NEW r \in Readers, CloseReport(r) PROVE UNCHANGED Abstract!vars
  BY <1>1, <1>2, <1>16 DEF CloseReport, Abstract!vars
<1>17. ASSUME NEW f \in Files, WriteBack(f) PROVE UNCHANGED Abstract!vars
  BY <1>1, <1>2, <1>17 DEF WriteBack, Abstract!vars
<1>18. CASE FlushDir
  <2>1. Abstract!Settle
    BY <1>1, <1>2, <1>18 DEF FlushDir, Abstract!Settle
  <2>2. QED
    BY <2>1 DEF Abstract!Next
<1>19. CASE PowerLoss
  <2>1. \A p \in Writers : pc'[p] = IF pc[p] \in Running THEN "dead" ELSE pc[p]
    BY <1>19 DEF PowerLoss
  <2>2. \A p \in Writers :
          Status(pc'[p]) = IF Status(pc[p]) = "busy" THEN "dead" ELSE Status(pc[p])
    BY <1>3, <2>1 DEF Status, Running, Failed, TypeOK
  <2>3. Abstract!Outage
    BY <1>1, <1>2, <1>19, <2>2 DEF PowerLoss, Abstract!Outage
  <2>4. QED
    BY <2>3 DEF Abstract!Next
<1>20. CASE UNCHANGED vars
  BY <1>1, <1>2, <1>20 DEF vars, Abstract!vars
<1>21. QED
  BY <1>4, <1>5, <1>6, <1>7, <1>8, <1>9, <1>10, <1>11, <1>12, <1>13,
     <1>14, <1>15, <1>16, <1>17, <1>18, <1>19, <1>20
  DEF Next, CallStep, Environment, Abstract!Next

(* write_private implements AtomicReport, for every number of calls. *)
THEOREM Refinement == Spec => ImplementsAtomicReport
<1>1. Init => Abstract!Init
  BY ConstantsAssumption
  DEF Init, Abstract!Init, Content, Status, Files, Names, Running, Failed
<1>2. QED
  BY <1>1, Invariance, NextRefines, PTL DEF Spec, Abstract!Spec, ImplementsAtomicReport

=============================================================================
