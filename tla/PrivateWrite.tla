---------------------------- MODULE PrivateWrite ----------------------------
(***************************************************************************)
(* `write_private` of src/src/report.rs: every machine report of `scan`,   *)
(* `web`, `deps` and `diff` goes to its --output path through it.  Several *)
(* calls (CI jobs that share a checkout, a scan started twice) write the   *)
(* same path while other runs read it with --baseline, `diff`, `validate`. *)
(*                                                                         *)
(* The file system is the environment.  It is a directory of names, each   *)
(* linked to a file or to nothing, and a number of report chunks per file; *)
(* both exist twice, as running programs see them (`dir`, `size`) and as   *)
(* they are on the disk (`diskDir`, `diskSize`).  The kernel writes either *)
(* back whenever it likes, in the order of the updates for the directory,  *)
(* and a power loss leaves only what is on the disk.  A file is named by   *)
(* the call that creates it, since a call creates at most one.             *)
(***************************************************************************)
EXTENDS Integers

CONSTANTS Writers,     \* calls of write_private
          Readers,     \* processes that read the destination
          TempNames,   \* the names .<name>.<pid>.<nonce>.tmp that may come up
          Dest,        \* the --output path
          Old,         \* the file that is at Dest before the first call
          None,        \* no file
          Torn,        \* a report with chunks missing
          Chunks,      \* chunks in a report
          MaxOutages   \* bound: power losses in a behaviour

ASSUME ConstantsAssumption ==
  /\ Chunks \in Nat \ {0}
  /\ MaxOutages \in Nat
  /\ Dest \notin TempNames
  /\ Old \notin Writers
  /\ None \notin Writers \union {Old} \union TempNames
  /\ Torn \notin Writers \union {Old, None}

Files == Writers \union {Old}
Names == TempNames \union {Dest}

VARIABLES dir,        \* name -> file, as running programs see it
          diskDir,    \* name -> file, as it is on the disk
          size,       \* file -> chunks written
          diskSize,   \* file -> chunks on the disk
          pc,         \* where each call is
          temporary,  \* the temp name of each call
          reading,    \* the file each reader has open
          got,        \* the chunks each reader has read of it
          outages     \* power losses so far

vars == <<dir, diskDir, size, diskSize, pc, temporary, reading, got, outages>>

(* A call between a successful open of its temp file and its return. *)
Running == {"write", "sync", "cleanup", "commit"}

(* Returned Err from: open, write or fsync (temp file removed), the same   *)
(* with remove_file failing too, rename.                                   *)
Failed == {"err_open", "err_io", "err_unlink", "err_commit"}

Init ==
  /\ \E first \in {None, Old} :
       dir = [n \in Names |-> IF n = Dest THEN first ELSE None]
  /\ diskDir = dir
  /\ size = [f \in Files |-> IF f = Old THEN Chunks ELSE 0]
  /\ diskSize = size
  /\ pc = [p \in Writers |-> "idle"]
  /\ temporary = [p \in Writers |-> None]
  /\ reading = [r \in Readers |-> None]
  /\ got = [r \in Readers |-> 0]
  /\ outages = 0

-----------------------------------------------------------------------------
(* The steps of one call. *)

Goto(p, to) == pc' = [pc EXCEPT ![p] = to]

(* Bug: create(true) for create_new(true), the name may be taken. *)
OpenAnyName(p) ==
  /\ pc[p] = "idle"
  /\ \E t \in TempNames :
       /\ dir' = [dir EXCEPT ![t] = p]
       /\ temporary' = [temporary EXCEPT ![p] = t]
  /\ Goto(p, "write")
  /\ UNCHANGED <<diskDir, size, diskSize, reading, got, outages>>

(* OpenOptions::create_new: fails when the name is taken.  Which name pid  *)
(* and clock produce is left open, so two calls may well pick the same one *)
(* (pids of two containers, a clock before the epoch gives nonce 0).       *)
Open(p) ==
  /\ pc[p] = "idle"
  /\ \E t \in TempNames :
       /\ dir[t] = None
       /\ dir' = [dir EXCEPT ![t] = p]
       /\ temporary' = [temporary EXCEPT ![p] = t]
  /\ Goto(p, "write")
  /\ UNCHANGED <<diskDir, size, diskSize, reading, got, outages>>

(* The name is taken, or the directory is missing or not writable. *)
OpenError(p) ==
  /\ pc[p] = "idle"
  /\ Goto(p, "err_open")
  /\ UNCHANGED <<dir, diskDir, size, diskSize, temporary, reading, got, outages>>

(* Bug: write for write_all. *)
WriteOnce(p) ==
  /\ pc[p] = "write"
  /\ size' = [size EXCEPT ![p] = @ + 1]
  /\ Goto(p, "sync")
  /\ UNCHANGED <<dir, diskDir, diskSize, temporary, reading, got, outages>>

(* Bug: the last chunk is written twice. *)
WritePastEnd(p) ==
  /\ pc[p] = "write"
  /\ size' = [size EXCEPT ![p] = @ + 1]
  /\ Goto(p, IF size[p] = Chunks THEN "sync" ELSE "write")
  /\ UNCHANGED <<dir, diskDir, diskSize, temporary, reading, got, outages>>

(* write_all, one write(2) at a time. *)
WriteChunk(p) ==
  /\ pc[p] = "write"
  /\ size' = [size EXCEPT ![p] = @ + 1]
  /\ Goto(p, IF size[p] + 1 = Chunks THEN "sync" ELSE "write")
  /\ UNCHANGED <<dir, diskDir, diskSize, temporary, reading, got, outages>>

(* Bugs: the error is dropped; returned without the clean-up; retried. *)
IoErrorDropped(p) ==
  /\ pc[p] \in {"write", "sync"}
  /\ Goto(p, "commit")
  /\ UNCHANGED <<dir, diskDir, size, diskSize, temporary, reading, got, outages>>

IoErrorReturned(p) ==
  /\ pc[p] \in {"write", "sync"}
  /\ Goto(p, "err_io")
  /\ UNCHANGED <<dir, diskDir, size, diskSize, temporary, reading, got, outages>>

IoErrorRetried(p) ==
  /\ pc[p] \in {"write", "sync"}
  /\ size' = [size EXCEPT ![p] = 0]
  /\ diskSize' = [diskSize EXCEPT ![p] = 0]
  /\ Goto(p, "write")
  /\ UNCHANGED <<dir, diskDir, temporary, reading, got, outages>>

(* write_all or sync_all returns an error: disk full, quota, I/O error. *)
IoError(p) ==
  /\ pc[p] \in {"write", "sync"}
  /\ Goto(p, "cleanup")
  /\ UNCHANGED <<dir, diskDir, size, diskSize, temporary, reading, got, outages>>

(* Bug: flush for sync_all. *)
SyncNothing(p) ==
  /\ pc[p] = "sync"
  /\ Goto(p, "commit")
  /\ UNCHANGED <<dir, diskDir, size, diskSize, temporary, reading, got, outages>>

SyncAll(p) ==
  /\ pc[p] = "sync"
  /\ diskSize' = [diskSize EXCEPT ![p] = size[p]]
  /\ Goto(p, "commit")
  /\ UNCHANGED <<dir, diskDir, size, temporary, reading, got, outages>>

(* `let _ = fs::remove_file(&temporary)` and the error is returned. *)
RemoveTemp(p) ==
  /\ pc[p] = "cleanup"
  /\ dir' = [dir EXCEPT ![temporary[p]] = None]
  /\ Goto(p, "err_io")
  /\ UNCHANGED <<diskDir, size, diskSize, temporary, reading, got, outages>>

(* remove_file fails as well; its error is dropped. *)
RemoveTempError(p) ==
  /\ pc[p] = "cleanup"
  /\ Goto(p, "err_unlink")
  /\ UNCHANGED <<dir, diskDir, size, diskSize, temporary, reading, got, outages>>

Rename(p) ==
  /\ pc[p] = "commit"
  /\ dir[temporary[p]] # None
  /\ dir' = [dir EXCEPT ![Dest] = dir[temporary[p]], ![temporary[p]] = None]
  /\ Goto(p, "done")
  /\ UNCHANGED <<diskDir, size, diskSize, temporary, reading, got, outages>>

(* rename fails, e.g. Dest is a directory: returned with `?`, no cleanup. *)
RenameError(p) ==
  /\ pc[p] = "commit"
  /\ Goto(p, "err_commit")
  /\ UNCHANGED <<dir, diskDir, size, diskSize, temporary, reading, got, outages>>

CallStep(p) ==
  \/ WriteChunk(p) \/ IoError(p) \/ SyncAll(p)
  \/ RemoveTemp(p) \/ RemoveTempError(p)
  \/ Rename(p) \/ RenameError(p)

-----------------------------------------------------------------------------
(* Readers: fs::read_to_string(path) opens the file once and reads it to   *)
(* its end; a name relinked meanwhile does not change the open file.       *)

OpenReport(r) ==
  /\ reading[r] = None
  /\ dir[Dest] # None
  /\ reading' = [reading EXCEPT ![r] = dir[Dest]]
  /\ got' = [got EXCEPT ![r] = 0]
  /\ UNCHANGED <<dir, diskDir, size, diskSize, pc, temporary, outages>>

ReadChunk(r) ==
  /\ reading[r] # None
  /\ got[r] < size[reading[r]]
  /\ got' = [got EXCEPT ![r] = @ + 1]
  /\ UNCHANGED <<dir, diskDir, size, diskSize, pc, temporary, reading, outages>>

(* A read that is at the end of its file returns what it got. *)
AtEof(r) == reading[r] # None /\ got[r] = size[reading[r]]

CloseReport(r) ==
  /\ AtEof(r)
  /\ reading' = [reading EXCEPT ![r] = None]
  /\ UNCHANGED <<dir, diskDir, size, diskSize, pc, temporary, got, outages>>

-----------------------------------------------------------------------------
(* The environment. *)

(* The process is killed; its temp file stays. *)
Kill(p) ==
  /\ pc[p] \in Running
  /\ Goto(p, "dead")
  /\ UNCHANGED <<dir, diskDir, size, diskSize, temporary, reading, got, outages>>

WriteBack(f) ==
  /\ diskSize[f] < size[f]
  /\ diskSize' = [diskSize EXCEPT ![f] = @ + 1]
  /\ UNCHANGED <<dir, diskDir, size, pc, temporary, reading, got, outages>>

(* The directory reaches the disk.  write_private never asks for it. *)
FlushDir ==
  /\ diskDir' = dir
  /\ UNCHANGED <<dir, size, diskSize, pc, temporary, reading, got, outages>>

PowerLoss ==
  /\ outages < MaxOutages
  /\ outages' = outages + 1
  /\ dir' = diskDir
  /\ size' = diskSize
  /\ pc' = [p \in Writers |-> IF pc[p] \in Running THEN "dead" ELSE pc[p]]
  /\ reading' = [r \in Readers |-> None]
  /\ UNCHANGED <<diskDir, diskSize, temporary, got>>

Environment ==
  \/ \E f \in Files : WriteBack(f)
  \/ FlushDir
  \/ PowerLoss

Next ==
  \/ \E p \in Writers : Open(p) \/ OpenError(p) \/ CallStep(p) \/ Kill(p)
  \/ \E r \in Readers : OpenReport(r) \/ ReadChunk(r) \/ CloseReport(r)
  \/ Environment

(* write_private has no wait in it: a started call keeps taking steps      *)
(* until it returns, unless its process is killed.  The environment and    *)
(* the readers owe nothing.                                                *)
Spec == Init /\ [][Next]_vars /\ \A p \in Writers : WF_vars(CallStep(p))

-----------------------------------------------------------------------------
TypeOK ==
  /\ dir \in [Names -> Files \union {None}]
  /\ diskDir \in [Names -> Files \union {None}]
  /\ size \in [Files -> 0..Chunks]
  /\ diskSize \in [Files -> 0..Chunks]
  /\ pc \in [Writers -> Running \union Failed \union {"idle", "done", "dead"}]
  /\ temporary \in [Writers -> TempNames \union {None}]
  /\ reading \in [Readers -> Files \union {None}]
  /\ got \in [Readers -> 0..Chunks]
  /\ outages \in 0..MaxOutages

(* The report path is empty or holds every chunk of one report, for the    *)
(* programs that run now and for those that run after a power loss at this *)
(* moment: the fsync before the rename, the rename being the only step     *)
(* that links Dest, and O_EXCL on the temp name together.                  *)
DestWhole ==
  /\ dir[Dest] # None => size[dir[Dest]] = Chunks
  /\ diskDir[Dest] # None => diskSize[diskDir[Dest]] = Chunks

(* "never a partial file": a reader that opened the path at any moment and *)
(* read to the end, while calls wrote, renamed, failed or died, has every  *)
(* chunk of one report.                                                    *)
ReaderNeverTorn == \A r \in Readers : AtEof(r) => got[r] = Chunks

(* While a call runs, its temp name is linked to its own file, whatever    *)
(* names the other calls picked: none writes, removes or publishes the     *)
(* file of another.                                                        *)
TempExclusive == \A p \in Writers : pc[p] \in Running => dir[temporary[p]] = p

(* A temp file that stays in the directory has a cause: its call is at     *)
(* work, was killed, could not remove it, or failed in the rename, or the  *)
(* power went off.  In particular no successful call and no write or fsync *)
(* error leaves one behind.  (A comment of write_private says that the     *)
(* temp file is removed on any failure: not on that of the rename.)        *)
LeftoverExplained ==
  outages = 0 =>
    \A t \in TempNames, p \in Writers :
      dir[t] = p => pc[p] \in Running \union {"dead", "err_unlink", "err_commit"}

(* Every call that created its temp file returns, unless it is killed. *)
CallReturns ==
  \A p \in Writers : pc[p] \in Running ~> pc[p] \in Failed \union {"done", "dead"}

-----------------------------------------------------------------------------
(* Refinement: what the path shows and what each call has told its caller. *)

Content(links, chunks) ==
  IF links[Dest] = None THEN None
  ELSE IF chunks[links[Dest]] = Chunks THEN links[Dest] ELSE Torn

Status(stage) ==
  IF stage \in Running THEN "busy"
  ELSE IF stage \in Failed THEN "failed" ELSE stage

Abstract == INSTANCE AtomicReport
  WITH report <- Content(dir, size),
       stable <- Content(diskDir, diskSize),
       status <- [p \in Writers |-> Status(pc[p])]

(* write_private implements AtomicReport. *)
ImplementsAtomicReport == Abstract!Spec

=============================================================================
