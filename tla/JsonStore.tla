----------------------------- MODULE JsonStore -----------------------------
(***************************************************************************)
(* moxie_sdk/store.py: JSON records on disk, shared by the threads of      *)
(* several processes.  A transaction takes the store's re-entrant lock     *)
(* first and then, on its outermost level only, the flock of the record's  *)
(* sidecar; a write fills a temporary file named after the process and     *)
(* renames it over the record.                                             *)
(*                                                                         *)
(* A definition Mut... is the next one with a fault put in: PROJECT.json   *)
(* names the property that each of them must break.                        *)
(***************************************************************************)
EXTENDS Naturals, FiniteSets

CONSTANTS
  Procs,         \* OS processes on the data directory
  Threads,       \* threads of all of them
  ProcOf,        \* the process of a thread
  Records,       \* record paths
  Kinds,         \* calls the threads make
  HasFlock,      \* fcntl is there (POSIX)
  OpenMayFail,   \* opening the sidecar may fail
  TreeFailsToo,  \* where it fails, so does every write beside it (store.py:300)
  ReadMayFail,   \* a record may be unreadable: no permission, no descriptor, damage
  MaxCalls,      \* bound: calls one thread makes
  MaxCrashes     \* bound: processes killed

None == "none"

ASSUME ProcOfAssumption == ProcOf \in [Threads -> Procs]
ASSUME NoneAssumption == None \notin Threads
ASSUME KindsAssumption == Kinds \subseteq {"write", "append", "edit", "delete"}
ASSUME StoreBoundsAssumption ==
  /\ HasFlock \in BOOLEAN /\ OpenMayFail \in BOOLEAN
  /\ TreeFailsToo \in BOOLEAN /\ ReadMayFail \in BOOLEAN
  /\ MaxCalls \in Nat /\ MaxCrashes \in Nat

Items == Threads \X (1 .. MaxCalls)
Torn == <<None, 0>>   \* stands in a file that json.dump has not finished

(* "outer": an `edit` enters its transaction; "inner": the store's writer  *)
(* enters its own, nested in that of an `edit`.                            *)
PCs == {"idle", "outer", "inner", "poll", "read", "dump", "fill", "replace",
        "unlink", "leave", "release"}

VARIABLES
  file,     \* file[r]: the items of record r, {} for no file
  tmp,      \* tmp[p][r]: what <path>.<pid>.tmp holds
  rlock,    \* rlock[p]: the thread that owns the RLock of process p
  rcount,   \* rcount[p]: how often
  flock,    \* flock[r]: the thread whose open sidecar holds the flock
  depth,    \* depth[th][r]: `_depths`
  bare,     \* threads in a transaction whose sidecar did not open
  pc, kind, rec,
  buf,      \* the value a thread is about to store
  blind,    \* threads that could not read the record in their last call
  result,   \* what its last call returned
  calls,    \* calls made
  crashes   \* processes killed

locks == <<rlock, rcount, flock, depth, bare>>
files == <<file, tmp>>
call == <<kind, rec, calls>>
vars == <<files, locks, call, pc, buf, blind, result, crashes>>

Item(th) == <<th, calls[th]>>
Inside(th, r) == depth[th][r] > 0

(* Where the sidecar could not be opened, the tree may refuse the write too. *)
CanStore(th) == TreeFailsToo => th \notin bare
Goto(th, place) == pc' = [pc EXCEPT ![th] = place]
Result(th, what) == result' = [result EXCEPT ![th] = what]

(* Where a call goes on once its transaction is entered. *)
Body(th) ==
  CASE kind[th] = "write" -> "dump"
    [] kind[th] = "append" -> "read"
    [] kind[th] = "edit" -> IF Inside(th, rec[th]) THEN "dump" ELSE "read"
    [] kind[th] = "delete" -> "unlink"

Init ==
  /\ file = [r \in Records |-> {}]
  /\ tmp = [p \in Procs |-> [r \in Records |-> {}]]
  /\ rlock = [p \in Procs |-> None] /\ rcount = [p \in Procs |-> 0]
  /\ flock = [r \in Records |-> None]
  /\ depth = [th \in Threads |-> [r \in Records |-> 0]] /\ bare = {}
  /\ pc = [th \in Threads |-> "idle"]
  /\ kind = [th \in Threads |-> "none"] /\ rec \in [Threads -> Records]
  /\ buf = [th \in Threads |-> {}] /\ blind = {}
  /\ result = [th \in Threads |-> "none"]
  /\ calls = [th \in Threads |-> 0] /\ crashes = 0

Call(th, k, r) ==
  /\ pc[th] = "idle" /\ calls[th] < MaxCalls
  /\ kind' = [kind EXCEPT ![th] = k] /\ rec' = [rec EXCEPT ![th] = r]
  /\ calls' = [calls EXCEPT ![th] = @ + 1]
  /\ buf' = [buf EXCEPT ![th] = {<<th, calls[th] + 1>>}] /\ blind' = blind \ {th}
  /\ Result(th, "running")
  /\ Goto(th, IF k = "edit" THEN "outer" ELSE "inner")
  /\ UNCHANGED <<files, locks, crashes>>

(***************************************************************************)
(* _transaction_path                                                       *)
(***************************************************************************)
(* The RLock, outside; then a nested entry is done, an outermost one opens *)
(* the sidecar and polls its flock.                                        *)
TakeRLock(th) ==
  LET p == ProcOf[th] r == rec[th] IN
  /\ pc[th] \in {"outer", "inner"}
  /\ rlock[p] \in {None, th}
  /\ rlock' = [rlock EXCEPT ![p] = th] /\ rcount' = [rcount EXCEPT ![p] = @ + 1]
  /\ IF Inside(th, r)
     THEN depth' = [depth EXCEPT ![th][r] = @ + 1] /\ Goto(th, Body(th))
     ELSE UNCHANGED depth /\ Goto(th, "poll")
  /\ UNCHANGED <<files, flock, bare, call, buf, blind, result, crashes>>

MutFlockNotAwaited(th) ==
  /\ pc[th] = "poll"
  /\ flock' = [flock EXCEPT ![rec[th]] = th]
  /\ depth' = [depth EXCEPT ![th][rec[th]] = 1]
  /\ Goto(th, Body(th))
  /\ UNCHANGED <<files, rlock, rcount, bare, call, buf, blind, result, crashes>>

(* _wait_flock succeeds; without fcntl there is nothing to wait for. *)
TakeFlock(th) ==
  LET r == rec[th] IN
  /\ pc[th] = "poll"
  /\ HasFlock => flock[r] = None
  /\ flock' = IF HasFlock THEN [flock EXCEPT ![r] = th] ELSE flock
  /\ depth' = [depth EXCEPT ![th][r] = 1]
  /\ Goto(th, Body(th))
  /\ UNCHANGED <<files, rlock, rcount, bare, call, buf, blind, result, crashes>>

(* The sidecar cannot be opened: the transaction goes on without its lock. *)
OpenFails(th) ==
  /\ OpenMayFail /\ HasFlock /\ pc[th] = "poll"
  /\ bare' = bare \cup {th}
  /\ depth' = [depth EXCEPT ![th][rec[th]] = 1]
  /\ Goto(th, Body(th))
  /\ UNCHANGED <<files, rlock, rcount, flock, call, buf, blind, result, crashes>>

(* The budget is spent: StoreLockTimeout, and the call is refused. *)
LockTimeout(th) ==
  /\ pc[th] = "poll" /\ HasFlock /\ flock[rec[th]] # None
  /\ Result(th, "refused")
  /\ Goto(th, "release")
  /\ UNCHANGED <<files, locks, call, buf, blind, crashes>>

MutInnerLeavePops(th) ==
  /\ pc[th] = "leave"
  /\ depth' = [depth EXCEPT ![th][rec[th]] = 0]
  /\ flock' = IF flock[rec[th]] = th THEN [flock EXCEPT ![rec[th]] = None] ELSE flock
  /\ Goto(th, "release")
  /\ UNCHANGED <<files, rlock, rcount, bare, call, buf, blind, result, crashes>>

(* Leaving a transaction: an inner level only counts down, the outermost   *)
(* unlocks and closes the sidecar; the RLock goes last.                    *)
Leave(th) ==
  LET r == rec[th] IN
  /\ pc[th] = "leave"
  /\ depth' = [depth EXCEPT ![th][r] = @ - 1]
  /\ flock' = IF depth[th][r] = 1 /\ flock[r] = th
              THEN [flock EXCEPT ![r] = None] ELSE flock
  /\ Goto(th, "release")
  /\ bare' = IF depth[th][r] = 1 THEN bare \ {th} ELSE bare
  /\ UNCHANGED <<files, rlock, rcount, call, buf, blind, result, crashes>>

MutRLockKept(th) ==
  /\ pc[th] = "release"
  /\ Goto(th, IF Inside(th, rec[th]) THEN "leave" ELSE "idle")
  /\ UNCHANGED <<files, locks, call, buf, blind, result, crashes>>

Release(th) ==
  LET p == ProcOf[th] IN
  /\ pc[th] = "release"
  /\ rcount' = [rcount EXCEPT ![p] = @ - 1]
  /\ rlock' = IF rcount[p] = 1 THEN [rlock EXCEPT ![p] = None] ELSE rlock
  /\ Goto(th, IF Inside(th, rec[th]) THEN "leave" ELSE "idle")
  /\ UNCHANGED <<files, flock, depth, bare, call, buf, blind, result, crashes>>

(***************************************************************************)
(* The bodies: _append_path, an `edit` (read, then the nested write),      *)
(* _write_path, _delete_path.                                              *)
(***************************************************************************)
AfterRead(th) == IF kind[th] = "edit" THEN "inner" ELSE "dump"

Read(th) ==
  /\ pc[th] = "read"
  /\ buf' = [buf EXCEPT ![th] = file[rec[th]] \cup {Item(th)}]
  /\ Goto(th, AfterRead(th))
  /\ UNCHANGED <<files, locks, call, blind, result, crashes>>

(* _read_path takes an OSError or a ValueError for an empty record: the    *)
(* item is then stored alone.                                              *)
ReadFails(th) ==
  /\ ReadMayFail /\ pc[th] = "read"
  /\ blind' = blind \cup {th}
  /\ Goto(th, AfterRead(th))
  /\ UNCHANGED <<files, locks, call, buf, result, crashes>>

MutRenameUnfinished(th) ==
  /\ pc[th] = "dump"
  /\ tmp' = [tmp EXCEPT ![ProcOf[th]][rec[th]] = {Torn}]
  /\ Goto(th, "replace")
  /\ UNCHANGED <<file, locks, call, buf, blind, result, crashes>>

(* open(tmp, "w") truncates; the dump is not finished until `Fill`. *)
Dump(th) ==
  /\ pc[th] = "dump" /\ CanStore(th)
  /\ tmp' = [tmp EXCEPT ![ProcOf[th]][rec[th]] = {Torn}]
  /\ Goto(th, "fill")
  /\ UNCHANGED <<file, locks, call, buf, blind, result, crashes>>

Fill(th) ==
  /\ pc[th] = "fill"
  /\ tmp' = [tmp EXCEPT ![ProcOf[th]][rec[th]] = buf[th]]
  /\ Goto(th, "replace")
  /\ UNCHANGED <<file, locks, call, buf, blind, result, crashes>>

MutFailureAfterRename(th) ==
  /\ pc[th] \in {"dump", "fill", "replace"}
  /\ file' = IF pc[th] = "replace" THEN [file EXCEPT ![rec[th]] = buf[th]] ELSE file
  /\ tmp' = [tmp EXCEPT ![ProcOf[th]][rec[th]] = {}]
  /\ Result(th, "failed")
  /\ Goto(th, "leave")
  /\ UNCHANGED <<locks, call, buf, blind, crashes>>

(* The write or the rename fails (disk full, unwritable): the temporary    *)
(* file is removed.                                                        *)
WriteFails(th) ==
  /\ pc[th] \in {"dump", "fill", "replace"}
  /\ tmp' = [tmp EXCEPT ![ProcOf[th]][rec[th]] = {}]
  /\ Result(th, "failed")
  /\ Goto(th, "leave")
  /\ UNCHANGED <<file, locks, call, buf, blind, crashes>>

(* os.replace. *)
Replace(th) ==
  LET p == ProcOf[th] r == rec[th] IN
  /\ pc[th] = "replace"
  /\ file' = [file EXCEPT ![r] = tmp[p][r]]
  /\ tmp' = [tmp EXCEPT ![p][r] = {}]
  /\ Result(th, "ok")
  /\ Goto(th, "leave")
  /\ UNCHANGED <<locks, call, buf, blind, crashes>>

(* True only if there was a file and it went. *)
Unlink(th) ==
  /\ pc[th] = "unlink" /\ CanStore(th) /\ file[rec[th]] # {}
  /\ file' = [file EXCEPT ![rec[th]] = {}]
  /\ Result(th, "ok")
  /\ Goto(th, "leave")
  /\ UNCHANGED <<tmp, locks, call, buf, blind, crashes>>

UnlinkFails(th) ==
  /\ pc[th] = "unlink"
  /\ Result(th, "failed")
  /\ Goto(th, "leave")
  /\ UNCHANGED <<files, locks, call, buf, blind, crashes>>

(* A process is killed (SIGKILL, power): its threads are gone, the kernel  *)
(* drops its flocks, its temporary files stay.  It is started again.       *)
Crash(p) ==
  LET gone == {th \in Threads : ProcOf[th] = p} IN
  /\ crashes < MaxCrashes
  /\ crashes' = crashes + 1
  /\ pc' = [th \in Threads |-> IF th \in gone THEN "idle" ELSE pc[th]]
  /\ result' = [th \in Threads |-> IF th \in gone /\ pc[th] # "idle" THEN "crashed"
                                   ELSE result[th]]
  /\ depth' = [th \in Threads |-> IF th \in gone THEN [r \in Records |-> 0]
                                  ELSE depth[th]]
  /\ flock' = [r \in Records |-> IF flock[r] \in gone THEN None ELSE flock[r]]
  /\ bare' = bare \ gone
  /\ rlock' = [rlock EXCEPT ![p] = None] /\ rcount' = [rcount EXCEPT ![p] = 0]
  /\ UNCHANGED <<files, call, buf, blind>>

Step(th) ==
  \/ TakeRLock(th) \/ TakeFlock(th) \/ LockTimeout(th) \/ Leave(th) \/ Release(th)
  \/ OpenFails(th) \/ Read(th) \/ ReadFails(th) \/ Dump(th) \/ Fill(th)
  \/ WriteFails(th) \/ Replace(th) \/ Unlink(th) \/ UnlinkFails(th)

Next ==
  \/ \E th \in Threads : Step(th) \/ \E k \in Kinds, r \in Records : Call(th, k, r)
  \/ \E p \in Procs : Crash(p)

Spec == Init /\ [][Next]_vars

(* A started thread runs on.  Strong fairness, for the RLock can be taken  *)
(* and released again and again while a thread waits: it is handed to that *)
(* thread in the end.  At every other place some step stays enabled.       *)
FairSpec == Spec /\ \A th \in Threads : SF_vars(Step(th))

(***************************************************************************)
(* Properties                                                              *)
(***************************************************************************)
Contents == SUBSET (Items \cup {Torn})

TypeOK ==
  /\ file \in [Records -> Contents] /\ tmp \in [Procs -> [Records -> Contents]]
  /\ rlock \in [Procs -> Threads \cup {None}] /\ rcount \in [Procs -> Nat]
  /\ flock \in [Records -> Threads \cup {None}]
  /\ depth \in [Threads -> [Records -> Nat]] /\ bare \subseteq Threads
  /\ pc \in [Threads -> PCs] /\ kind \in [Threads -> Kinds \cup {"none"}]
  /\ rec \in [Threads -> Records] /\ buf \in [Threads -> Contents]
  /\ blind \subseteq Threads
  /\ result \in [Threads -> {"none", "running", "ok", "failed", "refused", "crashed"}]
  /\ calls \in [Threads -> 0 .. MaxCalls] /\ crashes \in Nat

(* File locks do what they are for: there are any, and a transaction whose *)
(* sidecar cannot be opened cannot store anything either.                  *)
Locking == HasFlock /\ (OpenMayFail => TreeFailsToo)

(* One record, one writer: of two threads inside transactions of one       *)
(* record that could both store something, neither is of another process   *)
(* unless there is no flock to be had, and never are both of one process.  *)
MutualExclusion ==
  \A x, y \in Threads, r \in Records :
    /\ Inside(x, r) /\ Inside(y, r)
    /\ ProcOf[x] = ProcOf[y] \/ (Locking /\ CanStore(x) /\ CanStore(y))
    => x = y

(* A record is never a truncated file, whoever dies while writing it: the  *)
(* rename only ever moves a finished temporary file.                       *)
RecordIsWhole == \A r \in Records : Torn \notin file[r]

(* A flock never outlives the transaction of its owner, so that a crash or *)
(* an exception cannot shut the other processes out for good.              *)
LocksHaveOwners ==
  /\ \A r \in Records : flock[r] # None => Inside(flock[r], r)
  /\ \A p \in Procs : rlock[p] # None => pc[rlock[p]] # "idle"

(* Every call takes effect in one step, on the record as it then is, and   *)
(* reports what it did: `ok` if and only if its effect is on disk, `failed`*)
(* or `refused` only if it never was.  Only a call that could not read the *)
(* record may lose what others stored, and it loses all of it.             *)
Atomic == INSTANCE AtomicStore WITH
            value <- file, running <- {th \in Threads : pc[th] # "idle"}
IsAtomic == Atomic!Spec

(* Every call returns: two locks, bounded waits, nobody waits on anybody   *)
(* for ever.                                                               *)
EveryCallReturns == \A th \in Threads : pc[th] # "idle" ~> pc[th] = "idle"
=============================================================================
