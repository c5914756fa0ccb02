-------------------------- MODULE JsonStore_proofs --------------------------
(***************************************************************************)
(* Proofs about JsonStore: its type invariant, mutual exclusion inside a   *)
(* record, that locks have owners, that a record is never torn, and that   *)
(* with working locks every call is atomic.                                *)
(*                                                                         *)
(* The argument: `_depths` and the place of a thread say how often it has  *)
(* taken the RLock of its process (Level), the RLock's owner and count     *)
(* agree with that, and the owner of the sidecar's flock is the thread     *)
(* inside the record.  So whoever is between its read and its rename is    *)
(* alone on the record, and what it stores is what it read plus its item.  *)
(***************************************************************************)
EXTENDS JsonStore, TLAPS

InBody == {"read", "dump", "fill", "replace", "unlink", "leave"}

(* How often a thread holds the RLock of its process. *)
Level(th) == depth[th][rec[th]] + (IF pc[th] \in {"poll", "release"} THEN 1 ELSE 0)

(* `_depths` only ever holds the record of the current call. *)
DepthInv == \A th \in Threads :
  /\ \A r \in Records : Inside(th, r) => r = rec[th]
  /\ pc[th] \in {"idle", "outer", "poll"} => ~Inside(th, rec[th])
  /\ pc[th] \in InBody => Inside(th, rec[th])

RLockInv ==
  /\ \A th \in Threads : Level(th) > 0 =>
       rlock[ProcOf[th]] = th /\ rcount[ProcOf[th]] = Level(th)
  /\ \A p \in Procs : rlock[p] = None => rcount[p] = 0
  /\ \A p \in Procs : rlock[p] # None => ProcOf[rlock[p]] = p /\ Level(rlock[p]) > 0

(* Whoever is inside a record has its flock, or could not open the sidecar. *)
FlockInv ==
  /\ bare # {} => OpenMayFail
  /\ \A r \in Records :
       /\ flock[r] # None => Inside(flock[r], r)
       /\ HasFlock => \A th \in Threads : Inside(th, r) /\ th \notin bare => flock[r] = th

(* A running call is of a kind its place can belong to. *)
CallInv == \A th \in Threads : pc[th] # "idle" =>
  /\ calls[th] >= 1 /\ kind[th] \in Kinds
  /\ pc[th] = "outer" => kind[th] = "edit"
  /\ pc[th] = "read" => kind[th] \in {"append", "edit"}
  /\ pc[th] = "unlink" => kind[th] = "delete"
  /\ pc[th] \in {"dump", "fill", "replace"} => kind[th] # "delete"
  /\ pc[th] = "inner" /\ Inside(th, rec[th]) => kind[th] = "edit"

LockInv == TypeOK /\ DepthInv /\ RLockInv /\ FlockInv /\ CallInv

(* What a thread about to rename has in its temporary file. *)
TmpInv == \A th \in Threads :
  pc[th] = "replace" => tmp[ProcOf[th]][rec[th]] = buf[th]

(* What a thread is about to store, while it may: its item alone until it  *)
(* has read, then its item and what it could read.                         *)
BeforeRead(th) == pc[th] \in {"outer", "poll", "read"} \/ (pc[th] = "inner" /\ ~Inside(th, rec[th]))
AfterwardsInside(th) ==
  pc[th] \in {"dump", "fill", "replace"} \/ (pc[th] = "inner" /\ Inside(th, rec[th]))
Added(th) == buf[th] = (IF th \in blind THEN {} ELSE file[rec[th]]) \cup {Item(th)}
BufOf(th) ==
  /\ pc[th] # "idle" /\ kind[th] = "write" => buf[th] = {Item(th)}
  /\ BeforeRead(th) => buf[th] = {Item(th)} /\ th \notin blind
  /\ AfterwardsInside(th) /\ kind[th] # "write" /\ CanStore(th) => Added(th)
  /\ pc[th] \in {"fill", "replace"} => CanStore(th)
BufInv == \A th \in Threads : BufOf(th)

(* A call has reported nothing until its body is over.                     *)
ResultInv == \A th \in Threads : pc[th] # "idle" =>
  (result[th] = "running" <=> pc[th] \notin {"leave", "release"})

-----------------------------------------------------------------------------
(* The start: nobody is anywhere. *)
LEMMA InitLocks == Init => LockInv /\ TmpInv /\ BufInv /\ ResultInv
<1> SUFFICES ASSUME Init PROVE LockInv /\ TmpInv /\ BufInv /\ ResultInv
  OBVIOUS
<1> USE ProcOfAssumption, NoneAssumption, StoreBoundsAssumption
<1>1. TypeOK
  BY DEF Init, TypeOK, Contents, PCs
<1>2. DepthInv /\ RLockInv /\ FlockInv
  BY DEF Init, DepthInv, RLockInv, FlockInv, Level, Inside, InBody
<1>3. CallInv /\ TmpInv /\ BufInv /\ ResultInv
  BY DEF Init, CallInv, TmpInv, BufInv, BufOf, BeforeRead, AfterwardsInside, ResultInv
<1> QED
  BY <1>1, <1>2, <1>3 DEF LockInv

-----------------------------------------------------------------------------
(* Where a call goes on is the place of its kind. *)
LEMMA BodyPlaces ==
  ASSUME CallInv, NEW th \in Threads, pc[th] # "idle"
  PROVE  /\ Body(th) \in {"dump", "read", "unlink"}
         /\ Body(th) = "read" => kind[th] \in {"append", "edit"} /\ ~(kind[th] = "edit" /\ Inside(th, rec[th]))
         /\ Body(th) = "unlink" => kind[th] = "delete"
         /\ Body(th) = "dump" => kind[th] = "write" \/ (kind[th] = "edit" /\ Inside(th, rec[th]))
<1>1. kind[th] \in {"write", "append", "edit", "delete"}
  BY KindsAssumption DEF CallInv
<1>2. CASE kind[th] = "write"
  BY <1>2 DEF Body
<1>3. CASE kind[th] = "append"
  BY <1>3 DEF Body
<1>4. CASE kind[th] = "edit"
  BY <1>4 DEF Body
<1>5. CASE kind[th] = "delete"
  BY <1>5 DEF Body
<1> QED
  BY <1>1, <1>2, <1>3, <1>4, <1>5

(* Every step keeps the types. *)
LEMMA TypeStep == LockInv /\ [Next]_vars => TypeOK'
<1> SUFFICES ASSUME LockInv, [Next]_vars PROVE TypeOK'
  OBVIOUS
<1> USE ProcOfAssumption, NoneAssumption, KindsAssumption, StoreBoundsAssumption
<1>1. ASSUME NEW th \in Threads, TakeRLock(th) PROVE TypeOK'
  <2>1. Body(th) \in PCs
    BY <1>1, BodyPlaces DEF LockInv, TakeRLock, PCs
  <2>4. /\ ProcOf[th] \in Procs /\ rec[th] \in Records
        /\ rcount[ProcOf[th]] + 1 \in Nat /\ depth[th][rec[th]] + 1 \in Nat
    BY DEF LockInv, TypeOK
  <2>5. /\ rlock' \in [Procs -> Threads \cup {None}] /\ rcount' \in [Procs -> Nat]
        /\ UNCHANGED <<file, tmp, flock, bare, kind, rec, calls, buf, blind, result, crashes>>
    BY <1>1, <2>4 DEF LockInv, TypeOK, TakeRLock, files, call
  <2>2. CASE Inside(th, rec[th])
    <3>1. depth' = [depth EXCEPT ![th] = [depth[th] EXCEPT ![rec[th]] = depth[th][rec[th]] + 1]]
      BY <1>1, <2>2, <2>4 DEF LockInv, TypeOK, TakeRLock, Inside
    <3>2. [depth[th] EXCEPT ![rec[th]] = depth[th][rec[th]] + 1] \in [Records -> Nat]
      BY <2>4 DEF LockInv, TypeOK
    <3>3. depth' \in [Threads -> [Records -> Nat]]
      BY <3>1, <3>2 DEF LockInv, TypeOK
    <3>4. pc' \in [Threads -> PCs]
      BY <1>1, <2>1, <2>2 DEF LockInv, TypeOK, TakeRLock, Goto
    <3> QED
      BY <2>5, <3>3, <3>4 DEF LockInv, TypeOK
  <2>3. CASE ~Inside(th, rec[th])
    BY <1>1, <2>3, <2>5 DEF LockInv, TypeOK, PCs, TakeRLock, Goto
  <2> QED
    BY <2>2, <2>3
<1>2. ASSUME NEW th \in Threads, TakeFlock(th) PROVE TypeOK'
  BY <1>2, BodyPlaces DEF LockInv, TypeOK, PCs, TakeFlock, Goto, files, call
<1>3. ASSUME NEW th \in Threads, OpenFails(th) PROVE TypeOK'
  BY <1>3, BodyPlaces DEF LockInv, TypeOK, PCs, OpenFails, Goto, files, call
<1>4. ASSUME NEW th \in Threads, LockTimeout(th) PROVE TypeOK'
  BY <1>4 DEF LockInv, TypeOK, PCs, LockTimeout, Goto, Result, files, locks, call
<1>5. ASSUME NEW th \in Threads, Leave(th) PROVE TypeOK'
  <2>1. depth[th][rec[th]] \in Nat \ {0}
    BY <1>5 DEF LockInv, TypeOK, DepthInv, Inside, InBody, Leave
  <2>2. depth[th][rec[th]] - 1 \in Nat
    BY <2>1
  <2> QED
    BY <1>5, <2>2 DEF LockInv, TypeOK, PCs, Leave, Goto, files, call
<1>6. ASSUME NEW th \in Threads, Release(th) PROVE TypeOK'
  <2>1. Level(th) \in Nat /\ Level(th) > 0
    BY <1>6 DEF LockInv, TypeOK, Level, Release
  <2>2. rcount[ProcOf[th]] - 1 \in Nat
    BY <2>1 DEF LockInv, RLockInv
  <2> QED
    BY <1>6, <2>2 DEF LockInv, TypeOK, PCs, Release, Goto, files, call
<1>7. ASSUME NEW th \in Threads, Read(th) PROVE TypeOK'
  <2>1. Item(th) \in Items
    BY <1>7 DEF LockInv, CallInv, TypeOK, Item, Items, Read
  <2>2. file[rec[th]] \cup {Item(th)} \in Contents
    BY <2>1 DEF LockInv, TypeOK, Contents
  <2> QED
    BY <1>7, <2>1, <2>2 DEF LockInv, TypeOK, PCs, Read, AfterRead, Goto, files, locks, call
<1>8. ASSUME NEW th \in Threads, Dump(th) PROVE TypeOK'
  <2>1. {Torn} \in Contents
    BY DEF Contents
  <2> QED
    BY <1>8, <2>1 DEF LockInv, TypeOK, PCs, Dump, Goto, locks, call
<1>9. ASSUME NEW th \in Threads, Fill(th) PROVE TypeOK'
  <2> QED
    BY <1>9 DEF LockInv, TypeOK, PCs, Fill, Goto, locks, call
<1>10. ASSUME NEW th \in Threads, WriteFails(th) PROVE TypeOK'
  <2>1. {} \in Contents
    BY DEF Contents
  <2> QED
    BY <1>10, <2>1 DEF LockInv, TypeOK, PCs, WriteFails, Goto, Result, locks, call
<1>11. ASSUME NEW th \in Threads, Replace(th) PROVE TypeOK'
  <2>1. {} \in Contents
    BY DEF Contents
  <2> QED
    BY <1>11, <2>1 DEF LockInv, TypeOK, PCs, Replace, Goto, Result, locks, call
<1>12. ASSUME NEW th \in Threads, Unlink(th) PROVE TypeOK'
  <2>1. {} \in Contents
    BY DEF Contents
  <2> QED
    BY <1>12, <2>1 DEF LockInv, TypeOK, PCs, Unlink, Goto, Result, locks, call
<1>13. ASSUME NEW th \in Threads, NEW k \in Kinds, NEW r \in Records, Call(th, k, r)
      PROVE TypeOK'
  BY <1>13 DEF LockInv, TypeOK, PCs, Call, Goto, Result, Items, Contents, files, locks
<1>14. ASSUME NEW p \in Procs, Crash(p) PROVE TypeOK'
  BY <1>14 DEF LockInv, TypeOK, PCs, Crash, files, call
<1>15. CASE UNCHANGED vars
  BY <1>15 DEF LockInv, TypeOK, vars, files, locks, call
<1>16. ASSUME NEW th \in Threads, ReadFails(th) PROVE TypeOK'
  BY <1>16 DEF LockInv, TypeOK, PCs, ReadFails, AfterRead, Goto, files, locks, call
<1>17. ASSUME NEW th \in Threads, UnlinkFails(th) PROVE TypeOK'
  BY <1>17 DEF LockInv, TypeOK, PCs, UnlinkFails, Goto, Result, files, locks, call
<1> QED
  BY <1>1, <1>2, <1>3, <1>4, <1>5, <1>6, <1>7, <1>8, <1>9, <1>10, <1>11, <1>12, <1>13, <1>14, <1>15,
     <1>16, <1>17 DEF Next, Step

(* The RLock is taken before anything is entered. *)
LEMMA RLockEntersNothing ==
  ASSUME LockInv, NEW th \in Threads, TakeRLock(th)
  PROVE  /\ \A x \in Threads, r \in Records : depth'[x][r] > 0 <=> depth[x][r] > 0
         /\ pc' = [pc EXCEPT ![th] = IF depth[th][rec[th]] > 0 THEN Body(th) ELSE "poll"]
         /\ rec' = rec /\ kind' = kind /\ calls' = calls /\ flock' = flock
         /\ bare' = bare
<1>1. rec' = rec /\ kind' = kind /\ calls' = calls /\ flock' = flock /\ bare' = bare
  BY DEF TakeRLock, call
<1>2. pc' = [pc EXCEPT ![th] = IF depth[th][rec[th]] > 0 THEN Body(th) ELSE "poll"]
  BY DEF TakeRLock, Inside, Goto
<1>3. \/ depth' = depth
      \/ depth[th][rec[th]] > 0 /\ depth' = [depth EXCEPT ![th][rec[th]] = @ + 1]
  BY DEF TakeRLock, Inside
<1>4. \A x \in Threads, r \in Records : depth'[x][r] > 0 <=> depth[x][r] > 0
  <2> SUFFICES ASSUME NEW x \in Threads, NEW r \in Records
               PROVE  depth'[x][r] > 0 <=> depth[x][r] > 0
    OBVIOUS
  <2>1. depth \in [Threads -> [Records -> Nat]] /\ rec[th] \in Records
    BY DEF LockInv, TypeOK
  <2>2. CASE depth' = depth
    BY <2>2
  <2>3. CASE depth[th][rec[th]] > 0 /\ depth' = [depth EXCEPT ![th][rec[th]] = @ + 1]
    <3>1. CASE x = th /\ r = rec[th]
      BY <2>1, <2>3, <3>1
    <3>2. CASE ~(x = th /\ r = rec[th])
      BY <2>1, <2>3, <3>2
    <3> QED
      BY <3>1, <3>2
  <2> QED
    BY <1>3, <2>2, <2>3
<1> QED
  BY <1>1, <1>2, <1>4

(* `_depths` follows the places. *)
LEMMA DepthStep == LockInv /\ [Next]_vars => DepthInv'
<1> SUFFICES ASSUME LockInv, [Next]_vars PROVE DepthInv'
  OBVIOUS
<1> USE ProcOfAssumption, NoneAssumption, KindsAssumption, StoreBoundsAssumption
<1>1. ASSUME NEW th \in Threads, TakeRLock(th) PROVE DepthInv'
  <2>1. Body(th) \in {"dump", "read", "unlink"}
    BY <1>1, BodyPlaces DEF LockInv, TakeRLock
  <2> QED
    BY <1>1, <2>1, RLockEntersNothing DEF LockInv, TypeOK, DepthInv, InBody, Inside
<1>2. ASSUME NEW th \in Threads, TakeFlock(th) PROVE DepthInv'
  <2>1. Body(th) \in {"dump", "read", "unlink"}
    BY <1>2, BodyPlaces DEF LockInv, TakeFlock
  <2> QED
    BY <1>2, <2>1 DEF LockInv, TypeOK, DepthInv, Inside, InBody, TakeFlock, Goto, call
<1>3. ASSUME NEW th \in Threads, OpenFails(th) PROVE DepthInv'
  <2>1. Body(th) \in {"dump", "read", "unlink"}
    BY <1>3, BodyPlaces DEF LockInv, OpenFails
  <2> QED
    BY <1>3, <2>1 DEF LockInv, TypeOK, DepthInv, Inside, InBody, OpenFails, Goto, call
<1>4. ASSUME NEW th \in Threads, LockTimeout(th) PROVE DepthInv'
  BY <1>4 DEF LockInv, TypeOK, DepthInv, Inside, InBody, LockTimeout, Goto, Result, files, locks, call
<1>5. ASSUME NEW th \in Threads, Leave(th) PROVE DepthInv'
  BY <1>5 DEF LockInv, TypeOK, DepthInv, Inside, InBody, Leave, Goto, files, call
<1>6. ASSUME NEW th \in Threads, Release(th) PROVE DepthInv'
  BY <1>6 DEF LockInv, TypeOK, DepthInv, Inside, InBody, Release, Goto, files, call
<1>7. ASSUME NEW th \in Threads, Read(th) PROVE DepthInv'
  BY <1>7 DEF LockInv, TypeOK, DepthInv, Inside, InBody, Read, AfterRead, Goto, Item, files, locks, call
<1>8. ASSUME NEW th \in Threads, Dump(th) PROVE DepthInv'
  BY <1>8 DEF LockInv, TypeOK, DepthInv, Inside, InBody, Dump, Goto, Torn, locks, call
<1>9. ASSUME NEW th \in Threads, Fill(th) PROVE DepthInv'
  BY <1>9 DEF LockInv, TypeOK, DepthInv, Inside, InBody, Fill, Goto, locks, call
<1>10. ASSUME NEW th \in Threads, WriteFails(th) PROVE DepthInv'
  BY <1>10 DEF LockInv, TypeOK, DepthInv, Inside, InBody, WriteFails, Goto, Result, locks, call
<1>11. ASSUME NEW th \in Threads, Replace(th) PROVE DepthInv'
  BY <1>11 DEF LockInv, TypeOK, DepthInv, Inside, InBody, Replace, Goto, Result, locks, call
<1>12. ASSUME NEW th \in Threads, Unlink(th) PROVE DepthInv'
  BY <1>12 DEF LockInv, TypeOK, DepthInv, Inside, InBody, Unlink, Goto, Result, locks, call
<1>13. ASSUME NEW th \in Threads, NEW k \in Kinds, NEW r \in Records, Call(th, k, r)
      PROVE DepthInv'
  BY <1>13 DEF LockInv, TypeOK, DepthInv, Inside, InBody, Call, Goto, locks
<1>14. ASSUME NEW p \in Procs, Crash(p) PROVE DepthInv'
  BY <1>14 DEF LockInv, TypeOK, DepthInv, Inside, InBody, Crash, call
<1>15. CASE UNCHANGED vars
  BY <1>15 DEF LockInv, DepthInv, Inside, InBody, vars, locks, call
<1>16. ASSUME NEW th \in Threads, ReadFails(th) PROVE DepthInv'
  BY <1>16 DEF LockInv, TypeOK, DepthInv, Inside, InBody, ReadFails, AfterRead, Goto, files, locks, call
<1>17. ASSUME NEW th \in Threads, UnlinkFails(th) PROVE DepthInv'
  BY <1>17 DEF LockInv, TypeOK, DepthInv, Inside, InBody, UnlinkFails, Goto, Result, files, locks, call
<1> QED
  BY <1>1, <1>2, <1>3, <1>4, <1>5, <1>6, <1>7, <1>8, <1>9, <1>10, <1>11, <1>12, <1>13, <1>14, <1>15,
     <1>16, <1>17 DEF Next, Step

(* The flock follows `_depths`. *)
LEMMA FlockStep == LockInv /\ [Next]_vars => FlockInv'
<1> SUFFICES ASSUME LockInv, [Next]_vars PROVE FlockInv'
  OBVIOUS
<1> USE ProcOfAssumption, NoneAssumption, KindsAssumption, StoreBoundsAssumption
<1>1. ASSUME NEW th \in Threads, TakeRLock(th) PROVE FlockInv'
  BY <1>1, RLockEntersNothing DEF LockInv, TypeOK, FlockInv, Inside
<1>2. ASSUME NEW th \in Threads, TakeFlock(th) PROVE FlockInv'
  BY <1>2 DEF LockInv, TypeOK, FlockInv, DepthInv, Inside, TakeFlock, call
<1>3. ASSUME NEW th \in Threads, OpenFails(th) PROVE FlockInv'
  BY <1>3 DEF LockInv, TypeOK, FlockInv, DepthInv, Inside, OpenFails, call
<1>4. ASSUME NEW th \in Threads, LockTimeout(th) PROVE FlockInv'
  BY <1>4 DEF LockInv, TypeOK, FlockInv, DepthInv, Inside, InBody, LockTimeout, Goto, Result, files, locks, call
<1>5. ASSUME NEW th \in Threads, Leave(th) PROVE FlockInv'
  BY <1>5 DEF LockInv, TypeOK, FlockInv, DepthInv, Inside, InBody, Leave, Goto, files, call
<1>6. ASSUME NEW th \in Threads, Release(th) PROVE FlockInv'
  BY <1>6 DEF LockInv, TypeOK, FlockInv, DepthInv, Inside, InBody, Release, Goto, files, call
<1>7. ASSUME NEW th \in Threads, Read(th) PROVE FlockInv'
  BY <1>7 DEF LockInv, TypeOK, FlockInv, DepthInv, Inside, InBody, Read, AfterRead, Goto, Item, files, locks, call
<1>8. ASSUME NEW th \in Threads, Dump(th) PROVE FlockInv'
  BY <1>8 DEF LockInv, TypeOK, FlockInv, DepthInv, Inside, InBody, Dump, Goto, Torn, locks, call
<1>9. ASSUME NEW th \in Threads, Fill(th) PROVE FlockInv'
  BY <1>9 DEF LockInv, TypeOK, FlockInv, DepthInv, Inside, InBody, Fill, Goto, locks, call
<1>10. ASSUME NEW th \in Threads, WriteFails(th) PROVE FlockInv'
  BY <1>10 DEF LockInv, TypeOK, FlockInv, DepthInv, Inside, InBody, WriteFails, Goto, Result, locks, call
<1>11. ASSUME NEW th \in Threads, Replace(th) PROVE FlockInv'
  BY <1>11 DEF LockInv, TypeOK, FlockInv, DepthInv, Inside, InBody, Replace, Goto, Result, locks, call
<1>12. ASSUME NEW th \in Threads, Unlink(th) PROVE FlockInv'
  BY <1>12 DEF LockInv, TypeOK, FlockInv, DepthInv, Inside, InBody, Unlink, Goto, Result, locks, call
<1>13. ASSUME NEW th \in Threads, NEW k \in Kinds, NEW r \in Records, Call(th, k, r)
      PROVE FlockInv'
  BY <1>13 DEF LockInv, TypeOK, FlockInv, Inside, Call, Goto, locks
<1>14. ASSUME NEW p \in Procs, Crash(p) PROVE FlockInv'
  BY <1>14 DEF LockInv, TypeOK, FlockInv, Inside, Crash, call
<1>15. CASE UNCHANGED vars
  BY <1>15 DEF LockInv, FlockInv, Inside, vars, locks, call
<1>16. ASSUME NEW th \in Threads, ReadFails(th) PROVE FlockInv'
  BY <1>16 DEF LockInv, TypeOK, FlockInv, DepthInv, Inside, InBody, ReadFails, AfterRead, Goto, files, locks, call
<1>17. ASSUME NEW th \in Threads, UnlinkFails(th) PROVE FlockInv'
  BY <1>17 DEF LockInv, TypeOK, FlockInv, DepthInv, Inside, InBody, UnlinkFails, Goto, Result, files, locks, call
<1> QED
  BY <1>1, <1>2, <1>3, <1>4, <1>5, <1>6, <1>7, <1>8, <1>9, <1>10, <1>11, <1>12, <1>13, <1>14, <1>15,
     <1>16, <1>17 DEF Next, Step

(* The places follow the kinds. *)
LEMMA CallStep == LockInv /\ [Next]_vars => CallInv'
<1> SUFFICES ASSUME LockInv, [Next]_vars PROVE CallInv'
  OBVIOUS
<1> USE ProcOfAssumption, NoneAssumption, KindsAssumption, StoreBoundsAssumption
<1>1. ASSUME NEW th \in Threads, TakeRLock(th) PROVE CallInv'
  <2>1. pc[th] # "idle"
    BY <1>1 DEF TakeRLock
  <2> QED
    <3>1. /\ pc[th] \in {"outer", "inner"} /\ pc \in [Threads -> PCs] /\ CallInv
          /\ rec[th] \in Records
      BY <1>1 DEF LockInv, TypeOK, TakeRLock
    <3>2. pc' = [pc EXCEPT ![th] = IF depth[th][rec[th]] > 0 THEN Body(th) ELSE "poll"]
      BY <1>1, RLockEntersNothing
    <3>3. \A x \in Threads : kind'[x] = kind[x] /\ calls'[x] = calls[x] /\ rec'[x] = rec[x]
                             /\ (Inside(x, rec[x])' <=> Inside(x, rec[x]))
      BY <1>1, RLockEntersNothing DEF LockInv, TypeOK, Inside
    <3>4. CASE depth[th][rec[th]] > 0
      BY <2>1, <3>1, <3>2, <3>3, <3>4, BodyPlaces DEF CallInv, Inside
    <3>5. CASE ~(depth[th][rec[th]] > 0)
      BY <3>1, <3>2, <3>3, <3>5 DEF CallInv, Inside
    <3> QED
      BY <3>4, <3>5
<1>2. ASSUME NEW th \in Threads, TakeFlock(th) PROVE CallInv'
  <2>1. pc[th] # "idle"
    BY <1>2 DEF TakeFlock
  <2> QED
    BY <1>2, <2>1, BodyPlaces DEF LockInv, TypeOK, CallInv, Inside, TakeFlock, Goto, call
<1>3. ASSUME NEW th \in Threads, OpenFails(th) PROVE CallInv'
  <2>1. pc[th] # "idle"
    BY <1>3 DEF OpenFails
  <2> QED
    BY <1>3, <2>1, BodyPlaces DEF LockInv, TypeOK, CallInv, Inside, OpenFails, Goto, call
<1>4. ASSUME NEW th \in Threads, LockTimeout(th) PROVE CallInv'
  BY <1>4 DEF LockInv, TypeOK, CallInv, DepthInv, Inside, InBody, LockTimeout, Goto, Result, files, locks, call
<1>5. ASSUME NEW th \in Threads, Leave(th) PROVE CallInv'
  BY <1>5 DEF LockInv, TypeOK, CallInv, DepthInv, Inside, InBody, Leave, Goto, files, call
<1>6. ASSUME NEW th \in Threads, Release(th) PROVE CallInv'
  BY <1>6 DEF LockInv, TypeOK, CallInv, DepthInv, Inside, InBody, Release, Goto, files, call
<1>7. ASSUME NEW th \in Threads, Read(th) PROVE CallInv'
  BY <1>7 DEF LockInv, TypeOK, CallInv, DepthInv, Inside, InBody, Read, AfterRead, Goto, Item, files, locks, call
<1>8. ASSUME NEW th \in Threads, Dump(th) PROVE CallInv'
  BY <1>8 DEF LockInv, TypeOK, CallInv, DepthInv, Inside, InBody, Dump, Goto, Torn, locks, call
<1>9. ASSUME NEW th \in Threads, Fill(th) PROVE CallInv'
  BY <1>9 DEF LockInv, TypeOK, CallInv, DepthInv, Inside, InBody, Fill, Goto, locks, call
<1>10. ASSUME NEW th \in Threads, WriteFails(th) PROVE CallInv'
  BY <1>10 DEF LockInv, TypeOK, CallInv, DepthInv, Inside, InBody, WriteFails, Goto, Result, locks, call
<1>11. ASSUME NEW th \in Threads, Replace(th) PROVE CallInv'
  BY <1>11 DEF LockInv, TypeOK, CallInv, DepthInv, Inside, InBody, Replace, Goto, Result, locks, call
<1>12. ASSUME NEW th \in Threads, Unlink(th) PROVE CallInv'
  BY <1>12 DEF LockInv, TypeOK, CallInv, DepthInv, Inside, InBody, Unlink, Goto, Result, locks, call
<1>13. ASSUME NEW th \in Threads, NEW k \in Kinds, NEW r \in Records, Call(th, k, r)
      PROVE CallInv'
  BY <1>13 DEF LockInv, TypeOK, CallInv, DepthInv, Inside, Call, Goto, locks
<1>14. ASSUME NEW p \in Procs, Crash(p) PROVE CallInv'
  BY <1>14 DEF LockInv, TypeOK, CallInv, Inside, Crash, call
<1>15. CASE UNCHANGED vars
  BY <1>15 DEF LockInv, CallInv, Inside, vars, locks, call
<1>16. ASSUME NEW th \in Threads, ReadFails(th) PROVE CallInv'
  BY <1>16 DEF LockInv, TypeOK, CallInv, DepthInv, Inside, InBody, ReadFails, AfterRead, Goto, files, locks, call
<1>17. ASSUME NEW th \in Threads, UnlinkFails(th) PROVE CallInv'
  BY <1>17 DEF LockInv, TypeOK, CallInv, DepthInv, Inside, InBody, UnlinkFails, Goto, Result, files, locks, call
<1> QED
  BY <1>1, <1>2, <1>3, <1>4, <1>5, <1>6, <1>7, <1>8, <1>9, <1>10, <1>11, <1>12, <1>13, <1>14, <1>15,
     <1>16, <1>17 DEF Next, Step

(* A thread alone changes how often it holds the RLock by taking it and by *)
(* releasing it.                                                           *)
LevelKept == rlock' = rlock /\ rcount' = rcount /\ \A x \in Threads : Level(x)' = Level(x)
LEMMA OthersKeepLevels ==
  ASSUME LockInv, NEW th \in Threads,
         \/ TakeFlock(th) \/ OpenFails(th) \/ LockTimeout(th) \/ Leave(th) \/ Read(th)
         \/ ReadFails(th) \/ Dump(th) \/ Fill(th) \/ WriteFails(th) \/ Replace(th)
         \/ Unlink(th) \/ UnlinkFails(th)
         \/ \E k \in Kinds, r \in Records : Call(th, k, r)
         \/ UNCHANGED vars
  PROVE  LevelKept
<1>1. CASE TakeFlock(th)
  <2>1. Body(th) \in {"dump", "read", "unlink"}
    BY <1>1, BodyPlaces DEF LockInv, TakeFlock
  <2> QED
    BY <1>1, <2>1 DEF LockInv, TypeOK, LevelKept, Level, DepthInv, Inside, TakeFlock, Goto, files, call
<1>2. CASE OpenFails(th)
  <2>1. Body(th) \in {"dump", "read", "unlink"}
    BY <1>2, BodyPlaces DEF LockInv, OpenFails
  <2> QED
    BY <1>2, <2>1 DEF LockInv, TypeOK, LevelKept, Level, DepthInv, Inside, OpenFails, Goto, files, call
<1>3. CASE LockTimeout(th)
  BY <1>3 DEF LockInv, TypeOK, LevelKept, Level, DepthInv, Inside, InBody, LockTimeout, Goto, Result, files, locks, call
<1>4. CASE Leave(th)
  BY <1>4 DEF LockInv, TypeOK, LevelKept, Level, DepthInv, Inside, InBody, Leave, Goto, files, call
<1>5. CASE Read(th)
  BY <1>5 DEF LockInv, TypeOK, LevelKept, Level, DepthInv, Inside, InBody, Read, AfterRead, Goto, Item, files, locks, call
<1>6. CASE Dump(th)
  BY <1>6 DEF LockInv, TypeOK, LevelKept, Level, DepthInv, Inside, InBody, Dump, Goto, Torn, locks, call
<1>7. CASE Fill(th)
  BY <1>7 DEF LockInv, TypeOK, LevelKept, Level, DepthInv, Inside, InBody, Fill, Goto, locks, call
<1>8. CASE WriteFails(th)
  BY <1>8 DEF LockInv, TypeOK, LevelKept, Level, DepthInv, Inside, InBody, WriteFails, Goto, Result, locks, call
<1>9. CASE Replace(th)
  BY <1>9 DEF LockInv, TypeOK, LevelKept, Level, DepthInv, Inside, InBody, Replace, Goto, Result, locks, call
<1>10. CASE Unlink(th)
  BY <1>10 DEF LockInv, TypeOK, LevelKept, Level, DepthInv, Inside, InBody, Unlink, Goto, Result, locks, call
<1>11. ASSUME NEW k \in Kinds, NEW r \in Records, Call(th, k, r) PROVE LevelKept
  BY <1>11 DEF LockInv, TypeOK, LevelKept, Level, DepthInv, Inside, Call, Goto, locks
<1>12. CASE UNCHANGED vars
  BY <1>12 DEF LevelKept, Level, vars, locks, call
<1>13. CASE ReadFails(th)
  BY <1>13 DEF LockInv, TypeOK, LevelKept, Level, DepthInv, Inside, InBody, ReadFails, AfterRead, Goto, files, locks, call
<1>14. CASE UnlinkFails(th)
  BY <1>14 DEF LockInv, TypeOK, LevelKept, Level, DepthInv, Inside, InBody, UnlinkFails, Goto, Result, files, locks, call
<1> QED
  BY <1>1, <1>2, <1>3, <1>4, <1>5, <1>6, <1>7, <1>8, <1>9, <1>10, <1>11, <1>12, <1>13, <1>14

LEMMA KeptLevels == ASSUME RLockInv, TypeOK, TypeOK', LevelKept PROVE RLockInv'
  BY ProcOfAssumption, NoneAssumption DEF RLockInv, LevelKept, TypeOK

(* The RLock's owner and count follow the places. *)
LEMMA RLockStep == LockInv /\ [Next]_vars => RLockInv'
<1> SUFFICES ASSUME LockInv, [Next]_vars PROVE RLockInv'
  OBVIOUS
<1> USE ProcOfAssumption, NoneAssumption
<1>1. TypeOK' /\ DepthInv' /\ TypeOK /\ RLockInv
  BY TypeStep, DepthStep DEF LockInv
<1>2. ASSUME NEW th \in Threads, TakeRLock(th) PROVE RLockInv'
  <2>1. Level(th)' = Level(th) + 1 /\ \A x \in Threads \ {th} : Level(x)' = Level(x)
    <3>1. Body(th) \in {"dump", "read", "unlink"}
      BY <1>2, BodyPlaces DEF LockInv, TakeRLock
    <3>2. CASE Inside(th, rec[th])
      BY <1>2, <3>1, <3>2 DEF LockInv, TypeOK, Level, Inside, TakeRLock, Goto, call
    <3>3. CASE ~Inside(th, rec[th])
      BY <1>2, <3>3 DEF LockInv, TypeOK, Level, Inside, TakeRLock, Goto, call
    <3> QED
      BY <3>2, <3>3
  <2>2. \A x \in Threads : Level(x) \in Nat
    BY DEF LockInv, TypeOK, Level
  <2>3. rlock' = [rlock EXCEPT ![ProcOf[th]] = th] /\ rlock[ProcOf[th]] \in {None, th}
    BY <1>2 DEF TakeRLock
  <2>4. rcount' = [rcount EXCEPT ![ProcOf[th]] = @ + 1]
    BY <1>2 DEF TakeRLock
  <2>5. rcount[ProcOf[th]] = Level(th)
    BY <1>1, <2>2, <2>3 DEF RLockInv
  <2>6. ASSUME NEW x \in Threads, Level(x)' > 0
        PROVE  rlock'[ProcOf[x]] = x /\ rcount'[ProcOf[x]] = Level(x)'
    <3>1. CASE x = th
      BY <1>1, <2>1, <2>2, <2>3, <2>4, <2>5, <2>6, <3>1 DEF TypeOK
    <3>2. CASE x # th
      <4>1. Level(x)' = Level(x) /\ rlock[ProcOf[x]] = x /\ rcount[ProcOf[x]] = Level(x)
        BY <1>1, <2>1, <2>6, <3>2 DEF RLockInv
      <4>2. ProcOf[x] # ProcOf[th]
        BY <2>3, <3>2, <4>1
      <4> QED
        BY <1>1, <2>3, <2>4, <2>5, <4>1, <4>2 DEF TypeOK
    <3> QED
      BY <3>1, <3>2
  <2>7. ASSUME NEW p \in Procs, rlock'[p] = None PROVE rcount'[p] = 0
    <3>1. CASE p = ProcOf[th]
      BY <1>1, <2>2, <2>3, <2>4, <2>5, <2>7, <3>1 DEF RLockInv, TypeOK
    <3>2. CASE p # ProcOf[th]
      BY <1>1, <2>3, <2>4, <2>5, <2>7, <3>2 DEF RLockInv, TypeOK
    <3> QED
      BY <3>1, <3>2
  <2>8. ASSUME NEW p \in Procs, rlock'[p] # None
        PROVE  (ProcOf[rlock[p]] = p /\ Level(rlock[p]) > 0)'
    <3>1. CASE p = ProcOf[th]
      BY <1>1, <2>1, <2>2, <2>3, <2>4, <2>5, <2>8, <3>1 DEF RLockInv, TypeOK, Level
    <3>2. CASE p # ProcOf[th]
      <4>1. rlock'[p] = rlock[p] /\ rlock[p] \in Threads \ {th}
        BY <1>1, <2>3, <2>5, <2>8, <3>2 DEF RLockInv, TypeOK
      <4> QED
        BY <1>1, <2>1, <2>8, <4>1 DEF RLockInv, Level
    <3> QED
      BY <3>1, <3>2
  <2> QED
    BY <2>6, <2>7, <2>8 DEF RLockInv
<1>3. ASSUME NEW th \in Threads, Release(th) PROVE RLockInv'
  <2>1. Level(th)' = Level(th) - 1 /\ \A x \in Threads \ {th} : Level(x)' = Level(x)
    BY <1>3 DEF LockInv, TypeOK, Level, Release, Goto, call
  <2>2. \A x \in Threads : Level(x) \in Nat
    BY DEF LockInv, TypeOK, Level
  <2>3. Level(th) > 0 /\ rlock[ProcOf[th]] = th /\ rcount[ProcOf[th]] = Level(th)
    BY <1>1, <1>3 DEF RLockInv, TypeOK, Level, Release
  <2>4. rcount' = [rcount EXCEPT ![ProcOf[th]] = @ - 1]
    BY <1>3 DEF Release
  <2>5. rlock' = IF rcount[ProcOf[th]] = 1 THEN [rlock EXCEPT ![ProcOf[th]] = None] ELSE rlock
    BY <1>3 DEF Release
  <2>6. ASSUME NEW x \in Threads, Level(x)' > 0
        PROVE  rlock'[ProcOf[x]] = x /\ rcount'[ProcOf[x]] = Level(x)'
    <3>1. CASE x = th
      BY <1>1, <2>1, <2>2, <2>3, <2>4, <2>5, <2>6, <3>1 DEF TypeOK
    <3>2. CASE x # th
      <4>1. Level(x)' = Level(x) /\ rlock[ProcOf[x]] = x /\ rcount[ProcOf[x]] = Level(x)
        BY <1>1, <2>1, <2>6, <3>2 DEF RLockInv
      <4>2. ProcOf[x] # ProcOf[th]
        BY <2>3, <3>2, <4>1
      <4> QED
        BY <1>1, <2>3, <2>4, <2>5, <4>1, <4>2 DEF TypeOK
    <3> QED
      BY <3>1, <3>2
  <2>7. ASSUME NEW p \in Procs, rlock'[p] = None PROVE rcount'[p] = 0
    <3>1. CASE p = ProcOf[th]
      BY <1>1, <2>2, <2>3, <2>4, <2>5, <2>7, <3>1 DEF RLockInv, TypeOK
    <3>2. CASE p # ProcOf[th]
      BY <1>1, <2>3, <2>4, <2>5, <2>7, <3>2 DEF RLockInv, TypeOK
    <3> QED
      BY <3>1, <3>2
  <2>8. ASSUME NEW p \in Procs, rlock'[p] # None
        PROVE  (ProcOf[rlock[p]] = p /\ Level(rlock[p]) > 0)'
    <3>1. CASE p = ProcOf[th]
      BY <1>1, <2>1, <2>2, <2>3, <2>4, <2>5, <2>8, <3>1 DEF RLockInv, TypeOK, Level
    <3>2. CASE p # ProcOf[th]
      <4>1. rlock'[p] = rlock[p] /\ rlock[p] \in Threads \ {th}
        BY <1>1, <2>3, <2>5, <2>8, <3>2 DEF RLockInv, TypeOK
      <4> QED
        BY <1>1, <2>1, <2>8, <4>1 DEF RLockInv, Level
    <3> QED
      BY <3>1, <3>2
  <2> QED
    BY <2>6, <2>7, <2>8 DEF RLockInv
<1>4. ASSUME NEW p \in Procs, Crash(p) PROVE RLockInv'
  <2>1. \A x \in Threads : Level(x)' = IF ProcOf[x] = p THEN 0 ELSE Level(x)
    BY <1>4 DEF LockInv, TypeOK, Level, Crash, call
  <2>2. rlock' = [rlock EXCEPT ![p] = None] /\ rcount' = [rcount EXCEPT ![p] = 0]
    BY <1>4 DEF Crash
  <2> QED
    BY <1>1, <2>1, <2>2 DEF RLockInv, TypeOK
<1>5. CASE UNCHANGED vars
  BY <1>1, <1>5, KeptLevels DEF LevelKept, Level, vars, locks, call
<1>6. ASSUME NEW th \in Threads, Step(th), ~TakeRLock(th), ~Release(th) PROVE RLockInv'
  BY <1>1, <1>6, OthersKeepLevels, KeptLevels DEF Step
<1>7. ASSUME NEW th \in Threads, NEW k \in Kinds, NEW r \in Records, Call(th, k, r)
      PROVE  RLockInv'
  BY <1>1, <1>7, OthersKeepLevels, KeptLevels
<1> QED
  BY <1>2, <1>3, <1>4, <1>5, <1>6, <1>7 DEF Next

(* The locks' invariant is inductive. *)
LEMMA LockInvariant == Spec => []LockInv
<1>1. Init => LockInv
  BY InitLocks
<1>2. LockInv /\ [Next]_vars => LockInv'
  BY TypeStep, DepthStep, RLockStep, FlockStep, CallStep DEF LockInv
<1> QED
  BY <1>1, <1>2, PTL DEF Spec

(* In every run, the variables have their types. *)
THEOREM TypeCorrect == Spec => []TypeOK
<1>1. LockInv => TypeOK
  BY DEF LockInv
<1> QED
  BY <1>1, LockInvariant, PTL

(* In every run, for any number of threads, processes and records: whoever *)
(* is inside a record has the RLock of its process, and, where locking     *)
(* works, the record's flock, so nobody else is inside.                    *)
LEMMA InsideOwns ==
  ASSUME LockInv, NEW th \in Threads, NEW r \in Records, Inside(th, r)
  PROVE  rlock[ProcOf[th]] = th /\ (Locking /\ CanStore(th) => flock[r] = th)
<1>1. r = rec[th] /\ Level(th) > 0
  BY DEF LockInv, TypeOK, DepthInv, Level, Inside
<1> QED
  BY <1>1 DEF LockInv, RLockInv, FlockInv, Locking, CanStore

THEOREM OneWriterPerRecord == Spec => []MutualExclusion
<1>1. LockInv => MutualExclusion
  BY InsideOwns DEF MutualExclusion
<1> QED
  BY <1>1, LockInvariant, PTL

(* In every run, a lock that is held is held by a thread of a running call *)
(* that will come to release it.                                           *)
THEOREM NoOrphanedLocks == Spec => []LocksHaveOwners
<1>1. LockInv => LocksHaveOwners
  <2> SUFFICES ASSUME LockInv PROVE LocksHaveOwners
    OBVIOUS
  <2>1. ASSUME NEW p \in Procs, rlock[p] # None PROVE pc[rlock[p]] # "idle"
    <3>1. rlock[p] \in Threads /\ Level(rlock[p]) > 0
      BY <2>1 DEF LockInv, TypeOK, RLockInv
    <3> QED
      BY <3>1 DEF LockInv, TypeOK, DepthInv, Level, Inside
  <2> QED
    BY <2>1 DEF LocksHaveOwners, LockInv, FlockInv
<1> QED
  BY <1>1, LockInvariant, PTL

-----------------------------------------------------------------------------
(* Inside a record a thread is alone among those of its process, and, where *)
(* locking works, among all.                                                *)
LEMMA Alone ==
  ASSUME LockInv, NEW x \in Threads, NEW y \in Threads, NEW r \in Records,
         Inside(x, r), Inside(y, r),
         ProcOf[x] = ProcOf[y] \/ (Locking /\ CanStore(x) /\ CanStore(y))
  PROVE  x = y
  BY InsideOwns

(* What is stored and what is about to be stored is whole. *)
WholeInv == RecordIsWhole /\ TmpInv /\ \A th \in Threads : Torn \notin buf[th]

(* A step of one thread leaves the temporary file of a thread about to     *)
(* rename alone: the two would have to be inside one record of a process.  *)
LEMMA TmpKept ==
  ASSUME LockInv, TmpInv, NEW th \in Threads, pc[th] \in InBody,
         NEW v, tmp' = [tmp EXCEPT ![ProcOf[th]][rec[th]] = v],
         NEW x \in Threads, x # th, pc[x] = "replace"
  PROVE  tmp'[ProcOf[x]][rec[x]] = buf[x]
<1>1. Inside(x, rec[x]) /\ Inside(th, rec[th]) /\ rec[x] \in Records /\ rec[th] \in Records
  BY DEF LockInv, TypeOK, DepthInv, InBody
<1>2. ~(ProcOf[x] = ProcOf[th] /\ rec[x] = rec[th])
  BY <1>1, Alone
<1>3. tmp \in [Procs -> [Records -> Contents]] /\ ProcOf[x] \in Procs /\ ProcOf[th] \in Procs
  BY ProcOfAssumption DEF LockInv, TypeOK
<1>4. tmp'[ProcOf[x]][rec[x]] = tmp[ProcOf[x]][rec[x]]
  BY <1>1, <1>2, <1>3
<1> QED
  BY <1>4 DEF TmpInv

LEMMA WholeStep == LockInv /\ WholeInv /\ [Next]_vars => WholeInv'
<1> SUFFICES ASSUME LockInv, WholeInv, [Next]_vars PROVE WholeInv'
  OBVIOUS
<1>0. \A i \in Items : i # Torn
  BY NoneAssumption DEF Items, Torn
<1>1. ASSUME NEW th \in Threads,
             TakeRLock(th) \/ TakeFlock(th) \/ OpenFails(th)
      PROVE  WholeInv'
  <2>1. pc[th] # "idle"
    BY <1>1 DEF TakeRLock, TakeFlock, OpenFails
  <2>2. Body(th) # "replace"
    BY <2>1, BodyPlaces DEF LockInv
  <2>3. UNCHANGED <<file, tmp, rec, buf>>
    BY <1>1 DEF TakeRLock, TakeFlock, OpenFails, files, call
  <2>4. pc' = [pc EXCEPT ![th] = pc'[th]] /\ pc'[th] # "replace"
    BY <1>1, <2>2 DEF LockInv, TypeOK, TakeRLock, TakeFlock, OpenFails, Goto
  <2> QED
    BY <2>3, <2>4 DEF LockInv, TypeOK, WholeInv, RecordIsWhole, TmpInv
<1>2. ASSUME NEW th \in Threads, LockTimeout(th) \/ Leave(th) \/ Release(th)
      PROVE  WholeInv'
  <2>1. UNCHANGED <<file, tmp, rec, buf>>
    BY <1>2 DEF LockTimeout, Leave, Release, files, call
  <2>2. pc' = [pc EXCEPT ![th] = pc'[th]] /\ pc'[th] # "replace"
    BY <1>2 DEF LockInv, TypeOK, LockTimeout, Leave, Release, Goto
  <2> QED
    BY <2>1, <2>2 DEF LockInv, TypeOK, WholeInv, RecordIsWhole, TmpInv
<1>3. ASSUME NEW th \in Threads, Read(th) PROVE WholeInv'
  <2>1. Item(th) # Torn
    <3>1. Item(th) \in Items
      BY <1>3 DEF LockInv, CallInv, TypeOK, Item, Items, Read
    <3> QED
      BY <1>0, <3>1
  <2>2. Torn \notin file[rec[th]] \cup {Item(th)}
    BY <2>1 DEF WholeInv, RecordIsWhole, LockInv, TypeOK
  <2> QED
    BY <1>3, <2>2 DEF LockInv, TypeOK, WholeInv, RecordIsWhole, TmpInv, Read, AfterRead, Goto,
                      files, call
<1>9. ASSUME NEW th \in Threads, ReadFails(th) \/ UnlinkFails(th) PROVE WholeInv'
  BY <1>9 DEF LockInv, TypeOK, WholeInv, RecordIsWhole, TmpInv, ReadFails, AfterRead,
              UnlinkFails, Goto, files, call
<1>4. ASSUME NEW th \in Threads, Dump(th) \/ Fill(th) \/ WriteFails(th) \/ Replace(th)
      PROVE  WholeInv'
  <2>1. pc[th] \in InBody /\ UNCHANGED <<rec, buf>>
    BY <1>4 DEF Dump, Fill, WriteFails, Replace, InBody, call
  <2>2. PICK v : tmp' = [tmp EXCEPT ![ProcOf[th]][rec[th]] = v]
    BY <1>4 DEF Dump, Fill, WriteFails, Replace
  <2>3. \A x \in Threads \ {th} : pc'[x] = "replace" => tmp'[ProcOf[x]][rec[x]] = buf[x]
    <3>1. \A x \in Threads \ {th} : pc'[x] = pc[x]
      BY <1>4 DEF LockInv, TypeOK, Dump, Fill, WriteFails, Replace, Goto
    <3> QED
      BY <2>1, <2>2, <3>1, TmpKept DEF WholeInv
  <2>4. pc'[th] = "replace" => tmp'[ProcOf[th]][rec[th]] = buf[th]
    BY <1>4, ProcOfAssumption DEF LockInv, TypeOK, Dump, Fill, WriteFails, Replace, Goto
  <2>5. TmpInv'
    BY <2>1, <2>3, <2>4 DEF TmpInv
  <2>6. RecordIsWhole'
    <3>1. CASE UNCHANGED file
      BY <3>1 DEF WholeInv, RecordIsWhole
    <3>2. CASE Replace(th)
      <4>1. Torn \notin tmp[ProcOf[th]][rec[th]]
        BY <3>2 DEF WholeInv, TmpInv, Replace
      <4> QED
        BY <3>2, <4>1 DEF WholeInv, RecordIsWhole, LockInv, TypeOK, Replace
    <3> QED
      BY <1>4, <3>1, <3>2 DEF Dump, Fill, WriteFails
  <2> QED
    BY <2>1, <2>5, <2>6 DEF WholeInv
<1>5. ASSUME NEW th \in Threads, Unlink(th) PROVE WholeInv'
  BY <1>5 DEF LockInv, TypeOK, WholeInv, RecordIsWhole, TmpInv, Unlink, Goto, call
<1>6. ASSUME NEW th \in Threads, NEW k \in Kinds, NEW r \in Records, Call(th, k, r)
      PROVE  WholeInv'
  <2>1. <<th, calls[th] + 1>> # Torn
    BY NoneAssumption DEF Torn
  <2>2. UNCHANGED <<file, tmp>> /\ pc' = [pc EXCEPT ![th] = pc'[th]] /\ pc'[th] # "replace"
    BY <1>6 DEF LockInv, TypeOK, Call, Goto, files
  <2>3. \A x \in Threads \ {th} : rec'[x] = rec[x] /\ buf'[x] = buf[x] /\ pc'[x] = pc[x]
    BY <1>6 DEF LockInv, TypeOK, Call, Goto
  <2>4. buf'[th] = {<<th, calls[th] + 1>>}
    BY <1>6 DEF LockInv, TypeOK, Call
  <2> QED
    BY <2>1, <2>2, <2>3, <2>4 DEF WholeInv, RecordIsWhole, TmpInv
<1>7. ASSUME NEW p \in Procs, Crash(p) PROVE WholeInv'
  BY <1>7 DEF LockInv, TypeOK, WholeInv, RecordIsWhole, TmpInv, Crash, files, call
<1>8. CASE UNCHANGED vars
  BY <1>8 DEF WholeInv, RecordIsWhole, TmpInv, vars, files, call
<1> QED
  BY <1>1, <1>2, <1>3, <1>4, <1>5, <1>6, <1>7, <1>8, <1>9 DEF Next, Step

(* In every run, with or without file locks, no record is ever a file that *)
(* json.dump has not finished, whenever a process dies.                    *)
THEOREM RecordsAreWhole == Spec => []RecordIsWhole
<1>1. Init => WholeInv
  <2> SUFFICES ASSUME Init PROVE WholeInv
    OBVIOUS
  <2> QED
    BY InitLocks DEF Init, WholeInv, RecordIsWhole
<1>2. LockInv /\ WholeInv /\ [Next]_vars => WholeInv'
  BY WholeStep
<1>3. WholeInv => RecordIsWhole
  BY DEF WholeInv
<1> QED
  BY <1>1, <1>2, <1>3, LockInvariant, PTL DEF Spec

-----------------------------------------------------------------------------
(* A thread alone changes whether it may store.                            *)
LEMMA MayStill ==
  ASSUME LockInv, NEW th \in Threads, NEW x \in Threads, x # th,
         Step(th) \/ \E k \in Kinds, r \in Records : Call(th, k, r)
  PROVE  /\ CanStore(x)' <=> CanStore(x)
         /\ Inside(x, rec[x])' <=> Inside(x, rec[x])
         /\ pc'[x] = pc[x] /\ kind'[x] = kind[x] /\ rec'[x] = rec[x] /\ calls'[x] = calls[x]
         /\ buf'[x] = buf[x] /\ result'[x] = result[x] /\ (x \in blind' <=> x \in blind)
<1>1. /\ depth \in [Threads -> [Records -> Nat]] /\ rec \in [Threads -> Records]
      /\ pc \in [Threads -> PCs]
      /\ buf \in [Threads -> Contents] /\ kind \in [Threads -> Kinds \cup {"none"}]
      /\ calls \in [Threads -> 0 .. MaxCalls] /\ DOMAIN result = Threads
  BY DEF LockInv, TypeOK
<1>2. /\ rec'[x] = rec[x] /\ kind'[x] = kind[x] /\ calls'[x] = calls[x]
      /\ pc'[x] = pc[x] /\ buf'[x] = buf[x] /\ result'[x] = result[x]
      /\ (x \in blind' <=> x \in blind)
  BY <1>1 DEF Step, TakeRLock, TakeFlock, OpenFails, LockTimeout, Leave, Release, Read,
       ReadFails, Dump, Fill, WriteFails, Replace, Unlink, UnlinkFails, Call, Goto, Result, call
<1>3. depth'[x] = depth[x]
  BY <1>1 DEF Step, TakeRLock, TakeFlock, OpenFails, LockTimeout, Leave, Release, Read,
       ReadFails, Dump, Fill, WriteFails, Replace, Unlink, UnlinkFails, Call, locks
<1>4. x \in bare' <=> x \in bare
  BY DEF Step, TakeRLock, TakeFlock, OpenFails, LockTimeout, Leave, Release, Read,
       ReadFails, Dump, Fill, WriteFails, Replace, Unlink, UnlinkFails, Call, locks
<1> QED
  BY <1>2, <1>3, <1>4 DEF CanStore, Inside

(* All threads are of one process, or file locks do what they are for.     *)
OneProcess == \A x, y \in Threads : ProcOf[x] = ProcOf[y]
Guarded == Locking \/ OneProcess

(* The record does not change under a thread that is inside it and may     *)
(* store something.                                                        *)
LEMMA FileKept ==
  ASSUME Guarded, LockInv, NEW th \in Threads, pc[th] \in InBody, CanStore(th),
         NEW v, file' = [file EXCEPT ![rec[th]] = v],
         NEW x \in Threads, x # th, Inside(x, rec[x]), CanStore(x)
  PROVE  file'[rec[x]] = file[rec[x]]
<1>1. Inside(th, rec[th]) /\ rec[x] \in Records /\ rec[th] \in Records
  BY DEF LockInv, TypeOK, DepthInv, InBody
<1>2. rec[x] # rec[th]
  BY <1>1, Alone DEF Guarded, OneProcess
<1> QED
  BY <1>1, <1>2 DEF LockInv, TypeOK

(* A thread that a step does not move keeps what it is about to store.     *)
LEMMA BufKept ==
  ASSUME Guarded, LockInv, BufInv, NEW th \in Threads, NEW x \in Threads, x # th,
         Step(th) \/ \E k \in Kinds, r \in Records : Call(th, k, r)
  PROVE  BufOf(x)'
<1>1. /\ CanStore(x)' <=> CanStore(x)
      /\ Inside(x, rec[x])' <=> Inside(x, rec[x])
      /\ pc'[x] = pc[x] /\ kind'[x] = kind[x] /\ rec'[x] = rec[x] /\ calls'[x] = calls[x]
      /\ buf'[x] = buf[x] /\ (x \in blind' <=> x \in blind)
  BY MayStill
<1>2. AfterwardsInside(x) => Inside(x, rec[x])
  BY DEF LockInv, DepthInv, InBody, AfterwardsInside
<1>3. Inside(x, rec[x]) /\ CanStore(x) => file'[rec[x]] = file[rec[x]]
  <2>1. CASE UNCHANGED file
    BY <2>1
  <2>2. CASE Replace(th) \/ Unlink(th)
    <3>1. pc[th] \in InBody /\ CanStore(th) /\ \E v : file' = [file EXCEPT ![rec[th]] = v]
      BY <2>2 DEF Replace, Unlink, InBody, BufInv, BufOf
    <3> QED
      BY <3>1, FileKept
  <2>3. UNCHANGED file \/ Replace(th) \/ Unlink(th)
    BY DEF Step, TakeRLock, TakeFlock, OpenFails, LockTimeout, Leave, Release, Read, ReadFails,
           Dump, Fill, WriteFails, UnlinkFails, Call, files
  <2> QED
    BY <2>1, <2>2, <2>3
<1>4. BufOf(x)
  BY DEF BufInv
<1>5. /\ BeforeRead(x)' <=> BeforeRead(x)
      /\ AfterwardsInside(x)' <=> AfterwardsInside(x)
  BY <1>1 DEF BeforeRead, AfterwardsInside
<1> QED
  BY <1>1, <1>2, <1>3, <1>4, <1>5 DEF BufOf, Added, Item

(* What the thread that moves is about to store.                           *)
LEMMA BufOwn ==
  ASSUME LockInv, BufInv, NEW th \in Threads,
         Step(th) \/ \E k \in Kinds, r \in Records : Call(th, k, r)
  PROVE  BufOf(th)'
<1>0. /\ pc \in [Threads -> PCs] /\ rec \in [Threads -> Records] /\ rec[th] \in Records
      /\ depth \in [Threads -> [Records -> Nat]] /\ depth[th][rec[th]] \in Nat
      /\ buf \in [Threads -> Contents] /\ file \in [Records -> Contents]
      /\ BufOf(th)
      /\ calls \in [Threads -> 0 .. MaxCalls] /\ kind \in [Threads -> Kinds \cup {"none"}]
  BY DEF LockInv, TypeOK, BufInv
<1>1. CASE TakeRLock(th)
  <2>1. /\ pc[th] \in {"outer", "inner"} /\ UNCHANGED <<file, buf, blind, rec, kind, calls, bare>>
        /\ Inside(th, rec[th])' <=> Inside(th, rec[th])
        /\ pc'[th] = IF Inside(th, rec[th]) THEN Body(th) ELSE "poll"
    BY <1>0, <1>1, RLockEntersNothing DEF TakeRLock, files, call, Inside
  <2>2. CASE Inside(th, rec[th])
    <3>1. pc[th] = "inner" /\ kind[th] = "edit"
      BY <2>1, <2>2 DEF LockInv, DepthInv, CallInv
    <3>2. Body(th) = "dump"
      BY <2>2, <3>1 DEF Body
    <3> QED
      BY <1>0, <2>1, <2>2, <3>1, <3>2
         DEF BufOf, BeforeRead, AfterwardsInside, Added, Item, CanStore
  <2>3. CASE ~Inside(th, rec[th])
    BY <1>0, <2>1, <2>3 DEF BufOf, BeforeRead, AfterwardsInside, Item
  <2> QED
    BY <2>2, <2>3
<1>2. CASE TakeFlock(th) \/ OpenFails(th)
  <2>1. /\ pc[th] = "poll" /\ pc'[th] = Body(th) /\ ~Inside(th, rec[th])
        /\ UNCHANGED <<file, buf, blind, kind, rec, calls>>
    BY <1>0, <1>2 DEF TakeFlock, OpenFails, Goto, files, call, LockInv, DepthInv
  <2>2. Body(th) \in {"read", "unlink"} \/ (Body(th) = "dump" /\ kind[th] = "write")
    BY <2>1, BodyPlaces DEF LockInv
  <2> QED
    BY <1>0, <2>1, <2>2 DEF BufOf, BeforeRead, AfterwardsInside, Item
<1>3. CASE LockTimeout(th) \/ Leave(th) \/ Release(th)
  <2>1. /\ UNCHANGED <<buf, kind, rec, calls>> /\ pc[th] # "idle"
        /\ pc'[th] \in {"release", "leave", "idle"}
    BY <1>0, <1>3 DEF LockTimeout, Leave, Release, Goto, files, call
  <2> QED
    BY <1>0, <2>1 DEF BufOf, BeforeRead, AfterwardsInside, Item
<1>4. CASE Read(th) \/ ReadFails(th)
  <2>1. /\ pc[th] = "read" /\ pc'[th] \in {"inner", "dump"} /\ kind[th] \in {"append", "edit"}
        /\ Inside(th, rec[th]) /\ (Inside(th, rec[th]))'
        /\ UNCHANGED <<file, kind, rec, calls, depth>>
    BY <1>0, <1>4 DEF Read, ReadFails, AfterRead, Goto, files, locks, call, LockInv, CallInv,
                      DepthInv, InBody, Inside
  <2>2. buf[th] = {Item(th)} /\ th \notin blind
    BY <1>0, <2>1 DEF BufOf, BeforeRead
  <2>3. Added(th)'
    <3>1. CASE Read(th)
      BY <1>0, <2>1, <2>2, <3>1 DEF Read, Added, Item
    <3>2. CASE ReadFails(th)
      BY <1>0, <2>1, <2>2, <3>2 DEF ReadFails, Added, Item
    <3> QED
      BY <1>4, <3>1, <3>2
  <2> QED
    BY <2>1, <2>3 DEF BufOf, BeforeRead, AfterwardsInside
<1>5. CASE Dump(th) \/ Fill(th)
  BY <1>0, <1>5 DEF BufOf, BeforeRead, AfterwardsInside, Added, Item, CanStore, Inside, Dump,
                    Fill, Goto, locks, call, LockInv, DepthInv, InBody
<1>6. CASE WriteFails(th) \/ Replace(th) \/ Unlink(th) \/ UnlinkFails(th)
  BY <1>0, <1>6 DEF BufOf, BeforeRead, AfterwardsInside, Item, WriteFails, Replace, Unlink,
                    UnlinkFails, Goto, call
<1>7. ASSUME NEW k \in Kinds, NEW r \in Records, Call(th, k, r) PROVE BufOf(th)'
  <2>1. ~Inside(th, r)
    BY <1>7 DEF LockInv, DepthInv, Call
  <2> QED
    BY <1>0, <1>7, <2>1 DEF BufOf, BeforeRead, AfterwardsInside, Item, Inside, Call, Goto, files,
                             locks
<1> QED
  BY <1>1, <1>2, <1>3, <1>4, <1>5, <1>6, <1>7 DEF Step

LEMMA BufStep == Guarded /\ LockInv /\ BufInv /\ [Next]_vars => BufInv'
<1> SUFFICES ASSUME Guarded, LockInv, BufInv, [Next]_vars PROVE BufInv'
  OBVIOUS
<1>1. ASSUME NEW th \in Threads, Step(th) \/ \E k \in Kinds, r \in Records : Call(th, k, r)
      PROVE  BufInv'
  BY <1>1, BufOwn, BufKept DEF BufInv
<1>2. ASSUME NEW p \in Procs, Crash(p) PROVE BufInv'
  <2>1. ASSUME NEW x \in Threads, ProcOf[x] = p PROVE BufOf(x)'
    BY <1>2, <2>1 DEF BufOf, BeforeRead, AfterwardsInside, Crash
  <2>2. ASSUME NEW x \in Threads, ProcOf[x] # p PROVE BufOf(x)'
    <3>1. /\ UNCHANGED <<file, kind, rec, calls, buf, blind>>
          /\ pc'[x] = pc[x] /\ depth'[x] = depth[x] /\ rec[x] \in Records
      BY <1>2, <2>2 DEF Crash, files, call, LockInv, TypeOK
    <3>2. x \in bare' <=> x \in bare
      BY <1>2, <2>2 DEF Crash
    <3> QED
      BY <3>1, <3>2 DEF BufInv, BufOf, BeforeRead, AfterwardsInside, Added, Item, CanStore, Inside
  <2> QED
    BY <2>1, <2>2 DEF BufInv
<1>3. CASE UNCHANGED vars
  BY <1>3 DEF BufInv, BufOf, BeforeRead, AfterwardsInside, Added, Item, CanStore, Inside, vars,
              files, locks, call
<1> QED
  BY <1>1, <1>2, <1>3 DEF Next

(* A call reports once, when its body is over.                             *)
LEMMA ResultStep == LockInv /\ ResultInv /\ [Next]_vars => ResultInv'
<1> SUFFICES ASSUME LockInv, ResultInv, [Next]_vars PROVE ResultInv'
  OBVIOUS
<1>0. pc \in [Threads -> PCs] /\ DOMAIN result = Threads
  BY DEF LockInv, TypeOK
<1>1. ASSUME NEW th \in Threads, Step(th) \/ \E k \in Kinds, r \in Records : Call(th, k, r)
      PROVE  ResultInv'
  <2>1. \A x \in Threads \ {th} : pc'[x] = pc[x] /\ result'[x] = result[x]
    BY <1>1, MayStill
  <2>2. pc'[th] # "idle" => (result'[th] = "running" <=> pc'[th] \notin {"leave", "release"})
    <3>1. CASE TakeRLock(th) \/ TakeFlock(th) \/ OpenFails(th)
      <4>1. pc[th] \notin {"idle", "leave", "release"}
        BY <3>1 DEF TakeRLock, TakeFlock, OpenFails
      <4>2. Body(th) \in {"dump", "read", "unlink"}
        BY <4>1, BodyPlaces DEF LockInv
      <4> QED
        BY <1>0, <3>1, <4>1, <4>2 DEF ResultInv, TakeRLock, TakeFlock, OpenFails, Goto
    <3>2. CASE LockTimeout(th) \/ Leave(th) \/ Release(th)
      BY <1>0, <3>2 DEF ResultInv, LockTimeout, Leave, Release, Goto, Result
    <3>3. CASE Read(th) \/ ReadFails(th) \/ Dump(th) \/ Fill(th)
      BY <1>0, <3>3 DEF ResultInv, Read, ReadFails, AfterRead, Dump, Fill, Goto
    <3>4. CASE WriteFails(th) \/ Replace(th) \/ Unlink(th) \/ UnlinkFails(th)
      BY <1>0, <3>4 DEF ResultInv, WriteFails, Replace, Unlink, UnlinkFails, Goto, Result
    <3>5. ASSUME NEW k \in Kinds, NEW r \in Records, Call(th, k, r)
          PROVE  pc'[th] # "idle" => (result'[th] = "running" <=> pc'[th] \notin {"leave", "release"})
      BY <1>0, <3>5 DEF Call, Goto, Result
    <3> QED
      BY <1>1, <3>1, <3>2, <3>3, <3>4, <3>5 DEF Step
  <2> QED
    BY <2>1, <2>2 DEF ResultInv
<1>2. ASSUME NEW p \in Procs, Crash(p) PROVE ResultInv'
  BY <1>2 DEF ResultInv, Crash
<1>3. CASE UNCHANGED vars
  BY <1>3 DEF ResultInv, vars
<1> QED
  BY <1>1, <1>2, <1>3 DEF Next

(* The threads in a call, as AtomicStore has them.                         *)
Running == {th \in Threads : pc[th] # "idle"}

LEMMA RunningMoves ==
  ASSUME TypeOK, NEW th \in Threads, NEW place, Goto(th, place)
  PROVE  Running' = IF place = "idle" THEN Running \ {th} ELSE Running \cup {th}
  BY DEF TypeOK, Running, Goto

(* Every step of the code is a step of AtomicStore, or none.               *)
LEMMA AtomicStep ==
  ASSUME LockInv, WholeInv, BufInv, ResultInv, [Next]_vars
  PROVE  [Atomic!Next]_Atomic!vars
<1> DEFINE same == UNCHANGED <<file, kind, rec, calls, blind, result>>
<1>0. TypeOK /\ DOMAIN result = Threads
  BY DEF LockInv, TypeOK
<1>1. ASSUME NEW th \in Threads, NEW k \in Kinds, NEW r \in Records, Call(th, k, r)
      PROVE  Atomic!Next
  <2>1. Running' = Running \cup {th} /\ th \notin Running
    BY <1>0, <1>1, RunningMoves DEF Call, Running
  <2>2. Atomic!Begin(th, k, r)
    BY <1>1, <2>1 DEF Call, Result, files, Atomic!Begin, Running
  <2> QED
    BY <2>2 DEF Atomic!Next
<1>2. ASSUME NEW th \in Threads,
             \/ TakeRLock(th) \/ TakeFlock(th) \/ OpenFails(th) \/ Leave(th) \/ Read(th)
             \/ Dump(th) \/ Fill(th)
      PROVE  UNCHANGED Atomic!vars
  <2>1. same
    BY <1>2 DEF TakeRLock, TakeFlock, OpenFails, Leave, Read, Dump, Fill, files, call
  <2>2. pc[th] # "idle" /\ \E place : Goto(th, place) /\ place # "idle"
    <3>1. CASE TakeRLock(th) \/ TakeFlock(th) \/ OpenFails(th)
      <4>1. pc[th] # "idle"
        BY <3>1 DEF TakeRLock, TakeFlock, OpenFails
      <4>2. Body(th) # "idle"
        BY <4>1, BodyPlaces DEF LockInv
      <4> QED
        BY <3>1, <4>1, <4>2 DEF TakeRLock, TakeFlock, OpenFails
    <3>2. CASE Leave(th) \/ Read(th) \/ Dump(th) \/ Fill(th)
      BY <3>2 DEF Leave, Read, AfterRead, Dump, Fill
    <3> QED
      BY <1>2, <3>1, <3>2
  <2>3. Running' = Running
    BY <1>0, <2>2, RunningMoves DEF Running
  <2> QED
    BY <2>1, <2>3 DEF Atomic!vars, Running
<1>3. ASSUME NEW th \in Threads, Release(th) PROVE [Atomic!Next]_Atomic!vars
  <2>1. same /\ pc[th] = "release"
    BY <1>3 DEF Release, files, call
  <2>2. CASE Inside(th, rec[th])
    <3>1. Running' = Running
      BY <1>0, <1>3, <2>1, <2>2, RunningMoves DEF Release, Running
    <3> QED
      BY <2>1, <3>1 DEF Atomic!vars, Running
  <2>3. CASE ~Inside(th, rec[th])
    <3>1. Running' = Running \ {th} /\ th \in Running
      BY <1>0, <1>3, <2>1, <2>3, RunningMoves DEF Release, Running
    <3>2. result[th] # "running"
      BY <2>1 DEF ResultInv
    <3>3. Atomic!Return(th)
      BY <2>1, <3>1, <3>2 DEF Atomic!Return, Atomic!Pending, Running
    <3> QED
      BY <3>3 DEF Atomic!Next
  <2> QED
    BY <2>2, <2>3
<1>4. ASSUME NEW th \in Threads, pc[th] \notin {"idle", "leave", "release"}
      PROVE  Atomic!Pending(th)
  BY <1>4 DEF Atomic!Pending, ResultInv
<1>5. ASSUME NEW th \in Threads, ReadFails(th) PROVE Atomic!Next
  <2>1. Running' = Running /\ Atomic!Pending(th)
    BY <1>0, <1>4, <1>5, RunningMoves DEF ReadFails, AfterRead, Running
  <2>2. kind[th] \in {"append", "edit"}
    BY <1>5 DEF ReadFails, LockInv, CallInv
  <2>3. Atomic!Misread(th)
    BY <1>5, <2>1, <2>2 DEF ReadFails, files, call, Atomic!Misread, Running
  <2> QED
    BY <2>3 DEF Atomic!Next
<1>6. ASSUME NEW th \in Threads, LockTimeout(th) \/ WriteFails(th) \/ UnlinkFails(th)
      PROVE  Atomic!Next
  <2>1. Running' = Running /\ Atomic!Pending(th)
    BY <1>0, <1>4, <1>6, RunningMoves DEF LockTimeout, WriteFails, UnlinkFails, Running
  <2>2. Atomic!Fail(th)
    BY <1>6, <2>1 DEF LockTimeout, WriteFails, UnlinkFails, Result, files, call, Atomic!Fail,
                      Running
  <2> QED
    BY <2>2 DEF Atomic!Next
<1>7. ASSUME NEW th \in Threads, Replace(th) PROVE Atomic!Next
  <2>1. Running' = Running /\ Atomic!Pending(th)
    BY <1>0, <1>4, <1>7, RunningMoves DEF Replace, Running
  <2>2. file' = [file EXCEPT ![rec[th]] = buf[th]]
    BY <1>7 DEF WholeInv, TmpInv, Replace
  <2>3. kind[th] \in {"write", "append", "edit"}
    BY <1>7, KindsAssumption DEF Replace, LockInv, CallInv
  <2>4. BufOf(th) /\ AfterwardsInside(th) /\ CanStore(th)
    BY <1>7 DEF Replace, BufInv, BufOf, AfterwardsInside
  <2>5. buf[th] = Atomic!Stored(th)
    <3>1. CASE kind[th] = "write"
      BY <1>7, <2>4, <3>1 DEF Replace, BufOf, Atomic!Stored, Atomic!Item, Item
    <3>2. CASE kind[th] # "write" /\ th \in blind
      BY <2>3, <2>4, <3>2 DEF BufOf, Added, Atomic!Stored, Atomic!Item, Item
    <3>3. CASE kind[th] # "write" /\ th \notin blind
      BY <2>3, <2>4, <3>3 DEF BufOf, Added, Atomic!Stored, Atomic!Item, Item
    <3> QED
      BY <3>1, <3>2, <3>3
  <2>6. Atomic!Succeed(th)
    BY <1>7, <2>1, <2>2, <2>3, <2>5 DEF Replace, Result, call, Atomic!Succeed, Running
  <2> QED
    BY <2>6 DEF Atomic!Next
<1>8. ASSUME NEW th \in Threads, Unlink(th) PROVE Atomic!Next
  <2>1. Running' = Running /\ Atomic!Pending(th)
    BY <1>0, <1>4, <1>8, RunningMoves DEF Unlink, Running
  <2>2. kind[th] = "delete"
    BY <1>8 DEF Unlink, LockInv, CallInv
  <2>3. Atomic!Stored(th) = {}
    BY <2>2 DEF Atomic!Stored
  <2>4. Atomic!Succeed(th)
    BY <1>8, <2>1, <2>2, <2>3 DEF Unlink, Result, call, Atomic!Succeed, Running
  <2> QED
    BY <2>4 DEF Atomic!Next
<1>9. ASSUME NEW p \in Procs, Crash(p) PROVE Atomic!Next
  <2> DEFINE gone == {th \in Threads : ProcOf[th] = p}
  <2>1. Running' = Running \ gone
    BY <1>9 DEF Crash, Running
  <2>2. result' = [th \in Threads |-> IF th \in gone \cap Running THEN "crashed" ELSE result[th]]
    BY <1>9 DEF Crash, Running
  <2>3. Atomic!Die(gone)
    BY <1>9, <2>1, <2>2 DEF Crash, files, call, Atomic!Die, Running
  <2> QED
    BY <2>3 DEF Atomic!Next
<1>10. CASE UNCHANGED vars
  BY <1>10 DEF vars, files, call, Atomic!vars
<1> QED
  BY <1>1, <1>2, <1>3, <1>5, <1>6, <1>7, <1>8, <1>9, <1>10 DEF Next, Step

(* For any number of threads of one process, and for any number of         *)
(* processes where a transaction that cannot open its sidecar cannot write *)
(* either: every step of the code is a step of AtomicStore.  So no call    *)
(* that reports success is lost or takes effect in part, one that reports  *)
(* a failure or a refusal never had an effect, and only a call that could  *)
(* not read the record loses what others stored in it.                     *)
THEOREM CallsAreAtomic == Guarded /\ Spec => IsAtomic
<1>1. Init => Atomic!Init
  BY DEF Init, Atomic!Init
<1>2. Init => WholeInv /\ BufInv /\ ResultInv
  BY InitLocks DEF Init, WholeInv, RecordIsWhole
<1>3. LockInv /\ WholeInv /\ [Next]_vars => WholeInv'
  BY WholeStep
<1>4. LockInv /\ ResultInv /\ [Next]_vars => ResultInv'
  BY ResultStep
<1>5. CASE Guarded
  <2>1. LockInv /\ BufInv /\ [Next]_vars => BufInv'
    BY BufStep, <1>5
  <2>2. LockInv /\ WholeInv /\ BufInv /\ ResultInv /\ [Next]_vars => [Atomic!Next]_Atomic!vars
    BY AtomicStep
  <2> QED
    BY <1>1, <1>2, <1>3, <1>4, <2>1, <2>2, LockInvariant, PTL DEF Spec, IsAtomic, Atomic!Spec
<1>6. CASE ~Guarded
  BY <1>6
<1> QED
  BY <1>5, <1>6
=============================================================================
