---------------------------- MODULE AtomicStore ----------------------------
(***************************************************************************)
(* What a JSON record promises its writers.  A call takes effect in one    *)
(* step, on the record as it then is, and reports it; or it reports that   *)
(* it did not and never does; or its process dies before it can report.    *)
(* A record is the set of the items stored in it.                          *)
(***************************************************************************)
EXTENDS Naturals

CONSTANTS Threads, Records, Kinds, ReadMayFail

VARIABLES
  value,     \* value[r]: what record r holds
  running,   \* threads in a call
  kind, rec, calls,   \* what each is for, and its number
  blind,     \* those that found the record unreadable
  result     \* what each thread's last call reported

vars == <<value, running, kind, rec, calls, blind, result>>

Item(th) == <<th, calls[th]>>
Pending(th) == th \in running /\ result[th] = "running"

Init ==
  /\ value = [r \in Records |-> {}] /\ running = {}
  /\ kind = [th \in Threads |-> "none"] /\ rec \in [Threads -> Records]
  /\ calls = [th \in Threads |-> 0] /\ blind = {}
  /\ result = [th \in Threads |-> "none"]

Begin(th, k, r) ==
  /\ th \notin running /\ running' = running \cup {th}
  /\ kind' = [kind EXCEPT ![th] = k] /\ rec' = [rec EXCEPT ![th] = r]
  /\ calls' = [calls EXCEPT ![th] = @ + 1]
  /\ blind' = blind \ {th} /\ result' = [result EXCEPT ![th] = "running"]
  /\ UNCHANGED value

(* `read` gives the default for a record it cannot read. *)
Misread(th) ==
  /\ ReadMayFail /\ Pending(th) /\ kind[th] \in {"append", "edit"}
  /\ blind' = blind \cup {th}
  /\ UNCHANGED <<value, running, kind, rec, calls, result>>

(* `append`, and a read-modify-write inside `transaction()`, add to what is *)
(* there; a `write` is of a value computed from nothing; `delete` removes. *)
Stored(th) ==
  IF kind[th] = "delete" THEN {}
  ELSE {Item(th)} \cup (IF kind[th] = "write" \/ th \in blind THEN {} ELSE value[rec[th]])

Succeed(th) ==
  /\ Pending(th)
  /\ kind[th] = "delete" => value[rec[th]] # {}
  /\ value' = [value EXCEPT ![rec[th]] = Stored(th)]
  /\ result' = [result EXCEPT ![th] = "ok"]
  /\ UNCHANGED <<running, kind, rec, calls, blind>>

Fail(th) ==
  /\ Pending(th)
  /\ \E why \in {"failed", "refused"} : result' = [result EXCEPT ![th] = why]
  /\ UNCHANGED <<value, running, kind, rec, calls, blind>>

Return(th) ==
  /\ th \in running /\ ~Pending(th) /\ running' = running \ {th}
  /\ UNCHANGED <<value, kind, rec, calls, blind, result>>

Die(gone) ==
  /\ running' = running \ gone
  /\ result' = [th \in Threads |-> IF th \in gone \cap running THEN "crashed" ELSE result[th]]
  /\ UNCHANGED <<value, kind, rec, calls, blind>>

Next ==
  \/ \E th \in Threads :
       \/ Misread(th) \/ Succeed(th) \/ Fail(th) \/ Return(th)
       \/ \E k \in Kinds, r \in Records : Begin(th, k, r)
  \/ \E gone \in SUBSET Threads : Die(gone)

Spec == Init /\ [][Next]_vars
=============================================================================
