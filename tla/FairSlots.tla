----------------------------- MODULE FairSlots -----------------------------
(***************************************************************************)
(* What a visitor is promised by the concurrency ceiling of the edge       *)
(* functions: on a lane (one route of one isolate) at most Cap requests    *)
(* hold a slot, the requests that wait form one bounded queue, nobody      *)
(* stands in line while a slot is free, and a slot that is given back goes *)
(* to whoever has waited longest.  EdgeAdmission implements it.            *)
(***************************************************************************)
EXTENDS Naturals, Sequences, FiniteSets

CONSTANTS People, Cap, Depth

VARIABLES holding, queue

fairVars == <<holding, queue>>

IsFull == Cardinality(holding) >= Cap

FairInit == holding = {} /\ queue = <<>>

TakeFree(p) ==
    /\ queue = <<>> /\ ~IsFull
    /\ holding' = holding \union {p}
    /\ UNCHANGED queue

StandInLine(p) ==
    /\ IsFull /\ Len(queue) < Depth
    /\ queue' = Append(queue, p)
    /\ UNCHANGED holding

LoseHeart ==
    /\ \E k \in DOMAIN queue : queue' = SubSeq(queue, 1, k - 1) \o SubSeq(queue, k + 1, Len(queue))
    /\ UNCHANGED holding

Leave(p) ==
    /\ queue = <<>>
    /\ holding' = holding \ {p}
    /\ UNCHANGED queue

PassOn(p) ==
    /\ queue # <<>>
    /\ holding' = (holding \ {p}) \union {Head(queue)}
    /\ queue' = Tail(queue)

FairNext ==
    \/ LoseHeart
    \/ \E p \in People : TakeFree(p) \/ StandInLine(p)
    \/ \E p \in holding : Leave(p) \/ PassOn(p)

FairSpec == FairInit /\ [][FairNext]_fairVars

============================================================================
