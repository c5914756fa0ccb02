---------------------------- MODULE TurnContract ----------------------------
(***************************************************************************)
(* What the turn engine promises the robot, without saying how: the lines  *)
(* of one prompt come in order, nothing follows the closing line, and once *)
(* a prompt is superseded at most one more of its lines goes out.          *)
(***************************************************************************)
EXTENDS Naturals, Sequences

CONSTANTS Robots, MaxSeq, MaxChunk

Turns == Robots \X (1 .. MaxSeq)

VARIABLES
  newest,  \* the newest turn number of each robot
  said     \* the lines of each turn: chunk number, closing or not, late or not

vars == <<newest, said>>

Superseded(t) == newest[t[1]] # t[2]
Closed(t) == \E i \in DOMAIN said[t] : said[t][i].end
SpokeLate(t) == \E i \in DOMAIN said[t] : said[t][i].late

Init ==
  /\ newest = [d \in Robots |-> 0]
  /\ said = [t \in Turns |-> << >>]

(* A new prompt supersedes the last one of its robot, a lost connection    *)
(* the last one of every robot.                                            *)
Supersede(R) ==
  /\ newest' = [d \in Robots |-> IF d \in R THEN newest[d] + 1 ELSE newest[d]]
  /\ UNCHANGED said

Say(t, n, end) ==
  /\ t[2] <= newest[t[1]]
  /\ ~Closed(t)
  /\ Superseded(t) => ~SpokeLate(t)
  /\ \A i \in DOMAIN said[t] : said[t][i].chunk <= n
  /\ said' = [said EXCEPT ![t] =
                Append(@, [chunk |-> n, end |-> end, late |-> Superseded(t)])]
  /\ UNCHANGED newest

Next ==
  \/ \E R \in SUBSET Robots : Supersede(R)
  \/ \E t \in Turns, n \in 0 .. MaxChunk, end \in BOOLEAN : Say(t, n, end)

Spec == Init /\ [][Next]_vars
=============================================================================
