--------------------------- MODULE ReplicatedLog ---------------------------
(***************************************************************************)
(* What the replication layer promises about its logs: an object enters a  *)
(* log at its end and only there, either because it is committed now or as *)
(* a copy of an object that was committed before; nothing is overwritten,  *)
(* removed or invented.  A process that restarts forgets its log.          *)
(*                                                                         *)
(* What it promises whoever submits an object: only submitted objects are  *)
(* committed; there is at most one answer and it is final; "ok" comes with *)
(* a commit.  Any other answer leaves open whether it was or will be.      *)
(***************************************************************************)
EXTENDS Sequences

CONSTANTS
  Node,  \* the processes
  Cmd    \* the objects, each submitted at most once

VARIABLES
  log,        \* the log of each process
  committed,  \* the objects committed so far
  answer      \* what is known of each object where it was submitted

vars == <<log, committed, answer>>

Init ==
  /\ log = [n \in Node |-> <<>>]
  /\ committed = {}
  /\ answer = [c \in Cmd |-> "idle"]

Answer(c, a) == answer' = [answer EXCEPT ![c] = a]

\* An object is submitted, or turned down at once.
Submit(c) ==
  /\ answer[c] = "idle"
  /\ Answer(c, "pending") \/ Answer(c, "failed")
  /\ UNCHANGED <<log, committed>>

AppendTo(n, c) == log' = [log EXCEPT ![n] = Append(@, c)]

\* An object is committed and joins the log of the process that committed it;
\* whoever submitted it may be told.
Commit(n, c) ==
  /\ answer[c] # "idle"
  /\ AppendTo(n, c) /\ committed' = committed \cup {c}
  /\ UNCHANGED answer \/ (answer[c] = "pending" /\ Answer(c, "ok"))

\* A process copies an object that has been committed.
Learn(n, c) == c \in committed /\ AppendTo(n, c) /\ UNCHANGED <<committed, answer>>

\* The wait for an object is given up.
GiveUp(c) ==
  /\ answer[c] = "pending"
  /\ Answer(c, "failed")
  /\ UNCHANGED <<log, committed>>

\* A process restarts; the waits at it are lost.
Crash(n) ==
  /\ log' = [log EXCEPT ![n] = <<>>]
  /\ \E lost \in SUBSET {c \in Cmd : answer[c] = "pending"} :
       answer' = [c \in Cmd |-> IF c \in lost THEN "lost" ELSE answer[c]]
  /\ UNCHANGED committed

Next ==
  \/ \E n \in Node : Crash(n) \/ \E c \in Cmd : Commit(n, c) \/ Learn(n, c)
  \/ \E c \in Cmd : Submit(c) \/ GiveUp(c)

Spec == Init /\ [][Next]_vars
=============================================================================
