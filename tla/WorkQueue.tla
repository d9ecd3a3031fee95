----------------------------- MODULE WorkQueue -----------------------------
(***************************************************************************)
(* What a job queue promises: tasks are taken within a number of slots,    *)
(* and a task is performed by one server at a time, a server performing    *)
(* one task at a time.  A task that is taken may be given back at any      *)
(* moment, and being performed is not bound to being taken: a task taken   *)
(* back while it is performed keeps its performer, who will fail, and is   *)
(* not performed again before.                                             *)
(***************************************************************************)
EXTENDS Naturals, FiniteSets

CONSTANTS
  Task,
  Server,
  Slots    \* how many tasks may be taken together

VARIABLES
  taken,     \* the tasks that occupy a slot
  performed, \* who performs what: a set of pairs of a task and a server
  completed  \* the servers whose work counts, until they leave

vars == <<taken, performed, completed>>

Init == taken = {} /\ performed = {} /\ completed = {}

Take(t) ==
  /\ t \notin taken
  /\ Cardinality(taken) < Slots
  /\ taken' = taken \cup {t}
  /\ UNCHANGED <<performed, completed>>

GiveBack ==
  /\ taken' \in SUBSET taken
  /\ UNCHANGED <<performed, completed>>

Begin(t, s) ==
  /\ \A other \in performed : other[1] # t /\ other[2] # s
  /\ s \notin completed
  /\ performed' = performed \cup {<<t, s>>}
  /\ UNCHANGED <<taken, completed>>

(* The performer leaves: its work counts only if the task is still taken.  *)
Complete(t, s) ==
  /\ <<t, s>> \in performed
  /\ t \in taken
  /\ taken' = taken \ {t}
  /\ performed' = performed \ {<<t, s>>}
  /\ completed' = completed \cup {s}

Abandon(t, s) ==
  /\ <<t, s>> \in performed
  /\ performed' = performed \ {<<t, s>>}
  /\ UNCHANGED <<taken, completed>>

(* A server that has completed its task is free again, and may have given  *)
(* other tasks back on its way out.                                        *)
Leave(s) ==
  /\ s \in completed
  /\ completed' = completed \ {s}
  /\ taken' \in SUBSET taken
  /\ UNCHANGED performed

Next ==
  \/ GiveBack
  \/ \E t \in Task : Take(t)
  \/ \E t \in Task, s \in Server : Begin(t, s) \/ Complete(t, s) \/ Abandon(t, s)
  \/ \E s \in Server : Leave(s)

Spec == Init /\ [][Next]_vars
=============================================================================
