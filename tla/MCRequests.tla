----------------------------- MODULE MCRequests -----------------------------
(***************************************************************************)
(* Small instances of what people's requests change in the database: a     *)
(* connection, the backup schedules of its Bases, and sessions. The three  *)
(* share no state, so a behaviour moves one part and leaves the others as  *)
(* they began.                                                             *)
(***************************************************************************)
EXTENDS SignIn, Connection, Schedules, TLC

CONSTANTS
  Parts, \* the parts that may move
  f1, f2, f3, l1, r1, s1, s2, a1, a2, n1, e1, e2, t1, w1, k1, k2, p1, p2, c1, b1, b2

VARIABLE part

ASSUME RequestConstants ==
  /\ Parts \subseteq {"session", "connection", "schedule"}
  /\ ConnectionConstants
  /\ ScheduleConstants

allVars == <<part, vars, connectionVars, schedulesVars>>

RequestsInit == part \in Parts /\ Init /\ ConnectionInit /\ SchedulesInit

RequestsNext ==
  \/ part = "session" /\ Next /\ UNCHANGED <<part, connectionVars, schedulesVars>>
  \/ part = "connection" /\ ConnectionNext /\ UNCHANGED <<part, vars, schedulesVars>>
  \/ part = "schedule" /\ SchedulesNext /\ UNCHANGED <<part, vars, connectionVars>>

RequestsSpec == RequestsInit /\ [][RequestsNext]_allVars

\* Two accounts whose logins make the same username.
OneName == [a \in Accounts |-> n1]

Symmetry == Permutations(Editors)

-----------------------------------------------------------------------------
\* Every variable of every part has its type.
TypesOK == TypeOK /\ ConnectionTypeOK /\ SchedulesTypeOK
=============================================================================
