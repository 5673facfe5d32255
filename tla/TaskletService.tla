--------------------------- MODULE TaskletService ----------------------------
(***************************************************************************)
(* What the tasklet layer promises its clients, without lists, CPUs or     *)
(* bits (the comment "Tasklets --- multithreaded analogue of BHs" of       *)
(* new/include/linux/interrupt.h): any number of requests made before the  *)
(* execution starts are served by one execution, a request made during an  *)
(* execution is owed another one, and a tasklet never overlaps itself.     *)
(***************************************************************************)
CONSTANT TASKLETS

VARIABLES
  owed,        \* tasklets that are owed an execution, or reserved by a killer
  executing    \* tasklets whose function is running

svars == <<owed, executing>>

Init == owed = {} /\ executing = {}

\* The first request since the last execution started, or a killer's claim.
Claim(t) ==
  /\ t \notin owed
  /\ owed' = owed \cup {t}
  /\ UNCHANGED executing

\* One execution serves all the requests made so far.
Start(t) ==
  /\ t \in owed \ executing
  /\ owed' = owed \ {t}
  /\ executing' = executing \cup {t}

Finish(t) ==
  /\ t \in executing
  /\ executing' = executing \ {t}
  /\ UNCHANGED owed

\* A killer gives its claim back; the tasklet is not running then.
Withdraw(t) ==
  /\ t \in owed \ executing
  /\ owed' = owed \ {t}
  /\ UNCHANGED executing

Next == \E t \in TASKLETS : Claim(t) \/ Start(t) \/ Finish(t) \/ Withdraw(t)

Spec == Init /\ [][Next]_svars

=============================================================================
