------------------------------ MODULE CpuDeath -------------------------------
(***************************************************************************)
(* The handshake by which a surviving CPU learns that an outgoing CPU has  *)
(* died, and a later attempt to bring it up learns how that went: the      *)
(* variable cpu_hotplug_state and its functions in new/kernel/smpboot.c.   *)
(* The two sides share one word and use only atomic reads, writes and      *)
(* compare-and-exchange; the survivor gives up after a timeout, and the    *)
(* report may come at any time before or after that.                       *)
(*                                                                         *)
(* The callers are architecture code.  A CPU in CHECKED belongs to one     *)
(* that calls cpu_check_up_prepare and cpu_set_state_online; the comments  *)
(* allow the others to omit both.                                          *)
(***************************************************************************)
EXTENDS Naturals

CONSTANTS
  CPUS,       \* the CPUs that go up and down
  CHECKED     \* those whose architecture checks hotplug errors

ASSUME CheckedAssumption == CHECKED \subseteq CPUS

VARIABLES
  state,      \* cpu_hotplug_state
  spc, sold,  \* survivor: control point, local oldstate
  opc, oold,  \* the CPU itself: control point, local oldstate
  waited,     \* result of cpu_wait_death for the last death
  reported,   \* result of cpu_report_death for the last death
  check       \* result of the last cpu_check_up_prepare

vars == <<state, spc, sold, opc, oold, waited, reported, check>>

CPU_STATES == {"ONLINE", "UP_PREPARE", "DEAD", "DEAD_FROZEN", "POST_DEAD", "BROKEN"}

Set(f, c, v) == [f EXCEPT ![c] = v]

\* Before its first boot a CPU counts as properly dead.
Init ==
  /\ state = [c \in CPUS |-> "POST_DEAD"]
  /\ spc = [c \in CPUS |-> "idle"]
  /\ opc = [c \in CPUS |-> "dead"]
  /\ sold = [c \in CPUS |-> "POST_DEAD"]
  /\ oold = [c \in CPUS |-> "POST_DEAD"]
  /\ waited = [c \in CPUS |-> "true"]
  /\ reported = [c \in CPUS |-> "true"]
  /\ check = [c \in CPUS |-> "none"]

\* CPU c starts to go down; a survivor calls cpu_wait_death.
Down(c) ==
  /\ spc[c] = "idle" /\ opc[c] = "up"
  /\ spc' = Set(spc, c, "wait")
  /\ opc' = Set(opc, c, "report")
  /\ waited' = Set(waited, c, "none")
  /\ reported' = Set(reported, c, "none")
  /\ check' = Set(check, c, "none")
  /\ UNCHANGED <<state, sold, oold>>

-----------------------------------------------------------------------------
(* cpu_wait_death *)

\* The polling loop ends: the CPU is dead, or the time is up.
Poll(c) ==
  /\ spc[c] = "wait"
  /\ spc' = Set(spc, c, "update")
  /\ UNCHANGED <<state, sold, opc, oold, waited, reported, check>>

\* update_state: oldstate = atomic_read()
UpdateRead(c) ==
  /\ spc[c] = "update"
  /\ sold' = Set(sold, c, state[c])
  /\ spc' = Set(spc, c, IF state[c] = "DEAD" THEN "set" ELSE "cmpxchg")
  /\ UNCHANGED <<state, opc, oold, waited, reported, check>>

\* Died normally: atomic_set(CPU_POST_DEAD), return true.
UpdateSet(c) ==
  /\ spc[c] = "set"
  /\ state' = Set(state, c, "POST_DEAD")
  /\ waited' = Set(waited, c, "true")
  /\ spc' = Set(spc, c, "idle")
  /\ UNCHANGED <<sold, opc, oold, reported, check>>

\* Mutant: a plain store instead of the compare-and-exchange.
UpdateStore(c) ==
  /\ spc[c] = "cmpxchg"
  /\ state' = Set(state, c, "BROKEN")
  /\ waited' = Set(waited, c, "false")
  /\ spc' = Set(spc, c, "idle")
  /\ UNCHANGED <<sold, opc, oold, reported, check>>

\* Still alive: compare-and-exchange to CPU_BROKEN and return false, or look
\* again if the state has changed.
UpdateCmpxchg(c) ==
  /\ spc[c] = "cmpxchg"
  /\ \/ /\ state[c] = sold[c]
        /\ state' = Set(state, c, "BROKEN")
        /\ waited' = Set(waited, c, "false")
        /\ spc' = Set(spc, c, "idle")
     \/ /\ state[c] # sold[c]
        /\ spc' = Set(spc, c, "update")
        /\ UNCHANGED <<state, waited>>
  /\ UNCHANGED <<sold, opc, oold, reported, check>>

-----------------------------------------------------------------------------
(* cpu_report_death *)

ReportRead(c) ==
  /\ opc[c] = "report"
  /\ oold' = Set(oold, c, state[c])
  /\ opc' = Set(opc, c, "cmpxchg")
  /\ UNCHANGED <<state, spc, sold, waited, reported, check>>

\* Mutant: CPU_DEAD is reported also after the timeout.
ReportAlwaysDead(c) ==
  /\ opc[c] = "cmpxchg"
  /\ state' = Set(state, c, "DEAD")
  /\ reported' = Set(reported, c, IF oold[c] # "BROKEN" THEN "true" ELSE "false")
  /\ opc' = Set(opc, c, "dead")
  /\ UNCHANGED <<spc, sold, oold, waited, check>>

\* Mutant: the word is read once, before the loop, and an exchange that fails is
\* tried again with the old value, for ever.
ReportReadsOnce(c) ==
  /\ opc[c] = "cmpxchg"
  /\ LET newstate == IF oold[c] # "BROKEN" THEN "DEAD" ELSE "DEAD_FROZEN" IN
       \/ /\ state[c] = oold[c]
          /\ state' = Set(state, c, newstate)
          /\ reported' = Set(reported, c, IF newstate = "DEAD" THEN "true" ELSE "false")
          /\ opc' = Set(opc, c, "dead")
       \/ /\ state[c] # oold[c]
          /\ UNCHANGED <<state, reported, opc>>
  /\ UNCHANGED <<spc, sold, oold, waited, check>>

\* The exchange to CPU_DEAD, or to CPU_DEAD_FROZEN after the timeout.
ReportCmpxchg(c) ==
  /\ opc[c] = "cmpxchg"
  /\ LET newstate == IF oold[c] # "BROKEN" THEN "DEAD" ELSE "DEAD_FROZEN" IN
       \/ /\ state[c] = oold[c]
          /\ state' = Set(state, c, newstate)
          /\ reported' = Set(reported, c, IF newstate = "DEAD" THEN "true" ELSE "false")
          /\ opc' = Set(opc, c, "dead")
       \/ /\ state[c] # oold[c]
          /\ opc' = Set(opc, c, "report")
          /\ UNCHANGED <<state, reported>>
  /\ UNCHANGED <<spc, sold, oold, waited, check>>

-----------------------------------------------------------------------------
(* Bringing a CPU up *)

\* Mutant: CPU_BROKEN is treated like CPU_DEAD_FROZEN.
CheckUpBroken(c) ==
  /\ c \in CHECKED /\ spc[c] = "idle" /\ opc[c] # "up"
  /\ \/ /\ state[c] = "POST_DEAD"
        /\ check' = Set(check, c, "0") /\ spc' = Set(spc, c, "up_prepare")
     \/ /\ state[c] # "POST_DEAD"
        /\ check' = Set(check, c, "EBUSY")
        /\ spc' \in {spc, Set(spc, c, "boot")}
  /\ UNCHANGED <<state, sold, opc, oold, waited, reported>>

\* cpu_check_up_prepare: the switch.  After -EBUSY "the caller is free to
\* proceed" or not; after the other errors it does not.
CheckUp(c) ==
  /\ c \in CHECKED /\ spc[c] = "idle" /\ opc[c] # "up"
  /\ CASE state[c] = "POST_DEAD" ->
            check' = Set(check, c, "0") /\ spc' = Set(spc, c, "up_prepare")
       [] state[c] = "DEAD_FROZEN" ->
            /\ check' = Set(check, c, "EBUSY")
            /\ spc' \in {spc, Set(spc, c, "boot")}
       [] state[c] = "BROKEN" ->
            check' = Set(check, c, "EAGAIN") /\ UNCHANGED spc
       [] OTHER ->
            check' = Set(check, c, "EIO") /\ UNCHANGED spc
  /\ UNCHANGED <<state, sold, opc, oold, waited, reported>>

\* atomic_set(CPU_UP_PREPARE), return 0.
UpPrepare(c) ==
  /\ spc[c] = "up_prepare"
  /\ state' = Set(state, c, "UP_PREPARE")
  /\ spc' = Set(spc, c, "boot")
  /\ UNCHANGED <<sold, opc, oold, waited, reported, check>>

\* The CPU is started and cpu_set_state_online is called for it.
Boot(c) ==
  /\ spc[c] = "boot"
  /\ state' = Set(state, c, "ONLINE")
  /\ opc' = Set(opc, c, "up")
  /\ spc' = Set(spc, c, "idle")
  /\ UNCHANGED <<sold, oold, waited, reported, check>>

\* The same on an architecture that omits both calls.
BootUnchecked(c) ==
  /\ c \notin CHECKED /\ spc[c] = "idle" /\ opc[c] = "dead"
  /\ opc' = Set(opc, c, "up")
  /\ UNCHANGED <<state, spc, sold, oold, waited, reported, check>>

-----------------------------------------------------------------------------

WaitStep(c) == Poll(c) \/ UpdateRead(c) \/ UpdateSet(c) \/ UpdateCmpxchg(c)
ReportStep(c) == ReportRead(c) \/ ReportCmpxchg(c)

Next ==
  \E c \in CPUS :
    \/ Down(c) \/ WaitStep(c) \/ ReportStep(c)
    \/ CheckUp(c) \/ UpPrepare(c) \/ Boot(c) \/ BootUnchecked(c)

Spec == Init /\ [][Next]_vars

\* Both sides keep executing their loops.
Fairness == \A c \in CPUS : WF_vars(WaitStep(c)) /\ WF_vars(ReportStep(c))

FairSpec == Spec /\ Fairness

-----------------------------------------------------------------------------
(* Properties *)

\* Type of the state.
TypeOK ==
  /\ state \in [CPUS -> CPU_STATES]
  /\ spc \in [CPUS -> {"idle", "wait", "update", "set", "cmpxchg", "up_prepare", "boot"}]
  /\ opc \in [CPUS -> {"up", "report", "cmpxchg", "dead"}]
  /\ sold \in [CPUS -> CPU_STATES]
  /\ oold \in [CPUS -> CPU_STATES]
  /\ waited \in [CPUS -> {"none", "true", "false"}]
  /\ reported \in [CPUS -> {"none", "true", "false"}]
  /\ check \in [CPUS -> {"none", "0", "EBUSY", "EAGAIN", "EIO"}]

\* The two sides agree on the death: cpu_report_death returns "false if this
\* report follows the surviving CPU's timing out", and cpu_wait_death returns
\* true only for a report of this very death, wherever the timeout falls and
\* whatever an earlier death left in the state.
Agreement ==
  \A c \in CPUS :
    /\ waited[c] # "none" /\ reported[c] # "none" => waited[c] = reported[c]
    /\ waited[c] = "true" => reported[c] = "true"

\* A CPU is started only when it has finished dying.
UpOnlyDead == \A c \in CPUS : spc[c] \in {"up_prepare", "boot"} => opc[c] = "dead"

\* cpu_check_up_prepare tells how the death went: 0 if the CPU "died
\* properly", -EBUSY if it "died after cpu_wait_death() timed out", -EAGAIN if
\* it "still hasn't gotten around to dying", and never -EIO, "Should not
\* happen".
CheckTells ==
  [][\A c \in CPUS : CheckUp(c) =>
       CASE check'[c] = "0" -> waited[c] = "true" /\ opc[c] = "dead"
         [] check'[c] = "EBUSY" -> waited[c] = "false" /\ opc[c] = "dead"
         [] check'[c] = "EAGAIN" -> waited[c] = "false" /\ opc[c] # "dead"
         [] OTHER -> FALSE]_vars

\* Both compare-and-exchange loops end, though each side can make the other
\* one's exchange fail.
HandshakeEnds ==
  \A c \in CPUS :
    /\ spc[c] = "wait" ~> spc[c] = "idle"
    /\ opc[c] = "report" ~> opc[c] = "dead"

-----------------------------------------------------------------------------
(* The inductive invariant of module CpuDeathProofs: what the shared state    *)
(* and the two sides can be in each phase of a CPU's life.                    *)

Waiting == {"wait", "update", "cmpxchg"}

\* Running: the results are those of its last death.
Running(c) ==
  /\ spc[c] = "idle"
  /\ state[c] \in {"ONLINE", "POST_DEAD", "DEAD_FROZEN"}

\* Going down, not yet reported: the survivor waits, or has timed out.
Dying(c) ==
  /\ reported[c] = "none"
  /\ \/ /\ spc[c] \in Waiting /\ waited[c] = "none"
        /\ state[c] \in {"ONLINE", "POST_DEAD", "DEAD_FROZEN"}
     \/ spc[c] = "idle" /\ waited[c] = "false" /\ state[c] = "BROKEN"

\* Reported: the survivor has yet to see it, has seen it, or timed out before.
Dead(c) ==
  \/ /\ spc[c] \in Waiting \cup {"set"} /\ state[c] = "DEAD"
     /\ waited[c] = "none" /\ reported[c] = "true"
  \/ /\ spc[c] \in {"idle", "up_prepare"} /\ state[c] = "POST_DEAD"
     /\ waited[c] = "true" /\ reported[c] = "true"
  \/ /\ spc[c] \in {"idle", "boot"} /\ state[c] = "DEAD_FROZEN"
     /\ waited[c] = "false" /\ reported[c] = "false"
  \/ spc[c] = "boot" /\ state[c] = "UP_PREPARE" /\ waited[c] = "true" /\ reported[c] = "true"

Phase(c) ==
  /\ opc[c] = "up" => Running(c) /\ waited[c] = reported[c] /\ waited[c] # "none"
  /\ opc[c] \in {"report", "cmpxchg"} => Dying(c)
  /\ opc[c] = "dead" => Dead(c)
  /\ spc[c] = "cmpxchg" => sold[c] # "DEAD"
  /\ check[c] # "EIO"

\* Strengthening of the safety properties that every step preserves.
Inv == TypeOK /\ \A c \in CPUS : Phase(c)

=============================================================================
