---------------------------- MODULE CpuDeathProofs ---------------------------
(***************************************************************************)
(* Proofs about CpuDeath, for any set of CPUs of either kind: the          *)
(* inductive invariant says in which states the word can be in each phase  *)
(* of a CPU's life, and the handshake's safety follows from it.            *)
(***************************************************************************)
EXTENDS CpuDeath, TLAPS

\* Every step of a CPU keeps the types.
LEMMA StepType ==
  ASSUME TypeOK, NEW c \in CPUS,
         \/ Down(c) \/ WaitStep(c) \/ ReportStep(c)
         \/ CheckUp(c) \/ UpPrepare(c) \/ Boot(c) \/ BootUnchecked(c)
  PROVE  TypeOK'
<1>1. CASE Down(c)
  BY <1>1 DEF TypeOK, Down, Set
<1>2. CASE WaitStep(c)
  BY <1>2 DEF TypeOK, WaitStep, Poll, UpdateRead, UpdateSet, UpdateCmpxchg, Set, CPU_STATES
<1>3. CASE ReportStep(c)
  BY <1>3 DEF TypeOK, ReportStep, ReportRead, ReportCmpxchg, Set, CPU_STATES
<1>4. CASE CheckUp(c)
  BY <1>4 DEF TypeOK, CheckUp, Set
<1>5. CASE UpPrepare(c) \/ Boot(c) \/ BootUnchecked(c)
  BY <1>5 DEF TypeOK, UpPrepare, Boot, BootUnchecked, Set, CPU_STATES
<1> QED
  BY <1>1, <1>2, <1>3, <1>4, <1>5

\* A step of one CPU's handshake leaves every other CPU's alone.
LEMMA StepFrame ==
  ASSUME TypeOK, NEW c \in CPUS, NEW d \in CPUS, d # c, Phase(d),
         \/ Down(c) \/ WaitStep(c) \/ ReportStep(c)
         \/ CheckUp(c) \/ UpPrepare(c) \/ Boot(c) \/ BootUnchecked(c)
  PROVE  Phase(d)'
<1>1. /\ state'[d] = state[d] /\ spc'[d] = spc[d] /\ opc'[d] = opc[d]
      /\ sold'[d] = sold[d] /\ waited'[d] = waited[d] /\ reported'[d] = reported[d]
      /\ check'[d] = check[d]
  BY DEF TypeOK, Down, WaitStep, Poll, UpdateRead, UpdateSet, UpdateCmpxchg, ReportStep,
     ReportRead, ReportCmpxchg, CheckUp, UpPrepare, Boot, BootUnchecked, Set
<1> QED
  BY <1>1 DEF Phase, Running, Dying, Dead

\* Each step of a CPU leads from a phase of its life to a phase of its life.
LEMMA StepPhase ==
  ASSUME TypeOK, NEW c \in CPUS, Phase(c),
         \/ Down(c) \/ WaitStep(c) \/ ReportStep(c)
         \/ CheckUp(c) \/ UpPrepare(c) \/ Boot(c) \/ BootUnchecked(c)
  PROVE  Phase(c)'
<1> USE DEF Phase, Running, Dying, Dead, Waiting
<1>1. CASE Down(c)
  BY <1>1 DEF TypeOK, Down, Set
<1>2. CASE Poll(c)
  BY <1>2 DEF TypeOK, Poll, Set
<1>3. CASE UpdateRead(c)
  BY <1>3 DEF TypeOK, UpdateRead, Set
<1>4. CASE UpdateSet(c)
  BY <1>4 DEF TypeOK, UpdateSet, Set
<1>5. CASE UpdateCmpxchg(c)
  BY <1>5 DEF TypeOK, UpdateCmpxchg, Set
<1>6. CASE ReportRead(c)
  BY <1>6 DEF TypeOK, ReportRead, Set
<1>7. CASE ReportCmpxchg(c)
  BY <1>7 DEF TypeOK, ReportCmpxchg, Set
<1>8. CASE CheckUp(c)
  BY <1>8 DEF TypeOK, CheckUp, Set
<1>9. CASE UpPrepare(c)
  BY <1>9 DEF TypeOK, UpPrepare, Set
<1>10. CASE Boot(c)
  BY <1>10 DEF TypeOK, Boot, Set
<1>11. CASE BootUnchecked(c)
  BY <1>11 DEF TypeOK, BootUnchecked, Set
<1> QED
  BY <1>1, <1>2, <1>3, <1>4, <1>5, <1>6, <1>7, <1>8, <1>9, <1>10, <1>11
     DEF WaitStep, ReportStep

\* The invariant holds in every reachable state of any number of CPUs.
THEOREM Invariance == Spec => []Inv
<1>1. Init => Inv
  BY DEF Init, Inv, TypeOK, CPU_STATES, Phase, Running, Dying, Dead, Waiting
<1>2. Inv /\ [Next]_vars => Inv'
  <2> SUFFICES ASSUME Inv, [Next]_vars PROVE Inv'
    OBVIOUS
  <2>1. ASSUME NEW c \in CPUS,
               \/ Down(c) \/ WaitStep(c) \/ ReportStep(c)
               \/ CheckUp(c) \/ UpPrepare(c) \/ Boot(c) \/ BootUnchecked(c)
        PROVE  Inv'
    <3>1. TypeOK'
      BY <2>1, StepType DEF Inv
    <3>2. ASSUME NEW d \in CPUS PROVE Phase(d)'
      BY <2>1, StepFrame, StepPhase DEF Inv
    <3> QED
      BY <3>1, <3>2 DEF Inv
  <2>2. CASE UNCHANGED vars
    BY <2>2 DEF vars, Inv, TypeOK, Phase, Running, Dying, Dead
  <2> QED
    BY <2>1, <2>2 DEF Next
<1> QED
  BY <1>1, <1>2, PTL DEF Spec

\* cpu_wait_death and cpu_report_death agree on whether the CPU died in time,
\* wherever the timeout falls.
THEOREM SidesAgree == Spec => []Agreement
<1>1. Inv => Agreement
  BY DEF Inv, TypeOK, Phase, Running, Dying, Dead, Waiting, Agreement
<1> QED
  BY <1>1, Invariance, PTL

\* No CPU is started that has not finished dying.
THEOREM StartsTheDead == Spec => []UpOnlyDead
<1>1. Inv => UpOnlyDead
  BY DEF Inv, TypeOK, Phase, Running, Dying, Dead, Waiting, UpOnlyDead
<1> QED
  BY <1>1, Invariance, PTL

\* cpu_check_up_prepare returns the code its comment promises, and never -EIO.
THEOREM CheckIsHonest == Spec => CheckTells
<1>1. ASSUME Inv, NEW c \in CPUS, CheckUp(c)
      PROVE  CASE check'[c] = "0" -> waited[c] = "true" /\ opc[c] = "dead"
               [] check'[c] = "EBUSY" -> waited[c] = "false" /\ opc[c] = "dead"
               [] check'[c] = "EAGAIN" -> waited[c] = "false" /\ opc[c] # "dead"
               [] OTHER -> FALSE
  <2>1. check'[c] = CASE state[c] = "POST_DEAD" -> "0"
                      [] state[c] = "DEAD_FROZEN" -> "EBUSY"
                      [] state[c] = "BROKEN" -> "EAGAIN"
                      [] OTHER -> "EIO"
    BY <1>1 DEF Inv, TypeOK, CheckUp, Set
  <2>2. spc[c] = "idle" /\ opc[c] # "up"
    BY <1>1 DEF CheckUp
  <2>3. \/ opc[c] # "dead" /\ waited[c] = "false" /\ state[c] = "BROKEN"
        \/ opc[c] = "dead" /\ waited[c] = "true" /\ state[c] = "POST_DEAD"
        \/ opc[c] = "dead" /\ waited[c] = "false" /\ state[c] = "DEAD_FROZEN"
    BY <1>1, <2>2 DEF Inv, TypeOK, Phase, Dying, Dead, Waiting
  <2> QED
    BY <2>1, <2>3
<1>2. Inv /\ [Next]_vars =>
        [\A c \in CPUS : CheckUp(c) =>
           CASE check'[c] = "0" -> waited[c] = "true" /\ opc[c] = "dead"
             [] check'[c] = "EBUSY" -> waited[c] = "false" /\ opc[c] = "dead"
             [] check'[c] = "EAGAIN" -> waited[c] = "false" /\ opc[c] # "dead"
             [] OTHER -> FALSE]_vars
  BY <1>1
<1> QED
  BY <1>2, Invariance, PTL DEF Spec, CheckTells

=============================================================================
