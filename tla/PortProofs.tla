----------------------------- MODULE PortProofs -----------------------------
(***************************************************************************)
(* Proofs about the context switch of the port, for any number of tasks,   *)
(* any registers and any depth of critical sections.                       *)
(***************************************************************************)
EXTENDS Atomic, TLAPS

Places == {"ret", "a", "b", "read", "read_again"}
Stages == {"save", "save_mepc", "handle", "mepc", "mstatus", "mret"}

Code  == [of : Task \cup {NoTask}, at : Places \cup Stages \cup {"main"}]
Frame == [pc : [of : Task, at : Places], regs : Registers,
          mie : BOOLEAN, mpie : BOOLEAN, mpp : BOOLEAN]

Types ==
  /\ PortTypeOK
  /\ code \in Code /\ mepc \in Code
  /\ frame \in [Task -> Frame \cup {NoFrame}]
  /\ own \in [Task -> [at : Places, regs : Registers]]
  /\ yielded \subseteq Task

\* Who runs: main, the handler, or the task that is the current one.
Whose ==
  /\ code.of = NoTask <=> code.at \notin Places
  /\ code.of \in Task => code.of = pxCurrentTCB
  /\ code.at # "main" => pxCurrentTCB \in Task /\ frame[pxCurrentTCB] \in Frame

\* mstatus as a frame holds it: off until the mret, on after it, machine mode.
Returns(off, on, machine) == off = FALSE /\ on = TRUE /\ machine = TRUE

\* The context of t has been saved, whole.
Saved(t) ==
  /\ frame[t] \in Frame
  /\ frame[t].pc = At(t, own[t].at) /\ frame[t].regs = own[t].regs
  /\ Returns(frame[t].mie, frame[t].mpie, frame[t].mpp)

\* A context is out of date for the current task alone, until it has been saved.
Contexts ==
  \A t \in Task :
    \/ frame[t] = NoFrame /\ own[t] = [at |-> "a", regs |-> Cleared]
    \/ t = pxCurrentTCB /\ code.at \in Places \cup {"save", "save_mepc"}
    \/ Saved(t)

MainRuns ==
  code.at = "main" =>
    /\ mie = FALSE /\ regs = Cleared
    /\ pxCurrentTCB = NoTask \/ frame[pxCurrentTCB] \in Frame
    /\ \A t \in Task : own[t] = [at |-> "a", regs |-> Cleared]

TaskRuns ==
  code.of \in Task => own[code.of] = [at |-> code.at, regs |-> regs]

\* What the trap has left in mepc.
Trapped ==
  IF ecall THEN mepc = At(pxCurrentTCB, "a") /\ own[pxCurrentTCB].at = "b"
  ELSE mepc = At(pxCurrentTCB, own[pxCurrentTCB].at)

HandlerRuns ==
  /\ code.at \in Stages => mie = FALSE
  /\ code.at = "save" => Trapped /\ Returns(mie, mpie, mpp) /\ regs = own[pxCurrentTCB].regs
  /\ code.at = "save_mepc" =>
       /\ Trapped
       /\ frame[pxCurrentTCB].regs = own[pxCurrentTCB].regs
       /\ Returns(frame[pxCurrentTCB].mie, frame[pxCurrentTCB].mpie, frame[pxCurrentTCB].mpp)
  /\ code.at \in {"mstatus", "mret"} => mepc = At(pxCurrentTCB, own[pxCurrentTCB].at)
  /\ code.at = "mret" => Returns(mie, mpie, mpp) /\ regs = own[pxCurrentTCB].regs

\* A task that does not run is outside of critical sections, or has yielded in one.
Nested ==
  \A t \in Task :
    t \notin yielded =>
      IF code.of = t THEN mie = (uxCriticalNesting[t] = 0) ELSE uxCriticalNesting[t] = 0

IInv ==
  /\ Types /\ mode = TRUE
  /\ Whose /\ Contexts /\ MainRuns /\ TaskRuns /\ HandlerRuns /\ Nested
-----------------------------------------------------------------------------
LEMMA ClearedType == Cleared \in Registers /\ Registers # {}
<1>1. PICK w \in Word : TRUE
  BY PortAssumption
<1>2. [first |-> w, second |-> w] \in Registers
  BY DEF Registers
<1>3. \E r \in Registers : r.first = r.second
  BY <1>2
<1> QED
  BY <1>2, <1>3 DEF Cleared

LEMMA NoFrameIsNone == NoFrame \notin Frame
BY PortAssumption DEF NoFrame, Frame, At

LEMMA InitInv == PortInit => IInv
<1> SUFFICES ASSUME PortInit PROVE IInv
  OBVIOUS
<1> USE PortAssumption, ClearedType DEF PortInit, At
<1>1. Types
  <2>1. PortTypeOK
    <3>1. uxCriticalNesting \in [Task -> 0..MaxNesting]
      BY DEF PortAssumption
    <3> QED
      BY <3>1 DEF PortTypeOK
  <2>2. code \in Code /\ mepc \in Code
    BY DEF Code
  <2>3. own \in [Task -> [at : Places, regs : Registers]]
    BY DEF Places
  <2> QED
    BY <2>1, <2>2, <2>3 DEF Types
<1>2. Whose
  BY DEF Whose, Places
<1>3. Contexts /\ MainRuns /\ TaskRuns /\ HandlerRuns /\ Nested
  BY DEF Contexts, MainRuns, TaskRuns, HandlerRuns, Nested, Stages
<1> QED
  BY <1>1, <1>2, <1>3 DEF IInv

-----------------------------------------------------------------------------
(***************************************************************************)
(* The traps.  What a trap leaves is what the handler expects.             *)
(***************************************************************************)
LEMMA TrapInv ==
  ASSUME IInv, NEW t \in Task, code.of = t,
         NEW isEcall \in BOOLEAN, Trap(isEcall),
         UNCHANGED <<pxCurrentTCB, frame, uxCriticalNesting>>,
         own' \in [Task -> [at : Places, regs : Registers]],
         \A u \in Task \ {t} : own'[u] = own[u],
         own'[t].regs = regs,
         IF isEcall THEN code.at = "a" /\ own'[t].at = "b" ELSE own'[t].at = code.at,
         yielded' \in SUBSET Task, yielded \subseteq yielded',
         t \in yielded' \/ uxCriticalNesting[t] = 0
  PROVE  IInv'
<1> USE PortAssumption
<1>1. /\ mie' = FALSE /\ mpie' = TRUE /\ mpp' = TRUE /\ mode' = TRUE
      /\ mepc' = code /\ ecall' = isEcall /\ code' = At(NoTask, "save") /\ regs' = regs
  BY DEF Trap, IInv
<1>2. t = pxCurrentTCB /\ code = At(t, code.at) /\ code.at \in Places
  BY DEF IInv, Whose, Types, Code, At
<1>3. Types'
  BY <1>1 DEF IInv, Types, PortTypeOK, Code, At, Stages
<1>4. Whose'
  BY <1>1, <1>2 DEF IInv, Whose, At, Places
<1>5. Contexts'
  <2> SUFFICES ASSUME NEW u \in Task, u # t
               PROVE  (frame[u] = NoFrame /\ own'[u] = [at |-> "a", regs |-> Cleared]) \/ Saved(u)'
    BY <1>1, <1>2 DEF Contexts, At
  <2> QED
    BY <1>2 DEF IInv, Contexts, Saved, Returns, At
<1>6. MainRuns' /\ TaskRuns'
  BY <1>1 DEF MainRuns, TaskRuns, At
<1>7. HandlerRuns'
  BY <1>1, <1>2 DEF HandlerRuns, Trapped, Returns, At
<1>8. Nested'
  BY <1>1, <1>2 DEF IInv, Nested, At
<1> QED
  BY <1>1, <1>3, <1>4, <1>5, <1>6, <1>7, <1>8 DEF IInv

LEMMA InterruptInv == IInv /\ Interrupt => IInv'
<1> SUFFICES ASSUME IInv, Interrupt PROVE IInv'
  OBVIOUS
<1>1. mie /\ Trap(FALSE) /\ UNCHANGED <<pxCurrentTCB, frame, uxCriticalNesting, own, yielded>>
  BY DEF Interrupt, ghosts
<1>2. code.of \in Task
  BY <1>1, PortAssumption DEF IInv, Types, Code, Whose, MainRuns, HandlerRuns
<1> DEFINE t == code.of
<1>3. own \in [Task -> [at : Places, regs : Registers]] /\ own[t] = [at |-> code.at, regs |-> regs]
  BY <1>2 DEF IInv, Types, TaskRuns
<1>4. yielded \in SUBSET Task /\ (t \in yielded \/ uxCriticalNesting[t] = 0)
  BY <1>1, <1>2 DEF IInv, Types, Nested
<1>5. /\ own' \in [Task -> [at : Places, regs : Registers]]
      /\ \A u \in Task \ {t} : own'[u] = own[u]
      /\ own'[t].regs = regs /\ own'[t].at = code.at
  BY <1>1, <1>3
<1>6. /\ yielded' \in SUBSET Task /\ yielded \subseteq yielded'
      /\ t \in yielded' \/ uxCriticalNesting[t] = 0
  BY <1>1, <1>4
<1>7. UNCHANGED <<pxCurrentTCB, frame, uxCriticalNesting>> /\ FALSE \in BOOLEAN
  BY <1>1
<1> HIDE DEF t
<1>8. t \in Task /\ code.of = t
  BY <1>2 DEF t
<1> QED
  BY <1>1, <1>5, <1>6, <1>7, <1>8, TrapInv

LEMMA YieldInv == ASSUME NEW t \in Task PROVE IInv /\ portYIELD(t) => IInv'
<1> SUFFICES ASSUME IInv, portYIELD(t) PROVE IInv'
  OBVIOUS
<1>1. /\ code.of = t /\ code.at = "a" /\ Trap(TRUE)
      /\ UNCHANGED <<pxCurrentTCB, frame, uxCriticalNesting>>
      /\ own' = [own EXCEPT ![t].at = "b"]
      /\ yielded' = IF uxCriticalNesting[t] > 0 THEN yielded \cup {t} ELSE yielded
  BY DEF portYIELD, Runs
<1>2. own \in [Task -> [at : Places, regs : Registers]] /\ own[t] = [at |-> code.at, regs |-> regs]
  BY <1>1 DEF IInv, Types, TaskRuns
<1>3. /\ own' \in [Task -> [at : Places, regs : Registers]]
      /\ \A u \in Task \ {t} : own'[u] = own[u]
      /\ own'[t].regs = regs /\ own'[t].at = "b"
  BY <1>1, <1>2 DEF Places
<1>4. uxCriticalNesting[t] \in 0..MaxNesting /\ yielded \subseteq Task
  BY DEF IInv, Types, PortTypeOK
<1>5. t \in yielded' \/ uxCriticalNesting[t] = 0
  BY <1>1, <1>4, PortAssumption
<1>6. yielded' \in SUBSET Task /\ yielded \subseteq yielded'
  BY <1>1, <1>4
<1> QED
  BY <1>1, <1>3, <1>5, <1>6, TrapInv

-----------------------------------------------------------------------------
(***************************************************************************)
(* The steps of the handler.                                               *)
(***************************************************************************)
LEMMA SaveInv == IInv /\ Save => IInv'
<1> SUFFICES ASSUME IInv, Save PROVE IInv'
  OBVIOUS
<1> USE PortAssumption
<1> DEFINE t == pxCurrentTCB
<1>1. /\ code.at = "save" /\ code' = [code EXCEPT !.at = "save_mepc"]
      /\ frame' = [frame EXCEPT ![t] =
                     [@ EXCEPT !.regs = regs, !.mie = mie, !.mpie = mpie, !.mpp = mpp]]
      /\ UNCHANGED <<mode, mie, mpie, mpp, mepc, ecall, regs, pxCurrentTCB,
                     uxCriticalNesting, own, yielded>>
  BY DEF Save, HandlerGoesOn, mstatus, ghosts
<1>2. /\ t \in Task /\ frame[t] \in Frame /\ code.of = NoTask /\ code \in Code
      /\ regs \in Registers /\ {mie, mpie, mpp} \subseteq BOOLEAN
      /\ frame \in [Task -> Frame \cup {NoFrame}]
  BY <1>1 DEF IInv, Types, Whose, Places, PortTypeOK
<1>3. code' \in Code /\ code'.of = NoTask /\ code'.at = "save_mepc"
  BY <1>1, <1>2 DEF Code, Stages
<1>4. /\ frame'[t] \in Frame /\ frame'[t].pc = frame[t].pc /\ frame'[t].regs = regs
      /\ frame'[t].mie = mie /\ frame'[t].mpie = mpie /\ frame'[t].mpp = mpp
  BY <1>1, <1>2 DEF Frame
<1>5. frame' \in [Task -> Frame \cup {NoFrame}] /\ \A u \in Task \ {t} : frame'[u] = frame[u]
  BY <1>1, <1>2, <1>4
<1>6. Types'
  BY <1>1, <1>3, <1>5 DEF IInv, Types, PortTypeOK
<1>7. Whose'
  BY <1>1, <1>2, <1>3, <1>4 DEF Whose, Places
<1>8. Contexts'
  <2> SUFFICES ASSUME NEW u \in Task, u # t
               PROVE  (frame'[u] = NoFrame /\ own[u] = [at |-> "a", regs |-> Cleared]) \/ Saved(u)'
    BY <1>1, <1>2, <1>3 DEF Contexts
  <2> QED
    BY <1>1, <1>5 DEF IInv, Contexts, Saved, Returns, At
<1>9. MainRuns' /\ TaskRuns'
  BY <1>3 DEF MainRuns, TaskRuns
<1>10. HandlerRuns'
  BY <1>1, <1>3, <1>4 DEF IInv, HandlerRuns, Trapped, Returns, At, Stages
<1>11. Nested'
  BY <1>1, <1>2, <1>3 DEF IInv, Nested
<1> QED
  BY <1>1, <1>6, <1>7, <1>8, <1>9, <1>10, <1>11 DEF IInv

LEMMA SaveMepcInv == IInv /\ SaveMepc => IInv'
<1> SUFFICES ASSUME IInv, SaveMepc PROVE IInv'
  OBVIOUS
<1> USE PortAssumption
<1> DEFINE t == pxCurrentTCB
           back == IF ecall THEN [mepc EXCEPT !.at = "b"] ELSE mepc
<1>1. /\ code.at = "save_mepc" /\ code' = [code EXCEPT !.at = "handle"]
      /\ frame' = [frame EXCEPT ![t].pc = back]
      /\ UNCHANGED <<mode, mie, mpie, mpp, mepc, ecall, regs, pxCurrentTCB,
                     uxCriticalNesting, own, yielded>>
  BY DEF SaveMepc, HandlerGoesOn, mstatus, ghosts
<1>2. /\ t \in Task /\ frame[t] \in Frame /\ code.of = NoTask /\ code \in Code
      /\ frame \in [Task -> Frame \cup {NoFrame}] /\ own[t].at \in Places
  BY <1>1 DEF IInv, Types, Whose, Places
<1>3. code' \in Code /\ code'.of = NoTask /\ code'.at = "handle"
  BY <1>1, <1>2 DEF Code, Stages
<1>4. back = At(t, own[t].at)
  BY <1>1 DEF IInv, HandlerRuns, Trapped, At
<1>5. /\ frame'[t] \in Frame /\ frame'[t].pc = back /\ frame'[t].regs = frame[t].regs
      /\ frame'[t].mie = frame[t].mie /\ frame'[t].mpie = frame[t].mpie
      /\ frame'[t].mpp = frame[t].mpp
  <2>1. back \in [of : Task, at : Places]
    BY <1>2, <1>4 DEF At
  <2> QED
    BY <2>1, <1>1, <1>2 DEF Frame
<1>6. frame' \in [Task -> Frame \cup {NoFrame}] /\ \A u \in Task \ {t} : frame'[u] = frame[u]
  BY <1>1, <1>2, <1>5
<1>7. Types'
  BY <1>1, <1>3, <1>6 DEF IInv, Types, PortTypeOK
<1>8. Whose'
  BY <1>1, <1>2, <1>3, <1>5 DEF Whose, Places
<1>9. Saved(t)'
  BY <1>1, <1>4, <1>5 DEF IInv, HandlerRuns, Saved, Returns, At
<1>10. Contexts'
  <2> SUFFICES ASSUME NEW u \in Task, u # t
               PROVE  (frame'[u] = NoFrame /\ own[u] = [at |-> "a", regs |-> Cleared]) \/ Saved(u)'
    BY <1>1, <1>9 DEF Contexts
  <2> QED
    BY <1>1, <1>6 DEF IInv, Contexts, Saved, Returns, At
<1>11. MainRuns' /\ TaskRuns'
  BY <1>3 DEF MainRuns, TaskRuns
<1>12. HandlerRuns'
  BY <1>1, <1>3 DEF IInv, HandlerRuns, Stages
<1>13. Nested'
  BY <1>1, <1>2, <1>3 DEF IInv, Nested
<1> QED
  BY <1>1, <1>7, <1>8, <1>10, <1>11, <1>12, <1>13 DEF IInv

\* Whichever task is chosen, its context is saved.
LEMMA SavedAll ==
  ASSUME IInv, code.at \in {"handle", "mepc", "mstatus", "mret"}, NEW t \in Task,
         frame[t] \in Frame
  PROVE  Saved(t)
BY NoFrameIsNone DEF IInv, Contexts, Places

LEMMA HandleInv == IInv /\ Handle => IInv'
<1> SUFFICES ASSUME IInv, Handle PROVE IInv'
  OBVIOUS
<1> USE PortAssumption
<1>1. /\ code.at = "handle" /\ code' = [code EXCEPT !.at = "mepc"]
      /\ pxCurrentTCB' \in Created /\ regs' = Cleared
      /\ UNCHANGED <<mode, mie, mpie, mpp, mepc, ecall, frame, uxCriticalNesting, own, yielded>>
  BY DEF Handle, HandlerGoesOn, mstatus, ghosts
<1>2. pxCurrentTCB' \in Task /\ frame'[pxCurrentTCB'] \in Frame
  BY <1>1 DEF IInv, Types, Created
<1>3. code' \in Code /\ code'.of = NoTask /\ code'.at = "mepc"
  BY <1>1 DEF IInv, Types, Whose, Code, Stages, Places
<1>4. Types'
  BY <1>1, <1>2, <1>3, ClearedType DEF IInv, Types, PortTypeOK
<1>5. Whose'
  BY <1>2, <1>3 DEF Whose, Places
<1>6. Contexts'
  BY <1>1 DEF IInv, Contexts, Saved, Returns, At, Places
<1>7. MainRuns' /\ TaskRuns'
  BY <1>3 DEF MainRuns, TaskRuns
<1>8. HandlerRuns'
  BY <1>1, <1>3 DEF IInv, HandlerRuns, Stages
<1>9. Nested'
  BY <1>1, <1>3 DEF IInv, Types, Whose, Nested, Places
<1> QED
  BY <1>1, <1>4, <1>5, <1>6, <1>7, <1>8, <1>9 DEF IInv

LEMMA RestoreMepcInv == IInv /\ RestoreMepc => IInv'
<1> SUFFICES ASSUME IInv, RestoreMepc PROVE IInv'
  OBVIOUS
<1> USE PortAssumption
<1> DEFINE t == pxCurrentTCB
<1>1. /\ code.at = "mepc" /\ code' = [code EXCEPT !.at = "mstatus"]
      /\ mepc' = frame[t].pc
      /\ UNCHANGED <<mode, mie, mpie, mpp, ecall, regs, pxCurrentTCB, frame,
                     uxCriticalNesting, own, yielded>>
  BY DEF RestoreMepc, HandlerGoesOn, mstatus, ghosts
<1>2. t \in Task /\ frame[t] \in Frame /\ code.of = NoTask
  BY <1>1 DEF IInv, Whose, Places
<1>3. code' \in Code /\ code'.of = NoTask /\ code'.at = "mstatus"
  BY <1>1, <1>2 DEF IInv, Types, Code, Stages
<1>4. mepc' = At(t, own[t].at) /\ mepc' \in Code
  BY <1>1, <1>2, SavedAll DEF Saved, Frame, Code
<1>5. Types'
  BY <1>1, <1>3, <1>4 DEF IInv, Types, PortTypeOK
<1>6. Whose'
  BY <1>1, <1>2, <1>3 DEF Whose, Places
<1>7. Contexts'
  BY <1>1 DEF IInv, Contexts, Saved, Returns, At, Places
<1>8. MainRuns' /\ TaskRuns'
  BY <1>3 DEF MainRuns, TaskRuns
<1>9. HandlerRuns'
  BY <1>1, <1>3, <1>4 DEF IInv, HandlerRuns, Stages, At
<1>10. Nested'
  BY <1>1, <1>2, <1>3 DEF IInv, Nested
<1> QED
  BY <1>1, <1>5, <1>6, <1>7, <1>8, <1>9, <1>10 DEF IInv

LEMMA RestoreMstatusInv == IInv /\ RestoreMstatus => IInv'
<1> SUFFICES ASSUME IInv, RestoreMstatus PROVE IInv'
  OBVIOUS
<1> USE PortAssumption
<1> DEFINE t == pxCurrentTCB
<1>1. /\ code.at = "mstatus" /\ code' = [code EXCEPT !.at = "mret"]
      /\ mie' = frame[t].mie /\ mpie' = frame[t].mpie /\ mpp' = frame[t].mpp
      /\ regs' = frame[t].regs
      /\ UNCHANGED <<mode, mepc, ecall, pxCurrentTCB, frame, uxCriticalNesting, own, yielded>>
  BY DEF RestoreMstatus, HandlerGoesOn, ghosts
<1>2. t \in Task /\ frame[t] \in Frame /\ code.of = NoTask
  BY <1>1 DEF IInv, Whose, Places
<1>3. code' \in Code /\ code'.of = NoTask /\ code'.at = "mret"
  BY <1>1, <1>2 DEF IInv, Types, Code, Stages
<1>4. Returns(mie', mpie', mpp') /\ regs' = own[t].regs /\ regs' \in Registers
  BY <1>1, <1>2, SavedAll DEF Saved, Frame, Returns
<1>5. Types'
  BY <1>1, <1>3, <1>4 DEF IInv, Types, PortTypeOK, Returns
<1>6. Whose'
  BY <1>1, <1>2, <1>3 DEF Whose, Places
<1>7. Contexts'
  BY <1>1 DEF IInv, Contexts, Saved, Returns, At, Places
<1>8. MainRuns' /\ TaskRuns'
  BY <1>3 DEF MainRuns, TaskRuns
<1>9. HandlerRuns'
  BY <1>1, <1>3, <1>4 DEF IInv, HandlerRuns, Stages, At, Returns
<1>10. Nested'
  BY <1>1, <1>2, <1>3 DEF IInv, Nested
<1> QED
  BY <1>1, <1>5, <1>6, <1>7, <1>8, <1>9, <1>10 DEF IInv

LEMMA MretInv == IInv /\ Mret => IInv'
<1> SUFFICES ASSUME IInv, Mret PROVE IInv'
  OBVIOUS
<1> USE PortAssumption
<1> DEFINE t == pxCurrentTCB
<1>1. /\ code.at = "mret" /\ mie' = mpie /\ mpie' = TRUE /\ mpp' = FALSE /\ mode' = mpp
      /\ code' = mepc
      /\ UNCHANGED <<mepc, ecall, regs, pxCurrentTCB, frame, uxCriticalNesting, own, yielded>>
  BY DEF Mret, ghosts
<1>2. t \in Task /\ frame[t] \in Frame /\ code.of = NoTask /\ own[t] \in [at : Places, regs : Registers]
  BY <1>1 DEF IInv, Types, Whose, Places
<1>3. /\ code' = At(t, own[t].at) /\ regs = own[t].regs /\ mpie = TRUE /\ mpp = TRUE
      /\ own[t].at \in Places
  BY <1>1, <1>2 DEF IInv, HandlerRuns, Returns
<1>4. Types'
  BY <1>1, <1>3 DEF IInv, Types, PortTypeOK
<1>5. Whose'
  BY <1>1, <1>2, <1>3 DEF Whose, Places, At
<1>6. Contexts'
  BY <1>1 DEF IInv, Contexts, Saved, Returns, At, Places
<1>7. MainRuns' /\ HandlerRuns'
  BY <1>3 DEF MainRuns, HandlerRuns, Stages, Places, At
<1>8. TaskRuns'
  BY <1>1, <1>2, <1>3 DEF TaskRuns, At
<1>9. Nested'
  BY <1>1, <1>2, <1>3 DEF IInv, Nested, At
<1> QED
  BY <1>1, <1>3, <1>4, <1>5, <1>6, <1>7, <1>8, <1>9 DEF IInv

LEMMA HandlerInv == IInv /\ TrapHandler => IInv'
BY SaveInv, SaveMepcInv, HandleInv, RestoreMepcInv, RestoreMstatusInv, MretInv DEF TrapHandler

-----------------------------------------------------------------------------
(***************************************************************************)
(* main and the tasks.                                                     *)
(***************************************************************************)
LEMMA CreateInv == ASSUME NEW t \in Task PROVE IInv /\ Create(t) => IInv'
<1> SUFFICES ASSUME IInv, Create(t) PROVE IInv'
  OBVIOUS
<1> USE PortAssumption
<1> DEFINE f == pxPortInitialiseStack(t)
<1>1. /\ code.at \in {"main", "a", "b"} /\ frame[t] = NoFrame
      /\ frame' = [frame EXCEPT ![t] = f]
      /\ pxCurrentTCB' \in IF code.at = "main" THEN Created \cup {t} ELSE {pxCurrentTCB}
      /\ UNCHANGED <<mode, mie, mpie, mpp, mepc, ecall, code, regs, uxCriticalNesting, own, yielded>>
  BY DEF Create, hart, mstatus, ghosts
<1>2. /\ f \in Frame /\ f.pc = At(t, "a") /\ f.regs = Cleared
      /\ Returns(f.mie, f.mpie, f.mpp)
  BY ClearedType DEF pxPortInitialiseStack, Frame, Places, At, Returns
<1> HIDE DEF f
<1>3. /\ frame' \in [Task -> Frame \cup {NoFrame}] /\ frame'[t] = f
      /\ \A u \in Task \ {t} : frame'[u] = frame[u]
  BY <1>1, <1>2 DEF IInv, Types
<1>4. /\ code.at # "main" => pxCurrentTCB' = pxCurrentTCB
      /\ code.at = "main" => pxCurrentTCB' \in Task /\ frame'[pxCurrentTCB'] \in Frame
  BY <1>1, <1>2, <1>3 DEF Created, IInv, Types
<1>5. Types'
  BY <1>1, <1>3, <1>4 DEF IInv, Types, PortTypeOK
<1>6. Whose'
  BY <1>1, <1>2, <1>3, <1>4 DEF IInv, Whose, Places
<1>7. own[t] = [at |-> "a", regs |-> Cleared]
  <2>1. CASE code.at = "main"
    BY <2>1 DEF IInv, MainRuns
  <2>2. CASE code.at # "main"
    BY <2>2, <1>1, NoFrameIsNone DEF IInv, Whose, Contexts, Saved
  <2> QED
    BY <2>1, <2>2
<1>8. Contexts'
  <2>1. Saved(t)'
    BY <1>1, <1>2, <1>3, <1>7 DEF Saved
  <2>2. ASSUME NEW u \in Task, u # t
        PROVE  \/ frame'[u] = NoFrame /\ own'[u] = [at |-> "a", regs |-> Cleared]
               \/ u = pxCurrentTCB' /\ code'.at \in Places \cup {"save", "save_mepc"}
               \/ Saved(u)'
    <3>1. frame'[u] = frame[u] /\ own'[u] = own[u]
      BY <1>1, <1>3, <2>2
    <3>2. Saved(u) => Saved(u)'
      BY <3>1 DEF Saved
    <3> QED
      BY <1>1, <1>4, <3>1, <3>2 DEF IInv, Contexts, Places
  <2> QED
    BY <2>1, <2>2 DEF Contexts
<1>9. MainRuns' /\ TaskRuns'
  BY <1>1, <1>4 DEF IInv, MainRuns, TaskRuns
<1>10. HandlerRuns'
  BY <1>1 DEF HandlerRuns, Stages
<1>11. Nested'
  BY <1>1 DEF IInv, Nested
<1> QED
  BY <1>1, <1>5, <1>6, <1>8, <1>9, <1>10, <1>11 DEF IInv

LEMMA StartInv == IInv /\ xPortStartScheduler => IInv'
<1> SUFFICES ASSUME IInv, xPortStartScheduler PROVE IInv'
  OBVIOUS
<1> USE PortAssumption
<1> DEFINE t == pxCurrentTCB
<1>1. /\ code.at = "main" /\ t # NoTask
      /\ mie' = TRUE /\ mpie' = frame[t].mpie /\ mpp' = frame[t].mpp
      /\ code' = At(t, "ret") /\ own' = [own EXCEPT ![t].at = "ret"]
      /\ UNCHANGED <<mode, mepc, ecall, regs, pxCurrentTCB, frame, uxCriticalNesting, yielded>>
  BY DEF xPortStartScheduler
<1>2. /\ t \in Task /\ frame[t] \in Frame /\ regs = Cleared
      /\ own \in [Task -> [at : Places, regs : Registers]]
      /\ own[t] = [at |-> "a", regs |-> Cleared] /\ code.of = NoTask
  BY <1>1 DEF IInv, Types, PortTypeOK, MainRuns, Whose, Places
<1>3. /\ own' \in [Task -> [at : Places, regs : Registers]]
      /\ own'[t] = [at |-> "ret", regs |-> regs]
      /\ \A u \in Task \ {t} : own'[u] = own[u]
  BY <1>1, <1>2 DEF Places
<1>4. Types'
  BY <1>1, <1>2, <1>3 DEF IInv, Types, PortTypeOK, Frame, Code, At, Places
<1>5. Whose'
  BY <1>1, <1>2 DEF Whose, Places, At
<1>6. Contexts'
  <2> SUFFICES ASSUME NEW u \in Task, u # t
               PROVE  (frame[u] = NoFrame /\ own'[u] = [at |-> "a", regs |-> Cleared]) \/ Saved(u)'
    BY <1>1 DEF Contexts, At, Places
  <2> QED
    BY <1>1, <1>3 DEF IInv, Contexts, Saved, Places
<1>7. MainRuns' /\ HandlerRuns'
  BY <1>1 DEF MainRuns, HandlerRuns, Stages, At
<1>8. TaskRuns'
  BY <1>1, <1>3 DEF TaskRuns, At
<1>9. Nested'
  BY <1>1, <1>2 DEF IInv, Nested, At
<1> QED
  BY <1>1, <1>4, <1>5, <1>6, <1>7, <1>8, <1>9 DEF IInv

\* A step of a task in its own code, in a critical section or not.
LEMMA TaskInv ==
  ASSUME IInv, NEW t \in Task,
         NEW from \in SUBSET Places, NEW to \in Places, NEW r \in Registers,
         TaskGoesOn(t, from, to, r),
         UNCHANGED <<mpie, mpp>>, mie' \in BOOLEAN,
         uxCriticalNesting' \in [Task -> 0..MaxNesting],
         \A u \in Task \ {t} : uxCriticalNesting'[u] = uxCriticalNesting[u],
         yielded' \subseteq Task, yielded \subseteq yielded' \cup {t},
         t \notin yielded' => mie' = (uxCriticalNesting'[t] = 0)
  PROVE  IInv'
<1> USE PortAssumption
<1>1. /\ code.of = t /\ code.at \in from /\ code' = At(t, to) /\ regs' = r
      /\ own' = [own EXCEPT ![t] = [at |-> to, regs |-> r]]
      /\ UNCHANGED <<mode, mepc, ecall, pxCurrentTCB, frame>>
  BY DEF TaskGoesOn, Runs
<1>2. t = pxCurrentTCB /\ regs \in Registers /\ own \in [Task -> [at : Places, regs : Registers]]
  BY <1>1 DEF IInv, Whose, Types, PortTypeOK
<1>3. /\ own' \in [Task -> [at : Places, regs : Registers]]
      /\ own'[t] = [at |-> to, regs |-> r]
      /\ \A u \in Task \ {t} : own'[u] = own[u]
  BY <1>1, <1>2
<1>4. Types'
  BY <1>1, <1>3 DEF IInv, Types, PortTypeOK, Code, At
<1>5. Whose'
  BY <1>1, <1>2 DEF IInv, Whose, Places, At
<1>6. Contexts'
  <2> SUFFICES ASSUME NEW u \in Task, u # t
               PROVE  (frame[u] = NoFrame /\ own'[u] = [at |-> "a", regs |-> Cleared]) \/ Saved(u)'
    BY <1>1, <1>2 DEF Contexts, At
  <2> QED
    BY <1>1, <1>2, <1>3 DEF IInv, Contexts, Saved
<1>7. MainRuns' /\ HandlerRuns'
  BY <1>1 DEF MainRuns, HandlerRuns, Stages, Places, At
<1>8. TaskRuns'
  BY <1>1, <1>3 DEF TaskRuns, At
<1>9. Nested'
  <2> SUFFICES ASSUME NEW u \in Task, u \notin yielded'
               PROVE  IF u = t THEN mie' = (uxCriticalNesting'[u] = 0) ELSE uxCriticalNesting'[u] = 0
    BY <1>1 DEF Nested, At
  <2> QED
    BY <1>1 DEF IInv, Nested
<1> QED
  BY <1>1, <1>4, <1>5, <1>6, <1>7, <1>8, <1>9 DEF IInv

LEMMA ExecuteInv == ASSUME NEW t \in Task PROVE IInv /\ Execute(t) => IInv'
<1> SUFFICES ASSUME IInv, Execute(t) PROVE IInv'
  OBVIOUS
<1>1. UNCHANGED <<mie, mpie, mpp, uxCriticalNesting, yielded>> /\ code.of = t
  BY DEF Execute, TaskGoesOn, Runs, mstatus
<1>2. /\ mie' \in BOOLEAN /\ uxCriticalNesting' \in [Task -> 0..MaxNesting]
      /\ regs \in Registers
      /\ yielded' \subseteq Task /\ yielded \subseteq yielded' \cup {t}
      /\ t \notin yielded' => mie' = (uxCriticalNesting'[t] = 0)
  BY <1>1 DEF IInv, Types, PortTypeOK, Nested
<1>3. \E from \in SUBSET Places : \E to \in Places : TaskGoesOn(t, from, to, regs)
  <2>1. /\ {"ret", "b"} \in SUBSET Places /\ {"a"} \in SUBSET Places
        /\ "a" \in Places /\ "b" \in Places
    BY DEF Places
  <2> QED
    BY <2>1 DEF Execute
<1> QED
  BY <1>1, <1>2, <1>3, TaskInv

LEMMA EnterInv == ASSUME NEW t \in Task PROVE IInv /\ vTaskEnterCritical(t) => IInv'
<1> SUFFICES ASSUME IInv, vTaskEnterCritical(t) PROVE IInv'
  OBVIOUS
<1>1. /\ uxCriticalNesting[t] < MaxNesting /\ TaskGoesOn(t, {"a"}, "b", regs) /\ mie' = FALSE
      /\ uxCriticalNesting' = [uxCriticalNesting EXCEPT ![t] = uxCriticalNesting[t] + 1]
      /\ UNCHANGED <<mpie, mpp, yielded>>
  BY DEF vTaskEnterCritical
<1>2. uxCriticalNesting \in [Task -> 0..MaxNesting] /\ yielded \subseteq Task /\ regs \in Registers
  BY DEF IInv, Types, PortTypeOK
<1>3. uxCriticalNesting[t] + 1 \in 0..MaxNesting /\ uxCriticalNesting[t] + 1 # 0
  BY <1>1, <1>2, PortAssumption
<1>4. /\ uxCriticalNesting' \in [Task -> 0..MaxNesting] /\ uxCriticalNesting'[t] # 0
      /\ \A u \in Task \ {t} : uxCriticalNesting'[u] = uxCriticalNesting[u]
  BY <1>1, <1>2, <1>3
<1>5. {"a"} \in SUBSET Places /\ "b" \in Places
  BY DEF Places
<1>6. mie' \in BOOLEAN /\ (t \notin yielded' => mie' = (uxCriticalNesting'[t] = 0))
  BY <1>1, <1>4
<1>7. yielded' \subseteq Task /\ yielded \subseteq yielded' \cup {t} /\ UNCHANGED <<mpie, mpp>>
  BY <1>1, <1>2
<1> QED
  BY <1>1, <1>2, <1>4, <1>5, <1>6, <1>7, TaskInv

LEMMA ExitInv == ASSUME NEW t \in Task PROVE IInv /\ vTaskExitCritical(t) => IInv'
<1> SUFFICES ASSUME IInv, vTaskExitCritical(t) PROVE IInv'
  OBVIOUS
<1> DEFINE n == uxCriticalNesting[t]
<1>1. /\ n > 0 /\ TaskGoesOn(t, {"a"}, "b", regs) /\ mie' = (mie \/ n = 1)
      /\ uxCriticalNesting' = [uxCriticalNesting EXCEPT ![t] = n - 1]
      /\ yielded' = IF n = 1 THEN yielded \ {t} ELSE yielded
      /\ UNCHANGED <<mpie, mpp>> /\ code.of = t
  BY DEF vTaskExitCritical, TaskGoesOn, Runs
<1>2. /\ uxCriticalNesting \in [Task -> 0..MaxNesting] /\ yielded \subseteq Task
      /\ t \notin yielded => mie = (n = 0)
      /\ regs \in Registers
  BY <1>1 DEF IInv, Types, PortTypeOK, Nested
<1>3. n - 1 \in 0..MaxNesting /\ n # 0 /\ (n - 1 = 0 <=> n = 1)
  BY <1>1, <1>2, PortAssumption
<1>4. /\ uxCriticalNesting' \in [Task -> 0..MaxNesting] /\ uxCriticalNesting'[t] = n - 1
      /\ \A u \in Task \ {t} : uxCriticalNesting'[u] = uxCriticalNesting[u]
  BY <1>1, <1>2, <1>3
<1>5. {"a"} \in SUBSET Places /\ "b" \in Places
  BY DEF Places
<1>6. mie' \in BOOLEAN /\ (t \notin yielded' => mie' = (uxCriticalNesting'[t] = 0))
  <2>1. CASE n = 1
    BY <2>1, <1>1, <1>3, <1>4
  <2>2. CASE n # 1
    BY <2>2, <1>1, <1>2, <1>3, <1>4 DEF IInv, Types, PortTypeOK
  <2> QED
    BY <2>1, <2>2
<1>7. yielded' \subseteq Task /\ yielded \subseteq yielded' \cup {t} /\ UNCHANGED <<mpie, mpp>>
  BY <1>1, <1>2
<1> QED
  BY <1>1, <1>2, <1>4, <1>5, <1>6, <1>7, TaskInv

-----------------------------------------------------------------------------
LEMMA StutterInv == IInv /\ UNCHANGED portVars => IInv'
BY DEF IInv, Types, PortTypeOK, Whose, Contexts, Saved, MainRuns, TaskRuns, HandlerRuns, Trapped,
       Nested, portVars, hart, mstatus, ghosts

LEMMA Inductive == PortSpec => []IInv
<1>1. IInv /\ [PortNext]_portVars => IInv'
  BY InterruptInv, HandlerInv, StartInv, CreateInv, ExecuteInv, EnterInv, ExitInv, YieldInv,
     StutterInv DEF PortNext
<1> QED
  BY InitInv, <1>1, PTL DEF PortSpec

(***************************************************************************)
(* The registers, the current task and the nesting counts keep their       *)
(* types: no count of vTaskExitCritical goes below zero.                   *)
(***************************************************************************)
THEOREM PortTypeCorrect == PortSpec => []PortTypeOK
<1>1. IInv => PortTypeOK
  BY DEF IInv, Types
<1> QED
  BY Inductive, <1>1, PTL

(***************************************************************************)
(* The trap handler of portASM.S runs to its mret with interrupts off, so  *)
(* that mepc and mstatus are read and written by one trap at a time.       *)
(***************************************************************************)
THEOREM HandlerAlone == PortSpec => []HandlerNotInterrupted
<1>1. IInv => HandlerNotInterrupted
  BY DEF IInv, HandlerRuns, HandlerNotInterrupted, InHandler, Stages
<1> QED
  BY Inductive, <1>1, PTL

(***************************************************************************)
(* A context switch is invisible to a task: it goes on in machine mode     *)
(* where it left, with its registers.                                      *)
(***************************************************************************)
THEOREM SwitchTransparent == PortSpec => []SwitchSound
<1>1. IInv => ResumesWhereItLeft
  BY DEF IInv, Whose, TaskRuns, ResumesWhereItLeft
<1> QED
  BY Inductive, <1>1, PortTypeCorrect, HandlerAlone, PTL DEF SwitchSound

(***************************************************************************)
(* mstatus.MIE is the nesting count of the task that runs, unless it has   *)
(* yielded in its critical section.                                        *)
(***************************************************************************)
THEOREM NestingCorrect == PortSpec => []InterruptsAsNested
<1>1. IInv => InterruptsAsNested
  BY DEF IInv, Types, PortTypeOK, Nested, InterruptsAsNested
<1> QED
  BY Inductive, <1>1, PTL

-----------------------------------------------------------------------------
(***************************************************************************)
(* The operations of atomic.h.                                             *)
(***************************************************************************)

\* What an operation has read is up to date while the task is masked; that is
\* inductive beside the invariant of the context switch.
AInv == IInv /\ word \in Word /\ AtomicWhenMasked

LEMMA AtomicInitInv == AtomicInit => AInv
<1> SUFFICES ASSUME AtomicInit PROVE AInv
  OBVIOUS
<1>1. IInv
  BY InitInv DEF AtomicInit
<1>2. word \in Word
  BY AtomicAssumption DEF AtomicInit
<1>3. AtomicWhenMasked
  BY PortAssumption DEF AtomicInit, PortInit, At, AtomicWhenMasked
<1> QED
  BY <1>1, <1>2, <1>3 DEF AInv

\* A step of a task within an operation, or into or out of one.
LEMMA AccessInv ==
  ASSUME IInv, NEW t \in Task,
         NEW from \in SUBSET Places, NEW to \in Places, NEW r \in Registers,
         TaskGoesOn(t, from, to, r), Same
  PROVE  IInv'
<1>1. UNCHANGED <<mie, mpie, mpp, uxCriticalNesting, yielded>> /\ code.of = t
  BY DEF Same, TaskGoesOn, Runs, mstatus
<1>2. /\ mie' \in BOOLEAN /\ uxCriticalNesting' \in [Task -> 0..MaxNesting]
      /\ yielded' \subseteq Task /\ yielded \subseteq yielded' \cup {t}
      /\ t \notin yielded' => mie' = (uxCriticalNesting'[t] = 0)
  BY <1>1 DEF IInv, Types, PortTypeOK, Nested
<1> QED
  BY <1>1, <1>2, TaskInv

LEMMA LoadInv == ASSUME NEW t \in Task PROVE AInv /\ Load(t) => AInv'
<1> SUFFICES ASSUME AInv, Load(t) PROVE AInv'
  OBVIOUS
<1> DEFINE r == [regs EXCEPT !.first = word]
<1>1. TaskGoesOn(t, {"a"}, "read", r) /\ Same /\ word' = word
  BY DEF Load
<1>2. r \in Registers /\ r.first = word
  BY DEF AInv, IInv, Types, PortTypeOK, Registers
<1>3. {"a"} \in SUBSET Places /\ "read" \in Places
  BY DEF Places
<1>4. code' = At(t, "read") /\ regs' = r
  BY <1>1 DEF TaskGoesOn
<1> HIDE DEF r
<1>5. IInv'
  BY <1>1, <1>2, <1>3, AccessInv DEF AInv
<1>6. AtomicWhenMasked'
  BY <1>1, <1>2, <1>4 DEF AtomicWhenMasked, Undisturbed, At
<1> QED
  BY <1>1, <1>5, <1>6 DEF AInv

LEMMA LoadAgainInv == ASSUME NEW t \in Task PROVE AInv /\ LoadAgain(t) => AInv'
<1> SUFFICES ASSUME AInv, LoadAgain(t) PROVE AInv'
  OBVIOUS
<1> DEFINE r == [regs EXCEPT !.second = word]
<1>1. TaskGoesOn(t, {"read"}, "read_again", r) /\ Same /\ word' = word
  BY DEF LoadAgain
<1>2. r \in Registers /\ r.first = regs.first /\ r.second = word
  BY DEF AInv, IInv, Types, PortTypeOK, Registers
<1>3. {"read"} \in SUBSET Places /\ "read_again" \in Places
  BY DEF Places
<1>4. /\ code' = At(t, "read_again") /\ regs' = r /\ code.of = t /\ code.at = "read"
      /\ UNCHANGED <<uxCriticalNesting, yielded>>
  BY <1>1 DEF TaskGoesOn, Runs, Same
<1> HIDE DEF r
<1>5. IInv'
  BY <1>1, <1>2, <1>3, AccessInv DEF AInv
<1>6. AtomicWhenMasked'
  BY <1>1, <1>2, <1>4 DEF AInv, AtomicWhenMasked, Undisturbed, At
<1> QED
  BY <1>1, <1>5, <1>6 DEF AInv

LEMMA StoreInv == ASSUME NEW t \in Task PROVE AInv /\ Store(t) => AInv'
<1> SUFFICES ASSUME AInv, Store(t) PROVE AInv'
  OBVIOUS
<1>1. PICK from \in {{"read"}, {"read_again"}} : TaskGoesOn(t, from, "b", Cleared)
  BY DEF Store
<1>2. Same /\ word' \in Word
  BY DEF Store, ReadOnce, ReadTwice
<1>3. from \in SUBSET Places /\ "b" \in Places
  BY DEF Places
<1>4. IInv'
  BY <1>1, <1>2, <1>3, ClearedType, AccessInv DEF AInv
<1>5. code' = At(t, "b")
  BY <1>1 DEF TaskGoesOn
<1>6. AtomicWhenMasked'
  BY <1>5 DEF AtomicWhenMasked, Undisturbed, At
<1> QED
  BY <1>2, <1>4, <1>6 DEF AInv

LEMMA HandlerUpdatesInv == AInv /\ HandlerUpdates => AInv'
<1> SUFFICES ASSUME AInv, HandlerUpdates PROVE AInv'
  OBVIOUS
<1>1. UNCHANGED portVars /\ word' \in Word /\ code.at = "handle"
  BY DEF HandlerUpdates, ReadOnce, ReadTwice
<1>2. IInv'
  BY <1>1, StutterInv DEF AInv
<1>3. AtomicWhenMasked'
  BY <1>1 DEF AtomicWhenMasked, Undisturbed, portVars, hart
<1> QED
  BY <1>1, <1>2, <1>3 DEF AInv

(***************************************************************************)
(* No step of the port takes a masked task into an operation or disturbs   *)
(* one: mret goes back into an operation, but that of a task that is not   *)
(* masked or that has yielded, as only those are ever interrupted.         *)
(***************************************************************************)
LEMMA PortKeeps ==
  ASSUME AInv, PortNext, word' = word, IInv'
  PROVE  AInv'
<1> SUFFICES ASSUME code'.of \in Task, uxCriticalNesting'[code'.of] > 0,
                    code'.of \notin yielded', code'.at \in {"read", "read_again"}
             PROVE  UNCHANGED <<code, regs, uxCriticalNesting, yielded>>
  BY DEF AInv, AtomicWhenMasked, Undisturbed
<1>1. CASE Interrupt \/ xPortStartScheduler
  BY <1>1 DEF Interrupt, Trap, xPortStartScheduler, At
<1>2. CASE TrapHandler
  <2>1. code.at = "mret" /\ code' = mepc /\ UNCHANGED <<uxCriticalNesting, yielded>>
    <3>1. CASE Mret
      BY <3>1 DEF Mret, ghosts
    <3>2. CASE Save \/ SaveMepc \/ Handle \/ RestoreMepc \/ RestoreMstatus
      <4>1. code'.at \in {"save_mepc", "handle", "mepc", "mstatus", "mret"}
        BY <3>2 DEF Save, SaveMepc, Handle, RestoreMepc, RestoreMstatus, HandlerGoesOn,
                    AInv, IInv, Types, Code
      <4> QED
        BY <4>1
    <3> QED
      BY <1>2, <3>1, <3>2 DEF TrapHandler
  <2>2. code.of = NoTask
    BY <2>1 DEF AInv, IInv, Whose, Places
  <2>3. uxCriticalNesting[code'.of] = 0
    BY <2>1, <2>2, PortAssumption DEF AInv, IInv, Nested
  <2> QED
    BY <2>1, <2>3
<1>3. ASSUME NEW t \in Task,
             Create(t) \/ Execute(t) \/ vTaskEnterCritical(t) \/ vTaskExitCritical(t) \/ portYIELD(t)
      PROVE  UNCHANGED <<code, regs, uxCriticalNesting, yielded>>
  <2>1. CASE Create(t)
    BY <2>1 DEF Create, hart, ghosts
  <2>2. CASE portYIELD(t)
    BY <2>2 DEF portYIELD, Trap, At
  <2>3. CASE Execute(t) \/ vTaskEnterCritical(t) \/ vTaskExitCritical(t)
    BY <2>3 DEF Execute, vTaskEnterCritical, vTaskExitCritical, TaskGoesOn, At
  <2> QED
    BY <1>3, <2>1, <2>2, <2>3
<1> QED
  BY <1>1, <1>2, <1>3 DEF PortNext

(***************************************************************************)
(* However many tasks and handlers share the word, an operation of a task  *)
(* that is masked and has not yielded is atomic.                           *)
(***************************************************************************)
THEOREM MaskedAtomic == AtomicSpec => []AtomicWhenMasked
<1>1. AInv /\ PortNext /\ UNCHANGED word => AInv'
  <2>1. AInv /\ PortNext => IInv'
    BY InterruptInv, HandlerInv, StartInv, CreateInv, ExecuteInv, EnterInv, ExitInv, YieldInv
       DEF PortNext, AInv
  <2> QED
    BY <2>1, PortKeeps
<1>2. AInv /\ UNCHANGED atomicVars => AInv'
  BY StutterInv DEF AInv, AtomicWhenMasked, Undisturbed, atomicVars, portVars, hart, ghosts
<1>3. AInv /\ [AtomicNext]_atomicVars => AInv'
  BY <1>1, <1>2, HandlerUpdatesInv, LoadInv, LoadAgainInv, StoreInv DEF AtomicNext
<1>4. AInv => AtomicWhenMasked
  BY DEF AInv, AtomicWhenMasked, AtomicWhenMasked
<1> QED
  BY AtomicInitInv, <1>3, <1>4, PTL DEF AtomicSpec
=============================================================================
