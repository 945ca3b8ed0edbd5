------------------------------- MODULE MCData -------------------------------
(***************************************************************************)
(* Data hazards: every window of four instructions that produce, forward,  *)
(* load, store, compare and jump on two registers.                         *)
(***************************************************************************)
EXTENDS MCPipeline

DataAlphabet ==
  {ADDI(1, 1, 4), ADD(2, 1, 2), SUB(1, 2, 1), MULHSU(2, 2, 1), LW(1, 2, 0),
   LW(2, 1, 4), SW(1, 2, 0), SB(2, 1, 1), LB(1, 1, 1), BEQ(1, 2, 8),
   JALR(2, 1, 12), CSRRW(1, "mscratch", 2)}

DataPrograms ==
  Sound({Image(<<ADDI(1, 0, 8), a, b, c, d, SPIN>>) :
          a \in DataAlphabet, b \in DataAlphabet,
          c \in DataAlphabet, d \in DataAlphabet})

\* The windows run undisturbed; the programs that trap meet every interrupt
\* and resets of any length at any edge.
WindowPrograms == DataPrograms \cup FewPrograms

\* A window runs without interrupts and resets.
RunWindow == prog \in DataPrograms /\ irq' \in Quiet /\ Clock

WindowNext == RunWindow \/ (prog \notin DataPrograms /\ Next)

WindowInit == Init /\ (prog \in DataPrograms => irq \in Quiet)

WindowSpec == WindowInit /\ [][WindowNext]_vars /\ WF_vars(WindowNext)
=============================================================================
