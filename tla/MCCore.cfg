SPECIFICATION Running
CONSTANTS
  Regs = {0, 1, 2, 3}
  WordMod = 256
  RamWords = 16
  Misa = 16
  Programs <- CorePrograms
  IrqLines <- AllLines
  Alu <- MCAlu
  Comp <- MCComp
  MulDiv <- MCMulDiv
  BitOr <- MCOr
  BitClear <- MCClear
  LoadLane <- MCLoad
  StoreLane <- MCStore
INVARIANT TypeOK
INVARIANT ResumePcValid
INVARIANT CsrReadFresh
INVARIANT NoUserMpp
PROPERTY UserLeavesByTrap
PROPERTY ImplementsISA
