SPECIFICATION WindowSpec
CONSTANTS
  Regs = {0, 1, 2, 3}
  WordMod = 256
  RamWords = 16
  Misa = 16
  Programs <- WindowPrograms
  IrqLines <- AllLines
  Alu <- MCAlu
  Comp <- MCComp
  MulDiv <- MCMulDiv
  BitOr <- MCOr
  BitClear <- MCClear
  LoadLane <- MCLoad
  StoreLane <- MCStore
INVARIANT OperandsFresh
PROPERTY ImplementsISA
PROPERTY Progress
