SPECIFICATION Spec
CONSTANTS
  Regs = {0, 1, 2, 3}
  WordMod = 256
  RamWords = 16
  Misa = 16
  Programs <- JumpPrograms
  IrqLines <- Quiet
  Alu <- MCAlu
  Comp <- MCComp
  MulDiv <- MCMulDiv
  BitOr <- MCOr
  BitClear <- MCClear
  LoadLane <- MCLoad
  StoreLane <- MCStore
PROPERTY TakenJumpRedirects
