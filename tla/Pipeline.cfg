SPECIFICATION FairSpec
CONSTANTS
  Regs = {0, 1, 2}
  Word = {0, 1, 2, 3, 4, 5, 6, 7, 8, 9, 10, 11, 12, 13, 14, 15}
  Zero = 0
  Cells = {0, 1}
  Alu <- MCAlu
  Cell <- MCCell
  Byte <- MCByte
  Link <- MCLink
  Length = 4
  Sample <- Mixed
  Programs <- MCPrograms
  Rest <- MCRest
  InitialRegs <- MCInitialRegs
  InitialMem <- MCInitialMem
  SW_RESULTSRC = 1
  BEQ_RESULTSRC = 0
  JAL_ALUSRC = FALSE
  JAL_ALUCONTROL = "MUL"
INVARIANT EarlyForwardingAgrees
PROPERTY ImplementsTheInstructionSet
PROPERTY KeepsExecuting
