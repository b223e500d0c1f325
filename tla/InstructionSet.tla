--------------------------- MODULE InstructionSet ---------------------------
(***************************************************************************)
(* What a program means: its instructions executed one after the other.    *)
(***************************************************************************)
EXTENDS Instructions

VARIABLES imem, pc, regs, mem

vars == <<imem, pc, regs, mem>>

Fetch(a) == IF a \in DOMAIN imem THEN imem[a] ELSE Rest

-----------------------------------------------------------------------------

Init ==
  /\ imem \in Programs /\ pc = 0
  /\ regs \in [Regs -> Word] /\ regs[0] = Zero
  /\ mem \in [Cells -> Word]

\* One instruction.
Execute ==
  /\ pc' = NextPc(Fetch(pc), pc, regs)
  /\ regs' = NextRegs(Fetch(pc), pc, regs, mem)
  /\ mem' = NextMem(Fetch(pc), regs, mem)
  /\ UNCHANGED imem

Spec == Init /\ [][Execute]_vars

=============================================================================
