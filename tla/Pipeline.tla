------------------------------ MODULE Pipeline ------------------------------
(***************************************************************************)
(* The five-stage pipeline of RISCV_CPU.v with its memories (TOP_GEMM.v).  *)
(* A step is one clock cycle: the rising edge moves every stage register,  *)
(* the falling edge writes the register file (REGFILE.v).  The registers   *)
(* of a stage are the fields of a record, under the code's names without   *)
(* the letter of the stage.                                                *)
(*                                                                         *)
(* DATAPATH.v takes its forwarding decisions from comparisons made one     *)
(* stage early (`match_...`); HAZARD_UNIT.v still computes them the usual  *)
(* way, and nobody reads the result.                                       *)
(*                                                                         *)
(* A bubble has PCPLUS4 = 0, which no instruction has.                     *)
(***************************************************************************)
EXTENDS Instructions

CONSTANTS
  InitialRegs, InitialMem,    \* what RF and DMEM may hold at power-up
  \* What the tools make of the don't-cares of MAINDEC.v.
  SW_RESULTSRC, BEQ_RESULTSRC, JAL_ALUSRC, JAL_ALUCONTROL

VARIABLES imem, PC_REG, D, E, M, W, RF, DMEM

vars == <<imem, PC_REG, D, E, M, W, RF, DMEM>>

-----------------------------------------------------------------------------
(* What the pipeline should do.                                            *)

\* The program counter of the next instruction to leave M: the memory write
\* and, with the falling edge, the register write happen as it leaves.
FrontPC ==
  IF E.PCPLUS4 # 0 THEN E.PC
  ELSE IF D.PCPLUS4 # 0 THEN D.PC ELSE PC_REG
CommittedPC == IF M.PCPLUS4 # 0 THEN M.PCPLUS4 - 1 ELSE FrontPC

\* The registers as an instruction reads them.
ReadRegs == [r \in Regs |-> IF r = 0 THEN Zero ELSE RF[r]]

ISA == INSTANCE InstructionSet
         WITH pc <- CommittedPC, regs <- ReadRegs, mem <- DMEM

ASSUME PowerUpAssumption ==
  /\ InitialRegs \subseteq [Regs -> Word]
  /\ InitialMem \subseteq [Cells -> Word]

ASSUME DontCareAssumption ==
  /\ SW_RESULTSRC \in 0..3 /\ BEQ_RESULTSRC \in 0..3
  /\ JAL_ALUSRC \in BOOLEAN /\ JAL_ALUCONTROL \in Operations

-----------------------------------------------------------------------------
(* Decode.                                                                 *)

\* ALUDEC.v: the operation of the ALU, by opcode class and function fields.
ALUCONTROLD(name) ==
  CASE name \in {"sub", "beq"} -> "SUB"
    [] name \in {"and", "andi"} -> "AND"
    [] name = "mul" -> "MUL"
    [] name = "jal" -> JAL_ALUCONTROL
    [] OTHER -> "ADD"

\* MAINDEC.v.  Unknown opcodes have no effect.
Decode(name) ==
  [REGWRITE |-> name \notin {"sw", "beq", "none"},
   MEMWRITE |-> name = "sw", JUMP |-> name = "jal", BRANCH |-> name = "beq",
   ALUSRC |-> \/ name \in {"lw", "lbu", "sw", "addi", "andi"}
              \/ name = "jal" /\ JAL_ALUSRC,
   RESULTSRC |-> CASE name \in {"lw", "lbu"} -> 1
                   [] name = "sw" -> SW_RESULTSRC
                   [] name = "beq" -> BEQ_RESULTSRC
                   [] name = "jal" -> 2
                   [] OTHER -> 0,
   ALUCONTROL |-> ALUCONTROLD(name),
   LBU |-> name = "lbu"]                       \* FUNCT3 = 3'b100 of a load

EmptyD == [INSTR |-> NoInstr, PC |-> 0, PCPLUS4 |-> 0]

EmptyE ==
  [ctl |-> Decode("none"), RD1 |-> Zero, RD2 |-> Zero, IMMEXT |-> Zero,
   OFFSET |-> 0, PC |-> 0, PCPLUS4 |-> 0, RS1 |-> 0, RS2 |-> 0, RD |-> 0,
   match_1_m |-> FALSE, match_2_m |-> FALSE,
   match_1_w |-> FALSE, match_2_w |-> FALSE]

EmptyM == [ctl |-> Decode("none"), ALURESULT |-> Zero, WRITEDATA |-> Zero,
           RD |-> 0, PCPLUS4 |-> 0]

EmptyW == [ctl |-> Decode("none"), ALURESULT |-> Zero, READDATA |-> Zero,
           RD |-> 0, PCPLUS4 |-> 0]

\* Mutant: the comparison with M is made with the register of W.
ReadStageWithW ==
  [ctl |-> Decode(D.INSTR.name), RD1 |-> ReadRegs[D.INSTR.rs1],
   RD2 |-> ReadRegs[D.INSTR.rs2], IMMEXT |-> D.INSTR.imm,
   OFFSET |-> D.INSTR.offset, PC |-> D.PC, PCPLUS4 |-> D.PCPLUS4,
   RS1 |-> D.INSTR.rs1, RS2 |-> D.INSTR.rs2, RD |-> D.INSTR.rd,
   match_1_m |-> D.INSTR.rs1 = E.RD, match_2_m |-> D.INSTR.rs2 = E.RD,
   match_1_w |-> D.INSTR.rs1 = W.RD, match_2_w |-> D.INSTR.rs2 = W.RD]

\* What D hands to E: operands, immediate, and the early comparisons with
\* the instructions that will be in M and W by then.
ReadStage ==
  [ctl |-> Decode(D.INSTR.name), RD1 |-> ReadRegs[D.INSTR.rs1],
   RD2 |-> ReadRegs[D.INSTR.rs2], IMMEXT |-> D.INSTR.imm,
   OFFSET |-> D.INSTR.offset, PC |-> D.PC, PCPLUS4 |-> D.PCPLUS4,
   RS1 |-> D.INSTR.rs1, RS2 |-> D.INSTR.rs2, RD |-> D.INSTR.rd,
   match_1_m |-> D.INSTR.rs1 = E.RD, match_2_m |-> D.INSTR.rs2 = E.RD,
   match_1_w |-> D.INSTR.rs1 = M.RD, match_2_w |-> D.INSTR.rs2 = M.RD]

-----------------------------------------------------------------------------
(* Execute.                                                                *)

\* RESULTW of the writeback registers w.
ResultOf(w) ==
  CASE w.ctl.RESULTSRC = 0 -> w.ALURESULT
    [] w.ctl.RESULTSRC = 1 ->
         IF w.ctl.LBU THEN Byte(w.READDATA, w.ALURESULT) ELSE w.READDATA
    [] OTHER -> Link(w.PCPLUS4)

fwd_mem(match) == match /\ M.ctl.REGWRITE /\ M.RD # 0
fwd_wb(match) == match /\ W.ctl.REGWRITE /\ W.RD # 0

\* Mutant: the older result wins.
ForwardedOldest(match_m, match_w, read) ==
  IF fwd_wb(match_w) THEN ResultOf(W)
  ELSE IF fwd_mem(match_m) THEN M.ALURESULT ELSE read

Forwarded(match_m, match_w, read) ==
  IF fwd_mem(match_m) THEN M.ALURESULT
  ELSE IF fwd_wb(match_w) THEN ResultOf(W) ELSE read

SRCAE == Forwarded(E.match_1_m, E.match_1_w, E.RD1)
WRITEDATAE == Forwarded(E.match_2_m, E.match_2_w, E.RD2)
SRCBE == IF E.ctl.ALUSRC THEN E.IMMEXT ELSE WRITEDATAE

PCSRCE == (E.ctl.BRANCH /\ SRCAE = SRCBE) \/ E.ctl.JUMP

PCTARGETE == E.PC + E.OFFSET

\* Mutant: the second operand does not stall.
LWSTALLFirstOnly == E.ctl.RESULTSRC \in {1, 3} /\ D.INSTR.rs1 = E.RD

\* Mutant: any instruction stalls the one behind it, and so does a bubble.
LWSTALLWithoutLoad == D.INSTR.rs1 = E.RD \/ D.INSTR.rs2 = E.RD

\* HAZARD_UNIT.v: bit 0 of RESULTSRCE and a register of D.
LWSTALL ==
  /\ E.ctl.RESULTSRC \in {1, 3}
  /\ D.INSTR.rs1 = E.RD \/ D.INSTR.rs2 = E.RD

\* Mutant: a stall does not empty E, the waiting instruction goes on twice.
FLUSHEOnBranch == PCSRCE

FLUSHE == LWSTALL \/ PCSRCE
FLUSHD == PCSRCE
STALLF == LWSTALL
STALLD == LWSTALL

-----------------------------------------------------------------------------
(* A clock cycle.                                                          *)

PCNEXTF == IF PCSRCE THEN PCTARGETE ELSE PC_REG + 1

FetchStage ==
  /\ PC_REG' = IF STALLF THEN PC_REG ELSE PCNEXTF
  /\ D' = IF FLUSHD THEN EmptyD
          ELSE IF STALLD THEN D
          ELSE [INSTR |-> ISA!Fetch(PC_REG), PC |-> PC_REG,
                PCPLUS4 |-> PC_REG + 1]

ExecuteStage ==
  /\ E' = IF FLUSHE THEN EmptyE ELSE ReadStage
  /\ M' = [ctl |-> E.ctl, ALURESULT |-> Alu(E.ctl.ALUCONTROL, SRCAE, SRCBE),
           WRITEDATA |-> WRITEDATAE, RD |-> E.RD, PCPLUS4 |-> E.PCPLUS4]

\* DMEM.v: the rising edge writes the memory.
DataMemory ==
  IF M.ctl.MEMWRITE THEN [DMEM EXCEPT ![Cell(M.ALURESULT)] = M.WRITEDATA]
  ELSE DMEM

\* REGFILE.v: the falling edge writes what W then holds, register 0 included.
RegisterFile(w) ==
  IF w.ctl.REGWRITE THEN [RF EXCEPT ![w.RD] = ResultOf(w)] ELSE RF

MemoryStage ==
  /\ DMEM' = DataMemory
  /\ W' = [ctl |-> M.ctl, ALURESULT |-> M.ALURESULT,
           READDATA |-> DMEM[Cell(M.ALURESULT)], RD |-> M.RD,
           PCPLUS4 |-> M.PCPLUS4]
  /\ RF' = RegisterFile(W')

Cycle == FetchStage /\ ExecuteStage /\ MemoryStage /\ UNCHANGED imem

Init ==
  /\ imem \in Programs /\ PC_REG = 0
  /\ D = EmptyD /\ E = EmptyE /\ M = EmptyM /\ W = EmptyW
  /\ RF \in InitialRegs /\ DMEM \in InitialMem

Next == Cycle

Spec == Init /\ [][Next]_vars

\* The clock runs.
FairSpec == Spec /\ WF_vars(Next)

-----------------------------------------------------------------------------
(* Properties.                                                             *)

\* Every stage register keeps its range; program counters are addresses.
TypeOK ==
  /\ PC_REG \in Nat
  /\ D \in [INSTR : Instr, PC : Nat, PCPLUS4 : Nat]
  /\ E.ctl \in {Decode(n) : n \in Names}
  /\ {E.RD1, E.RD2, E.IMMEXT} \subseteq Word /\ E.OFFSET \in Int
  /\ E.PC \in Nat /\ E.PCPLUS4 \in Nat /\ {E.RS1, E.RS2, E.RD} \subseteq Regs
  /\ {E.match_1_m, E.match_2_m, E.match_1_w, E.match_2_w} \subseteq BOOLEAN
  /\ M \in [ctl : {Decode(n) : n \in Names}, ALURESULT : Word,
            WRITEDATA : Word, RD : Regs, PCPLUS4 : Nat]
  /\ W \in [ctl : {Decode(n) : n \in Names}, ALURESULT : Word,
            READDATA : Word, RD : Regs, PCPLUS4 : Nat]
  /\ RF \in [Regs -> Word] /\ DMEM \in [Cells -> Word]

\* README 2: the pipeline computes what the instructions compute one at a
\* time: registers, memory and control flow, whatever is forwarded, stalled
\* or flushed on the way.
ImplementsTheInstructionSet == ISA!Spec

\* It also goes on: stalls and flushes end, and instructions are executed for
\* ever.
KeepsExecuting == []<>(M.PCPLUS4 # 0)

\* HAZARD_UNIT.v: where an operand that is register rs in E comes from.
FORWARD(rs) ==
  IF rs = M.RD /\ M.ctl.REGWRITE /\ rs # 0 THEN "mem"
  ELSE IF rs = W.RD /\ W.ctl.REGWRITE /\ rs # 0 THEN "wb" ELSE "read"
fast_forward(match_m, match_w) ==
  IF fwd_mem(match_m) THEN "mem"
  ELSE IF fwd_wb(match_w) THEN "wb" ELSE "read"

\* The early comparisons decide what HAZARD_UNIT.v decides in the same
\* cycle, also after stalls and flushes.
EarlyForwardingAgrees ==
  /\ fast_forward(E.match_1_m, E.match_1_w) = FORWARD(E.RS1)
  /\ fast_forward(E.match_2_m, E.match_2_w) = FORWARD(E.RS2)

=============================================================================
