-------------------------- MODULE Pipeline_proofs --------------------------
(***************************************************************************)
(* The pipeline implements the instruction set, for every word width, set  *)
(* of registers, memory, operation and program.                            *)
(*                                                                         *)
(* The registers of the abstract machine are those the instruction in M    *)
(* has read: the invariant says what every stage knows of them, and that   *)
(* what stands in front of M is the instruction that comes next.           *)
(***************************************************************************)
EXTENDS Pipeline, TLAPS

\* A word of D holds the instruction at its address, and fetching goes on
\* behind it.
DecodeHolds ==
  IF D.PCPLUS4 = 0 THEN D.INSTR = NoInstr
  ELSE /\ D.PCPLUS4 = D.PC + 1 /\ PC_REG = D.PC + 1
       /\ D.INSTR = ISA!Fetch(D.PC)

\* E holds the decoded instruction at its address, the next one is in D.
ExecuteHolds ==
  IF E.PCPLUS4 = 0 THEN E.ctl = Decode("none")
  ELSE /\ E.PCPLUS4 = E.PC + 1 /\ D.PCPLUS4 # 0 /\ D.PC = E.PC + 1
       /\ LET i == ISA!Fetch(E.PC)
          IN  /\ E.ctl = Decode(i.name) /\ E.IMMEXT = i.imm
              /\ E.OFFSET = i.offset
              /\ E.RS1 = i.rs1 /\ E.RS2 = i.rs2 /\ E.RD = i.rd

\* The early comparisons, where they are used, are those of the stages.
FlagsHold ==
  /\ M.RD # 0 => /\ E.match_1_m <=> E.RS1 = M.RD
                 /\ E.match_2_m <=> E.RS2 = M.RD
  /\ W.RD # 0 => /\ E.match_1_w <=> E.RS1 = W.RD
                 /\ E.match_2_w <=> E.RS2 = W.RD

\* What E has read is what the register holds, unless W has just written it.
WrittenBehind(rs) == W.ctl.REGWRITE /\ W.RD # 0 /\ rs = W.RD
OperandsHold ==
  E.PCPLUS4 # 0 => /\ E.RD1 = ReadRegs[E.RS1] \/ WrittenBehind(E.RS1)
                   /\ E.RD2 = ReadRegs[E.RS2] \/ WrittenBehind(E.RS2)

\* An instruction in E that needs the result of M can have it: it is the one
\* of the ALU.
ResultIsReady ==
  E.PCPLUS4 # 0 /\ M.ctl.REGWRITE /\ M.RD \in {E.RS1, E.RS2}
    => M.ctl.RESULTSRC = 0

\* M holds what its instruction computes from the registers, and what follows
\* it is in front.
MemoryHolds ==
  IF M.PCPLUS4 = 0 THEN M.ctl = Decode("none")
  ELSE LET a == M.PCPLUS4 - 1
           i == ISA!Fetch(a)
       IN  /\ a \in Nat /\ M.ctl = Decode(i.name) /\ M.RD = i.rd
           /\ i.name \in ImmediateForms \cup Loads \cup {"sw"} =>
                M.ALURESULT = Alu(OperationOf(i.name), ReadRegs[i.rs1], i.imm)
           /\ i.name \in RegisterForms =>
                M.ALURESULT =
                  Alu(OperationOf(i.name), ReadRegs[i.rs1], ReadRegs[i.rs2])
           /\ i.name = "sw" => M.WRITEDATA = ReadRegs[i.rs2]
           /\ FrontPC = NextPc(i, a, ReadRegs)

\* The falling edge has written the result of W.
WritebackHolds == W.ctl.REGWRITE => RF[W.RD] = ResultOf(W)

IInv ==
  /\ TypeOK /\ imem \in Programs
  /\ DecodeHolds /\ ExecuteHolds /\ FlagsHold /\ OperandsHold
  /\ ResultIsReady /\ MemoryHolds /\ WritebackHolds

-----------------------------------------------------------------------------
(* The decoder and the instruction memory.                                 *)

\* The control word of every instruction keeps its ranges.
LEMMA DecodeTypes ==
  ASSUME NEW n \in Names
  PROVE  /\ Decode(n).ALUCONTROL \in Operations
         /\ Decode(n).REGWRITE \in BOOLEAN /\ Decode(n).MEMWRITE \in BOOLEAN
         /\ Decode(n).JUMP \in BOOLEAN /\ Decode(n).BRANCH \in BOOLEAN
         /\ Decode(n).ALUSRC \in BOOLEAN /\ Decode(n).LBU \in BOOLEAN
         /\ Decode(n).RESULTSRC \in 0..3
<1>1. Decode(n).ALUCONTROL \in Operations
  BY DontCareAssumption DEF Decode, ALUCONTROLD, Operations
<1>2. Decode(n).RESULTSRC \in 0..3
  BY DontCareAssumption DEF Decode, ALUCONTROLD
<1>3. /\ Decode(n).REGWRITE \in BOOLEAN /\ Decode(n).MEMWRITE \in BOOLEAN
      /\ Decode(n).JUMP \in BOOLEAN /\ Decode(n).BRANCH \in BOOLEAN
      /\ Decode(n).LBU \in BOOLEAN
      /\ Decode(n).ALUSRC \in BOOLEAN
  BY Zenon DEF Decode, ALUCONTROLD
<1> QED
  BY <1>1, <1>2, <1>3

\* The control word of an instruction is the one its meaning calls for.
LEMMA Control ==
  ASSUME NEW n \in Names
  PROVE  /\ Decode(n).JUMP <=> n = "jal"
         /\ Decode(n).BRANCH <=> n = "beq"
         /\ Decode(n).MEMWRITE <=> n = "sw"
         /\ Decode(n).LBU <=> n = "lbu"
         /\ Decode(n).REGWRITE <=>
              n \in RegisterForms \cup ImmediateForms \cup Loads \cup {"jal"}
         /\ n # "jal" =>
              (Decode(n).ALUSRC <=> n \in ImmediateForms \cup Loads \cup {"sw"})
         /\ n \in Loads => Decode(n).RESULTSRC = 1
         /\ n \in RegisterForms \cup ImmediateForms => Decode(n).RESULTSRC = 0
         /\ n = "jal" => Decode(n).RESULTSRC = 2
         /\ n = "beq" => Decode(n).RESULTSRC = BEQ_RESULTSRC
         /\ n \notin {"jal", "beq"} => Decode(n).ALUCONTROL = OperationOf(n)
<1> USE DEF Names, RegisterForms, ImmediateForms, Loads
<1>1. Decode(n).JUMP <=> n = "jal"
  BY Zenon DEF Decode, ALUCONTROLD
<1>2. Decode(n).BRANCH <=> n = "beq"
  BY Zenon DEF Decode, ALUCONTROLD
<1>3. Decode(n).MEMWRITE <=> n = "sw"
  BY Zenon DEF Decode, ALUCONTROLD
<1>4. Decode(n).LBU <=> n = "lbu"
  BY Zenon DEF Decode, ALUCONTROLD
<1>5. Decode(n).REGWRITE <=>
        n \in RegisterForms \cup ImmediateForms \cup Loads \cup {"jal"}
  <2>1. Decode(n).REGWRITE <=> n \notin {"sw", "beq", "none"}
    BY Zenon DEF Decode, ALUCONTROLD
  <2>2. n \notin {"sw", "beq", "none"} <=>
          n \in RegisterForms \cup ImmediateForms \cup Loads \cup {"jal"}
    OBVIOUS
  <2> QED
    BY <2>1, <2>2, Zenon
<1>6. n # "jal" =>
        (Decode(n).ALUSRC <=> n \in ImmediateForms \cup Loads \cup {"sw"})
  <2>1. n # "jal" =>
          (Decode(n).ALUSRC <=> n \in {"lw", "lbu", "sw", "addi", "andi"})
    BY Zenon DEF Decode, ALUCONTROLD
  <2> QED
    BY <2>1
<1>7. n \in Loads => Decode(n).RESULTSRC = 1
  BY DEF Decode, ALUCONTROLD
<1>8. n \in RegisterForms \cup ImmediateForms => Decode(n).RESULTSRC = 0
  BY DEF Decode, ALUCONTROLD
<1>9. /\ n = "jal" => Decode(n).RESULTSRC = 2
      /\ n = "beq" => Decode(n).RESULTSRC = BEQ_RESULTSRC
  BY DEF Decode, ALUCONTROLD
<1>10. n \notin {"jal", "beq"} => Decode(n).ALUCONTROL = OperationOf(n)
  BY DEF Decode, ALUCONTROLD, OperationOf
<1> QED
  BY <1>1, <1>2, <1>3, <1>4, <1>5, <1>6, <1>7, <1>8, <1>9, <1>10, Zenon

\* An address holds an instruction that leads to an address.
LEMMA Fetched ==
  ASSUME imem \in Programs, NEW a \in Nat
  PROVE  /\ ISA!Fetch(a) \in Instr
         /\ a + ISA!Fetch(a).offset \in Nat
         /\ ISA!Fetch(a).name = "jal" => Link(a + 1) \in Word
<1>1. CASE a \in DOMAIN imem
  BY <1>1, ProgramAssumption DEF ISA!Fetch
<1>2. CASE a \notin DOMAIN imem
  <2>1. ISA!Fetch(a) = Rest
    BY <1>2 DEF ISA!Fetch
  <2>2. Rest.offset \in Nat /\ Rest \in Instr /\ Rest.name # "jal"
    BY RestAssumption
  <2> QED
    BY <2>1, <2>2
<1> QED
  BY <1>1, <1>2

\* What a bubble does to registers, memory and control flow: nothing.
LEMMA BubbleIsIdle ==
  /\ "none" \in Names /\ NoInstr \in Instr
  /\ ~Decode("none").REGWRITE /\ ~Decode("none").MEMWRITE
  /\ ~Decode("none").JUMP /\ ~Decode("none").BRANCH
  /\ Decode("none").RESULTSRC = 0
<1>1. "none" \in Names /\ NoInstr \in Instr
  BY RegsAssumption, WordAssumption DEF Names, NoInstr, Instr
<1>2. Decode("none").RESULTSRC = 0
  BY DEF Decode, ALUCONTROLD
<1>3. ~Decode("none").REGWRITE
  BY DEF Decode, ALUCONTROLD
<1>4. ~Decode("none").MEMWRITE
  BY DEF Decode, ALUCONTROLD
<1>5. ~Decode("none").JUMP
  BY DEF Decode, ALUCONTROLD
<1>6. ~Decode("none").BRANCH
  BY DEF Decode, ALUCONTROLD
<1> QED
  BY <1>1, <1>2, <1>3, <1>4, <1>5, <1>6

-----------------------------------------------------------------------------
(* What a cycle works with.                                                *)

\* A result on its way to a register is a word.
LEMMA ResultIsWord ==
  ASSUME TypeOK, WritebackHolds, W.ctl.REGWRITE
  PROVE  ResultOf(W) \in Word
BY DEF TypeOK, WritebackHolds

\* The operands are words, wherever they come from.
LEMMA OperandsAreWords ==
  ASSUME TypeOK, WritebackHolds
  PROVE  SRCAE \in Word /\ WRITEDATAE \in Word /\ SRCBE \in Word
<1>1. M.ALURESULT \in Word /\ E.RD1 \in Word /\ E.RD2 \in Word
        /\ E.IMMEXT \in Word
  BY DEF TypeOK
<1>2. SRCAE \in Word
  BY <1>1, ResultIsWord DEF SRCAE, Forwarded, fwd_wb
<1>3. WRITEDATAE \in Word
  BY <1>1, ResultIsWord DEF WRITEDATAE, Forwarded, fwd_wb
<1> QED
  BY <1>1, <1>2, <1>3 DEF SRCBE

\* An instruction computes a word.
LEMMA AluIsWord ==
  ASSUME NEW n \in Names, NEW a \in Word, NEW b \in Word
  PROVE  Alu(Decode(n).ALUCONTROL, a, b) \in Word
BY DecodeTypes, WordAssumption

\* With the falling edge the registers are those after the instruction in M,
\* and the memory is the one after it.
LEMMA MemoryStageExecutes ==
  ASSUME IInv, Cycle, M.PCPLUS4 # 0,
         NEW a, a = M.PCPLUS4 - 1, NEW i, i = ISA!Fetch(a)
  PROVE  /\ ReadRegs' = NextRegs(i, a, ReadRegs, DMEM)
         /\ DMEM' = NextMem(i, ReadRegs, DMEM)
         /\ a \in Nat /\ i \in Instr
<1>1. a \in Nat /\ i \in Instr /\ i.name \in Names /\ i.rd \in Regs
  <2>1. a \in Nat
    BY DEF IInv, MemoryHolds
  <2> QED
    BY <2>1, Fetched DEF IInv, Instr
<1>2. /\ M.ctl = Decode(i.name) /\ M.RD = i.rd
      /\ i.name \in ImmediateForms \cup Loads \cup {"sw"} =>
           M.ALURESULT = Alu(OperationOf(i.name), ReadRegs[i.rs1], i.imm)
      /\ i.name \in RegisterForms =>
           M.ALURESULT =
             Alu(OperationOf(i.name), ReadRegs[i.rs1], ReadRegs[i.rs2])
      /\ i.name = "sw" => M.WRITEDATA = ReadRegs[i.rs2]
  BY DEF IInv, MemoryHolds
<1>3. M.PCPLUS4 = a + 1
  BY <1>1 DEF IInv, TypeOK
<1>4. /\ W'.ctl = Decode(i.name) /\ W'.ALURESULT = M.ALURESULT
      /\ W'.READDATA = DMEM[Cell(M.ALURESULT)] /\ W'.RD = i.rd
      /\ W'.PCPLUS4 = a + 1
  BY <1>2, <1>3 DEF Cycle, MemoryStage, DataMemory, RegisterFile
<1>5. Writes(i) => ResultOf(W') = Result(i, a, ReadRegs, DMEM)
  <2>1. CASE i.name \in RegisterForms
    <3>1. ResultOf(W') = M.ALURESULT
      BY <1>1, <1>4, <2>1, Control DEF ResultOf
    <3> QED
      BY <1>2, <2>1, <3>1 DEF Result, RegisterForms, Loads
  <2>2. CASE i.name \in ImmediateForms
    <3>1. ResultOf(W') = M.ALURESULT
      BY <1>1, <1>4, <2>2, Control DEF ResultOf
    <3> QED
      BY <1>2, <2>2, <3>1 DEF Result, RegisterForms, ImmediateForms
  <2>3. CASE i.name = "lw"
    <3>1. ResultOf(W') = DMEM[Cell(M.ALURESULT)]
      <4>1. Decode(i.name).RESULTSRC = 1
        BY <1>1, <2>3, Control DEF Loads
      <4>2. ~Decode(i.name).LBU
        BY <2>3 DEF Decode, ALUCONTROLD
      <4> QED
        BY <1>4, <4>1, <4>2 DEF ResultOf
    <3>2. M.ALURESULT = Address(i, ReadRegs)
      BY <1>2, <2>3 DEF Address, OperationOf, Loads
    <3> QED
      BY <2>3, <3>1, <3>2 DEF Result, RegisterForms
  <2>4. CASE i.name = "lbu"
    <3>1. ResultOf(W') = Byte(DMEM[Cell(M.ALURESULT)], M.ALURESULT)
      <4>1. Decode(i.name).RESULTSRC = 1
        BY <1>1, <2>4, Control DEF Loads
      <4>2. Decode(i.name).LBU
        BY <2>4 DEF Decode, ALUCONTROLD
      <4> QED
        BY <1>4, <4>1, <4>2 DEF ResultOf
    <3>2. M.ALURESULT = Address(i, ReadRegs)
      BY <1>2, <2>4 DEF Address, OperationOf, Loads
    <3> QED
      BY <2>4, <3>1, <3>2 DEF Result, RegisterForms
  <2>5. CASE i.name = "jal"
    <3>1. Decode(i.name).RESULTSRC = 2
      BY <1>1, <2>5, Control
    <3>2. ResultOf(W') = Link(a + 1)
      BY <1>4, <3>1 DEF ResultOf
    <3> QED
      BY <2>5, <3>2 DEF Result, RegisterForms
  <2> QED
    BY <2>1, <2>2, <2>3, <2>4, <2>5 DEF Writes, Loads
<1>6. RF' = IF Decode(i.name).REGWRITE
              THEN [RF EXCEPT ![i.rd] = ResultOf(W')] ELSE RF
  BY <1>4 DEF Cycle, MemoryStage, DataMemory, RegisterFile
<1>7. ReadRegs' = NextRegs(i, a, ReadRegs, DMEM)
  <2>1. RF \in [Regs -> Word]
    BY DEF IInv, TypeOK
  <2>2. Writes(i) <=> Decode(i.name).REGWRITE /\ i.rd # 0
    BY <1>1, Control, Zenon DEF Writes
  <2>3. CASE Writes(i)
    <3>1. RF' = [RF EXCEPT ![i.rd] = ResultOf(W')] /\ i.rd # 0
      BY <1>6, <2>2, <2>3
    <3>2. ReadRegs' = [ReadRegs EXCEPT ![i.rd] = ResultOf(W')]
      BY <1>1, <2>1, <3>1 DEF ReadRegs
    <3> QED
      BY <1>5, <2>3, <3>2 DEF NextRegs
  <2>4. CASE ~Writes(i)
    <3>1. CASE Decode(i.name).REGWRITE
      <4>1. RF' = [RF EXCEPT ![0] = ResultOf(W')]
        BY <1>6, <2>2, <2>4, <3>1
      <4>2. ReadRegs' = ReadRegs
        BY <2>1, <4>1 DEF ReadRegs
      <4> QED
        BY <2>4, <4>2 DEF NextRegs
    <3>2. CASE ~Decode(i.name).REGWRITE
      BY <1>6, <2>4, <3>2 DEF NextRegs, ReadRegs
    <3> QED
      BY <3>1, <3>2
  <2> QED
    BY <2>3, <2>4
<1>8. DMEM' = NextMem(i, ReadRegs, DMEM)
  <2>1. CASE i.name = "sw"
    <3>1. M.ctl.MEMWRITE
      BY <1>1, <1>2, <2>1, Control
    <3>2. M.ALURESULT = Address(i, ReadRegs) /\ M.WRITEDATA = ReadRegs[i.rs2]
      BY <1>2, <2>1 DEF Address, OperationOf
    <3> QED
      BY <2>1, <3>1, <3>2 DEF Cycle, MemoryStage, DataMemory, NextMem
  <2>2. CASE i.name # "sw"
    <3>1. ~M.ctl.MEMWRITE
      BY <1>1, <1>2, <2>2, Control
    <3> QED
      BY <2>2, <3>1 DEF Cycle, MemoryStage, DataMemory, RegisterFile, NextMem
  <2> QED
    BY <2>1, <2>2
<1> QED
  BY <1>1, <1>7, <1>8

\* A bubble in M leaves them alone.
LEMMA MemoryStageRests ==
  ASSUME IInv, Cycle, M.PCPLUS4 = 0
  PROVE  ReadRegs' = ReadRegs /\ RF' = RF /\ DMEM' = DMEM
<1>1. M.ctl = Decode("none")
  BY DEF IInv, MemoryHolds
<1>2. W'.ctl = M.ctl
  BY DEF Cycle, MemoryStage, DataMemory, RegisterFile
<1>3. ~W'.ctl.REGWRITE
  BY <1>1, <1>2, BubbleIsIdle
<1>4. ~M.ctl.MEMWRITE
  BY <1>1, BubbleIsIdle
<1>5. RF' = RF /\ DMEM' = DMEM
  BY <1>3, <1>4 DEF Cycle, MemoryStage, DataMemory, RegisterFile
<1> QED
  BY <1>5 DEF ReadRegs

\* The operand that forwarding picks is the register after the instruction in
\* M: the result of M if it writes it, of W if W did, what was read otherwise.
LEMMA ForwardedReads ==
  ASSUME IInv, Cycle, NEW rs \in Regs, NEW match_m, NEW match_w, NEW read,
         M.RD # 0 => (match_m <=> rs = M.RD),
         W.RD # 0 => (match_w <=> rs = W.RD),
         read = ReadRegs[rs] \/ WrittenBehind(rs),
         M.ctl.REGWRITE /\ rs = M.RD => M.ctl.RESULTSRC = 0
  PROVE  Forwarded(match_m, match_w, read) = ReadRegs'[rs]
<1>1. RF \in [Regs -> Word] /\ M.RD \in Regs /\ W.RD \in Regs
  BY DEF IInv, TypeOK
<1>2. /\ W'.ctl = M.ctl /\ W'.ALURESULT = M.ALURESULT
      /\ RF' = IF M.ctl.REGWRITE
                  THEN [RF EXCEPT ![M.RD] = ResultOf(W')] ELSE RF
  BY DEF Cycle, MemoryStage, DataMemory, RegisterFile
<1>3. CASE fwd_mem(match_m)
  <2>1. rs = M.RD /\ M.ctl.REGWRITE /\ M.RD # 0
    BY <1>3 DEF fwd_mem
  <2>2. ResultOf(W') = M.ALURESULT
    BY <1>2, <2>1 DEF ResultOf
  <2>3. ReadRegs'[rs] = M.ALURESULT
    BY <1>1, <1>2, <2>1, <2>2 DEF ReadRegs
  <2> QED
    BY <1>3, <2>3 DEF Forwarded
<1>4. CASE ~fwd_mem(match_m)
  <2>1. ~(M.ctl.REGWRITE /\ rs = M.RD /\ rs # 0)
    BY <1>4 DEF fwd_mem
  <2>2. ReadRegs'[rs] = ReadRegs[rs]
    BY <1>1, <1>2, <2>1 DEF ReadRegs
  <2>3. CASE fwd_wb(match_w)
    <3>1. rs = W.RD /\ W.ctl.REGWRITE /\ W.RD # 0
      BY <2>3 DEF fwd_wb
    <3>2. ResultOf(W) = ReadRegs[rs]
      BY <3>1 DEF IInv, WritebackHolds, ReadRegs
    <3> QED
      BY <1>4, <2>2, <2>3, <3>2 DEF Forwarded
  <2>4. CASE ~fwd_wb(match_w)
    <3>1. ~WrittenBehind(rs)
      BY <2>4 DEF fwd_wb, WrittenBehind
    <3> QED
      BY <1>4, <2>2, <2>4, <3>1 DEF Forwarded
  <2> QED
    BY <2>3, <2>4
<1> QED
  BY <1>3, <1>4

\* So an instruction in E works with the registers it should.
LEMMA OperandsRead ==
  ASSUME IInv, Cycle, E.PCPLUS4 # 0
  PROVE  SRCAE = ReadRegs'[E.RS1] /\ WRITEDATAE = ReadRegs'[E.RS2]
<1>1. E.RS1 \in Regs /\ E.RS2 \in Regs
  BY DEF IInv, TypeOK
<1>2. /\ M.RD # 0 => (E.match_1_m <=> E.RS1 = M.RD)
      /\ W.RD # 0 => (E.match_1_w <=> E.RS1 = W.RD)
      /\ M.RD # 0 => (E.match_2_m <=> E.RS2 = M.RD)
      /\ W.RD # 0 => (E.match_2_w <=> E.RS2 = W.RD)
  BY Zenon DEF IInv, FlagsHold
<1>3. /\ E.RD1 = ReadRegs[E.RS1] \/ WrittenBehind(E.RS1)
      /\ E.RD2 = ReadRegs[E.RS2] \/ WrittenBehind(E.RS2)
  BY DEF IInv, OperandsHold
<1>4. /\ M.ctl.REGWRITE /\ E.RS1 = M.RD => M.ctl.RESULTSRC = 0
      /\ M.ctl.REGWRITE /\ E.RS2 = M.RD => M.ctl.RESULTSRC = 0
  BY DEF IInv, ResultIsReady
<1>5. Forwarded(E.match_1_m, E.match_1_w, E.RD1) = ReadRegs'[E.RS1]
  BY <1>1, <1>2, <1>3, <1>4, ForwardedReads
<1>6. Forwarded(E.match_2_m, E.match_2_w, E.RD2) = ReadRegs'[E.RS2]
  BY <1>1, <1>2, <1>3, <1>4, ForwardedReads
<1> QED
  BY <1>5, <1>6 DEF SRCAE, WRITEDATAE

\* A bubble in E neither stalls nor flushes.
LEMMA BubbleInE ==
  ASSUME IInv, E.PCPLUS4 = 0
  PROVE  ~PCSRCE /\ ~LWSTALL
<1>1. E.ctl = Decode("none")
  BY DEF IInv, ExecuteHolds
<1>2. ~E.ctl.BRANCH /\ ~E.ctl.JUMP /\ E.ctl.RESULTSRC = 0
  BY <1>1, BubbleIsIdle
<1>3. ~PCSRCE
  BY <1>2 DEF PCSRCE
<1>4. ~LWSTALL
  BY <1>2 DEF LWSTALL
<1> QED
  BY <1>3, <1>4

\* The instruction in front of M is the next one there.
LEMMA FrontMoves ==
  ASSUME IInv, Cycle
  PROVE  CommittedPC' = FrontPC
<1>1. PC_REG \in Nat /\ E.PC \in Nat /\ D.PC \in Nat
  BY DEF IInv, TypeOK
<1>2. M'.PCPLUS4 = E.PCPLUS4
  BY DEF Cycle, ExecuteStage
<1>3. CASE E.PCPLUS4 # 0
  <2>1. E.PCPLUS4 = E.PC + 1
    BY <1>3 DEF IInv, ExecuteHolds
  <2> QED
    BY <1>1, <1>2, <1>3, <2>1 DEF CommittedPC, FrontPC
<1>4. CASE E.PCPLUS4 = 0
  <2>1. ~PCSRCE /\ ~LWSTALL
    BY <1>4, BubbleInE
  <2>2. E' = ReadStage
    BY <2>1 DEF Cycle, ExecuteStage, FLUSHE
  <2>3. E'.PCPLUS4 = D.PCPLUS4 /\ E'.PC = D.PC
    BY <2>2 DEF ReadStage
  <2>4. D' = [INSTR |-> ISA!Fetch(PC_REG), PC |-> PC_REG,
              PCPLUS4 |-> PC_REG + 1]
    BY <2>1 DEF Cycle, FetchStage, PCNEXTF, FLUSHD, STALLD
  <2>5. D'.PCPLUS4 # 0 /\ D'.PC = PC_REG
    BY <1>1, <2>4
  <2> QED
    BY <1>2, <1>4, <2>3, <2>5 DEF CommittedPC, FrontPC
<1> QED
  BY <1>3, <1>4

\* What is in front once an instruction has left E is what the instruction
\* goes on with: the target of a branch or jump, or what D holds.
LEMMA NextInFront ==
  ASSUME BEQ_RESULTSRC \in {0, 2}, IInv, Cycle, E.PCPLUS4 # 0
  PROVE  FrontPC' = NextPc(ISA!Fetch(E.PC), E.PC, ReadRegs')
<1> DEFINE i == ISA!Fetch(E.PC)
<1>1. /\ E.PC \in Nat /\ D.PC \in Nat /\ D.PCPLUS4 # 0 /\ D.PC = E.PC + 1
      /\ E.ctl = Decode(i.name) /\ E.OFFSET = i.offset
      /\ E.RS1 = i.rs1 /\ E.RS2 = i.rs2
  BY DEF IInv, TypeOK, ExecuteHolds
<1>2. i.name \in Names
  BY <1>1, Fetched DEF IInv, Instr
<1> HIDE DEF i
<1>3. SRCAE = ReadRegs'[i.rs1] /\ WRITEDATAE = ReadRegs'[i.rs2]
  BY <1>1, OperandsRead
<1>4. i.name = "beq" => SRCBE = WRITEDATAE
  <2>1. i.name = "beq" => ~E.ctl.ALUSRC
    BY <1>1, <1>2, Control DEF ImmediateForms, Loads
  <2> QED
    BY <2>1 DEF SRCBE
<1>5. PCSRCE <=> \/ i.name = "jal"
                 \/ i.name = "beq" /\ ReadRegs'[i.rs1] = ReadRegs'[i.rs2]
  <2>1. E.ctl.JUMP <=> i.name = "jal"
    BY <1>1, <1>2, Control
  <2>2. E.ctl.BRANCH <=> i.name = "beq"
    BY <1>1, <1>2, Control
  <2>3. PCSRCE <=> \/ i.name = "beq" /\ SRCAE = SRCBE
                   \/ i.name = "jal"
    BY <2>1, <2>2, Zenon DEF PCSRCE
  <2> QED
    BY <1>3, <1>4, <2>3
<1>6. CASE PCSRCE
  <2>1. E.ctl.RESULTSRC \in {0, 2}
    BY <1>1, <1>2, <1>5, <1>6, Control
  <2>2. ~LWSTALL
    BY <2>1 DEF LWSTALL
  <2>3. E'.PCPLUS4 = 0 /\ D'.PCPLUS4 = 0
    BY <1>6 DEF Cycle, FetchStage, ExecuteStage, FLUSHD, FLUSHE, EmptyD, EmptyE
  <2>4. PC_REG' = E.PC + i.offset
    BY <1>1, <1>6, <2>2 DEF Cycle, FetchStage, PCNEXTF, STALLF, PCTARGETE
  <2>5. FrontPC' = E.PC + i.offset
    BY <2>3, <2>4 DEF FrontPC
  <2> QED
    BY <1>5, <1>6, <2>5 DEF NextPc, i
<1>7. CASE ~PCSRCE
  <2>1. FrontPC' = D.PC
    <3>1. CASE LWSTALL
      <4>1. E'.PCPLUS4 = 0 /\ D' = D
        BY <1>7, <3>1 DEF Cycle, FetchStage, ExecuteStage, FLUSHD, FLUSHE,
             STALLD, EmptyE
      <4> QED
        BY <1>1, <4>1 DEF FrontPC
    <3>2. CASE ~LWSTALL
      <4>1. E' = ReadStage
        BY <1>7, <3>2 DEF Cycle, ExecuteStage, FLUSHE
      <4>2. E'.PCPLUS4 = D.PCPLUS4 /\ E'.PC = D.PC
        BY <4>1 DEF ReadStage
      <4> QED
        BY <1>1, <4>2 DEF FrontPC
    <3> QED
      BY <3>1, <3>2
  <2> QED
    BY <1>1, <1>5, <1>7, <2>1 DEF NextPc, i
<1> QED
  BY <1>6, <1>7

-----------------------------------------------------------------------------
(* The invariant is inductive.                                             *)

\* Every stage register keeps its range.
LEMMA TypeStep ==
  ASSUME IInv, Cycle
  PROVE  TypeOK'
<1>1. TypeOK /\ imem \in Programs
  BY DEF IInv
<1>2. SRCAE \in Word /\ WRITEDATAE \in Word /\ SRCBE \in Word
  BY OperandsAreWords DEF IInv
<1>3. NoInstr \in Instr /\ "none" \in Names /\ 0 \in Regs /\ Zero \in Word
  BY BubbleIsIdle, RegsAssumption, WordAssumption
<1>4. PC_REG' \in Nat
  <2>1. CASE PCSRCE
    <3>1. E.PC \in Nat /\ E.PCPLUS4 # 0
      BY <1>1, <2>1, BubbleInE DEF TypeOK
    <3>2. PCTARGETE \in Nat
      BY <1>1, <3>1, Fetched DEF IInv, ExecuteHolds, PCTARGETE
    <3> QED
      BY <1>1, <2>1, <3>2 DEF Cycle, FetchStage, PCNEXTF, TypeOK
  <2>2. CASE ~PCSRCE
    BY <1>1, <2>2 DEF Cycle, FetchStage, PCNEXTF, TypeOK
  <2> QED
    BY <2>1, <2>2
<1>5. D' \in [INSTR : Instr, PC : Nat, PCPLUS4 : Nat]
  <2>1. EmptyD \in [INSTR : Instr, PC : Nat, PCPLUS4 : Nat]
    BY <1>3 DEF EmptyD
  <2>2. PC_REG \in Nat /\ D \in [INSTR : Instr, PC : Nat, PCPLUS4 : Nat]
    BY <1>1 DEF TypeOK
  <2>3. ISA!Fetch(PC_REG) \in Instr
    BY <1>1, <2>2, Fetched
  <2> QED
    BY <2>1, <2>2, <2>3 DEF Cycle, FetchStage, PCNEXTF
<1>6. /\ E'.ctl \in {Decode(n) : n \in Names}
      /\ {E'.RD1, E'.RD2, E'.IMMEXT} \subseteq Word /\ E'.OFFSET \in Int
      /\ E'.PC \in Nat /\ E'.PCPLUS4 \in Nat
      /\ {E'.RS1, E'.RS2, E'.RD} \subseteq Regs
  <2>1. CASE FLUSHE
    <3>1. E' = EmptyE
      BY <2>1 DEF Cycle, ExecuteStage
    <3> QED
      BY <1>3, <3>1 DEF EmptyE
  <2>2. CASE ~FLUSHE
    <3>1. E' = ReadStage
      BY <2>2 DEF Cycle, ExecuteStage
    <3>2. D.INSTR \in Instr /\ D.PC \in Nat /\ D.PCPLUS4 \in Nat
      BY <1>1 DEF TypeOK
    <3>3. \A r \in Regs : ReadRegs[r] \in Word
      BY <1>1, <1>3 DEF TypeOK, ReadRegs
    <3> QED
      BY <3>1, <3>2, <3>3 DEF ReadStage, Instr
  <2> QED
    BY <2>1, <2>2
<1>7. {E'.match_1_m, E'.match_2_m, E'.match_1_w, E'.match_2_w} \subseteq BOOLEAN
  <2>1. E' = EmptyE \/ E' = ReadStage
    BY DEF Cycle, ExecuteStage
  <2>2. /\ E'.match_1_m \in BOOLEAN /\ E'.match_2_m \in BOOLEAN
        /\ E'.match_1_w \in BOOLEAN /\ E'.match_2_w \in BOOLEAN
    <3>1. CASE E' = EmptyE
      BY <3>1, Zenon DEF EmptyE
    <3>2. CASE E' = ReadStage
      BY <3>2, Zenon DEF ReadStage
    <3> QED
      BY <2>1, <3>1, <3>2
  <2> QED
    BY <2>2, Zenon
<1>8. M' \in [ctl : {Decode(n) : n \in Names}, ALURESULT : Word,
              WRITEDATA : Word, RD : Regs, PCPLUS4 : Nat]
  <2>1. PICK n \in Names : E.ctl = Decode(n)
    BY <1>1 DEF TypeOK
  <2>2. Alu(E.ctl.ALUCONTROL, SRCAE, SRCBE) \in Word
    BY <1>2, <2>1, AluIsWord
  <2>3. E.RD \in Regs /\ E.PCPLUS4 \in Nat
    BY <1>1 DEF TypeOK
  <2> QED
    BY <1>2, <2>1, <2>2, <2>3 DEF Cycle, ExecuteStage
<1>9. /\ DMEM' \in [Cells -> Word]
      /\ W' \in [ctl : {Decode(n) : n \in Names}, ALURESULT : Word,
                 READDATA : Word, RD : Regs, PCPLUS4 : Nat]
  <2>1. /\ M \in [ctl : {Decode(n) : n \in Names}, ALURESULT : Word,
                  WRITEDATA : Word, RD : Regs, PCPLUS4 : Nat]
        /\ DMEM \in [Cells -> Word]
    BY <1>1 DEF TypeOK
  <2>2. Cell(M.ALURESULT) \in Cells
    BY <2>1, WordAssumption
  <2> QED
    BY <2>1, <2>2 DEF Cycle, MemoryStage, DataMemory, RegisterFile
<1>10. RF' \in [Regs -> Word]
  <2>1. RF \in [Regs -> Word]
    BY <1>1 DEF TypeOK
  <2>2. W'.ctl = M.ctl /\ W'.PCPLUS4 = M.PCPLUS4
    BY DEF Cycle, MemoryStage, DataMemory, RegisterFile
  <2>3. CASE ~W'.ctl.REGWRITE
    BY <2>1, <2>3 DEF Cycle, MemoryStage, DataMemory, RegisterFile
  <2>4. CASE W'.ctl.REGWRITE
    <3>1. M.PCPLUS4 # 0
      BY <2>2, <2>4, BubbleIsIdle DEF IInv, MemoryHolds
    <3>2. PICK a \in Nat : a = M.PCPLUS4 - 1
      BY <3>1 DEF IInv, MemoryHolds
    <3>3. M.ctl = Decode(ISA!Fetch(a).name) /\ M.PCPLUS4 = a + 1
      BY <1>1, <3>1, <3>2 DEF IInv, MemoryHolds, TypeOK
    <3>4. ISA!Fetch(a).name \in Names
      BY <1>1, Fetched DEF Instr
    <3>5. \/ W'.ctl.RESULTSRC \in {0, 1}
          \/ W'.ctl.RESULTSRC = 2 /\ ISA!Fetch(a).name = "jal"
      BY <2>2, <2>4, <3>3, <3>4, Control
    <3>6. ResultOf(W') \in Word
      <4>1. CASE W'.ctl.RESULTSRC \in {0, 1}
        BY <1>9, <4>1, WordAssumption DEF ResultOf
      <4>2. CASE W'.ctl.RESULTSRC = 2 /\ ISA!Fetch(a).name = "jal"
        <5>1. Link(a + 1) \in Word
          BY <1>1, <4>2, Fetched
        <5> QED
          BY <2>2, <3>3, <4>2, <5>1 DEF ResultOf
      <4> QED
        BY <3>5, <4>1, <4>2
    <3> QED
      BY <2>1, <3>6 DEF Cycle, MemoryStage, DataMemory, RegisterFile
  <2> QED
    BY <2>3, <2>4
<1> QED
  BY <1>4, <1>5, <1>6, <1>7, <1>8, <1>9, <1>10 DEF TypeOK

\* D holds what was fetched.
LEMMA DecodeStep ==
  ASSUME IInv, Cycle
  PROVE  DecodeHolds'
<1>1. PC_REG \in Nat /\ imem' = imem
  BY DEF IInv, TypeOK, Cycle
<1>2. CASE FLUSHD
  BY <1>2 DEF Cycle, FetchStage, PCNEXTF, EmptyD, DecodeHolds
<1>3. CASE ~FLUSHD /\ STALLD
  <2>1. D' = D /\ PC_REG' = PC_REG
    BY <1>3 DEF Cycle, FetchStage, PCNEXTF, STALLF, STALLD
  <2> QED
    BY <1>1, <2>1 DEF IInv, DecodeHolds, ISA!Fetch
<1>4. CASE ~FLUSHD /\ ~STALLD
  <2>1. /\ D' = [INSTR |-> ISA!Fetch(PC_REG), PC |-> PC_REG,
                PCPLUS4 |-> PC_REG + 1]
        /\ PC_REG' = PC_REG + 1
    BY <1>4 DEF Cycle, FetchStage, PCNEXTF, FLUSHD, STALLF, STALLD
  <2> QED
    BY <1>1, <2>1 DEF DecodeHolds, ISA!Fetch
<1> QED
  BY <1>2, <1>3, <1>4

\* An instruction enters E decoded, and the next one enters D with it.
LEMMA ExecuteStep ==
  ASSUME IInv, Cycle
  PROVE  ExecuteHolds'
<1>1. PC_REG \in Nat /\ D.PC \in Nat /\ imem' = imem
  BY DEF IInv, TypeOK, Cycle
<1>2. CASE FLUSHE
  BY <1>2 DEF Cycle, ExecuteStage, EmptyE, ExecuteHolds
<1>3. CASE ~FLUSHE
  <2>1. E' = ReadStage
    BY <1>3 DEF Cycle, ExecuteStage
  <2>2. CASE D.PCPLUS4 = 0
    BY <2>1, <2>2 DEF IInv, DecodeHolds, NoInstr, ReadStage, ExecuteHolds
  <2>3. CASE D.PCPLUS4 # 0
    <3>1. /\ D.PCPLUS4 = D.PC + 1 /\ PC_REG = D.PC + 1
          /\ D.INSTR = ISA!Fetch(D.PC)
      BY <2>3 DEF IInv, DecodeHolds
    <3>2. D' = [INSTR |-> ISA!Fetch(PC_REG), PC |-> PC_REG,
                PCPLUS4 |-> PC_REG + 1]
      BY <1>3 DEF Cycle, FetchStage, PCNEXTF, FLUSHD, FLUSHE, STALLD
    <3>3. D'.PC = E'.PC + 1 /\ D'.PCPLUS4 # 0 /\ E'.PCPLUS4 = E'.PC + 1
      BY <1>1, <2>1, <3>1, <3>2 DEF ReadStage
    <3>4. ISA!Fetch(E.PC)' = D.INSTR
      BY <1>1, <2>1, <3>1 DEF ReadStage, ISA!Fetch
    <3> QED
      BY <1>1, <2>1, <3>3, <3>4 DEF ReadStage, ExecuteHolds
  <2> QED
    BY <2>2, <2>3
<1> QED
  BY <1>2, <1>3

\* The comparisons made in D hold when the instruction is in E.
LEMMA FlagsStep ==
  ASSUME IInv, Cycle
  PROVE  FlagsHold'
<1>1. M'.RD = E.RD /\ W'.RD = M.RD
  BY DEF Cycle, ExecuteStage, MemoryStage, DataMemory, RegisterFile
<1>2. CASE FLUSHE
  <2>1. E' = EmptyE
    BY <1>2 DEF Cycle, ExecuteStage
  <2>2. /\ E'.RS1 = 0 /\ E'.RS2 = 0
        /\ ~E'.match_1_m /\ ~E'.match_2_m /\ ~E'.match_1_w /\ ~E'.match_2_w
    BY <2>1 DEF EmptyE
  <2> QED
    BY <2>2, Zenon DEF FlagsHold
<1>3. CASE ~FLUSHE
  <2>1. E' = ReadStage
    BY <1>3 DEF Cycle, ExecuteStage
  <2>2. E'.RS1 = D.INSTR.rs1 /\ E'.RS2 = D.INSTR.rs2
    BY <2>1 DEF ReadStage
  <2>3. /\ E'.match_1_m <=> D.INSTR.rs1 = E.RD
        /\ E'.match_2_m <=> D.INSTR.rs2 = E.RD
        /\ E'.match_1_w <=> D.INSTR.rs1 = M.RD
        /\ E'.match_2_w <=> D.INSTR.rs2 = M.RD
    BY <2>1, Zenon DEF ReadStage
  <2> QED
    BY <1>1, <2>2, <2>3, Zenon DEF FlagsHold
<1> QED
  BY <1>2, <1>3

\* What is read in D is still so in E, unless the falling edge writes it.
LEMMA OperandsStep ==
  ASSUME IInv, Cycle
  PROVE  OperandsHold'
<1> DEFINE Written(r) == W'.ctl.REGWRITE /\ W'.RD # 0 /\ r = W'.RD
<1>1. /\ RF \in [Regs -> Word] /\ M.RD \in Regs
      /\ D.INSTR.rs1 \in Regs /\ D.INSTR.rs2 \in Regs
  BY DEF IInv, TypeOK, Instr
<1>2. /\ W'.ctl = M.ctl /\ W'.RD = M.RD
      /\ RF' = IF M.ctl.REGWRITE
                  THEN [RF EXCEPT ![M.RD] = ResultOf(W')] ELSE RF
  BY DEF Cycle, MemoryStage, DataMemory, RegisterFile
<1>3. ASSUME NEW r \in Regs
      PROVE  ReadRegs'[r] = ReadRegs[r] \/ Written(r)
  <2>1. CASE M.ctl.REGWRITE /\ M.RD # 0 /\ r = M.RD
    BY <1>2, <2>1
  <2>2. CASE ~(M.ctl.REGWRITE /\ M.RD # 0 /\ r = M.RD)
    BY <1>1, <1>2, <2>2 DEF ReadRegs
  <2> QED
    BY <2>1, <2>2
<1>4. CASE FLUSHE
  BY <1>4 DEF Cycle, ExecuteStage, EmptyE, OperandsHold
<1>5. CASE ~FLUSHE
  <2>1. /\ E'.RS1 = D.INSTR.rs1 /\ E'.RD1 = ReadRegs[D.INSTR.rs1]
        /\ E'.RS2 = D.INSTR.rs2 /\ E'.RD2 = ReadRegs[D.INSTR.rs2]
    BY <1>5 DEF Cycle, ExecuteStage, ReadStage
  <2>2. /\ ReadRegs'[D.INSTR.rs1] = ReadRegs[D.INSTR.rs1]
             \/ Written(D.INSTR.rs1)
        /\ ReadRegs'[D.INSTR.rs2] = ReadRegs[D.INSTR.rs2]
             \/ Written(D.INSTR.rs2)
    BY <1>1, <1>3
  <2> QED
    BY <2>1, <2>2 DEF OperandsHold, WrittenBehind
<1> QED
  BY <1>4, <1>5

\* Stalls and flushes keep an instruction away from a result that is not there.
LEMMA ResultStep ==
  ASSUME IInv, Cycle
  PROVE  ResultIsReady'
<1>1. M'.ctl = E.ctl /\ M'.RD = E.RD
  BY DEF Cycle, ExecuteStage
<1>2. SUFFICES ASSUME E'.PCPLUS4 # 0, E.ctl.REGWRITE, E.RD \in {E'.RS1, E'.RS2}
               PROVE  E.ctl.RESULTSRC = 0
  BY <1>1 DEF ResultIsReady
<1>3. ~FLUSHE
  BY <1>2 DEF Cycle, ExecuteStage, EmptyE
<1>4. E.RD \in {D.INSTR.rs1, D.INSTR.rs2}
  BY <1>2, <1>3 DEF Cycle, ExecuteStage, ReadStage
<1>5. E.ctl.RESULTSRC \notin {1, 3}
  BY <1>3, <1>4 DEF FLUSHE, LWSTALL
<1>6. PICK n \in Names : E.ctl = Decode(n)
  BY DEF IInv, TypeOK
<1>7. n # "jal"
  BY <1>3, <1>6, Control DEF FLUSHE, PCSRCE
<1> QED
  BY <1>2, <1>5, <1>6, <1>7, Control

\* The falling edge writes the result.
LEMMA WritebackStep ==
  ASSUME IInv, Cycle
  PROVE  WritebackHolds'
<1>1. RF \in [Regs -> Word] /\ M.RD \in Regs /\ W'.RD = M.RD
  BY DEF IInv, TypeOK, Cycle, MemoryStage, DataMemory, RegisterFile
<1>2. CASE W'.ctl.REGWRITE
  <2>1. RF' = [RF EXCEPT ![W'.RD] = ResultOf(W')]
    BY <1>2 DEF Cycle, MemoryStage, DataMemory, RegisterFile
  <2> QED
    BY <1>1, <2>1 DEF WritebackHolds, ResultOf
<1> QED
  BY <1>2 DEF WritebackHolds

\* M holds what E has computed from the registers as they are now, and what is
\* in front goes on from it.
LEMMA MemoryStep ==
  ASSUME BEQ_RESULTSRC \in {0, 2}, IInv, Cycle
  PROVE  MemoryHolds'
<1>1. /\ M'.ctl = E.ctl /\ M'.WRITEDATA = WRITEDATAE /\ M'.RD = E.RD
      /\ M'.ALURESULT = Alu(E.ctl.ALUCONTROL, SRCAE, SRCBE)
      /\ M'.PCPLUS4 = E.PCPLUS4 /\ imem' = imem
  BY DEF Cycle, ExecuteStage
<1>2. CASE E.PCPLUS4 = 0
  BY <1>1, <1>2 DEF IInv, ExecuteHolds, MemoryHolds
<1>3. CASE E.PCPLUS4 # 0
  <2> DEFINE i == ISA!Fetch(E.PC)
  <2>1. /\ E.PC \in Nat /\ E.PCPLUS4 = E.PC + 1
        /\ E.ctl = Decode(i.name) /\ E.IMMEXT = i.imm
        /\ E.RS1 = i.rs1 /\ E.RS2 = i.rs2 /\ E.RD = i.rd
    BY <1>3 DEF IInv, TypeOK, ExecuteHolds
  <2>2. i.name \in Names
    BY <2>1, Fetched DEF IInv, Instr
  <2>3. FrontPC' = NextPc(i, E.PC, ReadRegs')
    BY <1>3, NextInFront
  <2>4. M'.PCPLUS4 - 1 = E.PC /\ M'.PCPLUS4 # 0
    BY <1>1, <2>1
  <2>5. ISA!Fetch(M.PCPLUS4 - 1)' = i
    BY <1>1, <2>4 DEF ISA!Fetch
  <2> HIDE DEF i
  <2>6. SRCAE = ReadRegs'[i.rs1] /\ WRITEDATAE = ReadRegs'[i.rs2]
    BY <1>3, <2>1, OperandsRead
  <2>7. i.name \in ImmediateForms \cup Loads \cup {"sw"} =>
          M'.ALURESULT = Alu(OperationOf(i.name), ReadRegs'[i.rs1], i.imm)
    <3>1. SUFFICES ASSUME i.name \in ImmediateForms \cup Loads \cup {"sw"}
                   PROVE  M'.ALURESULT =
                            Alu(OperationOf(i.name), ReadRegs'[i.rs1], i.imm)
      OBVIOUS
    <3>2. i.name \notin {"jal", "beq"}
      BY <3>1 DEF ImmediateForms, Loads
    <3>3. E.ctl.ALUSRC
      BY <2>1, <2>2, <3>1, <3>2, Control
    <3>4. SRCBE = i.imm
      BY <2>1, <3>3 DEF SRCBE
    <3> QED
      BY <1>1, <2>1, <2>2, <2>6, <3>2, <3>4, Control
  <2>8. i.name \in RegisterForms =>
          M'.ALURESULT =
            Alu(OperationOf(i.name), ReadRegs'[i.rs1], ReadRegs'[i.rs2])
    <3>1. SUFFICES ASSUME i.name \in RegisterForms
                   PROVE  M'.ALURESULT = Alu(OperationOf(i.name),
                            ReadRegs'[i.rs1], ReadRegs'[i.rs2])
      OBVIOUS
    <3>2. /\ i.name \notin {"jal", "beq"}
          /\ i.name \notin ImmediateForms \cup Loads \cup {"sw"}
      BY <3>1 DEF RegisterForms, ImmediateForms, Loads
    <3>3. ~E.ctl.ALUSRC
      BY <2>1, <2>2, <3>2, Control
    <3>4. SRCBE = ReadRegs'[i.rs2]
      BY <2>6, <3>3 DEF SRCBE
    <3> QED
      BY <1>1, <2>1, <2>2, <2>6, <3>2, <3>4, Control
  <2> QED
    BY <1>1, <2>1, <2>3, <2>4, <2>5, <2>6, <2>7, <2>8 DEF MemoryHolds
<1> QED
  BY <1>2, <1>3

\* The pipeline starts empty.
LEMMA InvariantStarts ==
  ASSUME Init
  PROVE  IInv
<1>1. NoInstr \in Instr /\ "none" \in Names /\ 0 \in Regs /\ Zero \in Word
  BY BubbleIsIdle, RegsAssumption, WordAssumption
<1>2. ~W.ctl.REGWRITE
  BY BubbleIsIdle DEF Init, EmptyW
<1>3. {E.match_1_m, E.match_2_m, E.match_1_w, E.match_2_w} \subseteq BOOLEAN
  BY Zenon DEF Init, EmptyE
<1>4. TypeOK
  BY <1>1, <1>3, PowerUpAssumption DEF Init, EmptyD, EmptyE, EmptyM, EmptyW,
    TypeOK
<1>5. DecodeHolds /\ ExecuteHolds /\ OperandsHold /\ ResultIsReady
        /\ MemoryHolds
  BY DEF Init, EmptyD, EmptyE, EmptyM, DecodeHolds, ExecuteHolds, OperandsHold,
    ResultIsReady, MemoryHolds
<1>6. FlagsHold
  <2>1. M.RD = 0 /\ W.RD = 0
    BY DEF Init, EmptyM, EmptyW
  <2> QED
    BY <2>1 DEF FlagsHold
<1>7. WritebackHolds
  BY <1>2 DEF WritebackHolds
<1> QED
  BY <1>4, <1>5, <1>6, <1>7 DEF IInv, Init

\* Every cycle keeps the invariant.
LEMMA InvariantStep ==
  ASSUME BEQ_RESULTSRC \in {0, 2}, IInv, [Next]_vars
  PROVE  IInv'
<1>1. CASE Cycle
  <2>1. TypeOK' /\ DecodeHolds' /\ ExecuteHolds' /\ FlagsHold' /\ OperandsHold'
    BY <1>1, TypeStep, DecodeStep, ExecuteStep, FlagsStep, OperandsStep
  <2>2. ResultIsReady' /\ MemoryHolds' /\ WritebackHolds'
    BY <1>1, ResultStep, MemoryStep, WritebackStep
  <2>3. (imem \in Programs)'
    BY <1>1 DEF IInv, Cycle
  <2> QED
    BY <2>1, <2>2, <2>3 DEF IInv
<1>2. CASE UNCHANGED vars
  BY <1>2 DEF vars, IInv, TypeOK, DecodeHolds, ExecuteHolds, FlagsHold,
    OperandsHold, WrittenBehind, ResultIsReady, MemoryHolds, WritebackHolds,
    ReadRegs, FrontPC, ResultOf, ISA!Fetch
<1> QED
  BY <1>1, <1>2 DEF Next

-----------------------------------------------------------------------------
(* Theorems.  They hold for the choices of the don't-care RESULTSRCD of a  *)
(* branch that do not make it stall like a load.                           *)

\* Every stage register keeps its range; no branch leads below address 0.
THEOREM TypeCorrect ==
  ASSUME BEQ_RESULTSRC \in {0, 2}
  PROVE  Spec => []TypeOK
<1>1. IInv => TypeOK
  BY DEF IInv
<1> QED
  BY <1>1, InvariantStarts, InvariantStep, PTL DEF Spec

\* The comparisons made a stage early decide what HAZARD_UNIT.v decides.
THEOREM EarlyForwarding ==
  ASSUME BEQ_RESULTSRC \in {0, 2}
  PROVE  Spec => []EarlyForwardingAgrees
<1>1. ASSUME IInv
      PROVE  EarlyForwardingAgrees
  <2>1. fwd_mem(E.match_1_m) <=> E.RS1 = M.RD /\ M.ctl.REGWRITE /\ E.RS1 # 0
    BY <1>1 DEF IInv, FlagsHold, fwd_mem
  <2>2. fwd_mem(E.match_2_m) <=> E.RS2 = M.RD /\ M.ctl.REGWRITE /\ E.RS2 # 0
    BY <1>1 DEF IInv, FlagsHold, fwd_mem
  <2>3. fwd_wb(E.match_1_w) <=> E.RS1 = W.RD /\ W.ctl.REGWRITE /\ E.RS1 # 0
    BY <1>1 DEF IInv, FlagsHold, fwd_wb
  <2>4. fwd_wb(E.match_2_w) <=> E.RS2 = W.RD /\ W.ctl.REGWRITE /\ E.RS2 # 0
    BY <1>1 DEF IInv, FlagsHold, fwd_wb
  <2> QED
    BY <2>1, <2>2, <2>3, <2>4
    DEF EarlyForwardingAgrees, fast_forward, FORWARD
<1> QED
  BY <1>1, InvariantStarts, InvariantStep, PTL DEF Spec

\* The pipeline computes what the instructions compute one at a time: a cycle
\* executes the instruction in M, or nothing if M holds a bubble.
THEOREM Refinement ==
  ASSUME BEQ_RESULTSRC \in {0, 2}
  PROVE  Spec => ImplementsTheInstructionSet
<1>1. ASSUME Init
      PROVE  ISA!Init
  <2>1. CommittedPC = 0
    BY <1>1 DEF Init, EmptyD, EmptyE, EmptyM, CommittedPC, FrontPC
  <2>2. RF \in [Regs -> Word] /\ DMEM \in [Cells -> Word]
    BY <1>1, PowerUpAssumption DEF Init
  <2>3. ReadRegs \in [Regs -> Word] /\ ReadRegs[0] = Zero
    BY <2>2, RegsAssumption, WordAssumption DEF ReadRegs
  <2> QED
    BY <1>1, <2>1, <2>2, <2>3 DEF Init, ISA!Init
<1>2. ASSUME IInv, [Next]_vars
      PROVE  [ISA!Execute]_(ISA!vars)
  <2>1. CASE Cycle /\ M.PCPLUS4 # 0
    <3> DEFINE a == M.PCPLUS4 - 1
               i == ISA!Fetch(a)
    <3>1. CommittedPC = a /\ FrontPC = NextPc(i, a, ReadRegs)
      BY <1>2, <2>1 DEF CommittedPC, IInv, MemoryHolds
    <3>2. CommittedPC' = NextPc(i, a, ReadRegs)
      BY <1>2, <2>1, <3>1, FrontMoves
    <3>3. /\ ReadRegs' = NextRegs(i, a, ReadRegs, DMEM)
          /\ DMEM' = NextMem(i, ReadRegs, DMEM)
      BY <1>2, <2>1, MemoryStageExecutes
    <3>4. imem' = imem
      BY <2>1 DEF Cycle
    <3> QED
      BY <3>1, <3>2, <3>3, <3>4 DEF ISA!Execute, ISA!NextPc, ISA!NextRegs,
        ISA!NextMem, ISA!Result, ISA!Address, ISA!Writes, ISA!OperationOf,
        ISA!RegisterForms, ISA!ImmediateForms, ISA!Loads, NextPc, NextRegs,
        NextMem, Result, Address, Writes, OperationOf, RegisterForms,
        ImmediateForms, Loads
  <2>2. CASE Cycle /\ M.PCPLUS4 = 0
    <3>1. CommittedPC' = CommittedPC
      BY <1>2, <2>2, FrontMoves DEF CommittedPC
    <3>2. ReadRegs' = ReadRegs /\ DMEM' = DMEM
      BY <1>2, <2>2, MemoryStageRests
    <3> QED
      BY <2>2, <3>1, <3>2 DEF Cycle, ISA!vars
  <2>3. CASE UNCHANGED vars
    BY <2>3 DEF vars, ISA!vars, CommittedPC, FrontPC, ReadRegs
  <2> QED
    BY <1>2, <2>1, <2>2, <2>3 DEF Next
<1> QED
  BY <1>1, <1>2, InvariantStarts, InvariantStep, PTL
  DEF Spec, ImplementsTheInstructionSet, ISA!Spec

=============================================================================
