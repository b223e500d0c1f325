---------------------------- MODULE Instructions ----------------------------
(***************************************************************************)
(* The instructions the RISC-V core of RISCV_pj is built for (its README:  *)
(* lw, lbu, sw, add, and, addi, mul, beq, jal, besides sub and andi) and   *)
(* what each of them does.  A program counter counts instructions.  The    *)
(* words and what an operation makes of them are parameters: the pipeline  *)
(* only moves words around.                                                *)
(***************************************************************************)
EXTENDS Integers

CONSTANTS
  Regs,              \* register numbers; 0 is the register that reads Zero
  Word, Zero,
  Cells,             \* the words of the data memory
  Alu(_, _, _),      \* what operation, a, b give
  Cell(_),           \* the cell an address lies in
  Byte(_, _),        \* the byte of a word that an address selects
  Link(_),           \* a program counter as a word
  Programs,          \* contents of the first part of the instruction memory
  Rest               \* the instruction in all of the rest of it

Names == {"lw", "lbu", "sw", "add", "sub", "and", "mul", "addi", "andi",
          "beq", "jal", "none"}
Operations == {"ADD", "SUB", "AND", "MUL"}

\* `imm` is the immediate as a word, `offset` that of a branch or jump.  The
\* register fields are what stands at their place also where the instruction
\* has no such register.
Instr == [name : Names, rd : Regs, rs1 : Regs, rs2 : Regs,
          imm : Word, offset : Int]

\* An all-zero word: an opcode that does nothing.
NoInstr == [name |-> "none", rd |-> 0, rs1 |-> 0, rs2 |-> 0,
            imm |-> Zero, offset |-> 0]

ASSUME RegsAssumption == Regs \subseteq Nat /\ 0 \in Regs

ASSUME WordAssumption ==
  /\ Zero \in Word
  /\ \A op \in Operations : \A a, b \in Word : Alu(op, a, b) \in Word
  /\ \A a \in Word : Cell(a) \in Cells
  /\ \A w, a \in Word : Byte(w, a) \in Word

\* No branch or jump of a program leads below address 0.
ASSUME ProgramAssumption ==
  \A program \in Programs :
    /\ DOMAIN program \subseteq Nat
    /\ \A a \in DOMAIN program :
         /\ program[a] \in Instr
         /\ a + program[a].offset \in Nat /\ Link(a + 1) \in Word

ASSUME RestAssumption ==
  Rest \in Instr /\ Rest.name # "jal" /\ Rest.offset \in Nat

-----------------------------------------------------------------------------
(* The meaning of an instruction, given registers rs and memory ms.        *)

RegisterForms == {"add", "sub", "and", "mul"}
ImmediateForms == {"addi", "andi"}
Loads == {"lw", "lbu"}

OperationOf(name) ==
  CASE name = "sub" -> "SUB"
    [] name \in {"and", "andi"} -> "AND"
    [] name = "mul" -> "MUL"
    [] OTHER -> "ADD"

Address(i, rs) == Alu("ADD", rs[i.rs1], i.imm)

\* The value an instruction at address a writes to its register.
Result(i, a, rs, ms) ==
  CASE i.name = "lw" -> ms[Cell(Address(i, rs))]
    [] i.name = "lbu" -> Byte(ms[Cell(Address(i, rs))], Address(i, rs))
    [] i.name = "jal" -> Link(a + 1)
    [] i.name \in RegisterForms ->
         Alu(OperationOf(i.name), rs[i.rs1], rs[i.rs2])
    [] OTHER -> Alu(OperationOf(i.name), rs[i.rs1], i.imm)

Writes(i) ==
  i.name \in RegisterForms \cup ImmediateForms \cup Loads \cup {"jal"}
    /\ i.rd # 0

NextRegs(i, a, rs, ms) ==
  IF Writes(i) THEN [rs EXCEPT ![i.rd] = Result(i, a, rs, ms)] ELSE rs

NextMem(i, rs, ms) ==
  IF i.name = "sw" THEN [ms EXCEPT ![Cell(Address(i, rs))] = rs[i.rs2]] ELSE ms

NextPc(i, a, rs) ==
  IF i.name = "jal" \/ (i.name = "beq" /\ rs[i.rs1] = rs[i.rs2])
    THEN a + i.offset ELSE a + 1

=============================================================================
