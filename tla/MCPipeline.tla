----------------------------- MODULE MCPipeline -----------------------------
(***************************************************************************)
(* Words of four bits with two bytes each, two memory cells, and all       *)
(* programs of Length instructions out of Sample, with an endless loop     *)
(* behind them as in the README.                                          *)
(***************************************************************************)
EXTENDS Pipeline

CONSTANTS Length, Sample

MCAlu(op, a, b) ==
  CASE op = "ADD" -> (a + b) % 16
    [] op = "SUB" -> (a - b) % 16
    [] op = "MUL" -> (a * b) % 16
    [] op = "AND" -> LET bit(k) == IF (a \div k) % 2 = 1 /\ (b \div k) % 2 = 1
                                     THEN k ELSE 0
                     IN  bit(1) + bit(2) + bit(4) + bit(8)
MCCell(a) == (a \div 2) % 2
MCByte(w, a) == IF a % 2 = 0 THEN w % 4 ELSE w \div 4
MCLink(p) == (2 * p) % 16

I(name, rd, rs1, rs2, imm, offset) ==
  [name |-> name, rd |-> rd, rs1 |-> rs1, rs2 |-> rs2, imm |-> imm,
   offset |-> offset]

\* Loads, stores, operations, branches and jumps that read each other's
\* results in both operands, and write the register that always reads zero.
Mixed ==
  {I("lw", 1, 2, 0, 0, 0), I("lbu", 2, 1, 1, 1, 0), I("lw", 0, 1, 0, 2, 0),
   I("sw", 1, 2, 1, 2, 0), I("add", 1, 1, 2, 0, 0), I("mul", 2, 2, 1, 0, 0),
   I("sub", 0, 1, 2, 0, 0), I("addi", 1, 1, 2, 3, 0), I("andi", 2, 0, 1, 5, 0),
   I("beq", 2, 1, 2, 0, 2), I("beq", 1, 2, 0, 0, -1), I("jal", 1, 2, 1, 0, 2)}

MCPrograms == {p \in [0..(Length - 1) -> Sample] :
                 \A a \in DOMAIN p : a + p[a].offset >= 0}
MCRest == I("beq", 0, 0, 0, 0, 0)

MCInitialRegs == {[r \in Regs |-> CASE r = 0 -> 9 [] r = 1 -> 1 [] OTHER -> 2],
                  [r \in Regs |-> IF r = 2 THEN 0 ELSE 4]}
MCInitialMem == {[c \in Cells |-> IF c = 0 THEN 6 ELSE 13]}

=============================================================================
