------------------------------ MODULE MCDecode ------------------------------
(* Decode for TLC.                                                           *)
EXTENDS Decode

I(kind, rd, rs1, rs2) == [kind |-> kind, rd |-> rd, rs1 |-> rs1, rs2 |-> rs2]

\* One instruction of each format of RV32I; they name registers 0 and 1, also
\* in the fields that their formats use for something else.  FENCE is one of
\* those without a queue, FP of those whose queue the core does not have.
Rv32i == {I("LUI", 1, 1, 1), I("AUIPC", 1, 1, 1), I("JAL", 1, 1, 1), I("JALR", 0, 1, 1),
          I("BRANCH", 1, 1, 0), I("LOAD", 1, 1, 1), I("STORE", 1, 0, 1),
          I("OP_IMM", 0, 1, 1), I("OP", 1, 0, 1)}
Decodable == Rv32i \cup {I("FENCE", 0, 0, 0), I("FP", 1, 1, 1)}
\* With a multiplication.
Multiplies == {I("OP_IMM", 1, 1, 0), I("BRANCH", 0, 1, 1), I("MUL_DIV", 1, 1, 1)}
=============================================================================
