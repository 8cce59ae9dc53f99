------------------------------ MODULE Pipeline ------------------------------
(***************************************************************************)
(* The pipelined simulator of CS311/project3, a cycle at a time, and next  *)
(* to it the single-step simulator of project2, which makes a step each    *)
(* time an instruction leaves the pipeline.  cpu holds CURRENT_STATE and   *)
(* the counters under the names of the code; a latch is a record.          *)
(***************************************************************************)
EXTENDS Mips

CONSTANTS Programs,            \* sequences of instructions
          Memories,            \* what memory holds when a program is loaded
          MAX_INSTRUCTION_NUM  \* instructions the command line asks for

\* An instruction as parsing_instr() makes it.
Instruction(i) ==
    /\ i.op \in RType \cup IType \cup Jumps
    /\ i.imm \in (-(HALF \div 2))..(HALF \div 2 - 1) /\ i.shamt \in 0..31 /\ i.target \in Nat
    /\ i.op \notin Jumps => {i.rs, i.rt, i.rd} \subseteq REGISTERS

ASSUME ProgramsAssumption ==
    /\ \A prog \in Programs :
         /\ Len(prog) \in 1..(MEM_TEXT_SIZE \div 4) /\ DOMAIN prog = 1..Len(prog)
         /\ \A k \in DOMAIN prog : Instruction(prog[k])
    /\ Memories \subseteq [Text \cup Data -> 0..(BYTE - 1)]
    /\ MAX_INSTRUCTION_NUM \in Nat

VARIABLES program,
          cpu,
          isa,      \* the single-step machine
          inorder,  \* every instruction that left was the next one of isa
          apart     \* a documented difference between the two was met

mips == <<program, cpu, isa, inorder, apart>>

IF_STAGE == 0
ID_STAGE == 1
EX_STAGE == 2
MEM_STAGE == 3
WB_STAGE == 4
Jumping == Jumps \cup {"jr"}

\* What a bubble leaves in the latches.
NoOperands == [op |-> "sll", REG1 |-> 0, REG2 |-> 0, RS |-> 0, RT |-> 0, DEST |-> 0,
               IMM |-> 0, SH |-> 0]
NoControl == [ALUSrc |-> FALSE, Branch |-> FALSE, MemWrite |-> FALSE, MemRead |-> FALSE,
              MemtoReg |-> FALSE, RegWrite |-> FALSE]
NoExecution == [ALU_OUT |-> 0, BR_TARGET |-> 0, BR_TAKE |-> 0, DEST |-> 0, Branch |-> FALSE,
                MemRead |-> FALSE, MemWrite |-> FALSE, MemtoReg |-> FALSE, RegWrite |-> FALSE]
NoResult == [ALU_OUT |-> 0, MEM_OUT |-> 0, DEST |-> 0, MemtoReg |-> FALSE, RegWrite |-> FALSE]

control_init(i) ==
    [ALUSrc |-> i.op \notin RType \cup Branches,
     Branch |-> i.op \in Branches,
     MemWrite |-> i.op = "sw",
     MemRead |-> i.op = "lw",
     MemtoReg |-> i.op # "lw",
     RegWrite |-> i.op \notin {"jr", "j", "jal", "sw"} \cup Branches]

\* What the ALU computes; alu2 is the immediate of an I-type instruction.
ALU(op, alu1, alu2, sh) ==
    CASE op \in {"add", "addi", "lw", "sw"} -> Word(alu1 + alu2)
      [] op = "sub" -> Word(alu1 - alu2)
      [] op \in {"and", "andi"} -> BitAnd(alu1, Word(alu2))
      [] op = "or"  -> BitOr(alu1, alu2)
      [] op = "ori" -> BitOr(alu1, alu2 % HALF)
      [] op = "nor" -> WORD - 1 - BitOr(alu1, alu2)
      [] op = "lui" -> Word(alu2 * HALF)
      [] op = "slt" -> IF Signed(alu1) < Signed(alu2) THEN 1 ELSE 0
      [] op = "slti" -> IF Signed(alu1) < alu2 THEN 1 ELSE 0
      [] op = "sll" -> Word(ShiftLeft(alu2, sh))
      [] op = "srl" -> Word(ShiftRightBy(Signed(alu2), sh)) % (WORD \div 2)
      [] op = "beq" -> IF alu1 = alu2 THEN 1 ELSE 0
      [] op = "bne" -> IF alu1 # alu2 THEN 1 ELSE 0

\* The operands of the instruction in EX: from the latch of the instruction
\* before it, else from the one before that, else as they were read.
Forwarded(c, reg, read) ==
    IF c.EX_MEM_FORWARD.REG # 0 /\ c.EX_MEM_FORWARD.REG = reg THEN c.EX_MEM_FORWARD
    ELSE IF c.MEM_WB_FORWARD.REG # 0 /\ c.MEM_WB_FORWARD.REG = reg THEN c.MEM_WB_FORWARD
    ELSE [REG |-> reg, VALUE |-> read, WRITES |-> TRUE]

\* A load whose value is not there yet.
FaultyHazard(c, i) == c.EX_MEM.MemRead /\ c.EX_MEM.DEST = i.rs
Hazard_Detection_Unit(c, i) ==
    c.EX_MEM.MemRead /\ c.EX_MEM.DEST \in {i.rs, i.rt}

\* The instructions move on, except behind a load that IF and ID wait for.
pipeline_init(c) ==
    LET PIPE == [s \in 0..4 |-> IF s = 0 \/ (c.HAZARD /\ s = ID_STAGE) THEN c.PIPE[s]
                                ELSE IF c.HAZARD /\ s = EX_STAGE THEN 0 ELSE c.PIPE[s - 1]]
    IN  [c EXCEPT !.PIPE = PIPE,
                  !.PREDICTION = IF \A s \in 0..4 : PIPE[s] = 0 THEN FALSE ELSE @,
                  !.PREDICT_SUCCESS = TRUE, !.HAZARD = FALSE, !.PCSrc = "IF",
                  !.EX_MEM_FORWARD = [REG |-> c.EX_MEM.DEST, VALUE |-> c.EX_MEM.ALU_OUT,
                                      WRITES |-> c.EX_MEM.RegWrite],
                  !.MEM_WB_FORWARD = [REG |-> c.MEM_WB.DEST, WRITES |-> c.MEM_WB.RegWrite,
                                      VALUE |-> IF c.MEM_WB.MemtoReg THEN c.MEM_WB.ALU_OUT
                                                ELSE c.MEM_WB.MEM_OUT]]

WB_Stage(c) ==
    LET value == IF c.MEM_WB.MemtoReg THEN c.MEM_WB.ALU_OUT ELSE c.MEM_WB.MEM_OUT
    IN  IF c.PIPE[WB_STAGE] = 0 THEN c
        ELSE [c EXCEPT !.REGS = IF c.MEM_WB.RegWrite THEN [@ EXCEPT ![c.MEM_WB.DEST] = value]
                                ELSE @,
                       !.INSTRUCTION_COUNT = @ + 1]

\* A branch that was predicted wrongly empties the stages behind it.
Resolve(c) ==
    IF ~(c.EX_MEM.Branch /\ (c.EX_MEM.BR_TAKE = 1) # c.PREDICTION) THEN c
    ELSE [c EXCEPT !.PREDICT_SUCCESS = FALSE,
                   !.PREDICTION = ~@,
                   !.PCSrc = IF c.EX_MEM.BR_TAKE = 1 THEN "BRANCH" ELSE "IF",
                   !.BRANCH_PC = IF c.EX_MEM.BR_TAKE = 1 THEN c.EX_MEM.BR_TARGET ELSE @,
                   !.IF_PC = IF c.EX_MEM.BR_TAKE = 1 THEN @ ELSE c.PIPE[MEM_STAGE] + 4,
                   !.PIPE = [@ EXCEPT ![IF_STAGE] = 0, ![ID_STAGE] = 0, ![EX_STAGE] = 0]]

\* The value of sw is read here, when the older instructions have written.
\* An address outside the regions ends the simulator (exit).
MEM_Stage(c) ==
    LET address == c.EX_MEM.ALU_OUT
        resolved == Resolve(c)
    IN  IF c.PIPE[MEM_STAGE] = 0
        THEN [c EXCEPT !.MEM_WB = NoResult]
        ELSE IF (c.EX_MEM.MemRead \/ c.EX_MEM.MemWrite) /\ ~InRange(address)
        THEN [c EXCEPT !.exited = TRUE]
        ELSE [resolved EXCEPT
                !.MEM_WB = [ALU_OUT |-> IF c.EX_MEM.MemRead THEN @.ALU_OUT ELSE address,
                            MEM_OUT |-> IF c.EX_MEM.MemRead THEN mem_read_32(c.mem, address)
                                        ELSE @.MEM_OUT,
                            DEST |-> c.EX_MEM.DEST, MemtoReg |-> c.EX_MEM.MemtoReg,
                            RegWrite |-> c.EX_MEM.RegWrite],
                !.mem = IF c.EX_MEM.MemWrite
                        THEN mem_write_32(@, address, c.REGS[c.EX_MEM.DEST]) ELSE @]

\* The instruction in ID is dropped behind a jump, and behind a branch that
\* is predicted taken.
EX_Stage(c) ==
    LET i == c.ID_EX
        control == c.ID_EX_CONTROL
        a == Forwarded(c, i.RS, i.REG1)
        b == Forwarded(c, i.RT, i.REG2)
        out == ALU(i.op, a.VALUE, IF control.ALUSrc THEN i.IMM ELSE b.VALUE, i.SH)
        taken == control.Branch /\ c.PREDICTION
        target == Word(c.PIPE[EX_STAGE] + i.IMM * 4 + 4)
    IN  IF c.PIPE[EX_STAGE] = 0
        THEN [c EXCEPT !.EX_MEM = NoExecution]
        ELSE [c EXCEPT
                !.PIPE = IF i.op \in Jumping \/ taken THEN [@ EXCEPT ![ID_STAGE] = 0] ELSE @,
                !.PC = IF taken THEN target ELSE @,
                !.EX_MEM = [ALU_OUT |-> IF i.op \in Jumping THEN @.ALU_OUT ELSE out,
                            BR_TARGET |-> IF control.Branch THEN target ELSE @.BR_TARGET,
                            BR_TAKE |-> IF control.Branch THEN out ELSE @.BR_TAKE,
                            DEST |-> i.DEST, Branch |-> control.Branch,
                            MemRead |-> control.MemRead, MemWrite |-> control.MemWrite,
                            MemtoReg |-> control.MemtoReg, RegWrite |-> control.RegWrite]]

\* A jump leaves DEST as the instruction before it set it.
Decoder(c, i) ==
    LET pc == c.PIPE[ID_STAGE]
    IN  [c EXCEPT !.ID_EX = [op |-> i.op, REG1 |-> c.REGS[i.rs], REG2 |-> c.REGS[i.rt],
                             RS |-> i.rs, RT |-> i.rt, SH |-> i.shamt, IMM |-> i.imm,
                             DEST |-> IF i.op \in Jumping THEN @.DEST
                                      ELSE IF i.op \in RType THEN i.rd ELSE i.rt],
                  !.JUMP_PC = IF i.op = "jr" THEN c.REGS[i.rs]
                              ELSE IF i.op \in Jumps THEN JumpTarget(pc, i) ELSE @,
                  !.BRANCH_PC = IF i.op \in Branches /\ c.PREDICTION
                                THEN Word(pc + i.imm * 4 + 4) ELSE @,
                  !.PCSrc = IF i.op \in Jumping THEN "JUMP"
                            ELSE IF i.op \in Branches /\ c.PREDICTION THEN "BRANCH" ELSE @,
                  !.REGS = IF i.op = "jal" THEN [@ EXCEPT ![LINK] = pc + 4] ELSE @]

ID_Stage(c, prog) ==
    LET i == get_inst_info(prog, c.PIPE[ID_STAGE])
    IN  IF c.PIPE[ID_STAGE] = 0
        THEN [c EXCEPT !.ID_EX = NoOperands, !.ID_EX_CONTROL = NoControl]
        ELSE [Decoder(c, i) EXCEPT !.HAZARD = @ \/ Hazard_Detection_Unit(c, i),
                                   !.ID_EX_CONTROL = control_init(i)]

IF_Stage(c, prog) ==
    LET fetches == Word(c.PC - MEM_TEXT_START) < Len(prog) * 4
        next == IF fetches /\ ~c.HAZARD /\ c.PREDICT_SUCCESS THEN Word(c.PC + 4) ELSE c.IF_PC
    IN  [c EXCEPT !.PIPE[IF_STAGE] = IF ~fetches THEN 0
                                     ELSE IF c.HAZARD \/ c.PREDICT_SUCCESS THEN c.PC ELSE @,
                  !.IF_PC = next,
                  !.PC = CASE c.PCSrc = "JUMP" -> c.JUMP_PC
                           [] c.PCSrc = "BRANCH" -> c.BRANCH_PC
                           [] OTHER -> next]

FaultyFinish(c, prog) ==
    [c EXCEPT !.REGS[0] = 0,
              !.RUN_BIT = /\ ~(c.PIPE[WB_STAGE] # 0 /\ \A s \in 0..2 : c.PIPE[s] = 0)
                          /\ c.INSTRUCTION_COUNT < MAX_INSTRUCTION_NUM]

\* The zero register, and the end of the run: the program has left the
\* pipeline, or as many instructions as were asked for.
Finish(c, prog) ==
    [c EXCEPT !.REGS[0] = 0,
              !.RUN_BIT = /\ c.PIPE[WB_STAGE] < MEM_TEXT_START + Len(prog) * 4
                          /\ ~(c.PIPE[WB_STAGE] # 0 /\ \A s \in 0..3 : c.PIPE[s] = 0)
                          /\ c.INSTRUCTION_COUNT < MAX_INSTRUCTION_NUM]

-----------------------------------------------------------------------------
(* Where the two simulators are known to differ (README, section 4); a     *)
(* program that meets one of these is not judged from there on.            *)

\* EX takes a value from an instruction that writes no register.
ForwardsNothing(c) ==
    /\ c.PIPE[EX_STAGE] # 0 /\ c.ID_EX.op \notin Jumping
    /\ \/ ~Forwarded(c, c.ID_EX.RS, 0).WRITES
       \/ (~c.ID_EX_CONTROL.ALUSrc /\ ~Forwarded(c, c.ID_EX.RT, 0).WRITES)

Pending(c, reg) ==
    /\ reg # 0
    /\ (c.EX_MEM.RegWrite /\ c.EX_MEM.DEST = reg) \/ (c.MEM_WB.RegWrite /\ c.MEM_WB.DEST = reg)

\* ID reads the register of jr, or writes that of jal, out of turn.
JumpsOutOfTurn(c, prog) ==
    LET i == get_inst_info(prog, c.PIPE[ID_STAGE])
    IN  /\ c.PIPE[ID_STAGE] # 0
        /\ \/ i.op = "jr" /\ Pending(c, i.rs)
           \/ /\ i.op = "jal"
              /\ \/ Pending(c, LINK)
                 \/ c.EX_MEM.MemWrite /\ c.EX_MEM.DEST = LINK
                 \/ c.EX_MEM.Branch /\ c.EX_MEM.BR_TAKE = 1

\* The single-step machine keeps what is written to register 0, compares and
\* shifts without a sign, keeps the sign of the immediate of ori, and stops at
\* a jump out of the program, which leaves IF_PC of the pipeline where it was.
Unlike(s, prog) ==
    LET i == get_inst_info(prog, s.PC)
        a == s.REGS[i.rs]
        b == s.REGS[i.rt]
        pc == Word(s.PC + 4)
    IN  \/ process_instruction(s, prog).REGS[0] # 0
        \/ i.op = "slt" /\ (Signed(a) < 0) # (Signed(b) < 0)
        \/ i.op = "srl" /\ Signed(b) < 0
        \/ i.op = "ori" /\ i.imm < 0
        \/ NextPC(i, a, b, pc) # pc /\ Outside(prog, NextPC(i, a, b, pc))

-----------------------------------------------------------------------------
Boot(prog, mem) ==
    /\ program = prog
    /\ isa = Loaded(mem)
    /\ cpu = [PC |-> MEM_TEXT_START, REGS |-> [r \in REGISTERS |-> 0], mem |-> mem,
              PIPE |-> [s \in 0..4 |-> 0],
              ID_EX |-> NoOperands, ID_EX_CONTROL |-> NoControl,
              EX_MEM |-> NoExecution, MEM_WB |-> NoResult,
              EX_MEM_FORWARD |-> [REG |-> 0, VALUE |-> 0, WRITES |-> FALSE],
              MEM_WB_FORWARD |-> [REG |-> 0, VALUE |-> 0, WRITES |-> FALSE],
              IF_PC |-> 0, JUMP_PC |-> 0, BRANCH_PC |-> 0, PCSrc |-> "IF",
              PREDICTION |-> FALSE, PREDICT_SUCCESS |-> FALSE, HAZARD |-> FALSE,
              INSTRUCTION_COUNT |-> 0, CYCLE_COUNT |-> 0, RUN_BIT |-> TRUE, exited |-> FALSE]
    /\ inorder = TRUE /\ apart = FALSE

MipsInit == \E prog \in Programs, mem \in Memories : Boot(prog, mem)

\* cycle(): process_instruction() runs the stages from the last to the first.
\* The instruction that was in WB has left, and the other machine does it.
Cycle ==
    /\ cpu.RUN_BIT /\ ~cpu.exited
    /\ \E c1 \in {WB_Stage(pipeline_init(cpu))} : \E c2 \in {MEM_Stage(c1)} :
       \E c3 \in {IF c2.exited THEN c2 ELSE EX_Stage(c2)} :
       \E c4 \in {IF c2.exited THEN c2 ELSE ID_Stage(c3, program)} :
        LET left == c1.PIPE[WB_STAGE]
        IN  /\ cpu' = IF c2.exited THEN c2
                      ELSE [Finish(IF_Stage(c4, program), program) EXCEPT !.CYCLE_COUNT = @ + 1]
            /\ isa' = IF left # 0 /\ isa.RUN_BIT THEN process_instruction(isa, program) ELSE isa
            /\ inorder' = (inorder /\ (left # 0 => isa.RUN_BIT /\ isa.PC = left))
            /\ apart' = \/ apart
                        \/ ~c2.exited /\ (ForwardsNothing(c2) \/ JumpsOutOfTurn(c3, program))
                        \/ left # 0 /\ isa.RUN_BIT /\ Unlike(isa, program)
    /\ UNCHANGED program

MipsSpec == MipsInit /\ [][Cycle]_mips

-----------------------------------------------------------------------------
\* Stalls, forwards and flushes are invisible: instructions leave the
\* pipeline in the order of the single-step machine, and after each of them
\* the registers are those of that machine.  jal alone writes its register
\* in ID, before it leaves.
LockStep == ~apart =>
    /\ inorder
    /\ \A r \in REGISTERS \ {LINK} : cpu.REGS[r] = isa.REGS[r]
    /\ (\A s \in {ID_STAGE, EX_STAGE, MEM_STAGE} :
            cpu.PIPE[s] # 0 => get_inst_info(program, cpu.PIPE[s]).op # "jal")
         => cpu.REGS[LINK] = isa.REGS[LINK]

\* The two machines stop together, with the same memory; no instruction
\* costs more than three cycles beyond its own, so that the pipeline never
\* waits for ever.
HaltsTogether == ~apart /\ ~cpu.exited =>
    /\ ~isa.RUN_BIT => ~cpu.RUN_BIT /\ cpu.mem = isa.mem
    /\ ~cpu.RUN_BIT => ~isa.RUN_BIT \/ cpu.INSTRUCTION_COUNT >= MAX_INSTRUCTION_NUM
    /\ cpu.CYCLE_COUNT <= 4 * cpu.INSTRUCTION_COUNT + 5

=============================================================================
