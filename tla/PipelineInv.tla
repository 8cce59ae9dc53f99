----------------------------- MODULE PipelineInv -----------------------------
(***************************************************************************)
(* The inductive invariant of Pipeline.  It compares what is in each stage *)
(* with the single-step machine run ahead over the instructions that are   *)
(* still to leave.                                                         *)
(***************************************************************************)
EXTENDS Pipeline

Values == 0..(WORD - 1)
InText(pc) == pc \in MEM_TEXT_START..(MEM_TEXT_START + 4 * Len(program) - 1)
Busy(s)    == cpu.PIPE[s] # 0
At(s)      == get_inst_info(program, cpu.PIPE[s])

\* The register of the DEST field, and where an instruction goes on.
Dest(i)  == IF i.op \in RType THEN i.rd ELSE i.rt
Value(i, s) == Result(i, s.REGS[i.rs], s.REGS[i.rt], s.mem, Word(s.PC + 4))
After(s) == Word(cpu.PIPE[s] + 4)
BranchTarget(s) == Word(cpu.PIPE[s] + At(s).imm * 4 + 4)

\* The single-step machine when what is in MEM has left, and what is in EX.
Step(s)  == process_instruction(s, program)
PastMEM  == IF Busy(MEM_STAGE) THEN Step(isa) ELSE isa
PastEX   == IF Busy(EX_STAGE) THEN Step(PastMEM) ELSE PastMEM

-----------------------------------------------------------------------------
(* Whatever the instructions in the pipeline are, and also where they are  *)
(* the wrong ones.                                                         *)

Fields == {"PC", "REGS", "mem", "PIPE", "ID_EX", "ID_EX_CONTROL", "EX_MEM", "MEM_WB",
           "EX_MEM_FORWARD", "MEM_WB_FORWARD", "IF_PC", "JUMP_PC", "BRANCH_PC", "PCSrc",
           "PREDICTION", "PREDICT_SUCCESS", "HAZARD", "INSTRUCTION_COUNT", "CYCLE_COUNT",
           "RUN_BIT", "exited"}

CpuType ==
    /\ DOMAIN cpu = Fields
    /\ DOMAIN cpu.PIPE = 0..4 /\ \A s \in 0..4 : cpu.PIPE[s] = 0 \/ InText(cpu.PIPE[s])
    /\ cpu.PC \in Values /\ cpu.IF_PC \in Values
    /\ DOMAIN cpu.REGS = REGISTERS /\ \A r \in REGISTERS : cpu.REGS[r] \in Values
    /\ cpu.PREDICTION \in BOOLEAN
    /\ cpu.INSTRUCTION_COUNT \in Nat /\ cpu.CYCLE_COUNT \in Nat

IsaType(s) ==
    /\ s.PC \in Values /\ s.REGS \in [REGISTERS -> Values] /\ s.REGS[0] = 0
    /\ s.mem \in [Text \cup Data -> 0..(BYTE - 1)]
    /\ s.RUN_BIT = ~Outside(program, s.PC)
IsaInv == IsaType(isa)

\* A latch has what its instruction asks for; a jump leaves a stale DEST.
MEM_WBInv ==
    IF Busy(MEM_STAGE)
    THEN /\ cpu.MEM_WB.RegWrite = control_init(At(MEM_STAGE)).RegWrite
         /\ cpu.MEM_WB.MemtoReg = control_init(At(MEM_STAGE)).MemtoReg
         /\ At(MEM_STAGE).op \notin Jumping => cpu.MEM_WB.DEST = Dest(At(MEM_STAGE))
    ELSE cpu.MEM_WB = NoResult

EX_MEMInv ==
    IF Busy(EX_STAGE)
    THEN LET i == At(EX_STAGE)
             latch == cpu.EX_MEM
         IN  /\ latch.RegWrite = control_init(i).RegWrite /\ latch.MemtoReg = control_init(i).MemtoReg
             /\ latch.MemRead = control_init(i).MemRead /\ latch.MemWrite = control_init(i).MemWrite
             /\ latch.Branch = control_init(i).Branch
             /\ latch.Branch => latch.BR_TARGET = BranchTarget(EX_STAGE)
             /\ i.op \notin Jumping => latch.DEST = Dest(i)
             /\ i.op \in Jumping \/ (latch.Branch /\ cpu.PREDICTION) => ~Busy(ID_STAGE)
    ELSE cpu.EX_MEM = NoExecution

ID_EXInv ==
    /\ Busy(ID_STAGE) =>
         LET i == At(ID_STAGE)
             latch == cpu.ID_EX
         IN  /\ cpu.ID_EX_CONTROL = control_init(i)
             /\ latch.op = i.op /\ latch.RS = i.rs /\ latch.RT = i.rt
             /\ latch.SH = i.shamt /\ latch.IMM = i.imm
             /\ i.op \notin Jumping => /\ latch.REG1 = cpu.REGS[i.rs] /\ latch.REG2 = cpu.REGS[i.rt]
                                       /\ latch.DEST = Dest(i)
    /\ cpu.HAZARD = /\ Busy(ID_STAGE) /\ cpu.EX_MEM.MemRead
                    /\ cpu.EX_MEM.DEST \in {At(ID_STAGE).rs, At(ID_STAGE).rt}

\* jal writes its register when it is decoded, and nothing before it does later.
Links(s) == Busy(s) /\ At(s).op = "jal"

LinkInv ==
    /\ ~JumpsOutOfTurn(cpu, program)
    /\ Links(EX_STAGE) => ~(cpu.MEM_WB.RegWrite /\ cpu.MEM_WB.DEST = LINK)
    /\ cpu.REGS[LINK] = IF Links(ID_STAGE) THEN cpu.PIPE[ID_STAGE] + 4
                        ELSE IF Links(EX_STAGE) THEN cpu.PIPE[EX_STAGE] + 4
                        ELSE IF Links(MEM_STAGE) THEN cpu.PIPE[MEM_STAGE] + 4
                        ELSE isa.REGS[LINK]

RegisterInv == \A r \in REGISTERS \ {LINK} : cpu.REGS[r] = isa.REGS[r]

-----------------------------------------------------------------------------
(* What is to come, as far as no instruction before it is one the two      *)
(* machines do differently.                                                *)

\* A branch in EX that went the other way: what is behind it is dropped.
Missed == cpu.EX_MEM.Branch /\ (cpu.EX_MEM.BR_TAKE = 1) # cpu.PREDICTION

Redirects == At(ID_STAGE).op \in Jumping \/ (At(ID_STAGE).op \in Branches /\ cpu.PREDICTION)
Target == IF At(ID_STAGE).op = "jr" THEN cpu.REGS[At(ID_STAGE).rs]
          ELSE IF At(ID_STAGE).op \in Jumps THEN JumpTarget(cpu.PIPE[ID_STAGE], At(ID_STAGE))
          ELSE BranchTarget(ID_STAGE)

\* IF has fetched the instruction at pc, or is about to.
Fetching(pc) ==
    IF Busy(IF_STAGE)
    THEN cpu.PIPE[IF_STAGE] = pc /\ cpu.PC = Word(pc + 4) /\ cpu.IF_PC = cpu.PC
    ELSE /\ cpu.PC = pc
         /\ IF InText(pc) THEN /\ ~Busy(ID_STAGE) /\ ~Busy(EX_STAGE)
                               /\ Busy(MEM_STAGE) \/ cpu.CYCLE_COUNT = 0
            ELSE cpu.IF_PC = pc

\* IF and ID have the instruction at pc and what is predicted to follow it.
FrontInv(pc) ==
    IF ~Busy(ID_STAGE) THEN Fetching(pc)
    ELSE /\ cpu.PIPE[ID_STAGE] = pc
         /\ IF Redirects THEN /\ cpu.PC = Target
                              /\ Target = After(ID_STAGE) /\ ~InText(Target) => cpu.IF_PC = Target
            ELSE IF cpu.HAZARD THEN cpu.PC = After(ID_STAGE) /\ cpu.IF_PC = cpu.PC
            ELSE Fetching(After(ID_STAGE))

\* EX has the instruction of s, and what comes of it.
BehindInv(s) ==
    LET i == At(EX_STAGE)
        a == s.REGS[i.rs]
        b == s.REGS[i.rt]
        latch == cpu.EX_MEM
    IN  /\ latch.RegWrite /\ ~latch.MemRead => latch.ALU_OUT = Value(i, s)
        /\ latch.MemRead \/ latch.MemWrite => latch.ALU_OUT = Word(a + i.imm)
        /\ latch.Branch => latch.BR_TAKE = IF (i.op = "beq") = (a = b) THEN 1 ELSE 0

ExecuteInv ==
    /\ Busy(EX_STAGE) => BehindInv(PastMEM)
    /\ ~Missed => FrontInv(PastEX.PC)
    /\ Missed /\ cpu.EX_MEM.BR_TAKE = 1 /\ ~InText(After(EX_STAGE)) => cpu.IF_PC = After(EX_STAGE)

MemoryInv ==
    /\ cpu.mem = PastMEM.mem
    /\ cpu.MEM_WB.RegWrite =>
         Value(At(MEM_STAGE), isa) = IF cpu.MEM_WB.MemtoReg THEN cpu.MEM_WB.ALU_OUT
                                     ELSE cpu.MEM_WB.MEM_OUT
    /\ Busy(EX_STAGE) => PastMEM.PC = cpu.PIPE[EX_STAGE]
    /\ (Busy(EX_STAGE) => ~Unlike(PastMEM, program)) => ExecuteInv

PathInv ==
    /\ Busy(MEM_STAGE) => isa.PC = cpu.PIPE[MEM_STAGE]
    /\ (Busy(MEM_STAGE) => ~Unlike(isa, program)) => MemoryInv

-----------------------------------------------------------------------------
\* An instruction leaves at the latest four cycles after the one before it.
PaceInv ==
    /\ cpu.CYCLE_COUNT <= 4 * cpu.INSTRUCTION_COUNT
           + (IF Busy(MEM_STAGE) THEN 4 ELSE IF Busy(EX_STAGE) THEN 3 ELSE IF Busy(ID_STAGE) THEN 2
              ELSE 1)
    /\ \/ \E s \in 0..3 : Busy(s)
       \/ cpu.CYCLE_COUNT = 0
       \/ ~cpu.RUN_BIT

HaltInv ==
    /\ ~isa.RUN_BIT => ~cpu.RUN_BIT /\ cpu.mem = isa.mem
    /\ ~cpu.RUN_BIT => ~isa.RUN_BIT \/ cpu.INSTRUCTION_COUNT >= MAX_INSTRUCTION_NUM

RunningInv ==
    /\ CpuType /\ IsaInv /\ MEM_WBInv /\ EX_MEMInv /\ ID_EXInv /\ LinkInv /\ RegisterInv
    /\ PathInv /\ PaceInv /\ HaltInv

MipsInv ==
    /\ program \in Programs
    /\ ~apart => inorder /\ LockStep /\ (~cpu.exited => RunningInv)

=============================================================================
