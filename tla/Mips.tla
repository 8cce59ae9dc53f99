-------------------------------- MODULE Mips --------------------------------
(***************************************************************************)
(* The instructions and the single-step simulator of CS311/project2.  An   *)
(* instruction is a record with the fields of inst_s, and its name (op) in *)
(* place of opcode and func_code.  A word has four bytes of BYTE values    *)
(* each (256 in the code) and an immediate two, kept as a signed number;   *)
(* a machine is a record of PC, REGS, mem and RUN_BIT.                     *)
(***************************************************************************)
EXTENDS Walks, Sequences

CONSTANTS BYTE,            \* values of a byte
          REGISTERS,       \* 0..31 in the code
          LINK,            \* 31
          MEM_TEXT_START, MEM_TEXT_SIZE, MEM_DATA_START, MEM_DATA_SIZE

WORD == BYTE * BYTE * BYTE * BYTE
HALF == BYTE * BYTE

\* A byte has at most eight bits, so that BitAnd comes to all 32 of a word.  The
\* text lies in the lowest sixteenth of the addresses: in the code it begins at
\* 0x400000 and has 0x100000 bytes.
ASSUME WordAssumption == BYTE \in {2, 4, 8, 16, 32, 64, 128, 256}
ASSUME RegisterAssumption == 0 \in REGISTERS /\ LINK \in REGISTERS \ {0}
ASSUME TextAssumption ==
    /\ MEM_TEXT_START \in Nat \ {0} /\ MEM_TEXT_SIZE \in Nat
    /\ MEM_TEXT_START % 4 = 0 /\ MEM_TEXT_START + MEM_TEXT_SIZE + 4 <= WORD \div 16

RType == {"add", "and", "jr", "nor", "or", "slt", "sll", "srl", "sub"}
Branches == {"beq", "bne"}
Jumps == {"j", "jal"}
IType == {"addi", "andi", "lui", "lw", "ori", "slti", "sw"} \cup Branches

Signed(v) == IF v >= WORD \div 2 THEN v - WORD ELSE v
Word(v) == v % WORD

\* a & b, whose bits are added up from the lowest, and a | b, of words.
BitAnd(a, b) ==
    LET next == [s \in [a : Nat, b : Nat, place : Nat, sum : Nat] |->
                    IF s.a = 0 THEN s
                    ELSE [a |-> s.a \div 2, b |-> s.b \div 2, place |-> 2 * s.place,
                          sum |-> s.sum + (IF s.a % 2 = 1 /\ s.b % 2 = 1 THEN s.place ELSE 0)]]
    IN  Walk(next, [a |-> a, b |-> b, place |-> 1, sum |-> 0])[32].sum
BitOr(a, b) == WORD - 1 - BitAnd(WORD - 1 - a, WORD - 1 - b)

\* v << n, before it is cut to a word, and v >> n.
ShiftLeft(v, n) == Walk([x \in Nat |-> 2 * x], v)[n]
ShiftRightBy(v, n) == Walk([x \in Int |-> x \div 2], v)[n]

-----------------------------------------------------------------------------
(* Memory: bytes, the lowest first.  Outside the two regions a read gives  *)
(* 0 and a write is lost.                                                  *)

Text == MEM_TEXT_START..(MEM_TEXT_START + MEM_TEXT_SIZE - 1)
Data == MEM_DATA_START..(MEM_DATA_START + MEM_DATA_SIZE - 1)
InRange(address) == address \in Text \cup Data

\* What a byte of a word counts for.
Weight == [k \in 0..3 |-> CASE k = 0 -> 1 [] k = 1 -> BYTE [] k = 2 -> HALF [] k = 3 -> BYTE * HALF]

\* Before a program is loaded.
init_memory == [a \in Text \cup Data |-> 0]

\* A word that begins in a region and ends outside it is not accessed: the
\* programs that run here only access aligned words.
Whole(mem, address) == {address + i : i \in 0..3} \subseteq DOMAIN mem

mem_read_32(mem, address) ==
    IF ~Whole(mem, address) THEN 0
    ELSE mem[address] + BYTE * mem[address + 1] + HALF * mem[address + 2]
         + BYTE * HALF * mem[address + 3]

mem_write_32(mem, address, value) ==
    [a \in DOMAIN mem |->
        IF a \in address..(address + 3) /\ Whole(mem, address)
        THEN (value \div Weight[a - address]) % BYTE ELSE mem[a]]

-----------------------------------------------------------------------------
(* One instruction at a time.                                              *)

get_inst_info(prog, pc) == prog[(Word(pc - MEM_TEXT_START) \div 4) + 1]
Outside(prog, pc) == Word(pc - MEM_TEXT_START) \div 4 >= Len(prog)

\* The target of a jump keeps the upper sixteenth of the address.
JumpTarget(pc, i) == (pc - (pc % (WORD \div 16))) + ((i.target * 4) % (WORD \div 16))

\* What an instruction puts in a register; a and b are REGS[rs] and REGS[rt].
Result(i, a, b, mem, pc) ==
    CASE i.op = "add"  -> Word(a + b)
      [] i.op = "sub"  -> Word(a - b)
      [] i.op = "and"  -> BitAnd(a, b)
      [] i.op = "or"   -> BitOr(a, b)
      [] i.op = "nor"  -> WORD - 1 - BitOr(a, b)
      [] i.op = "slt"  -> IF a < b THEN 1 ELSE 0
      [] i.op = "sll"  -> Word(ShiftLeft(b, i.shamt))
      [] i.op = "srl"  -> ShiftRightBy(b, i.shamt)
      [] i.op = "addi" -> Word(a + i.imm)
      [] i.op = "andi" -> BitAnd(a, Word(i.imm))
      [] i.op = "ori"  -> BitOr(a, Word(i.imm))
      [] i.op = "lui"  -> Word(i.imm * HALF)
      [] i.op = "slti" -> IF Signed(a) < i.imm THEN 1 ELSE 0
      [] i.op = "lw"   -> mem_read_32(mem, Word(a + i.imm))
      [] i.op = "jal"  -> pc

\* The register an instruction writes, if it writes one.
Written(i) == IF i.op = "jal" THEN LINK ELSE IF i.op \in RType THEN i.rd ELSE i.rt
Writes(i) == i.op \notin {"jr", "j", "sw"} \cup Branches

NextPC(i, a, b, pc) ==
    CASE i.op = "jr" -> a
      [] i.op \in Jumps -> JumpTarget(pc, i)
      [] (i.op = "beq" /\ a = b) \/ (i.op = "bne" /\ a # b) -> Word(pc + i.imm * 4)
      [] OTHER -> pc

process_instruction(s, prog) ==
    LET i == get_inst_info(prog, s.PC)
        a == s.REGS[i.rs]
        b == s.REGS[i.rt]
        pc == Word(s.PC + 4)
    IN  [PC |-> NextPC(i, a, b, pc),
         REGS |-> IF Writes(i) THEN [s.REGS EXCEPT ![Written(i)] = Result(i, a, b, s.mem, pc)]
                  ELSE s.REGS,
         mem |-> IF i.op = "sw" THEN mem_write_32(s.mem, Word(a + i.imm), b) ELSE s.mem,
         RUN_BIT |-> ~Outside(prog, NextPC(i, a, b, pc))]

\* The machine after load_program(), which has put text and data in memory.
Loaded(mem) == [PC |-> MEM_TEXT_START, REGS |-> [r \in REGISTERS |-> 0],
                mem |-> mem, RUN_BIT |-> TRUE]

-----------------------------------------------------------------------------
(* Words in the file: 32 characters, the highest bit first.                *)

Opcode == [add |-> 0, and |-> 0, jr |-> 0, nor |-> 0, or |-> 0, slt |-> 0, sll |-> 0, srl |-> 0,
           sub |-> 0, addi |-> 8, andi |-> 12, beq |-> 4, bne |-> 5, lui |-> 15, lw |-> 35,
           ori |-> 13, slti |-> 10, sw |-> 43, j |-> 2, jal |-> 3]
Function == [add |-> 32, and |-> 36, jr |-> 8, nor |-> 39, or |-> 37, slt |-> 42, sll |-> 0,
             srl |-> 2, sub |-> 34]

fromBinary(bits) ==
    LET value[n \in 0..Len(bits)] == IF n = 0 THEN 0 ELSE 2 * value[n - 1] + bits[n]
    IN  value[Len(bits)]

\* (binary >> low) & mask of a field of n bits, the highest being bit high.
Field(word, high, n) == fromBinary(SubSeq(word, 32 - high, 31 - high + n))
Short(v) == IF v >= 32768 THEN v - 65536 ELSE v

\* The fields that the format of the instruction has.
parsing_instr(word) ==
    LET opcode == Field(word, 31, 6)
        op == CHOOSE o \in DOMAIN Opcode :
                  Opcode[o] = opcode /\ (o \in RType => Function[o] = Field(word, 5, 6))
        rs == Field(word, 25, 5)
        rt == Field(word, 20, 5)
    IN  IF op \in RType
        THEN [op |-> op, rs |-> rs, rt |-> rt, rd |-> Field(word, 15, 5), shamt |-> Field(word, 10, 5)]
        ELSE IF op \in Jumps THEN [op |-> op, target |-> Field(word, 25, 26)]
        ELSE [op |-> op, rs |-> rs, rt |-> rt, imm |-> Short(Field(word, 15, 16))]

\* The instructions and the data of a file: two sizes, the text, the data.
load_program(file) ==
    LET text == fromBinary(file[1]) \div 4
        data == fromBinary(file[2]) \div 4
    IN  [text |-> [i \in 1..text |-> parsing_instr(file[2 + i])],
         data |-> [i \in 1..data |-> file[2 + text + i]]]

=============================================================================
