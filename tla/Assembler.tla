----------------------------- MODULE Assembler ------------------------------
(***************************************************************************)
(* The two-pass assembler of CS311/project1/main.c, a line of the source   *)
(* at a time, up to the file that load_program() reads.  A line is a       *)
(* record: its kind and its operands.  A name is a sequence of letters,    *)
(* since one buffer is used for all labels; a constant is [hex, value].    *)
(***************************************************************************)
EXTENDS Mips, FiniteSets

CONSTANTS Sources  \* sequences of lines

TEXT == 4194304     \* 0x400000
DATA == 268435456   \* 0x10000000

VARIABLES source,
          pass,   \* 1, 2, or 3 when the file is written
          line,   \* the line that is read next
          asm,    \* the variables of main()
          binary, \* the words written so far
          placed, \* words of text before each line, in the second pass
          odd     \* a documented defect was met

assembler == <<source, pass, line, asm, binary, placed, odd>>

\* addNode() appends; findAddress() returns the first of that name, or -1.
addNode(list, node) == Append(list, node)
findAddress(list, name) ==
    LET found == {i \in DOMAIN list : list[i].name = name}
    IN  IF found = {} THEN -1 ELSE list[CHOOSE i \in found : \A j \in found : i <= j].address

\* value >> n of an int, and the lowest n bits as characters.
ShiftRight(value, n) == IF n < 31 THEN value \div 2^n ELSE IF value < 0 THEN -1 ELSE 0
vtob(value, n) == [i \in 1..n |-> ShiftRight(value, n - i) % 2]

\* atoi() stops at the x of a negative hexadecimal number.
Constant(c) == IF c.hex /\ c.value < 0 THEN 0 ELSE c.value

R_itob(op, rs, rt, rd, shamt) ==
    vtob(Opcode[op], 6) \o vtob(rs, 5) \o vtob(rt, 5) \o vtob(rd, 5) \o vtob(shamt, 5)
    \o vtob(Function[op], 6)
I_itob(op, rs, rt, constant) == vtob(Opcode[op], 6) \o vtob(rs, 5) \o vtob(rt, 5) \o vtob(constant, 16)
J_itob(op, address) == vtob(Opcode[op], 6) \o vtob(address, 26)

\* The operands in the order of the source.
R_format(l) ==
    IF l.op = "jr" THEN R_itob(l.op, l.regs[1], 0, 0, 0)
    ELSE IF l.op \in {"sll", "srl"}
    THEN R_itob(l.op, 0, l.regs[2], l.regs[1], Constant(l.constant))
    ELSE R_itob(l.op, l.regs[2], l.regs[3], l.regs[1], 0)

I_format(l) ==
    IF l.op = "lui" THEN I_itob(l.op, 0, l.regs[1], Constant(l.constant))
    ELSE I_itob(l.op, l.regs[2], l.regs[1], Constant(l.constant))

FaultyI_branch(l, labels, pc) ==
    I_itob(l.op, l.regs[1], l.regs[2], ShiftRight(findAddress(labels, l.name) - (pc - 4), 2) % 65536)

\* The distance in words from the next instruction, at pc.
I_branch(l, labels, pc) ==
    I_itob(l.op, l.regs[1], l.regs[2], ShiftRight(findAddress(labels, l.name) - pc, 2) % 65536)

J_format(l, labels) == J_itob(l.op, ShiftRight(findAddress(labels, l.name) % 268435456, 2))

\* la is lui, and ori when the lower half of the address is not zero.
LoadAddress(l, address) ==
    <<I_itob("lui", 0, l.regs[1], ShiftRight(address, 16) % 65536)>>
    \o (IF address % 65536 = 0 THEN <<>>
        ELSE <<I_itob("ori", l.regs[1], l.regs[1], address % 65536)>>)

\* strncpy(label_name, s, strlen(s) - 1) over what the buffer held.
Overlaid(buffer, name) == name \o SubSeq(buffer, Len(name) + 1, Len(buffer))

Instructions == {"op", "branch", "jump", "la"}

\* The words of an instruction, whose first is at pc - 4.
Assemble(l, data, labels, pc) ==
    CASE l.kind = "la" -> LoadAddress(l, findAddress(data, l.name))
      [] l.kind = "branch" -> <<I_branch(l, labels, pc)>>
      [] l.kind = "jump" -> <<J_format(l, labels)>>
      [] l.op \in RType -> <<R_format(l)>>
      [] OTHER -> <<I_format(l)>>

-----------------------------------------------------------------------------
Open(lines) ==
    /\ source = lines
    /\ pass = 1 /\ line = 1
    /\ asm = [data_flag |-> FALSE, text_flag |-> FALSE, name |-> <<>>, label_name |-> <<>>,
              data_pointer |-> DATA, text_pointer |-> TEXT, pc |-> TEXT,
              data_list |-> <<>>, label_list |-> <<>>]
    /\ binary = <<>> /\ odd = FALSE
    /\ placed = [i \in DOMAIN source |-> 0]

AssemblerInit == \E lines \in Sources : Open(lines)

Current == source[line]

\* The first reading of a line: sections, sizes, names and their addresses.
Declare ==
    /\ pass = 1 /\ line <= Len(source)
    /\ line' = line + 1
    /\ CASE Current.kind \in {".data", ".text"} ->
              asm' = [asm EXCEPT !.data_flag = Current.kind = ".data"]
         [] Current.kind = "name" -> asm' = [asm EXCEPT !.name = Current.name]
         [] Current.kind = "word" ->
              asm' = [asm EXCEPT !.data_list = addNode(@, [name |-> asm.name,
                                                            value |-> Constant(Current.constant),
                                                            address |-> asm.data_pointer]),
                                 !.data_pointer = @ + 4]
         [] Current.kind = "label" ->
              LET name == Overlaid(asm.label_name, Current.name)
              IN  asm' = [asm EXCEPT !.label_name = name,
                                     !.label_list = addNode(@, [name |-> name, value |-> 0,
                                                                 address |-> asm.text_pointer])]
         [] Current.kind = "la" ->
              asm' = [asm EXCEPT !.text_pointer =
                         @ + (IF findAddress(asm.data_list, Current.name) % 65536 = 0 THEN 4 ELSE 8)]
         [] OTHER -> asm' = [asm EXCEPT !.text_pointer = @ + 4]
    /\ odd' = \/ odd
              \/ Current.kind = "label" /\ Overlaid(asm.label_name, Current.name) # Current.name
              \/ Current.kind = "la" /\ findAddress(asm.data_list, Current.name) = -1
              \/ Current.kind = "op" /\ Constant(Current.constant) # Current.constant.value
    /\ UNCHANGED <<source, pass, binary, placed>>

\* The sizes are written, and the source is read again.
Reread ==
    /\ pass = 1 /\ line > Len(source)
    /\ pass' = 2 /\ line' = 1
    /\ binary' = <<vtob(asm.text_pointer - TEXT, 32), vtob(asm.data_pointer - DATA, 32)>>
    /\ UNCHANGED <<source, asm, placed, odd>>

\* The second reading of a line: from the first .text on, instructions.
Translate ==
    /\ pass = 2 /\ line <= Len(source)
    /\ line' = line + 1
    /\ placed' = [placed EXCEPT ![line] = Len(binary) - 2]
    /\ IF asm.text_flag /\ Current.kind \in Instructions
       THEN LET words == Assemble(Current, asm.data_list, asm.label_list, asm.pc + 4)
            IN  /\ binary' = binary \o words
                /\ asm' = [asm EXCEPT !.pc = @ + 4 * Len(words)]
       ELSE /\ binary' = binary
            /\ asm' = [asm EXCEPT !.text_flag = @ \/ Current.kind = ".text"]
    /\ UNCHANGED <<source, pass, odd>>

\* The data follow the text.
WriteData ==
    /\ pass = 2 /\ line > Len(source)
    /\ pass' = 3
    /\ binary' = binary \o [i \in DOMAIN asm.data_list |-> vtob(asm.data_list[i].value, 32)]
    /\ UNCHANGED <<source, line, asm, placed, odd>>

AssemblerNext == Declare \/ Reread \/ Translate \/ WriteData
AssemblerSpec == AssemblerInit /\ [][AssemblerNext]_assembler

-----------------------------------------------------------------------------
Lines(kinds) == {i \in DOMAIN source : source[i].kind \in kinds}

\* The line that declares a name.
Declares(i, name, kind) ==
    /\ source[i].kind = kind /\ source[i].name = name
    /\ \A j \in 1..(i - 1) : ~(source[j].kind = kind /\ source[j].name = name)

\* The simulator gets what the source says, over both passes: as many
\* instructions and words as there are, each with its registers and its
\* constant, and every label where the second reading met it, although its
\* address was counted in the first, when la had one word or two.
AssembledAsWritten == pass = 3 /\ ~odd =>
    LET file == load_program(binary)
    IN  /\ Len(file.text) + Len(file.data) = Len(binary) - 2
        /\ file.data = [k \in 1..Cardinality(Lines({"word"})) |->
               vtob(source[CHOOSE i \in Lines({"word"}) :
                        Cardinality({j \in Lines({"word"}) : j <= i}) = k].constant.value, 32)]
        /\ \A i \in Lines(Instructions) :
             LET l == source[i]
                 w == file.text[placed[i] + 1]
             IN  CASE l.kind = "branch" ->
                        /\ <<w.op, w.rs, w.rt>> = <<l.op, l.regs[1], l.regs[2]>>
                        /\ \A t \in DOMAIN source : Declares(t, l.name, "label") =>
                               placed[i] + 1 + w.imm = placed[t]
                   [] l.kind = "jump" ->
                        \A t \in DOMAIN source : Declares(t, l.name, "label") =>
                            w = [op |-> l.op, target |-> TEXT \div 4 + placed[t]]
                   [] l.kind = "la" ->
                        \A t \in DOMAIN source : Declares(t, l.name, "name") =>
                            LET below == Cardinality({j \in Lines({"word"}) : j < t})
                            IN  /\ w = [op |-> "lui", rs |-> 0, rt |-> l.regs[1], imm |-> DATA \div 65536]
                                /\ below > 0 => file.text[placed[i] + 2] =
                                     [op |-> "ori", rs |-> l.regs[1], rt |-> l.regs[1], imm |-> 4 * below]
                   [] l.op \in {"sll", "srl"} ->
                        w = [op |-> l.op, rs |-> 0, rt |-> l.regs[2], rd |-> l.regs[1],
                             shamt |-> l.constant.value]
                   [] l.op = "jr" -> <<w.op, w.rs>> = <<l.op, l.regs[1]>>
                   [] l.op \in RType ->
                        w = [op |-> l.op, rs |-> l.regs[2], rt |-> l.regs[3], rd |-> l.regs[1], shamt |-> 0]
                   [] OTHER ->
                        /\ <<w.op, w.rt, w.imm>> = <<l.op, l.regs[1], l.constant.value>>
                        /\ w.rs = IF l.op = "lui" THEN 0 ELSE l.regs[2]

=============================================================================
