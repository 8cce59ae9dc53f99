---------------------------- MODULE CS311_proofs ----------------------------
(***************************************************************************)
(* The simulators of CS311.  The pipeline is in step with the single-step  *)
(* machine for every program: first the arithmetic of words and addresses, *)
(* then what each stage does to the state, the cycle as a whole, what it   *)
(* does to each part of MipsInv, and the theorems.  After them the cache,  *)
(* for every geometry, trace and policy: the arithmetic of addresses, the  *)
(* way an access ends in, then CacheInv step by step.                      *)
(***************************************************************************)
EXTENDS PipelineInv, CacheSimInv, NatFacts, FiniteSetTheorems

-----------------------------------------------------------------------------
\* Words, and the text in the first sixteenth of the addresses.
LEMMA WordFacts ==
    /\ BYTE \in Nat /\ BYTE >= 2 /\ BYTE % 2 = 0
    /\ HALF \in Nat /\ HALF >= 4 /\ HALF % 2 = 0 /\ HALF = BYTE * BYTE
    /\ WORD \in Nat /\ WORD >= 16 /\ WORD % 16 = 0 /\ HALF * HALF = WORD
    /\ WORD >= 2 * HALF
<1>1. CASE BYTE = 2
  BY <1>1 DEF HALF, WORD
<1>2. CASE BYTE = 4
  BY <1>2 DEF HALF, WORD
<1>3. CASE BYTE = 8
  BY <1>3 DEF HALF, WORD
<1>4. CASE BYTE = 16
  BY <1>4 DEF HALF, WORD
<1>5. CASE BYTE = 32
  BY <1>5 DEF HALF, WORD
<1>6. CASE BYTE = 64
  BY <1>6 DEF HALF, WORD
<1>7. CASE BYTE = 128
  BY <1>7 DEF HALF, WORD
<1>8. CASE BYTE = 256
  BY <1>8 DEF HALF, WORD
<1>. QED BY <1>1, <1>2, <1>3, <1>4, <1>5, <1>6, <1>7, <1>8, WordAssumption

\* The remainder of a number that may be negative.
LEMMA ModFacts ==
    ASSUME NEW n \in Nat, n > 0, NEW v \in Int
    PROVE  /\ v % n \in 0..(n - 1)
           /\ v \in 0..(n - 1) => v % n = v
  OBVIOUS

\* The remainder of a negative number that is not too far from 0.
LEMMA NegativeMod ==
    ASSUME NEW n \in Nat, n > 0, NEW v \in Int, v < 0, v >= -n
    PROVE  v % n = v + n
<1> DEFINE q == v \div n
           r == v % n
<1>1. q \in Int /\ r \in 0..(n - 1) /\ v = n * q + r
  OBVIOUS
<1> HIDE DEF q, r
<1>2. ~(q >= 0)
  <2>1. q >= 0 => n * q >= 0
    BY <1>1
  <2>. QED BY <2>1, <1>1
<1>3. ~(q <= -2)
  <2>1. q <= -2 => n * q <= n * (-2)
    BY <1>1
  <2>2. n * (-2) = -2 * n
    OBVIOUS
  <2>. QED BY <2>1, <2>2, <1>1
<1>4. q = -1
  BY <1>1, <1>2, <1>3
<1>5. n * q = -n
  BY <1>4
<1>6. r = v + n
  BY <1>1, <1>5
<1>. QED BY <1>6 DEF r

\* What is cut to a word is a word, and a word is cut to itself.
LEMMA WordRange ==
    ASSUME NEW v \in Int
    PROVE  /\ Word(v) \in Values
           /\ v \in Values => Word(v) = v
  BY WordFacts, ModFacts DEF Word, Values

\* Where the text is.
LEMMA TextFacts ==
    /\ MEM_TEXT_START \in Nat /\ MEM_TEXT_START > 0 /\ MEM_TEXT_START % 4 = 0
    /\ MEM_TEXT_SIZE \in Nat
    /\ MEM_TEXT_START + MEM_TEXT_SIZE + 4 <= WORD \div 16
    /\ WORD \div 16 \in Nat /\ WORD \div 16 > 0 /\ WORD \div 16 <= WORD
    /\ WORD = 16 * (WORD \div 16)
  BY TextAssumption, WordFacts

-----------------------------------------------------------------------------
(* What the operators of Mips yield.                                       *)

\* & does not yield more than its first operand.
LEMMA BitAndRange ==
    ASSUME NEW a \in Nat, NEW b \in Nat
    PROVE  BitAnd(a, b) \in 0..a
<1> DEFINE R == [a : Nat, b : Nat, place : Nat, sum : Nat]
           next == [s \in R |->
                    IF s.a = 0 THEN s
                    ELSE [a |-> s.a \div 2, b |-> s.b \div 2, place |-> 2 * s.place,
                          sum |-> s.sum + (IF s.a % 2 = 1 /\ s.b % 2 = 1 THEN s.place ELSE 0)]]
           start == [a |-> a, b |-> b, place |-> 1, sum |-> 0]
           w == Walk(next, start)
           S == {n \in Nat : w[n] \in R /\ w[n].sum + w[n].place * w[n].a <= a}
<1>1. w[0] = start /\ \A n \in Nat : w[n + 1] = next[w[n]]
  <2> HIDE DEF next, start
  <2>. QED BY WalkFacts
<1>2. 0 \in S
  <2>1. start \in R /\ start.sum + start.place * start.a <= a
    OBVIOUS
  <2>2. w[0] = start
    BY <1>1
  <2> HIDE DEF w, R, start
  <2>. QED BY <2>1, <2>2
<1>3. ASSUME NEW s \in R, s.sum + s.place * s.a <= a
      PROVE  next[s] \in R /\ next[s].sum + next[s].place * next[s].a <= a
  <2>0. s.a \in Nat /\ s.b \in Nat /\ s.place \in Nat /\ s.sum \in Nat
    <3> HIDE DEF next
    <3>. QED OBVIOUS
  <2>1. CASE s.a = 0
    <3>1. next[s] = s
      BY <2>1
    <3> HIDE DEF next, R
    <3>. QED BY <3>1, <1>3
  <2>2. CASE s.a # 0
    <3> DEFINE h == s.a \div 2
               r == s.a % 2
               t == next[s]
    <3>1. /\ h \in Nat /\ r \in {0, 1} /\ s.a = 2 * h + r
          /\ s.place \in Nat /\ s.sum \in Nat /\ s.b \div 2 \in Nat
      <4> HIDE DEF next, R
      <4>. QED BY <2>0
    <3>2. /\ t.a = h /\ t.b = s.b \div 2 /\ t.place = 2 * s.place
          /\ t.sum \in {s.sum, s.sum + s.place} /\ (r = 0 => t.sum = s.sum)
          /\ t = [a |-> t.a, b |-> t.b, place |-> t.place, sum |-> t.sum]
      BY <2>2
    <3> HIDE DEF next, h, r
    <3>3. t \in R
      BY <3>1, <3>2
    <3>4. CASE r = 0
      <4>1. s.place * s.a = s.place * (2 * h)
        BY <3>1, <3>4
      <4>2. s.place * (2 * h) = (2 * s.place) * h
        BY <3>1
      <4>. QED BY <4>1, <4>2, <3>1, <3>2, <3>3, <3>4, <1>3
    <3>5. CASE r = 1
      <4>1. s.place * s.a = s.place * (2 * h) + s.place
        BY <3>1, <3>5
      <4>2. s.place * (2 * h) = (2 * s.place) * h /\ (2 * s.place) * h \in Nat
        BY <3>1
      <4>. QED BY <4>1, <4>2, <3>1, <3>2, <3>3, <1>3
    <3>. QED BY <3>1, <3>4, <3>5 DEF t
  <2> HIDE DEF next
  <2>. QED BY <2>1, <2>2
<1>4. S = Nat
  <2>1. ASSUME NEW n \in S PROVE n + 1 \in S
    <3> HIDE DEF next, R
    <3>. QED BY <1>1, <1>3
  <2>2. S \in SUBSET Nat
    OBVIOUS
  <2> HIDE DEF S
  <2>. QED BY <1>2, <2>1, <2>2, SetInduction
<1>5. w[32] \in R /\ w[32].sum + w[32].place * w[32].a <= a
  <2>1. 32 \in S
    <3> HIDE DEF S
    <3>. QED BY <1>4
  <2> HIDE DEF w
  <2>. QED BY <2>1
<1>6. w[32].sum \in 0..a
  <2> DEFINE v == w[32]
  <2>1. v.sum \in Nat /\ v.place \in Nat /\ v.a \in Nat /\ v.sum + v.place * v.a <= a
    <3> HIDE DEF w
    <3>. QED BY <1>5
  <2>2. v.place * v.a \in Nat
    <3> HIDE DEF v
    <3>. QED BY <2>1
  <2> HIDE DEF v
  <2>3. v.sum \in 0..a
    BY <2>1, <2>2
  <2>. QED BY <2>3 DEF v
<1>. QED BY <1>6 DEF BitAnd

\* The bitwise and, and the or, of two words are words.
LEMMA BitRange ==
    ASSUME NEW a \in Values, NEW b \in Values
    PROVE  BitAnd(a, b) \in Values /\ BitOr(a, b) \in Values
<1>1. a \in Nat /\ b \in Nat /\ WORD - 1 - a \in Nat /\ WORD - 1 - b \in Nat
  BY WordFacts DEF Values
<1>2. BitAnd(a, b) \in 0..a
  BY <1>1, BitAndRange
<1>3. BitAnd(WORD - 1 - a, WORD - 1 - b) \in 0..(WORD - 1 - a)
  BY <1>1, BitAndRange
<1>. QED BY <1>1, <1>2, <1>3, WordFacts DEF Values, BitOr

\* << yields a number, and >> no greater one.
LEMMA ShiftRange ==
    ASSUME NEW v \in Nat, NEW n \in Nat
    PROVE  ShiftLeft(v, n) \in Nat /\ ShiftRightBy(v, n) \in 0..v
<1> DEFINE double == [x \in Nat |-> 2 * x]
           half == [x \in Int |-> x \div 2]
           l == Walk(double, v)
           r == Walk(half, v)
           S == {k \in Nat : l[k] \in Nat /\ r[k] \in 0..v}
<1>1. /\ l[0] = v /\ \A k \in Nat : l[k + 1] = double[l[k]]
      /\ r[0] = v /\ \A k \in Nat : r[k + 1] = half[r[k]]
  <2> HIDE DEF double, half
  <2>. QED BY WalkFacts
<1> HIDE DEF l, r
<1>2. 0 \in S
  BY <1>1
<1>3. ASSUME NEW k \in S PROVE k + 1 \in S
  <2>1. k \in Nat /\ l[k] \in Nat /\ r[k] \in 0..v
    OBVIOUS
  <2>2. l[k + 1] = double[l[k]] /\ r[k + 1] = half[r[k]]
    BY <1>1
  <2>3. double[l[k]] = 2 * l[k] /\ half[r[k]] = r[k] \div 2
    BY <2>1
  <2>. QED BY <2>1, <2>2, <2>3
<1>4. S = Nat
  <2>1. S \in SUBSET Nat
    OBVIOUS
  <2> HIDE DEF S
  <2>. QED BY <1>2, <1>3, <2>1, SetInduction
<1>5. n \in S
  BY <1>4
<1>6. l[n] \in Nat /\ r[n] \in 0..v
  BY <1>5
<1>. QED BY <1>6 DEF ShiftLeft, ShiftRightBy, l, r

-----------------------------------------------------------------------------
(* What each stage does to the fields of the machine.                      *)

\* d is c but for the fields of F.
SameBut(c, d, F) == DOMAIN d = Fields /\ \A f \in Fields \ F : d[f] = c[f]

\* pipeline_init(), field by field.
LEMMA InitStage ==
    ASSUME NEW c, NEW d, d = pipeline_init(c), DOMAIN c = Fields
    PROVE  /\ SameBut(c, d, {"PIPE", "PREDICTION", "PREDICT_SUCCESS", "HAZARD", "PCSrc",
                          "EX_MEM_FORWARD", "MEM_WB_FORWARD"})
           /\ DOMAIN d.PIPE = 0..4
           /\ d.PIPE[0] = c.PIPE[0] /\ d.PIPE[1] = (IF c.HAZARD THEN c.PIPE[1] ELSE c.PIPE[0])
           /\ d.PIPE[2] = (IF c.HAZARD THEN 0 ELSE c.PIPE[1])
           /\ d.PIPE[3] = c.PIPE[2] /\ d.PIPE[4] = c.PIPE[3]
           /\ d.PREDICTION = (IF \A s \in 0..4 : d.PIPE[s] = 0 THEN FALSE ELSE c.PREDICTION)
           /\ d.PREDICT_SUCCESS = TRUE /\ d.HAZARD = FALSE /\ d.PCSrc = "IF"
           /\ d.EX_MEM_FORWARD = [REG |-> c.EX_MEM.DEST, VALUE |-> c.EX_MEM.ALU_OUT,
                                  WRITES |-> c.EX_MEM.RegWrite]
           /\ d.MEM_WB_FORWARD = [REG |-> c.MEM_WB.DEST, WRITES |-> c.MEM_WB.RegWrite,
                                  VALUE |-> IF c.MEM_WB.MemtoReg THEN c.MEM_WB.ALU_OUT
                                            ELSE c.MEM_WB.MEM_OUT]
<1> DEFINE P == [s \in 0..4 |-> IF s = 0 \/ (c.HAZARD /\ s = ID_STAGE) THEN c.PIPE[s]
                                ELSE IF c.HAZARD /\ s = EX_STAGE THEN 0 ELSE c.PIPE[s - 1]]
<1>1. /\ DOMAIN P = 0..4
      /\ P[0] = c.PIPE[0] /\ P[1] = (IF c.HAZARD THEN c.PIPE[1] ELSE c.PIPE[0])
      /\ P[2] = (IF c.HAZARD THEN 0 ELSE c.PIPE[1]) /\ P[3] = c.PIPE[2] /\ P[4] = c.PIPE[3]
  BY DEF ID_STAGE, EX_STAGE
<1>2. d = [c EXCEPT !.PIPE = P,
                  !.PREDICTION = IF \A s \in 0..4 : P[s] = 0 THEN FALSE ELSE @,
                  !.PREDICT_SUCCESS = TRUE, !.HAZARD = FALSE, !.PCSrc = "IF",
                  !.EX_MEM_FORWARD = [REG |-> c.EX_MEM.DEST, VALUE |-> c.EX_MEM.ALU_OUT,
                                      WRITES |-> c.EX_MEM.RegWrite],
                  !.MEM_WB_FORWARD = [REG |-> c.MEM_WB.DEST, WRITES |-> c.MEM_WB.RegWrite,
                                      VALUE |-> IF c.MEM_WB.MemtoReg THEN c.MEM_WB.ALU_OUT
                                                ELSE c.MEM_WB.MEM_OUT]]
  BY DEF pipeline_init
<1> HIDE DEF P
<1>3. /\ DOMAIN d = Fields /\ d.PIPE = P
      /\ d.PREDICTION = (IF \A s \in 0..4 : P[s] = 0 THEN FALSE ELSE c.PREDICTION)
      /\ d.PREDICT_SUCCESS = TRUE /\ d.HAZARD = FALSE /\ d.PCSrc = "IF"
      /\ d.EX_MEM_FORWARD = [REG |-> c.EX_MEM.DEST, VALUE |-> c.EX_MEM.ALU_OUT,
                                  WRITES |-> c.EX_MEM.RegWrite]
      /\ d.MEM_WB_FORWARD = [REG |-> c.MEM_WB.DEST, WRITES |-> c.MEM_WB.RegWrite,
                                  VALUE |-> IF c.MEM_WB.MemtoReg THEN c.MEM_WB.ALU_OUT
                                            ELSE c.MEM_WB.MEM_OUT]
  BY <1>2 DEF Fields
<1>4. \A f \in Fields \ {"PIPE", "PREDICTION", "PREDICT_SUCCESS", "HAZARD", "PCSrc",
                          "EX_MEM_FORWARD", "MEM_WB_FORWARD"} : d[f] = c[f]
  BY <1>2
<1>. QED BY <1>1, <1>3, <1>4 DEF SameBut

\* WB_Stage(), field by field.
LEMMA WBStage ==
    ASSUME NEW c, NEW d, d = WB_Stage(c), DOMAIN c = Fields
    PROVE  /\ SameBut(c, d, {"REGS", "INSTRUCTION_COUNT"})
           /\ d.REGS = IF c.PIPE[4] # 0 /\ c.MEM_WB.RegWrite
                       THEN [c.REGS EXCEPT ![c.MEM_WB.DEST] =
                                IF c.MEM_WB.MemtoReg THEN c.MEM_WB.ALU_OUT ELSE c.MEM_WB.MEM_OUT]
                       ELSE c.REGS
           /\ d.INSTRUCTION_COUNT = IF c.PIPE[4] # 0 THEN c.INSTRUCTION_COUNT + 1
                                    ELSE c.INSTRUCTION_COUNT
  BY DEF WB_Stage, WB_STAGE, SameBut, Fields

\* A branch in MEM that went the other way.
Misses(c) == c.EX_MEM.Branch /\ (c.EX_MEM.BR_TAKE = 1) # c.PREDICTION

\* What a wrong prediction does, field by field.
LEMMA ResolveStage ==
    ASSUME NEW c, NEW d, d = Resolve(c), DOMAIN c = Fields, DOMAIN c.PIPE = 0..4
    PROVE  /\ SameBut(c, d, {"PREDICT_SUCCESS", "PREDICTION", "PCSrc", "BRANCH_PC", "IF_PC", "PIPE"})
           /\ DOMAIN d.PIPE = 0..4 /\ d.PIPE[3] = c.PIPE[3] /\ d.PIPE[4] = c.PIPE[4]
           /\ \A s \in 0..2 : d.PIPE[s] = IF Misses(c) THEN 0 ELSE c.PIPE[s]
           /\ d.PREDICT_SUCCESS = IF Misses(c) THEN FALSE ELSE c.PREDICT_SUCCESS
           /\ d.PREDICTION = IF Misses(c) THEN ~c.PREDICTION ELSE c.PREDICTION
           /\ d.PCSrc = IF Misses(c) THEN (IF c.EX_MEM.BR_TAKE = 1 THEN "BRANCH" ELSE "IF")
                        ELSE c.PCSrc
           /\ Misses(c) /\ c.EX_MEM.BR_TAKE = 1 => d.BRANCH_PC = c.EX_MEM.BR_TARGET
           /\ d.IF_PC = IF Misses(c) /\ c.EX_MEM.BR_TAKE # 1 THEN c.PIPE[3] + 4 ELSE c.IF_PC
<1>1. CASE ~Misses(c)
  <2>1. d = c
    BY <1>1 DEF Resolve, Misses
  <2>. QED BY <1>1, <2>1 DEF SameBut
<1>2. CASE Misses(c)
  <2> DEFINE P == [c.PIPE EXCEPT ![IF_STAGE] = 0, ![ID_STAGE] = 0, ![EX_STAGE] = 0]
  <2>1. DOMAIN P = 0..4 /\ P[3] = c.PIPE[3] /\ P[4] = c.PIPE[4] /\ \A s \in 0..2 : P[s] = 0
    BY DEF IF_STAGE, ID_STAGE, EX_STAGE
  <2>2. d = [c EXCEPT !.PREDICT_SUCCESS = FALSE,
                   !.PREDICTION = ~@,
                   !.PCSrc = IF c.EX_MEM.BR_TAKE = 1 THEN "BRANCH" ELSE "IF",
                   !.BRANCH_PC = IF c.EX_MEM.BR_TAKE = 1 THEN c.EX_MEM.BR_TARGET ELSE @,
                   !.IF_PC = IF c.EX_MEM.BR_TAKE = 1 THEN @ ELSE c.PIPE[MEM_STAGE] + 4,
                   !.PIPE = P]
    BY <1>2 DEF Resolve, Misses
  <2> HIDE DEF P
  <2>3. /\ DOMAIN d = Fields /\ d.PIPE = P /\ d.PREDICT_SUCCESS = FALSE
        /\ d.PREDICTION = ~c.PREDICTION
        /\ d.PCSrc = IF c.EX_MEM.BR_TAKE = 1 THEN "BRANCH" ELSE "IF"
        /\ d.BRANCH_PC = IF c.EX_MEM.BR_TAKE = 1 THEN c.EX_MEM.BR_TARGET ELSE c.BRANCH_PC
        /\ d.IF_PC = IF c.EX_MEM.BR_TAKE = 1 THEN c.IF_PC ELSE c.PIPE[3] + 4
    BY <2>2 DEF Fields, MEM_STAGE
  <2>4. \A f \in Fields \ {"PREDICT_SUCCESS", "PREDICTION", "PCSrc", "BRANCH_PC", "IF_PC", "PIPE"} :
            d[f] = c[f]
    BY <2>2
  <2>. QED BY <1>2, <2>1, <2>3, <2>4 DEF SameBut
<1>. QED BY <1>1, <1>2

\* The latch that MEM leaves.
MemoryLatch(c) ==
    [ALU_OUT |-> IF c.EX_MEM.MemRead THEN c.MEM_WB.ALU_OUT ELSE c.EX_MEM.ALU_OUT,
     MEM_OUT |-> IF c.EX_MEM.MemRead THEN mem_read_32(c.mem, c.EX_MEM.ALU_OUT) ELSE c.MEM_WB.MEM_OUT,
     DEST |-> c.EX_MEM.DEST, MemtoReg |-> c.EX_MEM.MemtoReg, RegWrite |-> c.EX_MEM.RegWrite]

\* MEM_Stage() ends the simulator, lets a bubble pass, or accesses memory.
LEMMA MEMStage ==
    ASSUME NEW c, NEW d, d = MEM_Stage(c), DOMAIN c = Fields, DOMAIN c.PIPE = 0..4,
           c.exited = FALSE
    PROVE  \/ /\ d.exited = TRUE
              /\ SameBut(c, d, {"exited"})
           \/ /\ c.PIPE[3] = 0 /\ d.exited = FALSE
              /\ SameBut(c, d, {"MEM_WB"}) /\ d.MEM_WB = NoResult
           \/ /\ c.PIPE[3] # 0 /\ d.exited = FALSE
              /\ SameBut(Resolve(c), d, {"MEM_WB", "mem"})
              /\ d.MEM_WB = MemoryLatch(c)
              /\ d.mem = IF c.EX_MEM.MemWrite
                         THEN mem_write_32(c.mem, c.EX_MEM.ALU_OUT, c.REGS[c.EX_MEM.DEST])
                         ELSE c.mem
<1>1. CASE c.PIPE[3] = 0
  <2>1. d = [c EXCEPT !.MEM_WB = NoResult]
    BY <1>1 DEF MEM_Stage, MEM_STAGE
  <2>. QED BY <1>1, <2>1 DEF SameBut, Fields
<1>2. CASE c.PIPE[3] # 0 /\ (c.EX_MEM.MemRead \/ c.EX_MEM.MemWrite) /\ ~InRange(c.EX_MEM.ALU_OUT)
  <2>1. d = [c EXCEPT !.exited = TRUE]
    BY <1>2 DEF MEM_Stage, MEM_STAGE
  <2>. QED BY <2>1 DEF SameBut, Fields
<1>3. CASE c.PIPE[3] # 0 /\ ~((c.EX_MEM.MemRead \/ c.EX_MEM.MemWrite) /\ ~InRange(c.EX_MEM.ALU_OUT))
  <2> DEFINE r == Resolve(c)
  <2>0. SameBut(c, r, {"PREDICT_SUCCESS", "PREDICTION", "PCSrc", "BRANCH_PC", "IF_PC", "PIPE"})
    BY ResolveStage
  <2>1. /\ DOMAIN r = Fields /\ r.exited = FALSE /\ r.mem = c.mem /\ r.MEM_WB = c.MEM_WB
    <3> HIDE DEF r
    <3>. QED BY <2>0 DEF SameBut, Fields
  <2>2. d = [r EXCEPT !.MEM_WB = [ALU_OUT |-> IF c.EX_MEM.MemRead THEN @.ALU_OUT ELSE c.EX_MEM.ALU_OUT,
                            MEM_OUT |-> IF c.EX_MEM.MemRead THEN mem_read_32(c.mem, c.EX_MEM.ALU_OUT)
                                        ELSE @.MEM_OUT,
                            DEST |-> c.EX_MEM.DEST, MemtoReg |-> c.EX_MEM.MemtoReg,
                            RegWrite |-> c.EX_MEM.RegWrite],
                !.mem = IF c.EX_MEM.MemWrite
                        THEN mem_write_32(@, c.EX_MEM.ALU_OUT, c.REGS[c.EX_MEM.DEST]) ELSE @]
    BY <1>3 DEF MEM_Stage, MEM_STAGE
  <2> HIDE DEF r
  <2>3. DOMAIN d = Fields /\ \A f \in Fields \ {"MEM_WB", "mem"} : d[f] = r[f]
    BY <2>1, <2>2
  <2>4. /\ d.MEM_WB = MemoryLatch(c) /\ d.exited = FALSE
        /\ d.mem = IF c.EX_MEM.MemWrite
                         THEN mem_write_32(c.mem, c.EX_MEM.ALU_OUT, c.REGS[c.EX_MEM.DEST])
                         ELSE c.mem
    BY <2>1, <2>2 DEF Fields, MemoryLatch
  <2>. QED BY <1>3, <2>3, <2>4 DEF SameBut, r
<1>. QED BY <1>1, <1>2, <1>3

\* What EX computes, and whether it drops what is in ID.
Output(c) == ALU(c.ID_EX.op, Forwarded(c, c.ID_EX.RS, c.ID_EX.REG1).VALUE,
                 IF c.ID_EX_CONTROL.ALUSrc THEN c.ID_EX.IMM
                 ELSE Forwarded(c, c.ID_EX.RT, c.ID_EX.REG2).VALUE, c.ID_EX.SH)
TakenInEX(c) == c.ID_EX_CONTROL.Branch /\ c.PREDICTION
TargetInEX(c) == Word(c.PIPE[2] + c.ID_EX.IMM * 4 + 4)
ExecutionLatch(c) ==
    [ALU_OUT |-> IF c.ID_EX.op \in Jumping THEN c.EX_MEM.ALU_OUT ELSE Output(c),
     BR_TARGET |-> IF c.ID_EX_CONTROL.Branch THEN TargetInEX(c) ELSE c.EX_MEM.BR_TARGET,
     BR_TAKE |-> IF c.ID_EX_CONTROL.Branch THEN Output(c) ELSE c.EX_MEM.BR_TAKE,
     DEST |-> c.ID_EX.DEST, Branch |-> c.ID_EX_CONTROL.Branch,
     MemRead |-> c.ID_EX_CONTROL.MemRead, MemWrite |-> c.ID_EX_CONTROL.MemWrite,
     MemtoReg |-> c.ID_EX_CONTROL.MemtoReg, RegWrite |-> c.ID_EX_CONTROL.RegWrite]

\* EX_Stage(), field by field.
LEMMA EXStage ==
    ASSUME NEW c, NEW d, d = EX_Stage(c), DOMAIN c = Fields, DOMAIN c.PIPE = 0..4
    PROVE  /\ SameBut(c, d, {"PIPE", "PC", "EX_MEM"})
           /\ DOMAIN d.PIPE = 0..4
           /\ \A s \in {0, 2, 3, 4} : d.PIPE[s] = c.PIPE[s]
           /\ c.PIPE[2] = 0 => /\ d.PIPE[1] = c.PIPE[1] /\ d.PC = c.PC /\ d.EX_MEM = NoExecution
           /\ c.PIPE[2] # 0 => /\ d.PIPE[1] = (IF c.ID_EX.op \in Jumping \/ TakenInEX(c) THEN 0
                                               ELSE c.PIPE[1])
                               /\ d.PC = (IF TakenInEX(c) THEN TargetInEX(c) ELSE c.PC)
                               /\ d.EX_MEM = ExecutionLatch(c)
<1>1. CASE c.PIPE[2] = 0
  <2>1. d = [c EXCEPT !.EX_MEM = NoExecution]
    BY <1>1 DEF EX_Stage, EX_STAGE
  <2>2. d.EX_MEM = NoExecution /\ d.PIPE = c.PIPE /\ d.PC = c.PC
    BY <2>1 DEF Fields
  <2>3. SameBut(c, d, {"PIPE", "PC", "EX_MEM"})
    BY <2>1 DEF SameBut
  <2>. QED BY <1>1, <2>2, <2>3
<1>2. CASE c.PIPE[2] # 0
  <2> DEFINE P == IF c.ID_EX.op \in Jumping \/ TakenInEX(c) THEN [c.PIPE EXCEPT ![ID_STAGE] = 0]
                  ELSE c.PIPE
             pc == IF TakenInEX(c) THEN TargetInEX(c) ELSE c.PC
             latch == ExecutionLatch(c)
  <2>1. d = [c EXCEPT !.PIPE = P, !.PC = pc, !.EX_MEM = latch]
    BY <1>2 DEF EX_Stage, EX_STAGE, TakenInEX, TargetInEX, ExecutionLatch, Output
  <2>2. /\ DOMAIN P = 0..4 /\ \A s \in {0, 2, 3, 4} : P[s] = c.PIPE[s]
        /\ P[1] = (IF c.ID_EX.op \in Jumping \/ TakenInEX(c) THEN 0 ELSE c.PIPE[1])
    BY DEF ID_STAGE
  <2> HIDE DEF P, pc, latch
  <2>3. d.EX_MEM = latch /\ d.PIPE = P /\ d.PC = pc
    BY <2>1 DEF Fields
  <2>4. SameBut(c, d, {"PIPE", "PC", "EX_MEM"})
    BY <2>1 DEF SameBut
  <2>. QED BY <1>2, <2>2, <2>3, <2>4 DEF pc, latch
<1>. QED BY <1>1, <1>2

Redirected(c, i) == i.op \in Branches /\ c.PREDICTION

\* What ID makes of instruction i.
Decodes(c, d, i) ==
    /\ SameBut(c, d, {"ID_EX", "ID_EX_CONTROL", "JUMP_PC", "BRANCH_PC", "PCSrc", "REGS", "HAZARD"})
    /\ c.PIPE[1] = 0 => /\ d.PCSrc = c.PCSrc /\ d.REGS = c.REGS /\ d.HAZARD = FALSE
                        /\ d.BRANCH_PC = c.BRANCH_PC
    /\ c.PIPE[1] # 0 =>
         /\ d.ID_EX.op = i.op /\ d.ID_EX.REG1 = c.REGS[i.rs] /\ d.ID_EX.REG2 = c.REGS[i.rt]
         /\ d.ID_EX.RS = i.rs /\ d.ID_EX.RT = i.rt /\ d.ID_EX.SH = i.shamt /\ d.ID_EX.IMM = i.imm
         /\ i.op \notin Jumping => d.ID_EX.DEST = Dest(i)
         /\ d.ID_EX_CONTROL = control_init(i)
         /\ i.op = "jr" => d.JUMP_PC = c.REGS[i.rs]
         /\ i.op \in Jumps => d.JUMP_PC = JumpTarget(c.PIPE[1], i)
         /\ d.BRANCH_PC = IF Redirected(c, i) THEN Word(c.PIPE[1] + i.imm * 4 + 4) ELSE c.BRANCH_PC
         /\ d.PCSrc = IF i.op \in Jumping THEN "JUMP" ELSE IF Redirected(c, i) THEN "BRANCH"
                      ELSE c.PCSrc
         /\ d.HAZARD = Hazard_Detection_Unit(c, i)
         /\ DOMAIN d.REGS = REGISTERS
         /\ d.REGS[LINK] = IF i.op = "jal" THEN c.PIPE[1] + 4 ELSE c.REGS[LINK]
         /\ \A r \in REGISTERS \ {LINK} : d.REGS[r] = c.REGS[r]

\* ID_Stage(), field by field.
LEMMA IDStage ==
    ASSUME NEW c, NEW d, NEW i, d = ID_Stage(c, program), DOMAIN c = Fields,
           i = get_inst_info(program, c.PIPE[1]), c.HAZARD = FALSE, DOMAIN c.REGS = REGISTERS
    PROVE  Decodes(c, d, i)
<1>1. CASE c.PIPE[1] = 0
  <2>1. d = [c EXCEPT !.ID_EX = NoOperands, !.ID_EX_CONTROL = NoControl]
    BY <1>1 DEF ID_Stage, ID_STAGE
  <2>2. d.PCSrc = c.PCSrc /\ d.REGS = c.REGS /\ d.HAZARD = FALSE /\ d.BRANCH_PC = c.BRANCH_PC
    BY <2>1 DEF Fields
  <2>. QED BY <1>1, <2>1, <2>2 DEF SameBut, Decodes
<1>2. CASE c.PIPE[1] # 0
  <2> DEFINE x == [op |-> i.op, REG1 |-> c.REGS[i.rs], REG2 |-> c.REGS[i.rt],
                   RS |-> i.rs, RT |-> i.rt, SH |-> i.shamt, IMM |-> i.imm,
                   DEST |-> IF i.op \in Jumping THEN c.ID_EX.DEST
                            ELSE IF i.op \in RType THEN i.rd ELSE i.rt]
             jpc == IF i.op = "jr" THEN c.REGS[i.rs]
                    ELSE IF i.op \in Jumps THEN JumpTarget(c.PIPE[1], i) ELSE c.JUMP_PC
             bpc == IF Redirected(c, i) THEN Word(c.PIPE[1] + i.imm * 4 + 4) ELSE c.BRANCH_PC
             src == IF i.op \in Jumping THEN "JUMP" ELSE IF Redirected(c, i) THEN "BRANCH" ELSE c.PCSrc
             regs == IF i.op = "jal" THEN [c.REGS EXCEPT ![LINK] = c.PIPE[1] + 4] ELSE c.REGS
             e == Decoder(c, i)
             h == Hazard_Detection_Unit(c, i)
             k == control_init(i)
  <2>1. e = [c EXCEPT !.ID_EX = x, !.JUMP_PC = jpc, !.BRANCH_PC = bpc, !.PCSrc = src, !.REGS = regs]
    BY DEF Decoder, Redirected, ID_STAGE
  <2>2. d = [e EXCEPT !.HAZARD = @ \/ h, !.ID_EX_CONTROL = k]
    BY <1>2 DEF ID_Stage, ID_STAGE
  <2>3. /\ x.op = i.op /\ x.REG1 = c.REGS[i.rs] /\ x.REG2 = c.REGS[i.rt]
        /\ x.RS = i.rs /\ x.RT = i.rt /\ x.SH = i.shamt /\ x.IMM = i.imm
        /\ i.op \notin Jumping => x.DEST = Dest(i)
    BY DEF Dest
  <2>4. /\ DOMAIN regs = REGISTERS /\ regs[LINK] = (IF i.op = "jal" THEN c.PIPE[1] + 4 ELSE c.REGS[LINK])
        /\ \A r \in REGISTERS \ {LINK} : regs[r] = c.REGS[r]
    BY RegisterAssumption
  <2>5. /\ i.op = "jr" => jpc = c.REGS[i.rs]
        /\ i.op \in Jumps => jpc = JumpTarget(c.PIPE[1], i)
    BY DEF Jumps
  <2>6. h \in BOOLEAN /\ k = control_init(i) /\ h = Hazard_Detection_Unit(c, i)
    BY DEF Hazard_Detection_Unit
  <2> HIDE DEF x, jpc, bpc, src, regs, e, h, k
  <2>7. /\ DOMAIN e = Fields /\ e.ID_EX = x /\ e.JUMP_PC = jpc /\ e.BRANCH_PC = bpc /\ e.PCSrc = src
        /\ e.REGS = regs /\ e.HAZARD = FALSE
        /\ \A f \in Fields \ {"ID_EX", "JUMP_PC", "BRANCH_PC", "PCSrc", "REGS"} : e[f] = c[f]
    BY <2>1 DEF Fields
  <2>8. /\ DOMAIN d = Fields /\ d.ID_EX = x /\ d.JUMP_PC = jpc /\ d.BRANCH_PC = bpc /\ d.PCSrc = src
        /\ d.REGS = regs /\ d.HAZARD = h /\ d.ID_EX_CONTROL = k
        /\ \A f \in Fields \ {"HAZARD", "ID_EX_CONTROL"} : d[f] = e[f]
    BY <2>2, <2>6, <2>7 DEF Fields
  <2>9. SameBut(c, d, {"ID_EX", "ID_EX_CONTROL", "JUMP_PC", "BRANCH_PC", "PCSrc", "REGS", "HAZARD"})
    BY <2>7, <2>8 DEF SameBut
  <2>. QED BY <1>2, <2>3, <2>4, <2>5, <2>6, <2>8, <2>9 DEF bpc, src, Decodes
<1>. QED BY <1>1, <1>2

\* IF finds an instruction at PC; and where it goes on.
Fetches(c) == Word(c.PC - MEM_TEXT_START) < Len(program) * 4
NextIFPC(c) == IF Fetches(c) /\ ~c.HAZARD /\ c.PREDICT_SUCCESS THEN Word(c.PC + 4) ELSE c.IF_PC

\* IF_Stage(), field by field.
LEMMA IFStage ==
    ASSUME NEW c, NEW d, d = IF_Stage(c, program), DOMAIN c = Fields, DOMAIN c.PIPE = 0..4
    PROVE  /\ SameBut(c, d, {"PIPE", "IF_PC", "PC"})
           /\ DOMAIN d.PIPE = 0..4
           /\ \A s \in 1..4 : d.PIPE[s] = c.PIPE[s]
           /\ d.PIPE[0] = IF ~Fetches(c) THEN 0
                          ELSE IF c.HAZARD \/ c.PREDICT_SUCCESS THEN c.PC ELSE c.PIPE[0]
           /\ d.IF_PC = NextIFPC(c)
           /\ d.PC = CASE c.PCSrc = "JUMP" -> c.JUMP_PC [] c.PCSrc = "BRANCH" -> c.BRANCH_PC
                       [] OTHER -> NextIFPC(c)
<1> DEFINE first == IF ~Fetches(c) THEN 0
                    ELSE IF c.HAZARD \/ c.PREDICT_SUCCESS THEN c.PC ELSE c.PIPE[0]
           next == NextIFPC(c)
           pc == CASE c.PCSrc = "JUMP" -> c.JUMP_PC [] c.PCSrc = "BRANCH" -> c.BRANCH_PC
                   [] OTHER -> NextIFPC(c)
           P == [c.PIPE EXCEPT ![0] = first]
<1>1. d = [c EXCEPT !.PIPE = P, !.IF_PC = next, !.PC = pc]
  BY DEF IF_Stage, IF_STAGE, Fetches, NextIFPC
<1>2. DOMAIN P = 0..4 /\ P[0] = first /\ \A s \in 1..4 : P[s] = c.PIPE[s]
  OBVIOUS
<1> HIDE DEF first, next, pc, P
<1>3. d.PIPE = P /\ d.IF_PC = next /\ d.PC = pc
  BY <1>1 DEF Fields
<1>4. SameBut(c, d, {"PIPE", "IF_PC", "PC"})
  BY <1>1 DEF SameBut
<1>. QED BY <1>2, <1>3, <1>4 DEF first, next, pc

\* The end of process_instruction(), field by field.
Finished(c, d) ==
    /\ SameBut(c, d, {"REGS", "RUN_BIT"})
    /\ DOMAIN d.REGS = REGISTERS /\ d.REGS[0] = 0
    /\ \A r \in REGISTERS \ {0} : d.REGS[r] = c.REGS[r]
    /\ d.RUN_BIT = /\ c.PIPE[4] < MEM_TEXT_START + Len(program) * 4
                   /\ ~(c.PIPE[4] # 0 /\ \A s \in 0..3 : c.PIPE[s] = 0)
                   /\ c.INSTRUCTION_COUNT < MAX_INSTRUCTION_NUM

\* It clears register 0 and decides whether to go on, no more.
LEMMA FinishStage ==
    ASSUME NEW c, DOMAIN c = Fields, DOMAIN c.REGS = REGISTERS
    PROVE  Finished(c, Finish(c, program))
<1> DEFINE d == Finish(c, program)
           regs == [c.REGS EXCEPT ![0] = 0]
           run == /\ c.PIPE[4] < MEM_TEXT_START + Len(program) * 4
                  /\ ~(c.PIPE[4] # 0 /\ \A s \in 0..3 : c.PIPE[s] = 0)
                  /\ c.INSTRUCTION_COUNT < MAX_INSTRUCTION_NUM
<1>1. d = [c EXCEPT !.REGS = regs, !.RUN_BIT = run]
  BY DEF Finish, WB_STAGE
<1>2. DOMAIN regs = REGISTERS /\ regs[0] = 0 /\ \A r \in REGISTERS \ {0} : regs[r] = c.REGS[r]
  BY RegisterAssumption
<1> HIDE DEF d, regs, run
<1>3. d.REGS = regs /\ d.RUN_BIT = run
  BY <1>1 DEF Fields
<1>4. SameBut(c, d, {"REGS", "RUN_BIT"})
  BY <1>1 DEF SameBut
<1>5. Finished(c, d)
  BY <1>2, <1>3, <1>4 DEF Finished, run
<1>. QED BY <1>5 DEF d

-----------------------------------------------------------------------------
(* A cycle, stage by stage.                                                *)

C1 == WB_Stage(pipeline_init(cpu))
C2 == MEM_Stage(C1)
C3 == EX_Stage(C2)
C4 == ID_Stage(C3, program)
C5 == IF_Stage(C4, program)
C6 == Finish(C5, program)

\* A cycle is the six operators one after the other.
LEMMA CycleStages ==
    ASSUME Cycle
    PROVE  /\ cpu.RUN_BIT = TRUE /\ cpu.exited = FALSE /\ program' = program
           /\ C2.exited => cpu' = C2
           /\ ~C2.exited => cpu' = [C6 EXCEPT !.CYCLE_COUNT = @ + 1]
           /\ isa' = IF C1.PIPE[4] # 0 /\ isa.RUN_BIT THEN Step(isa) ELSE isa
           /\ inorder' = (inorder /\ (C1.PIPE[4] # 0 => isa.RUN_BIT /\ isa.PC = C1.PIPE[4]))
           /\ apart' = \/ apart
                       \/ ~C2.exited /\ ForwardsNothing(C2)
                       \/ ~C2.exited /\ JumpsOutOfTurn(C3, program)
                       \/ C1.PIPE[4] # 0 /\ isa.RUN_BIT /\ Unlike(isa, program)
  BY DEF Cycle, C1, C2, C3, C4, C5, C6, WB_STAGE, Step

\* The registers when the oldest instruction has written, and a latch of the
\* instruction before, as EX sees it.
Value_WB == IF cpu.MEM_WB.MemtoReg THEN cpu.MEM_WB.ALU_OUT ELSE cpu.MEM_WB.MEM_OUT
WrittenRegs == IF Busy(MEM_STAGE) /\ cpu.MEM_WB.RegWrite
               THEN [cpu.REGS EXCEPT ![cpu.MEM_WB.DEST] = Value_WB] ELSE cpu.REGS

\* The state after WB, by the state before the cycle.
LEMMA WriteBack ==
    ASSUME CpuType, EX_MEMInv
    PROVE  /\ SameBut(cpu, C1, {"REGS", "INSTRUCTION_COUNT", "PIPE", "PREDICTION", "PREDICT_SUCCESS",
                             "HAZARD", "PCSrc", "EX_MEM_FORWARD", "MEM_WB_FORWARD"})
           /\ DOMAIN C1.PIPE = 0..4
           /\ C1.PIPE[0] = cpu.PIPE[0]
           /\ C1.PIPE[1] = (IF cpu.HAZARD THEN cpu.PIPE[1] ELSE cpu.PIPE[0])
           /\ C1.PIPE[2] = (IF cpu.HAZARD THEN 0 ELSE cpu.PIPE[1])
           /\ C1.PIPE[3] = cpu.PIPE[2] /\ C1.PIPE[4] = cpu.PIPE[3]
           /\ C1.PREDICTION \in BOOLEAN
           /\ cpu.PIPE[0] # 0 \/ cpu.PIPE[1] # 0 \/ cpu.PIPE[2] # 0 => C1.PREDICTION = cpu.PREDICTION
           /\ C1.PREDICT_SUCCESS = TRUE /\ C1.HAZARD = FALSE /\ C1.PCSrc = "IF"
           /\ C1.EX_MEM_FORWARD = [REG |-> cpu.EX_MEM.DEST, VALUE |-> cpu.EX_MEM.ALU_OUT,
                                  WRITES |-> cpu.EX_MEM.RegWrite]
           /\ C1.MEM_WB_FORWARD = [REG |-> cpu.MEM_WB.DEST, WRITES |-> cpu.MEM_WB.RegWrite,
                                   VALUE |-> Value_WB]
           /\ C1.REGS = WrittenRegs
           /\ C1.INSTRUCTION_COUNT = IF Busy(MEM_STAGE) THEN cpu.INSTRUCTION_COUNT + 1
                                     ELSE cpu.INSTRUCTION_COUNT
           /\ Misses(C1) = Missed
<1> DEFINE c == pipeline_init(cpu)
<1>1. DOMAIN cpu = Fields /\ cpu.PREDICTION \in BOOLEAN
  BY DEF CpuType
<1>2. /\ SameBut(cpu, c, {"PIPE", "PREDICTION", "PREDICT_SUCCESS", "HAZARD", "PCSrc",
                          "EX_MEM_FORWARD", "MEM_WB_FORWARD"})
      /\ DOMAIN c.PIPE = 0..4
      /\ c.PIPE[0] = cpu.PIPE[0] /\ c.PIPE[1] = (IF cpu.HAZARD THEN cpu.PIPE[1] ELSE cpu.PIPE[0])
      /\ c.PIPE[2] = (IF cpu.HAZARD THEN 0 ELSE cpu.PIPE[1])
      /\ c.PIPE[3] = cpu.PIPE[2] /\ c.PIPE[4] = cpu.PIPE[3]
      /\ c.PREDICTION = (IF \A s \in 0..4 : c.PIPE[s] = 0 THEN FALSE ELSE cpu.PREDICTION)
      /\ c.PREDICT_SUCCESS = TRUE /\ c.HAZARD = FALSE /\ c.PCSrc = "IF"
      /\ c.EX_MEM_FORWARD = [REG |-> cpu.EX_MEM.DEST, VALUE |-> cpu.EX_MEM.ALU_OUT,
                                  WRITES |-> cpu.EX_MEM.RegWrite]
      /\ c.MEM_WB_FORWARD = [REG |-> cpu.MEM_WB.DEST, WRITES |-> cpu.MEM_WB.RegWrite,
                             VALUE |-> Value_WB]
  BY <1>1, InitStage DEF Value_WB
<1> HIDE DEF c
<1>3. C1 = WB_Stage(c)
  BY DEF C1, c
<1>4. DOMAIN c = Fields
  BY <1>2 DEF SameBut
<1>5. /\ SameBut(c, C1, {"REGS", "INSTRUCTION_COUNT"})
      /\ C1.REGS = (IF c.PIPE[4] # 0 /\ c.MEM_WB.RegWrite
                       THEN [c.REGS EXCEPT ![c.MEM_WB.DEST] =
                                IF c.MEM_WB.MemtoReg THEN c.MEM_WB.ALU_OUT ELSE c.MEM_WB.MEM_OUT]
                       ELSE c.REGS)
      /\ C1.INSTRUCTION_COUNT = IF c.PIPE[4] # 0 THEN c.INSTRUCTION_COUNT + 1
                                    ELSE c.INSTRUCTION_COUNT
  BY <1>3, <1>4, WBStage
<1>6. /\ c.REGS = cpu.REGS /\ c.INSTRUCTION_COUNT = cpu.INSTRUCTION_COUNT /\ c.MEM_WB = cpu.MEM_WB
      /\ c.EX_MEM = cpu.EX_MEM
  BY <1>2 DEF SameBut, Fields
<1>7. SameBut(cpu, C1, {"REGS", "INSTRUCTION_COUNT", "PIPE", "PREDICTION", "PREDICT_SUCCESS",
                             "HAZARD", "PCSrc", "EX_MEM_FORWARD", "MEM_WB_FORWARD"})
  BY <1>2, <1>5 DEF SameBut
<1>8. /\ C1.PIPE = c.PIPE /\ C1.PREDICTION = c.PREDICTION /\ C1.PREDICT_SUCCESS = c.PREDICT_SUCCESS
      /\ C1.HAZARD = c.HAZARD /\ C1.PCSrc = c.PCSrc /\ C1.EX_MEM_FORWARD = c.EX_MEM_FORWARD
      /\ C1.MEM_WB_FORWARD = c.MEM_WB_FORWARD /\ C1.EX_MEM = c.EX_MEM
  BY <1>5 DEF SameBut, Fields
<1>9. /\ C1.REGS = WrittenRegs
      /\ C1.INSTRUCTION_COUNT = IF Busy(MEM_STAGE) THEN cpu.INSTRUCTION_COUNT + 1
                                     ELSE cpu.INSTRUCTION_COUNT
  BY <1>2, <1>5, <1>6 DEF WrittenRegs, Value_WB, Busy, MEM_STAGE
<1>10. /\ C1.PREDICTION \in BOOLEAN
       /\ cpu.PIPE[0] # 0 \/ cpu.PIPE[1] # 0 \/ cpu.PIPE[2] # 0 => C1.PREDICTION = cpu.PREDICTION
  <2>1. cpu.PIPE[0] # 0 \/ cpu.PIPE[1] # 0 \/ cpu.PIPE[2] # 0 => \E s \in 0..4 : c.PIPE[s] # 0
    <3>1. 0 \in 0..4 /\ 1 \in 0..4 /\ 2 \in 0..4 /\ 3 \in 0..4
      OBVIOUS
    <3>. QED BY <3>1, <1>2
  <2>. QED BY <2>1, <1>1, <1>2, <1>8
<1>11. Misses(C1) = Missed
  <2>1. CASE Busy(EX_STAGE)
    BY <2>1, <1>6, <1>8, <1>10 DEF Misses, Missed, Busy, EX_STAGE
  <2>2. CASE ~Busy(EX_STAGE)
    BY <2>2, <1>6, <1>8 DEF Misses, Missed, EX_MEMInv, NoExecution
  <2>. QED BY <2>1, <2>2
<1>12. C1.PREDICT_SUCCESS = TRUE /\ C1.HAZARD = FALSE /\ C1.PCSrc = "IF"
  BY <1>2, <1>8
<1>13. /\ C1.EX_MEM_FORWARD = [REG |-> cpu.EX_MEM.DEST, VALUE |-> cpu.EX_MEM.ALU_OUT,
                                  WRITES |-> cpu.EX_MEM.RegWrite]
       /\ C1.MEM_WB_FORWARD = [REG |-> cpu.MEM_WB.DEST, WRITES |-> cpu.MEM_WB.RegWrite,
                                   VALUE |-> Value_WB]
  BY <1>2, <1>8
<1>14. /\ DOMAIN C1.PIPE = 0..4 /\ C1.PIPE[0] = cpu.PIPE[0]
       /\ C1.PIPE[1] = (IF cpu.HAZARD THEN cpu.PIPE[1] ELSE cpu.PIPE[0])
       /\ C1.PIPE[2] = (IF cpu.HAZARD THEN 0 ELSE cpu.PIPE[1])
       /\ C1.PIPE[3] = cpu.PIPE[2] /\ C1.PIPE[4] = cpu.PIPE[3]
  BY <1>2, <1>8
<1>. QED BY <1>7, <1>9, <1>10, <1>11, <1>12, <1>13, <1>14

\* The state after MEM, by the state before the cycle.
LEMMA MemoryFields ==
    ASSUME CpuType, EX_MEMInv, cpu.exited = FALSE
    PROVE  /\ DOMAIN C2 = Fields /\ C2.exited \in BOOLEAN
           /\ C2.REGS = WrittenRegs
           /\ C2.exited => C2.PIPE = C1.PIPE
           /\ ~C2.exited =>
                /\ DOMAIN C2.PIPE = 0..4
                /\ C2.PIPE[0] = (IF Missed THEN 0 ELSE cpu.PIPE[0])
                /\ C2.PIPE[1] = (IF Missed THEN 0 ELSE IF cpu.HAZARD THEN cpu.PIPE[1] ELSE cpu.PIPE[0])
                /\ C2.PIPE[2] = (IF Missed \/ cpu.HAZARD THEN 0 ELSE cpu.PIPE[1])
                /\ C2.PIPE[3] = cpu.PIPE[2] /\ C2.PIPE[4] = cpu.PIPE[3]
                /\ C2.PREDICTION \in BOOLEAN
                /\ ~Missed /\ (cpu.PIPE[0] # 0 \/ cpu.PIPE[1] # 0 \/ cpu.PIPE[2] # 0)
                       => C2.PREDICTION = cpu.PREDICTION
                /\ C2.PREDICT_SUCCESS = ~Missed
                /\ C2.PCSrc = (IF Missed /\ cpu.EX_MEM.BR_TAKE = 1 THEN "BRANCH" ELSE "IF")
                /\ Missed /\ cpu.EX_MEM.BR_TAKE = 1 => C2.BRANCH_PC = cpu.EX_MEM.BR_TARGET
                /\ C2.IF_PC = (IF Missed /\ cpu.EX_MEM.BR_TAKE # 1 THEN cpu.PIPE[2] + 4 ELSE cpu.IF_PC)
                /\ C2.HAZARD = FALSE /\ C2.PC = cpu.PC
                /\ C2.ID_EX = cpu.ID_EX /\ C2.ID_EX_CONTROL = cpu.ID_EX_CONTROL
                /\ C2.EX_MEM = cpu.EX_MEM
                /\ C2.MEM_WB = (IF Busy(EX_STAGE) THEN MemoryLatch(cpu) ELSE NoResult)
                /\ C2.mem = (IF cpu.EX_MEM.MemWrite
                             THEN mem_write_32(cpu.mem, cpu.EX_MEM.ALU_OUT, WrittenRegs[cpu.EX_MEM.DEST])
                             ELSE cpu.mem)
                /\ C2.EX_MEM_FORWARD = [REG |-> cpu.EX_MEM.DEST, VALUE |-> cpu.EX_MEM.ALU_OUT,
                                        WRITES |-> cpu.EX_MEM.RegWrite]
                /\ C2.MEM_WB_FORWARD = [REG |-> cpu.MEM_WB.DEST, WRITES |-> cpu.MEM_WB.RegWrite,
                                        VALUE |-> Value_WB]
                /\ C2.INSTRUCTION_COUNT = C1.INSTRUCTION_COUNT /\ C2.CYCLE_COUNT = cpu.CYCLE_COUNT
<1>0. DOMAIN C1 = Fields /\ DOMAIN C1.PIPE = 0..4 /\ C1.exited = FALSE
  BY WriteBack DEF SameBut, Fields
<1>0a. /\ C1.EX_MEM = cpu.EX_MEM /\ C1.MEM_WB = cpu.MEM_WB /\ C1.mem = cpu.mem /\ C1.IF_PC = cpu.IF_PC
       /\ C1.PC = cpu.PC /\ C1.ID_EX = cpu.ID_EX /\ C1.ID_EX_CONTROL = cpu.ID_EX_CONTROL
       /\ C1.CYCLE_COUNT = cpu.CYCLE_COUNT
  BY WriteBack DEF SameBut, Fields
<1>0b. /\ C1.PREDICTION \in BOOLEAN /\ C1.PREDICT_SUCCESS = TRUE /\ C1.PCSrc = "IF"
       /\ cpu.PIPE[2] # 0 => C1.PREDICTION = cpu.PREDICTION
       /\ C1.PIPE[3] = cpu.PIPE[2] /\ Misses(C1) = Missed
  BY WriteBack
<1>1. \/ /\ C2.exited = TRUE
         /\ SameBut(C1, C2, {"exited"})
      \/ /\ C1.PIPE[3] = 0 /\ C2.exited = FALSE
         /\ SameBut(C1, C2, {"MEM_WB"}) /\ C2.MEM_WB = NoResult
      \/ /\ C1.PIPE[3] # 0 /\ C2.exited = FALSE
         /\ SameBut(Resolve(C1), C2, {"MEM_WB", "mem"})
         /\ C2.MEM_WB = MemoryLatch(C1)
         /\ C2.mem = IF C1.EX_MEM.MemWrite
                    THEN mem_write_32(C1.mem, C1.EX_MEM.ALU_OUT, C1.REGS[C1.EX_MEM.DEST])
                    ELSE C1.mem
  BY <1>0, MEMStage DEF C2
<1>2. CASE C2.exited = TRUE /\ SameBut(C1, C2, {"exited"})
  <2>1. DOMAIN C2 = Fields /\ C2.REGS = C1.REGS /\ C2.PIPE = C1.PIPE
    BY <1>2 DEF SameBut, Fields
  <2>. QED BY <2>1, <1>2, WriteBack
<1>3. CASE /\ C1.PIPE[3] = 0 /\ C2.exited = FALSE
           /\ SameBut(C1, C2, {"MEM_WB"}) /\ C2.MEM_WB = NoResult
  <2>1. /\ DOMAIN C2 = Fields /\ C2.REGS = C1.REGS /\ C2.PIPE = C1.PIPE /\ C2.PREDICTION = C1.PREDICTION
        /\ C2.PREDICT_SUCCESS = C1.PREDICT_SUCCESS /\ C2.PCSrc = C1.PCSrc /\ C2.IF_PC = C1.IF_PC
        /\ C2.HAZARD = C1.HAZARD /\ C2.PC = C1.PC /\ C2.ID_EX = C1.ID_EX
        /\ C2.ID_EX_CONTROL = C1.ID_EX_CONTROL /\ C2.EX_MEM = C1.EX_MEM /\ C2.mem = C1.mem
        /\ C2.EX_MEM_FORWARD = C1.EX_MEM_FORWARD /\ C2.MEM_WB_FORWARD = C1.MEM_WB_FORWARD
        /\ C2.INSTRUCTION_COUNT = C1.INSTRUCTION_COUNT /\ C2.CYCLE_COUNT = C1.CYCLE_COUNT
    BY <1>3 DEF SameBut, Fields
  <2>2. ~Busy(EX_STAGE) /\ ~Missed /\ cpu.EX_MEM.MemWrite = FALSE
    <3>1. ~Busy(EX_STAGE)
      BY <1>3, WriteBack DEF Busy, EX_STAGE
    <3>2. cpu.EX_MEM.Branch = FALSE /\ cpu.EX_MEM.MemWrite = FALSE
      BY <3>1 DEF EX_MEMInv, NoExecution
    <3>. QED BY <3>1, <3>2 DEF Missed
  <2>3. C2.PREDICT_SUCCESS = ~Missed
    BY <2>1, <2>2, WriteBack
  <2>4. C2.PREDICTION \in BOOLEAN /\ C2.HAZARD = FALSE
    BY <2>1, WriteBack
  <2>5. /\ DOMAIN C2.PIPE = 0..4 /\ C2.PIPE[0] = cpu.PIPE[0]
        /\ C2.PIPE[1] = (IF cpu.HAZARD THEN cpu.PIPE[1] ELSE cpu.PIPE[0])
        /\ C2.PIPE[2] = (IF cpu.HAZARD THEN 0 ELSE cpu.PIPE[1])
        /\ C2.PIPE[3] = cpu.PIPE[2] /\ C2.PIPE[4] = cpu.PIPE[3]
    BY <2>1, WriteBack
  <2>6. /\ (cpu.PIPE[0] # 0 \/ cpu.PIPE[1] # 0 \/ cpu.PIPE[2] # 0) => C2.PREDICTION = cpu.PREDICTION
        /\ C2.PCSrc = "IF" /\ C2.IF_PC = cpu.IF_PC
        /\ C2.PC = cpu.PC /\ C2.ID_EX = cpu.ID_EX /\ C2.ID_EX_CONTROL = cpu.ID_EX_CONTROL
        /\ C2.EX_MEM = cpu.EX_MEM /\ C2.MEM_WB = NoResult /\ C2.mem = cpu.mem
        /\ C2.INSTRUCTION_COUNT = C1.INSTRUCTION_COUNT /\ C2.CYCLE_COUNT = cpu.CYCLE_COUNT
        /\ C2.REGS = WrittenRegs
    BY <2>1, <1>0a, <1>3, WriteBack
  <2>7. /\ C2.EX_MEM_FORWARD = [REG |-> cpu.EX_MEM.DEST, VALUE |-> cpu.EX_MEM.ALU_OUT,
                                        WRITES |-> cpu.EX_MEM.RegWrite]
        /\ C2.MEM_WB_FORWARD = [REG |-> cpu.MEM_WB.DEST, WRITES |-> cpu.MEM_WB.RegWrite,
                                        VALUE |-> Value_WB]
    BY <2>1, WriteBack
  <2>. QED BY <2>1, <2>2, <2>3, <2>4, <2>5, <2>6, <2>7, <1>3
<1>4. CASE /\ C1.PIPE[3] # 0 /\ C2.exited = FALSE
           /\ SameBut(Resolve(C1), C2, {"MEM_WB", "mem"})
           /\ C2.MEM_WB = MemoryLatch(C1)
           /\ C2.mem = IF C1.EX_MEM.MemWrite
                    THEN mem_write_32(C1.mem, C1.EX_MEM.ALU_OUT, C1.REGS[C1.EX_MEM.DEST])
                    ELSE C1.mem
  <2> DEFINE r == Resolve(C1)
  <2>1. /\ SameBut(C1, r, {"PREDICT_SUCCESS", "PREDICTION", "PCSrc", "BRANCH_PC", "IF_PC", "PIPE"})
        /\ DOMAIN r.PIPE = 0..4 /\ r.PIPE[3] = C1.PIPE[3] /\ r.PIPE[4] = C1.PIPE[4]
        /\ \A s \in 0..2 : r.PIPE[s] = IF Misses(C1) THEN 0 ELSE C1.PIPE[s]
        /\ r.PREDICT_SUCCESS = (IF Misses(C1) THEN FALSE ELSE C1.PREDICT_SUCCESS)
        /\ r.PREDICTION = (IF Misses(C1) THEN ~C1.PREDICTION ELSE C1.PREDICTION)
        /\ r.PCSrc = (IF Misses(C1) THEN (IF C1.EX_MEM.BR_TAKE = 1 THEN "BRANCH" ELSE "IF")
                        ELSE C1.PCSrc)
        /\ Misses(C1) /\ C1.EX_MEM.BR_TAKE = 1 => r.BRANCH_PC = C1.EX_MEM.BR_TARGET
        /\ r.IF_PC = IF Misses(C1) /\ C1.EX_MEM.BR_TAKE # 1 THEN C1.PIPE[3] + 4 ELSE C1.IF_PC
    BY <1>0, ResolveStage
  <2>2. SameBut(r, C2, {"MEM_WB", "mem"})
    BY <1>4
  <2> HIDE DEF r
  <2>3. /\ DOMAIN C2 = Fields /\ C2.REGS = C1.REGS
        /\ C2.HAZARD = C1.HAZARD /\ C2.PC = C1.PC /\ C2.ID_EX = C1.ID_EX
        /\ C2.ID_EX_CONTROL = C1.ID_EX_CONTROL /\ C2.EX_MEM = C1.EX_MEM
        /\ C2.EX_MEM_FORWARD = C1.EX_MEM_FORWARD /\ C2.MEM_WB_FORWARD = C1.MEM_WB_FORWARD
        /\ C2.INSTRUCTION_COUNT = C1.INSTRUCTION_COUNT /\ C2.CYCLE_COUNT = C1.CYCLE_COUNT
    BY <2>1, <2>2 DEF SameBut, Fields
  <2>4. /\ C2.PIPE = r.PIPE /\ C2.PREDICTION = r.PREDICTION /\ C2.BRANCH_PC = r.BRANCH_PC
        /\ C2.PREDICT_SUCCESS = r.PREDICT_SUCCESS /\ C2.PCSrc = r.PCSrc /\ C2.IF_PC = r.IF_PC
    BY <2>2 DEF SameBut, Fields
  <2>5. Busy(EX_STAGE) /\ cpu.PIPE[2] # 0 /\ MemoryLatch(C1) = MemoryLatch(cpu)
    BY <1>4, <1>0a, WriteBack DEF Busy, EX_STAGE, MemoryLatch
  <2>6. r.PIPE[0] = (IF Missed THEN 0 ELSE C1.PIPE[0]) /\ r.PIPE[1] = (IF Missed THEN 0 ELSE C1.PIPE[1])
        /\ r.PIPE[2] = IF Missed THEN 0 ELSE C1.PIPE[2]
    BY <2>1, WriteBack
  <2>7. /\ DOMAIN C2.PIPE = 0..4
        /\ C2.PIPE[0] = (IF Missed THEN 0 ELSE cpu.PIPE[0])
        /\ C2.PIPE[1] = (IF Missed THEN 0 ELSE IF cpu.HAZARD THEN cpu.PIPE[1] ELSE cpu.PIPE[0])
        /\ C2.PIPE[2] = (IF Missed \/ cpu.HAZARD THEN 0 ELSE cpu.PIPE[1])
        /\ C2.PIPE[3] = cpu.PIPE[2] /\ C2.PIPE[4] = cpu.PIPE[3]
    BY <2>1, <2>4, <2>6, WriteBack
  <2>8. /\ C2.PREDICTION \in BOOLEAN
        /\ ~Missed => C2.PREDICTION = cpu.PREDICTION
        /\ C2.PREDICT_SUCCESS = ~Missed
        /\ C2.PCSrc = (IF Missed /\ cpu.EX_MEM.BR_TAKE = 1 THEN "BRANCH" ELSE "IF")
        /\ Missed /\ cpu.EX_MEM.BR_TAKE = 1 => C2.BRANCH_PC = cpu.EX_MEM.BR_TARGET
        /\ C2.IF_PC = (IF Missed /\ cpu.EX_MEM.BR_TAKE # 1 THEN cpu.PIPE[2] + 4 ELSE cpu.IF_PC)
    <3>1. r.PREDICTION \in BOOLEAN /\ (~Missed => r.PREDICTION = cpu.PREDICTION)
      BY <2>1, <2>5, <1>0b
    <3>2. r.PREDICT_SUCCESS = ~Missed
      BY <2>1, <1>0b
    <3>3. /\ r.PCSrc = (IF Missed /\ cpu.EX_MEM.BR_TAKE = 1 THEN "BRANCH" ELSE "IF")
          /\ Missed /\ cpu.EX_MEM.BR_TAKE = 1 => r.BRANCH_PC = cpu.EX_MEM.BR_TARGET
          /\ r.IF_PC = (IF Missed /\ cpu.EX_MEM.BR_TAKE # 1 THEN cpu.PIPE[2] + 4 ELSE cpu.IF_PC)
      BY <2>1, <1>0a, <1>0b
    <3>. QED BY <2>4, <3>1, <3>2, <3>3
  <2>9. C2.mem = (IF cpu.EX_MEM.MemWrite
                  THEN mem_write_32(cpu.mem, cpu.EX_MEM.ALU_OUT, WrittenRegs[cpu.EX_MEM.DEST])
                  ELSE cpu.mem)
    BY <1>0a, <1>4, WriteBack
  <2>. QED BY <2>3, <2>5, <2>7, <2>8, <2>9, <1>4, <1>0a, WriteBack
<1>. QED BY <1>1, <1>2, <1>3, <1>4

\* The state after EX.
LEMMA ExecuteFields ==
    ASSUME CpuType, EX_MEMInv, cpu.exited = FALSE, ~C2.exited
    PROVE  /\ DOMAIN C3 = Fields /\ DOMAIN C3.PIPE = 0..4
           /\ \A s \in {0, 2, 3, 4} : C3.PIPE[s] = C2.PIPE[s]
           /\ C3.EX_MEM = IF C2.PIPE[2] = 0 THEN NoExecution ELSE ExecutionLatch(C2)
           /\ C3.PIPE[1] = IF C2.PIPE[2] # 0 /\ (cpu.ID_EX.op \in Jumping \/ TakenInEX(C2)) THEN 0
                           ELSE C2.PIPE[1]
           /\ C3.PC = IF C2.PIPE[2] # 0 /\ TakenInEX(C2) THEN TargetInEX(C2) ELSE cpu.PC
           /\ C3.REGS = C2.REGS /\ C3.MEM_WB = C2.MEM_WB /\ C3.mem = C2.mem
           /\ C3.PREDICTION = C2.PREDICTION /\ C3.PREDICT_SUCCESS = C2.PREDICT_SUCCESS
           /\ C3.PCSrc = C2.PCSrc /\ C3.BRANCH_PC = C2.BRANCH_PC /\ C3.IF_PC = C2.IF_PC
           /\ C3.HAZARD = C2.HAZARD /\ C3.INSTRUCTION_COUNT = C2.INSTRUCTION_COUNT
           /\ C3.CYCLE_COUNT = C2.CYCLE_COUNT /\ C3.exited = C2.exited
<1>1. DOMAIN C2 = Fields /\ DOMAIN C2.PIPE = 0..4 /\ C2.PC = cpu.PC /\ C2.ID_EX = cpu.ID_EX
  BY MemoryFields
<1>2. /\ SameBut(C2, C3, {"PIPE", "PC", "EX_MEM"})
      /\ DOMAIN C3.PIPE = 0..4
      /\ \A s \in {0, 2, 3, 4} : C3.PIPE[s] = C2.PIPE[s]
      /\ C2.PIPE[2] = 0 => /\ C3.PIPE[1] = C2.PIPE[1] /\ C3.PC = C2.PC /\ C3.EX_MEM = NoExecution
      /\ C2.PIPE[2] # 0 => /\ C3.PIPE[1] = (IF C2.ID_EX.op \in Jumping \/ TakenInEX(C2) THEN 0
                                               ELSE C2.PIPE[1])
                           /\ C3.PC = (IF TakenInEX(C2) THEN TargetInEX(C2) ELSE C2.PC)
                           /\ C3.EX_MEM = ExecutionLatch(C2)
  BY <1>1, EXStage DEF C3
<1>3. /\ DOMAIN C3 = Fields /\ C3.REGS = C2.REGS /\ C3.MEM_WB = C2.MEM_WB /\ C3.mem = C2.mem
      /\ C3.PREDICTION = C2.PREDICTION /\ C3.PREDICT_SUCCESS = C2.PREDICT_SUCCESS
      /\ C3.PCSrc = C2.PCSrc /\ C3.BRANCH_PC = C2.BRANCH_PC /\ C3.IF_PC = C2.IF_PC
      /\ C3.HAZARD = C2.HAZARD /\ C3.INSTRUCTION_COUNT = C2.INSTRUCTION_COUNT
      /\ C3.CYCLE_COUNT = C2.CYCLE_COUNT /\ C3.exited = C2.exited
  BY <1>2 DEF SameBut, Fields
<1>. QED BY <1>1, <1>2, <1>3

\* The instruction that ID decodes, and where IF is told to go on.
Decoded == get_inst_info(program, C3.PIPE[1])

\* The state after ID.
LEMMA DecodeFields ==
    ASSUME CpuType, EX_MEMInv, cpu.exited = FALSE, ~C2.exited
    PROVE  /\ DOMAIN C4 = Fields /\ C4.PIPE = C3.PIPE /\ C4.PC = C3.PC /\ C4.IF_PC = C3.IF_PC
           /\ C4.EX_MEM = C3.EX_MEM /\ C4.MEM_WB = C3.MEM_WB /\ C4.mem = C3.mem
           /\ C4.PREDICTION = C3.PREDICTION /\ C4.PREDICT_SUCCESS = C3.PREDICT_SUCCESS
           /\ C4.INSTRUCTION_COUNT = C3.INSTRUCTION_COUNT
           /\ C4.CYCLE_COUNT = C3.CYCLE_COUNT /\ C4.exited = C3.exited
           /\ DOMAIN C4.REGS = REGISTERS
           /\ \A r \in REGISTERS \ {LINK} : C4.REGS[r] = WrittenRegs[r]
           /\ C4.REGS[LINK] = IF C3.PIPE[1] # 0 /\ Decoded.op = "jal" THEN C3.PIPE[1] + 4
                              ELSE WrittenRegs[LINK]
           /\ C3.PIPE[1] = 0 => /\ C4.PCSrc = C3.PCSrc /\ C4.BRANCH_PC = C3.BRANCH_PC
                                /\ C4.HAZARD = FALSE
           /\ C3.PIPE[1] # 0 =>
                LET i == Decoded IN
                /\ C4.ID_EX.op = i.op /\ C4.ID_EX.REG1 = WrittenRegs[i.rs]
                /\ C4.ID_EX.REG2 = WrittenRegs[i.rt]
                /\ C4.ID_EX.RS = i.rs /\ C4.ID_EX.RT = i.rt /\ C4.ID_EX.SH = i.shamt
                /\ C4.ID_EX.IMM = i.imm
                /\ i.op \notin Jumping => C4.ID_EX.DEST = Dest(i)
                /\ C4.ID_EX_CONTROL = control_init(i)
                /\ i.op = "jr" => C4.JUMP_PC = WrittenRegs[i.rs]
                /\ i.op \in Jumps => C4.JUMP_PC = JumpTarget(C3.PIPE[1], i)
                /\ C4.BRANCH_PC = (IF Redirected(C2, i) THEN Word(C3.PIPE[1] + i.imm * 4 + 4)
                                   ELSE C3.BRANCH_PC)
                /\ C4.PCSrc = (IF i.op \in Jumping THEN "JUMP" ELSE IF Redirected(C2, i) THEN "BRANCH"
                               ELSE C3.PCSrc)
                /\ C4.HAZARD = (C3.EX_MEM.MemRead /\ C3.EX_MEM.DEST \in {i.rs, i.rt})
<1>1. DOMAIN C3 = Fields /\ C3.HAZARD = FALSE /\ C3.REGS = WrittenRegs
      /\ DOMAIN WrittenRegs = REGISTERS /\ C3.PREDICTION = C2.PREDICTION
  BY ExecuteFields, MemoryFields DEF WrittenRegs, CpuType
<1> DEFINE i == Decoded
<1>2. /\ SameBut(C3, C4, {"ID_EX", "ID_EX_CONTROL", "JUMP_PC", "BRANCH_PC", "PCSrc", "REGS", "HAZARD"})
      /\ C3.PIPE[1] = 0 => /\ C4.PCSrc = C3.PCSrc /\ C4.REGS = C3.REGS /\ C4.HAZARD = FALSE
                           /\ C4.BRANCH_PC = C3.BRANCH_PC
      /\ C3.PIPE[1] # 0 =>
                /\ C4.ID_EX.op = i.op /\ C4.ID_EX.REG1 = C3.REGS[i.rs] /\ C4.ID_EX.REG2 = C3.REGS[i.rt]
                /\ C4.ID_EX.RS = i.rs /\ C4.ID_EX.RT = i.rt /\ C4.ID_EX.SH = i.shamt /\ C4.ID_EX.IMM = i.imm
                /\ i.op \notin Jumping => C4.ID_EX.DEST = Dest(i)
                /\ C4.ID_EX_CONTROL = control_init(i)
                /\ i.op = "jr" => C4.JUMP_PC = C3.REGS[i.rs]
                /\ i.op \in Jumps => C4.JUMP_PC = JumpTarget(C3.PIPE[1], i)
                /\ C4.BRANCH_PC = (IF Redirected(C3, i) THEN Word(C3.PIPE[1] + i.imm * 4 + 4) ELSE C3.BRANCH_PC)
                /\ C4.PCSrc = (IF i.op \in Jumping THEN "JUMP" ELSE IF Redirected(C3, i) THEN "BRANCH"
                             ELSE C3.PCSrc)
                /\ C4.HAZARD = Hazard_Detection_Unit(C3, i)
                /\ DOMAIN C4.REGS = REGISTERS
                /\ C4.REGS[LINK] = (IF i.op = "jal" THEN C3.PIPE[1] + 4 ELSE C3.REGS[LINK])
                /\ \A r \in REGISTERS \ {LINK} : C4.REGS[r] = C3.REGS[r]
  <2>1. C4 = ID_Stage(C3, program) /\ i = get_inst_info(program, C3.PIPE[1])
    BY DEF C4, Decoded
  <2>2. DOMAIN C3 = Fields /\ C3.HAZARD = FALSE /\ DOMAIN C3.REGS = REGISTERS
    BY <1>1
  <2> HIDE DEF i
  <2>3. Decodes(C3, C4, i)
    BY <2>1, <2>2, IDStage
  <2>. QED BY <2>3 DEF Decodes
<1>3. Redirected(C3, i) = Redirected(C2, i)
  BY <1>1 DEF Redirected
<1>4. Hazard_Detection_Unit(C3, i) = (C3.EX_MEM.MemRead /\ C3.EX_MEM.DEST \in {i.rs, i.rt})
  BY DEF Hazard_Detection_Unit
<1> HIDE DEF i
<1>5. /\ DOMAIN C4 = Fields /\ C4.PIPE = C3.PIPE /\ C4.PC = C3.PC /\ C4.IF_PC = C3.IF_PC
      /\ C4.EX_MEM = C3.EX_MEM /\ C4.MEM_WB = C3.MEM_WB /\ C4.mem = C3.mem
      /\ C4.PREDICTION = C3.PREDICTION /\ C4.PREDICT_SUCCESS = C3.PREDICT_SUCCESS
      /\ C4.INSTRUCTION_COUNT = C3.INSTRUCTION_COUNT
      /\ C4.CYCLE_COUNT = C3.CYCLE_COUNT /\ C4.exited = C3.exited
  BY <1>2 DEF SameBut, Fields
<1>6. CASE C3.PIPE[1] = 0
  BY <1>1, <1>2, <1>5, <1>6, RegisterAssumption
<1>7. CASE C3.PIPE[1] # 0
  <2>1. C4.HAZARD = (C3.EX_MEM.MemRead /\ C3.EX_MEM.DEST \in {i.rs, i.rt})
    BY <1>2, <1>4, <1>7
  <2>2. /\ C4.BRANCH_PC = (IF Redirected(C2, i) THEN Word(C3.PIPE[1] + i.imm * 4 + 4) ELSE C3.BRANCH_PC)
        /\ C4.PCSrc = (IF i.op \in Jumping THEN "JUMP" ELSE IF Redirected(C2, i) THEN "BRANCH"
                             ELSE C3.PCSrc)
    BY <1>2, <1>3, <1>7
  <2>3. /\ C4.ID_EX.op = i.op /\ C4.ID_EX.REG1 = WrittenRegs[i.rs]
        /\ C4.ID_EX.REG2 = WrittenRegs[i.rt]
        /\ C4.ID_EX.RS = i.rs /\ C4.ID_EX.RT = i.rt /\ C4.ID_EX.SH = i.shamt
        /\ C4.ID_EX.IMM = i.imm
        /\ i.op \notin Jumping => C4.ID_EX.DEST = Dest(i)
        /\ C4.ID_EX_CONTROL = control_init(i)
        /\ i.op = "jr" => C4.JUMP_PC = WrittenRegs[i.rs]
        /\ i.op \in Jumps => C4.JUMP_PC = JumpTarget(C3.PIPE[1], i)
    BY <1>1, <1>2, <1>7
  <2>4. /\ DOMAIN C4.REGS = REGISTERS
        /\ \A r \in REGISTERS \ {LINK} : C4.REGS[r] = WrittenRegs[r]
        /\ C4.REGS[LINK] = (IF i.op = "jal" THEN C3.PIPE[1] + 4 ELSE WrittenRegs[LINK])
    BY <1>1, <1>2, <1>7
  <2>. QED BY <1>5, <1>7, <2>1, <2>2, <2>3, <2>4 DEF i
<1>. QED BY <1>6, <1>7

\* The fields of the machine after the cycle, with C3 for what EX left.
NextFields ==
    /\ DOMAIN cpu' = Fields /\ cpu'.exited = FALSE
    /\ DOMAIN cpu'.PIPE = 0..4
    /\ cpu'.PIPE[4] = cpu.PIPE[3] /\ cpu'.PIPE[3] = cpu.PIPE[2]
    /\ cpu'.PIPE[2] = C2.PIPE[2] /\ cpu'.PIPE[1] = C3.PIPE[1]
    /\ cpu'.PIPE[0] = (IF ~Fetches(C3) \/ (~cpu'.HAZARD /\ Missed) THEN 0 ELSE C3.PC)
    /\ cpu'.IF_PC = (IF Fetches(C3) /\ ~cpu'.HAZARD /\ ~Missed THEN Word(C3.PC + 4) ELSE C2.IF_PC)
    /\ cpu'.PC = (IF C3.PIPE[1] # 0 /\ Decoded.op = "jr" THEN WrittenRegs[Decoded.rs]
                  ELSE IF C3.PIPE[1] # 0 /\ Decoded.op \in Jumps THEN JumpTarget(C3.PIPE[1], Decoded)
                  ELSE IF C3.PIPE[1] # 0 /\ Redirected(C2, Decoded)
                       THEN Word(C3.PIPE[1] + Decoded.imm * 4 + 4)
                  ELSE IF Missed /\ cpu.EX_MEM.BR_TAKE = 1 THEN cpu.EX_MEM.BR_TARGET
                  ELSE cpu'.IF_PC)
    /\ cpu'.HAZARD = (/\ C3.PIPE[1] # 0 /\ cpu'.EX_MEM.MemRead
                      /\ cpu'.EX_MEM.DEST \in {Decoded.rs, Decoded.rt})
    /\ cpu'.EX_MEM = (IF C2.PIPE[2] = 0 THEN NoExecution ELSE ExecutionLatch(C2))
    /\ cpu'.MEM_WB = (IF Busy(EX_STAGE) THEN MemoryLatch(cpu) ELSE NoResult)
    /\ cpu'.mem = (IF cpu.EX_MEM.MemWrite
                   THEN mem_write_32(cpu.mem, cpu.EX_MEM.ALU_OUT, WrittenRegs[cpu.EX_MEM.DEST])
                   ELSE cpu.mem)
    /\ cpu'.PREDICTION = C2.PREDICTION
    /\ DOMAIN cpu'.REGS = REGISTERS /\ cpu'.REGS[0] = 0
    /\ \A r \in REGISTERS \ {0, LINK} : cpu'.REGS[r] = WrittenRegs[r]
    /\ cpu'.REGS[LINK] = (IF C3.PIPE[1] # 0 /\ Decoded.op = "jal" THEN C3.PIPE[1] + 4
                          ELSE WrittenRegs[LINK])
    /\ C3.PIPE[1] # 0 =>
         /\ cpu'.ID_EX.op = Decoded.op /\ cpu'.ID_EX.REG1 = WrittenRegs[Decoded.rs]
         /\ cpu'.ID_EX.REG2 = WrittenRegs[Decoded.rt]
         /\ cpu'.ID_EX.RS = Decoded.rs /\ cpu'.ID_EX.RT = Decoded.rt
         /\ cpu'.ID_EX.SH = Decoded.shamt /\ cpu'.ID_EX.IMM = Decoded.imm
         /\ Decoded.op \notin Jumping => cpu'.ID_EX.DEST = Dest(Decoded)
         /\ cpu'.ID_EX_CONTROL = control_init(Decoded)
    /\ cpu'.INSTRUCTION_COUNT = (IF Busy(MEM_STAGE) THEN cpu.INSTRUCTION_COUNT + 1
                                 ELSE cpu.INSTRUCTION_COUNT)
    /\ cpu'.CYCLE_COUNT = cpu.CYCLE_COUNT + 1
    /\ cpu'.RUN_BIT = /\ cpu'.PIPE[4] < MEM_TEXT_START + Len(program) * 4
                      /\ ~(cpu'.PIPE[4] # 0 /\ \A s \in 0..3 : cpu'.PIPE[s] = 0)
                      /\ cpu'.INSTRUCTION_COUNT < MAX_INSTRUCTION_NUM

\* The state after a cycle that does not end the simulator.
LEMMA NextState ==
    ASSUME CpuType, EX_MEMInv, Cycle, ~C2.exited
    PROVE  NextFields
<1>0. cpu.exited = FALSE /\ cpu' = [C6 EXCEPT !.CYCLE_COUNT = @ + 1]
  BY CycleStages
<1>1. DOMAIN C4 = Fields /\ C4.PIPE = C3.PIPE /\ DOMAIN C4.PIPE = 0..4 /\ DOMAIN C4.REGS = REGISTERS
  BY <1>0, DecodeFields, ExecuteFields
<1>2. /\ SameBut(C4, C5, {"PIPE", "IF_PC", "PC"})
      /\ DOMAIN C5.PIPE = 0..4
      /\ \A s \in 1..4 : C5.PIPE[s] = C4.PIPE[s]
      /\ C5.PIPE[0] = (IF ~Fetches(C4) THEN 0
                       ELSE IF C4.HAZARD \/ C4.PREDICT_SUCCESS THEN C4.PC ELSE C4.PIPE[0])
      /\ C5.IF_PC = NextIFPC(C4)
      /\ C5.PC = (CASE C4.PCSrc = "JUMP" -> C4.JUMP_PC [] C4.PCSrc = "BRANCH" -> C4.BRANCH_PC
                       [] OTHER -> NextIFPC(C4))
  BY <1>1, IFStage DEF C5
<1>3. DOMAIN C5 = Fields /\ C5.REGS = C4.REGS
  BY <1>2 DEF SameBut, Fields
<1>4. /\ SameBut(C5, C6, {"REGS", "RUN_BIT"})
      /\ DOMAIN C6.REGS = REGISTERS /\ C6.REGS[0] = 0
      /\ \A r \in REGISTERS \ {0} : C6.REGS[r] = C5.REGS[r]
      /\ C6.RUN_BIT = (/\ C5.PIPE[4] < MEM_TEXT_START + Len(program) * 4
                          /\ ~(C5.PIPE[4] # 0 /\ \A s \in 0..3 : C5.PIPE[s] = 0)
                          /\ C5.INSTRUCTION_COUNT < MAX_INSTRUCTION_NUM)
  <2>1. C6 = Finish(C5, program)
    BY DEF C6
  <2>2. DOMAIN C5.REGS = REGISTERS
    BY <1>1, <1>3
  <2>3. Finished(C5, C6)
    BY <1>3, <2>1, <2>2, FinishStage
  <2>. QED BY <2>3 DEF Finished
<1>5. SameBut(C6, cpu', {"CYCLE_COUNT"}) /\ cpu'.CYCLE_COUNT = C6.CYCLE_COUNT + 1
  <2>1. DOMAIN C6 = Fields
    BY <1>4 DEF SameBut
  <2>. QED BY <1>0, <2>1 DEF SameBut, Fields
<1>6. /\ DOMAIN cpu' = Fields /\ cpu'.PIPE = C5.PIPE /\ cpu'.IF_PC = C5.IF_PC /\ cpu'.PC = C5.PC
      /\ cpu'.REGS = C6.REGS /\ cpu'.RUN_BIT = C6.RUN_BIT
  BY <1>4, <1>5 DEF SameBut, Fields
<1>7. /\ cpu'.exited = C4.exited /\ cpu'.HAZARD = C4.HAZARD /\ cpu'.EX_MEM = C4.EX_MEM
      /\ cpu'.MEM_WB = C4.MEM_WB /\ cpu'.mem = C4.mem /\ cpu'.PREDICTION = C4.PREDICTION
      /\ cpu'.ID_EX = C4.ID_EX /\ cpu'.ID_EX_CONTROL = C4.ID_EX_CONTROL
      /\ cpu'.INSTRUCTION_COUNT = C4.INSTRUCTION_COUNT /\ C6.CYCLE_COUNT = C4.CYCLE_COUNT
      /\ C5.INSTRUCTION_COUNT = C4.INSTRUCTION_COUNT
  BY <1>2, <1>4, <1>5 DEF SameBut, Fields
<1>8. /\ cpu'.exited = FALSE
      /\ cpu'.EX_MEM = (IF C2.PIPE[2] = 0 THEN NoExecution ELSE ExecutionLatch(C2))
      /\ cpu'.MEM_WB = (IF Busy(EX_STAGE) THEN MemoryLatch(cpu) ELSE NoResult)
      /\ cpu'.mem = (IF cpu.EX_MEM.MemWrite
                   THEN mem_write_32(cpu.mem, cpu.EX_MEM.ALU_OUT, WrittenRegs[cpu.EX_MEM.DEST])
                   ELSE cpu.mem)
      /\ cpu'.PREDICTION = C2.PREDICTION
      /\ cpu'.INSTRUCTION_COUNT = (IF Busy(MEM_STAGE) THEN cpu.INSTRUCTION_COUNT + 1
                                   ELSE cpu.INSTRUCTION_COUNT)
      /\ cpu'.CYCLE_COUNT = cpu.CYCLE_COUNT + 1
  <2>1. /\ C4.EX_MEM = C3.EX_MEM /\ C4.MEM_WB = C2.MEM_WB /\ C4.mem = C2.mem
        /\ C4.PREDICTION = C2.PREDICTION /\ C4.INSTRUCTION_COUNT = C2.INSTRUCTION_COUNT
        /\ C4.CYCLE_COUNT = C2.CYCLE_COUNT /\ C4.exited = C2.exited
    BY <1>0, DecodeFields, ExecuteFields
  <2>2. C2.exited = FALSE
    BY <1>0, MemoryFields
  <2>3. C3.EX_MEM = (IF C2.PIPE[2] = 0 THEN NoExecution ELSE ExecutionLatch(C2))
    BY <1>0, ExecuteFields
  <2>4. /\ C2.MEM_WB = (IF Busy(EX_STAGE) THEN MemoryLatch(cpu) ELSE NoResult)
        /\ C2.mem = (IF cpu.EX_MEM.MemWrite
                   THEN mem_write_32(cpu.mem, cpu.EX_MEM.ALU_OUT, WrittenRegs[cpu.EX_MEM.DEST])
                   ELSE cpu.mem)
        /\ C2.INSTRUCTION_COUNT = C1.INSTRUCTION_COUNT /\ C2.CYCLE_COUNT = cpu.CYCLE_COUNT
    BY <1>0, MemoryFields
  <2>5. C1.INSTRUCTION_COUNT = (IF Busy(MEM_STAGE) THEN cpu.INSTRUCTION_COUNT + 1
                                ELSE cpu.INSTRUCTION_COUNT)
    BY WriteBack
  <2>. QED BY <1>5, <1>7, <2>1, <2>2, <2>3, <2>4, <2>5
<1>9. /\ DOMAIN cpu'.REGS = REGISTERS /\ cpu'.REGS[0] = 0
      /\ \A r \in REGISTERS \ {0, LINK} : cpu'.REGS[r] = WrittenRegs[r]
      /\ cpu'.REGS[LINK] = (IF C3.PIPE[1] # 0 /\ Decoded.op = "jal" THEN C3.PIPE[1] + 4
                            ELSE WrittenRegs[LINK])
  <2>1. /\ \A r \in REGISTERS \ {LINK} : C4.REGS[r] = WrittenRegs[r]
        /\ C4.REGS[LINK] = (IF C3.PIPE[1] # 0 /\ Decoded.op = "jal" THEN C3.PIPE[1] + 4
                            ELSE WrittenRegs[LINK])
    BY <1>0, DecodeFields
  <2>2. 0 \in REGISTERS /\ LINK \in REGISTERS \ {0}
    BY RegisterAssumption
  <2>3. /\ DOMAIN cpu'.REGS = REGISTERS /\ cpu'.REGS[0] = 0
        /\ \A r \in REGISTERS \ {0} : cpu'.REGS[r] = C4.REGS[r]
    BY <1>3, <1>4, <1>6
  <2>. QED BY <2>1, <2>2, <2>3
<1>10. C3.PIPE[1] # 0 =>
         /\ cpu'.ID_EX.op = Decoded.op /\ cpu'.ID_EX.REG1 = WrittenRegs[Decoded.rs]
         /\ cpu'.ID_EX.REG2 = WrittenRegs[Decoded.rt]
         /\ cpu'.ID_EX.RS = Decoded.rs /\ cpu'.ID_EX.RT = Decoded.rt
         /\ cpu'.ID_EX.SH = Decoded.shamt /\ cpu'.ID_EX.IMM = Decoded.imm
         /\ Decoded.op \notin Jumping => cpu'.ID_EX.DEST = Dest(Decoded)
         /\ cpu'.ID_EX_CONTROL = control_init(Decoded)
  BY <1>0, <1>7, DecodeFields
<1>11. cpu'.HAZARD = (/\ C3.PIPE[1] # 0 /\ cpu'.EX_MEM.MemRead
                      /\ cpu'.EX_MEM.DEST \in {Decoded.rs, Decoded.rt})
  <2>1. C4.EX_MEM = C3.EX_MEM
    BY <1>0, DecodeFields
  <2>2. CASE C3.PIPE[1] = 0
    BY <1>0, <1>7, <2>1, <2>2, DecodeFields
  <2>3. CASE C3.PIPE[1] # 0
    <3>1. C4.HAZARD = (C3.EX_MEM.MemRead /\ C3.EX_MEM.DEST \in {Decoded.rs, Decoded.rt})
      BY <1>0, <2>3, DecodeFields
    <3>. QED BY <3>1, <1>7, <2>1, <2>3
  <2>. QED BY <2>2, <2>3
<1>12. /\ DOMAIN cpu'.PIPE = 0..4
       /\ cpu'.PIPE[4] = cpu.PIPE[3] /\ cpu'.PIPE[3] = cpu.PIPE[2]
       /\ cpu'.PIPE[2] = C2.PIPE[2] /\ cpu'.PIPE[1] = C3.PIPE[1]
  <2>1. \A s \in 1..4 : cpu'.PIPE[s] = C3.PIPE[s]
    BY <1>1, <1>2, <1>6
  <2>2. /\ C3.PIPE[4] = C2.PIPE[4] /\ C3.PIPE[3] = C2.PIPE[3] /\ C3.PIPE[2] = C2.PIPE[2]
        /\ C2.PIPE[4] = cpu.PIPE[3] /\ C2.PIPE[3] = cpu.PIPE[2]
    BY <1>0, ExecuteFields, MemoryFields
  <2>. QED BY <2>1, <2>2, <1>2, <1>6
<1>13. Fetches(C4) = Fetches(C3) /\ C4.PC = C3.PC /\ C4.IF_PC = C2.IF_PC /\ C4.PREDICT_SUCCESS = ~Missed
  <2>1. /\ C4.PC = C3.PC /\ C4.IF_PC = C3.IF_PC /\ C3.IF_PC = C2.IF_PC
        /\ C4.PREDICT_SUCCESS = C3.PREDICT_SUCCESS /\ C3.PREDICT_SUCCESS = C2.PREDICT_SUCCESS
        /\ C2.PREDICT_SUCCESS = ~Missed
    BY <1>0, DecodeFields, ExecuteFields, MemoryFields
  <2>. QED BY <2>1 DEF Fetches
<1>14. cpu'.IF_PC = (IF Fetches(C3) /\ ~cpu'.HAZARD /\ ~Missed THEN Word(C3.PC + 4) ELSE C2.IF_PC)
  BY <1>2, <1>6, <1>7, <1>13 DEF NextIFPC
<1>15. cpu'.PIPE[0] = IF ~Fetches(C3) \/ (~cpu'.HAZARD /\ Missed) THEN 0 ELSE C3.PC
  <2>1. Missed => C4.PIPE[0] = 0
    BY <1>0, <1>1, ExecuteFields, MemoryFields
  <2>. QED BY <2>1, <1>2, <1>6, <1>7, <1>13
<1>16. cpu'.PC = (IF C3.PIPE[1] # 0 /\ Decoded.op = "jr" THEN WrittenRegs[Decoded.rs]
                  ELSE IF C3.PIPE[1] # 0 /\ Decoded.op \in Jumps THEN JumpTarget(C3.PIPE[1], Decoded)
                  ELSE IF C3.PIPE[1] # 0 /\ Redirected(C2, Decoded)
                       THEN Word(C3.PIPE[1] + Decoded.imm * 4 + 4)
                  ELSE IF Missed /\ cpu.EX_MEM.BR_TAKE = 1 THEN cpu.EX_MEM.BR_TARGET
                  ELSE cpu'.IF_PC)
  <2>1. cpu'.PC = (CASE C4.PCSrc = "JUMP" -> C4.JUMP_PC [] C4.PCSrc = "BRANCH" -> C4.BRANCH_PC
                       [] OTHER -> cpu'.IF_PC)
    BY <1>2, <1>6
  <2>2. /\ C3.PCSrc = (IF Missed /\ cpu.EX_MEM.BR_TAKE = 1 THEN "BRANCH" ELSE "IF")
        /\ Missed /\ cpu.EX_MEM.BR_TAKE = 1 => C3.BRANCH_PC = cpu.EX_MEM.BR_TARGET
    BY <1>0, ExecuteFields, MemoryFields
  <2>3. CASE C3.PIPE[1] = 0
    <3>1. C4.PCSrc = C3.PCSrc /\ C4.BRANCH_PC = C3.BRANCH_PC
      BY <1>0, <2>3, DecodeFields
    <3>. QED BY <3>1, <2>1, <2>2, <2>3
  <2>4. CASE C3.PIPE[1] # 0
    <3>1. /\ Decoded.op = "jr" => C4.JUMP_PC = WrittenRegs[Decoded.rs]
          /\ Decoded.op \in Jumps => C4.JUMP_PC = JumpTarget(C3.PIPE[1], Decoded)
          /\ C4.BRANCH_PC = (IF Redirected(C2, Decoded) THEN Word(C3.PIPE[1] + Decoded.imm * 4 + 4)
                                   ELSE C3.BRANCH_PC)
          /\ C4.PCSrc = (IF Decoded.op \in Jumping THEN "JUMP"
                         ELSE IF Redirected(C2, Decoded) THEN "BRANCH" ELSE C3.PCSrc)
      BY <1>0, <2>4, DecodeFields
    <3>2. Decoded.op \in Jumping <=> Decoded.op = "jr" \/ Decoded.op \in Jumps
      BY DEF Jumping
    <3>. QED BY <3>1, <3>2, <2>1, <2>2, <2>4
  <2>. QED BY <2>3, <2>4
<1>17. cpu'.RUN_BIT = (/\ cpu'.PIPE[4] < MEM_TEXT_START + Len(program) * 4
                      /\ ~(cpu'.PIPE[4] # 0 /\ \A s \in 0..3 : cpu'.PIPE[s] = 0)
                      /\ cpu'.INSTRUCTION_COUNT < MAX_INSTRUCTION_NUM)
  BY <1>4, <1>6, <1>7
<1>. QED BY <1>6, <1>8, <1>9, <1>10, <1>11, <1>12, <1>14, <1>15, <1>16, <1>17 DEF NextFields

-----------------------------------------------------------------------------
(* Addresses of instructions, and the single-step machine.                 *)

\* A program fits the text.
LEMMA ProgramFacts ==
    ASSUME program \in Programs
    PROVE  /\ Len(program) \in Nat /\ Len(program) >= 1 /\ 4 * Len(program) <= MEM_TEXT_SIZE
           /\ \A k \in 1..Len(program) : Instruction(program[k])
<1>1. Len(program) \in 1..(MEM_TEXT_SIZE \div 4) /\ \A k \in 1..Len(program) : Instruction(program[k])
  BY ProgramsAssumption
<1>. QED BY <1>1, TextFacts

\* An address in the text has an instruction, and is far from the last word.
LEMMA InTextFacts ==
    ASSUME program \in Programs, NEW pc, InText(pc)
    PROVE  /\ pc \in Nat /\ pc > 0 /\ pc + 4 < WORD \div 16 /\ pc \in Values /\ pc + 4 \in Values
           /\ Word(pc + 4) = pc + 4
           /\ Instruction(get_inst_info(program, pc))
<1>1. /\ pc \in Nat /\ pc >= MEM_TEXT_START /\ pc < MEM_TEXT_START + 4 * Len(program)
      /\ 4 * Len(program) <= MEM_TEXT_SIZE /\ Len(program) \in Nat
  BY ProgramFacts, TextFacts DEF InText
<1>2. pc > 0 /\ pc + 4 < WORD \div 16 /\ pc \in Values /\ pc + 4 \in Values
  BY <1>1, TextFacts, WordFacts DEF Values
<1>3. Word(pc + 4) = pc + 4
  BY <1>1, <1>2, WordRange
<1>4. (Word(pc - MEM_TEXT_START) \div 4) + 1 \in 1..Len(program)
  <2>1. pc - MEM_TEXT_START \in Values
    BY <1>1, <1>2, TextFacts, WordFacts DEF Values
  <2>2. Word(pc - MEM_TEXT_START) = pc - MEM_TEXT_START
    BY <2>1, WordRange, WordFacts DEF Values
  <2> DEFINE d == pc - MEM_TEXT_START
  <2>3. d \in Nat /\ d < 4 * Len(program)
    BY <1>1, TextFacts
  <2> HIDE DEF d
  <2>4. (d \div 4) + 1 \in 1..Len(program)
    BY <2>3, <1>1
  <2>. QED BY <2>2, <2>4 DEF d
<1>. QED BY <1>1, <1>2, <1>3, <1>4, ProgramFacts DEF get_inst_info

\* The two tests of an address in the code are whether it is in the text.
LEMMA OutsideText ==
    ASSUME program \in Programs, NEW pc \in Values
    PROVE  /\ Outside(program, pc) <=> ~InText(pc)
           /\ Word(pc - MEM_TEXT_START) < Len(program) * 4 <=> InText(pc)
<1> DEFINE d == pc - MEM_TEXT_START
           n == Len(program)
<1>1. n \in Nat /\ 4 * n <= MEM_TEXT_SIZE /\ pc \in Nat /\ pc < WORD /\ d \in Int
      /\ MEM_TEXT_START + MEM_TEXT_SIZE < WORD /\ MEM_TEXT_START \in Nat /\ MEM_TEXT_SIZE \in Nat
      /\ WORD \in Nat /\ WORD > 0
  BY ProgramFacts, TextFacts, WordFacts DEF Values
<1>2. CASE pc >= MEM_TEXT_START
  <2>1. d \in Values
    BY <1>1, <1>2 DEF Values
  <2>2. Word(d) = d /\ d \in Nat
    BY <2>1, WordRange, WordFacts DEF Values
  <2>3. InText(pc) <=> d < 4 * n
    BY <1>1, <1>2 DEF InText
  <2> HIDE DEF d, n
  <2>4. d \div 4 >= n <=> ~(d < 4 * n)
    BY <2>2, <1>1
  <2>. QED BY <2>2, <2>3, <2>4, <1>1 DEF Outside, d, n
<1>3. CASE pc < MEM_TEXT_START
  <2>1. Word(d) = d + WORD
    <3>1. d \in Int /\ d < 0 /\ d >= -WORD
      BY <1>1, <1>3
    <3> HIDE DEF d
    <3>. QED BY <3>1, <1>1, NegativeMod DEF Word
  <2>2. ~InText(pc)
    BY <1>1, <1>3 DEF InText
  <2>3. d + WORD \in Nat /\ d + WORD >= 4 * n
    <3>1. d + MEM_TEXT_START = pc
      BY <1>1
    <3> HIDE DEF d, n
    <3>. QED BY <3>1, <1>1
  <2> HIDE DEF d, n
  <2>4. (d + WORD) \div 4 >= n /\ ~(d + WORD < n * 4)
    BY <2>3, <1>1
  <2>. QED BY <2>1, <2>2, <2>4 DEF Outside, d, n
<1>. QED BY <1>1, <1>2, <1>3

\* The target of a jump is a word, and the same from the next instruction.
LEMMA JumpInText ==
    ASSUME NEW pc \in Nat, pc + 4 < WORD \div 16, NEW i, i.target \in Nat
    PROVE  JumpTarget(pc, i) \in Values /\ JumpTarget(pc + 4, i) = JumpTarget(pc, i)
<1> DEFINE S == WORD \div 16
           t == (i.target * 4) % S
<1>1. S \in Nat /\ S > 0 /\ S <= WORD
  BY TextFacts
<1>2. pc % S = pc /\ (pc + 4) % S = pc + 4
  BY <1>1, ModFacts
<1>3. t \in 0..(S - 1)
  BY <1>1, ModFacts
<1> HIDE DEF S
<1>4. JumpTarget(pc, i) = t /\ JumpTarget(pc + 4, i) = t
  <2>1. JumpTarget(pc, i) = (pc - (pc % S)) + t /\ JumpTarget(pc + 4, i) = ((pc + 4) - ((pc + 4) % S)) + t
    BY DEF JumpTarget, S
  <2> HIDE DEF t
  <2>. QED BY <2>1, <1>1, <1>2, <1>3
<1>. QED BY <1>1, <1>3, <1>4, WordFacts DEF Values

\* A word read from memory, and the bytes of one written to it.
LEMMA MemoryRange ==
    ASSUME NEW mem \in [Text \cup Data -> 0..(BYTE - 1)], NEW a \in Int, NEW v \in Int
    PROVE  /\ mem_read_32(mem, a) \in Values
           /\ mem_write_32(mem, a, v) \in [Text \cup Data -> 0..(BYTE - 1)]
<1>1. mem_read_32(mem, a) \in Values
  <2>1. CASE ~Whole(mem, a)
    BY <2>1, WordFacts DEF mem_read_32, Values
  <2>2. CASE Whole(mem, a)
    <3>1. \A k \in 0..3 : a + k \in DOMAIN mem
      BY <2>2 DEF Whole
    <3>2. {mem[a], mem[a + 1], mem[a + 2], mem[a + 3]} \subseteq 0..(BYTE - 1)
      <4>1. a + 0 = a
        OBVIOUS
      <4>. QED BY <3>1, <4>1
    <3>3. ASSUME NEW x \in 0..(BYTE - 1), NEW y \in 0..(BYTE - 1), NEW z \in 0..(BYTE - 1),
                 NEW w \in 0..(BYTE - 1)
          PROVE  x + BYTE * y + HALF * z + BYTE * HALF * w \in 0..(WORD - 1)
      <4>1. \A m \in Nat, u \in Nat, t \in 0..(BYTE - 1) :
                u <= m - 1 => t + BYTE * u \in 0..(BYTE * m - 1)
        <5> SUFFICES ASSUME NEW m \in Nat, NEW u \in Nat, NEW t \in 0..(BYTE - 1), u <= m - 1
                     PROVE  t + BYTE * u \in 0..(BYTE * m - 1)
          OBVIOUS
        <5>1. BYTE * u <= BYTE * (m - 1) /\ BYTE * (m - 1) = BYTE * m - BYTE /\ BYTE * u \in Nat
          BY WordFacts
        <5>. QED BY <5>1, WordFacts
      <4>2. z + BYTE * w \in 0..(BYTE * BYTE - 1)
        BY <4>1, WordFacts
      <4>3. y + BYTE * (z + BYTE * w) \in 0..(BYTE * HALF - 1)
        BY <4>1, <4>2, WordFacts
      <4>4. x + BYTE * (y + BYTE * (z + BYTE * w)) \in 0..(BYTE * (BYTE * HALF) - 1)
        <5>1. BYTE * HALF \in Nat
          BY WordFacts
        <5>. QED BY <4>1, <4>3, <5>1
      <4>5. BYTE * (BYTE * HALF) = WORD
        BY WordFacts DEF WORD
      <4>6. x + BYTE * (y + BYTE * (z + BYTE * w)) = x + BYTE * y + HALF * z + BYTE * HALF * w
        BY WordFacts
      <4>. QED BY <4>4, <4>5, <4>6
    <3>4. mem[a] + BYTE * mem[a + 1] + HALF * mem[a + 2] + BYTE * HALF * mem[a + 3] \in 0..(WORD - 1)
      BY <3>2, <3>3
    <3>. QED BY <3>4, <2>2 DEF mem_read_32, Values
  <2>. QED BY <2>1, <2>2
<1>2. ASSUME NEW x \in Text \cup Data
      PROVE  (IF x \in a..(a + 3) /\ Whole(mem, a) THEN (v \div Weight[x - a]) % BYTE ELSE mem[x])
                 \in 0..(BYTE - 1)
  <2>1. CASE x \in a..(a + 3)
    <3>1. x - a \in 0..3
      BY <2>1
    <3>2. \A k \in 0..3 : Weight[k] \in Nat /\ Weight[k] > 0
      <4>1. BYTE * HALF \in Nat /\ BYTE * HALF > 0
        BY WordFacts
      <4>2. Weight[0] = 1 /\ Weight[1] = BYTE /\ Weight[2] = HALF /\ Weight[3] = BYTE * HALF
        BY DEF Weight
      <4>. QED BY <4>1, <4>2, WordFacts
    <3>3. v \div Weight[x - a] \in Int
      BY <3>1, <3>2
    <3>4. (v \div Weight[x - a]) % BYTE \in 0..(BYTE - 1)
      BY <3>3, WordFacts, ModFacts
    <3>. QED BY <3>4
  <2>2. CASE x \notin a..(a + 3)
    BY <2>2
  <2>. QED BY <2>1, <2>2
<1>3. mem_write_32(mem, a, v) \in [Text \cup Data -> 0..(BYTE - 1)]
  BY <1>2 DEF mem_write_32
<1>. QED BY <1>1, <1>3

\* What is written to a register is a word.
LEMMA ResultRange ==
    ASSUME NEW i, Instruction(i), Writes(i), NEW a, NEW b, i.op # "jal" => a \in Values /\ b \in Values,
           NEW mem \in [Text \cup Data -> 0..(BYTE - 1)], NEW pc \in Values
    PROVE  Result(i, a, b, mem, pc) \in Values
<1>0. i.imm \in Int /\ i.shamt \in Nat
  BY WordFacts DEF Instruction
<1>1. CASE i.op = "jal"
  BY <1>1 DEF Result
<1>2. CASE i.op # "jal"
  <2>1. a \in Values /\ b \in Values /\ a \in Nat /\ b \in Nat
    BY <1>2 DEF Values
  <2>2. 0 \in Values /\ 1 \in Values
    BY WordFacts DEF Values
  <2>3. Word(i.imm) \in Values /\ Word(a + i.imm) \in Values /\ Word(a + i.imm) \in Int
    BY <1>0, <2>1, WordRange, WordFacts DEF Values
  <2>4. CASE i.op \in {"add", "sub", "addi"}
    BY <2>4, <2>1, <1>0, WordRange DEF Result
  <2>5. CASE i.op \in {"and", "or", "andi", "ori"}
    BY <2>5, <2>1, <2>3, BitRange DEF Result
  <2>6. CASE i.op = "nor"
    <3>1. BitOr(a, b) \in Values
      BY <2>1, BitRange
    <3>. QED BY <3>1, <2>6, WordFacts DEF Result, Values
  <2>7. CASE i.op \in {"slt", "slti"}
    BY <2>7, <2>2 DEF Result
  <2>8. CASE i.op = "sll"
    <3>1. ShiftLeft(b, i.shamt) \in Nat
      BY <2>1, <1>0, ShiftRange, Zenon
    <3>2. ShiftLeft(b, i.shamt) \in Int
      BY <3>1
    <3>. QED BY <3>2, <2>8, WordRange DEF Result
  <2>9. CASE i.op = "srl"
    <3>1. ShiftRightBy(b, i.shamt) \in 0..b
      BY <2>1, <1>0, ShiftRange
    <3>2. 0..b \subseteq Values
      BY <2>1, WordFacts DEF Values
    <3>. QED BY <3>1, <3>2, <2>9 DEF Result
  <2>10. CASE i.op = "lui"
    BY <2>10, <1>0, WordRange, WordFacts DEF Result
  <2>11. CASE i.op = "lw"
    BY <2>11, <2>3, MemoryRange DEF Result
  <2>. QED BY <2>4, <2>5, <2>6, <2>7, <2>8, <2>9, <2>10, <2>11, <1>2
           DEF Instruction, Writes, RType, IType, Jumps, Branches
<1>. QED BY <1>1, <1>2

\* What a step of the single-step machine does.
LEMMA StepFacts ==
    ASSUME program \in Programs, NEW s, IsaType(s), InText(s.PC),
           NEW i, i = get_inst_info(program, s.PC)
    PROVE  /\ Instruction(i) /\ Word(s.PC + 4) = s.PC + 4
           /\ i.op # "jal" /\ i.op # "j" => s.REGS[i.rs] \in Values /\ s.REGS[i.rt] \in Values
           /\ Step(s).PC = NextPC(i, s.REGS[i.rs], s.REGS[i.rt], s.PC + 4)
           /\ Step(s).PC \in Values
           /\ Step(s).mem = IF i.op = "sw" THEN mem_write_32(s.mem, Word(s.REGS[i.rs] + i.imm), s.REGS[i.rt])
                            ELSE s.mem
           /\ DOMAIN Step(s).REGS = REGISTERS
           /\ \A r \in REGISTERS : Step(s).REGS[r] = IF Writes(i) /\ r = Written(i) THEN Value(i, s)
                                                     ELSE s.REGS[r]
           /\ ~Unlike(s, program) => IsaType(Step(s))
<1> DEFINE a == s.REGS[i.rs]
           b == s.REGS[i.rt]
           pc == s.PC + 4
           regs == IF Writes(i) THEN [s.REGS EXCEPT ![Written(i)] = Value(i, s)] ELSE s.REGS
           mem == IF i.op = "sw" THEN mem_write_32(s.mem, Word(a + i.imm), b) ELSE s.mem
<1>1. /\ Instruction(i) /\ Word(s.PC + 4) = pc /\ pc \in Values /\ pc \in Nat /\ s.PC \in Nat
      /\ s.PC + 4 < WORD \div 16 /\ s.PC \in Values
  <2>1. Instruction(i)
    BY InTextFacts
  <2>2. /\ s.PC \in Nat /\ s.PC + 4 < WORD \div 16 /\ s.PC \in Values /\ s.PC + 4 \in Values
        /\ Word(s.PC + 4) = s.PC + 4
    BY InTextFacts
  <2>. QED BY <2>1, <2>2
<1>2. s.REGS \in [REGISTERS -> Values] /\ s.REGS[0] = 0 /\ s.mem \in [Text \cup Data -> 0..(BYTE - 1)]
  BY DEF IsaType
<1>3. i.op # "jal" /\ i.op # "j" => /\ {i.rs, i.rt, i.rd} \subseteq REGISTERS
                                    /\ a \in Values /\ b \in Values
  BY <1>1, <1>2 DEF Instruction, Jumps
<1>4. i.imm \in Int /\ i.target \in Nat
  BY <1>1, WordFacts DEF Instruction
<1>5. /\ Step(s).PC = NextPC(i, a, b, pc) /\ Step(s).REGS = regs /\ Step(s).mem = mem
      /\ Step(s).RUN_BIT = ~Outside(program, NextPC(i, a, b, pc))
  BY <1>1 DEF Step, process_instruction, Value
<1>6. NextPC(i, a, b, pc) \in Values
  <2>1. CASE i.op = "jr"
    <3>1. a \in Values
      BY <2>1, <1>3
    <3>2. NextPC(i, a, b, pc) = a
      BY <2>1 DEF NextPC, Jumps
    <3>. QED BY <3>1, <3>2
  <2>2. CASE i.op \in Jumps
    <3>1. JumpTarget(s.PC, i) \in Values /\ JumpTarget(s.PC + 4, i) = JumpTarget(s.PC, i)
      BY <1>1, <1>4, JumpInText
    <3>. QED BY <2>2, <3>1 DEF NextPC, Jumps
  <2>3. CASE i.op \in Branches
    <3>1. Word(pc + i.imm * 4) \in Values
      BY <1>1, <1>4, WordRange
    <3>. QED BY <2>3, <3>1, <1>1 DEF NextPC, Branches, Jumps
  <2>4. CASE i.op # "jr" /\ i.op \notin Jumps /\ i.op \notin Branches
    BY <2>4, <1>1 DEF NextPC, Branches
  <2>. QED BY <2>1, <2>2, <2>3, <2>4
<1>7. Writes(i) => Written(i) \in REGISTERS
  BY <1>3, RegisterAssumption DEF Written, Writes
<1>8. Writes(i) => Value(i, s) \in Values
  <2>1. CASE Writes(i)
    <3>1. i.op # "jal" => a \in Values /\ b \in Values
      BY <2>1, <1>3 DEF Writes
    <3>. QED BY <2>1, <3>1, <1>1, <1>2, ResultRange DEF Value
  <2>. QED BY <2>1
<1>9. /\ DOMAIN regs = REGISTERS
      /\ \A r \in REGISTERS : regs[r] = IF Writes(i) /\ r = Written(i) THEN Value(i, s) ELSE s.REGS[r]
      /\ regs \in [REGISTERS -> Values]
  BY <1>2, <1>7, <1>8
<1>10. mem \in [Text \cup Data -> 0..(BYTE - 1)]
  <2>1. CASE i.op = "sw"
    <3>1. a \in Int /\ b \in Int
      BY <2>1, <1>3, WordFacts DEF Values
    <3>2. Word(a + i.imm) \in Int
      BY <3>1, <1>4, WordRange, WordFacts DEF Values
    <3>. QED BY <2>1, <3>1, <3>2, <1>2, MemoryRange
  <2>. QED BY <2>1, <1>2
<1>11. ASSUME ~Unlike(s, program) PROVE regs[0] = 0
  <2>1. Step(s).REGS[0] = 0
    BY <1>11 DEF Unlike, Step
  <2>. QED BY <2>1, <1>5
<1> HIDE DEF a, b, pc, regs, mem
<1>12. ~Unlike(s, program) => IsaType(Step(s))
  BY <1>5, <1>6, <1>9, <1>10, <1>11 DEF IsaType
<1>. QED BY <1>1, <1>3, <1>5, <1>6, <1>9, <1>12 DEF a, b, pc, mem

\* The ALU agrees with the single-step machine, on operands a and b, where
\* the two are not known to differ.
LEMMA ALUResult ==
    ASSUME NEW i, Instruction(i), NEW a \in Values, NEW b \in Values, NEW mem, NEW pc,
           NEW out, out = ALU(i.op, a, IF control_init(i).ALUSrc THEN i.imm ELSE b, i.shamt)
    PROVE  /\ i.op \in {"lw", "sw"} => out = Word(a + i.imm)
           /\ i.op \in Branches => out = IF (i.op = "beq") = (a = b) THEN 1 ELSE 0
           /\ Writes(i) /\ i.op \notin {"lw", "jal"}
              /\ ~(i.op = "slt" /\ (Signed(a) < 0) # (Signed(b) < 0))
              /\ ~(i.op = "srl" /\ Signed(b) < 0) /\ ~(i.op = "ori" /\ i.imm < 0)
                => out = Result(i, a, b, mem, pc)
<1> DEFINE alu2 == IF control_init(i).ALUSrc THEN i.imm ELSE b
<1>0. /\ out = ALU(i.op, a, alu2, i.shamt)
      /\ i.op \in RType \cup Branches => alu2 = b
      /\ i.op \notin RType \cup Branches => alu2 = i.imm
  BY DEF control_init
<1>0a. /\ i.imm \in Int /\ i.imm < HALF /\ i.shamt \in Nat /\ a \in Int /\ b \in Nat /\ Word(b) = b
       /\ b < WORD /\ HALF <= WORD /\ a \in Nat /\ a < WORD
  BY WordFacts, WordRange DEF Instruction, Values
<1> HIDE DEF alu2
<1>1. i.op \in {"lw", "sw"} => out = Word(a + i.imm)
  BY <1>0 DEF ALU, RType, Branches
<1>2. ASSUME i.op \in Branches PROVE out = IF (i.op = "beq") = (a = b) THEN 1 ELSE 0
  <2>1. alu2 = b
    BY <1>0, <1>2
  <2>2. CASE i.op = "beq"
    BY <2>1, <2>2, <1>0 DEF ALU
  <2>3. CASE i.op = "bne"
    BY <2>1, <2>3, <1>0 DEF ALU
  <2>. QED BY <2>2, <2>3, <1>2 DEF Branches
<1>3. ASSUME Writes(i), i.op \notin {"lw", "jal"},
             ~(i.op = "slt" /\ (Signed(a) < 0) # (Signed(b) < 0)),
             ~(i.op = "srl" /\ Signed(b) < 0), ~(i.op = "ori" /\ i.imm < 0)
      PROVE  out = Result(i, a, b, mem, pc)
  <2>1. CASE i.op \in {"add", "sub", "and", "or", "nor", "sll"}
    <3>1. alu2 = b
      BY <1>0, <2>1 DEF RType
    <3>. QED BY <3>1, <2>1, <1>0, <1>0a DEF ALU, Result
  <2>2. CASE i.op \in {"addi", "andi", "lui", "slti"}
    <3>1. alu2 = i.imm
      BY <1>0, <2>2 DEF RType, Branches
    <3>. QED BY <3>1, <2>2, <1>0, <1>0a DEF ALU, Result
  <2>3. CASE i.op = "slt"
    <3>1. alu2 = b
      BY <1>0, <2>3 DEF RType
    <3>2. Signed(a) < Signed(b) <=> a < b
      BY <1>3, <2>3, <1>0a, WordFacts DEF Signed
    <3>. QED BY <3>1, <3>2, <2>3, <1>0 DEF ALU, Result
  <2>4. CASE i.op = "srl"
    <3>1. alu2 = b
      BY <1>0, <2>4 DEF RType
    <3>2. Signed(b) = b /\ b < WORD \div 2
      BY <1>3, <2>4, <1>0a, WordFacts DEF Signed
    <3>3. ShiftRightBy(b, i.shamt) \in 0..b
      BY <1>0a, ShiftRange
    <3> DEFINE v == ShiftRightBy(b, i.shamt)
    <3> HIDE DEF v
    <3>4. v \in 0..b
      BY <3>3 DEF v
    <3>5. Word(v) = v
      BY <3>4, <1>0a, WordRange, WordFacts DEF Values
    <3>6. v % (WORD \div 2) = v
      BY <3>4, <3>2, <1>0a, WordFacts, ModFacts
    <3>. QED BY <3>1, <3>2, <3>5, <3>6, <2>4, <1>0 DEF ALU, Result, v
  <2>5. CASE i.op = "ori"
    <3>1. alu2 = i.imm
      BY <1>0, <2>5 DEF RType, Branches
    <3>2. i.imm \in 0..(HALF - 1) /\ i.imm \in Values
      BY <1>0a, <1>3, <2>5, WordFacts DEF Values
    <3>3. i.imm % HALF = i.imm
      BY <3>2, <1>0a, WordFacts, ModFacts
    <3>4. Word(i.imm) = i.imm
      BY <3>2, <1>0a, WordRange
    <3>. QED BY <3>1, <3>3, <3>4, <2>5, <1>0 DEF ALU, Result
  <2>. QED BY <2>1, <2>2, <2>3, <2>4, <2>5, <1>3 DEF Instruction, Writes, RType, IType, Jumps, Branches
<1>. QED BY <1>1, <1>2, <1>3

\* The control bits of an instruction, and the register it writes.
LEMMA ControlFacts ==
    ASSUME NEW i, Instruction(i)
    PROVE  /\ control_init(i).RegWrite \in BOOLEAN /\ control_init(i).MemRead \in BOOLEAN
           /\ control_init(i).MemWrite \in BOOLEAN /\ control_init(i).Branch \in BOOLEAN
           /\ control_init(i).RegWrite <=> Writes(i) /\ i.op # "jal"
           /\ control_init(i).Branch <=> i.op \in Branches
           /\ control_init(i).MemWrite <=> i.op = "sw"
           /\ control_init(i).MemRead <=> i.op = "lw"
           /\ control_init(i).MemtoReg <=> i.op # "lw"
           /\ control_init(i).RegWrite \/ i.op \in Branches \cup {"sw", "lw"} => i.op \notin Jumping
           /\ control_init(i).RegWrite => Written(i) = Dest(i)
           /\ i.op \notin Jumps => {i.rs, i.rt, Dest(i)} \subseteq REGISTERS
           /\ i.op = "lw" => Writes(i)
           /\ i.op = "jal" => Writes(i) /\ Written(i) = LINK
<1>1. /\ control_init(i).RegWrite = (i.op \notin {"jr", "j", "jal", "sw"} \cup Branches)
      /\ control_init(i).Branch = (i.op \in Branches)
      /\ control_init(i).MemWrite = (i.op = "sw")
      /\ control_init(i).MemRead = (i.op = "lw")
      /\ control_init(i).MemtoReg = (i.op # "lw")
  BY DEF control_init
<1>2. i.op \notin {"jr", "j", "jal", "sw"} \cup Branches <=> Writes(i) /\ i.op # "jal"
  BY DEF Writes, Branches
<1>3. i.op \notin {"jr", "j", "jal", "sw"} \cup Branches \/ i.op \in Branches \cup {"sw", "lw"}
        => i.op \notin Jumping
  BY DEF Jumping, Jumps, Branches
<1>4. i.op # "jal" => Written(i) = Dest(i)
  BY DEF Written, Dest
<1>5. i.op \notin Jumps => {i.rs, i.rt, Dest(i)} \subseteq REGISTERS
  BY DEF Instruction, Dest
<1>6. i.op = "lw" => Writes(i)
  BY DEF Writes, Branches
<1>7. i.op = "jal" => Writes(i) /\ Written(i) = LINK
  BY DEF Writes, Written, Branches
<1>8. /\ control_init(i).RegWrite \in BOOLEAN /\ control_init(i).MemRead \in BOOLEAN
      /\ control_init(i).MemWrite \in BOOLEAN /\ control_init(i).Branch \in BOOLEAN
  BY <1>1
<1>9. /\ control_init(i).Branch <=> i.op \in Branches
      /\ control_init(i).MemWrite <=> i.op = "sw"
      /\ control_init(i).MemRead <=> i.op = "lw"
      /\ control_init(i).MemtoReg <=> i.op # "lw"
  BY <1>1
<1>10. control_init(i).RegWrite <=> Writes(i) /\ i.op # "jal"
  BY <1>1, <1>2
<1>11. control_init(i).RegWrite \/ i.op \in Branches \cup {"sw", "lw"} => i.op \notin Jumping
  BY <1>1, <1>3
<1>. QED BY <1>4, <1>5, <1>6, <1>7, <1>8, <1>9, <1>10, <1>11

-----------------------------------------------------------------------------
(* What a cycle keeps, of a program that has met no difference.            *)

Going == program \in Programs /\ ~apart /\ inorder /\ cpu.exited = FALSE /\ RunningInv
         /\ Cycle /\ ~apart'

\* An instruction of the program is in each stage that is not empty.
LEMMA StageFacts ==
    ASSUME program \in Programs, CpuType, NEW s \in 0..4, Busy(s)
    PROVE  /\ InText(cpu.PIPE[s]) /\ Instruction(At(s)) /\ cpu.PIPE[s] \in Nat
           /\ cpu.PIPE[s] \in Values /\ Word(cpu.PIPE[s] + 4) = cpu.PIPE[s] + 4
           /\ cpu.PIPE[s] + 4 \in Values
<1>1. InText(cpu.PIPE[s])
  BY DEF CpuType, Busy
<1>. QED BY <1>1, InTextFacts DEF At

\* The instruction that leaves is the next one of the single-step machine,
\* and the two machines do the same with it.
LEMMA Leaving ==
    ASSUME Going
    PROVE  /\ isa.RUN_BIT /\ IsaType(isa)
           /\ Busy(MEM_STAGE) => isa.PC = cpu.PIPE[3] /\ ~Unlike(isa, program) /\ InText(isa.PC)
           /\ isa' = PastMEM /\ IsaType(PastMEM) /\ inorder' /\ MemoryInv
           /\ ~C2.exited => ~ForwardsNothing(C2) /\ ~JumpsOutOfTurn(C3, program)
<1>1. /\ cpu.RUN_BIT = TRUE /\ cpu.exited = FALSE
      /\ isa' = (IF C1.PIPE[4] # 0 /\ isa.RUN_BIT THEN Step(isa) ELSE isa)
      /\ inorder' = (inorder /\ (C1.PIPE[4] # 0 => isa.RUN_BIT /\ isa.PC = C1.PIPE[4]))
      /\ ~(~C2.exited /\ ForwardsNothing(C2))
      /\ ~(~C2.exited /\ JumpsOutOfTurn(C3, program))
      /\ ~(C1.PIPE[4] # 0 /\ isa.RUN_BIT /\ Unlike(isa, program))
  BY CycleStages DEF Going
<1>2. C1.PIPE[4] = cpu.PIPE[3]
  BY WriteBack DEF Going, RunningInv
<1>3. isa.RUN_BIT /\ IsaType(isa)
  BY <1>1 DEF Going, RunningInv, HaltInv, IsaInv
<1>4. ASSUME Busy(MEM_STAGE)
      PROVE  isa.PC = cpu.PIPE[3] /\ ~Unlike(isa, program) /\ InText(isa.PC) /\ C1.PIPE[4] # 0
  <2>1. isa.PC = cpu.PIPE[3]
    BY <1>4 DEF Going, RunningInv, PathInv, MEM_STAGE
  <2>2. C1.PIPE[4] # 0
    BY <1>2, <1>4 DEF Busy, MEM_STAGE
  <2>3. InText(cpu.PIPE[3])
    BY <1>4, StageFacts DEF Going, RunningInv, MEM_STAGE
  <2>. QED BY <2>1, <2>2, <2>3, <1>1, <1>3
<1>5. MemoryInv
  BY <1>4 DEF Going, RunningInv, PathInv
<1>6. isa' = PastMEM /\ inorder'
  BY <1>1, <1>2, <1>3, <1>4 DEF PastMEM, Busy, MEM_STAGE, Going
<1>7. IsaType(PastMEM)
  <2>1. CASE Busy(MEM_STAGE)
    BY <2>1, <1>3, <1>4, StepFacts DEF PastMEM, Going
  <2>2. CASE ~Busy(MEM_STAGE)
    BY <2>2, <1>3 DEF PastMEM
  <2>. QED BY <2>1, <2>2
<1>. QED BY <1>1, <1>3, <1>4, <1>5, <1>6, <1>7

\* After the oldest instruction has written, the registers are those of the
\* single-step machine after it; jal alone has written ahead.
LEMMA WrittenFacts ==
    ASSUME Going
    PROVE  /\ DOMAIN WrittenRegs = REGISTERS
           /\ \A r \in REGISTERS \ {LINK} : WrittenRegs[r] = PastMEM.REGS[r]
           /\ ~Links(ID_STAGE) /\ ~Links(EX_STAGE) => WrittenRegs[LINK] = PastMEM.REGS[LINK]
           /\ Links(ID_STAGE) \/ Links(EX_STAGE) => WrittenRegs[LINK] = cpu.REGS[LINK]
           /\ \A r \in REGISTERS : IF Busy(MEM_STAGE) /\ cpu.MEM_WB.RegWrite /\ r = cpu.MEM_WB.DEST
                                   THEN WrittenRegs[r] = Value_WB ELSE WrittenRegs[r] = cpu.REGS[r]
           /\ WrittenRegs[0] = 0
<1>0. /\ program \in Programs /\ CpuType /\ MEM_WBInv /\ LinkInv /\ RegisterInv
      /\ DOMAIN cpu.REGS = REGISTERS /\ (\A r \in REGISTERS : cpu.REGS[r] \in Values)
      /\ 0 \in REGISTERS /\ LINK \in REGISTERS /\ LINK # 0
  BY RegisterAssumption DEF Going, RunningInv, CpuType
<1>1. /\ DOMAIN WrittenRegs = REGISTERS
      /\ \A r \in REGISTERS : IF Busy(MEM_STAGE) /\ cpu.MEM_WB.RegWrite /\ r = cpu.MEM_WB.DEST
                              THEN WrittenRegs[r] = Value_WB ELSE WrittenRegs[r] = cpu.REGS[r]
  BY <1>0 DEF WrittenRegs
<1>2. Links(ID_STAGE) \/ Links(EX_STAGE) => WrittenRegs[LINK] = cpu.REGS[LINK]
  <2>1. Links(ID_STAGE) => ~(cpu.MEM_WB.RegWrite /\ cpu.MEM_WB.DEST = LINK)
    BY <1>0 DEF LinkInv, JumpsOutOfTurn, Pending, Links, Busy, At
  <2>2. Links(EX_STAGE) => ~(cpu.MEM_WB.RegWrite /\ cpu.MEM_WB.DEST = LINK)
    BY <1>0 DEF LinkInv
  <2>. QED BY <2>1, <2>2, <1>0, <1>1
<1>3. CASE ~Busy(MEM_STAGE)
  <2>1. PastMEM = isa /\ ~Links(MEM_STAGE)
    BY <1>3 DEF PastMEM, Links
  <2>2. \A r \in REGISTERS : WrittenRegs[r] = cpu.REGS[r]
    BY <1>1, <1>3
  <2>3. ~Links(ID_STAGE) /\ ~Links(EX_STAGE) => cpu.REGS[LINK] = isa.REGS[LINK]
    BY <1>0, <2>1 DEF LinkInv
  <2>4. \A r \in REGISTERS \ {LINK} : cpu.REGS[r] = isa.REGS[r]
    BY <1>0 DEF RegisterInv
  <2>5. isa.REGS[0] = 0
    BY Leaving DEF IsaType
  <2>. QED BY <1>0, <1>1, <1>2, <2>1, <2>2, <2>3, <2>4, <2>5
<1>4. CASE Busy(MEM_STAGE)
  <2> DEFINE i == At(MEM_STAGE)
  <2>1. /\ PastMEM = Step(isa) /\ IsaType(isa) /\ isa.PC = cpu.PIPE[3] /\ InText(isa.PC)
        /\ IsaType(PastMEM) /\ i = get_inst_info(program, isa.PC)
    BY <1>4, Leaving DEF PastMEM, At, MEM_STAGE
  <2>2. /\ Instruction(i) /\ Word(isa.PC + 4) = isa.PC + 4
        /\ \A r \in REGISTERS : PastMEM.REGS[r] = IF Writes(i) /\ r = Written(i) THEN Value(i, isa)
                                                  ELSE isa.REGS[r]
    <3> HIDE DEF i
    <3>. QED BY <2>1, <1>0, StepFacts
  <2>3. /\ cpu.MEM_WB.RegWrite <=> Writes(i) /\ i.op # "jal"
        /\ cpu.MEM_WB.RegWrite => /\ cpu.MEM_WB.DEST = Written(i)
                                  /\ Value(i, isa) = Value_WB
    <3>1. cpu.MEM_WB.RegWrite = control_init(i).RegWrite
      BY <1>0, <1>4 DEF MEM_WBInv
    <3>2. /\ control_init(i).RegWrite <=> Writes(i) /\ i.op # "jal"
          /\ control_init(i).RegWrite => i.op \notin Jumping /\ Written(i) = Dest(i)
      <4> HIDE DEF i
      <4>. QED BY <2>2, ControlFacts
    <3>3. i.op \notin Jumping => cpu.MEM_WB.DEST = Dest(i)
      BY <1>0, <1>4 DEF MEM_WBInv
    <3>4. cpu.MEM_WB.RegWrite => Value(i, isa) = Value_WB
      BY Leaving DEF MemoryInv, Value_WB
    <3> HIDE DEF i
    <3>. QED BY <3>1, <3>2, <3>3, <3>4
  <2>4. i.op = "jal" => Writes(i) /\ Written(i) = LINK /\ Value(i, isa) = cpu.PIPE[3] + 4
    <3> HIDE DEF i
    <3>1. i.op = "jal" => Writes(i) /\ Written(i) = LINK
      BY <2>2, ControlFacts
    <3>2. i.op = "jal" => Value(i, isa) = Word(isa.PC + 4)
      BY DEF Value, Result
    <3>. QED BY <3>1, <3>2, <2>1, <2>2
  <2>5. Links(MEM_STAGE) <=> i.op = "jal"
    BY <1>4 DEF Links
  <2>6. \A r \in REGISTERS \ {LINK} : cpu.REGS[r] = isa.REGS[r]
    BY <1>0 DEF RegisterInv
  <2>7. ~Links(ID_STAGE) /\ ~Links(EX_STAGE) =>
          cpu.REGS[LINK] = IF i.op = "jal" THEN cpu.PIPE[3] + 4 ELSE isa.REGS[LINK]
    BY <1>0, <2>5 DEF LinkInv, MEM_STAGE
  <2> HIDE DEF i
  <2>8. \A r \in REGISTERS \ {LINK} : WrittenRegs[r] = PastMEM.REGS[r]
    BY <1>1, <1>4, <2>2, <2>3, <2>4, <2>6
  <2>9. ~Links(ID_STAGE) /\ ~Links(EX_STAGE) => WrittenRegs[LINK] = PastMEM.REGS[LINK]
    BY <1>0, <1>1, <1>4, <2>2, <2>3, <2>4, <2>7
  <2>10. PastMEM.REGS[0] = 0
    BY <2>1 DEF IsaType
  <2>. QED BY <1>0, <1>1, <1>2, <2>8, <2>9, <2>10
<1>. QED BY <1>3, <1>4

\* When MEM ends the simulator the registers still agree.
LEMMA Exits ==
    ASSUME Going, C2.exited
    PROVE  inorder' /\ LockStep'
<1>1. cpu' = C2 /\ program' = program
  BY CycleStages DEF Going
<1>2. C2.REGS = WrittenRegs /\ C2.PIPE = C1.PIPE
  BY MemoryFields DEF Going, RunningInv
<1>3. isa' = PastMEM /\ inorder'
  BY Leaving
<1>4. \A r \in REGISTERS \ {LINK} : cpu'.REGS[r] = isa'.REGS[r]
  BY <1>1, <1>2, <1>3, WrittenFacts
<1>5. ASSUME \A s \in {ID_STAGE, EX_STAGE, MEM_STAGE} :
                 cpu'.PIPE[s] # 0 => get_inst_info(program', cpu'.PIPE[s]).op # "jal"
      PROVE  cpu'.REGS[LINK] = isa'.REGS[LINK]
  <2>1. /\ C1.PIPE[1] = (IF cpu.HAZARD THEN cpu.PIPE[1] ELSE cpu.PIPE[0])
        /\ C1.PIPE[2] = (IF cpu.HAZARD THEN 0 ELSE cpu.PIPE[1]) /\ C1.PIPE[3] = cpu.PIPE[2]
    BY WriteBack DEF Going, RunningInv
  <2>2. \A s \in {1, 2, 3} : C1.PIPE[s] # 0 => get_inst_info(program, C1.PIPE[s]).op # "jal"
    BY <1>1, <1>2, <1>5 DEF ID_STAGE, EX_STAGE, MEM_STAGE
  <2>3. ~Links(ID_STAGE) /\ ~Links(EX_STAGE)
    BY <2>1, <2>2 DEF Links, Busy, At, ID_STAGE, EX_STAGE
  <2>. QED BY <2>3, <1>1, <1>2, <1>3, WrittenFacts
<1>. QED BY <1>3, <1>4, <1>5 DEF LockStep

\* What is in EX and ID after the cycle.
LEMMA Moves ==
    ASSUME Going, ~C2.exited
    PROVE  /\ NextFields /\ program' = program /\ cpu.RUN_BIT = TRUE
           /\ cpu'.PIPE[2] = (IF Missed \/ cpu.HAZARD THEN 0 ELSE cpu.PIPE[1])
           /\ C2.PIPE[2] = (IF Missed \/ cpu.HAZARD THEN 0 ELSE cpu.PIPE[1])
           /\ cpu'.PIPE[1] = (IF Missed \/ (cpu'.PIPE[2] # 0 /\ (cpu.ID_EX.op \in Jumping \/ TakenInEX(C2)))
                              THEN 0 ELSE IF cpu.HAZARD THEN cpu.PIPE[1] ELSE cpu.PIPE[0])
           /\ At(ID_STAGE)' = Decoded /\ C3.PIPE[1] = cpu'.PIPE[1]
<1>1. NextFields
  BY NextState DEF Going, RunningInv
<1>2. /\ C2.PIPE[2] = (IF Missed \/ cpu.HAZARD THEN 0 ELSE cpu.PIPE[1])
      /\ C2.PIPE[1] = (IF Missed THEN 0 ELSE IF cpu.HAZARD THEN cpu.PIPE[1] ELSE cpu.PIPE[0])
  BY MemoryFields DEF Going, RunningInv
<1>3. C3.PIPE[1] = IF C2.PIPE[2] # 0 /\ (cpu.ID_EX.op \in Jumping \/ TakenInEX(C2)) THEN 0
                   ELSE C2.PIPE[1]
  BY ExecuteFields DEF Going, RunningInv
<1>4. cpu'.PIPE[2] = C2.PIPE[2] /\ cpu'.PIPE[1] = C3.PIPE[1]
  BY <1>1 DEF NextFields
<1>5. program' = program /\ cpu.RUN_BIT = TRUE
  BY CycleStages DEF Going
<1>6. At(ID_STAGE)' = Decoded
  BY <1>4, <1>5 DEF At, Decoded, ID_STAGE
<1>. QED BY <1>1, <1>2, <1>3, <1>4, <1>5, <1>6

\* The registers after the cycle; jal has written its own in ID.
LEMMA NextRegisters ==
    ASSUME Going, ~C2.exited
    PROVE  RegisterInv' /\ LinkInv'
<1>0. /\ isa' = PastMEM /\ IsaType(PastMEM) /\ ~JumpsOutOfTurn(C3, program)
      /\ program' = program /\ NextFields /\ 0 \in REGISTERS /\ LINK \in REGISTERS /\ LINK # 0
  BY Leaving, Moves, RegisterAssumption
<1>0a. /\ LinkInv /\ EX_MEMInv /\ CpuType /\ program \in Programs /\ ~JumpsOutOfTurn(cpu, program)
  BY DEF Going, RunningInv, LinkInv
<1>1. RegisterInv'
  <2>1. ASSUME NEW r \in REGISTERS \ {LINK} PROVE cpu'.REGS[r] = PastMEM.REGS[r]
    <3>1. CASE r = 0
      BY <3>1, <1>0 DEF NextFields, IsaType
    <3>2. CASE r # 0
      BY <3>2, <1>0, WrittenFacts DEF NextFields
    <3>. QED BY <3>1, <3>2
  <2>. QED BY <2>1, <1>0 DEF RegisterInv
<1>2. ~JumpsOutOfTurn(cpu, program)'
  <2>1. C3.EX_MEM = cpu'.EX_MEM /\ C3.MEM_WB = cpu'.MEM_WB /\ C3.PIPE[1] = cpu'.PIPE[1]
    BY <1>0, ExecuteFields, MemoryFields DEF NextFields, Going, RunningInv
  <2>. QED BY <2>1, <1>0 DEF JumpsOutOfTurn, Pending, ID_STAGE
<1>3. Busy(ID_STAGE) /\ At(ID_STAGE).op = "jal" => ~Missed /\ ~(cpu.EX_MEM.RegWrite /\ cpu.EX_MEM.DEST = LINK)
  <2>1. ASSUME Busy(ID_STAGE), At(ID_STAGE).op = "jal"
        PROVE  /\ ~(cpu.EX_MEM.Branch /\ cpu.EX_MEM.BR_TAKE = 1)
               /\ ~(cpu.EX_MEM.RegWrite /\ cpu.EX_MEM.DEST = LINK)
    BY <2>1, <1>0, <1>0a DEF JumpsOutOfTurn, Pending, Busy, At
  <2>2. cpu.EX_MEM.Branch /\ cpu.PREDICTION => ~Busy(ID_STAGE)
    <3>1. CASE Busy(EX_STAGE)
      BY <3>1, <1>0a DEF EX_MEMInv
    <3>2. CASE ~Busy(EX_STAGE)
      <4>1. cpu.EX_MEM.Branch = FALSE
        BY <3>2, <1>0a DEF EX_MEMInv, NoExecution
      <4>. QED BY <4>1
    <3>. QED BY <3>1, <3>2
  <2>3. Missed => cpu.EX_MEM.Branch /\ (cpu.EX_MEM.BR_TAKE = 1 \/ cpu.PREDICTION)
    <3>1. cpu.PREDICTION \in BOOLEAN
      BY <1>0a DEF CpuType
    <3>. QED BY <3>1 DEF Missed
  <2>. QED BY <2>1, <2>2, <2>3
<1>4. Links(EX_STAGE)' => Links(ID_STAGE) /\ ~Missed
  BY <1>0, Moves DEF Links, Busy, At, EX_STAGE, ID_STAGE
<1>5. Links(EX_STAGE)' => ~(cpu.MEM_WB.RegWrite /\ cpu.MEM_WB.DEST = LINK)'
  <2>1. Links(EX_STAGE)' => ~(cpu.EX_MEM.RegWrite /\ cpu.EX_MEM.DEST = LINK)
    BY <1>3, <1>4 DEF Links
  <2>. QED BY <2>1, <1>0 DEF NextFields, MemoryLatch, NoResult
<1>6. Links(MEM_STAGE)' <=> Links(EX_STAGE)
  BY <1>0 DEF Links, Busy, At, NextFields, MEM_STAGE, EX_STAGE
<1>7. cpu'.REGS[LINK] = IF Links(ID_STAGE)' THEN cpu'.PIPE[ID_STAGE] + 4
                        ELSE IF Links(EX_STAGE)' THEN cpu'.PIPE[EX_STAGE] + 4
                        ELSE IF Links(MEM_STAGE)' THEN cpu'.PIPE[MEM_STAGE] + 4
                        ELSE isa'.REGS[LINK]
  <2>1. CASE Links(ID_STAGE)'
    <3>1. cpu'.PIPE[1] # 0 /\ Decoded.op = "jal"
      BY <2>1, Moves DEF Links, Busy, ID_STAGE
    <3>. QED BY <2>1, <3>1, <1>0, Moves DEF NextFields, ID_STAGE
  <2>2. CASE ~Links(ID_STAGE)'
    <3>1. cpu'.REGS[LINK] = WrittenRegs[LINK]
      <4>1. ~(cpu'.PIPE[1] # 0 /\ Decoded.op = "jal")
        BY <2>2, Moves DEF Links, Busy, ID_STAGE
      <4>. QED BY <4>1, <1>0, Moves DEF NextFields
    <3>2. CASE Links(ID_STAGE)
      <4>1. ~Missed
        BY <3>2, <1>3 DEF Links
      <4>2. ~cpu.HAZARD
        <5>1. ASSUME cpu.HAZARD PROVE FALSE
          <6>1. cpu'.PIPE[1] = cpu.PIPE[1]
            BY <5>1, <4>1, Moves
          <6>. QED BY <6>1, <2>2, <3>2, <1>0 DEF Links, Busy, At, ID_STAGE
        <5>. QED BY <5>1
      <4>3. cpu'.PIPE[2] = cpu.PIPE[1]
        BY <4>1, <4>2, Moves
      <4>4. Links(EX_STAGE)'
        BY <4>3, <3>2, <1>0 DEF Links, Busy, At, ID_STAGE, EX_STAGE
      <4>5. cpu.REGS[LINK] = cpu.PIPE[1] + 4
        BY <3>2, <1>0a DEF LinkInv, ID_STAGE
      <4>. QED BY <2>2, <3>1, <3>2, <4>3, <4>4, <4>5, WrittenFacts DEF EX_STAGE
    <3>3. CASE ~Links(ID_STAGE) /\ Links(EX_STAGE)
      <4>1. cpu.REGS[LINK] = cpu.PIPE[2] + 4
        BY <3>3, <1>0a DEF LinkInv, EX_STAGE
      <4>2. cpu'.PIPE[3] = cpu.PIPE[2]
        BY <1>0 DEF NextFields
      <4>. QED BY <2>2, <3>1, <3>3, <4>1, <4>2, <1>4, <1>6, WrittenFacts DEF MEM_STAGE
    <3>4. CASE ~Links(ID_STAGE) /\ ~Links(EX_STAGE)
      BY <2>2, <3>1, <3>4, <1>0, <1>4, <1>6, WrittenFacts
    <3>. QED BY <3>2, <3>3, <3>4
  <2>. QED BY <2>1, <2>2
<1>. QED BY <1>1, <1>2, <1>5, <1>7 DEF LinkInv

-----------------------------------------------------------------------------
(* What is in each stage after the cycle.                                  *)

\* Where the instructions of IF and ID go, and what IF fetches.
FrontFields ==
    /\ Busy(EX_STAGE)' <=> Busy(ID_STAGE) /\ ~Missed /\ ~cpu.HAZARD
    /\ cpu'.PIPE[2] = (IF Missed \/ cpu.HAZARD THEN 0 ELSE cpu.PIPE[1])
    /\ Busy(EX_STAGE)' => At(EX_STAGE)' = At(ID_STAGE)
    /\ cpu'.PIPE[1] = (IF Missed \/ (Busy(EX_STAGE)' /\ Redirects) THEN 0
                       ELSE IF cpu.HAZARD THEN cpu.PIPE[1] ELSE cpu.PIPE[0])
    /\ C3.PC = (IF Busy(EX_STAGE)' /\ At(ID_STAGE).op \in Branches /\ cpu.PREDICTION
                THEN BranchTarget(ID_STAGE) ELSE cpu.PC)
    /\ C3.PC \in Values
    /\ cpu'.PIPE[0] = (IF ~InText(C3.PC) \/ (~cpu'.HAZARD /\ Missed) THEN 0 ELSE C3.PC)
    /\ cpu'.IF_PC = (IF InText(C3.PC) /\ ~cpu'.HAZARD /\ ~Missed THEN Word(C3.PC + 4)
                     ELSE IF Missed /\ cpu.EX_MEM.BR_TAKE # 1 THEN cpu.PIPE[2] + 4 ELSE cpu.IF_PC)
    /\ cpu'.PC = (IF Busy(ID_STAGE)' /\ Redirects' THEN Target'
                  ELSE IF Missed /\ cpu.EX_MEM.BR_TAKE = 1 THEN BranchTarget(EX_STAGE)
                  ELSE cpu'.IF_PC)
    /\ cpu'.HAZARD \in BOOLEAN /\ (cpu'.HAZARD => Busy(ID_STAGE)' /\ Busy(EX_STAGE)')
    /\ Busy(ID_STAGE) /\ ~Missed => cpu'.PREDICTION = cpu.PREDICTION
    /\ Missed => Busy(EX_STAGE) /\ At(EX_STAGE).op \in Branches

\* It follows from the state after each of the stages.
LEMMA NextFront ==
    ASSUME Going, ~C2.exited
    PROVE  FrontFields
<1>0. /\ program \in Programs /\ CpuType /\ EX_MEMInv /\ ID_EXInv /\ NextFields /\ program' = program
      /\ cpu.exited = FALSE /\ ~C2.exited
  <2>1. NextFields /\ program' = program
    BY Moves, Zenon
  <2>. QED BY <2>1 DEF Going, RunningInv
<1>1. cpu'.PIPE[2] = (IF Missed \/ cpu.HAZARD THEN 0 ELSE cpu.PIPE[1]) /\ cpu'.PIPE[2] = C2.PIPE[2]
  <2>1. C2.PIPE[2] = (IF Missed \/ cpu.HAZARD THEN 0 ELSE cpu.PIPE[1])
    BY <1>0, MemoryFields
  <2>. QED BY <2>1, <1>0 DEF NextFields
<1>2. Busy(EX_STAGE)' <=> Busy(ID_STAGE) /\ ~Missed /\ ~cpu.HAZARD
  BY <1>1 DEF Busy, EX_STAGE, ID_STAGE
<1>3. Busy(EX_STAGE)' => At(EX_STAGE)' = At(ID_STAGE)
  BY <1>0, <1>1, <1>2 DEF At, EX_STAGE, ID_STAGE
<1>4. /\ C2.ID_EX = cpu.ID_EX /\ C2.ID_EX_CONTROL = cpu.ID_EX_CONTROL
      /\ ~Missed /\ Busy(ID_STAGE) => C2.PREDICTION = cpu.PREDICTION
      /\ C2.IF_PC = (IF Missed /\ cpu.EX_MEM.BR_TAKE # 1 THEN cpu.PIPE[2] + 4 ELSE cpu.IF_PC)
  BY <1>0, MemoryFields DEF Busy, ID_STAGE
<1>5. ASSUME Busy(EX_STAGE)'
      PROVE  /\ TakenInEX(C2) <=> At(ID_STAGE).op \in Branches /\ cpu.PREDICTION
             /\ TargetInEX(C2) = BranchTarget(ID_STAGE)
             /\ cpu.ID_EX.op = At(ID_STAGE).op
  <2>1. Busy(ID_STAGE) /\ ~Missed /\ ~cpu.HAZARD
    BY <1>2, <1>5
  <2>2. /\ cpu.ID_EX_CONTROL = control_init(At(ID_STAGE)) /\ cpu.ID_EX.op = At(ID_STAGE).op
        /\ cpu.ID_EX.IMM = At(ID_STAGE).imm
    BY <1>0, <2>1 DEF ID_EXInv
  <2>3. Instruction(At(ID_STAGE))
    BY <1>0, <2>1, StageFacts DEF ID_STAGE
  <2>4. control_init(At(ID_STAGE)).Branch <=> At(ID_STAGE).op \in Branches
    BY <2>3, ControlFacts
  <2>5. C2.PIPE[2] = cpu.PIPE[1]
    BY <1>1, <2>1
  <2>. QED BY <2>1, <2>2, <2>4, <2>5, <1>4 DEF TakenInEX, TargetInEX, BranchTarget, ID_STAGE
<1>6. cpu'.PIPE[1] = (IF Missed \/ (Busy(EX_STAGE)' /\ Redirects) THEN 0
                      ELSE IF cpu.HAZARD THEN cpu.PIPE[1] ELSE cpu.PIPE[0])
  <2>1. cpu'.PIPE[1] = (IF Missed \/ (cpu'.PIPE[2] # 0 /\ (cpu.ID_EX.op \in Jumping \/ TakenInEX(C2)))
                        THEN 0 ELSE IF cpu.HAZARD THEN cpu.PIPE[1] ELSE cpu.PIPE[0])
    BY Moves
  <2>2. Busy(EX_STAGE)' <=> cpu'.PIPE[2] # 0
    BY DEF Busy, EX_STAGE
  <2>. QED BY <2>1, <2>2, <1>5 DEF Redirects
<1>7. C3.PC = (IF Busy(EX_STAGE)' /\ At(ID_STAGE).op \in Branches /\ cpu.PREDICTION
               THEN BranchTarget(ID_STAGE) ELSE cpu.PC)
  <2>1. C3.PC = IF C2.PIPE[2] # 0 /\ TakenInEX(C2) THEN TargetInEX(C2) ELSE cpu.PC
    BY <1>0, ExecuteFields
  <2>2. Busy(EX_STAGE)' <=> C2.PIPE[2] # 0
    BY <1>1 DEF Busy, EX_STAGE
  <2>. QED BY <2>1, <2>2, <1>5
<1>8. C3.PC \in Values
  <2>1. Busy(EX_STAGE)' => BranchTarget(ID_STAGE) \in Values
    <3>1. Busy(EX_STAGE)' => Instruction(At(ID_STAGE)) /\ cpu.PIPE[1] \in Nat
      BY <1>0, <1>2, StageFacts DEF ID_STAGE
    <3>2. Busy(EX_STAGE)' => At(ID_STAGE).imm \in Int
      BY <3>1, WordFacts DEF Instruction
    <3>. QED BY <3>1, <3>2, WordRange DEF BranchTarget, ID_STAGE
  <2>. QED BY <2>1, <1>0, <1>7 DEF CpuType
<1>9. Fetches(C3) <=> InText(C3.PC)
  BY <1>0, <1>8, OutsideText DEF Fetches
<1>10. /\ cpu'.PIPE[0] = (IF ~InText(C3.PC) \/ (~cpu'.HAZARD /\ Missed) THEN 0 ELSE C3.PC)
       /\ cpu'.IF_PC = (IF InText(C3.PC) /\ ~cpu'.HAZARD /\ ~Missed THEN Word(C3.PC + 4)
                     ELSE IF Missed /\ cpu.EX_MEM.BR_TAKE # 1 THEN cpu.PIPE[2] + 4 ELSE cpu.IF_PC)
  BY <1>0, <1>4, <1>9 DEF NextFields
<1>11. Missed => Busy(EX_STAGE) /\ At(EX_STAGE).op \in Branches
                 /\ cpu.EX_MEM.BR_TARGET = BranchTarget(EX_STAGE)
  <2>1. Missed => Busy(EX_STAGE)
    <3>1. ~Busy(EX_STAGE) => cpu.EX_MEM.Branch = FALSE
      BY <1>0 DEF EX_MEMInv, NoExecution
    <3>. QED BY <3>1 DEF Missed
  <2>2. Busy(EX_STAGE) => (control_init(At(EX_STAGE)).Branch <=> At(EX_STAGE).op \in Branches)
    <3>1. Busy(EX_STAGE) => Instruction(At(EX_STAGE))
      BY <1>0, StageFacts DEF EX_STAGE
    <3>. QED BY <3>1, ControlFacts
  <2>. QED BY <2>1, <2>2, <1>0 DEF EX_MEMInv, Missed
<1>12. cpu'.PC = (IF Busy(ID_STAGE)' /\ Redirects' THEN Target'
                  ELSE IF Missed /\ cpu.EX_MEM.BR_TAKE = 1 THEN BranchTarget(EX_STAGE)
                  ELSE cpu'.IF_PC)
  <2>0. C3.PIPE[1] = cpu'.PIPE[1] /\ At(ID_STAGE)' = Decoded
    BY Moves
  <2>1. Busy(ID_STAGE)' <=> C3.PIPE[1] # 0
    BY <2>0 DEF Busy, ID_STAGE
  <2>2. cpu'.PC = (IF C3.PIPE[1] # 0 /\ Decoded.op = "jr" THEN WrittenRegs[Decoded.rs]
                  ELSE IF C3.PIPE[1] # 0 /\ Decoded.op \in Jumps THEN JumpTarget(C3.PIPE[1], Decoded)
                  ELSE IF C3.PIPE[1] # 0 /\ Redirected(C2, Decoded)
                       THEN Word(C3.PIPE[1] + Decoded.imm * 4 + 4)
                  ELSE IF Missed /\ cpu.EX_MEM.BR_TAKE = 1 THEN cpu.EX_MEM.BR_TARGET
                  ELSE cpu'.IF_PC)
    BY <1>0 DEF NextFields
  <2>3. Redirects' <=> Decoded.op = "jr" \/ Decoded.op \in Jumps \/ Redirected(C2, Decoded)
    BY <1>0, <2>0 DEF Redirects, Jumping, Redirected, NextFields
  <2>4. ASSUME Busy(ID_STAGE)', Redirects'
        PROVE  Target' = IF Decoded.op = "jr" THEN WrittenRegs[Decoded.rs]
                         ELSE IF Decoded.op \in Jumps THEN JumpTarget(C3.PIPE[1], Decoded)
                         ELSE Word(C3.PIPE[1] + Decoded.imm * 4 + 4)
    <3>1. Target' = IF Decoded.op = "jr" THEN cpu'.REGS[Decoded.rs]
                    ELSE IF Decoded.op \in Jumps THEN JumpTarget(C3.PIPE[1], Decoded)
                    ELSE Word(C3.PIPE[1] + Decoded.imm * 4 + 4)
      BY <2>0, <1>0 DEF Target, BranchTarget, ID_STAGE
    <3>2. Decoded.op = "jr" => cpu'.REGS[Decoded.rs] = WrittenRegs[Decoded.rs]
      <4>1. ASSUME Decoded.op = "jr" PROVE Decoded.rs \in REGISTERS
        <5>1. InText(C3.PIPE[1])
          <6>1. C3.PIPE[1] \in {cpu.PIPE[1], cpu.PIPE[0]}
            BY <2>0, <2>1, <1>6, <2>4
          <6>2. 1 \in 0..4 /\ 0 \in 0..4
            OBVIOUS
          <6>. QED BY <6>1, <6>2, <2>1, <2>4, <1>0 DEF CpuType
        <5>2. Instruction(Decoded)
          BY <5>1, <1>0, InTextFacts DEF Decoded
        <5>. QED BY <5>2, <4>1 DEF Instruction, Jumps
      <4>2. WrittenRegs[0] = 0
        BY WrittenFacts
      <4>. QED BY <4>1, <4>2, <1>0, RegisterAssumption DEF NextFields
    <3>. QED BY <3>1, <3>2
  <2>5. Missed => cpu.EX_MEM.BR_TARGET = BranchTarget(EX_STAGE)
    BY <1>11
  <2>. QED BY <2>1, <2>2, <2>3, <2>4, <2>5
<1>13. cpu'.HAZARD \in BOOLEAN /\ (cpu'.HAZARD => Busy(ID_STAGE)' /\ Busy(EX_STAGE)')
  <2>1. cpu'.HAZARD = (/\ C3.PIPE[1] # 0 /\ cpu'.EX_MEM.MemRead
                      /\ cpu'.EX_MEM.DEST \in {Decoded.rs, Decoded.rt})
    BY <1>0 DEF NextFields
  <2>2. C3.PIPE[1] # 0 => Busy(ID_STAGE)'
    BY Moves DEF Busy, ID_STAGE
  <2>3. ~Busy(EX_STAGE)' => cpu'.EX_MEM.MemRead = FALSE
    <3>1. ~Busy(EX_STAGE)' => C2.PIPE[2] = 0
      BY <1>1 DEF Busy, EX_STAGE
    <3>. QED BY <3>1, <1>0 DEF NextFields, NoExecution
  <2>. QED BY <2>1, <2>2, <2>3
<1>14. Busy(ID_STAGE) /\ ~Missed => cpu'.PREDICTION = cpu.PREDICTION
  BY <1>0, <1>4 DEF NextFields
<1>. QED BY <1>1, <1>2, <1>3, <1>6, <1>7, <1>8, <1>10, <1>11, <1>12, <1>13, <1>14 DEF FrontFields

\* Every field of the pipeline has its type after the cycle.
LEMMA NextCpuType ==
    ASSUME Going, ~C2.exited
    PROVE  CpuType'
<1>0. /\ program \in Programs /\ CpuType /\ NextFields /\ program' = program /\ FrontFields
      /\ isa' = PastMEM /\ IsaType(PastMEM) /\ RegisterInv' /\ LinkInv'
      /\ 0 \in REGISTERS /\ LINK \in REGISTERS /\ LINK # 0
  <2>1. NextFields /\ program' = program
    BY Moves
  <2>2. FrontFields
    BY NextFront
  <2>3. isa' = PastMEM /\ IsaType(PastMEM)
    BY Leaving
  <2>4. RegisterInv' /\ LinkInv'
    BY NextRegisters
  <2>. QED BY <2>1, <2>2, <2>3, <2>4, RegisterAssumption DEF Going, RunningInv
<1>1. \A s \in 0..4 : cpu'.PIPE[s] = 0 \/ InText(cpu'.PIPE[s])
  <2>0. \A s \in 0..4 : cpu.PIPE[s] = 0 \/ InText(cpu.PIPE[s])
    BY <1>0 DEF CpuType
  <2>1. cpu'.PIPE[0] = 0 \/ InText(cpu'.PIPE[0])
    BY <1>0 DEF FrontFields
  <2>2. cpu'.PIPE[1] \in {0, cpu.PIPE[0], cpu.PIPE[1]} /\ cpu'.PIPE[2] \in {0, cpu.PIPE[1]}
    BY <1>0 DEF FrontFields
  <2>3. cpu'.PIPE[3] = cpu.PIPE[2] /\ cpu'.PIPE[4] = cpu.PIPE[3]
    BY <1>0 DEF NextFields
  <2>4. 0 \in 0..4 /\ 1 \in 0..4 /\ 2 \in 0..4 /\ 3 \in 0..4
    OBVIOUS
  <2>5. \A s \in 0..4 : s = 0 \/ s = 1 \/ s = 2 \/ s = 3 \/ s = 4
    OBVIOUS
  <2>. QED BY <2>0, <2>1, <2>2, <2>3, <2>4, <2>5
<1>2. cpu'.IF_PC \in Values
  <2>1. Word(C3.PC + 4) \in Values
    <3>1. C3.PC + 4 \in Int
      BY <1>0, WordFacts DEF FrontFields, Values
    <3>. QED BY <3>1, WordRange
  <2>2. Missed => cpu.PIPE[2] + 4 \in Values
    BY <1>0, StageFacts DEF FrontFields, EX_STAGE
  <2>. QED BY <2>1, <2>2, <1>0 DEF FrontFields, CpuType
<1>3. \A r \in REGISTERS : cpu'.REGS[r] \in Values
  <2>1. \A r \in REGISTERS \ {LINK} : cpu'.REGS[r] \in Values
    BY <1>0 DEF RegisterInv, IsaType
  <2>2. \A s \in 0..4 : Busy(s)' => cpu'.PIPE[s] + 4 \in Values
    BY <1>0, <1>1, InTextFacts DEF Busy
  <2>3. cpu'.REGS[LINK] \in Values
    <3>1. Links(ID_STAGE)' => cpu'.PIPE[ID_STAGE] + 4 \in Values
      BY <2>2 DEF Links, ID_STAGE
    <3>2. Links(EX_STAGE)' => cpu'.PIPE[EX_STAGE] + 4 \in Values
      BY <2>2 DEF Links, EX_STAGE
    <3>3. Links(MEM_STAGE)' => cpu'.PIPE[MEM_STAGE] + 4 \in Values
      BY <2>2 DEF Links, MEM_STAGE
    <3>4. isa'.REGS[LINK] \in Values
      BY <1>0 DEF IsaType
    <3>. QED BY <3>1, <3>2, <3>3, <3>4, <1>0 DEF LinkInv
  <2>. QED BY <2>1, <2>3
<1>4. cpu'.PC \in Values
  <2>1. Missed => BranchTarget(EX_STAGE) \in Values
    <3>1. Missed => Instruction(At(EX_STAGE)) /\ cpu.PIPE[2] \in Nat
      BY <1>0, StageFacts DEF EX_STAGE, FrontFields
    <3>2. Missed => At(EX_STAGE).imm \in Int
      BY <3>1, WordFacts DEF Instruction
    <3>. QED BY <3>1, <3>2, WordRange DEF BranchTarget, EX_STAGE
  <2>2. Busy(ID_STAGE)' /\ Redirects' => Target' \in Values
    <3> SUFFICES ASSUME Busy(ID_STAGE)' PROVE Target' \in Values
      OBVIOUS
    <3> DEFINE i == get_inst_info(program, cpu'.PIPE[1])
    <3>1. InText(cpu'.PIPE[1])
      BY <1>1 DEF Busy, ID_STAGE
    <3>2. Instruction(i) /\ cpu'.PIPE[1] \in Nat /\ cpu'.PIPE[1] + 4 < WORD \div 16
      BY <3>1, <1>0, InTextFacts
    <3>3. Target' = IF i.op = "jr" THEN cpu'.REGS[i.rs]
                    ELSE IF i.op \in Jumps THEN JumpTarget(cpu'.PIPE[1], i)
                    ELSE Word(cpu'.PIPE[1] + i.imm * 4 + 4)
      BY <1>0 DEF Target, BranchTarget, At, ID_STAGE
    <3> HIDE DEF i
    <3>4. i.imm \in Int /\ i.target \in Nat /\ (i.op = "jr" => i.rs \in REGISTERS)
      BY <3>2, WordFacts DEF Instruction, Jumps
    <3>5. JumpTarget(cpu'.PIPE[1], i) \in Values
      BY <3>2, <3>4, JumpInText
    <3>6. Word(cpu'.PIPE[1] + i.imm * 4 + 4) \in Values
      BY <3>2, <3>4, WordRange
    <3>. QED BY <3>3, <3>4, <3>5, <3>6, <1>3
  <2>. QED BY <2>1, <2>2, <1>0, <1>2 DEF FrontFields
<1>5. cpu'.PREDICTION \in BOOLEAN
  <2>1. C2.PREDICTION \in BOOLEAN
    BY Moves, MemoryFields DEF Going, RunningInv
  <2>. QED BY <2>1, <1>0 DEF NextFields
<1>6. cpu'.INSTRUCTION_COUNT \in Nat /\ cpu'.CYCLE_COUNT \in Nat
  BY <1>0 DEF NextFields, CpuType
<1>7. DOMAIN cpu' = Fields /\ DOMAIN cpu'.PIPE = 0..4 /\ DOMAIN cpu'.REGS = REGISTERS
  BY <1>0 DEF NextFields
<1>8. (\A s \in 0..4 : cpu.PIPE[s] = 0 \/ InText(cpu.PIPE[s]))'
  BY <1>0, <1>1 DEF InText
<1>. QED BY <1>2, <1>3, <1>4, <1>5, <1>6, <1>7, <1>8 DEF CpuType, Values

\* The latches hold what the instructions that have moved ask for.
LEMMA NextLatches ==
    ASSUME Going, ~C2.exited
    PROVE  IsaInv' /\ MEM_WBInv' /\ EX_MEMInv' /\ ID_EXInv'
<1>0. /\ program \in Programs /\ CpuType /\ EX_MEMInv /\ ID_EXInv
      /\ NextFields /\ program' = program /\ FrontFields
      /\ 0 \in REGISTERS /\ LINK \in REGISTERS /\ LINK # 0
  <2>1. NextFields /\ program' = program
    BY Moves
  <2>2. FrontFields
    BY NextFront
  <2>. QED BY <2>1, <2>2, RegisterAssumption DEF Going, RunningInv
<1>1. IsaInv'
  <2>1. isa' = PastMEM /\ IsaType(PastMEM)
    BY Leaving
  <2>. QED BY <2>1, <1>0 DEF IsaInv, IsaType, Outside, Values
<1>2. MEM_WBInv'
  <2>1. cpu'.PIPE[3] = cpu.PIPE[2] /\ cpu'.MEM_WB = (IF Busy(EX_STAGE) THEN MemoryLatch(cpu) ELSE NoResult)
    BY <1>0 DEF NextFields
  <2>2. (Busy(MEM_STAGE)' <=> Busy(EX_STAGE)) /\ At(MEM_STAGE)' = At(EX_STAGE)
    BY <2>1, <1>0 DEF Busy, At, MEM_STAGE, EX_STAGE
  <2>3. CASE Busy(EX_STAGE)
    <3>1. /\ cpu'.MEM_WB.RegWrite = cpu.EX_MEM.RegWrite /\ cpu'.MEM_WB.MemtoReg = cpu.EX_MEM.MemtoReg
          /\ cpu'.MEM_WB.DEST = cpu.EX_MEM.DEST
      BY <2>1, <2>3 DEF MemoryLatch
    <3>2. /\ cpu.EX_MEM.RegWrite = control_init(At(EX_STAGE)).RegWrite
          /\ cpu.EX_MEM.MemtoReg = control_init(At(EX_STAGE)).MemtoReg
          /\ At(EX_STAGE).op \notin Jumping => cpu.EX_MEM.DEST = Dest(At(EX_STAGE))
      BY <1>0, <2>3 DEF EX_MEMInv
    <3>. QED BY <3>1, <3>2, <2>2, <2>3 DEF MEM_WBInv, Dest
  <2>4. CASE ~Busy(EX_STAGE)
    BY <2>1, <2>2, <2>4 DEF MEM_WBInv, NoResult
  <2>. QED BY <2>3, <2>4
<1>3. EX_MEMInv'
  <2>1. cpu'.EX_MEM = (IF Busy(EX_STAGE)' THEN ExecutionLatch(C2) ELSE NoExecution)
    <3>1. cpu'.PIPE[2] = C2.PIPE[2]
      BY <1>0 DEF NextFields
    <3>. QED BY <3>1, <1>0 DEF NextFields, Busy, EX_STAGE
  <2>2. CASE ~Busy(EX_STAGE)'
    BY <2>1, <2>2 DEF EX_MEMInv, NoExecution
  <2>3. CASE Busy(EX_STAGE)'
    <3> DEFINE i == At(ID_STAGE)
               latch == cpu'.EX_MEM
    <3>1. Busy(ID_STAGE) /\ ~Missed /\ ~cpu.HAZARD /\ At(EX_STAGE)' = i /\ cpu'.PIPE[2] = cpu.PIPE[1]
      BY <1>0, <2>3 DEF FrontFields
    <3>2. C2.ID_EX = cpu.ID_EX /\ C2.ID_EX_CONTROL = cpu.ID_EX_CONTROL /\ C2.PIPE[2] = cpu.PIPE[1]
      <4>1. cpu.exited = FALSE
        BY DEF Going
      <4>2. C2.ID_EX = cpu.ID_EX /\ C2.ID_EX_CONTROL = cpu.ID_EX_CONTROL
        BY <4>1, <1>0, MemoryFields
      <4>. QED BY <4>2, <3>1, <1>0 DEF NextFields
    <3>3. /\ cpu.ID_EX_CONTROL = control_init(i)
          /\ i.op \notin Jumping => cpu.ID_EX.DEST = Dest(i)
          /\ cpu.ID_EX.IMM = i.imm
      BY <1>0, <3>1 DEF ID_EXInv
    <3>4. Instruction(i)
      BY <1>0, <3>1, StageFacts DEF ID_STAGE
    <3>5. /\ latch.RegWrite = control_init(i).RegWrite /\ latch.MemtoReg = control_init(i).MemtoReg
          /\ latch.MemRead = control_init(i).MemRead /\ latch.MemWrite = control_init(i).MemWrite
          /\ latch.Branch = control_init(i).Branch
          /\ i.op \notin Jumping => latch.DEST = Dest(i)
      BY <2>1, <2>3, <3>2, <3>3 DEF ExecutionLatch
    <3>6. latch.Branch => latch.BR_TARGET = BranchTarget(EX_STAGE)'
      <4>1. latch.Branch => latch.BR_TARGET = TargetInEX(C2)
        BY <2>1, <2>3 DEF ExecutionLatch
      <4>2. TargetInEX(C2) = Word(cpu.PIPE[1] + i.imm * 4 + 4)
        BY <3>2, <3>3 DEF TargetInEX
      <4>3. BranchTarget(EX_STAGE)' = Word(cpu.PIPE[1] + i.imm * 4 + 4)
        BY <3>1 DEF BranchTarget, EX_STAGE
      <4>. QED BY <4>1, <4>2, <4>3
    <3>7. i.op \in Jumping \/ (latch.Branch /\ cpu'.PREDICTION) => ~Busy(ID_STAGE)'
      <4>1. latch.Branch => i.op \in Branches
        BY <3>4, <3>5, ControlFacts
      <4>2. i.op \in Jumping \/ (latch.Branch /\ cpu'.PREDICTION) => Redirects
        BY <4>1, <1>0, <3>1 DEF Redirects, FrontFields
      <4>. QED BY <4>2, <1>0, <2>3 DEF FrontFields, Busy, ID_STAGE
    <3> HIDE DEF i, latch
    <3>. QED BY <2>3, <3>1, <3>5, <3>6, <3>7 DEF EX_MEMInv, latch, Dest
  <2>. QED BY <2>2, <2>3
<1>4. ID_EXInv'
  <2>0. C3.PIPE[1] = cpu'.PIPE[1] /\ At(ID_STAGE)' = Decoded
    BY Moves
  <2>1. Busy(ID_STAGE)' <=> C3.PIPE[1] # 0
    BY <2>0 DEF Busy, ID_STAGE
  <2>2. cpu'.HAZARD = (/\ Busy(ID_STAGE)' /\ cpu'.EX_MEM.MemRead
                       /\ cpu'.EX_MEM.DEST \in {Decoded.rs, Decoded.rt})
    BY <1>0, <2>1 DEF NextFields
  <2>3. ASSUME Busy(ID_STAGE)'
        PROVE  /\ cpu'.ID_EX_CONTROL = control_init(Decoded)
               /\ cpu'.ID_EX.op = Decoded.op /\ cpu'.ID_EX.RS = Decoded.rs /\ cpu'.ID_EX.RT = Decoded.rt
               /\ cpu'.ID_EX.SH = Decoded.shamt /\ cpu'.ID_EX.IMM = Decoded.imm
               /\ Decoded.op \notin Jumping => /\ cpu'.ID_EX.REG1 = cpu'.REGS[Decoded.rs]
                                               /\ cpu'.ID_EX.REG2 = cpu'.REGS[Decoded.rt]
                                               /\ cpu'.ID_EX.DEST = Dest(Decoded)
    <3>1. /\ cpu'.ID_EX.op = Decoded.op /\ cpu'.ID_EX.REG1 = WrittenRegs[Decoded.rs]
          /\ cpu'.ID_EX.REG2 = WrittenRegs[Decoded.rt]
          /\ cpu'.ID_EX.RS = Decoded.rs /\ cpu'.ID_EX.RT = Decoded.rt
          /\ cpu'.ID_EX.SH = Decoded.shamt /\ cpu'.ID_EX.IMM = Decoded.imm
          /\ Decoded.op \notin Jumping => cpu'.ID_EX.DEST = Dest(Decoded)
          /\ cpu'.ID_EX_CONTROL = control_init(Decoded)
      BY <1>0, <2>1, <2>3 DEF NextFields
    <3>2. ASSUME Decoded.op \notin Jumping, NEW r \in REGISTERS PROVE cpu'.REGS[r] = WrittenRegs[r]
      <4>1. Decoded.op # "jal"
        BY <3>2 DEF Jumping, Jumps
      <4>2. WrittenRegs[0] = 0
        BY WrittenFacts
      <4>. QED BY <4>1, <4>2, <1>0 DEF NextFields
    <3>3. Decoded.op \notin Jumping => Decoded.rs \in REGISTERS /\ Decoded.rt \in REGISTERS
      <4>1. InText(cpu'.PIPE[1])
        <5>1. CpuType'
          BY NextCpuType
        <5>2. 1 \in 0..4
          OBVIOUS
        <5>. QED BY <5>1, <5>2, <2>3, <1>0 DEF CpuType, InText, Busy, ID_STAGE
      <4>2. Instruction(Decoded)
        BY <4>1, <2>0, <1>0, InTextFacts DEF Decoded
      <4>. QED BY <4>2 DEF Instruction, Jumping
    <3>. QED BY <3>1, <3>2, <3>3
  <2>. QED BY <2>0, <2>2, <2>3 DEF ID_EXInv, Dest
<1>. QED BY <1>1, <1>2, <1>3, <1>4

-----------------------------------------------------------------------------
(* The operands: the registers the single-step machine would find.         *)

\* The single-step machine executes what is in EX when what is in MEM has
\* left; the two do the same with it.
Alike == Busy(EX_STAGE) => ~Unlike(PastMEM, program)

\* What the single-step machine has done when it has done what is in EX.
LEMMA Executing ==
    ASSUME Going
    PROVE  /\ Alike => IsaType(PastEX)
           /\ ~Busy(EX_STAGE) => /\ PastEX = PastMEM /\ cpu.EX_MEM = NoExecution /\ ~Missed
           /\ Busy(EX_STAGE) =>
                LET e == At(EX_STAGE)
                    s == PastMEM
                IN  /\ s.PC = cpu.PIPE[2] /\ Instruction(e)
                    /\ e.op # "jal" /\ e.op # "j" => s.REGS[e.rs] \in Values /\ s.REGS[e.rt] \in Values
                    /\ PastEX.PC = NextPC(e, s.REGS[e.rs], s.REGS[e.rt], cpu.PIPE[2] + 4)
                    /\ PastEX.mem = (IF e.op = "sw"
                                     THEN mem_write_32(s.mem, Word(s.REGS[e.rs] + e.imm), s.REGS[e.rt])
                                     ELSE s.mem)
                    /\ \A r \in REGISTERS : PastEX.REGS[r] = IF Writes(e) /\ r = Written(e)
                                                             THEN Value(e, s) ELSE s.REGS[r]
                    /\ cpu.EX_MEM.RegWrite <=> Writes(e) /\ e.op # "jal"
                    /\ cpu.EX_MEM.RegWrite => cpu.EX_MEM.DEST = Written(e)
                    /\ cpu.EX_MEM.MemRead <=> e.op = "lw"
                    /\ cpu.EX_MEM.MemWrite <=> e.op = "sw"
                    /\ cpu.EX_MEM.Branch <=> e.op \in Branches
                    /\ cpu.EX_MEM.MemtoReg <=> e.op # "lw"
                    /\ e.op = "sw" => cpu.EX_MEM.DEST = e.rt
                    /\ e.op \in Jumping => ~Busy(ID_STAGE)
<1>0. program \in Programs /\ CpuType /\ EX_MEMInv /\ IsaType(PastMEM) /\ MemoryInv
  <2>1. IsaType(PastMEM) /\ MemoryInv
    BY Leaving
  <2>. QED BY <2>1 DEF Going, RunningInv
<1>1. ASSUME ~Busy(EX_STAGE)
      PROVE  PastEX = PastMEM /\ cpu.EX_MEM = NoExecution /\ ~Missed
  BY <1>0, <1>1 DEF PastEX, EX_MEMInv, NoExecution, Missed
<1>2. ASSUME Busy(EX_STAGE)
      PROVE  LET e == At(EX_STAGE)
                 s == PastMEM
             IN  /\ s.PC = cpu.PIPE[2] /\ Instruction(e)
                 /\ e.op # "jal" /\ e.op # "j" => s.REGS[e.rs] \in Values /\ s.REGS[e.rt] \in Values
                 /\ PastEX.PC = NextPC(e, s.REGS[e.rs], s.REGS[e.rt], cpu.PIPE[2] + 4)
                 /\ PastEX.mem = (IF e.op = "sw"
                                     THEN mem_write_32(s.mem, Word(s.REGS[e.rs] + e.imm), s.REGS[e.rt])
                                     ELSE s.mem)
                 /\ \A r \in REGISTERS : PastEX.REGS[r] = IF Writes(e) /\ r = Written(e)
                                                             THEN Value(e, s) ELSE s.REGS[r]
                 /\ cpu.EX_MEM.RegWrite <=> Writes(e) /\ e.op # "jal"
                 /\ cpu.EX_MEM.RegWrite => cpu.EX_MEM.DEST = Written(e)
                 /\ cpu.EX_MEM.MemRead <=> e.op = "lw"
                 /\ cpu.EX_MEM.MemWrite <=> e.op = "sw"
                 /\ cpu.EX_MEM.Branch <=> e.op \in Branches
                 /\ cpu.EX_MEM.MemtoReg <=> e.op # "lw"
                 /\ e.op = "sw" => cpu.EX_MEM.DEST = e.rt
                 /\ e.op \in Jumping => ~Busy(ID_STAGE)
                 /\ Alike => IsaType(PastEX)
  <2> DEFINE e == At(EX_STAGE)
             s == PastMEM
             latch == cpu.EX_MEM
  <2>1. s.PC = cpu.PIPE[2] /\ InText(s.PC)
    <3>1. s.PC = cpu.PIPE[EX_STAGE]
      BY <1>0, <1>2 DEF MemoryInv
    <3>2. InText(cpu.PIPE[2])
      BY <1>0, <1>2, StageFacts DEF EX_STAGE
    <3>. QED BY <3>1, <3>2 DEF EX_STAGE
  <2>2. e = get_inst_info(program, s.PC) /\ PastEX = Step(s)
    BY <2>1, <1>2 DEF At, EX_STAGE, PastEX
  <2>3. Alike => ~Unlike(s, program)
    BY <1>2 DEF Alike
  <2>4. /\ latch.RegWrite = control_init(e).RegWrite /\ latch.MemRead = control_init(e).MemRead
        /\ latch.MemWrite = control_init(e).MemWrite /\ latch.Branch = control_init(e).Branch
        /\ latch.MemtoReg = control_init(e).MemtoReg
        /\ e.op \notin Jumping => latch.DEST = Dest(e)
        /\ e.op \in Jumping => ~Busy(ID_STAGE)
    BY <1>0, <1>2 DEF EX_MEMInv
  <2>5. IsaType(s)
    BY <1>0
  <2> HIDE DEF e, s, latch
  <2>6. /\ Instruction(e) /\ Word(s.PC + 4) = s.PC + 4
        /\ e.op # "jal" /\ e.op # "j" => s.REGS[e.rs] \in Values /\ s.REGS[e.rt] \in Values
        /\ Step(s).PC = NextPC(e, s.REGS[e.rs], s.REGS[e.rt], s.PC + 4)
        /\ Step(s).mem = (IF e.op = "sw" THEN mem_write_32(s.mem, Word(s.REGS[e.rs] + e.imm), s.REGS[e.rt])
                            ELSE s.mem)
        /\ \A r \in REGISTERS : Step(s).REGS[r] = IF Writes(e) /\ r = Written(e) THEN Value(e, s)
                                                     ELSE s.REGS[r]
        /\ ~Unlike(s, program) => IsaType(Step(s))
    BY <1>0, <2>1, <2>2, <2>5, StepFacts
  <2>7. /\ control_init(e).RegWrite <=> Writes(e) /\ e.op # "jal"
        /\ control_init(e).RegWrite => e.op \notin Jumping /\ Written(e) = Dest(e)
        /\ control_init(e).MemRead <=> e.op = "lw"
        /\ control_init(e).MemWrite <=> e.op = "sw"
        /\ control_init(e).Branch <=> e.op \in Branches
        /\ control_init(e).MemtoReg <=> e.op # "lw"
    BY <2>6, ControlFacts
  <2>8. e.op = "sw" => e.op \notin Jumping /\ Dest(e) = e.rt
    BY DEF Jumping, Jumps, Dest, RType
  <2>9. /\ latch.RegWrite <=> Writes(e) /\ e.op # "jal"
        /\ latch.RegWrite => latch.DEST = Written(e)
    BY <2>4, <2>7
  <2>10. /\ latch.MemRead <=> e.op = "lw"
         /\ latch.MemWrite <=> e.op = "sw"
         /\ latch.Branch <=> e.op \in Branches
         /\ latch.MemtoReg <=> e.op # "lw"
         /\ e.op = "sw" => latch.DEST = e.rt
    BY <2>4, <2>7, <2>8
  <2>11. /\ PastEX.PC = NextPC(e, s.REGS[e.rs], s.REGS[e.rt], cpu.PIPE[2] + 4)
         /\ PastEX.mem = (IF e.op = "sw"
                          THEN mem_write_32(s.mem, Word(s.REGS[e.rs] + e.imm), s.REGS[e.rt]) ELSE s.mem)
         /\ \A r \in REGISTERS : PastEX.REGS[r] = IF Writes(e) /\ r = Written(e)
                                                  THEN Value(e, s) ELSE s.REGS[r]
    BY <2>1, <2>2, <2>6
  <2>12. Alike => IsaType(PastEX)
    BY <2>2, <2>3, <2>6
  <2>. QED BY <2>1, <2>4, <2>6, <2>9, <2>10, <2>11, <2>12 DEF e, s, latch
<1>. QED BY <1>0, <1>1, <1>2

\* What EX does not write is as it was when what is in MEM had left; a jal
\* in EX has nothing behind it.
LEMMA Unwritten ==
    ASSUME Going, Busy(ID_STAGE), NEW reg \in REGISTERS,
           ~(cpu.EX_MEM.RegWrite /\ cpu.EX_MEM.DEST = reg)
    PROVE  PastEX.REGS[reg] = PastMEM.REGS[reg]
<1>1. CASE ~Busy(EX_STAGE)
  BY <1>1, Executing
<1>2. CASE Busy(EX_STAGE)
  <2> DEFINE e == At(EX_STAGE)
  <2>1. /\ PastEX.REGS[reg] = (IF Writes(e) /\ reg = Written(e) THEN Value(e, PastMEM)
                               ELSE PastMEM.REGS[reg])
        /\ cpu.EX_MEM.RegWrite <=> Writes(e) /\ e.op # "jal"
        /\ cpu.EX_MEM.RegWrite => cpu.EX_MEM.DEST = Written(e)
        /\ e.op \notin Jumping
    BY <1>2, Executing
  <2>2. e.op # "jal"
    BY <2>1 DEF Jumping, Jumps
  <2> HIDE DEF e
  <2>. QED BY <2>1, <2>2
<1>. QED BY <1>1, <1>2

\* Before a jal is decoded, the registers when the oldest instruction has
\* written are those of the single-step machine after it.
LEMMA WrittenAll ==
    ASSUME Going, Busy(ID_STAGE), At(ID_STAGE).op # "jal", NEW reg \in REGISTERS
    PROVE  WrittenRegs[reg] = PastMEM.REGS[reg]
<1>1. ~Links(ID_STAGE)
  BY DEF Links
<1>2. ~Links(EX_STAGE)
  <2>1. Busy(EX_STAGE) => At(EX_STAGE).op \notin Jumping
    BY Executing
  <2>. QED BY <2>1 DEF Links, Jumping, Jumps
<1>. QED BY <1>1, <1>2, WrittenFacts

\* A register that nothing is about to write.
LEMMA Settled ==
    ASSUME Going, Busy(ID_STAGE), At(ID_STAGE).op # "jal", Alike,
           NEW reg \in REGISTERS, ~Pending(cpu, reg)
    PROVE  cpu.REGS[reg] = PastEX.REGS[reg] /\ WrittenRegs[reg] = cpu.REGS[reg]
<1>1. CASE reg = 0
  <2>1. PastEX.REGS[0] = 0
    <3>1. IsaType(PastEX)
      BY Executing
    <3>. QED BY <3>1 DEF IsaType
  <2>2. cpu.REGS[0] = 0
    <3>1. isa.REGS[0] = 0 /\ RegisterInv
      BY DEF Going, RunningInv, IsaInv, IsaType
    <3>. QED BY <3>1, RegisterAssumption DEF RegisterInv
  <2>. QED BY <1>1, <2>1, <2>2, WrittenFacts
<1>2. CASE reg # 0
  <2>1. /\ ~(cpu.EX_MEM.RegWrite /\ cpu.EX_MEM.DEST = reg)
        /\ ~(cpu.MEM_WB.RegWrite /\ cpu.MEM_WB.DEST = reg)
    BY <1>2 DEF Pending
  <2>2. PastEX.REGS[reg] = PastMEM.REGS[reg]
    BY <2>1, Unwritten
  <2>3. WrittenRegs[reg] = cpu.REGS[reg]
    BY <2>1, WrittenFacts
  <2>4. WrittenRegs[reg] = PastMEM.REGS[reg]
    BY WrittenAll
  <2>. QED BY <2>2, <2>3, <2>4
<1>. QED BY <1>1, <1>2

\* EX takes its operands from the instructions in front of it.
LEMMA Forwarding ==
    ASSUME Going, ~C2.exited, Busy(ID_STAGE), ~cpu.HAZARD, At(ID_STAGE).op # "jal", Alike, ExecuteInv,
           NEW reg \in REGISTERS, reg \in {At(ID_STAGE).rs, At(ID_STAGE).rt},
           Forwarded(C2, reg, 0).WRITES
    PROVE  Forwarded(C2, reg, cpu.REGS[reg]).VALUE = PastEX.REGS[reg]
<1>0. /\ C2.EX_MEM_FORWARD = [REG |-> cpu.EX_MEM.DEST, VALUE |-> cpu.EX_MEM.ALU_OUT,
                              WRITES |-> cpu.EX_MEM.RegWrite]
      /\ C2.MEM_WB_FORWARD = [REG |-> cpu.MEM_WB.DEST, WRITES |-> cpu.MEM_WB.RegWrite,
                              VALUE |-> Value_WB]
  BY MemoryFields DEF Going, RunningInv
<1>1. CASE cpu.EX_MEM.DEST # 0 /\ cpu.EX_MEM.DEST = reg
  <2>1. Forwarded(C2, reg, 0).WRITES = cpu.EX_MEM.RegWrite
        /\ Forwarded(C2, reg, cpu.REGS[reg]).VALUE = cpu.EX_MEM.ALU_OUT
    BY <1>0, <1>1 DEF Forwarded
  <2>2. Busy(EX_STAGE)
    <3>1. ~Busy(EX_STAGE) => cpu.EX_MEM.DEST = 0
      BY Executing DEF NoExecution
    <3>. QED BY <3>1, <1>1
  <2> DEFINE e == At(EX_STAGE)
  <2>3. /\ PastEX.REGS[reg] = (IF Writes(e) /\ reg = Written(e) THEN Value(e, PastMEM)
                               ELSE PastMEM.REGS[reg])
        /\ cpu.EX_MEM.RegWrite <=> Writes(e) /\ e.op # "jal"
        /\ cpu.EX_MEM.RegWrite => cpu.EX_MEM.DEST = Written(e)
    BY <2>2, Executing
  <2>4. ~cpu.EX_MEM.MemRead
    <3>1. cpu.HAZARD = /\ Busy(ID_STAGE) /\ cpu.EX_MEM.MemRead
                       /\ cpu.EX_MEM.DEST \in {At(ID_STAGE).rs, At(ID_STAGE).rt}
      BY DEF Going, RunningInv, ID_EXInv
    <3>. QED BY <3>1, <1>1
  <2>5. cpu.EX_MEM.RegWrite /\ ~cpu.EX_MEM.MemRead => cpu.EX_MEM.ALU_OUT = Value(e, PastMEM)
    BY <2>2 DEF ExecuteInv, BehindInv
  <2> HIDE DEF e
  <2>. QED BY <1>1, <2>1, <2>3, <2>4, <2>5
<1>2. CASE ~(cpu.EX_MEM.DEST # 0 /\ cpu.EX_MEM.DEST = reg) /\ cpu.MEM_WB.DEST # 0 /\ cpu.MEM_WB.DEST = reg
  <2>1. Forwarded(C2, reg, 0).WRITES = cpu.MEM_WB.RegWrite
        /\ Forwarded(C2, reg, cpu.REGS[reg]).VALUE = Value_WB
    BY <1>0, <1>2 DEF Forwarded
  <2>2. Busy(MEM_STAGE)
    <3>1. ~Busy(MEM_STAGE) => cpu.MEM_WB = NoResult
      BY DEF Going, RunningInv, MEM_WBInv
    <3>. QED BY <3>1, <1>2 DEF NoResult
  <2>3. WrittenRegs[reg] = Value_WB
    BY <1>2, <2>1, <2>2, WrittenFacts
  <2>4. WrittenRegs[reg] = PastMEM.REGS[reg]
    BY WrittenAll
  <2>5. PastEX.REGS[reg] = PastMEM.REGS[reg]
    BY <1>2, Unwritten
  <2>. QED BY <2>1, <2>3, <2>4, <2>5
<1>3. CASE /\ ~(cpu.EX_MEM.DEST # 0 /\ cpu.EX_MEM.DEST = reg)
           /\ ~(cpu.MEM_WB.DEST # 0 /\ cpu.MEM_WB.DEST = reg)
  <2>1. Forwarded(C2, reg, cpu.REGS[reg]).VALUE = cpu.REGS[reg]
    BY <1>0, <1>3 DEF Forwarded
  <2>2. ~Pending(cpu, reg)
    BY <1>3 DEF Pending
  <2>. QED BY <2>1, <2>2, Settled
<1>. QED BY <1>1, <1>2, <1>3

-----------------------------------------------------------------------------
(* What was to come for a stage is to come for the one behind it.          *)

\* What was to come for EX is to come for MEM after the cycle.
LEMMA Pasts ==
    ASSUME Going, ~C2.exited
    PROVE  /\ isa' = PastMEM /\ PastMEM' = PastEX
           /\ PastEX' = IF Busy(EX_STAGE)' THEN Step(PastEX) ELSE PastEX
           /\ Busy(MEM_STAGE)' <=> Busy(EX_STAGE)
           /\ At(MEM_STAGE)' = At(EX_STAGE) /\ cpu'.PIPE[3] = cpu.PIPE[2] /\ program' = program
<1>1. isa' = PastMEM
  BY Leaving
<1>2. program' = program /\ NextFields
  BY Moves
<1>3. cpu'.PIPE[3] = cpu.PIPE[2]
  BY <1>2 DEF NextFields
<1>4. (Busy(MEM_STAGE)' <=> Busy(EX_STAGE)) /\ At(MEM_STAGE)' = At(EX_STAGE)
  BY <1>2, <1>3 DEF Busy, At, MEM_STAGE, EX_STAGE
<1>5. PastMEM' = PastEX
  <2>1. PastMEM' = IF Busy(MEM_STAGE)' THEN Step(PastMEM) ELSE PastMEM
    BY <1>1, <1>2 DEF PastMEM, Step
  <2>. QED BY <2>1, <1>4 DEF PastEX
<1>6. PastEX' = IF Busy(EX_STAGE)' THEN Step(PastEX) ELSE PastEX
  BY <1>2, <1>5 DEF PastEX, Step
<1>. QED BY <1>1, <1>2, <1>3, <1>4, <1>5, <1>6

\* The state that what was in EX leaves, and how far it has been executed.
LEMMA NextMemory ==
    ASSUME Going, ~C2.exited, Alike, ExecuteInv
    PROVE  /\ cpu'.mem = PastEX.mem
           /\ cpu'.MEM_WB.RegWrite =>
                Value(At(EX_STAGE), PastMEM) = IF cpu'.MEM_WB.MemtoReg THEN cpu'.MEM_WB.ALU_OUT
                                               ELSE cpu'.MEM_WB.MEM_OUT
           /\ Busy(EX_STAGE)' => PastEX.PC = cpu'.PIPE[2]
<1> DEFINE e == At(EX_STAGE)
           s == PastMEM
           Done == /\ cpu'.mem = PastEX.mem
                   /\ cpu'.MEM_WB.RegWrite =>
                        Value(e, s) = IF cpu'.MEM_WB.MemtoReg THEN cpu'.MEM_WB.ALU_OUT
                                      ELSE cpu'.MEM_WB.MEM_OUT
<1>0. /\ cpu'.mem = (IF cpu.EX_MEM.MemWrite
                   THEN mem_write_32(cpu.mem, cpu.EX_MEM.ALU_OUT, WrittenRegs[cpu.EX_MEM.DEST])
                   ELSE cpu.mem)
      /\ cpu'.MEM_WB = (IF Busy(EX_STAGE) THEN MemoryLatch(cpu) ELSE NoResult)
  <2>1. NextFields
    BY Moves
  <2>. QED BY <2>1 DEF NextFields
<1>1. cpu.mem = s.mem
  BY Leaving DEF MemoryInv
<1>2. ASSUME ~Busy(EX_STAGE) PROVE Done
  <2>1. cpu.EX_MEM = NoExecution /\ PastEX = s
    BY <1>2, Executing
  <2>. QED BY <2>1, <1>0, <1>1, <1>2 DEF NoExecution, NoResult
<1>3. ASSUME Busy(EX_STAGE) PROVE Done
  <2>1. /\ PastEX.mem = (IF e.op = "sw"
                         THEN mem_write_32(s.mem, Word(s.REGS[e.rs] + e.imm), s.REGS[e.rt]) ELSE s.mem)
        /\ cpu.EX_MEM.RegWrite <=> Writes(e) /\ e.op # "jal"
        /\ cpu.EX_MEM.MemRead <=> e.op = "lw"
        /\ cpu.EX_MEM.MemWrite <=> e.op = "sw"
        /\ cpu.EX_MEM.MemtoReg <=> e.op # "lw"
        /\ e.op = "sw" => cpu.EX_MEM.DEST = e.rt
        /\ Instruction(e)
    BY <1>3, Executing
  <2>2. /\ cpu.EX_MEM.RegWrite /\ ~cpu.EX_MEM.MemRead => cpu.EX_MEM.ALU_OUT = Value(e, s)
        /\ cpu.EX_MEM.MemRead \/ cpu.EX_MEM.MemWrite => cpu.EX_MEM.ALU_OUT = Word(s.REGS[e.rs] + e.imm)
    BY <1>3 DEF ExecuteInv, BehindInv
  <2>3. ASSUME e.op = "sw" PROVE WrittenRegs[e.rt] = s.REGS[e.rt]
    <3>1. e.rt \in REGISTERS
      BY <2>1, <2>3 DEF Instruction, Jumps
    <3>2. ~Links(EX_STAGE)
      BY <2>3 DEF Links
    <3>3. CASE Links(ID_STAGE)
      <4>1. e.rt # LINK
        <5>1. ~JumpsOutOfTurn(cpu, program)
          BY DEF Going, RunningInv, LinkInv
        <5>2. cpu.EX_MEM.MemWrite /\ cpu.EX_MEM.DEST = e.rt
          BY <2>1, <2>3
        <5> HIDE DEF e
        <5>. QED BY <5>1, <5>2, <3>3 DEF JumpsOutOfTurn, Links, Busy, At
      <4>. QED BY <4>1, <3>1, WrittenFacts
    <3>4. CASE ~Links(ID_STAGE)
      BY <3>1, <3>2, <3>4, WrittenFacts
    <3>. QED BY <3>3, <3>4
  <2>4. cpu'.mem = PastEX.mem
    <3>1. CASE e.op = "sw"
      BY <3>1, <2>1, <2>2, <2>3, <1>0, <1>1
    <3>2. CASE e.op # "sw"
      BY <3>2, <2>1, <1>0, <1>1
    <3>. QED BY <3>1, <3>2
  <2>5. cpu'.MEM_WB.RegWrite => Value(e, s) = IF cpu'.MEM_WB.MemtoReg THEN cpu'.MEM_WB.ALU_OUT
                                              ELSE cpu'.MEM_WB.MEM_OUT
    <3>1. /\ cpu'.MEM_WB.RegWrite = cpu.EX_MEM.RegWrite /\ cpu'.MEM_WB.MemtoReg = cpu.EX_MEM.MemtoReg
          /\ cpu'.MEM_WB.ALU_OUT = (IF cpu.EX_MEM.MemRead THEN cpu.MEM_WB.ALU_OUT ELSE cpu.EX_MEM.ALU_OUT)
          /\ cpu'.MEM_WB.MEM_OUT = (IF cpu.EX_MEM.MemRead THEN mem_read_32(cpu.mem, cpu.EX_MEM.ALU_OUT)
                                    ELSE cpu.MEM_WB.MEM_OUT)
      BY <1>0, <1>3 DEF MemoryLatch
    <3>2. CASE e.op = "lw"
      <4>1. Value(e, s) = mem_read_32(s.mem, Word(s.REGS[e.rs] + e.imm))
        BY <3>2 DEF Value, Result
      <4> HIDE DEF e, s
      <4>. QED BY <4>1, <3>1, <3>2, <2>1, <2>2, <1>1
    <3>3. CASE e.op # "lw"
      <4> HIDE DEF e, s
      <4>. QED BY <3>1, <3>3, <2>1, <2>2
    <3>. QED BY <3>2, <3>3
  <2>. QED BY <2>4, <2>5
<1>4. Busy(EX_STAGE)' => PastEX.PC = cpu'.PIPE[2]
  <2> SUFFICES ASSUME Busy(EX_STAGE)' PROVE PastEX.PC = cpu'.PIPE[2]
    OBVIOUS
  <2>1. Busy(ID_STAGE) /\ ~Missed /\ cpu'.PIPE[2] = cpu.PIPE[1]
    BY NextFront DEF FrontFields
  <2>. QED BY <2>1 DEF ExecuteInv, FrontInv, ID_STAGE
<1>. QED BY <1>2, <1>3, <1>4

\* EX computes what the single-step machine does.
LEMMA NextBehind ==
    ASSUME Going, ~C2.exited, Alike, ExecuteInv, Busy(EX_STAGE)', ~Unlike(PastEX, program)
    PROVE  LET i == At(ID_STAGE)
               a == PastEX.REGS[i.rs]
               b == PastEX.REGS[i.rt]
               latch == cpu'.EX_MEM
           IN  /\ latch.RegWrite /\ ~latch.MemRead => latch.ALU_OUT = Value(i, PastEX)
               /\ latch.MemRead \/ latch.MemWrite => latch.ALU_OUT = Word(a + i.imm)
               /\ latch.Branch => latch.BR_TAKE = IF (i.op = "beq") = (a = b) THEN 1 ELSE 0
               /\ latch.Branch <=> i.op \in Branches
<1> DEFINE i == At(ID_STAGE)
           s == PastEX
           a == s.REGS[i.rs]
           b == s.REGS[i.rt]
           latch == cpu'.EX_MEM
<1>0. /\ Busy(ID_STAGE) /\ ~Missed /\ ~cpu.HAZARD /\ cpu'.PIPE[2] = cpu.PIPE[1]
  BY NextFront DEF FrontFields
<1>1. /\ cpu.ID_EX_CONTROL = control_init(i) /\ cpu.ID_EX.op = i.op
      /\ cpu.ID_EX.RS = i.rs /\ cpu.ID_EX.RT = i.rt /\ cpu.ID_EX.SH = i.shamt /\ cpu.ID_EX.IMM = i.imm
      /\ i.op \notin Jumping => cpu.ID_EX.REG1 = cpu.REGS[i.rs] /\ cpu.ID_EX.REG2 = cpu.REGS[i.rt]
  BY <1>0 DEF Going, RunningInv, ID_EXInv
<1>2. Instruction(i)
  BY <1>0, StageFacts DEF Going, RunningInv, ID_STAGE
<1>3. /\ C2.ID_EX = cpu.ID_EX /\ C2.ID_EX_CONTROL = cpu.ID_EX_CONTROL
      /\ C2.PIPE[2] = cpu.PIPE[1] /\ C2.PIPE[2] # 0 /\ latch = ExecutionLatch(C2)
  <2>1. C2.ID_EX = cpu.ID_EX /\ C2.ID_EX_CONTROL = cpu.ID_EX_CONTROL
    BY MemoryFields DEF Going, RunningInv
  <2>2. NextFields
    BY Moves
  <2>3. cpu'.PIPE[2] = C2.PIPE[2] /\ cpu'.EX_MEM = (IF C2.PIPE[2] = 0 THEN NoExecution ELSE ExecutionLatch(C2))
    BY <2>2 DEF NextFields
  <2>4. cpu'.PIPE[2] # 0
    BY DEF Busy, EX_STAGE
  <2>. QED BY <2>1, <2>3, <2>4, <1>0
<1>4. /\ latch.RegWrite = control_init(i).RegWrite /\ latch.MemRead = control_init(i).MemRead
      /\ latch.MemWrite = control_init(i).MemWrite /\ latch.Branch = control_init(i).Branch
      /\ i.op \notin Jumping => latch.ALU_OUT = Output(C2)
      /\ latch.Branch => latch.BR_TAKE = Output(C2)
  BY <1>1, <1>3 DEF ExecutionLatch
<1>5. /\ control_init(i).RegWrite <=> Writes(i) /\ i.op # "jal"
      /\ control_init(i).Branch <=> i.op \in Branches
      /\ control_init(i).MemWrite <=> i.op = "sw"
      /\ control_init(i).MemRead <=> i.op = "lw"
      /\ control_init(i).RegWrite \/ i.op \in Branches \cup {"sw", "lw"} => i.op \notin Jumping
  <2> HIDE DEF i
  <2>. QED BY <1>2, ControlFacts
<1>6. CASE i.op \in Jumping
  <2> HIDE DEF i, latch
  <2>. QED BY <1>4, <1>5, <1>6 DEF i, latch
<1>7. CASE i.op \notin Jumping
  <2>1. i.rs \in REGISTERS /\ i.rt \in REGISTERS /\ i.op # "jal"
    BY <1>2, <1>7 DEF Instruction, Jumping, Jumps
  <2>2. a \in Values /\ b \in Values
    <3>1. IsaType(s)
      BY Executing
    <3>. QED BY <3>1, <2>1 DEF IsaType
  <2>3. /\ Forwarded(C2, i.rs, 0).WRITES
        /\ control_init(i).ALUSrc \/ Forwarded(C2, i.rt, 0).WRITES
    <3>1. ~ForwardsNothing(C2)
      BY Leaving
    <3>. QED BY <3>1, <1>1, <1>3, <1>7 DEF ForwardsNothing, EX_STAGE
  <2>4. Forwarded(C2, i.rs, cpu.REGS[i.rs]).VALUE = a
    BY <1>0, <2>1, <2>3, Forwarding
  <2>5. control_init(i).ALUSrc \/ Forwarded(C2, i.rt, cpu.REGS[i.rt]).VALUE = b
    BY <1>0, <2>1, <2>3, Forwarding
  <2>6. Output(C2) = ALU(i.op, a, IF control_init(i).ALUSrc THEN i.imm ELSE b, i.shamt)
    BY <1>1, <1>3, <1>7, <2>4, <2>5 DEF Output
  <2>7. ~(i.op = "slt" /\ (Signed(a) < 0) # (Signed(b) < 0)) /\ ~(i.op = "srl" /\ Signed(b) < 0)
        /\ ~(i.op = "ori" /\ i.imm < 0)
    <3>1. i = get_inst_info(program, s.PC)
      <4>1. s.PC = cpu'.PIPE[2]
        BY NextMemory
      <4>. QED BY <4>1, <1>0 DEF At, ID_STAGE
    <3> HIDE DEF i, s
    <3>. QED BY <3>1 DEF Unlike, s
  <2> DEFINE out == Output(C2)
             pc == Word(s.PC + 4)
             mem == s.mem
  <2>8. out = ALU(i.op, a, IF control_init(i).ALUSrc THEN i.imm ELSE b, i.shamt)
    BY <2>6
  <2>9. Value(i, s) = Result(i, a, b, mem, pc)
    BY DEF Value
  <2> HIDE DEF i, s, a, b, latch, out, pc, mem
  <2>10. /\ i.op \in {"lw", "sw"} => out = Word(a + i.imm)
         /\ i.op \in Branches => out = IF (i.op = "beq") = (a = b) THEN 1 ELSE 0
         /\ Writes(i) /\ i.op \notin {"lw", "jal"} => out = Value(i, s)
    BY <1>2, <2>2, <2>7, <2>8, <2>9, ALUResult
  <2>11. latch.RegWrite /\ ~latch.MemRead => latch.ALU_OUT = Value(i, s)
    BY <2>10, <1>4, <1>5, <1>7 DEF out
  <2>12. latch.MemRead \/ latch.MemWrite => latch.ALU_OUT = Word(a + i.imm)
    BY <2>10, <1>4, <1>5, <1>7 DEF out
  <2>13. latch.Branch => latch.BR_TAKE = IF (i.op = "beq") = (a = b) THEN 1 ELSE 0
    BY <2>10, <1>4, <1>5, <1>7 DEF out
  <2>14. latch.Branch <=> i.op \in Branches
    BY <1>4, <1>5
  <2>. QED BY <2>11, <2>12, <2>13, <2>14 DEF i, s, a, b, latch
<1>. QED BY <1>6, <1>7

-----------------------------------------------------------------------------
(* IF and ID have what the single-step machine will come to.               *)

\* FrontInv after the cycle.
FetchingNext(pc) ==
    IF cpu'.PIPE[0] # 0 THEN cpu'.PIPE[0] = pc /\ cpu'.PC = Word(pc + 4) /\ cpu'.IF_PC = cpu'.PC
    ELSE /\ cpu'.PC = pc
         /\ IF InText(pc) THEN cpu'.PIPE[1] = 0 /\ cpu'.PIPE[2] = 0 /\ cpu'.PIPE[3] # 0
            ELSE cpu'.IF_PC = pc

FrontNext(pc) ==
    IF cpu'.PIPE[1] = 0 THEN FetchingNext(pc)
    ELSE /\ cpu'.PIPE[1] = pc
         /\ IF Redirects'
            THEN cpu'.PC = Target' /\ (Target' = Word(pc + 4) /\ ~InText(Target') => cpu'.IF_PC = Target')
            ELSE IF cpu'.HAZARD THEN cpu'.PC = Word(pc + 4) /\ cpu'.IF_PC = cpu'.PC
            ELSE FetchingNext(Word(pc + 4))

\* IF goes on at the address q, when nothing is dropped.
LEMMA Sequel ==
    ASSUME Going, ~C2.exited, ~Missed, NEW q, C3.PC = q, ~InText(q) \/ cpu'.HAZARD => cpu.IF_PC = q
    PROVE  /\ cpu'.PIPE[1] = 0 => FrontNext(q)
           /\ \A p : cpu'.PIPE[1] # 0 /\ cpu'.PIPE[1] = p /\ Word(p + 4) = q => FrontNext(p)
<1>0. FrontFields /\ program \in Programs
  BY NextFront DEF Going
<1>1. /\ cpu'.PIPE[0] = (IF InText(q) THEN q ELSE 0)
      /\ cpu'.IF_PC = (IF InText(q) /\ ~cpu'.HAZARD THEN Word(q + 4) ELSE cpu.IF_PC)
      /\ cpu'.PC = (IF cpu'.PIPE[1] # 0 /\ Redirects' THEN Target' ELSE cpu'.IF_PC)
      /\ cpu'.HAZARD \in BOOLEAN /\ (cpu'.HAZARD => cpu'.PIPE[1] # 0)
  BY <1>0 DEF FrontFields, Busy, ID_STAGE
<1>2. InText(q) => q # 0
  BY <1>0, InTextFacts
<1>3. ASSUME ~(cpu'.PIPE[1] # 0 /\ Redirects'), ~cpu'.HAZARD PROVE FetchingNext(q)
  BY <1>1, <1>2, <1>3 DEF FetchingNext
<1>4. cpu'.PIPE[1] = 0 => FrontNext(q)
  BY <1>1, <1>3 DEF FrontNext
<1>5. ASSUME NEW p, cpu'.PIPE[1] # 0, cpu'.PIPE[1] = p, Word(p + 4) = q PROVE FrontNext(p)
  <2>1. CASE Redirects'
    BY <2>1, <1>1, <1>5 DEF FrontNext
  <2>2. CASE ~Redirects' /\ cpu'.HAZARD
    BY <2>2, <1>1, <1>5 DEF FrontNext
  <2>3. CASE ~Redirects' /\ ~cpu'.HAZARD
    BY <2>3, <1>3, <1>5 DEF FrontNext
  <2>. QED BY <2>1, <2>2, <2>3
<1>. QED BY <1>4, <1>5

\* A branch that went the other way: IF goes on where it should have.
LEMMA FrontMissed ==
    ASSUME Going, ~C2.exited, Alike, ExecuteInv, Missed
    PROVE  ~Busy(EX_STAGE)' /\ FrontNext(PastEX.PC)
<1> DEFINE e == At(EX_STAGE)
           a == PastMEM.REGS[e.rs]
           b == PastMEM.REGS[e.rt]
           pc == cpu.PIPE[2] + 4
<1>0. FrontFields /\ program \in Programs /\ CpuType
  BY NextFront DEF Going, RunningInv
<1>1. /\ Busy(EX_STAGE) /\ e.op \in Branches /\ ~Busy(EX_STAGE)' /\ ~cpu'.HAZARD
      /\ cpu'.PIPE[2] = 0 /\ cpu'.PIPE[1] = 0 /\ ~Busy(ID_STAGE)'
      /\ cpu'.PC = (IF cpu.EX_MEM.BR_TAKE = 1 THEN BranchTarget(EX_STAGE) ELSE cpu'.IF_PC)
      /\ cpu'.IF_PC = (IF cpu.EX_MEM.BR_TAKE # 1 THEN pc ELSE cpu.IF_PC)
      /\ cpu'.PIPE[0] = 0
  BY <1>0 DEF FrontFields, Busy, ID_STAGE
<1>2. cpu'.PIPE[3] # 0
  BY Pasts, <1>1 DEF Busy, EX_STAGE
<1>3. /\ PastEX.PC = NextPC(e, a, b, pc) /\ Instruction(e) /\ cpu.EX_MEM.Branch
      /\ PastMEM.PC = cpu.PIPE[2]
  BY <1>1, Executing
<1>4. Word(pc) = pc /\ Word(cpu.PIPE[2] + 4) = pc /\ cpu.PIPE[2] \in Nat
  <2>1. cpu.PIPE[2] \in Nat /\ pc \in Values /\ Word(cpu.PIPE[2] + 4) = pc
    BY <1>0, <1>1, StageFacts DEF EX_STAGE
  <2>. QED BY <2>1
<1>5. cpu.EX_MEM.BR_TAKE = IF (e.op = "beq") = (a = b) THEN 1 ELSE 0
  BY <1>1, <1>3 DEF ExecuteInv, BehindInv
<1>6. NextPC(e, a, b, pc) = IF cpu.EX_MEM.BR_TAKE = 1 THEN Word(pc + e.imm * 4) ELSE pc
  <2>1. CASE e.op = "beq"
    BY <2>1, <1>5 DEF NextPC, Jumps
  <2>2. CASE e.op = "bne"
    BY <2>2, <1>5 DEF NextPC, Jumps
  <2>. QED BY <2>1, <2>2, <1>1 DEF Branches
<1>7. BranchTarget(EX_STAGE) = Word(pc + e.imm * 4)
  <2>1. e.imm \in Int
    BY <1>3, WordFacts DEF Instruction
  <2> DEFINE k == e.imm
  <2>2. BranchTarget(EX_STAGE) = Word(cpu.PIPE[2] + k * 4 + 4)
    BY DEF BranchTarget, EX_STAGE
  <2> HIDE DEF k, e
  <2>3. k \in Int
    BY <2>1 DEF k
  <2>4. cpu.PIPE[2] + k * 4 + 4 = pc + k * 4
    BY <2>3, <1>4
  <2>. QED BY <2>2, <2>4 DEF k
<1>8. cpu'.PC = PastEX.PC
  BY <1>1, <1>3, <1>6, <1>7
<1>9. ASSUME ~InText(PastEX.PC) PROVE cpu'.IF_PC = PastEX.PC
  <2>1. CASE cpu.EX_MEM.BR_TAKE # 1
    BY <2>1, <1>1, <1>3, <1>6
  <2>2. CASE cpu.EX_MEM.BR_TAKE = 1
    <3>1. ~Unlike(PastMEM, program)
      BY <1>1 DEF Alike
    <3>2. e = get_inst_info(program, PastMEM.PC) /\ Word(PastMEM.PC + 4) = pc
      BY <1>3, <1>4 DEF At, EX_STAGE
    <3>3. Outside(program, PastEX.PC)
      <4>1. PastEX.PC \in Values
        <5>1. IsaType(PastEX)
          BY Executing
        <5>. QED BY <5>1 DEF IsaType
      <4>. QED BY <4>1, <1>0, <1>9, OutsideText
    <3> HIDE DEF e
    <3>4. PastEX.PC = pc
      BY <3>1, <3>2, <3>3, <1>3 DEF Unlike
    <3>5. After(EX_STAGE) = pc
      BY <1>4 DEF After, EX_STAGE
    <3>6. cpu.IF_PC = After(EX_STAGE)
      BY <2>2, <3>4, <3>5, <1>9 DEF ExecuteInv
    <3>. QED BY <2>2, <3>4, <3>5, <3>6, <1>1
  <2>. QED BY <2>1, <2>2
<1>10. FetchingNext(PastEX.PC)
  BY <1>1, <1>2, <1>8, <1>9 DEF FetchingNext
<1>. QED BY <1>1, <1>10 DEF FrontNext

\* A jump out of the program is one of the differences, unless it goes
\* where the program would have gone on.
LEMMA NoJumpOut ==
    ASSUME Going, ~C2.exited, Alike, ExecuteInv, Busy(EX_STAGE)', ~Unlike(PastEX, program)
    PROVE  /\ PastEX.PC = cpu.PIPE[1] /\ IsaType(PastEX) /\ IsaType(Step(PastEX))
           /\ Step(PastEX).PC = NextPC(At(ID_STAGE), PastEX.REGS[At(ID_STAGE).rs],
                                       PastEX.REGS[At(ID_STAGE).rt], cpu.PIPE[1] + 4)
           /\ ~InText(Step(PastEX).PC) => Step(PastEX).PC = cpu.PIPE[1] + 4
           /\ After(ID_STAGE) = cpu.PIPE[1] + 4 /\ Instruction(At(ID_STAGE)) /\ cpu.PIPE[1] \in Nat
           /\ cpu.PIPE[1] + 4 < WORD \div 16
<1> DEFINE s == PastEX
           i == At(ID_STAGE)
<1>0. program \in Programs /\ CpuType /\ Busy(ID_STAGE) /\ cpu'.PIPE[2] = cpu.PIPE[1]
  <2>1. Busy(ID_STAGE) /\ cpu'.PIPE[2] = cpu.PIPE[1]
    BY NextFront DEF FrontFields
  <2>. QED BY <2>1 DEF Going, RunningInv
<1>1. s.PC = cpu.PIPE[1] /\ IsaType(s)
  <2>1. s.PC = cpu'.PIPE[2]
    BY NextMemory
  <2>2. IsaType(s)
    BY Executing
  <2>. QED BY <2>1, <2>2, <1>0
<1>2. InText(s.PC)
  BY <1>0, <1>1, StageFacts DEF ID_STAGE
<1>3. i = get_inst_info(program, s.PC)
  BY <1>1 DEF At, ID_STAGE
<1> HIDE DEF s, i
<1>4. /\ Instruction(i) /\ Word(s.PC + 4) = s.PC + 4
      /\ Step(s).PC = NextPC(i, s.REGS[i.rs], s.REGS[i.rt], s.PC + 4)
      /\ IsaType(Step(s))
  <2>1. ~Unlike(s, program)
    BY DEF s
  <2>. QED BY <2>1, <1>0, <1>1, <1>2, <1>3, StepFacts
<1>5. ~InText(Step(s).PC) => Step(s).PC = s.PC + 4
  <2>1. Outside(program, Step(s).PC) <=> ~InText(Step(s).PC)
    BY <1>0, <1>4, OutsideText DEF IsaType
  <2>2. ~Unlike(s, program)
    BY DEF s
  <2>. QED BY <2>1, <2>2, <1>3, <1>4 DEF Unlike
<1>6. s.PC \in Nat /\ s.PC + 4 < WORD \div 16
  BY <1>0, <1>2, InTextFacts
<1>7. After(ID_STAGE) = Word(s.PC + 4)
  BY <1>1 DEF After, ID_STAGE
<1>. QED BY <1>1, <1>4, <1>5, <1>6, <1>7 DEF s, i

\* Nothing in ID.
LEMMA FrontIdle ==
    ASSUME Going, ~C2.exited, ExecuteInv, ~Missed, ~Busy(ID_STAGE)
    PROVE  ~Busy(EX_STAGE)' /\ FrontNext(PastEX.PC)
<1> DEFINE p == PastEX.PC
<1>0. FrontFields /\ program \in Programs /\ CpuType /\ ~cpu.HAZARD
  <2>1. cpu.HAZARD = /\ Busy(ID_STAGE) /\ cpu.EX_MEM.MemRead
                     /\ cpu.EX_MEM.DEST \in {At(ID_STAGE).rs, At(ID_STAGE).rt}
    BY DEF Going, RunningInv, ID_EXInv
  <2>. QED BY <2>1, NextFront DEF Going, RunningInv
<1>1. Fetching(p)
  BY DEF ExecuteInv, FrontInv
<1>2. /\ ~Busy(EX_STAGE)' /\ C3.PC = cpu.PC /\ cpu'.PIPE[1] = cpu.PIPE[0] /\ ~cpu'.HAZARD
  BY <1>0 DEF FrontFields
<1>3. CASE Busy(IF_STAGE)
  <2>1. cpu.PIPE[0] = p /\ cpu.PC = Word(p + 4) /\ cpu.IF_PC = cpu.PC /\ p # 0
    BY <1>1, <1>3 DEF Fetching, Busy, IF_STAGE
  <2> DEFINE q == cpu.PC
  <2> HIDE DEF p, q
  <2>2. C3.PC = q /\ cpu.IF_PC = q /\ cpu'.PIPE[1] # 0 /\ cpu'.PIPE[1] = p /\ Word(p + 4) = q
    BY <2>1, <1>2 DEF q
  <2>. QED BY <2>2, <1>2, Sequel DEF p
<1>4. CASE ~Busy(IF_STAGE)
  <2>1. cpu.PC = p /\ (~InText(p) => cpu.IF_PC = p) /\ cpu.PIPE[0] = 0
    BY <1>1, <1>4 DEF Fetching, Busy, IF_STAGE
  <2> HIDE DEF p
  <2>. QED BY <2>1, <1>2, Sequel DEF p
<1>. QED BY <1>3, <1>4

\* ID waits for a load: the instruction is decoded again, to the same end.
LEMMA FrontWaits ==
    ASSUME Going, ~C2.exited, Alike, ExecuteInv, ~Missed, Busy(ID_STAGE), cpu.HAZARD
    PROVE  ~Busy(EX_STAGE)' /\ FrontNext(PastEX.PC)
<1> DEFINE i == At(ID_STAGE)
           p == PastEX.PC
<1>0. FrontFields /\ program \in Programs /\ CpuType /\ program' = program /\ NextFields
  <2>1. program' = program /\ NextFields
    BY Moves
  <2>. QED BY <2>1, NextFront DEF Going, RunningInv
<1>1. /\ cpu.PIPE[1] = p
      /\ IF Redirects THEN /\ cpu.PC = Target
                           /\ Target = After(ID_STAGE) /\ ~InText(Target) => cpu.IF_PC = Target
         ELSE cpu.PC = After(ID_STAGE) /\ cpu.IF_PC = cpu.PC
  BY DEF ExecuteInv, FrontInv, ID_STAGE
<1>2. /\ ~Busy(EX_STAGE)' /\ C3.PC = cpu.PC /\ cpu'.PIPE[1] = cpu.PIPE[1] /\ ~cpu'.HAZARD
      /\ cpu'.PREDICTION = cpu.PREDICTION
  BY <1>0 DEF FrontFields
<1>3. cpu'.PIPE[1] # 0 /\ After(ID_STAGE) = Word(p + 4)
  BY <1>1, <1>2 DEF Busy, ID_STAGE, After
<1>4. Redirects' <=> Redirects
  BY <1>0, <1>2 DEF Redirects, At, ID_STAGE
<1>5. CASE ~Redirects
  <2>1. C3.PC = Word(p + 4) /\ cpu.IF_PC = Word(p + 4)
    BY <1>1, <1>2, <1>3, <1>5
  <2> DEFINE q == Word(p + 4)
  <2> HIDE DEF p, q
  <2>2. C3.PC = q /\ cpu.IF_PC = q /\ cpu'.PIPE[1] # 0 /\ cpu'.PIPE[1] = p /\ Word(p + 4) = q
    BY <2>1, <1>1, <1>2, <1>3 DEF q
  <2>. QED BY <2>2, <1>2, Sequel DEF p
<1>6. CASE Redirects
  <2>1. Target' = Target
    <3>1. Target' = IF i.op = "jr" THEN cpu'.REGS[i.rs]
                    ELSE IF i.op \in Jumps THEN JumpTarget(cpu.PIPE[1], i)
                    ELSE Word(cpu.PIPE[1] + i.imm * 4 + 4)
      BY <1>0, <1>2 DEF Target, BranchTarget, At, ID_STAGE
    <3>2. Target = IF i.op = "jr" THEN cpu.REGS[i.rs]
                   ELSE IF i.op \in Jumps THEN JumpTarget(cpu.PIPE[1], i)
                   ELSE Word(cpu.PIPE[1] + i.imm * 4 + 4)
      BY DEF Target, BranchTarget, At, ID_STAGE
    <3>3. ASSUME i.op = "jr" PROVE cpu'.REGS[i.rs] = cpu.REGS[i.rs]
      <4>1. Instruction(i)
        BY <1>0, StageFacts DEF ID_STAGE
      <4>2. i.rs \in REGISTERS /\ i.op # "jal"
        BY <4>1, <3>3 DEF Instruction, Jumps
      <4>3. ~Pending(cpu, i.rs)
        <5>1. ~JumpsOutOfTurn(cpu, program)
          BY DEF Going, RunningInv, LinkInv
        <5>. QED BY <5>1, <3>3 DEF JumpsOutOfTurn, Busy, At
      <4>4. WrittenRegs[i.rs] = cpu.REGS[i.rs]
        <5> HIDE DEF i
        <5>1. At(ID_STAGE).op # "jal"
          BY <4>2 DEF i
        <5>. QED BY <4>2, <4>3, <5>1, Settled
      <4>5. cpu'.REGS[i.rs] = WrittenRegs[i.rs]
        <5>1. Decoded = i
          <6>1. At(ID_STAGE)' = Decoded
            BY Moves
          <6>. QED BY <6>1, <1>0, <1>2 DEF At, ID_STAGE
        <5>2. WrittenRegs[0] = 0
          BY WrittenFacts
        <5>. QED BY <5>1, <5>2, <4>2, <1>0 DEF NextFields
      <4>. QED BY <4>4, <4>5
    <3> HIDE DEF i
    <3>. QED BY <3>1, <3>2, <3>3
  <2>2. cpu'.PC = Target
    BY <1>0, <1>3, <1>4, <1>6, <2>1 DEF FrontFields, Busy, ID_STAGE
  <2>3. Target = Word(p + 4) /\ ~InText(Target) => cpu'.IF_PC = Target
    <3>1. ~InText(Target) => cpu'.IF_PC = cpu.IF_PC
      BY <1>0, <1>1, <1>2, <1>6 DEF FrontFields
    <3>. QED BY <3>1, <1>1, <1>3, <1>6
  <2> HIDE DEF p
  <2>. QED BY <2>1, <2>2, <2>3, <1>1, <1>2, <1>3, <1>4, <1>6 DEF FrontNext, p
<1>. QED BY <1>5, <1>6

\* Where a jump, or a branch as predicted, goes is where IF has been sent.
LEMMA FrontRedirected ==
    ASSUME Going, ~C2.exited, Alike, ExecuteInv, ~Missed, Busy(EX_STAGE)', ~Unlike(PastEX, program),
           Redirects, ~Missed'
    PROVE  FrontNext(Step(PastEX).PC)
<1> DEFINE i == At(ID_STAGE)
           s == PastEX
           a == s.REGS[i.rs]
           b == s.REGS[i.rt]
           p == cpu.PIPE[1]
           q == Step(PastEX).PC
<1>0. FrontFields /\ program \in Programs /\ CpuType
  BY NextFront DEF Going, RunningInv
<1>1. /\ s.PC = p /\ q = NextPC(i, a, b, p + 4) /\ (~InText(q) => q = p + 4)
      /\ After(ID_STAGE) = p + 4 /\ Instruction(i) /\ p \in Nat /\ p + 4 < WORD \div 16
  BY NoJumpOut
<1>2. /\ Busy(ID_STAGE) /\ ~cpu.HAZARD /\ cpu'.PIPE[1] = 0
      /\ C3.PC = (IF i.op \in Branches /\ cpu.PREDICTION THEN BranchTarget(ID_STAGE) ELSE cpu.PC)
      /\ cpu'.PREDICTION = cpu.PREDICTION /\ ~cpu'.HAZARD
  BY <1>0 DEF FrontFields, Busy, ID_STAGE
<1>3. /\ cpu.PC = Target
      /\ Target = After(ID_STAGE) /\ ~InText(Target) => cpu.IF_PC = Target
  BY <1>2 DEF ExecuteInv, FrontInv
<1>4. Target = q /\ C3.PC = Target
  <2>1. CASE i.op = "jr"
    <3>1. Target = cpu.REGS[i.rs]
      BY <2>1 DEF Target
    <3>2. i.rs \in REGISTERS /\ i.op # "jal"
      BY <1>1, <2>1 DEF Instruction, Jumps
    <3>3. ~Pending(cpu, i.rs)
      <4>1. ~JumpsOutOfTurn(cpu, program)
        BY DEF Going, RunningInv, LinkInv
      <4>. QED BY <4>1, <1>2, <2>1 DEF JumpsOutOfTurn, Busy, At
    <3>4. cpu.REGS[i.rs] = a
      <4> HIDE DEF i
      <4>1. At(ID_STAGE).op # "jal"
        BY <3>2 DEF i
      <4>. QED BY <3>2, <3>3, <4>1, <1>2, Settled
    <3>5. q = a
      <4>1. NextPC(i, a, b, p + 4) = a
        BY <2>1 DEF NextPC, Jumps
      <4>. QED BY <4>1, <1>1
    <3>6. C3.PC = cpu.PC
      BY <1>2, <2>1 DEF Branches
    <3>. QED BY <3>1, <3>4, <3>5, <3>6, <1>3
  <2>2. CASE i.op \in Jumps
    <3>1. Target = JumpTarget(p, i)
      BY <2>2 DEF Target, Jumps, ID_STAGE
    <3>2. q = JumpTarget(p + 4, i)
      <4>1. NextPC(i, a, b, p + 4) = JumpTarget(p + 4, i)
        BY <2>2 DEF NextPC, Jumps
      <4>. QED BY <4>1, <1>1
    <3>3. JumpTarget(p + 4, i) = JumpTarget(p, i)
      <4>1. i.target \in Nat
        BY <1>1 DEF Instruction
      <4> HIDE DEF i, p
      <4>. QED BY <4>1, <1>1, JumpInText
    <3>4. C3.PC = cpu.PC
      BY <1>2, <2>2 DEF Branches, Jumps
    <3>. QED BY <3>1, <3>2, <3>3, <3>4, <1>3
  <2>3. CASE i.op \in Branches
    <3>1. cpu.PREDICTION
      BY <2>3 DEF Redirects, Jumping, Jumps, Branches
    <3>2. Target = BranchTarget(ID_STAGE) /\ C3.PC = BranchTarget(ID_STAGE)
      BY <2>3, <3>1, <1>2 DEF Target, Branches, Jumps
    <3>3. /\ cpu'.EX_MEM.Branch
          /\ cpu'.EX_MEM.BR_TAKE = IF (i.op = "beq") = (a = b) THEN 1 ELSE 0
      BY <2>3, NextBehind
    <3>4. cpu'.EX_MEM.BR_TAKE = 1
      BY <3>1, <3>3, <1>2 DEF Missed
    <3>5. NextPC(i, a, b, p + 4) = Word(p + 4 + i.imm * 4)
      <4>1. CASE i.op = "beq"
        BY <4>1, <3>3, <3>4 DEF NextPC, Jumps
      <4>2. CASE i.op = "bne"
        BY <4>2, <3>3, <3>4 DEF NextPC, Jumps
      <4>. QED BY <4>1, <4>2, <2>3 DEF Branches
    <3>6. BranchTarget(ID_STAGE) = Word(p + 4 + i.imm * 4)
      <4>1. i.imm \in Int
        BY <1>1, WordFacts DEF Instruction
      <4> DEFINE k == i.imm
      <4>2. BranchTarget(ID_STAGE) = Word(p + k * 4 + 4)
        BY DEF BranchTarget, ID_STAGE
      <4> HIDE DEF k, i, p
      <4>3. k \in Int
        BY <4>1 DEF k
      <4>4. p + k * 4 + 4 = p + 4 + k * 4
        BY <4>3, <1>1
      <4>. QED BY <4>2, <4>4 DEF k
    <3>. QED BY <3>2, <3>5, <3>6, <1>1
  <2>. QED BY <2>1, <2>2, <2>3 DEF Redirects, Jumping
<1>5. ~InText(q) => cpu.IF_PC = q
  BY <1>1, <1>3, <1>4
<1> HIDE DEF q
<1>. QED BY <1>2, <1>4, <1>5, Sequel DEF q

\* The instruction in ID goes on, and IF has fetched what follows it in the
\* text, or is about to.
LEMMA FrontSequential ==
    ASSUME Going, ~C2.exited, Alike, ExecuteInv, ~Missed, Busy(EX_STAGE)', ~Unlike(PastEX, program),
           ~Redirects
    PROVE  /\ ~Missed' => FrontNext(Step(PastEX).PC)
           /\ ~InText(After(ID_STAGE)) => cpu'.IF_PC = After(ID_STAGE)
<1> DEFINE i == At(ID_STAGE)
           s == PastEX
           a == s.REGS[i.rs]
           b == s.REGS[i.rt]
           p == cpu.PIPE[1]
           q == p + 4
<1>0. FrontFields /\ program \in Programs /\ CpuType
  BY NextFront DEF Going, RunningInv
<1>1. /\ s.PC = p /\ Step(s).PC = NextPC(i, a, b, q)
      /\ After(ID_STAGE) = q /\ Instruction(i) /\ p \in Nat
  BY NoJumpOut
<1>2. /\ Busy(ID_STAGE) /\ ~cpu.HAZARD /\ cpu'.PIPE[1] = cpu.PIPE[0] /\ C3.PC = cpu.PC
      /\ cpu'.PREDICTION = cpu.PREDICTION
      /\ cpu'.IF_PC = (IF InText(C3.PC) /\ ~cpu'.HAZARD THEN Word(C3.PC + 4) ELSE cpu.IF_PC)
      /\ cpu'.HAZARD \in BOOLEAN /\ (cpu'.HAZARD => cpu'.PIPE[1] # 0)
  BY <1>0 DEF FrontFields, Redirects, Busy, ID_STAGE
<1>3. Fetching(q)
  <2>1. Fetching(After(ID_STAGE))
    BY <1>2 DEF ExecuteInv, FrontInv
  <2>. QED BY <2>1, <1>1
<1>4. i.op # "jr" /\ i.op \notin Jumps /\ (i.op \in Branches => ~cpu.PREDICTION)
  BY DEF Redirects, Jumping
<1>5. ~Missed' => Step(s).PC = q
  <2>1. CASE i.op \in Branches
    <3>1. /\ cpu'.EX_MEM.Branch
          /\ cpu'.EX_MEM.BR_TAKE = IF (i.op = "beq") = (a = b) THEN 1 ELSE 0
      BY <2>1, NextBehind
    <3>2. ~Missed' => cpu'.EX_MEM.BR_TAKE # 1
      BY <2>1, <3>1, <1>2, <1>4 DEF Missed
    <3>3. ~Missed' => NextPC(i, a, b, q) = q
      <4>1. CASE i.op = "beq"
        BY <4>1, <3>1, <3>2 DEF NextPC, Jumps
      <4>2. CASE i.op = "bne"
        BY <4>2, <3>1, <3>2 DEF NextPC, Jumps
      <4>. QED BY <4>1, <4>2, <2>1 DEF Branches
    <3>. QED BY <3>3, <1>1
  <2>2. CASE i.op \notin Branches
    <3>1. NextPC(i, a, b, q) = q
      BY <2>2, <1>4 DEF NextPC, Branches
    <3>. QED BY <3>1, <1>1
  <2>. QED BY <2>1, <2>2
<1>6. CASE Busy(IF_STAGE)
  <2>1. cpu.PIPE[0] = q /\ cpu.PC = Word(q + 4) /\ cpu.IF_PC = cpu.PC /\ q # 0 /\ InText(q)
    <3>1. cpu.PIPE[0] = q /\ cpu.PC = Word(q + 4) /\ cpu.IF_PC = cpu.PC
      BY <1>3, <1>6 DEF Fetching, IF_STAGE
    <3>2. InText(cpu.PIPE[0]) /\ cpu.PIPE[0] # 0
      BY <1>0, <1>6, StageFacts DEF IF_STAGE, Busy
    <3>. QED BY <3>1, <3>2
  <2> DEFINE t == cpu.PC
  <2>2. C3.PC = t /\ cpu.IF_PC = t /\ cpu'.PIPE[1] # 0 /\ cpu'.PIPE[1] = q /\ Word(q + 4) = t
    BY <2>1, <1>2
  <2>3. FrontNext(q)
    <3> HIDE DEF q, t
    <3>. QED BY <2>2, Sequel
  <2> HIDE DEF q, s
  <2>. QED BY <2>1, <2>3, <1>1, <1>5 DEF s
<1>7. CASE ~Busy(IF_STAGE)
  <2>1. cpu.PC = q /\ ~InText(q) /\ cpu.IF_PC = q /\ cpu.PIPE[0] = 0
    BY <1>2, <1>3, <1>7 DEF Fetching, Busy, IF_STAGE
  <2>2. FrontNext(q)
    <3> HIDE DEF q
    <3>. QED BY <2>1, <1>2, Sequel
  <2>3. cpu'.IF_PC = q
    <3> HIDE DEF q
    <3>. QED BY <2>1, <1>2
  <2> HIDE DEF q, s
  <2>. QED BY <2>2, <2>3, <1>1, <1>5 DEF s
<1>. QED BY <1>6, <1>7

\* FrontNext is FrontInv of the next state.
LEMMA FrontAfter ==
    ASSUME program' = program, NEW q, FrontNext(q), q = PastEX'.PC, PastEX'.PC = (PastEX.PC)'
    PROVE  FrontInv(PastEX.PC)'
<1>1. cpu'.PIPE[0] # 0 <=> Busy(IF_STAGE)'
  BY DEF Busy, IF_STAGE
<1>2. cpu'.PIPE[1] # 0 <=> Busy(ID_STAGE)'
  BY DEF Busy, ID_STAGE
<1>3. cpu'.PIPE[2] # 0 <=> Busy(EX_STAGE)'
  BY DEF Busy, EX_STAGE
<1>4. cpu'.PIPE[3] # 0 <=> Busy(MEM_STAGE)'
  BY DEF Busy, MEM_STAGE
<1>5. InText(q) <=> InText(PastEX.PC)'
  BY DEF InText
<1>6. InText(Target') <=> InText(Target)'
  BY DEF InText
<1>7. cpu'.PIPE[1] = q => After(ID_STAGE)' = Word(q + 4)
  BY DEF After, ID_STAGE
<1>8. InText(Word(q + 4)) /\ cpu'.PIPE[1] = q <=> InText(After(ID_STAGE))' /\ cpu'.PIPE[1] = q
  BY <1>7 DEF InText
<1>9. CASE cpu'.PIPE[1] = 0
  <2>1. FetchingNext(q)
    BY <1>9 DEF FrontNext
  <2>2. Fetching(PastEX.PC)'
    BY <2>1, <1>1, <1>2, <1>3, <1>4, <1>5 DEF FetchingNext, Fetching, IF_STAGE
  <2>. QED BY <2>2, <1>2, <1>9 DEF FrontInv
<1>10. CASE cpu'.PIPE[1] # 0
  <2>1. cpu'.PIPE[1] = q
    BY <1>10 DEF FrontNext
  <2>2. CASE Redirects'
    BY <2>1, <2>2, <1>2, <1>6, <1>7, <1>10 DEF FrontNext, FrontInv, ID_STAGE
  <2>3. CASE ~Redirects' /\ cpu'.HAZARD
    BY <2>1, <2>3, <1>2, <1>7, <1>10 DEF FrontNext, FrontInv, ID_STAGE
  <2>4. CASE ~Redirects' /\ ~cpu'.HAZARD
    <3>1. FetchingNext(Word(q + 4))
      BY <2>4, <1>10 DEF FrontNext
    <3>2. Fetching(After(ID_STAGE))'
      BY <2>1, <3>1, <1>1, <1>2, <1>3, <1>4, <1>7, <1>8 DEF FetchingNext, Fetching, IF_STAGE
    <3>. QED BY <2>1, <2>4, <3>2, <1>2, <1>10 DEF FrontInv, ID_STAGE
  <2>. QED BY <2>2, <2>3, <2>4
<1>. QED BY <1>9, <1>10

\* ExecuteInv, as long as the two machines do the same.
LEMMA NextExecute ==
    ASSUME Going, ~C2.exited, Alike, ExecuteInv, Busy(EX_STAGE)' => ~Unlike(PastEX, program)
    PROVE  ExecuteInv'
<1>0. /\ PastMEM' = PastEX
      /\ PastEX' = (IF Busy(EX_STAGE)' THEN Step(PastEX) ELSE PastEX)
      /\ program' = program /\ FrontFields /\ NextFields
  <2>1. program' = program /\ NextFields
    BY Moves
  <2>. QED BY <2>1, Pasts, NextFront
<1>1. Busy(EX_STAGE)' => At(EX_STAGE)' = At(ID_STAGE)
  BY <1>0 DEF FrontFields
<1>2. Busy(EX_STAGE)' => BehindInv(PastMEM)'
  <2> SUFFICES ASSUME Busy(EX_STAGE)' PROVE BehindInv(PastMEM)'
    OBVIOUS
  <2> DEFINE i == At(ID_STAGE)
             a == PastEX.REGS[i.rs]
             b == PastEX.REGS[i.rt]
             latch == cpu'.EX_MEM
  <2>1. /\ latch.RegWrite /\ ~latch.MemRead => latch.ALU_OUT = Value(i, PastEX)
        /\ latch.MemRead \/ latch.MemWrite => latch.ALU_OUT = Word(a + i.imm)
        /\ latch.Branch => latch.BR_TAKE = IF (i.op = "beq") = (a = b) THEN 1 ELSE 0
    BY NextBehind
  <2>2. At(EX_STAGE)' = i /\ PastMEM' = PastEX
    BY <1>0, <1>1
  <2>3. Value(At(EX_STAGE), PastMEM)' = Value(i, PastEX)
    BY <2>2 DEF Value
  <2> HIDE DEF i
  <2>. QED BY <2>1, <2>2, <2>3 DEF BehindInv, Value
<1>3. ~Missed' => FrontInv(PastEX.PC)'
  <2> SUFFICES ASSUME ~Missed' PROVE FrontInv(PastEX.PC)'
    OBVIOUS
  <2>1. FrontNext(PastEX'.PC)
    <3>1. CASE Missed
      BY <3>1, <1>0, FrontMissed
    <3>2. CASE ~Missed /\ ~Busy(ID_STAGE)
      BY <3>2, <1>0, FrontIdle
    <3>3. CASE ~Missed /\ Busy(ID_STAGE) /\ cpu.HAZARD
      BY <3>3, <1>0, FrontWaits
    <3>4. CASE ~Missed /\ Busy(ID_STAGE) /\ ~cpu.HAZARD
      <4>1. Busy(EX_STAGE)'
        BY <3>4, <1>0 DEF FrontFields
      <4>2. CASE Redirects
        BY <3>4, <4>1, <4>2, <1>0, FrontRedirected
      <4>3. CASE ~Redirects
        BY <3>4, <4>1, <4>3, <1>0, FrontSequential
      <4>. QED BY <4>2, <4>3
    <3>5. cpu.HAZARD \in BOOLEAN
      <4>1. cpu.HAZARD = /\ Busy(ID_STAGE) /\ cpu.EX_MEM.MemRead
                         /\ cpu.EX_MEM.DEST \in {At(ID_STAGE).rs, At(ID_STAGE).rt}
        BY DEF Going, RunningInv, ID_EXInv
      <4>. QED BY <4>1
    <3>. QED BY <3>1, <3>2, <3>3, <3>4, <3>5
  <2>. QED BY <2>1, <1>0, FrontAfter
<1>4. Missed' /\ cpu'.EX_MEM.BR_TAKE = 1 /\ ~InText(After(EX_STAGE))' => cpu'.IF_PC = After(EX_STAGE)'
  <2> SUFFICES ASSUME Missed', cpu'.EX_MEM.BR_TAKE = 1, ~InText(After(EX_STAGE))'
               PROVE  cpu'.IF_PC = After(EX_STAGE)'
    OBVIOUS
  <2>1. Busy(EX_STAGE)'
    <3>1. ~Busy(EX_STAGE)' => cpu'.EX_MEM.Branch = FALSE
      <4>1. EX_MEMInv'
        BY NextLatches
      <4>. QED BY <4>1 DEF EX_MEMInv, NoExecution
    <3>. QED BY <3>1 DEF Missed
  <2>2. Busy(ID_STAGE) /\ ~Missed /\ cpu'.PIPE[2] = cpu.PIPE[1] /\ cpu'.PREDICTION = cpu.PREDICTION
    BY <2>1, <1>0 DEF FrontFields
  <2>3. After(EX_STAGE)' = After(ID_STAGE)
    BY <2>2 DEF After, EX_STAGE, ID_STAGE
  <2>4. ~Redirects
    <3>1. cpu'.EX_MEM.Branch <=> At(ID_STAGE).op \in Branches
      BY <2>1, NextBehind
    <3>2. cpu'.EX_MEM.Branch /\ ~cpu.PREDICTION
      <4>1. cpu.PREDICTION \in BOOLEAN
        BY DEF Going, RunningInv, CpuType
      <4>. QED BY <4>1, <2>2 DEF Missed
    <3>. QED BY <3>1, <3>2 DEF Redirects, Branches, Jumping, Jumps
  <2>5. ~InText(After(ID_STAGE))
    BY <2>3, <1>0 DEF InText
  <2>6. cpu'.IF_PC = After(ID_STAGE)
    BY <2>1, <2>2, <2>4, <2>5, FrontSequential
  <2>. QED BY <2>3, <2>6
<1>. QED BY <1>2, <1>3, <1>4 DEF ExecuteInv

-----------------------------------------------------------------------------
(* The invariant.                                                          *)

\* What the pipeline holds is what the single-step machine does next.
LEMMA NextPath ==
    ASSUME Going, ~C2.exited
    PROVE  PathInv'
<1>1. /\ isa' = PastMEM /\ PastMEM' = PastEX
      /\ PastEX' = (IF Busy(EX_STAGE)' THEN Step(PastEX) ELSE PastEX)
      /\ Busy(MEM_STAGE)' <=> Busy(EX_STAGE)
      /\ At(MEM_STAGE)' = At(EX_STAGE) /\ cpu'.PIPE[3] = cpu.PIPE[2] /\ program' = program
  BY Pasts
<1>2. Busy(MEM_STAGE)' => isa'.PC = cpu'.PIPE[MEM_STAGE]
  <2>1. Busy(EX_STAGE) => PastMEM.PC = cpu.PIPE[2]
    BY Executing
  <2>. QED BY <2>1, <1>1 DEF MEM_STAGE
<1>3. ASSUME Busy(MEM_STAGE)' => ~Unlike(isa, program)'
      PROVE  MemoryInv'
  <2>1. Alike
    <3>1. Unlike(isa, program)' <=> Unlike(PastMEM, program)
      BY <1>1 DEF Unlike
    <3>. QED BY <3>1, <1>1, <1>3 DEF Alike
  <2>2. ExecuteInv
    <3>1. MemoryInv
      BY Leaving
    <3>. QED BY <2>1, <3>1 DEF MemoryInv, Alike
  <2>3. /\ cpu'.mem = PastEX.mem
        /\ cpu'.MEM_WB.RegWrite =>
             Value(At(EX_STAGE), PastMEM) = IF cpu'.MEM_WB.MemtoReg THEN cpu'.MEM_WB.ALU_OUT
                                            ELSE cpu'.MEM_WB.MEM_OUT
        /\ Busy(EX_STAGE)' => PastEX.PC = cpu'.PIPE[2]
    BY <2>1, <2>2, NextMemory
  <2>4. (Busy(EX_STAGE) => ~Unlike(PastMEM, program))' => ExecuteInv'
    <3>1. Unlike(PastMEM, program)' <=> Unlike(PastEX, program)
      <4>1. (PastMEM.PC)' = PastEX.PC /\ (PastMEM.REGS)' = PastEX.REGS
        BY <1>1
      <4>. QED BY <4>1, <1>1 DEF Unlike
    <3>2. (Busy(EX_STAGE)' => ~Unlike(PastEX, program)) => ExecuteInv'
      BY <2>1, <2>2, NextExecute
    <3>. QED BY <3>1, <3>2
  <2>5. (cpu.mem = PastMEM.mem)'
    BY <2>3, <1>1
  <2>6. Value(At(MEM_STAGE), isa)' = Value(At(EX_STAGE), PastMEM)
    BY <1>1 DEF Value
  <2>7. (Busy(EX_STAGE) => PastMEM.PC = cpu.PIPE[EX_STAGE])'
    BY <2>3, <1>1 DEF EX_STAGE
  <2>. QED BY <2>3, <2>4, <2>5, <2>6, <2>7 DEF MemoryInv
<1>. QED BY <1>2, <1>3 DEF PathInv

\* The cycle when there is nothing in EX.
LEMMA NothingInEX ==
    ASSUME Going, ~C2.exited, ~Busy(EX_STAGE)
    PROVE  /\ FrontInv(PastMEM.PC) /\ (isa'.RUN_BIT <=> InText(PastMEM.PC))
           /\ PastMEM.PC \in Values /\ cpu'.mem = PastMEM.mem
           /\ cpu'.PIPE[3] = 0 /\ cpu'.PIPE[2] = cpu.PIPE[1]
           /\ ~Busy(ID_STAGE) => /\ cpu'.PIPE[1] = cpu.PIPE[0]
                                 /\ cpu'.PIPE[0] = IF InText(cpu.PC) THEN cpu.PC ELSE 0
<1>0. FrontFields /\ NextFields /\ program \in Programs
  BY NextFront, Moves DEF Going
<1>1. PastEX = PastMEM /\ cpu.EX_MEM = NoExecution /\ ~Missed
  BY Executing
<1>2. cpu.EX_MEM.MemWrite = FALSE /\ cpu.EX_MEM.MemRead = FALSE
  BY <1>1 DEF NoExecution
<1>3. cpu.HAZARD = FALSE
  <2>1. cpu.HAZARD = /\ Busy(ID_STAGE) /\ cpu.EX_MEM.MemRead
                     /\ cpu.EX_MEM.DEST \in {At(ID_STAGE).rs, At(ID_STAGE).rt}
    BY DEF Going, RunningInv, ID_EXInv
  <2>. QED BY <2>1, <1>2
<1>4. /\ MemoryInv /\ isa' = PastMEM /\ IsaType(PastMEM)
  BY Leaving
<1>5. FrontInv(PastMEM.PC)
  BY <1>1, <1>4 DEF MemoryInv, ExecuteInv
<1>6. (isa'.RUN_BIT <=> InText(PastMEM.PC)) /\ PastMEM.PC \in Values
  <2>1. PastMEM.PC \in Values /\ PastMEM.RUN_BIT = ~Outside(program, PastMEM.PC)
    BY <1>4 DEF IsaType
  <2>2. Outside(program, PastMEM.PC) <=> ~InText(PastMEM.PC)
    BY <2>1, <1>0, OutsideText
  <2>. QED BY <2>1, <2>2, <1>4
<1>7. cpu'.mem = PastMEM.mem
  <2>1. cpu'.mem = (IF cpu.EX_MEM.MemWrite
                    THEN mem_write_32(cpu.mem, cpu.EX_MEM.ALU_OUT, WrittenRegs[cpu.EX_MEM.DEST])
                    ELSE cpu.mem)
    BY <1>0 DEF NextFields
  <2>2. cpu.mem = PastMEM.mem
    BY <1>4 DEF MemoryInv
  <2>. QED BY <2>1, <2>2, <1>2
<1>8. cpu'.PIPE[3] = 0
  <2>1. cpu'.PIPE[3] = cpu.PIPE[2]
    BY Pasts
  <2>. QED BY <2>1 DEF Busy, EX_STAGE
<1>9. cpu'.PIPE[2] = cpu.PIPE[1]
  BY <1>0, <1>1, <1>3 DEF FrontFields
<1>10. ~Busy(ID_STAGE) => /\ cpu'.PIPE[1] = cpu.PIPE[0]
                          /\ cpu'.PIPE[0] = IF InText(cpu.PC) THEN cpu.PC ELSE 0
  <2> SUFFICES ASSUME ~Busy(ID_STAGE)
               PROVE  /\ cpu'.PIPE[1] = cpu.PIPE[0]
                      /\ cpu'.PIPE[0] = IF InText(cpu.PC) THEN cpu.PC ELSE 0
    OBVIOUS
  <2>1. ~Busy(EX_STAGE)'
    BY <1>0 DEF FrontFields
  <2>2. C3.PC = cpu.PC
    BY <2>1, <1>0 DEF FrontFields
  <2>3. cpu'.PIPE[1] = cpu.PIPE[0]
    BY <2>1, <1>0, <1>1, <1>3 DEF FrontFields
  <2>4. cpu'.PIPE[0] = IF InText(cpu.PC) THEN cpu.PC ELSE 0
    BY <2>2, <1>0, <1>1 DEF FrontFields
  <2>. QED BY <2>3, <2>4
<1>. QED BY <1>5, <1>6, <1>7, <1>8, <1>9, <1>10

\* What the counters and RUN_BIT are after the cycle.
LEMMA NextCounts ==
    ASSUME Going, ~C2.exited
    PROVE  /\ cpu.CYCLE_COUNT \in Nat /\ cpu.INSTRUCTION_COUNT \in Nat
           /\ cpu'.INSTRUCTION_COUNT \in Nat /\ MAX_INSTRUCTION_NUM \in Nat
           /\ cpu'.CYCLE_COUNT = cpu.CYCLE_COUNT + 1
           /\ cpu'.INSTRUCTION_COUNT = (IF Busy(MEM_STAGE) THEN cpu.INSTRUCTION_COUNT + 1
                                        ELSE cpu.INSTRUCTION_COUNT)
           /\ cpu'.RUN_BIT <=> /\ ~(Busy(MEM_STAGE) /\ \A s \in 0..3 : cpu'.PIPE[s] = 0)
                               /\ cpu'.INSTRUCTION_COUNT < MAX_INSTRUCTION_NUM
           /\ \A s \in 0..3 : cpu.PIPE[s] \in Nat /\ cpu'.PIPE[s] \in Nat
<1>0. NextFields /\ CpuType /\ program \in Programs /\ CpuType' /\ program' = program
  BY Moves, NextCpuType DEF Going, RunningInv
<1>1. cpu.CYCLE_COUNT \in Nat /\ cpu.INSTRUCTION_COUNT \in Nat
  BY <1>0 DEF CpuType
<1>2. /\ cpu'.CYCLE_COUNT = cpu.CYCLE_COUNT + 1
      /\ cpu'.INSTRUCTION_COUNT = (IF Busy(MEM_STAGE) THEN cpu.INSTRUCTION_COUNT + 1
                                   ELSE cpu.INSTRUCTION_COUNT)
  BY <1>0 DEF NextFields
<1>3. \A s \in 0..4 : cpu.PIPE[s] = 0 \/ InText(cpu.PIPE[s])
  BY <1>0 DEF CpuType
<1>4. \A s \in 0..4 : cpu'.PIPE[s] = 0 \/ InText(cpu'.PIPE[s])
  BY <1>0 DEF CpuType, InText
<1>5. Len(program) \in Nat /\ MEM_TEXT_START \in Nat
  BY <1>0, ProgramFacts, TextFacts
<1>6. \A s \in 0..3 : cpu.PIPE[s] \in Nat /\ cpu'.PIPE[s] \in Nat
  <2>1. \A x : InText(x) => x \in Nat
    BY <1>5 DEF InText
  <2>. QED BY <1>3, <1>4, <2>1
<1>7. cpu'.RUN_BIT = /\ cpu'.PIPE[4] < MEM_TEXT_START + Len(program) * 4
                     /\ ~(cpu'.PIPE[4] # 0 /\ \A s \in 0..3 : cpu'.PIPE[s] = 0)
                     /\ cpu'.INSTRUCTION_COUNT < MAX_INSTRUCTION_NUM
  BY <1>0 DEF NextFields
<1>8. cpu'.PIPE[4] < MEM_TEXT_START + Len(program) * 4
  <2>1. cpu'.PIPE[4] = 0 \/ InText(cpu'.PIPE[4])
    BY <1>4
  <2>2. MEM_TEXT_START > 0
    BY TextFacts
  <2>. QED BY <2>1, <2>2, <1>5 DEF InText
<1>9. cpu'.PIPE[4] # 0 <=> Busy(MEM_STAGE)
  BY <1>0 DEF NextFields, Busy, MEM_STAGE
<1>10. cpu'.RUN_BIT <=> /\ ~(Busy(MEM_STAGE) /\ \A s \in 0..3 : cpu'.PIPE[s] = 0)
                        /\ cpu'.INSTRUCTION_COUNT < MAX_INSTRUCTION_NUM
  BY <1>7, <1>8, <1>9
<1>11. cpu'.INSTRUCTION_COUNT \in Nat
  BY <1>1, <1>2
<1>12. MAX_INSTRUCTION_NUM \in Nat
  BY ProgramsAssumption
<1>. QED BY <1>1, <1>2, <1>6, <1>10, <1>11, <1>12

\* The pipeline moves on, or has come to the end.
LEMMA NextPace ==
    ASSUME Going, ~C2.exited
    PROVE  PaceInv'
<1> DEFINE C == cpu.CYCLE_COUNT
           I == cpu.INSTRUCTION_COUNT
<1>0. /\ C \in Nat /\ I \in Nat /\ cpu'.CYCLE_COUNT = C + 1
      /\ cpu'.INSTRUCTION_COUNT = (IF Busy(MEM_STAGE) THEN I + 1 ELSE I)
      /\ Busy(MEM_STAGE) /\ (\A s \in 0..3 : cpu'.PIPE[s] = 0) => ~cpu'.RUN_BIT
  BY NextCounts
<1>1. /\ C <= 4 * I + (IF Busy(MEM_STAGE) THEN 4 ELSE IF Busy(EX_STAGE) THEN 3
                       ELSE IF Busy(ID_STAGE) THEN 2 ELSE 1)
      /\ (\E s \in 0..3 : Busy(s)) \/ C = 0
  BY Moves DEF Going, RunningInv, PaceInv
<1>2. Busy(MEM_STAGE)' <=> Busy(EX_STAGE)
  BY Pasts
<1>3. ~Busy(EX_STAGE) /\ Busy(ID_STAGE) => Busy(EX_STAGE)'
  BY NothingInEX DEF Busy, EX_STAGE, ID_STAGE
<1>4. ~Busy(EX_STAGE) /\ ~Busy(ID_STAGE) /\ Busy(IF_STAGE) => Busy(ID_STAGE)'
  BY NothingInEX DEF Busy, IF_STAGE, ID_STAGE
<1>5. (\E s \in 0..3 : Busy(s)) => Busy(IF_STAGE) \/ Busy(ID_STAGE) \/ Busy(EX_STAGE) \/ Busy(MEM_STAGE)
  BY DEF IF_STAGE, ID_STAGE, EX_STAGE, MEM_STAGE
<1>6. cpu'.CYCLE_COUNT <= 4 * cpu'.INSTRUCTION_COUNT
           + (IF Busy(MEM_STAGE)' THEN 4 ELSE IF Busy(EX_STAGE)' THEN 3
              ELSE IF Busy(ID_STAGE)' THEN 2 ELSE 1)
  <2> HIDE DEF C, I
  <2>1. CASE Busy(MEM_STAGE)
    BY <2>1, <1>0, <1>1
  <2>2. CASE ~Busy(MEM_STAGE) /\ Busy(EX_STAGE)
    BY <2>2, <1>0, <1>1, <1>2
  <2>3. CASE ~Busy(MEM_STAGE) /\ ~Busy(EX_STAGE) /\ Busy(ID_STAGE)
    BY <2>3, <1>0, <1>1, <1>2, <1>3
  <2>4. CASE ~Busy(MEM_STAGE) /\ ~Busy(EX_STAGE) /\ ~Busy(ID_STAGE) /\ Busy(IF_STAGE)
    BY <2>4, <1>0, <1>1, <1>2, <1>4
  <2>5. CASE ~Busy(MEM_STAGE) /\ ~Busy(EX_STAGE) /\ ~Busy(ID_STAGE) /\ ~Busy(IF_STAGE)
    BY <2>5, <1>0, <1>1, <1>5
  <2>. QED BY <2>1, <2>2, <2>3, <2>4, <2>5
<1>7. (\E s \in 0..3 : cpu'.PIPE[s] # 0) \/ ~cpu'.RUN_BIT
  <2>1. CASE Busy(MEM_STAGE)
    BY <2>1, <1>0
  <2>2. CASE ~Busy(MEM_STAGE) /\ Busy(EX_STAGE)
    BY <2>2, <1>2 DEF Busy, MEM_STAGE
  <2>3. CASE ~Busy(MEM_STAGE) /\ ~Busy(EX_STAGE) /\ Busy(ID_STAGE)
    BY <2>3, <1>3 DEF Busy, EX_STAGE
  <2>4. CASE ~Busy(MEM_STAGE) /\ ~Busy(EX_STAGE) /\ ~Busy(ID_STAGE) /\ Busy(IF_STAGE)
    BY <2>4, <1>4 DEF Busy, ID_STAGE
  <2>5. CASE ~Busy(MEM_STAGE) /\ ~Busy(EX_STAGE) /\ ~Busy(ID_STAGE) /\ ~Busy(IF_STAGE)
    <3>1. FrontInv(PastMEM.PC) /\ cpu'.PIPE[0] = (IF InText(cpu.PC) THEN cpu.PC ELSE 0)
          /\ (isa'.RUN_BIT <=> InText(PastMEM.PC))
      BY <2>5, NothingInEX
    <3>2. cpu.PC = PastMEM.PC
      BY <2>5, <3>1 DEF FrontInv, Fetching
    <3>3. isa' = PastMEM /\ PastMEM = isa /\ isa.RUN_BIT
      BY <2>5, Leaving DEF PastMEM
    <3>4. InText(cpu.PC) /\ program \in Programs
      BY <3>1, <3>2, <3>3 DEF Going
    <3>5. cpu'.PIPE[0] # 0
      BY <3>1, <3>4, InTextFacts
    <3>. QED BY <3>5
  <2>. QED BY <2>1, <2>2, <2>3, <2>4, <2>5
<1>8. (\E s \in 0..3 : Busy(s))' \/ (~cpu.RUN_BIT)'
  BY <1>7 DEF Busy
<1>. QED BY <1>6, <1>8 DEF PaceInv

\* The end of the one machine is the end of the other.
LEMMA NextHalt ==
    ASSUME Going, ~C2.exited
    PROVE  HaltInv'
<1>0. /\ program \in Programs /\ CpuType
      /\ isa.RUN_BIT /\ isa' = PastMEM /\ IsaType(PastMEM)
  BY Leaving DEF Going, RunningInv
<1>1. ASSUME ~isa'.RUN_BIT
      PROVE  ~cpu'.RUN_BIT /\ cpu'.mem = isa'.mem
  <2>1. Busy(MEM_STAGE)
    BY <1>0, <1>1 DEF PastMEM
  <2>2. ~Busy(EX_STAGE)
    <3>1. ASSUME Busy(EX_STAGE) PROVE FALSE
      <4>1. PastMEM.PC = cpu.PIPE[2] /\ InText(cpu.PIPE[2])
        BY <3>1, <1>0, Executing, StageFacts DEF EX_STAGE
      <4>2. PastMEM.PC \in Values /\ PastMEM.RUN_BIT = ~Outside(program, PastMEM.PC)
        BY <1>0 DEF IsaType
      <4>. QED BY <4>1, <4>2, <1>0, <1>1, OutsideText
    <3>. QED BY <3>1
  <2>3. /\ FrontInv(PastMEM.PC) /\ ~InText(PastMEM.PC) /\ cpu'.mem = PastMEM.mem
        /\ cpu'.PIPE[3] = 0 /\ cpu'.PIPE[2] = cpu.PIPE[1]
        /\ ~Busy(ID_STAGE) => /\ cpu'.PIPE[1] = cpu.PIPE[0]
                              /\ cpu'.PIPE[0] = IF InText(cpu.PC) THEN cpu.PC ELSE 0
    BY <2>2, <1>1, NothingInEX
  <2>4. ~Busy(ID_STAGE)
    <3>1. ASSUME Busy(ID_STAGE) PROVE FALSE
      BY <3>1, <2>3, <1>0, StageFacts DEF FrontInv, ID_STAGE
    <3>. QED BY <3>1
  <2>5. ~Busy(IF_STAGE) /\ cpu.PC = PastMEM.PC
    <3>1. Fetching(PastMEM.PC)
      BY <2>3, <2>4 DEF FrontInv
    <3>2. Busy(IF_STAGE) => InText(cpu.PIPE[0])
      BY <1>0, StageFacts DEF IF_STAGE
    <3>. QED BY <2>3, <3>1, <3>2 DEF Fetching, IF_STAGE
  <2>6. /\ cpu'.PIPE[0] = 0 /\ cpu'.PIPE[1] = 0 /\ cpu'.PIPE[2] = 0 /\ cpu'.PIPE[3] = 0
    BY <2>3, <2>4, <2>5 DEF Busy, ID_STAGE, IF_STAGE
  <2>7. \A s \in 0..3 : cpu'.PIPE[s] = 0
    BY <2>6
  <2>8. ~cpu'.RUN_BIT
    BY <2>1, <2>7, NextCounts
  <2>. QED BY <2>3, <2>8, <1>0
<1>2. ASSUME ~cpu'.RUN_BIT
      PROVE  ~isa'.RUN_BIT \/ cpu'.INSTRUCTION_COUNT >= MAX_INSTRUCTION_NUM
  <2>1. CASE Busy(MEM_STAGE) /\ \A s \in 0..3 : cpu'.PIPE[s] = 0
    <3>1. ~Busy(EX_STAGE)
      BY <2>1, Pasts DEF Busy, EX_STAGE
    <3>2. /\ FrontInv(PastMEM.PC) /\ (isa'.RUN_BIT <=> InText(PastMEM.PC))
          /\ cpu'.PIPE[2] = cpu.PIPE[1]
          /\ ~Busy(ID_STAGE) => /\ cpu'.PIPE[1] = cpu.PIPE[0]
                                /\ cpu'.PIPE[0] = IF InText(cpu.PC) THEN cpu.PC ELSE 0
      BY <3>1, NothingInEX
    <3>3. ~Busy(ID_STAGE)
      BY <2>1, <3>2 DEF Busy, ID_STAGE
    <3>4. ~Busy(IF_STAGE)
      BY <2>1, <3>2, <3>3 DEF Busy, IF_STAGE
    <3>5. cpu.PC = PastMEM.PC
      BY <3>2, <3>3, <3>4 DEF FrontInv, Fetching
    <3>6. ~InText(cpu.PC)
      BY <2>1, <3>2, <3>3, <1>0, InTextFacts
    <3>. QED BY <3>2, <3>5, <3>6
  <2>2. CASE ~(cpu'.INSTRUCTION_COUNT < MAX_INSTRUCTION_NUM)
    <3>1. cpu'.INSTRUCTION_COUNT \in Nat /\ MAX_INSTRUCTION_NUM \in Nat
      BY NextCounts
    <3>. QED BY <2>2, <3>1
  <2>. QED BY <2>1, <2>2, <1>2, NextCounts
<1>. QED BY <1>1, <1>2 DEF HaltInv

\* One cycle, while nothing has been met that the two machines do differently.
LEMMA NextGoing ==
    ASSUME Going
    PROVE  inorder' /\ LockStep' /\ (~cpu'.exited => RunningInv')
<1>1. CASE C2.exited
  <2>1. cpu' = C2
    BY <1>1, CycleStages DEF Going
  <2>. QED BY <1>1, <2>1, Exits
<1>2. CASE ~C2.exited
  <2>1. RegisterInv' /\ LinkInv'
    BY <1>2, NextRegisters
  <2>2. CpuType' /\ IsaInv' /\ MEM_WBInv' /\ EX_MEMInv' /\ ID_EXInv'
    BY <1>2, NextCpuType, NextLatches
  <2>3. PathInv' /\ PaceInv' /\ HaltInv'
    BY <1>2, NextPath, NextPace, NextHalt
  <2>4. inorder'
    BY Leaving
  <2>5. LockStep'
    <3>1. \A r \in REGISTERS \ {LINK} : cpu'.REGS[r] = isa'.REGS[r]
      BY <2>1 DEF RegisterInv
    <3>2. ASSUME \A s \in {ID_STAGE, EX_STAGE, MEM_STAGE} :
                     cpu'.PIPE[s] # 0 => get_inst_info(program', cpu'.PIPE[s]).op # "jal"
          PROVE  cpu'.REGS[LINK] = isa'.REGS[LINK]
      <4>1. ~Links(ID_STAGE)' /\ ~Links(EX_STAGE)' /\ ~Links(MEM_STAGE)'
        BY <3>2 DEF Links, Busy, At
      <4>. QED BY <2>1, <4>1 DEF LinkInv
    <3>. QED BY <2>4, <3>1, <3>2 DEF LockStep
  <2>. QED BY <2>1, <2>2, <2>3, <2>4, <2>5 DEF RunningInv
<1>. QED BY <1>1, <1>2

\* The pipeline is empty when it starts.
LEMMA BootRunning ==
    ASSUME NEW prog \in Programs, NEW mem \in Memories, Boot(prog, mem)
    PROVE  RunningInv
<1>0. program \in Programs /\ program = prog /\ isa = Loaded(mem)
  BY DEF Boot
<1>1. /\ DOMAIN cpu = Fields /\ DOMAIN cpu.PIPE = 0..4
      /\ cpu.PC = MEM_TEXT_START /\ cpu.IF_PC = 0 /\ DOMAIN cpu.REGS = REGISTERS
      /\ \A r \in REGISTERS : cpu.REGS[r] = 0
      /\ cpu.PREDICTION = FALSE /\ cpu.INSTRUCTION_COUNT = 0 /\ cpu.CYCLE_COUNT = 0
      /\ cpu.EX_MEM = NoExecution /\ cpu.MEM_WB = NoResult /\ cpu.HAZARD = FALSE
      /\ cpu.mem = mem /\ cpu.RUN_BIT = TRUE
  BY DEF Boot, Fields
<1>2. \A s \in 0..4 : cpu.PIPE[s] = 0
  BY DEF Boot
<1>3. ~Busy(IF_STAGE) /\ ~Busy(ID_STAGE) /\ ~Busy(EX_STAGE) /\ ~Busy(MEM_STAGE)
  BY <1>2 DEF Busy, IF_STAGE, ID_STAGE, EX_STAGE, MEM_STAGE
<1>4. MEM_TEXT_START \in Values /\ 0 \in Values /\ InText(MEM_TEXT_START)
  <2>1. Len(program) \in Nat /\ Len(program) >= 1
    BY <1>0, ProgramFacts
  <2>2. InText(MEM_TEXT_START)
    BY <2>1, TextFacts DEF InText
  <2>3. MEM_TEXT_START \in Values
    BY <2>2, <1>0, InTextFacts
  <2>4. 0 \in Values
    BY WordFacts DEF Values
  <2>. QED BY <2>2, <2>3, <2>4
<1>5. isa.PC = MEM_TEXT_START /\ isa.REGS = [r \in REGISTERS |-> 0] /\ isa.mem = mem
      /\ isa.RUN_BIT = TRUE
  BY <1>0 DEF Loaded
<1>6. CpuType
  <2>1. cpu.PREDICTION \in BOOLEAN
    BY <1>1
  <2>2. cpu.INSTRUCTION_COUNT \in Nat /\ cpu.CYCLE_COUNT \in Nat
    BY <1>1
  <2>3. \A r \in REGISTERS : cpu.REGS[r] \in Values
    BY <1>1, <1>4
  <2>4. cpu.PC \in Values /\ cpu.IF_PC \in Values
    BY <1>1, <1>4
  <2>. QED BY <1>1, <1>2, <2>1, <2>2, <2>3, <2>4 DEF CpuType
<1>7. IsaInv
  <2>1. isa.REGS \in [REGISTERS -> Values] /\ isa.REGS[0] = 0
    BY <1>4, <1>5, RegisterAssumption
  <2>2. isa.mem \in [Text \cup Data -> 0..(BYTE - 1)]
    BY <1>5, ProgramsAssumption
  <2>3. ~Outside(program, isa.PC)
    BY <1>0, <1>4, <1>5, OutsideText
  <2>. QED BY <1>4, <1>5, <2>1, <2>2, <2>3 DEF IsaInv, IsaType
<1>8. MEM_WBInv /\ EX_MEMInv
  BY <1>1, <1>3 DEF MEM_WBInv, EX_MEMInv
<1>9. ID_EXInv
  BY <1>1, <1>3 DEF ID_EXInv
<1>10. LinkInv /\ RegisterInv
  <2>1. ~JumpsOutOfTurn(cpu, program)
    BY <1>3 DEF JumpsOutOfTurn, Busy, ID_STAGE
  <2>2. cpu.REGS[LINK] = isa.REGS[LINK] /\ RegisterInv
    BY <1>1, <1>5, RegisterAssumption DEF RegisterInv
  <2>. QED BY <2>1, <2>2, <1>3 DEF LinkInv, Links
<1>11. PathInv
  <2>1. PastMEM = isa /\ PastEX = isa
    BY <1>3 DEF PastMEM, PastEX
  <2>2. cpu.MEM_WB.RegWrite = FALSE /\ cpu.EX_MEM.Branch = FALSE
    BY <1>1 DEF NoResult, NoExecution
  <2>3. ExecuteInv
    <3>1. FrontInv(isa.PC)
      BY <1>1, <1>3, <1>4, <1>5 DEF FrontInv, Fetching
    <3>. QED BY <3>1, <2>1, <2>2, <1>3 DEF ExecuteInv, Missed
  <2>. QED BY <2>1, <2>2, <2>3, <1>1, <1>3, <1>5 DEF PathInv, MemoryInv
<1>12. PaceInv /\ HaltInv
  BY <1>1, <1>3, <1>5 DEF PaceInv, HaltInv
<1>. QED BY <1>6, <1>7, <1>8, <1>9, <1>10, <1>11, <1>12 DEF RunningInv

\* MipsInv is inductive: what the pipeline holds is, from the last stage to
\* the first, what the single-step machine does next.
THEOREM PipelineInvariant == MipsSpec => []MipsInv
<1>1. MipsInit => MipsInv
  <2> SUFFICES ASSUME NEW prog \in Programs, NEW mem \in Memories, Boot(prog, mem) PROVE MipsInv
    BY DEF MipsInit
  <2>1. RunningInv /\ program \in Programs /\ inorder
    BY BootRunning DEF Boot
  <2>2. LockStep
    BY <2>1 DEF LockStep, RunningInv, RegisterInv, LinkInv, Links, Busy, At
  <2>. QED BY <2>1, <2>2 DEF MipsInv
<1>2. MipsInv /\ [Cycle]_mips => MipsInv'
  <2> SUFFICES ASSUME MipsInv, [Cycle]_mips PROVE MipsInv'
    OBVIOUS
  <2>1. CASE Cycle
    <3>1. program' = program /\ cpu.exited = FALSE /\ (apart => apart')
      BY <2>1, CycleStages
    <3>2. program' \in Programs
      BY <3>1 DEF MipsInv
    <3>3. ASSUME ~apart' PROVE inorder' /\ LockStep' /\ (~cpu'.exited => RunningInv')
      <4>1. Going
        BY <2>1, <3>1, <3>3 DEF Going, MipsInv
      <4>. QED BY <4>1, NextGoing
    <3>. QED BY <3>2, <3>3 DEF MipsInv
  <2>2. CASE UNCHANGED mips
    <3>1. program' = program /\ cpu' = cpu /\ isa' = isa /\ inorder' = inorder /\ apart' = apart
      BY <2>2 DEF mips
    <3>2. LockStep' <=> LockStep
      BY <3>1 DEF LockStep
    <3>3. /\ CpuType' <=> CpuType
          /\ IsaInv' <=> IsaInv
          /\ RegisterInv' <=> RegisterInv
          /\ LinkInv' <=> LinkInv
      BY <3>1 DEF CpuType, InText, IsaInv, IsaType, RegisterInv, LinkInv, Links, Busy, At
    <3>4. /\ MEM_WBInv' <=> MEM_WBInv
          /\ EX_MEMInv' <=> EX_MEMInv
          /\ ID_EXInv' <=> ID_EXInv
      BY <3>1 DEF MEM_WBInv, EX_MEMInv, ID_EXInv, BranchTarget, Busy, At
    <3>5. PathInv' <=> PathInv
      <4>1. ExecuteInv' <=> ExecuteInv
        BY <3>1 DEF ExecuteInv, BehindInv, FrontInv, Fetching, Missed, Redirects, Target, After,
                    BranchTarget, InText, PastMEM, PastEX, Step, Busy, At
      <4>. QED BY <3>1, <4>1 DEF PathInv, MemoryInv, PastMEM, Step, Busy, At
    <3>6. (PaceInv' <=> PaceInv) /\ (HaltInv' <=> HaltInv)
      BY <3>1 DEF PaceInv, HaltInv, Busy
    <3>7. RunningInv' <=> RunningInv
      BY <3>3, <3>4, <3>5, <3>6 DEF RunningInv
    <3>. QED BY <3>1, <3>2, <3>7 DEF MipsInv
  <2>. QED BY <2>1, <2>2
<1>. QED BY <1>1, <1>2, PTL DEF MipsSpec

\* Stalls, forwards and flushes are invisible, for every program, until it
\* meets one of the differences that `apart' records: the instructions leave
\* in the order of the single-step machine and leave its registers behind.
THEOREM PipelineInLockStep == MipsSpec => []LockStep
<1>1. MipsInv => LockStep
  BY DEF MipsInv, LockStep
<1>. QED BY <1>1, PipelineInvariant, PTL

\* Under the same condition the two machines stop together with the same
\* memory, and the pipeline never takes more than three cycles beyond those
\* of the instructions.
THEOREM PipelineHaltsTogether == MipsSpec => []HaltsTogether
<1>1. MipsInv => HaltsTogether
  <2> SUFFICES ASSUME MipsInv, ~apart, ~cpu.exited PROVE
         /\ ~isa.RUN_BIT => ~cpu.RUN_BIT /\ cpu.mem = isa.mem
         /\ ~cpu.RUN_BIT => ~isa.RUN_BIT \/ cpu.INSTRUCTION_COUNT >= MAX_INSTRUCTION_NUM
         /\ cpu.CYCLE_COUNT <= 4 * cpu.INSTRUCTION_COUNT + 5
    BY DEF HaltsTogether
  <2>1. CpuType /\ PaceInv /\ HaltInv
    BY DEF MipsInv, RunningInv
  <2>2. cpu.CYCLE_COUNT \in Nat /\ cpu.INSTRUCTION_COUNT \in Nat
    BY <2>1 DEF CpuType
  <2>. QED BY <2>1, <2>2 DEF PaceInv, HaltInv
<1>. QED BY <1>1, PipelineInvariant, PTL

-----------------------------------------------------------------------------
(* The cache.  Addresses.                                                  *)

\* The divisor, times the quotient, and the remainder.
LEMMA Division ==
    ASSUME NEW a \in Nat, NEW b \in Nat \ {0}
    PROVE  /\ a \div b \in Nat /\ a % b \in 0..(b - 1)
           /\ a = b * (a \div b) + (a % b)
<1>1. a \div b \in Nat
  OBVIOUS
<1>2. a % b \in 0..(b - 1)
  OBVIOUS
<1>3. a = b * (a \div b) + (a % b)
  OBVIOUS
<1>. QED BY <1>1, <1>2, <1>3

\* A multiple has no remainder.
LEMMA Multiple ==
    ASSUME NEW b \in Nat \ {0}, NEW q \in Nat
    PROVE  /\ b * q \in Nat
           /\ (b * q) \div b = q /\ (b * q) % b = 0
<1> DEFINE d == (b * q) \div b
           r == (b * q) % b
<1>0. b * q \in Nat
  OBVIOUS
<1>1. d \in Nat /\ r \in 0..(b - 1) /\ b * q = b * d + r
  BY <1>0, Division
<1> HIDE DEF d, r
<1>2. b * (q - d) = r
  BY <1>1
<1>3. ASSUME q > d PROVE FALSE
  <2>1. q - d \in Nat /\ q - d >= 1
    BY <1>1, <1>3
  <2> DEFINE k == q - d
  <2>2. \A n \in Nat : n >= 1 => b * n >= b
    OBVIOUS
  <2>3. b * k >= b
    BY <2>1, <2>2
  <2>. QED BY <1>1, <1>2, <2>3
<1>4. ASSUME q < d PROVE FALSE
  <2>1. d - q \in Nat /\ d - q >= 1
    BY <1>1, <1>4
  <2> DEFINE k == d - q
  <2>2. \A n \in Nat : n >= 1 => b * n >= b
    OBVIOUS
  <2>3. b * k >= b
    BY <2>1, <2>2
  <2>4. b * (d - q) = -r
    BY <1>1
  <2>. QED BY <1>1, <2>3, <2>4
<1>5. d = q
  BY <1>1, <1>3, <1>4
<1>6. r = 0
  BY <1>1, <1>2, <1>5
<1>. QED BY <1>0, <1>5, <1>6 DEF d, r

\* The sizes of a cache, and the powers of two an address is divided by.
LEMMA Geometry ==
    /\ num_set \in Nat \ {0} /\ num_way \in Nat \ {0} /\ block_size \in Nat \ {0}
    /\ 2^get_bit(block_size) = block_size /\ 2^get_bit(num_set) \in 1..num_set
<1>1. \A n \in 1..INT_MAX : n \in Nat \ {0}
  <2>1. INT_MAX \in Nat
    BY SMT DEF INT_MAX
  <2>. QED BY <2>1
<1>. QED BY <1>1, GeometryAssumption

\* An address belongs to a set, and so does its block, with the same tag.
LEMMA AddressLemma ==
    ASSUME NEW a \in Nat
    PROVE  /\ Index(a) \in Sets /\ TagOf(a) \in Nat /\ Block(a) \in Nat
           /\ Index(Block(a)) = Index(a) /\ TagOf(Block(a)) = TagOf(a)
           /\ Block(Block(a)) = Block(a)
<1> DEFINE B == 2^get_bit(block_size)
           T == 2^get_bit(num_set)
           q == a \div B
<1>1. B \in Nat \ {0} /\ B = block_size /\ T \in 1..num_set
  BY Geometry
<1> HIDE DEF B, T
<1>2. q \in Nat /\ a % B \in 0..(B - 1) /\ a = B * q + (a % B)
  BY <1>1, Division
<1> HIDE DEF q
<1>3. q % T \in 0..(T - 1) /\ q \div T \in Nat /\ T <= num_set /\ num_set \in Nat
  <2>1. T \in Nat \ {0} /\ T <= num_set /\ num_set \in Nat
    BY <1>1, Geometry
  <2>. QED BY <1>2, <2>1, Division
<1>4. Index(a) = q % T /\ TagOf(a) = q \div T /\ Block(a) = a - (a % B)
  BY <1>1 DEF Index, TagOf, Block, q, B, T
<1>5. Block(a) = B * q /\ Block(a) \in Nat
  BY <1>1, <1>2, <1>4
<1>6. Block(a) \div B = q /\ Block(a) % B = 0
  <2>1. (B * q) \div B = q /\ (B * q) % B = 0
    BY <1>1, <1>2, Multiple
  <2>. QED BY <2>1, <1>5
<1>7. Index(Block(a)) = q % T /\ TagOf(Block(a)) = q \div T
      /\ Block(Block(a)) = Block(a) - (Block(a) % B)
  BY <1>1, <1>6 DEF Index, TagOf, Block, B, T
<1>8. q % T \in Sets
  BY <1>1, <1>3 DEF Sets
<1>. QED BY <1>3, <1>4, <1>5, <1>6, <1>7, <1>8

\* Two addresses of one set with one tag are in one block.
LEMMA SameBlock ==
    ASSUME NEW a \in Nat, NEW c \in Nat, Index(a) = Index(c), TagOf(a) = TagOf(c)
    PROVE  Block(a) = Block(c)
<1> DEFINE B == 2^get_bit(block_size)
           T == 2^get_bit(num_set)
           q == a \div B
           r == c \div B
<1>1. B \in Nat \ {0} /\ B = block_size /\ T \in Nat \ {0}
  BY Geometry
<1>2. q % T = r % T /\ q \div T = r \div T
      /\ Block(a) = a - (a % B) /\ Block(c) = c - (c % B)
  BY <1>1 DEF Index, TagOf, Block
<1> HIDE DEF B, T
<1>3. /\ q \in Nat /\ a % B \in 0..(B - 1) /\ a = B * q + (a % B)
      /\ r \in Nat /\ c % B \in 0..(B - 1) /\ c = B * r + (c % B)
  BY <1>1, Division
<1> HIDE DEF q, r
<1>4. q = T * (q \div T) + (q % T) /\ r = T * (r \div T) + (r % T)
  BY <1>1, <1>3, Division
<1>5. q = r
  BY <1>2, <1>4
<1>6. a - (a % B) = B * q /\ c - (c % B) = B * r
  <2> DEFINE m == a % B
             n == c % B
             x == B * q
             y == B * r
  <2>1. m \in Int /\ n \in Int /\ x \in Int /\ y \in Int /\ a = x + m /\ c = y + n
    BY <1>1, <1>3
  <2> HIDE DEF m, n, x, y
  <2>2. a - m = x /\ c - n = y
    BY <2>1
  <2>. QED BY <2>2 DEF m, n, x, y
<1>. QED BY <1>2, <1>3, <1>5, <1>6

-----------------------------------------------------------------------------
(* The ways of a set.                                                      *)

Valid(set) == {w \in Ways : set[w].valid}

\* Each line of a set has a block of its own.
Apart(set) == \A v, w \in Valid(set) : v # w => set[v].data # set[w].data

\* There is a way.
LEMMA WaysLemma ==
    /\ Ways \in SUBSET Nat /\ 0 \in Ways
    /\ IsFiniteSet(Ways) /\ Cardinality(Ways) = num_way /\ num_way \in Nat
<1>1. num_way \in Nat \ {0}
  BY Geometry
<1>2. IsFiniteSet(Ways) /\ Cardinality(Ways) = num_way
  <2>1. num_way - 1 \in Int /\ ~(0 > num_way - 1) /\ num_way - 1 - 0 + 1 = num_way
    BY <1>1
  <2>. QED BY <2>1, FS_Interval DEF Ways
<1>. QED BY <1>1, <1>2 DEF Ways

\* A set has as many blocks as valid lines, and is full with num_way of them.
LEMMA Counting ==
    ASSUME NEW set \in [Ways -> Line], Apart(set)
    PROVE  /\ Cardinality(Valid(set)) = Cardinality(Contents(set))
           /\ Cardinality(Contents(set)) < num_way <=> \E w \in Ways : ~set[w].valid
<1> DEFINE f == [w \in Valid(set) |-> set[w].data]
<1>1. Contents(set) = {set[w].data : w \in Valid(set)}
  BY DEF Contents, Valid
<1>2. f \in Bijection(Valid(set), Contents(set))
  BY <1>1 DEF Apart, Bijection, Injection, Surjection, IsInjective
<1>3. ExistsBijection(Valid(set), Contents(set))
  BY <1>2 DEF ExistsBijection
<1>4. Valid(set) \in SUBSET Ways
  BY DEF Valid
<1>5. /\ IsFiniteSet(Valid(set)) /\ Cardinality(Valid(set)) <= num_way
      /\ num_way = Cardinality(Valid(set)) => Ways = Valid(set)
  BY <1>4, WaysLemma, FS_Subset
<1>6. Cardinality(Valid(set)) = Cardinality(Contents(set))
  BY <1>3, <1>5, FS_Bijection
<1>7. Cardinality(Valid(set)) \in Nat
  BY <1>5, FS_CardinalityType
<1>8. Valid(set) = Ways <=> Cardinality(Valid(set)) = num_way
  BY <1>5, WaysLemma
<1>9. Valid(set) # Ways <=> \E w \in Ways : ~set[w].valid
  BY DEF Valid
<1>. QED BY <1>5, <1>6, <1>7, <1>8, <1>9, WaysLemma

\* A line that an access does not end in is one access older.
Older(old, new) ==
    /\ new \in Line /\ new.valid = old.valid /\ new.dirty = old.dirty
    /\ new.tag = old.tag /\ new.data = old.data /\ new.freq = old.freq
    /\ old.valid => new.time = old.time + 1

\* Every access ages the set.
LEMMA AgeLemma ==
    ASSUME NEW set \in [Ways -> Line], NEW hit
    PROVE  /\ Age(set, hit) \in [Ways -> Line]
           /\ \A w \in Ways : Older(set[w], Age(set, hit)[w])
<1>1. ASSUME NEW w \in Ways
      PROVE  Older(set[w], Age(set, hit)[w])
  <2>1. set[w] \in Line
    OBVIOUS
  <2>2. Age(set, hit)[w] = IF set[w].valid THEN [set[w] EXCEPT !.time = @ + 1] ELSE set[w]
    BY DEF Age
  <2>. QED BY <2>1, <2>2 DEF Older, Line
<1>2. Age(set, hit) \in [Ways -> Line]
  <2>1. Age(set, hit) = [w \in Ways |-> Age(set, hit)[w]]
    BY DEF Age
  <2>. QED BY <1>1, <2>1 DEF Older
<1>. QED BY <1>1, <1>2

\* The way an access ends in is the first one that is ready.
LEMMA PlaceLemma ==
    ASSUME NEW set, NEW tag, NEW w \in Ways, ~set[w].valid \/ set[w].tag = tag,
           \A v \in Ways : v < w => set[v].valid /\ set[v].tag # tag
    PROVE  Place(set, tag) = w
<1> DEFINE ready == {v \in Ways : ~set[v].valid \/ set[v].tag = tag}
<1>1. w \in ready
  OBVIOUS
<1>2. \A v \in ready : w <= v
  BY WaysLemma
<1>3. \A x \in ready : (\A v \in ready : x <= v) => x = w
  BY <1>1, <1>2, WaysLemma
<1>4. (CHOOSE x \in ready : \A v \in ready : x <= v) = w
  BY <1>1, <1>2, <1>3
<1>. QED BY <1>1, <1>4 DEF Place

-----------------------------------------------------------------------------
(* The line that leaves a full set.                                        *)

\* v leaves before w.
Sooner(set, v, w) ==
    IF lru_only_flag \/ set[v].freq = set[w].freq THEN set[v].time > set[w].time
    ELSE set[v].freq < set[w].freq

\* The ages of the lines of a full set differ: one of them leaves first.
LEMMA EvictedLemma ==
    ASSUME NEW set \in [Ways -> Line], NEW last \in [Ways -> Nat],
           \A v, w \in Ways : v # w =>
               /\ set[v].time # set[w].time
               /\ set[v].time > set[w].time <=> last[v] < last[w]
    PROVE  /\ Evicted(set) \in Ways
           /\ \A w \in Ways \ {Evicted(set)} : Sooner(set, Evicted(set), w)
<1> DEFINE before(v, w) ==
        IF lru_only_flag \/ set[v].freq = set[w].freq
        THEN set[v].time > set[w].time \/ (set[v].time = set[w].time /\ v < w)
        ELSE set[v].freq < set[w].freq
<1>1. \A v, w \in Ways : v # w => (before(v, w) <=> Sooner(set, v, w))
  BY DEF Sooner
<1>2. \A w \in Ways : set[w].freq \in Nat /\ set[w].time \in Nat
  BY DEF Line
<1>3. \E v \in Ways : \A w \in Ways \ {v} : Sooner(set, v, w)
  <2> DEFINE F == {set[w].freq : w \in Ways}
  <2>1. F \in SUBSET Nat /\ F # {}
    BY <1>2, WaysLemma
  <2>2. PICK m \in F : \A n \in F : m <= n
    BY <2>1, LeastElement
  <2> DEFINE Rare == {w \in Ways : lru_only_flag \/ set[w].freq = m}
             L == {last[w] : w \in Rare}
  <2>3. L \in SUBSET Nat /\ L # {}
    BY <2>2
  <2>4. PICK l \in L : \A k \in L : l <= k
    BY <2>3, LeastElement
  <2>5. PICK v \in Rare : last[v] = l
    BY <2>4
  <2>6. \A w \in Rare \ {v} : last[v] <= last[w]
    BY <2>4, <2>5
  <2>7. ASSUME NEW w \in Ways \ {v} PROVE Sooner(set, v, w)
    <3>1. w \in Rare => set[v].time > set[w].time
      <4>1. ASSUME w \in Rare PROVE ~(set[w].time > set[v].time)
        BY <2>6, <4>1
      <4>. QED BY <4>1, <1>2
    <3>2. w \notin Rare => ~lru_only_flag /\ set[v].freq = m /\ m < set[w].freq
      BY <1>2, <2>2
    <3>3. w \in Rare /\ ~lru_only_flag => set[v].freq = set[w].freq
      OBVIOUS
    <3>4. w \notin Rare => set[v].freq # set[w].freq
      BY <3>2, <1>2
    <3>. QED BY <3>1, <3>2, <3>3, <3>4 DEF Sooner
  <2>. QED BY <2>7
<1>4. \E v \in Ways : \A w \in Ways \ {v} : before(v, w)
  BY <1>1, <1>3
<1>5. /\ Evicted(set) \in Ways
      /\ \A w \in Ways \ {Evicted(set)} : before(Evicted(set), w)
  BY <1>4 DEF Evicted
<1>. QED BY <1>1, <1>5

-----------------------------------------------------------------------------
(* What an access does to a set and to what the policy keeps of it.        *)

\* The block of a is worth less to the policy than that of b.
Worse(p, a, b) ==
    IF lru_only_flag \/ p[a].uses = p[b].uses THEN p[a].last < p[b].last
    ELSE p[a].uses < p[b].uses

Leaves(p, block) ==
    IF block \in DOMAIN p \/ Cardinality(DOMAIN p) < num_way THEN {}
    ELSE {a \in DOMAIN p : \A b \in DOMAIN p \ {a} : Worse(p, a, b)}

\* What the policy keeps after an access to a block.
LEMMA KeptLemma ==
    ASSUME NEW p, NEW block
    PROVE  /\ DOMAIN Kept(p, block) = (DOMAIN p \ Leaves(p, block)) \cup {block}
           /\ \A b \in DOMAIN Kept(p, block) \ {block} : Kept(p, block)[b] = p[b]
           /\ Kept(p, block)[block] =
                [uses |-> 1 + (IF block \in DOMAIN p THEN p[block].uses ELSE 0), last |-> Total]
<1>1. Kept(p, block) =
        [b \in (DOMAIN p \ Leaves(p, block)) \cup {block} |->
            IF b # block THEN p[b]
            ELSE [uses |-> 1 + (IF b \in DOMAIN p THEN p[b].uses ELSE 0), last |-> Total]]
  BY DEF Kept, Leaves, Worse
<1> HIDE DEF Leaves
<1>. QED BY <1>1

\* The set after an access that ends in way w: the other lines are older.
Touched(set, new, w, block) ==
    /\ \A v \in Ways \ {w} : Older(set[v], new[v])
    /\ new[w] \in Line /\ new[w].valid /\ new[w].data = block
    /\ new[w].tag = TagOf(block) /\ new[w].time = 0

\* Such a set, with no other line of the block, is filled in order.
LEMMA PlacedLemma ==
    ASSUME NEW s, NEW set, NEW new, NEW w \in Ways, NEW block,
           Placed(s, set), Touched(set, new, w, block),
           Index(block) = s, Block(block) = block,
           \A v \in Ways : v < w => set[v].valid
    PROVE  Placed(s, new)
<1>1. \A v \in Ways \ {w} : Older(set[v], new[v])
  BY DEF Touched
<1>2. ASSUME NEW u \in Ways, NEW v \in Ways, u < v, new[v].valid PROVE new[u].valid
  <2>1. CASE u = w
    BY <2>1 DEF Touched
  <2>2. CASE u # w
    <3>1. set[u].valid
      <4>1. CASE v = w
        BY <1>2, <4>1
      <4>2. CASE v # w
        BY <1>1, <1>2, <4>2 DEF Older, Placed
      <4>. QED BY <4>1, <4>2
    <3>. QED BY <1>1, <2>2, <3>1 DEF Older
  <2>. QED BY <2>1, <2>2
<1>3. ASSUME NEW v \in Ways, new[v].dirty PROVE new[v].valid
  BY <1>1, <1>3 DEF Older, Placed, Touched
<1>4. ASSUME NEW v \in Ways, new[v].valid
      PROVE  /\ Index(new[v].data) = s /\ TagOf(new[v].data) = new[v].tag
             /\ Block(new[v].data) = new[v].data
  <2>1. CASE v = w
    BY <2>1 DEF Touched
  <2>2. CASE v # w
    BY <1>1, <1>4, <2>2 DEF Older, Placed
  <2>. QED BY <2>1, <2>2
<1>. QED BY <1>2, <1>3, <1>4 DEF Placed

\* It matches a policy that counts the access, and is the same elsewhere.
LEMMA MatchesLemma ==
    ASSUME NEW set \in [Ways -> Line], NEW new, NEW w \in Ways, NEW block, NEW p, NEW q,
           NEW total \in Nat, Matches(set, p, total), Touched(set, new, w, block),
           \A v \in Ways \ {w} : set[v].valid => set[v].data # block,
           DOMAIN q = Contents(new),
           \A b \in DOMAIN q \ {block} : q[b] = p[b],
           q[block] = [uses |-> new[w].freq, last |-> total]
    PROVE  Matches(new, q, total + 1)
<1>1. \A v \in Ways \ {w} : Older(set[v], new[v])
  BY DEF Touched
<1>2. /\ new[w] \in Line /\ new[w].valid /\ new[w].data = block /\ new[w].time = 0
      /\ q[block] \in Use /\ q[block].uses = new[w].freq /\ q[block].last = total
  BY DEF Touched, Line, Use
<1>3. ASSUME NEW v \in Ways \ {w}, new[v].valid
      PROVE  /\ set[v].valid /\ new[v].data = set[v].data /\ new[v].data # block
             /\ new[v].time = set[v].time + 1 /\ set[v].time \in Nat
             /\ q[new[v].data] = p[set[v].data] /\ p[set[v].data] \in Use
             /\ p[set[v].data].uses = new[v].freq
             /\ p[set[v].data].last < total /\ p[set[v].data].last \in Nat
  <2>1. /\ set[v].valid /\ new[v].data = set[v].data /\ new[v].freq = set[v].freq
        /\ new[v].time = set[v].time + 1 /\ set[v].time \in Nat
    BY <1>1, <1>3 DEF Older, Line
  <2>2. new[v].data \in DOMAIN q
    BY <1>3 DEF Contents
  <2>3. /\ p[set[v].data] \in Use /\ p[set[v].data].uses = set[v].freq
        /\ p[set[v].data].last < total
    BY <2>1 DEF Matches
  <2>. QED BY <2>1, <2>2, <2>3 DEF Use
<1>4. ASSUME NEW v \in Ways, new[v].valid
      PROVE  /\ q[new[v].data] \in Use /\ q[new[v].data].uses = new[v].freq
             /\ q[new[v].data].last < total + 1
  BY <1>2, <1>3, <1>4
<1>5. ASSUME NEW u \in Ways, NEW v \in Ways, u # v, new[u].valid, new[v].valid
      PROVE  /\ new[u].data # new[v].data
             /\ new[u].time > new[v].time <=> q[new[u].data].last < q[new[v].data].last
             /\ new[u].time # new[v].time
  <2>1. CASE u = w
    BY <1>2, <1>3, <1>5, <2>1
  <2>2. CASE v = w
    BY <1>2, <1>3, <1>5, <2>2
  <2>3. CASE u # w /\ v # w
    <3>1. set[u].valid /\ set[v].valid
      BY <1>3, <1>5, <2>3
    <3>2. /\ set[u].data # set[v].data
          /\ set[u].time > set[v].time <=> p[set[u].data].last < p[set[v].data].last
          /\ set[u].time # set[v].time
      BY <1>5, <3>1 DEF Matches
    <3>. QED BY <1>3, <1>5, <2>3, <3>2
  <2>. QED BY <2>1, <2>2, <2>3
<1>. QED BY <1>4, <1>5 DEF Matches

-----------------------------------------------------------------------------
(* The way an access ends in, and the block that leaves.                   *)

Found(set, addr) == \E w \in Ways : set[w].valid /\ set[w].tag = TagOf(addr)
End(set, addr) == Place(Age(set, Found(set, addr)), TagOf(addr))

\* In its set, a block is found by its tag.
LEMMA TagLemma ==
    ASSUME NEW addr \in Nat, NEW set \in [Ways -> Line], Placed(Index(addr), set),
           NEW w \in Ways, set[w].valid
    PROVE  set[w].tag = TagOf(addr) <=> set[w].data = Block(addr)
<1>1. set[w].data \in Nat
  BY DEF Line
<1>2. /\ Index(set[w].data) = Index(addr) /\ TagOf(set[w].data) = set[w].tag
      /\ Block(set[w].data) = set[w].data
  BY DEF Placed
<1>3. TagOf(Block(addr)) = TagOf(addr)
  BY AddressLemma
<1>4. ASSUME set[w].tag = TagOf(addr) PROVE set[w].data = Block(addr)
  BY <1>1, <1>2, <1>4, SameBlock
<1>. QED BY <1>2, <1>3, <1>4

\* A block that is found is in the way the access ends in.
LEMMA HitLemma ==
    ASSUME NEW addr \in Nat, NEW set \in [Ways -> Line], NEW p, NEW total,
           SetInv(Index(addr), set, p, total), Found(set, addr)
    PROVE  /\ End(set, addr) \in Ways /\ set[End(set, addr)].valid
           /\ set[End(set, addr)].data = Block(addr)
           /\ set[End(set, addr)].tag = TagOf(addr)
           /\ \A v \in Ways \ {End(set, addr)} : set[v].valid => set[v].data # Block(addr)
<1> DEFINE aged == Age(set, Found(set, addr))
<1>1. PICK w \in Ways : set[w].valid /\ set[w].tag = TagOf(addr)
  BY DEF Found
<1>2. Placed(Index(addr), set) /\ Matches(set, p, total)
  BY DEF SetInv
<1>3. set[w].data = Block(addr)
  BY <1>1, <1>2, TagLemma
<1>4. \A v \in Ways \ {w} : set[v].valid => set[v].data # Block(addr)
  BY <1>1, <1>2, <1>3 DEF Matches
<1>5. \A v \in Ways : Older(set[v], aged[v])
  BY AgeLemma
<1> HIDE DEF aged
<1>6. ASSUME NEW v \in Ways, v < w PROVE aged[v].valid /\ aged[v].tag # TagOf(addr)
  <2>1. set[v].valid
    BY <1>1, <1>2, <1>6 DEF Placed
  <2>2. v # w
    BY <1>6, WaysLemma
  <2>3. set[v].tag # TagOf(addr)
    BY <1>2, <1>4, <2>1, <2>2, TagLemma
  <2>. QED BY <1>5, <2>1, <2>3 DEF Older
<1>7. aged[w].tag = TagOf(addr)
  BY <1>1, <1>5 DEF Older
<1>8. End(set, addr) = w
  <2>1. Place(aged, TagOf(addr)) = w
    BY <1>6, <1>7, PlaceLemma
  <2>. QED BY <2>1 DEF End, aged
<1>. QED BY <1>1, <1>3, <1>4, <1>8

\* Otherwise it is the first empty way, if there is one.
LEMMA FreeLemma ==
    ASSUME NEW addr \in Nat, NEW set \in [Ways -> Line],
           ~Found(set, addr), \E w \in Ways : ~set[w].valid
    PROVE  /\ End(set, addr) \in Ways /\ ~set[End(set, addr)].valid
           /\ \A v \in Ways : v < End(set, addr) => set[v].valid
<1> DEFINE aged == Age(set, Found(set, addr))
           Free == {w \in Ways : ~set[w].valid}
<1>1. Free \in SUBSET Nat /\ Free # {}
  BY WaysLemma
<1>2. PICK w \in Free : \A v \in Free : w <= v
  BY <1>1, LeastElement
<1>3. \A v \in Ways : Older(set[v], aged[v])
  BY AgeLemma
<1> HIDE DEF aged
<1>4. \A v \in Ways : v < w => set[v].valid
  BY <1>2, WaysLemma
<1>5. \A v \in Ways : v < w => aged[v].valid /\ aged[v].tag # TagOf(addr)
  BY <1>3, <1>4 DEF Older, Found
<1>6. ~aged[w].valid
  BY <1>2, <1>3 DEF Older
<1>7. End(set, addr) = w
  BY <1>2, <1>5, <1>6, PlaceLemma DEF End, aged
<1>. QED BY <1>2, <1>4, <1>7

\* In a full set it is the way of the block that leaves.
LEMMA FullLemma ==
    ASSUME NEW addr \in Nat, NEW set \in [Ways -> Line], NEW p, NEW total \in Nat,
           SetInv(Index(addr), set, p, total),
           ~Found(set, addr), \A w \in Ways : set[w].valid
    PROVE  /\ End(set, addr) \in Ways
           /\ \A v \in Ways \ {End(set, addr)} :
                Worse(p, set[End(set, addr)].data, set[v].data)
<1> DEFINE aged == Age(set, Found(set, addr))
           last == [w \in Ways |-> p[set[w].data].last]
           e == Evicted(aged)
<1>1. aged \in [Ways -> Line] /\ \A v \in Ways : Older(set[v], aged[v])
  BY AgeLemma
<1> HIDE DEF aged
<1>2. \A w \in Ways :
        /\ p[set[w].data] \in Use /\ p[set[w].data].uses = set[w].freq
        /\ aged[w].time = set[w].time + 1 /\ set[w].time \in Nat /\ aged[w].freq = set[w].freq
        /\ aged[w].valid /\ aged[w].tag # TagOf(addr)
  BY <1>1 DEF SetInv, Matches, Older, Line, Found
<1>3. last \in [Ways -> Nat]
  BY <1>2 DEF Use
<1>4. ASSUME NEW v \in Ways, NEW w \in Ways, v # w
      PROVE  /\ aged[v].time # aged[w].time
             /\ aged[v].time > aged[w].time <=> last[v] < last[w]
  <2>1. /\ set[v].time # set[w].time
        /\ set[v].time > set[w].time <=> p[set[v].data].last < p[set[w].data].last
    BY <1>4 DEF SetInv, Matches
  <2>. QED BY <1>2, <2>1
<1>5. e \in Ways /\ \A w \in Ways \ {e} : Sooner(aged, e, w)
  BY <1>1, <1>3, <1>4, EvictedLemma
<1> HIDE DEF e
<1>6. ASSUME NEW v \in Ways, NEW w \in Ways, v # w, Sooner(aged, v, w)
      PROVE  Worse(p, set[v].data, set[w].data)
  BY <1>2, <1>4, <1>6 DEF Sooner, Worse
<1>7. End(set, addr) = e
  BY <1>2 DEF End, Place, e, aged
<1>. QED BY <1>5, <1>6, <1>7

-----------------------------------------------------------------------------
(* An access to a set.                                                     *)

\* The set after an access.
Accessed(set, op, addr) ==
    [Age(set, Found(set, addr)) EXCEPT ![End(set, addr)] =
        IF Found(set, addr) THEN Hit(Age(set, Found(set, addr))[End(set, addr)], op)
        ELSE Fetched(op, addr)]

\* The fields of a line that is hit.
LEMMA HitLine ==
    ASSUME NEW line \in Line, NEW op
    PROVE  /\ Hit(line, op) \in Line
           /\ Hit(line, op).valid = line.valid /\ Hit(line, op).dirty = (line.dirty \/ op = "W")
           /\ Hit(line, op).tag = line.tag /\ Hit(line, op).data = line.data
           /\ Hit(line, op).time = 0 /\ Hit(line, op).freq = line.freq + 1
<1> DEFINE d == line.dirty \/ op = "W"
<1>1. d \in BOOLEAN /\ line.freq + 1 \in Nat
  BY DEF Line
<1>2. Hit(line, op) = [line EXCEPT !.dirty = d, !.time = 0, !.freq = line.freq + 1]
  BY DEF Hit
<1> HIDE DEF d
<1>3. Hit(line, op).valid = line.valid /\ Hit(line, op).dirty = d
  BY <1>1, <1>2 DEF Line
<1>4. Hit(line, op).tag = line.tag /\ Hit(line, op).data = line.data
  BY <1>1, <1>2 DEF Line
<1>5. Hit(line, op).time = 0 /\ Hit(line, op).freq = line.freq + 1
  BY <1>1, <1>2 DEF Line
<1>6. Hit(line, op) \in Line
  <2> DEFINE soiled == [line EXCEPT !.dirty = d]
             used == [soiled EXCEPT !.time = 0]
  <2>1. soiled \in Line /\ soiled.freq = line.freq
    BY <1>1 DEF Line
  <2> HIDE DEF soiled
  <2>2. used \in Line /\ used.freq = line.freq
    BY <2>1 DEF Line
  <2> HIDE DEF used
  <2>3. [used EXCEPT !.freq = line.freq + 1] \in Line
    BY <1>1, <2>2 DEF Line
  <2>4. Hit(line, op) = [used EXCEPT !.freq = line.freq + 1]
    BY <1>2 DEF used, soiled
  <2>. QED BY <2>3, <2>4
<1>. QED BY <1>3, <1>4, <1>5, <1>6 DEF d

\* The fields of a line that is fetched.
LEMMA FetchedLine ==
    ASSUME NEW op, NEW addr \in Nat
    PROVE  /\ Fetched(op, addr) \in Line
           /\ Fetched(op, addr).valid /\ (Fetched(op, addr).dirty <=> op = "W")
           /\ Fetched(op, addr).tag = TagOf(addr) /\ Fetched(op, addr).data = Block(addr)
           /\ Fetched(op, addr).time = 0 /\ Fetched(op, addr).freq = 1
<1> DEFINE d == op = "W"
<1>1. d \in BOOLEAN /\ TagOf(addr) \in Nat /\ Block(addr) \in Nat
  BY AddressLemma
<1>2. Fetched(op, addr) = [valid |-> TRUE, dirty |-> d, tag |-> TagOf(addr),
                           data |-> Block(addr), time |-> 0, freq |-> 1]
  BY DEF Fetched
<1> HIDE DEF d
<1>3. /\ Fetched(op, addr) \in Line
      /\ Fetched(op, addr).valid /\ Fetched(op, addr).dirty = d
      /\ Fetched(op, addr).tag = TagOf(addr) /\ Fetched(op, addr).data = Block(addr)
      /\ Fetched(op, addr).time = 0 /\ Fetched(op, addr).freq = 1
  BY <1>1, <1>2 DEF Line
<1>. QED BY <1>3 DEF d

\* What an access leaves in the way it ends in.
LEMMA AfterLemma ==
    ASSUME NEW op, NEW addr \in Nat, NEW set \in [Ways -> Line], NEW w \in Ways,
           End(set, addr) = w,
           Found(set, addr) => /\ set[w].valid /\ set[w].data = Block(addr)
                               /\ set[w].tag = TagOf(addr)
    PROVE  /\ Accessed(set, op, addr) \in [Ways -> Line]
           /\ Touched(set, Accessed(set, op, addr), w, Block(addr))
           /\ Found(set, addr) => /\ Accessed(set, op, addr)[w].freq = set[w].freq + 1
                                  /\ (Accessed(set, op, addr)[w].dirty <=> set[w].dirty \/ op = "W")
           /\ ~Found(set, addr) => /\ Accessed(set, op, addr)[w].freq = 1
                                   /\ (Accessed(set, op, addr)[w].dirty <=> op = "W")
<1> DEFINE aged == Age(set, Found(set, addr))
           new == Accessed(set, op, addr)
<1>1. aged \in [Ways -> Line] /\ \A v \in Ways : Older(set[v], aged[v])
  BY AgeLemma
<1>2. new = [aged EXCEPT ![w] = IF Found(set, addr) THEN Hit(aged[w], op) ELSE Fetched(op, addr)]
  BY DEF Accessed
<1> HIDE DEF aged, new
<1>3. aged[w] \in Line
  BY <1>1
<1>4. \A v \in Ways \ {w} : new[v] = aged[v]
  BY <1>1, <1>2
<1>5. new[w] = IF Found(set, addr) THEN Hit(aged[w], op) ELSE Fetched(op, addr)
  BY <1>1, <1>2
<1>6. new[w] \in Line
  BY <1>3, <1>5, HitLine, FetchedLine
<1>7. new \in [Ways -> Line]
  BY <1>1, <1>2, <1>6
<1>8. new[w].time = 0
  BY <1>3, <1>5, HitLine, FetchedLine
<1>9. /\ aged[w].valid = set[w].valid /\ aged[w].dirty = set[w].dirty
      /\ aged[w].tag = set[w].tag /\ aged[w].data = set[w].data /\ aged[w].freq = set[w].freq
  BY <1>1 DEF Older
<1>10. TagOf(Block(addr)) = TagOf(addr)
  BY AddressLemma
<1>11. CASE Found(set, addr)
  <2>1. /\ new[w].valid = aged[w].valid /\ new[w].dirty = (aged[w].dirty \/ op = "W")
        /\ new[w].tag = aged[w].tag /\ new[w].data = aged[w].data
        /\ new[w].freq = aged[w].freq + 1
    BY <1>3, <1>5, <1>11, HitLine
  <2>2. Touched(set, new, w, Block(addr))
    BY <1>1, <1>4, <1>6, <1>8, <1>9, <1>10, <1>11, <2>1 DEF Touched
  <2>. QED BY <1>7, <1>9, <1>11, <2>1, <2>2 DEF new
<1>12. CASE ~Found(set, addr)
  <2>1. /\ new[w].valid /\ (new[w].dirty <=> op = "W") /\ new[w].tag = TagOf(addr)
        /\ new[w].data = Block(addr) /\ new[w].freq = 1
    <3>1. new[w] = Fetched(op, addr)
      BY <1>5, <1>12
    <3>2. /\ Fetched(op, addr).valid /\ (Fetched(op, addr).dirty <=> op = "W")
          /\ Fetched(op, addr).tag = TagOf(addr) /\ Fetched(op, addr).data = Block(addr)
          /\ Fetched(op, addr).freq = 1
      BY FetchedLine
    <3>. QED BY <3>1, <3>2
  <2>2. Touched(set, new, w, Block(addr))
    BY <1>1, <1>4, <1>6, <1>8, <1>10, <2>1 DEF Touched
  <2>. QED BY <1>7, <1>12, <2>1, <2>2 DEF new
<1>. QED BY <1>11, <1>12

\* Where an access ends: in order, and never beside another line of its block.
LEMMA EndLemma ==
    ASSUME NEW addr \in Nat, NEW set \in [Ways -> Line], NEW p, NEW total \in Nat,
           SetInv(Index(addr), set, p, total)
    PROVE  /\ End(set, addr) \in Ways
           /\ \A v \in Ways : v < End(set, addr) => set[v].valid
           /\ \A v \in Ways \ {End(set, addr)} : set[v].valid => set[v].data # Block(addr)
           /\ Found(set, addr) <=> Block(addr) \in Contents(set)
<1>1. Placed(Index(addr), set)
  BY DEF SetInv
<1>2. ASSUME ~Found(set, addr), NEW v \in Ways, set[v].valid PROVE set[v].data # Block(addr)
  BY <1>1, <1>2, TagLemma DEF Found
<1>3. Found(set, addr) <=> Block(addr) \in Contents(set)
  <2>1. CASE Found(set, addr)
    BY <2>1, HitLemma DEF Contents
  <2>2. CASE ~Found(set, addr)
    BY <1>2, <2>2 DEF Contents
  <2>. QED BY <2>1, <2>2
<1>4. CASE Found(set, addr)
  <2>1. /\ End(set, addr) \in Ways /\ set[End(set, addr)].valid
        /\ \A v \in Ways \ {End(set, addr)} : set[v].valid => set[v].data # Block(addr)
    BY <1>4, HitLemma
  <2>2. \A v \in Ways : v < End(set, addr) => set[v].valid
    BY <1>1, <2>1 DEF Placed
  <2>. QED BY <1>3, <2>1, <2>2
<1>5. CASE ~Found(set, addr) /\ \E w \in Ways : ~set[w].valid
  BY <1>2, <1>3, <1>5, FreeLemma
<1>6. CASE ~Found(set, addr) /\ \A w \in Ways : set[w].valid
  <2>1. End(set, addr) \in Ways
    BY <1>6, FullLemma
  <2>. QED BY <1>2, <1>3, <1>6, <2>1
<1>. QED BY <1>4, <1>5, <1>6

\* The block that leaves is the one in the way the access ends in.
LEMMA LeavesLemma ==
    ASSUME NEW addr \in Nat, NEW set \in [Ways -> Line], NEW p, NEW total \in Nat,
           SetInv(Index(addr), set, p, total)
    PROVE  Leaves(p, Block(addr)) =
               IF ~Found(set, addr) /\ set[End(set, addr)].valid
               THEN {set[End(set, addr)].data} ELSE {}
<1> DEFINE w == End(set, addr)
           block == Block(addr)
<1>1. /\ w \in Ways /\ (Found(set, addr) <=> block \in Contents(set))
      /\ \A v \in Ways : v < w => set[v].valid
  BY EndLemma
<1>2. DOMAIN p = Contents(set)
  BY DEF SetInv, Matches
<1>3. Apart(set)
  BY DEF SetInv, Matches, Apart, Valid
<1>4. Cardinality(DOMAIN p) < num_way <=> \E v \in Ways : ~set[v].valid
  BY <1>2, <1>3, Counting
<1> HIDE DEF block
<1>5. CASE Found(set, addr)
  BY <1>1, <1>2, <1>5 DEF Leaves, block
<1>6. CASE ~Found(set, addr) /\ \E v \in Ways : ~set[v].valid
  <2>1. ~set[w].valid
    BY <1>6, FreeLemma
  <2>2. Leaves(p, block) = {}
    BY <1>4, <1>6 DEF Leaves
  <2>. QED BY <2>1, <2>2 DEF block
<1>7. CASE ~Found(set, addr) /\ \A v \in Ways : set[v].valid
  <2> DEFINE d == set[w].data
  <2>1. \A v \in Ways \ {w} : Worse(p, d, set[v].data)
    BY <1>7, FullLemma
  <2>2. DOMAIN p = {set[v].data : v \in Ways}
    BY <1>2, <1>7 DEF Contents
  <2>3. Leaves(p, block) = {a \in DOMAIN p : \A b \in DOMAIN p \ {a} : Worse(p, a, b)}
    BY <1>1, <1>2, <1>4, <1>7 DEF Leaves
  <2>4. d \in DOMAIN p /\ \A b \in DOMAIN p \ {d} : Worse(p, d, b)
    BY <1>1, <2>1, <2>2
  <2>5. \A a \in DOMAIN p : p[a].uses \in Nat /\ p[a].last \in Nat
    BY <1>7, <2>2 DEF SetInv, Matches, Use
  <2>6. \A a \in DOMAIN p \ {d} : ~Worse(p, a, d)
    BY <2>4, <2>5 DEF Worse
  <2>7. Leaves(p, block) = {d}
    BY <2>3, <2>4, <2>6
  <2>. QED BY <1>7, <1>1, <2>7 DEF block
<1>. QED BY <1>5, <1>6, <1>7

\* The blocks of the set after an access, and which of them has left.
LEMMA ContentsLemma ==
    ASSUME NEW op, NEW addr \in Nat, NEW set \in [Ways -> Line], NEW p, NEW total \in Nat,
           SetInv(Index(addr), set, p, total)
    PROVE  /\ Contents(Accessed(set, op, addr)) =
                (Contents(set) \ Leaves(p, Block(addr))) \cup {Block(addr)}
           /\ Contents(set) \ Contents(Accessed(set, op, addr)) = Leaves(p, Block(addr))
<1> DEFINE w == End(set, addr)
           block == Block(addr)
           new == Accessed(set, op, addr)
<1>1. /\ w \in Ways /\ (Found(set, addr) <=> block \in Contents(set))
      /\ \A v \in Ways \ {w} : set[v].valid => set[v].data # block
  BY EndLemma
<1>2. Found(set, addr) => /\ set[w].valid /\ set[w].data = block
                          /\ set[w].tag = TagOf(addr)
  BY HitLemma
<1>3. Touched(set, new, w, block)
  BY <1>1, <1>2, AfterLemma
<1>4. Leaves(p, block) = IF ~Found(set, addr) /\ set[w].valid THEN {set[w].data} ELSE {}
  BY LeavesLemma
<1>5. \A v \in Ways \ {w} : set[v].valid /\ set[w].valid => set[v].data # set[w].data
  BY <1>1 DEF SetInv, Matches
<1> HIDE DEF w, block, new
<1>6. \A v \in Ways \ {w} : new[v].valid = set[v].valid /\ new[v].data = set[v].data
  BY <1>3 DEF Touched, Older
<1>7. new[w].valid /\ new[w].data = block
  BY <1>3 DEF Touched
<1>8. ASSUME NEW b
      PROVE  b \in Contents(new) <=> b = block \/ (b \in Contents(set) /\ b \notin Leaves(p, block))
  <2>1. b \in Contents(new) <=> b = block \/ \E v \in Ways \ {w} : set[v].valid /\ b = set[v].data
    BY <1>1, <1>6, <1>7 DEF Contents
  <2>2. b \in Contents(set) <=> \/ set[w].valid /\ b = set[w].data
                                \/ \E v \in Ways \ {w} : set[v].valid /\ b = set[v].data
    BY <1>1 DEF Contents
  <2>. QED BY <1>2, <1>4, <1>5, <2>1, <2>2
<1>9. block \notin Leaves(p, block) \/ block \notin Contents(set)
  BY <1>1, <1>4
<1>10. Leaves(p, block) \subseteq Contents(set)
  BY <1>1, <1>4 DEF Contents
<1>11. block \notin Leaves(p, block)
  BY <1>9, <1>10
<1>. QED BY <1>8, <1>10, <1>11 DEF block, new

\* After an access a set keeps what the policy keeps of it.
LEMMA SetLemma ==
    ASSUME NEW op, NEW addr \in Nat, NEW set \in [Ways -> Line], NEW p, Total \in Nat,
           SetInv(Index(addr), set, p, Total)
    PROVE  SetInv(Index(addr), Accessed(set, op, addr), Kept(p, Block(addr)), Total + 1)
<1> DEFINE w == End(set, addr)
           block == Block(addr)
           new == Accessed(set, op, addr)
           q == Kept(p, block)
<1>1. Placed(Index(addr), set) /\ Matches(set, p, Total)
  BY DEF SetInv
<1>2. /\ w \in Ways /\ (Found(set, addr) <=> block \in Contents(set))
      /\ \A v \in Ways : v < w => set[v].valid
      /\ \A v \in Ways \ {w} : set[v].valid => set[v].data # block
  BY EndLemma
<1>3. Found(set, addr) => /\ set[w].valid /\ set[w].data = block
                          /\ set[w].tag = TagOf(addr)
  BY HitLemma
<1>4. /\ new \in [Ways -> Line] /\ Touched(set, new, w, block)
      /\ Found(set, addr) => new[w].freq = set[w].freq + 1
      /\ ~Found(set, addr) => new[w].freq = 1
  <2>1. End(set, addr) = w /\ w \in Ways
    BY <1>2
  <2>2. Found(set, addr) => set[w].valid /\ set[w].data = Block(addr) /\ set[w].tag = TagOf(addr)
    BY <1>3
  <2> HIDE DEF w
  <2>3. /\ Accessed(set, op, addr) \in [Ways -> Line]
        /\ Touched(set, Accessed(set, op, addr), w, Block(addr))
        /\ Found(set, addr) => Accessed(set, op, addr)[w].freq = set[w].freq + 1
        /\ ~Found(set, addr) => Accessed(set, op, addr)[w].freq = 1
    BY <2>1, <2>2, AfterLemma
  <2>. QED BY <2>3
<1>5. Contents(new) = (Contents(set) \ Leaves(p, block)) \cup {block}
  BY ContentsLemma
<1>6. Index(block) = Index(addr) /\ Block(block) = block
  BY AddressLemma
<1>7. /\ DOMAIN q = (DOMAIN p \ Leaves(p, block)) \cup {block}
      /\ \A b \in DOMAIN q \ {block} : q[b] = p[b]
      /\ q[block] = [uses |-> 1 + (IF block \in DOMAIN p THEN p[block].uses ELSE 0), last |-> Total]
  BY KeptLemma
<1> HIDE DEF w, block, new, q
<1>8. Placed(Index(addr), new)
  BY <1>1, <1>2, <1>4, <1>6, PlacedLemma
<1>9. DOMAIN p = Contents(set)
  BY <1>1 DEF Matches
<1>10. q[block] = [uses |-> new[w].freq, last |-> Total]
  <2>1. CASE Found(set, addr)
    <3>1. p[block].uses = set[w].freq /\ set[w].freq \in Nat
      BY <1>1, <1>2, <1>3, <2>1 DEF Matches, Line
    <3>2. new[w].freq = 1 + p[block].uses /\ block \in DOMAIN p
      BY <1>2, <1>4, <1>9, <2>1, <3>1
    <3>. QED BY <1>7, <3>2
  <2>2. CASE ~Found(set, addr)
    BY <1>2, <1>4, <1>7, <1>9, <2>2
  <2>. QED BY <2>1, <2>2
<1>11. Matches(new, q, Total + 1)
  BY <1>1, <1>2, <1>4, <1>5, <1>7, <1>9, <1>10, MatchesLemma
<1>. QED BY <1>8, <1>11 DEF SetInv, new, q, block

-----------------------------------------------------------------------------
(* The statistics.                                                         *)

\* A line of the trace is counted as a read or a write, a hit or a miss.
Counted(s, op, hit) ==
    Count(Count(s, IF op = "R" THEN "read" ELSE "write"),
          IF op = "R" THEN IF hit THEN "readhit" ELSE "readmiss"
          ELSE IF hit THEN "writehit" ELSE "writemiss")

\* Hits and misses stay the sums of reads and writes.
LEMMA CountLemma ==
    ASSUME NEW s \in Statistics, NEW op, NEW hit,
           s.readhit + s.readmiss = s.read, s.writehit + s.writemiss = s.write
    PROVE  LET c == Counted(s, op, hit)
           IN  /\ c \in Statistics /\ c.writeback = s.writeback
               /\ c.read + c.write = s.read + s.write + 1
               /\ c.readhit + c.readmiss = c.read /\ c.writehit + c.writemiss = c.write
<1>1. CASE op = "R"
  <2> DEFINE r == [s EXCEPT !.read = s.read + 1]
  <2>1. /\ r \in Statistics /\ r.read = s.read + 1 /\ r.write = s.write
        /\ r.writeback = s.writeback /\ r.readhit = s.readhit /\ r.readmiss = s.readmiss
        /\ r.writehit = s.writehit /\ r.writemiss = s.writemiss
    BY DEF Statistics
  <2>2. CASE hit
    <3>1. Counted(s, op, hit) = [r EXCEPT !.readhit = r.readhit + 1]
      BY <1>1, <2>2 DEF Counted, Count
    <3> HIDE DEF r
    <3>. QED BY <2>1, <3>1 DEF Statistics
  <2>3. CASE ~hit
    <3>1. Counted(s, op, hit) = [r EXCEPT !.readmiss = r.readmiss + 1]
      BY <1>1, <2>3 DEF Counted, Count
    <3> HIDE DEF r
    <3>. QED BY <2>1, <3>1 DEF Statistics
  <2>. QED BY <2>2, <2>3
<1>2. CASE op # "R"
  <2> DEFINE r == [s EXCEPT !.write = s.write + 1]
  <2>1. /\ r \in Statistics /\ r.read = s.read /\ r.write = s.write + 1
        /\ r.writeback = s.writeback /\ r.readhit = s.readhit /\ r.readmiss = s.readmiss
        /\ r.writehit = s.writehit /\ r.writemiss = s.writemiss
    BY DEF Statistics
  <2>2. CASE hit
    <3>1. Counted(s, op, hit) = [r EXCEPT !.writehit = r.writehit + 1]
      BY <1>2, <2>2 DEF Counted, Count
    <3> HIDE DEF r
    <3>. QED BY <2>1, <3>1 DEF Statistics
  <2>3. CASE ~hit
    <3>1. Counted(s, op, hit) = [r EXCEPT !.writemiss = r.writemiss + 1]
      BY <1>2, <2>3 DEF Counted, Count
    <3> HIDE DEF r
    <3>. QED BY <2>1, <3>1 DEF Statistics
  <2>. QED BY <2>2, <2>3
<1>. QED BY <1>1, <1>2

\* A block that is written back.
LEMMA WriteBackLemma ==
    ASSUME NEW s \in Statistics
    PROVE  LET c == Count(s, "writeback")
           IN  /\ c \in Statistics /\ c.writeback = s.writeback + 1
               /\ c.read = s.read /\ c.write = s.write
               /\ c.readhit = s.readhit /\ c.readmiss = s.readmiss
               /\ c.writehit = s.writehit /\ c.writemiss = s.writemiss
<1>1. Count(s, "writeback") = [s EXCEPT !.writeback = s.writeback + 1]
  BY DEF Count
<1>. QED BY <1>1 DEF Statistics

-----------------------------------------------------------------------------
(* Every access preserves the invariant.                                   *)

DirtyBlocks(c) == UNION {{c[s][w].data : w \in {v \in Ways : c[s][v].dirty}} : s \in Sets}

\* An access in terms of the set it is to.
LEMMA AccessFacts ==
    ASSUME CacheTypeOK, NEW op \in {"R", "W"}, NEW addr \in Addresses, access_cache(op, addr)
    PROVE  LET s == Index(addr)
               w == End(cache[s], addr)
               hit == Found(cache[s], addr)
               old == Age(cache[s], hit)[w]
               gone == Contents(cache[s]) \ Contents(Accessed(cache[s], op, addr))
           IN  /\ cache' = [cache EXCEPT ![s] = Accessed(cache[s], op, addr)]
               /\ stat' = IF ~hit /\ old.valid /\ old.dirty
                          THEN Count(Counted(stat, op, hit), "writeback")
                          ELSE Counted(stat, op, hit)
               /\ policy' = [policy EXCEPT ![s] = Kept(policy[s], Block(addr))]
               /\ unsaved' = (unsaved \ gone) \cup (IF op = "W" THEN {Block(addr)} ELSE {})
               /\ saved' = saved + Cardinality(unsaved \cap gone)
               /\ lru_only_flag' = lru_only_flag
<1> DEFINE s == Index(addr)
           new == Accessed(cache[s], op, addr)
<1>1. cache' = [cache EXCEPT ![s] = new]
  BY DEF access_cache, Accessed, End, Found
<1>2. addr \in Nat /\ s \in Sets /\ cache \in [Sets -> [Ways -> Line]]
  BY TraceAssumption, AddressLemma DEF CacheTypeOK
<1>3. cache'[s] = new
  <2> HIDE DEF s, new
  <2>. QED BY <1>1, <1>2
<1>4. Contents(cache[s]) \ Contents(cache'[s]) = Contents(cache[s]) \ Contents(new)
  BY <1>3
<1>5. stat' = IF /\ ~Found(cache[s], addr)
                 /\ Age(cache[s], Found(cache[s], addr))[End(cache[s], addr)].valid
                 /\ Age(cache[s], Found(cache[s], addr))[End(cache[s], addr)].dirty
              THEN Count(Counted(stat, op, Found(cache[s], addr)), "writeback")
              ELSE Counted(stat, op, Found(cache[s], addr))
  BY DEF access_cache, End, Found, Counted
<1>6. /\ policy' = [policy EXCEPT ![s] = Kept(policy[s], Block(addr))]
      /\ lru_only_flag' = lru_only_flag
  BY DEF access_cache
<1>7. /\ unsaved' = (unsaved \ (Contents(cache[s]) \ Contents(cache'[s])))
                       \cup (IF op = "W" THEN {Block(addr)} ELSE {})
      /\ saved' = saved + Cardinality(unsaved \cap (Contents(cache[s]) \ Contents(cache'[s])))
  BY DEF access_cache
<1>. QED BY <1>1, <1>4, <1>5, <1>6, <1>7

\* The blocks that are dirty after an access.
LEMMA DirtyLemma ==
    ASSUME NEW op, NEW addr \in Nat, NEW c \in [Sets -> [Ways -> Line]], NEW d,
           \A s \in Sets : Placed(s, c[s]),
           NEW p, NEW total \in Nat, SetInv(Index(addr), c[Index(addr)], p, total),
           d[Index(addr)] = Accessed(c[Index(addr)], op, addr),
           \A t \in Sets \ {Index(addr)} : d[t] = c[t]
    PROVE  LET gone == Contents(c[Index(addr)]) \ Contents(Accessed(c[Index(addr)], op, addr))
               w == End(c[Index(addr)], addr)
               line == c[Index(addr)][w]
           IN  /\ DirtyBlocks(d) = (DirtyBlocks(c) \ gone)
                                     \cup (IF op = "W" THEN {Block(addr)} ELSE {})
               /\ DirtyBlocks(c) \cap gone =
                    IF ~Found(c[Index(addr)], addr) /\ line.valid /\ line.dirty
                    THEN {line.data} ELSE {}
<1> DEFINE s == Index(addr)
           set == c[s]
           w == End(set, addr)
           block == Block(addr)
           new == Accessed(set, op, addr)
           gone == Leaves(p, block)
<1>1. s \in Sets /\ set \in [Ways -> Line]
  BY AddressLemma
<1>2. /\ w \in Ways /\ \A v \in Ways \ {w} : set[v].valid => set[v].data # block
  BY <1>1, EndLemma
<1>3. Found(set, addr) => /\ set[w].valid /\ set[w].data = block
                          /\ set[w].tag = TagOf(addr)
  BY <1>1, HitLemma
<1>4. /\ Touched(set, new, w, block)
      /\ Found(set, addr) => (new[w].dirty <=> set[w].dirty \/ op = "W")
      /\ ~Found(set, addr) => (new[w].dirty <=> op = "W")
  BY <1>1, <1>2, <1>3, AfterLemma
<1>5. /\ Contents(set) \ Contents(new) = gone
      /\ gone = IF ~Found(set, addr) /\ set[w].valid THEN {set[w].data} ELSE {}
  BY <1>1, ContentsLemma, LeavesLemma
<1>6. \A v \in Ways \ {w} : set[v].valid /\ set[w].valid => set[v].data # set[w].data
  BY <1>2 DEF SetInv, Matches
<1>7. \A t \in Sets : \A v \in Ways : c[t][v].dirty => c[t][v].valid /\ Index(c[t][v].data) = t
  BY DEF Placed
<1> HIDE DEF w, block, new, gone
<1>8. \A v \in Ways \ {w} : new[v].dirty = set[v].dirty /\ new[v].data = set[v].data
  BY <1>4 DEF Touched, Older
<1>9. new[w].data = block
  BY <1>4 DEF Touched
<1>10. d[s] = new /\ \A t \in Sets \ {s} : d[t] = c[t]
  BY DEF new
<1>11. \A b : b \in gone => set[w].valid /\ b = set[w].data /\ ~Found(set, addr) /\ Index(b) = s
  <2>1. set[w].valid => Index(set[w].data) = s
    BY <1>1, <1>2 DEF Placed
  <2>. QED BY <1>5, <2>1
<1>12. \A b : b \in DirtyBlocks(c) <=> \E t \in Sets, v \in Ways : c[t][v].dirty /\ b = c[t][v].data
  BY DEF DirtyBlocks
<1>13. \A b : b \in DirtyBlocks(d) <=> \E t \in Sets, v \in Ways : d[t][v].dirty /\ b = d[t][v].data
  BY DEF DirtyBlocks
<1>14. ASSUME NEW b \in DirtyBlocks(d) PROVE b \in DirtyBlocks(c) \ gone \/ (op = "W" /\ b = block)
  <2>1. PICK t \in Sets, v \in Ways : d[t][v].dirty /\ b = d[t][v].data
    BY <1>13
  <2>2. CASE t # s
    BY <1>7, <1>10, <1>11, <1>12, <2>1, <2>2
  <2>3. CASE t = s /\ v # w
    <3>1. set[v].dirty /\ set[v].valid /\ b = set[v].data
      BY <1>1, <1>7, <1>8, <1>10, <2>1, <2>3
    <3>. QED BY <1>1, <1>6, <1>11, <1>12, <2>3, <3>1
  <2>4. CASE t = s /\ v = w
    <3>1. new[w].dirty /\ b = block
      BY <1>9, <1>10, <2>1, <2>4
    <3>. QED BY <1>1, <1>2, <1>3, <1>4, <1>11, <1>12, <3>1
  <2>. QED BY <2>2, <2>3, <2>4
<1>15. ASSUME NEW b \in DirtyBlocks(c) \ gone PROVE b \in DirtyBlocks(d)
  <2>1. PICK t \in Sets, v \in Ways : c[t][v].dirty /\ b = c[t][v].data
    BY <1>12
  <2>2. CASE t # s
    BY <1>10, <1>13, <2>1, <2>2
  <2>3. CASE t = s /\ v # w
    BY <1>1, <1>8, <1>10, <1>13, <2>1, <2>3
  <2>4. CASE t = s /\ v = w
    <3>1. Found(set, addr)
      BY <1>5, <1>7, <2>1, <2>4
    <3>2. new[w].dirty /\ b = new[w].data
      BY <1>3, <1>4, <1>9, <2>1, <2>4, <3>1
    <3>. QED BY <1>1, <1>2, <1>10, <1>13, <3>2
  <2>. QED BY <2>2, <2>3, <2>4
<1>16. op = "W" => block \in DirtyBlocks(d)
  BY <1>1, <1>2, <1>4, <1>9, <1>10, <1>13
<1>17. DirtyBlocks(d) = (DirtyBlocks(c) \ gone) \cup (IF op = "W" THEN {block} ELSE {})
  BY <1>14, <1>15, <1>16
<1>18. DirtyBlocks(c) \cap gone = IF ~Found(set, addr) /\ set[w].valid /\ set[w].dirty
                                  THEN {set[w].data} ELSE {}
  <2>1. ASSUME NEW b \in DirtyBlocks(c) \cap gone PROVE set[w].dirty
    <3>1. PICK t \in Sets, v \in Ways : c[t][v].dirty /\ b = c[t][v].data
      BY <1>12, <2>1
    <3>2. t = s
      BY <1>7, <1>11, <2>1, <3>1
    <3>. QED BY <1>6, <1>7, <1>11, <2>1, <3>1, <3>2
  <2>2. set[w].dirty => set[w].data \in DirtyBlocks(c)
    BY <1>1, <1>2, <1>12
  <2>. QED BY <1>5, <1>11, <2>1, <2>2
<1>. QED BY <1>5, <1>17, <1>18 DEF block, new, w

\* The policy of a set is as true after accesses to other sets.
LEMMA SetStands ==
    ASSUME NEW s, NEW set \in [Ways -> Line], NEW p, NEW total \in Nat, SetInv(s, set, p, total)
    PROVE  SetInv(s, set, p, total + 1)
<1>1. \A w \in Ways : set[w].valid => p[set[w].data].last \in Nat /\ p[set[w].data].last < total
  BY DEF SetInv, Matches, Use
<1>2. \A w \in Ways : set[w].valid => p[set[w].data].last < total + 1
  BY <1>1
<1>. QED BY <1>2 DEF SetInv, Matches

\* An empty cache keeps what an empty policy keeps.
LEMMA InitInv == CacheInit => CacheInv
<1> SUFFICES ASSUME CacheInit PROVE CacheInv
  OBVIOUS
<1>1. PICK lru \in BOOLEAN : Started(lru)
  BY DEF CacheInit
<1> DEFINE empty == [valid |-> FALSE, dirty |-> FALSE, tag |-> 0, data |-> 0,
                    time |-> 0, freq |-> 0]
<1>2. empty \in Line /\ ~empty.valid /\ ~empty.dirty
  BY DEF Line
<1> HIDE DEF empty
<1>3. cache = [s \in Sets |-> [w \in Ways |-> empty]]
  BY <1>1 DEF Started, build_cache, empty
<1>4. \A s \in Sets : \A w \in Ways : cache[s][w] = empty
  BY <1>3
<1>5. cache \in [Sets -> [Ways -> Line]]
  BY <1>2, <1>3
<1>6. stat = [read |-> 0, write |-> 0, writeback |-> 0,
              readhit |-> 0, writehit |-> 0, readmiss |-> 0, writemiss |-> 0]
  BY <1>1 DEF Started
<1>7. stat \in Statistics /\ Total = 0 /\ stat.writeback = 0
      /\ stat.readhit + stat.readmiss = stat.read /\ stat.writehit + stat.writemiss = stat.write
  BY <1>6 DEF Statistics, Total
<1>8. policy = [s \in Sets |-> [b \in {} |-> [uses |-> 0, last |-> 0]]] /\ lru_only_flag = lru
      /\ unsaved = {} /\ saved = 0
  BY <1>1 DEF Started
<1>9. CacheTypeOK
  BY <1>5, <1>7, <1>8 DEF CacheTypeOK
<1>10. ASSUME NEW s \in Sets PROVE SetInv(s, cache[s], policy[s], Total)
  <2>1. \A w \in Ways : ~cache[s][w].valid /\ ~cache[s][w].dirty
    BY <1>2, <1>4
  <2>2. DOMAIN policy[s] = {}
    BY <1>8
  <2>3. Contents(cache[s]) = {}
    BY <2>1 DEF Contents
  <2>4. Placed(s, cache[s])
    BY <2>1 DEF Placed
  <2>5. Matches(cache[s], policy[s], Total)
    BY <2>1, <2>2, <2>3 DEF Matches
  <2>. QED BY <2>4, <2>5 DEF SetInv
<1>11. DirtyBlocks(cache) = {}
  BY <1>2, <1>4 DEF DirtyBlocks
<1>12. WritesSaved
  BY <1>7, <1>8, <1>11 DEF WritesSaved, DirtyBlocks
<1>. QED BY <1>9, <1>10, <1>12 DEF CacheInv

\* An access changes one set, what its policy keeps, and the statistics.
LEMMA AccessStep ==
    ASSUME CacheInv, NEW op \in {"R", "W"}, NEW addr \in Addresses, access_cache(op, addr)
    PROVE  CacheInv'
<1> DEFINE s == Index(addr)
           set == cache[s]
           w == End(set, addr)
           hit == Found(set, addr)
           old == Age(set, hit)[w]
           block == Block(addr)
           new == Accessed(set, op, addr)
           q == Kept(policy[s], block)
           c == Counted(stat, op, hit)
           gone == Contents(set) \ Contents(new)
<1>1. /\ cache' = [cache EXCEPT ![s] = new]
      /\ stat' = IF ~hit /\ old.valid /\ old.dirty THEN Count(c, "writeback") ELSE c
      /\ policy' = [policy EXCEPT ![s] = q]
      /\ unsaved' = (unsaved \ gone) \cup (IF op = "W" THEN {block} ELSE {})
      /\ saved' = saved + Cardinality(unsaved \cap gone)
      /\ lru_only_flag' = lru_only_flag
  BY AccessFacts DEF CacheInv
<1>2. /\ CacheTypeOK /\ WritesSaved
      /\ \A t \in Sets : SetInv(t, cache[t], policy[t], Total)
  BY DEF CacheInv
<1>3. addr \in Nat /\ s \in Sets /\ set \in [Ways -> Line] /\ stat \in Statistics
      /\ cache \in [Sets -> [Ways -> Line]] /\ DOMAIN policy = Sets
  BY <1>2, TraceAssumption, AddressLemma DEF CacheTypeOK
<1>4. Total \in Nat
  BY <1>3 DEF Total, Statistics
<1>5. SetInv(s, set, policy[s], Total)
  BY <1>2, <1>3
<1>6. w \in Ways
  BY <1>3, <1>4, <1>5, EndLemma
<1>7. new \in [Ways -> Line]
  <2>1. hit => /\ set[w].valid /\ set[w].data = block /\ set[w].tag = TagOf(addr)
    BY <1>3, <1>5, HitLemma
  <2>. QED BY <1>3, <1>6, <2>1, AfterLemma
<1>8. SetInv(s, new, q, Total + 1)
  BY <1>3, <1>4, <1>5, SetLemma
<1>9. (old.valid <=> set[w].valid) /\ (old.dirty <=> set[w].dirty)
  BY <1>3, <1>6, AgeLemma DEF Older
<1>10. /\ c \in Statistics /\ c.writeback = stat.writeback
       /\ c.read + c.write = Total + 1
       /\ c.readhit + c.readmiss = c.read /\ c.writehit + c.writemiss = c.write
  BY <1>2, <1>3, CountLemma DEF WritesSaved, Total
<1>11. /\ DirtyBlocks(cache') = (DirtyBlocks(cache) \ gone)
                                   \cup (IF op = "W" THEN {block} ELSE {})
       /\ DirtyBlocks(cache) \cap gone =
            IF ~hit /\ set[w].valid /\ set[w].dirty THEN {set[w].data} ELSE {}
  <2>1. \A t \in Sets : Placed(t, cache[t])
    BY <1>2 DEF SetInv
  <2>2. cache'[s] = new /\ \A t \in Sets \ {s} : cache'[t] = cache[t]
    <3> HIDE DEF s, new
    <3>. QED BY <1>1, <1>3
  <2>. QED BY <1>3, <1>4, <1>5, <2>1, <2>2, DirtyLemma
<1> HIDE DEF s, set, w, hit, old, block, new, q, c, gone
<1>12. DirtyBlocks(cache) = unsaved /\ stat.writeback = saved /\ saved \in Nat
  BY <1>2 DEF WritesSaved, DirtyBlocks, CacheTypeOK
<1>13. /\ stat' \in Statistics /\ Total' = Total + 1
       /\ stat'.readhit + stat'.readmiss = stat'.read
       /\ stat'.writehit + stat'.writemiss = stat'.write
       /\ stat'.writeback = saved' /\ saved' \in Nat
  <2>1. CASE ~hit /\ old.valid /\ old.dirty
    <3>1. unsaved \cap gone = {set[w].data}
      BY <1>9, <1>11, <1>12, <2>1
    <3>2. saved' = saved + 1
      BY <1>1, <3>1, FS_Singleton
    <3>3. stat' = Count(c, "writeback")
      BY <1>1, <2>1
    <3>4. /\ stat' \in Statistics /\ stat'.writeback = c.writeback + 1
          /\ stat'.read = c.read /\ stat'.write = c.write
          /\ stat'.readhit = c.readhit /\ stat'.readmiss = c.readmiss
          /\ stat'.writehit = c.writehit /\ stat'.writemiss = c.writemiss
      BY <1>10, <3>3, WriteBackLemma
    <3>. QED BY <1>10, <1>12, <3>2, <3>4 DEF Total
  <2>2. CASE ~(~hit /\ old.valid /\ old.dirty)
    <3>1. unsaved \cap gone = {}
      BY <1>9, <1>11, <1>12, <2>2
    <3>2. saved' = saved
      BY <1>1, <1>12, <3>1, FS_EmptySet
    <3>3. stat' = c
      BY <1>1, <2>2
    <3>. QED BY <1>10, <1>12, <3>2, <3>3 DEF Total
  <2>. QED BY <2>1, <2>2
<1>14. CacheTypeOK'
  BY <1>1, <1>2, <1>3, <1>7, <1>13 DEF CacheTypeOK
<1>15. ASSUME NEW t \in Sets PROVE SetInv(t, cache[t], policy[t], Total)'
  <2>1. CASE t = s
    <3>1. cache'[s] = new /\ policy'[s] = q
      BY <1>1, <1>3
    <3>. QED BY <1>8, <1>13, <2>1, <3>1
  <2>2. CASE t # s
    <3>1. cache'[t] = cache[t] /\ policy'[t] = policy[t]
      BY <1>1, <1>3, <2>2
    <3>2. SetInv(t, cache[t], policy[t], Total + 1)
      BY <1>2, <1>3, <1>4, SetStands
    <3>. QED BY <1>13, <3>1, <3>2
  <2>. QED BY <2>1, <2>2
<1>16. WritesSaved'
  <2>1. unsaved' = DirtyBlocks(cache')
    BY <1>1, <1>11, <1>12
  <2>. QED BY <1>13, <2>1 DEF WritesSaved, DirtyBlocks
<1>. QED BY <1>14, <1>15, <1>16 DEF CacheInv

-----------------------------------------------------------------------------
(* The theorems.                                                           *)

\* The invariant holds for every geometry of the cache, trace and policy.
THEOREM CacheInvariant == CacheSpec => []CacheInv
<1>1. CacheInit => CacheInv
  BY InitInv
<1>2. CacheInv /\ [CacheNext]_caching => CacheInv'
  <2> SUFFICES ASSUME CacheInv, [CacheNext]_caching PROVE CacheInv'
    OBVIOUS
  <2>1. CASE CacheNext
    BY <2>1, AccessStep DEF CacheNext
  <2>2. CASE UNCHANGED caching
    BY <2>2 DEF caching, CacheInv, CacheTypeOK, WritesSaved, Total
  <2>. QED BY <2>1, <2>2
<1>. QED BY <1>1, <1>2, PTL DEF CacheSpec

\* A set always holds the blocks its policy keeps (main.c's access_cache()
\* ages, places and evicts by the counters of the lines alone).
THEOREM PolicyIsKept == CacheSpec => []PolicyKept
<1>1. CacheInv => PolicyKept
  <2> SUFFICES ASSUME CacheInv, NEW s \in Sets
               PROVE  /\ Contents(cache[s]) = DOMAIN policy[s]
                      /\ Cardinality(Valid(cache[s])) = Cardinality(Contents(cache[s]))
                      /\ \A w \in Valid(cache[s]) : /\ Index(cache[s][w].data) = s
                                                    /\ TagOf(cache[s][w].data) = cache[s][w].tag
    BY DEF PolicyKept, Valid
  <2>1. cache[s] \in [Ways -> Line]
    BY DEF CacheInv, CacheTypeOK
  <2>2. Placed(s, cache[s]) /\ Matches(cache[s], policy[s], Total)
    BY DEF CacheInv, SetInv
  <2>3. Apart(cache[s])
    BY <2>2 DEF Matches, Apart, Valid
  <2>4. Cardinality(Valid(cache[s])) = Cardinality(Contents(cache[s]))
    BY <2>1, <2>3, Counting
  <2>. QED BY <2>2, <2>4 DEF Placed, Matches, Valid
<1>. QED BY <1>1, CacheInvariant, PTL

\* A block written since it was fetched is dirty until it leaves, and is
\* written back then, once; hits and misses add up to the accesses.
THEOREM WritesAreSaved == CacheSpec => []WritesSaved
<1>1. CacheInv => WritesSaved
  BY DEF CacheInv
<1>. QED BY <1>1, CacheInvariant, PTL

=============================================================================
