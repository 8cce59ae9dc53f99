----------------------------- MODULE Tsh_proofs -----------------------------
(***************************************************************************)
(* The safety properties of the shell hold for every number of processes,  *)
(* every length of the job list and however signals interrupt and nest.    *)
(* First the helper routines of the list and the stack of handlers, then   *)
(* IInv step by step: the main thread, the kernel, the handlers.  What     *)
(* needs a list with room for every process is proved last, on its own.    *)
(***************************************************************************)
EXTENDS TshInv, NatFacts, FiniteSetTheorems

-----------------------------------------------------------------------------
(* The helper routines of the job list.                                    *)

\* A search of the array ends at the first slot that qualifies, or nowhere.
LEMMA FirstLemma ==
    ASSUME NEW S \in SUBSET Slots
    PROVE  /\ First(S) = 0 <=> S = {}
           /\ S # {} => First(S) \in S /\ \A t \in S : First(S) <= t
<1>1. S \in SUBSET Nat
  BY JobListAssumption DEF Slots
<1>2. CASE S = {}
  BY <1>2 DEF First
<1>3. CASE S # {}
  <2>1. \E n \in S : \A m \in S : n <= m
    BY <1>1, <1>3, LeastElement
  <2>2. First(S) \in S /\ \A t \in S : First(S) <= t
    BY <1>3, <2>1 DEF First
  <2>3. First(S) # 0
    BY <2>2 DEF Slots
  <2>. QED BY <1>3, <2>2, <2>3
<1>. QED BY <1>2, <1>3

\* getjobpid() finds the only entry of a process.
LEMMA GetjobpidLemma ==
    ASSUME TypeOK, ListInv, NEW pid \in PIDs
    PROVE  /\ getjobpid(pid) = 0 <=> pid \notin Listed
           /\ \A s \in Slots : jobs[s].pid = pid <=> getjobpid(pid) = s
<1> DEFINE S == {s \in Slots : pid >= 1 /\ jobs[s].pid = pid}
<1>1. pid \in Nat \ {0}
  BY JobListAssumption
<1>2. S \in SUBSET Slots /\ getjobpid(pid) = First(S)
  BY DEF getjobpid
<1>3. \A s \in Slots : jobs[s].pid = pid <=> s \in S
  BY <1>1
<1>4. 0 \notin Slots
  BY DEF Slots
<1>5. S = {} <=> pid \notin Listed
  BY <1>1, <1>3 DEF Listed
<1>6. \A s, t \in S : s = t
  BY <1>1, <1>3 DEF ListInv
<1> HIDE DEF S
<1>. QED BY <1>2, <1>3, <1>4, <1>5, <1>6, FirstLemma

\* The next job ID after a deletion is one that the bound allows.
LEMMA MaxjidLemma ==
    ASSUME NEW js \in [Slots -> Job]
    PROVE  maxjid(js) \in 0..MaxJid
<1> DEFINE J == {js[s].jid : s \in Slots}
           D == {MaxJid - j : j \in J}
<1>1. 1 \in Slots /\ MaxJid \in Nat
  BY JobListAssumption DEF Slots
<1>2. J # {} /\ \A j \in J : j \in 0..MaxJid
  BY <1>1 DEF Job
<1> HIDE DEF J
<1>3. D # {} /\ D \in SUBSET Nat
  BY <1>1, <1>2
<1>4. PICK d \in D : \A e \in D : d <= e
  BY <1>3, LeastElement
<1>5. PICK m \in J : d = MaxJid - m
  BY <1>4
<1>6. ASSUME NEW j \in J PROVE j <= m
  <2>1. j \in 0..MaxJid /\ m \in 0..MaxJid
    BY <1>2
  <2>2. MaxJid - m <= MaxJid - j
    BY <1>4, <1>5
  <2>. QED BY <2>1, <2>2, <1>1
<1>7. \A s \in Slots : js[s].jid <= m
  BY <1>6 DEF J
<1>8. maxjid(js) \in J
  BY <1>5, <1>7 DEF maxjid, J
<1>. QED BY <1>2, <1>8

\* deletejob() clears the entry of its process, and nothing else.
LEMMA DeletejobLemma ==
    ASSUME TypeOK, ListInv, NEW pid \in PIDs, deletejob(pid)
    PROVE  /\ jobs' \in [Slots -> Job] /\ nextjid' \in 1..(MaxJid + 1)
           /\ \A s \in Slots : jobs'[s] = IF jobs[s].pid = pid THEN Cleared ELSE jobs[s]
<1>1. CASE getjobpid(pid) = 0
  <2>1. \A s \in Slots : jobs[s].pid # pid
    BY <1>1, GetjobpidLemma DEF Slots
  <2>. QED BY <1>1, <2>1 DEF deletejob, list, TypeOK
<1>2. CASE getjobpid(pid) # 0
  <2>. DEFINE s == getjobpid(pid)
  <2>1. /\ jobs' = [jobs EXCEPT ![s] = Cleared]
        /\ nextjid' = maxjid(jobs') + 1
    BY <1>2 DEF deletejob
  <2>2. Cleared \in Job
    BY JobListAssumption DEF Cleared, Job, States
  <2>3. jobs' \in [Slots -> Job]
    BY <2>1, <2>2 DEF TypeOK
  <2>4. \A t \in Slots : jobs[t].pid = pid <=> s = t
    BY GetjobpidLemma
  <2>5. nextjid' \in 1..(MaxJid + 1)
    <3>1. maxjid(jobs') \in 0..MaxJid
      BY <2>3, MaxjidLemma
    <3>. QED BY <2>1, <3>1, JobListAssumption
  <2>. QED BY <2>1, <2>3, <2>4, <2>5 DEF TypeOK
<1>. QED BY <1>1, <1>2

\* addjob() takes a free slot, or leaves a full list alone.
LEMMA AddjobLemma ==
    ASSUME TypeOK, NEW pid \in PIDs, NEW state \in States, nextjid <= MaxJid,
           addjob(pid, state)
    PROVE  /\ jobs' \in [Slots -> Job] /\ nextjid' \in 1..(MaxJid + 1)
           /\ \/ (\A s \in Slots : jobs[s].pid # 0) /\ jobs' = jobs
              \/ \E s \in Slots :
                   /\ jobs[s].pid = 0
                   /\ jobs' = [jobs EXCEPT ![s] =
                                 [pid |-> pid, jid |-> nextjid, state |-> state]]
<1> DEFINE S == {t \in Slots : jobs[t].pid = 0}
           s == First(S)
<1>1. S = {} <=> s = 0
  BY FirstLemma
<1>2. CASE s = 0
  BY <1>1, <1>2 DEF addjob, list, TypeOK
<1>3. CASE s # 0
  <2>1. s \in S
    BY <1>1, <1>3, FirstLemma
  <2>2. /\ jobs' = [jobs EXCEPT ![s] = [pid |-> pid, jid |-> nextjid, state |-> state]]
        /\ nextjid' = IF nextjid + 1 > MAXJOBS THEN 1 ELSE nextjid + 1
    BY <1>3 DEF addjob
  <2>3. [pid |-> pid, jid |-> nextjid, state |-> state] \in Job
    BY JobListAssumption DEF Job, TypeOK
  <2>4. jobs' \in [Slots -> Job]
    BY <2>2, <2>3 DEF TypeOK
  <2>5. nextjid' \in 1..(MaxJid + 1)
    BY <2>2, JobListAssumption DEF TypeOK
  <2>. QED BY <2>1, <2>2, <2>4, <2>5
<1>. QED BY <1>2, <1>3

-----------------------------------------------------------------------------
(* The stack of handlers.                                                  *)

Pushed(sig) == stack' = <<sig>> \o stack
Popped      == stack' = Tail(stack)
Distinct    == \A i, j \in DOMAIN stack : stack[i] = stack[j] => i = j

\* A handler that is entered comes on top of those that run.
LEMMA PushLemma ==
    ASSUME stack \in Seq(Sigs), Distinct, NEW sig \in Sigs \ Running, Pushed(sig)
    PROVE  /\ stack' \in Seq(Sigs) /\ Distinct'
           /\ Running' = Running \cup {sig}
<1>1. /\ Len(stack) \in Nat /\ DOMAIN stack = 1..Len(stack)
      /\ stack' \in Seq(Sigs) /\ Len(stack') = Len(stack) + 1 /\ stack'[1] = sig
      /\ DOMAIN stack' = 1..Len(stack')
      /\ \A i \in 1..Len(stack) : stack'[i + 1] = stack[i]
  BY DEF Pushed
<1>2. \A i \in DOMAIN stack' : i = 1 \/ (i - 1 \in DOMAIN stack /\ stack'[i] = stack[i - 1])
  BY <1>1
<1>3. Distinct'
  BY <1>1, <1>2 DEF Distinct, Running
<1>4. Running' = Running \cup {sig}
  <2>1. Running' \subseteq Running \cup {sig}
    BY <1>1, <1>2 DEF Running
  <2>2. ASSUME NEW i \in DOMAIN stack PROVE stack[i] \in Running'
    <3>1. i + 1 \in DOMAIN stack' /\ stack'[i + 1] = stack[i]
      BY <1>1
    <3>. QED BY <3>1 DEF Running
  <2>3. sig \in Running'
    <3>1. 1 \in DOMAIN stack'
      BY <1>1
    <3>. QED BY <3>1, <1>1 DEF Running
  <2>. QED BY <2>1, <2>2, <2>3 DEF Running
<1>. QED BY <1>1, <1>3, <1>4

\* A handler that returns was on top, and runs no more.
LEMMA PopLemma ==
    ASSUME stack \in Seq(Sigs), Distinct, stack # <<>>, Popped
    PROVE  /\ stack' \in Seq(Sigs) /\ Distinct'
           /\ Head(stack) \in Running
           /\ Running' = Running \ {Head(stack)}
<1>1. /\ Len(stack) \in Nat /\ Len(stack) > 0 /\ DOMAIN stack = 1..Len(stack)
      /\ stack' \in Seq(Sigs) /\ Len(stack') = Len(stack) - 1
      /\ DOMAIN stack' = 1..Len(stack') /\ Head(stack) = stack[1]
      /\ \A i \in 1..Len(stack') : stack'[i] = stack[i + 1]
  BY DEF Popped
<1>2. Distinct'
  BY <1>1 DEF Distinct
<1>3. Head(stack) \in Running
  BY <1>1 DEF Running
<1>4. Running' \subseteq Running \ {Head(stack)}
  <2>1. ASSUME NEW i \in 1..Len(stack')
        PROVE  stack'[i] \in Running /\ stack'[i] # Head(stack)
    <3>1. i + 1 \in DOMAIN stack /\ 1 \in DOMAIN stack /\ i + 1 # 1 /\ stack'[i] = stack[i + 1]
      BY <1>1
    <3>. QED BY <3>1, <1>1 DEF Running, Distinct
  <2>. QED BY <2>1, <1>1 DEF Running
<1>5. ASSUME NEW i \in DOMAIN stack, stack[i] # Head(stack)
      PROVE  stack[i] \in Running'
  <2>1. i - 1 \in DOMAIN stack' /\ stack'[i - 1] = stack[i]
    BY <1>1, <1>5
  <2>. QED BY <2>1 DEF Running
<1>6. Running \ {Head(stack)} \subseteq Running'
  BY <1>5 DEF Running
<1>. QED BY <1>1, <1>2, <1>3, <1>4, <1>6



-----------------------------------------------------------------------------
(* Steps of the main thread that leave the list and the kernel alone.      *)

Still == UNCHANGED <<jobs, nextjid, masked, stack, frame, pending, proc, news, doomed>>

\* Such a step keeps the invariant when it keeps what the main thread's own
\* variables are about, and does not come back to life or leave do_bgfg()
\* between the assignment of a state and the SIGCONT.
LEMMA StillStep ==
    ASSUME IInv, Still, TypeOK', MainInv', AtMostOneFG',
           Alive' => Alive /\ pc # "set"
    PROVE  IInv'
<1>1. HandlerInv'
  BY DEF IInv, Still, HandlerInv, Running
<1>2. ListInv'
  BY DEF IInv, Still, ListInv
<1>3. ReapInv'
  BY DEF IInv, Still, ReapInv
<1>4. StopInv'
  BY DEF IInv, Still, StopInv, BeingMarked
<1>5. NewsInv'
  BY DEF IInv, Still, NewsInv, Reportable, Running
<1>6. EntryHasChild'
  BY DEF IInv, Still, EntryHasChild, BeingDeleted
<1>7. KeysSpareBackground'
  BY DEF IInv, Still, KeysSpareBackground
<1>. QED BY <1>1, <1>2, <1>3, <1>4, <1>5, <1>6, <1>7 DEF IInv

\* A foreground job has the main thread waiting for it or about to.
LEMMA NoForeground ==
    ASSUME IInv, Alive, pc \notin {"waitfg", "set", "cont"}, NEW s \in Slots
    PROVE  jobs[s].state # "FG"
BY DEF IInv, AtMostOneFG

\* The shell ends: nothing moves any more, and the list stays as it is.
LEMMA LeaveStep ==
    ASSUME IInv, BlankLine \/ Quit \/ SigQuit
    PROVE  IInv'
<1>1. Still /\ UNCHANGED <<job, cur>> /\ pc' \in {"exit", "crash"} /\ cmd' \in Lines
  BY DEF BlankLine, Quit, SigQuit, Still, list, kernel, IInv, TypeOK, Lines
<1>2. ~Alive'
  BY <1>1 DEF Alive
<1>3. TypeOK'
  BY <1>1 DEF IInv, TypeOK, Still, Places
<1>4. MainInv'
  BY <1>1, <1>2 DEF IInv, MainInv, Still, Running
<1>5. AtMostOneFG'
  BY <1>1, <1>2 DEF IInv, AtMostOneFG, Still
<1>. QED BY <1>1, <1>2, <1>3, <1>4, <1>5, StillStep

\* do_bgfg() takes hold of a slot, while no job is in the foreground.
LEMMA FindJobStep ==
    ASSUME IInv, NEW line \in {"fg", "bg"}, FindJob(line)
    PROVE  IInv'
<1>1. /\ Still /\ UNCHANGED cur /\ job' \in Slots /\ cmd' = line
      /\ pc = "prompt" /\ pc' = "found" /\ Alive
  BY DEF FindJob, Still, list, kernel, MainRuns
<1>2. TypeOK'
  BY <1>1 DEF IInv, TypeOK, Still, Places, Lines
<1>3. MainInv'
  BY <1>1 DEF IInv, MainInv, Still, Running, Alive
<1>4. AtMostOneFG'
  BY <1>1, NoForeground DEF Still, AtMostOneFG
<1>. QED BY <1>1, <1>2, <1>3, <1>4, StillStep

\* The job may have been deleted in the meantime, and cur is then 0.
LEMMA CallWaitfgStep ==
    ASSUME IInv, CallWaitfg
    PROVE  IInv'
<1>1. /\ Still /\ UNCHANGED <<cmd, job>> /\ cur' = jobs[job].pid
      /\ pc = "cont" /\ pc' = "waitfg" /\ Alive
  BY DEF CallWaitfg, Still, list, kernel, MainRuns
<1>2. job \in Slots /\ cur' \in PIDs \cup {0}
  BY <1>1 DEF IInv, MainInv, TypeOK, Job
<1>3. TypeOK'
  BY <1>1, <1>2 DEF IInv, TypeOK, Still, Places
<1>4. MainInv'
  BY <1>1 DEF IInv, MainInv, Still, Running, Alive
<1>5. AtMostOneFG'
  BY <1>1 DEF IInv, Still, AtMostOneFG
<1>. QED BY <1>1, <1>3, <1>4, <1>5, StillStep

\* waitfg() returns only when its process is not in the foreground, and that
\* is the only one that could be.
LEMMA WaitfgReturnsStep ==
    ASSUME IInv, WaitfgReturns
    PROVE  IInv'
<1>1. /\ Still /\ cmd' = "none" /\ job' = 0 /\ cur' = 0
      /\ pc = "waitfg" /\ pc' = "prompt" /\ Alive /\ cur # fgpid
  BY DEF WaitfgReturns, Return, Still, list, kernel, MainRuns
<1>2. TypeOK'
  BY <1>1 DEF IInv, TypeOK, Still, Places, Lines
<1>3. MainInv'
  BY <1>1 DEF IInv, MainInv, Still, Running, Alive
<1>4. \A s \in Slots : jobs[s].state # "FG"
  <2>1. SUFFICES ASSUME NEW s \in Slots, jobs[s].state = "FG" PROVE FALSE
    OBVIOUS
  <2>. DEFINE S == {t \in Slots : jobs[t].state = "FG"}
  <2>2. First(S) \in S /\ First(S) # 0
    BY <2>1, FirstLemma
  <2>3. fgpid = jobs[First(S)].pid
    BY <2>2 DEF fgpid
  <2>4. cur = jobs[First(S)].pid
    BY <1>1, <2>2 DEF IInv, AtMostOneFG
  <2>. QED BY <1>1, <2>3, <2>4
<1>5. AtMostOneFG'
  BY <1>1, <1>4 DEF Still, AtMostOneFG
<1>. QED BY <1>1, <1>2, <1>3, <1>5, StillStep

-----------------------------------------------------------------------------
(* The other steps of the main thread.                                     *)

\* No handler runs, so nothing is being deleted or marked.
LEMMA MainLemma ==
    ASSUME IInv, MainRuns
    PROVE  /\ Alive /\ Running = {}
           /\ \A sig \in Sigs : frame[sig].at = "idle"
           /\ \A pid : ~BeingDeleted(pid) /\ ~BeingMarked(pid)
<1>1. Alive /\ stack = <<>>
  BY DEF MainRuns
<1>2. Running = {}
  BY <1>1 DEF Running
<1>3. \A sig \in Sigs : frame[sig].at = "idle"
  BY <1>2 DEF IInv, HandlerInv
<1>. QED BY <1>1, <1>2, <1>3 DEF BeingDeleted, BeingMarked, Sigs

\* The process ID of a new child is not in the list any more.
LEMMA ForkStep ==
    ASSUME IInv, NEW line \in {"run", "run &"}, Fork(line)
    PROVE  IInv'
<1>1. PICK pid \in PIDs : /\ proc[pid] = "free" /\ cur' = pid
                          /\ proc' = [proc EXCEPT ![pid] = "starting"]
  BY DEF Fork
<1>2. /\ UNCHANGED <<job, jobs, nextjid, stack, frame, pending, news, doomed>>
      /\ masked' = TRUE /\ cmd' = line /\ pc = "prompt" /\ pc' = "forked"
      /\ nextjid <= MaxJid
  BY DEF Fork, list
<1>3. /\ Alive /\ Running = {} /\ \A sig \in Sigs : frame[sig].at = "idle"
      /\ \A p : ~BeingDeleted(p) /\ ~BeingMarked(p)
  BY MainLemma DEF Fork
<1>4. pid \notin Listed
  BY <1>1, <1>3, JobListAssumption DEF IInv, EntryHasChild, Listed
<1>5. TypeOK'
  BY <1>1, <1>2 DEF IInv, TypeOK, Places, Lines, ProcStates
<1>6. HandlerInv'
  BY <1>2 DEF IInv, HandlerInv, Running
<1>7. ListInv'
  BY <1>2 DEF IInv, ListInv
<1>8. MainInv'
  <2>1. Running' = {} /\ Listed' = Listed
    BY <1>2, <1>3 DEF Running, Listed
  <2>2. proc'[pid] = "starting"
    BY <1>1 DEF IInv, TypeOK
  <2>. QED BY <1>1, <1>2, <1>4, <2>1, <2>2 DEF MainInv, Alive
<1>9. ReapInv'
  BY <1>1, <1>2, <1>3 DEF IInv, ReapInv, TypeOK, Sigs
<1>10. StopInv'
  <2>1. \A s \in Slots : jobs[s].pid \in PIDs \cup {0} /\ jobs[s].pid # pid
    BY <1>1, <1>4, JobListAssumption DEF Listed, IInv, TypeOK, Job
  <2>2. \A p : BeingMarked(p)' = BeingMarked(p)
    BY <1>2 DEF BeingMarked
  <2>. QED BY <1>1, <1>2, <1>3, <2>1, <2>2 DEF IInv, StopInv, TypeOK
<1>11. NewsInv'
  <2>1. Reportable' = Reportable /\ Running' = Running
    BY <1>1, <1>2 DEF Reportable, Running, IInv, TypeOK
  <2>. QED BY <1>2, <1>3, <2>1 DEF IInv, NewsInv
<1>12. EntryHasChild'
  BY <1>1, <1>2, <1>3 DEF IInv, EntryHasChild, BeingDeleted, TypeOK, Job
<1>13. AtMostOneFG'
  BY <1>2, <1>3, NoForeground DEF AtMostOneFG
<1>14. KeysSpareBackground'
  BY <1>2 DEF IInv, KeysSpareBackground
<1>. QED BY <1>5, <1>6, <1>7, <1>8, <1>9, <1>10, <1>11, <1>12, <1>13, <1>14 DEF IInv

\* The child is still there, whatever it has done since fork().
LEMMA AddJobStep ==
    ASSUME IInv, AddJob
    PROVE  IInv'
<1> DEFINE state == IF cmd = "run" THEN "FG" ELSE "BG"
<1>1. /\ UNCHANGED <<stack, frame, pending, proc, news, doomed>>
      /\ masked' = FALSE /\ pc = "forked" /\ addjob(cur, state)
      /\ \/ cmd = "run" /\ pc' = "waitfg" /\ UNCHANGED <<cmd, job, cur>>
         \/ cmd # "run" /\ pc' = "prompt" /\ cmd' = "none" /\ job' = 0 /\ cur' = 0
  BY DEF AddJob, kernel, Return
<1>2. /\ Alive /\ Running = {} /\ Running' = Running
      /\ \A sig \in Sigs : frame[sig].at = "idle"
      /\ \A p : ~BeingDeleted(p) /\ ~BeingMarked(p)
  BY <1>1, MainLemma DEF AddJob, Running
<1>3. /\ TypeOK /\ cur \in PIDs /\ cur \notin Listed /\ proc[cur] # "free"
      /\ proc[cur] = "stopped" => cur \in news
      /\ nextjid <= MaxJid
  BY <1>1 DEF IInv, MainInv
<1>4. /\ jobs' \in [Slots -> Job] /\ nextjid' \in 1..(MaxJid + 1)
      /\ \/ jobs' = jobs
         \/ \E s \in Slots :
              /\ jobs[s].pid = 0
              /\ jobs' = [jobs EXCEPT ![s] =
                            [pid |-> cur, jid |-> nextjid, state |-> state]]
  BY <1>1, <1>3, AddjobLemma DEF States
<1>5. \A s \in Slots : jobs[s].pid # cur /\ jobs[s].state # "FG"
  BY <1>1, <1>2, <1>3, NoForeground, JobListAssumption DEF Listed
<1>6. \/ jobs' = jobs
      \/ \E s \in Slots :
           /\ jobs[s].pid = 0 /\ jobs'[s].pid = cur /\ jobs'[s].state = state
           /\ \A t \in Slots \ {s} : jobs'[t] = jobs[t]
  BY <1>3, <1>4 DEF TypeOK
<1> HIDE DEF state
<1>7. TypeOK'
  BY <1>1, <1>3, <1>4 DEF TypeOK, Places, Lines
<1>8. HandlerInv'
  BY <1>1, <1>2 DEF IInv, HandlerInv
<1>9. ListInv'
  BY <1>5, <1>6 DEF IInv, ListInv
<1>10. MainInv'
  BY <1>1, <1>2 DEF MainInv, Alive
<1>11. ReapInv'
  BY <1>1 DEF IInv, ReapInv
<1>12. StopInv'
  BY <1>1, <1>2, <1>3, <1>6 DEF IInv, StopInv
<1>13. NewsInv'
  BY <1>1, <1>2 DEF IInv, NewsInv, Reportable, Alive
<1>14. EntryHasChild'
  BY <1>1, <1>3, <1>6 DEF IInv, EntryHasChild, BeingDeleted
<1>15. AtMostOneFG'
  BY <1>1, <1>5, <1>6 DEF AtMostOneFG, state
<1>16. KeysSpareBackground'
  BY <1>1, <1>2 DEF KeysSpareBackground, Sigs
<1>. QED BY <1>7, <1>8, <1>9, <1>10, <1>11, <1>12, <1>13, <1>14, <1>15, <1>16 DEF IInv

\* No other job is in the foreground, and no handler has one in hand.
LEMMA SetStateStep ==
    ASSUME IInv, SetState
    PROVE  IInv'
<1>1. /\ UNCHANGED <<cmd, job, cur, masked, nextjid, stack, frame, pending, proc, news, doomed>>
      /\ pc = "found" /\ pc' = "set"
      /\ jobs' = [jobs EXCEPT ![job].state = IF cmd = "fg" THEN "FG" ELSE "BG"]
  BY DEF SetState, kernel
<1>2. /\ Alive /\ Running = {} /\ Running' = Running
      /\ \A sig \in Sigs : frame[sig].at = "idle"
  BY <1>1, MainLemma DEF SetState, Running
<1>3. job \in Slots /\ TypeOK
  BY <1>1 DEF IInv, MainInv
<1>4. \A s \in Slots :
         /\ jobs'[s].pid = jobs[s].pid
         /\ jobs'[s].state = IF s # job THEN jobs[s].state
                             ELSE IF cmd = "fg" THEN "FG" ELSE "BG"
  BY <1>1, <1>3 DEF TypeOK, Job
<1>5. TypeOK'
  <2>1. jobs' \in [Slots -> Job]
    BY <1>1, <1>3 DEF TypeOK, Job, States
  <2>. QED BY <1>1, <1>3, <2>1 DEF TypeOK, Places
<1>6. HandlerInv'
  BY <1>1, <1>2 DEF IInv, HandlerInv
<1>7. ListInv'
  BY <1>4 DEF IInv, ListInv
<1>8. MainInv'
  BY <1>1, <1>2 DEF IInv, MainInv, Alive
<1>9. ReapInv'
  BY <1>1 DEF IInv, ReapInv
<1>10. StopInv'
  BY <1>1, <1>2, <1>4 DEF IInv, StopInv, BeingMarked
<1>11. NewsInv'
  BY <1>1, <1>2 DEF IInv, NewsInv, Reportable, Alive
<1>12. EntryHasChild'
  BY <1>1, <1>4 DEF IInv, EntryHasChild, BeingDeleted
<1>13. AtMostOneFG'
  <2>1. \A s \in Slots : jobs[s].state # "FG"
    BY <1>1, <1>2, NoForeground
  <2>. QED BY <1>1, <1>4, <2>1 DEF AtMostOneFG
<1>14. KeysSpareBackground'
  BY <1>1, <1>2 DEF KeysSpareBackground, Sigs
<1>. QED BY <1>5, <1>6, <1>7, <1>8, <1>9, <1>10, <1>11, <1>12, <1>13, <1>14 DEF IInv

\* The list is as it was; a job that is continued is not stopped any more.
LEMMA SendContStep ==
    ASSUME IInv, SendCont
    PROVE  IInv'
<1>1. /\ UNCHANGED <<masked, jobs, nextjid, stack, frame>>
      /\ pc = "set" /\ Continue(jobs[job].pid)
      /\ \/ cmd = "fg" /\ pc' = "cont" /\ UNCHANGED <<cmd, job, cur>>
         \/ cmd # "fg" /\ pc' = "prompt" /\ cmd' = "none" /\ job' = 0 /\ cur' = 0
  BY DEF SendCont, list, Return
<1>2. /\ Alive /\ Running = {} /\ Running' = Running
      /\ \A sig \in Sigs : frame[sig].at = "idle"
      /\ \A p : ~BeingDeleted(p) /\ ~BeingMarked(p)
  BY <1>1, MainLemma DEF SendCont, Running
<1>3. job \in Slots /\ TypeOK /\ jobs[job].pid \in PIDs \cup {0}
  BY <1>1 DEF IInv, MainInv, TypeOK, Job
<1>4. /\ proc' \in [PIDs -> ProcStates] /\ news' \subseteq news /\ doomed' \subseteq doomed
      /\ pending \subseteq pending' /\ pending' \subseteq pending \cup {"CHLD"}
      /\ \A p \in PIDs : /\ proc'[p] = "free" <=> proc[p] = "free"
                         /\ proc'[p] = "stopped" <=> proc[p] = "stopped" /\ p # jobs[job].pid
                         /\ p \in news' <=> p \in news /\ p # jobs[job].pid
                         /\ proc'[p] # proc[p] => "CHLD" \in pending'
  <2>1. CASE jobs[job].pid \in PIDs /\ proc[jobs[job].pid] = "stopped"
    BY <1>1, <1>3, <2>1 DEF Continue, TypeOK, ProcStates
  <2>2. CASE ~(jobs[job].pid \in PIDs /\ proc[jobs[job].pid] = "stopped")
    BY <1>1, <1>3, <2>2 DEF Continue, TypeOK, kernel, IInv, ReapInv
  <2>. QED BY <2>1, <2>2
<1>5. TypeOK'
  BY <1>1, <1>3, <1>4 DEF TypeOK, Places, Lines, Sigs
<1>6. HandlerInv'
  BY <1>1, <1>2 DEF IInv, HandlerInv
<1>7. ListInv'
  BY <1>1 DEF IInv, ListInv
<1>8. MainInv'
  BY <1>1, <1>2, <1>3 DEF IInv, MainInv, Alive
<1>9. ReapInv'
  BY <1>1, <1>2, <1>3, <1>4 DEF IInv, ReapInv, Sigs, TypeOK
<1>10. StopInv'
  BY <1>1, <1>2, <1>3, <1>4 DEF IInv, StopInv, TypeOK, Job
<1>11. NewsInv'
  BY <1>1, <1>2, <1>3, <1>4 DEF IInv, NewsInv, Reportable, Alive
<1>12. EntryHasChild'
  BY <1>1, <1>3, <1>4 DEF IInv, EntryHasChild, BeingDeleted, TypeOK, Job
<1>13. AtMostOneFG'
  BY <1>1, <1>2 DEF IInv, AtMostOneFG, Alive
<1>14. KeysSpareBackground'
  BY <1>1 DEF IInv, KeysSpareBackground
<1>. QED BY <1>5, <1>6, <1>7, <1>8, <1>9, <1>10, <1>11, <1>12, <1>13, <1>14 DEF IInv

-----------------------------------------------------------------------------
(* The kernel and the world around the shell.                              *)

\* What a kill() or a child of its own accord changes: no process comes or
\* goes, and one that ends or stops has its SIGCHLD.
KernelStep ==
    /\ UNCHANGED <<jobs, nextjid, cmd, job, cur, masked, pc>>
    /\ proc' \in [PIDs -> ProcStates] /\ news' \subseteq PIDs /\ doomed' \subseteq PIDs
    /\ pending \subseteq pending' /\ pending' \subseteq Sigs
    /\ \A p \in PIDs : /\ proc'[p] = "free" <=> proc[p] = "free"
                       /\ p \in news' => proc'[p] = "stopped"
                       /\ proc'[p] = "stopped" => p \in news' \/ proc[p] = "stopped"
                       /\ proc'[p] = "stopped" /\ p \in news => p \in news'
                       /\ proc'[p] = "zombie" => proc[p] = "zombie" \/ "CHLD" \in pending'
                       /\ p \in news' => p \in news \/ "CHLD" \in pending'

\* What such a change keeps, whatever the handler that makes it does next.
LEMMA KernelLemma ==
    ASSUME IInv, KernelStep, UNCHANGED frame["CHLD"],
           "CHLD" \in Running' <=> "CHLD" \in Running
    PROVE  /\ ListInv' /\ MainInv' /\ ReapInv' /\ StopInv' /\ NewsInv'
           /\ EntryHasChild' /\ AtMostOneFG'
<1>1. TypeOK
  BY DEF IInv
<1>2. ListInv'
  BY DEF KernelStep, IInv, ListInv
<1>3. MainInv'
  BY DEF KernelStep, IInv, MainInv, Alive, Listed
<1>4. ReapInv'
  BY <1>1 DEF KernelStep, IInv, ReapInv, HandlerInv, Sigs
<1>5. StopInv'
  BY <1>1 DEF KernelStep, IInv, StopInv, Alive, BeingMarked, TypeOK, Job
<1>6. NewsInv'
  BY <1>1 DEF KernelStep, IInv, NewsInv, Reportable, Alive
<1>7. EntryHasChild'
  BY <1>1 DEF KernelStep, IInv, EntryHasChild, BeingDeleted, TypeOK, Job
<1>8. AtMostOneFG'
  BY DEF KernelStep, IInv, AtMostOneFG, Alive
<1>. QED BY <1>2, <1>3, <1>4, <1>5, <1>6, <1>7, <1>8

\* The types a kernel step needs.
KernelTypes ==
    /\ proc \in [PIDs -> ProcStates] /\ news \subseteq PIDs /\ doomed \subseteq PIDs
    /\ pending \subseteq Sigs /\ "CHLD" \in Sigs
    /\ \A p \in news : proc[p] = "stopped"

\* They follow from the invariant.
LEMMA KernelTyped == ASSUME IInv PROVE KernelTypes
BY DEF IInv, TypeOK, ReapInv, KernelTypes, Sigs

\* A SIGINT that kill() sends is such a change.
LEMMA InterruptLemma ==
    ASSUME IInv, NEW pid \in PIDs, Interrupt(pid),
           UNCHANGED <<jobs, nextjid, cmd, job, cur, masked, pc>>
    PROVE  KernelStep
<1>1. KernelTypes
  BY KernelTyped
<1>2. CASE proc[pid] = "running"
  BY <1>1, <1>2 DEF Interrupt, KernelStep, KernelTypes, ProcStates
<1>3. CASE proc[pid] = "stopped"
  BY <1>1, <1>3 DEF Interrupt, KernelStep, KernelTypes, ProcStates
<1>4. CASE proc[pid] \notin {"running", "stopped"}
  BY <1>1, <1>4 DEF Interrupt, KernelStep, KernelTypes, kernel
<1>. QED BY <1>2, <1>3, <1>4

\* The same for a stop signal, from the shell or from elsewhere.
LEMMA SuspendLemma ==
    ASSUME IInv, NEW pid \in PIDs, Suspend(pid),
           UNCHANGED <<jobs, nextjid, cmd, job, cur, masked, pc>>
    PROVE  KernelStep
<1>1. KernelTypes
  BY KernelTyped
<1>2. CASE proc[pid] = "running"
  BY <1>1, <1>2 DEF Suspend, KernelStep, KernelTypes, ProcStates
<1>3. CASE proc[pid] # "running"
  BY <1>1, <1>3 DEF Suspend, KernelStep, KernelTypes, kernel
<1>. QED BY <1>2, <1>3

\* The keys, and what children do of their own accord.
LEMMA WorldStep ==
    ASSUME IInv, TypeKey \/ \E pid \in PIDs : Exec(pid) \/ ChildEnds(pid) \/ ChildStops(pid)
    PROVE  IInv'
<1>1. TypeOK /\ KernelTypes
  BY KernelTyped DEF IInv
<1>2. /\ UNCHANGED <<stack, frame, jobs, nextjid, cmd, job, cur, masked, pc>>
      /\ KernelStep
  <2>1. CASE TypeKey
    BY <1>1, <2>1, KeysAssumption
       DEF TypeKey, main, list, kernel, KernelStep, KernelTypes, Sigs
  <2>2. ASSUME NEW pid \in PIDs, Exec(pid)
        PROVE  UNCHANGED <<stack, frame, main, list>> /\ KernelStep
    BY <1>1, <2>2 DEF Exec, main, list, KernelStep, KernelTypes, ProcStates
  <2>3. ASSUME NEW pid \in PIDs, ChildEnds(pid)
        PROVE  UNCHANGED <<stack, frame, main, list>> /\ KernelStep
    BY <1>1, <2>3 DEF ChildEnds, main, list, KernelStep, KernelTypes, ProcStates
  <2>4. ASSUME NEW pid \in PIDs, ChildStops(pid)
        PROVE  UNCHANGED <<stack, frame, main, list>> /\ KernelStep
    BY <2>4, SuspendLemma DEF ChildStops, main, list
  <2>. QED BY <2>1, <2>2, <2>3, <2>4 DEF main, list, TypeKey
<1>3. Running' = Running
  BY <1>2 DEF Running
<1>4. TypeOK'
  BY <1>1, <1>2 DEF TypeOK, KernelStep
<1>5. HandlerInv'
  BY <1>2, <1>3 DEF IInv, HandlerInv
<1>6. KeysSpareBackground'
  BY <1>2 DEF IInv, KeysSpareBackground
<1>. QED BY <1>2, <1>3, <1>4, <1>5, <1>6, KernelLemma DEF IInv

-----------------------------------------------------------------------------
(* The signal handlers.                                                    *)

\* The handler on top is one that runs; where one runs, the shell is alive.
LEMMA RunsLemma ==
    ASSUME IInv, NEW sig \in Sigs, Runs(sig)
    PROVE  /\ Alive /\ stack # <<>> /\ Head(stack) = sig /\ sig \in Running
           /\ stack \in Seq(Sigs) /\ Distinct
<1>1. Alive /\ stack # <<>> /\ Head(stack) = sig /\ stack \in Seq(Sigs)
  BY DEF Runs, IInv, TypeOK
<1>2. 1 \in DOMAIN stack /\ stack[1] = sig
  BY <1>1
<1>. QED BY <1>1, <1>2 DEF Running, IInv, HandlerInv, Distinct

\* A handler that returns leaves the others and their frames as they are.
LEMMA PopStep ==
    ASSUME IInv, NEW sig \in Sigs, Runs(sig), Pop(sig)
    PROVE  /\ stack' \in Seq(Sigs) /\ frame' \in [Sigs -> Frame]
           /\ Running' = Running \ {sig}
           /\ frame' = [frame EXCEPT ![sig] = Idle]
           /\ HandlerInv'
<1>1. /\ Popped /\ frame' = [frame EXCEPT ![sig] = Idle] /\ frame \in [Sigs -> Frame]
  BY DEF Pop, Popped, IInv, TypeOK
<1>2. stack' \in Seq(Sigs) /\ Distinct' /\ Running' = Running \ {sig}
  BY <1>1, RunsLemma, PopLemma
<1>3. Idle \in Frame /\ Idle.at = "idle"
  BY DEF Idle, Frame
<1>4. frame' \in [Sigs -> Frame]
  BY <1>1, <1>3
<1>5. \A s \in Sigs : frame'[s] = IF s = sig THEN Idle ELSE frame[s]
  BY <1>1
<1>6. HandlerInv'
  BY <1>2, <1>3, <1>5 DEF IInv, HandlerInv, Distinct
<1>. QED BY <1>1, <1>2, <1>4, <1>6

\* A handler that is entered has nothing in hand yet.
LEMMA DeliverStep ==
    ASSUME IInv, NEW sig \in Sigs, Deliver(sig)
    PROVE  IInv'
<1>1. /\ UNCHANGED <<pc, cmd, job, cur, masked, jobs, nextjid, proc, news, doomed>>
      /\ Alive /\ sig \in pending /\ sig \notin Running /\ pending' = pending \ {sig}
      /\ Pushed(sig) /\ frame' = [frame EXCEPT ![sig] = [Idle EXCEPT !.at = "start"]]
      /\ masked => sig # "CHLD"
  BY DEF Deliver, main, list, kernel, Blocked, Pushed
<1>2. TypeOK /\ Distinct
  BY DEF IInv, HandlerInv, Distinct
<1>3. stack' \in Seq(Sigs) /\ Distinct' /\ Running' = Running \cup {sig}
  BY <1>1, <1>2, PushLemma DEF TypeOK
<1>4. \A s \in Sigs : frame'[s] = IF s = sig THEN [at |-> "start", pid |-> 0, why |-> "none"]
                                  ELSE frame[s]
  BY <1>1, <1>2 DEF Idle, TypeOK
<1>5. frame["CHLD"].at = "act" \/ frame'["CHLD"].at = "act" =>
        frame'["CHLD"] = frame["CHLD"]
  BY <1>1, <1>4 DEF IInv, HandlerInv, Sigs
<1>6. TypeOK'
  <2>1. frame' \in [Sigs -> Frame]
    BY <1>1, <1>2, <1>4 DEF TypeOK, Frame
  <2>. QED BY <1>1, <1>2, <1>3, <2>1 DEF TypeOK
<1>7. HandlerInv'
  BY <1>3, <1>4 DEF IInv, HandlerInv, Distinct
<1>8. ListInv'
  BY <1>1 DEF IInv, ListInv
<1>9. MainInv'
  BY <1>1, <1>3 DEF IInv, MainInv, Alive, Listed
<1>10. ReapInv'
  BY <1>1, <1>5 DEF IInv, ReapInv
<1>11. StopInv'
  BY <1>1, <1>5 DEF IInv, StopInv, Alive, BeingMarked
<1>12. NewsInv'
  BY <1>1, <1>3 DEF IInv, NewsInv, Reportable, Alive
<1>13. EntryHasChild'
  BY <1>1, <1>5 DEF IInv, EntryHasChild, BeingDeleted
<1>14. AtMostOneFG'
  BY <1>1 DEF IInv, AtMostOneFG, Alive
<1>15. KeysSpareBackground'
  BY <1>1, <1>4 DEF IInv, KeysSpareBackground, Sigs
<1>. QED BY <1>6, <1>7, <1>8, <1>9, <1>10, <1>11, <1>12, <1>13, <1>14, <1>15 DEF IInv

\* While SIGCHLD is handled it is not blocked: eval() has no child in hand.
LEMMA ChldLemma ==
    ASSUME IInv, Runs("CHLD")
    PROVE  /\ Alive /\ "CHLD" \in Running /\ "CHLD" \in Sigs
           /\ pc # "forked" /\ ~masked
BY RunsLemma DEF IInv, MainInv, Sigs

\* A child that has ended is reaped before its job is deleted.
LEMMA WaitPidStep ==
    ASSUME IInv, WaitPid
    PROVE  IInv'
<1>1. PICK pid \in Reportable :
         /\ frame' = [frame EXCEPT !["CHLD"] =
              [at |-> "act", pid |-> pid,
               why |-> IF proc[pid] = "zombie" THEN "ended" ELSE "stopped"]]
         /\ proc' = [proc EXCEPT ![pid] = IF @ = "zombie" THEN "free" ELSE @]
         /\ news' = news \ {pid}
  BY DEF WaitPid
<1>2. /\ UNCHANGED <<pc, cmd, job, cur, masked, jobs, nextjid, stack, pending, doomed>>
      /\ frame["CHLD"].at = "start"
  BY DEF WaitPid, main, list
<1>3. /\ Alive /\ "CHLD" \in Running /\ pc # "forked" /\ ~masked /\ Running' = Running
  BY <1>2, ChldLemma DEF WaitPid, Running
<1>4. TypeOK /\ pid \in PIDs /\ (proc[pid] = "zombie" \/ proc[pid] = "stopped")
  BY DEF IInv, ReapInv, Reportable
<1>5. /\ frame'["CHLD"].at = "act" /\ frame'["CHLD"].pid = pid
      /\ frame'["CHLD"].why = IF proc[pid] = "zombie" THEN "ended" ELSE "stopped"
      /\ \A s \in Sigs \ {"CHLD"} : frame'[s] = frame[s]
      /\ frame' \in [Sigs -> Frame]
  BY <1>1, <1>4 DEF TypeOK, Sigs, Frame
<1>6. \A p \in PIDs : proc'[p] = IF p = pid /\ proc[p] = "zombie" THEN "free" ELSE proc[p]
  BY <1>1, <1>4 DEF TypeOK
<1>7. TypeOK'
  BY <1>1, <1>2, <1>4, <1>5 DEF TypeOK, ProcStates
<1>8. HandlerInv'
  BY <1>2, <1>3, <1>4, <1>5 DEF IInv, HandlerInv
<1>9. ListInv'
  BY <1>2 DEF IInv, ListInv
<1>10. MainInv'
  BY <1>2, <1>3 DEF IInv, MainInv, Alive
<1>11. ReapInv'
  <2>1. news \subseteq PIDs /\ \A p \in news : proc[p] = "stopped"
    BY DEF IInv, TypeOK, ReapInv
  <2>. QED BY <1>1, <1>4, <1>5, <1>6, <2>1 DEF ReapInv
<1>12. StopInv'
  BY <1>1, <1>2, <1>4, <1>5, <1>6 DEF IInv, StopInv, Alive, BeingMarked, TypeOK, Job
<1>13. NewsInv'
  BY <1>3 DEF NewsInv
<1>14. EntryHasChild'
  BY <1>2, <1>4, <1>5, <1>6 DEF IInv, EntryHasChild, BeingDeleted, TypeOK, Job
<1>15. AtMostOneFG'
  BY <1>2 DEF IInv, AtMostOneFG, Alive
<1>16. KeysSpareBackground'
  BY <1>2, <1>5 DEF IInv, KeysSpareBackground, Sigs
<1>. QED BY <1>7, <1>8, <1>9, <1>10, <1>11, <1>12, <1>13, <1>14, <1>15, <1>16 DEF IInv

\* The handler returns only when nothing is left to report.
LEMMA NoMoreChildrenStep ==
    ASSUME IInv, NoMoreChildren
    PROVE  IInv'
<1>1. /\ UNCHANGED <<pc, cmd, job, cur, masked, jobs, nextjid, pending, proc, news, doomed>>
      /\ frame["CHLD"].at = "start" /\ Reportable = {} /\ Pop("CHLD") /\ Runs("CHLD")
  BY DEF NoMoreChildren, main, list, kernel
<1>2. "CHLD" \in Sigs /\ TypeOK
  BY DEF Sigs, IInv
<1>3. /\ stack' \in Seq(Sigs) /\ frame' \in [Sigs -> Frame]
      /\ Running' = Running \ {"CHLD"} /\ frame' = [frame EXCEPT !["CHLD"] = Idle]
      /\ HandlerInv'
  BY <1>1, <1>2, PopStep
<1>4. /\ frame'["CHLD"].at = "idle"
      /\ \A s \in Sigs \ {"CHLD"} : frame'[s] = frame[s]
  BY <1>2, <1>3 DEF TypeOK, Idle
<1>5. TypeOK'
  BY <1>1, <1>2, <1>3 DEF TypeOK
<1>6. ListInv'
  BY <1>1 DEF IInv, ListInv
<1>7. MainInv'
  BY <1>1, <1>3 DEF IInv, MainInv, Alive, Listed
<1>8. ReapInv'
  BY <1>1, <1>4 DEF IInv, ReapInv
<1>9. StopInv'
  BY <1>1, <1>4 DEF IInv, StopInv, Alive, BeingMarked
<1>10. NewsInv'
  BY <1>1 DEF NewsInv, Reportable
<1>11. EntryHasChild'
  BY <1>1, <1>4 DEF IInv, EntryHasChild, BeingDeleted
<1>12. AtMostOneFG'
  BY <1>1 DEF IInv, AtMostOneFG, Alive
<1>13. KeysSpareBackground'
  BY <1>1, <1>4 DEF IInv, KeysSpareBackground, Sigs
<1>. QED BY <1>3, <1>5, <1>6, <1>7, <1>8, <1>9, <1>10, <1>11, <1>12, <1>13 DEF IInv

\* The handler is done with a child and asks for the next one.
Again == /\ frame' = [frame EXCEPT !["CHLD"] = [Idle EXCEPT !.at = "start"]]
         /\ UNCHANGED stack

\* Being done with a child disturbs no other handler.
LEMMA AgainStep ==
    ASSUME IInv, Again, frame["CHLD"].at = "act"
    PROVE  /\ HandlerInv' /\ frame' \in [Sigs -> Frame] /\ Running' = Running
           /\ frame'["CHLD"].at = "start"
           /\ \A s \in Sigs \ {"CHLD"} : frame'[s] = frame[s]
<1>1. "CHLD" \in Sigs /\ frame \in [Sigs -> Frame]
  BY DEF IInv, TypeOK, Sigs
<1>2. [Idle EXCEPT !.at = "start"] = [at |-> "start", pid |-> 0, why |-> "none"]
  BY DEF Idle
<1>3. /\ frame'["CHLD"] = [at |-> "start", pid |-> 0, why |-> "none"]
      /\ \A s \in Sigs \ {"CHLD"} : frame'[s] = frame[s]
  BY <1>1, <1>2 DEF Again
<1>4. frame' \in [Sigs -> Frame]
  BY <1>1, <1>2 DEF Again, Frame
<1>5. Running' = Running
  BY DEF Again, Running
<1>6. HandlerInv'
  BY <1>3, <1>5 DEF IInv, HandlerInv, Again
<1>. QED BY <1>3, <1>4, <1>5, <1>6

\* The job of a child that has been reaped goes, and only that.
LEMMA ChildEndedStep ==
    ASSUME IInv, ChildEnded
    PROVE  IInv'
<1> DEFINE pid == frame["CHLD"].pid
<1>1. /\ UNCHANGED <<pc, cmd, job, cur, masked, stack, pending, proc, news, doomed>>
      /\ frame["CHLD"].at = "act" /\ frame["CHLD"].why = "ended"
      /\ deletejob(pid) /\ Again
  BY DEF ChildEnded, main, kernel, Again
<1>2. Alive /\ "CHLD" \in Running /\ "CHLD" \in Sigs /\ pc # "forked" /\ ~masked
  BY ChldLemma DEF ChildEnded
<1>3. TypeOK /\ ListInv /\ pid \in PIDs /\ proc[pid] = "free"
  BY <1>1, <1>2 DEF IInv, HandlerInv, ReapInv
<1>4. /\ HandlerInv' /\ frame' \in [Sigs -> Frame] /\ Running' = Running
      /\ frame'["CHLD"].at = "start"
      /\ \A s \in Sigs \ {"CHLD"} : frame'[s] = frame[s]
  BY <1>1, AgainStep
<1>5. /\ jobs' \in [Slots -> Job] /\ nextjid' \in 1..(MaxJid + 1)
      /\ \A s \in Slots : jobs'[s] = IF jobs[s].pid = pid THEN Cleared ELSE jobs[s]
  BY <1>1, <1>3, DeletejobLemma
<1>6. Cleared.pid = 0 /\ Cleared.state = "UNDEF"
  BY DEF Cleared
<1>7. \A p \in PIDs : BeingDeleted(p) => p = pid
  BY DEF BeingDeleted
<1>8. TypeOK'
  BY <1>1, <1>3, <1>4, <1>5 DEF TypeOK
<1>9. ListInv'
  BY <1>3, <1>5, <1>6 DEF ListInv
<1>10. MainInv'
  BY <1>1, <1>2 DEF IInv, MainInv, Alive
<1>11. ReapInv'
  BY <1>1, <1>4 DEF IInv, ReapInv
<1>12. StopInv'
  BY <1>1, <1>5, <1>6 DEF IInv, StopInv, Alive, BeingMarked
<1>13. NewsInv'
  BY <1>2, <1>4 DEF NewsInv
<1>14. EntryHasChild'
  BY <1>1, <1>3, <1>5, <1>6, <1>7 DEF IInv, EntryHasChild, BeingDeleted, TypeOK, Job
<1>15. AtMostOneFG'
  BY <1>1, <1>5, <1>6 DEF IInv, AtMostOneFG, Alive
<1>16. KeysSpareBackground'
  BY <1>4, <1>5, <1>6 DEF IInv, KeysSpareBackground, Sigs
<1>. QED BY <1>4, <1>8, <1>9, <1>10, <1>11, <1>12, <1>13, <1>14, <1>15, <1>16 DEF IInv

\* A stopped child is marked in the list, if it is there.
LEMMA ChildStoppedStep ==
    ASSUME IInv, ChildStopped
    PROVE  IInv'
<1> DEFINE pid == frame["CHLD"].pid
           s == getjobpid(pid)
<1>1. /\ UNCHANGED <<cmd, job, cur, masked, nextjid, stack, pending, proc, news, doomed>>
      /\ frame["CHLD"].at = "act" /\ frame["CHLD"].why = "stopped" /\ Again
      /\ \/ s = 0 /\ pc' = "crash" /\ jobs' = jobs
         \/ s # 0 /\ jobs' = [jobs EXCEPT ![s].state = "ST"] /\ pc' = pc
  BY DEF ChildStopped, kernel, Again
<1>2. Alive /\ "CHLD" \in Running /\ "CHLD" \in Sigs /\ pc # "forked" /\ ~masked
  BY ChldLemma DEF ChildStopped
<1>3. TypeOK /\ ListInv /\ pid \in PIDs
  BY <1>1, <1>2 DEF IInv, HandlerInv, ReapInv
<1>4. /\ HandlerInv' /\ frame' \in [Sigs -> Frame] /\ Running' = Running
      /\ frame'["CHLD"].at = "start"
      /\ \A sig \in Sigs \ {"CHLD"} : frame'[sig] = frame[sig]
  BY <1>1, AgainStep
<1>5. \A t \in Slots : jobs[t].pid = pid <=> s = t
  BY <1>3, GetjobpidLemma
<1>6. /\ jobs' \in [Slots -> Job]
      /\ \A t \in Slots : /\ jobs'[t].pid = jobs[t].pid
                          /\ jobs'[t].state = IF jobs[t].pid = pid THEN "ST"
                                              ELSE jobs[t].state
  <2>1. CASE s = 0
    BY <1>1, <1>3, <1>5, <2>1 DEF TypeOK, Slots
  <2>2. CASE s # 0
    <3>1. jobs \in [Slots -> Job] /\ jobs' = [jobs EXCEPT ![s].state = "ST"]
      BY <1>1, <1>3, <2>2 DEF TypeOK
    <3>. HIDE DEF s
    <3>2. jobs' \in [Slots -> Job]
      BY <3>1 DEF Job, States
    <3>3. \A t \in Slots : /\ jobs'[t].pid = jobs[t].pid
                           /\ jobs'[t].state = IF s = t THEN "ST" ELSE jobs[t].state
      BY <3>1 DEF Job
    <3>. QED BY <1>5, <3>2, <3>3
  <2>. QED BY <2>1, <2>2
<1>7. pc' = pc \/ pc' = "crash"
  BY <1>1
<1> HIDE DEF s
<1>8. TypeOK'
  BY <1>1, <1>3, <1>4, <1>6, <1>7 DEF TypeOK, Places
<1>9. ListInv'
  BY <1>3, <1>6 DEF ListInv
<1>10. MainInv'
  BY <1>1, <1>2, <1>7 DEF IInv, MainInv, Alive
<1>11. ReapInv'
  BY <1>1, <1>4 DEF IInv, ReapInv
<1>12. StopInv'
  BY <1>1, <1>2, <1>6, <1>7 DEF IInv, StopInv, Alive, BeingMarked
<1>13. NewsInv'
  BY <1>2, <1>4 DEF NewsInv
<1>14. EntryHasChild'
  BY <1>1, <1>6 DEF IInv, EntryHasChild, BeingDeleted
<1>15. AtMostOneFG'
  BY <1>1, <1>2, <1>6, <1>7 DEF IInv, AtMostOneFG, Alive
<1>16. KeysSpareBackground'
  BY <1>4, <1>6 DEF IInv, KeysSpareBackground, Sigs
<1>. QED BY <1>4, <1>8, <1>9, <1>10, <1>11, <1>12, <1>13, <1>14, <1>15, <1>16 DEF IInv

\* The entries of a process that is in the foreground are in state FG.
LEMMA FgpidLemma ==
    ASSUME IInv, fgpid # 0
    PROVE  /\ fgpid \in PIDs
           /\ \A s \in Slots : jobs[s].pid = fgpid => jobs[s].state = "FG"
<1> DEFINE S == {t \in Slots : jobs[t].state = "FG"}
           s == First(S)
<1>1. s # 0 /\ fgpid = jobs[s].pid
  BY DEF fgpid
<1>2. s \in S
  BY <1>1, FirstLemma
<1>3. s \in Slots /\ jobs[s].state = "FG"
  BY <1>2
<1> HIDE DEF s
<1>. QED BY <1>1, <1>3 DEF IInv, ListInv, TypeOK, Job

\* What the handlers of the keys take in hand is in the foreground.
LEMMA FindForegroundStep ==
    ASSUME IInv, NEW sig \in {"INT", "TSTP"}, FindForeground(sig)
    PROVE  IInv'
<1>1. /\ UNCHANGED <<pc, cmd, job, cur, masked, jobs, nextjid, pending, proc, news, doomed>>
      /\ Runs(sig) /\ frame[sig].at = "start"
      /\ \/ Pop(sig)
         \/ /\ fgpid # 0 /\ UNCHANGED stack
            /\ frame' = [frame EXCEPT ![sig] = [at |-> "act", pid |-> fgpid, why |-> "none"]]
  BY DEF FindForeground, main, list, kernel
<1>2. sig \in Sigs /\ sig # "CHLD" /\ TypeOK /\ sig \in Running
  BY <1>1, RunsLemma DEF Sigs, IInv
<1>3. /\ stack' \in Seq(Sigs) /\ frame' \in [Sigs -> Frame] /\ HandlerInv'
      /\ Running' = Running \/ Running' = Running \ {sig}
      /\ \A s \in Sigs \ {sig} : frame'[s] = frame[s]
      /\ frame'[sig].at # "act" \/ (fgpid # 0 /\ frame'[sig].pid = fgpid)
  <2>1. CASE Pop(sig)
    BY <1>1, <1>2, <2>1, PopStep DEF TypeOK, Idle
  <2>2. CASE fgpid # 0 /\ UNCHANGED stack
             /\ frame' = [frame EXCEPT ![sig] = [at |-> "act", pid |-> fgpid, why |-> "none"]]
    <3>1. fgpid \in PIDs
      BY <2>2, FgpidLemma
    <3>3. \A s \in Sigs : frame'[s] = IF s = sig THEN [at |-> "act", pid |-> fgpid, why |-> "none"]
                                      ELSE frame[s]
      BY <1>2, <2>2 DEF TypeOK
    <3>4. frame' \in [Sigs -> Frame]
      BY <1>2, <2>2, <3>1 DEF TypeOK, Frame
    <3>5. Running' = Running
      BY <2>2 DEF Running
    <3>6. HandlerInv'
      BY <1>2, <2>2, <3>1, <3>3, <3>5 DEF IInv, HandlerInv
    <3>. QED BY <1>2, <2>2, <3>3, <3>4, <3>5, <3>6 DEF TypeOK
  <2>. QED BY <1>1, <2>1, <2>2
<1>4. "CHLD" \in Sigs /\ frame'["CHLD"] = frame["CHLD"]
      /\ ("CHLD" \in Running' <=> "CHLD" \in Running)
  BY <1>2, <1>3 DEF Sigs
<1>5. TypeOK'
  BY <1>1, <1>2, <1>3 DEF TypeOK
<1>6. KernelStep
  BY <1>1, KernelTyped DEF KernelStep, KernelTypes
<1>7. KeysSpareBackground'
  BY <1>1, <1>2, <1>3, FgpidLemma DEF IInv, KeysSpareBackground, Sigs
<1>. QED BY <1>3, <1>4, <1>5, <1>6, <1>7, KernelLemma DEF IInv

\* kill() by a handler is a change of the kernel's, and the handler is gone.
LEMMA ForwardStep ==
    ASSUME IInv, NEW sig \in {"INT", "TSTP"}, Forward(sig)
    PROVE  IInv'
<1>1. /\ UNCHANGED <<jobs, nextjid, cmd, job, cur, masked, pc>>
      /\ Runs(sig) /\ frame[sig].at = "act" /\ Pop(sig)
      /\ Interrupt(frame[sig].pid) \/ Suspend(frame[sig].pid)
  BY DEF Forward, main, list
<1>2. sig \in Sigs /\ sig # "CHLD" /\ "CHLD" \in Sigs /\ TypeOK /\ frame[sig].pid \in PIDs
  BY <1>1 DEF IInv, HandlerInv, Sigs
<1>3. KernelStep
  BY <1>1, <1>2, InterruptLemma, SuspendLemma
<1>4. /\ stack' \in Seq(Sigs) /\ frame' \in [Sigs -> Frame] /\ HandlerInv'
      /\ Running' = Running \ {sig} /\ frame' = [frame EXCEPT ![sig] = Idle]
  BY <1>1, <1>2, PopStep
<1>5. /\ frame'[sig].at = "idle" /\ frame'["CHLD"] = frame["CHLD"]
      /\ \A s \in Sigs \ {sig} : frame'[s] = frame[s]
      /\ "CHLD" \in Running' <=> "CHLD" \in Running
  BY <1>2, <1>4 DEF TypeOK, Idle
<1>6. TypeOK'
  BY <1>2, <1>3, <1>4 DEF TypeOK, KernelStep
<1>7. KeysSpareBackground'
  BY <1>1, <1>5 DEF IInv, KeysSpareBackground, Sigs
<1>. QED BY <1>3, <1>4, <1>5, <1>6, <1>7, KernelLemma DEF IInv

-----------------------------------------------------------------------------
(* The theorems.                                                           *)

\* The shell starts with an empty list, and with no child.
LEMMA InitIInv == ASSUME Init PROVE IInv
<1>1. /\ jobs = [s \in Slots |-> Cleared] /\ nextjid = 1
      /\ pc = "prompt" /\ cmd = "none" /\ job = 0 /\ cur = 0 /\ masked = FALSE
      /\ stack = <<>> /\ frame = [sig \in Sigs |-> Idle] /\ pending = {}
      /\ proc = [pid \in PIDs |-> "free"] /\ news = {} /\ doomed = {}
  BY DEF Init, initjobs
<1>2. Cleared \in Job /\ Cleared.pid = 0 /\ Cleared.state = "UNDEF"
  BY JobListAssumption DEF Cleared, Job, States
<1>3. Idle \in Frame /\ Idle.at = "idle" /\ "CHLD" \in Sigs
  BY DEF Idle, Frame, Sigs
<1>4. TypeOK
  <2>1. jobs \in [Slots -> Job] /\ nextjid \in 1..(MaxJid + 1)
    BY <1>1, <1>2, JobListAssumption
  <2>2. stack \in Seq(Sigs) /\ frame \in [Sigs -> Frame]
    BY <1>1, <1>3
  <2>3. proc \in [PIDs -> ProcStates] /\ pc \in Places /\ cmd \in Lines
    BY <1>1 DEF ProcStates, Places, Lines
  <2>. QED BY <1>1, <2>1, <2>2, <2>3 DEF TypeOK
<1>5. Running = {}
  BY <1>1 DEF Running
<1>6. HandlerInv
  BY <1>1, <1>3, <1>5 DEF HandlerInv
<1>7. ListInv /\ StopInv /\ EntryHasChild
  BY <1>1, <1>2 DEF ListInv, StopInv, EntryHasChild
<1>8. MainInv /\ ReapInv
  BY <1>1, <1>3, <1>5 DEF MainInv, ReapInv, Alive
<1>9. NewsInv
  BY <1>1 DEF NewsInv, Reportable
<1>10. AtMostOneFG /\ KeysSpareBackground
  BY <1>1, <1>2 DEF AtMostOneFG, KeysSpareBackground
<1>. QED BY <1>4, <1>6, <1>7, <1>8, <1>9, <1>10 DEF IInv

\* The invariant depends on nothing but the variables.
LEMMA StutterStep == ASSUME IInv, UNCHANGED vars PROVE IInv'
<1>1. /\ UNCHANGED <<stack, frame, jobs, nextjid, cmd, job, cur, masked, pc>>
      /\ UNCHANGED <<pending, proc, news, doomed>>
  BY DEF vars, main, list, kernel
<1>2. KernelStep
  BY <1>1, KernelTyped DEF KernelStep, KernelTypes
<1>3. TypeOK' /\ HandlerInv' /\ KeysSpareBackground' /\ Running' = Running
  BY <1>1 DEF IInv, TypeOK, HandlerInv, KeysSpareBackground, Running
<1>. QED BY <1>1, <1>2, <1>3, KernelLemma DEF IInv

\* Every step keeps the invariant.
LEMMA NextIInv == ASSUME IInv, [Next]_vars PROVE IInv'
<1>1. CASE Main
  BY <1>1, LeaveStep, ForkStep, AddJobStep, FindJobStep, SetStateStep, SendContStep,
     CallWaitfgStep, WaitfgReturnsStep DEF Main
<1>2. ASSUME NEW sig \in Sigs, Handler(sig) PROVE IInv'
  BY <1>2, DeliverStep, WaitPidStep, NoMoreChildrenStep, ChildEndedStep, ChildStoppedStep,
     FindForegroundStep, ForwardStep DEF Handler
<1>3. CASE World
  BY <1>3, WorldStep, LeaveStep DEF World
<1>4. CASE Over \/ UNCHANGED vars
  BY <1>4, StutterStep DEF Over
<1>. QED BY <1>1, <1>2, <1>3, <1>4 DEF Next

\* The conjunction of everything the actors rely on holds in every reachable
\* state, for every number of processes and every length of the job list.
THEOREM ShellInvariant == Spec => []IInv
<1>1. Init => IInv
  BY InitIInv
<1>2. IInv /\ [Next]_vars => IInv'
  BY NextIInv
<1>. QED BY <1>1, <1>2, PTL DEF Spec

\* Every variable keeps its type, and the handlers nest as sigaction() promises
\* (line 667): no handler is entered while it runs, each has a frame exactly
\* while it is on the stack, and what it is about to act on is a process.
THEOREM TypeCorrect == Spec => [](TypeOK /\ HandlerInv)
<1>1. IInv => TypeOK /\ HandlerInv
  BY DEF IInv
<1>. QED BY <1>1, ShellInvariant, PTL

\* No job outlives its process: a SIGCHLD is handled after addjob(), for
\* SIGCHLD is blocked from before fork().
THEOREM EntriesNameChildren == Spec => []EntryHasChild
<1>1. IInv => EntryHasChild
  BY DEF IInv
<1>. QED BY <1>1, ShellInvariant, PTL

\* At most one job is in the foreground, and the shell waits for it.
THEOREM OneForeground == Spec => []AtMostOneFG
<1>1. IInv => AtMostOneFG
  BY DEF IInv
<1>. QED BY <1>1, ShellInvariant, PTL

\* Neither ctrl-c nor ctrl-z reaches a background job, although the handlers
\* look the foreground job up some steps before they signal it.
THEOREM KeysStayInForeground == Spec => []KeysSpareBackground
<1>1. IInv => KeysSpareBackground
  BY DEF IInv
<1>. QED BY <1>1, ShellInvariant, PTL

\* Merged SIGCHLDs lose nothing: while a child has something to report the
\* handler is to come or at work, and then no stopped job is listed as running.
THEOREM NothingUnreported == Spec => []NoLostNotification
<1>1. IInv => NoLostNotification
  <2>1. SUFFICES ASSUME IInv, "CHLD" \notin pending \cup Running, Alive
                 PROVE  NoLostNotification
    BY DEF NoLostNotification
  <2>2. Reportable = {}
    BY <2>1 DEF IInv, NewsInv
  <2>3. \A pid : ~BeingMarked(pid)
    BY <2>1 DEF IInv, HandlerInv, BeingMarked, Sigs
  <2>4. news = {}
    BY <2>1, <2>2 DEF Reportable, IInv, TypeOK
  <2>. QED BY <2>1, <2>2, <2>3, <2>4 DEF IInv, StopInv, NoLostNotification
<1>. QED BY <1>1, ShellInvariant, PTL

\* Only do_bgfg() puts a job in the background, and never while one is in the
\* foreground.
LEMMA NotToBackground ==
    ASSUME IInv, [Next]_vars, NEW s \in Slots, jobs[s].pid # 0,
           jobs'[s].pid = jobs[s].pid, jobs[s].state = "FG"
    PROVE  jobs'[s].state # "BG"
<1>1. TypeOK /\ ListInv
  BY DEF IInv
<1>2. CASE jobs' = jobs
  BY <1>2
<1>3. CASE AddJob
  <2>1. pc = "forked" /\ Alive
    BY <1>3 DEF AddJob, MainRuns
  <2>. QED BY <2>1, NoForeground
<1>4. CASE SetState
  <2>1. pc = "found" /\ Alive
    BY <1>4 DEF SetState, MainRuns
  <2>. QED BY <2>1, NoForeground
<1>5. CASE ChildEnded
  <2>1. frame["CHLD"].pid \in PIDs /\ deletejob(frame["CHLD"].pid)
    BY <1>5 DEF ChildEnded, IInv, HandlerInv, Sigs
  <2>2. jobs'[s] = jobs[s] \/ jobs'[s] = Cleared
    BY <1>1, <2>1, DeletejobLemma
  <2>. QED BY <2>2 DEF Cleared
<1>6. CASE ChildStopped
  BY <1>1, <1>6 DEF ChildStopped, TypeOK, Job
<1>7. \/ jobs' = jobs \/ AddJob \/ SetState \/ ChildEnded \/ ChildStopped
  <2>1. CASE Main
    BY <2>1 DEF Main, BlankLine, Quit, Fork, FindJob, SendCont, CallWaitfg, WaitfgReturns, list
  <2>2. ASSUME NEW sig \in Sigs, Handler(sig)
        PROVE  jobs' = jobs \/ ChildEnded \/ ChildStopped
    BY <2>2 DEF Handler, Deliver, WaitPid, NoMoreChildren, FindForeground, Forward, list
  <2>3. CASE World
    BY <2>3 DEF World, TypeKey, SigQuit, Exec, ChildEnds, ChildStops, list
  <2>4. CASE Over \/ UNCHANGED vars
    BY <2>4 DEF Over, vars, list
  <2>. QED BY <2>1, <2>2, <2>3, <2>4 DEF Next
<1>. QED BY <1>2, <1>3, <1>4, <1>5, <1>6, <1>7

\* A foreground job never turns into a background one.
THEOREM LegalTransitions == Spec => Transitions
<1> DEFINE A == \A s \in Slots : jobs[s].pid # 0 /\ jobs'[s].pid = jobs[s].pid
                  => ~(jobs[s].state = "FG" /\ jobs'[s].state = "BG")
<1>1. IInv /\ [Next]_vars => [A]_vars
  BY NotToBackground
<1>. QED BY <1>1, ShellInvariant, PTL DEF Spec, Transitions

-----------------------------------------------------------------------------
(* A job list with room for every process: what addjob() returns is never  *)
(* looked at, and this is what the shell needs instead.                    *)

Roomy == IsFiniteSet(PIDs) /\ Cardinality(PIDs) <= MAXJOBS

\* While some process is not in the list, the list is not full.
LEMMA RoomLemma ==
    ASSUME Roomy, TypeOK, ListInv, NEW pid \in PIDs \ Listed
    PROVE  \E s \in Slots : jobs[s].pid = 0
<1>1. SUFFICES ASSUME \A s \in Slots : jobs[s].pid # 0 PROVE FALSE
  OBVIOUS
<1> DEFINE f == [s \in Slots |-> jobs[s].pid]
           Others == PIDs \ {pid}
<1>2. f \in Injection(Slots, Others)
  <2>1. \A s \in Slots : jobs[s].pid \in Others
    BY <1>1, JobListAssumption DEF TypeOK, Job, Listed
  <2>2. \A s, t \in Slots : f[s] = f[t] => s = t
    BY <1>1 DEF ListInv
  <2>. QED BY <2>1, <2>2 DEF Injection, IsInjective
<1>3. IsFiniteSet(Others) /\ Cardinality(Others) = Cardinality(PIDs) - 1
  BY FS_RemoveElement DEF Roomy
<1>4. Cardinality(Slots) = MAXJOBS
  BY FS_Interval, JobListAssumption DEF Slots
<1>5. Cardinality(Slots) <= Cardinality(Others)
  BY <1>2, <1>3, FS_Injection
<1>6. Cardinality(PIDs) \in Nat /\ MAXJOBS \in Nat
  BY FS_CardinalityType, JobListAssumption DEF Roomy
<1>. QED BY <1>3, <1>4, <1>5, <1>6 DEF Roomy

\* No child is missing from the list, and no handler has crashed.
RoomInv == ChildHasEntry /\ HandlerReturns

\* The child a handler is about to mark is in the list.
LEMMA MarkedIsListed ==
    ASSUME IInv, RoomInv, Runs("CHLD"), frame["CHLD"].at = "act",
           frame["CHLD"].why = "stopped"
    PROVE  getjobpid(frame["CHLD"].pid) # 0
<1>1. Alive /\ pc # "forked" /\ "CHLD" \in Sigs
  BY ChldLemma
<1>2. frame["CHLD"].pid \in PIDs /\ proc[frame["CHLD"].pid] # "free"
  BY <1>1 DEF IInv, HandlerInv, ReapInv
<1>3. frame["CHLD"].pid \in Listed
  BY <1>1, <1>2 DEF RoomInv, ChildHasEntry
<1>. QED BY <1>2, <1>3, GetjobpidLemma DEF IInv

\* Every step keeps the children in the list.
LEMMA RoomStep ==
    ASSUME Roomy, IInv, RoomInv, [Next]_vars
    PROVE  RoomInv'
<1>1. TypeOK /\ ListInv /\ ListInv'
  BY NextIInv DEF IInv
<1> DEFINE Missing(pid) == proc[pid] # "free" /\ pid \notin Listed
                             /\ ~(pc = "forked" /\ cur = pid) /\ Alive
<1>2. \A pid \in PIDs : ~Missing(pid)
  BY DEF RoomInv, ChildHasEntry
<1>3. SUFFICES (\A pid \in PIDs : ~Missing(pid)') /\ HandlerReturns'
  BY <1>1 DEF RoomInv, ChildHasEntry, ListInv
<1>4. CASE Main
  <2>1. HandlerReturns'
    BY <1>4 DEF Main, BlankLine, Quit, Fork, AddJob, Return, FindJob, SetState, SendCont,
                CallWaitfg, WaitfgReturns, MainRuns, HandlerReturns
  <2>2. ASSUME NEW line \in {"run", "run &"}, Fork(line)
        PROVE  (\A pid \in PIDs : ~Missing(pid)') /\ HandlerReturns'
    <3>1. PICK p \in PIDs : proc' = [proc EXCEPT ![p] = "starting"] /\ cur' = p
      BY <2>2 DEF Fork
    <3>2. Listed' = Listed /\ pc' = "forked" /\ pc = "prompt" /\ Alive
      BY <2>2 DEF Fork, Listed, list, MainRuns
    <3>. QED BY <2>1, <1>1, <1>2, <3>1, <3>2 DEF TypeOK
  <2>3. CASE AddJob
    <3>1. /\ pc = "forked" /\ addjob(cur, IF cmd = "run" THEN "FG" ELSE "BG")
          /\ proc' = proc /\ Alive
      BY <2>3 DEF AddJob, kernel, MainRuns
    <3>2. cur \in PIDs \ Listed /\ nextjid <= MaxJid
      BY <3>1 DEF IInv, MainInv
    <3>3. PICK s \in Slots : jobs[s].pid = 0
      BY <1>1, <3>2, RoomLemma
    <3>4. PICK t \in Slots : /\ jobs[t].pid = 0
                             /\ \E j, st : jobs' = [jobs EXCEPT ![t] =
                                  [pid |-> cur, jid |-> j, state |-> st]]
      BY <1>1, <3>1, <3>2, <3>3, AddjobLemma DEF States
    <3>5. jobs'[t].pid = cur /\ \A u \in Slots \ {t} : jobs'[u] = jobs[u]
      BY <1>1, <3>4 DEF TypeOK
    <3>6. Listed \cup {cur} \subseteq Listed'
      BY <3>2, <3>4, <3>5, JobListAssumption DEF Listed
    <3>. QED BY <2>1, <1>2, <3>1, <3>6
  <2>4. CASE SetState
    <3>1. \A s \in Slots : jobs'[s].pid = jobs[s].pid
      BY <1>1, <2>4 DEF SetState, TypeOK, Job
    <3>2. Listed' = Listed
      BY <3>1 DEF Listed
    <3>. QED BY <2>1, <1>2, <2>4, <3>2 DEF SetState, kernel, MainRuns
  <2>5. CASE SendCont
    <3>1. Listed' = Listed /\ pc = "set" /\ Continue(jobs[job].pid) /\ Alive
      BY <2>5 DEF SendCont, list, Listed, MainRuns
    <3>2. \A pid \in PIDs : proc'[pid] = "free" => proc[pid] = "free"
      BY <1>1, <3>1 DEF Continue, TypeOK, kernel
    <3>3. \A pid \in PIDs : proc[pid] = "free" => proc'[pid] = "free"
      BY <1>1, <3>1 DEF Continue, TypeOK, kernel
    <3>. QED BY <2>1, <1>2, <3>1, <3>3
  <2>6. CASE BlankLine \/ Quit
    BY <2>1, <2>6 DEF BlankLine, Quit, Alive
  <2>7. CASE CallWaitfg \/ WaitfgReturns \/ \E line \in {"fg", "bg"} : FindJob(line)
    <3>1. /\ jobs' = jobs /\ proc' = proc /\ pc # "forked" /\ Alive
      BY <2>7 DEF CallWaitfg, WaitfgReturns, FindJob, list, kernel, MainRuns
    <3>. QED BY <2>1, <1>2, <3>1 DEF Listed
  <2>. QED BY <1>4, <2>1, <2>2, <2>3, <2>4, <2>5, <2>6, <2>7 DEF Main
<1>5. ASSUME NEW sig \in Sigs, Handler(sig)
      PROVE  (\A pid \in PIDs : ~Missing(pid)') /\ HandlerReturns'
  <2>1. Alive /\ pc # "crash"
    BY <1>5 DEF Handler, Deliver, WaitPid, NoMoreChildren, ChildEnded, ChildStopped,
                FindForeground, Forward, Runs, Alive
  <2>2. CASE Deliver(sig) \/ NoMoreChildren \/ FindForeground(sig)
    <3>1. jobs' = jobs /\ proc' = proc /\ pc' = pc /\ cur' = cur
      BY <2>2 DEF Deliver, NoMoreChildren, FindForeground, main, list, kernel
    <3>. QED BY <1>2, <2>1, <3>1 DEF Listed, Alive, HandlerReturns
  <2>3. CASE WaitPid
    <3>1. jobs' = jobs /\ pc' = pc /\ cur' = cur
      BY <2>3 DEF WaitPid, main, list
    <3>2. \A pid \in PIDs : proc[pid] = "free" => proc'[pid] = "free"
      BY <1>1, <2>3 DEF WaitPid, TypeOK
    <3>. QED BY <1>2, <2>1, <3>1, <3>2 DEF Listed, Alive, HandlerReturns
  <2>4. CASE ChildEnded
    <3>1. /\ proc' = proc /\ pc' = pc /\ cur' = cur /\ deletejob(frame["CHLD"].pid)
          /\ frame["CHLD"].pid \in PIDs /\ proc[frame["CHLD"].pid] = "free"
      BY <2>4 DEF ChildEnded, main, kernel, IInv, HandlerInv, ReapInv, Sigs
    <3>2. \A s \in Slots : jobs'[s] = jobs[s] \/ jobs[s].pid = frame["CHLD"].pid
      BY <1>1, <3>1, DeletejobLemma
    <3>3. Listed \subseteq Listed' \cup {frame["CHLD"].pid}
      BY <3>2 DEF Listed
    <3>. QED BY <1>2, <2>1, <3>1, <3>3 DEF Alive, HandlerReturns
  <2>5. CASE ChildStopped
    <3>1. /\ proc' = proc /\ cur' = cur
          /\ Runs("CHLD") /\ frame["CHLD"].at = "act" /\ frame["CHLD"].why = "stopped"
      BY <2>5 DEF ChildStopped, kernel
    <3>2. getjobpid(frame["CHLD"].pid) # 0
      BY <3>1, MarkedIsListed
    <3>3. pc' = pc /\ \A s \in Slots : jobs'[s].pid = jobs[s].pid
      <4>1. PICK s : s = getjobpid(frame["CHLD"].pid)
        OBVIOUS
      <4>2. pc' = pc /\ jobs' = [jobs EXCEPT ![s].state = "ST"]
        BY <2>5, <3>2, <4>1 DEF ChildStopped
      <4>. QED BY <1>1, <4>2 DEF TypeOK, Job
    <3>4. Listed' = Listed
      BY <3>3 DEF Listed
    <3>. QED BY <1>2, <2>1, <3>1, <3>3, <3>4 DEF Alive, HandlerReturns
  <2>6. CASE sig \in {"INT", "TSTP"} /\ Forward(sig)
    <3>1. /\ jobs' = jobs /\ pc' = pc /\ cur' = cur
          /\ frame[sig].pid \in PIDs
          /\ Interrupt(frame[sig].pid) \/ Suspend(frame[sig].pid)
      BY <2>6 DEF Forward, main, list, IInv, HandlerInv
    <3>2. UNCHANGED <<jobs, nextjid, cmd, job, cur, masked, pc>>
      BY <2>6 DEF Forward, main, list
    <3>3. KernelStep
      BY <3>1, <3>2, InterruptLemma, SuspendLemma
    <3>. QED BY <1>2, <2>1, <3>1, <3>3 DEF KernelStep, Listed, Alive, HandlerReturns
  <2>. QED BY <1>5, <2>2, <2>3, <2>4, <2>5, <2>6 DEF Handler
<1>6. CASE World
  <2>1. CASE SigQuit
    BY <2>1 DEF SigQuit, Alive, HandlerReturns
  <2>2. CASE TypeKey \/ \E pid \in PIDs : Exec(pid) \/ ChildEnds(pid) \/ ChildStops(pid)
    <3>1. /\ jobs' = jobs /\ pc' = pc /\ cur' = cur /\ stack' = stack
      BY <2>2 DEF TypeKey, Exec, ChildEnds, ChildStops, main, list
    <3>2. \A pid \in PIDs : proc[pid] = "free" => proc'[pid] = "free"
      BY <1>1, <2>2 DEF TypeKey, Exec, ChildEnds, ChildStops, Suspend, kernel, TypeOK
    <3>. QED BY <1>2, <3>1, <3>2 DEF Listed, Alive, RoomInv, HandlerReturns
  <2>. QED BY <1>6, <2>1, <2>2 DEF World
<1>7. CASE Over \/ UNCHANGED vars
  <2>1. jobs' = jobs /\ pc' = pc /\ cur' = cur /\ stack' = stack /\ proc' = proc
    BY <1>7 DEF Over, vars, main, list, kernel
  <2>. QED BY <1>2, <2>1 DEF Listed, Alive, RoomInv, HandlerReturns
<1>. QED BY <1>4, <1>5, <1>6, <1>7 DEF Next

\* It holds from the start on.
LEMMA Room == ASSUME Roomy PROVE Spec => []RoomInv
<1>1. Init => RoomInv
  <2>1. SUFFICES ASSUME Init PROVE RoomInv
    OBVIOUS
  <2>2. ListInv
    BY <2>1, InitIInv DEF IInv
  <2>. QED BY <2>1, <2>2 DEF Init, RoomInv, ChildHasEntry, HandlerReturns, ListInv
<1>2. IInv /\ RoomInv /\ [Next]_vars => RoomInv'
  BY RoomStep
<1>. QED BY <1>1, <1>2, ShellInvariant, PTL DEF Spec

\* With room for every process no child escapes the list, and none is in it
\* twice, whatever the children do between fork() and addjob().
THEOREM ChildrenListed == ASSUME Roomy PROVE Spec => []ChildHasEntry
<1>1. RoomInv => ChildHasEntry
  BY DEF RoomInv
<1>. QED BY <1>1, Room, PTL

\* With room for every process the SIGCHLD handler never dereferences the
\* NULL of getjobpid(); tsh_full shows that it does without.
THEOREM HandlerSurvives == ASSUME Roomy PROVE Spec => []HandlerReturns
<1>1. RoomInv => HandlerReturns
  BY DEF RoomInv
<1>. QED BY <1>1, Room, PTL

=============================================================================
