-------------------------------- MODULE Tsh ---------------------------------
(***************************************************************************)
(* The tiny shell of CS230/shlab/tsh.c: one main thread that reads and     *)
(* evaluates command lines, interrupted anywhere by the handlers of        *)
(* SIGCHLD, SIGINT and SIGTSTP, and children whose state the kernel keeps. *)
(*                                                                         *)
(*   - sa_mask is empty (line 669): a handler blocks only its own signal,  *)
(*     so handlers of different signals nest.  `stack' holds the handlers  *)
(*     that are running, the innermost first, `frame' their locals.        *)
(*   - A signal that is already pending is not queued again.               *)
(*   - What runs with every signal blocked (addjob, deletejob and the      *)
(*     assignment of ST) is one step; everything else that touches jobs or *)
(*     sends a signal is a step of its own, and any handler may come in    *)
(*     between.                                                            *)
(*                                                                         *)
(* The kernel is not in the repository and is modelled from how tsh.c uses *)
(* it: fork, setpgid and execve, waitpid(-1, WNOHANG | WUNTRACED), kill    *)
(* of a process group, SIGCHLD, and process IDs that are used again once   *)
(* their process is reaped.                                                *)
(***************************************************************************)
EXTENDS JobList, Sequences

CONSTANT Keys  \* which of SIGINT (ctrl-c) and SIGTSTP (ctrl-z) the user types

ASSUME KeysAssumption == Keys \subseteq {"INT", "TSTP"}

VARIABLES
    pc,       \* where the main thread is
    cmd,      \* the kind of the command line in hand, "none" at the prompt
    job,      \* do_bgfg(): the job pointer
    cur,      \* eval(): the child just forked; waitfg(): its argument
    masked,   \* eval() has SIGCHLD blocked
    stack, frame,  \* the handlers that are running, and their locals
    pending,  \* signals generated for the shell and not delivered
    proc,     \* the kernel's state of each process
    news,     \* stopped children that waitpid() has not reported as stopped
    doomed    \* stopped children with a SIGINT pending

main   == <<pc, cmd, job, cur, masked>>
kernel == <<proc, news, doomed>>
vars   == <<main, list, stack, frame, pending, kernel>>

Sigs  == {"CHLD", "INT", "TSTP"}
Lines == {"none", "blank", "quit", "fg", "bg", "run", "run &"}  \* `jobs' only prints
Places == {"prompt", "forked", "found", "set", "cont", "waitfg", "exit", "crash"}
ProcStates == {"free", "starting", "running", "stopped", "zombie"}
Idle  == [at |-> "idle", pid |-> 0, why |-> "none"]

Alive      == pc \notin {"exit", "crash"}
MainRuns   == Alive /\ stack = <<>>
Runs(sig)  == Alive /\ stack # <<>> /\ Head(stack) = sig
Running    == {stack[i] : i \in DOMAIN stack}
Blocked    == Running \cup (IF masked THEN {"CHLD"} ELSE {})

Init ==
    /\ initjobs
    /\ pc = "prompt" /\ cmd = "none" /\ job = 0 /\ cur = 0 /\ masked = FALSE
    /\ stack = <<>> /\ frame = [sig \in Sigs |-> Idle] /\ pending = {}
    /\ proc = [pid \in PIDs |-> "free"] /\ news = {} /\ doomed = {}

-----------------------------------------------------------------------------
(* The kernel's side of kill(-pid, ...).  A child that has not executed    *)
(* its program yet is not in a group of its own, or still has the shell's  *)
(* handlers, which find no foreground job in its copy of the list: the     *)
(* signal is lost.                                                         *)

Interrupt(pid) ==
    CASE proc[pid] = "running" ->
           /\ proc' = [proc EXCEPT ![pid] = "zombie"]
           /\ pending' = pending \cup {"CHLD"}
           /\ UNCHANGED <<news, doomed>>
      [] proc[pid] = "stopped" ->
           /\ doomed' = doomed \cup {pid}
           /\ UNCHANGED <<proc, news, pending>>
      [] OTHER -> UNCHANGED <<kernel, pending>>

Suspend(pid) ==
    IF proc[pid] = "running"
      THEN /\ proc' = [proc EXCEPT ![pid] = "stopped"]
           /\ news' = news \cup {pid}
           /\ pending' = pending \cup {"CHLD"}
           /\ UNCHANGED doomed
      ELSE UNCHANGED <<kernel, pending>>

\* SIGCONT discards a stop that was not reported; the parent is notified.
Continue(pid) ==
    IF pid \in PIDs /\ proc[pid] = "stopped"
      THEN /\ proc' = [proc EXCEPT ![pid] =
                         IF pid \in doomed THEN "zombie" ELSE "running"]
           /\ news' = news \ {pid} /\ doomed' = doomed \ {pid}
           /\ pending' = pending \cup {"CHLD"}
      ELSE UNCHANGED <<kernel, pending>>

-----------------------------------------------------------------------------
(* main() and eval().                                                      *)

\* eval() returns; its locals, and do_bgfg()'s, are gone.
Return == pc' = "prompt" /\ cmd' = "none" /\ job' = 0 /\ cur' = 0

\* argv[0] is NULL, and strcmp() reads it.
BlankLine ==
    /\ MainRuns /\ pc = "prompt"
    /\ cmd' = "blank" /\ pc' = "crash"
    /\ UNCHANGED <<job, cur, masked, list, stack, frame, pending, kernel>>

Quit ==
    /\ MainRuns /\ pc = "prompt"
    /\ cmd' = "quit" /\ pc' = "exit"
    /\ UNCHANGED <<job, cur, masked, list, stack, frame, pending, kernel>>

\* Fault: SIGCHLD is not blocked around fork() and addjob().
FaultyUnmaskedFork(line) ==
    /\ MainRuns /\ pc = "prompt" /\ nextjid <= MaxJid
    /\ \E pid \in PIDs :
         /\ proc[pid] = "free"
         /\ proc' = [proc EXCEPT ![pid] = "starting"]
         /\ cur' = pid
    /\ cmd' = line /\ pc' = "forked"
    /\ UNCHANGED <<job, masked, list, stack, frame, pending, news, doomed>>

Fork(line) ==
    /\ MainRuns /\ pc = "prompt" /\ nextjid <= MaxJid
    /\ \E pid \in PIDs :
         /\ proc[pid] = "free"
         /\ proc' = [proc EXCEPT ![pid] = "starting"]
         /\ cur' = pid
    /\ masked' = TRUE
    /\ cmd' = line /\ pc' = "forked"
    /\ UNCHANGED <<job, list, stack, frame, pending, news, doomed>>

AddJob ==
    /\ MainRuns /\ pc = "forked"
    /\ addjob(cur, IF cmd = "run" THEN "FG" ELSE "BG")
    /\ masked' = FALSE
    /\ IF cmd = "run" THEN pc' = "waitfg" /\ UNCHANGED <<cmd, job, cur>> ELSE Return
    /\ UNCHANGED <<stack, frame, pending, kernel>>

\* do_bgfg(): the job is looked up by process ID or by job ID, ...
FindJob(line) ==
    /\ MainRuns /\ pc = "prompt"
    /\ \E s \in Slots :
         /\ s \in {getjobpid(jobs[s].pid), getjobjid(jobs[s].jid)}
         /\ job' = s
    /\ cmd' = line /\ pc' = "found"
    /\ UNCHANGED <<cur, masked, list, stack, frame, pending, kernel>>

\* ... its state is set, ...
SetState ==
    /\ MainRuns /\ pc = "found"
    /\ jobs' = [jobs EXCEPT ![job].state = IF cmd = "fg" THEN "FG" ELSE "BG"]
    /\ pc' = "set"
    /\ UNCHANGED <<cmd, job, cur, masked, nextjid, stack, frame, pending, kernel>>

\* ... its group is continued (kill(0, ...) continues only the shell's), ...
SendCont ==
    /\ MainRuns /\ pc = "set"
    /\ Continue(jobs[job].pid)
    /\ IF cmd = "fg" THEN pc' = "cont" /\ UNCHANGED <<cmd, job, cur>> ELSE Return
    /\ UNCHANGED <<masked, list, stack, frame>>

\* ... and job->pid is read once more for waitfg().
CallWaitfg ==
    /\ MainRuns /\ pc = "cont"
    /\ cur' = jobs[job].pid
    /\ pc' = "waitfg"
    /\ UNCHANGED <<cmd, job, masked, list, stack, frame, pending, kernel>>

\* Fault: waitfg() sleeps once, until any signal, and does not look again.
FaultyWaitOnce ==
    /\ MainRuns /\ pc = "waitfg"
    /\ Return
    /\ UNCHANGED <<masked, list, stack, frame, pending, kernel>>

\* waitfg() sleeps as long as pid == fgpid(jobs).
WaitfgReturns ==
    /\ MainRuns /\ pc = "waitfg"
    /\ cur # fgpid
    /\ Return
    /\ UNCHANGED <<masked, list, stack, frame, pending, kernel>>

\* sigquit_handler(), wherever the shell is.
SigQuit ==
    /\ Alive
    /\ pc' = "exit"
    /\ UNCHANGED <<cmd, job, cur, masked, list, stack, frame, pending, kernel>>

-----------------------------------------------------------------------------
(* Signal handlers.                                                        *)

Deliver(sig) ==
    /\ Alive /\ sig \in pending \ Blocked
    /\ pending' = pending \ {sig}
    /\ stack' = <<sig>> \o stack
    /\ frame' = [frame EXCEPT ![sig] = [Idle EXCEPT !.at = "start"]]
    /\ UNCHANGED <<main, list, kernel>>

Pop(sig) ==
    /\ stack' = Tail(stack)
    /\ frame' = [frame EXCEPT ![sig] = Idle]

\* waitpid(): a child that has ended, or whose stop was not reported yet.
Reportable == {pid \in PIDs : proc[pid] = "zombie" \/ pid \in news}

WaitPid ==
    /\ Runs("CHLD") /\ frame["CHLD"].at = "start"
    /\ \E pid \in Reportable :
         /\ frame' = [frame EXCEPT !["CHLD"] =
              [at |-> "act", pid |-> pid,
               why |-> IF proc[pid] = "zombie" THEN "ended" ELSE "stopped"]]
         /\ proc' = [proc EXCEPT ![pid] = IF @ = "zombie" THEN "free" ELSE @]
         /\ news' = news \ {pid}
    /\ UNCHANGED <<main, list, stack, pending, doomed>>

NoMoreChildren ==
    /\ Runs("CHLD") /\ frame["CHLD"].at = "start"
    /\ Reportable = {}
    /\ Pop("CHLD")
    /\ UNCHANGED <<main, list, pending, kernel>>

\* Fault: one waitpid() for each SIGCHLD.
FaultyReapOne ==
    /\ Runs("CHLD") /\ frame["CHLD"].at = "act" /\ frame["CHLD"].why = "ended"
    /\ deletejob(frame["CHLD"].pid)
    /\ Pop("CHLD")
    /\ UNCHANGED <<main, pending, kernel>>

ChildEnded ==
    /\ Runs("CHLD") /\ frame["CHLD"].at = "act" /\ frame["CHLD"].why = "ended"
    /\ deletejob(frame["CHLD"].pid)
    /\ frame' = [frame EXCEPT !["CHLD"] = [Idle EXCEPT !.at = "start"]]
    /\ UNCHANGED <<main, stack, pending, kernel>>

\* Faults: a child that stopped is taken for one that ended, is only
\* reported to the user, or is listed as running in the background.
FaultyStoppedDeleted ==
    /\ Runs("CHLD") /\ frame["CHLD"].at = "act" /\ frame["CHLD"].why = "stopped"
    /\ deletejob(frame["CHLD"].pid)
    /\ frame' = [frame EXCEPT !["CHLD"] = [Idle EXCEPT !.at = "start"]]
    /\ UNCHANGED <<main, stack, pending, kernel>>
FaultyStoppedUnlisted ==
    /\ Runs("CHLD") /\ frame["CHLD"].at = "act" /\ frame["CHLD"].why = "stopped"
    /\ frame' = [frame EXCEPT !["CHLD"] = [Idle EXCEPT !.at = "start"]]
    /\ UNCHANGED <<main, list, stack, pending, kernel>>
FaultyStoppedAsBg ==
    /\ Runs("CHLD") /\ frame["CHLD"].at = "act" /\ frame["CHLD"].why = "stopped"
    /\ LET s == getjobpid(frame["CHLD"].pid) IN
         jobs' = IF s = 0 THEN jobs ELSE [jobs EXCEPT ![s].state = "BG"]
    /\ frame' = [frame EXCEPT !["CHLD"] = [Idle EXCEPT !.at = "start"]]
    /\ UNCHANGED <<main, nextjid, stack, pending, kernel>>

\* getjobpid() returns NULL for a child that is not in the list.
ChildStopped ==
    /\ Runs("CHLD") /\ frame["CHLD"].at = "act" /\ frame["CHLD"].why = "stopped"
    /\ LET s == getjobpid(frame["CHLD"].pid) IN
         IF s = 0
           THEN pc' = "crash" /\ UNCHANGED jobs
           ELSE jobs' = [jobs EXCEPT ![s].state = "ST"] /\ UNCHANGED pc
    /\ frame' = [frame EXCEPT !["CHLD"] = [Idle EXCEPT !.at = "start"]]
    /\ UNCHANGED <<cmd, job, cur, masked, nextjid, stack, pending, kernel>>

\* sigint_handler() and sigtstp_handler(): pid = fgpid(jobs), ...
FindForeground(sig) ==
    /\ Runs(sig) /\ frame[sig].at = "start"
    /\ IF fgpid = 0
         THEN Pop(sig)
         ELSE /\ frame' = [frame EXCEPT ![sig] =
                             [at |-> "act", pid |-> fgpid, why |-> "none"]]
              /\ UNCHANGED stack
    /\ UNCHANGED <<main, list, pending, kernel>>

\* ... then kill(-pid, sig).
Forward(sig) ==
    /\ Runs(sig) /\ frame[sig].at = "act"
    /\ IF sig = "INT" THEN Interrupt(frame[sig].pid) ELSE Suspend(frame[sig].pid)
    /\ Pop(sig)
    /\ UNCHANGED <<main, list>>

-----------------------------------------------------------------------------
(* The world around the shell.                                             *)

TypeKey ==
    /\ Alive
    /\ \E sig \in Keys : pending' = pending \cup {sig}
    /\ UNCHANGED <<main, list, stack, frame, kernel>>

Exec(pid) ==
    /\ Alive /\ proc[pid] = "starting"
    /\ proc' = [proc EXCEPT ![pid] = "running"]
    /\ UNCHANGED <<main, list, stack, frame, pending, news, doomed>>

\* A command that is not found, a program that ends, or one that is killed.
ChildEnds(pid) ==
    /\ Alive /\ proc[pid] \in {"starting", "running", "stopped"}
    /\ proc' = [proc EXCEPT ![pid] = "zombie"]
    /\ news' = news \ {pid} /\ doomed' = doomed \ {pid}
    /\ pending' = pending \cup {"CHLD"}
    /\ UNCHANGED <<main, list, stack, frame>>

\* A stop signal that does not come from the terminal (mystop.c).
ChildStops(pid) ==
    /\ Alive /\ proc[pid] = "running"
    /\ Suspend(pid)
    /\ UNCHANGED <<main, list, stack, frame>>

Over == ~Alive /\ UNCHANGED vars

-----------------------------------------------------------------------------

Main ==
    \/ BlankLine \/ Quit \/ (\E line \in {"run", "run &"} : Fork(line)) \/ AddJob
    \/ (\E line \in {"fg", "bg"} : FindJob(line)) \/ SetState \/ SendCont
    \/ CallWaitfg \/ WaitfgReturns

Handler(sig) ==
    \/ Deliver(sig)
    \/ sig = "CHLD" /\ (WaitPid \/ NoMoreChildren \/ ChildEnded \/ ChildStopped)
    \/ sig \in {"INT", "TSTP"} /\ (FindForeground(sig) \/ Forward(sig))

World == TypeKey \/ SigQuit \/ \E pid \in PIDs : Exec(pid) \/ ChildEnds(pid) \/ ChildStops(pid)

Next == Main \/ (\E sig \in Sigs : Handler(sig)) \/ World \/ Over

\* A command the shell is busy with, and a handler, get on between signals
\* however many arrive; the user need not type and children need not end.
Fairness ==
    /\ SF_vars(AddJob \/ SetState \/ SendCont \/ CallWaitfg \/ WaitfgReturns)
    /\ \A sig \in Sigs : SF_vars(Handler(sig))

Spec == Init /\ [][Next]_vars /\ Fairness

-----------------------------------------------------------------------------

Frame == [at : {"idle", "start", "act"}, pid : PIDs \cup {0},
          why : {"none", "ended", "stopped"}]

\* What the state of the shell and of the kernel's process table is made of.
TypeOK ==
    /\ jobs \in [Slots -> Job] /\ nextjid \in 1..(MaxJid + 1)
    /\ pc \in Places /\ cmd \in Lines
    /\ job \in Slots \cup {0} /\ cur \in PIDs \cup {0} /\ masked \in BOOLEAN
    /\ stack \in Seq(Sigs) /\ frame \in [Sigs -> Frame] /\ pending \subseteq Sigs
    /\ proc \in [PIDs -> ProcStates]
    /\ news \subseteq PIDs /\ doomed \subseteq PIDs

\* The child the SIGCHLD handler has just reaped and is about to delete.
BeingDeleted(pid) ==
    frame["CHLD"].at = "act" /\ frame["CHLD"].pid = pid /\ frame["CHLD"].why = "ended"

\* No job outlives its process: however soon a child ends, its SIGCHLD is
\* handled after addjob(), so that deletejob() finds it, and an entry never
\* names a process ID that the kernel may hand out again.
EntryHasChild == \A s \in Slots :
    LET pid == jobs[s].pid IN pid # 0 => proc[pid] # "free" \/ BeingDeleted(pid)

\* No child escapes the list, except the one that eval() is about to add,
\* and none is in it twice.
ChildHasEntry ==
    /\ \A pid \in PIDs :
         proc[pid] # "free" => pid \in Listed \/ (pc = "forked" /\ cur = pid) \/ ~Alive
    /\ \A s, t \in Slots :
         s # t /\ jobs[s].pid # 0 => jobs[s].pid # jobs[t].pid

\* "At most 1 job can be in the FG state" (line 34), and the shell is then
\* busy with that job: it never prompts while one is in the foreground.
AtMostOneFG ==
    LET fgs == {s \in Slots : jobs[s].state = "FG"}
    IN  /\ \A s, t \in fgs : s = t
        /\ \A s \in fgs : Alive =>
             \/ pc = "waitfg" /\ cur = jobs[s].pid
             \/ pc \in {"set", "cont"} /\ job = s /\ cmd = "fg"

\* SIGCHLDs that arrive together are merged, yet none is lost: as long as a
\* child has something to report the handler is still to come or at work, and
\* when it has nothing left no job is listed as running that is stopped (the
\* other direction fails: see StoppedIsStopped).
NoLostNotification == "CHLD" \in pending \cup Running \/ ~Alive \/
    /\ Reportable = {}
    /\ \A s \in Slots :
         jobs[s].state \in {"FG", "BG"} /\ jobs[s].pid # 0 =>
            proc[jobs[s].pid] # "stopped" \/ (pc = "set" /\ job = s)

\* "background children don't receive SIGINT (SIGTSTP) ... when we type
\* ctrl-c (ctrl-z)" (lines 166-168): what a handler is about to signal is
\* not a job in the background, although handlers nest and it looked up the
\* foreground job some steps ago.
KeysSpareBackground == \A sig \in {"INT", "TSTP"} : \A s \in Slots :
    frame[sig].at = "act" /\ frame[sig].pid = jobs[s].pid => jobs[s].state # "BG"

\* A job changes hands only by the transitions of lines 27-35, or by a stop
\* that did not come from the terminal: a foreground job never turns into a
\* background one.
Transitions == [][\A s \in Slots :
    jobs[s].pid # 0 /\ jobs'[s].pid = jobs[s].pid
      => ~(jobs[s].state = "FG" /\ jobs'[s].state = "BG")]_vars

\* Every child that ends is reaped, unless the shell has ended.
ZombiesReaped == \A pid \in PIDs :
    proc[pid] = "zombie" ~> proc[pid] # "zombie" \/ ~Alive

\* A prompt returns when the job it waits for has ended or stopped.
PromptReturns == \A pid \in PIDs :
    (pc = "waitfg" /\ cur = pid /\ proc[pid] \in {"zombie", "free", "stopped"})
      ~> (pc # "waitfg" \/ proc[pid] = "running")

\* "Block until process pid is no longer the foreground process" (line 366):
\* with no job in the foreground, waitfg() returns.
WaitfgEnds == (pc = "waitfg" /\ \A s \in Slots : jobs[s].state # "FG")
                ~> (pc # "waitfg")

\* "#define ST 3 /* stopped */" (line 25): with nothing left to handle, a
\* job listed as stopped is not running.
StoppedIsStopped == \A s \in Slots :
    jobs[s].state = "ST" /\ pc = "prompt" /\ stack = <<>> /\ "CHLD" \notin pending
      => proc[jobs[s].pid] # "running"

\* "The handler reaps all available zombie children" (lines 385-386), and
\* lives to return: a stopped or ended child never crashes it.
HandlerReturns == pc = "crash" => stack = <<>>

=============================================================================
