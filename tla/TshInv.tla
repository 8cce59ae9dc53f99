------------------------------- MODULE TshInv -------------------------------
(***************************************************************************)
(* The inductive invariant behind the shell's safety properties.  Every    *)
(* one of them is about two steps that may be far apart, with handlers     *)
(* that nest and a main thread that is interrupted in between: the         *)
(* invariant says what each of the actors may rely on when it is resumed.  *)
(***************************************************************************)
EXTENDS Tsh

\* A handler runs at most once at a time, exactly while it has a frame, and
\* a frame that is past its system call names a process.
HandlerInv ==
    /\ \A i, j \in DOMAIN stack : stack[i] = stack[j] => i = j
    /\ \A sig \in Sigs : frame[sig].at = "idle" <=> sig \notin Running
    /\ \A sig \in Sigs : frame[sig].at = "act" => frame[sig].pid \in PIDs

\* The job list is a set of processes: no process ID is in it twice.
ListInv == \A s, t \in Slots :
    jobs[s].pid # 0 /\ jobs[s].pid = jobs[t].pid => s = t

\* What the main thread has in hand.  SIGCHLD is blocked from fork() to
\* addjob(), so that the child that is about to be added is still there, is
\* not in the list yet, and no stop of it has been reported.
MainInv ==
    /\ Alive => (masked <=> pc = "forked")
    /\ masked => "CHLD" \notin Running
    /\ pc \in {"found", "set", "cont"} => job \in Slots
    /\ pc = "forked" =>
         /\ cur \in PIDs \ Listed /\ proc[cur] # "free"
         /\ proc[cur] = "stopped" => cur \in news
         /\ nextjid <= MaxJid

\* What the SIGCHLD handler has been told by waitpid(): the process it is
\* about to delete has been reaped, the one it is about to mark has not.
ReapInv ==
    /\ frame["CHLD"].at = "act" => frame["CHLD"].why \in {"ended", "stopped"}
    /\ frame["CHLD"].at = "act" =>
         (frame["CHLD"].why = "ended" <=> proc[frame["CHLD"].pid] = "free")
    /\ \A pid \in news : proc[pid] = "stopped"

BeingMarked(pid) ==
    frame["CHLD"].at = "act" /\ frame["CHLD"].pid = pid /\ frame["CHLD"].why = "stopped"

\* A job that is listed as running and is stopped is on its way to be marked.
StopInv == Alive => \A s \in Slots :
    LET pid == jobs[s].pid
    IN  jobs[s].state \in {"FG", "BG"} /\ pid # 0 /\ proc[pid] = "stopped" =>
          pid \in news \/ BeingMarked(pid) \/ (pc = "set" /\ job = s)

\* What is to be reported to waitpid() has its SIGCHLD, or its handler.
NewsInv == Alive /\ Reportable # {} => "CHLD" \in pending \cup Running

\* The conjunction is inductive, whatever the length of the job list.
IInv ==
    /\ TypeOK /\ HandlerInv /\ ListInv /\ MainInv /\ ReapInv /\ StopInv /\ NewsInv
    /\ EntryHasChild /\ AtMostOneFG /\ KeysSpareBackground

=============================================================================
