------------------------------ MODULE JobList -------------------------------
(***************************************************************************)
(* The job list of CS230/shlab/tsh.c: the array jobs[MAXJOBS], nextjid,    *)
(* and the helper routines that search and change them (lines 460-592).    *)
(* A job pointer of the program is a slot of the array here, and NULL is 0.*)
(***************************************************************************)
EXTENDS Integers

CONSTANTS
    PIDs,     \* the process IDs the kernel hands out
    MAXJOBS,  \* length of the job list
    MaxJid    \* bound: the largest job ID handed out

ASSUME JobListAssumption ==
    PIDs \subseteq Nat \ {0} /\ MAXJOBS \in Nat \ {0} /\ MaxJid \in Nat

VARIABLES jobs,    \* jobs[s]: the job_t in slot s
          nextjid  \* next job ID to allocate

list == <<jobs, nextjid>>

Slots  == 1..MAXJOBS
States == {"UNDEF", "FG", "BG", "ST"}
Job    == [pid : PIDs \cup {0}, jid : 0..MaxJid, state : States]

Cleared == [pid |-> 0, jid |-> 0, state |-> "UNDEF"]  \* clearjob()

\* What the loops over the array return: the first slot that qualifies.
First(S) == IF S = {} THEN 0 ELSE CHOOSE s \in S : \A t \in S : s <= t

getjobpid(pid) == First({s \in Slots : pid >= 1 /\ jobs[s].pid = pid})
getjobjid(jid) == First({s \in Slots : jid >= 1 /\ jobs[s].jid = jid})

\* Fault: any job that runs passes for the foreground job.
FaultyAnyRunning == LET s == First({t \in Slots : jobs[t].state \in {"FG", "BG"}})
                    IN  IF s = 0 THEN 0 ELSE jobs[s].pid

\* PID of the first job in the foreground, 0 if there is none (or if the
\* first slot in state FG is one that has been cleared).
fgpid == LET s == First({t \in Slots : jobs[t].state = "FG"})
         IN  IF s = 0 THEN 0 ELSE jobs[s].pid

maxjid(js) == CHOOSE m \in {js[s].jid : s \in Slots} :
                \A s \in Slots : js[s].jid <= m

initjobs == jobs = [s \in Slots |-> Cleared] /\ nextjid = 1

\* A full list refuses the job ("Tried to create too many jobs").
addjob(pid, state) ==
    LET s == First({t \in Slots : jobs[t].pid = 0})
    IN  IF s = 0
          THEN UNCHANGED list
          ELSE /\ jobs' = [jobs EXCEPT ![s] =
                             [pid |-> pid, jid |-> nextjid, state |-> state]]
               /\ nextjid' = IF nextjid + 1 > MAXJOBS THEN 1 ELSE nextjid + 1

\* Fault: the next job ID is the largest one in use.
FaultyLastJid(pid) ==
    LET s == getjobpid(pid)
    IN  IF s = 0
          THEN UNCHANGED list
          ELSE /\ jobs' = [jobs EXCEPT ![s] = Cleared]
               /\ nextjid' = maxjid(jobs')

deletejob(pid) ==
    LET s == getjobpid(pid)
    IN  IF s = 0
          THEN UNCHANGED list
          ELSE /\ jobs' = [jobs EXCEPT ![s] = Cleared]
               /\ nextjid' = maxjid(jobs') + 1

Listed == {jobs[s].pid : s \in Slots} \ {0}

-----------------------------------------------------------------------------
(* The list on its own: background children come and go.                   *)

Create(pid) ==
    /\ pid \notin Listed /\ nextjid <= MaxJid
    /\ addjob(pid, "BG")

Reap(pid) == pid \in Listed /\ deletejob(pid)

ListSpec == initjobs /\ [][\E pid \in PIDs : Create(pid) \/ Reap(pid)]_list

\* "Find a job (by JID) on the job list" (line 566): the command `fg %jid'
\* reaches every job that the list shows under that job ID.
FoundByJid == \A s \in Slots :
    jobs[s].jid # 0 => getjobjid(jobs[s].jid) = s

=============================================================================
