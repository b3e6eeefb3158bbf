------------------------------- MODULE ShellRun -------------------------------
(***************************************************************************)
(* UnixProcess (iapetusd/src/platform/unix.rs): run, behind shell.exec and *)
(* app.install, starts a shell in a process group of its own, reads its    *)
(* two pipes on threads, polls it until it ends or the timeout strikes and *)
(* kills the group then; launch, behind app.launch, starts a program and   *)
(* leaves it to a thread that reaps it.                                    *)
(*                                                                         *)
(* Calls run beside each other (an action the channel gave up on stays in  *)
(* the blocking pool) and share the process table: a pid is handed out     *)
(* again as soon as no process and no group has it. Output is counted, in  *)
(* units smaller than what one read takes.                                 *)
(***************************************************************************)
EXTENDS FiniteSets, Integers

CONSTANTS Shell, Launch,     (* calls of run, calls of launch                  *)
          Pid,
          OutputCap,         (* SHELL_OUTPUT_MAX_BYTES                         *)
          HardCeil,          (* of what a reader keeps                         *)
          PipeRoom,          (* of a pipe                                      *)
          MaxWritten         (* bound: units a run writes to both pipes        *)

ASSUME ShellAssumption ==
  /\ Shell \cap Launch = {}
  /\ Pid \subseteq Nat \ {0}
  /\ OutputCap \in Nat /\ HardCeil \in Nat /\ OutputCap < HardCeil
  /\ PipeRoom \in Nat \ {0} /\ MaxWritten \in Nat

Call == Shell \cup Launch
Stream == {"out", "err"}
DaemonGroup == 0

Phase == {"idle", "refused", "polling", "checking", "killed", "ended", "stopped", "done",
          "launched"}

(* root: came through sudo, so the daemon, which runs as a user, may not     *)
(* signal it; detached: left the group of the shell it descends from; child: *)
(* started by the daemon itself, which alone can reap it.                    *)
Process == [call : Call, group : Pid \cup {DaemonGroup}, root : BOOLEAN, detached : BOOLEAN,
            child : BOOLEAN, running : BOOLEAN, holds : SUBSET Stream]
NoProcess == [running |-> FALSE, child |-> FALSE]

NoAnswer == [none |-> TRUE]
Answer == [timedOut : BOOLEAN, truncated : BOOLEAN, length : [Stream -> 0..OutputCap]]

VARIABLES procs,     (* the process table                                      *)
          phase, pid,
          late,      (* the deadline of a run has passed                       *)
          pipe,      (* per run and stream: units in it                        *)
          got,       (* units its reader keeps                                 *)
          reader,    (* "reading", at its "end", or "cut" short                *)
          answer,
          written    (* history: units a pipe accepted                         *)

pipes == <<pipe, got, reader, written>>
vars == <<procs, phase, pid, late, pipes, answer>>

TypeOK ==
  /\ procs \in [Pid -> Process \cup {NoProcess}]
  /\ phase \in [Call -> Phase]
  /\ pid \in [Call -> Pid \cup {DaemonGroup}]
  /\ late \in [Shell -> BOOLEAN]
  /\ pipe \in [Shell -> [Stream -> Nat]]
  /\ got \in [Shell -> [Stream -> 0..HardCeil]]
  /\ reader \in [Shell -> [Stream -> {"reading", "end", "cut"}]]
  /\ answer \in [Shell -> Answer \cup {NoAnswer}]
  /\ written \in [Shell -> [Stream -> Nat]]

Init ==
  /\ procs = [p \in Pid |-> NoProcess]
  /\ phase = [c \in Call |-> "idle"]
  /\ pid = [c \in Call |-> DaemonGroup]
  /\ late = [c \in Shell |-> FALSE]
  /\ pipe = [c \in Shell |-> [s \in Stream |-> 0]]
  /\ got = [c \in Shell |-> [s \in Stream |-> 0]]
  /\ reader = [c \in Shell |-> [s \in Stream |-> "reading"]]
  /\ answer = [c \in Shell |-> NoAnswer]
  /\ written = [c \in Shell |-> [s \in Stream |-> 0]]

-----------------------------------------------------------------------------
(* The process table (the operating system's).                              *)
Alive(p) == procs[p] # NoProcess /\ procs[p].running
Zombie(p) == procs[p] # NoProcess /\ ~procs[p].running
Free(p) == procs[p] = NoProcess /\ \A q \in Pid : procs[q] # NoProcess => procs[q].group # p

(* Who ends lets go of its pipes; the daemon's children wait to be reaped.  *)
Ended(p) == IF procs[p].child THEN [procs[p] EXCEPT !.running = FALSE, !.holds = {}]
                              ELSE NoProcess
Without(P) == [p \in Pid |-> IF p \in P THEN Ended(p) ELSE procs[p]]
Reaped(p) == [procs EXCEPT ![p] = NoProcess]

Program(c, group, elevated, holds) ==
  [call |-> c, group |-> group, root |-> elevated, detached |-> FALSE,
   child |-> TRUE, running |-> TRUE, holds |-> holds]

Writers(c, s) == {p \in Pid : Alive(p) /\ procs[p].call = c /\ s \in procs[p].holds}

-----------------------------------------------------------------------------
(* What programs do: start others, with some of their output redirected or  *)
(* through sudo, leave their session, write, end.                           *)
Fork(p, q, sudo, holds) ==
  /\ Alive(p) /\ Free(q) /\ holds \subseteq procs[p].holds
  /\ procs' = [procs EXCEPT ![q] = [procs[p] EXCEPT !.child = FALSE, !.root = @ \/ sudo,
                                                   !.holds = holds]]
  /\ UNCHANGED <<phase, pid, late, pipes, answer>>

Setsid(p) ==
  /\ Alive(p) /\ procs[p].group # p
  /\ procs' = [procs EXCEPT ![p].group = p, ![p].detached = TRUE]
  /\ UNCHANGED <<phase, pid, late, pipes, answer>>

(* A full pipe makes its writer wait.                                       *)
Write(p, s) ==
  LET c == procs[p].call IN
  /\ Alive(p) /\ s \in procs[p].holds
  /\ reader[c][s] = "reading" /\ pipe[c][s] < PipeRoom
  /\ written[c]["out"] + written[c]["err"] < MaxWritten
  /\ pipe' = [pipe EXCEPT ![c][s] = @ + 1]
  /\ written' = [written EXCEPT ![c][s] = @ + 1]
  /\ UNCHANGED <<procs, phase, pid, late, got, reader, answer>>

(* Of itself, or by SIGPIPE on a pipe nobody reads.                         *)
Exit(p) ==
  /\ Alive(p)
  /\ procs' = Without({p})
  /\ UNCHANGED <<phase, pid, late, pipes, answer>>

Programs ==
  \E p \in Pid :
    \/ Setsid(p) \/ Exit(p)
    \/ \E s \in Stream : Write(p, s)
    \/ \E q \in Pid, sudo \in BOOLEAN, holds \in SUBSET Stream : Fork(p, q, sudo, holds)

-----------------------------------------------------------------------------
(* launch: no pipes, no group of its own, a thread to reap it.              *)
LaunchProgram(c, p, elevated) ==
  /\ phase[c] = "idle" /\ Free(p)
  /\ procs' = [procs EXCEPT ![p] = Program(c, DaemonGroup, elevated, {})]
  /\ pid' = [pid EXCEPT ![c] = p]
  /\ phase' = [phase EXCEPT ![c] = "launched"]
  /\ UNCHANGED <<late, pipes, answer>>

ReapForgotten(c) == FALSE
ReapLaunched(c) ==
  /\ phase[c] = "launched" /\ Zombie(pid[c])
  /\ procs' = Reaped(pid[c])
  /\ phase' = [phase EXCEPT ![c] = "done"]
  /\ UNCHANGED <<pid, late, pipes, answer>>

(* Nothing is started: the program is not in the catalog, the package has   *)
(* no name or its manager is not this system's, or the system has no room.  *)
NotStarted(c) ==
  /\ phase[c] = "idle"
  /\ phase' = [phase EXCEPT ![c] = "refused"]
  /\ UNCHANGED <<procs, pid, late, pipes, answer>>

RefuseLaunch(c) == c \in Launch /\ NotStarted(c)
RefuseShell(c) == c \in Shell /\ NotStarted(c)
Refuse(c) == RefuseLaunch(c) \/ RefuseShell(c)

-----------------------------------------------------------------------------
(* run: setsid before exec makes the shell's pid its group.                 *)
StartShell(c, p, elevated) ==
  /\ phase[c] = "idle" /\ Free(p)
  /\ procs' = [procs EXCEPT ![p] = Program(c, p, elevated, Stream)]
  /\ pid' = [pid EXCEPT ![c] = p]
  /\ phase' = [phase EXCEPT ![c] = "polling"]
  /\ UNCHANGED <<late, pipes, answer>>

DeadlinePasses(c) ==
  /\ phase[c] \in {"polling", "checking"} /\ ~late[c]
  /\ late' = [late EXCEPT ![c] = TRUE]
  /\ UNCHANGED <<procs, phase, pid, pipes, answer>>

(* try_wait finds the shell ended, and reaps it, or still running.          *)
FindEndedSweeping(c) ==
  /\ phase[c] = "polling" /\ Zombie(pid[c])
  /\ procs' = Reaped(pid[c])
  /\ phase' = [phase EXCEPT ![c] = "checking"]
  /\ UNCHANGED <<pid, late, pipes, answer>>

FindEnded(c) ==
  /\ phase[c] = "polling" /\ Zombie(pid[c])
  /\ procs' = Reaped(pid[c])
  /\ phase' = [phase EXCEPT ![c] = "ended"]
  /\ UNCHANGED <<pid, late, pipes, answer>>

FindRunning(c) ==
  /\ phase[c] = "polling" /\ Alive(pid[c])
  /\ phase' = [phase EXCEPT ![c] = "checking"]
  /\ UNCHANGED <<procs, pid, late, pipes, answer>>

SleepOn(c) ==
  /\ phase[c] = "checking" /\ ~late[c]
  /\ phase' = [phase EXCEPT ![c] = "polling"]
  /\ UNCHANGED <<procs, pid, late, pipes, answer>>

(* kill(-pid, SIGKILL): the group, as far as the daemon may signal it.      *)
ShellAlone(c) == {p \in {pid[c]} : Alive(p) /\ ~procs[p].root}
Victims(c) == {p \in Pid : Alive(p) /\ procs[p].group = pid[c] /\ ~procs[p].root}

Kill(c) ==
  /\ phase[c] = "checking" /\ late[c]
  /\ procs' = Without(Victims(c))
  /\ phase' = [phase EXCEPT ![c] = "killed"]
  /\ UNCHANGED <<pid, late, pipes, answer>>

AwaitKilled(c) ==
  /\ phase[c] = "killed" /\ Zombie(pid[c])
  /\ procs' = Reaped(pid[c])
  /\ phase' = [phase EXCEPT ![c] = "stopped"]
  /\ UNCHANGED <<pid, late, pipes, answer>>

-----------------------------------------------------------------------------
(* reader_thread: to the end of the file, which is there when nobody holds  *)
(* the pipe any more, or until it has kept all it will; it then returns and *)
(* with it the reading end goes.                                            *)
Reading(c, s) == phase[c] \notin {"idle", "refused"} /\ reader[c][s] = "reading"

Read(c, s) ==
  /\ Reading(c, s) /\ got[c][s] < HardCeil
  /\ \E n \in 1..pipe[c][s] :
       /\ pipe' = [pipe EXCEPT ![c][s] = @ - n]
       /\ got' = [got EXCEPT ![c][s] = IF @ + n < HardCeil THEN @ + n ELSE HardCeil]
  /\ UNCHANGED <<procs, phase, pid, late, reader, answer, written>>

CutShortNever(c, s) == FALSE
CutShort(c, s) ==
  /\ Reading(c, s) /\ got[c][s] = HardCeil /\ pipe[c][s] > 0
  /\ reader' = [reader EXCEPT ![c][s] = "cut"]
  /\ pipe' = [pipe EXCEPT ![c][s] = 0]
  /\ UNCHANGED <<procs, phase, pid, late, got, answer, written>>

EndOfFile(c, s) ==
  /\ Reading(c, s) /\ pipe[c][s] = 0 /\ Writers(c, s) = {}
  /\ reader' = [reader EXCEPT ![c][s] = "end"]
  /\ UNCHANGED <<procs, phase, pid, late, pipe, got, answer, written>>

Reader(c, s) == Read(c, s) \/ CutShort(c, s) \/ EndOfFile(c, s)

(* Both readers are joined; each stream is cut to the cap.                  *)
LengthUncapped(c, s) == got[c][s]
Length(c, s) == IF got[c][s] > OutputCap THEN OutputCap ELSE got[c][s]
TruncatedByReader(c) == \E s \in Stream : reader[c][s] = "cut"
Truncated(c) == \E s \in Stream : reader[c][s] = "cut" \/ got[c][s] > OutputCap

Return(c) ==
  /\ phase[c] \in {"ended", "stopped"}
  /\ \A s \in Stream : reader[c][s] # "reading"
  /\ answer' = [answer EXCEPT ![c] =
       [timedOut |-> phase[c] = "stopped", truncated |-> Truncated(c),
        length |-> [s \in Stream |-> Length(c, s)]]]
  /\ phase' = [phase EXCEPT ![c] = "done"]
  /\ UNCHANGED <<procs, pid, late, pipes>>

Run(c) == FindEnded(c) \/ FindRunning(c) \/ SleepOn(c) \/ Kill(c) \/ AwaitKilled(c) \/ Return(c)

Next ==
  \/ Programs
  \/ \E c \in Call : Refuse(c)
  \/ \E c \in Launch : ReapLaunched(c) \/ \E p \in Pid, e \in BOOLEAN : LaunchProgram(c, p, e)
  \/ \E c \in Shell : Run(c) \/ DeadlinePasses(c) \/ \E p \in Pid, e \in BOOLEAN : StartShell(c, p, e)
  \/ \E c \in Shell, s \in Stream : Reader(c, s)

(* Time passes and the daemon's threads go on; programs may do nothing.     *)
Fairness ==
  /\ \A c \in Shell : WF_vars(Run(c)) /\ WF_vars(DeadlinePasses(c))
  /\ \A c \in Shell, s \in Stream : WF_vars(Reader(c, s))
  /\ \A c \in Launch : WF_vars(ReapLaunched(c))

Spec == Init /\ [][Next]_vars
FairSpec == Spec /\ Fairness

-----------------------------------------------------------------------------
(* The kill of one call never ends a process of another, though pids and    *)
(* with them group ids are handed out again.                                *)
KillsItsOwn ==
  [][\A c \in Shell : Kill(c) => \A p \in Pid : procs'[p] # procs[p] => procs[p].call = c]_vars

(* What the caller is told is true: output is missing exactly if it says it *)
(* was truncated, and a command reported as stopped by its timeout has left *)
(* nothing running that did not leave its session (but for what runs as     *)
(* root).                                                                   *)
AnswerIsHonest ==
  \A c \in Shell : answer[c] # NoAnswer =>
    /\ answer[c].truncated <=> \E s \in Stream : answer[c].length[s] < written[c][s]
    /\ answer[c].timedOut =>
         \A p \in Pid : Alive(p) /\ procs[p].call = c => procs[p].detached \/ procs[p].root

(* A call of run returns, whatever its shell does, unless a process it does *)
(* not reach keeps it: one that outlives its shell with a pipe open, or one *)
(* the daemon may not kill.                                                 *)
Held(c) ==
  \/ phase[c] = "killed" /\ Alive(pid[c]) /\ procs[pid[c]].root
  \/ phase[c] \in {"ended", "stopped"} /\ \E s \in Stream : Writers(c, s) # {}

CallsReturn ==
  \A c \in Shell : []<>(phase[c] \in {"idle", "refused", "done"} \/ Held(c))

(* No program the daemon started stays a zombie.                            *)
ZombiesAreReaped == \A p \in Pid : Zombie(p) ~> ~Zombie(p)
=============================================================================
