----------------------------- MODULE ShellRun_proofs -----------------------------
(***************************************************************************)
(* Proofs about ShellRun, for any calls, pids and sizes.                   *)
(*                                                                         *)
(* That a kill ends processes of its own call alone needs that the group   *)
(* of a shell not yet reaped is its pid and has members of its call only   *)
(* (OwnChildren, OwnGroups): no other process can be given that pid, nor   *)
(* make it a group of its own. That nothing is left after a timeout needs  *)
(* that who has not left its session is in that group. What a reader has   *)
(* kept adds up with what was written (Counted).                           *)
(***************************************************************************)
EXTENDS ShellRun, TLAPS

Exists(p) == procs[p] # NoProcess
Unreaped(c) == phase[c] \in {"polling", "checking", "killed"}

OwnChildren ==
  /\ \A c \in Call : Unreaped(c) \/ phase[c] = "launched" =>
       pid[c] \in Pid /\ Exists(pid[c]) /\ procs[pid[c]].child /\ procs[pid[c]].call = c
  /\ \A c \in Call : phase[c] \in {"idle", "refused"} =>
       \A p \in Pid : Exists(p) => procs[p].call # c

OwnGroups ==
  \A c \in Shell : Unreaped(c) =>
    /\ procs[pid[c]].group = pid[c]
    /\ \A p \in Pid : Exists(p) =>
         /\ procs[p].group = pid[c] => procs[p].call = c
         /\ procs[p].call = c => procs[p].detached \/ procs[p].group = pid[c]

WasStopped(c) == phase[c] \in {"killed", "stopped"} \/ (answer[c] # NoAnswer /\ answer[c].timedOut)
NoneLeft(c) == \A p \in Pid : Alive(p) /\ procs[p].call = c => procs[p].detached \/ procs[p].root
StoppedIsStopped == \A c \in Shell : WasStopped(c) => NoneLeft(c)

Tally(c, s) ==
  /\ got[c][s] + pipe[c][s] <= written[c][s]
  /\ reader[c][s] = "reading" /\ got[c][s] < HardCeil => written[c][s] = got[c][s] + pipe[c][s]
  /\ reader[c][s] = "end" /\ got[c][s] < HardCeil => written[c][s] = got[c][s]
  /\ reader[c][s] = "cut" => got[c][s] < written[c][s]
Counted == \A c \in Shell, s \in Stream : Tally(c, s)

AnswerStands ==
  \A c \in Shell : answer[c] # NoAnswer =>
    /\ phase[c] = "done"
    /\ \A s \in Stream : reader[c][s] # "reading"
    /\ answer[c].truncated <=> \E s \in Stream : answer[c].length[s] < written[c][s]

-----------------------------------------------------------------------------
(* Processes are told from NoProcess, answers from NoAnswer.                *)
LEMMA Told ==
  /\ \A x \in Process : x # NoProcess
  /\ \A x \in Answer : x # NoAnswer
<1>1. ASSUME NEW x \in Process PROVE x # NoProcess
  <2>1. "call" \in DOMAIN x
    BY DEF Process
  <2>2. "call" \notin DOMAIN NoProcess
    BY DEF NoProcess
  <2>3. QED
    BY <2>1, <2>2
<1>2. ASSUME NEW x \in Answer PROVE x # NoAnswer
  <2>1. "timedOut" \in DOMAIN x
    BY DEF Answer
  <2>2. "timedOut" \notin DOMAIN NoAnswer
    BY DEF NoAnswer
  <2>3. QED
    BY <2>1, <2>2
<1>3. QED
  BY <1>1, <1>2

(* The process table stays one.                                             *)
LEMMA ProgramIsProcess ==
  ASSUME NEW c \in Call, NEW g \in Pid \cup {DaemonGroup}, NEW e \in BOOLEAN,
         NEW h \in SUBSET Stream
  PROVE  Program(c, g, e, h) \in Process
BY DEF Program, Process

LEMMA TableIsTyped ==
  ASSUME TypeOK
  PROVE  /\ \A P \in SUBSET Pid : Without(P) \in [Pid -> Process \cup {NoProcess}]
         /\ \A p \in Pid : Reaped(p) \in [Pid -> Process \cup {NoProcess}]
         /\ \A q \in Pid, x \in Process :
              [procs EXCEPT ![q] = x] \in [Pid -> Process \cup {NoProcess}]
<1> USE DEF TypeOK
<1>1. ASSUME NEW p \in Pid PROVE Ended(p) \in Process \cup {NoProcess}
  <2>1. CASE procs[p] = NoProcess
    BY <2>1 DEF Ended, NoProcess
  <2>2. CASE procs[p] \in Process
    BY <2>2 DEF Ended, Process
  <2>3. QED
    BY <2>1, <2>2
<1>2. QED
  BY <1>1 DEF Without, Reaped

-----------------------------------------------------------------------------
(* The table, the phases and every pipe are well typed.                     *)
LEMMA TypeInductive == TypeOK /\ [Next]_vars => TypeOK'
<1> SUFFICES ASSUME TypeOK, [Next]_vars PROVE TypeOK'
  OBVIOUS
<1> USE ShellAssumption DEF pipes, Call
<1>1. ASSUME NEW p \in Pid,
             \/ Setsid(p) \/ Exit(p)
             \/ \E q \in Pid, sudo \in BOOLEAN, holds \in SUBSET Stream : Fork(p, q, sudo, holds)
      PROVE  TypeOK'
  <2>1. Alive(p) /\ procs[p] \in Process
    BY <1>1 DEF TypeOK, Setsid, Exit, Fork, Alive
  <2>2. CASE Setsid(p)
    <3>1. [procs[p] EXCEPT !.group = p, !.detached = TRUE] \in Process
      BY <2>1 DEF Process
    <3>2. procs' = [procs EXCEPT ![p] = [procs[p] EXCEPT !.group = p, !.detached = TRUE]]
      BY <2>2 DEF Setsid, TypeOK
    <3>3. QED
      BY <2>2, <3>1, <3>2, TableIsTyped DEF Setsid, TypeOK
  <2>3. CASE Exit(p)
    BY <2>3, TableIsTyped DEF Exit, TypeOK
  <2>4. ASSUME NEW q \in Pid, NEW sudo \in BOOLEAN, NEW holds \in SUBSET Stream,
               Fork(p, q, sudo, holds)
        PROVE  TypeOK'
    <3>1. [procs[p] EXCEPT !.child = FALSE, !.root = @ \/ sudo, !.holds = holds] \in Process
      BY <2>1 DEF Process
    <3>2. QED
      BY <2>4, <3>1, TableIsTyped DEF Fork, TypeOK
  <2>5. QED
    BY <1>1, <2>2, <2>3, <2>4
<1>2. ASSUME NEW p \in Pid, NEW s \in Stream, Write(p, s) PROVE TypeOK'
  <2>1. procs[p] \in Process
    BY <1>2 DEF TypeOK, Write, Alive
  <2>2. CASE procs[p].call \in Shell
    BY <1>2, <2>2 DEF TypeOK, Write
  <2>3. CASE procs[p].call \notin Shell
    <3>1. pipe' = pipe /\ written' = written
      BY <1>2, <2>3 DEF TypeOK, Write
    <3>2. QED
      BY <1>2, <3>1 DEF TypeOK, Write
  <2>4. QED
    BY <2>2, <2>3
<1>3. ASSUME NEW c \in Launch, NEW p \in Pid, NEW e \in BOOLEAN, LaunchProgram(c, p, e)
      PROVE  TypeOK'
  <2>1. Program(c, DaemonGroup, e, {}) \in Process
    BY ProgramIsProcess
  <2>2. QED
    BY <1>3, <2>1, TableIsTyped DEF LaunchProgram, TypeOK, Phase
<1>4. ASSUME NEW c \in Shell, NEW p \in Pid, NEW e \in BOOLEAN, StartShell(c, p, e)
      PROVE  TypeOK'
  <2>1. Program(c, p, e, Stream) \in Process
    BY ProgramIsProcess
  <2>2. QED
    BY <1>4, <2>1, TableIsTyped DEF StartShell, TypeOK, Phase
<1>5. ASSUME NEW c \in Call, ReapLaunched(c) \/ Refuse(c) \/ FindEnded(c) \/ AwaitKilled(c)
      PROVE  TypeOK'
  <2>1. Reaped(pid[c]) \in [Pid -> Process \cup {NoProcess}]
    BY TableIsTyped DEF TypeOK, Reaped
  <2>2. QED
    BY <1>5, <2>1 DEF
        ReapLaunched, Refuse, RefuseLaunch, RefuseShell, NotStarted, FindEnded, AwaitKilled,
        TypeOK, Phase
<1>6. ASSUME NEW c \in Shell, FindRunning(c) \/ SleepOn(c) \/ Kill(c) PROVE TypeOK'
  <2>1. Without(Victims(c)) \in [Pid -> Process \cup {NoProcess}]
    BY TableIsTyped DEF Victims
  <2>2. CASE Kill(c)
    BY <2>1, <2>2 DEF Kill, TypeOK, Phase
  <2>3. CASE FindRunning(c) \/ SleepOn(c)
    BY <2>3 DEF FindRunning, SleepOn, TypeOK, Phase
  <2>4. QED
    BY <1>6, <2>2, <2>3
<1>7. ASSUME NEW c \in Shell, Return(c) PROVE TypeOK'
  <2>1. \A s \in Stream : Length(c, s) \in 0..OutputCap
    BY DEF TypeOK, Length
  <2>2. [timedOut |-> phase[c] = "stopped", truncated |-> Truncated(c),
         length |-> [s \in Stream |-> Length(c, s)]] \in Answer
    <3>1. (phase[c] = "stopped") \in BOOLEAN /\ Truncated(c) \in BOOLEAN
      BY Zenon DEF Truncated
    <3>2. [s \in Stream |-> Length(c, s)] \in [Stream -> 0..OutputCap]
      BY <2>1
    <3>3. QED
      BY <3>1, <3>2, Zenon DEF Answer
  <2>3. QED
    BY <1>7, <2>2 DEF Return, TypeOK, Phase
<1>8. ASSUME NEW c \in Shell, DeadlinePasses(c) PROVE TypeOK'
  BY <1>8 DEF DeadlinePasses, TypeOK
<1>9. ASSUME NEW c \in Shell, NEW s \in Stream, Reader(c, s) PROVE TypeOK'
  <2>1. CASE Read(c, s)
    <3>1. PICK n \in 1..pipe[c][s] :
            /\ pipe' = [pipe EXCEPT ![c][s] = @ - n]
            /\ got' = [got EXCEPT ![c][s] = IF @ + n < HardCeil THEN @ + n ELSE HardCeil]
      BY <2>1 DEF Read
    <3>2. pipe[c][s] - n \in Nat
      BY DEF TypeOK
    <3>3. (IF got[c][s] + n < HardCeil THEN got[c][s] + n ELSE HardCeil) \in 0..HardCeil
      BY DEF TypeOK
    <3>4. QED
      BY <2>1, <3>1, <3>2, <3>3 DEF Read, TypeOK
  <2>2. CASE CutShort(c, s)
    BY <2>2 DEF CutShort, TypeOK
  <2>3. CASE EndOfFile(c, s)
    <3>1. UNCHANGED <<procs, phase, pid, late, pipe, got, answer, written>>
      BY <2>3 DEF EndOfFile
    <3>2. reader' \in [Shell -> [Stream -> {"reading", "end", "cut"}]]
      BY <2>3 DEF EndOfFile, TypeOK
    <3>3. QED
      BY <3>1, <3>2 DEF TypeOK
  <2>4. QED
    BY <1>9, <2>1, <2>2, <2>3 DEF Reader
<1>10. CASE UNCHANGED vars
  BY <1>10 DEF vars, TypeOK
<1>11. QED
  BY <1>1, <1>2, <1>3, <1>4, <1>5, <1>6, <1>7, <1>8, <1>9, <1>10 DEF Next, Programs, Run

-----------------------------------------------------------------------------
(* What ending processes and reaping one leave as it was.                   *)
Kept(p) ==
  /\ Exists(p) /\ procs'[p].call = procs[p].call /\ procs'[p].group = procs[p].group
  /\ procs'[p].child = procs[p].child /\ procs'[p].root = procs[p].root
  /\ procs'[p].detached = procs[p].detached

Ends(P) ==
  \A p \in Pid :
    /\ Exists(p)' => Kept(p)
    /\ Exists(p) /\ procs[p].child => Exists(p)'
    /\ Alive(p)' => Alive(p) /\ p \notin P

LEMMA EndingKeeps ==
  ASSUME TypeOK, NEW P \in SUBSET Pid, procs' = Without(P)
  PROVE  Ends(P)
<1> SUFFICES ASSUME NEW p \in Pid
             PROVE  /\ Exists(p)' => Kept(p)
                    /\ Exists(p) /\ procs[p].child => Exists(p)'
                    /\ Alive(p)' => Alive(p) /\ p \notin P
  BY DEF Ends
<1>1. procs[p] \in Process \cup {NoProcess}
  BY DEF TypeOK
<1>2. CASE p \notin P
  <2>1. procs'[p] = procs[p]
    BY <1>2 DEF Without
  <2>2. QED
    BY <1>2, <2>1 DEF Exists, Kept, Alive
<1>3. CASE p \in P /\ Exists(p) /\ procs[p].child
  <2>1. procs'[p] = [procs[p] EXCEPT !.running = FALSE, !.holds = {}] /\ procs[p] \in Process
    BY <1>1, <1>3 DEF Without, Ended, Exists
  <2>2. procs'[p] \in Process /\ ~procs'[p].running
    BY <2>1 DEF Process
  <2>3. /\ procs'[p].call = procs[p].call /\ procs'[p].group = procs[p].group
        /\ procs'[p].child = procs[p].child /\ procs'[p].root = procs[p].root
        /\ procs'[p].detached = procs[p].detached
    BY <2>1 DEF Process
  <2>4. QED
    BY <1>3, <2>2, <2>3, Told DEF Exists, Kept, Alive
<1>4. CASE p \in P /\ ~(Exists(p) /\ procs[p].child)
  <2>1. ~procs[p].child
    BY <1>4 DEF Exists, NoProcess
  <2>2. procs'[p] = NoProcess
    BY <1>4, <2>1 DEF Without, Ended
  <2>3. QED
    BY <1>4, <2>2 DEF Exists, Kept, Alive
<1>5. QED
  BY <1>2, <1>3, <1>4

(* A table that only shrinks keeps both facts of every call whose child is  *)
(* still there.                                                             *)
LEMMA ShrinkingKeepsOwn ==
  ASSUME TypeOK, OwnChildren, OwnGroups, UNCHANGED pid,
         \A p \in Pid : Exists(p)' => Kept(p),
         \A c \in Call :
           /\ Unreaped(c)' \/ phase'[c] = "launched" =>
                (Unreaped(c) \/ phase[c] = "launched") /\ Exists(pid[c])'
           /\ Unreaped(c)' /\ c \in Shell => Unreaped(c)
           /\ phase'[c] \in {"idle", "refused"} => phase[c] \in {"idle", "refused"}
  PROVE  OwnChildren' /\ OwnGroups'
<1>1. OwnChildren'
  <2>1. ASSUME NEW c \in Call, Unreaped(c)' \/ phase'[c] = "launched"
        PROVE  (/\ pid[c] \in Pid /\ Exists(pid[c])
                /\ procs[pid[c]].child /\ procs[pid[c]].call = c)'
    <3>1. Exists(pid[c])' /\ pid[c] \in Pid /\ pid'[c] = pid[c]
      BY <2>1 DEF OwnChildren
    <3>2. Kept(pid[c]) /\ procs[pid[c]].child /\ procs[pid[c]].call = c
      BY <2>1, <3>1 DEF OwnChildren, Exists
    <3>3. QED
      BY <3>1, <3>2 DEF Kept
  <2>2. ASSUME NEW c \in Call, phase'[c] \in {"idle", "refused"}, NEW p \in Pid, Exists(p)'
        PROVE  procs'[p].call # c
    BY <2>2 DEF OwnChildren, Kept
  <2>3. QED
    BY <2>1, <2>2, Zenon DEF OwnChildren, Unreaped, Exists
<1>2. OwnGroups'
  <2> SUFFICES ASSUME NEW c \in Shell, Unreaped(c)'
               PROVE  /\ procs'[pid[c]].group = pid[c]
                      /\ \A p \in Pid : Exists(p)' =>
                           /\ procs'[p].group = pid[c] => procs'[p].call = c
                           /\ procs'[p].call = c => procs'[p].detached \/ procs'[p].group = pid[c]
    BY DEF OwnGroups, Unreaped, Exists
  <2>1. Unreaped(c) /\ Exists(pid[c])' /\ pid[c] \in Pid
    BY DEF Call, OwnChildren
  <2>2. QED
    BY <2>1 DEF OwnGroups, Kept
<1>3. QED
  BY <1>1, <1>2

LEMMA OwnInductive ==
  ASSUME TypeOK, OwnChildren, OwnGroups, [Next]_vars
  PROVE  OwnChildren' /\ OwnGroups'
<1> USE ShellAssumption DEF pipes, Call
<1>1. ASSUME NEW p \in Pid, NEW q \in Pid, NEW sudo \in BOOLEAN, NEW holds \in SUBSET Stream,
             Fork(p, q, sudo, holds)
      PROVE  OwnChildren' /\ OwnGroups'
  <2>1. /\ Exists(p) /\ ~Exists(q) /\ procs[p] \in Process /\ procs'[q] # procs[q]
        /\ procs'[q].call = procs[p].call /\ procs'[q].group = procs[p].group
        /\ procs'[q].detached = procs[p].detached
    <3>1. Exists(p) /\ ~Exists(q) /\ procs[p] \in Process
      BY <1>1 DEF Fork, Alive, Free, Exists, TypeOK
    <3>2. procs'[q] = [procs[p] EXCEPT !.child = FALSE, !.root = @ \/ sudo, !.holds = holds]
      BY <1>1 DEF Fork, TypeOK
    <3>3. procs'[q] \in Process
      BY <3>1, <3>2 DEF Process
    <3>4. QED
      BY <3>1, <3>2, <3>3, Told DEF Exists, Process
  <2>2. \A r \in Pid : r # q => procs'[r] = procs[r]
    BY <1>1 DEF Fork, TypeOK
  <2>3. UNCHANGED <<phase, pid>>
    BY <1>1 DEF Fork
  <2>4. \A c \in Call : Unreaped(c) \/ phase[c] = "launched" => pid[c] # q
    BY <2>1 DEF OwnChildren
  <2>5. OwnChildren'
    <3>1. ASSUME NEW c \in Call, (Unreaped(c) \/ phase[c] = "launched")'
          PROVE  (/\ pid[c] \in Pid /\ Exists(pid[c])
                  /\ procs[pid[c]].child /\ procs[pid[c]].call = c)'
      <4>1. /\ Unreaped(c) \/ phase[c] = "launched"
            /\ pid'[c] = pid[c]
        BY <2>3, <3>1 DEF Unreaped
      <4>2. /\ pid[c] \in Pid /\ Exists(pid[c])
            /\ procs[pid[c]].child /\ procs[pid[c]].call = c
        BY <4>1 DEF OwnChildren
      <4>3. QED
        BY <2>1, <2>2, <2>4, <4>1, <4>2 DEF Exists
    <3>2. ASSUME NEW c \in Call, phase'[c] \in {"idle", "refused"}, NEW r \in Pid, Exists(r)'
          PROVE  procs'[r].call # c
      <4>1. CASE r = q
        BY <2>1, <2>3, <3>2, <4>1 DEF OwnChildren
      <4>2. CASE r # q
        BY <2>2, <2>3, <3>2, <4>2 DEF OwnChildren, Exists
      <4>3. QED
        BY <4>1, <4>2
    <3>3. QED
      BY <3>1, <3>2 DEF OwnChildren
  <2>6. OwnGroups'
    <3> SUFFICES ASSUME NEW c \in Shell, Unreaped(c)'
                 PROVE  (/\ procs[pid[c]].group = pid[c]
                         /\ \A r \in Pid : Exists(r) =>
                              /\ procs[r].group = pid[c] => procs[r].call = c
                              /\ procs[r].call = c =>
                                   procs[r].detached \/ procs[r].group = pid[c])'
      BY DEF OwnGroups
    <3>1. Unreaped(c) /\ pid'[c] = pid[c] /\ pid[c] \in Pid /\ pid[c] # q
      BY <2>3, <2>4 DEF Unreaped, OwnChildren, OwnGroups
    <3>2. procs'[pid[c]].group = pid[c]
      BY <2>2, <3>1 DEF OwnGroups
    <3>3. ASSUME NEW r \in Pid, Exists(r)'
          PROVE  /\ procs'[r].group = pid[c] => procs'[r].call = c
                 /\ procs'[r].call = c => procs'[r].detached \/ procs'[r].group = pid[c]
      <4>1. CASE r = q
        BY <2>1, <3>1, <4>1 DEF OwnGroups
      <4>2. CASE r # q
        <5>1. procs'[r] = procs[r] /\ Exists(r)
          BY <2>2, <3>3, <4>2 DEF Exists
        <5>2. /\ procs[r].group = pid[c] => procs[r].call = c
              /\ procs[r].call = c => procs[r].detached \/ procs[r].group = pid[c]
          BY <3>1, <5>1 DEF OwnGroups, Exists
        <5>3. QED
          BY <5>1, <5>2
      <4>3. QED
        BY <4>1, <4>2
    <3>4. QED
      BY <3>1, <3>2, <3>3 DEF Exists
  <2>7. QED
    BY <2>5, <2>6
<1>2. ASSUME NEW p \in Pid, Setsid(p) PROVE OwnChildren' /\ OwnGroups'
  <2>1. /\ Exists(p) /\ procs[p] \in Process /\ procs[p].group # p
        /\ procs'[p].call = procs[p].call /\ procs'[p].group = p
        /\ procs'[p].detached /\ procs'[p].child = procs[p].child /\ Exists(p)'
    <3>1. Exists(p) /\ procs[p] \in Process /\ procs[p].group # p
      BY <1>2 DEF Setsid, Alive, Exists, TypeOK
    <3>2. procs'[p] = [procs[p] EXCEPT !.group = p, !.detached = TRUE]
      BY <1>2 DEF Setsid, TypeOK
    <3>3. procs'[p] \in Process
      BY <3>1, <3>2 DEF Process
    <3>4. QED
      BY <3>1, <3>2, <3>3, Told DEF Exists, Process
  <2>2. \A r \in Pid : r # p => procs'[r] = procs[r]
    BY <1>2 DEF Setsid, TypeOK
  <2>3. UNCHANGED <<phase, pid>>
    BY <1>2 DEF Setsid
  <2>4. \A c \in Shell : Unreaped(c) => pid[c] # p
    BY <2>1 DEF OwnGroups
  <2>5. OwnChildren'
    <3>1. ASSUME NEW c \in Call, (Unreaped(c) \/ phase[c] = "launched")'
          PROVE  (/\ pid[c] \in Pid /\ Exists(pid[c])
                  /\ procs[pid[c]].child /\ procs[pid[c]].call = c)'
      <4>1. /\ Unreaped(c) \/ phase[c] = "launched"
            /\ pid'[c] = pid[c]
        BY <2>3, <3>1 DEF Unreaped
      <4>2. /\ pid[c] \in Pid /\ Exists(pid[c])
            /\ procs[pid[c]].child /\ procs[pid[c]].call = c
        BY <4>1 DEF OwnChildren
      <4>3. CASE pid[c] = p
        BY <2>1, <4>1, <4>2, <4>3 DEF Exists
      <4>4. CASE pid[c] # p
        BY <2>2, <4>1, <4>2, <4>4 DEF Exists
      <4>5. QED
        BY <4>3, <4>4
    <3>2. ASSUME NEW c \in Call, phase'[c] \in {"idle", "refused"}, NEW r \in Pid, Exists(r)'
          PROVE  procs'[r].call # c
      <4>1. CASE r = p
        BY <2>1, <2>3, <3>2, <4>1 DEF OwnChildren
      <4>2. CASE r # p
        BY <2>2, <2>3, <3>2, <4>2 DEF OwnChildren, Exists
      <4>3. QED
        BY <4>1, <4>2
    <3>3. QED
      BY <3>1, <3>2 DEF OwnChildren
  <2>6. OwnGroups'
    <3> SUFFICES ASSUME NEW c \in Shell, Unreaped(c)'
                 PROVE  (/\ procs[pid[c]].group = pid[c]
                         /\ \A r \in Pid : Exists(r) =>
                              /\ procs[r].group = pid[c] => procs[r].call = c
                              /\ procs[r].call = c =>
                                   procs[r].detached \/ procs[r].group = pid[c])'
      BY DEF OwnGroups
    <3>1. Unreaped(c) /\ pid'[c] = pid[c] /\ pid[c] \in Pid /\ pid[c] # p
      BY <2>3, <2>4 DEF Unreaped, OwnChildren, OwnGroups
    <3>2. procs'[pid[c]].group = pid[c]
      BY <2>2, <3>1 DEF OwnGroups
    <3>3. ASSUME NEW r \in Pid, Exists(r)'
          PROVE  /\ procs'[r].group = pid[c] => procs'[r].call = c
                 /\ procs'[r].call = c => procs'[r].detached \/ procs'[r].group = pid[c]
      <4>1. CASE r = p
        BY <2>1, <3>1, <4>1 DEF OwnGroups
      <4>2. CASE r # p
        <5>1. procs'[r] = procs[r] /\ Exists(r)
          BY <2>2, <3>3, <4>2 DEF Exists
        <5>2. /\ procs[r].group = pid[c] => procs[r].call = c
              /\ procs[r].call = c => procs[r].detached \/ procs[r].group = pid[c]
          BY <3>1, <5>1 DEF OwnGroups, Exists
        <5>3. QED
          BY <5>1, <5>2
      <4>3. QED
        BY <4>1, <4>2
    <3>4. QED
      BY <3>1, <3>2, <3>3 DEF Exists
  <2>7. QED
    BY <2>5, <2>6
<1>3. ASSUME NEW p \in Pid, Exit(p) PROVE OwnChildren' /\ OwnGroups'
  <2>1. {p} \in SUBSET Pid /\ procs' = Without({p}) /\ UNCHANGED <<phase, pid>>
    BY <1>3 DEF Exit
  <2>2. ASSUME NEW r \in Pid
        PROVE  (Exists(r)' => Kept(r)) /\ (Exists(r) /\ procs[r].child => Exists(r)')
    BY <2>1, EndingKeeps DEF Ends
  <2>3. \A c \in Call : Unreaped(c) \/ phase[c] = "launched" => Exists(pid[c])'
    BY <2>1, <2>2 DEF OwnChildren, Exists
  <2>4. QED
    BY <2>1, <2>2, <2>3, ShrinkingKeepsOwn DEF Unreaped
<1>4. ASSUME NEW c \in Call, NEW p \in Pid, NEW g \in {p, DaemonGroup}, NEW e \in BOOLEAN,
             NEW h \in SUBSET Stream, phase[c] = "idle", Free(p),
             procs' = [procs EXCEPT ![p] = Program(c, g, e, h)], pid' = [pid EXCEPT ![c] = p],
             \/ phase' = [phase EXCEPT ![c] = "polling"] /\ g = p
             \/ phase' = [phase EXCEPT ![c] = "launched"]
      PROVE  OwnChildren' /\ OwnGroups'
  <2>1. /\ ~Exists(p) /\ \A q \in Pid : Exists(q) => procs[q].group # p /\ procs[q].call # c
        /\ pid'[c] = p
    BY <1>4 DEF Free, Exists, OwnChildren, TypeOK
  <2>2. /\ Exists(p)' /\ procs'[p].call = c /\ procs'[p].group = g /\ procs'[p].child
        /\ ~procs'[p].detached
    <3>1. procs'[p] = Program(c, g, e, h) /\ Program(c, g, e, h) \in Process
      BY <1>4, ProgramIsProcess DEF TypeOK
    <3>2. Exists(p)'
      BY <3>1, Told DEF Exists
    <3>3. QED
      BY <3>1, <3>2 DEF Program
  <2>3. \A q \in Pid : q # p => procs'[q] = procs[q]
    BY <1>4 DEF TypeOK
  <2>4. \A d \in Call : d # c => pid'[d] = pid[d] /\ phase'[d] = phase[d]
    BY <1>4 DEF TypeOK
  <2>5. \A d \in Call : d # c /\ (Unreaped(d) \/ phase[d] = "launched") => pid[d] # p /\ pid[d] # 0
    BY <2>1 DEF OwnChildren
  <2>6. phase'[c] \notin {"idle", "refused"}
    BY <1>4 DEF TypeOK
  <2>7. OwnChildren'
    <3>1. ASSUME NEW d \in Call, (Unreaped(d) \/ phase[d] = "launched")'
          PROVE  (/\ pid[d] \in Pid /\ Exists(pid[d])
                  /\ procs[pid[d]].child /\ procs[pid[d]].call = d)'
      <4>1. CASE d = c
        BY <2>1, <2>2, <4>1
      <4>2. CASE d # c
        <5>1. /\ Unreaped(d) \/ phase[d] = "launched"
              /\ pid'[d] = pid[d] /\ pid[d] # p
          BY <2>4, <2>5, <3>1, <4>2 DEF Unreaped
        <5>2. /\ pid[d] \in Pid /\ Exists(pid[d])
              /\ procs[pid[d]].child /\ procs[pid[d]].call = d
          BY <5>1 DEF OwnChildren
        <5>3. QED
          BY <2>3, <5>1, <5>2 DEF Exists
      <4>3. QED
        BY <4>1, <4>2
    <3>2. ASSUME NEW d \in Call, phase'[d] \in {"idle", "refused"}, NEW q \in Pid, Exists(q)'
          PROVE  procs'[q].call # d
      BY <2>2, <2>3, <2>4, <2>6, <3>2 DEF OwnChildren, Exists
    <3>3. QED
      BY <3>1, <3>2 DEF OwnChildren
  <2>8. OwnGroups'
    <3> SUFFICES ASSUME NEW d \in Shell, Unreaped(d)'
                 PROVE  (/\ procs[pid[d]].group = pid[d]
                         /\ \A q \in Pid : Exists(q) =>
                              /\ procs[q].group = pid[d] => procs[q].call = d
                              /\ procs[q].call = d =>
                                   procs[q].detached \/ procs[q].group = pid[d])'
      BY DEF OwnGroups
    <3>1. CASE d = c
      <4>1. g = p
        BY <1>4, <3>1 DEF Unreaped, TypeOK
      <4>2. QED
        BY <2>1, <2>2, <2>3, <3>1, <4>1 DEF Exists
    <3>2. CASE d # c
      <4>1. Unreaped(d) /\ pid'[d] = pid[d] /\ pid[d] # p /\ pid[d] # 0 /\ pid[d] \in Pid
        BY <2>4, <2>5, <3>2 DEF Unreaped, OwnChildren
      <4>2. g # pid[d]
        BY <4>1 DEF DaemonGroup
      <4>3. procs'[pid[d]].group = pid[d]
        BY <2>3, <4>1 DEF OwnGroups
      <4>4. ASSUME NEW q \in Pid, Exists(q)'
            PROVE  /\ procs'[q].group = pid[d] => procs'[q].call = d
                   /\ procs'[q].call = d => procs'[q].detached \/ procs'[q].group = pid[d]
        <5>1. CASE q = p
          BY <2>2, <3>2, <4>2, <5>1
        <5>2. CASE q # p
          <6>1. procs'[q] = procs[q] /\ Exists(q)
            BY <2>3, <4>4, <5>2 DEF Exists
          <6>2. QED
            BY <4>1, <6>1 DEF OwnGroups
        <5>3. QED
          BY <5>1, <5>2
      <4>5. QED
        BY <4>1, <4>3, <4>4 DEF Exists
    <3>3. QED
      BY <3>1, <3>2
  <2>9. QED
    BY <2>7, <2>8
<1>5. ASSUME NEW c \in Launch, NEW p \in Pid, NEW e \in BOOLEAN, LaunchProgram(c, p, e)
      PROVE  OwnChildren' /\ OwnGroups'
  BY <1>4, <1>5 DEF LaunchProgram
<1>6. ASSUME NEW c \in Shell, NEW p \in Pid, NEW e \in BOOLEAN, StartShell(c, p, e)
      PROVE  OwnChildren' /\ OwnGroups'
  BY <1>4, <1>6 DEF StartShell
<1>7. ASSUME NEW c \in Call, ReapLaunched(c) \/ FindEnded(c) \/ AwaitKilled(c)
      PROVE  OwnChildren' /\ OwnGroups'
  <2>1. /\ procs' = Reaped(pid[c]) /\ pid[c] \in Pid /\ procs[pid[c]].call = c /\ UNCHANGED pid
        /\ phase'[c] \in {"done", "ended", "stopped"}
        /\ \A d \in Call : d # c => phase'[d] = phase[d]
    BY <1>7 DEF ReapLaunched, FindEnded, AwaitKilled, OwnChildren, Unreaped, TypeOK
  <2>2. \A p \in Pid : procs'[p] = IF p = pid[c] THEN NoProcess ELSE procs[p]
    BY <2>1 DEF Reaped, TypeOK
  <2>3. \A p \in Pid : Exists(p)' => Kept(p)
    BY <2>2 DEF Exists, Kept
  <2>4. \A d \in Call : d # c /\ (Unreaped(d) \/ phase[d] = "launched") => Exists(pid[d])'
    BY <2>1, <2>2 DEF OwnChildren, Exists
  <2>5. QED
    BY <2>1, <2>3, <2>4, ShrinkingKeepsOwn DEF Unreaped
<1>8. ASSUME NEW c \in Shell, Kill(c) PROVE OwnChildren' /\ OwnGroups'
  <2>1. /\ Victims(c) \in SUBSET Pid /\ procs' = Without(Victims(c)) /\ UNCHANGED pid
        /\ phase[c] = "checking" /\ phase'[c] = "killed"
        /\ \A d \in Call : d # c => phase'[d] = phase[d]
    BY <1>8 DEF Kill, Victims, TypeOK
  <2>2. ASSUME NEW r \in Pid
        PROVE  (Exists(r)' => Kept(r)) /\ (Exists(r) /\ procs[r].child => Exists(r)')
    BY <2>1, EndingKeeps DEF Ends
  <2>3. \A d \in Call : Unreaped(d) \/ phase[d] = "launched" => Exists(pid[d])'
    BY <2>1, <2>2 DEF OwnChildren, Exists
  <2>4. QED
    BY <2>1, <2>2, <2>3, ShrinkingKeepsOwn DEF Unreaped
<1>9. ASSUME NEW c \in Call, UNCHANGED <<procs, pid>>,
             \/ Refuse(c) \/ FindRunning(c) \/ SleepOn(c) \/ Return(c)
             \/ UNCHANGED phase
      PROVE  OwnChildren' /\ OwnGroups'
  <2>1. /\ \A d \in Call : d # c => phase'[d] = phase[d]
        /\ Unreaped(c)' = Unreaped(c) /\ (phase'[c] = "launched" => phase[c] = "launched")
        /\ phase'[c] \in {"idle", "refused"} => phase[c] \in {"idle", "refused"}
    BY <1>9 DEF
        Refuse, RefuseLaunch, RefuseShell, NotStarted, FindRunning, SleepOn, Return, Unreaped,
        TypeOK
  <2>2. \A p \in Pid : Exists(p)' => Kept(p)
    BY <1>9 DEF Exists, Kept
  <2>3. \A d \in Call : Unreaped(d) \/ phase[d] = "launched" => Exists(pid[d])'
    BY <1>9 DEF OwnChildren, Exists
  <2>4. \A d \in Call : Unreaped(d)' => Unreaped(d)
    BY <2>1 DEF Unreaped
  <2>5. QED
    BY <1>9, <2>1, <2>2, <2>3, <2>4, ShrinkingKeepsOwn
<1>10. ASSUME NEW c \in Shell, DeadlinePasses(c) \/ FindRunning(c) \/ SleepOn(c) \/ Return(c)
       PROVE  OwnChildren' /\ OwnGroups'
  <2>1. UNCHANGED <<procs, pid>>
    BY <1>10 DEF DeadlinePasses, FindRunning, SleepOn, Return
  <2>2. QED
    BY <1>9, <1>10, <2>1 DEF DeadlinePasses
<1>11. ASSUME NEW c \in Call, Refuse(c) PROVE OwnChildren' /\ OwnGroups'
  BY <1>9, <1>11 DEF Refuse, RefuseLaunch, RefuseShell, NotStarted
<1>12. CASE UNCHANGED <<procs, phase, pid>>
  BY <1>12 DEF OwnChildren, OwnGroups, Unreaped, Exists
<1>13. ASSUME NEW p \in Pid, NEW s \in Stream, Write(p, s) PROVE UNCHANGED <<procs, phase, pid>>
  BY <1>13 DEF Write
<1>14. ASSUME NEW c \in Shell, NEW s \in Stream, Reader(c, s) PROVE UNCHANGED <<procs, phase, pid>>
  BY <1>14 DEF Reader, Read, CutShort, EndOfFile
<1>15. QED
  BY <1>1, <1>2, <1>3, <1>5, <1>6, <1>7, <1>8, <1>10, <1>11, <1>12, <1>13, <1>14
  DEF Next, Programs, Run, vars

-----------------------------------------------------------------------------
(* A reader's count: nothing but reading, and writing, touches it.          *)
LEMMA CountedInductive ==
  ASSUME TypeOK, Counted, [Next]_vars
  PROVE  Counted'
<1> USE ShellAssumption DEF pipes
<1>1. ASSUME NEW p \in Pid, NEW s \in Stream, Write(p, s) PROVE Counted'
  <2> DEFINE c == procs[p].call
  <2>1. CASE c \in Shell
    <3>1. /\ reader[c][s] = "reading"
          /\ pipe' = [pipe EXCEPT ![c][s] = @ + 1] /\ written' = [written EXCEPT ![c][s] = @ + 1]
          /\ UNCHANGED <<got, reader>>
      BY <1>1 DEF Write
    <3>2. ASSUME NEW d \in Shell, NEW t \in Stream PROVE Tally(d, t)'
      <4>1. CASE d = c /\ t = s
        <5>1. /\ pipe'[d][t] = pipe[d][t] + 1 /\ written'[d][t] = written[d][t] + 1
              /\ got'[d][t] = got[d][t] /\ reader'[d][t] = "reading" /\ reader[d][t] = "reading"
          BY <2>1, <3>1, <4>1 DEF TypeOK
        <5>2. QED
          <6>1. /\ pipe[d][t] \in Nat /\ written[d][t] \in Nat /\ got[d][t] \in Nat /\ Tally(d, t)
            BY DEF Counted, TypeOK
          <6>2. QED
            BY <5>1, <6>1 DEF Tally
      <4>2. CASE ~(d = c /\ t = s)
        <5>1. /\ pipe'[d][t] = pipe[d][t] /\ written'[d][t] = written[d][t]
              /\ got' = got /\ reader' = reader
          BY <2>1, <3>1, <4>2 DEF TypeOK
        <5>2. QED
          BY <5>1 DEF Counted, Tally
      <4>3. QED
        BY <4>1, <4>2
    <3>3. QED
      BY <3>2 DEF Counted
  <2>2. CASE c \notin Shell
    <3>1. UNCHANGED pipes
      BY <1>1, <2>2 DEF Write, TypeOK
    <3>2. QED
      BY <3>1 DEF Counted, Tally
  <2>3. QED
    BY <2>1, <2>2
<1>2. ASSUME NEW c \in Shell, NEW s \in Stream, Read(c, s) PROVE Counted'
  <2>1. PICK n \in 1..pipe[c][s] :
          /\ pipe' = [pipe EXCEPT ![c][s] = @ - n]
          /\ got' = [got EXCEPT ![c][s] = IF @ + n < HardCeil THEN @ + n ELSE HardCeil]
    BY <1>2 DEF Read
  <2>2. ASSUME NEW d \in Shell, NEW t \in Stream PROVE Tally(d, t)'
    <3>1. CASE d = c /\ t = s
      <4>1. /\ pipe'[d][t] = pipe[d][t] - n /\ n \in Nat /\ n > 0
            /\ got'[d][t] = IF got[d][t] + n < HardCeil THEN got[d][t] + n ELSE HardCeil
            /\ reader'[d][t] = "reading" /\ reader[d][t] = "reading"
            /\ written'[d][t] = written[d][t] /\ got[d][t] < HardCeil
        BY <1>2, <2>1, <3>1 DEF Read, Reading, TypeOK
      <4>2. QED
        BY <4>1 DEF Counted, Tally, TypeOK
    <3>2. CASE ~(d = c /\ t = s)
      <4>1. /\ pipe'[d][t] = pipe[d][t] /\ got'[d][t] = got[d][t]
            /\ reader' = reader /\ written' = written
        BY <1>2, <2>1, <3>2 DEF Read, TypeOK
      <4>2. QED
        BY <4>1 DEF Counted, Tally
    <3>3. QED
      BY <3>1, <3>2
  <2>3. QED
    BY <2>2 DEF Counted
<1>3. ASSUME NEW c \in Shell, NEW s \in Stream, CutShort(c, s) PROVE Counted'
  BY <1>3 DEF CutShort, Reading, Counted, Tally, TypeOK
<1>4. ASSUME NEW c \in Shell, NEW s \in Stream, EndOfFile(c, s) PROVE Counted'
  <2>1. /\ UNCHANGED <<pipe, got, written>> /\ pipe[c][s] = 0 /\ reader[c][s] = "reading"
        /\ reader' = [reader EXCEPT ![c][s] = "end"]
    BY <1>4 DEF EndOfFile, Reading
  <2>2. QED
    BY <2>1 DEF Counted, Tally, TypeOK
<1>5. CASE UNCHANGED pipes
  BY <1>5 DEF Counted, Tally
<1>6. ASSUME NEW p \in Pid,
             \/ Setsid(p) \/ Exit(p)
             \/ \E q \in Pid, sudo \in BOOLEAN, holds \in SUBSET Stream : Fork(p, q, sudo, holds)
      PROVE  UNCHANGED pipes
  BY <1>6 DEF Setsid, Exit, Fork
<1>7. ASSUME NEW c \in Call,
             \/ Refuse(c) \/ ReapLaunched(c) \/ Run(c) \/ DeadlinePasses(c)
             \/ \E p \in Pid, e \in BOOLEAN : LaunchProgram(c, p, e) \/ StartShell(c, p, e)
      PROVE  UNCHANGED pipes
  BY <1>7 DEF
      Refuse, RefuseLaunch, RefuseShell, NotStarted, ReapLaunched, Run, FindEnded, FindRunning,
      SleepOn, Kill, AwaitKilled, Return, DeadlinePasses, LaunchProgram, StartShell
<1>8. QED
  BY <1>1, <1>2, <1>3, <1>4, <1>5, <1>6, <1>7 DEF Next, Programs, Reader, Call, vars

(* An answer once given stays true: its pipes are read to the end.          *)
LEMMA AnswerInductive ==
  ASSUME TypeOK, Counted, AnswerStands, [Next]_vars
  PROVE  AnswerStands'
<1> USE ShellAssumption DEF pipes
<1>1. ASSUME NEW c \in Shell, Return(c) PROVE AnswerStands'
  <2> DEFINE new == [timedOut |-> phase[c] = "stopped", truncated |-> Truncated(c),
                     length |-> [s \in Stream |-> Length(c, s)]]
  <2>1. /\ answer' = [answer EXCEPT ![c] = new] /\ phase' = [phase EXCEPT ![c] = "done"]
        /\ UNCHANGED pipes /\ \A s \in Stream : reader[c][s] # "reading"
    BY <1>1 DEF Return
  <2>2. Truncated(c) <=> \E s \in Stream : Length(c, s) < written[c][s]
    <3>1. ASSUME NEW s \in Stream
          PROVE  reader[c][s] = "cut" \/ got[c][s] > OutputCap <=> Length(c, s) < written[c][s]
      <4>1. reader[c][s] \in {"end", "cut"} /\ Tally(c, s)
        BY <2>1 DEF TypeOK, Counted
      <4>2. QED
        BY <4>1 DEF Tally, Length, TypeOK
    <3>2. QED
      BY <3>1 DEF Truncated
  <2>3. /\ new.truncated <=> \E s \in Stream : new.length[s] < written[c][s]
    BY <2>2
  <2>4. QED
    BY <2>1, <2>3 DEF AnswerStands, TypeOK, Call
<1>2. ASSUME NEW p \in Pid, NEW s \in Stream, Write(p, s) PROVE AnswerStands'
  <2>1. UNCHANGED <<answer, phase, reader>>
    BY <1>2 DEF Write
  <2>2. ASSUME NEW c \in Shell, answer[c] # NoAnswer, NEW t \in Stream
        PROVE  written'[c][t] = written[c][t]
    BY <1>2, <2>2 DEF Write, AnswerStands, TypeOK
  <2>3. QED
    BY <2>1, <2>2 DEF AnswerStands
<1>3. ASSUME NEW c \in Shell, NEW s \in Stream, Reader(c, s) PROVE AnswerStands'
  <2>1. /\ UNCHANGED <<answer, phase, written>>
        /\ \A d \in Shell, t \in Stream : reader[d][t] # "reading" => reader'[d][t] = reader[d][t]
    BY <1>3 DEF Reader, Read, CutShort, EndOfFile, Reading, TypeOK
  <2>2. QED
    BY <2>1 DEF AnswerStands
<1>4. ASSUME UNCHANGED <<answer, pipes>>, \A c \in Shell : phase[c] = "done" => phase'[c] = "done"
      PROVE  AnswerStands'
  BY <1>4 DEF AnswerStands
<1>5. ASSUME NEW p \in Pid,
             \/ Setsid(p) \/ Exit(p)
             \/ \E q \in Pid, sudo \in BOOLEAN, holds \in SUBSET Stream : Fork(p, q, sudo, holds)
      PROVE  AnswerStands'
  BY <1>4, <1>5 DEF Setsid, Exit, Fork
<1>6. ASSUME NEW c \in Call,
             \/ Refuse(c) \/ ReapLaunched(c) \/ DeadlinePasses(c)
             \/ FindEnded(c) \/ FindRunning(c) \/ SleepOn(c) \/ Kill(c) \/ AwaitKilled(c)
             \/ \E p \in Pid, e \in BOOLEAN : LaunchProgram(c, p, e) \/ StartShell(c, p, e)
      PROVE  AnswerStands'
  BY <1>4, <1>6 DEF
      Refuse, RefuseLaunch, RefuseShell, NotStarted, ReapLaunched, FindEnded, FindRunning,
      SleepOn, Kill, AwaitKilled, DeadlinePasses, LaunchProgram, StartShell, TypeOK, Call
<1>7. CASE UNCHANGED vars
  BY <1>4, <1>7 DEF vars
<1>8. QED
  BY <1>1, <1>2, <1>3, <1>5, <1>6, <1>7 DEF Next, Programs, Run, Call

-----------------------------------------------------------------------------
(* Nobody who could be killed comes to be after the kill: programs of a     *)
(* call descend from its shell, and so does what they inherit.              *)
LEMMA StoppedInductive ==
  ASSUME TypeOK, OwnChildren, OwnGroups, AnswerStands, StoppedIsStopped, [Next]_vars
  PROVE  StoppedIsStopped'
<1> USE ShellAssumption DEF pipes
<1>1. ASSUME NEW p \in Pid, NEW q \in Pid, NEW sudo \in BOOLEAN, NEW holds \in SUBSET Stream,
             Fork(p, q, sudo, holds)
      PROVE  StoppedIsStopped'
  <2>1. /\ Alive(p) /\ procs[p] \in Process /\ UNCHANGED <<phase, answer>>
        /\ procs'[q] = [procs[p] EXCEPT !.child = FALSE, !.root = @ \/ sudo, !.holds = holds]
        /\ \A r \in Pid : r # q => procs'[r] = procs[r]
    BY <1>1 DEF Fork, Alive, TypeOK
  <2>2. /\ procs'[q].call = procs[p].call /\ procs'[q].detached = procs[p].detached
        /\ procs[p].root => procs'[q].root
    BY <2>1 DEF Process
  <2>3. ASSUME NEW c \in Shell, WasStopped(c)', NEW r \in Pid, Alive(r)', procs'[r].call = c
        PROVE  procs'[r].detached \/ procs'[r].root
    <3>1. NoneLeft(c)
      BY <2>1, <2>3 DEF StoppedIsStopped, WasStopped
    <3>2. CASE r = q
      BY <2>1, <2>2, <2>3, <3>1, <3>2 DEF NoneLeft
    <3>3. CASE r # q
      BY <2>1, <2>3, <3>1, <3>3 DEF NoneLeft, Alive
    <3>4. QED
      BY <3>2, <3>3
  <2>4. QED
    BY <2>3 DEF StoppedIsStopped, NoneLeft
<1>2. ASSUME NEW p \in Pid, Setsid(p) PROVE StoppedIsStopped'
  <2>1. /\ procs[p] \in Process /\ UNCHANGED <<phase, answer>>
        /\ procs'[p] = [procs[p] EXCEPT !.group = p, !.detached = TRUE]
        /\ \A r \in Pid : r # p => procs'[r] = procs[r]
    BY <1>2 DEF Setsid, Alive, TypeOK
  <2>2. procs'[p].detached
    BY <2>1 DEF Process
  <2>3. \A c \in Shell : WasStopped(c)' = WasStopped(c)
    BY <2>1 DEF WasStopped
  <2>4. QED
    BY <2>1, <2>2, <2>3 DEF StoppedIsStopped, NoneLeft, Alive
<1>3. ASSUME \A r \in Pid : Alive(r)' =>
               /\ Alive(r) /\ procs'[r].call = procs[r].call
               /\ procs'[r].detached = procs[r].detached /\ procs'[r].root = procs[r].root,
             \A c \in Shell : WasStopped(c)' => WasStopped(c) \/ NoneLeft(c)'
      PROVE  StoppedIsStopped'
  <2>1. ASSUME NEW c \in Shell, WasStopped(c), NEW r \in Pid, Alive(r)', procs'[r].call = c
        PROVE  procs'[r].detached \/ procs'[r].root
    <3>1. NoneLeft(c)
      BY <2>1 DEF StoppedIsStopped
    <3>2. Alive(r) /\ procs[r].call = c
      BY <1>3, <2>1
    <3>3. procs[r].detached \/ procs[r].root
      BY <3>1, <3>2 DEF NoneLeft
    <3>4. QED
      BY <1>3, <2>1, <3>3
  <2>2. \A c \in Shell : WasStopped(c) => NoneLeft(c)'
    BY <2>1 DEF NoneLeft
  <2>3. QED
    BY <1>3, <2>2 DEF StoppedIsStopped
<1>4. ASSUME NEW p \in Pid, Exit(p) PROVE StoppedIsStopped'
  <2>1. Ends({p})
    BY <1>4, EndingKeeps DEF Exit
  <2>2. \A r \in Pid : Alive(r)' =>
          /\ Alive(r) /\ procs'[r].call = procs[r].call
          /\ procs'[r].detached = procs[r].detached /\ procs'[r].root = procs[r].root
    BY <2>1 DEF Ends, Kept, Exists, Alive
  <2>3. \A c \in Shell : WasStopped(c)' => WasStopped(c)
    BY <1>4 DEF Exit, WasStopped
  <2>4. QED
    BY <1>3, <2>2, <2>3
<1>5. ASSUME NEW c \in Shell, Kill(c) PROVE StoppedIsStopped'
  <2>1. Ends(Victims(c))
    BY <1>5, EndingKeeps DEF Kill, Victims
  <2>2. \A r \in Pid : Alive(r)' =>
          /\ Alive(r) /\ procs'[r].call = procs[r].call
          /\ procs'[r].detached = procs[r].detached /\ procs'[r].root = procs[r].root
    BY <2>1 DEF Ends, Kept, Exists, Alive
  <2>3. ASSUME NEW r \in Pid, Alive(r)', procs'[r].call = c
        PROVE  procs'[r].detached \/ procs'[r].root
    <3>1. Alive(r) /\ r \notin Victims(c) /\ Exists(r) /\ procs[r].call = c
      BY <2>1, <2>2, <2>3 DEF Ends, Alive, Exists
    <3>2. procs[r].group # pid[c] \/ procs[r].root
      BY <3>1 DEF Victims
    <3>3. procs[r].detached \/ procs[r].group = pid[c]
      BY <1>5, <3>1 DEF OwnGroups, Unreaped, Kill
    <3>4. QED
      BY <2>2, <2>3, <3>2, <3>3
  <2>4. NoneLeft(c)'
    BY <2>3 DEF NoneLeft
  <2>5. \A d \in Shell : d # c /\ WasStopped(d)' => WasStopped(d)
    BY <1>5 DEF Kill, WasStopped, TypeOK, Call
  <2>6. QED
    BY <1>3, <2>2, <2>4, <2>5
<1>6. ASSUME NEW c \in Call, NEW p \in Pid, NEW g \in Pid \cup {DaemonGroup}, NEW e \in BOOLEAN,
             NEW h \in SUBSET Stream, phase[c] = "idle", UNCHANGED answer,
             procs' = [procs EXCEPT ![p] = Program(c, g, e, h)],
             \/ phase' = [phase EXCEPT ![c] = "polling"]
             \/ phase' = [phase EXCEPT ![c] = "launched"]
      PROVE  StoppedIsStopped'
  <2>1. procs'[p].call = c /\ \A r \in Pid : r # p => procs'[r] = procs[r]
    BY <1>6 DEF Program, TypeOK
  <2>2. ASSUME NEW d \in Shell, WasStopped(d)' PROVE WasStopped(d) /\ d # c
    <3>1. d # c
      BY <1>6, <2>2 DEF WasStopped, AnswerStands, TypeOK
    <3>2. QED
      BY <1>6, <2>2, <3>1 DEF WasStopped, TypeOK, Call
  <2>3. QED
    BY <2>1, <2>2 DEF StoppedIsStopped, NoneLeft, Alive
<1>7. ASSUME NEW c \in Launch, NEW p \in Pid, NEW e \in BOOLEAN, LaunchProgram(c, p, e)
      PROVE  StoppedIsStopped'
  <2>1. c \in Call /\ DaemonGroup \in Pid \cup {DaemonGroup} /\ {} \in SUBSET Stream
    BY DEF Call
  <2>2. QED
    BY <1>6, <1>7, <2>1 DEF LaunchProgram
<1>8. ASSUME NEW c \in Shell, NEW p \in Pid, NEW e \in BOOLEAN, StartShell(c, p, e)
      PROVE  StoppedIsStopped'
  <2>1. c \in Call /\ p \in Pid \cup {DaemonGroup} /\ Stream \in SUBSET Stream
    BY DEF Call
  <2>2. QED
    BY <1>6, <1>8, <2>1 DEF StartShell
<1>9. ASSUME NEW c \in Call,
             \/ ReapLaunched(c) \/ FindEnded(c) \/ AwaitKilled(c) \/ Refuse(c)
             \/ FindRunning(c) \/ SleepOn(c) \/ DeadlinePasses(c)
      PROVE  StoppedIsStopped'
  <2>1. procs' \in {procs, Reaped(pid[c])} /\ UNCHANGED answer
    BY <1>9 DEF
        ReapLaunched, FindEnded, AwaitKilled, Refuse, RefuseLaunch, RefuseShell, NotStarted,
        FindRunning, SleepOn, DeadlinePasses
  <2>2. \A r \in Pid : procs'[r] \in {procs[r], NoProcess}
    BY <2>1 DEF Reaped, TypeOK
  <2>3. \A r \in Pid : Alive(r)' =>
          /\ Alive(r) /\ procs'[r].call = procs[r].call
          /\ procs'[r].detached = procs[r].detached /\ procs'[r].root = procs[r].root
    BY <2>2 DEF Alive
  <2>4. \A d \in Shell : phase'[d] \in {"killed", "stopped"} => phase[d] \in {"killed", "stopped"}
    BY <1>9 DEF
        ReapLaunched, FindEnded, AwaitKilled, Refuse, RefuseLaunch, RefuseShell, NotStarted,
        FindRunning, SleepOn, DeadlinePasses, TypeOK, Call
  <2>5. \A d \in Shell : WasStopped(d)' => WasStopped(d)
    BY <2>1, <2>4 DEF WasStopped
  <2>6. QED
    BY <1>3, <2>3, <2>5
<1>10. ASSUME NEW c \in Shell, Return(c) PROVE StoppedIsStopped'
  <2>1. /\ UNCHANGED procs /\ phase' = [phase EXCEPT ![c] = "done"]
        /\ phase \in [Call -> Phase] /\ c \in Call /\ answer \in [Shell -> Answer \cup {NoAnswer}]
    BY <1>10 DEF Return, TypeOK, Call
  <2> DEFINE told == [timedOut |-> phase[c] = "stopped", truncated |-> Truncated(c),
                      length |-> [s \in Stream |-> Length(c, s)]]
  <2>2. answer' = [answer EXCEPT ![c] = told]
    BY <1>10 DEF Return
  <2>3. answer'[c] = told
    <3> HIDE DEF told
    <3> QED
      BY <2>1, <2>2
  <2>4. told.timedOut <=> phase[c] = "stopped"
    OBVIOUS
  <2>5. answer'[c].timedOut => phase[c] = "stopped"
    BY <2>3, <2>4
  <2>6. \A d \in Shell : d # c => answer'[d] = answer[d]
    <3> HIDE DEF told
    <3> QED
      BY <2>1, <2>2
  <2>7. \A d \in Shell : WasStopped(d)' => WasStopped(d)
    <3>1. ASSUME NEW d \in Shell, d # c, WasStopped(d)' PROVE WasStopped(d)
      BY <2>1, <2>6, <3>1 DEF WasStopped, Call
    <3>2. WasStopped(c)' => WasStopped(c)
      BY <2>1, <2>5 DEF WasStopped
    <3>3. QED
      BY <3>1, <3>2
  <2>8. QED
    BY <1>3, <2>1, <2>7 DEF Alive
<1>11. CASE UNCHANGED <<procs, phase, answer>>
  BY <1>11 DEF StoppedIsStopped, NoneLeft, WasStopped, Alive
<1>12. ASSUME NEW p \in Pid, NEW s \in Stream, Write(p, s) PROVE UNCHANGED <<procs, phase, answer>>
  BY <1>12 DEF Write
<1>13. ASSUME NEW c \in Shell, NEW s \in Stream, Reader(c, s) PROVE UNCHANGED <<procs, phase, answer>>
  BY <1>13 DEF Reader, Read, CutShort, EndOfFile
<1>14. QED
  BY <1>1, <1>2, <1>4, <1>5, <1>7, <1>8, <1>9, <1>11, <1>12, <1>13, <1>10
  DEF Next, Programs, Run, Call, vars

-----------------------------------------------------------------------------
IInv == TypeOK /\ OwnChildren /\ OwnGroups /\ Counted /\ AnswerStands /\ StoppedIsStopped

LEMMA Invariance == Spec => []IInv
<1>1. Init => IInv
  <2> SUFFICES ASSUME Init PROVE IInv
    OBVIOUS
  <2>1. TypeOK
    <3>1. [p \in Pid |-> NoProcess] \in [Pid -> Process \cup {NoProcess}]
      OBVIOUS
    <3>2. [c \in Call |-> "idle"] \in [Call -> Phase]
      BY DEF Phase
    <3>3. [c \in Call |-> DaemonGroup] \in [Call -> Pid \cup {DaemonGroup}]
      OBVIOUS
    <3>4. [c \in Shell |-> [s \in Stream |-> 0]] \in [Shell -> [Stream -> 0..HardCeil]]
      BY ShellAssumption
    <3>5. [c \in Shell |-> NoAnswer] \in [Shell -> Answer \cup {NoAnswer}]
      OBVIOUS
    <3>6. QED
      BY <3>1, <3>2, <3>3, <3>4, <3>5 DEF Init, TypeOK
  <2>2. \A c \in Call : phase[c] = "idle"
    BY DEF Init
  <2>3. \A p \in Pid : ~Exists(p)
    BY DEF Init, Exists
  <2>4. OwnChildren /\ OwnGroups
    BY <2>2, <2>3 DEF OwnChildren, OwnGroups, Unreaped, Call
  <2>5. Counted
    BY ShellAssumption DEF Init, Counted, Tally
  <2>6. AnswerStands /\ StoppedIsStopped
    BY <2>2 DEF Init, AnswerStands, StoppedIsStopped, WasStopped, Call
  <2>7. QED
    BY <2>1, <2>4, <2>5, <2>6 DEF IInv
<1>2. IInv /\ [Next]_vars => IInv'
  BY TypeInductive, OwnInductive, CountedInductive, AnswerInductive, StoppedInductive DEF IInv
<1>3. QED
  BY <1>1, <1>2, PTL DEF Spec

(* Every reachable state is well typed.                                     *)
THEOREM TypeCorrect == Spec => []TypeOK
BY Invariance, PTL DEF IInv

(* What the caller of run is told is true: what is missing from the output, *)
(* and that a command stopped by its timeout left nothing running that did  *)
(* not leave its session.                                                   *)
THEOREM AnswerIsHonestHolds == Spec => []AnswerIsHonest
<1>1. IInv => AnswerIsHonest
  BY DEF IInv, AnswerIsHonest, AnswerStands, StoppedIsStopped, WasStopped, NoneLeft
<1>2. QED
  BY <1>1, Invariance, PTL

(* However pids are handed out again, the kill of a call only ever ends     *)
(* processes of that call.                                                  *)
THEOREM KillsItsOwnHolds == Spec => KillsItsOwn
<1>1. ASSUME IInv, NEW c \in Shell, Kill(c), NEW p \in Pid, procs'[p] # procs[p]
      PROVE  procs[p].call = c
  <2>1. p \in Victims(c)
    BY <1>1 DEF Kill, Without, IInv, TypeOK
  <2>2. Exists(p) /\ procs[p].group = pid[c]
    BY <2>1 DEF Victims, Alive, Exists
  <2>3. QED
    BY <1>1, <2>2 DEF IInv, OwnGroups, Unreaped, Kill
<1>2. IInv => [\A c \in Shell : Kill(c) => \A p \in Pid : procs'[p] # procs[p] => procs[p].call = c]_vars
  BY <1>1
<1>3. QED
  BY <1>2, Invariance, PTL DEF KillsItsOwn
=============================================================================
