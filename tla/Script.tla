------------------------------- MODULE Script -------------------------------
(***************************************************************************)
(* The main loop of fildesh_builtin_fildesh_main() (src/src/fildesh.c):    *)
(* each section of a script is set up (Wiring), its commands are spawned   *)
(* as threads or processes, and then waited for in their order.            *)
(*                                                                         *)
(* The commands are what the script makes them.  All that is assumed of a  *)
(* running one is that it ends once its input streams have ended and its   *)
(* output streams are read or have no reader left.  It may end before.     *)
(*                                                                         *)
(* A builtin runs as a thread of the shell, whose descriptors it uses; any *)
(* other program, and with -forkonly any command, is a process with copies *)
(* of its own.  With status, argument, or executable streams a command is  *)
(* run by the builtin execfd, which first gathers what it needs.           *)
(***************************************************************************)
EXTENDS Wiring

VARIABLES
  next,       (* index of the command that the loop at hand has come to  *)
  state,      (* of the command with an id: see States                   *)
  task,       (* what it has been told: its Command when it was spawned  *)
  thread,     (* it is a thread of the shell                             *)
  fails       (* commands that have ended with a status other than zero  *)

procVars == <<state, task, thread, fails>>
vars == <<wiringVars, next, procVars>>

States == {"none", "gather", "run", "ended"}
NoTask == [NewCommand("NoCommand") EXCEPT !.id = 0]

Init ==
  /\ WiringInit
  /\ next = 1
  /\ state = [i \in Ids |-> "none"]
  /\ task = [i \in Ids |-> NoTask]
  /\ thread = [i \in Ids |-> FALSE]
  /\ fails = {}

SetupStep == Setup /\ next' = 1 /\ UNCHANGED procVars

-----------------------------------------------------------------------------
(* spawn_commands() *)

c == cmds[next]

Spawning == phase = "spawn" /\ next <= Len(cmds)

UsesExecfd(k) == k.exec_fd # -1 \/ k.iargs # <<>> \/ k.status_fd # -1 \/ k.exit_fds # {}

(* Mutant: the command's standard streams are not forgotten. *)
EmptiedNotStd(k) == [NewCommand(k.kind) EXCEPT !.id = k.id, !.args = k.args,
                                               !.stdis = k.stdis, !.stdos = k.stdos]

(* What close_Command() leaves of the record once others have the streams. *)
Emptied(k) == [NewCommand(k.kind) EXCEPT !.id = k.id, !.args = k.args]

(* Mutant: the command after is skipped, too. *)
SpawnSkipTwo ==
  /\ Spawning /\ c.kind \notin {"RunCommand", "DefCommand"}
  /\ next' = next + 2
  /\ UNCHANGED <<wiringVars, procVars>>

SpawnSkip ==
  /\ Spawning /\ c.kind \notin {"RunCommand", "DefCommand"}
  /\ next' = next + 1
  /\ UNCHANGED <<wiringVars, procVars>>

Spawn(asThread) ==
  /\ Spawning /\ c.kind \in {"RunCommand", "DefCommand"}
  /\ next' = next + 1
  /\ cmds' = [cmds EXCEPT ![next] = Emptied(c)]
  /\ state' = [state EXCEPT ![c.id] = IF UsesExecfd(c) THEN "gather" ELSE "run"]
  /\ task' = [task EXCEPT ![c.id] = c]
  /\ thread' = [thread EXCEPT ![c.id] = asThread]
  /\ UNCHANGED <<phase, building, nargs, base, add_map, hookupVars, npipes,
                 redirected, scriptVars, last, exstatus, forkonly, fails>>

(* builtin_command_thread_fn() takes over the shell's descriptors. *)
SpawnThread == ~forkonly /\ Spawn(TRUE) /\ UNCHANGED <<open, misclosed>>

(* A descriptor, unless there is none or it is standard error. *)
Listing(fd) == IF fd \in {-1, Err} THEN <<>> ELSE <<fd>>

(* Mutant: the status stream is not among them. *)
InheritedNoStatus(k) == k.is \o k.iargs \o Listing(k.exec_fd) \o k.os

(* The array fds_to_inherit.  An execfd process inherits its arguments'    *)
(* descriptors, the executable's once more, and the one for its status.    *)
Inherited(k) == k.is \o k.iargs \o Listing(k.exec_fd) \o k.os \o Listing(k.status_fd)

(* The k-th descriptor appears twice in a row: it stays open here. *)
Doubled(s, k) == k < Len(s) /\ s[k] = s[k + 1]

(* Mutant: the standard output is copied, but not closed. *)
StandardFdsIn(k) == Listing(k.stdis)

(* What becomes the standard streams of the program. *)
StandardFds(k) == Listing(k.stdis) \o Listing(k.stdos)

(* fildesh_compat_fd_spawnvp() then closes all others, one after the other. *)
CloseInherited ==
  LET s == Inherited(c)
      kept == {k \in 1..Len(s) : Doubled(s, k) \/ (k > 1 /\ Doubled(s, k - 1))}
      closed == StandardFds(c) \o [k \in 1..Len(s) |-> IF k \in kept THEN -1 ELSE s[k]]
  IN  /\ open' = open \ ToSet(closed)
      /\ misclosed' = \/ misclosed
                      \/ \E j \in 1..Len(closed) : closed[j] # -1
                           /\ (closed[j] \notin open \/ closed[j] \in ToSet(SubSeq(closed, 1, j - 1)))

(* execfd and elastic are builtins. *)
Forks == /\ Spawning
         /\ forkonly \/ (c.kind = "RunCommand" /\ ~UsesExecfd(c))

SpawnFork == Forks /\ Spawn(FALSE) /\ CloseInherited

SpawnFails ==
  /\ "nofork" \in Habits
  /\ Forks /\ c.kind \in {"RunCommand", "DefCommand"}
  /\ CloseInherited
  /\ cmds' = [cmds EXCEPT ![next] = Emptied(c)]
  /\ phase' = "wait" /\ exstatus' = 126 /\ next' = 1
  /\ UNCHANGED <<building, nargs, base, add_map, hookupVars, npipes, redirected,
                 scriptVars, last, forkonly, procVars>>

EndSpawn ==
  /\ phase = "spawn" /\ next > Len(cmds)
  /\ phase' = "wait" /\ next' = 1
  /\ UNCHANGED <<building, nargs, cmds, base, add_map, hookupVars, streamVars,
                 scriptVars, last, exstatus, forkonly, procVars>>

-----------------------------------------------------------------------------
(* The commands that have been spawned. *)

Live(i) == state[i] \in {"gather", "run"}

(* What execfd reads to its end before it runs the program. *)
Gathers(k) == (ToSet(k.iargs) \union {k.exec_fd}) \ {-1}

Held(i) == IF state[i] = "gather" THEN Ends(task[i])
           ELSE IF state[i] = "run" THEN Ends(task[i]) \ Gathers(task[i])
           ELSE {}

(* Streams it has something to write to before it ends. *)
Written(i) == Held(i) \ (task[i].exit_fds \union {task[i].status_fd} \union redirected)

SomeoneHas(fd) == fd \in open \/ \E i \in Ids : fd \in Held(i)

AtEnd(p) == W(p) \in redirected \/ ~SomeoneHas(W(p))

Reads(i, p) == R(p) \in (IF state[i] = "gather" THEN Gathers(task[i]) ELSE Held(i))

Taking(p) == ~SomeoneHas(R(p)) \/ \E i \in Ids : Reads(i, p)

CanEnd(i) ==
  /\ state[i] = "run"
  /\ \A p \in Pipes : R(p) \in Held(i) => AtEnd(p)
  /\ \A p \in Pipes : W(p) \in Written(i) => Taking(p)

Here(i) == i \in base + 1 .. base + Len(cmds)

(* A thread's descriptors are the shell's. *)
Gone(i, S) == IF thread[i] THEN CloseFds(S) ELSE UNCHANGED <<open, misclosed>>

commandUnchanged == <<phase, building, nargs, cmds, base, add_map, hookupVars, npipes, redirected,
                      scriptVars, last, exstatus, forkonly, next>>

(* execfd has read its arguments, or the bytes to execute, and runs them. *)
Gathered(i) ==
  /\ state[i] = "gather"
  /\ \A p \in Pipes : R(p) \in Gathers(task[i]) => AtEnd(p)
  /\ Gone(i, Gathers(task[i]))
  /\ state' = [state EXCEPT ![i] = "run"]
  /\ UNCHANGED <<commandUnchanged, task, thread, fails>>

End(i, S) ==
  /\ Gone(i, S)
  /\ state' = [state EXCEPT ![i] = "ended"]
  /\ task' = [task EXCEPT ![i] = NoTask]
  /\ thread' = [thread EXCEPT ![i] = FALSE]
  /\ UNCHANGED commandUnchanged

(* There is nothing to execute: execfd closes what it has opened. *)
GatherFails(i) ==
  /\ "noexec" \in Habits
  /\ state[i] = "gather" /\ task[i].has_bytes
  /\ \A p \in Pipes : R(p) = task[i].exec_fd => AtEnd(p)
  /\ End(i, ({task[i].exec_fd, task[i].status_fd} \ {-1}) \union task[i].exit_fds)
  /\ fails' = fails \union {i}

(* As a thread, elastic wants an output. *)
Unused(i) == thread[i] /\ task[i].kind = "DefCommand" /\ task[i].os = <<>>

(* With `$(O? ...)` execfd sends the status there, and its own is zero.    *)
(* The elastic of a definition ends when its input does.                   *)
CommandEnds(i) ==
  /\ state[i] = "run" /\ ~Unused(i)
  /\ task[i].kind = "DefCommand" => CanEnd(i)
  /\ End(i, Held(i))
  /\ \/ UNCHANGED fails
     \/ /\ task[i].kind = "RunCommand" /\ task[i].status_fd = -1
        /\ fails' = fails \union {i}

(* elastic returns without closing its input. *)
DefinitionFails(i) ==
  /\ state[i] = "run" /\ Unused(i)
  /\ End(i, {})
  /\ fails' = fails \union {i}

(* What a command does sooner or later if it can. *)
Proceeds(i) == Gathered(i) \/ GatherFails(i) \/ DefinitionFails(i) \/ (CanEnd(i) /\ CommandEnds(i))

-----------------------------------------------------------------------------
(* The commands are waited for in their order. *)

lost == {c.stdis, c.stdos, c.status_fd} \union ToSet(c.is) \union ToSet(c.os)

(* Mutant: a thread is not joined. *)
WaitedProcess(i) == state[i] \in {"none", "ended"} \/ thread[i]

(* pthread_join() or waitpid(), unless it was never spawned. *)
Waited(i) == state[i] \in {"none", "ended"}

(* lose_Command() then closes what its record still has. *)
WaitNext ==
  /\ phase = "wait" /\ next <= Len(cmds)
  /\ Waited(c.id)
  /\ CloseFds(lost \ {-1, Err})
  /\ cmds' = [cmds EXCEPT ![next] = Emptied(c)]
  /\ next' = next + 1
  /\ UNCHANGED <<phase, building, nargs, base, add_map, hookupVars, npipes, redirected,
                 scriptVars, last, exstatus, forkonly, procVars>>

Failures == Cardinality({i \in fails : Here(i)})

(* close_FildeshCommandHookup() closes the standard streams it still has. *)
EndLoop ==
  /\ phase = "wait" /\ next > Len(cmds)
  /\ exstatus' = IF exstatus = 0 THEN Failures ELSE exstatus
  /\ IF exstatus' = 0 /\ ~last
     THEN /\ phase' = "setup" /\ stdout_fd' = Out
          /\ UNCHANGED <<stdin_fd, open, misclosed>>
     ELSE /\ phase' = "exit" /\ stdout_fd' = -1 /\ stdin_fd' = -1
          /\ CloseFds({stdin_fd, Out} \ {-1})
  /\ base' = base + Len(cmds) /\ cmds' = <<>> /\ next' = 1
  /\ UNCHANGED <<building, nargs, add_map, map, npipes, redirected, scriptVars,
                 last, forkonly, procVars>>

(* Nothing is left to do. *)
Terminated == phase = "exit" /\ UNCHANGED vars

Loop == SpawnSkip \/ SpawnThread \/ SpawnFork \/ SpawnFails \/ EndSpawn \/ WaitNext \/ EndLoop

Command(i) == Gathered(i) \/ GatherFails(i) \/ CommandEnds(i) \/ DefinitionFails(i)

Next == SetupStep \/ Loop \/ (\E i \in Ids : Command(i)) \/ Terminated

(* A script is finite; the operating system runs whatever can run. *)
Fairness ==
  /\ WF_vars(SetupStep \/ Loop)
  /\ \A i \in Ids : WF_vars(Proceeds(i))

Spec == Init /\ [][Next]_vars /\ Fairness

-----------------------------------------------------------------------------
(* Types: the commands of a section, and where the loops over them are. *)
TypeOK ==
  /\ phase \in {"setup", "spawn", "wait", "exit"}
  /\ building \in BOOLEAN /\ nargs \in 0..MaxArgs
  /\ base + Len(cmds) \in 0..MaxCmds
  /\ \A k \in 1..Len(cmds) :
       /\ cmds[k].id = base + k
       /\ Ends(cmds[k]) \subseteq Fds
       /\ cmds[k].exec_fd # -1 => cmds[k].exec_fd \in ToSet(cmds[k].is)
  /\ npipes \in 0..MaxPipes /\ open \subseteq Fds /\ redirected \subseteq {W(p) : p \in Pipes}
  /\ \A n \in Names : map[n].kind \in {"none", "ODescVal", "IFutureDescVal", "DefVal", "HereDocVal"}
  /\ next \in 1 .. Len(cmds) + 1
  /\ state \in [Ids -> States] /\ thread \in [Ids -> BOOLEAN] /\ fails \subseteq Ids
  /\ exstatus \in 0..MaxCmds \union {65, 126}

(* fildesh_compat_fd_close() asserts that the descriptor was open: no pair  *)
(* of the closes spread over setting up, spawning, threads, losing commands *)
(* and the hookup's end is for the same descriptor.                         *)
NeverClosesTwice == ~misclosed

(* When the commands of a section are about to be spawned, each stream      *)
(* connects those that the script connects, whatever else was declared,     *)
(* renamed or redirected by the lines in between: its descriptors are in    *)
(* the records of these commands, in no other, and still open; what goes to *)
(* standard output or error goes there; and a command is told of no         *)
(* descriptor that it is not given.                                         *)
Section == {cmds[k].id : k \in 1..Len(cmds)}
CommandOf(i) == cmds[i - base]

StreamsAsWritten ==
  phase = "spawn" /\ next = 1 =>
    /\ \A p \in Pipes : src[p] \in Section =>
         LET k == CommandOf(src[p]) IN
         IF dst[p] = ToStderr
         THEN W(p) \notin open /\ Err \in {k.stdos} \union ToSet(k.args)
         ELSE /\ W(p) \in Ends(k) \intersect open
              /\ dst[p] = ToStdout <=> W(p) \in redirected
    /\ \A p \in Pipes : dst[p] \in Section => R(p) \in Ends(CommandOf(dst[p])) \intersect open
    /\ \A k \in 1..Len(cmds) :
         /\ \A p \in Pipes : /\ W(p) \in Ends(cmds[k]) => src[p] = cmds[k].id
                             /\ R(p) \in Ends(cmds[k]) => dst[p] = cmds[k].id
         /\ ToSet(cmds[k].args) \ {0, Err} \subseteq Ends(cmds[k])
         /\ cmds[k].exit_fds \subseteq ToSet(cmds[k].os)

(* While nothing was refused, the shell has no descriptor open but those    *)
(* that a command's record or thread is going to close; none when it exits. *)
(* One more would keep the stream's other end from ever seeing its end.     *)
NothingLeftOpen ==
  phase # "setup" /\ exstatus \notin {65, 126} =>
    open \subseteq (UNION {Ends(cmds[k]) : k \in 1..Len(cmds)})
                 \union (UNION {Held(i) : i \in {j \in Ids : thread[j]}})
                 \union (IF phase = "exit" THEN {} ELSE {stdin_fd, Out})

(* $(barrier): no command is spawned before those of the sections before    *)
(* have ended, nor after one of them has failed.                            *)
BarrierHolds ==
  phase = "spawn" => \A i \in 1..base : ~Live(i) /\ i \notin fails

(* The shell waits for its commands in their order, holds descriptors of    *)
(* its own, and gathers arguments from streams: still every script ends.    *)
EveryScriptEnds == <>(phase = "exit")
=============================================================================
