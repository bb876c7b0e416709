------------------------------- MODULE Wiring -------------------------------
(***************************************************************************)
(* setup_commands() of src/src/fildesh.c: the commands of a script are     *)
(* given pipes for the streams they name, one argument after the other.    *)
(*                                                                         *)
(* A script is any sequence of commands whose arguments the actions below  *)
(* choose as they go.  Only arguments that stand for streams are modelled; *)
(* the plain ones need no descriptor.  Descriptors are numbered as they    *)
(* are created and never again, so that a use after a close shows          *)
(* (FdSpawn has the real numbers, and the threads that compete for them).  *)
(*                                                                         *)
(* Habits names what scripts may do beyond what is sensible:               *)
(*   "twice"    a command's standard input, output or status named twice,  *)
(*              or a stream named that nobody has read yet;                *)
(*   "dangling" a stream nobody reads, or a stream from below never fed;   *)
(*   "cycle"    an undirected cycle of streams between commands;           *)
(*   "refused"  `stdout` of nothing, or of what no command writes;         *)
(*   "status"   `stdout` or `stderr` of a command's status;                *)
(*   "errfiles" `stdout` or `stderr` of an output file of a command that   *)
(*              has had another one sent to `stderr`;                      *)
(*   "reused"   `stdout` or `stderr` of a stream that something has taken; *)
(*   "below"    `stdout` or `stderr` of a stream from below;               *)
(*   "execfork" executable bytes from a stream with -forkonly;             *)
(*   "noexec"   executable bytes that turn out to be none;                 *)
(*   "unused"   a definition that is never used;                           *)
(*   "nofork"   a program that cannot be spawned, for want of resources.   *)
(* A symbol that outlives the commands of its section (a barrier) still    *)
(* has its cmd_idx; scripts that go through it then are left out.          *)
(***************************************************************************)
EXTENDS Integers, Sequences, FiniteSets, SequencesExt

CONSTANTS
  NNames,     (* bound: names of streams                                 *)
  MaxPipes,   (* bound: pipes created                                    *)
  MaxCmds,    (* bound: commands of a script                             *)
  MaxArgs,    (* bound: stream arguments of a command                    *)
  Habits      (* see above                                               *)

ASSUME WiringAssumption == {NNames, MaxPipes, MaxCmds, MaxArgs} \subseteq Nat \ {0}

Names == 1..NNames
Pipes == 1..MaxPipes
Ids == 1..MaxCmds

(* Descriptors: standard error, the shell's claimed streams, pipe ends. *)
Err == 2
In == 3
Out == 4
R(p) == 2 * p + 3
W(p) == 2 * p + 4
Fds == {In, Out} \union {R(p) : p \in Pipes} \union {W(p) : p \in Pipes}
PipeOf(fd) == (fd - 3) \div 2

VARIABLES
  phase,      (* of fildesh_builtin_fildesh_main(): see Script           *)
  building,   (* arguments of the last command are being set up          *)
  nargs,      (* how many it has had                                     *)
  cmds,       (* the commands of this section of the script              *)
  base,       (* number of commands of the sections before               *)
  map,        (* what each name stands for: SymVal                       *)
  add_map,    (* and what the command being set up makes of it           *)
  stdin_fd, stdout_fd,   (* of the command hookup                        *)
  npipes,     (* pipes created so far                                    *)
  open,       (* descriptors open in the shell                           *)
  redirected, (* those that copy_to() has turned into standard output    *)
  misclosed,  (* a descriptor that is not open has been closed           *)
  src, dst,   (* the commands a pipe is to connect, as the script has it *)
  group,      (* commands connected by streams have the same group       *)
  last,       (* the script ends with this section                       *)
  exstatus,
  forkonly    (* the -forkonly option: see Script                        *)

streamVars == <<npipes, open, redirected, misclosed>>
scriptVars == <<src, dst, group>>
hookupVars == <<map, stdin_fd, stdout_fd>>
wiringVars == <<phase, building, nargs, cmds, base, add_map, hookupVars,
                streamVars, scriptVars, last, exstatus, forkonly>>

NoSym == [kind |-> "none", fd |-> -1, cmd |-> 0, arg |-> 0, ios |-> 0, id |-> 0]

Habit(h, cond) == cond => h \in Habits

(* What is left of the symbol of a stream that is taken: all but its kind. *)
(* Only `stdout` and `stderr` look at the rest of it then.                 *)
Used(sym) == IF "reused" \in Habits THEN [sym EXCEPT !.kind = "none"] ELSE NoSym

(* What a pipe's ends are meant to be, if not a command (see src, dst). *)
Nobody == 0
ToStdout == -1
ToStderr == -2

(* init_Command().  args[1] is the program; others are paths of descriptors. *)
NewCommand(kind) ==
  [kind |-> kind, id |-> base + Len(cmds) + 1,
   stdis |-> -1, stdos |-> -1, is |-> <<>>, os |-> <<>>, status_fd |-> -1,
   iargs |-> <<>>, exec_fd |-> -1, has_bytes |-> FALSE, exit_fds |-> {},
   args |-> <<0>>]

(* Every descriptor that a command's record refers to. *)
Ends(c) == ({c.stdis, c.stdos, c.status_fd} \union ToSet(c.is) \union ToSet(c.os)
              \union ToSet(c.iargs)) \ {-1, Err}

NoEnds == [p \in Pipes |-> Nobody]
NoGroups == [i \in Ids |-> i]

WiringInit ==
  /\ phase = "setup" /\ building = FALSE /\ nargs = 0
  /\ cmds = <<>> /\ base = 0
  /\ map = [n \in Names |-> NoSym] /\ add_map = [n \in Names |-> NoSym]
  /\ stdin_fd \in {In, -1} /\ stdout_fd = Out
  /\ npipes = 0 /\ redirected = {} /\ misclosed = FALSE
  /\ open = {stdin_fd, stdout_fd} \ {-1}
  /\ src = NoEnds /\ dst = NoEnds /\ group = NoGroups
  /\ exstatus = 0 /\ last = FALSE
  /\ forkonly \in BOOLEAN

-----------------------------------------------------------------------------
cur == Len(cmds)
me == cmds[cur]

(* Nothing but the order in which they are taken tells free names apart. *)
Usable(n) == \A m \in 1..n-1 : map[m] # NoSym \/ add_map[m] # NoSym

(* The next stream argument of the command being set up. *)
NextArg ==
  /\ phase = "setup" /\ building /\ nargs < MaxArgs
  /\ nargs' = nargs + 1
  /\ UNCHANGED <<phase, building, base, stdin_fd, stdout_fd, exstatus,
                 redirected, misclosed, last>>

(* pipe_from_elastic(): the k-th command gets one more output. *)
PipeFromElastic(k) ==
  [cmds EXCEPT ![k].os = Append(@, W(npipes + 1)),
               ![k].args = Append(@, W(npipes + 1))]

Current(n) == map[n].cmd \in 1..cur /\ cmds[map[n].cmd].id = map[n].id

(* A name that can be read from: a stream, a definition, a HERE document. *)
Source(n) ==
  \/ map[n].kind = "ODescVal"
  \/ map[n].kind = "HereDocVal" /\ npipes < MaxPipes
  \/ map[n].kind = "DefVal" /\ npipes < MaxPipes /\ Current(n)

(* The descriptor to read it from, and the commands once it is there. *)
SourceFd(n) == IF map[n].kind = "ODescVal" THEN map[n].fd ELSE R(npipes + 1)
SourceCmds(n) == IF map[n].kind = "DefVal" THEN PipeFromElastic(map[n].cmd) ELSE cmds

(* The script connects the commands a and b. *)
Linked(a, b) ==
  /\ Habit("cycle", group[a] = group[b])
  /\ group' = [i \in Ids |-> IF group[i] = group[b] THEN group[a] ELSE group[i]]

(* The command being set up reads n: what happens beside its own record.   *)
(* A HERE document is a file, which has an end, as a pipe nobody writes to. *)
ReadFrom(n) ==
  /\ Source(n)
  /\ \/ /\ map[n].kind = "ODescVal"
        /\ map' = [map EXCEPT ![n] = Used(@)]
        /\ UNCHANGED <<npipes, open, src>>
        /\ IF map[n].fd = In THEN UNCHANGED <<dst, group>>
           ELSE /\ dst' = [dst EXCEPT ![PipeOf(map[n].fd)] = me.id]
                /\ Linked(map[n].id, me.id)
     \/ /\ map[n].kind = "HereDocVal"
        /\ npipes' = npipes + 1 /\ open' = open \union {R(npipes')}
        /\ dst' = [dst EXCEPT ![npipes'] = me.id]
        /\ UNCHANGED <<map, src, group>>
     \/ /\ map[n].kind = "DefVal"
        /\ npipes' = npipes + 1 /\ open' = open \union {R(npipes'), W(npipes')}
        /\ src' = [src EXCEPT ![npipes'] = map[n].id]
        /\ dst' = [dst EXCEPT ![npipes'] = me.id]
        /\ Linked(map[n].id, me.id)
        /\ UNCHANGED map
  /\ UNCHANGED add_map

(* A new pipe for the name n: the symbol keeps one end. *)
Declare(n, kind, fd, arg, ios) ==
  /\ Usable(n) /\ npipes < MaxPipes
  /\ Habit("twice", add_map[n] # NoSym)
  /\ npipes' = npipes + 1
  /\ open' = open \union {R(npipes'), W(npipes')}
  /\ add_map' = [add_map EXCEPT ![n] =
                   [kind |-> kind, fd |-> fd, cmd |-> cur, arg |-> arg,
                    ios |-> ios, id |-> me.id]]
  /\ UNCHANGED <<map, group>>

NewR == R(npipes + 1)
NewW == W(npipes + 1)

-----------------------------------------------------------------------------
(* The arguments, by what they are written as. *)

(* $(X n), and the first half of $(XO n), which is $(X n) and then $(O n). *)
StdinFrom(n) ==
  /\ NextArg /\ ReadFrom(n)
  /\ Habit("twice", me.stdis # -1)
  /\ cmds' = [SourceCmds(n) EXCEPT ![cur].stdis = SourceFd(n)]

(* $(XA n): execfd reads the argument's text.  A HERE document has it. *)
TextFrom(n) ==
  /\ NextArg /\ ReadFrom(n) /\ map[n].kind # "HereDocVal"
  /\ cmds' = [SourceCmds(n) EXCEPT ![cur].iargs = Append(@, SourceFd(n))]

(* $(XF n) *)
FileFrom(n) ==
  /\ NextArg /\ ReadFrom(n) /\ map[n].kind # "HereDocVal"
  /\ cmds' = [SourceCmds(n) EXCEPT ![cur].is = Append(@, SourceFd(n)),
                                   ![cur].args = Append(@, SourceFd(n))]

(* $(XF n) in the place of the program: a temporary file is executed once  *)
(* the stream has ended.  If the source was to write to a path, it writes  *)
(* to that file instead, and the pipe is closed when it exits.             *)
ExecuteFrom(n) ==
  /\ NextArg /\ ReadFrom(n) /\ map[n].kind # "HereDocVal"
  /\ nargs = 0 /\ Habit("execfork", forkonly)
  /\ LET fd == SourceFd(n)
         k == map[n].cmd
         direct == map[n].arg > 0
         mine == [SourceCmds(n) EXCEPT ![cur].is = Append(@, fd),
                                       ![cur].exec_fd = fd,
                                       ![cur].has_bytes = ~direct]
     IN  /\ direct => Current(n)
         /\ cmds' = IF direct
                    THEN [mine EXCEPT ![k].exit_fds = @ \union {cmds[k].args[map[n].arg]},
                                      ![k].args[map[n].arg] = 0]
                    ELSE mine

(* $(O n) *)
StdoutTo(n) ==
  /\ NextArg /\ Declare(n, "ODescVal", NewR, 0, 0)
  /\ Habit("twice", me.stdos # -1)
  /\ src' = [src EXCEPT ![npipes'] = me.id]
  /\ cmds' = [cmds EXCEPT ![cur].stdos = NewW]
  /\ UNCHANGED dst

(* $(O? n) *)
StatusTo(n) ==
  /\ NextArg /\ Declare(n, "ODescVal", NewR, 0, 0)
  /\ Habit("twice", me.status_fd # -1)
  /\ src' = [src EXCEPT ![npipes'] = me.id]
  /\ cmds' = [cmds EXCEPT ![cur].status_fd = NewW]
  /\ UNCHANGED dst

(* $(OF n) *)
FileTo(n) ==
  /\ NextArg /\ Declare(n, "ODescVal", NewR, Len(me.args) + 1, Len(me.os) + 1)
  /\ src' = [src EXCEPT ![npipes'] = me.id]
  /\ cmds' = [cmds EXCEPT ![cur].os = Append(@, NewW),
                          ![cur].args = Append(@, NewW)]
  /\ UNCHANGED dst

(* $(Xv n) *)
StdinFromBelow(n) ==
  /\ NextArg /\ Declare(n, "IFutureDescVal", NewW, 0, 0)
  /\ Habit("twice", me.stdis # -1)
  /\ dst' = [dst EXCEPT ![npipes'] = me.id]
  /\ cmds' = [cmds EXCEPT ![cur].stdis = NewR]
  /\ UNCHANGED src

(* $(XFv n) *)
FileFromBelow(n) ==
  /\ NextArg /\ Declare(n, "IFutureDescVal", NewW, 0, Len(me.os) + 1)
  /\ dst' = [dst EXCEPT ![npipes'] = me.id]
  /\ cmds' = [cmds EXCEPT ![cur].os = Append(@, NewR),
                          ![cur].args = Append(@, NewR)]
  /\ UNCHANGED src

(* The stream n to a command above is fed by the one being set up. *)
Fulfil(n) ==
  /\ map[n].kind = "IFutureDescVal"
  /\ map' = [map EXCEPT ![n] = Used(@)]
  /\ src' = [src EXCEPT ![PipeOf(map[n].fd)] = me.id]
  /\ Linked(map[n].id, me.id)
  /\ UNCHANGED <<npipes, open, add_map, dst>>

(* $(O^ n) *)
StdoutAbove(n) ==
  /\ NextArg /\ Fulfil(n)
  /\ Habit("twice", me.stdos # -1)
  /\ cmds' = [cmds EXCEPT ![cur].stdos = map[n].fd]

(* $(OF^ n) *)
FileAbove(n) ==
  /\ NextArg /\ Fulfil(n)
  /\ cmds' = [cmds EXCEPT ![cur].is = Append(@, map[n].fd),
                          ![cur].args = Append(@, map[n].fd)]
-----------------------------------------------------------------------------
(* The commands, by what a line of the script is. *)

NextCommand(kind) ==
  /\ phase = "setup" /\ ~building /\ base + cur < MaxCmds
  /\ UNCHANGED <<phase, nargs, base, add_map, exstatus, last>>

(* fildesh_compat_fd_close() of some descriptors. *)
CloseFds(S) ==
  /\ open' = open \ S
  /\ misclosed' = (misclosed \/ ~(S \subseteq open))

(* A command proper: its arguments follow, ... *)
BeginCommand ==
  /\ NextCommand("RunCommand")
  /\ building' = TRUE
  /\ cmds' = Append(cmds, NewCommand("RunCommand"))
  /\ UNCHANGED <<hookupVars, streamVars, scriptVars>>

Taken(n) == map[n].kind \in {"ODescVal", "IFutureDescVal"}

(* ... and transfer_map_entries() makes the names it has declared known. *)
EndCommand ==
  /\ phase = "setup" /\ building
  /\ \A n \in Names : add_map[n] # NoSym => ~Taken(n)
  /\ map' = [n \in Names |-> IF add_map[n] # NoSym THEN add_map[n] ELSE map[n]]
  /\ add_map' = [n \in Names |-> NoSym]
  /\ building' = FALSE /\ nargs' = 0
  /\ UNCHANGED <<phase, cmds, base, stdin_fd, stdout_fd, streamVars, scriptVars,
                 exstatus, last>>

(* $(> n): the command before, which writes n, is followed by an elastic   *)
(* that reads n and will have one output for every use of the definition.  *)
Define(n) ==
  /\ NextCommand("DefCommand") /\ cur > 0
  /\ map[n].kind = "ODescVal" /\ map[n].cmd = cur /\ Current(n)
  /\ map[n].fd + 1 = me.stdos
  /\ cmds' = Append(cmds, [NewCommand("DefCommand") EXCEPT !.stdis = map[n].fd])
  /\ map' = [map EXCEPT ![n] = [NoSym EXCEPT !.kind = "DefVal", !.cmd = cur + 1,
                                             !.id = cmds'[cur + 1].id]]
  /\ dst' = [dst EXCEPT ![PipeOf(map[n].fd)] = cmds'[cur + 1].id]
  /\ Linked(me.id, cmds'[cur + 1].id)
  /\ UNCHANGED <<building, stdin_fd, stdout_fd, streamVars, src>>

(* $(H n) *)
HereDoc(n) ==
  /\ NextCommand("HereDocCommand") /\ Usable(n)
  /\ Habit("twice", Taken(n))
  /\ cmds' = Append(cmds, NewCommand("HereDocCommand"))
  /\ map' = [map EXCEPT ![n] = [NoSym EXCEPT !.kind = "HereDocVal"]]
  /\ UNCHANGED <<building, stdin_fd, stdout_fd, streamVars, scriptVars>>

(* stdin $(O n) *)
Stdin(n) ==
  /\ NextCommand("StdinCommand") /\ Usable(n)
  /\ stdin_fd # -1 /\ ~Taken(n)
  /\ stdin_fd' = -1
  /\ cmds' = Append(cmds, NewCommand("StdinCommand"))
  /\ map' = [map EXCEPT ![n] = [NoSym EXCEPT !.kind = "ODescVal", !.fd = stdin_fd,
                                             !.cmd = cur + 1, !.id = base + cur + 1]]
  /\ UNCHANGED <<building, stdout_fd, streamVars, scriptVars>>

(* Where the stream n comes from. *)
Writer(n) == cmds[map[n].cmd]

(* last->os is indexed if the symbol's ios_idx is in range. *)
Listed(n) == map[n].ios \in 1..Len(Writer(n).os)
(* Mutant: standard output, whichever output the stream is. *)
OutputOfStdout(n) == Writer(n).stdos

(* The descriptor that the stream n is written to. *)
OutputOf(n) == IF Listed(n) THEN Writer(n).os[map[n].ios] ELSE Writer(n).stdos

(* Any symbol will do that a command has made, whatever has become of it. *)
Redirectable(n) ==
  /\ Current(n) /\ Writer(n).kind = "RunCommand"
  /\ Habit("reused", ~Taken(n))
  /\ Habit("below", map[n].kind = "IFutureDescVal")
  /\ Habit("status", map[n].fd + 1 = Writer(n).status_fd)
  /\ Habit("errfiles", map[n].ios > 0 /\ Err \in ToSet(Writer(n).args))

(* stdout $(X n): the writer's own descriptor becomes standard output. *)
Stdout(n) ==
  /\ NextCommand("StdoutCommand") /\ stdout_fd # -1 /\ Redirectable(n)
  /\ CloseFds({map[n].fd})
  /\ redirected' = redirected \union ({OutputOf(n)} \ {-1, Err})
  /\ stdout_fd' = -1
  /\ map' = [map EXCEPT ![n] = Used(@)]
  /\ dst' = [dst EXCEPT ![PipeOf(map[n].fd)] = ToStdout]
  /\ cmds' = Append(cmds, NewCommand("StdoutCommand"))
  /\ UNCHANGED <<building, npipes, stdin_fd, src, group>>

(* stderr $(X n): the writer's descriptor is closed, and it is to write to *)
(* standard error instead (which `open` does not follow).                  *)
Stderr(n) ==
  /\ NextCommand("StderrCommand") /\ Redirectable(n)
  /\ CloseFds({map[n].fd, OutputOf(n)} \ {Err})
  /\ LET k == map[n].cmd
         named == IF map[n].arg > 0 THEN [cmds EXCEPT ![k].args[map[n].arg] = Err] ELSE cmds
     IN  cmds' = Append(IF Listed(n)
                        THEN [named EXCEPT ![k].os = RemoveAt(@, map[n].ios)]
                        ELSE [named EXCEPT ![k].stdos = Err],
                        NewCommand("StderrCommand"))
  /\ map' = [map EXCEPT ![n] = Used(@)]
  /\ dst' = [dst EXCEPT ![PipeOf(map[n].fd)] = ToStderr]
  /\ UNCHANGED <<building, npipes, redirected, stdin_fd, stdout_fd, src, group>>

(* `stdout` has the shell's standard output, and no stream to give it to:  *)
(* none is named, or no command writes it, which is an error.              *)
StdoutInVain(refused) ==
  /\ "refused" \in Habits
  /\ phase = "setup" /\ ~building /\ base + cur < MaxCmds /\ stdout_fd # -1
  /\ stdout_fd' = -1
  /\ cmds' = Append(cmds, [NewCommand("StdoutCommand") EXCEPT !.stdos = stdout_fd])
  /\ IF refused THEN phase' = "wait" /\ exstatus' = 65 /\ last' = TRUE
                ELSE UNCHANGED <<phase, exstatus, last>>
  /\ UNCHANGED <<building, nargs, base, add_map, map, stdin_fd, streamVars, scriptVars>>

(* An argument or a line is not good: nothing is spawned. *)
Refuse ==
  /\ phase = "setup"
  /\ phase' = "wait" /\ exstatus' = 65 /\ last' = TRUE
  /\ UNCHANGED <<building, nargs, cmds, base, add_map, hookupVars, streamVars, scriptVars>>

(* A barrier, or the end of the script. *)
EndSection ==
  /\ phase = "setup" /\ ~building /\ cmds # <<>>
  /\ Habit("dangling", \E n \in Names : Taken(n))
  /\ Habit("unused", \E k \in 1..cur : cmds[k].kind = "DefCommand" /\ cmds[k].os = <<>>)
  /\ phase' = "spawn"
  /\ last' \in {TRUE, base + cur = MaxCmds}
  /\ UNCHANGED <<building, nargs, cmds, base, add_map, hookupVars, streamVars,
                 scriptVars, exstatus>>

Argument(n) ==
  \/ StdinFrom(n) \/ TextFrom(n) \/ FileFrom(n) \/ ExecuteFrom(n)
  \/ StdoutTo(n) \/ StatusTo(n) \/ FileTo(n) \/ StdinFromBelow(n)
  \/ FileFromBelow(n) \/ StdoutAbove(n) \/ FileAbove(n)

Line(n) == Define(n) \/ HereDoc(n) \/ Stdin(n) \/ Stdout(n) \/ Stderr(n)

Setup ==
  /\ UNCHANGED forkonly
  /\ \/ \E n \in Names : Argument(n) \/ Line(n)
     \/ BeginCommand \/ EndCommand \/ EndSection \/ Refuse
     \/ \E refused \in BOOLEAN : StdoutInVain(refused)
=============================================================================
