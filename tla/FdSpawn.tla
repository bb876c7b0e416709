------------------------------- MODULE FdSpawn -------------------------------
(***************************************************************************)
(* The file descriptors of one process whose threads open, copy, close and *)
(* hand them to spawned programs at the same time (compat/fd.c, with the   *)
(* readers-writer lock of compat/fd_exclusive.h).                          *)
(*                                                                         *)
(* A descriptor created by open(), pipe() or dup() would be inherited by   *)
(* a program spawned before fcntl() sets FD_CLOEXEC.  So descriptors are   *)
(* created with the lock shared, and a program is spawned with the lock    *)
(* held exclusively.  close() takes no lock.                               *)
(*                                                                         *)
(* A thread passes only descriptors it owns.  0 and 1 are unused or belong *)
(* to Main at first; fildesh_builtin_fildesh_main() claims them before any *)
(* thread spawns a program, unless they are passed on as they are.         *)
(* Descriptor 2 stays standard error.  A call that needs a descriptor when *)
(* none is free fails (EMFILE); a call that fails before it changes        *)
(* anything is not a step.                                                 *)
(***************************************************************************)
EXTENDS Integers, Sequences, Functions

CONSTANTS
  Threads,   (* the threads of the process                               *)
  Main,      (* the one it starts with                                   *)
  MaxFd,     (* the highest descriptor number: the process's limit       *)
  MaxFile    (* bound: open file descriptions are numbered from 1        *)

ASSUME FdAssumption ==
  /\ Main \in Threads
  /\ MaxFd \in Nat /\ MaxFd > 2
  /\ MaxFile \in Nat /\ MaxFile > 2

Fds == 0..MaxFd
Stdio == 0..2
Free == 0                  (* what tab holds for a descriptor not in use *)
Empty == MaxFile + 1       (* a pipe nobody else has the other end of    *)
Files == 0..Empty

VARIABLES
  tab,       (* the open file description of each descriptor             *)
  cloexec,   (* descriptors with FD_CLOEXEC                              *)
  nfiles,    (* open file descriptions created so far                    *)
  readers,   (* threads that hold the lock shared                        *)
  writers,   (* threads that hold the lock exclusively: at most one      *)
  own,       (* the descriptors a thread may use, per thread             *)
  pc,        (* where each thread is                                     *)
  raw,       (* descriptors a call has still to make good                *)
  held,      (* numbers up to 2 that move_off_stdio has yet to close     *)
  got,       (* descriptors the call will return                         *)
  bad,       (* threads whose call has failed                            *)
  call,      (* arguments of a spawn                                     *)
  pend,      (* members of fds_to_inherit a loop has yet to visit        *)
  snap,      (* what the arguments of a spawn refer to when it is called *)
  lost       (* open descriptors that failed spawns left behind          *)

tableVars == <<tab, cloexec, nfiles>>
lockVars == <<readers, writers>>
createVars == <<raw, held, got, bad>>
spawnVars == <<call, pend, snap>>
vars == <<tableVars, lockVars, own, pc, createVars, spawnVars, lost>>

NoCall == [in |-> -1, out |-> -1, inh |-> {}, keep |-> {}]
NoSnap == [fd \in Fds |-> Free]

(* Standard error, and standard input and output as far as they are open. *)
Init ==
  \E open \in SUBSET {0, 1} :
    /\ tab = [fd \in Fds |-> IF fd \in open \union {2} THEN fd + 1 ELSE Free]
    /\ cloexec = {}
    /\ nfiles = 3
    /\ readers = {} /\ writers = {}
    /\ own = [t \in Threads |-> IF t = Main THEN open ELSE {}]
    /\ pc = [t \in Threads |-> "idle"]
    /\ raw = [t \in Threads |-> <<>>]
    /\ held = [t \in Threads |-> <<>>]
    /\ got = [t \in Threads |-> {}]
    /\ call = [t \in Threads |-> NoCall]
    /\ pend = [t \in Threads |-> {}]
    /\ snap = [t \in Threads |-> NoSnap]
    /\ bad = {} /\ lost = {}

-----------------------------------------------------------------------------
FreeFds == {fd \in Fds : tab[fd] = Free}

(* The descriptor that open(), pipe() and dup() return. *)
Lowest(fd) == tab[fd] = Free /\ \A lower \in 0..(fd - 1) : tab[lower] # Free

(* Mutant of EnterShared: the lock is not taken. *)
EnterUnlocked(t) == UNCHANGED lockVars

EnterShared(t) ==
  /\ writers = {}
  /\ readers' = readers \union {t}
  /\ UNCHANGED writers

(* Mutant of EnterExclusive: readers are not waited for. *)
EnterAlongside(t) ==
  /\ writers = {}
  /\ writers' = {t}
  /\ UNCHANGED readers

EnterExclusive(t) ==
  /\ readers = {} /\ writers = {}
  /\ writers' = {t}
  /\ UNCHANGED readers

LeaveShared(t) == readers' = readers \ {t} /\ UNCHANGED writers
LeaveExclusive(t) == writers' = writers \ {t} /\ UNCHANGED readers

-----------------------------------------------------------------------------
(* Calls that create descriptors. *)

(* fildesh_compat_fd_claim(): the caller's descriptor is to be above 2 and *)
(* close-on-exec.                                                          *)
Claim(t, fd) ==
  /\ pc[t] = "idle" /\ fd \in own[t]
  /\ EnterShared(t)
  /\ own' = [own EXCEPT ![t] = @ \ {fd}]
  /\ raw' = [raw EXCEPT ![t] = <<fd>>]
  /\ pc' = [pc EXCEPT ![t] = "off"]
  /\ UNCHANGED <<tableVars, held, got, bad, spawnVars, lost>>

(* fildesh_compat_file_open_readonly() and _writeonly(): open(). *)
OpenFile(t) ==
  /\ pc[t] = "idle" /\ nfiles < MaxFile
  /\ EnterShared(t)
  /\ \E fd \in Fds :
        /\ Lowest(fd)
        /\ tab' = [tab EXCEPT ![fd] = nfiles + 1]
        /\ raw' = [raw EXCEPT ![t] = <<fd>>]
        /\ cloexec' = cloexec \ {fd}
  /\ nfiles' = nfiles + 1
  /\ pc' = [pc EXCEPT ![t] = "off"]
  /\ UNCHANGED <<own, held, got, bad, spawnVars, lost>>

(* fildesh_compat_fd_pipe(): pipe(). *)
MakePipe(t) ==
  /\ pc[t] = "idle" /\ nfiles + 1 < MaxFile
  /\ EnterShared(t)
  /\ \E r, w \in Fds :
        /\ Lowest(r) /\ r < w /\ tab[w] = Free
        /\ \A fd \in (r + 1)..(w - 1) : tab[fd] # Free
        /\ tab' = [tab EXCEPT ![r] = nfiles + 1, ![w] = nfiles + 2]
        /\ raw' = [raw EXCEPT ![t] = <<r, w>>]
        /\ cloexec' = cloexec \ {r, w}
  /\ nfiles' = nfiles + 2
  /\ pc' = [pc EXCEPT ![t] = "off"]
  /\ UNCHANGED <<own, held, got, bad, spawnVars, lost>>

(* Between calls to the system: the next descriptor, maybe a pipe's other. *)
AtRaw(t) ==
  /\ raw[t] # <<>>
  /\ \/ pc[t] = "off"
     \/ pc[t] = "close" /\ held[t] = <<>>

(* fildesh_compat_fd_duplicate(): dup() while the number is that of stdio. *)
Dup(t) ==
  /\ AtRaw(t) /\ Head(raw[t]) \in Stdio
  /\ \E fd \in Fds :
        /\ Lowest(fd)
        /\ tab' = [tab EXCEPT ![fd] = tab[Head(raw[t])]]
        /\ cloexec' = cloexec \ {fd}
        /\ raw' = [raw EXCEPT ![t] = <<fd>> \o Tail(@)]
  /\ held' = [held EXCEPT ![t] = Append(@, Head(raw[t]))]
  /\ pc' = [pc EXCEPT ![t] = "seal"]
  /\ UNCHANGED <<nfiles, lockVars, own, got, bad, spawnVars, lost>>

(* Mutant of DupFails: what dup() returned is closed as well. *)
DupFailsCloseAll(t) ==
  /\ AtRaw(t) /\ Head(raw[t]) \in Stdio
  /\ FreeFds = {}
  /\ held' = [held EXCEPT ![t] = @ \o <<Head(raw[t]), -1>>]
  /\ raw' = [raw EXCEPT ![t] = Tail(@)]
  /\ bad' = bad \union {t}
  /\ pc' = [pc EXCEPT ![t] = "close"]
  /\ UNCHANGED <<tableVars, lockVars, own, got, spawnVars, lost>>

(* dup() fails: move_off_stdio() is to close what it has, and return -1. *)
DupFails(t) ==
  /\ AtRaw(t) /\ Head(raw[t]) \in Stdio
  /\ FreeFds = {}
  /\ held' = [held EXCEPT ![t] = Append(@, Head(raw[t]))]
  /\ raw' = [raw EXCEPT ![t] = Tail(@)]
  /\ bad' = bad \union {t}
  /\ pc' = [pc EXCEPT ![t] = "close"]
  /\ UNCHANGED <<tableVars, lockVars, own, got, spawnVars, lost>>

(* fildesh_compat_fd_cloexec(): the number is good, or dup() has another go. *)
Seal(t) ==
  /\ \/ pc[t] = "seal"
     \/ (AtRaw(t) /\ Head(raw[t]) \notin Stdio)
  /\ cloexec' = cloexec \union {Head(raw[t])}
  /\ \/ /\ Head(raw[t]) \in Stdio
        /\ pc' = [pc EXCEPT ![t] = "off"]
        /\ UNCHANGED <<raw, got>>
     \/ /\ Head(raw[t]) \notin Stdio
        /\ pc' = [pc EXCEPT ![t] = "close"]
        /\ raw' = [raw EXCEPT ![t] = Tail(@)]
        /\ got' = [got EXCEPT ![t] = @ \union {Head(raw[t])}]
  /\ UNCHANGED <<tab, nfiles, lockVars, own, held, bad, spawnVars, lost>>

(* move_off_stdio() closes the low numbers it went through, oldest first. *)
CloseHeld(t) ==
  /\ pc[t] = "close" /\ held[t] # <<>>
  /\ tab' = [tab EXCEPT ![Head(held[t])] = Free]
  /\ cloexec' = cloexec \ {Head(held[t])}
  /\ held' = [held EXCEPT ![t] = Tail(@)]
  /\ UNCHANGED <<nfiles, lockVars, own, pc, raw, got, bad, spawnVars, lost>>

(* A pipe's other descriptor is closed if one could not be moved. *)
CloseGot(t) ==
  /\ pc[t] = "close" /\ held[t] = <<>> /\ raw[t] = <<>> /\ t \in bad
  /\ \E fd \in got[t] :
        /\ tab' = [tab EXCEPT ![fd] = Free]
        /\ cloexec' = cloexec \ {fd}
        /\ got' = [got EXCEPT ![t] = @ \ {fd}]
  /\ UNCHANGED <<nfiles, lockVars, own, pc, raw, held, bad, spawnVars, lost>>

Return(t) ==
  /\ pc[t] = "close" /\ held[t] = <<>> /\ raw[t] = <<>>
  /\ t \in bad => got[t] = {}
  /\ LeaveShared(t)
  /\ own' = [own EXCEPT ![t] = @ \union got[t]]
  /\ got' = [got EXCEPT ![t] = {}]
  /\ bad' = bad \ {t}
  /\ pc' = [pc EXCEPT ![t] = "idle"]
  /\ UNCHANGED <<tableVars, raw, held, spawnVars, lost>>

-----------------------------------------------------------------------------
(* fildesh_compat_fd_close(), without the lock. *)
Close(t, fd) ==
  /\ pc[t] = "idle" /\ fd \in own[t]
  /\ tab' = [tab EXCEPT ![fd] = Free]
  /\ cloexec' = cloexec \ {fd}
  /\ own' = [own EXCEPT ![t] = @ \ {fd}]
  /\ UNCHANGED <<nfiles, lockVars, pc, createVars, spawnVars, lost>>

(* fildesh_compat_fd_copy_to() and, where move holds, _move_to(): dup2(),  *)
(* and close() of the original.                                            *)
CopyTo(t, dst, src, move) ==
  /\ pc[t] = "idle" /\ {dst, src} \subseteq own[t] /\ dst # src
  /\ EnterExclusive(t)
  /\ tab' = [tab EXCEPT ![dst] = tab[src], ![src] = IF move THEN Free ELSE @]
  /\ cloexec' = cloexec \ (IF move THEN {dst, src} ELSE {dst})
  /\ own' = [own EXCEPT ![t] = @ \ (IF move THEN {dst, src} ELSE {dst})]
  /\ raw' = [raw EXCEPT ![t] = <<dst>>]
  /\ pc' = [pc EXCEPT ![t] = "flag"]
  /\ UNCHANGED <<nfiles, held, got, bad, spawnVars, lost>>

(* The copy is inherited if it is standard input or output, and only then. *)
SetFlag(t) ==
  /\ pc[t] = "flag"
  /\ LET dst == Head(raw[t])
     IN  /\ cloexec' = IF dst \in Stdio THEN cloexec \ {dst} ELSE cloexec \union {dst}
         /\ own' = [own EXCEPT ![t] = @ \union {dst}]
  /\ raw' = [raw EXCEPT ![t] = <<>>]
  /\ LeaveExclusive(t)
  /\ pc' = [pc EXCEPT ![t] = "idle"]
  /\ UNCHANGED <<tab, nfiles, held, got, bad, spawnVars, lost>>

-----------------------------------------------------------------------------
(* fildesh_compat_fd_spawnvp(). *)

(* What a caller passes: descriptors it owns, each in one role, or -1 for  *)
(* an empty stream; 0 and 1 in their own places, 2 as standard output.     *)
(* keep has those listed twice in a row.                                   *)
Calls(t) ==
  LET mine == own[t] \ Stdio
  IN  {c \in [in : {-1, 0} \union mine, out : {-1, 1, 2} \union mine,
              inh : SUBSET mine, keep : SUBSET mine] :
         /\ c.in = c.out => c.in = -1
         /\ c.inh \intersect {c.in, c.out} = {}
         /\ c.keep \subseteq c.inh}

(* 0 and 1 have been claimed, but for those passed on as they are. *)
Claimed(t, c) ==
  \A u \in Threads :
    own[u] \intersect Stdio \subseteq (IF u = t THEN {c.in, c.out} ELSE {})

BeginSpawn(t, c) ==
  /\ pc[t] = "idle" /\ Claimed(t, c)
  /\ EnterExclusive(t)
  /\ call' = [call EXCEPT ![t] = c]
  /\ pend' = [pend EXCEPT ![t] = c.inh]
  /\ snap' = [snap EXCEPT ![t] = [fd \in Fds |->
                 IF fd \in c.inh \union {c.in, c.out} THEN tab[fd] ELSE Free]]
  /\ own' = [own EXCEPT ![t] = @ \ (c.inh \union ({c.in, c.out} \ Stdio))]
  /\ pc' = [pc EXCEPT ![t] = "inherit"]
  /\ UNCHANGED <<tableVars, createVars, lost>>

(* fildesh_compat_fd_inherit() of the next member of fds_to_inherit. *)
InheritFd(t) ==
  /\ pc[t] = "inherit"
  /\ \E fd \in pend[t] :
        /\ cloexec' = cloexec \ {fd}
        /\ pend' = [pend EXCEPT ![t] = @ \ {fd}]
  /\ UNCHANGED <<tab, nfiles, lockVars, own, pc, createVars, call, snap, lost>>

(* fildesh_compat_fd_inherit_empty_stdio() needs a pipe. *)
PipeFits == \E r, w \in FreeFds : r # w

(* Mutant of SetupStdin: no input is taken for the process's own. *)
SetupStdinUnlessGiven(t) ==
  /\ pc[t] = "inherit" /\ pend[t] = {}
  /\ LET in == call[t].in
     IN  \/ /\ in \in {-1, 0}
            /\ UNCHANGED <<tab, cloexec>>
         \/ /\ in \notin {-1, 0}
            /\ tab' = [tab EXCEPT ![0] = tab[in], ![in] = Free]
            /\ cloexec' = cloexec \ {0, in}
  /\ pc' = [pc EXCEPT ![t] = "stdout"]
  /\ UNCHANGED <<nfiles, lockVars, own, createVars, spawnVars, lost>>

(* Standard input: an empty pipe, what is there, or the argument, moved. *)
SetupStdin(t) ==
  /\ pc[t] = "inherit" /\ pend[t] = {}
  /\ LET in == call[t].in
     IN  \/ /\ in = -1 /\ PipeFits
            /\ tab' = [tab EXCEPT ![0] = Empty]
            /\ cloexec' = cloexec \ {0}
         \/ /\ in = 0
            /\ UNCHANGED <<tab, cloexec>>
         \/ /\ in \notin {-1, 0}
            /\ tab' = [tab EXCEPT ![0] = tab[in], ![in] = Free]
            /\ cloexec' = cloexec \ {0, in}
  /\ pc' = [pc EXCEPT ![t] = "stdout"]
  /\ UNCHANGED <<nfiles, lockVars, own, createVars, spawnVars, lost>>

(* Standard output likewise, or a copy of standard error. *)
SetupStdout(t) ==
  /\ pc[t] = "stdout"
  /\ LET out == call[t].out
     IN  \/ /\ out = -1 /\ PipeFits
            /\ tab' = [tab EXCEPT ![1] = Empty]
            /\ cloexec' = cloexec \ {1}
         \/ /\ out = 1
            /\ UNCHANGED <<tab, cloexec>>
         \/ /\ out = 2
            /\ tab' = [tab EXCEPT ![1] = tab[2]]
            /\ cloexec' = cloexec \ {1}
         \/ /\ out \notin {-1, 1, 2}
            /\ tab' = [tab EXCEPT ![1] = tab[out], ![out] = Free]
            /\ cloexec' = cloexec \ {1, out}
  /\ pc' = [pc EXCEPT ![t] = "fork"]
  /\ UNCHANGED <<nfiles, lockVars, own, createVars, spawnVars, lost>>

(* There is no pipe to be had.  Only a successful setup is cleaned up: what *)
(* it put on 0, and the caller's output, stay open.                         *)
SetupFails(t) ==
  /\ ~PipeFits
  /\ \/ /\ pc[t] = "inherit" /\ pend[t] = {} /\ call[t].in = -1
        /\ lost' = lost \union ({call[t].out} \ {-1, 1, 2})
     \/ /\ pc[t] = "stdout" /\ call[t].out = -1
        /\ lost' = lost \union (IF call[t].in = 0 THEN {} ELSE {0})
  /\ pend' = [pend EXCEPT ![t] = call[t].inh]
  /\ pc' = [pc EXCEPT ![t] = "drop"]
  /\ UNCHANGED <<tableVars, lockVars, own, createVars, call, snap>>

(* What setup_stdio() puts in the place of standard input and output. *)
Placed(t) == {fd \in {0, 1} : \/ fd = 0 /\ call[t].in # 0
                              \/ fd = 1 /\ call[t].out # 1}

(* Mutant of ForkAndCleanup: the process's own streams are closed as well. *)
ForkAndCleanupAll(t) ==
  /\ pc[t] = "fork"
  /\ tab' = [fd \in Fds |-> IF fd \in {0, 1} THEN Free ELSE tab[fd]]
  /\ cloexec' = cloexec \ {0, 1}
  /\ lost' = lost \ {0, 1}
  /\ pend' = [pend EXCEPT ![t] = call[t].inh]
  /\ pc' = [pc EXCEPT ![t] = "drop"]
  /\ UNCHANGED <<nfiles, lockVars, own, createVars, call, snap>>

(* fildesh_compat_sh_spawn(): the child is on its way, or fork() failed.   *)
(* Then fildesh_compat_fd_spawnvp_cleanup_stdio() closes what was set up.  *)
ForkAndCleanup(t) ==
  /\ pc[t] = "fork"
  /\ tab' = [fd \in Fds |-> IF fd \in Placed(t) THEN Free ELSE tab[fd]]
  /\ cloexec' = cloexec \ Placed(t)
  /\ lost' = lost \ Placed(t)
  /\ pend' = [pend EXCEPT ![t] = call[t].inh]
  /\ pc' = [pc EXCEPT ![t] = "drop"]
  /\ UNCHANGED <<nfiles, lockVars, own, createVars, call, snap>>

(* Mutant of DropFd: a descriptor listed twice stays inheritable. *)
DropFdUnsealed(t) ==
  /\ pc[t] = "drop"
  /\ \E fd \in pend[t] :
        /\ tab' = IF fd \in call[t].keep THEN tab ELSE [tab EXCEPT ![fd] = Free]
        /\ cloexec' = cloexec \ {fd}
        /\ pend' = [pend EXCEPT ![t] = @ \ {fd}]
  /\ UNCHANGED <<nfiles, lockVars, own, pc, createVars, call, snap, lost>>

(* An inherited descriptor is closed, or close-on-exec again if listed twice. *)
DropFd(t) ==
  /\ pc[t] = "drop"
  /\ \E fd \in pend[t] :
        /\ \/ /\ fd \in call[t].keep
              /\ cloexec' = cloexec \union {fd}
              /\ UNCHANGED tab
           \/ /\ fd \notin call[t].keep
              /\ tab' = [tab EXCEPT ![fd] = Free]
              /\ cloexec' = cloexec \ {fd}
        /\ pend' = [pend EXCEPT ![t] = @ \ {fd}]
  /\ UNCHANGED <<nfiles, lockVars, own, pc, createVars, call, snap, lost>>

EndSpawn(t) ==
  /\ pc[t] = "drop" /\ pend[t] = {}
  /\ LeaveExclusive(t)
  /\ own' = [own EXCEPT ![t] = @ \union call[t].keep]
  /\ call' = [call EXCEPT ![t] = NoCall]
  /\ snap' = [snap EXCEPT ![t] = NoSnap]
  /\ pc' = [pc EXCEPT ![t] = "idle"]
  /\ UNCHANGED <<tableVars, createVars, pend, lost>>

-----------------------------------------------------------------------------
CreateStep(t) ==
  \/ \E fd \in Fds : Claim(t, fd) \/ Close(t, fd)
  \/ OpenFile(t) \/ MakePipe(t) \/ Dup(t) \/ DupFails(t) \/ Seal(t)
  \/ CloseHeld(t) \/ CloseGot(t) \/ Return(t)

CopyStep(t) ==
  \/ \E dst, src \in Fds, move \in BOOLEAN : CopyTo(t, dst, src, move)
  \/ SetFlag(t)

SpawnStep(t) ==
  \/ \E c \in Calls(t) : BeginSpawn(t, c)
  \/ InheritFd(t) \/ SetupStdin(t) \/ SetupStdout(t) \/ SetupFails(t)
  \/ ForkAndCleanup(t) \/ DropFd(t) \/ EndSpawn(t)

Next == \E t \in Threads : CreateStep(t) \/ CopyStep(t) \/ SpawnStep(t)

Spec == Init /\ [][Next]_vars

-----------------------------------------------------------------------------
SharedPcs == {"off", "seal", "close"}
ExclusivePcs == {"flag", "inherit", "stdout", "fork", "drop"}

TypeOK ==
  /\ tab \in [Fds -> Files]
  /\ cloexec \subseteq Fds
  /\ nfiles \in 3..MaxFile
  /\ readers \subseteq Threads /\ writers \subseteq Threads
  /\ own \in [Threads -> SUBSET Fds]
  /\ pc \in [Threads -> {"idle"} \union SharedPcs \union ExclusivePcs]
  /\ raw \in [Threads -> Seq(Fds)]
  /\ held \in [Threads -> Seq(Fds)]
  /\ got \in [Threads -> SUBSET Fds]
  /\ call \in [Threads -> [in : -1..MaxFd, out : -1..MaxFd,
                          inh : SUBSET Fds, keep : SUBSET Fds]]
  /\ pend \in [Threads -> SUBSET Fds]
  /\ snap \in [Threads -> [Fds -> Files]]
  /\ bad \subseteq Threads /\ lost \subseteq Fds

(* What execve() leaves open in a child forked now. *)
Inherited == {fd \in Fds : tab[fd] # Free /\ fd \notin cloexec}

(***************************************************************************)
(* At the fork, nothing above standard error is inherited but what the     *)
(* caller listed: a stray copy of a pipe's write end would keep its reader *)
(* from ever seeing end-of-file.                                           *)
(***************************************************************************)
NoLeak ==
  \A t \in Threads : pc[t] = "fork" => Inherited \ Stdio \subseteq call[t].inh

(***************************************************************************)
(* At the fork, the streams and descriptors the child will have are those  *)
(* the caller meant when it called, and standard error is the process's.   *)
(***************************************************************************)
ChildStreams ==
  \A t \in Threads : pc[t] = "fork" =>
    /\ tab[0] = IF call[t].in = -1 THEN Empty ELSE snap[t][call[t].in]
    /\ tab[1] = IF call[t].out = -1 THEN Empty
                ELSE IF call[t].out = 2 THEN 3 ELSE snap[t][call[t].out]
    /\ tab[2] = 3
    /\ \A fd \in call[t].inh : fd \in Inherited /\ tab[fd] = snap[t][fd]

(***************************************************************************)
(* When no call is in progress every open descriptor is owned, unless it   *)
(* is one that a failed spawn left, and each one above 2 is close-on-exec. *)
(***************************************************************************)
NothingForgotten ==
  (\A t \in Threads : pc[t] = "idle") =>
    /\ \A fd \in Fds \ {2} : tab[fd] # Free => fd \in lost \union UNION {own[t] : t \in Threads}
    /\ Inherited \subseteq Stdio

(* The descriptors that a call in progress has yet to use or to close. *)
SpawnUses(t) ==
  CASE pc[t] = "inherit" -> call[t].inh \union ({call[t].in, call[t].out} \ (-1..2))
    [] pc[t] = "stdout" ->
         call[t].inh \union ({call[t].out} \ (-1..2)) \union (Placed(t) \ {1})
    [] pc[t] = "fork" -> call[t].inh \union Placed(t)
    [] pc[t] = "drop" -> call[t].keep \union pend[t]
    [] OTHER -> {}

Uses(t) == own[t] \union Range(raw[t]) \union Range(held[t]) \union got[t]
                  \union SpawnUses(t)

(***************************************************************************)
(* The descriptors that a thread has, or that its call still works on, are *)
(* open and its own alone: no close() of a number that was never open or   *)
(* that someone else has been given by then (the assertion on EBADF in     *)
(* fildesh_compat_fd_close()).                                             *)
(***************************************************************************)
UsedOnce ==
  \A t \in Threads : \A fd \in Uses(t) :
    /\ tab[fd] # Free
    /\ \A u \in Threads \ {t} : fd \notin Uses(u)

(***************************************************************************)
(* While a thread is between two steps, what its descriptors refer to does *)
(* not change under it, whatever numbers other threads' calls go through.  *)
(***************************************************************************)
UsesIntact ==
  [][\A t \in Threads : \A fd \in Uses(t) :
        (pc'[t] = pc[t] /\ fd \in Uses(t)') => tab'[fd] = tab[fd]]_vars
=============================================================================
