---------------------------- MODULE ScriptProofs ----------------------------
(***************************************************************************)
(* What the main loop of a script keeps to for every number of names,      *)
(* pipes, commands and arguments.                                          *)
(***************************************************************************)
EXTENDS Script, SequenceTheorems, FiniteSetTheorems, TLAPS

Rs == {R(p) : p \in Pipes}
Ws == {W(p) : p \in Pipes}
Kinds == {"RunCommand", "DefCommand", "HereDocCommand", "StdinCommand",
          "StdoutCommand", "StderrCommand", "NoCommand"}
Commands ==
    [kind : Kinds, id : Nat, stdis : Fds \cup {-1}, stdos : Fds \cup {-1, Err},
     is : Seq(Fds), os : Seq(Fds), status_fd : Fds \cup {-1}, iargs : Seq(Fds),
     exec_fd : Fds \cup {-1}, has_bytes : BOOLEAN, exit_fds : SUBSET Int, args : Seq(Int)]
Streams == {"ODescVal", "IFutureDescVal"}
Symbols ==
    [kind : Streams \cup {"none", "DefVal", "HereDocVal"},
     fd : Int, cmd : Nat, arg : Nat, ios : Nat, id : Nat]


\* Scripts send streams elsewhere that are not there to be read any more.
Redirects == {"reused", "below"} \cap Habits # {}

\* What standard output can replace.  With an output sent to `stderr` before,
\* a file of the same command may be taken for another (see "errfiles"), and
\* a stream from below is listed where its command reads it (see "below").
Outputs == IF Redirects \/ "errfiles" \in Habits THEN Fds ELSE Ws

Typed ==
    /\ phase \in {"setup", "spawn", "wait", "exit"} /\ building \in BOOLEAN /\ nargs \in 0 .. MaxArgs
    /\ base \in Nat /\ cmds \in Seq(Commands) /\ base + Len(cmds) <= MaxCmds
    /\ map \in [Names -> Symbols] /\ add_map \in [Names -> Symbols]
    /\ stdin_fd \in {In, -1} /\ stdout_fd \in {Out, -1}
    /\ npipes \in 0 .. MaxPipes /\ open \subseteq Fds /\ redirected \subseteq Outputs
    /\ src \in [Pipes -> Int] /\ dst \in [Pipes -> Int]
    /\ exstatus \in (0 .. MaxCmds) \cup {65, 126}
    /\ next \in 1 .. Len(cmds) + 1
    /\ state \in [Ids -> States] /\ thread \in [Ids -> BOOLEAN] /\ fails \subseteq Ids

\* A record has the number of its command, and what it says of files and of
\* standard output can be.
Numbered ==
    \A k \in 1 .. Len(cmds) :
        /\ cmds[k].id = base + k
        /\ cmds[k].exec_fd # -1 => cmds[k].exec_fd \in ToSet(cmds[k].is)
        /\ cmds[k].kind = "RunCommand" => cmds[k].stdos \in Ws \cup {-1, Err}

\* Where the record of its command has the stream of a symbol.  A command with
\* an output sent to `stderr` has lost the places of the others.
InPlace(s, c1) ==
    /\ s.arg > 0 => c1.args[s.arg] = s.fd + 1
    /\ s.ios > 0 /\ Err \notin ToSet(c1.args) => s.ios \in 1 .. Len(c1.os) /\ c1.os[s.ios] = s.fd + 1
Placed(s, cs) ==
    s.kind = "ODescVal" /\ s.cmd \in 1 .. Len(cs) /\ cs[s.cmd].id = s.id =>
      /\ s.arg > 0 <=> s.ios > 0
      /\ s.arg > 0 => s.arg \in 1 .. Len(cs[s.cmd].args)
      /\ ~Redirects => InPlace(s, cs[s.cmd])

\* A symbol has the end of a pipe that no command has.
Created(s, n) ==
    /\ s.kind = "ODescVal" => \E p \in 1 .. n : s.fd = R(p)
    /\ s.kind = "IFutureDescVal" => \E p \in 1 .. n : s.fd = W(p)
IsStdin(s, fd) == s.kind = "ODescVal" /\ s.fd = In /\ s.ios = 0 /\ fd = -1

KnownFit ==
    \A n \in Names :
        /\ phase = "setup" => Placed(map[n], cmds)
        /\ Created(map[n], npipes) \/ IsStdin(map[n], stdin_fd)
        /\ map[n].arg > 0 => map[n].kind \in {"ODescVal", "none"}
        /\ map[n].id <= base + Len(cmds)
DeclaredFit ==
    \A n \in Names : add_map[n] # NoSym =>
        /\ building /\ add_map[n].kind \in Streams /\ Created(add_map[n], npipes)
        /\ add_map[n].arg > 0 => add_map[n].kind = "ODescVal"
        /\ phase = "setup" => /\ Placed(add_map[n], cmds)
                              /\ add_map[n].cmd = Len(cmds) /\ add_map[n].id = base + Len(cmds)
TakenOnce ==
    \A n, m \in Names :
        /\ n # m /\ map[n].kind \in Streams /\ map[m].kind \in Streams => map[n].fd # map[m].fd
        /\ n # m /\ add_map[n].kind \in Streams /\ add_map[m].kind \in Streams =>
             add_map[n].fd # add_map[m].fd
        /\ map[n].kind \in Streams /\ add_map[m].kind \in Streams => map[n].fd # add_map[m].fd
BuildingOne ==
    building => IF phase = "setup" THEN Len(cmds) > 0 /\ cmds[Len(cmds)].kind = "RunCommand"
                                   ELSE exstatus # 0

ScriptInv == Typed /\ Numbered /\ KnownFit /\ DeclaredFit /\ TakenOnce /\ BuildingOne

\* Which commands can be running, where the loops over them are.
Barrier ==
    /\ \A i \in Ids : i > base + Len(cmds) => state[i] = "none"
    /\ phase # "exit" => \A i \in Ids : i <= base => ~Live(i) /\ i \notin fails
    /\ phase = "setup" => \A i \in Ids : i > base => state[i] = "none"
    /\ phase = "spawn" => \A i \in Ids : i >= base + next => state[i] = "none"
    /\ phase = "wait" => \A i \in Ids : i < base + next => ~Live(i)
    /\ \A i \in fails : state[i] = "ended"

-----------------------------------------------------------------------------
LEMMA Bounds == /\ NNames \in Nat \ {0} /\ MaxPipes \in Nat \ {0}
                /\ MaxCmds \in Nat \ {0} /\ MaxArgs \in Nat \ {0}
BY WiringAssumption

LEMMA FdFacts ==
    /\ \A p \in Pipes : R(p) \in Fds /\ W(p) \in Fds /\ R(p) \in Rs /\ W(p) \in Ws
    /\ Fds \subseteq Int /\ Rs \subseteq Fds /\ Ws \subseteq Fds
    /\ -1 \notin Fds /\ Err \notin Fds /\ In \in Fds /\ Out \in Fds
<1>1. Fds = {In, Out} \cup Rs \cup Ws
  BY DEF Fds, Rs, Ws
<1>2. Rs \subseteq {x \in Int : x > 4} /\ Ws \subseteq {x \in Int : x > 4}
  BY DEF Rs, Ws, R, W, Pipes
<1> QED BY <1>1, <1>2 DEF Rs, Ws, In, Out, Err

LEMMA PipeEnds ==
    ASSUME NEW p \in Int, NEW q \in Int
    PROVE  /\ W(p) = R(p) + 1 /\ R(p) # W(q) /\ (R(p) = R(q) => p = q) /\ (W(p) = W(q) => p = q)
BY DEF R, W

LEMMA UsedFacts ==
    ASSUME NEW s \in Symbols
    PROVE  /\ Used(s) \in Symbols /\ Used(s).kind = "none" /\ Used(s).kind \notin Streams
           /\ Used(s).id \in {0, s.id}
           /\ \A cs, m : Placed(Used(s), cs) /\ Created(Used(s), m)
<1>1. NoSym \in Symbols /\ NoSym.kind = "none" /\ NoSym.id = 0
  BY DEF NoSym, Symbols
<1>2. LET u == [s EXCEPT !.kind = "none"] IN u \in Symbols /\ u.kind = "none" /\ u.id = s.id
  BY DEF Symbols
<1>3. Used(s) \in Symbols /\ Used(s).kind = "none" /\ Used(s).id \in {0, s.id}
  BY <1>1, <1>2 DEF Used
<1> QED BY <1>3 DEF Streams, Placed, Created

LEMMA NewEnds ==
    ASSUME Typed, npipes < MaxPipes
    PROVE  /\ npipes + 1 \in Pipes /\ NewR \in Fds /\ NewW \in Fds /\ NewR \in Rs /\ NewW \in Ws
           /\ NewW = NewR + 1
<1>1. npipes + 1 \in Pipes
  BY Bounds DEF Typed, Pipes
<1>2. npipes + 1 \in Int
  BY DEF Typed
<1> QED BY <1>1, <1>2, FdFacts, PipeEnds DEF NewR, NewW

LEMMA NewCommandTyped ==
    ASSUME Typed, NEW kind \in Kinds
    PROVE  /\ NewCommand(kind) \in Commands /\ NewCommand(kind).id = base + Len(cmds) + 1
           /\ NewCommand(kind).kind = kind /\ NewCommand(kind).exec_fd = -1 /\ NewCommand(kind).stdos = -1
           /\ NewCommand(kind).args = <<0>> /\ NewCommand(kind).os = <<>>
<1>1. base + Len(cmds) + 1 \in Nat
  BY LenProperties DEF Typed
<1>2. <<>> \in Seq(Fds) /\ <<0>> \in Seq(Int)
  OBVIOUS
<1> QED BY <1>1, <1>2 DEF NewCommand, Commands

LEMMA EmptiedTyped ==
    ASSUME Typed, NEW k \in Commands
    PROVE  /\ Emptied(k) \in Commands /\ Emptied(k).id = k.id /\ Emptied(k).kind = k.kind
           /\ Emptied(k).exec_fd = -1 /\ Emptied(k).stdos = -1
<1>1. k.id \in Nat /\ k.args \in Seq(Int) /\ k.kind \in Kinds
  BY DEF Commands
<1>2. <<>> \in Seq(Fds)
  OBVIOUS
<1> QED BY <1>1, <1>2 DEF Emptied, NewCommand, Commands

-----------------------------------------------------------------------------
(***************************************************************************)
(* Setting up the arguments of a command.                                  *)
(***************************************************************************)

\* The record a becomes b: it may be given more, but only the places of the
\* streams gone are taken back.
Keeps(a, b, gone) ==
    /\ b.id = a.id /\ b.kind = a.kind
    /\ b.exec_fd # -1 => b.exec_fd \in ToSet(b.is)
    /\ b.kind = "RunCommand" => b.stdos \in Ws \cup {-1, Err}
    /\ Len(a.os) <= Len(b.os) /\ \A x \in 1 .. Len(a.os) : b.os[x] = a.os[x]
    /\ Len(a.args) <= Len(b.args)
    /\ \A x \in 1 .. Len(a.args) : b.args[x] = a.args[x] \/ a.args[x] \in gone

\* What a record may lose once the stream n is taken.
Left(n) == IF Redirects THEN Int ELSE {map[n].fd + 1}

Sound(c1) ==
    /\ c1.exec_fd # -1 => c1.exec_fd \in ToSet(c1.is)
    /\ c1.kind = "RunCommand" => c1.stdos \in Ws \cup {-1, Err}

LEMMA KeepsSame ==
    ASSUME NEW a \in Commands, Sound(a), NEW gone
    PROVE  Keeps(a, a, gone)
BY DEF Keeps, Sound, Commands

LEMMA AppendFacts ==
    ASSUME NEW S, NEW s \in Seq(S), NEW e \in S
    PROVE  /\ Append(s, e) \in Seq(S) /\ Len(Append(s, e)) = Len(s) + 1 /\ Len(s) \in Nat
           /\ Append(s, e)[Len(s) + 1] = e /\ \A x \in 1 .. Len(s) : Append(s, e)[x] = s[x]
           /\ ToSet(Append(s, e)) = ToSet(s) \cup {e}
<1>1. /\ Append(s, e) \in Seq(S) /\ Len(Append(s, e)) = Len(s) + 1 /\ Len(s) \in Nat
      /\ Append(s, e)[Len(s) + 1] = e /\ \A x \in 1 .. Len(s) : Append(s, e)[x] = s[x]
  BY AppendProperties, LenProperties
<1>2. DOMAIN s = 1 .. Len(s) /\ DOMAIN Append(s, e) = 1 .. Len(s) + 1
  BY <1>1, LenProperties
<1>3. 1 .. Len(s) + 1 = (1 .. Len(s)) \cup {Len(s) + 1}
  BY <1>1
<1> QED BY <1>1, <1>2, <1>3 DEF ToSet

LEMMA UpdateFacts ==
    ASSUME NEW S, NEW s \in Seq(S), NEW k \in 1 .. Len(s), NEW e \in S
    PROVE  /\ [s EXCEPT ![k] = e] \in Seq(S) /\ Len([s EXCEPT ![k] = e]) = Len(s)
           /\ \A j \in 1 .. Len(s) : [s EXCEPT ![k] = e][j] = IF j = k THEN e ELSE s[j]
BY ExceptSeq, LenProperties

\* One more stream for a record, in its files and among its arguments.
LEMMA ListKeeps ==
    ASSUME NEW a \in Commands, Sound(a), NEW fd \in Fds, NEW gone,
           NEW b, b = [a EXCEPT !.os = Append(a.os, fd), !.args = Append(a.args, fd)]
    PROVE  b \in Commands /\ Keeps(a, b, gone) /\ Sound(b)
<1>1. a.os \in Seq(Fds) /\ a.args \in Seq(Int) /\ fd \in Int /\ fd # Err
  BY FdFacts DEF Commands
<1>2. Append(a.os, fd) \in Seq(Fds) /\ Append(a.args, fd) \in Seq(Int)
  BY <1>1, AppendFacts
<1>3. b \in Commands
  BY <1>2 DEF Commands
<1>4. /\ b.os = Append(a.os, fd) /\ b.args = Append(a.args, fd) /\ b.id = a.id /\ b.kind = a.kind
      /\ b.exec_fd = a.exec_fd /\ b.is = a.is /\ b.stdos = a.stdos
  BY DEF Commands
<1>5. /\ Len(b.os) = Len(a.os) + 1 /\ Len(a.os) \in Nat
      /\ \A x \in 1 .. Len(a.os) : b.os[x] = a.os[x]
  BY <1>1, <1>4, AppendFacts
<1>6. /\ Len(b.args) = Len(a.args) + 1 /\ Len(a.args) \in Nat
      /\ \A x \in 1 .. Len(a.args) : b.args[x] = a.args[x]
      /\ ToSet(b.args) = ToSet(a.args) \cup {fd}
  BY <1>1, <1>4, AppendFacts
<1> QED BY <1>1, <1>3, <1>4, <1>5, <1>6 DEF Keeps, Sound

LEMMA FieldKeeps ==
    ASSUME NEW a \in Commands, Sound(a), NEW fd \in Fds, NEW gone, NEW b,
           \/ b = [a EXCEPT !.stdis = fd]
           \/ b = [a EXCEPT !.stdos = fd] /\ fd \in Ws
           \/ b = [a EXCEPT !.status_fd = fd]
           \/ b = [a EXCEPT !.iargs = Append(a.iargs, fd)]
    PROVE  b \in Commands /\ Keeps(a, b, gone) /\ Sound(b)
<1>1. Append(a.iargs, fd) \in Seq(Fds)
  BY AppendFacts DEF Commands
<1>2. b \in Commands
  BY <1>1 DEF Commands
<1>3. /\ b.os = a.os /\ b.args = a.args /\ b.id = a.id /\ b.kind = a.kind
      /\ b.exec_fd = a.exec_fd /\ b.is = a.is /\ (b.stdos = a.stdos \/ b.stdos \in Ws)
  BY DEF Commands
<1>4. Len(a.os) \in Nat /\ Len(a.args) \in Nat
  BY LenProperties DEF Commands
<1> QED BY <1>2, <1>3, <1>4 DEF Keeps, Sound

LEMMA ReadKeeps ==
    ASSUME NEW a \in Commands, Sound(a), NEW fd \in Fds, NEW gone,
           NEW b, b = [a EXCEPT !.is = Append(a.is, fd), !.args = Append(a.args, fd)]
    PROVE  b \in Commands /\ Keeps(a, b, gone) /\ Sound(b)
<1>1. /\ a.is \in Seq(Fds) /\ a.args \in Seq(Int) /\ fd \in Int /\ fd # Err /\ Len(a.os) \in Nat
  BY FdFacts, LenProperties DEF Commands
<1>2. Append(a.is, fd) \in Seq(Fds) /\ Append(a.args, fd) \in Seq(Int)
  BY <1>1, AppendFacts
<1>3. b \in Commands
  BY <1>2 DEF Commands
<1>4. /\ b.is = Append(a.is, fd) /\ b.args = Append(a.args, fd) /\ b.os = a.os
      /\ b.id = a.id /\ b.kind = a.kind /\ b.exec_fd = a.exec_fd /\ b.stdos = a.stdos
  BY DEF Commands
<1>5. ToSet(b.is) = ToSet(a.is) \cup {fd}
  BY <1>1, <1>4, AppendFacts
<1>6. /\ Len(b.args) = Len(a.args) + 1 /\ Len(a.args) \in Nat
      /\ \A x \in 1 .. Len(a.args) : b.args[x] = a.args[x]
      /\ ToSet(b.args) = ToSet(a.args) \cup {fd}
  BY <1>1, <1>4, AppendFacts
<1> QED BY <1>1, <1>3, <1>4, <1>5, <1>6 DEF Keeps, Sound

LEMMA ExecuteKeeps ==
    ASSUME NEW a \in Commands, Sound(a), NEW fd \in Fds, NEW gone, NEW bytes \in BOOLEAN,
           NEW b, b = [a EXCEPT !.is = Append(a.is, fd), !.exec_fd = fd, !.has_bytes = bytes]
    PROVE  b \in Commands /\ Keeps(a, b, gone) /\ Sound(b)
<1>1. a.is \in Seq(Fds) /\ Len(a.os) \in Nat /\ Len(a.args) \in Nat
  BY LenProperties DEF Commands
<1>2. Append(a.is, fd) \in Seq(Fds)
  BY <1>1, AppendFacts
<1>3. b \in Commands
  BY <1>2 DEF Commands
<1>4. /\ b.is = Append(a.is, fd) /\ b.args = a.args /\ b.os = a.os
      /\ b.id = a.id /\ b.kind = a.kind /\ b.exec_fd = fd /\ b.stdos = a.stdos
  BY DEF Commands
<1>5. ToSet(b.is) = ToSet(a.is) \cup {fd}
  BY <1>1, <1>4, AppendFacts
<1> QED BY <1>1, <1>3, <1>4, <1>5 DEF Keeps, Sound

\* A stream that is to be a file has no place among the arguments any more.
LEMMA FreedKeeps ==
    ASSUME NEW a \in Commands, Sound(a), NEW x \in 1 .. Len(a.args), NEW b,
           b = [a EXCEPT !.exit_fds = a.exit_fds \cup {a.args[x]}, !.args[x] = 0]
    PROVE  b \in Commands /\ Keeps(a, b, {a.args[x]}) /\ Sound(b)
<1>1. a.args \in Seq(Int) /\ a.exit_fds \in SUBSET Int /\ Len(a.os) \in Nat /\ Len(a.args) \in Nat
  BY LenProperties DEF Commands
<1>2. /\ [a.args EXCEPT ![x] = 0] \in Seq(Int) /\ Len([a.args EXCEPT ![x] = 0]) = Len(a.args)
      /\ \A j \in 1 .. Len(a.args) : [a.args EXCEPT ![x] = 0][j] = IF j = x THEN 0 ELSE a.args[j]
  BY <1>1, UpdateFacts
<1>3. a.args[x] \in Int
  BY <1>1, ElementOfSeq
<1>4. b \in Commands
  BY <1>1, <1>2, <1>3 DEF Commands
<1>5. /\ b.args = [a.args EXCEPT ![x] = 0] /\ b.os = a.os /\ b.is = a.is /\ b.id = a.id
      /\ b.kind = a.kind /\ b.exec_fd = a.exec_fd /\ b.stdos = a.stdos
  BY DEF Commands
<1> QED BY <1>1, <1>2, <1>4, <1>5 DEF Keeps, Sound

LEMMA KeepsTwice ==
    ASSUME NEW a \in Commands, NEW b \in Commands, NEW d \in Commands, NEW gone,
           Keeps(a, b, {}), Keeps(b, d, gone)
    PROVE  Keeps(a, d, gone)
<1>1. /\ Len(a.os) \in Nat /\ Len(b.os) \in Nat /\ Len(d.os) \in Nat
      /\ Len(a.args) \in Nat /\ Len(b.args) \in Nat /\ Len(d.args) \in Nat
  BY LenProperties DEF Commands
<1>2. /\ Len(a.os) <= Len(b.os) /\ Len(b.os) <= Len(d.os)
      /\ Len(a.args) <= Len(b.args) /\ Len(b.args) <= Len(d.args)
  BY DEF Keeps
<1>3. ASSUME NEW x \in 1 .. Len(a.os) PROVE d.os[x] = a.os[x]
  <2>1. x \in 1 .. Len(b.os)
    BY <1>1, <1>2
  <2> QED BY <2>1 DEF Keeps
<1>4. ASSUME NEW x \in 1 .. Len(a.args) PROVE d.args[x] = a.args[x] \/ a.args[x] \in gone
  <2>1. x \in 1 .. Len(b.args)
    BY <1>1, <1>2
  <2>2. b.args[x] = a.args[x]
    BY DEF Keeps
  <2>3. d.args[x] = b.args[x] \/ b.args[x] \in gone
    BY <2>1 DEF Keeps
  <2> QED BY <2>2, <2>3
<1>5. Len(a.os) <= Len(d.os) /\ Len(a.args) <= Len(d.args)
  BY <1>1, <1>2
<1> QED BY <1>3, <1>4, <1>5 DEF Keeps

\* What a command that is being set up is.
LEMMA CurrentFacts ==
    ASSUME ScriptInv, phase = "setup", building
    PROVE  /\ Len(cmds) \in Nat /\ cur \in 1 .. Len(cmds) /\ cur = Len(cmds)
           /\ me \in Commands /\ me = cmds[cur] /\ me.id = base + Len(cmds) /\ me.id \in Nat
           /\ me.kind = "RunCommand"
<1>1. cmds \in Seq(Commands) /\ Len(cmds) \in Nat /\ Len(cmds) > 0 /\ base \in Nat
  BY LenProperties DEF ScriptInv, Typed, BuildingOne
<1>2. cmds[Len(cmds)].kind = "RunCommand"
  BY DEF ScriptInv, BuildingOne
<1>3. Len(cmds) \in 1 .. Len(cmds)
  BY <1>1
<1>4. cmds[Len(cmds)] \in Commands
  BY <1>1, <1>3, ElementOfSeq
<1>5. cmds[Len(cmds)].id = base + Len(cmds)
  BY <1>3 DEF ScriptInv, Numbered
<1> QED BY <1>1, <1>2, <1>3, <1>4, <1>5 DEF cur, me

LEMMA RecordsSound ==
    ASSUME ScriptInv, NEW k \in 1 .. Len(cmds)
    PROVE  cmds[k] \in Commands /\ Sound(cmds[k])
<1>1. cmds[k] \in Commands
  BY ElementOfSeq DEF ScriptInv, Typed
<1> QED BY <1>1 DEF ScriptInv, Numbered, Sound

LEMMA ReadFacts ==
    ASSUME ScriptInv, phase = "setup", building, NEW n \in Names, ReadFrom(n)
    PROVE  /\ SourceFd(n) \in Fds
           /\ SourceCmds(n) \in Seq(Commands) /\ Len(SourceCmds(n)) = Len(cmds)
           /\ \A k \in 1 .. Len(cmds) :
                /\ SourceCmds(n)[k] \in Commands /\ Sound(SourceCmds(n)[k])
                /\ Keeps(cmds[k], SourceCmds(n)[k], {})
           /\ (map' = [map EXCEPT ![n] = Used(@)] /\ map[n].kind \in Streams) \/ (map' = map /\ map[n].kind # "ODescVal")
           /\ npipes' \in 0 .. MaxPipes /\ npipes <= npipes'
           /\ open' \subseteq Fds /\ src' \in [Pipes -> Int] /\ dst' \in [Pipes -> Int]
           /\ add_map' = add_map
<1>0. me.id \in Int
  BY CurrentFacts
<1> USE DEF ScriptInv
<1>1. npipes \in Nat /\ npipes <= MaxPipes /\ MaxPipes \in Nat /\ open \subseteq Fds
  BY Bounds DEF Typed
<1>2. me.id \in Int /\ map[n].id \in Int /\ map \in [Names -> Symbols]
  <2>1. map \in [Names -> Symbols]
    BY DEF Typed
  <2> QED BY <1>0, <2>1 DEF Symbols
<1>3. src \in [Pipes -> Int] /\ dst \in [Pipes -> Int]
  BY DEF Typed
<1>4. cmds \in Seq(Commands) /\ \A k \in 1 .. Len(cmds) : cmds[k] \in Commands /\ Sound(cmds[k])
  BY RecordsSound DEF Typed
<1>5. CASE map[n].kind = "ODescVal"
  <2>1. SourceFd(n) = map[n].fd /\ SourceCmds(n) = cmds
    BY <1>5 DEF SourceFd, SourceCmds
  <2>2. map[n].fd \in Fds
    <3>1. CASE Created(map[n], npipes)
      <4>1. PICK p \in 1 .. npipes : map[n].fd = R(p)
        BY <1>5, <3>1 DEF Created
      <4>2. p \in Pipes
        BY <1>1, <4>1 DEF Pipes
      <4> QED BY <4>1, <4>2, FdFacts
    <3>2. CASE IsStdin(map[n], stdin_fd)
      BY <3>2, FdFacts DEF IsStdin
    <3> QED BY <3>1, <3>2 DEF KnownFit
  <2>3. /\ map' = [map EXCEPT ![n] = Used(@)] /\ npipes' = npipes /\ open' = open /\ src' = src
        /\ add_map' = add_map
        /\ dst' = dst \/ dst' = [dst EXCEPT ![PipeOf(map[n].fd)] = me.id]
    BY <1>5 DEF ReadFrom
  <2>4. dst' \in [Pipes -> Int]
    BY <1>2, <1>3, <2>3
  <2>5. map[n].kind \in Streams
    BY <1>5 DEF Streams
  <2>6. \A k \in 1 .. Len(cmds) : Keeps(cmds[k], cmds[k], {})
    BY <1>4, KeepsSame
  <2> QED BY <1>1, <1>3, <1>4, <2>1, <2>2, <2>3, <2>4, <2>5, <2>6
<1>6. CASE map[n].kind = "HereDocVal"
  <2>1. SourceFd(n) = NewR /\ SourceCmds(n) = cmds /\ npipes < MaxPipes
    BY <1>6 DEF SourceFd, SourceCmds, ReadFrom, Source, NewR
  <2>2. NewR \in Fds
    BY <2>1, NewEnds
  <2>3. /\ map' = map /\ npipes' = npipes + 1 /\ open' = open \cup {NewR} /\ src' = src
        /\ add_map' = add_map /\ dst' = [dst EXCEPT ![npipes'] = me.id]
    BY <1>6 DEF ReadFrom, NewR
  <2>4. dst' \in [Pipes -> Int]
    BY <1>2, <1>3, <2>3
  <2> QED BY <1>1, <1>3, <1>4, <1>6, <2>1, <2>2, <2>3, <2>4, KeepsSame
<1>7. CASE map[n].kind = "DefVal"
  <2>1. /\ SourceFd(n) = NewR /\ SourceCmds(n) = PipeFromElastic(map[n].cmd)
        /\ npipes < MaxPipes /\ map[n].cmd \in 1 .. Len(cmds)
    BY <1>7 DEF SourceFd, SourceCmds, ReadFrom, Source, NewR, Current, cur
  <2>2. NewR \in Fds /\ NewW \in Fds
    BY <2>1, NewEnds
  <2>3. /\ map' = map /\ npipes' = npipes + 1 /\ open' = open \cup {NewR, NewW}
        /\ src' = [src EXCEPT ![npipes'] = map[n].id] /\ dst' = [dst EXCEPT ![npipes'] = me.id]
        /\ add_map' = add_map
    BY <1>7 DEF ReadFrom, NewR, NewW
  <2>4. dst' \in [Pipes -> Int] /\ src' \in [Pipes -> Int]
    BY <1>2, <1>3, <2>3
  <2> DEFINE k == map[n].cmd
  <2> DEFINE b == [cmds[k] EXCEPT !.os = Append(cmds[k].os, NewW), !.args = Append(cmds[k].args, NewW)]
  <2>5. b \in Commands /\ Keeps(cmds[k], b, {}) /\ Sound(b)
    BY <1>4, <2>1, <2>2, ListKeeps
  <2>6. PipeFromElastic(k) = [cmds EXCEPT ![k] = b]
    BY DEF PipeFromElastic, NewW
  <2> HIDE DEF b, k
  <2>7. k \in 1 .. Len(cmds)
    BY <2>1 DEF k
  <2>8. /\ PipeFromElastic(k) \in Seq(Commands) /\ Len(PipeFromElastic(k)) = Len(cmds)
        /\ \A j \in 1 .. Len(cmds) : PipeFromElastic(k)[j] = IF j = k THEN b ELSE cmds[j]
    BY <1>4, <2>5, <2>6, <2>7, UpdateFacts
  <2>9. ASSUME NEW j \in 1 .. Len(cmds)
        PROVE  /\ PipeFromElastic(k)[j] \in Commands /\ Sound(PipeFromElastic(k)[j])
               /\ Keeps(cmds[j], PipeFromElastic(k)[j], {})
    BY <1>4, <2>5, <2>8, KeepsSame
  <2>10. SourceCmds(n) = PipeFromElastic(k)
    BY <2>1 DEF k
  <2> QED BY <1>1, <1>3, <1>7, <2>1, <2>2, <2>3, <2>4, <2>8, <2>9, <2>10
<1> QED BY <1>5, <1>6, <1>7 DEF ReadFrom

\* The symbol s of the name n stands for an end of a new pipe.
Declares(n, s) ==
    /\ s \in Symbols /\ s.kind \in Streams /\ s.cmd = Len(cmds) /\ s.id = base + Len(cmds)
    /\ s.kind = "ODescVal" => s.fd = NewR
    /\ s.kind = "IFutureDescVal" => s.fd = NewW
    /\ s.arg > 0 => s.kind = "ODescVal"
    /\ add_map' = [add_map EXCEPT ![n] = s] /\ map' = map /\ npipes' = npipes + 1
    /\ s.kind = "ODescVal" =>
         /\ s.arg > 0 <=> s.ios > 0
         /\ s.arg > 0 => s.arg \in 1 .. Len(cmds'[cur].args) /\ cmds'[cur].args[s.arg] = s.fd + 1
         /\ s.ios > 0 => s.ios \in 1 .. Len(cmds'[cur].os) /\ cmds'[cur].os[s.ios] = s.fd + 1

\* What an argument that is set up leaves behind.
SetUp(n) ==
    /\ cmds' \in Seq(Commands) /\ Len(cmds') = Len(cmds)
    /\ npipes' \in 0 .. MaxPipes /\ npipes <= npipes'
    /\ open' \subseteq Fds /\ src' \in [Pipes -> Int] /\ dst' \in [Pipes -> Int]
    /\ \/ /\ map' = [map EXCEPT ![n] = Used(@)] /\ add_map' = add_map /\ map[n].kind \in Streams
          /\ \A k \in 1 .. Len(cmds) : Keeps(cmds[k], cmds'[k], Left(n))
       \/ /\ map' = map /\ (add_map' = add_map \/ \E s \in Symbols : Declares(n, s))
          /\ \A k \in 1 .. Len(cmds) : Keeps(cmds[k], cmds'[k], {})

\* An argument that names a stream to read sets up the record of its command.
LEMMA ReadSetsUp ==
    ASSUME ScriptInv, phase = "setup", building, NEW n \in Names, ReadFrom(n),
           NEW b \in Commands, Keeps(SourceCmds(n)[cur], b, {}),
           cmds' = [SourceCmds(n) EXCEPT ![cur] = b]
    PROVE  SetUp(n)
<1> DEFINE mid == SourceCmds(n)
<1>1. /\ mid \in Seq(Commands) /\ Len(mid) = Len(cmds)
      /\ \A k \in 1 .. Len(cmds) : /\ mid[k] \in Commands /\ Sound(mid[k])
                                   /\ Keeps(cmds[k], mid[k], {})
  BY ReadFacts
<1>2. cur \in 1 .. Len(cmds)
  BY CurrentFacts
<1>3. Keeps(mid[cur], b, {}) /\ cmds' = [mid EXCEPT ![cur] = b]
  OBVIOUS
<1> HIDE DEF mid
<1>4. /\ cmds' \in Seq(Commands) /\ Len(cmds') = Len(cmds)
      /\ \A j \in 1 .. Len(cmds) : cmds'[j] = IF j = cur THEN b ELSE mid[j]
  <2>1. mid \in Seq(Commands) /\ cur \in 1 .. Len(mid)
    BY <1>1, <1>2
  <2> HIDE DEF cur
  <2>2. /\ [mid EXCEPT ![cur] = b] \in Seq(Commands) /\ Len([mid EXCEPT ![cur] = b]) = Len(mid)
        /\ \A j \in 1 .. Len(mid) : [mid EXCEPT ![cur] = b][j] = IF j = cur THEN b ELSE mid[j]
    BY <2>1, UpdateFacts
  <2> QED BY <1>1, <1>3, <2>2
<1>5. ASSUME NEW k \in 1 .. Len(cmds) PROVE Keeps(cmds[k], cmds'[k], {})
  <2>1. CASE k = cur
    <3>1. cmds[k] \in Commands /\ mid[k] \in Commands /\ Keeps(cmds[k], mid[k], {}) /\ Keeps(mid[k], b, {})
      BY <1>1, <1>3, <2>1, RecordsSound
    <3>2. Keeps(cmds[k], b, {})
      BY <3>1, KeepsTwice
    <3> QED BY <1>4, <2>1, <3>2
  <2>2. CASE k # cur
    BY <1>1, <1>4, <2>2
  <2> QED BY <2>1, <2>2
<1>6. ASSUME NEW k \in 1 .. Len(cmds) PROVE Keeps(cmds[k], cmds'[k], Left(n))
  BY <1>5 DEF Keeps
<1>7. /\ (map' = [map EXCEPT ![n] = Used(@)] /\ map[n].kind \in Streams) \/ map' = map
      /\ npipes' \in 0 .. MaxPipes /\ npipes <= npipes'
      /\ open' \subseteq Fds /\ src' \in [Pipes -> Int] /\ dst' \in [Pipes -> Int]
      /\ add_map' = add_map
  BY ReadFacts
<1> QED BY <1>4, <1>5, <1>6, <1>7 DEF SetUp

\* So does one that makes a pipe, of which the symbol keeps the other end.
LEMMA DeclareSetsUp ==
    ASSUME ScriptInv, phase = "setup", building, NEW n \in Names,
           NEW kind \in Streams, NEW fd, NEW arg \in Nat, NEW ios \in Nat,
           Declare(n, kind, fd, arg, ios),
           kind = "ODescVal" => fd = NewR, kind = "IFutureDescVal" => fd = NewW,
           NEW b \in Commands, Keeps(me, b, {}), cmds' = [cmds EXCEPT ![cur] = b],
           arg > 0 => kind = "ODescVal",
           kind = "ODescVal" =>
             /\ arg > 0 <=> ios > 0
             /\ arg > 0 => arg \in 1 .. Len(b.args) /\ b.args[arg] = fd + 1
             /\ ios > 0 => ios \in 1 .. Len(b.os) /\ b.os[ios] = fd + 1,
           \/ src' = [src EXCEPT ![npipes'] = me.id] /\ dst' = dst
           \/ dst' = [dst EXCEPT ![npipes'] = me.id] /\ src' = src
    PROVE  SetUp(n)
<1>1. /\ Len(cmds) \in Nat /\ cur \in 1 .. Len(cmds) /\ cur = Len(cmds)
      /\ me = cmds[cur] /\ me.id = base + Len(cmds) /\ me.id \in Nat
  BY CurrentFacts
<1>2. Typed /\ cmds \in Seq(Commands) /\ npipes \in Nat /\ open \subseteq Fds
      /\ src \in [Pipes -> Int] /\ dst \in [Pipes -> Int]
  BY DEF ScriptInv, Typed
<1> DEFINE s == [kind |-> kind, fd |-> fd, cmd |-> cur, arg |-> arg, ios |-> ios, id |-> me.id]
<1>3. /\ npipes < MaxPipes /\ npipes' = npipes + 1 /\ open' = open \cup {NewR, NewW}
      /\ add_map' = [add_map EXCEPT ![n] = s] /\ map' = map
  BY DEF Declare, NewR, NewW
<1>4. NewR \in Fds /\ NewW \in Fds /\ Fds \subseteq Int
  BY <1>2, <1>3, NewEnds, FdFacts
<1>5. s \in Symbols
  BY <1>1, <1>4 DEF Symbols, Streams
<1>6. /\ cmds' \in Seq(Commands) /\ Len(cmds') = Len(cmds)
      /\ \A j \in 1 .. Len(cmds) : cmds'[j] = IF j = cur THEN b ELSE cmds[j]
  <2>1. cur \in 1 .. Len(cmds)
    BY <1>1
  <2> HIDE DEF cur
  <2>2. /\ [cmds EXCEPT ![cur] = b] \in Seq(Commands) /\ Len([cmds EXCEPT ![cur] = b]) = Len(cmds)
        /\ \A j \in 1 .. Len(cmds) : [cmds EXCEPT ![cur] = b][j] = IF j = cur THEN b ELSE cmds[j]
    BY <1>2, <2>1, UpdateFacts
  <2> QED BY <2>2
<1>7. cmds'[cur] = b
  BY <1>1, <1>6
<1>8. ASSUME NEW k \in 1 .. Len(cmds) PROVE Keeps(cmds[k], cmds'[k], {})
  <2>1. cmds[k] \in Commands /\ Sound(cmds[k])
    BY RecordsSound
  <2>2. CASE k = cur
    BY <1>1, <1>7, <2>2
  <2>3. CASE k # cur
    BY <1>6, <2>1, <2>3, KeepsSame
  <2> QED BY <2>2, <2>3
<1>9. npipes' \in 0 .. MaxPipes /\ npipes <= npipes' /\ open' \subseteq Fds
  BY <1>2, <1>3, <1>4, Bounds
<1>10. src' \in [Pipes -> Int] /\ dst' \in [Pipes -> Int]
  BY <1>1, <1>2
<1>11. /\ s.kind = kind /\ s.fd = fd /\ s.cmd = cur /\ s.arg = arg /\ s.ios = ios /\ s.id = me.id
  OBVIOUS
<1> HIDE DEF s
<1>12. Declares(n, s)
  BY <1>1, <1>3, <1>5, <1>7, <1>11 DEF Declares
<1> QED BY <1>3, <1>5, <1>6, <1>8, <1>9, <1>10, <1>12 DEF SetUp

\* The stream of a symbol without a place among the arguments.
LEMMA UnplacedSetsUp ==
    ASSUME ScriptInv, phase = "setup", building, NEW n \in Names, NEW ios \in Nat,
           \/ Declare(n, "ODescVal", NewR, 0, ios) /\ ios = 0
           \/ Declare(n, "IFutureDescVal", NewW, 0, ios),
           NEW b \in Commands, Keeps(me, b, {}), cmds' = [cmds EXCEPT ![cur] = b],
           \/ src' = [src EXCEPT ![npipes'] = me.id] /\ dst' = dst
           \/ dst' = [dst EXCEPT ![npipes'] = me.id] /\ src' = src
    PROVE  SetUp(n)
<1>1. PICK kind \in Streams, fd \in {NewR, NewW} :
        /\ Declare(n, kind, fd, 0, ios)
        /\ kind = "ODescVal" => fd = NewR /\ ios = 0
        /\ kind = "IFutureDescVal" => fd = NewW
  BY DEF Streams
<1>2. ASSUME NEW arg \in Nat, arg = 0 PROVE SetUp(n)
  <2>1. /\ Declare(n, kind, fd, arg, ios) /\ ~(arg > 0) /\ (kind = "ODescVal" => ~(ios > 0))
    BY <1>1, <1>2
  <2>2. /\ kind = "ODescVal" => fd = NewR
        /\ kind = "IFutureDescVal" => fd = NewW
    BY <1>1
  <2> QED BY <1>2, <2>1, <2>2, DeclareSetsUp
<1> QED BY <1>2

\* And one whose pipe a command above has made.
LEMMA FulfilSetsUp ==
    ASSUME ScriptInv, phase = "setup", building, NEW n \in Names, Fulfil(n),
           NEW b \in Commands, Keeps(me, b, {}), cmds' = [cmds EXCEPT ![cur] = b]
    PROVE  SetUp(n)
<1>1. cur \in 1 .. Len(cmds) /\ me = cmds[cur] /\ me.id \in Nat
  BY CurrentFacts
<1>2. cmds \in Seq(Commands) /\ npipes \in 0 .. MaxPipes /\ open \subseteq Fds
      /\ src \in [Pipes -> Int] /\ dst \in [Pipes -> Int]
  BY DEF ScriptInv, Typed
<1>3. /\ map' = [map EXCEPT ![n] = Used(@)] /\ npipes' = npipes /\ open' = open /\ add_map' = add_map
      /\ dst' = dst /\ src' = [src EXCEPT ![PipeOf(map[n].fd)] = me.id] /\ map[n].kind \in Streams
  BY DEF Fulfil, Streams
<1>4. src' \in [Pipes -> Int]
  <2> DEFINE i == me.id
  <2>1. i \in Int /\ src' = [src EXCEPT ![PipeOf(map[n].fd)] = i] /\ src \in [Pipes -> Int]
    BY <1>1, <1>2, <1>3
  <2> HIDE DEF i
  <2> QED BY <2>1
<1>5. /\ cmds' \in Seq(Commands) /\ Len(cmds') = Len(cmds)
      /\ \A j \in 1 .. Len(cmds) : cmds'[j] = IF j = cur THEN b ELSE cmds[j]
  <2> HIDE DEF cur
  <2>1. /\ [cmds EXCEPT ![cur] = b] \in Seq(Commands) /\ Len([cmds EXCEPT ![cur] = b]) = Len(cmds)
        /\ \A j \in 1 .. Len(cmds) : [cmds EXCEPT ![cur] = b][j] = IF j = cur THEN b ELSE cmds[j]
    BY <1>1, <1>2, UpdateFacts
  <2> QED BY <2>1
<1>6. ASSUME NEW k \in 1 .. Len(cmds) PROVE Keeps(cmds[k], cmds'[k], {})
  <2>1. cmds[k] \in Commands /\ Sound(cmds[k])
    BY RecordsSound
  <2>2. CASE k = cur
    BY <1>1, <1>5, <2>2
  <2>3. CASE k # cur
    BY <1>5, <2>1, <2>3, KeepsSame
  <2> QED BY <2>2, <2>3
<1>7. ASSUME NEW k \in 1 .. Len(cmds) PROVE Keeps(cmds[k], cmds'[k], Left(n))
  BY <1>6 DEF Keeps
<1>8. npipes' \in 0 .. MaxPipes /\ npipes <= npipes'
  BY <1>2, <1>3
<1> QED BY <1>2, <1>3, <1>4, <1>5, <1>7, <1>8 DEF SetUp

LEMMA ArgumentSetsUp ==
    ASSUME ScriptInv, NEW n \in Names, Argument(n)
    PROVE  SetUp(n) /\ phase = "setup" /\ building /\ nargs' \in 0 .. MaxArgs
<1>1. phase = "setup" /\ building /\ nargs < MaxArgs /\ nargs' = nargs + 1
  BY DEF Argument, StdinFrom, TextFrom, FileFrom, ExecuteFrom, StdoutTo, StatusTo, FileTo,
         StdinFromBelow, FileFromBelow, StdoutAbove, FileAbove, NextArg
<1>2. nargs' \in 0 .. MaxArgs
  BY <1>1, Bounds DEF ScriptInv, Typed
<1> DEFINE mid == SourceCmds(n)[cur]
<1> DEFINE fd == SourceFd(n)
<1>3. me \in Commands /\ Sound(me) /\ cur \in 1 .. Len(cmds) /\ me = cmds[cur]
  BY <1>1, CurrentFacts, RecordsSound
<1>4. ASSUME ReadFrom(n) PROVE fd \in Fds /\ mid \in Commands /\ Sound(mid)
  BY <1>1, <1>3, <1>4, ReadFacts
<1>5. ASSUME npipes < MaxPipes
      PROVE  NewR \in Fds /\ NewW \in Fds /\ NewW \in Ws /\ NewW = NewR + 1
  BY <1>5, NewEnds DEF ScriptInv
<1> HIDE DEF mid, fd
<1>6. CASE StdinFrom(n)
  <2> DEFINE b == [mid EXCEPT !.stdis = fd]
  <2>1. ReadFrom(n) /\ cmds' = [SourceCmds(n) EXCEPT ![cur] = b]
    BY <1>6 DEF StdinFrom, mid, fd
  <2>2. b \in Commands /\ Keeps(mid, b, {})
    BY <1>4, <2>1, FieldKeeps
  <2> HIDE DEF b
  <2> QED BY <1>1, <1>2, <2>1, <2>2, ReadSetsUp DEF mid
<1>7. CASE TextFrom(n)
  <2> DEFINE b == [mid EXCEPT !.iargs = Append(mid.iargs, fd)]
  <2>1. ReadFrom(n) /\ cmds' = [SourceCmds(n) EXCEPT ![cur] = b]
    BY <1>7 DEF TextFrom, mid, fd
  <2>2. b \in Commands /\ Keeps(mid, b, {})
    BY <1>4, <2>1, FieldKeeps
  <2> HIDE DEF b
  <2> QED BY <1>1, <1>2, <2>1, <2>2, ReadSetsUp DEF mid
<1>8. CASE FileFrom(n)
  <2> DEFINE b == [mid EXCEPT !.is = Append(mid.is, fd), !.args = Append(mid.args, fd)]
  <2>1. ReadFrom(n) /\ cmds' = [SourceCmds(n) EXCEPT ![cur] = b]
    BY <1>8 DEF FileFrom, mid, fd
  <2>2. b \in Commands /\ Keeps(mid, b, {})
    BY <1>4, <2>1, ReadKeeps
  <2> HIDE DEF b
  <2> QED BY <1>1, <1>2, <2>1, <2>2, ReadSetsUp DEF mid
<1>9. CASE ExecuteFrom(n)
  <2> DEFINE direct == map[n].arg > 0
  <2> DEFINE k == map[n].cmd
  <2> DEFINE b == [mid EXCEPT !.is = Append(mid.is, fd), !.exec_fd = fd, !.has_bytes = ~direct]
  <2> DEFINE mine == [SourceCmds(n) EXCEPT ![cur] = b]
  <2>1. ReadFrom(n) /\ (~direct) \in BOOLEAN /\ fd \in Fds
    BY <1>4, <1>9 DEF ExecuteFrom
  <2>2. b \in Commands /\ Keeps(mid, b, {}) /\ Sound(b)
    BY <1>4, <2>1, ExecuteKeeps
  <2>3. CASE ~direct
    <3>1. cmds' = mine
      BY <1>9, <2>3 DEF ExecuteFrom, mid, fd
    <3> HIDE DEF b
    <3> QED BY <1>1, <1>2, <2>1, <2>2, <3>1, ReadSetsUp DEF mid
  <2>4. CASE direct
    <3>1. map[n].kind = "ODescVal" /\ SourceCmds(n) = cmds
      <4>1. map[n].kind = "ODescVal"
        BY <2>1, <2>4 DEF ScriptInv, KnownFit, ReadFrom, Source
      <4> QED BY <4>1 DEF SourceCmds
    <3>2. k \in 1 .. Len(cmds) /\ cmds[k].id = map[n].id
      BY <1>9, <2>4 DEF ExecuteFrom, Current, cur
    <3> DEFINE x == map[n].arg
    <3>3. x \in 1 .. Len(cmds[k].args) /\ cmds[k].args[x] \in Left(n)
      <4>1. x \in 1 .. Len(cmds[k].args) /\ (~Redirects => cmds[k].args[x] = map[n].fd + 1)
        BY <1>1, <2>4, <3>1, <3>2 DEF ScriptInv, KnownFit, Placed, InPlace
      <4>2. cmds[k].args \in Seq(Int)
        BY <3>2, RecordsSound DEF Commands
      <4>3. cmds[k].args[x] \in Int
        BY <4>1, <4>2, ElementOfSeq
      <4> QED BY <4>1, <4>3 DEF Left
    <3>4. cmds' = [mine EXCEPT ![k].exit_fds = @ \cup {cmds[k].args[x]}, ![k].args[x] = 0]
      BY <1>9, <2>4 DEF ExecuteFrom, mid, fd
    <3> HIDE DEF k, x
    <3>5. cmds \in Seq(Commands) /\ Len(cmds) \in Nat
      BY LenProperties DEF ScriptInv, Typed
    <3>6. Keeps(cmds[cur], b, {})
      BY <1>3, <2>2, <3>1 DEF mid
    <3> HIDE DEF b
    <3>7. /\ mine \in Seq(Commands) /\ Len(mine) = Len(cmds)
          /\ \A j \in 1 .. Len(cmds) : mine[j] = IF j = cur THEN b ELSE cmds[j]
      <4> HIDE DEF cur
      <4> QED BY <1>3, <2>2, <3>1, <3>5, UpdateFacts
    <3> HIDE DEF mine
    <3> DEFINE a == mine[k]
    <3>8. /\ a \in Commands /\ Sound(a) /\ Keeps(cmds[k], a, {})
          /\ x \in 1 .. Len(a.args) /\ a.args[x] = cmds[k].args[x]
      <4>1. cmds[k] \in Commands /\ Sound(cmds[k])
        BY <3>2, RecordsSound
      <4>2. a = IF k = cur THEN b ELSE cmds[k]
        BY <3>2, <3>7
      <4>3. a \in Commands /\ Sound(a)
        BY <2>2, <4>1, <4>2
      <4>4. Keeps(cmds[k], a, {})
        BY <3>6, <4>1, <4>2, KeepsSame
      <4>5. Len(cmds[k].args) <= Len(a.args) /\ a.args[x] = cmds[k].args[x]
        BY <3>3, <4>4 DEF Keeps
      <4>6. Len(cmds[k].args) \in Nat /\ Len(a.args) \in Nat
        BY <4>1, <4>3, LenProperties DEF Commands
      <4>7. x \in 1 .. Len(a.args)
        BY <3>3, <4>5, <4>6
      <4> QED BY <4>3, <4>4, <4>5, <4>7
    <3> DEFINE d == [a EXCEPT !.exit_fds = a.exit_fds \cup {a.args[x]}, !.args[x] = 0]
    <3>9. cmds' = [mine EXCEPT ![k] = d]
      BY <3>4, <3>8
    <3> HIDE DEF a
    <3>10. d \in Commands /\ Keeps(a, d, Left(n))
      <4>1. d \in Commands /\ Keeps(a, d, {a.args[x]})
        BY <3>8, FreedKeeps
      <4>2. a.args[x] \in Left(n)
        BY <3>3, <3>8
      <4> QED BY <4>1, <4>2 DEF Keeps
    <3> HIDE DEF d
    <3>11. /\ cmds' \in Seq(Commands) /\ Len(cmds') = Len(cmds)
           /\ \A j \in 1 .. Len(cmds) : cmds'[j] = IF j = k THEN d ELSE mine[j]
      BY <3>2, <3>7, <3>9, <3>10, UpdateFacts
    <3>12. ASSUME NEW j \in 1 .. Len(cmds) PROVE Keeps(cmds[j], cmds'[j], Left(n))
      <4>1. cmds[j] \in Commands /\ Sound(cmds[j])
        BY RecordsSound
      <4>2. CASE j = k
        BY <3>8, <3>10, <3>11, <4>1, <4>2, KeepsTwice
      <4>3. CASE j # k /\ j = cur
        <5>1. cmds'[j] = b
          BY <3>7, <3>11, <4>3
        <5> QED BY <3>6, <4>3, <5>1 DEF Keeps
      <4>4. CASE j # k /\ j # cur
        <5>1. cmds'[j] = cmds[j]
          BY <3>7, <3>11, <4>4
        <5> QED BY <4>1, <5>1, KeepsSame
      <4> QED BY <4>2, <4>3, <4>4
    <3>13. /\ map' = [map EXCEPT ![n] = Used(@)] /\ map[n].kind \in Streams
           /\ npipes' \in 0 .. MaxPipes /\ npipes <= npipes'
           /\ open' \subseteq Fds /\ src' \in [Pipes -> Int] /\ dst' \in [Pipes -> Int]
           /\ add_map' = add_map
      BY <1>1, <2>1, <3>1, ReadFacts
    <3> QED BY <1>1, <1>2, <3>11, <3>12, <3>13 DEF SetUp
  <2> QED BY <2>3, <2>4
<1>10. CASE StdoutTo(n)
  <2> DEFINE b == [me EXCEPT !.stdos = NewW]
  <2>1. /\ Declare(n, "ODescVal", NewR, 0, 0) /\ cmds' = [cmds EXCEPT ![cur] = b]
        /\ src' = [src EXCEPT ![npipes'] = me.id] /\ dst' = dst
    BY <1>3, <1>10 DEF StdoutTo
  <2>2. b \in Commands /\ Keeps(me, b, {})
    BY <1>3, <1>5, <2>1, FieldKeeps DEF Declare
  <2> HIDE DEF b
  <2> QED BY <1>1, <1>2, <2>1, <2>2, UnplacedSetsUp
<1>11. CASE StatusTo(n)
  <2> DEFINE b == [me EXCEPT !.status_fd = NewW]
  <2>1. /\ Declare(n, "ODescVal", NewR, 0, 0) /\ cmds' = [cmds EXCEPT ![cur] = b]
        /\ src' = [src EXCEPT ![npipes'] = me.id] /\ dst' = dst
    BY <1>3, <1>11 DEF StatusTo
  <2>2. b \in Commands /\ Keeps(me, b, {})
    BY <1>3, <1>5, <2>1, FieldKeeps DEF Declare
  <2> HIDE DEF b
  <2> QED BY <1>1, <1>2, <2>1, <2>2, UnplacedSetsUp
<1>12. CASE FileTo(n)
  <2> DEFINE b == [me EXCEPT !.os = Append(me.os, NewW), !.args = Append(me.args, NewW)]
  <2> DEFINE arg == Len(me.args) + 1
  <2> DEFINE ios == Len(me.os) + 1
  <2>1. /\ Declare(n, "ODescVal", NewR, arg, ios) /\ cmds' = [cmds EXCEPT ![cur] = b]
        /\ src' = [src EXCEPT ![npipes'] = me.id] /\ dst' = dst
    BY <1>3, <1>12 DEF FileTo
  <2>2. NewW \in Fds /\ NewW \in Int /\ NewW = NewR + 1
    BY <1>5, <2>1, FdFacts DEF Declare
  <2>3. b \in Commands /\ Keeps(me, b, {})
    BY <1>3, <2>2, ListKeeps
  <2>4. b.os = Append(me.os, NewW) /\ b.args = Append(me.args, NewW)
    BY <1>3 DEF Commands
  <2>5. me.os \in Seq(Fds) /\ me.args \in Seq(Int)
    BY <1>3 DEF Commands
  <2>6. /\ ios \in Nat /\ ios > 0 /\ Len(Append(me.os, NewW)) = ios /\ Append(me.os, NewW)[ios] = NewW
        /\ arg \in Nat /\ arg > 0 /\ Len(Append(me.args, NewW)) = arg /\ Append(me.args, NewW)[arg] = NewW
    BY <2>2, <2>5, AppendFacts
  <2>7. /\ ios \in Nat /\ ios > 0 /\ ios \in 1 .. Len(b.os) /\ b.os[ios] = NewR + 1
        /\ arg \in Nat /\ arg > 0 /\ arg \in 1 .. Len(b.args) /\ b.args[arg] = NewR + 1
    BY <2>2, <2>4, <2>6
  <2> HIDE DEF b, arg, ios
  <2> QED BY <1>1, <1>2, <2>1, <2>3, <2>7, DeclareSetsUp DEF Streams
<1>13. CASE StdinFromBelow(n)
  <2> DEFINE b == [me EXCEPT !.stdis = NewR]
  <2>1. /\ Declare(n, "IFutureDescVal", NewW, 0, 0) /\ cmds' = [cmds EXCEPT ![cur] = b]
        /\ dst' = [dst EXCEPT ![npipes'] = me.id] /\ src' = src
    BY <1>3, <1>13 DEF StdinFromBelow
  <2>2. b \in Commands /\ Keeps(me, b, {})
    BY <1>3, <1>5, <2>1, FieldKeeps DEF Declare
  <2> HIDE DEF b
  <2> QED BY <1>1, <1>2, <2>1, <2>2, UnplacedSetsUp
<1>14. CASE FileFromBelow(n)
  <2> DEFINE b == [me EXCEPT !.os = Append(me.os, NewR), !.args = Append(me.args, NewR)]
  <2> DEFINE ios == Len(me.os) + 1
  <2>1. /\ Declare(n, "IFutureDescVal", NewW, 0, ios) /\ cmds' = [cmds EXCEPT ![cur] = b]
        /\ dst' = [dst EXCEPT ![npipes'] = me.id] /\ src' = src
    BY <1>3, <1>14 DEF FileFromBelow
  <2>2. b \in Commands /\ Keeps(me, b, {})
    BY <1>3, <1>5, <2>1, ListKeeps DEF Declare
  <2>3. ios \in Nat
    BY <1>3, LenProperties DEF Commands
  <2> HIDE DEF b, ios
  <2> QED BY <1>1, <1>2, <2>1, <2>2, <2>3, UnplacedSetsUp
<1>15. ASSUME Fulfil(n) PROVE map[n].fd \in Fds /\ map[n].fd \in Ws
  <2>1. map[n].kind = "IFutureDescVal"
    BY <1>15 DEF Fulfil
  <2>2. Created(map[n], npipes)
    BY <2>1 DEF ScriptInv, KnownFit, IsStdin
  <2>3. PICK p \in 1 .. npipes : map[n].fd = W(p)
    BY <2>1, <2>2 DEF Created
  <2>4. p \in Pipes
    BY <2>3, Bounds DEF Pipes, ScriptInv, Typed
  <2> QED BY <2>3, <2>4, FdFacts
<1>16. CASE StdoutAbove(n)
  <2> DEFINE b == [me EXCEPT !.stdos = map[n].fd]
  <2>1. Fulfil(n) /\ cmds' = [cmds EXCEPT ![cur] = b]
    BY <1>3, <1>16 DEF StdoutAbove
  <2>2. b \in Commands /\ Keeps(me, b, {})
    BY <1>3, <1>15, <2>1, FieldKeeps
  <2> HIDE DEF b
  <2> QED BY <1>1, <1>2, <2>1, <2>2, FulfilSetsUp
<1>17. CASE FileAbove(n)
  <2> DEFINE b == [me EXCEPT !.is = Append(me.is, map[n].fd), !.args = Append(me.args, map[n].fd)]
  <2>1. Fulfil(n) /\ cmds' = [cmds EXCEPT ![cur] = b]
    BY <1>3, <1>17 DEF FileAbove
  <2>2. b \in Commands /\ Keeps(me, b, {})
    BY <1>3, <1>15, <2>1, ReadKeeps
  <2> HIDE DEF b
  <2> QED BY <1>1, <1>2, <2>1, <2>2, FulfilSetsUp
<1> QED BY <1>6, <1>7, <1>8, <1>9, <1>10, <1>11, <1>12, <1>13, <1>14, <1>16, <1>17 DEF Argument

\* A symbol keeps its place in a record that is given more.
LEMMA PlacedKeeps ==
    ASSUME NEW cs \in Seq(Commands), NEW ds \in Seq(Commands), Len(ds) = Len(cs), NEW gone,
           \A k \in 1 .. Len(cs) : Keeps(cs[k], ds[k], gone),
           NEW s \in Symbols, Placed(s, cs),
           ~Redirects => Err \notin gone /\ (s.kind = "ODescVal" => s.fd + 1 \notin gone)
    PROVE  Placed(s, ds)
<1> SUFFICES ASSUME s.kind = "ODescVal", s.cmd \in 1 .. Len(ds), ds[s.cmd].id = s.id
             PROVE  /\ s.arg > 0 <=> s.ios > 0
                    /\ s.arg > 0 => s.arg \in 1 .. Len(ds[s.cmd].args)
                    /\ ~Redirects => InPlace(s, ds[s.cmd])
  BY DEF Placed
<1> DEFINE a == cs[s.cmd]
<1> DEFINE b == ds[s.cmd]
<1>1. a \in Commands /\ b \in Commands /\ Keeps(a, b, gone)
  BY ElementOfSeq
<1>2. a.id = s.id
  BY <1>1 DEF Keeps
<1>3. /\ s.arg > 0 <=> s.ios > 0
      /\ s.arg > 0 => s.arg \in 1 .. Len(a.args)
      /\ ~Redirects => InPlace(s, a)
  BY <1>2 DEF Placed
<1>4. /\ Len(a.os) \in Nat /\ Len(b.os) \in Nat /\ Len(a.args) \in Nat /\ Len(b.args) \in Nat
  BY <1>1, LenProperties DEF Commands
<1> HIDE DEF a, b
<1>5. s.arg > 0 => s.arg \in 1 .. Len(b.args)
  BY <1>1, <1>3, <1>4 DEF Keeps
<1>6. ASSUME ~Redirects PROVE InPlace(s, b)
  <2>1. s.arg > 0 => b.args[s.arg] = s.fd + 1
    BY <1>1, <1>3, <1>4, <1>6 DEF Keeps, InPlace
  <2>2. ASSUME s.ios > 0, Err \notin ToSet(b.args)
        PROVE  s.ios \in 1 .. Len(b.os) /\ b.os[s.ios] = s.fd + 1
    <3>1. Err \notin ToSet(a.args)
      <4> SUFFICES ASSUME NEW x \in DOMAIN a.args, a.args[x] = Err PROVE Err \in ToSet(b.args)
        BY <2>2 DEF ToSet
      <4>1. DOMAIN a.args = 1 .. Len(a.args) /\ DOMAIN b.args = 1 .. Len(b.args)
        BY <1>1, LenProperties DEF Commands
      <4>2. x \in DOMAIN b.args /\ b.args[x] = Err
        BY <1>1, <1>4, <1>6, <4>1 DEF Keeps
      <4> QED BY <4>2 DEF ToSet
    <3> QED BY <1>1, <1>3, <1>4, <1>6, <2>2, <3>1 DEF Keeps, InPlace
  <2> QED BY <2>1, <2>2 DEF InPlace
<1> QED BY <1>3, <1>5, <1>6 DEF b

LEMMA CreatedKeeps ==
    ASSUME NEW s, NEW m \in Nat, NEW n \in Nat, m <= n, Created(s, m)
    PROVE  Created(s, n)
<1>1. 1 .. m \subseteq 1 .. n
  OBVIOUS
<1> QED BY <1>1 DEF Created

\* The descriptors of symbols are older than the next pipe.
LEMMA SymbolFd ==
    ASSUME NEW s, NEW m \in Nat, NEW fd, s.kind \in Streams, Created(s, m) \/ IsStdin(s, fd)
    PROVE  s.fd \in Int /\ 3 <= s.fd /\ s.fd < R(m + 1)
<1>1. CASE Created(s, m)
  <2>1. PICK p \in 1 .. m : s.fd = R(p) \/ s.fd = W(p)
    BY <1>1 DEF Created, Streams
  <2> QED BY <2>1 DEF R, W
<1>2. CASE IsStdin(s, fd)
  BY <1>2 DEF IsStdin, In, R
<1> QED BY <1>1, <1>2

\* The rest of the state while an argument is set up.
ArgumentFrame ==
    /\ phase = "setup" /\ building /\ nargs' \in 0 .. MaxArgs
    /\ UNCHANGED <<phase, building, base, stdin_fd, stdout_fd, exstatus, redirected>>
    /\ next' = 1 /\ UNCHANGED <<state, thread, fails>>

LEMMA SetUpTyped ==
    ASSUME ScriptInv, NEW n \in Names, SetUp(n), ArgumentFrame
    PROVE  Typed' /\ Numbered' /\ BuildingOne'
<1> USE DEF ScriptInv
<1>1. /\ cmds \in Seq(Commands) /\ Len(cmds) \in Nat /\ base \in Nat /\ base + Len(cmds) <= MaxCmds
      /\ map \in [Names -> Symbols] /\ add_map \in [Names -> Symbols]
  BY LenProperties DEF Typed
<1>2. /\ cmds' \in Seq(Commands) /\ Len(cmds') = Len(cmds)
      /\ npipes' \in 0 .. MaxPipes /\ open' \subseteq Fds /\ src' \in [Pipes -> Int] /\ dst' \in [Pipes -> Int]
  BY DEF SetUp
<1>3. Used(map[n]) \in Symbols
  BY <1>1, UsedFacts
<1>4. map' \in [Names -> Symbols]
  <2>1. map' = map \/ map' = [map EXCEPT ![n] = Used(map[n])]
    BY DEF SetUp
  <2> QED BY <1>1, <1>3, <2>1
<1>5. add_map' \in [Names -> Symbols]
  <2>1. add_map' = add_map \/ \E s \in Symbols : add_map' = [add_map EXCEPT ![n] = s]
    BY DEF SetUp, Declares
  <2> QED BY <1>1, <2>1
<1>6. next' \in 1 .. Len(cmds') + 1
  BY <1>1, <1>2 DEF ArgumentFrame
<1>7. Typed'
  BY <1>1, <1>2, <1>4, <1>5, <1>6 DEF Typed, ArgumentFrame
<1>8. ASSUME NEW k \in 1 .. Len(cmds)
      PROVE  /\ cmds'[k].id = cmds[k].id /\ cmds'[k].kind = cmds[k].kind
             /\ cmds'[k].exec_fd # -1 => cmds'[k].exec_fd \in ToSet(cmds'[k].is)
             /\ cmds'[k].kind = "RunCommand" => cmds'[k].stdos \in Ws \cup {-1, Err}
  BY DEF SetUp, Keeps
<1>9. Numbered'
  BY <1>2, <1>8 DEF Numbered, ArgumentFrame
<1>10. BuildingOne'
  <2>1. Len(cmds) > 0 /\ cmds[Len(cmds)].kind = "RunCommand" /\ Len(cmds) \in 1 .. Len(cmds)
    BY <1>1 DEF BuildingOne, ArgumentFrame
  <2>2. cmds'[Len(cmds)].kind = "RunCommand"
    BY <1>8, <2>1
  <2> QED BY <1>2, <2>1, <2>2 DEF BuildingOne, ArgumentFrame
<1> QED BY <1>7, <1>9, <1>10

LEMMA SetUpInv ==
    ASSUME ScriptInv, NEW n \in Names, SetUp(n), ArgumentFrame
    PROVE  ScriptInv'
<1>1. Typed' /\ Numbered' /\ BuildingOne'
  BY SetUpTyped
<1> USE DEF ScriptInv
<1>2. /\ cmds \in Seq(Commands) /\ Len(cmds) \in Nat /\ base \in Nat /\ npipes \in Nat
      /\ map \in [Names -> Symbols] /\ add_map \in [Names -> Symbols]
  BY LenProperties DEF Typed
<1>3. /\ cmds' \in Seq(Commands) /\ Len(cmds') = Len(cmds) /\ npipes' \in Nat /\ npipes <= npipes'
  BY DEF SetUp
<1>4. phase = "setup" /\ phase' = phase /\ building' = building /\ base' = base /\ stdin_fd' = stdin_fd /\ building
  BY DEF ArgumentFrame
<1>5. NoSym.kind \notin Streams
  BY DEF NoSym, Streams
<1>6. ASSUME NEW m \in Names
      PROVE  /\ Placed(map[m], cmds) /\ (Created(map[m], npipes) \/ IsStdin(map[m], stdin_fd))
             /\ map[m].arg > 0 => map[m].kind \in {"ODescVal", "none"}
             /\ map[m].id <= base + Len(cmds) /\ map[m] \in Symbols
             /\ Created(map[m], npipes') \/ IsStdin(map[m], stdin_fd)
  BY <1>2, <1>3, <1>4, CreatedKeeps DEF KnownFit
<1>7. ASSUME NEW m \in Names, add_map[m] # NoSym
      PROVE  /\ add_map[m].kind \in Streams /\ Created(add_map[m], npipes) /\ Created(add_map[m], npipes')
             /\ add_map[m].arg > 0 => add_map[m].kind = "ODescVal"
             /\ Placed(add_map[m], cmds) /\ add_map[m].cmd = Len(cmds) /\ add_map[m].id = base + Len(cmds)
             /\ add_map[m] \in Symbols
  BY <1>2, <1>3, <1>4, <1>7, CreatedKeeps DEF DeclaredFit
<1>8. CASE map' = map /\ add_map' = add_map /\ \A k \in 1 .. Len(cmds) : Keeps(cmds[k], cmds'[k], {})
  <2>1. \A s \in Symbols : Placed(s, cmds) => Placed(s, cmds')
    <3> DEFINE none == {}
    <3>1. Err \notin none /\ \A k \in 1 .. Len(cmds) : Keeps(cmds[k], cmds'[k], none)
      BY <1>8
    <3>2. ASSUME NEW s \in Symbols, Placed(s, cmds) PROVE s.fd + 1 \notin none /\ Placed(s, cmds)
      BY <3>2
    <3> HIDE DEF none
    <3> QED BY <1>2, <1>3, <3>1, <3>2, PlacedKeeps
  <2>2. KnownFit'
    BY <1>3, <1>4, <1>6, <1>8, <2>1 DEF KnownFit
  <2>3. DeclaredFit'
    BY <1>3, <1>4, <1>7, <1>8, <2>1 DEF DeclaredFit
  <2>4. TakenOnce'
    BY <1>8 DEF TakenOnce
  <2> QED BY <1>1, <2>2, <2>3, <2>4
<1>9. CASE /\ map' = [map EXCEPT ![n] = Used(@)] /\ add_map' = add_map /\ map[n].kind \in Streams
           /\ \A k \in 1 .. Len(cmds) : Keeps(cmds[k], cmds'[k], Left(n))
  <2> DEFINE gone == Used(map[n])
  <2>0. /\ gone.kind = "none" /\ gone.kind \notin Streams /\ gone.id \in {0, map[n].id}
        /\ Placed(gone, cmds') /\ Created(gone, npipes')
    BY <1>2, UsedFacts
  <2>1. \A m \in Names : map'[m] = IF m = n THEN gone ELSE map[m]
    BY <1>2, <1>9
  <2> HIDE DEF gone
  <2>2. map[n].fd \in Int /\ 3 <= map[n].fd
    BY <1>2, <1>6, <1>9, SymbolFd
  <2>3. ~Redirects => Left(n) = {map[n].fd + 1} /\ Err \notin Left(n)
    BY <2>2 DEF Err, Left
  <2>4. ASSUME NEW s \in Symbols, Placed(s, cmds), s.kind \in Streams => s.fd # map[n].fd
        PROVE  Placed(s, cmds')
    <3>1. ~Redirects => (s.kind = "ODescVal" => s.fd + 1 \notin Left(n))
      BY <2>2, <2>3, <2>4 DEF Symbols, Streams
    <3> QED BY <1>2, <1>3, <1>9, <2>3, <2>4, <3>1, PlacedKeeps
  <2>5. ASSUME NEW m \in Names, m # n PROVE map[m].kind \in Streams => map[m].fd # map[n].fd
    BY <1>9, <2>5 DEF TakenOnce
  <2>6. ASSUME NEW m \in Names, add_map[m].kind \in Streams PROVE add_map[m].fd # map[n].fd
    BY <1>9, <2>6 DEF TakenOnce
  <2>7. KnownFit'
    <3>1. ASSUME NEW m \in Names, m # n PROVE Placed(map[m], cmds')
      BY <1>6, <2>4, <2>5, <3>1
    <3>2. gone.id <= base + Len(cmds)
      BY <1>2, <1>6, <2>0
    <3> QED BY <1>3, <1>4, <1>6, <2>0, <2>1, <3>1, <3>2 DEF KnownFit
  <2>8. DeclaredFit'
    <3>1. ASSUME NEW m \in Names, add_map[m] # NoSym PROVE Placed(add_map[m], cmds')
      BY <1>7, <2>4, <2>6, <3>1
    <3> QED BY <1>3, <1>4, <1>7, <1>9, <3>1 DEF DeclaredFit
  <2>9. TakenOnce'
    BY <1>9, <2>0, <2>1 DEF TakenOnce
  <2> QED BY <1>1, <2>7, <2>8, <2>9
<1>10. CASE map' = map /\ (\E s \in Symbols : Declares(n, s)) /\ \A k \in 1 .. Len(cmds) : Keeps(cmds[k], cmds'[k], {})
  <2>1. PICK s \in Symbols : Declares(n, s)
    BY <1>10
  <2>2. \A m \in Names : add_map'[m] = IF m = n THEN s ELSE add_map[m]
    BY <1>2, <2>1 DEF Declares
  <2>3. \A t \in Symbols : Placed(t, cmds) => Placed(t, cmds')
    <3> DEFINE none == {}
    <3>1. Err \notin none /\ \A k \in 1 .. Len(cmds) : Keeps(cmds[k], cmds'[k], none)
      BY <1>10
    <3>2. ASSUME NEW t \in Symbols, Placed(t, cmds) PROVE t.fd + 1 \notin none /\ Placed(t, cmds)
      BY <3>2
    <3> HIDE DEF none
    <3> QED BY <1>2, <1>3, <3>1, <3>2, PlacedKeeps
  <2>4. Placed(s, cmds')
    <3>1. s.cmd = cur
      BY <2>1 DEF Declares, cur
    <3> QED BY <2>1, <3>1 DEF Declares, Placed, InPlace
  <2>5. npipes' = npipes + 1 /\ Created(s, npipes') /\ s.kind \in Streams /\ (s.arg > 0 => s.kind = "ODescVal")
        /\ s.cmd = Len(cmds) /\ s.id = base + Len(cmds)
    BY <1>2, <2>1 DEF Declares, Created, NewR, NewW
  <2>6. s.fd \in {NewR, NewW} /\ NewR \in Int /\ NewW = NewR + 1 /\ NewR = R(npipes + 1)
    BY <1>2, <2>1 DEF Declares, NewR, NewW, R, W, Streams
  <2>7. ASSUME NEW m \in Names, map[m].kind \in Streams PROVE map[m].fd # s.fd
    <3>1. map[m].fd \in Int /\ map[m].fd < R(npipes + 1)
      BY <1>2, <1>6, <2>7, SymbolFd
    <3> QED BY <2>6, <3>1
  <2>8. ASSUME NEW m \in Names, add_map[m].kind \in Streams PROVE add_map[m].fd # s.fd
    <3>1. add_map[m] # NoSym
      BY <1>5, <2>8
    <3>2. add_map[m].fd \in Int /\ add_map[m].fd < R(npipes + 1)
      BY <1>2, <1>7, <2>8, <3>1, SymbolFd
    <3> QED BY <2>6, <3>2
  <2>9. KnownFit'
    BY <1>3, <1>4, <1>6, <1>10, <2>3 DEF KnownFit
  <2>10. DeclaredFit'
    BY <1>3, <1>4, <1>7, <2>2, <2>3, <2>4, <2>5 DEF DeclaredFit
  <2>11. TakenOnce'
    BY <1>10, <2>2, <2>7, <2>8 DEF TakenOnce
  <2> QED BY <1>1, <2>9, <2>10, <2>11
<1> QED BY <1>8, <1>9, <1>10 DEF SetUp

-----------------------------------------------------------------------------
(***************************************************************************)
(* Setting up the commands.                                                *)
(***************************************************************************)
LEMMA PlacedAppend ==
    ASSUME NEW cs \in Seq(Commands), NEW new \in Commands, NEW s \in Symbols,
           s.id # new.id, Placed(s, cs)
    PROVE  Placed(s, Append(cs, new))
<1> DEFINE ds == Append(cs, new)
<1>1. /\ ds \in Seq(Commands) /\ Len(ds) = Len(cs) + 1 /\ Len(cs) \in Nat
      /\ ds[Len(cs) + 1] = new /\ \A x \in 1 .. Len(cs) : ds[x] = cs[x]
  BY AppendFacts
<1> HIDE DEF ds
<1>2. ASSUME s.kind = "ODescVal", s.cmd \in 1 .. Len(ds), ds[s.cmd].id = s.id
      PROVE  s.cmd \in 1 .. Len(cs) /\ ds[s.cmd] = cs[s.cmd] /\ cs[s.cmd].id = s.id
  BY <1>1, <1>2
<1>3. Placed(s, ds)
  BY <1>2 DEF Placed
<1> QED BY <1>3 DEF ds

\* What a line makes of a symbol: no stream, or the shell's standard input.
Plain(s) ==
    /\ s \in Symbols /\ (s.arg > 0 => s.kind = "none") /\ s.id <= base + Len(cmds) + 1
    /\ s.kind \in Streams =>
         s.kind = "ODescVal" /\ s.fd = In /\ s.arg = 0 /\ s.ios = 0 /\ stdin_fd = In /\ stdin_fd' = -1

\* What a line leaves behind, the records before it being mid then.
RecordsDone(mid, new) ==
    /\ phase = "setup" /\ ~building /\ base + Len(cmds) < MaxCmds
    /\ mid \in Seq(Commands) /\ Len(mid) = Len(cmds)
    /\ \A k \in 1 .. Len(cmds) : mid[k].id = base + k /\ Sound(mid[k])
    /\ new \in Commands /\ new.id = base + Len(cmds) + 1 /\ Sound(new)
    /\ building' => new.kind = "RunCommand"
    /\ cmds' = Append(mid, new)
SymbolsDone(mid, n) ==
    /\ map' \in [Names -> Symbols]
    /\ \A m \in Names : (map'[m] = map[m] /\ Placed(map[m], mid)) \/ (m = n /\ Plain(map'[m]))
    /\ stdin_fd' \in {stdin_fd, -1} /\ stdout_fd' \in {Out, -1}
OthersDone ==
    /\ open' \subseteq Fds /\ redirected' \subseteq Outputs /\ dst' \in [Pipes -> Int]
    /\ phase' \in {"setup", "wait"} /\ exstatus' \in (0 .. MaxCmds) \cup {65, 126} /\ building' \in BOOLEAN
    /\ building' => phase' = "setup"
    /\ UNCHANGED <<nargs, base, add_map, npipes, src, state, thread, fails>> /\ next' = 1

LEMMA LineInv ==
    ASSUME ScriptInv, NEW mid, NEW new, NEW n, RecordsDone(mid, new), SymbolsDone(mid, n), OthersDone
    PROVE  ScriptInv'
<1>0. \A k \in 1 .. Len(cmds) + 1 : k \in 1 .. Len(cmds) \/ k = Len(cmds) + 1
  <2>1. Len(cmds) \in Nat
    BY LenProperties DEF ScriptInv, Typed
  <2> QED BY <2>1
<1> USE DEF ScriptInv, RecordsDone, SymbolsDone, OthersDone
<1>1. /\ Len(cmds) \in Nat /\ base \in Nat /\ npipes \in Nat /\ map \in [Names -> Symbols]
      /\ stdin_fd \in {In, -1}
  BY LenProperties DEF Typed
<1>2. /\ cmds' \in Seq(Commands) /\ Len(cmds') = Len(cmds) + 1
      /\ cmds'[Len(cmds) + 1] = new /\ \A k \in 1 .. Len(cmds) : cmds'[k] = mid[k]
  <2>1. /\ Append(mid, new) \in Seq(Commands) /\ Len(Append(mid, new)) = Len(mid) + 1
        /\ Append(mid, new)[Len(mid) + 1] = new /\ \A k \in 1 .. Len(mid) : Append(mid, new)[k] = mid[k]
    BY AppendFacts
  <2> QED BY <2>1
<1>3. base' + Len(cmds') <= MaxCmds /\ next' \in 1 .. Len(cmds') + 1
  BY <1>1, <1>2, Bounds
<1>4. Typed'
  BY <1>1, <1>2, <1>3 DEF Typed
<1>5. Numbered'
  <2>1. ASSUME NEW k \in 1 .. Len(cmds) + 1 PROVE cmds'[k].id = base + k /\ Sound(cmds'[k])
    <3>1. CASE k \in 1 .. Len(cmds)
      <4>1. cmds'[k] = mid[k]
        BY <1>2, <3>1
      <4>2. mid[k].id = base + k /\ Sound(mid[k])
        BY <3>1
      <4> QED BY <4>1, <4>2
    <3>2. CASE k = Len(cmds) + 1
      <4>1. cmds'[k] = new
        BY <1>2, <3>2
      <4>2. new.id = base + k /\ Sound(new)
        BY <1>1, <3>2
      <4> QED BY <4>1, <4>2
    <3> QED BY <1>0, <3>1, <3>2
  <2> QED BY <1>2, <2>1 DEF Numbered, Sound
<1>6. BuildingOne'
  BY <1>1, <1>2 DEF BuildingOne
<1>7. \A m \in Names : add_map[m] = NoSym
  BY DEF DeclaredFit
<1>8. DeclaredFit'
  BY <1>7 DEF DeclaredFit
<1>9. KnownFit'
  <2> SUFFICES ASSUME NEW m \in Names
               PROVE  /\ Placed(map'[m], cmds')
                      /\ Created(map'[m], npipes') \/ IsStdin(map'[m], stdin_fd')
                      /\ map'[m].arg > 0 => map'[m].kind \in {"ODescVal", "none"}
                      /\ map'[m].id <= base' + Len(cmds')
    BY DEF KnownFit
  <2>1. CASE map'[m] = map[m] /\ Placed(map[m], mid)
    <3>1. map[m].id <= base + Len(cmds) /\ map[m] \in Symbols /\ map[m].id \in Nat
      BY <1>1 DEF KnownFit, Symbols
    <3>2. map[m].id # new.id
      BY <1>1, <3>1
    <3>3. Placed(map[m], Append(mid, new))
      BY <2>1, <3>1, <3>2, PlacedAppend
    <3>4. map[m].id <= base' + Len(cmds')
      BY <1>1, <1>2, <3>1
    <3>5. IsStdin(map[m], stdin_fd) => IsStdin(map[m], stdin_fd')
      BY <1>1 DEF IsStdin, In
    <3> QED BY <2>1, <3>3, <3>4, <3>5 DEF KnownFit
  <2>2. CASE Plain(map'[m])
    <3>1. Placed(map'[m], cmds')
      BY <2>2 DEF Plain, Placed, InPlace, Streams
    <3>2. Created(map'[m], npipes') \/ IsStdin(map'[m], stdin_fd')
      BY <2>2 DEF Plain, Created, IsStdin, Streams
    <3>3. map'[m].id <= base' + Len(cmds') /\ (map'[m].arg > 0 => map'[m].kind = "none")
      BY <1>1, <1>2, <2>2 DEF Plain, Symbols
    <3> QED BY <3>1, <3>2, <3>3
  <2> QED BY <2>1, <2>2
<1>10. TakenOnce'
  <2>1. ASSUME NEW m \in Names PROVE add_map'[m].kind \notin Streams
    BY <1>7 DEF NoSym, Streams
  <2>2. ASSUME NEW m \in Names, NEW l \in Names, m # l, map'[m].kind \in Streams, map'[l].kind \in Streams,
               map'[l] = map[l], Plain(map'[m])
        PROVE  map'[m].fd # map'[l].fd
    <3>1. map'[m].fd = In /\ stdin_fd = In
      BY <2>2 DEF Plain
    <3>2. Created(map[l], npipes)
      BY <3>1 DEF KnownFit, IsStdin, In
    <3>3. PICK p \in 1 .. npipes : map[l].fd = R(p) \/ map[l].fd = W(p)
      BY <2>2, <3>2 DEF Created, Streams
    <3>4. map[l].fd # In
      BY <1>1, <3>3 DEF R, W, In
    <3> QED BY <2>2, <3>1, <3>4
  <2>3. ASSUME NEW m \in Names, NEW l \in Names, m # l, map'[m].kind \in Streams, map'[l].kind \in Streams
        PROVE  map'[m].fd # map'[l].fd
    <3>1. CASE map'[m] = map[m] /\ map'[l] = map[l]
      BY <2>3, <3>1 DEF TakenOnce
    <3>2. CASE m = n /\ Plain(map'[m]) /\ map'[l] = map[l]
      BY <2>2, <2>3, <3>2
    <3>3. CASE l = n /\ Plain(map'[l]) /\ map'[m] = map[m]
      BY <2>2, <2>3, <3>3
    <3> QED BY <2>3, <3>1, <3>2, <3>3
  <2> QED BY <2>1, <2>3 DEF TakenOnce
<1> QED BY <1>4, <1>5, <1>6, <1>8, <1>9, <1>10

LineFrame ==
    /\ UNCHANGED <<forkonly, state, task, thread, fails>> /\ next' = 1

\* The records before a line that changes none of them.
LEMMA SameRecords ==
    ASSUME ScriptInv, phase = "setup"
    PROVE  /\ cmds \in Seq(Commands)
           /\ \A k \in 1 .. Len(cmds) : cmds[k].id = base + k /\ Sound(cmds[k])
           /\ \A m \in Names : Placed(map[m], cmds) /\ map[m] \in Symbols
           /\ map \in [Names -> Symbols] /\ dst \in [Pipes -> Int] /\ open \subseteq Fds
           /\ stdin_fd \in {In, -1} /\ stdout_fd \in {Out, -1} /\ redirected \subseteq Outputs
           /\ exstatus \in (0 .. MaxCmds) \cup {65, 126} /\ Len(cmds) \in Nat /\ base \in Nat
           /\ building \in BOOLEAN
BY LenProperties DEF ScriptInv, Typed, Numbered, Sound, KnownFit

LEMMA NewRecord ==
    ASSUME ScriptInv, NEW kind \in Kinds
    PROVE  LET new == NewCommand(kind)
           IN  new \in Commands /\ new.id = base + Len(cmds) + 1 /\ Sound(new) /\ new.kind = kind
<1>1. NewCommand(kind) \in Commands
  BY NewCommandTyped DEF ScriptInv
<1> QED BY <1>1, NewCommandTyped DEF ScriptInv, Sound

LEMMA BeginCommandInv == ScriptInv /\ BeginCommand /\ LineFrame => ScriptInv'
<1> SUFFICES ASSUME ScriptInv, BeginCommand, LineFrame PROVE ScriptInv'
  OBVIOUS
<1> DEFINE new == NewCommand("RunCommand")
<1>1. new \in Commands /\ new.id = base + Len(cmds) + 1 /\ Sound(new) /\ new.kind = "RunCommand"
  BY NewRecord DEF Kinds
<1>2. /\ phase = "setup" /\ ~building /\ base + Len(cmds) < MaxCmds /\ building' = TRUE
      /\ cmds' = Append(cmds, new)
      /\ UNCHANGED <<phase, nargs, base, add_map, exstatus, map, stdin_fd, stdout_fd,
                     npipes, open, redirected, src, dst>>
  BY DEF BeginCommand, NextCommand, hookupVars, streamVars, scriptVars, cur
<1> HIDE DEF new
<1>3. RecordsDone(cmds, new)
  BY <1>1, <1>2, SameRecords DEF RecordsDone
<1>4. SymbolsDone(cmds, 1)
  BY <1>2, SameRecords DEF SymbolsDone
<1>5. OthersDone
  BY <1>2, SameRecords DEF OthersDone, LineFrame
<1> QED BY <1>3, <1>4, <1>5, LineInv

LEMMA DefineInv == \A n \in Names : ScriptInv /\ Define(n) /\ LineFrame => ScriptInv'
<1> SUFFICES ASSUME ScriptInv, NEW n \in Names, Define(n), LineFrame PROVE ScriptInv'
  OBVIOUS
<1> DEFINE basic == NewCommand("DefCommand")
<1> DEFINE new == [basic EXCEPT !.stdis = map[n].fd]
<1>1. basic \in Commands /\ basic.id = base + Len(cmds) + 1 /\ Sound(basic) /\ basic.kind = "DefCommand"
  BY NewRecord DEF Kinds
<1>2. /\ phase = "setup" /\ ~building /\ base + Len(cmds) < MaxCmds /\ cmds' = Append(cmds, new)
      /\ map[n].kind = "ODescVal"
      /\ UNCHANGED <<phase, nargs, base, add_map, exstatus, building, stdin_fd, stdout_fd,
                     npipes, open, redirected, src>>
  <2>1. NextCommand("DefCommand") /\ map[n].kind = "ODescVal"
        /\ UNCHANGED <<building, stdin_fd, stdout_fd, streamVars, src>> /\ cmds' = Append(cmds, new)
    BY DEF Define
  <2> QED BY <2>1 DEF NextCommand, streamVars, cur
<1>12. /\ map' = [map EXCEPT ![n] = [NoSym EXCEPT !.kind = "DefVal", !.cmd = cur + 1,
                                                 !.id = cmds'[cur + 1].id]]
       /\ dst' = [dst EXCEPT ![PipeOf(map[n].fd)] = cmds'[cur + 1].id]
  BY DEF Define
<1>3. map[n].fd \in Fds
  <2>1. CASE Created(map[n], npipes)
    <3>1. PICK p \in 1 .. npipes : map[n].fd = R(p)
      BY <1>2, <2>1 DEF Created
    <3>2. p \in Pipes
      BY <3>1, Bounds DEF ScriptInv, Typed, Pipes
    <3> QED BY <3>1, <3>2, FdFacts
  <2>2. CASE IsStdin(map[n], stdin_fd)
    BY <2>2, FdFacts DEF IsStdin
  <2> QED BY <2>1, <2>2 DEF ScriptInv, KnownFit
<1> HIDE DEF basic
<1>4. new \in Commands /\ new.id = base + Len(cmds) + 1 /\ Sound(new)
  <2>1. new \in Commands
    BY <1>1, <1>3 DEF Commands
  <2>2. new.id = basic.id /\ new.exec_fd = basic.exec_fd /\ new.kind = basic.kind /\ new.is = basic.is
    BY <1>1 DEF Commands
  <2> QED BY <1>1, <2>1, <2>2 DEF Sound
<1> HIDE DEF new
<1>5. cmds'[cur + 1] = new /\ cur + 1 \in Nat
  BY <1>2, <1>4, SameRecords, AppendFacts DEF cur
<1>6. new.id \in Nat /\ new.id \in Int
  BY <1>4 DEF Commands
<1>7. map' \in [Names -> Symbols] /\ Plain(map'[n]) /\ \A m \in Names : m # n => map'[m] = map[m]
  <2> DEFINE i == new.id
  <2> DEFINE k == cur + 1
  <2> DEFINE s == [NoSym EXCEPT !.kind = "DefVal", !.cmd = k, !.id = i]
  <2>0. i \in Nat /\ k \in Nat
    BY <1>5, <1>6
  <2>2. map' = [map EXCEPT ![n] = s]
    BY <1>5, <1>12
  <2> HIDE DEF k, i
  <2>1. s \in Symbols /\ s.arg = 0 /\ s.id = i /\ s.kind \notin Streams
    <3>1. s = [NoSym EXCEPT !.kind = "DefVal", !.cmd = k, !.id = i]
      OBVIOUS
    <3> HIDE DEF s
    <3>2. s = [kind |-> "DefVal", fd |-> -1, cmd |-> k, arg |-> 0, ios |-> 0, id |-> i]
      BY <3>1, Zenon DEF NoSym
    <3> QED BY <2>0, <3>2 DEF Symbols, Streams
  <2> HIDE DEF s
  <2>3. map' \in [Names -> Symbols] /\ map'[n] = s /\ \A m \in Names : m # n => map'[m] = map[m]
    <3>1. map \in [Names -> Symbols]
      BY <1>2, SameRecords
    <3> QED BY <2>1, <2>2, <3>1
  <2>4. base + Len(cmds) + 1 \in Nat
    BY <1>2, SameRecords
  <2>5. s.id <= base + Len(cmds) + 1
    BY <1>4, <2>1, <2>4 DEF i
  <2> QED BY <2>1, <2>3, <2>5 DEF Plain
<1>8. dst' \in [Pipes -> Int]
  <2> DEFINE i == cmds'[cur + 1].id
  <2>1. i \in Int /\ dst' = [dst EXCEPT ![PipeOf(map[n].fd)] = i] /\ dst \in [Pipes -> Int]
    BY <1>2, <1>12, <1>5, <1>6, SameRecords
  <2> HIDE DEF i
  <2> QED BY <2>1
<1>9. RecordsDone(cmds, new)
  BY <1>2, <1>4, SameRecords DEF RecordsDone
<1>10. SymbolsDone(cmds, n)
  BY <1>2, <1>7, SameRecords DEF SymbolsDone
<1>11. OthersDone
  BY <1>2, <1>8, SameRecords DEF OthersDone, LineFrame
<1> QED BY <1>9, <1>10, <1>11, LineInv

LEMMA HereDocInv == \A n \in Names : ScriptInv /\ HereDoc(n) /\ LineFrame => ScriptInv'
<1> SUFFICES ASSUME ScriptInv, NEW n \in Names, HereDoc(n), LineFrame PROVE ScriptInv'
  OBVIOUS
<1> DEFINE new == NewCommand("HereDocCommand")
<1> DEFINE s == [NoSym EXCEPT !.kind = "HereDocVal"]
<1>1. new \in Commands /\ new.id = base + Len(cmds) + 1 /\ Sound(new) /\ new.kind = "HereDocCommand"
  BY NewRecord DEF Kinds
<1>2. /\ phase = "setup" /\ ~building /\ base + Len(cmds) < MaxCmds
      /\ cmds' = Append(cmds, new) /\ map' = [map EXCEPT ![n] = s]
      /\ UNCHANGED <<phase, nargs, base, add_map, exstatus, building, stdin_fd, stdout_fd,
                     npipes, open, redirected, src, dst>>
  BY DEF HereDoc, NextCommand, streamVars, scriptVars, cur
<1>3. s \in Symbols /\ s.arg = 0 /\ s.id = 0 /\ s.kind \notin Streams
  BY DEF NoSym, Symbols, Streams
<1> HIDE DEF new, s
<1>4. map' \in [Names -> Symbols] /\ Plain(map'[n]) /\ \A m \in Names : m # n => map'[m] = map[m]
  <2>1. map' \in [Names -> Symbols] /\ map'[n] = s /\ \A m \in Names : m # n => map'[m] = map[m]
    BY <1>2, <1>3, SameRecords
  <2>2. 0 <= base + Len(cmds) + 1
    BY <1>2, SameRecords
  <2> QED BY <1>3, <2>1, <2>2 DEF Plain
<1>5. RecordsDone(cmds, new)
  BY <1>1, <1>2, SameRecords DEF RecordsDone
<1>6. SymbolsDone(cmds, n)
  BY <1>2, <1>4, SameRecords DEF SymbolsDone
<1>7. OthersDone
  BY <1>2, SameRecords DEF OthersDone, LineFrame
<1> QED BY <1>5, <1>6, <1>7, LineInv

LEMMA StdinInv == \A n \in Names : ScriptInv /\ Stdin(n) /\ LineFrame => ScriptInv'
<1> SUFFICES ASSUME ScriptInv, NEW n \in Names, Stdin(n), LineFrame PROVE ScriptInv'
  OBVIOUS
<1> DEFINE new == NewCommand("StdinCommand")
<1> DEFINE s == [NoSym EXCEPT !.kind = "ODescVal", !.fd = stdin_fd, !.cmd = cur + 1, !.id = base + cur + 1]
<1>1. new \in Commands /\ new.id = base + Len(cmds) + 1 /\ Sound(new) /\ new.kind = "StdinCommand"
  BY NewRecord DEF Kinds
<1>2. /\ phase = "setup" /\ ~building /\ base + Len(cmds) < MaxCmds
      /\ stdin_fd # -1 /\ stdin_fd' = -1
      /\ cmds' = Append(cmds, new) /\ map' = [map EXCEPT ![n] = s]
      /\ UNCHANGED <<phase, nargs, base, add_map, exstatus, building, stdout_fd,
                     npipes, open, redirected, src, dst>>
  BY DEF Stdin, NextCommand, streamVars, scriptVars, cur
<1>3. stdin_fd = In
  BY <1>2, SameRecords
<1>4. /\ s \in Symbols /\ s.arg = 0 /\ s.ios = 0 /\ s.id = base + Len(cmds) + 1
      /\ s.kind = "ODescVal" /\ s.fd = In
  <2> DEFINE i == base + cur + 1
  <2> DEFINE k == cur + 1
  <2>1. i \in Nat /\ k \in Nat /\ i = base + Len(cmds) + 1
    BY <1>2, SameRecords DEF cur
  <2>2. stdin_fd \in Int
    BY <1>3 DEF In
  <2>3. s = [NoSym EXCEPT !.kind = "ODescVal", !.fd = stdin_fd, !.cmd = k, !.id = i]
    OBVIOUS
  <2> HIDE DEF i, k, s
  <2>4. s \in Symbols /\ s.arg = 0 /\ s.ios = 0 /\ s.id = i /\ s.kind = "ODescVal" /\ s.fd = stdin_fd
    BY <2>1, <2>2, <2>3 DEF NoSym, Symbols, Streams
  <2> QED BY <1>3, <2>1, <2>4
<1> HIDE DEF new, s
<1>5. map' \in [Names -> Symbols] /\ Plain(map'[n]) /\ \A m \in Names : m # n => map'[m] = map[m]
  <2>1. map' \in [Names -> Symbols] /\ map'[n] = s /\ \A m \in Names : m # n => map'[m] = map[m]
    BY <1>2, <1>4, SameRecords
  <2>2. base + Len(cmds) + 1 \in Nat
    BY <1>2, SameRecords
  <2> QED BY <1>2, <1>3, <1>4, <2>1, <2>2 DEF Plain
<1>6. RecordsDone(cmds, new)
  BY <1>1, <1>2, SameRecords DEF RecordsDone
<1>7. SymbolsDone(cmds, n)
  BY <1>2, <1>5, SameRecords DEF SymbolsDone
<1>8. OthersDone
  BY <1>2, SameRecords DEF OthersDone, LineFrame
<1> QED BY <1>6, <1>7, <1>8, LineInv

LEMMA StdoutInVainInv == \A refused \in BOOLEAN : ScriptInv /\ StdoutInVain(refused) /\ LineFrame => ScriptInv'
<1> SUFFICES ASSUME ScriptInv, NEW refused \in BOOLEAN, StdoutInVain(refused), LineFrame PROVE ScriptInv'
  OBVIOUS
<1> DEFINE basic == NewCommand("StdoutCommand")
<1> DEFINE new == [basic EXCEPT !.stdos = stdout_fd]
<1>1. basic \in Commands /\ basic.id = base + Len(cmds) + 1 /\ Sound(basic) /\ basic.kind = "StdoutCommand"
  BY NewRecord DEF Kinds
<1>2. /\ phase = "setup" /\ ~building /\ base + Len(cmds) < MaxCmds /\ stdout_fd' = -1
      /\ cmds' = Append(cmds, new)
      /\ phase' \in {phase, "wait"} /\ exstatus' \in {exstatus, 65}
      /\ UNCHANGED <<building, nargs, base, add_map, map, stdin_fd, npipes, open, redirected, src, dst>>
  BY DEF StdoutInVain, streamVars, scriptVars, cur
<1>3. new \in Commands /\ new.id = base + Len(cmds) + 1 /\ Sound(new)
  <2>1. stdout_fd \in Fds \cup {-1, Err}
    BY <1>2, SameRecords, FdFacts
  <2> HIDE DEF basic
  <2>2. new \in Commands
    BY <1>1, <2>1 DEF Commands
  <2>3. new.id = basic.id /\ new.exec_fd = basic.exec_fd /\ new.kind = basic.kind /\ new.is = basic.is
    BY <1>1 DEF Commands
  <2> QED BY <1>1, <2>2, <2>3 DEF Sound
<1> HIDE DEF new
<1>4. RecordsDone(cmds, new)
  BY <1>2, <1>3, SameRecords DEF RecordsDone
<1>5. SymbolsDone(cmds, 1)
  BY <1>2, SameRecords DEF SymbolsDone
<1>6. OthersDone
  BY <1>2, SameRecords DEF OthersDone, LineFrame
<1> QED BY <1>4, <1>5, <1>6, LineInv

\* Where the redirected stream is in the record of its writer.
LEMMA RedirectableFacts ==
    ASSUME ScriptInv, phase = "setup", NEW n \in Names, Redirectable(n)
    PROVE  /\ map[n] \in Symbols /\ map[n].fd \in Int
           /\ map[n].cmd \in 1 .. Len(cmds) /\ Writer(n) = cmds[map[n].cmd]
           /\ Writer(n) \in Commands /\ Sound(Writer(n)) /\ Writer(n).id = map[n].id
           /\ Writer(n).kind = "RunCommand" /\ Writer(n).stdos \in Ws \cup {-1, Err}
           /\ OutputOf(n) \in Outputs \cup {-1, Err}
           /\ ~Redirects =>
                /\ map[n].kind = "ODescVal" /\ map[n].kind \in Streams
                /\ map[n].arg > 0 <=> map[n].ios > 0
                /\ map[n].arg > 0 => map[n].arg \in 1 .. Len(Writer(n).args)
                                    /\ Writer(n).args[map[n].arg] = map[n].fd + 1
<1> DEFINE w == Writer(n)
<1> DEFINE s == map[n]
<1>1. s.cmd \in 1 .. Len(cmds) /\ w = cmds[s.cmd] /\ w.id = s.id /\ w.kind = "RunCommand"
  BY DEF Redirectable, Current, Writer, cur
<1>2. w \in Commands /\ Sound(w) /\ w.stdos \in Ws \cup {-1, Err}
  BY <1>1, RecordsSound DEF Sound
<1>3. s \in Symbols /\ s.fd \in Int /\ Placed(s, cmds)
  BY DEF ScriptInv, KnownFit, Typed, Symbols
<1>4. ASSUME ~Redirects
      PROVE  /\ s.kind = "ODescVal" /\ s.kind \in Streams
             /\ s.arg > 0 <=> s.ios > 0
             /\ s.arg > 0 => s.arg \in 1 .. Len(w.args) /\ w.args[s.arg] = s.fd + 1
             /\ s.ios > 0 /\ Err \notin ToSet(w.args) => s.ios \in 1 .. Len(w.os) /\ w.os[s.ios] = s.fd + 1
  <2>1. s.kind = "ODescVal"
    BY <1>4 DEF Redirectable, Habit, Redirects, Taken
  <2> QED BY <1>1, <1>3, <1>4, <2>1 DEF Placed, InPlace, Streams
<1>5. OutputOf(n) = IF s.ios \in 1 .. Len(w.os) THEN w.os[s.ios] ELSE w.stdos
  BY DEF OutputOf, Listed
<1>6. "errfiles" \notin Habits => ~(s.ios > 0 /\ Err \in ToSet(w.args))
  BY DEF Redirectable, Habit
<1>7. ASSUME s.kind = "ODescVal", s.ios > 0 PROVE s.fd + 1 \in Ws
  <2>1. CASE Created(s, npipes)
    <3>1. PICK p \in 1 .. npipes : s.fd = R(p)
      BY <1>7, <2>1 DEF Created
    <3>2. p \in Pipes /\ p \in Int
      BY <3>1, Bounds DEF ScriptInv, Typed, Pipes
    <3> QED BY <3>1, <3>2, FdFacts, PipeEnds
  <2>2. CASE IsStdin(s, stdin_fd)
    BY <1>7, <2>2 DEF IsStdin
  <2> QED BY <2>1, <2>2 DEF ScriptInv, KnownFit
<1>8. OutputOf(n) \in Fds \cup {-1, Err}
  <2>1. CASE s.ios \in 1 .. Len(w.os)
    <3>1. w.os[s.ios] \in Fds
      BY <1>2, <2>1, ElementOfSeq DEF Commands
    <3> QED BY <1>5, <2>1, <3>1
  <2>2. CASE s.ios \notin 1 .. Len(w.os)
    BY <1>2, <1>5, <2>2, FdFacts
  <2> QED BY <2>1, <2>2
<1>9. ASSUME "errfiles" \notin Habits, ~Redirects PROVE OutputOf(n) \in Ws \cup {-1, Err}
  <2>1. CASE s.ios \in 1 .. Len(w.os)
    <3>1. s.ios > 0
      BY <2>1
    <3> QED BY <1>4, <1>5, <1>6, <1>7, <1>9, <2>1, <3>1
  <2>2. CASE s.ios \notin 1 .. Len(w.os)
    BY <1>2, <1>5, <2>2
  <2> QED BY <2>1, <2>2
<1>10. OutputOf(n) \in Outputs \cup {-1, Err}
  BY <1>8, <1>9 DEF Outputs
<1> QED BY <1>1, <1>2, <1>3, <1>4, <1>10

\* Once a stream is sent elsewhere its symbol is gone, and the others stay.
LEMMA SymbolGone ==
    ASSUME ScriptInv, phase = "setup", NEW n \in Names, NEW mid, map' = [map EXCEPT ![n] = Used(@)],
           stdin_fd' = stdin_fd, stdout_fd' \in {Out, -1},
           \A m \in Names \ {n} : Placed(map[m], mid)
    PROVE  SymbolsDone(mid, n)
<1> DEFINE gone == Used(map[n])
<1>2. map \in [Names -> Symbols] /\ Len(cmds) \in Nat /\ base \in Nat
  BY SameRecords
<1>1. gone \in Symbols /\ gone.kind = "none" /\ gone.kind \notin Streams /\ gone.id \in {0, map[n].id}
  BY <1>2, UsedFacts
<1>3. map' \in [Names -> Symbols] /\ map'[n] = gone /\ \A m \in Names : m # n => map'[m] = map[m]
  BY <1>1, <1>2
<1> HIDE DEF gone
<1>4. Plain(map'[n])
  <2>1. map[n].id <= base + Len(cmds) /\ map[n].id \in Nat
    BY <1>2 DEF ScriptInv, KnownFit, Symbols
  <2> QED BY <1>1, <1>2, <1>3, <2>1 DEF Plain
<1> QED BY <1>3, <1>4 DEF SymbolsDone

LEMMA StdoutInv ==
    ASSUME ScriptInv, NEW n \in Names, Stdout(n), LineFrame
    PROVE  ScriptInv'
<1> DEFINE new == NewCommand("StdoutCommand")
<1>1. new \in Commands /\ new.id = base + Len(cmds) + 1 /\ Sound(new) /\ new.kind = "StdoutCommand"
  BY NewRecord DEF Kinds
<1>2. /\ phase = "setup" /\ ~building /\ base + Len(cmds) < MaxCmds
      /\ UNCHANGED <<phase, nargs, base, add_map, exstatus>>
  BY DEF Stdout, NextCommand, cur
<1>3. /\ Redirectable(n) /\ open' = open \ {map[n].fd} /\ stdout_fd' = -1
      /\ redirected' = redirected \cup ({OutputOf(n)} \ {-1, Err})
      /\ map' = [map EXCEPT ![n] = Used(@)] /\ dst' = [dst EXCEPT ![PipeOf(map[n].fd)] = ToStdout]
      /\ cmds' = Append(cmds, new)
      /\ UNCHANGED <<building, npipes, stdin_fd, src>>
  BY DEF Stdout, CloseFds
<1> HIDE DEF new
<1>4. OutputOf(n) \in Outputs \cup {-1, Err}
  BY <1>2, <1>3, RedirectableFacts
<1>5. RecordsDone(cmds, new)
  BY <1>1, <1>2, <1>3, SameRecords DEF RecordsDone
<1>6. SymbolsDone(cmds, n)
  <2>1. \A m \in Names \ {n} : Placed(map[m], cmds)
    BY <1>2, SameRecords
  <2> QED BY <1>2, <1>3, <2>1, SymbolGone
<1>7. dst' \in [Pipes -> Int]
  <2>1. ToStdout \in Int
    BY DEF ToStdout
  <2>2. dst \in [Pipes -> Int]
    BY <1>2, SameRecords
  <2> QED BY <1>3, <2>1, <2>2
<1>8. redirected' \subseteq Outputs /\ open' \subseteq Fds
  BY <1>2, <1>3, <1>4, SameRecords
<1>9. OthersDone
  BY <1>2, <1>3, <1>7, <1>8, SameRecords DEF OthersDone, LineFrame
<1> QED BY <1>5, <1>6, <1>9, LineInv

LEMMA RemoveAtTyped ==
    ASSUME NEW S, NEW s \in Seq(S), NEW i \in 1 .. Len(s)
    PROVE  RemoveAt(s, i) \in Seq(S)
<1>1. Len(s) \in Nat /\ \A x \in 1 .. Len(s) : s[x] \in S
  BY LenProperties, ElementOfSeq
<1>2. SubSeq(s, 1, i - 1) \in Seq(S)
  <2>1. \A x \in 1 .. i - 1 : s[x] \in S
    BY <1>1
  <2> QED BY <1>1, <2>1, SubSeqProperties
<1>3. SubSeq(s, i + 1, Len(s)) \in Seq(S)
  <2>1. \A x \in i + 1 .. Len(s) : s[x] \in S
    BY <1>1
  <2> QED BY <1>1, <2>1, SubSeqProperties
<1> QED BY <1>2, <1>3, ConcatProperties DEF RemoveAt

\* The record of a command, one of whose outputs goes to standard error now.
Diverted(w, s) ==
    LET named == IF s.arg > 0 THEN [w EXCEPT !.args[s.arg] = Err] ELSE w
    IN  IF s.ios \in 1 .. Len(w.os) THEN [named EXCEPT !.os = RemoveAt(@, s.ios)]
                                    ELSE [named EXCEPT !.stdos = Err]

LEMMA DivertedFacts ==
    ASSUME NEW w \in Commands, Sound(w), NEW s \in Symbols
    PROVE  LET b == Diverted(w, s) IN
           /\ b \in Commands /\ Sound(b) /\ b.id = w.id /\ b.kind = w.kind
           /\ Len(b.args) = Len(w.args)
           /\ \A x \in 1 .. Len(w.args) : b.args[x] = IF x = s.arg THEN Err ELSE w.args[x]
           /\ s.ios = 0 => b.os = w.os
<1> DEFINE named == IF s.arg > 0 THEN [w EXCEPT !.args[s.arg] = Err] ELSE w
<1> DEFINE b == Diverted(w, s)
<1>1. w.args \in Seq(Int) /\ w.os \in Seq(Fds) /\ s.arg \in Nat /\ s.ios \in Nat /\ Err \in Int
  BY DEF Commands, Symbols, Err
<1>2. /\ named \in Commands /\ named.id = w.id /\ named.kind = w.kind /\ named.os = w.os
      /\ named.exec_fd = w.exec_fd /\ named.is = w.is /\ named.stdos = w.stdos
      /\ Len(named.args) = Len(w.args)
      /\ \A x \in 1 .. Len(w.args) : named.args[x] = IF x = s.arg THEN Err ELSE w.args[x]
  <2>1. CASE s.arg > 0
    <3> DEFINE paths == [w.args EXCEPT ![s.arg] = Err]
    <3>1. /\ paths \in Seq(Int) /\ Len(paths) = Len(w.args)
          /\ \A x \in 1 .. Len(w.args) : paths[x] = IF x = s.arg THEN Err ELSE w.args[x]
      <4>1. CASE s.arg \in 1 .. Len(w.args)
        BY <1>1, <4>1, UpdateFacts
      <4>2. CASE s.arg \notin 1 .. Len(w.args)
        <5>1. DOMAIN w.args = 1 .. Len(w.args)
          BY <1>1, LenProperties
        <5>2. paths = [x \in DOMAIN w.args |-> w.args[x]]
          BY <4>2, <5>1
        <5>3. w.args = [x \in DOMAIN w.args |-> w.args[x]]
          BY <1>1
        <5>4. paths = w.args
          BY <5>2, <5>3
        <5> QED BY <1>1, <4>2, <5>4
      <4> QED BY <4>1, <4>2
    <3>2. named = [w EXCEPT !.args = paths]
      BY <2>1
    <3> HIDE DEF paths, named
    <3>3. /\ named \in Commands /\ named.id = w.id /\ named.kind = w.kind /\ named.os = w.os
          /\ named.exec_fd = w.exec_fd /\ named.is = w.is /\ named.stdos = w.stdos /\ named.args = paths
      BY <3>1, <3>2 DEF Commands
    <3> QED BY <3>1, <3>3
  <2>2. CASE ~(s.arg > 0)
    <3>1. named = w
      BY <2>2
    <3>2. \A x \in 1 .. Len(w.args) : x # s.arg
      BY <1>1, <2>2
    <3> QED BY <3>1, <3>2
  <2> QED BY <2>1, <2>2
<1>3. b = IF s.ios \in 1 .. Len(w.os) THEN [named EXCEPT !.os = RemoveAt(named.os, s.ios)]
                                     ELSE [named EXCEPT !.stdos = Err]
  BY DEF Diverted
<1> HIDE DEF named, b
<1>4. /\ b \in Commands /\ b.id = named.id /\ b.kind = named.kind /\ b.args = named.args
      /\ b.exec_fd = named.exec_fd /\ b.is = named.is /\ b.stdos \in {named.stdos, Err}
      /\ s.ios = 0 => b.os = named.os
  <2>1. CASE s.ios \in 1 .. Len(w.os)
    <3> DEFINE os == RemoveAt(named.os, s.ios)
    <3>1. os \in Seq(Fds)
      BY <1>1, <1>2, <2>1, RemoveAtTyped
    <3>2. b = [named EXCEPT !.os = os] /\ s.ios # 0
      BY <1>3, <2>1
    <3> HIDE DEF os
    <3> QED BY <1>2, <3>1, <3>2 DEF Commands
  <2>2. CASE s.ios \notin 1 .. Len(w.os)
    <3>1. b = [named EXCEPT !.stdos = Err]
      BY <1>3, <2>2
    <3> QED BY <1>2, <3>1 DEF Commands
  <2> QED BY <2>1, <2>2
<1>5. Sound(b)
  BY <1>2, <1>4 DEF Sound
<1> QED BY <1>2, <1>4, <1>5 DEF b

\* Another symbol keeps its place: if it is of the same record, that record
\* has an argument sent to `stderr` now, or the symbol has none.
LEMMA DivertedPlaces ==
    ASSUME NEW cs \in Seq(Commands), NEW s \in Symbols, NEW t \in Symbols, NEW k \in 1 .. Len(cs),
           NEW w, w = cs[k], Sound(w),
           ~Redirects =>
             /\ s.arg > 0 <=> s.ios > 0
             /\ s.arg > 0 => s.arg \in 1 .. Len(w.args) /\ w.args[s.arg] = s.fd + 1
             /\ t.kind = "ODescVal" => t.fd # s.fd,
           Placed(t, cs),
           NEW b, b = Diverted(w, s), NEW mid, mid = [cs EXCEPT ![k] = b]
    PROVE  Placed(t, mid)
<1>1. w \in Commands
  BY ElementOfSeq
<1>2. /\ b \in Commands /\ b.id = w.id /\ Len(b.args) = Len(w.args)
      /\ \A x \in 1 .. Len(w.args) : b.args[x] = IF x = s.arg THEN Err ELSE w.args[x]
      /\ s.ios = 0 => b.os = w.os
  BY <1>1, DivertedFacts
<1>3. /\ Len(mid) = Len(cs) /\ mid[k] = b /\ \A x \in 1 .. Len(cs) : x # k => mid[x] = cs[x]
  BY <1>2, UpdateFacts
<1>4. /\ Len(w.args) \in Nat /\ s.arg \in Nat /\ s.ios \in Nat /\ t.arg \in Nat /\ t.ios \in Nat
      /\ t.fd \in Int /\ s.fd \in Int
  BY <1>1, LenProperties DEF Commands, Symbols
<1>5. CASE t.cmd = k /\ t.kind = "ODescVal" /\ b.id = t.id
  <2>1. /\ t.arg > 0 <=> t.ios > 0
        /\ t.arg > 0 => t.arg \in 1 .. Len(w.args)
        /\ ~Redirects => InPlace(t, w)
    BY <1>2, <1>5 DEF Placed
  <2>2. t.arg > 0 => t.arg \in 1 .. Len(b.args)
    BY <1>2, <2>1
  <2>3. ASSUME ~Redirects PROVE InPlace(t, b)
    <3>1. t.arg > 0 => t.arg # s.arg
      <4> SUFFICES ASSUME t.arg > 0, t.arg = s.arg PROVE FALSE
        OBVIOUS
      <4>1. w.args[t.arg] = t.fd + 1 /\ w.args[s.arg] = s.fd + 1
        BY <2>1, <2>3 DEF InPlace
      <4> QED BY <1>4, <1>5, <2>3, <4>1
    <3>2. t.arg > 0 => b.args[t.arg] = t.fd + 1
      BY <1>2, <2>1, <2>3, <3>1 DEF InPlace
    <3>3. CASE s.arg > 0
      <4>1. s.arg \in 1 .. Len(b.args) /\ b.args[s.arg] = Err
        BY <1>2, <2>3, <3>3
      <4>2. DOMAIN b.args = 1 .. Len(b.args)
        BY <1>2, LenProperties DEF Commands
      <4>3. Err \in ToSet(b.args)
        BY <4>1, <4>2 DEF ToSet
      <4> QED BY <3>2, <4>3 DEF InPlace
    <3>4. CASE ~(s.arg > 0)
      <4>1. b.os = w.os /\ s.arg = 0
        BY <1>2, <1>4, <2>3, <3>4
      <4>2. b.args = w.args
        <5>1. \A x \in 1 .. Len(w.args) : b.args[x] = w.args[x]
          BY <1>2, <1>4, <4>1
        <5>2. b.args \in Seq(Int) /\ w.args \in Seq(Int)
          BY <1>1, <1>2 DEF Commands
        <5> QED BY <1>2, <5>1, <5>2, SeqEqual
      <4> QED BY <2>1, <2>3, <4>1, <4>2 DEF InPlace
    <3> QED BY <3>3, <3>4
  <2> QED BY <1>3, <1>5, <2>1, <2>2, <2>3 DEF Placed
<1>6. CASE ~(t.cmd = k /\ t.kind = "ODescVal" /\ b.id = t.id)
  <2>1. ASSUME t.kind = "ODescVal", t.cmd \in 1 .. Len(mid), mid[t.cmd].id = t.id
        PROVE  t.cmd \in 1 .. Len(cs) /\ mid[t.cmd] = cs[t.cmd] /\ cs[t.cmd].id = t.id
    BY <1>3, <1>6, <2>1
  <2> QED BY <2>1 DEF Placed
<1> QED BY <1>5, <1>6

LEMMA StderrRecords ==
    ASSUME ScriptInv, NEW n \in Names, Stderr(n)
    PROVE  /\ phase = "setup" /\ Redirectable(n)
           /\ cmds' = Append([cmds EXCEPT ![map[n].cmd] = Diverted(Writer(n), map[n])],
                              NewCommand("StderrCommand"))
<1> DEFINE new == NewCommand("StderrCommand")
<1> DEFINE k == map[n].cmd
<1> DEFINE w == Writer(n)
<1> DEFINE b == Diverted(w, map[n])
<1> DEFINE mid == [cmds EXCEPT ![k] = b]
<1>2. phase = "setup" /\ Redirectable(n)
  BY DEF Stderr, NextCommand
<1>4. k \in 1 .. Len(cmds) /\ w = cmds[k]
  BY <1>2, RedirectableFacts
<1>6. cmds' = Append(mid, new)
  <2> DEFINE named == IF map[n].arg > 0 THEN [cmds EXCEPT ![k].args[map[n].arg] = Err] ELSE cmds
  <2> DEFINE named1 == IF map[n].arg > 0 THEN [w EXCEPT !.args[map[n].arg] = Err] ELSE w
  <2>1. cmds' = Append(IF Listed(n) THEN [named EXCEPT ![k].os = RemoveAt(@, map[n].ios)]
                                    ELSE [named EXCEPT ![k].stdos = Err], new)
    BY DEF Stderr
  <2>2. named = [cmds EXCEPT ![k] = named1]
    <3>1. CASE map[n].arg > 0
      BY <1>4, <3>1
    <3>2. CASE ~(map[n].arg > 0)
      <4>1. named = cmds /\ named1 = cmds[k]
        BY <1>4, <3>2
      <4>2. cmds = [cmds EXCEPT ![k] = cmds[k]]
        <5> HIDE DEF k
        <5>1. cmds \in Seq(Commands)
          BY <1>2, SameRecords
        <5>2. cmds = [x \in DOMAIN cmds |-> cmds[x]]
          BY <5>1
        <5> QED BY <5>2
      <4> QED BY <4>1, <4>2
    <3> QED BY <3>1, <3>2
  <2>3. b = IF Listed(n) THEN [named1 EXCEPT !.os = RemoveAt(@, map[n].ios)]
                         ELSE [named1 EXCEPT !.stdos = Err]
    BY DEF Diverted, Listed
  <2>4. k \in DOMAIN cmds
    BY <1>2, <1>4, SameRecords
  <2> HIDE DEF named, named1, b, k, new
  <2>5. (IF Listed(n) THEN [named EXCEPT ![k].os = RemoveAt(@, map[n].ios)]
                      ELSE [named EXCEPT ![k].stdos = Err]) = [cmds EXCEPT ![k] = b]
    BY <2>2, <2>3, <2>4
  <2> QED BY <2>1, <2>5
<1> QED BY <1>2, <1>6

LEMMA StderrInv ==
    ASSUME ScriptInv, NEW n \in Names, Stderr(n), LineFrame
    PROVE  ScriptInv'
<1> DEFINE new == NewCommand("StderrCommand")
<1> DEFINE k == map[n].cmd
<1> DEFINE w == Writer(n)
<1> DEFINE b == Diverted(w, map[n])
<1> DEFINE mid == [cmds EXCEPT ![k] = b]
<1>1. new \in Commands /\ new.id = base + Len(cmds) + 1 /\ Sound(new) /\ new.kind = "StderrCommand"
  BY NewRecord DEF Kinds
<1>2. /\ phase = "setup" /\ ~building /\ base + Len(cmds) < MaxCmds
      /\ UNCHANGED <<phase, nargs, base, add_map, exstatus>>
  BY DEF Stderr, NextCommand, cur
<1>3. /\ Redirectable(n) /\ open' \subseteq open
      /\ map' = [map EXCEPT ![n] = Used(@)] /\ dst' = [dst EXCEPT ![PipeOf(map[n].fd)] = ToStderr]
      /\ UNCHANGED <<building, npipes, redirected, stdin_fd, stdout_fd, src>>
  BY DEF Stderr, CloseFds
<1>4. /\ map[n] \in Symbols /\ w \in Commands /\ Sound(w) /\ k \in 1 .. Len(cmds) /\ w = cmds[k]
  BY <1>2, <1>3, RedirectableFacts
<1>5. b \in Commands /\ Sound(b) /\ b.id = w.id /\ b.kind = w.kind
  <2> HIDE DEF w
  <2> QED BY <1>4, DivertedFacts
<1>6. cmds' = Append(mid, new)
  BY StderrRecords
<1> HIDE DEF new
<1>7. /\ mid \in Seq(Commands) /\ Len(mid) = Len(cmds)
      /\ \A x \in 1 .. Len(cmds) : mid[x] = IF x = k THEN b ELSE cmds[x]
  <2> HIDE DEF b, k
  <2> QED BY <1>2, <1>4, <1>5, SameRecords, UpdateFacts
<1>8. SymbolsDone(mid, n)
  <2>1. ASSUME NEW m \in Names \ {n} PROVE Placed(map[m], mid)
    <3> DEFINE r == map[n]
    <3> DEFINE t == map[m]
    <3>1. /\ r \in Symbols /\ r.fd \in Int
          /\ ~Redirects =>
               /\ r.kind \in Streams /\ (r.arg > 0 <=> r.ios > 0)
               /\ r.arg > 0 => r.arg \in 1 .. Len(w.args) /\ w.args[r.arg] = r.fd + 1
      BY <1>2, <1>3, RedirectableFacts
    <3>2. t \in Symbols /\ Placed(t, cmds) /\ cmds \in Seq(Commands)
      BY <1>2, SameRecords
    <3>3. ~Redirects => (t.kind = "ODescVal" => t.fd # r.fd)
      BY <3>1 DEF ScriptInv, TakenOnce, Streams
    <3>4. b = Diverted(w, r) /\ mid = [cmds EXCEPT ![k] = b]
      OBVIOUS
    <3> HIDE DEF mid, b, k, w, r, t
    <3>6. Placed(t, mid)
      BY <1>4, <3>1, <3>2, <3>3, <3>4, DivertedPlaces
    <3> QED BY <3>6 DEF t
  <2>2. stdout_fd' \in {Out, -1} /\ stdin_fd' = stdin_fd
    BY <1>2, <1>3, SameRecords
  <2> HIDE DEF mid, b, k, w
  <2>3. \A m \in Names \ {n} : Placed(map[m], mid)
    BY <2>1
  <2> QED BY <1>2, <1>3, <2>2, <2>3, SymbolGone
<1> HIDE DEF mid, b, k, w
<1>9. RecordsDone(mid, new)
  <2>1. ASSUME NEW x \in 1 .. Len(cmds) PROVE mid[x].id = base + x /\ Sound(mid[x])
    <3>1. cmds[x].id = base + x /\ Sound(cmds[x])
      BY <1>2, SameRecords
    <3>2. CASE x = k
      <4>1. mid[x] = b
        BY <1>7, <3>2
      <4>2. b.id = cmds[x].id
        BY <1>4, <1>5, <3>2
      <4> QED BY <1>5, <3>1, <4>1, <4>2
    <3>3. CASE x # k
      <4>1. mid[x] = cmds[x]
        BY <1>7, <3>3
      <4> QED BY <3>1, <4>1
    <3> QED BY <3>2, <3>3
  <2> QED BY <1>1, <1>2, <1>3, <1>6, <1>7, <2>1 DEF RecordsDone
<1>10. dst' \in [Pipes -> Int]
  <2>1. ToStderr \in Int
    BY DEF ToStderr
  <2>2. dst \in [Pipes -> Int]
    BY <1>2, SameRecords
  <2> QED BY <1>3, <2>1, <2>2
<1>11. OthersDone
  BY <1>2, <1>3, <1>10, SameRecords DEF OthersDone, LineFrame
<1> QED BY <1>8, <1>9, <1>11, LineInv

\* transfer_map_entries(): what a name stands for is still taken only once.
LEMMA EndCommandInv ==
    ASSUME ScriptInv, EndCommand, LineFrame
    PROVE  ScriptInv'
<1> USE DEF ScriptInv
<1>1. /\ phase = "setup" /\ building /\ \A n \in Names : add_map[n] # NoSym => ~Taken(n)
      /\ map' = [n \in Names |-> IF add_map[n] # NoSym THEN add_map[n] ELSE map[n]]
      /\ add_map' = [n \in Names |-> NoSym] /\ ~building' /\ nargs' = 0
      /\ UNCHANGED <<phase, cmds, base, stdin_fd, stdout_fd, npipes, open, redirected, src, dst, exstatus>>
  BY DEF EndCommand, streamVars, scriptVars
<1>2. NoSym \in Symbols /\ NoSym.kind \notin Streams
  BY DEF NoSym, Symbols, Streams
<1>3. Typed'
  <2>0. Len(cmds) \in Nat
    BY LenProperties DEF Typed
  <2>1. 0 \in 0 .. MaxArgs /\ 1 \in 1 .. Len(cmds) + 1
    BY <2>0, Bounds
  <2>3. building' = FALSE
    BY DEF EndCommand
  <2>2. map' \in [Names -> Symbols] /\ add_map' \in [Names -> Symbols]
    BY <1>1, <1>2 DEF Typed
  <2> QED BY <1>1, <2>1, <2>2, <2>3 DEF Typed, LineFrame
<1>4. Numbered' /\ BuildingOne'
  BY <1>1 DEF Numbered, BuildingOne
<1>5. DeclaredFit'
  BY <1>1 DEF DeclaredFit
<1>6. KnownFit'
  <2> SUFFICES ASSUME NEW n \in Names
               PROVE  /\ Placed(map'[n], cmds)
                      /\ Created(map'[n], npipes) \/ IsStdin(map'[n], stdin_fd)
                      /\ map'[n].arg > 0 => map'[n].kind \in {"ODescVal", "none"}
                      /\ map'[n].id <= base + Len(cmds)
    BY <1>1 DEF KnownFit
  <2>1. CASE add_map[n] # NoSym
    <3>1. map'[n] = add_map[n]
      BY <1>1, <2>1
    <3>2. /\ Placed(add_map[n], cmds) /\ Created(add_map[n], npipes)
          /\ add_map[n].arg > 0 => add_map[n].kind = "ODescVal"
          /\ add_map[n].id = base + Len(cmds)
      BY <1>1, <2>1 DEF DeclaredFit
    <3>3. add_map[n].id <= base + Len(cmds)
      BY <3>2, LenProperties DEF Typed
    <3> QED BY <3>1, <3>2, <3>3
  <2>2. CASE add_map[n] = NoSym
    BY <1>1, <2>2 DEF KnownFit
  <2> QED BY <2>1, <2>2
<1>7. TakenOnce'
  <2> SUFFICES ASSUME NEW n \in Names, NEW m \in Names, n # m,
                      map'[n].kind \in Streams, map'[m].kind \in Streams
               PROVE  map'[n].fd # map'[m].fd
    BY <1>1, <1>2 DEF TakenOnce
  <2>1. /\ map'[n] = IF add_map[n] # NoSym THEN add_map[n] ELSE map[n]
        /\ map'[m] = IF add_map[m] # NoSym THEN add_map[m] ELSE map[m]
    BY <1>1
  <2> QED BY <2>1 DEF TakenOnce
<1> QED BY <1>3, <1>4, <1>5, <1>6, <1>7

-----------------------------------------------------------------------------
(***************************************************************************)
(* The loops over the commands, and the commands.                          *)
(***************************************************************************)

\* Records are only emptied, and descriptors only closed.
OnlyLess ==
    /\ phase' \in {"setup", "spawn", "wait", "exit"}
    /\ phase' = "setup" => phase = "setup" /\ cmds' = cmds
    /\ cmds' \in Seq(Commands) /\ Len(cmds') = Len(cmds)
    /\ \A k \in 1 .. Len(cmds) : cmds'[k].id = base + k /\ Sound(cmds'[k])
    /\ open' \subseteq Fds /\ next' \in 1 .. Len(cmds) + 1
    /\ state' \in [Ids -> States] /\ thread' \in [Ids -> BOOLEAN] /\ fails' \subseteq Ids
    /\ exstatus' \in (0 .. MaxCmds) \cup {65, 126}
    /\ phase' # "setup" => ~building \/ exstatus' # 0
    /\ UNCHANGED <<building, nargs, base, map, add_map, stdin_fd, stdout_fd, npipes, redirected, src, dst>>

LEMMA OnlyLessInv == ASSUME ScriptInv, OnlyLess PROVE ScriptInv'
<1> USE DEF ScriptInv, OnlyLess
<1>1. Typed'
  BY DEF Typed
<1>2. Numbered'
  BY DEF Numbered, Sound
<1>3. BuildingOne'
  BY DEF BuildingOne
<1>4. KnownFit'
  BY DEF KnownFit
<1>5. DeclaredFit'
  BY DEF DeclaredFit
<1>6. TakenOnce'
  BY DEF TakenOnce
<1> QED BY <1>1, <1>2, <1>3, <1>4, <1>5, <1>6

LEMMA Unchanged ==
    ASSUME ScriptInv
    PROVE  /\ \A k \in 1 .. Len(cmds) : cmds[k].id = base + k /\ Sound(cmds[k])
           /\ cmds \in Seq(Commands) /\ Len(cmds) \in Nat /\ base \in Nat
           /\ open \subseteq Fds /\ next \in 1 .. Len(cmds) + 1
           /\ state \in [Ids -> States] /\ thread \in [Ids -> BOOLEAN] /\ fails \subseteq Ids
           /\ exstatus \in (0 .. MaxCmds) \cup {65, 126} /\ building \in BOOLEAN
           /\ phase \in {"setup", "spawn", "wait", "exit"}
           /\ phase # "setup" => ~building \/ exstatus # 0
BY LenProperties DEF ScriptInv, Typed, Numbered, Sound, BuildingOne

LEMMA EndSectionInv == ASSUME ScriptInv, EndSection, LineFrame PROVE ScriptInv'
<1>1. /\ phase' = "spawn" /\ ~building
      /\ UNCHANGED <<building, nargs, cmds, base, map, add_map, stdin_fd, stdout_fd, npipes, redirected,
                     src, dst, open, exstatus>>
  BY DEF EndSection, hookupVars, streamVars, scriptVars
<1>2. next' \in 1 .. Len(cmds) + 1
  BY Unchanged DEF LineFrame
<1>3. OnlyLess
  BY <1>1, <1>2, Unchanged DEF OnlyLess, LineFrame
<1> QED BY <1>3, OnlyLessInv

LEMMA RefuseInv == ASSUME ScriptInv, Refuse, LineFrame PROVE ScriptInv'
<1>1. /\ phase' = "wait" /\ exstatus' = 65
      /\ UNCHANGED <<building, nargs, cmds, base, map, add_map, stdin_fd, stdout_fd, npipes, redirected,
                     src, dst, open>>
  BY DEF Refuse, hookupVars, streamVars, scriptVars
<1>2. next' \in 1 .. Len(cmds) + 1
  BY Unchanged DEF LineFrame
<1>3. OnlyLess
  BY <1>1, <1>2, Unchanged DEF OnlyLess, LineFrame
<1> QED BY <1>3, OnlyLessInv

LEMMA ArgumentInv ==
    ASSUME ScriptInv, NEW n \in Names, Argument(n), LineFrame
    PROVE  ScriptInv'
<1>1. SetUp(n) /\ phase = "setup" /\ building /\ nargs' \in 0 .. MaxArgs
  BY ArgumentSetsUp
<1>2. NextArg
  BY DEF Argument, StdinFrom, TextFrom, FileFrom, ExecuteFrom, StdoutTo, StatusTo, FileTo,
         StdinFromBelow, FileFromBelow, StdoutAbove, FileAbove
<1>3. ArgumentFrame
  BY <1>1, <1>2 DEF NextArg, ArgumentFrame, LineFrame
<1> QED BY <1>1, <1>3, SetUpInv

LEMMA SetupStepInv ==
    ASSUME ScriptInv, SetupStep
    PROVE  ScriptInv'
<1>1. LineFrame
  BY DEF SetupStep, Setup, procVars, LineFrame
<1>2. ASSUME NEW n \in Names, Argument(n) PROVE ScriptInv'
  BY <1>1, <1>2, ArgumentInv
<1>3. ASSUME NEW n \in Names, Line(n) PROVE ScriptInv'
  BY <1>1, <1>3, DefineInv, HereDocInv, StdinInv, StdoutInv, StderrInv DEF Line
<1>4. CASE BeginCommand
  BY <1>1, <1>4, BeginCommandInv
<1>5. CASE EndCommand
  BY <1>1, <1>5, EndCommandInv
<1>6. CASE EndSection
  BY <1>1, <1>6, EndSectionInv
<1>7. CASE Refuse
  BY <1>1, <1>7, RefuseInv
<1>8. ASSUME NEW refused \in BOOLEAN, StdoutInVain(refused) PROVE ScriptInv'
  BY <1>1, <1>8, StdoutInVainInv
<1> QED BY <1>2, <1>3, <1>4, <1>5, <1>6, <1>7, <1>8 DEF SetupStep, Setup

\* What is left of the command that the loop has come to.
LEMMA EmptiedRecord ==
    ASSUME ScriptInv, next <= Len(cmds), NEW ds, ds = [cmds EXCEPT ![next] = Emptied(c)]
    PROVE  /\ ds \in Seq(Commands) /\ Len(ds) = Len(cmds) /\ next \in 1 .. Len(cmds)
           /\ \A k \in 1 .. Len(cmds) : ds[k].id = base + k /\ Sound(ds[k])
           /\ c \in Commands /\ c.id = base + next /\ c.id \in Ids
           /\ next + 1 \in 1 .. Len(cmds) + 1
<1>1. /\ cmds \in Seq(Commands) /\ Len(cmds) \in Nat /\ base \in Nat /\ base + Len(cmds) <= MaxCmds
      /\ next \in 1 .. Len(cmds) + 1
  BY LenProperties DEF ScriptInv, Typed
<1>2. next \in 1 .. Len(cmds) /\ next + 1 \in 1 .. Len(cmds) + 1
  BY <1>1
<1>3. c \in Commands /\ Sound(c) /\ c.id = base + next
  BY <1>2, RecordsSound DEF c, ScriptInv, Numbered
<1>4. c.id \in Ids
  BY <1>1, <1>2, <1>3, Bounds DEF Ids
<1>5. /\ Emptied(c) \in Commands /\ Emptied(c).id = base + next /\ Sound(Emptied(c))
  BY <1>3, EmptiedTyped DEF ScriptInv, Sound
<1> HIDE DEF c
<1>6. /\ ds \in Seq(Commands) /\ Len(ds) = Len(cmds)
      /\ \A k \in 1 .. Len(cmds) : ds[k] = IF k = next THEN Emptied(c) ELSE cmds[k]
  BY <1>1, <1>2, <1>5, UpdateFacts
<1>7. \A k \in 1 .. Len(cmds) : ds[k].id = base + k /\ Sound(ds[k])
  BY <1>5, <1>6, Unchanged
<1> QED BY <1>2, <1>3, <1>4, <1>6, <1>7

LEMMA SpawnLess ==
    ASSUME ScriptInv, NEW asThread \in BOOLEAN, Spawn(asThread), open' \subseteq open
    PROVE  OnlyLess
<1>1. /\ phase = "spawn" /\ next <= Len(cmds) /\ next' = next + 1
      /\ cmds' = [cmds EXCEPT ![next] = Emptied(c)]
      /\ state' = [state EXCEPT ![c.id] = IF UsesExecfd(c) THEN "gather" ELSE "run"]
      /\ thread' = [thread EXCEPT ![c.id] = asThread]
      /\ UNCHANGED <<phase, building, nargs, base, map, add_map, stdin_fd, stdout_fd, npipes, redirected,
                     src, dst, exstatus, fails>>
  BY DEF Spawn, Spawning, hookupVars, scriptVars
<1>2. /\ cmds' \in Seq(Commands) /\ Len(cmds') = Len(cmds) /\ next + 1 \in 1 .. Len(cmds) + 1
      /\ \A k \in 1 .. Len(cmds) : cmds'[k].id = base + k /\ Sound(cmds'[k])
      /\ c.id \in Ids
  BY <1>1, EmptiedRecord
<1>3. state' \in [Ids -> States] /\ thread' \in [Ids -> BOOLEAN]
  <2>1. state \in [Ids -> States] /\ thread \in [Ids -> BOOLEAN]
    BY Unchanged
  <2>2. (IF UsesExecfd(c) THEN "gather" ELSE "run") \in States
    BY DEF States
  <2> QED BY <1>1, <2>1, <2>2
<1> QED BY <1>1, <1>2, <1>3, Unchanged DEF OnlyLess

LEMMA SpawnFailsLess == ASSUME ScriptInv, SpawnFails PROVE OnlyLess
<1>1. /\ phase = "spawn" /\ next <= Len(cmds) /\ next' = 1 /\ phase' = "wait" /\ exstatus' = 126
      /\ cmds' = [cmds EXCEPT ![next] = Emptied(c)] /\ open' \subseteq open
      /\ UNCHANGED <<building, nargs, base, map, add_map, stdin_fd, stdout_fd, npipes, redirected,
                     src, dst, state, thread, fails>>
  BY DEF SpawnFails, Forks, Spawning, CloseInherited, hookupVars, scriptVars, procVars
<1>2. /\ cmds' \in Seq(Commands) /\ Len(cmds') = Len(cmds)
      /\ \A k \in 1 .. Len(cmds) : cmds'[k].id = base + k /\ Sound(cmds'[k])
  BY <1>1, EmptiedRecord
<1>3. 1 \in 1 .. Len(cmds) + 1
  BY Unchanged
<1> QED BY <1>1, <1>2, <1>3, Unchanged DEF OnlyLess

LEMMA SpawnSkipLess == ASSUME ScriptInv, SpawnSkip \/ EndSpawn PROVE OnlyLess
<1>1. /\ phase = "spawn" /\ phase' \in {"spawn", "wait"} /\ next' \in 1 .. Len(cmds) + 1
  BY Unchanged DEF SpawnSkip, EndSpawn, Spawning, wiringVars
<1>2. UNCHANGED <<cmds, open, building, nargs, base, map, add_map, stdin_fd, stdout_fd, npipes, redirected,
                  src, dst, exstatus, state, thread, fails>>
  BY DEF SpawnSkip, EndSpawn, wiringVars, streamVars, hookupVars, scriptVars, procVars
<1> QED BY <1>1, <1>2, Unchanged DEF OnlyLess

LEMMA WaitNextLess == ASSUME ScriptInv, WaitNext PROVE OnlyLess
<1>1. /\ phase = "wait" /\ next <= Len(cmds) /\ next' = next + 1
      /\ cmds' = [cmds EXCEPT ![next] = Emptied(c)] /\ open' \subseteq open
      /\ UNCHANGED <<phase, building, nargs, base, map, add_map, stdin_fd, stdout_fd, npipes, redirected,
                     src, dst, exstatus, state, thread, fails>>
  BY DEF WaitNext, CloseFds, hookupVars, scriptVars, procVars
<1>2. /\ cmds' \in Seq(Commands) /\ Len(cmds') = Len(cmds) /\ next + 1 \in 1 .. Len(cmds) + 1
      /\ \A k \in 1 .. Len(cmds) : cmds'[k].id = base + k /\ Sound(cmds'[k])
  BY <1>1, EmptiedRecord
<1> QED BY <1>1, <1>2, Unchanged DEF OnlyLess

LEMMA CommandLess == ASSUME ScriptInv, NEW i \in Ids, Command(i) PROVE OnlyLess
<1>1. /\ \E st \in States : state' = [state EXCEPT ![i] = st]
      /\ thread' = thread \/ thread' = [thread EXCEPT ![i] = FALSE]
      /\ fails' = fails \/ fails' = fails \cup {i}
  BY DEF Command, Gathered, GatherFails, CommandEnds, DefinitionFails, End, States
<1>2. /\ open' \subseteq open
      /\ UNCHANGED <<phase, cmds, next, building, nargs, base, map, add_map, stdin_fd, stdout_fd, npipes,
                     redirected, src, dst, exstatus>>
  BY DEF Command, Gathered, GatherFails, CommandEnds, DefinitionFails, End, Gone, CloseFds,
         commandUnchanged, hookupVars, scriptVars
<1>3. state' \in [Ids -> States] /\ thread' \in [Ids -> BOOLEAN] /\ fails' \subseteq Ids
  <2>1. state \in [Ids -> States] /\ thread \in [Ids -> BOOLEAN] /\ fails \subseteq Ids
    BY Unchanged
  <2>2. PICK st \in States : state' = [state EXCEPT ![i] = st]
    BY <1>1
  <2>3. state' \in [Ids -> States]
    BY <2>1, <2>2
  <2>4. thread' \in [Ids -> BOOLEAN]
    BY <1>1, <2>1
  <2> QED BY <1>1, <2>1, <2>3, <2>4
<1> QED BY <1>2, <1>3, Unchanged DEF OnlyLess

LEMMA FailuresBounded == ASSUME ScriptInv PROVE Failures \in 0 .. MaxCmds
<1> DEFINE failed == {i \in fails : Here(i)}
<1>1. failed \subseteq 1 .. MaxCmds
  BY DEF ScriptInv, Typed, Ids
<1>2. IsFiniteSet(1 .. MaxCmds) /\ Cardinality(1 .. MaxCmds) = MaxCmds
  BY Bounds, FS_Interval
<1> HIDE DEF failed
<1>3. Cardinality(failed) \in Nat /\ Cardinality(failed) <= MaxCmds
  BY <1>1, <1>2, FS_Subset, FS_CardinalityType
<1> QED BY <1>3, Bounds DEF Failures, failed

\* The next section begins with the names of this one.
LEMMA EndLoopInv == ASSUME ScriptInv, EndLoop PROVE ScriptInv'
<1> USE DEF ScriptInv
<1>1. /\ phase = "wait" /\ phase' \in {"setup", "exit"} /\ cmds' = <<>> /\ next' = 1
      /\ exstatus' = (IF exstatus = 0 THEN Failures ELSE exstatus)
      /\ phase' = "setup" => exstatus' = 0
      /\ stdin_fd' \in {stdin_fd, -1} /\ stdout_fd' \in {Out, -1} /\ open' \subseteq open
      /\ base' = base + Len(cmds)
      /\ UNCHANGED <<building, nargs, add_map, map, npipes, redirected, src, dst, state, thread, fails>>
  BY DEF EndLoop, CloseFds, scriptVars, procVars
<1>2. /\ base \in Nat /\ Len(cmds) \in Nat /\ base' + Len(cmds') = base + Len(cmds) /\ base' \in Nat
  <2>1. Len(cmds') = 0 /\ base \in Nat /\ Len(cmds) \in Nat
    BY <1>1, Unchanged
  <2> QED BY <1>1, <2>1
<1>3. exstatus' \in (0 .. MaxCmds) \cup {65, 126} /\ (exstatus # 0 => exstatus' # 0)
  BY <1>1, FailuresBounded, Unchanged
<1>4. Typed'
  <2>1. cmds' \in Seq(Commands) /\ next' \in 1 .. Len(cmds') + 1
    BY <1>1
  <2> QED BY <1>1, <1>2, <1>3, <2>1 DEF Typed
<1>5. Numbered'
  BY <1>1 DEF Numbered
<1>6. BuildingOne'
  BY <1>1, <1>3 DEF BuildingOne
<1>7. DeclaredFit'
  BY <1>1, <1>3 DEF DeclaredFit, BuildingOne
<1>8. KnownFit'
  <2>1. ASSUME NEW n \in Names PROVE Placed(map[n], cmds')
    BY <1>1 DEF Placed
  <2>2. ASSUME NEW n \in Names, IsStdin(map[n], stdin_fd) PROVE IsStdin(map[n], stdin_fd')
    BY <1>1, <2>2 DEF IsStdin
  <2> QED BY <1>1, <1>2, <2>1, <2>2 DEF KnownFit
<1>9. TakenOnce'
  BY <1>1 DEF TakenOnce
<1> QED BY <1>4, <1>5, <1>6, <1>7, <1>8, <1>9

LEMMA ScriptStart == Init => ScriptInv
<1> SUFFICES ASSUME Init PROVE ScriptInv
  OBVIOUS
<1>1. /\ phase = "setup" /\ building = FALSE /\ nargs = 0 /\ cmds = <<>> /\ base = 0
      /\ map = [n \in Names |-> NoSym] /\ add_map = [n \in Names |-> NoSym]
      /\ stdin_fd \in {In, -1} /\ stdout_fd = Out /\ npipes = 0 /\ redirected = {}
      /\ open = {stdin_fd, stdout_fd} \ {-1} /\ src = NoEnds /\ dst = NoEnds /\ exstatus = 0
      /\ next = 1 /\ state = [i \in Ids |-> "none"] /\ thread = [i \in Ids |-> FALSE] /\ fails = {}
  BY DEF Init, WiringInit
<1>2. NoSym \in Symbols /\ NoSym.kind \notin Streams /\ NoSym.kind # "ODescVal" /\ NoSym.arg = 0 /\ NoSym.id = 0
  BY DEF NoSym, Symbols, Streams
<1>3. cmds \in Seq(Commands) /\ Len(cmds) = 0
  BY <1>1
<1>4. Typed
  <2>1. open \subseteq Fds
    BY <1>1, FdFacts
  <2>2. src \in [Pipes -> Int] /\ dst \in [Pipes -> Int]
    BY <1>1 DEF NoEnds, Nobody
  <2>3. nargs \in 0 .. MaxArgs /\ npipes \in 0 .. MaxPipes /\ exstatus \in 0 .. MaxCmds
        /\ base + Len(cmds) <= MaxCmds /\ base \in Nat /\ next \in 1 .. Len(cmds) + 1
    BY <1>1, <1>3, Bounds
  <2>4. state \in [Ids -> States] /\ thread \in [Ids -> BOOLEAN]
    BY <1>1 DEF States
  <2> QED BY <1>1, <1>2, <1>3, <2>1, <2>2, <2>3, <2>4 DEF Typed
<1>5. Numbered /\ BuildingOne /\ TakenOnce /\ DeclaredFit
  BY <1>1, <1>2, <1>3 DEF Numbered, BuildingOne, TakenOnce, DeclaredFit
<1>6. KnownFit
  BY <1>1, <1>2, <1>3 DEF KnownFit, Placed, Created, Streams
<1> QED BY <1>4, <1>5, <1>6 DEF ScriptInv

LEMMA ScriptStep == ScriptInv /\ [Next]_vars => ScriptInv'
<1> SUFFICES ASSUME ScriptInv, [Next]_vars PROVE ScriptInv'
  OBVIOUS
<1>1. CASE SetupStep
  BY <1>1, SetupStepInv
<1>2. CASE SpawnSkip \/ EndSpawn
  BY <1>2, SpawnSkipLess, OnlyLessInv
<1>3. CASE SpawnThread
  BY <1>3, SpawnLess, OnlyLessInv DEF SpawnThread
<1>4. CASE SpawnFork
  <2>1. open' \subseteq open
    BY <1>4 DEF SpawnFork, CloseInherited
  <2> QED BY <1>4, <2>1, SpawnLess, OnlyLessInv DEF SpawnFork
<1>5. CASE SpawnFails
  BY <1>5, SpawnFailsLess, OnlyLessInv
<1>6. CASE WaitNext
  BY <1>6, WaitNextLess, OnlyLessInv
<1>7. CASE EndLoop
  BY <1>7, EndLoopInv
<1>8. CASE \E i \in Ids : Command(i)
  BY <1>8, CommandLess, OnlyLessInv
<1>9. CASE UNCHANGED vars
  <2>1. UNCHANGED <<phase, building, nargs, cmds, base, add_map, map, stdin_fd, stdout_fd, npipes, open,
                    redirected, src, dst, exstatus, next, state, thread, fails>>
    BY <1>9 DEF vars, wiringVars, hookupVars, streamVars, scriptVars, procVars
  <2>2. Typed' /\ Numbered' /\ KnownFit'
    BY <2>1 DEF ScriptInv, Typed, Numbered, KnownFit
  <2>3. DeclaredFit' /\ TakenOnce' /\ BuildingOne'
    BY <2>1 DEF ScriptInv, DeclaredFit, TakenOnce, BuildingOne
  <2> QED BY <2>2, <2>3 DEF ScriptInv
<1> QED BY <1>1, <1>2, <1>3, <1>4, <1>5, <1>6, <1>7, <1>8, <1>9 DEF Next, Loop, Terminated

\* The records, the symbols, and the loops over the commands fit.
THEOREM ScriptInvCorrect == Spec => []ScriptInv
BY ScriptStart, ScriptStep, PTL DEF Spec

\* What the runs check of them: a stream that becomes standard output is the
\* end of a pipe that is written to, unless scripts may confuse the files of a
\* command or send elsewhere what it reads (copy_to() then names its input).
THEOREM TypeCorrect == {"errfiles", "reused", "below"} \cap Habits = {} => (Spec => []TypeOK)
<1>1. ASSUME {"errfiles", "reused", "below"} \cap Habits = {} PROVE ScriptInv => TypeOK
  <2> SUFFICES ASSUME ScriptInv PROVE TypeOK
    OBVIOUS
  <2> USE DEF ScriptInv
  <2>4. Outputs = Ws
    BY <1>1 DEF Outputs, Redirects
  <2>1. /\ phase \in {"setup", "spawn", "wait", "exit"}
        /\ building \in BOOLEAN /\ nargs \in 0..MaxArgs
        /\ base + Len(cmds) \in 0..MaxCmds
        /\ npipes \in 0..MaxPipes /\ open \subseteq Fds /\ redirected \subseteq Ws
        /\ next \in 1 .. Len(cmds) + 1
        /\ state \in [Ids -> States] /\ thread \in [Ids -> BOOLEAN] /\ fails \subseteq Ids
        /\ exstatus \in 0..MaxCmds \union {65, 126}
    BY <2>4, LenProperties, Bounds DEF Typed
  <2>2. ASSUME NEW k \in 1 .. Len(cmds)
        PROVE  /\ cmds[k].id = base + k
               /\ Ends(cmds[k]) \subseteq Fds
               /\ cmds[k].exec_fd # -1 => cmds[k].exec_fd \in ToSet(cmds[k].is)
    <3>1. cmds[k] \in Commands
      BY RecordsSound
    <3>2. ASSUME NEW s \in Seq(Fds) PROVE ToSet(s) \subseteq Fds
      BY LenProperties, ElementOfSeq DEF ToSet
    <3>3. Ends(cmds[k]) \subseteq Fds
      BY <3>1, <3>2 DEF Ends, Commands
    <3> QED BY <3>3 DEF Numbered
  <2>3. ASSUME NEW n \in Names
        PROVE map[n].kind \in {"none", "ODescVal", "IFutureDescVal", "DefVal", "HereDocVal"}
    BY DEF Typed, Symbols, Streams
  <2> QED BY <2>1, <2>2, <2>3 DEF TypeOK, Ws
<1>2. ASSUME {"errfiles", "reused", "below"} \cap Habits = {} PROVE Spec => []TypeOK
  <2>1. ScriptInv => TypeOK
    BY <1>1, <1>2
  <2> QED BY <2>1, ScriptInvCorrect, PTL
<1> QED BY <1>2

-----------------------------------------------------------------------------
(***************************************************************************)
(* Which commands can be running.                                          *)
(***************************************************************************)
LEMMA BarrierSetup ==
    ASSUME ScriptInv, Barrier, SetupStep
    PROVE  Barrier'
<1>1. /\ phase = "setup" /\ phase' \in {"setup", "spawn", "wait"} /\ next' = 1
      /\ UNCHANGED <<base, state, fails>>
  <2>1. UNCHANGED <<state, fails>> /\ next' = 1
    BY DEF SetupStep, procVars
  <2>2. ASSUME NEW n \in Names, Argument(n) PROVE phase = "setup" /\ UNCHANGED <<phase, base>>
    BY <2>2 DEF Argument, StdinFrom, TextFrom, FileFrom, ExecuteFrom, StdoutTo, StatusTo, FileTo,
           StdinFromBelow, FileFromBelow, StdoutAbove, FileAbove, NextArg
  <2>3. ASSUME NEW n \in Names, Line(n) PROVE phase = "setup" /\ UNCHANGED <<phase, base>>
    BY <2>3 DEF Line, Define, HereDoc, Stdin, Stdout, Stderr, NextCommand
  <2>4. CASE BeginCommand \/ EndCommand \/ EndSection \/ Refuse \/ \E refused \in BOOLEAN : StdoutInVain(refused)
    BY <2>1, <2>4 DEF BeginCommand, NextCommand, EndCommand, EndSection, Refuse, StdoutInVain
  <2> QED BY <2>1, <2>2, <2>3, <2>4 DEF SetupStep, Setup
<1>2. \A i \in Ids : i > base => state[i] = "none"
  BY <1>1 DEF Barrier
<1>3. \A i \in Ids : i <= base => ~Live(i) /\ i \notin fails
  BY <1>1 DEF Barrier
<1>4. base \in Nat /\ Len(cmds') \in Nat
  BY SetupStepInv, LenProperties DEF ScriptInv, Typed
<1>5. \A i \in Ids : i \in Int
  BY DEF Ids
<1>6. \A i \in Ids : Live(i)' <=> Live(i)
  BY <1>1 DEF Live
<1> QED BY <1>1, <1>2, <1>3, <1>4, <1>5, <1>6 DEF Barrier

\* While the loops go over the commands of a section, the command that the
\* loop has come to is the only one that begins to run.
LEMMA BarrierSpawn ==
    ASSUME ScriptInv, Barrier, NEW asThread \in BOOLEAN, Spawn(asThread)
    PROVE  Barrier'
<1>1. /\ phase = "spawn" /\ phase' = "spawn" /\ next <= Len(cmds) /\ next' = next + 1
      /\ cmds' = [cmds EXCEPT ![next] = Emptied(c)]
      /\ state' = [state EXCEPT ![c.id] = IF UsesExecfd(c) THEN "gather" ELSE "run"]
      /\ UNCHANGED <<base, fails>>
  BY DEF Spawn, Spawning
<1>2. /\ Len(cmds') = Len(cmds) /\ c.id = base + next /\ c.id \in Ids
      /\ next \in 1 .. Len(cmds) /\ Len(cmds) \in Nat /\ base \in Nat
  BY <1>1, EmptiedRecord, Unchanged
<1>3. \A i \in Ids : i # base + next => state'[i] = state[i]
  BY <1>1, <1>2, Unchanged
<1>4. \A i \in Ids : i # base + next => (Live(i)' <=> Live(i))
  BY <1>3 DEF Live
<1>5. state[base + next] = "none" /\ base + next \notin fails
  <2>1. base + next >= base + next
    BY <1>2
  <2>2. state[base + next] = "none"
    BY <1>1, <1>2, <2>1 DEF Barrier
  <2> QED BY <2>2 DEF Barrier
<1>6. ASSUME NEW i \in Ids, i > base + Len(cmds) PROVE state'[i] = "none"
  BY <1>2, <1>3, <1>6 DEF Barrier, Ids
<1>7. ASSUME NEW i \in Ids, i <= base PROVE ~Live(i)' /\ i \notin fails
  <2>1. i # base + next
    BY <1>2, <1>7 DEF Ids
  <2> QED BY <1>1, <1>4, <1>7, <2>1 DEF Barrier
<1>8. ASSUME NEW i \in Ids, i >= base + (next + 1) PROVE state'[i] = "none"
  <2>1. i # base + next /\ i >= base + next
    BY <1>2, <1>8 DEF Ids
  <2> QED BY <1>1, <1>3, <2>1 DEF Barrier
<1>9. \A i \in fails : state'[i] = "ended"
  BY <1>3, <1>5, Unchanged DEF Barrier
<1> QED BY <1>1, <1>2, <1>6, <1>7, <1>8, <1>9 DEF Barrier

LEMMA BarrierStays ==
    ASSUME ScriptInv, Barrier, SpawnSkip \/ SpawnFails \/ EndSpawn \/ WaitNext
    PROVE  Barrier'
<1>1. UNCHANGED <<base, state, fails>>
  BY DEF SpawnSkip, SpawnFails, EndSpawn, WaitNext, wiringVars, procVars
<1>2. Len(cmds') = Len(cmds) /\ Len(cmds) \in Nat /\ base \in Nat /\ next \in 1 .. Len(cmds) + 1
  <2>1. OnlyLess
    BY SpawnSkipLess, SpawnFailsLess, WaitNextLess
  <2> QED BY <2>1, Unchanged DEF OnlyLess
<1>3. \A i \in Ids : i \in Int /\ (Live(i)' <=> Live(i))
  BY <1>1 DEF Live, Ids
<1>4. phase # "exit" /\ phase' # "exit" /\ phase' # "setup"
  BY DEF SpawnSkip, SpawnFails, Forks, Spawning, EndSpawn, WaitNext, wiringVars
<1>5. CASE SpawnSkip
  <2>1. phase = "spawn" /\ phase' = phase /\ next' = next + 1
    BY <1>5 DEF SpawnSkip, Spawning, wiringVars
  <2>2. ASSUME NEW i \in Ids, i >= base + (next + 1) PROVE state[i] = "none"
    <3>1. i >= base + next
      BY <1>2, <1>3, <2>2
    <3> QED BY <2>1, <3>1 DEF Barrier
  <2> QED BY <1>1, <1>2, <1>3, <1>4, <2>1, <2>2 DEF Barrier
<1>6. CASE SpawnFails \/ EndSpawn
  <2>1. phase' = "wait" /\ next' = 1
    BY <1>6 DEF SpawnFails, EndSpawn
  <2>2. ASSUME NEW i \in Ids, i < base + 1 PROVE ~Live(i)
    <3>1. i <= base
      BY <1>2, <1>3, <2>2
    <3> QED BY <1>4, <3>1 DEF Barrier
  <2> QED BY <1>1, <1>2, <1>3, <1>4, <2>1, <2>2 DEF Barrier
<1>7. CASE WaitNext
  <2>1. phase = "wait" /\ phase' = phase /\ next' = next + 1 /\ Waited(c.id) /\ next <= Len(cmds)
    BY <1>7 DEF WaitNext
  <2>2. c.id = base + next
    BY <2>1, EmptiedRecord
  <2>3. ~Live(base + next)
    BY <2>1, <2>2 DEF Waited, Live
  <2>4. ASSUME NEW i \in Ids, i < base + (next + 1) PROVE ~Live(i)
    <3>1. i = base + next \/ i < base + next
      BY <1>2, <1>3, <2>4
    <3> QED BY <2>1, <2>3, <3>1 DEF Barrier
  <2> QED BY <1>1, <1>2, <1>3, <1>4, <2>1, <2>4 DEF Barrier
<1> QED BY <1>5, <1>6, <1>7

\* When the loop that waits has come to its end, no command is left; and if
\* one has failed there is no other section.
LEMMA BarrierEndLoop == ASSUME ScriptInv, Barrier, EndLoop PROVE Barrier'
<1>1. /\ phase = "wait" /\ next > Len(cmds) /\ phase' \in {"setup", "exit"} /\ cmds' = <<>>
      /\ phase' = "setup" => exstatus' = 0 /\ exstatus' = (IF exstatus = 0 THEN Failures ELSE exstatus)
      /\ base' = base + Len(cmds) /\ UNCHANGED <<state, fails>>
  BY DEF EndLoop, procVars
<1>2. Len(cmds) \in Nat /\ base \in Nat /\ next = Len(cmds) + 1 /\ fails \subseteq Ids
  BY <1>1, Unchanged
<1>3. \A i \in Ids : i \in Int /\ (Live(i)' <=> Live(i))
  BY <1>1 DEF Live, Ids
<1>4. ASSUME NEW i \in Ids, i > base + Len(cmds) PROVE state[i] = "none"
  BY <1>4 DEF Barrier
<1>5. ASSUME NEW i \in Ids, i <= base + Len(cmds) PROVE ~Live(i)
  <2>1. i < base + next
    BY <1>2, <1>3, <1>5
  <2> QED BY <1>1, <2>1 DEF Barrier
<1>6. ASSUME phase' = "setup", NEW i \in Ids, i <= base + Len(cmds) PROVE i \notin fails
  <2> DEFINE failed == {j \in fails : Here(j)}
  <2>1. Failures = 0
    BY <1>1, <1>6
  <2>2. IsFiniteSet(failed)
    <3>1. IsFiniteSet(1 .. MaxCmds)
      BY Bounds, FS_Interval
    <3>2. failed \subseteq 1 .. MaxCmds
      BY <1>2 DEF Ids
    <3> HIDE DEF failed
    <3> QED BY <3>1, <3>2, FS_Subset
  <2>3. failed = {}
    <3>1. Cardinality(failed) = 0
      BY <2>1 DEF Failures
    <3> HIDE DEF failed
    <3> QED BY <2>2, <3>1, FS_EmptySet
  <2>4. CASE i <= base
    BY <1>1, <2>4 DEF Barrier
  <2>5. CASE i > base
    <3>1. Here(i)
      BY <1>2, <1>3, <1>6, <2>5 DEF Here
    <3> QED BY <2>3, <3>1
  <2> QED BY <1>2, <1>3, <2>4, <2>5
<1>7. base' + Len(cmds') = base + Len(cmds)
  <2>1. Len(cmds') = 0
    BY <1>1
  <2> QED BY <1>1, <1>2, <2>1
<1>8. \A i \in fails : state[i] = "ended"
  BY DEF Barrier
<1> QED BY <1>1, <1>3, <1>4, <1>5, <1>6, <1>7, <1>8 DEF Barrier

LEMMA BarrierCommand ==
    ASSUME ScriptInv, Barrier, NEW i \in Ids, Command(i)
    PROVE  Barrier'
<1>1. /\ Live(i)
      /\ \E st \in {"run", "ended"} : /\ state' = [state EXCEPT ![i] = st]
                                      /\ fails' # fails => st = "ended"
      /\ fails' \in {fails, fails \cup {i}} /\ UNCHANGED <<phase, cmds, next, base>>
  BY DEF Command, Gathered, GatherFails, CommandEnds, DefinitionFails, End, commandUnchanged, Live
<1>2. /\ \A j \in Ids \ {i} : state'[j] = state[j] /\ (Live(j)' <=> Live(j))
      /\ fails' # fails => state'[i] = "ended"
  <2>1. state \in [Ids -> States]
    BY Unchanged
  <2>2. PICK st \in {"run", "ended"} : state' = [state EXCEPT ![i] = st] /\ (fails' # fails => st = "ended")
    BY <1>1
  <2>3. /\ \A j \in Ids \ {i} : state'[j] = state[j]
        /\ fails' # fails => state'[i] = "ended"
    BY <2>1, <2>2
  <2> QED BY <2>3 DEF Live
<1>3. state[i] # "none" /\ i \notin fails
  BY <1>1 DEF Live, Barrier
<1>4. fails \subseteq Ids
  BY Unchanged
<1>5. \A j \in fails' : state'[j] = "ended"
  <2>1. ASSUME fails' = fails PROVE \A j \in fails' : state'[j] = "ended"
    BY <1>2, <1>3, <1>4, <2>1 DEF Barrier
  <2>2. ASSUME fails' # fails PROVE \A j \in fails' : state'[j] = "ended"
    <3>1. state'[i] = "ended"
      BY <1>2, <2>2
    <3> QED BY <1>1, <1>2, <1>4, <3>1 DEF Barrier
  <2> QED BY <2>1, <2>2
<1>6. ASSUME NEW j \in Ids, phase # "exit", j <= base PROVE ~Live(j)' /\ j \notin fails'
  <2>1. ~Live(j) /\ j \notin fails
    BY <1>6 DEF Barrier
  <2>2. j # i
    BY <1>1, <2>1
  <2> QED BY <1>1, <1>2, <2>1, <2>2
<1>7. ASSUME NEW j \in Ids, state[j] = "none" PROVE state'[j] = "none"
  BY <1>2, <1>3, <1>7
<1>8. ASSUME NEW j \in Ids, ~Live(j) PROVE ~Live(j)'
  <2>1. j # i
    BY <1>1, <1>8
  <2> QED BY <1>2, <1>8, <2>1
<1> QED BY <1>1, <1>5, <1>6, <1>7, <1>8 DEF Barrier

LEMMA BarrierStep == ScriptInv /\ Barrier /\ [Next]_vars => Barrier'
<1> SUFFICES ASSUME ScriptInv, Barrier, [Next]_vars PROVE Barrier'
  OBVIOUS
<1>1. CASE SetupStep
  BY <1>1, BarrierSetup
<1>2. CASE SpawnThread \/ SpawnFork
  BY <1>2, BarrierSpawn DEF SpawnThread, SpawnFork
<1>3. CASE SpawnSkip \/ SpawnFails \/ EndSpawn \/ WaitNext
  BY <1>3, BarrierStays
<1>4. CASE EndLoop
  BY <1>4, BarrierEndLoop
<1>5. CASE \E i \in Ids : Command(i)
  BY <1>5, BarrierCommand
<1>6. CASE UNCHANGED vars
  BY <1>6 DEF vars, wiringVars, procVars, Barrier, Live
<1> QED BY <1>1, <1>2, <1>3, <1>4, <1>5, <1>6 DEF Next, Loop, Terminated

\* $(barrier) for scripts of any length: no command is spawned before those of
\* the sections before have ended, nor after one of them has failed.
THEOREM BarrierCorrect == Spec => []BarrierHolds
<1>1. Init => Barrier
  BY DEF Init, WiringInit, Barrier, Live
<1>2. ScriptInv /\ Barrier => BarrierHolds
  <2> SUFFICES ASSUME ScriptInv, Barrier, phase = "spawn", NEW i \in 1 .. base
               PROVE  ~Live(i) /\ i \notin fails
    BY DEF BarrierHolds
  <2>1. base \in Nat /\ base <= MaxCmds
    BY LenProperties, Bounds DEF ScriptInv, Typed
  <2>2. i \in Ids /\ i <= base
    BY <2>1, Bounds DEF Ids
  <2> QED BY <2>2 DEF Barrier
<1> QED BY <1>1, <1>2, BarrierStep, ScriptInvCorrect, PTL DEF Spec
=============================================================================
