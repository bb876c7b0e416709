-------------------------------- MODULE Args --------------------------------
(***************************************************************************)
(* The files a builtin opens by the names of its arguments (infile.c,      *)
(* outfile.c).  A builtin that runs as a thread is given the streams of    *)
(* its arguments and of its standard input and output in arrays (inputv    *)
(* and outputv, number 0 the standard one); a builtin that runs as a       *)
(* process has only the descriptors and the names.                         *)
(***************************************************************************)
EXTENDS Naturals, Sequences, FiniteSets
CONSTANT ArgStarts               \* the situations a behaviour starts from
VARIABLES argv,                  \* the names of the arguments, from 1
          held,                  \* the streams of the thread that nobody claimed
          opened,                \* the descriptors that are open
          gained                 \* history: the streams the builtin opened
argVars == <<argv, held, opened, gained>>

Sides == {"in", "out"}
StdFd(side) == IF side = "in" THEN 0 ELSE 1
Device(side) == IF side = "in" THEN "/dev/stdin" ELSE "/dev/stdout"

\* A start: the names, whether there are arrays, the streams in them, and the
\* open descriptors.
ASSUME ArgsAssumption ==
    \A s \in ArgStarts :
        /\ s.argv \in Seq(STRING) /\ s.thread \in BOOLEAN
        /\ s.held \subseteq Sides \X (0 .. Len(s.argv)) /\ s.opened \subseteq Nat

ArgsIdle == argv = <<>> /\ held = [thread |-> FALSE, streams |-> {}] /\ opened = {} /\ gained = <<>>
ArgsInit ==
    \E s \in ArgStarts :
        /\ argv = s.argv
        /\ held = [thread |-> s.thread, streams |-> s.held]
        /\ opened = s.opened
        /\ gained = <<>>

Gain(side, i, from, at) ==
    gained' = Append(gained, [side |-> side, arg |-> i, from |-> from, at |-> at])
GainNothing(side, i) == Gain(side, i, "nothing", 0) /\ UNCHANGED <<argv, held, opened>>

\* open_fd_FildeshX(): the descriptor is claimed, which moves the numbers of
\* the standard streams out of the way.
OpenFd(side, i, fd) ==
    IF fd \in opened
    THEN /\ Gain(side, i, "fd", fd)
         /\ opened' = IF fd <= 2 THEN opened \ {fd} ELSE opened
         /\ UNCHANGED <<argv, held>>
    ELSE GainNothing(side, i)

OpenNull(side, i) == Gain(side, i, "null", 0) /\ UNCHANGED <<argv, held, opened>>
\* The stream of the standard error does not claim its descriptor.
OpenStderr(side, i) == Gain(side, i, "stderr", 2) /\ UNCHANGED <<argv, held, opened>>
\* A file opens or does not.
OpenFile(side, i) ==
    \/ Gain(side, i, "file", 0) /\ UNCHANGED <<argv, held, opened>>
    \/ GainNothing(side, i)

\* open_FildeshXF() and open_FildeshOF().
OpenName(side, i, name) ==
    CASE name \in {"-", Device(side)}                -> OpenFd(side, i, StdFd(side))
      [] name = "/dev/null"                          -> OpenNull(side, i)
      [] name = "/dev/urandom" /\ side = "in"        -> OpenNull(side, i)
      [] name = "/dev/stderr" /\ side = "out"        -> OpenStderr(side, i)
      [] name = "/dev/fd/0"                          -> OpenFd(side, i, 0)
      [] name = "/dev/fd/5"                          -> OpenFd(side, i, 5)
      [] OTHER                                       -> OpenFile(side, i)

\* Mutant of ClaimHeld: the stream stays in the array.
ClaimShared(side, i, k) == Gain(side, i, "held", k) /\ UNCHANGED <<argv, held, opened>>
ClaimHeld(side, i, k) ==
    /\ Gain(side, i, "held", k)
    /\ held' = [held EXCEPT !.streams = @ \ {<<side, k>>}]
    /\ UNCHANGED <<argv, opened>>

\* Mutant of OpenStandard: a thread falls back on the process's stream.
StealStandard(side, i) ==
    IF held.thread /\ <<side, 0>> \in held.streams THEN ClaimHeld(side, i, 0) ELSE OpenFd(side, i, StdFd(side))
\* The standard stream, of the thread or of the process.
OpenStandard(side, i) ==
    IF ~held.thread THEN OpenFd(side, i, StdFd(side))
    ELSE IF <<side, 0>> \in held.streams THEN ClaimHeld(side, i, 0)
    ELSE GainNothing(side, i)

\* open_arg_FildeshXF() and open_arg_FildeshOF(); argument 0 stands for the
\* standard stream.
OpenArg(side, i) ==
    IF held.thread /\ <<side, i>> \in held.streams THEN ClaimHeld(side, i, i)
    ELSE IF i > Len(argv) THEN GainNothing(side, i)
    ELSE IF i = 0 \/ argv[i] = "-" THEN OpenStandard(side, i)
    ELSE OpenName(side, i, argv[i])

\* A builtin opens each of its arguments once, for input or for output, and
\* its standard streams when no argument asked for them.
ArgsNext ==
    /\ Len(gained) < 4
    /\ \E side \in Sides, i \in 0 .. Len(argv) + 1 :
         /\ \A j \in DOMAIN gained : gained[j].arg = i => i = 0 /\ gained[j].side # side
         /\ OpenArg(side, i)
ArgsSpec == ArgsInit /\ [][ArgsNext]_argVars

(***************************************************************************)
(* Properties.                                                             *)
(***************************************************************************)
\* No stream is opened by two arguments: a claimed stream is taken out of the
\* array, and a standard descriptor is gone once it was claimed, whatever mix
\* of "-", names of devices and given streams the arguments are
\* (open_arg_FildeshXF, open_arg_FildeshOF).
ArgsClaimOnce ==
    \A i, j \in DOMAIN gained :
        i # j /\ gained[i].from = gained[j].from =>
          \/ gained[i].from \in {"nothing", "null", "file", "stderr"}
          \/ gained[i].side # gained[j].side /\ gained[i].from = "held"
          \/ gained[i].at # gained[j].at
          \/ gained[i].at > 2      \* /dev/fd/5 named twice is claimed twice

\* A thread never takes the standard streams of the process it runs in, unless
\* an argument names the device or the descriptor ("Better not steal the real
\* stdin.", infile.c:237).
ArgsNeverSteal ==
    held.thread /\ (\A i \in DOMAIN argv : argv[i] \notin {"/dev/stdin", "/dev/stdout", "/dev/fd/0"}) =>
      \A j \in DOMAIN gained : gained[j].from = "fd" => gained[j].at > 2
=============================================================================
