---------------------------- MODULE FdSpawnProofs ----------------------------
(***************************************************************************)
(* For any number of threads, descriptors and files: the types of FdSpawn, *)
(* the discipline of its lock, and that a spawned program inherits nothing *)
(* but what its caller listed.                                             *)
(*                                                                         *)
(* NoLeak is not inductive: it speaks of the moment of a fork only.  The   *)
(* invariant behind it says who answers, at any time, for a descriptor     *)
(* that would be inherited (Sealed), and that a thread that forks is alone *)
(* in its section (LockInv).                                               *)
(***************************************************************************)
EXTENDS FdSpawn, SequenceTheorems, TLAPS

-----------------------------------------------------------------------------
(* The inductive invariant. *)

(* A thread's place tells which lock it holds; writers exclude everyone. *)
LockInv ==
  /\ \A t \in Threads : t \in readers <=> pc[t] \in SharedPcs
  /\ \A t \in Threads : t \in writers <=> pc[t] \in ExclusivePcs
  /\ writers # {} => readers = {}
  /\ \A t, u \in writers : t = u

(* There is a descriptor to set a flag of; the first loop of a spawn is at *)
(* descriptors to inherit.                                                 *)
CallInv == \A t \in Threads :
  /\ pc[t] \in {"seal", "flag"} => raw[t] # <<>>
  /\ pc[t] = "inherit" => pend[t] \subseteq call[t].inh

(* Descriptors above 2 that t has made, or left, inheritable for now. *)
Exposes(t) ==
  CASE pc[t] \in SharedPcs -> Range(raw[t])
    [] pc[t] = "flag" -> {Head(raw[t])}
    [] pc[t] \in {"inherit", "stdout", "fork"} -> call[t].inh
    [] pc[t] = "drop" -> pend[t]
    [] OTHER -> {}

Sealed == \A fd \in Inherited \ Stdio : \E t \in Threads : fd \in Exposes(t)

IInv == TypeOK /\ LockInv /\ CallInv /\ Sealed

-----------------------------------------------------------------------------
(* Sequences. *)

(* The members of a nonempty sequence are its head and those of its tail. *)
LEMMA HeadOrTail ==
  ASSUME NEW S, NEW s \in Seq(S), s # <<>>, NEW x \in Range(s), x # Head(s)
  PROVE  x \in Range(Tail(s))
<1>1. PICK i \in 1..Len(s) : x = s[i]
  BY RangeEquality
<1>2. i # 1
  BY <1>1
<1>3. i - 1 \in 1..Len(Tail(s)) /\ Tail(s)[i - 1] = s[i]
  BY <1>2
<1>4. Tail(s) \in Seq(S)
  OBVIOUS
<1>5. Range(Tail(s)) = {Tail(s)[j] : j \in 1..Len(Tail(s))}
  BY <1>4, RangeEquality
<1>6. QED BY <1>1, <1>3, <1>5

(* Putting a new head before a tail keeps the members of the tail. *)
LEMMA NewHead ==
  ASSUME NEW S, NEW s \in Seq(S), s # <<>>, NEW h \in S
  PROVE  /\ <<h>> \o Tail(s) \in Seq(S)
         /\ h \in Range(<<h>> \o Tail(s))
         /\ \A x \in Range(Tail(s)) : x \in Range(<<h>> \o Tail(s))
<1> DEFINE r == <<h>> \o Tail(s)
<1>1. Tail(s) \in Seq(S) /\ r \in Seq(S) /\ Len(r) = 1 + Len(Tail(s))
  OBVIOUS
<1>2. r[1] = h /\ 1 \in 1..Len(r)
  BY <1>1
<1>3. ASSUME NEW x \in Range(Tail(s)) PROVE x \in Range(r)
  <2>1. PICK i \in 1..Len(Tail(s)) : x = Tail(s)[i]
    BY <1>1, <1>3, RangeEquality
  <2>2. r[i + 1] = x /\ i + 1 \in 1..Len(r)
    BY <1>1, <2>1
  <2>3. QED BY <1>1, <2>2, RangeEquality
<1>4. h \in Range(r)
  BY <1>1, <1>2, RangeEquality
<1>5. QED BY <1>1, <1>3, <1>4

-----------------------------------------------------------------------------
(* Types. *)

(* What a descriptor can refer to. *)
LEMMA FilesFacts == Free \in Files /\ Empty \in Files /\ 1..MaxFile \subseteq Files
BY FdAssumption DEF Files, Free, Empty

(* Standard input and output are descriptors; -1 is none. *)
LEMMA FdsFacts ==
  /\ 0 \in Fds /\ 1 \in Fds /\ 2 \in Fds
  /\ Fds \subseteq -1..MaxFd
  /\ \A fd \in -1..MaxFd : fd # -1 => fd \in Fds
BY FdAssumption DEF Fds

LEMMA TypeInit == Init => TypeOK
BY FdAssumption DEF Init, TypeOK, Fds, Files, Free, Empty, NoCall, NoSnap, Stdio

LEMMA TypeStep == TypeOK /\ CallInv /\ [Next]_vars => TypeOK'
<1> SUFFICES ASSUME TypeOK, CallInv, [Next]_vars PROVE TypeOK'
  OBVIOUS
<1> USE DEF TypeOK, SharedPcs, ExclusivePcs,
        tableVars, lockVars, createVars, spawnVars
<1>1. CASE UNCHANGED vars
  BY <1>1 DEF vars
<1>2. ASSUME NEW t \in Threads, NEW fd \in Fds, Claim(t, fd) PROVE TypeOK'
  BY <1>2 DEF Claim, EnterShared
<1>3. ASSUME NEW t \in Threads, OpenFile(t) PROVE TypeOK'
  <2>1. PICK fd \in Fds : /\ tab' = [tab EXCEPT ![fd] = nfiles + 1]
                          /\ raw' = [raw EXCEPT ![t] = <<fd>>]
                          /\ cloexec' = cloexec \ {fd}
    BY <1>3 DEF OpenFile
  <2>2. nfiles' \in 3..MaxFile /\ nfiles + 1 \in Files
    BY <1>3, FilesFacts, FdAssumption DEF OpenFile
  <2>3. tab' \in [Fds -> Files] /\ raw' \in [Threads -> Seq(Fds)]
    BY <2>1, <2>2
  <2>4. QED BY <1>3, <2>1, <2>2, <2>3 DEF OpenFile, EnterShared
<1>4. ASSUME NEW t \in Threads, MakePipe(t) PROVE TypeOK'
  <2>1. PICK r, w \in Fds :
           /\ tab' = [tab EXCEPT ![r] = nfiles + 1, ![w] = nfiles + 2]
           /\ raw' = [raw EXCEPT ![t] = <<r, w>>]
           /\ cloexec' = cloexec \ {r, w}
    BY <1>4 DEF MakePipe
  <2>2. nfiles' \in 3..MaxFile /\ nfiles + 1 \in Files /\ nfiles + 2 \in Files
    BY <1>4, FilesFacts, FdAssumption DEF MakePipe
  <2>3. tab' \in [Fds -> Files]
    BY <2>1, <2>2
  <2>4. <<r, w>> \in Seq(Fds)
    OBVIOUS
  <2>5. raw' \in [Threads -> Seq(Fds)]
    BY <2>1, <2>4
  <2>6. QED BY <1>4, <2>1, <2>2, <2>3, <2>5 DEF MakePipe, EnterShared
<1>5. ASSUME NEW t \in Threads, Dup(t) PROVE TypeOK'
  BY <1>5 DEF Dup, AtRaw
<1>6. ASSUME NEW t \in Threads, DupFails(t) PROVE TypeOK'
  BY <1>6 DEF DupFails, AtRaw
<1>7. ASSUME NEW t \in Threads, Seal(t) PROVE TypeOK'
  <2>1. raw[t] # <<>> /\ Head(raw[t]) \in Fds /\ Tail(raw[t]) \in Seq(Fds)
    BY <1>7 DEF Seal, AtRaw, CallInv
  <2>2. cloexec' \subseteq Fds
    BY <1>7, <2>1 DEF Seal
  <2>3. CASE Head(raw[t]) \in Stdio
    <3>1. UNCHANGED <<raw, got>> /\ pc' = [pc EXCEPT ![t] = "off"]
      BY <1>7, <2>3 DEF Seal
    <3>2. QED BY <1>7, <2>2, <3>1 DEF Seal
  <2>4. CASE Head(raw[t]) \notin Stdio
    <3>1. /\ raw' = [raw EXCEPT ![t] = Tail(@)]
          /\ got' = [got EXCEPT ![t] = @ \union {Head(raw[t])}]
          /\ pc' = [pc EXCEPT ![t] = "close"]
      BY <1>7, <2>4 DEF Seal
    <3>2. raw' \in [Threads -> Seq(Fds)]
      BY <2>1, <3>1
    <3>3. got' \in [Threads -> SUBSET Fds]
      BY <2>1, <3>1
    <3>4. QED BY <1>7, <2>2, <3>1, <3>2, <3>3 DEF Seal
  <2>5. QED BY <2>3, <2>4
<1>8. ASSUME NEW t \in Threads, CloseHeld(t) PROVE TypeOK'
  BY <1>8, FilesFacts DEF CloseHeld
<1>9. ASSUME NEW t \in Threads, CloseGot(t) PROVE TypeOK'
  <2>1. PICK fd \in Fds : /\ tab' = [tab EXCEPT ![fd] = Free]
                          /\ cloexec' = cloexec \ {fd}
                          /\ got' = [got EXCEPT ![t] = @ \ {fd}]
    BY <1>9 DEF CloseGot
  <2>2. tab' \in [Fds -> Files] /\ got' \in [Threads -> SUBSET Fds]
    BY <2>1, FilesFacts
  <2>3. QED BY <1>9, <2>1, <2>2 DEF CloseGot
<1>10. ASSUME NEW t \in Threads, Return(t) PROVE TypeOK'
  BY <1>10 DEF Return, LeaveShared
<1>11. ASSUME NEW t \in Threads, NEW fd \in Fds, Close(t, fd) PROVE TypeOK'
  BY <1>11, FilesFacts DEF Close
<1>12. ASSUME NEW t \in Threads, NEW dst \in Fds, NEW src \in Fds,
              NEW move \in BOOLEAN, CopyTo(t, dst, src, move)
       PROVE  TypeOK'
  <2>1. tab' \in [Fds -> Files]
    BY <1>12, FilesFacts DEF CopyTo
  <2>2. raw' \in [Threads -> Seq(Fds)] /\ own' \in [Threads -> SUBSET Fds]
    BY <1>12 DEF CopyTo
  <2>3. cloexec' \subseteq Fds
    BY <1>12 DEF CopyTo
  <2>4. QED BY <1>12, <2>1, <2>2, <2>3 DEF CopyTo, EnterExclusive
<1>13. ASSUME NEW t \in Threads, SetFlag(t) PROVE TypeOK'
  BY <1>13 DEF SetFlag, LeaveExclusive, CallInv
<1>14. ASSUME NEW t \in Threads, NEW c \in Calls(t), BeginSpawn(t, c)
       PROVE  TypeOK'
  <2>1. c \in [in : -1..MaxFd, out : -1..MaxFd, inh : SUBSET Fds, keep : SUBSET Fds]
    <3> DEFINE mine == own[t] \ Stdio
    <3>1. c \in [in : {-1, 0} \union mine, out : {-1, 1, 2} \union mine,
                 inh : SUBSET mine, keep : SUBSET mine]
      BY DEF Calls
    <3>2. mine \subseteq Fds
      OBVIOUS
    <3>3. /\ {-1, 0} \union mine \subseteq -1..MaxFd
          /\ {-1, 1, 2} \union mine \subseteq -1..MaxFd
      <4> HIDE DEF mine
      <4>1. -1 \in -1..MaxFd
        BY FdAssumption
      <4>2. QED BY <3>2, <4>1, FdsFacts
    <3> HIDE DEF mine
    <3>4. QED BY <3>1, <3>2, <3>3
  <2>2. call' \in [Threads -> [in : -1..MaxFd, out : -1..MaxFd,
                               inh : SUBSET Fds, keep : SUBSET Fds]]
    BY <1>14, <2>1 DEF BeginSpawn
  <2>3. pend' \in [Threads -> SUBSET Fds] /\ own' \in [Threads -> SUBSET Fds]
    BY <1>14, <2>1 DEF BeginSpawn
  <2>4. snap' \in [Threads -> [Fds -> Files]]
    <3> DEFINE seen == [fd \in Fds |-> IF fd \in c.inh \union {c.in, c.out}
                                       THEN tab[fd] ELSE Free]
    <3>1. seen \in [Fds -> Files]
      BY FilesFacts
    <3>2. snap' = [snap EXCEPT ![t] = seen]
      BY <1>14 DEF BeginSpawn
    <3> HIDE DEF seen
    <3>3. QED BY <3>1, <3>2
  <2>5. QED BY <1>14, <2>2, <2>3, <2>4 DEF BeginSpawn, EnterExclusive
<1>15. ASSUME NEW t \in Threads, InheritFd(t) PROVE TypeOK'
  BY <1>15 DEF InheritFd
<1>16. ASSUME NEW t \in Threads, SetupStdin(t) PROVE TypeOK'
  <2>1. call[t].in \in -1..MaxFd
    OBVIOUS
  <2>2. cloexec' \subseteq Fds
    BY <1>16 DEF SetupStdin
  <2>3. \/ tab' = tab
        \/ tab' = [tab EXCEPT ![0] = Empty]
        \/ \E in \in Fds : tab' = [tab EXCEPT ![0] = tab[in], ![in] = Free]
    BY <1>16, <2>1, FdsFacts DEF SetupStdin
  <2>4. tab' \in [Fds -> Files]
    BY <2>3, FilesFacts, FdsFacts
  <2>5. QED BY <1>16, <2>2, <2>4 DEF SetupStdin
<1>17. ASSUME NEW t \in Threads, SetupStdout(t) PROVE TypeOK'
  <2>1. call[t].out \in -1..MaxFd
    OBVIOUS
  <2>2. cloexec' \subseteq Fds
    BY <1>17 DEF SetupStdout
  <2>3. \/ tab' = tab
        \/ tab' = [tab EXCEPT ![1] = Empty]
        \/ tab' = [tab EXCEPT ![1] = tab[2]]
        \/ \E out \in Fds : tab' = [tab EXCEPT ![1] = tab[out], ![out] = Free]
    BY <1>17, <2>1, FdsFacts DEF SetupStdout
  <2>4. tab' \in [Fds -> Files]
    BY <2>3, FilesFacts, FdsFacts
  <2>5. QED BY <1>17, <2>2, <2>4 DEF SetupStdout
<1>18. ASSUME NEW t \in Threads, SetupFails(t) PROVE TypeOK'
  <2>1. call[t].out \in -1..MaxFd /\ call[t].inh \subseteq Fds
    OBVIOUS
  <2>2. lost' \subseteq Fds /\ pend' \in [Threads -> SUBSET Fds]
    BY <1>18, <2>1, FdsFacts DEF SetupFails
  <2>3. QED BY <1>18, <2>2 DEF SetupFails
<1>19. ASSUME NEW t \in Threads, ForkAndCleanup(t) PROVE TypeOK'
  BY <1>19, FilesFacts DEF ForkAndCleanup
<1>20. ASSUME NEW t \in Threads, DropFd(t) PROVE TypeOK'
  <2>1. PICK fd \in Fds :
           /\ tab' = tab \/ tab' = [tab EXCEPT ![fd] = Free]
           /\ cloexec' = cloexec \union {fd} \/ cloexec' = cloexec \ {fd}
           /\ pend' = [pend EXCEPT ![t] = @ \ {fd}]
    BY <1>20 DEF DropFd
  <2>2. tab' \in [Fds -> Files] /\ pend' \in [Threads -> SUBSET Fds]
    BY <2>1, FilesFacts
  <2>3. QED BY <1>20, <2>1, <2>2 DEF DropFd
<1>21. ASSUME NEW t \in Threads, EndSpawn(t) PROVE TypeOK'
  <2>1. /\ NoSnap \in [Fds -> Files]
        /\ NoCall \in [in : -1..MaxFd, out : -1..MaxFd,
                       inh : SUBSET Fds, keep : SUBSET Fds]
    <3>1. -1 \in -1..MaxFd
      BY FdAssumption
    <3>2. QED BY <3>1, FilesFacts DEF NoSnap, NoCall
  <2>2. own' \in [Threads -> SUBSET Fds]
    BY <1>21 DEF EndSpawn
  <2>3. call' \in [Threads -> [in : -1..MaxFd, out : -1..MaxFd,
                               inh : SUBSET Fds, keep : SUBSET Fds]]
    BY <1>21, <2>1 DEF EndSpawn
  <2>4. snap' \in [Threads -> [Fds -> Files]]
    BY <1>21, <2>1 DEF EndSpawn
  <2>5. QED BY <1>21, <2>2, <2>3, <2>4 DEF EndSpawn, LeaveExclusive
<1> HIDE DEF TypeOK
<1>22. QED
  BY <1>1, <1>2, <1>3, <1>4, <1>5, <1>6, <1>7, <1>8, <1>9, <1>10, <1>11,
     <1>12, <1>13, <1>14, <1>15, <1>16, <1>17, <1>18, <1>19, <1>20, <1>21
     DEF Next, CreateStep, CopyStep, SpawnStep

-----------------------------------------------------------------------------
(* The lock. *)

LEMMA LockInit == Init => LockInv /\ CallInv
BY DEF Init, LockInv, CallInv, SharedPcs, ExclusivePcs

LEMMA LockStep ==
  TypeOK /\ LockInv /\ CallInv /\ [Next]_vars => LockInv' /\ CallInv'
<1> SUFFICES ASSUME TypeOK, LockInv, CallInv, [Next]_vars
             PROVE  LockInv' /\ CallInv'
  OBVIOUS
<1> USE DEF TypeOK, LockInv, CallInv, SharedPcs, ExclusivePcs,
        tableVars, lockVars, createVars, spawnVars
<1>1. CASE UNCHANGED vars
  BY <1>1 DEF vars
<1>2. ASSUME NEW t \in Threads, NEW fd \in Fds, Claim(t, fd)
      PROVE  LockInv' /\ CallInv'
  BY <1>2 DEF Claim, EnterShared
<1>3. ASSUME NEW t \in Threads, OpenFile(t) PROVE LockInv' /\ CallInv'
  BY <1>3 DEF OpenFile, EnterShared
<1>4. ASSUME NEW t \in Threads, MakePipe(t) PROVE LockInv' /\ CallInv'
  BY <1>4 DEF MakePipe, EnterShared
<1>5. ASSUME NEW t \in Threads, Dup(t) PROVE LockInv' /\ CallInv'
  <2>1. PICK fd \in Fds : raw' = [raw EXCEPT ![t] = <<fd>> \o Tail(@)]
    BY <1>5 DEF Dup
  <2>2. raw'[t] # <<>> /\ \A u \in Threads \ {t} : raw'[u] = raw[u]
    BY <1>5, <2>1, NewHead DEF Dup, AtRaw
  <2>3. QED BY <1>5, <2>2 DEF Dup, AtRaw
<1>6. ASSUME NEW t \in Threads, DupFails(t) PROVE LockInv' /\ CallInv'
  BY <1>6 DEF DupFails, AtRaw
<1>7. ASSUME NEW t \in Threads, Seal(t) PROVE LockInv' /\ CallInv'
  BY <1>7 DEF Seal, AtRaw
<1>8. ASSUME NEW t \in Threads, CloseHeld(t) PROVE LockInv' /\ CallInv'
  BY <1>8 DEF CloseHeld
<1>9. ASSUME NEW t \in Threads, CloseGot(t) PROVE LockInv' /\ CallInv'
  BY <1>9 DEF CloseGot
<1>10. ASSUME NEW t \in Threads, Return(t) PROVE LockInv' /\ CallInv'
  BY <1>10 DEF Return, LeaveShared
<1>11. ASSUME NEW t \in Threads, NEW fd \in Fds, Close(t, fd)
       PROVE  LockInv' /\ CallInv'
  BY <1>11 DEF Close
<1>12. ASSUME NEW t \in Threads, NEW dst \in Fds, NEW src \in Fds,
              NEW move \in BOOLEAN, CopyTo(t, dst, src, move)
       PROVE  LockInv' /\ CallInv'
  BY <1>12 DEF CopyTo, EnterExclusive
<1>13. ASSUME NEW t \in Threads, SetFlag(t) PROVE LockInv' /\ CallInv'
  BY <1>13 DEF SetFlag, LeaveExclusive
<1>14. ASSUME NEW t \in Threads, NEW c \in Calls(t), BeginSpawn(t, c)
       PROVE  LockInv' /\ CallInv'
  BY <1>14 DEF BeginSpawn, EnterExclusive
<1>15. ASSUME NEW t \in Threads, InheritFd(t) PROVE LockInv' /\ CallInv'
  BY <1>15 DEF InheritFd
<1>16. ASSUME NEW t \in Threads, SetupStdin(t) PROVE LockInv' /\ CallInv'
  BY <1>16 DEF SetupStdin
<1>17. ASSUME NEW t \in Threads, SetupStdout(t) PROVE LockInv' /\ CallInv'
  BY <1>17 DEF SetupStdout
<1>18. ASSUME NEW t \in Threads, SetupFails(t) PROVE LockInv' /\ CallInv'
  BY <1>18 DEF SetupFails
<1>19. ASSUME NEW t \in Threads, ForkAndCleanup(t) PROVE LockInv' /\ CallInv'
  BY <1>19 DEF ForkAndCleanup
<1>20. ASSUME NEW t \in Threads, DropFd(t) PROVE LockInv' /\ CallInv'
  BY <1>20 DEF DropFd
<1>21. ASSUME NEW t \in Threads, EndSpawn(t) PROVE LockInv' /\ CallInv'
  BY <1>21 DEF EndSpawn, LeaveExclusive
<1> HIDE DEF TypeOK, LockInv, CallInv
<1>22. QED
  BY <1>1, <1>2, <1>3, <1>4, <1>5, <1>6, <1>7, <1>8, <1>9, <1>10, <1>11,
     <1>12, <1>13, <1>14, <1>15, <1>16, <1>17, <1>18, <1>19, <1>20, <1>21
     DEF Next, CreateStep, CopyStep, SpawnStep

-----------------------------------------------------------------------------
(* Who answers for the inheritable descriptors. *)

LEMMA SealedInit == Init => Sealed
BY FdAssumption DEF Init, Sealed, Inherited, Stdio, Free, Fds

(* A step of t keeps Sealed if it answers for what it makes inheritable,   *)
(* and for what it answered for and leaves inheritable.                    *)
LEMMA SealedLocally ==
  ASSUME Sealed, NEW t \in Threads,
         \A u \in Threads \ {t} : /\ pc'[u] = pc[u] /\ raw'[u] = raw[u]
                                   /\ call'[u] = call[u] /\ pend'[u] = pend[u],
         \A fd \in (Inherited \ Stdio)' :
            \/ fd \in Exposes(t)'
            \/ fd \in Inherited /\ fd \notin Exposes(t)
  PROVE  Sealed'
<1> SUFFICES ASSUME NEW fd \in (Inherited \ Stdio)'
             PROVE  \E u \in Threads : fd \in Exposes(u)'
  BY DEF Sealed
<1>1. CASE fd \in Exposes(t)'
  BY <1>1
<1>2. CASE fd \in Inherited /\ fd \notin Exposes(t)
  <2>1. PICK u \in Threads : fd \in Exposes(u)
    BY <1>2 DEF Sealed, Stdio
  <2>2. u # t
    BY <1>2, <2>1
  <2>3. Exposes(u)' = Exposes(u)
    BY <2>1, <2>2 DEF Exposes
  <2>4. QED BY <2>1, <2>3
<1>3. QED BY <1>1, <1>2

LEMMA SealedStep == IInv /\ TypeOK' /\ [Next]_vars => Sealed'
<1> SUFFICES ASSUME IInv, TypeOK', [Next]_vars PROVE Sealed'
  OBVIOUS
<1> USE DEF IInv, tableVars, lockVars, createVars, spawnVars
<1>1. CASE UNCHANGED vars
  BY <1>1 DEF vars, Sealed, Inherited, Exposes
<1>2. ASSUME NEW t \in Threads, NEW fd \in Fds, Claim(t, fd) PROVE Sealed'
  <2>1. Exposes(t) = {} /\ Inherited' = Inherited
    BY <1>2 DEF Claim, Exposes, SharedPcs, Inherited
  <2>2. QED BY <1>2, <2>1, SealedLocally DEF Claim, TypeOK
<1>3. ASSUME NEW t \in Threads, OpenFile(t) PROVE Sealed'
  <2>1. PICK fd \in Fds : /\ tab' = [tab EXCEPT ![fd] = nfiles + 1]
                          /\ raw' = [raw EXCEPT ![t] = <<fd>>]
                          /\ cloexec' = cloexec \ {fd}
    BY <1>3 DEF OpenFile
  <2>2. Exposes(t) = {} /\ pc'[t] = "off" /\ raw'[t] = <<fd>>
    BY <1>3, <2>1 DEF OpenFile, Exposes, SharedPcs, TypeOK
  <2>3. Exposes(t)' = {fd}
    BY <2>2 DEF Exposes, SharedPcs, Range
  <2>4. Inherited' \subseteq Inherited \union {fd}
    BY <2>1 DEF Inherited, TypeOK
  <2>5. QED BY <1>3, <2>1, <2>2, <2>3, <2>4, SealedLocally DEF OpenFile, TypeOK
<1>4. ASSUME NEW t \in Threads, MakePipe(t) PROVE Sealed'
  <2>1. PICK r, w \in Fds :
           /\ tab' = [tab EXCEPT ![r] = nfiles + 1, ![w] = nfiles + 2]
           /\ raw' = [raw EXCEPT ![t] = <<r, w>>]
           /\ cloexec' = cloexec \ {r, w}
    BY <1>4 DEF MakePipe
  <2>2. Exposes(t) = {} /\ pc'[t] = "off" /\ raw'[t] = <<r, w>>
    BY <1>4, <2>1 DEF MakePipe, Exposes, SharedPcs, TypeOK
  <2>3. Exposes(t)' = {r, w}
    <3>1. Range(<<r, w>>) = {r, w}
      BY DEF Range
    <3>2. QED BY <2>2, <3>1 DEF Exposes, SharedPcs
  <2>4. Inherited' \subseteq Inherited \union {r, w}
    BY <2>1 DEF Inherited, TypeOK
  <2>5. QED BY <1>4, <2>1, <2>2, <2>3, <2>4, SealedLocally DEF MakePipe, TypeOK
<1>5. ASSUME NEW t \in Threads, Dup(t) PROVE Sealed'
  <2>1. PICK fd \in Fds : /\ tab' = [tab EXCEPT ![fd] = tab[Head(raw[t])]]
                          /\ cloexec' = cloexec \ {fd}
                          /\ raw' = [raw EXCEPT ![t] = <<fd>> \o Tail(@)]
    BY <1>5 DEF Dup
  <2>2. /\ pc[t] \in SharedPcs /\ pc'[t] \in SharedPcs
        /\ raw[t] \in Seq(Fds) /\ raw[t] # <<>> /\ Head(raw[t]) \in Stdio
        /\ raw'[t] = <<fd>> \o Tail(raw[t])
    BY <1>5, <2>1 DEF Dup, AtRaw, SharedPcs, TypeOK
  <2>3. Exposes(t) = Range(raw[t]) /\ Exposes(t)' = Range(raw'[t])
    BY <2>2 DEF Exposes, SharedPcs
  <2>4. \A x \in Exposes(t) : x \in Exposes(t)' \/ x \in Stdio
    BY <2>2, <2>3, HeadOrTail, NewHead
  <2>5. Inherited' \subseteq Inherited \union {fd} /\ fd \in Exposes(t)'
    BY <2>1, <2>2, <2>3, NewHead DEF Inherited, TypeOK
  <2>6. QED BY <1>5, <2>1, <2>4, <2>5, SealedLocally DEF Dup, TypeOK, Stdio
<1>6. ASSUME NEW t \in Threads, DupFails(t) PROVE Sealed'
  <2>1. /\ pc[t] \in SharedPcs /\ pc'[t] \in SharedPcs
        /\ raw[t] \in Seq(Fds) /\ raw[t] # <<>> /\ Head(raw[t]) \in Stdio
        /\ raw'[t] = Tail(raw[t])
    BY <1>6 DEF DupFails, AtRaw, SharedPcs, TypeOK
  <2>2. Exposes(t) = Range(raw[t]) /\ Exposes(t)' = Range(raw'[t])
    BY <2>1 DEF Exposes, SharedPcs
  <2>3. \A x \in Exposes(t) : x \in Exposes(t)' \/ x \in Stdio
    BY <2>1, <2>2, HeadOrTail
  <2>4. Inherited' = Inherited
    BY <1>6 DEF DupFails, Inherited
  <2>5. QED BY <1>6, <2>3, <2>4, SealedLocally DEF DupFails, TypeOK, Stdio
<1>7. ASSUME NEW t \in Threads, Seal(t) PROVE Sealed'
  <2>1. /\ pc[t] \in SharedPcs /\ pc'[t] \in SharedPcs
        /\ raw[t] \in Seq(Fds) /\ raw[t] # <<>>
    BY <1>7 DEF Seal, AtRaw, SharedPcs, TypeOK, CallInv
  <2>2. Exposes(t) = Range(raw[t]) /\ Exposes(t)' = Range(raw'[t])
    BY <2>1 DEF Exposes, SharedPcs
  <2>3. raw'[t] = raw[t] \/ raw'[t] = Tail(raw[t])
    BY <1>7 DEF Seal, TypeOK
  <2>4. \A x \in Exposes(t) : x \in Exposes(t)' \/ x = Head(raw[t])
    BY <2>1, <2>2, <2>3, HeadOrTail
  <2>5. Inherited' \subseteq Inherited /\ Head(raw[t]) \notin Inherited'
    BY <1>7 DEF Seal, Inherited
  <2>6. \A u \in Threads \ {t} : raw'[u] = raw[u]
    BY <1>7 DEF Seal, TypeOK
  <2>7. \A u \in Threads \ {t} : pc'[u] = pc[u] /\ call'[u] = call[u]
                                                /\ pend'[u] = pend[u]
    BY <1>7 DEF Seal, TypeOK
  <2>8. QED BY <2>4, <2>5, <2>6, <2>7, SealedLocally DEF Stdio
<1>8. ASSUME NEW t \in Threads, CloseHeld(t) PROVE Sealed'
  <2>1. Exposes(t)' = Exposes(t)
    BY <1>8 DEF CloseHeld, Exposes
  <2>2. Inherited' \subseteq Inherited
    BY <1>8 DEF CloseHeld, Inherited, TypeOK
  <2>3. QED BY <1>8, <2>1, <2>2, SealedLocally DEF CloseHeld, TypeOK, Stdio
<1>9. ASSUME NEW t \in Threads, CloseGot(t) PROVE Sealed'
  <2>1. Exposes(t)' = Exposes(t)
    BY <1>9 DEF CloseGot, Exposes
  <2>2. Inherited' \subseteq Inherited
    BY <1>9 DEF CloseGot, Inherited, TypeOK
  <2>3. QED BY <1>9, <2>1, <2>2, SealedLocally DEF CloseGot, TypeOK, Stdio
<1>10. ASSUME NEW t \in Threads, Return(t) PROVE Sealed'
  <2>1. Exposes(t) = {}
    BY <1>10 DEF Return, Exposes, SharedPcs, Range
  <2>2. Inherited' = Inherited
    BY <1>10 DEF Return, Inherited
  <2>3. QED BY <1>10, <2>1, <2>2, SealedLocally DEF Return, TypeOK, Stdio
<1>11. ASSUME NEW t \in Threads, NEW fd \in Fds, Close(t, fd) PROVE Sealed'
  <2>1. Exposes(t) = {}
    BY <1>11 DEF Close, Exposes, SharedPcs
  <2>2. Inherited' \subseteq Inherited
    BY <1>11 DEF Close, Inherited, TypeOK
  <2>3. QED BY <1>11, <2>1, <2>2, SealedLocally DEF Close, TypeOK, Stdio
<1>12. ASSUME NEW t \in Threads, NEW dst \in Fds, NEW src \in Fds,
              NEW move \in BOOLEAN, CopyTo(t, dst, src, move)
       PROVE  Sealed'
  <2>1. Exposes(t) = {}
    BY <1>12 DEF CopyTo, Exposes, SharedPcs
  <2>2. pc'[t] = "flag" /\ raw'[t] = <<dst>>
    BY <1>12 DEF CopyTo, TypeOK
  <2>3. Exposes(t)' = {dst}
    BY <2>2 DEF Exposes, SharedPcs
  <2>4. Inherited' \subseteq Inherited \union {dst}
    BY <1>12 DEF CopyTo, Inherited, TypeOK
  <2>5. QED BY <1>12, <2>1, <2>3, <2>4, SealedLocally DEF CopyTo, TypeOK, Stdio
<1>13. ASSUME NEW t \in Threads, SetFlag(t) PROVE Sealed'
  <2>1. Exposes(t) = {Head(raw[t])}
    BY <1>13 DEF SetFlag, Exposes, SharedPcs
  <2>2. Inherited' \subseteq (Inherited \ {Head(raw[t])}) \union Stdio
    BY <1>13 DEF SetFlag, Inherited
  <2>3. QED BY <1>13, <2>1, <2>2, SealedLocally DEF SetFlag, TypeOK, Stdio
<1>14. ASSUME NEW t \in Threads, NEW c \in Calls(t), BeginSpawn(t, c)
       PROVE  Sealed'
  <2>1. Exposes(t) = {} /\ Inherited' = Inherited
    BY <1>14 DEF BeginSpawn, Exposes, SharedPcs, Inherited
  <2>2. QED BY <1>14, <2>1, SealedLocally DEF BeginSpawn, TypeOK, Stdio
<1>15. ASSUME NEW t \in Threads, InheritFd(t) PROVE Sealed'
  <2>1. PICK fd \in pend[t] : cloexec' = cloexec \ {fd}
    BY <1>15 DEF InheritFd
  <2>2. Exposes(t) = call[t].inh /\ Exposes(t)' = call[t].inh
    BY <1>15 DEF InheritFd, Exposes, SharedPcs
  <2>3. fd \in Exposes(t)'
    BY <1>15, <2>1, <2>2 DEF InheritFd, CallInv
  <2>4. Inherited' \subseteq Inherited \union {fd}
    BY <1>15, <2>1 DEF InheritFd, Inherited
  <2>5. QED
    BY <1>15, <2>2, <2>3, <2>4, SealedLocally DEF InheritFd, TypeOK, Stdio
<1>16. ASSUME NEW t \in Threads, SetupStdin(t) PROVE Sealed'
  <2>1. Exposes(t) = call[t].inh /\ Exposes(t)' = call[t].inh
    BY <1>16 DEF SetupStdin, Exposes, SharedPcs, TypeOK
  <2>2. Inherited' \subseteq Inherited \union {0}
    BY <1>16 DEF SetupStdin, Inherited, TypeOK
  <2>3. QED BY <1>16, <2>1, <2>2, SealedLocally DEF SetupStdin, TypeOK, Stdio
<1>17. ASSUME NEW t \in Threads, SetupStdout(t) PROVE Sealed'
  <2>1. Exposes(t) = call[t].inh /\ Exposes(t)' = call[t].inh
    BY <1>17 DEF SetupStdout, Exposes, SharedPcs, TypeOK
  <2>2. Inherited' \subseteq Inherited \union {1}
    BY <1>17 DEF SetupStdout, Inherited, TypeOK
  <2>3. QED BY <1>17, <2>1, <2>2, SealedLocally DEF SetupStdout, TypeOK, Stdio
<1>18. ASSUME NEW t \in Threads, SetupFails(t) PROVE Sealed'
  <2>1. Exposes(t) = call[t].inh
    BY <1>18 DEF SetupFails, Exposes, SharedPcs
  <2>2. Exposes(t)' = call[t].inh
    BY <1>18 DEF SetupFails, Exposes, SharedPcs, TypeOK
  <2>3. Inherited' = Inherited
    BY <1>18 DEF SetupFails, Inherited
  <2>4. QED
    BY <1>18, <2>1, <2>2, <2>3, SealedLocally DEF SetupFails, TypeOK, Stdio
<1>19. ASSUME NEW t \in Threads, ForkAndCleanup(t) PROVE Sealed'
  <2>1. Exposes(t) = call[t].inh /\ Exposes(t)' = call[t].inh
    BY <1>19 DEF ForkAndCleanup, Exposes, SharedPcs, TypeOK
  <2>2. Inherited' \subseteq Inherited
    BY <1>19 DEF ForkAndCleanup, Inherited, TypeOK
  <2>3. QED
    BY <1>19, <2>1, <2>2, SealedLocally DEF ForkAndCleanup, TypeOK, Stdio
<1>20. ASSUME NEW t \in Threads, DropFd(t) PROVE Sealed'
  <2>1. PICK fd \in pend[t] :
           /\ \/ tab' = tab /\ cloexec' = cloexec \union {fd}
              \/ tab' = [tab EXCEPT ![fd] = Free] /\ cloexec' = cloexec \ {fd}
           /\ pend' = [pend EXCEPT ![t] = @ \ {fd}]
    BY <1>20 DEF DropFd
  <2>2. Exposes(t) = pend[t] /\ Exposes(t)' = pend[t] \ {fd}
    BY <1>20, <2>1 DEF DropFd, Exposes, SharedPcs, TypeOK
  <2>3. Inherited' \subseteq Inherited \ {fd}
    BY <2>1 DEF Inherited, TypeOK
  <2>4. QED
    BY <1>20, <2>1, <2>2, <2>3, SealedLocally DEF DropFd, TypeOK, Stdio
<1>21. ASSUME NEW t \in Threads, EndSpawn(t) PROVE Sealed'
  <2>1. Exposes(t) = {} /\ Inherited' = Inherited
    BY <1>21 DEF EndSpawn, Exposes, SharedPcs, Inherited
  <2>2. QED BY <1>21, <2>1, SealedLocally DEF EndSpawn, TypeOK, Stdio
<1> HIDE DEF IInv
<1>22. QED
  BY <1>1, <1>2, <1>3, <1>4, <1>5, <1>6, <1>7, <1>8, <1>9, <1>10, <1>11,
     <1>12, <1>13, <1>14, <1>15, <1>16, <1>17, <1>18, <1>19, <1>20, <1>21
     DEF Next, CreateStep, CopyStep, SpawnStep

-----------------------------------------------------------------------------
(* The theorems. *)

(***************************************************************************)
(* The inductive invariant holds in every reachable state.                 *)
(***************************************************************************)
THEOREM InvCorrect == Spec => []IInv
<1>1. Init => IInv
  BY TypeInit, LockInit, SealedInit DEF IInv
<1>2. IInv /\ [Next]_vars => IInv'
  BY TypeStep, LockStep, SealedStep DEF IInv
<1>3. QED BY <1>1, <1>2, PTL DEF Spec

(***************************************************************************)
(* Descriptors, files and the sections of the lock have the types that the *)
(* calls of compat/fd.c rely on; close() is never called with -1.          *)
(***************************************************************************)
THEOREM TypeCorrect == Spec => []TypeOK
<1>1. IInv => TypeOK
  BY DEF IInv
<1>2. QED BY <1>1, InvCorrect, PTL

(***************************************************************************)
(* A program spawned by fildesh_compat_fd_spawnvp() inherits nothing above *)
(* standard error but what the caller listed, whatever the other threads   *)
(* are opening, copying and closing meanwhile.                             *)
(***************************************************************************)
THEOREM NothingLeaks == Spec => []NoLeak
<1>1. IInv => NoLeak
  <2> SUFFICES ASSUME IInv, NEW t \in Threads, pc[t] = "fork",
                      NEW fd \in Inherited \ Stdio
               PROVE  fd \in call[t].inh
    BY DEF NoLeak
  <2>1. PICK u \in Threads : fd \in Exposes(u)
    BY DEF IInv, Sealed
  <2>2. t \in writers /\ readers = {}
    BY DEF IInv, LockInv, ExclusivePcs
  <2>3. pc[u] \in ExclusivePcs
    BY <2>1, <2>2 DEF IInv, LockInv, Exposes, ExclusivePcs
  <2>4. u = t
    BY <2>2, <2>3 DEF IInv, LockInv
  <2>5. QED BY <2>1, <2>4 DEF Exposes, SharedPcs
<1>2. QED BY <1>1, InvCorrect, PTL

-----------------------------------------------------------------------------
(***************************************************************************)
(* No two threads ever use the same descriptor and each one that is used   *)
(* is open, a spawned program gets the streams its caller meant, and no    *)
(* descriptor stays open without an owner.                                 *)
(*                                                                         *)
(* The invariant adds to the one above what a call in progress works on:   *)
(* that its parts do not overlap, and how far a spawn has got with the     *)
(* streams of its child.                                                   *)
(***************************************************************************)
SpawnPcs == {"inherit", "stdout", "fork", "drop"}

(* No other thread uses fd. *)
Alone(t, fd) == \A u \in Threads \ {t} : fd \notin Uses(u)

(* What a thread has in hand at each place. *)
Shape(t) ==
  /\ pc[t] \notin SharedPcs => held[t] = <<>> /\ got[t] = {}
  /\ pc[t] \notin SharedPcs \union {"flag"} => raw[t] = <<>>
  /\ pc[t] = "flag" => Len(raw[t]) = 1

(* The parts of what a thread uses do not overlap; held has low numbers    *)
(* only, and a call returns none.                                          *)
Apart(t) ==
  /\ own[t] \intersect Range(raw[t]) = {}
  /\ own[t] \intersect Range(held[t]) = {}
  /\ own[t] \intersect got[t] = {}
  /\ Range(raw[t]) \intersect Range(held[t]) = {}
  /\ Range(raw[t]) \intersect got[t] = {}
  /\ own[t] \intersect SpawnUses(t) = {}
  /\ IsInjective(raw[t]) /\ IsInjective(held[t])
  /\ Range(held[t]) \subseteq Stdio /\ got[t] \intersect Stdio = {}

(* The arguments of a spawn: each descriptor has one role.                 *)
CallShape(t) ==
  pc[t] \in SpawnPcs =>
    /\ call[t].in \notin {1, 2} /\ call[t].out # 0
    /\ call[t].in = call[t].out => call[t].in = -1
    /\ call[t].inh \intersect Stdio = {}
    /\ call[t].in \notin call[t].inh /\ call[t].out \notin call[t].inh
    /\ call[t].keep \subseteq call[t].inh
    /\ pend[t] \subseteq call[t].inh

Local(t) == Shape(t) /\ Apart(t) /\ CallShape(t)

(* While a spawn sets up standard input and output, nobody else has them.  *)
Quiet(t) ==
  pc[t] \in {"inherit", "stdout", "fork"} =>
    \A u \in Threads :
      own[u] \intersect Stdio \subseteq (IF u = t THEN {call[t].in, call[t].out} ELSE {})

(* How far a spawn has got: what it was called with is still there, or is  *)
(* in its place already.                                                   *)
Meant(t) ==
  pc[t] \in {"inherit", "stdout", "fork"} =>
    /\ \A fd \in call[t].inh :
          /\ tab[fd] = snap[t][fd]
          /\ fd \in cloexec => pc[t] = "inherit" /\ fd \in pend[t]
    /\ pc[t] = "inherit" /\ call[t].in # -1 => tab[call[t].in] = snap[t][call[t].in]
    /\ pc[t] # "inherit" =>
         tab[0] = IF call[t].in = -1 THEN Empty ELSE snap[t][call[t].in]
    /\ pc[t] # "fork" /\ call[t].out \notin {-1, 2} =>
         tab[call[t].out] = snap[t][call[t].out]
    /\ pc[t] = "fork" =>
         tab[1] = IF call[t].out = -1 THEN Empty
                  ELSE IF call[t].out = 2 THEN 3 ELSE snap[t][call[t].out]

(* Standard error stays what it is and is used by no call. *)
Stderr == tab[2] = 3 /\ \A t \in Threads : 2 \notin Uses(t)

(* Somebody uses each open descriptor, or a failed spawn has left it.      *)
Accounted ==
  \A fd \in Fds \ {2} : tab[fd] # Free => fd \in lost \/ \E t \in Threads : fd \in Uses(t)

UInv ==
  /\ UsedOnce /\ Stderr /\ Accounted
  /\ \A t \in Threads : Local(t) /\ Quiet(t) /\ Meant(t)

-----------------------------------------------------------------------------
(* Sequences. *)

(* A sequence without repetitions has its head in front only. *)
LEMMA InjectiveTail ==
  ASSUME NEW S, NEW s \in Seq(S), s # <<>>, IsInjective(s)
  PROVE  /\ Head(s) \in Range(s) /\ Head(s) \notin Range(Tail(s))
         /\ Range(s) = {Head(s)} \union Range(Tail(s))
         /\ IsInjective(Tail(s)) /\ Tail(s) \in Seq(S)
<1>1. /\ Tail(s) \in Seq(S) /\ Len(Tail(s)) = Len(s) - 1 /\ Len(s) \in Nat \ {0}
      /\ \A i \in 1..Len(Tail(s)) : Tail(s)[i] = s[i + 1]
  BY HeadTailProperties, EmptySeq
<1>2. /\ Range(s) = {s[j] : j \in 1..Len(s)} /\ DOMAIN s = 1..Len(s)
      /\ Range(Tail(s)) = {Tail(s)[j] : j \in 1..Len(Tail(s))}
      /\ DOMAIN Tail(s) = 1..Len(Tail(s))
  BY <1>1, RangeEquality, LenProperties
<1>3. Head(s) = s[1] /\ 1 \in 1..Len(s)
  BY <1>1
<1>4. \A i \in 1..Len(Tail(s)) : i + 1 \in 1..Len(s) /\ i + 1 # 1
  BY <1>1
<1>5. Head(s) \notin Range(Tail(s))
  <2> SUFFICES ASSUME NEW i \in 1..Len(Tail(s)), Tail(s)[i] = Head(s) PROVE FALSE
    BY <1>2
  <2>1. s[i + 1] = s[1]
    BY <1>1, <1>3
  <2>2. QED BY <1>2, <1>3, <1>4, <2>1 DEF IsInjective
<1>6. IsInjective(Tail(s))
  <2> SUFFICES ASSUME NEW i \in 1..Len(Tail(s)), NEW j \in 1..Len(Tail(s)),
                      Tail(s)[i] = Tail(s)[j]
               PROVE  i = j
    BY <1>2 DEF IsInjective
  <2>1. s[i + 1] = s[j + 1]
    BY <1>1
  <2>2. i + 1 = j + 1
    BY <1>2, <1>4, <2>1 DEF IsInjective
  <2>3. QED BY <2>2, <1>1
<1>7. Range(s) = {Head(s)} \union Range(Tail(s))
  <2>1. \A x \in Range(Tail(s)) : x \in Range(s)
    BY <1>1, <1>2, <1>4
  <2>2. \A x \in Range(s) : x = Head(s) \/ x \in Range(Tail(s))
    BY HeadOrTail
  <2>3. QED BY <1>2, <1>3, <2>1, <2>2
<1>8. QED BY <1>1, <1>2, <1>3, <1>5, <1>6, <1>7

(* A new head keeps it that way, *)
LEMMA InjectiveHead ==
  ASSUME NEW S, NEW s \in Seq(S), IsInjective(s), NEW h \in S, h \notin Range(s)
  PROVE  /\ IsInjective(<<h>> \o s)
         /\ Range(<<h>> \o s) = {h} \union Range(s)
<1> DEFINE r == <<h>> \o s
<1>1. /\ r \in Seq(S) /\ Len(r) = 1 + Len(s) /\ Len(s) \in Nat
      /\ r[1] = h /\ \A i \in 2..Len(r) : r[i] = s[i - 1]
  OBVIOUS
<1> HIDE DEF r
<1>2. /\ Range(s) = {s[j] : j \in 1..Len(s)} /\ DOMAIN s = 1..Len(s)
      /\ Range(r) = {r[j] : j \in 1..Len(r)} /\ DOMAIN r = 1..Len(r)
  BY <1>1, RangeEquality, LenProperties
<1>3. \A i \in 1..Len(r) : i = 1 \/ (i \in 2..Len(r) /\ i - 1 \in 1..Len(s))
  BY <1>1
<1>4. \A j \in 1..Len(s) : j + 1 \in 2..Len(r) /\ j + 1 \in 1..Len(r) /\ (j + 1) - 1 = j
  BY <1>1
<1>5. Range(r) = {h} \union Range(s)
  <2>1. \A x \in Range(r) : x \in {h} \union Range(s)
    BY <1>1, <1>2, <1>3
  <2>2. \A j \in 1..Len(s) : r[j + 1] = s[j]
    BY <1>1, <1>4
  <2>3. \A x \in Range(s) : x \in Range(r)
    BY <1>2, <1>4, <2>2
  <2>4. 1 \in 1..Len(r)
    BY <1>1
  <2>5. QED BY <1>1, <1>2, <2>1, <2>3, <2>4
<1>6. IsInjective(r)
  <2> SUFFICES ASSUME NEW i \in 1..Len(r), NEW j \in 1..Len(r), r[i] = r[j]
               PROVE  i = j
    BY <1>2 DEF IsInjective
  <2>1. \A k \in 2..Len(r) : r[k] # h
    BY <1>1, <1>2, <1>3
  <2>2. CASE i = 1 \/ j = 1
    BY <1>1, <1>3, <2>1, <2>2
  <2>3. CASE i # 1 /\ j # 1
    <3>1. /\ i \in 2..Len(r) /\ i - 1 \in 1..Len(s)
          /\ j \in 2..Len(r) /\ j - 1 \in 1..Len(s)
      BY <1>3, <2>3
    <3>2. s[i - 1] = s[j - 1]
      BY <1>1, <3>1
    <3>3. i - 1 = j - 1
      BY <1>2, <3>1, <3>2 DEF IsInjective
    <3>4. QED BY <3>1, <3>3
  <2>4. QED BY <2>2, <2>3
<1>7. QED BY <1>5, <1>6 DEF r

(* and so does a new last member. *)
LEMMA InjectiveAppend ==
  ASSUME NEW S, NEW s \in Seq(S), IsInjective(s), NEW h \in S, h \notin Range(s)
  PROVE  /\ IsInjective(Append(s, h))
         /\ Range(Append(s, h)) = Range(s) \union {h}
<1> DEFINE r == Append(s, h)
<1>1. /\ r \in Seq(S) /\ Len(r) = Len(s) + 1 /\ Len(s) \in Nat
      /\ r[Len(s) + 1] = h /\ \A i \in 1..Len(s) : r[i] = s[i]
  OBVIOUS
<1> HIDE DEF r
<1>2. /\ Range(s) = {s[j] : j \in 1..Len(s)} /\ DOMAIN s = 1..Len(s)
      /\ Range(r) = {r[j] : j \in 1..Len(r)} /\ DOMAIN r = 1..Len(r)
  BY <1>1, RangeEquality, LenProperties
<1>3. 1..Len(r) = (1..Len(s)) \union {Len(s) + 1}
  BY <1>1
<1>4. Range(r) = Range(s) \union {h}
  BY <1>1, <1>2, <1>3
<1>5. \A i \in 1..Len(s) : r[i] # h
  BY <1>1, <1>2
<1>6. IsInjective(r)
  BY <1>1, <1>2, <1>3, <1>5 DEF IsInjective
<1>7. QED BY <1>4, <1>6 DEF r

(* Sequences of one and two. *)
LEMMA ShortSequences ==
  /\ Range(<<>>) = {} /\ IsInjective(<<>>)
  /\ \A x : Range(<<x>>) = {x} /\ IsInjective(<<x>>)
  /\ \A x, y : x # y => Range(<<x, y>>) = {x, y} /\ IsInjective(<<x, y>>)
BY DEF Range, IsInjective

LEMMA SingleSequence ==
  ASSUME NEW S, NEW s \in Seq(S), Len(s) = 1
  PROVE  Range(s) = {Head(s)} /\ Head(s) \in S
<1>1. s # <<>> /\ Head(s) = s[1]
  OBVIOUS
<1>2. Head(s) \in S
  BY <1>1, HeadTailProperties
<1>3. QED BY <1>1, <1>2, RangeEquality

-----------------------------------------------------------------------------
(* What a step of one thread leaves alone. *)

Step(t) == CreateStep(t) \/ CopyStep(t) \/ SpawnStep(t)

(* The other threads stay where they are, with what they have. *)
Frame(t) ==
  \A u \in Threads \ {t} :
    /\ pc'[u] = pc[u] /\ own'[u] = own[u] /\ raw'[u] = raw[u]
    /\ held'[u] = held[u] /\ got'[u] = got[u]
    /\ call'[u] = call[u] /\ pend'[u] = pend[u] /\ snap'[u] = snap[u]

LEMMA FrameStep ==
  ASSUME TypeOK, NEW t \in Threads, Step(t)
  PROVE  Frame(t)
<1> USE DEF TypeOK, Frame, tableVars, lockVars, createVars, spawnVars
<1>1. ASSUME NEW fd \in Fds, Claim(t, fd) PROVE Frame(t)
  BY <1>1 DEF Claim
<1>2. ASSUME NEW fd \in Fds, Close(t, fd) PROVE Frame(t)
  BY <1>2 DEF Close
<1>3. CASE OpenFile(t)
  BY <1>3 DEF OpenFile
<1>4. CASE MakePipe(t)
  BY <1>4 DEF MakePipe
<1>5. CASE Dup(t)
  BY <1>5 DEF Dup
<1>6. CASE DupFails(t)
  BY <1>6 DEF DupFails
<1>7. CASE Seal(t)
  <2>1. /\ raw' = raw \/ raw' = [raw EXCEPT ![t] = Tail(@)]
        /\ got' = got \/ got' = [got EXCEPT ![t] = @ \union {Head(raw[t])}]
        /\ pc' = [pc EXCEPT ![t] = "off"] \/ pc' = [pc EXCEPT ![t] = "close"]
        /\ UNCHANGED <<own, held, call, pend, snap>>
    BY <1>7 DEF Seal
  <2>2. QED BY <2>1
<1>8. CASE CloseHeld(t)
  BY <1>8 DEF CloseHeld
<1>9. CASE CloseGot(t)
  BY <1>9 DEF CloseGot
<1>10. CASE Return(t)
  BY <1>10 DEF Return
<1>11. ASSUME NEW dst \in Fds, NEW src \in Fds, NEW move \in BOOLEAN,
              CopyTo(t, dst, src, move)
       PROVE  Frame(t)
  BY <1>11 DEF CopyTo
<1>12. CASE SetFlag(t)
  BY <1>12 DEF SetFlag
<1>13. ASSUME NEW c \in Calls(t), BeginSpawn(t, c) PROVE Frame(t)
  BY <1>13 DEF BeginSpawn
<1>14. CASE InheritFd(t)
  BY <1>14 DEF InheritFd
<1>15. CASE SetupStdin(t)
  BY <1>15 DEF SetupStdin
<1>16. CASE SetupStdout(t)
  BY <1>16 DEF SetupStdout
<1>17. CASE SetupFails(t)
  BY <1>17 DEF SetupFails
<1>18. CASE ForkAndCleanup(t)
  BY <1>18 DEF ForkAndCleanup
<1>19. CASE DropFd(t)
  BY <1>19 DEF DropFd
<1>20. CASE EndSpawn(t)
  BY <1>20 DEF EndSpawn
<1> HIDE DEF TypeOK, Frame
<1>21. QED
  BY <1>1, <1>2, <1>3, <1>4, <1>5, <1>6, <1>7, <1>8, <1>9, <1>10, <1>11,
     <1>12, <1>13, <1>14, <1>15, <1>16, <1>17, <1>18, <1>19, <1>20
     DEF Step, CreateStep, CopyStep, SpawnStep

(* So they use what they used. *)
LEMMA FrameUses ==
  ASSUME NEW t, Frame(t), NEW u \in Threads \ {t}
  PROVE  /\ Uses(u)' = Uses(u)
         /\ Local(u) => Local(u)'
<1>1. /\ pc'[u] = pc[u] /\ own'[u] = own[u] /\ raw'[u] = raw[u]
      /\ held'[u] = held[u] /\ got'[u] = got[u]
      /\ call'[u] = call[u] /\ pend'[u] = pend[u] /\ snap'[u] = snap[u]
  BY DEF Frame
<1>2. SpawnUses(u)' = SpawnUses(u)
  BY <1>1 DEF SpawnUses, Placed
<1>3. Uses(u)' = Uses(u)
  BY <1>1, <1>2 DEF Uses
<1>4. /\ Shape(u) => Shape(u)'
      /\ Apart(u) => Apart(u)'
      /\ CallShape(u) => CallShape(u)'
  BY <1>1, <1>2 DEF Shape, Apart, CallShape
<1>5. QED BY <1>3, <1>4 DEF Local

(* While one thread spawns a program, the others do nothing but close. *)
LEMMA OthersOnlyClose ==
  ASSUME TypeOK, LockInv, NEW t \in Threads, pc[t] \in SpawnPcs,
         NEW u \in Threads \ {t}, Step(u)
  PROVE  \E fd \in Fds : Close(u, fd)
<1>1. t \in writers /\ readers = {} /\ u \notin writers
  BY DEF LockInv, ExclusivePcs, SpawnPcs
<1>2. pc[u] \notin SharedPcs /\ pc[u] \notin ExclusivePcs
  BY <1>1 DEF LockInv
<1>3. \A fd \in Fds : ~Claim(u, fd)
  BY <1>1 DEF Claim, EnterShared
<1>4. ~OpenFile(u) /\ ~MakePipe(u)
  BY <1>1 DEF OpenFile, MakePipe, EnterShared
<1>5. ~Dup(u) /\ ~DupFails(u) /\ ~Seal(u) /\ ~CloseHeld(u) /\ ~CloseGot(u) /\ ~Return(u)
  BY <1>2 DEF Dup, DupFails, Seal, CloseHeld, CloseGot, Return, AtRaw, SharedPcs
<1>6. /\ \A dst, src \in Fds, move \in BOOLEAN : ~CopyTo(u, dst, src, move)
      /\ \A c \in Calls(u) : ~BeginSpawn(u, c)
  BY <1>1 DEF CopyTo, BeginSpawn, EnterExclusive
<1>7. /\ ~SetFlag(u) /\ ~InheritFd(u) /\ ~SetupStdin(u) /\ ~SetupStdout(u)
      /\ ~SetupFails(u) /\ ~ForkAndCleanup(u) /\ ~DropFd(u) /\ ~EndSpawn(u)
  BY <1>2 DEF SetFlag, InheritFd, SetupStdin, SetupStdout, SetupFails,
              ForkAndCleanup, DropFd, EndSpawn, ExclusivePcs
<1>8. QED
  BY <1>3, <1>4, <1>5, <1>6, <1>7 DEF Step, CreateStep, CopyStep, SpawnStep

-----------------------------------------------------------------------------
(* What a thread uses. *)

(* The parts of a spawn, now and in the next state. *)
LEMMA SpawnUsesFacts ==
  ASSUME NEW t
  PROVE  /\ pc[t] \notin SpawnPcs => SpawnUses(t) = {}
         /\ pc[t] = "inherit" =>
              SpawnUses(t) = call[t].inh \union ({call[t].in, call[t].out} \ (-1..2))
         /\ pc[t] = "stdout" =>
              SpawnUses(t) = call[t].inh \union ({call[t].out} \ (-1..2))
                               \union (Placed(t) \ {1})
         /\ pc[t] = "fork" => SpawnUses(t) = call[t].inh \union Placed(t)
         /\ pc[t] = "drop" => SpawnUses(t) = call[t].keep \union pend[t]
         /\ pc'[t] \notin SpawnPcs => SpawnUses(t)' = {}
         /\ pc'[t] = "inherit" =>
              SpawnUses(t)' = call'[t].inh \union ({call'[t].in, call'[t].out} \ (-1..2))
         /\ pc'[t] = "stdout" =>
              SpawnUses(t)' = call'[t].inh \union ({call'[t].out} \ (-1..2))
                                \union (Placed(t)' \ {1})
         /\ pc'[t] = "fork" => SpawnUses(t)' = call'[t].inh \union Placed(t)'
         /\ pc'[t] = "drop" => SpawnUses(t)' = call'[t].keep \union pend'[t]
BY DEF SpawnUses, SpawnPcs

LEMMA UsesAreFds ==
  ASSUME TypeOK, NEW t \in Threads
  PROVE  Uses(t) \subseteq Fds
<1>1. Range(raw[t]) \subseteq Fds /\ Range(held[t]) \subseteq Fds
  <2>1. raw[t] \in Seq(Fds) /\ held[t] \in Seq(Fds)
    BY DEF TypeOK
  <2>2. QED BY <2>1, RangeEquality, ElementOfSeq
<1>2. SpawnUses(t) \subseteq Fds
  <2>1. /\ call[t].in \in -1..MaxFd /\ call[t].out \in -1..MaxFd
        /\ call[t].inh \subseteq Fds /\ call[t].keep \subseteq Fds /\ pend[t] \subseteq Fds
    BY DEF TypeOK
  <2>2. Placed(t) \subseteq Fds
    BY FdsFacts DEF Placed
  <2>3. {call[t].in, call[t].out} \ (-1..2) \subseteq Fds
    BY <2>1 DEF Fds
  <2>4. QED BY <2>1, <2>2, <2>3, SpawnUsesFacts DEF SpawnUses
<1>3. QED BY <1>1, <1>2 DEF Uses, TypeOK

(* What is used is open, above or below standard error, and nobody else's; *)
(* what is free is nobody's.                                               *)
LEMMA UsesFacts ==
  ASSUME UsedOnce, Stderr, NEW t \in Threads
  PROVE  /\ \A fd \in Uses(t) : tab[fd] # Free /\ Alone(t, fd) /\ fd # 2
         /\ \A fd : tab[fd] = Free => fd \notin Uses(t) /\ Alone(t, fd) /\ fd # 2
BY DEF UsedOnce, Stderr, Alone, Free

(* What every step of a thread keeps to, as far as descriptors go: what it *)
(* uses is open and had no other user; the entries of the table that it    *)
(* changes had no other user; what is open it uses or has lost, if it was  *)
(* its own; and within a call it changes nothing that it goes on to use.   *)
Disciplined(t) ==
  /\ \A fd \in Uses(t)' : /\ tab'[fd] # Free /\ fd # 2
                          /\ fd \in Uses(t) \/ Alone(t, fd)
  /\ tab'[2] = tab[2]
  /\ \A fd \in Fds : tab'[fd] # tab[fd] => Alone(t, fd)
  /\ \A fd \in Fds \ {2} : tab'[fd] # Free =>
        \/ fd \in Uses(t)' \union lost'
        \/ tab[fd] # Free /\ fd \notin Uses(t) \union lost
  /\ pc'[t] = pc[t] => \A fd \in Uses(t) \intersect Uses(t)' : tab'[fd] = tab[fd]

(* A step that only moves descriptors from one hand to the other. *)
LEMMA Keeps ==
  ASSUME UsedOnce, Stderr, NEW t \in Threads,
         UNCHANGED <<tab, lost>>, Uses(t)' = Uses(t)
  PROVE  Disciplined(t)
BY UsesFacts DEF Disciplined

(* A step that closes a descriptor. *)
LEMMA Drops ==
  ASSUME TypeOK, UsedOnce, Stderr, NEW t \in Threads, NEW x \in Uses(t),
         tab' = [tab EXCEPT ![x] = Free], lost' = lost, Uses(t)' = Uses(t) \ {x}
  PROVE  Disciplined(t)
<1>1. x # 2 /\ Alone(t, x)
  BY UsesFacts
<1>2. \A fd : fd # x => tab'[fd] = tab[fd]
  BY DEF TypeOK
<1>3. x \in Fds => tab'[x] = Free
  BY DEF TypeOK
<1>4. \A fd \in Uses(t)' : tab'[fd] # Free /\ fd # 2 /\ fd \in Uses(t)
  BY <1>2, UsesFacts
<1>5. QED BY <1>1, <1>2, <1>3, <1>4 DEF Disciplined

(* A step that makes descriptors. *)
LEMMA Adds ==
  ASSUME TypeOK, UsedOnce, Stderr, NEW t \in Threads, NEW S,
         \A fd \in S : tab[fd] = Free /\ tab'[fd] # Free,
         \A fd \in Fds : fd \notin S => tab'[fd] = tab[fd],
         lost' = lost, Uses(t)' = Uses(t) \union S
  PROVE  Disciplined(t)
<1>1. \A fd \in S : fd # 2 /\ Alone(t, fd)
  BY UsesFacts
<1>2. Uses(t) \subseteq Fds /\ 2 \in Fds
  BY UsesAreFds, FdsFacts
<1>3. \A fd \in Uses(t)' : /\ tab'[fd] # Free /\ fd # 2
                           /\ fd \in Uses(t) \/ Alone(t, fd)
  BY <1>1, <1>2, UsesFacts
<1>4. \A fd \in Uses(t) : fd \notin S
  BY UsesFacts
<1>5. QED BY <1>1, <1>2, <1>3, <1>4 DEF Disciplined

(* A step on to another place that changes the entries in S. *)
LEMMA Changes ==
  ASSUME TypeOK, TypeOK', UsedOnce, Stderr, NEW t \in Threads, NEW S, 2 \notin S,
         \A fd \in S : Alone(t, fd),
         \A fd \in S : tab'[fd] # Free <=> fd \in Uses(t)',
         \A fd \in Fds : fd \notin S =>
            /\ tab'[fd] = tab[fd]
            /\ fd \in Uses(t)' => fd \in Uses(t)
            /\ fd \in Uses(t) \union lost => fd \in Uses(t)' \union lost',
         Uses(t)' \subseteq Fds, pc'[t] # pc[t]
  PROVE  Disciplined(t)
<1>1. 2 \in Fds
  BY FdsFacts
<1>2. \A fd \in Uses(t)' : /\ tab'[fd] # Free /\ fd # 2
                           /\ fd \in Uses(t) \/ Alone(t, fd)
  <2> TAKE fd \in Uses(t)'
  <2>1. CASE fd \in S
    BY <2>1
  <2>2. CASE fd \notin S
    BY <2>2, UsesFacts
  <2>3. QED BY <2>1, <2>2
<1>3. \A fd \in Fds \ {2} : tab'[fd] # Free =>
        \/ fd \in Uses(t)' \union lost'
        \/ tab[fd] # Free /\ fd \notin Uses(t) \union lost
  OBVIOUS
<1>4. QED BY <1>1, <1>2, <1>3 DEF Disciplined

-----------------------------------------------------------------------------
(* The calls that create descriptors, and close(). *)

LEMMA CreateDisciplined ==
  ASSUME IInv, UInv, NEW t \in Threads, CreateStep(t)
  PROVE  Local(t)' /\ Disciplined(t)
<1>1. /\ TypeOK /\ CallInv /\ UsedOnce /\ Stderr /\ Shape(t) /\ Apart(t)
      /\ raw[t] \in Seq(Fds) /\ held[t] \in Seq(Fds)
  BY DEF IInv, UInv, Local, TypeOK
<1> USE DEF tableVars, lockVars, createVars, spawnVars
<1>2. ASSUME NEW fd \in Fds, Claim(t, fd) PROVE Local(t)' /\ Disciplined(t)
  <2>1. /\ pc[t] = "idle" /\ pc'[t] = "off" /\ fd \in own[t]
        /\ own'[t] = own[t] \ {fd} /\ raw'[t] = <<fd>>
        /\ held'[t] = <<>> /\ got'[t] = {} /\ UNCHANGED <<tab, lost>>
        /\ raw[t] = <<>> /\ held[t] = <<>> /\ got[t] = {}
    BY <1>1, <1>2 DEF Claim, TypeOK, Shape, SharedPcs
  <2>2. SpawnUses(t) = {} /\ SpawnUses(t)' = {}
    BY <2>1, SpawnUsesFacts DEF SpawnPcs
  <2>3. Uses(t)' = Uses(t)
    BY <2>1, <2>2, ShortSequences DEF Uses
  <2>4. Local(t)'
    BY <2>1, <2>2, ShortSequences DEF Local, Shape, Apart, CallShape, SharedPcs, SpawnPcs
  <2>5. QED BY <1>1, <2>1, <2>3, <2>4, Keeps
<1>3. ASSUME NEW fd \in Fds, Close(t, fd) PROVE Local(t)' /\ Disciplined(t)
  <2>1. /\ pc[t] = "idle" /\ pc'[t] = "idle" /\ fd \in own[t]
        /\ own'[t] = own[t] \ {fd} /\ raw'[t] = <<>>
        /\ held'[t] = <<>> /\ got'[t] = {}
        /\ tab' = [tab EXCEPT ![fd] = Free] /\ lost' = lost
        /\ raw[t] = <<>> /\ held[t] = <<>> /\ got[t] = {}
    BY <1>1, <1>3 DEF Close, TypeOK, Shape, SharedPcs
  <2>2. SpawnUses(t) = {} /\ SpawnUses(t)' = {}
    BY <2>1, SpawnUsesFacts DEF SpawnPcs
  <2>3. fd \in Uses(t) /\ Uses(t)' = Uses(t) \ {fd}
    BY <2>1, <2>2, ShortSequences DEF Uses
  <2>4. Local(t)'
    BY <2>1, <2>2, ShortSequences DEF Local, Shape, Apart, CallShape, SharedPcs, SpawnPcs
  <2>5. QED BY <1>1, <2>1, <2>3, <2>4, Drops
<1>4. CASE OpenFile(t)
  <2>1. PICK fd \in Fds : /\ tab[fd] = Free
                          /\ tab' = [tab EXCEPT ![fd] = nfiles + 1]
                          /\ raw' = [raw EXCEPT ![t] = <<fd>>]
    BY <1>4 DEF OpenFile, Lowest
  <2>2. /\ pc[t] = "idle" /\ pc'[t] = "off" /\ own'[t] = own[t]
        /\ raw'[t] = <<fd>> /\ held'[t] = <<>> /\ got'[t] = {}
        /\ raw[t] = <<>> /\ held[t] = <<>> /\ got[t] = {} /\ lost' = lost
    BY <1>1, <1>4, <2>1 DEF OpenFile, TypeOK, Shape, SharedPcs
  <2>3. SpawnUses(t) = {} /\ SpawnUses(t)' = {}
    BY <2>2, SpawnUsesFacts DEF SpawnPcs
  <2>4. Uses(t)' = Uses(t) \union {fd} /\ fd \notin Uses(t)
    BY <1>1, <2>1, <2>2, <2>3, ShortSequences, UsesFacts DEF Uses
  <2> DEFINE made == {fd}
  <2>5. /\ \A x \in made : tab[x] = Free /\ tab'[x] # Free
        /\ \A x \in Fds : x \notin made => tab'[x] = tab[x]
    BY <1>1, <2>1 DEF TypeOK, Free
  <2>6. Local(t)'
    BY <2>2, <2>3, <2>4, ShortSequences
       DEF Local, Shape, Apart, CallShape, SharedPcs, SpawnPcs, Uses
  <2>7. Uses(t)' = Uses(t) \union made /\ lost' = lost
    BY <2>2, <2>4
  <2> HIDE DEF made
  <2>8. Disciplined(t)
    BY <1>1, <2>5, <2>7, Adds
  <2>9. QED BY <2>6, <2>8
<1>5. CASE MakePipe(t)
  <2>1. PICK r, w \in Fds :
           /\ Lowest(r) /\ r < w /\ tab[w] = Free
           /\ tab' = [tab EXCEPT ![r] = nfiles + 1, ![w] = nfiles + 2]
           /\ raw' = [raw EXCEPT ![t] = <<r, w>>]
    BY <1>5 DEF MakePipe
  <2>11. r # w /\ tab[r] = Free
    BY <2>1 DEF Fds, Lowest
  <2>2. /\ pc[t] = "idle" /\ pc'[t] = "off" /\ own'[t] = own[t]
        /\ raw'[t] = <<r, w>> /\ held'[t] = <<>> /\ got'[t] = {}
        /\ raw[t] = <<>> /\ held[t] = <<>> /\ got[t] = {} /\ lost' = lost
    BY <1>1, <1>5, <2>1 DEF MakePipe, TypeOK, Shape, SharedPcs
  <2>3. SpawnUses(t) = {} /\ SpawnUses(t)' = {}
    BY <2>2, SpawnUsesFacts DEF SpawnPcs
  <2>4. Range(raw'[t]) = {r, w} /\ IsInjective(raw'[t])
    BY <2>11, <2>2, ShortSequences
  <2>5. Uses(t)' = Uses(t) \union {r, w} /\ r \notin Uses(t) /\ w \notin Uses(t)
    BY <1>1, <2>1, <2>11, <2>2, <2>3, <2>4, ShortSequences, UsesFacts DEF Uses
  <2>6. nfiles + 1 # Free /\ nfiles + 2 # Free
    BY <1>1 DEF TypeOK, Free
  <2> DEFINE made == {r, w}
  <2>7. /\ \A x \in made : tab[x] = Free /\ tab'[x] # Free
        /\ \A x \in Fds : x \notin made => tab'[x] = tab[x]
    <3>1. tab \in [Fds -> Files]
      BY <1>1 DEF TypeOK
    <3>2. /\ tab'[r] = nfiles + 1 /\ tab'[w] = nfiles + 2
          /\ \A x \in Fds : x # r /\ x # w => tab'[x] = tab[x]
      BY <2>1, <2>11, <3>1, Zenon
    <3>3. QED BY <2>1, <2>6, <2>11, <3>2
  <2>8. Local(t)'
    BY <2>2, <2>3, <2>4, <2>5, ShortSequences
       DEF Local, Shape, Apart, CallShape, SharedPcs, SpawnPcs, Uses
  <2>9. Uses(t)' = Uses(t) \union made /\ lost' = lost
    BY <2>2, <2>5
  <2> HIDE DEF made
  <2>10. Disciplined(t)
    BY <1>1, <2>7, <2>9, Adds
  <2>12. QED BY <2>8, <2>10
<1>6. CASE Dup(t)
  <2> DEFINE h == Head(raw[t])
             rest == Tail(raw[t])
  <2>1. PICK fd \in Fds : /\ tab[fd] = Free
                          /\ tab' = [tab EXCEPT ![fd] = tab[h]]
                          /\ raw' = [raw EXCEPT ![t] = <<fd>> \o rest]
    BY <1>6 DEF Dup, Lowest
  <2>2. /\ pc[t] \in {"off", "close"} /\ pc'[t] = "seal" /\ own'[t] = own[t]
        /\ raw'[t] = <<fd>> \o rest /\ held'[t] = Append(held[t], h)
        /\ got'[t] = got[t] /\ lost' = lost /\ raw[t] # <<>> /\ h \in Stdio
    BY <1>6, <2>1 DEF Dup, AtRaw, TypeOK, IInv
  <2>3. SpawnUses(t) = {} /\ SpawnUses(t)' = {}
    BY <2>2, SpawnUsesFacts DEF SpawnPcs
  <2>4. /\ h \in Range(raw[t]) /\ h \notin Range(rest) /\ h \in Fds
        /\ Range(raw[t]) = {h} \union Range(rest)
        /\ IsInjective(rest) /\ rest \in Seq(Fds)
    BY <1>1, <2>2, InjectiveTail, HeadTailProperties DEF Apart
  <2>5. /\ fd \notin Uses(t) /\ h \in Uses(t) /\ tab[h] # Free
        /\ fd \notin Range(rest) /\ fd \notin Range(held[t]) /\ fd \notin got[t]
        /\ fd \notin own[t] /\ fd # h /\ h \notin Range(held[t])
    BY <1>1, <2>1, <2>4, UsesFacts DEF Uses, Apart
  <2>6. IsInjective(raw'[t]) /\ Range(raw'[t]) = {fd} \union Range(rest)
    <3> HIDE DEF rest
    <3>1. QED BY <2>2, <2>4, <2>5, InjectiveHead
  <2>7. IsInjective(held'[t]) /\ Range(held'[t]) = Range(held[t]) \union {h}
    <3> HIDE DEF h
    <3>1. QED BY <1>1, <2>2, <2>4, <2>5, InjectiveAppend DEF Apart
  <2> HIDE DEF h, rest
  <2>8. Uses(t)' = Uses(t) \union {fd}
    BY <2>2, <2>3, <2>4, <2>6, <2>7 DEF Uses
  <2>9. Apart(t)'
    BY <1>1, <2>2, <2>3, <2>4, <2>5, <2>6, <2>7 DEF Apart
  <2> DEFINE made == {fd}
  <2>10. /\ \A x \in made : tab[x] = Free /\ tab'[x] # Free
         /\ \A x \in Fds : x \notin made => tab'[x] = tab[x]
    BY <1>1, <2>1, <2>5 DEF TypeOK
  <2>11. Uses(t)' = Uses(t) \union made /\ lost' = lost
    BY <2>2, <2>8
  <2> HIDE DEF made
  <2>12. Disciplined(t)
    BY <1>1, <2>10, <2>11, Adds
  <2>13. QED
    BY <2>2, <2>9, <2>12 DEF Local, Shape, CallShape, SharedPcs, SpawnPcs
<1>7. CASE DupFails(t)
  <2> DEFINE h == Head(raw[t])
             rest == Tail(raw[t])
  <2>1. /\ pc[t] \in {"off", "close"} /\ pc'[t] = "close" /\ own'[t] = own[t]
        /\ raw'[t] = rest /\ held'[t] = Append(held[t], h) /\ got'[t] = got[t]
        /\ UNCHANGED <<tab, lost>> /\ raw[t] # <<>> /\ h \in Stdio
    BY <1>7 DEF DupFails, AtRaw, TypeOK, IInv
  <2>2. SpawnUses(t) = {} /\ SpawnUses(t)' = {}
    BY <2>1, SpawnUsesFacts DEF SpawnPcs
  <2>3. /\ h \in Range(raw[t]) /\ h \notin Range(rest) /\ h \in Fds
        /\ Range(raw[t]) = {h} \union Range(rest)
        /\ IsInjective(rest) /\ rest \in Seq(Fds)
    BY <1>1, <2>1, InjectiveTail, HeadTailProperties DEF Apart
  <2>4. h \notin Range(held[t]) /\ h \notin own[t] /\ h \notin got[t]
    BY <1>1, <2>3 DEF Apart
  <2>5. IsInjective(held'[t]) /\ Range(held'[t]) = Range(held[t]) \union {h}
    <3> HIDE DEF h
    <3>1. QED BY <1>1, <2>1, <2>3, <2>4, InjectiveAppend DEF Apart
  <2> HIDE DEF h, rest
  <2>6. Uses(t)' = Uses(t)
    BY <2>1, <2>2, <2>3, <2>5 DEF Uses
  <2>7. Apart(t)'
    BY <1>1, <2>1, <2>2, <2>3, <2>4, <2>5 DEF Apart
  <2>8. Local(t)'
    BY <2>1, <2>7 DEF Local, Shape, CallShape, SharedPcs, SpawnPcs
  <2>9. QED BY <1>1, <2>1, <2>6, <2>8, Keeps
<1>8. CASE Seal(t)
  <2> DEFINE h == Head(raw[t])
             rest == Tail(raw[t])
  <2>1. /\ pc[t] \in {"off", "seal", "close"} /\ raw[t] # <<>>
        /\ own' = own /\ held' = held /\ UNCHANGED <<tab, lost>>
    BY <1>1, <1>8 DEF Seal, AtRaw, CallInv
  <2>2. CASE h \in Stdio
    <3>1. raw' = raw /\ got' = got /\ pc'[t] = "off"
      BY <1>8, <2>2 DEF Seal, TypeOK, IInv
    <3>2. SpawnUses(t) = {} /\ SpawnUses(t)' = {}
      BY <2>1, <3>1, SpawnUsesFacts DEF SpawnPcs
    <3>3. Uses(t)' = Uses(t) /\ Apart(t)'
      BY <1>1, <2>1, <3>1, <3>2 DEF Uses, Apart
    <3>4. Local(t)'
      BY <3>1, <3>3 DEF Local, Shape, CallShape, SharedPcs, SpawnPcs
    <3>5. QED BY <1>1, <2>1, <3>3, <3>4, Keeps
  <2>3. CASE h \notin Stdio
    <3>1. raw'[t] = rest /\ got'[t] = got[t] \union {h} /\ pc'[t] = "close"
      BY <1>8, <2>3 DEF Seal, TypeOK, IInv
    <3>2. SpawnUses(t) = {} /\ SpawnUses(t)' = {}
      BY <2>1, <3>1, SpawnUsesFacts DEF SpawnPcs
    <3>3. /\ h \in Range(raw[t]) /\ h \notin Range(rest)
          /\ Range(raw[t]) = {h} \union Range(rest) /\ IsInjective(rest)
      BY <1>1, <2>1, InjectiveTail DEF Apart
    <3>4. h \notin own[t]
      BY <1>1, <3>3 DEF Apart
    <3> HIDE DEF h, rest
    <3>5. Uses(t)' = Uses(t)
      BY <2>1, <3>1, <3>2, <3>3 DEF Uses
    <3>6. Apart(t)'
      BY <1>1, <2>1, <2>3, <3>1, <3>2, <3>3, <3>4 DEF Apart
    <3>7. Local(t)'
      BY <3>1, <3>6 DEF Local, Shape, CallShape, SharedPcs, SpawnPcs
    <3>8. QED BY <1>1, <2>1, <3>5, <3>7, Keeps
  <2>4. QED BY <2>2, <2>3
<1>9. CASE CloseHeld(t)
  <2> DEFINE h == Head(held[t])
             rest == Tail(held[t])
  <2>1. /\ pc[t] = "close" /\ pc' = pc /\ held[t] # <<>>
        /\ own' = own /\ raw' = raw /\ got' = got /\ held'[t] = rest
        /\ tab' = [tab EXCEPT ![h] = Free] /\ lost' = lost
    BY <1>9 DEF CloseHeld, TypeOK, IInv
  <2>2. SpawnUses(t) = {} /\ SpawnUses(t)' = {}
    BY <2>1, SpawnUsesFacts DEF SpawnPcs
  <2>3. /\ h \in Range(held[t]) /\ h \notin Range(rest)
        /\ Range(held[t]) = {h} \union Range(rest) /\ IsInjective(rest)
    BY <1>1, <2>1, InjectiveTail DEF Apart
  <2>4. h \notin own[t] /\ h \notin Range(raw[t]) /\ h \notin got[t]
    BY <1>1, <2>3 DEF Apart
  <2> HIDE DEF h, rest
  <2>5. h \in Uses(t) /\ Uses(t)' = Uses(t) \ {h}
    BY <2>1, <2>2, <2>3, <2>4 DEF Uses
  <2>6. Apart(t)'
    BY <1>1, <2>1, <2>2, <2>3 DEF Apart
  <2>7. Local(t)'
    BY <2>1, <2>6 DEF Local, Shape, CallShape, SharedPcs, SpawnPcs
  <2>8. QED BY <1>1, <2>1, <2>5, <2>7, Drops
<1>10. CASE CloseGot(t)
  <2>1. PICK fd \in got[t] : /\ tab' = [tab EXCEPT ![fd] = Free]
                             /\ got' = [got EXCEPT ![t] = @ \ {fd}]
    BY <1>10 DEF CloseGot
  <2>2. /\ pc[t] = "close" /\ pc' = pc /\ own' = own /\ raw' = raw
        /\ held' = held /\ got'[t] = got[t] \ {fd} /\ lost' = lost
    BY <1>10, <2>1 DEF CloseGot, TypeOK, IInv
  <2>3. SpawnUses(t) = {} /\ SpawnUses(t)' = {}
    BY <2>2, SpawnUsesFacts DEF SpawnPcs
  <2>4. fd \notin own[t] /\ fd \notin Range(raw[t]) /\ fd \notin Range(held[t])
    BY <1>1, <2>1 DEF Apart
  <2>5. fd \in Uses(t) /\ Uses(t)' = Uses(t) \ {fd}
    BY <2>1, <2>2, <2>3, <2>4 DEF Uses
  <2>6. Apart(t)'
    BY <1>1, <2>2, <2>3 DEF Apart
  <2>7. Local(t)'
    BY <2>2, <2>6 DEF Local, Shape, CallShape, SharedPcs, SpawnPcs
  <2>8. QED BY <1>1, <2>1, <2>2, <2>5, <2>7, Drops
<1>11. CASE Return(t)
  <2>1. /\ pc[t] = "close" /\ pc'[t] = "idle" /\ held[t] = <<>> /\ raw[t] = <<>>
        /\ own'[t] = own[t] \union got[t] /\ raw' = raw /\ held' = held
        /\ got'[t] = {} /\ UNCHANGED <<tab, lost>>
    BY <1>11 DEF Return, TypeOK, IInv
  <2>2. SpawnUses(t) = {} /\ SpawnUses(t)' = {}
    BY <2>1, SpawnUsesFacts DEF SpawnPcs
  <2>3. Uses(t)' = Uses(t)
    BY <2>1, <2>2 DEF Uses
  <2>4. Local(t)'
    BY <1>1, <2>1, <2>2, ShortSequences
       DEF Local, Shape, Apart, CallShape, SharedPcs, SpawnPcs
  <2>5. QED BY <1>1, <2>1, <2>3, <2>4, Keeps
<1>12. QED
  BY <1>2, <1>3, <1>4, <1>5, <1>6, <1>7, <1>8, <1>9, <1>10, <1>11 DEF CreateStep

-----------------------------------------------------------------------------
(* dup2(). *)

LEMMA CopyDisciplined ==
  ASSUME IInv, TypeOK', UInv, NEW t \in Threads, CopyStep(t)
  PROVE  Local(t)' /\ Disciplined(t)
<1>1. /\ TypeOK /\ CallInv /\ UsedOnce /\ Stderr /\ Shape(t) /\ Apart(t)
      /\ raw[t] \in Seq(Fds)
  BY DEF IInv, UInv, Local, TypeOK
<1> USE DEF tableVars, lockVars, createVars, spawnVars
<1>2. ASSUME NEW dst \in Fds, NEW src \in Fds, NEW move \in BOOLEAN,
             CopyTo(t, dst, src, move)
      PROVE  Local(t)' /\ Disciplined(t)
  <2> DEFINE away == IF move THEN {dst, src} ELSE {dst}
  <2>1. /\ pc[t] = "idle" /\ pc'[t] = "flag" /\ dst \in own[t] /\ src \in own[t]
        /\ dst # src /\ own'[t] = own[t] \ away /\ raw'[t] = <<dst>>
        /\ held'[t] = <<>> /\ got'[t] = {} /\ lost' = lost
        /\ raw[t] = <<>> /\ held[t] = <<>> /\ got[t] = {}
    BY <1>1, <1>2 DEF CopyTo, TypeOK, Shape, SharedPcs
  <2>2. SpawnUses(t) = {} /\ SpawnUses(t)' = {}
    BY <2>1, SpawnUsesFacts DEF SpawnPcs
  <2>3. Uses(t) = own[t] /\ Uses(t)' = (own[t] \ away) \union {dst}
    BY <2>1, <2>2, ShortSequences DEF Uses
  <2>4. Local(t)'
    BY <2>1, <2>2, ShortSequences DEF Local, Shape, Apart, CallShape, SharedPcs, SpawnPcs
  <2>5. /\ tab'[dst] = tab[src] /\ tab'[src] = (IF move THEN Free ELSE tab[src])
        /\ \A fd \in Fds : fd # dst /\ fd # src => tab'[fd] = tab[fd]
    <3>1. tab \in [Fds -> Files]
      BY <1>1 DEF TypeOK
    <3>2. tab' = [tab EXCEPT ![dst] = tab[src], ![src] = IF move THEN Free ELSE @]
      BY <1>2 DEF CopyTo
    <3>3. QED BY <2>1, <3>1, <3>2
  <2> DEFINE S == {dst, src}
  <2>6. /\ \A fd \in S : Alone(t, fd) /\ fd # 2
        /\ tab[src] # Free
    BY <1>1, <2>1, <2>3, UsesFacts
  <2>7. \A fd \in S : tab'[fd] # Free <=> fd \in Uses(t)'
    <3>1. tab'[dst] # Free /\ dst \in Uses(t)'
      BY <2>3, <2>5, <2>6
    <3>2. tab'[src] # Free <=> src \in Uses(t)'
      BY <2>1, <2>3, <2>5, <2>6
    <3>3. QED BY <3>1, <3>2
  <2>8. \A fd \in Fds : fd \notin S =>
          /\ tab'[fd] = tab[fd]
          /\ fd \in Uses(t)' => fd \in Uses(t)
          /\ fd \in Uses(t) \union lost => fd \in Uses(t)' \union lost'
    BY <2>1, <2>3, <2>5
  <2>9. Uses(t)' \subseteq Fds
    BY <2>3, <1>1 DEF TypeOK
  <2> HIDE DEF S
  <2>10. Disciplined(t)
    BY <1>1, <2>1, <2>6, <2>7, <2>8, <2>9, Changes
  <2>11. QED BY <2>4, <2>10
<1>3. CASE SetFlag(t)
  <2> DEFINE dst == Head(raw[t])
  <2>1. /\ pc[t] = "flag" /\ pc'[t] = "idle" /\ own'[t] = own[t] \union {dst}
        /\ raw'[t] = <<>> /\ held' = held /\ got' = got
        /\ held[t] = <<>> /\ got[t] = {} /\ Len(raw[t]) = 1 /\ UNCHANGED <<tab, lost>>
    BY <1>1, <1>3 DEF SetFlag, TypeOK, Shape, SharedPcs
  <2>2. SpawnUses(t) = {} /\ SpawnUses(t)' = {}
    BY <2>1, SpawnUsesFacts DEF SpawnPcs
  <2>3. Range(raw[t]) = {dst}
    BY <1>1, <2>1, SingleSequence
  <2>4. Uses(t)' = Uses(t)
    BY <2>1, <2>2, <2>3, ShortSequences DEF Uses
  <2>5. Local(t)'
    BY <2>1, <2>2, ShortSequences DEF Local, Shape, Apart, CallShape, SharedPcs, SpawnPcs
  <2>6. QED BY <1>1, <2>1, <2>4, <2>5, Keeps
<1>4. QED BY <1>2, <1>3 DEF CopyStep

-----------------------------------------------------------------------------
(* fildesh_compat_fd_spawnvp(). *)

(* What a caller can pass. *)
LEMMA CallsFacts ==
  ASSUME TypeOK, NEW t \in Threads, NEW c \in Calls(t)
  PROVE  /\ c.in \in {-1, 0} \union (own[t] \ Stdio)
         /\ c.out \in {-1, 1, 2} \union (own[t] \ Stdio)
         /\ c.inh \subseteq own[t] \ Stdio /\ c.keep \subseteq c.inh
         /\ c.in = c.out => c.in = -1
         /\ c.in \notin c.inh /\ c.out \notin c.inh
BY DEF Calls

(* The others are not in a call, and have neither 0 nor 1. *)
LEMMA SpawnAlone ==
  ASSUME IInv, UInv, NEW t \in Threads, pc[t] \in {"inherit", "stdout", "fork"}
  PROVE  \A fd \in {0, 1} :
           /\ Alone(t, fd)
           /\ fd # call[t].in /\ fd # call[t].out => fd \notin own[t]
<1>1. TypeOK /\ LockInv /\ Quiet(t)
  BY DEF IInv, UInv
<1>2. \A u \in Threads \ {t} : Uses(u) = own[u]
  <2> TAKE u \in Threads \ {t}
  <2>1. t \in writers /\ readers = {} /\ u \notin writers
    BY <1>1 DEF LockInv, ExclusivePcs
  <2>2. pc[u] \notin SharedPcs /\ pc[u] \notin ExclusivePcs
    BY <1>1, <2>1 DEF LockInv
  <2>3. raw[u] = <<>> /\ held[u] = <<>> /\ got[u] = {} /\ SpawnUses(u) = {}
    BY <2>2, SpawnUsesFacts DEF UInv, Local, Shape, ExclusivePcs, SpawnPcs
  <2>4. QED BY <2>3, ShortSequences DEF Uses
<1>3. 0 \in Stdio /\ 1 \in Stdio
  BY DEF Stdio
<1>4. QED BY <1>1, <1>2, <1>3 DEF Quiet, Alone

(* Away from the other calls only own and the parts of a spawn count. *)
LEMMA SpawnHands ==
  ASSUME TypeOK, NEW t \in Threads, Shape(t),
         pc[t] \notin SharedPcs \union {"flag"}, UNCHANGED createVars
  PROVE  /\ raw[t] = <<>> /\ held[t] = <<>> /\ got[t] = {}
         /\ raw'[t] = <<>> /\ held'[t] = <<>> /\ got'[t] = {}
         /\ Uses(t) = own[t] \union SpawnUses(t)
         /\ Uses(t)' = own'[t] \union SpawnUses(t)'
         /\ own'[t] \intersect SpawnUses(t)' = {} => Apart(t)'
         /\ pc'[t] # "flag" => Shape(t)'
<1>1. /\ raw[t] = <<>> /\ held[t] = <<>> /\ got[t] = {}
      /\ raw'[t] = <<>> /\ held'[t] = <<>> /\ got'[t] = {}
  BY DEF Shape, createVars
<1>2. Uses(t) = own[t] \union SpawnUses(t) /\ Uses(t)' = own'[t] \union SpawnUses(t)'
  BY <1>1, ShortSequences DEF Uses
<1>3. own'[t] \intersect SpawnUses(t)' = {} => Apart(t)'
  BY <1>1, ShortSequences DEF Apart
<1>4. pc'[t] # "flag" => Shape(t)'
  BY <1>1 DEF Shape
<1>5. QED BY <1>1, <1>2, <1>3, <1>4

LEMMA SpawnDisciplined ==
  ASSUME IInv, TypeOK', UInv, NEW t \in Threads, SpawnStep(t)
  PROVE  Local(t)' /\ Disciplined(t)
<1>1. /\ TypeOK /\ UsedOnce /\ Stderr /\ Shape(t) /\ Apart(t) /\ CallShape(t)
      /\ own[t] \subseteq Fds /\ Uses(t) \subseteq Fds
      /\ call[t].in \in -1..MaxFd /\ call[t].out \in -1..MaxFd
      /\ call[t].inh \subseteq Fds
  BY UsesAreFds DEF IInv, UInv, Local, TypeOK
<1> USE DEF tableVars, lockVars, spawnVars
<1> DEFINE in == call[t].in
           out == call[t].out
<1>2. ASSUME NEW c \in Calls(t), BeginSpawn(t, c) PROVE Local(t)' /\ Disciplined(t)
  <2> DEFINE moved == {c.in, c.out} \ (-1..2)
  <2>1. /\ pc[t] = "idle" /\ pc'[t] = "inherit" /\ call'[t] = c /\ pend'[t] = c.inh
        /\ own'[t] = own[t] \ (c.inh \union ({c.in, c.out} \ Stdio))
        /\ UNCHANGED <<tab, lost, createVars>>
    BY <1>1, <1>2 DEF BeginSpawn, TypeOK
  <2>2. /\ moved \subseteq own[t] /\ c.inh \subseteq own[t]
        /\ own'[t] = own[t] \ (c.inh \union moved)
    <3>1. \A x \in own[t] : x \in -1..2 <=> x \in Stdio
      BY <1>1 DEF Stdio, Fds
    <3>2. moved \subseteq own[t]
      BY <1>1, CallsFacts
    <3>3. QED BY <1>1, <2>1, <3>1, <3>2, CallsFacts
  <2>3. SpawnUses(t) = {} /\ SpawnUses(t)' = c.inh \union moved
    BY <2>1, SpawnUsesFacts DEF SpawnPcs
  <2>4. CallShape(t)'
    <3>1. /\ c.in \notin {1, 2} /\ c.out # 0 /\ c.inh \intersect Stdio = {}
      BY <1>1, CallsFacts DEF Stdio
    <3>2. QED BY <1>1, <2>1, <3>1, CallsFacts DEF CallShape
  <2> HIDE DEF moved
  <2>5. Apart(t)' /\ Shape(t)' /\ Uses(t)' = Uses(t)
    <3>1. /\ Uses(t) = own[t] \union SpawnUses(t)
          /\ Uses(t)' = own'[t] \union SpawnUses(t)'
          /\ own'[t] \intersect SpawnUses(t)' = {} => Apart(t)' /\ Shape(t)'
      BY <1>1, <2>1, SpawnHands DEF SharedPcs
    <3>2. own'[t] \intersect SpawnUses(t)' = {} /\ Uses(t)' = Uses(t)
      BY <2>2, <2>3, <3>1
    <3>3. QED BY <3>1, <3>2
  <2>6. QED BY <1>1, <2>1, <2>4, <2>5, Keeps DEF Local
<1>3. CASE InheritFd(t)
  <2>1. /\ pc[t] = "inherit" /\ pc' = pc /\ call' = call /\ own' = own
        /\ pend'[t] \subseteq pend[t] /\ UNCHANGED <<tab, lost, createVars>>
    BY <1>1, <1>3 DEF InheritFd, TypeOK
  <2>2. SpawnUses(t)' = SpawnUses(t)
    BY <2>1, SpawnUsesFacts
  <2>3. Apart(t)' /\ Shape(t)' /\ Uses(t)' = Uses(t)
    BY <1>1, <2>1, <2>2, SpawnHands DEF SharedPcs, Apart
  <2>4. CallShape(t)'
    BY <1>1, <2>1 DEF CallShape
  <2>5. QED BY <1>1, <2>1, <2>3, <2>4, Keeps DEF Local
<1>4. CASE SetupStdin(t)
  <2>1. /\ pc[t] = "inherit" /\ pc'[t] = "stdout" /\ UNCHANGED <<call, pend, own>>
        /\ lost' = lost /\ UNCHANGED createVars
    BY <1>1, <1>4 DEF SetupStdin, TypeOK
  <2>2. CallShape(t)' /\ Placed(t)' = Placed(t)
    BY <1>1, <2>1 DEF CallShape, SpawnPcs, Placed
  <2>3. /\ in \notin {1, 2} /\ out # 0 /\ (in = out => in = -1)
        /\ call[t].inh \intersect Stdio = {} /\ in \notin call[t].inh
    BY <1>1, <2>1 DEF CallShape, SpawnPcs
  <2>4. /\ SpawnUses(t) = call[t].inh \union ({in, out} \ (-1..2))
        /\ SpawnUses(t)' = call[t].inh \union ({out} \ (-1..2)) \union (Placed(t) \ {1})
    BY <2>1, <2>2, SpawnUsesFacts
  <2>5. Placed(t) \ {1} = IF in = 0 THEN {} ELSE {0}
    BY DEF Placed
  <2>6. Alone(t, 0) /\ (in # 0 => 0 \notin own[t])
    BY <2>1, <2>3, SpawnAlone
  <2>7. /\ Uses(t) = own[t] \union SpawnUses(t)
        /\ Uses(t)' = own[t] \union SpawnUses(t)'
        /\ own[t] \intersect SpawnUses(t) = {}
        /\ own[t] \intersect SpawnUses(t)' = {} => Apart(t)' /\ Shape(t)'
    BY <1>1, <2>1, SpawnHands DEF SharedPcs, Apart
  <2>8. 0 \in Stdio /\ 0 \in -1..2 /\ -1 \in -1..2 /\ 0 \in Fds
    BY FdsFacts DEF Stdio
  <2>9. CASE in = -1
    <3>1. tab' = [tab EXCEPT ![0] = Empty]
      BY <1>4, <2>9 DEF SetupStdin
    <3> DEFINE S == {0}
    <3>2. SpawnUses(t)' = SpawnUses(t) \union S
      BY <2>4, <2>5, <2>8, <2>9
    <3>3. Local(t)'
      BY <2>2, <2>6, <2>7, <2>9, <3>2 DEF Local
    <3>4. tab'[0] = Empty /\ Empty # Free /\ \A fd \in Fds : fd # 0 => tab'[fd] = tab[fd]
      BY <1>1, <2>8, <3>1, FdAssumption DEF TypeOK, Empty, Free
    <3>5. /\ \A fd \in S : Alone(t, fd) /\ fd # 2 /\ (tab'[fd] # Free <=> fd \in Uses(t)')
          /\ \A fd \in Fds : fd \notin S =>
               /\ tab'[fd] = tab[fd]
               /\ fd \in Uses(t)' => fd \in Uses(t)
               /\ fd \in Uses(t) \union lost => fd \in Uses(t)' \union lost'
          /\ Uses(t)' \subseteq Fds /\ 2 \notin S
      BY <1>1, <2>1, <2>6, <2>7, <2>8, <3>2, <3>4
    <3> HIDE DEF S
    <3>6. Disciplined(t)
      BY <1>1, <2>1, <3>5, Changes
    <3>7. QED BY <3>3, <3>6
  <2>10. CASE in = 0
    <3>1. tab' = tab
      BY <1>4, <2>10 DEF SetupStdin
    <3>2. SpawnUses(t)' = SpawnUses(t)
      BY <2>4, <2>5, <2>8, <2>10
    <3>3. Local(t)' /\ Uses(t)' = Uses(t)
      BY <2>2, <2>7, <3>2 DEF Local
    <3>4. QED BY <1>1, <2>1, <3>1, <3>3, Keeps
  <2>11. CASE in \notin {-1, 0}
    <3>1. tab' = [tab EXCEPT ![0] = tab[in], ![in] = Free]
      BY <1>4, <2>11 DEF SetupStdin
    <3>2. in \in Fds /\ in \notin -1..2 /\ in # 0 /\ in # 2
      BY <1>1, <2>3, <2>11 DEF Fds
    <3>3. /\ SpawnUses(t)' = (SpawnUses(t) \ {in}) \union {0}
          /\ in \in SpawnUses(t)
      BY <2>3, <2>4, <2>5, <2>8, <2>11, <3>2
    <3>4. Local(t)'
      BY <2>2, <2>6, <2>7, <2>11, <3>3 DEF Local
    <3>5. /\ tab'[0] = tab[in] /\ tab'[in] = Free
          /\ \A fd \in Fds : fd # 0 /\ fd # in => tab'[fd] = tab[fd]
      BY <1>1, <2>8, <3>1, <3>2 DEF TypeOK
    <3>6. tab[in] # Free /\ Alone(t, in)
      BY <1>1, <2>7, <3>3, UsesFacts
    <3> DEFINE S == {0, in}
    <3>7. /\ \A fd \in S : Alone(t, fd) /\ fd # 2 /\ (tab'[fd] # Free <=> fd \in Uses(t)')
          /\ \A fd \in Fds : fd \notin S =>
               /\ tab'[fd] = tab[fd]
               /\ fd \in Uses(t)' => fd \in Uses(t)
               /\ fd \in Uses(t) \union lost => fd \in Uses(t)' \union lost'
          /\ Uses(t)' \subseteq Fds /\ 2 \notin S
      BY <1>1, <2>1, <2>6, <2>7, <2>8, <3>2, <3>3, <3>5, <3>6
    <3> HIDE DEF S
    <3>8. Disciplined(t)
      BY <1>1, <2>1, <3>7, Changes
    <3>9. QED BY <3>4, <3>8
  <2>12. QED BY <2>9, <2>10, <2>11
<1>5. CASE SetupStdout(t)
  <2>1. /\ pc[t] = "stdout" /\ pc'[t] = "fork" /\ UNCHANGED <<call, pend, own>>
        /\ lost' = lost /\ UNCHANGED createVars
    BY <1>1, <1>5 DEF SetupStdout, TypeOK
  <2>2. CallShape(t)' /\ Placed(t)' = Placed(t)
    BY <1>1, <2>1 DEF CallShape, SpawnPcs, Placed
  <2>3. /\ in \notin {1, 2} /\ out # 0
        /\ call[t].inh \intersect Stdio = {} /\ out \notin call[t].inh
    BY <1>1, <2>1 DEF CallShape, SpawnPcs
  <2>4. /\ SpawnUses(t) = call[t].inh \union ({out} \ (-1..2)) \union (Placed(t) \ {1})
        /\ SpawnUses(t)' = call[t].inh \union Placed(t)
    BY <2>1, <2>2, SpawnUsesFacts
  <2>5. 1 \in Placed(t) <=> out # 1
    BY DEF Placed
  <2>6. Alone(t, 1) /\ (out # 1 => 1 \notin own[t])
    BY <2>1, <2>3, SpawnAlone
  <2>7. /\ Uses(t) = own[t] \union SpawnUses(t)
        /\ Uses(t)' = own[t] \union SpawnUses(t)'
        /\ own[t] \intersect SpawnUses(t) = {}
        /\ own[t] \intersect SpawnUses(t)' = {} => Apart(t)' /\ Shape(t)'
    BY <1>1, <2>1, SpawnHands DEF SharedPcs, Apart
  <2>8. /\ 1 \in Stdio /\ 1 \in -1..2 /\ 2 \in -1..2 /\ -1 \in -1..2 /\ 1 \in Fds
        /\ 2 \in Fds /\ Placed(t) \subseteq {0, 1}
    BY FdsFacts DEF Stdio, Placed
  <2>9. CASE out = 1
    <3>1. tab' = tab
      BY <1>5, <2>9 DEF SetupStdout
    <3>2. SpawnUses(t)' = SpawnUses(t)
      BY <2>4, <2>5, <2>8, <2>9
    <3>3. Local(t)' /\ Uses(t)' = Uses(t)
      BY <2>2, <2>7, <3>2 DEF Local
    <3>4. QED BY <1>1, <2>1, <3>1, <3>3, Keeps
  <2>10. CASE out \in {-1, 2}
    <3>1. tab' = [tab EXCEPT ![1] = Empty] \/ tab' = [tab EXCEPT ![1] = tab[2]]
      BY <1>5, <2>10 DEF SetupStdout
    <3> DEFINE S == {1}
    <3>2. SpawnUses(t)' = SpawnUses(t) \union S
      BY <2>4, <2>5, <2>8, <2>10
    <3>3. Local(t)'
      BY <2>2, <2>6, <2>7, <2>10, <3>2 DEF Local
    <3>4. tab'[1] # Free /\ \A fd \in Fds : fd # 1 => tab'[fd] = tab[fd]
      <4>1. Empty # Free /\ tab[2] # Free
        BY <1>1, FdAssumption DEF Empty, Free, Stderr
      <4>2. tab \in [Fds -> Files]
        BY <1>1 DEF TypeOK
      <4>3. QED BY <2>8, <3>1, <4>1, <4>2
    <3>5. /\ \A fd \in S : Alone(t, fd) /\ fd # 2 /\ (tab'[fd] # Free <=> fd \in Uses(t)')
          /\ \A fd \in Fds : fd \notin S =>
               /\ tab'[fd] = tab[fd]
               /\ fd \in Uses(t)' => fd \in Uses(t)
               /\ fd \in Uses(t) \union lost => fd \in Uses(t)' \union lost'
          /\ Uses(t)' \subseteq Fds /\ 2 \notin S
      BY <1>1, <2>1, <2>6, <2>7, <2>8, <3>2, <3>4
    <3> HIDE DEF S
    <3>6. Disciplined(t)
      BY <1>1, <2>1, <3>5, Changes
    <3>7. QED BY <3>3, <3>6
  <2>11. CASE out \notin {-1, 1, 2}
    <3>1. tab' = [tab EXCEPT ![1] = tab[out], ![out] = Free]
      BY <1>5, <2>11 DEF SetupStdout
    <3>2. out \in Fds /\ out \notin -1..2 /\ out # 1 /\ out # 2 /\ out # 0
      BY <1>1, <2>3, <2>11 DEF Fds
    <3>3. /\ SpawnUses(t)' = (SpawnUses(t) \ {out}) \union {1}
          /\ out \in SpawnUses(t)
      BY <2>3, <2>4, <2>5, <2>8, <2>11, <3>2
    <3>4. Local(t)'
      BY <2>2, <2>6, <2>7, <2>11, <3>3 DEF Local
    <3>5. /\ tab'[1] = tab[out] /\ tab'[out] = Free
          /\ \A fd \in Fds : fd # 1 /\ fd # out => tab'[fd] = tab[fd]
      BY <1>1, <2>8, <3>1, <3>2 DEF TypeOK
    <3>6. tab[out] # Free /\ Alone(t, out)
      BY <1>1, <2>7, <3>3, UsesFacts
    <3> DEFINE S == {1, out}
    <3>7. /\ \A fd \in S : Alone(t, fd) /\ fd # 2 /\ (tab'[fd] # Free <=> fd \in Uses(t)')
          /\ \A fd \in Fds : fd \notin S =>
               /\ tab'[fd] = tab[fd]
               /\ fd \in Uses(t)' => fd \in Uses(t)
               /\ fd \in Uses(t) \union lost => fd \in Uses(t)' \union lost'
          /\ Uses(t)' \subseteq Fds /\ 2 \notin S
      BY <1>1, <2>1, <2>6, <2>7, <2>8, <3>2, <3>3, <3>5, <3>6
    <3> HIDE DEF S
    <3>8. Disciplined(t)
      BY <1>1, <2>1, <3>7, Changes
    <3>9. QED BY <3>4, <3>8
  <2>12. QED BY <2>9, <2>10, <2>11
<1>6. CASE SetupFails(t)
  <2>1. /\ pc[t] \in {"inherit", "stdout"} /\ pc'[t] = "drop" /\ UNCHANGED <<call, own, tab>>
        /\ pend'[t] = call[t].inh /\ UNCHANGED createVars
        /\ lost \subseteq lost'
    BY <1>1, <1>6 DEF SetupFails, TypeOK
  <2>2. CallShape(t)'
    BY <1>1, <2>1 DEF CallShape, SpawnPcs
  <2>3. call[t].keep \subseteq call[t].inh
    BY <1>1, <2>1 DEF CallShape, SpawnPcs
  <2>4. SpawnUses(t)' = call[t].inh
    <3>1. SpawnUses(t)' = call'[t].keep \union pend'[t]
      BY <2>1, SpawnUsesFacts
    <3>2. QED BY <2>1, <2>3, <3>1
  <2>5. call[t].inh \subseteq SpawnUses(t)
    BY <2>1, SpawnUsesFacts
  <2>6. \A fd \in SpawnUses(t) : fd \in call[t].inh \/ fd \in lost'
    <3>1. -1 \in -1..2 /\ 1 \in -1..2 /\ 2 \in -1..2
      OBVIOUS
    <3>2. CASE pc[t] = "inherit"
      <4>1. in = -1 /\ lost' = lost \union ({out} \ {-1, 1, 2})
        BY <1>6, <3>2 DEF SetupFails
      <4>2. SpawnUses(t) = call[t].inh \union ({in, out} \ (-1..2))
        BY <3>2, SpawnUsesFacts
      <4>3. QED BY <3>1, <4>1, <4>2
    <3>3. CASE pc[t] = "stdout"
      <4>1. out = -1 /\ lost' = lost \union (IF in = 0 THEN {} ELSE {0})
        BY <1>6, <3>3 DEF SetupFails
      <4>2. SpawnUses(t) = call[t].inh \union ({out} \ (-1..2)) \union (Placed(t) \ {1})
        BY <3>3, SpawnUsesFacts
      <4>3. Placed(t) \ {1} = IF in = 0 THEN {} ELSE {0}
        BY DEF Placed
      <4>4. QED BY <3>1, <4>1, <4>2, <4>3
    <3>4. QED BY <2>1, <3>2, <3>3
  <2>7. /\ Uses(t) = own[t] \union SpawnUses(t)
        /\ Uses(t)' = own[t] \union SpawnUses(t)'
        /\ own[t] \intersect SpawnUses(t) = {}
        /\ own[t] \intersect SpawnUses(t)' = {} => Apart(t)' /\ Shape(t)'
    BY <1>1, <2>1, SpawnHands DEF SharedPcs, Apart
  <2>8. Local(t)'
    BY <2>2, <2>4, <2>5, <2>7 DEF Local
  <2>9. /\ \A fd \in Uses(t)' : fd \in Uses(t)
        /\ \A fd \in Uses(t) \union lost : fd \in Uses(t)' \union lost'
    BY <2>1, <2>4, <2>5, <2>6, <2>7
  <2>10. Disciplined(t)
    BY <1>1, <2>1, <2>9, UsesFacts DEF Disciplined
  <2>11. QED BY <2>8, <2>10
<1>7. CASE ForkAndCleanup(t)
  <2>1. /\ pc[t] = "fork" /\ pc'[t] = "drop" /\ UNCHANGED <<call, own>>
        /\ pend'[t] = call[t].inh /\ UNCHANGED createVars
        /\ lost' = lost \ Placed(t)
        /\ \A fd \in Fds : tab'[fd] = IF fd \in Placed(t) THEN Free ELSE tab[fd]
    BY <1>1, <1>7 DEF ForkAndCleanup, TypeOK
  <2>2. CallShape(t)'
    BY <1>1, <2>1 DEF CallShape, SpawnPcs
  <2>3. call[t].keep \subseteq call[t].inh /\ call[t].inh \intersect Stdio = {}
    BY <1>1, <2>1 DEF CallShape, SpawnPcs
  <2>4. SpawnUses(t)' = call[t].inh /\ SpawnUses(t) = call[t].inh \union Placed(t)
    <3>1. SpawnUses(t)' = call'[t].keep \union pend'[t]
      BY <2>1, SpawnUsesFacts
    <3>2. SpawnUses(t) = call[t].inh \union Placed(t)
      BY <2>1, SpawnUsesFacts
    <3>3. QED BY <2>1, <2>3, <3>1, <3>2
  <2>5. Placed(t) \subseteq {0, 1} /\ {0, 1} \subseteq Stdio /\ {0, 1} \subseteq Fds
    BY FdsFacts DEF Placed, Stdio
  <2>6. /\ Uses(t) = own[t] \union SpawnUses(t)
        /\ Uses(t)' = own[t] \union SpawnUses(t)'
        /\ own[t] \intersect SpawnUses(t) = {}
        /\ own[t] \intersect SpawnUses(t)' = {} => Apart(t)' /\ Shape(t)'
    BY <1>1, <2>1, SpawnHands DEF SharedPcs, Apart
  <2>7. Local(t)'
    BY <2>2, <2>4, <2>6 DEF Local
  <2> DEFINE S == Placed(t)
  <2>8. \A fd \in S : Alone(t, fd) /\ fd # 2
    BY <2>1, <2>5, SpawnAlone
  <2>9. \A fd \in S : tab'[fd] # Free <=> fd \in Uses(t)'
    BY <2>1, <2>3, <2>4, <2>5, <2>6
  <2>10. \A fd \in Fds : fd \notin S =>
           /\ tab'[fd] = tab[fd]
           /\ fd \in Uses(t)' => fd \in Uses(t)
           /\ fd \in Uses(t) \union lost => fd \in Uses(t)' \union lost'
    BY <2>1, <2>4, <2>6
  <2>11. Uses(t)' \subseteq Fds /\ 2 \notin S
    BY <1>1, <2>4, <2>6, <2>8
  <2> HIDE DEF S
  <2>12. Disciplined(t)
    BY <1>1, <2>1, <2>8, <2>9, <2>10, <2>11, Changes
  <2>13. QED BY <2>7, <2>12
<1>8. CASE DropFd(t)
  <2>1. PICK fd \in pend[t] :
           /\ \/ fd \in call[t].keep /\ tab' = tab
              \/ fd \notin call[t].keep /\ tab' = [tab EXCEPT ![fd] = Free]
           /\ pend' = [pend EXCEPT ![t] = @ \ {fd}]
    BY <1>8 DEF DropFd
  <2>2. /\ pc[t] = "drop" /\ pc' = pc /\ UNCHANGED <<call, own, lost>>
        /\ pend'[t] = pend[t] \ {fd} /\ UNCHANGED createVars
    BY <1>1, <1>8, <2>1 DEF DropFd, TypeOK
  <2>3. CallShape(t)'
    BY <1>1, <2>2 DEF CallShape
  <2>4. /\ SpawnUses(t) = call[t].keep \union pend[t]
        /\ SpawnUses(t)' = call[t].keep \union (pend[t] \ {fd})
    BY <2>2, SpawnUsesFacts
  <2>5. /\ Uses(t) = own[t] \union SpawnUses(t)
        /\ Uses(t)' = own[t] \union SpawnUses(t)'
        /\ own[t] \intersect SpawnUses(t) = {}
        /\ own[t] \intersect SpawnUses(t)' = {} => Apart(t)' /\ Shape(t)'
    BY <1>1, <2>2, SpawnHands DEF SharedPcs, Apart
  <2>6. Local(t)'
    BY <2>3, <2>4, <2>5 DEF Local
  <2>7. CASE fd \in call[t].keep
    <3>1. tab' = tab /\ Uses(t)' = Uses(t)
      BY <2>1, <2>4, <2>5, <2>7
    <3>2. QED BY <1>1, <2>2, <2>6, <3>1, Keeps
  <2>8. CASE fd \notin call[t].keep
    <3>1. /\ tab' = [tab EXCEPT ![fd] = Free]
          /\ fd \in Uses(t) /\ Uses(t)' = Uses(t) \ {fd}
      BY <2>1, <2>4, <2>5, <2>8
    <3>2. QED BY <1>1, <2>2, <2>6, <3>1, Drops
  <2>9. QED BY <2>7, <2>8
<1>9. CASE EndSpawn(t)
  <2>1. /\ pc[t] = "drop" /\ pc'[t] = "idle" /\ pend[t] = {}
        /\ own'[t] = own[t] \union call[t].keep /\ UNCHANGED <<tab, lost, createVars>>
    BY <1>1, <1>9 DEF EndSpawn, TypeOK
  <2>2. SpawnUses(t) = call[t].keep /\ SpawnUses(t)' = {}
    <3>1. SpawnUses(t) = call[t].keep \union pend[t]
      BY <2>1, SpawnUsesFacts
    <3>2. SpawnUses(t)' = {}
      BY <2>1, SpawnUsesFacts DEF SpawnPcs
    <3>3. QED BY <2>1, <3>1, <3>2
  <2>3. Apart(t)' /\ Shape(t)' /\ Uses(t)' = Uses(t)
    BY <1>1, <2>1, <2>2, SpawnHands DEF SharedPcs
  <2>4. CallShape(t)'
    BY <2>1 DEF CallShape, SpawnPcs
  <2>5. QED BY <1>1, <2>1, <2>3, <2>4, Keeps DEF Local
<1>10. QED
  BY <1>2, <1>3, <1>4, <1>5, <1>6, <1>7, <1>8, <1>9 DEF SpawnStep

-----------------------------------------------------------------------------
(* The streams of a child. *)

LEMMA ThreadStep ==
  ASSUME IInv, TypeOK', UInv, NEW t \in Threads, Step(t)
  PROVE  Local(t)' /\ Disciplined(t)
BY CreateDisciplined, CopyDisciplined, SpawnDisciplined DEF Step

(* The steps that lead to a place before the fork. *)
LEMMA TowardsFork ==
  ASSUME TypeOK, NEW t \in Threads, Step(t), pc'[t] \in {"inherit", "stdout", "fork"}
  PROVE  \/ \E c \in Calls(t) : BeginSpawn(t, c)
         \/ InheritFd(t) \/ SetupStdin(t) \/ SetupStdout(t)
<1> USE DEF TypeOK
<1>1. \A fd \in Fds : ~Claim(t, fd) /\ ~Close(t, fd)
  BY DEF Claim, Close
<1>2. ~OpenFile(t) /\ ~MakePipe(t) /\ ~Dup(t) /\ ~DupFails(t)
  BY DEF OpenFile, MakePipe, Dup, DupFails
<1>3. ~Seal(t)
  <2> SUFFICES ASSUME Seal(t) PROVE FALSE
    OBVIOUS
  <2>1. pc' = [pc EXCEPT ![t] = "off"] \/ pc' = [pc EXCEPT ![t] = "close"]
    BY DEF Seal
  <2>2. QED BY <2>1
<1>4. ~CloseHeld(t) /\ ~CloseGot(t) /\ ~Return(t)
  BY DEF CloseHeld, CloseGot, Return
<1>5. \A dst, src \in Fds, move \in BOOLEAN : ~CopyTo(t, dst, src, move)
  BY DEF CopyTo
<1>6. ~SetFlag(t) /\ ~SetupFails(t) /\ ~ForkAndCleanup(t) /\ ~EndSpawn(t)
  BY DEF SetFlag, SetupFails, ForkAndCleanup, EndSpawn
<1>7. ~DropFd(t)
  BY DEF DropFd
<1>8. QED
  BY <1>1, <1>2, <1>3, <1>4, <1>5, <1>6, <1>7
     DEF Step, CreateStep, CopyStep, SpawnStep

LEMMA QuietStep ==
  ASSUME IInv, UInv, NEW t \in Threads, Step(t), NEW v \in Threads
  PROVE  Quiet(v)'
<1>1. TypeOK /\ LockInv /\ Quiet(v) /\ Frame(t)
  BY FrameStep DEF IInv, UInv
<1> SUFFICES ASSUME pc'[v] \in {"inherit", "stdout", "fork"}
             PROVE  \A u \in Threads : own'[u] \intersect Stdio \subseteq
                      (IF u = v THEN {call'[v].in, call'[v].out} ELSE {})
  BY DEF Quiet
<1>2. CASE v # t
  <2>1. pc[v] \in {"inherit", "stdout", "fork"} /\ call'[v] = call[v]
    BY <1>1, <1>2 DEF Frame
  <2>2. \E fd \in Fds : Close(t, fd)
    BY <1>1, <1>2, <2>1, OthersOnlyClose DEF SpawnPcs
  <2>3. \A u \in Threads : own'[u] \subseteq own[u]
    BY <1>1, <2>2 DEF Close, TypeOK
  <2>4. QED BY <1>1, <2>1, <2>3 DEF Quiet
<1>3. CASE v = t
  <2>1. ASSUME NEW c \in Calls(t), BeginSpawn(t, c)
        PROVE  \A u \in Threads : own'[u] \intersect Stdio \subseteq
                 (IF u = t THEN {call'[t].in, call'[t].out} ELSE {})
    <3>1. Claimed(t, c) /\ call'[t] = c /\ \A u \in Threads : own'[u] \subseteq own[u]
      BY <1>1, <2>1 DEF BeginSpawn, TypeOK
    <3>2. QED BY <3>1 DEF Claimed
  <2>2. CASE InheritFd(t) \/ SetupStdin(t) \/ SetupStdout(t)
    <3>1. pc[t] \in {"inherit", "stdout", "fork"} /\ own' = own /\ call' = call
      BY <2>2 DEF InheritFd, SetupStdin, SetupStdout, spawnVars
    <3>2. QED BY <1>1, <1>3, <3>1 DEF Quiet
  <2>3. QED BY <1>1, <1>3, <2>1, <2>2, TowardsFork
<1>4. QED BY <1>2, <1>3

(* What a close() by another thread leaves alone. *)
LEMMA MeantOther ==
  ASSUME IInv, UInv, NEW t \in Threads, Step(t), NEW v \in Threads \ {t}
  PROVE  Meant(v)'
<1>1. TypeOK /\ LockInv /\ Meant(v) /\ CallShape(v) /\ Frame(t) /\ UsedOnce
  BY FrameStep DEF IInv, UInv, Local
<1>2. pc'[v] = pc[v] /\ call'[v] = call[v] /\ pend'[v] = pend[v] /\ snap'[v] = snap[v]
  BY <1>1 DEF Frame
<1> SUFFICES ASSUME pc[v] \in {"inherit", "stdout", "fork"} PROVE Meant(v)'
  BY <1>2 DEF Meant
<1>3. PICK x \in Fds : Close(t, x)
  BY <1>1, OthersOnlyClose DEF SpawnPcs
<1>4. /\ x \in Uses(t) /\ x \in own[t] /\ cloexec' = cloexec \ {x}
      /\ tab' = [tab EXCEPT ![x] = Free]
  BY <1>3 DEF Close, Uses
<1>5. x \notin Uses(v)
  BY <1>1, <1>4 DEF UsedOnce
<1>6. x # 0 /\ x # 1
  BY <1>4, <1>5, SpawnAlone DEF Alone, Uses
<1>7. \A fd : fd # x => tab'[fd] = tab[fd]
  BY <1>1, <1>4 DEF TypeOK
<1>8. x \notin call[v].inh
  BY <1>5, SpawnUsesFacts DEF Uses
<1>9. call[v].in \in -1..MaxFd /\ call[v].out \in -1..MaxFd /\ x \notin -1..1
  BY <1>1, <1>6 DEF TypeOK, Fds
<1>10. /\ call[v].in \notin {1, 2} /\ call[v].out # 0
  BY <1>1 DEF CallShape, SpawnPcs
<1>11. pc[v] = "inherit" => x # call[v].in
  <2> SUFFICES ASSUME pc[v] = "inherit", x = call[v].in PROVE FALSE
    OBVIOUS
  <2>1. x \notin -1..2
    BY <1>6, <1>9, <1>10
  <2>2. x \in SpawnUses(v)
    BY <2>1, SpawnUsesFacts
  <2>3. QED BY <1>5, <2>2 DEF Uses
<1>12. pc[v] # "fork" /\ call[v].out \notin {-1, 2} => x # call[v].out
  <2> SUFFICES ASSUME pc[v] # "fork", x # 2, x = call[v].out PROVE FALSE
    OBVIOUS
  <2>1. x \notin -1..2
    BY <1>9
  <2>2. x \in SpawnUses(v)
    BY <2>1, SpawnUsesFacts
  <2>3. QED BY <1>5, <2>2 DEF Uses
<1>13. QED
  BY <1>1, <1>2, <1>4, <1>6, <1>7, <1>8, <1>11, <1>12 DEF Meant

(* What the spawning thread does itself. *)
LEMMA MeantOwn ==
  ASSUME IInv, UInv, NEW t \in Threads, Step(t)
  PROVE  Meant(t)'
<1>1. TypeOK /\ Meant(t) /\ CallShape(t) /\ tab \in [Fds -> Files]
  BY DEF IInv, UInv, Local, TypeOK
<1> SUFFICES ASSUME pc'[t] \in {"inherit", "stdout", "fork"} PROVE Meant(t)'
  BY DEF Meant
<1> USE DEF tableVars, lockVars, createVars, spawnVars
<1> DEFINE in == call[t].in
           out == call[t].out
<1>2. /\ in \in -1..MaxFd /\ out \in -1..MaxFd /\ call[t].inh \subseteq Fds
      /\ 0 \in Fds /\ 1 \in Fds /\ 2 \in Fds /\ 0 \in Stdio /\ 1 \in Stdio
      /\ \A fd \in -1..MaxFd : fd # -1 => fd \in Fds
  BY <1>1, FdsFacts DEF TypeOK, Stdio
<1>3. ASSUME NEW c \in Calls(t), BeginSpawn(t, c) PROVE Meant(t)'
  <2>1. /\ pc'[t] = "inherit" /\ call'[t] = c /\ pend'[t] = c.inh /\ tab' = tab
        /\ snap'[t] = [fd \in Fds |-> IF fd \in c.inh \union {c.in, c.out}
                                      THEN tab[fd] ELSE Free]
    BY <1>1, <1>3 DEF BeginSpawn, TypeOK
  <2>2. /\ c.inh \subseteq Fds /\ (c.in # -1 => c.in \in Fds)
        /\ c.out \notin {-1, 2} => c.out \in Fds
    BY <1>1, <1>2, CallsFacts DEF TypeOK
  <2>3. /\ \A fd \in c.inh : tab[fd] = snap'[t][fd]
        /\ c.in # -1 => tab[c.in] = snap'[t][c.in]
        /\ c.out \notin {-1, 2} => tab[c.out] = snap'[t][c.out]
    BY <2>1, <2>2
  <2>4. QED BY <2>1, <2>3 DEF Meant
<1>4. CASE InheritFd(t)
  <2>1. PICK x \in pend[t] : /\ cloexec' = cloexec \ {x}
                             /\ pend' = [pend EXCEPT ![t] = @ \ {x}]
    BY <1>4 DEF InheritFd
  <2>2. /\ pc[t] = "inherit" /\ pc' = pc /\ call' = call /\ snap' = snap /\ tab' = tab
        /\ pend'[t] = pend[t] \ {x}
    BY <1>1, <1>4, <2>1 DEF InheritFd, TypeOK
  <2>3. QED BY <1>1, <2>1, <2>2 DEF Meant
<1>5. CASE SetupStdin(t)
  <2>1. /\ pc[t] = "inherit" /\ pc'[t] = "stdout" /\ pend[t] = {}
        /\ UNCHANGED <<call, pend, snap>>
    BY <1>1, <1>5 DEF SetupStdin, TypeOK
  <2>2. /\ in \notin {1, 2} /\ out # 0 /\ (in = out => in = -1)
        /\ call[t].inh \intersect Stdio = {} /\ in \notin call[t].inh
    BY <1>1, <2>1 DEF CallShape, SpawnPcs
  <2>3. cloexec' \subseteq cloexec
    BY <1>5 DEF SetupStdin
  <2>4. /\ \A fd \in Fds : fd # 0 /\ fd # in => tab'[fd] = tab[fd]
        /\ tab'[0] = IF in = -1 THEN Empty ELSE tab[in]
    <3>1. CASE in = -1
      <4>1. tab' = [tab EXCEPT ![0] = Empty]
        BY <1>5, <3>1 DEF SetupStdin
      <4>2. QED BY <1>1, <1>2, <3>1, <4>1
    <3>2. CASE in = 0
      <4>1. tab' = tab
        BY <1>5, <3>2 DEF SetupStdin
      <4>2. QED BY <3>2, <4>1
    <3>3. CASE in \notin {-1, 0}
      <4>1. tab' = [tab EXCEPT ![0] = tab[in], ![in] = Free]
        BY <1>5, <3>3 DEF SetupStdin
      <4>2. in \in Fds /\ in # 0 /\ in # -1
        BY <1>2, <3>3
      <4>3. QED BY <1>1, <1>2, <4>1, <4>2
    <3>4. QED BY <3>1, <3>2, <3>3
  <2>5. \A fd \in call[t].inh : tab'[fd] = snap[t][fd] /\ fd \notin cloexec'
    BY <1>1, <1>2, <2>1, <2>2, <2>3, <2>4 DEF Meant
  <2>6. tab'[0] = IF in = -1 THEN Empty ELSE snap[t][in]
    BY <1>1, <2>1, <2>4 DEF Meant
  <2>7. out \notin {-1, 2} => tab'[out] = snap[t][out]
    BY <1>1, <1>2, <2>1, <2>2, <2>4 DEF Meant
  <2>8. QED BY <2>1, <2>5, <2>6, <2>7 DEF Meant
<1>6. CASE SetupStdout(t)
  <2>1. /\ pc[t] = "stdout" /\ pc'[t] = "fork" /\ UNCHANGED <<call, pend, snap>>
    BY <1>1, <1>6 DEF SetupStdout, TypeOK
  <2>2. /\ out # 0 /\ call[t].inh \intersect Stdio = {} /\ out \notin call[t].inh
    BY <1>1, <2>1 DEF CallShape, SpawnPcs
  <2>3. cloexec' \subseteq cloexec /\ tab[2] = 3
    BY <1>6 DEF SetupStdout, UInv, Stderr
  <2>4. /\ \A fd \in Fds : fd # 1 /\ fd # out => tab'[fd] = tab[fd]
        /\ tab'[1] = IF out = -1 THEN Empty ELSE tab[out]
    <3>1. CASE out = -1
      <4>1. tab' = [tab EXCEPT ![1] = Empty]
        BY <1>6, <3>1 DEF SetupStdout
      <4>2. QED BY <1>1, <1>2, <3>1, <4>1
    <3>2. CASE out = 1
      <4>1. tab' = tab
        BY <1>6, <3>2 DEF SetupStdout
      <4>2. QED BY <3>2, <4>1
    <3>3. CASE out = 2
      <4>1. tab' = [tab EXCEPT ![1] = tab[2]]
        BY <1>6, <3>3 DEF SetupStdout
      <4>2. QED BY <1>1, <1>2, <3>3, <4>1
    <3>4. CASE out \notin {-1, 1, 2}
      <4>1. tab' = [tab EXCEPT ![1] = tab[out], ![out] = Free]
        BY <1>6, <3>4 DEF SetupStdout
      <4>2. out \in Fds /\ out # 1 /\ out # -1
        BY <1>2, <3>4
      <4>3. QED BY <1>1, <1>2, <4>1, <4>2
    <3>5. QED BY <3>1, <3>2, <3>3, <3>4
  <2>5. \A fd \in call[t].inh : tab'[fd] = snap[t][fd] /\ fd \notin cloexec'
    BY <1>1, <1>2, <2>1, <2>2, <2>3, <2>4 DEF Meant
  <2>6. tab'[0] = IF in = -1 THEN Empty ELSE snap[t][in]
    BY <1>1, <1>2, <2>1, <2>2, <2>4 DEF Meant
  <2>7. tab'[1] = IF out = -1 THEN Empty ELSE IF out = 2 THEN 3 ELSE snap[t][out]
    BY <1>1, <2>1, <2>3, <2>4 DEF Meant
  <2>8. QED BY <2>1, <2>5, <2>6, <2>7 DEF Meant
<1>7. QED BY <1>1, <1>3, <1>4, <1>5, <1>6, TowardsFork

-----------------------------------------------------------------------------
(* The invariant. *)

LEMMA UseInit == Init => UInv
<1> SUFFICES ASSUME Init PROVE UInv
  OBVIOUS
<1>1. PICK open \in SUBSET {0, 1} :
        /\ tab = [fd \in Fds |-> IF fd \in open \union {2} THEN fd + 1 ELSE Free]
        /\ own = [t \in Threads |-> IF t = Main THEN open ELSE {}]
  BY DEF Init
<1>2. \A t \in Threads : /\ pc[t] = "idle" /\ raw[t] = <<>> /\ held[t] = <<>>
                         /\ got[t] = {}
  BY DEF Init
<1>3. \A t \in Threads : SpawnUses(t) = {}
  BY <1>2, SpawnUsesFacts DEF SpawnPcs
<1>4. \A t \in Threads : Uses(t) = IF t = Main THEN open ELSE {}
  BY <1>1, <1>2, <1>3, ShortSequences DEF Uses
<1>5. \A t \in Threads : Local(t) /\ Quiet(t) /\ Meant(t)
  BY <1>2, <1>3, ShortSequences
     DEF Local, Shape, Apart, CallShape, Quiet, Meant, SharedPcs, SpawnPcs
<1>6. /\ tab[2] = 3 /\ \A fd \in open : fd # 2 /\ tab[fd] # Free
      /\ \A fd \in Fds \ {2} : tab[fd] # Free => fd \in open
  <2>1. 0 \in Fds /\ 1 \in Fds /\ 2 \in Fds
    BY FdsFacts
  <2>2. QED BY <1>1, <2>1 DEF Free
<1>7. Main \in Threads
  BY FdAssumption
<1>8. UsedOnce /\ Stderr /\ Accounted
  BY <1>4, <1>6, <1>7 DEF UsedOnce, Stderr, Accounted
<1>9. QED BY <1>5, <1>8 DEF UInv

(* A step of t keeps the descriptors apart, and its own intact. *)
LEMMA UseStep ==
  ASSUME IInv, TypeOK', UInv, NEW t \in Threads, Step(t)
  PROVE  /\ UInv'
         /\ \A v \in Threads : \A fd \in Uses(v) :
              (pc'[v] = pc[v] /\ fd \in Uses(v)') => tab'[fd] = tab[fd]
<1>1. /\ TypeOK /\ UsedOnce /\ Stderr /\ Accounted /\ Frame(t)
      /\ Disciplined(t) /\ Local(t)' /\ \A v \in Threads : Local(v)
  BY ThreadStep, FrameStep DEF IInv, UInv
<1>2. \A v \in Threads \ {t} : Uses(v)' = Uses(v) /\ Local(v)'
  BY <1>1, FrameUses
<1>3. \A v \in Threads : Uses(v) \subseteq Fds
  BY <1>1, UsesAreFds
<1>4. \A v \in Threads \ {t} : \A fd \in Uses(v) : tab'[fd] = tab[fd] /\ fd \notin Uses(t)'
  BY <1>1, <1>3 DEF Disciplined, Alone, UsedOnce
<1>5. UsedOnce'
  <2>1. ASSUME NEW v \in Threads, NEW fd \in Uses(v)'
        PROVE  tab'[fd] # Free /\ \A u \in Threads \ {v} : fd \notin Uses(u)'
    <3>1. CASE v = t
      <4>1. tab'[fd] # Free /\ (fd \in Uses(t) \/ Alone(t, fd))
        BY <1>1, <2>1, <3>1 DEF Disciplined
      <4>2. Alone(t, fd)
        BY <1>1, <4>1 DEF UsedOnce, Alone
      <4>3. QED BY <1>2, <3>1, <4>1, <4>2 DEF Alone
    <3>2. CASE v # t
      <4>1. fd \in Uses(v)
        BY <1>2, <2>1, <3>2
      <4>2. QED BY <1>1, <1>2, <1>4, <3>2, <4>1 DEF UsedOnce
    <3>3. QED BY <3>1, <3>2
  <2>2. QED BY <2>1 DEF UsedOnce
<1>6. Stderr'
  BY <1>1, <1>2 DEF Stderr, Disciplined
<1>7. Accounted'
  <2> SUFFICES ASSUME NEW fd \in Fds \ {2}, tab'[fd] # Free, fd \notin lost'
               PROVE  \E u \in Threads : fd \in Uses(u)'
    BY DEF Accounted
  <2>1. CASE fd \in Uses(t)'
    BY <2>1
  <2>2. CASE fd \notin Uses(t)'
    <3>1. tab[fd] # Free /\ fd \notin Uses(t) \union lost
      BY <1>1, <2>2 DEF Disciplined
    <3>2. PICK u \in Threads : fd \in Uses(u)
      BY <1>1, <3>1 DEF Accounted
    <3>3. QED BY <1>2, <3>1, <3>2
  <2>3. QED BY <2>1, <2>2
<1>8. \A v \in Threads : Local(v)' /\ Quiet(v)' /\ Meant(v)'
  BY <1>1, <1>2, QuietStep, MeantOther, MeantOwn
<1>9. \A v \in Threads : \A fd \in Uses(v) :
        (pc'[v] = pc[v] /\ fd \in Uses(v)') => tab'[fd] = tab[fd]
  BY <1>1, <1>4 DEF Disciplined
<1>10. QED BY <1>5, <1>6, <1>7, <1>8, <1>9 DEF UInv

LEMMA UseUnchanged == UInv /\ UNCHANGED vars => UInv'
<1> SUFFICES ASSUME UInv, UNCHANGED vars PROVE UInv'
  OBVIOUS
<1> USE DEF vars, tableVars, lockVars, createVars, spawnVars
<1>1. \A t : SpawnUses(t)' = SpawnUses(t)
  BY DEF SpawnUses, Placed
<1>2. \A t : Uses(t)' = Uses(t)
  BY <1>1 DEF Uses
<1>3. UsedOnce' /\ Stderr' /\ Accounted'
  BY <1>2 DEF UInv, UsedOnce, Stderr, Accounted
<1>4. \A t \in Threads : Local(t)' /\ Quiet(t)' /\ Meant(t)'
  BY <1>1 DEF UInv, Local, Shape, Apart, CallShape, Quiet, Meant
<1>5. QED BY <1>3, <1>4 DEF UInv

LEMMA NextSteps == Next <=> \E t \in Threads : Step(t)
BY DEF Next, Step

LEMMA UseNext == IInv /\ TypeOK' /\ UInv /\ [Next]_vars => UInv'
BY UseStep, UseUnchanged, NextSteps

-----------------------------------------------------------------------------
(* The theorems. *)

(***************************************************************************)
(* What calls in progress work on, and how far each spawn has got, is as   *)
(* the invariant says in every reachable state.                            *)
(***************************************************************************)
THEOREM UseInvCorrect == Spec => []UInv
<1>1. Init => UInv
  BY UseInit
<1>2. IInv => TypeOK
  BY DEF IInv
<1>3. QED BY <1>1, <1>2, UseNext, InvCorrect, PTL DEF Spec

(***************************************************************************)
(* A descriptor that a thread owns, or that its call still works on, is    *)
(* open and no other thread's: close() in compat/fd.c never meets EBADF,   *)
(* and never closes what another thread has just been given.               *)
(***************************************************************************)
THEOREM DescriptorsUsedOnce == Spec => []UsedOnce
<1>1. UInv => UsedOnce
  BY DEF UInv
<1>2. QED BY <1>1, UseInvCorrect, PTL

(***************************************************************************)
(* A program spawned by fildesh_compat_fd_spawnvp() gets as its streams    *)
(* and inherited descriptors what these referred to when it was called.    *)
(***************************************************************************)
THEOREM ChildGetsItsStreams == Spec => []ChildStreams
<1>1. IInv /\ UInv => ChildStreams
  <2> SUFFICES ASSUME IInv, UInv, NEW t \in Threads, pc[t] = "fork"
               PROVE  /\ tab[0] = IF call[t].in = -1 THEN Empty ELSE snap[t][call[t].in]
                      /\ tab[1] = IF call[t].out = -1 THEN Empty
                                  ELSE IF call[t].out = 2 THEN 3
                                  ELSE snap[t][call[t].out]
                      /\ tab[2] = 3
                      /\ \A fd \in call[t].inh : fd \in Inherited /\ tab[fd] = snap[t][fd]
    BY DEF ChildStreams
  <2>1. Meant(t) /\ UsedOnce /\ Stderr /\ call[t].inh \subseteq Fds
    BY DEF UInv, IInv, TypeOK
  <2>2. call[t].inh \subseteq Uses(t)
    BY SpawnUsesFacts DEF Uses
  <2>3. \A fd \in call[t].inh : fd \in Inherited
    BY <2>1, <2>2 DEF Meant, UsedOnce, Inherited
  <2>4. QED BY <2>1, <2>3 DEF Meant, Stderr
<1>2. QED BY <1>1, InvCorrect, UseInvCorrect, PTL

(***************************************************************************)
(* Between calls every open descriptor has an owner, but for what a failed *)
(* spawn has left, and is close-on-exec above standard error.              *)
(***************************************************************************)
THEOREM EveryDescriptorOwned == Spec => []NothingForgotten
<1>1. IInv /\ UInv => NothingForgotten
  <2> SUFFICES ASSUME IInv, UInv, \A t \in Threads : pc[t] = "idle"
               PROVE  /\ \A fd \in Fds \ {2} : tab[fd] # Free =>
                           fd \in lost \union UNION {own[t] : t \in Threads}
                      /\ Inherited \subseteq Stdio
    BY DEF NothingForgotten
  <2>1. \A t \in Threads : Uses(t) = own[t]
    <3> TAKE t \in Threads
    <3>1. Shape(t) /\ SpawnUses(t) = {}
      BY SpawnUsesFacts DEF UInv, Local, SpawnPcs
    <3>2. raw[t] = <<>> /\ held[t] = <<>> /\ got[t] = {}
      BY <3>1 DEF Shape, SharedPcs
    <3>3. QED BY <3>1, <3>2, ShortSequences DEF Uses
  <2>2. \A t \in Threads : Exposes(t) = {}
    BY DEF Exposes, SharedPcs
  <2>3. QED BY <2>1, <2>2 DEF UInv, Accounted, IInv, Sealed
<1>2. QED BY <1>1, InvCorrect, UseInvCorrect, PTL

(***************************************************************************)
(* What a descriptor of a thread refers to does not change between two     *)
(* steps of the thread, whatever other threads open, copy and close.       *)
(***************************************************************************)
THEOREM DescriptorsIntact == Spec => UsesIntact
<1>1. IInv /\ TypeOK' /\ UInv /\ [Next]_vars =>
        [\A t \in Threads : \A fd \in Uses(t) :
           (pc'[t] = pc[t] /\ fd \in Uses(t)') => tab'[fd] = tab[fd]]_vars
  BY UseStep, NextSteps
<1>2. IInv => TypeOK
  BY DEF IInv
<1>3. QED BY <1>1, <1>2, InvCorrect, UseInvCorrect, PTL DEF Spec, UsesIntact
=============================================================================
