------------------------- MODULE ScriptStreamProofs -------------------------
(***************************************************************************)
(* Who has the descriptors of a script's streams, for every number of      *)
(* names, pipes, commands and arguments: each one that is open belongs to  *)
(* one record, thread or symbol, in one place.  Hence none is closed twice *)
(* and, when a section is spawned, its streams are as the script has them. *)
(***************************************************************************)
EXTENDS ScriptProofs

\* Scripts that name a standard stream once, and redirect what can be and
\* nothing has taken before.
Sensible == Habits \cap {"twice", "refused", "status", "errfiles", "reused", "below", "execfork"} = {}

LEMMA UsedUpFacts == Sensible => ~Redirects /\ \A sym : Used(sym) = NoSym
BY DEF Sensible, Used, Redirects

Records == 1 .. Len(cmds)

\* The ends of pipes that exist.
Made == {In, Out} \cup {R(p) : p \in 1 .. npipes} \cup {W(p) : p \in 1 .. npipes}

\* What symbols and the shell have, and no command yet.
SymbolFds(m) == {m[n].fd : n \in {x \in Names : m[x].kind \in Streams}}
Spare == SymbolFds(map) \cup SymbolFds(add_map) \cup ({stdin_fd} \ {-1})
           \cup (IF phase = "exit" THEN {} ELSE {Out})

\* What the shell has open for a thread.
Threaded(i) == IF thread[i] THEN Held(i) ELSE {}

\* Each descriptor has one owner.
Owned ==
    /\ open \subseteq Made /\ Spare \subseteq open
    /\ \A k \in Records : Ends(cmds[k]) \subseteq open /\ Ends(cmds[k]) \cap Spare = {}
    /\ \A k, l \in Records : k # l => Ends(cmds[k]) \cap Ends(cmds[l]) = {}
    /\ \A i \in Ids : Threaded(i) \subseteq open /\ Threaded(i) \cap Spare = {}
    /\ \A i \in Ids, k \in Records : Threaded(i) \cap Ends(cmds[k]) = {}
    /\ \A i, j \in Ids : i # j => Threaded(i) \cap Threaded(j) = {}
    /\ ~misclosed

\* And each one that is open has an owner.
Accounted ==
    exstatus \notin {65, 126} /\ Habits \cap {"noexec", "unused"} = {} =>
      \A x \in open : \/ x \in Spare \/ \E k \in Records : x \in Ends(cmds[k])
                      \/ \E i \in Ids : x \in Threaded(i)

\* No value but those of X is twice in a sequence.
Once(s, X) == \A x, y \in DOMAIN s : s[x] = s[y] /\ s[x] \notin X => x = y

Files(r) == ToSet(r.is) \cup ToSet(r.os) \cup ToSet(r.iargs)

\* A record has each of its descriptors in one place.
Distinct(r) ==
    /\ Once(r.is, {}) /\ Once(r.os, {}) /\ Once(r.iargs, {})
    /\ ToSet(r.is) \cap ToSet(r.os) = {} /\ ToSet(r.is) \cap ToSet(r.iargs) = {}
    /\ ToSet(r.os) \cap ToSet(r.iargs) = {}
    /\ {r.stdis, r.stdos, r.status_fd} \cap Files(r) = {}
    /\ r.stdis # -1 => r.stdis \notin {r.stdos, r.status_fd}
    /\ r.status_fd # -1 => r.status_fd # r.stdos

Fit(r) ==
    /\ Distinct(r)
    /\ r.exec_fd # -1 => ~forkonly
    /\ r.kind \notin {"RunCommand", "DefCommand"} => Ends(r) = {}
    /\ r.exit_fds \subseteq ToSet(r.os)

\* A command is told of a file once, and has it.
Told(r) == Once(r.args, {0, Err}) /\ ToSet(r.args) \ {0, Err} \subseteq ToSet(r.is) \cup ToSet(r.os)

Tasks ==
    /\ DOMAIN task = Ids
    /\ \A i \in Ids : Live(i) =>
        /\ task[i] \in Commands
        /\ task[i].exit_fds \subseteq ToSet(task[i].os)
        /\ task[i].exec_fd # -1 => task[i].exec_fd \in ToSet(task[i].is)
        /\ "unused" \notin Habits /\ task[i].kind = "DefCommand" => task[i].os # <<>>

\* What the loops over the commands have left behind.
Spent ==
    /\ phase = "spawn" => \A k \in Records : k < next => Ends(cmds[k]) = {}
    /\ phase = "wait" => \A k \in Records : k < next \/ exstatus \notin {65, 126} => Ends(cmds[k]) = {}
    /\ "unused" \notin Habits /\ phase = "spawn" =>
         \A k \in Records : k >= next /\ cmds[k].kind = "DefCommand" => cmds[k].os # <<>>
    /\ phase # "setup" /\ exstatus \notin {65, 126} => ~building
    /\ "dangling" \notin Habits /\ phase # "setup" /\ exstatus \notin {65, 126} =>
         \A n \in Names : ~Taken(n)
    /\ phase = "exit" => stdin_fd = -1 /\ cmds = <<>>

\* The writer of the stream s still has its other end, and is not to close it
\* for somebody else.
WrittenBy(s, cs) ==
    s.kind = "ODescVal" /\ s.cmd \in 1 .. Len(cs) /\ cs[s.cmd].id = s.id =>
      /\ s.ios = 0 => \/ s.fd = In /\ cs[s.cmd].kind = "StdinCommand"
                      \/ s.fd + 1 \in {cs[s.cmd].stdos, cs[s.cmd].status_fd}
      /\ s.ios > 0 => s.fd + 1 \in ToSet(cs[s.cmd].os)
      /\ s.fd + 1 \notin cs[s.cmd].exit_fds

\* A definition is an elastic of this section.
Defined(s, cs) ==
    s.kind = "DefVal" /\ s.cmd \in 1 .. Len(cs) /\ cs[s.cmd].id = s.id => cs[s.cmd].kind = "DefCommand"

\* The end that a symbol has is for nobody yet; the other is for its command.
Tagged(s, from, to) ==
    /\ s.kind = "ODescVal" =>
         \A p \in Pipes : s.fd = R(p) => to[p] = Nobody /\ from[p] = s.id /\ s.id > 0
    /\ s.kind = "IFutureDescVal" =>
         \A p \in Pipes : s.fd = W(p) => from[p] = Nobody /\ to[p] = s.id /\ s.id > 0

Meant ==
    \A p \in Pipes :
        /\ src[p] \in 0 .. base + Len(cmds) /\ dst[p] \in {ToStdout, ToStderr} \cup 0 .. base + Len(cmds)
        /\ p > npipes => src[p] = Nobody /\ dst[p] = Nobody
        /\ W(p) \in redirected <=> dst[p] = ToStdout
        /\ dst[p] = ToStderr => W(p) \notin open
        /\ dst[p] \in {ToStdout, ToStderr} => src[p] # Nobody

\* The streams so far are as the script has them.
Wired ==
    /\ \A k \in Records : Told(cmds[k])
    /\ \A n \in Names : /\ WrittenBy(map[n], cmds) /\ WrittenBy(add_map[n], cmds)
                        /\ Tagged(map[n], src, dst) /\ Tagged(add_map[n], src, dst)
                        /\ Defined(map[n], cmds)
    /\ \A k \in Records, p \in Pipes :
         /\ W(p) \in Ends(cmds[k]) => src[p] = base + k
         /\ R(p) \in Ends(cmds[k]) => dst[p] = base + k
    /\ \A k \in Records, p \in Pipes :
         /\ src[p] = base + k =>
              IF dst[p] = ToStderr THEN Err \in {cmds[k].stdos} \cup ToSet(cmds[k].args)
                                   ELSE W(p) \in Ends(cmds[k])
         /\ dst[p] = base + k => R(p) \in Ends(cmds[k])

\* A symbol may outlive its section.
Tags == \A n \in Names : Tagged(map[n], src, dst) /\ Tagged(add_map[n], src, dst)

OwnInv ==
    /\ Owned /\ Accounted /\ \A k \in Records : Fit(cmds[k])
    /\ Tasks /\ Spent /\ Meant
    /\ IF phase = "setup" THEN Wired ELSE Tags

-----------------------------------------------------------------------------
(* Sequences without repetitions. *)

LEMMA SeqFacts ==
    ASSUME NEW S, NEW s \in Seq(S)
    PROVE  /\ DOMAIN s = 1 .. Len(s) /\ Len(s) \in Nat /\ ToSet(s) \subseteq S
           /\ ToSet(s) = {s[x] : x \in 1 .. Len(s)}
<1>1. DOMAIN s = 1 .. Len(s) /\ Len(s) \in Nat /\ \A x \in 1 .. Len(s) : s[x] \in S
  BY LenProperties, ElementOfSeq
<1> QED BY <1>1 DEF ToSet

LEMMA OnceAppend ==
    ASSUME NEW S, NEW s \in Seq(S), NEW e \in S, NEW X, Once(s, X), e \notin ToSet(s)
    PROVE  Once(Append(s, e), X)
<1> DEFINE u == Append(s, e)
<1>1. /\ u \in Seq(S) /\ Len(u) = Len(s) + 1 /\ Len(s) \in Nat
      /\ u[Len(s) + 1] = e /\ \A x \in 1 .. Len(s) : u[x] = s[x]
  BY AppendFacts
<1>2. DOMAIN s = 1 .. Len(s) /\ DOMAIN u = 1 .. Len(s) + 1 /\ ToSet(s) = {s[x] : x \in 1 .. Len(s)}
  BY <1>1, SeqFacts
<1> HIDE DEF u
<1> SUFFICES ASSUME NEW x \in 1 .. Len(s) + 1, NEW y \in 1 .. Len(s) + 1, u[x] = u[y], u[x] \notin X
             PROVE  x = y
  BY <1>2 DEF Once, u
<1>3. CASE x \in 1 .. Len(s) /\ y \in 1 .. Len(s)
  BY <1>1, <1>2, <1>3 DEF Once
<1>4. CASE x = Len(s) + 1 /\ y = Len(s) + 1
  BY <1>4
<1>5. CASE x = Len(s) + 1 /\ y \in 1 .. Len(s)
  BY <1>1, <1>2, <1>5
<1>6. CASE x \in 1 .. Len(s) /\ y = Len(s) + 1
  BY <1>1, <1>2, <1>6
<1> QED BY <1>1, <1>3, <1>4, <1>5, <1>6

LEMMA OnceConcat ==
    ASSUME NEW S, NEW s \in Seq(S), NEW t \in Seq(S), NEW X,
           Once(s, X), Once(t, X), ToSet(s) \cap ToSet(t) = {}
    PROVE  /\ s \o t \in Seq(S) /\ ToSet(s \o t) = ToSet(s) \cup ToSet(t)
           /\ Once(s \o t, X)
<1> DEFINE u == s \o t
<1>1. /\ u \in Seq(S) /\ Len(u) = Len(s) + Len(t) /\ Len(s) \in Nat /\ Len(t) \in Nat
      /\ \A x \in 1 .. Len(s) + Len(t) : u[x] = IF x <= Len(s) THEN s[x] ELSE t[x - Len(s)]
  BY ConcatProperties, LenProperties
<1>2. /\ DOMAIN u = 1 .. Len(s) + Len(t) /\ DOMAIN s = 1 .. Len(s) /\ DOMAIN t = 1 .. Len(t)
      /\ ToSet(s) = {s[x] : x \in 1 .. Len(s)} /\ ToSet(t) = {t[x] : x \in 1 .. Len(t)}
      /\ ToSet(u) = {u[x] : x \in 1 .. Len(s) + Len(t)}
  BY <1>1, SeqFacts
<1> HIDE DEF u
<1>3. ASSUME NEW x \in 1 .. Len(s) + Len(t)
      PROVE  \/ x \in 1 .. Len(s) /\ u[x] = s[x] /\ u[x] \in ToSet(s)
             \/ x - Len(s) \in 1 .. Len(t) /\ u[x] = t[x - Len(s)] /\ u[x] \in ToSet(t)
  <2>1. CASE x <= Len(s)
    <3>1. x \in 1 .. Len(s) /\ u[x] = s[x]
      BY <1>1, <2>1
    <3> QED BY <1>2, <3>1
  <2>2. CASE ~(x <= Len(s))
    <3>1. x - Len(s) \in 1 .. Len(t) /\ u[x] = t[x - Len(s)]
      BY <1>1, <2>2
    <3> QED BY <1>2, <3>1
  <2> QED BY <2>1, <2>2
<1>4. ToSet(u) \subseteq ToSet(s) \cup ToSet(t)
  BY <1>2, <1>3
<1>5. ToSet(s) \subseteq ToSet(u)
  <2> SUFFICES ASSUME NEW x \in 1 .. Len(s) PROVE s[x] \in ToSet(u)
    BY <1>2
  <2>1. x \in 1 .. Len(s) + Len(t) /\ u[x] = s[x]
    BY <1>1
  <2> QED BY <1>2, <2>1
<1>6. ToSet(t) \subseteq ToSet(u)
  <2> SUFFICES ASSUME NEW x \in 1 .. Len(t) PROVE t[x] \in ToSet(u)
    BY <1>2
  <2>1. x + Len(s) \in 1 .. Len(s) + Len(t) /\ ~(x + Len(s) <= Len(s)) /\ (x + Len(s)) - Len(s) = x
    BY <1>1
  <2>2. u[x + Len(s)] = t[x]
    BY <1>1, <2>1
  <2> QED BY <1>2, <2>1, <2>2
<1>7. Once(u, X)
  <2> SUFFICES ASSUME NEW x \in 1 .. Len(s) + Len(t), NEW y \in 1 .. Len(s) + Len(t),
                      u[x] = u[y], u[x] \notin X
               PROVE  x = y
    BY <1>2 DEF Once
  <2>1. CASE x \in 1 .. Len(s) /\ u[x] = s[x] /\ u[x] \in ToSet(s)
    <3>1. u[y] \notin ToSet(t)
      BY <2>1
    <3>2. y \in 1 .. Len(s) /\ u[y] = s[y]
      BY <1>3, <3>1
    <3> QED BY <1>2, <2>1, <3>2 DEF Once
  <2>2. CASE x - Len(s) \in 1 .. Len(t) /\ u[x] = t[x - Len(s)] /\ u[x] \in ToSet(t)
    <3>1. u[y] \notin ToSet(s)
      BY <2>2
    <3>2. y - Len(s) \in 1 .. Len(t) /\ u[y] = t[y - Len(s)]
      BY <1>3, <3>1
    <3>3. x - Len(s) = y - Len(s)
      BY <1>2, <2>2, <3>2 DEF Once
    <3> QED BY <1>1, <3>3
  <2> QED BY <1>3, <2>1, <2>2
<1> QED BY <1>1, <1>4, <1>5, <1>6, <1>7 DEF u

LEMMA OnceRemoveAt ==
    ASSUME NEW S, NEW s \in Seq(S), NEW i \in 1 .. Len(s), Once(s, {})
    PROVE  /\ RemoveAt(s, i) \in Seq(S) /\ ToSet(RemoveAt(s, i)) = ToSet(s) \ {s[i]}
           /\ Once(RemoveAt(s, i), {})
<1> DEFINE a == SubSeq(s, 1, i - 1)
<1> DEFINE b == SubSeq(s, i + 1, Len(s))
<1>1. /\ Len(s) \in Nat /\ DOMAIN s = 1 .. Len(s) /\ ToSet(s) = {s[x] : x \in 1 .. Len(s)}
      /\ \A x \in 1 .. Len(s) : s[x] \in S
  BY SeqFacts, ElementOfSeq
<1>2. a \in Seq(S) /\ Len(a) = i - 1 /\ \A x \in 1 .. i - 1 : a[x] = s[x]
  <2>1. \A x \in 1 .. i - 1 : s[x] \in S
    BY <1>1
  <2> QED BY <1>1, <2>1, SubSeqProperties
<1>3. b \in Seq(S) /\ Len(b) = Len(s) - i /\ \A x \in 1 .. Len(s) - i : b[x] = s[i + x]
  <2> DEFINE m == i + 1
  <2>1. m \in Int /\ Len(s) \in Int /\ \A x \in m .. Len(s) : s[x] \in S
    BY <1>1
  <2>2. /\ (IF m <= Len(s) THEN Len(s) - m + 1 ELSE 0) = Len(s) - i /\ Len(s) - m + 1 = Len(s) - i
        /\ \A x \in 1 .. Len(s) - i : m + x - 1 = i + x
    <3> DEFINE l == Len(s)
    <3>1. l \in Int /\ i \in Int /\ i <= l
      BY <1>1
    <3> HIDE DEF l, a, b
    <3>2. /\ (IF m <= l THEN l - m + 1 ELSE 0) = l - i /\ l - m + 1 = l - i
          /\ \A x \in 1 .. l - i : m + x - 1 = i + x
      BY <3>1
    <3> QED BY <3>2 DEF l
  <2>3. b = SubSeq(s, m, Len(s))
    OBVIOUS
  <2> HIDE DEF b, m
  <2>4. /\ b \in Seq(S) /\ Len(b) = (IF m <= Len(s) THEN Len(s) - m + 1 ELSE 0)
        /\ \A x \in 1 .. Len(s) - m + 1 : b[x] = s[m + x - 1]
    BY <2>1, <2>3, SubSeqProperties
  <2> QED BY <2>2, <2>4
<1>4. /\ DOMAIN a = 1 .. i - 1 /\ ToSet(a) = {a[x] : x \in 1 .. i - 1}
      /\ DOMAIN b = 1 .. Len(s) - i /\ ToSet(b) = {b[x] : x \in 1 .. Len(s) - i}
  <2> HIDE DEF a, b
  <2>1. DOMAIN a = 1 .. i - 1 /\ ToSet(a) = {a[x] : x \in 1 .. i - 1}
    BY <1>2, SeqFacts
  <2>2. DOMAIN b = 1 .. Len(s) - i /\ ToSet(b) = {b[x] : x \in 1 .. Len(s) - i}
    BY <1>3, SeqFacts
  <2> QED BY <2>1, <2>2
<1> HIDE DEF a, b
<1>5. \A x, y \in 1 .. Len(s) : s[x] = s[y] => x = y
  BY <1>1 DEF Once
<1>6. Once(a, {}) /\ Once(b, {})
  <2>1. ASSUME NEW x \in 1 .. i - 1, NEW y \in 1 .. i - 1, a[x] = a[y] PROVE x = y
    BY <1>1, <1>2, <1>5, <2>1
  <2>2. ASSUME NEW x \in 1 .. Len(s) - i, NEW y \in 1 .. Len(s) - i, b[x] = b[y] PROVE x = y
    <3>1. i + x \in 1 .. Len(s) /\ i + y \in 1 .. Len(s) /\ s[i + x] = s[i + y]
      BY <1>1, <1>3, <2>2
    <3>2. i + x = i + y
      BY <1>5, <3>1
    <3> QED BY <1>1, <3>2
  <2> QED BY <1>4, <2>1, <2>2 DEF Once
<1>7. ASSUME NEW e \in ToSet(a) PROVE e \in ToSet(s) /\ e # s[i] /\ e \notin ToSet(b)
  <2>1. PICK x \in 1 .. i - 1 : e = s[x]
    BY <1>2, <1>4, <1>7
  <2>2. x \in 1 .. Len(s) /\ x # i
    BY <1>1
  <2>3. ASSUME NEW y \in 1 .. Len(s) - i PROVE b[y] # e
    <3>1. i + y \in 1 .. Len(s) /\ b[y] = s[i + y] /\ i + y # x
      BY <1>1, <1>3
    <3> QED BY <1>5, <2>1, <2>2, <3>1
  <2> QED BY <1>1, <1>4, <1>5, <2>1, <2>2, <2>3
<1>8. ASSUME NEW e \in ToSet(b) PROVE e \in ToSet(s) /\ e # s[i]
  <2>1. PICK x \in 1 .. Len(s) - i : e = s[i + x]
    BY <1>3, <1>4, <1>8
  <2>2. i + x \in 1 .. Len(s) /\ i + x # i
    BY <1>1
  <2> QED BY <1>1, <1>5, <2>1, <2>2
<1>9. ASSUME NEW e \in ToSet(s), e # s[i] PROVE e \in ToSet(a) \cup ToSet(b)
  <2>1. PICK x \in 1 .. Len(s) : e = s[x]
    BY <1>1, <1>9
  <2>2. CASE x < i
    <3>1. x \in 1 .. i - 1
      BY <1>1, <2>2
    <3> QED BY <1>2, <1>4, <2>1, <3>1
  <2>3. CASE x > i
    <3>1. x - i \in 1 .. Len(s) - i /\ b[x - i] = s[x]
      BY <1>1, <1>3, <2>3
    <3> QED BY <1>4, <2>1, <3>1
  <2> QED BY <1>1, <1>9, <2>1, <2>2, <2>3
<1>10. /\ a \o b \in Seq(S) /\ ToSet(a \o b) = ToSet(a) \cup ToSet(b) /\ Once(a \o b, {})
  BY <1>2, <1>3, <1>6, <1>7, OnceConcat
<1>11. RemoveAt(s, i) = a \o b
  BY DEF RemoveAt, a, b
<1> QED BY <1>7, <1>8, <1>9, <1>10, <1>11

-----------------------------------------------------------------------------
(***************************************************************************)
(* What a record is given or loses.                                        *)
(***************************************************************************)

LEMMA EndsFacts ==
    ASSUME NEW a \in Commands
    PROVE  /\ Ends(a) = ({a.stdis, a.stdos, a.status_fd} \ {-1, Err}) \cup Files(a)
           /\ Ends(a) \subseteq Fds /\ Files(a) \subseteq Fds /\ -1 \notin Fds /\ Err \notin Fds
           /\ ToSet(a.is) \subseteq Files(a) /\ ToSet(a.os) \subseteq Files(a) /\ ToSet(a.iargs) \subseteq Files(a)
<1>1. -1 \notin Fds /\ Err \notin Fds
  BY FdFacts
<1>2. /\ a.stdis \in Fds \cup {-1} /\ a.stdos \in Fds \cup {-1, Err} /\ a.status_fd \in Fds \cup {-1}
      /\ a.is \in Seq(Fds) /\ a.os \in Seq(Fds) /\ a.iargs \in Seq(Fds)
  BY DEF Commands
<1>3. ToSet(a.is) \subseteq Fds /\ ToSet(a.os) \subseteq Fds /\ ToSet(a.iargs) \subseteq Fds
  BY <1>2, SeqFacts
<1> QED BY <1>1, <1>2, <1>3 DEF Ends, Files

LEMMA LowestFd == \A fd \in Fds : fd \in Int /\ fd > 2
<1>1. \A p \in Pipes : R(p) \in Int /\ R(p) > 2 /\ W(p) \in Int /\ W(p) > 2
  BY DEF R, W, Pipes
<1> QED BY <1>1 DEF Fds, In, Out

\* A command that can be given streams.
Ready(a) == a \in Commands /\ Fit(a) /\ Told(a) /\ a.kind \in {"RunCommand", "DefCommand"}

\* The record a becomes b, which has the descriptors F besides, and may have
\* to close those of X for others.
More(a, b, F, X) ==
    /\ Fit(b) /\ Told(b) /\ Ends(b) = Ends(a) \cup F
    /\ b.id = a.id /\ b.kind = a.kind
    /\ ToSet(a.os) \subseteq ToSet(b.os)
    /\ a.stdos # -1 => b.stdos = a.stdos
    /\ a.status_fd # -1 => b.status_fd = a.status_fd
    /\ b.exit_fds \subseteq a.exit_fds \cup X
    /\ Err \in ToSet(a.args) => Err \in ToSet(b.args)

LEMMA MoreSame ==
    ASSUME NEW a, Fit(a), Told(a), NEW X
    PROVE  More(a, a, {}, X)
BY DEF More

LEMMA MoreTwice ==
    ASSUME NEW a, NEW b, NEW d, NEW F, NEW G, NEW X, NEW Y, More(a, b, F, X), More(b, d, G, Y)
    PROVE  More(a, d, F \cup G, X \cup Y)
<1>1. Ends(d) = Ends(a) \cup (F \cup G) /\ d.exit_fds \subseteq a.exit_fds \cup (X \cup Y)
  BY DEF More
<1> QED BY <1>1 DEF More

LEMMA MoreStandard ==
    ASSUME NEW a, Ready(a), NEW fd \in Fds, fd \notin Ends(a), NEW b,
           \/ b = [a EXCEPT !.stdis = fd] /\ a.stdis = -1
           \/ b = [a EXCEPT !.stdos = fd] /\ a.stdos = -1
           \/ b = [a EXCEPT !.status_fd = fd] /\ a.status_fd = -1
    PROVE  b \in Commands /\ More(a, b, {fd}, {})
<1>1. a \in Commands
  BY DEF Ready
<1>2. b \in Commands
  BY <1>1 DEF Commands
<1>3. /\ b.os = a.os /\ b.is = a.is /\ b.iargs = a.iargs /\ b.args = a.args /\ b.exit_fds = a.exit_fds
      /\ b.exec_fd = a.exec_fd /\ b.kind = a.kind /\ b.id = a.id
      /\ \/ b.stdis = fd /\ a.stdis = -1 /\ b.stdos = a.stdos /\ b.status_fd = a.status_fd
         \/ b.stdos = fd /\ a.stdos = -1 /\ b.stdis = a.stdis /\ b.status_fd = a.status_fd
         \/ b.status_fd = fd /\ a.status_fd = -1 /\ b.stdis = a.stdis /\ b.stdos = a.stdos
  BY <1>1 DEF Commands
<1>4. /\ Ends(a) = ({a.stdis, a.stdos, a.status_fd} \ {-1, Err}) \cup Files(a)
      /\ Ends(b) = ({b.stdis, b.stdos, b.status_fd} \ {-1, Err}) \cup Files(a)
      /\ fd # -1 /\ fd # Err
  <2>1. Files(b) = Files(a)
    BY <1>3 DEF Files
  <2> QED BY <1>1, <1>2, <2>1, EndsFacts
<1>5. Ends(b) = Ends(a) \cup {fd}
  BY <1>3, <1>4
<1>6. Distinct(b)
  <2>1. fd \notin Files(a) /\ fd \notin {a.stdis, a.stdos, a.status_fd}
    BY <1>4
  <2>2. Distinct(a)
    BY DEF Ready, Fit
  <2>3. Files(b) = Files(a)
    BY <1>3 DEF Files
  <2>4. {b.stdis, b.stdos, b.status_fd} \cap Files(b) = {}
    BY <1>3, <2>1, <2>2, <2>3 DEF Distinct
  <2> QED BY <1>3, <1>4, <2>1, <2>2, <2>4 DEF Distinct
<1>7. Fit(b)
  BY <1>3, <1>6 DEF Ready, Fit
<1>8. Told(b)
  BY <1>3 DEF Ready, Told
<1> QED BY <1>2, <1>3, <1>5, <1>7, <1>8 DEF More

LEMMA MoreFiles ==
    ASSUME NEW a, Ready(a), NEW fd \in Fds, fd \notin Ends(a), NEW b \in Commands,
           b.exit_fds = a.exit_fds, b.kind = a.kind, b.id = a.id,
           b.stdis = a.stdis, b.stdos = a.stdos, b.status_fd = a.status_fd,
           b.exec_fd = a.exec_fd \/ ~forkonly,
           \/ b.iargs = Append(a.iargs, fd) /\ b.is = a.is /\ b.os = a.os /\ b.args = a.args
           \/ b.is = Append(a.is, fd) /\ b.iargs = a.iargs /\ b.os = a.os /\ b.args = a.args
           \/ b.is = Append(a.is, fd) /\ b.iargs = a.iargs /\ b.os = a.os /\ b.args = Append(a.args, fd)
           \/ b.os = Append(a.os, fd) /\ b.iargs = a.iargs /\ b.is = a.is /\ b.args = Append(a.args, fd)
    PROVE  More(a, b, {fd}, {})
<1>1. a \in Commands
  BY DEF Ready
<1>2. Distinct(a) /\ Told(a)
  BY DEF Ready, Fit
<1>3. /\ Ends(a) = ({a.stdis, a.stdos, a.status_fd} \ {-1, Err}) \cup Files(a)
      /\ Ends(b) = ({a.stdis, a.stdos, a.status_fd} \ {-1, Err}) \cup Files(b)
      /\ fd # -1 /\ fd # Err /\ fd # 0 /\ fd \in Int
  BY <1>1, EndsFacts, LowestFd, FdFacts
<1>4. fd \notin Files(a) /\ fd \notin {a.stdis, a.stdos, a.status_fd}
  BY <1>3
<1>5. fd \notin ToSet(a.is) /\ fd \notin ToSet(a.os) /\ fd \notin ToSet(a.iargs)
  BY <1>4 DEF Files
<1>6. fd \notin ToSet(a.args)
  BY <1>2, <1>3, <1>5 DEF Told
<1>7. ASSUME NEW s \in Seq(Fds), Once(s, {}), fd \notin ToSet(s)
      PROVE  ToSet(Append(s, fd)) = ToSet(s) \cup {fd} /\ Once(Append(s, fd), {})
  BY <1>7, AppendFacts, OnceAppend
<1>8. a.is \in Seq(Fds) /\ a.os \in Seq(Fds) /\ a.iargs \in Seq(Fds) /\ a.args \in Seq(Int)
  BY <1>1 DEF Commands
<1>9. /\ Once(a.is, {}) /\ Once(a.os, {}) /\ Once(a.iargs, {}) /\ Once(a.args, {0, Err})
      /\ ToSet(a.is) \cap ToSet(a.os) = {} /\ ToSet(a.is) \cap ToSet(a.iargs) = {}
      /\ ToSet(a.os) \cap ToSet(a.iargs) = {}
  BY <1>2 DEF Distinct, Told
<1>10. ToSet(Append(a.is, fd)) = ToSet(a.is) \cup {fd} /\ Once(Append(a.is, fd), {})
  BY <1>5, <1>7, <1>8, <1>9
<1>11. ToSet(Append(a.os, fd)) = ToSet(a.os) \cup {fd} /\ Once(Append(a.os, fd), {})
  BY <1>5, <1>7, <1>8, <1>9
<1>12. ToSet(Append(a.iargs, fd)) = ToSet(a.iargs) \cup {fd} /\ Once(Append(a.iargs, fd), {})
  BY <1>5, <1>7, <1>8, <1>9
<1>13. ToSet(Append(a.args, fd)) = ToSet(a.args) \cup {fd}
  BY <1>3, <1>8, AppendFacts
<1>14. Once(Append(a.args, fd), {0, Err})
  BY <1>3, <1>6, <1>8, <1>9, OnceAppend
<1> DEFINE Lists(s1, s2, s3) == /\ Once(s1, {}) /\ Once(s2, {}) /\ Once(s3, {})
                                /\ ToSet(s1) \cap ToSet(s2) = {} /\ ToSet(s1) \cap ToSet(s3) = {}
                                /\ ToSet(s2) \cap ToSet(s3) = {}
<1>15. /\ Lists(b.is, b.os, b.iargs)
       /\ Files(b) = Files(a) \cup {fd} /\ ToSet(a.os) \subseteq ToSet(b.os)
  <2>1. CASE b.iargs = Append(a.iargs, fd) /\ b.is = a.is /\ b.os = a.os
    BY <1>5, <1>9, <1>12, <2>1 DEF Files
  <2>2. CASE b.is = Append(a.is, fd) /\ b.iargs = a.iargs /\ b.os = a.os
    BY <1>5, <1>9, <1>10, <2>2 DEF Files
  <2>3. CASE b.os = Append(a.os, fd) /\ b.is = a.is /\ b.iargs = a.iargs
    BY <1>5, <1>9, <1>11, <2>3 DEF Files
  <2> QED BY <2>1, <2>2, <2>3
<1>16. /\ Once(b.args, {0, Err}) /\ ToSet(b.args) \ {0, Err} \subseteq ToSet(b.is) \cup ToSet(b.os)
       /\ ToSet(a.args) \subseteq ToSet(b.args)
  <2>1. CASE b.args = a.args /\ ToSet(a.is) \subseteq ToSet(b.is)
    BY <1>2, <1>15, <2>1 DEF Told
  <2>2. CASE b.args = Append(a.args, fd) /\ fd \in ToSet(b.is) \cup ToSet(b.os) /\ ToSet(a.is) \subseteq ToSet(b.is)
    BY <1>2, <1>13, <1>14, <1>15, <2>2 DEF Told
  <2> QED BY <1>10, <1>11, <2>1, <2>2
<1>17. Distinct(b)
  BY <1>2, <1>4, <1>15 DEF Distinct
<1>18. Ends(b) = Ends(a) \cup {fd}
  BY <1>3, <1>15
<1>19. Fit(b)
  <2>1. Fit(a) /\ a.kind \in {"RunCommand", "DefCommand"}
    BY DEF Ready
  <2> QED BY <1>15, <1>17, <2>1 DEF Fit
<1>20. Told(b)
  BY <1>16 DEF Told
<1> QED BY <1>15, <1>16, <1>18, <1>19, <1>20 DEF More

LEMMA MoreText ==
    ASSUME NEW a, Ready(a), NEW fd \in Fds, fd \notin Ends(a), NEW b, b = [a EXCEPT !.iargs = Append(a.iargs, fd)]
    PROVE  b \in Commands /\ More(a, b, {fd}, {})
<1>1. a \in Commands
  BY DEF Ready
<1>2. Append(a.iargs, fd) \in Seq(Fds)
  BY <1>1, AppendFacts DEF Commands
<1>3. b \in Commands
  BY <1>1, <1>2 DEF Commands
<1>4. /\ b.exit_fds = a.exit_fds /\ b.kind = a.kind /\ b.id = a.id
      /\ b.stdis = a.stdis /\ b.stdos = a.stdos /\ b.status_fd = a.status_fd /\ b.exec_fd = a.exec_fd
      /\ b.iargs = Append(a.iargs, fd) /\ b.is = a.is /\ b.os = a.os /\ b.args = a.args
  BY <1>1 DEF Commands
<1> QED BY <1>3, <1>4, MoreFiles

LEMMA MoreRead ==
    ASSUME NEW a, Ready(a), NEW fd \in Fds, fd \notin Ends(a),
           NEW b, b = [a EXCEPT !.is = Append(a.is, fd), !.args = Append(a.args, fd)]
    PROVE  b \in Commands /\ More(a, b, {fd}, {})
<1>1. a \in Commands
  BY DEF Ready
<1>2. Append(a.is, fd) \in Seq(Fds) /\ Append(a.args, fd) \in Seq(Int)
  BY <1>1, AppendFacts, FdFacts DEF Commands
<1>3. b \in Commands
  BY <1>1, <1>2 DEF Commands
<1>4. /\ b.exit_fds = a.exit_fds /\ b.kind = a.kind /\ b.id = a.id
      /\ b.stdis = a.stdis /\ b.stdos = a.stdos /\ b.status_fd = a.status_fd /\ b.exec_fd = a.exec_fd
      /\ b.iargs = a.iargs /\ b.is = Append(a.is, fd) /\ b.os = a.os /\ b.args = Append(a.args, fd)
  BY <1>1 DEF Commands
<1> QED BY <1>3, <1>4, MoreFiles

LEMMA MoreWritten ==
    ASSUME NEW a, Ready(a), NEW fd \in Fds, fd \notin Ends(a),
           NEW b, b = [a EXCEPT !.os = Append(a.os, fd), !.args = Append(a.args, fd)]
    PROVE  b \in Commands /\ More(a, b, {fd}, {}) /\ fd \in ToSet(b.os)
<1>1. a \in Commands
  BY DEF Ready
<1>2. Append(a.os, fd) \in Seq(Fds) /\ ToSet(Append(a.os, fd)) = ToSet(a.os) \cup {fd}
  BY <1>1, AppendFacts DEF Commands
<1>3. Append(a.args, fd) \in Seq(Int)
  BY <1>1, AppendFacts, FdFacts DEF Commands
<1>4. b \in Commands
  BY <1>1, <1>2, <1>3 DEF Commands
<1>5. /\ b.exit_fds = a.exit_fds /\ b.kind = a.kind /\ b.id = a.id
      /\ b.stdis = a.stdis /\ b.stdos = a.stdos /\ b.status_fd = a.status_fd /\ b.exec_fd = a.exec_fd
      /\ b.iargs = a.iargs /\ b.is = a.is /\ b.os = Append(a.os, fd) /\ b.args = Append(a.args, fd)
  BY <1>1 DEF Commands
<1>6. More(a, b, {fd}, {})
  BY <1>4, <1>5, MoreFiles
<1> QED BY <1>2, <1>4, <1>5, <1>6

LEMMA MoreExecuted ==
    ASSUME NEW a, Ready(a), NEW fd \in Fds, fd \notin Ends(a), ~forkonly, NEW bytes \in BOOLEAN,
           NEW b, b = [a EXCEPT !.is = Append(a.is, fd), !.exec_fd = fd, !.has_bytes = bytes]
    PROVE  b \in Commands /\ More(a, b, {fd}, {})
<1>1. a \in Commands
  BY DEF Ready
<1>2. Append(a.is, fd) \in Seq(Fds)
  BY <1>1, AppendFacts DEF Commands
<1>3. b \in Commands
  BY <1>1, <1>2 DEF Commands
<1>4. /\ b.exit_fds = a.exit_fds /\ b.kind = a.kind /\ b.id = a.id
      /\ b.stdis = a.stdis /\ b.stdos = a.stdos /\ b.status_fd = a.status_fd
      /\ b.iargs = a.iargs /\ b.is = Append(a.is, fd) /\ b.os = a.os /\ b.args = a.args
  BY <1>1 DEF Commands
<1> QED BY <1>3, <1>4, MoreFiles

\* An output that becomes a file is closed by its command when it exits.
LEMMA MoreFreed ==
    ASSUME NEW a, Ready(a), NEW x \in 1 .. Len(a.args), NEW fd, fd = a.args[x], fd \in ToSet(a.os), NEW b,
           b = [a EXCEPT !.exit_fds = a.exit_fds \cup {fd}, !.args[x] = 0]
    PROVE  b \in Commands /\ More(a, b, {}, {fd})
<1>1. a \in Commands
  BY DEF Ready
<1>2. a.args \in Seq(Int) /\ a.exit_fds \in SUBSET Int /\ ToSet(a.os) \subseteq Fds /\ Fds \subseteq Int
      /\ Err \notin Fds
  <2>1. a.os \in Seq(Fds) /\ a.args \in Seq(Int) /\ a.exit_fds \in SUBSET Int
    BY <1>1 DEF Commands
  <2> QED BY <2>1, SeqFacts, FdFacts
<1> DEFINE args == [a.args EXCEPT ![x] = 0]
<1>3. /\ args \in Seq(Int) /\ Len(args) = Len(a.args)
      /\ \A j \in 1 .. Len(a.args) : args[j] = IF j = x THEN 0 ELSE a.args[j]
  BY <1>2, UpdateFacts
<1> DEFINE exit == a.exit_fds \cup {fd}
<1>4. b = [a EXCEPT !.exit_fds = exit, !.args = args] /\ exit \in SUBSET Int
  BY <1>2
<1> HIDE DEF args, exit
<1>5. b \in Commands
  BY <1>1, <1>3, <1>4 DEF Commands
<1>6. /\ b.exit_fds = a.exit_fds \cup {fd} /\ b.kind = a.kind /\ b.id = a.id
      /\ b.stdis = a.stdis /\ b.stdos = a.stdos /\ b.status_fd = a.status_fd
      /\ b.exec_fd = a.exec_fd /\ b.iargs = a.iargs /\ b.is = a.is /\ b.os = a.os /\ b.args = args
  BY <1>1, <1>4 DEF Commands, exit
<1>7. Files(b) = Files(a) /\ Ends(b) = Ends(a)
  BY <1>6 DEF Files, Ends
<1>8. Fit(b)
  BY <1>6, <1>7 DEF Ready, Fit, Distinct
<1>9. /\ DOMAIN args = 1 .. Len(a.args) /\ DOMAIN a.args = 1 .. Len(a.args)
      /\ ToSet(args) = {args[j] : j \in 1 .. Len(a.args)}
      /\ ToSet(a.args) = {a.args[j] : j \in 1 .. Len(a.args)}
  BY <1>2, <1>3, SeqFacts
<1>10. ToSet(args) \subseteq ToSet(a.args) \cup {0} /\ (Err \in ToSet(a.args) => Err \in ToSet(args))
  BY <1>2, <1>3, <1>9
<1>11. Once(args, {0, Err})
  <2>1. Once(a.args, {0, Err})
    BY DEF Ready, Told
  <2> QED BY <1>3, <1>9, <2>1 DEF Once
<1>12. Told(b)
  BY <1>6, <1>10, <1>11 DEF Ready, Told
<1> QED BY <1>5, <1>6, <1>7, <1>8, <1>10, <1>12 DEF More

-----------------------------------------------------------------------------
(***************************************************************************)
(* Where descriptors go.                                                   *)
(***************************************************************************)

\* Those of L are closed, those of F are opened, and the record k gets g[k].
Moves(L, F, g) ==
    /\ L \subseteq open /\ F \cap open = {} /\ open' = (open \ L) \cup F
    /\ Made \subseteq Made' /\ F \subseteq Made' /\ ~misclosed'
    /\ \A k \in Records' :
         /\ Ends(cmds'[k]) \subseteq ((IF k \in Records THEN Ends(cmds[k]) ELSE {}) \ L) \cup g[k]
         /\ g[k] \subseteq (Spare \ L) \cup F /\ g[k] \cap Spare' = {}
         /\ \A l \in Records' : k # l => g[k] \cap g[l] = {}
    /\ Spare' \subseteq (Spare \ L) \cup F
    /\ \A i \in Ids : Threaded(i)' \subseteq Threaded(i) \ L

LEMMA OwnedMoves ==
    ASSUME Owned, NEW L, NEW F, NEW g, Moves(L, F, g)
    PROVE  Owned'
<1> USE DEF Moves
<1> DEFINE E(k) == IF k \in Records THEN Ends(cmds[k]) ELSE {}
<1>1. /\ open \subseteq Made /\ Spare \subseteq open /\ ~misclosed
      /\ \A k : E(k) \subseteq open /\ E(k) \cap Spare = {}
      /\ \A k, l : k # l => E(k) \cap E(l) = {}
      /\ \A i \in Ids : Threaded(i) \subseteq open /\ Threaded(i) \cap Spare = {}
      /\ \A i \in Ids, k \in Records : Threaded(i) \cap Ends(cmds[k]) = {}
      /\ \A i, j \in Ids : i # j => Threaded(i) \cap Threaded(j) = {}
  BY DEF Owned
<1>2. \A i \in Ids : \A k : Threaded(i) \cap E(k) = {}
  BY <1>1
<1>3. \A k \in Records' : Ends(cmds'[k]) \subseteq (E(k) \ L) \cup g[k]
  OBVIOUS
<1> HIDE DEF E
<1>4. open' \subseteq Made' /\ Spare' \subseteq open' /\ ~misclosed'
  BY <1>1
<1>5. ASSUME NEW k \in Records' PROVE Ends(cmds'[k]) \subseteq open' /\ Ends(cmds'[k]) \cap Spare' = {}
  <2>1. E(k) \subseteq open /\ E(k) \cap Spare = {} /\ Ends(cmds'[k]) \subseteq (E(k) \ L) \cup g[k]
        /\ g[k] \subseteq (Spare \ L) \cup F /\ g[k] \cap Spare' = {}
    BY <1>1, <1>3
  <2> QED BY <1>1, <2>1
<1>6. ASSUME NEW k \in Records', NEW l \in Records', k # l PROVE Ends(cmds'[k]) \cap Ends(cmds'[l]) = {}
  <2>1. /\ Ends(cmds'[k]) \subseteq (E(k) \ L) \cup g[k] /\ g[k] \subseteq (Spare \ L) \cup F
        /\ Ends(cmds'[l]) \subseteq (E(l) \ L) \cup g[l] /\ g[l] \subseteq (Spare \ L) \cup F
        /\ E(k) \cap E(l) = {} /\ g[k] \cap g[l] = {}
        /\ E(k) \subseteq open /\ E(k) \cap Spare = {} /\ E(l) \subseteq open /\ E(l) \cap Spare = {}
    BY <1>1, <1>3, <1>6
  <2> QED BY <2>1
<1>7. ASSUME NEW i \in Ids
      PROVE  /\ Threaded(i)' \subseteq open' /\ Threaded(i)' \cap Spare' = {}
             /\ \A k \in Records' : Threaded(i)' \cap Ends(cmds'[k]) = {}
             /\ \A j \in Ids : i # j => Threaded(i)' \cap Threaded(j)' = {}
  <2>1. /\ Threaded(i)' \subseteq Threaded(i) \ L /\ Threaded(i) \subseteq open /\ Threaded(i) \cap Spare = {}
    BY <1>1
  <2>2. ASSUME NEW k \in Records' PROVE Threaded(i)' \cap Ends(cmds'[k]) = {}
    <3>1. /\ Ends(cmds'[k]) \subseteq (E(k) \ L) \cup g[k] /\ g[k] \subseteq (Spare \ L) \cup F
          /\ Threaded(i) \cap E(k) = {}
      BY <1>2, <1>3
    <3> QED BY <2>1, <3>1
  <2>3. ASSUME NEW j \in Ids, i # j PROVE Threaded(i)' \cap Threaded(j)' = {}
    <3>1. Threaded(i) \cap Threaded(j) = {} /\ Threaded(j)' \subseteq Threaded(j)
      BY <1>1, <2>3
    <3> QED BY <2>1, <3>1
  <2> QED BY <2>1, <2>2, <2>3
<1> QED BY <1>4, <1>5, <1>6, <1>7 DEF Owned

\* A pipe that is made has ends that were not there.
LEMMA MadeMore ==
    ASSUME Typed, npipes < MaxPipes, npipes' = npipes + 1
    PROVE  /\ Made' = Made \cup {NewR, NewW} /\ NewR \notin Made /\ NewW \notin Made /\ NewR # NewW
           /\ NewR \in Fds /\ NewW \in Fds /\ NewW = NewR + 1
<1>1. npipes \in Nat /\ 1 .. npipes' = (1 .. npipes) \cup {npipes + 1} /\ npipes + 1 \notin 1 .. npipes
  BY DEF Typed
<1>2. Made' = Made \cup {NewR, NewW}
  BY <1>1 DEF Made, NewR, NewW
<1>3. \A p \in 1 .. npipes : R(p) # NewR /\ R(p) # NewW /\ W(p) # NewR /\ W(p) # NewW
  BY <1>1 DEF R, W, NewR, NewW
<1>4. NewR > 4 /\ NewW > 4
  BY <1>1 DEF R, W, NewR, NewW
<1>5. NewR \notin Made /\ NewW \notin Made
  BY <1>3, <1>4 DEF Made, In, Out
<1> QED BY <1>2, <1>5, NewEnds, <1>1 DEF R, W, NewR, NewW

\* The descriptor of a name that is known.
LEMMA KnownFd ==
    ASSUME ScriptInv, NEW n \in Names, map[n].kind \in Streams
    PROVE  /\ map[n].fd \in Fds /\ map[n].fd \in Spare /\ map[n].fd # Out
           /\ map[n].fd = In => stdin_fd = -1 /\ map[n].kind = "ODescVal"
           /\ map[n].fd \notin SymbolFds(add_map)
           /\ map[n].fd # In =>
                \E p \in 1 .. npipes : /\ p \in Pipes /\ PipeOf(map[n].fd) = p
                                       /\ map[n].kind = "ODescVal" => map[n].fd = R(p)
                                       /\ map[n].kind = "IFutureDescVal" => map[n].fd = W(p)
<1>1. map[n].fd \in Spare
  BY DEF Spare, SymbolFds
<1>2. map[n].fd \notin SymbolFds(add_map)
  BY DEF ScriptInv, TakenOnce, SymbolFds
<1>3. CASE Created(map[n], npipes)
  <2>1. PICK p \in 1 .. npipes : /\ map[n].kind = "ODescVal" => map[n].fd = R(p)
                                 /\ map[n].kind = "IFutureDescVal" => map[n].fd = W(p)
    BY <1>3 DEF Created, Streams
  <2>2. npipes \in Nat /\ npipes <= MaxPipes /\ MaxPipes \in Nat
    BY Bounds DEF ScriptInv, Typed
  <2>3. p \in Pipes /\ p \in Nat /\ p >= 1
    BY <2>2 DEF Pipes
  <2>4. map[n].fd = R(p) \/ map[n].fd = W(p)
    BY <2>1 DEF Streams
  <2>5. map[n].fd # In /\ map[n].fd # Out /\ PipeOf(map[n].fd) = p
    BY <2>3, <2>4 DEF R, W, In, Out, PipeOf
  <2>6. map[n].fd \in Fds
    BY <2>3, <2>4, FdFacts
  <2> QED BY <1>1, <1>2, <2>1, <2>3, <2>5, <2>6
<1>4. CASE IsStdin(map[n], stdin_fd)
  <2>1. map[n].fd = In /\ map[n].kind = "ODescVal" /\ stdin_fd = -1 /\ In # Out
    BY <1>4 DEF IsStdin, In, Out
  <2> QED BY <1>1, <1>2, <2>1, FdFacts
<1> QED BY <1>3, <1>4 DEF ScriptInv, KnownFit

LEMMA DeclaredFd ==
    ASSUME ScriptInv, NEW n \in Names, add_map[n].kind \in Streams
    PROVE  add_map[n].fd \in Fds /\ add_map[n].fd \in Spare
<1>1. add_map[n].fd \in Spare
  BY DEF Spare, SymbolFds
<1>2. add_map[n] # NoSym
  BY DEF NoSym, Streams
<1>3. PICK p \in 1 .. npipes : add_map[n].fd = R(p) \/ add_map[n].fd = W(p)
  BY <1>2 DEF ScriptInv, DeclaredFit, Created, Streams
<1>4. p \in Pipes
  BY Bounds DEF ScriptInv, Typed, Pipes
<1> QED BY <1>1, <1>3, <1>4, FdFacts

LEMMA NoSymFacts ==
    /\ NoSym.kind \notin Streams
    /\ \A cs : WrittenBy(NoSym, cs) /\ Defined(NoSym, cs)
    /\ \A from, to : Tagged(NoSym, from, to)
BY DEF NoSym, Streams, WrittenBy, Defined, Tagged

\* A name that is used up gives its descriptor away.
LEMMA SymbolTaken ==
    ASSUME ScriptInv, NEW n \in Names, map[n].kind \in Streams, phase # "exit", phase' # "exit",
           map' = [map EXCEPT ![n] = NoSym], SymbolFds(add_map)' = SymbolFds(add_map), stdin_fd' = stdin_fd
    PROVE  Spare' = Spare \ {map[n].fd}
<1>1. map \in [Names -> Symbols]
  BY DEF ScriptInv, Typed
<1>2. NoSym.kind \notin Streams
  BY DEF NoSym, Streams
<1>3. \A m \in Names : map'[m] = IF m = n THEN NoSym ELSE map[m]
  BY <1>1
<1>4. \A m \in Names : m # n /\ map[m].kind \in Streams => map[m].fd # map[n].fd
  BY DEF ScriptInv, TakenOnce
<1>5. SymbolFds(map)' = SymbolFds(map) \ {map[n].fd}
  BY <1>2, <1>3, <1>4 DEF SymbolFds
<1>6. map[n].fd \notin SymbolFds(add_map) /\ map[n].fd \notin {stdin_fd} \ {-1} /\ map[n].fd # Out
  <2>1. stdin_fd \in {In, -1} /\ In # -1
    BY DEF ScriptInv, Typed, In
  <2> QED BY <2>1, KnownFd
<1>7. /\ Spare = SymbolFds(map) \cup SymbolFds(add_map) \cup ({stdin_fd} \ {-1}) \cup {Out}
      /\ Spare' = SymbolFds(map)' \cup SymbolFds(add_map) \cup ({stdin_fd} \ {-1}) \cup {Out}
  BY DEF Spare
<1> QED BY <1>5, <1>6, <1>7

-----------------------------------------------------------------------------
(***************************************************************************)
(* Setting up the arguments of a command.                                  *)
(***************************************************************************)

\* What the record k gets: fd if it is set up, Y if it is the definition read.
Gain(k, fd, k0, Y) == (IF k = cur THEN {fd} ELSE {}) \cup (IF k = k0 THEN Y ELSE {})


\* The descriptors fd and Y are to be had: from a name, or new with those of F.
Supplies(fd, k0, Y, F) ==
    /\ fd \in Fds /\ k0 \in Records /\ Y \subseteq Fds /\ fd \notin Y
    /\ Made \subseteq Made' /\ F \subseteq Made' /\ F \cap Made = {} /\ open' = open \cup F
    /\ Spare' \cup {fd} \cup Y = Spare \cup F /\ Spare' \cap ({fd} \cup Y) = {}
    /\ \A m \in Names : map'[m] \in {map[m], NoSym}

\* The script connects them with these records.
Connects(fd, k0, Y) ==
    /\ \A p \in Pipes :
         /\ src'[p] # src[p] => /\ src[p] = Nobody
                                /\ \/ W(p) = fd /\ src'[p] = base + cur
                                   \/ W(p) \in Y /\ src'[p] = base + k0
         /\ dst'[p] # dst[p] => dst[p] = Nobody /\ R(p) = fd /\ dst'[p] = base + cur
         /\ W(p) = fd => src'[p] = base + cur
         /\ W(p) \in Y => src'[p] = base + k0
         /\ R(p) = fd => dst'[p] = base + cur
         /\ R(p) \notin Y

LEMMA ReadSupplies ==
    ASSUME Sensible, ScriptInv, OwnInv, phase = "setup", building, NEW n \in Names, ReadFrom(n),
           stdin_fd' = stdin_fd, phase' = phase
    PROVE  \E k0 \in Records, Y \in SUBSET Fds, F \in SUBSET Fds :
             /\ Supplies(SourceFd(n), k0, Y, F) /\ Connects(SourceFd(n), k0, Y)
             /\ \A k \in Records : /\ SourceCmds(n)[k] \in Commands
                                   /\ More(cmds[k], SourceCmds(n)[k], IF k = k0 THEN Y ELSE {}, {})
             /\ Ready(SourceCmds(n)[cur]) /\ SourceFd(n) \notin Ends(SourceCmds(n)[cur])
             /\ SourceCmds(n)[cur].stdis = me.stdis
<1>1. /\ cur \in Records /\ me = cmds[cur] /\ me.id = base + cur /\ me.kind = "RunCommand"
      /\ \A k \in Records : cmds[k] \in Commands
  BY CurrentFacts, RecordsSound DEF Records
<1>2. /\ Owned /\ Wired /\ Meant /\ \A k \in Records : Fit(cmds[k]) /\ Told(cmds[k])
  BY DEF OwnInv, Wired
<1>3. Ready(cmds[cur])
  BY <1>1, <1>2 DEF Ready
<1>4. \A k \in Records : More(cmds[k], cmds[k], {}, {})
  BY <1>2, MoreSame
<1>5. /\ map \in [Names -> Symbols] /\ src \in [Pipes -> Int] /\ dst \in [Pipes -> Int]
      /\ npipes \in Nat /\ base \in Nat /\ cur \in Nat
  BY LenProperties DEF ScriptInv, Typed, cur
<1>6. /\ open \subseteq Made /\ Spare \subseteq open
      /\ \A k \in Records : Ends(cmds[k]) \subseteq open /\ Ends(cmds[k]) \cap Spare = {}
  BY <1>2 DEF Owned
<1>7. CASE map[n].kind = "ODescVal"
  <2>1. SourceFd(n) = map[n].fd /\ SourceCmds(n) = cmds
    BY <1>7 DEF SourceFd, SourceCmds
  <2>2. map[n].kind \in Streams
    BY <1>7 DEF Streams
  <2>3. /\ map' = [map EXCEPT ![n] = NoSym] /\ npipes' = npipes /\ open' = open /\ src' = src
        /\ add_map' = add_map
        /\ IF map[n].fd = In THEN dst' = dst ELSE dst' = [dst EXCEPT ![PipeOf(map[n].fd)] = me.id]
    BY <1>7, UsedUpFacts DEF ReadFrom
  <2> DEFINE fd == map[n].fd
  <2>4. Spare' = Spare \ {fd} /\ fd \in Fds /\ fd \in Spare
    <3>1. SymbolFds(add_map)' = SymbolFds(add_map)
      BY <2>3 DEF SymbolFds
    <3> QED BY <2>2, <2>3, <3>1, SymbolTaken, KnownFd
  <2>5. Made' = Made
    BY <2>3 DEF Made
  <2>6. \A m \in Names : map'[m] \in {map[m], NoSym}
    BY <1>5, <2>3
  <2>7. Supplies(fd, cur, {}, {})
    BY <1>1, <2>3, <2>4, <2>5, <2>6 DEF Supplies
  <2>8. Connects(fd, cur, {})
    <3>1. CASE fd = In
      <4>1. \A p \in Pipes : W(p) # In /\ R(p) # In
        BY DEF Pipes, W, R, In
      <4>2. dst' = dst /\ src' = src
        BY <2>3, <3>1
      <4> QED BY <3>1, <4>1, <4>2 DEF Connects
    <3>2. CASE fd # In
      <4>1. PICK p \in Pipes : PipeOf(fd) = p /\ fd = R(p)
        BY <1>7, <2>2, <3>2, KnownFd
      <4>2. dst' = [dst EXCEPT ![p] = base + cur] /\ src' = src
        BY <1>1, <2>3, <3>2, <4>1
      <4>3. dst[p] = Nobody
        BY <1>2, <1>7, <4>1 DEF Wired, Tagged
      <4>4. \A q \in Pipes : W(q) # fd /\ (R(q) = fd => q = p)
        BY <4>1, PipeEnds DEF Pipes
      <4>5. \A q \in Pipes : dst'[q] = IF q = p THEN base + cur ELSE dst[q]
        BY <1>5, <4>2
      <4> QED BY <4>1, <4>2, <4>3, <4>4, <4>5 DEF Connects
    <3> QED BY <3>1, <3>2
  <2>9. fd \notin Ends(cmds[cur])
    BY <1>1, <1>6, <2>4
  <2> HIDE DEF fd
  <2>10. \A k \in Records : More(cmds[k], cmds[k], IF k = cur THEN {} ELSE {}, {})
    BY <1>4
  <2> QED BY <1>1, <1>3, <2>1, <2>7, <2>8, <2>9, <2>10 DEF fd
<1>8. ASSUME npipes < MaxPipes, npipes' = npipes + 1
      PROVE  /\ Made' = Made \cup {NewR, NewW} /\ NewR \notin Made /\ NewW \notin Made /\ NewR # NewW
             /\ NewR \in Fds /\ NewW \in Fds /\ npipes + 1 \in Pipes
             /\ src[npipes + 1] = Nobody /\ dst[npipes + 1] = Nobody
             /\ R(npipes + 1) = NewR /\ W(npipes + 1) = NewW
             /\ \A p \in Pipes : /\ W(p) # NewR /\ R(p) # NewW
                                 /\ (R(p) = NewR => p = npipes + 1) /\ (W(p) = NewW => p = npipes + 1)
  <2>1. Typed
    BY DEF ScriptInv
  <2>2. npipes + 1 \in Pipes
    BY <1>8, <2>1, NewEnds
  <2>3. src[npipes + 1] = Nobody /\ dst[npipes + 1] = Nobody
    BY <1>2, <1>5, <2>2 DEF Meant
  <2>4. \A p \in Pipes : p \in Int /\ npipes + 1 \in Int
    BY <1>5 DEF Pipes
  <2> QED BY <1>8, <2>1, <2>2, <2>3, <2>4, MadeMore, PipeEnds DEF NewR, NewW
<1>9. CASE map[n].kind = "HereDocVal"
  <2>1. SourceFd(n) = NewR /\ SourceCmds(n) = cmds /\ npipes < MaxPipes
    BY <1>9 DEF SourceFd, SourceCmds, ReadFrom, Source, NewR
  <2>2. /\ map' = map /\ npipes' = npipes + 1 /\ open' = open \cup {NewR} /\ src' = src
        /\ add_map' = add_map /\ dst' = [dst EXCEPT ![npipes + 1] = base + cur]
    BY <1>1, <1>9 DEF ReadFrom, NewR
  <2>3. Spare' = Spare
    BY <2>2 DEF Spare, SymbolFds
  <2>4. NewR \notin Spare /\ NewR \notin open
    BY <1>6, <1>8, <2>1, <2>2
  <2>5. Supplies(NewR, cur, {}, {NewR})
    BY <1>1, <1>8, <2>1, <2>2, <2>3, <2>4 DEF Supplies
  <2>6. \A q \in Pipes : dst'[q] = IF q = npipes + 1 THEN base + cur ELSE dst[q]
    BY <1>5, <2>2
  <2>7. Connects(NewR, cur, {})
    BY <1>8, <2>1, <2>2, <2>6 DEF Connects
  <2>8. NewR \notin Ends(cmds[cur])
    BY <1>1, <1>6, <2>4
  <2>9. \A k \in Records : More(cmds[k], cmds[k], IF k = cur THEN {} ELSE {}, {})
    BY <1>4
  <2>10. {NewR} \in SUBSET Fds
    BY <1>8, <2>1, <2>2
  <2> QED BY <1>1, <1>3, <2>1, <2>5, <2>7, <2>8, <2>9, <2>10
<1>10. CASE map[n].kind = "DefVal"
  <2>1. /\ SourceFd(n) = NewR /\ SourceCmds(n) = PipeFromElastic(map[n].cmd)
        /\ npipes < MaxPipes /\ map[n].cmd \in Records /\ cmds[map[n].cmd].id = map[n].id
    BY <1>10 DEF SourceFd, SourceCmds, ReadFrom, Source, NewR, Current, cur, Records
  <2> DEFINE k0 == map[n].cmd
  <2>2. /\ npipes' = npipes + 1 /\ open' = open \cup {NewR, NewW}
        /\ src' = [src EXCEPT ![npipes + 1] = map[n].id] /\ dst' = [dst EXCEPT ![npipes + 1] = base + cur]
        /\ map' = map /\ add_map' = add_map
    BY <1>1, <1>10 DEF ReadFrom, NewR, NewW
  <2>3. map[n].id = base + k0
    BY <2>1 DEF ScriptInv, Numbered, Records
  <2>4. Spare' = Spare
    BY <2>2 DEF Spare, SymbolFds
  <2>5. NewR \notin Spare /\ NewR \notin open /\ NewW \notin Spare /\ NewW \notin open
    BY <1>6, <1>8, <2>1, <2>2
  <2>6. Supplies(NewR, k0, {NewW}, {NewR, NewW})
    BY <1>8, <2>1, <2>2, <2>4, <2>5 DEF Supplies
  <2>7. \A q \in Pipes : /\ dst'[q] = IF q = npipes + 1 THEN base + cur ELSE dst[q]
                         /\ src'[q] = IF q = npipes + 1 THEN base + k0 ELSE src[q]
    BY <1>5, <2>2, <2>3
  <2>8. Connects(NewR, k0, {NewW})
    BY <1>8, <2>1, <2>2, <2>7 DEF Connects
  <2>9. k0 \in Records /\ cmds[k0].kind = "DefCommand"
    BY <1>2, <1>10, <2>1 DEF Wired, Defined, Records
  <2> DEFINE b == [cmds[k0] EXCEPT !.os = Append(cmds[k0].os, NewW), !.args = Append(cmds[k0].args, NewW)]
  <2>10. PipeFromElastic(k0) = [cmds EXCEPT ![k0] = b]
    BY DEF PipeFromElastic, NewW
  <2>11. b \in Commands /\ More(cmds[k0], b, {NewW}, {})
    <3>1. Ready(cmds[k0])
      BY <1>1, <1>2, <2>9 DEF Ready
    <3>2. NewW \in Fds /\ NewW \notin Ends(cmds[k0])
      BY <1>6, <1>8, <2>1, <2>2, <2>5, <2>9
    <3> QED BY <3>1, <3>2, MoreWritten
  <2>12. cmds[k0].kind # "RunCommand"
    BY <2>9
  <2> HIDE DEF b, k0
  <2>13. cmds \in Seq(Commands)
    BY DEF ScriptInv, Typed
  <2>14. \A k \in Records : SourceCmds(n)[k] = IF k = k0 THEN b ELSE cmds[k]
    <3>1. SourceCmds(n) = [cmds EXCEPT ![k0] = b]
      BY <2>1, <2>10 DEF k0
    <3> QED BY <2>9, <2>11, <2>13, <3>1, UpdateFacts DEF Records
  <2>15. cur # k0
    BY <1>1, <2>12
  <2>16. SourceCmds(n)[cur] = cmds[cur]
    BY <1>1, <2>14, <2>15
  <2>17. ASSUME NEW k \in Records
         PROVE  SourceCmds(n)[k] \in Commands /\ More(cmds[k], SourceCmds(n)[k], IF k = k0 THEN {NewW} ELSE {}, {})
    <3>1. CASE k = k0
      BY <2>11, <2>14, <3>1
    <3>2. CASE k # k0
      BY <1>1, <1>4, <2>14, <3>2
    <3> QED BY <3>1, <3>2
  <2>18. NewR \notin Ends(cmds[cur])
    BY <1>1, <1>6, <2>5
  <2>19. {NewW} \in SUBSET Fds /\ {NewR, NewW} \in SUBSET Fds
    BY <1>8, <2>1, <2>2
  <2> QED BY <1>1, <1>3, <2>1, <2>6, <2>8, <2>9, <2>16, <2>17, <2>18, <2>19
<1> QED BY <1>7, <1>9, <1>10 DEF ReadFrom

\* The name n has one end of a new pipe, and the command the other one, e.
Divides(n, kind, fd, arg, ios, e) ==
    /\ Declare(n, kind, fd, arg, ios)
    /\ \/ /\ kind = "ODescVal" /\ fd = NewR /\ e = NewW
          /\ src' = [src EXCEPT ![npipes'] = me.id] /\ dst' = dst
       \/ /\ kind = "IFutureDescVal" /\ fd = NewW /\ e = NewR
          /\ dst' = [dst EXCEPT ![npipes'] = me.id] /\ src' = src

LEMMA DeclareSupplies ==
    ASSUME Sensible, ScriptInv, OwnInv, phase = "setup", building, NEW n \in Names,
           NEW kind \in Streams, NEW fd, NEW arg, NEW ios, NEW e, Divides(n, kind, fd, arg, ios, e),
           stdin_fd' = stdin_fd, phase' = phase
    PROVE  /\ Supplies(e, cur, {}, {NewR, NewW}) /\ Connects(e, cur, {})
           /\ e \in Fds /\ e \notin Ends(me)
           /\ \A m \in Names :
                IF m = n THEN /\ Tagged(add_map'[m], src', dst')
                              /\ add_map'[m] = [kind |-> kind, fd |-> fd, cmd |-> cur, arg |-> arg, ios |-> ios, id |-> me.id]
                         ELSE add_map'[m] = add_map[m]
<1>1. /\ cur \in Records /\ me = cmds[cur] /\ me.id = base + cur /\ base + cur \in Nat /\ base + cur > 0
  BY CurrentFacts DEF Records, ScriptInv, Typed
<1>2. Owned /\ Meant
  BY DEF OwnInv
<1>3. /\ src \in [Pipes -> Int] /\ dst \in [Pipes -> Int] /\ add_map \in [Names -> Symbols]
      /\ npipes \in Nat /\ Typed
  BY DEF ScriptInv, Typed
<1>4. /\ open \subseteq Made /\ Spare \subseteq open /\ Ends(me) \subseteq open
  BY <1>1, <1>2 DEF Owned
<1> DEFINE s == [kind |-> kind, fd |-> fd, cmd |-> cur, arg |-> arg, ios |-> ios, id |-> me.id]
<1>5. /\ npipes < MaxPipes /\ npipes' = npipes + 1 /\ open' = open \cup {NewR, NewW}
      /\ add_map' = [add_map EXCEPT ![n] = s] /\ map' = map /\ add_map[n] = NoSym
      /\ (fd = NewR /\ e = NewW) \/ (fd = NewW /\ e = NewR)
  BY DEF Divides, Declare, NewR, NewW, Sensible, Habit
<1>6. s.kind = kind /\ s.fd = fd /\ s.id = me.id
  OBVIOUS
<1> HIDE DEF s
<1>7. /\ Made' = Made \cup {NewR, NewW} /\ NewR \notin Made /\ NewW \notin Made /\ NewR # NewW
      /\ NewR \in Fds /\ NewW \in Fds /\ npipes + 1 \in Pipes
  BY <1>3, <1>5, MadeMore, NewEnds
<1>8. \A m \in Names : add_map'[m] = IF m = n THEN s ELSE add_map[m]
  BY <1>3, <1>5
<1>9. SymbolFds(add_map)' = SymbolFds(add_map) \cup {fd}
  <2>1. NoSym.kind \notin Streams
    BY DEF NoSym, Streams
  <2> QED BY <1>5, <1>6, <1>8, <2>1 DEF SymbolFds
<1>10. Spare' = Spare \cup {fd}
  <2>1. SymbolFds(map)' = SymbolFds(map)
    BY <1>5 DEF SymbolFds
  <2> QED BY <1>9, <2>1 DEF Spare
<1>11. Supplies(e, cur, {}, {NewR, NewW})
  <2>1. NewR \notin Spare /\ NewW \notin Spare
    BY <1>4, <1>7
  <2>2. \A m \in Names : map'[m] \in {map[m], NoSym}
    BY <1>5
  <2> QED BY <1>1, <1>5, <1>7, <1>10, <2>1, <2>2 DEF Supplies
<1>12. /\ src[npipes + 1] = Nobody /\ dst[npipes + 1] = Nobody
       /\ R(npipes + 1) = NewR /\ W(npipes + 1) = NewW
       /\ \A p \in Pipes : /\ W(p) # NewR /\ R(p) # NewW
                           /\ (R(p) = NewR => p = npipes + 1) /\ (W(p) = NewW => p = npipes + 1)
  <2>1. src[npipes + 1] = Nobody /\ dst[npipes + 1] = Nobody
    BY <1>2, <1>3, <1>7 DEF Meant
  <2>2. \A p \in Pipes : p \in Int /\ npipes + 1 \in Int
    BY <1>3 DEF Pipes
  <2> QED BY <2>1, <2>2, PipeEnds DEF NewR, NewW
<1>13. \/ /\ kind = "ODescVal" /\ fd = NewR /\ e = NewW
          /\ \A p \in Pipes : src'[p] = (IF p = npipes + 1 THEN base + cur ELSE src[p]) /\ dst'[p] = dst[p]
       \/ /\ kind = "IFutureDescVal" /\ fd = NewW /\ e = NewR
          /\ \A p \in Pipes : dst'[p] = (IF p = npipes + 1 THEN base + cur ELSE dst[p]) /\ src'[p] = src[p]
  BY <1>1, <1>3, <1>5 DEF Divides
<1>14. Connects(e, cur, {})
  BY <1>12, <1>13 DEF Connects
<1>15. Tagged(s, src', dst')
  <2>1. /\ s.kind = kind /\ s.fd = fd /\ s.id = base + cur /\ base + cur > 0
    BY <1>1, <1>6
  <2>2. /\ kind = "ODescVal" => \A p \in Pipes : fd = R(p) => dst'[p] = Nobody /\ src'[p] = base + cur
        /\ kind = "IFutureDescVal" => \A p \in Pipes : fd = W(p) => src'[p] = Nobody /\ dst'[p] = base + cur
    BY <1>12, <1>13
  <2> QED BY <2>1, <2>2 DEF Tagged
<1> QED BY <1>1, <1>4, <1>5, <1>7, <1>8, <1>11, <1>14, <1>15 DEF s

LEMMA FulfilSupplies ==
    ASSUME Sensible, ScriptInv, OwnInv, phase = "setup", building, NEW n \in Names, Fulfil(n),
           stdin_fd' = stdin_fd, phase' = phase
    PROVE  /\ Supplies(map[n].fd, cur, {}, {}) /\ Connects(map[n].fd, cur, {})
           /\ map[n].fd \in Fds /\ map[n].fd \notin Ends(me)
<1>1. /\ cur \in Records /\ me = cmds[cur] /\ me.id = base + cur
  BY CurrentFacts DEF Records
<1>2. Owned /\ Wired
  BY DEF OwnInv
<1>3. /\ src \in [Pipes -> Int] /\ map \in [Names -> Symbols]
  BY DEF ScriptInv, Typed
<1>4. /\ map[n].kind = "IFutureDescVal" /\ map' = [map EXCEPT ![n] = NoSym] /\ add_map' = add_map
      /\ src' = [src EXCEPT ![PipeOf(map[n].fd)] = me.id] /\ dst' = dst
      /\ npipes' = npipes /\ open' = open
  BY UsedUpFacts DEF Fulfil
<1>5. map[n].kind \in Streams /\ SymbolFds(add_map)' = SymbolFds(add_map) /\ Made' = Made
  BY <1>4 DEF Streams, SymbolFds, Made
<1>6. /\ map[n].fd \in Fds /\ map[n].fd \in Spare /\ Spare' = Spare \ {map[n].fd}
  BY <1>4, <1>5, KnownFd, SymbolTaken
<1>7. PICK p \in Pipes : PipeOf(map[n].fd) = p /\ map[n].fd = W(p)
  BY <1>4, <1>5, KnownFd
<1>8. map[n].fd \notin Ends(me)
  BY <1>1, <1>2, <1>6 DEF Owned
<1>9. \A m \in Names : map'[m] \in {map[m], NoSym}
  BY <1>3, <1>4
<1> DEFINE fd == map[n].fd
<1>10. src[p] = Nobody /\ fd = W(p)
  BY <1>2, <1>4, <1>7 DEF Wired, Tagged
<1>11. Supplies(fd, cur, {}, {})
  BY <1>1, <1>4, <1>5, <1>6, <1>9 DEF Supplies
<1>12. Connects(fd, cur, {})
  <2>1. \A q \in Pipes : R(q) # fd /\ (W(q) = fd => q = p)
    BY <1>7, PipeEnds DEF Pipes
  <2>2. src' = [src EXCEPT ![p] = base + cur]
    BY <1>1, <1>4, <1>7
  <2>3. \A q \in Pipes : src'[q] = (IF q = p THEN base + cur ELSE src[q]) /\ dst'[q] = dst[q]
    BY <1>3, <1>4, <2>2
  <2> HIDE DEF fd
  <2> QED BY <1>10, <2>1, <2>3 DEF Connects
<1> QED BY <1>6, <1>8, <1>11, <1>12

\* Nothing happens to threads and processes.
LEMMA NobodyMoves ==
    ASSUME UNCHANGED <<state, task, thread>>
    PROVE  /\ \A i \in Ids : Threaded(i)' = Threaded(i) /\ Held(i)' = Held(i)
           /\ Tasks => Tasks'
<1>1. \A i \in Ids : Held(i)' = Held(i)
  BY DEF Held
<1>2. \A i \in Ids : Threaded(i)' = Threaded(i)
  BY <1>1 DEF Threaded
<1>3. Tasks => Tasks'
  BY DEF Tasks, Live
<1> QED BY <1>1, <1>2, <1>3

\* The commands ds write what the commands cs do, but may close X for others.
Writing(cs, ds, X) ==
    /\ Len(ds) = Len(cs)
    /\ \A k \in 1 .. Len(cs) :
         /\ ds[k].id = cs[k].id /\ ds[k].kind = cs[k].kind /\ ToSet(cs[k].os) \subseteq ToSet(ds[k].os)
         /\ cs[k].stdos # -1 => ds[k].stdos = cs[k].stdos
         /\ cs[k].status_fd # -1 => ds[k].status_fd = cs[k].status_fd
         /\ ds[k].exit_fds \subseteq cs[k].exit_fds \cup X

LEMMA WritingKeeps ==
    ASSUME NEW s, NEW cs, NEW ds, NEW X, Writing(cs, ds, X),
           s.kind = "ODescVal" => s.fd \in Int /\ s.fd > 2 /\ s.fd + 1 \notin X
    PROVE  /\ WrittenBy(s, cs) => WrittenBy(s, ds)
           /\ Defined(s, cs) => Defined(s, ds)
<1>1. Defined(s, cs) => Defined(s, ds)
  BY DEF Defined, Writing
<1> SUFFICES ASSUME WrittenBy(s, cs), s.kind = "ODescVal", s.cmd \in 1 .. Len(ds), ds[s.cmd].id = s.id
             PROVE  /\ s.ios = 0 => \/ s.fd = In /\ ds[s.cmd].kind = "StdinCommand"
                                    \/ s.fd + 1 \in {ds[s.cmd].stdos, ds[s.cmd].status_fd}
                    /\ s.ios > 0 => s.fd + 1 \in ToSet(ds[s.cmd].os)
                    /\ s.fd + 1 \notin ds[s.cmd].exit_fds
  BY <1>1 DEF WrittenBy
<1> DEFINE a == cs[s.cmd]
<1> DEFINE b == ds[s.cmd]
<1>2. /\ b.id = a.id /\ b.kind = a.kind /\ ToSet(a.os) \subseteq ToSet(b.os)
      /\ a.stdos # -1 => b.stdos = a.stdos
      /\ a.status_fd # -1 => b.status_fd = a.status_fd
      /\ b.exit_fds \subseteq a.exit_fds \cup X /\ s.cmd \in 1 .. Len(cs)
  BY DEF Writing
<1>3. /\ s.ios = 0 => \/ s.fd = In /\ a.kind = "StdinCommand"
                      \/ s.fd + 1 \in {a.stdos, a.status_fd}
      /\ s.ios > 0 => s.fd + 1 \in ToSet(a.os)
      /\ s.fd + 1 \notin a.exit_fds
  BY <1>2 DEF WrittenBy
<1>4. s.fd + 1 # -1
  OBVIOUS
<1> HIDE DEF a, b
<1>5. /\ s.ios = 0 => \/ s.fd = In /\ b.kind = "StdinCommand"
                      \/ s.fd + 1 \in {b.stdos, b.status_fd}
      /\ s.ios > 0 => s.fd + 1 \in ToSet(b.os)
      /\ s.fd + 1 \notin b.exit_fds
  BY <1>2, <1>3, <1>4
<1> QED BY <1>5 DEF b

LEMMA SuppliesOwn ==
    ASSUME ScriptInv, ScriptInv', OwnInv, ArgumentFrame, UNCHANGED <<task, misclosed, forkonly>>,
           NEW fd, NEW k0, NEW Y, NEW F, NEW X, Supplies(fd, k0, Y, F), Connects(fd, k0, Y),
           cmds' \in Seq(Commands), Len(cmds') = Len(cmds), npipes <= npipes', X \subseteq {fd + 1},
           \A k \in Records : More(cmds[k], cmds'[k], Gain(k, fd, k0, Y), X),
           \A m \in Names : \/ add_map'[m] = add_map[m]
                            \/ Tagged(add_map'[m], src', dst') /\ WrittenBy(add_map'[m], cmds')
    PROVE  OwnInv'
<1>1. /\ phase = "setup" /\ phase' = "setup" /\ base' = base /\ exstatus' = exstatus /\ redirected' = redirected
      /\ UNCHANGED <<state, task, thread>> /\ Records' = Records /\ stdin_fd' = stdin_fd
  BY DEF ArgumentFrame, Records
<1>2. /\ Owned /\ Accounted /\ Tasks /\ Wired /\ Meant
  BY <1>1 DEF OwnInv
<1>3. /\ Made \subseteq Made' /\ F \subseteq Made' /\ F \cap Made = {} /\ open' = open \cup F
      /\ Spare' \cup {fd} \cup Y = Spare \cup F /\ Spare' \cap ({fd} \cup Y) = {}
      /\ fd \notin Y /\ k0 \in Records /\ cur \in Records /\ fd \in Int
      /\ \A m \in Names : map'[m] \in {map[m], NoSym}
  <2>1. cur \in Records
    BY CurrentFacts DEF ArgumentFrame, Records
  <2> QED BY <2>1, FdFacts DEF Supplies
<1>4. open \subseteq Made /\ Spare \subseteq open
  BY <1>2 DEF Owned
<1>5. \A k \in Records : /\ Ends(cmds'[k]) = Ends(cmds[k]) \cup Gain(k, fd, k0, Y)
                         /\ Fit(cmds'[k]) /\ Told(cmds'[k]) /\ cmds'[k].id = cmds[k].id /\ cmds'[k].kind = cmds[k].kind
  BY DEF More
<1>6. \A k, l : /\ Gain(k, fd, k0, Y) \subseteq {fd} \cup Y
                /\ k # l => Gain(k, fd, k0, Y) \cap Gain(l, fd, k0, Y) = {}
  BY <1>3 DEF Gain
<1>7. Owned'
  <2> DEFINE g == [k \in Records |-> Gain(k, fd, k0, Y)]
  <2>1. \A k \in Records' : g[k] = Gain(k, fd, k0, Y)
    BY <1>1
  <2> HIDE DEF g
  <2>2. \A k \in Records' : /\ Ends(cmds'[k]) \subseteq ((IF k \in Records THEN Ends(cmds[k]) ELSE {}) \ {}) \cup g[k]
                            /\ g[k] \subseteq (Spare \ {}) \cup F /\ g[k] \cap Spare' = {}
                            /\ \A l \in Records' : k # l => g[k] \cap g[l] = {}
    <3> TAKE k \in Records'
    <3>1. g[k] = Gain(k, fd, k0, Y) /\ k \in Records
      BY <1>1, <2>1
    <3>2. g[k] \subseteq {fd} \cup Y /\ \A l \in Records' : k # l => g[k] \cap g[l] = {}
      BY <1>6, <2>1
    <3> QED BY <1>3, <1>5, <3>1, <3>2
  <2>3. Spare' \subseteq (Spare \ {}) \cup F /\ open' = (open \ {}) \cup F /\ F \cap open = {}
    BY <1>3, <1>4
  <2>4. \A i \in Ids : Threaded(i)' \subseteq Threaded(i) \ {}
    BY <1>1, NobodyMoves
  <2>5. Moves({}, F, g)
    <3>1. ~misclosed'
      BY <1>2 DEF Owned
    <3> QED BY <1>3, <2>2, <2>3, <2>4, <3>1 DEF Moves
  <2> QED BY <1>2, <2>5, OwnedMoves
<1>8. Accounted'
  <2> SUFFICES ASSUME exstatus \notin {65, 126}, Habits \cap {"noexec", "unused"} = {}, NEW x \in open'
               PROVE  \/ x \in Spare' \/ \E k \in Records' : x \in Ends(cmds'[k])
                      \/ \E i \in Ids : x \in Threaded(i)'
    BY <1>1 DEF Accounted
  <2>1. fd \in Gain(cur, fd, k0, Y) /\ Y \subseteq Gain(k0, fd, k0, Y)
    BY DEF Gain
  <2>2. fd \in Ends(cmds'[cur]) /\ Y \subseteq Ends(cmds'[k0]) /\ cur \in Records' /\ k0 \in Records'
    BY <1>1, <1>3, <1>5, <2>1
  <2>3. CASE x \in Spare \cup F
    <3>1. x \in Spare' \/ x = fd \/ x \in Y
      BY <1>3, <2>3
    <3> QED BY <2>2, <3>1
  <2>4. CASE x \in open /\ x \notin Spare
    <3>1. (\E k \in Records : x \in Ends(cmds[k])) \/ \E i \in Ids : x \in Threaded(i)
      BY <1>2, <2>4 DEF Accounted
    <3>2. ASSUME NEW k \in Records, x \in Ends(cmds[k]) PROVE x \in Ends(cmds'[k]) /\ k \in Records'
      BY <1>1, <1>5, <3>2
    <3>3. ASSUME NEW i \in Ids, x \in Threaded(i) PROVE x \in Threaded(i)'
      BY <1>1, <3>3, NobodyMoves
    <3> QED BY <3>1, <3>2, <3>3
  <2> QED BY <1>3, <2>3, <2>4
<1>9. \A k \in Records' : Fit(cmds[k])'
  BY <1>1, <1>5 DEF Fit
<1>10. Tasks'
  BY <1>1, <1>2, NobodyMoves
<1>11. Spent'
  BY <1>1 DEF Spent
<1>12. /\ src \in [Pipes -> Int] /\ dst \in [Pipes -> Int] /\ base \in Nat /\ Len(cmds) \in Nat
       /\ npipes \in Nat /\ npipes' \in Nat /\ npipes <= npipes'
  <2>1. src \in [Pipes -> Int] /\ dst \in [Pipes -> Int] /\ base \in Nat /\ cmds \in Seq(Commands) /\ npipes \in Nat
    BY DEF ScriptInv, Typed
  <2>2. npipes' \in Nat
    BY DEF ScriptInv, Typed
  <2> QED BY <2>1, <2>2, LenProperties
<1>13. \A p \in Pipes :
         /\ src'[p] # src[p] => /\ src[p] = Nobody
                                /\ \E k \in Records : src'[p] = base + k /\ W(p) \in Gain(k, fd, k0, Y)
         /\ dst'[p] # dst[p] => /\ dst[p] = Nobody
                                /\ \E k \in Records : dst'[p] = base + k /\ R(p) \in Gain(k, fd, k0, Y)
         /\ \A k \in Records : /\ W(p) \in Gain(k, fd, k0, Y) => src'[p] = base + k
                               /\ R(p) \in Gain(k, fd, k0, Y) => dst'[p] = base + k
  BY <1>3 DEF Connects, Gain
<1>14. \A p \in Pipes : /\ W(p) \in open' /\ W(p) \notin open => p > npipes
                        /\ W(p) \in open' \/ R(p) \in open' => p <= npipes'
  <2> SUFFICES ASSUME NEW p \in Pipes
               PROVE  /\ W(p) \in open' /\ W(p) \notin open => p > npipes
                      /\ W(p) \in open' \/ R(p) \in open' => p <= npipes'
    OBVIOUS
  <2>1. p \in Nat /\ p >= 1 /\ R(p) \notin {In, Out} /\ W(p) \notin {In, Out}
    BY DEF Pipes, R, W, In, Out
  <2>2. W(p) \in Made' \/ R(p) \in Made' => p <= npipes'
    <3>1. ASSUME NEW q \in 1 .. npipes', W(p) = W(q) \/ R(p) = R(q) PROVE p <= npipes'
      BY <1>12, <2>1, <3>1, PipeEnds
    <3>2. \A q \in 1 .. npipes' : W(p) # R(q) /\ R(p) # W(q)
      BY <1>12, <2>1, PipeEnds
    <3> QED BY <2>1, <3>1, <3>2 DEF Made
  <2>3. p <= npipes => W(p) \in Made
    BY <1>12, <2>1 DEF Made
  <2> QED BY <1>3, <1>4, <1>12, <2>1, <2>2, <2>3
<1>15. \A k \in Records : /\ base + k \in Int /\ base + k > 0 /\ base + k <= base + Len(cmds)
                          /\ base + k \notin {Nobody, ToStdout, ToStderr}
  BY <1>12 DEF Records, Nobody, ToStdout, ToStderr
<1>16. \A k \in Records : Gain(k, fd, k0, Y) \subseteq open'
  <2>1. Owned'
    BY <1>7
  <2> QED BY <1>1, <1>5, <2>1 DEF Owned
<1>17. Nobody = 0 /\ ToStdout = -1 /\ ToStderr = -2
  BY DEF Nobody, ToStdout, ToStderr
<1>18. Meant'
  <2> SUFFICES ASSUME NEW p \in Pipes
               PROVE  /\ src'[p] \in 0 .. base + Len(cmds) /\ dst'[p] \in {ToStdout, ToStderr} \cup 0 .. base + Len(cmds)
                      /\ p > npipes' => src'[p] = Nobody /\ dst'[p] = Nobody
                      /\ W(p) \in redirected <=> dst'[p] = ToStdout
                      /\ dst'[p] = ToStderr => W(p) \notin open'
                      /\ dst'[p] \in {ToStdout, ToStderr} => src'[p] # Nobody
    BY <1>1 DEF Meant
  <2>1. /\ src[p] \in 0 .. base + Len(cmds) /\ dst[p] \in {ToStdout, ToStderr} \cup 0 .. base + Len(cmds)
        /\ p > npipes => src[p] = Nobody /\ dst[p] = Nobody
        /\ W(p) \in redirected <=> dst[p] = ToStdout
        /\ dst[p] = ToStderr => W(p) \notin open
        /\ dst[p] \in {ToStdout, ToStderr} => src[p] # Nobody
    BY <1>2 DEF Meant
  <2>2. \/ src'[p] = src[p]
        \/ src[p] = Nobody /\ \E k \in Records : src'[p] = base + k /\ W(p) \in open'
    BY <1>13, <1>16
  <2>3. \/ dst'[p] = dst[p]
        \/ dst[p] = Nobody /\ \E k \in Records : dst'[p] = base + k /\ R(p) \in open'
    BY <1>13, <1>16
  <2>4. src'[p] \in 0 .. base + Len(cmds) /\ (src'[p] # src[p] => src[p] = Nobody /\ src'[p] # Nobody /\ p <= npipes')
    BY <1>12, <1>14, <1>15, <2>1, <2>2
  <2>5. /\ dst'[p] \in {ToStdout, ToStderr} \cup 0 .. base + Len(cmds)
        /\ dst'[p] # dst[p] => dst[p] = Nobody /\ dst'[p] \notin {Nobody, ToStdout, ToStderr} /\ p <= npipes'
    BY <1>12, <1>14, <1>15, <2>1, <2>3
  <2>6. p \in Nat /\ (p > npipes' => p > npipes /\ ~(p <= npipes'))
    BY <1>12 DEF Pipes
  <2>7. dst'[p] = ToStderr => W(p) \notin open'
    BY <1>14, <1>17, <2>1, <2>5, <2>6
  <2> QED BY <1>17, <2>1, <2>4, <2>5, <2>6, <2>7
<1>19. \A k \in Records : Told(cmds'[k])
  BY <1>5
<1>20. Writing(cmds, cmds', X)
  BY DEF Writing, More, Records
<1>21. ASSUME NEW s, WrittenBy(s, cmds), Tagged(s, src, dst), s.kind \in Streams => s.fd \in Spare', 
              s.kind \in Streams => s.fd \in Int /\ s.fd > 2
       PROVE  WrittenBy(s, cmds') /\ Tagged(s, src', dst')
  <2>1. s.kind = "ODescVal" => s.fd \in Int /\ s.fd > 2 /\ s.fd + 1 \notin X
    BY <1>3, <1>21 DEF Streams
  <2>2. WrittenBy(s, cmds')
    BY <1>20, <1>21, <2>1, WritingKeeps
  <2>3. s.kind \in Streams => \A k \in Records : s.fd \notin Gain(k, fd, k0, Y)
    BY <1>3, <1>6, <1>21
  <2>4. ASSUME NEW p \in Pipes, s.kind \in Streams, s.id > 0
        PROVE  /\ s.fd = R(p) /\ dst[p] = Nobody /\ src[p] = s.id => dst'[p] = Nobody /\ src'[p] = s.id
               /\ s.fd = W(p) /\ src[p] = Nobody /\ dst[p] = s.id => src'[p] = Nobody /\ dst'[p] = s.id
    <3>1. s.id # Nobody
      BY <1>17, <2>4
    <3> QED BY <1>13, <2>3, <2>4, <3>1
  <2>5. Tagged(s, src', dst')
    BY <1>21, <2>4 DEF Tagged, Streams
  <2> QED BY <2>2, <2>5
<1>22. ASSUME NEW m \in Names
       PROVE  /\ WrittenBy(map'[m], cmds') /\ WrittenBy(add_map'[m], cmds')
              /\ Tagged(map'[m], src', dst') /\ Tagged(add_map'[m], src', dst')
              /\ Defined(map'[m], cmds')
  <2>1. Wired
    BY <1>2
  <2>2. WrittenBy(map'[m], cmds') /\ Tagged(map'[m], src', dst') /\ Defined(map'[m], cmds')
    <3>1. CASE map'[m] = NoSym
      BY <3>1, NoSymFacts
    <3>2. CASE map'[m] = map[m]
      <4>1. map[m].kind \in Streams => map[m].fd \in Spare' /\ map[m].fd \in Fds
        BY <3>2, KnownFd DEF Spare, SymbolFds
      <4>2. map[m].kind \in Streams => map[m].fd \in Int /\ map[m].fd > 2
        BY <4>1, LowestFd
      <4>3. map[m].kind = "ODescVal" => map[m].fd + 1 \notin X
        BY <1>3, <4>1, <4>2 DEF Streams
      <4>4. WrittenBy(map[m], cmds) /\ Tagged(map[m], src, dst) /\ Defined(map[m], cmds)
        BY <2>1 DEF Wired
      <4>5. Defined(map[m], cmds')
        BY <1>20, <4>4 DEF Defined, Writing
      <4>6. WrittenBy(map[m], cmds') /\ Tagged(map[m], src', dst')
        BY <1>21, <4>1, <4>2, <4>4
      <4> QED BY <3>2, <4>5, <4>6
    <3> QED BY <1>3, <3>1, <3>2
  <2>3. WrittenBy(add_map'[m], cmds') /\ Tagged(add_map'[m], src', dst')
    <3>1. CASE add_map'[m] = add_map[m]
      <4>1. add_map[m].kind \in Streams => add_map[m].fd \in Spare' /\ add_map[m].fd \in Fds
        BY <3>1, DeclaredFd DEF Spare, SymbolFds
      <4>2. add_map[m].kind \in Streams => add_map[m].fd \in Int /\ add_map[m].fd > 2
        BY <4>1, LowestFd
      <4>3. WrittenBy(add_map[m], cmds) /\ Tagged(add_map[m], src, dst)
        BY <2>1 DEF Wired
      <4>4. WrittenBy(add_map[m], cmds') /\ Tagged(add_map[m], src', dst')
        BY <1>21, <4>1, <4>2, <4>3
      <4> QED BY <3>1, <4>4
    <3> QED BY <3>1
  <2> QED BY <2>2, <2>3
<1>23. \A k \in Records, p \in Pipes :
         /\ W(p) \in Ends(cmds'[k]) => src'[p] = base + k
         /\ R(p) \in Ends(cmds'[k]) => dst'[p] = base + k
  <2> SUFFICES ASSUME NEW k \in Records, NEW p \in Pipes
               PROVE  /\ W(p) \in Ends(cmds'[k]) => src'[p] = base + k
                      /\ R(p) \in Ends(cmds'[k]) => dst'[p] = base + k
    OBVIOUS
  <2>1. /\ W(p) \in Ends(cmds[k]) => src[p] = base + k
        /\ R(p) \in Ends(cmds[k]) => dst[p] = base + k
    BY <1>2 DEF Wired
  <2> QED BY <1>5, <1>13, <1>15, <2>1
<1>24. \A k \in Records, p \in Pipes :
         /\ src'[p] = base + k =>
              IF dst'[p] = ToStderr THEN Err \in {cmds'[k].stdos} \cup ToSet(cmds'[k].args)
                                    ELSE W(p) \in Ends(cmds'[k])
         /\ dst'[p] = base + k => R(p) \in Ends(cmds'[k])
  <2> SUFFICES ASSUME NEW k \in Records, NEW p \in Pipes
               PROVE  /\ src'[p] = base + k =>
                           IF dst'[p] = ToStderr THEN Err \in {cmds'[k].stdos} \cup ToSet(cmds'[k].args)
                                                 ELSE W(p) \in Ends(cmds'[k])
                      /\ dst'[p] = base + k => R(p) \in Ends(cmds'[k])
    OBVIOUS
  <2>1. /\ src[p] = base + k =>
             IF dst[p] = ToStderr THEN Err \in {cmds[k].stdos} \cup ToSet(cmds[k].args)
                                  ELSE W(p) \in Ends(cmds[k])
        /\ dst[p] = base + k => R(p) \in Ends(cmds[k])
    BY <1>2 DEF Wired
  <2>2. \A l \in Records : base + l = base + k => l = k
    BY <1>12 DEF Records
  <2>3. \/ src'[p] = src[p]
        \/ src[p] = Nobody /\ \E l \in Records : src'[p] = base + l /\ W(p) \in Ends(cmds'[l])
    BY <1>5, <1>13
  <2>4. \/ dst'[p] = dst[p]
        \/ dst[p] = Nobody /\ \E l \in Records : dst'[p] = base + l /\ R(p) \in Ends(cmds'[l])
    BY <1>5, <1>13
  <2>5. dst'[p] = base + k => R(p) \in Ends(cmds'[k])
    BY <1>5, <2>1, <2>2, <2>4
  <2>6. dst'[p] = ToStderr <=> dst[p] = ToStderr
    BY <1>15, <1>17, <2>4
  <2>7. dst[p] = ToStderr => src'[p] = src[p]
    BY <1>2, <2>3 DEF Meant
  <2>8. Err \in {cmds[k].stdos} \cup ToSet(cmds[k].args) => Err \in {cmds'[k].stdos} \cup ToSet(cmds'[k].args)
    <3>1. More(cmds[k], cmds'[k], Gain(k, fd, k0, Y), X) /\ Err # -1
      BY DEF Err
    <3> QED BY <3>1 DEF More
  <2>9. src'[p] = base + k /\ dst'[p] # ToStderr => W(p) \in Ends(cmds'[k])
    BY <1>5, <2>1, <2>2, <2>3, <2>6
  <2> QED BY <2>1, <2>5, <2>6, <2>7, <2>8, <2>9
<1>25. Wired'
  BY <1>1, <1>19, <1>22, <1>23, <1>24 DEF Wired
<1> QED BY <1>1, <1>7, <1>8, <1>9, <1>10, <1>11, <1>18, <1>25 DEF OwnInv

\* What every argument leaves alone.
ArgumentRest == ArgumentFrame /\ UNCHANGED <<task, misclosed, forkonly>>

LEMMA ReadOwns ==
    ASSUME Sensible, ScriptInv, ScriptInv', OwnInv, ArgumentRest, NEW n \in Names, ReadFrom(n),
           NEW X, X \subseteq {SourceFd(n) + 1}, cmds' \in Seq(Commands), Len(cmds') = Len(cmds), npipes <= npipes',
           \A k \in Records : More(SourceCmds(n)[k], cmds'[k], IF k = cur THEN {SourceFd(n)} ELSE {}, X)
    PROVE  OwnInv'
<1>1. /\ ArgumentFrame /\ phase = "setup" /\ building /\ UNCHANGED <<stdin_fd, phase, task, misclosed, forkonly>>
  BY DEF ArgumentRest, ArgumentFrame
<1> DEFINE fd == SourceFd(n)
<1> DEFINE mid == SourceCmds(n)
<1>2. PICK k0 \in Records, Y \in SUBSET Fds, F \in SUBSET Fds :
        /\ Supplies(fd, k0, Y, F) /\ Connects(fd, k0, Y)
        /\ \A k \in Records : More(cmds[k], mid[k], IF k = k0 THEN Y ELSE {}, {})
  BY <1>1, ReadSupplies
<1>3. \A k \in Records : More(mid[k], cmds'[k], IF k = cur THEN {fd} ELSE {}, X)
  OBVIOUS
<1>4. X \subseteq {fd + 1}
  OBVIOUS
<1> HIDE DEF fd, mid
<1>5. \A k \in Records : More(cmds[k], cmds'[k], Gain(k, fd, k0, Y), X)
  <2> TAKE k \in Records
  <2> DEFINE G == IF k = k0 THEN Y ELSE {}
  <2> DEFINE H == IF k = cur THEN {fd} ELSE {}
  <2>1. Gain(k, fd, k0, Y) = G \cup H /\ X = {} \cup X
    BY DEF Gain
  <2>2. More(cmds[k], mid[k], G, {}) /\ More(mid[k], cmds'[k], H, X)
    BY <1>2, <1>3
  <2> HIDE DEF G, H
  <2>3. More(cmds[k], cmds'[k], G \cup H, {} \cup X)
    BY <2>2, MoreTwice
  <2> QED BY <2>1, <2>3
<1>6. add_map' = add_map
  BY DEF ReadFrom
<1> QED BY <1>1, <1>2, <1>4, <1>5, <1>6, SuppliesOwn

LEMMA ReadReady ==
    ASSUME Sensible, ScriptInv, OwnInv, ArgumentRest, NEW n \in Names, ReadFrom(n)
    PROVE  /\ Ready(SourceCmds(n)[cur]) /\ SourceFd(n) \notin Ends(SourceCmds(n)[cur]) /\ SourceFd(n) \in Fds
           /\ SourceCmds(n)[cur].stdis = me.stdis
           /\ \A k \in Records : More(SourceCmds(n)[k], SourceCmds(n)[k], {}, {})
           /\ SourceCmds(n) \in Seq(Commands) /\ Len(SourceCmds(n)) = Len(cmds) /\ cur \in Records
           /\ npipes <= npipes'
<1>1. phase = "setup" /\ building /\ UNCHANGED <<stdin_fd, phase>>
  BY DEF ArgumentRest, ArgumentFrame
<1>2. /\ \A k \in Records : \E G : More(cmds[k], SourceCmds(n)[k], G, {})
      /\ Ready(SourceCmds(n)[cur]) /\ SourceFd(n) \notin Ends(SourceCmds(n)[cur])
      /\ SourceCmds(n)[cur].stdis = me.stdis
  BY <1>1, ReadSupplies
<1>3. /\ SourceFd(n) \in Fds /\ SourceCmds(n) \in Seq(Commands) /\ Len(SourceCmds(n)) = Len(cmds)
      /\ npipes <= npipes'
  BY <1>1, ReadFacts
<1>4. cur \in Records
  BY <1>1, CurrentFacts DEF Records
<1>5. \A k \in Records : More(SourceCmds(n)[k], SourceCmds(n)[k], {}, {})
  <2> TAKE k \in Records
  <2>1. Fit(SourceCmds(n)[k]) /\ Told(SourceCmds(n)[k])
    BY <1>2 DEF More
  <2> QED BY <2>1, MoreSame
<1> QED BY <1>2, <1>3, <1>4, <1>5

\* The record of the command is the only one that changes besides.
LEMMA ReadOwnsOne ==
    ASSUME Sensible, ScriptInv, ScriptInv', OwnInv, ArgumentRest, NEW n \in Names, ReadFrom(n),
           NEW b, b \in Commands, More(SourceCmds(n)[cur], b, {SourceFd(n)}, {}),
           cmds' = [SourceCmds(n) EXCEPT ![cur] = b]
    PROVE  OwnInv'
<1> DEFINE mid == SourceCmds(n)
<1> DEFINE fd == SourceFd(n)
<1>1. /\ mid \in Seq(Commands) /\ Len(mid) = Len(cmds) /\ cur \in 1 .. Len(mid) /\ npipes <= npipes'
      /\ \A k \in Records : More(mid[k], mid[k], {}, {})
  BY ReadReady DEF Records
<1>2. cmds' = [mid EXCEPT ![cur] = b] /\ More(mid[cur], b, {fd}, {})
  OBVIOUS
<1> HIDE DEF mid, fd
<1>3. /\ cmds' \in Seq(Commands) /\ Len(cmds') = Len(cmds)
      /\ \A k \in Records : cmds'[k] = IF k = cur THEN b ELSE mid[k]
  <2> DEFINE j == cur
  <2>1. j \in 1 .. Len(mid) /\ cmds' = [mid EXCEPT ![j] = b]
    BY <1>1, <1>2
  <2> HIDE DEF j
  <2>2. mid \in Seq(Commands) /\ b \in Commands
    BY <1>1
  <2>3. /\ [mid EXCEPT ![j] = b] \in Seq(Commands) /\ Len([mid EXCEPT ![j] = b]) = Len(mid)
        /\ \A k \in 1 .. Len(mid) : [mid EXCEPT ![j] = b][k] = IF k = j THEN b ELSE mid[k]
    BY <2>1, <2>2, UpdateFacts
  <2> QED BY <1>1, <2>1, <2>3 DEF j, Records
<1>4. \A k \in Records : More(mid[k], cmds'[k], IF k = cur THEN {fd} ELSE {}, {})
  <2> TAKE k \in Records
  <2>1. CASE k = cur
    BY <1>2, <1>3, <2>1
  <2>2. CASE k # cur
    BY <1>1, <1>3, <2>2
  <2> QED BY <2>1, <2>2
<1>5. {} \subseteq {fd + 1}
  OBVIOUS
<1> QED BY <1>1, <1>3, <1>4, <1>5, ReadOwns DEF mid, fd

\* The record b has the end e where its symbol says.
Holding(kind, ios, e, b) ==
    kind = "ODescVal" => /\ ios = 0 => e \in {b.stdos, b.status_fd}
                         /\ ios > 0 => e \in ToSet(b.os)

LEMMA DeclareOwns ==
    ASSUME Sensible, ScriptInv, ScriptInv', OwnInv, ArgumentRest, NEW n \in Names,
           NEW kind \in Streams, NEW fd, NEW arg, NEW ios, NEW e, Divides(n, kind, fd, arg, ios, e),
           NEW b, b \in Commands, More(me, b, {e}, {}), cmds' = [cmds EXCEPT ![cur] = b],
           Holding(kind, ios, e, b)
    PROVE  OwnInv'
<1>1. /\ ArgumentFrame /\ phase = "setup" /\ building /\ UNCHANGED <<stdin_fd, phase, task, misclosed, forkonly>>
  BY DEF ArgumentRest, ArgumentFrame
<1>2. /\ Supplies(e, cur, {}, {NewR, NewW}) /\ Connects(e, cur, {})
      /\ \A m \in Names :
           IF m = n THEN /\ Tagged(add_map'[m], src', dst')
                         /\ add_map'[m] = [kind |-> kind, fd |-> fd, cmd |-> cur, arg |-> arg, ios |-> ios, id |-> me.id]
                    ELSE add_map'[m] = add_map[m]
  BY <1>1, DeclareSupplies
<1>3. /\ cur \in Records /\ me = cmds[cur] /\ me \in Commands /\ cmds \in Seq(Commands) /\ npipes \in Nat
      /\ cur \in 1 .. Len(cmds)
  <2>1. cmds \in Seq(Commands) /\ npipes \in Nat
    BY DEF ScriptInv, Typed
  <2> QED BY <1>1, <2>1, CurrentFacts DEF Records
<1>4. npipes < MaxPipes /\ npipes' = npipes + 1
  BY DEF Divides, Declare
<1>5. /\ cmds' \in Seq(Commands) /\ Len(cmds') = Len(cmds)
      /\ \A k \in Records : cmds'[k] = IF k = cur THEN b ELSE cmds[k]
  <2> DEFINE j == cur
  <2>1. j \in 1 .. Len(cmds) /\ cmds' = [cmds EXCEPT ![j] = b]
    BY <1>3
  <2> HIDE DEF j
  <2>2. /\ cmds' \in Seq(Commands) /\ Len(cmds') = Len(cmds)
        /\ \A k \in 1 .. Len(cmds) : cmds'[k] = IF k = j THEN b ELSE cmds[k]
    BY <1>3, <2>1, UpdateFacts
  <2> QED BY <2>2 DEF j, Records
<1>6. \A k \in Records : More(cmds[k], cmds'[k], Gain(k, e, cur, {}), {})
  <2> TAKE k \in Records
  <2>1. CASE k = cur
    <3>1. Gain(k, e, cur, {}) = {e}
      BY <2>1 DEF Gain
    <3> QED BY <1>3, <1>5, <2>1, <3>1
  <2>2. CASE k # cur
    <3>1. Gain(k, e, cur, {}) = {} /\ cmds'[k] = cmds[k] /\ Fit(cmds[k]) /\ Told(cmds[k])
      BY <1>1, <1>5, <2>2 DEF Gain, OwnInv, Wired
    <3> QED BY <3>1, MoreSame
  <2> QED BY <2>1, <2>2
<1>7. b.exit_fds \subseteq open
  <2>1. b.exit_fds \subseteq me.exit_fds
    BY DEF More
  <2>2. Fit(me) /\ Owned
    BY <1>3 DEF OwnInv
  <2>3. ToSet(me.os) \subseteq Ends(me) /\ Ends(me) \subseteq open
    BY <1>3, <2>2, EndsFacts DEF Owned
  <2> QED BY <2>1, <2>2, <2>3 DEF Fit
<1>8. NewW \notin open /\ NewW = NewR + 1
  <2>1. NewW \notin Made /\ NewW = NewR + 1
    BY <1>4, MadeMore DEF ScriptInv
  <2> QED BY <2>1 DEF OwnInv, Owned
<1>9. WrittenBy(add_map'[n], cmds')
  <2> DEFINE s == [kind |-> kind, fd |-> fd, cmd |-> cur, arg |-> arg, ios |-> ios, id |-> me.id]
  <2>1. s.kind = kind /\ s.fd = fd /\ s.cmd = cur /\ s.ios = ios
    OBVIOUS
  <2>2. cmds'[cur] = b
    BY <1>3, <1>5
  <2>3. add_map'[n] = s
    BY <1>2
  <2> HIDE DEF s
  <2>4. ASSUME s.kind = "ODescVal"
        PROVE  /\ s.ios = 0 => s.fd + 1 \in {cmds'[s.cmd].stdos, cmds'[s.cmd].status_fd}
               /\ s.ios > 0 => s.fd + 1 \in ToSet(cmds'[s.cmd].os)
               /\ s.fd + 1 \notin cmds'[s.cmd].exit_fds
    <3>1. fd = NewR /\ e = NewW /\ kind = "ODescVal"
      BY <2>1, <2>4 DEF Divides
    <3>2. fd + 1 = e /\ e \notin b.exit_fds
      BY <1>7, <1>8, <3>1
    <3> QED BY <2>1, <2>2, <3>1, <3>2 DEF Holding
  <2> QED BY <2>3, <2>4 DEF WrittenBy
<1>10. \A m \in Names : \/ add_map'[m] = add_map[m]
                        \/ Tagged(add_map'[m], src', dst') /\ WrittenBy(add_map'[m], cmds')
  BY <1>2, <1>9
<1>11. npipes <= npipes' /\ {} \subseteq {e + 1}
  BY <1>3, <1>4
<1> QED BY <1>1, <1>2, <1>5, <1>6, <1>10, <1>11, SuppliesOwn

LEMMA FulfilOwns ==
    ASSUME Sensible, ScriptInv, ScriptInv', OwnInv, ArgumentRest, NEW n \in Names, Fulfil(n),
           NEW b, b \in Commands, More(me, b, {map[n].fd}, {}), cmds' = [cmds EXCEPT ![cur] = b]
    PROVE  OwnInv'
<1>1. /\ ArgumentFrame /\ phase = "setup" /\ building /\ UNCHANGED <<stdin_fd, phase, task, misclosed, forkonly>>
  BY DEF ArgumentRest, ArgumentFrame
<1> DEFINE fd == map[n].fd
<1>2. Supplies(fd, cur, {}, {}) /\ Connects(fd, cur, {})
  BY <1>1, FulfilSupplies
<1>3. More(me, b, {fd}, {})
  OBVIOUS
<1> HIDE DEF fd
<1>4. /\ cur \in Records /\ me = cmds[cur] /\ me \in Commands /\ cmds \in Seq(Commands) /\ npipes \in Nat
      /\ cur \in 1 .. Len(cmds)
  BY <1>1, CurrentFacts DEF Records, ScriptInv, Typed
<1>5. npipes' = npipes /\ add_map' = add_map
  BY DEF Fulfil
<1>6. /\ cmds' \in Seq(Commands) /\ Len(cmds') = Len(cmds)
      /\ \A k \in Records : cmds'[k] = IF k = cur THEN b ELSE cmds[k]
  <2> DEFINE j == cur
  <2>1. j \in 1 .. Len(cmds) /\ cmds' = [cmds EXCEPT ![j] = b]
    BY <1>4
  <2> HIDE DEF j
  <2>2. /\ cmds' \in Seq(Commands) /\ Len(cmds') = Len(cmds)
        /\ \A k \in 1 .. Len(cmds) : cmds'[k] = IF k = j THEN b ELSE cmds[k]
    BY <1>4, <2>1, UpdateFacts
  <2> QED BY <2>2 DEF j, Records
<1>7. \A k \in Records : More(cmds[k], cmds'[k], Gain(k, fd, cur, {}), {})
  <2> TAKE k \in Records
  <2>1. CASE k = cur
    <3>1. Gain(k, fd, cur, {}) = {fd}
      BY <2>1 DEF Gain
    <3> QED BY <1>3, <1>4, <1>6, <2>1, <3>1
  <2>2. CASE k # cur
    <3>1. Gain(k, fd, cur, {}) = {} /\ cmds'[k] = cmds[k] /\ Fit(cmds[k]) /\ Told(cmds[k])
      BY <1>1, <1>6, <2>2 DEF Gain, OwnInv, Wired
    <3> QED BY <3>1, MoreSame
  <2> QED BY <2>1, <2>2
<1>8. npipes <= npipes' /\ {} \subseteq {fd + 1}
  BY <1>4, <1>5
<1> QED BY <1>1, <1>2, <1>5, <1>6, <1>7, <1>8, SuppliesOwn

LEMMA ArgumentRests ==
    ASSUME ScriptInv, NEW n \in Names, Argument(n), LineFrame
    PROVE  ArgumentRest /\ me \in Commands /\ me = cmds[cur]
<1>1. SetUp(n) /\ phase = "setup" /\ building /\ nargs' \in 0 .. MaxArgs
  BY ArgumentSetsUp
<1>2. NextArg
  BY DEF Argument, StdinFrom, TextFrom, FileFrom, ExecuteFrom, StdoutTo, StatusTo, FileTo,
         StdinFromBelow, FileFromBelow, StdoutAbove, FileAbove
<1>3. ArgumentFrame /\ UNCHANGED <<task, misclosed, forkonly>>
  BY <1>1, <1>2 DEF NextArg, ArgumentFrame, LineFrame
<1>4. me \in Commands /\ me = cmds[cur]
  BY <1>1, CurrentFacts
<1> QED BY <1>3, <1>4 DEF ArgumentRest

LEMMA ReadArguments ==
    ASSUME Sensible, ScriptInv, ScriptInv', OwnInv, ArgumentRest, NEW n \in Names,
           StdinFrom(n) \/ TextFrom(n) \/ FileFrom(n)
    PROVE  OwnInv'
<1> DEFINE mid == SourceCmds(n)[cur]
<1> DEFINE fd == SourceFd(n)
<1>1. ReadFrom(n)
  BY DEF StdinFrom, TextFrom, FileFrom
<1>2. Ready(mid) /\ fd \notin Ends(mid) /\ fd \in Fds /\ mid.stdis = me.stdis
  BY <1>1, ReadReady
<1> HIDE DEF mid, fd
<1>3. CASE StdinFrom(n)
  <2> DEFINE b == [mid EXCEPT !.stdis = fd]
  <2>1. me.stdis = -1
    BY <1>3 DEF StdinFrom, Habit, Sensible
  <2>2. b \in Commands /\ More(mid, b, {fd}, {})
    BY <1>2, <2>1, MoreStandard
  <2>3. cmds' = [SourceCmds(n) EXCEPT ![cur] = b]
    BY <1>3 DEF StdinFrom, mid, fd
  <2> HIDE DEF b
  <2> QED BY <1>1, <2>2, <2>3, ReadOwnsOne DEF mid, fd
<1>4. CASE TextFrom(n)
  <2> DEFINE b == [mid EXCEPT !.iargs = Append(mid.iargs, fd)]
  <2>1. b \in Commands /\ More(mid, b, {fd}, {})
    BY <1>2, MoreText
  <2>2. cmds' = [SourceCmds(n) EXCEPT ![cur] = b]
    BY <1>4 DEF TextFrom, mid, fd
  <2> HIDE DEF b
  <2> QED BY <1>1, <2>1, <2>2, ReadOwnsOne DEF mid, fd
<1>5. CASE FileFrom(n)
  <2> DEFINE b == [mid EXCEPT !.is = Append(mid.is, fd), !.args = Append(mid.args, fd)]
  <2>1. b \in Commands /\ More(mid, b, {fd}, {})
    BY <1>2, MoreRead
  <2>2. cmds' = [SourceCmds(n) EXCEPT ![cur] = b]
    BY <1>5 DEF FileFrom, mid, fd
  <2> HIDE DEF b
  <2> QED BY <1>1, <2>1, <2>2, ReadOwnsOne DEF mid, fd
<1> QED BY <1>3, <1>4, <1>5

LEMMA ExecuteArgument ==
    ASSUME Sensible, ScriptInv, ScriptInv', OwnInv, ArgumentRest, NEW n \in Names, ExecuteFrom(n)
    PROVE  OwnInv'
<1> DEFINE mid == SourceCmds(n)[cur]
<1> DEFINE fd == SourceFd(n)
<1> DEFINE direct == map[n].arg > 0
<1>1. ReadFrom(n) /\ ~forkonly /\ (~direct) \in BOOLEAN
  BY DEF ExecuteFrom, Habit, Sensible
<1>2. /\ Ready(mid) /\ fd \notin Ends(mid) /\ fd \in Fds
      /\ cur \in Records /\ npipes <= npipes'
      /\ SourceCmds(n) \in Seq(Commands) /\ Len(SourceCmds(n)) = Len(cmds)
  BY <1>1, ReadReady
<1> DEFINE b == [mid EXCEPT !.is = Append(mid.is, fd), !.exec_fd = fd, !.has_bytes = ~direct]
<1>3. b \in Commands /\ More(mid, b, {fd}, {})
  <2> HIDE DEF mid, fd, direct
  <2> QED BY <1>1, <1>2, MoreExecuted
<1> DEFINE mine == [SourceCmds(n) EXCEPT ![cur] = b]
<1>4. CASE ~direct
  <2>1. cmds' = mine
    BY <1>4 DEF ExecuteFrom
  <2> HIDE DEF b
  <2> QED BY <1>1, <1>3, <2>1, ReadOwnsOne
<1>5. CASE direct
  <2> DEFINE k == map[n].cmd
  <2> DEFINE x == map[n].arg
  <2>1. map[n].kind = "ODescVal" /\ SourceCmds(n) = cmds /\ fd = map[n].fd
    <3>1. map[n].kind = "ODescVal"
      BY <1>5 DEF ScriptInv, KnownFit, ExecuteFrom, ReadFrom, Source
    <3> QED BY <3>1 DEF SourceCmds, SourceFd
  <2>2. k \in Records /\ cmds[k].id = map[n].id /\ phase = "setup"
    BY <1>5 DEF ExecuteFrom, Current, cur, Records, ArgumentRest, ArgumentFrame
  <2>3. Placed(map[n], cmds) /\ WrittenBy(map[n], cmds)
    BY <2>2 DEF OwnInv, Wired, ScriptInv, KnownFit
  <2>4. /\ x \in 1 .. Len(cmds[k].args) /\ cmds[k].args[x] = fd + 1
        /\ fd + 1 \in ToSet(cmds[k].os)
    BY <1>5, <2>1, <2>2, <2>3, UsedUpFacts DEF Placed, InPlace, WrittenBy, Records
  <2>5. cmds' = [mine EXCEPT ![k].exit_fds = @ \cup {cmds[k].args[x]}, ![k].args[x] = 0]
    BY <1>5 DEF ExecuteFrom
  <2> HIDE DEF k, x
  <2>6. More(cmds[cur], b, {fd}, {}) /\ b.args = cmds[cur].args
    <3>1. mid = cmds[cur]
      BY <2>1
    <3>2. mid \in Commands
      BY <1>2 DEF Ready
    <3>3. b.args = mid.args
      <4> HIDE DEF mid, fd, direct
      <4> QED BY <3>2 DEF Commands
    <3> QED BY <1>3, <3>1, <3>3
  <2> HIDE DEF b, direct, mid
  <2>7. /\ mine \in Seq(Commands) /\ Len(mine) = Len(cmds)
        /\ \A j \in Records : mine[j] = IF j = cur THEN b ELSE cmds[j]
    <3> DEFINE i == cur
    <3>1. i \in 1 .. Len(cmds) /\ mine = [cmds EXCEPT ![i] = b] /\ cmds \in Seq(Commands)
      BY <1>2, <2>1 DEF Records
    <3> HIDE DEF i, mine
    <3>2. /\ mine \in Seq(Commands) /\ Len(mine) = Len(cmds)
          /\ \A j \in 1 .. Len(cmds) : mine[j] = IF j = i THEN b ELSE cmds[j]
      BY <1>3, <3>1, UpdateFacts
    <3> QED BY <3>2 DEF i, Records
  <2> HIDE DEF mine
  <2> DEFINE a == mine[k]
  <2>8. \A j \in Records : Fit(cmds[j]) /\ Told(cmds[j]) /\ cmds[j] \in Commands
    BY <2>2, RecordsSound DEF OwnInv, Wired, Records
  <2>9. \A j \in Records : More(cmds[j], mine[j], IF j = cur THEN {fd} ELSE {}, {})
    <3> TAKE j \in Records
    <3>1. CASE j = cur
      BY <2>6, <2>7, <3>1
    <3>2. CASE j # cur
      <4>1. More(cmds[j], cmds[j], {}, {})
        BY <2>8, MoreSame
      <4> QED BY <2>7, <3>2, <4>1
    <3> QED BY <3>1, <3>2
  <2>10. /\ Ready(a) /\ x \in 1 .. Len(a.args) /\ a.args[x] = fd + 1 /\ fd + 1 \in ToSet(a.os)
    <3>1. a.args = cmds[k].args
      BY <2>2, <2>6, <2>7
    <3>2. a \in Commands
      BY <2>2, <2>7, ElementOfSeq DEF Records
    <3>3. /\ Fit(a) /\ Told(a) /\ a.kind = cmds[k].kind /\ ToSet(cmds[k].os) \subseteq ToSet(a.os)
      BY <2>2, <2>9 DEF More
    <3>4. Ends(a) # {}
      <4>1. fd + 1 \in ToSet(a.os)
        BY <2>4, <3>3
      <4> QED BY <3>2, <4>1, EndsFacts
    <3>5. a.kind \in {"RunCommand", "DefCommand"}
      BY <3>3, <3>4 DEF Fit
    <3>6. Ready(a)
      BY <3>2, <3>3, <3>5 DEF Ready
    <3> QED BY <2>4, <3>1, <3>3, <3>6
  <2> DEFINE d == [a EXCEPT !.exit_fds = a.exit_fds \cup {a.args[x]}, !.args[x] = 0]
  <2>11. cmds' = [mine EXCEPT ![k] = d]
    BY <2>4, <2>5, <2>10
  <2>12. d \in Commands /\ More(a, d, {}, {fd + 1})
    <3> HIDE DEF a
    <3>1. d = [a EXCEPT !.exit_fds = a.exit_fds \cup {fd + 1}, !.args[x] = 0]
      BY <2>10
    <3> QED BY <2>10, <3>1, MoreFreed
  <2> HIDE DEF a, d
  <2>13. /\ cmds' \in Seq(Commands) /\ Len(cmds') = Len(cmds)
         /\ \A j \in Records : cmds'[j] = IF j = k THEN d ELSE mine[j]
    <3>1. k \in 1 .. Len(mine) /\ mine \in Seq(Commands) /\ d \in Commands
      BY <2>2, <2>7, <2>12 DEF Records
    <3> HIDE DEF k
    <3>2. /\ [mine EXCEPT ![k] = d] \in Seq(Commands) /\ Len([mine EXCEPT ![k] = d]) = Len(mine)
          /\ \A j \in 1 .. Len(mine) : [mine EXCEPT ![k] = d][j] = IF j = k THEN d ELSE mine[j]
      BY <3>1, UpdateFacts
    <3> QED BY <2>7, <2>11, <3>2 DEF Records
  <2>14. \A j \in Records : More(mine[j], cmds'[j], {}, {fd + 1})
    <3> TAKE j \in Records
    <3>1. CASE j = k
      BY <2>12, <2>13, <3>1 DEF a
    <3>2. CASE j # k
      <4>1. Fit(mine[j]) /\ Told(mine[j])
        BY <2>9 DEF More
      <4>2. More(mine[j], mine[j], {}, {fd + 1})
        BY <4>1, MoreSame
      <4> QED BY <2>13, <3>2, <4>2
    <3> QED BY <3>1, <3>2
  <2>15. \A j \in Records : More(cmds[j], cmds'[j], IF j = cur THEN {fd} ELSE {}, {fd + 1})
    <3> TAKE j \in Records
    <3> DEFINE G == IF j = cur THEN {fd} ELSE {}
    <3>1. More(cmds[j], mine[j], G, {}) /\ More(mine[j], cmds'[j], {}, {fd + 1})
      BY <2>9, <2>14
    <3> HIDE DEF G
    <3>2. More(cmds[j], cmds'[j], G \cup {}, {} \cup {fd + 1})
      BY <3>1, MoreTwice
    <3>3. G \cup {} = G /\ {} \cup {fd + 1} = {fd + 1}
      OBVIOUS
    <3>4. More(cmds[j], cmds'[j], G, {fd + 1})
      BY <3>2, <3>3
    <3> QED BY <3>4 DEF G
  <2>16. {fd + 1} \subseteq {SourceFd(n) + 1}
    OBVIOUS
  <2> HIDE DEF fd
  <2>17. \A j \in Records : More(SourceCmds(n)[j], cmds'[j], IF j = cur THEN {SourceFd(n)} ELSE {}, {fd + 1})
    BY <2>1, <2>15 DEF fd
  <2> QED BY <1>1, <1>2, <2>13, <2>16, <2>17, ReadOwns
<1> QED BY <1>4, <1>5

LEMMA DeclareArguments ==
    ASSUME Sensible, ScriptInv, ScriptInv', OwnInv, ArgumentRest, me \in Commands, me = cmds[cur], NEW n \in Names,
           StdoutTo(n) \/ StatusTo(n) \/ FileTo(n) \/ StdinFromBelow(n) \/ FileFromBelow(n)
    PROVE  OwnInv'
<1>1. npipes < MaxPipes /\ npipes' = npipes + 1 /\ Typed
  BY DEF StdoutTo, StatusTo, FileTo, StdinFromBelow, FileFromBelow, Declare, ScriptInv
<1>2. /\ NewR \notin Ends(me) /\ NewW \notin Ends(me) /\ NewR \in Fds /\ NewW \in Fds
  <2>1. NewR \notin Made /\ NewW \notin Made /\ NewR \in Fds /\ NewW \in Fds
    BY <1>1, MadeMore
  <2>2. cur \in Records
    BY CurrentFacts DEF Records, ArgumentRest, ArgumentFrame
  <2>3. Ends(me) \subseteq open /\ open \subseteq Made
    BY <2>2 DEF OwnInv, Owned
  <2> QED BY <2>1, <2>3
<1>3. Ready(me)
  <2>1. cur \in Records /\ me.kind = "RunCommand" /\ phase = "setup"
    BY CurrentFacts DEF Records, ArgumentRest, ArgumentFrame
  <2> QED BY <2>1 DEF Ready, OwnInv, Wired
<1>4. CASE StdoutTo(n)
  <2> DEFINE b == [me EXCEPT !.stdos = NewW]
  <2>1. /\ Divides(n, "ODescVal", NewR, 0, 0, NewW) /\ cmds' = [cmds EXCEPT ![cur] = b] /\ me.stdos = -1
    BY <1>4 DEF StdoutTo, Divides, Habit, Sensible
  <2>2. b \in Commands /\ More(me, b, {NewW}, {})
    BY <1>2, <1>3, <2>1, MoreStandard
  <2>3. NewW \in {b.stdos, b.status_fd} /\ "ODescVal" \in Streams
    BY DEF Commands, Streams
  <2> HIDE DEF b
  <2>4. Holding("ODescVal", 0, NewW, b)
    BY <2>3 DEF Holding
  <2> QED BY <2>1, <2>2, <2>3, <2>4, DeclareOwns
<1>5. CASE StatusTo(n)
  <2> DEFINE b == [me EXCEPT !.status_fd = NewW]
  <2>1. /\ Divides(n, "ODescVal", NewR, 0, 0, NewW) /\ cmds' = [cmds EXCEPT ![cur] = b] /\ me.status_fd = -1
    BY <1>5 DEF StatusTo, Divides, Habit, Sensible
  <2>2. b \in Commands /\ More(me, b, {NewW}, {})
    BY <1>2, <1>3, <2>1, MoreStandard
  <2>3. NewW \in {b.stdos, b.status_fd} /\ "ODescVal" \in Streams
    BY DEF Commands, Streams
  <2> HIDE DEF b
  <2>4. Holding("ODescVal", 0, NewW, b)
    BY <2>3 DEF Holding
  <2> QED BY <2>1, <2>2, <2>3, <2>4, DeclareOwns
<1>6. CASE FileTo(n)
  <2> DEFINE b == [me EXCEPT !.os = Append(me.os, NewW), !.args = Append(me.args, NewW)]
  <2> DEFINE arg == Len(me.args) + 1
  <2> DEFINE ios == Len(me.os) + 1
  <2>1. /\ Divides(n, "ODescVal", NewR, arg, ios, NewW) /\ cmds' = [cmds EXCEPT ![cur] = b]
    BY <1>6 DEF FileTo, Divides
  <2>2. b \in Commands /\ More(me, b, {NewW}, {}) /\ NewW \in ToSet(b.os)
    BY <1>2, <1>3, MoreWritten
  <2>3. ios # 0 /\ "ODescVal" \in Streams
    BY LenProperties DEF Commands, Streams
  <2> HIDE DEF b, ios, arg
  <2>4. Holding("ODescVal", ios, NewW, b)
    BY <2>2, <2>3 DEF Holding
  <2>5. b \in Commands /\ More(me, b, {NewW}, {})
    BY <2>2
  <2> QED BY <2>1, <2>3, <2>4, <2>5, DeclareOwns
<1>7. CASE StdinFromBelow(n)
  <2> DEFINE b == [me EXCEPT !.stdis = NewR]
  <2>1. /\ Divides(n, "IFutureDescVal", NewW, 0, 0, NewR) /\ cmds' = [cmds EXCEPT ![cur] = b] /\ me.stdis = -1
    BY <1>7 DEF StdinFromBelow, Divides, Habit, Sensible
  <2>2. b \in Commands /\ More(me, b, {NewR}, {})
    BY <1>2, <1>3, <2>1, MoreStandard
  <2>3. "IFutureDescVal" \in Streams /\ "IFutureDescVal" # "ODescVal"
    BY DEF Streams
  <2> HIDE DEF b
  <2>4. Holding("IFutureDescVal", 0, NewR, b)
    BY <2>3 DEF Holding
  <2> QED BY <2>1, <2>2, <2>3, <2>4, DeclareOwns
<1>8. CASE FileFromBelow(n)
  <2> DEFINE b == [me EXCEPT !.os = Append(me.os, NewR), !.args = Append(me.args, NewR)]
  <2> DEFINE ios == Len(me.os) + 1
  <2>1. /\ Divides(n, "IFutureDescVal", NewW, 0, ios, NewR) /\ cmds' = [cmds EXCEPT ![cur] = b]
    BY <1>8 DEF FileFromBelow, Divides
  <2>2. b \in Commands /\ More(me, b, {NewR}, {})
    BY <1>2, <1>3, MoreWritten
  <2>3. "IFutureDescVal" \in Streams /\ "IFutureDescVal" # "ODescVal"
    BY DEF Streams
  <2> HIDE DEF b, ios
  <2>4. Holding("IFutureDescVal", ios, NewR, b)
    BY <2>3 DEF Holding
  <2> QED BY <2>1, <2>2, <2>3, <2>4, DeclareOwns
<1> QED BY <1>4, <1>5, <1>6, <1>7, <1>8

LEMMA FulfilArguments ==
    ASSUME Sensible, ScriptInv, ScriptInv', OwnInv, ArgumentRest, me \in Commands, me = cmds[cur], NEW n \in Names,
           StdoutAbove(n) \/ FileAbove(n)
    PROVE  OwnInv'
<1>1. Fulfil(n)
  BY DEF StdoutAbove, FileAbove
<1> DEFINE fd == map[n].fd
<1>2. fd \in Fds /\ fd \notin Ends(me)
  BY <1>1, FulfilSupplies DEF ArgumentRest, ArgumentFrame
<1>3. Ready(me)
  <2>1. cur \in Records /\ me.kind = "RunCommand" /\ phase = "setup"
    BY CurrentFacts DEF Records, ArgumentRest, ArgumentFrame
  <2> QED BY <2>1 DEF Ready, OwnInv, Wired
<1> HIDE DEF fd
<1>4. CASE StdoutAbove(n)
  <2> DEFINE b == [me EXCEPT !.stdos = fd]
  <2>1. cmds' = [cmds EXCEPT ![cur] = b] /\ me.stdos = -1
    BY <1>4 DEF StdoutAbove, Habit, Sensible, fd
  <2>2. b \in Commands /\ More(me, b, {fd}, {})
    BY <1>2, <1>3, <2>1, MoreStandard
  <2> HIDE DEF b
  <2> QED BY <1>1, <2>1, <2>2, FulfilOwns DEF fd
<1>5. CASE FileAbove(n)
  <2> DEFINE b == [me EXCEPT !.is = Append(me.is, fd), !.args = Append(me.args, fd)]
  <2>1. cmds' = [cmds EXCEPT ![cur] = b]
    BY <1>5 DEF FileAbove, fd
  <2>2. b \in Commands /\ More(me, b, {fd}, {})
    BY <1>2, <1>3, MoreRead
  <2> HIDE DEF b
  <2> QED BY <1>1, <2>1, <2>2, FulfilOwns DEF fd
<1> QED BY <1>4, <1>5

LEMMA ArgumentOwns ==
    ASSUME Sensible, ScriptInv, ScriptInv', OwnInv, NEW n \in Names, Argument(n), LineFrame
    PROVE  OwnInv'
<1>1. ArgumentRest /\ me \in Commands /\ me = cmds[cur]
  BY ArgumentRests
<1>2. CASE StdinFrom(n) \/ TextFrom(n) \/ FileFrom(n)
  BY <1>1, <1>2, ReadArguments
<1>3. CASE ExecuteFrom(n)
  BY <1>1, <1>3, ExecuteArgument
<1>4. CASE StdoutTo(n) \/ StatusTo(n) \/ FileTo(n) \/ StdinFromBelow(n) \/ FileFromBelow(n)
  BY <1>1, <1>4, DeclareArguments
<1>5. CASE StdoutAbove(n) \/ FileAbove(n)
  BY <1>1, <1>5, FulfilArguments
<1> QED BY <1>2, <1>3, <1>4, <1>5 DEF Argument

-----------------------------------------------------------------------------
(***************************************************************************)
(* Setting up the commands.                                                *)
(***************************************************************************)

\* A line adds the record new to the records mid, and the name n stands for
\* something else then.  The descriptors of L are closed.
Lined(mid, new, n, L) ==
    /\ phase = "setup" /\ phase' = "setup" /\ ~building
    /\ UNCHANGED <<base, add_map, exstatus, npipes, src>> /\ ~misclosed'
    /\ mid \in Seq(Commands) /\ Len(mid) = Len(cmds) /\ cmds' = Append(mid, new)
    /\ new \in Commands /\ new.id = base + Len(cmds) + 1 /\ Fit(new) /\ Told(new)
    /\ \A k \in Records : /\ Ends(mid[k]) = Ends(cmds[k]) \ L /\ Fit(mid[k]) /\ Told(mid[k])
                          /\ Err \in {cmds[k].stdos} \cup ToSet(cmds[k].args) =>
                               Err \in {mid[k].stdos} \cup ToSet(mid[k].args)
    /\ open' = open \ L /\ \A x \in L : x \in Spare \/ \E k \in Records : x \in Ends(cmds[k])
    /\ Spare' \cup Ends(new) = Spare \ L /\ Spare' \cap Ends(new) = {}
    /\ \A m \in Names : m # n => map'[m] = map[m] /\ WrittenBy(map[m], mid) /\ Defined(map[m], mid)
    /\ WrittenBy(map'[n], cmds') /\ Tagged(map'[n], src, dst') /\ Defined(map'[n], cmds')

\* Where the streams go that the line ends.
Ending(mid, new, L) ==
    \A p \in Pipes :
        /\ dst'[p] # dst[p] =>
             /\ dst[p] = Nobody
             /\ \/ dst'[p] = new.id /\ R(p) \in Ends(new)
                \/ dst'[p] \in {ToStdout, ToStderr} /\ src[p] # Nobody /\ R(p) \in L
        /\ W(p) \notin Ends(new) /\ (R(p) \in Ends(new) => dst'[p] = new.id)
        /\ W(p) \in L <=> dst'[p] = ToStderr /\ dst[p] # ToStderr
        /\ R(p) \in L => dst'[p] \in {ToStdout, ToStderr}
        /\ W(p) \in redirected' <=> dst'[p] = ToStdout
        /\ dst'[p] = ToStderr /\ dst[p] # ToStderr =>
             \A k \in Records : src[p] = base + k => Err \in {mid[k].stdos} \cup ToSet(mid[k].args)

LEMMA LineRecords ==
    ASSUME ScriptInv, NEW mid, NEW new, NEW n, NEW L, Lined(mid, new, n, L)
    PROVE  /\ Records' = Records \cup {Len(cmds) + 1} /\ Len(cmds) + 1 \notin Records /\ Len(cmds) \in Nat
           /\ base \in Nat /\ Len(cmds') = Len(cmds) + 1
           /\ cmds'[Len(cmds) + 1] = new /\ \A k \in Records : cmds'[k] = mid[k]
<1>1. /\ Len(cmds') = Len(mid) + 1 /\ Len(mid) \in Nat /\ cmds'[Len(mid) + 1] = new
      /\ \A k \in 1 .. Len(mid) : cmds'[k] = mid[k]
  BY AppendFacts DEF Lined
<1>2. Len(mid) = Len(cmds)
  BY DEF Lined
<1>3. 1 .. Len(cmds) + 1 = (1 .. Len(cmds)) \cup {Len(cmds) + 1} /\ Len(cmds) + 1 \notin 1 .. Len(cmds)
  BY <1>1, <1>2
<1>4. base \in Nat
  BY DEF ScriptInv, Typed
<1> QED BY <1>1, <1>2, <1>3, <1>4 DEF Records

LEMMA LineOwned ==
    ASSUME ScriptInv, OwnInv, NEW mid, NEW new, NEW n, NEW L, Lined(mid, new, n, L), LineFrame
    PROVE  Owned' /\ Accounted' /\ (\A k \in Records' : Fit(cmds[k])') /\ Tasks' /\ Spent'
<1>1. /\ Records' = Records \cup {Len(cmds) + 1} /\ Len(cmds) + 1 \notin Records
      /\ cmds'[Len(cmds) + 1] = new /\ \A k \in Records : cmds'[k] = mid[k]
  BY LineRecords
<1>2. Owned /\ Accounted /\ Tasks
  BY DEF OwnInv
<1>3. /\ \A i \in Ids : Threaded(i)' = Threaded(i)
      /\ Tasks'
  BY <1>2, NobodyMoves DEF LineFrame
<1>4. /\ \A k \in Records : Ends(mid[k]) = Ends(cmds[k]) \ L /\ Fit(mid[k])
      /\ open' = open \ L /\ \A x \in L : x \in Spare \/ \E k \in Records : x \in Ends(cmds[k])
      /\ Spare' \cup Ends(new) = Spare \ L /\ Spare' \cap Ends(new) = {}
      /\ Fit(new) /\ ~misclosed' /\ npipes' = npipes /\ forkonly' = forkonly
      /\ phase = "setup" /\ phase' = "setup" /\ exstatus' = exstatus
  BY DEF Lined, LineFrame
<1>5. L \subseteq open /\ \A i \in Ids : Threaded(i) \cap L = {}
  BY <1>2, <1>4 DEF Owned
<1>6. Owned'
  <2> DEFINE g == [k \in Records' |-> IF k \in Records THEN {} ELSE Ends(new)]
  <2>1. \A k \in Records' : g[k] = IF k \in Records THEN {} ELSE Ends(new)
    OBVIOUS
  <2> HIDE DEF g
  <2>2. \A k \in Records' : /\ Ends(cmds'[k]) \subseteq ((IF k \in Records THEN Ends(cmds[k]) ELSE {}) \ L) \cup g[k]
                            /\ g[k] \subseteq (Spare \ L) \cup {} /\ g[k] \cap Spare' = {}
                            /\ \A l \in Records' : k # l => g[k] \cap g[l] = {}
    BY <1>1, <1>4, <2>1
  <2>3. Made' = Made
    BY <1>4 DEF Made
  <2>4. \A i \in Ids : Threaded(i)' \subseteq Threaded(i) \ L
    BY <1>3, <1>5
  <2>5. Moves(L, {}, g)
    BY <1>4, <1>5, <2>2, <2>3, <2>4 DEF Moves
  <2> QED BY <1>2, <2>5, OwnedMoves
<1>7. Accounted'
  <2> SUFFICES ASSUME exstatus \notin {65, 126}, Habits \cap {"noexec", "unused"} = {}, NEW x \in open'
               PROVE  \/ x \in Spare' \/ \E k \in Records' : x \in Ends(cmds'[k])
                      \/ \E i \in Ids : x \in Threaded(i)'
    BY <1>4 DEF Accounted
  <2>1. /\ x \in open /\ x \notin L
        /\ \/ x \in Spare \/ \E k \in Records : x \in Ends(cmds[k])
           \/ \E i \in Ids : x \in Threaded(i)
    BY <1>2, <1>4 DEF Accounted
  <2>2. CASE x \in Spare
    BY <1>1, <1>4, <2>1, <2>2
  <2>3. CASE \E k \in Records : x \in Ends(cmds[k])
    <3>1. PICK k \in Records : x \in Ends(cmds[k])
      BY <2>3
    <3>2. k \in Records' /\ x \in Ends(cmds'[k])
      BY <1>1, <1>4, <2>1, <3>1
    <3> QED BY <3>2
  <2>4. CASE \E i \in Ids : x \in Threaded(i)
    BY <1>3, <2>4
  <2> QED BY <2>1, <2>2, <2>3, <2>4
<1>8. \A k \in Records' : Fit(cmds[k])'
  BY <1>1, <1>4 DEF Fit
<1>9. Spent'
  BY <1>4 DEF Spent
<1> QED BY <1>3, <1>6, <1>7, <1>8, <1>9

\* The pipes whose ends are open have been made.
LEMMA MadePipes ==
    ASSUME ScriptInv, Owned, NEW p \in Pipes, R(p) \in open \/ W(p) \in open
    PROVE  p <= npipes /\ p \in Nat
<1>1. p \in Nat /\ p >= 1 /\ R(p) \notin {In, Out} /\ W(p) \notin {In, Out} /\ npipes \in Nat
  BY DEF Pipes, R, W, In, Out, ScriptInv, Typed
<1>2. R(p) \in Made \/ W(p) \in Made
  BY DEF Owned
<1>3. ASSUME NEW q \in 1 .. npipes, W(p) = W(q) \/ R(p) = R(q) PROVE p <= npipes
  BY <1>1, <1>3, PipeEnds
<1>4. \A q \in 1 .. npipes : W(p) # R(q) /\ R(p) # W(q)
  BY <1>1, PipeEnds
<1> QED BY <1>1, <1>2, <1>3, <1>4 DEF Made

LEMMA Codes == Nobody = 0 /\ ToStdout = -1 /\ ToStderr = -2
BY DEF Nobody, ToStdout, ToStderr

LEMMA LineMeant ==
    ASSUME ScriptInv, OwnInv, NEW mid, NEW new, NEW n, NEW L, Lined(mid, new, n, L), Ending(mid, new, L)
    PROVE  Meant'
<1>1. /\ Len(cmds) \in Nat /\ base \in Nat /\ Len(cmds') = Len(cmds) + 1
  BY LineRecords
<1>2. /\ base' = base /\ npipes' = npipes /\ src' = src /\ open' = open \ L
      /\ new.id = base + Len(cmds) + 1 /\ Ends(new) \subseteq Spare
      /\ \A x \in L : x \in Spare \/ \E k \in Records : x \in Ends(cmds[k])
  BY DEF Lined
<1>3. Owned /\ Meant /\ Spare \subseteq open
  BY DEF OwnInv, Owned
<1>4. Ends(new) \subseteq open /\ L \subseteq open
  BY <1>2, <1>3 DEF Owned
<1> SUFFICES ASSUME NEW p \in Pipes
             PROVE  /\ src'[p] \in 0 .. base' + Len(cmds')
                    /\ dst'[p] \in {ToStdout, ToStderr} \cup 0 .. base' + Len(cmds')
                    /\ p > npipes' => src'[p] = Nobody /\ dst'[p] = Nobody
                    /\ W(p) \in redirected' <=> dst'[p] = ToStdout
                    /\ dst'[p] = ToStderr => W(p) \notin open'
                    /\ dst'[p] \in {ToStdout, ToStderr} => src'[p] # Nobody
  BY DEF Meant
<1>5. /\ src[p] \in 0 .. base + Len(cmds) /\ dst[p] \in {ToStdout, ToStderr} \cup 0 .. base + Len(cmds)
      /\ p > npipes => src[p] = Nobody /\ dst[p] = Nobody
      /\ dst[p] = ToStderr => W(p) \notin open
      /\ dst[p] \in {ToStdout, ToStderr} => src[p] # Nobody
  BY <1>3 DEF Meant
<1>6. /\ dst'[p] # dst[p] => \/ dst'[p] = new.id /\ R(p) \in Ends(new)
                             \/ dst'[p] \in {ToStdout, ToStderr} /\ src[p] # Nobody /\ R(p) \in L
      /\ W(p) \in L <=> dst'[p] = ToStderr /\ dst[p] # ToStderr
      /\ W(p) \in redirected' <=> dst'[p] = ToStdout
  BY DEF Ending
<1>7. p > npipes => dst'[p] = dst[p]
  <2>1. dst'[p] # dst[p] => R(p) \in open
    BY <1>4, <1>6
  <2>2. dst'[p] # dst[p] => p <= npipes /\ p \in Nat
    BY <1>3, <2>1, MadePipes
  <2>3. npipes \in Nat
    BY DEF ScriptInv, Typed
  <2> QED BY <2>2, <2>3
<1>8. dst'[p] \in {ToStdout, ToStderr} \cup 0 .. base' + Len(cmds')
  BY <1>1, <1>2, <1>5, <1>6
<1>9. src'[p] \in 0 .. base' + Len(cmds')
  BY <1>1, <1>2, <1>5
<1>10. dst'[p] = ToStderr => W(p) \notin open'
  BY <1>2, <1>5, <1>6
<1>11. dst'[p] \in {ToStdout, ToStderr} => src'[p] # Nobody
  <2>1. new.id \notin {ToStdout, ToStderr}
    BY <1>1, <1>2, Codes
  <2> QED BY <1>2, <1>5, <1>6, <2>1
<1> QED BY <1>2, <1>5, <1>6, <1>7, <1>8, <1>9, <1>10, <1>11

\* Another record at the end makes no difference to a symbol.
LEMMA AppendKeeps ==
    ASSUME NEW s, NEW cs \in Seq(Commands), NEW new \in Commands, s.id # new.id
    PROVE  /\ WrittenBy(s, cs) => WrittenBy(s, Append(cs, new))
           /\ Defined(s, cs) => Defined(s, Append(cs, new))
<1> DEFINE ds == Append(cs, new)
<1>1. /\ Len(ds) = Len(cs) + 1 /\ Len(cs) \in Nat
      /\ ds[Len(cs) + 1] = new /\ \A x \in 1 .. Len(cs) : ds[x] = cs[x]
  BY AppendFacts
<1> HIDE DEF ds
<1>2. ASSUME s.cmd \in 1 .. Len(ds), ds[s.cmd].id = s.id
      PROVE  s.cmd \in 1 .. Len(cs) /\ ds[s.cmd] = cs[s.cmd] /\ cs[s.cmd].id = s.id
  BY <1>1, <1>2
<1>3. /\ WrittenBy(s, cs) => WrittenBy(s, ds)
      /\ Defined(s, cs) => Defined(s, ds)
  BY <1>2 DEF WrittenBy, Defined
<1> QED BY <1>3 DEF ds

LEMMA LineWired ==
    ASSUME ScriptInv, OwnInv, NEW mid, NEW new, NEW n \in Names, NEW L, Lined(mid, new, n, L), Ending(mid, new, L)
    PROVE  Wired'
<1>1. /\ Records' = Records \cup {Len(cmds) + 1} /\ Len(cmds) + 1 \notin Records /\ Len(cmds) \in Nat
      /\ base \in Nat /\ cmds'[Len(cmds) + 1] = new /\ \A k \in Records : cmds'[k] = mid[k]
  BY LineRecords
<1>2. /\ phase = "setup" /\ ~building /\ base' = base /\ src' = src /\ add_map' = add_map
      /\ mid \in Seq(Commands) /\ cmds' = Append(mid, new) /\ new \in Commands
      /\ new.id = base + Len(cmds) + 1 /\ Told(new)
      /\ Spare' = (Spare \ L) \ Ends(new)
  BY DEF Lined
<1>3. /\ Wired /\ Meant
  BY <1>2 DEF OwnInv
<1>4. \A k \in Records' : Told(cmds'[k])
  BY <1>1, <1>2 DEF Lined
<1>5. ASSUME NEW m \in Names
      PROVE  /\ WrittenBy(map'[m], cmds') /\ Tagged(map'[m], src', dst') /\ Defined(map'[m], cmds')
             /\ WrittenBy(add_map'[m], cmds') /\ Tagged(add_map'[m], src', dst')
  <2>1. add_map'[m] = NoSym
    BY <1>2 DEF ScriptInv, DeclaredFit
  <2>2. CASE m = n
    BY <1>2, <2>1, <2>2, NoSymFacts DEF Lined
  <2>3. CASE m # n
    <3>1. map'[m] = map[m] /\ WrittenBy(map[m], mid) /\ Defined(map[m], mid)
      BY <2>3 DEF Lined
    <3>2. map[m].id # new.id
      <4>1. map[m].id <= base + Len(cmds) /\ map[m].id \in Nat
        BY DEF ScriptInv, KnownFit, Typed, Symbols
      <4> QED BY <1>1, <1>2, <4>1
    <3>3. WrittenBy(map[m], cmds') /\ Defined(map[m], cmds')
      BY <1>2, <3>1, <3>2, AppendKeeps
    <3>4. Tagged(map[m], src, dst)
      BY <1>3 DEF Wired
    <3>5. map[m].kind \in Streams => map[m].fd \in Spare'
      BY <3>1 DEF Spare, SymbolFds
    <3>6. \A p \in Pipes : dst'[p] # dst[p] => dst[p] = Nobody /\ R(p) \notin Spare'
      BY <1>2 DEF Ending
    <3>7. map[m].id > 0 => map[m].id # Nobody
      BY Codes
    <3>8. Tagged(map[m], src, dst')
      BY <3>4, <3>5, <3>6, <3>7 DEF Tagged, Streams
    <3> QED BY <1>2, <2>1, <3>1, <3>3, <3>8, NoSymFacts
  <2> QED BY <2>2, <2>3
<1>6. \A k \in Records : Ends(cmds'[k]) = Ends(cmds[k]) \ L
  BY <1>1 DEF Lined
<1>7. Ends(cmds'[Len(cmds) + 1]) = Ends(new) /\ \A k \in Records : k \in Nat /\ k <= Len(cmds) /\ k >= 1
  BY <1>1 DEF Records
<1>8. ASSUME NEW k \in Records', NEW p \in Pipes
      PROVE  /\ W(p) \in Ends(cmds'[k]) => src'[p] = base + k
             /\ R(p) \in Ends(cmds'[k]) => dst'[p] = base + k
             /\ src'[p] = base + k =>
                  IF dst'[p] = ToStderr THEN Err \in {cmds'[k].stdos} \cup ToSet(cmds'[k].args)
                                        ELSE W(p) \in Ends(cmds'[k])
             /\ dst'[p] = base + k => R(p) \in Ends(cmds'[k])
  <2>1. /\ dst'[p] # dst[p] =>
             /\ dst[p] = Nobody
             /\ \/ dst'[p] = new.id /\ R(p) \in Ends(new)
                \/ dst'[p] \in {ToStdout, ToStderr} /\ src[p] # Nobody /\ R(p) \in L
        /\ W(p) \notin Ends(new) /\ (R(p) \in Ends(new) => dst'[p] = new.id)
        /\ W(p) \in L <=> dst'[p] = ToStderr /\ dst[p] # ToStderr
        /\ R(p) \in L => dst'[p] \in {ToStdout, ToStderr}
        /\ dst'[p] = ToStderr /\ dst[p] # ToStderr =>
             \A l \in Records : src[p] = base + l => Err \in {mid[l].stdos} \cup ToSet(mid[l].args)
    BY DEF Ending
  <2>2. /\ src[p] \in 0 .. base + Len(cmds) /\ dst[p] \in {ToStdout, ToStderr} \cup 0 .. base + Len(cmds)
    BY <1>3 DEF Meant
  <2>3. CASE k \in Records
    <3>1. /\ W(p) \in Ends(cmds[k]) => src[p] = base + k
          /\ R(p) \in Ends(cmds[k]) => dst[p] = base + k
          /\ src[p] = base + k =>
               IF dst[p] = ToStderr THEN Err \in {cmds[k].stdos} \cup ToSet(cmds[k].args)
                                    ELSE W(p) \in Ends(cmds[k])
          /\ dst[p] = base + k => R(p) \in Ends(cmds[k])
      BY <1>3, <2>3 DEF Wired
    <3>2. /\ Ends(cmds'[k]) = Ends(cmds[k]) \ L /\ cmds'[k] = mid[k]
          /\ Err \in {cmds[k].stdos} \cup ToSet(cmds[k].args) => Err \in {mid[k].stdos} \cup ToSet(mid[k].args)
      BY <1>1, <1>6, <2>3 DEF Lined
    <3>3. base + k \notin {Nobody, ToStdout, ToStderr, new.id} /\ new.id \notin {ToStdout, ToStderr}
      BY <1>1, <1>2, <1>7, <2>3, Codes
    <3>4. R(p) \in Ends(cmds'[k]) <=> dst'[p] = base + k
      BY <2>1, <3>1, <3>2, <3>3
    <3>5. dst[p] = ToStderr => dst'[p] = ToStderr
      BY <2>1, Codes
    <3>6. src[p] = base + k /\ dst'[p] # ToStderr => W(p) \in Ends(cmds'[k])
      BY <2>1, <3>1, <3>2, <3>5
    <3>7. src[p] = base + k /\ dst'[p] = ToStderr => Err \in {cmds'[k].stdos} \cup ToSet(cmds'[k].args)
      <4>1. CASE dst[p] = ToStderr
        BY <3>1, <3>2, <4>1
      <4>2. CASE dst[p] # ToStderr
        BY <2>1, <2>3, <3>2, <4>2
      <4> QED BY <4>1, <4>2
    <3> QED BY <1>2, <3>1, <3>2, <3>4, <3>6, <3>7
  <2>4. CASE k = Len(cmds) + 1
    <3>1. base + k = new.id /\ Ends(cmds'[k]) = Ends(new) /\ new.id = base + Len(cmds) + 1
      <4>1. cmds'[k] = new
        BY <1>1, <2>4
      <4>2. base + k = base + Len(cmds) + 1
        BY <1>1, <2>4
      <4> QED BY <1>2, <4>1, <4>2
    <3>2. src[p] # new.id /\ dst[p] # new.id /\ new.id \notin {ToStdout, ToStderr}
      BY <1>1, <2>2, <3>1, Codes
    <3> QED BY <1>2, <2>1, <3>1, <3>2
  <2> QED BY <1>1, <2>3, <2>4
<1> QED BY <1>2, <1>4, <1>5, <1>8 DEF Wired

LEMMA LineOwns ==
    ASSUME ScriptInv, OwnInv, NEW mid, NEW new, NEW n \in Names, NEW L, Lined(mid, new, n, L), Ending(mid, new, L),
           LineFrame
    PROVE  OwnInv'
<1>1. Owned' /\ Accounted' /\ (\A k \in Records' : Fit(cmds[k])') /\ Tasks' /\ Spent'
  BY LineOwned
<1>2. Meant' /\ Wired'
  BY LineMeant, LineWired
<1>3. phase' = "setup"
  BY DEF Lined
<1> QED BY <1>1, <1>2, <1>3 DEF OwnInv

\* A record with no streams yet.
LEMMA NewFit ==
    ASSUME ScriptInv, NEW kind \in Kinds
    PROVE  LET new == NewCommand(kind)
           IN  /\ new \in Commands /\ new.id = base + Len(cmds) + 1 /\ new.kind = kind
               /\ Fit(new) /\ Told(new) /\ Ends(new) = {} /\ new.stdis = -1
<1> DEFINE new == NewCommand(kind)
<1>1. /\ new \in Commands /\ new.id = base + Len(cmds) + 1 /\ new.kind = kind
  BY NewRecord
<1>2. /\ new.stdis = -1 /\ new.stdos = -1 /\ new.is = <<>> /\ new.os = <<>> /\ new.status_fd = -1
      /\ new.iargs = <<>> /\ new.exec_fd = -1 /\ new.exit_fds = {} /\ new.args = <<0>>
  BY DEF NewCommand
<1> HIDE DEF new
<1>3. /\ ToSet(<<>>) = {} /\ \A X : Once(<<>>, X)
  BY DEF ToSet, Once
<1>4. ToSet(<<0>>) = {0} /\ Once(<<0>>, {0, Err})
  BY DEF ToSet, Once
<1>5. Files(new) = {} /\ Ends(new) = {}
  BY <1>2, <1>3 DEF Files, Ends
<1>6. Distinct(new)
  BY <1>2, <1>3, <1>5 DEF Distinct
<1>7. Fit(new)
  BY <1>2, <1>3, <1>5, <1>6 DEF Fit
<1>8. Told(new)
  BY <1>2, <1>4 DEF Told
<1> QED BY <1>1, <1>2, <1>5, <1>7, <1>8 DEF new

\* What holds of the records before a line.
LEMMA BeforeLine ==
    ASSUME ScriptInv, OwnInv, phase = "setup"
    PROVE  /\ cmds \in Seq(Commands) /\ Len(cmds) \in Nat /\ base \in Nat /\ Names # {} /\ 1 \in Names
           /\ \A k \in Records : /\ Fit(cmds[k]) /\ Told(cmds[k]) /\ Ends(cmds[k]) \cap Spare = {}
                                 /\ cmds[k] \in Commands /\ cmds[k].id = base + k /\ Sound(cmds[k])
           /\ \A m \in Names : /\ WrittenBy(map[m], cmds) /\ Defined(map[m], cmds)
                               /\ Tagged(map[m], src, dst) /\ map[m] \in Symbols
           /\ map \in [Names -> Symbols] /\ dst \in [Pipes -> Int]
           /\ \A p \in Pipes : W(p) \in redirected <=> dst[p] = ToStdout
<1>1. Wired /\ Meant /\ Owned
  BY DEF OwnInv
<1>2. 1 \in Names
  BY Bounds DEF Names
<1>3. \A k \in Records : cmds[k] \in Commands /\ cmds[k].id = base + k /\ Sound(cmds[k])
  BY RecordsSound, SameRecords DEF Records
<1> QED BY <1>1, <1>2, <1>3, SameRecords DEF Wired, Meant, Owned, OwnInv

\* A line with no streams.
LEMMA PlainLineOwns ==
    ASSUME ScriptInv, OwnInv, NEW kind \in Kinds, NEW n \in Names, LineFrame,
           phase = "setup", ~building, cmds' = Append(cmds, NewCommand(kind)), Spare' = Spare,
           UNCHANGED <<phase, base, add_map, exstatus, npipes, open, redirected, src, dst, misclosed>>,
           \A m \in Names : m # n => map'[m] = map[m],
           WrittenBy(map'[n], cmds'), Tagged(map'[n], src, dst), Defined(map'[n], cmds')
    PROVE  OwnInv'
<1> DEFINE new == NewCommand(kind)
<1>1. /\ new \in Commands /\ new.id = base + Len(cmds) + 1 /\ Fit(new) /\ Told(new) /\ Ends(new) = {}
  BY NewFit
<1>2. cmds' = Append(cmds, new)
  OBVIOUS
<1> HIDE DEF new
<1>3. /\ \A k \in Records : Ends(cmds[k]) = Ends(cmds[k]) \ {} /\ Fit(cmds[k]) /\ Told(cmds[k])
      /\ cmds \in Seq(Commands)
      /\ \A m \in Names : WrittenBy(map[m], cmds) /\ Defined(map[m], cmds)
      /\ \A p \in Pipes : W(p) \in redirected <=> dst[p] = ToStdout
  BY BeforeLine
<1>4. Lined(cmds, new, n, {})
  <2>1. ~misclosed'
    BY DEF OwnInv, Owned
  <2> QED BY <1>1, <1>2, <1>3, <2>1 DEF Lined
<1>5. Ending(cmds, new, {})
  BY <1>1, <1>3 DEF Ending
<1> QED BY <1>4, <1>5, LineOwns

LEMMA BeginCommandOwns ==
    ASSUME ScriptInv, OwnInv, BeginCommand, LineFrame
    PROVE  OwnInv'
<1>1. /\ phase = "setup" /\ ~building /\ cmds' = Append(cmds, NewCommand("RunCommand")) /\ map' = map
      /\ UNCHANGED <<phase, base, add_map, exstatus, npipes, open, redirected, src, dst, misclosed, stdin_fd>>
  BY DEF BeginCommand, NextCommand, hookupVars, streamVars, scriptVars
<1>2. Spare' = Spare
  BY <1>1 DEF Spare, SymbolFds
<1>3. 1 \in Names /\ "RunCommand" \in Kinds
  BY <1>1, BeforeLine DEF Kinds
<1>4. WrittenBy(map[1], cmds) /\ Tagged(map[1], src, dst) /\ Defined(map[1], cmds) /\ cmds \in Seq(Commands)
      /\ map[1] \in Symbols
  BY <1>1, <1>3, BeforeLine
<1>5. NewCommand("RunCommand") \in Commands /\ NewCommand("RunCommand").id = base + Len(cmds) + 1
  BY <1>3, NewFit
<1>6. map[1].id # base + Len(cmds) + 1
  <2>1. map[1].id <= base + Len(cmds) /\ map[1].id \in Nat
    BY <1>3, <1>4 DEF ScriptInv, KnownFit, Symbols
  <2>2. base \in Nat /\ Len(cmds) \in Nat
    BY <1>1, BeforeLine
  <2> QED BY <2>1, <2>2
<1> DEFINE new == NewCommand("RunCommand")
<1>7. map[1].id # new.id /\ new \in Commands /\ cmds' = Append(cmds, new)
  BY <1>1, <1>5, <1>6
<1> HIDE DEF new
<1>8. WrittenBy(map[1], cmds') /\ Defined(map[1], cmds')
  BY <1>4, <1>7, AppendKeeps
<1> QED BY <1>1, <1>2, <1>3, <1>4, <1>8, PlainLineOwns

\* A name stands for something without a stream now.
LEMMA NamePlain ==
    ASSUME ScriptInv, phase = "setup", NEW n \in Names, NEW s, s.kind \notin Streams,
           map' = [map EXCEPT ![n] = s], UNCHANGED <<phase, add_map, stdin_fd>>
    PROVE  Spare' = Spare \ (IF map[n].kind \in Streams THEN {map[n].fd} ELSE {})
<1>1. map \in [Names -> Symbols]
  BY SameRecords
<1>2. \A m \in Names : map'[m] = IF m = n THEN s ELSE map[m]
  BY <1>1
<1>3. \A m \in Names : m # n /\ map[m].kind \in Streams /\ map[n].kind \in Streams => map[m].fd # map[n].fd
  BY DEF ScriptInv, TakenOnce
<1>4. SymbolFds(map)' = SymbolFds(map) \ (IF map[n].kind \in Streams THEN {map[n].fd} ELSE {})
  BY <1>2, <1>3 DEF SymbolFds
<1>5. map[n].kind \in Streams =>
        map[n].fd \notin SymbolFds(add_map) /\ map[n].fd \notin {stdin_fd} \ {-1} /\ map[n].fd # Out
  <2>1. stdin_fd \in {In, -1} /\ In # -1
    BY DEF ScriptInv, Typed, In
  <2> QED BY <2>1, KnownFd
<1>6. SymbolFds(add_map)' = SymbolFds(add_map)
  BY DEF SymbolFds
<1>7. /\ Spare = SymbolFds(map) \cup SymbolFds(add_map) \cup ({stdin_fd} \ {-1}) \cup {Out}
      /\ Spare' = SymbolFds(map)' \cup SymbolFds(add_map)' \cup ({stdin_fd} \ {-1}) \cup {Out}
  BY DEF Spare
<1> QED BY <1>4, <1>5, <1>6, <1>7

LEMMA HereDocOwns ==
    ASSUME Sensible, ScriptInv, OwnInv, NEW n \in Names, HereDoc(n), LineFrame
    PROVE  OwnInv'
<1> DEFINE s == [NoSym EXCEPT !.kind = "HereDocVal"]
<1>1. /\ phase = "setup" /\ ~building /\ cmds' = Append(cmds, NewCommand("HereDocCommand"))
      /\ map' = [map EXCEPT ![n] = s] /\ ~Taken(n)
      /\ UNCHANGED <<phase, base, add_map, exstatus, npipes, open, redirected, src, dst, misclosed, stdin_fd>>
  BY DEF HereDoc, NextCommand, streamVars, scriptVars, Habit, Sensible
<1>2. s.kind = "HereDocVal" /\ s.kind \notin Streams /\ map[n].kind \notin Streams
  BY <1>1 DEF NoSym, Streams, Taken
<1> HIDE DEF s
<1>3. Spare' = Spare
  BY <1>1, <1>2, NamePlain
<1>4. map'[n] = s /\ \A m \in Names : m # n => map'[m] = map[m]
  BY <1>1, BeforeLine
<1>5. WrittenBy(map'[n], cmds') /\ Tagged(map'[n], src, dst) /\ Defined(map'[n], cmds')
  BY <1>2, <1>4 DEF WrittenBy, Tagged, Defined
<1>6. "HereDocCommand" \in Kinds
  BY DEF Kinds
<1> QED BY <1>1, <1>3, <1>4, <1>5, <1>6, PlainLineOwns

LEMMA StdinOwns ==
    ASSUME ScriptInv, OwnInv, NEW n \in Names, Stdin(n), LineFrame
    PROVE  OwnInv'
<1> DEFINE s == [NoSym EXCEPT !.kind = "ODescVal", !.fd = stdin_fd, !.cmd = cur + 1, !.id = base + cur + 1]
<1>1. /\ phase = "setup" /\ ~building /\ cmds' = Append(cmds, NewCommand("StdinCommand"))
      /\ map' = [map EXCEPT ![n] = s] /\ ~Taken(n) /\ stdin_fd # -1 /\ stdin_fd' = -1
      /\ UNCHANGED <<phase, base, add_map, exstatus, npipes, open, redirected, src, dst, misclosed>>
  BY DEF Stdin, NextCommand, streamVars, scriptVars
<1>2. stdin_fd = In
  BY <1>1, SameRecords
<1>3. s.kind = "ODescVal" /\ s.fd = In /\ s.ios = 0 /\ s.cmd = cur + 1 /\ s.id = base + cur + 1
  BY <1>2 DEF NoSym
<1> HIDE DEF s
<1>4. map'[n] = s /\ \A m \in Names : m # n => map'[m] = map[m]
  BY <1>1, BeforeLine
<1>5. map[n].kind \notin Streams /\ s.kind \in Streams /\ In # -1
  BY <1>1, <1>3 DEF Taken, Streams, In
<1>6. Spare' = Spare
  <2>1. SymbolFds(map)' = SymbolFds(map) \cup {In}
    BY <1>3, <1>4, <1>5 DEF SymbolFds
  <2>2. SymbolFds(add_map)' = SymbolFds(add_map)
    BY <1>1 DEF SymbolFds
  <2>3. {stdin_fd} \ {-1} = {In} /\ {stdin_fd'} \ {-1} = {}
    BY <1>1, <1>2, <1>5
  <2>4. /\ Spare = SymbolFds(map) \cup SymbolFds(add_map) \cup ({stdin_fd} \ {-1}) \cup {Out}
        /\ Spare' = SymbolFds(map)' \cup SymbolFds(add_map)' \cup ({stdin_fd'} \ {-1}) \cup {Out}
    BY <1>1 DEF Spare
  <2> QED BY <2>1, <2>2, <2>3, <2>4
<1>7. "StdinCommand" \in Kinds
  BY DEF Kinds
<1> DEFINE new == NewCommand("StdinCommand")
<1>8. new \in Commands /\ new.kind = "StdinCommand" /\ new.exit_fds = {} /\ cmds' = Append(cmds, new)
  BY <1>1, <1>7, NewFit DEF NewCommand
<1> HIDE DEF new
<1>9. cmds'[cur + 1] = new /\ In + 1 \notin new.exit_fds
  BY <1>1, <1>8, BeforeLine, AppendFacts DEF cur
<1>10. WrittenBy(map'[n], cmds')
  BY <1>3, <1>4, <1>8, <1>9 DEF WrittenBy
<1>11. Tagged(map'[n], src, dst)
  <2>1. \A p \in Pipes : R(p) # In
    BY DEF Pipes, R, In
  <2> QED BY <1>3, <1>4, <2>1 DEF Tagged
<1>12. Defined(map'[n], cmds')
  BY <1>3, <1>4 DEF Defined
<1> QED BY <1>1, <1>4, <1>6, <1>7, <1>10, <1>11, <1>12, PlainLineOwns

\* The stream of a name whose writer is known.
LEMMA WriterHas ==
    ASSUME ScriptInv, OwnInv, phase = "setup", NEW n \in Names, map[n].kind = "ODescVal", Current(n),
           Writer(n).kind # "StdinCommand"
    PROVE  \E p \in Pipes :
             /\ map[n].fd = R(p) /\ PipeOf(map[n].fd) = p /\ W(p) = map[n].fd + 1 /\ R(p) \in Spare
             /\ src[p] = base + map[n].cmd /\ dst[p] = Nobody /\ src[p] # Nobody
             /\ map[n].cmd \in Records /\ Writer(n) = cmds[map[n].cmd] /\ map[n].id = base + map[n].cmd
             /\ W(p) \in Ends(Writer(n)) /\ W(p) \notin Writer(n).exit_fds
             /\ map[n].ios = 0 => W(p) \in {Writer(n).stdos, Writer(n).status_fd}
             /\ map[n].ios > 0 => W(p) \in ToSet(Writer(n).os)
<1> DEFINE k == map[n].cmd
<1> DEFINE w == Writer(n)
<1>1. k \in Records /\ w = cmds[k] /\ cmds[k].id = map[n].id /\ map[n].id = base + k
  <2>1. k \in Records /\ w = cmds[k] /\ cmds[k].id = map[n].id
    BY DEF Current, Writer, Records, cur
  <2> QED BY <2>1, BeforeLine
<1>2. /\ WrittenBy(map[n], cmds) /\ Tagged(map[n], src, dst) /\ map[n] \in Symbols
      /\ w \in Commands /\ Ends(w) \cap Spare = {} /\ base \in Nat
  BY <1>1, BeforeLine
<1>3. map[n].kind \in Streams
  BY DEF Streams
<1>4. /\ map[n].ios = 0 => \/ map[n].fd = In /\ w.kind = "StdinCommand"
                           \/ map[n].fd + 1 \in {w.stdos, w.status_fd}
      /\ map[n].ios > 0 => map[n].fd + 1 \in ToSet(w.os)
      /\ map[n].fd + 1 \notin w.exit_fds
  BY <1>1, <1>2 DEF WrittenBy, Records
<1>5. map[n].fd + 1 \in Ends(w)
  <2>1. map[n].ios \in Nat /\ map[n].fd \in Fds
    BY <1>2, <1>3, KnownFd DEF Symbols
  <2>2. map[n].fd + 1 # -1 /\ map[n].fd + 1 # Err
    BY <2>1, LowestFd DEF Err
  <2>3. Ends(w) = ({w.stdis, w.stdos, w.status_fd} \ {-1, Err}) \cup Files(w) /\ ToSet(w.os) \subseteq Files(w)
    BY <1>2, EndsFacts
  <2> HIDE DEF w
  <2>4. map[n].fd + 1 \in {w.stdos, w.status_fd} \/ map[n].fd + 1 \in ToSet(w.os)
    BY <1>4, <2>1 DEF w
  <2> QED BY <2>2, <2>3, <2>4
<1>6. map[n].fd # In
  <2>1. Out \in Spare /\ In + 1 = Out
    BY DEF Spare, In, Out
  <2> QED BY <1>2, <1>5, <2>1
<1>7. PICK p \in Pipes : map[n].fd = R(p) /\ PipeOf(map[n].fd) = p
  BY <1>3, <1>6, KnownFd
<1>8. W(p) = map[n].fd + 1 /\ R(p) \in Spare
  <2>1. p \in Int
    BY DEF Pipes
  <2> QED BY <1>3, <1>7, <2>1, PipeEnds, KnownFd
<1>9. src[p] = base + k /\ dst[p] = Nobody /\ src[p] # Nobody
  <2>1. src[p] = map[n].id /\ dst[p] = Nobody /\ map[n].id > 0
    BY <1>2, <1>7 DEF Tagged
  <2> QED BY <1>1, <2>1, Codes
<1> HIDE DEF k, w
<1>10. /\ map[n].fd = R(p) /\ PipeOf(map[n].fd) = p /\ W(p) = map[n].fd + 1 /\ R(p) \in Spare
       /\ src[p] = base + k /\ dst[p] = Nobody /\ src[p] # Nobody
       /\ k \in Records /\ w = cmds[k] /\ map[n].id = base + k
       /\ W(p) \in Ends(w) /\ W(p) \notin w.exit_fds
       /\ map[n].ios = 0 => W(p) \in {w.stdos, w.status_fd}
       /\ map[n].ios > 0 => W(p) \in ToSet(w.os)
  <2>1. map[n].ios = 0 => W(p) \in {w.stdos, w.status_fd}
    BY <1>4, <1>6, <1>8
  <2> QED BY <1>1, <1>4, <1>5, <1>7, <1>8, <1>9, <2>1
<1> QED BY <1>10 DEF k, w

LEMMA Redirected ==
    ASSUME Sensible, ScriptInv, OwnInv, phase = "setup", NEW n \in Names, Redirectable(n)
    PROVE  \E p \in Pipes :
             /\ map[n].fd = R(p) /\ PipeOf(map[n].fd) = p /\ OutputOf(n) = W(p) /\ R(p) \in Spare
             /\ W(p) = map[n].fd + 1
             /\ src[p] = base + map[n].cmd /\ dst[p] = Nobody /\ src[p] # Nobody
             /\ map[n].cmd \in Records /\ Writer(n) = cmds[map[n].cmd]
             /\ W(p) \in Ends(Writer(n)) /\ W(p) \notin Writer(n).exit_fds
             /\ \/ map[n].ios = 0 /\ Writer(n).stdos = W(p) /\ map[n].ios \notin 1 .. Len(Writer(n).os)
                \/ map[n].ios \in 1 .. Len(Writer(n).os) /\ Writer(n).os[map[n].ios] = W(p) /\ map[n].arg > 0
<1> DEFINE w == Writer(n)
<1>1. map[n].kind = "ODescVal" /\ Current(n) /\ w.kind = "RunCommand"
  BY UsedUpFacts DEF Redirectable, Habit, Redirects, Taken
<1>2. PICK p \in Pipes :
        /\ map[n].fd = R(p) /\ PipeOf(map[n].fd) = p /\ W(p) = map[n].fd + 1 /\ R(p) \in Spare
        /\ src[p] = base + map[n].cmd /\ dst[p] = Nobody /\ src[p] # Nobody
        /\ map[n].cmd \in Records /\ w = cmds[map[n].cmd] /\ map[n].id = base + map[n].cmd
        /\ W(p) \in Ends(w) /\ W(p) \notin w.exit_fds
        /\ map[n].ios = 0 => W(p) \in {w.stdos, w.status_fd}
  BY <1>1, WriterHas
<1>3. /\ map[n].fd + 1 # w.status_fd
      /\ ~(map[n].ios > 0 /\ Err \in ToSet(w.args))
  BY DEF Redirectable, Habit, Sensible
<1>4. map[n].ios \in Nat /\ map[n].arg \in Nat /\ Placed(map[n], cmds)
  BY SameRecords DEF Symbols
<1>5. /\ map[n].arg > 0 <=> map[n].ios > 0
      /\ map[n].ios > 0 => map[n].ios \in 1 .. Len(w.os) /\ w.os[map[n].ios] = map[n].fd + 1
  BY <1>1, <1>2, <1>3, <1>4, UsedUpFacts DEF Placed, InPlace, Current, Records, cur
<1>6. OutputOf(n) = IF map[n].ios \in 1 .. Len(w.os) THEN w.os[map[n].ios] ELSE w.stdos
  BY DEF OutputOf, Listed
<1> HIDE DEF w
<1>7. \/ map[n].ios = 0 /\ w.stdos = W(p) /\ map[n].ios \notin 1 .. Len(w.os)
      \/ map[n].ios \in 1 .. Len(w.os) /\ w.os[map[n].ios] = W(p) /\ map[n].arg > 0
  <2>1. CASE map[n].ios = 0
    BY <1>2, <1>3, <2>1
  <2>2. CASE map[n].ios > 0
    BY <1>2, <1>5, <2>2
  <2> QED BY <1>4, <2>1, <2>2
<1>8. OutputOf(n) = W(p)
  BY <1>6, <1>7
<1> QED BY <1>2, <1>7, <1>8 DEF w

LEMMA StdoutOwns ==
    ASSUME Sensible, ScriptInv, OwnInv, NEW n \in Names, Stdout(n), LineFrame
    PROVE  OwnInv'
<1> DEFINE new == NewCommand("StdoutCommand")
<1>1. /\ phase = "setup" /\ ~building /\ Redirectable(n)
      /\ UNCHANGED <<phase, base, add_map, exstatus, npipes, src, stdin_fd>>
      /\ map' = [map EXCEPT ![n] = NoSym] /\ cmds' = Append(cmds, new)
      /\ redirected' = redirected \cup ({OutputOf(n)} \ {-1, Err})
      /\ dst' = [dst EXCEPT ![PipeOf(map[n].fd)] = ToStdout]
      /\ open' = open \ {map[n].fd} /\ misclosed' = (misclosed \/ ~({map[n].fd} \subseteq open))
  BY UsedUpFacts DEF Stdout, NextCommand, CloseFds
<1>2. PICK p \in Pipes :
        /\ map[n].fd = R(p) /\ PipeOf(map[n].fd) = p /\ OutputOf(n) = W(p) /\ R(p) \in Spare
        /\ dst[p] = Nobody /\ src[p] # Nobody
  BY <1>1, Redirected
<1>3. "StdoutCommand" \in Kinds
  BY DEF Kinds
<1>4. /\ new \in Commands /\ new.id = base + Len(cmds) + 1 /\ Fit(new) /\ Told(new) /\ Ends(new) = {}
  BY <1>3, NewFit
<1> HIDE DEF new
<1>5. /\ \A k \in Records : Fit(cmds[k]) /\ Told(cmds[k]) /\ Ends(cmds[k]) \cap Spare = {}
      /\ cmds \in Seq(Commands)
      /\ \A m \in Names : WrittenBy(map[m], cmds) /\ Defined(map[m], cmds)
      /\ \A q \in Pipes : W(q) \in redirected <=> dst[q] = ToStdout
      /\ map \in [Names -> Symbols] /\ dst \in [Pipes -> Int]
  BY <1>1, BeforeLine
<1>6. ~misclosed'
  <2>1. Spare \subseteq open
    BY DEF OwnInv, Owned
  <2> QED BY <1>1, <1>2, <2>1 DEF OwnInv, Owned
<1>7. Spare' = Spare \ {R(p)}
  <2>1. map[n].kind \in Streams
    BY <1>1, UsedUpFacts DEF Redirectable, Habit, Redirects, Taken, Streams
  <2> QED BY <1>1, <1>2, <2>1, NamePlain, NoSymFacts
<1>8. map'[n] = NoSym /\ \A m \in Names : m # n => map'[m] = map[m]
  BY <1>1, <1>5
<1>9. \A k \in Records : Ends(cmds[k]) = Ends(cmds[k]) \ {R(p)}
  BY <1>2, <1>5
<1>10. Lined(cmds, new, n, {R(p)})
  BY <1>1, <1>2, <1>4, <1>5, <1>6, <1>7, <1>8, <1>9, NoSymFacts DEF Lined
<1>11. Ending(cmds, new, {R(p)})
  <2>1. \A q \in Pipes : /\ W(q) # R(p) /\ (R(q) = R(p) => q = p) /\ (W(q) = W(p) => q = p)
                         /\ W(q) # -1 /\ W(q) # Err
    BY PipeEnds, FdFacts DEF Pipes
  <2>2. \A q \in Pipes : dst'[q] = IF q = p THEN ToStdout ELSE dst[q]
    BY <1>1, <1>2, <1>5
  <2>3. \A q \in Pipes : W(q) \in redirected' <=> W(q) \in redirected \/ q = p
    BY <1>1, <1>2, <2>1
  <2>4. ToStdout # ToStderr /\ ToStdout # Nobody
    BY Codes
  <2> QED BY <1>2, <1>4, <1>5, <2>1, <2>2, <2>3, <2>4 DEF Ending
<1> QED BY <1>10, <1>11, LineOwns

LEMMA DefineOwns ==
    ASSUME ScriptInv, OwnInv, NEW n \in Names, Define(n), LineFrame
    PROVE  OwnInv'
<1> DEFINE basic == NewCommand("DefCommand")
<1> DEFINE fd == map[n].fd
<1> DEFINE new == [basic EXCEPT !.stdis = fd]
<1>1. /\ phase = "setup" /\ ~building /\ map[n].kind = "ODescVal" /\ map[n].cmd = cur /\ Current(n)
      /\ fd + 1 = me.stdos
      /\ UNCHANGED <<phase, base, add_map, exstatus, npipes, open, redirected, misclosed, src, stdin_fd>>
      /\ cmds' = Append(cmds, new)
      /\ map' = [map EXCEPT ![n] = [NoSym EXCEPT !.kind = "DefVal", !.cmd = cur + 1, !.id = cmds'[cur + 1].id]]
      /\ dst' = [dst EXCEPT ![PipeOf(fd)] = cmds'[cur + 1].id]
  BY DEF Define, NextCommand, streamVars
<1>2. /\ cmds \in Seq(Commands) /\ Len(cmds) \in Nat /\ base \in Nat /\ cur = Len(cmds)
      /\ \A k \in Records : Fit(cmds[k]) /\ Told(cmds[k]) /\ Ends(cmds[k]) \cap Spare = {}
      /\ \A m \in Names : WrittenBy(map[m], cmds) /\ Defined(map[m], cmds)
      /\ \A q \in Pipes : W(q) \in redirected <=> dst[q] = ToStdout
      /\ map \in [Names -> Symbols] /\ dst \in [Pipes -> Int]
  BY <1>1, BeforeLine DEF cur
<1>3. fd \in Fds /\ fd \in Spare /\ map[n].kind \in Streams
  BY <1>1, KnownFd DEF Streams
<1>4. Writer(n).kind # "StdinCommand"
  <2>1. Writer(n) = me /\ me = cmds[cur] /\ cur \in Records
    <3>1. map[n].cmd = cur /\ map[n].cmd \in 1 .. cur
      BY <1>1 DEF Current
    <3> QED BY <1>2, <3>1 DEF Writer, Records, me
  <2>2. Fit(me) /\ me \in Commands
    BY <1>1, <1>2, <2>1, BeforeLine
  <2>3. Ends(me) = ({me.stdis, me.stdos, me.status_fd} \ {-1, Err}) \cup Files(me)
    BY <2>2, EndsFacts
  <2>4. me.stdos # -1 /\ me.stdos # Err
    BY <1>1, <1>3, LowestFd DEF Err
  <2> QED BY <2>1, <2>2, <2>3, <2>4 DEF Fit
<1>5. PICK p \in Pipes : fd = R(p) /\ PipeOf(fd) = p /\ dst[p] = Nobody
  BY <1>1, <1>4, WriterHas
<1>6. /\ basic \in Commands /\ basic.id = base + Len(cmds) + 1 /\ basic.kind = "DefCommand"
      /\ Fit(basic) /\ Told(basic) /\ Ends(basic) = {} /\ basic.stdis = -1
  <2>1. "DefCommand" \in Kinds
    BY DEF Kinds
  <2> QED BY <2>1, NewFit
<1> HIDE DEF basic, fd
<1>7. new \in Commands /\ More(basic, new, {fd}, {})
  <2>1. Ready(basic) /\ fd \notin Ends(basic)
    BY <1>6 DEF Ready
  <2> QED BY <1>3, <1>6, <2>1, MoreStandard
<1> HIDE DEF new
<1>8. /\ new.id = base + Len(cmds) + 1 /\ new.kind = "DefCommand" /\ Fit(new) /\ Told(new) /\ Ends(new) = {fd}
  BY <1>6, <1>7 DEF More
<1>9. cmds'[cur + 1] = new
  BY <1>1, <1>2, <1>7, AppendFacts
<1> DEFINE i == new.id
<1> DEFINE k == cur + 1
<1> DEFINE s == [NoSym EXCEPT !.kind = "DefVal", !.cmd = k, !.id = i]
<1>10. map' = [map EXCEPT ![n] = s] /\ dst' = [dst EXCEPT ![p] = i]
  BY <1>1, <1>5, <1>9
<1>11. s.kind = "DefVal" /\ s.cmd = k /\ s.kind \notin Streams
  BY DEF NoSym, Streams
<1> HIDE DEF s
<1>12. map'[n] = s /\ \A m \in Names : m # n => map'[m] = map[m]
  BY <1>2, <1>10
<1>13. WrittenBy(map'[n], cmds') /\ Tagged(map'[n], src, dst') /\ Defined(map'[n], cmds')
  BY <1>8, <1>9, <1>11, <1>12 DEF WrittenBy, Tagged, Defined
<1>14. Spare' = Spare \ {fd}
  BY <1>1, <1>3, <1>10, <1>11, NamePlain DEF fd
<1>15. Lined(cmds, new, n, {})
  <2>1. ~misclosed'
    BY <1>1 DEF OwnInv, Owned
  <2>2. Spare' \cup Ends(new) = Spare \ {} /\ Spare' \cap Ends(new) = {}
    BY <1>3, <1>8, <1>14
  <2>3. open' = open \ {} /\ \A c1 \in Records : Ends(cmds[c1]) = Ends(cmds[c1]) \ {}
    BY <1>1
  <2> QED BY <1>1, <1>2, <1>7, <1>8, <1>12, <1>13, <2>1, <2>2, <2>3 DEF Lined
<1>16. Ending(cmds, new, {})
  <2>1. \A q \in Pipes : W(q) # fd /\ (R(q) = fd => q = p)
    BY <1>5, PipeEnds DEF Pipes
  <2>2. i \in Int
    BY <1>2, <1>8
  <2> HIDE DEF i
  <2>3. \A q \in Pipes : dst'[q] = IF q = p THEN i ELSE dst[q]
    BY <1>2, <1>10, <2>2
  <2>4. i # ToStdout /\ i # ToStderr
    <3>1. i > 0
      BY <1>2, <1>8 DEF i
    <3> QED BY <3>1, <2>2, Codes
  <2>5. i = new.id
    BY DEF i
  <2>6. dst[p] # ToStdout
    BY <1>5, Codes
  <2> QED BY <1>1, <1>2, <1>5, <1>8, <2>1, <2>3, <2>4, <2>5, <2>6 DEF Ending
<1> QED BY <1>15, <1>16, LineOwns

\* The stream s of the record w is its output fd, ...
Sends(w, s, fd) ==
    \/ s.ios = 0 /\ s.arg = 0 /\ w.stdos = fd /\ s.ios \notin 1 .. Len(w.os)
    \/ /\ s.ios \in 1 .. Len(w.os) /\ w.os[s.ios] = fd
       /\ s.arg > 0 /\ s.arg \in 1 .. Len(w.args) /\ w.args[s.arg] = fd

\* ... which b is without.
Turned(w, b, fd) ==
    /\ b.id = w.id /\ b.kind = w.kind /\ b.status_fd = w.status_fd /\ b.exit_fds = w.exit_fds
    /\ ToSet(w.os) \ {fd} \subseteq ToSet(b.os) /\ (w.stdos # fd => b.stdos = w.stdos)

LEMMA DivertedFits ==
    ASSUME NEW w \in Commands, Fit(w), Told(w), NEW s \in Symbols, NEW fd \in Fds, fd \notin w.exit_fds,
           Sends(w, s, fd), NEW b, b = Diverted(w, s)
    PROVE  /\ Fit(b) /\ Told(b) /\ Ends(b) = Ends(w) \ {fd}
           /\ Err \in {b.stdos} \cup ToSet(b.args) /\ Turned(w, b, fd)
<1>1. /\ w.args \in Seq(Int) /\ w.os \in Seq(Fds) /\ s.arg \in Nat /\ s.ios \in Nat /\ Err \in Int
      /\ fd # -1 /\ fd # Err /\ fd # 0
  BY LowestFd DEF Commands, Symbols, Err
<1>2. Distinct(w)
  BY DEF Fit
<1>3. CASE s.ios = 0 /\ s.arg = 0 /\ w.stdos = fd /\ s.ios \notin 1 .. Len(w.os)
  <2>1. b = [w EXCEPT !.stdos = Err]
    BY <1>3 DEF Diverted
  <2>2. /\ b.os = w.os /\ b.is = w.is /\ b.iargs = w.iargs /\ b.args = w.args /\ b.exit_fds = w.exit_fds
        /\ b.exec_fd = w.exec_fd /\ b.kind = w.kind /\ b.id = w.id /\ b.stdos = Err
        /\ b.stdis = w.stdis /\ b.status_fd = w.status_fd
    BY <2>1 DEF Commands
  <2>3. Files(b) = Files(w)
    BY <2>2 DEF Files
  <2>4. /\ fd \notin Files(w) /\ w.stdis # fd /\ w.status_fd # fd
    BY <1>1, <1>2, <1>3 DEF Distinct
  <2>5. Ends(b) = ({b.stdis, b.stdos, b.status_fd} \ {-1, Err}) \cup Files(b)
    <3>1. b \in Commands
      BY <1>1, <2>1 DEF Commands
    <3> QED BY <3>1, EndsFacts
  <2>6. Ends(w) = ({w.stdis, w.stdos, w.status_fd} \ {-1, Err}) \cup Files(w)
    BY EndsFacts
  <2>7. Ends(b) = Ends(w) \ {fd}
    BY <1>3, <2>2, <2>3, <2>4, <2>5, <2>6
  <2>8. Err \notin Files(w) /\ w.stdis # Err /\ w.status_fd # Err
    <3>1. Files(w) \subseteq Fds /\ Err \notin Fds /\ w.stdis \in Fds \cup {-1} /\ w.status_fd \in Fds \cup {-1}
      BY EndsFacts DEF Commands
    <3>2. Err # -1
      BY DEF Err
    <3> QED BY <3>1, <3>2
  <2>9. Distinct(b)
    BY <1>2, <2>2, <2>3, <2>8 DEF Distinct
  <2>10. Fit(b)
    BY <2>2, <2>7, <2>9 DEF Fit
  <2>11. Told(b)
    BY <2>2 DEF Told
  <2> QED BY <1>3, <2>2, <2>7, <2>10, <2>11 DEF Turned
<1>4. CASE /\ s.ios \in 1 .. Len(w.os) /\ w.os[s.ios] = fd
           /\ s.arg > 0 /\ s.arg \in 1 .. Len(w.args) /\ w.args[s.arg] = fd
  <2> DEFINE told == [w.args EXCEPT ![s.arg] = Err]
  <2> DEFINE os == RemoveAt(w.os, s.ios)
  <2>1. /\ told \in Seq(Int) /\ Len(told) = Len(w.args)
        /\ \A x \in 1 .. Len(w.args) : told[x] = IF x = s.arg THEN Err ELSE w.args[x]
    BY <1>1, <1>4, UpdateFacts
  <2>2. os \in Seq(Fds) /\ ToSet(os) = ToSet(w.os) \ {fd} /\ Once(os, {})
    <3>1. Once(w.os, {})
      BY <1>2 DEF Distinct
    <3> QED BY <1>1, <1>4, <3>1, OnceRemoveAt
  <2> DEFINE named == [w EXCEPT !.args = told]
  <2>3. b = [named EXCEPT !.os = RemoveAt(named.os, s.ios)]
    BY <1>4 DEF Diverted
  <2> HIDE DEF told
  <2>4. named.os = w.os /\ named \in Commands
    BY <2>1 DEF Commands
  <2>5. b = [named EXCEPT !.os = os]
    BY <2>3, <2>4
  <2> HIDE DEF os
  <2>6. /\ b.os = os /\ b.is = w.is /\ b.iargs = w.iargs /\ b.args = told /\ b.exit_fds = w.exit_fds
        /\ b.exec_fd = w.exec_fd /\ b.kind = w.kind /\ b.id = w.id /\ b.stdos = w.stdos
        /\ b.stdis = w.stdis /\ b.status_fd = w.status_fd
    BY <2>1, <2>5 DEF Commands
  <2>7. fd \in ToSet(w.os)
    <3>1. ToSet(w.os) = {w.os[x] : x \in 1 .. Len(w.os)}
      BY <1>1, SeqFacts
    <3> QED BY <1>4, <3>1
  <2>8. /\ fd \notin ToSet(w.is) /\ fd \notin ToSet(w.iargs) /\ fd \notin {w.stdis, w.stdos, w.status_fd}
    <3>1. fd \in Files(w)
      BY <2>7 DEF Files
    <3> QED BY <1>2, <2>7, <3>1 DEF Distinct
  <2>9. Files(b) = Files(w) \ {fd}
    BY <2>2, <2>6, <2>8 DEF Files
  <2>10. Ends(b) = Ends(w) \ {fd}
    <3>1. Ends(b) = ({b.stdis, b.stdos, b.status_fd} \ {-1, Err}) \cup Files(b)
      <4>1. b \in Commands
        BY <2>2, <2>4, <2>5 DEF Commands
      <4> QED BY <4>1, EndsFacts
    <3>2. Ends(w) = ({w.stdis, w.stdos, w.status_fd} \ {-1, Err}) \cup Files(w)
      BY EndsFacts
    <3> QED BY <2>6, <2>8, <2>9, <3>1, <3>2
  <2>11. Distinct(b)
    BY <1>2, <2>2, <2>6, <2>9 DEF Distinct
  <2>12. Fit(b)
    BY <2>2, <2>6, <2>10, <2>11 DEF Fit
  <2>13. /\ DOMAIN told = 1 .. Len(w.args) /\ DOMAIN w.args = 1 .. Len(w.args)
         /\ ToSet(told) = {told[x] : x \in 1 .. Len(w.args)}
         /\ ToSet(w.args) = {w.args[x] : x \in 1 .. Len(w.args)}
    <3>1. DOMAIN told = 1 .. Len(told) /\ ToSet(told) = {told[x] : x \in 1 .. Len(told)}
      <4>1. told \in Seq(Int)
        BY <2>1
      <4> HIDE DEF named
      <4>2. ASSUME NEW q \in Seq(Int)
            PROVE  DOMAIN q = 1 .. Len(q) /\ ToSet(q) = {q[x] : x \in 1 .. Len(q)}
        BY SeqFacts
      <4> QED BY <4>1, <4>2
    <3>2. DOMAIN w.args = 1 .. Len(w.args) /\ ToSet(w.args) = {w.args[x] : x \in 1 .. Len(w.args)}
      BY <1>1, SeqFacts
    <3> QED BY <2>1, <3>1, <3>2
  <2>14. Once(w.args, {0, Err}) /\ ToSet(w.args) \ {0, Err} \subseteq ToSet(w.is) \cup ToSet(w.os)
    BY DEF Told
  <2>15. Once(told, {0, Err})
    BY <2>1, <2>13, <2>14 DEF Once
  <2>16. \A x \in 1 .. Len(w.args) : x # s.arg => w.args[x] # fd
    BY <1>1, <1>4, <2>13, <2>14 DEF Once
  <2>17. ToSet(told) \subseteq (ToSet(w.args) \ {fd}) \cup {Err} /\ Err \in ToSet(told)
    <3>1. told[s.arg] = Err /\ s.arg \in 1 .. Len(w.args)
      BY <1>4, <2>1
    <3>2. ASSUME NEW x \in 1 .. Len(w.args), x # s.arg PROVE told[x] \in ToSet(w.args) \ {fd}
      <4>1. told[x] = w.args[x] /\ w.args[x] # fd
        BY <2>1, <2>16, <3>2
      <4> QED BY <2>13, <4>1
    <3>3. \A x \in 1 .. Len(w.args) : told[x] \in (ToSet(w.args) \ {fd}) \cup {Err}
      BY <3>1, <3>2
    <3>4. Err \in {told[x] : x \in 1 .. Len(w.args)}
      BY <3>1
    <3> QED BY <2>13, <3>3, <3>4
  <2>18. Told(b)
    <3>1. ToSet(told) \ {0, Err} \subseteq ToSet(w.is) \cup (ToSet(w.os) \ {fd})
      BY <2>14, <2>17
    <3> QED BY <2>2, <2>6, <2>15, <3>1 DEF Told
  <2> QED BY <2>2, <2>6, <2>10, <2>12, <2>17, <2>18 DEF Turned
<1> QED BY <1>3, <1>4 DEF Sends

TurnedAt(cs, mid, k, b, fd) ==
    /\ Len(mid) = Len(cs) /\ \A x \in 1 .. Len(cs) : mid[x] = IF x = k THEN b ELSE cs[x]
    /\ Turned(cs[k], b, fd)

LEMMA TurnedKeeps ==
    ASSUME NEW cs, NEW mid, NEW k, NEW b, NEW fd, TurnedAt(cs, mid, k, b, fd),
           NEW s, s.kind = "ODescVal" => s.fd + 1 # fd
    PROVE  /\ WrittenBy(s, cs) => WrittenBy(s, mid)
           /\ Defined(s, cs) => Defined(s, mid)
<1>1. /\ Len(mid) = Len(cs) /\ \A x \in 1 .. Len(cs) : mid[x] = IF x = k THEN b ELSE cs[x]
      /\ Turned(cs[k], b, fd)
  BY DEF TurnedAt
<1>2. CASE s.cmd \in 1 .. Len(cs) /\ s.cmd # k
  <2>1. mid[s.cmd] = cs[s.cmd]
    BY <1>1, <1>2
  <2> QED BY <1>1, <2>1 DEF WrittenBy, Defined
<1>3. CASE s.cmd \in 1 .. Len(cs) /\ s.cmd = k
  <2>1. mid[s.cmd] = b /\ cs[s.cmd] = cs[k]
    BY <1>1, <1>3
  <2>2. Defined(s, cs) => Defined(s, mid)
    BY <1>1, <2>1 DEF Defined, Turned
  <2>3. ASSUME WrittenBy(s, cs), s.kind = "ODescVal", b.id = s.id
        PROVE  /\ s.ios = 0 => \/ s.fd = In /\ b.kind = "StdinCommand"
                               \/ s.fd + 1 \in {b.stdos, b.status_fd}
               /\ s.ios > 0 => s.fd + 1 \in ToSet(b.os)
               /\ s.fd + 1 \notin b.exit_fds
    <3>1. /\ s.ios = 0 => \/ s.fd = In /\ cs[k].kind = "StdinCommand"
                          \/ s.fd + 1 \in {cs[k].stdos, cs[k].status_fd}
          /\ s.ios > 0 => s.fd + 1 \in ToSet(cs[k].os)
          /\ s.fd + 1 \notin cs[k].exit_fds
      BY <1>1, <1>3, <2>1, <2>3 DEF WrittenBy, Turned
    <3>2. s.fd + 1 # fd
      BY <2>3
    <3> DEFINE e == s.fd + 1
    <3> HIDE DEF e
    <3>3. /\ s.ios > 0 => e \in ToSet(b.os)
          /\ s.fd = In /\ cs[k].kind = "StdinCommand" => b.kind = "StdinCommand"
          /\ e \in {cs[k].stdos, cs[k].status_fd} => e \in {b.stdos, b.status_fd}
          /\ e \notin b.exit_fds
      BY <1>1, <3>1, <3>2 DEF Turned, e
    <3> QED BY <3>1, <3>3 DEF e
  <2>4. WrittenBy(s, cs) => WrittenBy(s, mid)
    BY <1>1, <2>1, <2>3 DEF WrittenBy
  <2> QED BY <2>2, <2>4
<1>4. CASE s.cmd \notin 1 .. Len(cs)
  BY <1>1, <1>4 DEF WrittenBy, Defined
<1> QED BY <1>2, <1>3, <1>4

LEMMA StderrOwns ==
    ASSUME Sensible, ScriptInv, OwnInv, NEW n \in Names, Stderr(n), LineFrame
    PROVE  OwnInv'
<1> DEFINE new == NewCommand("StderrCommand")
<1> DEFINE k == map[n].cmd
<1> DEFINE b == Diverted(Writer(n), map[n])
<1> DEFINE mid == [cmds EXCEPT ![k] = b]
<1>1. /\ phase = "setup" /\ ~building /\ Redirectable(n)
      /\ UNCHANGED <<phase, base, add_map, exstatus, npipes, src, stdin_fd, redirected>>
      /\ map' = [map EXCEPT ![n] = NoSym] /\ cmds' = Append(mid, new)
      /\ dst' = [dst EXCEPT ![PipeOf(map[n].fd)] = ToStderr]
      /\ open' = open \ {map[n].fd, OutputOf(n)}
      /\ misclosed' = (misclosed \/ ~({map[n].fd, OutputOf(n)} \subseteq open))
  <2>1. /\ phase = "setup" /\ ~building /\ Redirectable(n)
        /\ UNCHANGED <<phase, base, add_map, exstatus, npipes, src, stdin_fd, redirected>>
        /\ map' = [map EXCEPT ![n] = NoSym]
        /\ dst' = [dst EXCEPT ![PipeOf(map[n].fd)] = ToStderr]
        /\ open' = open \ ({map[n].fd, OutputOf(n)} \ {Err})
        /\ misclosed' = (misclosed \/ ~({map[n].fd, OutputOf(n)} \ {Err} \subseteq open))
    BY UsedUpFacts DEF Stderr, NextCommand, CloseFds
  <2>3. map[n].fd # Err /\ OutputOf(n) # Err
    BY <2>1, Redirected, FdFacts
  <2>2. cmds' = Append(mid, new)
    BY StderrRecords
  <2>4. {map[n].fd, OutputOf(n)} \ {Err} = {map[n].fd, OutputOf(n)}
    BY <2>3
  <2> QED BY <2>1, <2>2, <2>4
<1>2. PICK p \in Pipes :
        /\ map[n].fd = R(p) /\ PipeOf(map[n].fd) = p /\ OutputOf(n) = W(p) /\ R(p) \in Spare
        /\ W(p) = map[n].fd + 1
        /\ src[p] = base + map[n].cmd /\ dst[p] = Nobody /\ src[p] # Nobody
        /\ map[n].cmd \in Records /\ Writer(n) = cmds[map[n].cmd]
        /\ W(p) \in Ends(Writer(n)) /\ W(p) \notin Writer(n).exit_fds
        /\ \/ map[n].ios = 0 /\ Writer(n).stdos = W(p) /\ map[n].ios \notin 1 .. Len(Writer(n).os)
           \/ map[n].ios \in 1 .. Len(Writer(n).os) /\ Writer(n).os[map[n].ios] = W(p) /\ map[n].arg > 0
  BY <1>1, Redirected
<1>3. "StderrCommand" \in Kinds
  BY DEF Kinds
<1>4. /\ new \in Commands /\ new.id = base + Len(cmds) + 1 /\ Fit(new) /\ Told(new) /\ Ends(new) = {}
  BY <1>3, NewFit
<1>5. /\ \A x \in Records : Fit(cmds[x]) /\ Told(cmds[x]) /\ Ends(cmds[x]) \cap Spare = {}
      /\ cmds \in Seq(Commands)
      /\ \A m \in Names : WrittenBy(map[m], cmds) /\ Defined(map[m], cmds)
      /\ \A q \in Pipes : W(q) \in redirected <=> dst[q] = ToStdout
      /\ map \in [Names -> Symbols] /\ dst \in [Pipes -> Int]
      /\ base \in Nat /\ Len(cmds) \in Nat
  BY <1>1, BeforeLine
<1>6. k \in Records /\ k \in 1 .. Len(cmds) /\ Writer(n) = cmds[k] /\ src[p] = base + k
  BY <1>2 DEF Records
<1>7. /\ Writer(n) \in Commands /\ Sound(Writer(n)) /\ map[n] \in Symbols /\ map[n].kind \in Streams
      /\ map[n].arg > 0 <=> map[n].ios > 0
      /\ map[n].arg > 0 => map[n].arg \in 1 .. Len(Writer(n).args) /\ Writer(n).args[map[n].arg] = W(p)
  BY <1>1, <1>2, RedirectableFacts, UsedUpFacts
<1>8. b \in Commands
  BY <1>7, DivertedFacts
<1>9. W(p) \in Fds /\ W(p) \notin Spare /\ R(p) \notin Ends(Writer(n))
  <2>1. W(p) \in Fds
    BY FdFacts
  <2> QED BY <1>2, <1>5, <1>6, <2>1
<1>10. /\ Fit(b) /\ Told(b) /\ Ends(b) = Ends(Writer(n)) \ {W(p)}
       /\ Err \in {b.stdos} \cup ToSet(b.args) /\ Turned(Writer(n), b, W(p))
  <2>1. Fit(Writer(n)) /\ Told(Writer(n))
    BY <1>5, <1>6
  <2>2. Sends(Writer(n), map[n], W(p))
    <3>1. map[n].arg \in Nat /\ map[n].ios \in Nat
      BY <1>7 DEF Symbols
    <3> QED BY <1>2, <1>7, <3>1 DEF Sends
  <2>3. b = Diverted(Writer(n), map[n])
    OBVIOUS
  <2> HIDE DEF b
  <2> QED BY <1>2, <1>7, <1>9, <2>1, <2>2, <2>3, DivertedFits
<1> HIDE DEF new, b, k
<1>11. /\ mid \in Seq(Commands) /\ Len(mid) = Len(cmds)
       /\ \A x \in Records : mid[x] = IF x = k THEN b ELSE cmds[x]
  BY <1>5, <1>6, <1>8, UpdateFacts DEF Records
<1>12. \A x \in Records : /\ Ends(mid[x]) = Ends(cmds[x]) \ {R(p), W(p)} /\ Fit(mid[x]) /\ Told(mid[x])
                          /\ Err \in {cmds[x].stdos} \cup ToSet(cmds[x].args) =>
                               Err \in {mid[x].stdos} \cup ToSet(mid[x].args)
  <2> SUFFICES ASSUME NEW x \in Records
               PROVE  /\ Ends(mid[x]) = Ends(cmds[x]) \ {R(p), W(p)} /\ Fit(mid[x]) /\ Told(mid[x])
                      /\ Err \in {cmds[x].stdos} \cup ToSet(cmds[x].args) =>
                           Err \in {mid[x].stdos} \cup ToSet(mid[x].args)
    OBVIOUS
  <2>1. CASE x = k
    <3>1. mid[x] = b /\ cmds[x] = Writer(n)
      BY <1>6, <1>11, <2>1
    <3> HIDE DEF mid
    <3> QED BY <1>9, <1>10, <3>1
  <2>2. CASE x # k
    <3>1. mid[x] = cmds[x]
      BY <1>11, <2>2
    <3>2. W(p) \notin Ends(cmds[x])
      BY <1>2, <1>6, <2>2 DEF OwnInv, Owned
    <3>3. R(p) \notin Ends(cmds[x])
      BY <1>2, <1>5
    <3> HIDE DEF mid
    <3> QED BY <1>5, <3>1, <3>2, <3>3
  <2> QED BY <2>1, <2>2
<1>13. \A m \in Names : m # n => map'[m] = map[m] /\ WrittenBy(map[m], mid) /\ Defined(map[m], mid)
  <2> SUFFICES ASSUME NEW m \in Names, m # n
               PROVE  map'[m] = map[m] /\ WrittenBy(map[m], mid) /\ Defined(map[m], mid)
    OBVIOUS
  <2>1. map[m].kind = "ODescVal" => map[m].fd + 1 # W(p)
    <3> SUFFICES ASSUME map[m].kind = "ODescVal" PROVE map[m].fd + 1 # W(p)
      OBVIOUS
    <3>1. map[m].kind \in Streams
      BY DEF Streams
    <3>2. map[m].fd # map[n].fd
      BY <1>7, <3>1 DEF ScriptInv, TakenOnce
    <3>3. map[m].fd \in Int /\ map[n].fd \in Int
      BY <1>5 DEF Symbols
    <3> QED BY <1>2, <3>2, <3>3
  <2>2. Turned(cmds[k], b, W(p))
    BY <1>6, <1>10
  <2>3. WrittenBy(map[m], cmds) /\ Defined(map[m], cmds)
    BY <1>5
  <2>4. map'[m] = map[m]
    BY <1>1, <1>5
  <2> HIDE DEF mid
  <2>5. TurnedAt(cmds, mid, k, b, W(p))
    BY <1>11, <2>2 DEF TurnedAt, Records
  <2> QED BY <2>1, <2>3, <2>4, <2>5, TurnedKeeps
<1>14. ~misclosed'
  <2>1. Spare \subseteq open /\ Ends(cmds[k]) \subseteq open /\ ~misclosed
    BY <1>6 DEF OwnInv, Owned
  <2> QED BY <1>1, <1>2, <1>6, <2>1
<1>15. Spare' = Spare \ {R(p)}
  BY <1>1, <1>2, <1>7, NamePlain, NoSymFacts
<1>16. map'[n] = NoSym /\ cmds' = Append(mid, new)
  BY <1>1, <1>5
<1> HIDE DEF mid
<1>17. Lined(mid, new, n, {R(p), W(p)})
  <2>1. open' = open \ {R(p), W(p)}
    BY <1>1, <1>2
  <2>2. \A x \in {R(p), W(p)} : x \in Spare \/ \E y \in Records : x \in Ends(cmds[y])
    BY <1>2, <1>6
  <2>3. Spare' \cup Ends(new) = Spare \ {R(p), W(p)} /\ Spare' \cap Ends(new) = {}
    BY <1>4, <1>9, <1>15
  <2>4. WrittenBy(map'[n], cmds') /\ Tagged(map'[n], src, dst') /\ Defined(map'[n], cmds')
    BY <1>16, NoSymFacts
  <2> QED BY <1>1, <1>4, <1>11, <1>12, <1>13, <1>14, <1>16, <2>1, <2>2, <2>3, <2>4 DEF Lined
<1>18. Ending(mid, new, {R(p), W(p)})
  <2>1. \A q \in Pipes : /\ W(q) # R(p) /\ R(q) # W(p) /\ (R(q) = R(p) => q = p) /\ (W(q) = W(p) => q = p)
    BY PipeEnds DEF Pipes
  <2>2. \A q \in Pipes : dst'[q] = IF q = p THEN ToStderr ELSE dst[q]
    <3>1. ToStderr \in Int
      BY DEF ToStderr
    <3> QED BY <1>1, <1>2, <1>5, <3>1
  <2>3. ToStdout # ToStderr /\ ToStdout # Nobody /\ ToStderr # Nobody
    BY Codes
  <2>4. ASSUME NEW x \in Records, src[p] = base + x PROVE Err \in {mid[x].stdos} \cup ToSet(mid[x].args)
    <3>1. x = k
      BY <1>5, <1>6, <2>4 DEF Records
    <3> QED BY <1>6, <1>10, <1>11, <3>1
  <2> QED BY <1>1, <1>2, <1>4, <1>5, <2>1, <2>2, <2>3, <2>4 DEF Ending
<1> QED BY <1>17, <1>18, LineOwns

-----------------------------------------------------------------------------
(***************************************************************************)
(* The steps that end a command and a section.                             *)
(***************************************************************************)

LEMMA NothingMoves ==
    ASSUME OwnInv, UNCHANGED <<cmds, base, open, npipes, misclosed, forkonly, state, task, thread,
                               redirected, src, dst>>,
           Spare' = Spare, exstatus' = exstatus \/ exstatus' \in {65, 126}
    PROVE  Owned' /\ Accounted' /\ (\A k \in Records' : Fit(cmds[k])') /\ Tasks' /\ Meant'
<1>1. /\ \A i \in Ids : Threaded(i)' = Threaded(i)
      /\ Tasks'
  BY NobodyMoves DEF OwnInv
<1>2. Records' = Records /\ Made' = Made
  BY DEF Records, Made
<1>3. Owned'
  BY <1>1, <1>2 DEF OwnInv, Owned
<1>4. Accounted'
  BY <1>1, <1>2 DEF OwnInv, Accounted
<1>5. \A k \in Records' : Fit(cmds[k])'
  BY <1>2 DEF OwnInv, Fit
<1>6. Meant'
  BY DEF OwnInv, Meant
<1> QED BY <1>1, <1>3, <1>4, <1>5, <1>6

LEMMA TagsStay ==
    ASSUME OwnInv, UNCHANGED <<map, add_map, src, dst>>
    PROVE  Tags'
<1>1. Tags
  BY DEF OwnInv, Wired, Tags
<1> QED BY <1>1 DEF Tags, Tagged

LEMMA EndCommandOwns ==
    ASSUME ScriptInv, OwnInv, EndCommand, LineFrame
    PROVE  OwnInv'
<1>1. /\ phase = "setup" /\ phase' = "setup" /\ building
      /\ \A n \in Names : add_map[n] # NoSym => ~Taken(n)
      /\ \A n \in Names : /\ map'[n] = IF add_map[n] # NoSym THEN add_map[n] ELSE map[n]
                          /\ add_map'[n] = NoSym
      /\ UNCHANGED <<cmds, base, open, npipes, misclosed, redirected, src, dst, exstatus, stdin_fd>>
      /\ UNCHANGED <<forkonly, state, task, thread>>
  BY DEF EndCommand, LineFrame, streamVars, scriptVars
<1>2. \A n \in Names : add_map[n] # NoSym => add_map[n].kind \in Streams /\ map[n].kind \notin Streams
  <2>1. \A n \in Names : add_map[n] # NoSym => add_map[n].kind \in Streams
    BY DEF ScriptInv, DeclaredFit
  <2> QED BY <1>1, <2>1 DEF Taken, Streams
<1>3. \A n \in Names : add_map'[n].kind \notin Streams /\ (add_map[n].kind \in Streams => add_map[n] # NoSym)
  BY <1>1, NoSymFacts
<1>4. SymbolFds(map)' = SymbolFds(map) \cup SymbolFds(add_map) /\ SymbolFds(add_map)' = {}
  <2>1. ASSUME NEW x \in SymbolFds(map)' PROVE x \in SymbolFds(map) \cup SymbolFds(add_map)
    <3>1. PICK n \in Names : map'[n].kind \in Streams /\ x = map'[n].fd
      BY <2>1 DEF SymbolFds
    <3>2. CASE add_map[n] # NoSym
      BY <1>1, <3>1, <3>2 DEF SymbolFds
    <3>3. CASE add_map[n] = NoSym
      BY <1>1, <3>1, <3>3 DEF SymbolFds
    <3> QED BY <3>2, <3>3
  <2>2. ASSUME NEW x \in SymbolFds(map) PROVE x \in SymbolFds(map)'
    <3>1. PICK n \in Names : map[n].kind \in Streams /\ x = map[n].fd
      BY <2>2 DEF SymbolFds
    <3>2. map'[n] = map[n]
      BY <1>1, <1>2, <3>1
    <3> QED BY <3>1, <3>2 DEF SymbolFds
  <2>3. ASSUME NEW x \in SymbolFds(add_map) PROVE x \in SymbolFds(map)'
    <3>1. PICK n \in Names : add_map[n].kind \in Streams /\ x = add_map[n].fd
      BY <2>3 DEF SymbolFds
    <3>2. map'[n] = add_map[n]
      BY <1>1, <1>3, <3>1
    <3> QED BY <3>1, <3>2 DEF SymbolFds
  <2>4. SymbolFds(add_map)' = {}
    BY <1>3 DEF SymbolFds
  <2> QED BY <2>1, <2>2, <2>3, <2>4
<1>5. Spare' = Spare
  BY <1>1, <1>4 DEF Spare
<1>6. Owned' /\ Accounted' /\ (\A k \in Records' : Fit(cmds[k])') /\ Tasks' /\ Meant'
  BY <1>1, <1>5, NothingMoves
<1>7. Spent'
  BY <1>1 DEF Spent
<1>8. Wired'
  <2>1. /\ Wired /\ Records' = Records
    BY <1>1 DEF OwnInv, Records
  <2>2. \A n \in Names : /\ WrittenBy(map'[n], cmds) /\ WrittenBy(add_map'[n], cmds)
                         /\ Tagged(map'[n], src, dst) /\ Tagged(add_map'[n], src, dst)
                         /\ Defined(map'[n], cmds)
    <3> SUFFICES ASSUME NEW n \in Names
                 PROVE  /\ WrittenBy(map'[n], cmds) /\ WrittenBy(add_map'[n], cmds)
                        /\ Tagged(map'[n], src, dst) /\ Tagged(add_map'[n], src, dst)
                        /\ Defined(map'[n], cmds)
      OBVIOUS
    <3>1. /\ WrittenBy(map[n], cmds) /\ WrittenBy(add_map[n], cmds)
          /\ Tagged(map[n], src, dst) /\ Tagged(add_map[n], src, dst) /\ Defined(map[n], cmds)
      BY <2>1 DEF Wired
    <3>2. WrittenBy(add_map'[n], cmds) /\ Tagged(add_map'[n], src, dst)
      BY <1>1, NoSymFacts
    <3>3. CASE add_map[n] # NoSym
      <4>1. map'[n] = add_map[n] /\ add_map[n].kind \in Streams
        BY <1>1, <1>2, <3>3
      <4>2. Defined(add_map[n], cmds)
        BY <4>1 DEF Defined, Streams
      <4> QED BY <3>1, <3>2, <4>1, <4>2
    <3>4. CASE add_map[n] = NoSym
      <4>1. map'[n] = map[n]
        BY <1>1, <3>4
      <4> QED BY <3>1, <3>2, <4>1
    <3> QED BY <3>3, <3>4
  <2>3. \A n \in Names : /\ WrittenBy(map[n], cmds)' /\ WrittenBy(add_map[n], cmds)'
                         /\ Tagged(map[n], src, dst)' /\ Tagged(add_map[n], src, dst)'
                         /\ Defined(map[n], cmds)'
    BY <1>1, <2>2 DEF WrittenBy, Tagged, Defined
  <2>4. \A k \in Records' : Told(cmds[k])'
    BY <1>1, <2>1 DEF Wired
  <2>5. \A k \in Records, p \in Pipes :
          /\ W(p) \in Ends(cmds'[k]) => src'[p] = base' + k
          /\ R(p) \in Ends(cmds'[k]) => dst'[p] = base' + k
          /\ src'[p] = base' + k =>
               IF dst'[p] = ToStderr THEN Err \in {cmds'[k].stdos} \cup ToSet(cmds'[k].args)
                                     ELSE W(p) \in Ends(cmds'[k])
          /\ dst'[p] = base' + k => R(p) \in Ends(cmds'[k])
    BY <1>1, <2>1 DEF Wired
  <2> QED BY <2>1, <2>3, <2>4, <2>5 DEF Wired
<1> QED BY <1>1, <1>6, <1>7, <1>8 DEF OwnInv

LEMMA RefuseOwns ==
    ASSUME ScriptInv, OwnInv, Refuse, LineFrame
    PROVE  OwnInv'
<1>1. /\ phase = "setup" /\ phase' = "wait" /\ exstatus' = 65 /\ next' = 1
      /\ UNCHANGED <<cmds, base, open, npipes, misclosed, redirected, src, dst, stdin_fd, map, add_map>>
      /\ UNCHANGED <<forkonly, state, task, thread>>
  BY DEF Refuse, LineFrame, streamVars, scriptVars, hookupVars
<1>2. Spare' = Spare
  BY <1>1 DEF Spare, SymbolFds
<1>3. Owned' /\ Accounted' /\ (\A k \in Records' : Fit(cmds[k])') /\ Tasks' /\ Meant'
  BY <1>1, <1>2, NothingMoves
<1>4. Spent'
  <2>1. \A k \in Records' : ~(k < next')
    BY <1>1 DEF Records
  <2> QED BY <1>1, <2>1 DEF Spent
<1>5. Tags'
  BY <1>1, TagsStay DEF OwnInv
<1> QED BY <1>1, <1>3, <1>4, <1>5 DEF OwnInv

LEMMA EndSectionOwns ==
    ASSUME ScriptInv, OwnInv, EndSection, LineFrame
    PROVE  OwnInv'
<1>1. /\ phase = "setup" /\ phase' = "spawn" /\ next' = 1 /\ ~building
      /\ Habit("dangling", \E n \in Names : Taken(n))
      /\ Habit("unused", \E k \in 1..cur : cmds[k].kind = "DefCommand" /\ cmds[k].os = <<>>)
      /\ UNCHANGED <<cmds, base, open, npipes, misclosed, redirected, src, dst, stdin_fd, map, add_map, exstatus, building>>
      /\ UNCHANGED <<forkonly, state, task, thread>>
  BY DEF EndSection, LineFrame, streamVars, scriptVars, hookupVars
<1>2. Spare' = Spare
  BY <1>1 DEF Spare, SymbolFds
<1>3. Owned' /\ Accounted' /\ (\A k \in Records' : Fit(cmds[k])') /\ Tasks' /\ Meant'
  BY <1>1, <1>2, NothingMoves
<1>4. Spent'
  <2>1. \A k \in Records' : ~(k < next')
    BY <1>1 DEF Records
  <2>2. "unused" \notin Habits => \A k \in Records' : cmds'[k].kind = "DefCommand" => cmds'[k].os # <<>>
    BY <1>1 DEF Habit, Records, cur
  <2>3. "dangling" \notin Habits => \A n \in Names : ~Taken(n)'
    BY <1>1 DEF Habit, Taken
  <2> QED BY <1>1, <2>1, <2>2, <2>3 DEF Spent
<1>5. Tags'
  BY <1>1, TagsStay DEF OwnInv
<1> QED BY <1>1, <1>3, <1>4, <1>5 DEF OwnInv

LEMMA SetupOwns ==
    ASSUME Sensible, ScriptInv, ScriptInv', OwnInv, SetupStep
    PROVE  OwnInv'
<1>1. LineFrame /\ Setup
  BY DEF SetupStep, Setup, LineFrame, procVars
<1>2. ASSUME NEW n \in Names, Argument(n) PROVE OwnInv'
  BY <1>1, <1>2, ArgumentOwns
<1>3. ASSUME NEW n \in Names, Line(n) PROVE OwnInv'
  <2>1. CASE Define(n)
    BY <1>1, <2>1, DefineOwns
  <2>2. CASE HereDoc(n)
    BY <1>1, <2>2, HereDocOwns
  <2>3. CASE Stdin(n)
    BY <1>1, <2>3, StdinOwns
  <2>4. CASE Stdout(n)
    BY <1>1, <2>4, StdoutOwns
  <2>5. CASE Stderr(n)
    BY <1>1, <2>5, StderrOwns
  <2> QED BY <1>3, <2>1, <2>2, <2>3, <2>4, <2>5 DEF Line
<1>4. CASE BeginCommand
  BY <1>1, <1>4, BeginCommandOwns
<1>5. CASE EndCommand
  BY <1>1, <1>5, EndCommandOwns
<1>6. CASE EndSection
  BY <1>1, <1>6, EndSectionOwns
<1>7. CASE Refuse
  BY <1>1, <1>7, RefuseOwns
<1>8. CASE \E refused \in BOOLEAN : StdoutInVain(refused)
  BY <1>8 DEF StdoutInVain, Sensible
<1> QED BY <1>1, <1>2, <1>3, <1>4, <1>5, <1>6, <1>7, <1>8 DEF Setup

-----------------------------------------------------------------------------
(***************************************************************************)
(* The commands are spawned.                                               *)
(***************************************************************************)

LEMMA SpawnSkipOwns ==
    ASSUME ScriptInv, OwnInv, SpawnSkip
    PROVE  OwnInv'
<1>1. /\ phase = "spawn" /\ phase' = "spawn" /\ next' = next + 1 /\ next \in Records
      /\ c.kind \notin {"RunCommand", "DefCommand"}
      /\ UNCHANGED <<cmds, base, open, npipes, misclosed, redirected, src, dst, stdin_fd, map, add_map, exstatus,
                     building, forkonly>>
      /\ UNCHANGED <<state, task, thread>>
  <2>1. next \in 1 .. Len(cmds) + 1 /\ Len(cmds) \in Nat
    BY Unchanged
  <2> QED BY <2>1 DEF SpawnSkip, Spawning, wiringVars, streamVars, scriptVars, hookupVars, procVars, Records
<1>2. Spare' = Spare
  BY <1>1 DEF Spare, SymbolFds
<1>3. Owned' /\ Accounted' /\ (\A k \in Records' : Fit(cmds[k])') /\ Tasks' /\ Meant'
  BY <1>1, <1>2, NothingMoves
<1>4. Ends(cmds[next]) = {}
  BY <1>1 DEF OwnInv, Fit, c
<1>5. Spent'
  <2>1. ASSUME NEW k \in Records PROVE (k < next' => k < next \/ k = next) /\ (k >= next' => k >= next)
    BY <1>1 DEF Records
  <2>2. Records' = Records
    BY <1>1 DEF Records
  <2>3. \A k \in Records : k < next' => Ends(cmds[k]) = {}
    BY <1>1, <1>4, <2>1 DEF OwnInv, Spent
  <2>4. "unused" \notin Habits => \A k \in Records : k >= next' /\ cmds[k].kind = "DefCommand" => cmds[k].os # <<>>
    BY <1>1, <2>1 DEF OwnInv, Spent
  <2>5. "dangling" \notin Habits /\ exstatus \notin {65, 126} => \A n \in Names : ~Taken(n)'
    BY <1>1 DEF OwnInv, Spent, Taken
  <2> QED BY <1>1, <2>2, <2>3, <2>4, <2>5 DEF OwnInv, Spent
<1>6. Tags'
  BY <1>1, TagsStay
<1> QED BY <1>1, <1>3, <1>5, <1>6 DEF OwnInv

LEMMA EndSpawnOwns ==
    ASSUME ScriptInv, OwnInv, EndSpawn
    PROVE  OwnInv'
<1>1. /\ phase = "spawn" /\ phase' = "wait" /\ next' = 1 /\ \A k \in Records : k < next
      /\ UNCHANGED <<cmds, base, open, npipes, misclosed, redirected, src, dst, stdin_fd, map, add_map, exstatus,
                     building, forkonly>>
      /\ UNCHANGED <<state, task, thread>>
  <2>1. next \in 1 .. Len(cmds) + 1 /\ Len(cmds) \in Nat
    BY Unchanged
  <2> QED BY <2>1 DEF EndSpawn, streamVars, scriptVars, hookupVars, procVars, Records
<1>2. Spare' = Spare
  BY <1>1 DEF Spare, SymbolFds
<1>3. Owned' /\ Accounted' /\ (\A k \in Records' : Fit(cmds[k])') /\ Tasks' /\ Meant'
  BY <1>1, <1>2, NothingMoves
<1>4. \A k \in Records : Ends(cmds[k]) = {}
  BY <1>1 DEF OwnInv, Spent
<1>5. Spent'
  <2>1. Records' = Records
    BY <1>1 DEF Records
  <2>2. "dangling" \notin Habits /\ exstatus \notin {65, 126} => \A n \in Names : ~Taken(n)'
    BY <1>1 DEF OwnInv, Spent, Taken
  <2> QED BY <1>1, <1>4, <2>1, <2>2 DEF OwnInv, Spent
<1>6. Tags'
  BY <1>1, TagsStay
<1> QED BY <1>1, <1>3, <1>5, <1>6 DEF OwnInv

\* What is left of a record is nobody's.
LEMMA EmptiedFits ==
    ASSUME NEW a \in Commands
    PROVE  Fit(Emptied(a)) /\ Ends(Emptied(a)) = {} /\ Emptied(a).kind = a.kind
<1> DEFINE e == Emptied(a)
<1>1. /\ e.stdis = -1 /\ e.stdos = -1 /\ e.is = <<>> /\ e.os = <<>> /\ e.status_fd = -1
      /\ e.iargs = <<>> /\ e.exec_fd = -1 /\ e.exit_fds = {} /\ e.kind = a.kind
  BY DEF Emptied, NewCommand
<1>2. ToSet(<<>>) = {} /\ Once(<<>>, {})
  BY DEF ToSet, Once
<1> HIDE DEF e
<1>3. Files(e) = {}
  BY <1>1, <1>2 DEF Files
<1>4. Ends(e) = {}
  BY <1>1, <1>2 DEF Ends
<1>5. Fit(e)
  BY <1>1, <1>2, <1>3, <1>4 DEF Fit, Distinct
<1> QED BY <1>1, <1>4, <1>5 DEF e

LEMMA ListingFacts ==
    ASSUME NEW fd \in Fds \cup {-1, Err}
    PROVE  /\ Listing(fd) \in Seq(Fds) /\ ToSet(Listing(fd)) = {fd} \ {-1, Err} /\ Once(Listing(fd), {})
<1>1. CASE fd \in {-1, Err}
  <2>1. Listing(fd) = <<>>
    BY <1>1 DEF Listing
  <2>2. <<>> \in Seq(Fds) /\ ToSet(<<>>) = {} /\ Once(<<>>, {})
    BY DEF ToSet, Once
  <2> QED BY <1>1, <2>1, <2>2
<1>2. CASE fd \notin {-1, Err}
  <2>1. Listing(fd) = <<fd>> /\ fd \in Fds
    BY <1>2 DEF Listing
  <2>2. <<fd>> \in Seq(Fds) /\ ToSet(<<fd>>) = {fd} /\ Once(<<fd>>, {})
    BY <2>1 DEF ToSet, Once
  <2> QED BY <1>2, <2>1, <2>2
<1> QED BY <1>1, <1>2

\* A process has each descriptor that it inherits, and closes it, once.
LEMMA InheritedOnce ==
    ASSUME NEW a \in Commands, Distinct(a), a.exec_fd = -1
    PROVE  /\ Inherited(a) \in Seq(Fds) /\ Once(Inherited(a), {})
           /\ StandardFds(a) \o Inherited(a) \in Seq(Fds) /\ Once(StandardFds(a) \o Inherited(a), {})
           /\ ToSet(StandardFds(a) \o Inherited(a)) = Ends(a)
<1>1. /\ a.is \in Seq(Fds) /\ a.os \in Seq(Fds) /\ a.iargs \in Seq(Fds)
      /\ a.stdis \in Fds \cup {-1} /\ a.stdos \in Fds \cup {-1, Err} /\ a.status_fd \in Fds \cup {-1}
  BY DEF Commands
<1> DEFINE x == Listing(a.stdis)
<1> DEFINE y == Listing(a.stdos)
<1> DEFINE z == Listing(a.status_fd)
<1> DEFINE u == a.is \o a.iargs
<1> DEFINE v == u \o a.os
<1> DEFINE s == v \o z
<1>2. x \in Seq(Fds) /\ ToSet(x) = {a.stdis} \ {-1, Err} /\ Once(x, {})
  BY <1>1, ListingFacts
<1>3. y \in Seq(Fds) /\ ToSet(y) = {a.stdos} \ {-1, Err} /\ Once(y, {})
  BY <1>1, ListingFacts
<1>4. z \in Seq(Fds) /\ ToSet(z) = {a.status_fd} \ {-1, Err} /\ Once(z, {})
  BY <1>1, ListingFacts
<1>5. Inherited(a) = s
  <2>1. Listing(a.exec_fd) = <<>>
    BY DEF Listing
  <2>2. u \in Seq(Fds)
    BY <1>1
  <2> HIDE DEF u, z
  <2>3. u \o <<>> = u
    BY <2>2
  <2> QED BY <2>1, <2>3 DEF Inherited, u, z
<1> HIDE DEF x, y, z
<1>6. u \in Seq(Fds) /\ Once(u, {}) /\ ToSet(u) = ToSet(a.is) \cup ToSet(a.iargs)
  BY <1>1, OnceConcat DEF Distinct
<1> HIDE DEF u
<1>7. v \in Seq(Fds) /\ Once(v, {}) /\ ToSet(v) = Files(a)
  <2>1. ToSet(u) \cap ToSet(a.os) = {} /\ Once(a.os, {})
    BY <1>6 DEF Distinct
  <2>2. v \in Seq(Fds) /\ Once(v, {}) /\ ToSet(v) = ToSet(u) \cup ToSet(a.os)
    BY <1>1, <1>6, <2>1, OnceConcat
  <2> QED BY <1>6, <2>2 DEF Files
<1> HIDE DEF v
<1>8. s \in Seq(Fds) /\ Once(s, {}) /\ ToSet(s) = Files(a) \cup ({a.status_fd} \ {-1, Err})
  <2>1. ToSet(v) \cap ToSet(z) = {}
    BY <1>4, <1>7 DEF Distinct
  <2> QED BY <1>4, <1>7, <2>1, OnceConcat
<1> DEFINE t == x \o y
<1> HIDE DEF s
<1>9. -1 \notin Fds /\ Err \notin Fds
  BY FdFacts
<1>10. t \in Seq(Fds) /\ Once(t, {}) /\ ToSet(t) = {a.stdis, a.stdos} \ {-1, Err}
  <2>1. ToSet(x) \cap ToSet(y) = {}
    BY <1>2, <1>3 DEF Distinct
  <2>2. t \in Seq(Fds) /\ Once(t, {}) /\ ToSet(t) = ToSet(x) \cup ToSet(y)
    BY <1>2, <1>3, <2>1, OnceConcat
  <2> QED BY <1>2, <1>3, <2>2
<1>11. StandardFds(a) = t
  BY DEF StandardFds, x, y
<1> HIDE DEF t
<1>12. t \o s \in Seq(Fds) /\ Once(t \o s, {}) /\ ToSet(t \o s) = ToSet(t) \cup ToSet(s)
  <2>1. ToSet(t) \cap ToSet(s) = {}
    BY <1>8, <1>10 DEF Distinct
  <2>2. t \in Seq(Fds) /\ s \in Seq(Fds) /\ Once(t, {}) /\ Once(s, {})
    BY <1>8, <1>10
  <2> QED BY <2>1, <2>2, OnceConcat
<1>13. ToSet(t \o s) = Ends(a)
  <2>1. Ends(a) = ({a.stdis, a.stdos, a.status_fd} \ {-1, Err}) \cup Files(a)
    BY EndsFacts
  <2> QED BY <1>8, <1>10, <1>12, <2>1
<1> QED BY <1>5, <1>8, <1>11, <1>12, <1>13 DEF s

LEMMA CloseInheritedCloses ==
    ASSUME ScriptInv, OwnInv, Forks, CloseInherited
    PROVE  open' = open \ Ends(c) /\ ~misclosed' /\ Ends(c) \subseteq open
<1> DEFINE s == Inherited(c)
<1> DEFINE kept == {k \in 1..Len(s) : Doubled(s, k) \/ (k > 1 /\ Doubled(s, k - 1))}
<1> DEFINE rest == [k \in 1..Len(s) |-> IF k \in kept THEN -1 ELSE s[k]]
<1> DEFINE closed == StandardFds(c) \o rest
<1>1. /\ open' = open \ ToSet(closed)
      /\ misclosed' = \/ misclosed
                      \/ \E j \in 1..Len(closed) : closed[j] # -1
                           /\ (closed[j] \notin open \/ closed[j] \in ToSet(SubSeq(closed, 1, j - 1)))
  BY DEF CloseInherited
<1>2. next \in Records /\ c = cmds[next] /\ c \in Commands /\ Fit(c)
  <2>1. next \in 1 .. Len(cmds) + 1 /\ Len(cmds) \in Nat
    BY Unchanged
  <2>2. next \in Records
    BY <2>1 DEF Forks, Spawning, Records
  <2> QED BY <2>2, RecordsSound DEF c, OwnInv, Records
<1>3. c.exec_fd = -1
  BY <1>2 DEF Forks, Fit, UsesExecfd
<1>4. /\ s \in Seq(Fds) /\ Once(s, {})
      /\ StandardFds(c) \o s \in Seq(Fds) /\ Once(StandardFds(c) \o s, {})
      /\ ToSet(StandardFds(c) \o s) = Ends(c)
  BY <1>2, <1>3, InheritedOnce DEF Fit
<1>5. rest = s
  <2> HIDE DEF s
  <2>1. DOMAIN s = 1 .. Len(s) /\ Len(s) \in Nat
    BY <1>4, SeqFacts
  <2>2. \A k \in 1 .. Len(s) : ~Doubled(s, k) /\ (k > 1 => ~Doubled(s, k - 1))
    <3> SUFFICES ASSUME NEW k \in 1 .. Len(s), Doubled(s, k) PROVE FALSE
      BY <2>1
    <3>1. k + 1 \in 1 .. Len(s) /\ s[k] = s[k + 1] /\ k # k + 1
      BY <2>1 DEF Doubled
    <3> QED BY <1>4, <2>1, <3>1 DEF Once
  <2>3. kept = {}
    BY <2>2
  <2> HIDE DEF kept
  <2>4. rest = [k \in 1 .. Len(s) |-> s[k]]
    BY <2>3
  <2>5. s = [k \in 1 .. Len(s) |-> s[k]]
    BY <1>4
  <2> QED BY <2>4, <2>5
<1> DEFINE all == StandardFds(c) \o s
<1>6. closed = all
  BY <1>5
<1> HIDE DEF all, closed
<1>7. Ends(c) \subseteq open /\ ~misclosed
  BY <1>2 DEF OwnInv, Owned
<1>8. all \in Seq(Fds) /\ Once(all, {}) /\ ToSet(all) = Ends(c)
  BY <1>4 DEF all
<1>9. ASSUME NEW j \in 1 .. Len(all)
      PROVE  all[j] \in open /\ all[j] \notin ToSet(SubSeq(all, 1, j - 1))
  <2>1. /\ DOMAIN all = 1 .. Len(all) /\ Len(all) \in Nat /\ ToSet(all) = {all[x] : x \in 1 .. Len(all)}
        /\ \A x \in 1 .. Len(all) : all[x] \in Fds
    BY <1>8, SeqFacts, ElementOfSeq
  <2> DEFINE a == SubSeq(all, 1, j - 1)
  <2>2. a \in Seq(Fds) /\ Len(a) = j - 1 /\ \A x \in 1 .. j - 1 : a[x] = all[x]
    <3>1. \A x \in 1 .. j - 1 : all[x] \in Fds
      BY <2>1
    <3> QED BY <1>8, <2>1, <3>1, SubSeqProperties
  <2> HIDE DEF a
  <2>3. ToSet(a) = {a[x] : x \in 1 .. j - 1}
    BY <2>2, SeqFacts
  <2>4. ASSUME NEW x \in 1 .. j - 1 PROVE a[x] # all[j]
    <3>1. x \in 1 .. Len(all) /\ x # j /\ a[x] = all[x]
      BY <2>1, <2>2
    <3> QED BY <1>8, <2>1, <3>1 DEF Once
  <2>5. all[j] \notin ToSet(a)
    BY <2>3, <2>4
  <2> QED BY <1>7, <1>8, <2>1, <2>5 DEF a
<1> QED BY <1>1, <1>6, <1>7, <1>8, <1>9

LEMMA EmptiedRecords ==
    ASSUME ScriptInv, OwnInv, next <= Len(cmds), cmds' = [cmds EXCEPT ![next] = Emptied(c)], forkonly' = forkonly
    PROVE  /\ next \in Records /\ c = cmds[next] /\ c \in Commands /\ Records' = Records
           /\ \A k \in Records : cmds'[k] = IF k = next THEN Emptied(c) ELSE cmds[k]
           /\ \A k \in Records : /\ Ends(cmds'[k]) = (IF k = next THEN {} ELSE Ends(cmds[k]))
                                 /\ cmds'[k].kind = cmds[k].kind
           /\ \A k \in Records' : Fit(cmds[k])'
<1> DEFINE e == Emptied(c)
<1>1. /\ cmds' \in Seq(Commands) /\ Len(cmds') = Len(cmds) /\ next \in 1 .. Len(cmds)
      /\ c \in Commands
  BY EmptiedRecord
<1>2. Fit(e) /\ Ends(e) = {} /\ e.kind = c.kind
  BY <1>1, EmptiedFits
<1>3. cmds \in Seq(Commands) /\ e \in Commands
  BY <1>1, EmptiedTyped DEF ScriptInv, Typed
<1>4. cmds' = [cmds EXCEPT ![next] = e]
  OBVIOUS
<1> HIDE DEF e
<1>5. \A k \in 1 .. Len(cmds) : cmds'[k] = IF k = next THEN e ELSE cmds[k]
  BY <1>1, <1>3, <1>4, UpdateFacts
<1>6. Records' = Records
  BY <1>1 DEF Records
<1>7. c = cmds[next]
  BY DEF c
<1>8. \A k \in Records : Fit(cmds'[k])
  <2> SUFFICES ASSUME NEW k \in Records PROVE Fit(cmds'[k])
    OBVIOUS
  <2>1. CASE k = next
    BY <1>2, <1>5, <2>1 DEF Records
  <2>2. CASE k # next
    <3>1. cmds'[k] = cmds[k]
      BY <1>5, <2>2 DEF Records
    <3> QED BY <3>1 DEF OwnInv
  <2> QED BY <2>1, <2>2
<1>9. \A k \in Records' : Fit(cmds[k])'
  BY <1>6, <1>8 DEF Fit
<1>10. \A k \in Records : /\ Ends(cmds'[k]) = (IF k = next THEN {} ELSE Ends(cmds[k]))
                          /\ cmds'[k].kind = cmds[k].kind
  <2> SUFFICES ASSUME NEW k \in Records
               PROVE  /\ Ends(cmds'[k]) = (IF k = next THEN {} ELSE Ends(cmds[k]))
                      /\ cmds'[k].kind = cmds[k].kind
    OBVIOUS
  <2>1. CASE k = next
    <3>1. cmds'[k] = e /\ cmds[k] = c
      BY <1>5, <1>7, <2>1 DEF Records
    <3> QED BY <1>2, <2>1, <3>1
  <2>2. CASE k # next
    <3>1. cmds'[k] = cmds[k]
      BY <1>5, <2>2 DEF Records
    <3> QED BY <2>2, <3>1
  <2> QED BY <2>1, <2>2
<1> QED BY <1>1, <1>5, <1>6, <1>7, <1>9, <1>10 DEF Records, e

\* What the shell has for a command that is spawned.
LEMMA SpawnedThread ==
    ASSUME ScriptInv, Barrier, OwnInv, NEW asThread \in BOOLEAN, Spawn(asThread), NEW d, d = c.id
    PROVE  /\ d \in Ids /\ Threaded(d) = {} /\ Threaded(d)' = (IF asThread THEN Ends(c) ELSE {})
           /\ \A i \in Ids : i # d => Threaded(i)' = Threaded(i)
           /\ Tasks'
<1>1. /\ phase = "spawn" /\ next <= Len(cmds)
      /\ cmds' = [cmds EXCEPT ![next] = Emptied(c)] /\ forkonly' = forkonly
      /\ state' = [state EXCEPT ![d] = IF UsesExecfd(c) THEN "gather" ELSE "run"]
      /\ task' = [task EXCEPT ![d] = c]
      /\ thread' = [thread EXCEPT ![d] = asThread]
      /\ c.kind \in {"RunCommand", "DefCommand"}
  BY DEF Spawn, Spawning
<1>2. /\ next \in Records /\ c = cmds[next] /\ c \in Commands
  BY <1>1, EmptiedRecords
<1>3. d \in Ids /\ d = base + next
  BY <1>1, EmptiedRecord
<1>4. state[d] = "none"
  <2>1. base \in Nat /\ next \in Nat
    BY <1>2, Unchanged DEF Records
  <2>2. d >= base + next
    BY <1>3, <2>1
  <2> QED BY <1>1, <1>3, <2>2 DEF Barrier
<1>5. /\ state \in [Ids -> States] /\ thread \in [Ids -> BOOLEAN]
  BY DEF ScriptInv, Typed
<1>6. DOMAIN task = Ids /\ Tasks
  BY DEF OwnInv, Tasks
<1>7. /\ state'[d] = (IF UsesExecfd(c) THEN "gather" ELSE "run") /\ task'[d] = c /\ thread'[d] = asThread
      /\ DOMAIN task' = Ids
      /\ \A i \in Ids : i # d => state'[i] = state[i] /\ task'[i] = task[i] /\ thread'[i] = thread[i]
  BY <1>1, <1>3, <1>5, <1>6
<1>8. Threaded(d) = {}
  BY <1>4 DEF Threaded, Held
<1>9. \A i \in Ids : i # d => Threaded(i)' = Threaded(i)
  BY <1>7 DEF Threaded, Held
<1>10. Held(d)' = Ends(c)
  <2>1. CASE UsesExecfd(c)
    BY <1>7, <2>1 DEF Held
  <2>2. CASE ~UsesExecfd(c)
    <3>1. Gathers(c) = {}
      <4>1. c.exec_fd = -1 /\ c.iargs = <<>>
        BY <2>2 DEF UsesExecfd
      <4>2. ToSet(<<>>) = {}
        BY DEF ToSet
      <4> QED BY <4>1, <4>2 DEF Gathers
    <3>2. state'[d] = "run" /\ task'[d] = c
      BY <1>7, <2>2
    <3>3. Held(d)' = Ends(c) \ Gathers(c)
      BY <3>2 DEF Held
    <3> QED BY <3>1, <3>3
  <2> QED BY <2>1, <2>2
<1>11. Threaded(d)' = (IF asThread THEN Ends(c) ELSE {})
  BY <1>7, <1>10 DEF Threaded
<1>12. Tasks'
  <2>1. /\ c.exit_fds \subseteq ToSet(c.os)
        /\ c.exec_fd # -1 => c.exec_fd \in ToSet(c.is)
        /\ "unused" \notin Habits /\ c.kind = "DefCommand" => c.os # <<>>
    <3>1. Fit(c) /\ (c.exec_fd # -1 => c.exec_fd \in ToSet(c.is))
      <4>1. Sound(c)
        BY <1>2, RecordsSound DEF Records
      <4> QED BY <1>2, <4>1 DEF OwnInv, Sound
    <3>2. "unused" \notin Habits /\ c.kind = "DefCommand" => c.os # <<>>
      <4>1. next >= next
        BY <1>2 DEF Records
      <4> QED BY <1>1, <1>2, <4>1 DEF OwnInv, Spent
    <3> QED BY <3>1, <3>2 DEF Fit
  <2>2. ASSUME NEW i \in Ids, state'[i] \in {"gather", "run"}
        PROVE  /\ task'[i] \in Commands
               /\ task'[i].exit_fds \subseteq ToSet(task'[i].os)
               /\ task'[i].exec_fd # -1 => task'[i].exec_fd \in ToSet(task'[i].is)
               /\ "unused" \notin Habits /\ task'[i].kind = "DefCommand" => task'[i].os # <<>>
    <3>1. CASE i = d
      <4>1. task'[i] = c
        BY <1>7, <3>1
      <4> QED BY <1>2, <2>1, <4>1
    <3>2. CASE i # d
      <4>1. task'[i] = task[i] /\ state'[i] = state[i]
        BY <1>7, <3>2
      <4> QED BY <1>6, <2>2, <4>1 DEF Tasks, Live
    <3> QED BY <3>1, <3>2
  <2> QED BY <1>7, <2>2 DEF Tasks, Live
<1> QED BY <1>3, <1>8, <1>9, <1>11, <1>12

\* What spawning leaves as it is.
LEMMA SpawnRest ==
    ASSUME ScriptInv, OwnInv, NEW asThread \in BOOLEAN, Spawn(asThread), open' \subseteq open
    PROVE  /\ Spent' /\ Meant' /\ Tags' /\ phase' = "spawn" /\ Spare' = Spare /\ Made' = Made
           /\ \A k \in Records' : Fit(cmds[k])'
           /\ Records' = Records /\ next \in Records /\ c = cmds[next]
           /\ \A k \in Records : Ends(cmds'[k]) = IF k = next THEN {} ELSE Ends(cmds[k])
<1>1. /\ phase = "spawn" /\ phase' = "spawn" /\ next <= Len(cmds) /\ next' = next + 1
      /\ cmds' = [cmds EXCEPT ![next] = Emptied(c)]
      /\ UNCHANGED <<base, npipes, redirected, src, dst, stdin_fd, map, add_map, exstatus, building, forkonly>>
  BY DEF Spawn, Spawning, hookupVars, scriptVars
<1>2. /\ next \in Records /\ c = cmds[next] /\ Records' = Records
      /\ \A k \in Records : cmds'[k] = IF k = next THEN Emptied(c) ELSE cmds[k]
      /\ \A k \in Records : /\ Ends(cmds'[k]) = (IF k = next THEN {} ELSE Ends(cmds[k]))
                            /\ cmds'[k].kind = cmds[k].kind
      /\ \A k \in Records' : Fit(cmds[k])'
  BY <1>1, EmptiedRecords
<1>3. Spare' = Spare /\ Made' = Made
  BY <1>1 DEF Spare, SymbolFds, Made
<1>4. Spent'
  <2>1. ASSUME NEW k \in Records PROVE (k < next' => k < next \/ k = next) /\ (k >= next' => k >= next /\ k # next)
    BY <1>1, <1>2 DEF Records
  <2>2. ASSUME NEW k \in Records, k < next' PROVE Ends(cmds'[k]) = {}
    <3>1. CASE k = next
      BY <1>2, <3>1
    <3>2. CASE k # next
      BY <1>1, <1>2, <2>1, <2>2, <3>2 DEF OwnInv, Spent
    <3> QED BY <3>1, <3>2
  <2>3. ASSUME "unused" \notin Habits, NEW k \in Records, k >= next', cmds'[k].kind = "DefCommand"
        PROVE  cmds'[k].os # <<>>
    <3>1. cmds'[k] = cmds[k] /\ k >= next
      BY <1>2, <2>1, <2>3
    <3> QED BY <1>1, <2>3, <3>1 DEF OwnInv, Spent
  <2>4. "dangling" \notin Habits /\ exstatus \notin {65, 126} => \A n \in Names : ~Taken(n)'
    BY <1>1 DEF OwnInv, Spent, Taken
  <2> QED BY <1>1, <1>2, <2>2, <2>3, <2>4 DEF OwnInv, Spent
<1>5. Meant'
  <2>1. Len(cmds') = Len(cmds)
    BY <1>1, EmptiedRecord
  <2> QED BY <1>1, <2>1 DEF OwnInv, Meant
<1>6. Tags'
  BY <1>1, TagsStay
<1> QED BY <1>1, <1>2, <1>3, <1>4, <1>5, <1>6

LEMMA SpawnThreadOwns ==
    ASSUME ScriptInv, Barrier, OwnInv, SpawnThread
    PROVE  OwnInv'
<1>1. Spawn(TRUE) /\ open' = open /\ misclosed' = misclosed
  BY DEF SpawnThread
<1>2. PICK d : d = c.id
  OBVIOUS
<1>3. /\ d \in Ids /\ Threaded(d) = {} /\ Threaded(d)' = Ends(c)
      /\ \A i \in Ids : i # d => Threaded(i)' = Threaded(i)
      /\ Tasks'
  BY <1>1, <1>2, SpawnedThread
<1>4. /\ Spent' /\ Meant' /\ Tags' /\ phase' = "spawn" /\ Spare' = Spare /\ Made' = Made
      /\ \A k \in Records' : Fit(cmds[k])'
      /\ Records' = Records /\ next \in Records /\ c = cmds[next]
      /\ \A k \in Records : Ends(cmds'[k]) = IF k = next THEN {} ELSE Ends(cmds[k])
  BY <1>1, SpawnRest
<1>5. Owned
  BY DEF OwnInv
<1> DEFINE E == Ends(cmds[next])
<1> HIDE DEF E
<1>6. /\ E \subseteq open /\ E \cap Spare = {} /\ Threaded(d)' = E
      /\ \A i \in Ids : Threaded(i) \cap E = {}
      /\ \A k \in Records : k # next => Ends(cmds[k]) \cap E = {}
  BY <1>3, <1>4, <1>5 DEF Owned, E
<1>7. Owned'
  <2>1. \A i \in Ids : Threaded(i)' \subseteq open /\ Threaded(i)' \cap Spare = {}
    BY <1>3, <1>5, <1>6 DEF Owned
  <2>2. \A i \in Ids, k \in Records : Threaded(i)' \cap Ends(cmds'[k]) = {}
    BY <1>3, <1>4, <1>5, <1>6 DEF Owned
  <2>3. \A i, j \in Ids : i # j => Threaded(i)' \cap Threaded(j)' = {}
    BY <1>3, <1>5, <1>6 DEF Owned
  <2>4. \A k \in Records : Ends(cmds'[k]) \subseteq open /\ Ends(cmds'[k]) \cap Spare = {}
    BY <1>4, <1>5 DEF Owned
  <2>5. \A k, l \in Records : k # l => Ends(cmds'[k]) \cap Ends(cmds'[l]) = {}
    BY <1>4, <1>5 DEF Owned
  <2>6. open \subseteq Made /\ Spare \subseteq open /\ ~misclosed
    BY <1>5 DEF Owned
  <2> QED BY <1>1, <1>4, <2>1, <2>2, <2>3, <2>4, <2>5, <2>6 DEF Owned
<1>8. Accounted'
  <2>1. exstatus' = exstatus
    BY <1>1 DEF Spawn
  <2> SUFFICES ASSUME exstatus \notin {65, 126}, Habits \cap {"noexec", "unused"} = {}, NEW x \in open
               PROVE  \/ x \in Spare \/ \E k \in Records : x \in Ends(cmds'[k])
                      \/ \E i \in Ids : x \in Threaded(i)'
    BY <1>1, <1>4, <2>1 DEF Accounted
  <2>2. \/ x \in Spare \/ \E k \in Records : x \in Ends(cmds[k])
        \/ \E i \in Ids : x \in Threaded(i)
    BY DEF OwnInv, Accounted
  <2>3. ASSUME NEW k \in Records, x \in Ends(cmds[k])
        PROVE  \/ \E l \in Records : x \in Ends(cmds'[l])
               \/ \E i \in Ids : x \in Threaded(i)'
    <3>1. CASE k = next
      BY <1>3, <1>6, <2>3, <3>1 DEF E
    <3>2. CASE k # next
      BY <1>4, <2>3, <3>2
    <3> QED BY <3>1, <3>2
  <2>4. ASSUME NEW i \in Ids, x \in Threaded(i) PROVE \E j \in Ids : x \in Threaded(j)'
    BY <1>3, <2>4
  <2> QED BY <2>2, <2>3, <2>4
<1> QED BY <1>3, <1>4, <1>7, <1>8 DEF OwnInv

\* A record is emptied, and the shell closes some of its descriptors.
LEMMA EmptiedOwned ==
    ASSUME ScriptInv, OwnInv, next <= Len(cmds), cmds' = [cmds EXCEPT ![next] = Emptied(c)], forkonly' = forkonly,
           NEW L, L \subseteq Ends(c), open' = open \ L, ~misclosed', Spare' = Spare, Made' = Made,
           \A i \in Ids : Threaded(i)' = Threaded(i),
           exstatus' \in {65, 126} \/ (exstatus' = exstatus /\ L = Ends(c))
    PROVE  Owned' /\ Accounted'
<1>1. /\ next \in Records /\ c = cmds[next] /\ Records' = Records
      /\ \A k \in Records : Ends(cmds'[k]) = (IF k = next THEN {} ELSE Ends(cmds[k]))
  BY EmptiedRecords
<1>2. Owned
  BY DEF OwnInv
<1>3. Owned'
  <2>1. ASSUME NEW k \in Records
        PROVE  Ends(cmds'[k]) \subseteq open \ L /\ Ends(cmds'[k]) \cap Spare = {}
    <3>1. CASE k = next
      BY <1>1, <3>1
    <3>2. CASE k # next
      <4>1. Ends(cmds'[k]) = Ends(cmds[k]) /\ Ends(cmds[k]) \cap Ends(cmds[next]) = {}
        BY <1>1, <1>2, <3>2 DEF Owned
      <4> QED BY <1>1, <1>2, <4>1 DEF Owned
    <3> QED BY <3>1, <3>2
  <2>2. \A i \in Ids : Threaded(i) \subseteq open \ L /\ Threaded(i) \cap Spare = {}
    BY <1>1, <1>2 DEF Owned
  <2>3. \A i \in Ids, k \in Records : Threaded(i) \cap Ends(cmds'[k]) = {}
    BY <1>1, <1>2 DEF Owned
  <2>4. \A k, l \in Records : k # l => Ends(cmds'[k]) \cap Ends(cmds'[l]) = {}
    BY <1>1, <1>2 DEF Owned
  <2>5. /\ open \ L \subseteq Made /\ Spare \subseteq open \ L
        /\ \A i, j \in Ids : i # j => Threaded(i) \cap Threaded(j) = {}
    BY <1>1, <1>2 DEF Owned
  <2> QED BY <1>1, <2>1, <2>2, <2>3, <2>4, <2>5 DEF Owned
<1>4. Accounted'
  <2> SUFFICES ASSUME exstatus' = exstatus, exstatus \notin {65, 126}, L = Ends(c),
                      Habits \cap {"noexec", "unused"} = {}, NEW x \in open \ L
               PROVE  \/ x \in Spare \/ \E k \in Records : x \in Ends(cmds'[k])
                      \/ \E i \in Ids : x \in Threaded(i)
    BY <1>1 DEF Accounted
  <2>1. \/ x \in Spare \/ \E k \in Records : x \in Ends(cmds[k])
        \/ \E i \in Ids : x \in Threaded(i)
    BY DEF OwnInv, Accounted
  <2>2. ASSUME NEW k \in Records, x \in Ends(cmds[k]) PROVE x \in Ends(cmds'[k])
    BY <1>1, <2>2
  <2> QED BY <2>1, <2>2
<1> QED BY <1>3, <1>4

LEMMA SpawnForkOwns ==
    ASSUME ScriptInv, Barrier, OwnInv, SpawnFork
    PROVE  OwnInv'
<1>1. Spawn(FALSE) /\ Forks /\ CloseInherited
  BY DEF SpawnFork
<1>2. PICK d : d = c.id
  OBVIOUS
<1>3. open' = open \ Ends(c) /\ ~misclosed'
  BY <1>1, CloseInheritedCloses
<1>4. /\ d \in Ids /\ Threaded(d) = {} /\ Threaded(d)' = {}
      /\ \A i \in Ids : i # d => Threaded(i)' = Threaded(i)
      /\ Tasks'
  BY <1>1, <1>2, SpawnedThread
<1>5. /\ Spent' /\ Meant' /\ Tags' /\ phase' = "spawn" /\ Spare' = Spare /\ Made' = Made
      /\ \A k \in Records' : Fit(cmds[k])'
  BY <1>1, <1>3, SpawnRest
<1>6. /\ next <= Len(cmds) /\ cmds' = [cmds EXCEPT ![next] = Emptied(c)] /\ forkonly' = forkonly
      /\ exstatus' = exstatus
  BY <1>1 DEF Spawn, Spawning
<1>7. \A i \in Ids : Threaded(i)' = Threaded(i)
  BY <1>4
<1>8. Owned' /\ Accounted'
  BY <1>3, <1>5, <1>6, <1>7, EmptiedOwned
<1> QED BY <1>4, <1>5, <1>8 DEF OwnInv

LEMMA SpawnFailsOwns ==
    ASSUME ScriptInv, OwnInv, SpawnFails
    PROVE  OwnInv'
<1>1. /\ Forks /\ CloseInherited /\ phase = "spawn" /\ phase' = "wait" /\ exstatus' = 126 /\ next' = 1
      /\ next <= Len(cmds) /\ cmds' = [cmds EXCEPT ![next] = Emptied(c)]
      /\ UNCHANGED <<base, npipes, redirected, src, dst, stdin_fd, map, add_map, building, forkonly>>
      /\ UNCHANGED <<state, task, thread>>
  BY DEF SpawnFails, Forks, Spawning, hookupVars, scriptVars, procVars
<1>2. open' = open \ Ends(c) /\ ~misclosed'
  BY <1>1, CloseInheritedCloses
<1>3. Spare' = Spare /\ Made' = Made
  BY <1>1 DEF Spare, SymbolFds, Made
<1>4. (\A i \in Ids : Threaded(i)' = Threaded(i)) /\ Tasks'
  BY <1>1, NobodyMoves DEF OwnInv
<1>5. Owned' /\ Accounted'
  BY <1>1, <1>2, <1>3, <1>4, EmptiedOwned
<1>6. Records' = Records /\ \A k \in Records' : Fit(cmds[k])'
  BY <1>1, EmptiedRecords
<1>7. Spent'
  <2>1. \A k \in Records' : ~(k < next')
    BY <1>1 DEF Records
  <2> QED BY <1>1, <2>1 DEF Spent
<1>8. Meant'
  <2>1. Len(cmds') = Len(cmds)
    BY <1>1, EmptiedRecord
  <2> QED BY <1>1, <1>2, <2>1 DEF OwnInv, Meant
<1>9. Tags'
  BY <1>1, TagsStay
<1> QED BY <1>1, <1>4, <1>5, <1>6, <1>7, <1>8, <1>9 DEF OwnInv

-----------------------------------------------------------------------------
(***************************************************************************)
(* They are waited for.                                                    *)
(***************************************************************************)

LEMMA WaitNextOwns ==
    ASSUME ScriptInv, OwnInv, WaitNext
    PROVE  OwnInv'
<1> DEFINE L == lost \ {-1, Err}
<1>1. /\ phase = "wait" /\ phase' = "wait" /\ next' = next + 1
      /\ next <= Len(cmds) /\ cmds' = [cmds EXCEPT ![next] = Emptied(c)]
      /\ open' = open \ L /\ misclosed' = (misclosed \/ ~(L \subseteq open))
      /\ UNCHANGED <<base, npipes, redirected, src, dst, stdin_fd, map, add_map, building, exstatus, forkonly>>
      /\ UNCHANGED <<state, task, thread>>
  BY DEF WaitNext, CloseFds, hookupVars, scriptVars, procVars
<1>2. /\ next \in Records /\ c = cmds[next] /\ Records' = Records
      /\ \A k \in Records : Ends(cmds'[k]) = (IF k = next THEN {} ELSE Ends(cmds[k]))
      /\ \A k \in Records' : Fit(cmds[k])'
  BY <1>1, EmptiedRecords
<1>3. L \subseteq Ends(c)
  BY DEF lost, Ends
<1> HIDE DEF L
<1>4. ~misclosed'
  <2>1. Ends(c) \subseteq open /\ ~misclosed
    BY <1>2 DEF OwnInv, Owned
  <2> QED BY <1>1, <1>3, <2>1
<1>5. Spare' = Spare /\ Made' = Made
  BY <1>1 DEF Spare, SymbolFds, Made
<1>6. (\A i \in Ids : Threaded(i)' = Threaded(i)) /\ Tasks'
  BY <1>1, NobodyMoves DEF OwnInv
<1>7. exstatus' \in {65, 126} \/ (exstatus' = exstatus /\ L = Ends(c))
  <2>1. exstatus \notin {65, 126} => Ends(c) = {}
    BY <1>1, <1>2 DEF OwnInv, Spent
  <2> QED BY <1>1, <1>3, <2>1
<1>8. Owned' /\ Accounted'
  BY <1>1, <1>3, <1>4, <1>5, <1>6, <1>7, EmptiedOwned
<1>9. Spent'
  <2>1. ASSUME NEW k \in Records PROVE k < next' => k < next \/ k = next
    BY <1>1, <1>2 DEF Records
  <2>2. ASSUME NEW k \in Records, k < next' \/ exstatus \notin {65, 126} PROVE Ends(cmds'[k]) = {}
    BY <1>1, <1>2, <2>1, <2>2 DEF OwnInv, Spent
  <2>3. "dangling" \notin Habits /\ exstatus \notin {65, 126} => \A n \in Names : ~Taken(n)'
    BY <1>1 DEF OwnInv, Spent, Taken
  <2> QED BY <1>1, <1>2, <2>2, <2>3 DEF OwnInv, Spent
<1>10. Meant'
  <2>1. Len(cmds') = Len(cmds)
    BY <1>1, EmptiedRecord
  <2> QED BY <1>1, <2>1 DEF OwnInv, Meant
<1>11. Tags'
  BY <1>1, TagsStay
<1> QED BY <1>1, <1>2, <1>6, <1>8, <1>9, <1>10, <1>11 DEF OwnInv

LEMMA EndLoopOwns ==
    ASSUME ScriptInv, OwnInv, EndLoop
    PROVE  OwnInv'
<1> DEFINE L == {stdin_fd, Out} \ {-1}
<1>1. /\ phase = "wait" /\ exstatus' = (IF exstatus = 0 THEN Failures ELSE exstatus)
      /\ \/ phase' = "setup" /\ exstatus' = 0 /\ UNCHANGED <<stdin_fd, open, misclosed>>
         \/ /\ phase' = "exit" /\ stdin_fd' = -1
            /\ open' = open \ L /\ misclosed' = (misclosed \/ ~(L \subseteq open))
      /\ base' = base + Len(cmds) /\ cmds' = <<>> /\ next' = 1
      /\ UNCHANGED <<building, add_map, map, npipes, redirected, src, dst, forkonly>>
      /\ UNCHANGED <<state, task, thread>>
  BY DEF EndLoop, CloseFds, scriptVars, procVars
<1> HIDE DEF L
<1>2. Len(cmds') = 0 /\ Records' = {} /\ Made' = Made
  BY <1>1 DEF Records, Made
<1>3. base \in Nat /\ Len(cmds) \in Nat /\ base' = base + Len(cmds)
  BY <1>1, Unchanged
<1>4. (\A i \in Ids : Threaded(i)' = Threaded(i)) /\ Tasks'
  BY <1>1, NobodyMoves DEF OwnInv
<1>5. exstatus' \notin {65, 126} => exstatus \notin {65, 126}
  BY <1>1
<1>6. exstatus \notin {65, 126} => \A k \in Records : Ends(cmds[k]) = {}
  BY <1>1 DEF OwnInv, Spent
<1>7. SymbolFds(map)' = SymbolFds(map) /\ SymbolFds(add_map)' = SymbolFds(add_map)
  BY <1>1 DEF SymbolFds
<1>8. \/ phase' = "setup" /\ open' = open /\ Spare' = Spare /\ misclosed' = misclosed
      \/ phase' = "exit" /\ open' = open \ L /\ Spare' = Spare \ L /\ L \subseteq Spare
         /\ misclosed' = (misclosed \/ ~(L \subseteq open))
  <2>1. CASE phase' = "setup"
    BY <1>1, <1>7, <2>1 DEF Spare
  <2>2. CASE phase' = "exit"
    <3>1. /\ Spare = SymbolFds(map) \cup SymbolFds(add_map) \cup L
          /\ Spare' = SymbolFds(map) \cup SymbolFds(add_map)
      <4>1. Out # -1
        BY DEF Out
      <4> QED BY <1>1, <1>7, <2>2, <4>1 DEF Spare, L
    <3>2. \A x \in SymbolFds(map) : x \notin L
      <4> SUFFICES ASSUME NEW n \in Names, map[n].kind \in Streams PROVE map[n].fd \notin L
        BY DEF SymbolFds
      <4>1. map[n].fd # Out /\ (map[n].fd = In => stdin_fd = -1) /\ stdin_fd \in {In, -1}
        BY KnownFd DEF ScriptInv, Typed
      <4> QED BY <4>1 DEF L
    <3>3. \A x \in SymbolFds(add_map) : x \notin L
      <4> SUFFICES ASSUME NEW n \in Names, add_map[n].kind \in Streams PROVE add_map[n].fd \notin L
        BY DEF SymbolFds
      <4>1. PICK p \in 1 .. npipes : add_map[n].fd \in {R(p), W(p)}
        <5>1. add_map[n] # NoSym
          BY NoSymFacts
        <5> QED BY <5>1 DEF ScriptInv, DeclaredFit, Created, Streams
      <4>2. p \in Nat \ {0}
        BY DEF ScriptInv, Typed
      <4>3. R(p) > 4 /\ W(p) > 4
        BY <4>2 DEF R, W
      <4>4. stdin_fd \in {In, -1}
        BY DEF ScriptInv, Typed
      <4> QED BY <4>1, <4>3, <4>4 DEF L, In, Out
    <3> QED BY <1>1, <2>2, <3>1, <3>2, <3>3
  <2> QED BY <1>1, <2>1, <2>2
<1>9. Owned
  BY DEF OwnInv
<1>10. Owned'
  <2>1. Spare \subseteq open /\ open \subseteq Made /\ ~misclosed
    BY <1>9 DEF Owned
  <2>2. \A i \in Ids : Threaded(i) \subseteq open /\ Threaded(i) \cap Spare = {}
    BY <1>9 DEF Owned
  <2>3. \A i, j \in Ids : i # j => Threaded(i) \cap Threaded(j) = {}
    BY <1>9 DEF Owned
  <2>4. open' \subseteq Made /\ Spare' \subseteq open'
    BY <1>8, <2>1
  <2>5. ~misclosed'
    <3>1. L \subseteq Spare => L \subseteq open
      BY <2>1
    <3> QED BY <1>8, <2>1, <3>1
  <2>6. \A i \in Ids : Threaded(i) \subseteq open' /\ Threaded(i) \cap Spare' = {}
    BY <1>8, <2>2
  <2> QED BY <1>2, <1>4, <2>3, <2>4, <2>5, <2>6 DEF Owned
<1>11. Accounted'
  <2> SUFFICES ASSUME exstatus' \notin {65, 126}, Habits \cap {"noexec", "unused"} = {}, NEW x \in open'
               PROVE  x \in Spare' \/ \E i \in Ids : x \in Threaded(i)
    BY <1>4 DEF Accounted
  <2>1. x \in open /\ (x \in Spare => x \in Spare')
    BY <1>8
  <2>2. x \in Spare \/ \E i \in Ids : x \in Threaded(i)
    BY <1>5, <1>6, <2>1 DEF OwnInv, Accounted
  <2> QED BY <2>1, <2>2
<1>12. \A k \in Records' : Fit(cmds[k])'
  BY <1>2
<1>13. Spent'
  <2>1. exstatus' \notin {65, 126} => ~building'
    BY <1>1, <1>5 DEF OwnInv, Spent
  <2>2. "dangling" \notin Habits /\ exstatus' \notin {65, 126} => \A n \in Names : ~Taken(n)'
    BY <1>1, <1>5 DEF OwnInv, Spent, Taken
  <2> QED BY <1>1, <1>2, <2>1, <2>2 DEF Spent
<1>14. Meant'
  <2>1. base' + Len(cmds') = base + Len(cmds)
    BY <1>2, <1>3
  <2>2. open' \subseteq open
    BY <1>8
  <2> QED BY <1>1, <2>1, <2>2 DEF OwnInv, Meant
<1>15. Tags'
  BY <1>1, TagsStay
<1>16. Wired'
  <2>1. \A n \in Names : Tagged(map[n], src, dst)' /\ Tagged(add_map[n], src, dst)'
    BY <1>15 DEF Tags
  <2>2. \A n \in Names : /\ WrittenBy(map'[n], cmds') /\ WrittenBy(add_map'[n], cmds')
                         /\ Defined(map'[n], cmds')
    <3>1. 1 .. Len(cmds') = {}
      BY <1>2
    <3> QED BY <3>1 DEF WrittenBy, Defined
  <2> QED BY <1>2, <2>1, <2>2 DEF Wired
<1> QED BY <1>4, <1>10, <1>11, <1>12, <1>13, <1>14, <1>15, <1>16 DEF OwnInv

-----------------------------------------------------------------------------
(***************************************************************************)
(* They run.                                                               *)
(***************************************************************************)

LEMMA CommandMoves ==
    ASSUME ScriptInv, OwnInv, NEW i \in Ids, UNCHANGED commandUnchanged, NEW S, Gone(i, S),
           thread[i] => S \subseteq Held(i), Threaded(i)' \subseteq Threaded(i) \ S,
           Habits \cap {"noexec", "unused"} = {} => Threaded(i) \subseteq Threaded(i)' \cup S,
           \A j \in Ids : j # i => Threaded(j)' = Threaded(j), Tasks'
    PROVE  OwnInv'
<1> DEFINE L == IF thread[i] THEN S ELSE {}
<1>1. UNCHANGED <<phase, building, cmds, base, add_map, map, stdin_fd, npipes, redirected, src, dst,
                  exstatus, forkonly, next>>
  BY DEF commandUnchanged, hookupVars, scriptVars
<1>2. /\ open' = open \ L /\ L \subseteq Threaded(i)
      /\ \/ misclosed' = misclosed
         \/ misclosed' = (misclosed \/ ~(L \subseteq open))
  <2>1. CASE thread[i]
    BY <2>1 DEF Gone, CloseFds, Threaded
  <2>2. CASE ~thread[i]
    BY <2>2 DEF Gone
  <2> QED BY <2>1, <2>2
<1>3. /\ Threaded(i)' \subseteq Threaded(i) \ L
      /\ Habits \cap {"noexec", "unused"} = {} => Threaded(i) \subseteq Threaded(i)' \cup L
  <2>1. ~thread[i] => Threaded(i) = {}
    BY DEF Threaded
  <2> QED BY <2>1
<1> HIDE DEF L
<1>4. Records' = Records /\ Made' = Made /\ Spare' = Spare
  BY <1>1 DEF Records, Made, Spare, SymbolFds
<1>5. Owned
  BY DEF OwnInv
<1>6. ~misclosed'
  <2>1. L \subseteq open /\ ~misclosed
    BY <1>2, <1>5 DEF Owned
  <2> QED BY <1>2, <2>1
<1>7. Owned'
  <2>1. Threaded(i) \subseteq open /\ Threaded(i) \cap Spare = {}
    BY <1>5 DEF Owned
  <2>2. \A j \in Ids : Threaded(j)' \subseteq open \ L /\ Threaded(j)' \cap Spare = {}
    BY <1>2, <1>3, <1>5 DEF Owned
  <2>3. \A k \in Records : Ends(cmds[k]) \subseteq open \ L /\ Ends(cmds[k]) \cap Spare = {}
    BY <1>2, <1>5 DEF Owned
  <2>4. \A j \in Ids, k \in Records : Threaded(j)' \cap Ends(cmds[k]) = {}
    BY <1>3, <1>5 DEF Owned
  <2>5. \A j, k \in Ids : j # k => Threaded(j)' \cap Threaded(k)' = {}
    BY <1>3, <1>5 DEF Owned
  <2>6. /\ open \ L \subseteq Made /\ Spare \subseteq open \ L
        /\ \A k, l \in Records : k # l => Ends(cmds[k]) \cap Ends(cmds[l]) = {}
    BY <1>2, <1>5, <2>1 DEF Owned
  <2> QED BY <1>1, <1>2, <1>4, <1>6, <2>2, <2>3, <2>4, <2>5, <2>6 DEF Owned
<1>8. Accounted'
  <2> SUFFICES ASSUME exstatus \notin {65, 126}, Habits \cap {"noexec", "unused"} = {}, NEW x \in open \ L
               PROVE  \/ x \in Spare \/ \E k \in Records : x \in Ends(cmds[k])
                      \/ \E j \in Ids : x \in Threaded(j)'
    BY <1>1, <1>2, <1>4 DEF Accounted
  <2>1. \/ x \in Spare \/ \E k \in Records : x \in Ends(cmds[k])
        \/ \E j \in Ids : x \in Threaded(j)
    BY DEF OwnInv, Accounted
  <2>2. ASSUME NEW j \in Ids, x \in Threaded(j) PROVE x \in Threaded(j)'
    BY <1>3, <2>2
  <2> QED BY <2>1, <2>2
<1>9. \A k \in Records' : Fit(cmds[k])'
  BY <1>1, <1>4 DEF OwnInv, Fit
<1>10. Spent'
  BY <1>1, <1>4 DEF OwnInv, Spent, Taken
<1>11. Meant'
  BY <1>1, <1>2 DEF OwnInv, Meant
<1>12. Tags'
  BY <1>1, TagsStay
<1>13. phase = "setup" => Wired'
  <2> SUFFICES ASSUME phase = "setup" PROVE Wired'
    OBVIOUS
  <2>1. Wired
    BY DEF OwnInv
  <2>2. \A n \in Names : /\ WrittenBy(map[n], cmds)' /\ WrittenBy(add_map[n], cmds)' /\ Defined(map[n], cmds)'
                         /\ Tagged(map[n], src, dst)' /\ Tagged(add_map[n], src, dst)'
    BY <1>1, <2>1 DEF Wired, WrittenBy, Defined, Tagged
  <2>3. \A k \in Records' : Told(cmds[k])'
    BY <1>1, <1>4, <2>1 DEF Wired, Told
  <2> QED BY <1>1, <1>4, <2>1, <2>2, <2>3 DEF Wired
<1> QED BY <1>1, <1>7, <1>8, <1>9, <1>10, <1>11, <1>12, <1>13 DEF OwnInv

\* What a live command gathers, and what its record names.
LEMMA TaskFacts ==
    ASSUME OwnInv, NEW i \in Ids, Live(i)
    PROVE  /\ task[i] \in Commands /\ Gathers(task[i]) \subseteq Ends(task[i])
           /\ task[i].exit_fds \subseteq Ends(task[i]) /\ {task[i].exec_fd, task[i].status_fd} \ {-1} \subseteq Ends(task[i])
<1> DEFINE t == task[i]
<1>1. /\ t \in Commands /\ t.exit_fds \subseteq ToSet(t.os)
      /\ t.exec_fd # -1 => t.exec_fd \in ToSet(t.is)
  BY DEF OwnInv, Tasks
<1> HIDE DEF t
<1>2. /\ Ends(t) = ({t.stdis, t.stdos, t.status_fd} \ {-1, Err}) \cup Files(t)
      /\ -1 \notin Fds /\ Err \notin Fds
  BY <1>1, EndsFacts
<1>3. t.status_fd # -1 => t.status_fd \in Ends(t)
  <2>1. t.status_fd \in Fds \cup {-1}
    BY <1>1 DEF Commands
  <2> QED BY <1>2, <2>1
<1>4. Gathers(t) \subseteq Ends(t) /\ t.exit_fds \subseteq Ends(t) /\ {t.exec_fd, t.status_fd} \ {-1} \subseteq Ends(t)
  BY <1>1, <1>2, <1>3 DEF Gathers, Files
<1> QED BY <1>1, <1>4 DEF t

LEMMA GatheredOwns ==
    ASSUME ScriptInv, OwnInv, NEW i \in Ids, Gathered(i)
    PROVE  OwnInv'
<1>1. /\ state[i] = "gather" /\ Gone(i, Gathers(task[i])) /\ UNCHANGED commandUnchanged
      /\ state' = [state EXCEPT ![i] = "run"] /\ UNCHANGED <<task, thread>>
  BY DEF Gathered
<1>2. Live(i)
  BY <1>1 DEF Live
<1>3. state \in [Ids -> States]
  BY DEF ScriptInv, Typed
<1>4. state'[i] = "run" /\ \A j \in Ids : j # i => state'[j] = state[j]
  BY <1>1, <1>3
<1>5. Held(i) = Ends(task[i]) /\ Held(i)' = Ends(task[i]) \ Gathers(task[i])
  BY <1>1, <1>4 DEF Held
<1>6. \A j \in Ids : j # i => Threaded(j)' = Threaded(j)
  BY <1>1, <1>4 DEF Threaded, Held
<1>7. Threaded(i)' = Threaded(i) \ Gathers(task[i])
  BY <1>1, <1>5 DEF Threaded
<1>8. Tasks'
  <2>1. \A j \in Ids : Live(j)' => Live(j)
    BY <1>2, <1>4 DEF Live
  <2> QED BY <1>1, <2>1 DEF OwnInv, Tasks
<1>9. Gathers(task[i]) \subseteq Held(i)
  BY <1>2, <1>5, TaskFacts
<1> QED BY <1>1, <1>6, <1>7, <1>8, <1>9, CommandMoves

\* A command that ends.
LEMMA EndOwns ==
    ASSUME ScriptInv, OwnInv, NEW i \in Ids, NEW S, End(i, S), S \subseteq Held(i),
           Habits \cap {"noexec", "unused"} = {} => Threaded(i) \subseteq S
    PROVE  OwnInv'
<1>1. /\ Gone(i, S) /\ UNCHANGED commandUnchanged
      /\ state' = [state EXCEPT ![i] = "ended"]
      /\ task' = [task EXCEPT ![i] = NoTask]
      /\ thread' = [thread EXCEPT ![i] = FALSE]
  BY DEF End
<1>2. state \in [Ids -> States] /\ thread \in [Ids -> BOOLEAN] /\ DOMAIN task = Ids
  BY DEF ScriptInv, Typed, OwnInv, Tasks
<1>3. /\ state'[i] = "ended" /\ thread'[i] = FALSE /\ DOMAIN task' = Ids
      /\ \A j \in Ids : j # i => state'[j] = state[j] /\ thread'[j] = thread[j] /\ task'[j] = task[j]
  BY <1>1, <1>2
<1>4. Threaded(i)' = {}
  BY <1>3 DEF Threaded
<1>5. \A j \in Ids : j # i => Threaded(j)' = Threaded(j)
  BY <1>3 DEF Threaded, Held
<1>6. Tasks'
  <2>1. \A j \in Ids : Live(j)' => Live(j) /\ task'[j] = task[j]
    BY <1>3 DEF Live
  <2> QED BY <1>3, <2>1 DEF OwnInv, Tasks
<1> QED BY <1>1, <1>4, <1>5, <1>6, CommandMoves

LEMMA CommandOwns ==
    ASSUME ScriptInv, OwnInv, NEW i \in Ids, Command(i)
    PROVE  OwnInv'
<1>1. CASE Gathered(i)
  BY <1>1, GatheredOwns
<1>2. CASE GatherFails(i)
  <2> DEFINE S == ({task[i].exec_fd, task[i].status_fd} \ {-1}) \union task[i].exit_fds
  <2>1. "noexec" \in Habits /\ state[i] = "gather" /\ End(i, S)
    BY <1>2 DEF GatherFails
  <2>2. S \subseteq Ends(task[i]) /\ Held(i) = Ends(task[i])
    <3>1. Live(i)
      BY <2>1 DEF Live
    <3> QED BY <2>1, <3>1, TaskFacts DEF Held
  <2> HIDE DEF S
  <2> QED BY <2>1, <2>2, EndOwns
<1>3. CASE CommandEnds(i)
  <2>1. End(i, Held(i))
    BY <1>3 DEF CommandEnds
  <2>2. Threaded(i) \subseteq Held(i)
    BY DEF Threaded
  <2> QED BY <2>1, <2>2, EndOwns
<1>4. CASE DefinitionFails(i)
  <2>1. state[i] = "run" /\ thread[i] /\ task[i].kind = "DefCommand" /\ task[i].os = <<>> /\ End(i, {})
    BY <1>4 DEF DefinitionFails, Unused
  <2>2. "unused" \in Habits
    BY <2>1 DEF OwnInv, Tasks, Live
  <2> QED BY <2>1, <2>2, EndOwns
<1> QED BY <1>1, <1>2, <1>3, <1>4 DEF Command

-----------------------------------------------------------------------------
(***************************************************************************)
(* The invariant, and what follows.                                        *)
(***************************************************************************)

LEMMA OwnStart == Init => OwnInv
<1> SUFFICES ASSUME Init PROVE OwnInv
  OBVIOUS
<1>1. /\ phase = "setup" /\ building = FALSE /\ cmds = <<>> /\ base = 0 /\ next = 1
      /\ \A n \in Names : map[n] = NoSym /\ add_map[n] = NoSym
      /\ stdin_fd \in {In, -1} /\ npipes = 0 /\ redirected = {} /\ misclosed = FALSE
      /\ open = {stdin_fd, Out} \ {-1}
      /\ \A p \in Pipes : src[p] = Nobody /\ dst[p] = Nobody
      /\ \A i \in Ids : state[i] = "none" /\ thread[i] = FALSE
      /\ DOMAIN task = Ids
  BY DEF Init, WiringInit, NoEnds
<1>2. Records = {} /\ Len(cmds) = 0
  BY <1>1 DEF Records
<1>3. SymbolFds(map) = {} /\ SymbolFds(add_map) = {}
  BY <1>1, NoSymFacts DEF SymbolFds
<1>4. Out # -1 /\ Out = 4
  BY DEF Out
<1>5. Spare = {stdin_fd, Out} \ {-1}
  BY <1>1, <1>3, <1>4 DEF Spare
<1>6. \A i \in Ids : Threaded(i) = {} /\ ~Live(i)
  BY <1>1 DEF Threaded, Live
<1>7. open \subseteq Made
  BY <1>1 DEF Made
<1>8. Owned
  BY <1>1, <1>2, <1>5, <1>6, <1>7 DEF Owned
<1>9. Accounted
  BY <1>1, <1>5 DEF Accounted
<1>10. Tasks
  BY <1>1, <1>6 DEF Tasks
<1>11. Spent
  BY <1>1 DEF Spent
<1>12. Meant
  BY <1>1, <1>2, Codes DEF Meant
<1>13. Wired
  BY <1>1, <1>2, NoSymFacts DEF Wired
<1> QED BY <1>1, <1>2, <1>8, <1>9, <1>10, <1>11, <1>12, <1>13 DEF OwnInv

LEMMA OwnStay ==
    ASSUME OwnInv, UNCHANGED vars
    PROVE  OwnInv'
<1>1. UNCHANGED <<phase, building, cmds, base, add_map, map, stdin_fd, npipes, redirected, src, dst, open, misclosed,
                  exstatus, forkonly, next, state, task, thread>>
  BY DEF vars, wiringVars, procVars, hookupVars, streamVars, scriptVars
<1>2. Spare' = Spare /\ Records' = Records
  BY <1>1 DEF Spare, SymbolFds, Records
<1>3. Owned' /\ Accounted' /\ (\A k \in Records' : Fit(cmds[k])') /\ Tasks' /\ Meant'
  BY <1>1, <1>2, NothingMoves
<1>4. Spent' /\ (phase' = "setup" => Wired')
  <2>1. Spent'
    BY <1>1, <1>2 DEF OwnInv, Spent, Taken
  <2>2. ASSUME phase = "setup" PROVE Wired'
    <3>1. \A n \in Names : /\ WrittenBy(map[n], cmds)' /\ WrittenBy(add_map[n], cmds)' /\ Defined(map[n], cmds)'
                           /\ Tagged(map[n], src, dst)' /\ Tagged(add_map[n], src, dst)'
      BY <1>1, <2>2 DEF OwnInv, Wired, WrittenBy, Defined, Tagged
    <3>2. \A k \in Records' : Told(cmds[k])'
      BY <1>1, <1>2, <2>2 DEF OwnInv, Wired, Told
    <3> QED BY <1>1, <1>2, <2>2, <3>1, <3>2 DEF OwnInv, Wired
  <2> QED BY <1>1, <2>1, <2>2
<1>5. Tags'
  BY <1>1, TagsStay
<1> QED BY <1>1, <1>3, <1>4, <1>5 DEF OwnInv

LEMMA OwnStep ==
    ASSUME Sensible, ScriptInv, ScriptInv', Barrier, OwnInv, [Next]_vars
    PROVE  OwnInv'
<1>1. CASE SetupStep
  BY <1>1, SetupOwns
<1>2. CASE Loop
  BY <1>2, SpawnSkipOwns, SpawnThreadOwns, SpawnForkOwns, SpawnFailsOwns, EndSpawnOwns, WaitNextOwns, EndLoopOwns
     DEF Loop
<1>3. CASE \E i \in Ids : Command(i)
  BY <1>3, CommandOwns
<1>4. CASE UNCHANGED vars
  BY <1>4, OwnStay
<1> QED BY <1>1, <1>2, <1>3, <1>4 DEF Next, Terminated

\* The streams of a section that is about to be spawned.
LEMMA StreamsReady ==
    ASSUME ScriptInv, OwnInv, phase = "setup"
    PROVE  LET section == {cmds[k].id : k \in 1..Len(cmds)} IN
           /\ \A p \in Pipes : src[p] \in section =>
                LET k == cmds[src[p] - base] IN
                IF dst[p] = ToStderr
                THEN W(p) \notin open /\ Err \in {k.stdos} \union ToSet(k.args)
                ELSE /\ W(p) \in Ends(k) \intersect open
                     /\ dst[p] = ToStdout <=> W(p) \in redirected
           /\ \A p \in Pipes : dst[p] \in section => R(p) \in Ends(cmds[dst[p] - base]) \intersect open
           /\ \A k \in 1..Len(cmds) :
                /\ \A p \in Pipes : /\ W(p) \in Ends(cmds[k]) => src[p] = cmds[k].id
                                    /\ R(p) \in Ends(cmds[k]) => dst[p] = cmds[k].id
                /\ ToSet(cmds[k].args) \ {0, Err} \subseteq Ends(cmds[k])
                /\ cmds[k].exit_fds \subseteq ToSet(cmds[k].os)
<1> DEFINE section == {cmds[k].id : k \in 1..Len(cmds)}
<1>1. /\ base \in Nat /\ Len(cmds) \in Nat
      /\ \A k \in Records : cmds[k].id = base + k /\ cmds[k] \in Commands /\ Told(cmds[k]) /\ Fit(cmds[k])
  BY BeforeLine
<1>2. ASSUME NEW i \in section PROVE i - base \in Records /\ i = base + (i - base)
  <2>1. PICK k \in Records : i = base + k
    BY <1>1, <1>2 DEF Records
  <2>2. k \in Int /\ (base + k) - base = k
    BY <1>1 DEF Records
  <2> QED BY <2>1, <2>2
<1>3. Wired /\ Meant /\ Owned
  BY DEF OwnInv
<1>4. ASSUME NEW p \in Pipes, src[p] \in section
      PROVE  IF dst[p] = ToStderr
             THEN W(p) \notin open /\ Err \in {cmds[src[p] - base].stdos} \union ToSet(cmds[src[p] - base].args)
             ELSE /\ W(p) \in Ends(cmds[src[p] - base]) \intersect open
                  /\ dst[p] = ToStdout <=> W(p) \in redirected
  <2> DEFINE k == src[p] - base
  <2>1. k \in Records /\ src[p] = base + k
    BY <1>2, <1>4
  <2> HIDE DEF k
  <2>2. /\ IF dst[p] = ToStderr THEN Err \in {cmds[k].stdos} \cup ToSet(cmds[k].args) ELSE W(p) \in Ends(cmds[k])
        /\ dst[p] = ToStderr => W(p) \notin open
        /\ dst[p] = ToStdout <=> W(p) \in redirected
        /\ Ends(cmds[k]) \subseteq open
    BY <1>3, <2>1 DEF Wired, Meant, Owned
  <2>3. IF dst[p] = ToStderr
        THEN W(p) \notin open /\ Err \in {cmds[k].stdos} \union ToSet(cmds[k].args)
        ELSE /\ W(p) \in Ends(cmds[k]) \intersect open
             /\ dst[p] = ToStdout <=> W(p) \in redirected
    BY <2>2
  <2> QED BY <2>3 DEF k
<1>5. ASSUME NEW p \in Pipes, dst[p] \in section
      PROVE  R(p) \in Ends(cmds[dst[p] - base]) \intersect open
  <2> DEFINE k == dst[p] - base
  <2>1. k \in Records /\ dst[p] = base + k
    BY <1>2, <1>5
  <2> HIDE DEF k
  <2>2. R(p) \in Ends(cmds[k]) /\ Ends(cmds[k]) \subseteq open
    BY <1>3, <2>1 DEF Wired, Owned
  <2> QED BY <2>2 DEF k
<1>6. ASSUME NEW k \in Records
      PROVE  /\ \A p \in Pipes : /\ W(p) \in Ends(cmds[k]) => src[p] = cmds[k].id
                                 /\ R(p) \in Ends(cmds[k]) => dst[p] = cmds[k].id
             /\ ToSet(cmds[k].args) \ {0, Err} \subseteq Ends(cmds[k])
             /\ cmds[k].exit_fds \subseteq ToSet(cmds[k].os)
  <2>1. /\ \A p \in Pipes : /\ W(p) \in Ends(cmds[k]) => src[p] = cmds[k].id
                            /\ R(p) \in Ends(cmds[k]) => dst[p] = cmds[k].id
    BY <1>1, <1>3 DEF Wired
  <2>2. ToSet(cmds[k].is) \cup ToSet(cmds[k].os) \subseteq Ends(cmds[k])
    BY <1>1, EndsFacts
  <2>3. ToSet(cmds[k].args) \ {0, Err} \subseteq ToSet(cmds[k].is) \cup ToSet(cmds[k].os)
    BY <1>1 DEF Told
  <2>4. cmds[k].exit_fds \subseteq ToSet(cmds[k].os)
    BY <1>1 DEF Fit
  <2> QED BY <2>1, <2>2, <2>3, <2>4
<1> HIDE DEF section
<1> QED BY <1>4, <1>5, <1>6 DEF section, Records

LEMMA StreamsStep ==
    ASSUME ScriptInv, Barrier, OwnInv, StreamsAsWritten, [Next]_vars
    PROVE  StreamsAsWritten'
<1> SUFFICES ASSUME phase' = "spawn", next' = 1 PROVE StreamsAsWritten'
  BY DEF StreamsAsWritten
<1>1. next \in Nat /\ next # 0 /\ base \in Nat /\ Len(cmds) \in Nat
  BY Unchanged
<1>2. CASE EndSection
  <2>1. phase = "setup" /\ UNCHANGED <<cmds, base, src, dst, open, redirected>>
    BY <1>2 DEF EndSection, streamVars, scriptVars
  <2> QED BY <2>1, StreamsReady DEF StreamsAsWritten, Section, CommandOf
<1>3. CASE SetupStep /\ ~EndSection
  <2>1. LineFrame /\ Setup
    BY <1>3 DEF SetupStep, Setup, LineFrame, procVars
  <2>2. ASSUME NEW n \in Names, Argument(n) PROVE phase' = "setup"
    BY <2>1, <2>2, ArgumentRests DEF ArgumentRest, ArgumentFrame
  <2>3. ASSUME NEW n \in Names, Line(n) PROVE phase' = "setup"
    BY <2>3 DEF Line, Define, HereDoc, Stdin, Stdout, Stderr, NextCommand
  <2>4. ASSUME BeginCommand \/ EndCommand \/ Refuse \/ \E refused \in BOOLEAN : StdoutInVain(refused)
        PROVE  phase' \in {"setup", "wait"}
    BY <2>4 DEF BeginCommand, NextCommand, EndCommand, Refuse, StdoutInVain
  <2> QED BY <1>3, <2>1, <2>2, <2>3, <2>4 DEF Setup
<1>4. CASE Loop
  <2>1. ASSUME SpawnSkip \/ SpawnThread \/ SpawnFork PROVE next' = next + 1
    BY <2>1 DEF SpawnSkip, SpawnThread, SpawnFork, Spawn
  <2>2. ASSUME SpawnFails \/ EndSpawn \/ WaitNext \/ EndLoop PROVE phase' # "spawn"
    BY <2>2 DEF SpawnFails, EndSpawn, WaitNext, EndLoop
  <2> QED BY <1>1, <1>4, <2>1, <2>2 DEF Loop
<1>5. CASE \E i \in Ids : Command(i)
  <2>1. PICK i \in Ids : Command(i)
    BY <1>5
  <2>2. phase = "spawn" /\ next = 1 /\ Live(i)
    BY <2>1 DEF Command, Gathered, GatherFails, CommandEnds, DefinitionFails, End, commandUnchanged, Live
  <2>3. i <= base \/ i >= base + next
    BY <1>1, <2>2 DEF Ids
  <2> QED BY <2>2, <2>3 DEF Barrier, Live
<1>6. CASE UNCHANGED vars
  BY <1>6 DEF vars, wiringVars, streamVars, scriptVars, StreamsAsWritten, Section, CommandOf
<1> QED BY <1>2, <1>3, <1>4, <1>5, <1>6 DEF Next, Terminated

LEMMA NothingLeft ==
    ASSUME ScriptInv, OwnInv, Habits \cap {"noexec", "unused", "dangling"} = {}
    PROVE  NothingLeftOpen
<1> SUFFICES ASSUME phase # "setup", exstatus \notin {65, 126}, NEW x \in open
             PROVE  \/ \E k \in 1 .. Len(cmds) : x \in Ends(cmds[k])
                    \/ \E i \in Ids : thread[i] /\ x \in Held(i)
                    \/ phase # "exit" /\ x \in {stdin_fd, Out}
  BY DEF NothingLeftOpen
<1>1. \/ x \in Spare \/ \E k \in Records : x \in Ends(cmds[k])
      \/ \E i \in Ids : x \in Threaded(i)
  BY DEF OwnInv, Accounted
<1>2. /\ ~building /\ \A n \in Names : ~Taken(n)
      /\ phase = "exit" => stdin_fd = -1
  BY DEF OwnInv, Spent
<1>3. SymbolFds(map) = {}
  BY <1>2 DEF SymbolFds, Taken, Streams
<1>4. SymbolFds(add_map) = {}
  <2>1. \A n \in Names : add_map[n] = NoSym
    BY <1>2 DEF ScriptInv, DeclaredFit
  <2> QED BY <2>1, NoSymFacts DEF SymbolFds
<1>5. x \in Spare => phase # "exit" /\ x \in {stdin_fd, Out}
  BY <1>2, <1>3, <1>4 DEF Spare
<1>6. \A i \in Ids : x \in Threaded(i) => thread[i] /\ x \in Held(i)
  BY DEF Threaded
<1> QED BY <1>1, <1>5, <1>6 DEF Records

\* Each open descriptor has one owner, in every script that does not confuse
\* its own streams (Sensible): the invariant behind the three that follow.
THEOREM OwnInvCorrect == Sensible => (Spec => [](OwnInv /\ StreamsAsWritten))
<1> DEFINE Inv == ScriptInv /\ Barrier /\ OwnInv /\ StreamsAsWritten
<1>1. Init => Inv
  <2>1. Init => Barrier /\ StreamsAsWritten
    BY DEF Init, WiringInit, Barrier, Live, StreamsAsWritten
  <2> QED BY <2>1, ScriptStart, OwnStart
<1>2. ASSUME Sensible PROVE Inv /\ [Next]_vars => Inv'
  <2> SUFFICES ASSUME Inv, [Next]_vars PROVE Inv'
    OBVIOUS
  <2>1. ScriptInv' /\ Barrier'
    BY ScriptStep, BarrierStep
  <2>2. OwnInv'
    BY <1>2, <2>1, OwnStep
  <2>3. StreamsAsWritten'
    BY StreamsStep
  <2> QED BY <2>1, <2>2, <2>3
<1>3. ASSUME Sensible PROVE Spec => []Inv
  <2>1. Inv /\ [Next]_vars => Inv'
    BY <1>2, <1>3
  <2> QED BY <1>1, <2>1, PTL DEF Spec
<1>4. ASSUME Sensible PROVE Spec => [](OwnInv /\ StreamsAsWritten)
  <2>1. Spec => []Inv
    BY <1>3, <1>4
  <2>2. Inv => OwnInv /\ StreamsAsWritten
    OBVIOUS
  <2> QED BY <2>1, <2>2, PTL
<1> QED BY <1>4

\* fildesh_compat_fd_close() asserts that the descriptor was open: so it is,
\* wherever in the setup, the spawning, a thread or the wait it is called.
THEOREM NeverClosesTwiceCorrect == Sensible => (Spec => []NeverClosesTwice)
<1>1. OwnInv => NeverClosesTwice
  BY DEF OwnInv, Owned, NeverClosesTwice
<1>2. ASSUME Sensible PROVE Spec => []NeverClosesTwice
  <2>1. Spec => [](OwnInv /\ StreamsAsWritten)
    BY <1>2, OwnInvCorrect
  <2> QED BY <1>1, <2>1, PTL
<1> QED BY <1>2

\* When a section is spawned, each stream connects those that the script
\* connects, and is open for them.
THEOREM StreamsCorrect == Sensible => (Spec => []StreamsAsWritten)
<1>1. ASSUME Sensible PROVE Spec => []StreamsAsWritten
  <2>1. Spec => [](OwnInv /\ StreamsAsWritten)
    BY <1>1, OwnInvCorrect
  <2> QED BY <2>1, PTL
<1> QED BY <1>1

\* While nothing was refused, the shell has nothing open that no command's
\* record or thread is going to close; and nothing when it exits.
THEOREM NothingLeftOpenCorrect ==
    Sensible /\ Habits \cap {"noexec", "unused", "dangling"} = {} => (Spec => []NothingLeftOpen)
<1>1. ASSUME Sensible, Habits \cap {"noexec", "unused", "dangling"} = {} PROVE Spec => []NothingLeftOpen
  <2>1. Spec => [](OwnInv /\ StreamsAsWritten)
    BY <1>1, OwnInvCorrect
  <2>2. ScriptInv /\ OwnInv => NothingLeftOpen
    BY <1>1, NothingLeft
  <2> QED BY <2>1, <2>2, ScriptInvCorrect, PTL
<1> QED BY <1>1
=============================================================================
