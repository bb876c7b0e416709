---------------------------- MODULE LibraryProofs ----------------------------
(***************************************************************************)
(* The parts of the library that are not about trees: the allocator, the   *)
(* search in a text, the arguments of a builtin and the output streams.    *)
(* Each has its own specification and its own invariant, for all the       *)
(* values of its constants.                                                *)
(***************************************************************************)
EXTENDS Alloc, Args, Mascii, Writer, SequenceTheorems, WellFoundedInduction, TLAPS

(***************************************************************************)
(* Alloc: what the allocator hands out never overlaps, for every size of   *)
(* block and of record, whatever addresses malloc() returns and whatever   *)
(* is asked for.                                                           *)
(***************************************************************************)

\* Rounding an address down gives an address that is not above it.
LEMMA BelowNat ==
    ASSUME NEW x \in Nat, NEW a \in Nat \ {0}
    PROVE  Below(x, a) \in Nat /\ Below(x, a) <= x
<1>1. x % a \in 0 .. a - 1 /\ x = a * (x \div a) + (x % a) /\ x \div a \in Nat
  BY SMT
<1>2. a * (x \div a) >= 0
  BY <1>1, SMT
<1> QED BY <1>1, <1>2, SMT DEF Below

\* The rounded address is a multiple of the alignment.
LEMMA BelowAligned ==
    ASSUME NEW x \in Int, NEW a \in Nat \ {0}
    PROVE  Below(x, a) % a = 0
<1>1. x % a \in 0 .. a - 1 /\ x = a * (x \div a) + (x % a) /\ x \div a \in Int
  BY SMT
<1>2. Below(x, a) = a * (x \div a)
  BY <1>1, SMT DEF Below
<1>3. (a * (x \div a)) % a = 0
  BY <1>1, SMT
<1> QED BY <1>2, <1>3

\* Lying apart is symmetric.
LEMMA ApartSymmetric ==
    ASSUME NEW x \in Nat, NEW m \in Nat, NEW y \in Nat, NEW n \in Nat, Apart(x, m, y, n)
    PROVE  Apart(y, n, x, m)
BY DEF Apart

\* What lies within one of two blocks that lie apart is apart from what lies
\* within the other.
LEMMA WithinApart ==
    ASSUME NEW base1 \in Nat, NEW cap1 \in Nat, NEW at1 \in Nat, NEW size1 \in Nat,
           NEW base2 \in Nat, NEW cap2 \in Nat, NEW at2 \in Nat, NEW size2 \in Nat,
           base1 <= at1, at1 + size1 <= base1 + cap1,
           base2 <= at2, at2 + size2 <= base2 + cap2,
           Apart(base1, cap1, base2, cap2)
    PROVE  Apart(at1, size1, at2, size2)
<1>1. CASE base1 + cap1 <= base2
  BY <1>1 DEF Apart
<1>2. CASE base2 + cap2 <= base1
  BY <1>2 DEF Apart
<1> QED BY <1>1, <1>2 DEF Apart

\* At the start there is one region, the record, at the end of the one block.
LEMMA AllocInitInv == AllocInit => AllocInv
<1> SUFFICES ASSUME AllocInit PROVE AllocInv
  OBVIOUS
<1> USE AllocAssumption
<1>1. PICK base \in Bases :
        /\ blocks = <<[base |-> base, cap |-> MinBlock, left |-> FirstLeft]>>
        /\ request = NoRequest
        /\ regions = <<[block |-> 1, at |-> base + FirstLeft, size |-> HeaderSize, alignment |-> 1]>>
  BY DEF AllocInit
<1>2. base \in Nat /\ FirstLeft \in Nat /\ FirstLeft <= MinBlock - HeaderSize
  BY BelowNat DEF FirstLeft
<1>3. AllocTypeOK
  BY <1>1, <1>2 DEF AllocTypeOK, Block, Region
<1>4. BlocksApart
  BY <1>1 DEF BlocksApart
<1>5. LeftBelow
  BY <1>1, <1>2 DEF LeftBelow
<1>6. RegionsApart
  BY <1>1 DEF RegionsApart
<1>7. RegionsAligned
  <2>1. (base + FirstLeft) % 1 = 0
    BY <1>2
  <2> QED BY <2>1, <1>1 DEF RegionsAligned
<1> QED BY <1>3, <1>4, <1>5, <1>6, <1>7 DEF AllocInv

\* The types of the blocks and the regions, one by one.
LEMMA AllocTyped ==
    ASSUME AllocTypeOK
    PROVE  /\ Len(blocks) \in Nat \ {0} /\ Newest = blocks[Len(blocks)]
           /\ \A b \in 1 .. Len(blocks) :
                blocks[b] \in Block /\ blocks[b].base \in Nat /\ blocks[b].cap \in Nat /\ blocks[b].left \in Nat
           /\ Len(regions) \in Nat
           /\ \A i \in 1 .. Len(regions) :
                regions[i] \in Region /\ regions[i].block \in Nat /\ regions[i].at \in Nat /\ regions[i].size \in Nat
<1>1. Len(blocks) \in Nat \ {0} /\ Len(regions) \in Nat
  BY EmptySeq, LenProperties DEF AllocTypeOK
<1>2. ASSUME NEW b \in 1 .. Len(blocks) PROVE blocks[b] \in Block
  BY <1>2, ElementOfSeq DEF AllocTypeOK
<1>3. ASSUME NEW i \in 1 .. Len(regions) PROVE regions[i] \in Region
  BY <1>3, ElementOfSeq DEF AllocTypeOK
<1> QED BY <1>1, <1>2, <1>3 DEF Newest, Block, Region

\* The last block is one of the blocks.
LEMMA NewestBlock ==
    ASSUME AllocTypeOK
    PROVE  Len(blocks) \in 1 .. Len(blocks) /\ Newest \in Block /\ Newest.base \in Nat /\ Newest.cap \in Nat /\ Newest.left \in Nat
BY AllocTyped

\* What a request that fits is given lies between the beginning of the last
\* block and what was cut from it before.
LEMMA PlaceFits ==
    ASSUME AllocTypeOK, request # NoRequest, FitsNewest
    PROVE  /\ Place \in Nat /\ Place >= Newest.base
           /\ Place + request.size <= Newest.base + Newest.left
           /\ Place % request.alignment = 0
<1>1. request \in [size : Nat, alignment : Nat \ {0}]
  BY DEF AllocTypeOK
<1>2. Newest.base \in Nat /\ Newest.cap \in Nat /\ Newest.left \in Nat
  BY NewestBlock
<1> DEFINE end == Newest.base + Newest.left - request.size
<1>3. end \in Nat
  BY <1>1, <1>2 DEF FitsNewest
<1>4. Below(end, request.alignment) \in Nat /\ Below(end, request.alignment) <= end
  BY <1>1, <1>3, BelowNat
<1>5. Below(end, request.alignment) % request.alignment = 0
  BY <1>1, <1>3, BelowAligned
<1>6. Place = Below(end, request.alignment)
  BY DEF Place
<1> HIDE DEF end
<1>7. Place <= end
  BY <1>4, <1>6
<1>8. Place + request.size <= Newest.base + Newest.left
  BY <1>1, <1>2, <1>4, <1>6, <1>7 DEF end
<1> QED BY <1>4, <1>5, <1>6, <1>8 DEF FitsNewest

\* Asking changes neither blocks nor regions.
LEMMA AskInv ==
    ASSUME AllocInv, NEW size \in AllocSizes, NEW alignment \in Alignments, Ask(size, alignment)
    PROVE  AllocInv'
BY AllocAssumption DEF AllocInv, AllocTypeOK, BlocksApart, LeftBelow, RegionsApart, RegionsAligned, Ask

\* A new block lies apart from the others, and nothing was cut from it.
LEMMA CreateBlockInv ==
    ASSUME AllocInv, NEW base \in Bases, CreateBlock(base)
    PROVE  AllocInv'
<1> USE AllocAssumption
<1> DEFINE n == Len(blocks)
<1> DEFINE new == [base |-> base, cap |-> 2 * Newest.cap, left |-> 2 * Newest.cap]
<1>1. AllocTypeOK /\ BlocksApart /\ LeftBelow /\ RegionsApart /\ RegionsAligned
  BY DEF AllocInv
<1>2. new \in Block
  BY <1>1, NewestBlock DEF Block
<1>3. blocks' = Append(blocks, new) /\ UNCHANGED <<request, regions>>
  BY DEF CreateBlock
<1>4. /\ n \in Nat \ {0} /\ Len(blocks') = n + 1 /\ blocks'[n + 1] = new
      /\ \A b \in 1 .. n : blocks'[b] = blocks[b]
      /\ blocks' \in Seq(Block) /\ blocks' # <<>>
  BY <1>1, <1>2, <1>3, AllocTyped, AppendProperties DEF AllocTypeOK
<1>5. AllocTypeOK'
  BY <1>1, <1>3, <1>4 DEF AllocTypeOK
<1>6. BlocksApart'
  <2> SUFFICES ASSUME NEW b \in 1 .. n + 1, NEW c \in 1 .. n + 1, b # c
               PROVE  Apart(blocks'[b].base, blocks'[b].cap, blocks'[c].base, blocks'[c].cap)
    BY <1>4 DEF BlocksApart
  <2>1. \A d \in 1 .. n : Apart(base, 2 * Newest.cap, blocks[d].base, blocks[d].cap)
    BY DEF CreateBlock, FreeBase
  <2>2. CASE b = n + 1
    BY <2>1, <2>2, <1>4 DEF Apart
  <2>3. CASE c = n + 1
    BY <2>1, <2>3, <1>4 DEF Apart
  <2>4. CASE b \in 1 .. n /\ c \in 1 .. n
    BY <2>4, <1>1, <1>4 DEF BlocksApart
  <2> QED BY <2>2, <2>3, <2>4, <1>4
<1>7. LeftBelow'
  <2>1. ASSUME NEW b \in 1 .. n + 1 PROVE blocks'[b].left <= blocks'[b].cap
    <3>1. CASE b = n + 1
      <4>1. Newest.cap \in Nat
        BY <1>1, NewestBlock
      <4> QED BY <3>1, <4>1, <1>4
    <3>2. CASE b \in 1 .. n
      BY <3>2, <1>1, <1>4 DEF LeftBelow
    <3> QED BY <3>1, <3>2, <1>4
  <2> QED BY <2>1, <1>1, <1>3, <1>4 DEF LeftBelow
<1>8. RegionsApart'
  BY <1>1, <1>3 DEF RegionsApart
<1>9. RegionsAligned'
  BY <1>1, <1>3 DEF RegionsAligned
<1> QED BY <1>5, <1>6, <1>7, <1>8, <1>9 DEF AllocInv

\* The new region lies below what was cut from its block before, and apart
\* from every other block.
LEMMA ReserveInv ==
    ASSUME AllocInv, Reserve
    PROVE  AllocInv'
<1> DEFINE n == Len(blocks)
<1> DEFINE m == Len(regions)
<1> DEFINE new == [block |-> n, at |-> Place, size |-> request.size, alignment |-> request.alignment]
<1>1. AllocTypeOK /\ BlocksApart /\ LeftBelow /\ RegionsApart /\ RegionsAligned
  BY DEF AllocInv
<1>2. request \in [size : Nat, alignment : Nat \ {0}]
  BY <1>1 DEF Reserve, AllocTypeOK
<1>3. /\ Place \in Nat /\ Place >= Newest.base /\ Place + request.size <= Newest.base + Newest.left
      /\ Place % request.alignment = 0
  BY <1>1, PlaceFits DEF Reserve
<1>4. n \in 1 .. n /\ Newest \in Block /\ Newest.base \in Nat /\ Newest.cap \in Nat /\ Newest.left \in Nat /\ Newest = blocks[n]
  BY <1>1, NewestBlock, AllocTyped
<1> DEFINE cut == [Newest EXCEPT !.left = Place - Newest.base]
<1>5. /\ new \in Region
      /\ cut \in Block /\ cut.base = Newest.base /\ cut.cap = Newest.cap /\ cut.left = Place - Newest.base
  <2>1. new \in Region
    BY <1>2, <1>3, <1>4 DEF Region
  <2>2. Place - Newest.base \in Nat
    BY <1>3, <1>4
  <2>3. cut \in Block /\ cut.base = Newest.base /\ cut.cap = Newest.cap /\ cut.left = Place - Newest.base
    BY <1>4, <2>2 DEF Block
  <2> QED BY <2>1, <2>3
<1>6. /\ blocks' = [blocks EXCEPT ![n] = cut]
      /\ regions' = Append(regions, new) /\ request' = NoRequest
  BY DEF Reserve
<1>7. /\ Len(blocks') = n
      /\ \A b \in 1 .. n : blocks'[b] = IF b = n THEN cut ELSE blocks[b]
      /\ blocks' \in Seq(Block) /\ blocks' # <<>>
  BY <1>1, <1>4, <1>5, <1>6, ExceptSeq, EmptySeq DEF AllocTypeOK
<1>8. /\ m \in Nat /\ Len(regions') = m + 1 /\ regions'[m + 1] = new
      /\ \A i \in 1 .. m : regions'[i] = regions[i]
      /\ regions' \in Seq(Region)
  BY <1>1, <1>5, <1>6, AllocTyped, AppendProperties DEF AllocTypeOK
<1>9. \A b \in 1 .. n : /\ blocks'[b].base = blocks[b].base /\ blocks'[b].cap = blocks[b].cap
                       /\ blocks'[b].left \in Nat /\ blocks'[b].left <= blocks[b].left
                       /\ blocks[b].base \in Nat /\ blocks[b].cap \in Nat /\ blocks[b].left \in Nat
  <2> HIDE DEF cut
  <2> SUFFICES ASSUME NEW b \in 1 .. n
               PROVE  /\ blocks'[b].base = blocks[b].base /\ blocks'[b].cap = blocks[b].cap
                      /\ blocks'[b].left \in Nat /\ blocks'[b].left <= blocks[b].left
                      /\ blocks[b].base \in Nat /\ blocks[b].cap \in Nat /\ blocks[b].left \in Nat
    OBVIOUS
  <2>1. blocks[b].base \in Nat /\ blocks[b].cap \in Nat /\ blocks[b].left \in Nat
    BY <1>1, AllocTyped
  <2>2. CASE b = n
    <3>1. blocks'[b] = cut /\ blocks[b] = Newest
      BY <2>2, <1>4, <1>7
    <3>2. cut.left \in Nat /\ cut.left <= Newest.left
      BY <1>2, <1>3, <1>4, <1>5
    <3> QED BY <2>1, <3>1, <3>2, <1>5
  <2>3. CASE b # n
    <3>1. blocks'[b] = blocks[b]
      BY <2>3, <1>7
    <3> QED BY <2>1, <3>1
  <2> QED BY <2>2, <2>3
<1>10. AllocTypeOK'
  BY <1>6, <1>7, <1>8 DEF AllocTypeOK
<1>r. /\ new.block = n /\ new.at = Place /\ new.size = request.size
      /\ new.alignment = request.alignment
  OBVIOUS
<1>c. blocks'[n].left = Place - Newest.base
  BY <1>4, <1>5, <1>7
<1>t. \A i \in 1 .. m : regions[i].block \in Nat /\ regions[i].at \in Nat /\ regions[i].size \in Nat
  BY <1>1, AllocTyped
<1> HIDE DEF new, cut
<1>11. BlocksApart'
  BY <1>1, <1>7, <1>9 DEF BlocksApart
<1>12. LeftBelow'
  <2>1. ASSUME NEW b \in 1 .. n PROVE blocks'[b].left <= blocks'[b].cap
    BY <1>1, <1>9 DEF LeftBelow
  <2>2. ASSUME NEW i \in 1 .. m + 1
        PROVE  /\ regions'[i].block \in 1 .. n
               /\ blocks'[regions'[i].block].base + blocks'[regions'[i].block].left <= regions'[i].at
               /\ regions'[i].at + regions'[i].size
                    <= blocks'[regions'[i].block].base + blocks'[regions'[i].block].cap
    <3>1. CASE i = m + 1
      <4>1. blocks[n].left <= blocks[n].cap
        BY <1>1, <1>4 DEF LeftBelow
      <4>2. regions'[i].block = n /\ regions'[i].at = Place /\ regions'[i].size = request.size
        BY <3>1, <1>r, <1>8
      <4>3. blocks'[n].base = Newest.base /\ blocks'[n].cap = Newest.cap
        BY <1>4, <1>9
      <4>4. Newest.base + (Place - Newest.base) <= Place
        BY <1>3, <1>4
      <4>5. Place + request.size <= Newest.base + Newest.cap
        BY <4>1, <1>2, <1>3, <1>4
      <4> QED BY <4>2, <4>3, <4>4, <4>5, <1>c, <1>4
    <3>2. CASE i \in 1 .. m
      <4>1. /\ regions[i].block \in 1 .. n
            /\ blocks[regions[i].block].base + blocks[regions[i].block].left <= regions[i].at
            /\ regions[i].at + regions[i].size
                 <= blocks[regions[i].block].base + blocks[regions[i].block].cap
        BY <3>2, <1>1 DEF LeftBelow
      <4> DEFINE b == regions[i].block
      <4>2. regions'[i] = regions[i]
        BY <3>2, <1>8
      <4>3. /\ blocks'[b].base = blocks[b].base /\ blocks'[b].cap = blocks[b].cap
            /\ blocks'[b].left \in Nat /\ blocks'[b].left <= blocks[b].left
            /\ blocks[b].base \in Nat /\ blocks[b].left \in Nat
        BY <4>1, <1>9
      <4>4. blocks'[b].base + blocks'[b].left <= regions[i].at
        <5>1. regions[i].at \in Nat /\ blocks[b].base + blocks[b].left <= regions[i].at
          BY <3>2, <4>1, <1>t
        <5> HIDE DEF b
        <5> QED BY <5>1, <4>3
      <4> QED BY <4>1, <4>2, <4>3, <4>4
    <3> QED BY <3>1, <3>2, <1>8
  <2> QED BY <2>1, <2>2, <1>7, <1>8 DEF LeftBelow
<1>13. RegionsApart'
  <2>1. ASSUME NEW i \in 1 .. m
        PROVE  Apart(regions[i].at, regions[i].size, new.at, new.size)
    <3>1. /\ regions[i].block \in 1 .. n
          /\ blocks[regions[i].block].base + blocks[regions[i].block].left <= regions[i].at
          /\ regions[i].at + regions[i].size
               <= blocks[regions[i].block].base + blocks[regions[i].block].cap
      BY <1>1 DEF LeftBelow
    <3>2. /\ blocks[regions[i].block].base \in Nat /\ blocks[regions[i].block].cap \in Nat /\ blocks[regions[i].block].left \in Nat
          /\ regions[i].at \in Nat /\ regions[i].size \in Nat
      BY <3>1, <1>t, <1>9
    <3>3. CASE regions[i].block = n
      BY <3>1, <3>2, <3>3, <1>r, <1>2, <1>3, <1>4 DEF Apart
    <3>4. CASE regions[i].block # n
      <4>1. Apart(blocks[regions[i].block].base, blocks[regions[i].block].cap, Newest.base, Newest.cap)
        BY <3>1, <3>4, <1>1, <1>4 DEF BlocksApart
      <4>2. Newest.left <= Newest.cap
        BY <1>1, <1>4 DEF LeftBelow
      <4>3. new.at \in Nat /\ new.size \in Nat /\ Newest.base <= new.at
            /\ new.at + new.size <= Newest.base + Newest.cap
        BY <4>2, <1>r, <1>2, <1>3, <1>4
      <4>4. /\ blocks[regions[i].block].base <= regions[i].at
        BY <3>1, <3>2
      <4>5. Newest.base \in Nat /\ Newest.cap \in Nat
        BY <1>4
      <4> DEFINE k == blocks[regions[i].block]
      <4> DEFINE r == regions[i]
      <4>6. /\ k.base \in Nat /\ k.cap \in Nat /\ r.at \in Nat /\ r.size \in Nat
            /\ k.base <= r.at /\ r.at + r.size <= k.base + k.cap
            /\ Apart(k.base, k.cap, Newest.base, Newest.cap)
        BY <3>1, <3>2, <4>1, <4>4
      <4> HIDE DEF k, r
      <4>7. Apart(r.at, r.size, new.at, new.size)
        BY <4>3, <4>5, <4>6, WithinApart, Zenon
      <4> QED BY <4>7 DEF r
    <3> QED BY <3>3, <3>4
  <2> SUFFICES ASSUME NEW i \in 1 .. m + 1, NEW j \in 1 .. m + 1, i # j
               PROVE  Apart(regions'[i].at, regions'[i].size, regions'[j].at, regions'[j].size)
    BY <1>8 DEF RegionsApart
  <2>2. CASE i = m + 1
    <3>1. j \in 1 .. m /\ regions'[i] = new /\ regions'[j] = regions[j]
      BY <2>2, <1>8
    <3>2. new.at \in Nat /\ new.size \in Nat /\ regions[j].at \in Nat /\ regions[j].size \in Nat
      BY <3>1, <1>r, <1>t, <1>2, <1>3
    <3> QED BY <2>1, <3>1, <3>2, ApartSymmetric
  <2>3. CASE j = m + 1
    <3>1. i \in 1 .. m /\ regions'[j] = new /\ regions'[i] = regions[i]
      BY <2>3, <1>8
    <3> QED BY <2>1, <3>1
  <2>4. CASE i \in 1 .. m /\ j \in 1 .. m
    BY <2>4, <1>1, <1>8 DEF RegionsApart
  <2> QED BY <2>2, <2>3, <2>4, <1>8
<1>14. RegionsAligned'
  <2> SUFFICES ASSUME NEW i \in 1 .. m + 1
               PROVE  regions'[i].at % regions'[i].alignment = 0
    BY <1>8 DEF RegionsAligned
  <2>1. CASE i = m + 1
    BY <2>1, <1>3, <1>8, <1>r
  <2>2. CASE i \in 1 .. m
    BY <2>2, <1>1, <1>8 DEF RegionsAligned
  <2> QED BY <2>1, <2>2, <1>8
<1> QED BY <1>10, <1>11, <1>12, <1>13, <1>14 DEF AllocInv

\* Every step keeps the inductive invariant.
LEMMA AllocNextInv == AllocInv /\ [AllocNext]_allocVars => AllocInv'
<1> SUFFICES ASSUME AllocInv, [AllocNext]_allocVars PROVE AllocInv'
  OBVIOUS
<1>1. CASE UNCHANGED allocVars
  BY <1>1 DEF AllocInv, AllocTypeOK, BlocksApart, LeftBelow, RegionsApart, RegionsAligned, allocVars
<1>2. ASSUME NEW size \in AllocSizes, NEW alignment \in Alignments, Ask(size, alignment)
      PROVE  AllocInv'
  BY <1>2, AskInv
<1>3. ASSUME NEW base \in Bases, CreateBlock(base) PROVE AllocInv'
  BY <1>3, CreateBlockInv
<1>4. CASE Reserve
  BY <1>4, ReserveInv
<1> QED BY <1>1, <1>2, <1>3, <1>4 DEF AllocNext

\* The inductive invariant holds of every behaviour.
THEOREM AllocInvCorrect == AllocSpec => []AllocInv
BY AllocInitInv, AllocNextInv, PTL DEF AllocSpec

\* What is handed out lies in memory of malloc(), aligned, and apart from
\* everything else that was (AllocSound of the run).
THEOREM AllocationsSound == AllocSpec => []AllocSound
<1>1. ASSUME AllocInv PROVE AllocSound
  <2>1. RegionsApart /\ RegionsAligned
    BY <1>1 DEF AllocInv
  <2>2. RegionsInside
    <3> SUFFICES ASSUME NEW i \in 1 .. Len(regions)
                 PROVE  /\ blocks[regions[i].block].base <= regions[i].at
                        /\ regions[i].at + regions[i].size
                             <= blocks[regions[i].block].base + blocks[regions[i].block].cap
      BY DEF RegionsInside
    <3> DEFINE b == regions[i].block
    <3>1. /\ b \in 1 .. Len(blocks) /\ blocks[b].base + blocks[b].left <= regions[i].at
          /\ regions[i].at + regions[i].size <= blocks[b].base + blocks[b].cap
      BY <1>1 DEF AllocInv, LeftBelow
    <3>2. blocks[b].base \in Nat /\ blocks[b].left \in Nat /\ regions[i].at \in Nat
      BY <1>1, <3>1, AllocTyped DEF AllocInv
    <3> HIDE DEF b
    <3>3. blocks[b].base <= regions[i].at
      BY <3>1, <3>2
    <3> QED BY <3>1, <3>3 DEF b
  <2> QED BY <2>1, <2>2 DEF AllocSound
<1> QED BY <1>1, AllocInvCorrect, PTL

(***************************************************************************)
(* Args: what the arguments of a builtin open, for any names, any streams  *)
(* of a thread and any descriptors.                                        *)
(***************************************************************************)
Origins == {"nothing", "fd", "null", "stderr", "file", "held"}
Gains == [side : Sides, arg : Int, from : Origins, at : Int]

ArgsTyped ==
    /\ argv \in Seq(STRING) /\ opened \subseteq Nat
    /\ held \in [thread : BOOLEAN, streams : SUBSET (Sides \X Nat)]
    /\ gained \in Seq(Gains)

\* What was claimed is not there to be claimed again.
ClaimedGone ==
    \A j \in DOMAIN gained :
        /\ gained[j].from = "held" => <<gained[j].side, gained[j].at>> \notin held.streams
        /\ gained[j].from = "fd" /\ gained[j].at <= 2 => gained[j].at \notin opened

ArgsInv == ArgsTyped /\ ClaimedGone /\ ArgsClaimOnce /\ ArgsNeverSteal

\* The standard descriptors are opened by the names that stand for them only.
OpensAsNamed(from, at) ==
    from = "fd" /\ held.thread /\ (\A i \in DOMAIN argv : argv[i] \notin {"/dev/stdin", "/dev/stdout", "/dev/fd/0"})
      => at > 2

\* What one argument opens: something that is there to be claimed and then is
\* not, or what anyone may have.
Opens(side, i) ==
    \E from \in Origins, at \in Nat :
        /\ Gain(side, i, from, at)
        /\ argv' = argv /\ held'.thread = held.thread
        /\ opened' \subseteq opened /\ held'.streams \subseteq held.streams
        /\ held' \in [thread : BOOLEAN, streams : SUBSET (Sides \X Nat)]
        /\ from = "held" => <<side, at>> \in held.streams /\ <<side, at>> \notin held'.streams
        /\ from = "fd" => at \in opened /\ (at <= 2 => at \notin opened')
        /\ OpensAsNamed(from, at)

LEMMA GainNothingOpens ==
    ASSUME ArgsTyped, NEW side \in Sides, NEW i \in Int, GainNothing(side, i)
    PROVE  Opens(side, i)
BY Zenon DEF GainNothing, Opens, ArgsTyped, Origins, OpensAsNamed

LEMMA OpenFdOpens ==
    ASSUME ArgsTyped, NEW side \in Sides, NEW i \in Int, NEW fd \in Nat, OpenFd(side, i, fd),
           OpensAsNamed("fd", fd)
    PROVE  Opens(side, i)
<1>1. CASE fd \in opened
  <2>1. /\ Gain(side, i, "fd", fd) /\ argv' = argv /\ held' = held
        /\ opened' = IF fd <= 2 THEN opened \ {fd} ELSE opened
    BY <1>1 DEF OpenFd
  <2>2. opened' \subseteq opened /\ (fd <= 2 => fd \notin opened')
    BY <2>1
  <2> QED
    BY <1>1, <2>1, <2>2 DEF Opens, ArgsTyped, Origins
<1>2. CASE fd \notin opened
  BY <1>2, GainNothingOpens DEF OpenFd
<1> QED BY <1>1, <1>2

LEMMA ClaimHeldOpens ==
    ASSUME ArgsTyped, NEW side \in Sides, NEW i \in Int, NEW k \in Nat, ClaimHeld(side, i, k),
           <<side, k>> \in held.streams
    PROVE  Opens(side, i)
<1>1. Gain(side, i, "held", k) /\ argv' = argv /\ opened' = opened
      /\ held' = [held EXCEPT !.streams = @ \ {<<side, k>>}]
  BY DEF ClaimHeld
<1>2. held \in [thread : BOOLEAN, streams : SUBSET (Sides \X Nat)]
  BY DEF ArgsTyped
<1>3. held'.thread = held.thread /\ held'.streams = held.streams \ {<<side, k>>}
      /\ held' \in [thread : BOOLEAN, streams : SUBSET (Sides \X Nat)]
  BY <1>1, <1>2
<1> QED
  BY <1>1, <1>3 DEF Opens, Origins, OpensAsNamed

LEMMA OpenNameOpens ==
    ASSUME ArgsTyped, NEW side \in Sides, NEW i \in Int, NEW k \in DOMAIN argv,
           OpenName(side, i, argv[k]), argv[k] # "-"
    PROVE  Opens(side, i)
<1> DEFINE name == argv[k]
<1>1. CASE OpenNull(side, i) \/ OpenStderr(side, i) \/ OpenFile(side, i)
  <2>1. \E from \in {"null", "stderr", "file", "nothing"}, at \in {0, 2} :
           Gain(side, i, from, at) /\ UNCHANGED <<argv, held, opened>>
    BY <1>1 DEF OpenNull, OpenStderr, OpenFile, GainNothing
  <2> QED
    BY <2>1 DEF Opens, ArgsTyped, Origins, OpensAsNamed
<1>2. CASE OpenFd(side, i, StdFd(side)) /\ name = Device(side)
  <2>1. OpensAsNamed("fd", StdFd(side)) /\ StdFd(side) \in Nat
    BY <1>2 DEF OpensAsNamed, Device, StdFd
  <2> QED
    BY <1>2, <2>1, OpenFdOpens
<1>3. CASE OpenFd(side, i, 0) /\ name = "/dev/fd/0"
  <2>1. OpensAsNamed("fd", 0)
    BY <1>3 DEF OpensAsNamed
  <2> QED
    BY <1>3, <2>1, OpenFdOpens
<1>4. CASE OpenFd(side, i, 5)
  <2>1. OpensAsNamed("fd", 5)
    BY DEF OpensAsNamed
  <2> QED
    BY <1>4, <2>1, OpenFdOpens
<1> QED
  BY <1>1, <1>2, <1>3, <1>4 DEF OpenName

LEMMA OpenStandardOpens ==
    ASSUME ArgsTyped, NEW side \in Sides, NEW i \in Int, OpenStandard(side, i)
    PROVE  Opens(side, i)
<1>1. CASE ~held.thread
  <2>1. OpensAsNamed("fd", StdFd(side)) /\ StdFd(side) \in Nat /\ OpenFd(side, i, StdFd(side))
    BY <1>1 DEF OpensAsNamed, StdFd, OpenStandard
  <2> QED
    BY <2>1, OpenFdOpens
<1>2. CASE held.thread /\ <<side, 0>> \in held.streams
  BY <1>2, ClaimHeldOpens DEF OpenStandard
<1>3. CASE held.thread /\ <<side, 0>> \notin held.streams
  BY <1>3, GainNothingOpens DEF OpenStandard
<1> QED BY <1>1, <1>2, <1>3

LEMMA OpenArgOpens ==
    ASSUME ArgsTyped, NEW side \in Sides, NEW i \in 0 .. Len(argv) + 1, OpenArg(side, i)
    PROVE  Opens(side, i)
<1>0. Len(argv) \in Nat /\ DOMAIN argv = 1 .. Len(argv) /\ i \in Int /\ i \in Nat
  BY LenProperties DEF ArgsTyped
<1>1. CASE held.thread /\ <<side, i>> \in held.streams
  BY <1>0, <1>1, ClaimHeldOpens DEF OpenArg
<1>2. CASE ~(held.thread /\ <<side, i>> \in held.streams)
  <2>1. CASE i > Len(argv)
    BY <1>0, <1>2, <2>1, GainNothingOpens DEF OpenArg
  <2>2. CASE ~(i > Len(argv)) /\ (i = 0 \/ argv[i] = "-")
    BY <1>0, <1>2, <2>2, OpenStandardOpens DEF OpenArg
  <2>3. CASE ~(i > Len(argv)) /\ i # 0 /\ argv[i] # "-"
    <3>1. i \in DOMAIN argv /\ OpenName(side, i, argv[i])
      BY <1>0, <1>2, <2>3 DEF OpenArg
    <3> QED
      BY <1>0, <2>3, <3>1, OpenNameOpens
  <2> QED BY <2>1, <2>2, <2>3
<1> QED BY <1>1, <1>2

LEMMA OpensKeeps ==
    ASSUME ArgsInv, NEW side \in Sides, NEW i \in Int, Opens(side, i)
    PROVE  ArgsInv'
<1>1. PICK from \in Origins, at \in Nat :
        /\ Gain(side, i, from, at)
        /\ argv' = argv /\ held'.thread = held.thread
        /\ opened' \subseteq opened /\ held'.streams \subseteq held.streams
        /\ held' \in [thread : BOOLEAN, streams : SUBSET (Sides \X Nat)]
        /\ from = "held" => <<side, at>> \in held.streams /\ <<side, at>> \notin held'.streams
        /\ from = "fd" => at \in opened /\ (at <= 2 => at \notin opened')
        /\ OpensAsNamed(from, at)
  BY DEF Opens
<1> DEFINE g == [side |-> side, arg |-> i, from |-> from, at |-> at]
<1> DEFINE n == Len(gained)
<1>2. /\ g \in Gains /\ gained' = Append(gained, g)
      /\ g.side = side /\ g.from = from /\ g.at = at
  BY <1>1 DEF Gain, Gains
<1>3. n \in Nat /\ DOMAIN gained = 1 .. n /\ gained \in Seq(Gains)
  BY LenProperties DEF ArgsInv, ArgsTyped
<1> HIDE DEF g
<1>4. /\ gained' \in Seq(Gains) /\ DOMAIN gained' = 1 .. n + 1 /\ gained'[n + 1] = g
      /\ \A j \in 1 .. n : gained'[j] = gained[j]
  <2>1. gained' \in Seq(Gains) /\ Len(gained') = n + 1 /\ gained'[n + 1] = g
        /\ \A j \in 1 .. n : gained'[j] = gained[j]
    BY <1>2, <1>3, AppendProperties
  <2> QED
    BY <2>1, LenProperties
<1> HIDE DEF n
<1>5. ArgsTyped'
  BY <1>1, <1>4 DEF ArgsInv, ArgsTyped
<1>6. ClaimedGone'
  <2> SUFFICES ASSUME NEW j \in 1 .. n + 1
               PROVE  /\ gained'[j].from = "held" => <<gained'[j].side, gained'[j].at>> \notin held'.streams
                      /\ gained'[j].from = "fd" /\ gained'[j].at <= 2 => gained'[j].at \notin opened'
    BY <1>4 DEF ClaimedGone
  <2>1. CASE j = n + 1
    BY <1>1, <1>2, <1>4, <2>1
  <2>2. CASE j \in 1 .. n
    BY <1>1, <1>3, <1>4, <2>2 DEF ArgsInv, ClaimedGone
  <2> QED BY <1>3, <2>1, <2>2
<1>7. ArgsClaimOnce'
  <2>1. ASSUME NEW j \in 1 .. n, gained[j].from = from
        PROVE  \/ from \in {"nothing", "null", "file", "stderr"}
               \/ gained[j].side # side /\ from = "held"
               \/ gained[j].at # at
               \/ at > 2
    <3>1. j \in DOMAIN gained
      BY <1>3
    <3>2. CASE from = "held"
      <4>1. <<gained[j].side, gained[j].at>> \notin held.streams
        BY <2>1, <3>1, <3>2 DEF ArgsInv, ClaimedGone
      <4> QED BY <1>1, <3>2, <4>1
    <3>3. CASE from = "fd"
      <4>1. gained[j].at <= 2 => gained[j].at \notin opened
        BY <2>1, <3>1, <3>3 DEF ArgsInv, ClaimedGone
      <4> QED BY <1>1, <3>3, <4>1
    <3> QED BY <3>2, <3>3 DEF Origins
  <2> SUFFICES ASSUME NEW j \in 1 .. n + 1, NEW k \in 1 .. n + 1, j # k, gained'[j].from = gained'[k].from
               PROVE  \/ gained'[j].from \in {"nothing", "null", "file", "stderr"}
                      \/ gained'[j].side # gained'[k].side /\ gained'[j].from = "held"
                      \/ gained'[j].at # gained'[k].at
                      \/ gained'[j].at > 2
    BY <1>4 DEF ArgsClaimOnce
  <2>2. CASE j \in 1 .. n /\ k \in 1 .. n
    BY <1>3, <1>4, <2>2 DEF ArgsInv, ArgsClaimOnce
  <2>3. CASE j \in 1 .. n /\ k = n + 1
    BY <1>2, <1>4, <2>1, <2>3
  <2>4. CASE k \in 1 .. n /\ j = n + 1
    BY <1>2, <1>4, <2>1, <2>4
  <2> QED BY <1>3, <2>2, <2>3, <2>4
<1>8. ArgsNeverSteal'
  <2> SUFFICES ASSUME held.thread,
                      \A k \in DOMAIN argv : argv[k] \notin {"/dev/stdin", "/dev/stdout", "/dev/fd/0"},
                      NEW j \in 1 .. n + 1, gained'[j].from = "fd"
               PROVE  gained'[j].at > 2
    BY <1>1, <1>4 DEF ArgsNeverSteal
  <2>1. CASE j = n + 1
    BY <1>1, <1>2, <1>4, <2>1 DEF OpensAsNamed
  <2>2. CASE j \in 1 .. n
    BY <1>3, <1>4, <2>2 DEF ArgsInv, ArgsNeverSteal
  <2> QED BY <1>3, <2>1, <2>2
<1> QED BY <1>5, <1>6, <1>7, <1>8 DEF ArgsInv

LEMMA ArgsInvCorrect == ArgsSpec => []ArgsInv
<1>1. ArgsInit => ArgsInv
  <2> SUFFICES ASSUME ArgsInit PROVE ArgsInv
    OBVIOUS
  <2>1. PICK s \in ArgStarts : /\ argv = s.argv
                               /\ held = [thread |-> s.thread, streams |-> s.held]
                               /\ opened = s.opened
                               /\ gained = <<>>
    BY DEF ArgsInit
  <2>2. s.argv \in Seq(STRING) /\ s.thread \in BOOLEAN
        /\ s.held \subseteq Sides \X (0 .. Len(s.argv)) /\ s.opened \subseteq Nat
    BY ArgsAssumption
  <2>3. 0 .. Len(s.argv) \subseteq Nat
    BY <2>2, LenProperties
  <2>4. s.held \in SUBSET (Sides \X Nat)
    BY <2>2, <2>3
  <2>5. gained \in Seq(Gains) /\ DOMAIN gained = {}
    <3>1. <<>> \in Seq(Gains) /\ Len(<<>>) = 0
      BY EmptySeq
    <3> QED BY <2>1, <3>1, LenProperties
  <2>6. ArgsTyped
    BY <2>1, <2>2, <2>4, <2>5 DEF ArgsTyped
  <2> QED
    BY <2>5, <2>6 DEF ArgsInv, ClaimedGone, ArgsClaimOnce, ArgsNeverSteal
<1>2. ArgsInv /\ [ArgsNext]_argVars => ArgsInv'
  <2> SUFFICES ASSUME ArgsInv, [ArgsNext]_argVars PROVE ArgsInv'
    OBVIOUS
  <2>1. CASE ArgsNext
    <3>1. PICK side \in Sides, i \in 0 .. Len(argv) + 1 : OpenArg(side, i)
      BY <2>1 DEF ArgsNext
    <3>2. i \in Int
      OBVIOUS
    <3> QED BY <3>1, <3>2, OpenArgOpens, OpensKeeps DEF ArgsInv
  <2>2. CASE UNCHANGED argVars
    BY <2>2 DEF argVars, ArgsInv, ArgsTyped, ClaimedGone, ArgsClaimOnce, ArgsNeverSteal
  <2> QED BY <2>1, <2>2
<1> QED BY <1>1, <1>2, PTL DEF ArgsSpec

\* No stream of a thread and no standard descriptor is opened by two arguments,
\* whatever the arguments are called (open_arg_FildeshXF, open_arg_FildeshOF).
THEOREM ClaimsOnce == ArgsSpec => []ArgsClaimOnce
BY ArgsInvCorrect, PTL DEF ArgsInv

\* A builtin that runs as a thread leaves the standard streams of its process
\* alone unless an argument names them (infile.c:237).
THEOREM NeverSteals == ArgsSpec => []ArgsNeverSteal
BY ArgsInvCorrect, PTL DEF ArgsInv

(***************************************************************************)
(* Mascii: the search in blocks of sixteen finds what a search byte by     *)
(* byte finds, in any text at any address, for any set of characters.      *)
(***************************************************************************)
Bytes == 0 .. 255
Scans == [text : Seq(Bytes), address : Nat, needles : SUBSET (0 .. 127), inverted : BOOLEAN]

LEMMA MinOf ==
    ASSUME NEW X, X \subseteq Nat, X # {}
    PROVE  Min(X) \in X /\ \A y \in X : Min(X) <= y
<1>1. PICK x \in X : \A y \in X : ~(<<y, x>> \in OpToRel(<, Nat))
  BY NatLessThanWellFounded, WFMin
<1>2. ASSUME NEW y \in X PROVE x <= y
  <2> DEFINE yx == <<y, x>>
  <2>1. yx \in Nat \X Nat /\ yx[1] = y /\ yx[2] = x
    OBVIOUS
  <2>2. yx \notin OpToRel(<, Nat)
    BY <1>1
  <2> HIDE DEF yx
  <2>3. ~(yx[1] < yx[2])
    BY <2>1, <2>2 DEF OpToRel
  <2> QED BY <2>1, <2>3
<1> QED BY <1>2 DEF Min

\* A set of numbers that has something below each number of another has the
\* same smallest one.
LEMMA MinSame ==
    ASSUME NEW X, NEW Y, X \subseteq Y, Y \subseteq Nat, X # {},
           \A y \in Y : \E x \in X : x <= y
    PROVE  Min(X) = Min(Y)
<1>1. Min(X) \in X /\ \A y \in X : Min(X) <= y
  BY MinOf
<1>2. Min(Y) \in Y /\ \A y \in Y : Min(Y) <= y
  BY MinOf
<1>3. PICK x \in X : x <= Min(Y)
  BY <1>2
<1>4. Min(X) <= x /\ Min(Y) <= Min(X)
  BY <1>1, <1>2
<1> DEFINE a == Min(X)
<1> DEFINE b == Min(Y)
<1>5. a \in Nat /\ b \in Nat /\ x \in Nat /\ a <= x /\ x <= b /\ b <= a
  BY <1>1, <1>2, <1>3, <1>4
<1> HIDE DEF a, b
<1>6. a = b
  BY <1>5
<1> QED BY <1>6 DEF a, b

\* The bits of the table say which characters are wanted.
LEMMA TableMeans ==
    ASSUME scan \in Scans, NEW c \in Bytes
    PROVE  InTable(Table, c) <=> Wanted(c)
<1>1. c % 8 \in 0 .. 7 /\ (c \div 8) % 16 \in Lanes
  BY DEF Bytes, Lanes
<1>2. c < 128 => (8 * ((c \div 8) % 16)) + (c % 8) = c
  BY DEF Bytes
<1>3. scan.inverted \in BOOLEAN
  BY DEF Scans
<1> DEFINE i == (c \div 8) % 16
<1> DEFINE b == c % 8
<1>4. i \in Lanes /\ b \in 0 .. 7 /\ (c < 128 => 8 * i + b = c)
  BY <1>1, <1>2
<1>5. InTable(Table, c) <=> b \in Table[i] /\ c < 128
  BY DEF InTable
<1> HIDE DEF i, b
<1>6. CASE scan.inverted
  <2>1. Table[i] = {d \in 0 .. 7 : 8 * i + d \notin scan.needles}
    BY <1>4, <1>6 DEF Table, Charnot
  <2>2. Wanted(c) <=> c < 128 /\ c \notin scan.needles
    BY <1>6 DEF Wanted
  <2> QED BY <1>4, <1>5, <2>1, <2>2
<1>7. CASE ~scan.inverted
  <2>1. Table[i] = {d \in 0 .. 7 : 8 * i + d \in scan.needles}
    BY <1>4, <1>7 DEF Table, Charset
  <2>2. Wanted(c) <=> c < 128 /\ c \in scan.needles
    BY <1>3, <1>7 DEF Wanted
  <2> QED BY <1>4, <1>5, <2>1, <2>2
<1> QED BY <1>3, <1>6, <1>7

LEMMA TableTyped ==
    ASSUME scan \in Scans
    PROVE  Table \in [Lanes -> SUBSET (0 .. 7)]
BY DEF Table, Charset, Charnot

\* A block of sixteen is looked up in the table at once: a shift by three of
\* four lanes together leaves bits of the next lane, which do not matter.
LEMMA BlockMeans ==
    ASSUME NEW table \in [Lanes -> SUBSET (0 .. 7)], NEW block \in [Lanes -> Bytes]
    PROVE  Get16(table, block) = Min({i \in Lanes : InTable(table, block[i])} \cup {16})
<1> DEFINE bits == Masked(Shuffle(table, ShardIndex(block)), ShardMask(block))
<1>1. ASSUME NEW i \in Lanes
      PROVE  bits[i] # {} <=> block[i] % 8 \in table[(block[i] \div 8) % 16]
  <2> DEFINE b == block[i]
  <2> DEFINE next == IF i % 4 = 3 THEN 0 ELSE 32 * (block[i + 1] % 8)
  <2>1. b \in Bytes
    OBVIOUS
  <2>2. \E q \in 0 .. 7 : next = 32 * q
    <3>1. CASE i % 4 = 3
      BY <3>1
    <3>2. CASE i % 4 # 3
      <4>1. i + 1 \in Lanes
        BY <3>2 DEF Lanes
      <4>2. block[i + 1] % 8 \in 0 .. 7
        BY <4>1 DEF Bytes
      <4> QED BY <3>2, <4>2
    <3> QED BY <3>1, <3>2
  <2>3. ShardIndex(block)[i] = b \div 8 + next
    BY DEF ShardIndex
  <2> HIDE DEF next, b
  <2>4. (b \div 8 + next) % 16 = (b \div 8) % 16
    <3>1. PICK q \in 0 .. 7 : next = 32 * q
      BY <2>2
    <3>2. b \div 8 \in 0 .. 31
      BY <2>1 DEF Bytes
    <3> QED BY <3>1, <3>2
  <2>5. Shuffle(table, ShardIndex(block))[i] = table[(b \div 8) % 16]
    BY <2>3, <2>4 DEF Shuffle
  <2>6. ShardMask(block)[i] = {b % 8}
    <3>1. b % 16 \in Lanes /\ (b % 16) % 8 = b % 8
      BY <2>1 DEF Bytes, Lanes
    <3>2. ShardMask(block)[i] = [k \in Lanes |-> {k % 8}][b % 16]
      BY DEF ShardMask, Shuffle, b
    <3> QED BY <3>1, <3>2
  <2>7. bits[i] = table[(b \div 8) % 16] \cap {b % 8}
    <3>1. bits[i] = Shuffle(table, ShardIndex(block))[i] \cap ShardMask(block)[i]
      BY DEF Masked
    <3> QED BY <2>5, <2>6, <3>1
  <2> QED BY <2>7 DEF b
<1> HIDE DEF bits
<1>2. {i \in Lanes : bits[i] # {} /\ block[i] < 128} = {i \in Lanes : InTable(table, block[i])}
  BY <1>1 DEF InTable
<1>3. Get16(table, block) = Min({i \in Lanes : bits[i] # {} /\ block[i] < 128} \cup {16})
  BY DEF Get16, Span0Ascii, bits
<1> QED BY <1>2, <1>3

\* The blocks start within the text or at its end, and end there.
LEMMA Divided ==
    ASSUME NEW address \in Nat, NEW n \in Nat
    PROVE  /\ Ahead(address, n) \in 0 .. n /\ Blocks(address, n) \in Nat
           /\ Ahead(address, n) + 16 * Blocks(address, n) <= n
<1> DEFINE a == Aligned(address) - address
<1>1. a \in 0 .. 15
  BY DEF Aligned
<1> HIDE DEF a
<1>2. Ahead(address, n) \in {n, a} /\ Ahead(address, n) <= n
  <2>1. Ahead(address, n) = Min({n, a})
    BY DEF Ahead, a
  <2>2. {n, a} \subseteq Nat /\ {n, a} # {}
    BY <1>1
  <2> QED BY <2>1, <2>2, MinOf
<1> DEFINE h == Ahead(address, n)
<1>3. h \in 0 .. n
  BY <1>1, <1>2
<1>4. Blocks(address, n) = (n - h) \div 16
  BY DEF Blocks
<1> HIDE DEF h
<1>5. (n - h) \div 16 \in Nat /\ h + 16 * ((n - h) \div 16) <= n
  BY <1>3
<1> QED BY <1>3, <1>4, <1>5 DEF h

\* Wherever a text is divided into single bytes, blocks and single bytes, the
\* first of the characters is found.
LEMMA FindFromMeans ==
    ASSUME NEW table \in [Lanes -> SUBSET (0 .. 7)], NEW text \in Seq(Bytes),
           NEW ahead \in Nat, NEW count \in Nat, ahead + 16 * count <= Len(text)
    PROVE  FindFrom(table, text, ahead, count) =
             Min({i \in 0 .. Len(text) - 1 : InTable(table, text[i + 1])} \cup {Len(text)})
<1> DEFINE n == Len(text)
<1> DEFINE Y == {i \in 0 .. n - 1 : InTable(table, text[i + 1])} \cup {n}
<1> DEFINE lane(k) == Get16(table, BlockAt(text, ahead + 16 * k))
<1> DEFINE X == ScalarIn(table, text, 0 .. ahead - 1)
                \cup BlocksIn(table, text, ahead, count)
                \cup ScalarIn(table, text, ahead + 16 * count .. n - 1)
                \cup {n}
<1>1. n \in Nat
  BY LenProperties
\* The lane that a block reports.
<1>2. ASSUME NEW k \in 0 .. count - 1
      PROVE  /\ lane(k) \in 0 .. 16
             /\ lane(k) < 16 => InTable(table, text[(ahead + 16 * k) + lane(k) + 1])
             /\ \A j \in Lanes : InTable(table, text[(ahead + 16 * k) + j + 1]) => lane(k) <= j
  <2> DEFINE from == ahead + 16 * k
  <2>1. from \in Nat /\ from + 16 <= n
    BY <1>1
  <2> HIDE DEF from
  <2>2. BlockAt(text, from) \in [Lanes -> Bytes]
        /\ \A j \in Lanes : BlockAt(text, from)[j] = text[from + j + 1]
    <3>1. ASSUME NEW j \in Lanes PROVE text[from + j + 1] \in Bytes
      <4>1. from + j + 1 \in 1 .. n
        BY <1>1, <2>1 DEF Lanes
      <4> QED BY <4>1, ElementOfSeq
    <3> QED BY <3>1 DEF BlockAt
  <2> DEFINE L == {j \in Lanes : InTable(table, BlockAt(text, from)[j])} \cup {16}
  <2>3. lane(k) = Min(L)
    BY <2>2, BlockMeans DEF from
  <2>4. L \subseteq 0 .. 16 /\ L \subseteq Nat /\ L # {}
    BY DEF Lanes
  <2> HIDE DEF lane
  <2>5. lane(k) \in L /\ \A y \in L : lane(k) <= y
    <3> HIDE DEF L
    <3>1. Min(L) \in L /\ \A y \in L : Min(L) <= y
      BY <2>4, MinOf
    <3> QED BY <2>3, <3>1
  <2>6. lane(k) \in 0 .. 16
    BY <2>4, <2>5
  <2>7. lane(k) < 16 => InTable(table, text[from + lane(k) + 1])
    BY <2>2, <2>5, <2>6
  <2>8. \A j \in Lanes : InTable(table, text[from + j + 1]) => lane(k) <= j
    BY <2>2, <2>5
  <2> QED BY <2>6, <2>7, <2>8 DEF from
<1>3. BlocksIn(table, text, ahead, count) =
        {ahead + 16 * k + lane(k) : k \in {k \in 0 .. count - 1 : lane(k) < 16}}
  BY DEF BlocksIn
<1> HIDE DEF lane
<1>4. Y \subseteq Nat
  BY <1>1
<1>5. X \subseteq Y
  <2>1. ASSUME NEW x \in BlocksIn(table, text, ahead, count) PROVE x \in Y
    <3>1. PICK k \in 0 .. count - 1 : lane(k) < 16 /\ x = ahead + 16 * k + lane(k)
      BY <1>3, <2>1
    <3>2. lane(k) \in 0 .. 15 /\ InTable(table, text[x + 1])
      BY <1>2, <3>1
    <3>3. x \in 0 .. n - 1
      <4> DEFINE m == lane(k)
      <4>1. m \in 0 .. 15 /\ k \in Nat /\ k + 1 <= count /\ x = (ahead + 16 * k) + m
        BY <3>1, <3>2
      <4> HIDE DEF m
      <4> QED BY <1>1, <4>1
    <3> QED BY <3>2, <3>3
  <2>2. ASSUME NEW x \in ScalarIn(table, text, 0 .. ahead - 1) PROVE x \in Y
    <3>1. x \in 0 .. ahead - 1 /\ InTable(table, text[x + 1])
      BY <2>2 DEF ScalarIn
    <3>2. x \in 0 .. n - 1
      BY <1>1, <3>1
    <3> QED BY <3>1, <3>2
  <2>3. ASSUME NEW x \in ScalarIn(table, text, ahead + 16 * count .. n - 1) PROVE x \in Y
    <3>1. x \in ahead + 16 * count .. n - 1 /\ InTable(table, text[x + 1])
      BY <2>3 DEF ScalarIn
    <3>2. x \in 0 .. n - 1
      BY <1>1, <3>1
    <3> QED BY <3>1, <3>2
  <2> QED BY <2>1, <2>2, <2>3
<1>6. ASSUME NEW y \in Y PROVE \E x \in X : x <= y
  <2>1. CASE y = n
    BY <1>1, <2>1
  <2>2. CASE y \in 0 .. n - 1 /\ InTable(table, text[y + 1])
    <3>1. CASE y < ahead
      <4>1. y \in ScalarIn(table, text, 0 .. ahead - 1)
        BY <2>2, <3>1 DEF ScalarIn
      <4> QED BY <2>2, <4>1
    <3>2. CASE y >= ahead + 16 * count
      <4>1. y \in ScalarIn(table, text, ahead + 16 * count .. n - 1)
        BY <2>2, <3>2 DEF ScalarIn
      <4> QED BY <2>2, <4>1
    <3>3. CASE ahead <= y /\ y < ahead + 16 * count
      <4> DEFINE k == (y - ahead) \div 16
      <4> DEFINE j == (y - ahead) % 16
      <4>1. k \in 0 .. count - 1 /\ j \in 0 .. 15 /\ y = (ahead + 16 * k) + j
        BY <2>2, <3>3
      <4> HIDE DEF k, j
      <4>2. lane(k) <= j /\ lane(k) \in 0 .. 16
        BY <1>2, <2>2, <4>1 DEF Lanes
      <4> DEFINE m == lane(k)
      <4>3. m \in 0 .. 15 /\ m <= j /\ k \in Int
        BY <4>1, <4>2
      <4>4. ahead + 16 * k + m \in BlocksIn(table, text, ahead, count)
        <5>1. lane(k) < 16 /\ k \in 0 .. count - 1
          BY <4>1, <4>3
        <5> HIDE DEF X, Y
        <5> QED BY <1>3, <5>1
      <4> HIDE DEF m
      <4>5. (ahead + 16 * k) + m <= y
        BY <4>1, <4>3
      <4> QED BY <4>4, <4>5
    <3> QED BY <2>2, <3>1, <3>2, <3>3
  <2> QED BY <2>1, <2>2
<1>7. FindFrom(table, text, ahead, count) = Min(X)
  BY DEF FindFrom
<1>8. X # {}
  OBVIOUS
<1> HIDE DEF X, Y
<1>9. Min(X) = Min(Y)
  BY <1>4, <1>5, <1>6, <1>8, MinSame
<1> QED BY <1>7, <1>9 DEF Y

\* Where the search ends, in the text or at its end.
LEMMA FindMeans ==
    ASSUME scan \in Scans
    PROVE  /\ Find(Table, scan.text, scan.address) =
                Min({i \in 0 .. Len(scan.text) - 1 : Wanted(scan.text[i + 1])} \cup {Len(scan.text)})
           /\ Find(Table, scan.text, scan.address) \in 0 .. Len(scan.text)
<1> DEFINE text == scan.text
<1> DEFINE n == Len(text)
<1> DEFINE S == {i \in 0 .. n - 1 : InTable(Table, text[i + 1])}
<1> DEFINE W == {i \in 0 .. n - 1 : Wanted(text[i + 1])}
<1>1. text \in Seq(Bytes) /\ scan.address \in Nat /\ n \in Nat
  BY LenProperties DEF Scans
<1>2. Find(Table, text, scan.address) = Min(S \cup {n})
  <2> HIDE DEF text
  <2>1. Ahead(scan.address, n) \in Nat /\ Blocks(scan.address, n) \in Nat
        /\ Ahead(scan.address, n) + 16 * Blocks(scan.address, n) <= n
    <3> DEFINE a == scan.address
    <3>1. n \in Nat /\ a \in Nat
      BY <1>1
    <3> HIDE DEF n, a
    <3>2. Ahead(a, n) \in 0 .. n /\ Blocks(a, n) \in Nat /\ Ahead(a, n) + 16 * Blocks(a, n) <= n
      BY <3>1, Divided
    <3> QED BY <3>1, <3>2 DEF a
  <2>2. Table \in [Lanes -> SUBSET (0 .. 7)]
    BY TableTyped
  <2>3. FindFrom(Table, text, Ahead(scan.address, n), Blocks(scan.address, n)) = Min(S \cup {n})
    BY <1>1, <2>1, <2>2, FindFromMeans
  <2> QED BY <2>3 DEF Find
<1>3. S = W
  <2>1. ASSUME NEW i \in 0 .. n - 1 PROVE text[i + 1] \in Bytes
    <3>1. i + 1 \in 1 .. n
      BY <1>1
    <3> QED BY <1>1, <3>1, ElementOfSeq
  <2>2. ASSUME NEW i \in 0 .. n - 1 PROVE InTable(Table, text[i + 1]) <=> Wanted(text[i + 1])
    <3> DEFINE c == text[i + 1]
    <3>1. c \in Bytes
      BY <2>1
    <3> HIDE DEF c
    <3>2. InTable(Table, c) <=> Wanted(c)
      BY <3>1, TableMeans
    <3> QED BY <3>2 DEF c
  <2> QED BY <2>2
<1>4. Min(W \cup {n}) \in W \cup {n}
  <2>1. W \cup {n} \subseteq Nat /\ W \cup {n} # {}
    BY <1>1
  <2> HIDE DEF W, n
  <2> QED BY <2>1, MinOf
<1>5. W \cup {n} \subseteq 0 .. n
  BY <1>1
<1> HIDE DEF S, W
<1>6. Find(Table, text, scan.address) \in 0 .. n
  BY <1>2, <1>3, <1>4, <1>5
<1> QED BY <1>2, <1>3, <1>6 DEF W

LEMMA SpanMeans ==
    ASSUME scan \in Scans
    PROVE  Span(Table, scan.text) =
             Min({i \in 0 .. Len(scan.text) - 1 : ~Wanted(scan.text[i + 1])} \cup {Len(scan.text)})
<1> DEFINE n == Len(scan.text)
<1>1. scan.text \in Seq(Bytes) /\ n \in Nat
  BY LenProperties DEF Scans
<1>2. ASSUME NEW i \in 0 .. n - 1
      PROVE  ~InTable(Table, scan.text[i + 1]) <=> ~Wanted(scan.text[i + 1])
  <2> DEFINE c == scan.text[i + 1]
  <2>1. i + 1 \in 1 .. n
    BY <1>1
  <2>2. c \in Bytes
    BY <1>1, <2>1, ElementOfSeq
  <2> HIDE DEF c
  <2>3. InTable(Table, c) <=> Wanted(c)
    BY <2>2, TableMeans
  <2> QED BY <2>3 DEF c
<1>3. {i \in 0 .. n - 1 : ~InTable(Table, scan.text[i + 1])} = {i \in 0 .. n - 1 : ~Wanted(scan.text[i + 1])}
  BY <1>2
<1> QED BY <1>3 DEF Span

\* What is left of a text after a character of the set is a text, at an address.
LEMMA ScansInvariant == MasciiSpec => [](scan \in Scans)
<1>1. MasciiInit => scan \in Scans
  BY MasciiAssumption DEF MasciiInit, Scans, Bytes
<1>2. scan \in Scans /\ [MasciiNext]_masciiVars => (scan \in Scans)'
  <2> SUFFICES ASSUME scan \in Scans, [MasciiNext]_masciiVars PROVE scan' \in Scans
    OBVIOUS
  <2>1. CASE MasciiNext
    <3> DEFINE end == Find(Table, scan.text, scan.address)
    <3> DEFINE n == Len(scan.text)
    <3>1. end \in Nat
      BY FindMeans, LenProperties DEF Scans
    <3>2. end < n /\ scan' = [scan EXCEPT !.text = SubSeq(scan.text, end + 2, n), !.address = scan.address + end + 1]
      BY <2>1 DEF MasciiNext
    <3> HIDE DEF end
    <3>3. scan.text \in Seq(Bytes) /\ n \in Nat /\ scan.address \in Nat
      BY LenProperties DEF Scans
    <3>4. SubSeq(scan.text, end + 2, n) \in Seq(Bytes)
      <4>1. \A i \in end + 2 .. n : i \in 1 .. Len(scan.text)
        BY <3>1, <3>3
      <4>2. \A i \in end + 2 .. n : scan.text[i] \in Bytes
        BY <3>3, <4>1, ElementOfSeq
      <4> QED BY <3>1, <3>3, <4>2, SubSeqProperties
    <3>5. scan.address + end + 1 \in Nat
      BY <3>1, <3>3
    <3> HIDE DEF n
    <3> QED BY <3>2, <3>4, <3>5 DEF Scans
  <2>2. CASE UNCHANGED masciiVars
    BY <2>2 DEF masciiVars
  <2> QED BY <2>1, <2>2
<1> QED BY <1>1, <1>2, PTL DEF MasciiSpec

\* The first character of the set is found wherever the text lies in memory
\* and wherever in a block of sixteen the character is, and the opposite search
\* ends where the set does (find_FildeshMascii, span_FildeshMascii).
THEOREM FindsFirst == MasciiSpec => []MasciiFindsFirst
<1>1. scan \in Scans => MasciiFindsFirst
  BY FindMeans, SpanMeans DEF MasciiFindsFirst
<1> QED BY <1>1, ScansInvariant, PTL

(***************************************************************************)
(* Writer: what is written is what was printed, however writes cut it.     *)
(* FlattenSeq is a recursive function over the pieces; that it exists, and *)
(* what it is when a piece is added, follows from there being no smallest  *)
(* number of pieces for which it fails.                                    *)
(***************************************************************************)

\* The recursive function in the definition of FlattenSeq, up to n.
Unrolls(g, s, n) == g = [i \in 1 .. n |-> IF i = 1 THEN s[i] ELSE g[i - 1] \o s[i]]

LEMMA UnrollFacts ==
    ASSUME NEW g, NEW s, NEW n \in Nat, Unrolls(g, s, n), NEW i \in 1 .. n
    PROVE  g[i] = IF i = 1 THEN s[i] ELSE g[i - 1] \o s[i]
<1> DEFINE v(j) == IF j = 1 THEN s[j] ELSE g[j - 1] \o s[j]
<1> HIDE DEF v
<1>1. g = [j \in 1 .. n |-> v(j)]
  BY DEF Unrolls, v
<1>2. g[i] = v(i)
  BY <1>1
<1> QED BY <1>2 DEF v

\* There is such a function, for any number of pieces.
LEMMA UnrollExists ==
    ASSUME NEW s, NEW n \in Nat
    PROVE  \E g : Unrolls(g, s, n)
<1> DEFINE Bad == {m \in Nat : ~\E g : Unrolls(g, s, m)}
<1> SUFFICES ASSUME Bad # {} PROVE FALSE
  OBVIOUS
<1> DEFINE m == Min(Bad)
<1>1. m \in Bad /\ \A k \in Bad : m <= k
  BY MinOf
<1>2. m \in Nat /\ ~\E g : Unrolls(g, s, m)
  BY <1>1
<1>3. \A k \in Nat : k < m => k \notin Bad
  <2> HIDE DEF m, Bad
  <2> QED BY <1>1, <1>2
<1>4. \A k \in Nat : k < m => \E g : Unrolls(g, s, k)
  BY <1>3
<1> HIDE DEF m, Bad
<1>5. m # 0
  <2> SUFFICES ASSUME m = 0 PROVE FALSE
    OBVIOUS
  <2> DEFINE g == [i \in 1 .. 0 |-> s[1]]
  <2>1. g = [i \in 1 .. 0 |-> IF i = 1 THEN s[i] ELSE g[i - 1] \o s[i]]
    OBVIOUS
  <2>2. Unrolls(g, s, m)
    BY <2>1 DEF Unrolls
  <2> QED BY <1>2, <2>2
<1>6. PICK h : Unrolls(h, s, m - 1)
  BY <1>2, <1>4, <1>5
<1> DEFINE last == IF m = 1 THEN s[m] ELSE h[m - 1] \o s[m]
<1> DEFINE g == [i \in 1 .. m |-> IF i = m THEN last ELSE h[i]]
<1>7. ASSUME NEW i \in 1 .. m PROVE g[i] = IF i = 1 THEN s[i] ELSE g[i - 1] \o s[i]
  <2>1. CASE i = m
    <3>1. m # 1 => m - 1 \in 1 .. m /\ m - 1 # m
      BY <1>2, <1>5
    <3> HIDE DEF last
    <3>2. m # 1 => g[m - 1] = h[m - 1]
      BY <3>1
    <3>3. g[i] = last
      BY <2>1
    <3> QED BY <2>1, <3>2, <3>3 DEF last
  <2>2. CASE i # m
    <3>1. i \in 1 .. m - 1 /\ m - 1 \in Nat /\ i # m
      BY <1>2, <2>2
    <3>2. h[i] = IF i = 1 THEN s[i] ELSE h[i - 1] \o s[i]
      BY <1>6, <3>1, UnrollFacts
    <3> HIDE DEF last
    <3>3. g[i] = h[i]
      BY <3>1
    <3>4. i # 1 => i - 1 \in 1 .. m /\ i - 1 # m
      BY <1>2, <3>1
    <3>5. i # 1 => g[i - 1] = h[i - 1]
      BY <3>4
    <3> QED BY <3>2, <3>3, <3>5
  <2> QED BY <2>1, <2>2
<1>8. g = [i \in 1 .. m |-> g[i]]
  OBVIOUS
<1> HIDE DEF g
<1>9. g = [i \in 1 .. m |-> IF i = 1 THEN s[i] ELSE g[i - 1] \o s[i]]
  BY <1>7, <1>8
<1> QED BY <1>2, <1>9 DEF Unrolls

Agree(s, t, n) == \A i \in 1 .. n : s[i] = t[i]

\* What it has for a piece depends on that piece and those before.
LEMMA UnrollsSame ==
    ASSUME NEW s, NEW t, NEW n \in Nat, NEW m \in Nat, m <= n,
           NEW g, Unrolls(g, s, n), NEW h, Unrolls(h, t, m), Agree(s, t, m)
    PROVE  Agree(g, h, m)
<1> USE DEF Agree
<1> DEFINE Bad == {i \in 1 .. m : g[i] # h[i]}
<1> SUFFICES ASSUME Bad # {} PROVE FALSE
  OBVIOUS
<1> DEFINE k == Min(Bad)
<1>1. k \in Bad /\ \A i \in Bad : k <= i
  <2>1. Bad \subseteq Nat
    OBVIOUS
  <2> QED BY <2>1, MinOf
<1>2. k \in 1 .. m /\ k \in 1 .. n /\ g[k] # h[k] /\ s[k] = t[k]
  BY <1>1
<1>3. k # 1 => g[k - 1] = h[k - 1]
  <2> SUFFICES ASSUME k # 1 PROVE k - 1 \in 1 .. m /\ k - 1 \notin Bad
    OBVIOUS
  <2> HIDE DEF k, Bad
  <2> QED BY <1>1, <1>2
<1> HIDE DEF k, Bad
<1>4. /\ g[k] = IF k = 1 THEN s[k] ELSE g[k - 1] \o s[k]
      /\ h[k] = IF k = 1 THEN t[k] ELSE h[k - 1] \o t[k]
  BY <1>2, UnrollFacts
<1> QED BY <1>2, <1>3, <1>4

\* Every value of it is a sequence.
LEMMA UnrollsTyped ==
    ASSUME NEW S, NEW n \in Nat, NEW s \in [1 .. n -> Seq(S)], NEW g, Unrolls(g, s, n)
    PROVE  \A i \in 1 .. n : g[i] \in Seq(S)
<1> DEFINE Bad == {i \in 1 .. n : g[i] \notin Seq(S)}
<1> SUFFICES ASSUME Bad # {} PROVE FALSE
  OBVIOUS
<1> DEFINE k == Min(Bad)
<1>1. k \in Bad /\ \A i \in Bad : k <= i
  <2>1. Bad \subseteq Nat
    OBVIOUS
  <2> QED BY <2>1, MinOf
<1>2. k \in 1 .. n /\ g[k] \notin Seq(S) /\ s[k] \in Seq(S)
  BY <1>1
<1>3. k # 1 => g[k - 1] \in Seq(S)
  <2> SUFFICES ASSUME k # 1 PROVE k - 1 \in 1 .. n /\ k - 1 \notin Bad
    OBVIOUS
  <2> HIDE DEF k, Bad
  <2> QED BY <1>1, <1>2
<1> HIDE DEF k, Bad
<1>4. g[k] = IF k = 1 THEN s[k] ELSE g[k - 1] \o s[k]
  BY <1>2, UnrollFacts
<1>5. k # 1 => g[k - 1] \o s[k] \in Seq(S)
  BY <1>2, <1>3, ConcatProperties
<1> QED BY <1>2, <1>4, <1>5

LEMMA FlattenUnrolls ==
    ASSUME NEW S, NEW s \in Seq(Seq(S)), s # <<>>
    PROVE  \E g : Unrolls(g, s, Len(s)) /\ FlattenSeq(s) = g[Len(s)]
<1> DEFINE g == CHOOSE h : Unrolls(h, s, Len(s))
<1>1. Len(s) \in Nat /\ Len(s) # 0
  BY LenProperties, EmptySeq
<1>2. Unrolls(g, s, Len(s))
  BY <1>1, UnrollExists
<1>3. FlattenSeq(s) = g[Len(s)]
  BY <1>1 DEF FlattenSeq, Unrolls
<1> QED BY <1>2, <1>3

\* One piece more adds its text.
LEMMA FlattenAppend ==
    ASSUME NEW S, NEW s \in Seq(Seq(S)), NEW e \in Seq(S)
    PROVE  /\ FlattenSeq(s) \in Seq(S)
           /\ FlattenSeq(Append(s, e)) = FlattenSeq(s) \o e
<1> DEFINE t == Append(s, e)
<1> DEFINE n == Len(s)
<1>1. /\ n \in Nat /\ t \in Seq(Seq(S)) /\ Len(t) = n + 1 /\ t # <<>>
      /\ t[n + 1] = e /\ \A i \in 1 .. n : t[i] = s[i]
  BY AppendProperties, LenProperties, EmptySeq
<1>2. s \in [1 .. n -> Seq(S)]
  BY LenProperties
<1> HIDE DEF t, n
<1>3. PICK h : Unrolls(h, t, n + 1) /\ FlattenSeq(t) = h[n + 1]
  BY <1>1, FlattenUnrolls
<1>4. /\ n = 0 => h[n + 1] = t[n + 1]
      /\ n # 0 => h[n + 1] = h[n] \o t[n + 1]
  <2> DEFINE k == n + 1
  <2>0. k - 1 = n /\ (n = 0 <=> k = 1)
    BY <1>1
  <2>1. k \in Nat /\ k \in 1 .. k /\ Unrolls(h, t, k)
    BY <1>1, <1>3
  <2> HIDE DEF k
  <2>2. h[k] = IF k = 1 THEN t[k] ELSE h[k - 1] \o t[k]
    BY <2>1, UnrollFacts
  <2>3. (n = 0 => h[k] = t[k]) /\ (n # 0 => h[k] = h[n] \o t[k])
    BY <2>0, <2>2
  <2> QED BY <2>3 DEF k
<1>5. CASE s = <<>>
  <2>1. n = 0 /\ FlattenSeq(s) = <<>>
    BY <1>5 DEF FlattenSeq, n
  <2>2. FlattenSeq(t) = e
    BY <1>1, <1>3, <1>4, <2>1
  <2>3. <<>> \o e = e /\ <<>> \in Seq(S)
    BY ConcatEmptySeq, EmptySeq
  <2> QED BY <2>1, <2>2, <2>3 DEF t
<1>6. CASE s # <<>>
  <2>1. n # 0
    BY <1>6, EmptySeq DEF n
  <2>2. PICK g : Unrolls(g, s, n) /\ FlattenSeq(s) = g[n]
    BY <1>6, FlattenUnrolls DEF n
  <2>3. Agree(h, g, n)
    <3> DEFINE k == n + 1
    <3>1. n <= k /\ k \in Nat /\ n \in Nat /\ Agree(t, s, n)
      BY <1>1 DEF Agree
    <3>2. Unrolls(h, t, k) /\ Unrolls(g, s, n)
      BY <1>3, <2>2
    <3> HIDE DEF k
    <3> QED BY <3>1, <3>2, UnrollsSame
  <2>4. h[n] = g[n] /\ n + 1 # 1 /\ n + 1 - 1 = n
    BY <1>1, <2>1, <2>3 DEF Agree
  <2>5. g[n] \in Seq(S)
    <3>1. n \in Nat /\ n \in 1 .. n /\ Unrolls(g, s, n)
      BY <1>1, <2>1, <2>2
    <3>2. \A i \in 1 .. n : g[i] \in Seq(S)
      BY <1>2, <3>1, UnrollsTyped
    <3> QED BY <3>1, <3>2
  <2> QED BY <1>1, <1>3, <1>4, <2>2, <2>4, <2>5 DEF t
<1> QED BY <1>5, <1>6

Text == Seq(Characters)
OStreams == [at : Text, off : Nat, lg : Nat]

LEMMA DigitTyped ==
    ASSUME NEW k \in 1 .. 10
    PROVE  Digits[k] \in Characters /\ Powers[k] \in Nat \ {0}
<1>1. k = 1 \/ k = 2 \/ k = 3 \/ k = 4 \/ k = 5 \/ k = 6 \/ k = 7 \/ k = 8 \/ k = 9 \/ k = 10
  OBVIOUS
<1>2. DigitChars = {Digits[i] : i \in 1 .. 10} /\ DigitChars \subseteq Characters
  BY CharactersAssumption DEF DigitChars
<1>3. /\ Powers[1] = 1 /\ Powers[2] = 10 /\ Powers[3] = 100 /\ Powers[4] = 1000 /\ Powers[5] = 10000
      /\ Powers[6] = 100000 /\ Powers[7] = 1000000 /\ Powers[8] = 10000000 /\ Powers[9] = 100000000
      /\ Powers[10] = 1000000000
  BY DEF Powers
<1> QED BY <1>1, <1>2, <1>3

\* The digits of any number are a text.
LEMMA DigitsTyped ==
    ASSUME NEW n \in Nat
    PROVE  DigitsOf(n) \in Text
<1> DEFINE few == {k \in 1 .. 9 : n < Powers[k + 1]} \cup {10}
<1> DEFINE c == DigitCount(n)
<1>1. c \in 1 .. 10
  <2>1. few \subseteq Nat /\ few # {} /\ few \subseteq 1 .. 10
    OBVIOUS
  <2> HIDE DEF few
  <2>2. Min(few) \in few
    BY <2>1, MinOf
  <2> QED BY <2>1, <2>2 DEF DigitCount, few
<1> HIDE DEF c
<1>2. ASSUME NEW i \in 1 .. c
      PROVE  Digits[((n \div Powers[c + 1 - i]) % 10) + 1] \in Characters
  <2> DEFINE p == Powers[c + 1 - i]
  <2>1. c + 1 - i \in 1 .. 10
    BY <1>1
  <2>2. p \in Nat \ {0}
    BY <2>1, DigitTyped
  <2> HIDE DEF p
  <2>3. n \div p \in Int
    BY <2>2
  <2>4. ((n \div p) % 10) + 1 \in 1 .. 10
    BY <2>3
  <2>5. Digits[((n \div p) % 10) + 1] \in Characters
    BY <2>4, DigitTyped
  <2> QED BY <2>5 DEF p
<1> DEFINE d == [i \in 1 .. c |-> Digits[((n \div Powers[c + 1 - i]) % 10) + 1]]
<1>3. d \in [1 .. c -> Characters]
  BY <1>2
<1>4. DigitsOf(n) = d
  BY DEF DigitsOf, c
<1> HIDE DEF d
<1> QED BY <1>1, <1>3, <1>4, SeqDef DEF Text

LEMMA EncodedTyped ==
    ASSUME NEW q \in Int
    PROVE  EncodeInt(q) \in Text /\ (q >= 0 => EncodeSize(q) \in Text)
<1> DEFINE m == (IF q < 0 THEN -q ELSE q) % (2 ^ Bits)
<1> DEFINE sign == IF q < 0 THEN <<"-">> ELSE <<>>
<1>1. m \in Nat
  <2> DEFINE w == 2 ^ Bits
  <2>1. w \in Nat \ {0}
    BY NumbersAssumption
  <2> HIDE DEF w
  <2>2. (IF q < 0 THEN -q ELSE q) % w \in Nat
    BY <2>1
  <2> QED BY <2>2 DEF w
<1>2. sign \in Text
  <2>1. <<>> \in Seq(Characters) /\ Append(<<>>, "-") \in Seq(Characters)
    BY CharactersAssumption, EmptySeq, AppendProperties
  <2> QED BY <2>1 DEF Text
<1> HIDE DEF m, sign
<1>3. DigitsOf(m) \in Text
  BY <1>1, DigitsTyped
<1>4. sign \o DigitsOf(m) \in Text
  BY <1>2, <1>3, ConcatProperties DEF Text
<1>5. EncodeInt(q) \in Text
  BY <1>4 DEF EncodeInt, m, sign
<1>6. q >= 0 => EncodeSize(q) \in Text
  BY DigitsTyped DEF EncodeSize
<1> QED BY <1>5, <1>6

\* Printing appends a text, which is the same for any stream.
LEMMA PutItemAdds ==
    ASSUME NEW o \in OStreams, NEW item \in Items, item.op \in {"repeat", "size"} => item.n >= 0
    PROVE  /\ PutItem(EmptyO, item).at \in Text
           /\ PutItem(o, item) = PutBytes(o, PutItem(EmptyO, item).at)
<1> DEFINE text == CASE item.op = "text"   -> item.text
                     [] item.op = "repeat" -> [i \in 1 .. item.n |-> item.c]
                     [] item.op = "int"    -> EncodeInt(item.n)
                     [] item.op = "size"   -> EncodeSize(item.n)
                     [] item.op = "flush"  -> <<>>
<1>1. item.op \in {"text", "repeat", "int", "size", "flush"} /\ item.text \in Text /\ item.n \in Int /\ item.c \in Characters
  BY DEF Items, Text
<1>2. o.at \in Text /\ o.at \o <<>> = o.at /\ o = [o EXCEPT !.at = o.at]
  BY ConcatEmptySeq DEF OStreams, Text
<1>3. text \in Text /\ PutItem(o, item) = PutBytes(o, text) /\ PutItem(EmptyO, item).at = <<>> \o text
  <2>1. CASE item.op = "text"
    <3>1. PutItem(o, item) = PutBytes(o, item.text) /\ PutItem(EmptyO, item) = PutBytes(EmptyO, item.text) /\ text = item.text
      BY <2>1 DEF PutItem
    <3> QED BY <1>1, <3>1 DEF PutBytes, EmptyO
  <2>2. CASE item.op = "repeat"
    <3> DEFINE r == [i \in 1 .. item.n |-> item.c]
    <3>1. PutItem(o, item) = PutBytes(o, r) /\ PutItem(EmptyO, item) = PutBytes(EmptyO, r) /\ text = r
      BY <2>2 DEF PutItem, RepeatByte
    <3>2. r \in [1 .. item.n -> Characters] /\ item.n \in Nat
      BY <1>1, <2>2
    <3> HIDE DEF r, text
    <3>3. r \in Text
      BY <3>2, SeqDef DEF Text
    <3> QED BY <3>1, <3>3 DEF PutBytes, EmptyO
  <2>3. CASE item.op = "int"
    <3>1. PutItem(o, item) = PutBytes(o, EncodeInt(item.n)) /\ PutItem(EmptyO, item) = PutBytes(EmptyO, EncodeInt(item.n))
          /\ text = EncodeInt(item.n)
      BY <2>3 DEF PutItem, PrintInt
    <3> HIDE DEF text
    <3> QED BY <1>1, <3>1, EncodedTyped DEF PutBytes, EmptyO
  <2>4. CASE item.op = "size"
    <3>1. PutItem(o, item) = PutBytes(o, EncodeSize(item.n)) /\ PutItem(EmptyO, item) = PutBytes(EmptyO, EncodeSize(item.n))
          /\ text = EncodeSize(item.n)
      BY <2>4 DEF PutItem, PrintSize
    <3> HIDE DEF text
    <3> QED BY <1>1, <2>4, <3>1, EncodedTyped DEF PutBytes, EmptyO
  <2>5. CASE item.op = "flush"
    <3>1. PutItem(o, item) = o /\ PutItem(EmptyO, item) = EmptyO /\ text = <<>>
      BY <2>5 DEF PutItem
    <3>2. <<>> \in Text /\ <<>> \o <<>> = <<>>
      BY EmptySeq, ConcatEmptySeq DEF Text
    <3> HIDE DEF text
    <3> QED BY <1>2, <3>1, <3>2 DEF PutBytes, EmptyO
  <2> QED BY <1>1, <2>1, <2>2, <2>3, <2>4, <2>5
<1> HIDE DEF text
<1>4. <<>> \o text = text
  BY <1>3, ConcatEmptySeq DEF Text
<1> QED BY <1>3, <1>4

WriterStates == {"open", "flushing", "closing", "closed"}
WriterTyped ==
    /\ xout \in [state : WriterStates, o : OStreams, items : Seq(Items), next : Nat \ {0}, inLg : Nat,
                 fails : BOOLEAN, numbers : BOOLEAN, lost : Text]
    /\ xout.o.off <= Len(xout.o.at)
    /\ sink \in Seq(Text) /\ said \in Text
    /\ \A i \in DOMAIN xout.items : xout.items[i].op \in {"repeat", "size"} => xout.items[i].n >= 0
    /\ xout.state # "closed" => xout.lost = <<>>
WriterInv == WriterTyped /\ StreamsKeepOrder

LEMMA PendingFacts ==
    ASSUME NEW o \in OStreams, o.off <= Len(o.at)
    PROVE  /\ Pending(o) \in Text /\ Len(Pending(o)) = Len(o.at) - o.off /\ Len(o.at) \in Nat
           /\ \A i \in 1 .. Len(o.at) - o.off : Pending(o)[i] = o.at[o.off + i]
<1> DEFINE s == o.at
<1> DEFINE m == o.off + 1
<1>1. s \in Seq(Characters) /\ o.off \in Nat
  BY DEF OStreams, Text
<1>2. Len(s) \in Nat /\ \A i \in 1 .. Len(s) : s[i] \in Characters
  BY <1>1, LenProperties, ElementOfSeq
<1>3. m \in Int /\ Len(s) \in Int /\ \A i \in m .. Len(s) : s[i] \in Characters
  BY <1>1, <1>2
<1>4. Pending(o) = SubSeq(s, m, Len(s))
  BY DEF Pending
<1> HIDE DEF s, m
<1>5. /\ SubSeq(s, m, Len(s)) \in Seq(Characters)
      /\ Len(SubSeq(s, m, Len(s))) = IF m <= Len(s) THEN Len(s) - m + 1 ELSE 0
      /\ \A i \in 1 .. Len(s) - m + 1 : SubSeq(s, m, Len(s))[i] = s[m + i - 1]
  BY <1>3, SubSeqProperties
<1>6. Pending(o) \in Text
  BY <1>4, <1>5 DEF Text
<1>7. Len(Pending(o)) = Len(s) - o.off
  BY <1>1, <1>2, <1>4, <1>5 DEF m, s
<1>8. ASSUME NEW i \in 1 .. Len(s) - o.off PROVE Pending(o)[i] = s[o.off + i]
  <2>1. i \in 1 .. Len(s) - m + 1 /\ m + i - 1 = o.off + i
    BY <1>1, <1>2 DEF m
  <2> QED BY <1>4, <1>5, <2>1
<1> QED BY <1>2, <1>6, <1>7, <1>8 DEF s

LEMMA SuffixOfConcat ==
    ASSUME NEW S, NEW s \in Seq(S), NEW t \in Seq(S), NEW m \in 1 .. Len(s) + 1
    PROVE  SubSeq(s \o t, m, Len(s \o t)) = SubSeq(s, m, Len(s)) \o t
<1> DEFINE u == s \o t
<1> DEFINE a == Len(s)
<1> DEFINE b == Len(t)
<1> DEFINE p == SubSeq(u, m, Len(u))
<1> DEFINE q == SubSeq(s, m, a)
<1> DEFINE r == q \o t
<1>1. a \in Nat /\ b \in Nat /\ \A i \in 1 .. a : s[i] \in S
  BY LenProperties, ElementOfSeq
<1>2. /\ u \in Seq(S) /\ Len(u) = a + b
      /\ \A i \in 1 .. a + b : u[i] = IF i <= a THEN s[i] ELSE t[i - a]
  BY ConcatProperties
<1>3. m \in 1 .. a + 1
  OBVIOUS
<1> HIDE DEF u, a
<1>4. /\ q \in Seq(S) /\ Len(q) = a + 1 - m /\ \A i \in 1 .. a + 1 - m : q[i] = s[m + i - 1]
  <2>1. m \in Int /\ a \in Int /\ \A i \in m .. a : s[i] \in S
    BY <1>1, <1>3
  <2>2. /\ q \in Seq(S) /\ Len(q) = IF m <= a THEN a - m + 1 ELSE 0
        /\ \A i \in 1 .. a - m + 1 : q[i] = s[m + i - 1]
    BY <2>1, SubSeqProperties
  <2>3. a - m + 1 = a + 1 - m /\ (~(m <= a) => a + 1 - m = 0)
    BY <1>1, <1>3
  <2> HIDE DEF q
  <2> QED BY <2>2, <2>3
<1>5. /\ p \in Seq(S) /\ Len(p) = a + b + 1 - m /\ \A i \in 1 .. a + b + 1 - m : p[i] = u[m + i - 1]
  <2> DEFINE c == Len(u)
  <2>1. m \in Int /\ c \in Int /\ c = a + b /\ \A i \in m .. c : i \in 1 .. c
    BY <1>1, <1>2, <1>3
  <2>2. \A i \in m .. c : u[i] \in S
    BY <1>2, <2>1, ElementOfSeq
  <2> HIDE DEF c
  <2>3. /\ SubSeq(u, m, c) \in Seq(S) /\ Len(SubSeq(u, m, c)) = IF m <= c THEN c - m + 1 ELSE 0
        /\ \A i \in 1 .. c - m + 1 : SubSeq(u, m, c)[i] = u[m + i - 1]
    BY <2>1, <2>2, SubSeqProperties
  <2>4. c - m + 1 = a + b + 1 - m /\ (~(m <= c) => a + b + 1 - m = 0) /\ p = SubSeq(u, m, c)
    BY <1>1, <1>3, <2>1 DEF c
  <2> HIDE DEF p
  <2> QED BY <2>3, <2>4
<1> HIDE DEF p, q
<1>6. /\ r \in Seq(S) /\ Len(r) = Len(q) + b
      /\ \A i \in 1 .. Len(q) + b : r[i] = IF i <= Len(q) THEN q[i] ELSE t[i - Len(q)]
  BY <1>4, ConcatProperties
<1> HIDE DEF r, b
<1> DEFINE d == a + 1 - m
<1>7. d \in Nat /\ Len(q) = d /\ Len(r) = d + b /\ Len(p) = d + b /\ m + d = a + 1
  BY <1>1, <1>3, <1>4, <1>5, <1>6
<1>8. ASSUME NEW i \in 1 .. d + b PROVE p[i] = r[i]
  <2>1. p[i] = u[m + i - 1]
    BY <1>1, <1>3, <1>5
  <2>2. r[i] = IF i <= d THEN q[i] ELSE t[i - d]
    BY <1>6, <1>7
  <2>3. m + i - 1 \in 1 .. a + b /\ (i <= d <=> m + i - 1 <= a) /\ (m + i - 1) - a = i - d /\ i \in Nat \ {0}
    BY <1>1, <1>3
  <2>4. i <= d => q[i] = s[m + i - 1]
    BY <1>4, <2>3
  <2> HIDE DEF d
  <2> QED BY <1>2, <2>1, <2>2, <2>3, <2>4
<1> HIDE DEF d
<1>9. p = r
  BY <1>5, <1>6, <1>7, <1>8, SeqEqual
<1> QED BY <1>9 DEF p, q, r, u, a

\* What is appended to the buffer is pending after what was.
LEMMA PendingOfPut ==
    ASSUME NEW o \in OStreams, o.off <= Len(o.at), NEW text \in Text
    PROVE  /\ PutBytes(o, text) \in OStreams
           /\ PutBytes(o, text).off <= Len(PutBytes(o, text).at)
           /\ Pending(PutBytes(o, text)) = Pending(o) \o text
<1> DEFINE u == PutBytes(o, text)
<1> DEFINE s == o.at
<1> DEFINE m == o.off + 1
<1>1. s \in Seq(Characters) /\ text \in Seq(Characters) /\ o.off \in Nat /\ Len(s) \in Nat /\ Len(text) \in Nat
  BY LenProperties DEF OStreams, Text
<1>2. u.at = s \o text /\ u.off = o.off
  BY DEF PutBytes, OStreams
<1>3. s \o text \in Seq(Characters) /\ Len(s \o text) = Len(s) + Len(text)
  BY <1>1, ConcatProperties
<1>4. u \in OStreams
  BY <1>3 DEF PutBytes, OStreams, Text
<1>5. u.off <= Len(u.at)
  BY <1>1, <1>2, <1>3
<1>6. m \in 1 .. Len(s) + 1
  BY <1>1
<1>7. Pending(u) = SubSeq(s \o text, m, Len(s \o text)) /\ Pending(o) = SubSeq(s, m, Len(s))
  BY <1>2 DEF Pending
<1> HIDE DEF u, s, m
<1>8. Pending(u) = Pending(o) \o text
  BY <1>1, <1>6, <1>7, SuffixOfConcat
<1> QED BY <1>4, <1>5, <1>8 DEF u

\* A write takes the beginning of what is pending.
LEMMA PendingOfWrote ==
    ASSUME NEW o \in OStreams, o.off <= Len(o.at), NEW n \in 1 .. Len(Pending(o))
    PROVE  /\ Wrote(o, n) \in OStreams /\ Wrote(o, n).off <= Len(Wrote(o, n).at)
           /\ Piece(o, n) \in Text
           /\ Pending(o) = Piece(o, n) \o Pending(Wrote(o, n))
<1> DEFINE s == o.at
<1> DEFINE u == Wrote(o, n)
<1>1. /\ s \in Seq(Characters) /\ o.off \in Nat /\ Len(s) \in Nat /\ Len(Pending(o)) = Len(s) - o.off
  BY PendingFacts DEF OStreams, Text
<1>2. n \in Nat \ {0} /\ o.off + n <= Len(s)
  BY <1>1
<1>3. u.at = s /\ u.off = o.off + n /\ u = [at |-> o.at, off |-> o.off + n, lg |-> o.lg]
  BY <1>1 DEF Wrote, OStreams
<1>4. u \in OStreams /\ u.off <= Len(u.at)
  BY <1>1, <1>2, <1>3 DEF OStreams
<1> HIDE DEF u
<1> DEFINE m == o.off + 1
<1> DEFINE k == o.off + n
<1>5. m \in 1 .. Len(s) + 1 /\ k \in m - 1 .. Len(s) /\ Len(s) \in k .. Len(s)
  BY <1>1, <1>2
<1>6. Piece(o, n) = SubSeq(s, m, k) /\ Pending(o) = SubSeq(s, m, Len(s)) /\ Pending(u) = SubSeq(s, k + 1, Len(s))
  BY <1>3 DEF Piece, Pending
<1> HIDE DEF s, m, k
<1>7. SubSeq(s, m, k) \o SubSeq(s, k + 1, Len(s)) = SubSeq(s, m, Len(s))
  BY <1>1, <1>5, ConcatAdjacentSubSeq
<1>8. SubSeq(s, m, k) \in Seq(Characters)
  <2>1. m \in Int /\ k \in Int /\ \A i \in m .. k : i \in 1 .. Len(s)
    BY <1>1, <1>5
  <2>2. \A i \in m .. k : s[i] \in Characters
    BY <1>1, <2>1, ElementOfSeq
  <2> QED BY <2>1, <2>2, SubSeqProperties
<1> QED BY <1>4, <1>6, <1>7, <1>8 DEF u, Text

\* Moving what is left to the front changes nothing about it.
LEMMA PendingOfLeftOver ==
    ASSUME NEW o \in OStreams, o.off <= Len(o.at)
    PROVE  /\ LeftOver(o) \in OStreams /\ LeftOver(o).off <= Len(LeftOver(o).at)
           /\ LeftOver(o).at = Pending(o) /\ Pending(LeftOver(o)) = Pending(o)
<1> DEFINE u == LeftOver(o)
<1> DEFINE p == Pending(o)
<1>1. u.at = p /\ u.off = 0
  BY DEF LeftOver, OStreams
<1>2. p \in Text /\ Len(p) \in Nat
  BY PendingFacts, LenProperties DEF Text
<1>3. u \in OStreams
  <2>1. Pending(o) \in Text
    BY <1>2
  <2> QED BY <2>1 DEF LeftOver, OStreams
<1> HIDE DEF p
<1> HIDE DEF u
<1>0. u.off <= Len(u.at)
  BY <1>1, <1>2
<1>4. Pending(u) = SubSeq(p, 1, Len(p))
  BY <1>1 DEF Pending
<1>5. SubSeq(p, 1, Len(p)) = p
  BY <1>2, SubSeqFull DEF Text
<1> QED BY <1>0, <1>1, <1>3, <1>4, <1>5 DEF p, u

LEMMA EmptyPending == EmptyO \in OStreams /\ EmptyO.off <= Len(EmptyO.at) /\ Pending(EmptyO) = <<>>
<1>1. EmptyO.at = <<>> /\ EmptyO.off = 0 /\ <<>> \in Text /\ Len(<<>>) = 0
  BY EmptySeq DEF EmptyO, Text
<1>2. EmptyO \in OStreams
  BY <1>1 DEF EmptyO, OStreams
<1>3. Pending(EmptyO) = SubSeq(<<>>, 1, 0)
  BY <1>1 DEF Pending
<1>4. SubSeq(<<>>, 1, 0) = <<>>
  BY SubSeqEmpty
<1> QED BY <1>1, <1>2, <1>3, <1>4

LEMMA WriterStart == WriterInit => WriterInv
<1> SUFFICES ASSUME WriterInit PROVE WriterInv
  OBVIOUS
<1>1. PICK s \in StreamStarts :
        /\ xout = [state |-> "open", o |-> [EmptyO EXCEPT !.lg = s.outLg], items |-> s.items, next |-> 1,
                   inLg |-> s.inLg, fails |-> s.fails, numbers |-> s.numbers, lost |-> <<>>]
        /\ sink = <<>> /\ said = <<>>
  BY DEF WriterInit
<1> DEFINE o == [EmptyO EXCEPT !.lg = s.outLg]
<1>2. /\ s.items \in Seq(Items) /\ s.outLg \in Nat /\ s.inLg \in Nat /\ s.fails \in BOOLEAN /\ s.numbers \in BOOLEAN
      /\ \A i \in DOMAIN s.items : s.items[i].op \in {"repeat", "size"} => s.items[i].n >= 0
  BY StreamsAssumption
<1>3. <<>> \in Text /\ Len(<<>>) = 0 /\ sink \in Seq(Text) /\ said \in Text /\ <<>> \o <<>> = <<>>
  BY <1>1, EmptySeq, ConcatEmptySeq DEF Text
<1>4. o = [at |-> <<>>, off |-> 0, lg |-> s.outLg]
  BY DEF EmptyO
<1> HIDE DEF o
<1>5. o \in OStreams /\ o.off <= Len(o.at)
  BY <1>2, <1>3, <1>4 DEF OStreams
<1>6. Pending(o) = SubSeq(<<>>, 1, 0)
  BY <1>3, <1>4 DEF Pending
<1>7. Pending(o) = <<>>
  BY <1>6, SubSeqEmpty
<1>8. FlattenSeq(sink) = <<>>
  BY <1>1, <1>3 DEF FlattenSeq
<1>9. xout = [state |-> "open", o |-> o, items |-> s.items, next |-> 1,
              inLg |-> s.inLg, fails |-> s.fails, numbers |-> s.numbers, lost |-> <<>>]
  BY <1>1 DEF o
<1>10. WriterTyped
  BY <1>2, <1>3, <1>5, <1>9 DEF WriterTyped, WriterStates
<1>11. StreamsKeepOrder
  BY <1>1, <1>3, <1>7, <1>8, <1>9 DEF StreamsKeepOrder
<1> QED BY <1>10, <1>11 DEF WriterInv

LEMMA PutNextKeeps ==
    ASSUME WriterInv, PutNext
    PROVE  WriterInv'
<1> DEFINE item == xout.items[xout.next]
<1> DEFINE o == PutItem(xout.o, item)
<1> DEFINE text == PutItem(EmptyO, item).at
<1>1. /\ xout.state = "open" /\ xout.next \in 1 .. Len(xout.items) /\ xout.lost = <<>>
      /\ xout.o \in OStreams /\ xout.o.off <= Len(xout.o.at) /\ xout.items \in Seq(Items)
      /\ sink \in Seq(Text) /\ said \in Text
  BY DEF WriterInv, WriterTyped, PutNext
<1>2. item \in Items /\ (item.op \in {"repeat", "size"} => item.n >= 0)
  <2>1. DOMAIN xout.items = 1 .. Len(xout.items)
    BY <1>1, LenProperties
  <2> QED BY <1>1, <2>1, ElementOfSeq DEF WriterInv, WriterTyped
<1>3. /\ said' = said \o text
      /\ xout' = [xout EXCEPT !.o = o, !.next = @ + 1,
                              !.state = IF item.op = "flush" \/ Due(o) THEN "flushing" ELSE @]
      /\ sink' = sink
  BY DEF PutNext, PutOut
<1> HIDE DEF item
<1>4. text \in Text /\ o = PutBytes(xout.o, text)
  BY <1>1, <1>2, PutItemAdds
<1> HIDE DEF o, text
<1>5. o \in OStreams /\ o.off <= Len(o.at) /\ Pending(o) = Pending(xout.o) \o text
  BY <1>1, <1>4, PendingOfPut
<1> DEFINE state == IF item.op = "flush" \/ Due(o) THEN "flushing" ELSE "open"
<1>6. state \in WriterStates /\ state # "closed"
  BY DEF WriterStates
<1>7. xout' = [xout EXCEPT !.o = o, !.next = xout.next + 1, !.state = state]
  BY <1>1, <1>3
<1> HIDE DEF state
<1>8. said' \in Text
  BY <1>1, <1>3, <1>4, ConcatProperties DEF Text
<1>9. /\ xout' \in [state : WriterStates, o : OStreams, items : Seq(Items), next : Nat \ {0}, inLg : Nat,
                    fails : BOOLEAN, numbers : BOOLEAN, lost : Text]
      /\ xout'.o = o /\ xout'.items = xout.items /\ xout'.lost = <<>> /\ xout'.state = state
  <2> DEFINE k == xout.next + 1
  <2>1. k \in Nat \ {0} /\ xout' = [xout EXCEPT !.o = o, !.next = k, !.state = state]
    BY <1>7 DEF WriterInv, WriterTyped
  <2>2. xout \in [state : WriterStates, o : OStreams, items : Seq(Items), next : Nat \ {0}, inLg : Nat,
                  fails : BOOLEAN, numbers : BOOLEAN, lost : Text]
    BY DEF WriterInv, WriterTyped
  <2> HIDE DEF k
  <2>3. xout'.o = o /\ xout'.items = xout.items /\ xout'.lost = xout.lost /\ xout'.state = state
    BY <2>1, <2>2
  <2>4. xout' \in [state : WriterStates, o : OStreams, items : Seq(Items), next : Nat \ {0}, inLg : Nat,
                   fails : BOOLEAN, numbers : BOOLEAN, lost : Text]
    BY <1>5, <1>6, <2>1, <2>2
  <2> QED BY <1>1, <2>3, <2>4
<1>10. WriterTyped'
  BY <1>1, <1>3, <1>5, <1>8, <1>9 DEF WriterInv, WriterTyped
<1>11. StreamsKeepOrder'
  <2> DEFINE f == FlattenSeq(sink)
  <2> DEFINE p == Pending(xout.o)
  <2>1. f \in Text /\ p \in Text /\ <<>> \in Text
    BY <1>1, FlattenAppend, PendingFacts, EmptySeq DEF Text
  <2>2. (f \o p) \o <<>> = said
    BY <1>1 DEF WriterInv, StreamsKeepOrder
  <2>3. StreamsKeepOrder' <=> (f \o (p \o text)) \o <<>> = said \o text
    BY <1>3, <1>5, <1>9 DEF StreamsKeepOrder
  <2> HIDE DEF f, p
  <2>4. f \o p \in Text /\ f \o (p \o text) = (f \o p) \o text
    BY <1>4, <2>1, ConcatProperties, ConcatAssociative DEF Text
  <2>5. (f \o p) \o <<>> = f \o p /\ (f \o p) \o text \in Text
    BY <1>4, <2>4, ConcatEmptySeq, ConcatProperties DEF Text
  <2>6. ((f \o p) \o text) \o <<>> = (f \o p) \o text
    BY <2>5, ConcatEmptySeq DEF Text
  <2> QED BY <2>2, <2>3, <2>4, <2>5, <2>6
<1> QED BY <1>10, <1>11 DEF WriterInv

LEMMA WriteOutKeeps ==
    ASSUME WriterInv, WriteOut
    PROVE  WriterInv'
<1>1. PICK n \in 1 .. Len(Pending(xout.o)) :
        /\ xout' = [xout EXCEPT !.o = Wrote(xout.o, n)]
        /\ sink' = Append(sink, Piece(xout.o, n))
  BY DEF WriteOut
<1> DEFINE o == Wrote(xout.o, n)
<1> DEFINE piece == Piece(xout.o, n)
<1>2. /\ xout.state \in {"flushing", "closing"} /\ xout.lost = <<>> /\ said' = said
      /\ xout.o \in OStreams /\ xout.o.off <= Len(xout.o.at)
      /\ sink \in Seq(Text) /\ said \in Text
  BY DEF WriterInv, WriterTyped, WriteOut
<1>3. o \in OStreams /\ o.off <= Len(o.at) /\ piece \in Text /\ Pending(xout.o) = piece \o Pending(o)
  BY <1>2, PendingOfWrote
<1>4. xout' = [xout EXCEPT !.o = o] /\ sink' = Append(sink, piece)
  BY <1>1
<1> HIDE DEF o, piece
<1>5. sink' \in Seq(Text)
  BY <1>2, <1>3, <1>4, AppendProperties
<1>6. /\ xout' \in [state : WriterStates, o : OStreams, items : Seq(Items), next : Nat \ {0}, inLg : Nat,
                    fails : BOOLEAN, numbers : BOOLEAN, lost : Text]
      /\ xout'.o = o /\ xout'.items = xout.items /\ xout'.lost = <<>> /\ xout'.state = xout.state
  BY <1>2, <1>3, <1>4 DEF WriterInv, WriterTyped
<1>7. WriterTyped'
  BY <1>2, <1>3, <1>5, <1>6 DEF WriterInv, WriterTyped
<1>8. StreamsKeepOrder'
  <2> DEFINE f == FlattenSeq(sink)
  <2> DEFINE p == Pending(o)
  <2>1. f \in Text /\ FlattenSeq(Append(sink, piece)) = f \o piece
    BY <1>2, <1>3, FlattenAppend DEF Text
  <2>2. (f \o (piece \o p)) \o <<>> = said
    BY <1>2, <1>3 DEF WriterInv, StreamsKeepOrder
  <2>3. StreamsKeepOrder' <=> ((f \o piece) \o p) \o <<>> = said
    BY <1>2, <1>4, <1>6, <2>1 DEF StreamsKeepOrder
  <2>4. p \in Text
    BY <1>3, PendingFacts
  <2> HIDE DEF f, p
  <2>5. (f \o piece) \o p = f \o (piece \o p)
    BY <1>3, <2>1, <2>4, ConcatAssociative DEF Text
  <2> QED BY <2>2, <2>3, <2>5
<1> QED BY <1>7, <1>8 DEF WriterInv

LEMMA EndFlushKeeps ==
    ASSUME WriterInv, EndFlush
    PROVE  WriterInv'
<1> DEFINE o == LeftOver(xout.o)
<1>1. /\ xout.lost = <<>> /\ xout.o \in OStreams /\ xout.o.off <= Len(xout.o.at)
      /\ xout' = [xout EXCEPT !.state = "open", !.o = o] /\ sink' = sink /\ said' = said
  BY DEF WriterInv, WriterTyped, EndFlush
<1>2. o \in OStreams /\ o.off <= Len(o.at) /\ Pending(o) = Pending(xout.o)
  BY <1>1, PendingOfLeftOver
<1> HIDE DEF o
<1>3. /\ xout' \in [state : WriterStates, o : OStreams, items : Seq(Items), next : Nat \ {0}, inLg : Nat,
                    fails : BOOLEAN, numbers : BOOLEAN, lost : Text]
      /\ xout'.o = o /\ xout'.items = xout.items /\ xout'.lost = xout.lost
  BY <1>1, <1>2 DEF WriterInv, WriterTyped, WriterStates
<1>4. WriterTyped'
  BY <1>1, <1>2, <1>3 DEF WriterInv, WriterTyped
<1>5. StreamsKeepOrder'
  BY <1>1, <1>2, <1>3 DEF WriterInv, StreamsKeepOrder
<1> QED BY <1>4, <1>5 DEF WriterInv

LEMMA EndCloseKeeps ==
    ASSUME WriterInv, EndClose
    PROVE  WriterInv'
<1> DEFINE p == Pending(xout.o)
<1>1. /\ xout.lost = <<>> /\ xout.o \in OStreams /\ xout.o.off <= Len(xout.o.at) /\ sink \in Seq(Text)
      /\ xout' = [xout EXCEPT !.state = "closed", !.o = EmptyO, !.lost = LeftOver(xout.o).at]
      /\ sink' = sink /\ said' = said
  BY DEF WriterInv, WriterTyped, EndClose
<1>2. LeftOver(xout.o).at = p /\ p \in Text
  BY <1>1, PendingOfLeftOver, PendingFacts
<1>3. /\ xout' \in [state : WriterStates, o : OStreams, items : Seq(Items), next : Nat \ {0}, inLg : Nat,
                    fails : BOOLEAN, numbers : BOOLEAN, lost : Text]
      /\ xout'.o = EmptyO /\ xout'.items = xout.items /\ xout'.lost = p /\ xout'.state = "closed"
  BY <1>1, <1>2, EmptyPending DEF WriterInv, WriterTyped, WriterStates
<1>4. WriterTyped'
  BY <1>1, <1>3, EmptyPending DEF WriterInv, WriterTyped
<1>5. StreamsKeepOrder'
  <2> DEFINE f == FlattenSeq(sink)
  <2>1. (f \o p) \o <<>> = said
    BY <1>1 DEF WriterInv, StreamsKeepOrder
  <2>2. StreamsKeepOrder' <=> (f \o <<>>) \o p = said
    BY <1>1, <1>3, EmptyPending DEF StreamsKeepOrder
  <2>3. f \in Text
    BY <1>1, FlattenAppend, EmptySeq DEF Text
  <2> HIDE DEF f, p
  <2>4. f \o <<>> = f /\ f \o p \in Text
    BY <1>2, <2>3, ConcatEmptySeq, ConcatProperties DEF Text
  <2>5. (f \o p) \o <<>> = f \o p
    BY <2>4, ConcatEmptySeq DEF Text
  <2> QED BY <2>1, <2>2, <2>4, <2>5
<1> QED BY <1>4, <1>5 DEF WriterInv

\* Short writes, and writes that fail at any place, neither drop nor double nor
\* exchange anything: for every text, every way to cut it and every size at
\* which the stream is flushed.
THEOREM WriterKeepsOrder == WriterSpec => []StreamsKeepOrder
<1>1. WriterInv /\ [WriterNext]_writerVars => WriterInv'
  <2> SUFFICES ASSUME WriterInv, [WriterNext]_writerVars PROVE WriterInv'
    OBVIOUS
  <2>1. CASE BeginClose
    <3>1. /\ xout' = [xout EXCEPT !.state = "closing"] /\ sink' = sink /\ said' = said /\ xout.lost = <<>>
      BY <2>1 DEF WriterInv, WriterTyped, BeginClose
    <3>2. /\ xout' \in [state : WriterStates, o : OStreams, items : Seq(Items), next : Nat \ {0}, inLg : Nat,
                        fails : BOOLEAN, numbers : BOOLEAN, lost : Text]
          /\ xout'.o = xout.o /\ xout'.items = xout.items /\ xout'.lost = xout.lost
      BY <3>1 DEF WriterInv, WriterTyped, WriterStates
    <3>3. WriterTyped'
      BY <3>1, <3>2 DEF WriterInv, WriterTyped
    <3>4. StreamsKeepOrder'
      BY <3>1, <3>2 DEF WriterInv, StreamsKeepOrder
    <3> QED BY <3>3, <3>4 DEF WriterInv
  <2>2. CASE UNCHANGED writerVars
    BY <2>2 DEF WriterInv, WriterTyped, StreamsKeepOrder, writerVars
  <2> QED BY <2>1, <2>2, PutNextKeeps, WriteOutKeeps, EndFlushKeeps, EndCloseKeeps DEF WriterNext
<1>2. WriterInv => StreamsKeepOrder
  BY DEF WriterInv
<1> QED BY <1>1, <1>2, WriterStart, PTL DEF WriterSpec
=============================================================================
