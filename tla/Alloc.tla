-------------------------------- MODULE Alloc --------------------------------
(***************************************************************************)
(* The allocator of many small things that are released together           *)
(* (alloc.c).  It cuts what it is asked for from the end of its last block *)
(* and asks malloc() for a block of double size when the last one is too   *)
(* small.  Its own record lies at the end of the first block.              *)
(***************************************************************************)
EXTENDS Integers, Sequences
CONSTANTS MinBlock,              \* the size of the first block
          HeaderSize,            \* of a FildeshAlloc,
          HeaderAlign,           \* and what it is aligned to
          Bases,                 \* the addresses malloc() may return
          AllocSizes,            \* the sizes that are asked for
          Alignments,            \* and their alignments
          AllocMax               \* bound: how often the allocator is asked
VARIABLES blocks,                \* the blocks: address, size, and how much is left
          request,               \* what is being asked for
          regions                \* history: what was handed out
allocVars == <<blocks, request, regions>>

ASSUME AllocAssumption ==
    /\ MinBlock \in Nat /\ HeaderSize \in Nat /\ HeaderSize <= MinBlock
    /\ HeaderAlign \in Nat \ {0}
    /\ Bases \subseteq Nat /\ AllocSizes \subseteq Nat
    /\ Alignments \subseteq Nat \ {0}

Below(address, alignment) == address - (address % alignment)

NoRequest == [size |-> -1, alignment |-> 1]
Apart(from, size, base, cap) == from + size <= base \/ base + cap <= from

\* malloc() gives memory that no block holds.
FreeBase(base, cap) ==
    \A b \in 1 .. Len(blocks) : Apart(base, cap, blocks[b].base, blocks[b].cap)

\* open_FildeshAlloc(): the record is the first region.
FirstLeft == Below(MinBlock - HeaderSize, HeaderAlign)
AllocInit ==
    \E base \in Bases :
        /\ blocks = <<[base |-> base, cap |-> MinBlock, left |-> FirstLeft]>>
        /\ request = NoRequest
        /\ regions = <<[block |-> 1, at |-> base + FirstLeft, size |-> HeaderSize, alignment |-> 1]>>
AllocIdle == blocks = <<>> /\ request = NoRequest /\ regions = <<>>

Newest == blocks[Len(blocks)]
Place == Below(Newest.base + Newest.left - request.size, request.alignment)
\* Mutant of FitsNewest: only the size is looked at.
FitsSize == Newest.left > request.size
\* Whether the last block holds the request.  A block that is larger than the
\* request may still end too near its beginning for the alignment.
FitsNewest == Newest.left > request.size /\ Place >= Newest.base

Ask(size, alignment) ==
    /\ request = NoRequest /\ blocks # <<>> /\ Len(regions) <= AllocMax
    /\ request' = [size |-> size, alignment |-> alignment]
    /\ UNCHANGED <<blocks, regions>>

CreateBlock(base) ==
    /\ request # NoRequest /\ ~FitsNewest
    /\ FreeBase(base, 2 * Newest.cap)
    /\ blocks' = Append(blocks, [base |-> base, cap |-> 2 * Newest.cap, left |-> 2 * Newest.cap])
    /\ UNCHANGED <<request, regions>>

Reserve ==
    /\ request # NoRequest /\ FitsNewest
    /\ blocks' = [blocks EXCEPT ![Len(blocks)] = [Newest EXCEPT !.left = Place - Newest.base]]
    /\ regions' = Append(regions, [block |-> Len(blocks), at |-> Place, size |-> request.size,
                                   alignment |-> request.alignment])
    /\ request' = NoRequest

AllocNext ==
    \/ \E size \in AllocSizes, alignment \in Alignments : Ask(size, alignment)
    \/ \E base \in Bases : CreateBlock(base)
    \/ Reserve

AllocSpec == AllocInit /\ [][AllocNext]_allocVars

(***************************************************************************)
(* Properties.                                                             *)
(***************************************************************************)
RegionsApart ==
    \A i, j \in 1 .. Len(regions) :
        i # j => Apart(regions[i].at, regions[i].size, regions[j].at, regions[j].size)
RegionsAligned ==
    \A i \in 1 .. Len(regions) : regions[i].at % regions[i].alignment = 0
RegionsInside ==
    \A i \in 1 .. Len(regions) :
        LET r == regions[i]
            b == blocks[r.block]
        IN  b.base <= r.at /\ r.at + r.size <= b.base + b.cap

\* What is handed out lies within memory that malloc() gave, aligned as asked
\* for, and no two regions overlap, nor does one overlap the allocator's own
\* record, which is the first of them, whatever addresses malloc() returns and
\* however often a request does not fit (reserve_FildeshAlloc).
AllocSound == RegionsApart /\ RegionsAligned /\ RegionsInside

(***************************************************************************)
(* The inductive invariant: what is left of a block lies below everything  *)
(* that was cut from it.                                                   *)
(***************************************************************************)
Block == [base : Nat, cap : Nat, left : Nat]
Region == [block : Nat, at : Nat, size : Nat, alignment : Nat \ {0}]
AllocTypeOK ==
    /\ blocks \in Seq(Block) /\ blocks # <<>>
    /\ request = NoRequest \/ request \in [size : Nat, alignment : Nat \ {0}]
    /\ regions \in Seq(Region)
BlocksApart ==
    \A b, c \in 1 .. Len(blocks) :
        b # c => Apart(blocks[b].base, blocks[b].cap, blocks[c].base, blocks[c].cap)
LeftBelow ==
    /\ \A b \in 1 .. Len(blocks) : blocks[b].left <= blocks[b].cap
    /\ \A i \in 1 .. Len(regions) :
         LET r == regions[i]
         IN  /\ r.block \in 1 .. Len(blocks)
             /\ blocks[r.block].base + blocks[r.block].left <= r.at
             /\ r.at + r.size <= blocks[r.block].base + blocks[r.block].cap
AllocInv == AllocTypeOK /\ BlocksApart /\ LeftBelow /\ RegionsApart /\ RegionsAligned
=============================================================================
