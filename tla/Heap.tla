-------------------------------- MODULE Heap --------------------------------
(***************************************************************************)
(* The heap of the firmware's C library: malloc, free, realloc and         *)
(* posix_memalign over one piece of memory, with a free list that they     *)
(* keep sorted by address and free of neighbours.  Memory is modelled as   *)
(* extents: what a header word says of a block is a field of its record.   *)
(***************************************************************************)
EXTENDS Integers, FiniteSets

CONSTANTS
  ORG,          \* _heaporg
  END,          \* _heapend
  Sizes,        \* the sizes a program asks for
  Alignments,   \* the alignments it asks posix_memalign for
  MaxBlocks     \* bound: blocks in use at a time

ADMIN == 4      \* HEAP_ADMIN_SPACE, sizeof (struct usedblock)
MIN == 6        \* sizeof (struct freeblock)

WORD == 65536   \* addresses and sizes have 16 bits

ASSUME HeapAssumption ==
  /\ ORG \in Nat \ {0} /\ END \in Nat /\ ORG <= END /\ END < WORD
  /\ Sizes \subseteq Nat \ {0} /\ \A n \in Sizes : n < WORD
  /\ Alignments \subseteq Nat \ {0} /\ \A a \in Alignments : a < WORD

VARIABLES
  heap,   \* _heapptr and the free list: [top, free], free a set of [at, size]
  used,   \* the blocks a program holds
  misled  \* history: a call has handed out a block that lacks room asked for

heapVars == <<heap, used, misled>>

NULL == 0

Word(x) == x % WORD

\* What no call looks at.
Wraps(x) == x >= WORD

End(b) == b.at + b.size

HeapInit == heap = [top |-> ORG, free |-> {}] /\ used = {} /\ misled = FALSE

-----------------------------------------------------------------------------
(* malloc and free on raw blocks, header included. *)

Raw(n) == IF Word(n + ADMIN) < MIN THEN MIN ELSE Word(n + ADMIN)

FirstFit(h, size) ==
  CHOOSE f \in h.free : /\ f.size >= size
                        /\ \A g \in h.free : g.size >= size => f.at <= g.at

\* The block malloc takes for size bytes, and the heap without it.
Take(h, size) ==
  IF \E f \in h.free : f.size >= size
  THEN LET f == FirstFit(h, size)
       IN IF f.size - size < MIN
          THEN [at |-> f.at, size |-> f.size, heap |-> [h EXCEPT !.free = @ \ {f}]]
          ELSE [at |-> f.at + (f.size - size), size |-> size,
                heap |-> [h EXCEPT !.free = (@ \ {f}) \cup
                                     {[at |-> f.at, size |-> f.size - size]}]]
  ELSE IF h.top + size <= END
  THEN [at |-> h.top, size |-> size, heap |-> [h EXCEPT !.top = @ + size]]
  ELSE [at |-> NULL, size |-> 0, heap |-> h]

\* malloc asked for n bytes, a word like any size.
Get(h, n) ==
  IF n = 0 THEN [at |-> NULL, size |-> 0, heap |-> h] ELSE Take(h, Raw(n))

Left(h, b) == {f \in h.free : End(f) = b.at}
Right(h, b) == {f \in h.free : f.at = End(b)}
The(S) == CHOOSE f \in S : TRUE
StartOf(h, b) == IF Left(h, b) = {} THEN b.at ELSE The(Left(h, b)).at
EndOf(h, b) == IF Right(h, b) = {} THEN End(b) ELSE End(The(Right(h, b)))

\* Mutant: the free block below a block freed at the top stays in the list.
Give_keepsLast(h, b) ==
  IF End(b) = h.top
  THEN [h EXCEPT !.top = b.at]
  ELSE [h EXCEPT !.free = (@ \ (Left(h, b) \cup Right(h, b))) \cup
          {[at |-> StartOf(h, b), size |-> EndOf(h, b) - StartOf(h, b)]}]

\* What free leaves: a block at the top lowers it, and takes the free block
\* below along; any other joins the free blocks on either side of it.
Give(h, b) ==
  IF End(b) = h.top
  THEN [top |-> StartOf(h, b), free |-> h.free \ Left(h, b)]
  ELSE [h EXCEPT !.free = (@ \ (Left(h, b) \cup Right(h, b))) \cup
          {[at |-> StartOf(h, b), size |-> EndOf(h, b) - StartOf(h, b)]}]

-----------------------------------------------------------------------------
(* The calls a program makes.  A size of 0 takes nothing: malloc returns NULL *)
(* for it, realloc frees, posix_memalign refuses.                            *)
(*                                                                           *)
(* No call looks whether a size wraps when it adds to it, and realloc none   *)
(* whether the block it resizes has a gap.  Such a call succeeds, but some   *)
(* of the bytes the program asked for are not in its block (or, for a byte   *)
(* above a gap of one, the word below it that leads to the block is torn).   *)
(* It is a step here as it is in the code, and sets misled; once the program *)
(* writes these bytes no header is safe, and what calls do from there on is  *)
(* not modelled.                                                             *)

\* A block as the program has it: it asked for want bytes at ptr.
Block(ptr, at, size, want, align) ==
  [ptr |-> ptr, at |-> at, size |-> size, want |-> want, align |-> align]

malloc(n) ==
  LET r == Get(heap, n)
  IN /\ ~misled /\ Cardinality(used) < MaxBlocks
     /\ heap' = r.heap
     /\ used' = IF r.at = NULL THEN used
                ELSE used \cup {Block(r.at + ADMIN, r.at, r.size, n, 1)}
     /\ misled' = (r.at # NULL /\ Wraps(n + ADMIN))

free(b) ==
  /\ ~misled
  /\ heap' = Give(heap, b)
  /\ used' = used \ {b}
  /\ UNCHANGED misled

\* posix_memalign may leave a gap between the two words of a header.
Whole(b) == b.ptr = b.at + ADMIN

\* Where the top comes when the block b at the top has room for n bytes.
NewTop(b, n) == heap.top + Raw(n) - b.size

\* A block at the top grows or shrinks where it is; a gap counts as room.
Resizes(b, n) ==
  /\ End(b) = heap.top /\ Word(NewTop(b, n)) <= END
  /\ heap' = [heap EXCEPT !.top = Word(NewTop(b, n))]
  /\ used' = (used \ {b}) \cup {Block(b.ptr, b.at, Raw(n), n, b.align)}
  /\ misled' = (~Whole(b) \/ Wraps(n + ADMIN) \/ Wraps(NewTop(b, n)))

\* Any other moves; malloc adds a header to the size that has one already.
Moves(b, n) ==
  LET r == Get(heap, Raw(n))
  IN /\ ~(End(b) = heap.top /\ Word(NewTop(b, n)) <= END)
     /\ heap' = IF r.at = NULL THEN heap ELSE Give(r.heap, b)
     /\ used' = IF r.at = NULL THEN used
                ELSE (used \ {b}) \cup {Block(r.at + ADMIN, r.at, r.size, n, 1)}
     /\ misled' = (r.at # NULL /\ (Wraps(n + ADMIN) \/ Wraps(Raw(n) + ADMIN)))

realloc(b, n) == ~misled /\ (Resizes(b, n) \/ Moves(b, n))

\* Mutant: rounds down.
RoundUp_down(x, align) == (x \div align) * align

RoundUp(x, align) == ((x + (align - 1)) \div align) * align

\* What posix_memalign gives back above and below the aligned block u of the
\* raw block b: either piece only if it and the rest can live as blocks.
Trim(h, b, u, n) ==
  LET p == Word(u + n)
      rest == Word(p - b.at)
      upper == [at |-> p, size |-> Word(b.size - rest)]
      cutUp == upper.size >= MIN /\ rest >= MIN
      rawsize == IF cutUp THEN rest ELSE b.size
      lower == [at |-> b.at, size |-> Word(u - b.at - ADMIN)]
      cutLow == lower.size >= MIN /\ Word(rawsize - lower.size) >= MIN
      h1 == IF cutUp THEN Give(h, upper) ELSE h
  IN [heap |-> IF cutLow THEN Give(h1, lower) ELSE h1,
      at |-> IF cutLow THEN u - ADMIN ELSE b.at,
      size |-> IF cutLow THEN Word(rawsize - lower.size) ELSE rawsize]

IsPowerOfTwo(x) == \E k \in 0..15 : x = 2^k

\* An alignment that is no power of two is refused.
posix_memalign(align, n) ==
  LET r == Get(heap, Word(n + (align - 1)))
      u == Word(RoundUp(r.at + ADMIN, align))
      t == Trim(r.heap, r, u, n)
  IN /\ ~misled /\ Cardinality(used) < MaxBlocks /\ IsPowerOfTwo(align)
     /\ heap' = IF r.at = NULL THEN heap ELSE t.heap
     /\ used' = IF r.at = NULL THEN used
                ELSE used \cup {Block(u, t.at, t.size, n, align)}
     /\ misled' = (r.at # NULL /\ Wraps(n + (align - 1) + ADMIN))

HeapNext ==
  \/ \E n \in Sizes : malloc(n)
  \/ \E b \in used : free(b)
  \/ \E b \in used, n \in Sizes : realloc(b, n)
  \/ \E align \in Alignments, n \in Sizes : posix_memalign(align, n)

HeapSpec == HeapInit /\ [][HeapNext]_heapVars

-----------------------------------------------------------------------------
(* What makes it correct. *)

IsExtent(b) == b.at \in Nat /\ b.size \in Nat /\ b.size >= MIN

HeapTypeOK ==
  /\ heap \in [top : ORG..END, free : SUBSET [at : Nat, size : Nat]]
  /\ used \subseteq [ptr : Nat, at : Nat, size : Nat, want : Nat, align : Nat]

Apart(b, c) == End(b) <= c.at \/ End(c) <= b.at

\* Blocks in use and free blocks lie below the top and share no byte.
NoOverlap(h, blocks) ==
  /\ \A b \in blocks \cup h.free : IsExtent(b) /\ ORG <= b.at /\ End(b) <= h.top
  /\ \A b, c \in blocks : b = c \/ Apart(b, c)
  /\ \A f, g \in h.free : f = g \/ Apart(f, g)
  /\ \A b \in blocks, f \in h.free : Apart(b, f)

\* No byte below the top is lost: each belongs to a block.
NothingLost(h, blocks) ==
  \A x \in ORG..(h.top - 1) : \E b \in blocks \cup h.free : b.at <= x /\ x < End(b)

\* Free blocks are as large as they can be: none touches another or the top.
Coalesced(h) ==
  \A f \in h.free : End(f) # h.top /\ \A g \in h.free : End(f) # g.at

HeapTiles(h, blocks) == NoOverlap(h, blocks) /\ NothingLost(h, blocks) /\ Coalesced(h)

\* A program's bytes lie in its block, above the header, where it asked.
RoomKept ==
  \A b \in used : b.at + ADMIN <= b.ptr /\ b.ptr + b.want <= End(b) /\ b.ptr % b.align = 0

\* Whatever the order of malloc, free, realloc and posix_memalign, the heap is
\* one row of blocks without gaps or overlaps, and every block has the room
\* asked for: nothing of a program is handed out twice or lost for good.  This
\* holds until a call misleads the program: it took a size that wraps 16 bits
\* (malloc.s:130, realloc.c:64 and 83, pmemalign.c:89), or resized a block with
\* a gap at the top (realloc.c:79-88).
HeapSound == ~misled => HeapTypeOK /\ HeapTiles(heap, used) /\ RoomKept
=============================================================================
