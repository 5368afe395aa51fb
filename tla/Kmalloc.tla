------------------------------ MODULE Kmalloc ------------------------------
(***************************************************************************)
(* The heap of libpi: a pointer that kmalloc moves up and kfree_after puts  *)
(* back.  Nothing is recorded of the blocks: what a program may still use   *)
(* is kept here as history.                                                *)
(*                                                                         *)
(*   cs140e-kmalloc.c   kmalloc, kfree, kfree_after, kfree_all             *)
(***************************************************************************)
EXTENDS Integers

CONSTANTS
  HeapStart,  \* __heap_start__
  HeapTop,    \* bound: the memory that is looked at; the code knows no end
  BlockSizes  \* sizes the program asks for

ASSUME HeapAssumption ==
  /\ HeapStart \in Nat \ {0} /\ HeapStart % 8 = 0 /\ HeapTop \in Nat
  /\ HeapStart <= HeapTop /\ BlockSizes \subseteq Nat

VARIABLES
  heap,   \* the pointer
  mem,    \* each byte: 0, the block whose owner wrote it, or what was there before
  live    \* the blocks in use

heapVars == <<heap, mem, live>>

Addresses == HeapStart..(HeapTop - 1)
Inside(a, b) == b.at <= a /\ a < b.at + b.size
Chunk(at, size, written) == [at |-> at, size |-> size, written |-> written]

HeapInit ==
  /\ heap = HeapStart /\ live = {}
  /\ mem = [a \in Addresses |-> HeapTop]

\* Mutant of RoundUp: down.
RoundDown(x) == (x \div 8) * 8

\* roundup(x, sizeof(union align))
RoundUp(x) == ((x + 7) \div 8) * 8

\* memset(p, c, n)
Memset(p, c, n) == [a \in Addresses |-> IF p <= a /\ a < p + n THEN c ELSE mem[a]]

KmallocCall ==
  \E sz \in BlockSizes :
    LET n == RoundUp(sz) IN
    /\ heap + n <= HeapTop /\ heap' = heap + n
    /\ mem' = Memset(heap, 0, n)
    /\ live' = live \cup {Chunk(heap, sz, FALSE)}

\* The owner of a block fills it.
WriteBlock ==
  \E b \in live :
    /\ ~b.written
    /\ mem' = Memset(b.at, b.at, b.size)
    /\ live' = (live \ {b}) \cup {[b EXCEPT !.written = TRUE]}
    /\ UNCHANGED heap

\* kfree does nothing.
Kfree == \E b \in live : live' = live \ {b} /\ UNCHANGED <<heap, mem>>

\* kfree_after(p): the block at p and all above it are given up.
KfreeAfter ==
  \E b \in live : heap' = b.at /\ live' = {x \in live : x.at < b.at} /\ UNCHANGED mem
KfreeAll == heap' = HeapStart /\ live' = {} /\ UNCHANGED mem

HeapNext == KmallocCall \/ WriteBlock \/ Kfree \/ KfreeAfter \/ KfreeAll
HeapSpec == HeapInit /\ [][HeapNext]_heapVars
-----------------------------------------------------------------------------
\* A block starts where any type may, lies below the pointer, and shares no byte
\* with another block in use, whatever was freed before it was handed out.
BlocksApart ==
  \A b \in live :
    /\ b.at % 8 = 0 /\ HeapStart <= b.at /\ b.at + b.size <= heap
    /\ \A x \in live \ {b} : x.at + x.size <= b.at \/ b.at + b.size <= x.at

\* A block is all 0 until its owner writes it, also where the memory was used
\* before, and from then on it keeps what its owner wrote.
BlocksKeep ==
  \A b \in live : \A a \in Addresses : Inside(a, b) => mem[a] = IF b.written THEN b.at ELSE 0
=============================================================================
