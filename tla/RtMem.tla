-------------------------------- MODULE RtMem ---------------------------------
(***************************************************************************)
(* The heap: the small memory manager of RT-Thread (rt-thread/src/mem.c,    *)
(* RT_USING_SMALL_MEM).  The heap is a chain of blocks from address 0 to    *)
(* heap_end, each with a struct heap_mem in front; lfree is where a search  *)
(* begins.                                                                  *)
(*                                                                         *)
(* Every call works on the chain between rt_sem_take and rt_sem_release of  *)
(* heap_sem, so that it is one step; rt_realloc that moves a block is three,*)
(* with calls of other threads in between.  An address is an offset from    *)
(* heap_ptr.  Sizes are far from the end of rt_size_t.                      *)
(***************************************************************************)
EXTENDS Integers, FiniteSets, FiniteSetsExt

CONSTANTS
  Threads,
  mem_size_aligned,
  SIZEOF_STRUCT_MEM,
  MIN_SIZE,
  RT_ALIGN_SIZE,
  Sizes,        \* the sizes asked for
  Counts,       \* the numbers of objects rt_calloc is asked for
  None          \* no rt_realloc is under way

\* RT_ALIGN(n, RT_ALIGN_SIZE)
RT_ALIGN(n) == ((n + RT_ALIGN_SIZE - 1) \div RT_ALIGN_SIZE) * RT_ALIGN_SIZE

MIN_SIZE_ALIGNED == RT_ALIGN(MIN_SIZE)

ASSUME RtMemAssumption ==
  /\ RT_ALIGN_SIZE \in Nat \ {0}
  /\ MIN_SIZE \in Nat \ {0} /\ SIZEOF_STRUCT_MEM \in Nat \ {0}
  /\ SIZEOF_STRUCT_MEM % RT_ALIGN_SIZE = 0 /\ mem_size_aligned % RT_ALIGN_SIZE = 0
  /\ mem_size_aligned \in Nat /\ mem_size_aligned >= MIN_SIZE_ALIGNED
  /\ Sizes \subseteq Nat /\ Counts \subseteq Nat

heap_end == mem_size_aligned + SIZEOF_STRUCT_MEM

VARIABLES
  mem,        \* the struct heap_mem at the address of each block
  lfree,
  used_mem, max_mem,
  held,       \* the blocks the program has, and what it asked for
  moving,     \* the rt_realloc of each thread that is moving a block
  refused     \* history: the size the last call asked for in vain, or 0

vars == <<mem, lfree, used_mem, max_mem, held, moving, refused>>

\* rt_system_heap_init
Init ==
  /\ mem = [a \in {0, heap_end} |->
              [next |-> heap_end, prev |-> a, used |-> a = heap_end]]
  /\ lfree = 0
  /\ used_mem = 0 /\ max_mem = 0
  /\ held = [a \in {} |-> 0]
  /\ moving = [t \in Threads |-> None]
  /\ refused = 0

----------------------------------------------------------------------------
(* The chain                                                                *)

Free(m) == {a \in DOMAIN m : ~m[a].used}

\* The user data of a block.
DataSize(m, a) == m[a].next - (a + SIZEOF_STRUCT_MEM)

\* A free block at a2 takes the end of block a.
Split(m, a, a2) ==
  [b \in DOMAIN m \cup {a2} |->
     IF b = a2 THEN [next |-> m[a].next, prev |-> a, used |-> FALSE]
     ELSE IF b = a THEN [m[a] EXCEPT !.next = a2]
     ELSE IF b = m[a].next /\ b # heap_end THEN [m[b] EXCEPT !.prev = a2]
     ELSE m[b]]

\* Mutant: the block behind still points to the one that is gone.
JoinOneWay(m, a, n) ==
  [b \in DOMAIN m \ {n} |->
     IF b = a THEN [m[a] EXCEPT !.next = m[n].next] ELSE m[b]]

\* Block n, which follows a, becomes part of it.
Join(m, a, n) ==
  [b \in DOMAIN m \ {n} |->
     IF b = a THEN [m[a] EXCEPT !.next = m[n].next]
     ELSE IF b = m[n].next THEN [m[b] EXCEPT !.prev = a]
     ELSE m[b]]

plug_forward(h, a) ==
  LET n == h.mem[a].next
  IN  IF n # a /\ ~h.mem[n].used /\ n # heap_end
      THEN [mem |-> Join(h.mem, a, n), lfree |-> IF h.lfree = n THEN a ELSE h.lfree]
      ELSE h

\* Mutant: a hole before the block is left.
plug_backward_not(h, a) == h

plug_backward(h, a) ==
  LET p == h.mem[a].prev
  IN  IF p # a /\ ~h.mem[p].used
      THEN [mem |-> Join(h.mem, p, a), lfree |-> IF h.lfree = a THEN p ELSE h.lfree]
      ELSE h

plug_holes(h, a) == plug_backward(plug_forward(h, a), a)

----------------------------------------------------------------------------
(* rt_malloc, rt_calloc and rt_free                                         *)

\* The bytes a request needs, at least MIN_SIZE_ALIGNED.
Need(size) ==
  IF RT_ALIGN(size) < MIN_SIZE_ALIGNED THEN MIN_SIZE_ALIGNED ELSE RT_ALIGN(size)

\* The blocks the search finds: it follows the chain, upwards, from lfree.
Fitting(need) ==
  {a \in Free(mem) : /\ a >= lfree /\ a < mem_size_aligned - need
                     /\ DataSize(mem, a) >= need}

\* The block of the lowest address.
Lowest(S) == {a \in S : \A b \in S : a <= b}

\* lfree after block a has been taken.
NextFree(m, a) ==
  IF a = lfree THEN Lowest({b \in Free(m) : b >= lfree} \cup {heap_end}) ELSE {lfree}

\* The chain after block a has been taken, and split if the rest is worth it.
Take(a, need) ==
  LET m == IF DataSize(mem, a) >= need + SIZEOF_STRUCT_MEM + MIN_SIZE_ALIGNED
           THEN Split(mem, a, a + SIZEOF_STRUCT_MEM + need)
           ELSE mem
  IN  [m EXCEPT ![a].used = TRUE]

\* A request that is granted.
Malloc(size) ==
  LET need == Need(size)
  IN  /\ RT_ALIGN(size) <= mem_size_aligned
      /\ \E a \in Lowest(Fitting(need)) :
           /\ mem' = Take(a, need)
           /\ lfree' \in NextFree(mem', a)
           /\ used_mem' = used_mem + mem'[a].next - a
           /\ held' = [b \in DOMAIN held \cup {a} |-> IF b = a THEN size ELSE held[b]]
      /\ max_mem' = IF max_mem < used_mem' THEN used_mem' ELSE max_mem
      /\ refused' = 0

\* A request for which rt_malloc returns RT_NULL.
NoMemory(size) ==
  /\ RT_ALIGN(size) <= mem_size_aligned => Fitting(Need(size)) = {}
  /\ refused' = Need(size)
  /\ UNCHANGED <<mem, lfree, used_mem, max_mem, held>>

\* Mutant: a block below lfree is not noticed.
FreedKeepsLfree(a) ==
  plug_holes([mem |-> [mem EXCEPT ![a].used = FALSE], lfree |-> lfree], a)

\* The chain and lfree after block a has been given back.
Freed(a) ==
  plug_holes([mem |-> [mem EXCEPT ![a].used = FALSE],
              lfree |-> IF a < lfree THEN a ELSE lfree], a)

Release(a) ==
  /\ mem' = Freed(a).mem /\ lfree' = Freed(a).lfree
  /\ used_mem' = used_mem - (mem[a].next - a)
  /\ held' = [b \in DOMAIN held \ {a} |-> held[b]]
  /\ refused' = 0
  /\ UNCHANGED max_mem

Idle(t) == moving[t] = None

\* The blocks a thread may pass to a call: nobody is moving them.
Passable == DOMAIN held \ {moving[t].from : t \in {u \in Threads : ~Idle(u)}}

\* Also rt_realloc of a null pointer.
rt_malloc(t, size) ==
  /\ Idle(t) /\ size > 0
  /\ Malloc(size) \/ NoMemory(size)
  /\ UNCHANGED moving

\* The data, which is cleared, is left out.
rt_calloc(t, count, size) == rt_malloc(t, count * size)

rt_free(t, a) ==
  /\ Idle(t) /\ a \in Passable
  /\ Release(a)
  /\ UNCHANGED moving

----------------------------------------------------------------------------
(* rt_realloc                                                               *)

\* A size of 0 gives the block back.
ReallocFree(t, a, newsize) ==
  /\ Idle(t) /\ a \in Passable
  /\ RT_ALIGN(newsize) = 0
  /\ Release(a)
  /\ UNCHANGED moving

ReallocTooLarge(t, a, newsize) ==
  /\ Idle(t) /\ a \in Passable
  /\ RT_ALIGN(newsize) > mem_size_aligned
  /\ refused' = RT_ALIGN(newsize)
  /\ UNCHANGED <<mem, lfree, used_mem, max_mem, held, moving>>

Splits(a, newsize) ==
  RT_ALIGN(newsize) + SIZEOF_STRUCT_MEM + MIN_SIZE < DataSize(mem, a)

InRange(newsize) == RT_ALIGN(newsize) \in 1 .. mem_size_aligned

ReallocSame(t, a, newsize) ==
  /\ Idle(t) /\ a \in Passable
  /\ InRange(newsize) /\ RT_ALIGN(newsize) = DataSize(mem, a)
  /\ held' = [held EXCEPT ![a] = newsize]
  /\ refused' = 0
  /\ UNCHANGED <<mem, lfree, used_mem, max_mem, moving>>

\* Mutant: the statistics count the data of the rest as well.
ReallocShrinkStats(t, a, newsize) ==
  LET a2 == a + SIZEOF_STRUCT_MEM + RT_ALIGN(newsize)
      h == plug_holes([mem |-> Split(mem, a, a2), lfree |-> lfree], a2)
  IN  /\ Idle(t) /\ a \in Passable
      /\ InRange(newsize) /\ Splits(a, newsize)
      /\ mem' = h.mem /\ lfree' = h.lfree
      /\ used_mem' = used_mem - (DataSize(mem, a) - RT_ALIGN(newsize) - SIZEOF_STRUCT_MEM)
      /\ held' = [held EXCEPT ![a] = newsize]
      /\ refused' = 0
      /\ UNCHANGED <<max_mem, moving>>

\* The end of the block becomes free.  lfree is changed by plug_holes only: it may
\* stay above the new block.
ReallocShrink(t, a, newsize) ==
  LET a2 == a + SIZEOF_STRUCT_MEM + RT_ALIGN(newsize)
      h == plug_holes([mem |-> Split(mem, a, a2), lfree |-> lfree], a2)
  IN  /\ Idle(t) /\ a \in Passable
      /\ InRange(newsize) /\ Splits(a, newsize)
      /\ mem' = h.mem /\ lfree' = h.lfree
      /\ used_mem' = used_mem - (DataSize(mem, a) - RT_ALIGN(newsize))
      /\ held' = [held EXCEPT ![a] = newsize]
      /\ refused' = 0
      /\ UNCHANGED <<max_mem, moving>>

\* Any other size, also one that is a little smaller: a new block is needed.
ReallocMove(t, a, newsize) ==
  /\ Idle(t) /\ a \in Passable
  /\ InRange(newsize) /\ RT_ALIGN(newsize) # DataSize(mem, a) /\ ~Splits(a, newsize)
  /\ moving' = [moving EXCEPT ![t] = [from |-> a, newsize |-> RT_ALIGN(newsize), copied |-> FALSE]]
  /\ UNCHANGED <<mem, lfree, used_mem, max_mem, held, refused>>

\* rt_malloc(newsize), and rt_memcpy; without memory the old block stays.
MoveMalloc(t) ==
  /\ ~Idle(t) /\ ~moving[t].copied
  /\ \/ /\ Malloc(moving[t].newsize)
        /\ moving' = [moving EXCEPT ![t].copied = TRUE]
     \/ /\ NoMemory(moving[t].newsize)
        /\ moving' = [moving EXCEPT ![t] = None]

MoveFree(t) ==
  /\ ~Idle(t) /\ moving[t].copied
  /\ Release(moving[t].from)
  /\ moving' = [moving EXCEPT ![t] = None]

rt_realloc(t, a, newsize) ==
  \/ ReallocFree(t, a, newsize) \/ ReallocTooLarge(t, a, newsize)
  \/ ReallocSame(t, a, newsize) \/ ReallocShrink(t, a, newsize)
  \/ ReallocMove(t, a, newsize)

----------------------------------------------------------------------------

Next ==
  \E t \in Threads :
    \/ \E size \in Sizes : rt_malloc(t, size) \/ \E count \in Counts : rt_calloc(t, count, size)
    \/ \E a \in DOMAIN held : rt_free(t, a) \/ \E size \in Sizes : rt_realloc(t, a, size)
    \/ MoveMalloc(t) \/ MoveFree(t)

Spec == Init /\ [][Next]_vars

----------------------------------------------------------------------------
(* Properties                                                               *)

\* The blocks follow each other without gap or overlap from address 0 to
\* heap_end, each has room for data, the links back are those forth reversed
\* (heap_end's is not kept), and the blocks in use are the ones the program has.
HeapTiled ==
  /\ {0, heap_end} \cup DOMAIN held \subseteq DOMAIN mem /\ mem[heap_end].used
  /\ \A a \in DOMAIN mem \ {heap_end} :
       /\ mem[a].next \in DOMAIN mem
       /\ mem[a].next > a + SIZEOF_STRUCT_MEM
       /\ \A b \in DOMAIN mem : b <= a \/ mem[a].next <= b
       /\ a # 0 => mem[a].prev \in DOMAIN mem /\ mem[mem[a].prev].next = a
       /\ mem[a].used <=> a \in DOMAIN held
  /\ mem[0].prev = 0

\* Free blocks are merged with their neighbours, which rt_malloc counts on when it
\* takes a block whole ("plug_holes should have take care of this"), and lfree
\* is one of them, or heap_end.
HolesPlugged ==
  /\ \A a \in Free(mem) : mem[mem[a].next].used
  /\ lfree \in Free(mem) \cup {heap_end}

\* What list_mem tells of the heap is the sum of the blocks in use with their
\* headers, through every split, merge and move.
StatsExact ==
  /\ used_mem = MapThenSumSet(LAMBDA a : mem[a].next - a, DOMAIN held)
  /\ used_mem <= max_mem

\* A free block below lfree, where no search looks.
Hidden == \E a \in Free(mem) : a < lfree

Blocks == {[addr |-> a, end |-> mem[a].next, size |-> held[a]] : a \in DOMAIN held}

\* A block is aligned, large enough and disjoint from all others from the moment
\* it is granted until it is given back, also while rt_realloc moves it in three
\* steps; a request is refused only when no gap is large enough, when the only one
\* is that before heap_end and fits exactly, or when rt_realloc has left a free
\* block below lfree, which no other call does.
Allocator == INSTANCE BlockAllocator WITH
  HeapEnd <- heap_end, Header <- SIZEOF_STRUCT_MEM, Align <- RT_ALIGN_SIZE,
  blocks <- Blocks, hidden <- Hidden

ImplementsAllocator == Allocator!Spec

===============================================================================
