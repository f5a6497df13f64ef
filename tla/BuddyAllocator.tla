--------------------------- MODULE BuddyAllocator ---------------------------
(***************************************************************************)
(* The DMA memory allocator of aurora_pci.c.  The pool is cut into blocks  *)
(* of maxbytes, linked in a global list under a spin lock.  Every thread   *)
(* has free lists of its own, one per block size, which it fills with a    *)
(* batch of blocks from the global list, splits and, as it frees, merges;  *)
(* nothing ever goes back to the global list, and a block is freed into    *)
(* the lists of the thread that frees it.                                  *)
(*                                                                         *)
(* A block of level l has 2^l units; a unit is 4096 bytes, the least that  *)
(* aurora_mem_alloc asks for (the lists of smaller blocks stay empty).  A  *)
(* free list is the sequence of its blocks' addresses.  What a call does   *)
(* to its thread's own lists is one step, with all its recursion; the      *)
(* steps on the spin lock and the global list are separate.                *)
(***************************************************************************)
EXTENDS Integers, FiniteSets, Sequences, SequencesExt

CONSTANTS Threads,
          MaxLists,     \* kFreeListIndexMax, 16 in the code
          MaxLevel,     \* level of a block of maxbytes
          Blocks,       \* blocks of maxbytes in the pool
          Batch,        \* blocks the refill loop walks over, 64 in the code
          MaxUsed       \* bound: blocks handed out or asked for at once

ASSUME PoolAssumption ==
    /\ MaxLists \in Nat /\ MaxLevel \in Nat /\ Blocks \in Nat \ {0} /\ Batch \in Nat
    /\ MaxUsed \in Nat
    /\ IsFiniteSet(Threads)

\* No limit on the constants but the law of powers for the sizes that occur,
\* which the provers do not know.
ASSUME PowerAssumption ==
    \A m \in 0 .. (MaxLevel + 1) :
        2^m \in Nat \ {0} /\ \A n \in 0 .. m : 2^m = 2^n * 2^(m - n)

VARIABLES
    global_freelist,
    freelist,               \* freelist[t][l]: thread t's list of level l
    freelist_current_index, \* lists handed out to threads
    freelist_index,         \* freelist_index[t], -1 until the thread has one
    lock,                   \* the spin lock of the global list
    pc,                     \* pc[t]: where thread t is
    want,                   \* want[t]: level thread t waits for
    used,                   \* blocks handed out: [addr, level]
    stranded,               \* free blocks in the lists of threads that ended
    up                      \* FALSE once the process has aborted

lists == <<global_freelist, freelist>>
indices == <<freelist_current_index, freelist_index>>
bvars == <<lists, indices, lock, pc, want, used, stranded, up>>

Levels == 0 .. MaxLevel
Units == 0 .. (Blocks * 2^MaxLevel - 1)
NoBlock == -1
Waiting == {t \in Threads : pc[t] # "idle"}
MayAsk == Cardinality(used) + Cardinality(Waiting) < MaxUsed

\* buddy_init, the first one of the process.
AllBlocks == [i \in 1 .. Blocks |-> (i - 1) * 2^MaxLevel]
NoLists == [t \in Threads |-> [l \in Levels |-> <<>>]]
BInit ==
    /\ global_freelist = AllBlocks /\ freelist = NoLists
    /\ freelist_current_index = 0
    /\ freelist_index = [t \in Threads |-> -1]
    /\ lock = FALSE
    /\ pc = [t \in Threads |-> "idle"] /\ want = [t \in Threads |-> 0]
    /\ used = {} /\ stranded = {} /\ up = TRUE

\* abort() ends the process; nothing of it remains.
abort ==
    /\ global_freelist' = <<>> /\ freelist' = NoLists
    /\ freelist_current_index' = 0
    /\ freelist_index' = [t \in Threads |-> -1]
    /\ lock' = FALSE
    /\ pc' = [t \in Threads |-> "idle"] /\ want' = [t \in Threads |-> 0]
    /\ used' = {} /\ stranded' = {} /\ up' = FALSE

\* get_freelist: a thread's first call takes the next of MaxLists lists.
OutOfLists_OffByOne(index) == index > MaxLists
OutOfLists(index) == index >= MaxLists
get_freelist(t) ==
    IF freelist_index[t] = -1
    THEN /\ freelist_current_index' = freelist_current_index + 1
         /\ freelist_index' = [freelist_index EXCEPT ![t] = freelist_current_index]
    ELSE UNCHANGED indices
NoList(t) == freelist_index[t] = -1 /\ OutOfLists(freelist_current_index)

-----------------------------------------------------------------------------
\* The block at a, of level j, is cut down to level l on the way back from
\* the recursion of buddy_malloc: each right half becomes the list of its
\* level, which was empty.
RightHalf(a, k) == a + 2^k
Split(free, a, j, l) ==
    [k \in Levels |-> IF k \in l .. (j - 1) THEN <<RightHalf(a, k)>> ELSE free[k]]
Hand(a, l) == used' = used \cup {[addr |-> a, level |-> l]}

\* aurora_mem_alloc rounds the size up to a level; buddy_malloc takes the head
\* of the first list from that level up that has one.
buddy_malloc(t, l) ==
    LET filled == {k \in l .. MaxLevel : freelist[t][k] # <<>>}
        j == Min(filled)
        list == freelist[t][j]
    IN  /\ up /\ pc[t] = "idle" /\ MayAsk /\ ~NoList(t)
        /\ filled # {}
        /\ freelist' = [freelist EXCEPT ![t] =
                           Split([@ EXCEPT ![j] = Tail(list)], Head(list), j, l)]
        /\ Hand(Head(list), l)
        /\ get_freelist(t)
        /\ UNCHANGED <<global_freelist, lock, pc, want, stranded, up>>

\* With no such list the thread spins for the global one.
malloc_spin(t, l) ==
    /\ up /\ pc[t] = "idle" /\ MayAsk /\ ~NoList(t)
    /\ \A k \in l .. MaxLevel : freelist[t][k] = <<>>
    /\ pc' = [pc EXCEPT ![t] = "spin"]
    /\ want' = [want EXCEPT ![t] = l]
    /\ get_freelist(t)
    /\ UNCHANGED <<lists, lock, used, stranded, up>>

\* The spin lock is got by the atomic_fetch_or that finds it free.
malloc_lock(t) ==
    /\ up /\ pc[t] = "spin" /\ ~lock
    /\ lock' = TRUE
    /\ pc' = [pc EXCEPT ![t] = "locked"]
    /\ UNCHANGED <<lists, indices, want, used, stranded, up>>

\* Under the lock: the first block is the result, the next Batch + 1 go to
\* the thread's own list and the rest stays.
TakenBlocks == SubSeq(global_freelist, 2, Min({Batch + 2, Len(global_freelist)}))
RestOfBlocks_KeepsLast == SubSeq(global_freelist, Batch + 2, Len(global_freelist))
RestOfBlocks == SubSeq(global_freelist, Batch + 3, Len(global_freelist))
Unlocked_Never == lock
Unlocked == FALSE
malloc_refill(t) ==
    /\ up /\ pc[t] = "locked" /\ global_freelist # <<>>
    /\ freelist' = [freelist EXCEPT ![t] =
                       Split([@ EXCEPT ![MaxLevel] = TakenBlocks],
                             Head(global_freelist), MaxLevel, want[t])]
    /\ global_freelist' = RestOfBlocks
    /\ Hand(Head(global_freelist), want[t])
    /\ lock' = Unlocked
    /\ pc' = [pc EXCEPT ![t] = "idle"] /\ want' = [want EXCEPT ![t] = 0]
    /\ UNCHANGED <<indices, stranded, up>>

\* "memory exhausted": the global list is empty.  buddy_malloc returns NULL
\* with the lock taken, and aurora_mem_alloc aborts the process.
malloc_exhausted(t) ==
    /\ up /\ pc[t] = "locked" /\ global_freelist = <<>>
    /\ abort

\* A call aborts the process at once: more than maxbytes is asked for, or
\* there is no list for the thread.
call_abort(t, l) ==
    /\ up /\ pc[t] = "idle"
    /\ l > MaxLevel \/ NoList(t)
    /\ abort

-----------------------------------------------------------------------------
\* buddy_free walks down the list to the first block behind a.  It stops at a
\* left neighbour on its way, or finds the right neighbour there.
is_left_Always(a, l) == TRUE
is_left(a, l) == a % 2^(l + 1) = 0
MergesWith(a, b, l) == l < MaxLevel /\ a + 2^l = b /\ is_left(a, l)
InsertPos(list, a) ==
    Min({i \in DOMAIN list : a < list[i]} \cup {Len(list) + 1})
Partners(list, a, l) ==
    LET pos == InsertPos(list, a)
    IN  {i \in 1 .. (pos - 1) : MergesWith(list[i], a, l)}
        \cup {i \in {pos} \cap DOMAIN list : MergesWith(a, list[i], l)}

\* A neighbour is taken off its list and the merged block freed one level up,
\* until there is none: Merged(free, b)[k] is the block that is freed at level k.
Merged(free, b) ==
    LET hand[k \in b.level .. MaxLevel] ==
            IF k = b.level THEN b.addr
            ELSE LET a == hand[k - 1]
                     found == Partners(free[k - 1], a, k - 1)
                 IN  IF a = NoBlock \/ found = {} THEN NoBlock
                     ELSE Min({a, free[k - 1][Min(found)]})
    IN  hand
buddy_free(t, b) ==
    LET free == freelist[t]
        hand == Merged(free, b)
        top == Max({k \in b.level .. MaxLevel : hand[k] # NoBlock})
    IN  /\ up /\ pc[t] = "idle" /\ b \in used /\ ~NoList(t)
        /\ used' = used \ {b}
        /\ freelist' = [freelist EXCEPT ![t] = [k \in Levels |->
              CASE k \in b.level .. (top - 1) ->
                       RemoveAt(free[k], Min(Partners(free[k], hand[k], k)))
                [] k = top -> InsertAt(free[k], InsertPos(free[k], hand[k]), hand[k])
                [] OTHER -> free[k]]]
        /\ get_freelist(t)
        /\ UNCHANGED <<global_freelist, lock, pc, want, stranded, up>>

\* A thread ends and another one starts in its place.  freelist_index is
\* thread local: the new thread has none, and the lists of the old one, with
\* all that is on them, are out of everybody's reach.
thread_exit(t) ==
    /\ up /\ pc[t] = "idle" /\ freelist_index[t] # -1
    /\ stranded' = stranded \cup UNION {
          {[addr |-> a, level |-> l] : a \in ToSet(freelist[t][l])} : l \in Levels}
    /\ freelist' = [freelist EXCEPT ![t] = [l \in Levels |-> <<>>]]
    /\ freelist_index' = [freelist_index EXCEPT ![t] = -1]
    /\ UNCHANGED <<global_freelist, freelist_current_index, lock, pc, want, used, up>>

InAllocator(t) == malloc_lock(t) \/ malloc_refill(t) \/ malloc_exhausted(t)

BNext ==
    \E t \in Threads :
        \/ \E l \in Levels : buddy_malloc(t, l) \/ malloc_spin(t, l)
        \/ \E b \in used : buddy_free(t, b)
        \/ InAllocator(t)
        \/ thread_exit(t)
        \/ \E l \in 0 .. (MaxLevel + 1) : call_abort(t, l)

BSpec == BInit /\ [][BNext]_bvars

\* A thread inside the allocator keeps running.
BFairSpec == BSpec /\ \A t \in Threads : WF_bvars(InAllocator(t))

-----------------------------------------------------------------------------
\* Every variable has its type; a thread's index is that of an existing list.
BTypeOK ==
    /\ ToSet(global_freelist) \subseteq Units
    /\ \A t \in Threads, l \in Levels : ToSet(freelist[t][l]) \subseteq Units
    /\ freelist_current_index \in 0 .. MaxLists
    /\ freelist_index \in [Threads -> -1 .. (MaxLists - 1)]
    /\ lock \in BOOLEAN /\ up \in BOOLEAN
    /\ pc \in [Threads -> {"idle", "spin", "locked"}] /\ want \in [Threads -> Levels]
    /\ used \cup stranded \subseteq [addr : Units, level : Levels]

\* Every block the allocator knows of, with the place that holds it.
Holdings ==
    {[addr |-> b.addr, level |-> b.level, at |-> <<"used">>] : b \in used}
    \cup {[addr |-> b.addr, level |-> b.level, at |-> <<"stranded">>] : b \in stranded}
    \cup {[addr |-> global_freelist[i], level |-> MaxLevel, at |-> <<"global", i>>] :
              i \in DOMAIN global_freelist}
    \cup UNION {{[addr |-> freelist[t][l][i], level |-> l, at |-> <<t, i>>] :
              i \in DOMAIN freelist[t][l]} : t \in Threads, l \in Levels}

\* The pool is partitioned: no unit of DMA memory is in two blocks, whoever
\* holds them, so that two I/Os never share a buffer; and none is lost.
Partitioned ==
    LET all == Holdings
    IN  up => \A u \in Units :
            Cardinality({h \in all : h.addr <= u /\ u < h.addr + 2^h.level}) = 1

\* It stays a buddy system: blocks are aligned to their size, a thread's lists
\* are in address order (the walk of buddy_free relies on it), and two halves
\* of a block that one thread has freed have been merged.
BuddySystem ==
    /\ \A h \in Holdings : h.addr % 2^h.level = 0
    /\ \A t \in Threads, l \in Levels : \A i, j \in DOMAIN freelist[t][l] :
          i < j => /\ freelist[t][l][i] < freelist[t][l][j]
                   /\ ~MergesWith(freelist[t][l][i], freelist[t][l][j], l)

\* Every allocation comes back or ends the process: the spin lock is not held
\* for ever, and as each holder takes blocks off the global list for good, no
\* thread starves on it although nothing but luck hands it over.
AllocReturns == \A t \in Threads : pc[t] # "idle" ~> pc[t] = "idle" \/ ~up
=============================================================================
