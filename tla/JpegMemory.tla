----------------------------- MODULE JpegMemory -----------------------------
(***************************************************************************)
(* The memory manager of jmemmgr.c: pools of small objects, large objects  *)
(* and the virtual arrays of VirtualArray that are built from them.  Sizes *)
(* are in bytes of a small machine; malloc may fail at any call, and every *)
(* error exits through jpeg_destroy (jerror.c, error_exit).                *)
(***************************************************************************)
EXTENDS VirtualArray, SequencesExt

CONSTANTS
  ALIGN, HDR,              \* SIZEOF(ALIGN_TYPE), SIZEOF(small_pool_hdr)
  MAX_ALLOC_CHUNK, MIN_SLOP,
  first_pool_slop, extra_pool_slop,
  MgrSize, ControlSize,    \* SIZEOF(my_memory_mgr) and of a virtual array control block
  Element,                 \* Element[a] : SIZEOF(JSAMPLE) or SIZEOF(JBLOCK)
  Width,                   \* Width[a] : elements in a row of virtual array a
  SArrays,                 \* the arrays of samples; the others are of blocks
  Sizes,                   \* bound: sizes of the objects that are asked for
  MaxObjects               \* bound: objects and arrays at a time when one is asked for

Pools == {"PERMANENT", "IMAGE"}

\* jinit_memory_mgr checks the second and the third.  The header is a union
\* with ALIGN_TYPE, so its size is a multiple of it.
ASSUME SizesAssumption ==
  /\ ALIGN \in Nat \ {0} /\ HDR \in Nat /\ HDR % ALIGN = 0
  /\ \E n \in 0..ALIGN : 2^n = ALIGN
  /\ MAX_ALLOC_CHUNK \in Nat /\ HDR <= MAX_ALLOC_CHUNK /\ MAX_ALLOC_CHUNK % ALIGN = 0
  /\ MIN_SLOP \in Nat \ {0} /\ MgrSize \in Nat /\ ControlSize \in Nat /\ Sizes \subseteq Nat
  /\ first_pool_slop \in [Pools -> Nat] /\ extra_pool_slop \in [Pools -> Nat]

ASSUME ArraysAssumption ==
  /\ SArrays \subseteq Arrays
  /\ Element \in [Arrays -> Nat \ {0}] /\ Width \in [Arrays -> Nat \ {0}]

VARIABLES mem,       \* struct my_memory_mgr
          objects    \* history: where each small object is

mvars == <<avars, mem, objects>>

-----------------------------------------------------------------------------
\* The sums of the first numbers of s[1], ..., s[n], and of all of them.
Sums(n, s) == LET S[k \in 0..n] == IF k = 0 THEN 0 ELSE S[k - 1] + s[k] IN S
Total(n, s) == Sums(n, s)[n]

\* A chunk from malloc: "size" is what malloc gave, the rest is its header.
Chunk(payload, extra) == [size |-> HDR + payload + extra, bytes_used |-> 0,
                          bytes_left |-> payload + extra]

RoundUpNot(n) == n

RoundUp(n) == IF n % ALIGN > 0 THEN n + ALIGN - (n % ALIGN) ELSE n

Unsatisfiable(size) == size > MAX_ALLOC_CHUNK - HDR

\* The slops alloc_small tries, one half of the one before, until malloc succeeds.
FirstSlop(m, pool_id, need) ==
  Least(IF m.small_list[pool_id] = <<>> THEN first_pool_slop[pool_id] ELSE extra_pool_slop[pool_id],
        MAX_ALLOC_CHUNK - (need + HDR))

SlopsTried(first) ==
  LET slop[k \in 0..first] == IF k = 0 THEN first ELSE slop[k - 1] \div 2
  IN {first} \union {s \in {slop[k] : k \in 0..first} : s >= MIN_SLOP}

\* What alloc_small may leave: the manager and the place of the object.  The
\* object is carved from the first chunk that has room, or from a new last one.
Carve(m, pool_id, i, need) ==
  LET hdr == m.small_list[pool_id][i]
  IN [m  |-> [m EXCEPT !.small_list[pool_id][i] =
                [hdr EXCEPT !.bytes_used = @ + need, !.bytes_left = @ - need]],
      at |-> [pool |-> pool_id, chunk |-> i, first |-> hdr.bytes_used, size |-> need]]

NewPoolSlopFree(m, pool_id, need, slop) ==
  [m EXCEPT !.small_list[pool_id] = Append(@, Chunk(need, slop)),
            !.total_space_allocated = @ + need + HDR]

NewPool(m, pool_id, need, slop) ==
  [m EXCEPT !.small_list[pool_id] = Append(@, Chunk(need, slop)),
            !.total_space_allocated = @ + need + HDR + slop]

alloc_small(m, pool_id, sizeofobject) ==
  LET need == RoundUp(sizeofobject)
      roomy == {i \in DOMAIN m.small_list[pool_id] : m.small_list[pool_id][i].bytes_left >= need}
      last == Len(m.small_list[pool_id]) + 1
  IN IF Unsatisfiable(sizeofobject) THEN {}
     ELSE IF roomy # {} THEN {Carve(m, pool_id, CHOOSE i \in roomy : \A j \in roomy : i <= j, need)}
     ELSE {Carve(NewPool(m, pool_id, need, slop), pool_id, last, need) :
             slop \in SlopsTried(FirstSlop(m, pool_id, need))}

alloc_large(m, pool_id, sizeofobject) ==
  IF Unsatisfiable(sizeofobject) THEN {}
  ELSE LET chunk == Chunk(RoundUp(sizeofobject), 0)
       IN {[m EXCEPT !.large_list[pool_id] =
                       <<[chunk EXCEPT !.bytes_used = chunk.bytes_left, !.bytes_left = 0]>> \o @,
                     !.total_space_allocated = @ + chunk.size]}

\* As many rows as fit in one request; none may fit.
RowsPerChunk(rowsize, numrows) == Least((MAX_ALLOC_CHUNK - HDR) \div rowsize, numrows)

\* The managers that the loop of alloc_sarray and alloc_barray may go through:
\* grown[k] those with k requests granted.  A pointer is one byte here.
alloc_array(m, pool_id, rowsize, numrows) ==
  LET rowsperchunk == RowsPerChunk(rowsize, numrows)
      chunks == (numrows + rowsperchunk - 1) \div rowsperchunk
      Rows(k) == Least(rowsperchunk, numrows - (k - 1) * rowsperchunk)
      grown[k \in 0..chunks] ==
        IF k = 0 THEN {o.m : o \in alloc_small(m, pool_id, numrows)}
        ELSE UNION {alloc_large(n, pool_id, Rows(k) * rowsize) : n \in grown[k - 1]}
  IN IF rowsperchunk = 0 THEN [done |-> {}, partly |-> {m}]     \* JERR_WIDTH_OVERFLOW
     ELSE [done |-> grown[chunks], partly |-> {m} \union UNION {grown[k] : k \in 0..chunks-1}]

RowSize(a) == Width[a] * Element[a]

-----------------------------------------------------------------------------
\* The space that realize_virt_arrays needs at least and at most, and the
\* number of minimal heights that the memory it is granted holds.
\* Sample arrays first; in each list the array requested last comes first.
VirtLists == mem.virt_sarray_list \o mem.virt_barray_list

UnrealizedSpace(rows) ==
  Total(Len(VirtLists), [i \in 1..Len(VirtLists) |->
    IF VirtLists[i] \in Unrealized THEN rows[VirtLists[i]] * RowSize(VirtLists[i]) ELSE 0])

space_per_minheight == UnrealizedSpace([a \in Arrays |-> va[a].maxaccess])
maximum_space == UnrealizedSpace([a \in Arrays |-> va[a].rows_in_array])

max_minheights(avail_mem) ==
  IF avail_mem >= maximum_space THEN MaxRows
  ELSE Largest(avail_mem \div space_per_minheight, 1)

HeightInMem(a, heights) == realized(va[a], heights, 1).rows_in_mem

AllocBuffer(m, a, heights) == alloc_array(m, "IMAGE", RowSize(a), HeightInMem(a, heights))

\* The managers after the first k virtual arrays got their buffers.
Buffers(heights) ==
  LET built[k \in 0..Len(VirtLists)] ==
        IF k = 0 THEN {mem}
        ELSE IF VirtLists[k] \notin Unrealized THEN built[k - 1]
        ELSE UNION {AllocBuffer(m, VirtLists[k], heights).done : m \in built[k - 1]}
  IN built

\* jpeg_mem_available of the memory back end; jmemnobs.c, which the Makefile
\* links, grants all that is wanted and has no backing store.
jpeg_mem_available == 0..maximum_space

-----------------------------------------------------------------------------
EmptyMgr == [small_list |-> [p \in Pools |-> <<>>], large_list |-> [p \in Pools |-> <<>>],
             virt_sarray_list |-> <<>>, virt_barray_list |-> <<>>,
             total_space_allocated |-> MgrSize]
NULL == [total_space_allocated |-> 0]

jinit_memory_mgr == AInit /\ mem = EmptyMgr /\ objects = {}

Running == mem # NULL /\ error = "none"

Exit(m, why) == /\ mem' = m
                /\ error' = why
                /\ UNCHANGED <<va, objects>>

InUse == Cardinality(objects) + Len(mem.large_list["PERMANENT"]) + Len(mem.large_list["IMAGE"])
         + Cardinality({a \in Arrays : va[a].rows_in_array > 0})

AllocSmall(pool_id, size) ==
  /\ Running /\ InUse < MaxObjects
  /\ \/ \E o \in alloc_small(mem, pool_id, size) :
          /\ mem' = o.m
          /\ objects' = objects \union {o.at}
          /\ UNCHANGED avars
     \/ /\ \A i \in DOMAIN mem.small_list[pool_id] :
             mem.small_list[pool_id][i].bytes_left < RoundUp(size)
        /\ Exit(mem, "OUT_OF_MEMORY")

AllocLarge(pool_id, size) ==
  /\ Running /\ InUse < MaxObjects
  /\ \/ /\ mem' \in alloc_large(mem, pool_id, size)
        /\ UNCHANGED <<avars, objects>>
     \/ Exit(mem, "OUT_OF_MEMORY")

\* request_virt_sarray and request_virt_barray.
RequestVirt(a) ==
  /\ Running /\ InUse < MaxObjects
  /\ Request(a)
  /\ \E o \in alloc_small(mem, "IMAGE", ControlSize) :
       /\ mem' = IF a \in SArrays THEN [o.m EXCEPT !.virt_sarray_list = <<a>> \o @]
                                  ELSE [o.m EXCEPT !.virt_barray_list = <<a>> \o @]
       /\ objects' = objects \union {o.at}

RealizeVirtArrays ==
  /\ Running /\ Unrealized # {}
  /\ \E avail_mem \in jpeg_mem_available :
       LET heights == max_minheights(avail_mem)
           n == Len(VirtLists)
       IN \/ /\ mem' \in Buffers(heights)[n]
             /\ Realize(heights, [a \in Arrays |->
                  Largest(RowsPerChunk(RowSize(a), HeightInMem(a, heights)), 1)])
             /\ UNCHANGED objects
          \/ \E k \in 1..n : \E m \in Buffers(heights)[k - 1] :
               /\ VirtLists[k] \in Unrealized
               /\ \E left \in AllocBuffer(m, VirtLists[k], heights).partly :
                    Exit(left, "OUT_OF_MEMORY")

AccessVirt(a) == Running /\ Accesses(a) /\ UNCHANGED <<mem, objects>>

\* free_pool subtracts for every chunk what its header says.
Freed(chunks) ==
  Total(Len(chunks),
        [i \in 1..Len(chunks) |-> chunks[i].bytes_used + chunks[i].bytes_left + HDR])

free_pool(m, pool_id) ==
  [small_list |-> [m.small_list EXCEPT ![pool_id] = <<>>],
   large_list |-> [m.large_list EXCEPT ![pool_id] = <<>>],
   virt_sarray_list |-> IF pool_id = "IMAGE" THEN <<>> ELSE m.virt_sarray_list,
   virt_barray_list |-> IF pool_id = "IMAGE" THEN <<>> ELSE m.virt_barray_list,
   total_space_allocated |->
     m.total_space_allocated - Freed(m.large_list[pool_id]) - Freed(m.small_list[pool_id])]

FreePool == /\ Running
            /\ mem' = free_pool(mem, "IMAGE")
            /\ objects' = {o \in objects : o.pool # "IMAGE"}
            /\ Close

\* Called by the program at the end of an image and by error_exit.
self_destruct == /\ mem # NULL
                 /\ mem' = NULL
                 /\ objects' = {}
                 /\ Close

MNext == \/ \E pool_id \in Pools, size \in Sizes : AllocSmall(pool_id, size) \/ AllocLarge(pool_id, size)
         \/ \E a \in Arrays : RequestVirt(a) \/ AccessVirt(a)
         \/ RealizeVirtArrays \/ FreePool \/ self_destruct

MSpec == jinit_memory_mgr /\ [][MNext]_mvars

-----------------------------------------------------------------------------
\* All the chunks that malloc has given and that are not freed.
ChunksOf(m) == UNION {Range(m.small_list[p]) \union Range(m.large_list[p]) : p \in Pools}
Malloced(chunks) == Total(Len(chunks), [i \in 1..Len(chunks) |-> chunks[i].size])
PoolSize(m, p) == Malloced(m.small_list[p]) + Malloced(m.large_list[p])
Obtained(m) == MgrSize + PoolSize(m, "PERMANENT") + PoolSize(m, "IMAGE")

\* total_space_allocated is what the manager holds from malloc, to the byte, so
\* that free_pool gives back exactly what the pool took, whatever failed halfway.
AccountIsExact == mem # NULL => mem.total_space_allocated = Obtained(mem)

\* alloc_small never hands out overlapping, misaligned or out-of-bounds
\* objects, and no request exceeds MAX_ALLOC_CHUNK, up to the largest sizes.
ObjectsAreApart ==
  /\ \A o \in objects : /\ o.first % ALIGN = 0
                        /\ HDR + o.first + o.size <= mem.small_list[o.pool][o.chunk].size
  /\ \A o, q \in objects : (o # q /\ o.pool = q.pool /\ o.chunk = q.chunk) =>
       o.first + o.size <= q.first \/ q.first + q.size <= o.first
  /\ mem # NULL => \A c \in ChunksOf(mem) : c.size <= MAX_ALLOC_CHUNK
=============================================================================
