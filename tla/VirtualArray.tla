---------------------------- MODULE VirtualArray ----------------------------
(***************************************************************************)
(* The virtual arrays of jmemmgr.c: a window of rows in memory over an     *)
(* array whose other rows are in backing store.  A row is one value.  The  *)
(* fields of a control block have the names of the code.  The routines     *)
(* for sample arrays and for block arrays are the same code twice.         *)
(***************************************************************************)
EXTENDS Integers

CONSTANTS Arrays,          \* the control blocks
          Values, Zero,    \* contents of a row; Zero is what jzero_far leaves
          Garbage,         \* what malloc and a new file hold
          MaxRows,         \* bound: rows of an array
          Shapes           \* Shapes[a] : bound: the arguments a is requested with

ASSUME ValuesAssumption == /\ Zero \in Values /\ Garbage \notin Values
                           /\ MaxRows \in Nat \ {0}
                           /\ Shapes \in [Arrays -> SUBSET [rows : 1..MaxRows,
                                maxaccess : 1..MaxRows, pre_zero : BOOLEAN]]

VARIABLES va,      \* va[a] : control block of array a
          error    \* "none", or the JERR_ that made the program exit

avars == <<va, error>>

Least(m, n) == IF m < n THEN m ELSE n
Largest(m, n) == IF m > n THEN m ELSE n

Held == Values \union {Garbage}
Buffer(n) == [0..n-1 -> Held]
NoRows == [r \in 0..-1 |-> Garbage]

\* A control block that is on neither list.
NoArray == [rows_in_array |-> 0, maxaccess |-> 1, pre_zero |-> FALSE, realized |-> FALSE,
            rows_in_mem |-> 0, rowsperchunk |-> 1, cur_start_row |-> 0, first_undef_row |-> 0,
            dirty |-> FALSE, b_s_open |-> FALSE, mem_buffer |-> NoRows, store |-> NoRows]

-----------------------------------------------------------------------------
request_virt(arg) == [NoArray EXCEPT !.rows_in_array = arg.rows,
                                     !.maxaccess = arg.maxaccess, !.pre_zero = arg.pre_zero]

\* The part of realize_virt_arrays that is about one array, when the memory
\* holds max_minheights times its maxaccess rows and an allocation chunk
\* rowsperchunk rows.  The test is on the number of minimal heights, rounded up.
InMemory(p, max_minheights) ==
  (p.rows_in_array - 1) \div p.maxaccess + 1 <= max_minheights

realizedWithoutStore(p, max_minheights, rowsperchunk) ==
  [p EXCEPT !.realized = TRUE, !.rows_in_mem = Least(p.rows_in_array, max_minheights * p.maxaccess),
            !.rowsperchunk = Least(rowsperchunk, p.rows_in_array),
            !.mem_buffer = [r \in 0..Least(p.rows_in_array, max_minheights * p.maxaccess)-1 |-> Garbage],
            !.store = [r \in 0..p.rows_in_array-1 |-> Garbage]]

realized(p, max_minheights, rowsperchunk) ==
  LET fits == InMemory(p, max_minheights)
      height == IF fits THEN p.rows_in_array ELSE max_minheights * p.maxaccess
  IN [p EXCEPT !.realized = TRUE, !.rows_in_mem = height,
               !.rowsperchunk = Least(rowsperchunk, height), !.b_s_open = ~fits,
               !.mem_buffer = [r \in 0..height-1 |-> Garbage],
               !.store = [r \in 0..p.rows_in_array-1 |-> Garbage]]

\* Rows of the buffer that do_barray_io transfers in the chunk that starts at
\* i: what is defined and fits in the file.  A chunk is short only if it is the
\* last one that transfers anything, so chunk i is at cur_start_row + i in the file.
ChunkRows(p, i) ==
  LET thisrow == p.cur_start_row + i
  IN Least(Least(p.rowsperchunk, p.rows_in_mem - i),
           Least(p.first_undef_row - thisrow, p.rows_in_array - thisrow))

Transferred(p) == {r \in 0..p.rows_in_mem-1 :
                     LET i == r - (r % p.rowsperchunk) IN r - i < ChunkRows(p, i)}

do_write(p) ==
  [p EXCEPT !.store = [r \in DOMAIN @ |->
     IF r - p.cur_start_row \in Transferred(p) THEN p.mem_buffer[r - p.cur_start_row] ELSE @[r]],
            !.dirty = FALSE]

do_read(p) ==
  [p EXCEPT !.mem_buffer = [r \in DOMAIN @ |->
     IF r \in Transferred(p) THEN p.store[r + p.cur_start_row] ELSE @[r]]]

\* The window is moved so that it starts at the target when that is ahead and
\* ends with it when it is behind.
Window(p, start, end) == [p EXCEPT !.cur_start_row =
  IF start > p.cur_start_row THEN start ELSE Largest(end - p.rows_in_mem, 0)]

OutsideWindow(p, start, end) == \/ start < p.cur_start_row
                                \/ end > p.cur_start_row + p.rows_in_mem

LoadedWithoutFlush(p, start, end) ==
  IF OutsideWindow(p, start, end) THEN do_read(Window(p, start, end)) ELSE p

Loaded(p, start, end) ==
  IF ~OutsideWindow(p, start, end) THEN p
  ELSE do_read(Window(IF p.dirty THEN do_write(p) ELSE p, start, end))

\* The rows about to be accessed for the first time are zeroed, if asked for.
DefinedAll(p, start, end, writable) ==
  [p EXCEPT !.first_undef_row = IF writable THEN Largest(@, end) ELSE @,
            !.mem_buffer = [r \in DOMAIN @ |->
               IF p.pre_zero /\ r + p.cur_start_row \in start..end-1 /\ p.first_undef_row < end
               THEN Zero ELSE @[r]]]

Defined(p, start, end, writable) ==
  [p EXCEPT !.first_undef_row = IF writable THEN Largest(@, end) ELSE @,
            !.mem_buffer = [r \in DOMAIN @ |->
               IF p.pre_zero /\ r + p.cur_start_row \in Largest(start, p.first_undef_row)..end-1
               THEN Zero ELSE @[r]]]

BadAccess(p, start, end, writable) ==
  \/ end > p.rows_in_array \/ end - start > p.maxaccess \/ ~p.realized
  \/ /\ p.first_undef_row < end
     /\ IF writable THEN p.first_undef_row < start ELSE ~p.pre_zero

VirtualBug(p, start, end) == OutsideWindow(p, start, end) /\ ~p.b_s_open

\* What the caller sees through the pointer that an access returns.
Returned(p, start, end) == [r \in start..end-1 |-> p.mem_buffer[r - p.cur_start_row]]

\* The caller's stores through that pointer, before its next access.
Stored(p, new) == [p EXCEPT !.dirty = TRUE, !.mem_buffer =
  [r \in DOMAIN @ |-> IF r + p.cur_start_row \in DOMAIN new
                      THEN new[r + p.cur_start_row] ELSE @[r]]]

-----------------------------------------------------------------------------
AInit == /\ va = [a \in Arrays |-> NoArray]
         /\ error = "none"

Request(a) ==
  /\ error = "none" /\ va[a] = NoArray
  /\ \E arg \in Shapes[a] : va' = [va EXCEPT ![a] = request_virt(arg)]
  /\ UNCHANGED error

Unrealized == {a \in Arrays : va[a].rows_in_array > 0 /\ ~va[a].realized}

\* All unrealized arrays get the same number of minimal heights; the chunks
\* depend on the width of each.
Realize(max_minheights, rowsperchunk) ==
  /\ error = "none" /\ Unrealized # {}
  /\ va' = [a \in Arrays |-> IF a \in Unrealized
                             THEN realized(va[a], max_minheights, rowsperchunk[a]) ELSE va[a]]
  /\ UNCHANGED error

\* access_virt_sarray and access_virt_barray, and what the caller does with the
\* rows: a reader looks at them, a writer fills them with new ones.
AccessFails(a, start, end, writable) ==
  /\ error = "none" /\ va[a].realized
  /\ BadAccess(va[a], start, end, writable) \/ VirtualBug(va[a], start, end)
  /\ error' = IF /\ VirtualBug(va[a], start, end)
                 /\ end <= va[a].rows_in_array /\ end - start <= va[a].maxaccess
              THEN "VIRTUAL_BUG" ELSE "BAD_VIRTUAL_ACCESS"
  /\ UNCHANGED va

Access(a, start, end, writable, new) ==
  /\ error = "none"
  /\ ~BadAccess(va[a], start, end, writable) /\ ~VirtualBug(va[a], start, end)
  /\ LET p == Defined(Loaded(va[a], start, end), start, end, writable)
     IN va' = [va EXCEPT ![a] = IF writable THEN Stored(p, new) ELSE p]
  /\ UNCHANGED error

\* The part of free_pool that is about virtual arrays.
Close == /\ va' = [a \in Arrays |-> NoArray]
         /\ UNCHANGED error

Accesses(a) ==
  \E start \in 0..MaxRows-1, end \in 1..MaxRows+1 :
    /\ start < end
    /\ \/ Access(a, start, end, FALSE, NoRows)
       \/ \E new \in [start..end-1 -> Values] : Access(a, start, end, TRUE, new)
       \/ \E writable \in BOOLEAN : AccessFails(a, start, end, writable)

ANext == \/ Close
         \/ \E a \in Arrays : Request(a) \/ Accesses(a)
         \/ \E h \in 1..MaxRows, c \in [Arrays -> 1..MaxRows] : Realize(h, c)

ASpec == AInit /\ [][ANext]_avars

-----------------------------------------------------------------------------
\* What the array holds: below first_undef_row the buffer's row if it is in the
\* window, and the store's otherwise; above, zero if it was asked for.
InWindow(p, r) == r - p.cur_start_row \in DOMAIN p.mem_buffer

Contents(p) == [r \in 0..p.rows_in_array-1 |->
  IF r >= p.first_undef_row THEN IF p.pre_zero THEN Zero ELSE Garbage
  ELSE IF InWindow(p, r) THEN p.mem_buffer[r - p.cur_start_row] ELSE p.store[r]]

contents == [a \in Arrays |-> Contents(va[a])]

BA == INSTANCE BlockArray WITH Undefined <- Garbage

\* Moving the window, flushing and reloading it never changes what the array
\* holds: only the caller's stores do (access_virt_sarray, access_virt_barray,
\* do_sarray_io, do_barray_io).
ImplementsBlockArray == BA!Spec

\* Whatever part of the array a reader asks for next, the pointer it gets leads
\* to what the array holds, and the rows are within the buffer.
ReadersGetContents ==
  \A a \in Arrays : \A start \in 0..va[a].rows_in_array-1, end \in 1..va[a].rows_in_array :
    LET p == Defined(Loaded(va[a], start, end), start, end, FALSE)
    IN (start < end /\ ~BadAccess(va[a], start, end, FALSE)) =>
         \A r \in start..end-1 : /\ r - p.cur_start_row \in 0..p.rows_in_mem-1
                                 /\ Returned(p, start, end)[r] = Contents(va[a])[r]

\* An access within the bounds never finds the window elsewhere with no backing
\* store behind it: the JERR_VIRTUAL_BUG exit of access_virt_barray is dead.
NoVirtualBug == error # "VIRTUAL_BUG"

\* A clean window agrees with the store, so that a reload loses nothing, and
\* no row the program has defined is the garbage of a fresh buffer.
WindowAgrees ==
  \A a \in Arrays : LET p == va[a] IN p.realized =>
    \A r \in 0..p.first_undef_row-1 :
      /\ Contents(p)[r] \in Values
      /\ (InWindow(p, r) /\ ~p.dirty /\ p.b_s_open) =>
           p.store[r] = p.mem_buffer[r - p.cur_start_row]
=============================================================================
