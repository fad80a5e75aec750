---------------------------- MODULE LibjpegProofs ----------------------------
(***************************************************************************)
(* Proofs about libjpeg: the memory manager (jmemmgr.c) and the            *)
(* transcoding of a file (the calls of tpe.c on the reading and the        *)
(* writing side).  The two have nothing in common but the library, and no  *)
(* proof about one uses the other.                                         *)
(***************************************************************************)
EXTENDS JpegMemory, JpegTranscode, TLAPS

(* Induction and recursion over numbers are among the facts proved there.  *)
Facts == INSTANCE CoefTheorems
-----------------------------------------------------------------------------
(***************************************************************************)
(* The memory manager, for any sizes of objects, slops and chunks, any     *)
(* arrays, any limit and whatever malloc refuses.                          *)
(*                                                                         *)
(* First the virtual arrays, which are a module of their own: a reader     *)
(* gets what was written, the JERR_VIRTUAL_BUG exit is dead, and the array *)
(* behind its window implements BlockArray.  An access moves the window in *)
(* two steps, Loaded and Defined.  Each keeps the contents, because of     *)
(* what Coherent says: a window that is not dirty agrees with the backing  *)
(* store on every row that was defined, and do_barray_io transfers exactly *)
(* the defined rows of the window.                                         *)
(*                                                                         *)
(* Then the manager: the account of what was obtained is exact, small      *)
(* objects are apart, aligned and in their chunks, and the virtual arrays  *)
(* still work.  An allocation that takes several requests (a               *)
(* two-dimensional array, the buffers of all virtual arrays) is a          *)
(* recursive function whose values are sets of managers.  Recursion and    *)
(* Ascent of CoefTheorems say all that is needed of such functions: they   *)
(* exist, and what holds at 0 and is kept by every step holds of all their *)
(* values.                                                                 *)
(***************************************************************************)

BlockType ==
  [rows_in_array : 0..MaxRows, maxaccess : 1..MaxRows, pre_zero : BOOLEAN, realized : BOOLEAN,
   rows_in_mem : 0..MaxRows, rowsperchunk : 1..MaxRows, cur_start_row : Nat,
   first_undef_row : 0..MaxRows, dirty : BOOLEAN, b_s_open : BOOLEAN,
   mem_buffer : UNION {Buffer(n) : n \in 0..MaxRows}, store : UNION {Buffer(n) : n \in 0..MaxRows}]

(* The buffer and the file have the size of the window and of the array,   *)
(* and without a file the window is the array.                             *)
Sized(p) ==
  /\ p.first_undef_row <= p.rows_in_array
  /\ p.mem_buffer \in Buffer(p.rows_in_mem)
  /\ p.store \in Buffer(p.rows_in_array)
  /\ IF p.b_s_open THEN p.maxaccess <= p.rows_in_mem
     ELSE p.cur_start_row = 0 /\ p.rows_in_mem = p.rows_in_array

Coherent(p) ==
  \A r \in 0..p.first_undef_row-1 :
    /\ Contents(p)[r] \in Values
    /\ (InWindow(p, r) /\ ~p.dirty /\ p.b_s_open) => p.store[r] = p.mem_buffer[r - p.cur_start_row]

BlockOK(p) ==
  /\ p \in BlockType
  /\ IF p.realized THEN Sized(p) /\ Coherent(p) ELSE p.first_undef_row = 0 /\ p.cur_start_row = 0

IInv == /\ va \in [Arrays -> BlockType]
        /\ \A a \in Arrays : BlockOK(va[a])
        /\ error # "VIRTUAL_BUG"

USE ValuesAssumption
-----------------------------------------------------------------------------
LEMMA LeastOfFour ==
  \A v, w, x, y, z \in Int :
    v < Least(Least(w, x), Least(y, z)) <=> v < w /\ v < x /\ v < y /\ v < z
  BY DEF Least

(* do_barray_io transfers the rows of the window that were defined.        *)
LEMMA TransferredIsDefined ==
  ASSUME NEW p \in BlockType, Sized(p)
  PROVE  Transferred(p) = {r \in 0..p.rows_in_mem-1 : r + p.cur_start_row < p.first_undef_row}
<1>1. SUFFICES ASSUME NEW r \in 0..p.rows_in_mem-1
               PROVE  LET i == r - (r % p.rowsperchunk)
                      IN  r - i < ChunkRows(p, i) <=> r + p.cur_start_row < p.first_undef_row
  BY DEF Transferred
<1>2. p.rows_in_mem \in Nat /\ p.rowsperchunk \in Nat \ {0} /\ p.cur_start_row \in Nat
      /\ p.first_undef_row \in Nat /\ p.rows_in_array \in Nat /\ p.first_undef_row <= p.rows_in_array
  BY DEF BlockType, Sized
<1>3. r % p.rowsperchunk \in 0..p.rowsperchunk-1
  BY <1>2
<1>. DEFINE m == r % p.rowsperchunk
            i == r - m
<1>4. /\ r - i < p.rowsperchunk
      /\ r - i < p.rows_in_mem - i
  BY <1>2, <1>3
<1>5. r - i < ChunkRows(p, i) <=>
        /\ r - i < p.rowsperchunk /\ r - i < p.rows_in_mem - i
        /\ r - i < p.first_undef_row - (p.cur_start_row + i)
        /\ r - i < p.rows_in_array - (p.cur_start_row + i)
  <2>1. r \in Int /\ i \in Int
    BY <1>2, <1>3
  <2>2. /\ r - i \in Int /\ p.rowsperchunk \in Int /\ p.rows_in_mem - i \in Int
        /\ p.first_undef_row - (p.cur_start_row + i) \in Int
        /\ p.rows_in_array - (p.cur_start_row + i) \in Int
    BY <2>1, <1>2
  <2>. QED BY <2>2, LeastOfFour DEF ChunkRows
<1>. QED BY <1>2, <1>3, <1>4, <1>5
-----------------------------------------------------------------------------
(* What the access routines ensure before they look at the window.         *)
Legal(p, start, end) ==
  /\ p \in BlockType /\ p.realized /\ Sized(p) /\ Coherent(p)
  /\ start \in Nat /\ end \in Nat /\ start < end
  /\ end <= p.rows_in_array /\ end - start <= p.maxaccess

SameArray(p, q) ==
  /\ q.rows_in_array = p.rows_in_array /\ q.maxaccess = p.maxaccess /\ q.pre_zero = p.pre_zero
  /\ q.realized = p.realized /\ q.rows_in_mem = p.rows_in_mem /\ q.rowsperchunk = p.rowsperchunk
  /\ q.first_undef_row = p.first_undef_row /\ q.b_s_open = p.b_s_open

AfterRead(p, start, end) == Defined(Loaded(p, start, end), start, end, FALSE)
AfterWrite(p, start, end, new) == Stored(Defined(Loaded(p, start, end), start, end, TRUE), new)
RowsFor(start, end, new) == new \in [start..end-1 -> Values]

(* What is to be shown of the control block after a read or a write.       *)
ReadRight(p, start, end, d) ==
  /\ BlockOK(d) /\ Contents(d) = Contents(p)
  /\ \A r \in start..end-1 : /\ r - d.cur_start_row \in 0..d.rows_in_mem-1
                             /\ Returned(d, start, end)[r] = Contents(p)[r]
WriteRight(p, start, end, new, s) ==
  /\ BlockOK(s) /\ DOMAIN Contents(s) = 0..p.rows_in_array-1
  /\ \A r \in 0..p.rows_in_array-1 :
        Contents(s)[r] = IF r \in start..end-1 THEN new[r] ELSE Contents(p)[r]

Flushed(p) == IF p.dirty THEN do_write(p) ELSE p

LEMMA ContentsAt ==
  ASSUME NEW p, Sized(p), NEW r \in 0..p.rows_in_array-1
  PROVE  Contents(p)[r] = IF r >= p.first_undef_row THEN IF p.pre_zero THEN Zero ELSE Garbage
                          ELSE IF r - p.cur_start_row \in 0..p.rows_in_mem-1
                               THEN p.mem_buffer[r - p.cur_start_row] ELSE p.store[r]
<1>1. DOMAIN p.mem_buffer = 0..p.rows_in_mem-1
  BY DEF Sized, Buffer
<1>. QED BY <1>1 DEF Contents, InWindow

(* A flush leaves in the store whatever the array holds.                   *)
LEMMA FlushStoresContents ==
  ASSUME NEW p \in BlockType, Sized(p), Coherent(p), p.b_s_open
  PROVE  /\ Flushed(p) \in BlockType /\ SameArray(p, Flushed(p)) /\ ~Flushed(p).dirty
         /\ Flushed(p).mem_buffer = p.mem_buffer /\ Flushed(p).cur_start_row = p.cur_start_row
         /\ Flushed(p).store \in Buffer(p.rows_in_array)
         /\ \A r \in 0..p.first_undef_row-1 : Flushed(p).store[r] = Contents(p)[r]
<1>. DEFINE T == Transferred(p)
            new == [r \in DOMAIN p.store |-> IF r - p.cur_start_row \in T
                                             THEN p.mem_buffer[r - p.cur_start_row] ELSE p.store[r]]
<1>1. /\ p.mem_buffer \in [0..p.rows_in_mem-1 -> Held] /\ p.store \in [0..p.rows_in_array-1 -> Held]
      /\ p.rows_in_mem \in Nat /\ p.rows_in_array \in 0..MaxRows /\ p.cur_start_row \in Nat
      /\ p.first_undef_row \in Nat /\ p.first_undef_row <= p.rows_in_array /\ p.dirty \in BOOLEAN
  BY DEF BlockType, Sized, Buffer
<1>2. T = {r \in 0..p.rows_in_mem-1 : r + p.cur_start_row < p.first_undef_row}
  BY TransferredIsDefined
<1>3. \A r \in 0..p.first_undef_row-1 :
        Contents(p)[r] = IF r - p.cur_start_row \in 0..p.rows_in_mem-1
                         THEN p.mem_buffer[r - p.cur_start_row] ELSE p.store[r]
  <2>1. \A r \in 0..p.first_undef_row-1 : r \in 0..p.rows_in_array-1 /\ ~(r >= p.first_undef_row)
    BY <1>1
  <2>. QED BY <2>1, ContentsAt
<1>4. CASE p.dirty
  <2>1. Flushed(p) = [[p EXCEPT !.store = new] EXCEPT !.dirty = FALSE]
    BY <1>4 DEF Flushed, do_write
  <2>2. new \in Buffer(p.rows_in_array)
    BY <1>1, <1>2 DEF Buffer
  <2>3. new \in UNION {Buffer(n) : n \in 0..MaxRows}
    BY <2>2, <1>1
  <2>4. \A r \in 0..p.first_undef_row-1 : new[r] = Contents(p)[r]
    BY <1>1, <1>2, <1>3, SMTT(40)
  <2>. HIDE DEF new
  <2>5. /\ Flushed(p) \in BlockType /\ SameArray(p, Flushed(p)) /\ ~Flushed(p).dirty
        /\ Flushed(p).mem_buffer = p.mem_buffer /\ Flushed(p).cur_start_row = p.cur_start_row
        /\ Flushed(p).store = new
    BY <2>1, <2>3 DEF BlockType, SameArray
  <2>. QED BY <2>2, <2>4, <2>5
<1>5. CASE ~p.dirty
  <2>1. Flushed(p) = p
    BY <1>5 DEF Flushed
  <2>2. \A r \in 0..p.first_undef_row-1 : p.store[r] = Contents(p)[r]
    BY <1>1, <1>3, <1>5 DEF Coherent, InWindow
  <2>. QED BY <2>1, <2>2, <1>5 DEF SameArray, Sized
<1>. QED BY <1>4, <1>5

(* The window moves over the rows that are asked for.                      *)
LEMMA WindowCovers ==
  ASSUME NEW p \in BlockType, p.b_s_open, Sized(p),
         NEW start \in Nat, NEW end \in Nat, start < end, end - start <= p.maxaccess,
         OutsideWindow(p, start, end)
  PROVE  /\ Window(p, start, end) \in BlockType /\ SameArray(p, Window(p, start, end))
         /\ Window(p, start, end).cur_start_row <= start
         /\ end <= Window(p, start, end).cur_start_row + p.rows_in_mem
         /\ Window(p, start, end).mem_buffer = p.mem_buffer
         /\ Window(p, start, end).store = p.store
         /\ Window(p, start, end).dirty = p.dirty
<1>. DEFINE cur == IF start > p.cur_start_row THEN start ELSE Largest(end - p.rows_in_mem, 0)
<1>1. /\ p.rows_in_mem \in Nat /\ p.cur_start_row \in Nat /\ p.maxaccess \in Nat
      /\ p.maxaccess <= p.rows_in_mem
  BY DEF BlockType, Sized
<1>2. cur \in Nat /\ cur <= start /\ end <= cur + p.rows_in_mem
  BY <1>1 DEF Largest, OutsideWindow
<1>3. Window(p, start, end) = [p EXCEPT !.cur_start_row = cur]
  BY DEF Window
<1>. QED
  <2>. HIDE DEF cur
  <2>. QED BY <1>2, <1>3 DEF BlockType, SameArray

(* Loading the window, with the flush before it, keeps the contents.       *)
LEMMA LoadKeepsContents ==
  ASSUME NEW p, NEW start, NEW end, Legal(p, start, end)
  PROVE  /\ Loaded(p, start, end) \in BlockType /\ SameArray(p, Loaded(p, start, end))
         /\ Sized(Loaded(p, start, end)) /\ Coherent(Loaded(p, start, end))
         /\ Loaded(p, start, end).cur_start_row <= start
         /\ end <= Loaded(p, start, end).cur_start_row + Loaded(p, start, end).rows_in_mem
         /\ Contents(Loaded(p, start, end)) = Contents(p)
         /\ OutsideWindow(p, start, end) => p.b_s_open
<1>1. CASE ~OutsideWindow(p, start, end)
  <2>1. Loaded(p, start, end) = p
    BY <1>1 DEF Loaded
  <2>2. start \in Nat /\ end \in Nat /\ p.cur_start_row \in Nat /\ p.rows_in_mem \in Nat
    BY DEF Legal, BlockType
  <2>3. p.cur_start_row <= start /\ end <= p.cur_start_row + p.rows_in_mem
    BY <1>1, <2>2 DEF OutsideWindow
  <2>. QED BY <1>1, <2>1, <2>3 DEF Legal, SameArray
<1>2. CASE OutsideWindow(p, start, end)
  <2>. DEFINE f == Flushed(p)
              w == Window(f, start, end)
              new == [r \in DOMAIN w.mem_buffer |-> IF r \in Transferred(w)
                        THEN w.store[r + w.cur_start_row] ELSE w.mem_buffer[r]]
              q == [w EXCEPT !.mem_buffer = new]
  <2>1. /\ p \in BlockType /\ Sized(p) /\ Coherent(p) /\ start \in Nat /\ end \in Nat /\ start < end
        /\ end <= p.rows_in_array /\ end - start <= p.maxaccess
        /\ p.rows_in_array \in 0..MaxRows /\ p.first_undef_row \in Nat /\ p.first_undef_row <= p.rows_in_array
        /\ p.rows_in_mem \in 0..MaxRows
    BY DEF Legal, BlockType, Sized
  <2>2. p.b_s_open
    BY <1>2, <2>1 DEF OutsideWindow, Sized
  <2>3. /\ f \in BlockType /\ SameArray(p, f) /\ ~f.dirty /\ f.mem_buffer = p.mem_buffer
        /\ f.cur_start_row = p.cur_start_row /\ f.store \in Buffer(p.rows_in_array)
        /\ \A r \in 0..p.first_undef_row-1 : f.store[r] = Contents(p)[r]
    BY <2>1, <2>2, FlushStoresContents
  <2>4. Sized(f) /\ OutsideWindow(f, start, end) /\ f.b_s_open /\ end - start <= f.maxaccess
    BY <1>2, <2>1, <2>2, <2>3 DEF SameArray, Sized, OutsideWindow
  <2>5. /\ w \in BlockType /\ SameArray(f, w) /\ w.cur_start_row <= start
        /\ end <= w.cur_start_row + f.rows_in_mem /\ w.mem_buffer = f.mem_buffer
        /\ w.store = f.store /\ w.dirty = f.dirty
    BY <2>1, <2>3, <2>4, WindowCovers
  <2>6. Loaded(p, start, end) = q
    BY <1>2 DEF Loaded, Flushed, do_read
  <2>. HIDE DEF f, w
  <2>7. SameArray(p, w) /\ Sized(w) /\ w.cur_start_row \in Nat
    BY <2>3, <2>4, <2>5 DEF SameArray, Sized, BlockType
  <2>8. Transferred(w) = {r \in 0..p.rows_in_mem-1 : r + w.cur_start_row < p.first_undef_row}
    BY <2>5, <2>7, TransferredIsDefined DEF SameArray
  <2>9. w.mem_buffer \in [0..p.rows_in_mem-1 -> Held] /\ w.store \in [0..p.rows_in_array-1 -> Held]
    BY <2>7 DEF Sized, SameArray, Buffer
  <2>10. /\ new \in Buffer(p.rows_in_mem)
         /\ \A r \in 0..p.rows_in_mem-1 : r + w.cur_start_row < p.first_undef_row =>
               new[r] = w.store[r + w.cur_start_row]
    <3>1. \A r \in 0..p.rows_in_mem-1 : r + w.cur_start_row < p.first_undef_row =>
            r + w.cur_start_row \in 0..p.rows_in_array-1
      BY <2>1, <2>7
    <3>2. new = [r \in 0..p.rows_in_mem-1 |-> IF r + w.cur_start_row < p.first_undef_row
                  THEN w.store[r + w.cur_start_row] ELSE w.mem_buffer[r]]
      BY <2>8, <2>9
    <3>. QED BY <2>9, <3>1, <3>2 DEF Buffer
  <2>11. new \in UNION {Buffer(n) : n \in 0..MaxRows}
    BY <2>1, <2>10
  <2>. HIDE DEF new
  <2>12. /\ q \in BlockType /\ SameArray(p, q) /\ q.mem_buffer = new /\ q.store = w.store
         /\ q.cur_start_row = w.cur_start_row /\ ~q.dirty
    BY <2>3, <2>5, <2>7, <2>11 DEF BlockType, SameArray
  <2>. HIDE DEF q
  <2>13. Sized(q)
    BY <2>2, <2>7, <2>10, <2>12 DEF Sized, SameArray
  <2>14. ASSUME NEW r \in 0..p.rows_in_array-1
         PROVE  Contents(q)[r] = Contents(p)[r]
    <3>1. CASE r >= p.first_undef_row
      BY <2>1, <2>12, <2>13, <3>1, ContentsAt DEF SameArray
    <3>2. CASE r < p.first_undef_row
      <4>1. r \in 0..p.first_undef_row-1 /\ ~(r >= p.first_undef_row)
        BY <2>1, <3>2
      <4>2. Contents(p)[r] = w.store[r]
        BY <2>3, <2>5, <4>1
      <4>3. Contents(q)[r] = IF r - w.cur_start_row \in 0..p.rows_in_mem-1
                             THEN new[r - w.cur_start_row] ELSE w.store[r]
        BY <2>12, <2>13, <4>1, ContentsAt DEF SameArray
      <4>4. r - w.cur_start_row \in 0..p.rows_in_mem-1 => new[r - w.cur_start_row] = w.store[r]
        BY <2>1, <2>7, <2>10, <4>1
      <4>. QED BY <4>2, <4>3, <4>4
    <3>. QED BY <2>1, <3>1, <3>2
  <2>15. Contents(q) = Contents(p)
    <3>1. /\ Contents(q) = [r \in 0..p.rows_in_array-1 |-> Contents(q)[r]]
          /\ Contents(p) = [r \in 0..p.rows_in_array-1 |-> Contents(p)[r]]
      BY <2>12 DEF Contents, SameArray
    <3>. QED BY <2>14, <3>1
  <2>16. Coherent(q)
    <3>. SUFFICES ASSUME NEW r \in 0..p.first_undef_row-1
                  PROVE  /\ Contents(q)[r] \in Values
                         /\ r - w.cur_start_row \in DOMAIN new => w.store[r] = new[r - w.cur_start_row]
      BY <2>12 DEF Coherent, InWindow, SameArray
    <3>1. Contents(q)[r] \in Values
      BY <2>1, <2>15 DEF Coherent
    <3>2. DOMAIN new = 0..p.rows_in_mem-1
      BY <2>10 DEF Buffer
    <3>3. r - w.cur_start_row \in 0..p.rows_in_mem-1 => new[r - w.cur_start_row] = w.store[r]
      BY <2>1, <2>7, <2>10
    <3>. QED BY <3>1, <3>2, <3>3
  <2>. QED BY <2>2, <2>3, <2>5, <2>6, <2>12, <2>13, <2>15, <2>16 DEF SameArray
<1>. QED BY <1>1, <1>2

(* A reader finds at its pointer what the array holds, and changes nothing.*)
LEMMA ReadKeepsContents ==
  ASSUME NEW p, NEW start, NEW end, Legal(p, start, end), ~BadAccess(p, start, end, FALSE)
  PROVE  ReadRight(p, start, end, AfterRead(p, start, end))
<1>. DEFINE q == Loaded(p, start, end)
            zeroed == Largest(start, q.first_undef_row)..end-1
            new == [r \in DOMAIN q.mem_buffer |-> IF q.pre_zero /\ r + q.cur_start_row \in zeroed
                                                  THEN Zero ELSE q.mem_buffer[r]]
            d == [q EXCEPT !.first_undef_row = q.first_undef_row, !.mem_buffer = new]
<1>1. /\ q \in BlockType /\ SameArray(p, q) /\ Sized(q) /\ Coherent(q) /\ q.cur_start_row <= start
      /\ end <= q.cur_start_row + q.rows_in_mem /\ Contents(q) = Contents(p)
  BY LoadKeepsContents
<1>2. AfterRead(p, start, end) = d
  BY DEF AfterRead, Defined
<1>3. p.realized /\ (p.first_undef_row < end => p.pre_zero)
  BY DEF BadAccess
<1>4. /\ start \in Nat /\ end \in Nat /\ start < end /\ end <= p.rows_in_array
      /\ p.rows_in_array \in 0..MaxRows /\ p.pre_zero \in BOOLEAN
  BY DEF Legal, BlockType
<1>. HIDE DEF q
<1>5. /\ q.first_undef_row \in Nat /\ q.first_undef_row <= q.rows_in_array /\ q.cur_start_row \in Nat
      /\ q.rows_in_mem \in 0..MaxRows /\ q.mem_buffer \in [0..q.rows_in_mem-1 -> Held]
      /\ q.pre_zero \in BOOLEAN
  BY <1>1 DEF Sized, BlockType, Buffer
<1>6. /\ new \in Buffer(q.rows_in_mem)
      /\ \A r \in 0..q.rows_in_mem-1 : r + q.cur_start_row < q.first_undef_row => new[r] = q.mem_buffer[r]
      /\ \A r \in 0..q.rows_in_mem-1 :
            q.pre_zero /\ r + q.cur_start_row \in start..end-1 /\ r + q.cur_start_row >= q.first_undef_row
              => new[r] = Zero
  <2>1. \A r \in 0..q.rows_in_mem-1 : r + q.cur_start_row \in zeroed <=>
          /\ r + q.cur_start_row >= start /\ r + q.cur_start_row >= q.first_undef_row
          /\ r + q.cur_start_row <= end-1
    BY <1>4, <1>5, SMTT(40) DEF Largest
  <2>2. new = [r \in 0..q.rows_in_mem-1 |-> IF q.pre_zero /\ r + q.cur_start_row \in zeroed
                                            THEN Zero ELSE q.mem_buffer[r]]
    BY <1>5
  <2>3. new \in [0..q.rows_in_mem-1 -> Held]
    BY <1>5, <2>2 DEF Held
  <2>. HIDE DEF zeroed, new
  <2>4. \A r \in 0..q.rows_in_mem-1 : r + q.cur_start_row < q.first_undef_row => new[r] = q.mem_buffer[r]
    BY <1>5, <2>1, <2>2
  <2>5. \A r \in 0..q.rows_in_mem-1 :
          q.pre_zero /\ r + q.cur_start_row \in start..end-1 /\ r + q.cur_start_row >= q.first_undef_row
            => new[r] = Zero
    BY <1>4, <1>5, <2>1, <2>2
  <2>. QED BY <2>3, <2>4, <2>5 DEF Buffer
<1>7. new \in UNION {Buffer(n) : n \in 0..MaxRows}
  BY <1>5, <1>6
<1>. HIDE DEF new
<1>8. /\ d \in BlockType /\ SameArray(q, d) /\ d.mem_buffer = new /\ d.store = q.store
      /\ d.cur_start_row = q.cur_start_row /\ d.dirty = q.dirty
  BY <1>1, <1>7 DEF BlockType, SameArray
<1>. HIDE DEF d
<1>9. Sized(d)
  BY <1>1, <1>6, <1>8 DEF Sized, SameArray
<1>10. ASSUME NEW r \in 0..q.rows_in_array-1
       PROVE  Contents(d)[r] = Contents(q)[r]
  <2>1. /\ Contents(d)[r] = IF r >= q.first_undef_row THEN IF q.pre_zero THEN Zero ELSE Garbage
                            ELSE IF r - q.cur_start_row \in 0..q.rows_in_mem-1
                                 THEN new[r - q.cur_start_row] ELSE q.store[r]
        /\ Contents(q)[r] = IF r >= q.first_undef_row THEN IF q.pre_zero THEN Zero ELSE Garbage
                            ELSE IF r - q.cur_start_row \in 0..q.rows_in_mem-1
                                 THEN q.mem_buffer[r - q.cur_start_row] ELSE q.store[r]
    BY <1>1, <1>8, <1>9, ContentsAt DEF SameArray
  <2>2. ASSUME r < q.first_undef_row, r - q.cur_start_row \in 0..q.rows_in_mem-1
        PROVE  new[r - q.cur_start_row] = q.mem_buffer[r - q.cur_start_row]
    <3>1. (r - q.cur_start_row) + q.cur_start_row < q.first_undef_row
      BY <1>5, <2>2
    <3>. QED BY <1>6, <2>2, <3>1, Zenon
  <2>3. r < q.first_undef_row <=> ~(r >= q.first_undef_row)
    BY <1>5
  <2>. QED BY <2>1, <2>2, <2>3
<1>11. Contents(d) = Contents(q)
  <2>1. /\ Contents(d) = [r \in 0..q.rows_in_array-1 |-> Contents(d)[r]]
        /\ Contents(q) = [r \in 0..q.rows_in_array-1 |-> Contents(q)[r]]
    BY <1>8 DEF Contents, SameArray
  <2>. QED BY <1>10, <2>1
<1>12. Coherent(d)
  <2>1. ASSUME NEW r \in 0..q.first_undef_row-1
        PROVE  /\ r - q.cur_start_row \in DOMAIN new <=> r - q.cur_start_row \in DOMAIN q.mem_buffer
               /\ r - q.cur_start_row \in DOMAIN new =>
                     new[r - q.cur_start_row] = q.mem_buffer[r - q.cur_start_row]
    <3>1. DOMAIN new = 0..q.rows_in_mem-1 /\ DOMAIN q.mem_buffer = 0..q.rows_in_mem-1
      BY <1>5, <1>6 DEF Buffer
    <3>2. r - q.cur_start_row \in 0..q.rows_in_mem-1 =>
            new[r - q.cur_start_row] = q.mem_buffer[r - q.cur_start_row]
      BY <1>5, <1>6
    <3>. QED BY <3>1, <3>2
  <2>. QED BY <1>1, <1>8, <1>11, <2>1 DEF Coherent, InWindow, SameArray
<1>13. ASSUME NEW r \in start..end-1
       PROVE  /\ r - d.cur_start_row \in 0..d.rows_in_mem-1
              /\ Returned(d, start, end)[r] = Contents(p)[r]
  <2>1. r \in 0..q.rows_in_array-1 /\ r - q.cur_start_row \in 0..q.rows_in_mem-1
    BY <1>1, <1>4, <1>5, SMTT(40) DEF SameArray
  <2>2. Returned(d, start, end)[r] = new[r - q.cur_start_row]
    BY <1>8 DEF Returned
  <2>3. Contents(q)[r] = IF r >= q.first_undef_row THEN IF q.pre_zero THEN Zero ELSE Garbage
                         ELSE q.mem_buffer[r - q.cur_start_row]
    BY <1>1, <2>1, ContentsAt
  <2>4. r >= q.first_undef_row => q.pre_zero
    BY <1>1, <1>3, <1>4, <1>5 DEF SameArray
  <2>5. new[r - q.cur_start_row] = IF r >= q.first_undef_row THEN Zero ELSE q.mem_buffer[r - q.cur_start_row]
    <3>1. (r - q.cur_start_row) + q.cur_start_row = r
      BY <1>5
    <3>2. CASE r >= q.first_undef_row
      BY <1>6, <2>1, <2>4, <3>1, <3>2
    <3>3. CASE ~(r >= q.first_undef_row)
      <4>1. r < q.first_undef_row
        BY <1>5, <3>3
      <4>2. QED
        BY <1>6, <2>1, <3>1, <3>3, <4>1
    <3>4. QED
      BY <3>2, <3>3
  <2>. QED BY <1>1, <1>8, <2>1, <2>2, <2>3, <2>4, <2>5 DEF SameArray
<1>. QED BY <1>1, <1>2, <1>3, <1>8, <1>9, <1>11, <1>12, <1>13 DEF BlockOK, SameArray, ReadRight

(* A writer changes the rows it was given and no other, and the rows that  *)
(* become defined are among them.                                          *)
LEMMA WriteStores ==
  ASSUME NEW p, NEW start, NEW end, Legal(p, start, end), ~BadAccess(p, start, end, TRUE),
         NEW new, RowsFor(start, end, new)
  PROVE  WriteRight(p, start, end, new, AfterWrite(p, start, end, new))
<1>. DEFINE q == Loaded(p, start, end)
            undef == Largest(q.first_undef_row, end)
            zeroed == Largest(start, q.first_undef_row)..end-1
            z == [r \in DOMAIN q.mem_buffer |-> IF q.pre_zero /\ r + q.cur_start_row \in zeroed
                                                THEN Zero ELSE q.mem_buffer[r]]
            e == [q EXCEPT !.first_undef_row = undef, !.mem_buffer = z]
            stored == [r \in DOMAIN z |-> IF r + q.cur_start_row \in DOMAIN new
                                          THEN new[r + q.cur_start_row] ELSE z[r]]
            s == [e EXCEPT !.dirty = TRUE, !.mem_buffer = stored]
<1>0. new \in [start..end-1 -> Values]
  BY DEF RowsFor
<1>1. /\ q \in BlockType /\ SameArray(p, q) /\ Sized(q) /\ Coherent(q) /\ q.cur_start_row <= start
      /\ end <= q.cur_start_row + q.rows_in_mem /\ Contents(q) = Contents(p)
  BY LoadKeepsContents
<1>2. p.realized /\ (p.first_undef_row < end => ~(p.first_undef_row < start))
  BY DEF BadAccess
<1>3. /\ start \in Nat /\ end \in Nat /\ start < end /\ end <= p.rows_in_array
      /\ p.rows_in_array \in 0..MaxRows
  BY DEF Legal, BlockType
<1>4. Defined(q, start, end, TRUE) = e
  BY DEF Defined
<1>. HIDE DEF q
<1>5. /\ q.first_undef_row \in Nat /\ q.first_undef_row <= q.rows_in_array /\ q.cur_start_row \in Nat
      /\ q.rows_in_mem \in 0..MaxRows /\ q.mem_buffer \in [0..q.rows_in_mem-1 -> Held]
      /\ q.pre_zero \in BOOLEAN /\ q.rows_in_array = p.rows_in_array /\ q.first_undef_row = p.first_undef_row
  BY <1>1, SMTT(40) DEF Sized, BlockType, Buffer, SameArray
<1>6. /\ undef \in 0..MaxRows /\ undef <= q.rows_in_array
      /\ \A r \in Nat : r \notin start..end-1 => (r < undef <=> r < q.first_undef_row)
  BY <1>2, <1>3, <1>5 DEF Largest
<1>7. /\ z \in [0..q.rows_in_mem-1 -> Held]
      /\ \A r \in 0..q.rows_in_mem-1 : r + q.cur_start_row \notin start..end-1 => z[r] = q.mem_buffer[r]
  <2>1. \A r \in 0..q.rows_in_mem-1 : r + q.cur_start_row \in zeroed => r + q.cur_start_row \in start..end-1
    BY <1>3, <1>5 DEF Largest
  <2>2. z = [r \in 0..q.rows_in_mem-1 |-> IF q.pre_zero /\ r + q.cur_start_row \in zeroed
                                          THEN Zero ELSE q.mem_buffer[r]]
    BY <1>5
  <2>. HIDE DEF zeroed, z
  <2>. QED BY <1>5, <2>1, <2>2 DEF Held
<1>8. z \in UNION {Buffer(n) : n \in 0..MaxRows}
  BY <1>5, <1>7 DEF Buffer
<1>. HIDE DEF z, undef
<1>9. /\ e \in BlockType /\ e.mem_buffer = z /\ e.cur_start_row = q.cur_start_row
      /\ e.first_undef_row = undef /\ e.store = q.store
      /\ e.rows_in_array = q.rows_in_array /\ e.maxaccess = q.maxaccess /\ e.pre_zero = q.pre_zero
      /\ e.realized = q.realized /\ e.rows_in_mem = q.rows_in_mem /\ e.b_s_open = q.b_s_open
  BY <1>1, <1>6, <1>8 DEF BlockType
<1>10. Stored(e, new) = s
  BY <1>0, <1>9 DEF Stored
<1>. HIDE DEF e
<1>11. /\ stored \in [0..q.rows_in_mem-1 -> Held]
       /\ \A r \in 0..q.rows_in_mem-1 :
             stored[r] = IF r + q.cur_start_row \in start..end-1 THEN new[r + q.cur_start_row]
                         ELSE q.mem_buffer[r]
  <2>1. stored = [r \in 0..q.rows_in_mem-1 |-> IF r + q.cur_start_row \in start..end-1
                                               THEN new[r + q.cur_start_row] ELSE z[r]]
    BY <1>0, <1>7
  <2>. HIDE DEF stored
  <2>. QED BY <1>0, <1>7, <2>1 DEF Held
<1>12. stored \in UNION {Buffer(n) : n \in 0..MaxRows}
  BY <1>5, <1>11 DEF Buffer
<1>. HIDE DEF stored
<1>13. /\ s \in BlockType /\ s.mem_buffer = stored /\ s.cur_start_row = q.cur_start_row /\ s.dirty
       /\ s.first_undef_row = undef /\ s.store = q.store
       /\ s.rows_in_array = q.rows_in_array /\ s.maxaccess = q.maxaccess /\ s.pre_zero = q.pre_zero
       /\ s.realized = q.realized /\ s.rows_in_mem = q.rows_in_mem /\ s.b_s_open = q.b_s_open
  BY <1>9, <1>12 DEF BlockType
<1>. HIDE DEF s
<1>14. Sized(s)
  BY <1>1, <1>6, <1>11, <1>13 DEF Sized, Buffer
<1>15. ASSUME NEW r \in 0..q.rows_in_array-1
       PROVE  Contents(s)[r] = IF r \in start..end-1 THEN new[r] ELSE Contents(p)[r]
  <2>1. /\ Contents(s)[r] = IF r >= undef THEN IF q.pre_zero THEN Zero ELSE Garbage
                            ELSE IF r - q.cur_start_row \in 0..q.rows_in_mem-1
                                 THEN stored[r - q.cur_start_row] ELSE q.store[r]
        /\ Contents(q)[r] = IF r >= q.first_undef_row THEN IF q.pre_zero THEN Zero ELSE Garbage
                            ELSE IF r - q.cur_start_row \in 0..q.rows_in_mem-1
                                 THEN q.mem_buffer[r - q.cur_start_row] ELSE q.store[r]
    BY <1>1, <1>13, <1>14, ContentsAt
  <2>2. CASE r \in start..end-1
    <3>1. ~(r >= undef)
      BY <1>3, <1>5, <2>2 DEF undef, Largest
    <3>2. r - q.cur_start_row \in 0..q.rows_in_mem-1
      BY <1>1, <1>3, <1>5, <2>2, SMTT(40)
    <3>3. stored[r - q.cur_start_row] = new[r]
      <4>1. (r - q.cur_start_row) + q.cur_start_row = r
        BY <1>3, <1>5
      <4>. QED BY <1>11, <2>2, <3>2, <4>1
    <3>. QED BY <2>1, <2>2, <3>1, <3>2, <3>3
  <2>3. CASE r \notin start..end-1
    <3>1. r >= undef <=> r >= q.first_undef_row
      BY <1>5, <1>6, <2>3
    <3>2. r - q.cur_start_row \in 0..q.rows_in_mem-1 =>
            stored[r - q.cur_start_row] = q.mem_buffer[r - q.cur_start_row]
      BY <1>5, <1>11, <2>3, SMTT(40)
    <3>. QED BY <1>1, <2>1, <2>3, <3>1, <3>2
  <2>. QED BY <2>2, <2>3
<1>16. DOMAIN Contents(s) = 0..p.rows_in_array-1
  BY <1>5, <1>13 DEF Contents
<1>17. Coherent(s)
  <2>1. ASSUME NEW r \in 0..undef-1
        PROVE  Contents(s)[r] \in Values
    <3>1. r \in 0..q.rows_in_array-1
      BY <1>3, <1>5, <1>6
    <3>2. CASE r \in start..end-1
      BY <1>0, <1>15, <3>1, <3>2
    <3>3. CASE r \notin start..end-1
      <4>1. r \in 0..q.first_undef_row-1
        BY <1>5, <1>6, <3>3
      <4>. QED BY <1>1, <1>15, <3>1, <3>3, <4>1 DEF Coherent
    <3>. QED BY <3>2, <3>3
  <2>. QED BY <1>13, <2>1 DEF Coherent
<1>18. AfterWrite(p, start, end, new) = s
  BY <1>4, <1>10 DEF AfterWrite, q
<1>. QED BY <1>1, <1>2, <1>5, <1>13, <1>14, <1>15, <1>16, <1>17, <1>18 DEF BlockOK, SameArray, WriteRight
-----------------------------------------------------------------------------
LEMMA NoArrayOK ==
  NoArray \in BlockType /\ BlockOK(NoArray) /\ Contents(NoArray) = BA!NoRows
<1>1. NoRows \in UNION {Buffer(n) : n \in 0..MaxRows}
  BY DEF NoRows, Buffer, Held
<1>2. /\ NoArray \in BlockType /\ ~NoArray.realized /\ NoArray.rows_in_array = 0
      /\ NoArray.first_undef_row = 0 /\ NoArray.cur_start_row = 0
  BY <1>1 DEF NoArray, BlockType
<1>3. Contents(NoArray) = BA!NoRows
  BY <1>2 DEF Contents, BA!NoRows
<1>. QED BY <1>2, <1>3 DEF BlockOK

(* A fresh array reads as zero or may not be read.                         *)
LEMMA RealizeKeepsContents ==
  ASSUME NEW p, BlockOK(p), ~p.realized, p.rows_in_array > 0,
         NEW h \in 1..MaxRows, NEW c \in 1..MaxRows
  PROVE  BlockOK(realized(p, h, c)) /\ Contents(realized(p, h, c)) = Contents(p)
<1>. DEFINE fits == InMemory(p, h)
            height == IF fits THEN p.rows_in_array ELSE h * p.maxaccess
            buf == [r \in 0..height-1 |-> Garbage]
            back == [r \in 0..p.rows_in_array-1 |-> Garbage]
            q == realized(p, h, c)
<1>1. /\ p \in BlockType /\ p.rows_in_array \in 1..MaxRows /\ p.maxaccess \in 1..MaxRows
      /\ p.first_undef_row = 0 /\ p.cur_start_row = 0
  BY DEF BlockOK, BlockType
<1>2. /\ height \in 1..MaxRows
      /\ ~fits => p.maxaccess <= height
  <2>1. CASE fits
    BY <1>1, <2>1
  <2>2. CASE ~fits
    <3>. DEFINE m == p.maxaccess
                k == (p.rows_in_array - 1) \div m
    <3>1. m \in 1..MaxRows /\ k \in Int /\ k * m <= p.rows_in_array - 1 /\ h \in Int
      BY <1>1
    <3>2. h <= k
      BY <3>1, <2>2 DEF InMemory
    <3>. HIDE DEF k, m
    <3>3. h * m <= k * m /\ m <= h * m /\ h * m \in Int
      BY <3>1, <3>2
    <3>. QED BY <1>1, <2>2, <3>1, <3>3 DEF m
  <2>. QED BY <2>1, <2>2
<1>3. buf \in Buffer(height) /\ back \in Buffer(p.rows_in_array)
  BY DEF Buffer, Held
<1>4. /\ buf \in UNION {Buffer(n) : n \in 0..MaxRows}
      /\ back \in UNION {Buffer(n) : n \in 0..MaxRows}
  BY <1>1, <1>2, <1>3
<1>5. Least(c, height) \in 1..MaxRows
  BY <1>2 DEF Least
<1>. DEFINE open == ~fits
            chunk == Least(c, height)
<1>6. q = [p EXCEPT !.realized = TRUE, !.rows_in_mem = height,
             !.rowsperchunk = chunk, !.b_s_open = open, !.mem_buffer = buf, !.store = back]
  BY DEF realized
<1>7. open \in BOOLEAN /\ (open => p.maxaccess <= height) /\ (~open => height = p.rows_in_array)
  BY <1>2 DEF InMemory
<1>. HIDE DEF open, chunk, fits, height, buf, back, q
<1>8. /\ q \in BlockType /\ q.realized /\ q.rows_in_mem = height /\ q.b_s_open = open
      /\ q.mem_buffer = buf /\ q.store = back /\ q.rows_in_array = p.rows_in_array
      /\ q.maxaccess = p.maxaccess /\ q.pre_zero = p.pre_zero /\ q.first_undef_row = 0
      /\ q.cur_start_row = 0
  <2>1. height \in 0..MaxRows /\ chunk \in 1..MaxRows
    BY <1>2, <1>5 DEF chunk
  <2>. DEFINE half == [p EXCEPT !.realized = TRUE, !.rows_in_mem = height, !.rowsperchunk = chunk]
  <2>2. /\ half \in BlockType /\ half.realized /\ half.rows_in_mem = height
        /\ half.rows_in_array = p.rows_in_array /\ half.maxaccess = p.maxaccess
        /\ half.pre_zero = p.pre_zero /\ half.first_undef_row = 0 /\ half.cur_start_row = 0
    BY <1>1, <2>1 DEF BlockType
  <2>3. q = [half EXCEPT !.b_s_open = open, !.mem_buffer = buf, !.store = back]
    BY <1>6
  <2>. HIDE DEF half
  <2>. QED BY <1>4, <1>7, <2>2, <2>3 DEF BlockType
<1>9. Sized(q)
  BY <1>1, <1>3, <1>7, <1>8 DEF Sized
<1>10. Coherent(q)
  BY <1>8 DEF Coherent
<1>11. Contents(q) = Contents(p)
  <2>1. /\ Contents(q) = [r \in 0..p.rows_in_array-1 |-> IF p.pre_zero THEN Zero ELSE Garbage]
        /\ Contents(p) = [r \in 0..p.rows_in_array-1 |-> IF p.pre_zero THEN Zero ELSE Garbage]
    BY <1>1, <1>8 DEF Contents
  <2>. QED BY <2>1
<1>. QED BY <1>8, <1>9, <1>10, <1>11 DEF BlockOK, q

LEMMA OneArrayChanges ==
  ASSUME va \in [Arrays -> BlockType], NEW a \in Arrays, NEW q,
         va' = [va EXCEPT ![a] = q]
  PROVE  contents' = [contents EXCEPT ![a] = Contents(q)]
<1>1. contents' = [b \in Arrays |-> Contents(va'[b])]
  BY DEF contents, Contents, InWindow
<1>2. \A b \in Arrays : va'[b] = IF b = a THEN q ELSE va[b]
  OBVIOUS
<1>. QED BY <1>1, <1>2 DEF contents

(* Every step keeps the invariant, and is a step of the abstract array.    *)
LEMMA StepImplements ==
  ASSUME IInv, [ANext]_avars
  PROVE  IInv' /\ [BA!Next]_contents
<1>1. CASE Close
  <2>1. \A a \in Arrays : va'[a] = NoArray
    BY <1>1 DEF Close
  <2>2. contents' = [a \in Arrays |-> BA!NoRows]
    <3>1. contents' = [b \in Arrays |-> Contents(va'[b])]
      BY DEF contents, Contents, InWindow
    <3>. QED BY <2>1, <3>1, NoArrayOK
  <2>3. BA!Drop
    BY <2>2 DEF BA!Drop
  <2>4. IInv'
    BY <1>1, <2>1, NoArrayOK DEF IInv, Close
  <2>. QED BY <2>3, <2>4 DEF BA!Next
<1>2. ASSUME NEW a \in Arrays, Request(a)
      PROVE  IInv' /\ [BA!Next]_contents
  <2>1. PICK arg \in Shapes[a] : va' = [va EXCEPT ![a] = request_virt(arg)]
    BY <1>2 DEF Request
  <2>2. arg.rows \in 1..MaxRows /\ arg.maxaccess \in 1..MaxRows /\ arg.pre_zero \in BOOLEAN
    OBVIOUS
  <2>. DEFINE q == request_virt(arg)
              fresh == IF arg.pre_zero THEN Zero ELSE Garbage
  <2>3. /\ q \in BlockType /\ ~q.realized /\ q.rows_in_array = arg.rows /\ q.pre_zero = arg.pre_zero
        /\ q.first_undef_row = 0 /\ q.cur_start_row = 0
    <3>1. NoArray \in BlockType
      BY NoArrayOK
    <3>2. ~NoArray.realized /\ NoArray.first_undef_row = 0 /\ NoArray.cur_start_row = 0
      BY DEF NoArray
    <3>. DEFINE n == arg.rows
                m == arg.maxaccess
                z == arg.pre_zero
    <3>3. q = [NoArray EXCEPT !.rows_in_array = n, !.maxaccess = m, !.pre_zero = z]
      BY DEF request_virt
    <3>4. n \in 0..MaxRows /\ m \in 1..MaxRows /\ z \in BOOLEAN
      BY <2>2
    <3>. HIDE DEF n, m, z, q
    <3>5. /\ q \in BlockType /\ ~q.realized /\ q.rows_in_array = n /\ q.pre_zero = z
          /\ q.first_undef_row = 0 /\ q.cur_start_row = 0
      BY <3>1, <3>2, <3>3, <3>4 DEF BlockType
    <3>. QED BY <3>5 DEF n, z
  <2>. HIDE DEF q
  <2>4. Contents(q) = [r \in 0..arg.rows-1 |-> fresh]
    BY <2>2, <2>3 DEF Contents
  <2>5. contents' = [contents EXCEPT ![a] = [r \in 0..arg.rows-1 |-> fresh]]
    BY <2>1, <2>4, OneArrayChanges DEF IInv, q
  <2>6. contents[a] = BA!NoRows
    BY <1>2, NoArrayOK DEF Request, contents
  <2>7. BA!Create(a)
    BY <2>2, <2>5, <2>6 DEF BA!Create
  <2>8. IInv'
    <3>1. BlockOK(q)
      BY <2>3 DEF BlockOK
    <3>2. va' \in [Arrays -> BlockType]
      BY <2>1, <2>3 DEF IInv, q
    <3>3. \A b \in Arrays : BlockOK(va'[b])
      BY <2>1, <3>1 DEF IInv, q
    <3>. QED BY <1>2, <3>2, <3>3 DEF IInv, Request
  <2>. QED BY <2>7, <2>8 DEF BA!Next
<1>3. ASSUME NEW h \in 1..MaxRows, NEW c \in [Arrays -> 1..MaxRows], Realize(h, c)
      PROVE  IInv' /\ [BA!Next]_contents
  <2>1. ASSUME NEW a \in Arrays
        PROVE  va'[a] \in BlockType /\ BlockOK(va'[a]) /\ Contents(va'[a]) = Contents(va[a])
    <3>1. CASE a \in Unrealized
      <4>1. va'[a] = realized(va[a], h, c[a])
        BY <1>3, <3>1 DEF Realize
      <4>2. BlockOK(va[a]) /\ ~va[a].realized /\ va[a].rows_in_array > 0 /\ c[a] \in 1..MaxRows
        BY <3>1 DEF IInv, Unrealized
      <4>. QED BY <4>1, <4>2, RealizeKeepsContents DEF BlockOK
    <3>2. CASE a \notin Unrealized
      <4>1. va'[a] = va[a]
        BY <1>3, <3>2 DEF Realize
      <4>. QED BY <4>1 DEF IInv
    <3>. QED BY <3>1, <3>2
  <2>2. va' \in [Arrays -> BlockType]
    <3>1. va' = [a \in Arrays |-> va'[a]]
      BY <1>3 DEF Realize
    <3>. QED BY <2>1, <3>1
  <2>3. contents' = contents
    <3>1. contents' = [b \in Arrays |-> Contents(va'[b])]
      BY DEF contents, Contents, InWindow
    <3>. QED BY <2>1, <3>1 DEF contents
  <2>. QED BY <1>3, <2>1, <2>2, <2>3 DEF IInv, Realize
<1>4. ASSUME NEW a \in Arrays, NEW start \in 0..MaxRows-1, NEW end \in 1..MaxRows+1, start < end,
             NEW writable \in BOOLEAN, AccessFails(a, start, end, writable)
      PROVE  IInv' /\ [BA!Next]_contents
  <2>1. va' = va /\ va[a].realized
    BY <1>4 DEF AccessFails
  <2>2. ASSUME VirtualBug(va[a], start, end), end <= va[a].rows_in_array
        PROVE  FALSE
    <3>1. va[a] \in BlockType /\ Sized(va[a]) /\ ~va[a].b_s_open
      BY <2>1, <2>2 DEF IInv, BlockOK, VirtualBug
    <3>2. va[a].cur_start_row = 0 /\ va[a].rows_in_mem = va[a].rows_in_array /\ va[a].rows_in_array \in Nat
      BY <3>1 DEF Sized, BlockType
    <3>. QED BY <2>2, <3>2 DEF VirtualBug, OutsideWindow
  <2>3. error' = "BAD_VIRTUAL_ACCESS"
    BY <1>4, <2>2 DEF AccessFails
  <2>4. contents' = contents
    BY <2>1 DEF contents, Contents, InWindow
  <2>. QED BY <2>1, <2>3, <2>4 DEF IInv
<1>5. ASSUME NEW a \in Arrays, NEW start \in 0..MaxRows-1, NEW end \in 1..MaxRows+1, start < end,
             NEW writable \in BOOLEAN, ~BadAccess(va[a], start, end, writable)
      PROVE  start \in Nat /\ end \in Nat /\ Legal(va[a], start, end)
  BY <1>5 DEF Legal, BadAccess, IInv, BlockOK, BlockType
<1>6. ASSUME NEW a \in Arrays, NEW start \in 0..MaxRows-1, NEW end \in 1..MaxRows+1, start < end,
             Access(a, start, end, FALSE, NoRows)
      PROVE  IInv' /\ [BA!Next]_contents
  <2>. DEFINE d == AfterRead(va[a], start, end)
  <2>1. va' = [va EXCEPT ![a] = d] /\ ~BadAccess(va[a], start, end, FALSE) /\ error' = error
    BY <1>6 DEF Access, AfterRead
  <2>2. BlockOK(d) /\ Contents(d) = Contents(va[a])
    BY <1>5, <1>6, <2>1, ReadKeepsContents DEF ReadRight
  <2>. HIDE DEF d
  <2>3. contents' = [contents EXCEPT ![a] = Contents(va[a])]
    BY <2>1, <2>2, OneArrayChanges DEF IInv
  <2>4. contents' = contents
    BY <2>3 DEF contents
  <2>. QED BY <2>1, <2>2, <2>4 DEF IInv, BlockOK
<1>7. ASSUME NEW a \in Arrays, NEW start \in 0..MaxRows-1, NEW end \in 1..MaxRows+1, start < end,
             NEW new \in [start..end-1 -> Values], Access(a, start, end, TRUE, new)
      PROVE  IInv' /\ [BA!Next]_contents
  <2>. DEFINE s == AfterWrite(va[a], start, end, new)
              last == end - 1
              rows == va[a].rows_in_array
  <2>1. va' = [va EXCEPT ![a] = s] /\ ~BadAccess(va[a], start, end, TRUE) /\ error' = error
    BY <1>7 DEF Access, AfterWrite
  <2>2. start \in Nat /\ end \in Nat /\ Legal(va[a], start, end)
    BY <1>5, <1>7, <2>1
  <2>3. /\ BlockOK(s)
        /\ DOMAIN Contents(s) = 0..rows-1
        /\ \A r \in 0..rows-1 : Contents(s)[r] = IF r \in start..last THEN new[r] ELSE Contents(va[a])[r]
    <3>1. RowsFor(start, end, new)
      BY DEF RowsFor
    <3>2. WriteRight(va[a], start, end, new, s)
      BY <2>1, <2>2, <3>1, WriteStores
    <3>. QED BY <3>2 DEF WriteRight
  <2>. HIDE DEF s
  <2>4. contents' = [contents EXCEPT ![a] = Contents(s)]
    BY <2>1, OneArrayChanges DEF IInv
  <2>5. DOMAIN contents[a] = 0..rows-1 /\ contents[a] = Contents(va[a])
    BY DEF contents, Contents
  <2>6. start \in DOMAIN contents[a] /\ last \in DOMAIN contents[a]
    BY <1>7, <2>2, <2>5, SMTT(40) DEF Legal, BlockType
  <2>7. BA!Write(a)
    <3>1. Contents(s) = [r \in 0..rows-1 |-> Contents(s)[r]]
      BY <2>3 DEF Contents
    <3>2. Contents(s) = [r \in DOMAIN contents[a] |-> IF r \in start..last THEN new[r] ELSE contents[a][r]]
      BY <2>3, <2>5, <3>1
    <3>3. contents' = [contents EXCEPT ![a] = [r \in DOMAIN contents[a] |->
                                                IF r \in start..last THEN new[r] ELSE contents[a][r]]]
      BY <2>4, <3>2, Zenon
    <3>. QED BY <2>6, <3>3, Zenon DEF BA!Write
  <2>8. IInv'
    BY <2>1, <2>3 DEF IInv, BlockOK
  <2>. QED BY <2>7, <2>8 DEF BA!Next
<1>8. CASE UNCHANGED avars
  <2>1. va' = va /\ error' = error
    BY <1>8 DEF avars
  <2>. QED BY <2>1 DEF IInv, contents, Contents, InWindow
<1>. QED BY <1>1, <1>2, <1>3, <1>4, <1>6, <1>7, <1>8 DEF ANext, Accesses
-----------------------------------------------------------------------------
(* The invariant holds, for every number and size of arrays.               *)
THEOREM Invariant == ASpec => []IInv
<1>1. AInit => IInv
  BY NoArrayOK DEF AInit, IInv
<1>2. IInv /\ [ANext]_avars => IInv'
  BY StepImplements
<1>. QED BY <1>1, <1>2, PTL DEF ASpec

(* The JERR_VIRTUAL_BUG exit of access_virt_sarray and access_virt_barray  *)
(* is dead: an access within bounds finds its rows in memory or a file     *)
(* behind them.                                                            *)
THEOREM NoBug == ASpec => []NoVirtualBug
<1>1. IInv => NoVirtualBug
  BY DEF IInv, NoVirtualBug
<1>. QED BY <1>1, Invariant, PTL

(* Whatever rows a reader may ask for next, it gets what the array holds.  *)
LEMMA ReadersOfInvariant == IInv => ReadersGetContents
<1>. SUFFICES ASSUME IInv, NEW a \in Arrays, NEW start \in 0..va[a].rows_in_array-1,
                     NEW end \in 1..va[a].rows_in_array, start < end,
                     ~BadAccess(va[a], start, end, FALSE)
              PROVE  LET p == AfterRead(va[a], start, end)
                     IN  \A r \in start..end-1 :
                           /\ r - p.cur_start_row \in 0..p.rows_in_mem-1
                           /\ Returned(p, start, end)[r] = Contents(va[a])[r]
  BY DEF ReadersGetContents, AfterRead
<1>1. start \in Nat /\ end \in Nat /\ Legal(va[a], start, end)
  BY DEF Legal, BadAccess, IInv, BlockOK, BlockType
<1>2. ReadRight(va[a], start, end, AfterRead(va[a], start, end))
  BY <1>1, ReadKeepsContents
<1>. QED BY <1>2 DEF ReadRight

(* In every state of the arrays, whatever rows a reader may ask for next.  *)
THEOREM ReadersRight == ASpec => []ReadersGetContents
<1>. QED BY Invariant, ReadersOfInvariant, PTL

(* To the users of the memory manager a virtual array is an array of rows  *)
(* that keeps what is written to it: moving the window, writing rows out   *)
(* and reading them back are stutters of BlockArray.                       *)
THEOREM Implementation == ASpec => ImplementsBlockArray
<1>1. AInit => BA!Init
  BY NoArrayOK DEF AInit, BA!Init, contents
<1>2. IInv /\ [ANext]_avars => [BA!Next]_contents
  BY StepImplements
<1>. QED BY <1>1, <1>2, Invariant, PTL DEF ASpec, ImplementsBlockArray, BA!Spec

-----------------------------------------------------------------------------
HIDE ValuesAssumption

(* Sums is what its definition says.                                       *)
LEMMA SumsDef ==
  ASSUME NEW n \in Nat, NEW s \in [1..n -> Int]
  PROVE  /\ Sums(n, s) \in [0..n -> Int]
         /\ Sums(n, s)[0] = 0
         /\ \A k \in 1..n : Sums(n, s)[k] = Sums(n, s)[k - 1] + s[k]
<1> DEFINE h == [k \in 1..n |-> [v \in Int |-> v + s[k]]]
<1>2. h \in [1..n -> [Int -> Int]]
  OBVIOUS
<1>3. \A k \in 1..n, v \in Int : h[k][v] = v + s[k]
  OBVIOUS
<1> DEFINE Z == Int
<1>4. 0 \in Z /\ h \in Facts!Rules(Z, n)
  BY <1>2 DEF Facts!Rules
<1> HIDE DEF Z, h
<1>5. PICK f : f \in [0..n -> Z] /\ Facts!Follows(f, n, 0, h)
  BY <1>4, Facts!Recursion
<1>6. f = [k \in 0..n |-> IF k = 0 THEN 0 ELSE f[k - 1] + s[k]]
  <2>1. \A k \in 1..n : f[k - 1] \in Int
    BY <1>5 DEF Z
  <2>2. \A k \in 1..n : f[k] = f[k - 1] + s[k]
    BY <1>3, <1>5, <2>1 DEF Facts!Follows
  <2>3. f = [k \in 0..n |-> f[k]]
    BY <1>5
  <2>4. \A k \in 0..n : f[k] = IF k = 0 THEN 0 ELSE f[k - 1] + s[k]
    BY <1>5, <2>2 DEF Facts!Follows
  <2>5. QED
    BY <2>3, <2>4, Zenon
<1>7. Sums(n, s) = [k \in 0..n |-> IF k = 0 THEN 0 ELSE Sums(n, s)[k - 1] + s[k]]
  BY <1>6 DEF Sums
<1> DEFINE t == Sums(n, s)
<1> HIDE DEF t
<1>8. t[0] = 0 /\ t = [k \in 0..n |-> t[k]]
  BY <1>7 DEF t
<1>9. \A k \in 1..n : t[k] = t[k - 1] + s[k]
  BY <1>7 DEF t
<1>10. \A k \in 1..n : t[k - 1] \in Int => t[k] \in Int
  BY <1>9
<1>11. \A k \in 0..n : t[k] \in Z
  <2>1. t[0] \in Z /\ \A k \in 1..n : t[k - 1] \in Z => t[k] \in Z
    BY <1>8, <1>10 DEF Z
  <2>2. QED
    BY <2>1, Facts!Ascent
<1>12. t \in [0..n -> Int]
  BY <1>8, <1>11 DEF Z
<1>13. QED
  BY <1>8, <1>9, <1>12 DEF t

(* Sums of functions that agree up to some place agree up to it.           *)
LEMMA SumsAgree ==
  ASSUME NEW n \in Nat, NEW s \in [1..n -> Int], NEW p \in Nat, NEW t \in [1..p -> Int],
         NEW m \in Nat, m <= n, m <= p, \A k \in 1..m : s[k] = t[k]
  PROVE  Sums(n, s)[m] = Sums(p, t)[m]
<1> DEFINE f == [k \in 0..m |-> Sums(n, s)[k] - Sums(p, t)[k]]
           Z == {0}
<1>1. \A k \in 0..m : Sums(n, s)[k] \in Int /\ Sums(p, t)[k] \in Int
  BY SumsDef, SMTT(40)
<1>2. f[0] \in Z
  <2>1. Sums(n, s)[0] = 0 /\ Sums(p, t)[0] = 0
    BY SumsDef
  <2>2. QED
    BY <2>1
<1>3. ASSUME NEW k \in 1..m, f[k - 1] \in Z PROVE f[k] \in Z
  <2>1. k \in 1..n /\ k \in 1..p /\ k - 1 \in 0..m /\ k \in 0..m /\ s[k] = t[k] /\ s[k] \in Int
    OBVIOUS
  <2>2. Sums(n, s)[k] = Sums(n, s)[k - 1] + s[k] /\ Sums(p, t)[k] = Sums(p, t)[k - 1] + t[k]
    BY <2>1, SumsDef
  <2>3. Sums(n, s)[k - 1] - Sums(p, t)[k - 1] = 0
    BY <1>3, <2>1
  <2>4. Sums(n, s)[k] - Sums(p, t)[k] = 0
    BY <1>1, <2>1, <2>2, <2>3
  <2>5. QED
    BY <2>1, <2>4
<1> HIDE DEF f, Z
<1>4. \A k \in 0..m : f[k] \in Z
  BY <1>2, <1>3, Facts!Ascent
<1>5. f[m] = 0
  BY <1>4 DEF Z
<1>6. QED
  BY <1>1, <1>5 DEF f

(* The total of integers is one; that of no numbers is 0.                  *)
LEMMA TotalIsInt ==
  ASSUME NEW n \in Nat, NEW s \in [1..n -> Int] PROVE Total(n, s) \in Int
BY SumsDef DEF Total

LEMMA TotalOfNone ==
  ASSUME NEW s \in [1..0 -> Int] PROVE Total(0, s) = 0
BY SumsDef DEF Total

(* One number more at the end, or at the beginning.                        *)
LEMMA TotalAppend ==
  ASSUME NEW n \in Nat, NEW s \in [1..n -> Int], NEW t \in [1..(n + 1) -> Int],
         \A k \in 1..n : t[k] = s[k]
  PROVE  Total(n + 1, t) = Total(n, s) + t[n + 1]
<1> DEFINE p == n + 1
<1>1. p \in Nat /\ n <= p /\ p \in 1..p /\ p - 1 = n /\ t \in [1..p -> Int]
  OBVIOUS
<1> HIDE DEF p
<1>2. Sums(p, t)[p] = Sums(p, t)[n] + t[p]
  BY <1>1, SumsDef
<1>3. Sums(n, s)[n] = Sums(p, t)[n]
  BY <1>1, SumsAgree
<1>4. QED
  BY <1>2, <1>3 DEF Total, p

LEMMA TotalPrepend ==
  ASSUME NEW n \in Nat, NEW s \in [1..n -> Int], NEW t \in [1..(n + 1) -> Int],
         \A k \in 1..n : t[k + 1] = s[k]
  PROVE  Total(n + 1, t) = Total(n, s) + t[1]
<1> DEFINE p == n + 1
           f == [k \in 0..n |-> Sums(p, t)[k + 1] - Sums(n, s)[k]]
           Z == {t[1]}
<1>1. p \in Nat /\ t \in [1..p -> Int] /\ 1 \in 1..p /\ t[1] \in Int
  OBVIOUS
<1>2. \A k \in 0..n : k + 1 \in 0..p
  OBVIOUS
<1> HIDE DEF p
<1>3. \A k \in 0..n : Sums(p, t)[k + 1] \in Int /\ Sums(n, s)[k] \in Int
  BY <1>1, <1>2, SumsDef
<1>4. f[0] \in Z
  <2>1. Sums(p, t)[1] = Sums(p, t)[1 - 1] + t[1] /\ Sums(p, t)[0] = 0 /\ Sums(n, s)[0] = 0
    BY <1>1, SumsDef
  <2>2. QED
    BY <1>1, <2>1
<1>5. ASSUME NEW k \in 1..n, f[k - 1] \in Z PROVE f[k] \in Z
  <2>1. /\ k + 1 \in 1..p /\ k - 1 \in 0..n /\ k \in 0..n /\ k - 1 + 1 = k /\ k + 1 - 1 = k
        /\ t[k + 1] = s[k] /\ s[k] \in Int
    BY DEF p
  <2>2. Sums(p, t)[k + 1] = Sums(p, t)[k] + t[k + 1]
    <3>1. \A j \in 1..p : Sums(p, t)[j] = Sums(p, t)[j - 1] + t[j]
      BY <1>1, SumsDef
    <3>2. QED
      BY <2>1, <3>1
  <2>3. Sums(n, s)[k] = Sums(n, s)[k - 1] + s[k]
    BY <2>1, SumsDef
  <2>4. Sums(p, t)[k] - Sums(n, s)[k - 1] = t[1]
    BY <1>5, <2>1
  <2>5. Sums(p, t)[k] \in Int /\ Sums(n, s)[k - 1] \in Int
    BY <1>3, <2>1
  <2>6. t[k + 1] = s[k] /\ s[k] \in Int /\ t[1] \in Int
    BY <1>1, <2>1
  <2>7. Sums(p, t)[k + 1] - Sums(n, s)[k] = t[1]
    <3> DEFINE a == Sums(p, t)[k]
               b == Sums(n, s)[k - 1]
               c == s[k]
    <3>1. a \in Int /\ b \in Int /\ c \in Int /\ a - b = t[1]
      BY <2>4, <2>5, <2>6
    <3>2. Sums(p, t)[k + 1] = a + c /\ Sums(n, s)[k] = b + c
      BY <2>2, <2>3, <2>6
    <3> HIDE DEF a, b, c
    <3>3. (a + c) - (b + c) = a - b
      BY <3>1
    <3>4. QED
      BY <3>1, <3>2, <3>3, Zenon
  <2>8. QED
    BY <2>1, <2>7
<1> HIDE DEF f, Z
<1>6. \A k \in 0..n : f[k] \in Z
  BY <1>4, <1>5, Facts!Ascent
<1>7. f[n] = t[1]
  BY <1>6 DEF Z
<1>8. Sums(p, t)[p] - Sums(n, s)[n] = t[1]
  BY <1>7 DEF f, p
<1>9. Sums(p, t)[p] \in Int /\ Sums(n, s)[n] \in Int
  BY <1>3 DEF p
<1>10. QED
  BY <1>1, <1>8, <1>9 DEF Total, p

(* Numbers that are at most c times others have at most c times the total. *)
LEMMA TotalAtMost ==
  ASSUME NEW n \in Nat, NEW s \in [1..n -> Nat], NEW t \in [1..n -> Nat], NEW c \in Nat,
         \A k \in 1..n : s[k] <= c * t[k]
  PROVE  Total(n, s) \in Nat /\ Total(n, t) \in Nat /\ Total(n, s) <= c * Total(n, t)
<1> DEFINE f == [k \in 0..n |-> <<Sums(n, s)[k], Sums(n, t)[k]>>]
           Z == {p \in Nat \X Nat : p[1] <= c * p[2]}
<1>1. s \in [1..n -> Int] /\ t \in [1..n -> Int]
  OBVIOUS
<1>2. f[0] \in Z
  <2>1. Sums(n, s)[0] = 0 /\ Sums(n, t)[0] = 0
    BY <1>1, SumsDef
  <2>2. f[0] = <<0, 0>>
    BY <2>1
  <2>3. QED
    BY <2>2
<1>3. ASSUME NEW k \in 1..n, f[k - 1] \in Z PROVE f[k] \in Z
  <2> DEFINE a == Sums(n, s)[k - 1]
             b == Sums(n, t)[k - 1]
  <2>1. k - 1 \in 0..n /\ k \in 0..n /\ s[k] \in Nat /\ t[k] \in Nat /\ s[k] <= c * t[k]
    OBVIOUS
  <2>2. f[k - 1] = <<a, b>>
    BY <2>1
  <2>3. a \in Nat /\ b \in Nat /\ a <= c * b
    BY <1>3, <2>2
  <2>4. Sums(n, s)[k] = a + s[k] /\ Sums(n, t)[k] = b + t[k]
    BY <1>1, SumsDef
  <2>5. f[k] = <<a + s[k], b + t[k]>>
    BY <2>1, <2>4
  <2> HIDE DEF a, b, f
  <2>6. c * (b + t[k]) = c * b + c * t[k] /\ c * b \in Nat /\ c * t[k] \in Nat
    BY <2>1, <2>3
  <2>7. a + s[k] <= c * (b + t[k]) /\ a + s[k] \in Nat /\ b + t[k] \in Nat
    BY <2>1, <2>3, <2>6, SMTT(40)
  <2>8. QED
    BY <2>5, <2>7
<1> HIDE DEF f, Z
<1>4. \A k \in 0..n : f[k] \in Z
  BY <1>2, <1>3, Facts!Ascent
<1>5. <<Total(n, s), Total(n, t)>> \in Z
  BY <1>4 DEF f, Total
<1>6. QED
  BY <1>5 DEF Z

(***************************************************************************)
(* A step that changes mem and objects.                                    *)
(***************************************************************************)
LEMMA SizeFacts ==
  /\ ALIGN \in Nat \ {0} /\ HDR \in Nat /\ HDR % ALIGN = 0
  /\ MAX_ALLOC_CHUNK \in Nat /\ HDR <= MAX_ALLOC_CHUNK /\ MAX_ALLOC_CHUNK % ALIGN = 0
  /\ MIN_SLOP \in Nat \ {0} /\ MgrSize \in Nat /\ ControlSize \in Nat /\ Sizes \subseteq Nat
  /\ first_pool_slop \in [Pools -> Nat] /\ extra_pool_slop \in [Pools -> Nat]
BY SizesAssumption, Zenon

(* The largest payload of a chunk is a multiple of the alignment.          *)
LEMMA MaxPayload ==
  MAX_ALLOC_CHUNK - HDR \in Nat /\ (MAX_ALLOC_CHUNK - HDR) % ALIGN = 0
<1> DEFINE a == MAX_ALLOC_CHUNK \div ALIGN
           b == HDR \div ALIGN
           k == a - b
<1>1. a \in Int /\ b \in Int /\ MAX_ALLOC_CHUNK = ALIGN * a /\ HDR = ALIGN * b
  BY SizeFacts
<1> HIDE DEF a, b
<1>2. MAX_ALLOC_CHUNK - HDR = ALIGN * k /\ k \in Int
  BY SizeFacts, <1>1
<1> HIDE DEF k
<1>3. k >= 0
  <2>1. CASE k < 0
    <3>1. ALIGN * (-k - 1) >= 0 /\ ALIGN * (-k - 1) = -(ALIGN * k) - ALIGN
      BY SizeFacts, <1>2, <2>1
    <3>2. QED
      BY SizeFacts, <1>2, <3>1
  <2>2. QED
    BY <1>2, <2>1
<1>4. (ALIGN * k) % ALIGN = 0
  BY SizeFacts, <1>2, <1>3, Facts!MultipleModulo
<1>5. QED
  BY SizeFacts, <1>2, <1>4

(* Rounding up stays within the largest payload.                           *)
LEMMA RoundUpFits ==
  ASSUME NEW n \in Nat, ~ Unsatisfiable(n)
  PROVE  /\ RoundUp(n) \in Nat /\ RoundUp(n) % ALIGN = 0
         /\ RoundUp(n) <= MAX_ALLOC_CHUNK - HDR
<1> DEFINE Most == MAX_ALLOC_CHUNK - HDR
           r == n % ALIGN
           low == n - r
<1>1. Most \in Nat /\ Most % ALIGN = 0 /\ n <= Most /\ ALIGN \in Nat \ {0}
  BY MaxPayload, SizeFacts DEF Unsatisfiable
<1>2. low \in Nat /\ low <= n /\ low % ALIGN = 0 /\ n < low + ALIGN
  BY <1>1, Facts!Multiples
<1>3. RoundUp(n) = IF r > 0 THEN low + ALIGN ELSE n
  BY <1>1 DEF RoundUp
<1>4. r \in Nat /\ r = n - low
  BY <1>1
<1> HIDE DEF Most, r, low
<1>5. CASE r > 0
  <2>1. low < Most
    BY <1>1, <1>2, <1>4, <1>5
  <2>2. low + ALIGN <= Most
    BY <1>1, <1>2, <2>1, Facts!MultiplesApart
  <2>3. (low + ALIGN) % ALIGN = 0
    BY <1>1, <1>2, Facts!Multiples
  <2>4. QED
    BY <1>1, <1>2, <1>3, <1>5, <2>2, <2>3 DEF Most
<1>6. CASE r = 0
  <2>1. low = n
    BY <1>2, <1>4, <1>6
  <2>2. QED
    BY <1>1, <1>2, <1>3, <1>6, <2>1 DEF Most
<1>7. QED
  BY <1>4, <1>5, <1>6

(* Every slop that is tried is at most the first.                          *)
LEMMA SlopsFit ==
  ASSUME NEW top \in Nat
  PROVE  SlopsTried(top) \subseteq 0..top
<1> DEFINE Z == 0..top
           h == [k \in 1..top |-> [v \in Z |-> v \div 2]]
           slop == CHOOSE s : s = [k \in 0..top |-> IF k = 0 THEN top ELSE s[k - 1] \div 2]
<1>1. \A v \in Z : v \div 2 \in Z
  OBVIOUS
<1>2. top \in Z /\ h \in Facts!Rules(Z, top)
  BY <1>1 DEF Facts!Rules
<1>3. \A k \in 1..top, v \in Z : h[k][v] = v \div 2
  OBVIOUS
<1>4. SlopsTried(top) = {top} \union {s \in {slop[k] : k \in 0..top} : s >= MIN_SLOP}
  BY DEF SlopsTried
<1> HIDE DEF Z, h
<1>5. PICK f : f \in [0..top -> Z] /\ Facts!Follows(f, top, top, h)
  BY <1>2, Facts!Recursion
<1>6. f = [k \in 0..top |-> IF k = 0 THEN top ELSE f[k - 1] \div 2]
  <2>1. \A k \in 1..top : f[k - 1] \in Z
    BY <1>5
  <2>2. \A k \in 1..top : f[k] = f[k - 1] \div 2
    BY <1>3, <1>5, <2>1 DEF Facts!Follows
  <2>3. f = [k \in 0..top |-> f[k]]
    BY <1>5
  <2>4. \A k \in 0..top : f[k] = IF k = 0 THEN top ELSE f[k - 1] \div 2
    BY <1>5, <2>2 DEF Facts!Follows
  <2>5. QED
    BY <2>3, <2>4, Zenon
<1>7. slop = [k \in 0..top |-> IF k = 0 THEN top ELSE slop[k - 1] \div 2]
  BY <1>6
<1> HIDE DEF slop
<1>8. slop[0] \in Z
  BY <1>2, <1>7
<1>9. ASSUME NEW k \in 1..top, slop[k - 1] \in Z PROVE slop[k] \in Z
  <2>1. slop[k] = slop[k - 1] \div 2
    BY <1>7
  <2>2. QED
    BY <1>1, <1>9, <2>1
<1>10. \A k \in 0..top : slop[k] \in Z
  BY <1>8, <1>9, Facts!Ascent
<1>11. QED
  BY <1>2, <1>4, <1>10 DEF Z

-----------------------------------------------------------------------------
(* A chunk: what malloc gave is the header, the objects and the room left. *)
ChunkType ==
  {c \in [size : Nat, bytes_used : Nat, bytes_left : Nat] :
     /\ c.size = HDR + c.bytes_used + c.bytes_left /\ c.size <= MAX_ALLOC_CHUNK
     /\ c.bytes_used % ALIGN = 0}
Chunks == Seq(ChunkType)

MgrType ==
  [small_list : [Pools -> Chunks], large_list : [Pools -> Chunks],
   virt_sarray_list : Seq(Arrays), virt_barray_list : Seq(Arrays),
   total_space_allocated : Int]

(* The managers whose account is exact.                                    *)
Managers == {m \in MgrType : m.total_space_allocated = Obtained(m)}

SizesOf(s) == [i \in 1..Len(s) |-> s[i].size]

(* The sizes in a list of chunks add up to what malloc gave for it.        *)
LEMMA ChunkSizes ==
  ASSUME NEW s \in Chunks
  PROVE  /\ Len(s) \in Nat /\ SizesOf(s) \in [1..Len(s) -> Int]
         /\ Malloced(s) = Total(Len(s), SizesOf(s))
         /\ \A i \in 1..Len(s) : SizesOf(s)[i] = s[i].size
<1>1. Len(s) \in Nat /\ \A i \in 1..Len(s) : s[i] \in ChunkType
  BY DEF Chunks
<1>2. \A c \in ChunkType : c.size \in Int
  BY DEF ChunkType
<1>3. QED
  BY <1>1, <1>2 DEF SizesOf, Malloced

(* What malloc gave for a list of chunks, and how it changes with the list. *)
LEMMA MallocedIsInt == ASSUME NEW s \in Chunks PROVE Malloced(s) \in Int
BY ChunkSizes, TotalIsInt

LEMMA MallocedEmpty == Malloced(<<>>) = 0 /\ <<>> \in Chunks
<1>1. <<>> \in Chunks /\ Len(<<>>) = 0
  BY DEF Chunks
<1>2. SizesOf(<<>>) \in [1..0 -> Int]
  BY <1>1, ChunkSizes
<1>3. QED
  BY <1>1, <1>2, ChunkSizes, TotalOfNone

LEMMA MallocedSame ==
  ASSUME NEW s \in Chunks, NEW t \in Chunks, Len(t) = Len(s),
         \A i \in 1..Len(s) : t[i].size = s[i].size
  PROVE  Malloced(t) = Malloced(s)
<1>1. SizesOf(t) = SizesOf(s)
  BY DEF SizesOf
<1>2. QED
  BY <1>1, ChunkSizes

LEMMA MallocedAppend ==
  ASSUME NEW s \in Chunks, NEW c \in ChunkType
  PROVE  Append(s, c) \in Chunks /\ Malloced(Append(s, c)) = Malloced(s) + c.size
<1> DEFINE t == Append(s, c)
           n == Len(s)
<1>1. /\ t \in Chunks /\ n \in Nat /\ Len(t) = n + 1 /\ t[n + 1] = c
      /\ \A i \in 1..n : t[i] = s[i]
  BY DEF Chunks
<1> HIDE DEF t
<1>2. n + 1 \in 1..Len(t) /\ \A i \in 1..n : i \in 1..Len(t)
  BY <1>1
<1>3. SizesOf(t)[n + 1] = c.size /\ \A i \in 1..n : SizesOf(t)[i] = SizesOf(s)[i]
  BY <1>1, <1>2, ChunkSizes
<1>4. Total(n + 1, SizesOf(t)) = Total(n, SizesOf(s)) + SizesOf(t)[n + 1]
  BY <1>1, <1>3, ChunkSizes, TotalAppend
<1>5. QED
  BY <1>1, <1>3, <1>4, ChunkSizes DEF t

LEMMA MallocedPrepend ==
  ASSUME NEW s \in Chunks, NEW c \in ChunkType
  PROVE  <<c>> \o s \in Chunks /\ Malloced(<<c>> \o s) = Malloced(s) + c.size
<1> DEFINE t == <<c>> \o s
           n == Len(s)
<1>1. /\ t \in Chunks /\ n \in Nat /\ Len(t) = n + 1 /\ t[1] = c
      /\ \A i \in 1..n : t[i + 1] = s[i]
  BY DEF Chunks
<1> HIDE DEF t
<1>2. 1 \in 1..Len(t) /\ \A i \in 1..n : i + 1 \in 1..Len(t)
  BY <1>1
<1>3. SizesOf(t)[1] = c.size /\ \A i \in 1..n : SizesOf(t)[i + 1] = SizesOf(s)[i]
  BY <1>1, <1>2, ChunkSizes, ZenonT(60)
<1>4. Total(n + 1, SizesOf(t)) = Total(n, SizesOf(s)) + SizesOf(t)[1]
  BY <1>1, <1>3, ChunkSizes, TotalPrepend
<1>5. QED
  BY <1>1, <1>3, <1>4, ChunkSizes DEF t

(* What free_pool subtracts for the chunks of a list is what malloc gave.  *)
LEMMA FreedIsMalloced ==
  ASSUME NEW s \in Chunks PROVE Freed(s) = Malloced(s)
<1>1. \A i \in 1..Len(s) : s[i] \in ChunkType
  BY DEF Chunks
<1>2. \A c \in ChunkType : c.bytes_used + c.bytes_left + HDR = c.size
  BY SizeFacts DEF ChunkType
<1>3. [i \in 1..Len(s) |-> s[i].bytes_used + s[i].bytes_left + HDR] = [i \in 1..Len(s) |-> s[i].size]
  BY <1>1, <1>2
<1>4. QED
  BY <1>3 DEF Freed, Malloced

-----------------------------------------------------------------------------
(* The parts of chunks and managers.                                       *)
LEMMA ChunkFacts ==
  ASSUME NEW c \in ChunkType
  PROVE  /\ c.size \in Nat /\ c.bytes_used \in Nat /\ c.bytes_left \in Nat
         /\ c.bytes_used % ALIGN = 0 /\ c.size <= MAX_ALLOC_CHUNK
         /\ c.size = HDR + c.bytes_used + c.bytes_left
BY DEF ChunkType

LEMMA ListFacts ==
  ASSUME NEW s \in Chunks
  PROVE  Len(s) \in Nat /\ \A i \in 1..Len(s) : s[i] \in ChunkType
BY DEF Chunks

LEMMA MgrFacts ==
  ASSUME NEW m \in MgrType
  PROVE  /\ \A p \in Pools : /\ m.small_list[p] \in Chunks /\ m.large_list[p] \in Chunks
                            /\ PoolSize(m, p) \in Int
         /\ m.total_space_allocated \in Int /\ Obtained(m) \in Int
<1>1. \A p \in Pools : m.small_list[p] \in Chunks /\ m.large_list[p] \in Chunks
  BY DEF MgrType
<1>2. \A p \in Pools : PoolSize(m, p) \in Int
  BY <1>1, MallocedIsInt DEF PoolSize
<1>3. Obtained(m) \in Int
  BY <1>2, SizeFacts DEF Obtained, Pools
<1>4. m.total_space_allocated \in Int
  BY DEF MgrType
<1>5. QED
  BY <1>1, <1>2, <1>3, <1>4

(* One list of small chunks, or of large ones, and the account change.     *)
SmallChanged(m, p, s, n) ==
  n = [m EXCEPT !.small_list = [m.small_list EXCEPT ![p] = s],
                !.total_space_allocated = n.total_space_allocated]
LargeChanged(m, p, s, n) ==
  n = [m EXCEPT !.large_list = [m.large_list EXCEPT ![p] = s],
                !.total_space_allocated = n.total_space_allocated]

LEMMA SmallChange ==
  ASSUME NEW m \in MgrType, NEW p \in Pools, NEW s \in Chunks, NEW n,
         n.total_space_allocated \in Int, SmallChanged(m, p, s, n)
  PROVE  /\ n \in MgrType /\ n.small_list[p] = s
         /\ \A q \in Pools \ {p} : n.small_list[q] = m.small_list[q]
         /\ Obtained(n) = Obtained(m) - Malloced(m.small_list[p]) + Malloced(s)
<1>1. n.small_list = [m.small_list EXCEPT ![p] = s] /\ n.large_list = m.large_list
  BY DEF SmallChanged, MgrType
<1>2. n \in MgrType
  BY ZenonT(60) DEF SmallChanged, MgrType
<1>3. n.small_list[p] = s /\ \A q \in Pools \ {p} : n.small_list[q] = m.small_list[q]
  BY <1>1 DEF MgrType
<1>4. \A q \in Pools : /\ Malloced(m.small_list[q]) \in Int /\ Malloced(m.large_list[q]) \in Int
                       /\ Malloced(n.small_list[q]) \in Int
  BY <1>2, MallocedIsInt DEF MgrType
<1>5. Obtained(n) = Obtained(m) - Malloced(m.small_list[p]) + Malloced(s)
  <2>1. CASE p = "PERMANENT"
    BY <1>1, <1>3, <1>4, <2>1, SizeFacts DEF Obtained, PoolSize, Pools
  <2>2. CASE p = "IMAGE"
    BY <1>1, <1>3, <1>4, <2>2, SizeFacts DEF Obtained, PoolSize, Pools
  <2>3. QED
    BY <2>1, <2>2 DEF Pools
<1>6. QED
  BY <1>2, <1>3, <1>5

(* The same for the lists of large chunks.                                 *)
LEMMA LargeChange ==
  ASSUME NEW m \in MgrType, NEW p \in Pools, NEW s \in Chunks, NEW n,
         n.total_space_allocated \in Int, LargeChanged(m, p, s, n)
  PROVE  /\ n \in MgrType /\ n.small_list = m.small_list
         /\ Obtained(n) = Obtained(m) - Malloced(m.large_list[p]) + Malloced(s)
<1>1. n.large_list = [m.large_list EXCEPT ![p] = s] /\ n.small_list = m.small_list
  BY DEF LargeChanged, MgrType
<1>2. n \in MgrType
  BY ZenonT(60) DEF LargeChanged, MgrType
<1>3. n.large_list[p] = s /\ \A q \in Pools \ {p} : n.large_list[q] = m.large_list[q]
  BY <1>1 DEF MgrType
<1>4. \A q \in Pools : /\ Malloced(m.small_list[q]) \in Int /\ Malloced(m.large_list[q]) \in Int
                       /\ Malloced(n.large_list[q]) \in Int
  BY <1>2, MallocedIsInt DEF MgrType
<1>5. Obtained(n) = Obtained(m) - Malloced(m.large_list[p]) + Malloced(s)
  <2>1. CASE p = "PERMANENT"
    BY <1>1, <1>3, <1>4, <2>1, SizeFacts DEF Obtained, PoolSize, Pools
  <2>2. CASE p = "IMAGE"
    BY <1>1, <1>3, <1>4, <2>2, SizeFacts DEF Obtained, PoolSize, Pools
  <2>3. QED
    BY <2>1, <2>2 DEF Pools
<1>6. QED
  BY <1>1, <1>2, <1>5

(* Small chunks stay where they are, and hold no less.                     *)
Grows(m, n) ==
  \A p \in Pools : \A i \in 1..Len(m.small_list[p]) :
    /\ i \in 1..Len(n.small_list[p])
    /\ m.small_list[p][i].bytes_used <= n.small_list[p][i].bytes_used

(* An object is in the used part of its chunk, and aligned.                *)
Objects == [pool : Pools, chunk : Nat, first : Nat, size : Nat]
ObjectOK(m, o) ==
  /\ o \in Objects /\ o.chunk \in 1..Len(m.small_list[o.pool]) /\ o.first % ALIGN = 0
  /\ o.first + o.size <= m.small_list[o.pool][o.chunk].bytes_used

(* A new object is behind all that its chunk held before.                  *)
Fresh(m, o) ==
  o.chunk \in 1..Len(m.small_list[o.pool]) => m.small_list[o.pool][o.chunk].bytes_used <= o.first

(* Growing twice is growing.                                               *)
LEMMA GrowsOn ==
  ASSUME NEW k \in MgrType, NEW m \in MgrType, NEW n \in MgrType, Grows(k, m), Grows(m, n)
  PROVE  Grows(k, n)
<1> SUFFICES ASSUME NEW p \in Pools, NEW i \in 1..Len(k.small_list[p])
             PROVE  /\ i \in 1..Len(n.small_list[p])
                    /\ k.small_list[p][i].bytes_used <= n.small_list[p][i].bytes_used
  BY DEF Grows
<1>1. i \in 1..Len(m.small_list[p]) /\ k.small_list[p][i].bytes_used <= m.small_list[p][i].bytes_used
  BY DEF Grows
<1>2. i \in 1..Len(n.small_list[p]) /\ m.small_list[p][i].bytes_used <= n.small_list[p][i].bytes_used
  BY <1>1 DEF Grows
<1>3. \A x \in MgrType : i \in 1..Len(x.small_list[p]) => x.small_list[p][i].bytes_used \in Nat
  BY MgrFacts, ListFacts, ChunkFacts
<1>4. QED
  BY <1>1, <1>2, <1>3, SMTT(40)

(* Multiples add up.                                                       *)
LEMMA MultiplesAdd ==
  ASSUME NEW s \in Nat \ {0}, NEW a \in Nat, NEW b \in Nat, a % s = 0, b % s = 0
  PROVE  (a + b) % s = 0
<1> DEFINE p == a \div s
           q == b \div s
           k == p + q
<1>1. p \in Nat /\ q \in Nat /\ a = s * p /\ b = s * q
  OBVIOUS
<1> HIDE DEF p, q
<1>2. k \in Nat /\ a + b = s * k
  BY <1>1
<1> HIDE DEF k
<1>3. QED
  BY <1>2, Facts!MultipleModulo

(* Carving an object out of a chunk that has room.                         *)
Carved(c, need) == [c EXCEPT !.bytes_used = @ + need, !.bytes_left = @ - need]

LEMMA CarvedChunk ==
  ASSUME NEW c \in ChunkType, NEW need \in Nat, need % ALIGN = 0, need <= c.bytes_left
  PROVE  /\ Carved(c, need) \in ChunkType /\ Carved(c, need).size = c.size
         /\ Carved(c, need).bytes_used = c.bytes_used + need
<1> DEFINE d == Carved(c, need)
<1>1. /\ c.size \in Nat /\ c.bytes_used \in Nat /\ c.bytes_left \in Nat /\ c.bytes_used % ALIGN = 0
      /\ c.size = HDR + c.bytes_used + c.bytes_left /\ c.size <= MAX_ALLOC_CHUNK
  BY ChunkFacts
<1>2. (c.bytes_used + need) % ALIGN = 0
  BY <1>1, SizeFacts, MultiplesAdd
<1>3. c \in [size : Nat, bytes_used : Nat, bytes_left : Nat]
  BY DEF ChunkType
<1>4. /\ d.size = c.size /\ d.bytes_used = c.bytes_used + need /\ d.bytes_left = c.bytes_left - need
      /\ d = [size |-> d.size, bytes_used |-> d.bytes_used, bytes_left |-> d.bytes_left]
  <2>1. d = [size |-> c.size, bytes_used |-> c.bytes_used + need, bytes_left |-> c.bytes_left - need]
    <3> DEFINE e == [c EXCEPT !.bytes_used = c.bytes_used + need]
    <3>1. d = [e EXCEPT !.bytes_left = c.bytes_left - need]
      BY DEF Carved
    <3>2. e = [size |-> c.size, bytes_used |-> c.bytes_used + need, bytes_left |-> c.bytes_left]
      BY <1>3
    <3> HIDE DEF d, e
    <3>3. QED
      BY <3>1, <3>2
  <2> HIDE DEF d
  <2>2. QED
    BY <2>1
<1> HIDE DEF d
<1>5. d.size \in Nat /\ d.bytes_used \in Nat /\ d.bytes_left \in Nat
  BY <1>1, <1>4
<1>6. d \in [size : Nat, bytes_used : Nat, bytes_left : Nat]
  BY <1>4, <1>5
<1>7. d.bytes_used % ALIGN = 0 /\ d.size = HDR + d.bytes_used + d.bytes_left
  BY <1>1, <1>2, <1>4, SizeFacts
<1>8. d \in ChunkType
  BY <1>1, <1>4, <1>6, <1>7 DEF ChunkType
<1>9. QED
  BY <1>4, <1>8 DEF d

LEMMA Carving ==
  ASSUME NEW m \in MgrType, NEW p \in Pools, NEW i \in 1..Len(m.small_list[p]),
         NEW need \in Nat, need % ALIGN = 0, need <= m.small_list[p][i].bytes_left,
         NEW o, o = Carve(m, p, i, need)
  PROVE  /\ o.m \in MgrType /\ Obtained(o.m) = Obtained(m)
         /\ o.m.total_space_allocated = m.total_space_allocated /\ Grows(m, o.m)
         /\ ObjectOK(o.m, o.at) /\ o.at.pool = p /\ o.at.chunk = i
         /\ o.at.first = m.small_list[p][i].bytes_used
<1> DEFINE s == m.small_list[p]
           c == s[i]
           d == Carved(c, need)
           t == [s EXCEPT ![i] = d]
           n == o.m
<1>1. s \in Chunks /\ c \in ChunkType /\ i \in Nat
  BY MgrFacts, ListFacts
<1>2. d \in ChunkType /\ d.size = c.size /\ d.bytes_used = c.bytes_used + need
  BY <1>1, CarvedChunk
<1>3. SmallChanged(m, p, t, n) /\ n.total_space_allocated = m.total_space_allocated
  BY DEF Carve, SmallChanged, MgrType, Carved
<1>4. o.at = [pool |-> p, chunk |-> i, first |-> c.bytes_used, size |-> need]
  BY DEF Carve
<1> HIDE DEF d
<1>5. /\ t \in Chunks /\ Len(t) = Len(s) /\ t[i] = d
      /\ \A j \in 1..Len(s) : j # i => t[j] = s[j]
  BY <1>1, <1>2 DEF Chunks
<1> HIDE DEF t
<1>6. Malloced(t) = Malloced(s) /\ Malloced(s) \in Int
  <2>1. \A j \in 1..Len(s) : t[j].size = s[j].size
    BY <1>2, <1>5
  <2>2. QED
    BY <1>1, <1>5, <2>1, MallocedSame, MallocedIsInt
<1>7. n.total_space_allocated \in Int /\ Obtained(m) \in Int
  BY <1>3, MgrFacts
<1> HIDE DEF n
<1>8. /\ n \in MgrType /\ n.small_list[p] = t
      /\ \A q \in Pools \ {p} : n.small_list[q] = m.small_list[q]
      /\ Obtained(n) = Obtained(m) - Malloced(s) + Malloced(t)
  BY <1>3, <1>5, <1>7, SmallChange
<1>9. \A q \in Pools : \A j \in 1..Len(m.small_list[q]) : m.small_list[q][j].bytes_used \in Nat
  BY MgrFacts, ListFacts, ChunkFacts
<1>10. Grows(m, n)
  <2>1. \A j \in 1..Len(s) : s[j].bytes_used <= t[j].bytes_used
    BY <1>2, <1>5, <1>9
  <2>2. ASSUME NEW q \in Pools, NEW j \in 1..Len(m.small_list[q])
        PROVE  /\ j \in 1..Len(n.small_list[q])
               /\ m.small_list[q][j].bytes_used <= n.small_list[q][j].bytes_used
    <3>1. CASE q = p
      BY <1>5, <1>8, <2>1, <3>1
    <3>2. CASE q # p
      BY <1>8, <1>9, <3>2
    <3>3. QED
      BY <3>1, <3>2
  <2>3. QED
    BY <2>2 DEF Grows
<1>11. ObjectOK(n, o.at)
  <2>1. c.bytes_used \in Nat /\ c.bytes_used % ALIGN = 0
    BY <1>1, ChunkFacts
  <2>2. QED
    BY <1>1, <1>2, <1>4, <1>5, <1>8, <2>1 DEF ObjectOK, Objects
<1>12. QED
  BY <1>3, <1>4, <1>6, <1>7, <1>8, <1>10, <1>11 DEF n

(* A new chunk for an object and for those that come after it.             *)
LEMMA NewChunk ==
  ASSUME NEW m \in MgrType, NEW p \in Pools, NEW need \in Nat, NEW slop \in Nat,
         HDR + need + slop <= MAX_ALLOC_CHUNK, NEW n, n = NewPool(m, p, need, slop)
  PROVE  /\ n \in MgrType /\ Grows(m, n)
         /\ n.total_space_allocated = m.total_space_allocated + need + HDR + slop
         /\ Obtained(n) = Obtained(m) + need + HDR + slop
         /\ Len(n.small_list[p]) = Len(m.small_list[p]) + 1
         /\ n.small_list[p][Len(m.small_list[p]) + 1].bytes_left = need + slop
<1> DEFINE s == m.small_list[p]
           c == Chunk(need, slop)
           t == Append(s, c)
<1>1. s \in Chunks /\ Len(s) \in Nat
  BY MgrFacts, ListFacts
<1>2. c \in ChunkType /\ c.size = HDR + need + slop /\ c.bytes_left = need + slop
  <2>1. 0 % ALIGN = 0
    BY SizeFacts
  <2>2. QED
    BY <2>1, SizeFacts DEF Chunk, ChunkType
<1>3. /\ SmallChanged(m, p, t, n)
      /\ n.total_space_allocated = m.total_space_allocated + need + HDR + slop
  BY DEF NewPool, SmallChanged, MgrType
<1> HIDE DEF c
<1>4. /\ Len(t) = Len(s) + 1 /\ t[Len(s) + 1] = c /\ \A j \in 1..Len(s) : t[j] = s[j]
  BY <1>1, <1>2 DEF Chunks
<1>5. t \in Chunks /\ Malloced(t) = Malloced(s) + c.size /\ Malloced(s) \in Int
  BY <1>1, <1>2, MallocedAppend, MallocedIsInt
<1> HIDE DEF t
<1>6. n.total_space_allocated \in Int /\ Obtained(m) \in Int
  BY <1>3, MgrFacts, SizeFacts
<1>7. /\ n \in MgrType /\ n.small_list[p] = t
      /\ \A q \in Pools \ {p} : n.small_list[q] = m.small_list[q]
      /\ Obtained(n) = Obtained(m) - Malloced(s) + Malloced(t)
  BY <1>3, <1>5, <1>6, SmallChange
<1>8. Grows(m, n)
  <2>1. \A q \in Pools : \A j \in 1..Len(m.small_list[q]) : m.small_list[q][j].bytes_used \in Nat
    BY MgrFacts, ListFacts, ChunkFacts
  <2>2. \A j \in 1..Len(s) : j \in 1..Len(t)
    BY <1>1, <1>4
  <2>3. ASSUME NEW q \in Pools, NEW j \in 1..Len(m.small_list[q])
        PROVE  /\ j \in 1..Len(n.small_list[q])
               /\ m.small_list[q][j].bytes_used <= n.small_list[q][j].bytes_used
    <3>1. CASE q = p
      BY <1>4, <1>7, <2>1, <2>2, <3>1, SMTT(40)
    <3>2. CASE q # p
      BY <1>7, <2>1, <3>2
    <3>3. QED
      BY <3>1, <3>2
  <2>4. QED
    BY <2>3 DEF Grows
<1>9. /\ Len(n.small_list[p]) = Len(s) + 1
      /\ n.small_list[p][Len(s) + 1].bytes_left = need + slop
  BY <1>2, <1>4, <1>7
<1>10. Obtained(n) = Obtained(m) + need + HDR + slop
  BY <1>2, <1>5, <1>6, <1>7, SizeFacts
<1>11. QED
  BY <1>3, <1>7, <1>8, <1>9, <1>10

(* A small object, wherever it is put, is apart from what was there.       *)
LEMMA SmallObject ==
  ASSUME NEW m \in Managers, NEW p \in Pools, NEW size \in Nat, NEW o \in alloc_small(m, p, size)
  PROVE  o.m \in Managers /\ Grows(m, o.m) /\ ObjectOK(o.m, o.at) /\ Fresh(m, o.at)
<1> DEFINE need == RoundUp(size)
           s == m.small_list[p]
           roomy == {i \in DOMAIN s : s[i].bytes_left >= need}
           last == Len(s) + 1
<1>1. /\ m \in MgrType /\ m.total_space_allocated = Obtained(m) /\ s \in Chunks /\ Len(s) \in Nat
      /\ DOMAIN s = 1..Len(s)
  BY MgrFacts, ListFacts DEF Managers, Chunks
<1>2. ~ Unsatisfiable(size)
  BY DEF alloc_small
<1>3. need \in Nat /\ need % ALIGN = 0 /\ need <= MAX_ALLOC_CHUNK - HDR
  BY <1>2, RoundUpFits
<1>4. CASE roomy # {}
  <2> DEFINE i == CHOOSE i \in roomy : \A j \in roomy : i <= j
  <2>1. o = Carve(m, p, i, need)
    BY <1>2, <1>4 DEF alloc_small
  <2>2. \E k \in roomy : \A j \in roomy : k <= j
    <3>1. roomy \subseteq Nat
      BY <1>1
    <3> HIDE DEF roomy
    <3>2. QED
      BY <1>4, <3>1, Facts!LeastNumber
  <2>3. i \in roomy
    BY <2>2
  <2>4. i \in 1..Len(s) /\ need <= s[i].bytes_left
    <3>1. s[i].bytes_left \in Nat
      BY <1>1, <2>3, ListFacts, ChunkFacts
    <3>2. QED
      BY <1>1, <1>3, <2>3, <3>1
  <2> HIDE DEF i, need
  <2>5. /\ o.m \in MgrType /\ Obtained(o.m) = Obtained(m)
        /\ o.m.total_space_allocated = m.total_space_allocated /\ Grows(m, o.m)
        /\ ObjectOK(o.m, o.at) /\ o.at.pool = p /\ o.at.chunk = i
        /\ o.at.first = m.small_list[p][i].bytes_used
    BY <1>1, <1>3, <2>1, <2>4, Carving
  <2>6. Fresh(m, o.at)
    <3>1. s[i].bytes_used \in Nat
      BY <1>1, <2>4, ListFacts, ChunkFacts
    <3>2. QED
      BY <2>5, <3>1 DEF Fresh
  <2>7. QED
    BY <1>1, <2>5, <2>6 DEF Managers
<1>5. CASE roomy = {}
  <2> DEFINE top == FirstSlop(m, p, need)
  <2>1. PICK slop \in SlopsTried(top) : o = Carve(NewPool(m, p, need, slop), p, last, need)
    BY <1>2, <1>5 DEF alloc_small
  <2>2. top \in Nat /\ top <= MAX_ALLOC_CHUNK - (need + HDR)
    BY <1>3, SizeFacts DEF FirstSlop, Least
  <2>3. last = Len(s) + 1
    OBVIOUS
  <2> HIDE DEF need, top, last
  <2>4. slop \in Nat /\ HDR + need + slop <= MAX_ALLOC_CHUNK
    BY <1>3, <2>1, <2>2, SizeFacts, SlopsFit
  <2> DEFINE n == NewPool(m, p, need, slop)
  <2>5. n = NewPool(m, p, need, slop)
    OBVIOUS
  <2> HIDE DEF n
  <2>6. /\ n \in MgrType /\ Grows(m, n)
        /\ n.total_space_allocated = m.total_space_allocated + need + HDR + slop
        /\ Obtained(n) = Obtained(m) + need + HDR + slop
        /\ Len(n.small_list[p]) = last /\ n.small_list[p][last].bytes_left = need + slop
    <3>1. /\ n \in MgrType /\ Grows(m, n)
          /\ n.total_space_allocated = m.total_space_allocated + need + HDR + slop
          /\ Obtained(n) = Obtained(m) + need + HDR + slop
          /\ Len(n.small_list[p]) = Len(m.small_list[p]) + 1
          /\ n.small_list[p][Len(m.small_list[p]) + 1].bytes_left = need + slop
      BY <1>1, <1>3, <2>4, <2>5, NewChunk, SMTT(40)
    <3>2. QED
      BY <3>1, <2>3
  <2>7. last \in 1..Len(n.small_list[p]) /\ need <= n.small_list[p][last].bytes_left
    BY <1>1, <1>3, <2>4, <2>6, <2>3
  <2>8. o = Carve(n, p, last, need)
    BY <2>1, <2>5
  <2>9. /\ o.m \in MgrType /\ Obtained(o.m) = Obtained(n)
        /\ o.m.total_space_allocated = n.total_space_allocated /\ Grows(n, o.m)
        /\ ObjectOK(o.m, o.at) /\ o.at.pool = p /\ o.at.chunk = last
    BY <1>3, <2>6, <2>7, <2>8, Carving
  <2>10. Grows(m, o.m)
    BY <1>1, <2>6, <2>9, GrowsOn
  <2>11. Fresh(m, o.at)
    BY <1>1, <2>9, <2>3 DEF Fresh
  <2>12. QED
    BY <1>1, <2>6, <2>9, <2>10, <2>11 DEF Managers
<1>6. QED
  BY <1>4, <1>5

(* A large object has a chunk of its own.                                  *)
LEMMA LargeObject ==
  ASSUME NEW m \in Managers, NEW p \in Pools, NEW size \in Nat, NEW n \in alloc_large(m, p, size)
  PROVE  n \in Managers /\ Grows(m, n)
<1> DEFINE need == RoundUp(size)
           b == Chunk(need, 0)
           c == [b EXCEPT !.bytes_used = b.bytes_left, !.bytes_left = 0]
           s == m.large_list[p]
           t == <<c>> \o s
<1>1. m \in MgrType /\ m.total_space_allocated = Obtained(m) /\ s \in Chunks
  BY MgrFacts DEF Managers
<1>2. ~ Unsatisfiable(size)
  BY DEF alloc_large
<1>3. need \in Nat /\ need % ALIGN = 0 /\ need <= MAX_ALLOC_CHUNK - HDR
  BY <1>2, RoundUpFits
<1>4. n = [m EXCEPT !.large_list[p] = t, !.total_space_allocated = @ + b.size]
  BY <1>2 DEF alloc_large
<1>5. b.size = HDR + need + 0 /\ c = [size |-> HDR + need + 0, bytes_used |-> need + 0, bytes_left |-> 0]
  <2>1. b = [size |-> HDR + need + 0, bytes_used |-> 0, bytes_left |-> need + 0]
    BY DEF Chunk
  <2> HIDE DEF b
  <2> DEFINE e == [b EXCEPT !.bytes_used = b.bytes_left]
  <2>2. e = [size |-> HDR + need + 0, bytes_used |-> need + 0, bytes_left |-> need + 0]
    BY <2>1
  <2>3. c = [e EXCEPT !.bytes_left = 0]
    OBVIOUS
  <2> HIDE DEF e, c
  <2>4. QED
    BY <2>1, <2>2, <2>3
<1>6. /\ LargeChanged(m, p, t, n)
      /\ n.total_space_allocated = m.total_space_allocated + b.size
  BY <1>1, <1>4 DEF LargeChanged, MgrType
<1> HIDE DEF need, b, c
<1>7. c \in ChunkType /\ c.size = b.size /\ b.size \in Nat
  BY <1>3, <1>5, SizeFacts DEF ChunkType
<1>8. t \in Chunks /\ Malloced(t) = Malloced(s) + c.size /\ Malloced(s) \in Int
  BY <1>1, <1>7, MallocedPrepend, MallocedIsInt
<1> HIDE DEF t
<1>9. n.total_space_allocated \in Int /\ Obtained(m) \in Int
  BY <1>1, <1>6, <1>7, MgrFacts
<1>10. /\ n \in MgrType /\ n.small_list = m.small_list
       /\ Obtained(n) = Obtained(m) - Malloced(s) + Malloced(t)
  BY <1>1, <1>6, <1>8, <1>9, LargeChange
<1>11. n \in Managers
  BY <1>1, <1>6, <1>7, <1>8, <1>9, <1>10 DEF Managers
<1>12. Grows(m, n)
  <2>1. \A q \in Pools : \A j \in 1..Len(m.small_list[q]) : m.small_list[q][j].bytes_used \in Nat
    BY <1>1, MgrFacts, ListFacts, ChunkFacts
  <2>2. QED
    BY <1>10, <2>1 DEF Grows
<1>13. QED
  BY <1>11, <1>12

(* The requests for an array take no more rows than it has.                *)
LEMMA RowsRemain ==
  ASSUME NEW d \in Nat \ {0}, NEW n \in Nat, NEW c, c = (n + d - 1) \div d
  PROVE  c \in Nat /\ \A k \in 1..c : (k - 1) * d \in 0..n
<1> DEFINE x == n + d - 1
           r == x % d
<1>1. x \in Nat /\ c = x \div d
  OBVIOUS
<1>2. c \in Nat /\ r \in 0..d - 1 /\ x = d * c + r
  BY <1>1
<1> HIDE DEF r
<1>3. d * c <= n + d - 1
  BY <1>2
<1>4. ASSUME NEW k \in 1..c PROVE (k - 1) * d \in 0..n
  <2>1. d * (c - k) >= 0 /\ d * (k - 1) >= 0 /\ d * (c - k) \in Int /\ d * (k - 1) \in Int
    BY <1>2
  <2>2. d * (c - k) = d * c - d * (k - 1) - d
    BY <1>2
  <2>3. d * (k - 1) <= n
    BY <1>2, <1>3, <2>1, <2>2
  <2>4. QED
    BY <2>1, <2>3
<1>5. QED
  BY <1>2, <1>4

(* A manager that is left alone grows.                                     *)
LEMMA GrowsSelf == ASSUME NEW m \in MgrType PROVE Grows(m, m)
BY MgrFacts, ListFacts, ChunkFacts DEF Grows

(* Every manager that the allocation of an array may leave, complete or    *)
(* not, is a good one in which what was there before stays.                *)
LEMMA ArrayObjects ==
  ASSUME NEW m \in Managers, NEW p \in Pools, NEW rowsize \in Nat \ {0}, NEW numrows \in Nat,
         NEW n, n \in alloc_array(m, p, rowsize, numrows).done
                \/ n \in alloc_array(m, p, rowsize, numrows).partly
  PROVE  n \in Managers /\ Grows(m, n)
<1> DEFINE rpc == RowsPerChunk(rowsize, numrows)
           chunks == (numrows + rpc - 1) \div rpc
           Rows(k) == Least(rpc, numrows - (k - 1) * rpc)
           First == {o.m : o \in alloc_small(m, p, numrows)}
           More(k, X) == UNION {alloc_large(y, p, Rows(k) * rowsize) : y \in X}
           grown == CHOOSE g : g = [k \in 0..chunks |-> IF k = 0 THEN First ELSE More(k, g[k - 1])]
           Good == {y \in Managers : Grows(m, y)}
           Z == SUBSET Good
           h == [k \in 1..chunks |-> [X \in Z |-> More(k, X)]]
<1>1. rpc \in Nat
  <2>1. (MAX_ALLOC_CHUNK - HDR) \div rowsize \in Nat
    <3> DEFINE Most == MAX_ALLOC_CHUNK - HDR
    <3>1. Most \in Nat
      BY MaxPayload
    <3> HIDE DEF Most
    <3>2. Most \div rowsize \in Nat
      BY <3>1
    <3>3. QED
      BY <3>2 DEF Most
  <2>2. QED
    BY <2>1 DEF RowsPerChunk, Least
<1>2. m \in MgrType /\ m \in Good
  BY GrowsSelf DEF Managers
<1>3. CASE rpc = 0
  <2>1. alloc_array(m, p, rowsize, numrows) = [done |-> {}, partly |-> {m}]
    BY <1>3 DEF alloc_array
  <2>2. n = m
    BY <2>1
  <2>3. QED
    BY <1>2, <2>2
<1>4. CASE rpc # 0
  <2>1. alloc_array(m, p, rowsize, numrows) =
          [done |-> grown[chunks], partly |-> {m} \union UNION {grown[k] : k \in 0..chunks-1}]
    BY <1>4 DEF alloc_array
  <2>2. chunks \in Nat /\ \A k \in 1..chunks : (k - 1) * rpc \in 0..numrows
    BY <1>1, <1>4, RowsRemain
  <2>3. ASSUME NEW k \in 1..chunks PROVE Rows(k) * rowsize \in Nat
    <3> DEFINE a == (k - 1) * rpc
    <3>1. a \in 0..numrows
      BY <2>2
    <3> HIDE DEF a, rpc
    <3>2. Least(rpc, numrows - a) \in Nat
      BY <1>1, <3>1 DEF Least
    <3>3. Rows(k) \in Nat
      BY <3>2 DEF a
    <3> HIDE DEF Rows
    <3>4. QED
      BY <3>3
  <2> HIDE DEF chunks, Rows, rpc
  <2>4. \A k \in 1..chunks, X \in Z : More(k, X) \in Z
    <3> SUFFICES ASSUME NEW k \in 1..chunks, NEW X \in Z, NEW y \in X,
                        NEW z \in alloc_large(y, p, Rows(k) * rowsize)
                 PROVE  z \in Good
      OBVIOUS
    <3> DEFINE size == Rows(k) * rowsize
    <3>1. size \in Nat
      BY <2>3
    <3> HIDE DEF size
    <3>2. z \in alloc_large(y, p, size)
      BY DEF size
    <3>3. y \in Managers /\ Grows(m, y)
      OBVIOUS
    <3>4. z \in Managers /\ Grows(y, z)
      BY <3>1, <3>2, <3>3, LargeObject
    <3>5. Grows(m, z)
      BY <1>2, <3>3, <3>4, GrowsOn DEF Managers
    <3>6. QED
      BY <3>4, <3>5
  <2>5. First \in Z
    <3> SUFFICES ASSUME NEW o \in alloc_small(m, p, numrows) PROVE o.m \in Good
      OBVIOUS
    <3>1. QED
      BY SmallObject
  <2>6. h \in Facts!Rules(Z, chunks)
    BY <2>4 DEF Facts!Rules
  <2>7. \A k \in 1..chunks, X \in Z : h[k][X] = More(k, X)
    OBVIOUS
  <2> HIDE DEF Z, h, First, More
  <2>8. PICK f : f \in [0..chunks -> Z] /\ Facts!Follows(f, chunks, First, h)
    BY <2>2, <2>5, <2>6, Facts!Recursion
  <2>9. f = [k \in 0..chunks |-> IF k = 0 THEN First ELSE More(k, f[k - 1])]
    <3>1. \A k \in 1..chunks : f[k - 1] \in Z
      BY <2>2, <2>8
    <3>2. \A k \in 1..chunks : f[k] = More(k, f[k - 1])
      BY <2>7, <2>8, <3>1 DEF Facts!Follows
    <3>3. f = [k \in 0..chunks |-> f[k]]
      BY <2>8
    <3>4. \A k \in 0..chunks : f[k] = IF k = 0 THEN First ELSE More(k, f[k - 1])
      BY <2>2, <2>8, <3>2 DEF Facts!Follows
    <3>5. QED
      BY <3>3, <3>4, Zenon
  <2>10. grown = [k \in 0..chunks |-> IF k = 0 THEN First ELSE More(k, grown[k - 1])]
    BY <2>9
  <2> HIDE DEF grown
  <2>11. grown[0] \in Z
    BY <2>2, <2>5, <2>10
  <2>12. ASSUME NEW k \in 1..chunks, grown[k - 1] \in Z PROVE grown[k] \in Z
    <3>1. grown[k] = More(k, grown[k - 1])
      BY <2>2, <2>10
    <3>2. QED
      BY <2>4, <2>12, <3>1
  <2>13. \A k \in 0..chunks : grown[k] \in Z
    BY <2>2, <2>11, <2>12, Facts!Ascent
  <2>14. \A k \in 0..chunks : grown[k] \subseteq Good
    BY <2>13 DEF Z
  <2>15. n \in Good
    <3>1. n \in grown[chunks] \/ n \in {m} \union UNION {grown[k] : k \in 0..chunks-1}
      BY <2>1
    <3>2. grown[chunks] \subseteq Good
      BY <2>2, <2>14
    <3>3. \A k \in 0..chunks-1 : grown[k] \subseteq Good
      BY <2>2, <2>14
    <3> HIDE DEF Good
    <3>4. QED
      BY <1>2, <3>1, <3>2, <3>3
  <2>16. QED
    BY <2>15
<1>5. QED
  BY <1>3, <1>4

-----------------------------------------------------------------------------
(* The bound of the rows.                                                  *)
LEMMA MaxRowsIsNat == MaxRows \in Nat \ {0}
BY ValuesAssumption

(* The rows of an array that are held in memory are no more than it has.   *)
LEMMA HeightFits ==
  ASSUME NEW q \in BlockType, NEW h \in 1..MaxRows
  PROVE  realized(q, h, 1).rows_in_mem \in 0..MaxRows
<1> DEFINE rows == q.rows_in_array
           acc == q.maxaccess
<1>1. rows \in 0..MaxRows /\ acc \in 1..MaxRows /\ DOMAIN q = DOMAIN NoArray
  BY DEF BlockType, NoArray
<1>2. realized(q, h, 1).rows_in_mem = IF InMemory(q, h) THEN rows ELSE h * acc
  BY <1>1 DEF realized, BlockType
<1>3. CASE ~ InMemory(q, h)
  <2> DEFINE d == (rows - 1) \div acc
             r == (rows - 1) % acc
  <2>1. ~ (d + 1 <= h)
    BY <1>3 DEF InMemory
  <2> HIDE DEF rows, acc
  <2>2. d \in Int /\ r \in 0..acc - 1 /\ rows - 1 = acc * d + r
    BY <1>1, MaxRowsIsNat
  <2> HIDE DEF d, r
  <2>3. acc * (d - h) >= 0 /\ acc * (d - h) = acc * d - acc * h /\ acc * h \in Nat /\ acc * h = h * acc
        /\ acc * d \in Int
    BY <1>1, <2>1, <2>2
  <2>4. h * acc \in 0..MaxRows
    BY <1>1, <2>2, <2>3, MaxRowsIsNat
  <2>5. QED
    BY <1>2, <1>3, <2>4
<1>4. QED
  BY <1>1, <1>2, <1>3

(* No row is empty.                                                        *)
LEMMA RowSizes == ASSUME NEW a \in Arrays PROVE RowSize(a) \in Nat \ {0}
<1>1. Width[a] \in Nat \ {0} /\ Element[a] \in Nat \ {0}
  BY ArraysAssumption
<1>2. QED
  BY <1>1 DEF RowSize

(* realize_virt_arrays goes through arrays.                                *)
LEMMA ListsOfArrays ==
  ASSUME mem \in MgrType
  PROVE  Len(VirtLists) \in Nat /\ \A i \in 1..Len(VirtLists) : VirtLists[i] \in Arrays
<1>1. mem.virt_sarray_list \in Seq(Arrays) /\ mem.virt_barray_list \in Seq(Arrays)
  BY DEF MgrType
<1>2. VirtLists \in Seq(Arrays)
  BY <1>1 DEF VirtLists
<1>3. QED
  BY <1>2

(* The most space the arrays may need is at most MaxRows times the least,  *)
(* so the number of minimal heights is well defined and at most MaxRows.   *)
LEMMA MinheightsFit ==
  ASSUME mem \in MgrType, va \in [Arrays -> BlockType], NEW avail \in jpeg_mem_available
  PROVE  max_minheights(avail) \in 1..MaxRows
<1> DEFINE n == Len(VirtLists)
           S(rows) == [i \in 1..n |-> IF VirtLists[i] \in Unrealized
                                      THEN rows[VirtLists[i]] * RowSize(VirtLists[i]) ELSE 0]
           least == [a \in Arrays |-> va[a].maxaccess]
           most == [a \in Arrays |-> va[a].rows_in_array]
<1>1. n \in Nat /\ \A i \in 1..n : VirtLists[i] \in Arrays
  BY ListsOfArrays
<1>2. \A a \in Arrays : least[a] \in 1..MaxRows /\ most[a] \in 0..MaxRows
  BY DEF BlockType
<1>3. space_per_minheight = Total(n, S(least)) /\ maximum_space = Total(n, S(most))
  BY DEF space_per_minheight, maximum_space, UnrealizedSpace
<1> HIDE DEF least, most, n
<1>4. \A a \in Arrays : /\ least[a] * RowSize(a) \in Nat /\ most[a] * RowSize(a) \in Nat
                        /\ most[a] * RowSize(a) <= MaxRows * (least[a] * RowSize(a))
  <2>1. ASSUME NEW x \in 0..MaxRows, NEW y \in 1..MaxRows, NEW r \in Nat \ {0}
        PROVE  /\ x * r \in Nat /\ y * r \in Nat /\ x * r <= MaxRows * (y * r)
    <3>1. x * r \in Nat /\ y * r \in Nat /\ MaxRows * r \in Nat
      BY MaxRowsIsNat
    <3>2. (MaxRows - x) * r >= 0 /\ (MaxRows - x) * r = MaxRows * r - x * r
      BY MaxRowsIsNat
    <3>3. (y - 1) * r >= 0 /\ (y - 1) * r = y * r - r
      OBVIOUS
    <3> DEFINE z == y * r
    <3>4. z \in Nat /\ r <= z
      BY <3>1, <3>3
    <3> HIDE DEF z
    <3>5. MaxRows * (z - r) >= 0 /\ MaxRows * (z - r) = MaxRows * z - MaxRows * r /\ MaxRows * z \in Nat
      BY <3>4, MaxRowsIsNat
    <3>6. QED
      BY <3>1, <3>2, <3>5 DEF z
  <2>2. QED
    BY <1>2, <2>1, RowSizes
<1>5. S(least) \in [1..n -> Nat] /\ S(most) \in [1..n -> Nat]
  BY <1>1, <1>4
<1>6. \A i \in 1..n : S(most)[i] <= MaxRows * S(least)[i]
  <2>1. \A i \in 1..n :
           \/ S(most)[i] = 0 /\ S(least)[i] = 0
           \/ \E a \in Arrays : /\ S(most)[i] = most[a] * RowSize(a)
                               /\ S(least)[i] = least[a] * RowSize(a)
    BY <1>1
  <2>2. 0 <= MaxRows * 0
    BY MaxRowsIsNat
  <2>3. QED
    BY <1>4, <2>1, <2>2
<1> DEFINE s == S(most)
           t == S(least)
<1>7. s \in [1..n -> Nat] /\ t \in [1..n -> Nat] /\ \A i \in 1..n : s[i] <= MaxRows * t[i]
  BY <1>5, <1>6
<1> HIDE DEF s, t
<1>8. Total(n, s) \in Nat /\ Total(n, t) \in Nat /\ Total(n, s) <= MaxRows * Total(n, t)
  BY <1>1, <1>7, MaxRowsIsNat, TotalAtMost
<1> DEFINE x == space_per_minheight
           y == maximum_space
<1>9. x \in Nat /\ y \in Nat /\ y <= MaxRows * x
  BY <1>3, <1>8 DEF s, t
<1>10. avail \in 0..y
  BY DEF jpeg_mem_available
<1>11. max_minheights(avail) = IF avail >= y THEN MaxRows ELSE Largest(avail \div x, 1)
  BY DEF max_minheights
<1> HIDE DEF x, y
<1>12. CASE avail >= y
  BY <1>11, <1>12, MaxRowsIsNat
<1>13. CASE ~ (avail >= y)
  <2>1. avail < MaxRows * x /\ avail \in Nat /\ MaxRows * x \in Int
    <3>1. MaxRows * x \in Int
      BY <1>9, MaxRowsIsNat
    <3>2. QED
      BY <1>9, <1>10, <1>13, <3>1
  <2>2. x # 0
    BY <2>1, MaxRowsIsNat
  <2> DEFINE q == avail \div x
             r == avail % x
  <2>3. q \in Int /\ r \in 0..x - 1 /\ avail = x * q + r
    BY <1>9, <2>1, <2>2
  <2> HIDE DEF q, r
  <2>4. q <= MaxRows
    <3>1. CASE q > MaxRows
      <4>1. x * (q - MaxRows) >= 0 /\ x * (q - MaxRows) = x * q - MaxRows * x /\ x * q \in Int
            /\ MaxRows * x \in Int
        BY <1>9, <2>3, <3>1, MaxRowsIsNat
      <4>2. QED
        BY <1>9, <2>1, <2>3, <4>1
    <3>2. QED
      BY <2>3, <3>1, MaxRowsIsNat
  <2>5. max_minheights(avail) = Largest(q, 1)
    BY <1>11, <1>13 DEF q
  <2>6. QED
    BY <2>3, <2>4, <2>5, MaxRowsIsNat DEF Largest
<1>14. QED
  BY <1>12, <1>13

(* However far realize_virt_arrays got, the manager is a good one and the  *)
(* objects from before are where they were.                                *)
LEMMA BufferObjects ==
  ASSUME mem \in Managers, va \in [Arrays -> BlockType], NEW heights \in 1..MaxRows,
         NEW j \in 0..Len(VirtLists), NEW m \in Buffers(heights)[j]
  PROVE  m \in Managers /\ Grows(mem, m)
<1> DEFINE n == Len(VirtLists)
           HasBuffer(k) == VirtLists[k] \notin Unrealized
           More(k, X) == UNION {AllocBuffer(y, VirtLists[k], heights).done : y \in X}
           Further(k, X) == IF HasBuffer(k) THEN X ELSE More(k, X)
           built == CHOOSE b : b = [k \in 0..n |->
                      IF k = 0 THEN {mem} ELSE IF HasBuffer(k) THEN b[k - 1] ELSE More(k, b[k - 1])]
           Good == {y \in Managers : Grows(mem, y)}
           Z == SUBSET Good
           h == [k \in 1..n |-> [X \in Z |-> Further(k, X)]]
           start == {mem}
<1>1. mem \in MgrType /\ start \in Z
  BY GrowsSelf DEF Managers
<1>2. n \in Nat /\ \A k \in 1..n : VirtLists[k] \in Arrays
  BY <1>1, ListsOfArrays
<1>3. ASSUME NEW k \in 1..n, NEW X \in Z PROVE Further(k, X) \in Z
  <2>1. ASSUME NEW y \in X, NEW z \in AllocBuffer(y, VirtLists[k], heights).done PROVE z \in Good
    <3> DEFINE a == VirtLists[k]
               rowsize == RowSize(a)
               rows == HeightInMem(a, heights)
    <3>1. a \in Arrays
      BY <1>2
    <3>2. rowsize \in Nat \ {0}
      BY <3>1, RowSizes
    <3>3. rows \in Nat
      <4>1. va[a] \in BlockType
        BY <3>1
      <4>2. rows \in 0..MaxRows
        BY <4>1, HeightFits DEF HeightInMem
      <4>3. QED
        BY <4>2, MaxRowsIsNat
    <3>4. z \in alloc_array(y, "IMAGE", rowsize, rows).done
      BY DEF AllocBuffer
    <3> HIDE DEF a, rowsize, rows
    <3>5. y \in Managers /\ Grows(mem, y) /\ "IMAGE" \in Pools
      BY DEF Pools
    <3>6. z \in Managers /\ Grows(y, z)
      BY <3>2, <3>3, <3>4, <3>5, ArrayObjects
    <3>7. Grows(mem, z)
      BY <1>1, <3>5, <3>6, GrowsOn DEF Managers
    <3>8. QED
      BY <3>6, <3>7
  <2>2. More(k, X) \in Z
    BY <2>1
  <2>3. QED
    BY <2>2
<1>4. Buffers(heights) = built
  BY DEF Buffers
<1>5. \A k \in 1..n, X \in Z : h[k][X] = Further(k, X)
  OBVIOUS
<1>6. h \in Facts!Rules(Z, n)
  BY <1>3 DEF Facts!Rules
<1> HIDE DEF Z, h, start, n
<1>7. PICK f : f \in [0..n -> Z] /\ Facts!Follows(f, n, start, h)
  BY <1>1, <1>2, <1>6, Facts!Recursion
<1>8. f = [k \in 0..n |-> IF k = 0 THEN {mem} ELSE IF HasBuffer(k) THEN f[k - 1] ELSE More(k, f[k - 1])]
  <2>1. \A k \in 1..n : f[k - 1] \in Z
    BY <1>2, <1>7
  <2>2. \A k \in 1..n : f[k] = Further(k, f[k - 1])
    <3> HIDE DEF Further
    <3>1. QED
      BY <1>5, <1>7, <2>1 DEF Facts!Follows
  <2>3. f = [k \in 0..n |-> f[k]]
    BY <1>7
  <2> HIDE DEF More, HasBuffer
  <2>4. \A k \in 0..n : f[k] = IF k = 0 THEN {mem} ELSE IF HasBuffer(k) THEN f[k - 1] ELSE More(k, f[k - 1])
    BY <1>2, <1>7, <2>2 DEF Facts!Follows, start
  <2>5. QED
    BY <2>3, <2>4, Zenon
<1>9. built = [k \in 0..n |->
                IF k = 0 THEN {mem} ELSE IF HasBuffer(k) THEN built[k - 1] ELSE More(k, built[k - 1])]
  BY <1>8
<1> HIDE DEF built
<1>10. built[0] \in Z
  BY <1>1, <1>2, <1>9 DEF start
<1>11. ASSUME NEW k \in 1..n, built[k - 1] \in Z PROVE built[k] \in Z
  <2> HIDE DEF More, HasBuffer
  <2>1. k \in 0..n /\ k # 0
    BY <1>2
  <2>2. built[k] = IF k = 0 THEN {mem} ELSE IF HasBuffer(k) THEN built[k - 1] ELSE More(k, built[k - 1])
    BY <1>9, <2>1, Zenon
  <2>3. built[k] = Further(k, built[k - 1])
    BY <2>1, <2>2
  <2> HIDE DEF Further
  <2>4. QED
    BY <1>3, <1>11, <2>3
<1>12. \A k \in 0..n : built[k] \in Z
  BY <1>2, <1>10, <1>11, Facts!Ascent
<1>13. j \in 0..n /\ m \in built[j]
  BY <1>4 DEF n
<1>14. m \in Good
  BY <1>12, <1>13 DEF Z
<1>15. QED
  BY <1>14

-----------------------------------------------------------------------------
(* The objects that the manager has handed out are in its chunks, apart.   *)
ObjectsApart(o, q) ==
  (o # q /\ o.pool = q.pool /\ o.chunk = q.chunk) =>
     o.first + o.size <= q.first \/ q.first + q.size <= o.first

Intact(m, O) ==
  /\ m \in Managers
  /\ \A o \in O : ObjectOK(m, o)
  /\ \A o, q \in O : ObjectsApart(o, q)

(* Objects stay good while the manager grows, and a fresh one joins them.  *)
LEMMA IntactGrows ==
  ASSUME NEW m, NEW O, Intact(m, O), NEW n \in Managers, Grows(m, n)
  PROVE  Intact(n, O)
<1>1. m \in MgrType /\ n \in MgrType
  BY DEF Intact, Managers
<1>2. ASSUME NEW o \in O PROVE ObjectOK(n, o)
  <2>1. /\ o \in Objects /\ o.chunk \in 1..Len(m.small_list[o.pool]) /\ o.first % ALIGN = 0
        /\ o.first + o.size <= m.small_list[o.pool][o.chunk].bytes_used
    BY DEF Intact, ObjectOK
  <2>2. o.pool \in Pools /\ o.first \in Nat /\ o.size \in Nat
    BY <2>1 DEF Objects
  <2>3. /\ o.chunk \in 1..Len(n.small_list[o.pool])
        /\ m.small_list[o.pool][o.chunk].bytes_used <= n.small_list[o.pool][o.chunk].bytes_used
    BY <2>1, <2>2 DEF Grows
  <2>4. m.small_list[o.pool][o.chunk].bytes_used \in Nat /\ n.small_list[o.pool][o.chunk].bytes_used \in Nat
    <3>1. m.small_list[o.pool] \in Chunks /\ n.small_list[o.pool] \in Chunks
      BY <1>1, <2>2, MgrFacts
    <3>2. m.small_list[o.pool][o.chunk] \in ChunkType /\ n.small_list[o.pool][o.chunk] \in ChunkType
      BY <2>1, <2>3, <3>1, ListFacts
    <3>3. QED
      BY <3>2, ChunkFacts
  <2>5. o.first + o.size <= n.small_list[o.pool][o.chunk].bytes_used
    BY <2>1, <2>2, <2>3, <2>4, SMTT(40)
  <2>6. QED
    BY <2>1, <2>3, <2>5 DEF ObjectOK
<1>3. QED
  BY <1>2 DEF Intact

LEMMA IntactNew ==
  ASSUME NEW m, NEW O, Intact(m, O), NEW n \in Managers, Grows(m, n),
         NEW o, ObjectOK(n, o), Fresh(m, o)
  PROVE  Intact(n, O \union {o})
<1>1. Intact(n, O)
  BY IntactGrows
<1>2. ASSUME NEW q \in O PROVE ObjectsApart(o, q) /\ ObjectsApart(q, o)
  <2>1. /\ o \in Objects /\ q \in Objects /\ q.chunk \in 1..Len(m.small_list[q.pool])
        /\ q.first + q.size <= m.small_list[q.pool][q.chunk].bytes_used
    BY DEF Intact, ObjectOK
  <2>2. q.pool \in Pools /\ q.first \in Nat /\ q.size \in Nat /\ o.first \in Nat /\ o.size \in Nat
    BY <2>1 DEF Objects
  <2>3. m \in MgrType
    BY DEF Intact, Managers
  <2>4. m.small_list[q.pool][q.chunk].bytes_used \in Nat
    BY <2>1, <2>2, <2>3, MgrFacts, ListFacts, ChunkFacts
  <2>5. (o.pool = q.pool /\ o.chunk = q.chunk) => q.first + q.size <= o.first
    BY <2>1, <2>2, <2>4 DEF Fresh
  <2>6. QED
    BY <2>5 DEF ObjectsApart
<1>3. ObjectsApart(o, o)
  BY DEF ObjectsApart
<1>4. QED
  BY <1>1, <1>2, <1>3 DEF Intact

(* The lists of virtual arrays have no part in the account.                *)
LEMMA IntactListed ==
  ASSUME NEW m, NEW O, Intact(m, O), NEW a \in Arrays, NEW n,
         \/ n = [m EXCEPT !.virt_sarray_list = <<a>> \o @]
         \/ n = [m EXCEPT !.virt_barray_list = <<a>> \o @]
  PROVE  Intact(n, O)
<1>1. m \in MgrType /\ m.total_space_allocated = Obtained(m)
  BY DEF Intact, Managers
<1>2. /\ n.small_list = m.small_list /\ n.large_list = m.large_list
      /\ n.total_space_allocated = m.total_space_allocated
  BY <1>1 DEF MgrType
<1>3. m.virt_sarray_list \in Seq(Arrays) /\ m.virt_barray_list \in Seq(Arrays)
  BY <1>1 DEF MgrType
<1>4. <<a>> \o m.virt_sarray_list \in Seq(Arrays) /\ <<a>> \o m.virt_barray_list \in Seq(Arrays)
  BY <1>3
<1>5. n \in MgrType
  BY <1>1, <1>4 DEF MgrType
<1>6. Obtained(n) = Obtained(m)
  BY <1>2 DEF Obtained, PoolSize
<1>7. QED
  BY <1>1, <1>2, <1>5, <1>6 DEF Intact, Managers, ObjectOK

(* free_pool takes from the account what the pool had obtained.            *)
LEMMA IntactFreed ==
  ASSUME NEW m, NEW O, Intact(m, O)
  PROVE  Intact(free_pool(m, "IMAGE"), {o \in O : o.pool # "IMAGE"})
<1> DEFINE n == free_pool(m, "IMAGE")
<1>1. /\ m \in MgrType /\ m.total_space_allocated = Obtained(m)
      /\ "IMAGE" \in Pools /\ "PERMANENT" \in Pools
  BY DEF Intact, Managers, Pools
<1>2. /\ n = [small_list |-> n.small_list, large_list |-> n.large_list,
              virt_sarray_list |-> <<>>, virt_barray_list |-> <<>>,
              total_space_allocated |-> n.total_space_allocated]
      /\ n.small_list = [m.small_list EXCEPT !["IMAGE"] = <<>>]
      /\ n.large_list = [m.large_list EXCEPT !["IMAGE"] = <<>>]
      /\ n.total_space_allocated =
           m.total_space_allocated - Freed(m.large_list["IMAGE"]) - Freed(m.small_list["IMAGE"])
  BY DEF free_pool
<1> HIDE DEF n
<1>3. m.small_list \in [Pools -> Chunks] /\ m.large_list \in [Pools -> Chunks]
  BY <1>1 DEF MgrType
<1>4. /\ n.small_list \in [Pools -> Chunks] /\ n.large_list \in [Pools -> Chunks]
      /\ n.small_list["IMAGE"] = <<>> /\ n.large_list["IMAGE"] = <<>>
      /\ n.small_list["PERMANENT"] = m.small_list["PERMANENT"]
      /\ n.large_list["PERMANENT"] = m.large_list["PERMANENT"]
  BY <1>1, <1>2, <1>3, MallocedEmpty
<1>5. /\ Freed(m.large_list["IMAGE"]) = Malloced(m.large_list["IMAGE"])
      /\ Freed(m.small_list["IMAGE"]) = Malloced(m.small_list["IMAGE"])
      /\ Malloced(m.large_list["IMAGE"]) \in Int /\ Malloced(m.small_list["IMAGE"]) \in Int
  BY <1>1, <1>3, FreedIsMalloced, MallocedIsInt
<1>6. PoolSize(n, "IMAGE") = 0 /\ PoolSize(n, "PERMANENT") = PoolSize(m, "PERMANENT")
  BY <1>4, MallocedEmpty DEF PoolSize
<1>7. /\ PoolSize(m, "IMAGE") = Malloced(m.small_list["IMAGE"]) + Malloced(m.large_list["IMAGE"])
      /\ PoolSize(m, "PERMANENT") \in Int /\ PoolSize(m, "IMAGE") \in Int
  BY <1>1, MgrFacts DEF PoolSize
<1>8. n.total_space_allocated = Obtained(n) /\ n.total_space_allocated \in Int
  <2>1. Obtained(n) = MgrSize + PoolSize(m, "PERMANENT") + 0
    BY <1>6 DEF Obtained
  <2>2. n.total_space_allocated =
          Obtained(m) - Malloced(m.large_list["IMAGE"]) - Malloced(m.small_list["IMAGE"])
    BY <1>1, <1>2, <1>5
  <2>3. Obtained(m) = MgrSize + PoolSize(m, "PERMANENT") + PoolSize(m, "IMAGE")
    BY DEF Obtained
  <2>4. QED
    BY <1>5, <1>7, <2>1, <2>2, <2>3, SizeFacts
<1>9. n \in MgrType
  <2>1. <<>> \in Seq(Arrays)
    OBVIOUS
  <2>2. n.virt_sarray_list = <<>> /\ n.virt_barray_list = <<>>
    BY <1>2
  <2>3. QED
    BY <1>2, <1>4, <1>8, <2>1, <2>2, Zenon DEF MgrType
<1>10. ASSUME NEW o \in O, o.pool # "IMAGE" PROVE ObjectOK(n, o)
  <2>1. /\ o \in Objects /\ o.chunk \in 1..Len(m.small_list[o.pool]) /\ o.first % ALIGN = 0
        /\ o.first + o.size <= m.small_list[o.pool][o.chunk].bytes_used
    BY DEF Intact, ObjectOK
  <2>2. o.pool = "PERMANENT"
    BY <1>10, <2>1 DEF Objects, Pools
  <2>3. n.small_list[o.pool] = m.small_list[o.pool]
    BY <1>4, <2>2
  <2>4. QED
    BY <2>1, <2>3 DEF ObjectOK
<1>11. QED
  BY <1>8, <1>9, <1>10 DEF Intact, Managers, n

-----------------------------------------------------------------------------
(***************************************************************************)
(* The invariant: the virtual arrays satisfy theirs, and the manager is    *)
(* intact or gone.  The account of a manager that is gone is free.         *)
(***************************************************************************)
MInv == /\ IInv
        /\ \/ Intact(mem, objects)
           \/ mem = NULL /\ objects = {}

(* A manager is told apart from one that is gone.                          *)
LEMMA ManagersExist == ASSUME NEW m \in Managers PROVE m # NULL
<1>1. "small_list" \in DOMAIN m
  BY DEF Managers, MgrType
<1>2. "small_list" \notin DOMAIN NULL
  BY DEF NULL
<1>3. QED
  BY <1>1, <1>2

(* The manager that jinit_memory_mgr makes.                                *)
LEMMA MemoryInit == jinit_memory_mgr => MInv
<1> SUFFICES ASSUME jinit_memory_mgr PROVE MInv
  OBVIOUS
<1>1. IInv
  BY NoArrayOK DEF jinit_memory_mgr, AInit, IInv
<1>2. mem = EmptyMgr /\ objects = {}
  BY DEF jinit_memory_mgr
<1>3. EmptyMgr \in MgrType
  <2>1. <<>> \in Seq(Arrays)
    OBVIOUS
  <2>2. [p \in Pools |-> <<>>] \in [Pools -> Chunks]
    BY MallocedEmpty
  <2>3. QED
    BY <2>1, <2>2, SizeFacts DEF EmptyMgr, MgrType
<1>4. \A p \in Pools : EmptyMgr.small_list[p] = <<>> /\ EmptyMgr.large_list[p] = <<>>
  BY DEF EmptyMgr
<1>5. \A p \in Pools : PoolSize(EmptyMgr, p) = 0
  BY <1>4, MallocedEmpty DEF PoolSize
<1>6. Obtained(EmptyMgr) = MgrSize /\ EmptyMgr.total_space_allocated = MgrSize
  <2>1. EmptyMgr.total_space_allocated = MgrSize
    BY DEF EmptyMgr
  <2>2. Obtained(EmptyMgr) = MgrSize + 0 + 0
    BY <1>5 DEF Obtained, Pools
  <2>3. QED
    BY <2>1, <2>2, SizeFacts
<1>7. Intact(mem, objects)
  BY <1>2, <1>3, <1>6 DEF Intact, Managers
<1>8. QED
  BY <1>1, <1>7 DEF MInv

(* An exit leaves the arrays as they are.                                  *)
LEMMA ExitKeeps ==
  ASSUME MInv, NEW m \in Managers, Intact(m, objects), Exit(m, "OUT_OF_MEMORY")
  PROVE  MInv' /\ UNCHANGED va
<1>1. mem' = m /\ error' = "OUT_OF_MEMORY" /\ va' = va /\ objects' = objects
  BY DEF Exit
<1>2. IInv'
  BY <1>1 DEF MInv, IInv
<1>3. QED
  BY <1>1, <1>2 DEF MInv

(* The steps of the manager, one by one: each keeps the invariant, and is  *)
(* a step of the arrays or leaves them as they are.                        *)
LEMMA AllocSmallKeeps ==
  ASSUME MInv, NEW p \in Pools, NEW size \in Sizes, AllocSmall(p, size)
  PROVE  MInv' /\ UNCHANGED va
<1>1. Intact(mem, objects) /\ mem \in Managers /\ size \in Nat
  BY SizeFacts DEF MInv, AllocSmall, Running, Intact
<1>2. CASE \E o \in alloc_small(mem, p, size) :
             mem' = o.m /\ objects' = objects \union {o.at} /\ UNCHANGED avars
  <2>1. PICK o \in alloc_small(mem, p, size) :
               mem' = o.m /\ objects' = objects \union {o.at} /\ UNCHANGED avars
    BY <1>2
  <2>2. o.m \in Managers /\ Grows(mem, o.m) /\ ObjectOK(o.m, o.at) /\ Fresh(mem, o.at)
    BY <1>1, SmallObject
  <2>3. Intact(o.m, objects \union {o.at})
    BY <1>1, <2>2, IntactNew
  <2>4. IInv'
    BY <2>1 DEF MInv, IInv, avars
  <2>5. QED
    BY <2>1, <2>3, <2>4 DEF MInv, avars
<1>3. CASE Exit(mem, "OUT_OF_MEMORY")
  BY <1>1, <1>3, ExitKeeps
<1>4. QED
  BY <1>2, <1>3 DEF AllocSmall

LEMMA AllocLargeKeeps ==
  ASSUME MInv, NEW p \in Pools, NEW size \in Sizes, AllocLarge(p, size)
  PROVE  MInv' /\ UNCHANGED va
<1>1. Intact(mem, objects) /\ mem \in Managers /\ size \in Nat
  BY SizeFacts DEF MInv, AllocLarge, Running, Intact
<1>2. CASE mem' \in alloc_large(mem, p, size) /\ UNCHANGED <<avars, objects>>
  <2>1. PICK n : n \in alloc_large(mem, p, size) /\ mem' = n
    BY <1>2
  <2>2. n \in Managers /\ Grows(mem, n)
    BY <1>1, <2>1, LargeObject
  <2>3. Intact(n, objects)
    BY <1>1, <2>2, IntactGrows
  <2>4. IInv'
    BY <1>2 DEF MInv, IInv, avars
  <2>5. QED
    BY <1>2, <2>1, <2>3, <2>4 DEF MInv, avars
<1>3. CASE Exit(mem, "OUT_OF_MEMORY")
  BY <1>1, <1>3, ExitKeeps
<1>4. QED
  BY <1>2, <1>3 DEF AllocLarge

LEMMA RequestVirtKeeps ==
  ASSUME MInv, NEW a \in Arrays, RequestVirt(a)
  PROVE  MInv' /\ [ANext]_avars
<1>1. Intact(mem, objects) /\ mem \in Managers /\ Request(a) /\ "IMAGE" \in Pools
  BY DEF MInv, RequestVirt, Running, Intact, Pools
<1>2. ANext /\ IInv' 
  BY <1>1, StepImplements DEF ANext, MInv
<1>3. PICK o \in alloc_small(mem, "IMAGE", ControlSize) :
        /\ mem' = IF a \in SArrays THEN [o.m EXCEPT !.virt_sarray_list = <<a>> \o @]
                                   ELSE [o.m EXCEPT !.virt_barray_list = <<a>> \o @]
        /\ objects' = objects \union {o.at}
  BY DEF RequestVirt
<1>4. o.m \in Managers /\ Grows(mem, o.m) /\ ObjectOK(o.m, o.at) /\ Fresh(mem, o.at)
  BY <1>1, SizeFacts, SmallObject
<1> DEFINE m == o.m
           O == objects \union {o.at}
<1>5. Intact(m, O)
  BY <1>1, <1>4, IntactNew
<1>6. PICK n : /\ n = mem'
               /\ \/ n = [m EXCEPT !.virt_sarray_list = <<a>> \o @]
                  \/ n = [m EXCEPT !.virt_barray_list = <<a>> \o @]
  BY <1>3
<1> HIDE DEF m, O
<1>7. Intact(n, O)
  BY <1>5, <1>6, IntactListed
<1>8. QED
  BY <1>2, <1>3, <1>6, <1>7 DEF MInv, O

LEMMA RealizeKeeps ==
  ASSUME MInv, RealizeVirtArrays
  PROVE  MInv' /\ ([ANext]_avars \/ UNCHANGED va)
<1>1. /\ Intact(mem, objects) /\ mem \in Managers /\ mem \in MgrType
      /\ va \in [Arrays -> BlockType] /\ error = "none"
  BY DEF MInv, IInv, RealizeVirtArrays, Running, Intact, Managers
<1>2. PICK avail_mem \in jpeg_mem_available :
        LET heights == max_minheights(avail_mem)
            n == Len(VirtLists)
        IN \/ /\ mem' \in Buffers(heights)[n]
              /\ Realize(heights, [a \in Arrays |->
                   Largest(RowsPerChunk(RowSize(a), HeightInMem(a, heights)), 1)])
              /\ UNCHANGED objects
           \/ \E k \in 1..n : \E m \in Buffers(heights)[k - 1] :
                /\ VirtLists[k] \in Unrealized
                /\ \E left \in AllocBuffer(m, VirtLists[k], heights).partly :
                     Exit(left, "OUT_OF_MEMORY")
  BY DEF RealizeVirtArrays
<1> DEFINE heights == max_minheights(avail_mem)
           n == Len(VirtLists)
           c == [a \in Arrays |-> Largest(RowsPerChunk(RowSize(a), HeightInMem(a, heights)), 1)]
<1>3. heights \in 1..MaxRows
  BY <1>1, MinheightsFit
<1>4. n \in Nat /\ \A i \in 1..n : VirtLists[i] \in Arrays
  BY <1>1, ListsOfArrays
<1> HIDE DEF heights
<1>5. \A a \in Arrays : HeightInMem(a, heights) \in 0..MaxRows
  BY <1>1, <1>3, HeightFits DEF HeightInMem
<1>6. c \in [Arrays -> 1..MaxRows]
  <2>1. ASSUME NEW x \in 0..MaxRows, NEW r \in Nat \ {0}
        PROVE  Largest(RowsPerChunk(r, x), 1) \in 1..MaxRows
    <3> DEFINE y == (MAX_ALLOC_CHUNK - HDR) \div r
    <3>1. y \in Int
      <4> DEFINE Most == MAX_ALLOC_CHUNK - HDR
      <4>1. Most \in Nat
        BY MaxPayload
      <4> HIDE DEF Most
      <4>2. Most \div r \in Int
        BY <4>1
      <4>3. QED
        BY <4>2 DEF Most
    <3> HIDE DEF y
    <3>2. Largest(Least(y, x), 1) \in 1..MaxRows
      BY <3>1, MaxRowsIsNat DEF Largest, Least
    <3>3. QED
      BY <3>2 DEF y, RowsPerChunk
  <2>2. QED
    BY <1>5, <2>1, RowSizes
<1>7. CASE mem' \in Buffers(heights)[n] /\ Realize(heights, c) /\ UNCHANGED objects
  <2>1. PICK m : m \in Buffers(heights)[n] /\ m = mem'
    BY <1>7
  <2>2. n \in 0..Len(VirtLists)
    BY <1>4
  <2>3. m \in Managers /\ Grows(mem, m)
    BY <1>1, <1>3, <2>1, <2>2, BufferObjects
  <2>4. Intact(m, objects)
    BY <1>1, <2>3, IntactGrows
  <2> HIDE DEF c
  <2>5. ANext
    BY <1>3, <1>6, <1>7 DEF ANext
  <2>6. IInv'
    BY <2>5, StepImplements DEF MInv
  <2>7. QED
    BY <1>7, <2>1, <2>4, <2>5, <2>6 DEF MInv
<1>8. ASSUME NEW k \in 1..n, NEW m \in Buffers(heights)[k - 1],
             NEW left \in AllocBuffer(m, VirtLists[k], heights).partly, Exit(left, "OUT_OF_MEMORY")
      PROVE  MInv' /\ UNCHANGED va
  <2> DEFINE j == k - 1
             a == VirtLists[k]
             rowsize == RowSize(a)
             rows == HeightInMem(a, heights)
  <2>1. j \in 0..Len(VirtLists) /\ m \in Buffers(heights)[j] /\ a \in Arrays
    BY <1>4
  <2>2. left \in alloc_array(m, "IMAGE", rowsize, rows).partly
    BY <1>8 DEF AllocBuffer
  <2>3. rowsize \in Nat \ {0} /\ rows \in Nat
    BY <1>5, <2>1, RowSizes, MaxRowsIsNat
  <2> HIDE DEF j, a, rowsize, rows
  <2>4. m \in Managers /\ Grows(mem, m)
    BY <1>1, <1>3, <2>1, BufferObjects
  <2>5. "IMAGE" \in Pools
    BY DEF Pools
  <2>6. left \in Managers /\ Grows(m, left)
    BY <2>2, <2>3, <2>4, <2>5, ArrayObjects
  <2>7. Intact(left, objects)
    BY <1>1, <2>4, <2>6, IntactGrows
  <2>8. QED
    BY <1>8, <2>6, <2>7, ExitKeeps
<1>9. QED
  BY <1>2, <1>7, <1>8 DEF heights

LEMMA FreePoolKeeps ==
  ASSUME MInv, FreePool
  PROVE  MInv' /\ [ANext]_avars
<1>1. Intact(mem, objects)
  BY DEF MInv, FreePool, Running
<1>2. ANext
  BY DEF FreePool, ANext
<1>3. IInv'
  BY <1>2, StepImplements DEF MInv
<1>4. Intact(free_pool(mem, "IMAGE"), {o \in objects : o.pool # "IMAGE"})
  BY <1>1, IntactFreed
<1>5. QED
  BY <1>2, <1>3, <1>4 DEF MInv, FreePool

LEMMA SelfDestructKeeps ==
  ASSUME MInv, self_destruct
  PROVE  MInv' /\ [ANext]_avars
<1>1. ANext
  BY DEF self_destruct, ANext
<1>2. IInv'
  BY <1>1, StepImplements DEF MInv
<1>3. QED
  BY <1>1, <1>2 DEF MInv, self_destruct

(* So every step of the manager.                                           *)
LEMMA MemoryStep ==
  ASSUME MInv, [MNext]_mvars
  PROVE  MInv' /\ ([ANext]_avars \/ UNCHANGED va)
<1>1. ASSUME NEW p \in Pools, NEW size \in Sizes, AllocSmall(p, size)
      PROVE  MInv' /\ UNCHANGED va
  BY <1>1, AllocSmallKeeps
<1>2. ASSUME NEW p \in Pools, NEW size \in Sizes, AllocLarge(p, size)
      PROVE  MInv' /\ UNCHANGED va
  BY <1>2, AllocLargeKeeps
<1>3. ASSUME NEW a \in Arrays, RequestVirt(a)
      PROVE  MInv' /\ [ANext]_avars
  BY <1>3, RequestVirtKeeps
<1>4. ASSUME NEW a \in Arrays, AccessVirt(a)
      PROVE  MInv' /\ [ANext]_avars
  <2>1. ANext /\ UNCHANGED <<mem, objects>>
    BY <1>4 DEF AccessVirt, ANext
  <2>2. IInv'
    BY <2>1, StepImplements DEF MInv
  <2>3. QED
    BY <2>1, <2>2 DEF MInv
<1>5. CASE RealizeVirtArrays
  BY <1>5, RealizeKeeps
<1>6. CASE FreePool
  BY <1>6, FreePoolKeeps
<1>7. CASE self_destruct
  BY <1>7, SelfDestructKeeps
<1>8. CASE UNCHANGED mvars
  BY <1>8 DEF MInv, IInv, mvars, avars
<1>9. QED
  BY <1>1, <1>2, <1>3, <1>4, <1>5, <1>6, <1>7, <1>8 DEF MNext

(* In every reachable state the manager is intact or gone, and the virtual *)
(* arrays satisfy their invariant: whatever is asked for, whatever malloc  *)
(* refuses and wherever an exit interrupts an allocation.                  *)
THEOREM MemoryInvariance == MSpec => []MInv
<1>1. MInv /\ [MNext]_mvars => MInv'
  BY MemoryStep
<1>2. QED
  BY <1>1, MemoryInit, PTL DEF MSpec

(* total_space_allocated is to the byte what the manager has from malloc   *)
(* (alloc_small, alloc_large, free_pool), after every allocation that      *)
(* succeeds, is interrupted or is undone.                                  *)
THEOREM ExactAccount == MSpec => []AccountIsExact
<1>1. MInv => AccountIsExact
  BY DEF MInv, Intact, Managers, AccountIsExact
<1>2. QED
  BY <1>1, MemoryInvariance, PTL

(* The small objects in use are aligned, apart and within their chunks,    *)
(* and no chunk is larger than MAX_ALLOC_CHUNK (alloc_small, alloc_large). *)
THEOREM ApartObjects == MSpec => []ObjectsAreApart
<1>1. MInv => ObjectsAreApart
  <2> SUFFICES ASSUME Intact(mem, objects) PROVE ObjectsAreApart
    BY DEF MInv, ObjectsAreApart
  <2>1. mem \in MgrType
    BY DEF Intact, Managers
  <2>2. ASSUME NEW o \in objects
        PROVE  o.first % ALIGN = 0 /\ HDR + o.first + o.size <= mem.small_list[o.pool][o.chunk].size
    <3> DEFINE k == mem.small_list[o.pool][o.chunk]
    <3>1. /\ o \in Objects /\ o.chunk \in 1..Len(mem.small_list[o.pool]) /\ o.first % ALIGN = 0
          /\ o.first + o.size <= k.bytes_used
      BY DEF Intact, ObjectOK
    <3>2. o.pool \in Pools /\ o.first \in Nat /\ o.size \in Nat
      BY <3>1 DEF Objects
    <3>3. k \in ChunkType
      BY <2>1, <3>1, <3>2, MgrFacts, ListFacts
    <3> HIDE DEF k
    <3>4. k.size = HDR + k.bytes_used + k.bytes_left /\ k.bytes_used \in Nat /\ k.bytes_left \in Nat
      BY <3>3, ChunkFacts
    <3>5. HDR + o.first + o.size <= k.size
      BY <3>1, <3>2, <3>4, SizeFacts, SMTT(40)
    <3>6. QED
      BY <3>1, <3>5 DEF k
  <2>3. \A o, q \in objects : (o # q /\ o.pool = q.pool /\ o.chunk = q.chunk) =>
          o.first + o.size <= q.first \/ q.first + q.size <= o.first
    BY DEF Intact, ObjectsApart
  <2>4. \A c \in ChunksOf(mem) : c.size <= MAX_ALLOC_CHUNK
    <3>1. ASSUME NEW s \in Chunks, NEW c \in Range(s) PROVE c.size <= MAX_ALLOC_CHUNK
      <4>1. PICK i \in DOMAIN s : c = s[i]
        BY DEF Range
      <4>2. DOMAIN s = 1..Len(s)
        BY DEF Chunks
      <4>3. QED
        BY <4>1, <4>2, ListFacts, ChunkFacts
    <3>2. QED
      BY <2>1, <3>1, MgrFacts DEF ChunksOf
  <2>5. QED
    BY <2>2, <2>3, <2>4 DEF ObjectsAreApart
<1>2. QED
  BY <1>1, MemoryInvariance, PTL

(* The JERR_VIRTUAL_BUG exit stays dead when the heights of the buffers    *)
(* come from realize_virt_arrays, whatever jpeg_mem_available grants.      *)
THEOREM NoBugWhenRealized == MSpec => []NoVirtualBug
<1>1. MInv => NoVirtualBug
  BY DEF MInv, IInv, NoVirtualBug
<1>2. QED
  BY <1>1, MemoryInvariance, PTL

(* So do the readers of the arrays get what the arrays hold.               *)
THEOREM ReadersRightWhenRealized == MSpec => []ReadersGetContents
<1>1. MInv => ReadersGetContents
  BY ReadersOfInvariant DEF MInv
<1>2. QED
  BY <1>1, MemoryInvariance, PTL

(* Through allocations, exits and pools that are freed, the virtual arrays *)
(* are arrays of rows that keep what is written to them.                   *)
THEOREM MemoryImplements == MSpec => ImplementsBlockArray
<1>1. jinit_memory_mgr => BA!Init
  BY NoArrayOK DEF jinit_memory_mgr, AInit, BA!Init, contents
<1>2. MInv /\ [MNext]_mvars => [BA!Next]_contents
  <2> SUFFICES ASSUME MInv, [MNext]_mvars PROVE [BA!Next]_contents
    OBVIOUS
  <2>1. CASE [ANext]_avars
    BY <2>1, StepImplements DEF MInv
  <2>2. CASE UNCHANGED va
    BY <2>2 DEF contents, Contents, InWindow
  <2>3. QED
    BY <2>1, <2>2, MemoryStep
<1>3. QED
  BY <1>1, <1>2, MemoryInvariance, PTL DEF MSpec, ImplementsBlockArray, BA!Spec

-----------------------------------------------------------------------------
(***************************************************************************)
(* The transcoding of a file.  The application makes its calls without a   *)
(* look at the state of the objects; the library exits with JERR_BAD_STATE *)
(* when one comes out of order.  The invariant says which state each       *)
(* object has come to before and during each call, until one has failed.   *)
(***************************************************************************)
(* The routines of the library between which pc moves within one call.     *)
InCall == pc \notin {"app", "exit"}

(* What the objects are expected to have come to when the application is   *)
(* about to make a call, or in the middle of the one before.               *)
DecoderAsExpected ==
  \/ app = "read_header" /\ pc = "app" /\ dec.state = "START"
  \/ app = "copy_parameters" /\ InCall /\ dec.state = "INHEADER" /\ ic.inheaders
  \/ app \in {"copy_parameters", "prepare_blocks"} /\ pc = "app" /\ dec.state = "READY"
     /\ ~ic.inheaders
  \/ app = "process" /\ InCall /\ dec.state = "RDCOEFS" /\ ~ic.inheaders
  \/ app \in {"process", "read_coefficients", "write_coefficients", "finish_compress",
              "finish_decompress"} /\ pc = "app" /\ dec.state = "STOPPING"
  \/ app = "done" /\ pc = "app" /\ dec.state = "START"

EncoderAsExpected == enc.state = IF app = "finish_compress" THEN "WRCOEFS" ELSE "START"

CallsInOrder ==
  \/ dec.err # "" /\ enc.err = "" /\ pc = "exit"
  \/ dec.err = "" /\ enc.err # "" /\ pc = "app"
  \/ dec.err = "" /\ enc.err = "" /\ DecoderAsExpected /\ EncoderAsExpected

Fields ==
  /\ {"state", "err"} \subseteq DOMAIN dec /\ {"state", "err"} \subseteq DOMAIN enc
  /\ {"inheaders", "eoi_reached", "multi"} \subseteq DOMAIN ic
  /\ {"ret"} \subseteq DOMAIN mk /\ mk.ret \in {"markers", "process", "restart", "resync"}

TranscodeInv == Fields /\ CallsInOrder /\ NeverBadState

(* No code of an error is the one for a call out of order, and none is     *)
(* the empty code of an object that has not failed.                        *)
LEMMA ErrorsHaveNames ==
  \A c \in {"INPUT_EMPTY", "NO_SOI", "BAD_MARKER", "NO_TABLE", "EOI_EXPECTED", "SOF_NO_SOS",
            "NO_IMAGE", "ARITH_NOTIMPL", "FILE_WRITE", "NO_QUANT_TABLE",
            "MISMATCHED_QUANT_TABLE", "BAD_DCT_COEF"} : c # "" /\ c # "BAD_STATE"
OBVIOUS

(* What a step of the library amounts to: it goes on, it fails, or the     *)
(* call under way returns.                                                 *)
GoesOn == InCall /\ InCall' /\ UNCHANGED <<ic, dec>>
Fails ==
  /\ InCall /\ pc' = "exit" /\ UNCHANGED ic
  /\ \E c \in {"INPUT_EMPTY", "NO_SOI", "BAD_MARKER", "NO_TABLE", "EOI_EXPECTED"} :
       dec' = [dec EXCEPT !.err = c]

(* A step of the marker reader over the markers of an image goes on or     *)
(* fails, and the routine to return to stays one of the four that ask for  *)
(* a marker (jdmarker.c).                                                  *)
LEMMA MarkerSteps ==
  ASSUME Fields,
         EmptyFile \/ ReadMarkers \/ NextMarkerByte \/ ProcessSOI \/ ProcessSOF
         \/ ProcessSOS \/ ProcessEOI
  PROVE  (GoesOn \/ Fails) /\ "ret" \in DOMAIN mk'
         /\ mk'.ret \in {"markers", "process", "restart", "resync"}
<1>1. CASE EmptyFile
  BY <1>1 DEF EmptyFile, Errexit, Fails, InCall, Fields
<1>2. CASE ReadMarkers
  <2>1. CASE mk.unread # 0
    BY <1>2, <2>1 DEF ReadMarkers, GoesOn, InCall, Fields
  <2>2. CASE mk.unread = 0 /\ mk.saw_SOI
    BY <1>2, <2>2 DEF ReadMarkers, GoesOn, InCall, Fields
  <2>3. CASE mk.unread = 0 /\ ~mk.saw_SOI
    BY <1>2, <2>3 DEF ReadMarkers, GoesOn, Fails, InCall, Fields
  <2>4. QED
    BY <2>1, <2>2, <2>3
<1>3. CASE NextMarkerByte
  <2>1. CASE ~mk.ff
    BY <1>3, <2>1 DEF NextMarkerByte, GoesOn, InCall, Fields
  <2>2. CASE mk.ff
    <3>1. PICK code \in AfterFF(Next1) :
            CASE code = 255 -> UNCHANGED <<mk, pc>>
              [] code = 0 -> mk' = [mk EXCEPT !.ff = FALSE, !.discarded = TRUE] /\ UNCHANGED pc
              [] OTHER -> /\ mk' = [mk EXCEPT !.ff = FALSE, !.unread = code, !.discarded = FALSE,
                                              !.warned = @ \/ mk.discarded]
                          /\ pc' = mk.ret
      BY <1>3, <2>2 DEF NextMarkerByte
    <3>2. pc = "next_marker" /\ UNCHANGED <<ic, dec>>
      BY <1>3 DEF NextMarkerByte
    <3>3. CASE code = 255
      BY <3>1, <3>2, <3>3 DEF GoesOn, InCall, Fields
    <3>4. CASE code = 0
      BY <3>1, <3>2, <3>4 DEF GoesOn, InCall, Fields
    <3>5. CASE code # 255 /\ code # 0
      <4>1. /\ mk' = [mk EXCEPT !.ff = FALSE, !.unread = code, !.discarded = FALSE,
                                !.warned = @ \/ mk.discarded]
            /\ pc' = mk.ret
        BY <3>1, <3>5, Zenon
      <4>2. QED
        BY <4>1, <3>2 DEF GoesOn, InCall, Fields
    <3>6. QED
      BY <3>3, <3>4, <3>5
  <2>3. QED
    BY <2>1, <2>2
<1>4. CASE ProcessSOI
  BY <1>4 DEF ProcessSOI, Processing, Processed, GoesOn, InCall, Fields
<1>5. CASE ProcessSOF
  BY <1>5 DEF ProcessSOF, Processing, Processed, GoesOn, InCall, Fields
<1>6. CASE ProcessSOS
  BY <1>6 DEF ProcessSOS, Processing, GoesOn, InCall, Fields
<1>7. CASE ProcessEOI
  BY <1>7 DEF ProcessEOI, Processing, GoesOn, InCall, Fields
<1>8. QED
  BY <1>1, <1>2, <1>3, <1>4, <1>5, <1>6, <1>7

(* So does a step over the segments of tables and those that are skipped. *)
LEMMA SegmentSteps ==
  ASSUME Fields,
         ProcessTable \/ ProcessSkipped \/ SkipInputData \/ ProcessParameterless \/ ProcessFails
  PROVE  (GoesOn \/ Fails) /\ "ret" \in DOMAIN mk'
         /\ mk'.ret \in {"markers", "process", "restart", "resync"}
<1>1. CASE ProcessTable
  BY <1>1 DEF ProcessTable, Processing, Processed, GoesOn, InCall, Fields
<1>2. CASE ProcessSkipped
  BY <1>2 DEF ProcessSkipped, Processing, GoesOn, InCall, Fields
<1>3. CASE SkipInputData
  BY <1>3 DEF SkipInputData, Processed, GoesOn, InCall, Fields
<1>4. CASE ProcessParameterless
  BY <1>4 DEF ProcessParameterless, Processing, Processed, GoesOn, InCall, Fields
<1>5. CASE ProcessFails
  BY <1>5 DEF ProcessFails, Errexit, Fails, InCall, Fields
<1>6. QED
  BY <1>1, <1>2, <1>3, <1>4, <1>5

(* Reading an MCU never fails: damage in the data is a warning (jdhuff.c,  *)
(* jpeg_resync_to_restart).                                                *)
LEMMA McuSteps ==
  ASSUME Fields,
         DecodeMcu \/ ReadRestartMarker \/ ResyncToRestart \/ DecodeBlock \/ FillBitBuffer
  PROVE  GoesOn /\ "ret" \in DOMAIN mk'
         /\ mk'.ret \in {"markers", "process", "restart", "resync"}
<1>1. CASE DecodeMcu
  BY <1>1 DEF DecodeMcu, GoesOn, InCall, Fields
<1>2. CASE ReadRestartMarker
  BY <1>2 DEF ReadRestartMarker, Restarted, GoesOn, InCall, Fields
<1>3. CASE ResyncToRestart
  <2> DEFINE action == ResyncAction(mk.unread, mk.next_restart)
  <2>1. action \in {1, 2, 3}
    BY DEF ResyncAction
  <2> HIDE DEF action
  <2>2. QED
    BY <1>3, <2>1 DEF ResyncToRestart, Restarted, GoesOn, InCall, Fields, action
<1>4. CASE DecodeBlock
  BY <1>4 DEF DecodeBlock, McuStored, GoesOn, InCall, Fields
<1>5. CASE FillBitBuffer
  BY <1>5 DEF FillBitBuffer, GoesOn, InCall, Fields
<1>6. QED
  BY <1>1, <1>2, <1>3, <1>4, <1>5

(* What makes of a decoder another one with the same state and an error.   *)
LEMMA LibraryStep ==
  ASSUME TranscodeInv, Library
  PROVE  TranscodeInv'
<1> USE DEF TranscodeInv
<1>0. ReaderStep /\ UNCHANGED <<enc, app>>
  BY DEF Library
<1>1. ASSUME GoesOn, "ret" \in DOMAIN mk', mk'.ret \in {"markers", "process", "restart", "resync"}
      PROVE  TranscodeInv'
  BY <1>0, <1>1 DEF GoesOn, InCall, Fields, CallsInOrder, DecoderAsExpected, EncoderAsExpected, NeverBadState
<1>2. ASSUME Fails, "ret" \in DOMAIN mk', mk'.ret \in {"markers", "process", "restart", "resync"}
      PROVE  TranscodeInv'
  <2>1. PICK c \in {"INPUT_EMPTY", "NO_SOI", "BAD_MARKER", "NO_TABLE", "EOI_EXPECTED"} :
          dec' = [dec EXCEPT !.err = c]
    BY <1>2 DEF Fails
  <2>2. dec'.err = c /\ {"state", "err"} \subseteq DOMAIN dec' /\ c # "" /\ c # "BAD_STATE"
    BY <2>1, ErrorsHaveNames DEF Fields
  <2>3. QED
    BY <1>0, <1>2, <2>2 DEF Fails, InCall, Fields, CallsInOrder, NeverBadState
<1>3. CASE ReachedSOS
  <2>1. UNCHANGED mk /\ pc = "reached_sos"
    BY <1>3 DEF ReachedSOS
  <2>2. CASE ic.inheaders
    <3>1. /\ ic' = [ic EXCEPT !.inheaders = FALSE, !.multi = Len(tb.cur) < Len(tb.ids) \/ tb.prog]
          /\ dec' = [dec EXCEPT !.state = "READY"] /\ pc' = "app"
      BY <1>3, <2>2 DEF ReachedSOS
    <3>2. /\ ic'.inheaders = FALSE /\ {"inheaders", "eoi_reached", "multi"} \subseteq DOMAIN ic'
          /\ dec'.state = "READY" /\ dec'.err = dec.err /\ {"state", "err"} \subseteq DOMAIN dec'
      BY <3>1 DEF Fields
    <3>3. QED
      BY <1>0, <2>1, <2>2, <3>1, <3>2
      DEF InCall, Fields, CallsInOrder, DecoderAsExpected, EncoderAsExpected, NeverBadState
  <2>3. CASE ~ic.inheaders
    <3>1. GoesOn \/ Fails
      BY <1>3, <2>3 DEF ReachedSOS, StartInputPass, GoesOn, Fails, InCall
    <3>2. QED
      BY <3>1, <2>1, <1>1, <1>2 DEF Fields
  <2>4. QED
    BY <2>2, <2>3
<1>4. CASE ReachedEOI
  <2>1. /\ UNCHANGED mk /\ pc = "reached_eoi" /\ ic' = [ic EXCEPT !.eoi_reached = TRUE]
    BY <1>4 DEF ReachedEOI
  <2>2. ic'.inheaders = ic.inheaders /\ {"inheaders", "eoi_reached", "multi"} \subseteq DOMAIN ic'
    BY <2>1 DEF Fields
  <2>3. CASE ic.inheaders
    <3>1. pc' = "exit" /\ dec'.err \in {"SOF_NO_SOS", "NO_IMAGE"} /\ {"state", "err"} \subseteq DOMAIN dec'
      BY <1>4, <2>3 DEF ReachedEOI, Fields
    <3>2. dec'.err # "" /\ dec'.err # "BAD_STATE"
      BY <3>1, ErrorsHaveNames
    <3>3. QED
      BY <1>0, <2>1, <2>2, <3>1, <3>2 DEF Fields, CallsInOrder, NeverBadState
  <2>4. CASE ~ic.inheaders
    <3>1. pc' = "app" /\ dec' = [dec EXCEPT !.state = "STOPPING"]
      BY <1>4, <2>4 DEF ReachedEOI
    <3>2. dec'.state = "STOPPING" /\ dec'.err = dec.err /\ {"state", "err"} \subseteq DOMAIN dec'
      BY <3>1 DEF Fields
    <3>3. QED
      BY <1>0, <2>1, <2>2, <2>4, <3>1, <3>2
      DEF InCall, Fields, CallsInOrder, DecoderAsExpected, EncoderAsExpected, NeverBadState
  <2>5. QED
    BY <2>3, <2>4
<1>5. QED
  BY <1>0, <1>1, <1>2, <1>3, <1>4, MarkerSteps, SegmentSteps, McuSteps DEF ReaderStep

(* What the application calls.                                             *)
LEMMA ReadingCalls ==
  ASSUME TranscodeInv, ReadHeader \/ PrepareBlocks \/ ReadCoefficients \/ FinishDecompress
  PROVE  TranscodeInv'
<1> USE DEF TranscodeInv, Call, Failed, Next_
<1>0. UNCHANGED enc /\ dec.err = "" /\ enc.err = "" /\ pc = "app"
  BY DEF ReadHeader, PrepareBlocks, ReadCoefficients, FinishDecompress, wvars
<1>1. CASE ReadHeader
  <2>1. app = "read_header" /\ dec.state = "START" /\ app' = "copy_parameters"
    BY <1>0, <1>1 DEF ReadHeader, CallsInOrder, DecoderAsExpected, InCall
  <2>2. ic' = reset_input_controller /\ mk' = reset_marker_reader
        /\ dec' = [dec EXCEPT !.state = "INHEADER"] /\ pc' = "markers"
    BY <1>1, <2>1 DEF ReadHeader, JpegReadHeader
  <2>3. /\ dec'.state = "INHEADER" /\ dec'.err = "" /\ {"state", "err"} \subseteq DOMAIN dec'
        /\ ic'.inheaders /\ {"inheaders", "eoi_reached", "multi"} \subseteq DOMAIN ic'
        /\ "ret" \in DOMAIN mk' /\ mk'.ret = "markers"
    BY <1>0, <2>2 DEF Fields, reset_input_controller, reset_marker_reader
  <2>4. QED
    BY <1>0, <2>1, <2>2, <2>3
    DEF InCall, Fields, CallsInOrder, DecoderAsExpected, EncoderAsExpected, NeverBadState
<1>2. CASE PrepareBlocks \/ ReadCoefficients
  <2>1. JpegReadCoefficients
    BY <1>2 DEF PrepareBlocks, ReadCoefficients
  <2>2. CASE PrepareBlocks
    <3>1. app = "prepare_blocks" /\ dec.state = "READY" /\ app' = "process" /\ ~ic.inheaders
      BY <1>0, <2>2 DEF PrepareBlocks, CallsInOrder, DecoderAsExpected, InCall
    <3>2. \/ Errexit("ARITH_NOTIMPL")
          \/ dec' = [dec EXCEPT !.state = "RDCOEFS"] /\ pc' = "decode_mcu" /\ UNCHANGED <<mk, ic>>
          \/ dec' = [dec EXCEPT !.err = "NO_TABLE"] /\ pc' = "exit" /\ UNCHANGED <<mk, ic>>
      BY <2>1, <3>1 DEF JpegReadCoefficients
    <3>3. CASE dec' = [dec EXCEPT !.state = "RDCOEFS"] /\ pc' = "decode_mcu" /\ UNCHANGED <<mk, ic>>
      <4>1. dec'.state = "RDCOEFS" /\ dec'.err = "" /\ {"state", "err"} \subseteq DOMAIN dec'
        BY <1>0, <3>3 DEF Fields
      <4>2. QED
        BY <1>0, <3>1, <3>3, <4>1
        DEF InCall, Fields, CallsInOrder, DecoderAsExpected, EncoderAsExpected, NeverBadState
    <3>4. ASSUME NEW c \in {"ARITH_NOTIMPL", "NO_TABLE"},
                 dec' = [dec EXCEPT !.err = c], pc' = "exit", UNCHANGED <<mk, ic>>
          PROVE  TranscodeInv'
      <4>1. dec'.err = c /\ {"state", "err"} \subseteq DOMAIN dec' /\ c # "" /\ c # "BAD_STATE"
        BY <3>4, ErrorsHaveNames DEF Fields
      <4>2. QED
        BY <1>0, <3>4, <4>1 DEF Fields, CallsInOrder, NeverBadState
    <3>5. QED
      BY <3>2, <3>3, <3>4 DEF Errexit
  <2>3. CASE ReadCoefficients
    <3>1. app = "read_coefficients" /\ dec.state = "STOPPING" /\ app' = "write_coefficients"
      BY <1>0, <2>3 DEF ReadCoefficients, CallsInOrder, DecoderAsExpected, InCall
    <3>2. UNCHANGED <<dec, ic, mk, pc>>
      BY <2>1, <3>1 DEF JpegReadCoefficients, rvars
    <3>3. QED
      BY <1>0, <3>1, <3>2
      DEF InCall, Fields, CallsInOrder, DecoderAsExpected, EncoderAsExpected, NeverBadState
  <2>4. QED
    BY <1>2, <2>2, <2>3
<1>3. CASE FinishDecompress
  <2>1. app = "finish_decompress" /\ dec.state = "STOPPING" /\ app' = "done"
    BY <1>0, <1>3 DEF FinishDecompress, CallsInOrder, DecoderAsExpected, InCall
  <2>2. dec' = [dec EXCEPT !.state = "START"] /\ UNCHANGED <<mk, ic, pc>>
    BY <1>3, <2>1 DEF FinishDecompress, JpegFinishDecompress
  <2>3. dec'.state = "START" /\ dec'.err = "" /\ {"state", "err"} \subseteq DOMAIN dec'
    BY <1>0, <2>2 DEF Fields
  <2>4. QED
    BY <1>0, <2>1, <2>2, <2>3
    DEF InCall, Fields, CallsInOrder, DecoderAsExpected, EncoderAsExpected, NeverBadState
<1>4. QED
  BY <1>1, <1>2, <1>3

(* What the compression object comes to: another one in the state s, or    *)
(* an error.                                                               *)
EncoderIn(s) ==
  /\ {"state", "err"} \subseteq DOMAIN enc' /\ enc'.err # "BAD_STATE"
  /\ enc'.err = "" => enc'.state = s

(* Writing leaves the compression object as it was asked to be, or fails   *)
(* with the one error of the destination (jdatadst.c).                     *)
LEMMA Emitted ==
  ASSUME NEW e, NEW tokens, Emit(e, tokens), {"state", "err"} \subseteq DOMAIN e, e.err = ""
  PROVE  EncoderIn(e.state)
<1>1. enc' = e \/ enc' = [e EXCEPT !.err = "FILE_WRITE"]
  BY DEF Emit
<1>2. QED
  BY <1>1, ErrorsHaveNames DEF EncoderIn

(* A failure of the compression object is one of its own, not that of a    *)
(* call out of order.                                                      *)
LEMMA EncoderFailed ==
  ASSUME NEW c \in {"NO_QUANT_TABLE", "MISMATCHED_QUANT_TABLE", "BAD_DCT_COEF"}, NEW s,
         EncoderFails(c), Fields
  PROVE  EncoderIn(s)
BY ErrorsHaveNames DEF EncoderFails, EncoderIn, Fields

(* A step of jpeg_finish_compress keeps the object writing coefficients    *)
(* or returns it to the start, if it does not fail (jcapimin.c,            *)
(* jctrans.c).                                                             *)
LEMMA WriterSteps ==
  ASSUME Fields, enc.err = "", WriterStep
  PROVE  EncoderIn("WRCOEFS") \/ EncoderIn("START")
<1>0. enc.state = "WRCOEFS"
  BY DEF WriterStep, StartPass, EncodeMcu, FinishPass
<1>1. CASE StartPass
  <2> DEFINE e == [enc EXCEPT !.headers = TRUE, !.next = 1, !.togo = enc.interval, !.rst = 0,
                        !.last = [c \in 1..Len(enc.ids) |-> 0],
                        !.qsent = @ \cup SlotsUsed(enc.tq), !.hsent = @ \cup SlotsUsed(enc.td),
                        !.last_interval = enc.interval]
  <2>1. \E tokens : Emit(e, tokens)
    BY <1>1 DEF StartPass
  <2>2. e.state = "WRCOEFS" /\ e.err = "" /\ {"state", "err"} \subseteq DOMAIN e
    BY <1>0 DEF Fields
  <2> HIDE DEF e
  <2>3. QED
    BY <2>1, <2>2, Emitted
<1>2. CASE EncodeMcu
  <2>1. CASE EncoderFails("BAD_DCT_COEF")
    BY <2>1, EncoderFailed
  <2>2. CASE ~EncoderFails("BAD_DCT_COEF")
    <3> DEFINE e == [enc EXCEPT !.next = @ + 1,
                            !.last = [c \in 1..Len(enc.ids) |-> enc.image[c][enc.next]],
                            !.rst = IF RestartDue THEN (@ + 1) % 8 ELSE @,
                            !.togo = IF enc.interval = 0 THEN @
                                     ELSE (IF RestartDue THEN enc.interval ELSE @) - 1]
    <3>1. \E tokens : Emit(e, tokens)
      BY <1>2, <2>2 DEF EncodeMcu
    <3>2. e.state = "WRCOEFS" /\ e.err = "" /\ {"state", "err"} \subseteq DOMAIN e
      BY <1>0 DEF Fields
    <3> HIDE DEF e
    <3>3. QED
      BY <3>1, <3>2, Emitted
  <2>3. QED
    BY <2>1, <2>2
<1>3. CASE FinishPass
  <2>1. enc' = [enc EXCEPT !.state = "START"] \/ enc' = [enc EXCEPT !.err = "FILE_WRITE"]
    BY <1>3 DEF FinishPass, Terminate
  <2>2. QED
    BY <2>1, ErrorsHaveNames DEF EncoderIn, Fields
<1>4. QED
  BY <1>1, <1>2, <1>3 DEF WriterStep

(* Parameters are set without touching what the object is in the middle of.*)
SameObject(e, f) == {"state", "err"} \subseteq DOMAIN f /\ f.state = e.state /\ f.err = e.err

(* The default parameters and color space change no state (jcparam.c). *)
LEMMA ParametersSet ==
  ASSUME NEW e, NEW space, NEW n, {"state", "err"} \subseteq DOMAIN e
  PROVE  /\ SameObject(e, jpeg_set_colorspace(e, space, n))
         /\ SameObject(e, jpeg_set_defaults(e, space, n))
<1>1. \A f, sp : {"state", "err"} \subseteq DOMAIN f => SameObject(f, jpeg_set_colorspace(f, sp, n))
  BY DEF SameObject, jpeg_set_colorspace
<1>2. PICK f : /\ SameObject(e, f)
               /\ jpeg_set_defaults(e, space, n) = jpeg_default_colorspace(f, space, n)
  <2> DEFINE g == [e EXCEPT !.q = [s \in Slots |-> IF s \in {0, 1} THEN StdQuant(s) ELSE e.q[s]],
                  !.h = [s \in Slots |-> IF s \in {0, 1} THEN StdHuff(s) ELSE e.h[s]],
                  !.interval = 0]
  <2>1. SameObject(e, g)
    BY DEF SameObject
  <2>2. jpeg_set_defaults(e, space, n) = jpeg_default_colorspace(g, space, n)
    BY DEF jpeg_set_defaults
  <2> HIDE DEF g
  <2>3. QED
    BY <2>1, <2>2
<1>3. SameObject(f, jpeg_default_colorspace(f, space, n))
  BY <1>1, <1>2 DEF jpeg_default_colorspace, SameObject
<1>4. QED
  BY <1>1, <1>2, <1>3 DEF SameObject

(* jpeg_copy_critical_parameters leaves a compression object at the        *)
(* start, or fails for a table (jctrans.c).                                *)
LEMMA ParametersCopied ==
  ASSUME NEW t, NEW r, Fields, enc.state = "START", enc.err = "", JpegCopyCriticalParameters(t, r)
  PROVE  EncoderIn("START")
<1>1. CASE NoQuantTable(t) \/ Mismatched(t)
  BY <1>1, EncoderFailed DEF JpegCopyCriticalParameters
<1>2. CASE ~NoQuantTable(t) /\ ~Mismatched(t)
  <2> DEFINE d == jpeg_set_defaults(enc, t.space, Len(t.ids))
             e == jpeg_set_colorspace(d, t.space, Len(t.ids))
  <2>1. enc' = [CopyTables(e, t) EXCEPT !.interval = r]
    BY <1>2 DEF JpegCopyCriticalParameters
  <2>2. SameObject(enc, d)
    BY ParametersSet DEF Fields
  <2> HIDE DEF d
  <2>3. SameObject(d, e)
    <3>1. {"state", "err"} \subseteq DOMAIN d
      BY <2>2 DEF SameObject
    <3>2. QED
      BY <3>1, ParametersSet
  <2> HIDE DEF e
  <2>4. SameObject(e, CopyTables(e, t))
    BY <2>3 DEF SameObject, CopyTables
  <2>5. QED
    BY <2>1, <2>2, <2>3, <2>4, ErrorsHaveNames DEF SameObject, EncoderIn
<1>3. QED
  BY <1>1, <1>2

(* The calls on the compression object find it in the state each demands   *)
(* and leave it in the one the next demands (tpe.c, jctrans.c,             *)
(* jcapimin.c).                                                            *)
LEMMA WritingCalls ==
  ASSUME TranscodeInv, CopyParameters \/ ProcessImage \/ WriteCoefficients \/ FinishCompress
  PROVE  TranscodeInv'
<1> USE DEF TranscodeInv, Call, Failed, Next_
<1>0. UNCHANGED <<dec, ic, mk, pc>> /\ dec.err = "" /\ enc.err = "" /\ pc = "app"
  BY DEF CopyParameters, ProcessImage, WriteCoefficients, FinishCompress, rvars
<1>1. DecoderAsExpected /\ EncoderAsExpected
  BY <1>0 DEF CallsInOrder
<1>2. ASSUME NEW s, EncoderIn(s), DecoderAsExpected',
             s = IF app' = "finish_compress" THEN "WRCOEFS" ELSE "START"
      PROVE  TranscodeInv'
  BY <1>0, <1>2 DEF EncoderIn, EncoderAsExpected, Fields, CallsInOrder, NeverBadState
<1>3. CASE CopyParameters
  <2>1. app = "copy_parameters" /\ app' = "prepare_blocks" /\ enc.state = "START"
        /\ \E n \in RestartIntervals : JpegCopyCriticalParameters(tb, n)
    BY <1>1, <1>3 DEF CopyParameters, EncoderAsExpected
  <2>2. EncoderIn("START")
    BY <1>0, <2>1, ParametersCopied
  <2>3. DecoderAsExpected'
    BY <1>0, <1>1, <2>1 DEF DecoderAsExpected, InCall
  <2>4. QED
    BY <1>2, <2>1, <2>2, <2>3
<1>4. CASE ProcessImage
  <2>1. app = "process" /\ app' = "read_coefficients" /\ UNCHANGED enc
    BY <1>4 DEF ProcessImage, wvars
  <2>2. EncoderIn("START")
    BY <1>0, <1>1, <2>1 DEF EncoderIn, EncoderAsExpected, Fields, NeverBadState
  <2>3. DecoderAsExpected'
    BY <1>0, <1>1, <2>1 DEF DecoderAsExpected, InCall
  <2>4. QED
    BY <1>2, <2>1, <2>2, <2>3
<1>5. CASE WriteCoefficients
  <2>1. app = "write_coefficients" /\ app' = "finish_compress" /\ enc.state = "START"
        /\ JpegWriteCoefficients(co.blocks, tb.mcus)
    BY <1>1, <1>5 DEF WriteCoefficients, EncoderAsExpected
  <2> DEFINE e == [enc EXCEPT !.qsent = {}, !.hsent = {}, !.last_interval = 0, !.headers = FALSE,
                          !.image = co.blocks, !.mcus = tb.mcus, !.state = "WRCOEFS"]
  <2>2. \E tokens : Emit(e, tokens)
    BY <2>1 DEF JpegWriteCoefficients
  <2>3. e.state = "WRCOEFS" /\ e.err = "" /\ {"state", "err"} \subseteq DOMAIN e
    BY <1>0 DEF Fields
  <2> HIDE DEF e
  <2>4. EncoderIn("WRCOEFS")
    BY <2>2, <2>3, Emitted
  <2>5. DecoderAsExpected'
    BY <1>0, <1>1, <2>1 DEF DecoderAsExpected, InCall
  <2>6. QED
    BY <1>2, <2>1, <2>4, <2>5
<1>6. CASE FinishCompress
  <2>1. app = "finish_compress" /\ enc.state = "WRCOEFS" /\ WriterStep
        /\ app' = IF enc'.state = "START" THEN "finish_decompress" ELSE app
    BY <1>1, <1>6 DEF FinishCompress, EncoderAsExpected
  <2>2. EncoderIn("WRCOEFS") \/ EncoderIn("START")
    BY <1>0, <2>1, WriterSteps
  <2>3. DecoderAsExpected'
    BY <1>0, <1>1, <2>1 DEF DecoderAsExpected, InCall
  <2>4. CASE enc'.err = ""
    <3>1. EncoderAsExpected'
      BY <2>1, <2>2, <2>4 DEF EncoderIn, EncoderAsExpected
    <3>2. QED
      BY <1>0, <2>2, <2>3, <2>4, <3>1 DEF EncoderIn, Fields, CallsInOrder, NeverBadState
  <2>5. CASE enc'.err # ""
    BY <1>0, <2>2, <2>5 DEF EncoderIn, Fields, CallsInOrder, NeverBadState
  <2>6. QED
    BY <2>4, <2>5
<1>7. QED
  BY <1>3, <1>4, <1>5, <1>6

(* Two objects just created satisfy the invariant. *)
LEMMA NewObjects ==
  ASSUME dec = NewDecoder, ic = reset_input_controller, mk = reset_marker_reader,
         enc = NewEncoder, pc = "app", app = "read_header"
  PROVE  TranscodeInv
BY ErrorsHaveNames DEF NewDecoder, reset_input_controller, reset_marker_reader, NewEncoder,
   TranscodeInv, Fields, CallsInOrder, DecoderAsExpected, EncoderAsExpected, NeverBadState

(* For every file, every place where it is damaged or ends, every failure  *)
(* of the destination and both rounds of encryption and decryption: no     *)
(* call of the application on its decompression or compression object      *)
(* finds the object in another state than the call demands, so that the    *)
(* JERR_BAD_STATE exits of the library are dead.                           *)
THEOREM CallsAreInOrder == Spec => []NeverBadState
<1>1. Init => TranscodeInv
  BY NewObjects DEF Init, ReaderInit, WriterInit
<1>2. TranscodeInv /\ [Next]_vars => TranscodeInv'
  <2> SUFFICES ASSUME TranscodeInv, [Next]_vars PROVE TranscodeInv'
    OBVIOUS
  <2>1. CASE SecondRound
    <3>1. /\ dec' = NewDecoder /\ ic' = reset_input_controller /\ mk' = reset_marker_reader
          /\ enc' = NewEncoder /\ pc' = "app" /\ app' = "read_header"
      BY <2>1 DEF SecondRound
    <3>2. QED
      BY <3>1, ErrorsHaveNames DEF NewDecoder, reset_input_controller, reset_marker_reader,
         NewEncoder, TranscodeInv, Fields, CallsInOrder, DecoderAsExpected, EncoderAsExpected,
         NeverBadState
  <2>2. CASE Ended \/ UNCHANGED vars
    BY <2>2 DEF Ended, vars, rvars, wvars, TranscodeInv, Fields, CallsInOrder, DecoderAsExpected,
       EncoderAsExpected, InCall, NeverBadState
  <2>3. QED
    BY <2>1, <2>2, LibraryStep, ReadingCalls, WritingCalls DEF Next
<1>3. QED
  BY <1>1, <1>2, PTL DEF Spec, TranscodeInv
=============================================================================
