----------------------------- MODULE RtRingBuffer -----------------------------
(***************************************************************************)
(* The ring buffer of components/drivers/src/ringbuffer.c, as operators on  *)
(* a record with the fields of struct rt_ringbuffer, with the calls that    *)
(* the AT command line makes.  A mirror bit for each index tells a full     *)
(* ring from an empty one.                                                  *)
(***************************************************************************)
EXTENDS Integers, Sequences

CONSTANTS
  size,            \* the size rt_ringbuffer_create is called with
  RT_ALIGN_SIZE

\* RT_ALIGN_DOWN(size, RT_ALIGN_SIZE)
buffer_size == size - (size % RT_ALIGN_SIZE)

\* RT_ASSERT(size > 0); an index has 15 bits, the size 16 with its sign.
ASSUME RingAssumption ==
  /\ size \in Nat /\ RT_ALIGN_SIZE \in Nat \ {0}
  /\ buffer_size > 0 /\ buffer_size <= 32767

\* rt_ringbuffer_init: the memory of the pool may hold anything.
init(pool) ==
  [buffer |-> pool, read_mirror |-> 0, read_index |-> 0,
   write_mirror |-> 0, write_index |-> 0]

\* rt_ringbuffer_status
is_empty(rb) == rb.read_index = rb.write_index /\ rb.read_mirror = rb.write_mirror

is_full(rb) == rb.read_index = rb.write_index /\ rb.read_mirror # rb.write_mirror

data_len(rb) ==
  IF is_empty(rb) THEN 0
  ELSE IF is_full(rb) THEN buffer_size
  ELSE IF rb.write_index > rb.read_index THEN rb.write_index - rb.read_index
  ELSE buffer_size - (rb.read_index - rb.write_index)

space_len(rb) == buffer_size - data_len(rb)

\* The second half of rt_ringbuffer_put_force for one byte: the indices.  When
\* there was no space, the read index follows, and its mirror if it wraps.  The
\* branch is chosen and used in one go: this is a put that nothing interrupts, as
\* in the DMA handler; the one of the UART handler is cut in AtCli.
put_advance(rb, space_length) ==
  LET wraps == rb.write_index = buffer_size - 1
      w == IF wraps THEN 0 ELSE rb.write_index + 1
  IN  [rb EXCEPT !.write_index = w,
                 !.write_mirror = IF wraps THEN 1 - @ ELSE @,
                 !.read_index = IF space_length = 0 THEN w ELSE @,
                 !.read_mirror = IF space_length = 0 /\ wraps THEN 1 - @ ELSE @]

\* rt_ringbuffer_put_force(rb, &ch, 1)
put_force(rb, ch) ==
  put_advance([rb EXCEPT !.buffer[rb.write_index] = ch], space_len(rb))

===============================================================================
