------------------------------- MODULE SerialRx -------------------------------
(***************************************************************************)
(* Reception on uart2, from the DMA channel to at_client_getchar.  The DMA  *)
(* writes into a circular buffer; its half and complete interrupts and the  *)
(* IDLE interrupt of the UART (drivers/drv_usart.c) tell the serial device  *)
(* (components/drivers/serial/serial.c) how many bytes are new, which the   *)
(* AT parser thread (components/net/at/src/at_client.c) reads one by one,   *)
(* sleeping on the semaphore rx_notice when there are none.                 *)
(*                                                                         *)
(* The DMA interrupt (priority 0) preempts the handler of the UART (1),     *)
(* both preempt the thread.  A region with interrupts disabled is one step; *)
(* bytes arrive at any time, in such a region too.  A byte is its number,   *)
(* which the code never looks at.                                           *)
(***************************************************************************)
EXTENDS Integers

CONSTANTS
  bufsz,      \* serial->config.bufsz (RT_SERIAL_RB_BUFSZ)
  MaxBytes,   \* bound: bytes that arrive
  MaxLate     \* bound: byte times that pass while an interrupt is not served

\* The indices, and the size, have 16 bits; a buffer whose size does not divide
\* their range would lose its place when an index runs over.
IndexRange == 65536

ASSUME SerialRxAssumption ==
  /\ bufsz \in Nat /\ bufsz >= 2 /\ bufsz % 2 = 0
  /\ bufsz < IndexRange /\ IndexRange % bufsz = 0
  /\ MaxBytes \in Nat /\ MaxLate \in Nat

VARIABLES
  w,          \* bytes the DMA has written
  buffer,     \* rx_fifo->buffer
  busy,       \* a byte has come since the line was idle for the last time
  idle,       \* UART_FLAG_IDLE
  ht, tc,     \* the half and the complete flag of the DMA channel
  late,       \* byte times since an interrupt is waiting or in work
  outpaced    \* history: the line was too fast for the handlers or the thread

VARIABLES
  last_index, \* uart->dma_rx.last_index
  recv_len,   \* recv_len of the IDLE handler
  isr,        \* where the IDLE handler is

  put_index, get_index, is_full   \* the fields of rx_fifo

VARIABLES
  rx_notice,  \* the value of the semaphore
  pc,         \* where the thread is in at_client_getchar
  timed,      \* it waits with a timeout (at_client_obj_recv), not for ever

  count,      \* bytes read
  ch,         \* the byte read last
  missed      \* history: the thread went to sleep next to unread bytes

lineVars == <<w, buffer, busy, idle, ht, tc, late, outpaced>>
fifoVars == <<put_index, get_index, is_full>>
driverVars == <<last_index, recv_len, isr>>
readerVars == <<rx_notice, pc, timed, count, ch, missed>>
vars == <<lineVars, driverVars, fifoVars, readerVars>>

\* rt_serial_open with RT_DEVICE_FLAG_DMA_RX, stm32_dma_config.
Init ==
  /\ w = 0 /\ buffer = [i \in 0 .. bufsz - 1 |-> 0]
  /\ busy = FALSE /\ idle = FALSE /\ ht = FALSE /\ tc = FALSE
  /\ late = 0 /\ outpaced = FALSE
  /\ last_index = 0 /\ recv_len = 0 /\ isr = "none"
  /\ put_index = 0 /\ get_index = 0 /\ is_full = FALSE
  /\ rx_notice = 0 /\ pc = "read" /\ timed = FALSE
  /\ count = 0 /\ ch = 0 /\ missed = FALSE

----------------------------------------------------------------------------
(* The line and the DMA channel, circular: the counter is reloaded at 0.    *)

\* The DMA interrupt is pending.
dma_irq == ht \/ tc

Interrupting == idle \/ dma_irq \/ isr # "none"

\* A byte time passes; how many do while an interrupt waits is bounded.
ByteTime ==
  /\ Interrupting => late < MaxLate
  /\ late' = IF Interrupting THEN late + 1 ELSE 0

\* A byte the code is not made for: it comes while the IDLE handler has interrupts
\* off; it comes while that handler has a length in hand and the DMA interrupt has
\* waited for a byte time, which may take the put index below 0 and make the device
\* take the buffer for full; it passes the middle or the end of the buffer before the
\* DMA interrupt of the mark before was served, so that dma_isr runs twice and may
\* report the same bytes twice; it overwrites one that was not read; or it fills the
\* buffer while a handler is late, so that a full buffer may be taken for an empty
\* one.
TooFast ==
  \/ isr = "masked"
  \/ isr = "indexed" /\ dma_irq
  \/ dma_irq /\ (w + 1) % bufsz \in {0, bufsz \div 2}
  \/ w - count >= IF Interrupting THEN bufsz - 1 ELSE bufsz

Receive ==
  /\ w < MaxBytes
  /\ ByteTime
  /\ buffer' = [buffer EXCEPT ![w % bufsz] = w + 1]
  /\ w' = w + 1
  /\ ht' = (ht \/ (w + 1) % bufsz = bufsz \div 2)
  /\ tc' = (tc \/ (w + 1) % bufsz = 0)
  /\ busy' = TRUE
  /\ outpaced' = (outpaced \/ TooFast)
  /\ UNCHANGED <<idle, driverVars, fifoVars, readerVars>>

\* The line falls idle; inside the IDLE handler the flag is cleared without a look
\* at the bytes that have come since.
LineIdle ==
  /\ busy
  /\ ByteTime
  /\ busy' = FALSE
  /\ idle' = TRUE
  /\ outpaced' = (outpaced \/ isr \in {"indexed", "clear"})
  /\ UNCHANGED <<w, buffer, ht, tc, driverVars, fifoVars, readerVars>>

\* The position the DMA will write next: bufsz - __HAL_DMA_GET_COUNTER.
recv_total_index == w % bufsz

----------------------------------------------------------------------------
(* serial.c                                                                 *)

\* rt_dma_calc_recved_len
calc_recved_len(put, get, full) ==
  IF put = get THEN IF full THEN bufsz ELSE 0
  ELSE IF put > get THEN put - get ELSE bufsz - (get - put)

Unread == calc_recved_len(put_index, get_index, is_full)

\* Mutant: the put index runs on behind the end of the buffer.
update_put_index_unwrapped(len) ==
  LET put == (put_index + len) % IndexRange
  IN  /\ put_index' = IF put > bufsz THEN put - bufsz ELSE put
      /\ UNCHANGED <<is_full, get_index>>

\* Mutant: a put that ends on the get index is not taken for a full buffer.
update_put_index_exclusive(len) ==
  LET put == (put_index + len) % IndexRange
  IN  /\ put_index' = put % bufsz
      /\ is_full' = \/ is_full
                    \/ /\ get_index <= put_index
                       /\ put >= bufsz /\ put % bufsz > get_index
                    \/ get_index > put_index /\ put > get_index
      /\ get_index' = IF is_full' THEN put_index' ELSE get_index

\* rt_dma_recv_update_put_index.  When the new bytes reach the get index, all
\* of the buffer is unread and the oldest byte is the next one to be overwritten.
update_put_index(len) ==
  LET put == (put_index + len) % IndexRange
  IN  /\ put_index' = put % bufsz
      /\ is_full' = \/ is_full
                    \/ /\ get_index <= put_index
                       /\ put >= bufsz /\ put % bufsz >= get_index
                    \/ get_index > put_index /\ put >= get_index
      /\ get_index' = IF is_full' THEN put_index' ELSE get_index

\* Mutant: a thread that waits is not resumed.
ReleaseCounts == rx_notice' = rx_notice + 1 /\ UNCHANGED <<pc, missed>>

\* rt_sem_release(client->rx_notice)
Release ==
  IF pc = "waiting"
  THEN pc' = "read" /\ missed' = FALSE /\ UNCHANGED rx_notice
  ELSE rx_notice' = rx_notice + 1 /\ UNCHANGED <<pc, missed>>

\* Mutant: the callback gets the length from before the update.
dma_done_early(len) ==
  /\ update_put_index(len)
  /\ IF Unread > 0 THEN Release ELSE UNCHANGED <<rx_notice, pc, missed>>
  /\ UNCHANGED <<timed, count, ch>>

\* rt_hw_serial_isr(serial, RT_SERIAL_EVENT_RX_DMADONE | (recv_len << 8)), which
\* calls at_client_rx_ind with the number of unread bytes.  A negative recv_len
\* survives the shifts and is added to the 16-bit index.
dma_done(len) ==
  /\ update_put_index(len)
  /\ IF calc_recved_len(put_index', get_index', is_full') > 0
     THEN Release
     ELSE UNCHANGED <<rx_notice, pc, missed>>
  /\ UNCHANGED <<timed, count, ch>>

----------------------------------------------------------------------------
(* drv_usart.c                                                              *)

\* No interrupt is left: the clock of the late ones starts anew.
Served ==
  late' = IF idle' \/ dma_irq' \/ isr' # "none" THEN late ELSE 0

dma_recv_len ==
  IF recv_total_index = 0 THEN bufsz - last_index ELSE recv_total_index - last_index

\* It clears one flag, the one of the half first; the other keeps the interrupt
\* pending.
HAL_DMA_IRQHandler == ht' = FALSE /\ tc' = (ht /\ tc)

\* Mutant: last_index is left to the IDLE handler.
dma_isr_keeps_index ==
  /\ dma_irq /\ isr # "masked"
  /\ HAL_DMA_IRQHandler
  /\ IF dma_recv_len # 0 THEN dma_done(dma_recv_len)
                         ELSE UNCHANGED <<fifoVars, readerVars>>
  /\ UNCHANGED <<w, buffer, busy, idle, outpaced, driverVars>>
  /\ Served

\* dma_isr, which the handler calls once for the half and once for the end.
dma_isr ==
  /\ dma_irq /\ isr # "masked"
  /\ HAL_DMA_IRQHandler
  /\ last_index' = recv_total_index
  /\ IF dma_recv_len # 0 THEN dma_done(dma_recv_len)
                         ELSE UNCHANGED <<fifoVars, readerVars>>
  /\ UNCHANGED <<w, buffer, busy, idle, outpaced, recv_len, isr>>
  /\ Served

\* uart_isr, the branch of the IDLE flag.  A pending DMA interrupt goes first;
\* from here on it has to wait.
IdleEnter ==
  /\ idle /\ isr = "none" /\ ~dma_irq
  /\ isr' = "masked"
  /\ UNCHANGED <<lineVars, last_index, recv_len, fifoVars, readerVars>>

IdleIndex ==
  /\ isr = "masked"
  /\ recv_len' = recv_total_index - last_index
  /\ last_index' = recv_total_index
  /\ isr' = IF recv_len' # 0 THEN "indexed" ELSE "clear"
  /\ UNCHANGED <<lineVars, fifoVars, readerVars>>

IdleDone ==
  /\ isr = "indexed"
  /\ dma_done(recv_len)
  /\ isr' = "clear"
  /\ recv_len' = 0
  /\ UNCHANGED <<lineVars, last_index>>

IdleClear ==
  /\ isr = "clear"
  /\ idle' = FALSE
  /\ isr' = "none"
  /\ UNCHANGED <<w, buffer, busy, ht, tc, outpaced, last_index, recv_len, fifoVars,
                 readerVars>>
  /\ Served

----------------------------------------------------------------------------
(* at_client_getchar in the parser thread, which runs when no handler does. *)

\* rt_device_read of one byte: _serial_dma_rx, rt_dma_recv_update_get_index.
\* A byte that is there ends the call; the next call waits as it likes.
Read ==
  /\ isr = "none"
  /\ pc = "read"
  /\ \/ /\ Unread > 0
        /\ ch' = buffer[get_index]
        /\ get_index' = (get_index + 1) % bufsz
        /\ is_full' = FALSE
        /\ count' = count + 1
        /\ timed' \in BOOLEAN
        /\ UNCHANGED pc
     \/ /\ Unread = 0
        /\ pc' = "reset"
        /\ UNCHANGED <<get_index, is_full, timed, count, ch>>
  /\ UNCHANGED <<lineVars, driverVars, put_index, rx_notice, missed>>

\* rt_sem_control(client->rx_notice, RT_IPC_CMD_RESET, RT_NULL)
Reset ==
  /\ isr = "none"
  /\ pc = "reset"
  /\ rx_notice' = 0
  /\ pc' = "take"
  /\ missed' = (Unread > 0)
  /\ UNCHANGED <<lineVars, driverVars, fifoVars, timed, count, ch>>

\* rt_sem_take(client->rx_notice, timeout)
Take ==
  /\ isr = "none"
  /\ pc = "take"
  /\ IF rx_notice > 0
     THEN rx_notice' = rx_notice - 1 /\ pc' = "read" /\ missed' = FALSE
     ELSE pc' = "waiting" /\ UNCHANGED <<rx_notice, missed>>
  /\ UNCHANGED <<lineVars, driverVars, fifoVars, timed, count, ch>>

\* rt_thread_timeout
Expire ==
  /\ isr = "none"
  /\ pc = "waiting" /\ timed
  /\ pc' = "failed"
  /\ UNCHANGED <<lineVars, driverVars, fifoVars, rx_notice, timed, count, ch, missed>>

\* at_client_obj_recv returns 0; the parser goes on with the next byte.
Failed ==
  /\ isr = "none"
  /\ pc = "failed"
  /\ pc' = "read"
  /\ timed' \in BOOLEAN
  /\ missed' = FALSE
  /\ UNCHANGED <<lineVars, driverVars, fifoVars, rx_notice, count, ch>>

----------------------------------------------------------------------------

IdleIsr == IdleEnter \/ IdleIndex \/ IdleDone \/ IdleClear

Thread == Read \/ Reset \/ Take \/ Failed

Next == Receive \/ LineIdle \/ dma_isr \/ IdleIsr \/ Thread \/ Expire

Spec == Init /\ [][Next]_vars

\* The line does not stay busy without bytes, interrupts are served, and the
\* thread, the most urgent of the application, runs when no handler does.
FairSpec ==
  /\ Spec
  /\ WF_vars(LineIdle) /\ WF_vars(dma_isr) /\ WF_vars(IdleIsr) /\ WF_vars(Thread)

----------------------------------------------------------------------------
(* Properties                                                               *)

TypeOK ==
  /\ w \in 0 .. MaxBytes /\ count \in Nat /\ ch \in 0 .. MaxBytes
  /\ buffer \in [0 .. bufsz - 1 -> 0 .. MaxBytes]
  /\ busy \in BOOLEAN /\ idle \in BOOLEAN /\ ht \in BOOLEAN /\ tc \in BOOLEAN
  /\ late \in 0 .. MaxLate /\ outpaced \in BOOLEAN
  /\ last_index \in 0 .. bufsz - 1 /\ recv_len \in -bufsz .. bufsz
  /\ isr \in {"none", "masked", "indexed", "clear"}
  /\ put_index \in 0 .. bufsz - 1 /\ get_index \in 0 .. bufsz - 1
  /\ is_full \in BOOLEAN
  /\ rx_notice \in Nat
  /\ pc \in {"read", "reset", "take", "waiting", "failed"}
  /\ timed \in BOOLEAN /\ missed \in BOOLEAN

\* What the IDLE handler has taken for itself and not given to the device yet.
InHand == IF isr = "indexed" THEN recv_len ELSE 0

\* However late the handlers are, whatever is overwritten, and in whatever order
\* the two handlers of one burst report their lengths, the device and the DMA
\* agree on where the next byte goes: a negative length of the IDLE handler
\* takes the index back by a lap.
PutIndexFollowsDma == (put_index + InHand - last_index) % bufsz = 0

\* While the code keeps up with the line, every byte that has come and has not
\* been read is in the fifo, in the hand of the IDLE handler, or still to be found
\* by a handler: none is forgotten and none is counted twice, also when the
\* thread is a whole buffer behind.
BytesAccounted ==
  ~outpaced => Unread + (InHand % bufsz) + ((w - last_index) % bufsz) = w - count

\* The thread sleeps next to unread bytes only when the reset of rx_notice threw
\* away the notice of bytes that came after the read that found none.
AsleepOnlyAfterReset == pc = "waiting" /\ Unread > 0 => missed

\* The thread reads the bytes of the line, in order, each once, as long as the
\* code keeps up with it.
Stream == INSTANCE ByteStream WITH stored <- w, taken <- count, last <- ch

ImplementsStream == Stream!Spec

\* The bytes that have come are all read in the end, or the thread sleeps next to
\* them.
EveryByteRead == count < w ~> (count = w \/ missed \/ outpaced)

\* at_client_obj_recv: "@param timeout  receive data timeout (ms)", "=0: receive
\* failed": a receive that times out had no byte to take.
TimeoutMeansNoData == pc = "failed" => ~missed

===============================================================================
