# Diff-Car: a verification project in TLA+

Diff-Car is the firmware of a small car with two driven wheels: an STM32F1
with RT-Thread 4.0.2, an ESP8266 WiFi module on `uart2`, an encoder and a PWM
driver for each wheel. A client on the network sends pairs of doubles (forward
speed, turning rate); the car regulates its wheels to them. The project models
the path of such a command, from the line the WiFi module sends to the compare
registers of the timers, and the parts of the kernel and of its components that
path relies on: the message queue, the heap, the AT client, serial reception
with DMA, and the AT command line, which borrows the same serial line.

## The system

| Part | Source | State | Operations | Talks to |
|---|---|---|---|---|
| Message queue | `rt-thread/src/ipc.c` | pool of blocks, two linked lists, two wait lists | init, recv, send, urgent, reset, timeout | recvCb, speedThread |
| Heap | `rt-thread/src/mem.c` | chain of blocks, `lfree`, statistics | `rt_malloc`, `rt_calloc`, `rt_free`, `rt_realloc` | everybody who allocates |
| Command path | `applications/tcpserver_esp8266.cpp`, `main.cpp` | packet in work, two heap buffers, command in force | `urc_recv_func`, `recvCb`, the poll of `speedThread` | AT client, queue, heap |
| AT client | `rt-thread/components/net/at/src/at_client.c` | lock, response, status, semaphore `resp_notice`; the line being read | `at_obj_exec_cmd`, `client_parser`, `at_recv_readline`, `at_client_obj_recv` | callers (`test()`), serial device |
| AT CLI | `.../at/src/at_cli.c`, `components/drivers/src/ringbuffer.c` | saved status and rx indication, a ring, a semaphore, a thread | a session: begin, print, end | shell, AT client, handlers of uart2 |
| Serial reception | `components/drivers/serial/serial.c`, `drivers/drv_usart.c` | DMA ring, indices, `rx_notice` | IDLE and DMA handlers, read, `at_client_getchar` | AT client, AT CLI |
| Speed loop | `main.cpp`, `calc_speed.h`, `slide_window.h`, `pid.h`, `pwm.h`, `drv_encoder.c`, `drivers/drv_pwm.c` | references, samples, PID state, duty of two channels per wheel | one turn of the loop | queue, timers, tick |
| Button | `button.h` | debouncing | never called | - |
| Kernel, HAL, shell, packages | `rt-thread/`, `cubemx/`, `libraries/`, `packages/` | | | everything |

Threads, by priority (a small number is urgent): `at_cli` (8, only during a
session), the parser of the AT client (9), the main thread (10; it runs `test()`
at start-up), `speedThread` (15), the shell (20; it can run `test()` and the AT
CLI). `recvCb` runs in the parser thread and never waits; `speedThread` polls the
queue with timeout 0 once every turn, about once in a millisecond. The DMA
handler of uart2 preempts the handler of the UART, and both preempt the threads;
thread timeouts come from the tick.

What is hard here, and what makes each part correct:

- *Queue.* The kernel copies messages with interrupts enabled, so a caller may
  be preempted with a block in hand while others send, receive, time out or
  reset. Correct: no block lost or shared, lists and counter agree, no torn
  message, nobody sleeps while there is work.
- *Heap.* Three pieces of code move `lfree` and two merge blocks; `rt_realloc`
  gives up the semaphore in the middle of a move. Correct: the blocks tile the
  heap, free neighbours are merged, a block belongs to its holder alone, the
  statistics are exact, and a request is refused for a reason.
- *Command path.* Commands are posted at the front of a queue that drops what
  does not fit, and two buffers are allocated for each packet. Correct: the car
  never goes back to an older command, the last accepted one comes into force, a
  command is refused only if the loop is behind, and the heap is accounted for.
- *AT client, commands.* Answers come late, never, twice or without being asked
  for, and are matched to commands by nothing but time. Correct: the parser never
  writes to a response that its owner has taken back, stale notices do not pile
  up, every call returns and an answer belongs to its command.
- *AT client, stream.* Lines and payloads share one stream without framing, and
  a payload that is late is later read as text. Correct: what is delivered is a
  whole payload, a loss has a cause, the parser finds its way back.
- *Serial reception.* Two handlers advance one index, one of them preempts the
  other, an index may run over, full and empty look alike, and the reader throws
  a notice away before it sleeps. Correct: each byte is read once and in order,
  nobody sleeps next to unread bytes.
- *AT CLI.* The rx indication is switched while bytes come, the ring has no lock,
  and memory may run out half-way. Correct: bytes are printed in order, a session
  leaves the client as it found it.
- *Speed loop.* The counters and the tick run over, the thread is preempted
  between reading one and the other, the output takes samples of its own, and
  PID state and window are not initialised. Correct: a sample is the true
  distance over the true time, the filter averages the latest samples, the
  drive stays within the period and only one channel drives.

## Modules

| Module | What it is |
|---|---|
| `BoundedDeque` | what the queue promises: an abstract bounded deque with room that is reserved and kept |
| `RtMessageQueue` | the queue of `ipc.c`; one step is one region with interrupts disabled, or the copy of one of the two words of a message |
| `RtMessageQueueProofs` | its inductive invariants, safety theorems and refinement |
| `BlockAllocator` | what the heap promises: disjoint blocks, granted, resized and given back, and when a request may be refused |
| `RtMem` | the heap of `mem.c`; one step is one section under `heap_sem` |
| `RtMemProofs` | its inductive invariants, safety theorems and refinement |
| `CommandPath` | extends the queue with `urc_recv_func`, `recvCb`, the heap and the poll of `speedThread` |
| `CommandPathProofs` | its safety theorems, on top of those of the queue |
| `AtClient` | `at_obj_exec_cmd` statement by statement, the parser line by line, the CLI, and the WiFi module as an environment that answers late, never, or without being asked |
| `AtClientProofs` | its inductive invariants and safety theorems |
| `AtReceive` | the parser below the level of a line: `at_recv_readline`, `get_urc_obj`, `urc_recv_func` with `at_client_obj_recv` on a stream of headers, text and payload |
| `AtReceiveProofs` | its inductive invariant and safety theorems |
| `ByteStream` | what serial reception promises: bytes are taken once and in order |
| `SerialRx` | the DMA ring, its two handlers, `rt_serial_read` and `at_client_getchar` |
| `SerialRxProofs` | its inductive invariant, safety theorems and refinement |
| `RtRingBuffer` | the ring buffer, as operators on its record |
| `AtCli` | extends `RtRingBuffer`: sessions of the AT CLI |
| `AtCliProofs` | its inductive invariant and safety theorems |
| `SlideWindow` | the moving average, as operators |
| `SpeedLoop` | extends `SlideWindow`: one turn of `speedThread`, cut at each access to the hardware |
| `SpeedLoopProofs` | its inductive invariant and safety theorems |
| `MC*` | the instances for TLC |

How state and actions correspond to the code:

- `RtMessageQueue`: `head`, `tail`, `free`, `next`, `entry` are the fields of
  `struct rt_messagequeue` and of its blocks; a block is named by its number,
  `RT_NULL` is 0. `pc` says where a caller is; `RecvCall`, `SendCall` and
  `UrgentCall` are the first regions of the three calls, `RecvRetry` and
  `SendRetry` their loops after a wait, `CopyOut`/`GiveBack` and
  `CopyIn`/`Link` the rest. `Timeout` is `rt_thread_timeout`; `ResetWake`,
  `ResetMove`, `ResetDone` are `rt_mq_control`. `queued` and `freed` are history:
  the two lists as sequences, kept apart from the pointers, and read by no
  action. The number of blocks is *computed* from the sizes, as `rt_mq_init`
  does; with the sizes of the program it is 1.
- `RtMem`: an address is an offset from `heap_ptr`; `mem` maps the address of
  each block to its `struct heap_mem`. `Split` is the code that `rt_malloc` and
  `rt_realloc` have in common, `plug_forward` and `plug_backward` are the two
  halves of `plug_holes`. The search from `lfree` is the lowest block that fits
  (`Fitting`, `Lowest`), the search for the next `lfree` is `NextFree`.
  `rt_realloc` is one step, except when it moves the block: `ReallocMove`,
  `MoveMalloc`, `MoveFree`. `held` is what the program has got and not given
  back; it frees no block twice and none it is moving. The data of a block is
  not modelled, and sizes near the end of `rt_size_t` are excluded.
- `CommandPath`: `upc` is the place of the parser in `urc_recv_func` and
  `recvCb`. A packet is a number; its length is empty, short (below two doubles)
  or full. The heap is counted in buffers. A failed `RT_ASSERT` and a fault
  spin in their handlers in the thread of priority 9, so that `speedThread`
  does not run again. A copy to address 0 is undefined: the model lets it fault
  or go unnoticed.
- `AtClient`: one action per statement of `at_obj_exec_cmd` that the parser can
  tell apart. The parser preempts every caller and does not wait inside a line,
  so that a line is one step. The mutex is its queue of threads. `line_num`,
  `buf_len` and `line_counts` are those of the response; a line has length one.
  The number of the command a line answers is history.
- `AtReceive`: an element of `wire` is a header `+IPD,<socket>,<bfsz>:`, a
  newline, a byte of text, or a byte of the payload of a packet, which may look
  like a newline. `LineByte` and `LineEnd` are the loop of `at_recv_readline`,
  with the limit of its buffer; a header is recognised at the start of a line
  only. `RecvByte`, `RecvTimeout`, `RecvDone` are `at_client_obj_recv`;
  `DrainByte`, `DrainPiece`, `DrainDone` the loop that throws away a payload there
  is no memory for. `RecvTimeout` and `DrainPiece` may fire at any time: a byte
  may be late, or be there and not noticed (see `serial_wakeup`). `Restart` is a
  reset of the module in the middle of a packet.
- `SerialRx`: `w` counts what the DMA has written, from which the code sees
  `recv_total_index`. `IdleEnter`, `IdleIndex`, `IdleDone`, `IdleClear` cut the
  IDLE handler where the DMA handler can preempt it, or a byte can come with
  interrupts off; `dma_isr` is one entry of the DMA handler. The half and the
  complete flag are two variables, `ht` and `tc`: `HAL_DMA_IRQHandler` clears one
  of them per entry, so that with both pending `dma_isr` runs twice. The update
  of the indices is `rt_dma_recv_update_put_index` for any length, negative ones
  included. `Read`, `Reset`, `Take`, `Expire`, `Failed` are `at_client_getchar`
  with and without a timeout. `outpaced` is history: the line was faster than
  the code is made for (`TooFast`, `LineIdle`).
- `RtRingBuffer`, `AtCli`: `rt_ringbuffer_put_force` in the DMA handler is
  atomic for the rest (`put_force`). In the UART handler the DMA handler may
  preempt it anywhere, so that it is cut into its accesses to the ring: the
  comparisons and the difference of `rt_ringbuffer_space_len` (`IdleSpace`,
  `IdleMirrors`, `IdleOrder`, `IdleLen`), the choice of the branch (`IdleTest`),
  which is kept whatever the write index is later, the copies (`IdleCopy`,
  `IdleCopyRest`), and a load and a store for each statement on an index
  (`IdleBegin`, `IdleLoad`, `IdleStore`). Where an index would leave the buffer
  the model stops (`IdleOutside`). `torn` is history: a put was nested between
  two accesses to the indices. A comparison of two indices is one step, and a
  statement on an index loads its halfword once.
  `rt_ringbuffer_getchar` of the thread is cut at its loads and stores, because
  both handlers do. The steps of the shell are the statements of
  `client_cli_parser` that handlers can tell apart; `fifo_state` says whether
  `client_rx_fifo` is null, live, or points to freed memory.
- `SpeedLoop`: `pos` and `now` are the unbounded truth, `getCounter` and
  `rt_tick_get` the values of limited width the program sees (`CntHalf` is
  half the range of a counter, 2^15 in the program; `TickRange` is 2^32). Doubles are
  integers or `NaN`; an uninitialised double is a choice in `Init`. `Drive` and
  `Release` are the two calls of `rt_pwm_set` in `setCW` and `setCCW`. Starting
  with `FirstTick` and `FirstCount`, each read of the hardware is a step.

Definitions named `...Forgotten`, `...Unlocked` and the like, with a comment
that begins with "Mutant", are wrong variants of the definition after them.
No specification uses them; a property is checked to fail with one of them in
place of the right definition.

The components meet in three places. `CommandPath` composes the queue with its
two users. `AtReceive` takes the order of the bytes from what `ByteStream`
promises and the timeouts from what `SerialRx` shows to be possible.
`CommandPath` counts heap buffers where `RtMem` has addresses: it needs only
that a block is its holder's alone and that a request may fail, which
`BlockAllocator` states.

## Runs

| Run | Instance | States | Shows |
|---|---|---|---|
| `mq_safety` | 2 threads that may wait, 1 interrupt handler, 2 messages, 2 blocks | 969 thousand | the safety invariants of the queue, and that it implements `BoundedDeque` |
| `mq_live` | the same, 1 block, 1 message | 6 thousand | nobody waits next to what he waits for |
| `command_path` | 4 packets, room for 3 buffers, 1 of them used by others | 2 thousand | order, delivery, refusal and accounting |
| `command_heap` | 4 packets, room for 3 buffers | violated | see below |
| `at_client` | 2 callers, 2 commands, 1 text line per answer, 2 lines on the wire, a buffer of 1 line | 307 thousand | ownership, semaphore, matching, every call returns |
| `at_late_answer` | 1 caller, 2 commands | violated | see below |
| `at_receive` | 3 packets of 0 or 3 bytes, 1 line of text, a line buffer of 2 and a `temp[]` of 2 | 534 thousand | whole payloads, losses with a cause, the way back to lines |
| `serial_rx` | a ring of 8, 9 bytes, handlers late by 4 byte times | 441 thousand | indices, accounting, order, and that bytes are read |
| `serial_wakeup` | a ring of 4, 4 bytes | violated | see below |
| `at_cli` | a ring of 3, 5 bytes, 2 sessions, creation may fail | 649 thousand | notices, order, what a session leaves, how the program may stop |
| `heap` | 2 threads, 16 bytes of data, header 2, sizes 0, 1, 7, 17 and three times as much | 272 thousand | tiling, merging, statistics, and that it implements `BlockAllocator` |
| `speed_loop` | 1 wheel, window of 2, a counter of 8 values (`CntHalf` 4), a tick of 16, 5 ticks | 1.2 million | samples, filter, drive, channels |

Why the bounds are enough.

- *Queue:* with two blocks a caller can hold one while another is queued or free,
  and three callers are enough for a sender, a receiver and one who interferes;
  the proofs remove the bound for what they cover. The queue of the program has
  one block, which is the instance of `command_path`; there the mutant that gives
  it two breaks the order of the commands.
- *Command path:* four packets exhaust a heap of three buffers by the leak alone
  and still leave room for runs in which commands overlap.
- *AT client:* two commands are one that times out and one that is disturbed by
  its late lines, by the same or another thread; with two lines on the wire a
  text and an OK can both be late.
- *Receive:* three packets are one whose payload is late, one that is swallowed
  by the line this leaves, and one that must be found again. A size of 0 takes
  the early return of `urc_recv_func`; 3 exceeds both buffers of 2, so that a
  line overflows and a payload that is thrown away needs two pieces, the second
  one short.
- *Serial:* nine bytes run over a ring of eight and fill it; four byte times
  let a burst end, begin and cross the half or the end of the ring inside one
  handler, and let both flags of the DMA be pending. On a ring of four the last of the weak places named below does not
  show within these bounds.
- *CLI:* five bytes overflow a ring of three and wrap its mirror, and are enough
  for a nested put to make either branch of the interrupted one wrong; the second
  session finds what the first one left.
- *Heap:* four blocks of the smallest size, so that a block has free neighbours
  on both sides, on one, or on none; 7 is rounded, 17 is larger than the heap,
  0 gives back. Both threads may be in the middle of a move.
- *Speed loop:* the start values are chosen just below the wrap of the counter
  and of the tick, so that both run over. The wheels share no state but the
  command, and are handled one after the other, so that one is enough.
  `MaxStall` is the assumption that a wheel does not turn half the range of its
  counter between two reads (in the program: 32767 counts, about one turn of the
  wheel), without which no program could tell the distance.

`CHECK_DEADLOCK FALSE` appears where the model stops: packets, bytes and ticks
are bounded, and a failed assertion stops the program for good.

Fairness. `mq_live`: weak fairness of the steps of a caller inside a call (a
ready thread is scheduled in the end, no region waits) and of a timeout that has
been started. `command_path`: weak fairness of the parser, whose waits for a
payload all have a timeout, and of `speedThread`, which gets the processor when
the parser sleeps in `at_client_getchar`. `at_client`: weak fairness of each
caller and of its timeout; nothing is assumed of the WiFi module or of the CLI.
All calls of `test()` use the finite timeout of 5 seconds. `serial_rx`: weak
fairness of the handlers, of the thread, and of the line, which falls idle when
bytes stop; not of the timeout. `at_receive`: of the parser and of its two
timeouts; nothing is assumed of the module. `at_cli`: of the UART handler and of
the thread at_cli; nobody has to press ESC.

### What the violated runs show

- `command_heap`: `urc_recv_func` never frees `recv_buf` after `recvCb`, and
  `recvCb` does not check `rt_malloc`. After a few packets (in the instance: two,
  and the third fails) `rt_mq_urgent` is called with a null buffer, which its
  assertion forbids.
- `at_late_answer`: a command times out, its OK comes while the next one waits,
  and the next one returns 0. `AnswersMatchUntilTimeout` (checked by
  `at_client`) says that a timeout, or a command that did not wait for its OK,
  is the only way to get there.
- `serial_wakeup`: `at_client_getchar` reads nothing, bytes come and are noticed,
  the reset of `rx_notice` throws the notice away, and the thread sleeps next to
  them; a receive with a timeout fails. `AsleepOnlyAfterReset` (checked by
  `serial_rx`) says that this is the only way, and `EveryByteRead` that the bytes
  are read unless it happens.

### What the passing properties say of weak places

Some properties describe a weak place of the code exactly rather than deny it:

- *Serial.* The DMA handler takes index 0 for a ring just completed; when the ring
  ran over while the IDLE handler had interrupts off, old bytes are reported
  again (`drv_usart.c:775`). The same happens when the DMA interrupt is so late
  that the half and the complete flag are both pending: the handler serves one of
  them per entry, and the second entry finds index 0 again
  (`stm32f1xx_hal_dma.c:631`). The IDLE flag is cleared after the length was
  computed, so that the end of a burst may be cleared unseen
  (`drv_usart.c:700`). These need bytes during a few instructions, or half a
  ring of them during a handler; `outpaced` marks them, and what is promised holds until then. `PutIndexFollowsDma` holds
  in any case: the negative length the IDLE handler computes after a wrap takes
  the index back by a lap. A further such place was found by the proof and not by
  the run on a ring of four: a byte that comes while the IDLE handler has its
  length in hand and the DMA interrupt is already waiting makes that length, or
  the next one, negative at a put index that is smaller; the 16-bit index is then
  large for a moment, and the ring is taken for full (`serial.c:416`).
- *CLI.* The rx indication is switched before the ring exists (`at_cli.c:230`)
  and a session without memory leaves the client in CLI mode (`at_cli.c:286`):
  `StopHasCause` and `SessionLeavesNoTrace` say when this stops the program and
  what is left. On overflow the handler and `rt_ringbuffer_getchar` both move the
  read index, which may leave the buffer (`ringbuffer.c:275`). So may the write
  index: a put of the UART handler chooses its branch before it copies
  (`ringbuffer.c:114`), and a put of the DMA handler nested after that makes it
  store an index at the end of the buffer or a negative one. `StopHasCause` says
  that an index leaves the buffer in no other way. A put nested between two
  accesses to the indices may also leave the ring with bytes that have no notice;
  `NoticePerByte` and `RingDrains` hold until then, and again in the next
  session.
- *Heap.* A gap at the end of the heap is refused to a request that fits it
  exactly (`mem.c:306`); `rt_realloc` may leave a free block below `lfree`, where
  no search looks until a block further down is given back (`mem.c:493`); a
  slightly smaller size moves the block and may fail (`mem.c:502`). `Refuse` of
  `BlockAllocator` lists these and no others.
- *Receive.* After a late payload byte the rest is read as text, and a header
  that follows without a newline is not recognised: `LossHasCause` says how
  far the damage goes.
- *AT client.* `AT_RESP_BUFF_FULL` is overwritten by the OK that follows
  (`at_client.c:829`). `at_obj_exec_cmd` reads the status only after that
  (`at_client.c:324`), and returns success for an answer of which lines are
  missing; nothing in the code says what it should return.

## Proofs

Each proof module extends the module it is about. The only assumptions are the
ones on its constants, which TLC evaluates on the instances; the bounds of the
runs (`MaxBytes`, `MaxPackets`, `MaxTicks` and so on) are arbitrary naturals in
them. Every safety property of the passing runs, every action property and every
refinement is proved; TLC checked each inductive invariant on the instance of
its run before it was proved.

`RtMessageQueueProofs`. `BlocksInsidePool`: for every pool, message and header
size and alignment, the blocks `rt_mq_init` makes lie inside the pool. For the
safety theorems the properties of the run are not inductive alone: that a link
survives a step depends on who holds which block. `StructInv` adds that a caller
holds a block exactly while it copies (`HeldBlocks`), that interrupts are off
exactly during a reset (`ResetExclusive`), and that the block of an ordinary
message has no link until it is appended (`PrivateLinks`): without the last one
`Link`, which does not write the link of the block it appends, would splice the
free list into the queue. Lemmas on chains (push, pop and append of a block)
carry the steps: `MqTypeCorrect`, `MqBlocksPartitioned`, `MqListsWellFormed`,
`MqWaitListsExact`. `MqInv` (`MqInvariant`) adds how far each copy has got, from
which `MqNoTornMessage` follows. `WakeInv` adds to the structure that a suspended
caller has no error and that nobody is suspended during a reset, so that a caller
that is resumed counts as such until it looks at the queue again;
`MqNoLostWakeup` follows. `MqRefinesDeque`: each
step is a step of `BoundedDeque` or leaves it as it is. The steps that copy a
word do, because a copy that is complete has the message `MqInv` says it has; the
room a sender reserves is there because queued blocks, held blocks and a free one
are different blocks of the pool (`RoomLeft`).

`CommandPathProofs`. `PathUsesQueue`: the path is a behaviour of the queue, so
that the theorems above hold on it. `HeapInv` tells which buffers the parser
holds at each place, and gives `PathHeapAccounted`. That commands stay in order,
that the last accepted one comes into force and that one is refused only while
`speedThread` is behind, is false for two blocks (`rt_mq_urgent` then overtakes);
it is proved for `max_msgs = 1`, and `SizesOfProgram` shows that this is what the
sizes in `main.cpp` come to. `PathInv`: the packet in work is newer than the last
accepted one, the single block holds the last accepted command as long as it is
queued or being copied out, and the command in force is older than it just then.
Theorems: `PathLastAcceptedInForce`, `PathCommandsInOrder`,
`PathRefusedOnlyWhenBehind`.

`AtClientProofs`. `AtInv` is the types, `LockDiscipline` (the queue of the lock
holds exactly the threads inside the call, once each, and only the first is past
`rt_mutex_take`) and `NoticeAccounted` (what `resp_notice` may be at each place
of the thread that has the lock). The bound of the semaphore alone is not
inductive: that the parser can release it only once per command follows from
`client->resp` being cleared with the release, and that a stale notice does not
become two from a command that finds one taking it without waiting. Theorems:
`AtInvariant`, `AtTypeCorrect`, `AtRespOwned`, `AtNoticeBounded`.
`AtCountedStored` needs that lines exceed what is stored only between the two
assignments that clear the response (`CountsStored`). `AtAnswersMatch` needs
`CleanInv`: as long as nothing timed out, all that the module owes or has sent
is the rest of the one answer to the command that waits, with at most one OK or
ERROR at its end (`OneAnswer`), or nothing but unsolicited lines (`Silent`).

`AtReceiveProofs`. The invariant describes the stream and the parser's place in
it. Until the module is reset a header is followed by its whole payload
(`FollowInv`), and what comes before a header is a newline or the packet before
(`OrderInv`); the payload `urc_recv_func` waits for is next on the wire
(`UrcInv`), which gives `ParserDeliversIntact`. A packet is `Tainted` by an
earlier one whose bytes were late if no newline was sent before a header since:
a byte of payload on the wire is behind its header, awaited, or of a tainted
packet (`StrayInv`), a line that is not empty in front of a header taints the
header's packet (`HeadInv`), and a packet whose header is gone was received,
thrown away or is tainted (`GoneInv`). Theorems: `ParserResponseClean`,
`ParserLossHasCause`.

`SerialRxProofs`. All indices lie below `bufsz`, so that each remainder of the
code is an addition or subtraction of `bufsz` (`Wrap`, `ModSucc`) and what is
left is linear arithmetic. `PutIndexFollowsDma` becomes inductive in the form
`Follows` (put index and length in hand differ from `last_index` by a lap at
most) with `SameHalf` (without a DMA interrupt the DMA has not left the half of
the ring `last_index` is in, which is why both interrupts are needed). Until
`outpaced`, `InStep` counts the bytes in the fifo, in hand and pending, says that
the two DMA flags are not pending together, and excludes the states in which a
handler takes a full ring for an empty one; `Stored` says where the unread bytes are. Theorems: `TypeCorrect`,
`PutIndexKeepsUp`, `NoByteForgotten`, `SleepsOnlyAfterReset`, `RefinesStream`,
for every even `bufsz` that divides the range of the index (the program: 64 or
any other power of two below 2^16).

`AtCliProofs`. The mirror bits make positions of 0 .. 2 `buffer_size` - 1 out of
the indices. While `rt_ringbuffer_getchar` is between its loads and stores the
handlers may move the read index it is about to overwrite; the invariant
therefore speaks of the position it will have when getchar is through
(`Target`): the write position is never further ahead of it than notices remain
(`RingOK`), which is `CliNoticePerByte`, and as long as nothing was lost it is
exactly that far ahead and the cells between hold the bytes in order (`Exact`,
`Holds`), which is `CliPrintedInOrder`. In the middle of a put of the UART
handler neither holds of the ring as it is; they are stated of the ring as it will
be when the put is through (`Ring`, from `Done`), which `IdleBegin` changes as
`put_advance` does and no later access changes (`BeginRing`, `MoveKeeps`). That
the branch chosen at `ringbuffer.c:114` is still the right one (`Straight`) is an
invariant only as long as no handler nests (`BranchInv`); where it is not, the put
ends outside the buffer. `ShellInv` and `SessionInv` tell what
`client_cli_parser` has saved and restored at each statement, and whether the
ring exists: `CliSessionLeavesNoTrace`, `CliStopHasCause`.

`SpeedLoopProofs`. `TypeInv` with `FilterIsRecent` gives `LoopTypeCorrect`,
`LoopFilterIsRecent` and, with where a drive was begun, `LoopChannelsExclusive`.
`LoopSamplesAreTrue` needs how old each read is (`TimeInv`) and that the wheel is
within `MaxStep` times that age of where it was read (`CountInv`); a difference
of less than `CntHalf` then survives the wrap of the counter, and one of less
than `TickRange` that of the tick.

`RtMemProofs`. `Chain` is the chain of `HeapTiled` as a predicate of the headers;
`JoinChain` and `SplitChain` say that `Join` and `Split` keep it. The heart is
`PlugHoles`: given a chain in which free neighbours occur only at the block it is
called for (`NoHolesBut`), `plug_holes` returns one without free neighbours, keeps
`lfree` at a free block and touches no block in use; after `plug_forward` only
the pair with the block before is left (`NoHolesBefore`), and `plug_backward`
removes that. Neither property of the run is inductive alone: that `rt_realloc`
may free the block it has moved from needs `MoveInv` (that block is still held,
and no other thread moves it), and that a split leaves room for data needs
`AlignUp` (rounding up is at least the size) with the test against
`MIN_SIZE_ALIGNED`. Theorems: `Tiled`, `Plugged`; `StatsAreExact` (the sum over
the held blocks, by what one block more or less does to it); and
`RefinesAllocator`, which adds that all addresses are aligned and inside the heap
(`AddrInv`) and that a search that finds nothing is one of the refusals
`BlockAllocator` lists.

Induction over data. The induction theorems of the library take an operator as a
parameter, which the provers cannot instantiate. Where a sum or a sequence of
puts needs induction (the filter, the statistics, `PutAll` of the ring) the
proofs take the least element of the set of counterexamples instead
(`LeastNat`, from the well-foundedness of the naturals).

Only model-checked: the liveness properties (`WaitersServed`,
`AcceptedIsApplied`, `ExecReturns`, `EveryByteRead`, `UrcReturns`, `RingDrains`),
which need fairness, out of the prover's reach; and the three violated runs,
which are counterexamples.

## Not modelled

- Creating, deleting and detaching a queue in use, waiting by priority, and
  messages shorter than the block: the program does none of these.
- `at_client_obj_wait_connect` and `at_obj_recv_parse`, which nobody calls, and
  the failures of `at_client_init`, which end the start-up.
- Lines the WiFi module may send that are neither an answer nor in the URC table,
  which `client_parser` would add to the current response, and lines of text that
  contain ERROR or FAIL, which it would take for the end of an answer
  (`at_client.c:804`, `:831`).
- A command that is not a number: `recvCb` copies the bytes of a packet, and a NaN
  passes the limits of `main.cpp:74`. The scaling of a pulse from nanoseconds to
  timer ticks in `drv_pwm_set`, which is monotone.
- What the ring of the CLI does after an index has left its buffer.
- The calls of the ring buffer the program does not make.
- Sending on the serial line (polled), the console (reception by interrupt), and
  the registers behind both.
- `at_cli_init`/`at_cli_deinit` and the editing of a line; the AT server, which
  is not built.
- `Button`, which nobody polls; the OLED output, which is commented out or pure
  output; timer and pin set-up; `encoder.c`, which prints two counters.
- Scheduler and timers, used by their contracts: interleaving with weak
  fairness, and a wait that may end by timeout.
- HAL, CMSIS, BSP drivers, the shell and the packages: vendored or generated,
  and most of the repository by size (the HAL, CMSIS and DSP libraries with their
  examples, the ports of RT-Thread to other processors, protocol stacks that are
  not built). They hold none of the program's own logic; what the program relies
  on of them is in the models above.

## Plan

In order; the first eight are done.

1. `RtMessageQueue`, `BoundedDeque`, their runs and proofs.
2. `CommandPath`: composition of the queue with its two users.
3. `AtClient`, its runs and proofs.
4. `SlideWindow` and `SpeedLoop`.
5. `SerialRx` and `ByteStream`, `AtReceive` on top of them.
6. `RtRingBuffer` and `AtCli`.
7. `RtMem` and `BlockAllocator`, their run and proofs.
8. Proofs of every safety property and refinement of the runs.
9. Composition of `CommandPath` and `SpeedLoop`: from an accepted command to the
   duty of a wheel.
