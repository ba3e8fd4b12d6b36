# WALI_FrameWork: a verification project

TLA+ models of the framework's core, the TLC runs that check them on small
instances, and proofs, checked by TLAPS, of the results that matter most. Every
definition is translated from the code at one commit; `PROJECT.json` says for
each one which lines it stands for.

    tlc -workers 2 -config FirmwareFaults.cfg MCFirmware   # one run
    tlapm FirmwareProofs.tla                               # one proof module

## 1. The system

WALI_FrameWork is a C framework for bare-metal microcontrollers. There are no
threads: a main loop calls state machines again and again, each call runs one to
a few steps and returns `fsm_rt_on_going`, and interrupt handlers put the bytes
they receive into queues. The concurrency that can go wrong is therefore of four
kinds: interrupt handler against main loop, one device against another over a
serial line, a device against its own power supply, and callbacks that call back
into the structure that is calling them.

| Component | State | Operations | Talks to |
|---|---|---|---|
| Byte queue, `generic/queue` | ring, head, tail, length, peek cursor and its length, cover mode | enqueue, dequeue, peek (bytes and blocks), reset peek, get all peeked, save and restore the cursor | every receiving component; filled by interrupt handlers |
| Ymodem receiver, `communication/ymodem` | `chState`, last byte, try count, packet number, buffer | `ymodem_receive`, `ymodem_receive_package` | a queue; path and data callbacks of `example/check_ymodem_receive_agent.c` |
| Ymodem sender, same file | `chState`, try count, packet number, buffer | `ymodem_send`, `ymodem_send_package` | a queue; callbacks of `example/check_ymodem_send_agent.c` |
| Boot loader, `bootloader` | three marks and two copies of the user data at the end of the application partition; the user data in RAM | `go_to_boot`, `start_to_boot`, `end_to_boot`, `start_application` | flash; called from the receive callbacks and before `main` |
| Flash access, `flash_blob`, and its drivers | the flash; the device table | init, erase, write, read | boot loader, receive callbacks |
| Check agent engine, `check_agent_engine` | list of agents, cursor of the running scan | register, unregister, the scan | ymodem, shell and message agents |
| Message map, `communication/msg_map` | position in the message table, sub-machines for strings and arguments | `search_msg_map` | peeks a queue; calls handlers |
| Subscribe and publish, `communication/subscribe_publish` | table of topics, one topic queue | subscribe, publish, `wl_subscribe_publish_exec` | a byte queue in cover mode, message map, signals and slots |
| Signals and slots, `communication/signals_slots` | per-object list of connections | connect, disconnect, emit | slots may call connect and disconnect |
| Shell, `communication/shell` | line buffer, cursor, history, escape state | `wl_shell_read`, `wl_shell_set_echo`, `wl_shell_exec`, `wl_shell_echo` | a byte queue in cover mode, topics, message map |
| Memory pool, `generic/pool` | keyed free list | add heap, allocate, free | `print_str` |
| IPC, `IPC` | mutex word, event word | enter, leave, set, reset, wait | interrupt handlers |
| `print_str` | per string: its text and the place in it | `print_string` | memory pool, port, mutex |
| Logging, soft timer, state machine macros, modbus, configuration | little or none | formatting, a stub, syntax | - |

Paths are below `src/source/` unless they begin with `example/`.

### What is hard, and what makes each part correct

* **Byte queue.** `hwHead = hwTail` means both full and empty, so `hwLength` must
  never drift; the peek cursor must follow every dequeue and every overwrite;
  every block copy has two branches at the end of the ring. *Correct:* it acts
  call by call as a bounded FIFO with look-ahead.
* **Ymodem.** Bytes are lost and garbled, callbacks that erase flash outlast the
  other side's timeout, an `ACK` carries no number, block numbers wrap.
  *Correct:* what is stored is a gapless prefix of the announced file, it is
  marked complete when and only when it is whole, and no wait lasts for ever.
* **Firmware update.** Power fails between, or in the middle of, any two flash
  operations, and three words of flash decide what starts next. *Correct:* only a
  whole image is started, a completed update is started, and the device can
  always be updated again.
* **Message map.** A scan takes many calls; interrupt handlers enqueue, and an
  overflowing queue rewinds the scan's cursor, between any two of them; the
  commit comes after the handler has run and may have published in turn.
  *Correct:* a handler is called for the message at the front of the queue, with
  its arguments, and just that message is removed.
* **Subscribe and publish.** A message is published in several enqueues into a
  queue that overwrites its oldest bytes. *Correct:* messages are handled in
  order and once; after an overflow the newest still is.
* **Check agents, signals and slots.** Callbacks register, unregister, connect
  and disconnect while the list is walked; an interrupt handler walks the list
  of connections between any two writes to it. *Correct:* no walk loses its way,
  calls what is gone, or misses what stays.
* **Shell.** A line and the topic that runs it go through two queues; the line
  buffer keeps bytes behind its end. *Correct:* accepted lines run once, in
  order; buffers keep their final zero; the echo follows.
* **Memory pool.** An item is recognised by a key that stays valid while it is
  free. *Correct:* an item is free in its own pool once, or held.
* **IPC and `print_str`.** Mutex and event are tested and set in two steps with
  interrupts enabled. *Correct:* one string at a time, no request lost.

`PROJECT.json` lists the hazards one by one at their lines, with the properties
about each, or why there is none.

## 2. The modules

| Module | Models | Extends |
|---|---|---|
| `PeekFifo` | what the byte queue promises | - |
| `ByteQueue` | `wl_queue.c`, one action per function | instantiates `PeekFifo` |
| `ByteQueueProofs` | proofs about `ByteQueue`, and that it implements `PeekFifo` | `ByteQueue`, `SequenceTheorems`, `TLAPS` |
| `SerialLine` | the two queues between two devices, and noise | - |
| `YmodemReceiver`, `YmodemSender` | `ymodem_receive` and `ymodem_send` with the example callbacks, one action per `chState` | `SerialLine` |
| `FileDelivery` | what a transfer promises the receiving side | - |
| `YmodemTransfer` | both sides, the clock, a far end that cancels | `YmodemReceiver`, `YmodemSender`; instantiates `FileDelivery` |
| `MCYmodem` | the files of the ymodem runs | `YmodemTransfer` |
| `TransferProofs` | proofs about `YmodemTransfer`, and that it implements `FileDelivery` | `YmodemTransfer`, `SequenceTheorems`, `TLAPS` |
| `AppPartition` | the application's sectors, the marks and the copies, and what each flash operation leaves | - |
| `FirmwareUpdate` | `bootloader.c` and the receive callbacks, one action per flash operation, and power failures | `AppPartition` |
| `MCFirmware` | the images of the firmware runs | `FirmwareUpdate` |
| `FirmwareProofs` | proofs about `FirmwareUpdate` | `FirmwareUpdate`, `TLAPS` |
| `LinkedList` | what following the link fields of a list meets, as the least closed set | - |
| `CheckAgents` | `wl_check_agent_engine.c`: the scan and the list | `LinkedList` |
| `SignalsSlots` | `wl_signals_slots.c` and the `emit` of its header | `LinkedList` |
| `Dispatch` | a main loop in which both call back into both | `CheckAgents`, `SignalsSlots` |
| `DispatchProofs` | proofs about `Dispatch` | `Dispatch`, `FiniteSetTheorems`, `TLAPS` |
| `MsgScan` | `search_msg_map`, `check_string`, `check_arg` over an overwriting queue | - |
| `MsgScanProofs` | proofs about `MsgScan` and `Topics` | `Topics`, `SequenceTheorems`, `WellFoundedInduction`, `TLAPS` |
| `Topics` | publishing, and lines received, while the scan runs | `MsgScan`, `SequencesExt` |
| `MCTopics` | the names and messages of the run | `Topics` |
| `Shell` | `wl_shell.c` and the topics through which it runs and echoes | - |
| `ShellProofs` | proofs about `Shell` | `Shell`, `SequenceTheorems`, `WellFoundedInduction`, `TLAPS` |
| `MemPool` | `mem_pool.c` | - |
| `MemPoolProofs` | proofs about `MemPool` | `MemPool`, `TLAPS` |
| `Printing` | `print_str.c`, the pool, the mutex and the events, used by tasks of a main loop | `MemPool` |
| `MCPrinting` | strings and items of the run | `Printing` |
| `PrintingProofs` | proofs about `Printing` | `Printing`, `MemPoolProofs` |

### Byte queue

The variables are the fields of `byte_queue_t` under their own names. Everything
that writes runs inside `safe_atom_code()`, so one call is one action, and an
interrupt handler's enqueues are any enqueue between two calls of the main loop.
Index arithmetic wraps at 2^16, as `uint16_t` does (`U16`). `ret` holds the last
call with what it was given, what it asked for and what it returned, so that the
refinement relates the contents to each call's argument and to its result.
`Init` is the queue after `queue_init_byte` with any contents in the caller's
buffer and either cover mode.

`PeekFifo` has a sequence, a count of bytes shown and the mode. The refinement
mapping reads the sequence out of the ring (`Loaded`).

Two limits of the code are written down where the model meets them.
`restore_peek_status` takes the count from `hwPeekLength` and not from
`hwLength`, so it is right only on a rewound cursor; nothing in the repository
calls it, and the model calls it only there (`SavedStatus`). `get_peek_status`
answers 0 once the whole of a *full* queue has been peeked; `PeekFifo` says so
(`cursor % Capacity`).

### Ymodem

A device reads whole packages, since the bytes of a packet come from one call of
the sender; what the line can do to them is in the kinds of arrival `SerialLine`
lists. A garbled packet becomes one with a bad CRC, one too short, or a residue
of bytes that read as anything, one by one. A residue byte that reads as `SOH`
or `STX` swallows what follows. `Blocks` stands for the 256 block numbers,
`MaxTry` for `MODEM_MAX_TRY_AGAN`, `RTicks` and `STicks` for the 3 s and 10 s
reads.

Control is kept in full, the fall-throughs included. When the write of an answer
is refused, `SEND_ANSWER` runs into `SEND_NAK`, which writes the answer again,
and `SEND_NAK` into `RECIVE_EOT`, which reads a byte (`SendAnswerRefused`,
`SendAnswerRefusedTwice`, `SendNakRefused`). A `CAN` from the far end is answered
with `ACK` and the receiver goes on asking for data, as in the code; its retry
count ends the session.

The callbacks are those of `example/`: the receiver's checks the name and the
size, erases, writes and reads back, cuts off what exceeds the announced size and
sets the end mark; the sender's moves on to the next file each time it is asked.
They may fail (fault `app`). The sender's path callback of the repository leaves
128 as the size of the empty name too; `EmptySizes` says whether it does so, or
reports 0, which `ymodem_send` waits for, or either from one session to the next.

`SerialLine` loses a packet that does not fit in the other side's queue as a
whole; `wl_queue.c` keeps the part that fits (line 164), which is what the line
does to a packet it cuts short.

`Tick` is a second of time. It passes only while each side either waits for a
byte with an empty queue or runs a callback that may take that long (`Slow`).
A main loop that stalls outside a callback for longer than the other side's
timeout is not modelled.

### Firmware update

The image is written in one part per sector. The trailer lies in the last
sector: the end mark, the start mark, the request mark, and a copy of the user
data for each of `go_to_boot` and `start_to_boot`. `Reach` says how far into the
last sector an image of the greatest size runs: it ends before the trailer
(`body`), runs into the copies, or into the marks too. All three pass the size
check, which compares with `APP_PART_SIZE`.

`stage` names what runs next: nothing (`off`), the application, the boot code
waiting for a file (`idle`), or a flash operation. `PowerFails` is possible in
every stage; the operation of that stage has not begun or is half done
(`CutOff`), and RAM is lost. A half-erased value may still be whole, be spoilt,
or be blank. A write of a mark or of a copy may also fail while the power stays
on; `go_to_boot`, `start_to_boot` and `end_to_boot` do not look at the result, so
the code goes on in the next stage (`Written`), as it does after an erase of the
marks that failed. `unguarded` is history: since the last successful erase of the
marks, a mark that protects the update was not written, or a file follows the
completed one. `Boots` is `start_application`; whether a torn first sector looks
like a stack pointer and a reset vector is left open. `go_to_boot` may be called
with a name or without.

### Check agents, signals and slots

`CheckAgents` has the fields of `check_agent_engine_t`. `ptFreeList`, the cursor
of the scan, is a field of the object and not a local of the scan, so that
`agent_register` and `agent_unregister` move it; both may be called between two
calls of the engine and from the callback of the agent that is being called
(`calling`). Unregistering what is not on the list runs the cursor off its end
and changes nothing else (`mistaken`). Reading through a cursor that is NULL is
the state `LOST`: what the program does then is undefined, and the model stops.

In `SignalsSlots` a connect and a disconnect are sequences of writes (`doing`),
since an interrupt handler's `emit` may come between any two. The main loop's own
`emit` is a walk with a step per slot (`emitAt`), so that a slot can change the
list under it. The handler's `emit` runs to its end at one point and changes
nothing, so it is not an action: `InterruptFindsConnected` says, in every state,
what it would find. After a slot has freed the node `emit` stands on, what
`ptNext` reads is undefined: cleared memory ends the walk, memory given out again
leads on to what it holds (`NextCalled`, `cutShort`).

`Dispatch` lets agents' callbacks and slots do all of this to each other. The
engine goes on when the emit and the connect it is inside of are done.

### Messages

`MsgScan` makes at most one call into the queue per action, and `Enqueue` may
come in between. The queue is the one `PeekFifo` promises, in its overwriting
mode: the refinement that `ByteQueueProofs` proves is what allows `MsgScan` to
start from it (under the same proviso: topics published in blocks that spill over
the end of the ring are finding 1). The state of `check_string` is how much of
the name matched; that of `check_arg` is in `arg`, its stale upper length byte
included. `bArgIsString` chooses between topics (counted bytes) and commands
(words). `undisturbed` is history: no byte the scan has looked at has been
overwritten since the cursor was last rewound.

`Topics` adds where messages come from. `publish` is the sequence of enqueues of
`__PUBLISH_TOPIC_n` (`TopicBlocks`), started in the main loop between two calls
of the scan or in a handler; `InterruptPublishes` does all of them at once, at
any time. Lines of text arrive byte by byte, at any time. `published` and
`handled` are history. `NamesApart` says of the constants what the scan relies
on: bytes that are neither counted nor escaped tell where a message begins only if
a name fits nowhere else in them. A message whose arguments hold the name of
another one is taken for it once its own name has been overwritten.

### Shell

A key is one call of `wl_shell_read` with one byte; its `switch` and its escape
states are one action per case. The command queue and the topic queue are
sequences that lose their oldest element; `wl_shell_exec` and `wl_shell_echo` are
what the topic agent calls later. The line buffers are arrays, since what is left
behind the end of a line is compared by `shell_push_history`. Every line a user
can enter in the model is a command; what the scan does with others is `MsgScan`.

### Pools, IPC and printing

`MemPool` follows the pointers of the free lists; `order` and `held` are history.
A pool is used from the main loop only, as its code requires. `pool_free` takes
any item with the key of the pool, as the code does; that callers give back what
they hold, once, is theirs to see to, and `Frees` does. `Printing` is the
one composition of `mem_pool`, `critical`, `event` and `print_str` their
interfaces ask for; the application's tasks are not in the repository. An
interrupt handler sets an event between any two steps, and `wait_event` is two of
them (`TestsEvent`, `ResetsEvent`). `enter_critical_sector` is one: a handler that
comes between its test and its write, and itself enters, must leave before it
returns, so that the task finds what it has tested.

## 3. The runs

| Run | Checks | Instance | Distinct states |
|---|---|---|---|
| `QueueFifo` | `TypeOK`, `RingConsistent`, refinement of `PeekFifo` | ring of 3, two byte values, blocks up to 4; overwriting queues get single bytes | 11 672 |
| `QueueCoverBlock` (violation) | `LengthInStep` | overwriting queue of 4, blocks up to 3 | - |
| `TransferClean` | `AckMeansStored`, `EveryFileArrives` | sessions of 5, 2 and 1 parts; 4 block numbers; the empty name with 0 or 128 bytes; no fault | 137 |
| `TransferEnds` (violation) | `SessionConcludes` | the same sessions, the empty name with 128 bytes; no fault | - |
| `TransferNoisy` | `TypeOK`, refinement of `FileDelivery`, `ReceiverReturns`, `SenderHeldByIdleReceiver` | 2 and 1 parts; two faults of any of seven kinds; slow callbacks on both sides | 492 110 |
| `TransferAcks` (violation) | `AckMeansStored` | one garbling, slow sender | - |
| `FirmwareFaults` | `TypeOK`, `RunsWhole`, `CompletedStarts`, `EndsWhole`, `BootReturns` | 3 sectors, three images, one of them up to the copies; three faults of all six kinds | 533 737 |
| `FirmwareLarge` (violation) | `RunsWhole` | an image that reaches the marks, one power failure | - |
| `Dispatch` | `TypeOK`, `ListSound`, `CursorOnList`, `CursorKept`, `InterruptFindsConnected`, `NothingElseLeaks`, `EmitMissesNone`, `EveryAgentTurns` | 3 agents, 3 connections, 3 nodes, 5 changes | 196 668 |
| `Topics` | `TypeOK`, `HandledInOrder`, `NameInFront`, `NewestHandled` | queue of 12 bytes; 4 topics, or 2 lines | 533 980 |
| `Shell` | `TypeOK`, `LinesEnd`, `HistoryKept`, `RunsInOrder`, `EchoInStep`, `EveryLineRuns` | lines of 4, a history of 2, a topic queue of 3, 3 accepted lines | 436 552 |
| `Printing` | `TypeOK`, `ListFollowsOrder`, `FreeOrHeld`, `ItemsOwned`, `OutputWhole`, `RequestBegun`, `TaskReturns` | 3 tasks on the two items of a pool, an item of another pool, 4 requests | 19 794 |

**Why the bounds are enough.** A ring of three has every relation of head, tail
and cursor (equal, in order, wrapped) and blocks longer than the ring; a ring of
four with blocks of three is the least in which an overwriting block both spills
and must wrap. Five parts with four block numbers make the path packet's number
and the wrap occur within one file. `TransferNoisy` has files shorter than the
block numbers on purpose: with as many parts as numbers, `DeliverySpec` does not
hold (section 5, 7); the code has 256 numbers and a file of 255 parts is 255 KB.
Two faults are a fault and one while it is being repaired; `FirmwareFaults` takes
three, so that a second update can fail twice after a first was cut off. `MaxTry` of 2 reaches
the give-up branch; the retry counter is otherwise only compared with it. Three
sectors are a first, a middle and a last.

Three agents are one being called, one before and one behind it; with five
changes the callback can empty the list and fill it again in another order. Three
nodes for three connections leave none to spare once one leaked, so that `malloc`
fails too. The names of `MCTopics` begin alike, and of the text table one begins
the other; twelve bytes hold two messages and part of a third, so that four
messages overflow in every alignment; an argument list longer than `MSG_ARG_LEN`
of 6 is cut off. A shell line of 4 is full after three keys, a history of 2 is
shifted by the third line. Three tasks on two items and one port make each wait
for either; a string is empty, of one byte, and of more.

**Fairness.** `YmodemTransfer!FairSpec`: each side's main loop calls it for ever,
which is what an agent in the check agent list gets (`EveryAgentTurns`), and time goes on. Nothing
is assumed of the line: faults are bounded, not fair. `FirmwareUpdate!FairSpec`:
the boot code goes on running and somebody keeps sending it files, since
otherwise it waits, rightly, for ever; the application is not assumed to call
`go_to_boot`. Power failures are bounded by `MaxFaults`: with unboundedly many no
update ends. `Dispatch`: callbacks return and the main loop comes back to the
engine; `Topics`: the scan is called again and a publish that began goes on;
`Shell`: the topic agent is called again, while keys need never come. In
`Printing` each task is called for ever (weak), and entering the mutex and
allocating are strongly fair: the main loop calls the tasks in turn, so whoever
leaves the mutex comes behind every other task, and the one that waits longest
finds it free.

Deadlock is checked in every run but two. In `Dispatch` and `Printing` the inputs
(changes, requests) are bounded and the system then rests: `Printing` with all
tasks waiting for an event, `Dispatch` in `LOST`.

## 4. What is proved

TLAPS checks these for every value of the constants.

* `QueueTypeOK`, `QueueConsistent` (`ByteQueueProofs`): no index leaves the
  buffer, no count exceeds the size, and head, tail, cursor and the two counts
  always agree. *Proviso* `MaxCoverBlock <= 1`: an overwriting queue is fed single
  bytes. Both overwriting queues of the repository are fed blocks (`wl_shell.c`,
  lines 114 and 241; `wl_subscribe_publish.c`, line 36), so for them the theorems
  say nothing of a block that spills over the end of the ring: `QueueCoverBlock`
  shows that it cannot be said. *Argument:* `IInv` is `Ranges` with
  `RingConsistent`. Ranges alone are not inductive: that
  `hwLength - 1` does not wrap below zero needs the length in step with the
  indices, and that the cursor may be committed as the new head needs it to be
  inside the queued bytes. `Advance` and `Slot` are related by lemmas first, so
  that each action is a few lines.
* `QueueImplementsFifo` (`ByteQueueProofs`): under the same proviso, and if blocks
  may have a byte at all, every call of the ring is a call of `PeekFifo` with the
  same arguments and the same answer. *Argument:* `Taken` reads the contents out
  of any ring. `TakenPart` says what is left when the front goes, `StoredBehind`
  and `StoredOver` what is there when bytes come in behind, or over the oldest of
  a full ring; each is an argument about one slot, its distance from the tail and
  its place in the sequence. Each call is then one of the abstract actions.
* `TransferTypeOK` (`TransferProofs`): for every list of files, every number of
  block numbers and retries and every capacity of the line, all faults allowed,
  queues, counters, block numbers and parts keep their ranges. The strengthening,
  `Types`, adds what each side can be about to write in which state, and that the
  sender's retries stay within `MaxTry` until it gives up.
* `TransferDelivers` (`TransferProofs`): every step of the two sides is a step of
  `FileDelivery` or none, whatever the line loses, garbles, cuts off or invents,
  whichever writes are refused and however long the callbacks take. *Proviso*
  `FewParts`: no file has as many parts as there are block numbers; limit 7 of
  section 5 is what happens beyond. *Argument:* an answer names no packet, so all
  depends on the order in which the answers stand that the sender has yet to read,
  those queued and the one the receiver has decided on. `AckTalk` says that no
  `ACK` comes behind the `C` that makes the sender start a file, so that none is
  left when it waits for the answer to a path packet, and `PathTalk` that no path
  packet is on its way at any other time. `FileTalk` says that while the receiver
  is in a file the sender is in the same one, or lacks a `C` or an `ACK` on the way
  to its data. `Numbers` makes block numbers the numbers of parts. Each step of the
  receiver is one of three kinds (`ReceiverStepKinds`): it goes on with what it was
  saying or says less, it answers something it read, or it accepts a path packet.
  `TransferOrderly` is the invariant itself, `DeliveryInv`.
* `TransferAcknowledged` (`TransferProofs`): when `ymodem_send` closes a file,
  `ymodem_receive` has stored all of it (`AckMeansStored`), however many packets
  and answers are lost, garbled or cut off, whichever callbacks fail and however
  slow the receiver's are. *Provisos:* `FewParts`, and `TurnsTaken`: the sender's
  callbacks take less than the receiver's timeout, noise makes up no bytes that can
  be taken for others, and no write is refused. Each of the three is needed, TLC
  finds a counterexample when one is dropped; the first of them is the run
  `TransferAcks`. *Argument:* under `TurnsTaken` one side speaks at a time, which
  is `TurnInv`: whoever is about to write has nothing left to read and the other
  one waits for it (`OneTurn`), one arrival at most is on its way, the packet sent
  last or what noise made of it (`InFlight`), and at most the last word about one
  file and a `C` stand in front of the sender (`Replied`). So an `ACK` that is
  queued or decided on answers the packet sent last (`RightAck`), and with
  `DeliveryInv`, by which that packet is of the receiver's file and its number is
  its part's, that part is stored.
* `FirmwareTypeOK`, `FirmwareEndsWhole` (`FirmwareProofs`): for every partition,
  image set and number of faults, all kinds of them, the erase loop stays in the
  partition and `end_to_boot` runs only for a stored image. The strengthening is
  `StoredSoFar`: the first `count` sectors hold the announced image.
* `FirmwareRunsWhole`: only whole images are started. `FirmwareCompletedStarts`:
  a completed update is. Both hold while the update is not `unguarded`: the last
  erase of the marks and the marks written since did not fail, unless by the power,
  and no file followed a completed one. *Proviso* of both: more than one sector,
  and no image reaches the marks. *Argument:* `Safeguards` says that at every
  moment the first sector is blank, or the marks hold the device in the boot code,
  or what would be started is whole, stage by stage; `BootInv` is that, while
  guarded. The three are handed over in the order the code works in: the erase
  begins with the first sector, so a cut-off erase of the marks finds it blank
  already; the start mark is written before the first part; the end mark after the
  last. The erase of the marks is what makes the device safe again after a failure
  nobody noticed, and it can do so because `FirstErased` holds whatever failed
  before: when the erase begins, the first sector is blank.
* `ScanTypesHold`, `ScanNameInFront` (`MsgScanProofs`): whatever is enqueued
  between any two steps of a scan, the bytes that are handled and removed begin
  with the name of the message whose handler runs, unless a full queue overwrote
  them. *Argument:* `NameInFront` says nothing of the time before a name fits.
  `ScanInv` adds `FrontMatched`, that the part found so far is the front of the
  queue and the cursor stands behind it, and `NameOfTable`, that the name being
  tried is one of the table.
* `TopicsTypeOK` (`MsgScanProofs`): for every table, set of messages and queue size
  the queue, the messages and the scan keep their ranges.
* `TopicsHandledInOrder` (`MsgScanProofs`): for every table, set of messages and
  queue size the handlers are called for the messages published, in order and
  once each, with their arguments; none is passed over unless the queue has
  overflowed (`HandledInOrder`). *Proviso* `NamesApart`: a name fits in its own
  messages only, at its place; `MCTopics` has TLC evaluate it for names of which
  one begins the other, and bytes in prefix and arguments that begin like a name.
  *Argument:* a queue that loses bytes in front, whole messages behind it and a scan
  that drops single bytes are three views of one sequence, all that was ever
  published, and `TopicsInv` says how they agree. `Kept`: the queue is the part of
  it behind `pos` bytes, up to the blocks still to come. `Passed`: exactly the
  first `p` names begin in front of what the scan looks at. `InOrder`: the calls
  made are for messages among those `p`. It is inductive only with the promises
  that the scan's rounds rest on: `FirstKept`, that `bIsRequestDrop` is not set in
  a round that has the first byte of a message in front and has got past its name
  (otherwise the byte would be dropped when the table ends), and `Reading`, that
  what `check_arg` has read is what the message in front was published with, byte
  for byte, and where its cursor stands. `WhereNameFits` is the step `NamesApart` is
  for: where the whole table has a name that fits, a message begins, and it is
  message `p + 1`. Both formats are laid out once (`LineShape`, `TopicShape`), and
  what adding up lengths does is left to lemmas about sums.
* `PoolListsFollow`, `PoolItemsFreeOrHeld` (`MemPoolProofs`): the free lists stay
  lists, and each item is free once, in the pool of its key, or held, as long as
  callers free what they hold. *Argument:* `PoolInv` joins the two, since neither
  is inductive alone: following a pointer to the next free item needs each item to
  be in a list at most once, and removing one needs the front of the list to be
  what the pointer says.
* `PrintingItemsOwned`, `PrintingPools`, `PrintingOutputWhole` (`PrintingProofs`):
  for any number of tasks, items and pools, no two tasks have the same
  `print_string`, the tasks free only what they hold, and the port writes whole
  strings. *Argument:* `PrintInv` adds to `PoolInv` that the mutex is taken exactly
  while one task prints (`LockedByOne`) and that what was written is that task's
  string up to the place its item keeps (`OutputUpToPlace`). The lemmas of
  `MemPoolProofs` are used as they are. `PrintingTypeOK` adds the places in the
  strings and the words of the events.
* `DispatchTypes`, `AgentListSound`, `AgentCursorOnList`, `AgentCursorKept`,
  `SignalsInterruptFinds`, `SignalsNothingElseLeaks`, `SignalsEmitMissesNone`
  (`DispatchProofs`): every safety invariant of the run, for any number of agents,
  connections and nodes and any number of changes. *Argument:* what a walk along a
  list meets is stated as the least set closed under the link (`Met`), which a
  proof can use from both sides: a set shown closed holds everything met, and what
  is met is closed. `AgentsInv` says that the links of the agents are those of a
  list without repetition and that the cursor is in it; `SignalsInv` says which
  nodes are in use, in which list, and what each half-done connect or disconnect
  has written so far. The lemmas say what inserting and cutting out one element
  does to the set that is met.
* `ShellTypeOK`, `ShellLinesEnd`, `ShellEchoInStep`, `ShellRunsInOrder`,
  `ShellHistoryKept` (`ShellProofs`): every safety invariant of `Shell`, for every
  character set, line length, history and queue size. *Assumption* besides the
  ranges of the constants: `CharAssumption`, that the characters that can be typed
  are none of the keys the shell gives a meaning of its own. *Argument:* four
  strengthenings, one per concern. `Ranges` adds to the types that the command
  queue, unless empty, ends with a line end: without it `wl_shell_exec` could look for
  one in vain. `EchoFollows` says, stage by stage, what the terminal shows compared with the
  line. `LinesInOrder` lays out the command queue as the rest of a line and whole
  lines behind it, and gives the lines that are still to run, in order.
  `HistoryFollows` says that the buffers are zero behind the end of a line where
  the comparison of whole buffers is right. The least position with a property
  (`strlen`, the end of a line) is found with the well-foundedness of the natural
  numbers (`Smallest`).

**Only model-checked.** Liveness (`EveryFileArrives`, `ReceiverReturns`,
 `SenderHeldByIdleReceiver`, `BootReturns`, `EveryAgentTurns`,
`NewestHandled`, `EveryLineRuns`, `RequestBegun`, `TaskReturns`) is beyond this
prover. Every safety property of a passing run is stated by a theorem.

## 5. Findings

Each is a run that ends in a counterexample, or a limit met while modelling.

1. `QueueCoverBlock`. A block that overwrites and wraps leaves the head at the
   wrong place: line 173 of `wl_queue.c` uses `hwLength` where the overlap is
   meant. Topic and shell queues are created in cover mode, and topics are
   published in blocks.
2. `TransferAcks`. After a slow data callback of the sender the receiver asks
   again, the packet goes out twice, both copies are acknowledged, and from then
   on each `ACK` is one early. If a later packet is garbled the sender drops it
   and closes the file short. The receiver is not misled (`DeliverySpec` holds):
   it never marks such a file complete.
3. `FirmwareLarge`. An image larger than the partition less its trailer is
   accepted, its last part overwrites the end mark, and the partial image starts.
4. `TransferEnds`. The sender's path callback reports 128 bytes for the empty name
   as well (line 21 of `check_ymodem_send_agent.c`), so its acknowledgement does not
   end the session: `ymodem_send` goes on with data of a file that is not there, the
   receiver asks for the next file every 3 s, and each `C` restarts the 10 s wait
   for an answer. With a callback that reports 0 sessions end and repeat
   (`TransferClean`).

Limits that the models or the provisos state:

5. The `C` the receiver repeats every 3 s restarts the sender's 10 s read (line
   818 of `wl_ymodem.c`): `SenderHeldByIdleReceiver` says that a sender which never
   gives up is held in this way, and by nothing else.
6. The repeat of block 255 is not recognised, since 0 - 1 is -1 in `int` (line
   309): the transfer ends with an error.
7. In a file of 256 parts or more a data packet is numbered 0 and may be taken for
   the path packet that ends a session. With two faults the rest of one file can
   then be stored as the next one's; `DeliverySpec` is stated for shorter files.
8. By `BootReturns`, whose exception is real: a power failure while `go_to_boot`
   writes the user data leaves them torn, and the name check then refuses every
   file. An image that runs into the copies fails in its last part however often
   it is sent.
9. By `unguarded`: `go_to_boot`, `start_to_boot` and `end_to_boot` ignore the
   results of their erase and writes. If the erase of the marks or the start mark
   fails and the update is then cut off, or if a second file follows a completed
   one without a reset and is cut off in its first erase, a partial image can be
   started; if the end mark fails, a complete one is not. The next update that
   erases the marks puts this right.
10. By `CursorKept`: a callback that unregisters the only agent, or one that is not
   on the list, leaves the cursor NULL, and the scan then reads through it. By
   `EveryAgentTurns`: an agent that answers `fsm_rt_cpl`, as `search_msg_map` does
   when there is nothing to read, ends the round, and agents behind it starve.
11. By `cutShort`: a slot that disconnects itself frees the node `emit` reads next.
    By `NothingElseLeaks`: a duplicate connect leaks its node.
12. By `undisturbed` and `clean`: an overflow while a handler runs rewinds the
    cursor, the commit removes nothing and the message is handled twice; topics
    published inside one another are garbled. An argument of which a part has
    arrived is taken as complete (line 100 of `wl_msg_check_arg.c`); in binary mode
    a name that begins another is taken for it; a command name that ends an
    unknown line is run (line 75 of `wl_msg_map.c`); eight arguments and the name
    are one more than `argv` has room for (line 102 of `wl_msg_check_arg.c`).
13. By `HistoryKept`: the history compares whole buffers, so bytes behind the end
    of a line make a repeated line a new one, whatever the comment at line 283 of
    `wl_shell.c` says. Enter with the cursor inside a line discards it (line 111).
    By `RunsInOrder`: a `shell_topic` lost to an overflow leaves its line to the
    next Enter. `EchoInStep` leaves out what the echo does not follow: a line
    that was recalled or became too long, keys while the echo is off, a byte read
    before the last one was echoed, and a read of several bytes with an edit among
    them, which is echoed only when all of it is in the line (lines 57 and 136). The
    echo has a pointer to the caller's buffer and reads what is there by then.
14. By `FreeOrHeld`: `pool_free` accepts an item that is free already, and the free
    list becomes a cycle; the tasks of `Printing` free what they hold. By
    the order of `ResetsEvent` and `Takes`: a task that resets its event after its
    work, as manual reset allows, loses a request. The mutex excludes an interrupt
    handler only if the handler leaves it before it returns.

## 6. Not modelled, and why

* Flash drivers: registers, device tables and the address and alignment checks of
  `flash_blob`. Sizes are counted in parts, so that the one-byte write which
  `STM32_FLASH_DRV.c` skips (line 113) and 128-byte data parts (line 914 of
  `wl_ymodem.c`) are out of sight. What a failed or cut-off erase or program leaves
  is in `AppPartition`.
* The formatting in `print_str`, logging and the contents of the path packet: no
  property is about them. The soft timer is a stub of a few lines.
* The state machine macros: syntax for `switch`; every user is modelled through
  what they expand to.
* `modbus` and `service_init` have no code at this commit; the configuration is
  constants.
* Empty files in the middle of a ymodem batch.
* The width of `hwIndex` in `print_str.c`: strings of 65536 bytes or more. The bound
  of `argv` in `wl_msg_check_arg.c`: argument vectors are sequences.
* Reads of several bytes by the shell, and the echo of a buffer that was reused.
* A main loop that stalls outside a callback for longer than a timeout, and an
  interrupt handler that uses a pool, which its code does not allow.

## 7. What is left

* `ByteQueue` with blocks in cover mode that do not wrap and spill at once, which
  is what a topic queue needs: the proviso of `QueueImplementsFifo` is stronger
  than it has to be.
* A device as a whole: `Shell` and `Topics` share the topic queue, which `Shell`
  models as a sequence of topics; composing them needs a smaller abstraction of
  the scan, which `HandledInOrder` could provide.
