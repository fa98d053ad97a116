# A verification project for mirage-kfreebsd

mirage-kfreebsd runs an OCaml program (a Mirage unikernel) inside the FreeBSD
kernel: a loadable module starts one kernel thread, which runs the OCaml
runtime, the Lwt scheduler and a TCP/IP stack written in OCaml on top of the
kernel's network interfaces.

This directory holds TLA+ modules translated from that code, configurations
with which TLC model-checks them on small instances, and theorems about them
that TLAPS checks for every value of their constants. `PROJECT.json` maps every
definition to the lines it stands for, and lists the runs, the mutants that
show each property can fail, the hazards, the findings and the theorems.

    tlc -workers 2 -config MCKernel.cfg MCKernel    # one run
    tlapm NetStackProofs.tla                        # one module of proofs

Paths below are relative to `src/packages/`; `ocaml/` stands for
`mirage-platform/runtime/ocaml/` and `kernel/` for
`mirage-platform/runtime/kernel/`.

## 1. Inventory

How the parts fit together:

    kmod.c ── runs ──> OS.Main.run (main.ml) ── wakes ──> Lwt threads
      │  caml_block_kernel <──┘      │ time.ml: who sleeps until when
      │
    netif_stubs.c <── polls, writes ── netif.ml ── ethif.ml ── arp.ml
      ^ interrupt thread: frames              └── ipv4.ml ── icmp, udp ── dhcp
      │                                              └── tcp/pcb.ml
      │                  per connection: segment.ml, window.ml, ack.ml,
      │                  tcptimer.ml, user_buffer.ml ── flow.ml ── channel.ml
      │
    bigarray_stubs.c, page_stubs.c: the pages frames lie in
    ocaml/*.c: heap, collector, marshalling and the other primitives under it all

There is real concurrency in two places only: between the kernel threads that
load, start and stop the module or take interrupts, and the thread that runs
OCaml. Inside OCaml, Lwt threads switch where they block; everything between
two blocking calls is atomic, and the hard behaviour is what changes while a
thread is blocked. The collector is incremental: its turns alternate with the
program's steps, which is an interleaving too. The rest of the runtime is
sequential; what is hard there is state kept between calls, limits and widths.

| Component | State | Operations | What is hard | What makes it correct |
|---|---|---|---|---|
| Kernel module life cycle (`kernel/kmod.c`) | one word, a thread pointer, the ng_ether hooks | thread body, sysctl `kern.mirage.run`, load, unload | unsynchronised word, lost wakeups, unmapping code in use | one program at a time, unload waits for it, hooks never dangle |
| Main loop and time (`lib/main.ml`, `lib/time.ml`, `caml_block_kernel`) | queue of sleeps, new sleeps, canceled marks | sleep, cancel, restart_threads, select_next, block | sleeps added and canceled while the loop works; overflow of the timeout | nobody is lost or overslept, the loop returns to the kernel |
| Netif driver (`kernel/netif_stubs.c`, `lib/netif.ml`) | plugged interfaces, a locked list of frames each | plug, unplug, input, get_mbufs, put_mbufs | interrupt thread against unplug, chains of mbufs | every frame once, in order, whole |
| Page ownership (`bigarray_stubs.c`, `cstruct_stubs.c`, `page_stubs.c`, `io_page.ml`) | two counts, of the proxy and in each view | alloc, sub, shift_left, finalise, map to mbuf, mbuf free | the collector against the interface's queue, a count changed without atomic instructions | no page freed in use or twice |
| Reception, ARP, IPv4 (`netif.ml`, `ethif.ml`, `arp.ml`, `ipv4.ml`, `icmp.ml`) | ARP cache with conditions, address, netmask, gateways | listen loop, query, input of ARP, output, set_* | answers while queries wait, configuration that changes meanwhile, the loop waiting on itself | packets go where they are routed, waiters are answered |
| TCP tables (`tcp/pcb.ml`) | channels, listens, connects, listeners | connect, listen, SYN, SYN-ACK, ACK, RST, timers, close of listeners | timers that outlive what they time, re-used ids | one connection per id, nothing half open for ever, connect returns |
| TCP transmit (`segment.ml` Tx, `window.ml`, `tcptimer.ml`) | retransmission queue, windows, timer | output, ACKs, duplicate ACKs, expiry | partial and old ACKs, lost timer starts, fast recovery | queue = what is in flight, it is acknowledged or given up |
| TCP receive (`segment.ml` Rx, `user_buffer.ml`, `ack.ml`, Rx and Tx threads) | segments ahead, bounded buffer, delayed ACK | input, receive thread, read, ACK threads | overlap and reordering, blocking at the limit, ACKs crossing | the application gets the stream, ACKs and window tell the truth |
| TCP sequence numbers (`sequence.ml`) | none | comparisons, addition | wrap-around | the comparisons order what is within half the space |
| Major heap (`freelist.c`, `memory.c`, `major_gc.c`, `compact.c`, `gc_ctrl.c`) | chunks, a free list with places remembered in it | allocate under two policies, grow, sweep, compact, set the policy, count | a remembered place that another operation makes stale; fragments; the compactor's estimates | live blocks are disjoint and keep their words |
| Collector (`minor_gc.c`, `major_gc.c`, `memory.c`, `weak.c`, `finalise.c`, `globroots.c`) | colours, stack of gray values, tables of remembered fields, weak list, finalisers | minor collection, mark, sweep, caml_modify, weak get and set, finalise, global roots | the program changes the graph between turns; the gray stack overflows; three kinds of roots | nothing reachable is freed, nothing reachable is finalised or erased |
| Marshalling (`extern.c`, `intern.c`) | marks in the heap, output blocks, trail | output to blocks, to a buffer, input | marks must be undone on every failure; sizes announced before the data | reading what was written gives the value back |
| Comparison, hashing (`compare.c`, `hash.c`) | a growing stack | compare and six tests, hash | a stack that overflows; cyclic data; abstract blocks | a total order; equal values hash equally |
| Integers (`ints.c`, `custom.c`) | none | arithmetic, parsing, conversion | width, division by -1, detection of overflow | the result modulo the width, or the exception |
| Bigarrays as arrays (`bigarray_stubs.c`) | dimensions, layout | create, get, set, sub, slice, fill, blit, reshape, compare, marshal | products that overflow, two layouts | every element where its index says |
| Tables (`globroots.c`, page table, `roots.c`, `callback.c`, `custom.c`) | skip lists, hash tables | insert, remove, look up, walk the stack | probing, resizing, removal | what was put is found, in order |
| Lexer, parser, MD5 (`lexing.c`, `parsing.c`, `md5.c` with their drivers) | positions in a buffer, stacks, a block | refill, run, recover, update | chunks that split a token or a block; nested parsers | chunks do not show in the result |
| Channels (`io.c`) | buffers, a list, counts | output, flush, finalise | buffers at their limit | bytes once and in order |
| Checksum, calendar (`checksum_stubs.c`, `clock_stubs.c`) | none | sum of views, date | odd lengths, leap years | RFC 1071, the calendar |
| TCP state machine (`state.ml`) | a state | tick, two timers | the closing states | as far as it is ticked it is part of TcpPcb |
| DHCP client (`dhcp/client.ml`) | a lease state | input, discovery thread | late answers, its own sleeps | a lease answers its own request |
| Flows and channels (`flow.ml`, `channel.ml`), UDP, manager, wire formats | a buffer, a table, none | | little that is shared | bytes in order |

`sliding_window.ml` is used by nothing. Build files, tests and DTrace scripts
have no run-time behaviour of their own.

## 2. How the project was laid out

In this order, most important behaviour first: the life cycle (Kmod); the
transmit half and its numbers (TcpTx, TcpSequence); the receive half (TcpRx);
the tables of connections (TcpPcb); reception and ARP (NetStack); the scheduler
whose fairness the modules above assume (MainLoop); the driver and the pages
(Netif); the heap with its abstract specification (Heap, Allocator) and the
collector (Gc); the primitives that compute (Primitives and the modules it
composes). Each component about which something is proved has its proofs in a
module of its own, except that those of TcpSequence are with TcpRx, which uses
it, and those of Kmod, MainLoop and Netif are together in KernelProofs: hence the names
KmodInit, KmodNext, LoopInit, LoopNext and so on of the first two.

What would come next: the DHCP lease against late answers and its own sleeps;
the write path of a flow, which waits for the window and then writes, with
`channel.ml`; a reliable byte stream as an abstract specification that TcpTx
and TcpRx implement over a lossy wire.

## 3. Modules

Every module has the state as VARIABLES, one action per operation, and a step
for what the code does without another actor coming between. Mutants (comments
"Mutant: ...") are wrong versions of an operator of the module and are used by
no specification; they serve to show that a property can fail.

### Kmod

The kernel thread, the writers of the sysctl, and the loader thread share
`state` (`mirage_kthread_state`) without a lock, so a step is one access to the
word or one call that may block. `pc` is where each kernel thread is in
`mirage_kthread_body`, `wpc` where a writer is in the sysctl handler, `mod`
where the loader is. `BodyWakeup` reaches a loader that sleeps and no other:
that is what makes a lost wakeup possible. A MOD_LOAD that finds the hooks in
use takes them all the same and fails (`mod` is "failed"); the kernel answers a
failed load with a MOD_UNLOAD, and until that comes the sysctl may be written
and a program started. An unload clears the hooks (`UnloadUnhook`, after which
`mod` is "draining") and ends later, when the handlers of the sysctl are out
and the text is unmapped (`UnloadUnmap`): a thread that still needs the text is
then an orphan, and what it does next takes the machine down (`BodyFault`).
`ngEther` and its two actions are the kernel's own ng_ether(4), which is loaded
and unloaded at any time and takes and clears the same hooks without looking at
them. `RunInit` may fail to make a thread and stores THR_STOPPED all the same.
A frame that read a hook before it was cleared and is still inside
netif_ether_input when the text goes is not modelled.

### MainLoop

`sleep` holds the records of `time.ml`; `in` says whether a record is still in
`new_sleeps` or in `sleep_queue`, and the priority queue is the set of those
with its minimum (`FirstSleep`). `thread` says which Lwt threads are ready: Lwt
resumes a thread inside `Lwt.wakeup`, so the loop goes on only when none is
(`Quiet`). `Restart`, `DropCanceled`, `RestartEnd`, `Select`, `BlockKernel` are
`aux` of `main.ml`; `Ticks` is the argument of `pause` as C computes it, with
the width of an int a constant.

MCKernel composes the instances of Kmod and MainLoop for TLC. OS.Main.run never
reads the shared word, and the kernel thread reads it only between two calls,
so that one of the two moves while the other rests, the module not loaded or
the program ended: the product of their states would show nothing more.

### NetStack

The receive loop (`Poll`, `Input`) takes frames one after the other and runs
the handler of each, which may send and so may wait for a hardware address;
other threads send (`Send`). `cache` is the ARP cache: an address, `Incomplete`
with its condition, or nothing. A thread waits on the condition (`wait`), has
been woken with an address (`woken`), and sends later (`Resume`), since
`Lwt.wakeup_later` and the frame being handled put other steps in between.
`Configure` are set_ip, set_netmask and set_gateways.

### TcpPcb

`channels`, `listens`, `connects`, `listeners` are the tables of `pcb.ml`;
`channels` is a sequence for each id because `Hashtbl.add` hides and
`Hashtbl.remove` uncovers. `pcb`, `call` and `timer` are the connections, the
callers of connect and their SYN timers. The timer of a handshake is
`Timeout`, enabled while something is in flight: `TcpTx` says when it is.
An output may wait for a MAC, and for ever, so what a thread does before and
after it are two actions: `Connect` and `SynOut`; for a round of connecttimer,
`ConnectTimerRexmit` and `SynResent`, between which `sending` holds and the
timer does not sleep; for the handler of a SYN-ACK, `SynAck`, which takes the
caller out of `connects` and makes the connection, and `AckOut`, which wakes
the caller. In between the caller's `res` is "acked" and `conn` is the
connection the handler has for it.

### TcpTx

One connection's transmit half. `segs` is the retransmission queue, `rto` the
thread that takes ACKs from the mvar `tx_ack` and clears segments one by one,
`timer` the retransmission timer. Sequence numbers are natural numbers here;
TcpSequence shows when the 32-bit comparisons agree with that. `wire` is a
history variable: what went out under which number. A write of more than a
segment asks the window once and is then sent segment by segment (`Write`,
`OutputGranted`; `granted` is what is left of it), whatever happens to the
window while a segment waits; one such write is under way at a time.

### TcpRx

One connection's receive half. A segment is an interval of the peer's stream,
`waiting` the set of segments ahead, `rx_data` the mvar to the receive thread;
`Walk` is the loop of `Rx.input` over the sorted segments, one step for each;
the user buffer has its blocked writer and its waiting reader, `Ack.Delayed`
its timer. `Lwt_mvar` is a queue that includes its blocked writers. `Half` is
half the sequence space: with 64 nothing wraps, in `MCTcpRx_wrap.cfg` it does.

**ByteStream** is what that half promises the application: a stream that
arrives without a gap, is read up to where it has arrived, and is said to have
ended when all of it was read. `IsByteStream` (INSTANCE ByteStream WITH the
place up to which everything was received, the place the application has read
up to, and whether it was told of the end) says that TcpRx implements it.

### TcpSequence

The operations of `sequence.ml` on a space of any even size.

### Netif

The driver and the pages together, because what they share is who frees a page.
Each interface has an interrupt thread, which finds the plugged interface
(`EtherInput`) and queues its frame later, under the lock (`EtherQueue`): an
unplug fits in between. The program plugs, unplugs, fetches frames, writes
(`PutMbufs`, then `MapRead`, `MapWrite` for each mbuf, then `Output`) and
finalises views; its increments and decrements of `u[0]` are a read and a
write, into which the interface's `MbufFree`, an atomic decrement, can fall.
A `page` remembers whether it was ever cut into views, the proxy's count and
what `contigfree` was given. An mbuf is its packet, its place in the order of
mapping, its view, and where that view began (`Mbuf`); the mbufs of the view
being mapped, of the packet, and those dropped behind a first one are sets
(`frag`, `pkt`, `rest`), as is the interface's queue (`flight`).

### Heap and Allocator

Heap is `fl` (the blocks, and the free list with `caml_fl_merge`, the last
fragment, and the table of the first-fit policy), `chunks`, the sweeper
(`phase`, `sweep_hp`, `chunk`) and a history variable `live`, the blocks given
out and not dropped. An action is a call of the program (allocate under the
policy in force, with growth when nothing fits; set the policy), one turn of
the sweeper, or a compaction. Marking is an outcome: the set of blocks that
stay. Of the table of the first-fit policy, PlacesAreCurrent asks that every
entry leads to a free block and that they are in order (FlpLeads), which keeps
a search inside the list. That they are the places a search would find afresh,
so that no block that fits is passed over, is more (FlpIsFirstFit). It is what
`fl_check` asserts when a sweep begins (FlCheckPasses), and the code does not
keep it once the table has been full: `heap_table` is a finding.

Allocator is what a program may rely on: a block is made of words that nobody
else holds, and keeps them until it is dropped or moved down by a compaction.
`IsAllocator` says that Heap implements it, with `live` as `live`.

### Gc

Both heaps with their fields, the program's roots, and everything that is kept
between turns: `gray`, `pure`, `markhp`, the remembered fields `ref_table` and
`weak_ref_table`, the list of weak arrays with the place the marker has reached
in it, the three parts of the finalisers' table, a generational root and the
lists it is in. The program allocates, stores (`caml_modify`), loads and drops
between any two slices of the collector; a turn of mark_slice or sweep_slice is
a step. Sizes and free lists are Heap's: here an address holds one block. What
a collection may erase of a weak array is asked of every step in which one is
at work (`Collects`: the minor heap is emptied, the place in the weak list or
the phase moves), also of a minor collection that moves the values of roots.

### Primitives, and the modules it composes

The parts of the runtime that compute are operators, each against a reference
definition: **Marshal** (writer and reader, with the marks the writer leaves in
the heap and takes back), **Compare** (compare.c, hash.c, on Marshal's graphs),
**Numbers** (ints.c), **Bigarray**, **Tables** (skip lists, page table, frame
descriptors, named values, custom operations), **Engines** (lexer, parser,
MD5; a semantic action may raise Parse_error, as a bad value of a `strict` rule
does, and recovery then starts after a reduction that pushed nothing),
**Channel** (output channels), **KernelStubs** (checksum, calendar). An
action of Primitives is one call on an input of a small set, or, for the tables
and the channels, one more operation on them; its state is the call and what it
returned, so that a property is a statement about every reachable call.

## 4. Runs

| Run | Checks | Shows |
|---|---|---|
| `kernel` | AtMostOneProgram, HooksPointToCode, StopIsOrderly, SleeperIsFoundOnce, BlocksUpToDeadline, RunReturns, SleeperIsWoken | three starts against any loads, failed loads and unloads of the module and of ng_ether: one program at a time, no hook left in text that is gone, a stopped program leaves its loop and is finalised before the unloader wakes; two threads sleep, yield, end, cancel each other: every sleep is found once, none is overslept, the loop returns, sleepers wake |
| `net_stack` | WaitersAreIncomplete, SentToClaimant, WaiterIsAnswered | two senders and the receive loop against answers in any order and a configuration that changes |
| `tcp_tx` | QueueIsInflight, WireConsistent, TimerArmed, AckedOrAbandoned | any ACK number against output of segments and of longer writes, FIN, timers and retransmission |
| `tcp_rx` | StreamIntact, WindowIsFreeSpace, NothingIsForgotten, ReceivedIsRead, IsByteStream | segments in any order and number with a buffer smaller than the stream, ACKs delayed, pushed and piggybacked; everything received is read; the application sees a byte stream |
| `tcp_pcb` | OneChannelPerId, HandoverIsSound, ConnectReturns | two connects, two connections, two listens on one listening and one local port, outputs that wait for a MAC, also for ever |
| `netif` | FramesInOrder, CountCoversUses, PagesOutliveViews | two interfaces with their interrupts against plug, unplug, reading, writing and finalisation |
| `heap` | HeapIsWellFormed, PlacesAreCurrent, IsAllocator | two policies, growth, sweeping, compaction: no word is lost or given out twice, the merge point is where the sweeper would look for it, the entries of the table lead to free blocks in order |
| `gc` | NothingDangles, WorkIsFound, OnlyDeadAreDropped | loads and stores between the turns of a collector whose gray stack overflows; values kept by a root, by a major block, by a weak pointer or not at all are moved by minor collections |
| `primitives` | RoundTrip, WriterIsContained, ComparesInOrder, NumbersAreExact, ElementsArePlaced, LookupsFind, TokensAreMaximal, ParsesTheGrammar, ChunksDoNotShow | every input of the small sets, every sequence of updates of a table |
| `tcp_pcb_active` (violation) | ActiveUntilClosed | the timer of a replaced handshake drops an established connection |
| `heap_table` (violation) | FlCheckPasses | a search past a full table leaves `beyond` behind a block that belongs in the table |
| `primitives_checksum` (violation) | ChecksumIsRFC1071 | a view of odd length before another is padded in the middle |

Six more configurations have TLC exhibit a deviation of section 7 that
no text of the repository denies, and so are no findings; each ends in a
counterexample:

| Configuration | Property | Counterexample |
|---|---|---|
| `MCKernel_unload.cfg` | UnloadCompletes | the wakeup between the store of THR_STOPPED and `tsleep` is lost |
| `MCNetStack_reception.cfg` | ReceptionGoesOn | the receive loop waits for a reply only it could handle |
| `MCTcpRx_window.cfg` | WindowIsOfSegment | a segment with nothing ready after it reports a window of 0 |
| `MCTcpRx_wrap.cfg` | AheadIsKept | where numbers change sign a segment ahead is dropped as old |
| `MCGc_weak.cfg` | WeakIsSound | a finaliser revives a weak array whose fields point to what was freed |
| `MCPrimitives_forward.cfg` | SharedForwardRoundTrip | the mark left in a forward is read as the value behind it when it is met again |

CHECK_DEADLOCK is FALSE everywhere: a machine that is down, a stream that has
been sent, a program that has ended, a call that has returned and bounds that
are used up are all states in which nothing more need happen.

**Bounds.** Each is a constant with a comment and a guard.

*kernel*: three threads are a start, a restart and one more; one writer, because
a second one is a deviation (section 7). For the loop, two threads and four
sleep records, so that canceled records stay behind while their thread sleeps
again; delays of 0, 1 and 5 with `IntHalf` 10 at 2 ticks of 2 units a second: 5
overflows the product, the idle sleep 24 overflows the int as 86400000000 does,
and what remains of 5 later does not; the clock stops at 5, when a deadline can
no longer be set.
*tcp_tx*: MSS 2 and three numbers beyond the SYN give segments that an ACK can
split and a write of two segments, `Windows` holds 0 and one larger than cwnd, a
retransmission is followed by the abandonment, four duplicates pass the
threshold of three and go on.
*tcp_rx*: a stream of three bytes and a FIN with a buffer of two and segments
of none or one fills the buffer beyond its limit, which blocks the writer, and
lets segments come early, twice and empty; the window of an ACK does not
influence the receive half, hence one value. A chunk is smaller than the
buffer: see section 7.
*tcp_pcb*: two of everything meet on one id in every order; `MaxSynRexmits` 0
is one retransmission of the SYN. The run has a port of either kind; nothing in
the code or the proofs keeps a listener off the ports of connect (`pcb.ml:475`
starts at 10000, `pcb.ml:520` takes any port), and an instance in which both
use one port, of 8 million states, was checked as well.
*net_stack*: two senders and the loop can all wait on one entry, the second
neighbour shows that only those of one are woken; one frame is queued at a
time beside the batch being handled.
*netif*: two interfaces, one page of two mbufs, three views, six calls or
frames: enough for a page that is cut, written through two views and freed
while mbufs are in flight, and for an unplug and a second plug during an
interrupt; a frame has one or two fragments.
*heap*: ten words, chunks of four, requests of one, two and four words: blocks
leave fragments of no and of one word, the table of the first-fit policy (two
entries, 1000 in the code) fills, and chunks come below and above each other.
*heap_table*: chunks of four and more words, requests of four and five, a table
of one entry: four free blocks, of which the third is larger than all before it.
*gc*: two blocks in the major heap, one in the minor, one field, two roots that
are alike (symmetry): the smallest heap in which a black block can be made to
point to a white one while both collections and an overflow of the gray stack
(two entries) are under way. Programs with weak arrays have a third address of
the major heap (`M` 3) between two major collections, and none while one is
under way (`Room` 2): a minor collection then has room for a value that a weak
pointer leads to, whether a root keeps it, a block of the major heap does or
nobody. A program uses one of weak arrays, finalisers and generational roots at
a time; both together are the deviation that `MCGc_weak.cfg` shows.
*primitives*: constants of the code are scaled so that every form and limit is
met by small inputs (a byte is below 4, a word has 6 bits, an output block 24
cells, the comparison's stack begins at 2 and ends at 8 items, a table is
resized by the third entry).

**Fairness.** What the Lwt scheduler does is what MainLoop shows: a sleep ends
(SleeperIsWoken), the loop returns (RunReturns), and a woken thread runs. So
TcpTx, TcpRx and NetStack assume weak fairness of their threads and timers and
nothing of the peer, except in NetStack, where the hosts of `Answering` answer
without loss, and TcpRx, where the application keeps reading. TcpPcb assumes
only that timers expire, and nothing of an output that waits for a MAC:
ConnectReturns is conditional on no output for that caller waiting for ever. Kmod assumes that the FreeBSD scheduler runs every
runnable thread. MainLoop assumes that, that time passes, and that an Lwt
thread, once woken, reaches its next blocking call. Netif, Heap, Gc and
Primitives state no fairness and claim no liveness: an interface need not send,
a collection need not be run.

## 5. Proofs

The theorems hold for all values of the constants allowed by the named
assumptions (`ThreadsAssumption`, `TxAssumption`, `PcbAssumption`, ...).

* **KernelProofs**, Kmod. KmodTypeOK; AtMostOneProgram with one writer; HooksPointToCode, for which
  HooksInv adds that an unload that waits for its text to be unmapped has
  cleared them;
  WokenAfterFinalize, the action half of StopIsOrderly, with one writer. The
  word alone is not inductive: BusyThread adds that a thread that runs or is
  about to keeps the word away from THR_NONE, that a writer between its test
  and its kthread_add saw no such thread, and that an unloaded module has none.
* **KernelProofs**, MainLoop. LoopTypeOK, SleeperIsFoundOnce, BlocksUpToDeadline. Found
  makes sleeping threads and live records one to one, record by record;
  QuietInv says that once the loop leaves restart_threads nobody runs, so that
  after Select every record is queued and the minimum is one of all sleeps.
  The arithmetic (ToIntBounds, TicksBound): an int is at most the natural it
  holds, so an overflow can only shorten the sleep.
* **KernelProofs**, Netif. CountCoversUses, PagesOutliveViews and FramesInOrder,
  with no assumption but that the sizes are natural numbers. The counts alone are not inductive.
  What a finaliser or netif_map_to_mbuf has read and not yet written may have
  fallen since, and covers the uses all the same (Releasing, Counting). Of a
  page that is held, by a view or by the finaliser of the last one, every dead
  view is over-counted by one, as its finaliser stopped at the proxy (HeldInv);
  of a page that nobody holds all are but the one that died last (LeftInv): only
  that one's count can come to zero, and whichever of its finaliser and its
  last mbuf is second gives the page to contigfree, once. CountInv bounds the
  counts by what the calls so far can have mapped. FramesInOrder has an
  invariant of its own (OrderInv): the list of an interface falls in arrival
  order and is empty while it is unplugged; what the program has is older; the
  frame that its interrupt thread holds is younger than both (Line); and no frame
  is in two lists or held by two threads (Apart), without which unplugging one
  interface could free a frame of another. ConsedIs then says of any falling list
  that caml_get_mbufs gives its frames rising, each with all its fragments.
* **NetStackProofs**. WaitersAreIncomplete and SentToClaimant, for any hosts,
  threads, and configurations: what is in the cache, and in a thread that was
  woken with it, was given for that host (KnownInv), and a waiter waits on an
  entry that is Incomplete (WaitersInv), so that an answer finds it.
* **TcpPcbProofs**. OneChannelPerId: every row of the tables is under its own
  id (ChannelIds, HandshakeIds) and an id is in at most one of the handshake
  and the active table when it is filled, with the sequences of `channels`
  kept at one element.
  HandoverIsSound, which is TypeOK, HalfOpenTimed, CallersAreRegistered,
  OneHolder and OpenStreamListens, whether or not a port is both a listener's
  and connect's. The invariant adds four facts: a timer belongs to a call
  (TimersAreCalls); a listener and a handshake name streams that were opened,
  for their port (ListenersHaveStreams, HandshakesHaveStreams); on a port that
  connect does not use, an id with a handshake has nothing in the active table
  (Sides), so that clearpcb finds what it is to clear; and who holds a
  connection (Holders): a handshake, the handler of a SYN-ACK for its caller,
  a stream or the application, and only what was made. On a port of connect's a
  SYN-ACK can fill the row over a handshake, whose timer then clears the wrong
  table: HalfOpenTimed is not claimed there (section 7).
* **TcpRxProofs**. StreamIntact, WindowIsFreeSpace, NothingIsForgotten,
  IsByteStream (the refinement, step by step), and the parts DelayedIsTimed and
  WindowFollowsCount, for any stream, windows, buffer and segments. The proof
  follows a byte: the walk over the sorted segments makes items that join
  rx_nxt to rx_nxt_inseq (WalkInv), the items and what the receive thread
  carries cover the stream between those marks (Marks), and the user buffer
  with the chunk in hand covers it down to what was read (Buffered). The
  theorems about the walk assume NoWrap, that the stream does not reach the
  place where the numbers change sign. That is where the code is exposed and
  no more: `segment.ml:121` sorts and drops by `Int32.compare`, so there an old
  segment that still waits is taken for one ahead (`MCTcpRx_wrap.cfg`);
  DelayedIsTimed and WindowFollowsCount do without.
  The module begins with the numbers themselves: DifferenceExact, OrderExact,
  BetweenExact, AddExact say that for numbers within half the space of each
  other the wrapped comparisons of TcpSequence are those of the numbers that
  were wrapped; with TcpTx they justify natural numbers there.
* **HeapListProofs**, **HeapProofs**. HeapIsWellFormed, PlacesAreCurrent, and
  IsAllocator, the refinement of Allocator step by step, for any memory, chunks,
  requests and size of the table, both policies, and every order of calls. The
  invariant IInv is a conjunction over the record `fl` and the chunks. Of the
  list: it is the blue blocks in the order of their addresses (Linked, written
  without the walk: every node leads to the next block after it), the size
  counts their words, `merge` and `prev` are in it (Threaded), and the table's
  entries are nodes in order, each with a block after it (Tabled). Of the
  memory: the blocks fill the chunks (Tiled). Of the collector: the sweeper
  stands at a header or at the end of its chunk, the merge point is the last
  node before it, and a fragment that ends at it is still one (SweepAt); black
  is what was allocated while marking or lies ahead of the sweeper (BlackIn);
  `live` is what the colour and the place of the sweeper say is in use (LiveIn).
  HeapListProofs shows what every operation of the free list does to the first
  part: the list as a sequence is the sorted nodes (ListIs), a search returns a
  node and a block after it that fits (NextFitIs, FirstFitIs), the repair of the
  table keeps it in order (TableIs, UpdatedIs), an insertion and a merge with a
  fragment, a free block before and one after keep the list (InsertIs, MergeIs).
  HeapProofs has a lemma for each action. A compaction needs two walks: the
  allocation it rehearses gives out words of the chunks from the left, without
  overlap and never above where the object was (LaidOut, Packing), and the free
  list is built again chunk by chunk (Rebuilt). That statistics add up is a sum
  over the words of memory, each of which lies in one block (CoverSum).
  HeapAssumption asks of the sizes that a first chunk and an increment are
  larger than the header and fields of a small object (`Slack`); in the code they are
  pages. A compaction that runs off the chain of chunks ends in "panic", as in
  the model: nothing is claimed beyond it but that the heap was not changed.
* **GcProofs**. NothingDangles, WorkIsFound and OnlyDeadAreDropped, for any
  heaps, fields, roots and sizes of the gray stack and the tables. None of the
  three is inductive. Safe is what this collection will not free: while marking,
  what is marked and all that the marker will come to from there (Marked, a
  least closed set); when idle, everything; in a sweep, what the sweeper will
  pass. The invariant says that the roots, the fields of what is safe, and the
  weak fields still to be cleaned lead only to what is safe (RootInv,
  ClosedInv, WeakInv), that every pointer to a young block from an old one is
  remembered (RememberInv), that outside a sweep no block, dead or not, points to a free one
  (HeapInv), that the generational root is in a list that will be scanned
  (GenInv), and that finalised values passed over by caml_final_update are
  marked (OldInv). The core of the argument is that darkening loses
  nothing, whether the stack takes the block or overflows and leaves it to the
  walk (DarkerKeeps), and that a field overwritten while marking stays marked
  because caml_modify darkens the old value (ModifyMajor). The assumption is
  NotBoth: no program uses both weak arrays and finalised values. It holds of
  all programs of `MCGc.cfg`; without it the claim is false of the code, which
  is what `MCGc_weak.cfg` shows.
* **TcpTxProofs**. TypeOK, CwndFloor, QueueIsInflight, WireConsistent,
  TimerArmed, RecoveryHasInflight, AckedPrefixGrows, from one invariant: the
  queue is a chain from `Cut` to `tx_nxt`. In the loop clearsegs what the ACK
  has cleared is off the queue and not yet in snd_una, which `Cut` accounts for.

Only model-checked: every liveness property (fairness and ENABLED are out of
the prover's reach); and Primitives, whose engines are compared with their
reference definitions on bounded inputs.

The library's induction theorems take an operator as a parameter, which no
installed prover can instantiate. Where a recursive function had to be
unfolded (the walk of TcpRx, the list that caml_get_mbufs conses, Reach and ShadeAll of Gc, the list, the sums and
both walks of a compaction in Heap) the induction is over a set instead: SetInduction
follows from the well-foundedness of the naturals, and gives that the function
exists and what it is at each step. No module with proofs uses RECURSIVE.

## 6. Abstractions common to the models

* A handler is atomic except where it waits; what it logs and formats is left
  out, and the checksum is in KernelStubs only.
* `Lwt.wakeup_later` (mvars, conditions, streams) only queues the thread it
  wakes, so the hand-over and the resumption are separate steps.
* A packet is a record of what the properties tell apart.
* Allocation succeeds in OCaml; in the C code its failure is an outcome where
  the code tests it and it changes what follows (kthread_add, the trail and the
  blocks of extern.c, an mbuf).
* A lookup in a packed table (lexer, parser) is a function.

## 7. Known deviations

Three are findings with a run: `pcb.ml:202`, `freelist.c:253` and
`checksum_stubs.c` (section 4).
The others are present in the models, or left out of them as said, and, but
for that of Weak.blit below, are not contradicted by any text of the repository.

*Life cycle and scheduler*

* `kmod.c:136` the wakeup is lost when the body finishes between the store of
  THR_STOPPED and the tsleep (`MCKernel_unload.cfg`).
* `kmod.c:135` a thread that was launched but has not stored THR_RUNNING is
  invisible to the unloader; the module can go under it (orphan, BodyFault).
* `kmod.c:122,172` a failed kthread_add leaves THR_STOPPED for ever and launches a
  NULL or an old thread.
* `kmod.c:193-204` a load that fails, because ng_ether has the hooks, takes them
  from it, and the unload that follows clears them: ng_ether stays without.
* `kmod.c:167` two writers of the sysctl can both see THR_NONE: kthread_add
  may sleep. AtMostOneProgram is claimed for one writer.
* `kmod.c:231` pause is asked for a negative or far too small number of ticks
  when `block_timo * hz` overflows; the loop then only polls more often.
* The clock is wall-clock time: set back, every deadline moves away. MainLoop's
  clock only goes forward.

*Network*

* `lib/netif.ml:93` the receive loop waits for each handler, and a handler
  that sends may wait for an ARP answer (`MCNetStack_reception.cfg`).
* `arp.ml:184` a probe is sent once and an entry never expires; `pcb.ml:513`
  connect starts its timer only after the SYN is out.
* `ipv4.ml:176` an old address is answered for after a new one is set.
* `pcb.ml:86-90` close outputs a FIN without Send_fin: the closing states are
  never entered, data and another FIN can follow, and a connection leaves the
  active table only by RST or by its timer.
* `pcb.ml:298,347,492` connect does not return while an output for it waits for
  a MAC: the timer sleeps again only after its output, and once a SYN-ACK has
  taken the entry only the handler knows the caller.
* `pcb.ml:520` listen takes any port: on one of connect's, the timer of a
  handshake can clear the connection of the same id and leave the handshake.
* `pcb.ml:387` a listener closed during a handshake leaves a connection that
  nobody owns; `pcb.ml:450` closelistener closes what listens on the port now.
* `pcb.ml:475` with all ports in use bumpport never returns.
* `segment.ml:102` the window of a segment with nothing ready is taken as 0
  (`MCTcpRx_window.cfg`); `segment.ml:121` segments are ordered as plain
  integers although they wrap (`MCTcpRx_wrap.cfg`).
* `segment.ml:90` a FIN is noticed only as the last of what became ready at
  once; `ack.ml:134` an ACK that was sent is noted later, and what was received
  in between counts as acknowledged until more comes.
* `user_buffer.ml:57` a chunk as large as the receive buffer, written while
  anything is unread, would wait for ever; TcpRx assumes `MaxLen < MaxRxWnd`.
* `netif_stubs.c:261-268` the interrupt thread finds the interface before it
  takes the lock; caml_unplug_vif (233-246) may have freed it. In the model the
  frame is lost; what the write into freed memory destroys is not modelled.
* `netif_stubs.c:265-267` two mallocs are not tested; `:296-311` fragments of a
  frame are prepended, last first; `:407-408` fragments that could not be
  mapped are dropped; `:365` the first failure frees a pointer that was never
  set; an empty view (`icmp.ml:45` sends one) does the same. The model has
  views that are not empty and writes whose first mbuf is there.

*Pages*

* `bigarray_stubs.c:1003` a page that was cut into views is never given back
  whole: the last view frees its own part, or nothing.
* The release of the last mbuf frees from the middle of a page when its view
  did not begin the page; `u[0]` is changed by the program without atomic
  instructions. CountCoversUses says the races only lose memory.
* `bigarray_stubs.c:235-237` a view of a received fragment takes the address of
  the data for that of the mbuf.

*Runtime*

* `major_gc.c:260` what a finaliser keeps alive is marked after the weak arrays
  were cleaned: an array reached from there keeps pointers to what is freed
  (`MCGc_weak.cfg`).
* `weak.c:185-192,204` Weak.blit, called in the subphase that cleans the weak
  arrays, erases a pointer to a white value although a gray one that Weak.get
  returned leads to it, where `weak.mli:23-25` says that a value is erased when
  it is not used any more. It takes two weak arrays and two fields, an instance
  of Gc that is too large to be a run; WeakIsErasedDead is about what
  collections erase.
* `globroots.c:207-218` a generational root whose value changed heaps is
  removed from the list of the heap its value is in now; Gc has the lists it
  really is in.
* `freelist.c:250-256`: once the table of the first-fit policy is full, a slow
  search moves `beyond` to every block smaller than the last entry's, also past
  a larger one that belongs in the table. When the table has room again, the
  next extension starts at `beyond` and passes over that block; a request that
  it fits then grows the heap. No block is lost (HeapIsWellFormed,
  PlacesAreCurrent). In `heap_table`, with a table of one entry where the code
  has 1000, free blocks of 2, 3, 1 and 2 words and a request of 4 leave `beyond`
  at the third, and the assertion of `freelist.c:86` fails at the next sweep.
* `compact.c:136-138` compact_allocate looks at the chunk after the last one
  when every chunk is nearly full; the test of a negative estimate (425) is made
  on an unsigned number and never holds. `gc_ctrl.c:485` divides by the words in
  use, which are zero when the whole heap is free.
* `extern.c:320-330` looks behind a forward before it looks at the colour: when a
  forward that was kept is met again, its field holds the number of the object
  (126) and that number is taken for the value (`MCPrimitives_forward.cfg`);
  closures are written with addresses that
  no reader accepts.
* `sys.c:59-66` every read, seek, size and close of a channel ends in a message
  that is NULL; a channel that is finalised loses what is in its buffer.
* `bigarray_stubs.c`: an int64 array is marshalled without its elements and the
  reader leaves data2 unset; what is kept as the size of an array is the sum of
  its dimensions (244-245); a negative number of dimensions is not refused; the product
  of reshape wraps.
* `parsing.c:224`, when an action raises Parse_error right after the `error` token
  was shifted (errflag 3) the engine goes on without a value for that reduction; for
  an empty production the slot it leaves is one above the stack. The first is
  in `Recover`, neither is reached by the grammar of `primitives`.
* `memory.c` page_table_add leaves the pages it entered before a failure.
* `compare.c` compares a forward with a pointer out of the heap by address.

## 8. Not modelled

* *DHCP client* (`dhcp/client.ml`): one task, its own sleeps and the offers.
  Read, its deviations are: the state it sets after its sleep can overwrite a
  lease or a shutdown; the pattern that should compare the transaction id
  shadows it, so any offer is taken; a lost acknowledgement is never asked for
  again. No module states that yet.
* *State machine* (`state.ml`): its closing states are never entered, because
  close sends no Send_fin, and so their two timers never start.
* *Flows and channels* (`flow.ml`, `channel.ml`): the accept loop is in TcpPcb,
  the queue that write fills in TcpTx; a channel has one reader and one writer.
* *UDP, ICMP, manager, config*: a table each that nothing contends for; their
  part in a packet's way is in NetStack.
* *Wire formats, console*: codecs, or plain output.
* *TcpTx* leaves out the round-trip estimator, which only changes how long a
  timer runs; *NetStack* bound_ips, gratuitous ARP, attach and detach of
  protocols; *MainLoop* OS.Main.finalize and auto_yield.
* *Gc* leaves out the stack's frames (in Tables), forwarding and infix tags,
  the size of tables and slices; *Heap* blocks beyond Max_wosize and when a
  compaction starts by itself; *Marshal* the copies between channels and the
  engines; *Engines* exceptions other than Parse_error of a semantic action or
  the lexer; floats are in no module, the kernel has none.
* *Lwt, Cstruct, the rest of the OCaml runtime and its library* are vendored:
  they are modelled where the code above uses them.
