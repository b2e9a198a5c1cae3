# A TLA+ model of the Cure toolbox

Cure (`src/toolbox`) is a set of C++ libraries for robots. Its runtime, in
`AddressBank`, lets *addresses* (slots, filter ports, devices, command ports) push
timestamped data to each other and pull it from each other, in one or several
threads. `Filters` puts synchronization, sequencing and motion control on top of it.
These modules model the data structures that several threads share, the protocols by
which data and commands move, the conditions under which data is kept, lost, doubled or
reordered, and, of the numeric libraries, the one whose difficulty is in its control: the
bit matrix. What computes with reals is left out.

Paths below are relative to `src/toolbox/src`. `PROJECT.json` gives, for every
definition, the lines it models.

## 1. The system

| Component | State | Operations | Hard behaviour | Correct when |
|---|---|---|---|---|
| `DataSlot` (AddressBank) | ring `History`, `Last`, `NumItems` | `write`, `read(t, interpolate)` | late data moved in round the end of the array, several data of one time, the array not yet full | the ring is the newest data in time order, nothing but what is too old is dropped, a read gives the datum its header describes |
| `DataSlotAddress` | a slot, `m_Queue`, client list, pusher thread | `write`, `push`, `disconnect`, `setUseThread`, deletion | writers, pusher and configuration run at once; `UseThread` is read without a lock; nobody wakes the thread it joins | no datum twice to a client, none dropped that was in time, the queue drains, joins return |
| `ThreadMerger` | `DataList`, `m_QueueLength`, `m_QueueData`, flags, four mutexes, a condition variable | `write`, `pusher`, `pause`/`resume`, `config`, destructor | lost signals, pause between taking and pushing, join under a lock | nothing lost or reordered, a pause excludes a push, the destructor returns |
| `AddressBankThread` | hash table of `AddressList`s, `NextIndex`, `Permanent` | `add`, `remove`, `makePermanent`, `resizeHash`, lookups | an index outlives its address; rehashing; unlocked lookups of permanent addresses | an index leads to the address it was given to or to nothing |
| `DataFilterAddress`, push side | `PushClients`, `NumPushClients(Alloc)` | `push`, `disconnect`, `pushData` | subscribers are deleted, the table is rehashed | only subscribers are reached |
| `DataFilterAddress`, pull side | `IsPull`, the way of pulling, `LastTime`, `NextData` | `pull`, `disconnect`, `setExact/Sequenced/Latest`, `pullData` | the slot overwrites data between two pulls, or is deleted | a sequence skips and repeats nothing without saying so |
| `Address`, `ThreadSwitcher`, bank of several spaces | `PermittedThreads`, `m_PushLocked`, the lock of each space | `isThreadSafe`, `write` across spaces, `writeLocked`, `disconnectAddress` | locks of several spaces in opposite orders, permits looked at once and used later, addresses deleted while they are called | nobody is written to without its lock or a permit, nor after it left the bank; calls return |
| `Syncronizer` (Filters) | `PendingDataList`, `LastTime`, `Data` | `write`, `read`, `getInputs`, `pullData` | triggers before their data, several tries, a code that accumulates, sources that go away | a set has one time throughout, sets go out in order, a trigger is given up for a reason only |
| `FileAddressManager`, `MeasSequencer` | the data read ahead of each file, the odometry, `m_Meas`, `m_LastOutputTime` | `addFile`, `step`, `write` | odometry runs ahead of older data, writes that fail, addresses deleted meanwhile | data leave in the order of time and nothing comes too late |
| `CommandExecuter`, `CollisionAvoidance` | `CurrentCommand`, `OutputCommand`, `Stoped`, `TimeOut` | `processCommand`, `pushData`, `calc`, `stop` | two senders, priorities kept on two levels that drift apart, a drive without a timeout | what counts as stopped stands still; every motion ends |
| `SocketAddress` | `m_Running`, `m_Stopped`, `m_Thread`, the socket pair, `m_Clients` | `startDevice`, `stopDevice`, `write`, event loop | start, stop and writers racing the thread, messages in two halves, a socket pair that is full, clients that die | one loop, frames kept, every client served, the dead taken out, stop stops and returns |
| `BinaryMatrix` (Math) | an allocation of words, a window on it | copies, logic, insertion, deletion, transposition, comparison, searches | windows that begin or end inside a word, copies within one allocation | an operation changes the cells it promises and no other |
| `CommandAddress` replies, `PoseArchive`, file addresses, configuration, pose tree, sensor data, maths | reply ring, files, matrices of reals | | see section 6 | not modelled |

How they interact. A writer calls `write` on an address. A slot stores the datum and
writes it to its clients; a filter port hands it to its filter, whose output ports
write to *their* clients. Clients are known only by an index, which the bank turns into
an address (`AddressBankThread::write`) or into `RESOURCE_ERROR|ADDRESS_INVALID`. A
port that pulls calls `read` through the bank. Every thread space of the bank has one
mutex; whoever calls in holds it, by convention (`AddressBank/README.threads`); a
`ThreadSwitcher` is the way from one space into another. Three classes have a thread of
their own: `ThreadMerger` and `DataSlotAddress` push from a queue with the lock of the
space, `SocketAddress` serves its connections. A `Syncronizer` is a filter whose inputs
pull from slots; a `MeasSequencer` is one that is written to, by a `FileAddressManager` in
replay. Commands go the same ways as data, from a user to `CollisionAvoidance` and from
there to the drive.

## 2. The modules

| Module | Models | Built on |
|---|---|---|
| `SlotRing` | the ring of a `DataSlot`: write and read as operators | |
| `SlotWindow` | abstract: the window of the newest data, and which late data it drops | |
| `DataSlot` | one slot and its writers | `SlotRing`, implements `SlotWindow` |
| `SlotPusher` | `DataSlotAddress`: writers, queue, pusher thread, client list | `SlotRing` |
| `MergeQueue` | abstract: a line whose delivery can be held up | |
| `ThreadMerger` | the merger, its threads and locks | implements `MergeQueue` |
| `AddressRegistry` | abstract: what an index promises | |
| `AddressBank` | the hash table of one space | implements `AddressRegistry` |
| `PushPort` | a port that pushes to indices, with the bank its subscribers live in | `AddressBank` |
| `PullPort` | a port that pulls from a slot that a device fills | `DataSlot` |
| `ThreadSpaces` | several spaces: switchers, locks, permits, deletion | |
| `Syncronizer` | the synchronizing filter with the slots its inputs pull from | `SlotRing` |
| `Replay` | `FileAddressManager::step` writing to a `MeasSequencer` | |
| `MotionControl` | users, `CollisionAvoidance` and the drive | |
| `SocketLoop` | a `SocketAddress`, its callers, event loops and clients | |
| `CellGrid` | abstract: what the operations of a bit matrix promise | |
| `BinaryMatrix` | words, masks and windows | implements `CellGrid` |
| `OrderedRows` | the rows of a matrix as an ordered list | |
| `GridSearch` | flood fill, boundaries and growth on a grid | |
| `MC...` | values, symmetry and bounds for TLC. `MCDataSlot` is a bare slot or one with a port; in `MCFilters` a behaviour is one of `Replay`, `Syncronizer` and `MotionControl`, in `MCGrids` one of `BinaryMatrix`, `GridSearch` and `OrderedRows`: the others stand still | the modules named |
| `...Proofs` | theorems about `DataSlot` (in `DataSlotProofs`, with `PullPort`), `ThreadMerger` and `ThreadSpaces` (in `ThreadProofs`), `PushPort` (in `PushPortProofs`, with the bank and `SlotPusher`), `Syncronizer`, `Replay` and `MotionControl` (in `FilterProofs`), `SocketLoop`, `GridSearch` and `OrderedRows` (in `SearchProofs`), `BinaryMatrix` (in `MatrixProofs`) | the module named |

Some definitions whose comment begins with *Mutant* stand beside the ones they are a
wrong version of. No specification uses them. They record that each property notices a
plausible bug: with the wrong version in place TLC reports the property violated.
`SlotWindow`, `MergeQueue`, `AddressRegistry` and `CellGrid` say what is promised and translate no code.

### Slots

`SlotRing` keeps a slot as a record `[hist, last, num]`. A datum is its time and an
id; the value, packing and the arithmetic of interpolation are left out, and a reply
says which data it was made from (two when it was interpolated). Time 0 is the default
`Timestamp`: cells nobody wrote have it, and a reader that asks for it wants the
newest datum. The loops of `read` become `Walk`, the number of steps back from `Last`
to the first datum with a property, and `ReadFrom`, its returns in their order; the loop of
the late branch of `write` becomes `PutLate`, which moves every newer datum one cell up.
Return codes are sets of flag names. `DataSlot` has one action per outcome of the type
check; a read changes nothing, so what reads answer is stated over every state.

### Slots with clients and a thread

`SlotPusher` has three kinds of process. A writer writes to the slot (under `SlotMutex`),
*then* reads `UseThread`, *then* queues and signals or copies the client list and writes
to each client. The pusher checks `m_PushThreadRunning`, takes a datum from the queue,
compares its time with `lastReadTime`, copies the client list and writes to each client
under the space's lock, or naps. `m_Queue.getLength()` is 1 for an empty list, so the
`noDataAvailableYet` shortcut never holds and is left out. The application connects and
disconnects clients, starts and stops the thread, holds the space lock for a while, and
deletes the slot. `disconnect` shifts the array one client per step, since it holds no
lock: `MutexHelper::setMutex` does not lock. Looking at the queue and going to sleep are two
steps (`FindNothing` or `SkipLate`, then `FallAsleep`), so a signal in between is lost. Clients come
and go at any time, and nobody looks whether one is in the list already; `doubled` and `torn`
remember the clients that were connected twice and the data for which the list was copied during a
shift. Subscription is one step: its reallocation of the array while it is copied, a use after free, is
left out.

### The merger

A section under `MergeMutex` is one step: nothing in it blocks. `PauseMutex` and the
space locks are variables, as they are held over several steps. `m_QueueData`, the one
report record, keeps whose datum it is about. `Signal` wakes only a pusher that is
asleep; `Timeout` may happen whenever it sleeps, so the arithmetic of the 200 ms (which
overflows `tv_nsec` for a fifth of every second) does not matter. The application may
enter spaces, pause and resume, configure and destroy. Seen as a `MergeQueue`, the line
is what the pusher has in its hands before `m_Queue`, `EndPush` delivers, and an
application that has got `PauseMutex` holds.

### Bank and ports

`AddressBank` keeps the table as one record and the operations as operators on it, so
that `PushPort` composes with it by taking its variables and `BankNext`. `makePermanent`
has two actions: an address first in its bucket is marked (`PinInPlace`); any other is
moved (`PinMoved`), with the index and the bucket the code gives it, and with the null
pointer it leaves in an empty bucket. A null pointer in a bucket ends the behaviour
(`Crashing`), as the next walk through it dereferences it. Resizing is
stated by what its walk over the old indices comes upon (`Kept`), from index 0 on: an address
that was moved and then removed stays in its bucket with index 0, and is found there. `PullPort` has one action per
outcome of `pullData`: no connection, a dead slot, a refusal for the type, and an answer, which sets `LastTime`
and `NextData` in the ways of lines 126-147.

### Spaces, locks and permits

In `ThreadSpaces` a writer locks its home space and writes to its switcher. The switcher
asks each client in turn whether it is thread safe (`isThreadSafe`: one step per client,
as other threads run between), keeps the answer in `m_PushLocked`, and writes to each
client with the target's lock or without it. A deleter holds the lock of the address's
own space, then locks the permitted spaces one by one, in any order, takes
the address out of the bank and lets go. Locks are mutexes that are not recursive: a
thread that holds one does not take it again. A client that left the bank keeps its place in the list
(`Miss`), and addresses are deleted at any time. The pull side of a switcher is the same code
with `read` for `write` and has no actions of its own. Permits are given beforehand.

### Syncronizer

`Syncronizer::write` is a loop over `PendingDataList`; each pass is a step, and one
action stands for each way a pass can end: a set is pushed, the trigger waits, is too old,
or cannot be interpolated. The slots are written between calls only, since the filter's
space is locked during one. `Answers` is what every input would reply, `GetInputs` what is
copied of it: inputs are read in order and the first that lacks a source or cannot
interpolate is the last. An input in `kept` pulls from an output of another Syncronizer, which answers with
what it has or says `NO_INTERPOLATE`; the others pull from a slot, with all of `ReadFrom`.
The data are their times. The return code is masked with a logical negation, 0, when a
trigger waits (`Wait`): the caller is told nothing.

### Replay

A file is the set of times of its data. `step` is cut where it writes to the bank: it
chooses the file with the oldest datum (`Begin`), reads odometry until it has caught up
(`CatchUp`), writes the datum (`WriteData`), and reads odometry alone when no file has
data (`NoMoreData`). Between two writes another thread may delete an address, and the
index the write went to is then cleared as the code clears it. An empty measurement that
odometry triggers has `SensorType` 12345 in the code and type `"fake"` here. `Sequence`
is all of `MeasSequencer::write`.

### Motion

A speed is zero or not, and tracing a path ends in one of the ways `calc` tells apart. The
drive is not in the repository. The model takes it for a `CommandExecuter` as
`CollisionAvoidance` is one: it refuses what has a lower priority than what it executes.
`Calc` is one trigger, with everything it does: stop, count down the time, drive, or stay.

### Sockets

One action of `SocketLoop` is a section with `m_WriteMutex`, a system call or an unlocked look
at a member. The local socket pair is a sequence of lengths and pointers with room for
`PipeRoom` of them; a message is a length, then a pointer, written one after the other with
`m_WriteMutex` held, even while the pair is full, and read one after the other; a length 0 wakes the loop.
Any thread starts, stops and writes at any time, and writers that find the device stopped start
it too. `rushed` remembers that a loop was claimed while another was on its way: between
`m_Stopped`'s last test and the first lines of the new thread nothing shows that there is one.
Any clients of a server die between two polls; the array is compacted as the code does it, and a null
pointer left in it ends the behaviour (`crashed`). Incoming data are left out: they change
no state of the loop. Two joins of one thread, undefined in pthreads, both return.

### Bit matrices

In `BinaryMatrix` a word is the set of its bits that are 1, and a matrix is the words of
its allocation with a window. Every operation goes through `getIndex`, which splits a row
into bits before the first whole word, whole words, and bits after them, as the macros do;
the loops that write go part after part through a row and row after row through the window
(`WriteRow`, `Write`), each part written into the matrix as it is by then (`Renew`), so that copies within one
allocation may read what was just written. `CellGrid` says of each operation what it
does to the set of cells that are true. `OrderedRows` has `findRow`'s search with its
halved steps and `addOrdered`. `GridSearch` floods cell by cell (`clusterGrowth`,
`cluster`), one cell of the queue per step, and computes `boundary` and `growInto` at once.

## 3. The runs

| Run | Configuration | Bounds | Shows |
|---|---|---|---|
| `data` | `MCDataSlot.cfg` | 4 cells; times 1..5, 6 writes in any order, or 6 data with gaps of 1 or 2 and a port | `RingInTimeOrder`, `ReadGivesWanted`, refinement `WindowSpec`, `NextInOrder`, `NoMoreMeansCaughtUp` |
| `merger` | `MCThreadMerger.cfg` | 2 writers, 2 ports, 2 spaces, 2 writes | refinement `MergeSpec`, `PauseExcludesPush`, `EveryDatumPushed`, `StopReturns` |
| `pushport` | `MCPushPort.cfg` | 3 addresses (symmetric), tables of 1, 2, 4 buckets, indices up to 4 | `PinnedStaysFirst`, `RegisteredIsFound`, refinement `RegistrySpec`, `ReachesOnlySubscribers` |
| `slotpusher` | `MCSlotPusher.cfg` | 3 cells, times 1 and 2, 2 clients; 1 writer, 3 data and 3 calls of the application, or 2 writers, 2 data and 2 calls | `PushesRecords`, `NeverTwice`, `QueueDrains`, `JoinReturns` |
| `filters` | `MCFilters.cfg` | replay: every odometry file within 4 ticks (`MaxTick`), two data files of up to 2 data, triggered by data or by odometry with margin 1 or 2, empty measurements to nobody, the sequencer or elsewhere; Syncronizer: 2 inputs, slots of 2 cells, 3 triggers to port 0 or none, times 1..3, 3 settings of storing, 3 wirings; motion: 2 users, priorities 1..3, timeout up to 3 (`MaxTimeout`) | `NothingRefused`, `OutInOrder`, `OdomAhead`; `OutputsInStep`, `PushedInOrder`, `GivenUpForReason`; `StoppedIsStopped`, `MotionEnds` |
| `spaces` | `MCThreadSpaces.cfg` | 3 spaces, 4 writers (permanent clients, mixed clients, from the target's space to the first, in the target's own space), 2 deleters, 3 addresses in 2 spaces | `NotRemovedWhileCalled`, `CalledWithLock`, `CallsReturn` |
| `socket` | `MCSocketLoop.cfg` | 2 threads, 2 loops, 2 messages, up to 3 clients, room for 2 in the pair; followed until a second loop is claimed | `OneLoop`, `FramesKept`, `ClientsServed`, `DeadTakenOut`, `StopReturns` |
| `grids` | `MCGrids.cfg` | words of 3 bits, 12 pairs of windows, 2 operations in a row; all grids of 3 by 3, 4 or 8 neighbours, radii 1..3, with and without walls; 10 rows, lists to 10 | `AnswersRight`, refinement `CellsAsPromised`; `RegionFilled`, `QueuedOnce`, `BoundaryAtZero`, `DisksFilled`; `RowsIncrease` |

Four runs check what a header or a README says and the code does not do; TLC has to find the
violation, and section 4 tells it:

| Run | Configuration | Violates | Shows |
|---|---|---|---|
| `late` | `LateData.cfg` | `LateIsSorted` | a late datum for which there is room is dropped |
| `deletion` | `DeletesAnyTime.cfg` | `DeletesAnyTime` | a deleter and a writer to the deleted address wait for each other |
| `stopping` | `StopStops.cfg` | `StopStops` | `stopDevice` returns and the loop goes on |
| `rows` | `NoDuplicates.cfg` | `NoDuplicates` | the row of a list of six is added again |

Why the bounds are enough. With 4 cells and 6 writes `Last` goes round the array, late
data are moved over the end of it, and every case of the late branch occurs; five times give every
order of the times of four cells and one between. In `slotpusher` three data of two times
give a late one, an equal one, and a nap with data in the queue; two writers and two data put a direct
push beside a queued one; three calls connect a client twice, or disconnect one of two while the
list is copied; a second life of the thread adds leftovers in the queue. In `merger` two
writers make every overlap of two of their four steps; the pusher holds one datum, the queue
another. Three addresses in a bucket have a first, a middle and a last one, and resizing among
1, 2 and 4 buckets joins and splits lists. With a port, six data in four cells overtake
a reader that stopped after the first, and leave room for a reader two data behind.
In `filters` three triggers overflow a `PendingDataList` of one, and slots of two cells forget
what a trigger waits for; two inputs make a half-read set. In replay three streams of four
ticks hold every order of two data and the odometry around them, with pauses
below, at and above both margins; the theorems of section 5 lift the bounds. In `spaces` the
four writers are the three kinds a switcher tells apart and one that goes the other way, so that two
deleters, of addresses in two spaces, lock in opposite orders. In `socket` three clients are enough
for two neighbours that die and one behind them; two entries fill the pair with a length that lacks its
pointer, or with a message; a second message meets the first half of another, and a second loop is one too many.
With three priorities one is between the two a stop and a speed have; what is remembered is one
command on each level. In `grids` words of 3 bits with windows of 1 to 3 words have a part before, whole words and a part after in every
combination, and aligned as well as unaligned pairs; a second operation finds what a first
left outside its window. A grid of 3 by 3 has inner cells, edges and corners. Ten rows hold all lengths
at which the search of rows is right up to 9 (half of 8 and of 9 is 4), and 6 and 7, at which it is not.

Preconditions, where a property holds only under them:

- `RegisteredIsFound`, `RegistrySpec` and `ReachesOnlySubscribers` end with the first
  address `makePermanent` has to move. The header warns that others will not find it.
- `MergeSpec`, `PauseExcludesPush` and `StopReturns` of the merger assume that pausing is configured before data
  comes in (`ReconfigLive` FALSE), which the header of `pause` asks for, that the
  application does not pause while it holds an output's space, and that the merger's
  outputs lie in another space than the merger itself: its destructor joins the pusher
  while the caller holds the lock of the merger's own space.
- `ReadGivesWanted` speaks of reads of a full ring that report success (section 4). A read at the oldest time with
  `interpolate` 0 may report `TIMESTAMP_TOO_OLD`; it says nothing of these.
- `NextInOrder` and `NoMoreMeansCaughtUp` need data of distinct times (`0` not in `Gaps`). With two data of one time a sequence that
  begins at time 0 reads the newest, asks for the second one of its time, and gives a
  datum twice when another of that time has come meanwhile. `DataSlot`'s
  reads are checked with equal times.
- `NeverTwice` leaves out clients that were connected twice, and for the others the data for which the list was
  copied while `disconnect` shifted it (section 4).
- `JoinReturns` needs a caller that does not hold the lock of the slot's space.
  `README.threads` asks whoever removes an address to hold it; then the join waits for a
  pusher that waits for the lock.
- `NothingRefused` speaks of replay while odometry is written, with a margin that covers the
  pauses of the odometry if odometry triggers the sequencer. `OdomAhead` speaks of the time
  while the odometry's index is set.
- `CallsReturn` excepts threads that wait for each other in a circle (`Stuck`). What it says of the rest is that
  no lock is kept by a thread that is done, and nobody is held up by clients or permits that are gone.
- `OneLoop`, `FramesKept` and `ClientsServed` speak of behaviours in which no loop was claimed while another was on its
  way (`rushed`). `StopReturns` speaks of calls of `stopDevice` that cleared `m_Running`, and excepts
  a second loop, a crash, a device that was started anew before the join, and a pair that is full while its writer holds
  `m_WriteMutex` and the loop waits for it (`Jammed`).
- `MotionEnds` needs triggers to go on.
- `AnswersRight` and the refinement of `CellGrid` need a `long` of 32 bits (`LongBits = WordBits`), operands of one
  size where two matrices are compared or combined, and that a matrix without rows or
  columns is only reset or assigned to.
- `RowsIncrease` speaks of additions to lists half of whose length, rounded down, is 0 or a power of two: 0 to 5, 8, 9, 16,
  17 rows and so on. Only then do the halved steps leave out no row.
- `DisksFilled` speaks of radii from 1: with radius 0 a disk is empty, and `growInto` sets cells inside
  a region but none at its edge.

Deadlock is not checked where a behaviour ends at its bound (all data written, all
addresses used) or because the application has destroyed the object: the program
really stops there. What must go on is stated as a liveness property instead.

### Fairness

`FairSpec` of `ThreadMerger` and `FairSlotSpec` of `SlotPusher` give weak fairness to the steps of the pusher
thread: a running thread runs, and a wait with a timeout ends. Where it waits for
a mutex it has strong fairness: other threads take and release that mutex again and again,
and the scheduler does not pass a waiter over for ever. The application is fair only in
finishing what it began: it leaves a space, resumes after a pause, and goes on inside the
destructor. It need never write, pause, start or stop. Writers have no fairness:
no liveness property needs them to write. `ThreadSpaces` gives strong fairness to
every step of a writer, as each may wait for a mutex that others take and release, and to the
steps of a deletion that has begun; none has to begin. `SocketLoop` gives strong fairness to each loop, which waits
for `m_WriteMutex` where it starts, reconnects and ends, and weak fairness to a caller that has that mutex
or has cleared `m_Running`: the halves of its message, its wake-up, its join. Nothing makes `poll` return for the
network, and no caller need start, stop or write. `MotionControl` has weak fairness of `Calc`: the
avoidance is triggered by data that keep coming. `Syncronizer`, `Replay`, the matrix and the
searches promise nothing about progress and have no fairness.

## 4. Where the code departs from its documentation

The models contain each of these behaviours. For four of them a run has TLC find the violation; the other
properties are stated so that they hold beside them, and the hazards in `PROJECT.json` name the lines.
Four more statements of the documentation stand as properties in the modules, beside the ones that hold: `EachOnce`
and `AllPushed` in `SlotPusher`, `SeedFilled` in `GridSearch`, `NeverTwoLoops` in `SocketLoop`. No run
has them; as an invariant of `MCSlotPusher`, `GridSearch` and `SocketLoop` TLC refutes each at once.

- A datum that is late, and not newer than the two cells after `Last`, is dropped, also one for which there is room
  or that is newer than the oldest (`DataSlot.cc:82-88`); "if not the data is sorted into the right position"
  (`DataSlot.hh:135-136`). Run `late`; `SlotWindow` says exactly which data are dropped.
- A slot that is not full takes `History[0]` for its oldest datum, though nobody may have written
  it: requests for times before the first datum are answered with success, not with
  `TIMESTAMP_TOO_OLD` (`DataSlot.hh:181-182`).
- `disconnect` on a slot shifts its client list without a lock, because
  `MutexHelper::setMutex` does not lock; a pusher that copies it meanwhile may give a client
  a datum twice. So does a client that was connected twice, which `push` does not look for ("Obviously no data will be
  pushed twice", `DataSlotAddress.hh:39-40`; `EachOnce`).
- A datum that is not later than the one pushed before it is taken from the queue and not pushed
  (`DataSlotAddress.cc:274-290`); "All data will be pushed if there is no overflow" (`DataSlotAddress.hh:38-39`;
  `AllPushed`). `PushesRecords` says what is pushed instead.
- A dead push client is never dropped (`AddressBank.hh:206-208`): the code for it has two flags and is compared with one. The
  same comparison is in `DataSlotAddress`, `DeviceAddress`, `ServiceAddress`,
  `FilterBankAddress` and `CommandAddress`.
- `makePermanent` moves an address to a bucket its new index does not lead to, and returns
  true (`AddressBank.hh:44-52`).
- A successful pull resets `NextData` to 1, so a backward sequence turns round
  (`DataFilterAddress.hh:201-206`).
- Two writers of a merger share one report: one may report the other's datum
  (`ThreadMerger.hh:28-33`).
- Without storing, a `Syncronizer` pulls from the very port the trigger was written to, and
  puts out nothing if nothing is connected there (`Syncronizer.hh:36-38`).
- When an empty measurement cannot be written in replay, it is the odometry that is silenced.
- A switcher with mixed clients goes on locking the target space although it holds the permit of
  one of them; when that one is deleted, both wait for ever. `README.threads:85-86` calls it good practice,
  not necessary, to delete the writer first. Run `deletion`.
- `stopDevice` does nothing while the thread has not yet begun, and returns although a loop runs
  (`SocketAddress.hh:157`). Run `stopping`. In the same window `startDevice`, or a writer that finds the device stopped, makes a second
  loop, although writing "is thread safe" (`SocketAddress.hh:24-25`; `NeverTwoLoops`).
- A writer or `stopDevice` that fills the socket pair blocks with `m_WriteMutex` held; a loop that wants
  the mutex, at its start, to reconnect or at its end, never reads, and the join never returns.
- Of two neighbouring clients that die within one poll, one stays in the array as a null
  pointer and is dereferenced in the same round (`SocketAddress.cc:311`).
- A path that cannot be followed neither drives nor stops the robot: it goes on until the
  time of the command is over (`CollisionAvoidance.hh:52-54`).
- After a release the drive may keep the priority of a stop and refuse speeds that
  `CommandExecuter.hh` promises to execute.
- The bits of a 64-bit `long` above the 32 in use are set with the others and counted,
  compared and ordered with them (`BinaryMatrix.hh:348-349`, `:229-230`).
- `findRow` in a list of six rows never looks at row 2, and `addOrdered` adds a copy of it
  (`BinaryMatrix.hh:246-248`). Run `rows`.
- `clusterGrowth` and `cluster` queue the seed but do not fill it; a flood fills it from a neighbour, and a free seed whose
  neighbours are not free stays empty, against "starting by filling a seed" and "visited returns with 1 in every cell in cells"
  (`BinaryMatrix.hh:411-412`, `:900`; `SeedFilled`).
- `clusterGrowth` returns one more than it counted (`BinaryMatrix.hh:417`), and `boundary` with
  8 neighbours does not look at the upper left one (`:389-390`).
- `logicAnd` and `>=` of matrices of different sizes return true.

## 5. What is proved

`tlapm` checks these for every value of the constants that satisfies the named assumptions of the
modules (`...Assumption`: sizes are positive, sets that the code counts are finite, and the like).
An assumption beyond those stands in the theorem, and below.

`DataSlotProofs`, for any size, any times and any order of writes:

- `TypeCorrect`: `Spec => []TypeOK`.
- `TimeOrder`: `Spec => []RingInTimeOrder`. The property is inductive only with two
  facts more, which make up `IInv`: the type invariant, and that the order is stated cell
  by cell from the oldest to `Last` so that it says in particular that `Last` holds the
  newest time. `WriteKeepsOrder` is the one-write lemma: its cases are a datum not older than the newest,
  a late one that fits (every newer datum moved by one cell, order kept across the
  hole), and one that is refused. `Wrap` and its neighbours are the facts about walking
  an array with wrap-around.
- `LatestClimbs`: the time of the newest datum never falls.
- `ReadIsRight` (`ReadGivesWanted`) follows from the order alone. `ReadPlaces` says where the
  walk back from `Last` stops: at the datum `LeastHit` picks out. `ReadAnswers` goes
  through the returns of `read`, and `WalksFind` turns steps back into places in the
  sequence of kept data, in which the promise is stated.
- `SlotIsWindow`: `Spec => WindowSpec`. A write to the array is a step of the window: the datum
  comes behind all that are not newer and the oldest makes room, or it is late and too old and nothing
  changes (`KeptSorted`, `LateSteps`, `TopSteps`, `TooOldIsDropped`, `WriteSorts`). The window holds no cell that nobody wrote, which
  needs that unwritten cells lie together beyond the oldest (`Unwritten`).
- `PullsInOrder` (`NextInOrder`) and `PullsCatchUp` (`NoMoreMeansCaughtUp`), for any device whose data have
  distinct times (`0 \notin Gaps`). The invariant `PortInv` says that the device's n-th datum
  lies as many steps back from `Last` as data came after it (`Stacked`), and where the port is
  relative to them (`OnTheWay`): `LastTime` is the time of the datum pulled last, whether it is
  still in the ring or not.

`ThreadProofs`, about `ThreadMerger`, for any number of writers, ports and spaces, under
`MergerAssumption`:

- `MergerTypeCorrect`, `MergerLosesNothing` (`Spec => []NothingLost`: what was accepted is what was
  delivered, the pusher's hands and the queue, in this order) and `CounterExact`
  (`m_QueueLength` is the length of the list; no run lists it), from one inductive
  invariant: the three facts together with *the pusher's hands are full exactly between
  taking and pushing* (`Hands`).
- `MergerIsQueue`: `Spec => MergeSpec` if `ReconfigLive` is FALSE. Enqueueing maps to `Accept`, `EndPush` to
  `Deliver`, `Paused` and `Resume` to `Hold`, every other step to a stutter; taking a datum moves it from
  the queue into the hands and leaves the line as it is. That nothing is delivered while held is where
  the invariant of the next theorem comes in.
- `PauseWorks`: `Spec => []PauseExcludesPush` if `ReconfigLive` is FALSE. Its invariant
  says who owns `PauseMutex` at every place of the pusher and the application, and that
  `m_AllowPause`, once data has come in, does not change (`NothingYet`).

`PushPortProofs`, for any addresses, table sizes, indices and subscriptions: `AllAreFound`
(`RegisteredIsFound`), `PinnedAreFirst` (`PinnedStaysFirst`), `PushReachesItsOwn`
(`ReachesOnlySubscribers`) and `BankIsRegistry` (`Spec => RegistrySpec`). The invariant `Inv` says of a
table in which nothing was moved that it is `Sound`: what is in a bucket belongs there (`Placed`) and is there
once (`Once`), what has an index is in its bucket (`Held`) and has the index alone (`Owned`); of
the history that no number was given twice (`GivenOnce`); and of a pinned address that its bucket is
marked, as otherwise the next `makePermanent` would displace it (`Pinned`). Each operation on the table
has a lemma about its effect and one that it keeps the table sound. For `resizeHash` that is
counting: the places of a finite set of numbers, from the smallest on, are its members,
each once (`NthHasRank`).

The same module proves, for any number of writers, clients and data and any number of starts of
the thread, two theorems of `SlotPusher`:

- `RecordsArePushed` (`PushesRecords`). `Records` looks at all that was taken from the queue, the
  pusher at `lastReadTime`; `LastIs` ties the two together: it is the latest time among what this
  thread took, and a new thread begins with 0 and whatever its predecessor left in the queue.
- `PushedOnce` (`NeverTwice`), with clients that come and go at any time.
  That no client is given a datum twice rests on there being one copy of it on its way: every
  datum has its own number (`Numbered`), is in one writer's hands, in the queue or in the
  pusher's (`OneHolder`); a client that still stands on the copied list a writer or the pusher walks
  along has not had the datum yet (`Owed`); and the list has a client twice only if it was connected
  twice or at the place where `disconnect` is, its copies only if they were made meanwhile (`Listed`).

`ThreadProofs`, about `ThreadSpaces`, for any threads, spaces and addresses: `TypeCorrect`,
`CalledStaysInBank` (`NotRemovedWhileCalled`) and `LockedUnlessPermanent` (`CalledWithLock`).
Neither property is inductive: that an address stays while it is called rests on who holds
which lock at every place (`HomeHeld`, `DeleterHolds`), that what the check found is still
right when it is used (`CheckIsRight`), and that the writer inside an address got there
with the lock or a permit (`PushesWith`, `InsideIsClient`, `NoSwitcher`).

`FilterProofs`, about `MotionControl`, for any users, priorities and times: `MotionTypeCorrect` and `StopIsObeyed`
(`StoppedIsStopped`). The invariant adds that a drive that moves executes nothing above the
priority the avoidance last pushed with, nor above its current command (`Reached`), and that what is
not stopped executes a speed (`DrivesSpeed`): so the drive is never above the stop it is given.

`SyncronizerProofs`, for any inputs, sizes of slots, wirings and settings of storing:

- `SetsInStep` (`OutputsInStep`): a reply without flags is exact, whatever the slot holds
  (`ReadIsExact`), and if nothing that was read had a flag, everything was read (`AllAreRead`).
- `SetsInOrder` (`PushedInOrder`): `PendingDataList` is in the order of triggers and behind
  what was pushed (`InLine`), and every trigger leaves it from the front.
- `GivenUpWithReason` (`GivenUpForReason`): at the head of the loop the code that accumulates is
  empty (`ReasonInv`), so what ends a pass is about the trigger of that pass: flags left
  over from an earlier trigger cannot cost a later one. That `TIMESTAMP_TOO_OLD` is
  true when it is said needs slots that are written in time order (`NewestAged`, `BackByAge`, `TooOldIsGone`).

`SocketLoopProofs`, for any callers, loops, clients, messages and room in the socket pair, and calls in any order:
`OneLoopOnly` (`OneLoop`). `m_Stopped` alone does not tell
whether a loop lives, as between `pthread_create` and the loop's first lines it has the value of the
loop before. The invariant is about that gap: as long as nobody has claimed a loop in it, who makes a loop is alone
(`MadeAlone`), and the loop that is alive has cleared `m_Stopped` once it no longer starts (`AliveAlone`). On top of
it, `FInv` is about the pipe: it holds whole messages, except that its last
may lack the second half and its first the first half, which a loop then has in hand
(`Framed`); a half message is the doing of the one who holds `m_WriteMutex` (`WriterHolds`); what is in the
pipe is newer than what any client was given, and in order (`PassedInOrder`); and clients that came
earlier were given at least as much as later ones (`EarlierHaveMore`), which compaction keeps whoever dies (`Rounds`, `Compacted`).
From it follow `FramesAreKept` (`FramesKept`) and `ClientsAreServed` (`ClientsServed`).

`FilterProofs`, about `Replay`, for any files of any lengths, any sequencer and whichever addresses are deleted:

- `SequencedInOrder` (`OutInOrder`): what is put out is a front of the ordered list
  (`InsertedSorted`, `DueIsFront`), whatever comes in.
- `OdometryIsAhead` (`OdomAhead`): files are written oldest first behind their odometry
  (`FilesOK`).
- `NothingComesLate` (`NothingRefused`): while the odometry is written and the margin covers its
  pauses, what went out is not later than anything still in a file, nor than the
  odometry (`Timely`). An empty measurement has the time of odometry that has passed the data
  by one pause at most, and lets out nothing later than the odometry before it.

`SearchProofs`, about `GridSearch`, for a grid of any size, any walls and four or eight neighbours:

- `FloodFillsRegion` (`RegionFilled`). The region is what as many rounds of spreading from the seed reach as
  there are cells. A set that a round does not change stays as it is, one that it changes has
  a cell more, and there are no more cells than that (`ReachedIs`): the reached cells are the
  least set that has the seed and, with a cell, its free neighbours. The invariant `FloodInv` says
  that what is filled can be reached and that the free neighbours of every cell that was
  taken from the queue are marked; with an empty queue the filled cells are such a set (`FillsRegion`).
- `CellsQueuedOnce` (`QueuedOnce`), as a step fills as many cells as it queues, each of them once
  (`OpenRoundIs`).
- `BoundaryIsAtZero` (`BoundaryAtZero`): the shifts are the steps to neighbours (`BoundaryFinds`).
- `DisksAreFilled` (`DisksFilled`), for radii from 1 (`0 \notin Radii`). A cell in the disk of an inner cell
  is of the same region, and set anyway, or is not: then a path of single steps towards it, along the
  column first, meets an edge of the region (`EdgeOnTheWay`), and the disk round
  that edge cell contains it too, as it is nearer (`NearerDisk`).

It also proves `RowsStayOrdered` (`RowsIncrease`), for any numbers in any order and lists of any length whose half is 0
or a power of two. The steps are then that power and its halves down to 1 (`HalfOfPower`), and the search keeps the place of
a number within twice the next step of where it looks (`LookNarrows`): so it comes to a step of 1 and is within one row (`SearchEnds`),
`findRow` ends with what is less before it and what is greater behind it
(`FindRowIsRight`, `FindRowInList`), and an insertion there keeps the order (`FitsInOrder`).

`MatrixProofs` is about `BinaryMatrix`, for any matrices to begin with whose windows lie in their
allocations (`StartsAssumption`), any number of calls and words of any length. What is said of cells needs
that no bits are kept beyond those in use (`LongBits = WordBits`); with more, it is false (section 4).

- `PartsTile`: `getIndex` leaves each column of a row to just one of the three loops, and a whole word of a
  row is one of the allocation that lies in the window (`IndexIs`).
- `EqualTellsCells`, `LogicAndTellsCells`, `RowEqualToTellsCells` and `RowTestTellsCells`: comparing parts
  is comparing cells. What is read of a part are its cells (`GetIs`), and the parts of one matrix are parts
  of the other, too, as whole words are used only where both begin them at the same column
  (`CommonPartsLie`).
- `MatrixTypeCorrect` (`Spec => []TypeOK`): after every call the window lies within the allocation and the
  allocation has the words that its rows and columns take. `TypeOK` is inductive; what an empty window has
  for its place is left open in it, since `trimRows` and `trimColumns` leave the window at -1 when nothing remains.
- `MatrixKeepsPromises`: `Spec => CellsAsPromised`, the refinement of `CellGrid`. Loops are
  dealt with once, in `WriteIs`: by induction over the parts of a row and over rows, what has been
  written so far is new and all else, within the window and around it, is as before, whatever the
  operation makes of a part. For copies within one allocation (`CopyWithinWrites`) the cells still to be copied
  must be as they were: the copied window lies ahead of the one that is written, or apart from it.
  Each operation then has a lemma that says what it does to cells (from `DeleteRowsIs` to `TrimColumnsIs`),
  and `NextKeeps` puts them together.
- `MatrixAnswersRight` (`Spec => []AnswersRight`): the bits of all parts and the cells of the window are matched
  one to one, so `count` and `match` count cells (`CountTells`, `MatchTells`); `>=` holds of a copy that `&=` left
  as it was (`IncludesTells`); and of two rows as numbers the greater is the one that has a 1
  where they first differ (`NumberDiffers`), in the order in which `rowTest` and `rowGreaterThan` go
  through columns. As `AnswersRight` says, the order of `rowGreaterThan` is claimed for fewer columns than a word has bits only.

Only model-checked: the liveness properties (`EveryDatumPushed`, `StopReturns` of merger and socket,
`QueueDrains`, `JoinReturns`, `CallsReturn`, `MotionEnds`), which rest on fairness and `ENABLED`,
out of the prover's reach, and `DeadTakenOut` of the socket's clients. Everything else that a passing run checks is proved, the four refinements
`WindowSpec`, `MergeSpec`, `RegistrySpec` and `CellsAsPromised` among them.

## 6. Not modelled

- The reply ring of `CommandAddress` and the identities of replies. In the code the ring counts as empty when
  it is full and when it was just grown.
- `PoseArchive`: a slot with a threshold and arithmetic on poses. Its last pose is written before its
  mutex is locked and read after it is released.
- Reading and parsing on sockets; `DeviceAddress`, `ServiceAddress` and `FilterBankAddress`, which subscribe
  and push as `DataFilterAddress` does; files and configuration; `cxxopts`.
- The values of data, packing and interpolation, and all numerics: matrices of reals, geometry, Hough
  transforms, estimation filters, pose tree; of `BinaryMatrix`, path and distance search,
  nearest cells, arcs, polygons and rotation by angles other than right ones.

Most of the repository is of the last two kinds, real arithmetic and vendored or
repetitive code, whose correctness is not a matter of states and steps. The share of its
lines that the modules cover is therefore small, while what is concurrent in it, or is a protocol, is
nearly all modelled. Thread creation is taken to succeed except in `SocketLoop`.

## 7. Plan

Done: the modules and proofs above. Left, in the order of what they add:

1. `CommandReplies`: the reply ring of `CommandAddress` against a list, composed with `MotionControl`.
2. `PoseArchive`'s lock with its data abstracted to whole and half-written poses.
