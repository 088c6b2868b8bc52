# ks: a verification project

TLA+ models of the parts of the engine in which several actors meet: the network
channel, the splitting of large datagrams with its sending thread, the way of a
client into the game and over map changes, the snapshots that keep its entities in
step with the server, the thread pool, and the lock-free queue under it. TLC checks
the models on small instances; TLAPS proves the most important facts for every
value of the constants. Every definition that stands for code has
an entry under `map` in `PROJECT.json` with the file and the lines it models, and
every property has a mutant, a plausible bug of that code under which it fails.

Paths below are relative to `src/src/` of the repository unless they say otherwise.

## 1. The system

The repository is a Linux remix of a Source engine game: 6281 files, of which the
larger part is rendering, game logic, data and vendored libraries. It has one
document (its own README) and, apart from `RunThreadPoolTests` in
`vstdlib/jobthread.cpp` and the counting tests of `tier0/tslist.cpp`, no tests. What it promises is therefore read from its
comments, assertions and error messages.

| Component | State | Operations | Talks to | Hard because | Correct means |
|---|---|---|---|---|---|
| **Network channel** `engine/net_chan.cpp` | sequence numbers, reliable bits, subchannels, waiting and receive lists per stream, buffers | `SendNetMsg`, `SendFile`, `EnqueueVeryLargeAsyncTransfer`, `SendDatagram`/`Transmit`, `SetChoked`, `ProcessPacket`, `Clear` | its peer by datagrams; the message handlers by callback; split packets below | datagrams are lost, repeated, reordered; `Clear` at any moment, also inside a handler; two streams share one packet | reliable messages are handled once, in order, without loss; the two ends agree on the bits |
| **Split packets and queued sender** `engine/net_ws.cpp`, `engine/net_ws_queued_packet_sender.cpp` | split sequence of a channel, send list, the thread's delay queue, reassembly entry of each address | `NET_SendLong`, `NET_QueuePacketForSend`, `Run`, `NET_SendQueuedPackets`, `NET_GetLong` | channel above, socket below, a thread that sends later | a second thread, a clock that wraps, one reassembly buffer for each sender, a sender that starts again | a datagram comes out whole or not at all; parts leave in time and never between those of another |
| **Job queue** `CJobQueue` in `vstdlib/jobthread.cpp` | one lock-free queue for each priority, item count, event | `Push`, `Pop` | the pool's threads | the count and the queues change at different moments | `Pop` finds the item it counted |
| **Thread pool and jobs** `CThreadPool`, `CJobThread`, `CJob` | job status, mutex and event, worker state, suspend count | `AddJob`, `ChangePriority`, `YieldWait`, `SuspendExecution`, `ResumeExecution`, `ExecuteToPriority`, `AbortAll`, `Execute`/`Abort` by handle | job queues; the asynchronous file system; any thread with a handle | workers, master and holders of handles race for the same job | a job runs once; a suspended pool is quiet; a call returns with its work done |
| **Connection and signon** `engine/baseclient.cpp`, `baseclientstate.cpp`, `baseserver.cpp`, `client.cpp`, `sv_client.cpp` | signon state and spawn count on both sides, retries, the wait for resources | challenge, connect, signon ladder, changelevel, reconnect, drop, retry | channel, snapshots | messages of the old map arrive after the change; the channel is cleared in the middle; packets of an earlier attempt to connect | client and server step through the same ladder; no healthy client is dropped |
| **Snapshots and baselines** `engine/baseclient.cpp`, `sv_ents_write.cpp`, `sv_framesnapshot.cpp`, `cl_ents_parse.cpp`, `clientframe.cpp` | acknowledged tick, frames of recent ticks, two baselines on each side, a forced wait | `SendSnapshot`, `UpdateAcknowledgedFramecount`, baseline acknowledgement, `CL_ProcessPacketEntities`, `ForceFullUpdate` | channel (deltas unreliable, full updates reliable) | deltas against frames and baselines of the other side, acknowledgements that are lost or late | the client's entities are those of the server at the client's tick |
| **Network string tables** `engine/networkstringtable*.cpp` | items with the tick of their last change | add, change, write and parse updates | snapshots' acknowledged tick | a change lost with a packet must be sent again | same strings on both sides |
| **User commands and prediction** `game/client/prediction.cpp`, `game/shared/usercmd.cpp` | command ring, acknowledged command, predicted frames | create, repeat and run a command; predict, compare, discard | snapshots | repeated and lost moves | each command runs once, in order |
| **Threading primitives** `tier0/threadtools.cpp`, `public/tier0/tslist.h` | event flags, waiters, mutexes, lock-free lists and queues | `Set`, `Reset`, `Wait`, `WaitForMultiple`, `Push`, `Pop` | pool, sender | lost wake-ups, ABA | as their names say |
| **Data cache** `datacache/*.cpp`, `tier1/datamanager.cpp` | handles with serial numbers, lock counts, LRU list | lock, unlock, purge, age | models, sound, files | a handle outlives its item | a locked item is never purged |
| **File system** `filesystem/*.cpp` | search paths, open files, asynchronous jobs | read, write, `AsyncFinish`, `AsyncAbort` | thread pool | finish and abort race with a worker | see the thread pool |
| **Host state** `engine/host_state.cpp` | current and next state of the game | new game, change level, shut down | server, client | requests during a change | one map at a time |
| **Game rules** `game/shared/cstrike15/cs_gamerules.cpp` | round, bomb, scores | think, end of round, restart | game events | order of events in a frame | a round ends once |
| **Matchmaking**, **HLTV/replay**, **sound**, **graphics**, **physics**, **user interface**, **support libraries** | see `components` in `PROJECT.json` | | | | not modelled |

How they interact: the host frame of a server runs the game, takes a snapshot and
calls `SendSnapshot` for each client, which writes into the client's channel; the
channel cuts reliable data into fragments, adds the unreliable rest and hands a
datagram to `NET_SendPacket`, which splits it when it is larger than a routable
packet. The receiver runs the same layers backwards. Files, sound and animation
give jobs to the thread pool and wait for them, cancel them or raise their
priority by their handles.

The hazards of this code, each at the line where it bites, are listed under
`hazards` in `PROJECT.json` with the properties that watch them.

## 2. Modules

| Module | Stands for |
|---|---|
| `NetChan` | `CNetChan` at both endpoints and the network between them |
| `ReliableStream` | what the channel promises: for each sender and stream a queue |
| `MCNetChan` | message sizes, senders and bounds of the channel's instances |
| `NetChanProofs`, `NetChanDeliveryProofs`, `NetChanOrderProofs` | theorems about `NetChan`: its bits and counts, the refinement, the order of the messages |
| `SplitPackets` | `NET_SendLong`, the two queues, the sending thread, `NET_GetLong` |
| `MCSplitPackets` | parts and sizes of the datagrams of its instances |
| `SplitPacketsProofs` | theorems about it |
| `JobQueue` | `CJobQueue`, for any number of queues, threads and priorities |
| `ThreadPool` | `CThreadPool`, `CJobThread` and `CJob` over `JobQueue`, which it extends: every push and pop of the pool is an action of `JobQueue` |
| `MCThreadPool` | priorities of the pool's instances |
| `ThreadPoolProofs` | theorems about `JobQueue` and `ThreadPool` |
| `TSQueue` | `CTSQueue`, for any number of threads |
| `MCTSQueue` | who pushes how many items in its instances |
| `TSQueueProofs` | theorems about it |
| `Signon` | the connection of one client to a server and its signon ladder |
| `MCSignon` | `Signon` for TLC |
| `SignonProofs` | theorems about `Signon` |
| `Snapshots` | packing, delta frames, baselines and their acknowledgement between the server and one client |
| `MCSnapshots` | classes and numbers of changes of its instances |
| `SnapshotsProofs` | theorems about `Snapshots` |

### NetChan

`chan[p]` is the channel object of endpoint `p`: `outSeq`, `inSeq`, `outSeqAck`
(the three sequence numbers), `outRel`, `inRel` (`m_nOutReliableState` and
`m_nInReliableState`, a set of subchannels in place of a bit mask), `sub`
(`m_SubChannels`), `waiting` (`m_WaitingList`), `recv` (`m_ReceiveList`), `stream`
(`m_StreamReliable`), `choked` and `drop`. Bytes are abstracted to (messages of
the item, number of the fragment) and sizes are counted in fragments.

Each action is one call of the class: `SendNetMsg`, `SendFile` (also
`EnqueueVeryLargeAsyncTransfer`), `SetChoked`, `SendDatagram`
(`CreateFragmentsFromBuffer`, `CompressFragments`, `UpdateSubChannels`,
`SendSubChannelData`), `ClearChannel` (`Clear` with the signon message that every
caller sends afterwards) and `ProcessPacket` (`ProcessPacketHeader`,
`ReadSubChannelData`, `CheckReceivingList`, `ProcessMessages`, with handlers that
fail or clear the channel). The network is a set that only grows, less what the
receiver would refuse for good: delivery leaves the datagram in it, so the network
loses, repeats and reorders. `sent` and `received` are histories.

### SplitPackets

One channel sends numbered datagrams to one receiver. `SendLong` and
`QueuePacketForSend` are the two halves of `NET_SendLong`, between which the
sending thread may run; `WakeThread` and `RunThread` are one round of
`CQueuedPacketSender::Run`; `SendQueuedPackets` is the part of the host frame that
is used when there is no thread; `ChangeThread` is the console variable;
`Reset` and `Recreate` start the numbers again. `Receive` is `NET_GetLong`
with the discarding of a stale entry; `Lose` and a second delivery belong to the
network. Queued parts have a stamp modulo `TimeWidth` and, as a history, the time
that the stamp stands for.

### JobQueue and ThreadPool

`JobQueue` cuts `Push` and `Pop` where another thread can come between: the item
goes into a lock-free queue, then it is counted under the mutex; a pop takes one
from the count under the mutex, then looks through the priorities one by one.
`ThreadPool` gives each thread a program counter `pc` and a place to return to
(`after`), and an action for each piece of code between two accesses to state
that other threads change. Workers run `CJobThread::Run`; the master thread makes
the pool's calls; the handlers are other threads that execute or abort a job by
its handle. The job's `m_mutex` is `owner`, `m_CompleteEvent` is `complete`.

### TSQueue

`head`, `tail`, `next`, `elem`, `freeNodes` and `count` are the members of the queue
and of its nodes. `thread[t]` is where a thread is in `Push` or `Pop` and its local
variables. Each action is one access to memory that other threads write: the two
halves of `m_Tail` (`LoadTailSequence`, `LoadTailNode`), the swap of `pNext`
(`LinkNode`), moving the tail (`FinishOwnPush`) or doing so for another push
(`LoadLinked`, `HelpTail`), and in `Pop` the loads of head, tail and `pNext`, the
second look at the sequence (`CheckNext`), the comparison with the tail, the help, the
load of the element from a node that may be free, and the swap of the head. Two
simplifications: the free list, whose head has a version, is a stack with its links
over `pNext`; and what no other thread can see (the node before it is linked,
`m_Count`, which nobody reads on the way) is written with the step beside it.
`popped` is the history of items taken, `blind` says that a push has linked its
node to one that was not in the queue.

`JobQueue` takes the operations of this queue as atomic. They are, as long as `blind`
is false; what happens otherwise is finding 3.

### Signon

`client` is the state of `CClientState` (`m_nSignonState`, `m_nServerCount`,
`m_bUpdateSteamResources` and whether `CL_Retry` has queued a command), `tries` is
`m_nRetryNumber`, `slot` the one client of the server (`m_nSignonState`,
`m_bSendServerInfo`, and whether its full update was sent), `spawnCount` is
`m_nSpawnCount`. `loose` counts the connectionless packets of each kind on their way:
they are lost, and one kind overtakes another. `toClient` and `toServer` are the
reliable messages in the channel.

The channel is what `NetChan` shows of it, with one allowance for each of its calls:
messages arrive in order; `Clear` drops any end of what has been queued (`Kept`), and
inside a handler also the rest of the packet that is read (`Rest`). When the two
channels were not made for each other (`linked` is false: an answer to an earlier
attempt, a slot that was replaced), any message may be missing.

On the client: `UserConnects`, `Retry`, `ClientLeaves` (also its timeout),
`CheckForResend`, `ReadChallenge`, `ReadConnection` (`FullConnect`), `ClientRead`
with one disjunct for each message, and `FinishUpdating`. Whenever the client disconnects or
connects, `CL_ClearState` forgets the map and the wait for its resources (`Cleared`); the
"connect" command does so even without a channel, by `Host_Disconnect`. On the server:
`ReplyChallenge`, `ConnectClient`, `ServerDrops` (kick, timeout, overflow),
`ServerRead` (`ClientInfo` and `SignonState` with `Reconnect`), `SendServerInfo`,
`SendFullUpdate` and `ChangeLevel`, which is `InactivateClients`, `SpawnServer` and
`ReconnectClients` in one frame of the host.

### Snapshots

`world` is what the game keeps in each edict; the game may do anything to one slot
between two snapshots: change its properties, move it out of the client's view,
free the edict, allocate it again. A serial number says which entity it is, and
`Class` the class of each. `lastPacked` is `m_pLastPackedData` with the tick at
which each property changed. `frames` holds the client's frames on the server: the
list of the code is in the order of their ticks, so a set has the same frames
(a frame's `transmit` is `transmit_entity`), `deltaTick`, `forceWait`, `baseline`,
`baselineUsed`, `baselineTick` and `baselinesSent` are the members of
`CBaseClient`; `entities`, `clientFrames`, `clientTick` and `clientBaselines` those
of the client.

`ServerFrame` is one frame of the server: the game, `TakeTickSnapshot`,
`SV_ComputeClientPacks` with `SV_PackEntity`, `SetupPackInfo` and `SendSnapshot`,
which writes a delta (`SendDelta`), everything (`SendFull`) or nothing while a full
update is not acknowledged. `DeltaUpdate` is the decision of
`SV_DetermineUpdateType` for a slot, `Deletions` is `SV_WriteDeletions`.
`ReceiveSnapshot` is `CL_ProcessPacketEntities` with all that it reads;
`SendTick` is the `Tick` of `CL_SendMove`; `ReceiveTick` is
`UpdateAcknowledgedFramecount` with its branches and `ReceiveBaselineAck` is
`CLCMsg_BaselineAck`; `ForceFullUpdate` is the client's request. What the code
would do with an error or a disconnection is recorded in `failures`. Values are
two for each property, and the history `shown` has what the server meant the last
snapshot to show.

The channel between them is what `NetChan` establishes: deltas and ticks are lost
or arrive in order; a full update and a `BaselineAck` arrive, in order, but a
`BaselineAck` may come after ticks that were sent later. A snapshot for which the
client is choked, or one that overflows, is like one that is lost: the frame is
in the list, and the client has not seen it.

## 3. Runs

CHECK_DEADLOCK is FALSE in all of them: the number of messages, datagrams and
calls is bounded, and a system that has nothing more to do rests.

| Run | Question | Result |
|---|---|---|
| `netchan_order` | Is the channel a reliable queue over a bad network, compression included? | `ImplementsReliableStream`, `NothingLost`, `AckedWasRead`, `AckAccounting`, `TypeOK` hold |
| `netchan_clear` | Do the bits and the order survive a `Clear` at any moment, with two streams, choking and a failing handler? | `SequenceInv`, `SubchannelInv`, `HeaderConsistent`, `InOrderUnlessFailed` hold |
| `netchan_splice` | Does a chunk without its header always "wait for a retry"? | `NeverSpliced` is violated (finding 1) |
| `netchan_partial` | Is a datagram with a chunk that cannot be read dropped "whole"? | `HandledOnce` is violated (finding 4) |
| `split_network` | Does a datagram come out whole, whatever the network does? | `WholeUntilRestart`, `TypeOK` hold |
| `split_queue` | Do delayed parts leave in time and in order? | `NotInterleaved`, `SentWhenDue`, `EventuallyWhole` hold |
| `signon` | Do client and server get into the game of the same map together, through retries, reconnections and map changes? | `InGameTogether`, `ResourcesFirst`, `RefusedOnlyWhenOvertaken`, `InGameUntilChange`, `EventuallyInGame`, `TypeOK` hold |
| `snapshots` | Does the client show what the server meant, whatever was lost, and does a requested full update arrive? | `EntitiesAgree`, `GoneWhenDestroyed`, `NothingFails`, `BaselinesAgree`, `Resynchronised`, `TypeOK` hold |
| `snapshot_reuse` | Is what a snapshot deletes never among what it sends? | `DeletedIsNotSent` is violated (finding 2) |
| `thread_pool` | Is each job served once, is a suspended pool quiet, do all calls return with their work done? | `ServedOnce`, `PopFindsItem`, `QuietWhileSuspended`, `DrainFindsJob`, `FinishedOnReturn`, `EventuallySettled`, `TypeOK` hold |
| `tsqueue` | Is every item taken once, is an empty answer true, does every call return, while nodes are used again? | `ExactlyOnce`, `NodesApart`, `NullWhenEmpty`, `InOrderUnlessBlind`, `EventuallyReturns`, `TypeOK` hold |
| `tsqueue_order` | Is the queue first in, first out? | `FifoOrder` is violated (finding 3) |

### Bounds, and why they are enough

*Network channel.* Two subchannels instead of eight: one can be waiting while the
other is sent, resent or dirty, and a subchannel is reused in every run, which is
all that the loop over them tells apart. Two fragments in a packet and messages of
one to three fragments: a message needs one subchannel, exactly one, or two. A
buffer of five fragments lets two messages merge and a third be refused. In
`netchan_clear` the file fits one fragment: with one of several the datagrams of finding 4
repeat messages without a failure, and `InOrderUnlessFailed` is false. The
server sends four datagrams and the client two, or three each: enough for a chunk
to be sent, missed, sent again and acknowledged, with a late copy still under way,
and for a subchannel to be reused after that. One `Clear` by the server and the one
it causes at the client. The theorems have none of these bounds but the
assumption that the bounds are numbers.

*Split packets.* Two datagrams of two or three parts: a part can belong to the
datagram in progress, to the one before or to the one after. One copy and one
restart: a second copy of a part meets the same flag as the first. Time runs to 3
with a delay of one step for each part. `TimeWidth` is 1000, so that the stamps do
not wrap. The queue of the thread holds `MaxQueued` parts, few enough in
`split_network` to overflow.

*Thread pool.* Two workers, the master and a thread with a handle, two jobs, two
priorities, one call of each client besides `AddJob`: each pair of threads can
meet at each job, a job can lie in two queues, and the drain, the abort and the
wait each meet a working, a waiting and a suspending worker. What is proved is
proved for any number of them but the master, which is one.

*Snapshots.* One slot that changes twice: that is enough to create and destroy an entity that
the client saw, to replace it by one of another class, and to let it leave and come back
with other values. One property with two values, so that a change can be undone while the
acknowledgement is under way. Three frames and three ticks, and one request at any moment:
several deltas from one frame and a request while a full update is under way; the server
takes more snapshots until the request is answered. What this run does not reach is a server
that drops, at its limit, the very frame that `m_nDeltaTick` refers to: that takes more ticks
than frames. With two frames and three ticks it happens, and there all properties hold
too; the theorems are for every number of frames. Two
messages under way in each direction are the least that can be reordered. The theorems
have none of these bounds. The invariants were also checked with a second slot, beside the
one that changes, and four ticks (1.8 million states), `Resynchronised` with two
requests, and all of them with two frames and four ticks (0.7 million states).

*Signon.* Two `connect` commands, so that packets of the first attempt meet the second
(two of each kind may be under way); two map changes, so that a message can belong to
the present map, to the one before or to the one before that; one retry of the
challenge before the client gives up. `CL_Retry` starts again as often as it likes. The
same properties hold with two retries and one command, with three map changes, and,
without the liveness property, with two retries and two commands (2.6 million states).
`InGameTogether` and `InGameUntilChange` say `spawnCount <= 4`: with four map changes
five answers to `SIGNONSTATE_CONNECTED` can be under way at once, and the server may
take the client's answers to one start for those to another. TLC finds that with `MaxSpawn = 5`
(without the guard) and that both hold with `MaxSpawn = 4` (0.8 million states).
The run keeps `MaxSpawn = 3`. What does not depend on the number of changes is `RefusedOnlyWhenOvertaken` and `SameMap`, which are proved.

*TSQueue.* Three threads: one pushes twice, one pushes once and pops, one pops. Two pops
meet at the head, two pushes at the tail, each of them with a thread that is left
standing in the middle; the first dummy is popped and used again for the third item,
while a thread still holds it for the head or the tail. `tsqueue_order` has two items for
each of two threads, since it compares the order of one thread's items. With the same
items and one thread that pops, all properties of `tsqueue` hold too.

### Fairness

`split_queue` assumes that the host calls `NET_SendLong` for the next datagram
when it may (`SendLong`) and goes through its loop (`QueuePacketForSend`,
`SendQueuedPackets` in each frame), that the sending thread is scheduled
(`WakeThread`, `RunThread`), that time passes (`Tick`) and that this network, which
keeps the order and loses nothing, delivers (`Receive`). Nothing is assumed of
`ChangeThread`, `Reset` or `Recreate`.

`thread_pool` assumes of each thread that it goes on with what it has begun
(`Step(t)`): the scheduler runs every thread, `DoExecute` ends, and the master,
which has suspended the pool, resumes it. Nothing is assumed of new calls; the
clients make finitely many, and everything must have settled then. Weak fairness
of the whole thread is enough, because a thread with a step to take keeps it until
it takes it, or is woken by an event that only it waits for.

`snapshots` assumes that server and client run their frames (`ServerFrame`,
`SendTick`), that what is reliable is delivered (`ReceiveSnapshot`,
`ReceiveBaselineAck`), and strong fairness of `ReceiveTick(FALSE)`: a `Tick` is
sent with every packet of the client, and one of infinitely many arrives at a
moment when the server's channel has no other reliable data to send. Without the
last the server might take the request for one that the full update under way
answers, again and again (`HasPendingReliableData`).

`signon` assumes that both sides read what arrives (`ClientRead`, `ServerRead`), that
the resources come (`FinishUpdating`), that the command which `CL_Retry` queued is
executed and that the server goes on with its frames (`SendServerInfo`,
`SendFullUpdate`). Nothing is assumed of the user, of map changes, kicks and
connectionless packets. `EventuallyInGame` speaks of channels that stay those made for
each other: what recovers from the rest is a timeout or the user. One assumption is
stronger: while resources are awaited each side reads again and again
(`WhileUpdating`, strong fairness). After a map change two answers to
`SIGNONSTATE_CONNECTED` may be under way, and the second can undo what the first began,
which makes the server send another one. If the resources always came before the second
answer, this could go on for ever; but each round brings the two nearer by the time that
the resources take, and at last both arrive before them.

`tsqueue` assumes that each thread that has begun a call takes its next step
(`Step(t)`); nobody has to call. `EventuallyReturns` is then a matter of finitely many
items: a call starts again only when another one has made progress.

## 4. Findings

1. `engine/net_chan.cpp:1801`: after a `Clear` of the sender, a chunk whose header
   was lost does not wait for a retry but is put behind the fragments of the item
   that the sender has dropped, and the mixture is handled.
2. `engine/sv_ents_write.cpp:772`: a slot that was freed and reused at once is
   deleted by the same snapshot that sends its new entity, when the acknowledged
   snapshot ends before the slot. The assertion on line 792 says it is not.
3. `public/tier0/tslist.h:797`: the swap of `pNext` has no version. A push that has
   read the tail can link its node to that node after it was popped and taken for
   another push, which has not linked it yet. The first push returns, but `Pop` does not
   find its item until the second push goes on: `Pop` returns `nullptr` (the assertion of
   `CJobQueue::Pop`, `vstdlib/jobthread.cpp:137`, fails and the job is counted again), and
   later items of the same thread are popped first. Nothing is lost or taken twice, as
   `ExactlyOnce` shows.
4. `engine/net_chan.cpp:2872`: a packet whose second chunk cannot be read is not
   "dropped whole". The chunk read before it stays in the receive list, is handled
   with the next reliable packet, and again when the packet is resent.

Seen while modelling, without a run of their own:

- `vstdlib/jobthread.cpp:828`: raising the priority of a serial job puts it into
  the shared queue, where it overtakes the serial jobs before it, against the
  comment on `JF_SERIAL`. `SerialInOrder` is false with two serial jobs.
- `engine/baseclient.cpp:1145`: `NETMsg_SignonState` compares the state and the spawn
  count only. When the map changes twice while a client connects, three answers to
  `SIGNONSTATE_CONNECTED` are under way, and the client's `SIGNONSTATE_NEW` to an earlier
  `ServerInfo` of the same map may be taken for the one to the last: the client gets
  `SIGNONSTATE_PRESPAWN` while it waits for its resources, and `FinishSignonState_New`
  (`engine/client.cpp:1985`) then skips the checks and the loading. `ResourcesFirst` says
  that this does not happen with one map change; without `spawnCount <= 2` it is false.
- `engine/sv_main.cpp:2038`: the repeated `S2C_CONNECTION` lacks the point that
  `engine/baseclientstate.cpp:1502` looks for, so that the client ignores it. A first one
  that is lost is made good by the client's next challenge.
- `public/tier0/tslist.h:724`: `ValidateQueue` calls a tail that lags behind corrupt,
  although `Push` says that it may ("This can fail", line 808).
- `engine/net_ws.cpp:1216`: the flags of a reassembly entry survive a restart of
  the sender's numbers, and a part of a new datagram completes an old one. Hence
  `WholeUntilRestart` and not `WholeDatagrams` is checked. In multiplayer the
  channel's checksum usually refuses the result.
- `engine/net_ws_queued_packet_sender.cpp:220`: times are compared without regard
  to the wrap of 32-bit milliseconds; a part that is due waits 49 days or for the
  next part. With `TimeWidth = 4` and a run of five steps `SentWhenDue` is false.
- `engine/sv_ents_write.cpp:150`: an entity that was created and read after the
  acknowledged frame and destroyed before the next acknowledgement is in neither
  snapshot of a delta, so nothing deletes it; the client keeps it, out of its
  frame, until the slot is used again. `GoneWhenDestroyed` is what the code
  promises: entities of the frame that the delta is from.

## 5. Proofs

All theorems follow the same line: an inductive invariant, a step for each
action, and one temporal step. They use the assumptions that the modules name and
nothing else; in particular the sets of peers' messages, threads, queues, jobs and
subchannels are arbitrary (two peers, finitely many threads).

*NetChanProofs.* First `TypeCorrect` and `AccountingCorrect`. `TypeOK` alone is not
inductive: that `pendingFragments` stays a natural number when an acknowledgement
lowers it needs `AckAccounting`, and that in turn needs to know that the
subchannel's chunk lies within the head item and that an `Item` is never empty.
The two are proved together. The counting goes over `Cardinality` of unions of
disjoint intervals, with lemmas of its own for each helper of the model.

Then `SequenceCorrect`, `SubchannelCorrect` and `HeadersConsistent`.
The invariant is the alternating-bit argument: for each subchannel and state
(free, to send, waiting or dirty) it says how the bits of sender, receiver and of
every datagram that can still be accepted relate, and that the only data under
way on it is the last transmission. `HeaderConsistent` follows from it: "reliable
state invalid" is never reached.

*NetChanDeliveryProofs.* `StreamImplemented` (each direction of the channel is the queue of
`ReliableStream`), `NothingIsLost`, `AckedIsRead` and `OnceAndWhole`. The invariant cuts the
messages accepted so far into consecutive pieces: what left the waiting list, each
waiting item, and the reliable buffer (`Layout`). The receiver has handled everything up to
the head item, or up to its end; in the first case the receive buffer holds exactly the
fragments of the head that are acknowledged, or pending on a subchannel whose bit the
receiver has taken (`Stage`, `Buffered`, `Handed`). So a fragment that is retransmitted is
never one that was read, and an item is complete when and only when every fragment of it
was read. `Carried` says that every datagram that the receiver would still accept has the
chunks that the sender's subchannels have now, which follows from the bits
(`ProtocolInv` of `NetChanProofs`): without it a late datagram could bring fragments
of an item that is gone. Then each action moves the cuts or leaves them: `SendNetMsg`
extends the last piece, `CreateFragmentsFromBuffer` cuts there or merges the last two pieces,
`RemoveHeadInWaitingList` drops the first cut, and reading the last missing fragment hands
over the piece of the head. Only `SendNetMsg` maps to `Accept` of `ReliableStream` and only the
reading of that fragment to `Deliver`; all other steps are stutters.

These four have a hypothesis, `Undisturbed`: no messages for the file stream (`AsyncMsg`
and `FileMsg` are empty), no `Clear` (`Clearing` is empty, `MaxClears` is 0) and no failing
handler. It is on the constants only, and `netchan_order` satisfies it. It is not
for convenience: a datagram with chunks of both streams can be read by half, after which
`HandledOnce` and `NeverSpliced` are false (findings 1 and 4); `Clear` drops what is queued; a
failed handler sees its messages again. Loss, repetition, reordering, choking,
compression, background transfers and any number of subchannels, fragments and sizes are
covered.

*NetChanOrderProofs.* `InOrderCorrect`: the messages of a stream reach their handlers in the
order in which they were accepted and each at most once, but for what a handler that
failed is given again. Its hypothesis is `WholeFiles`: a file or asynchronous transfer fits
one fragment. Everything else may happen: both streams in one datagram, items of any
number of fragments on stream 0, `Clear` by the owner or from inside a handler, handlers that
fail, loss, repetition and reordering. `netchan_clear` satisfies it. Without it the property is
false (finding 4): a datagram is dropped for one of its chunks after the other was
read, and sent again. With it a chunk of stream 1 starts a file and can always be read,
and that of stream 0 is read first, so that a dropped datagram has left nothing behind.

The layout of `NetChanDeliveryProofs` does not do here. `Clear` drops what waits but not what
the subchannels hold or the receiver has begun, and a buffer that a failed handler kept
is handled again when any later chunk is read. So the invariant (`Placing`) names for
each direction and stream the cuts of the waiting items, the item of each chunk that a subchannel
holds, dirty ones included, the item that the receiver read last, and how far its
handlers have got. No fragment is in two subchannels; what was sent later is of the same or a
later item; nothing that the receiver would still accept is of an item before the last one
that it read; and the fragments of that item which it has read are those that no
subchannel with another bit holds (`Taken`). Hence a buffer whose item was handled
cannot become complete again by counting old fragments (`Spent`), unless the handler failed.
`Clear` keeps this: it ends the items, not the chunks.

*ThreadPoolProofs*, the queue. `PopFindsItemCorrect`. For each queue, the number of items is the
count, plus those pushed but not yet counted, plus those counted out but not yet
found (`Balance`), and the threads that look for an item at a priority or below
find enough items at that priority or below (`Enough`). The second is needed
because a scan goes down only: what is pushed above it after it passed must not
be what it was promised. It is stated over the sets of positions, scanners and
counters, so that no sum or induction is needed.

*ThreadPoolProofs*, the pool. `PoolImplementsJobQueue`: each step of the pool is a step of
`JobQueue` or leaves its variables alone, so `PoolPopFindsItem` follows from the
theorem above. `ServedOnceCorrect`: the invariant says what is true of a thread at
each place (it has a job, it holds the mutex of that job, the job is in the state
that the place implies) and of a job (the number of runs and of cleanups is given
by its status and event).

The rest of the pool's theorems need to know where everybody is. `PauseInv` says for
each place of a thread where it will return to, that all workers are suspended
while `nSuspend` is positive and at which places of the master it is. That is
`QuietCorrect`, for the one master that the model has; with the balance of `JobQueue` it gives `DrainFindsJobCorrect`, since
nobody but the master is between the halves of a pop then, so that a queue with an
item has a positive count. `OwnerInv` ties the mutex of a job to the thread inside it.
`PlayInv` says that a job which nobody has served is in a queue or in somebody's hand:
without it a drain could find its queues empty while the job it promised is
elsewhere. `PromiseInv` says at each place of a call what is true of each job that the
call is to finish, from "accepted and urgent enough" during the drain to "finished"
at its end (`FinishedOnReturnCorrect`). `PoolTypeCorrect` follows from these, not the
other way round: that a thread at a place where the code follows its job pointer has
one is a matter of what happened before.

*TSQueueProofs.* `ItemsTakenOnce`, `NodesStayApart`, `NullOnlyWhenEmpty`, `FirstInFirstOut` and
`QueueTypeCorrect`, for any finite set of threads, any of which pop, and any numbers of
items. The only assumption is the one on the constants in `TSQueue`; there is no bound on the
nodes, which are as many as there are items and a dummy, so that `new` never fails
(`MadeFits`).

The queue is what `next` leads to from the head, and the links alone do not say why that ends,
or what a thread may know that read a head or tail which is long gone. The inductive
invariant `IInv` therefore says that there is a history `g` with which the state agrees
(`Good(g)`); each step either keeps the history or has a new one (`PushItemGood`,
`LinkNodeGood`, `SwapHeadGood`). `g` puts every node on a string, or elsewhere: the queue
is one string, and each thread with a node that is not linked yet has one, because
a push that read a recycled tail hangs its node on the node of another push. On
a string, positions count up along `pNext` (`Chains`, `Linked`), in the queue a position is the
sequence of the head or tail when it gets there, also for nodes that have been popped.
- `Ends`, `Roots` and `Spare` say where head and tail, the nodes of the pushes and the nodes that
  are elsewhere (not made, free, or about to be freed) are. Only a node at the end
  of a string has `End()`, and none that is elsewhere has it: that is why a swap of `pNext`
  that succeeds appends to a string, even one that reads a stale tail.
- `Births`: a thread about to link to the string of another got its node before that one. Hence it
  never links to its own string, and the strings stay free of cycles.
- `Contained`, `Taken`, `Counted`: the nodes of all strings but the dummy hold each item that was
  pushed and not popped, once; two threads that have swapped the head hold
  different items; the head's sequence is the number of items popped.
- `PushPlace` and `PopPlace` say, for each place of a thread, what is true *while the sequence
  that it has read is still the present one*: then the node it read with it is the
  head or the tail, its `pNext` is the next node of the queue, and its `elem` is the item there. All
  compare and swaps of head and tail compare the sequence, so nothing more is needed, and
  the two halves may have been read at different times.
- `InOrder` is the order, and is claimed only while no push was `blind`.

`After`, a recursive function, is related to the strings by an equation for its walk
and the least position at which walk and string would differ (`AfterChain`): that a set of
numbers has a least element takes the place of induction.

*SignonProofs.* `SignonTypeCorrect`, `SameMapCorrect` and
`RefusedOnlyWhenOvertakenCorrect`. The invariant follows the messages in the channel
from the first to the last: counts rise (`LiveInv`), each message follows the state
that the one before it leaves the client in, and the last leaves it in the state of
the server's slot or in `SIGNONSTATE_CONNECTED` (`OrderInv`). `FreshInv` says what is in
a channel that the client does not know of yet, so that `FullConnect` may link it.
`RefusedOnlyWhenOvertaken` follows: a linked client reads a message of the ladder only in the
state and with the count that it is for, and the notice that a map ends has a count
which is neither below the client's own nor that of the present map.
The lemmas on queues say what `Append`, the removal of the first message, any loss at
either end (`Kept`, `Rest`) and the loss of any message leave true. There is no bound
on map changes, connects, retries or packets.

*SplitPacketsProofs.* `SplitTypeCorrect`; `WholeUntilRestartCorrect`, for which
`FirstRun` says that a sequence number tells its datagram, that a flag tells whose
part lies in its place of the buffer, and that the count is the number of parts less
the size of a set of marked parts, in which the last one has told the total;
`NotInterleavedCorrect`, whose invariant `InTurn` says that everything that waits in one
of the queues is of the datagram sent last; `SentWhenDueCorrect`. The last two
have hypotheses. `NotInterleaved` is for a channel that nobody forces (`Forced = {}`:
without `CanPacket` the code does interleave datagrams) and that has kept its address
(`channel = 0`: the queue that is checked is the one for the address). `SentWhenDue` holds
while the stamps have not wrapped, `now + MaxParts * Delay < TimeWidth`; afterwards it
is false, as said above. Each hypothesis is one on the state or on a constant, and the
runs satisfy it. That a function on numbers has a largest value is proved by way of the
least of its bounds (`Least`).

*SnapshotsProofs.* `SnapshotTypes`, `EntitiesFollow`, `DestroyedAreGone`, `BaselinesFollow` and
`AcksInOrder`, for any number of slots, properties and ticks. Why a delta can be
read depends on snapshots that neither side keeps any more: the client may hold for a
slot what an older frame showed, and the server's `changed` ticks compare with frames it has
dropped. The inductive invariant therefore is `Agrees`, that there is a history
`H`, one snapshot for each tick, with which the state agrees (`SnapInv(H)`); a step of the
server extends it, every other step keeps it. Its parts: a serial number that is
there at two ticks is there between them, and a value that has not changed since a tick is
the one that was there (`Lasting`, `Unchanged`); snapshots under way are newer than all
that the client knows, and its ticks come in order until it asks for a full update
(`OrderInv`); at most one full update is under way, after everything else, and the
server waits for its tick (`WaitInv`). `Known` are the ticks that the server may take as
acknowledged now or when it reads what is under way. For each of them, and for each frame that
a delta under way starts from, the client still has the frame, and for each entity in it
what some later snapshot made of it, or the entity has been replaced since (`KeptInv`);
that is what makes the delta of a server that knows less than the client come out right.
`SyncInv` says that a `BaselineAck` under way either will be refused or stands for the
baseline which the client has made of the same message. What the client shows
(`ShownInv`) follows from the message at its tick.

`ReadableUnlessDeleted` says that nothing fails in a behaviour in which no snapshot deletes what
it sends: a delta cannot be read for that reason only. That assertion is false in
general (finding 2). `DeletedNotSent` and `AllReadable` prove it, and with it `NothingFails`,
for a server whose edicts are all occupied when the client becomes active
(`Present = Slots`, as in the run `snapshots`): no snapshot ends before a slot then.

Only model-checked: `InGameTogether`, `ResourcesFirst` and `InGameUntilChange`, which hold for few map changes
only, so that their invariant has to count the answers under way; and the liveness properties `EventuallyWhole`,
`EventuallySettled`, `Resynchronised`, `EventuallyInGame` and `EventuallyReturns`,
which the prover cannot do.

## 6. What is not modelled

*Network channel*: writing of files to disk and its naming rules beyond "a file
that exists is not written again"; compression beyond its effect on the number of
fragments; voice and the sizes of unreliable data; splitscreen channels, rates and
statistics; challenge and checksum, which refuse foreign or damaged datagrams as
loss does; timeouts, shutdown and overflow, which end the channel (a reliable message that does not fit
is not accepted; that the channel is then marked and dropped is left out). TCP streaming is compiled
in but switched off. In single player a subchannel may carry more fragments than
three bits count; the model has the multiplayer limits.

*Split packets*: creation of sockets, loopback, encryption, Steam sockets,
out-of-band packets.

*Thread pool*: starting and stopping (and with it `Flush`), per-frame jobs, the
displayed number of jobs, reference counts, a pool without workers, jobs bound to
threads of the pool, the parallel-for helpers, and two threads that suspend or drain the pool
at a time: `Master` is one thread. `YieldWait` is modelled for one job.
The events are flags: a waiter sees the flag at some moment while it is set.

*Snapshots*: HLTV and replay, whose clients repeat the protocol; the culling of
properties for each client by send proxies; the local backdoor of single player;
serial numbers that are cut to ten bits; temporary entities and string tables,
which travel in the same packet; clients that are bots.

*Signon*: rejections (full server, wrong password or version), lobbies and
reservations, encryption, authentication by Steam, users of a split screen, HLTV,
demos, listen servers, and `signonbuffer` contents. The state of snapshots is one flag
here (`slot.full`); what follows the first full update is `Snapshots`.

*TSQueue*: `Purge`, `RemoveAll`, `ValidateQueue` ("*not* threadsafe"), `Push` and `Pop` of
nodes that the caller owns, the steps inside `CTSListBase`, and `bTestOptimizer`.

*Threading primitives*: events are flags in `ThreadPool`; `CThreadEvent`,
`WaitForMultiple`, the mutexes and `CThreadSpinRWLock` have no module.

The other components are listed in `PROJECT.json` with the reason: planned (below),
numerical, data driven, or the other half of an external service.

## 7. Plan

1. `NetChan` with `ReliableStream` and its proofs, the refinement and the order included: done.
   What is left is the order of a stream with files of several fragments as far as
   finding 4 leaves it.
2. `SplitPackets` and its proofs: done.
3. `JobQueue`, `ThreadPool` and their proofs: done.
4. `Snapshots`: done, with proofs of its safety properties.
5. `Signon`: done, with the theorems that hold for any number of map changes. For
   `InGameTogether` the invariant has to say, for each number of answers to
   `SIGNONSTATE_CONNECTED` under way, what the messages behind the last one are.
6. `TSQueue`: done, with proofs of all its safety properties but the one that the code breaks.
   `CThreadEvent` and `WaitForMultiple` would be the next module.
7. User commands and prediction; string tables with the acknowledged tick;
   `datamanager`; the game rules' rounds; the host state.
