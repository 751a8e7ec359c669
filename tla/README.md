# A TLA+ model of rclientpp

rclientpp is a C++11 Redis client: a blocking connection over a non-blocking
socket, a RESP 2/3 parser, small data-structure wrappers, publish/subscribe,
a sentinel client, and a connection pool that follows the sentinel's master.
This directory holds its TLA+ modules, the TLC runs and the TLAPS proofs.

## Inventory

| part (src/rclientpp) | state | operations | who calls it |
|---|---|---|---|
| `middleware/sentinel_factory` | `_master_node`, stop flags, one priority queue with a `state` per thread, locals of `command_thread` | `init`, `async_command`, `check_and_retry_master`, `command_thread`, `start`, `stop`, `sentinel_event_handle` | application threads; its own command threads; the thread that runs `start` |
| `ds/sentinel` | one `RClient` per sentinel, the list of subscribers | `check`, `get_masters`, `get_master_by_name`, `get_slaves`, `subscribe_event`, `stop_subscribe_event`, `event_funcp` | the pool |
| `ds/subscriber` | `_is_stop`, callbacks | `subscribe`, `p_subscribe`, `recv_msg`, `recv_p_msg`, `stop_recv` | the sentinel client, applications |
| `core/rclient` | `_is_connect`, `_sockfd`, timeouts, receive buffer | `connect`, `command`, `get_results`, `do_parse`, `has_more_data`, `check_connection`, `get_role`, `use_resp3`, `close`, `reconnect` | everything above |
| `core/rclient_buffer` | memory, `_read_pos`, `_write_pos`, `_size` | `has_written`, `has_read`, `set_read_off`, `rearrange`, `resize`, `enable_size`, `write`, `read`, `reset` | `RClient`, the parsers |
| `core/async_socket_client`, `core/sock_utils` | socket descriptor, fd sets | `connect`, `read`, `write` with a timeout, `close` | `RClient` |
| `parser/*` | none between calls | `parse`, `process_*`, `get_aggregate_len`, `get_len_string` | `RClient::do_parse` |
| `ds/rd`, `rdstring`, `rdhash`, `rdset`, `publisher` | none | format a command, send it, read one reply | applications |
| `core/rclient_def.h`, `rdef_impl.cpp`, `rclient_utils.cpp`, `core/ptr_buffer` | value classes | constructors, `split` | everything |

How the parts interact. A command thread of the pool owns one `RClient`; it
sends a command with `RClient::command` (which first empties the receive buffer
and the socket) and waits in `get_results`, which reads the socket into the
`RClientBuffer` and parses one value out of it. The thread that runs `start()`
sits in `Subscriber::do_recv_msg` on a connection to a sentinel; each message
becomes an event (`Sentinel::event_funcp`), the event a control task
(`sentinel_event_handle`), and the task is pushed to the queue of every command
thread. `async_command` and `check_and_retry_master` run on application threads
and push to the same queues.

What is hard. `_master_node` is read without its lock; queue states are read
before the lock of the queue is taken; control tasks overtake commands; a parked
thread ignores most tasks; a reply may come late, in fragments, or together with
the next one; writes and reads have timeouts; flags are plain booleans written
by several threads; reconnects fail halfway.

What makes each part correct:

- pool: every running thread ends up on the announced master; a command is
  executed at most once, by a thread that was ready; the states `async_command`
  relies on are true; stopping ends it.
- sentinel client and subscriber: the address asked for is the master's, or was
  when it was asked for; who subscribed knows each later one; no event is lost or handled twice between the
  acknowledgement of the subscription and the stop; a stop ends the loop.
- client: a reply is the reply of the command just sent; a fragmented reply
  gives the same value as a whole one; a time-out is reported as one.
- buffer: unread bytes survive every operation, in order.
- socket: `write` ends, with everything written or an honest count; every open
  descriptor has one owner, and no client closes another's.
- wrappers: what a call reports as success is the server's answer to the command
  this call wrote.
- parser: the value and the bytes consumed are those of the RESP grammar,
  however the bytes were cut; incomplete input consumes nothing.

## The modules

| module | models |
|---|---|
| `SentinelFactory` | the pool: command threads, queues, event thread, application thread, `stop` |
| `CommandLedger` | what the pool promises about a command; the abstract specification `SentinelFactory` implements |
| `SentinelFactoryClaims` | statements of comments that the code does not keep |
| `MCSentinelFactory` | symmetry for the runs |
| `SentinelFactoryProofs` | the TLAPS proofs about `SentinelFactory` |
| `RClientBuffer` | the receive buffer, one action per operation |
| `ByteStream` | what the buffer promises; `RClientBuffer` implements it |
| `MCRClientBuffer`, `RClientBufferProofs` | symmetry for the run; proofs |
| `RClient` | a connection: connect, command, get_results, do_parse, over a socket and a server |
| `RequestReply` | what a connection promises about replies; `RClient` implements it |
| `RClientClaims`, `RClientProofs` | a statement of the manual the code does not keep; proofs |
| `BaseParser` | the functions that read one element of a reply, over bytes |
| `RespParser` | `parse_array`, `do_parse`, and a stream of replies cut anywhere |
| `MCRespParser`, `RespParserClaims` | replies for the runs; the reads without cuts for the claims |
| `RespParserProofs` | proofs about the parser and the stream |
| `Subscriber` | the thread that receives published messages, with `Sentinel::subscribe_event` and its stop |
| `SubscriberClaims`, `SubscriberProofs` | what the code does with "the rest of data"; proofs |
| `Sentinel` | the sentinel client, composed with `Subscriber`: `check`, the queries, the feed of switches, the address the pool keeps |
| `SentinelProofs` | proofs about the composition |
| `AsyncSocketClient` | connect, the write loop and the descriptors of all threads |
| `AsyncSocketClientClaims`, `AsyncSocketClientProofs` | the pool's use of descriptors; proofs |
| `Rd` | the wrappers, composed with `RClient`: `redis_command` and what each wrapper makes of the reply |
| `RdClaims`, `RdProofs` | a comment on `RdString::set` that the code does not keep; proofs |

The layers meet at what each promises. `Rd` EXTENDS `RClient` and drives its
steps; `Sentinel` EXTENDS `Subscriber` and adds the calls before the subscription
and the meaning of the messages. `RClient` takes a reply for two units that can
be cut (the bytes are `RespParser`'s and the memory is `RClientBuffer`'s) and a
write for one step with three outcomes (the loop is `AsyncSocketClient`'s);
`Subscriber` takes `get_results` and `do_parse` as steps on the same units;
`SentinelFactory` takes a call of the client as one step with an outcome. Nothing
below is assumed to be better than its own module shows, with three exceptions:
`RClient` and `Subscriber` take every reply to be one the parser reads however it
is cut (`Readable` in `RespParser`, and proved there); they take a command whose
written length is its size to be on the socket (see `WholeIsSent` below); and
callbacks return.

### SentinelFactory

One variable per piece of shared or local state: `master` is `_master_node`,
`qstate[w]` the atomic `state` of queue `w`, `ctl[w]`/`cmds[w]` the content of
its priority queue (control tasks are only counted, since equal tasks cannot be
told apart; commands are distinct), `pc`, `st`, `running`, `addr`, `link` the
progress, the local `state`, the command, the client address and the connection
of `command_thread(w)`; `evPc`, `evTask`, `evIdx` the thread that runs `start()`;
`appPc`, `appCmd`, `appIdx`, `turn` an application thread; `stopPc` the thread
that calls `stop()`. `link` keeps apart a closed client (`_is_connect` false), an
open one whose role nobody has checked, and one on which `get_role` said master.

A step ends where another thread can see or change something: reading `ip` and
`port` of the master node are two steps in either order (the code copies them
unlocked); looking at a queue state and pushing to the queue are two steps;
pushing an event visits one queue per step. Each blocking call on the network is
one step with an environment-chosen outcome. The test of the stop flag and the
pop are two steps (`Awake`, then `TakeControl`, `TakeCommand` or `FindsNothing`):
the thread sleeps between them, so one more task may be taken after `stop()`. A pop
and the local decision it leads to are one step, because nothing the decision reads
is written by others.

`init()` is the initial state (all threads spawned, all states 2). What is
assumed: `init()` has returned true; one application thread calls
`async_command` and `check_and_retry_master`; the state handler does not call
back into the pool; copying the string of a node that is being replaced does not
crash. The recovery loop of `sentinel_state_handle` is not modelled since it
cannot run (see `SubscriptionRecovers` below).

Properties: see the comments above each in the module. `SettledOnMaster`,
`UsableIsConnected`, `OnlyStartedWorkersHoldCommands`, `CommandInOnePlace` are
invariants; `KeepsLedger` is the refinement of `CommandLedger`; `FollowsMaster`,
`AcceptedIsTaken`, `StopReturns`, `StopEndsReceiving` are liveness.

Fairness: weak fairness of each command thread as a whole, of the loop steps of
the event thread and of the application thread, and of the steps of `stop()`
after the first. The receive loop tests its stop flag only when it has handled what
is in the buffer; since that is finite, `RecvStops` is taken strongly fair. The calls of a command thread end because connect, read and
the wait for writability have timeouts (`AsyncSocketClient::write` on a broken
connection is the exception, it can spin; the liveness results assume it
returns). No fairness is assumed of events, of calls of the application, of a
network failure, or of which outcome a network call has.

Events and checks may come for ever, and control tasks overtake commands and, by
their number, one another. So a command can starve: a `check_and_retry_master` that
is called again while the thread still tries to connect, or a stream of events, is
always on top of it. `AcceptedIsTaken` exempts this, and `FollowsMaster` the tasks
that overtake a `MasterChange` (`ComeForEver`); without the exemption TLC finds the
starvation of the command in the run `factory_worker`. Behind any finite number of
control tasks, however they are spread, the command is taken.

### RClientBuffer

`mem`, `size`, `rpos`, `wpos` are `_buffer`, `_size`, `_read_pos`, `_write_pos`.
`log` and `total` are history: all bytes received since the last reset. `out` is
what `read` copied or a parser looked at. Operations have the arguments their
callers can pass: `has_read` any number (`move_item` adds two without looking),
`set_read_off` a position already passed, `reset` followed by the bytes that
`command` lets the socket write over the buffer while it empties it. Memory
nobody has written holds `Junk`, so a byte of it that becomes readable shows.
`set_write_off` has no caller and is left out.

### RClient

Commands are numbered as they are written; the reply to command n is the units
2n-1 and 2n, so every queue between the server and the caller is an interval:
`made` has reached the socket, `got` was taken from it, `head..last` is unread
in the buffer. A command's drain can throw away the head of a reply whose tail is
still to come (`Orphan`). `do_parse` judges the tail by its first byte: it may begin
with an element of an aggregate, and is then returned with code 0 (`AnswerPart`,
`ret` 0), as one reply or as several; or a parser fails on it; or, if it has the
look of a longer value, what comes next is taken along with it. The properties say
when this can happen, and that it is all that can: see `FreshReply`. `pc` is the place inside a call, `op` the call, `code` and `ret`
its result. `drained` remembers how far the stream had come when the last
command emptied buffer and socket. Abstractions: durations (any wait may time
out); a connect that is given up may leave the socket still connecting (`Opens`); a
command written in part is completed by the next one and both get one
reply; error strings and `recv` (which has no caller) are left out; a refused
AUTH is a reply like any other. `WriteSpins` is `AsyncSocketClient::write` on a
broken socket.

### BaseParser and RespParser

A byte is a string, the unread buffer a sequence of bytes, and each function
returns the code, what is left unread and the value. `Bytes` is the grammar in
the comment of `rclient_def.h`, for one value given the bytes of its elements.
`Values` are the replies a server may send (`Replies`) with their elements, and
`Encode` gives the bytes of each: `EncodeAssumption` says that they are those of the
grammar, so that nothing of the server is left open. A run fixes the replies; the
bytes arrive in any pieces; the caller reads on at `NEED_MORE_DATA` as
`get_results` does and parses on while bytes are left as the subscriber does.
Two reads of memory nobody has set are choices of the step that parses: the
byte behind the received ones (`text[1]` in `process_blob_string`, from `Stale`)
and the boolean `process_bool` leaves alone. `process_double` is modelled up to
the test of the symbol, at which each of its calls ends. `parse_array` is a recursive
function of the buffer, the number of elements still to read and the boolean; the
operators its loop is made of (`ArrayFrom`, `Added`, `Element`, `Nested`,
`Elements`) take it as an argument. Lengths are mathematical: `std::stoi` throws on
one above the range of int, the replies here are shorter.

### Subscriber

Replies are numbered, acknowledgements first, and have two units each: `made`,
`got`, `head` count what reached the socket, the buffer and the parser. `late`
counts the replies to commands that had timed out on the connection and come in
front of the stream: the first of them is taken for the acknowledgement, and the
subscription is given up. `pc` runs through `do_subscribe_event` (`check`,
`send`), `handle_subscribe_res` (`ack`, `rest`) and `do_recv_msg` (`enter` to
`drain`). `stop_subscribe_event` is one step, under its lock. The endless loop of
`handle_subscribe_res` on a part of an array shows as a `rest` with no step. One
call of `subscribe_event` and one stop are modelled; the text of messages is not.

### Sentinel

`call`, `at`, `conns` are the call in progress and the node or connection of its
loop, and the number of clients in `_sentinel_connetions`. `owed[c]` is the queue
of replies connection c has not delivered when its command gave up; the next
command drops the ones that have come and gets the first of the rest, which is
how an answer of `check()` or of another query can be taken for the address.
`known` is `_master_node`; `truth` is the master's address, numbered by the
switches before it, so that "older" can be said. `news` is what the messages
published on the subscribed connection say. `asked`, `lookups` and `behind` are
history.

A caller makes any sequence of `check`, list and address queries, and subscribes
once it has an address; `SentinelFactory::init` and `start` are the case with one
`check` and one address query. The handler of the pool is part of `Event`: it
takes every `+switch-master`, whatever name it carries (`Foreign`). Assumed of
the sentinels: they agree on the master, and publish a switch when it happens.
RESP 2 is covered as far as it matters: its nil is an array without elements.

### AsyncSocketClient

`table` is the kernel's: the connection behind each descriptor. `afd[t]` and
`rfd[t]` are the two copies of the descriptor's number, in the socket client and
in `RClient`; 0 stands for -1. `connected` is `_is_connect`. `count` is
`written_len`, `put` the bytes that went to a socket, byte -1 being the memory in
front of the command. `closed` and `abandoned` are history: a `RClient::close()`,
and connections whose number a second `connect` overwrote. Descriptors come lowest
first, and a number is free again when it is closed. Abstractions: a failed select
or write has no cause; SIGPIPE is taken to be ignored (the code sets no
`MSG_NOSIGNAL`, and without that the process ends there); `FD_SET` of -1 is taken to
be harmless; a write after a successful select is taken not to fail for lack of
room. Behind a broken connection the count runs on towards minus infinity, which
`MaxErrors` stops.

### Rd

`wrap` and `result` are the wrapper called and what it returned, sorted into the
five classes a caller can tell apart. `kinds[n]` is what command n asked for: the
reply to it is of a type in `Says`, chosen when it is read. A part of a reply that a
drain has cut in two can be of any type, so after a time-out in the middle of an
SMEMBERS a `get` may report one of its members; `SuccessIsOwn` says that this takes
such a drain. When a parser gives up in the middle of an array, the wrappers that do
not look at the code return it (`Unfinished`). `torn` says that the last
line on the connection was written in part: the next line is then the rest of it,
and the two are one command of unknown kind. Between wrapper calls the client may
be called directly, so late replies meet wrappers. `get_number` of a value that
holds no number is a choice (`number`): it reads a member of a union that nobody
set. Wrappers that differ in the name of the command alone are one.

## The runs

| run | instance | what it shows |
|---|---|---|
| `factory_commands` | 2 threads, 2 commands, +odown and checks without limit, 1 control task waiting at a time | commands are never copied, lost silently or executed twice, while threads start, fail, park and stop; two commands so that one is queued while another runs |
| `factory_worker` | 1 thread, 2 nodes, 1 command, all events and checks without limit, 2 control tasks waiting at a time, fair | with all task types on one thread: types, a queue marked ok has a connected client, no thread stays behind a switch, and an accepted command is taken unless control tasks come for ever. Two tasks waiting are what it takes for one to overtake the other, or to park a thread with a switch behind |
| `factory_live` | 2 threads, 2 nodes, +sdown, +odown and switches without limit, 1 control task waiting at a time, fair | a switch reaches every thread; stop ends the threads and the receive loop |
| `buffer` | size 2 growing to 4, 5 bytes between two resets, symmetric bytes | no unread byte is lost, repeated or reordered; the buffer is a `ByteStream`: sizes around one doubling, with more bytes than fit, reach every branch of every operation |
| `client` (`Rd`) | 3 commands, buffer of 1 unit that grows without limit, AUTH, wrappers and direct calls | a reply is fresh, in step and given once, parts only of a reply cut in two; error codes are honest; a wrapper's success is its own answer, but for such parts; calls end: three commands let a late reply, a cut one and a fresh one meet, and a buffer smaller than a reply must grow |
| `parser` | all pairs of 13 replies, any cuts | values come out as sent, each takes its own bytes, none waits for more: a pair shows what one reply leaves to the next |
| `socket` | 2 threads, 3 descriptors, 2 sockets each, 2 bytes | the result of a write counts what was sent; nothing leaks but what `connect` overwrote; no thread closes another's socket unless `close()` was called; writes end on a live connection: a thread can hold one socket, abandon another, and free a number that the other takes |
| `sentinel` (`Sentinel`) | 2 sentinels, 4 calls, 2 switches, 2 messages, 2 late replies | the first address asked for is current; messages are handed over once and in order, none is left in the buffer; a stop ends the loop; a switch is heard of: four calls are a check, two queries whose answers come late, and another |
| `claim_role`, `claim_response`, `claim_socket`, `claim_rest_finished` | the smallest instance that shows it | each finds a comment or the manual violated by what the code does; see PROJECT.json "findings" |

`sentinel` subscribes to one channel, as the pool does, and `factory_worker` has one
thread; that the same invariants hold for more of both is proved.

The four `claim_*` runs are one per component. The `*Claims` modules state
more of what comments and the manual say and the code does not do; each has a
configuration `Claims_*.cfg` that shows it
(`tlc -config Claims_X.cfg <module>.tla`):

| configuration (module) | says | the code |
|---|---|---|
| `BusyIsExecuting` (`SentinelFactoryClaims`) | `sentinel_factory.h:44`, state 1 is busy | a command that cannot be written leaves 1 behind in an idle thread (`sentinel_factory.cpp:199`) |
| `ParkedExecutesNothing` | `sentinel_factory.cpp:485`, +odown pauses the sending of commands | a parked thread sends queued commands, and an answer marks it usable (`:195`) |
| `QueueWaitsForConnection` | `sentinel_factory.h:59`, after a reconnect the thread executes the tasks not executed before | while the client is closed commands are popped and dropped (`:198`) |
| `FailedReconnectEnds` | `sentinel_factory.h:55`, the thread exits after one unsuccessful attempt | the `break` is commented out (`:305`) |
| `SubscriptionRecovers` | `sentinel_factory.cpp:418`, "try to recover it" | `_is_state_stop` is never false, the loop is dead code (`:415`) |
| `StopEndsStart` | `sentinel_factory.cpp:412`, returns when stopped | a stop before `do_recv_msg` begins is overwritten (`subscriber.cpp:107`) |
| `NullInside` (`RespParserClaims`) | `rclient_def.h:19-25`, "Null elements in Arrays" | a `$-1` element ends the parse of the array with its own code, and the elements behind it stay in the buffer (`base_parser.cpp:349`) |
| `NumberCut` | `rclient_def.h:36`, the grammar of a number | cut before its end of line it is a format error (`base_parser.cpp:204`) |
| `EmptyString` | `rclient_def.h:33`, `$0` | its end of line stays in the buffer (`:44`) |
| `Double` | `rclient_def.h:38` | `process_double` requires `:` and rejects every double (`:290`) |
| `Boolean` | `rclient_def.h:39` | true ends in an error or an unset value (`:242`) |
| `NullLast` | `rclient_def.h:37`, `_` | an array that ends with it is never complete (`:331`) |
| `BlobCut` | `rclient_def.h:33` | with only `$` received, the byte behind it decides (`:74`) |
| `RestIsHandled` (`SubscriberClaims`) | `README.md:188`, see subscriber.cpp for the rest | a message with the last acknowledgement is lost, and the subscription with it (`subscriber.cpp:46`) |
| `WholeIsSent` (`AsyncSocketClientClaims`) | `README.md:80`, a written length other than the size is an error | a first write without room counts -1, and the byte in front of the command is sent too (`async_socket_client.cpp:144`) |
| `ZeroForSucceed` (`RdClaims`) | `rdstring.h:14`, "0 for succeed" | it returns 1 (`rdstring.cpp:44`) |
| `RestIsAwaited` | the same | a message cut behind a whole one ends the reception (`:153`) |

Fairness outside the pool is weak fairness of a thread that is inside a call:
`Thread` in `Rd`, `Receiver` in `Sentinel`, `Work` in `Subscriber`, and in
`AsyncSocketClient` `Alone(t)` for each thread, which is what a call does when the
network does nothing. The code justifies it: connect, read and the wait for
writability are `select` calls with a time-out. None is assumed of the server, the
network, the caller or the publisher. `CallEnds` and `WriteEnds` exempt the write on
a broken connection, which spins; `MessageIsHandled` and `HearsOfSwitch` a thread
that has returned.

Which replies the parser handles however they are cut is `Readable`: lines and
blobs that are not empty, big numbers, blob errors, a RESP 3 null, aggregates of
any depth, with numbers of one digit only inside them and a null not last, on a
connection whose memory holds no '-' behind a lone `$`. `Supported` in
`MCRespParser` has one or more of each kind, and the run evaluates that they are
`Readable`. The claims about `RespParser` show why the other replies are missing.

In the pool `MaxTasks` bounds the control tasks that wait for one thread at a time
(`Room`): the next event or check comes when every queue has room, any number of
times. `Events` and `Checking` choose which of them come. A run of two threads takes
one task at a time and a part of the events; `factory_worker` has them all, and that
the invariants hold for every value is proved. Deadlock is not checked: the pool may
come to rest when stopped or when nothing is asked of it.

## What is proved

`SentinelFactoryProofs`, for every number of threads, nodes, commands and tasks
waiting, from the four assumptions of `SentinelFactory` (a positive number of
threads, `None` outside the other sets, a bound that is a number, events that are
events):

- `TypeCorrect`: `TypeOK` with `InHand` (a thread holds a command exactly while
  it sends it or waits for the reply, the caller exactly inside
  `async_command`); without `InHand` a push of `appCmd` need not be typed.
- `FollowsSwitches`: `SettledOnMaster` is inductive once types are known.
- `UsableConnected`: needs `LinkInv` (a thread waiting for a reply has an open
  client, a thread reconnecting shows 2).
- `StartedHold`: needs `StartedInv` (a queue whose state is not 2, and a queue
  `async_command` has chosen, belong to a started thread).
- `OnePlace`: needs `Exclusive` (a holder holds alone, and only open commands)
  and `SomewhereIfOpen`.
- `KeepsItsLedger`: the refinement. `PlaceOf` says what the mapping gives at
  each place; `SamePlaceFact`, `MoveFact`, `StutterFact` reduce each step to
  "this command moved, the others did not".

`RClientBufferProofs`, for every set of bytes and every bound: types and
positions, `HoldsLastReceived` (inductive with the types), and the refinement of
`ByteStream`, where a compaction is a stutter because the held bytes are a
suffix of the log.

`RClientProofs`, for every number of commands and every buffer size, with
`IInv`: `TypeOK`, `ReplyInv` (what is unread came after the last drain, and a tail
without its head is there only if that drain cut a reply in two), `RoomInv` (the
buffer is full only behind such a tail or just before a parse; without it a read of
0 bytes could not be told from a closed connection), `HonestError`. `RepliesInStep` follows from `ReplyInv` and the bounds.
`ImplementsRequestReply` maps `settled` to half the read position, and `torn` to a
read position between the head and the tail of a reply.

`SubscriberProofs`, for every number of connections, channels and messages:
`IInv` adds `StreamInv` (replies are parsed whole) and `PlaceInv` (while the
thread receives, the replies parsed are the acknowledgements and the messages
handled). `PlaceInv` needs the check `ret == events.size()`: it is what keeps
acknowledgements out of the callback.

`SentinelProofs`, for every number of sentinels, channels, calls, switches and
messages, from the assumptions of `Subscriber` and `SentinelAssumption`:
`SentinelInv` adds to `Subscriber`'s `IInv` (kept because every step is a step of
`Subscriber` or a stutter, `StepIsStep`) `CallInv`, `OwedInv` (before the first
address query no late reply is an address, in it none is older than the query) and
`FeedInv` (one entry per message; the last one that names this master names the
right one). `AnswerIsCurrent` needs `OwedInv`. `KnowsMaster` says that the message
which names the master is ahead of the thread (`Ahead`: unread, or parsed and about to
be handled) and that the thread will come to it (`Attends`); it leaves out a thread
that is being stopped or has read a part of a message behind a whole one (after which
`do_recv_msg` returns), a message dropped behind the acknowledgement (`rest`, which
ends the subscription), and a closed connection. It needs `NewsInv` (an unhandled
message names the master, which follows from `FeedInv`) and, from `PlaceInv`, that
while the thread receives no unhandled message is behind it (`NotHandledIsAhead`).
`SentinelRunsSubscriber` states the composition: what is proved of `Subscriber`
holds of the sentinel client.

`AsyncSocketClientProofs`, for every set of threads, number of descriptors and
length of a command: `IInv` is `TypeOK`, `PcInv` (a connect has a socket, a
first write starts from nothing), `HeldInv` (an open connection is the last its thread opened, and held, or
is abandoned), `OwnDescriptor` and `PutInv` (the bytes sent by a write in
progress). `NothingLeaks` follows from `HeldInv`, `CountIsSent` from `PutInv`.

`RdProofs`, for every number of commands and every buffer size: `RdInv` adds to
`RClient`'s `IInv` (kept because every step is one of `RClient` or a stutter,
`RdStepIsStep`) `CallerInv`: a wrapper that waits for its reply wrote the last
command. With `ReplyInv` (what is returned came after the last drain, and is whole
unless that drain cut a reply) this is why success is the wrapper's own. `OutcomeFact` and `SaysFact` are the tables of
the wrappers and of the server. `RdRunsRClient` states the composition.

`RespParserProofs`, for every set of values, every nesting and length, every number
of replies and every cut, from the assumptions of `RespParser` and `Readable`. The
library's induction theorems cannot be instantiated by the provers, so the module
derives an induction for sets of numbers from the least element (`Induction`,
from `WFMin`), and from it:

- what the recursive functions compute: `NumberDef`, `DecimalDef`,
  `NumberReadsDecimal` (every length a server writes is read back);
  `ParseArrayDef`, that the recursion of `parse_array` ends for every buffer. Each
  element takes at least one byte (`ScalarWithin`, `ElementFact`), so the calls
  are on shorter buffers; two functions that agree on these give the same loop
  (`ArrayFromFact`), hence one solution;
- `ReadsWholeReplies` and `AsksForTheRest`: `do_parse` on a reply with anything
  behind it gives the reply and leaves what is behind; on a proper prefix it gives
  NEED_MORE_DATA and leaves the buffer alone. Both go through `Whole` and `Asks`
  of every element (`ElementsGood`), by induction on its bytes, and inside an
  aggregate by induction on the elements left (`ArrayWhole`, `ArrayAsks`). That the
  last element is not a null is needed in `ArrayWhole` alone: there
  `readable_size() <= 3` must be false while an element is missing;
- the stream: `IInv` says that what is here and on its way are the bytes of the
  replies left (`Left`), and that after NEED_MORE_DATA the first of these is not
  here as a whole. `TypeOK`, `ReturnsWhatWasSent`, `TakesWholeReplies` and
  `HoldsNothingBack` follow; the last one needs that half of `IInv`.

`Readable` is an assumption about the server and the memory, not about the
parser; the run evaluates it, and the `Claims_*` configurations of
`RespParserClaims` show that its parts cannot be left out.

Only model-checked: liveness under fairness (no prover takes ENABLED), and the
`claim_*` runs.

## Not modelled

- Conversions of values to attributes and text (`to_attrs`, `split`, the accessors of
  `RedisValue` but `get_number`), the text of messages and commands, the options of
  SET (`set` with milliseconds sends the seconds, `rdstring.cpp:22`): data without
  control, and no property is about them.
- `PtrBuffer`, `RClient::recv` and the helpers of `sock_utils` that
  `AsyncSocketClient` does not call: nothing uses them.
- A second `subscribe_event` while one is running; `check_connection` leaving the
  read time-out at one second when its write fails (durations are not modelled).
- The state-recovery loop of the pool, which cannot run.
- Examples and build files.

## Plan

1. The pool over the feed of `Sentinel`: command threads and event thread with late
   and foreign switches; the return value of `check_and_retry_master`.
2. Several calls of `subscribe_event`: the list of subscribers against a concurrent
   stop (`_subscribers.clear()` takes no lock).
3. Proofs: the layers joined, `RClient`'s replies of two units as those of `RespParser`
   in the memory of `RClientBuffer`.
