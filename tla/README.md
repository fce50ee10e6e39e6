# A verification of lib_zdtm_sync

lib_zdtm_sync is a C library with which a desktop program synchronises its todo
list, calendar or address book with a Sharp Zaurus over the Zaurus DTM protocol
(TCP, ports 4244 and 4245). This directory holds TLA+ models of the library, the
TLC configurations that check them on small instances, and proofs for every
instance. Paths are relative to the root of the repository; the library is in
`src/src`.

## Inventory

| part | code | state | operations | what makes it correct |
|---|---|---|---|---|
| public calls | `zdtm_sync.c` | `zdtm_lib_env` | setters, `zdtm_initiate_sync`, id lists, items, delete, `zdtm_terminate_sync`, `zdtm_initialize`, `zdtm_finalize` | success means the device did it; a failed call can be followed by another, a terminate at least; the steps around a slow sync come in order |
| protocol functions | `zdtm_proto.c` | the environment fields of device info, sync state and item format | one request and its reply each; two of them expect a refusal (ABRT, then ANG) | the reply is of the right type; caches are not stale |
| exchanges, transport | `zdtm_net.c` | loop counters, buffers | RQST/message/ACK wrapped around every message; loops around `send` and `recv` | the two ends alternate; no message is lost, split or taken for another |
| sockets | `zdtm_net.c`, `zdtm_log.c` | `listenfd`, `connfd`, `reqfd`, `logfp` | listen, dial, accept, close | the connection accepted is the one asked for; nothing else is closed |
| memory | `zdtm_sync.c`, `zdtm_proto.c`, parsers | every pointer of a message, the environment, an item | allocate, parse, take over, clean | freed once, kept while it is used |
| message types, codecs | `zdtm_msgs.c`, `zdtm_*_msg.c`, `zdtm_common.c` | the message structure | length, write, prepare, parse, clean | declared size is written size; integers survive |
| item parsers | `zdtm_proto.c` 513-1213 | an item structure | match item fields with the format | every field in its place; the caller knows what failed |
| log | `zdtm_log.c` | `logfp`, a line buffer | open, write, dump a message, close | a line fits its buffer, a dump is the content |
| test programs | `src/testing` | | a todo synchronisation from start to end | they show the intended order of calls |
| the Zaurus (external) | | passcode, sync state, sync anchor | answers requests | reconstructed as the peer the library is written for |

How the parts interact. The library has one thread and no callbacks: a program
calls, the call blocks in `accept`, `recv` or `send`. `zdtm_initiate_sync` connects
to the Zaurus, waits for it to connect back, and runs ten exchanges with it; every
other call is one exchange. In an exchange the side that listens sends RQST, the
other sends its general message, the first answers ACK. So desktop and Zaurus pass
the right to send back and forth, and each error return in the library
leaves that conversation at another place.

What is hard: error returns in the middle of an exchange followed by another call;
a connection that breaks anywhere, between messages or inside one; refusals; what
the environment remembers when initiate is tried again; the order of log reset,
anchor and item reset; descriptor numbers that are used again; who frees what when an
allocation fails half way. There are no timeouts, no retries in the library itself,
and nothing is persisted on the desktop. `PROJECT.json` lists the hazards at their
lines.

## Modules

The session, whole messages:

| module | what it is | the code |
|---|---|---|
| `ZdtmMessages` | the message types and one record for all messages | `zdtm_msgs.c`, `zdtm_types.h` |
| `ZdtmChannel` | the connection: a FIFO of whole messages per direction, `conn` | `zdtm_net.c`, `_zdtm_send_message_to` and `_zdtm_recv_message` as whole steps |
| `ZdtmDesktop` | the library inside a call: `call`, `fn`, `pc`, `env` | `zdtm_sync.c`, `zdtm_proto.c`, `_zdtm_wrapped_*` |
| `Zaurus` | the external peer | what the library sends, awaits and accepts |
| `ZdtmSession` | program, library, network, Zaurus, user; the properties | |
| `SyncService` | abstract: the order in which a device's services may be used | |

The transport below it, bytes:

| module | what it is | the code |
|---|---|---|
| `ZdtmWire` | how long each message is (a body up to `BODY_SIZE_MAX`), and its bytes | `zdtm_msgs.h`, `zdtm_net.c` |
| `ZdtmReceive` | the three loops of a receive over a stream cut anywhere | `_zdtm_recv_message` |
| `ZdtmSend` | the two send loops against a socket with little room | `_zdtm_send_message_to`, `_zdtm_send_comm_message_to` |
| `ZdtmLink` | abstract: one direction of a connection as whole messages, with the actions of `ZdtmChannel` | |

Around and inside it:

| module | what it is | the code |
|---|---|---|
| `ZdtmEnv` | descriptors from `zdtm_initialize` to `zdtm_finalize` | `zdtm_sync.c`, `zdtm_net.c`, `zdtm_log.c` |
| `ZdtmHeap` | every allocation and who owns it | `zdtm_sync.c`, `zdtm_proto.c`, `zdtm_msgs.c`, the parsers |
| `ZdtmCodec` | length and write of every request, prepare, integers of the replies | `zdtm_msgs.c`, `zdtm_*_msg.c`, `zdtm_common.c` |
| `ZdtmItems` | the todo, calendar and address parsers | `zdtm_proto.c` 513-1213 |
| `ZdtmLog` | the dump of a message's content | `_zdtm_dump_msg_log` |

`MC...` modules hold constants for TLC. The modules `..._proofs` hold the theorems and
proofs about `ZdtmSession`, `ZdtmReceive`, `ZdtmSend`, `ZdtmEnv`, `ZdtmHeap`, `ZdtmCodec`,
`ZdtmItems` and `ZdtmLog`.

How they fit. `ZdtmReceive` shows that what `ZdtmSession` takes for granted of one
direction (`ZdtmLink`) is what `_zdtm_recv_message` makes of a byte stream.
`ZdtmEnv` runs a session as one step that succeeds or fails, and says over which
connection it runs. `ZdtmHeap` runs the exchange of one protocol function and asks
only what becomes of its memory. `ZdtmCodec` is what `_zdtm_prepare_message` does
before a send, `ZdtmItems` what an item call does behind its reply.

### State and actions: the session

`env` is `zdtm_lib_env`: `type` (sync_type), `ip`, `pass` (passcode, `"none"` is
NULL), `gotInfo` and `needPass` (retreived_device_info, cur_auth_state), `gotState`
and `slow` (retrieved_sync_state and the three slow sync flags), `params` (the type
whose format `params` holds). A control point is a triple: the public call, the
protocol function inside it, and the next socket operation of that function. What
happens between two socket operations is local and belongs to the action of the
first: `WrAckAccepted` sends the ACK, checks the type, updates the environment and
enters the next function of initiate or returns.

Every general message is one element of a stream. Its content is kept where control
depends on it: the sync type a request names, the slow sync bits of AMG, one flag for
whether the passcode is right, a passcode is required, the date is all zeros, or the
RMS log has its five bytes. `AllocMayFail` stands for every failing `malloc` and for a
general message that cannot be parsed. A negative return of `_zdtm_recv_message`
consumes the message in that case (`RecvDiscards`), or reports the end of the
connection (`RecvBroken`). The one failure that does not consume the message, a
temporary buffer that cannot be allocated between header and body, is
`ZdtmReceive`'s.

The Zaurus acknowledges each request, sends its reply when asked with RQST, waits
for the ACK and asks for the next request with RQST. It refuses with ABRT and, when
asked again, ANG: a wrong passcode, an empty RMS log, anything but greeting, device
info, passcode and goodbye while it is locked. For requests in `OddOn` it may, when it
is its turn, send ABRT, or another message instead of the one that is due (`ZOdd`): in
place of ACK and RQST any reply, also the right one or one it has sent before; in place
of the reply any of another type, so an ANG nobody asked for, too. One case is left
out: a left over message of the right type exactly where the reply is due. Nothing
in the protocol or in the code tells it from the answer. The type, sync state and anchor it keeps are the
ones the library reads and writes. The user sets or removes the passcode and clears
the sync state between sessions.

Abstracted or left out here: formatting of dates and failing `localtime_r`; the
contents of items; `_zdtm_connect` is atomic (its waits are `ZdtmEnv`'s); a new
connection replaces the old one on the Zaurus; the log.
`zdtm_set_sync_type` is not called between a successful initiate and the next
connect or terminate, as `zdtm_sync.h` asks ("used throughout the rest of the
synchronization process").

`SyncService` knows nothing of messages or failures: a session opens, uses services
and closes at any moment; each service has others that are due before it. The order
it asks for is RMG, RTG, and when the device reported that its type needs a slow
sync, RMS before RTS and RSS after it, all before RDI and before any item; the
passcode first on a locked device; the same sync type throughout. `ZdtmSession`
implements it with `open` as "the Zaurus is in a session" and the other variables
as what the Zaurus has seen.

### State and actions: the transport

A byte is the pair of its message's number and its place in the message, so a lost,
repeated or misplaced byte shows. In `ZdtmReceive` the Zaurus writes the messages of
`Script` in pieces of any size and may close or reset the connection between any two
bytes. `phase` is the loop the call is in: seven bytes that may be a common message
(`ReadCommon`), the rest of a general header and the body size (`ReadRest`), body and
checksum (`ReadBody`); `header` and `buff` are what the loops have read. `Verdicts`
are the returns after the last byte: no structure, a used one, no content, no parse.
Bytes that are out of place, behind a call that gave up, are compared equal with
anything (`Readings`) and spell any of `GarbageSizes` (`Spelled`). `Link` maps the
bytes to whole messages: those written and not yet taken. A call that gives up inside
a message, and the end of the connection, both end the link.

In `ZdtmSend` one `send` is many `Copy` steps, as the socket has room, and
`SendReturns`, with all it was asked for, or less when a signal came or the
connection broke; `tot` and `copied` are `tot_bytes_sent` and the bytes of the present
send. The loop goes on with the buffer's start (`Place`), as the code does. `cut` is a
history variable: the calls that needed a second send.

### State and actions: the environment

`open` says for each descriptor number what it is open for; the four members of `env`
are numbers, which stay when the descriptor is closed, and a new descriptor gets the
lowest free number. `OpenLog` and `Listen` are `zdtm_initialize`; `Initiate`,
`ConnToZaurus`, `ConnectFails`, `SendRay`, `HandleZaurusConn` are `_zdtm_connect` up
to the session, which is `SessionReturns`; `Terminate` and `Finalize` close. `queue`
is the listen queue, by the attempt whose RAY asked for the connection, 0 for one
nobody asked for. `causes` counts accepts that failed and connections made unasked.
The program opens and closes a file of its own.

`ZdtmHeap` names a block by the call that allocated it, the reply it was allocated
for and its purpose. `phase` follows one exchange of one function: the request is
sent and cleaned (`Sent`), the reply received (`Recv`) and parsed block by block
(`ParseNext`), or some of that fails; then the function takes what it keeps
(`TakeFormat`, `TakeItem`, `CopyNext`, `GiveLists`). `live` are the allocated blocks;
`params`, `passcode` and `given` are what the environment and the program hold;
`bad` is set by freeing what is not allocated. RQST and ACK own nothing, but
`_zdtm_recv_message` stores and parses whatever comes: a general message in place of one of
them (`RecvMisplaced`; `due` is FALSE while it is in hand) is parsed like a reply and
then refused by `_zdtm_wrapped_send_message`, which cleans its raw content only
(`NotAwaited`), and the function frees the request. `unused` are the calls in which a
reply was parsed and given up. The program ends with `Finalize`, or with
`FinalizeFails`: `zdtm_finalize` returns before it has freed anything when the socket
or the log cannot be closed (`zdtm_sync.c:518-522`).

### Codecs, items, log

`ZdtmCodec`: an action fills a message with one of `Contents`, prepares or cleans it.
A number is the sequence of its bytes, least significant first; `Memory` is how the
machine has it, `Stored` what the conversion functions write. A string is its
length. Each request has its length function and the pieces its write function puts
into the buffer, and `LengthIsWritten` compares the two. Of the replies the model has
the integers: `Received` says of each of AIG, ADI, ASY, ADR and ADW how wide it is and
which conversion it goes through. `IntegersConverted` is about these and about what a
request leaves in the buffer and in its header (`Sent`). It says something on a
big-endian machine only, where `Stored` and `Read` convert; on a little-endian one the
code stores integers as they are in memory.

`ZdtmItems`: the parsers' comparisons are tables (`TodoEntries`, `CalendarEntries`,
`AddressEntries`) of type, abbreviation, field and the code returned when that field
cannot be allocated. `Take` copies or allocates a field, `Skip` passes a parameter
nobody knows, `Done` ends the item. A field's value is the item and parameter it came
from, so an overwritten or left over field shows.

`ZdtmLog`: `i` and `j` are the loop variables, `used` is `buff_bytes`, `label` gives
for each byte the offset its line in the log begins with.

## Runs

| run | instance | checks |
|---|---|---|
| `safety` | 1 session, 1 sync type, failing allocations, a Zaurus that may refuse anything and send any reply in place of another message (`ZOdd`), 1 broken connection | `TypeOK`, `HalfDuplex`, `DeviceNotSurprised`, `SlowSyncPrepared`, `AuthBeforeData`, `SuccessIsHonest` |
| `service` | 2 sessions, conforming Zaurus, the passcode set, removed, right, wrong or missing in between, 1 broken connection, fairness | `NoMutualWait`, `CallReturns`, `ZaurusReleased`, `ImplementsService` |
| `retry` | 2 sessions on one environment, 2 sync types, 1 broken connection | `SlowSyncPrepared`, `FormatOfItem`, `ImplementsService` |
| `receive` | ABRT, ANG, RQST in pieces; closed, reset, signals, failing allocations, unusable structures; fairness | `TypeOK`, `EachCallItsMessage`, `ClosedInsideReported`, `ImplementsLink`, `EveryMessageTaken`, `EndWakesCall` |
| `send` | ACK, RIG, RQST through a socket with room for 3 bytes, signals, a broken connection, fairness | `TypeOK`, `WholeUnlessCut`, `EveryCallReturns`, `EveryMessageArrives` |
| `codec` | every request at the edges of its length fields, with `WORDS_BIGENDIAN` | `TypeOK`, `LengthIsWritten`, `IntegersConverted` |
| `items` | every format of up to 2 parameters, in any order, 2 of them unknown to the library; 2 items into one structure | `TypeOK`, `ItemComplete`, `FailureNamesField` |
| `env` | 2 initialisations, 3 attempts, 6 descriptors, a listen queue of 2, every system call failing, fairness | `TypeOK`, `LeftoversHaveCauses`, `ClosesItsOwn`, `ConnectReturns` |
| `heap` | 3 calls, replies of any type, also in place of RQST and ACK, any allocation or exchange failing, `zdtm_finalize` failing | `TypeOK`, `NoDoubleFree`, `NothingDangles`, `LossesKnown` |
| `hang` | 1 session, failing allocations | `TerminateReturns` is violated |
| `refused_goodbye` | 1 session, a Zaurus that may answer the RQT with another message | `GoodbyeIsGranted` is violated |
| `stale_auth` | 2 sessions, the device locked in between | `AuthBeforeData` is violated |

### Bounds

* Sessions. One session visits every control point with every return; the second
  is what it takes for the environment to remember something. A connection
  breaks once per behaviour, at any of its points; after that the library has no
  connection and starts over, so a second break adds nothing within two sessions.
  Three sync types differ only by `ResetStateFlags`, of which one type, and todo with
  address, are the cases. `AuthBeforeData` is checked with one session because it
  does not hold with two (`stale_auth`); `NoMutualWait` and `CallReturns` except
  the sessions in which it does not hold.
* Transport. The loops compare counters with sizes and with nothing else, so `receive`
  and `send` have a shorter header (3 and 5, 2 and 3 bytes for 7 and 13) and type
  (1 for 3), and bodies of two bytes and of one: every loop still needs several reads and
  can be left between any two bytes. Three messages are a refusal with the turn that
  follows it, and one message more than can be confused with its neighbour.
  `MaxCalls` is one more than the messages, so a call always meets the end.
* `codec`. Lengths around 0, 255, 256 (a passcode's length is one byte), 37 and 38
  (the log of RMS), 65530 (the largest body that 16 bits count). The machine is
  big-endian, because only there is anything converted; the theorems are for both.
* `items`. Two parameters are what it takes for one to overwrite, skip or
  precede the other; all pairs of known ones occur.
* `env`. Three attempts: one that leaves a connection behind, one that takes it, one
  after that. Six descriptors are fewer than a run can come to hold, so that opening
  fails as well.
* `heap`. Three calls: a passcode or format that is kept, one that is replaced or
  refused, one that comes after.

`CHECK_DEADLOCK FALSE`: in the sessions the program may hang for good (that is
`hang`, and in `service` the sessions of `stale_auth`) or stop when its bounds are
reached; the other modules end when their messages, items or calls are used up.
Only `codec` goes on for ever.

### Fairness

* `ZdtmSession`: the steps inside a call (a thread that runs, or sits in a socket
  call the kernel wakes) and the Zaurus's steps. The program, the user and the
  network owe nothing.
* `ZdtmReceive`: a caller that keeps calling, and a recv that is woken when bytes or
  the end of the stream are there. The Zaurus need not write or close.
* `ZdtmSend`: the loop goes on, and the Zaurus reads what has arrived.
* `ZdtmEnv`: the library's steps inside initiate; `accept` is woken when a connection
  waits; the Zaurus dials back when it was told to. No failure has to happen:
  `ConnectReturns` is about `accept`, which has no timeout, and a Zaurus that does not
  dial back blocks it for good.

### What the violations show

* `hang`: a reply that cannot be stored or parsed is not acknowledged
  (`zdtm_net.c:560`). The Zaurus waits for the ACK, the terminate that follows for
  the RQST. ChangeLog:282 wants terminate callable "in cases where it did not
  succeed". The same happens after an ABRT in any function but the two that expect
  one.
* `refused_goodbye`: `zdtm_terminate_sync` looks at the return code of the exchange and
  never at the type of the reply (`zdtm_sync.c:493-495`). A goodbye that is refused in
  an ANG, or answered with anything else that is a general message, is acknowledged and
  ends in 0, where `zdtm_sync.h:268` has "-2 Failed to receive AEX message from the
  Zaurus". It is the one call of which `SuccessIsHonest` says nothing; every other
  looks at the type. A goodbye answered with ABRT ends in -2, as documented.
* `stale_auth`: `zdtm_check_cur_auth_state` answers from the first attempt when
  initiate is tried again on the environment (`zdtm_sync.c:255`); initiate refreshes
  the device info only after that and does not look at it.

### Extra configurations

These are not among the regular runs (`tlc -config <cfg> <module>`). `MCZdtmLog_log` checks
`LineFits` and `DumpIsContent`, which hold, for contents of three lines and a bit, and of
1004 and 1006 bytes, whose offsets have four digits; the theorems of `ZdtmLog_proofs` say
the same of every content. Each of the others checks one statement of a header or
comment that the code does not keep, and TLC refutes it; the regular runs check what
does hold.

| configuration | statement | what the code does |
|---|---|---|
| `MCZdtmSession_never_synced` | `NeverSyncedReported` (`zdtm_proto.h:150`) | `_zdtm_obtain_last_time_synced` compares array addresses with 0 (`zdtm_proto.c:269`), so its return value 1, and the -11 of `zdtm_initiate_sync`, never come back |
| `MCZdtmReceive_clean_close` | `CleanCloseIsClean` (`zdtm_net.h:199-200`) | the byte counter is set back between body size and body (`zdtm_net.c:331`), so a connection that ends exactly there is reported as closed cleanly |
| `MCZdtmSend_resend` | `StreamIsMessages` (`zdtm_net.h:237`) | after a send that took part of a message the next one begins at the start of the buffer (`zdtm_net.c:206`, `506`); 0 is returned for a message whose end was never sent |
| `MCZdtmCodec_todo_write` | `ItemIsWritten` (`zdtm_common.c:107-110`) | `zdtm_todo_write` copies as many bytes of a string as its length field has (`zdtm_common.c:179`) |
| `MCZdtmCodec_unknown_variation` | `UnknownVariationRefused` (`zdtm_msgs.h:205`) | `_zdtm_prepare_message` adds the error code to the body size (`zdtm_msgs.c:139`) |
| `MCZdtmCodec_bad_size` | `BadSizeRefused` (`zdtm_msgs.h:203`) | the check of `zdtm_rms_write`'s NULL is commented out (`zdtm_msgs.c:197`) |
| `MCZdtmItems_empty_param` | `ItemComplete` (`zdtm_sync.h:186-188`) | a parameter without data leaves a fixed field as the previous item had it (`zdtm_proto.c:528`) |
| `MCZdtmEnv_loose_ends` | `NoLooseEnds` (`zdtm_sync.h:276-277`) | `connfd` is never closed (`zdtm_net.c:107`) |
| `MCZdtmHeap_lost_replies` | `RepliesFreed` (`zdtm_msgs.h:185-187`) | the model name of an AIG and the lists of an ASY are never freed (`zdtm_msgs.c:88`) |

## Proofs

Every safety invariant that a passing run checks, both refinements and the action
properties are theorems, for every value of the constants that the modules'
assumptions allow. In each case a run checks the property on a small instance and the
theorem says the same of all. What a theorem assumes beyond the named assumptions is
said with it. A theorem `Spec => []P` is proved from an inductive invariant that
implies `P`; below, what that invariant adds to `P` and why.

| module | theorem | property |
|---|---|---|
| `ZdtmSession_proofs` | `TypeCorrect` | `TypeOK` |
| | `Alternation` | `HalfDuplex` |
| | `NeverSurprised` | `DeviceNotSurprised` |
| | `ItemsHaveTheirFormat` | `FormatOfItem` |
| | `SlowSyncIsPrepared` | `SlowSyncPrepared` |
| | `SuccessMeansServed` | `SuccessIsHonest`: every call but `zdtm_terminate_sync` |
| | `OrdersAreOfService` | `ImplementsService` |
| | `PasscodeFirst` | `AuthBeforeData`, in the first session |
| | `NobodyWaits` | `NoMutualWait`, with a conforming Zaurus and enough memory |
| `ZdtmReceive_proofs` | `TypeCorrect` | `TypeOK` |
| | `MessagesInOrder` | `EachCallItsMessage` |
| | `CutsAreReported` | `ClosedInsideReported` |
| | `CallsSeeMessages` | `ImplementsLink` |
| `ZdtmSend_proofs` | `TypeCorrect` | `TypeOK` |
| | `WholeMessages` | `WholeUnlessCut` |
| `ZdtmEnv_proofs` | `TypeCorrect` | `TypeOK` |
| | `ClosesOnlyItsOwn` | `ClosesItsOwn` |
| | `OwnConnections` | `LeftoversHaveCauses` |
| `ZdtmHeap_proofs` | `TypeCorrect` | `TypeOK` |
| | `NothingFreedTwice` | `NoDoubleFree` |
| | `KeptIsAllocated` | `NothingDangles` |
| | `OnlyKnownLosses` | `LossesKnown` |
| `ZdtmCodec_proofs` | `TypeCorrect` | `TypeOK` |
| | `LengthsAgree` | `LengthIsWritten` |
| | `IntegersAreConverted` | `IntegersConverted`, little- and big-endian |
| `ZdtmItems_proofs` | `TypeCorrect` | `TypeOK` |
| | `ItemsComplete` | `ItemComplete`, parameters with data |
| | `FailuresNameTheirField` | `FailureNamesField`, parameters with data |
| `ZdtmLog_proofs` | `TypeCorrect` | `TypeOK` |
| | `LinesFit` | `LineFits` |
| | `DumpsAreComplete` | `DumpIsContent` |

### The session

For all sync types, all `OddOn`, with or without failing allocations, and any bounds
(`SyncTypesAssumption`, `AllocAssumption`, `ZaurusAssumption`, `BoundAssumption`). The
invariant is `OrderInv == Typed /\ Turns /\ Paired /\ FormatKept /\ Ordered`; each
part is inductive with those before it.

* `TypeCorrect`. `TypeOK` is not inductive: a return code is in range because inside a
  call there is a function (`DeskShape`), and a reply is a message because the Zaurus
  in the middle of an exchange deals with a request (`ZShape`). `Typed` adds the two.
* `Alternation`. `HalfDuplex` counts messages; `Turns` counts the right to send, which
  is with an end that is about to send, or in a stream. Each send moves it into a
  stream, each receive out, an error return may lose it.
* `NeverSurprised`. `Paired` says, on an open connection, what the other end must be
  waiting for when one end is about to send (`SendPartner`) and when a message is in
  the stream (`StreamPartner`). A call that gives up leaves both ends listening, or the
  RQST of the Zaurus unanswered, so the next call either continues where the Zaurus is
  or waits. The one place where two requests look alike is the RAY, greeting and
  goodbye: `AfterRqt` and `InTerminate` follow the RQT, which only terminate sends and
  after which nothing but the RAY can be sent.
* `ItemsHaveTheirFormat`. `FormatKept` follows the format from the ADI reply through
  `synced` to the data calls; initiate returns 0 in one place only, and no failure has
  the code 0 (`FailureIsNotSuccess`).
* `SlowSyncIsPrepared`. `Ordered` joins what the library believes to what the Zaurus
  has seen. `Answered`: a reply in the stream or in `rmsg` that is no refusal answers
  the request of the running function, so that request was served: no reply that the
  Zaurus sends out of turn can be taken for it, because in place of RQST or ACK the
  library takes none, and one in place of the reply is of another type. `Initiated`: what was served
  before each function of initiate (`Before`), and that `env.slow` holds every type the
  Zaurus reported, although its flags are never cleared. `Ready` carries it to the data
  calls.
* `SuccessMeansServed` is the action property that follows: initiate returns 0 behind
  `param_format` only, and `Before("param_format")` is what it promises; a data call
  returns 0 behind a reply of its own type. Of `zdtm_terminate_sync`, which takes a reply
  of any type, it says nothing, because there it is false (`refused_goodbye`).
* `OrdersAreOfService` is the refinement of `SyncService`. The initial states map to
  initial states; greeting, serving a request, goodbye and the loss of a connection map
  to `Open`, a service, and `Close`; all other steps stutter. That a service is not
  used early is `Initiated` and `Ready`, when the request comes to be served. The
  passcode is no hypothesis: the Zaurus itself refuses while it is locked.
* `PasscodeFirst`: `Spec => [](sessions <= 1 => AuthBeforeData)`. `Shut` says how far
  the library is with a device that waits for its passcode, `NothingStale` that before
  the first session nothing is remembered. Without the bound it is false: `stale_auth`
  needs two sessions.
* `NobodyWaits`, for `OddOn = {}` and `AllocMayFail = FALSE`. `Reaching` names, for
  each control point at which the library listens, the message that is under way to
  it, or the send of the Zaurus that is due; or that the session is one of those in
  which the library passed a locked device (`LeftBehind`). Both hypotheses are
  needed: `hang` shows a failed allocation, and a refusal out of turn does the same.

### The transport

`ZdtmReceive_proofs`, for every script of messages, body sizes up to 65535, every cut
of the bytes, every set of endings and failures, and garbage of any size
(`WireAssumption`, `ReceiveAssumption`). The invariant is `ReceiveInv`:

* `Typed` and `WriteTyped` are the types of the call and of the Zaurus's end.
* `InPlace` is the heart. As long as no call has lost its place, what the loops have
  read is a beginning of the message whose turn it is (`ReadSoFar`, by loop), and
  the bytes on the wire go on where the call stopped and end where the Zaurus stopped
  writing, each following the one before it (`Laid`), so that nothing in between
  is missing (`OnTheWire`).
* `EndSeen`: -1 and -2 are only returned when the stream has ended.

`MessagesInOrder` and `CutsAreReported` are parts of it. `CallsSeeMessages` is the
refinement of `ZdtmLink`: writing the last byte of a message maps to its sending, the
return of a call to a whole message received or discarded, or to the end of the
link, and every other step stutters. So what `ZdtmChannel` takes for a step is what
the code makes of any stream of bytes.

`ZdtmSend_proofs`, for any calls, room and interruptions (`WireAssumption`,
`SendAssumption`). `WholeUnlessCut` speaks of the concatenation of messages, which is
defined by recursion. Instead of an induction over sequences, the invariant carries
`Defined`: for the calls that have returned the recursive function exists and is
unique. Each return adds one message to the end (`Grows`), so the behaviour itself is
the induction. `Whole` says byte by byte where the messages that one send took are,
and how far a first send has come.

### Environment and memory

`ZdtmEnv_proofs`, for any number of descriptors, initialisations and attempts, any
backlog and any set of failures (`EnvAssumption`):

* `ClosesOnlyItsOwn`. `TypeOK` says too little of the numbers that `env` keeps after a
  descriptor is closed: `close` on such a number would hit whatever is open there now.
  `Numbers` says until when each is good: `logfp` and `listenfd` between initialize and
  finalize, `reqfd` for as long as the Zaurus can still be said goodbye to over
  `connfd`. A terminate that succeeds closes `reqfd` and ends the Zaurus at the other
  end of `connfd` in one step, and every later terminate fails before its `close` until
  a new `reqfd` was opened. This rests on `connfd` never being closed: its number is
  not given out again.
* `OwnConnections`. `Asked`: no attempt's connection waits twice, in the queue or
  as one the Zaurus was asked for, and none waits before its RAY was sent. Then each
  step that leaves a connection behind adds to `causes`, and the queue is taken from
  its front, so it is the own one when nothing was left.

`ZdtmHeap_proofs`, for any number of calls and with or without replies of the wrong
type or in the wrong place (`HeapAssumption`). The invariant names for each block who holds it:
`HeldShape` and `KeptShape` say which call, reply and purpose the blocks have that a
call works with, and those that outlive it; `Places` says which of them there are at
each phase. So no two holders have the same block, and what is freed was held by
nobody else (`NothingFreedTwice`). `Accounted` says that what is held is allocated,
and that what is allocated and held by nobody is excused, at every moment and not
only between calls (`KeptIsAllocated`, `OnlyKnownLosses`). The losses are part of what
the code does, and `LossesKnown` lists all of them, so that the theorem is as good as the
list is short: no item, no copy of a list or passcode, no content of a message but
that of a failed device info; and what an environment holds when its `zdtm_finalize`
fails.

### Codecs, items, log

`ZdtmCodec_proofs`, for strings of any length (`CodecAssumption`). A length
function and a write function are written apart in the code; the proof adds up the
pieces of each write function, one after the other, beside the recursion that defines
`Written` (`Weighs`, `Adds`), and finds the sum of the length function (`CodeAdds`).
`CodecInv` carries it from `_zdtm_prepare_message` to the states where it is asked for.

* `TypeCorrect` is for contents that have a length at all.
* `LengthsAgree` and `IntegersAreConverted` are for contents that are `Sendable`. Every part
  of that is a place where the code does not keep its promise otherwise:
  an RMS log longer than its field has no raw content (`MCZdtmCodec_bad_size`), an RDW
  of an unknown variation no length (`MCZdtmCodec_unknown_variation`), a todo item
  whose description or notes are not four bytes long is not written as long as it is
  announced (`MCZdtmCodec_todo_write`), and an RDW with an item of another type has no
  length; a body of 65536 bytes and more does not fit `body_size`. All contents of the
  run `codec` are `Sendable`.
* `IntegersAreConverted` is for both kinds of machine. Its core is the lemma
  `StoredWhole`: through the conversion of its own width an integer is stored in the
  protocol's order and read back as it was. The property names the five
  integers of which the code has that wrong (`Mangled`, `Misread`): `sync_id` in RDR, RDD
  and RDW goes through the 16-bit conversion, `path_len` of RGE and `body_size` of every
  message are sent without one, and the counts of ADR and ADW go through the 32-bit one.

`ZdtmItems_proofs`, for the three parsers, formats of any length and any number of
items (`ItemsAssumption`). `EntriesDiffer` is a lemma about the tables that the
comparisons of the parsers amount to: no two of a parser's comparisons hold for the same
parameter, fill the same field or return the same code. `ItemInv` says with `Built`
that the parameters before the loop variable are in their fields and that all other
fields are as the caller had them. `ItemsComplete` and `FailuresNameTheirField` are for
`EmptyParams = FALSE`: a parameter without data is not copied
(`MCZdtmItems_empty_param`).

`ZdtmLog_proofs`, for every set of content sizes below 65536 and lines of up to 40
bytes. This is a hypothesis of the theorems, not an assumption of the module:
`LogAssumption`, that is `SizesAssumption` (a content size is a `uint16_t`),
`LineAssumption` and `BuffAssumption`. The invariant is `IInv == TypeOK /\ InLine /\ Content`.

* `LinesFit`. `InLine` bounds `used` by the width of an offset and five characters for
  each byte of the line so far, and the line by `PerLine`: 7 + 40 * 5 characters and a
  newline stay below the 256 of the buffer.
* `DumpsAreComplete`. `Content` says that the bytes before the present line, and those
  only, are in the log, each under the offset of its own line.

### Only model-checked

* The liveness properties `CallReturns`, `ZaurusReleased`, `EveryMessageTaken`,
  `EndWakesCall`, `EveryCallReturns`, `EveryMessageArrives` and `ConnectReturns`: they
  need fairness and ENABLED, which the provers do not reach.

What lies outside a theorem's hypotheses is not open but refuted: TLC has
counterexamples to `NoMutualWait` when an allocation fails or the Zaurus refuses out of
turn, to `AuthBeforeData` in a second session, and to the item and codec properties
for the contents named above. More can be proved there once a property names what
does hold: which fields of an item are good when parameters have no data, which
conversations can be resumed after a refusal out of turn, which bytes of the stream
are good after a send was cut.

## Not modelled

* `zdtm_check_cur_auth_state` and `zdtm_requires_slow_sync` called by the program
  itself; inside initiate they are.
* The parsers of AAY, AMG, ANG and ATG beyond what control depends on: they copy
  fixed bytes.
* The value of the checksum: it is written, and nobody compares it.
* `zdtm_calendar_length`, `zdtm_address_length`, `_zdtm_close_zaurus_conn` and
  `_zdtm_handle_connection`: nobody calls them.
* `_zdtm_log_error` and the lines of a dump that are not content: one write each.
* A second `zdtm_finalize`, which `zdtm_sync.h` does not allow; a failing `close` of
  the listening socket; SIGPIPE, which ends the program.
* The Windows build, and the test programs, whose calls are behaviours of the models.
