# Formal models of Onegram

Onegram is a Telegram client for iOS 4.3 to 10. Three parts of it carry
protocols of their own, and these are modelled here:

* MTProtoKit (`submodules/MtProtoKit/MTProtoKit`), through which everything the
  client does on the network goes: requests are queued, packed into encrypted
  transactions, written to a TCP connection, sent again when the connection, the
  session or the transport is lost, and answered at most once;
* the call stack rebuilt for old systems (`thirdparty/TgVoipWebrtcIOS6`): a
  signaling channel with its own acknowledgements, and SRTP with its own
  roll-over counter;
* the tunnel of `Modules/NekroEngine`: a coordinator in the application, a
  daemon that runs as root, the entries it makes in the system configuration,
  and a WireGuard session.

This directory holds TLA+ models of these parts, the TLC configurations that
check them, and TLAPS proofs.

## The system

| Part | State | Operations | Interacts with |
|---|---|---|---|
| `MTRequestMessageService` | `_requests` (each with a request context and an error context), `_dropReponseContexts`, a timer | add, remove, give messages to a transaction, take results, acknowledgements, rejections, session changes | called by `MTProto` on the manager queue |
| `MTProto` | session, transport, `mtState`, time fix and key binding contexts | build a transaction, run its completion blocks, dispatch incoming messages, replace transport or session | services, transport, `MTContext` |
| `MTSessionInfo` | last message id, sequence number, processed ids, container mapping, scheduled confirmations | generate ids, record containers, record and remove confirmations | owned by `MTProto` |
| `MTTcpTransport` | connection, whether it is open, transaction lock, watchdog timers, ping | start, reset, stop, hand payloads over, forward data and closes | `MTProto` (delegate), `MTTcpConnection`, `MTTcpConnectionBehaviour` |
| `MTTcpConnection` | socket, closed flag, response timers | connect, send, close and notify | transport queue |
| `MTTcpConnectionBehaviour` | backoff counter, timer | connection opened, closed, valid data | transport |
| `MTResendMessageService`, `MTTimeSyncMessageService`, `MTDatacenterAuthMessageService` | a current request id, a stage | one exchange each | `MTProto` as message services |
| `MTContext` | keys, addresses, tokens per datacenter; running actions | update and notify listeners | every `MTProto` |
| `EncryptedConnection` | counter, queue of unacknowledged messages, incoming window, acknowledgements to send and sent, two timers | send with or without acknowledgement, receive, two service tasks | the server forwards packets between the two ends of a call |
| SRTP half of `Ios6DtlsTransport` | last sequence number and roll-over counter of each direction | `protectRtp`, `unprotectRtp` | the peer's other half |
| `TGRouteCoordinator` | switch in the user defaults, supervisor, the route being tried | enable, disable, refresh, supervise | commands of the helper, through `fuckdpi_bridge` |
| `nekrowarp` | pid and other files in `/tmp`, scoped routing, routes | `warp-tunnel` (a daemon), `stop`, `netcheck`, `register` | kernel, configd, the WireGuard peer |
| `nw_scope` | a service, an order and name servers in configd's dynamic store, with backups | set and restore name servers and primary service | `warp-tunnel` without `split=1` |
| WireGuard session (`wg.c`, `run_tunnel_loop`) | handshake state, transport key, timers | handshake, keepalive, key renewal, stall check | the WARP peer |
| `ActionStage`, update state, secret chats, `TGCallSession`, ICE and DTLS of calls | see `PROJECT.json` | the rest of the client | |

Hard behaviours. Three serial queues run concurrently: the manager queue
(`MTProto` and its services), `tcpTransportQueue` and `tcpQueue`. A transaction
is built on the first, written on the second, and its completion block comes
back to the first; between any two of these the connection may close, the
transport be replaced, the session be reset, the request be answered, rejected
or removed. The server of a call loses, repeats and reorders packets. The
tunnel's daemon and the application may be killed at any step, and what the one
has changed in the system the other has to undo from files. The list under
`hazards` in `PROJECT.json` names the lines.

What makes the parts correct:

* requests: an answer goes to the request it was computed for and is passed on
  once; nothing is executed twice by the server unless the first attempt was
  given up; no request is left waiting for something that cannot happen;
* session: message ids grow, a rejection of a container reaches its children;
* transport: what was sent on a connection is reported when it closes; a
  transaction asked for is built in the end; a lost connection is replaced until
  the transport is stopped, and never after;
* connection: it tells its end once, whichever of many causes comes first; the
  chain of reads neither breaks nor forks; a callback of a socket that was given
  up does no harm to the one in use;
* signaling: a message is handed over once, none is skipped, and sending goes on
  until it is acknowledged;
* SRTP: no key stream is used twice, and the receiver finds the counter of every
  packet near the last one;
* tunnel: no daemon is started beside another, or left when the switch goes off,
  that a command could see; whatever it changed can be put back wherever it died;
* dynamic store: the user's service order survives any number of crashes, and
  what a run overrides is put back;
* session: the peer knows the key in use, and a session is given up when, and
  only when, the peer does not answer.

## Modules

| Module | Content |
|---|---|
| `MTProtoRequests` | the life of a request: `MTRequestMessageService`, the transaction, dispatch and reset code of `MTProto`, ids and containers of `MTSessionInfo`, and the transport as these see it |
| `RpcCalls` | abstract specification of the same: calls that are begun, executed, returned, removed |
| `MTTcpTransport` | one `MTTcpTransport` with its `MTTcpConnectionBehaviour` and the part of `MTProto` that asks it for transactions |
| `MTTcpConnection` | one `MTTcpConnection`, from `start` to `closeAndNotify`, in its three modes |
| `EncryptedConnection` | the signaling channel of a call, both ends |
| `SignalingChannel` | abstract specification of the same: messages that are accepted, delivered and freed, without packets, windows or timers |
| `Ios6Srtp` | `protectRtp` at one end of a call and `unprotectRtp` at the other |
| `NekroTunnel`, `MCNekroTunnel` | `TGRouteCoordinator`, the helper's commands and the daemon in the mode the application uses (split routing) |
| `NwScope`, `MCNwScope` | `nw_scope.c` over configd's dynamic store, as the full tunnel uses it |
| `WarpSession` | the WireGuard session of the daemon: first handshake, loop, key renewal |
| `KeepSeq` | the elements of a sequence that lie in a set, used by the two modules whose code strips lists |
| `MTProtoRequestsProofs`, `MTTcpTransportProofs`, `MTTcpConnectionProofs`, `EncryptedConnectionProofs`, `Ios6SrtpProofs`, `NekroTunnelProofs` | theorems about the module they are named after |
| `NekrowarpProofs` | theorems about the two modules of the daemon, `NwScope` and `WarpSession`, in two independent halves |
| `KeepSeqTheorems` | what `KeepSeq` computes, and induction as a least counterexample |

The three MTProto models are layers of one stack. `MTProtoRequests` sees of the
transport that it has a connection, writes payloads and reports closes;
`MTTcpTransport` sees of requests that a service wants something sent, and of
its connection that it opens, brings data and closes; `MTTcpConnection` explains
these three events. `NekroTunnel`, `NwScope` and `WarpSession` look at the same
daemon from three sides: its life and what it leaves in the system, what it
publishes when it takes the whole traffic, and what happens in its loop, which
the first two see only as a step that ends some time. Definitions carry the
names of the methods they model, and operators named "Mutant of ..." in their
comment are wrong variants that no specification uses; they show that a property
can fail.

### MTProtoRequests

| Variables | Code |
|---|---|
| `status`, `context`, `held` | membership in `_requests`; `requestContext` (`mid = 0` is nil; `waiting` is `waitingForMessageId`, `trans` is `transactionId`); `errorContext` that forbids execution |
| `dropping`, `dropId` | `_dropReponseContexts` and their message ids |
| `session`, `lastId`, `containers`, `processed` | the current `MTSessionInfo` |
| `suspended`, `wanted` | `canAskForTransactions` is false; a transaction has been requested and not built |
| `tq` | blocks dispatched to `tcpTransportQueue`, oldest first |
| `replaced`, `base` | number of transports replaced; connections up to `base` belong to them |
| `conn`, `connected`, `alive`, `lastConn` | the transport context's connection, `connectionConnected`, the socket |
| `sent`, `executed`, `failures` | external: what the server received, executed, rejected |
| `owner`, `retired`, `answer` | history, read by properties only; `retired` holds the ids that were given up or displaced |

Choices that matter:

* A handler on the manager queue is one action. What an item of `tq` sends to
  the manager queue is handled there in order, so the action that takes the item
  contains the manager's handler too (`SendPayload` contains the completion
  block, `CloseConnection` contains `transactionsMayHaveFailed`). `tcpQueue` is
  merged with `tcpTransportQueue`: data of a connection precedes its close.
* Any manager handler may run while `closed`, `data` or payloads wait in `tq`;
  in particular a transaction may be built for a connection that is gone.
* Message ids come from one increasing counter, the clock; a clock that goes
  back is the free choice `BuildMonotonityViolated`. Ids are given out in the
  order of the request list, drop contexts after them, then containers.
* Size and priority decide in the code how messages are split into payloads.
  The model splits them into at most two in every possible way.
* Pings, confirmations, time-fix payloads and quick acknowledgements carry no
  request and are not represented. `needsQuickAck` and API initialisation are
  left out.
* The transaction lock is not part of this module: `wanted` may be served
  whenever the connection is open, also behind queued payloads. That the lock
  does serve it is the subject of `MTTcpTransport`.
* The server (external) executes a message id at most once in a session, repeats
  an answer under its own message id, and a rejection covers all the copies
  received so far. This is what the client's duplicate and resend logic relies on.

### MTTcpTransport

| Variables | Code |
|---|---|
| `need`, `able` | a service asked for a transaction that is not built yet; `canAskForTransactions` |
| `current`, `delegate` | `MTProto`'s `_transport` is this one; the transport's delegate is set |
| `managerWill`, `transportWill` | the two `willRequestTransactionOnNextQueuePass` flags |
| `mq`, `tq` | blocks of the manager queue and of `tcpTransportQueue`, oldest first |
| `isWaiting`, `requestAnother` | the transaction lock and the note of a request skipped under it |
| `didSendPing`, `ping`, `pingTimer` | the actualization ping, its message id and its resend timer |
| `connection`, `connected`, `valid`, `watchdog`, `stopped` | fields of `MTTcpTransportContext` |
| `backoffCount`, `backoffTimer`, `needsReconnection` | `MTTcpConnectionBehaviour` |
| `socket`, `stopping`, `pongs` | the connection as the transport sees it, and the pings it has carried |
| `started`, `excused` | history, read by properties only |

Here both queues are explicit, and every block is one action: an event of the
connection, the decode result that `MTProto` sends back, the completion of a
payload and a timer may meet in any order the two queues allow. `Suspend` and
`Resume` stand for the conditions of `canAskForTransactions`. The constant
`Faults` selects what may disturb an instance: network changes, secure resets,
suspension, giving the transport up, data that does not decode, and slow answers
(more than a second under the lock, a watchdog that reports). Ids of connections
and pings are compared for equality only, so an id is used again once nothing
refers to it: the number of reconnections is not bounded.

### MTTcpConnection

| Variables | Code |
|---|---|
| `mode`, `intermediate` | `_onegramWebSocket` or `_socksIp`; `_useIntermediateFormat` |
| `socket`, `attempt`, `ready`, `key` | `_socket`, `_onegramWebSocketAttempt`, `_onegramWebSocketReady`, the socket `_onegramWebSocketKey` was made for |
| `closed`, `timer`, `keyed` | `_closed`, `_responseTimeoutTimer`, `_incomingAesCtr` |
| `reading` | the tag of the read queued on the socket |
| `frame`, `fragmented`, `fragment`, `buffer` | the WebSocket frame being read and the two buffers packets are put together in |
| `cq` | callbacks that GCDAsyncSocket has dispatched to `tcpQueue` |
| `net`, `attached`, `tls` | external: the sockets |
| `opened`, `notified`, `packets`, `arrived`, `deaf` | history, read by properties only |

A GCDAsyncSocket (external) dispatches its callbacks from a queue of its own, so
that a socket the connection has given up can still be heard of. Bytes inside
WebSocket frames are numbered cells and packets are one to three of them; the
lengths and contents that decide control (a long length, a quick
acknowledgement, a malformed or empty frame, a refused upgrade, a zero length)
are choices. Encryption of the stream, TLS itself, progress and wording are left
out.

### EncryptedConnection

| Variables | Code |
|---|---|
| `counter`, `queue` | `_counter`, `_myNotYetAckedMessages`; `due` says that `minDelayBeforeMessageResend` has passed |
| `resendTimerActive`, `sendAcksTimerActive` | the two flags: a service task is posted |
| `largestIncoming`, `acksToSend`, `acksSent` | `_largestIncomingCounters`, `_acksToSendSeqs`, `_acksSentCounters` |
| `network` | packets that may still arrive, any number of times |
| `accepted`, `handed` | history, read by properties only |

The raw interface is modelled, as `Manager` uses it for the protocol this build
speaks: `InitialSetup` requires an acknowledgement, negotiation and candidates
do not. Sizes are counted in acknowledgements, so that a packet has room for a
few of them or fewer messages, and the loops that fill a packet meet its end. A
packet is what it decrypts to.

`SignalingChannel` is what a user of the channel may rely on for messages that
require an acknowledgement. Its four variables are, for each end, the messages it
accepted, those it still keeps, those its application has got from the other end,
and those of them it has got more than once. One packet is one step `Deliver`: it
brings no message without the ones before it, brings again none that the sender
still keeps, and frees only what the other application has got. The refinement
maps them to `accepted`, the counters in `queue`, and `handed` restricted to
messages the peer accepted; everything else of the connection is hidden.

### Ios6Srtp

The encoder (external) counts packets by cycle and sequence number; `wire` holds
every packet ever protected, with the roll-over counter it was protected under,
and any of them may arrive at any time and again. `sendLast`, `sendRoc`,
`recvLast`, `recvRoc` and the SSRCs are the fields `_srtp...` of the class. The
code's 32768 is the constant `Half`. Authentication is equality of the guessed
counter with the one used.

### NekroTunnel

| Variables | Code |
|---|---|
| `pc`, `daemon` | where a daemon is in `cmd_warp_tunnel`, and its variables |
| `scoped`, `default`, `resolver`, `table`, `hostRoutes` | the system: scoped routing, default route, `/etc/resolv.conf`, routes |
| `files` | `/tmp`: pid, saved scoped routing, ready |
| `enabled`, `supervisor`, `step`, `supervising`, `route`, `downSamples` | the coordinator: the switch, the supervisor, the operation on its queue |
| `stopping` | where the command `stop` is |
| `faults` | deaths and refused writes so far |
| `lost`, `missed`, `tangled`, `abandoned` | history, read by properties only |

The steps of the daemon are those between which it leaves a different state
behind when it is killed. A command of the helper is one action, except `stop`,
which waits for the daemon; a long operation of the coordinator is as many
actions as it runs commands. The bridge serves one command at a time and to its
end, so commands do not overlap; between them a daemon is as slow as it likes.
In particular it may scan kernel memory for any time before it writes its pid
file, the usual path where the sysctl is locked (`nw_scope.h:6`), and a command
may come at any moment of that. Each thing that the code lets fail may fail, up
to `MaxFaults` times: a file that `fopen` does not open, the host route (also
for want of a gateway or a Wi-Fi index), the restoring of scoped routing, the
reading of its value. The start may fail at the key, the socket, the endpoint,
the handshake, the device or a route, and the helper may not start at all; these
are not counted.

`missed` holds the daemons that ran when `stop` or `register` looked into a pid
file that did not name them; `tangled` those started while a missed one ran, and
those beside them; `abandoned` those that ran when the application died with the
switch off or turned it off for want of a profile. `lost` says that the system's
value of scoped routing may be gone: a daemon died between changing and saving
it, a restore was refused, the value could not be read, or a tangled daemon
changed it. The properties say how far these cases reach, and that there are no
others.

Left out: the route through `nw_route_add_default` is taken to succeed, the
default gateway and `/etc/resolv.conf` change by the helper only, and the files
`orig_gw`, `orig_dns` and `split` are seen through what `stop` does with them.

### NwScope

One variable for each key of the dynamic store that `nw_scope.c` writes, the
interface entry of `set_primary` and the entry of an earlier build included, the
primary service that configd elects in its own time, and where the process is
between `nw_scope_set_dns` and `nw_scope_restore`. configd may refuse any write
or removal, and all of them when the store cannot be opened, in `MaxRefusals`
operations. `ended`, `setFor` and `tainted` are history. Whether configd drops
the interface entry by itself when the device goes is not modelled.

### WarpSession

A handshake, and the transport key it yields, is named by its initiation; a
response can be consumed only while the state of that initiation is held (`hs`).
`sinceSent`, `sinceKey`, `sinceKa` and `sinceProgress` are the ages of the
code's time stamps, `tunIn` and `udpIn` the comparisons of its counters, and
one pass of the loop is the five actions from `Wake` to `ReadUdp`, between which
nothing else happens. The peer is external and follows WireGuard. Names that
`NwScope` has too start with `Session`, since one module of proofs extends both.
A datagram takes up to `Latency` seconds, and nothing is assumed about a round
trip against the times the code waits for one, 8 seconds in the first handshake
and 5 in a renewal. An initiation that is given up while it, or the answer to it,
is still under way counts in the history variable `late`, from one key to the
next.
`LatencyAssumption` is that a keepalive (25) arrives within a key's life (110).
An error of `recvfrom` ends an attempt of the first handshake at once
(`ReceiveError`) or the drain of the loop (`ReadUdpError`); errors of the tunnel
device are left out.

## Runs

| Run | Bounds | Distinct states | Properties |
|---|---|---|---|
| `requests` | 2 requests, 3 ids, 2 connections, 1 replacement, 1 failure, `MaxQueue` 1 | 2,369,086 | `TypeOK`, `NoSilentReissue`, `AnswerIsOwn`, `WaitingIsTemporary`, `SentIsWatched` |
| `requests_liveness` | 1 request, 4 ids, 2 connections, 1 failure, 1 restart, `MaxQueue` 2; `FairSpec` | 206,509 | `ImplementsCalls`, `EveryRequestEnds` |
| `transport` | 3 connections, 1 ping, `MaxQueue` 1, `MaxEvent` 2; all faults; `FairSpec` | 431,313 | `ReconnectionIsComing`, `AttemptIsWatched`, `NoLostWakeup`, `LockIsReleased`, `StoppedIsClosed`, `NeedIsBuilt`, `UpdatingEnds` |
| `connection` | all modes, 3 endpoints, 4 packets, frames of up to 3 cells; `FairSpec` | 123,854 | `ReadyIsClean`, `ToldOnce`, `ReadingGoesOn`, `CellsInOrder`, `StartSettles` |
| `signaling` | 2 ends, one of which sends; 5 counters, queue of 2, window of 3, packet of 4, messages of 2; `FairSpec` | 594,165 | `DataHandedOnce`, `QueuedHandedOnce`, `AckedIsHanded`, `HandedWithoutGaps`, `KeepsTrying`, `ImplementsChannel` |
| `srtp` | `Half` 3, 11 packets, 2 streams, gaps of 1 | 354,268 | `KeyStreamOnce`, `RemembersSent`, `NearAuthenticates` |
| `tunnel` | 2 daemons (symmetric), 1 route, 1 fault | about 8,500,000 | `BesideOnlyMissed`, `DisabledLeavesMissed`, `ScopedRecoverable`, `TunnelCarries` |
| `tunnel_liveness` | 1 daemon, 2 routes, 1 fault; `FairSpec` | 449,668 | `OperationEnds`, `Reconnects` |
| `tunnel_disabled` | 1 daemon, no faults; expects a violation | | `DisabledMeansDown` |
| `scope` | 2 services, 1 refusal | 4,780,040 | `OrderKept`, `NamesRestored` |
| `warp` | 2 attempts, 1 loss, 1 error, waits of 3 and 2, round trip 2, key life 4, keepalive 2, stall 2; `FairSpec` | 3,060,483 | `KeyIsKnown`, `GivesUpAfterLosses`, `DeadPeerNoticed` |
| `warp_stall` | 3 attempts, no loss, stall 5; expects a violation | | `StalledWasUnanswered` |

Every model of code has a `TypeOK` (`SessionTypeOK` in `WarpSession`); where a
run does not list it, it documents the variables, and what the properties need of
it is part of the inductive invariants.

Requests:

* `WaitingIsTemporary`: a request that waits for its message id belongs to a
  payload that is still in the transport's queue.
* `SentIsWatched`: a request that counts as sent on a connection of the present
  transport was sent on the connection it has now.
* `AnswerIsOwn`: the result passed on is one the server computed for this request.
* `NoSilentReissue`: the server executes a request again, under another id or in
  another session, only if the client gave up one of the two attempts or the
  completion block of an older payload displaced its id.
* `ImplementsCalls`: refinement of `RpcCalls`.
* `EveryRequestEnds`: a request in the list is completed or removed, unless an
  error has restarted it.

Transport:

* `ReconnectionIsComing`: from the first start to `stop` there is a connection
  or a running backoff timer, and not both.
* `StoppedIsClosed`: no timer or block that outlives `stop` connects again.
* `AttemptIsWatched`: a connection that has shown nothing valid has its watchdog,
  unless that has reported it or data was decoded since the start.
* `LockIsReleased`: while the transaction lock is held, the block that releases
  it is on one of the queues.
* `NoLostWakeup`: what a service wants to send is not forgotten between the next
  pass flags, the lock, a reconnection and the backoff.
* `NeedIsBuilt`, `UpdatingEnds`: it is built in the end, unless services are
  suspended or the transport is given up meanwhile, and the state "updating" that
  an unanswered ping stands for ends.

Connection:

* `ReadyIsClean`: when a WebSocket is ready, no callback of an endpoint given up
  earlier is left, so the callbacks that do not look at their socket are safe.
* `ToldOnce`: closing is told once, opening at most once.
* `ReadingGoesOn`: a read is queued, or its data or the socket's end is on
  `tcpQueue`, and there is never a second read.
* `CellsInOrder`: fragments, control frames and packets across frames are put
  together with no cell lost or repeated, and no whole packet is left waiting.
* `StartSettles`: a start ends in an opened or a closed connection.

Signaling:

* `DataHandedOnce`, `QueuedHandedOnce`: a message without acknowledgement is
  handed to the application at most once, one with acknowledgement at most once
  while its sender repeats it.
* `AckedIsHanded`, `HandedWithoutGaps`: a message leaves its sender's queue only
  after it was handed over, and no message is handed over before an earlier one.
* `ImplementsChannel`: refinement of `SignalingChannel`; it adds to the invariants
  that a message which was freed never comes back into a queue, that what an
  application has got stays so, and which packet may change what.
* `KeepsTrying`: an end with two messages in its queue goes on sending until one
  is acknowledged.

SRTP:

* `KeyStreamOnce`: no two packets of a stream share counter and sequence number.
* `NearAuthenticates`: a packet less than half a cycle from the receiver's last
  one authenticates, across a wrap in either direction.
* `RemembersSent`: the receiver's position is that of a packet that was sent.

Tunnel:

* `BesideOnlyMissed`: of two daemons that run beside each other, one had no pid
  file naming it when a command looked.
* `DisabledLeavesMissed`: with the switch off and nothing under way, a daemon that
  runs is one a command missed or one that was abandoned.
* `ScopedRecoverable`: without a daemon, scoped routing is as the system had it or
  its value is on file, unless it was lost in one of the four ways above.
* `TunnelCarries`: a daemon in its loop that no command missed and that is not
  tangled with another has the networks on its device, the host route it added
  and scoped routing off if it turned it off, whatever `stop`, `register` and the
  cleanup of others remove.
* `OperationEnds`, `Reconnects`: the coordinator's operations end although a
  daemon may hang, and a tunnel that is gone is started again (if there is a
  profile; without one the supervisor's search returns at once, each time).

* `DisabledMeansDown` (violated): once the switch is off and nothing is under way
  no daemon brings a tunnel up. A `stop` while the daemon scans kernel memory
  finds no pid file, reports "stopped and network routing restored"
  (`nekrowarp.m:3001`), and the daemon goes on to its loop.

Dynamic store:

* `OrderKept`: the user's order is kept, with the helper's service at most once.
* `NamesRestored`: a run that cleaned up leaves no service with the tunnel's name
  servers, if the primary service stayed the same, they were not in place before
  and nothing was refused.

Session:

* `KeyIsKnown`: without losses, the key in use is one the peer receives with.
* `GivesUpAfterLosses`: a live peer is given up only after a loss or a late answer
  for each initiation that is waited for; in the first handshake an error of
  `recvfrom` counts too. No answer is late where the code waits longer than a
  round trip. In the run the first handshake does and a renewal does not, as with
  the three to eight seconds of the comment at 2641.
* `DeadPeerNoticed`: a peer that no longer answers ends the loop, with or without
  traffic.
* `StalledWasUnanswered` (violated): a session given up as stalled had a packet
  out for `kStallSeconds` without an answer. The time stamp the check uses moves
  only when a datagram comes in, so that after an idle period the first packet
  of the application ends a healthy session at the next pass.

### Bounds

Two requests are what a container, a payload with siblings and a mismatched
answer need; three ids let both be sent, in a container, and one of them again.
Two connections give one loss, or one replaced transport with its late payloads,
and a resend. The run with one request adds the error that restarts it. The
request list may come to rest (every request ended), so deadlock is not checked
there. All safety properties of requests and the refinement are also proved for
every value of the bounds.

In `MTTcpTransport`, `MaxQueue` and `MaxEvent` limit when a call, data or an
event of the socket may come in, by the number of blocks still waiting; what
blocks dispatch to each other is not limited. Three connection ids are enough
for one to be free always at these bounds, so that none of them delays a
reconnection. All faults occur at once; the safety properties are also proved for
every value of the bounds. A ping built while all ping ids are
in use is sent and not followed: its completion and its answer change nothing.
Deadlock is checked.

In `MTTcpConnection`, three endpoints let callbacks of an abandoned one meet the
next and the one after it; four packets contain every packet size, and frames of
up to three cells hold parts of a packet, a whole one, or several. A closed connection is never used
again, so deadlock is not checked.

In `EncryptedConnection` the limits are small enough for all of them to be met:
a queue that is full, a packet that does not hold the whole queue, counters that
leave the window, and counters that are used up, where both ends come to rest.
Both ends run the whole code; the application at one of them sends.

In `Ios6Srtp` a cycle has six numbers, so that eleven packets wrap once or twice;
`MaxGap` keeps the packets that never reach `protectRtp` below half a cycle.
When all packets are made and received the model stops.

In `NekroTunnel` two process ids let a daemon run beside another one, which is
where the properties could fail; an id is free again when its process is dead, so
that the number of operations and of daemons one after the other is not bounded.
One route makes every attempt the first and the last; the run for liveness has
two. One fault is a death or a refusal at any one step, of anything; the proofs
cover any number of faults, daemons and routes. `NwScope` has two services and
one operation that is refused any part of it. In `WarpSession` the times keep the
order of the code's (a keepalive within a key's life, a renewal that waits less
than the first handshake); ids of handshakes are used again when nothing refers to
them, so that renewals are not bounded, and losses and errors are.

### Fairness

`MTProtoRequests`. Dispatch queues run what is dispatched to them (weak
fairness of the items of `tq`). A transport without a connection makes one, and
an opened socket connects, up to the bound; the last connection of the bound
stays up, which stands for a network that holds long enough. The time sync ends.
A transaction that is asked for again and again is built with a valid salt at
some time (strong fairness: the salts the time sync fetches are valid). The
server executes what arrives on the present connection and repeats a result
until the client takes it (strong fairness, since the queue may be full of
repeated data).

`MTTcpTransport`. Both queues are served and the two timers fire (weak
fairness). A connection that was told to stop closes, attempts to connect
succeed now and then, open connections bring some data now and then, and what
suspends services ends (strong fairness, since the bounds on the queues hold
events back); losses, resets and network changes are not limited.

`MTTcpConnection`. `tcpQueue` is served, and a socket that connects, negotiates
TLS or has a read queued completes it or fails (weak fairness). Connecting and
the upgrade have timeouts in the code; TLS and the SOCKS dialogue have none and
rely on the peer or on the transport's watchdog.

`EncryptedConnection`. Posted tasks run (weak fairness of the two timers).
Nothing is assumed of the network.

`NekroTunnel`. Commands return, the supervisor's timer fires, the polls of a
search go on to their deadline. A daemon may hang at any step, and nothing is
assumed of the user.

`WarpSession`. The process runs, time passes, and a datagram that is not lost
arrives within the latency. The peer may be silent for ever.

### What the models show besides

* `EveryRequestEnds` is claimed without errors that restart a request. With one
  the following can happen: a request is sent, its sibling's completion clears
  `waitingForMessageId`, it is sent again with the same id; the server's error
  comes between the second build and its completion block; the completion block
  then recreates the context with the answered id, and the request waits until
  the connection or the session changes.
* The completion block of a payload sets the message id it was built with
  (`MTRequestMessageService.m:550`) without looking whether the request has got
  another one since. A request that was restarted and built again while the first
  payload still waited in the transport's queue goes back to the old id, and the
  answer to the new one finds no request. The ids this happens to are `Displaced`
  in the model; it takes more ids and connections than the bounds of `requests`,
  and came up as a step that the proof of `NoSilentReissue` could not make.
* When the transport is replaced after a payload was dispatched, the payload may
  still be written by the old transport, and its completion block gives the
  request a transaction id whose close nobody reports. `SentIsWatched` speaks of
  the present transport only.
* The completion of a ping may arrive after a reconnection and store the id of a
  ping of the lost connection; the state is "updating" until data arrives and
  the resend timer fires. `tcpConnectionClosed` does not stop that timer.
* `connectionIsValid` for data of an old connection stops the watchdog of the
  new one, hence the exception in `AttemptIsWatched`.
* A plain connection that was stopped while it connected may tell opened after
  closed; the transport ignores it, since the connection is no longer its own.
* A WebSocket endpoint that rejects the upgrade and closes at once leaves a
  disconnect callback that is charged to the next endpoint, which is then
  skipped. `StartSettles` holds nevertheless, and `ReadyIsClean` shows that this
  cannot happen to an endpoint that is ready.
* A length of zero in the intermediate format, or of a SOCKS domain name, queues
  no read: the connection stays open and deaf (`deaf` in `ReadingGoesOn`).

Calls:

* A message sent with an empty queue joins the queue after the code that posts
  the resend task has looked at it. When it is lost (`InitialSetup` is such a
  message), it is repeated only when something else is sent; `KeepsTrying` speaks
  of two messages for this reason.
* A packet delayed until its message was acknowledged and its counter forgotten
  is handed over again. Messages without acknowledgement carry none either, and
  acknowledgements left over from a full packet have no timer; at the code's
  limits, 3273 acknowledgements fit a packet and 65536 messages the queue.
* After 32768 consecutive losses the receiver's guess is wrong for every later
  packet and nothing resets it; a second SSRC between packets of the first resets
  the counter to zero. There is no replay check, and `unprotectRtp` is called
  from two threads.

Tunnel. For the first seven the models have behaviours that TLC finds when the
statement is given to it as a property; they are what comments say and the code
does not do, or the reason for an exception in a property:

* `netcheck` answers 2, not connected, for a daemon that scans kernel memory and
  has no pid file yet (`nekrowarp.m:3080`), while the comment at 3034 has 3 for a
  starting one; the second such answer makes the search give the endpoint up.
* Scoped routing is changed before its old value is saved (2485, 2527), and the
  saved value is removed whether or not it could be put back (1476, 2960); hence
  `lost` in `ScopedRecoverable`.
* Without any fault, a daemon started beside a missed one reads scoped routing as
  off and saves that, and the next `stop` puts it in force, although the comment
  at 2936 says that repeated attempts cannot leave the policy modified.
* The `stop` before every start removes `/etc/resolv.conf`, of which split mode
  keeps no copy, and without a gateway on file sets the default route to a.b.c.1
  of the Wi-Fi address (2899-2933); the comments at 1285 and 2770 say that split
  mode leaves both alone.
* After `set_primary` and `restore` the entry of the interface is left
  (`nw_scope.c:214`), while `nw_scope.h:13` calls all operations reversible.
* Once configd has elected the helper's own service, `restore_dns` gives the saved
  name servers to that, and the user's service keeps the tunnel's
  (`nw_scope.c:386`, `nw_scope.h:34`); hence `tainted` in `NamesRestored`.
* A renewal sends a fresh initiation after five seconds and forgets the one
  before, so that an answer that takes longer is never accepted: a peer that
  answers all six is given up with "peer did not answer" (1801). Answers of three
  to eight seconds are what the first handshake waits eight for (2641).
* A signal that comes before the handlers are set kills the daemon without its
  cleanup; host routes of a dead daemon stay. Cleanup removes the pid file first,
  whoever wrote it.
* An application killed during the first search, or a search with no profile
  left, leaves a daemon beside a switch that is off (`abandoned` in
  `DisabledLeavesMissed`).
* `handle_fatal` restores scoped routing only; the service override, published
  exactly when scoped routing was not changed, stays, although the comment at
  1487 names this case. A `set_primary` that fails halfway is not undone.
* After a run that was killed, `set_dns` saves the tunnel's name servers as the
  original ones (`tainted` in `NamesRestored`).
* The last of the six initiations of a renewal is not waited for.
* A response delivered twice is consumed twice and sets the send counter back.
  After a renewal, what the peer sends under the old key is dropped until it has
  seen a packet under the new one. A lost confirmation followed by a lost
  response leaves a key the peer has replaced, hence "without losses" in
  `KeyIsKnown`. All times are wall-clock times.

## Proofs

Every safety property of the passing runs is a theorem `Spec => []P`, for every
value of the constants, and so are the two refinements, of `RpcCalls` and of
`SignalingChannel`. The assumptions on constants are the `ASSUME`s of the models: bounds
are natural numbers, and there is at least one of what is counted; in
`Ios6Srtp`, the packets the encoder makes in a row without `protectRtp` seeing
one are fewer than half a cycle (the code's wrap test can tell no more); in
`EncryptedConnection` there are two ends and a packet has room for a message; in
`NwScope` and `NekroTunnel` the helper's ids and the marks of the model are not
ids of services and processes; in `WarpSession` a keepalive arrives within a
key's life. Nothing is assumed about how fast a daemon is or how long a round trip
takes.

Few of the properties are inductive as they stand. What is added, and why:

`MTProtoRequestsProofs`. `TypeOK` needs the bookkeeping of ids: the rank of a
message in a transaction lies between 1 and their number (`RankBounds`), so that
ids given out lie above `lastId` and within the bound (`PreparedIds`).
`SafetyInv` is for `WaitingIsTemporary` and `SentIsWatched`: only live requests
wait; connections are numbered in the order they are made, and a replaced
transport makes no new one before its `stop` is taken. `IdInv` is for
`AnswerIsOwn` and `NoSilentReissue`: ids have one owner (ranks are injective),
what is in a context, in a payload or on the wire is an id its request was given,
of two ids of one request at least one is retired, the id of a request in the
list that is not retired is the one in its context, and an id that is not retired
is used in one session only.
`RequestsImplementCalls` maps every action to one of `RpcCalls` or to a stutter
under the same invariants.

`MTTcpTransportProofs`. `TransportInv` is for `ReconnectionIsComing`,
`StoppedIsClosed` and `AttemptIsWatched`: opened and closed blocks name a
connection, so that a close never matches a transport without one; `stopped` and
`needsReconnection` exclude each other; before the first start no timer runs; a
valid connection is an excused one. `LockInv` is for `LockIsReleased`: the present
transport has its delegate. A request for a transaction stays on the manager queue
until `transportReadyForTransaction` takes it, each of its branches puts an answer
on the transport queue, and the answer stays there until the lock is released.
`WakeInv` is for `NoLostWakeup`: a next-pass flag is set only while its block is
queued, a stopped transport or one with a `stop` in its queue is not `MTProto`'s
any more, and only a connection there is can be connected. The proof follows the
wish to send from flag to block, to lock or connection, and back.

`MTTcpConnectionProofs`. `ConnInv` is for `ToldOnce`, `ReadyIsClean` and
`ReadingGoesOn`. Its heart is the order of `tcpQueue`: callbacks of an earlier
socket come before those of a later one, those of one socket in the order
connected, secured, read, disconnected, no kind twice (`Ordered`), and none
before the socket has reached that state (`Possible`). So when `socketDidSecure`
of the present socket runs, nothing of an earlier one is left, and only after it
is anything read (`Keys`). `CellInv` is for `CellsInOrder` and needs what the
recursive functions `EndOf` and `Parsed` compute.

`EncryptedConnectionProofs`. `ConnectionInv` says of every packet that may still
arrive that what it acknowledges was handed over, that it carries accepted
messages only, that no message still queued is older than its first, and that
every message before one it carries is in it too or was handed over; of the
queues that they hold accepted messages in order; of the receiver that it refuses
the messages without acknowledgement it has handed over, and remembers the others
while their sender keeps them. The last is what `registerSentAck` could break by
forgetting too much. `ConnectionImplementsChannel` needs nothing more: the guards
of `Deliver` are what `ConnectionInv` says of the packet that is taken, a message
is accepted with a counter above all earlier ones, and the steps of timers, of
messages without acknowledgement and of the network leave the channel as it is.

`Ios6SrtpProofs`. `SrtpInv`: the counter of a packet is its true cycle, because
the sender's last number is at most a gap behind the encoder; everything on the
wire lies before the encoder's next packet. `KeyStreamFresh` says the same as
`KeyStreamOnce` of the step about to be taken.

`NekroTunnelProofs`. `TunnelInv` is one invariant for all four properties. While
`stop` restores, and until the coordinator has gone on from there, the daemons
that run are those it missed (`SeenIsGone`), so that a daemon started next is
alone or tangled with a missed one. A daemon that is not tangled runs alone
(`Alone`); the networks are routed to a process that is there (`TableIsAlive`);
what `TunnelCarries` says of the loop is true of each part from the step that
sets it up (`Carries`). As long as nothing is lost, every copy of the old value,
in a daemon or on file, is that of the system, a daemon that has not changed
scoped routing finds it as the system set it, and otherwise the value is on file
or in the one daemon that has changed and not yet saved it (`ScopedInv`).

`NekrowarpProofs`, first half. `ScopeInv`: the order is one of three (the user's, or that behind
one id of the helper), and stripping gives the user's in each case; between
`set_dns` and `restore_dns` only one service has the tunnel's name servers, and
what it had is saved.

`NekrowarpProofs`, second half. `SessionInv` is for `KeyIsKnown` and
`GivesUpAfterLosses`, which are about time, for round trips of any length. With a
long one several initiations and responses may be under way; of each handshake
there is one at most, and until it is consumed nothing else carries its id
(`OneGreeting`). That of the last handshake is no older than its way allows
(`InTime`), so that none is given up under way where the code waits longer than a
round trip; and each initiation but the one that can still succeed cost a
datagram or an error, or was answered too late (`AttemptsLost`), whence
`GivesUpAfterLosses`. For `KeyIsKnown`, while nothing has been lost the
peer receives with the key in use, either as its current one or as the next one
it has offered; in the second case the keepalive or a packet that confirms it is
due, or under way, before the key's life ends and a renewal could replace what
the peer offers (`PeerKeys`, `Confirming`). The peer takes initiations in their
order, so that a late one never replaces the key of the last. The invariant was
checked with TLC before it was proved, also where the resend is not longer than a
round trip.

Induction over data. An induction theorem that takes a predicate is out of the
provers' reach, but `LeastNumber` (a non-empty set of numbers has a least element,
from the well-foundedness of the naturals) is not, and a property of all numbers
is proved by looking at the least counterexample. In this way `KeepSeqTheorems`
shows that `KeepIn` keeps exactly the elements wanted, each in its place, and
`MTTcpConnectionProofs` that the recursive functions exist and that the parse loop
takes all whole packets and nothing else.

Only model-checked: liveness (`EveryRequestEnds`, `NeedIsBuilt`, `UpdatingEnds`,
`StartSettles`, `KeepsTrying`, `OperationEnds`, `Reconnects`, `DeadPeerNoticed`),
which is out of the prover's reach, and the two violations.

## Plan

1. The `mtState` flags of `MTProto` with `MTTimeSyncMessageService`, which would
   refine `able` and `suspended`. The service implements a selector for a changed
   session that `MTProto` does not call, so a salt request of a session the server
   has dropped waits until the connection changes.
2. `MTSessionInfo`: message ids from a clock that may go back, sequence numbers,
   and confirmations, which are removed when any data arrives on their
   connection.
3. `MTDatacenterAuthMessageService` as a machine of stages,
   `MTResendMessageService`, the timer of `MTRequestMessageService` (it is not
   armed again for requests that still wait when it fires).
4. The ICE probe of a call (permission, probe, nomination, a limited number of
   attempts) and the start of DTLS, where the certificate may be ready before or
   after the peer's parameters arrive.
5. `MTContext`, `ActionStage`, update state, secret chat sequence numbers.
6. `MTTcpTransport` shown to implement the transport that `MTProtoRequests`
   assumes.

## Not modelled

TL parsing, encryption, obfuscation, ciphers and key derivation (byte-level
code); the database; the user interface; vendored and generated code, which are
nearly all of the C in the repository (SQLite, LMDB, OpenSSL, WebRTC, Opus and
others). In the tunnel: registration with the service, the scan of kernel
memory itself (a step of any length that may be refused), diagnostics, the
bridge's socket protocol. `PROJECT.json` lists every
component with its status.
