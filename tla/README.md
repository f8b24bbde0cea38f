# GenHTTP in TLA+

A verification project for the GenHTTP web server: TLA+ modules translated from the C# source, TLC
configurations that check them on small instances, and TLAPS proofs of what matters most for every
instance. Paths below are relative to the repository.

## 1. The system

GenHTTP is an embeddable HTTP server. A *host* builds a *server* from an *engine* (how connections
are accepted and requests are parsed) and a tree of *handlers* (what answers them). Everything is
asynchronous: one task per connection, no shared state between connections except pools, the
handler tree and a few caches.

| part | state it keeps | operations | talks to |
| --- | --- | --- | --- |
| connection loop of the internal engine (`Engine/Internal/Protocol/ClientHandler.cs`) | the last read, `dataRemaining`, the timer | read, parse, handle, finish, flush, close | pipe reader and writer, request, root handler, server |
| request and body (`Engine/Shared/Types/Request.cs`, `RequestBody.cs`) | header view, body state (pending, opened, upgraded), framing | apply, open, upgrade, finish, reset | framing, pipe reader |
| framings (`Engine/Shared/Types/Body`) | what is left, the view handed out, the interim response | read, read to end, skip | pipe reader, pipe writer |
| response writing (`Engine/Shared/Types/ResponseHandler.cs`, sinks) | none beyond the writer | head, content, end | pipe writer, body (disarms the interim response) |
| server lifecycle (`Engine/Internal/Infrastructure`, `Engine/Shared/Hosting`) | instance, endpoints, sockets, pools | start, accept, stop, restart | connection loop |
| Ioxide engine (`Engine/Ioxide`) | reactors, streams, certificates | drive HTTP/1, 2 and 3, rotate certificates | request and body, handlers |
| Kestrel engine and adapter (`Engine/Kestrel`, `Adapters/AspNetCore`) | little: ASP.NET Core keeps it | map a context to a request | handlers |
| websockets (`Modules/Websockets`) | frames, fragments, consumed and examined positions | read a message, write frames | pipe reader of an upgraded connection |
| websocket proxy (`Modules/ReverseProxy/Websocket`) | the raw connection upstream, its pipe, the time limit | connect, upgrade, answer, relay both ways | upstream host, upgraded connection |
| static files of the Ioxide engine (`Modules/Files/Multi/Ioxide`) | snapshot of the tree, stamp, deadline, busy flag | prepare, touch, walk, rebuild, serve | disk, reactors |
| resources and their concerns (`Modules/IO`, `ClientCaching`, `Compression`) | `FileInfo` and length of a file, shared by all requests | range, compress, validate, head, body | disk, response writing |
| other handlers and concerns (`Modules/*`) | caches, nodes, scopes | answer a request or wrap another handler | each other |

What is hard about it: a handler may do almost anything with a body (ignore it, read some, hold a
view of it, read it while the response is being written, take the connection over) and the loop
must find the next request anyway; requests are pipelined and cut anywhere; responses are flushed
as late as possible; clients wait for the server (`Expect: 100-continue`) while the server waits for
them; timers, stops and leaving clients interrupt all of this; connection objects are pooled.
`PROJECT.json` lists these hazards line by line, with the properties that cover each, or a note that
says why none does: usually because the code does go wrong there and a property excuses it, which
section 4 lists.

What makes each part correct:

* connection loop and body: every request is parsed from its first unit; what the client receives is
  a legal HTTP conversation; what was answered is sent; a client that is gone ends the loop;
* framings: a body is delivered once, completely and in order, whichever way it is read, and the
  reader ends up behind it;
* lifecycle: a stopped server accepts nothing and can be started again, a pooled object carries
  nothing over;
* websockets: messages are delivered whole and in order, control frames in between;
* websocket proxy: both ends get exactly what the other has sent, a tunnel ends when its ends have;
* static files: the snapshot follows the tree, a body is as long as its head says;
* resources: length, range, tag and body of a response are of one version of the file;
* routing, ranges, negotiation, balancing: the function computed is the documented one.

## 2. Modules

| module | models |
| --- | --- |
| `PipeReader` | `System.IO.Pipelines` over a stream, as the code uses it (external) |
| `PipeReaderProofs` | the facts about it that the proofs share |
| `Conversation` | what a connection promises its client: abstract |
| `ClientHandler` | one connection of the internal engine, with request, body, framings and response |
| `MCClientHandler` | its instances for TLC: kinds of requests, pairs and triples of them |
| `ClientHandlerProofs` | the theorems about `ClientHandler`: its reader and body, what it writes and what it holds back, and that it implements `Conversation` |
| `BodyReader` | what a framing promises the consumer of a body: the abstract specification |
| `BodyFraming` | what both framings share: consumer, pipe reader, client |
| `LengthFraming`, `ChunkedFraming` | `ContentLengthFraming.cs` and `ChunkedFraming.cs` in full |
| `RequestFraming`, `MCRequestFraming` | a body with the framing that is chosen for it; bodies for TLC |
| `RequestFramingProofs` | the theorems about both framings: they implement `BodyReader` |
| `ServerLifecycle` | host, servers, endpoints, accept loops, connections in flight, pooled contexts |
| `MCServerLifecycle` | its setups for TLC |
| `ServerLifecycleProofs` | the theorems about it |
| `MessageStream` | what a websocket connection promises the handler that reads from it: abstract |
| `WebsocketReader` | `WebsocketConnection.cs`: frames and messages of a client, as a handler reads them |
| `MCWebsocketReader` | its scripts for TLC |
| `WebsocketReaderProofs` | the theorems about it: it implements `MessageStream` |
| `Relay` | what a relayed connection promises its two ends: abstract |
| `WebsocketTunnel` | a websocket connection the reverse proxy relays, from connecting to the end of the tunnel |
| `WebsocketTunnelProofs` | the theorems about it: it implements `Relay` |
| `AssetRefresh` | the snapshot of a file tree, its refresh by requests, and the responses made of it |
| `AssetRefreshProofs` | the theorems about it |
| `ServedFile` | a file that changes, served through ranges, compression and cache validation |
| `MCServedFile` | its setups for TLC: the documented chains of concerns |
| `ServedFileProofs` | the theorems about it |

`ClientHandler` has the framings again, at the grain one connection needs (a chunk is one unit, any
call may happen at any time, the interim response is sent); the framing modules have the calls in
full, chunks of several units and copies of a part of one. All build on `PipeReader`; the lifecycle
reduces a connection to where it looks at the server, and `ClientHandler` reduces the server to
`running`. `ServedFile` and `AssetRefresh` reduce the connection to the head and the bytes that are
written to it; `WebsocketTunnel` starts where `ClientHandler` ends, with `upgrade`.

### PipeReader

Bytes are units numbered from 0 along the connection. A reader is a record: `pos` (consumed up to
here), `end` (buffered up to here), `all` (everything had been examined when it last advanced), `back`
(a read has returned and its caller has not acted on it yet), `eof`. `HasMore` is `TryRead`,
`Readable` says that `ReadAsync` has returned or returns without asking the stream, `Pull`/`PullEnd`
are the reads of the stream and `AdvanceTo` is `AdvanceTo`. The distinction of examined and consumed
matters: a loop that has examined everything waits for new data even though the buffer is not empty,
and this is how a partial pipelined request delays a response. Only `AdvanceTo` changes `all`. A
caller that leaves a read without advancing (`Unadvanced`: it throws, or keeps a view of what is
buffered) therefore does not get the same units again if everything had been examined before they
came: its next read goes to the stream. This is how a malformed chunk can strand a connection.

### Conversation, ClientHandler

A client follows a *script*, a sequence of requests that is chosen in `Init` and never changes. A
request is a header of `HeadLen` units and a body of `size` units. How its headers were scanned
(`RequestBody.ScanHeaders`) is data of the request: its framing, whether it expects a 100
(Continue), whether it keeps the connection, whether the parser accepts it, whether its last chunk
is malformed. Content of bytes is not modelled, positions are: that is what the loop can get wrong.

| state | code |
| --- | --- |
| `pc` | where the task of the connection is in `HandlePipeAsync` |
| `reader`, `pending`, `wire` | pipe reader, unflushed part of the pipe writer, what the client has received |
| `remaining`, `expired`, `running` | `dataRemaining`, cancellation of `_cts`, `Server.Running` |
| `cur`, `body`, `reading`, `mode` | the pooled request, its `RequestBody` with framing and `ContinueReader`, the read a handler awaits, the `Connection` that `HandleRequestAsync` returns |
| `script`, `client` | the environment |

Actions up to `Parsed` are the loop, `OpenBody` to `ReadThrows` what a handler or the content of its
response does with the body, `Respond` to `EndResponse` the response, `FinishImpossible` to
`NextRequest` the `FinishAsync` and the way back, `SendError` the catch blocks. A step of the model
is the code between two awaits that can suspend. `Receive`, `GoAway`, `Expire` and `Stop` interleave
with all of them. Exceptions go to `error` or, inside `SkipAsync` for malformed bodies, to a close, as
in the code; a reset client may let a flush fail or not. `ReadThrows` leaves the reader unadvanced, so
a read or skip after a malformed chunk may have to wait; `Stranded` names the state in which it waits
for a client that has sent all it will.

Abstractions: header fields and payloads are left out; a chunk is one unit, the last chunk another;
`Handling` and `Faults` switch on what handlers and clients do, so that each run stays small.

`Conversation` is the connection without its loop, its buffers and its bodies: what the client sends,
how much of it has arrived, what it has been told, and whether the connection is closed. A message may
be said when the conversation stays `Legal`: the first answer is for the first request, each one
follows the end of the one before, none is for a request whose header is not there yet, an interim
response is for a client that expects it, a head that keeps the connection for a valid request that
asked for it, and nothing is behind a head that does not. `Close` needs a reason. Either the
client is excused (`Excused`: it has gone, its time is up, the server stops, or a handler has taken
the connection for another protocol), or what it was told explains it (`Explained`: a head that said
so, a response that broke off after its head, or a request whose body cannot be told from the next
request). The mapping (`Promise`) reads `arrived` from the reader, `got` from the wire and `over`
from `pc`; `ConversationKept` is `Conversation!Spec` under it. Several messages may be said in one
step, because one flush sends all that was written.

### BodyReader, BodyFraming, LengthFraming, ChunkedFraming, RequestFraming

`BodyReader` is the promise of `IBodyFraming` to a handler: reads hand the body out from front to
back, each unit once; a call fails only if the body is cut off or malformed; after a failure nothing
comes twice or out of order. `PromiseKept` (in `BodyFraming`) is `BodyReader!Spec` under the mapping
`size <- body.size`, `flawed <- Flawed`. `RequestFraming` puts the framings together: a body is one of
`LengthBodies` or of `ChunkedBodies`, and the framing that is not chosen keeps its initial state
(`TypeOK` says so).

The consumer makes any calls in any order (`call`: `"some"` is `ReadAsync` into a buffer of `room`
units, `"all"` is `ReadRemainingAsync` or `ReadToEndAsync`, `"skip"` is `SkipAsync`), the client may
leave at any point, and behind the body the first `Extra` units of the next request are waiting to be
taken by mistake. A call that throws for a malformed chunk leaves the reader unadvanced, and the next one
may wait for the client (`Stranded`), which `Returned` says is the only way not to return. A buffer
that is smaller than a chunk is no such case: the chunk is then held, and no call reads before it has
been copied or released. `remaining` and `heldEnd` are the fields of `ContentLengthFraming`; `completed`,
`position`, `rest`, `chunkEnd` and `written` those of `ChunkedFraming`. The chunk parser is a third
party (`Glyph11`): it sees a chunk once it is buffered completely, and rejects malformed ones.

### ServerLifecycle

`host` is the call in progress (`StartAsync`, `StopAsync`, `RunAsync`, one at a time; a restart is a
start) and where it is: disposing the endpoints of the old server one by one, joining their accept
tasks, creating, preparing, binding. `listener[s][p]` is an endpoint of a server with its socket, its
accept task and `_shuttingDown`; `conn[c]` a connection on its way from the queue of the socket over
the handshake to the loop. There it is `reading` a header, with the timer, or in one of the steps the
server has no time limit for (`Untimed`): `handling` a request, `skipping` the rest of its body,
`flushing` the response, `closing` with a last one. In each of them it may have to wait for its client
(`Await`, `GoOn`, field `waits`), which sends the rest of a body or receives an answer when it likes.
`context[x]` is a pooled `ClientContext` with its cancellation source, whose
timer goes on while the context waits in the pool. `OtherProcess` takes and frees ports, so binding
fails half way, and accepts fail at times. `setup` is chosen at the start: how many endpoints, which
of them are secure, how many servers, clients and contexts there are.

### MessageStream, WebsocketReader

A frame is two units, header and payload: enough to cut it anywhere that matters. A script is the
sequence of frames a client sends: data with and without FIN, pings, a close, a header the decoder
rejects. Variables carry the names of the fields; `parts` are the frames whose payloads `_frame`
refers to, `inner` is `innerExamined`. Payloads are slices of the pipe's buffer that were unmasked in
place, so the model counts how often each was unmasked and records whether something was used after
it had been given back. `FirstFrame`, `NextFragment`, `Interrupted`, `NeedsMore`, `CutOff` and
`CleanEnd` are the outcomes of `ReadFrameSegmentAsync` with what `ReadSegmentedFrameAsync` does with
them; the `Try` actions are `TryReadFrame`. A handler mixes both calls and may cancel a read;
`Habits` says whether it does so in the middle of a message. A handler goes on until it sees a close
or an error, as `ReactiveWebsocketContent` does with the default `OnError`.

`MessageStream` is what all this amounts to for that handler. There is no buffer in it, no position
and no call, only what was sent and what has been handed out: data in order and each fragment once,
alone or as a message of exactly the fragments that were open when its last one came; a ping where it
was sent; and an end for one of three reasons (a close, a malformed frame, a connection that is lost).
The mapping (`Promise`) takes `returned` for what was handed out, `at = "done"` for the end, and calls
the connection broken once the client has left or the server stops. `StreamKept` is
`MessageStream!Spec` under it.

### Relay, WebsocketTunnel

`pc` goes through `WebsocketProxy.HandleAsync` (`connect`, `tls`, `write`, the loop of `TryUpgrade`
with `top` and `handshake`, `answer`) and then through `WebsocketTunnelContent.WriteAsync` (`head`,
`tunnel`, `ended`); `error` is an exception, with the status the client gets. `input` and `downstream`
are the two readers, `up` and `down` the two copying tasks. The upstream host sends a head of
`HeadLen` units and anything behind it, in the same read or not; a read may deliver any part of what
was sent. Either end may stop sending or be gone at any time. A round of `CopyToAsync` first writes what
its reader holds, even if the end it came from is gone by now, and only then reads that end, which
throws if it is gone (`Copyable`). What the head says is not modelled,
because the code does not look at it.

`Relay` is what the two ends can tell of it: a connection that is asked for, refused or open, and over;
what each end has sent and got. It does not know readers, copying tasks or the handshake. The mapping
(`Promise`) reads its phase from `pc` and takes the client's and the host's side together as functions
of the end; `RelayKept` is `Relay!Spec` under it. That a client is only switched over once the host has
answered (or while the server stops, see section 4) is the guard of `Relay!Switch`, that nothing is
skipped or repeated that of `Relay!Deliver` (what an end had sent may be passed on after it is lost, but
nothing to an end that is lost), that an intact relay is complete when it is over that of
`Relay!Finish`.

### AssetRefresh

`node` and `file` are the disk: paths name files, and a file that was replaced or removed can still
be read through its descriptor. `snapshot`, `stamp`, `nextCheck` and `busy` are the fields of
`IoxideFilesHandler` and `AssetRefresh`. A request brings the time of its arrival to `Touch` and
goes on from there, step by step between two reads of shared state: the claim of `_busy`, the
deadline, a walk that visits one path at a time while the disk changes, the comparison, the rebuild,
the release; then a lease for the length (`Resolve`), another for the body (`Write`), and the reads
of the body. The rebuild is one step: it opens descriptors and takes their sizes at one time per
file, and a tree that changes meanwhile is what a change before or after it is.

### ServedFile

A version of the file is its number; it has `history[v]` bytes and its own time. `info` and `length`
are what `FileResource` caches for all requests. A request passes `chain` from the inside to the
outside: ranges, compression, validation, in the orders that `AddRangeSupport` and `Defaults` build.
A validation keeps a tag that is there already (`ValidateAgain`), computes one otherwise (`Validate`,
`Assign`, `Tag`), and compares it with that of the client (`Compared`). Then the head is written
(`promised`), the file opened, its length learnt, and its bytes read in any
pieces and let through. Numbers of the range code are unsigned (`Modulus` stands for 2^64) where
the code's are, and `Signed` where it compares them as signed. Files are replaced by a rename, as
deployments do, not rewritten under a reader; two versions never share time and length, so the
hash of a tag is the tag. The content of a 416 is another one and not modelled.

## 3. Runs

The connection runs use `HeadLen = 2`, so that a header can be cut, and bodies of 0 to 3 units, enough for a
part that is read, a part that is held as a view and a part that is skipped.

| run | instance | shows |
| --- | --- | --- |
| `connection_faults` | every kind of request before a `Get` and after a `Post`, and three `Get` in a row; `fin`, `reset`, timers and a stop at any time; handlers that throw, close, upgrade, read late, flush, fail | `TypeOK`, `Aligned`, `Accounted`, `CloseKept`, `UnsentBehindNext`, refinement `ConversationKept`; `GoneThenClosed` under fairness |
| `connection_patient` | the same pairs, no faults, a client that holds expected bodies back | `Served` under fairness: but for a loop that is `Stranded`, every request is answered |
| `connection_unsent` | three requests, only timers | `NothingUnsent` is violated, see findings |
| `connection_late_read` | one expecting client, content that reads the body | `Served` is violated, see findings |
| `framings` | by length 0 to 5 units; up to three data chunks of 1 to 3 units, with and without trailers, sound or malformed at each chunk; buffers of 1 and 3 | `TypeOK`, `SkipLands`, `PositionIsHandedOut`, refinement `PromiseKept`; `Returned` under fairness, `Stranded` calls excepted |
| `lifecycle` | two servers with two plain endpoints each and one client; one server with one TLS endpoint, two clients, two contexts | `TypeOK`, `SocketsOwned`, `StopComplete`, `OwnTimer`; `CallReturns`, `QueueMoves`, `Drains` under fairness, with clients that may stall for ever wherever the server waits for them |
| `websocket_messages` | all scripts of up to 4 data and ping frames, shorter ones with a close or a rejected header at the end; all settings; cuts, leaving, stops | `TypeOK`, `UnmaskedOnce`, `DataKept`, refinement `StreamKept`; `Delivered` under fairness |
| `websocket_drain` | one message with a ping inside, `TryReadFrame` after it | `UnmaskedOnce` is violated, see findings |
| `tunnel` | a head of two units, up to two units behind it and two from the client; ends that stop or are gone, the time limit, a stop of the server | `TypeOK`, `Relayed`, `NothingCut`, refinement `RelayKept`; `Answered`, `TunnelEnds` under fairness |
| `assets` | one path, two reactors (one asks for the body), two changes of the disk, one walk or rebuild that throws, three ticks | `TypeOK`, `NeverStuck`, `BodyAsPromised`; `Follows` under fairness |
| `served_changes` | one request with every kind of range; two at a time for a part or the whole; three of clients that validate; through every documented chain and one that validates twice; files that shrink, grow, become empty, are gone for a while | `TypeOK`, `Framed`, `PartIsWanted`, `NotModifiedRight`, `Tagged` |
| `served_length` | the same | `LengthMatches` is violated, see findings |

Two requests are enough for most safety properties of a connection: all state that survives a
request is the reader, the writer, the timer and `dataRemaining`, and every kind of request is checked
on both sides of that border. Three are used where a response may be held back behind another one.
`CHECK_DEADLOCK` is off where the system really ends, as connections, bodies, tunnels and requests do.

Bounds of the other runs: `Rooms = {1, 3}` has a buffer smaller than every chunk but the smallest and
one larger than most; `Extra = 2` leaves room for an overrun by more than one; `MaxPosition` ends the
calls after units were counted again (see `PositionIsHandedOut`). `MaxServers = 2` has a server
after another one, which is all the host remembers; two endpoints are needed for a start that fails
half way, two clients and two contexts for a context that changes hands. Four frames are enough for a
message of two fragments with a ping between them and something behind it, or one of three
fragments with a ping.

`HeadLen = 2` and `MaxSent = 2` cut a head anywhere and let frames arrive in the read of its end and
in later ones. The theorems below lift these bounds. One path is enough for a stamp that is ahead of
or behind the snapshot; the two changes are one before and one after any step, and can take the tree
back to what it was. Two reactors are a walk and a request that is turned away by it or overtakes it;
only one of them asks for the body, since bodies do not disturb each other. The interval of one tick
in three leaves the last one to follow a change. `Modulus = 16` is more than twice every file, and one
of the ranges does not fit it. Two requests in flight are one that reads and one that has opened
the file before; the third one of `served_changes` validates what the first one got. Only these runs
use symmetry (of the requests), and they check no liveness.

Fairness: `FairSpec` assumes weak fairness of the server's steps (the task of a connection is
scheduled again after each await), weak fairness of `Receive` (the client sends what it is willing to
send: the network delivers) and strong fairness of `Respond`: a handler that gets the chance to
answer again and again does not spend forever on calls that do not advance; and of `EndResponse`:
the content of a response does not flush forever. Nothing is assumed of faults and timers.

The framings assume weak fairness of the call in progress and of the network: what the client has
sent arrives, and an awaiting task is scheduled. The lifecycle assumes weak fairness of the host's
call, of the accept tasks, of the work of a connection and of armed timers, which fire if they are not
stopped, and strong fairness of accepting a queued client: an accept that can fail at times does not
fail forever. Handlers are assumed to go on and to return while they do not wait for their client.
Nothing is assumed of that client (`GoOn`), so `Drains` ends at a connection that is closed or waits;
nor that a TLS handshake ends. `WebsocketReader` assumes that the handler reads on and
its reads are scheduled (weak), and that units on their way arrive although reads are cancelled and
called again (strong). `WebsocketTunnel` assumes that its tasks are scheduled, that what was sent
arrives at a read and that the time limit elapses (weak); not that a TLS handshake ends, nor that
an end sends or leaves. `AssetRefresh` assumes that time goes on, that requests keep arriving (nothing
else drives the refresh) and that a reactor goes on with what it has begun (weak); the disk owes
nothing. `ServedFile` states safety only.

Mutants: each property is paired in `PROJECT.json` with a mutated definition (a missing release, a
missing flush, a missing disarm and the like) that TLC finds violated; the mutated forms stand in
front of the definitions they replace.

## 4. Findings

* A response can be lost behind a partial pipelined request (`connection_unsent`). The loop does not
  flush when `TryRead` returns data. If that data is an incomplete header, the loop waits for the rest
  with the response unflushed; the timer then ends the connection without sending it.
  `UnsentBehindNext` shows that this is the only way it happens.
* Response content that reads the body of a client which waits for a 100 (Continue) deadlocks with
  it (`connection_late_read`): the start of the response disarms the interim response, and nothing
  has been flushed.
* A `TryReadFrame` after a ping inside a fragmented websocket message decodes, and unmasks, the first
  fragment of the message again (`websocket_drain`).
* A file that was replaced is served with the length it had (`served_length`): the head is written
  from the length the resource knows, and the new one is only learnt when the body is opened. The
  client gets too few bytes, or the surplus in front of its next response. `Framed` says when the
  length does match: if the resource knew it when the request came, or if cache validation looked at
  the file before the head, and then only for whole files.

Seen while modelling and admitted by the properties:

* connection: one that waits for a request while its server stops still serves that request.
* connection and chunked framing: a malformed chunk throws out of a read that has not advanced. If
  that read had to wait for the chunk, everything had been examined before, so the next read, or the
  skip of the loop, does not find the chunk again and asks the stream. `SkipAsync` then does not return
  false, as `IBodyFraming` says of a malformed body, but waits for a client that may be waiting for
  the answer the handler has written and nobody has flushed (`Stranded`, in `Served` and `Returned`).
* lifecycle: what the server does with a client after the header of its request has no time limit:
  reads and skips of a body, flushes (and before it, the TLS handshake). A client that stalls there
  keeps its connection on a stopped server; `Drains` says that nothing else does.
* lifecycle: a start that fails leaves `IServerHost.Instance` set, although it is documented as the
  server "if started", and endpoints bound before the failing one listen until the next call.
* framings: a chunked read to the end that fails has counted chunks it does not hand out, so
  `Position` is only checked until a call fails; a body that is read as one piece is cast to 32 bits.
* websockets: a stream that ends inside a fragmented message throws from the copy of fragments
  already given back instead of reporting the unexpected end (`DataKept` admits the case); a read
  cancelled inside a message loses the fragments in front of it (`Habits` leaves it out); a ping
  inside a message and frames that are read with manual continuation are not copied although frame
  data is to be allocated (`DataKept` covers messages).
* websocket proxy: a stop of the server during the handshake answers 101 as if the upstream had; the
  status of the upstream's response is never compared with 101, although the comment of
  `RawWebsocketConnection` says so (heads have no status in the model, so no property can tell); the raw
  connection is only disposed by a tunnel that has run; an end that stops sending is not passed on, so a
  tunnel waits for the other end too; connecting and the TLS handshake have no time limit; a time limit
  that surfaces as `OperationCanceledException` is a 500 and not the 504; what a client pipelines behind
  its request never reaches the tunnel.
* static files: a change between snapshot and stamp of `PrepareAsync` is not followed until the next
  one (which the constructor of `AssetRefresh` warns of); nor is one whose `Reload` throws, because
  the stamp is recorded before. `NeverStuck` and `Follows` excuse both as `behind`. The length of a
  response and its body come from two leases, so a change between them makes a body short.
  Trees that differ only in ways the stamp does not see (equal newest time and total size) are not
  followed; in the model every write has its own time.
* ranges: `bytes=L-` and `bytes=-0` of a file of length L are a 206 without content and an end in
  front of the start, not a 416; a number beyond 64 bits throws; the ends of a range are computed
  from the cached length, before validation refreshes it; `If-Range` is not looked at.
* validation: a request that reads an old file may set the length back after another one has
  refreshed it, and if the old file was empty, a complete and empty response is stored under the
  new tag (the excuse in `NotModifiedRight`). Without validation, a resource that was empty when it
  was created is served as empty for good. A request that makes its tag just when another one has
  found the file gone gets a tag without a time, which any version of the same length matches: the
  other excuse, found while proving `NotModifiedRight` with an instance the run is too small for.

## 5. Proofs

`ClientHandlerProofs` proves, for every set of scripts (with `ScriptAssumption`: laid out without
gaps, not empty, a body only with a framing), every header length, every set of faults and every
behaviour of handlers: `Spec => []TypeOK`, `[]Aligned`, `[]Accounted` and `[]Grounded`.

`Aligned` (the reader stands at a request when the loop parses one) is not inductive: whether a step
of a framing keeps it depends on what is left of the body, on the view handed out and on the state
of the body. The inductive invariant is `IndInv == TypeOK /\ Grounded /\ Aligned /\ Accounted`:
`Accounted` relates position, view and remainder to the end of the body, and `Grounded` says that the
reader stays inside the stream, that the framing is the one the header asks for, that a read is only
awaited on an opened body without a view, and that the loop goes on only from the end of a body.
The proof has one lemma per group of actions; `HandlerKeeps`, `LeaveKeeps` and `FinishKeeps` carry
the parts that steps share.

It adds, under the same assumption, `[]WireOrdered` and `[]CloseKept`. Neither can be
seen from what has arrived: what a step may write depends on what was written last, flushed or not.
`Talk` therefore speaks of `Out == wire \o pending`: it is a legal conversation (`Legal`, both
properties at once), `Staged` says what its last message is wherever the loop may be, `Promised`
that only a request that asks for it has its interim response armed, and `Closing` that a head that
refuses to keep the connection was the last one. Once a client has reset its connection `Out` may
miss what was lost with it, so only `wire` is spoken of from then on. `LegalMore` is the step that
all writing actions share. `[]UnsentBehindNext` rests on `HeldBack`: wherever the loop goes round, and
not only once it is closed, a response is pending only if the reader has got units behind the request
that was answered.

With both invariants it proves `Spec => ConversationKept`. `Talk` says in which order messages are
written, but not about what, nor why a connection ends; two more parts do. `Answering` says that every
message is about a request whose header has arrived, that the first is about the first request and
that no request is passed over (`InTurn`: with nothing written yet, the loop is at the first one), and
that a response that ends the connection has said so. `Begun` says that the header of the request
being served has arrived (which is `Aligned` once more: the parser finds the next request and nothing
else), that only a client ends a stream, and that a connection taken by another protocol
serves no other request. A step of the server is then `Say`, `Await` or `Close`; `ServerSends` and
`SaidPromise` show what all of them share, and `EndResponsePromise`, `SendErrorPromise` and
`FinishPromise` find the reason for each close. The theorem implies `WireOrdered` and `CloseKept`; the
run keeps the second, which is what the client of a closed connection looks at, and leaves the first
to the refinement.

`WebsocketTunnelProofs` proves, for every length of the head and any number of units behind it,
`[]TypeOK`, `[]Relayed`, `[]SwitchedAfterGreeting` and `[]NothingCut`. `Relayed` says where the reader
is only while a tunnel is open; its strengthening adds that the readers stay inside what was sent and
see the end of a stream only behind all of it (`Ordered`), that nothing but the head is consumed before
the tunnel (`Staged`), and that a direction ends only with its stream or with one of the ends
(`Copied`). Nothing in it speaks of who is still there: a copying task goes on with what it holds. The
step of a copying task rests on `UnitsJoin`: two pieces of a stream, one behind the other, are one.
`NothingCut` follows from the same invariant.

With that invariant it proves `Spec => RelayKept`. Few steps matter: a read that finds the whole
head is `Answer`, the 101 is `Switch`, an exception `Refuse`, a copy `Deliver`; everything else the
proxy does is invisible to its ends. The theorem implies `SwitchedAfterGreeting`, which the run
therefore does not check again.

`RequestFramingProofs` proves, for bodies of both kinds at once, of every length, any number of chunks
of any sizes, every buffer size and every cut into reads: `[]TypeOK`, `[]SkipLands`,
`[]PositionIsHandedOut` and `Spec => PromiseKept`, the refinement of `BodyReader`. The assumptions are
`FramingAssumption` (buffers are not empty, a body is of one kind), `LengthAssumption` and
`ChunkedAssumption` (chunks follow each other without gaps, only the last is empty; any of them may
be malformed). The invariant is `LengthInv` or `ChunkedInv`, as the framing was chosen, with the other
framing untouched; `FramingChosen` keeps the two apart.

`LengthInv` is `Accounted` (what is read, held as a view and remaining is the body), `FromTheFront`
(what was handed out is a front of the body, and all of it that is not remaining, until the consumer
skips) and `LengthInStep` (a call that waits has no result yet, an end of the stream is the client's).
With it, each step is a delivery, an end or a failure of `BodyReader`, or a stutter. `RunJoin` is what
a read adds to what was handed out.

By chunks, reads, reads to the end and skips may take turns and fail, so there is no arithmetic between
what was read and what is left; `ChunkedInv` speaks of `Following`, the next unit a read will find.
`Placed` says that the reader is at the first unit of a chunk, and that a chunk held in part is the one
it is at; `Delivered` that all that was handed out, and behind it all that a read to the end has
written so far, is in front of `Following`, without a gap as long as no call has failed; `Counted`
that the position is both together. A read to the end passes over as many chunks as are buffered in
one step: `ChunksOrdered` (a chunk ends in front of all later ones) and `StopFacts` (it stops at a chunk
which starts inside the buffer) need induction over the chunks, done as the choice of a least
counterexample (`LeastOf`, from the well-foundedness of `<`), since the induction theorems of the
library are out of reach. `Collects`, `GoesOn`, `Completes` and `Breaks` carry what these steps share.

`ServerLifecycleProofs` proves, for every number of servers, endpoints, clients and contexts (with
`EndPointAssumption`, `SetupAssumption` and `NoneAssumption`: no client is called none), `[]TypeOK`,
`[]SocketsOwned`, `[]StopComplete` and `[]OwnTimer`. A stop takes many steps while accept loops and
connections go on, so the invariant says how far it is: `Calling` which servers there are, by where
the call of the host is; `Bound` that only configured endpoints of built servers ever had a socket or
a task; `Quieted` that all servers but the one of the host are quiet, and of that one the endpoints in
front of the one being disposed; `Owned` that a connection, from its first read to its last flush, owns
its context and has armed the timer of it. The steps without a time limit share one lemma
(`UntimedSteps`); waiting changes nothing it speaks of.

`WebsocketReaderProofs` proves, for scripts of any frames and length, every cut and every setting,
`[]TypeOK`, `[]MessagesWhole`, `[]UnmaskedOnce` and `[]DataKept`. The theorems assume `Habits = {}`, that
of the run: a handler that calls `TryReadFrame`, or cancels a read, in the middle of a message breaks
them (`websocket_drain` and section 4). `Placed` says where the next frame is decoded in each state
of the four positions (`Upcoming`), `InOrder` that exactly the frames in front of it have been decoded,
once each, and that each of them has been handed out or is a part of the message that is being
assembled, and `Held` that nothing that is still to be used has been given back. What is handed out is
compared through its parts (`InPlace`) and not by counting: a count would be a recursion over the
script.

With that invariant and `EndSeen` (the reader has seen the end of the stream only if the client has
left) it proves `Spec => StreamKept`. The frame that is decoded next is the one whose turn it is
(`FollowsNext`), because everything in front of it has been handed out or is a part of the message in
progress; if it is data, that message is what `MessageStream` calls its `Fragments`
(`FragmentsNext`). So a frame that is handed out is `Message`, `Ping` or `Close`
(`SingleStream`, `CompletedStream`), an end for any other reason is `Fail` (`FailsStream`, with a
reason from the guard of the step), and the rest is a stutter. The theorem implies `MessagesWhole`,
which the run therefore does not check again.

`ServedFileProofs` proves, for every set of setups (any chain of concerns, in any order and any number
of times, versions of any lengths, any Range headers; `SetupAssumption`: a version is shorter than
half of `Modulus`), `[]TypeOK`, `[]Framed`, `[]PartIsWanted`, `[]Tagged` and `[]NotModifiedRight`. One
inductive invariant carries them. `AllShaped` is what a request looks like at each step whatever
happens to the file: how far it is in the chain, which of its fields are set, that a tag has been made
exactly if it has passed a validation. `AllSteady` is what holds while the file stays the same, for
requests that knew the length or have passed a validation: length and `FileInfo` are those of the
version on disk, so are tag, promised length and opened stream, and what was sent of a part is what has
been read of it, clipped to the part (`PartOf`). Other requests do not disturb this, because what they
write to the shared resource comes from the same version (`OthersSteady`, `Alike`). `AllDated` and
`AllKept` order the versions of tags, streams and copies while the file changes; a tag that is there
when a validation is reached has been compared before and was not that of the client, so comparing
it again finds nothing. `PartFacts` is the
arithmetic of a window that wraps around (`bytes=-0` of an empty file included), `PartGoesOn` the step
of the ranged stream.

`AssetRefreshProofs` proves, for any number of paths and requests and every bound, `[]TypeOK`,
`[]NeverStuck`, `[]BodyAsPromised` and that only one request walks at a time. `NeverStuck` looks at
the stamp of the tree when nobody walks; what makes it true was laid down while somebody did.
`Counted` therefore says what the walk has added up while the disk is left alone, and `Tied` what
remains of it when the disk changes later: the stamp counts the files of the snapshot, and a file
that is no longer the one of the snapshot is gone or written after the stamp (`OfOneMoment`). A stamp
that is that of the tree leaves no file that is newer (`MaxFacts`), so the files that have a name are
among those of the snapshot, and as there are as many they are the same. The bytes of a stamp are not
needed for this; they only notice changes the clock does not separate, which the model leaves out.
`Dated` (nothing is dated after the last change) and `Known` (a new file is none of those there have
been) carry this from step to step, `Kept` says of each response what its length and its descriptor
have to do with the file.

What everything that reads through a `PipeReader` rests on is stated once, in `PipeReaderProofs`: what
each operation of the reader does to its fields (`ReaderFacts`), that only a read which returned nothing
sees the end of the stream (`EofFacts`), that leaving a read without advancing loses nothing
(`UnadvancedFacts`), and that a run of units and the units behind it are a run again (`RunFacts`,
`EmptyRun`, `RunJoin`).

Every safety property of a passing run is the statement of a theorem. Only model-checked are the
liveness properties (`GoneThenClosed`, `Served`, `Returned`, `Delivered`, `Follows`, `Answered`,
`TunnelEnds`, `CallReturns`, `QueueMoves`, `Drains`), which are out of reach of the prover.

## 6. Plan

Done: the connection loop as an implementation of `Conversation`, the framings of `BodyReader`, the
websocket reader of `MessageStream` and the websocket proxy of `Relay`; the lifecycle, the static files
of the Ioxide engine, served files with ranges, compression and validation. Next, in this order:

1. `Ioxide`: the HTTP/1 driver, the stream pool of HTTP/2 and HTTP/3, certificate reload and
   publication against the disposal of the server.
2. Stateful modules: event connections, load balancing, dependency scopes.
3. Functions of a request: compression negotiation, authentication order, layout routing, tool
   server dispatch, path and query handling, each against a reference definition over bounded inputs.
4. Response writing: headers and the chunked writer; the websocket encoder and handshake.

The modules of this list get their theorems as the others have: every safety property a run checks.

## 7. Not modelled

Parsing of header bytes (a third party parser), formatting of responses, TLS, cryptography, file
access, reflection and code generation, logging, the Kestrel engine (a host of ASP.NET Core), OpenAPI
documents, test support and benchmarks. Reasons are given per component in `PROJECT.json`.
