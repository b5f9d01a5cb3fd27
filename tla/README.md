# A verification project for duh.go

TLA+ models of the parts of duh.go that are hard to test: the streaming writer
and its heartbeat goroutine, the streaming reader and its timer, the bytes
between them, retries, size limits, pagination, the way errors travel from a
service to a client, TLS set-up, the log adaptor, and the demo program with its
callers. TLC checks the models on small instances; TLAPS proves all their safety
properties, and both refinements, for every instance. `PROJECT.json` lists the
runs, the mutants that show each property can fail, the source lines behind every
definition, the findings, the hazards and the theorems.

    tlc -workers 2 -config StreamServer.cfg MCStreamServer
    tlapm StreamServerProofs.tla

## 1. Inventory

| Component | State | Operations | Interacts with |
|---|---|---|---|
| Frame codec (`stream/stream.go`) | none | `WriteFrame` (two `Write` calls), `ReadFrame` | both sides of a stream |
| Stream writer (`streaming.go`, server) | `mu`, `closed`, `stop`, `stopped`, `stopOnce` | `HandleStream`, `Send`, `Close`, `stopHeartbeat`, the heartbeat goroutine | the user's handler; the `ResponseWriter` |
| Stream reader (`streaming.go`, `client.go`) | `done`, `hasPending`, timeout, request context | `DoStream`, `Recv`, `Close`, the timer callback | a server over a connection |
| Client (`client.go`, `errors.go`) | none per call | `Do`, `DoContent`, `DoBytes`, `DoStream`, `handleErrorResponse` | services, intermediaries, retry policies |
| Service helpers (`service.go`) | `bytesWriter.wrote` | `ReadRequest`, `ReadContent`, `Reply`, `ReplyError`, `WriteContent`, `HandleBytes` | the limit reader; the client |
| Limit reader (`reader.go`) | `remain`, `max` | `Read`, `Close` | request bodies, `io.Copy` |
| Retry (`retry/retry.go`, `policies.go`) | attempt counter, timer | `On`, `BackOff.Next`, `shouldRetry`, `rateLimitDuration` | contexts; client errors |
| Pagination (`pagination.go`) | `cursor`, `err`, `done` | `Iterator.Next` | `retry.On`, an endpoint |
| Connection wait (`wait.go`) | none | `WaitForConnect` | a listener |
| Log adaptor (`log.go`) | a pipe, a scanner goroutine | `Write`, `Close` | `http.Server.ErrorLog` |
| TLS set-up (`tls.go`) | `TLSConfig` | `SetupTLS`, `selfCA`, `selfCert`, `discoverNetwork` | files |
| Demo service (`demo/`) | the content map and its lock | the handlers | service helpers, clients |
| Commands (`cmd/`) | the server and its shutdown; a YAML file | `main` of demo and of duh | the demo service |
| Test service (`internal/test`) | none | handlers for the repository's tests | all of the above |

The hard behaviours are: two goroutines that share one connection (writer and
heartbeat), a timer callback that races the read it guards, a connection that
fails between the two halves of a frame or between any two bytes, a context that
is cancelled at any step, integer widths (lengths, limits, durations), replies
that are rewritten or replaced on the way, and a server that is shut down under
its callers. The code persists nothing, so there is no crash recovery.

What makes each component correct:

* writer: whole frames only, exactly those whose calls returned nil, nothing
  after a final or an error frame, no goroutine left behind, no deadlock;
* reader: messages in order and once, `io.EOF` only for a complete stream, no
  wait for a frame without an end when the timeout is enabled;
* client and service: a service's error code reaches the caller, success is
  reported only for success, only transient failures are retried;
* limit reader: bounded memory, no silent truncation, the body closed on every
  way out;
* retry: the attempt limit, the right list for the right error, delays
  respected, cancellation obeyed;
* pagination: every page once, in order, whatever a failed attempt left behind;
* codec: what is read is what was written, and only a clean end is `io.EOF`;
* log adaptor: whole lines in order, all of them before `Close` returns, and
  nobody ever stuck on the pipe;
* TLS set-up: an error exactly for what cannot work, otherwise a client and a
  server that accept each other;
* demo and commands: no torn content, none that was replaced before a download
  began, exit codes that tell the truth, and an end for everybody who waits.

## 2. Modules

| Module | Models | Runs |
|---|---|---|
| `StreamServer` | `HandleStream`, `Send`, `Close`, the heartbeat goroutine | `stream_server`, `stream_server_panic` |
| `FrameLog` | abstract: a log of whole frames that ends with the terminal one | property of `stream_server`; environment of `StreamReader` |
| `StreamReader` | `Recv`, `Close`, the timer, the contexts | `stream_reader`, `stream_reader_timeout` |
| `StreamChannel` | abstract: messages in order, then "complete" or "failed" | property of `stream_reader` |
| `RetryPolicy` | `shouldRetry` and the predefined policies | used by `Retry` and `RPC` |
| `Retry` | `retry.On` and its intervals | `retry` |
| `LimitReader` | `LimitReader` under `io.Copy` | `limit_reader` |
| `Pagination` | `Iterator` | `pagination` |
| `RPC` | one call from client method to service and back | `rpc` |
| `FrameCodec` | `WriteFrame` and `ReadFrame`, byte by byte | `frame_codec` |
| `LogAdaptor` | `HttpLogAdaptor` | `log_adaptor` |
| `TLSSetup` | `SetupTLS` | `tls_setup` |
| `DemoServer` | the demo program and its content store | used by `Demo` |
| `WaitForConnect` | `WaitForConnect` | used by `Demo` |
| `DuhCommand` | the duh command | used by `Demo` |
| `Demo` | the three above and their calls, composed | `demo` |

`MC*` modules give the constants their values. `StreamServerProofs`,
`StreamReaderProofs`, `RPCProofs`, `RetryProofs`, `PaginationProofs`,
`TLSSetupProofs` and `DemoProofs` hold the theorems about the module they are
named after; `ByteProofs` those about the three modules that count bytes,
`LimitReader`, `LogAdaptor` and `FrameCodec` (section 4). As it extends all three,
their common definitions have a prefix: `LimInit`, `LogInit`, `CodecInit`, and so
on.

### StreamServer

`pc` is where the request goroutine is and `hb` where the heartbeat goroutine
is. `mu`, `closed`, `stop`, `stopped` and `stopOnce` are the fields of
`streamWriter` (a closed channel is TRUE). `cur` is the frame being written.
`wire` is the response body, as a sequence of header and payload parts, because
`WriteFrame` issues two writes and another goroutine could get between them.
`log` records what each call returned. `whole` is a history variable: for every
frame whose last part is out, where it ends on the wire and which call wrote it.
`WholeExact` says that it is no more and no less than that, so that properties of
"the decodable frames" need no filtered sequence.

The user's handler is arbitrary: it may call `Send` and `Close` in any order,
with messages that fail to marshal or encode to nothing, return nil, a
`duh.Error` or another error, or panic. It calls from one goroutine, as the
`StreamWriter` interface requires. An action ends where the other goroutine
could first notice: at a lock, a channel operation or a write. The body of the
heartbeat's critical section is one action, as its single write is its only
visible effect. The connection may start to fail at any moment and then fails
for good, as net/http's does.

Refinement: `FrameLog`'s `frames` are the flags and bodies at the places `whole`
names, and its `up` is `conn = "up"`.

### StreamReader

The environment is `FrameLog` (what `StreamServer` is shown to implement), plus
an end of the response without a terminal frame, a lost connection, and a frame
with an unknown flag. `ArmTimer`, `ReadFrame` and one `Got...` action per result
are one turn of `Recv`'s loop. `TimerExpires` and `TimerCancels` are two steps,
because `timer.Stop` does not wait for a callback that already runs. `victim`
remembers whose timer cancelled the context. `carriers` is a history variable:
the numbers of the frames that carry a message (`CarriersExact` says exactly
those). Refinement: `sent` is what these frames carry and `status` follows the
first result that is not nil.

### Retry

Durations are integers of a small width; a float64 that does not fit becomes
the smallest or the largest of them, as on amd64 and arm64. `sleeps`, `ops` and
`asked` are histories for the properties. Rate-limit delays come in the same
unit as the clock.

### LimitReader, Pagination, RPC

`LimitReader` counts bytes: a `Read` returns any number of them, with io.EOF or
before it, and the request's buffer sizes vary. `Pagination` uses `retry.On` by
what `Retry` shows of it; `endpoint` says what each cursor is answered with, and
one of the endpoints reports more pages with an empty cursor. `RPC` takes a
response apart into status, media type, version header, body and encoding: what
`handleErrorResponse` looks at. Its service side follows the demo's handlers and the
library functions they call; its network may overwrite the media type, replace the
response (by a page, or by a JSON document that parses as a `Reply`), cut the body
or lose it. A call has two contexts, the method's argument and the request's own;
`ContextOf` is the one the method obeys and `Aborted` what the other end of a
cancellation looks like.

### FrameCodec

`wire` holds the bytes of the stream and `pos` says how many of them were read;
`half` is the payload between the two writes of `WriteFrame`; `want` and `got` are
the state of `io.ReadFull`. `starts` is a history variable: where each frame that
was written begins. A byte
has `Base` values and the length field `LenBytes` bytes, so that a payload can
outgrow its length field in a small instance, as one of 4 GiB does in the code.
`StreamServer`, `FrameLog` and `StreamReader` pass whole frames: `RoundTrip` and
`EndIsClassified` are the reason they may. `int(length)` (`stream/stream.go:77`) is
the length itself, as it is where `int` has 64 bits; on a 32-bit build lengths of
2^31 and more would turn negative and pass the limit.

### LogAdaptor

`wpc` and `msg` are the goroutines that log, `scan` and `buf` the scanner's
goroutine, `closer` the caller of `Close`. `io.Pipe` is modelled by its three
promises (writers take turns, a `Write` returns when its bytes were taken or the
pipe is closed, closing wakes the other end), `bufio.Scanner` by its buffer and
its refusal of a line that fills it. `bufio.ScanLines` also drops a carriage return
before the newline; the messages here have none. `taken` is a history variable: every byte the
scanner has read. The accepted messages and the lines that were logged are kept
with their places in it, so that "no byte is lost" is a statement about places:
messages lie one behind the other, lines between one newline and the next.

### TLSSetup

One action per step of `SetupTLS`, each with its error return; `pem`, `server`
and `client` keep what the steps before a failure did to the `TLSConfig`. A
certificate is its key and its signer and a pool a set of keys, which is enough
to say who trusts whom. A bad file holds another private key: it pairs with
nothing and adds nothing to a pool. Any files, at most `MaxFaults` of them, may
be bad or unreadable. The caller may repair an unreadable file and call again,
and may have set the PEM fields, which `Load` overwrites as the code does.

### DemoServer, WaitForConnect, DuhCommand, Demo

`DemoServer` has the goroutine that listens, the main goroutine that waits for a
signal and shuts down, and a handler per call. An entry of the content store is
copied in two steps, so that the lock matters. A client that stops waiting
(`Abandon`) may call again at once: its handler goes on as an orphan, beside the
handlers of later calls, and a request that was sent and not read yet may still be
read (`"gone"`). `WaitForConnect` is the dial loop. `DuhCommand` cuts a file into
documents and posts them; `spans` is a history variable, the lines of the file that
each posted document came from.

`Demo` takes one instance of each; a step of a call is a step of both its ends. The
command makes its calls one after the other. Every upload and every download is a
call of its own, so all of them may overlap, whichever client makes them. `begun`
says which have begun, `stored` which uploads were answered, and `before[c]` which
had been when `c` began: `Current` says with these what a download may find.
`present` says which callers are at work: the waiting caller and the command, or
the content clients. They share nothing but the shutdown.

## 3. Runs, bounds and fairness

| Run | Bounds | Why they are enough |
|---|---|---|
| `stream_server` | 3 calls, 2 ticks, 3 messages (plain, empty, not marshalable) | `Send`, `Close` and one call after it; one tick before and one racing the join |
| `stream_reader` | 3 frames, 4 calls, 5 messages (two plain, empty, undecodable, too big) | a message, a heartbeat and an end; one call after the end |
| `retry` | 4 attempts, clock to 5, 3-bit durations | overflow happens at the third attempt; delays of 1 to 3 and 2 fit |
| `limit_reader` | int64 scaled to 0..7, buffers of 1, 3 and 8 | limits 0, 1, the largest, and sizes on both sides of each |
| `pagination` | 3 pages, 5 fetches, 5 calls, proper and looping endpoints | a first, a middle and a last page with two failures; a second round through a loop |
| `rpc` | none: the state space is finite | 4 service codes and 7 intermediary statuses, one per class the code tells apart |
| `frame_codec` | 3 frames, bytes of 2 values, a 2-byte length, payloads of 0, 1, 3 and 4 bytes, limits 0 and 2 | empty, small, largest and truncated payloads, followed by a frame that would be misread |
| `log_adaptor` | 2 writers, 3 writes, a 3-byte buffer | a message with several lines, one that fills the buffer, one write after the other end is gone |
| `tls_setup` | at most 1 bad or unreadable file, 2 calls | every combination of files and flags; a failed call, a repair and a second call |
| `demo` | 2 uploads and a download that may all overlap, 4 files | an upload that overtakes an abandoned one or is overwritten by it, while the entry is read; a file with a blank, a refused, a malformed and a half-read document |

Eight runs check liveness and assume fairness; it does not affect their safety
properties:

* `stream_server`: weak fairness of the library's own steps, and strong
  fairness of taking the mutex and of the heartbeat's stop case. The Go
  scheduler runs every runnable goroutine, a starving `sync.Mutex` waiter is
  served, and `select` picks among ready cases at random. Nothing is assumed of
  the handler or the ticker, nor that a `Write` to a connection that is up returns:
  no code sets a write deadline, so a client that stops reading blocks it with the
  mutex held. `CallsReturn` says that this is the only way for a call to hang.
  A `Write` to a connection that has failed returns.
* `stream_reader`: weak fairness of `Recv`'s own steps, of the timer and of
  its callback. Nothing is assumed of the server or the network. `RecvReturns` is
  therefore about each wait for a frame, and does not depend on the bound: a server
  that heartbeats for ever may keep a `Recv` in its loop for ever.
* `retry`: weak fairness of `On` and of the operation coming back. The clock
  is not fair, so a sleep may last for ever.
* `limit_reader`: weak fairness of the steps that wait for nobody, the refusal and
  the closing of the body. A `Read` of the body may never return, and `CopyEnds`
  says that this is the only way not to end.
* `rpc`: weak fairness of the client's own step and of `http.Client` noticing a
  cancellation. The service and the network may do nothing.
* `frame_codec`: weak fairness of the reader. Nobody need write.
* `log_adaptor`: weak fairness of the scanner's goroutine, of a `Write` that was
  woken and of the wait in `Close`, strong fairness of a writer's turn (the
  pipe's `sync.Mutex`).
* `demo`: weak fairness of the program's goroutines and its five-second limit,
  of the dial loop, and of the command with its deadline. No handler is fair: it
  may wait for a body that never comes.

Deadlock is checked in every run; the final states stutter explicitly.

What the passing runs show is stated, property by property, in the modules. Most
runs check their module's invariants in a few conjunctions of named parts, the
type invariant among them (`ResultsExact`, `AttemptsExact`, `LimitHolds`,
`PagesExact`, `ErrorsTold`, `RetriesTransient`, `ErrorsExact`, `NothingLost`,
`NobodyStuck`, `FilesDecide`, `ClientsChecked`, `CommandExact`,
`ProgramsEnd`); the parts are named below where one of them matters, and each
has a mutant of its own. The abstract specifications give the two results a reader should remember:
`ImplementsFrameLog` and, over it, `ImplementsChannel`. Together they say that a
structured stream is an ordered message channel that says "complete" only when
it is.

### Findings

Two runs expect a violation; each shows a place where the code and a comment or
a document of the repository disagree (`PROJECT.json` quotes the lines):

* `stream_server_panic`: a panicking handler leaks the heartbeat goroutine;
* `stream_reader_timeout`: the caller's own cancellation, and the late callback of
  an earlier read's timer, are reported as a heartbeat timeout of this read.

Elsewhere the properties take no side: where the code and a comment, a document
or a test differ, the case is left out of the property, by a condition that is named
or commented where the property is stated.

| What the code does | What is said of it | Left out of |
|---|---|---|
| an unknown flag ends the stream with an error (`streaming.go:335`) | `docs/streaming.md:74`: receivers "SHOULD skip the frame" | `ErrorFrameReported` |
| an infrastructure error is retried when both lists are nil (`retry.go:142`) | `retry.go:118`: "A nil value means infrastructure errors are NOT retried" | `AttemptLimit` |
| a body one byte over the limit is accepted when io.EOF comes with its last byte (`reader.go:26`) | `reader.go:24`: an error "after n bytes have been read"; `reader_test.go:32` | `LimitHolds` |
| a bytes client gets a 455 for every error, and a refused stream a 455 (`service.go:122`) | `service.go:93-94`: "it will return the code and message provided by the Error"; `docs/streaming.md:78`: a 400 | `ServiceErrorKept` |
| `DoStream` cancels before it reads the error, and may lose it (`client.go:228`) | `client.go:340-341` | `ServiceErrorKept` |
| an infrastructure 500 or 501 is not retried, nor a 429 with a JSON body that is no `Reply` (`policies.go:32`) | `client.go:386-387`: 5xx and 404 "are retried"; `docs/spec.md:226`, `326` | `RetriedOnlyIfTransient` (`Disputed`) |
| a 429 or 454 page of an intermediary is taken for a service error, and retried (`client.go:391`, `policies.go:24`) | `client.go:388-389`: other codes "are NOT retried" | `RetriedOnlyIfTransient` (`Disputed`) |
| PEM fields are overwritten, also when no file is named (`tls.go:191-221`) | the comments at `tls.go:93-112`: "Used if ... is unset" | `FilesDecide` (`Undisputed`) |

What follows surprises and contradicts nothing that is written; a checked property,
or the named part of one, states it exactly:

| What the code does | Property |
|---|---|
| `DoBytes` does not use its context (`client.go:268`) | `CancelEnds` |
| after a failed `SetupTLS` the next call returns nil with unfinished configs (`tls.go:152`) | `BuiltOnce` |
| AutoTLS generates a CA beside a given certificate it did not sign (`tls.go:415`) | `AutoTrusted` |
| duh posts the part of a document it could read (`cmd/duh/main.go:95`) | `WholeDocuments` |
| an upload whose client gave up may land over a newer one that was answered (`demo/service.go:92`) | `DownloadsAreUploads` |
| without jitter the back off falls from its maximum to its minimum once the product overflows (`retry.go:63`) | `SleepsInBounds` |

Two more were met in `tls.go` and no property is about them: `MinVersion`
defaults to TLS 1.3 (line 158) where line 64 says 1.0, and a `ServerTLS` of the
caller's is changed, in the model too, although line 120 says that it makes all
other fields ignored.

## 4. Proofs

A run shows a property on a small instance; a theorem shows it for every value
of the constants. The bounds (`MaxCalls`, `MaxFrames`, `MaxOps`, ...) are
constants too, so a theorem also covers executions of any length. No property
below is inductive by itself: each proof module states an inductive invariant,
shows that `Init` implies it and that every action keeps it (one step per action,
one lemma per action where it is long), and derives the properties from it.

| Theorem | States | Invariant |
|---|---|---|
| `StreamServerProofs` | | `IndInv` |
| `Invariance`, `TypeCorrect` | `[]IndInv`, `[]TypeOK` | |
| `Contiguity`, `PostCloseSilence` | `[]FramesContiguous`, `[]SilentAfterTerminal` | |
| `Joined`, `QuietAfterReturn` | `[]HeartbeatJoined`, `NoWriteAfterReturn` | |
| `ClosedForGood` | `[]NothingAcceptedAfterClose` | |
| `CallsMatched` | `[]WireMatchesCalls` | |
| `ServerImplementsFrameLog` | `ImplementsFrameLog` | |
| `StreamReaderProofs` | | `ReaderInv` |
| `ReaderInvariance`, `ResultsAreExact`, `DeliveryInOrder` | `[]ReaderInv`, `[]ResultsExact`, `[]DeliveredInOrder` | |
| `ReaderImplementsChannel` | `ImplementsChannel` | |
| `RPCProofs` | | `RPCInv` |
| `RPCInvariance`, `ErrorsAreTold`, `SuccessGenuine`, `RetriesAreTransient` | `[]RPCInv`, `[]ErrorsTold`, `[]SuccessIsGenuine`, `[]RetriesTransient` | |
| `ByteProofs`, limit reader | | `LimitInv` |
| `LimitIsKept`, `LargestLimitRefusesAll` | `[]LimitHolds`, `[]RefusesAll` | |
| `ByteProofs`, log adaptor | | `LogInv` |
| `LogLosesNothing`, `LogCloseFlushes` | `[]NothingLost`, `[]CloseFlushes` | |
| `ByteProofs`, frame codec | | `CodecInv` |
| `LengthsWrap` | `Uint32(PutUint32(n)) = n % Modulus` for every `n` | |
| `CodecRoundTrips`, `CodecErrorsAreExact` | `[]RoundTrip`, `[]ErrorsExact` | |
| `RetryProofs` | | `RetryInv` |
| `RetryInvariance`, `AttemptsAreExact`, `SleepsBounded` | `[]RetryInv`, `[]AttemptsExact`, `[]SleepsInBounds` | |
| `CancelStopsAttempts`, `ServerDelayKept` | `NoAttemptAfterCancel`, `ServerDelayRespected` | |
| `PaginationProofs` | | `PagesInv` |
| `PagesInvariance`, `PagesAreExact`, `IterationEndsForGood` | `[]PagesInv`, `[]PagesExact`, `DoneForGood` | |
| `TLSSetupProofs` | | `TLSInv` |
| `TLSInvariance`, `FilesDecideAlways`, `AutoAlwaysTrusted`, `ClientsAlwaysChecked` | `[]TLSInv`, `[]FilesDecide`, `[]AutoTrusted`, `[]ClientsChecked` | |
| `BuildsOnce` | `BuiltOnce` | |
| `DemoProofs` | | `DemoInv`, `CmdInv`, `Places` |
| `DemoInvariance`, `DownloadsExact`, `ExitZeroIsClean`, `PostedOnce` | `[]DemoInv`, `[]DownloadsAreUploads`, `[]ExitZeroDrains`, `[]PostedInOrder` | |
| `CommandIsExact` | `[]CommandExact` | |

### The arguments

* Writer. `IndInv` adds who holds the mutex (`LockInv`), the join protocol
  (`JoinInv`: the stream is closed, and a final or an error frame prepared, only
  after the heartbeat goroutine is gone), where a terminal frame can be
  (`TerminalInv`), what an unfinished frame at the end of the body means
  (`LastPartInv`), which frame belongs to which call (`WholeInv`) and why a
  stream ended (`EndInv`). The join makes terminal frames safe from heartbeats,
  the mutex makes the others safe. A step completes a frame, which is `Emit`,
  breaks the connection, which is `Break`, or is a stutter of `FrameLog`.
* Reader. `ReaderInv` ties the messages handed over to the frames that carry one
  and to the read position (`DeliveryOK`), says what is known inside `Recv`
  (`RecvOK`) and which frame an outcome follows from (`OutcomeOK`). The reader is
  proved over any server that behaves like `FrameLog`, which is what
  `ServerImplementsFrameLog` gives.
* Client. `RPCInv` says what a response in transit can look like, given what the
  service meant and what happened on the way (`InTransit`); `handleErrorResponse`
  is then a matter of cases.
* Limit reader. `Conserved` and `Counted`: bytes are moved, never lost, and
  `remain` is `limit + 1` less what was copied.
* Log adaptor. `SendOK` and `RestOK`: one `Write` is served at a time, and what was
  taken of it is the end of what was taken. `AcceptedOK` and `LinesOK` keep every
  message and every line where it was found, `BufOK` says that the scanner's buffer
  is what was taken since the last line, and `PipeOK` who can have closed the pipe.
  The bytes of a line are then the bytes that were written, whatever the reads and
  the turns were.
* Frame codec. `StartsOK` and `WireOK`: the frames lie one behind the other on the
  stream, each as far as the stream goes. `ReadOK`: as long as no length outgrew its
  field the reader is at the frame behind those it returned, or at its payload, and
  `GotOK` says which bytes it has. `ResultOK` says where it was when it stopped.
  Headers are decoded by `UintRest`, the induction over the bytes of a length.
* Retry. `Counting`, `Retried` and `Outcome` relate the counter, the attempts and
  the result; `Timed` relates the timer to the delay the server asked for.
* Pagination. `Fetching` and `Ending`: the cursor is one the endpoint answers,
  and the end is the end the endpoint reported.
* TLS set-up. `PEMsOK` and `ConfigsOK` say what every field is after every step of
  the first call; `Returned` is what later calls cannot change.
* Demo. `LockOK`: between `Lock` and `Unlock` a writer is alone, so a copy in two
  steps is whole (`ContentOK`, `AnswerOK`). `HistoryOK` says what the clients have
  seen, and `ContentOK` what that means for the entry: once an upload has written
  (`Written`), nothing that was answered before it began is there again, because a
  call that was answered has no handler left to write it. Orphaned handlers need no
  case of their own; they are bound by the same lock. `PostingOK` ties the command's
  call to the server's handler. For the command, `Places` says which lines the
  buffer holds and that every document before them was posted or is blank.

Every invariant was checked by TLC on the instance of its run before it was
proved.

Induction over data needs care: the library's induction theorems have an operator
as parameter, which the provers cannot instantiate. Where numbers are encoded,
`SetInduction` takes the set of numbers that have the property instead, and follows
from the least number that is not in it (`WFMin`). That `Pow` and the value of a
length satisfy the equations they are defined by is proved in the same way: a
function that satisfies the equation up to `m` is extended to `m + 1` (`PowExists`,
`ValueExists`). Elsewhere a history variable carries what a recursive definition
would compute: `whole`, `carriers`, `spans`, `taken` and `starts`.

### The assumptions

Each module names what a proof needs of its constants, and TLC evaluates it in
the run. Most of it is typing. The rest, and why the code justifies it:

* `StreamServer`, `StreamReader`: the nil message is no message; only messages
  are encoded to nothing or exceed the frame limit; a garbled error reply does
  not decode.
* `LimitReader`: limits are int64 values, sizes at most the largest of them.
* `LogAdaptor`: a message ends with a newline, which is what `log.Logger.Output`
  makes sure of; there may be others inside. The scanner's buffer is not empty.
* `FrameCodec`: a byte has at least two values and a length at least one byte.
  Payloads are any sequences of bytes; 0 is no limit.
* `Retry`: a `BackOff` has `Min <= Max`. `retry.go` does not check this; every
  policy of the repository satisfies it, and without it "between `Min` and `Max`"
  means nothing. A jitter or a server's delay that is not positive counts as none
  in the code (lines 64 and 181), so neither is negative.
* `Pagination`: a page that reports more has an end cursor the endpoint answers.
  The cursor may lead anywhere, back to the start too.
* `RPC`: codes are HTTP statuses, 200 to 999, which is what net/http lets through.
* `TLSSetup`: none beyond the types of the bounds.
* `Demo`: the lines of a file are of the kinds `DuhCommand` lists; uploads,
  downloads and the command's calls are different calls, and no upload brings the
  value that stands for "not found".

### What proving showed

* With the largest int64 as limit, `limit + 1` wraps around and every body is
  refused unread (`LargestLimitRefusesAll`; `reader.go` documents no such limit).
* `RetriedOnlyIfTransient` was stated for the statuses of the run only. For every
  status, a 454 page of an intermediary is disputed as well; `Disputed` and the run
  now have it.
* TLS set-up was modelled with at most one unreadable file. The theorems hold for
  any number of bad and unreadable files together, and the model now has them.
* `RoundTrip` holds with no relation between the payloads, the limit and the length
  field. Beyond the length field the header says the length modulo 2^32
  (`LengthsWrap`), and nothing can be said of the frames that follow: `FitUpTo` is
  exactly the condition.
* A line that is logged without its newline is the last one, and `Close` cut the
  `Write` it belongs to (the second case of `LinesInOrder`). The invariant has to say
  so, because the line behind it would begin one place further.

### Only model-checked

Liveness (`CallsReturn`, `RecvReturns`, `CancelReturns`, `CopyEnds`, `CancelEnds`,
`ReaderStops`, `NobodyStuck`, `WaitReturns`, `ProgramsEnd`): fairness and ENABLED are
beyond the prover. Every other property of a passing run is stated by a theorem.
The two properties of the runs that expect a violation are false, so there is
nothing to prove.

## 5. What is not modelled

* error texts, details and `CodeText`; `bytesToSI`;
* names, dates, versions and ciphers of certificates and configs;
* the pixels of `RenderPixel` and the numbers of `ListEvents`; flag parsing and
  printing of the commands;
* a connection that serves several requests: every call has one of its own;
* the test service, which repeats the demo's use of the library;
* generated protobuf code and the protobuf and net/http libraries, which are
  modelled by how this code uses them;
* several goroutines calling one `StreamWriter`, `StreamReader` or `Iterator`:
  the code documents all three as not safe for that.

## 6. Plan

Done: the streaming core and its abstract specifications; the frame codec;
retries, limits, pagination; one RPC call with its contexts; the log adaptor; TLS
set-up; the demo program, its callers and its shutdown. Proved: every safety
property of the passing runs, and both refinements.

What could follow:

1. `Stream`: `StreamServer` and `StreamReader` composed over one connection, from
   the two refinements.
2. An `RPC` call repeated by `Retry`.
