# Specification of http_cerver

TLA+ models of the server in `src/`, the TLC configurations that check them on
small instances, and TLAPS proofs of their main safety properties. Paths below
are relative to the repository (`src/http.c` is `src/src/http.c` in
`PROJECT.json`, which also says for every definition which lines it models).

## 1. The system

http_cerver serves static files over HTTP/1.0 and HTTP/1.1 from one process per
connection. `main` accepts a connection, forks, closes its copy of the socket
and goes on; the child reads requests into a bounded buffer, answers them one
after the other with blocking writes, and exits.

```
 client --connect--> accept queue --> main --fork--> child
                                       ^              | recv -> buffer -> parse
                                       |              | -> decision -> file
                                   SIGCHLD <-- exit --+ <- send / sendfile
```

### Components

| Component | Source | State | Operations | What makes it correct |
|---|---|---|---|---|
| server process | `main.c`, `server.c` | listening socket, document-root descriptor, the connection in hand, children, pending SIGCHLD | start-up, accept, receive timeout, fork, close, reap | every accepted socket is closed by the server and by exactly one child; no zombie is forgotten; slow children delay nobody; no child goes on listening once the server stops |
| connection handler | `fork_server.c` | loop position, result | receive, 431 for a full buffer, timeout, end of file | no byte is lost; a complete request never waits; the child ends when the client is silent |
| receive buffer | `http_connection.c` | bytes, capacity, `close_connection`, the response | init, feed, request length, consume, destroy | never exceeds its allocation; consuming a request keeps what follows |
| request decision | `http.c` | none | method, host, framing, persistence, errno to status | persists only behind a request without a body, and exactly if the request allows it |
| response transmission | `http_response.c`, `io.c` | header, body and file progress, file descriptor | prepare, send in three loops, destroy | bytes leave in order and once; success means complete; the file is closed |
| request parser | `http_parse.c` | none | end of headers, request line, target, headers | what is accepted is all of what was framed; nothing overruns; a path is decoded once; limits only refuse |
| file access | `file.c` | two descriptors, errno | `openat2` below the root, `fstat`, index file | returns the one descriptor it leaves open, a regular file the path named, or the right errno |
| configuration | `config.c` | limits | options with numbers | stores what was written, accepts what the rest of the server accepts |
| media types | `mime.c` | none | suffix table | depends on the last component of the path only |

`file_send` in `file.c`, `http_send_bad_request_message` in `http_response.c`
and the `close(server.fd)` after `main`'s endless loop are never reached.

### What is hard about it

* TCP cuts the stream where it likes and clients pipeline: a blank line is split
  in any of its four bytes, one `recv` holds one and a half requests, the last
  byte of a request fills the buffer exactly.
* `send` and `sendfile` write short, fail, raise SIGPIPE (which kills the child)
  or block for ever (there is a receive timeout, but no send timeout).
* A file changes between `fstat`, whose size is announced, and `sendfile`.
* Server and child share descriptors after `fork`; SIGCHLD does not queue.
* `Content-Length` and the numbers of the command line are read into machine
  words.
* A request is framed by length and then parsed as a C string.
* The document root changes between `openat2`, `fstat` and the second `openat2`
  for `index.html`; the open of a FIFO may wait for ever; `close` may change the
  errno that chooses the status.

The full list, with lines and the properties that cover each entry, is under
`hazards` in `PROJECT.json`.

## 2. Modules

| Module | Models |
|---|---|
| `HttpConnection` | the buffer and the search for the blank line, as operators on byte sequences |
| `Http` | the decision on a parsed request |
| `HttpResponse` | the response record and the three transmission phases |
| `ConnectionHandler` | one child with one client: composes the three modules above |
| `HttpService` | no code: what a connection promises its client |
| `ConnectionRefinement` | the mapping under which `ConnectionHandler` implements `HttpService` |
| `HttpParse` | the parser, as functions on texts |
| `Mime` | the media type of a path |
| `RequestReading` | no code: an independent reading of the bytes of a request, and the grammar of the requests that should be accepted |
| `RequestHandling` | one call of `http_prepare_response`: composes `Http`, `HttpParse` and `Mime`, and compares them with `RequestReading` |
| `EndToEnd` | `ConnectionHandler` with the parser of `HttpParse` |
| `FileOpen` | one call of `file_open_path` in a changing file system |
| `Config` | the defaults and the option loop |
| `ForkServer` | the server process, its children, descriptors and SIGCHLD |
| `MCConnectionHandler`, `MCEndToEnd`, `MCHttp` and `MCHttpParse` (both of `RequestHandling`), `MCFileOpen`, `MCConfig`, `MCForkServer` | instances for TLC |
| `HttpConnectionProofs`, `HttpProofs` | lemmas on the operators of the model |
| `ConnectionHandlerProofs`, `RequestHandlingProofs`, `EndToEndProofs`, `FileOpenProofs`, `ConfigProofs`, `ForkServerProofs` | theorems on the specifications |

`ConnectionHandler` leaves two parts of a request to parameters: the constant
`Parse` is any parser (`EndToEnd` assumes that it is `http_parse_request` of
`HttpParse` on the requests the framing can deliver), and `FileAnswers` are the results `file_open_path` may return, which
`FileOpen` produces from system calls.

Definitions whose comment begins with "Mutant" are faulty variants of the
definition that follows; they are used by no specification, only to see that
each property notices the corresponding mistake (`mutants` in `PROJECT.json`).

### HttpConnection

A buffer is the sequence of its `buffer_used` bytes; `buffer_capacity` is an
argument. `http_find_header_end` returns the offset just after the first
CR LF CR LF, 0 for `NULL`. `http_connection_consume` keeps the early return of
the code for a length beyond the buffer.

### Http

A request is what the parser returned plus method, version and the list of
headers. Header values are sequences of tokens, so the digit loop of
`http_validate_request_framing` is modelled digit by digit, on an accumulator of
word size `ULLONG_MAX`. `http_prepare_response` follows the order of the checks
in the code; its result is a *decision*: status, whether the connection closes,
what the Connection and Content-Length headers say, whether a body follows and
whether a file is open.

### ConnectionHandler

`pc` is where the child is:

| `pc` | code |
|---|---|
| `init` | before `http_connection_init` |
| `recv` | top of the loop of `fork_server_handle_connection` |
| `process` | top of the loop of `http_process_connection` |
| `send` | in `http_response_send_blocking` |
| `err` | in `http_send_error`, for the 431 of a full buffer |
| `done` | out of the loop, before `http_connection_destroy` |
| `exited` | the process is gone |

One action is one system call with what follows it up to the next one, or one
outcome of a local computation: `Receive(n)` is a `recv` of `n` bytes and the
feed; `Prepare(file)` is `http_prepare_response` for one answer of
`file_open_path`; `SendHeaders(n)`, `SendBody(n)` and `SendFile(n)` are one
`send` or `sendfile` that accepted `n` bytes; `FinishRequest` is
`http_response_destroy`, `http_connection_consume` and the test of
`close_connection`. EINTR is a retry with nothing changed, hence a stuttering
step. `connection.response` is not initialised by `http_connection_init`;
nothing reads it before `http_prepare_response` initialises it, and the model
starts it as if it were.

The branch of `Receive` in which `http_connection_feed` refuses the bytes is in
the model because it is in the code; it cannot be taken (lemma `FeedAccepts`),
because `receive_capacity` is bounded by the free space.

Three history variables record what an observer of the connection sees: `taken`
(the bytes of requests consumed), `announced` (for each response its request and
its decision) and `wire` (every byte handed to the socket, as response number
and position).

Environment: the client may close at any time (`PeerCloses`); once it has, a
write may be answered by an error, by SIGPIPE (`KilledBySIGPIPE`), or still be
accepted. Another process may change the size of the served file
(`FileResized`). `malloc` may fail (`ConnectionInit`, `PrepareFails`).

Nothing is assumed of `Parse` in the proofs of `ConnectionHandlerProofs`.

### HttpService

The abstract service has the client's stream, the replies begun, the bytes sent
and an outcome, and five actions: answer the next request, reject one that does
not fit, send some bytes of the last reply, end, and the client closing. A reply
may begin only when the one before it is whole and did not say close; success
may be reported only behind such a reply or when the client closed and left no
request unanswered. The mapping in `ConnectionRefinement` hides the buffer: what
is left of the stream is the buffer (less the request being answered) and what
has not been received.

### HttpParse, Mime, RequestReading, RequestHandling

Text is a sequence of units: a byte with a meaning (`SP`, `:`, `%`, `NUL`, CR,
LF, a hex digit), `x` for the others, or a known word such as `Host`, which
counts as one unit of length. Positions are those of the C code, 0 standing for
`NULL`; every search except the framing stops at the first NUL, because
`http_prepare_response` hands the parser a C string. The order in which the code
finds its faults decides between 400 and 431 and is kept. The loops over headers
and over escapes are recursive functions of the position; `ParseHeader` is one
iteration of the first.

`RequestReading` cuts the bytes at every CR LF, NUL or not, and asks whether
anybody who forgives blanks around field names could find a body announced. It
also states, line by line and without the parser's order of searches, which
requests should be accepted: `WellFormed` is a request line of a token, a target
and one of the two versions, then field lines, then the blank line, each part
with the room the limits give it; `IsPlain` adds GET or HEAD, one Host and no
header about a body. `AsksToClose` reads off the first line and the first
Connection line whether the client wants the connection to end.

Units that are not listed as controls or separators are made of bytes
`http_is_tchar` accepts; the other separators and the bytes above 127 have no
unit.

`RequestHandling` has one action, `Prepare`: the text of a framed request is
parsed and decided about; the check of the limits before it and the failure of
`malloc` in it are actions of `ConnectionHandler`. It carries all properties that relate the text, what
was understood of it and the decision; `MCHttp` and `MCHttpParse` give it texts.

### FileOpen

`pc` names the next system call. `openat2` is two steps: the lookup, which binds
a name to an inode, and the open of that inode, which for a FIFO waits for a
writer. Between any two steps other processes may bind the path or an
`index.html` to another object or to an error. A descriptor is the inode it
refers to. `FailWith` lets the `close` of an error path set errno to EIO, so that
an errno that was not saved would show. What RESOLVE_BENEATH and
RESOLVE_NO_SYMLINKS refuse is the errno with which a path does not resolve: that
the kernel keeps the lookup below the root is its promise, not modelled.

### Config

An argument is an option or the characters of a number. `Strtol` and `Strtoull`
have the widths of the machine, saturation and the wrap of a minus sign; blanks
in front are skipped. A port above `MAX_PORT` is stored before it is refused, as
in the code.

### ForkServer

`pc` follows `main`; `in_handler` says that `reap_children` has interrupted it
(main does not move meanwhile, as in a single-threaded process). Descriptors are
sets per process, a connection's socket being named for its client. `sigchld`
is one bit: signals do not queue. A child is `forked`, `serving`, `closed`,
`zombie`, `reaped`; `serving` stands for `fork_server_handle_connection`, which
may return, be killed by SIGPIPE, or never return.

`accept` that fails without removing a connection from the queue is a stuttering
step; one that removes it (an aborted connection) is `AcceptAborted`.

## 3. Runs

| Run | Checks | States |
|---|---|---|
| `connection` | `MCConnectionHandler` | about 100 000 |
| `end_to_end` | `MCEndToEnd` | about 50 000 |
| `decision` | `MCHttp` | about 25 000 |
| `head_errors` | `MCHttp`, one property, violated | - |
| `parse` | `MCHttpParse` | about 240 000 |
| `trailing_ows` | `MCHttpParse`, one property, violated | - |
| `file_open` | `MCFileOpen` | about 119 000 |
| `config` | `MCConfig` | about 76 000 |
| `fork_server` | `MCForkServer` | about 3 000 |

### connection

Streams are up to three requests drawn from: GET that keeps the connection, HEAD,
GET with `Connection: close`, a malformed request, a request with a stray CR
before its blank line that fills the small buffer to the last byte, one longer
than the small buffer, and one cut off inside its blank line. Bounds: buffers of
7 bytes (a request and part of the next) and 10 bytes (two requests exactly); a
`recv` of at most 6 bytes, so that both arms of the minimum in
`receive_capacity` occur; headers of 2 bytes and bodies of 1, and files of 0 and
2 bytes, so that every transmission phase can be cut short and a file can be
truncated before and during `sendfile`; a third configuration exceeds the
compile-time limit on headers. Sizes matter only through the comparisons the
code makes, and both outcomes of each are reached.

* `StreamConserved`: consumed bytes, buffer and unread bytes are always the
  client's stream, and the buffer fits its allocation.
* `RepliesFollowRequests`: the k-th response answers the k-th request of the
  stream, framed independently of arrival.
* `NoRequestStranded`: no wait in `recv` with a complete request in the buffer.
* `RejectedOnlyIfOversize`: a 431 for a full buffer only if the request does not
  fit.
* `WireInOrder`: the bytes sent are the responses in sequence, each byte once.
* `OnlyWholeResponsesSucceed`: another request, or success, only after complete
  responses.
* `ConnectionHeaderHonoured`: nothing follows "close"; "keep-alive" is kept.
* `NoDescriptorLeak`: a file is open during its response, and none while the
  child receives or looks at the next request; after a failed send it may stay
  open until the child exits.
* `ImplementsService`: the child implements `HttpService`.
* `EveryStepAdvances`: no step of the child is in place. In this order: it reads
  bytes; or a request leaves the buffer; or the child is closer to its end; or it
  stays and hands over bytes the response still lacks. What remains for
  `ExitsUnlessBlocked` is that steps are taken.
* `ExitsUnlessBlocked`: the child exits, unless it is for ever in a send or in
  the open of a file.

Fairness: weak fairness of the receive step and of the local steps.
`server_accept` sets SO_RCVTIMEO on every connection, and `config_parse_args`
accepts only positive timeouts, so `recv` always returns. No fairness for
sends: there is no SO_SNDTIMEO, and a client that stops reading blocks them; nor
for `http_prepare_response` of a request that opens a file, because the open of
a FIFO waits for a writer. A request that is refused opens no file, and its
preparation is a fair step.

A child that has exited does nothing more, so deadlock is not checked here; nor
is it in the other runs, where the request is decided once, and where a server
that failed to start stops.

### end_to_end

The same child with the parser of `HttpParse`. The streams are a request with
one of ten extra headers (a Content-Length of 0, of 9, with a blank before the
colon, one that overflows the word to 0, a Transfer-Encoding, one hidden behind a
NUL, `Connection: close` between blanks, two Connection lines in either order,
none), alone or behind a plain request, followed by a plain request; the same
with a request in HTTP/1.0; a path with an escaped NUL; and a plain request
followed by field lines that never end and fill the larger buffer exactly. One
configuration has a
buffer that a plain request fills to the last byte, one room for a single header.

* `BodyNeverAnswered`: a reply to a request in which anybody may see a body is
  the last one, and says so.
* `PersistsAsAsked`: behind a request whose bytes ask to close nothing is
  answered, and the reply says so; a file served for any other keeps the
  connection open. As in `http_get_header`, the first Connection line counts: a
  second one that says close is not looked at. The properties of `connection`
  say that the announced header is acted on; this one, that it is the right one.
* `PlainRequestServed`: if the k-th request of the stream is well formed, plain
  and no longer than the buffer, or is an unfinished rest shorter than the
  buffer, the k-th response is no 400, 405 or 431, whatever of the next requests
  arrived with it.

Headers are one byte long here and a `recv` takes up to a whole request: what
short writes do is the business of `connection`.

### decision

All lists of up to three of the headers the decision looks at, and all
Content-Length values of up to three tokens from `0 1 3 6 SP -`, for
`ULLONG_MAX` = 15: "16" is the first number to overflow and 16 mod 16 is 0.
`KeptOpenOnlyWithoutBody` compares with a definition of "no body" that knows no
word size, and `BodylessRequestServed` is the converse.

### head_errors

The comment "HEAD responses contain headers only." (`http_response.c:498`) does
not hold for errors: `http_response_prepare_error` always sets `send_body`, so a
HEAD for a missing file gets a 404 with an HTML body. The run shows such a
request. The connection closes after every error, so the extra bytes are not
taken for the next response. `test_head_request_body_rejected`
(`tests/test_http.py:750`) sides with the code: it asserts the text of the error
in the body of the answer to a HEAD.

### parse

Four families of texts, each with tight limits (2 headers, names below 3, values
below 4) and with ample ones: all request lines of up to 5 units over those that
delimit its parts; all targets of up to 7 units over `? % 2 5 0` behind a slash
(`%252525` can be decoded three times, `%25` and `%2` can be cut off by the end
or by a query) and all paths of up to 5 units with dots and known suffixes; all
header blocks of up to 5 units over `Content-Length : 0 SP NUL CR LF`; all lists
of up to 3 of eleven lines with framing headers in several spellings, long names
and values, a bare LF and a NUL. Only texts whose first blank line is their end
are parsed, because the framing delivers no others. The array sizes are small
enough for every length test to go both ways.

* `AcceptedTextAccountedFor`: each line up to the framing's blank line became one
  header; only blanks around values are dropped.
* `WellFormedAccepted`: a request that the grammar of `RequestReading` allows and
  the limits have room for is accepted.
* `NoBodyOverlooked`: the connection is kept only behind a text in which
  `RequestReading` finds no body.
* `EverythingFits`: what is stored fits, with its NUL.
* `LimitsOnlyRefuse`: a limit never changes what is understood, and only limits
  cause a 431.
* `PathDecodedOnce`: the path is the request's path, decoded once, without
  control characters.
* `TypeOfLastComponent`: the media type is that of the last component.

### trailing_ows

The comment "Header parsing removes leading OWS but preserves trailing OWS."
(`http.c:122`) does not hold: `http_parse_headers` removes both (`http_parse.c:327`).
The loop the comment introduces, which strips blanks from the end of a
Content-Length, never finds any.

### file_open

Two directories (one the root), two regular files, a FIFO, and the errors ENOENT
and ELOOP (one reported as it is, one as EACCES); the requests `/` and `//a`. The
path and both `index.html` may change between any two system calls, any number
of times.

* `OneRegularDescriptor`: success leaves exactly the returned descriptor open, a
  regular file of the returned size; failure leaves none.
* `ServedWhatWasNamed`: the file was what the path named at some moment of the
  call, or the `index.html` of a directory it named. (Not: at one moment. The
  directory may have been renamed before its `index.html` was looked up.)
* `ErrnoTellsTheCause`: ENOENT and EACCES reach the caller for the right causes.
* `ReturnsUnlessFifo`: the call returns or waits for ever for a FIFO's writer.

Fairness: weak fairness of the call's own steps; all but the open of a FIFO wait
for nobody. Nothing is assumed of the other processes.

### config

INT_MAX, LONG_MAX and ULLONG_MAX are 15, 31 and 63, so that four characters are
enough to exceed each of them and for a negative number to wrap into the range of
a size. Every option meets every such number; command lines of up to five
arguments mix four options and three values.

* `ConfigSound`: numbers fit their `int`, sizes can be allocated, an accepted
  port is a port.
* `AcceptedAsWritten`: each field is what its last option says, or its default;
  only a size may also be a negative number that wraps to it.
* `RefusedForCause`: no acceptable value of a known option is refused, and no
  value of `--root`.
* `ServesUnlessRaised`: `http_config_valid` accepts exactly the configurations
  that raise none of the three limits above its default. The others start a
  server that refuses every connection.

### fork_server

Three clients, an accept queue of two, room for two processes. Three is the
least that lets two deaths share a SIGCHLD while a third connection is in hand.
Safety: `NoForgottenZombie`, `ChildOwnsOnlyItsClient`, `ParentKeepsNoClient`,
and `OpenWhileAttended`: a connection is open in some process exactly while main
has it in hand or its child serves it, the listening socket exactly while main
needs it or a new child has yet to close its copy.
Liveness, under weak fairness of main, of the signal handler and of the steps of
a child that wait for nobody: `ZombieReaped`, `NotBlockedByChildren`,
`SocketClosedAfterChild`, `ListenerReleased`. Nothing is assumed of serving, which
may last for ever, nor of clients.

`ListenerReleased` says that the listening socket goes, not that the port can be
bound again: `server_start` does not set SO_REUSEADDR, so connections that are
still open, or in TIME_WAIT, keep a restarted server from binding.

## 4. Proofs

All theorems hold for every value of the constants allowed by the named
assumptions: positive lengths and array sizes (`HeadersAssumption`,
`HttpAssumption`, `SizesAssumption`, which also gives the version's array room
for a version and its NUL), a word that holds a digit, byte sequences
as streams, positive buffer sizes and natural file sizes (`HandlerAssumption`),
texts that end at their first blank line (`RequestAssumption`, what the framing
delivers), a finite set of clients (`ForkServerAssumption`), inodes that are not
errors and a root that is a directory (`FileOpenAssumption`), integer widths in
their usual order and defaults within them (`ConfigAssumption`), and, in
`EndToEnd` alone, that the parser is that of `HttpParse` (`ParserAssumption`).

**HttpConnectionProofs.** `ConsumeKeepsTheRest`: a request and what is left
after consuming it make up the buffer. Rests on `HeaderEnd` (the end of the
headers lies within the buffer), `CutAndJoin` and `Pieces` on sequences, and
`FirstPosition`, the least-element argument for the first blank line.

The module also holds the two general facts behind every proof about a loop.
The library's induction theorems take an operator as parameter, which the
provers cannot instantiate; here the property is a *set* instead.
`MeasureInduction`: if an element of `S` is in `P` whenever all elements of
smaller measure are, then `S` is contained in `P`. `RecursionExists`: the
equations of a function defined by recursion on a bounded measure have a
solution, so that the `CHOOSE` behind a recursive function of the model finds
one and the function satisfies its own definition. The measures are positions
in the text, so the recursions are those of the loops in the code.

**ConnectionHandlerProofs.** The inductive invariant `IInv` is the conjunction
of `TypeOK`, `NoDescriptorLeak`, `StreamConserved`, `NoRequestStranded`,
`ConnectionHeaderHonoured`, `RejectedOnlyIfOversize` and an auxiliary `Promise`:
`close_connection` is false whenever the child is about to receive or process,
and while it sends, the last announced header says keep-alive exactly if
`close_connection` is false. Without `Promise` the honoured-header property is
not inductive: the decision is announced when the response is prepared and acted
on after it is sent. `RejectedOnlyIfOversize` needs `NoRequestStranded` (a full
buffer in `recv` holds no blank line) and `StreamConserved` (the buffer is the
head of the unanswered stream). The actions that only jump and those that only
transmit are treated once each (`JumpFrame`, `TransmitFrame`), one lemma per
conjunct covers the rest, and `Invariance` puts them together.

On top of it, four further arguments:

* `WireInOrder` and `OnlyWholeResponsesSucceed` need `Progress`: while a
  response is sent, the counters of the response record (or `total_sent`, for
  the 431) add up to the position of the last byte on the wire, and `Underway`,
  that a phase begins only when the one before it is complete and that the
  record has the lengths the decision announced. `SliceInPlace` says once that a
  slice continues the wire, `TransmitAdvances` that each of the four sending
  actions appends one.
* `RepliesFollowRequests` needs `Turns`: the bytes consumed end where the last
  finished request ends in the stream, framed without regard to arrival.
  `BufferHoldsTheNext` is its core: what is found at the head of the buffer is
  what would be found in the whole rest of the stream. The reference
  `RequestEnd` is a recursive function, unfolded by `RequestEndUnfolded`.
* `HandlerImplementsService`: `Spec => ImplementsService`. Each action is shown
  to be an action of `HttpService` under the mapping or to leave the mapped
  variables alone. It uses all of the above: that the service is ready for a
  request where the child processes one (`ReadyForRequests`), that the window
  the service looks at starts with the buffer (`WindowIsBuffer`), and that the
  wire ends where the service says it does (`SentIsEnd`). `HttpService` states
  no fairness, so nothing is lost there.
* `NoStepInPlace`: `Spec => EveryStepAdvances`. It needs `RequestHeld`, that the
  request being answered is still complete in the buffer when its response ends,
  so that `FinishRequest` really consumes something (`FinishConsumes`), and
  `Progress`, so that a write never takes more than the response lacks
  (`TransmitShortens`). The other steps follow the order `Stage`
  (`JumpAdvances`).

**HttpProofs, RequestHandlingProofs.** `IInv` of `RequestHandling` is simply
that the request and the decision are those of the text; the work is in the
lemmas of `HttpProofs`, on operators without state:

* the overflow test of the digit loop is exact, so the accumulator never wraps
  to zero (`AddDigitZero`) and framing objects to a request exactly if it has a
  body (`FramingFindsBodies`);
* the loop over the headers runs through the lines of the text as
  `RequestReading` cuts them (`LoopRuns`, `LinesRun`). The step that matters is
  the end: the C string may stop at a NUL, but then the loop finds no CR LF and
  refuses, so acceptance means that the blank line it stopped at is the one of
  the framing (`BlankLineIsLast`, `LoopAccounts`);
* hence an accepted text is its method, target, version and headers with
  nothing else (`AcceptedIsUnderstood`), and a line that any reader may take for
  a framing header was stored under exactly that name, because a name with a
  blank is refused (`NoBodyForAnybody`);
* decoding is a recursive function whose result is cut into pieces as `Decodes`
  demands (`DecodingRuns`, `DecodedOnce`); limits only replace results by
  HEADERS_TOO_LARGE (`LoopLimits`); the extension does not look past the last
  slash (`TypeIgnoresDirectories`).

* the converse, that whatever the grammar allows is accepted
  (`WellFormedIsParsed`): the lines put back together are the text
  (`LinesHoldTheText`); a line of the grammar has no NUL, so no search stops
  early (`NoNulHidesNothing`) and each finds the delimiter the grammar has in
  mind (`RequestLineIsParsed`, `TargetIsParsed`, `PathIsDecoded`,
  `FieldLineIsStored`); and the loop, which may stop only at a refusal or at the
  blank line, reaches the latter (`LoopReachesBlankLine`).

The ten theorems of `RequestHandlingProofs` carry these over to every property
of the runs `decision` and `parse`.

**EndToEndProofs.** `BodyIsNeverAnswered` puts the two halves together. The
inductive fact `AllDecidedFrom` says that every response was decided from what
`http_parse_request` makes of a framed request of the stream, or is the 431 of a
full buffer; `KeptOpenBehindNoBody` of `HttpProofs` turns that into "keeps the
connection only if nobody sees a body", and `ConnectionHeaderHonoured` into
"otherwise it is the last".

`ConnectionPersistsAsAsked` uses the same two. `ClosesAsAsked` of `HttpProofs`
says that for an accepted text `http_close_requested` and `AsksToClose` agree:
the version is the last word of the first line (`VersionIsLastWord`);
`http_get_header` returns the first header of a name (`FirstHeader`), which comes
from the first line of that name because the loop stores one header per line in
order; and its value is "close" exactly if the line says so between blanks
(`WordIsWritten`).

`PlainIsServed` is the other direction. `InTurnOrRejected` strengthens `Turns`:
the k-th response is decided from the k-th request of the stream, or it is the
431 of a full buffer and the stream from there on has no blank line within the
buffer's size although that much of it is left (`NextInTurnOrRejected`). A
request that fits, or an unfinished rest shorter than the buffer, contradicts the
second case (`RejectedDoesNotConform`). In the first, `WellFormedIsParsed` says
that the parser accepts it and `PlainOpensFile` that the decision goes on to the
file (`ConformingIsDecidedByFile`).

**ForkServerProofs.** `IInv` adds `StartupInv` to the safety properties: nothing
is open before `server_init`, there are no children before the loop, and no
zombies once the server is gone. `OpenExactlyWhileAttended` rests on a second
invariant, `FdsFollowLives`, which says of each process by itself which
descriptors it has open in each of its states; what is open anywhere follows
from it (`FdsAreAttended`).

**FileOpenProofs.** `IInv` adds to the properties `Stage`, which descriptors are
open before each system call, and `Found`, that what has been looked up so far
was found under the name of the request. `Found` is what survives a rename: the
histories `named` and `indexed` only grow, so what an open descriptor refers to
stays explained whatever the name means now. The two ways to return are treated
once (`FailKeeps`, `SucceedKeeps`), so is a successful lookup (`ResolvedKeeps`),
and one lemma per action applies them.

**ConfigProofs.** `IInv` says of the port that it is in range as long as nothing
has been refused: an option may store a port that is too large, but only in the
step that refuses it. `ConfigSound` needs nothing of the conversions but the
range test behind them (`ParsedInRange`), and `ServesUnlessRaised` follows from
the range of the sizes. The other two need what the conversions compute:
`MagnitudeIsNumber` says that the accumulated number is non-negative whatever
the length of the text, `ParsedAsWritten` that the value stored is the one
written, or wraps to it. The invariant `Reading` is that of the option loop: it
has read whole pairs, and each field is what the last option so far says. It
drops the latter at a refusal, since a refused port is stored.

**Only proved.** The type invariants of `ForkServer` and `FileOpen` are part of
their `IInv`; the runs leave them out.

**Only model-checked.** The liveness properties `ExitsUnlessBlocked`,
`ReturnsUnlessFifo`, `ZombieReaped`, `NotBlockedByChildren`,
`SocketClosedAfterChild` and `ListenerReleased`: fairness and ENABLED are out of
the prover's reach. For the first, `EveryStepAdvances` is the part that is proved:
the measure is well-founded, so a child that never exits has stopped taking
steps of its own. The two violated properties are shown by their counterexamples. Every
invariant, action property and refinement that a passing run checks is also a
theorem.

## 5. Not modelled

* The text of headers, bodies and logs; bytes are told apart only as far as the
  parser does.
* What TCP does after `close`, and whether a restarted server can bind its port.
* How the kernel resolves a path: RESOLVE_BENEATH and RESOLVE_NO_SYMLINKS are
  taken at their word.
* `file_send`, `http_send_bad_request_message` and the code behind `main`'s
  endless loop, which are never reached.
* The media type of a directory: `http.c:365` takes it from the path of the
  request, so an `index.html` served for `/` goes out as
  `application/octet-stream`. Nothing in the repository says otherwise.
* Tests and benchmarks, which are clients of the server.

## 6. Plan

No safety property of the runs is left to prove. What would join the parts more
closely:

1. Which file is served, as a theorem across `RequestHandling` and `FileOpen`:
   the answers `ConnectionHandler` takes for given are the ones `FileOpen`
   returns.
2. A common statement for `ConnectionHandler` and `ForkServer`: the serving of a
   child is the specification of the handler.
