# pwdmanlib: TLA+ models, model checking and proofs

pwdmanlib is a small password-manager library in C: a TLS server that speaks an
HTTP-like protocol ("GuyFawkes"), a command line client for it, and the helpers
both are built from (a dictionary, a packed information byte, send and receive
loops over OpenSSL, hostname validation, a PostgreSQL layer). This directory
holds TLA+ models of that code, the TLC configurations that check them on small
instances, and TLAPS proofs of what holds for every value of the constants.

Paths below are relative to the repository, `src/server/server.h` and so on.

## 1. Inventory

| Component | Code | State it keeps | Operations | Interacts with |
|---|---|---|---|---|
| Dictionary | `src/util/oop.h` (struct dict) | an array `entries` of fixed size, `counter` | `initDict`, `setTuple`, `getTuple`, `getIndex`, `removeTuple`, `destroyDict`, `findKey` | request parser (headers and query), tests |
| Information byte | `src/server/fawkes_proto.h` | one byte: verdict in bits 0-1, protocol in 2-3, method in 4-7 | `encodeProto`, `encodeMethod`, `encodeReqmts` and the decoders | written by `parseRequest`, read by `routeClient` |
| TLS input and output | `src/crypto/ssl_funcs.h` (`sendall`, `readall`) | `total`, `n`, the caller's buffer and `*len` | one loop each | server (`respond`, `routeClient`) and client |
| Server process | `src/server/server.c`, `src/server/server.h` | `listen_sock`, `worker_sock`, file descriptors, the request | start-up over the address list, accept loop, handshake, `respond`, `parseRequest`, `routeClient`, signal handlers | kernel, OpenSSL, clients, files |
| Command line client | `src/client/client_v2.c`, `src/client/client.h` | socket, message, response buffer | `openConnection`, handshake and certificate check, `sendall`, `readall` | server |
| TLS set-up | `src/crypto/ssl_funcs.h` | contexts and sessions | `configServerSSL`, `configClientSSL`, `shutdownSSL`, `destroySSL` | server and client |
| Hostname validation | `src/validation/openssl_validation.h` | none | SAN entries, then the common name | client |
| Request and string parsing | `src/server/server.h`, `src/util/stringops.h` | `Request`, tokens | `parseRequest`, `parseHeader`, `parseQueryStr`, `strsplit`, `readFile` | dictionary, information byte |
| Database layer | `src/db/database.h` | the table Users, a connection per call | `createTable`, `authenticateUser`, `getVersion`, `getTables`, `getTableRows` | PostgreSQL, shared with other processes |
| Vector | `src/util/vector.c` | `data`, `size`, `capacity` | `int_vector_init`, `append`, `get`, `set`, `resize`, `free` | none (only `test/vector-test.c` uses it) |
| Response templates | `src/server/response.h` | constant text | `createReponse` | server |
| Network, arithmetic, OS helpers; stubs of `oop.h`; old client; C++ parts; install scripts | `src/util/*`, `src/test/*`, `src/client/*`, ... | none that lasts | lookups, printing, demonstrations | none |

What is hard to test in this code, and what makes each part correct:

* **Dictionary.** The free-slot scan in `setTuple` has no bound of its own: it
  ends because `counter < size` implies a free slot, which is only true while
  `counter` counts the used slots exactly, through every order of insertions
  and removals. `findKey` scans the slots below `counter`, which is right only
  while the used slots are compact. Correct means: a bounded map.
* **Information byte.** Three encoders share a byte; each masks its own field
  and must not touch the others, and the verdict depends on the *order* in which
  `parseRequest` calls them. Correct means: three independent registers and a
  verdict equal to what the two decoders say.
* **`sendall`/`readall`.** Partial writes, reads of every size, an empty result,
  an error after some bytes. Correct means: the number reported is the number
  the connection took; a 0 means all of it, as long as there is something to send
  and no more than `readall`'s limit; the loop ends when the peer closes.
* **Server.** One client at a time: every client's behaviour (closing early,
  being interrupted, never closing) is between two others' requests. An early
  `exit` or an unhandled signal in a helper ends the server for everybody.
  Descriptors must not leak over start-up retries, clients and files. Correct means:
  the answer fits the request, nobody is closed without an answer, the queue
  drains.
* **Server and client together.** Each reads until the other closes.
* **Request parser.** `strsplit` stores NULL for an empty last piece but counts
  it; the header loop's limit is unsigned and its two `i--` step back to the same
  token; the query strings are flattened and paired again, so that a parameter
  without a value shifts the pairs behind it. Correct means: a message with
  headers, an empty line and a body of one line is stored as it is written, what a
  malformed parameter spoils is behind it, and the loops end on a well-formed one.
* **Client's message.** The client counts its message before it writes it and sends
  as many bytes as it counted, which may be fewer than it wrote. Correct means: the
  server understands what the user asked for, or at least nothing else.
* **Hostname validation.** The first name that matches or is malformed decides,
  so the order of the names matters, and the common name may be used only when
  there is no SAN. Correct means: MatchFound and MatchNotFound can be relied on.
* **Database.** No transactions: the statements of several processes interleave
  in one table, each may be lost, and each call opens connections it has to
  finish on every way out. Correct means: nobody is accepted who is not in the
  table at that moment, concurrent set-ups leave a whole table, connections are
  accounted for. The name is pasted into the SQL, so for a name with a quote none of
  this can be said.
* **Vector.** It grows by doubling, fills with zeros, compares an `int` with a
  `size_t` and tests no allocation. Correct means: a sequence, until the process
  ends.

## 2. Modules

| Module | Models | Kind |
|---|---|---|
| `Dict` | the dictionary: `entries` as a function from slots to key/value or free, `counter`, the return value of the last call; `pristine` remembers whether a tuple was removed since `initDict` | component |
| `BoundedMap` | a map of at most `Size` keys, whose promise ends with the first removal | abstract specification |
| `FawkesProto` | the encoders and decoders as operators on 0..255, used by `Server`; its properties compare them with three separate registers and with the code's masks, for every byte | pure |
| `TlsIO` | `sendall` and `readall`, one action per SSL call and one per return | component |
| `Network` | listening queue, the TCP/TLS connection of each client (external: kernel, OpenSSL) | shared state |
| `Server` | `main`, `start_server`, `configServerSSL`, `respond`, `routeClient`, signals, descriptors | component |
| `Client` | `client_v2`'s `main` and `openConnection`, `configClientSSL` | component |
| `FifoService` | a service that lets clients in, gives each at most one verdict and lets them go, in the order of their arrival | abstract specification |
| `PwdManSystem` | server, clients and operator composed; fairness; system properties | composition |
| `RequestParser` | `parseRequest`'s query, header and body loops, `parseQueryStr`, `parseHeader`, `strsplit`; the message `client_v2` builds from its arguments (`Whole`), the size it computes (`Spare`) and what of it arrives (`ClientMessage`) | component |
| `HostnameValidation` | `validate_hostname` and the two functions it calls, one action per name | component |
| `Database` | the calls of `database.h` in any number of processes, one action per connection attempt and statement; the PostgreSQL server (external) as the table and a limit on connections | component |
| `Vector` | the integer vector: its fields, and `int_vector_set` one append at a time | component |
| `GrowingSequence` | a sequence one can append to, read, and set with zero fill | abstract specification |
| `DictProofs`, `FawkesProofs`, `TlsIOProofs`, `SystemProofs`, `RequestParserProofs`, `HostnameProofs`, `DatabaseProofs`, `VectorProofs` | lemmas and theorems | proofs |
| `MC*` | constant values for TLC | model checking |

`PROJECT.json` maps each definition to the lines it translates. Mutants (an
operator named after the definition it corrupts, stated just before it) stand
for plausible bugs; each checked property is violated by at least one.

### How state and actions correspond

* `Dict`: `entries[i]` is `self->entries[i]`, a NULL pointer is the free slot;
  every method is one action because nothing runs concurrently with it. A
  `malloc` failure exits the program and is not modelled. No caller passes a
  NULL key.
  Removing leaves a hole below which `findKey` still looks and above which it
  may not, so only a dictionary from which nothing was removed is promised to be
  a map: that is how `parseRequest` uses it. `pristine` is a history variable; no
  action reads it.
* `FawkesProto` is written with `%` and `\div` on a byte; `PackedByMasks` compares
  what its encoders write with the code's masks and shifts, bit by bit, on all
  256 bytes.
* `TlsIO`: the connection takes or delivers between 1 and a window of bytes per
  call, or fails. `Window` stands for what the kernel and the TLS record size
  allow.
* `Server`: `pc` names where `main` stands; descriptors are numbered from 3 and
  allocated lowest first, as POSIX does. Every `exit`, `_exit` and fatal signal
  is the operator `Exit(reason)`. `routeClient`'s status lines are written with
  `write` on the descriptor, so past the TLS layer: they are `raw` in `out`,
  while the 400 of `respond` goes through TLS.
* `Client`: `client_v2` has no certificate and never sends close_notify before
  reading. The constants `WithCert` and `Polite` are *other* peers, which do. `configServerSSL`
  loads no trust anchors of its own (its `cafile` is not used), so a certificate is
  accepted only where the system's OpenSSL configuration supplies them.
  `Impatient` ones are interrupted by their user. A client that refuses the name in
  the certificate sends close_notify (`ShutdownSSL`) and waits in its second
  `SSL_shutdown` until the server has closed.
* `RequestParser`: a message is the sequence of its lines and of its query
  parameters, each of a kind the code tells apart. Its dictionaries are maps, which
  `RefinesMap` justifies. `pc = "split"` is `parseQueryStr`, parameter by parameter,
  and `toks` the array of strings it returns, a NULL behind them. `pc = "next"` is the `i++` of the header loop, so that
  the `i--` before it is visible. `header[1]` of a line without ": " is what
  `malloc` left there: NULL, an old string or an invalid address. `Server` takes a
  message's header lines by their kind (`Heads`): `ParseOk` returns from a `framed`
  one, for which `FramedEnds` is the reason, a `loose` one may also end the process
  (`ParseSegv`) or never return (`ParseLoops`, `pc = "loop"`), as `RequestParser`
  shows.
* The client's message: a command line has the length of its host and the number of
  digits of its data's length, because `*message_size` counts the formats (with
  their `%s` and `%d`) and ten digits, but not the host, the "?" or the "POST" that
  stands for an empty method. `Spare` is what that leaves over. If it is negative
  the last bytes are not sent: `Cuts` has every place the message may end, from
  inside the host to the last byte (the exact byte depends on lengths the model
  does not have). If it is positive the rest is behind a NUL and not looked at.
* `HostnameValidation`: certificates are the records OpenSSL's functions give
  access to; `Lower` is what `strcasecmp` makes of the letters.
* `Database`: `open[p]` counts the connections process `p` has at the server,
  `before[p]` and `first[p]` are there to state what a call leaves behind. A
  statement of `createTable` may be lost with its connection after or before it
  took effect (`StatementLost`). The uses of freed memory in `getVersion` and the
  NULL in `authenticateUser` end the process (`Crash`), the first one not always.
  `Quoted` are the user names with a quote: the statement made with one is not the
  one the code means, so it may fail, select any text, and leave one of `Tables`
  (`SelectOther`). A name without a quote is the value it stands for (`AsksForName`).
  The repository's only caller is `db_test.c`; the processes are several such
  programs on the one database named in the connection string.
* `Vector`: `malloc` and `realloc` may fail, and memory is `MaxCap` ints. A
  `realloc` to nothing frees the block and returns NULL, as glibc does. `call.base`
  is the size when `int_vector_set` began: for its user the fill and the store are
  one step. A store through NULL is `crashed`, one behind the block `overrun`.
  A vector is not used between `int_vector_free` and the next init.
* Paths, headers and bodies are data in `Server`: a request is its method string, protocol
  string and what `readFile` finds (`missing`, `error`, `empty`, `minus` for a text that
  begins with -1, `text`). `readFile` returns without `fclose` when reading fails, so
  an `error` leaves a descriptor open for good (`LeaveOpen`), and the handshake needs
  a free one to read the server's certificate (`SpareFd`).

## 3. Runs

Passing runs:

| Run | Checks | Shows |
|---|---|---|
| `dict_api` | `TypeOK`, `CounterCountsTuples`, `ScanFindsSlot`, `CompactUnique`, `RefusesOnlyWhenFull`, `RefinesMap` | under any calls, removals included, the counter is exact, the unbounded scan ends inside the table, and a call is refused only when the table is full of other keys; until the first removal the dictionary is a bounded map |
| `tlsio` | `TypeOK`, `SendallReportsSent`, `ReadallZeroIsWholeStream`, `ReadallReturns`, `SendallReturns` | what callers can conclude from the return values: of `sendall` whenever there is something to send, of `readall` up to its limit (section 5 has the rest); `readall` returns once the peer has closed, `sendall` even when some writes take nothing |
| `system_serve` | `TypeOK`, `PackedByMasks`, `OneListener`, `FilesOpenAreErrors`, `FirstLineIsVerdict`, `EveryEndHasACause`, `RefinesService`, `QueueDrains`, `ClientEnds` | two clients with certificates, one that closes its side and one that is interrupted, two addresses, requests of every method, protocol, file and header kind the code tells apart, signals at any point: a first-come first-served service, in which only a header on which the parser loops can keep anyone waiting for ever; when the server ends past its start-up, its operator or the client it serves is the cause, or the files left open for others; a 400 and another answer never reach one client that is there to get both. Of the information byte: for each of these requests and all 256 values the byte may hold before, the encoders write what the code's masks write, bit by bit, and the verdict agrees with the decoders |
| `parser` | `TypeOK`, `HeadersExact`, `QueryExact`, `BodyExact`, `CommandArrives`, `FramedEnds` | what `parseRequest` stores equals a reference definition (last value wins, the limit of the headers drops only new names), a parameter without a value spoils only what is behind it, and `parseRequest` returns from well-formed messages; what a user tells `client_v2` to send arrives, with the right `Content-Length`, as long as the host is at most 9 letters in a GET, 8 with data and 6 otherwise, and with a longer one the query string arrives and no header that was not sent; the run also contains cut-off messages, lines without ": ", second empty lines and parameters without value, on which the code may crash or loop |
| `hostname` | `TypeOK`, `MatchIsSound`, `NotFoundIsComplete`, `SanReleased`, `ValidateReturns` | every order of up to three names, matching, malformed, neither or not DNS; every common name |
| `database` | `TypeOK`, `CallsFinishConnections`, `AuthenticatesOnlyUsers`, `CompleteTable` | two processes, all calls without limit on their number, one of them with a quote in the name; `AuthenticatesOnlyUsers` is about the moment of the answer, while another process drops and fills the table |
| `vector` | `SizeFitsBlock`, `RefinesSequence` | any calls on a vector, with failing allocations and negative indices, until memory ends: it is a sequence, and only one made with capacity 0 can be written past its block |

Runs in which the code does not do what one of its comments or tests says
(`findings` in `PROJECT.json` quotes the lines):

| Run | Property | What TLC shows |
|---|---|---|
| `dict_removed` | `RemovedIsGone` | set a, set b, remove a, set b again: `findKey` looks only below `counter`, so b is stored twice, and removing it uncovers the old value |
| `system_stock` | `StopsOnlyOnSignal` | the server demands a client certificate, `client_v2` has none, and a failed `SSL_accept` exits the server |
| `system_wait` | `RequestIsServed` | the server's `readall` waits for the client to close and the client's `readall` for the server |
| `system_page` | `PageIsAnswered` | a GET of a page that is not there: `readFile` gives NULL, not "-1", `strtol` reads it, and the server ends instead of answering 404 |
| `database_auth` | `AuthenticateReturns` | a user without a row, for instance while `createTable` refills the table: `strcmp` is given NULL |

### Bounds and why they are enough

* Dictionary: table of 3 slots, more keys than slots, 2 values. A hole, a full
  table and a key behind a hole all need at most 3 slots; the proofs lift the
  bound.
* Information byte: all bytes, with the strings of the requests: every protocol the
  code knows, the methods `routeClient` tells apart, and one of each it does not
  know; the proofs are for any strings.
* TLS: lengths and limits of a few bytes, a window smaller than the message so
  that partial transfers and the limit both happen; the proofs lift the bound.
* Parser: up to 3 headers of 3 names with room for 2, all their orders; any 4
  lines of 4 kinds; up to 3 parameters of every kind with room for 3, and some
  lists of 4; hosts on both sides of every limit of the message size;
  every command line of up to 2 headers that repeat the client's own or do not,
  an empty one included (of such a command nothing is said about the body, which
  then follows the second empty line). The proofs lift all of these bounds.
* Hostname: up to 3 names, so that one that decides has names before and behind
  it; the proofs lift the bound.
* Database: 2 processes, 3 rows as in the code, 4 connections: `createTable` alone
  needs 3, so that the limit is met; a name with a quote that may leave no table or
  one with a row of its own. No bound on the number of calls. The proofs
  lift the bounds on processes, rows and connections.
* Vector: initial capacities 0 to 3 and memory for 6 ints, so that a vector
  doubles up to twice and then cannot; indices before, inside, at and far
  behind the end. `SizeMod` stands for 2^64: all that matters is that a negative
  index becomes more than memory holds (`VectorAssumption`). The proofs lift the bounds.
* System: 2 clients (one served, one queued), queue of 2, 2 addresses (one may
  fail before the other binds), descriptors 3 to 5 (listening socket, worker
  and one for a file, so that any leak is a shortage for the next client). A client connects once, so behaviours
  are finite up to the stutter of `AcceptFails`.

### Fairness

* `TlsIO`: weak fairness of `readall`'s successful read and end-of-stream steps:
  `SSL_read` on a blocking socket returns when there is data or the peer closed.
  Weak fairness of the writes that take something, of those that fail once the
  peer has stopped reading, and of the
  return: `SSL_write` may return 0 any number of times but not for ever. That is
  an assumption on OpenSSL; the code itself would call it again and again.
* `RequestParser`, `HostnameValidation`: weak fairness of the code's steps; it is
  one thread and waits for nothing.
* `PwdManSystem`: weak fairness of the server's own steps (the process is
  scheduled, system calls that can return do), of each client's own steps, and of
  the interrupt of an `Impatient` client. Connecting, failing to connect while
  the server is still there, and signals to the server are not fair, and neither is the end of a looping parser
  (`LoopEnds`). `QueueDrains` and `ClientEnds` need a client that eventually closes: that is what `Polite`
  and `Impatient` say, and `system_wait` shows what happens without it.

## 4. Proofs

Assumptions on constants, all evaluated by TLC in the passing runs: the table
size is a natural number (`SizeAssumption`), the free slot is not a tuple
(`NullAssumption`), lengths and limits of `TlsIO` are naturals
(`LengthAssumption`, `ReadAssumption`), the number of addresses is a natural
(`AddrAssumption`), so is the highest descriptor (`FdAssumption`), the backlog
is positive (`QueueAssumption`), `NoClient` is no client (`NoClientAssumption`) and
`readFile` has five outcomes (`RequestAssumption`); certificates are records of
names (`TextsAssumption`, `CertsAssumption`); the rows of `createTable` have
different users and a table is not `NoTable` (`DatabaseAssumption`); a message is
a sequence of lines and one of parameters, a command line one of header lines, a
data line whose length has at most ten digits and a host
(`MessagesAssumption`, `CommandsAssumption`), there is room for a
header (`SizesAssumption`: the code's limits are constants); indices are ints, a
negative one is more than memory once it is a `size_t` (`VectorAssumption`), and no
block is NULL (`NullAssumption` of `Vector`).

* **`DictProofs`.** The inductive invariant `IInv` is the type invariant and
  "`counter` is the cardinality of the set of used slots". `counter <= Size`
  alone is not inductive: an insertion needs a free slot to exist, which needs
  the exact count. From it: `DictTypeCorrect`, `CounterCorrect`, `ScanInBounds`,
  `NoSpuriousRefusal`. `RInv` adds for a `pristine` table "the used slots are
  those below `counter`, each key once" (`PristineCompact`); with it `findKey` is
  exact and `DictRefinesMap` maps each step to a step of `BoundedMap` or a stutter. The
  least free slot exists by well-foundedness of `<` on the naturals.
* **`FawkesProofs`.** `VerdictCorrect`, and `EncodersKeepFields`: each encoder
  changes one of three registers.
  The argument is arithmetic on the three fields of a byte. `ArithmeticIsMasks`
  (`SameAsMasks`): a bit of a byte is a bit of one of its fields (`BitsOfFields`), and
  what the fields fix is the byte the masks and shifts of the code compose, so
  the two agree on each of the eight bits. `EncodersAreMasks` joins the two for
  any strings, and `RequestPackedByMasks` (`PackedByMasks`, in `SystemProofs`)
  applies it to the request being parsed.
* **`TlsIOProofs`.** One inductive invariant ties `total` to what the connection
  took or delivered at every point of each loop; `SendallReport` and `ReadallZero`
  follow for all lengths, limits and windows. `ReadallComesNearer`:
  once the writer has closed, each `SSL_read` ends `readall` or leaves it fewer bytes.
* **`SystemProofs`.** For any clients, requests, address list and descriptor limit:
  `SystemTypeCorrect`; `NoDescriptorLeak` (`OneListener`), from `FdInv`, which says
  which descriptors are open at each place of `main`; `VerdictReachesClient`
  (`FirstLineIsVerdict`) and `SystemRefinesService` (`RefinesService`), by way of
  `AnsweredBeforeClose`: nobody is let go without a status line. That the 400 of a
  failed read goes only to clients that have left is an invariant of its own
  (`TlsRefusesLeavers`), since the read fails for no other reason. The last two
  need `QueueInv` (no client is in the queue twice, and one that waits has been
  written nothing, so `accept` starts with a clean connection) and `VerdictInv` (what
  is still to be written by `routeClient` begins with the verdict as long as
  nothing was written). The lemma `DecidedLines` connects them with the
  information byte through `InfoFields`: what `parseRequest` packs is what
  `routeClient` unpacks. `OnlyErrorsStayOpen` (`FilesOpenAreErrors`) compares two
  cardinalities; its invariant `FileInv` counts, with the clients that were
  written a 404 for such a file, the one that is about to be: the file is opened
  by `ParseOk`, several steps before the line is written. That the client
  served was not counted before is `VerdictInv`. `Clients` need not be finite.
  `ServerEndsForACause` (`EveryEndHasACause`) needs more than the guard of the step
  that ends the process, because causes and ends are apart: `EndInv` says that a
  server about to crash in `routeClient` serves a client that asked for such a page,
  and that a cause, once there, stays (`ClosedStays`: a client that has left stays
  away and sends nothing more), and that the descriptor the handshake had to spare
  is still there for `readFile`. For a handshake that finds no
  descriptor `NoneSpare` counts: by `FileInv` every one but the two sockets' is then
  a file left open for an earlier client.
* **`RequestParserProofs`.** For messages of any length, any limits and any
  garbage in a header without ": ": `ParserTypeCorrect`, `HeadersStored`, `QueryStored`, `BodyStored` and
  `CommandsArrive`, from one inductive invariant `Inv`. Its core is `Stored(d, s, n,
  size)`, what a dictionary holds after the first `n` pairs of `s`, by
  quantifiers over positions: which keys (the first occurrence came while there
  was room) and which value (the last one's). The lemmas show that one `setTuple`
  takes `n` to `n + 1`, so the loops' own steps are the induction and none over
  data is needed. `QueryInv` adds that the flattened strings are the parameters
  side by side, `HeadersInv` that the lines before the counter have been stored.
  `LeadInv` says the first of a query string that only begins with pairs: their
  strings come first, every later key is a string behind them, so what they stored
  stays. That none of as many pairs as there is room for is dropped (`RoomForAll`)
  compares cardinalities: so many keys are all different or fewer than the room.
  `CommandsArrive` is about messages that need not be framed (the user may give
  lines without ": "), where `Stored` says nothing: there `HostInv` (the Host
  line comes first and is never overwritten), `LastInv` (the last header line,
  Content-Length, wins if its name is known) and `BodyInv` are needed. `ShortIsWhole`
  is the arithmetic of the message size; for messages whose end is not sent
  `CutLines` and `LineInv` show that a line that was cut is among the last two,
  which the header loop never reads.
  `FramedNeverFails` and `FramedComesNearer` are `FramedEnds` without its fairness: on
  a well-formed message no NULL and no invalid pointer is read, and `Remaining`, a
  natural number, falls with every step. That is what lets `Server` give a whole `framed`
  message no step but `ParseOk`, for messages of any length.
* **`HostnameProofs`.** `Inv` says that no name before the loop's counter decides
  and what `result` means when the names are about to be freed; `VerdictSound`,
  `VerdictComplete` and `NamesReleased` follow for any list of names, and
  `HostnameTypeCorrect`: no name behind the list is read. `ValidateComesNearer`:
  every step leaves fewer to be taken.
* **`DatabaseProofs`.** `ConcurrentCreateIsComplete` (`CompleteTable`) rests on
  `TableInv`: a dropped table has a process about to create it, and every missing
  row `k` has an inserter, a process whose next row is at most `k` and that finds
  no row in its way up to `k`. "Somebody inserts at or before `k`" would not be
  inductive, as a process gives up at the first row that is there already; and
  because the gap is part of the invariant no induction over the rows is needed.
  `ConnectionsAccounted` follows from `CallInv`, which says for each place in a call
  which connections are open. `AuthenticationSound` is about the step that answers,
  for names without a quote: of all the steps that end a call with 0 only the
  SELECT is one of `authenticateUser`, and it sees the table as it is then. `DatabaseTypeCorrect`
  includes that the connections of all processes together stay within the server's
  limit: they are a set of pairs (process, number), to which a call adds one.
* **`VectorProofs`.** `VectorFitsBlock` (`SizeFitsBlock`) and `VectorRefinesSequence`
  (`RefinesSequence`), for any capacities, memory and indices, with failing
  allocations. `BlockInv` ties the block to `capacity`, `SetInv` says what
  `int_vector_set` has appended so far: zeros, from the size it began with, not past
  its index. With it the many steps of one set are stutters up to the last, which
  is one step of `GrowingSequence`.

Only model-checked: the liveness properties (`ReadallReturns`, `SendallReturns`, `QueueDrains`,
`ClientEnds`, `FramedEnds`, `ValidateReturns`), which are beyond TLAPS here. Of `FramedEnds`,
`ValidateReturns` and `ReadallReturns` the part that is safety is proved: a number that
falls with every step. What TLC adds is that a step can always be taken until the end
(`ENABLED`), and that it is (fairness). `SendallReturns` has no such number, as
`SSL_write` may return 0, and the two of the system depend on several processes. Every
invariant and every refinement of the passing runs has its theorem.

## 5. Abstractions worth knowing

* `Request.path` and `Request.body` are allocated with a fixed size and copied
  into; the model has no string lengths, so it says nothing about long paths.
* The same holds of the byte `strsplit` and `parseHeader` write behind a token and
  of the pointer `strsplit` writes behind its array when the last piece is not
  empty, and of the NULL `parseQueryStr` writes behind its array when every
  parameter is a pair: they are taken to do no harm. Text behind a second "?" is dropped by
  `parseQueryStr` and is not part of a message.
* `client_v2` allocates the size it computed and writes past the end of that buffer
  when `Spare` is not positive; what is sent is modelled, the writing is taken to
  do no harm. Its data is one line.
* The rows `getTables` and `getTableRows` return point into a result they have
  cleared; the model says only whether a call succeeded.
* A request without a whole request line makes `parseRequest` use a token that
  is not there: modelled as a segmentation fault, which the handler turns into
  an exit (`ParseSegv`).
* OpenSSL's initialisation (`initSSL`, `initServerCTX`) is taken to succeed.
* The fork is commented out, so `SIGCHLD` has no child to reap.
* OpenSSL contexts and sessions that are never freed (`shutdownSSL` is commented
  out in `respond`) are not counted.
* `SIGPIPE` may or may not be raised by a write to a connection that has gone: a
  choice, as it depends on whether the peer's reset has arrived.

### Where the code and its comments differ without a run of their own

The runs with findings are above. The following disagreements are in the models, and
the properties are stated so that they do not claim the comment's side:

* `sendall` of an empty message returns what `SSL_write` gave, so an empty page is
  reported as a failure, where `ssl_funcs.h:411` says "return err on failure, 0 on
  success". `SendallReportsSent` speaks of messages that are not empty.
* `readall` prints an error and returns 0 when it has read more than
  `SOCK_BUFF_MAX_READ` bytes, where `ssl_funcs.h:428` says "return err on failure"
  and `:414` "until all received"; and the "buffer overflow checking" of `:422` is
  done behind the read, against a limit above the callers' `SOCK_BUFF_DEF_READ`.
  `ReadallZeroIsWholeStream` speaks of streams within the limit; a write past the
  buffer is the model's `crashed`, and no property excludes it.
* More than 20 query parameters: `server.h:201-203` has "response 400" and no code; the
  rest is dropped silently. `QueryExact` speaks of as many as there is room for.
* The size of the client's message ("How big is the message?", `client_v2.c:64`)
  leaves out the host, so a POST without data to `localhost` loses its last three
  bytes and the server stores no Host. `CommandArrives` names the hosts for which
  everything arrives.
* `authenticateUser` pastes the name into its SQL (`database.h:257-259`; the TODO at
  `:241` knows it). `AuthenticatesOnlyUsers` speaks of names without a quote.
* `getVersion` goes on with a result and a connection it has freed
  (`database.h:84`): the model lets it return or end.

## 6. Not modelled

Response text, printing and logging, name lookups (`netops.h`) and OS information
(`osinfo.c`): pure I/O or constant text. The prime test of `arithmetic.h`, which
draws random numbers and is used by nothing. The demonstration stubs of `oop.h`,
whose bodies are empty. The old client and `server_socket.c`, which are not built and
do not compile. The C++ files and the install scripts. Windows branches.

## 7. Plan

Done: every component that keeps state has its module, its run and its abstract
specification where one is worth stating (`BoundedMap`, `FifoService`,
`GrowingSequence`), and the proofs of section 4, which cover every
safety property the passing runs check. Left, in this order:

1. `configClientSSL` composed with `HostnameValidation`, whose outcome is a choice in
   `Client` now.
2. What `TlsIO` proves of `sendall` and `readall` used where `Server` and `Client` take
   a whole message for granted.
