# jtop: TLA+ specifications, model checking and proofs

jtop is a system monitor for a router.  A small C server (`src/server/jtop.c`)
samples the machine once a second and pushes every sample to the clients
connected to it; an Android client draws the last thirty.

## 1. The system

| component | source | state it keeps | operations |
|---|---|---|---|
| sample ring | `server/jtop.c` 27-43, 119, 194 | `data_history[30]`, `last_index`, under `info_mutex` | advance, fill a slot; read the newest slot and the one before |
| data thread | `jtop.c` 52-154 | `data_thread_shutdown_flag` (read) | every second: read the clock, gather and store a sample, broadcast `new_info_cond` |
| connection threads, one per client | `jtop.c` 179-232 | `sockfd`, `content`; `active_thread_count` | wait for the broadcast, format a frame from the ring, write it; on error or shutdown close, decrement, broadcast |
| main thread | `jtop.c` 234-314 | `socketConnection`, the listening socket | start the data thread, listen, select/accept/create; on shutdown close, stop and join the data thread, drain the connection threads |
| SIGINT handler | `jtop.c` 156-177 | `shuttingdown_flag` | set the flag; interrupt select, sleep, or a write in progress |
| sample arithmetic | `jtop.c` 120-136, 204-212 | none | conversions to `float`, ratios and rates |
| glibtop collectors | `server/glibtop/*.c` | none | parse `/proc/stat`, `meminfo`, `net/dev`, `net/wireless`, `net/ip_conntrack` |
| Android client | `client/.../JtopView.java` | `dataHistory`, `shouldShutdown`, the packet buffer | connect, split the stream at null bytes, keep 30 frames, post a redraw, reconnect; onResume/onPause |
| mongoose pool | `server/mongoose.c` 4875-5215 | `queue`, `sq_head`, `sq_tail`, `num_threads`, `stop_flag` | the master accepts and queues, workers take and serve, `mg_start`, `mg_stop` |
| mongoose connections | `mongoose.c` 1543-1613, 3055-3113, 4764-4873 | `buf`, `data_len`, `content_len`, `consumed_content`, `must_close`, `last_throttle_bytes` | read requests and bodies, keep the connection or close it, write at a limited rate |
| mongoose handlers | `mongoose.c` 2623-2925, 3116-3634, 3886-4306 | files, pipes and processes | send, store and list files, run programs, include files, take uploads, cut websocket frames, redirect |
| mongoose set-up | `mongoose.c` 4308-4474, 4990-5215, 2478-2541 | `config`, the listening sockets, the access list, the passwords file, the logs | start and stop, parse options, change passwords, append lines |
| mongoose texts | `mongoose.c` 771-1004, 1614-1925, 2061-2245, 3779-3872 | none | parse requests, headers, variables, cookies, dates; encode, decode, print, digest |

The threads of the server meet at three mutexes, two condition variables and
two plain flags:

    data thread --(info_mutex)--> ring --(info_mutex)--> connection threads --write--> clients
    data thread --(new_info_cond)--> connection threads        (once a second)
    connection threads --(active_thread_count, active_thread_returned_cond)--> main (shutdown)
    main --(new_info_cond)--> connection threads               (shutdown)
    SIGINT --(shuttingdown_flag, EINTR)--> main and connection threads
    main --(data_thread_shutdown_flag, pthread_join)--> data thread

mongoose is a web server kept in `server/` that no target of the Makefile links
into jtop.  It is most of the code, so it is modelled all the same, from its
own source and the header's promises:

    application --(mg_start, stop_flag, mg_stop)--> master, workers
    master --(queue, sq_full)--> workers --(sq_empty)--> master
    workers --(num_threads, cond)--> master --(stop_flag = 2)--> application
    worker: requests --> handler --> files, pipes, the client's socket
    worker --> worker: through files, and through the pipes a forked program keeps

What is hard here: the writer moves the index before it fills the slot; a
broadcast is lost on every thread that is not asleep; both flags are read with
no mutex; a signal runs in whichever thread the kernel picks; calls that fail
(`accept`, `pthread_create`, short writes, the reads of an upload, the writes of
a file) are not looked at; the clock may
stand still, step back or be 0.  In the client two threads share a list and a
flag, a read gives any part of what was sent, and an activity may be paused and
resumed around a thread that nothing can interrupt.  In mongoose flags are read
and a counter is changed with no mutex, one buffer holds pieces of several
requests, calls fail half way, a program is born with the pipes of others, and
files change between `stat`, `open` and `read`.

What makes each part correct:

- ring and data thread: a frame is a pair of samples recorded one right after
  the other, never torn; the two are of different seconds;
- connection threads: a reading client gets the newest sample sooner or later,
  never an older frame after a newer one, and nothing after half a frame; each
  thread has a descriptor of its own, and leavers are noticed;
- main and the handler: the count is the threads that have not returned; the
  process exits only when all have and every connection is closed; a shutdown
  that was asked for ends;
- client: one provider adds to the history, whatever the pauses; frames come
  out of the reads as they went in; the graphs catch up with the history; a
  pause ends, and a lost connection is made again;
- collectors, arithmetic: a stored number is the one of the kernel's file that
  it is called, and a frame's numbers are the differences of two samples;
- mongoose's pool: every accepted connection is served and closed once; memory
  and mutexes outlive the threads that use them; stopping returns;
- mongoose's streams: however bytes fall into reads and buffers, requests,
  bodies, frames, uploads and included files come out whole and in order, and
  the worker is free again in the end;
- mongoose's handlers: no descriptor, process or memory outlives the request or
  the server when a call fails; what a client is told is true;
- mongoose's texts: each is taken apart where its grammar says.

`PROJECT.json` lists each hazard at its line.

## 2. Modules

| module | models |
|---|---|
| `History` | the ring's slots, samples and index computations |
| `JtopServer` | every thread of the process, the handler, and the clients as its sockets show them |
| `JtopServerSafety` | what the server may never do, and the inductive invariants that explain why |
| `SampleFeed`, `JtopServerFeed` | abstract: what the server promises to its clients, with no threads, ring or locks; and the refinement mapping to it |
| `JtopServerLiveness` | fairness, liveness, and a statement the program makes that does not hold |
| `JtopView` | the client's provider thread and its UI thread, the stream cut into packets, and its properties |
| `FileToBuffer` | `file_to_buffer`, in every division into reads, with lengths that wrap |
| `Glibtop` | the collectors: `netload`, `netlist`, `conntrack`, `wireless`, `mem`, `swap`, and how `append_sysinfo` adds them up |
| `SampleArithmetic` | the conversion of counters to `float`, and the differences a frame is made of |
| `MgPool`, `MgPoolProperties` | the threads of mongoose: master, workers, `mg_start`, `mg_stop`, and the ring of sockets |
| `AcceptQueue` | abstract: accepted connections in a bounded queue, none forgotten before the server stops |
| `MgConnection` | `process_new_connection`, `getreq`, `mg_read`, `forward_body_data`: requests and bodies through one buffer |
| `MgThrottle` | `set_throttle`, `mg_write`, `push`, second by second |
| `MgCgi`, `MgCgiEnv` | `handle_cgi_request` and `spawn_process`, with pipes and the ends that children keep; `addenv` |
| `MgFiles` | `handle_file_request`, `put_file`, `put_dir`, `mg_stat`: workers at one file |
| `MgDirectory` | `scan_directory`, `dir_scan_callback`, `compare_dir_entries`, `handle_directory_request` |
| `MgSsi` | `send_ssi_file`, `do_ssi_include` |
| `MgUpload` | `mg_upload` |
| `MgWebsocket` | `read_websocket` and its callback |
| `MgDispatch` | `handle_request`, and the client that follows its redirects |
| `MgStart` | `mg_start` up to its threads, the options, `check_acl`, `mg_stop` after its threads |
| `MgPasswords` | `mg_modify_passwords_file`, stopped anywhere and called again |
| `MgLog` | `log_access` and `cry`, several workers at one file |
| `MgUris` | the functions that take a URI to a path: decoding, and the removal of double dots and slashes |
| `MgText`, `MgTextProperties` | the other functions on texts, as operators; reference definitions of what they should give |
| `MgDigests`, `MgDates` | SHA-1 and MD5 up to the transforms; `parse_date_string` |
| `MCJtopServer`, `MCJtopView`, `MCMgPool` | instances for TLC: clocks, sets, symmetry |
| `MCCollectors`, `MCStreams`, `MCHandlers`, `MCTexts` | instances of the modules of one kind, one of which a behaviour is of |
| `JtopServer_proofs` | the index computations and the types; mutual exclusion, the ring, the frames, the rates; the mutexes, the count, the descriptors, the exit; the order of frames and what follows a cut one; the server implements `SampleFeed` |
| `JtopView_proofs` | the client: its types, one provider, the order of its history, its redraws, its packets |
| `Collectors_proofs` | the buffer holds the file, and its terminator lies inside; what the collectors read is what it is called; frames are differences |
| `MgPool_proofs` | the pool: each socket in one place, the context after its threads, and that it implements `AcceptQueue` |
| `Transfers_proofs` | uploads and included files: parts come whole, tags are replaced |
| `Streams_proofs` | limited writes, websocket frames, redirects and connections; with the module above, the safety of all of `MCStreams` but its programs |
| `MgFiles_proofs` | files: what is sent is what was announced, 304 is true, a PUT is stored, all are closed |
| `Handlers_proofs` | the start, the passwords, the directories, the log, the programs and their environment; with the module above, the whole of `MCHandlers` |

### How `JtopServer` corresponds to the code

`pc[p]` is where thread p is; each value stands before one call or test of the
source.  One action is one step between two points where another thread can
see a difference.  Taking a mutex is an action; what is done under it, with
its release, is the next, except the ring's critical section, which has the
state between the move of `last_index` and the filling of the slot, and the
drain loop, which holds `active_thread_count_mutex` across its broadcast.  A
blocked call is an action that is not enabled.

| variables | code |
|---|---|
| `data_history`, `last_index`, `shuttingdown_flag`, `data_thread_shutdown_flag`, `active_thread_count`, `socketConnection` | the variables of those names |
| `owner`, `sleepers` | the mutexes, and who is asleep on each condition variable |
| `thread_data`, `sockfd`, `content` | the malloc'ed int given to each thread, and the thread's locals |
| `conn`, `peer`, `stream` | each TCP connection: the server's side, the client's, the newest frame written and whether it was cut short |
| `round`, `signals`, `faults` | which second the data thread is in, and how much of each budget is spent |
| `recorded`, `lost` | history variables: every sample stored; failed `pthread_create` calls |

Abstractions.  A sample is its timestamp and the round that gathered it, which
stands for its ten readings.  A frame is the pair of samples it is computed
from.  `WallClock` gives the time of each round and may be any function.
`pthread_cond_wait` may return spuriously.  The kernel accepts the first write
after a client closed and fails the next; a client that stops reading blocks
the write, and one that leaves with unread data resets the connection.
SIGINT interrupts `select` and `sleep`; a write that has moved some bytes
returns early, and everything else is restarted, because `bsd_signal` sets
SA_RESTART.  A SIGINT before the handler is installed (250) kills the process
and is left out, as are the check of the arguments and the messages printed.
The creation of the data thread (247) and `malloc` (285) are taken to succeed.
The clients are external: they connect, read, stop reading and leave when they like.
Thread objects are never reused: no thread is joined or detached, so a thread
that has returned keeps its slot, and `Threads` is what the process can create
before `pthread_create` fails.

### How `JtopView` corresponds to the code

A provider is a `DataProviderMain` with its thread; `pc[p]` stands before a
test or a call of `run`.  `buffer`, `nread`, `startIndex`, `baos` and
`triggerRedraw` are its locals (reset when they go out of scope, which changes
nothing), `shouldShutdown` its field, `dataHistory` and `dataProviderMain` the
activity's.  `redraws` counts the runnables in the handler's queue and `series`
is what the graphs were last given.  `carried` (the packet in `baos` began in
the middle of a read) and `unposted` (packets added, and an exception before
the post) are history variables.  Each turn of the loop over a read is one
step: the search for the null byte, the write to `baos`, and what follows it.

Abstractions.  A byte is the frame it belongs to and its place in it, so text
that was put together wrong can be told from text that was not.  `Parsed` is
`org.json`: an object that is there in full is found and what follows it
ignored; text that goes wrong later may be refused or may be taken for an
object no server sent (`Torn`), and both are tried.  The server sends its
frames in order, repeats the newest, or loses the connection, at any byte;
nothing else is assumed of it.  `onPause`'s `interrupt` only shortens a sleep
that ends anyway.  `shouldShutdown` is not volatile; it is read as it is,
because the provider makes a blocking call between any two of its tests.  An
exception nobody catches ends the application (`crashed`).

### How the modules of the collectors correspond to the code

`FileToBuffer` has the locals of `file_to_buffer`; a byte is its number in the
file, an unsigned length is a number modulo `Word`, and a failed read adds
`Word - 1` as the -1 in the code does.  In `Glibtop` a file of `/proc` is a
sequence of lines and a line is the fields that the parsers tell apart; files
grow a line at a time, and in every state each collector is an operator on
them.  The loops over lines and interfaces are recursive functions (`Listed`,
`Sums`), and `Machines` is what a header may count and links may be.  The number
in a column names its line and its column.  What `strtoul`,
`ioctl` and `getifaddrs` give are external.  In `SampleArithmetic` a `float` is
a number rounded to `Mantissa` bits, ties to even.

### How the modules of mongoose correspond to the code

| module | variables and code |
|---|---|
| `MgPool` | `queue`, `sq_head`, `sq_tail`, `num_threads`, `stop_flag` of `struct mg_context`; `so` and `client` the sockets in the hands of the master and of each worker; `readCount` the value between the read and the write of `num_threads`; `sock` each connection on the server's side, "leaked" when nobody has it any more and nobody closed it |
| `MgConnection` | `data_len`, `request_len`, `content_len`, `consumed_content`, `must_close` of `struct mg_connection`; a byte is its position in the client's stream, so the buffer is the interval behind `base`; `got`, `requests`, `torn`, `strayed` record what happened |
| `MgThrottle` | `throttle` and `last_throttle_bytes`; `current` tells whether `last_throttle_time` is this second; `sent` is what this second has seen, until a send comes short (`short`), as at a timeout |
| `MgCgi` | `open` are the ends of pipes open in the server, `locals` the four descriptors and two streams of a request, `held` the ends a child was born with; a pipe has an end of file when nobody holds the other end |
| `MgFiles` | `name` is the file under the name, or 0; `data` and `mtime` of each file that ever was; `st`, `fp`, `cl` the locals of a request; `excused` marks a request whose file was changed under it, whose client left or of whose calls one failed; `Late` and `Day` are what `parse_date_string` does to a date |
| `MgWebsocket` | a byte is its place in the client's stream; the buffer behind the request is the `body_len` bytes from `base` on, and `head` what they say as a header: that of the frame that starts there, or any when a failed read has left `base` inside one; `told` is what the callback was given |
| `MgUpload` | `buf`, `fname`, the files, where each thread's stream stands (`written`), `num_uploaded_files` (`count`); `lost` and `short` mark an upload of which a read, or a write of its file, has failed |
| `MgDirectory` | `entries`, `arr_size` and what was really allocated; `strings` counts the names that are allocated |
| `MgSsi`, `MgDispatch` | the locals of the functions, with their names |
| `MgStart` | `config`, `listening`, `callbacks` of the context; `heap` and `fds` what was allocated and opened |
| `MgPasswords` | the file and its copy on the disk, `out` what the copy will be when stdio has written it; `before` is the file at the beginning of the call, `short` and `lost` mark what was not copied and a call that found only a copy |
| `MgLog` | the log on the disk, and what stdio holds of each worker's stream |

One action is one step between two points where another thread, process or
client can see a difference; where there is nobody else, it is one turn of a
loop or one call.  `MgText` has no state: `MgTextProperties` builds every text
up to a length, a character at a time, and compares.

Abstractions.  A worker's service is one step in `MgPool` and a module of its
own elsewhere.  `poll`, `accept`, `fork`, `pipe`, `stdio` and the file system
are modelled as the code uses them and marked external.  Time is a counter of
seconds.  Calls fail where the actions with `Fails` or `Loses` in their names, or
a result that may be less than what was asked, say so; the others named in
section 6 are taken to succeed.  Texts in headers matter where a module is about
them and are members of small sets elsewhere.

## 3. Runs

Deadlock is not checked in any run: the server exits and nothing follows, a
paused client with no provider left to start has nothing to do, and a handler
comes to its end.

| run | instance | what it shows |
|---|---|---|
| `server_threads` | 2 threads, 2 clients, 2 rounds, 1 SIGINT | the count, the descriptors, the exit and the mutexes, with two of everything that comes in numbers |
| `server_frames` | 1 reader, ring of 3, 6 rounds of the clock 0, 2, 2, 1, 2, 3 | every frame is a pair of neighbours in the record, the rates are defined, the order, what follows a cut frame, and that the server implements `SampleFeed` |
| `server_liveness` | 1 thread, 1 client, 3 rounds, 1 failing call, fair | connections keep their thread; the five liveness properties |
| `server_drain_gap` | 1 thread, 1 client | violation: main's drain does not keep threads from "just sleeping" |
| `view_life` | 2 providers, 3 frames of 1 byte, a buffer of 4, a history of 2 | one provider, a history in order, graphs that catch up, through pauses, lost connections and bad frames |
| `view_frames` | 1 provider, 2 frames of 2 bytes, a buffer of 7, 5 bytes in the network, fair | frames are put together right from any reads, but for those that begin in the middle of one and end in another; a pause ends unless the server is silent for good; a lost connection is made again |
| `view_torn_packet` | the same with 6 bytes | violation: what is handled as a complete packet is not one |
| `pool` | 2 workers, a ring of 2, 4 connections, one denied, 1 failing call, fair | each connection in one place, served and closed once; the context outlives its threads; the ring is the queue of `AcceptQueue`; stopping returns, but for a wake-up that may be missed |
| `collectors` | a buffer of 5 for files of up to 6; a header of 2 to 9 columns with links alike, or of 3 with any two links beside the loopback; 3 interfaces, 4 connections, 2 lines of levels, 3 of `meminfo`; floats of 2 bits and up to 28 ticks | the buffer is the file; each collected number is the one it is called; a frame is the differences |
| `streams` | seven modules, below | what is cut into pieces comes out whole, and what a failed read or send leaves is no more than it may be; what a step says is true; the worker is free again |
| `handlers` | seven modules, below | nothing is left behind when a call fails; what is told is true |
| `texts` | every text of up to 7 of the 3 to 6 characters that matter to a function, patterns of 4 on paths of 3; days of 1971-2040; messages of up to 60 bytes in blocks of 8 | texts are taken apart where their grammar says; conversions are exact |

The runs `collectors`, `streams`, `handlers` and `texts` check several modules
that share no state: the first step of a behaviour chooses one of them (`what`), whose own
`Init`, `Next` and properties are then used; the run's properties are the
conjunctions of theirs, by module.  Each part of a conjunction is stated and
explained where its module defines it:

| property | parts |
|---|---|
| `CollectorsAreRight` | `Glibtop`: `NetLoadIsBytes`, `NetListFits`, `TrafficIsOfOthers`, `ConntrackCounts`, `WirelessIsNegative`, `UnitIsOwn`, `SharesAreNumbers` |
| `FramesAreDifferences` | `SampleArithmetic`: `UsageIsShare`, `UsageIsNear`, `RateHasItsSign` |
| `PiecesMakeTheWhole` | `MgConnection`: `RequestsAreMessages`, `BodyIsContiguous`; `MgWebsocket`: `PayloadsInOrder`, `BufferStartsAFrame`, `NothingTwice`, `NothingAfterClose`; `MgUpload`: `AllPartsCount`; `MgSsi`: `TagsAreReplaced`, `PlainIsCopied`; `MgThrottle`: `RateAtMostDouble`; `MgDispatch`: `LinksResolve` |
| `SaidIsDone` | `MgConnection`: `ReadBodiesDoNotStray`, `ForwardedUnlessTorn`, `AnnouncedCloseCloses`; `MgUpload`: `FilesAreParts`; `MgThrottle`: `WritesInFull` |
| `WorkersComeBack` | all but the websockets, under the fairness below |
| `FailuresLeaveNothing` | `MgFiles`: `FilesAreClosed`; `MgCgi`: `NothingLeftBehind`; `MgCgiEnv`: `EnvFits`; `MgStart`: `FailureUndoes`, `StopUndoes`; `MgPasswords`: `OldOrNew`; `MgDirectory`: `EntriesFit`, `NamesAreFreed` |
| `AnswersAreTrue` | `MgFiles`: `SentAsAnnounced`, `NotModifiedIsTrue`, `PutIsStored`; `MgCgi`: `OneResponse`; `MgCgiEnv`: `VariablesAreWhole`, `BlockIsContiguous`; `MgStart`: `ListensAsTold`, `LastMatchDecides`; `MgDirectory`: `CompareIsOrder`, `ListIsDirectory`; `MgLog`: `ShortLinesAreWhole`, `LinesAreLogged` |
| `TextsAreTakenApart`, `ConversionsAreExact` | `MgTextProperties`, `MgDigests`, `MgDates` |

Bounds of the server and the client.  Readers do not touch the ring or each
other's locals, so one reader meets every interleaving with the writer, and a
ring of 3 with four recorded samples wraps, so that a slot about to be filled
holds an old sample, and has a slot that is neither the newest nor its
predecessor.  Two threads are enough for one to return while another is still
in any of its steps.  `MaxRounds` bounds the seconds told apart: after the last
one the clock stands still and the data thread goes on broadcasting.  A second
SIGINT only finds the flag set.  `FaultBudget` 1 fails each call in turn.  For
the client, two providers are an activity paused and resumed, with the frames of
the first one's connection in the history of the second; five bytes in the
network are a frame, its end and part of the next, which a read may cut
anywhere, and with a buffer of seven the write of the second is in bounds or
out of them, so that a packet that fits, one that takes in other bytes and one
that throws are all there.  A history of 2 among 3 frames is trimmed.  In
`view_life` a frame is one byte: the cutting of frames is the other runs'.

Bounds of mongoose.  A ring of 2 and 4 connections run both indices past its
size and wrap them, with the master waiting at a full ring.  The connection's
buffer of 4 is shorter than the longest request with its body, so bodies lie in
the buffer, across its end and in the socket, and two requests share it; scripts
of two and three messages put every kind of message before and after one with a
body.  The websocket frames have lengths in 1 and in 3 bytes, with and without a
mask, around the size of the buffer on the stack; two of them, read by a callback
that may go on for three payloads, leave the loop inside a frame, with any of the
headers in what follows.  An int of 4 makes the length that `pull_all` is given
whole for the shorter payloads and negative for the longer ones.  Uploads and
included files pass through buffers that are shorter than they are, with every
text that looks like a boundary or a tag; any read may fail when it has taken any
part, any write may come short, and a send of any length may.  Two workers are at one file, with three requests,
so that one serves while another empties, fills or removes it, at times 1 to 3
of which the first is a day that `parse_date_string` makes the next.  Two programs
run at once, each born at any step of the other.  The environment's block
overflows before its array in some behaviours and after it in others.  Password
files have up to three lines, so that the changed record is the first, between
others, the last or new, with and without an end of the last line; an array of
directory entries that begins with room for one is enlarged twice for three
names.  `handlers` has 1.7 million states, most of them of two workers at one
file.  For texts, the alphabet of each function is one character of each kind that it tells
apart, and the length is that of the longest construct and one character more.

Fairness.  In the server each thread takes a step that is possible again and
again (strong fairness): a mutex is free again and again between the short
sections of the others, and the kernel drains the buffer of a client that reads.
Clients, signals and spurious wakeups may never come.  The client's provider
takes its steps, `join` returns and a queued runnable is run when they can (weak
fairness: nobody else disables them for good); a read with no bytes to give is
not enabled, and the server need never send any.  In `pool` every thread takes
the steps it can (weak fairness), one that keeps asking for the mutex gets it
(strong), and nobody need call `mg_stop`.  In `streams` the worker takes its
steps and time goes on; the client need not send, since its end and the
timeout of a read are steps of the worker; a program reads, writes what it has to
write and exits.

Every property of a passing run has a mutant: a definition changed the way a
plausible bug would change it (a dropped lock, test, loop, broadcast or
unlock), under which TLC finds the property violated.  The mutated forms stand
before the definitions they replace, marked "Mutant".

## 4. What the violations say, and what else was met

Two runs end with a violation of what the program says of itself:

- `server_drain_gap`: a connection thread tests `shuttingdown_flag` (186) before
  it takes `new_info_mutex` (187).  If SIGINT, the end of the data thread and
  main's broadcast (304) fall in between, it sleeps with nobody left to wake it
  and main sleeps at 307 for good.  `DrainEnds` shows that this gap, and a client
  that stalls for ever, are the only ways a drain with no failed call does not end.
- `view_torn_packet`: the client calls `baos.write(buffer, startIndex, nullByte)`
  (179); the third argument is a length.  Unless the packet is at the head of its
  read, the bytes after it go into `baos` too.  They are harmless when the packet
  ends in that read, since the parser stops at its last brace; when the packet
  goes on in the next read they are in the middle of it.  `OnlyCarriedPacketsAreTorn`
  shows that no other packet is ever lost or mistaken, which is why a server
  that sends one short frame a second seldom meets it: it takes a client that
  fell behind.  A read longer than half the buffer may also put the write out
  of bounds, with an exception that is not caught (`WriteFails`).

The models also contain these behaviours, each of which differs from what a
comment, a header or an assertion says; the properties are stated around them:

| code | behaviour | said at |
|---|---|---|
| `jtop.c` 288 | a failed `pthread_create` leaves the count one too high, and a shutdown waits with no thread alive | "Waiting for active threads to return.", 299 |
| `jtop.c` 276 | SIGINT before `select`, or in another thread, does not wake main; `SignalledLoopEnds` shows that the next client does | "Received SIGINT, shutting down...", 175 |
| `jtop.c` 93 | `has_addr` asks for IPv4 and `is_linklocal` for the first IPv6 address: an interface with both may be skipped | 86-87 |
| `mongoose.c` 5059 | `sq_full` is broadcast without the mutex: a worker that has tested `stop_flag` and not yet gone to sleep is missed, and `mg_stop` never returns | 5058 |
| 5207 | `num_threads` is incremented after the worker runs: one without memory takes it to -1 first | the assertion at 4947 |
| 3092 | `forward_body_data` does not look at the result of writing the buffered part | 3113 |
| 3495 | the success of a PUT is answered before its file is closed, and what stdio could not write then is lost (3497) | `forward_body_data`: 3113 |
| 3944 | a read of a websocket's payload that fails, or whose length is negative as an int, is taken for whole; what comes of the payload later is parsed as a header | "TODO: handle pull error", 3943 |
| 1529 | a read that fails when it has taken bytes returns -1 and the bytes are lost: an upload goes on without them (4107) or ends (4170) | "Propagate the error", 1529 |
| 4158 | an upload whose `fwrite` or `fclose` failed is counted, and its callback called | `mongoose.h` 320-322 |
| 1596 | a limited write sends up to twice the limit in one second | 517-519 |
| 1597 | what a short send of the loop has sent is in neither the count of the second nor the result | `mongoose.h` 207 |
| 1585 | what is left of a limit may be negative, and `mg_write` returns 0 | `mongoose.h` 205 |
| 1426 | a CGI program is born with the writing end of its own input, and never reads its end | "Close so child gets an EOF.", 3354 |
| 3350 | the whole body is written before the output is read: both may wait for ever | 3348 |
| 2832 | a file replaced by one of the same size in the same second is "not modified" | 3054 |
| 2889 | a range that ends past the end is announced one byte too long | 2782 |
| 3455 | `put_dir` fails when another PUT makes the directory in between | 3435-3437 |
| 1748, 1763 | `mg_get_cookie` finds a name at the end of a longer one, and returns -3 for a value too long | `mongoose.h` 279, 288-291 |
| 1629 | a message of exactly the buffer's size loses its last character | 1614-1616 |
| 1895 | dates in January and February of a leap year are a day late, so a file that changes within that day is "not modified" (3062) | 1876, 3054 |
| 1898 | `days * 24 * 3600` is a product of ints, too large from 2038 on | 1876 |
| 5181 | the access list is parsed, and may fail, after the user was changed | "UID must be set last.", 5172 |
| 4327 | with an address, a port beyond 65535 is taken | 4316 |
| 3904 | a masked frame's header of 6 bytes is taken for complete with 4 or 5 of them | the assertion at 3939 |
| 3583 | the offset in a file in memory is never increased | `mongoose.h` 97 |
| 4146 | an upload's file is opened with no lock | 4137 |
| 4266 | `uri_len` is of the URI before it was decoded: `/d//` is redirected to `/d//` again | 4213 |
| 2520 | a last line without its end takes the new record in | `mongoose.h` 188 |
| 2508-2532 | reads and writes of the password file's copy that fail are not noticed, and the copy takes the place of the file | `mongoose.h` 192 |
| 2535-2538 | `remove` takes the password file away, `rename` fails, and 1 is returned with nothing under the name | `mongoose.h` 192 |
| 2495, 2502 | when only the copy is left, the next call creates an empty file and empties the copy | 2494 |
| 2722 | when memory ends, the names of a directory's entries stay allocated | "TODO(lsm): propagate an error to the caller", 2722 |

## 5. Proofs

The theorems of the server are about `Spec` of `JtopServer` and hold for every value of the
constants, under `HistoryAssumption` (a ring of at least two slots) and
`ServerAssumption` (finitely many threads, with names of their own; the values
that stand for -1, a free mutex and no frame are none of the real ones;
`WallClock` is any function to `Nat`).  Every safety property of the server's
passing runs is proved, and so is the refinement; so are `RingHoldsRecord` and
`StreamsFollowRecord`, which explain them and which no run repeats.

| theorem | property | rests on |
|---|---|---|
| `TypeCorrect` | `TypeOK` | inductive; `SlotArithmetic` for the two index computations |
| `RingGuarded` | `RingIsGuarded` | inductive with `TypeOK` |
| `RingRecorded` | `RingHoldsRecord` | inductive with `TypeOK` |
| `FramesCorrect`, `RatesCorrect` | `FramesAreConsecutive`, `RatesAreDefined` | `RingGuarded`, `RingRecorded` |
| `OwnersCorrect`, `MutexesDoNotBlock` | `OwnersAreInside`, `NoBlockingUnderMutex` | inductive with `TypeOK` |
| `CountCorrect` | `CountIsLiveThreads` | inductive with `TypeOK`; cardinalities of finite sets |
| `ConnectionsCorrect`, `DescriptorsCorrect` | `ConnectionsAreTended`, `DescriptorsAreOwned` | inductive with `TypeOK` |
| `DrainCorrect`, `ShutdownIsClean` | `DrainIsComplete`, `CleanShutdown` | `CountCorrect`, `ConnectionsCorrect` |
| `RecordCorrect` | `RecordIsOrdered` | inductive with `TypeOK` |
| `StreamsCorrect` | `StreamsFollowRecord` | the ring, the frames and the connections |
| `StreamsInOrder`, `NothingAfterACut` | `FramesInOrder`, `CutFrameIsLast` | `RecordCorrect`, `StreamsCorrect`, `FramesCorrect` |
| `ServerImplementsFeed` | `ImplementsFeed` | all the above but the count and the drain |
| `JtopView_proofs!TypeCorrect` | `TypeOK` of the client | inductive; `NullByteBounds`, `WrittenType`, `AddedType` |
| `OneProviderCorrect` | `OneProvider` | `MainIsJoined`, inductive |
| `RedrawCorrect` | `RedrawIsComing` | inductive with the types |
| `HistoryCorrect` | `HistoryInOrder` | `ClientInv`: `ProviderInv` of every provider, and `HistoryInv` |
| `ReadsCorrect`, `TornCorrect` | `ReadsAreReassembled`, `OnlyCarriedPacketsAreTorn` | `ClientInv`; `RunOfBytes`, `FirstNull` |
| `Collectors_proofs!TypeCorrect` | `TypeOK` of `FileToBuffer` | inductive |
| `HoldsTheFile`, `EndsInside` | `BufferIsFile`, `TerminatorInside` | inductive with the types: the bytes before `len` are the file's in order, or a read has failed and `len` may have wrapped |
| `CollectorsTrue` | `CollectorsAreRight` | `KernelInv`: the shape of every line (`HeaderInv`, `DevInv`, `TrackInv`, `WirelessInv`, `MemInv`); `NetLoadOf`, `ListedLines`, `SumsBelow`, `ScaledFound` |
| `FramesTrue` | `FramesAreDifferences` | `SampleInv`; `FloatGrows`, `FloatFixes` and `Difference` about rounding, for every mantissa |
| `MgPool_proofs!TypeCorrect` | `TypeInv`: types of `MgPool`, and that no connection beyond the bound is accepted | inductive |
| `SocketsCorrect` | `EverySocketOnce` | `SocketInv`: `TypeInv` with what each thread holds in its hands |
| `ContextCorrect` | `ContextOutlivesThreads` | `PoolInv`: `SocketInv` with the mutex, the phases and the count |
| `PoolImplementsQueue` | `ImplementsQueue` | `SocketInv` |
| `ConnectionTypeCorrect` | `TypeOK` of `MgConnection` | inductive with `Placed` |
| `RequestsInOrder` | `RequestsAreMessages` | `ConnectionInv`: types, `Placed`, `InOrder`, `Given`, `Told`; `OffsetStep`, `OffsetGrows` for where a message begins |
| `BodiesAreContiguous` | `BodyIsContiguous` | `ConnectionInv` |
| `OnlyUnreadBodiesStray`, `ForwardedInFull`, `CloseIsKept` | `ReadBodiesDoNotStray`, `ForwardedUnlessTorn`, `AnnouncedCloseCloses` (actions) | `ConnectionInv` |
| `StreamsMakeTheWhole`, `StreamsTellTheTruth` | `PiecesMakeTheWhole`; `SaidIsDone` (actions) | `StreamsInv`: of the part that runs, `ConnectionInv`, `WsInv`, `UploadInv`, `SsiInv`, `ThrottleInv` or `DispatchInv` |
| `CgiTypeCorrect` | `TypeOK` of `MgCgi` | inductive |
| `RequestsCleanUp` | `NothingLeftBehind` | `CgiInv`: types, `EndsAreNamed`, `StepsHaveEnds`, `ProgramsAreForked`, `AnswersOfStep` |
| `OneAnswer` | `OneResponse` | `CgiInv` |
| `MgFiles_proofs!TypeCorrect`, `FilesClosed` | `TypeOK`, `FilesAreClosed` of `MgFiles` | `FilesInv`: types, `CopyIsGood`, and `WorkerInv` of every worker |
| `SentIsAnnounced` | `SentAsAnnounced` | `FilesInv`; `PieceOf` for the part of the content a range is |
| `NotModifiedTrue`, `PutStored` | `NotModifiedIsTrue`, `PutIsStored` | `FilesInv`; `PutAppends` for a mark at the end of a body |
| `HandlersLeaveNothing`, `HandlersTellTheTruth` | `FailuresLeaveNothing`, `AnswersAreTrue` | `HandlersInv`: of the part that runs, `FilesInv`, `CgiInv`, `EnvInv`, `StartInv`, `PasswordsInv`, `DirInv` or `LogInv` |

Those of the client are about `Spec` of `JtopView`, under `ClientAssumption`
(the sizes are positive, and the names that stand for nothing are none of the
real ones); those of `FileToBuffer` about its `Spec`, for every size of buffer,
word and file.  `CollectorsTrue` and `FramesTrue` are about `AnySpec` of
`MCCollectors`, whose constants are those of the modules it instantiates, under
their assumptions (`PartsAssumption`): for every set of interfaces, links and
columns, any number of lines, every mantissa, counter and step.  Those of
`MgPool` are about its `Spec`, under `PoolAssumption`, for every number of
workers, connections and failures and every length of the ring.  Those of
`MgConnection`, `MgCgi` and `MgFiles` are about the `Spec` of each, under the
assumption it states on its constants (`ConnectionAssumption`, `CgiAssumption`,
`FilesAssumption`), which TLC evaluates for the instances of the runs: for every
script of messages and size of the buffer, for every number of workers, sizes of
pipes, contents, ranges and bodies.  The properties are those that the runs
`handlers` and `streams` check as conjuncts of `FailuresLeaveNothing`,
`AnswersAreTrue`, `PiecesMakeTheWhole` and `SaidIsDone`.  `StreamsMakeTheWhole`
and `StreamsTellTheTruth` are about `Spec` of `MCStreams`, whose constants are
those of the modules it instantiates, under the assumptions these state
(`PartsAssumption`): for every script, every stream of frames, every body and
boundary, every text that is included, every limit and every URI, and buffers of
every size that has room for the boundary or the beginning of a tag.  One
upload runs there, and no file is held in memory; with several uploads, or such
a file, the code does what the rows of lines 4146 and 3583 above say.  The two theorems of
`Handlers_proofs` are about `Spec` of `MCHandlers`, whose constants are those of
the modules it instantiates, under the assumptions these state
(`PartsAssumption`): names are numbers, for the order of `strcmp`; strings of the
environment are of characters; the buffers have room for what ends them; the
lists of ports and addresses are lists of them.  A password file may end in the
middle of a line, but `OldOrNew` claims nothing of the calls that find one so,
which is the row of line 2520 above, nor of a call in which a line could not be
read or written, nor of what follows a call that found only a copy (2517-2532,
2495).  What is claimed of files is claimed of requests of which no call failed,
but for `FilesAreClosed`, and of a 304 but for the day that line 1895 loses.

The arguments, and why the invariants had to be stronger than the properties:

- *Frames.*  `FramesAreConsecutive` speaks of what has been formatted and says
  nothing of what the next reader will find.  `RingHoldsRecord` does: the slot
  of the newest sample (the one left behind while the writer has moved the
  index and not yet filled the slot) and the slot before it hold the end of the
  record, or are unset when the record is too short.  It alone would allow a
  reader between the two steps of the writer; `RingIsGuarded` excludes it,
  whoever is in the critical section owning `info_mutex`.  That the two samples
  are of different seconds needs the test made before the mutex to be still
  true when the sample is stored: `RingHoldsRecord` carries it from `append_lock`
  to `append_fill`, and it stays true because the data thread is the only writer.
- *Count.*  Each step that changes `active_thread_count` is matched with the
  set of live threads: the increment comes before the creation, hence the term
  for a main at `create`, and a failed creation moves that one to `lost`.
- *Connections.*  A descriptor passes from main's local to the thread's int and
  to the thread's local.  `ConnectionsAreTended` follows it: held by main or by
  one thread, never by two.
- *Exit.*  The drain ends only on a count that is not positive; with
  `CountIsLiveThreads` no thread is live and none was lost, and then with
  `ConnectionsAreTended` no connection is open.  That main joins the data thread
  first is the other half of `DrainIsComplete`.
- *Streams.*  `FramesInOrder` relates two frames of one connection, which may
  be many samples apart.  `StreamsFollowRecord` keeps the last frame sent at or
  before the one its thread has formatted; since a thread formats only the
  newest pair and the record only grows (`RecordGrows`), it never falls behind.
  A cut frame sets the flag, and its thread is then at the test that sees it.
- *Refinement.*  `DataAppendFill` is `Record`, `MainAccept` is `Open`,
  `ConnWrite` and `SigIntCutsWrite` are `Deliver`, `ConnClose` and `MainClose`
  are `Close`; every other step leaves `recorded`, `phase` and `stream` alone.

- *Client.*  `OneProvider` does not say which provider runs, so it would allow
  `onPause` to join another one; `MainIsJoined` says that whatever runs is the
  one `dataProviderMain` points at.  Its types need more than that each
  assignment fits: that the null byte found lies in the read is the existence
  of a least element (`LeastNatural`), and that the bytes written exist is
  `Fits`, whose failure is the exception.

- *Stream.*  `HistoryInOrder` says nothing of the frames that are still on their
  way.  `ProviderInv` is about `Rest`, the bytes of the buffer that are not
  handled and the bytes of the socket behind them: they are frames, each whole
  and none older than the one before (`IsStream`); they end with a null byte as
  long as the connection is not lost (`Ends`), so a new frame of the server
  never lands in the middle of another; and what is in `baos` is the beginning of
  the frame they go on with, unless it began in the middle of a read (`Begins`).
  Every action drops bytes at the head of `Rest` or adds a frame at its end, and
  `PieceOfStream` and `StreamGrows` say that this keeps a stream.  `HistoryInv`
  then puts what was added before what is to come; that only one provider has
  bytes before it is `MainIsJoined` again.  A packet that began at the head of
  a read ends, by `RunOfBytes`, at the first null byte with its last byte in
  place, so the parser finds the frame whatever follows.
- *Pool.*  `EverySocketOnce` counts a socket in the slots between `sq_tail` and
  `sq_head` and in the hands of threads; that it is kept needs that a producer has
  found room and a consumer a socket before they move an index (`HandsInv`),
  and that nobody else moves it in between, which is the mutex (`MutexInv`).
  `ContextOutlivesThreads` needs the count to be that of the living workers, with
  the terms for the one being created and the one being counted (`CountInv`).
  It claims nothing once a worker was born without memory, which counts itself
  down first.

- *Collectors.*  Every property is about all the lines at once, so the invariant
  is only what a line is: how many columns, a name of its own, levels that fit a
  byte.  The rest is about operators: a position in the columns is followed
  through `linux_2_4_stats` (`NetLoadOf`), the list of interfaces is an
  increasing choice of lines (`Lists`), and a sum over such a choice is no
  greater than the sum over all the lines (`SumsBelow`).  That the recursive
  functions exist, and what they are, is shown from the least number for which
  it would fail (`LeastNatural`, `EveryNatural`, `RecursionExists`).
- *Frames' numbers.*  A float is a multiple of a power of two near a number, and
  its exponent is the one power that fits (`ExponentExists`).  Two floats of one
  exponent, or of which one is at most twice the other, are subtracted exactly
  (`DifferenceFixes`), so only the two conversions are off, by half a spacing
  each; otherwise the difference is rounded a third time.  That is the quarter of
  a spacing in `Near`, which the greatest difference needs: with three bits, a
  counter that goes from 21 to 60 comes out as 48, which is 9 more than 39, and
  the spacing there is 8.
- *Connections.*  `RequestsAreMessages` says nothing of what is not yet read.
  `Placed` says where the socket stands at each step: at the end of what is
  buffered, or behind the part of the body that was taken from it.  With it
  `InOrder` can say which message of the script is at the head of the buffer:
  after a request that left nothing in the socket, the next one's.  That the
  bytes of later messages are not mistaken for this one's is `OffsetGrows`, a
  sum over the script, for which a least counterexample is taken
  (`LeastNatural`).  `Given` follows a body across the two loops that read it,
  first from the buffer and then from the socket.  `Told` keeps what was said in
  a header true until the connection is kept or closed.
- *Programs.*  `NothingLeftBehind` is about idle workers.  `EndsAreNamed` says
  of every worker, at any time, that its open ends are those its variables name,
  and `StepsHaveEnds` which it must have at each step; so what an error path
  closes was open, and nothing else is.  The ends that other children keep are no
  matter of the server's.
- *Files.*  A worker's knowledge of the file is good as long as nobody changes
  it, and whoever does excuses all the others, as a call that fails excuses its
  own request; so a step of one worker keeps the
  invariants of the others (`Undisturbed`).  `Sends` follows a file from stat to
  the last mark, `Stores` a body from the first mark to the last (`Written`).
  304 needs more, for a copy outlives all of it: `CopyIsGood` says that a copy
  from a later second than its file is what the file holds, or is older than
  what it holds, since every change sets a time that is not before now.  A date that is read
  a day late makes the comparison of 3062 true of later files, but only of those
  of that day (`InLostDay`).

- *Environment.*  `BlockIsContiguous` reads the block from where a variable's
  pointer stands up to the next end.  That it then finds what was added needs to
  know of every place before `len` (`EnvBlock`): each string stands behind the
  one before, whole, with its end, and no end inside; what is formatted later
  begins at `len` and leaves them alone (`StandsStill`).  The capitals are made
  in the block, after the string was added, and reach its "=" or its end,
  not further (`CapitalsStand`).  `EnvRoom` keeps three bytes and two pointers
  free, which is what `Finish` takes without a test.
- *Start.*  A failure undoes what was done up to it, so the invariant says at
  each step what there is: before the sockets only memory (`StartEarly`), from
  them on the sockets of the specifications already read, in their order
  (`StartLate`, `SocketsAreListed`), and the same of what a step that fails
  leaves to `free_context` (`StartFailed`).  `LastMatchDecides` is about a list
  of any length: the verdict after n entries is that of the last of them that
  matches (`LastMatch`, `AclDecides`), and an address matches an entry if they
  agree when both are divided by the block's size (`SameBlock`).
- *Passwords.*  `OldOrNew` is about a call that ended or was stopped.  `Copying`
  says of the copy, at every line, that it has the lines of the other users up
  to there in their order, and the changed record where the old one was
  (`CopyingMore`); then nothing is asked of the copy but that it is closed before
  the old file is removed (`CallStages`), and that until then the file is what it
  was (`Kept`).  All of that is said of a call to which nothing has been lost
  (`Sound`): once something is short it stays so to the end of the call.
- *Directories.*  What the code holds for the size of its array is its size, or
  there is no array and the next entry makes a larger one (`DirRoom`): the size
  is doubled before memory is asked for, whether it is given or not.  An entry is
  of a name that was read, and each name once (`DirNames`); a sort is a
  one-to-one choice of the entries, so none is lost or printed twice.  As many
  names are allocated as there are entries, until memory ends (`DirStrings`).  The
  comparison is an order for every pair of columns and directions because
  directories and files are told apart before either is looked at (`DirKey`).
- *Log.*  A line that is in several pieces in the log was longer than the
  stream's buffer.  `LineIsCounted` adds up what is in the log, in the buffer and
  not yet printed; it gives the buffer's worth of a line that is flushed once,
  whose pieces `LineInOnePiece` then finds side by side, since appending is one
  step (`LogWrites`).
- *Limited writes.*  `RateAtMostDouble` is about what a second has seen, which
  the code does not store.  `SecondIsCounted` bounds it by what it stores:
  `last_throttle_bytes`, and a second's worth more while the worker sleeps, when
  the piece it has just pushed is not yet added.  `PieceIsLeft` says that this
  piece is no longer than the limit and than what is left to write.  A short send
  ends the write, and with it what can be said of its second.  That a
  write gives up only for a reason (`WritesInFull`) needs `OneLimitHolds`: as
  long as all requests have one limit, what is left of a second is not negative.
- *Websockets.*  Nothing in `PayloadsInOrder` says where the next frame is.
  `NextInBuffer` does: between two frames the buffer begins at the end of the
  frames that were told, as long as every payload that was told was read in full.
  `TellsFrames` says the same of their places and sizes, up to the first that was
  not.  From there on the bytes are taken for headers they are not, and what is
  left is that no byte is given twice and that nothing follows a frame that
  closes (`TellsOnce`), which hold whatever the headers say.
- *Uploads.*  `AllPartsCount` is about the end of an upload, at whatever place
  its buffer is then.  `UploadAt(p)` says at each step that the buffer and what is
  still to be read are the body behind its first p characters (`Behind`), and
  what is known of those: which header was the first, that the file has what is
  between it and p, and that no boundary was passed over (`InPart`).  The last is
  where `Kept` matters: a boundary may begin among the last characters that were
  scanned, and they stay.  It is said of an upload of which no read has failed;
  and of its file, if no write has (`UploadInv`, `InPart`): what a short write
  leaves out is not looked for.
- *Includes.*  `TagsAreReplaced` compares what was sent with a definition that
  works from the innermost file out, by levels (`Expanded`), while the code works
  from the outermost in and sends as it goes.  `SentSoFar` joins them: what was
  sent and what is still owed is the whole.  A file owes what the rest of its
  text stands for, from the beginning of what may be a tag on (`Owed`); the
  innermost open file owes first, and what the file that named it still has comes
  behind (`Owes`).  A step sends a piece off the front of what is owed
  (`OwedAfter`), or names a file and owes what that file stands for
  (`NamedAfter`).  Nothing is claimed of a tag that does not fit the buffer.
- *Redirects.*  The code looks for the slash at `uri[uri_len - 1]` of the cleaned
  URI, where `uri_len` is the length before it was decoded.  `LinksResolve` needs
  that a slash found there is the last byte the client sent (`LastIsSlash`): both
  functions work in place and change nothing unless they shorten the text
  (`DecodedShrinks`, `CleanedShrinks`), so what stands there is that byte, or the
  null byte that ends a shorter text.  `Decoded` and `RemoveDoubleDots` are
  recursive functions of the place; what is said of the text from each place on
  is shown from its end backwards (`EveryBackward`).
- *Handlers and streams.*  The parts share no step: a step keeps `what`, and the
  invariant of the part it names.  The instances of `MgFiles` in `MCHandlers` and
  in its module of proofs are the same (`SentIsFiles` and the like), so that
  what is proved there is used here.

Model-checked only: the liveness properties (fairness and `ENABLED` are out of
the prover's reach); the texts, dates and digests of `texts`, whose properties
quantify over all texts up to a length and are stated with recursive operators,
which the prover cannot use; and the two violations.  Every other safety property
of a passing run is proved.

## 6. What is left

- Proofs: the texts, once their recursive operators are functions.
- The client composed with `SampleFeed`: what is drawn is a suffix of what was
  recorded, as far as no packet is carried.

Not modelled, and why:

- the text of a frame, of answers and of messages: no property is about it;
- the graphs and layout of the client; the glibtop test program, which prints
  each collector once;
- mongoose's authentication (`authorize`, `parse_auth_header`, `check_password`)
  compares digests of strings: whether a user may is one of `MgDispatch`'s
  verdicts, tried both ways;
- the transforms of SHA-1 and MD5: arithmetic on words too wide to enumerate;
- PROPFIND prints what `MgDirectory` reads; `mg_connect` and `mg_download` are a
  client that nothing calls; OpenSSL and the Windows layer are other builds
  (`MgStart` has the steps of `mg_start` that SSL adds);
- in the password file, a line that is longer than the buffer of 512, which `fgets`
  gives in pieces, and a record that becomes another user's when it is cut;
- the failures of `malloc` and of `pthread_create` of the data thread in `jtop.c`,
  and in mongoose those of `opendir` and `mg_strdup` and of the `malloc`s of texts:
  the code goes on with a null pointer, and nothing can be claimed of what follows;
- what several uploads do to one file, and files in memory but for `MgSsi`'s:
  section 4 has their rows;
- an access list that is empty and not absent (4458), which denies everyone: the
  lists of `MgStart` have entries, and `<<>>` stands for an absent one.
