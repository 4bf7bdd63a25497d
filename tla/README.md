# basic-cli: specifications, model checking and proofs

`basic-cli` is a platform for the Roc language. A Roc program is compiled, linked with a host
written in Rust, and runs as one process: the host owns `main`, gives the program memory and
effects, and turns its result into an exit status. This directory holds TLA+ models of the host,
the TLC configurations that check them and the proofs of what holds for every instance.

## 1. The system

### 1.1 Two hosts in one repository

* The **live host** is `src/lib.rs` with the workspace crates `roc_command`, `roc_io_error` and
  `roc_random`, and the Roc modules in `platform/`. The program calls 27 hosted functions through
  a table (`HOSTED_FNS`) and six callbacks in `RocOps`.
* The **legacy crates** (`roc_host`, `roc_file`, `roc_http`, `roc_sqlite`, `roc_stdio`,
  `roc_env`, and the wrappers `roc_host_lib`, `roc_host_bin`) are the parts that wait to be
  ported: buffered file readers, TCP, HTTP, SQLite, terminal. They are not workspace members, but
  they are where the stateful code of the platform is, and what is modelled here is what a port
  must keep.

### 1.2 Components

| component | state | operations | interacts with | what is hard | what makes it correct |
|---|---|---|---|---|---|
| Allocator callbacks (`src/lib.rs` 43-159) | libc's heap, a header per object | `roc_alloc_fn`, `roc_dealloc_fn`, `roc_realloc_fn` | every value the program holds | nothing is looked up: the chunk is found by arithmetic, over any history; overflow | objects are private byte strings; each pointer leads back to exactly its chunk |
| Life cycle and output (`src/lib.rs` 162-192, 821-906, 963-1029; `main.roc`) | `DEBUG_OR_EXPECT_CALLED`, stdout's `LineWriter` | `rust_main`, dbg/expect/crash callbacks, Stdout, Stderr | child processes share the terminal | output order without the Rust runtime's exit hooks; failing writes; exit codes | output in program order whatever ends the process; status 0 means clean |
| Files, directories, paths (`src/lib.rs` 325-456, 513-752) | the file system | 5 Dir, 5 File, 3 Path functions | other processes | one call is many system calls | only what was asked for is removed; Ok means done; errors mean what happened |
| I/O error tags (`roc_io_error`) | none | `from_io_error` | three `IOErr` unions in `platform/` | byte numbering agreed across two languages | the tag matched is the error that occurred |
| Commands (`roc_command`, `Cmd.roc`) | a `Cmd` record, a child, two pipes | builder, `exec!`, `exec_cmd!`, `exec_exit_code!`, `exec_output!` | the child process | two bounded pipes drained while the child writes; signals | the child gets what was built; no deadlock; complete capture |
| Readers (`roc_file` 100-163, `roc_http` 267-314, `roc_stdio`, `src/lib.rs` 855-872) | a `BufReader` per stream | read line / until / exactly / up to / to end | the sender | chunk boundaries, bytes buffered across calls, EINTR, EOF | as if nothing were buffered |
| SQLite (`roc_sqlite`) | a connection list per thread, a statement heap, native statements per thread | prepare, bind, step, reset, columns, column_value, drop | sqlite, the handle heap | lazy preparation on other threads, finalizing from one thread, partial bind | statements owned exactly; bindings are those of the last bind |
| HTTP (`roc_http` 92-193, `roc_host` 16-21, 612-710) | one tokio runtime per thread | `send_request` | hyper, the network | timeouts against late answers, tasks left behind | answers go to the request that asked, framed ones whole; a timeout replaces no answer that was there in time; bounded waiting |
| Handles (`roc_host` 49-68, `heap()` and `alloc_for` in three crates) | three heaps of reference-counted boxes beside libc's | open, share, use, drop; `roc_dealloc` routing by address | Roc's reference counts | the address is all the host is told; heaps at their limit; reused slots | an address leads to its owner; a resource is open exactly while a value of it is left |
| TCP connect and write (`roc_http` 251-265, 316-324) | the connections in the heap | `tcp_connect`, `tcp_write` | the peer, the kernel's send buffer | a write is any number of system calls; the peer stalls or goes | the peer gets the messages in order and whole; only a stalled peer holds a write |
| Metadata, rename, links (`roc_file` 46-63, 172-388, 418-423) | the file system | sizes, times, permission bits, `file_rename`, `hard_link`, `dir_list` | other processes | one file under several names, names that change during a write | as for files |
| Legacy life cycle and output (`roc_host` 27-146, 371-476, `roc_stdio`, `roc_host_lib`, `roc_host_bin`) | stdout's `LineWriter`, raw mode | stdout and stderr with errors, dbg, expect, crash, `tty_mode_*` | child processes | an error half way leaves text in a buffer the next call shares | Ok means the text is shown |
| Env, Random, Sleep, Utc, locale | none in the host | one system call each | | | see section 7 |

`PROJECT.json` lists every component with its status and, under `hazards`, the places in the code
that are hard to test, each with the properties that cover it.

## 2. Modules

```
RocHeap    <--implements--  RocAllocator                          RocAllocatorProofs
ByteStream <--implements--  BufferedReader                        BufferedReaderProofs
Resources  <--implements--  Handles <-- Tcp (with connections)    TcpProofs
Host   <-- LegacyHost (both hosts on the same streams)            HostProofs
IOErr  <-- FileSystem                                             FileSystemProofs
IOErr  <-- Cmd                                                    CmdProofs
Sqlite                                                            SqliteProofs
Http                                                              HttpProofs
MC<module>: the instance TLC checks
```

Definitions keep the source's names: `roc_alloc_fn` is `roc_alloc_fn`, `get_connection` is
`GetConnection` (a capital where the operator yields possible outcomes and not an action).
`PROJECT.json` maps each definition to its lines. Operators named for a defect
(`TotalSizeWrapping`, `DescendFollowing`, ...) stand before the definition they would replace.
They are not used by the specifications: they are mistakes one could plausibly make there, and
for every property there is one that TLC shows to violate it.

**RocAllocator.** `mem` is memory byte by byte, `chunk` is libc's table of chunks, `obj` what the
Roc program knows of each object. `SizeStorage` and `TotalSize` are the header computation with a
`usize` of a given width and saturating addition; libc's `malloc` and `realloc` may answer with
any place its contract allows, or null. `RocStore` is the program writing its own object.
**RocHeap** says what the program relies on: private byte strings.

**Host.** One run of a program. `buf` is what stdout's `LineWriter` holds back, `screen` what
reached the terminal. Characters carry the call and position they come from, so order, loss and
duplication show. `LineWrite`, `FlushBuf` and `RawWrite` give the possible outcomes of std's
write functions, an error after any number of characters included. Panics abort.
**LegacyHost** adds the host of `crates/` on the same streams: prints that answer with their error
(`told` records the ones answered with Ok), expects that end the program, raw mode, and the two
entry points, one of which flushes at the end. `HostsSpec` is a run on any of the three.

**FileSystem.** `fs` maps paths to nodes; a regular file's node is the number of an inode, and `disk` has
the inodes: data, permission bits, time. A file has as many names as hard links gave it and lives while it
has one or is being written (`Becomes`). A call of one system call is one action (`Single`); `fs::write`,
`create_dir_all`, `remove_dir_all` and the legacy `dir_list` keep a frame in `op` and take one action per
system call, with another process in between (`Other`, `OtherRenames`, `OtherLinks`): it creates, removes,
renames and links files, also the one being written, and makes and removes links and directories. Any system
call of the program may be refused; two that std makes in a row count as one step (`lstat` and `openat` of
the directory `delete_all!` is given; `openat` and then `unlinkat` of an entry that is no directory any
more). The look `create_dir_all` takes at what is there after a failed `mkdir` can be refused, too, and then
it answers with the error of the `mkdir` (`CreateAllCheck`). The type of an entry is the one it had when its
directory was listed. The program starts in any of the trees `Start`.

`file_rename`, `hard_link` and the metadata calls exist in the legacy host only; the functions
both hosts have make the same std calls and are modelled once.
**IOErr** is the trip of an error kind through the tag byte into a Roc union.

**Cmd.** The builder actions change `cmd` and log themselves in `built`; `Spawn` evaluates
`ToStdEnv`; the child writes into pipes of size `PipeSize`, exits or is killed while the host
polls both pipes.

**Handles.** `at` and `count` are what lives at each address and the reference count kept with it;
`held` is the Roc program's side: the address it has for each thing and how many values of it.
`DropValue` of the last value hands the address to `roc_dealloc`, which asks the three heaps in turn.
**Resources** knows neither addresses nor limits. **Tcp** extends Handles: a connection is a handle of the
tcp heap, `op` is the `tcp_write` in progress (the program is sequential, so handles change hands between
calls only), `wire` what the kernel holds for the peer, `got` what the peer has read.

**BufferedReader.** `incoming` is what the operating system holds, `buf` the unconsumed part of
the `BufReader`, `op.acc` what the call has collected. One action is one round of the call's
loop: `fill_buf`, which may deliver any part of what arrived, then `consume`. **ByteStream** is
the stream with no buffers, whose calls take their bytes in one go. `stdin_bytes` is the odd one: a single
read, past the buffer when that is empty. `waits` tells pipes and sockets, where a read at the end blocks
until there is more or the sender is done, from files and terminals, where it gives 0 bytes though more may
follow: a file that is still appended to, an end of input typed at a terminal. TCP calls have the first kind.

**Sqlite.** `conns` is the thread-local list, `stmts` the statement heap, `native` what sqlite
has allocated. Each call first runs `ThreadLocalPrepare`, as in the code. Threads take turns call
by call: a thread only touches its own native statement and list, and two threads preparing on one
handle touch different slots of the `ThreadLocal`.

**Http.** `task[r]` is the connection task of request r, `answer[r]` what it handed to the call
waiting for it. Tasks move only while some call blocks in the runtime (`Driven`). `meant[r]` is what the server
has in mind: a status and a body that is framed (a length or HTTP chunks) or ends with the connection. When a
connection ends early, hyper knows for a framed body only (`BodyEnd`). The timer of a limit fires some time
after it is due (`fired`), and `block_on` is the poll of `tokio::time::timeout`: the response first, the timer
only without one. `inTime` records which answers had ended while there was time left.

## 3. Runs

Sizes are of the passing runs, complete state spaces.

| run | what is checked | instance | distinct states |
|---|---|---|---|
| `allocator` | `TypeOK`, `ChunksOwned`, `MetadataFaithful`, `PointersAligned`, `ImplementsRocHeap` | three objects (symmetric), 23 bytes, 2-byte words, 5-bit `usize`, malloc aligned to 4, alignments 1, 4, 8, lengths 0, 3, 6, 30 | 3,096 |
| `host` | `HostsTypeOK`, `OutputInProgramOrder`, `NoDuplicateNoOvertake`, `LiveZeroMeansClean`, `OkMeansShown` | the three hosts, three calls, strings with no, one trailing and one inner newline | 2,382,440 |
| `filesystem` | `TypeOK`, `ErrorsMeanWhatHappened`, `OkWriteIsComplete`, `RemovesOnlyBelow`, `WritesStayInTheirFile`, `OkMeansDone`, `CreateAllToleratesRace` | one call from any of 114 trees of a directory with room for two entries and a link target outside, two changes by the other process during it | 332,862 |
| `cmd` | `TypeOK`, `ChildAsBuilt`, `OutcomeFaithful`, `CaptureComplete`, `ExecReturns` | up to three builder calls, two variables, pipes of size 1, children printing up to four times | 404,600 |
| `reader` | `TypeOK`, `ImplementsByteStream`, `LinesAreWhole`, `CallsEndAtEof` | pipes and sockets, files and terminals; a buffer of 2, four bytes of three kinds, two calls, one signal, `stdin_bytes` of up to 3 | 534,944 |
| `sqlite` | `TypeOK`, `StatementsOwned`, `ConnectionsReused`, `BindingsTakeEffect`, `PanicOnlyOnFirstUse` | two threads, two handles, two databases, six calls | 643,365 |
| `http` | `TypeOK`, `ServerAnswerIsWhole`, `TimeoutDropsNoAnswer`, `LimitedRequestsReturn` | two requests, limit none or 1, bodies of up to two of two pieces, framed or not, two units of time | 646,549 |
| `tcp` | `TypeOK`, `AddressesFindTheirOwner`, `PeerReceivesInOrder`, `ImplementsResources`, `WritesOnlyWaitForRoom` | a tcp heap of 2 places, the others of 1, three allocations, two values each, two messages of 3 bytes through a send buffer of 2 | 624,066 |
| `host_status` | `DebugExitsNonZero` is violated | one call, exit codes 0 and 256 | |
| `dir_tags` | `DirErrorsMeanWhatHappened` is violated | as `filesystem` | |
| `path_links` | `IsDirFollowsLinks` is violated | as `filesystem` | |
| `file_utf8` | `ReadUtf8Replaces` is violated | as `filesystem` | |

Why the bounds suffice for the cases the properties are about:

* *allocator*: headers of one, two and four words occur (alignments 1, 4 and 8 with 2-byte words), so the
  size word lies first, second and apart from the alignment word; length 30 overflows a 5-bit sum; 23 bytes
  make `realloc` move objects and `malloc` fail. Alignment 8 exceeds malloc's 4: the ownership properties
  must hold there as well.
* *host*: a write that fails part of the way, a second call that flushes what it left, and a third on either
  stream.
* *filesystem*: a directory below the one being removed is listed as a directory, removed by the other
  process, and replaced by a link to a directory outside that was there from the start (two changes):
  following it would empty that directory. One call is enough because it starts in any tree, those that
  earlier calls leave included. A parent is removed between the two `mkdir` of `create_all!`; a file is
  longer than what is written over it; a file is removed, replaced by renaming another onto it, renamed or
  given a second name between the pieces of a write.
* *cmd*: three prints to stderr with pipes of size 1 block any host that reads stdout first; three builder
  calls put `clear_envs` before, between and after two `env` calls.
* *reader*: lines longer and shorter than the buffer, a call that leaves bytes for the next one of any kind,
  a stream that ends before, at and inside a line, a file that grows between a read of 0 bytes and the next
  call.
* *sqlite*: a list that binds a parameter twice; a handle prepared on one thread, used on the other, dropped
  by either, and its slot given to a new statement, with both heap slots taken.
* *tcp*: every heap can be full (the third allocation finds two places taken, a second file finds one), and
  a freed slot is reused by a later allocation; a message is longer than the send buffer, so no write goes
  through in one system call when the peer is slow; the two writes go to one connection or two.
* *http*: a first request that times out and whose task still runs during the second; a limit of 1 and a
  clock up to 2, so that an answer ends before, at and after the limit, and is polled after it with the
  timer fired or not; bodies cut after none or one of their pieces.

`CHECK_DEADLOCK FALSE` is set everywhere because every model really stops: the process exits, or
the bound on calls is reached.

### Findings

Each violating run is a disagreement between the code and a sentence in the repository:

1. `host_status`: "If set, program exits with non-zero code to prevent accidental commits."
   (`src/lib.rs:35`). Only an exit code of 0 is replaced; `Err(Exit(256))` after a `dbg` gives
   status 0.
2. `dir_tags`: "IOErr representation matching the Roc tag union." (`roc_io_error/src/lib.rs:51`).
   `Dir.IOErr` has six tags, two of which the host never produces, and the host's bytes are
   numbered for the eight of the other modules; `PermissionDenied` arrives as a byte `Dir` has no
   tag for.
3. `path_links`: "This function will traverse symbolic links to query information about the
   destination file." (`Path.roc:30-31, 36-37`). The host uses `symlink_metadata`.
4. `file_utf8`: "If the file contains invalid UTF-8, the invalid parts will be replaced"
   (`File.roc:36`). `fs::read_to_string` fails instead.

## 4. Fairness

* *Cmd*: the child is scheduled and its output is finite (`WF` of `ChildWrites`, `ChildExits`), and the
  host's poll loop runs. Nothing makes a signal arrive.
* *BufferedReader*: only the rounds of the host's own loops. The sender need not send or close, and neither
  an interruption nor an error is assumed to come to a loop's help, so `CallsEndAtEof` is about the loops'
  exit tests. A round is only promised when there are bytes for it or none can come (`Answerable`): a read
  of a pipe that is neither closed nor has data blocks, as it should, and nobody need type an end of input.
* *Tcp*: only the host's own `write_all` goes on (`WF` of `WriteSome`, `WriteFails`, `WriteReturns`). The
  peer need not read or close. A signal may interrupt for ever; weak fairness of `WriteSome` says that a
  system call with room in the buffer gets through in the end.
* *Http*: time passes, a timer that is due fires, and `block_on` polls what it was woken for: what tokio's
  runtime does. The network owes nothing: `LimitedRequestsReturn` holds for a server that never answers. How
  late a timer fires and a poll comes is not bounded, only finite.

The other specifications are about safety only.

## 5. Proofs

Every safety property of the passing runs, and the three refinements, is also a theorem: it holds for
every value of the constants that the assumptions allow, not only for the instance of the run. The
assumptions are named in the modules that declare the constants, and TLC evaluates them on every run.
Each `...Proofs` module proves one inductive invariant (`Init => Inv`, one lemma per action that it keeps
it, and the temporal step) and takes the properties from it. What follows says for each which parts
the invariant has beside the properties, since none of the properties is inductive alone.

### RocAllocatorProofs

From `SizesAssumption` and `AlignmentsAssumption` (what rounds up to a power of two does not overflow;
Rust's `next_power_of_two` would wrap or panic there): `AllocatorTypeCorrect`, `AllocatorChunksOwned`,
`AllocatorMetadataFaithful`. That deallocation frees the right chunk needs the chunk's size to be header
plus length (`ChunksOwned`). That the header survives the program's stores and the other objects' moves
needs chunks not to overlap (`ChunksDisjoint`, libc's contract). The header computation is only
repeatable because Roc passes the alignment it allocated with (`LiveAlign`). `Inv` is the conjunction of
the five; the lemmas about the header are `Layout`, `HeaderWritten` and `HeaderFrame`.

`AllocatorPointersAligned` needs `LayoutsAssumption` as well (alignments are powers of two, of which the
smaller divides the larger): the header of an object is a multiple of its alignment, so a pointer is as
aligned as malloc's answer. `AllocatorImplementsRocHeap` maps each action to an operation of `RocHeap`;
the invariant supplies that the bytes a callback touches belong to no other object.

### TcpProofs

From `HandlesAssumption` (limits above zero) and `TcpAssumption`.

* Handles: `HandlesFindTheirOwner` and the refinement `HandlesImplementResources`. `HInv` adds to
  `AddressesFindTheirOwner` that the number of the next allocation is unused (`FreshIdsUnused`) and that a
  resource has an address exactly while it has values (`NoStaleAddress`): otherwise a slot given away again
  could still be somebody's. `DeallocFindsPlace` is the heart: an address is in one of the four heaps, so
  the three questions of `roc_dealloc` and its fall-back free that very place. The rest of a write and the
  peers leave the handles alone (`TcpStep`).
* Peers: `PeersReceiveInOrder` and `TcpTypeCorrect`. What a peer has read and what the kernel still holds
  are considered together (`Sent`): they are whole messages in the order of the calls (`Messages`), they
  end with the byte the call in progress has got to (`EndsAt`) or, when none is half way, with the last
  byte of a message answered Ok (`EndsWhole`), and the call in progress is the last of the log
  (`LastRuns`). After the peer is gone only the order is claimed.

### BufferedReaderProofs

From `ReaderAssumption`: the refinement `ReaderImplementsByteStream`, the action property
`ReaderLinesAreWhole` and `ReaderTypeCorrect`. The mapping is concatenation: what the call has collected,
then the buffer, then what arrived, is the stream of `ByteStream`; a round of a loop moves bytes between the
three and is a stutter, and the return of a call takes its bytes from the front. The invariant has the part
that makes the last round of `read_until` right: nothing collected so far holds the delimiter (`CallFits`).
`ReaderLinesAreWhole` says of a line without its delimiter that nothing more had arrived; that the stream is
over is claimed for connections and pipes only, as a file may grow and a terminal go on.

### HostProofs

From `HostAssumption` and `HostsAssumption`, about `HostsSpec`, a run on any of the three hosts:
`NothingWaitsInABuffer`, `StreamsKeepTheirOrder`, `ZeroOnlyForCleanRuns`, `AnsweredOkIsShown`,
`HostsTypesCorrect`. The invariant relates screen, buffer and program (`StreamsAre`): screen followed by
buffer is in program order per stream, every character is one the program printed, and without a failure
nothing is held back. The work is in the outcomes of std's writes: each leaves what was held followed by a
beginning of the text, in full when it answers Ok (`KeepsStart`), and an Ok holds nothing back
(`Printouts`), which is why an answered print is on the screen and stays there.

### FileSystemProofs

From `FileSystemAssumption` (finitely many paths, each with its parent): `FileWritesAreComplete`,
`FileErrorsAreHonest`, `FileSystemTypeCorrect`, and of the steps `RemovalsStayBelow`,
`WritesKeepToTheirFile`, `OkIsHonest`, `CreateAllSharesDirectories`. The invariant: the node table is a
tree (`Trees`); there is a file behind an inode exactly when a path names it or a write has it open
(`FilesFit`); a frame in `op` lists only system calls that belong to its path (`Stacks`), which is what keeps
`remove_dir_all` below its directory whatever the other process puts in its way; a write that is half way
has written just the beginning of its text (`WriteFits`); the byte of a result belongs to its error. The
other process's renames and links keep the tree and the files (`Trees`, `FilesFit`), so the theorems about
writes hold while the file being written changes its names. `OkIsHonest` is about `Dir.create_all!` and
`Dir.delete_all!`, the two calls on directories that take several steps. `CreateAllSharesDirectories` has one
exception: the look that would tell another process's directory from a file was refused.

### CmdProofs

From `CmdAssumption`: `ChildrenAreAsBuilt`, `OutcomesAreFaithful`, `CapturesAreComplete`, `CmdTypeCorrect`.
The invariant follows the history of builder calls: the record's arguments are those of the calls place by
place (`ArgsFit`), the flat list of variables is a list of pairs whose last one for a name is the last one
given (`EnvsFit`). What `to_std_command` makes of that list (`SetAll` of its `Chunks`) then gives the child
what was asked for. Of the pipes it says that what was read followed by what is in the pipe is what was
printed, in order, and that a stream is closed only when child and pipe are done (`PipesFit`): so what
`exec_output!` returns is complete however the two sides interleave. `OutcomesAreFaithful` covers a process
that could not be started as well (`OutcomeFits`): its error is never the one of a child killed by a signal.

### SqliteProofs

From `SqliteAssumption`: `SqliteStatementsOwned`, `SqliteConnectionsReused`, `SqliteBindingsTakeEffect`,
`SqlitePanicsOnlyOnFirstUse`, `SqliteTypeCorrect`. The invariant is their conjunction with
`UnusedMeansUnbound`: a thread that has not prepared a handle has bound nothing to it, so the fresh statement
of a lazy preparation is what the last bind left.

### HttpProofs

From `HttpAssumption`: `HttpAnswersAreWhole`, `HttpTimeoutsDropNoAnswer`, `HttpTypeCorrect`. The invariant
adds that a request which has not begun has no task (`NothingFromTheFuture`), that a task in the middle of a
body has handed over the status and a front of what was meant for its own request (`Underway`, with
`PrefixIs` and `PrefixGrows` about fronts), that only a task that is over has ended its answer, and said
"complete" of a framed body only when that was all of it (`EndedIsOver`), and that a timer fires only when
it is due and an answer that came in time stays there (`TimeoutStands`). That the response is polled before
the timer then makes the timeout drop none.

### What the proofs showed about the models

* The bound of `file_rename` has to cover the names below a directory that moves (`Moved`): checking only
  the new name itself let a rename leave the table, and the table was then no tree.
* `Reach` looked at the parent of a path only. For a name two levels below a file it said "not found" where
  the kernel says "not a directory"; the instance TLC checks has two levels and cannot show it, the
  theorems are about trees of any depth (`Blocked`).
* `CreateAllToleratesRace` needs no assumption about what the other process removes in between, only that the
  look after the failed `mkdir` was not refused: the error and the look are about the same directory.
* In `Cmd` the environment was a fold over the pairs and the captured output a filter; both are induction over
  data. `SetAll` now says directly that the last pair of a name wins, `Flat` gives the list by
  index, and the properties speak of places in the history. They say the same.

### Only model-checked

* The liveness properties `ExecReturns`, `CallsEndAtEof`, `LimitedRequestsReturn` and
  `WritesOnlyWaitForRoom`: fairness and `ENABLED` are out of the prover's reach.
* That a recursive definition computes the same as another, for every input. Where a model needs that, it is
  written without recursion.
* The four violated sentences of the repository (section 3): a counterexample needs no proof.

## 6. Abstractions

* *Allocator*: Roc passes the same alignment to all three callbacks for one object, as its compiler does.
  Messages printed before an exit are left out.
* *Host*: the capacity of the `LineWriter` (1024 bytes) is ignored: a longer text reaches the terminal
  earlier, never later. A stdout that was closed before the program started, for which std answers Ok to
  every write, is left out. What the legacy Roc side did with the value of `main!` is not in the repository:
  any exit code may arrive. `roc_panic` and `roc_expect_failed` print several lines in one write. dbg and
  expect texts are one opaque string. `Exit` codes are unbounded integers in TLC; only their sign, zero and
  low byte matter. A child's output is one write.
* *FileSystem*: links point at paths that are not links, and paths do not lead through one; the other
  process replaces files instead of writing into them, and moves no directory; `remove_dir_all` works on
  open directories where the model has paths, which differ only after the other process removed one of them
  and made another of its name; a directory is listed when it is opened; ownership and special files are
  absent; file times tell files of the program from foreign ones and times before 1970 from later ones;
  sizes, bits and times are asked of files only (a directory has them too, with numbers of the kernel).
  "Permission denied" stands for every refusal that does not depend on the tree. `Dir.list!` may omit any
  entry, as it does for one it cannot read.
* *Cmd*: texts are opaque, so the replacement of invalid UTF-8 in captured output is not modelled, nor is a
  NUL byte in an argument (an error of `spawn` as any other). Characters of a stream are numbered by print
  order. std's `Command::env` is modelled by what a sequence of calls amounts to: the last value given for a
  name.
* *BufferedReader*: one byte is one character; `\r\n` is not stripped by `lines()`; std's shortcut of
  reading past an empty buffer, and its probing small reads, are covered by reads delivering any part, with
  pieces up to the capacity. The stream belongs to one caller. What a file gives at its end and what is
  appended later are told apart by `waits` alone: files are not truncated or written before the place of the
  reader.
* *Handles*: `roc_std_heap` is a library: a box is found by its address range, a full heap refuses and drops
  what it was given, `box_to_resource` borrows. Creating a heap succeeds, with a limit above zero. Threads
  do not race for slots.
* *Tcp*: error texts (`to_tcp_connect_err`, `to_tcp_stream_err`) are left out. What a reset connection
  delivers of earlier messages is up to the network: only an order is promised then.
* *Sqlite*: every query has the parameters `Params` and returns them as columns, so that what is bound shows
  in a row. A failed open leaves no connection in the list (the object sqlite leaks is not modelled),
  threads do not end, and values are opaque.
* *Http*: headers and the default `Content-Type` are left out; methods, URIs and headers are accepted or
  refused. Loading root certificates is instantaneous. How a connection is lost (a reset, an end without a
  TLS close) is a choice between an error and an end. An answer once begun is not changed by the server.
  Each request has its own client and so its own connection.
* Concurrency: a Roc program is sequential; what runs beside it is a child, another process, the sender, the
  network, or, in *Sqlite*, other threads as the crate's design allows.

## 7. Not modelled

`Env`, `Random`, `Sleep`, the architecture and the locale are one library call each without state in the
host. `Env.var!` and `Env.cwd!` read state of the process that the live host never changes; the legacy
`set_cwd` changes it for every relative path, and all paths of the models are absolute. Of `Utc` only the
panic before 1970 is in `Host` and `LegacyHost`. The memory layout of `RocTry` and the tag wrappers is fixed
at compile time. The legacy `roc_alloc` and `roc_realloc` are plain libc calls: `roc_alloc` is in `Handles`,
`roc_realloc` is not, since boxes are never resized. Build scripts, CI and examples are outside the program;
the expect scripts and examples were read for what the platform is expected to do.

Known and not covered by a property: `Env.var!` answers with the empty string for a value that is not valid
Unicode (`src/lib.rs:504`), where `Env.roc:4-5` promises replacement; `tcp_read_exactly` reserves its whole
count first, so a large one aborts (`roc_http/src/lib.rs:289`); a failed `sqlite3_open_v2` leaves a
connection object nobody closes (`roc_sqlite/src/lib.rs:75`); a failing expect in raw mode leaves the
terminal raw (`roc_host/src/lib.rs:146`); a body without a length that is cut by a lost connection comes
back as a complete answer with its status (`roc_host/src/lib.rs:676-687`, visible in `Http`, where
`ServerAnswerIsWhole` claims completeness for framed bodies only). No sentence of the repository promises
otherwise of the last four. `Dir.list!` leaves out entries it cannot read and answers Ok (`src/lib.rs:436`),
where `Dir.roc:45-46` says "Returns the paths of all files and directories within the specified directory":
`hosted_dir_list` in `FileSystem` may return any subset, and the divergence, which takes no interleaving to
see, has no run of its own. A `dbg`, expect or crash whose message cannot be written aborts the process
(`src/lib.rs:168`), and preparing a statement again on another thread panics when it fails
(`roc_sqlite/src/lib.rs:146`): both are actions of the models, and nothing says what should happen instead.

## 8. Plan

Done, in this order: allocator with its proof, life cycle and output, files, commands, readers, SQLite,
HTTP; then handles, TCP writing, inodes with rename, links and metadata, `stdin_bytes`, the legacy
life cycle.

Done since: the inductive invariants and all safety properties of every module, and the three
refinements, as theorems (section 5).

Left, most important first:

* measures for the loops whose end is only model-checked: that each round of `read_until`, `write_all` and
  of the poll loop brings the call nearer to its end is an action property and within the prover's
  reach, while the liveness it stands for is not;
* an abstract specification of the file functions in which a call is one step, and the proof that
  `FileSystem` without an interfering process implements it;
* the same for `Cmd`: running a command as one step that yields what the child printed and how it ended.
