# A verification project for NEU CS5600: Computer Systems

The repository holds the lab code of a systems course: a Caesar cipher with a
ciphered queue (`src/lab1`), a shell (`src/lab2`), a multi-threaded key-value
server with its client (`src/lab3`) and a FUSE file system (`src/lab4`). This
directory keeps TLA+ models of the parts whose correctness depends on an order
of events that is hard to test, the TLC runs that check them, and TLAPS proofs
of what matters most. `PROJECT.json` maps every definition to the lines it
models and lists runs, mutants, findings, hazards and theorems.

## 1. The system

| Part | State | Operations | Interacts with |
|---|---|---|---|
| **Key-value store**, `lab3/kvstore.c` | `buckets` (`HB_MAX_SIZE` = 200 chains of `key_entry_t`), `size`, `activeUsers`, the mutex `kvm`, the condition `nonuser` | `kv_read`, `kv_write`, `kv_delete`, `kv_dump` | called by workers and the console; returns a pointer into its own memory |
| **Work queue**, `lab3/queue.c` | `head`, `tail`, `count`, mutex `qm`, condition `nonempty`; `malloc`ed nodes | `enqueue`, `dequeue` | listener → workers |
| **Server**, `lab3/dbserver.c`, `worker.c`, `stats.c` | sockets, the threads, four counters | bind, listen and the accept loop, `dispatch` and the handlers, `cleanup` by request, console or SIGINT | clients over TCP; queue; store |
| **Client**, `lab3/dbclient.c` | one connection | `do_set`, `do_get`, `do_del`, `do_quit` | the server |
| **File system**, `lab4/fs5600.c`, `misc.c` | the image: superblock, bitmap, inodes, directories, data | 14 FUSE handlers | FUSE above, the image below |
| **Shell, execution**, `lab2/cmdrun.c`, `main.c` | processes with descriptors, directory, `cmd_status`, `pipefd` | read a line, `cmd_exec`, `cmd_line_exec`, builtins | fork, pipe, dup2, waitpid, execvp |
| **Shell, parsing**, `lab2/cmdparse.c` | the position in the line, lists of commands on the heap | `parse_gettoken`, `parse_ungettoken`, `cmd_parse`, `cmd_line_parse`, `cmd_free`, `cmd_print` | `main` calls it for each line and runs, or prints, what it built |
| **Queue programs**, `lab1` | a linked list of strings; in the ciphered one a stack of copies of it, for undo | `encode`, `decode`, `enqueue`, `dequeue`, `copy_queue`, `free_queue`, the commands of a file | sequential |

What is hard, and what makes each part correct:

* *Store.* The mutex protects only the counter `activeUsers`; chains are walked
  and relinked outside it. Correct means: a writer is alone, the counter is
  exact in every interleaving, a single `signal` by the last reader and a
  `broadcast` by a writer wake enough threads, no search meets a freed value, a
  listing is of one moment, the capacity bound holds, and the whole is
  linearisable to a bounded map.
* *Queue.* `head` and `next` are stale or uninitialised whenever the list is
  empty, and addresses are reused. Correct means: the fields always describe
  the list, a node has one owner, connections come out in order, nobody sleeps
  on work, and every connection is served as long as workers come back.
* *Server and client.* Requests come in pieces, clients die between two writes,
  several threads may shut down at once. Correct means: a connection is in one
  place, it gets one reply before it is closed, counters agree with replies,
  the table with the requests served, the process ends only for the reasons the
  code means, clients and a shutdown come to their end.
* *File system.* Blocks are allocated and freed by every path, also the failing
  ones; new blocks and inodes hold what was there before; a call makes up to
  five block writes, and the process may die after any of them. FUSE calls the
  handlers from several threads. Correct means: one owner per block, nothing
  leaked, the answers of a tree of files, and an image that outlives a process.
* *Shell.* Parent and child close and duplicate copies of the same descriptors
  concurrently. Correct means: pipes connect neighbours, no end stays open,
  conditionals follow statuses, `cd` does what its status says, nobody waits
  for ever.
* *Parser.* Three functions call each other, give a token back and take it
  again, and may fail at any token with a list half built. Correct means: the
  list is the one the grammar gives the line, and its memory comes back once.
* *Queue programs.* Every command works on a deep copy of the last queue, undo
  frees one or two of them and the remainder of C is not that of arithmetic.
  Correct means: no node lost, shared or freed twice; the output is that of a
  stack of queues of words.

## 2. Modules

| Module | Models | How |
|---|---|---|
| `KVTable` | data structure of `kvstore.c` | chains as sequences of `[key, val]`, `hash33` as a constant function `Hash` into the buckets; `Find`, `Prepend`, `Unlink`, `DropChain`, `Written`, `Deleted` are what the loops and pointer updates of the functions do |
| `KVStore` | the monitor and its callers | a locked section is an action; outside the lock there is one action per assignment another thread could see (`kv_write` frees the old value, then copies; links, then counts). `ptr` follows the buffer `kv_read` returned |
| `KVMap`, `KVStoreRefinesMap` | what the store promises: a bounded map with atomic calls | refinement mapping from the chains to the map. A delete may take the keys of its bucket along and leave them counted (`SameBucket`, `count`), which is all that the collision bug of section 3 changes |
| `WorkQueue` | `queue.c`, `accept`, `malloc`/`free` of nodes | `enqueue` and `dequeue` run under one lock: an action each, split at the wait. `next` of a new node is arbitrary. `order` and `taken` are history |
| `Fifo` | what the queue promises | put, take in order, finish |
| `DbServer` | threads, handlers, counters, shutdown, clients, sockets | composes `KVTable` (one step per `kv_*` call) and the queue that `WorkQueue` implements. One action per system call or shared update. The listener starts with `socket`, `bind` and `listen`, beside the others; a read may return part of a header or a payload (`Fragmented`); a SIGINT may come on top of the console's quit. `JUNK` stands for memory nobody wrote |
| `Fs5600` | the image and the handlers | blocks are inodes, entries, data or zero. A handler computes its refusal, in the order of the code's tests, or the sequence of its block writes; `Commit` performs all of them, or a prefix after which the process is killed; `fs_init` mounts what it left. `returned` is the last call with its answer, `loose` the blocks that a removal cut short has freed, `aborted` what has happened to the image |
| `FsTree`, `Fs5600RefinesTree` | what the handlers promise: a tree of files | paths to `[type, perm, data]`, and the errors that the notes over the handlers list. Space is not modelled: what needs some may be refused with `ENOSPC`. A call that was killed has changed the tree or not, or torn what a write was overwriting. The four ways in which the code departs from its notes are actions of their own (`Departs`). The mapping `TreeOf` takes the paths that resolve on an image to type, permissions and bytes of what they resolve to; `TreeSpec` carries it along as the variable `tree` |
| `FsThreads` | `alloc_blk` and `free_blk` of concurrent handlers | one action per `lseek`, `read` and `write` on the one descriptor and its offset |
| `Command` | `cmdparse.h`: token types, controls, the commands of a list | the vocabulary `CmdParse`, `CmdGrammar` and `CmdRun` share |
| `CmdParse` | `cmdparse.c` | each function returns its result and the new parse state: position, the token it can give back, allocations made. `ABORTED` is a failed assertion |
| `CmdGrammar` | what the parser promises | tokens and lists defined on the line as a whole, by counting quotes and parentheses, without a moving position; a line with a token that is refused means nothing, wherever it stands. `NamesLost` says which file names `cmd_free` misses |
| `CmdRun` | the shell and every process it forks | a process table with descriptors, directory and position in the list; runs of system calls that touch only private state are one action. Programs are `run` (ends at will), `cat` (ends at the end of input) and `missing`. `RunSpec` is the shell for any set `Lists` of lists that main may hand it |
| `Shell` | `main.c`, composing `CmdParse` and `CmdRun` | a line of characters is parsed and run, or with `-p` printed; `ImplementsRun` says that this is `RunSpec` |
| `CipheredQueue` | `lab1`: the cipher, the queue and the two programs on it | nodes at the addresses `malloc` returns; a line of the file is an action; `%` of C as `CMod` |
| `UndoQueue` | what the two programs promise | a stack of queues of words and the cipher as a rotation of each character's loop |
| `MC*` | instances for TLC | keys and hash, requests, command lines, words, a view and a symmetry of images |
| `KVTableProofs`, `KVStoreProofs`, `WorkQueueProofs`, `DbServerProofs`, `CmdRunProofs`, `Fs5600Proofs`, `Fs5600TreeProofs`, `CipheredQueueProofs` | theorems | section 5 |

The operators whose names say what is wrong with them (`EnterWriterIgnoresReaders`,
`EnqueueWakesLate`, ...) are faulty variants of single definitions. None is part
of a specification; each shows that some property notices the fault.

`DbServer` treats a `kv_*` call as one step. That is what `ImplementsMap` says
of the store, and what the theorem `StoreImplementsMap` proves; the pointer that
`kv_read` returns is the exception, and `DbServer` keeps it as a pointer that a
write or a delete turns into junk.

## 3. Runs

Passing:

| Run | Instance | Shows |
|---|---|---|
| `kvstore` | 2 workers and the console, 2 keys in one bucket, 2 values, 478 thousand states | `Exclusion`, `ActiveUsersExact`, `NoLostWakeup`, `ChainsWellFormed`, `NoFreedValueSeen`, `DumpIsSnapshot`, `CapacityBound`; `ImplementsMap` (refinement of `KVMap`); `Quiescence`: once calls stop, those made return |
| `workqueue` | 2 workers, 3 addresses, 4 connections | `ListWellFormed`, `TasksOwned`, `NoSleepOnWork`, `ImplementsFifo`; `EveryConnectionServed`: as long as some worker comes back from `dispatch` |
| `dbserver` | 2 clients, 2 workers, requests of every handler, a table of one key, whole reads, a failing `bind`, SIGINT | `HeldOnce`, `AnsweredBeforeClose`, `OneReply`, `FailuresMatchReplies`, `StoreMatchesRequests`, `ExitIsCaused` |
| `dbserver_live` | 2 clients, 1 worker, set, get, quit and an unknown request, reads that return any part, of headers too | `ClientsFinish`; `QuitEnds`: a quit request ends the server, or its header came in pieces and was refused |
| `fs` | 2 names and one that is too long, 2 levels, files of 2 blocks of 2 bytes, 2 byte values, 2 permissions, 3 free blocks, one kill and any number of mounts, 8 thousand states | `OwnedOnce`, `NothingLeaked`, `ImplementsTree` (refinement of `FsTree` but for four named departures) |
| `shell` | with `-p`: every line of up to 5 tokens out of 7, a command or subshell with up to 3 redirections (`<`, `>`, `2>`) in every order and what may go wrong behind them, every line of up to 4 characters out of 8, tokens of 2 characters, 3 words; without: 4 processes, 6 descriptors, two lines out of 15. 169 thousand states | `ParseMatchesGrammar`, `OnlyOutputNamesLost`; `ImplementsRun`, with `Lists` written out for the 15 lines; `NoStrayEnds`, `Connected`, `CdAgrees`, `ShortCircuit`, `ShellEnds` |
| `ciphered_queue` | files of 5 commands, 3 words, keys 1 and 37, 15 addresses | `NodesOwnedOnce`, `ImplementsUndoQueue` (refinement of `UndoQueue`) |

The modules of `lab2` to `lab4` also have a type invariant each, checked by these runs.

Violated, each a disagreement between the code and what the repository says of
it (details under "findings" in `PROJECT.json`):

| Run | Statement | What the code does |
|---|---|---|
| `kv_delete_chain` | kvstore.c:160, deleting a key deletes that key | `buckets[index] = NULL` (kvstore.c:185) drops the rest of the chain |
| `kv_read_pointer` | kvstore.c:67, the store is a monitor | the string `kv_read` returns is freed by others while `handle_read` sends it |
| `db_fragments` | worker.c:62, the string received is stored | every `read` of the loop (worker.c:43) goes to the start of `buf` |
| `shell_missing` | cmdrun.c:37, `cmd_exec` returns the child's pid | after a failed `execvp` it returns 0 in the child, which goes on as a second shell |
| `fs_threads` | fs5600.c:68, `alloc_blk` returns a free block | two threads read the same bitmap, or move each other's file offset, and get the same block |

### Bounds, and why they are enough

* *Store.* The protocol distinguishes readers and writers, not their number:
  two workers and the console give reader/reader, reader/writer, writer/writer
  and a third party that sleeps. Two keys in one chain are a head and an inner
  node, the cases of `kv_delete`; after a chain was dropped the table of two is
  full, so that writes are refused. A key in a bucket of its own is the case of
  a chain of one. The proofs remove these bounds for what they cover.
* *Queue.* `Tasks` bounds the nodes allocated at a time, `MaxConns` the
  connections. Four connections over three addresses make every address stale,
  reused and at the head, in the middle and at the tail.
* *Server.* `MaxTasks` = 1 bounds the queue, so that the second connection waits
  with the listener while the first is queued; how the list itself grows is the
  subject of `workqueue`. `MaxFails` bounds the busy loop of a listener whose
  socket is closed: one failure in `dbserver`, none in `dbserver_live`, where the
  loop would only keep the listener busy beside a worker that exits. Payloads
  have at most two bytes, which is enough to come in two pieces. Once the
  process has ended, `dbserver` does not follow the clients any further
  (`CONSTRAINT Running`; the invariants are still checked in the state it ended
  in); `dbserver_live` does. In `dbserver`
  reads are whole, because fragments already break `StoreMatchesRequests`;
  `dbserver_live` and `db_fragments` let every read return a part, a header as
  well as a payload: `dispatch` refuses such a header (worker.c:113-115) and the
  client gives up on such a reply. A SIGINT in the handler of a SIGINT is not
  followed.
  The permutations of clients and of workers are sound symmetries: no property
  or action names one, and the run has no liveness property.
* *File system.* The scale (`FS_BLOCK_SIZE`, pointers per inode, entries per
  directory, bitmap) is constant. Three blocks are free, so that every
  allocation fails somewhere, the second one of `mkdir` too; a directory fills
  up; paths pass through files and missing names; names that are too long occur
  directly under the root; writes begin and end inside blocks and at their
  borders. One process is killed and followed by another: a second kill would
  meet an image of the same kind. Aborts on a full image may follow one another.
  `fs_init` mounts any image with its magic number. After a removal was cut
  short, `loose` holds the blocks that are free and still referred to; the next
  process works on, and only once `alloc_blk` hands one of them out (`aborted` =
  `reused`) the image has a block with two owners, and what later calls make of
  that is not followed. The `VIEW` leaves out `returned`, which no action reads
  and which the refinement sees on every transition (but for the path of a
  removal that was cut short, which `OwnedOnce` asks for), and what decides
  nothing a handler does: the permissions, the contents of free blocks that held
  an inode or entries and of blocks a dead process left marked and unused, and
  pointers past the end of a file. Free data blocks are kept: a new block shows
  what was in it. Names and bytes are interchangeable.
* *Shell.* `NPROCS` and `NFDS` are also the limits at which `fork` and `pipe`
  fail in the model, so that both do: four processes hold a pipeline of three
  with its shell. `MaxLines` = 2 is the least at which descriptors, children or
  a status left by a line can harm the next; with `-p` a line leaves nothing
  behind, and one is enough. Five tokens hold a subshell in a list, a list that
  ends in an operator and a redirection in a wrong place; four characters reach
  `TOKENSIZE` with a parenthesis, a blank, a quote or the end behind it.
* *Queue programs.* Five commands make a queue of two, take from it and undo
  past the first copy; fifteen addresses are as many nodes as five copies of
  up to five words hold, so that `malloc` always finds one. The words have the
  characters at both ends of each loop, none, and an illegal one; 37 is more
  than one turn of a loop.

Deadlock checking is off where the system may stop: a server that has exited
(`dbserver*`), a shell at the end of its input (`shell*`), a file system on
which a block has two owners (`fs`), a program at the
end of its file (`ciphered_queue`).

### Fairness

Weak fairness of a thread or process: what can run is run in the end, which the
operating system's scheduler gives. No fairness for clients that connect, calls
that are made, commands of the console, lines the user types, spurious wakeups
or deaths. `workqueue` does not assume that `dispatch` returns: `read` has no
timeout (worker.c:43, 113), and silent clients may hold every worker for ever.
`EveryConnectionServed` says that all connections are taken from the queue
provided that again and again some worker is not in `dispatch`. `dbserver_live`
assumes of a client that has connected that it goes on until it ends or dies,
and shows what follows from that. `shell` assumes that programs end (`cat`
when its input does) and so does the input: a shell that reads a program which
never ends has nothing to prove. `Quiescence` assumes that calls stop, because
the readers/writer protocol lets readers starve a writer.

## 4. Beyond the runs: what else the models record

These follow the code. Where one of them contradicts a comment of the repository,
the property that would be violated excepts exactly that case, by a name of its
own, so that the runs (and the proofs) say that there is no other:

* After a chain was dropped, `size` counts keys that cannot be found, and
  kvstore.c:138 refuses new keys although there is room.
* `dispatch` reads the request header once and refuses it when it comes in
  pieces (worker.c:113-115). A quit request is then lost: `do_quit` does not wait
  for the `X`, and the server goes on. `QuitEnds` excepts a quit that was refused
  so. A client that gives up on a reply header in pieces (dbclient.c:148, 175,
  207) may also cost the server a SIGPIPE, as one that dies does (`ExitIsCaused`).
* A quit before the listener has called `socket` closes descriptor 0, which
  `listen_sock` holds initially; between `socket` and `bind` it closes the new
  socket, and the process may end with status 1 for that reason.
* `fs_write` stores the `-ENOSPC` of `alloc_blk` in a `uint32_t`; the test at
  fs5600.c:935 never holds and `block_write` asserts: a full image ends the
  process instead of failing the write, against fs5600.c:69 and 905. Departure
  `AbortsWhenFull` of `ImplementsTree`: it happens only when no block is free, and
  the file keeps its length and all bytes but those being overwritten.
* `rename`, `chmod`, `create`, `mkdir`, `unlink` and `rmdir` answer `ENOENT` for
  some paths through a file, where the notes at fs5600.c:106-116 say `ENOTDIR`
  (departure `HidesNotDir`). The other handlers answer as the notes say.
* `utime` refuses a directory with `EISDIR` (fs5600.c:1017), an error its notes
  (1005-1006) do not list (departure `UtimeRefusesDir`).
* A removal frees blocks before it clears the entry or the size (fs5600.c:825-829,
  986-989), and `fs_init` (326-337) mounts any image: after a kill in between,
  `alloc_blk` may hand out a block that is still referred to, and two files share
  it (departure `Reallocates`). `OwnedOnce` says that nothing is harmed before.
* `alloc_blk` (fs5600.c:78) goes through the whole bitmap block, whatever
  `disk_size` says; `fs_statfs` then reports an unsigned underflow.
* When the tokenizer refuses the first token of a line there is nothing before
  it to go back to: the assertion of `parse_ungettoken` (cmdparse.c:167) ends the
  shell, where cmdparse.c:361-365 and cmdparse.h:24 call for `NULL` and
  main.c:65-66 for a syntax error. `CmdGrammar` means a syntax error there, as in
  any other place, and `ParseMatchesGrammar` leaves out the lines for which
  `FirstTokenRefused` holds.
* `cmd_free` stops at the first missing file name (cmdparse.c:221), although the
  comment at cmdparse.c:197 says that it frees all memory of a command: an output
  file without an input file, or an error file without both, is never given
  back. `OnlyOutputNamesLost` says that a line costs exactly these names.
* A token of `TOKENSIZE - 1` characters is accepted before a blank and refused
  before `(`, `)` and `;` (cmdparse.c:91); after `""` a parenthesis is a word.
* `encode` relies on keys that are not negative, `gq` of the ciphered queue on
  files of fewer than 50000 commands; neither is tested for.
* A failed `&&` keeps the old `cmd_status` (cmdrun.c:393), so that
  `( false && x )` is a success; a command killed by a signal ends a `;` list.
* `cd a b` moves the shell (cmdrun.c:212) although its child reports an error.
* A child that came back from a failed `execvp` goes on with `*pass_pipefd` as
  its parent left it: the number of a descriptor it has closed (cmdrun.c:131).
  In `run | cat | missing | cat | cat` the next `pipe` gives that number to a
  write end, and the child after it gets a write end for its standard input.
  The proof of `NoStrayEnds` found this, with five processes where the run has
  four; TLC confirmed it. The property excepts the children of such a shell
  (`stray`), as `Connected` did; the cause is the finding of `shell_missing`.
* `do_get` reads for ever when the server exits between the two writes of its
  reply: `ClientsFinish` excepts exactly that.

## 5. Proofs

The three `KV*Proofs` modules hold for any finite set of workers and any finite
set of keys, any values, hash function, number of buckets and capacity, under
the named assumptions of the modules: `SizesAssumption` (`HB_MAX_SIZE` and
`TABLE_MAX` are positive), `HashAssumption` (`Hash` maps the keys to buckets),
`SentinelAssumption` (`NULL` and `FREED` differ and are no keys or values),
`ThreadsAssumption` (the console is no worker, the workers are finitely many)
and `PointerAssumption` (the null pointer points to no entry).

* `MonitorCorrect`, `CountCorrect`, `WakeupCorrect`: `Exclusion`,
  `ActiveUsersExact` and `NoLostWakeup`. None is inductive alone: `MonitorInv`
  is their conjunction with `CallInv`, which says that the call of a thread is
  one it may make and that only a write is at `copy` or `inc`, only a delete at
  `clear` or `dec`. Why one `signal` suffices when the last reader leaves:
  readers sleep only while a writer is inside, so that every sleeper is a
  writer then, and the one woken broadcasts when it leaves. Counting readers
  needs the cardinality lemmas of `FiniteSetTheorems`.
* `TypeCorrect`, `ChainsCorrect`, `CapacityCorrect`: the type invariant,
  `ChainsWellFormed` and `CapacityBound`. They rest on `MonitorInv`: only
  because a writer is alone does what it found in its search still hold when it
  copies, clears or counts. The strengthening `TableInv` says that the key of a
  writer at `copy` or `clear` is still stored; `CapacityBound` itself allows for
  one key uncounted at `inc` and one counted too many at `dec`. The lemmas of
  `KVTableProofs` on `Prepend`, `Unlink` and `DropChain` say how the set of
  stored keys and its cardinality change.
* `ReadsCorrect`, `DumpCorrect`: `NoFreedValueSeen` and `DumpIsSnapshot`. The invariant `ReadInv` adds `FreedOwned`, a freed value in
  the table belongs to a writer that is about to replace or unlink it, and
  `PointerShape`, only `kv_read` holds a pointer, and only at its end. A reader
  inside has no writer beside it (`Exclusion`), so that it meets no freed value;
  a writer's steps change the table while no listing is under way.
* `StoreImplementsMap`: `Spec => ImplementsMap`, the store is a
  bounded map with atomic calls. A writer works in steps: between `free` and
  copy, linking and counting, unlinking and dropping the chain, the table is in
  a state no call may see. The mapping therefore shows the map as the one writer
  inside will leave it; that there is only one comes from `MonitorInv`. A write
  takes effect when it finds its node or links a new one, a delete when it finds
  its node, a read with its search, a listing with its last bucket, and every
  other step inside is a stutter. The argument conjoins the earlier invariants
  with `RetShape`, which says what a call that took effect may return. `MapOf`, `PhaseIn` and `ResIn` take the table and the threads
  as parameters, so that one lemma serves the state before and after a step.

`WorkQueueProofs` holds for any sets of workers and node addresses and any
number of connections, under `TasksAssumption` (`NULL` is no address) and
`BoundAssumption` (`MaxConns` is a natural number).

* `QueueTypeCorrect`, `QueueCorrect`, `OwnershipCorrect`, `WakeCorrect`:
  `TypeOK`, `ListWellFormed`, `TasksOwned` and `NoSleepOnWork`. The one
  addition that makes them inductive is that the node in the listener's hands
  is neither queued nor held. `TasksOwned` then follows from the list: the head
  that `dequeue` takes is queued, what other workers run is held.
* `FifoCorrect`: `Spec => ImplementsFifo`. The refinement needs the numbering:
  the connections in the list are the ones after `taken`, in order, and the one
  in the listener's hands is the last.

`DbServerProofs` holds for any finite sets of clients and workers, any requests,
keys and hash, under `RequestsAssumption` (what a client may ask),
`ThreadsAssumption` (finitely many threads; `NULL` and `BADFD` are no clients) and
those of `KVTable`. Its invariant `Inv` has a part per concern, and each theorem
needs most of them:

* `ServerTypeCorrect`, `ConnectionsCorrect`: `TypeOK` and `HeldOnce`. `PlaceInv`
  says where a connection may be without counting, `FdInv` that a worker has a
  descriptor between `dequeue` and `close` and a bad one only after
  `listen_sock` was closed. The type of a buffer depends on the protocol: what
  the client still has to send fits it (`PayloadInv`), the reply's data is as
  long as its header announced (`BodyInv`).
* `AnswersCorrect`, `RepliesCorrect`, `FailuresCorrect`: `AnsweredBeforeClose`,
  `OneReply` and `FailuresMatchReplies`. `ReplyInv` ties the replies to the line
  of the worker: a connection in the backlog, the queue or before its reply has
  none. `ClientInv` says how much a client sent by the time it waits.
* `ExitCorrect`: `ExitIsCaused`. `ExitInv` remembers the thread that closed
  `listen_sock`; the other ways to status 1 are a `bind` or
  `listen` that failed and a SIGINT in the console's cleanup; a SIGPIPE needs a
  `do_get` that died, or gave up on a reply header in pieces, between the two
  writes of its reply, which `BodyInv` locates.
* `StoreCorrect`: `StoreMatchesRequests`, for reads that are whole and a hash
  without collisions. Both hypotheses are needed, since `db_fragments` and
  `kv_delete_chain` are counterexamples without them; the run `dbserver`
  satisfies both. `DataInv` says that the buffer of a worker at
  `kv_write` holds what its client sent.

`CmdRunProofs` holds for any number of processes, descriptors (more than two)
and lines, any directories and any lists of commands, nested to any depth. Its
assumptions are `ProcessAssumption` (the sizes, the home directory is one,
`strtol` returns integers), `NullAssumption` (`NULL` is no process, file or pair
of descriptors) and `ListsAssumption`: a list is not empty, its subshells are
lists, it does not end in `&&`, `||` or `|`, and the words of an `exit` are ones
`strtol` is defined for. TLC evaluates them on the lists of the run, and its
`ImplementsRun` says that the parser hands out no others. All five theorems
come from one invariant `Inv`:

* `RunTypeCorrect`: `TypeOK`. `PlaceInv` says which processes are in a list and
  that all but those at its end are at one of its commands.
* `RunLeavesNoEnds`: `NoStrayEnds`. `FilesInv` lists, for each place in
  `cmd_exec`, the descriptors above 2 that may be open: the one handed on, and
  between `fork` and the closes the two of the new pipe. It needs that the old
  pipe's read end is still open when the new pipe is made, so that `pipe` cannot
  return its number (that is what fails in a stray shell), and that a list does
  not end in `|`, so that a shell that is done has nothing left to close.
* `RunConnects`: `Connected`. `PipeInv` follows a pipe from the `fork` that makes
  it to the reader: the children of a list are at different commands, in order
  (`OrderAt`); the end the shell holds belongs to the child before (`CarryAt`);
  the next child is given that one (`MeetAt`). `Out` and `In` say where a child
  will write and read once it is set up, which makes the order of the two
  set-ups irrelevant.
* `RunCdAgrees`: `CdAgrees`. `CdInv` keeps shell and child at the same command
  until the child's status is there.
* `RunShortCircuits`: `ShortCircuit`, from `LastInv`, which ties the place in a
  list to the outcome that led there.

`FamilyInv`, on which the others rest, says who waits for whom and that only a
shell has children. Most steps change one process and at most reap its zombies:
`Alone` captures that, and one lemma per part of `Inv` does the common work.
`fork` and the end of a process have proofs of their own. That the lowest free
descriptor and an unused pipe exist rests on the well-foundedness of the natural
numbers and on cardinalities.

`Fs5600Proofs` holds for any size of the image, the bitmap, a block, an inode
and a directory, and any names, bytes and permissions. Its assumptions:
`SizesAssumption` (a block holds a byte and an entry, an inode a pointer; the
block of the root's entries lies on the disk and the disk is no larger than the
bitmap), `NamesAssumption` and `SentinelAssumption` (a name fits or does not; an
invalid entry is no entry, an uninitialised byte no byte or number) and
`PermsAssumption` (there is a mode for the root).

* `BlocksTyped`: `TypeOK`. `BlocksOwnedOnce`: `OwnedOnce`, on images a process
  died over too. `BlocksAccounted`: `NothingLeaked`.

The properties speak of the inodes that paths lead to, and a change of one
directory changes what many paths lead to. The inductive invariant `IInv`
(theorem `ImageHoldsTree`) therefore speaks of a set `I` of inode blocks that is
closed under the entries of its directories: `Shape` says that `I` holds inodes
only (`Inodal`), that every entry leads into it (`Closed`), and that no two
pointers (`NoSharedData`) and no two entries (`NoSharedInode`) agree; `Marked`
that all its blocks are in use, which means marked in the bitmap or freed by a
removal that was cut short (`InUse` is `bitmap` and `loose`); `Torn` that after a
kill the latter are blocks of what was being removed; and, while no process died, `Exact`
that nothing else is marked and `Reached` that a path leads to every inode of
`I`. All of it holds until a loose block is allocated again (`aborted` =
`reused`). A set closed under entries holds every inode a path leads to (`WalkFacts`).
Each way a handler changes the image (a file loses or gains blocks, an entry
comes, goes or gets another name) is a lemma on two images and two sets, and
`CommitStep` reduces a handler to its writes as a whole and to each of their
prefixes. A prefix of `create`, `mkdir` or `write` is `Harmless`: it marks free
blocks and writes outside the tree, or into data. A prefix of a removal clears
only blocks of what it removes, and moves them from the bitmap to `loose`:
`InUse` stays. The walk along a path, the
concatenation of the rounds of a write and the allocations of one write are
recursive functions of a number. The library's induction takes an operator, which
the backends cannot instantiate; lemma `Induction` states it for a set of
numbers, from the well-foundedness of the order, and a set can be named.

`Fs5600TreeProofs` holds under the same assumptions.

* `FilesImplementTree`: `TreeSpec => ImplementsTree`, the handlers implement
  `FsTree`: every answer is that of a tree of files, and so is what a process
  leaves that is killed between two block writes and what the next one makes of
  it. The departures of section 4 are the only other steps, each with the effect
  it is said to have; `Reallocates` ends what is claimed.

The invariant `TreeInv`, which holds until then (`Following`), adds two things to
`IInv`: `tree` is that of the image, and `Fit`, the root is a directory, and a
directory that a path leads to has no name twice and its entries lie
within `MAX_LEVELS`. With `NoSharedInode` every path then leads to an inode of its
own (`PathsDiffer`), and a change of one directory changes what the paths through
one entry lead to and no others. One lemma on two images per kind of change says
so: nothing of the tree changes (`TreeFrame`), an entry comes, or read backwards
goes (`WalkAdded`, `TreeAdded`), an entry gets another name and everything below
it moves along (`WalkRenamed`, `TreeRenamed`), one node changes (`TreeChanged`).
The order of the tests in a handler against that of the tree is `WalkErrors`: the
first prefix of a path that is missing or no directory decides the answer. Each
handler then has lemmas for its refusals, its success and its death
(`CreateCall`, ..., `RenameCall`).

`fs_write` takes most of the work. Its rounds write blocks in the order of the
file, so that a prefix of them has laid down a lower part of the blocks touched
(`RoundsPaced`); on an image where no two pointers agree each block is read back
as written (`LaidDown`), old and new bytes lie side by side as `Blend` says
(`LaidByte`), and the new size shows only bytes that were written, also in a
block that has just been allocated. A full bitmap stops the rounds in an
assertion, after a prefix like that of a kill; that every block is marked then is
`NoBlockLeft`. Steps that allocate a loose block are recognised from their writes
(`ReuseStep`), whatever they do to the image.

`CipheredQueueProofs` holds for any words, any keys from zero up and files of any
length (the 50000 entries of `gq` aside, section 6). Its assumptions:
`WordsAssumption` (words are sequences of character codes, `atoi` read no
negative key) and `MemoryAssumption`: there are `1 + 2 + ... + MaxLines`
addresses, as many as the longest file can use (the run has exactly that many),
so that `malloc` never fails.

* `DecodeUndoesEncode`: a word that `encode` accepts comes back from `decode`
  with the same key. `encode` adds the key before the remainder, `decode` raises
  the difference by multiples of the loop's size until it is not negative; both
  are the rotation of `UndoQueue` (`EncodedFacts`, `DecodedFacts`), whatever the
  key, and rotations by opposite amounts cancel.
* `QueuesOwnNodesOnce`: `NodesOwnedOnce`. `QueuesImplementUndoQueue`:
  `ImplementsUndoQueue`, safety.

Both come from `IInv` (theorem `QueuesKept`). `IsList` ties a queue to the
sequence of its nodes: distinct, linked in order, from the head to the tail.
`Owned` says that every queue kept is a list, that no two share a node and that
the nodes in use are theirs. `malloc` has room because a queue has at most one
node per line read, and the nodes in use are at most `1 + 2 + ... + lines`. Each
command copies the last queue to free addresses, changes the copy and keeps it:
the other lists are untouched, since no two share a node, and what the abstract
history says of them stays. `undo` makes a copy as well and frees it again, which
gives back the very heap there was; then it frees the last queue, and the lists
before it are those of the history's front. Walks along the list, copies and
frees are recursive functions of a number, and the proofs about them use a lemma
`Induction` like that of `Fs5600Proofs`.

Only model-checked: liveness (TLAPS does not reason about fairness and
`ENABLED`) and the parser with `ImplementsRun`. The
parser calls itself for a subshell:
`CmdParse` and `CmdGrammar` declare recursive operators, which keeps them and
`Shell` out of the prover's reach.

## 6. Not modelled

* The trace log (and the window of dbserver.c:41 in which a worker writes to it
  after `fclose`), option parsing, prompts, messages, the random sleep of a
  worker, the getters of `stats.c`, which read without the lock.
* `kv_destroy`: `cleanup` calls it only for a null pointer (dbserver.c:43).
* The concurrency test of `dbclient.c` and the test programs of `lab4`: they
  drive the code modelled here and keep no state of their own.
* uid, gid and times; block I/O errors (with the endless loop of fs5600.c:460);
  paths of more than ten levels; removing the root; a rename to a name that does
  not fit an entry. Concurrent handlers are modelled in `FsThreads` as far as
  `alloc_blk` and `free_blk`, where they already go wrong. `alloc_blk` goes on
  past `disk_size` to the end of the bitmap (fs5600.c:78), in the runs too; no
  property forbids it, because the image grows.
* The Python tools that format and print images, but for the fresh image.
* Contents of pipes and files in the shell; jobs that stop; what `cmd_print`
  writes; a `malloc` that fails.
* `caesar_main.c`, which hands its arguments to `encode` and `decode`; negative
  keys; a line of a `lab1` file without a command; the 50000 entries of `gq`, which
  a longer file would overrun; keys within 25 of the
  largest `int`, whose sum in `encode` overflows.
* `lab0`: exercises without state.

## 7. Plan

Done: store, queue, server with client, file system with a process that dies,
concurrent allocation, shell from the characters of a line to the processes it
runs, the queue programs; the theorems on the monitor, the table, its readers,
its refinement of a map, the queue, the server, the processes of the shell, the
blocks of the file system and its refinement of a tree, and the queue programs.

Open: the parser in a form without recursive operators, so that it can be proved
about, and handlers that run concurrently beyond `alloc_blk` and `free_blk`.
