------------------------------ MODULE DbServer ------------------------------
(***************************************************************************)
(* dbserver (lab3): the listener thread, the worker threads with their     *)
(* request handlers (worker.c), the counters (stats.c), the control thread *)
(* (dbserver.c main) and the shutdown, together with the clients of        *)
(* dbclient.c at the other end of the sockets.                             *)
(*                                                                         *)
(* The work queue is the first-in first-out queue that WorkQueue           *)
(* implements, and a kv_* call is one step on the table, as KVStore allows *)
(* for its callers; only the pointer kv_read returns outlives the call.    *)
(***************************************************************************)
EXTENDS KVTable

CONSTANTS
    Clients,    \* runs of dbclient, one connection each
    Workers,
    Requests,   \* the requests they make: [op, key, data]
    Bytes,      \* the bytes of their payloads
    JUNK,       \* a byte nobody wrote: uninitialised or freed memory
    Fragmented, \* whether read() may return part of what was sent
    BADFD,      \* what accept returns once listen_sock is closed
    MaxTasks,   \* bound: length of the work queue
    MaxFails    \* bound: accept fails only up to this many failures

\* The strings a handler may end up with: payload bytes and junk.
Strings == UNION {[1 .. n -> Bytes \cup {JUNK}] : n \in 0 .. 2}

ASSUME RequestsAssumption ==
    /\ Requests \subseteq [op : {"W", "R", "D", "Q", "?"}, key : Keys, data : Strings]
    /\ Strings \subseteq Vals
    /\ JUNK \notin Bytes
    /\ Fragmented \in BOOLEAN
    /\ MaxTasks \in Nat /\ MaxFails \in Nat

\* A descriptor is neither NULL nor what a failed accept returns.
ASSUME ThreadsAssumption ==
    /\ IsFiniteSet(Clients) /\ IsFiniteSet(Workers)
    /\ NULL \notin Clients \cup Requests \cup {BADFD, "K", "X"}
    /\ BADFD \notin Clients

Counters == {"W", "R", "D", "fail"}

VARIABLES
    \* dbclient
    cpc,       \* "start", "header", "data", "reply", "body", "done" or "dead"
    req,       \* what it asks for
    answer,    \* the reply it has read: op_status, or NULL
    body,      \* the data of the reply it has read
    \* the sockets
    conn,      \* server side: "none", "backlog", "open" or "closed"
    hdr,       \* request header sent and not yet read whole
    up,        \* payload bytes sent and not yet read
    rhdr,      \* reply header sent and not yet read whole: "K", "X" or NULL
    rlen,      \* the length that header announces
    down,      \* reply bytes sent and not yet read
    \* dbserver
    backlog,   \* connections accept has not returned yet
    newfd,     \* the listener's new connection, NULL while it is in accept
    wq,        \* the work queue
    wpc,       \* where each worker is
    fd,        \* the connection it serves
    buf,       \* handle_write's buf
    got,       \* handle_write's bytes
    ptr,       \* handle_read's ret: the string and whether it was freed since
    table, size,
    stat,      \* n_writes, n_reads, n_deletes, n_fails
    console,   \* where the control thread is: "prompt", in "cleanup" or past its
               \* close ("exit"), in the "handler" of a SIGINT or past its close
               \* ("handled")
    lpc,       \* where the listener is: "socket", "bind", "failed" or "accept"
    listening, \* the descriptor in listen_sock is open (0, stdin, before socket())
    process,   \* "running", "exit0", "exit1" or "sigpipe"
    wanted     \* history: the value the last request served asked for, per key

clientVars == << cpc, req, answer, body >>
socketVars == << conn, hdr, up, rhdr, rlen, down >>
queueVars  == << backlog, newfd, wq >>
workerVars == << wpc, fd, buf, got, ptr >>
storeVars  == << table, size, stat, wanted >>
adminVars  == << console, lpc, listening, process >>
vars == << clientVars, socketVars, queueVars, workerVars, storeVars, adminVars >>

NoPointer == [key |-> NULL, val |-> << >>, freed |-> FALSE]

TypeOK ==
    /\ cpc \in [Clients -> {"start", "header", "data", "reply", "body", "done", "dead"}]
    /\ req \in [Clients -> Requests \cup {NULL}]
    /\ answer \in [Clients -> {NULL, "K", "X"}]
    /\ body \in [Clients -> Strings]
    /\ conn \in [Clients -> {"none", "backlog", "open", "closed"}]
    /\ hdr \in [Clients -> BOOLEAN]
    /\ up \in [Clients -> Strings]
    /\ rhdr \in [Clients -> {NULL, "K", "X"}]
    /\ rlen \in [Clients -> 0 .. 2]
    /\ down \in [Clients -> Strings]
    /\ backlog \in Seq(Clients)
    /\ newfd \in Clients \cup {NULL, BADFD}
    /\ wq \in Seq(Clients \cup {BADFD})
    /\ wpc \in [Workers -> {"dequeue", "recv", "payload", "kv_write", "kv_read",
                            "kv_delete", "okay", "okaydata", "fail", "close",
                            "cleanup", "exit"}]
    /\ fd \in [Workers -> Clients \cup {NULL, BADFD}]
    /\ buf \in [Workers -> Strings]
    /\ got \in [Workers -> 0 .. 2]
    /\ ptr \in [Workers -> [key : Keys \cup {NULL}, val : Strings, freed : BOOLEAN]]
    /\ table \in Table
    /\ size \in 0 .. TABLE_MAX
    /\ stat \in [Counters -> Nat]
    /\ wanted \in [Keys -> Strings \cup {NULL}]
    /\ console \in {"prompt", "cleanup", "exit", "handler", "handled"}
    /\ lpc \in {"socket", "bind", "failed", "accept"}
    /\ listening \in BOOLEAN
    /\ process \in {"running", "exit0", "exit1", "sigpipe"}

Init ==
    /\ cpc = [c \in Clients |-> "start"]
    /\ req = [c \in Clients |-> NULL]
    /\ answer = [c \in Clients |-> NULL]
    /\ body = [c \in Clients |-> << >>]
    /\ conn = [c \in Clients |-> "none"]
    /\ hdr = [c \in Clients |-> FALSE]
    /\ up = [c \in Clients |-> << >>]
    /\ rhdr = [c \in Clients |-> NULL]
    /\ rlen = [c \in Clients |-> 0]
    /\ down = [c \in Clients |-> << >>]
    /\ backlog = << >>
    /\ newfd = NULL
    /\ wq = << >>
    /\ wpc = [w \in Workers |-> "dequeue"]
    /\ fd = [w \in Workers |-> NULL]
    /\ buf = [w \in Workers |-> << >>]
    /\ got = [w \in Workers |-> 0]
    /\ ptr = [w \in Workers |-> NoPointer]
    /\ table = EmptyTable
    /\ size = 0
    /\ stat = [n \in Counters |-> 0]
    /\ console = "prompt"
    /\ lpc = "socket"
    /\ listening = TRUE
    /\ process = "running"
    /\ wanted = [k \in Keys |-> NULL]

Running == process = "running"

\* The client has closed its end, or its process is gone.
Hangup(c) == cpc[c] \in {"done", "dead"}

\* The server's end is closed: by close(sock) or by the end of the process.
ServerGone(c) == conn[c] = "closed" \/ ~ Running

\* The sizes read() may return when some bytes are there.
ReadSizes(s) == IF Fragmented THEN 1 .. Len(s) ELSE {Len(s)}

-----------------------------------------------------------------------------
(***************************************************************************)
(* dbclient.c: do_set, do_get, do_del, do_quit.                            *)
(***************************************************************************)
Connect(c, r) ==
    /\ Running /\ lpc = "accept" /\ listening
    /\ cpc[c] = "start"
    /\ req' = [req EXCEPT ![c] = r]
    /\ cpc' = [cpc EXCEPT ![c] = "header"]
    /\ conn' = [conn EXCEPT ![c] = "backlog"]
    /\ backlog' = Append(backlog, c)
    /\ UNCHANGED << answer, body, hdr, up, rhdr, rlen, down, newfd, wq,
                    workerVars, storeVars, adminVars >>

\* The header goes out; do_quit is done then, do_set has its data to send.
SendHeader(c) ==
    /\ cpc[c] = "header"
    /\ hdr' = [hdr EXCEPT ![c] = TRUE]
    /\ cpc' = [cpc EXCEPT ![c] = IF req[c].op = "W" THEN "data"
                                 ELSE IF req[c].op = "Q" THEN "done" ELSE "reply"]
    /\ UNCHANGED << req, answer, body, conn, up, rhdr, rlen, down, queueVars,
                    workerVars, storeVars, adminVars >>

SendData(c) ==
    /\ cpc[c] = "data"
    /\ up' = [up EXCEPT ![c] = req[c].data]
    /\ cpc' = [cpc EXCEPT ![c] = "reply"]
    /\ UNCHANGED << req, answer, body, conn, hdr, rhdr, rlen, down, queueVars,
                    workerVars, storeVars, adminVars >>

\* read() of the reply header: a reply, or the end of the stream (SHORT READ).
ReadReply(c) ==
    /\ cpc[c] = "reply"
    /\ rhdr[c] # NULL \/ ServerGone(c)
    /\ answer' = [answer EXCEPT ![c] = rhdr[c]]
    /\ rhdr' = [rhdr EXCEPT ![c] = NULL]
    /\ cpc' = [cpc EXCEPT ![c] =
                 IF req[c].op = "R" /\ rhdr[c] = "K" /\ rlen[c] > 0 THEN "body" ELSE "done"]
    /\ UNCHANGED << req, body, conn, hdr, up, rlen, down, queueVars,
                    workerVars, storeVars, adminVars >>

\* read() returns only the first bytes of the reply header (SHORT READ), or an
\* error because the server closed with part of the request unread.
ShortReply(c) ==
    /\ Fragmented
    /\ cpc[c] = "reply"
    /\ rhdr[c] # NULL
    /\ cpc' = [cpc EXCEPT ![c] = "done"]
    /\ UNCHANGED << req, answer, body, socketVars, queueVars, workerVars,
                    storeVars, adminVars >>

\* One round of do_get's loop.  At the end of the stream read() returns 0 and
\* the loop goes on: a stuttering step.
ReadBody(c) ==
    /\ cpc[c] = "body"
    /\ down[c] # << >>
    /\ \E n \in ReadSizes(down[c]) :
          /\ body' = [body EXCEPT ![c] = @ \o SubSeq(down[c], 1, n)]
          /\ down' = [down EXCEPT ![c] = SubSeq(@, n + 1, Len(@))]
    /\ cpc' = [cpc EXCEPT ![c] = IF Len(body'[c]) = rlen[c] THEN "done" ELSE "body"]
    /\ UNCHANGED << req, answer, conn, hdr, up, rhdr, rlen, queueVars,
                    workerVars, storeVars, adminVars >>

\* The client is killed.
Die(c) ==
    /\ cpc[c] \in {"header", "data", "reply", "body"}
    /\ cpc' = [cpc EXCEPT ![c] = "dead"]
    /\ UNCHANGED << req, answer, body, socketVars, queueVars, workerVars,
                    storeVars, adminVars >>

ClientStep(c) ==
    SendHeader(c) \/ SendData(c) \/ ReadReply(c) \/ ShortReply(c) \/ ReadBody(c)

-----------------------------------------------------------------------------
(***************************************************************************)
(* dbserver.c: listen_thread.                                              *)
(***************************************************************************)
Socket ==
    /\ Running
    /\ lpc = "socket"
    /\ listening' = TRUE
    /\ lpc' = "bind"
    /\ UNCHANGED << clientVars, socketVars, queueVars, workerVars, storeVars,
                    console, process >>

\* bind or listen fails: the port is taken, or cleanup has closed listen_sock.
Bind ==
    /\ Running
    /\ lpc = "bind"
    /\ \/ listening /\ lpc' = "accept" /\ UNCHANGED process
       \/ lpc' = "failed" /\ process' = "exit1"
    /\ UNCHANGED << clientVars, socketVars, queueVars, workerVars, storeVars,
                    console, listening >>

\* accept fails with BADFD once cleanup has closed listen_sock: the loop does
\* not notice.
Accept ==
    /\ Running
    /\ lpc = "accept"
    /\ newfd = NULL
    /\ IF listening
       THEN /\ backlog # << >>
            /\ newfd' = Head(backlog)
            /\ backlog' = Tail(backlog)
            /\ conn' = [conn EXCEPT ![Head(backlog)] = "open"]
       ELSE stat["fail"] < MaxFails /\ newfd' = BADFD /\ UNCHANGED << backlog, conn >>
    /\ UNCHANGED << clientVars, hdr, up, rhdr, rlen, down, wq, workerVars,
                    storeVars, adminVars >>

Enqueue ==
    /\ Running
    /\ newfd # NULL
    /\ Len(wq) < MaxTasks
    /\ wq' = Append(wq, newfd)
    /\ newfd' = NULL
    /\ UNCHANGED << clientVars, socketVars, backlog, workerVars, storeVars, adminVars >>

Listener == Socket \/ Bind \/ Accept \/ Enqueue
-----------------------------------------------------------------------------
(***************************************************************************)
(* worker.c: worker, dispatch and the handlers.                            *)
(***************************************************************************)
At(w, l) == Running /\ wpc[w] = l
GoTo(w, l) == wpc' = [wpc EXCEPT ![w] = l]
Count(n) == stat' = [stat EXCEPT ![n] = @ + 1]

-----------------------------------------------------------------------------
(***************************************************************************)
(* Faulty variants of single steps: none of them is part of Next.          *)
(***************************************************************************)
\* dequeue leaves the task in the queue.
DequeuePeeks(w) ==
    /\ At(w, "dequeue")
    /\ wq # << >>
    /\ fd' = [fd EXCEPT ![w] = Head(wq)]
    /\ GoTo(w, "recv")
    /\ UNCHANGED << clientVars, socketVars, queueVars, buf, got, ptr,
                    storeVars, adminVars >>

\* handle_write goes on when read() returns 0.
ReceiveNothingIgnored(w) ==
    /\ At(w, "payload")
    /\ buf[w] = << >>
    /\ Count("fail")
    /\ GoTo(w, "fail")
    /\ UNCHANGED << clientVars, socketVars, queueVars, fd, buf, got, ptr,
                    table, size, wanted, adminVars >>

\* kv_write leaves an existing key as it is.
KvWriteKeepsOld(w) ==
    LET k == req[fd[w]].key IN
    /\ At(w, "kv_write")
    /\ Find(table, k) # 0 \/ size # TABLE_MAX
    /\ table' = IF Find(table, k) = 0 THEN Prepend(table, k, buf[w]) ELSE table
    /\ size' = IF Find(table, k) = 0 THEN size + 1 ELSE size
    /\ wanted' = [wanted EXCEPT ![k] = req[fd[w]].data]
    /\ GoTo(w, "okay")
    /\ UNCHANGED << clientVars, socketVars, queueVars, fd, buf, got, ptr, stat, adminVars >>

\* The handlers reply 'X' without inc_fail.
KvFullUncounted(w) ==
    /\ At(w, "kv_write")
    /\ Find(table, req[fd[w]].key) = 0 /\ size = TABLE_MAX
    /\ GoTo(w, "fail")
    /\ UNCHANGED << clientVars, socketVars, queueVars, fd, buf, got, ptr,
                    storeVars, adminVars >>

\* kv_delete decrements size whether or not it found the key.
KvDeleteAlwaysCounts(w) ==
    LET k == req[fd[w]].key IN
    /\ At(w, "kv_delete")
    /\ table' = Deleted(table, k)
    /\ size' = size - 1
    /\ wanted' = [wanted EXCEPT ![k] = NULL]
    /\ GoTo(w, "okay")
    /\ UNCHANGED << clientVars, socketVars, queueVars, fd, buf, got, ptr, stat, adminVars >>

\* resp_fail does not write, or its caller goes on to resp_okay.
FailSilent(w) ==
    /\ At(w, "fail")
    /\ GoTo(w, "close")
    /\ UNCHANGED << clientVars, socketVars, queueVars, fd, buf, got, ptr,
                    storeVars, adminVars >>

FailFallsThrough(w) ==
    LET c == fd[w] IN
    /\ At(w, "fail")
    /\ rhdr' = IF c = BADFD THEN rhdr ELSE [rhdr EXCEPT ![c] = "X"]
    /\ GoTo(w, IF c = BADFD THEN "close" ELSE "okay")
    /\ UNCHANGED << clientVars, conn, hdr, up, rlen, down, queueVars, fd, buf, got, ptr,
                    storeVars, adminVars >>

\* cleanup takes the success of close for its failure.
CleanupCloseInverted ==
    IF listening
    THEN process' = "exit1" /\ listening' = FALSE
    ELSE UNCHANGED << listening, process >>

\* cleanup returns to dispatch without exit.
WorkerCleanupReturns(w) ==
    /\ At(w, "cleanup")
    /\ listening' = FALSE
    /\ GoTo(w, "close")
    /\ UNCHANGED << clientVars, socketVars, queueVars, fd, buf, got, ptr,
                    storeVars, console, lpc, process >>

-----------------------------------------------------------------------------
Dequeue(w) ==
    /\ At(w, "dequeue")
    /\ wq # << >>
    /\ fd' = [fd EXCEPT ![w] = Head(wq)]
    /\ wq' = Tail(wq)
    /\ GoTo(w, "recv")
    /\ UNCHANGED << clientVars, socketVars, backlog, newfd, buf, got, ptr,
                    storeVars, adminVars >>

\* dispatch reads a whole header, and the handler counts the request.
Dispatch(w) ==
    LET c == fd[w] IN
    /\ At(w, "recv")
    /\ c \in Clients /\ hdr[c]
    /\ hdr' = [hdr EXCEPT ![c] = FALSE]
    /\ \/ /\ req[c].op = "W" /\ Count("W") /\ GoTo(w, "payload")
          /\ buf' = [buf EXCEPT ![w] = [i \in 1 .. Len(req[c].data) |-> JUNK]]
          /\ got' = [got EXCEPT ![w] = 0]
       \/ req[c].op = "R" /\ Count("R") /\ GoTo(w, "kv_read") /\ UNCHANGED << buf, got >>
       \/ req[c].op = "D" /\ Count("D") /\ GoTo(w, "kv_delete") /\ UNCHANGED << buf, got >>
       \/ req[c].op = "Q" /\ GoTo(w, "cleanup") /\ UNCHANGED << buf, got, stat >>
       \/ /\ req[c].op \notin {"W", "R", "D", "Q"}
          /\ Count("fail") /\ GoTo(w, "fail") /\ UNCHANGED << buf, got >>
    /\ UNCHANGED << clientVars, conn, up, rhdr, rlen, down, queueVars, fd, ptr,
                    table, size, wanted, adminVars >>

\* dispatch reads less than a header: the client is gone, the descriptor is bad,
\* or read() returns only the first bytes, and the rest is never read.
ShortRead(w) ==
    LET c == fd[w] IN
    /\ At(w, "recv")
    /\ \/ c = BADFD
       \/ c \in Clients /\ ~ hdr[c] /\ Hangup(c)
       \/ c \in Clients /\ hdr[c] /\ Fragmented
    /\ Count("fail")
    /\ GoTo(w, "fail")
    /\ UNCHANGED << clientVars, socketVars, queueVars, fd, buf, got, ptr,
                    table, size, wanted, adminVars >>

\* What handle_write has in buf after reading the bytes s: each read starts at
\* the beginning of buf again.
Received(b, s) == [i \in 1 .. Len(b) |-> IF i <= Len(s) THEN s[i] ELSE b[i]]

\* One round of handle_write's loop that gets something.
Receive(w) ==
    LET c == fd[w] IN
    /\ At(w, "payload")
    /\ up[c] # << >> /\ got[w] < Len(buf[w])
    /\ \E n \in ReadSizes(up[c]) :
          /\ buf' = [buf EXCEPT ![w] = Received(@, SubSeq(up[c], 1, n))]
          /\ got' = [got EXCEPT ![w] = @ + n]
          /\ up' = [up EXCEPT ![c] = SubSeq(@, n + 1, Len(@))]
    /\ GoTo(w, IF got'[w] = Len(buf[w]) THEN "kv_write" ELSE "payload")
    /\ UNCHANGED << clientVars, conn, hdr, rhdr, rlen, down, queueVars, fd, ptr,
                    storeVars, adminVars >>

\* The loop ends with n = 0: short receive.  For an empty payload it never runs
\* and n is uninitialised, so that either branch may follow.
ReceiveNothing(w) ==
    LET c == fd[w] IN
    /\ At(w, "payload")
    /\ \/ up[c] = << >> /\ Hangup(c) /\ got[w] < Len(buf[w])
       \/ buf[w] = << >>
    /\ Count("fail")
    /\ GoTo(w, "fail")
    /\ UNCHANGED << clientVars, socketVars, queueVars, fd, buf, got, ptr,
                    table, size, wanted, adminVars >>

ReceiveEmpty(w) ==
    /\ At(w, "payload")
    /\ buf[w] = << >>
    /\ GoTo(w, "kv_write")
    /\ UNCHANGED << clientVars, socketVars, queueVars, fd, buf, got, ptr,
                    storeVars, adminVars >>

\* The string of key k in the table is freed: pointers to it dangle.
Dangling(k) ==
    [w \in Workers |-> IF ptr[w].key = k THEN [ptr[w] EXCEPT !.freed = TRUE] ELSE ptr[w]]

KvWrite(w) ==
    LET k == req[fd[w]].key IN
    /\ At(w, "kv_write")
    /\ Find(table, k) # 0 \/ size # TABLE_MAX
    /\ table' = Written(table, k, buf[w])
    /\ size' = IF Find(table, k) = 0 THEN size + 1 ELSE size
    /\ ptr' = IF Find(table, k) = 0 THEN ptr ELSE Dangling(k)
    /\ wanted' = [wanted EXCEPT ![k] = req[fd[w]].data]
    /\ GoTo(w, "okay")
    /\ UNCHANGED << clientVars, socketVars, queueVars, fd, buf, got, stat, adminVars >>

KvFull(w) ==
    LET k == req[fd[w]].key IN
    /\ At(w, "kv_write")
    /\ Find(table, k) = 0 /\ size = TABLE_MAX
    /\ Count("fail")
    /\ GoTo(w, "fail")
    /\ UNCHANGED << clientVars, socketVars, queueVars, fd, buf, got, ptr,
                    table, size, wanted, adminVars >>

KvRead(w) ==
    LET k == req[fd[w]].key IN
    /\ At(w, "kv_read")
    /\ IF Find(table, k) = 0
       THEN Count("fail") /\ GoTo(w, "fail") /\ UNCHANGED ptr
       ELSE /\ ptr' = [ptr EXCEPT ![w] =
                         [key |-> k, val |-> ValueOf(table, k), freed |-> FALSE]]
            /\ GoTo(w, "okay") /\ UNCHANGED stat
    /\ UNCHANGED << clientVars, socketVars, queueVars, fd, buf, got, table, size, wanted, adminVars >>

KvDelete(w) ==
    LET k == req[fd[w]].key IN
    /\ At(w, "kv_delete")
    /\ table' = Deleted(table, k)
    /\ size' = IF Find(table, k) = 0 THEN size ELSE size - 1
    /\ ptr' = IF Find(table, k) = 0 THEN ptr ELSE Dangling(k)
    /\ wanted' = [wanted EXCEPT ![k] = NULL]
    /\ GoTo(w, "okay")
    /\ UNCHANGED << clientVars, socketVars, queueVars, fd, buf, got, stat, adminVars >>

\* resp_okay, first write.  strlen of a freed string is anything.
Okay(w) ==
    LET c == fd[w] IN
    /\ At(w, "okay")
    /\ \E n \in IF req[c].op # "R" THEN {0}
                ELSE IF ptr[w].freed THEN 0 .. 2 ELSE {Len(ptr[w].val)} :
          /\ rlen' = [rlen EXCEPT ![c] = n]
          /\ GoTo(w, IF n > 0 THEN "okaydata" ELSE "close")
    /\ rhdr' = [rhdr EXCEPT ![c] = "K"]
    /\ UNCHANGED << clientVars, conn, hdr, up, down, queueVars, fd, buf, got, ptr,
                    storeVars, adminVars >>

\* resp_okay, second write.  If the client is gone the first write may have
\* been answered with a reset, and this one ends the process with SIGPIPE.
OkayData(w) ==
    LET c == fd[w] IN
    /\ At(w, "okaydata")
    /\ down' = [down EXCEPT ![c] = [i \in 1 .. rlen[c] |->
                   IF ptr[w].freed THEN JUNK ELSE ptr[w].val[i]]]
    /\ GoTo(w, "close")
    /\ process' \in IF Hangup(c) THEN {process, "sigpipe"} ELSE {process}
    /\ UNCHANGED << clientVars, conn, hdr, up, rhdr, rlen, queueVars, fd, buf, got, ptr,
                    storeVars, console, lpc, listening >>

\* resp_fail has counted the failure and writes its reply.
Fail(w) ==
    LET c == fd[w] IN
    /\ At(w, "fail")
    /\ rhdr' = IF c = BADFD THEN rhdr ELSE [rhdr EXCEPT ![c] = "X"]
    /\ GoTo(w, "close")
    /\ UNCHANGED << clientVars, conn, hdr, up, rlen, down, queueVars, fd, buf, got, ptr,
                    storeVars, adminVars >>

\* dispatch closes the connection and the worker frees its task.
Close(w) ==
    LET c == fd[w] IN
    /\ At(w, "close")
    /\ conn' = IF c = BADFD THEN conn ELSE [conn EXCEPT ![c] = "closed"]
    /\ fd' = [fd EXCEPT ![w] = NULL]
    /\ buf' = [buf EXCEPT ![w] = << >>]
    /\ got' = [got EXCEPT ![w] = 0]
    /\ ptr' = [ptr EXCEPT ![w] = NoPointer]
    /\ GoTo(w, "dequeue")
    /\ UNCHANGED << clientVars, hdr, up, rhdr, rlen, down, queueVars, storeVars, adminVars >>

-----------------------------------------------------------------------------
(***************************************************************************)
(* dbserver.c: cleanup, called by a worker for 'Q', by the console, and as *)
(* the handler of SIGINT.                                                  *)
(***************************************************************************)
\* The second call to get here fails to close listen_sock.
CleanupClose ==
    IF listening
    THEN listening' = FALSE /\ UNCHANGED process
    ELSE process' = "exit1" /\ UNCHANGED listening

WorkerCleanup(w) ==
    /\ \/ At(w, "cleanup") /\ CleanupClose /\ GoTo(w, "exit")
       \/ At(w, "exit") /\ process' = "exit0" /\ UNCHANGED << listening, wpc >>
    /\ UNCHANGED << clientVars, socketVars, queueVars, fd, buf, got, ptr,
                    storeVars, console, lpc >>

WorkerStep(w) ==
    \/ Dequeue(w) \/ Dispatch(w) \/ ShortRead(w)
    \/ Receive(w) \/ ReceiveNothing(w) \/ ReceiveEmpty(w)
    \/ KvWrite(w) \/ KvFull(w) \/ KvRead(w) \/ KvDelete(w)
    \/ Okay(w) \/ OkayData(w) \/ Fail(w) \/ Close(w)
    \/ WorkerCleanup(w)

ConsoleCleanup ==
    /\ Running
    /\ \/ console = "cleanup" /\ CleanupClose /\ console' = "exit"
       \/ console = "handler" /\ CleanupClose /\ console' = "handled"
       \/ /\ console \in {"exit", "handled"}
          /\ process' = "exit0" /\ UNCHANGED << console, listening >>
    /\ UNCHANGED << clientVars, socketVars, queueVars, workerVars, storeVars, lpc >>

\* A SIGINT interrupts the control thread's cleanup after its close, and the
\* handler is cleanup again.  One that comes before the close takes the place
\* of the call it interrupts.  Bound: no SIGINT in the handler.
Sigint ==
    /\ Running
    /\ console = "exit"
    /\ console' = "handler"
    /\ UNCHANGED << clientVars, socketVars, queueVars, workerVars, storeVars,
                    lpc, listening, process >>

\* The control thread reads a command, quit or end of file, or a SIGINT comes,
\* which does what quit does.  stats, list and help change nothing.
ConsoleCommand ==
    /\ Running
    /\ console = "prompt"
    /\ \/ console' = "cleanup" /\ UNCHANGED process
       \/ process' = "exit0" /\ UNCHANGED console
    /\ UNCHANGED << clientVars, socketVars, queueVars, workerVars, storeVars,
                    lpc, listening >>

Next ==
    \/ \E c \in Clients :
          \/ \E r \in Requests : Connect(c, r)
          \/ ClientStep(c) \/ Die(c)
    \/ Listener
    \/ \E w \in Workers : WorkerStep(w)
    \/ ConsoleCommand \/ ConsoleCleanup \/ Sigint

Spec == Init /\ [][Next]_vars

\* Every thread of the server that can run does, a client goes on once it has
\* connected, and a command of the console or a signal is carried out.
FairSpec ==
    /\ Spec
    /\ \A c \in Clients : WF_vars(ClientStep(c))
    /\ WF_vars(Listener)
    /\ \A w \in Workers : WF_vars(WorkerStep(w))
    /\ WF_vars(ConsoleCleanup)

-----------------------------------------------------------------------------
(***************************************************************************)
(* Properties                                                              *)
(***************************************************************************)
Told(c) == {rhdr[c], answer[c]} \ {NULL}

Count01(b) == IF b THEN 1 ELSE 0

\* A connection that the listener accepted is in one place only (the listener's
\* hands, the work queue, or one worker) until it is closed.
HeldOnce ==
    \A c \in Clients :
        Cardinality({i \in 1 .. Len(backlog) : backlog[i] = c}) + Count01(newfd = c)
          + Cardinality({i \in 1 .. Len(wq) : wq[i] = c})
          + Cardinality({w \in Workers : fd[w] = c})
        = Count01(conn[c] \in {"backlog", "open"})

\* dispatch answers every request before it closes the connection: the client
\* has one reply, or the reply is on its way.
AnsweredBeforeClose ==
    \A c \in Clients : conn[c] = "closed" => Cardinality(Told(c)) = 1

\* Once a reply is sent no handler sends another.
OneReply ==
    [][\A c \in Clients : Told(c) # {} => rhdr'[c] \in {rhdr[c], NULL}]_vars

\* accept has nothing to accept from: cleanup has closed listen_sock.
AcceptFails == lpc = "accept" /\ ~ listening

\* n_fails counts the 'X' replies: until accept fails they agree up to the
\* workers that are about to reply.
FailuresMatchReplies ==
    ~ AcceptFails =>
        stat["fail"] = Cardinality({c \in Clients : "X" \in Told(c)})
                         + Cardinality({w \in Workers : wpc[w] = "fail"})

\* worker.c:62, dbclient.c:280: what a client set and was served is what the
\* table holds, until another request changes that key.
StoreMatchesRequests ==
    \A k \in Keys : ValueOf(table, k) = wanted[k]

\* How many calls of cleanup in the control thread are past their close.
ConsoleCleanups ==
    IF console = "handled" THEN 2 ELSE Count01(console \in {"exit", "handler"})

\* The process ends with an error only if bind or listen failed or cleanup was
\* called twice (by two threads, or by a SIGINT on top of the console's quit),
\* and by a signal only if a client hung up before the data of its reply: it
\* died, or it gave up on a reply header that came in pieces.
ExitIsCaused ==
    /\ process = "exit1" =>
          \/ lpc = "failed"
          \/ Cardinality({w \in Workers : wpc[w] = "exit"})
               + ConsoleCleanups > 1
    /\ process = "sigpipe" =>
          \E c \in Clients :
              /\ req[c].op = "R"
              /\ cpc[c] = "dead" \/ (Fragmented /\ cpc[c] = "done" /\ rhdr[c] = "K")

\* Every client that connected gets to its end, except that a do_get whose
\* server exits between the two writes of its reply reads for ever.
ClientsFinish ==
    \A c \in Clients :
        cpc[c] = "header" ~> Hangup(c) \/ (cpc[c] = "body" /\ ~ Running)

\* A 'Q' request ends the server, unless its header comes in pieces: then
\* dispatch refuses it with an 'X' that do_quit does not wait for.
QuitEnds ==
    \A c \in Clients :
        (hdr[c] /\ req[c].op = "Q") ~> (~ Running \/ (Fragmented /\ rhdr[c] = "X"))
=============================================================================
